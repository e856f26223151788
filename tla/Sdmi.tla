-------------------------------- MODULE Sdmi --------------------------------
(* The interactive tool (test/sdmi.cpp): a loop that reads a line, splits   *)
(* it, and calls the database.  The database is what the tool sees of it:   *)
(* a call is taken or refused, or the process ends (see SdmDatabase).       *)
(*                                                                         *)
(* A word is the sequence of its parts between ':'.  An operator that       *)
(* stands directly before a definition and is used by none is a wrong       *)
(* version of it, for the mutants PROJECT.json lists.                       *)
EXTENDS Integers, Sequences, FiniteSets

CONSTANTS
  Words,        \* words of a line that may be typed
  Contents,     \* sequences of lines a file may have, each of them a word
  Prefix,       \* --prefix, the default space
  Plain,        \* a part and the part without its wild cards
  MaxCommands   \* bound: commands typed

NoSymbol == <<>>

ASSUME SdmiAssumption ==
  /\ Words \cup UNION {{f[k] : k \in DOMAIN f} : f \in Contents}
       \subseteq Seq(DOMAIN Plain)
  /\ MaxCommands \in Nat

VARIABLES
  symbols,   \* the symbols of the database: space and name, a word
  lessons,   \* pairs of target and source superposed
  shell,     \* "prompt", "load", or how the process ended
  commands,  \* commands typed
  lines,     \* lines of the file that are still to read
  n,         \* lines loaded
  fate,      \* history: what became of each line of the file
  typed,     \* history: the words typed or read from a file
  overread   \* history: cv[2] was read and there was no such word

file == <<lines, n, fate>>
shellVars == <<symbols, lessons, shell, commands, file, typed, overread>>

-----------------------------------------------------------------------------

\* parse_symbol: the space and the name, without wild cards.
ParseLoose(word) ==
  IF word = <<>> THEN NoSymbol
  ELSE IF Len(word) = 1 THEN <<Prefix, <<Plain[word[1]]>>>>
  ELSE <<Plain[word[1]], <<Plain[word[Len(word) - 1]]>>>>
Parse(word) ==
  IF Len(word) = 1 THEN <<Prefix, <<Plain[word[1]]>>>>
  ELSE IF Len(word) = 2 THEN <<Plain[word[1]], <<Plain[word[2]]>>>>
  ELSE NoSymbol

\* The next command: the rest of it is up to the one that was typed.
Command(words) ==
  /\ shell = "prompt"
  /\ commands < MaxCommands
  /\ commands' = commands + 1
  /\ typed' = typed \cup words

\* A call that ends in an exception, in a noexcept function.
Ends == shell' = "terminated" /\ UNCHANGED <<symbols, lessons>>

Define(word) ==
  /\ Command({word})
  /\ Parse(word) # NoSymbol
  /\ \/ symbols' = symbols \cup {Parse(word)} /\ UNCHANGED <<lessons, shell>>
     \/ UNCHANGED <<symbols, lessons, shell>>
     \/ Ends
  /\ UNCHANGED <<file, overread>>

\* superpose makes its source first, and may fail after that.
Made(target, source) == {target, source}

Superpose(target, source) ==
  \/ /\ symbols' = symbols \cup Made(target, source)
     /\ lessons' = lessons \cup {<<target, source>>}
     /\ UNCHANGED shell
  \/ /\ \E made \in SUBSET {source} : symbols' = symbols \cup made
     /\ UNCHANGED <<lessons, shell>>
  \/ /\ \E made \in SUBSET {source} : symbols' = symbols \cup made
     /\ shell' = "terminated"
     /\ UNCHANGED lessons

\* "^" and "+": the shift that "+" passes is not used.
Relate(word, second) ==
  /\ Command({word, second})
  /\ Parse(word) # NoSymbol /\ Parse(second) # NoSymbol
  /\ Superpose(Parse(word), Parse(second))
  /\ UNCHANGED <<file, overread>>

\* One word: cv[2] is past the end of cv, and its value any word, or the
\* process ends.  It is read if the first word is a symbol.
RelateOne(word) ==
  /\ Command({word})
  /\ Parse(word) # NoSymbol
  /\ overread' = TRUE
  /\ \/ Ends
     \/ \E second \in Words :
           /\ Parse(second) # NoSymbol
           /\ Superpose(Parse(word), Parse(second))
     \/ UNCHANGED <<symbols, lessons, shell>>
  /\ UNCHANGED file

\* Subtraction changes nothing, the others are lookups; a word that is no
\* symbol, or a search, leaves everything too.
Ask(words) ==
  /\ Command(words)
  /\ \/ UNCHANGED <<symbols, lessons, shell>>
     \/ /\ \E word \in words : Parse(word) # NoSymbol
        /\ Ends
  /\ UNCHANGED <<file, overread>>

AskOne(word) ==
  /\ Command({word})
  /\ Parse(word) # NoSymbol
  /\ overread' = TRUE
  /\ Ends \/ UNCHANGED <<symbols, lessons, shell>>
  /\ UNCHANGED file

\* A backslash the tokenizer does not know: it throws and nobody catches.
BadEscape ==
  /\ Command({})
  /\ Ends
  /\ UNCHANGED <<file, overread>>

OpenFile(f) ==
  /\ Command({})
  /\ lines' = f
  /\ n' = 0
  /\ fate' = <<>>
  /\ shell' = "load"
  /\ UNCHANGED <<symbols, lessons, overread>>

CannotOpen ==
  /\ Command({})
  /\ UNCHANGED <<symbols, lessons, shell, file, overread>>

KeepLoading == UNCHANGED shell
StopLoading == shell' = "prompt"

\* A line is parsed to see that it is a symbol, and loaded as it stands.
LoadLine ==
  /\ shell = "load"
  /\ lines # <<>>
  /\ lines' = Tail(lines)
  /\ typed' = typed \cup {Head(lines)}
  /\ \/ /\ Parse(Head(lines)) # NoSymbol
        /\ symbols' = symbols \cup {<<Prefix, Head(lines)>>}
        /\ n' = n + 1
        /\ fate' = Append(fate, "loaded")
        /\ UNCHANGED shell
     \/ /\ Parse(Head(lines)) = NoSymbol
        /\ fate' = Append(fate, "skipped")
        /\ UNCHANGED <<symbols, n, shell>>
     \/ /\ Parse(Head(lines)) # NoSymbol
        /\ fate' = Append(fate, "refused")
        /\ StopLoading
        /\ UNCHANGED <<symbols, n>>
     \/ /\ Parse(Head(lines)) # NoSymbol
        /\ shell' = "terminated"
        /\ UNCHANGED <<symbols, n, fate>>
  /\ UNCHANGED <<lessons, commands, overread>>

Loaded ==
  /\ shell = "load"
  /\ lines = <<>>
  /\ shell' = "prompt"
  /\ UNCHANGED <<symbols, lessons, commands, file, typed, overread>>

EndOfInput ==
  /\ shell = "prompt"
  /\ shell' = "done"
  /\ UNCHANGED <<symbols, lessons, commands, file, typed, overread>>

ShellInit ==
  /\ symbols = {} /\ lessons = {}
  /\ shell = "prompt" /\ commands = 0
  /\ lines = <<>> /\ n = 0 /\ fate = <<>>
  /\ typed = {} /\ overread = FALSE

ShellNext ==
  \/ \E word \in Words :
        Define(word) \/ RelateOne(word) \/ Ask({word}) \/ AskOne(word)
  \/ \E word, second \in Words : Relate(word, second) \/ Ask({word, second})
  \/ \E f \in Contents : OpenFile(f)
  \/ BadEscape
  \/ CannotOpen
  \/ LoadLine
  \/ Loaded
  \/ EndOfInput

ShellSpec == ShellInit /\ [][ShellNext]_shellVars

-----------------------------------------------------------------------------

ShellTypes ==
  /\ shell \in {"prompt", "load", "done", "terminated"}
  /\ commands \in 0 .. MaxCommands
  /\ n \in 0 .. Len(fate)
  /\ overread \in BOOLEAN

\* The lines of the file that fared so.
Fates(what) == {k \in DOMAIN fate : fate[k] = what}

(* A load stops at the first line the database refuses and counts those it *)
(* took before, a name it had already among them; without a refusal it has *)
(* read the whole file, over the lines that are no symbols, unless it      *)
(* ended on the way (sdmi.cpp:251-266).                                    *)
LoadCounted ==
  /\ ShellTypes
  /\ n = Cardinality(Fates("loaded"))
  /\ Fates("refused") \subseteq {Len(fate)}
  /\ shell = "load" => Fates("refused") = {}
  /\ shell = "prompt" /\ Fates("refused") = {} => lines = <<>>

(* A symbol is in the database because its words were typed or were in a   *)
(* file, in the space they name or in the default one, and a lesson is     *)
(* between two of these: unless a command lacked its second word, whatever *)
(* was refused, skipped or left half done (sdmi.cpp:193-387).              *)
OnlyWhatWasNamed ==
  /\ lessons \subseteq symbols \X symbols
  /\ ~overread =>
       \A sym \in symbols : \E word \in typed :
          \/ Len(word) = 2 /\ sym = <<Plain[word[1]], <<Plain[word[2]]>>>>
          \/ Len(word) = 1 /\ sym = <<Prefix, <<Plain[word[1]]>>>>
          \/ Len(word) \in {1, 2} /\ sym = <<Prefix, word>>

-----------------------------------------------------------------------------

(* "default space name for unqalified symbols" (sdmi.cpp:156): no symbol   *)
(* of the default space has a name that is qualified.                      *)
QualifiedElsewhere ==
  \A sym \in symbols : sym[1] = Prefix => Len(sym[2]) = 1

=============================================================================
