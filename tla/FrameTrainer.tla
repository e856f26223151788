---------------------------- MODULE FrameTrainer ----------------------------
(* The frame trainer (test/frametrain.cpp): reads lines of terms, and has  *)
(* the database superpose each term of a line on the line's frame and the  *)
(* terms of a line on one another.  The status of a superpose is dropped.  *)
(*                                                                         *)
(* Lines are read as the tokens they split into; the first token of a line *)
(* is the frame's name when lines have frame ids.  An operator that stands *)
(* directly before a definition and is used by none is a wrong version of  *)
(* it, for the mutants PROJECT.json lists.                                 *)
EXTENDS Integers, Sequences, FiniteSets

CONSTANTS
  Lines,      \* token sequences a line of the input may split into
  MaxRows,    \* bound: lines of the input
  Switches    \* command lines: records of the four options below

NoFrame == ""   \* the frameid before any is read

ASSUME TrainerAssumption ==
  /\ Lines \subseteq Seq(STRING)
  \* a line is trimmed before it is split, its first token after that
  /\ \A line \in Lines : line # <<>> => line[1] # NoFrame
  /\ MaxRows \in Nat
  /\ Switches \subseteq [frameids : BOOLEAN, reverse_index : BOOLEAN,
                         cotrain : BOOLEAN, symmetric : BOOLEAN]

VARIABLES
  opts,     \* the switches: --frameids, --framespace, --cotrain, --symmetric
  pc,       \* the loop the trainer is in
  rows, frames, empty,    \* its statistics
  frameid,  \* the frame it is in
  tv,       \* the tokens of the line
  first, next,            \* the iterators of the loops
  taught,   \* lessons the database has taken: space and name, twice
  input,    \* history: the lines read
  log,      \* history: the calls for this line, by position in it
  refused   \* history: some superpose reported an error

stats == <<rows, frames, empty>>
vars  == <<opts, pc, stats, frameid, tv, first, next, taught, input, log, refused>>

-----------------------------------------------------------------------------

Start == IF opts.frameids THEN 1 ELSE 0

\* termset: a list, a term may be in it more than once.
Termset == SubSeq(tv, Start + 1, Len(tv))
Size    == Len(tv) - Start

Goto(step) == pc' = step

ReadEmpty ==
  /\ pc = "read"
  /\ rows < MaxRows
  /\ <<>> \in Lines
  /\ input' = Append(input, <<>>)
  /\ rows' = rows + 1
  /\ empty' = empty + 1
  /\ UNCHANGED <<opts, pc, frames, frameid, tv, first, next, taught, log, refused>>

\* A change of frame is a frame id that is not the one before.
EveryLine(id) == TRUE
FirstFrameOnly(id) == frameid = NoFrame
ChangeOfFrame(id) == frameid # id

ReadLine ==
  /\ pc = "read"
  /\ rows < MaxRows
  /\ \E line \in Lines \ {<<>>} :
        /\ tv' = line
        /\ input' = Append(input, line)
        /\ \/ /\ opts.frameids
              /\ ChangeOfFrame(line[1])
              /\ frameid' = line[1]
              /\ frames' = frames + 1
           \/ /\ opts.frameids
              /\ ~ChangeOfFrame(line[1])
              /\ UNCHANGED <<frameid, frames>>
           \/ /\ ~opts.frameids
              /\ frames' = frames + 1
              /\ UNCHANGED frameid
  /\ rows' = rows + 1
  /\ log' = <<>>
  /\ first' = 1
  /\ Goto("reverse")
  /\ UNCHANGED <<opts, empty, next, taught, refused>>

\* db.superpose(...): the lesson is taken, or refused and the trainer goes
\* on as if it had been, or the process ends (see SdmDatabase).
Superpose(lesson, at, goOn) ==
  \/ /\ taught' = taught \cup {lesson}
     /\ log' = Append(log, at)
     /\ goOn
     /\ UNCHANGED refused
  \/ /\ refused' = TRUE
     /\ log' = Append(log, at)
     /\ goOn
     /\ UNCHANGED taught
  \/ /\ Goto("terminated")
     /\ UNCHANGED <<taught, log, refused, first, next>>

OnFrame(term)  == <<"frame", frameid, "term", term>>
OnTerm(t, s)   == <<"term", t, "term", s>>

\* The reverse index: each term on the frame.
Reverse ==
  /\ pc = "reverse"
  /\ opts.reverse_index
  /\ first <= Size
  /\ Superpose(OnFrame(Termset[first]), <<"frame", first>>,
               /\ first' = first + 1
               /\ UNCHANGED <<pc, next>>)
  /\ UNCHANGED <<opts, stats, frameid, tv, input>>

EndReverse ==
  /\ pc = "reverse"
  /\ ~opts.reverse_index \/ first > Size
  /\ first' = 1
  /\ next' = 2
  /\ Goto("cotrain")
  /\ UNCHANGED <<opts, stats, frameid, tv, taught, input, log, refused>>

\* Pairs of terms: the later one on the earlier one, and the other way round
\* if the relation is symmetric.
Forward ==
  /\ pc = "cotrain"
  /\ opts.cotrain
  /\ next <= Size
  /\ Superpose(OnTerm(Termset[first], Termset[next]), <<"term", first, next>>,
               /\ IF opts.symmetric
                  THEN Goto("back") /\ UNCHANGED next
                  ELSE next' = next + 1 /\ UNCHANGED pc
               /\ UNCHANGED first)
  /\ UNCHANGED <<opts, stats, frameid, tv, input>>

Back ==
  /\ pc = "back"
  /\ Superpose(OnTerm(Termset[next], Termset[first]), <<"term", next, first>>,
               /\ next' = next + 1
               /\ Goto("cotrain")
               /\ UNCHANGED first)
  /\ UNCHANGED <<opts, stats, frameid, tv, input>>

NoMoreTerms == first >= Size

FromTheFirst == 2
FromTheNext  == first + 2

NextFirst ==
  /\ pc = "cotrain"
  /\ opts.cotrain
  /\ next > Size
  /\ ~NoMoreTerms
  /\ first' = first + 1
  /\ next' = FromTheNext
  /\ UNCHANGED <<opts, pc, stats, frameid, tv, taught, input, log, refused>>

EndCotrain ==
  /\ pc = "cotrain"
  /\ ~opts.cotrain \/ NoMoreTerms
  /\ Goto("read")
  /\ UNCHANGED <<opts, stats, frameid, tv, first, next, taught, input, log, refused>>

EndOfInput ==
  /\ pc = "read"
  /\ Goto("done")
  /\ UNCHANGED <<opts, stats, frameid, tv, first, next, taught, input, log, refused>>

Init ==
  /\ opts \in Switches
  /\ pc = "read"
  /\ rows = 0 /\ frames = 0 /\ empty = 0
  /\ frameid = NoFrame
  /\ tv = <<>>
  /\ first = 1 /\ next = 2
  /\ taught = {}
  /\ input = <<>>
  /\ log = <<>>
  /\ refused = FALSE

Next ==
  \/ ReadEmpty
  \/ ReadLine
  \/ Reverse
  \/ EndReverse
  \/ Forward
  \/ Back
  \/ NextFirst
  \/ EndCotrain
  \/ EndOfInput

Spec == Init /\ [][Next]_vars

-----------------------------------------------------------------------------

TypeOK ==
  /\ opts \in Switches
  /\ pc \in {"read", "reverse", "cotrain", "back", "done", "terminated"}
  /\ {rows, frames, empty} \subseteq 0 .. MaxRows
  /\ Size \in 0 .. Len(tv) \/ tv = <<>>
  /\ first \in Nat /\ next \in Nat
  /\ pc \in {"back"} => first < next /\ next <= Size

\* The calls made for the line, by the positions of its terms.
Calls(at) == Cardinality({k \in DOMAIN log : log[k] = at})

(* When a line is done with, each of its terms was put on the frame once   *)
(* if there is a reverse index, each pair of its positions was trained     *)
(* once, the later on the earlier, and once more the other way round if    *)
(* the relation is symmetric; no term was put on itself, and every pair    *)
(* came after every frame (frametrain.cpp:284-300).                        *)
LineTrained ==
  pc = "read" /\ tv # <<>> =>
    /\ \A i \in 1 .. Size :
          Calls(<<"frame", i>>) = IF opts.reverse_index THEN 1 ELSE 0
    /\ \A i, j \in 1 .. Size :
          Calls(<<"term", i, j>>) =
             IF opts.cotrain /\ (i < j \/ (opts.symmetric /\ j < i)) THEN 1 ELSE 0
    /\ \A k, l \in DOMAIN log :
          log[k][1] = "frame" /\ log[l][1] = "term" => k < l

\* The lines read that have a token, by their position in the input.
Filled == {k \in DOMAIN input : input[k] # <<>>}

\* A line of the frame of the last line before it that has a token.
Continues(k) ==
  \E j \in Filled : /\ j < k /\ input[j][1] = input[k][1]
                    /\ \A l \in Filled : ~(j < l /\ l < k)

(* The statistics are of the input: a row is empty or belongs to a frame,  *)
(* and with frame ids a frame is a run of lines that begin alike, empty    *)
(* lines not counting (frametrain.cpp:249-271, 302).                       *)
FramesCounted ==
  /\ TypeOK
  /\ rows = Len(input)
  /\ empty = rows - Cardinality(Filled)
  /\ frames = IF opts.frameids THEN Cardinality({k \in Filled : ~Continues(k)})
              ELSE Cardinality(Filled)

\* A lesson of each term of the lines on the frame of its line.
FrameOf(line) == IF opts.frameids THEN line[1] ELSE NoFrame
FrameLessons ==
  UNION {{<<"frame", FrameOf(input[k]), "term", input[k][i]>> :
            i \in Start + 1 .. Len(input[k])} : k \in DOMAIN input}

(* With frame ids a frame is taught the terms of the lines that bear its   *)
(* id and no other; without, the one frame with the empty name is taught   *)
(* those of all lines, each of its tokens.  If no superpose was refused it *)
(* is taught all of those of the lines that are done with (frametrain.cpp: *)
(* 231, 262-271, 284).                                                     *)
FramesHoldTheirTerms ==
  /\ {lesson \in taught : lesson[1] = "frame"} \subseteq FrameLessons
  /\ pc \in {"read", "done"} /\ ~refused /\ opts.reverse_index =>
       FrameLessons \subseteq taught

-----------------------------------------------------------------------------

(* "lines start with frame ids to group frames else assume 1 line/frame"   *)
(* (frametrain.cpp:121): without frame ids no frame is taught the terms of *)
(* two lines that share none.                                              *)
OneLinePerFrame ==
  ~opts.frameids =>
    \A x, y \in taught :
       x[1] = "frame" /\ y[1] = "frame" /\ x[2] = y[2] =>
          \E k \in DOMAIN input : \E i, j \in DOMAIN input[k] :
             input[k][i] = x[4] /\ input[k][j] = y[4]

=============================================================================
