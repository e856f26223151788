---------------------------- MODULE MCImageFile ----------------------------
(* Two processes and an image: one public and one hidden name.             *)
EXTENDS ImageFile, TLC

CONSTANTS p1, p2, nil, dead

TwoProcs == {p1, p2}
PublicAndHidden == {"A", "_h"}
OneHidden == {"_h"}
Both == {"rw", "ro"}
=============================================================================
