----------------------------- MODULE MCWviewctl -----------------------------
(***************************************************************************)
(* Instances of Wviewctl for TLC.                                          *)
(***************************************************************************)
EXTENDS Wviewctl

\* What the find callbacks read in every build: machine code, the address of
\* no callback.
CodeWord == [cb \in Callbacks |-> NoCallback]

\* What their authors meant them to read: the address they were asked for.
OwnAddress == [cb \in Callbacks |-> cb]

\* Bounds of the lists.
OneEach  == [k \in Kinds |-> 1]
TwoEach  == [k \in Kinds |-> 2]
TwoMouse == [OneEach EXCEPT !["mouse"] = 2, !["keyboard"] = 0]
=============================================================================
