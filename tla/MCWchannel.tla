---------------------------- MODULE MCWchannel -----------------------------
(***************************************************************************)
(* Two threads that both create and destroy channels, for TLC.  Threads,   *)
(* channels and addresses are interchangeable; descriptors are numbers.    *)
(***************************************************************************)
EXTENDS Wchannel, TLC

Symmetry == Permutations(Threads) \cup Permutations(Channels) \cup Permutations(Addresses)
=============================================================================
