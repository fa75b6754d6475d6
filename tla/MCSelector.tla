---------------------------- MODULE MCSelector ----------------------------
(***************************************************************************)
(* Every map of eight choices of three and of eleven of two, bytes of two  *)
(* bits and matches of two bytes and more.                                 *)
(***************************************************************************)
EXTENDS Selector

MCInputs == [1 .. 8 -> 0 .. 2] \cup [1 .. 11 -> 0 .. 1]
MCFirstRecent == <<1, 2, 3>>

\* Different bytes may have the same hash.
MCHash(bs) == (bs[1] + bs[2]) % 3
MCHashes == 0 .. 2

=============================================================================
