----------------------------- MODULE MCSchedule -----------------------------
(* Schedule for every slope on a volume with short first, full middle and     *)
(* split groups.                                                              *)
EXTENDS Schedule

MCSlopes == 2 .. 4
=============================================================================
