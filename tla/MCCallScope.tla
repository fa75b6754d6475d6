---------------------------- MODULE MCCallScope -----------------------------
(* CallScope with volumes as large as the sample and larger.                  *)
EXTENDS CallScope
=============================================================================
