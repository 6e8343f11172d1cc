----------------------------- MODULE MCVersions -----------------------------
(***************************************************************************)
(* Values for the constants of Versions that a .cfg cannot write.          *)
(***************************************************************************)
EXTENDS Versions

\* With a Width of 4: one, and the least int.
EpochsAtTheEnds == {1, MinInt}
=============================================================================
