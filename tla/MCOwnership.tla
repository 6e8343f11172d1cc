---------------------------- MODULE MCOwnership -----------------------------
(***************************************************************************)
(* Values for the constants of Ownership, as small instances for TLC.      *)
(***************************************************************************)
EXTENDS Ownership, TLC

\* Everybody has a name.
TwoNamed   == [a \in People |-> IF a = "ann" THEN "x" ELSE "y"]

NoFile    == << >>
TwoOwners == << <<"p", "x">>, <<"p", "y">>, <<"q", "x">> >>
=============================================================================
