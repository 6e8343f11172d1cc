------------------------------ MODULE MCSignIn ------------------------------
(***************************************************************************)
(* Values for the constants of SignIn, as small instances for TLC.         *)
(***************************************************************************)
EXTENDS SignIn, TLC

\* Everybody has an identity at the first provider.
AllAtGitHub == [a \in People |-> "github"]
=============================================================================
