---------------------------- MODULE MCCatalogue -----------------------------
(***************************************************************************)
(* Values for the constants of Catalogue, as a small instance for TLC.     *)
(***************************************************************************)
EXTENDS Catalogue, TLC

\* A catalogue of one plugin, the same with notes that do not pass, and an empty file.
SeedFiles == { [lists |-> {<<"p", 1>>}, clean |-> TRUE],
               [lists |-> {<<"p", 1>>}, clean |-> FALSE],
               [lists |-> {}, clean |-> TRUE] }

Interchangeable == Permutations(Accounts)
=============================================================================
