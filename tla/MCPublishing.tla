---------------------------- MODULE MCPublishing ----------------------------
(***************************************************************************)
(* Values for the constants of Publishing, as small instances for TLC.     *)
(* A version is a number; 0 stands for one that compares with nothing.     *)
(***************************************************************************)
EXTENDS Publishing, TLC

MCOrder ==
  [pair \in Versions \X Versions |->
     IF 0 \in {pair[1], pair[2]}   THEN "unknown"
     ELSE IF pair[2] > pair[1]     THEN "higher"
     ELSE IF pair[2] < pair[1]     THEN "lower"
     ELSE "equal"]

\* d1 is what every request claims; d3 is another thing altogether, five times as long.
MCSize == [d \in Digests |-> IF d = "d1" THEN 4 ELSE 20]

Ask(account, key, version, host, sha) ==
  [account |-> account, key |-> key,
   sub |-> [plugin |-> "p", version |-> version, host |-> host, sha |-> sha]]

Asked(version, host, sha) ==
  [plugin |-> "p", version |-> version, host |-> host, sha |-> sha]

\* The catalogue: p was imported at version 1.
SeedOne == {Asked(1, "h1", "d1")}

AnnHolds     == [p \in Plugins |-> {"ann"}]
EveryoneHolds == [p \in Plugins |-> Accounts]
AllTrusted   == [a \in Accounts |-> "trusted"]
AllNew       == [a \in Accounts |-> "new"]

\* Two releases of one author, each with its own key.
RacingVersions == { Ask("ann", "k1", 2, "h1", "d1"), Ask("ann", "k2", 3, "h1", "d1") }

\* The same two, and a change for every quarantine rule: another host, a version that
\* compares with nothing or goes back, and an artifact five times the size.
RacingChanges ==
  RacingVersions \cup
  { Ask("ann", "k1", 3, "h2", "d1"), Ask("ann", "k1", 0, "h1", "d1"),
    Ask("ann", "k2", 3, "h1", "d3") }

\* One key used for two bodies, and another account that names it too.
OneKey == { Ask("ann", "k1", 2, "h1", "d1"), Ask("ann", "k1", 3, "h1", "d1"),
            Ask("bob", "k1", 2, "h1", "d1"), Ask("cat", "k1", 3, "h1", "d1") }

\* One request, made again and again.
OneRequest == { Ask("ann", "k1", 2, "h1", "d1") }

Interchangeable == Permutations(Calls) \cup Permutations(Checks)
=============================================================================
