------------------------------ MODULE MCAccess ------------------------------
(***************************************************************************)
(* Values for the constants of Access, as small instances for TLC.         *)
(***************************************************************************)
EXTENDS Access, TLC

\* A token pinned to p, one for any plugin, one that cannot publish, and one nobody gets.
AskedScopes == { <<{"plugin:publish"}, "p">>, <<{"plugin:publish"}, None>>,
                 <<{"plugin:read"}, None>>, <<{"admin"}, None>> }

Send(op, bearer, s, form, p) ==
  [op |-> op, bearer |-> bearer, cookie |-> s, form |-> form, plugin |-> p]

\* CI publishes with a token, and a browser's cookie may go along; browsers post forms, of
\* the session they are in or of an earlier one; and a token is tried where none is welcome.
SentHere ==
       {Send("publish", t, s, None, p) :
          t \in Tokens \cup {None}, s \in Sessions \cup {None}, p \in {"p"}}
  \cup {Send("publish", t, None, None, "q") : t \in Tokens}
  \cup {Send(op, None, s, form, None) :
          op \in Forms, s \in Sessions, form \in Sessions}
  \cup {Send(op, None, s, None, None) : op \in {"directory", "logout"}, s \in Sessions}
  \cup {Send(op, t, None, None, None) : op \in {"directory", "review"}, t \in Tokens}
  \cup {Send("review", None, s, None, None) : s \in Sessions}

Interchangeable == Permutations(Slots) \cup Permutations(Sessions)
=============================================================================
