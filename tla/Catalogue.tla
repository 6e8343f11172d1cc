----------------------------- MODULE Catalogue ------------------------------
(***************************************************************************)
(* What the registry lists, and what it says about it: the boot of the     *)
(* server (cmd/regserve), migrations (internal/store), the import of a     *)
(* catalogue (internal/plugin), moderation (internal/review/plugins.go)    *)
(* and the pages that read more than once: the public directory, the       *)
(* moderator's console and the page of a release under review.             *)
(*                                                                         *)
(* A transaction is one step.  A page reads outside of any, statement by   *)
(* statement, each of what is committed when it runs.  Releases move as    *)
(* module ReleaseLife allows, and holders as module Holders does.          *)
(***************************************************************************)
EXTENDS Naturals, Sequences, FiniteSets, SequencesExt

CONSTANTS
  Plugins, Versions, Accounts,
  Reasons,    \* what a moderator may write, once trimmed and found not empty
  Seeds,      \* seed files that parse
  Binaries,   \* the newest migration each build carries
  MaxTrail,   \* bound: audit rows in all
  None

VARIABLES
  process,    \* the server: see Phases
  binary,     \* the build that runs, or ran last
  seed,       \* the seed file as LoadSeed read it; None if none is configured
  schema,     \* the newest migration applied to the database
  overtaken,  \* a history: a command migrated past this build after its boot compared
  claimed,    \* the plugin table: ids that are taken
  delisted,   \* delisted[p]: the reason on the row of p; None if it is not delisted
  state,      \* the release table, as module ReleaseLife has it
  holders,    \* the plugin_owner table
  imports,    \* the catalogue.import audit rows
  trail,      \* trail[p]: the audit rows about p and its releases, in order
  page        \* the page being put together

boot  == <<process, binary, seed, schema, overtaken>>
table == <<claimed, delisted, state, holders, imports, trail>>
vars  == <<boot, table, page>>

Life    == INSTANCE ReleaseLife
Holding == INSTANCE Holders

Phases == {"down", "started", "opened", "migrating", "migrated", "serving", "bare"}

\* What a seed file lists, and whether its release notes pass the validator.
Seed == [lists : SUBSET (Plugins \X Versions), clean : BOOLEAN]

ASSUME CatalogueAssumption ==
  /\ IsFiniteSet(Plugins) /\ IsFiniteSet(Versions)
  /\ Seeds \subseteq Seed
  /\ \A s \in Seeds : \A x, y \in s.lists : x[1] = y[1] => x = y
  /\ Binaries \subseteq Nat
  /\ MaxTrail \in Nat
  /\ None \notin Seeds /\ None \notin Reasons /\ None \notin Versions

-----------------------------------------------------------------------------
(* Boot.                                                                   *)

\* Where the process stands; and what stopping takes with it.
Boot(phase) == process' = phase /\ UNCHANGED <<table, page>>

(***************************************************************************)
(* A process starts, of some build and with some seed file.  One that does *)
(* not parse ends it here, before the database is touched.                 *)
(***************************************************************************)
Start(b, file) ==
  /\ process = "down"
  /\ Boot("started")
  /\ binary' = b
  /\ seed' = file
  /\ overtaken' = FALSE
  /\ UNCHANGED schema

\* openDatabase: a server that cannot open its file serves all the same, without a catalogue.
OpenDatabase ==
  /\ process = "started"
  /\ Boot("opened") \/ Boot("bare")
  /\ UNCHANGED <<binary, seed, schema, overtaken>>

SchemaNotCompared == FALSE
SchemaAhead == schema > binary

(***************************************************************************)
(* Migrate compares the schema with what the build carries, once, and then *)
(* has goose bring the migrations that are missing, each in a transaction  *)
(* and never one back.                                                     *)
(***************************************************************************)
Migrate ==
  /\ \/ /\ process = "opened"
        /\ IF SchemaAhead THEN Boot("down") ELSE Boot("migrating")
        /\ UNCHANGED schema
     \/ /\ process = "migrating"
        /\ schema < binary
        /\ schema' = schema + 1
        /\ UNCHANGED <<process, table, page>>
     \/ /\ process = "migrating"
        /\ schema >= binary
        /\ Boot("migrated")
        /\ UNCHANGED schema
  /\ UNCHANGED <<binary, seed, overtaken>>

Brought == IF seed = None THEN {} ELSE seed.lists

\* What makes ImportSeed leave the database alone.
SkipIfImported == Len(imports) > 0 \/ Brought = {}
Skip == claimed # {} \/ Len(imports) > 0 \/ Brought = {}

(***************************************************************************)
(* ImportSeed: every plugin of the file is claimed, by nobody, with its    *)
(* release approved, and one audit row is the mark that this was done.     *)
(* Notes that do not pass end the transaction, and the process with it.    *)
(***************************************************************************)
ImportSeed ==
  /\ process = "migrated"
  /\ \/ Skip /\ Boot("serving")
     \/ ~Skip /\ ~seed.clean /\ Boot("down")
     \/ /\ ~Skip /\ seed.clean
        /\ process' = "serving"
        /\ claimed' = claimed \cup {x[1] : x \in Brought}
        /\ state' = [id \in DOMAIN state |-> IF id \in Brought THEN "approved" ELSE state[id]]
        /\ imports' = Append(imports, [found |-> claimed, brought |-> Brought])
        /\ UNCHANGED <<delisted, holders, trail, page>>
  /\ seed' = None   \* not read again
  /\ UNCHANGED <<binary, schema, overtaken>>

NoPage == [kind |-> None, about |-> None, shown |-> <<>>]

\* The process is stopped, or dies, at any point; so does the page it was making.
Stop ==
  /\ process # "down"
  /\ process' = "down"
  /\ seed' = None
  /\ page' = NoPage
  /\ UNCHANGED <<binary, schema, overtaken, table>>

Compared == process \in {"migrating", "migrated", "serving"}

(***************************************************************************)
(* One migration by another process, of some build, on the same file:      *)
(* `regserve migrate`, or seed-owners before it imports.  Neither asks     *)
(* whether a server is running.                                            *)
(***************************************************************************)
MigrateCommand(b) ==
  /\ schema < b
  /\ schema' = schema + 1
  /\ overtaken' = (overtaken \/ (Compared /\ schema' > binary))
  /\ UNCHANGED <<process, binary, seed, table, page>>

-----------------------------------------------------------------------------
(* What requests write.                                                    *)

Serving == process = "serving" /\ UNCHANGED <<boot, imports, page>>

Live(p) == {v \in Versions : state[<<p, v>>] = "approved"}
OneOf(versions) == IF versions = {} THEN None ELSE CHOOSE v \in versions : TRUE
LiveVersion(p) == OneOf(Live(p))

AuditRow == [act     : {"claim", "publish", "supersede", "approve", "reject", "delist", "relist"},
             version : Versions \cup {None},
             note    : Reasons \cup {"pending", "approved", None}]

Entry(act, version, note) == [act |-> act, version |-> version, note |-> note]

Written == FoldFunction(LAMBDA rows, n : Len(rows) + n, 0, trail)

Record(p, rows) ==
  /\ Written + Len(rows) <= MaxTrail
  /\ trail' = [trail EXCEPT ![p] = @ \o rows]

\* ClaimID: the id and its owner together.
Claim(p, a) ==
  /\ Serving
  /\ p \notin claimed
  /\ claimed' = claimed \cup {p}
  /\ Holding!Grant(p, a)
  /\ Record(p, <<Entry("claim", None, None)>>)
  /\ UNCHANGED <<delisted, state>>

\* Owners come and go, by the account surface or seed-owners.
HoldersChange(p, a) ==
  /\ p \in claimed
  /\ Holding!Grant(p, a) \/ Holding!Revoke(p, a)
  /\ UNCHANGED <<boot, claimed, delisted, state, imports, trail, page>>

\* The rows a publish retires before anybody looked at them, with a reason each.
Retirements(p) ==
  SetToSeq({Entry("supersede", v, None) : v \in {w \in Versions : state[<<p, w>>] = "pending"}})

\* A release is submitted by somebody who holds the plugin, delisted or not.
Submit(p, v) ==
  /\ Serving
  /\ holders[p] # {}
  /\ \/ /\ Life!Wait(p, v)
        /\ Record(p, Retirements(p) \o <<Entry("publish", v, "pending")>>)
     \/ /\ Life!GoLive(p, v)
        /\ Record(p, Retirements(p) \o <<Entry("publish", v, "approved")>>)
  /\ UNCHANGED <<claimed, delisted, holders>>

\* A reviewer decides on one that waits.
Decide(p, v) ==
  /\ Serving
  /\ \/ Life!Approve(p, v) /\ Record(p, <<Entry("approve", v, None)>>)
     \/ Life!Reject(p, v)  /\ Record(p, <<Entry("reject", v, None)>>)
  /\ UNCHANGED <<claimed, delisted, holders>>

\* pluginTx, and the WHERE of DelistPlugin.
DelistableAgain(p) == p \in claimed
DelistableUnclaimed(p) == delisted[p] = None
Delistable(p) == p \in claimed /\ delisted[p] = None

(***************************************************************************)
(* Delist: the reason goes to the row, and to an audit row that says what  *)
(* was listed at that moment.  Nobody delists what is delisted already.    *)
(***************************************************************************)
Delist(p, reason) ==
  /\ Serving
  /\ Delistable(p)
  /\ delisted' = [delisted EXCEPT ![p] = reason]
  /\ Record(p, <<Entry("delist", LiveVersion(p), reason)>>)
  /\ UNCHANGED <<claimed, state, holders>>

\* Relist: the row forgets why it was delisted, and the audit row remembers.
Relist(p) ==
  /\ Serving
  /\ delisted[p] # None
  /\ delisted' = [delisted EXCEPT ![p] = None]
  /\ Record(p, <<Entry("relist", None, delisted[p])>>)
  /\ UNCHANGED <<claimed, state, holders>>

-----------------------------------------------------------------------------
(* Pages.                                                                  *)

Listed   == {p \in claimed : delisted[p] = None /\ Live(p) # {}}
Awaiting == {p \in claimed : delisted[p] = None /\ Live(p) = {}}
Delisted == {p \in claimed : delisted[p] # None}

\* What each page reads, in order.
CountsFirst ==
  [directory |-> <<"counts", "rows">>,
   console   |-> <<"plugins", "owners">>,
   detail    |-> <<"release", "releaseTrail", "pluginTrail">>]
TrailFirst ==
  [directory |-> <<"rows", "counts">>,
   console   |-> <<"plugins", "owners">>,
   detail    |-> <<"releaseTrail", "pluginTrail", "release">>]
Reads ==
  [directory |-> <<"rows", "counts">>,                            \* Browse
   console   |-> <<"plugins", "owners">>,                         \* List, Get
   detail    |-> <<"release", "releaseTrail", "pluginTrail">>]  \* Detail

\* The rows whose subject is a release, and the plugin's own that name it.
ReleaseActs == {"supersede", "approve", "reject"}
RowsOn(p, v, acts) == {row \in Range(trail[p]) : row.version = v /\ row.act \in acts}

\* One statement.
Content(part, about) ==
  CASE part = "rows"    -> Listed
    [] part = "counts"  -> [listed   |-> Cardinality(Listed),
                            awaiting |-> Cardinality(Awaiting),
                            delisted |-> Cardinality(Delisted)]
    [] part = "plugins" -> [p \in claimed |-> Cardinality(holders[p])]   \* owner_count
    [] part = "owners"  -> holders
    [] part = "release" -> state[about]
    [] part = "releaseTrail" -> RowsOn(about[1], about[2], ReleaseActs)
    [] part = "pluginTrail"  -> RowsOn(about[1], about[2], {"publish"})

OpenPage(kind, about) ==
  /\ process = "serving"
  /\ page = NoPage
  /\ (kind = "detail") <=> (about # None)
  /\ kind = "detail" => state[about] # "absent"
  /\ page' = [NoPage EXCEPT !.kind = kind, !.about = about]
  /\ UNCHANGED <<boot, table>>

\* The next statement of the page.
ReadNext ==
  /\ page # NoPage
  /\ LET parts == Reads[page.kind]
         n     == Cardinality(DOMAIN page.shown) + 1
     IN /\ n <= Len(parts)
        /\ page' = [page EXCEPT !.shown =
                      [x \in DOMAIN @ \cup {parts[n]} |->
                         IF x = parts[n] THEN Content(x, page.about) ELSE @[x]]]
  /\ UNCHANGED <<boot, table>>

\* The page goes out, or its reader goes away.
Send ==
  /\ page # NoPage
  /\ page' = NoPage
  /\ UNCHANGED <<boot, table>>

-----------------------------------------------------------------------------
Init ==
  /\ process  = "down"
  /\ binary   \in Binaries
  /\ seed     = None
  /\ schema   = 0
  /\ overtaken = FALSE
  /\ claimed  = {}
  /\ delisted = [p \in Plugins |-> None]
  /\ state    = [id \in Plugins \X Versions |-> "absent"]
  /\ holders  = [p \in Plugins |-> {}]
  /\ imports  = <<>>
  /\ trail    = [p \in Plugins |-> <<>>]
  /\ page     = NoPage

BootStep ==
  \/ \E b \in Binaries, file \in Seeds \cup {None} : Start(b, file)
  \/ OpenDatabase \/ Migrate \/ ImportSeed \/ Stop
  \/ \E b \in Binaries : MigrateCommand(b)

Moderate == \E p \in Plugins : Relist(p) \/ \E reason \in Reasons : Delist(p, reason)

Show ==
  \/ \E kind \in {"directory", "console"} : OpenPage(kind, None)
  \/ \E id \in Plugins \X Versions : OpenPage("detail", id)
  \/ ReadNext
  \/ Send

Next ==
  \/ BootStep
  \/ \E p \in Plugins, a \in Accounts : Claim(p, a) \/ HoldersChange(p, a)
  \/ \E p \in Plugins, v \in Versions : Submit(p, v) \/ Decide(p, v)
  \/ Moderate
  \/ Show

Spec == Init /\ [][Next]_vars
-----------------------------------------------------------------------------
(* Properties.                                                             *)

\* Every table has its type, and nothing belongs to a plugin that is not claimed.
TypeOK ==
  /\ process \in Phases
  /\ binary \in Binaries /\ schema \in Nat /\ overtaken \in BOOLEAN
  /\ seed \in Seeds \cup {None}
  /\ claimed \subseteq Plugins
  /\ delisted \in [Plugins -> Reasons \cup {None}]
  /\ state \in [Plugins \X Versions -> Life!Standing]
  /\ holders \in [Plugins -> SUBSET Accounts]
  /\ trail \in [Plugins -> Seq(AuditRow)]
  /\ \A p \in Plugins \ claimed :
       /\ delisted[p] = None /\ holders[p] = {} /\ trail[p] = <<>>
       /\ \A v \in Versions : state[<<p, v>>] = "absent"

(***************************************************************************)
(* A catalogue is imported once, into a database that has none: no boot    *)
(* imports over an id that somebody claimed or a release that was made     *)
(* since, whatever file it finds mounted, and however many boots there     *)
(* are.  A file that lists nothing leaves no mark, so that the one the     *)
(* operator corrects is imported at a later boot (SkipSeedEmpty).          *)
(***************************************************************************)
ImportComesFirst ==
  /\ Len(imports) <= 1
  /\ \A i \in DOMAIN imports :
       /\ imports[i].found = {}
       /\ imports[i].brought # {}
       /\ \A x \in imports[i].brought : x[1] \in claimed /\ state[x] # "absent"

(***************************************************************************)
(* A server that is up has every migration of its build: also after a boot *)
(* that died between two of them, with the command of another build at     *)
(* work beside it.  And it never comes up on a newer schema: the database  *)
(* is past the build only where a command took it there after the boot had *)
(* compared the two (ErrSchemaAhead), which nothing in the code prevents.  *)
(***************************************************************************)
ServesItsSchema ==
  process \in {"migrated", "serving"} =>
    /\ schema >= binary
    /\ schema > binary => overtaken

(***************************************************************************)
(* What the audit log says of a listing is what happened to it, in order:  *)
(* a plugin is delisted while it is listed and relisted while it is not,   *)
(* the reason on the row is that of the last of these, the row that undoes *)
(* it repeats it, and a delisting names the version that was live then,    *)
(* whatever was published and approved before, meanwhile and since.        *)
(***************************************************************************)
Moderation(rows) == {i \in DOMAIN rows : rows[i].act \in {"delist", "relist"}}

ReasonAt(rows, n) ==   \* as the first n of the rows have it
  LET before == {i \in Moderation(rows) : i <= n}
      last   == rows[Max(before)]
  IN IF before = {} \/ last.act = "relist" THEN None ELSE last.note

GoesLive(row) == row.act = "approve" \/ (row.act = "publish" /\ row.note = "approved")

LiveAt(rows, n, first) ==   \* likewise, of a plugin that served first to begin with
  LET before == {i \in 1 .. n : GoesLive(rows[i])}
  IN IF before = {} THEN first ELSE rows[Max(before)].version

Imported(id) == \E r \in Range(imports) : id \in r.brought
ImportedVersion(p) == OneOf({v \in Versions : Imported(<<p, v>>)})

DelistingIsExplained ==
  \A p \in Plugins :
    LET rows == trail[p] IN
    /\ delisted[p] = ReasonAt(rows, Len(rows))
    /\ \A i \in Moderation(rows) :
         IF rows[i].act = "delist"
         THEN /\ ReasonAt(rows, i - 1) = None
              /\ rows[i].version = LiveAt(rows, i - 1, ImportedVersion(p))
         ELSE rows[i].note # None /\ rows[i].note = ReasonAt(rows, i - 1)

Shown(part) == part \in DOMAIN page.shown

(***************************************************************************)
(* A page whose parts were read at two moments still holds together.  The  *)
(* directory counts, as listed or as delisted meanwhile and never as       *)
(* awaiting its first release, every plugin it shows; and the console      *)
(* names a holder of every plugin that had one as its row was read.        *)
(***************************************************************************)
PagesHoldTogether ==
  /\ Shown("rows") /\ Shown("counts") =>
       Cardinality(page.shown["rows"])
         <= page.shown["counts"].listed + page.shown["counts"].delisted
  /\ Shown("plugins") /\ Shown("owners") =>
       \A p \in DOMAIN page.shown["plugins"] :
         page.shown["plugins"][p] > 0 => page.shown["owners"][p] # {}

(***************************************************************************)
(* A reviewer who opens a release finds on the page how it came to be as   *)
(* it is shown, also while others decide on it: that it was submitted,     *)
(* unless it was imported, and what made it live, turned it down or        *)
(* retired it.                                                             *)
(***************************************************************************)
DetailIsExplained ==
  Shown("release") /\ Shown("releaseTrail") /\ Shown("pluginTrail") =>
    LET is(standing) == page.shown["release"] = standing
        has(act, note) == \E part \in {"releaseTrail", "pluginTrail"} :
                            \E row \in page.shown[part] : row.act = act /\ row.note = note
        wentLive == \/ Imported(page.about)
                    \/ has("approve", None)
                    \/ has("publish", "approved")
    IN /\ Imported(page.about) \/ has("publish", "approved") \/ has("publish", "pending")
       /\ is("approved")   => wentLive
       /\ is("superseded") => wentLive \/ has("supersede", None)
       /\ is("rejected")   => has("reject", None)
=============================================================================
