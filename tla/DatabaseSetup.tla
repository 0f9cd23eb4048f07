---------------------------- MODULE DatabaseSetup ----------------------------
(* A database is set up by hand: migrations are applied or undone from the  *)
(* files of a checkout, and the reference rows of a release are written.    *)
(* A server's database may be worked on by several operators at once; the   *)
(* embedded one by one process after the other.  Any of them may die at any *)
(* await, and each has the checkout and the packs he happens to have.  A    *)
(* script is one step inside a transaction: what it did is there, and is    *)
(* seen by others, once its bookkeeping row is committed with it.           *)
EXTENDS SectorPacks

CONSTANTS
    Runners,       \* processes somebody may start, once each
    SetupCommands  \* [command, checkout, to, packs]: what they may be started for

(* Nobody ships two migrations of one version: checkMigrations refuses them. *)
ASSUME SetupAssumption ==
    \A job \in SetupCommands :
        /\ job.checkout \in Seq(ToSet(job.checkout))
        /\ IsInjective([i \in DOMAIN job.checkout |-> job.checkout[i].version])

VARIABLES
    embedded,   \* whether the database is the embedded one
    schema,     \* the versions whose script ran and was not undone
    recorded,   \* schema_migrations: [version -> checksum]
    reference,  \* the reference tables: [<<kind, code>> -> row]
    runners,    \* [runner -> where it stands]
    history     \* [undone, crossed]: scripts undone, one while others were at work

setupVars == <<embedded, schema, recorded, reference, runners, history>>

(* files are what is left to do, known what was read, tx the migration      *)
(* whose script ran in the open transaction and whether it did anything.    *)
Unstarted == [pc |-> "unstarted", job |-> None, files |-> <<>>, known |-> <<>>, tx |-> None, rows |-> {}, since |-> 0]
Gone == [Unstarted EXCEPT !.pc = "failed"]
SetupInit ==
    /\ embedded \in BOOLEAN
    /\ schema = {} /\ recorded = <<>> /\ reference = <<>>
    /\ runners = [r \in Runners |-> Unstarted]
    /\ history = [undone |-> 0, crossed |-> FALSE]

Put(r, changed) == runners' = [runners EXCEPT ![r] = changed]
Assigned(table, key, value) == [k \in DOMAIN table \cup {key} |-> IF k = key THEN value ELSE table[k]]
AtWork(r) == runners[r].pc \in {"reading", "running", "seeding"}
Upward(r) == runners[r].pc = "running" /\ runners[r].job.command # "rollback" /\ runners[r].files # <<>>
Downward(r) == runners[r].pc = "running" /\ runners[r].job.command = "rollback" /\ runners[r].files # <<>>
File(r) == Head(runners[r].files)
IsKnown(r) == File(r).version \in DOMAIN runners[r].known
PastFile(r) == [runners[r] EXCEPT !.tx = None, !.files = Tail(@)]
OnlyRunners == UNCHANGED <<embedded, schema, recorded, reference, history>>

(* Migrating; rolling back, a command for servers; and the set-up that      *)
(* migrates and seeds an embedded database.                                 *)
Start(r, job) ==
    /\ runners[r].pc = "unstarted"
    /\ IF embedded THEN job.command # "rollback" /\ \A q \in Runners : ~AtWork(q) ELSE job.command # "setup"
    /\ Put(r, [Unstarted EXCEPT !.pc = "reading", !.job = job,
                  !.files = IF job.command = "rollback" THEN Reverse(job.checkout) ELSE job.checkout])
    /\ OnlyRunners
AppliedMigrations(r) ==
    /\ runners[r].pc = "reading"
    /\ Put(r, [runners[r] EXCEPT !.pc = "running", !.known = recorded, !.since = history.undone])
    /\ OnlyRunners

----------------------------------------------------------------------------
(* What goes on in a transaction is seen from outside once it commits.      *)
SlipSeenOutside(changed) == changed
SeenOutside(changed) == schema
Open(r, changes) ==
    /\ Put(r, [runners[r] EXCEPT !.tx = [file |-> File(r), changes |-> changes]])
    /\ UNCHANGED <<embedded, recorded, reference, history>>
(* A script waits for an open one that makes or drops the objects it needs; *)
(* one that drops objects if there are any does not see those being made.   *)
NobodyElseAt(r, version) ==
    \A q \in Runners \ {r} :
        runners[q].tx # None /\ runners[q].tx.changes => runners[q].tx.file.version # version

Skip(r) ==
    /\ Upward(r) /\ runners[r].tx = None
    /\ IsKnown(r) /\ runners[r].known[File(r).version] = File(r).sum
    /\ Put(r, PastFile(r))
    /\ OnlyRunners
RunUp(r) ==
    /\ Upward(r) /\ runners[r].tx = None
    /\ ~IsKnown(r)
    /\ NobodyElseAt(r, File(r).version)
    /\ File(r).version \in schema => File(r).again
    /\ Open(r, File(r).version \notin schema)
    /\ schema' = SeenOutside(schema \cup {File(r).version})
CommitUp(r) ==
    /\ Upward(r) /\ runners[r].tx # None
    /\ File(r).version \notin DOMAIN recorded
    /\ schema' = IF runners[r].tx.changes THEN schema \cup {File(r).version} ELSE schema
    /\ recorded' = Assigned(recorded, File(r).version, File(r).sum)
    /\ Put(r, PastFile(r))
    /\ UNCHANGED <<embedded, reference, history>>

(* Newest first, down to and including a version if one is given.           *)
Wanted(r) == runners[r].job.to # None => File(r).version >= runners[r].job.to
PassBy(r) ==
    /\ Downward(r) /\ runners[r].tx = None
    /\ ~IsKnown(r)
    /\ Put(r, PastFile(r))
    /\ OnlyRunners
RunDown(r) ==
    /\ Downward(r) /\ runners[r].tx = None
    /\ IsKnown(r) /\ Wanted(r) /\ File(r).down
    /\ IF File(r).version \in schema THEN NobodyElseAt(r, File(r).version) ELSE File(r).again
    /\ Open(r, File(r).version \in schema)
    /\ schema' = SeenOutside(schema \ {File(r).version})
CommitDown(r) ==
    /\ Downward(r) /\ runners[r].tx # None
    /\ schema' = IF runners[r].tx.changes THEN schema \ {File(r).version} ELSE schema
    /\ recorded' = [v \in DOMAIN recorded \ {File(r).version} |-> recorded[v]]
    /\ history' = [undone |-> history.undone + 1, crossed |-> history.crossed \/ \E q \in Runners \ {r} : AtWork(q)]
    /\ Put(r, PastFile(r))
    /\ UNCHANGED <<embedded, reference>>

(* A script that was edited after it was applied, or that has no way back.  *)
Refuse(r) ==
    /\ \/ Upward(r) /\ IsKnown(r) /\ runners[r].known[File(r).version] # File(r).sum
       \/ Downward(r) /\ IsKnown(r) /\ Wanted(r) /\ ~File(r).down
    /\ Put(r, Gone) /\ OnlyRunners
(* A script that does not apply, a row that is there already, a connection  *)
(* that is lost or the end of the process undo the open transaction.        *)
Dies(r) ==
    /\ AtWork(r)
    /\ Put(r, Gone) /\ OnlyRunners

----------------------------------------------------------------------------
(* The reference rows of the composed taxonomy, those first that others     *)
(* refer to; one statement each, so that a death leaves some of them.  The  *)
(* levels and sectors types refer to are the base's and come before all.    *)
RowsIn(arrangement, kind) ==
    LET rows == Merged(arrangement, kind)
    IN {[kind |-> kind, row |-> rows[code]] : code \in DOMAIN rows}
SeedRows(arrangement) == UNION {RowsIn(arrangement, kind) : kind \in Kinds}
SeededBefore == <<"type", "area", "system", "family", "role">>
Rank(kind) == CHOOSE i \in DOMAIN SeededBefore : SeededBefore[i] = kind
IsSeeded(row) == <<row.kind, row.row.code>> \in DOMAIN reference

EndRun(r) ==
    /\ runners[r].pc = "running" /\ runners[r].tx = None
    /\ runners[r].files = <<>> \/ (Downward(r) /\ IsKnown(r) /\ ~Wanted(r))
    /\ IF runners[r].job.command = "setup"
       THEN Put(r, [runners[r] EXCEPT !.pc = "seeding", !.rows = SeedRows(runners[r].job.packs)])
       ELSE Put(r, [runners[r] EXCEPT !.pc = "done", !.known = <<>>])
    /\ OnlyRunners
UpsertRow(r, next) ==
    /\ runners[r].pc = "seeding" /\ next \in runners[r].rows
    /\ \A other \in runners[r].rows : Rank(next.kind) <= Rank(other.kind)
    /\ next.kind = "role" => <<"family", next.row.family>> \in DOMAIN reference
    /\ reference' = Assigned(reference, <<next.kind, next.row.code>>, next.row)
    /\ Put(r, [runners[r] EXCEPT !.rows = @ \ {next}])
    /\ UNCHANGED <<embedded, schema, recorded, history>>
FinishSeeding(r) ==
    /\ runners[r].pc = "seeding" /\ runners[r].rows = {}
    /\ Put(r, [runners[r] EXCEPT !.pc = "done", !.known = <<>>])
    /\ OnlyRunners

SetupNext ==
    \E r \in Runners :
        \/ \E job \in SetupCommands : Start(r, job)
        \/ AppliedMigrations(r)
        \/ Skip(r) \/ RunUp(r) \/ CommitUp(r)
        \/ PassBy(r) \/ RunDown(r) \/ CommitDown(r)
        \/ Refuse(r) \/ Dies(r)
        \/ EndRun(r) \/ FinishSeeding(r)
        \/ \E next \in runners[r].rows : UpsertRow(r, next)

----------------------------------------------------------------------------
(* "A migration that fails halfway leaves nothing behind for the next run   *)
(* to trip over", and an edited one is refused.  Whoever else migrates and  *)
(* wherever anybody died, the versions on record are those whose script is  *)
(* in force, unless one was undone while others were at work; and a run     *)
(* that ended well finds, until something is undone, each of its files on   *)
(* record as it has it and each reference row of its release.               *)
SchemaIsRecorded ==
    /\ ~history.crossed => schema = DOMAIN recorded
    /\ \A r \in Runners :
          LET me == runners[r] IN
          me.pc = "done" /\ me.job.command # "rollback" /\ me.since = history.undone =>
              /\ \A m \in ToSet(me.job.checkout) : m.version \in DOMAIN recorded /\ recorded[m.version] = m.sum
              /\ me.job.command = "setup" => \A row \in SeedRows(me.job.packs) : IsSeeded(row)
=============================================================================
