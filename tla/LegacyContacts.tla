--------------------------- MODULE LegacyContacts ---------------------------
(* The replay of accepted-contact exports: the command line importer with   *)
(* its checkpoint and output files, the importer a worker runs before it    *)
(* starts to crawl, and the targets prepared for the campuses the artifact  *)
(* does not cover.  All of them may be killed between two awaits.           *)
EXTENDS Absence, Naturals, Sequences, FiniteSets, SequencesExt

CONSTANTS
    Manifest,   \* the files of the artifact, each a sequence of lines, see Disposition
    Exclusions, \* declared exclusions: a set of [file, line, reason]
    Allowed,    \* the approved domains, as sequences of labels
    Spines,     \* what the organization tables may say: functions from places to sets of schools
    Campuses,   \* the schools of the project being prepared: [school -> website or None]
    BatchSize, Starters,
    Invocations \* bound: starts and invocations in all

ASSUME LegacyAssumption == BatchSize \in Nat \ {0} /\ Invocations \in Nat
ASSUME ManifestAssumption ==
    /\ DOMAIN Manifest = 1..Len(Manifest) /\ Len(Manifest) \in Nat \ {0}
    /\ \A f \in DOMAIN Manifest : DOMAIN Manifest[f] = 1..Len(Manifest[f]) /\ Len(Manifest[f]) \in Nat

VARIABLES
    spine,       \* the organizations a place (district and school) matches
    contacts,    \* imported people: [key, file, school]
    documents,   \* files recorded as source documents
    targets,     \* revalidation and campus targets: [page, school]
    audits,      \* audit events of prepared targets
    checkpoint,  \* per mode and file, the completed line
    quarantined, revalidated,  \* the output files of each mode: sequences of [file, line]
    cli,         \* the command line importer
    starter,     \* the startup importers
    invocations

legacyVars == <<spine, contacts, documents, targets, audits, checkpoint, quarantined, revalidated,
                cli, starter, invocations>>

Modes == {"apply", "seed", "dry"}
Places == DOMAIN (CHOOSE s \in Spines : TRUE)
NoWalk == [pc |-> "off", mode |-> None, index |-> None, file |-> 1, line |-> 0, pending |-> <<>>,
           expected |-> 0, completed |-> {}, held |-> None]

LegacyInit ==
    /\ spine \in Spines
    /\ contacts = {} /\ documents = {} /\ targets = {} /\ audits = <<>>
    /\ checkpoint = [m \in Modes |-> [f \in DOMAIN Manifest |-> 0]]
    /\ quarantined = [m \in Modes |-> <<>>] /\ revalidated = [m \in Modes |-> <<>>]
    /\ cli = NoWalk /\ starter = [w \in Starters |-> NoWalk]
    /\ invocations = 0

----------------------------------------------------------------------------
(* prepareLegacyContact.  The first objection counts.                       *)
WithoutWww(host) == IF host # <<>> /\ Head(host) = "www" THEN Tail(host) ELSE host
ApprovedDomains == {WithoutWww(domain) : domain \in Allowed}
IsApprovedHost(host) == \E domain \in ApprovedDomains : IsSuffix(domain, WithoutWww(host))
ExactMatch(index, row) == index[row.place]
Disposition(row, index) ==
    IF row.text = "malformed" THEN "invalid JSON"
    ELSE IF row.defect # None THEN row.defect
    ELSE IF ~IsApprovedHost(row.page) THEN "outside the allowlist"
    ELSE IF row.personal THEN "data boundary"
    ELSE IF ExactMatch(index, row) = {} THEN "no match"
    ELSE IF Cardinality(ExactMatch(index, row)) > 1 THEN "ambiguous"
    ELSE IF row.late # None THEN row.late
    ELSE "accepted"

LineAt(at) == Manifest[at.file][at.line]
Rows == {[file |-> f, line |-> n] : f \in DOMAIN Manifest, n \in UNION {DOMAIN Manifest[g] : g \in DOMAIN Manifest}}
Lines == {at \in Rows : at.line \in DOMAIN Manifest[at.file] /\ LineAt(at).text # "blank"}
(* What objects to a line is a reason, neither null nor an empty line.      *)
ASSUME DispositionAssumption ==
    \A at \in Lines, index \in Spines : Disposition(LineAt(at), index) \notin {None, "blank"}
Excluded(at) == \E x \in Exclusions : x.file = at.file /\ x.line = at.line

(* The record key names the line's number and what it says, not its file.   *)
RecordKey(at) == <<at.line, LineAt(at).who>>
Keys(list) == {RecordKey(list[i]) : i \in DOMAIN list}
ImportedKeys == {c.key : c \in contacts}

(* importPreparedLegacyContact, for a whole batch in one transaction.  What *)
(* a document version was once observed to say cannot be said otherwise.    *)
Contacts(list, index) ==
    {[key |-> RecordKey(list[i]), file |-> list[i].file, school |-> CHOOSE o \in ExactMatch(index, LineAt(list[i])) : TRUE] :
        i \in DOMAIN list}
Contradicts(fresh) ==
    \E c \in fresh, d \in contacts : c.key = d.key /\ c.file = d.file /\ c.school # d.school
Commit(fresh) == ~Contradicts(fresh) /\ contacts' = contacts \cup fresh

(* seedLegacyRevalidationTarget.                                            *)
Seeds(list, index) ==
    {[page |-> LineAt(list[i]).page, school |-> CHOOSE o \in ExactMatch(index, LineAt(list[i])) : TRUE] :
        i \in DOMAIN list}

Here(walk) == [file |-> walk.file, line |-> walk.line + 1]
AtEnd(walk) == walk.line >= Len(Manifest[walk.file])
RecordLegacyArtifact(file) == documents' = documents \cup {file}

----------------------------------------------------------------------------
(* The command line importer.  It goes on after the line its checkpoint     *)
(* names; a batch is committed, reported and checkpointed in that order.    *)
Invoke(mode) ==
    /\ cli.pc \in {"off", "done", "failed"} /\ invocations < Invocations
    /\ invocations' = invocations + 1
    /\ cli' = [NoWalk EXCEPT !.pc = "reading", !.mode = mode, !.index = spine, !.line = checkpoint[mode][1]]
    /\ IF mode = "dry" THEN UNCHANGED documents ELSE RecordLegacyArtifact(1)
    /\ UNCHANGED <<spine, contacts, targets, audits, checkpoint, quarantined, revalidated, starter>>

Output == <<checkpoint, quarantined, revalidated>>
Reading == cli.pc = "reading" /\ ~AtEnd(cli)
SlipQuarantine(reason) == [cli EXCEPT !.pc = "held", !.held = reason, !.line = @ + 1]
(* A line that is refused flushes what was read before it.                  *)
Quarantine(reason) ==
    [cli EXCEPT !.pc = IF cli.pending = <<>> THEN "held" ELSE "flushing", !.held = reason, !.line = @ + 1]

ReadLine ==
    /\ Reading
    /\ LET at == Here(cli)
           said == IF at \in Lines THEN Disposition(LineAt(at), cli.index) ELSE "blank"
           pending == Append(cli.pending, at)
       IN cli' = CASE said = "blank" -> [cli EXCEPT !.line = @ + 1]
                   [] said = "accepted" -> [cli EXCEPT !.line = @ + 1, !.pending = pending,
                                                       !.pc = IF Len(pending) = BatchSize THEN "flushing" ELSE @]
                   [] OTHER -> Quarantine(said)
    /\ UNCHANGED <<spine, contacts, documents, targets, audits, Output, starter, invocations>>

CommitBatch ==
    /\ \/ cli.pc = "flushing"
       \/ cli.pc = "reading" /\ AtEnd(cli) /\ cli.pending # <<>>
    /\ CASE cli.mode = "apply" -> Commit(Contacts(cli.pending, cli.index)) /\ UNCHANGED targets
         [] cli.mode = "seed" -> targets' = targets \cup Seeds(cli.pending, cli.index) /\ UNCHANGED contacts
         [] OTHER -> UNCHANGED <<contacts, targets>>
    /\ cli' = [cli EXCEPT !.pc = IF cli.mode = "apply" THEN "saving" ELSE "reporting"]
    /\ UNCHANGED <<spine, documents, audits, Output, starter, invocations>>

(* appendLineOnce: what the file already holds is not written again.        *)
AppendedOnce(file, at) == IF at \in ToSet(file) THEN file ELSE Append(file, at)
Report ==
    /\ cli.pc = "reporting"
    /\ \E i \in DOMAIN cli.pending :
          /\ \A j \in 1..(i - 1) : cli.pending[j] \in ToSet(revalidated[cli.mode])
          /\ i < Len(cli.pending) => cli.pending[i] \notin ToSet(revalidated[cli.mode])
          /\ revalidated' = [revalidated EXCEPT ![cli.mode] = AppendedOnce(@, cli.pending[i])]
          /\ cli' = [cli EXCEPT !.pc = IF i = Len(cli.pending) THEN "saving" ELSE @]
    /\ UNCHANGED <<spine, contacts, documents, targets, audits, checkpoint, quarantined, starter, invocations>>

SaveProgress(line) == checkpoint' = [checkpoint EXCEPT ![cli.mode][cli.file] = line]
SaveBatch ==
    /\ cli.pc = "saving"
    /\ SaveProgress(Last(cli.pending).line)
    /\ cli' = [cli EXCEPT !.pending = <<>>, !.pc = IF cli.held = None THEN "reading" ELSE "held"]
    /\ UNCHANGED <<spine, contacts, documents, targets, audits, quarantined, revalidated, starter, invocations>>

HoldLine ==
    /\ cli.pc = "held"
    /\ quarantined' = [quarantined EXCEPT ![cli.mode] = AppendedOnce(@, [file |-> cli.file, line |-> cli.line])]
    /\ cli' = [cli EXCEPT !.pc = "saving held"]
    /\ UNCHANGED <<spine, contacts, documents, targets, audits, checkpoint, revalidated, starter, invocations>>

SaveHeld ==
    /\ cli.pc = "saving held"
    /\ SaveProgress(cli.line)
    /\ cli' = [cli EXCEPT !.pc = "reading", !.held = None]
    /\ UNCHANGED <<spine, contacts, documents, targets, audits, quarantined, revalidated, starter, invocations>>

NextFile ==
    /\ cli.pc = "reading" /\ AtEnd(cli) /\ cli.pending = <<>>
    /\ IF cli.file = Len(Manifest)
       THEN cli' = [cli EXCEPT !.pc = "done"] /\ UNCHANGED documents
       ELSE /\ cli' = [cli EXCEPT !.file = @ + 1, !.line = checkpoint[cli.mode][cli.file + 1]]
            /\ IF cli.mode = "dry" THEN UNCHANGED documents ELSE RecordLegacyArtifact(cli.file + 1)
    /\ UNCHANGED <<spine, contacts, targets, audits, Output, starter, invocations>>

(* Killed, or thrown out by a transaction that could not commit.            *)
StopCli ==
    /\ cli.pc \notin {"off", "done", "failed"}
    /\ cli' = [cli EXCEPT !.pc = "failed"]
    /\ UNCHANGED <<spine, contacts, documents, targets, audits, Output, starter, invocations>>

----------------------------------------------------------------------------
(* runStartupLegacyContactImport.  Every row is tried before the first      *)
(* write; then rows whose keys the database does not have are imported.     *)
PreflightAccepts ==
    /\ \A at \in Lines :
          LET said == Disposition(LineAt(at), spine)
          IN IF said = "accepted" THEN ~Excluded(at)
             ELSE [file |-> at.file, line |-> at.line, reason |-> said] \in Exclusions
    /\ \A x \in Exclusions : [file |-> x.file, line |-> x.line] \in Lines
Expected == {at \in Lines : ~Excluded(at)}

Unchanging == <<spine, targets, audits, Output, cli>>
Preflight(w) ==
    /\ starter[w].pc \in {"off", "failed"} /\ invocations < Invocations
    /\ invocations' = invocations + 1
    /\ starter' = [starter EXCEPT ![w] =
           IF PreflightAccepts /\ Expected # {}
           THEN [NoWalk EXCEPT !.pc = "verified", !.index = spine, !.expected = Cardinality(Expected)]
           ELSE [NoWalk EXCEPT !.pc = "failed"]]
    /\ UNCHANGED <<Unchanging, contacts, documents>>

LoadImportedRecordKeys(w) ==
    /\ starter[w].pc = "verified"
    /\ LET present == Cardinality(ImportedKeys)
           expected == starter[w].expected
       IN /\ starter' = [starter EXCEPT ![w].completed = ImportedKeys,
                  ![w].pc = IF present = expected THEN "completed"
                            ELSE IF present > expected THEN "failed" ELSE "importing"]
          /\ IF present < expected THEN RecordLegacyArtifact(1) ELSE UNCHANGED documents
    /\ UNCHANGED <<Unchanging, contacts, invocations>>

ImportLine(w) ==
    LET at == Here(starter[w]) IN
    /\ starter[w].pc = "importing" /\ ~AtEnd(starter[w]) /\ Len(starter[w].pending) < BatchSize
    /\ starter' = [starter EXCEPT ![w].line = @ + 1,
           ![w].pending = IF at \in Expected /\ RecordKey(at) \notin starter[w].completed THEN Append(@, at) ELSE @]
    /\ UNCHANGED <<Unchanging, contacts, documents, invocations>>

FlushBatch(w) ==
    /\ starter[w].pc = "importing" /\ starter[w].pending # <<>>
    /\ Len(starter[w].pending) = BatchSize \/ AtEnd(starter[w])
    /\ Commit(Contacts(starter[w].pending, starter[w].index))
    /\ starter' = [starter EXCEPT ![w].pending = <<>>]
    /\ UNCHANGED <<Unchanging, documents, invocations>>

EndFile(w) ==
    /\ starter[w].pc = "importing" /\ starter[w].pending = <<>> /\ AtEnd(starter[w])
    /\ IF starter[w].file < Len(Manifest)
       THEN /\ starter' = [starter EXCEPT ![w].file = @ + 1, ![w].line = 0]
            /\ RecordLegacyArtifact(starter[w].file + 1)
       ELSE /\ starter' = [starter EXCEPT ![w].pc =
                   IF Cardinality(ImportedKeys) = starter[w].expected THEN "completed" ELSE "failed"]
            /\ UNCHANGED documents
    /\ UNCHANGED <<Unchanging, contacts, invocations>>

StopStarter(w) ==
    /\ starter[w].pc \in {"verified", "importing"}
    /\ starter' = [starter EXCEPT ![w] = [NoWalk EXCEPT !.pc = "failed"]]
    /\ UNCHANGED <<Unchanging, contacts, documents, invocations>>

----------------------------------------------------------------------------
(* seedUncoveredCampusTargets: one transaction, only behind a complete      *)
(* import; it creates targets and approves nothing.                         *)
Covered(school) == \E c \in contacts : c.school = school
Eligible ==
    {[page |-> Campuses[o], school |-> o] :
        o \in {x \in DOMAIN Campuses : ~Covered(x) /\ Campuses[x] # None /\ IsApprovedHost(Campuses[x])}}
CountArtifactRecords == Cardinality({at \in Lines : ~Excluded(at)})
SeedUncovered ==
    /\ Cardinality(ImportedKeys) = CountArtifactRecords
    /\ Len(audits) < Invocations
    /\ targets' = targets \cup Eligible
    /\ audits' = Append(audits, [targets |-> {t.page : t \in Eligible} \ {t.page : t \in targets},
                                 associations |-> Eligible \ targets])
    /\ UNCHANGED <<spine, contacts, documents, Output, cli, starter, invocations>>

(* Somebody else changes the organizations.                                 *)
Reorganize ==
    /\ spine' \in Spines \ {spine}
    /\ invocations < Invocations
    /\ UNCHANGED <<contacts, documents, targets, audits, Output, cli, starter, invocations>>

LegacyNext ==
    \/ \E mode \in Modes : Invoke(mode)
    \/ ReadLine \/ CommitBatch \/ Report \/ SaveBatch \/ HoldLine \/ SaveHeld \/ NextFile \/ StopCli
    \/ \E w \in Starters :
          \/ Preflight(w) \/ LoadImportedRecordKeys(w) \/ ImportLine(w) \/ FlushBatch(w)
          \/ EndFile(w) \/ StopStarter(w)
    \/ SeedUncovered \/ Reorganize

----------------------------------------------------------------------------
Landed(mode, at) ==
    \/ at \in ToSet(quarantined[mode])
    \/ mode = "apply" /\ \E c \in contacts : c.key = RecordKey(at) /\ c.file = at.file
    \/ /\ mode # "apply" /\ at \in ToSet(revalidated[mode])
       /\ mode = "seed" => \E t \in targets : t.page = LineAt(at).page

(* A checkpoint stands for every line up to it, whatever was killed where   *)
(* and however the organizations changed: the line was imported, queued and *)
(* reported, or quarantined.  No output file says a line twice.             *)
CheckpointStands ==
    \A mode \in Modes :
        /\ \A at \in Lines : at.line <= checkpoint[mode][at.file] => Landed(mode, at)
        /\ IsInjective(quarantined[mode]) /\ IsInjective(revalidated[mode])

(* A worker starts behind the import only when every row that is not a      *)
(* declared exclusion is in the database ("verifies the same database count *)
(* before the crawler may start"), by whichever importer.                   *)
StartsComplete ==
    \A w \in Starters : starter[w].pc = "completed" => {RecordKey(at) : at \in Expected} \subseteq ImportedKeys

(* No accepted contact is passed over: neither behind a checkpoint nor by a *)
(* worker that starts.                                                      *)
NoContactIsSkipped == CheckpointStands /\ StartsComplete
=============================================================================
