------------------------ MODULE LegacyContactsProofs ------------------------
(* No accepted contact is skipped, for every artifact, every allowlist and  *)
(* whatever the organization tables come to say meanwhile: a checkpoint     *)
(* stands for the lines before it, and no worker starts before the rows it  *)
(* expects are in the database.  Beside it, the other files of the imports: *)
(* the organizer of the spine and the reader of delimited files.            *)
EXTENDS LegacyContacts, SpineOrganizer, DelimitedFiles, Induction, FiniteSetTheorems, SequenceTheorems, TLAPS

LegacySpec == LegacyInit /\ [][LegacyNext]_legacyVars

(* A declared exclusion is of a line that no state of the organization      *)
(* tables would accept: the command line importer, which does not read the  *)
(* exclusions, never imports one.                                           *)
ExclusionsHold ==
    \A at \in Lines, index \in Spines : Excluded(at) => Disposition(LineAt(at), index) # "accepted"

----------------------------------------------------------------------------
(* The inductive invariant.                                                 *)

Fields == {"pc", "mode", "index", "file", "line", "pending", "expected", "completed", "held"}
Position == [file : Nat, line : Nat]

(* The files a run leaves behind.                                           *)
Standing(mode) == \A at \in Lines : at.line <= checkpoint[mode][at.file] => Landed(mode, at)
IsOutput(file) == file \in Seq(Position) /\ IsInjective(file)
OutputInv ==
    /\ checkpoint \in [Modes -> [DOMAIN Manifest -> Nat]]
    /\ DOMAIN quarantined = Modes /\ DOMAIN revalidated = Modes
    /\ \A mode \in Modes : IsOutput(quarantined[mode]) /\ IsOutput(revalidated[mode])
    /\ \A mode \in Modes : Standing(mode)

(* A line that was read has landed, is pending or is held; what is pending  *)
(* was read in order before what is held.                                   *)
PendingAt(at) == \E i \in DOMAIN cli.pending : cli.pending[i] = at
HasLanded(at) == \A mode \in Modes : mode = cli.mode => Landed(mode, at)
Handled(at) ==
    at.file = cli.file /\ at.line <= cli.line =>
        HasLanded(at) \/ PendingAt(at) \/ (cli.held # None /\ at.line = cli.line)
WasRead(at) ==
    /\ at \in Lines /\ at.file = cli.file /\ at.line <= cli.line
    /\ cli.held # None => at.line # cli.line
    /\ Disposition(LineAt(at), cli.index) = "accepted"
AllRead == \A at : PendingAt(at) => WasRead(at)
InOrder == \A i, j \in DOMAIN cli.pending : i <= j => cli.pending[i].line <= cli.pending[j].line
Queued(at) == \E t \in targets : t.page = LineAt(at).page
AllHandled == \A at \in Lines : Handled(at)
HeldLanded == \A mode \in Modes : mode = cli.mode =>
    [file |-> cli.file, line |-> cli.line] \in ToSet(quarantined[mode])
Stages ==
    /\ cli.pc \in {"reading", "flushing", "reporting", "saving", "held", "saving held"}
    /\ cli.pc = "reading" => cli.held = None
    /\ cli.pc \in {"held", "saving held"} => cli.held # None /\ cli.pending = <<>>
    /\ cli.pc \in {"flushing", "reporting", "saving"} => cli.pending # <<>>
    /\ cli.pc = "reporting" => cli.mode # "apply"
    /\ cli.pc = "reporting" /\ cli.mode = "seed" => \A at : PendingAt(at) => Queued(at)
    /\ cli.pc = "saving" => \A at : PendingAt(at) => HasLanded(at)
    /\ cli.pc = "saving held" => HeldLanded
Placed ==
    /\ cli.mode \in Modes /\ cli.index \in Spines /\ cli.file \in DOMAIN Manifest /\ cli.line \in Nat
    /\ cli.pending \in Seq(Position)
Active == cli.pc \notin {"off", "done", "failed"}
CliInv ==
    /\ DOMAIN cli = Fields
    /\ Active => Placed /\ Stages /\ InOrder /\ AllRead /\ AllHandled

(* The importers import what the bundle expects, and no more.               *)
IsExpected(c) == \E at \in Expected : c.key = RecordKey(at)
Present == \A at \in Expected : RecordKey(at) \in ImportedKeys
CountsHold(walk) ==
    /\ DOMAIN walk = Fields
    /\ walk.pc \in {"verified", "importing"} => walk.expected = Cardinality(Expected)
    /\ walk.pc \in {"verified", "importing"} => walk.pending \in Seq(Position)
    /\ walk.pc \in {"verified", "importing"} => walk.file \in Nat /\ walk.line \in Nat
    /\ walk.pc \in {"verified", "importing"} => \A i \in DOMAIN walk.pending : walk.pending[i] \in Expected
StarterInv ==
    /\ \A c \in contacts : IsExpected(c)
    /\ DOMAIN starter = Starters
    /\ \A w \in Starters : CountsHold(starter[w]) /\ (starter[w].pc = "completed" => Present)

LegacyInv == spine \in Spines /\ OutputInv /\ CliInv /\ StarterInv

----------------------------------------------------------------------------
(* Lines.                                                                   *)

LEMMA LineFacts ==
    ASSUME NEW at \in Lines
    PROVE  /\ at = [file |-> at.file, line |-> at.line] /\ at \in Position
           /\ at.file \in DOMAIN Manifest /\ at.line \in Nat
           /\ at.line \in DOMAIN Manifest[at.file]
<1>1. at \in Rows /\ at.line \in DOMAIN Manifest[at.file]
    BY DEF Lines
<1>2. PICK f \in DOMAIN Manifest, n \in UNION {DOMAIN Manifest[g] : g \in DOMAIN Manifest} :
         at = [file |-> f, line |-> n]
    BY <1>1 DEF Rows
<1>3. at.file = f /\ at.line = n
    BY <1>2
<1>4. f \in Nat /\ DOMAIN Manifest[f] = 1..Len(Manifest[f]) /\ Len(Manifest[f]) \in Nat
    BY ManifestAssumption
<1>5. at.line \in Nat
    BY <1>1, <1>3, <1>4
<1> QED BY <1>1, <1>2, <1>3, <1>4, <1>5 DEF Position

LEMMA LinesFinite == IsFiniteSet(Lines)
<1> DEFINE F == DOMAIN Manifest
           B == {DOMAIN Manifest[g] : g \in F}
           f == [p \in F \X UNION B |-> [file |-> p[1], line |-> p[2]]]
           g == [x \in F |-> DOMAIN Manifest[x]]
<1>1. IsFiniteSet(F)
  <2>1. 1 \in Int /\ Len(Manifest) \in Int
      BY ManifestAssumption
  <2>2. IsFiniteSet(1..Len(Manifest))
      BY <2>1, FS_Interval
  <2> QED BY <2>2, ManifestAssumption
<1>2. g \in Surjection(F, B)
    BY DEF Surjection
<1>3. \A T \in B : IsFiniteSet(T)
  <2> SUFFICES ASSUME NEW x \in F PROVE IsFiniteSet(DOMAIN Manifest[x])
      OBVIOUS
  <2>1. 1 \in Int /\ Len(Manifest[x]) \in Int /\ DOMAIN Manifest[x] = 1..Len(Manifest[x])
      BY ManifestAssumption
  <2> QED BY <2>1, FS_Interval
<1> HIDE DEF g, F
<1>4. IsFiniteSet(B)
  <2> HIDE DEF B
  <2> QED BY <1>1, <1>2, FS_Surjection
<1> HIDE DEF B
<1>5. IsFiniteSet(UNION B)
    BY <1>3, <1>4, FS_UNION
<1>6. IsFiniteSet(F \X UNION B)
    BY <1>1, <1>5, FS_Product
<1>7. f \in Surjection(F \X UNION B, Rows)
  <2>1. Rows = {[file |-> x, line |-> n] : x \in F, n \in UNION B}
      BY DEF Rows, F, B
  <2>2. f \in [F \X UNION B -> Rows]
      BY <2>1
  <2>3. ASSUME NEW r \in Rows PROVE \E p \in F \X UNION B : f[p] = r
    <3>1. PICK x \in F, n \in UNION B : r = [file |-> x, line |-> n]
        BY <2>1
    <3>2. <<x, n>> \in F \X UNION B /\ f[<<x, n>>] = r
        BY <3>1
    <3> QED BY <3>2
  <2> HIDE DEF f
  <2> QED BY <2>2, <2>3 DEF Surjection
<1> HIDE DEF f
<1>8. IsFiniteSet(Rows)
    BY <1>6, <1>7, FS_Surjection
<1> QED BY <1>8, FS_Subset DEF Lines

(* As many imported keys as expected rows are all of their keys.            *)
LEMMA CountMeansPresent ==
    ASSUME \A c \in contacts : IsExpected(c), Cardinality(ImportedKeys) = Cardinality(Expected)
    PROVE  Present
<1> DEFINE wanted == {RecordKey(at) : at \in Expected}
           f == [at \in Expected |-> RecordKey(at)]
<1>1. Expected \in SUBSET Lines
    BY DEF Expected
<1>2. IsFiniteSet(Expected)
    BY <1>1, LinesFinite, FS_Subset
<1>3. f \in Surjection(Expected, wanted)
    BY DEF Surjection
<1>4. ImportedKeys \in SUBSET wanted
    BY DEF ImportedKeys, IsExpected
<1>5. \A at \in Expected : RecordKey(at) \in wanted
    OBVIOUS
<1> HIDE DEF wanted, f
<1>6. IsFiniteSet(wanted) /\ Cardinality(wanted) <= Cardinality(Expected)
    BY <1>2, <1>3, FS_Surjection
<1>7. Cardinality(ImportedKeys) <= Cardinality(wanted)
    BY <1>4, <1>6, FS_Subset
<1>8. Cardinality(wanted) \in Nat /\ Cardinality(Expected) \in Nat
    BY <1>2, <1>6, FS_CardinalityType
<1>9. Cardinality(wanted) = Cardinality(ImportedKeys)
    BY <1>6, <1>7, <1>8
<1>10. wanted = ImportedKeys
    BY <1>4, <1>6, <1>9, FS_Subset
<1> QED BY <1>5, <1>10 DEF Present

----------------------------------------------------------------------------
(* What has landed stays.                                                   *)

Grew ==
    /\ contacts \subseteq contacts' /\ targets \subseteq targets'
    /\ \A mode \in Modes : /\ ToSet(quarantined[mode]) \subseteq ToSet(quarantined'[mode])
                           /\ ToSet(revalidated[mode]) \subseteq ToSet(revalidated'[mode])

LEMMA LandedStays ==
    ASSUME Grew
    PROVE  \A mode \in Modes : \A at : Landed(mode, at) => Landed(mode, at)'
<1> SUFFICES ASSUME NEW mode \in Modes, NEW at, Landed(mode, at) PROVE Landed(mode, at)'
    OBVIOUS
<1>1. /\ at \in ToSet(quarantined[mode]) => at \in ToSet(quarantined'[mode])
      /\ at \in ToSet(revalidated[mode]) => at \in ToSet(revalidated'[mode])
      /\ \A c : c \in contacts => c \in contacts'
      /\ \A t : t \in targets => t \in targets'
    BY DEF Grew
<1> QED BY <1>1 DEF Landed, RecordKey, LineAt

(* A line appended to an output file is there, once.                        *)
LEMMA AppendedFacts ==
    ASSUME NEW file, IsOutput(file), NEW at \in Position
    PROVE  LET longer == AppendedOnce(file, at) IN
           IsOutput(longer) /\ ToSet(longer) = ToSet(file) \cup {at}
<1>1. CASE at \in ToSet(file)
    BY <1>1 DEF AppendedOnce
<1>2. CASE at \notin ToSet(file)
  <2> DEFINE longer == Append(file, at)
  <2>1. AppendedOnce(file, at) = longer
      BY <1>2 DEF AppendedOnce
  <2>2. longer \in Seq(Position) /\ DOMAIN longer = 1..(Len(file) + 1) /\ DOMAIN file = 1..Len(file) /\ Len(file) \in Nat
      BY DEF IsOutput
  <2>3. /\ \A i \in DOMAIN file : longer[i] = file[i] /\ longer[i] # at
        /\ longer[Len(file) + 1] = at
      BY <1>2 DEF IsOutput, ToSet
  <2> HIDE DEF longer
  <2>4. IsInjective(longer)
    <3> SUFFICES ASSUME NEW i \in DOMAIN longer, NEW j \in DOMAIN longer, longer[i] = longer[j] PROVE i = j
        BY DEF IsInjective
    <3>1. i \in DOMAIN file \/ i = Len(file) + 1
        BY <2>2
    <3>2. j \in DOMAIN file \/ j = Len(file) + 1
        BY <2>2
    <3> QED BY <2>3, <3>1, <3>2 DEF IsOutput, IsInjective
  <2>5. ToSet(longer) = ToSet(file) \cup {at}
      BY <2>2, <2>3 DEF ToSet
  <2> QED BY <2>1, <2>2, <2>4, <2>5 DEF IsOutput
<1> QED BY <1>1, <1>2

(* What does not touch the importer or its files.                           *)
LEMMA CliAside ==
    ASSUME OutputInv, CliInv, UNCHANGED <<checkpoint, quarantined, revalidated, cli>>,
           contacts \subseteq contacts', targets \subseteq targets'
    PROVE  OutputInv' /\ CliInv'
<1>1. Grew
    BY DEF Grew
<1>2. \A mode \in Modes : \A at : Landed(mode, at) => Landed(mode, at)'
    BY <1>1, LandedStays
<1>3. \A at : Queued(at) => Queued(at)'
    BY DEF Queued, LineAt
<1>4. OutputInv'
  <2>1. \A mode \in Modes : Standing(mode)'
      BY <1>2 DEF OutputInv, Standing
  <2> QED BY <2>1 DEF OutputInv
<1>5. CliInv'
  <2>1. CASE ~Active
      BY <2>1 DEF CliInv, Active
  <2>2. CASE Active
    <3>1. \A at : /\ PendingAt(at)' <=> PendingAt(at)
                  /\ WasRead(at)' <=> WasRead(at)
                  /\ HasLanded(at) => HasLanded(at)'
        BY <1>2 DEF PendingAt, WasRead, HasLanded
    <3>2. HeldLanded' <=> HeldLanded
        BY DEF HeldLanded
    <3>3. Stages'
        BY <1>3, <2>2, <3>1, <3>2 DEF CliInv, Stages
    <3>4. AllHandled'
        BY <2>2, <3>1 DEF CliInv, AllHandled, Handled
    <3>5. Placed' /\ InOrder' /\ AllRead'
        BY <2>2, <3>1 DEF CliInv, Placed, InOrder, AllRead
    <3> QED BY <3>3, <3>4, <3>5 DEF CliInv, Active
  <2> QED BY <2>1, <2>2
<1> QED BY <1>4, <1>5

(* What moves the importer and leaves its files as they are.                *)
LEMMA FilesAside ==
    ASSUME OutputInv, UNCHANGED <<checkpoint, quarantined, revalidated>>,
           contacts \subseteq contacts', targets \subseteq targets'
    PROVE  OutputInv' /\ \A mode \in Modes : \A at : Landed(mode, at) => Landed(mode, at)'
<1>1. Grew
    BY DEF Grew
<1>2. \A mode \in Modes : \A at : Landed(mode, at) => Landed(mode, at)'
    BY <1>1, LandedStays
<1>3. \A mode \in Modes : Standing(mode)'
    BY <1>2 DEF OutputInv, Standing
<1> QED BY <1>2, <1>3 DEF OutputInv

----------------------------------------------------------------------------
(* The command line importer.                                               *)

LEMMA InvokeStep ==
    ASSUME spine \in Spines, OutputInv, CliInv, NEW mode \in Modes, Invoke(mode)
    PROVE  OutputInv' /\ CliInv'
<1>1. /\ cli'.pc = "reading" /\ cli'.mode = mode /\ cli'.index = spine /\ cli'.file = 1
      /\ cli'.line = checkpoint[mode][1] /\ cli'.pending = <<>> /\ cli'.held = None /\ DOMAIN cli' = Fields
    BY DEF Invoke, NoWalk, Fields
<1>2. OutputInv' /\ \A m \in Modes : \A at : Landed(m, at) => Landed(m, at)'
    BY FilesAside DEF Invoke
<1>3. 1 \in DOMAIN Manifest /\ checkpoint[mode][1] \in Nat
    BY ManifestAssumption, SMTT(30) DEF OutputInv
<1>4. ASSUME NEW at \in Lines, at.file = 1, at.line <= checkpoint[mode][1] PROVE Landed(mode, at)'
    BY <1>2, <1>4 DEF OutputInv, Standing
<1>5. AllHandled'
    BY <1>1, <1>4 DEF AllHandled, Handled, HasLanded
<1>6. \A at : ~PendingAt(at)'
    BY <1>1 DEF PendingAt
<1>7. Placed' /\ Stages' /\ InOrder' /\ AllRead'
    BY <1>1, <1>3, <1>6 DEF Placed, Stages, InOrder, AllRead
<1> QED BY <1>1, <1>2, <1>5, <1>7 DEF CliInv

LEMMA StopCliStep ==
    ASSUME OutputInv, CliInv, StopCli
    PROVE  OutputInv' /\ CliInv'
<1>1. OutputInv'
    BY FilesAside DEF StopCli, Output
<1>2. cli'.pc = "failed" /\ DOMAIN cli' = Fields
    BY DEF StopCli, CliInv, Fields
<1> QED BY <1>1, <1>2 DEF CliInv, Active

(* A line is read: what it says is that it is blank, accepted or refused.   *)
LEMMA ReadLineStep ==
    ASSUME OutputInv, CliInv, ReadLine
    PROVE  OutputInv' /\ CliInv'
<1> DEFINE at == Here(cli)
           said == IF at \in Lines THEN Disposition(LineAt(at), cli.index) ELSE "blank"
<1>1. /\ DOMAIN cli = Fields /\ Placed /\ Stages /\ InOrder /\ AllRead /\ AllHandled
      /\ cli.pc = "reading" /\ cli.held = None
    BY DEF ReadLine, Reading, CliInv, Active, Stages
<1>2. OutputInv' /\ \A m \in Modes : \A x : Landed(m, x) => Landed(m, x)'
    BY FilesAside DEF ReadLine, Output
<1>3. /\ cli.mode \in Modes /\ cli.index \in Spines /\ cli.file \in DOMAIN Manifest /\ cli.line \in Nat
      /\ cli.pending \in Seq(Position)
    BY <1>1 DEF Placed
<1>4. at.file = cli.file /\ at.line = cli.line + 1 /\ at = [file |-> cli.file, line |-> cli.line + 1]
    BY DEF Here
<1>5. PICK pc, held, pending :
         /\ cli' = [cli EXCEPT !.pc = pc, !.line = cli.line + 1, !.pending = pending, !.held = held]
         /\ \/ said = "blank" /\ pc = "reading" /\ held = None /\ pending = cli.pending
            \/ /\ said = "accepted" /\ pc \in {"reading", "flushing"}
               /\ held = None /\ pending = Append(cli.pending, at)
            \/ /\ said \notin {"blank", "accepted"} /\ held = said /\ pending = cli.pending
               /\ pc = IF pending = <<>> THEN "held" ELSE "flushing"
  <2>2. CASE said = "blank"
    <3>1. cli' = [cli EXCEPT !.line = cli.line + 1]
        BY <2>2 DEF ReadLine
    <3>2. cli' = [cli EXCEPT !.pc = "reading", !.line = cli.line + 1, !.pending = cli.pending, !.held = None]
        BY <1>1, <3>1
    <3> QED BY <2>2, <3>2
  <2>3. CASE said = "accepted"
    <3>1. cli' = [cli EXCEPT !.line = cli.line + 1, !.pending = Append(cli.pending, at),
                             !.pc = IF Len(Append(cli.pending, at)) = BatchSize THEN "flushing" ELSE cli.pc]
        BY <2>3 DEF ReadLine
    <3> DEFINE pc == IF Len(Append(cli.pending, at)) = BatchSize THEN "flushing" ELSE "reading"
    <3>2. cli' = [cli EXCEPT !.pc = pc, !.line = cli.line + 1, !.pending = Append(cli.pending, at), !.held = None]
        BY <1>1, <3>1
    <3>3. pc \in {"reading", "flushing"}
        OBVIOUS
    <3> HIDE DEF pc
    <3> QED BY <2>3, <3>2, <3>3
  <2>4. CASE said \notin {"blank", "accepted"}
    <3>1. cli' = [cli EXCEPT !.pc = IF cli.pending = <<>> THEN "held" ELSE "flushing",
                             !.held = said, !.line = cli.line + 1]
        BY <2>4 DEF ReadLine, Quarantine
    <3>2. CASE cli.pending = <<>>
      <4>1. cli' = [cli EXCEPT !.pc = "held", !.line = cli.line + 1, !.pending = cli.pending, !.held = said]
          BY <3>1, <3>2
      <4> HIDE DEF said
      <4> QED BY <2>4, <3>2, <4>1
    <3>3. CASE cli.pending # <<>>
      <4>1. cli' = [cli EXCEPT !.pc = "flushing", !.line = cli.line + 1, !.pending = cli.pending, !.held = said]
          BY <3>1, <3>3
      <4> HIDE DEF said
      <4> QED BY <2>4, <3>3, <4>1
    <3> QED BY <3>2, <3>3
  <2> QED BY <2>2, <2>3, <2>4
<1>6. /\ cli'.pc = pc /\ cli'.mode = cli.mode /\ cli'.index = cli.index /\ cli'.file = cli.file
      /\ cli'.line = cli.line + 1 /\ cli'.pending = pending /\ cli'.held = held /\ DOMAIN cli' = Fields
    BY <1>1, <1>5 DEF Fields
<1>7. said # "blank" => at \in Lines
    OBVIOUS
<1>8. said = "blank" => at \notin Lines
    BY <1>3, DispositionAssumption
<1>9. said # None \/ said = "blank"
    BY <1>3, DispositionAssumption
<1>10. said # "blank" => said = Disposition(LineAt(at), cli.index)
    OBVIOUS
<1>11. at \in Lines => at \in Position
    BY LineFacts
<1> HIDE DEF said, at
<1>12. pending \in Seq(Position) /\ (said \notin {"accepted"} => pending = cli.pending)
    BY <1>3, <1>5, <1>7, <1>11
<1>13. \A x : PendingAt(x)' <=> PendingAt(x) \/ (said = "accepted" /\ x = at)
  <2>1. CASE said = "accepted"
    <3>1. /\ DOMAIN pending = 1..(Len(cli.pending) + 1) /\ Len(cli.pending) \in Nat
          /\ DOMAIN cli.pending = 1..Len(cli.pending)
          /\ pending[Len(cli.pending) + 1] = at
          /\ \A i \in DOMAIN cli.pending : pending[i] = cli.pending[i]
        BY <1>3, <1>5, <2>1
    <3>2. \A x : PendingAt(x)' <=> \E i \in DOMAIN pending : pending[i] = x
        BY <1>6 DEF PendingAt
    <3>3. \A i \in DOMAIN pending : i \in DOMAIN cli.pending \/ i = Len(cli.pending) + 1
        BY <3>1
    <3>4. DOMAIN cli.pending \subseteq DOMAIN pending /\ Len(cli.pending) + 1 \in DOMAIN pending
        BY <3>1
    <3> QED BY <2>1, <3>1, <3>2, <3>3, <3>4, ZenonT(60) DEF PendingAt
  <2>2. CASE said # "accepted"
      BY <1>6, <1>12, <2>2 DEF PendingAt
  <2> QED BY <2>1, <2>2
<1>14. \A x : PendingAt(x) => WasRead(x) /\ x.line \in Nat /\ x.line <= cli.line
    BY <1>1, LineFacts DEF AllRead, WasRead
<1>15. AllRead'
  <2> SUFFICES ASSUME NEW x, PendingAt(x)' PROVE WasRead(x)'
      BY DEF AllRead
  <2>1. CASE PendingAt(x)
    <3>1. x.line <= cli.line + 1 /\ x.line # cli.line + 1
        BY <1>3, <1>14, <2>1
    <3> QED BY <1>6, <1>14, <2>1, <3>1 DEF WasRead, LineAt
  <2>2. CASE said = "accepted" /\ x = at
    <3>1. held = None /\ x \in Lines /\ x.file = cli.file /\ x.line <= cli.line + 1
        BY <1>3, <1>4, <1>5, <1>7, <2>2
    <3> QED BY <1>6, <1>10, <2>2, <3>1 DEF WasRead, LineAt
  <2> QED BY <1>13, <2>1, <2>2
<1>16. AllHandled'
  <2> SUFFICES ASSUME NEW x \in Lines, x.file = cli.file, x.line <= cli.line + 1
               PROVE  HasLanded(x)' \/ PendingAt(x)' \/ (held # None /\ x.line = cli.line + 1)
      BY <1>6 DEF AllHandled, Handled
  <2>1. CASE x = at
    <3>1. said # "blank"
        BY <1>8, <2>1
    <3>2. CASE said = "accepted"
        BY <1>13, <2>1, <3>2
    <3>3. CASE said # "accepted"
        BY <1>4, <1>5, <1>9, <2>1, <3>1, <3>3
    <3> QED BY <3>2, <3>3
  <2>2. CASE x # at
    <3>1. x.line <= cli.line
        BY <1>3, <1>4, <2>2, LineFacts
    <3>2. HasLanded(x) \/ PendingAt(x)
        BY <1>1, <3>1 DEF AllHandled, Handled
    <3>3. HasLanded(x) => HasLanded(x)'
        BY <1>2, <1>6 DEF HasLanded
    <3> QED BY <1>13, <3>2, <3>3
  <2> QED BY <2>1, <2>2
<1>17. InOrder'
  <2> SUFFICES ASSUME NEW i \in DOMAIN pending, NEW j \in DOMAIN pending, i <= j
               PROVE  pending[i].line <= pending[j].line
      BY <1>6 DEF InOrder
  <2>1. CASE said # "accepted"
      BY <1>1, <1>12, <2>1 DEF InOrder
  <2>2. CASE said = "accepted"
    <3>1. /\ DOMAIN pending = 1..(Len(cli.pending) + 1) /\ Len(cli.pending) \in Nat
          /\ DOMAIN cli.pending = 1..Len(cli.pending)
          /\ pending[Len(cli.pending) + 1] = at
          /\ \A k \in DOMAIN cli.pending : pending[k] = cli.pending[k]
        BY <1>3, <1>5, <2>2
    <3>2. CASE j \in DOMAIN cli.pending
      <4>1. i \in DOMAIN cli.pending
          BY <3>1, <3>2
      <4> QED BY <1>1, <3>1, <3>2, <4>1 DEF InOrder
    <3>3. CASE j = Len(cli.pending) + 1
      <4>1. CASE i = j
        <5>1. pending[i].line = cli.line + 1
            BY <1>4, <3>1, <3>3, <4>1
        <5> QED BY <1>3, <4>1, <5>1
      <4>2. CASE i # j
        <5>1. i \in DOMAIN cli.pending
            BY <3>1, <3>3, <4>2
        <5>2. PendingAt(pending[i])
            BY <3>1, <5>1 DEF PendingAt
        <5>3. pending[i].line \in Nat /\ pending[i].line <= cli.line
            BY <1>14, <5>2
        <5> QED BY <1>3, <1>4, <3>1, <3>3, <5>3
      <4> QED BY <4>1, <4>2
    <3> QED BY <3>1, <3>2, <3>3
  <2> QED BY <2>1, <2>2
<1>18. pending # <<>> \/ said # "accepted"
  <2>1. Append(cli.pending, at) # <<>>
      BY <1>3
  <2> QED BY <1>5, <2>1
<1>19. Stages'
  <2>1. pc \in {"reading", "flushing", "held"}
      BY <1>5
  <2>2. pc = "reading" => held = None
      BY <1>5
  <2>3. pc = "held" => held # None /\ pending = <<>>
      BY <1>5, <1>9
  <2>4. pc = "flushing" => pending # <<>>
      BY <1>5, <1>18
  <2> QED BY <1>6, <2>1, <2>2, <2>3, <2>4 DEF Stages
<1>20. Placed'
    BY <1>3, <1>6, <1>12 DEF Placed
<1> QED BY <1>2, <1>6, <1>15, <1>16, <1>17, <1>19, <1>20 DEF CliInv

(* A batch is committed.                                                    *)
LEMMA CommitBatchStep ==
    ASSUME OutputInv, CliInv, CommitBatch
    PROVE  OutputInv' /\ CliInv'
<1>1. /\ DOMAIN cli = Fields /\ Placed /\ Stages /\ InOrder /\ AllRead /\ AllHandled
      /\ cli.pending # <<>>
    BY DEF CommitBatch, CliInv, Active, Stages
<1>2. contacts \subseteq contacts' /\ targets \subseteq targets'
    BY DEF CommitBatch, Commit
<1>3. OutputInv' /\ \A m \in Modes : \A x : Landed(m, x) => Landed(m, x)'
    BY <1>2, FilesAside DEF CommitBatch, Output
<1>4. cli' = [cli EXCEPT !.pc = IF cli.mode = "apply" THEN "saving" ELSE "reporting"]
    BY DEF CommitBatch
<1>5. /\ cli'.pc = (IF cli.mode = "apply" THEN "saving" ELSE "reporting")
      /\ cli'.mode = cli.mode /\ cli'.index = cli.index /\ cli'.file = cli.file
      /\ cli'.line = cli.line /\ cli'.pending = cli.pending /\ cli'.held = cli.held /\ DOMAIN cli' = Fields
    BY <1>1, <1>4 DEF Fields
<1>6. \A x : /\ PendingAt(x)' <=> PendingAt(x)
             /\ WasRead(x)' <=> WasRead(x)
             /\ HasLanded(x) => HasLanded(x)'
    BY <1>3, <1>5 DEF PendingAt, WasRead, HasLanded, LineAt
<1>7. Placed' /\ InOrder' /\ AllRead' /\ AllHandled'
    BY <1>1, <1>5, <1>6 DEF Placed, InOrder, AllRead, AllHandled, Handled
<1>8. ASSUME cli.mode = "apply", NEW x, PendingAt(x) PROVE HasLanded(x)'
  <2>1. Contacts(cli.pending, cli.index) \subseteq contacts'
      BY <1>8 DEF CommitBatch, Commit
  <2>2. PICK i \in DOMAIN cli.pending : cli.pending[i] = x
      BY <1>8 DEF PendingAt
  <2> DEFINE c == [key |-> RecordKey(cli.pending[i]), file |-> cli.pending[i].file,
                   school |-> CHOOSE o \in ExactMatch(cli.index, LineAt(cli.pending[i])) : TRUE]
  <2>3. c \in contacts' /\ c.key = RecordKey(x) /\ c.file = x.file
      BY <2>1, <2>2 DEF Contacts
  <2>4. Landed("apply", x)'
      BY <2>3 DEF Landed, RecordKey, LineAt
  <2> QED BY <1>5, <1>8, <2>4 DEF HasLanded
<1>9. ASSUME cli.mode = "seed", NEW x, PendingAt(x) PROVE Queued(x)'
  <2>1. Seeds(cli.pending, cli.index) \subseteq targets'
      BY <1>9 DEF CommitBatch
  <2>2. PICK i \in DOMAIN cli.pending : cli.pending[i] = x
      BY <1>9 DEF PendingAt
  <2> DEFINE t == [page |-> LineAt(cli.pending[i]).page,
                   school |-> CHOOSE o \in ExactMatch(cli.index, LineAt(cli.pending[i])) : TRUE]
  <2>3. t \in targets' /\ t.page = LineAt(x).page
      BY <2>1, <2>2 DEF Seeds
  <2> QED BY <2>3 DEF Queued, LineAt
<1>10. Stages'
    BY <1>1, <1>5, <1>6, <1>8, <1>9 DEF Stages
<1> QED BY <1>3, <1>5, <1>7, <1>10 DEF CliInv

(* A line is appended to an output file of the mode of the run.             *)
LEMMA AppendKeepsOutput ==
    ASSUME OutputInv, UNCHANGED <<checkpoint, contacts, targets>>, NEW m \in Modes, NEW at \in Position,
           \/ quarantined' = [quarantined EXCEPT ![m] = AppendedOnce(@, at)] /\ UNCHANGED revalidated
           \/ revalidated' = [revalidated EXCEPT ![m] = AppendedOnce(@, at)] /\ UNCHANGED quarantined
    PROVE  OutputInv' /\ Grew
<1>1. /\ \A n \in Modes : IsOutput(quarantined[n]) /\ IsOutput(revalidated[n])
      /\ DOMAIN quarantined = Modes /\ DOMAIN revalidated = Modes
    BY DEF OutputInv
<1>2. /\ \A n \in Modes : IsOutput(quarantined'[n]) /\ IsOutput(revalidated'[n])
      /\ DOMAIN quarantined' = Modes /\ DOMAIN revalidated' = Modes
      /\ \A n \in Modes : /\ ToSet(quarantined[n]) \subseteq ToSet(quarantined'[n])
                          /\ ToSet(revalidated[n]) \subseteq ToSet(revalidated'[n])
  <2>1. CASE quarantined' = [quarantined EXCEPT ![m] = AppendedOnce(@, at)] /\ UNCHANGED revalidated
    <3> PICK longer : longer = AppendedOnce(quarantined[m], at)
        OBVIOUS
    <3>1. IsOutput(longer) /\ ToSet(quarantined[m]) \subseteq ToSet(longer)
        BY <1>1, AppendedFacts
    <3>2. quarantined' = [quarantined EXCEPT ![m] = longer]
        BY <2>1
    <3> QED BY <1>1, <2>1, <3>1, <3>2
  <2>2. CASE revalidated' = [revalidated EXCEPT ![m] = AppendedOnce(@, at)] /\ UNCHANGED quarantined
    <3> PICK longer : longer = AppendedOnce(revalidated[m], at)
        OBVIOUS
    <3>1. IsOutput(longer) /\ ToSet(revalidated[m]) \subseteq ToSet(longer)
        BY <1>1, AppendedFacts
    <3>2. revalidated' = [revalidated EXCEPT ![m] = longer]
        BY <2>2
    <3> QED BY <1>1, <2>2, <3>1, <3>2
  <2> QED BY <2>1, <2>2
<1>3. Grew
    BY <1>2 DEF Grew
<1>4. \A n \in Modes : \A x : Landed(n, x) => Landed(n, x)'
    BY <1>3, LandedStays
<1>5. \A n \in Modes : Standing(n)'
    BY <1>4 DEF OutputInv, Standing
<1> QED BY <1>2, <1>3, <1>5 DEF OutputInv, IsOutput

(* What is pending is reported, in order; the last one ends the report.     *)
LEMMA ReportStep ==
    ASSUME OutputInv, CliInv, Report
    PROVE  OutputInv' /\ CliInv'
<1>1. /\ DOMAIN cli = Fields /\ Placed /\ Stages /\ InOrder /\ AllRead /\ AllHandled
      /\ cli.pc = "reporting" /\ cli.mode # "apply" /\ cli.pending # <<>>
      /\ cli.mode = "seed" => \A x : PendingAt(x) => Queued(x)
    BY DEF Report, CliInv, Active, Stages
<1> PICK m \in Modes : m = cli.mode
    BY <1>1 DEF Placed
<1>2. PICK i \in DOMAIN cli.pending :
          /\ \A j \in 1..(i - 1) : cli.pending[j] \in ToSet(revalidated[m])
          /\ revalidated' = [revalidated EXCEPT ![m] = AppendedOnce(@, cli.pending[i])]
          /\ cli' = [cli EXCEPT !.pc = IF i = Len(cli.pending) THEN "saving" ELSE @]
    BY DEF Report
<1> PICK at : at = cli.pending[i]
    OBVIOUS
<1>3. /\ at \in Position /\ Len(cli.pending) \in Nat /\ DOMAIN cli.pending = 1..Len(cli.pending)
      /\ i \in Nat
    BY <1>1 DEF Placed
<1>4. revalidated' = [revalidated EXCEPT ![m] = AppendedOnce(@, at)]
      /\ UNCHANGED <<checkpoint, contacts, targets, quarantined>>
    BY <1>2 DEF Report
<1>5. OutputInv' /\ Grew
    BY <1>3, <1>4, AppendKeepsOutput
<1>6. \A n \in Modes : \A x : Landed(n, x) => Landed(n, x)'
    BY <1>5, LandedStays
<1>7. ToSet(revalidated'[m]) = ToSet(revalidated[m]) \cup {at}
  <2>1. revalidated'[m] = AppendedOnce(revalidated[m], at)
      BY <1>4 DEF OutputInv
  <2>2. IsOutput(revalidated[m])
      BY DEF OutputInv
  <2> QED BY <1>3, <2>1, <2>2, AppendedFacts
<1>8. /\ cli'.pc = (IF i = Len(cli.pending) THEN "saving" ELSE "reporting")
      /\ cli'.mode = m /\ cli'.index = cli.index /\ cli'.file = cli.file
      /\ cli'.line = cli.line /\ cli'.pending = cli.pending /\ cli'.held = cli.held /\ DOMAIN cli' = Fields
    BY <1>1, <1>2 DEF Fields
<1>9. \A x : /\ PendingAt(x)' <=> PendingAt(x)
             /\ WasRead(x)' <=> WasRead(x)
             /\ HasLanded(x) => HasLanded(x)'
             /\ Queued(x) => Queued(x)'
    BY <1>4, <1>6, <1>8 DEF PendingAt, WasRead, HasLanded, Queued, LineAt
<1>10. Placed' /\ InOrder' /\ AllRead' /\ AllHandled'
    BY <1>1, <1>8, <1>9 DEF Placed, InOrder, AllRead, AllHandled, Handled
<1>11. ASSUME i = Len(cli.pending), NEW x, PendingAt(x) PROVE HasLanded(x)'
  <2>1. PICK j \in DOMAIN cli.pending : cli.pending[j] = x
      BY <1>11 DEF PendingAt
  <2>2. x \in ToSet(revalidated'[m])
    <3>1. j = i \/ j \in 1..(i - 1)
        BY <1>3, <1>11
    <3> QED BY <1>2, <1>7, <2>1, <3>1
  <2>3. m = "seed" => \E t \in targets' : t.page = LineAt(x).page
      BY <1>1, <1>4, <1>11 DEF Queued
  <2>4. Landed(m, x)'
      BY <1>1, <2>2, <2>3 DEF Landed, LineAt
  <2> QED BY <1>8, <2>4 DEF HasLanded
<1>12. Stages'
    BY <1>1, <1>8, <1>9, <1>11 DEF Stages
<1> QED BY <1>5, <1>8, <1>10, <1>12 DEF CliInv

(* A held line is written to the quarantine.                                *)
LEMMA HoldLineStep ==
    ASSUME OutputInv, CliInv, HoldLine
    PROVE  OutputInv' /\ CliInv'
<1>1. /\ DOMAIN cli = Fields /\ Placed /\ Stages /\ InOrder /\ AllRead /\ AllHandled
      /\ cli.pc = "held" /\ cli.held # None /\ cli.pending = <<>>
    BY DEF HoldLine, CliInv, Active, Stages
<1> PICK m \in Modes : m = cli.mode
    BY <1>1 DEF Placed
<1> PICK at : at = [file |-> cli.file, line |-> cli.line]
    OBVIOUS
<1>2. at \in Position
    BY <1>1, ManifestAssumption DEF Placed, Position
<1>3. quarantined' = [quarantined EXCEPT ![m] = AppendedOnce(@, at)]
      /\ UNCHANGED <<checkpoint, contacts, targets, revalidated>>
    BY DEF HoldLine
<1>4. OutputInv' /\ Grew
    BY <1>2, <1>3, AppendKeepsOutput
<1>5. \A n \in Modes : \A x : Landed(n, x) => Landed(n, x)'
    BY <1>4, LandedStays
<1>6. at \in ToSet(quarantined'[m])
  <2>1. quarantined'[m] = AppendedOnce(quarantined[m], at)
      BY <1>3 DEF OutputInv
  <2>2. IsOutput(quarantined[m])
      BY DEF OutputInv
  <2> QED BY <1>2, <2>1, <2>2, AppendedFacts
<1>7. /\ cli'.pc = "saving held" /\ cli'.mode = m /\ cli'.index = cli.index /\ cli'.file = cli.file
      /\ cli'.line = cli.line /\ cli'.pending = cli.pending /\ cli'.held = cli.held /\ DOMAIN cli' = Fields
    BY <1>1 DEF HoldLine, Fields
<1>8. \A x : /\ PendingAt(x)' <=> PendingAt(x)
             /\ WasRead(x)' <=> WasRead(x)
             /\ HasLanded(x) => HasLanded(x)'
    BY <1>5, <1>7 DEF PendingAt, WasRead, HasLanded, LineAt
<1>9. Placed' /\ InOrder' /\ AllRead' /\ AllHandled'
    BY <1>1, <1>7, <1>8 DEF Placed, InOrder, AllRead, AllHandled, Handled
<1>10. HeldLanded'
    BY <1>6, <1>7 DEF HeldLanded
<1>11. Stages'
    BY <1>1, <1>7, <1>10 DEF Stages
<1> QED BY <1>4, <1>7, <1>9, <1>11 DEF CliInv

(* The checkpoint moves: every line up to it has landed.                    *)
LEMMA SaveKeepsOutput ==
    ASSUME OutputInv, CliInv, Placed, UNCHANGED <<contacts, targets, quarantined, revalidated>>,
           NEW line \in Nat, SaveProgress(line),
           \A at \in Lines : at.file = cli.file /\ at.line <= line => HasLanded(at)
    PROVE  OutputInv' /\ \A n \in Modes : \A x : Landed(n, x) => Landed(n, x)'
<1> PICK m \in Modes : m = cli.mode
    BY DEF Placed
<1> PICK f \in DOMAIN Manifest : f = cli.file
    BY DEF Placed
<1>1. Grew
    BY DEF Grew
<1>2. \A n \in Modes : \A x : Landed(n, x) => Landed(n, x)'
    BY <1>1, LandedStays
<1>3. checkpoint' = [checkpoint EXCEPT ![m][f] = line] /\ checkpoint \in [Modes -> [DOMAIN Manifest -> Nat]]
    BY DEF SaveProgress, OutputInv
<1>4. /\ checkpoint' \in [Modes -> [DOMAIN Manifest -> Nat]]
      /\ \A n \in Modes, g \in DOMAIN Manifest :
            checkpoint'[n][g] = IF n = m /\ g = f THEN line ELSE checkpoint[n][g]
    BY <1>3
<1>5. ASSUME NEW n \in Modes PROVE Standing(n)'
  <2> SUFFICES ASSUME NEW at \in Lines, at.line <= checkpoint'[n][at.file] PROVE Landed(n, at)'
      BY DEF Standing
  <2>1. at.file \in DOMAIN Manifest
      BY LineFacts
  <2>2. CASE n = m /\ at.file = f
    <3>1. HasLanded(at)
        BY <1>4, <2>1, <2>2
    <3> QED BY <1>2, <2>2, <3>1 DEF HasLanded
  <2>3. CASE ~(n = m /\ at.file = f)
    <3>1. at.line <= checkpoint[n][at.file]
        BY <1>4, <2>1, <2>3
    <3> QED BY <1>2, <3>1 DEF OutputInv, Standing
  <2> QED BY <2>2, <2>3
<1> QED BY <1>2, <1>4, <1>5 DEF OutputInv, IsOutput

LEMMA SaveBatchStep ==
    ASSUME OutputInv, CliInv, SaveBatch
    PROVE  OutputInv' /\ CliInv'
<1>1. /\ DOMAIN cli = Fields /\ Placed /\ Stages /\ InOrder /\ AllRead /\ AllHandled
      /\ cli.pending # <<>> /\ \A x : PendingAt(x) => HasLanded(x)
    BY DEF SaveBatch, CliInv, Active, Stages
<1> PICK line : line = Last(cli.pending).line
    OBVIOUS
<1>2. /\ cli.pending \in Seq(Position) /\ Len(cli.pending) \in Nat \ {0} /\ DOMAIN cli.pending = 1..Len(cli.pending)
      /\ Last(cli.pending) = cli.pending[Len(cli.pending)] /\ cli.line \in Nat
    BY <1>1 DEF Placed, Last
<1>3. PendingAt(Last(cli.pending))
    BY <1>2 DEF PendingAt
<1>4. /\ line \in Nat /\ line <= cli.line /\ (cli.held # None => line # cli.line)
    BY <1>1, <1>3, LineFacts DEF AllRead, WasRead
<1>5. ASSUME NEW at \in Lines, at.file = cli.file, at.line <= line PROVE HasLanded(at)
  <2>1. at.line \in Nat /\ at.line <= cli.line
      BY <1>2, <1>4, <1>5, LineFacts
  <2>2. HasLanded(at) \/ PendingAt(at) \/ (cli.held # None /\ at.line = cli.line)
      BY <1>1, <1>5, <2>1 DEF AllHandled, Handled
  <2>3. ~(cli.held # None /\ at.line = cli.line)
      BY <1>2, <1>4, <1>5, <2>1
  <2> QED BY <1>1, <2>2, <2>3
<1>6. OutputInv' /\ \A n \in Modes : \A x : Landed(n, x) => Landed(n, x)'
    BY <1>1, <1>4, <1>5, SaveKeepsOutput DEF SaveBatch
<1>7. /\ cli'.pc = (IF cli.held = None THEN "reading" ELSE "held")
      /\ cli'.mode = cli.mode /\ cli'.index = cli.index /\ cli'.file = cli.file
      /\ cli'.line = cli.line /\ cli'.pending = <<>> /\ cli'.held = cli.held /\ DOMAIN cli' = Fields
    BY <1>1 DEF SaveBatch, Fields
<1>8. \A x : ~PendingAt(x)' /\ (HasLanded(x) => HasLanded(x)')
    BY <1>6, <1>7 DEF PendingAt, HasLanded
<1>9. AllHandled'
  <2> SUFFICES ASSUME NEW at \in Lines, at.file = cli.file, at.line <= cli.line
               PROVE  HasLanded(at)' \/ (cli.held # None /\ at.line = cli.line)
      BY <1>7 DEF AllHandled, Handled
  <2> QED BY <1>1, <1>8 DEF AllHandled, Handled
<1>10. Placed' /\ InOrder' /\ AllRead'
    BY <1>1, <1>7, <1>8 DEF Placed, InOrder, AllRead
<1>11. Stages'
  <2>1. CASE cli.held = None
      BY <1>7, <2>1 DEF Stages
  <2>2. CASE cli.held # None
      BY <1>7, <2>2 DEF Stages
  <2> QED BY <2>1, <2>2
<1> QED BY <1>6, <1>7, <1>9, <1>10, <1>11 DEF CliInv

LEMMA SaveHeldStep ==
    ASSUME OutputInv, CliInv, SaveHeld
    PROVE  OutputInv' /\ CliInv'
<1>1. /\ DOMAIN cli = Fields /\ Placed /\ Stages /\ InOrder /\ AllRead /\ AllHandled
      /\ cli.pending = <<>> /\ HeldLanded /\ cli.line \in Nat
    BY DEF SaveHeld, CliInv, Active, Stages, Placed
<1> PICK line \in Nat : line = cli.line
    BY <1>1
<1>2. ASSUME NEW at \in Lines, at.file = cli.file, at.line <= line PROVE HasLanded(at)
  <2>1. HasLanded(at) \/ at.line = cli.line
      BY <1>1, <1>2 DEF AllHandled, Handled, PendingAt
  <2>2. CASE at.line = cli.line
    <3>1. at = [file |-> cli.file, line |-> cli.line]
        BY <1>2, <2>2, LineFacts
    <3> QED BY <1>1, <3>1 DEF HeldLanded, HasLanded, Landed
  <2> QED BY <2>1, <2>2
<1>3. OutputInv' /\ \A n \in Modes : \A x : Landed(n, x) => Landed(n, x)'
    BY <1>1, <1>2, SaveKeepsOutput DEF SaveHeld
<1>4. /\ cli'.pc = "reading" /\ cli'.mode = cli.mode /\ cli'.index = cli.index /\ cli'.file = cli.file
      /\ cli'.line = cli.line /\ cli'.pending = <<>> /\ cli'.held = None /\ DOMAIN cli' = Fields
    BY <1>1 DEF SaveHeld, Fields
<1>5. \A x : ~PendingAt(x)' /\ (HasLanded(x) => HasLanded(x)')
    BY <1>3, <1>4 DEF PendingAt, HasLanded
<1>6. AllHandled'
    BY <1>2, <1>4, <1>5 DEF AllHandled, Handled
<1>7. Placed' /\ InOrder' /\ AllRead' /\ Stages'
    BY <1>1, <1>4, <1>5 DEF Placed, InOrder, AllRead, Stages
<1> QED BY <1>3, <1>4, <1>6, <1>7 DEF CliInv

(* The next file is read from its own checkpoint on.                        *)
LEMMA NextFileStep ==
    ASSUME OutputInv, CliInv, NextFile
    PROVE  OutputInv' /\ CliInv'
<1>1. /\ DOMAIN cli = Fields /\ Placed /\ Stages /\ InOrder /\ AllRead /\ AllHandled
      /\ cli.pending = <<>> /\ cli.held = None
    BY DEF NextFile, CliInv, Active, Stages
<1>2. OutputInv' /\ \A n \in Modes : \A x : Landed(n, x) => Landed(n, x)'
    BY FilesAside DEF NextFile, Output
<1>3. CASE cli.file = Len(Manifest)
  <2>1. cli'.pc = "done" /\ DOMAIN cli' = Fields
      BY <1>1, <1>3 DEF NextFile, Fields
  <2> QED BY <1>2, <2>1 DEF CliInv, Active
<1>4. CASE cli.file # Len(Manifest)
  <2> PICK m \in Modes : m = cli.mode
      BY <1>1 DEF Placed
  <2> PICK f : f = cli.file + 1
      OBVIOUS
  <2>1. f \in DOMAIN Manifest
      BY <1>1, <1>4, ManifestAssumption DEF Placed
  <2>2. cli' = [cli EXCEPT !.file = @ + 1, !.line = checkpoint[m][f]]
      BY <1>4 DEF NextFile
  <2>3. /\ cli'.pc = "reading" /\ cli'.mode = m /\ cli'.index = cli.index /\ cli'.file = f
        /\ cli'.line = checkpoint[m][f] /\ cli'.pending = <<>> /\ cli'.held = None /\ DOMAIN cli' = Fields
      BY <1>1, <2>2 DEF NextFile, Fields
  <2>4. checkpoint[m][f] \in Nat
      BY <2>1 DEF OutputInv
  <2>5. ASSUME NEW at \in Lines, at.file = f, at.line <= checkpoint[m][f] PROVE Landed(m, at)'
      BY <1>2, <2>5 DEF OutputInv, Standing
  <2>6. \A x : ~PendingAt(x)'
      BY <2>3 DEF PendingAt
  <2>7. AllHandled'
      BY <2>3, <2>5 DEF AllHandled, Handled, HasLanded
  <2>8. Placed' /\ InOrder' /\ AllRead' /\ Stages'
      BY <1>1, <2>1, <2>3, <2>4, <2>6 DEF Placed, InOrder, AllRead, Stages
  <2> QED BY <1>2, <2>3, <2>7, <2>8 DEF CliInv
<1> QED BY <1>3, <1>4

----------------------------------------------------------------------------
(* The startup importers.                                                   *)

(* What is imported more is expected; who started keeps what it needs.      *)
LEMMA ContactsGrow ==
    ASSUME \A c \in contacts : IsExpected(c), NEW fresh, contacts' = contacts \cup fresh,
           \A c \in fresh : IsExpected(c)
    PROVE  (\A c \in contacts' : IsExpected(c)) /\ (Present => Present')
<1>1. \A k : k \in ImportedKeys => k \in ImportedKeys'
    BY DEF ImportedKeys
<1>2. \A at : RecordKey(at)' = RecordKey(at)
    BY DEF RecordKey, LineAt
<1>3. Present => Present'
    BY <1>1, <1>2 DEF Present
<1> QED BY <1>3

LEMMA ContactsExpected ==
    ASSUME NEW list \in Seq(Position), NEW index, \A i \in DOMAIN list : list[i] \in Expected
    PROVE  \A c \in Contacts(list, index) : IsExpected(c)
BY DEF Contacts, IsExpected

(* The command line importer commits what some state of the tables accepts. *)
LEMMA CliImportsExpected ==
    ASSUME ExclusionsHold, CliInv, CommitBatch, cli.mode = "apply"
    PROVE  \E fresh : contacts' = contacts \cup fresh /\ \A c \in fresh : IsExpected(c)
<1> DEFINE fresh == Contacts(cli.pending, cli.index)
<1>1. contacts' = contacts \cup fresh
    BY DEF CommitBatch, Commit
<1>2. Placed /\ AllRead
    BY DEF CommitBatch, CliInv, Active
<1>3. ASSUME NEW i \in DOMAIN cli.pending PROVE cli.pending[i] \in Expected
  <2> PICK at : at = cli.pending[i]
      OBVIOUS
  <2>1. PendingAt(at)
      BY DEF PendingAt
  <2>2. at \in Lines /\ Disposition(LineAt(at), cli.index) = "accepted" /\ cli.index \in Spines
      BY <1>2, <2>1 DEF AllRead, WasRead, Placed
  <2>3. ~Excluded(at)
      BY <2>2 DEF ExclusionsHold
  <2> QED BY <2>2, <2>3 DEF Expected
<1>4. \A c \in fresh : IsExpected(c)
    BY <1>2, <1>3, ContactsExpected DEF Placed
<1> QED BY <1>1, <1>4

(* A step that leaves the starters alone.                                   *)
LEMMA StarterAside ==
    ASSUME StarterInv, UNCHANGED starter, NEW fresh, contacts' = contacts \cup fresh,
           \A c \in fresh : IsExpected(c)
    PROVE  StarterInv'
<1>1. (\A c \in contacts' : IsExpected(c)) /\ (Present => Present')
    BY ContactsGrow DEF StarterInv
<1> QED BY <1>1 DEF StarterInv, IsExpected, CountsHold

(* A step of one starter.                                                   *)
LEMMA OneStarter ==
    ASSUME StarterInv, NEW w \in Starters, NEW walk, starter' = [starter EXCEPT ![w] = walk],
           NEW fresh, contacts' = contacts \cup fresh, \A c \in fresh : IsExpected(c),
           CountsHold(walk), walk.pc = "completed" => Present
    PROVE  StarterInv'
<1>1. (\A c \in contacts' : IsExpected(c)) /\ (Present => Present')
    BY ContactsGrow DEF StarterInv
<1>2. \A v \in Starters : CountsHold(starter'[v]) /\ (starter'[v].pc = "completed" => Present)
    BY DEF StarterInv
<1>3. DOMAIN starter' = Starters
    BY DEF StarterInv
<1> QED BY <1>1, <1>2, <1>3 DEF StarterInv, IsExpected, CountsHold

LEMMA StarterSteps ==
    ASSUME ExclusionsHold, StarterInv, NEW w \in Starters,
           \/ Preflight(w) \/ LoadImportedRecordKeys(w) \/ ImportLine(w) \/ FlushBatch(w)
           \/ EndFile(w) \/ StopStarter(w)
    PROVE  StarterInv'
<1>1. /\ DOMAIN starter = Starters /\ CountsHold(starter[w]) /\ \A c \in contacts : IsExpected(c)
    BY DEF StarterInv
<1>2. ASSUME NEW walk, starter' = [starter EXCEPT ![w] = walk], UNCHANGED contacts,
             CountsHold(walk), walk.pc = "completed" => Present
      PROVE  StarterInv'
  <2> PICK fresh : fresh = {}
      OBVIOUS
  <2>1. contacts' = contacts \cup fresh /\ \A c \in fresh : IsExpected(c)
      BY <1>2
  <2> QED BY <1>2, <2>1, OneStarter
<1>3. CASE Preflight(w)
  <2> DEFINE verified == [NoWalk EXCEPT !.pc = "verified", !.index = spine, !.expected = Cardinality(Expected)]
             failed == [NoWalk EXCEPT !.pc = "failed"]
             walk == IF PreflightAccepts /\ Expected # {} THEN verified ELSE failed
  <2>1. starter' = [starter EXCEPT ![w] = walk] /\ UNCHANGED contacts
      BY <1>3 DEF Preflight
  <2>2. CountsHold(verified) /\ verified.pc # "completed"
      BY DEF CountsHold, NoWalk, Fields
  <2>3. CountsHold(failed) /\ failed.pc # "completed"
      BY DEF CountsHold, NoWalk, Fields
  <2> HIDE DEF verified, failed
  <2>4. CountsHold(walk) /\ walk.pc # "completed"
      BY <2>2, <2>3
  <2> HIDE DEF walk
  <2> QED BY <1>2, <2>1, <2>4
<1>4. CASE LoadImportedRecordKeys(w)
  <2> PICK pc : pc = IF Cardinality(ImportedKeys) = starter[w].expected THEN "completed"
                     ELSE IF Cardinality(ImportedKeys) > starter[w].expected THEN "failed" ELSE "importing"
      OBVIOUS
  <2> DEFINE walk == [starter[w] EXCEPT !.completed = ImportedKeys, !.pc = pc]
  <2>1. starter[w].pc = "verified" /\ starter' = [starter EXCEPT ![w] = walk] /\ UNCHANGED contacts
      BY <1>1, <1>4 DEF LoadImportedRecordKeys
  <2>2. /\ DOMAIN walk = Fields /\ walk.pc = pc /\ walk.expected = starter[w].expected
        /\ walk.pending = starter[w].pending /\ walk.file = starter[w].file /\ walk.line = starter[w].line
      BY <1>1 DEF CountsHold, Fields
  <2> HIDE DEF walk
  <2>3. CountsHold(walk)
      BY <1>1, <2>1, <2>2 DEF CountsHold
  <2>4. walk.pc = "completed" => Present
    <3>1. pc = "completed" => Cardinality(ImportedKeys) = Cardinality(Expected)
        BY <1>1, <2>1 DEF CountsHold
    <3> QED BY <1>1, <2>2, <3>1, CountMeansPresent
  <2> QED BY <1>2, <2>1, <2>3, <2>4
<1>5. CASE ImportLine(w)
  <2> PICK at : at = Here(starter[w])
      OBVIOUS
  <2> PICK pending : pending = IF at \in Expected /\ RecordKey(at) \notin starter[w].completed
                               THEN Append(starter[w].pending, at) ELSE starter[w].pending
      OBVIOUS
  <2> DEFINE walk == [starter[w] EXCEPT !.line = @ + 1, !.pending = pending]
  <2>1. starter[w].pc = "importing" /\ starter' = [starter EXCEPT ![w] = walk] /\ UNCHANGED contacts
      BY <1>1, <1>5 DEF ImportLine
  <2>2. /\ starter[w].pending \in Seq(Position) /\ starter[w].line \in Nat /\ starter[w].file \in Nat
        /\ \A i \in DOMAIN starter[w].pending : starter[w].pending[i] \in Expected
        /\ starter[w].expected = Cardinality(Expected)
      BY <1>1, <2>1 DEF CountsHold
  <2>3. /\ DOMAIN walk = Fields /\ walk.pc = "importing" /\ walk.expected = starter[w].expected
        /\ walk.pending = pending /\ walk.file = starter[w].file /\ walk.line = starter[w].line + 1
      BY <1>1, <2>1 DEF CountsHold, Fields
  <2>4. at \in Expected => at \in Position
      BY LineFacts DEF Expected
  <2>5. pending \in Seq(Position) /\ \A i \in DOMAIN pending : pending[i] \in Expected
      BY <2>2, <2>4
  <2> HIDE DEF walk
  <2>6. CountsHold(walk) /\ walk.pc # "completed"
      BY <2>2, <2>3, <2>5 DEF CountsHold
  <2> QED BY <1>2, <2>1, <2>6
<1>6. CASE FlushBatch(w)
  <2> DEFINE walk == [starter[w] EXCEPT !.pending = <<>>]
             fresh == Contacts(starter[w].pending, starter[w].index)
  <2>1. /\ starter[w].pc = "importing" /\ starter' = [starter EXCEPT ![w] = walk]
        /\ contacts' = contacts \cup fresh
      BY <1>1, <1>6 DEF FlushBatch, Commit
  <2>2. /\ starter[w].pending \in Seq(Position) /\ starter[w].line \in Nat /\ starter[w].file \in Nat
        /\ \A i \in DOMAIN starter[w].pending : starter[w].pending[i] \in Expected
        /\ starter[w].expected = Cardinality(Expected)
      BY <1>1, <2>1 DEF CountsHold
  <2>3. \A c \in fresh : IsExpected(c)
      BY <2>2, ContactsExpected
  <2>4. /\ DOMAIN walk = Fields /\ walk.pc = "importing" /\ walk.expected = starter[w].expected
        /\ walk.pending = <<>> /\ walk.file = starter[w].file /\ walk.line = starter[w].line
      BY <1>1, <2>1 DEF CountsHold, Fields
  <2> HIDE DEF walk, fresh
  <2>5. CountsHold(walk) /\ walk.pc # "completed"
      BY <2>2, <2>4 DEF CountsHold
  <2> QED BY <2>1, <2>3, <2>5, OneStarter
<1>7. CASE EndFile(w)
  <2>1. starter[w].pc = "importing" /\ UNCHANGED contacts
      BY <1>7 DEF EndFile
  <2>2. /\ starter[w].pending \in Seq(Position) /\ starter[w].line \in Nat /\ starter[w].file \in Nat
        /\ \A i \in DOMAIN starter[w].pending : starter[w].pending[i] \in Expected
        /\ starter[w].expected = Cardinality(Expected) /\ DOMAIN starter[w] = Fields
      BY <1>1, <2>1 DEF CountsHold
  <2>3. CASE starter[w].file < Len(Manifest)
    <3> DEFINE walk == [starter[w] EXCEPT !.file = @ + 1, !.line = 0]
    <3>1. starter' = [starter EXCEPT ![w] = walk]
        BY <1>1, <1>7, <2>3 DEF EndFile
    <3>2. /\ DOMAIN walk = Fields /\ walk.pc = "importing" /\ walk.expected = starter[w].expected
          /\ walk.pending = starter[w].pending /\ walk.file = starter[w].file + 1 /\ walk.line = 0
        BY <2>1, <2>2 DEF Fields
    <3> HIDE DEF walk
    <3>3. CountsHold(walk) /\ walk.pc # "completed"
        BY <2>2, <3>2 DEF CountsHold
    <3> QED BY <1>2, <2>1, <3>1, <3>3
  <2>4. CASE ~(starter[w].file < Len(Manifest))
    <3> PICK pc : pc = IF Cardinality(ImportedKeys) = starter[w].expected THEN "completed" ELSE "failed"
        OBVIOUS
    <3> DEFINE walk == [starter[w] EXCEPT !.pc = pc]
    <3>1. starter' = [starter EXCEPT ![w] = walk]
        BY <1>1, <1>7, <2>4 DEF EndFile
    <3>2. DOMAIN walk = Fields /\ walk.pc = pc /\ pc \notin {"verified", "importing"}
        BY <2>2 DEF Fields
    <3> HIDE DEF walk
    <3>3. CountsHold(walk)
        BY <3>2 DEF CountsHold
    <3>4. walk.pc = "completed" => Present
      <4>1. pc = "completed" => Cardinality(ImportedKeys) = Cardinality(Expected)
          BY <2>2
      <4> QED BY <1>1, <3>2, <4>1, CountMeansPresent
    <3> QED BY <1>2, <2>1, <3>1, <3>3, <3>4
  <2> QED BY <2>3, <2>4
<1>8. CASE StopStarter(w)
  <2> DEFINE walk == [NoWalk EXCEPT !.pc = "failed"]
  <2>1. starter' = [starter EXCEPT ![w] = walk] /\ UNCHANGED contacts
      BY <1>8 DEF StopStarter
  <2>2. CountsHold(walk) /\ walk.pc # "completed"
      BY DEF CountsHold, NoWalk, Fields
  <2> HIDE DEF walk
  <2> QED BY <1>2, <2>1, <2>2
<1> QED BY <1>3, <1>4, <1>5, <1>6, <1>7, <1>8

----------------------------------------------------------------------------
(* Every step.                                                              *)

LEMMA LegacyInvInit == LegacyInit => LegacyInv
<1> SUFFICES ASSUME LegacyInit PROVE LegacyInv
    OBVIOUS
<1>1. \A mode \in Modes : Standing(mode)
  <2> SUFFICES ASSUME NEW mode \in Modes, NEW at \in Lines, at.line <= checkpoint[mode][at.file] PROVE FALSE
      BY DEF Standing
  <2>1. at.file \in DOMAIN Manifest /\ at.line \in Nat /\ at.line \in DOMAIN Manifest[at.file]
      BY LineFacts
  <2>2. at.line >= 1
      BY <2>1, ManifestAssumption
  <2>3. checkpoint[mode][at.file] = 0
      BY <2>1 DEF LegacyInit
  <2> QED BY <2>1, <2>2, <2>3
<1>2. OutputInv
  <2>1. IsOutput(<<>>)
      BY DEF IsOutput, IsInjective
  <2> QED BY <1>1, <2>1 DEF LegacyInit, OutputInv
<1>3. CliInv
    BY DEF LegacyInit, CliInv, Active, NoWalk, Fields
<1>4. StarterInv
    BY DEF LegacyInit, StarterInv, CountsHold, NoWalk, Fields
<1>5. spine \in Spines
    BY DEF LegacyInit
<1> QED BY <1>2, <1>3, <1>4, <1>5 DEF LegacyInv

(* The command line importer needs nothing of the starters.                 *)
LEMMA OutputsStep ==
    ASSUME spine \in Spines, OutputInv, CliInv, [LegacyNext]_legacyVars
    PROVE  spine' \in Spines /\ OutputInv' /\ CliInv'
<1>1. ASSUME NEW mode \in Modes, Invoke(mode) PROVE spine' \in Spines /\ OutputInv' /\ CliInv'
    BY <1>1, InvokeStep DEF Invoke
<1>2. CASE ReadLine
    BY <1>2, ReadLineStep DEF ReadLine
<1>3. CASE CommitBatch
    BY <1>3, CommitBatchStep DEF CommitBatch
<1>4. CASE Report
    BY <1>4, ReportStep DEF Report
<1>5. CASE SaveBatch
    BY <1>5, SaveBatchStep DEF SaveBatch
<1>6. CASE HoldLine
    BY <1>6, HoldLineStep DEF HoldLine
<1>7. CASE SaveHeld
    BY <1>7, SaveHeldStep DEF SaveHeld
<1>8. CASE NextFile
    BY <1>8, NextFileStep DEF NextFile
<1>9. CASE StopCli
    BY <1>9, StopCliStep DEF StopCli
<1>10. ASSUME NEW w \in Starters,
              \/ Preflight(w) \/ LoadImportedRecordKeys(w) \/ ImportLine(w) \/ FlushBatch(w)
              \/ EndFile(w) \/ StopStarter(w)
       PROVE  spine' \in Spines /\ OutputInv' /\ CliInv'
  <2>1. UNCHANGED <<spine, targets, checkpoint, quarantined, revalidated, cli>> /\ contacts \subseteq contacts'
      BY <1>10 DEF Preflight, LoadImportedRecordKeys, ImportLine, FlushBatch, EndFile, StopStarter,
                   Unchanging, Output, Commit
  <2> QED BY <2>1, CliAside
<1>11. CASE SeedUncovered \/ Reorganize \/ UNCHANGED legacyVars
  <2>1. /\ UNCHANGED <<contacts, checkpoint, quarantined, revalidated, cli>>
        /\ targets \subseteq targets' /\ spine' \in Spines
      BY <1>11 DEF SeedUncovered, Reorganize, legacyVars, Output
  <2> QED BY <2>1, CliAside
<1> QED BY <1>1, <1>2, <1>3, <1>4, <1>5, <1>6, <1>7, <1>8, <1>9, <1>10, <1>11 DEF LegacyNext

(* What the starters rely on, whoever imports.                              *)
LEMMA StartersStep ==
    ASSUME ExclusionsHold, LegacyInv, [LegacyNext]_legacyVars
    PROVE  StarterInv'
<1>1. spine \in Spines /\ OutputInv /\ CliInv /\ StarterInv
    BY DEF LegacyInv
<1>2. ASSUME UNCHANGED <<contacts, starter>> PROVE StarterInv'
  <2> PICK fresh : fresh = {}
      OBVIOUS
  <2>1. contacts' = contacts \cup fresh /\ \A c \in fresh : IsExpected(c)
      BY <1>2
  <2> QED BY <1>1, <1>2, <2>1, StarterAside
<1>3. CASE \/ \E mode \in Modes : Invoke(mode)
           \/ ReadLine \/ Report \/ SaveBatch \/ HoldLine \/ SaveHeld \/ NextFile \/ StopCli
           \/ SeedUncovered \/ Reorganize \/ UNCHANGED legacyVars
    BY <1>2, <1>3 DEF Invoke, ReadLine, Report, SaveBatch, HoldLine, SaveHeld, NextFile, StopCli,
                      SeedUncovered, Reorganize, legacyVars
<1>4. CASE CommitBatch /\ cli.mode = "apply"
    BY <1>1, <1>4, CliImportsExpected, StarterAside DEF CommitBatch
<1>5. CASE CommitBatch /\ cli.mode # "apply"
    BY <1>2, <1>5 DEF CommitBatch
<1>6. ASSUME NEW w \in Starters,
             \/ Preflight(w) \/ LoadImportedRecordKeys(w) \/ ImportLine(w) \/ FlushBatch(w)
             \/ EndFile(w) \/ StopStarter(w)
      PROVE  StarterInv'
    BY <1>1, <1>6, StarterSteps
<1> QED BY <1>3, <1>4, <1>5, <1>6 DEF LegacyNext

----------------------------------------------------------------------------
(* Whatever is killed where and however often the organization tables       *)
(* change, a checkpoint stands for lines that were imported, queued and     *)
(* reported, or quarantined, and no output file says a line twice; of the   *)
(* declared exclusions nothing is assumed.                                  *)
THEOREM CheckpointsAreKept == LegacySpec => []CheckpointStands
<1> DEFINE Inv == spine \in Spines /\ OutputInv /\ CliInv
<1>1. LegacyInit => Inv
    BY LegacyInvInit DEF LegacyInv
<1>2. Inv /\ [LegacyNext]_legacyVars => Inv'
    BY OutputsStep
<1>3. Inv => CheckpointStands
    BY DEF OutputInv, Standing, IsOutput, CheckpointStands
<1> QED BY <1>1, <1>2, <1>3, PTL DEF LegacySpec

(* Moreover a worker starts behind the import only when all it expects is   *)
(* in the database, if no state of the tables accepts a declared exclusion. *)
THEOREM ContactsAreNotSkipped ==
    ASSUME ExclusionsHold
    PROVE  LegacySpec => []NoContactIsSkipped
<1>1. LegacyInit => LegacyInv
    BY LegacyInvInit
<1>2. LegacyInv /\ [LegacyNext]_legacyVars => LegacyInv'
    BY OutputsStep, StartersStep DEF LegacyInv
<1>3. LegacyInv => StartsComplete
    BY DEF LegacyInv, StarterInv, Present, StartsComplete
<1>4. LegacyInv => CheckpointStands
    BY DEF LegacyInv, OutputInv, Standing, IsOutput, CheckpointStands
<1> QED BY <1>1, <1>2, <1>3, <1>4, PTL DEF LegacySpec, NoContactIsSkipped

----------------------------------------------------------------------------
(* The organizer: every row of the spine is accounted for.                  *)
OrganizerSpec == OrganizerInit /\ [][OrganizerNext]_organizerVars

----------------------------------------------------------------------------
(* What is known of a record by its source, which files hold what, and what *)
(* is always left of the rows.                                              *)
StagedNames == {"records", "overlays", "reconciliation"}
FileNames == StagedNames \cup {"work", "queue", "exact"}
ClassifiedSources == {"askted", "general_purpose", "independent_school_district", "dependent_school_system"}
NcesSources == {"nces-lea", "nces-school"}
IdsOf(source, key) == {<<IF source = "nces-lea" THEN "nces_district" ELSE "nces_school", key[1]>>}
Sorted(r) == (Classified(r) <=> r.source \in ClassifiedSources) /\ (Classified(r) => r.ids # {})
Fits(name, r) ==
    /\ Sorted(r)
    /\ name = "reconciliation" => r.source = "register"
    /\ name = "records" /\ r.source \in NcesSources => NcesIds(r) = IdsOf(r.source, r.key)

FilesAreLists(a) == DOMAIN a = ArtifactNames /\ \A name \in FileNames : a[name] \in Seq(ToSet(a[name]))
RowsFit(a) == \A name \in StagedNames : \A i \in DOMAIN a[name] : Fits(name, a[name][i])
WorkFits(a) ==
    /\ \A i \in DOMAIN a.work : a.work[i].source \notin ClassifiedSources
    /\ \A name \in StagedNames : \A i \in DOMAIN a[name] :
          ~Classified(a[name][i]) => RowsAbout(a.work, a[name][i]) # {}

CountsFit(a, counts) ==
    \A s : CountOf(counts, s).records =
              Cardinality(RowsFrom(a.records, s)) + Cardinality(RowsFrom(a.overlays, s))
              + Cardinality(RowsFrom(a.reconciliation, s))

Missing(list, r) == {i \in RowsAbout(list, r) : list[i].site = None}
Answered(r, websites) == r.source \in NcesSources /\ IdsOf(r.source, r.key) \cap websites # {}
SitesFit(a, websites) ==
    \A r : /\ Cardinality(RowsAbout(a.exact, r)) = IF Answered(r, websites) THEN Cardinality(Missing(a.records, r)) ELSE 0
           /\ Cardinality(RowsAbout(a.queue, r)) = IF Answered(r, websites) THEN 0 ELSE Cardinality(Missing(a.records, r))
IndexFits(a, websites) == websites = UNION {IndexTexasWebsite(a.overlays[i]) : i \in DOMAIN a.overlays}

(* Texas is read before anything else, so that its index is whole when the  *)
(* first record is written.                                                 *)
Later(list) == \A i \in DOMAIN list : list[i].kind # "texas"
SheetsFit(list) == \A i \in DOMAIN list : list[i].kind = "census" => list[i].row.sheet \in CensusSheets
TexasFirst(list) == \A i, j \in DOMAIN list : i <= j /\ list[j].kind = "texas" => list[i].kind = "texas"
TodoFits(a, todo) ==
    /\ todo \in Seq(ToSet(todo)) /\ SheetsFit(todo) /\ TexasFirst(todo)
    /\ ~Later(todo) => a.records = <<>> /\ a.queue = <<>> /\ a.exact = <<>>

OrganizerFits(o, a) ==
    /\ DOMAIN o = DOMAIN Idle
    /\ o.pc = "organizing" => TodoFits(a, o.todo)
    /\ o.pc \in {"organizing", "done"} =>
          /\ CountsFit(a, o.counts) /\ SitesFit(a, o.websites) /\ IndexFits(a, o.websites)
          /\ o.districts \subseteq ToSet(a.overlays)
ArtifactFits(a) == FilesAreLists(a) /\ RowsFit(a) /\ WorkFits(a)
ImporterFits(m) ==
    /\ DOMAIN m = DOMAIN NoImporter /\ m.file \in 1..3 /\ m.line \in Nat
    /\ m.batch \in Seq(ToSet(m.batch)) /\ \A i \in DOMAIN m.batch : Sorted(m.batch[i])
StagedFits(s) ==
    /\ DOMAIN s = {"record", "version", "status"} /\ Sorted(s.record)
    /\ s.status \in {"ready_to_import", "imported"} => Classified(s.record)
OrganizerInv ==
    /\ release \in Releases
    /\ OrganizerFits(organizer, artifact) /\ ArtifactFits(artifact) /\ ImporterFits(importer)
    /\ organizer.pc = "done" => organized.counts = organizer.counts
    /\ \A s \in spineRows : StagedFits(s)

----------------------------------------------------------------------------
(* Lists.                                                                   *)

LEMMA Appending ==
    ASSUME NEW s, s \in Seq(ToSet(s)), NEW e
    PROVE  /\ Append(s, e) \in Seq(ToSet(Append(s, e))) /\ Len(s) \in Nat /\ Len(s) + 1 \notin DOMAIN s
           /\ DOMAIN Append(s, e) = DOMAIN s \cup {Len(s) + 1}
           /\ Append(s, e)[Len(s) + 1] = e /\ \A i \in DOMAIN s : Append(s, e)[i] = s[i]
           /\ s \o <<>> = s /\ s \o <<e>> = Append(s, e)
<1> DEFINE S == ToSet(s) \cup {e}
<1>1. s \in Seq(S) /\ e \in S
  <2>1. ToSet(s) \subseteq S
      OBVIOUS
  <2> HIDE DEF S
  <2>2. Seq(ToSet(s)) \subseteq Seq(S)
      BY <2>1
  <2> QED BY <2>2 DEF S
<1> HIDE DEF S
<1>2. /\ Append(s, e) \in Seq(S) /\ Len(s) \in Nat /\ Len(s) + 1 \notin DOMAIN s
      /\ DOMAIN Append(s, e) = DOMAIN s \cup {Len(s) + 1}
      /\ Append(s, e)[Len(s) + 1] = e /\ \A i \in DOMAIN s : Append(s, e)[i] = s[i]
      /\ s \o <<>> = s /\ s \o <<e>> = Append(s, e)
    BY <1>1
<1>3. Append(s, e) \in Seq(ToSet(Append(s, e)))
  <2> DEFINE l == Append(s, e)
  <2>1. l \in Seq(S)
      BY <1>2
  <2> HIDE DEF l
  <2>2. l \in [1..Len(l) -> ToSet(l)] /\ Len(l) \in Nat
      BY <2>1 DEF ToSet
  <2>3. l \in Seq(ToSet(l))
      BY <2>2
  <2> QED BY <2>3 DEF l
<1> QED BY <1>2, <1>3

LEMMA PlacesAreFinite ==
    ASSUME NEW s, s \in Seq(ToSet(s)), NEW P, P \subseteq DOMAIN s
    PROVE  IsFiniteSet(P) /\ Cardinality(P) \in Nat /\ (P = {} <=> Cardinality(P) = 0)
<1>1. IsFiniteSet(DOMAIN s)
  <2>1. DOMAIN s = 1..Len(s) /\ Len(s) \in Nat
      OBVIOUS
  <2> QED BY <2>1, FS_Interval
<1>2. IsFiniteSet(P)
    BY <1>1, FS_Subset
<1> QED BY <1>2, FS_CardinalityType, FS_EmptySet

(* A row more is one more for its source and its key.                       *)
LEMMA OneMore ==
    ASSUME NEW s, s \in Seq(ToSet(s)), NEW e
    PROVE  /\ \A r : Cardinality(RowsAbout(Append(s, e), r)) =
                  Cardinality(RowsAbout(s, r)) + (IF e.source = r.source /\ e.key = r.key THEN 1 ELSE 0)
           /\ \A r : Cardinality(Missing(Append(s, e), r)) =
                  Cardinality(Missing(s, r)) + (IF e.source = r.source /\ e.key = r.key /\ e.site = None THEN 1 ELSE 0)
           /\ \A x : Cardinality(RowsFrom(Append(s, e), x)) =
                  Cardinality(RowsFrom(s, x)) + (IF e.source = x THEN 1 ELSE 0)
           /\ \A r : Cardinality(RowsAbout(s, r)) \in Nat /\ Cardinality(Missing(s, r)) \in Nat
           /\ \A x : Cardinality(RowsFrom(s, x)) \in Nat
<1> DEFINE n == Len(s) + 1
<1>1. /\ n \notin DOMAIN s /\ DOMAIN Append(s, e) = DOMAIN s \cup {n}
      /\ Append(s, e)[n] = e /\ \A i \in DOMAIN s : Append(s, e)[i] = s[i]
    BY Appending
<1> HIDE DEF n
<1>2. ASSUME NEW P, P \subseteq DOMAIN s
      PROVE  Cardinality(P) \in Nat /\ Cardinality(P \cup {n}) = Cardinality(P) + 1
  <2>1. IsFiniteSet(P) /\ Cardinality(P) \in Nat /\ n \notin P
      BY <1>1, <1>2, PlacesAreFinite
  <2> QED BY <2>1, FS_AddElement
<1>3. ASSUME NEW r
      PROVE  /\ Cardinality(RowsAbout(Append(s, e), r)) =
                    Cardinality(RowsAbout(s, r)) + (IF e.source = r.source /\ e.key = r.key THEN 1 ELSE 0)
             /\ Cardinality(RowsAbout(s, r)) \in Nat
  <2>1. RowsAbout(s, r) \subseteq DOMAIN s
      BY DEF RowsAbout
  <2>2. RowsAbout(Append(s, e), r) = IF e.source = r.source /\ e.key = r.key THEN RowsAbout(s, r) \cup {n} ELSE RowsAbout(s, r)
      BY <1>1 DEF RowsAbout
  <2>3. Cardinality(RowsAbout(s, r)) \in Nat /\ Cardinality(RowsAbout(s, r) \cup {n}) = Cardinality(RowsAbout(s, r)) + 1
      BY <1>2, <2>1
  <2> QED BY <2>2, <2>3
<1>4. ASSUME NEW r
      PROVE  /\ Cardinality(Missing(Append(s, e), r)) =
                    Cardinality(Missing(s, r)) + (IF e.source = r.source /\ e.key = r.key /\ e.site = None THEN 1 ELSE 0)
             /\ Cardinality(Missing(s, r)) \in Nat
  <2>1. Missing(s, r) \subseteq DOMAIN s
      BY DEF Missing, RowsAbout
  <2>2. Missing(Append(s, e), r) = IF e.source = r.source /\ e.key = r.key /\ e.site = None THEN Missing(s, r) \cup {n} ELSE Missing(s, r)
      BY <1>1 DEF Missing, RowsAbout
  <2>3. Cardinality(Missing(s, r)) \in Nat /\ Cardinality(Missing(s, r) \cup {n}) = Cardinality(Missing(s, r)) + 1
      BY <1>2, <2>1
  <2> QED BY <2>2, <2>3
<1>5. ASSUME NEW x
      PROVE  /\ Cardinality(RowsFrom(Append(s, e), x)) = Cardinality(RowsFrom(s, x)) + (IF e.source = x THEN 1 ELSE 0)
             /\ Cardinality(RowsFrom(s, x)) \in Nat
  <2>1. RowsFrom(s, x) \subseteq DOMAIN s
      BY DEF RowsFrom
  <2>2. RowsFrom(Append(s, e), x) = IF e.source = x THEN RowsFrom(s, x) \cup {n} ELSE RowsFrom(s, x)
      BY <1>1 DEF RowsFrom
  <2>3. Cardinality(RowsFrom(s, x)) \in Nat /\ Cardinality(RowsFrom(s, x) \cup {n}) = Cardinality(RowsFrom(s, x)) + 1
      BY <1>2, <2>1
  <2> QED BY <2>2, <2>3
<1> QED BY <1>3, <1>4, <1>5

----------------------------------------------------------------------------
(* What one more record does to the files and to the counts.                *)
LEMMA CountedOnce ==
    ASSUME NEW counts, NEW r, NEW s, CountOf(counts, s).records \in Nat, CountOf(counts, r.source).records \in Nat
    PROVE  CountOf(Counted(counts, r), s).records = CountOf(counts, s).records + (IF r.source = s THEN 1 ELSE 0)
<1>1. DOMAIN Counted(counts, r) = DOMAIN counts \cup {r.source}
    BY DEF Counted
<1>2. CASE r.source = s
  <2>1. Counted(counts, r)[s].records = CountOf(counts, s).records + 1
      BY <1>2 DEF Counted
  <2> QED BY <1>1, <1>2, <2>1 DEF CountOf
<1>3. CASE r.source # s
  <2>1. s \in DOMAIN counts => Counted(counts, r)[s] = counts[s]
      BY <1>3 DEF Counted
  <2>2. CountOf(Counted(counts, r), s) = CountOf(counts, s)
      BY <1>1, <1>3, <2>1 DEF CountOf
  <2> QED BY <1>3, <2>2
<1> QED BY <1>2, <1>3

LEMMA EmittedFiles ==
    ASSUME NEW a, FilesAreLists(a), NEW name \in StagedNames, NEW r
    PROVE  LET b == Emitted(a, name, r) IN
           /\ DOMAIN b = ArtifactNames /\ b[name] = Append(a[name], r)
           /\ b.work = IF Classified(r) THEN a.work ELSE Append(a.work, [source |-> r.source, key |-> r.key, stage |-> WorkStage(r)])
           /\ \A other \in ArtifactNames \ {name, "work"} : b[other] = a[other]
           /\ FilesAreLists(b)
<1> DEFINE b == Emitted(a, name, r)
           w == [source |-> r.source, key |-> r.key, stage |-> WorkStage(r)]
<1>1. name \in ArtifactNames /\ name # "work" /\ DOMAIN a = ArtifactNames /\ FileNames \subseteq ArtifactNames
      /\ name \in FileNames /\ "work" \in FileNames
    BY DEF FilesAreLists, StagedNames, ArtifactNames, FileNames
<1>2. /\ DOMAIN b = ArtifactNames /\ b[name] = Append(a[name], r)
      /\ b.work = a.work \o EmitClassificationWork(r)
      /\ \A other \in ArtifactNames \ {name, "work"} : b[other] = a[other]
    BY <1>1 DEF Emitted
<1>3. a.work \in Seq(ToSet(a.work)) /\ a[name] \in Seq(ToSet(a[name]))
    BY <1>1 DEF FilesAreLists
<1>4. a.work \o <<>> = a.work /\ a.work \o <<w>> = Append(a.work, w) /\ Append(a.work, w) \in Seq(ToSet(Append(a.work, w)))
      /\ Append(a[name], r) \in Seq(ToSet(Append(a[name], r)))
    BY <1>3, Appending
<1> HIDE DEF b
<1>5. b.work = IF Classified(r) THEN a.work ELSE Append(a.work, w)
    BY <1>2, <1>4 DEF EmitClassificationWork
<1>6. \A other \in FileNames : b[other] \in Seq(ToSet(b[other]))
    BY <1>1, <1>2, <1>3, <1>4, <1>5 DEF FilesAreLists
<1> QED BY <1>2, <1>5, <1>6 DEF FilesAreLists, b

LEMMA EmittedElsewhere ==
    ASSUME NEW a, FilesAreLists(a), NEW r
    PROVE  /\ LET b == Emitted(a, "overlays", r) IN
                  /\ FilesAreLists(b) /\ b.overlays = Append(a.overlays, r)
                  /\ b.records = a.records /\ b.queue = a.queue /\ b.exact = a.exact
           /\ LET b == Emitted(a, "records", r) IN
                  /\ FilesAreLists(b) /\ b.records = Append(a.records, r)
                  /\ b.overlays = a.overlays /\ b.queue = a.queue /\ b.exact = a.exact
           /\ LET b == Emitted(a, "reconciliation", r) IN
                  /\ FilesAreLists(b) /\ b.overlays = a.overlays
                  /\ b.records = a.records /\ b.queue = a.queue /\ b.exact = a.exact
<1>1. ASSUME NEW name \in StagedNames
      PROVE  /\ FilesAreLists(Emitted(a, name, r)) /\ Emitted(a, name, r)[name] = Append(a[name], r)
             /\ \A other \in ArtifactNames \ {name, "work"} : Emitted(a, name, r)[other] = a[other]
  <2> DEFINE b == Emitted(a, name, r)
  <2>1. /\ DOMAIN b = ArtifactNames /\ b[name] = Append(a[name], r)
        /\ b.work = IF Classified(r) THEN a.work ELSE Append(a.work, [source |-> r.source, key |-> r.key, stage |-> WorkStage(r)])
        /\ \A other \in ArtifactNames \ {name, "work"} : b[other] = a[other]
        /\ FilesAreLists(b)
      BY EmittedFiles
  <2> QED BY <2>1
<1>2. {"records", "overlays", "reconciliation"} = StagedNames
    BY DEF StagedNames
<1>3. {"records", "overlays", "reconciliation", "queue", "exact"} \subseteq ArtifactNames
    BY DEF ArtifactNames
<1> QED BY <1>1, <1>2, <1>3

LEMMA EmittedFits ==
    ASSUME NEW a, FilesAreLists(a), RowsFit(a), WorkFits(a), NEW name \in StagedNames, NEW r, Fits(name, r)
    PROVE  LET b == Emitted(a, name, r) IN
           RowsFit(b) /\ WorkFits(b) /\ \A counts : CountsFit(a, counts) => CountsFit(b, Counted(counts, r))
<1> DEFINE b == Emitted(a, name, r)
           w == [source |-> r.source, key |-> r.key, stage |-> WorkStage(r)]
<1>1. /\ b[name] = Append(a[name], r)
      /\ b.work = IF Classified(r) THEN a.work ELSE Append(a.work, w)
      /\ \A other \in StagedNames : other # name => b[other] = a[other]
  <2>1. /\ b[name] = Append(a[name], r)
        /\ b.work = IF Classified(r) THEN a.work ELSE Append(a.work, w)
        /\ \A other \in ArtifactNames \ {name, "work"} : b[other] = a[other]
      BY EmittedFiles
  <2> HIDE DEF b, w
  <2>2. \A other \in StagedNames : other # name => other \in ArtifactNames \ {name, "work"}
      BY DEF StagedNames, ArtifactNames
  <2> QED BY <2>1, <2>2
<1> HIDE DEF b
<1>2. \A other \in FileNames : a[other] \in Seq(ToSet(a[other]))
    BY DEF FilesAreLists
<1>3. name \in FileNames /\ "work" \in FileNames /\ StagedNames \subseteq FileNames
    BY DEF FileNames
<1>4. \A other \in StagedNames : \A i \in DOMAIN b[other] :
         \/ i \in DOMAIN a[other] /\ b[other][i] = a[other][i]
         \/ other = name /\ b[other][i] = r
  <2>1. a[name] \in Seq(ToSet(a[name]))
      BY <1>2, <1>3
  <2>2. \A i \in DOMAIN b[name] : (i \in DOMAIN a[name] /\ b[name][i] = a[name][i]) \/ b[name][i] = r
      BY <1>1, <2>1, Appending
  <2> QED BY <1>1, <2>2
<1>5. RowsFit(b)
    BY <1>4 DEF RowsFit
<1>6. /\ \A i \in DOMAIN b.work : b.work[i].source \notin ClassifiedSources
      /\ \A x : RowsAbout(a.work, x) # {} => RowsAbout(b.work, x) # {}
      /\ ~Classified(r) => RowsAbout(b.work, r) # {}
  <2>1. CASE Classified(r)
      BY <1>1, <2>1 DEF WorkFits
  <2>2. CASE ~Classified(r)
    <3>1. a.work \in Seq(ToSet(a.work))
        BY <1>2, <1>3
    <3>2. /\ DOMAIN b.work = DOMAIN a.work \cup {Len(a.work) + 1} /\ b.work[Len(a.work) + 1] = w
          /\ \A i \in DOMAIN a.work : b.work[i] = a.work[i]
        BY <1>1, <2>2, <3>1, Appending
    <3>3. w.source = r.source /\ w.key = r.key /\ r.source \notin ClassifiedSources
        BY <2>2 DEF Fits, Sorted
    <3> HIDE DEF w
    <3>4. RowsAbout(b.work, r) # {}
        BY <3>2, <3>3 DEF RowsAbout
    <3>5. \A x : RowsAbout(a.work, x) \subseteq RowsAbout(b.work, x)
        BY <3>2 DEF RowsAbout
    <3>6. \A i \in DOMAIN b.work : b.work[i].source \notin ClassifiedSources
        BY <3>2, <3>3 DEF WorkFits
    <3> QED BY <3>4, <3>5, <3>6
  <2> QED BY <2>1, <2>2
<1>7. WorkFits(b)
  <2> SUFFICES ASSUME NEW other \in StagedNames, NEW i \in DOMAIN b[other], ~Classified(b[other][i])
               PROVE  RowsAbout(b.work, b[other][i]) # {}
      BY <1>6 DEF WorkFits
  <2>1. CASE i \in DOMAIN a[other] /\ b[other][i] = a[other][i]
    <3>1. RowsAbout(a.work, a[other][i]) # {}
        BY <2>1 DEF WorkFits
    <3> QED BY <1>6, <2>1, <3>1
  <2>2. CASE b[other][i] = r
      BY <1>6, <2>2
  <2> QED BY <1>4, <2>1, <2>2
<1>8. ASSUME NEW counts, CountsFit(a, counts) PROVE CountsFit(b, Counted(counts, r))
  <2> SUFFICES ASSUME NEW s
               PROVE  CountOf(Counted(counts, r), s).records =
                          Cardinality(RowsFrom(b.records, s)) + Cardinality(RowsFrom(b.overlays, s))
                          + Cardinality(RowsFrom(b.reconciliation, s))
      BY DEF CountsFit
  <2>1. \A other \in StagedNames : \A x : Cardinality(RowsFrom(a[other], x)) \in Nat
      BY <1>2, <1>3, OneMore
  <2>2. Cardinality(RowsFrom(b[name], s)) = Cardinality(RowsFrom(a[name], s)) + (IF r.source = s THEN 1 ELSE 0)
    <3>1. a[name] \in Seq(ToSet(a[name]))
        BY <1>2, <1>3
    <3> DEFINE l == a[name]
    <3> HIDE DEF l
    <3>2. l \in Seq(ToSet(l))
        BY <3>1 DEF l
    <3>3. Cardinality(RowsFrom(Append(l, r), s)) = Cardinality(RowsFrom(l, s)) + (IF r.source = s THEN 1 ELSE 0)
        BY <3>2, OneMore
    <3>4. b[name] = Append(l, r) /\ l = a[name]
        BY <1>1 DEF l
    <3> QED BY <3>3, <3>4
  <2>3. \A x : CountOf(counts, x).records =
               Cardinality(RowsFrom(a.records, x)) + Cardinality(RowsFrom(a.overlays, x))
               + Cardinality(RowsFrom(a.reconciliation, x))
      BY <1>8 DEF CountsFit
  <2>4. \A x : CountOf(counts, x).records \in Nat
      BY <2>1, <2>3 DEF StagedNames
  <2>5. CountOf(Counted(counts, r), s).records = CountOf(counts, s).records + (IF r.source = s THEN 1 ELSE 0)
      BY <2>4, CountedOnce
  <2>6. name = "records" \/ name = "overlays" \/ name = "reconciliation"
      BY DEF StagedNames
  <2>7. \A other \in StagedNames : Cardinality(RowsFrom(b[other], s)) =
             Cardinality(RowsFrom(a[other], s)) + (IF other = name /\ r.source = s THEN 1 ELSE 0)
    <3> TAKE other \in StagedNames
    <3>1. CASE other = name
        BY <2>2, <3>1
    <3>2. CASE other # name
        BY <1>1, <2>1, <3>2
    <3> QED BY <3>1, <3>2
  <2>8. /\ Cardinality(RowsFrom(b.records, s)) =
             Cardinality(RowsFrom(a.records, s)) + (IF "records" = name /\ r.source = s THEN 1 ELSE 0)
        /\ Cardinality(RowsFrom(b.overlays, s)) =
             Cardinality(RowsFrom(a.overlays, s)) + (IF "overlays" = name /\ r.source = s THEN 1 ELSE 0)
        /\ Cardinality(RowsFrom(b.reconciliation, s)) =
             Cardinality(RowsFrom(a.reconciliation, s)) + (IF "reconciliation" = name /\ r.source = s THEN 1 ELSE 0)
        /\ Cardinality(RowsFrom(a.records, s)) \in Nat /\ Cardinality(RowsFrom(a.overlays, s)) \in Nat
        /\ Cardinality(RowsFrom(a.reconciliation, s)) \in Nat
      BY <2>1, <2>7 DEF StagedNames
  <2> QED BY <2>3, <2>5, <2>6, <2>8
<1> QED BY <1>5, <1>7, <1>8 DEF b

LEMMA SitesAccounted ==
    ASSUME NEW a, FilesAreLists(a), NEW websites, SitesFit(a, websites),
           NEW r, NEW x, x.source = r.source, x.key = r.key, NEW c, c.records = Append(a.records, r),
           c.exact = IF r.site = None /\ Answered(r, websites) THEN Append(a.exact, x) ELSE a.exact,
           c.queue = IF r.site = None /\ ~Answered(r, websites) THEN Append(a.queue, x) ELSE a.queue
    PROVE  SitesFit(c, websites)
<1> SUFFICES ASSUME NEW z
             PROVE  /\ Cardinality(RowsAbout(c.exact, z)) = IF Answered(z, websites) THEN Cardinality(Missing(c.records, z)) ELSE 0
                    /\ Cardinality(RowsAbout(c.queue, z)) = IF Answered(z, websites) THEN 0 ELSE Cardinality(Missing(c.records, z))
    BY DEF SitesFit
<1>1. a.records \in Seq(ToSet(a.records)) /\ a.exact \in Seq(ToSet(a.exact)) /\ a.queue \in Seq(ToSet(a.queue))
    BY DEF FilesAreLists, FileNames, StagedNames
<1>2. /\ Cardinality(RowsAbout(a.exact, z)) = IF Answered(z, websites) THEN Cardinality(Missing(a.records, z)) ELSE 0
      /\ Cardinality(RowsAbout(a.queue, z)) = IF Answered(z, websites) THEN 0 ELSE Cardinality(Missing(a.records, z))
    BY DEF SitesFit
<1>3. Cardinality(Missing(a.records, z)) \in Nat
    BY <1>1, OneMore
<1>4. Cardinality(Missing(c.records, z)) =
          Cardinality(Missing(a.records, z)) + (IF r.source = z.source /\ r.key = z.key /\ r.site = None THEN 1 ELSE 0)
  <2> DEFINE l == a.records
  <2> HIDE DEF l
  <2>1. l \in Seq(ToSet(l)) /\ l = a.records
      BY <1>1 DEF l
  <2>2. Cardinality(Missing(Append(l, r), z)) =
            Cardinality(Missing(l, z)) + (IF r.source = z.source /\ r.key = z.key /\ r.site = None THEN 1 ELSE 0)
      BY <2>1, OneMore, SMTT(30)
  <2> QED BY <2>1, <2>2
<1>5. /\ Cardinality(RowsAbout(Append(a.exact, x), z)) = Cardinality(RowsAbout(a.exact, z)) + (IF r.source = z.source /\ r.key = z.key THEN 1 ELSE 0)
      /\ Cardinality(RowsAbout(Append(a.queue, x), z)) = Cardinality(RowsAbout(a.queue, z)) + (IF r.source = z.source /\ r.key = z.key THEN 1 ELSE 0)
  <2>1. ASSUME NEW l, l \in Seq(ToSet(l))
        PROVE  Cardinality(RowsAbout(Append(l, x), z)) =
                   Cardinality(RowsAbout(l, z)) + (IF x.source = z.source /\ x.key = z.key THEN 1 ELSE 0)
    <3>1. \A q : Cardinality(RowsAbout(Append(l, x), q)) =
                     Cardinality(RowsAbout(l, q)) + (IF x.source = q.source /\ x.key = q.key THEN 1 ELSE 0)
        BY ONLY l \in Seq(ToSet(l)), OneMore
    <3> QED BY <3>1
  <2> QED BY <1>1, <2>1
<1>6. r.source = z.source /\ r.key = z.key => (Answered(r, websites) <=> Answered(z, websites))
    BY DEF Answered
<1> QED BY <1>2, <1>3, <1>4, <1>5, <1>6

(* Files that none of the facts above is about may be written as well.      *)
LEMMA OtherFiles ==
    ASSUME NEW a, NEW c, \A name \in StagedNames \cup {"work"} : c[name] = a[name]
    PROVE  /\ RowsFit(a) => RowsFit(c)
           /\ WorkFits(a) => WorkFits(c)
           /\ \A counts : CountsFit(a, counts) => CountsFit(c, counts)
           /\ \A websites : IndexFits(a, websites) => IndexFits(c, websites)
<1>1. c.records = a.records /\ c.overlays = a.overlays /\ c.reconciliation = a.reconciliation /\ c.work = a.work
    BY DEF StagedNames
<1>2. RowsFit(a) => RowsFit(c)
    BY <1>1 DEF RowsFit, StagedNames
<1>3. WorkFits(a) => WorkFits(c)
    BY <1>1 DEF WorkFits, StagedNames
<1>4. \A counts : CountsFit(a, counts) => CountsFit(c, counts)
    BY <1>1 DEF CountsFit
<1>5. \A websites : IndexFits(a, websites) => IndexFits(c, websites)
    BY <1>1 DEF IndexFits
<1> QED BY <1>2, <1>3, <1>4, <1>5

----------------------------------------------------------------------------
(* What rows become.                                                        *)
LEMMA TexasFits ==
    ASSUME NEW row, None \notin {row.district, row.campus}
    PROVE  Fits("overlays", TexasDistrictOverlay(row)) /\ Fits("overlays", TexasSchoolOverlay(row))
<1>1. <<"tx", row.district>> \in TexasDistrictOverlay(row).ids /\ <<"tx", row.campus>> \in TexasSchoolOverlay(row).ids
    BY DEF TexasDistrictOverlay, TexasSchoolOverlay, SourceRecord, Identified
<1>2. TexasDistrictOverlay(row).source = "askted" /\ TexasSchoolOverlay(row).source = "askted"
    BY DEF TexasDistrictOverlay, TexasSchoolOverlay, SourceRecord
<1>3. Classified(TexasDistrictOverlay(row)) /\ Classified(TexasSchoolOverlay(row))
    BY OrganizerAssumption DEF TexasDistrictOverlay, TexasSchoolOverlay, SourceRecord, Classified
<1> QED BY <1>1, <1>2, <1>3 DEF Fits, Sorted, ClassifiedSources

LEMMA NcesFits ==
    ASSUME NEW row, row.id # None
    PROVE  /\ Fits("records", NcesLeaRecord(row)) /\ NcesLeaRecord(row).source \in NcesSources
           /\ Fits("records", NcesSchoolRecord(row)) /\ NcesSchoolRecord(row).source \in NcesSources
<1>1. /\ NcesLeaRecord(row).source = "nces-lea" /\ NcesLeaRecord(row).review = TRUE /\ NcesLeaRecord(row).key = <<row.id>>
      /\ NcesLeaRecord(row).ids = Identified("nces_district", row.id) \cup Identified("tx", row.state)
    BY DEF NcesLeaRecord, SourceRecord
<1>2. /\ NcesSchoolRecord(row).source = "nces-school" /\ NcesSchoolRecord(row).review = TRUE /\ NcesSchoolRecord(row).key = <<row.id>>
      /\ NcesSchoolRecord(row).ids = Identified("nces_school", row.id) \cup Identified("tx", row.state)
    BY DEF NcesSchoolRecord, SourceRecord
<1>3. NcesIds(NcesLeaRecord(row)) = {<<"nces_district", row.id>>}
    BY <1>1 DEF NcesIds, Identified
<1>4. NcesIds(NcesSchoolRecord(row)) = {<<"nces_school", row.id>>}
    BY <1>2 DEF NcesIds, Identified
<1>5. ~Classified(NcesLeaRecord(row)) /\ ~Classified(NcesSchoolRecord(row))
    BY <1>1, <1>2 DEF Classified
<1> QED BY <1>1, <1>2, <1>3, <1>4, <1>5 DEF Fits, Sorted, ClassifiedSources, NcesSources, IdsOf

LEMMA CensusFits ==
    ASSUME NEW row, row.id # None, row.sheet \in CensusSheets
    PROVE  Fits("records", CensusRecord(row)) /\ CensusRecord(row).source \notin NcesSources
<1> DEFINE class == CensusClassification(row.sheet, row.unit)
<1>1. /\ CensusRecord(row).source = row.sheet /\ CensusRecord(row).ids = {<<"census", row.id>>}
      /\ CensusRecord(row).type = class[1] /\ CensusRecord(row).level = class[2]
      /\ CensusRecord(row).sector = class[3] /\ CensusRecord(row).review = class[4]
    BY DEF CensusRecord, SourceRecord, Identified
<1>2. PublishedLevel(row.unit) \in {"state", "county", "municipal", "township", "special_district"}
    BY DEF PublishedLevel
<1>3. PublishedLevel(row.unit) # None
    BY <1>2, OrganizerAssumption
<1>4. row.sheet \in {"special_district", "public_pension_system"} =>
         class[3] = None \/ class[4] = TRUE
    BY DEF CensusClassification
<1>5. row.sheet \in {"independent_school_district", "dependent_school_system", "general_purpose"} =>
         class[4] = FALSE /\ None \notin {class[1], class[2], class[3]}
  <2>1. CASE row.sheet = "independent_school_district"
      BY <2>1, OrganizerAssumption DEF CensusClassification
  <2>2. CASE row.sheet = "dependent_school_system"
      BY <1>3, <2>2, OrganizerAssumption DEF CensusClassification
  <2>3. CASE row.sheet = "general_purpose"
    <3>1. /\ class[2] = PublishedLevel(row.unit) /\ class[3] = "general_government" /\ class[4] = FALSE
          /\ class[1] \in {"county_government", "municipality", "township_government"}
        BY <2>3 DEF CensusClassification
    <3> QED BY <1>3, <3>1, OrganizerAssumption
  <2> QED BY <2>1, <2>2, <2>3
<1> HIDE DEF class
<1>6. Classified(CensusRecord(row)) <=> row.sheet \notin {"special_district", "public_pension_system"}
    BY <1>1, <1>4, <1>5 DEF Classified, CensusSheets
<1> QED BY <1>1, <1>6 DEF Fits, Sorted, ClassifiedSources, NcesSources, CensusSheets

LEMMA AgencyFits ==
    ASSUME NEW row
    PROVE  /\ Fits("records", AgencyRecord(row)) /\ AgencyRecord(row).source \notin NcesSources
           /\ Fits("reconciliation", RegisterRecord(row))
BY DEF AgencyRecord, RegisterRecord, SourceRecord, Fits, Sorted, Classified, ClassifiedSources, NcesSources

----------------------------------------------------------------------------
(* What is left of the rows, and what Texas publishes.                      *)
LEMMA Joined ==
    ASSUME NEW s, s \in Seq(ToSet(s)), NEW t, t \in Seq(ToSet(t))
    PROVE  /\ s \o t \in Seq(ToSet(s \o t)) /\ DOMAIN s \subseteq DOMAIN (s \o t)
           /\ \A i \in DOMAIN (s \o t) :
                 \/ i \in DOMAIN s /\ (s \o t)[i] = s[i]
                 \/ \E j \in DOMAIN t : i = Len(s) + j /\ (s \o t)[i] = t[j]
<1> DEFINE S == ToSet(s) \cup ToSet(t)
           l == s \o t
<1>1. s \in Seq(S) /\ t \in Seq(S)
  <2>1. ToSet(s) \subseteq S /\ ToSet(t) \subseteq S
      OBVIOUS
  <2> HIDE DEF S
  <2> QED BY <2>1
<1> HIDE DEF S
<1>2. /\ l \in Seq(S) /\ Len(l) = Len(s) + Len(t) /\ DOMAIN s = 1..Len(s) /\ DOMAIN t = 1..Len(t) /\ DOMAIN l = 1..Len(l)
      /\ Len(s) \in Nat /\ Len(t) \in Nat
      /\ \A i \in 1..Len(s) : l[i] = s[i]
      /\ \A i \in 1..Len(l) : i > Len(s) => l[i] = t[i - Len(s)]
    BY <1>1
<1> HIDE DEF l
<1>3. l \in [1..Len(l) -> ToSet(l)] /\ Len(l) \in Nat
    BY <1>2 DEF ToSet
<1>4. l \in Seq(ToSet(l))
    BY <1>3
<1>5. ASSUME NEW i \in DOMAIN l
      PROVE  (i \in DOMAIN s /\ l[i] = s[i]) \/ \E j \in DOMAIN t : i = Len(s) + j /\ l[i] = t[j]
  <2>1. CASE i <= Len(s)
      BY <1>2, <2>1
  <2>2. CASE i > Len(s)
    <3> PICK j : j = i - Len(s)
        OBVIOUS
    <3>1. i \in 1..Len(l) /\ j \in DOMAIN t /\ i = Len(s) + j
        BY <1>2, <2>2
    <3>2. l[i] = t[j]
        BY <1>2, <2>2, <3>1
    <3> QED BY <3>1, <3>2
  <2> QED BY <1>2, <2>1, <2>2
<1> QED BY <1>2, <1>4, <1>5 DEF l

LEMMA TaggedRows ==
    ASSUME NEW kind, NEW list, list \in Seq(ToSet(list))
    PROVE  /\ Tagged(kind, list) \in Seq(ToSet(Tagged(kind, list))) /\ DOMAIN Tagged(kind, list) = DOMAIN list
           /\ \A i \in DOMAIN list : Tagged(kind, list)[i].kind = kind /\ Tagged(kind, list)[i].row = list[i]
<1> DEFINE l == Tagged(kind, list)
<1>1. l = [i \in 1..Len(list) |-> [kind |-> kind, row |-> list[i]]] /\ Len(list) \in Nat /\ DOMAIN list = 1..Len(list)
    BY DEF Tagged
<1>2. \A i \in DOMAIN list : l[i].kind = kind /\ l[i].row = list[i]
    BY <1>1
<1>3. l \in [1..Len(list) -> ToSet(l)]
    BY <1>1 DEF ToSet
<1> HIDE DEF l
<1>4. l \in Seq(ToSet(l))
    BY <1>1, <1>3
<1> QED BY <1>1, <1>2, <1>4 DEF l

LEMMA OrderFits ==
    ASSUME NEW files \in Releases
    PROVE  Order(files) \in Seq(ToSet(Order(files))) /\ SheetsFit(Order(files)) /\ TexasFirst(Order(files))
<1> DEFINE Fit(l) == l \in Seq(ToSet(l)) /\ SheetsFit(l)
<1>1. \A s, t : Fit(s) /\ Fit(t) => Fit(s \o t)
    BY Joined DEF SheetsFit
<1>2. \A s, t : Fit(s) /\ Fit(t) /\ Later(s) /\ Later(t) => Later(s \o t)
    BY Joined DEF Later
<1> DEFINE tx == Tagged("texas", files.texas)
           n == Tagged("nces", files.nces)
           c == Tagged("census", files.census)
           a == Tagged("area", files.areas)
           u == Tagged("usagov", files.usagov)
           f == Tagged("register", files.register)
<1>3. Fit(tx) /\ \A i \in DOMAIN tx : tx[i].kind = "texas"
    BY TaggedRows, OrganizerAssumption DEF SheetsFit
<1>4. Fit(n) /\ Later(n)
    BY TaggedRows, OrganizerAssumption DEF SheetsFit, Later
<1>5. Fit(c) /\ Later(c)
    BY TaggedRows, OrganizerAssumption DEF SheetsFit, Later
<1>6. Fit(a) /\ Later(a)
    BY TaggedRows, OrganizerAssumption DEF SheetsFit, Later
<1>7. Fit(u) /\ Later(u)
    BY TaggedRows, OrganizerAssumption DEF SheetsFit, Later
<1>8. Fit(f) /\ Later(f)
    BY TaggedRows, OrganizerAssumption DEF SheetsFit, Later
<1>9. Order(files) = tx \o n \o c \o a \o u \o f
    BY DEF Order
<1> HIDE DEF tx, n, c, a, u, f
<1> DEFINE Starts(l) == /\ Fit(l)
                        /\ \A i, j \in DOMAIN l : i <= j /\ l[j].kind = "texas" => l[i].kind = "texas"
<1>10. ASSUME NEW s, NEW t, Starts(s), Fit(t), Later(t) PROVE Starts(s \o t)
  <2> DEFINE l == s \o t
  <2>1. Fit(l)
      BY <1>1, <1>10
  <2>2. /\ DOMAIN s \subseteq DOMAIN l /\ DOMAIN s = 1..Len(s) /\ Len(s) \in Nat /\ DOMAIN l \subseteq Nat \ {0}
        /\ \A i \in DOMAIN l :
              \/ i \in DOMAIN s /\ l[i] = s[i]
              \/ \E j \in DOMAIN t : i = Len(s) + j /\ l[i] = t[j]
    <3>1. DOMAIN s = 1..Len(s) /\ Len(s) \in Nat
        BY <1>10
    <3>2. DOMAIN l \subseteq Nat \ {0}
      <4> HIDE DEF l
      <4> QED BY <2>1
    <3> QED BY <1>10, <3>1, <3>2, Joined
  <2> HIDE DEF l
  <2>3. ASSUME NEW i \in DOMAIN l, NEW j \in DOMAIN l, i <= j, l[j].kind = "texas" PROVE l[i].kind = "texas"
    <3>1. j \in DOMAIN s /\ l[j] = s[j]
        BY <1>10, <2>2, <2>3 DEF Later
    <3>2. i \in DOMAIN s
        BY <2>2, <2>3, <3>1
    <3>3. l[i] = s[i]
      <4>1. ASSUME NEW k \in DOMAIN t, i = Len(s) + k PROVE FALSE
        <5>1. k \in Nat \ {0}
            BY <1>10
        <5> QED BY <2>2, <3>2, <4>1, <5>1
      <4> QED BY <2>2, <4>1
    <3> QED BY <1>10, <2>3, <3>1, <3>2, <3>3
  <2> QED BY <2>1, <2>3 DEF l
<1>11. Starts(tx)
    BY <1>3
<1> HIDE DEF Fit, Starts
<1>12. Starts(tx \o n \o c \o a \o u \o f)
    BY <1>4, <1>5, <1>6, <1>7, <1>8, <1>10, <1>11
<1> QED BY <1>9, <1>12 DEF Starts, Fit, TexasFirst

LEMMA RowsLeft ==
    ASSUME NEW a, NEW todo, TodoFits(a, todo), todo # <<>>
    PROVE  /\ Tail(todo) \in Seq(ToSet(Tail(todo))) /\ SheetsFit(Tail(todo)) /\ TexasFirst(Tail(todo))
           /\ Head(todo).kind = "texas" => a.records = <<>> /\ a.queue = <<>> /\ a.exact = <<>>
           /\ Head(todo).kind # "texas" => Later(Tail(todo))
           /\ Head(todo).kind = "census" => Head(todo).row.sheet \in CensusSheets
<1> DEFINE S == ToSet(todo)
           l == Tail(todo)
<1>1. todo \in Seq(S)
    BY DEF TodoFits
<1> HIDE DEF S
<1>2. l \in Seq(S) /\ Head(todo) = todo[1] /\ 1 \in DOMAIN todo /\ DOMAIN l \subseteq Nat \ {0}
      /\ \A i \in DOMAIN l : i + 1 \in DOMAIN todo /\ l[i] = todo[i + 1]
    BY <1>1
<1> HIDE DEF l
<1>3. l \in [1..Len(l) -> ToSet(l)] /\ Len(l) \in Nat
    BY <1>2 DEF ToSet
<1>4. l \in Seq(ToSet(l))
    BY <1>3
<1>5. SheetsFit(l)
    BY <1>2 DEF SheetsFit, TodoFits
<1>6. TexasFirst(l)
  <2> SUFFICES ASSUME NEW i \in DOMAIN l, NEW j \in DOMAIN l, i <= j, l[j].kind = "texas" PROVE l[i].kind = "texas"
      BY DEF TexasFirst
  <2>1. i + 1 \in DOMAIN todo /\ j + 1 \in DOMAIN todo /\ i + 1 <= j + 1 /\ todo[j + 1].kind = "texas"
      BY <1>2
  <2>2. todo[i + 1].kind = "texas"
      BY <2>1 DEF TodoFits, TexasFirst
  <2> QED BY <1>2, <2>2
<1>7. Head(todo).kind # "texas" => Later(l)
  <2> SUFFICES ASSUME NEW i \in DOMAIN l, l[i].kind = "texas" PROVE todo[1].kind = "texas"
      BY <1>2 DEF Later
  <2>1. i + 1 \in DOMAIN todo /\ 1 <= i + 1 /\ todo[i + 1].kind = "texas"
      BY <1>2
  <2> QED BY <1>2, <2>1 DEF TodoFits, TexasFirst
<1> QED BY <1>2, <1>4, <1>5, <1>6, <1>7 DEF TodoFits, SheetsFit, Later, l

LEMMA IndexGrows ==
    ASSUME NEW a, FilesAreLists(a), NEW websites, IndexFits(a, websites)
    PROVE  /\ \A d \in ToSet(a.overlays) : IndexTexasWebsite(d) \subseteq websites
           /\ \A c, r : c.overlays = Append(a.overlays, r) =>
                 /\ IndexFits(c, websites \cup IndexTexasWebsite(r))
                 /\ ToSet(c.overlays) = ToSet(a.overlays) \cup {r}
<1>1. \A d \in ToSet(a.overlays) : IndexTexasWebsite(d) \subseteq websites
    BY DEF IndexFits, ToSet
<1>2. ASSUME NEW c, NEW r, c.overlays = Append(a.overlays, r)
      PROVE  IndexFits(c, websites \cup IndexTexasWebsite(r)) /\ ToSet(c.overlays) = ToSet(a.overlays) \cup {r}
  <2>1. a.overlays \in Seq(ToSet(a.overlays))
      BY DEF FilesAreLists, FileNames, StagedNames
  <2> DEFINE n == Len(a.overlays) + 1
  <2>2. /\ DOMAIN c.overlays = DOMAIN a.overlays \cup {n} /\ c.overlays[n] = r
        /\ \A i \in DOMAIN a.overlays : c.overlays[i] = a.overlays[i]
      BY <1>2, <2>1, Appending
  <2> HIDE DEF n
  <2>3. UNION {IndexTexasWebsite(c.overlays[i]) : i \in DOMAIN c.overlays}
          = (UNION {IndexTexasWebsite(a.overlays[i]) : i \in DOMAIN a.overlays}) \cup IndexTexasWebsite(r)
      BY <2>2
  <2>4. ToSet(c.overlays) = ToSet(a.overlays) \cup {r}
      BY <2>2 DEF ToSet
  <2> QED BY <2>3, <2>4 DEF IndexFits
<1> QED BY <1>1, <1>2

----------------------------------------------------------------------------
(* The steps of the organizer.                                              *)
LEMMA NothingListed ==
    ASSUME NEW a, a.records = <<>>, a.queue = <<>>, a.exact = <<>>
    PROVE  \A websites : SitesFit(a, websites)
<1>1. \A r : RowsAbout(a.exact, r) = {} /\ RowsAbout(a.queue, r) = {} /\ Missing(a.records, r) = {}
    BY DEF RowsAbout, Missing
<1>2. Cardinality({}) = 0
    BY FS_EmptySet
<1> QED BY <1>1, <1>2 DEF SitesFit

LEMMA OrganizeFits ==
    ASSUME OrganizerInv, Organize
    PROVE  OrganizerInv'
<1>1. /\ artifact' = Empty /\ organizer' = [Idle EXCEPT !.pc = "organizing", !.todo = Order(release)]
      /\ UNCHANGED <<release, organized, importer, spineRows>>
    BY DEF Organize
<1>2. \A name \in FileNames : Empty[name] = <<>>
    BY DEF Empty, FileNames, StagedNames, ArtifactNames
<1>3. ArtifactFits(Empty)
  <2>1. <<>> \in Seq(ToSet(<<>>)) /\ DOMAIN <<>> = {}
      OBVIOUS
  <2>2. FilesAreLists(Empty)
      BY <1>2, <2>1 DEF FilesAreLists, Empty
  <2>3. RowsFit(Empty)
      BY <1>2, <2>1 DEF RowsFit, FileNames
  <2>4. WorkFits(Empty)
    <3>1. Empty.work = <<>> /\ \A name \in StagedNames : Empty[name] = <<>>
        BY <1>2 DEF FileNames
    <3> QED BY <2>1, <3>1 DEF WorkFits
  <2> QED BY <2>2, <2>3, <2>4 DEF ArtifactFits
<1>4. Empty.records = <<>> /\ Empty.queue = <<>> /\ Empty.exact = <<>> /\ Empty.overlays = <<>> /\ Empty.reconciliation = <<>>
    BY <1>2 DEF FileNames, StagedNames
<1>5. TodoFits(Empty, Order(release))
    BY <1>4, OrderFits DEF TodoFits, OrganizerInv
<1>6. CountsFit(Empty, <<>>)
  <2>1. \A s : RowsFrom(<<>>, s) = {}
      BY DEF RowsFrom
  <2>2. \A s : CountOf(<<>>, s).records = 0
      BY DEF CountOf, NoCount
  <2>3. \A s : Cardinality(RowsFrom(<<>>, s)) = 0
      BY <2>1, FS_EmptySet
  <2>4. \A s : Cardinality(RowsFrom(Empty.records, s)) = 0 /\ Cardinality(RowsFrom(Empty.overlays, s)) = 0
                /\ Cardinality(RowsFrom(Empty.reconciliation, s)) = 0
      BY <1>4, <2>3
  <2> QED BY <2>2, <2>4 DEF CountsFit
<1>7. SitesFit(Empty, {}) /\ IndexFits(Empty, {})
    BY <1>4, NothingListed DEF IndexFits
<1>8. /\ DOMAIN organizer' = DOMAIN Idle /\ organizer'.pc = "organizing" /\ organizer'.todo = Order(release)
      /\ organizer'.counts = <<>> /\ organizer'.websites = {} /\ organizer'.districts = {}
    BY <1>1 DEF Idle
<1>9. OrganizerFits(organizer', artifact')
    BY <1>1, <1>5, <1>6, <1>7, <1>8 DEF OrganizerFits
<1> QED BY <1>1, <1>3, <1>8, <1>9 DEF OrganizerInv

(* What most steps leave to be shown.                                       *)
LEMMA OrganizerSteps ==
    ASSUME OrganizerInv, UNCHANGED <<release, importer, spineRows>>, ArtifactFits(artifact'),
           OrganizerFits(organizer', artifact'), organizer'.pc = "done" => organized'.counts = organizer'.counts
    PROVE  OrganizerInv'
BY DEF OrganizerInv

(* What is left once a row is read.                                         *)
LEMMA NextRowFits ==
    ASSUME OrganizerInv, organizer.pc = "organizing", organizer.todo # <<>>, NEW o,
           DOMAIN o = DOMAIN NextRow, o.pc = NextRow.pc, o.todo = NextRow.todo, NEW a,
           Head(organizer.todo).kind = "texas" => a.records = <<>> /\ a.queue = <<>> /\ a.exact = <<>>,
           CountsFit(a, o.counts), SitesFit(a, o.websites), IndexFits(a, o.websites), o.districts \subseteq ToSet(a.overlays)
    PROVE  OrganizerFits(o, a) /\ o.pc = "organizing"
<1>1. DOMAIN organizer = DOMAIN Idle /\ TodoFits(artifact, organizer.todo)
    BY DEF OrganizerInv, OrganizerFits
<1>2. DOMAIN o = DOMAIN Idle /\ o.pc = "organizing" /\ o.todo = Tail(organizer.todo)
    BY <1>1 DEF NextRow, Idle
<1>3. TodoFits(a, o.todo)
    BY <1>1, <1>2, RowsLeft DEF TodoFits
<1> QED BY <1>2, <1>3 DEF OrganizerFits

LEMMA TexasStep ==
    ASSUME OrganizerInv, OrganizeTexas
    PROVE  OrganizerInv'
<1> DEFINE row == CurrentRow
           district == TexasDistrictOverlay(row)
           school == TexasSchoolOverlay(row)
           known == district \in organizer.districts
           after == IF known THEN artifact ELSE Emitted(artifact, "overlays", district)
           counts == IF known THEN organizer.counts ELSE Counted(organizer.counts, district)
           inconsistent ==
               \/ None \in {row.district, row.campus}
               \/ \E d \in organizer.districts : d.key = district.key /\ d # district
           done == Emitted(after, "overlays", school)
           websites == organizer.websites \cup IndexTexasWebsite(district) \cup IndexTexasWebsite(school)
<1>1. /\ organizer.pc = "organizing" /\ organizer.todo # <<>> /\ Head(organizer.todo).kind = "texas"
      /\ UNCHANGED <<release, importer, spineRows, organized>>
    BY DEF OrganizeTexas, Reads, Still
<1>2. /\ FilesAreLists(artifact) /\ RowsFit(artifact) /\ WorkFits(artifact)
      /\ TodoFits(artifact, organizer.todo) /\ DOMAIN organizer = DOMAIN Idle
      /\ CountsFit(artifact, organizer.counts) /\ IndexFits(artifact, organizer.websites)
      /\ organizer.districts \subseteq ToSet(artifact.overlays)
    BY <1>1 DEF OrganizerInv, OrganizerFits, ArtifactFits
<1>3. artifact.records = <<>> /\ artifact.queue = <<>> /\ artifact.exact = <<>>
    BY <1>1, <1>2, RowsLeft
<1>4. CASE inconsistent
  <2>1. organizer' = [organizer EXCEPT !.pc = "failed"] /\ artifact' = artifact
      BY <1>4 DEF OrganizeTexas
  <2>2. DOMAIN organizer' = DOMAIN Idle /\ organizer'.pc = "failed"
      BY <1>2, <2>1 DEF Idle
  <2>3. OrganizerFits(organizer', artifact') /\ ArtifactFits(artifact')
      BY <1>2, <2>1, <2>2 DEF OrganizerFits, ArtifactFits
  <2> QED BY <1>1, <2>2, <2>3, OrganizerSteps
<1>5. CASE ~inconsistent
  <2>1. Fits("overlays", district) /\ Fits("overlays", school)
      BY <1>5, TexasFits
  <2> HIDE DEF row, district, school, inconsistent
  <2>2. /\ FilesAreLists(after) /\ RowsFit(after) /\ WorkFits(after) /\ CountsFit(after, counts)
        /\ after.records = <<>> /\ after.queue = <<>> /\ after.exact = <<>>
        /\ IndexFits(after, organizer.websites \cup IndexTexasWebsite(district))
        /\ organizer.districts \cup {district} \subseteq ToSet(after.overlays)
    <3>1. CASE known
      <4>1. IndexTexasWebsite(district) \subseteq organizer.websites
          BY <1>2, <3>1, IndexGrows
      <4>2. organizer.websites \cup IndexTexasWebsite(district) = organizer.websites
          BY <4>1
      <4> QED BY <1>2, <1>3, <3>1, <4>2
    <3>2. CASE ~known
      <4> DEFINE b == Emitted(artifact, "overlays", district)
      <4>1. "overlays" \in StagedNames
          BY DEF StagedNames
      <4>2. /\ b.overlays = Append(artifact.overlays, district) /\ FilesAreLists(b)
            /\ b.records = artifact.records /\ b.queue = artifact.queue /\ b.exact = artifact.exact
          BY <1>2, EmittedElsewhere
      <4>3. RowsFit(b) /\ WorkFits(b) /\ CountsFit(b, Counted(organizer.counts, district))
          BY <1>2, <2>1, <4>1, EmittedFits
      <4> HIDE DEF b
      <4>4. IndexFits(b, organizer.websites \cup IndexTexasWebsite(district)) /\ ToSet(b.overlays) = ToSet(artifact.overlays) \cup {district}
          BY <1>2, <4>2, IndexGrows
      <4>5. after = b /\ counts = Counted(organizer.counts, district)
          BY <3>2 DEF b
      <4> HIDE DEF after, counts
      <4> QED BY <1>2, <1>3, <4>2, <4>3, <4>4, <4>5
    <3> QED BY <3>1, <3>2
  <2>3. CASE school.key \in organizer.campuses
    <3>1. organizer' = [organizer EXCEPT !.pc = "failed"] /\ artifact' = after
        BY <1>5, <2>3 DEF OrganizeTexas, row, district, school, inconsistent
    <3> HIDE DEF after
    <3>2. DOMAIN organizer' = DOMAIN Idle /\ organizer'.pc = "failed"
        BY <1>2, <3>1 DEF Idle
    <3>3. OrganizerFits(organizer', artifact') /\ ArtifactFits(artifact')
        BY <2>2, <3>1, <3>2 DEF OrganizerFits, ArtifactFits
    <3> QED BY <1>1, <3>2, <3>3, OrganizerSteps
  <2>4. CASE school.key \notin organizer.campuses
    <3>1. /\ artifact' = done
          /\ organizer' = [NextRow EXCEPT !.districts = @ \cup {district}, !.campuses = @ \cup {school.key},
                 !.websites = @ \cup IndexTexasWebsite(district) \cup IndexTexasWebsite(school),
                 !.counts = Counted(counts, school),
                 !.counties = @ \cup ({row.county} \ {None})]
        BY <1>5, <2>4 DEF OrganizeTexas, row, district, school, inconsistent
    <3>2. /\ DOMAIN organizer' = DOMAIN NextRow /\ organizer'.pc = NextRow.pc /\ organizer'.todo = NextRow.todo
          /\ organizer'.counts = Counted(counts, school) /\ organizer'.websites = websites
          /\ organizer'.districts = organizer.districts \cup {district}
        BY <1>2, <3>1 DEF NextRow, Idle
    <3> HIDE DEF after, counts
    <3>3. "overlays" \in StagedNames
        BY DEF StagedNames
    <3>4. /\ done.overlays = Append(after.overlays, school) /\ FilesAreLists(done)
          /\ done.records = <<>> /\ done.queue = <<>> /\ done.exact = <<>>
        BY <2>2, EmittedElsewhere
    <3>5. RowsFit(done) /\ WorkFits(done) /\ CountsFit(done, Counted(counts, school))
        BY <2>1, <2>2, <3>3, EmittedFits
    <3> HIDE DEF done
    <3>6. IndexFits(done, websites) /\ ToSet(done.overlays) = ToSet(after.overlays) \cup {school}
      <4> DEFINE old == organizer.websites \cup IndexTexasWebsite(district)
      <4>1. websites = old \cup IndexTexasWebsite(school)
          OBVIOUS
      <4>2. IndexFits(after, old)
          BY <2>2
      <4> HIDE DEF old, websites
      <4> QED BY <2>2, <3>4, <4>1, <4>2, IndexGrows
    <3>7. SitesFit(done, websites)
        BY <3>4, NothingListed
    <3> HIDE DEF websites
    <3>8. OrganizerFits(organizer', artifact') /\ organizer'.pc = "organizing"
        BY <1>1, <2>2, <3>1, <3>2, <3>4, <3>5, <3>6, <3>7, NextRowFits
    <3> QED BY <1>1, <3>1, <3>4, <3>5, <3>8, OrganizerSteps DEF ArtifactFits
  <2> QED BY <2>3, <2>4
<1> QED BY <1>4, <1>5

(* A row that is passed over.                                               *)
LEMMA PassedOver ==
    ASSUME OrganizerInv, organizer.pc = "organizing", organizer.todo # <<>>,
           NEW a, a.records = artifact.records, a.queue = artifact.queue, a.exact = artifact.exact,
           NEW o, DOMAIN o = DOMAIN NextRow, o.pc = NextRow.pc, o.todo = NextRow.todo,
           o.websites = organizer.websites, o.districts = organizer.districts,
           a.overlays = artifact.overlays, CountsFit(a, o.counts)
    PROVE  OrganizerFits(o, a) /\ o.pc = "organizing"
<1>1. /\ SitesFit(artifact, organizer.websites) /\ IndexFits(artifact, organizer.websites)
      /\ organizer.districts \subseteq ToSet(artifact.overlays) /\ TodoFits(artifact, organizer.todo)
    BY DEF OrganizerInv, OrganizerFits
<1>2. SitesFit(a, o.websites) /\ IndexFits(a, o.websites) /\ o.districts \subseteq ToSet(a.overlays)
    BY <1>1 DEF SitesFit, IndexFits
<1>3. Head(organizer.todo).kind = "texas" => a.records = <<>> /\ a.queue = <<>> /\ a.exact = <<>>
    BY <1>1, RowsLeft
<1> QED BY <1>2, <1>3, NextRowFits

LEMMA SkipStep ==
    ASSUME OrganizerInv, organizer.pc = "organizing", organizer.todo # <<>>,
           organizer' = NextRow, UNCHANGED <<artifact, Still, organized>>
    PROVE  OrganizerInv'
<1>1. DOMAIN organizer = DOMAIN Idle /\ CountsFit(artifact, organizer.counts) /\ ArtifactFits(artifact)
    BY DEF OrganizerInv, OrganizerFits
<1>2. NextRow.counts = organizer.counts /\ NextRow.websites = organizer.websites /\ NextRow.districts = organizer.districts
    BY <1>1 DEF NextRow, Idle
<1>3. OrganizerFits(organizer', artifact') /\ organizer'.pc = "organizing"
    BY <1>1, <1>2, PassedOver
<1> QED BY <1>1, <1>3, OrganizerSteps DEF Still

(* A record that is written, and what becomes of its website.               *)
LEMMA RecordStep ==
    ASSUME OrganizerInv, organizer.pc = "organizing", organizer.todo # <<>>, Head(organizer.todo).kind # "texas",
           UNCHANGED <<Still, organized>>,
           NEW r, Fits("records", r), organizer' = [NextRow EXCEPT !.counts = Counted(@, r)],
           NEW more, NEW list, NEW answered \in BOOLEAN,
           answered <=> r.site = None /\ Answered(r, organizer.websites),
           artifact' = IF answered
                       THEN [Emitted(artifact, "records", r) EXCEPT !.relationships = more, !.exact = Append(@, [source |-> r.source, key |-> r.key])]
                       ELSE [Emitted(artifact, "records", r) EXCEPT !.relationships = more, !.queue = @ \o EmitWebsiteQueue(r)]
    PROVE  OrganizerInv'
<1> DEFINE b == Emitted(artifact, "records", r)
           x == [source |-> r.source, key |-> r.key]
<1>1. /\ FilesAreLists(artifact) /\ RowsFit(artifact) /\ WorkFits(artifact) /\ TodoFits(artifact, organizer.todo)
      /\ DOMAIN organizer = DOMAIN Idle
      /\ CountsFit(artifact, organizer.counts) /\ IndexFits(artifact, organizer.websites)
      /\ SitesFit(artifact, organizer.websites) /\ organizer.districts \subseteq ToSet(artifact.overlays)
    BY DEF OrganizerInv, OrganizerFits, ArtifactFits
<1>2. /\ DOMAIN organizer' = DOMAIN NextRow /\ organizer'.pc = NextRow.pc /\ organizer'.todo = NextRow.todo
      /\ organizer'.counts = Counted(organizer.counts, r) /\ organizer'.websites = organizer.websites
      /\ organizer'.districts = organizer.districts
    BY <1>1 DEF NextRow, Idle
<1>3. /\ FilesAreLists(b) /\ b.records = Append(artifact.records, r)
      /\ b.overlays = artifact.overlays /\ b.queue = artifact.queue /\ b.exact = artifact.exact
    BY <1>1, EmittedElsewhere
<1>4. "records" \in StagedNames
    BY DEF StagedNames
<1>5. RowsFit(b) /\ WorkFits(b) /\ CountsFit(b, Counted(organizer.counts, r))
    BY <1>1, <1>4, EmittedFits
<1>6. x.source = r.source /\ x.key = r.key
    OBVIOUS
<1> HIDE DEF b, x
<1> PICK c : c = artifact'
    OBVIOUS
<1>7. c = IF answered THEN [b EXCEPT !.relationships = more, !.exact = Append(@, x)]
                  ELSE [b EXCEPT !.relationships = more, !.queue = @ \o EmitWebsiteQueue(r)]
    BY DEF b, x
<1>8. /\ artifact.queue \in Seq(ToSet(artifact.queue)) /\ artifact.exact \in Seq(ToSet(artifact.exact))
    BY <1>1 DEF FilesAreLists, FileNames
<1>9. /\ Append(artifact.exact, x) \in Seq(ToSet(Append(artifact.exact, x)))
      /\ Append(artifact.queue, x) \in Seq(ToSet(Append(artifact.queue, x)))
      /\ artifact.queue \o <<>> = artifact.queue /\ artifact.queue \o <<x>> = Append(artifact.queue, x)
    BY <1>8, Appending
<1>10. /\ DOMAIN c = ArtifactNames
       /\ \A name \in ArtifactNames \ {"relationships", "exact", "queue"} : c[name] = b[name]
       /\ c.exact = IF answered THEN Append(artifact.exact, x) ELSE artifact.exact
       /\ c.queue = IF answered THEN artifact.queue ELSE artifact.queue \o EmitWebsiteQueue(r)
  <2>1. DOMAIN b = ArtifactNames
      BY <1>3 DEF FilesAreLists
  <2>2. CASE answered
    <3>1. c = [b EXCEPT !.relationships = more, !.exact = Append(@, x)]
        BY <1>7, <2>2
    <3> QED BY <1>3, <2>1, <2>2, <3>1 DEF ArtifactNames
  <2>3. CASE ~answered
    <3>1. c = [b EXCEPT !.relationships = more, !.queue = @ \o EmitWebsiteQueue(r)]
        BY <1>7, <2>3
    <3> QED BY <1>3, <2>1, <2>3, <3>1 DEF ArtifactNames
  <2> QED BY <2>2, <2>3
<1>11. c.queue = IF r.site = None /\ ~Answered(r, organizer.websites) THEN Append(artifact.queue, x) ELSE artifact.queue
    BY <1>9, <1>10 DEF EmitWebsiteQueue, x
<1>12. FilesAreLists(c)
  <2>1. \A name \in FileNames : name \in ArtifactNames \ {"relationships", "exact", "queue"} \/ name \in {"exact", "queue"}
      BY DEF FileNames, StagedNames, ArtifactNames
  <2>2. c.exact \in Seq(ToSet(c.exact)) /\ c.queue \in Seq(ToSet(c.queue))
      BY <1>8, <1>9, <1>10, <1>11
  <2>3. \A name \in FileNames : b[name] \in Seq(ToSet(b[name]))
      BY <1>3 DEF FilesAreLists
  <2> QED BY <1>10, <2>1, <2>2, <2>3 DEF FilesAreLists
<1>13. \A name \in StagedNames \cup {"work"} : c[name] = b[name]
    BY <1>10 DEF StagedNames, ArtifactNames
<1>14. RowsFit(c) /\ WorkFits(c) /\ CountsFit(c, Counted(organizer.counts, r))
  <2>1. /\ RowsFit(b) => RowsFit(c)
        /\ WorkFits(b) => WorkFits(c)
        /\ \A counts : CountsFit(b, counts) => CountsFit(c, counts)
        /\ \A websites : IndexFits(b, websites) => IndexFits(c, websites)
      BY ONLY <1>13, OtherFiles
  <2> QED BY <1>5, <2>1
<1>15. c.records = Append(artifact.records, r) /\ c.overlays = artifact.overlays
    BY <1>3, <1>13 DEF StagedNames
<1>16. SitesFit(c, organizer.websites)
  <2>1. c.exact = IF r.site = None /\ Answered(r, organizer.websites) THEN Append(artifact.exact, x) ELSE artifact.exact
      BY <1>10
  <2>2. /\ c.records = Append(artifact.records, r)
        /\ c.queue = IF r.site = None /\ ~Answered(r, organizer.websites) THEN Append(artifact.queue, x) ELSE artifact.queue
      BY <1>11, <1>15
  <2>3. FilesAreLists(artifact) /\ SitesFit(artifact, organizer.websites)
      BY <1>1
  <2> QED BY ONLY <1>6, <2>1, <2>2, <2>3, SitesAccounted
<1>17. IndexFits(c, organizer.websites) /\ organizer.districts \subseteq ToSet(c.overlays)
    BY <1>1, <1>15 DEF IndexFits
<1>18. OrganizerFits(organizer', c) /\ organizer'.pc = "organizing"
    BY <1>2, <1>14, <1>16, <1>17, NextRowFits
<1> QED BY <1>12, <1>14, <1>18, OrganizerSteps DEF ArtifactFits, Still

LEMMA NcesStep ==
    ASSUME OrganizerInv, OrganizeNces
    PROVE  OrganizerInv'
<1> DEFINE row == CurrentRow
           r == IF row.kind = "lea" THEN NcesLeaRecord(row) ELSE NcesSchoolRecord(row)
           files == [Emitted(artifact, "records", r) EXCEPT !.relationships = @ \o EmitRelationships(r)]
           answered == r.site = None /\ NcesIds(r) \cap organizer.websites # {}
<1>1. /\ organizer.pc = "organizing" /\ organizer.todo # <<>> /\ Head(organizer.todo).kind # "texas"
      /\ UNCHANGED <<Still, organized>>
    BY DEF OrganizeNces, Reads
<1>2. CASE row.id = None \/ (row.kind = "school" /\ row.lea = None)
    BY <1>1, <1>2, SkipStep DEF OrganizeNces
<1>3. CASE ~(row.id = None \/ (row.kind = "school" /\ row.lea = None))
  <2>1. Fits("records", r) /\ r.source \in NcesSources
      BY <1>3, NcesFits
  <2>2. /\ organizer' = [NextRow EXCEPT !.counts = Counted(@, r)]
        /\ artifact' = IF answered
                        THEN [files EXCEPT !.exact = Append(@, [source |-> r.source, key |-> r.key])]
                        ELSE [files EXCEPT !.queue = @ \o EmitWebsiteQueue(r)]
      BY <1>3 DEF OrganizeNces
  <2> HIDE DEF row, r
  <2>3. answered <=> r.site = None /\ Answered(r, organizer.websites)
      BY <2>1 DEF Answered, Fits
  <2> DEFINE more == Emitted(artifact, "records", r).relationships \o EmitRelationships(r)
  <2>4. artifact' = IF answered
                    THEN [Emitted(artifact, "records", r) EXCEPT !.relationships = more, !.exact = Append(@, [source |-> r.source, key |-> r.key])]
                    ELSE [Emitted(artifact, "records", r) EXCEPT !.relationships = more, !.queue = @ \o EmitWebsiteQueue(r)]
      BY <2>2
  <2> HIDE DEF more, answered
  <2>5. answered \in BOOLEAN
      BY DEF answered
  <2> QED BY <1>1, <2>1, <2>2, <2>3, <2>4, <2>5, RecordStep
<1> QED BY <1>2, <1>3

LEMMA EmitStep ==
    ASSUME OrganizerInv, organizer.pc = "organizing", organizer.todo # <<>>, Head(organizer.todo).kind # "texas",
           NEW r, Fits("records", r), r.source \notin NcesSources, EmitSourceRecord(r)
    PROVE  OrganizerInv'
<1> DEFINE more == Emitted(artifact, "records", r).relationships \o EmitRelationships(r)
<1>1. /\ organizer' = [NextRow EXCEPT !.counts = Counted(@, r)] /\ UNCHANGED <<Still, organized>>
      /\ artifact' = [Emitted(artifact, "records", r) EXCEPT !.queue = @ \o EmitWebsiteQueue(r), !.relationships = @ \o EmitRelationships(r)]
    BY DEF EmitSourceRecord
<1>2. DOMAIN Emitted(artifact, "records", r) = ArtifactNames
  <2>1. FilesAreLists(artifact)
      BY DEF OrganizerInv, ArtifactFits
  <2> QED BY <2>1, EmittedElsewhere DEF FilesAreLists
<1>3. artifact' = [Emitted(artifact, "records", r) EXCEPT !.relationships = more, !.queue = @ \o EmitWebsiteQueue(r)]
  <2> DEFINE b == Emitted(artifact, "records", r)
  <2>1. DOMAIN b = ArtifactNames /\ more = b.relationships \o EmitRelationships(r)
        /\ artifact' = [b EXCEPT !.queue = @ \o EmitWebsiteQueue(r), !.relationships = @ \o EmitRelationships(r)]
      BY <1>1, <1>2
  <2> HIDE DEF b, more
  <2>2. artifact' = [b EXCEPT !.relationships = more, !.queue = @ \o EmitWebsiteQueue(r)]
      BY <2>1
  <2> QED BY <2>2 DEF b
<1> HIDE DEF more
<1>4. ~Answered(r, organizer.websites)
    BY DEF Answered
<1> QED BY <1>1, <1>3, <1>4, RecordStep

LEMMA CensusStep ==
    ASSUME OrganizerInv, OrganizeCensus \/ OrganizeUsaGov
    PROVE  OrganizerInv'
<1>1. organizer.pc = "organizing" /\ organizer.todo # <<>> /\ Head(organizer.todo).kind # "texas"
    BY DEF OrganizeCensus, OrganizeUsaGov, Reads
<1>2. Skip => OrganizerInv'
    BY <1>1, SkipStep DEF Skip
<1>3. CASE OrganizeCensus /\ CurrentRow.id # None
  <2>1. CurrentRow.sheet \in CensusSheets
      BY <1>1, <1>3, RowsLeft DEF OrganizeCensus, Reads, CurrentRow, OrganizerInv, OrganizerFits
  <2>2. EmitSourceRecord(CensusRecord(CurrentRow))
      BY <1>3 DEF OrganizeCensus
  <2>3. Fits("records", CensusRecord(CurrentRow)) /\ CensusRecord(CurrentRow).source \notin NcesSources
      BY <1>3, <2>1, CensusFits
  <2> QED BY <1>1, <2>2, <2>3, EmitStep
<1>4. CASE OrganizeUsaGov /\ None \notin {CurrentRow.node, CurrentRow.name}
  <2>1. EmitSourceRecord(AgencyRecord(CurrentRow))
      BY <1>4 DEF OrganizeUsaGov
  <2> QED BY <1>1, <2>1, AgencyFits, EmitStep
<1> QED BY <1>2, <1>3, <1>4 DEF OrganizeCensus, OrganizeUsaGov

LEMMA AreaStep ==
    ASSUME OrganizerInv, OrganizeGeographies
    PROVE  OrganizerInv'
<1> DEFINE area == [CurrentRow EXCEPT !.type = IF @ = "state" /\ CurrentRow.outlying THEN "territory" ELSE @]
           named == IF CurrentRow.type = "county" /\ CurrentRow.state = "TX" THEN {CurrentRow.name} \ {None} ELSE {}
<1>1. /\ organizer.pc = "organizing" /\ organizer.todo # <<>> /\ UNCHANGED <<Still, organized>>
      /\ artifact' = [artifact EXCEPT !.areas = Append(@, area)]
      /\ organizer' = [NextRow EXCEPT !.census = @ \cup named]
    BY DEF OrganizeGeographies, Reads
<1> HIDE DEF area, named
<1>2. /\ DOMAIN organizer = DOMAIN Idle /\ CountsFit(artifact, organizer.counts) /\ ArtifactFits(artifact)
      /\ DOMAIN artifact = ArtifactNames
    BY <1>1 DEF OrganizerInv, OrganizerFits, ArtifactFits, FilesAreLists
<1>3. /\ DOMAIN organizer' = DOMAIN NextRow /\ organizer'.pc = NextRow.pc /\ organizer'.todo = NextRow.todo
      /\ organizer'.counts = organizer.counts /\ organizer'.websites = organizer.websites
      /\ organizer'.districts = organizer.districts
    BY <1>1, <1>2 DEF NextRow, Idle
<1>4. DOMAIN artifact' = ArtifactNames /\ \A name \in FileNames : artifact'[name] = artifact[name]
    BY <1>1, <1>2 DEF FileNames, StagedNames, ArtifactNames
<1>5. StagedNames \cup {"work"} \subseteq FileNames
    BY DEF FileNames
<1>6. ArtifactFits(artifact') /\ CountsFit(artifact', organizer.counts)
    BY <1>2, <1>4, <1>5, OtherFiles DEF ArtifactFits, FilesAreLists
<1>7. /\ artifact'.records = artifact.records /\ artifact'.queue = artifact.queue
      /\ artifact'.exact = artifact.exact /\ artifact'.overlays = artifact.overlays
    BY <1>4 DEF FileNames, StagedNames
<1>8. OrganizerFits(organizer', artifact') /\ organizer'.pc = "organizing"
    BY <1>1, <1>3, <1>6, <1>7, PassedOver
<1> QED BY <1>1, <1>6, <1>8, OrganizerSteps DEF Still

LEMMA RegisterStep ==
    ASSUME OrganizerInv, OrganizeFederalRegister
    PROVE  OrganizerInv'
<1> DEFINE r == RegisterRecord(CurrentRow)
           b == Emitted(artifact, "reconciliation", r)
<1>1. organizer.pc = "organizing" /\ organizer.todo # <<>> /\ UNCHANGED <<Still, organized>>
    BY DEF OrganizeFederalRegister, Reads
<1>2. CASE CurrentRow.id = None
    BY <1>1, <1>2, SkipStep DEF OrganizeFederalRegister
<1>3. CASE CurrentRow.id # None
  <2>1. artifact' = b /\ organizer' = [NextRow EXCEPT !.counts = Counted(@, r)]
      BY <1>3 DEF OrganizeFederalRegister
  <2>2. Fits("reconciliation", r) /\ "reconciliation" \in StagedNames
      BY AgencyFits DEF StagedNames
  <2> HIDE DEF r
  <2>3. /\ DOMAIN organizer = DOMAIN Idle /\ CountsFit(artifact, organizer.counts)
        /\ FilesAreLists(artifact) /\ RowsFit(artifact) /\ WorkFits(artifact)
      BY <1>1 DEF OrganizerInv, OrganizerFits, ArtifactFits
  <2>4. /\ FilesAreLists(b) /\ b.overlays = artifact.overlays
        /\ b.records = artifact.records /\ b.queue = artifact.queue /\ b.exact = artifact.exact
      BY <2>3, EmittedElsewhere
  <2>5. RowsFit(b) /\ WorkFits(b) /\ CountsFit(b, Counted(organizer.counts, r))
      BY <2>2, <2>3, EmittedFits
  <2>6. /\ DOMAIN organizer' = DOMAIN NextRow /\ organizer'.pc = NextRow.pc /\ organizer'.todo = NextRow.todo
        /\ organizer'.counts = Counted(organizer.counts, r) /\ organizer'.websites = organizer.websites
        /\ organizer'.districts = organizer.districts
      BY <2>1, <2>3 DEF NextRow, Idle
  <2> HIDE DEF b
  <2>7. OrganizerFits(organizer', artifact') /\ organizer'.pc = "organizing"
      BY <1>1, <2>1, <2>4, <2>5, <2>6, PassedOver
  <2> QED BY <1>1, <2>1, <2>4, <2>5, <2>7, OrganizerSteps DEF ArtifactFits, Still
<1> QED BY <1>2, <1>3

LEMMA EndStep ==
    ASSUME OrganizerInv, WriteSummary \/ StopOrganizer
    PROVE  OrganizerInv'
<1>1. DOMAIN organizer = DOMAIN Idle /\ organizer.pc = "organizing" /\ UNCHANGED <<artifact, Still>>
    BY DEF WriteSummary, StopOrganizer, OrganizerInv, OrganizerFits
<1>2. CASE WriteSummary
  <2>1. organizer' = [organizer EXCEPT !.pc = "done"] /\ organized'.counts = organizer.counts
      BY <1>2 DEF WriteSummary
  <2>2. /\ DOMAIN organizer' = DOMAIN Idle /\ organizer'.pc = "done" /\ organizer'.counts = organizer.counts
        /\ organizer'.websites = organizer.websites /\ organizer'.districts = organizer.districts
      BY <1>1, <2>1 DEF Idle
  <2>3. OrganizerFits(organizer', artifact')
      BY <1>1, <2>2 DEF OrganizerInv, OrganizerFits
  <2> QED BY <1>1, <2>1, <2>2, <2>3, OrganizerSteps DEF OrganizerInv, Still
<1>3. CASE StopOrganizer
  <2>1. DOMAIN organizer' = DOMAIN Idle /\ organizer'.pc = "failed"
      BY <1>1, <1>3 DEF Idle, StopOrganizer
  <2>2. OrganizerFits(organizer', artifact')
      BY <2>1 DEF OrganizerFits
  <2> QED BY <1>1, <2>1, <2>2, OrganizerSteps DEF OrganizerInv, Still
<1> QED BY <1>2, <1>3

LEMMA DownloadStep ==
    ASSUME OrganizerInv, Download
    PROVE  OrganizerInv'
BY DEF OrganizerInv, Download

----------------------------------------------------------------------------
(* The steps of the importer.                                               *)
LEMMA ImporterSteps ==
    ASSUME OrganizerInv, UNCHANGED <<release, artifact, organized, organizer>>, ImporterFits(importer'),
           \A s \in spineRows' : StagedFits(s)
    PROVE  OrganizerInv'
BY DEF OrganizerInv

LEMMA NoImporterFits == ImporterFits(NoImporter) /\ \A pc, file : file \in 1..3 => ImporterFits([NoImporter EXCEPT !.pc = pc, !.file = file])
<1>1. <<>> \in Seq(ToSet(<<>>)) /\ DOMAIN <<>> = {}
    OBVIOUS
<1> QED BY <1>1 DEF ImporterFits, NoImporter

LEMMA LineStep ==
    ASSUME OrganizerInv, StageLine
    PROVE  OrganizerInv'
<1> DEFINE r == Artifact[importer.line + 1]
<1>1. /\ UNCHANGED <<release, artifact, organized, organizer, spineRows>>
      /\ importer.line < Len(Artifact)
      /\ importer' = IF r.source \in Prohibited THEN NoImporter
                      ELSE [importer EXCEPT !.line = @ + 1, !.batch = Append(@, r)]
    BY DEF StageLine, Stay
<1>2. /\ DOMAIN importer = DOMAIN NoImporter /\ importer.file \in 1..3 /\ importer.line \in Nat
      /\ importer.batch \in Seq(ToSet(importer.batch)) /\ \A i \in DOMAIN importer.batch : Sorted(importer.batch[i])
    BY DEF OrganizerInv, ImporterFits
<1>3. Staging[importer.file] \in StagedNames
    BY <1>2 DEF Staging, StagedNames
<1>4. Artifact \in Seq(ToSet(Artifact)) /\ \A i \in DOMAIN Artifact : Sorted(Artifact[i])
    BY <1>3 DEF OrganizerInv, ArtifactFits, FilesAreLists, FileNames, RowsFit, Fits, Artifact
<1>5. Sorted(r)
  <2> DEFINE l == Artifact
  <2>1. l \in Seq(ToSet(l)) /\ importer.line < Len(l)
      BY <1>1, <1>4
  <2> HIDE DEF l
  <2>2. importer.line + 1 \in DOMAIN l
      BY <1>2, <2>1
  <2> QED BY <1>4, <2>2 DEF l
<1> HIDE DEF r
<1>6. ImporterFits(importer')
  <2>1. CASE r.source \in Prohibited
      BY <1>1, <2>1, NoImporterFits
  <2>2. CASE r.source \notin Prohibited
    <3>1. /\ DOMAIN importer' = DOMAIN NoImporter /\ importer'.file = importer.file
          /\ importer'.line = importer.line + 1 /\ importer'.batch = Append(importer.batch, r)
        BY <1>1, <1>2, <2>2 DEF NoImporter
    <3>2. /\ Append(importer.batch, r) \in Seq(ToSet(Append(importer.batch, r)))
          /\ DOMAIN Append(importer.batch, r) = DOMAIN importer.batch \cup {Len(importer.batch) + 1}
          /\ Append(importer.batch, r)[Len(importer.batch) + 1] = r
          /\ \A i \in DOMAIN importer.batch : Append(importer.batch, r)[i] = importer.batch[i]
        BY <1>2, Appending
    <3>3. \A i \in DOMAIN importer'.batch : Sorted(importer'.batch[i])
        BY <1>2, <1>5, <3>1, <3>2
    <3>4. importer'.line \in Nat
        BY <1>2, <3>1
    <3> QED BY <1>2, <3>1, <3>2, <3>3, <3>4 DEF ImporterFits
  <2> QED BY <2>1, <2>2
<1>7. \A s \in spineRows' : StagedFits(s)
    BY <1>1 DEF OrganizerInv
<1> QED BY <1>1, <1>6, <1>7, ImporterSteps

LEMMA StagedRowFits ==
    ASSUME OrganizerInv, NEW r, Sorted(r)
    PROVE  StagedFits(StagedRow(r))
<1> DEFINE status == StatusFor(Staging[importer.file], r)
           fresh == [record |-> r, version |-> Artifact, status |-> status]
           old == {s \in spineRows : s.record.source = r.source /\ s.record.key = r.key /\ s.version = Artifact}
<1>1. StagedRow(r) = IF \E s \in old : s.status = "imported" THEN [fresh EXCEPT !.status = "imported"] ELSE fresh
    BY DEF StagedRow
<1>2. status \in {"ready_to_import", "imported"} => Classified(r)
    BY DEF StatusFor
<1>3. CASE \E s \in old : s.status = "imported"
  <2>1. PICK s \in old : s.status = "imported"
      BY <1>3
  <2>2. Sorted(s.record) /\ Classified(s.record) /\ s.record.source = r.source
      BY <2>1 DEF OrganizerInv, StagedFits
  <2>3. Classified(r)
      BY <2>2 DEF Sorted
  <2> HIDE DEF status, old
  <2>4. /\ DOMAIN StagedRow(r) = {"record", "version", "status"} /\ StagedRow(r).record = r
      BY <1>1, <1>3
  <2> QED BY <2>3, <2>4 DEF StagedFits
<1>4. CASE ~\E s \in old : s.status = "imported"
  <2> HIDE DEF status, old
  <2>1. DOMAIN StagedRow(r) = {"record", "version", "status"} /\ StagedRow(r).record = r /\ StagedRow(r).status = status
      BY <1>1, <1>4
  <2> QED BY <1>2, <2>1 DEF StagedFits
<1> QED BY <1>3, <1>4

LEMMA FileStep ==
    ASSUME OrganizerInv, StageFile
    PROVE  OrganizerInv'
<1>1. /\ UNCHANGED <<release, artifact, organized, organizer>>
      /\ IF Repeats(importer.batch) THEN UNCHANGED spineRows ELSE StageBatchRows(importer.batch)
      /\ importer' = IF Repeats(importer.batch) THEN NoImporter
                      ELSE IF importer.line < Len(Artifact) THEN [importer EXCEPT !.batch = <<>>]
                      ELSE IF importer.file < Len(Staging)
                           THEN [NoImporter EXCEPT !.pc = "staging", !.file = importer.file + 1]
                           ELSE [NoImporter EXCEPT !.pc = "staged"]
    BY DEF StageFile, Stay
<1>2. /\ DOMAIN importer = DOMAIN NoImporter /\ importer.file \in 1..3 /\ importer.line \in Nat
      /\ \A i \in DOMAIN importer.batch : Sorted(importer.batch[i])
    BY DEF OrganizerInv, ImporterFits
<1>3. ImporterFits(importer')
  <2>1. ImporterFits([importer EXCEPT !.batch = <<>>])
    <3>1. <<>> \in Seq(ToSet(<<>>)) /\ DOMAIN <<>> = {}
        OBVIOUS
    <3> QED BY <1>2, <3>1 DEF ImporterFits, NoImporter
  <2>2. ASSUME importer.file < Len(Staging)
        PROVE  ImporterFits([NoImporter EXCEPT !.pc = "staging", !.file = importer.file + 1])
    <3>1. importer.file + 1 \in 1..3
        BY <1>2, <2>2 DEF Staging
    <3> QED BY <3>1, NoImporterFits
  <2>3. ImporterFits([NoImporter EXCEPT !.pc = "staged"])
    <3>1. <<>> \in Seq(ToSet(<<>>)) /\ DOMAIN <<>> = {}
        OBVIOUS
    <3> QED BY <3>1 DEF ImporterFits, NoImporter
  <2> QED BY <1>1, <2>1, <2>2, <2>3, NoImporterFits
<1>4. ASSUME NEW s \in spineRows' PROVE StagedFits(s)
  <2>1. CASE s \in spineRows
      BY <2>1 DEF OrganizerInv
  <2>2. CASE s \notin spineRows
    <3>1. StageBatchRows(importer.batch)
        BY <1>1, <1>4, <2>2
    <3>2. PICK i \in DOMAIN importer.batch : s = StagedRow(importer.batch[i])
        BY <1>4, <2>2, <3>1 DEF StageBatchRows
    <3> QED BY <1>2, <3>2, StagedRowFits
  <2> QED BY <2>1, <2>2
<1> QED BY <1>1, <1>3, <1>4, ImporterSteps

LEMMA CanonicalStep ==
    ASSUME OrganizerInv, CanonicalizeAll
    PROVE  OrganizerInv'
<1>1. /\ UNCHANGED <<release, artifact, organized, organizer>> /\ importer' = [importer EXCEPT !.pc = "canonicalized"]
      /\ spineRows' = {IF s.status = "ready_to_import" THEN [s EXCEPT !.status = "imported"] ELSE s : s \in spineRows}
    BY DEF CanonicalizeAll, Stay
<1>2. ImporterFits(importer')
    BY <1>1 DEF OrganizerInv, ImporterFits, NoImporter
<1>3. ASSUME NEW t \in spineRows' PROVE StagedFits(t)
  <2>1. PICK s \in spineRows : t = IF s.status = "ready_to_import" THEN [s EXCEPT !.status = "imported"] ELSE s
      BY <1>1, <1>3
  <2>2. StagedFits(s)
      BY DEF OrganizerInv
  <2>3. CASE s.status = "ready_to_import"
    <3>1. DOMAIN t = {"record", "version", "status"} /\ t.record = s.record /\ Classified(s.record)
        BY <2>1, <2>2, <2>3 DEF StagedFits
    <3> QED BY <2>2, <3>1 DEF StagedFits
  <2> QED BY <2>1, <2>2, <2>3
<1> QED BY <1>1, <1>2, <1>3, ImporterSteps

LEMMA ImporterMoves ==
    ASSUME OrganizerInv, Import \/ StageOnly \/ MaterializeTexasEducationAttributes \/ StopImporter
    PROVE  OrganizerInv'
<1>1. UNCHANGED <<release, artifact, organized, organizer, spineRows>>
    BY DEF Import, StageOnly, MaterializeTexasEducationAttributes, StopImporter, Stay
<1>2. \/ importer' = [NoImporter EXCEPT !.pc = "staging"] \/ importer' = NoImporter
      \/ importer' = [importer EXCEPT !.pc = "done"]
    BY DEF Import, StageOnly, MaterializeTexasEducationAttributes, StopImporter
<1>3. ImporterFits(importer')
  <2>1. <<>> \in Seq(ToSet(<<>>)) /\ DOMAIN <<>> = {}
      OBVIOUS
  <2>2. ImporterFits([NoImporter EXCEPT !.pc = "staging"])
      BY <2>1 DEF ImporterFits, NoImporter
  <2>3. ImporterFits([importer EXCEPT !.pc = "done"])
      BY DEF OrganizerInv, ImporterFits, NoImporter
  <2> QED BY <1>2, <2>2, <2>3, NoImporterFits
<1>4. \A s \in spineRows' : StagedFits(s)
    BY <1>1 DEF OrganizerInv
<1> QED BY <1>1, <1>3, <1>4, ImporterSteps

----------------------------------------------------------------------------
(* What the invariant says of the files of a whole run.                     *)
LEMMA HeldIsWorkedOn ==
    ASSUME OrganizerInv, NEW name \in StagedNames, NEW r \in ToSet(artifact[name])
    PROVE  RowsAbout(artifact.work, r) # {} <=> StatusFor(name, r) # "ready_to_import"
<1>1. PICK i \in DOMAIN artifact[name] : r = artifact[name][i]
    BY DEF ToSet
<1>2. Fits(name, r) /\ (~Classified(r) => RowsAbout(artifact.work, r) # {})
    BY <1>1 DEF OrganizerInv, ArtifactFits, RowsFit, WorkFits
<1>3. ASSUME NEW k \in RowsAbout(artifact.work, r) PROVE ~Classified(r)
  <2>1. k \in DOMAIN artifact.work /\ artifact.work[k].source = r.source
      BY <1>3 DEF RowsAbout
  <2>2. r.source \notin ClassifiedSources
      BY <2>1 DEF OrganizerInv, ArtifactFits, WorkFits
  <2> QED BY <1>2, <2>2 DEF Fits, Sorted
<1>4. name = "reconciliation" => ~Classified(r)
    BY <1>2 DEF Fits, Sorted, ClassifiedSources
<1>5. StatusFor(name, r) = "ready_to_import" <=> name # "reconciliation" /\ Classified(r) /\ r.ids # {}
    BY DEF StatusFor
<1> QED BY <1>2, <1>3, <1>4, <1>5 DEF Fits, Sorted

LEMMA StateAnswers ==
    ASSUME OrganizerInv, organizer.pc = "done", NEW r \in ToSet(artifact.records)
    PROVE  Answered(r, organizer.websites) <=>
              /\ r.source \in {"nces-lea", "nces-school"}
              /\ \E o \in ToSet(artifact.overlays) : o.site # None /\ NcesIds(o) \cap NcesIds(r) # {}
<1>1. PICK i \in DOMAIN artifact.records : r = artifact.records[i]
    BY DEF ToSet
<1>2. "records" \in StagedNames
    BY DEF StagedNames
<1>3. Fits("records", r)
    BY <1>1, <1>2 DEF OrganizerInv, ArtifactFits, RowsFit
<1>4. r.source \in NcesSources => NcesIds(r) = IdsOf(r.source, r.key)
    BY <1>3 DEF Fits
<1>5. organizer.websites = UNION {IndexTexasWebsite(artifact.overlays[k]) : k \in DOMAIN artifact.overlays}
    BY DEF OrganizerInv, OrganizerFits, IndexFits
<1>6. \A id : id \in organizer.websites <=> \E o \in ToSet(artifact.overlays) : o.site # None /\ id \in NcesIds(o)
    BY <1>5 DEF IndexTexasWebsite, ToSet
<1> QED BY <1>4, <1>6 DEF Answered, NcesSources

(* Whatever was downloaded, wherever a command was killed and however often *)
(* they were run: what is held is worked on, what is imported is classified,*)
(* missing websites are answered or queued once, and the summary is right.  *)
THEOREM SpineIsAccountedFor == OrganizerSpec => []SpineAccountsForEveryRow
<1>1. OrganizerInit => OrganizerInv
  <2> SUFFICES ASSUME OrganizerInit PROVE OrganizerInv
      OBVIOUS
  <2>1. \A name \in FileNames : artifact[name] = <<>>
      BY DEF OrganizerInit, Empty, FileNames, StagedNames, ArtifactNames
  <2>2. <<>> \in Seq(ToSet(<<>>)) /\ DOMAIN <<>> = {}
      OBVIOUS
  <2>3. FilesAreLists(artifact)
      BY <2>1, <2>2 DEF OrganizerInit, FilesAreLists, Empty
  <2>4. RowsFit(artifact)
      BY <2>1, <2>2 DEF RowsFit, FileNames
  <2>5. artifact.work = <<>> /\ \A name \in StagedNames : artifact[name] = <<>>
      BY <2>1 DEF FileNames
  <2>6. WorkFits(artifact)
      BY <2>2, <2>5 DEF WorkFits
  <2>7. organizer.pc = "off" /\ DOMAIN organizer = DOMAIN Idle
      BY DEF OrganizerInit, Idle
  <2> QED BY <2>3, <2>4, <2>6, <2>7, NoImporterFits DEF OrganizerInit, OrganizerInv, OrganizerFits, ArtifactFits
<1>2. OrganizerInv /\ [OrganizerNext]_organizerVars => OrganizerInv'
  <2> SUFFICES ASSUME OrganizerInv, [OrganizerNext]_organizerVars PROVE OrganizerInv'
      OBVIOUS
  <2>1. CASE UNCHANGED organizerVars
      BY <2>1 DEF organizerVars, OrganizerInv
  <2>2. CASE OrganizerNext
      BY <2>2, OrganizeFits, TexasStep, NcesStep, CensusStep, AreaStep, RegisterStep, EndStep, DownloadStep,
         LineStep, FileStep, CanonicalStep, ImporterMoves DEF OrganizerNext
  <2> QED BY <2>1, <2>2
<1>3. OrganizerInv => SpineAccountsForEveryRow
  <2> SUFFICES ASSUME OrganizerInv PROVE SpineAccountsForEveryRow
      OBVIOUS
  <2>1. ASSUME NEW s \in spineRows, s.status = "imported" PROVE Classified(s.record) /\ s.record.source # "register"
      BY <2>1 DEF OrganizerInv, StagedFits, Sorted, ClassifiedSources
  <2>2. ASSUME organizer.pc = "done", NEW name \in ToSet(Staging), NEW r \in ToSet(artifact[name])
        PROVE  RowsAbout(artifact.work, r) # {} <=> StatusFor(name, r) # "ready_to_import"
    <3>1. name \in StagedNames
        BY DEF ToSet, Staging, StagedNames
    <3> QED BY <3>1, HeldIsWorkedOn
  <2>3. ASSUME organizer.pc = "done", NEW r \in ToSet(artifact.records)
        PROVE  LET missing == Cardinality({i \in RowsAbout(artifact.records, r) : artifact.records[i].site = None})
                   texas == \E o \in ToSet(artifact.overlays) : o.site # None /\ NcesIds(o) \cap NcesIds(r) # {}
                   answered == r.source \in {"nces-lea", "nces-school"} /\ texas
               IN /\ Cardinality(RowsAbout(artifact.exact, r)) = IF answered THEN missing ELSE 0
                  /\ Cardinality(RowsAbout(artifact.queue, r)) = IF answered THEN 0 ELSE missing
    <3>1. SitesFit(artifact, organizer.websites)
        BY <2>3 DEF OrganizerInv, OrganizerFits
    <3>2. /\ Cardinality(RowsAbout(artifact.exact, r)) =
                 IF Answered(r, organizer.websites) THEN Cardinality(Missing(artifact.records, r)) ELSE 0
          /\ Cardinality(RowsAbout(artifact.queue, r)) =
                 IF Answered(r, organizer.websites) THEN 0 ELSE Cardinality(Missing(artifact.records, r))
        BY <3>1 DEF SitesFit
    <3> QED BY <2>3, <3>2, StateAnswers DEF Missing
  <2>4. ASSUME organizer.pc = "done", NEW s \in DOMAIN organized.counts
        PROVE  organized.counts[s].records =
                   Cardinality(RowsFrom(artifact.records, s)) + Cardinality(RowsFrom(artifact.overlays, s))
                   + Cardinality(RowsFrom(artifact.reconciliation, s))
      BY <2>4 DEF OrganizerInv, OrganizerFits, CountsFit, CountOf
  <2> QED BY <2>1, <2>2, <2>3, <2>4 DEF SpineAccountsForEveryRow
<1> QED BY <1>1, <1>2, <1>3, PTL DEF OrganizerSpec

----------------------------------------------------------------------------
(* Delimited files: a file read in chunks is the file read whole.           *)
FilesSpec == FilesInit /\ [][FilesNext]_fileVars

----------------------------------------------------------------------------
(* Readers, and what is computed character by character.                    *)
Readers(C) ==
    [row : Seq(Seq(C)), field : Seq(C), quoted : BOOLEAN, skip : BOOLEAN, pending : BOOLEAN,
     rows : Seq(Seq(Seq(C))), failed : BOOLEAN]

LEMMA Finished ==
    ASSUME NEW C, NEW s \in Readers(C)
    PROVE  /\ FinishField(s) \in Readers(C) /\ FinishRow(s) \in Readers(C) /\ Rest(s) \in Readers(C)
           /\ FinishField(s) = [s EXCEPT !.row = Append(s.row, s.field), !.field = <<>>]
           /\ \A c \in C : Written(s, c) \in Readers(C)
           /\ \A q, p, k \in BOOLEAN : [s EXCEPT !.quoted = q, !.pending = p, !.skip = k] \in Readers(C)
<1>1. \A c \in C : Append(s.field, c) \in Seq(C)
    BY DEF Readers
<1>2. Append(s.row, s.field) \in Seq(Seq(C)) /\ <<>> \in Seq(C) /\ <<>> \in Seq(Seq(C))
    BY DEF Readers
<1>3. FinishField(s) \in Readers(C) /\ FinishField(s).row = Append(s.row, s.field)
    BY <1>2 DEF FinishField, Readers
<1>4. Append(s.rows, FinishField(s).row) \in Seq(Seq(Seq(C)))
    BY <1>2, <1>3 DEF Readers
<1>5. FinishRow(s) \in Readers(C)
    BY <1>2, <1>4 DEF FinishRow, Readers
<1> QED BY <1>1, <1>3, <1>5 DEF FinishField, Written, Rest, Readers

(* A character outside of quotes says nothing of what the quotes are like,  *)
(* but for a quote.                                                         *)
LEMMA PlainReads ==
    ASSUME NEW C, NEW s \in Readers(C), NEW c \in C, NEW opens \in BOOLEAN
    PROVE  /\ Plain(s, c, opens) \in Readers(C)
           /\ Plain(s, c, opens).skip = s.skip /\ Plain(s, c, opens).pending = s.pending
           /\ Plain(s, c, opens).failed = s.failed
           /\ c # Quote => Plain(s, c, opens).quoted = s.quoted
           /\ c = Return => Plain(s, c, opens) = s
           /\ c # Quote => Plain(s, c, opens) = Plain(s, c, TRUE)
<1>1. Quote # Comma /\ Quote # NewLine /\ Quote # Return /\ Comma # NewLine /\ Comma # Return /\ NewLine # Return
    BY DEF Quote, Comma, NewLine, Return
<1>2. Plain(s, c, opens) \in Readers(C)
  <2> DEFINE p == Plain(s, c, opens)
  <2>1. [s EXCEPT !.quoted = TRUE] \in Readers(C)
      BY DEF Readers
  <2>2. FinishField(s) \in Readers(C) /\ FinishRow(s) \in Readers(C) /\ Written(s, c) \in Readers(C)
      BY Finished
  <2>3. p \in {[s EXCEPT !.quoted = TRUE], FinishField(s), FinishRow(s), s, Written(s, c)}
      BY DEF Plain
  <2> QED BY <2>1, <2>2, <2>3
<1>3. /\ FinishField(s).skip = s.skip /\ FinishField(s).pending = s.pending /\ FinishField(s).failed = s.failed
      /\ FinishField(s).quoted = s.quoted /\ FinishField(s).field = <<>>
    BY DEF FinishField, Readers
<1>4. /\ FinishRow(s).skip = s.skip /\ FinishRow(s).pending = s.pending /\ FinishRow(s).failed = s.failed
      /\ FinishRow(s).quoted = s.quoted /\ FinishRow(s).field = <<>>
    BY DEF FinishRow, Readers
<1>5. /\ Written(s, c).skip = s.skip /\ Written(s, c).pending = s.pending /\ Written(s, c).failed = s.failed
      /\ Written(s, c).quoted = s.quoted
    BY DEF Written, Readers
<1>6. CASE c = Quote /\ opens
  <2>1. Plain(s, c, opens) = [s EXCEPT !.quoted = TRUE]
      BY <1>1, <1>6 DEF Plain
  <2> QED BY <1>1, <1>2, <1>6, <2>1 DEF Readers
<1>7. CASE ~(c = Quote /\ opens)
  <2>1. Plain(s, c, opens) = IF c = Comma THEN FinishField(s) ELSE IF c = NewLine THEN FinishRow(s)
                             ELSE IF c = Return THEN s ELSE Written(s, c)
      BY <1>1, <1>7 DEF Plain
  <2>2. c # Quote => Plain(s, c, TRUE) = Plain(s, c, opens)
      BY <2>1, <1>1 DEF Plain
  <2> QED BY <1>1, <1>2, <1>3, <1>4, <1>5, <1>7, <2>1, <2>2
<1> QED BY <1>6, <1>7

(* What the reader of a stream does with a character, case by case.         *)
Closing(s) == [s EXCEPT !.quoted = FALSE, !.pending = FALSE]
QuoteWritten(s) == [Written(s, Quote) EXCEPT !.pending = FALSE]
Calm(s) == ~s.skip /\ (s.pending => s.quoted)

LEMMA PartReads ==
    ASSUME NEW C, Quote \in C, NEW text \in Seq(C), NEW i \in 1..Len(text), NEW s \in Readers(C)
    PROVE  LET c == text[i]
               next == ReadPart(s, text, i)
           IN /\ next \in Readers(C)
              /\ s.skip /\ ~s.pending => next = [s EXCEPT !.skip = FALSE]
              /\ ~s.skip /\ s.pending => next = IF c = Quote THEN QuoteWritten(s) ELSE Plain(Closing(s), c, s.field = <<>>)
              /\ ~s.skip /\ ~s.pending /\ ~s.quoted => next = Plain(s, c, s.field = <<>>)
              /\ ~s.skip /\ ~s.pending /\ s.quoted =>
                    next = IF c # Quote THEN Written(s, c)
                           ELSE IF i = Len(text) THEN [s EXCEPT !.pending = TRUE]
                           ELSE IF text[i + 1] = Quote THEN [Written(s, Quote) EXCEPT !.skip = TRUE]
                           ELSE [s EXCEPT !.quoted = FALSE]
<1> DEFINE c == text[i]
           next == ReadPart(s, text, i)
           r == Resolved(s, c)
<1>1. c \in C /\ Len(text) \in Nat /\ i \in Nat /\ i <= Len(text)
    OBVIOUS
<1> HIDE DEF c
<1>2. r = IF s.pending /\ c # Quote THEN Closing(s) ELSE s
    BY DEF Resolved, Closing
<1>3. /\ Closing(s) \in Readers(C) /\ ~Closing(s).quoted /\ ~Closing(s).pending
      /\ Closing(s).skip = s.skip /\ Closing(s).field = s.field
    BY DEF Closing, Readers
<1>4. next = IF r.skip THEN [r EXCEPT !.skip = FALSE]
              ELSE IF r.pending THEN [Written(r, Quote) EXCEPT !.pending = FALSE]
              ELSE IF r.quoted THEN Parted(r, text, i)
              ELSE Plain(r, c, r.field = <<>>)
    BY DEF ReadPart, c
<1>5. r \in Readers(C) /\ (r.pending => c = Quote)
    BY <1>2, <1>3 DEF Readers
<1> HIDE DEF r, next
<1>6. Parted(r, text, i) = IF c # Quote THEN Written(r, c)
                           ELSE IF i = Len(text) THEN [r EXCEPT !.pending = TRUE]
                           ELSE IF text[i + 1] = Quote THEN [Written(r, Quote) EXCEPT !.skip = TRUE]
                           ELSE [r EXCEPT !.quoted = FALSE]
    BY <1>1 DEF Parted, Quoted, Doubled, c
<1>7. /\ Written(r, c) \in Readers(C) /\ Written(r, Quote) \in Readers(C)
      /\ Plain(r, c, r.field = <<>>) \in Readers(C)
    BY <1>1, <1>5, Finished, PlainReads
<1>8. next \in Readers(C)
  <2>1. [Written(r, Quote) EXCEPT !.pending = FALSE] \in Readers(C) /\ [Written(r, Quote) EXCEPT !.skip = TRUE] \in Readers(C)
      BY <1>7 DEF Readers
  <2>2. [r EXCEPT !.skip = FALSE] \in Readers(C) /\ [r EXCEPT !.pending = TRUE] \in Readers(C) /\ [r EXCEPT !.quoted = FALSE] \in Readers(C)
      BY <1>5 DEF Readers
  <2>3. Parted(r, text, i) \in Readers(C)
      BY <1>6, <1>7, <2>1, <2>2
  <2> QED BY <1>4, <1>7, <2>1, <2>2, <2>3
<1>9. ASSUME s.skip, ~s.pending PROVE next = [s EXCEPT !.skip = FALSE]
    BY <1>2, <1>4, <1>9
<1>10. ASSUME ~s.skip, s.pending
       PROVE  next = IF c = Quote THEN QuoteWritten(s) ELSE Plain(Closing(s), c, s.field = <<>>)
  <2>1. CASE c = Quote
    <3>1. r = s
        BY <1>2, <2>1
    <3>2. next = [Written(r, Quote) EXCEPT !.pending = FALSE]
        BY <1>4, <1>10, <3>1
    <3> QED BY <2>1, <3>1, <3>2 DEF QuoteWritten
  <2>2. CASE c # Quote
    <3>1. r = Closing(s)
        BY <1>2, <1>10, <2>2
    <3>2. next = Plain(r, c, r.field = <<>>)
        BY <1>3, <1>4, <1>10, <3>1
    <3> QED BY <1>3, <2>2, <3>1, <3>2
  <2> QED BY <2>1, <2>2
<1>11. ASSUME ~s.skip, ~s.pending, ~s.quoted PROVE next = Plain(s, c, s.field = <<>>)
  <2>1. r = s
      BY <1>2, <1>11
  <2> QED BY <1>4, <1>11, <2>1
<1>12. ASSUME ~s.skip, ~s.pending, s.quoted PROVE r = s /\ next = Parted(r, text, i)
  <2>1. r = s
      BY <1>2, <1>12
  <2> QED BY <1>4, <1>12, <2>1
<1> QED BY <1>6, <1>8, <1>9, <1>10, <1>11, <1>12 DEF c, next

LEMMA NewReads ==
    ASSUME NEW C
    PROVE  NewReader \in Readers(C)
<1>1. <<>> \in Seq(C) /\ <<>> \in Seq(Seq(C)) /\ <<>> \in Seq(Seq(Seq(C)))
    OBVIOUS
<1> QED BY <1>1 DEF NewReader, Readers

Alone(text) ==
    LET t[i \in 0..Len(text)] == IF i = 0 THEN NewReader ELSE ReadPart(t[i - 1], <<text[i]>>, 1)
    IN t

(* A chunk, read from wherever the stream stands.                           *)
LEMMA ChunkReads ==
    ASSUME NEW C, Quote \in C, NEW text \in Seq(C), NEW s \in Readers(C)
    PROVE  \E f \in [0..Len(text) -> Readers(C)] :
              /\ f[0] = s
              /\ \A i \in 1..Len(text) : f[i] = ReadPart(f[i - 1], text, i)
              /\ ReadChunk(s, text) = f[Len(text)]
<1> DEFINE N == Len(text)
           a == s
           U == Readers(C)
           Is(f) == f = [i \in 0..N |-> IF i = 0 THEN a ELSE ReadPart(f[i - 1], text, i)]
           next == [i \in 1..N |-> [r \in U |-> ReadPart(r, text, i)]]
<1>1. ReadChunk(s, text) = (CHOOSE f : Is(f))[N]
    BY DEF ReadChunk
<1>2. N \in Nat /\ a \in U
    OBVIOUS
<1>3. \A i \in 1..N, r \in U : ReadPart(r, text, i) \in U
    BY PartReads
<1>4. next \in [1..N -> [U -> U]]
    BY <1>3
<1>5. \A i \in 1..N, r \in U : next[i][r] = ReadPart(r, text, i)
    OBVIOUS
<1>6. \A i \in 0..N : i # 0 => i \in 1..N /\ i - 1 \in 0..N
    BY <1>2
<1> HIDE DEF next, U, N, a
<1>7. PICK g \in [0..N -> U] : Runs(g, N, a, next)
    BY <1>2, <1>4, Iteration
<1>8. Is(g)
  <2>1. \A i \in 0..N : (IF i = 0 THEN a ELSE next[i][g[i - 1]])
                        = (IF i = 0 THEN a ELSE ReadPart(g[i - 1], text, i))
      BY <1>5, <1>6
  <2> QED BY <1>7, <2>1 DEF Runs
<1>9. PICK f : Is(f) /\ ReadChunk(s, text) = f[N]
  <2> HIDE DEF Is
  <2> QED BY <1>1, <1>8
<1>10. f[0] = a /\ \A i \in 1..N : f[i] = ReadPart(f[i - 1], text, i)
    BY <1>2, <1>9
<1> DEFINE S == {i \in 0..N : f[i] \in U}
<1>11. 0 \in S /\ \A i \in 1..N : i - 1 \in S => i \in S
  <2>1. \A i \in 1..N : i \in 0..N
      BY <1>2
  <2>2. 0 \in S
      BY <1>2, <1>10
  <2>3. ASSUME NEW i \in 1..N, i - 1 \in S PROVE i \in S
    <3>1. f[i - 1] \in U /\ f[i] = ReadPart(f[i - 1], text, i) /\ i \in 0..N
        BY <1>10, <2>1, <2>3
    <3>2. ReadPart(f[i - 1], text, i) \in U
        BY <1>3, <3>1
    <3> QED BY <3>1, <3>2
  <2> QED BY <2>2, <2>3
<1>12. \A i \in 0..N : i \in S
  <2> HIDE DEF S
  <2> QED BY <1>2, <1>11, UpTo
<1>13. f \in [0..N -> U]
    BY <1>9, <1>12
<1> QED BY <1>9, <1>10, <1>13 DEF U, N, a

(* A file in chunks of one character.                                       *)
LEMMA AloneReads ==
    ASSUME NEW C, Quote \in C, NEW text \in Seq(C)
    PROVE  \E f \in [0..Len(text) -> Readers(C)] :
              /\ f[0] = NewReader
              /\ \A i \in 1..Len(text) : f[i] = ReadPart(f[i - 1], <<text[i]>>, 1)
              /\ Alone(text) = f
<1> DEFINE N == Len(text)
           a == NewReader
           U == Readers(C)
           Is(f) == f = [i \in 0..N |-> IF i = 0 THEN a ELSE ReadPart(f[i - 1], <<text[i]>>, 1)]
           next == [i \in 1..N |-> [r \in U |-> ReadPart(r, <<text[i]>>, 1)]]
<1>1. Alone(text) = (CHOOSE f : Is(f))
    BY DEF Alone
<1>2. N \in Nat /\ a \in U
    BY NewReads
<1>3. \A i \in 1..N, r \in U : ReadPart(r, <<text[i]>>, 1) \in U
    <2> SUFFICES ASSUME NEW i \in 1..N, NEW r \in U PROVE ReadPart(r, <<text[i]>>, 1) \in U
      OBVIOUS
  <2>1. text[i] \in C
      OBVIOUS
  <2>2. <<text[i]>> \in Seq(C) /\ Len(<<text[i]>>) = 1 /\ 1 \in 1..1
      BY <2>1
  <2> QED BY <2>2, PartReads
<1>4. next \in [1..N -> [U -> U]]
    BY <1>3
<1>5. \A i \in 1..N, r \in U : next[i][r] = ReadPart(r, <<text[i]>>, 1)
    OBVIOUS
<1>6. \A i \in 0..N : i # 0 => i \in 1..N /\ i - 1 \in 0..N
    BY <1>2
<1> HIDE DEF next, U, N, a
<1>7. PICK g \in [0..N -> U] : Runs(g, N, a, next)
    BY <1>2, <1>4, Iteration
<1>8. Is(g)
  <2>1. \A i \in 0..N : (IF i = 0 THEN a ELSE next[i][g[i - 1]])
                        = (IF i = 0 THEN a ELSE ReadPart(g[i - 1], <<text[i]>>, 1))
      BY <1>5, <1>6
  <2> QED BY <1>7, <2>1 DEF Runs
<1>9. PICK f : Is(f) /\ Alone(text) = f
  <2> HIDE DEF Is
  <2> QED BY <1>1, <1>8
<1>10. f[0] = a /\ \A i \in 1..N : f[i] = ReadPart(f[i - 1], <<text[i]>>, 1)
    BY <1>2, <1>9
<1> DEFINE S == {i \in 0..N : f[i] \in U}
<1>11. 0 \in S /\ \A i \in 1..N : i - 1 \in S => i \in S
  <2>1. \A i \in 1..N : i \in 0..N
      BY <1>2
  <2>2. 0 \in S
      BY <1>2, <1>10
  <2>3. ASSUME NEW i \in 1..N, i - 1 \in S PROVE i \in S
    <3>1. f[i - 1] \in U /\ f[i] = ReadPart(f[i - 1], <<text[i]>>, 1) /\ i \in 0..N
        BY <1>10, <2>1, <2>3
    <3>2. ReadPart(f[i - 1], <<text[i]>>, 1) \in U
        BY <1>3, <3>1
    <3> QED BY <3>1, <3>2
  <2> QED BY <2>2, <2>3
<1>12. \A i \in 0..N : i \in S
  <2> HIDE DEF S
  <2> QED BY <1>2, <1>11, UpTo
<1>13. f \in [0..N -> U]
    BY <1>9, <1>12
<1> QED BY <1>9, <1>10, <1>13 DEF U, N, a

(* A file in one piece, by the reader of whole files.                       *)
LEMMA WholeReads ==
    ASSUME NEW C, Quote \in C, NEW text \in Seq(C)
    PROVE  \E f \in [0..Len(text) -> Readers(C)] :
              /\ f[0] = NewReader
              /\ \A i \in 1..Len(text) : f[i] = ReadWhole(f[i - 1], text, i)
              /\ ParseCsv(text) = Rest(f[Len(text)]).rows
<1> DEFINE N == Len(text)
           a == NewReader
           U == Readers(C)
           Is(f) == f = [i \in 0..N |-> IF i = 0 THEN a ELSE ReadWhole(f[i - 1], text, i)]
           next == [i \in 1..N |-> [r \in U |-> ReadWhole(r, text, i)]]
<1>1. ParseCsv(text) = Rest((CHOOSE f : Is(f))[N]).rows
    BY DEF ParseCsv
<1>2. N \in Nat /\ a \in U
    BY NewReads
<1>3. \A i \in 1..N, r \in U : ReadWhole(r, text, i) \in U
    <2> SUFFICES ASSUME NEW i \in 1..N, NEW r \in U PROVE ReadWhole(r, text, i) \in U
      OBVIOUS
  <2>1. text[i] \in C
      OBVIOUS
  <2>2. Written(r, text[i]) \in U /\ Written(r, Quote) \in U /\ Plain(r, text[i], TRUE) \in U
      BY <2>1, Finished, PlainReads
  <2>3. [Written(r, Quote) EXCEPT !.skip = TRUE] \in U /\ [r EXCEPT !.skip = FALSE] \in U /\ [r EXCEPT !.quoted = FALSE] \in U
      BY <2>2 DEF Readers
  <2> QED BY <2>2, <2>3 DEF ReadWhole, Quoted
<1>4. next \in [1..N -> [U -> U]]
    BY <1>3
<1>5. \A i \in 1..N, r \in U : next[i][r] = ReadWhole(r, text, i)
    OBVIOUS
<1>6. \A i \in 0..N : i # 0 => i \in 1..N /\ i - 1 \in 0..N
    BY <1>2
<1> HIDE DEF next, U, N, a
<1>7. PICK g \in [0..N -> U] : Runs(g, N, a, next)
    BY <1>2, <1>4, Iteration
<1>8. Is(g)
  <2>1. \A i \in 0..N : (IF i = 0 THEN a ELSE next[i][g[i - 1]])
                        = (IF i = 0 THEN a ELSE ReadWhole(g[i - 1], text, i))
      BY <1>5, <1>6
  <2> QED BY <1>7, <2>1 DEF Runs
<1>9. PICK f : Is(f) /\ ParseCsv(text) = Rest(f[N]).rows
  <2> HIDE DEF Is
  <2> QED BY <1>1, <1>8
<1>10. f[0] = a /\ \A i \in 1..N : f[i] = ReadWhole(f[i - 1], text, i)
    BY <1>2, <1>9
<1> DEFINE S == {i \in 0..N : f[i] \in U}
<1>11. 0 \in S /\ \A i \in 1..N : i - 1 \in S => i \in S
  <2>1. \A i \in 1..N : i \in 0..N
      BY <1>2
  <2>2. 0 \in S
      BY <1>2, <1>10
  <2>3. ASSUME NEW i \in 1..N, i - 1 \in S PROVE i \in S
    <3>1. f[i - 1] \in U /\ f[i] = ReadWhole(f[i - 1], text, i) /\ i \in 0..N
        BY <1>10, <2>1, <2>3
    <3>2. ReadWhole(f[i - 1], text, i) \in U
        BY <1>3, <3>1
    <3> QED BY <3>1, <3>2
  <2> QED BY <2>2, <2>3
<1>12. \A i \in 0..N : i \in S
  <2> HIDE DEF S
  <2> QED BY <1>2, <1>11, UpTo
<1>13. f \in [0..N -> U]
    BY <1>9, <1>12
<1> QED BY <1>9, <1>10, <1>13 DEF U, N, a

Expectations == {"start", "plain", "quoted", "closed", "ended", "bad"}

(* What a well-formed file may go on with.                                  *)
LEMMA Expects ==
    ASSUME NEW C, Quote \in C, NEW text \in Seq(C)
    PROVE  \E f \in [0..Len(text) -> Expectations] :
              /\ f[0] = "start"
              /\ \A i \in 1..Len(text) : f[i] = Expecting(f[i - 1], text[i])
              /\ WellFormed(text) = (f[Len(text)] \notin {"quoted", "bad"})
<1> DEFINE N == Len(text)
           a == "start"
           U == Expectations
           Is(f) == f = [i \in 0..N |-> IF i = 0 THEN a ELSE Expecting(f[i - 1], text[i])]
           next == [i \in 1..N |-> [r \in U |-> Expecting(r, text[i])]]
<1>1. WellFormed(text) = ((CHOOSE f : Is(f))[N] \notin {"quoted", "bad"})
    BY DEF WellFormed
<1>2. N \in Nat /\ a \in U
    BY DEF Expectations
<1>3. \A i \in 1..N, r \in U : Expecting(r, text[i]) \in U
    BY DEF Expecting, Expectations
<1>4. next \in [1..N -> [U -> U]]
    BY <1>3
<1>5. \A i \in 1..N, r \in U : next[i][r] = Expecting(r, text[i])
    OBVIOUS
<1>6. \A i \in 0..N : i # 0 => i \in 1..N /\ i - 1 \in 0..N
    BY <1>2
<1> HIDE DEF next, U, N, a
<1>7. PICK g \in [0..N -> U] : Runs(g, N, a, next)
    BY <1>2, <1>4, Iteration
<1>8. Is(g)
  <2>1. \A i \in 0..N : (IF i = 0 THEN a ELSE next[i][g[i - 1]])
                        = (IF i = 0 THEN a ELSE Expecting(g[i - 1], text[i]))
      BY <1>5, <1>6
  <2> QED BY <1>7, <2>1 DEF Runs
<1>9. PICK f : Is(f) /\ WellFormed(text) = (f[N] \notin {"quoted", "bad"})
  <2> HIDE DEF Is
  <2> QED BY <1>1, <1>8
<1>10. f[0] = a /\ \A i \in 1..N : f[i] = Expecting(f[i - 1], text[i])
    BY <1>2, <1>9
<1> DEFINE S == {i \in 0..N : f[i] \in U}
<1>11. 0 \in S /\ \A i \in 1..N : i - 1 \in S => i \in S
  <2>1. \A i \in 1..N : i \in 0..N
      BY <1>2
  <2>2. 0 \in S
      BY <1>2, <1>10
  <2>3. ASSUME NEW i \in 1..N, i - 1 \in S PROVE i \in S
    <3>1. f[i - 1] \in U /\ f[i] = Expecting(f[i - 1], text[i]) /\ i \in 0..N
        BY <1>10, <2>1, <2>3
    <3>2. Expecting(f[i - 1], text[i]) \in U
        BY <1>3, <3>1
    <3> QED BY <3>1, <3>2
  <2> QED BY <2>2, <2>3
<1>12. \A i \in 0..N : i \in S
  <2> HIDE DEF S
  <2> QED BY <1>2, <1>11, UpTo
<1>13. f \in [0..N -> U]
    BY <1>9, <1>12
<1> QED BY <1>9, <1>10, <1>13 DEF U, N, a

(* One character on its own: a stream never waits to skip between chunks.   *)
LEMMA AloneStep ==
    ASSUME NEW C, Quote \in C, NEW s \in Readers(C), Calm(s), NEW c \in C
    PROVE  LET next == ReadPart(s, <<c>>, 1) IN
           /\ next \in Readers(C) /\ Calm(next) /\ next.failed = s.failed
           /\ s.pending => next = IF c = Quote THEN QuoteWritten(s) ELSE Plain(Closing(s), c, s.field = <<>>)
           /\ ~s.pending /\ ~s.quoted => next = Plain(s, c, s.field = <<>>)
           /\ ~s.pending /\ s.quoted => next = IF c # Quote THEN Written(s, c) ELSE [s EXCEPT !.pending = TRUE]
<1> DEFINE text == <<c>>
           next == ReadPart(s, text, 1)
<1>1. text \in Seq(C) /\ Len(text) = 1 /\ text[1] = c /\ 1 \in 1..Len(text)
    OBVIOUS
<1> HIDE DEF text
<1>2. /\ next \in Readers(C)
      /\ s.pending => next = IF c = Quote THEN QuoteWritten(s) ELSE Plain(Closing(s), c, s.field = <<>>)
      /\ ~s.pending /\ ~s.quoted => next = Plain(s, c, s.field = <<>>)
      /\ ~s.pending /\ s.quoted => next = IF c # Quote THEN Written(s, c) ELSE [s EXCEPT !.pending = TRUE]
  <2> PICK j \in 1..Len(text) : j = 1
      BY <1>1
  <2>1. \A r \in Readers(C) :
           /\ ReadPart(r, text, j) \in Readers(C)
           /\ ~r.skip /\ r.pending => ReadPart(r, text, j) = IF text[j] = Quote THEN QuoteWritten(r) ELSE Plain(Closing(r), text[j], r.field = <<>>)
           /\ ~r.skip /\ ~r.pending /\ ~r.quoted => ReadPart(r, text, j) = Plain(r, text[j], r.field = <<>>)
           /\ ~r.skip /\ ~r.pending /\ r.quoted =>
                 ReadPart(r, text, j) = IF text[j] # Quote THEN Written(r, text[j])
                                        ELSE IF j = Len(text) THEN [r EXCEPT !.pending = TRUE]
                                        ELSE IF text[j + 1] = Quote THEN [Written(r, Quote) EXCEPT !.skip = TRUE]
                                        ELSE [r EXCEPT !.quoted = FALSE]
      BY <1>1, PartReads, SMTT(30)
  <2>2. ~s.skip
      BY DEF Calm
  <2>3. ReadPart(s, text, j) = next /\ text[j] = c /\ j = Len(text)
      BY <1>1
  <2> HIDE DEF next
  <2> QED BY <2>1, <2>2, <2>3
<1> HIDE DEF next
<1> PICK opens \in BOOLEAN : opens = (s.field = <<>>)
    OBVIOUS
<1>3. Closing(s) \in Readers(C) /\ ~Closing(s).pending /\ Closing(s).skip = s.skip /\ Closing(s).failed = s.failed
    BY DEF Closing, Readers
<1>4. Calm(next) /\ next.failed = s.failed
  <2>1. CASE s.pending /\ c = Quote
      BY <1>2, <2>1 DEF QuoteWritten, Written, Calm, Readers
  <2>2. CASE s.pending /\ c # Quote
    <3>1. next = Plain(Closing(s), c, opens)
        BY <1>2, <2>2
    <3> DEFINE d == Closing(s)
    <3>8. d \in Readers(C)
        BY <1>3
    <3> HIDE DEF d
    <3>9. Plain(d, c, opens).skip = d.skip /\ Plain(d, c, opens).pending = d.pending /\ Plain(d, c, opens).failed = d.failed
        BY <3>8, PlainReads, ZenonT(60)
    <3>2. next.skip = Closing(s).skip /\ next.pending = Closing(s).pending /\ next.failed = Closing(s).failed
        BY <3>1, <3>9 DEF d
    <3> QED BY <1>3, <3>2 DEF Calm
  <2>3. CASE ~s.pending /\ ~s.quoted
    <3>1. next = Plain(s, c, opens)
        BY <1>2, <2>3
    <3> DEFINE d == s
    <3>8. d \in Readers(C)
        OBVIOUS
    <3> HIDE DEF d
    <3>9. Plain(d, c, opens).skip = d.skip /\ Plain(d, c, opens).pending = d.pending /\ Plain(d, c, opens).failed = d.failed
        BY <3>8, PlainReads, ZenonT(60)
    <3>2. next.skip = s.skip /\ next.pending = s.pending /\ next.failed = s.failed
        BY <3>1, <3>9 DEF d
    <3> QED BY <2>3, <3>2 DEF Calm
  <2>4. CASE ~s.pending /\ s.quoted
      BY <1>2, <2>4 DEF Written, Calm, Readers
  <2> QED BY <2>1, <2>2, <2>3, <2>4
<1> QED BY <1>2, <1>4 DEF next, text

(* What a reader that looks ahead makes of a quote a stream still waits on. *)
Ahead(s, text, i) ==
    IF ~s.pending THEN s
    ELSE IF Doubled(s, text, i) THEN [Written(s, Quote) EXCEPT !.pending = FALSE, !.skip = TRUE]
    ELSE Closing(s)

LEMMA AheadIs ==
    ASSUME NEW C, Quote \in C, NEW s \in Readers(C), Calm(s), NEW text, NEW i \in Nat
    PROVE  /\ Ahead(s, text, i) \in Readers(C)
           /\ s.pending /\ Doubled(s, text, i) =>
                 /\ Ahead(s, text, i).skip /\ ~Ahead(s, text, i).pending
                 /\ [Ahead(s, text, i) EXCEPT !.skip = FALSE] = QuoteWritten(s)
           /\ s.pending /\ ~Doubled(s, text, i) => Ahead(s, text, i) = Closing(s)
           /\ ~s.pending => Ahead(s, text, i) = s
           /\ ~s.pending /\ s.quoted =>
                 LET waits == [s EXCEPT !.pending = TRUE]
                 IN /\ Doubled(waits, text, i) => Ahead(waits, text, i) = [Written(s, Quote) EXCEPT !.skip = TRUE]
                    /\ ~Doubled(waits, text, i) => Ahead(waits, text, i) = [s EXCEPT !.quoted = FALSE]
<1> DEFINE a == Ahead(s, text, i)
           w == Written(s, Quote)
<1>1. w \in Readers(C)
    BY Finished
<1>2. w.skip = s.skip /\ w.quoted = s.quoted /\ w.pending = s.pending
    BY DEF Written, Readers
<1>3. Closing(s) \in Readers(C)
    BY DEF Closing, Readers
<1>4. [w EXCEPT !.pending = FALSE, !.skip = TRUE] \in Readers(C)
    BY <1>1 DEF Readers
<1>5. a \in Readers(C)
    BY <1>3, <1>4 DEF Ahead
<1>6. ASSUME s.pending, Doubled(s, text, i)
      PROVE  a.skip /\ ~a.pending /\ [a EXCEPT !.skip = FALSE] = QuoteWritten(s)
  <2>1. a = [w EXCEPT !.pending = FALSE, !.skip = TRUE]
      BY <1>6 DEF Ahead
  <2>2. QuoteWritten(s) = [w EXCEPT !.pending = FALSE]
      BY DEF QuoteWritten
  <2> HIDE DEF a, w
  <2>3. ~w.skip
      BY <1>2 DEF Calm
  <2> QED BY <1>1, <2>1, <2>2, <2>3 DEF Readers
<1>7. ASSUME ~s.pending, s.quoted
      PROVE  LET waits == [s EXCEPT !.pending = TRUE]
             IN /\ Doubled(waits, text, i) => Ahead(waits, text, i) = [Written(s, Quote) EXCEPT !.skip = TRUE]
                /\ ~Doubled(waits, text, i) => Ahead(waits, text, i) = [s EXCEPT !.quoted = FALSE]
  <2> DEFINE waits == [s EXCEPT !.pending = TRUE]
  <2>1. waits.pending /\ waits \in Readers(C)
      BY DEF Readers
  <2>2. [Written(waits, Quote) EXCEPT !.pending = FALSE, !.skip = TRUE] = [w EXCEPT !.skip = TRUE]
      BY <1>7 DEF Written, Readers
  <2>3. Closing(waits) = [s EXCEPT !.quoted = FALSE]
      BY <1>7 DEF Closing, Readers
  <2> HIDE DEF waits
  <2>4. /\ Doubled(waits, text, i) => Ahead(waits, text, i) = [w EXCEPT !.skip = TRUE]
        /\ ~Doubled(waits, text, i) => Ahead(waits, text, i) = [s EXCEPT !.quoted = FALSE]
      BY <2>1, <2>2, <2>3 DEF Ahead
  <2> QED BY <2>4 DEF waits
<1>8. ~s.pending => Ahead(s, text, i) = s
    BY DEF Ahead
<1>9. s.pending /\ ~Doubled(s, text, i) => Ahead(s, text, i) = Closing(s)
    BY DEF Ahead
<1> QED BY <1>5, <1>6, <1>7, <1>8, <1>9

(* Read in one piece or character by character, a chunk comes to the same.  *)
LEMMA InOnePiece ==
    ASSUME NEW C, Quote \in C, NEW text \in Seq(C), NEW t \in [0..Len(text) -> Readers(C)], Calm(t[0]),
           \A i \in 1..Len(text) : t[i] = ReadPart(t[i - 1], <<text[i]>>, 1)
    PROVE  ReadChunk(t[0], text) = t[Len(text)]
<1> DEFINE N == Len(text)
<1>1. N \in Nat /\ 0 \in 0..N /\ t[0] \in Readers(C)
    OBVIOUS
<1>2. PICK f \in [0..N -> Readers(C)] : /\ f[0] = t[0]
                                        /\ \A i \in 1..N : f[i] = ReadPart(f[i - 1], text, i)
                                        /\ ReadChunk(t[0], text) = f[N]
    BY <1>1, ChunkReads
<1> DEFINE S == {i \in 0..N : Calm(t[i]) /\ (f[i] = t[i] \/ (i < N /\ f[i] = Ahead(t[i], text, i)))}
<1>3. 0 \in S
    BY <1>1, <1>2
<1>4. ASSUME NEW i \in 1..N, i - 1 \in S PROVE i \in S
  <2> DEFINE s == t[i - 1]
             c == text[i]
             next == ReadPart(s, <<c>>, 1)
  <2>1. /\ i \in 0..N /\ i - 1 \in 0..N /\ i \in Nat /\ i - 1 \in Nat
        /\ c \in C /\ s \in Readers(C) /\ Calm(s) /\ t[i] = next
        /\ (i - 1) + 1 = i /\ i - 1 < N
    <3>1. i \in 0..N /\ i - 1 \in 0..N /\ i \in Nat /\ i - 1 \in Nat /\ (i - 1) + 1 = i /\ i - 1 < N
        BY <1>1
    <3>2. c \in C /\ s \in Readers(C)
        BY <3>1
    <3>3. Calm(s)
        BY <1>4
    <3>4. t[i] = next
        OBVIOUS
    <3> QED BY <3>1, <3>2, <3>3, <3>4
  <2> HIDE DEF N
  <2>2. /\ next \in Readers(C) /\ Calm(next)
        /\ s.pending => next = IF c = Quote THEN QuoteWritten(s) ELSE Plain(Closing(s), c, s.field = <<>>)
        /\ ~s.pending /\ ~s.quoted => next = Plain(s, c, s.field = <<>>)
        /\ ~s.pending /\ s.quoted => next = IF c # Quote THEN Written(s, c) ELSE [s EXCEPT !.pending = TRUE]
      BY <2>1, AloneStep
  <2>3. f[i] = ReadPart(f[i - 1], text, i) /\ i \in 1..Len(text)
      BY <1>2 DEF N
  <2>4. \A r \in Readers(C) :
           /\ r.skip /\ ~r.pending => ReadPart(r, text, i) = [r EXCEPT !.skip = FALSE]
           /\ ~r.skip /\ r.pending => ReadPart(r, text, i) = IF c = Quote THEN QuoteWritten(r) ELSE Plain(Closing(r), c, r.field = <<>>)
           /\ ~r.skip /\ ~r.pending /\ ~r.quoted => ReadPart(r, text, i) = Plain(r, c, r.field = <<>>)
           /\ ~r.skip /\ ~r.pending /\ r.quoted =>
                 ReadPart(r, text, i) = IF c # Quote THEN Written(r, c)
                                        ELSE IF i = Len(text) THEN [r EXCEPT !.pending = TRUE]
                                        ELSE IF text[i + 1] = Quote THEN [Written(r, Quote) EXCEPT !.skip = TRUE]
                                        ELSE [r EXCEPT !.quoted = FALSE]
      BY <2>3, PartReads
  <2> HIDE DEF s, c, next
  <2>5. f[i] = next \/ (i < N /\ f[i] = Ahead(next, text, i))
    <3>1. CASE f[i - 1] = s
      <4>1. CASE s.pending
          BY <2>1, <2>2, <2>3, <2>4, <3>1, <4>1 DEF Calm
      <4>2. CASE ~s.pending /\ ~s.quoted
          BY <2>1, <2>2, <2>3, <2>4, <3>1, <4>2 DEF Calm
      <4>3. CASE ~s.pending /\ s.quoted /\ c # Quote
          BY <2>1, <2>2, <2>3, <2>4, <3>1, <4>3 DEF Calm
      <4>4. CASE ~s.pending /\ s.quoted /\ c = Quote
        <5>1. next = [s EXCEPT !.pending = TRUE]
            BY <2>2, <4>4
        <5>2. f[i] = IF i = Len(text) THEN [s EXCEPT !.pending = TRUE]
                     ELSE IF text[i + 1] = Quote THEN [Written(s, Quote) EXCEPT !.skip = TRUE]
                     ELSE [s EXCEPT !.quoted = FALSE]
            BY <2>1, <2>3, <2>4, <3>1, <4>4 DEF Calm
        <5>3. CASE i = N
            BY <5>1, <5>2, <5>3 DEF N
        <5>4. CASE i # N
          <6>1. i < N /\ i < Len(text)
              BY <2>3, <5>4 DEF N
          <6>2. /\ Doubled(next, text, i) => Ahead(next, text, i) = [Written(s, Quote) EXCEPT !.skip = TRUE]
                /\ ~Doubled(next, text, i) => Ahead(next, text, i) = [s EXCEPT !.quoted = FALSE]
              BY <2>1, <4>4, <5>1, AheadIs
          <6>3. Doubled(next, text, i) <=> text[i + 1] = Quote
              BY <6>1 DEF Doubled
          <6> QED BY <5>2, <5>4, <6>1, <6>2, <6>3 DEF N
        <5> QED BY <5>3, <5>4
      <4> QED BY <4>1, <4>2, <4>3, <4>4
    <3>2. CASE f[i - 1] = Ahead(s, text, i - 1) /\ s.pending
      <4>1. Doubled(s, text, i - 1) <=> c = Quote
          BY <2>1 DEF Doubled, c, N
      <4> DEFINE a == Ahead(s, text, i - 1)
      <4>2. /\ a \in Readers(C)
            /\ Doubled(s, text, i - 1) => a.skip /\ ~a.pending /\ [a EXCEPT !.skip = FALSE] = QuoteWritten(s)
            /\ ~Doubled(s, text, i - 1) => a = Closing(s)
          BY <2>1, <3>2, AheadIs, SMTT(30)
      <4>3. CASE c = Quote
          BY <2>2, <2>3, <2>4, <3>2, <4>1, <4>2, <4>3
      <4>4. CASE c # Quote
        <5>1. ~Closing(s).skip /\ ~Closing(s).pending /\ ~Closing(s).quoted /\ Closing(s).field = s.field
            BY <2>1 DEF Closing, Calm, Readers
        <5>2. a = Closing(s) /\ a \in Readers(C)
            BY <4>1, <4>2, <4>4
        <5>3. ReadPart(a, text, i) = Plain(a, c, a.field = <<>>)
            BY <2>4, <5>1, <5>2
        <5> QED BY <2>2, <2>3, <3>2, <4>4, <5>1, <5>2, <5>3
      <4> QED BY <4>3, <4>4
    <3>3. CASE f[i - 1] = Ahead(s, text, i - 1) /\ ~s.pending
        BY <3>1, <3>3 DEF Ahead
    <3> QED BY <1>4, <3>1, <3>2, <3>3 DEF s
  <2> QED BY <2>1, <2>2, <2>5
<1>5. \A i \in 0..N : i \in S
  <2> HIDE DEF S, N
  <2> QED BY <1>1, <1>3, <1>4, UpTo
<1>6. N \in 0..N /\ ~(N < N)
    BY <1>1
<1> QED BY <1>2, <1>5, <1>6

(* Where nothing was bad so far, the reader of whole files is where a       *)
(* stream is that was told what follows a quote it waits on.                *)
Agree(s, g, w, text, i) ==
    /\ g = Ahead(s, text, i)
    /\ ~s.skip /\ ~s.failed
    /\ w \in {"start", "plain", "ended"} => ~s.quoted /\ ~s.pending
    /\ w = "start" => s.field = <<>>
    /\ w = "quoted" => s.quoted /\ ~s.pending
    /\ w = "closed" => s.quoted /\ s.pending

LEMMA AgreeStep ==
    ASSUME NEW C, Quote \in C, NEW text \in Seq(C), NEW i \in 1..Len(text), NEW s \in Readers(C),
           NEW g, NEW w \in Expectations, w # "bad", Agree(s, g, w, text, i - 1), Expecting(w, text[i]) # "bad"
    PROVE  Agree(ReadPart(s, <<text[i]>>, 1), ReadWhole(g, text, i), Expecting(w, text[i]), text, i)
<1> DEFINE c == text[i]
           next == ReadPart(s, <<c>>, 1)
           v == Expecting(w, c)
<1>1. c \in C /\ i \in Nat /\ i - 1 \in Nat /\ (i - 1) + 1 = i /\ i - 1 < Len(text) /\ Calm(s)
    BY DEF Calm, Agree, Expectations
<1> HIDE DEF c
<1>2. /\ next \in Readers(C) /\ Calm(next) /\ next.failed = s.failed
      /\ s.pending => next = IF c = Quote THEN QuoteWritten(s) ELSE Plain(Closing(s), c, s.field = <<>>)
      /\ ~s.pending /\ ~s.quoted => next = Plain(s, c, s.field = <<>>)
      /\ ~s.pending /\ s.quoted => next = IF c # Quote THEN Written(s, c) ELSE [s EXCEPT !.pending = TRUE]
    BY <1>1, AloneStep
<1>3. v # "bad" /\ v = IF w = "quoted" THEN IF c = Quote THEN "closed" ELSE w
                       ELSE IF c = Quote THEN IF w \in {"start", "closed"} THEN "quoted" ELSE "bad"
                       ELSE IF c \in {Comma, NewLine} THEN "start"
                       ELSE IF c = Return THEN IF w = "closed" THEN "ended" ELSE w
                       ELSE IF w \in {"closed", "ended"} THEN "bad" ELSE "plain"
    BY DEF Expecting, c
<1>4. ReadWhole(g, text, i) = IF g.skip THEN [g EXCEPT !.skip = FALSE]
                              ELSE IF g.quoted
                              THEN IF c # Quote THEN Written(g, c)
                                   ELSE IF Doubled(g, text, i) THEN [Written(g, Quote) EXCEPT !.skip = TRUE]
                                   ELSE [g EXCEPT !.quoted = FALSE]
                              ELSE Plain(g, c, TRUE)
    BY DEF ReadWhole, Quoted, c
<1>5. Quote # Comma /\ Quote # NewLine /\ Quote # Return /\ Comma # NewLine /\ Comma # Return /\ NewLine # Return
    BY DEF Quote, Comma, NewLine, Return
<1>6. ~s.skip /\ ~s.failed /\ g = Ahead(s, text, i - 1) /\ (~s.pending => g = s)
    BY DEF Agree, Ahead
<1> HIDE DEF next, v
<1>7. ~next.skip /\ ~next.failed /\ (~next.pending => Ahead(next, text, i) = next)
  <2>1. ~next.skip
      BY <1>2 DEF Calm
  <2> QED BY <1>2, <1>6, <2>1 DEF Ahead
<1>8. SUFFICES Agree(next, ReadWhole(g, text, i), v, text, i)
    BY DEF next, v, c
<1>9. \A r \in Readers(C), opens \in BOOLEAN :
         /\ Plain(r, c, opens).pending = r.pending
         /\ c # Quote => Plain(r, c, opens).quoted = r.quoted
         /\ c \in {Comma, NewLine} => Plain(r, c, opens).field = <<>>
         /\ c = Return => Plain(r, c, opens) = r
         /\ c # Quote => Plain(r, c, opens) = Plain(r, c, TRUE)
  <2> TAKE r \in Readers(C), opens \in BOOLEAN
  <2> DEFINE d == r
             p == Plain(d, c, opens)
  <2>1. d \in Readers(C)
      OBVIOUS
  <2> HIDE DEF d
  <2>2. /\ Plain(d, c, opens) \in Readers(C)
        /\ Plain(d, c, opens).skip = d.skip /\ Plain(d, c, opens).pending = d.pending
        /\ Plain(d, c, opens).failed = d.failed
        /\ c # Quote => Plain(d, c, opens).quoted = d.quoted
        /\ c = Return => Plain(d, c, opens) = d
        /\ c # Quote => Plain(d, c, opens) = Plain(d, c, TRUE)
      BY <1>1, <2>1, PlainReads, ZenonT(60)
  <2>3. p.pending = d.pending /\ (c # Quote => p.quoted = d.quoted)
      BY <2>2
  <2>4. ASSUME c \in {Comma, NewLine} PROVE p.field = <<>>
    <3>1. p = FinishField(d) \/ p = FinishRow(d)
        BY <1>5, <2>4 DEF Plain
    <3>2. FinishField(d).field = <<>> /\ FinishRow(d).field = <<>>
        BY <2>1 DEF FinishField, FinishRow, Readers
    <3> QED BY <3>1, <3>2
  <2>5. c = Return => p = d
      BY <2>2
  <2>6. c # Quote => p = Plain(d, c, TRUE)
      BY <2>2
  <2> QED BY <2>3, <2>4, <2>5, <2>6 DEF d
<1> PICK opens \in BOOLEAN : opens = (s.field = <<>>)
    OBVIOUS
<1>10. CASE w \in {"start", "plain", "ended"} /\ c # Quote
  <2>1. ~s.quoted /\ ~s.pending /\ g = s /\ (w = "start" => s.field = <<>>)
      BY <1>6, <1>10 DEF Agree
  <2>2. next = Plain(s, c, opens) /\ next = Plain(s, c, TRUE)
      BY <1>2, <1>9, <1>10, <2>1
  <2>3. ReadWhole(g, text, i) = next
      BY <1>4, <1>6, <2>1, <2>2
  <2>4. ~next.quoted /\ ~next.pending
      BY <1>9, <1>10, <2>1, <2>2
  <2>5. v \in {"start", "plain", "ended"} /\ (v = "start" => c \in {Comma, NewLine} \/ (c = Return /\ w = "start"))
      BY <1>3, <1>10
  <2>6. v = "start" => next.field = <<>>
    <3>1. c \in {Comma, NewLine} => next.field = <<>>
        BY <1>9, <2>2
    <3>2. c = Return => next = s
        BY <1>9, <2>2
    <3> QED BY <2>1, <2>5, <3>1, <3>2
  <2> QED BY <1>7, <2>3, <2>4, <2>5, <2>6 DEF Agree
<1>11. CASE w = "start" /\ c = Quote
  <2>1. ~s.quoted /\ ~s.pending /\ g = s /\ s.field = <<>>
      BY <1>6, <1>11 DEF Agree
  <2>2. next = Plain(s, c, TRUE)
      BY <1>2, <2>1
  <2>3. Plain(s, c, TRUE) = [s EXCEPT !.quoted = TRUE]
      BY <1>5, <1>11 DEF Plain
  <2>4. next.quoted /\ next.pending = s.pending
      BY <2>2, <2>3 DEF Readers
  <2>5. ReadWhole(g, text, i) = next
      BY <1>4, <1>6, <2>1, <2>2
  <2>6. v = "quoted"
      BY <1>3, <1>11
  <2> QED BY <1>7, <2>1, <2>4, <2>5, <2>6 DEF Agree
<1>12. CASE w = "quoted" /\ c # Quote
  <2>1. s.quoted /\ ~s.pending /\ g = s
      BY <1>6, <1>12 DEF Agree
  <2>2. next = Written(s, c)
      BY <1>2, <1>12, <2>1
  <2>3. next.quoted /\ ~next.pending
      BY <2>1, <2>2 DEF Written, Readers
  <2>4. ReadWhole(g, text, i) = next
      BY <1>4, <1>6, <1>12, <2>1, <2>2
  <2>5. v = "quoted"
      BY <1>3, <1>12
  <2> QED BY <1>7, <2>3, <2>4, <2>5 DEF Agree
<1>13. CASE w = "quoted" /\ c = Quote
  <2>1. s.quoted /\ ~s.pending /\ g = s
      BY <1>6, <1>13 DEF Agree
  <2>2. next = [s EXCEPT !.pending = TRUE]
      BY <1>2, <1>13, <2>1
  <2>3. next.quoted /\ next.pending
      BY <2>1, <2>2 DEF Readers
  <2>4. /\ Doubled(next, text, i) => Ahead(next, text, i) = [Written(s, Quote) EXCEPT !.skip = TRUE]
        /\ ~Doubled(next, text, i) => Ahead(next, text, i) = [s EXCEPT !.quoted = FALSE]
      BY <1>1, <2>1, <2>2, AheadIs
  <2>5. Doubled(next, text, i) <=> Doubled(g, text, i)
      BY DEF Doubled
  <2>6. ReadWhole(g, text, i) = Ahead(next, text, i)
      BY <1>4, <1>6, <1>13, <2>1, <2>4, <2>5
  <2>7. v = "closed"
      BY <1>3, <1>13
  <2> QED BY <1>7, <2>3, <2>6, <2>7 DEF Agree
<1>14. CASE w = "closed"
  <2>1. s.quoted /\ s.pending
      BY <1>14 DEF Agree
  <2>2. Doubled(s, text, i - 1) <=> c = Quote
      BY <1>1 DEF Doubled, c
  <2>3. /\ g \in Readers(C)
        /\ Doubled(s, text, i - 1) => g.skip /\ ~g.pending /\ [g EXCEPT !.skip = FALSE] = QuoteWritten(s)
        /\ ~Doubled(s, text, i - 1) => g = Closing(s)
      BY <1>1, <1>6, <2>1, AheadIs
  <2>4. CASE c = Quote
    <3>1. next = QuoteWritten(s) /\ ReadWhole(g, text, i) = next
        BY <1>2, <1>4, <2>1, <2>2, <2>3, <2>4
    <3>2. next.quoted /\ ~next.pending
        BY <2>1, <3>1 DEF QuoteWritten, Written, Readers
    <3>3. v = "quoted"
        BY <1>3, <1>14, <2>4
    <3> QED BY <1>7, <3>1, <3>2, <3>3 DEF Agree
  <2>5. CASE c # Quote
    <3>1. g = Closing(s)
        BY <2>2, <2>3, <2>5
    <3>2. ~g.skip /\ ~g.pending /\ ~g.quoted
        BY <1>6, <3>1 DEF Closing, Readers
    <3>3. next = Plain(g, c, opens)
        BY <1>2, <2>1, <2>5, <3>1
    <3>4. next = Plain(g, c, TRUE)
        BY <1>9, <2>3, <2>5, <3>3
    <3>5. ReadWhole(g, text, i) = next
        BY <1>4, <3>2, <3>4
    <3>6. ~next.quoted /\ ~next.pending
        BY <1>9, <2>3, <2>5, <3>2, <3>3
    <3>7. v \in {"start", "ended"} /\ (v = "start" => c \in {Comma, NewLine})
        BY <1>3, <1>14, <2>5
    <3>8. v = "start" => next.field = <<>>
        BY <1>9, <2>3, <3>3, <3>7
    <3> QED BY <1>7, <3>5, <3>6, <3>7, <3>8 DEF Agree
  <2> QED BY <2>4, <2>5
<1>15. ~(w \in {"plain", "ended"} /\ c = Quote)
    BY <1>3
<1> QED BY <1>10, <1>11, <1>12, <1>13, <1>14, <1>15 DEF Expectations

(* Where a stream is after every character of a file.                       *)
LEMMA Streams ==
    ASSUME NEW C, Quote \in C, NEW text \in Seq(C)
    PROVE  /\ Alone(text) \in [0..Len(text) -> Readers(C)] /\ Alone(text)[0] = NewReader
           /\ \A i \in 1..Len(text) : Alone(text)[i] = ReadPart(Alone(text)[i - 1], <<text[i]>>, 1)
           /\ \A i \in 0..Len(text) : Calm(Alone(text)[i])
<1> DEFINE t == Alone(text)
           N == Len(text)
           S == {i \in 0..N : Calm(t[i])}
<1>1. /\ t \in [0..N -> Readers(C)] /\ t[0] = NewReader
      /\ \A i \in 1..N : t[i] = ReadPart(t[i - 1], <<text[i]>>, 1)
    BY AloneReads
<1>2. N \in Nat /\ \A i \in 1..N : i \in 0..N /\ i - 1 \in 0..N /\ text[i] \in C
    OBVIOUS
<1> HIDE DEF t, N
<1>3. 0 \in S
    BY <1>1, <1>2 DEF Calm, NewReader
<1>4. ASSUME NEW i \in 1..N, i - 1 \in S PROVE i \in S
  <2> DEFINE s == t[i - 1]
             c == text[i]
  <2>1. s \in Readers(C) /\ Calm(s) /\ c \in C /\ t[i] = ReadPart(s, <<c>>, 1)
      BY <1>1, <1>2, <1>4
  <2> HIDE DEF s, c
  <2>2. Calm(ReadPart(s, <<c>>, 1))
      BY <2>1, AloneStep
  <2> QED BY <1>2, <2>1, <2>2
<1>5. \A i \in 0..N : i \in S
  <2> HIDE DEF S
  <2> QED BY <1>2, <1>3, <1>4, UpTo
<1> QED BY <1>1, <1>5 DEF t, N

(* A chunk of any length takes a stream as far as its characters would.     *)
LEMMA Onward ==
    ASSUME NEW C, Quote \in C, NEW text \in Seq(C), NEW p \in 0..Len(text), NEW n \in Nat, p + n <= Len(text)
    PROVE  ReadChunk(Alone(text)[p], SubSeq(text, p + 1, p + n)) = Alone(text)[p + n]
<1> DEFINE t == Alone(text)
           N == Len(text)
           part == SubSeq(text, p + 1, p + n)
           u == [j \in 0..n |-> t[p + j]]
<1>1. /\ t \in [0..N -> Readers(C)]
      /\ \A i \in 1..N : t[i] = ReadPart(t[i - 1], <<text[i]>>, 1)
      /\ \A i \in 0..N : Calm(t[i])
    BY Streams
<1>2. N \in Nat /\ p \in 0..N /\ p \in Nat /\ p + n <= N
    OBVIOUS
<1>3. part \in Seq(C) /\ Len(part) = n /\ \A j \in 1..n : part[j] = text[p + j]
  <2>1. \A j \in (p + 1)..(p + n) : text[j] \in C
      BY <1>2
  <2> QED BY <1>2, <2>1
<1> HIDE DEF t, N, part
<1>4. \A j \in 0..n : p + j \in 0..N /\ u[j] = t[p + j]
    BY <1>2
<1>5. u \in [0..Len(part) -> Readers(C)]
    BY <1>1, <1>3, <1>4
<1>6. ASSUME NEW j \in 1..Len(part) PROVE u[j] = ReadPart(u[j - 1], <<part[j]>>, 1)
  <2>1. /\ j \in 1..n /\ j \in 0..n /\ j - 1 \in 0..n /\ p + j \in 1..N
        /\ p + (j - 1) = (p + j) - 1
      BY <1>2, <1>3
  <2>2. t[p + j] = ReadPart(t[(p + j) - 1], <<text[p + j]>>, 1)
      BY <1>1, <2>1
  <2>3. u[j] = t[p + j] /\ u[j - 1] = t[(p + j) - 1] /\ part[j] = text[p + j]
      BY <1>3, <1>4, <2>1
  <2> QED BY <2>2, <2>3
<1>7. u[0] = t[p] /\ u[n] = t[p + n] /\ Calm(u[0])
    BY <1>1, <1>2, <1>4
<1> HIDE DEF u
<1>8. ReadChunk(u[0], part) = u[Len(part)]
    BY <1>3, <1>5, <1>6, <1>7, InOnePiece
<1> QED BY <1>3, <1>7, <1>8 DEF t, part

(* A well-formed file reads as the reader of whole files reads it.          *)
LEMMA WellRead ==
    ASSUME NEW C, Quote \in C, NEW text \in Seq(C), WellFormed(text)
    PROVE  LET end == EndStream(Alone(text)[Len(text)]) IN ~end.failed /\ end.rows = ParseCsv(text)
<1> DEFINE t == Alone(text)
           N == Len(text)
<1>1. /\ t \in [0..N -> Readers(C)] /\ t[0] = NewReader
      /\ \A i \in 1..N : t[i] = ReadPart(t[i - 1], <<text[i]>>, 1)
    BY Streams
<1>2. PICK g \in [0..N -> Readers(C)] : /\ g[0] = NewReader
                                        /\ \A i \in 1..N : g[i] = ReadWhole(g[i - 1], text, i)
                                        /\ ParseCsv(text) = Rest(g[N]).rows
    BY WholeReads
<1>3. PICK w \in [0..N -> Expectations] : /\ w[0] = "start"
                                          /\ \A i \in 1..N : w[i] = Expecting(w[i - 1], text[i])
                                          /\ WellFormed(text) = (w[N] \notin {"quoted", "bad"})
    BY Expects
<1> DEFINE S == {i \in 0..N : w[i] = "bad" \/ Agree(t[i], g[i], w[i], text, i)}
<1>4. N \in Nat /\ \A i \in 1..N : i \in 0..N /\ i - 1 \in 0..N
    OBVIOUS
<1>5. 0 \in S
  <2>1. Agree(NewReader, NewReader, "start", text, 0)
      BY DEF Agree, Ahead, NewReader
  <2> HIDE DEF t, N
  <2> QED BY <1>1, <1>2, <1>3, <1>4, <2>1
<1>6. ASSUME NEW i \in 1..N, i - 1 \in S PROVE i \in S
  <2> SUFFICES ASSUME w[i] # "bad" PROVE Agree(t[i], g[i], w[i], text, i)
      BY <1>4
  <2> DEFINE s == t[i - 1]
             h == g[i - 1]
             v == w[i - 1]
  <2>1. /\ s \in Readers(C) /\ v \in Expectations
        /\ t[i] = ReadPart(s, <<text[i]>>, 1) /\ g[i] = ReadWhole(h, text, i) /\ w[i] = Expecting(v, text[i])
    <3> HIDE DEF t, N
    <3> QED BY <1>1, <1>2, <1>3, <1>4
  <2>2. v # "bad"
      BY <2>1 DEF Expecting
  <2>3. Agree(s, h, v, text, i - 1)
      BY <1>6, <2>2
  <2>4. i \in 1..Len(text)
      OBVIOUS
  <2> HIDE DEF s, h, v, t, N
  <2>5. Agree(ReadPart(s, <<text[i]>>, 1), ReadWhole(h, text, i), Expecting(v, text[i]), text, i)
      BY <2>1, <2>2, <2>3, <2>4, AgreeStep
  <2> QED BY <2>1, <2>5
<1>7. \A i \in 0..N : i \in S
  <2> HIDE DEF S, N
  <2> QED BY <1>4, <1>5, <1>6, UpTo
<1> DEFINE s == t[N]
           end == EndStream(s)
<1>8. w[N] \in Expectations \ {"quoted", "bad"} /\ Agree(s, g[N], w[N], text, N) /\ s \in Readers(C)
  <2>1. N \in 0..N /\ N \in S
      BY <1>4, <1>7
  <2>2. w[N] \in Expectations \ {"quoted", "bad"}
      BY <1>3, <2>1
  <2>3. s \in Readers(C)
      BY <1>1, <2>1
  <2> QED BY <2>1, <2>2, <2>3
<1>9. ~Doubled(s, text, N)
    BY DEF Doubled
<1> HIDE DEF s, t, N
<1>10. (s.quoted => s.pending) /\ ~s.failed
    BY <1>8 DEF Agree, Expectations
<1>11. g[N] = s \/ g[N] = Closing(s)
    BY <1>8, <1>9 DEF Agree, Ahead
<1>12. Rest(g[N]).rows = Rest(s).rows
  <2>1. Closing(s) \in Readers(C) /\ Closing(s).field = s.field /\ Closing(s).row = s.row /\ Closing(s).rows = s.rows
      BY <1>8 DEF Closing, Readers
  <2>2. FinishField(Closing(s)).row = FinishField(s).row
      BY <1>8, <2>1, Finished DEF FinishField, Readers
  <2>3. FinishRow(Closing(s)).rows = FinishRow(s).rows
      BY <1>8, <2>1, <2>2 DEF FinishRow, Readers
  <2> QED BY <1>11, <2>1, <2>3 DEF Rest
<1>13. Rest(s) \in Readers(C) /\ Rest(s).failed = s.failed
  <2>1. Rest(s) \in Readers(C)
      BY <1>8, Finished
  <2> QED BY <1>8, <2>1 DEF Rest, FinishRow, Readers
<1>14. end = [Rest(s) EXCEPT !.quoted = FALSE, !.pending = FALSE]
    BY <1>10 DEF EndStream
<1>15. end.failed = Rest(s).failed /\ end.rows = Rest(s).rows
    BY <1>13, <1>14 DEF Readers
<1>16. ~end.failed /\ end.rows = ParseCsv(text)
    BY <1>2, <1>10, <1>12, <1>13, <1>15
<1> QED BY <1>16 DEF end, s, t, N

----------------------------------------------------------------------------
(* The stream is where its characters would have taken it, and is closed    *)
(* with the last of them.                                                   *)
FilesInv ==
    /\ content \in Contents
    /\ position \in 0..Len(content)
    /\ reader = IF position = Len(content) /\ position > 0 THEN EndStream(Alone(content)[position])
                ELSE Alone(content)[position]

LEMMA ContentIs ==
    ASSUME NEW text \in Contents
    PROVE  \E C : Quote \in C /\ text \in Seq(C)
<1> DEFINE C == ToSet(text) \cup {Quote}
<1>1. text \in Seq(ToSet(text))
    BY FilesAssumption
<1>2. text \in Seq(C)
    BY <1>1
<1> QED BY <1>2

LEMMA FilesInitInv == FilesInit => FilesInv
<1> SUFFICES ASSUME FilesInit PROVE FilesInv
    OBVIOUS
<1>1. content \in Contents /\ position = 0 /\ reader = NewReader
    BY DEF FilesInit
<1>2. PICK C : Quote \in C /\ content \in Seq(C)
    BY <1>1, ContentIs
<1>3. Alone(content)[0] = NewReader /\ Len(content) \in Nat
    BY <1>2, Streams
<1> QED BY <1>1, <1>3 DEF FilesInv

LEMMA FilesNextInv == FilesInv /\ [FilesNext]_fileVars => FilesInv'
<1> SUFFICES ASSUME FilesInv, [FilesNext]_fileVars PROVE FilesInv'
    OBVIOUS
<1>1. CASE UNCHANGED fileVars
    BY <1>1 DEF fileVars, FilesInv
<1>2. CASE FilesNext
  <2>1. /\ content \in Contents /\ position \in 0..Len(content) /\ content' = content /\ position < Len(content)
        /\ reader = IF position = Len(content) /\ position > 0 THEN EndStream(Alone(content)[position])
                    ELSE Alone(content)[position]
      BY <1>2 DEF FilesInv, FilesNext, ParseCsvStream
  <2>2. PICK n \in 1..ChunkSize :
           /\ position + n <= Len(content)
           /\ position' = position + n
           /\ LET read == ReadChunk(reader, SubSeq(content, position + 1, position + n))
              IN reader' = IF position + n = Len(content) THEN EndStream(read) ELSE read
      BY <1>2 DEF FilesNext, ParseCsvStream
  <2>3. PICK C : Quote \in C /\ content \in Seq(C)
      BY <2>1, ContentIs
  <2>4. Len(content) \in Nat /\ n \in Nat /\ n > 0 /\ reader = Alone(content)[position]
      BY <2>1, <2>3, FilesAssumption
  <2>5. ReadChunk(reader, SubSeq(content, position + 1, position + n)) = Alone(content)[position + n]
      BY <2>1, <2>2, <2>3, <2>4, Onward
  <2>6. position' \in 0..Len(content) /\ position' > 0
      BY <2>1, <2>2, <2>4
  <2>7. reader' = IF position' = Len(content) /\ position' > 0 THEN EndStream(Alone(content)[position'])
                  ELSE Alone(content)[position']
      BY <2>2, <2>5, <2>6
  <2> QED BY <2>1, <2>6, <2>7 DEF FilesInv
<1> QED BY <1>1, <1>2

LEMMA FilesInvReads == FilesInv => ChunksReadAsWhole
<1> SUFFICES ASSUME FilesInv, position = Len(content), content # <<>> PROVE ChunksReadAsWhole
    BY DEF ChunksReadAsWhole
<1>1. PICK C : Quote \in C /\ content \in Seq(C)
    BY ContentIs DEF FilesInv
<1> DEFINE last == Alone(content)[Len(content)]
<1>2. Len(content) \in Nat /\ Len(content) > 0
    BY <1>1
<1>3. reader = EndStream(last)
    BY <1>2 DEF FilesInv
<1>4. last \in Readers(C) /\ Alone(content)[0] = NewReader
    BY <1>1, <1>2, Streams
<1>5. ReadChunk(NewReader, content) = last
  <2>1. ReadChunk(Alone(content)[0], SubSeq(content, 1, Len(content))) = Alone(content)[Len(content)]
    <3> PICK p \in 0..Len(content), n \in Nat : p = 0 /\ n = Len(content)
        BY <1>2
    <3>1. p + n <= Len(content) /\ p + 1 = 1 /\ p + n = Len(content)
        BY <1>2
    <3>2. ReadChunk(Alone(content)[p], SubSeq(content, p + 1, p + n)) = Alone(content)[p + n]
        BY <1>1, <3>1, Onward
    <3> QED BY <3>1, <3>2
  <2>2. SubSeq(content, 1, Len(content)) = content
      BY <1>1
  <2> QED BY <1>2, <1>4, <2>1, <2>2
<1> DEFINE whole == EndStream(ReadChunk(NewReader, content))
<1>6. reader = whole
    BY <1>3, <1>5
<1>7. WellFormed(content) => ~reader.failed /\ reader.rows = ParseCsv(content)
    BY <1>1, <1>3, WellRead
<1> HIDE DEF whole, last
<1>8. /\ reader.failed = whole.failed
      /\ reader.rows = whole.rows
    BY <1>6
<1>9. /\ reader.failed = EndStream(ReadChunk(NewReader, content)).failed
      /\ reader.rows = EndStream(ReadChunk(NewReader, content)).rows
    BY <1>8 DEF whole
<1> QED BY <1>7, <1>9, Zenon DEF ChunksReadAsWhole

(* However the chunks of a file were cut, it reads as in one piece: a quote *)
(* at the end of a chunk is not decided before the next character, and a    *)
(* well-formed file reads alike to both readers.                            *)
THEOREM ChunksAreWhole == FilesSpec => []ChunksReadAsWhole
<1>1. FilesInit => FilesInv
    BY FilesInitInv
<1>2. FilesInv /\ [FilesNext]_fileVars => FilesInv'
    BY FilesNextInv
<1>3. FilesInv => ChunksReadAsWhole
    BY FilesInvReads
<1> QED BY <1>1, <1>2, <1>3, PTL DEF FilesSpec
=============================================================================
