--------------------------- MODULE SpineOrganizer ---------------------------
(* The two commands in front of the spine: the organizer turns downloaded   *)
(* official files into artifacts and a summary, the importer checks the     *)
(* summary against the reviewed inventory and stages the artifacts.  An     *)
(* operator runs one at a time; either may be killed at a row.              *)
EXTENDS Absence, Naturals, Sequences, FiniteSets, SequencesExt

CONSTANTS
    Releases,     \* what may have been downloaded: [texas, nces, census, areas, usagov, register]
    Inventory,    \* the reviewed counts: [source -> [records, websites, missing]]
    AreaCount,    \* the counties Texas is expected to have
    Prohibited,   \* sources whose policy does not permit collection
    StageBatch,
    Commands      \* bound: commands run in all

CensusSheets ==
    {"general_purpose", "special_district", "independent_school_district", "dependent_school_system",
     "public_pension_system"}
(* A file is a sequence of rows, the census workbook one of five sheets; a  *)
(* type, a level or a sector that is written is not null.                   *)
ASSUME OrganizerAssumption ==
    /\ StageBatch \in Nat \ {0} /\ Commands \in Nat /\ AreaCount \in Nat
    /\ \A files \in Releases :
          /\ files.texas \in Seq(ToSet(files.texas)) /\ files.nces \in Seq(ToSet(files.nces))
          /\ files.census \in Seq(ToSet(files.census)) /\ files.areas \in Seq(ToSet(files.areas))
          /\ files.usagov \in Seq(ToSet(files.usagov)) /\ files.register \in Seq(ToSet(files.register))
          /\ \A i \in DOMAIN files.census : files.census[i].sheet \in CensusSheets
    /\ None \notin {"state", "county", "municipal", "township", "special_district", "school_district", "school",
                     "county_government", "municipality", "township_government", "education", "general_government"}

VARIABLES
    release,    \* the files that are there
    artifact,   \* the files the organizer writes
    organized,  \* summary.json, or None
    organizer, importer,
    spineRows,  \* organization_spine_records: [record, version, status]
    enriched,   \* keys with education attributes
    commands

organizerVars == <<release, artifact, organized, organizer, importer, spineRows, enriched, commands>>

ArtifactNames == {"records", "overlays", "reconciliation", "work", "queue", "exact", "relationships", "areas"}
Empty == [name \in ArtifactNames |-> <<>>]
Idle == [pc |-> "off", todo |-> <<>>, websites |-> {}, counts |-> <<>>, districts |-> {}, campuses |-> {},
         counties |-> {}, census |-> {}]
NoImporter == [pc |-> "off", file |-> 1, line |-> 0, batch |-> <<>>]

OrganizerInit ==
    /\ release \in Releases
    /\ artifact = Empty /\ organized = None
    /\ organizer = Idle /\ importer = NoImporter
    /\ spineRows = {} /\ enriched = {} /\ commands = 0

----------------------------------------------------------------------------
(* Source rows become source records; "" is a value that cannot be used.    *)
PublishedWebsite(value) == IF value \in {None, ""} THEN None ELSE value
Identified(system, value) == IF value = None THEN {} ELSE {<<system, value>>}
SourceRecord(source, key, ids, parents, class, site) ==
    [source |-> source, key |-> key, ids |-> ids, parents |-> parents, type |-> class[1],
     level |-> class[2], sector |-> class[3], review |-> class[4], site |-> PublishedWebsite(site)]

TexasDistrictOverlay(row) ==
    SourceRecord("askted", <<"district", row.district>>,
        Identified("nces_district", row.districtNces) \cup Identified("tx", row.district), {},
        <<"school_district", "special_district", "education", FALSE>>, row.districtSite)
TexasSchoolOverlay(row) ==
    SourceRecord("askted", <<"school", row.campus>>,
        Identified("nces_school", row.campusNces) \cup Identified("tx", row.campus),
        Identified("nces_district", row.districtNces) \cup Identified("tx", row.district),
        <<"school", "special_district", "education", FALSE>>, row.campusSite)
NcesLeaRecord(row) ==
    SourceRecord("nces-lea", <<row.id>>, Identified("nces_district", row.id) \cup Identified("tx", row.state), {},
        <<IF row.type \in {"3", "4"} THEN "education_service_agency"
          ELSE IF row.type = "5" THEN "state_education_agency" ELSE "school_district",
          None, "education", TRUE>>, row.site)
NcesSchoolRecord(row) ==
    SourceRecord("nces-school", <<row.id>>, Identified("nces_school", row.id) \cup Identified("tx", row.state),
        Identified("nces_district", row.lea),
        <<"school", None, "education", TRUE>>, row.site)

(* What a sheet of the Census workbook and a unit type say of a unit.       *)
PublishedLevel(unit) ==
    CASE unit = "0" -> "state" [] unit = "1" -> "county" [] unit = "2" -> "municipal"
      [] unit = "3" -> "township" [] OTHER -> "special_district"
CensusClassification(sheet, unit) ==
    CASE sheet = "special_district" -> <<"special_district", "special_district", None, TRUE>>
      [] sheet = "independent_school_district" -> <<"school_district", "special_district", "education", FALSE>>
      [] sheet = "dependent_school_system" -> <<"school_district", PublishedLevel(unit), "education", FALSE>>
      [] sheet = "public_pension_system" -> <<"other_public_body", PublishedLevel(unit), "finance_revenue", TRUE>>
      [] OTHER -> <<CASE PublishedLevel(unit) = "county" -> "county_government"
                      [] PublishedLevel(unit) = "municipal" -> "municipality"
                      [] OTHER -> "township_government", PublishedLevel(unit), "general_government", FALSE>>
CensusRecord(row) ==
    SourceRecord(row.sheet, <<row.id>>, Identified("census", row.id), Identified("census", row.parent),
        CensusClassification(row.sheet, row.unit), row.site)
AgencyRecord(row) ==
    SourceRecord("usagov", <<row.node, row.name>>, Identified("usagov", row.node), {},
        <<"federal_agency", "federal", "general_government", TRUE>>, row.site)
RegisterRecord(row) ==
    SourceRecord("register", <<row.id>>, Identified("register", row.id), Identified("register", row.parent),
        <<"federal_agency", "federal", "general_government", TRUE>>, row.site)

----------------------------------------------------------------------------
(* What is written for a record, and what the summary counts of it.         *)
Classified(r) == ~r.review /\ None \notin {r.type, r.level, r.sector}
WorkStage(r) ==
    IF r.level = None
    THEN IF r.parents # {} THEN "inherit_parent_government_level" ELSE "authoritative_government_level_crosswalk"
    ELSE IF r.sector = None THEN "controlled_sector_mapping" ELSE "hierarchy_or_type_review"
EmitClassificationWork(r) ==
    IF Classified(r) THEN <<>> ELSE <<[source |-> r.source, key |-> r.key, stage |-> WorkStage(r)]>>
EmitWebsiteQueue(r) == IF r.site = None THEN <<[source |-> r.source, key |-> r.key]>> ELSE <<>>
EmitRelationships(r) == SetToSeq({[child |-> r.ids, parent |-> p] : p \in r.parents})

NoCount == [records |-> 0, websites |-> 0, missing |-> 0]
CountOf(counts, source) == IF source \in DOMAIN counts THEN counts[source] ELSE NoCount
Counted(counts, r) ==
    LET old == CountOf(counts, r.source) IN
    [s \in DOMAIN counts \cup {r.source} |-> IF s # r.source THEN counts[s] ELSE
        [records |-> old.records + 1, websites |-> old.websites + (IF r.site = None THEN 0 ELSE 1),
         missing |-> old.missing + (IF r.site = None THEN 1 ELSE 0)]]

Emitted(files, name, r) == [files EXCEPT ![name] = Append(@, r), !.work = @ \o EmitClassificationWork(r)]

(* The Texas file comes first, because what it publishes answers for NCES.  *)
Tagged(kind, rows) == [i \in DOMAIN rows |-> [kind |-> kind, row |-> rows[i]]]
SlipOrder(r) == Tagged("nces", r.nces) \o Tagged("texas", r.texas) \o Tagged("census", r.census)
                \o Tagged("area", r.areas) \o Tagged("usagov", r.usagov) \o Tagged("register", r.register)
Order(r) == Tagged("texas", r.texas) \o Tagged("nces", r.nces) \o Tagged("census", r.census)
            \o Tagged("area", r.areas) \o Tagged("usagov", r.usagov) \o Tagged("register", r.register)

Organize ==
    /\ organizer.pc # "organizing" /\ importer.pc \in {"off", "done"} /\ commands < Commands
    /\ commands' = commands + 1
    /\ artifact' = Empty
    /\ organizer' = [Idle EXCEPT !.pc = "organizing", !.todo = Order(release)]
    /\ UNCHANGED <<release, organized, importer, spineRows, enriched>>

Still == <<release, importer, spineRows, enriched, commands>>
Reads(kind) == organizer.pc = "organizing" /\ organizer.todo # <<>> /\ Head(organizer.todo).kind = kind
CurrentRow == Head(organizer.todo).row
NextRow == [organizer EXCEPT !.todo = Tail(@)]
NcesIds(r) == {id \in r.ids : id[1] \in {"nces_district", "nces_school"}}
IndexTexasWebsite(r) == IF r.site = None THEN {} ELSE NcesIds(r)

OrganizeTexas ==
    /\ Reads("texas")
    /\ LET district == TexasDistrictOverlay(CurrentRow)
           school == TexasSchoolOverlay(CurrentRow)
           known == district \in organizer.districts
           after == IF known THEN artifact ELSE Emitted(artifact, "overlays", district)
           counts == IF known THEN organizer.counts ELSE Counted(organizer.counts, district)
           inconsistent ==
               \/ None \in {CurrentRow.district, CurrentRow.campus}
               \/ \E d \in organizer.districts : d.key = district.key /\ d # district
       IN IF inconsistent \/ school.key \in organizer.campuses
          THEN /\ organizer' = [organizer EXCEPT !.pc = "failed"]
               /\ artifact' = IF inconsistent THEN artifact ELSE after
          ELSE /\ artifact' = Emitted(after, "overlays", school)
               /\ organizer' = [NextRow EXCEPT !.districts = @ \cup {district}, !.campuses = @ \cup {school.key},
                      !.websites = @ \cup IndexTexasWebsite(district) \cup IndexTexasWebsite(school),
                      !.counts = Counted(counts, school),
                      !.counties = @ \cup ({CurrentRow.county} \ {None})]
    /\ UNCHANGED <<Still, organized>>

OrganizeNces ==
    /\ Reads("nces")
    /\ IF CurrentRow.id = None \/ (CurrentRow.kind = "school" /\ CurrentRow.lea = None)
       THEN organizer' = NextRow /\ UNCHANGED artifact
       ELSE LET r == IF CurrentRow.kind = "lea" THEN NcesLeaRecord(CurrentRow) ELSE NcesSchoolRecord(CurrentRow)
                files == [Emitted(artifact, "records", r) EXCEPT !.relationships = @ \o EmitRelationships(r)]
            IN /\ organizer' = [NextRow EXCEPT !.counts = Counted(@, r)]
               /\ artifact' = IF r.site = None /\ NcesIds(r) \cap organizer.websites # {}
                              THEN [files EXCEPT !.exact = Append(@, [source |-> r.source, key |-> r.key])]
                              ELSE [files EXCEPT !.queue = @ \o EmitWebsiteQueue(r)]
    /\ UNCHANGED <<Still, organized>>

EmitSourceRecord(r) ==
    /\ organizer' = [NextRow EXCEPT !.counts = Counted(@, r)]
    /\ artifact' = [Emitted(artifact, "records", r) EXCEPT !.queue = @ \o EmitWebsiteQueue(r),
                                                         !.relationships = @ \o EmitRelationships(r)]
    /\ UNCHANGED <<Still, organized>>
Skip == organizer' = NextRow /\ UNCHANGED <<artifact, Still, organized>>
OrganizeCensus == Reads("census") /\ IF CurrentRow.id = None THEN Skip ELSE EmitSourceRecord(CensusRecord(CurrentRow))
OrganizeUsaGov == Reads("usagov") /\ IF None \in {CurrentRow.node, CurrentRow.name} THEN Skip ELSE EmitSourceRecord(AgencyRecord(CurrentRow))

OrganizeGeographies ==
    /\ Reads("area")
    /\ artifact' = [artifact EXCEPT !.areas = Append(@,
           [CurrentRow EXCEPT !.type = IF @ = "state" /\ CurrentRow.outlying THEN "territory" ELSE @])]
    /\ organizer' = [NextRow EXCEPT !.census = @ \cup
           (IF CurrentRow.type = "county" /\ CurrentRow.state = "TX" THEN {CurrentRow.name} \ {None} ELSE {})]
    /\ UNCHANGED <<Still, organized>>

OrganizeFederalRegister ==
    /\ Reads("register")
    /\ IF CurrentRow.id = None THEN organizer' = NextRow /\ UNCHANGED artifact
       ELSE /\ artifact' = Emitted(artifact, "reconciliation", RegisterRecord(CurrentRow))
            /\ organizer' = [NextRow EXCEPT !.counts = Counted(@, RegisterRecord(CurrentRow))]
    /\ UNCHANGED <<Still, organized>>

WriteSummary ==
    /\ organizer.pc = "organizing" /\ organizer.todo = <<>>
    /\ organized' = [counts |-> organizer.counts, districts |-> Cardinality(organizer.districts),
                     campuses |-> Cardinality(organizer.campuses),
                     sites |-> Cardinality({i \in DOMAIN artifact.overlays : artifact.overlays[i].site # None}),
                     counties |-> Cardinality(organizer.counties) + Cardinality(organizer.census \ organizer.counties)]
    /\ organizer' = [organizer EXCEPT !.pc = "done"]
    /\ UNCHANGED <<artifact, Still>>

StopOrganizer ==
    /\ organizer.pc = "organizing"
    /\ organizer' = [organizer EXCEPT !.pc = "failed"]
    /\ UNCHANGED <<artifact, organized, Still>>

(* Somebody downloads another release.                                      *)
Download ==
    /\ organizer.pc # "organizing" /\ commands < Commands
    /\ release' \in Releases \ {release}
    /\ UNCHANGED <<artifact, organized, organizer, importer, spineRows, enriched, commands>>

----------------------------------------------------------------------------
(* The importer.                                                            *)
ValidateLocalSummary ==
    /\ \A s \in DOMAIN Inventory : CountOf(organized.counts, s) = Inventory[s]
    /\ organized.districts + organized.campuses = Inventory["askted"].records
    /\ organized.sites = Inventory["askted"].websites
    /\ organized.counties = AreaCount

Import ==
    /\ organizer.pc # "organizing" /\ importer.pc \in {"off", "done"} /\ commands < Commands
    /\ organized # None /\ ValidateLocalSummary
    /\ commands' = commands + 1
    /\ importer' = [NoImporter EXCEPT !.pc = "staging"]
    /\ UNCHANGED <<release, artifact, organized, organizer, spineRows, enriched>>

Staging == <<"records", "overlays", "reconciliation">>
Artifact == artifact[Staging[importer.file]]
StatusFor(name, r) ==
    IF name = "reconciliation" THEN "reconciliation_hold"
    ELSE IF Classified(r) /\ r.ids # {} THEN "ready_to_import"
    ELSE IF name = "overlays" THEN "overlay_hold" ELSE "classification_hold"

(* A row is known by its source, its key and the content of its file.       *)
StagedRow(r) ==
    LET old == {s \in spineRows : s.record.source = r.source /\ s.record.key = r.key /\ s.version = Artifact}
        fresh == [record |-> r, version |-> Artifact, status |-> StatusFor(Staging[importer.file], r)]
    IN IF \E s \in old : s.status = "imported" THEN [fresh EXCEPT !.status = "imported"] ELSE fresh
StageBatchRows(batch) ==
    spineRows' = {s \in spineRows : \A i \in DOMAIN batch :
                     <<s.record.source, s.record.key, s.version>> # <<batch[i].source, batch[i].key, Artifact>>}
                 \cup {StagedRow(batch[i]) : i \in DOMAIN batch}

(* One statement cannot write a row twice.                                  *)
Repeats(batch) == ~IsInjective([i \in DOMAIN batch |-> <<batch[i].source, batch[i].key>>])

Stay == <<release, artifact, organized, organizer, enriched, commands>>
StageLine ==
    /\ importer.pc = "staging" /\ importer.line < Len(Artifact) /\ Len(importer.batch) < StageBatch
    /\ LET r == Artifact[importer.line + 1] IN
       importer' = IF r.source \in Prohibited THEN NoImporter
                   ELSE [importer EXCEPT !.line = @ + 1, !.batch = Append(@, r)]
    /\ UNCHANGED <<Stay, spineRows>>
StageFile ==
    /\ importer.pc = "staging"
    /\ Len(importer.batch) = StageBatch \/ importer.line = Len(Artifact)
    /\ IF Repeats(importer.batch) THEN UNCHANGED spineRows ELSE StageBatchRows(importer.batch)
    /\ importer' = IF Repeats(importer.batch) THEN NoImporter
                   ELSE IF importer.line < Len(Artifact) THEN [importer EXCEPT !.batch = <<>>]
                   ELSE IF importer.file < Len(Staging)
                        THEN [NoImporter EXCEPT !.pc = "staging", !.file = importer.file + 1]
                        ELSE [NoImporter EXCEPT !.pc = "staged"]
    /\ UNCHANGED Stay

(* Without --canonicalize the command ends here.                            *)
StageOnly == importer.pc = "staged" /\ importer' = [importer EXCEPT !.pc = "done"] /\ UNCHANGED <<Stay, spineRows>>
CanonicalizeAll ==
    /\ importer.pc = "staged"
    /\ spineRows' = {IF s.status = "ready_to_import" THEN [s EXCEPT !.status = "imported"] ELSE s : s \in spineRows}
    /\ importer' = [importer EXCEPT !.pc = "canonicalized"]
    /\ UNCHANGED Stay

(* One statement over every imported row of the source: two rows of one     *)
(* organization abort it.                                                   *)
TexasRows == {s \in spineRows : s.record.source = "askted" /\ s.status = "imported"}
MaterializeTexasEducationAttributes ==
    /\ importer.pc = "canonicalized"
    /\ IF \E s, t \in TexasRows : s # t /\ s.record.key = t.record.key
       THEN importer' = NoImporter /\ UNCHANGED enriched
       ELSE importer' = [importer EXCEPT !.pc = "done"] /\ enriched' = enriched \cup {s.record.key : s \in TexasRows}
    /\ UNCHANGED <<release, artifact, organized, organizer, commands, spineRows>>

StopImporter ==
    /\ importer.pc \notin {"off", "done"}
    /\ importer' = NoImporter
    /\ UNCHANGED <<Stay, spineRows>>

OrganizerNext ==
    \/ Organize \/ OrganizeTexas \/ OrganizeNces \/ OrganizeCensus \/ OrganizeGeographies
    \/ OrganizeUsaGov \/ OrganizeFederalRegister \/ WriteSummary \/ StopOrganizer \/ Download
    \/ Import \/ StageLine \/ StageFile \/ StageOnly \/ CanonicalizeAll
    \/ MaterializeTexasEducationAttributes \/ StopImporter

----------------------------------------------------------------------------
RowsAbout(list, r) == {i \in DOMAIN list : list[i].source = r.source /\ list[i].key = r.key}
RowsFrom(list, source) == {i \in DOMAIN list : list[i].source = source}

(* "Incomplete government-level classifications remain visible work instead *)
(* of being guessed": what the importer would hold, and nothing else, has   *)
(* classification work, and nothing held ever counts as imported.  As often *)
(* as an organization is listed without a website, and no oftener, it is    *)
(* answered by the state's file or, if that has none, queued, whatever the  *)
(* order of the rows; and the summary counts what the artifacts say.        *)
SpineAccountsForEveryRow ==
    /\ organizer.pc = "done" =>
          /\ \A name \in ToSet(Staging) : \A r \in ToSet(artifact[name]) :
                RowsAbout(artifact.work, r) # {} <=> StatusFor(name, r) # "ready_to_import"
          /\ \A r \in ToSet(artifact.records) :
                LET missing == Cardinality({i \in RowsAbout(artifact.records, r) : artifact.records[i].site = None})
                    texas == \E o \in ToSet(artifact.overlays) : o.site # None /\ NcesIds(o) \cap NcesIds(r) # {}
                    answered == r.source \in {"nces-lea", "nces-school"} /\ texas
                IN /\ Cardinality(RowsAbout(artifact.exact, r)) = IF answered THEN missing ELSE 0
                   /\ Cardinality(RowsAbout(artifact.queue, r)) = IF answered THEN 0 ELSE missing
          /\ \A s \in DOMAIN organized.counts :
                organized.counts[s].records =
                    Cardinality(RowsFrom(artifact.records, s)) + Cardinality(RowsFrom(artifact.overlays, s))
                    + Cardinality(RowsFrom(artifact.reconciliation, s))
    /\ \A s \in spineRows : s.status = "imported" => Classified(s.record) /\ s.record.source # "register"
=============================================================================
