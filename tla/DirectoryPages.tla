---------------------------- MODULE DirectoryPages ----------------------------
(* How the pages of one directory become records of people: what the two    *)
(* generic adapters read off a page and where they say it goes on, the data *)
(* boundary, the merging of repeated entries and the loop guards of the     *)
(* engine.  TargetCrawl takes all of this as an arbitrary site; leases,     *)
(* budgets and profile pages are its matter.                                *)
EXTENDS Absence, Naturals, Sequences, FiniteSets, SequencesExt, FiniteSetsExt

CONSTANTS
    Directories,  \* the websites: [seed, pages: [url -> page]]
    Reveals,      \* [text -> what it gives away of a person], where it does
    Spellings,    \* [text -> the same text as its normalized key], where they differ
    MaxFruitless  \* maxPagesWithoutNewRecords

(* What a page shows comes in sequences.                                    *)
IsPage(page) ==
    /\ \A part \in {"structured", "tables", "cards", "lists", "mailtos", "profiles", "items",
                    "next", "numbered", "more", "letters", "selects"} : page[part] \in Seq(ToSet(page[part]))
    /\ \A table \in ToSet(page.tables) : table.rows \in Seq(ToSet(table.rows))
    /\ \A group \in ToSet(page.cards) \cup ToSet(page.lists) : group \in Seq(ToSet(group))
ASSUME PagesAssumption ==
    /\ MaxFruitless \in Nat \ {0}
    /\ \A website \in Directories : \A url \in DOMAIN website.pages : IsPage(website.pages[url])

VARIABLES
    directory,    \* the website being read
    pager         \* the walk: [queue, bodies, keys, tokens, fruitless, read, harvest, stops, open]

pageVars == <<directory, pager>>

----------------------------------------------------------------------------
(* The public professional data boundary, over the published fields.        *)
RoleDescriptionFields == {"title_published", "organization_published"}
ScanForProhibitedData(field, value) ==
    IF value \notin DOMAIN Reveals THEN {}
    ELSE Reveals[value] \cap ({"government_id_number", "date_of_birth"} \cup
             IF field \in RoleDescriptionFields THEN {} ELSE {"medical", "student_information", "guardian_information"})
ApplyDataBoundary(published) ==
    [field \in DOMAIN published |->
        IF published[field] # None /\ ScanForProhibitedData(field, published[field]) # {} THEN None
        ELSE published[field]]

(* The identity of a page's record is made anew of what may be stored.      *)
CheckpointSafe(record) ==
    LET safe == ApplyDataBoundary(record.published) IN
    IF safe["full_name_published"] = None THEN <<>>
    ELSE <<[key |-> <<safe, record.profile>>, confidence |-> record.confidence, profile |-> record.profile,
            published |-> safe, emails |-> record.emails]>>

----------------------------------------------------------------------------
(* Entries that describe the same person: of one key, or of one name, title *)
(* and organization.  The surer one keeps its fields, no address is lost.   *)
NormalizeKey(text) == IF text \in DOMAIN Spellings THEN Spellings[text] ELSE text
SoftIdentity(record) ==
    [f \in {"full_name_published"} \cup RoleDescriptionFields |-> NormalizeKey(record.published[f])]
SlipMergeExtracted(a, b) == IF a.confidence >= b.confidence THEN a ELSE b
MergeExtracted(a, b) ==
    LET primary == IF a.confidence >= b.confidence THEN a ELSE b
        secondary == IF a.confidence >= b.confidence THEN b ELSE a
        Either(one, other) == IF one # None THEN one ELSE other
    IN [key |-> primary.key, confidence |-> primary.confidence,
        published |-> [f \in DOMAIN primary.published |-> Either(primary.published[f], secondary.published[f])],
        profile |-> Either(primary.profile, secondary.profile),
        emails |-> primary.emails \cup secondary.emails]
IdentityBy(rule, record) == IF rule = "recordKey" THEN record.key ELSE SoftIdentity(record)
Into(kept, record, rule) ==
    LET same == {i \in DOMAIN kept : IdentityBy(rule, kept[i]) = IdentityBy(rule, record)} IN
    IF same = {} THEN Append(kept, record) ELSE [kept EXCEPT ![Min(same)] = MergeExtracted(@, record)]
CollapseBy(rule, records) ==
    LET collapsed[n \in 0..Len(records)] == IF n = 0 THEN <<>> ELSE Into(collapsed[n - 1], records[n], rule)
    IN collapsed[Len(records)]
DedupeExtractedRecords(records) ==
    CollapseBy("softKey", CollapseBy("recordKey", records))

----------------------------------------------------------------------------
(* What a page shows of a person, an entry [name, title, organization,      *)
(* phone, profile, emails], becomes a record if it looks like a name.       *)
BuildPersonRecord(entry, localKey, confidence) ==
    IF entry.name = None THEN <<>>
    ELSE <<[key |-> localKey, confidence |-> confidence, profile |-> entry.profile,
            published |-> [full_name_published |-> entry.name, title_published |-> entry.title,
                           organization_published |-> entry.organization, phone_published |-> entry.phone],
            emails |-> ToSet(entry.emails)]>>

AddressOr(entry, i) == IF entry.emails = <<>> THEN <<entry.name, i>> ELSE <<Head(entry.emails)>>
HasContact(entry) == entry.emails # <<>>

(* Markup that says what its values mean, tables whose columns are clear,   *)
(* definition lists of two and more, and the first group of three and more  *)
(* cards that has a person in it.                                           *)
ExtractStructured(page) ==
    FlattenSeq([i \in DOMAIN page.structured |->
        BuildPersonRecord(page.structured[i], <<"structured", AddressOr(page.structured[i], i)>>, 95)])
FromTable(table, t) ==
    FlattenSeq([i \in DOMAIN table.rows |->
        BuildPersonRecord(table.rows[i], <<"table", t, i, table.rows[i].name>>, table.score)])
ExtractFromTables(page) ==
    FlattenSeq([t \in DOMAIN page.tables |->
        IF page.tables[t].score >= 50 THEN FromTable(page.tables[t], t) ELSE <<>>])
IsPerson(card) == HasContact(card) \/ card.title # None
FromCardGroup(group) ==
    FlattenSeq([i \in DOMAIN group |->
        IF IsPerson(group[i])
        THEN BuildPersonRecord(group[i], <<"card", group[i].name, i>>, IF HasContact(group[i]) THEN 80 ELSE 60)
        ELSE <<>>])
ExtractFromCards(page) ==
    LET found == [g \in DOMAIN page.cards |-> IF Len(page.cards[g]) >= 3 THEN FromCardGroup(page.cards[g]) ELSE <<>>]
        rosters == {g \in DOMAIN found : found[g] # <<>>}
    IN IF rosters = {} THEN <<>> ELSE found[Min(rosters)]
FromDefinitionList(list, l) ==
    FlattenSeq([i \in DOMAIN list |-> BuildPersonRecord(list[i], <<"dl", l, i, list[i].name>>, 70)])
ExtractFromDefinitionLists(page) ==
    FlattenSeq([l \in DOMAIN page.lists |->
        IF Len(page.lists[l]) >= 2 THEN FromDefinitionList(page.lists[l], l) ELSE <<>>])

(* Last resorts: the links to addresses, then the names under a heading     *)
(* that announces people.                                                   *)
ExtractFromMailtoLinks(page) ==
    FlattenSeq([i \in DOMAIN page.mailtos |->
        BuildPersonRecord(page.mailtos[i], <<"mailto", page.mailtos[i].emails, i>>, 45)])
ExtractProfileLinks(page) ==
    IF ~page.announced THEN <<>>
    ELSE FlattenSeq([i \in DOMAIN page.profiles |-> BuildPersonRecord(page.profiles[i], page.profiles[i].profile, 65)])

(* Whatever the four structural forms yield is merged; keys differ between  *)
(* forms, so that merging after each of them comes to the same.             *)
ExtractHtml(page) ==
    LET marked == ExtractStructured(page) \o ExtractFromTables(page) \o ExtractFromCards(page)
                      \o ExtractFromDefinitionLists(page)
        found == IF marked = <<>> THEN ExtractFromMailtoLinks(page) ELSE marked
    IN IF found = <<>> THEN ExtractProfileLinks(page) ELSE DedupeExtractedRecords(found)
ExtractJson(page) ==
    DedupeExtractedRecords(FlattenSeq([i \in DOMAIN page.items |->
        BuildPersonRecord(page.items[i], <<"json", AddressOr(page.items[i], i)>>, 92)]))

----------------------------------------------------------------------------
(* Where a page says the directory goes on.  Numbered links and load-more   *)
(* controls are taken beside a next link; a number in the page's own url is *)
(* counted on if there is no control, and filters are used if there is      *)
(* nothing to count either.                                                 *)
Distinct(s) ==
    LET kept[n \in 0..Len(s)] ==
            IF n = 0 THEN <<>> ELSE IF s[n] \in ToSet(kept[n - 1]) THEN kept[n - 1] ELSE Append(kept[n - 1], s[n])
    IN kept[Len(s)]
Requests(kind, urls) == LET to == Distinct(urls) IN [i \in DOMAIN to |-> [kind |-> kind, url |-> to[i]]]
Controls(page) ==
    Requests("next_link", IF page.relNext # None THEN <<page.relNext>> ELSE page.next)
        \o Requests("numbered", page.numbered) \o Requests("load_more", page.more)
GuessNextFromQuery(url) ==
    CASE url.param = "page" -> Requests("page_param", <<[url EXCEPT !.n = @ + 1]>>)
      [] url.param = "offset" ->
             Requests("offset_param", <<[url EXCEPT !.n = @ + Max({1, IF @ = 0 THEN 25 ELSE @})]>>)
      [] OTHER -> <<>>
Filters(page) ==
    IF Len(page.letters) >= 5 THEN Requests("alpha_filter", page.letters)
    ELSE Requests("department_filter", page.selects)
DiscoverPaginationFrom(page, url) ==
    IF Controls(page) # <<>> THEN Controls(page)
    ELSE IF GuessNextFromQuery(url) # <<>> THEN GuessNextFromQuery(url)
    ELSE Filters(page)

(* A JSON envelope continues in one way only: a cursor, a url, an offset    *)
(* short of the total, a page short of the last.                            *)
PaginationFrom(meta, url) ==
    LET With(param, n) == [url EXCEPT !.param = param, !.n = n]
        Known(a, b) == a # None /\ b # None
    IN CASE meta.cursor # None -> Requests("cursor_api", <<With("cursor", meta.cursor)>>)
         [] meta.cursor = None /\ meta.next # None -> Requests("cursor_api", <<meta.next>>)
         [] meta.cursor = None /\ meta.next = None /\ Known(meta.offset, meta.limit) ->
                IF meta.total = None \/ meta.offset + meta.limit < meta.total
                THEN Requests("offset_param", <<With("offset", meta.offset + meta.limit)>>) ELSE <<>>
         [] meta.cursor = None /\ meta.next = None /\ ~Known(meta.offset, meta.limit)
                /\ Known(meta.page, meta.pages) ->
                IF meta.page < meta.pages THEN Requests("page_param", <<With("page", meta.page + 1)>>) ELSE <<>>
         [] OTHER -> <<>>

Extract(page) == IF page.format = "json" THEN ExtractJson(page) ELSE ExtractHtml(page)
Pagination(page, url) ==
    IF page.format = "json" THEN PaginationFrom(page.meta, url) ELSE DiscoverPaginationFrom(page, url)

----------------------------------------------------------------------------
(* The engine's loop over the pages, with its guards.  A url is queued once, *)
(* so that the guard on visited urls has nothing to pass over here.         *)
StartOf(website) ==
    [queue |-> <<website.seed>>, bodies |-> {}, keys |-> {}, tokens |-> {website.seed},
     fruitless |-> 0, read |-> {}, harvest |-> {}, stops |-> {}, open |-> TRUE]
PagesInit == directory \in Directories /\ pager = StartOf(directory)

Asked == Head(pager.queue)
Dropped == [pager EXCEPT !.queue = Tail(@)]
Reached(url) == url \in DOMAIN directory.pages
AskedPage == directory.pages[Asked]
Reading_ == pager.open /\ pager.queue # <<>>

MissingPage ==
    /\ Reading_ /\ ~Reached(Asked)
    /\ pager' = [Dropped EXCEPT !.stops = @ \cup {"unreachable"}]
    /\ UNCHANGED directory

(* The new entries of a page, each key once in a run.                       *)
SafeRecords(extracted) == FlattenSeq([i \in DOMAIN extracted |-> CheckpointSafe(extracted[i])])
KeptOf(page) == DedupeExtractedRecords(SafeRecords(Extract(page)))
AfterExtraction(seen, records) ==
    LET new == {r \in ToSet(records) : r.key \notin seen.keys} IN
    [seen EXCEPT !.keys = @ \cup {r.key : r \in new}, !.harvest = @ \cup new,
                 !.fruitless = IF new = {} THEN @ + 1 ELSE 0,
                 !.stops = @ \cup (IF records = <<>> /\ seen.read = {Asked} THEN {"empty_success"} ELSE {})
                             \cup (IF new = {} /\ seen.fruitless + 1 >= MaxFruitless THEN {"no_progress"} ELSE {})]

(* A sequence that leads back ends the walk, whatever is still queued; of a *)
(* set of links the ones followed before are passed over.                   *)
SequentialKinds == {"next_link", "cursor_api", "load_more", "offset_param", "page_param"}
Claim(walked, request) ==
    CASE ~walked.open -> walked
      [] walked.open /\ request.url \notin walked.tokens ->
             [walked EXCEPT !.tokens = @ \cup {request.url}, !.queue = Append(@, request.url)]
      [] walked.open /\ request.url \in walked.tokens /\ request.kind \in SequentialKinds ->
             [walked EXCEPT !.stops = @ \cup {"pagination_loop"}, !.open = FALSE]
      [] OTHER -> walked
Claimed(walked, requests) ==
    LET claimed[n \in 0..Len(requests)] == IF n = 0 THEN walked ELSE Claim(claimed[n - 1], requests[n])
    IN claimed[Len(requests)]

RepeatedBody ==
    /\ Reading_ /\ Reached(Asked)
    /\ AskedPage.body \in pager.bodies
    /\ pager' = [Dropped EXCEPT !.stops = @ \cup {"duplicate_content"}, !.open = FALSE]
    /\ UNCHANGED directory
ReadListing ==
    /\ Reading_ /\ Reached(Asked)
    /\ AskedPage.body \notin pager.bodies
    /\ LET seen == [Dropped EXCEPT !.bodies = @ \cup {AskedPage.body}, !.read = @ \cup {Asked}]
       IN \E after \in {AfterExtraction(seen, KeptOf(AskedPage))} :
             pager' = IF after.stops \cap {"empty_success", "no_progress"} # {}
                      THEN [after EXCEPT !.open = FALSE]
                      ELSE Claimed(after, Pagination(AskedPage, Asked))
    /\ UNCHANGED directory

PagesNext == MissingPage \/ RepeatedBody \/ ReadListing

----------------------------------------------------------------------------
(* What a reader of the website would find: the pages its controls lead to, *)
(* filters where there is no sequence to follow.                            *)
Offered(url) ==
    LET page == directory.pages[url]
        requests == IF page.format = "json" THEN PaginationFrom(page.meta, url)
                    ELSE IF Controls(page) # <<>> THEN Controls(page)
                    ELSE IF GuessNextFromQuery(url) = <<>> THEN Filters(page) ELSE <<>>
    IN {r.url : r \in ToSet(requests)}
Roster(page) ==
    LET rosters == {g \in DOMAIN page.cards :
            Len(page.cards[g]) >= 3 /\ \E card \in ToSet(page.cards[g]) : IsPerson(card) /\ card.name # None}
    IN IF rosters = {} THEN {} ELSE {card \in ToSet(page.cards[Min(rosters)]) : IsPerson(card)}
MarkedEntries(page) ==
    ToSet(page.structured) \cup Roster(page)
        \cup (UNION {ToSet(table.rows) : table \in {t \in ToSet(page.tables) : t.score >= 50}})
        \cup (UNION {ToSet(list) : list \in {l \in ToSet(page.lists) : Len(l) >= 2}})
Entries(page) ==
    IF page.format = "json" THEN ToSet(page.items)
    ELSE IF \E entry \in MarkedEntries(page) : entry.name # None THEN MarkedEntries(page)
    ELSE ToSet(page.mailtos)

(* Nobody is lost between the pages: a walk that no guard ended has asked   *)
(* for every page the pages it read lead to; every address an entry gives   *)
(* under a name, however often, in however many forms and on however many   *)
(* pages, is in a record of its page, and that record's addresses are in    *)
(* the harvest, with two exceptions: where the entries that were merged     *)
(* into it go by a name that must not be kept, and where another page was   *)
(* first to publish a person of the same fields ("A person republished on a *)
(* later page of the same run is recorded once, against the page that first *)
(* published them").  What is in the harvest is within the boundary.        *)
FirstPublished(k, url) ==
    \E other \in pager.read \ {url} :
        \E h \in pager.harvest \cap ToSet(KeptOf(directory.pages[other])) : h.key = k.key
AddressesAreKept(url) ==
    LET page == directory.pages[url] IN
    \A entry \in Entries(page) : entry.name # None =>
        \E r \in ToSet(Extract(page)) :
            /\ ToSet(entry.emails) \subseteq r.emails
            /\ \/ ScanForProhibitedData("full_name_published", r.published["full_name_published"]) # {}
               \/ \E k \in ToSet(KeptOf(page)) :
                     r.emails \subseteq k.emails /\ (k \in pager.harvest \/ FirstPublished(k, url))
EveryAddressIsHarvested ==
    /\ pager.queue = <<>> /\ pager.open =>
          \A url \in pager.read : \A next \in Offered(url) : next \in pager.read \/ ~Reached(next)
    /\ \A url \in pager.read : AddressesAreKept(url)
    /\ \A r \in pager.harvest : r.published = ApplyDataBoundary(r.published)

(* "`pagination_loop` for a sequential pager that revisits a page already   *)
(* followed" (docs/CRAWLING_POLICY.md): when a page ends the walk as a loop, *)
(* its sequence leads to a page that was asked for, not merely to one that  *)
(* was offered and still waits.                                             *)
LoopsAreRevisits ==
    [][pager.open /\ "pagination_loop" \in pager'.stops =>
          \E r \in ToSet(Pagination(AskedPage, Asked)) :
              r.kind \in SequentialKinds /\ r.url \in pager'.tokens \ ToSet(pager'.queue)]_pageVars
=============================================================================
