--------------------------- MODULE MCDirectoryPages ---------------------------
(* DirectoryPages over small websites: every way in which three pages may   *)
(* link to each other, pages that number, count, letter or filter, JSON     *)
(* envelopes, and pages that list the same people in several forms.         *)
EXTENDS DirectoryPages, TLC

(* Urls, entries and blank pages.                                           *)
Url(path) == [at |-> path, param |-> None, n |-> 0]
P1 == Url("p1")
P2 == Url("p2")
P3 == Url("p3")
Urls == <<P1, P2, P3>>
Chosen(s) == SelectSeq(Urls, LAMBDA u : u \in s)
Entry(name, title, emails) ==
    [name |-> name, title |-> title, organization |-> None, phone |-> None, profile |-> None, emails |-> emails]
Envelope == [cursor |-> None, next |-> None, offset |-> None, limit |-> None, total |-> None, page |-> None, pages |-> None]
BlankPage(body) ==
    [format |-> "html", body |-> body, structured |-> <<>>, tables |-> <<>>, cards |-> <<>>, lists |-> <<>>,
     mailtos |-> <<>>, profiles |-> <<>>, announced |-> FALSE, relNext |-> None, next |-> <<>>, numbered |-> <<>>,
     more |-> <<>>, letters |-> <<>>, selects |-> <<>>, items |-> <<>>, meta |-> Envelope]
Table(rows) == <<[score |-> 90, rows |-> rows]>>
Persons == <<Entry("ann", "head", <<"ann@x">>), Entry("bob", "aide", <<"bob@x">>), Entry("cy", None, <<"cy@x">>)>>
Listing(body, rows) == [BlankPage(body) EXCEPT !.tables = Table(rows)]
Website(pages) == [seed |-> P1, pages |-> pages]
Single(page) == Website(P1 :> page)

(* Every set of next links and every set of numbered links between three    *)
(* pages of one person each, and the two beside each other.                 *)
LinkedBy(next, numbered) ==
    Website([u \in {P1, P2, P3} |->
        LET i == CHOOSE k \in 1..3 : Urls[k] = u IN
        [Listing(ToString(i), <<Persons[i]>>) EXCEPT !.next = Chosen(next[i]), !.numbered = Chosen(numbered[i])]])
Unlinked == [i \in 1..3 |-> {}]
Links == [1..3 -> SUBSET {P1, P2, P3}]
NextOnly == {LinkedBy([i \in 1..3 |-> f[i] \ {Urls[i]}], Unlinked) : f \in {g \in Links : \A i \in 1..3 : Cardinality(g[i]) <= 1}}
NumberedOnly == {LinkedBy(Unlinked, f) : f \in Links}
Mixed ==
    {LinkedBy(f, [i \in 1..3 |-> IF i \in at THEN to ELSE {}]) :
        f \in {g \in Links : \A i \in 1..3 : Cardinality(g[i]) <= 1 /\ Urls[i] \notin g[i]},
        to \in SUBSET {P1, P2, P3}, at \in {{1}, 1..3}}

(* Entries in one form and another, spelled otherwise, with more addresses, *)
(* and values that give away what must not be kept.                         *)
Ann == Persons[1]
Forms ==
    LET other == Entry("Ann", "head", <<"ann@y">>)
        rows == {<<Ann>>, <<Ann, Ann>>, <<Ann, other>>, <<Ann, Persons[2]>>, <<Entry(None, "head", <<"no@x">>)>>,
                 <<Entry("ssn ann", "head", <<"s@x">>), Ann>>,
                 <<Entry("ssn ann", "head", <<"s@x">>), Entry("bob", None, <<"s@x", "bob@x">>)>>, <<Entry("ann", "born 1.1.", <<"b@x">>), other>>,
                 <<[Ann EXCEPT !.phone = "patient line"], [Ann EXCEPT !.title = "patient line"]>>}
    IN {Single(page) : page \in
           {[Listing("b", r) EXCEPT !.lists = <<<<l, Persons[2]>>, <<Persons[3]>>>>, !.structured = s] :
               r \in rows, l \in {other, Persons[3]}, s \in {<<>>, <<other>>, <<[Ann EXCEPT !.profile = "ann"]>>}}
           \cup {[BlankPage("b") EXCEPT !.cards = <<<<Ann>>, c>>, !.mailtos = m, !.announced = a,
                                    !.profiles = <<[Entry("dee", None, <<>>) EXCEPT !.profile = "dee"]>>] :
                    c \in {Persons, <<>>, [Persons EXCEPT ![3] = Entry("cy", None, <<>>)]},
                    m \in {<<>>, <<Ann, other>>}, a \in BOOLEAN}
           \cup {[BlankPage("b") EXCEPT !.format = "json", !.items = r] : r \in rows}
           \cup {[BlankPage("b") EXCEPT !.lists = <<Persons>>, !.tables = <<[score |-> 40, rows |-> Persons]>>]}}

(* Pages that are counted on, lettered, filtered, grown or enveloped; one   *)
(* that repeats another's body, one that nobody is on.                      *)
Numbers(param, n) == [Url("p1") EXCEPT !.param = param, !.n = n]
CountedOn(param, numbers) ==
    [seed |-> Numbers(param, Head(numbers)),
     pages |-> [u \in {Numbers(param, numbers[i]) : i \in DOMAIN numbers} |->
                   Listing(ToString(u.n), <<Entry("ann", ToString(u.n), <<ToString(u)>>)>>)]]
Growing ==
    Website((P1 :> [Listing("a", <<Ann>>) EXCEPT !.more = <<P2>>]) @@ (P2 :> Listing("b", <<Ann, Persons[2]>>)))
Lettered(letters, selects) ==
    Website((P1 :> [BlankPage("start") EXCEPT !.letters = letters, !.selects = selects, !.tables = Table(<<Ann>>)])
            @@ [u \in {P2, P3} |-> Listing(u.at, <<Entry(u.at, None, <<u.at>>)>>)])
Repeated == Website((P1 :> [Listing("a", <<Ann>>) EXCEPT !.relNext = P2, !.next = <<P3>>]) @@ (P2 :> Listing("a", <<Ann>>)))
Tail_(pages) ==
    Website([u \in {Urls[i] : i \in 1..3} |->
        LET i == CHOOSE k \in 1..3 : Urls[k] = u IN
        [BlankPage(u.at) EXCEPT !.tables = Table(pages[i]), !.next = IF i = 3 THEN <<>> ELSE <<Urls[i + 1]>>]])
Api(metas) ==
    [seed |-> metas[1][1],
     pages |-> [u \in {metas[i][1] : i \in DOMAIN metas} |->
        LET meta == (CHOOSE m \in ToSet(metas) : m[1] = u)[2] IN
        [BlankPage(ToString(u)) EXCEPT !.format = "json", !.meta = meta, !.items = <<Entry(ToString(u), None, <<ToString(u)>>)>>]]]
Offset(n, total) == [Envelope EXCEPT !.offset = n, !.limit = 2, !.total = total]
OfPages(n) == [Envelope EXCEPT !.page = n, !.pages = 3]
Apis ==
    {Api(<< <<P1, Offset(0, total)>>, <<Numbers("offset", 2), Offset(2, total)>>, <<Numbers("offset", 4), Offset(4, total)>> >>) :
        total \in {4, 5, None}}
    \cup {Api(<< <<P1, OfPages(1)>>, <<Numbers("page", 2), OfPages(2)>>, <<Numbers("page", 3), OfPages(3)>> >>),
          Api(<< <<P1, [Envelope EXCEPT !.next = P2]>>, <<P2, [Envelope EXCEPT !.next = P1]>> >>),
          Api(<< <<P1, [Envelope EXCEPT !.cursor = 7]>>, <<Numbers("cursor", 7), Envelope>> >>)}
OtherWebsites ==
    Apis \cup {CountedOn("page", <<1, 2, 3>>), CountedOn("offset", <<0, 25, 50, 100>>), CountedOn("offset", <<0, 25, 60>>),
               Growing, Repeated, Lettered(<<P2, P3, P2, P3, P2>>, <<P3>>), Lettered(<<P2, P3>>, <<P3, P2>>),
               Lettered(<<>>, <<Url("gone"), P3>>),
               Tail_(<< <<Ann>>, <<Ann>>, <<Persons[2]>> >>), Tail_(<< <<Ann>>, <<>>, <<Ann>> >>), Tail_(<< <<>>, <<Ann>>, <<Ann>> >>),
               Tail_(<< <<Entry("ann", "born 1.1.", <<"b@x">>)>>, <<Entry("ann", None, <<"ann@y">>)>>, <<Persons[2]>> >>)}

TheDirectories == NextOnly \cup NumberedOnly \cup Mixed \cup Forms \cup OtherWebsites
WhatTextsReveal ==
    ("ssn ann" :> {"government_id_number"}) @@ ("born 1.1." :> {"date_of_birth"}) @@ ("patient line" :> {"medical"})
OtherSpellings == "Ann" :> "ann"

PagesSpec == PagesInit /\ [][PagesNext]_pageVars
=============================================================================
