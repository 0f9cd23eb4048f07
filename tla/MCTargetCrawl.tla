--------------------------- MODULE MCTargetCrawl ---------------------------
(***************************************************************************)
(* Small websites for TargetCrawl: a seed page, a second page of the       *)
(* directory and one person's profile.                                     *)
(***************************************************************************)
EXTENDS TargetCrawl, TLC
CONSTANTS w1, w2, s, n, p, x, r1, r2, r3, r4

NoLinks == [u \in Url |-> <<>>]

(* Two listing pages whose next link comes round to the first.  The first  *)
(* links the profile of its person, the second one an excluded url.        *)
Directory ==
  [address |-> [u \in Url |-> u],
   content |-> [u \in Url |-> u],
   people |-> (s :> {r1}) @@ (n :> {r2}) @@ (p :> {r3}) @@ (x :> {}),
   profiles |-> (s :> <<p>>) @@ (n :> <<x>>) @@ NoLinks,
   pager |-> (s :> <<n>>) @@ (n :> <<s>>) @@ NoLinks,
   sequential |-> {n},
   answers |-> [u \in Url |-> IF u = p THEN {"page", "unreachable"} ELSE {"page"}]]

(* A numbered pager on every page, and a second page that serves the first *)
(* one's body.                                                             *)
Repeating ==
  [Directory EXCEPT !.content[n] = s, !.people[n] = {r1}, !.profiles[n] = <<p>>,
                    !.pager[s] = <<s, n>>, !.pager[n] = <<s, n>>, !.sequential = {}]

(* A source that starts to refuse after its first page, and a record that  *)
(* matches no organization.                                                *)
Hostile ==
  [Directory EXCEPT !.people[n] = {r2, r4}, !.pager[s] = <<n, x>>,
                    !.answers = (p :> {"refused", "challenge"}) @@
                                (n :> {"page", "disallowed", "broken", "unreachable"}) @@ @]

(* Three listing pages, the last two without anybody new.                   *)
Barren ==
  [Directory EXCEPT !.people[n] = {r1}, !.people[p] = {}, !.profiles = NoLinks,
                    !.pager[s] = <<n, p>>, !.pager[n] = <<>>, !.sequential = {}]

(* Nobody on the first page.                                               *)
Empty == [Directory EXCEPT !.people[s] = {}]

SomeSites == {Directory, Repeating, Hostile, Barren, Empty}

(* The operator's world changes during the crawls of Directory and Empty:  *)
(* the run expires, and a person reviews the profile's path or the seed's. *)
OperatorActs ==
  \/ site \in {Directory, Empty} /\ RunEnds
  \/ site = Directory /\ ReviewPolicy(p)
  \/ site = Empty /\ ReviewPolicy(s)

NextCrawl ==
  \/ \E w \in Worker : Claim(w) \/ Execute(w) \/ Crash(w)
  \/ LeaseRunsOut \/ ResumePolicyHold \/ OperatorActs
InitCrawl == Init /\ permitted = Url
SpecCrawl == InitCrawl /\ [][NextCrawl]_vars
FairCrawl == SpecCrawl /\ Fairness
=============================================================================
