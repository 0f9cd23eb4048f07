---------------------------- MODULE SourcePolicies ----------------------------
(* What may be read: the boundary of an organization's website, the         *)
(* registry of reviewed sources and robots.txt.  A url is [host, path,      *)
(* file]: labels, segments after the root "", and the kind of a named file. *)
EXTENDS Absence, Naturals, Sequences, FiniteSets, SequencesExt, FiniteSetsExt, TLC

CONSTANTS
    LocalityLabels,  \* labels of locality domains: "k12", "ci", ...
    StateLabels      \* two-letter labels: "tx", "us", ...

VARIABLE policies    \* source_policies, the newest first: [pattern, domain, status, approved]

Bare(host) == IF host # <<>> /\ Head(host) = "www" THEN Tail(host) ELSE host
DomainOf(url) == Bare(url.host)
LastLabels(labels, n) == SubSeq(labels, Max({1, Len(labels) - n + 1}), Len(labels))

(* <site>.<label>.<state>.us and <label>.<place>.<state>.us are sites of    *)
(* their own; so is what stands before org.uk and the like.                 *)
RegistrableDomain(host) ==
    LET labels == Bare(host)
        n == Len(labels)
        Label(i) == i \in DOMAIN labels /\ labels[i] \in LocalityLabels
        local == n > 2 /\ labels[n] = "us" /\ labels[n - 1] \in StateLabels
    IN IF n <= 2 THEN labels
       ELSE IF local /\ (Label(n - 2) \/ Label(n - 3)) THEN LastLabels(labels, 4)
       ELSE IF labels[n - 1] \in {"co", "ac", "gov", "edu", "org", "net", "com"} /\ labels[n] \in StateLabels
            THEN LastLabels(labels, 3)
       ELSE LastLabels(labels, 2)

(* The patterns of places that are not directories and of files that are    *)
(* not pages, by one or two examples of each.                               *)
IsExcludedUrl(url) ==
    \/ url.file \in {"pdf", "xml"}
    \/ ToSet(url.path) \cap {"calendar", "news", "login"} # {}

(* A website is a host and a path; sites nested in it are somebody else's.  *)
WebsiteRoot(url) == [url EXCEPT !.file = None]
MatchesWebsite(url, root) == DomainOf(url) = DomainOf(root) /\ IsPrefix(root.path, url.path)
IsWithinWebsiteScope(url, scope) ==
    LET own == WebsiteRoot(scope.own)
        Nested(other) == IsStrictPrefix(own.path, other.path)
    IN /\ MatchesWebsite(url, own)
       /\ ~\E other \in {WebsiteRoot(o) : o \in scope.others} : Nested(other) /\ MatchesWebsite(url, other)
IsAllowedDomain(url, seed, scope, allowed) ==
    /\ scope # None => IsWithinWebsiteScope(url, scope)
    /\ IF allowed = {} THEN RegistrableDomain(url.host) = RegistrableDomain(seed.host)
       ELSE \E domain \in allowed : RegistrableDomain(domain) = RegistrableDomain(url.host)
WebsiteSitemapUrl(url) == [WebsiteRoot(url) EXCEPT !.file = "xml"]

----------------------------------------------------------------------------
(* robots.txt, a sequence of [field, value].  Agents named one after the    *)
(* other share the rules that follow; the longest rule counts and an Allow  *)
(* wins a tie.  A rule without a value says nothing.                        *)
NoRules == [allow |-> {}, disallow |-> {}]
ParseLine(so, line) ==
    CASE line.field = "user-agent" ->
             [agents |-> {line.value} \cup IF so.ruled THEN {} ELSE so.agents, ruled |-> FALSE,
              groups |-> so.groups @@ (line.value :> NoRules)]
      [] so.agents # {} /\ line.field # "user-agent" ->
             [so EXCEPT !.ruled = TRUE, !.groups = [a \in DOMAIN @ |->
                 IF a \in so.agents /\ line.field \in DOMAIN NoRules /\ line.value # <<>>
                 THEN [@[a] EXCEPT ![line.field] = @ \cup {line.value}] ELSE @[a]]]
      [] OTHER -> so
ParseRobots(lines) == FoldLeft(ParseLine, [agents |-> {}, ruled |-> FALSE, groups |-> <<>>], lines).groups

LongestMatch(rules, path) == Max({0} \cup {Len(rule) : rule \in {r \in rules : IsPrefix(r, path)}})
RobotsAllow(groups, agent, path) ==
    LET rules == IF agent \in DOMAIN groups THEN groups[agent]
                 ELSE IF "*" \in DOMAIN groups THEN groups["*"] ELSE NoRules
        refused == LongestMatch(rules.disallow, path)
    IN refused = 0 \/ LongestMatch(rules.allow, path) >= refused

(* What a production process makes of an origin whose file it could not     *)
(* read, or found empty, is to refuse.                                      *)
CheckRobots(lines, agent, url) ==
    /\ lines # None
    /\ lines # <<>>
    /\ RobotsAllow(ParseRobots(lines), agent, url.path)

----------------------------------------------------------------------------
(* The registry.  The most specific policy counts, of equals the newest.    *)
MatchScore(policy, url) ==
    LET domain == Bare(policy.domain) IN
    IF policy.pattern # None THEN IF url \in policy.pattern THEN 3 ELSE 0
    ELSE IF policy.domain = <<>> THEN 0
    ELSE IF domain = DomainOf(url) THEN 2
    ELSE IF IsSuffix(domain, DomainOf(url)) \/ domain = RegistrableDomain(url.host) THEN 1
    ELSE 0
ResolvePolicy(list, url) ==
    LET Score(i) == MatchScore(list[i], url)
        covering == {i \in DOMAIN list : Score(i) > 0}
        best == {i \in covering : \A j \in covering : Score(i) >= Score(j)}
    IN IF covering = {} THEN None ELSE list[Min(best)]

(* Nothing on record, and nothing approved where a review asks for it,      *)
(* refuses; a prohibition cannot be approved away.                          *)
Evaluate(list, url) ==
    LET policy == ResolvePolicy(list, url) IN
    /\ policy # None
    /\ \/ policy.status = "permitted"
       \/ policy.status \in {"review_required", "unknown"} /\ policy.approved

NewPolicy(pattern, domain, status) == [pattern |-> pattern, domain |-> Bare(domain), status |-> status, approved |-> FALSE]
RecordReview(policy) ==
    /\ policy.pattern # None \/ policy.domain # <<>>
    /\ policies' = <<policy>> \o policies
Approve(i) ==
    /\ policies[i].status # "prohibited" /\ ~policies[i].approved
    /\ policies' = [policies EXCEPT ![i].approved = TRUE]
=============================================================================
