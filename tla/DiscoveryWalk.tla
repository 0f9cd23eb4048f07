---------------------------- MODULE DiscoveryWalk ----------------------------
(* The discovery of directories on the websites of organizations: a walk    *)
(* over links with a frontier saved on the job, several worker processes,   *)
(* leases that are lost, processes that die, and the commands that change   *)
(* the registry meanwhile.  Budgets of requests are CollectionQueue's.      *)
EXTENDS SourcePolicies

CONSTANTS
    Organizations,  \* [organization -> [seed, scope, links: what the site publishes of it]]
    Site,           \* [url -> [answer, final, directory, links]]
    RobotsFiles,    \* [origin -> lines]
    UserAgent,
    Processes,
    Reviews,        \* policies operators may record
    FirstPolicies,  \* the registry at the start
    MaxPages, MaxDepth, MaxFailures, Frontier,  \* the budgets of a walk
    MaxClaims,      \* bound: claims of one job
    MaxReviews      \* bound: reviews and approvals in all

ASSUME WalkAssumption == {MaxPages, MaxDepth, MaxFailures, Frontier, MaxClaims, MaxReviews} \subseteq Nat

VARIABLES
    job,          \* collection_jobs: [status, holder, state, claims]
    walk,         \* the execution of each process
    target,       \* crawl_targets: [url -> [owner, status]]
    targetLinks,  \* crawl_target_organizations
    seen,         \* history, per organization: what was read, asked for, dropped
    reviews

walkVars == <<policies, job, walk, target, targetLinks, seen, reviews>>

Seed(o) == Organizations[o].seed
Sitemap(o) ==
    LET scope == Organizations[o].scope IN
    IF scope = None THEN [Seed(o) EXCEPT !.path = <<"">>, !.file = "xml"] ELSE WebsiteSitemapUrl(scope.own)

(* Every url that somebody names has an answer.                             *)
ASSUME SiteAssumption ==
    /\ \A url \in DOMAIN Site : Site[url].final \in DOMAIN Site /\ Site[url].links \in Seq(DOMAIN Site)
    /\ \A o \in DOMAIN Organizations : {Seed(o), Sitemap(o)} \subseteq DOMAIN Site

InBounds(o, url) == IsAllowedDomain(url, Seed(o), Organizations[o].scope, {})
Task(url, depth) == [url |-> url, depth |-> depth]
FirstState(o) == [pending |-> <<Task(Seed(o), 0), Task(Sitemap(o), 0)>>, visited |-> {}, candidates |-> {}, pages |-> 0]
Sleeping == [pc |-> "off", org |-> None, state |-> None, registry |-> <<>>, robots |-> <<>>,
             failures |-> 0, page |-> None, outcome |-> None]

WalkInit ==
    /\ policies \in FirstPolicies
    /\ job = [o \in DOMAIN Organizations |-> [status |-> "queued", holder |-> None, state |-> None, claims |-> 0]]
    /\ walk = [p \in Processes |-> Sleeping]
    /\ target = <<>> /\ targetLinks = {}
    /\ seen = [o \in DOMAIN Organizations |-> [read |-> {}, asked |-> {}, dropped |-> {}, full |-> FALSE]]
    /\ reviews = 0

----------------------------------------------------------------------------
(* The job's lease.  A process that lost it finds out at its next renewal.  *)
Holds(p) == job[walk[p].org].holder = p
Elsewhere == <<policies, target, targetLinks, seen, reviews>>

SameDomain(o, q) == RegistrableDomain(Seed(o).host) = RegistrableDomain(Seed(q).host)
ClaimDiscovery(p, o) ==
    /\ walk[p].pc = "off"
    /\ job[o].status = "queued" /\ job[o].claims < MaxClaims
    /\ \A q \in DOMAIN Organizations : SameDomain(o, q) => job[q].status # "running"
    /\ job' = [job EXCEPT ![o].status = "running", ![o].holder = p, ![o].claims = @ + 1]
    /\ walk' = [walk EXCEPT ![p] = [Sleeping EXCEPT !.pc = "walking", !.org = o, !.registry = policies,
                    !.robots = walk[p].robots,
                    !.state = IF job[o].state = None THEN FirstState(o) ELSE job[o].state]]
    /\ UNCHANGED Elsewhere

LoseLease(o) ==
    /\ job[o].status = "running"
    /\ job' = [job EXCEPT ![o].holder = None, ![o].status = IF job[o].claims < MaxClaims THEN "queued" ELSE "failed"]
    /\ UNCHANGED <<Elsewhere, walk>>

Die(p) ==
    /\ walk[p].pc # "off"
    /\ walk' = [walk EXCEPT ![p] = Sleeping]
    /\ UNCHANGED <<Elsewhere, job>>

(* Every end of an execution is reported, and refused once the claim went.  *)
(* An exception is a failure for good: only a failed request is retried.    *)
Ended(o, outcome) ==
    CASE outcome = "retry" -> IF job[o].claims < MaxClaims THEN "queued" ELSE "failed"
      [] OTHER -> outcome
ReportEnd(p, outcome) ==
    /\ job' = IF Holds(p) THEN [job EXCEPT ![walk[p].org].status = Ended(walk[p].org, outcome), ![walk[p].org].holder = None]
              ELSE job
    /\ walk' = [walk EXCEPT ![p] = [Sleeping EXCEPT !.robots = walk[p].robots]]

----------------------------------------------------------------------------
(* discover.  The head of the frontier is dropped, refused or asked for.    *)
Current(p) == Head(walk[p].state.pending)
Shifted(state) == [state EXCEPT !.pending = Tail(@)]
Visited(state) == [Shifted(state) EXCEPT !.visited = @ \cup {Head(state.pending).url}]
MoreToDo(p) == walk[p].state.pending # <<>> /\ walk[p].state.pages < MaxPages
Walking(p) == walk[p].pc = "walking" /\ Holds(p) /\ MoreToDo(p)
AssertActive(p) ==
    /\ (walk[p].pc = "walking" /\ MoreToDo(p)) \/ walk[p].pc = "answered"
    /\ ~Holds(p)
    /\ ReportEnd(p, "failed") /\ UNCHANGED Elsewhere

Passable(p) ==
    LET task == Current(p) IN
    /\ task.url \notin walk[p].state.visited
    /\ task.depth <= MaxDepth
    /\ InBounds(walk[p].org, task.url) /\ ~IsExcludedUrl(task.url)
DropTask(p) ==
    /\ Walking(p) /\ ~Passable(p)
    /\ walk' = [walk EXCEPT ![p].state = Shifted(@)]
    /\ seen' = [seen EXCEPT ![walk[p].org].dropped = @ \cup {Current(p).url}]
    /\ UNCHANGED <<policies, job, target, targetLinks, reviews>>

(* The seed's refusal ends the walk and is on record; another's is counted, *)
(* in memory.                                                               *)
WithTarget(url, row) == [u \in DOMAIN target \cup {url} |-> IF u = url THEN row ELSE target[u]]
BlockedRow(url, o, status) ==
    WithTarget(url, [owner |-> IF url \in DOMAIN target THEN target[url].owner ELSE o, status |-> status])
RefuseTask(p, status) ==
    IF Current(p).url = Seed(walk[p].org)
    THEN /\ target' = BlockedRow(Current(p).url, walk[p].org, status)
         /\ walk' = [walk EXCEPT ![p].pc = "ending", ![p].outcome = status]
         /\ UNCHANGED <<policies, job, targetLinks, seen, reviews>>
    ELSE /\ walk' = [walk EXCEPT ![p].state = Shifted(@), ![p].failures = @ + 1]
         /\ seen' = [seen EXCEPT ![walk[p].org].dropped = @ \cup {Current(p).url}]
         /\ UNCHANGED <<policies, job, target, targetLinks, reviews>>
RefuseByRegistry(p) ==
    /\ Walking(p) /\ Passable(p) /\ ~Evaluate(walk[p].registry, Current(p).url)
    /\ RefuseTask(p, "policy_hold")

(* robots.txt is read once for an origin and process, failure included; the *)
(* origins of a page are its own and the one it redirects to.               *)
Hops(url) == {url, Site[url].final}
Origins(p) == {url.host : url \in {u \in Hops(Current(p).url) : InBounds(walk[p].org, u)}}
Consulted(p, host) == host \in DOMAIN walk[p].robots
ReadRobots(p, lines) ==
    /\ Walking(p) /\ Passable(p) /\ Evaluate(walk[p].registry, Current(p).url)
    /\ \E host \in Origins(p) :
       /\ ~Consulted(p, host) /\ lines \in {RobotsFiles[host], None}
       /\ walk' = [walk EXCEPT ![p].robots = @ @@ (host :> lines)]
    /\ UNCHANGED <<Elsewhere, job>>
RobotsPermit(p, url) == CheckRobots(walk[p].robots[url.host], UserAgent, url)
Askable(p) == Walking(p) /\ Passable(p) /\ Evaluate(walk[p].registry, Current(p).url) /\ \A host \in Origins(p) : Consulted(p, host)
RefuseByRobots(p) == Askable(p) /\ ~RobotsPermit(p, Current(p).url) /\ RefuseTask(p, "blocked")

(* The transport reads the registry again before every hop, and throws.     *)
MayRequest(p, url) ==
    /\ InBounds(walk[p].org, url) /\ ~IsExcludedUrl(url)
    /\ Evaluate(policies, url)
    /\ RobotsPermit(p, url)
RequestPage(p, answer) ==
    /\ Askable(p) /\ RobotsPermit(p, Current(p).url)
    /\ answer \in {Site[Current(p).url].answer, "down"}
    /\ IF \A url \in Hops(Current(p).url) : MayRequest(p, url)
       THEN /\ walk' = [walk EXCEPT ![p].pc = "answered", ![p].page = answer]
            /\ seen' = [seen EXCEPT ![walk[p].org].asked = @ \cup {Current(p).url}]
            /\ UNCHANGED <<policies, job, target, targetLinks, reviews>>
       ELSE ReportEnd(p, "failed") /\ UNCHANGED Elsewhere

Answered(p) == walk[p].pc = "answered" /\ Holds(p)
FinalUrl(p) == Site[Current(p).url].final

(* A failure that may pass, or the seed's, ends the walk; another page is   *)
(* passed over for good.                                                    *)
PassOver(p) ==
    Answered(p) /\ walk[p].page \in {"blocked", "gone"} /\ Current(p).url # Seed(walk[p].org)
    /\ walk' = [walk EXCEPT ![p].pc = "saving",
                    ![p].state = Visited(@),
                    ![p].failures = @ + (IF Current(p).url.file = "xml" /\ walk[p].page = "gone" THEN 0 ELSE 1)]
    /\ UNCHANGED <<Elsewhere, job>>
FailPage(p) ==
    /\ Answered(p)
    /\ walk[p].page = "down" \/ (walk[p].page \in {"blocked", "gone"} /\ Current(p).url = Seed(walk[p].org))
    /\ target' = IF walk[p].page = "blocked" THEN BlockedRow(Current(p).url, walk[p].org, "blocked") ELSE target
    /\ walk' = [walk EXCEPT ![p].pc = "ending", ![p].outcome =
                    CASE walk[p].page = "down" -> "retry" [] walk[p].page = "gone" -> "failed" [] OTHER -> "blocked"]
    /\ UNCHANGED <<policies, job, targetLinks, seen, reviews>>

(* A page: archived, recorded, and read unless it asks for a person.        *)
ReadPage(p) ==
    /\ Answered(p) /\ walk[p].page \in {"page", "challenge"}
    /\ IF walk[p].page = "challenge"
       THEN /\ target' = BlockedRow(Current(p).url, walk[p].org, "blocked")
            /\ walk' = [walk EXCEPT ![p].pc = "ending", ![p].outcome = "blocked", ![p].state.pages = @ + 1]
            /\ UNCHANGED seen
       ELSE /\ walk' = [walk EXCEPT ![p].state.pages = @ + 1,
                            ![p].pc = IF Site[FinalUrl(p)].directory THEN "recording" ELSE "expanding"]
            /\ seen' = [seen EXCEPT ![walk[p].org].read = @ \cup {Current(p).url}]
            /\ UNCHANGED target
    /\ UNCHANGED <<policies, job, targetLinks, reviews>>

(* recordTarget: the target, then its organization, in two statements.      *)
RecordDirectory(p) ==
    /\ walk[p].pc = "recording"
    /\ LET url == FinalUrl(p)
           old == IF url \in DOMAIN target THEN target[url] ELSE [owner |-> walk[p].org, status |-> "ready"]
           row == [old EXCEPT !.status = IF @ = "crawled" THEN @ ELSE "ready"]
       IN target' = WithTarget(url, row)
    /\ walk' = [walk EXCEPT ![p].pc = "linking"]
    /\ UNCHANGED <<policies, job, targetLinks, seen, reviews>>

(* A slip: a link only for a target this walk is the first to record.       *)
SlipLinkDirectory(p) ==
    /\ walk[p].pc = "linking"
    /\ targetLinks' = IF target[FinalUrl(p)].owner = walk[p].org
                      THEN targetLinks \cup {[url |-> FinalUrl(p), org |-> walk[p].org]} ELSE targetLinks
    /\ walk' = [walk EXCEPT ![p].pc = "expanding", ![p].state.candidates = @ \cup {FinalUrl(p)}]
    /\ UNCHANGED <<policies, job, target, seen, reviews>>
LinkDirectory(p) ==
    /\ walk[p].pc = "linking"
    /\ targetLinks' = targetLinks \cup {[url |-> FinalUrl(p), org |-> walk[p].org]}
    /\ walk' = [walk EXCEPT ![p].pc = "expanding", ![p].state.candidates = @ \cup {FinalUrl(p)}]
    /\ UNCHANGED <<policies, job, target, seen, reviews>>

(* The page's links enter the frontier in one go, while there is room.      *)
Waiting(state) == {state.pending[i].url : i \in DOMAIN state.pending}
Fresh(state, o, url) == InBounds(o, url) /\ url \notin state.visited /\ url \notin Waiting(state)
Pushed(state, o, url, depth) ==
    IF Fresh(state, o, url) /\ Len(state.pending) < Frontier
    THEN [state EXCEPT !.pending = Append(@, Task(url, depth))] ELSE state
Expanded(state, o, links, depth) ==
    LET after[i \in 0..Len(links)] ==
            IF i = 0 THEN Visited(state) ELSE Pushed(after[i - 1], o, links[i], depth)
    IN after[Len(links)]
ExpandPage(p) ==
    /\ walk[p].pc = "expanding"
    /\ LET links == Site[FinalUrl(p)].links
           next == Expanded(walk[p].state, walk[p].org, links, Current(p).depth + 1)
       IN /\ walk' = [walk EXCEPT ![p].state = next, ![p].pc = "saving",
                          ![p].outcome = IF walk[p].failures >= MaxFailures THEN "completed" ELSE None]
          /\ seen' = [seen EXCEPT ![walk[p].org].full = @ \/ \E u \in ToSet(links) : Fresh(next, walk[p].org, u)]
    /\ UNCHANGED <<policies, job, target, targetLinks, reviews>>

(* saveDiscoveryState: the lease is renewed, then the state written where   *)
(* the claim is still this one; what the write did is not looked at.        *)
RenewToSave(p) ==
    /\ walk[p].pc = "saving"
    /\ IF Holds(p) THEN walk' = [walk EXCEPT ![p].pc = "writing"] /\ UNCHANGED job ELSE ReportEnd(p, "failed")
    /\ UNCHANGED Elsewhere
WriteState(p) ==
    /\ walk[p].pc = "writing"
    /\ job' = IF Holds(p) THEN [job EXCEPT ![walk[p].org].state = walk[p].state] ELSE job
    /\ walk' = [walk EXCEPT ![p].pc = IF walk[p].outcome = None THEN "walking" ELSE "ending"]
    /\ UNCHANGED Elsewhere

EndWalk(p) ==
    /\ \/ walk[p].pc = "walking" /\ ~MoreToDo(p) /\ ReportEnd(p, "completed")
       \/ walk[p].pc = "ending" /\ ReportEnd(p, walk[p].outcome)
    /\ UNCHANGED Elsewhere

ChangeRegistry ==
    /\ reviews < MaxReviews /\ reviews' = reviews + 1
    /\ (\E policy \in Reviews : RecordReview(policy)) \/ (\E i \in DOMAIN policies : Approve(i))
    /\ UNCHANGED <<job, walk, target, targetLinks, seen>>

WalkNext ==
    \/ \E p \in Processes :
          \/ \E o \in DOMAIN Organizations : ClaimDiscovery(p, o)
          \/ Die(p) \/ AssertActive(p) \/ DropTask(p) \/ RefuseByRegistry(p) \/ RefuseByRobots(p)
          \/ \E lines \in Range(RobotsFiles) \cup {None} : ReadRobots(p, lines)
          \/ \E answer \in {"page", "challenge", "blocked", "gone", "down"} : RequestPage(p, answer)
          \/ PassOver(p) \/ FailPage(p) \/ ReadPage(p) \/ RecordDirectory(p) \/ LinkDirectory(p)
          \/ ExpandPage(p) \/ RenewToSave(p) \/ WriteState(p) \/ EndWalk(p)
    \/ \E o \in DOMAIN Organizations : LoseLease(o)
    \/ ChangeRegistry

----------------------------------------------------------------------------
States(o) ==
    ({job[o].state} \cup {walk[p].state : p \in {q \in Processes : walk[q].org = o /\ walk[q].pc = "walking"}}) \ {None}
TargetLinked(o, url) == url \in DOMAIN target /\ [url |-> url, org |-> o] \in targetLinks

(* What a saved frontier leaves out is dealt with: every directory among    *)
(* the pages it has behind it is a target linked to the organization,       *)
(* whatever was killed between the two statements and whoever recorded the  *)
(* target first, and every link of these pages waits, was followed or was   *)
(* dropped by a rule, unless there was no room.                             *)
NothingFoundIsLost ==
    \A o \in DOMAIN Organizations : \A state \in States(o) :
        /\ \A url \in state.candidates : TargetLinked(o, url)
        /\ \A url \in state.visited \cap seen[o].read :
              LET page == Site[Site[url].final] IN
              /\ page.directory => TargetLinked(o, Site[url].final)
              /\ seen[o].full \/ \A v \in ToSet(page.links) :
                    InBounds(o, v) => v \in state.visited \cup Waiting(state) \cup seen[o].dropped

(* "It follows directory links, intermediate navigation and sitemap         *)
(* entries": a walk that ends with nothing left has asked for the sitemap.  *)
SitemapIsRead ==
    \A p \in Processes :
        walk[p].pc = "walking" /\ walk[p].state.pending = <<>> => Sitemap(walk[p].org) \in seen[walk[p].org].asked
=============================================================================
