--------------------------- MODULE DiscoveryProofs ---------------------------
(* A saved frontier loses nothing, for every website, every set of          *)
(* organizations and processes, every budget and whatever the registry      *)
(* comes to say: what a walk has behind it is recorded or was dropped; and  *)
(* the decisions of an operator about the domains found come whole.         *)
EXTENDS DiscoveryWalk, OperatorConsole, Induction, FiniteSetTheorems, SequenceTheorems

WalkSpec == WalkInit /\ [][WalkNext]_walkVars

----------------------------------------------------------------------------
(* The inductive invariant.                                                 *)

Urls == DOMAIN Site
Orgs == DOMAIN Organizations
Tasks == [url : Urls, depth : Nat]
WalkStates == [pending : Seq(Tasks), visited : SUBSET Urls, candidates : SUBSET Urls, pages : Nat]

Shaped ==
    /\ DOMAIN walk = Processes /\ DOMAIN job = Orgs /\ DOMAIN seen = Orgs
    /\ \A p \in Processes :
          DOMAIN walk[p] = {"pc", "org", "state", "registry", "robots", "failures", "page", "outcome"}
    /\ \A o \in Orgs : DOMAIN job[o] = {"status", "holder", "state", "claims"}
    /\ \A o \in Orgs : DOMAIN seen[o] = {"read", "asked", "dropped", "full"}

(* What may be behind a walk.  A page that was visited and answered has     *)
(* been expanded; a visited url that did not answer with a page publishes   *)
(* nothing.                                                                 *)
Followed(o, state, v) == v \in state.visited \cup Waiting(state) \cup seen[o].dropped
Settled(o, state, url) ==
    LET page == Site[Site[url].final] IN
    /\ page.directory => TargetLinked(o, Site[url].final)
    /\ seen[o].full \/ \A v \in ToSet(page.links) : InBounds(o, v) => Followed(o, state, v)
Good(o, state) ==
    /\ state \in WalkStates
    /\ \A url \in state.candidates : TargetLinked(o, url)
    /\ \A url \in state.visited : Site[url].answer = "page" => Settled(o, state, url)

JobGood(o) == job[o].state # None => Good(o, job[o].state)
Working(p) ==
    walk[p].pc # "off" =>
        /\ walk[p].org \in Orgs
        /\ Good(walk[p].org, walk[p].state)
        /\ walk[p].pc \in {"answered", "recording", "linking", "expanding"} => walk[p].state.pending # <<>>
        /\ walk[p].pc = "answered" => walk[p].page \in {Site[Current(p).url].answer, "down"}
        /\ walk[p].pc = "linking" => FinalUrl(p) \in DOMAIN target
        /\ walk[p].pc = "expanding" /\ Site[FinalUrl(p)].directory => TargetLinked(walk[p].org, FinalUrl(p))
ReadIsAnswered == \A o \in Orgs : \A url \in seen[o].read : Site[url].answer = "page"
WalkInv ==
    /\ Shaped /\ ReadIsAnswered
    /\ \A o \in Orgs : JobGood(o)
    /\ \A p \in Processes : Working(p)

----------------------------------------------------------------------------
(* What every step only adds to.                                            *)
Grows ==
    /\ DOMAIN target \subseteq DOMAIN target' /\ targetLinks \subseteq targetLinks'
    /\ \A o \in Orgs : seen[o].dropped \subseteq seen'[o].dropped /\ (seen[o].full => seen'[o].full)

LEMMA GoodStays ==
    ASSUME NEW o \in Orgs, NEW state, Good(o, state), Grows
    PROVE  Good(o, state)'
<1>1. \A url : TargetLinked(o, url) => TargetLinked(o, url)'
    BY DEF Grows, TargetLinked
<1>2. \A v : Followed(o, state, v) => Followed(o, state, v)'
    BY DEF Grows, Followed
<1>3. \A url : Settled(o, state, url) => Settled(o, state, url)'
    BY <1>1, <1>2 DEF Settled, Grows
<1> QED BY <1>1, <1>3 DEF Good

(* A step of one process: the others stand where they stood.                *)
LEMMA OneMoves ==
    ASSUME WalkInv, Grows, Shaped', ReadIsAnswered', NEW p \in Processes,
           \A q \in Processes : q # p => walk'[q] = walk[q],
           Working(p)', \A o \in Orgs : JobGood(o)'
    PROVE  WalkInv'
<1>1. ASSUME NEW q \in Processes, q # p PROVE Working(q)'
  <2>1. walk'[q] = walk[q] /\ Working(q)
      BY <1>1 DEF WalkInv
  <2>2. SUFFICES ASSUME walk[q].pc # "off" PROVE Working(q)'
      BY <2>1 DEF Working
  <2>3. walk[q].org \in Orgs /\ Good(walk[q].org, walk[q].state)
      BY <2>1, <2>2 DEF Working
  <2>4. \A o \in Orgs : \A state : Good(o, state) => Good(o, state)'
      BY GoodStays
  <2>5. Good(walk[q].org, walk[q].state)'
      BY <2>1, <2>3, <2>4
  <2>6. Current(q)' = Current(q) /\ FinalUrl(q)' = FinalUrl(q)
      BY <2>1 DEF Current, FinalUrl
  <2>7. \A o, url : TargetLinked(o, url) => TargetLinked(o, url)'
      BY DEF Grows, TargetLinked
  <2>8. DOMAIN target \subseteq DOMAIN target'
      BY DEF Grows
  <2> QED BY <2>1, <2>2, <2>3, <2>5, <2>6, <2>7, <2>8 DEF Working
<1> QED BY <1>1 DEF WalkInv

LEMMA JobsStay ==
    ASSUME WalkInv, Grows, NEW o \in Orgs, job'[o].state = job[o].state
    PROVE  JobGood(o)'
<1>1. JobGood(o)
    BY DEF WalkInv
<1>2. \A state : Good(o, state) => Good(o, state)'
    BY GoodStays
<1> QED BY <1>1, <1>2 DEF JobGood

LEMMA Unmoved ==
    ASSUME UNCHANGED <<target, targetLinks, seen>>
    PROVE  Grows
BY DEF Grows

----------------------------------------------------------------------------
(* The frontier.                                                            *)

LEMMA TaskParts ==
    ASSUME NEW state \in WalkStates, state.pending # <<>>
    PROVE  /\ Head(state.pending).url \in Urls /\ Head(state.pending).depth \in Nat
           /\ Shifted(state) \in WalkStates
           /\ Shifted(state).visited = state.visited /\ Shifted(state).candidates = state.candidates
           /\ Waiting(state) \subseteq Waiting(Shifted(state)) \cup {Head(state.pending).url}
<1>1. state.pending \in Seq(Tasks) /\ Tail(state.pending) \in Seq(Tasks) /\ Head(state.pending) \in Tasks
    BY HeadTailProperties DEF WalkStates
<1>2. Shifted(state) \in WalkStates /\ Shifted(state).pending = Tail(state.pending)
    BY <1>1 DEF Shifted, WalkStates
<1>3. \A i \in DOMAIN state.pending : i # 1 =>
          i - 1 \in DOMAIN Tail(state.pending) /\ Tail(state.pending)[i - 1] = state.pending[i]
    BY <1>1
<1>4. Head(state.pending) = state.pending[1]
    BY <1>1
<1>5. Waiting(state) \subseteq Waiting(Shifted(state)) \cup {Head(state.pending).url}
    BY <1>2, <1>3, <1>4 DEF Waiting
<1> QED BY <1>1, <1>2, <1>5 DEF Shifted, WalkStates, Tasks

(* A link that is pushed waits after all that waited before it.             *)
LEMMA PushesOne ==
    ASSUME NEW state \in WalkStates, NEW o, NEW url \in Urls, NEW depth \in Nat
    PROVE  /\ Pushed(state, o, url, depth) \in WalkStates
           /\ Pushed(state, o, url, depth).visited = state.visited
           /\ Pushed(state, o, url, depth).candidates = state.candidates
           /\ Waiting(state) \subseteq Waiting(Pushed(state, o, url, depth))
<1>1. CASE Pushed(state, o, url, depth) = state
    BY <1>1
<1>2. CASE Pushed(state, o, url, depth) = [state EXCEPT !.pending = Append(@, Task(url, depth))]
  <2> DEFINE more == Append(state.pending, Task(url, depth))
  <2>1. Task(url, depth) \in Tasks /\ state.pending \in Seq(Tasks)
      BY DEF Task, Tasks, WalkStates
  <2>2. more \in Seq(Tasks) /\ \A i \in DOMAIN state.pending : i \in DOMAIN more /\ more[i] = state.pending[i]
      BY <2>1
  <2> HIDE DEF more
  <2>3. [state EXCEPT !.pending = more] \in WalkStates /\ [state EXCEPT !.pending = more].pending = more
      BY <2>2 DEF WalkStates
  <2>4. Waiting(state) \subseteq Waiting([state EXCEPT !.pending = more])
      BY <2>2, <2>3 DEF Waiting
  <2>5. Pushed(state, o, url, depth) = [state EXCEPT !.pending = more]
      BY <1>2 DEF more
  <2> QED BY <2>3, <2>4, <2>5 DEF WalkStates
<1> QED BY <1>1, <1>2 DEF Pushed

(* Expanding a page puts it behind the walk and loses nothing that waited.  *)
LEMMA ExpandsWhole ==
    ASSUME NEW state \in WalkStates, state.pending # <<>>, NEW o, NEW links \in Seq(Urls), NEW depth \in Nat
    PROVE  /\ Expanded(state, o, links, depth) \in WalkStates
           /\ Expanded(state, o, links, depth).visited = state.visited \cup {Head(state.pending).url}
           /\ Expanded(state, o, links, depth).candidates = state.candidates
           /\ Waiting(state) \subseteq Waiting(Expanded(state, o, links, depth)) \cup {Head(state.pending).url}
<1> DEFINE N == Len(links)
           a == Visited(state)
           Is(f) == f = [i \in 0..N |-> IF i = 0 THEN a ELSE Pushed(f[i - 1], o, links[i], depth)]
           U == {s \in WalkStates : s.visited = a.visited /\ s.candidates = a.candidates /\ Waiting(a) \subseteq Waiting(s)}
           next == [i \in 1..N |-> [s \in U |-> Pushed(s, o, links[i], depth)]]
<1>1. Expanded(state, o, links, depth) = (CHOOSE f : Is(f))[N]
    BY DEF Expanded
<1>2. /\ a \in WalkStates /\ a.visited = state.visited \cup {Head(state.pending).url}
      /\ a.candidates = state.candidates /\ a.pending = Shifted(state).pending
  <2>1. Shifted(state) \in WalkStates /\ Shifted(state).visited = state.visited
        /\ Shifted(state).candidates = state.candidates /\ Head(state.pending).url \in Urls
      BY TaskParts
  <2> QED BY <2>1 DEF Visited, WalkStates
<1> HIDE DEF a
<1>3. Waiting(state) \subseteq Waiting(a) \cup {Head(state.pending).url}
  <2>1. Waiting(a) = Waiting(Shifted(state))
      BY <1>2 DEF Waiting
  <2> QED BY <2>1, TaskParts
<1>4. a \in U
    BY <1>2
<1>5. N \in Nat /\ \A i \in 1..N : links[i] \in Urls
    OBVIOUS
<1>6. ASSUME NEW i \in 1..N, NEW s \in U PROVE Pushed(s, o, links[i], depth) \in U
  <2>1. s \in WalkStates /\ links[i] \in Urls
      BY <1>5
  <2> DEFINE t == Pushed(s, o, links[i], depth)
  <2>2. t \in WalkStates /\ t.visited = s.visited /\ t.candidates = s.candidates /\ Waiting(s) \subseteq Waiting(t)
    <3> HIDE DEF N, U
    <3> QED BY <2>1, PushesOne
  <2> HIDE DEF t
  <2>3. t \in U
      BY <2>2
  <2> QED BY <2>3 DEF t
<1>7. next \in [1..N -> [U -> U]]
    BY <1>6
<1>8. \A i \in 1..N, s \in U : next[i][s] = Pushed(s, o, links[i], depth)
    OBVIOUS
<1> HIDE DEF next, U, N
<1>9. PICK g \in [0..N -> U] : Runs(g, N, a, next)
    BY <1>4, <1>5, <1>7, Iteration
<1>10. Is(g)
  <2>1. \A i \in 0..N : i # 0 => i \in 1..N /\ i - 1 \in 0..N
      BY <1>5
  <2>2. \A i \in 0..N : i # 0 => next[i][g[i - 1]] = Pushed(g[i - 1], o, links[i], depth)
      BY <1>8, <2>1
  <2>3. \A i \in 0..N : (IF i = 0 THEN a ELSE next[i][g[i - 1]])
                        = (IF i = 0 THEN a ELSE Pushed(g[i - 1], o, links[i], depth))
      BY <2>2
  <2> QED BY <1>9, <2>3 DEF Runs
<1>11. PICK f : Is(f) /\ Expanded(state, o, links, depth) = f[N]
  <2> HIDE DEF Is
  <2> QED BY <1>1, <1>10
<1> DEFINE S == {i \in Nat : i <= N => f[i] \in U}
<1>12. 0 \in S
    BY <1>4, <1>5, <1>11
<1>13. ASSUME NEW i \in Nat, i \in S PROVE i + 1 \in S
  <2> SUFFICES ASSUME i + 1 <= N PROVE f[i + 1] \in U
      OBVIOUS
  <2>1. f[i] \in U /\ i + 1 \in 0..N /\ i + 1 \in 1..N /\ (i + 1) - 1 = i /\ i + 1 # 0
      BY <1>5, <1>13
  <2>2. f[i + 1] = Pushed(f[(i + 1) - 1], o, links[i + 1], depth)
      BY <1>11, <2>1
  <2> QED BY <1>6, <2>1, <2>2
<1>14. N \in S
  <2> HIDE DEF S
  <2> QED BY <1>5, <1>12, <1>13, NaturalsByInduction
<1>15. f[N] \in U
    BY <1>5, <1>14
<1> QED BY <1>2, <1>3, <1>11, <1>15 DEF U
----------------------------------------------------------------------------
(* The steps.                                                               *)

Steady == UNCHANGED <<target, targetLinks, seen>>
SameJobs ==
    /\ DOMAIN job' = Orgs
    /\ \A o \in Orgs : DOMAIN job'[o] = DOMAIN job[o] /\ job'[o].state = job[o].state

(* A walk that goes on from one state to another.                           *)
LEMMA GoodMoves ==
    ASSUME NEW o \in Orgs, NEW state, Good(o, state), Grows, NEW next \in WalkStates,
           \A url \in next.candidates : url \in state.candidates \/ TargetLinked(o, url)',
           \A url \in next.visited : url \in state.visited \/ (Site[url].answer = "page" => Settled(o, next, url)'),
           \A v : Followed(o, state, v) => Followed(o, next, v)'
    PROVE  Good(o, next)'
<1>1. \A url : TargetLinked(o, url) => TargetLinked(o, url)'
    BY DEF Grows, TargetLinked
<1>2. \A url : Settled(o, state, url) => Settled(o, next, url)'
    BY <1>1 DEF Settled, Grows
<1> QED BY <1>1, <1>2 DEF Good

(* An execution ends: nothing it holds counts any more.                     *)
LEMMA Retires ==
    ASSUME WalkInv, Steady, SameJobs, NEW p \in Processes, NEW robots,
           walk' = [walk EXCEPT ![p] = [Sleeping EXCEPT !.robots = robots]]
    PROVE  WalkInv'
<1>1. walk'[p].pc = "off" /\ DOMAIN walk'[p] = DOMAIN walk[p]
    BY DEF WalkInv, Shaped, Sleeping
<1>2. DOMAIN walk' = Processes /\ \A q \in Processes : q # p => walk'[q] = walk[q]
    BY DEF WalkInv, Shaped
<1>3. Working(p)'
    BY <1>1 DEF Working
<1>4. Shaped' /\ ReadIsAnswered'
    BY <1>1, <1>2 DEF WalkInv, Shaped, ReadIsAnswered, Steady, SameJobs
<1>5. Grows
    BY Unmoved DEF Steady
<1>6. \A o \in Orgs : JobGood(o)'
    BY <1>5, JobsStay DEF SameJobs
<1> QED BY <1>2, <1>3, <1>4, <1>5, <1>6, OneMoves

LEMMA ReportsEnd ==
    ASSUME WalkInv, NEW p \in Processes, NEW outcome, ReportEnd(p, outcome), Steady, walk[p].pc # "off"
    PROVE  WalkInv'
<1>1. SameJobs
    BY DEF ReportEnd, SameJobs, WalkInv, Shaped
<1> QED BY <1>1, Retires DEF ReportEnd

LEMMA ClaimStep ==
    ASSUME WalkInv, NEW p \in Processes, NEW o \in Orgs, ClaimDiscovery(p, o)
    PROVE  WalkInv'
<1>0. PICK state : state = IF job[o].state = None THEN FirstState(o) ELSE job[o].state
    OBVIOUS
<1>1. Steady /\ SameJobs
    BY DEF ClaimDiscovery, Steady, SameJobs, Elsewhere, WalkInv, Shaped
<1>2. Grows
    BY <1>1, Unmoved DEF Steady
<1>3. DOMAIN walk' = Processes /\ \A q \in Processes : q # p => walk'[q] = walk[q]
    BY DEF ClaimDiscovery, WalkInv, Shaped
<1>4. /\ walk'[p].pc = "walking" /\ walk'[p].org = o /\ walk'[p].state = state
      /\ DOMAIN walk'[p] = DOMAIN walk[p]
    BY <1>0 DEF ClaimDiscovery, WalkInv, Shaped, Sleeping
<1>5. Good(o, FirstState(o))
  <2>1. Task(Seed(o), 0) \in Tasks /\ Task(Sitemap(o), 0) \in Tasks
      BY SiteAssumption DEF Task, Tasks, Urls, Orgs
  <2>2. <<Task(Seed(o), 0), Task(Sitemap(o), 0)>> \in Seq(Tasks)
      BY <2>1
  <2>3. FirstState(o) \in WalkStates /\ FirstState(o).visited = {} /\ FirstState(o).candidates = {}
      BY <2>2 DEF FirstState, WalkStates
  <2> QED BY <2>3 DEF Good
<1>6. Good(o, state)
    BY <1>0, <1>5 DEF WalkInv, JobGood
<1>7. Good(o, state)'
    BY <1>2, <1>6, GoodStays
<1>8. Working(p)'
    BY <1>4, <1>7 DEF Working
<1>9. Shaped' /\ ReadIsAnswered'
    BY <1>1, <1>3, <1>4 DEF WalkInv, Shaped, ReadIsAnswered, Steady, SameJobs
<1>10. \A q \in Orgs : JobGood(q)'
    BY <1>1, <1>2, JobsStay DEF SameJobs
<1> QED BY <1>2, <1>3, <1>8, <1>9, <1>10, OneMoves

(* A process goes on: what is left to show is where it comes to stand.      *)
LEMMA GoesOn ==
    ASSUME WalkInv, Grows, NEW p \in Processes, NEW next,
           walk' = [walk EXCEPT ![p] = next], DOMAIN next = DOMAIN walk[p],
           SameJobs, seen' = seen \/ (Shaped' /\ ReadIsAnswered'), Working(p)'
    PROVE  WalkInv'
<1>1. /\ walk'[p] = next /\ DOMAIN walk' = Processes
      /\ \A q \in Processes : q # p => walk'[q] = walk[q]
    BY DEF WalkInv, Shaped
<1>2. Shaped' /\ ReadIsAnswered'
    BY <1>1 DEF WalkInv, Shaped, ReadIsAnswered, SameJobs
<1>3. \A o \in Orgs : JobGood(o)'
    BY JobsStay DEF SameJobs
<1> QED BY <1>1, <1>2, <1>3, OneMoves
(* The head of the frontier goes, on record.                                *)
LEMMA HeadIsDropped ==
    ASSUME WalkInv, NEW p \in Processes, walk[p].pc = "walking", walk[p].state.pending # <<>>, NEW next,
           walk' = [walk EXCEPT ![p] = next], DOMAIN next = DOMAIN walk[p],
           next.pc = "walking", next.org = walk[p].org, next.state = Shifted(walk[p].state),
           seen' = [seen EXCEPT ![walk[p].org].dropped = @ \cup {Current(p).url}],
           UNCHANGED <<job, target, targetLinks>>
    PROVE  WalkInv'
<1>1. PICK o, state : o = walk[p].org /\ state = walk[p].state
    OBVIOUS
<1>2. o \in Orgs /\ Good(o, state) /\ state \in WalkStates /\ state.pending # <<>>
    BY <1>1 DEF WalkInv, Working, Good
<1>3. DOMAIN seen' = Orgs /\ \A q \in Orgs :
          /\ DOMAIN seen'[q] = DOMAIN seen[q] /\ seen'[q].read = seen[q].read /\ seen'[q].full = seen[q].full
          /\ seen[q].dropped \subseteq seen'[q].dropped
    BY DEF WalkInv, Shaped
<1>4. Head(state.pending).url \in seen'[o].dropped
    BY <1>1, <1>2 DEF WalkInv, Shaped, Current
<1>5. Grows
    BY <1>3 DEF Grows
<1>6. SameJobs
    BY DEF SameJobs, WalkInv, Shaped
<1>7. PICK after : after = Shifted(state)
    OBVIOUS
<1>8. /\ after \in WalkStates /\ after.visited = state.visited /\ after.candidates = state.candidates
      /\ Waiting(state) \subseteq Waiting(after) \cup {Head(state.pending).url}
    BY <1>2, <1>7, TaskParts
<1>9. \A v : Followed(o, state, v) => Followed(o, after, v)'
    BY <1>2, <1>3, <1>4, <1>8 DEF Followed
<1>10. Good(o, after)'
    BY <1>2, <1>5, <1>8, <1>9, GoodMoves
<1>11. walk'[p] = next
    BY DEF WalkInv, Shaped
<1>12. Working(p)'
    BY <1>1, <1>2, <1>7, <1>10, <1>11 DEF Working
<1>13. Shaped' /\ ReadIsAnswered'
    BY <1>3, <1>6, <1>11 DEF WalkInv, Shaped, ReadIsAnswered, SameJobs
<1> QED BY <1>5, <1>6, <1>12, <1>13, GoesOn

LEMMA DropStep ==
    ASSUME WalkInv, NEW p \in Processes, DropTask(p)
    PROVE  WalkInv'
<1> DEFINE next == [walk[p] EXCEPT !.state = Shifted(@)]
<1>1. walk[p].pc = "walking" /\ walk[p].state.pending # <<>>
    BY DEF DropTask, Walking, MoreToDo
<1>2. /\ walk' = [walk EXCEPT ![p] = next] /\ DOMAIN next = DOMAIN walk[p]
      /\ next.pc = "walking" /\ next.org = walk[p].org /\ next.state = Shifted(walk[p].state)
    BY <1>1 DEF DropTask, WalkInv, Shaped
<1> HIDE DEF next
<1> QED BY <1>1, <1>2, HeadIsDropped DEF DropTask

(* Only where it stands and the tables grow.                                *)
LEMMA StateStays ==
    ASSUME WalkInv, Grows, NEW p \in Processes, walk[p].pc # "off", NEW next,
           walk' = [walk EXCEPT ![p] = next], DOMAIN next = DOMAIN walk[p],
           next.pc \in {"walking", "ending", "saving", "writing"},
           next.org = walk[p].org, next.state = walk[p].state,
           SameJobs, seen' = seen
    PROVE  WalkInv'
<1>1. PICK o, state : o = walk[p].org /\ state = walk[p].state
    OBVIOUS
<1>2. o \in Orgs /\ Good(o, state)
    BY <1>1 DEF WalkInv, Working
<1>3. Good(o, state)'
    BY <1>2, GoodStays
<1>4. walk'[p] = next
    BY DEF WalkInv, Shaped
<1>5. Working(p)'
    BY <1>1, <1>2, <1>3, <1>4 DEF Working
<1> QED BY <1>5, GoesOn

LEMMA RefuseStep ==
    ASSUME WalkInv, NEW p \in Processes, Walking(p), NEW status, RefuseTask(p, status)
    PROVE  WalkInv'
<1>1. walk[p].pc = "walking" /\ walk[p].state.pending # <<>>
    BY DEF Walking, MoreToDo
<1>2. CASE Current(p).url = Seed(walk[p].org)
  <2> DEFINE next == [walk[p] EXCEPT !.pc = "ending", !.outcome = status]
  <2>1. /\ walk' = [walk EXCEPT ![p] = next] /\ DOMAIN next = DOMAIN walk[p]
        /\ next.pc = "ending" /\ next.org = walk[p].org /\ next.state = walk[p].state
      BY <1>1, <1>2 DEF RefuseTask, WalkInv, Shaped
  <2>2. seen' = seen /\ job' = job /\ targetLinks' = targetLinks /\ DOMAIN target \subseteq DOMAIN target'
      BY <1>2 DEF RefuseTask, BlockedRow, WithTarget
  <2>3. Grows /\ SameJobs
      BY <2>2 DEF Grows, SameJobs, WalkInv, Shaped
  <2> HIDE DEF next
  <2> QED BY <1>1, <2>1, <2>2, <2>3, StateStays
<1>3. CASE Current(p).url # Seed(walk[p].org)
  <2> DEFINE next == [walk[p] EXCEPT !.state = Shifted(@), !.failures = @ + 1]
  <2>1. /\ walk' = [walk EXCEPT ![p] = next] /\ DOMAIN next = DOMAIN walk[p]
        /\ next.pc = "walking" /\ next.org = walk[p].org /\ next.state = Shifted(walk[p].state)
      BY <1>1, <1>3 DEF RefuseTask, WalkInv, Shaped
  <2> HIDE DEF next
  <2> QED BY <1>1, <1>3, <2>1, HeadIsDropped DEF RefuseTask
<1> QED BY <1>2, <1>3
LEMMA RobotsStep ==
    ASSUME WalkInv, NEW p \in Processes, NEW lines, ReadRobots(p, lines)
    PROVE  WalkInv'
<1>1. PICK host : walk' = [walk EXCEPT ![p].robots = @ @@ (host :> lines)]
    BY DEF ReadRobots
<1> DEFINE next == [walk[p] EXCEPT !.robots = @ @@ (host :> lines)]
<1>2. walk[p].pc = "walking"
    BY DEF ReadRobots, Walking
<1>3. /\ walk' = [walk EXCEPT ![p] = next] /\ DOMAIN next = DOMAIN walk[p]
      /\ next.pc = "walking" /\ next.org = walk[p].org /\ next.state = walk[p].state
    BY <1>1, <1>2 DEF WalkInv, Shaped
<1>4. Grows /\ SameJobs /\ seen' = seen
    BY Unmoved DEF ReadRobots, Elsewhere, SameJobs, WalkInv, Shaped
<1> HIDE DEF next
<1> QED BY <1>2, <1>3, <1>4, StateStays

LEMMA RequestStep ==
    ASSUME WalkInv, NEW p \in Processes, NEW answer, RequestPage(p, answer)
    PROVE  WalkInv'
<1>1. walk[p].pc = "walking" /\ walk[p].state.pending # <<>> /\ answer \in {Site[Current(p).url].answer, "down"}
    BY DEF RequestPage, Askable, Walking, MoreToDo
<1>2. CASE \A url \in Hops(Current(p).url) : MayRequest(p, url)
  <2> DEFINE next == [walk[p] EXCEPT !.pc = "answered", !.page = answer]
  <2>1. PICK o, state : o = walk[p].org /\ state = walk[p].state
      OBVIOUS
  <2>2. o \in Orgs /\ Good(o, state)
      BY <1>1, <2>1 DEF WalkInv, Working
  <2>3. /\ walk' = [walk EXCEPT ![p] = next] /\ DOMAIN next = DOMAIN walk[p]
        /\ next.pc = "answered" /\ next.org = o /\ next.state = state /\ next.page = answer
      BY <1>1, <1>2, <2>1 DEF RequestPage, WalkInv, Shaped
  <2> HIDE DEF next
  <2>4. DOMAIN seen' = Orgs /\ \A q \in Orgs :
            /\ DOMAIN seen'[q] = DOMAIN seen[q] /\ seen'[q].read = seen[q].read
            /\ seen'[q].full = seen[q].full /\ seen'[q].dropped = seen[q].dropped
      BY <1>2 DEF RequestPage, WalkInv, Shaped
  <2>5. Grows /\ SameJobs
      BY <1>2, <2>4 DEF RequestPage, Grows, SameJobs, WalkInv, Shaped
  <2>6. Good(o, state)'
      BY <2>2, <2>5, GoodStays
  <2>7. walk'[p] = next
      BY <2>3 DEF WalkInv, Shaped
  <2>8. Working(p)'
    <3>1. Current(p)' = Current(p)
        BY <2>1, <2>3, <2>7 DEF Current
    <3> QED BY <1>1, <2>1, <2>2, <2>3, <2>6, <2>7, <3>1 DEF Working
  <2>9. Shaped' /\ ReadIsAnswered'
      BY <2>3, <2>4, <2>5, <2>7 DEF WalkInv, Shaped, ReadIsAnswered, SameJobs
  <2> QED BY <2>3, <2>5, <2>8, <2>9, GoesOn
<1>3. CASE ~\A url \in Hops(Current(p).url) : MayRequest(p, url)
  <2>1. ReportEnd(p, "failed") /\ Steady
      BY <1>3 DEF RequestPage, Elsewhere, Steady
  <2> QED BY <1>1, <2>1, ReportsEnd
<1> QED BY <1>2, <1>3

(* A url that did not answer with a page is behind the walk with nothing.   *)
LEMMA PassStep ==
    ASSUME WalkInv, NEW p \in Processes, PassOver(p)
    PROVE  WalkInv'
<1>1. PICK o, state : o = walk[p].org /\ state = walk[p].state
    OBVIOUS
<1>2. /\ o \in Orgs /\ Good(o, state) /\ state \in WalkStates /\ state.pending # <<>>
      /\ Site[Head(state.pending).url].answer # "page"
    BY <1>1 DEF WalkInv, Working, Good, PassOver, Answered, Current
<1>3. PICK after : after = Visited(state)
    OBVIOUS
<1>4. /\ after \in WalkStates /\ after.visited = state.visited \cup {Head(state.pending).url}
      /\ after.candidates = state.candidates /\ after.pending = Shifted(state).pending
    BY <1>2, <1>3, TaskParts DEF Visited, WalkStates
<1>5. Waiting(state) \subseteq Waiting(after) \cup {Head(state.pending).url}
    BY <1>2, <1>4, TaskParts DEF Waiting
<1> DEFINE count == walk[p].failures + (IF Current(p).url.file = "xml" /\ walk[p].page = "gone" THEN 0 ELSE 1)
           next == [walk[p] EXCEPT !.pc = "saving", !.state = after, !.failures = count]
<1>12. walk' = [walk EXCEPT ![p] = next]
    BY <1>1, <1>3 DEF PassOver
<1> HIDE DEF count
<1>6. /\ walk' = [walk EXCEPT ![p] = next] /\ DOMAIN next = DOMAIN walk[p]
      /\ next.pc = "saving" /\ next.org = o /\ next.state = after
    BY <1>1, <1>12 DEF WalkInv, Shaped
<1> HIDE DEF next
<1>7. Grows /\ SameJobs /\ seen' = seen
    BY Unmoved DEF PassOver, Elsewhere, SameJobs, WalkInv, Shaped
<1>8. \A v : Followed(o, state, v) => Followed(o, after, v)'
    BY <1>4, <1>5, <1>7 DEF Followed
<1>9. Good(o, after)'
    BY <1>2, <1>4, <1>7, <1>8, GoodMoves
<1>10. walk'[p] = next
    BY <1>6 DEF WalkInv, Shaped
<1>11. Working(p)'
    BY <1>2, <1>6, <1>9, <1>10 DEF Working
<1> QED BY <1>6, <1>7, <1>11, GoesOn

LEMMA FailStep ==
    ASSUME WalkInv, NEW p \in Processes, FailPage(p)
    PROVE  WalkInv'
<1> DEFINE end == CASE walk[p].page = "down" -> "retry" [] walk[p].page = "gone" -> "failed" [] OTHER -> "blocked"
           next == [walk[p] EXCEPT !.pc = "ending", !.outcome = end]
<1>1. walk[p].pc = "answered"
    BY DEF FailPage, Answered
<1>2. walk' = [walk EXCEPT ![p] = next]
    BY DEF FailPage
<1> HIDE DEF end
<1>3. /\ DOMAIN next = DOMAIN walk[p]
      /\ next.pc = "ending" /\ next.org = walk[p].org /\ next.state = walk[p].state
    BY DEF WalkInv, Shaped
<1>4. seen' = seen /\ job' = job /\ targetLinks' = targetLinks /\ DOMAIN target \subseteq DOMAIN target'
    BY DEF FailPage, BlockedRow, WithTarget
<1>5. Grows /\ SameJobs
    BY <1>4 DEF Grows, SameJobs, WalkInv, Shaped
<1> HIDE DEF next
<1> QED BY <1>1, <1>2, <1>3, <1>4, <1>5, StateStays
(* What is read answered with a page; its state only counts it.             *)
LEMMA ReadStep ==
    ASSUME WalkInv, NEW p \in Processes, ReadPage(p)
    PROVE  WalkInv'
<1>1. PICK o, state : o = walk[p].org /\ state = walk[p].state
    OBVIOUS
<1>2. /\ o \in Orgs /\ Good(o, state) /\ state \in WalkStates /\ state.pending # <<>>
      /\ walk[p].page \in {Site[Current(p).url].answer, "down"}
    BY <1>1 DEF WalkInv, Working, Good, ReadPage, Answered
<1>3. PICK after : after = [state EXCEPT !.pages = @ + 1]
    OBVIOUS
<1>4. /\ after \in WalkStates /\ after.visited = state.visited /\ after.candidates = state.candidates
      /\ after.pending = state.pending
    BY <1>2, <1>3 DEF WalkStates
<1>5. \E next :
          /\ walk' = [walk EXCEPT ![p] = next] /\ DOMAIN next = DOMAIN walk[p]
          /\ next.org = o /\ next.state = after /\ next.pc \in {"ending", "recording", "expanding"}
          /\ next.pc = "expanding" => ~Site[FinalUrl(p)].directory
  <2>1. CASE walk[p].page = "challenge"
    <3> DEFINE next == [walk[p] EXCEPT !.pc = "ending", !.outcome = "blocked", !.state = after]
    <3>1. walk' = [walk EXCEPT ![p].pc = "ending", ![p].outcome = "blocked", ![p].state.pages = @ + 1]
        BY <2>1 DEF ReadPage
    <3>2. walk' = [walk EXCEPT ![p] = next]
        BY <1>1, <1>3, <3>1 DEF WalkInv, Shaped
    <3>3. DOMAIN next = DOMAIN walk[p] /\ next.org = o /\ next.state = after /\ next.pc = "ending"
        BY <1>1 DEF WalkInv, Shaped
    <3> QED BY <3>2, <3>3
  <2>2. CASE walk[p].page # "challenge"
    <3> DEFINE to == IF Site[FinalUrl(p)].directory THEN "recording" ELSE "expanding"
               next == [walk[p] EXCEPT !.pc = to, !.state = after]
    <3>1. walk' = [walk EXCEPT ![p].state.pages = @ + 1, ![p].pc = to]
        BY <2>2 DEF ReadPage
    <3> HIDE DEF to
    <3>2. walk' = [walk EXCEPT ![p] = next]
        BY <1>1, <1>3, <3>1 DEF WalkInv, Shaped
    <3>3. DOMAIN next = DOMAIN walk[p] /\ next.org = o /\ next.state = after /\ next.pc = to
        BY <1>1 DEF WalkInv, Shaped
    <3>4. to \in {"recording", "expanding"} /\ (to = "expanding" => ~Site[FinalUrl(p)].directory)
        BY DEF to
    <3> HIDE DEF next
    <3> QED BY <3>2, <3>3, <3>4
  <2> QED BY <2>1, <2>2
<1>6. PICK next :
          /\ walk' = [walk EXCEPT ![p] = next] /\ DOMAIN next = DOMAIN walk[p]
          /\ next.org = o /\ next.state = after /\ next.pc \in {"ending", "recording", "expanding"}
          /\ next.pc = "expanding" => ~Site[FinalUrl(p)].directory
    BY <1>5
<1>7. walk'[p] = next
    BY <1>6 DEF WalkInv, Shaped
<1>8. /\ DOMAIN seen' = Orgs
      /\ \A q \in Orgs : DOMAIN seen'[q] = DOMAIN seen[q] /\ seen'[q].full = seen[q].full
                        /\ seen'[q].dropped = seen[q].dropped
      /\ \A q \in Orgs : \A url \in seen'[q].read : url \in seen[q].read \/ Site[url].answer = "page"
  <2>1. CASE walk[p].page = "challenge"
      BY <2>1 DEF ReadPage, WalkInv, Shaped
  <2>2. CASE walk[p].page # "challenge"
    <3>1. walk[p].page = "page" /\ Site[Current(p).url].answer = "page"
        BY <1>2, <2>2 DEF ReadPage
    <3>2. seen' = [seen EXCEPT ![walk[p].org].read = @ \cup {Current(p).url}]
        BY <2>2 DEF ReadPage
    <3> QED BY <3>1, <3>2 DEF WalkInv, Shaped
  <2> QED BY <2>1, <2>2
<1>9. job' = job /\ targetLinks' = targetLinks /\ DOMAIN target \subseteq DOMAIN target'
    BY DEF ReadPage, BlockedRow, WithTarget
<1>10. Grows /\ SameJobs
    BY <1>8, <1>9 DEF Grows, SameJobs, WalkInv, Shaped
<1>11. \A v : Followed(o, state, v) => Followed(o, after, v)'
    BY <1>2, <1>4, <1>8 DEF Followed, Waiting
<1>12. Good(o, after)'
    BY <1>2, <1>4, <1>10, <1>11, GoodMoves
<1>13. FinalUrl(p)' = FinalUrl(p)
    BY <1>1, <1>4, <1>6, <1>7 DEF FinalUrl, Current
<1>14. Working(p)'
    BY <1>2, <1>4, <1>6, <1>7, <1>12, <1>13 DEF Working
<1>15. Shaped' /\ ReadIsAnswered'
    BY <1>6, <1>7, <1>8, <1>10 DEF WalkInv, Shaped, ReadIsAnswered, SameJobs
<1> QED BY <1>6, <1>10, <1>14, <1>15, GoesOn

LEMMA RecordStep ==
    ASSUME WalkInv, NEW p \in Processes, RecordDirectory(p)
    PROVE  WalkInv'
<1>1. PICK o, state : o = walk[p].org /\ state = walk[p].state
    OBVIOUS
<1>2. o \in Orgs /\ Good(o, state) /\ state.pending # <<>>
    BY <1>1 DEF WalkInv, Working, RecordDirectory
<1> DEFINE next == [walk[p] EXCEPT !.pc = "linking"]
<1>3. /\ walk' = [walk EXCEPT ![p] = next] /\ DOMAIN next = DOMAIN walk[p]
      /\ next.pc = "linking" /\ next.org = o /\ next.state = state
    BY <1>1 DEF RecordDirectory, WalkInv, Shaped
<1> HIDE DEF next
<1>4. DOMAIN target' = {FinalUrl(p)} \cup DOMAIN target
  <2>1. PICK row : target' = WithTarget(FinalUrl(p), row)
      BY DEF RecordDirectory
  <2> QED BY <2>1 DEF WithTarget
<1>5. job' = job /\ targetLinks' = targetLinks /\ seen' = seen
    BY DEF RecordDirectory
<1>6. Grows /\ SameJobs
    BY <1>4, <1>5 DEF Grows, SameJobs, WalkInv, Shaped
<1>7. Good(o, state)'
    BY <1>2, <1>6, GoodStays
<1>8. walk'[p] = next
    BY <1>3 DEF WalkInv, Shaped
<1>9. FinalUrl(p)' = FinalUrl(p)
    BY <1>1, <1>3, <1>8 DEF FinalUrl, Current
<1>10. Working(p)'
    BY <1>2, <1>3, <1>4, <1>7, <1>8, <1>9 DEF Working
<1> QED BY <1>3, <1>5, <1>6, <1>10, GoesOn

LEMMA LinkStep ==
    ASSUME WalkInv, NEW p \in Processes, LinkDirectory(p)
    PROVE  WalkInv'
<1>1. PICK o, state : o = walk[p].org /\ state = walk[p].state
    OBVIOUS
<1>2. o \in Orgs /\ Good(o, state) /\ state \in WalkStates /\ state.pending # <<>> /\ FinalUrl(p) \in DOMAIN target
    BY <1>1 DEF WalkInv, Working, Good, LinkDirectory
<1>3. FinalUrl(p) \in Urls
  <2>1. Head(state.pending).url \in Urls
      BY <1>2, TaskParts
  <2> QED BY <1>1, <2>1, SiteAssumption DEF FinalUrl, Current, Urls
<1>4. PICK after : after = [state EXCEPT !.candidates = @ \cup {FinalUrl(p)}]
    OBVIOUS
<1>5. /\ after \in WalkStates /\ after.visited = state.visited
      /\ after.candidates = state.candidates \cup {FinalUrl(p)} /\ after.pending = state.pending
    BY <1>2, <1>3, <1>4 DEF WalkStates
<1> DEFINE next == [walk[p] EXCEPT !.pc = "expanding", !.state = after]
<1>6. walk' = [walk EXCEPT ![p].pc = "expanding", ![p].state.candidates = @ \cup {FinalUrl(p)}]
    BY DEF LinkDirectory
<1>7. /\ walk' = [walk EXCEPT ![p] = next] /\ DOMAIN next = DOMAIN walk[p]
      /\ next.pc = "expanding" /\ next.org = o /\ next.state = after
    BY <1>1, <1>4, <1>6 DEF WalkInv, Shaped
<1> HIDE DEF next
<1>8. job' = job /\ target' = target /\ seen' = seen /\ targetLinks \subseteq targetLinks'
    BY DEF LinkDirectory
<1>9. Grows /\ SameJobs
    BY <1>8 DEF Grows, SameJobs, WalkInv, Shaped
<1>10. TargetLinked(o, FinalUrl(p))'
  <2>1. [url |-> FinalUrl(p), org |-> o] \in targetLinks'
      BY <1>1 DEF LinkDirectory
  <2>2. walk'[p] = next
      BY <1>7 DEF WalkInv, Shaped
  <2>3. FinalUrl(p)' = FinalUrl(p)
      BY <1>1, <1>5, <1>7, <2>2 DEF FinalUrl, Current
  <2> QED BY <1>2, <1>8, <2>1, <2>3 DEF TargetLinked
<1>11. walk'[p] = next
    BY <1>7 DEF WalkInv, Shaped
<1>12. FinalUrl(p)' = FinalUrl(p)
    BY <1>1, <1>5, <1>7, <1>11 DEF FinalUrl, Current
<1>13. \A v : Followed(o, state, v) => Followed(o, after, v)'
    BY <1>5, <1>8 DEF Followed, Waiting
<1>14. Good(o, after)'
  <2>1. \A url \in after.candidates : url \in state.candidates \/ TargetLinked(o, url)'
      BY <1>5, <1>10, <1>12
  <2> QED BY <1>2, <1>5, <1>9, <1>13, <2>1, GoodMoves
<1>15. Working(p)'
    BY <1>2, <1>5, <1>7, <1>10, <1>11, <1>14 DEF Working
<1> QED BY <1>7, <1>8, <1>9, <1>15, GoesOn
(* The page joins what is behind the walk: its directory was linked before, *)
(* and a link in bounds that neither waits nor was visited is told in full. *)
LEMMA ExpandStep ==
    ASSUME WalkInv, NEW p \in Processes, ExpandPage(p)
    PROVE  WalkInv'
<1>1. PICK o, state, links, url :
          o = walk[p].org /\ state = walk[p].state /\ links = Site[FinalUrl(p)].links /\ url = Current(p).url
    OBVIOUS
<1>2. /\ o \in Orgs /\ Good(o, state) /\ state \in WalkStates /\ state.pending # <<>>
      /\ Site[Site[url].final].directory => TargetLinked(o, Site[url].final)
    BY <1>1 DEF WalkInv, Working, Good, ExpandPage, FinalUrl
<1>3. url = Head(state.pending).url /\ url \in Urls /\ links = Site[Site[url].final].links
    BY <1>1, <1>2, TaskParts DEF Current, FinalUrl
<1>4. links \in Seq(Urls)
    BY <1>3, SiteAssumption DEF Urls
<1>5. PICK depth : depth = Current(p).depth + 1
    OBVIOUS
<1>6. depth \in Nat
  <2>1. Head(state.pending).depth \in Nat
      BY <1>2, TaskParts
  <2> QED BY <1>1, <1>5, <2>1 DEF Current
<1>7. PICK after : after = Expanded(state, o, links, depth)
    OBVIOUS
<1>8. /\ after \in WalkStates /\ after.visited = state.visited \cup {url} /\ after.candidates = state.candidates
      /\ Waiting(state) \subseteq Waiting(after) \cup {url}
  <2>1. state \in WalkStates /\ state.pending # <<>>
      BY <1>2
  <2>2. /\ Expanded(state, o, links, depth) \in WalkStates
        /\ Expanded(state, o, links, depth).visited = state.visited \cup {Head(state.pending).url}
        /\ Expanded(state, o, links, depth).candidates = state.candidates
        /\ Waiting(state) \subseteq Waiting(Expanded(state, o, links, depth)) \cup {Head(state.pending).url}
      BY <1>4, <1>6, <2>1, ExpandsWhole, Zenon
  <2> QED BY <1>3, <1>7, <2>2
<1>9. /\ walk' = [walk EXCEPT ![p].state = after, ![p].pc = "saving",
                      ![p].outcome = IF walk[p].failures >= MaxFailures THEN "completed" ELSE None]
      /\ seen' = [seen EXCEPT ![o].full = @ \/ \E u \in ToSet(links) : Fresh(after, o, u)]
    BY <1>1, <1>5, <1>7 DEF ExpandPage
<1> DEFINE end == IF walk[p].failures >= MaxFailures THEN "completed" ELSE None
           next == [walk[p] EXCEPT !.state = after, !.pc = "saving", !.outcome = end]
<1>10. /\ walk' = [walk EXCEPT ![p] = next] /\ DOMAIN next = DOMAIN walk[p]
       /\ next.pc = "saving" /\ next.org = o /\ next.state = after
  <2>1. walk' = [walk EXCEPT ![p].state = after, ![p].pc = "saving", ![p].outcome = end]
      BY <1>9
  <2> HIDE DEF end
  <2> QED BY <1>1, <2>1 DEF WalkInv, Shaped
<1> HIDE DEF end, next
<1>11. /\ DOMAIN seen' = Orgs
       /\ \A q \in Orgs : DOMAIN seen'[q] = DOMAIN seen[q] /\ seen'[q].read = seen[q].read
                         /\ seen'[q].dropped = seen[q].dropped /\ (seen[q].full => seen'[q].full)
       /\ (\E u \in ToSet(links) : Fresh(after, o, u)) => seen'[o].full
    BY <1>2, <1>9 DEF WalkInv, Shaped
<1>12. job' = job /\ target' = target /\ targetLinks' = targetLinks
    BY DEF ExpandPage
<1>13. Grows /\ SameJobs
    BY <1>11, <1>12 DEF Grows, SameJobs, WalkInv, Shaped
<1>14. \A v : Followed(o, state, v) => Followed(o, after, v)'
    BY <1>2, <1>8, <1>11 DEF Followed
<1>15. Settled(o, after, url)'
  <2>1. \A u : TargetLinked(o, u)' <=> TargetLinked(o, u)
      BY <1>12 DEF TargetLinked
  <2>2. \A v \in ToSet(links) : InBounds(o, v) => seen'[o].full \/ v \in after.visited \cup Waiting(after)
      BY <1>11 DEF Fresh
  <2> QED BY <1>2, <1>3, <2>1, <2>2 DEF Settled, Followed
<1>16. Good(o, after)'
    BY <1>2, <1>8, <1>13, <1>14, <1>15, GoodMoves
<1>17. walk'[p] = next
    BY <1>10 DEF WalkInv, Shaped
<1>18. Working(p)'
    BY <1>2, <1>10, <1>16, <1>17 DEF Working
<1>19. Shaped' /\ ReadIsAnswered'
    BY <1>10, <1>11, <1>13, <1>17 DEF WalkInv, Shaped, ReadIsAnswered, SameJobs
<1> QED BY <1>10, <1>13, <1>18, <1>19, GoesOn

LEMMA RenewStep ==
    ASSUME WalkInv, NEW p \in Processes, RenewToSave(p)
    PROVE  WalkInv'
<1>1. CASE Holds(p)
  <2> DEFINE next == [walk[p] EXCEPT !.pc = "writing"]
  <2>1. /\ walk' = [walk EXCEPT ![p] = next] /\ DOMAIN next = DOMAIN walk[p]
        /\ next.pc = "writing" /\ next.org = walk[p].org /\ next.state = walk[p].state
      BY <1>1 DEF RenewToSave, WalkInv, Shaped
  <2>2. Grows /\ SameJobs /\ seen' = seen /\ walk[p].pc # "off"
      BY <1>1, Unmoved DEF RenewToSave, Elsewhere, SameJobs, WalkInv, Shaped
  <2> HIDE DEF next
  <2> QED BY <2>1, <2>2, StateStays
<1>2. CASE ~Holds(p)
  <2>1. ReportEnd(p, "failed") /\ Steady /\ walk[p].pc # "off"
      BY <1>2 DEF RenewToSave, Elsewhere, Steady
  <2> QED BY <2>1, ReportsEnd
<1> QED BY <1>1, <1>2

(* The saved state is the one of the walk that holds the job.               *)
LEMMA WriteStep ==
    ASSUME WalkInv, NEW p \in Processes, WriteState(p)
    PROVE  WalkInv'
<1>1. PICK o, state : o = walk[p].org /\ state = walk[p].state
    OBVIOUS
<1>2. o \in Orgs /\ Good(o, state)
    BY <1>1 DEF WalkInv, Working, WriteState
<1> DEFINE to == IF walk[p].outcome = None THEN "walking" ELSE "ending"
           next == [walk[p] EXCEPT !.pc = to]
<1>3. /\ walk' = [walk EXCEPT ![p] = next] /\ DOMAIN next = DOMAIN walk[p]
      /\ next.pc = to /\ next.org = o /\ next.state = state
  <2>1. walk' = [walk EXCEPT ![p].pc = to]
      BY DEF WriteState
  <2> HIDE DEF to
  <2> QED BY <1>1, <2>1 DEF WalkInv, Shaped
<1>4. to \in {"walking", "ending"}
    OBVIOUS
<1> HIDE DEF to, next
<1>5. Steady
    BY DEF WriteState, Elsewhere, Steady
<1>6. Grows /\ seen' = seen
    BY <1>5, Unmoved DEF Steady
<1>7. DOMAIN job' = Orgs /\ \A q \in Orgs :
          DOMAIN job'[q] = DOMAIN job[q] /\ (job'[q].state = job[q].state \/ (q = o /\ job'[q].state = state))
  <2>1. CASE Holds(p)
      BY <1>1, <2>1 DEF WriteState, WalkInv, Shaped
  <2>2. CASE ~Holds(p)
      BY <2>2 DEF WriteState, WalkInv, Shaped
  <2> QED BY <2>1, <2>2
<1>8. Good(o, state)'
    BY <1>2, <1>6, GoodStays
<1>9. ASSUME NEW q \in Orgs PROVE JobGood(q)'
  <2>1. CASE job'[q].state = job[q].state
      BY <1>6, <2>1, JobsStay
  <2>2. CASE q = o /\ job'[q].state = state
      BY <1>8, <2>2 DEF JobGood
  <2> QED BY <1>7, <2>1, <2>2
<1>10. /\ walk'[p] = next /\ DOMAIN walk' = Processes
       /\ \A q \in Processes : q # p => walk'[q] = walk[q]
    BY <1>3 DEF WalkInv, Shaped
<1>11. Working(p)'
    BY <1>2, <1>3, <1>4, <1>8, <1>10 DEF Working
<1>12. Shaped' /\ ReadIsAnswered'
    BY <1>3, <1>6, <1>7, <1>10 DEF WalkInv, Shaped, ReadIsAnswered
<1> QED BY <1>6, <1>9, <1>10, <1>11, <1>12, OneMoves

(* Nobody walks: a lease goes, or the registry changes.                     *)
LEMMA NobodyMoves ==
    ASSUME WalkInv, Steady, SameJobs, walk' = walk
    PROVE  WalkInv'
<1>1. Grows
    BY Unmoved DEF Steady
<1>2. Shaped' /\ ReadIsAnswered'
    BY DEF WalkInv, Shaped, ReadIsAnswered, Steady, SameJobs
<1>3. \A o \in Orgs : JobGood(o)'
    BY <1>1, JobsStay DEF SameJobs
<1>4. ASSUME NEW p \in Processes PROVE Working(p)'
  <2>1. Working(p)
      BY DEF WalkInv
  <2>2. \A o, state : Good(o, state)' <=> Good(o, state)
      BY DEF Good, Settled, Followed, TargetLinked, Steady
  <2>3. Current(p)' = Current(p) /\ FinalUrl(p)' = FinalUrl(p)
      BY DEF Current, FinalUrl
  <2>4. \A o, url : TargetLinked(o, url)' <=> TargetLinked(o, url)
      BY DEF TargetLinked, Steady
  <2> QED BY <2>1, <2>2, <2>3, <2>4 DEF Working, Steady
<1> QED BY <1>2, <1>3, <1>4 DEF WalkInv

LEMMA LoseStep ==
    ASSUME WalkInv, NEW o \in Orgs, LoseLease(o)
    PROVE  WalkInv'
<1>1. SameJobs
    BY DEF LoseLease, SameJobs, WalkInv, Shaped
<1> QED BY <1>1, NobodyMoves DEF LoseLease, Elsewhere, Steady

LEMMA RegistryStep ==
    ASSUME WalkInv, ChangeRegistry
    PROVE  WalkInv'
<1>1. SameJobs /\ Steady /\ walk' = walk
    BY DEF ChangeRegistry, SameJobs, Steady, WalkInv, Shaped
<1> QED BY <1>1, NobodyMoves

LEMMA EndStep ==
    ASSUME WalkInv, NEW p \in Processes, Die(p) \/ AssertActive(p) \/ EndWalk(p)
    PROVE  WalkInv'
<1>1. Steady /\ walk[p].pc # "off"
    BY DEF Die, AssertActive, EndWalk, Elsewhere, Steady
<1>2. CASE Die(p)
  <2>1. SameJobs
      BY <1>2 DEF Die, SameJobs, WalkInv, Shaped
  <2>2. Sleeping = [Sleeping EXCEPT !.robots = Sleeping.robots]
      BY DEF Sleeping
  <2>3. walk' = [walk EXCEPT ![p] = [Sleeping EXCEPT !.robots = Sleeping.robots]]
      BY <1>2, <2>2 DEF Die
  <2> QED BY <1>1, <2>1, <2>3, Retires
<1>3. CASE \E outcome : ReportEnd(p, outcome)
    BY <1>1, <1>3, ReportsEnd
<1> QED BY <1>2, <1>3 DEF AssertActive, EndWalk

LEMMA WalkStep == WalkInv /\ [WalkNext]_walkVars => WalkInv'
<1> SUFFICES ASSUME WalkInv, [WalkNext]_walkVars PROVE WalkInv'
    OBVIOUS
<1>1. CASE UNCHANGED walkVars
    BY <1>1, NobodyMoves DEF walkVars, Steady, SameJobs, WalkInv, Shaped
<1>2. ASSUME NEW p \in Processes, NEW o \in DOMAIN Organizations, ClaimDiscovery(p, o) PROVE WalkInv'
    BY <1>2, ClaimStep DEF Orgs
<1>3. ASSUME NEW p \in Processes, RefuseByRegistry(p) \/ RefuseByRobots(p) PROVE WalkInv'
    BY <1>3, RefuseStep DEF RefuseByRegistry, RefuseByRobots, Askable
<1>4. ASSUME NEW p \in Processes, NEW lines, ReadRobots(p, lines) PROVE WalkInv'
    BY <1>4, RobotsStep
<1>5. ASSUME NEW p \in Processes, NEW answer, RequestPage(p, answer) PROVE WalkInv'
    BY <1>5, RequestStep
<1>6. ASSUME NEW p \in Processes, Die(p) \/ AssertActive(p) \/ EndWalk(p) PROVE WalkInv'
    BY <1>6, EndStep
<1>7. ASSUME NEW o \in DOMAIN Organizations, LoseLease(o) PROVE WalkInv'
    BY <1>7, LoseStep DEF Orgs
<1>8. ASSUME NEW p \in Processes, DropTask(p) \/ PassOver(p) \/ FailPage(p) \/ ReadPage(p) PROVE WalkInv'
    BY <1>8, DropStep, PassStep, FailStep, ReadStep
<1>9. ASSUME NEW p \in Processes, RecordDirectory(p) \/ LinkDirectory(p) \/ ExpandPage(p) PROVE WalkInv'
    BY <1>9, RecordStep, LinkStep, ExpandStep
<1>10. ASSUME NEW p \in Processes, RenewToSave(p) \/ WriteState(p) PROVE WalkInv'
    BY <1>10, RenewStep, WriteStep
<1> QED
    BY <1>1, <1>2, <1>3, <1>4, <1>5, <1>6, <1>7, <1>8, <1>9, <1>10, RegistryStep DEF WalkNext

LEMMA WalkStarts == WalkInit => WalkInv
<1> SUFFICES ASSUME WalkInit PROVE WalkInv
    OBVIOUS
<1>1. Shaped
    BY DEF WalkInit, Shaped, Orgs, Sleeping
<1>2. \A o \in Orgs : JobGood(o) /\ seen[o].read = {}
    BY DEF WalkInit, JobGood, Orgs
<1>3. \A p \in Processes : Working(p)
    BY DEF WalkInit, Working, Sleeping
<1> QED BY <1>1, <1>2, <1>3 DEF WalkInv, ReadIsAnswered

(* What a saved frontier leaves out is dealt with: the checkpoint of a walk *)
(* never runs ahead of recordTarget's two statements, nor of the links of   *)
(* the pages it calls visited, through every death, lost lease and takeover.*)
THEOREM FrontierLosesNothing == WalkSpec => []NothingFoundIsLost
<1>1. WalkInv => NothingFoundIsLost
  <2> SUFFICES ASSUME WalkInv, NEW o \in Orgs, NEW state \in States(o)
               PROVE  /\ \A url \in state.candidates : TargetLinked(o, url)
                      /\ \A url \in state.visited \cap seen[o].read : Settled(o, state, url)
      BY DEF NothingFoundIsLost, Settled, Followed, Orgs
  <2>1. Good(o, state)
    <3>1. CASE state = job[o].state
        BY <3>1 DEF WalkInv, JobGood, States
    <3>2. CASE state # job[o].state
      <4>1. PICK p \in Processes : walk[p].org = o /\ walk[p].pc = "walking" /\ state = walk[p].state
          BY <3>2 DEF States
      <4> QED BY <4>1 DEF WalkInv, Working
    <3> QED BY <3>1, <3>2
  <2> QED BY <2>1 DEF Good, WalkInv, ReadIsAnswered
<1> QED BY <1>1, WalkStarts, WalkStep, PTL DEF WalkSpec

----------------------------------------------------------------------------
(* The decisions of an operator: none is recorded in part.                  *)
(* The registry at the start: a sequence of reviewed rows, none of them of  *)
(* an operator's form.                                                      *)
Registered ==
    /\ \E Rows : policies \in Seq(Rows)
    /\ \A i \in 1..Len(policies) : {"domain", "status", "approved"} \subseteq DOMAIN policies[i]
OperatorStart ==
    /\ ConsoleInit /\ Registered
    /\ \A o \in Operators : RowsOf(o) = {}
OperatorSpec == OperatorStart /\ [][ConsoleNext]_<<policies, consoleVars>>

----------------------------------------------------------------------------
(* The inductive invariant: a form has recorded a first part of its         *)
(* decisions, has the rest before it, and at most its last row waits for    *)
(* its approval.                                                            *)
Lines == UNION {ToSet(decisions) : decisions \in BulkForms}
Forms == [step : {"unsent", "refused", "deciding", "failed", "resumed"}, decisions : Seq(Lines), left : Seq(Lines), row : Nat]
Row(row) == policies[At_(row)]
Count(o) == Cardinality(RowsOf(o))
PlaceOf(o, row) == Cardinality({r \in RowsOf(o) : r <= row})
LeftFrom(form, k) ==
    /\ Len(form.left) = Len(form.decisions) - k
    /\ \A i \in 1..Len(form.left) : form.left[i] = form.decisions[k + i]
FormGood(o) ==
    LET form == forms[o] IN
    /\ Count(o) <= Len(form.decisions)
    /\ form.step \in {"unsent", "refused"} => RowsOf(o) = {}
    /\ form.step = "unsent" => form.row = 0
    /\ form.step = "resumed" => Count(o) = Len(form.decisions)
    /\ \A row \in RowsOf(o) :
          /\ Row(row).domain = Bare(form.decisions[PlaceOf(o, row)])
          /\ PlaceOf(o, row) < Count(o) \/ form.step = "resumed" => Row(row).approved
    /\ form.step = "deciding" /\ form.row = 0 =>
          LeftFrom(form, Count(o)) /\ \A row \in RowsOf(o) : Row(row).approved
    /\ form.step = "deciding" /\ form.row # 0 =>
          /\ LeftFrom(form, Count(o) - 1) /\ form.row \in RowsOf(o)
          /\ \A row \in RowsOf(o) : row = form.row \/ Row(row).approved
ConsoleInv ==
    /\ Registered /\ forms \in [Operators -> Forms]
    /\ \A o \in Operators : FormGood(o)

----------------------------------------------------------------------------
LEMMA RowsAreFinite ==
    ASSUME NEW o, Registered
    PROVE  /\ IsFiniteSet(RowsOf(o)) /\ Count(o) \in Nat
           /\ \A row : IsFiniteSet({r \in RowsOf(o) : r <= row}) /\ PlaceOf(o, row) \in Nat
           /\ \A row \in RowsOf(o) : PlaceOf(o, row) \in 1..Count(o)
<1>1. Len(policies) \in Nat
    BY DEF Registered
<1>2. IsFiniteSet(1..Len(policies))
    BY <1>1, FS_Interval
<1>3. RowsOf(o) \subseteq 1..Len(policies)
    BY DEF RowsOf
<1>4. IsFiniteSet(RowsOf(o)) /\ Count(o) \in Nat
    BY <1>2, <1>3, FS_Subset, FS_CardinalityType DEF Count
<1>5. ASSUME NEW row PROVE IsFiniteSet({r \in RowsOf(o) : r <= row}) /\ PlaceOf(o, row) \in Nat
                           /\ PlaceOf(o, row) <= Count(o)
    BY <1>4, FS_Subset, FS_CardinalityType DEF PlaceOf, Count
<1>6. ASSUME NEW row \in RowsOf(o) PROVE PlaceOf(o, row) # 0
  <2>1. row \in {r \in RowsOf(o) : r <= row}
      BY <1>1, <1>3
  <2> QED BY <1>5, <2>1, FS_EmptySet DEF PlaceOf
<1>7. ASSUME NEW row \in RowsOf(o) PROVE PlaceOf(o, row) \in 1..Count(o)
  <2>1. PlaceOf(o, row) \in Nat /\ PlaceOf(o, row) <= Count(o) /\ PlaceOf(o, row) # 0
      BY <1>5, <1>6
  <2> QED BY <1>4, <2>1
<1>8. \A row : IsFiniteSet({r \in RowsOf(o) : r <= row}) /\ PlaceOf(o, row) \in Nat
    BY <1>5
<1> QED BY <1>4, <1>7, <1>8

(* A row keeps its number when another is put before it.                    *)
LEMMA Prepends ==
    ASSUME Registered, NEW policy, {"domain", "status", "approved"} \subseteq DOMAIN policy,
           policies' = <<policy>> \o policies
    PROVE  /\ Registered' /\ Len(policies) \in Nat /\ Len(policies') = Len(policies) + 1
           /\ \A row \in 1..Len(policies) : Row(row)' = Row(row)
           /\ \A row : row = Len(policies) + 1 => Row(row)' = policy
<1>1. PICK Rows : policies \in Seq(Rows)
    BY DEF Registered
<1> DEFINE More == Rows \cup {policy}
<1>2. policies \in Seq(More) /\ <<policy>> \in Seq(More) /\ Len(<<policy>>) = 1 /\ <<policy>>[1] = policy
    BY <1>1
<1>3. /\ policies' \in Seq(More) /\ Len(policies') = Len(policies) + 1
      /\ \A i \in 1..Len(policies') : policies'[i] = IF i <= 1 THEN <<policy>>[i] ELSE policies[i - 1]
  <2>1. /\ <<policy>> \o policies \in Seq(More) /\ Len(<<policy>> \o policies) = Len(<<policy>>) + Len(policies)
        /\ \A i \in 1..(Len(<<policy>>) + Len(policies)) :
               (<<policy>> \o policies)[i] = IF i <= Len(<<policy>>) THEN <<policy>>[i] ELSE policies[i - Len(<<policy>>)]
      BY <1>2, ConcatProperties
  <2> QED BY <1>2, <2>1
<1>4. Len(policies) \in Nat
    BY <1>1
<1>5. Registered'
  <2>1. \A i \in 1..Len(policies') : {"domain", "status", "approved"} \subseteq DOMAIN policies'[i]
    <3> SUFFICES ASSUME NEW i \in 1..Len(policies') PROVE {"domain", "status", "approved"} \subseteq DOMAIN policies'[i]
        OBVIOUS
    <3>1. CASE i = 1
        BY <1>2, <1>3, <3>1
    <3>2. CASE i # 1
      <4>1. i - 1 \in 1..Len(policies) /\ policies'[i] = policies[i - 1]
          BY <1>3, <1>4, <3>2
      <4> QED BY <4>1 DEF Registered
    <3> QED BY <3>1, <3>2
  <2> QED BY <1>3, <2>1 DEF Registered
<1>6. ASSUME NEW row \in 1..Len(policies) PROVE Row(row)' = Row(row)
  <2>1. Len(policies') - row + 1 \in 1..Len(policies') /\ Len(policies') - row + 1 > 1
        /\ (Len(policies') - row + 1) - 1 = Len(policies) - row + 1
      BY <1>3, <1>4
  <2> QED BY <1>3, <2>1 DEF Row, At_
<1>7. ASSUME NEW row, row = Len(policies) + 1 PROVE Row(row)' = policy
  <2>1. Len(policies') - row + 1 = 1
      BY <1>3, <1>4, <1>7
  <2> QED BY <1>2, <1>3, <1>4, <1>7, <2>1 DEF Row, At_
<1> QED BY <1>3, <1>4, <1>5, <1>6, <1>7

(* An approval changes nothing but what it approves.                        *)
LEMMA Approves ==
    ASSUME Registered, NEW i \in 1..Len(policies), Approve(i)
    PROVE  /\ Registered' /\ Len(policies') = Len(policies) /\ Len(policies) \in Nat
           /\ \A row \in 1..Len(policies) :
                 /\ Row(row).domain' = Row(row).domain
                 /\ \A o : IsBy(Row(row)', o) <=> IsBy(Row(row), o)
                 /\ (Row(row).approved => Row(row).approved') /\ (At_(row) = i => Row(row).approved')
<1>1. PICK Rows : policies \in Seq(Rows)
    BY DEF Registered
<1> DEFINE new == [policies[i] EXCEPT !.approved = TRUE]
           More == Rows \cup {new}
<1>2. policies' = [policies EXCEPT ![i] = new]
    BY DEF Approve
<1>3. {"domain", "status", "approved"} \subseteq DOMAIN policies[i]
    BY DEF Registered
<1>4. DOMAIN new = DOMAIN policies[i] /\ new.domain = policies[i].domain /\ new.approved = TRUE
      /\ \A o : IsBy(new, o) <=> IsBy(policies[i], o)
    BY <1>3 DEF IsBy
<1> HIDE DEF new
<1>5. policies \in Seq(More) /\ DOMAIN policies = 1..Len(policies) /\ Len(policies) \in Nat
    BY <1>1
<1>6. policies' \in Seq(More) /\ Len(policies') = Len(policies)
    BY <1>2, <1>5
<1>7. \A j \in 1..Len(policies) : policies'[j] = IF j = i THEN new ELSE policies[j]
    BY <1>2, <1>5
<1>8. Registered'
  <2>1. \A j \in 1..Len(policies') : {"domain", "status", "approved"} \subseteq DOMAIN policies'[j]
      BY <1>3, <1>4, <1>6, <1>7 DEF Registered
  <2> QED BY <1>6, <2>1 DEF Registered
<1>9. ASSUME NEW row \in 1..Len(policies)
      PROVE  At_(row)' = At_(row) /\ At_(row) \in 1..Len(policies)
    BY <1>5, <1>6 DEF At_
<1> QED BY <1>4, <1>5, <1>6, <1>7, <1>8, <1>9 DEF Row

LEMMA RowsByNumber ==
    \A o : RowsOf(o) = {row \in 1..Len(policies) : IsBy(Row(row), o)}
BY DEF RowsOf, Row

(* The forms whose rows and steps stay as they are stay good.               *)
LEMMA FormStays ==
    ASSUME NEW o \in Operators, FormGood(o), Registered, RowsOf(o)' = RowsOf(o),
           \A row \in RowsOf(o) : Row(row).domain' = Row(row).domain /\ (Row(row).approved => Row(row).approved'),
           forms'[o] = forms[o]
    PROVE  FormGood(o)'
<1>1. Count(o)' = Count(o) /\ \A row : PlaceOf(o, row)' = PlaceOf(o, row)
    BY DEF Count, PlaceOf
<1>2. \A k : LeftFrom(forms[o], k)' <=> LeftFrom(forms[o], k)
    BY DEF LeftFrom
<1> QED BY <1>1, <1>2 DEF FormGood

LEMMA FormParts ==
    ASSUME NEW form \in Forms
    PROVE  /\ \A n \in Nat : [form EXCEPT !.row = n] \in Forms
           /\ \A step \in {"unsent", "refused", "deciding", "failed", "resumed"} : [form EXCEPT !.step = step] \in Forms
BY DEF Forms

LEMMA NobodyRecords ==
    ASSUME ConsoleInv, UNCHANGED policies, forms' \in [Operators -> Forms],
           \A o \in Operators : forms'[o] = forms[o] \/ FormGood(o)'
    PROVE  ConsoleInv'
<1>1. Registered' /\ \A o : RowsOf(o)' = RowsOf(o) /\ \A row : Row(row)' = Row(row)
    BY DEF ConsoleInv, Registered, RowsOf, Row, At_
<1>2. \A o \in Operators : FormGood(o)'
    BY <1>1, FormStays DEF ConsoleInv
<1> QED BY <1>1, <1>2 DEF ConsoleInv

(* A row that somebody records is not a row of anybody else's form.         *)
LEMMA NotMine ==
    ASSUME Registered, NEW policy, {"domain", "status", "approved"} \subseteq DOMAIN policy,
           policies' = <<policy>> \o policies, NEW o, ~IsBy(policy, o)
    PROVE  RowsOf(o)' = RowsOf(o)
<1>1. /\ Len(policies) \in Nat /\ Len(policies') = Len(policies) + 1
      /\ \A row \in 1..Len(policies) : Row(row)' = Row(row)
      /\ \A row : row = Len(policies) + 1 => Row(row)' = policy
    BY Prepends
<1>2. RowsOf(o)' = {row \in 1..Len(policies') : IsBy(Row(row)', o)}
    BY DEF RowsOf, Row, IsBy
<1>3. 1..Len(policies') = 1..Len(policies) \cup {Len(policies) + 1}
    BY <1>1
<1> QED BY <1>1, <1>2, <1>3, RowsByNumber

LEMMA Mine ==
    ASSUME Registered, NEW policy, {"domain", "status", "approved"} \subseteq DOMAIN policy,
           policies' = <<policy>> \o policies, NEW o, IsBy(policy, o)
    PROVE  /\ RowsOf(o)' = RowsOf(o) \cup {Len(policies) + 1}
           /\ Count(o)' = Count(o) + 1
           /\ \A row \in RowsOf(o) : PlaceOf(o, row)' = PlaceOf(o, row)
           /\ \A row : row = Len(policies) + 1 => PlaceOf(o, row)' = Count(o) + 1
<1>1. /\ Registered' /\ Len(policies) \in Nat /\ Len(policies') = Len(policies) + 1
      /\ \A row \in 1..Len(policies) : Row(row)' = Row(row)
      /\ \A row : row = Len(policies) + 1 => Row(row)' = policy
    BY Prepends
<1>2. RowsOf(o)' = {row \in 1..Len(policies') : IsBy(Row(row)', o)}
    BY DEF RowsOf, Row, IsBy
<1>3. 1..Len(policies') = 1..Len(policies) \cup {Len(policies) + 1}
    BY <1>1
<1>4. RowsOf(o)' = RowsOf(o) \cup {Len(policies) + 1}
    BY <1>1, <1>2, <1>3, RowsByNumber
<1>5. RowsOf(o) \subseteq 1..Len(policies) /\ Len(policies) + 1 \notin RowsOf(o)
    BY <1>1 DEF RowsOf
<1>6. IsFiniteSet(RowsOf(o)) /\ Count(o) \in Nat
    BY RowsAreFinite
<1>7. Count(o)' = Count(o) + 1
    BY <1>4, <1>5, <1>6, FS_AddElement DEF Count
<1>8. ASSUME NEW row \in RowsOf(o) PROVE PlaceOf(o, row)' = PlaceOf(o, row)
  <2>1. {r \in RowsOf(o)' : r <= row} = {r \in RowsOf(o) : r <= row}
      BY <1>1, <1>4, <1>5
  <2> QED BY <2>1 DEF PlaceOf
<1>9. ASSUME NEW row, row = Len(policies) + 1 PROVE PlaceOf(o, row)' = Count(o) + 1
  <2>1. {r \in RowsOf(o)' : r <= row} = RowsOf(o)'
      BY <1>1, <1>4, <1>5, <1>9
  <2>2. PlaceOf(o, row)' = Count(o)'
      BY <2>1 DEF PlaceOf, Count
  <2> QED BY <1>7, <2>2
<1> QED BY <1>4, <1>7, <1>8, <1>9

LEMMA RecordGood ==
    ASSUME ConsoleInv, NEW o \in Operators, RecordDecision(o)
    PROVE  ConsoleInv'
<1> DEFINE form == forms[o]
           policy == RecordedBy(o, NewPolicy(None, Head(form.left), "review_required"))
<1> PICK last : last = Len(policies) + 1
    OBVIOUS
<1>1. form \in Forms /\ FormGood(o) /\ Registered /\ forms \in [Operators -> Forms]
    BY DEF ConsoleInv
<1>2. policies' = <<policy>> \o policies /\ forms' = [forms EXCEPT ![o].row = Len(policies')]
      /\ form.step = "deciding" /\ form.left # <<>> /\ form.row = 0
    BY DEF RecordDecision, RecordReview
<1>3. {"domain", "status", "approved"} \subseteq DOMAIN policy /\ policy.domain = Bare(Head(form.left))
      /\ \A q : IsBy(policy, q) <=> q = o
    BY DEF RecordedBy, NewPolicy, IsBy
<1> HIDE DEF policy
<1>4. /\ Registered' /\ Len(policies) \in Nat /\ Len(policies') = last
      /\ \A row \in 1..Len(policies) : Row(row)' = Row(row)
      /\ \A row : row = last => Row(row)' = policy
    BY <1>1, <1>2, <1>3, Prepends
<1>5. /\ RowsOf(o)' = RowsOf(o) \cup {last} /\ Count(o)' = Count(o) + 1
      /\ \A row \in RowsOf(o) : PlaceOf(o, row)' = PlaceOf(o, row)
      /\ \A row : row = last => PlaceOf(o, row)' = Count(o) + 1
    BY <1>1, <1>2, <1>3, Mine
<1>6. \A row \in RowsOf(o) : PlaceOf(o, row) \in 1..Count(o)
    BY <1>1, RowsAreFinite
<1>7. Count(o) \in Nat /\ RowsOf(o) \subseteq 1..Len(policies)
    BY <1>1, RowsAreFinite DEF RowsOf
<1>8. LeftFrom(form, Count(o)) /\ \A row \in RowsOf(o) : Row(row).approved /\ Row(row).domain = Bare(form.decisions[PlaceOf(o, row)])
    BY <1>1, <1>2 DEF FormGood
<1>9. form.left \in Seq(Lines) /\ form.decisions \in Seq(Lines) /\ Len(form.left) > 0 /\ Head(form.left) = form.left[1]
    BY <1>1, <1>2 DEF Forms
<1>10. Head(form.left) = form.decisions[Count(o) + 1] /\ Count(o) + 1 <= Len(form.decisions)
    BY <1>7, <1>8, <1>9 DEF LeftFrom
<1>11. forms' \in [Operators -> Forms] /\ forms'[o] = [form EXCEPT !.row = last]
       /\ \A q \in Operators : q # o => forms'[q] = forms[q]
  <2>1. last \in Nat
      BY <1>4
  <2>2. \A f \in Forms : \A n \in Nat : [f EXCEPT !.row = n] \in Forms
      BY FormParts
  <2>3. [form EXCEPT !.row = last] \in Forms
      BY <1>1, <2>1, <2>2
  <2> QED BY <1>1, <1>2, <1>4, <2>3
<1>12. forms'[o].step = "deciding" /\ forms'[o].row = last /\ forms'[o].left = form.left /\ forms'[o].decisions = form.decisions
    BY <1>1, <1>2, <1>11 DEF Forms
<1>13. FormGood(o)'
  <2>1. \A row \in RowsOf(o) : Row(row)' = Row(row)
      BY <1>4, <1>7
  <2>2. Row(last).domain' = Bare(form.decisions[Count(o) + 1])
      BY <1>3, <1>4, <1>10
  <2>3. ASSUME NEW row \in RowsOf(o)'
        PROVE  /\ Row(row).domain' = Bare(form.decisions[PlaceOf(o, row)'])
               /\ row = last \/ Row(row).approved'
               /\ PlaceOf(o, row)' < Count(o)' => row # last
    <3>1. CASE row = last
        BY <1>5, <1>7, <2>2, <3>1
    <3>2. CASE row \in RowsOf(o)
      <4>1. row # last
          BY <1>4, <1>7, <3>2
      <4> QED BY <1>5, <1>6, <1>8, <2>1, <3>2, <4>1
    <3> QED BY <1>5, <3>1, <3>2
  <2>4. \A row \in RowsOf(o)' : PlaceOf(o, row)' < Count(o)' => Row(row).approved'
      BY <2>3
  <2>5. LeftFrom(forms[o], Count(o) - 1)'
    <3>1. Count(o)' - 1 = Count(o)
        BY <1>5, <1>7
    <3> QED BY <1>8, <1>12, <3>1 DEF LeftFrom
  <2>6. Count(o)' <= Len(form.decisions) /\ last # 0 /\ last \in RowsOf(o)'
      BY <1>4, <1>5, <1>10
  <2> QED BY <1>12, <2>3, <2>4, <2>5, <2>6 DEF FormGood
<1>14. ASSUME NEW q \in Operators, q # o PROVE FormGood(q)'
  <2>1. RowsOf(q)' = RowsOf(q)
      BY <1>1, <1>2, <1>3, <1>14, NotMine
  <2>2. RowsOf(q) \subseteq 1..Len(policies)
      BY DEF RowsOf
  <2> QED BY <1>4, <1>11, <1>14, <2>1, <2>2, FormStays DEF ConsoleInv
<1> QED BY <1>4, <1>11, <1>13, <1>14 DEF ConsoleInv

(* An approval, of whichever row, by whomever.                              *)
LEMMA ApprovalGood ==
    ASSUME ConsoleInv, NEW i \in 1..Len(policies), Approve(i), NEW o \in Operators, forms'[o] = forms[o]
    PROVE  FormGood(o)'
<1>1. /\ Registered' /\ Len(policies') = Len(policies)
      /\ \A row \in 1..Len(policies) :
            /\ Row(row).domain' = Row(row).domain
            /\ \A q : IsBy(Row(row)', q) <=> IsBy(Row(row), q)
            /\ (Row(row).approved => Row(row).approved')
    BY Approves DEF ConsoleInv
<1>2. RowsOf(o)' = {row \in 1..Len(policies') : IsBy(Row(row)', o)}
    BY DEF RowsOf, Row, IsBy
<1>3. RowsOf(o)' = RowsOf(o) /\ RowsOf(o) \subseteq 1..Len(policies)
    BY <1>1, <1>2, RowsByNumber
<1> QED BY <1>1, <1>3, FormStays DEF ConsoleInv

LEMMA ApproveGood ==
    ASSUME ConsoleInv, NEW o \in Operators, ApproveDecision(o)
    PROVE  ConsoleInv'
<1> DEFINE form == forms[o]
           after == [form EXCEPT !.row = 0, !.left = Tail(@)]
           i == At_(form.row)
<1>1. form \in Forms /\ FormGood(o) /\ Registered /\ forms \in [Operators -> Forms]
    BY DEF ConsoleInv
<1>2. Approve(i) /\ forms' = [forms EXCEPT ![o] = after] /\ form.step = "deciding" /\ form.row # 0
    BY DEF ApproveDecision, ReviewOf
<1>3. /\ LeftFrom(form, Count(o) - 1) /\ form.row \in RowsOf(o) /\ Count(o) <= Len(form.decisions)
      /\ \A row \in RowsOf(o) : row = form.row \/ Row(row).approved
      /\ \A row \in RowsOf(o) : Row(row).domain = Bare(form.decisions[PlaceOf(o, row)])
    BY <1>1, <1>2 DEF FormGood
<1>4. Len(policies) \in Nat /\ RowsOf(o) \subseteq 1..Len(policies) /\ Count(o) \in Nat /\ i \in 1..Len(policies)
  <2>1. Len(policies) \in Nat
      BY <1>1 DEF Registered
  <2>2. RowsOf(o) \subseteq 1..Len(policies) /\ Count(o) \in Nat
      BY <1>1, RowsAreFinite DEF RowsOf
  <2> QED BY <1>3, <2>1, <2>2 DEF At_
<1>5. /\ Registered' /\ Len(policies') = Len(policies)
      /\ \A row \in 1..Len(policies) :
            /\ Row(row).domain' = Row(row).domain
            /\ \A q : IsBy(Row(row)', q) <=> IsBy(Row(row), q)
            /\ (Row(row).approved => Row(row).approved') /\ (At_(row) = i => Row(row).approved')
    BY <1>1, <1>2, <1>4, Approves
<1>6. RowsOf(o)' = RowsOf(o)
  <2>1. RowsOf(o)' = {row \in 1..Len(policies') : IsBy(Row(row)', o)}
      BY DEF RowsOf, Row, IsBy
  <2> QED BY <1>5, <2>1, RowsByNumber
<1>7. Count(o)' = Count(o) /\ \A row : PlaceOf(o, row)' = PlaceOf(o, row)
    BY <1>6 DEF Count, PlaceOf
<1>8. Count(o) > 0
  <2>1. PlaceOf(o, form.row) \in 1..Count(o)
      BY <1>1, <1>3, RowsAreFinite
  <2> QED BY <1>4, <2>1
<1>9. form.left \in Seq(Lines) /\ form.decisions \in Seq(Lines) /\ form.left # <<>>
    BY <1>1, <1>3, <1>4, <1>8 DEF Forms, LeftFrom
<1>10. /\ Tail(form.left) \in Seq(Lines) /\ Len(Tail(form.left)) = Len(form.left) - 1
       /\ \A k \in 1..Len(Tail(form.left)) : Tail(form.left)[k] = form.left[k + 1]
    BY <1>9
<1>11. after \in Forms /\ after.step = "deciding" /\ after.row = 0 /\ after.left = Tail(form.left)
       /\ after.decisions = form.decisions
    BY <1>1, <1>2, <1>10 DEF Forms
<1> HIDE DEF after
<1>12. forms' \in [Operators -> Forms] /\ forms'[o] = after /\ \A q \in Operators : q # o => forms'[q] = forms[q]
    BY <1>1, <1>2, <1>11
<1>13. \A row \in RowsOf(o)' : Row(row).approved' /\ Row(row).domain' = Bare(form.decisions[PlaceOf(o, row)'])
    BY <1>3, <1>4, <1>5, <1>6, <1>7
<1>14. LeftFrom(forms[o], Count(o))'
  <2>1. Len(form.left) = Len(form.decisions) - (Count(o) - 1)
        /\ \A k \in 1..Len(form.left) : form.left[k] = form.decisions[(Count(o) - 1) + k]
      BY <1>3 DEF LeftFrom
  <2>2. Len(Tail(form.left)) = Len(form.decisions) - Count(o)
    <3>1. Len(form.left) \in Nat /\ Len(form.decisions) \in Nat
        BY <1>9
    <3>2. Len(Tail(form.left)) = Len(form.left) - 1
        BY <1>10
    <3>3. Len(form.left) = Len(form.decisions) - (Count(o) - 1)
        BY <2>1
    <3> QED BY <1>4, <3>1, <3>2, <3>3, SMTT(30)
  <2>3. ASSUME NEW k \in 1..Len(Tail(form.left)) PROVE Tail(form.left)[k] = form.decisions[Count(o) + k]
    <3>1. k + 1 \in 1..Len(form.left) /\ (Count(o) - 1) + (k + 1) = Count(o) + k
        BY <1>4, <1>9, <1>10
    <3> QED BY <1>10, <2>1, <3>1
  <2> QED BY <1>7, <1>11, <1>12, <2>2, <2>3 DEF LeftFrom
<1>15. FormGood(o)'
    BY <1>3, <1>7, <1>11, <1>12, <1>13, <1>14 DEF FormGood
<1>16. ASSUME NEW q \in Operators, q # o PROVE FormGood(q)'
    BY <1>2, <1>4, <1>12, <1>16, ApprovalGood
<1> QED BY <1>5, <1>12, <1>15, <1>16 DEF ConsoleInv

LEMMA FormsGood ==
    ASSUME ConsoleInv, NEW o \in Operators, UNCHANGED policies,
           \/ \E decisions \in BulkForms : SubmitDecisions(o, decisions) \/ RefuseDecisions(o, decisions)
           \/ ResumePolicyHolds(o) \/ FailDecisions(o)
    PROVE  ConsoleInv'
<1> DEFINE form == forms[o]
<1>1. form \in Forms /\ FormGood(o) /\ Registered /\ forms \in [Operators -> Forms]
    BY DEF ConsoleInv
<1>2. RowsOf(o)' = RowsOf(o) /\ Count(o)' = Count(o) /\ (\A row : PlaceOf(o, row)' = PlaceOf(o, row) /\ Row(row)' = Row(row))
    BY DEF RowsOf, Count, PlaceOf, Row, At_
<1>3. \A row \in RowsOf(o) : PlaceOf(o, row) \in 1..Count(o)
    BY <1>1, RowsAreFinite
<1>4. ASSUME NEW decisions \in BulkForms, SubmitDecisions(o, decisions)
      PROVE  forms' \in [Operators -> Forms] /\ FormGood(o)' /\ \A q \in Operators : q # o => forms'[q] = forms[q]
  <2> DEFINE after == [form EXCEPT !.step = "deciding", !.decisions = decisions, !.left = decisions]
  <2>1. forms' = [forms EXCEPT ![o] = after] /\ form.step = "unsent"
      BY <1>4 DEF SubmitDecisions
  <2>2. decisions \in Seq(Lines)
      BY ConsoleAssumption DEF Lines
  <2>3. after \in Forms /\ after.step = "deciding" /\ after.left = decisions /\ after.decisions = decisions /\ after.row = form.row
      BY <1>1, <2>2 DEF Forms
  <2> HIDE DEF after
  <2>4. forms' \in [Operators -> Forms] /\ forms'[o] = after /\ \A q \in Operators : q # o => forms'[q] = forms[q]
      BY <1>1, <2>1, <2>3
  <2>5. RowsOf(o) = {} /\ Count(o) = 0
    <3>1. RowsOf(o) = {}
        BY <1>1, <2>1 DEF FormGood
    <3> QED BY <3>1, FS_EmptySet DEF Count
  <2>6. LeftFrom(forms[o], Count(o))'
      BY <1>2, <2>2, <2>3, <2>4, <2>5 DEF LeftFrom
  <2>7. forms'[o].row = 0
      BY <1>1, <2>1, <2>3, <2>4 DEF FormGood
  <2> QED BY <1>2, <2>2, <2>3, <2>4, <2>5, <2>6, <2>7 DEF FormGood
<1>5. ASSUME NEW step \in {"refused", "resumed", "failed"}, forms' = [forms EXCEPT ![o].step = step]
      PROVE  /\ forms' \in [Operators -> Forms] /\ \A q \in Operators : q # o => forms'[q] = forms[q]
             /\ forms'[o].step = step /\ forms'[o].decisions = form.decisions
  <2>1. \A f \in Forms : [f EXCEPT !.step = step] \in Forms
      BY FormParts
  <2>2. [form EXCEPT !.step = step] \in Forms /\ [form EXCEPT !.step = step].step = step
        /\ [form EXCEPT !.step = step].decisions = form.decisions
      BY <1>1, <2>1 DEF Forms
  <2> QED BY <1>1, <1>5, <2>2
<1>6. ASSUME NEW decisions \in BulkForms, RefuseDecisions(o, decisions)
      PROVE  forms' \in [Operators -> Forms] /\ FormGood(o)' /\ \A q \in Operators : q # o => forms'[q] = forms[q]
  <2>1. forms' = [forms EXCEPT ![o].step = "refused"] /\ form.step = "unsent"
      BY <1>6 DEF RefuseDecisions
  <2>2. RowsOf(o) = {} /\ Count(o) <= Len(form.decisions)
      BY <1>1, <2>1 DEF FormGood
  <2> QED BY <1>2, <1>5, <2>1, <2>2 DEF FormGood
<1>7. ASSUME ResumePolicyHolds(o)
      PROVE  forms' \in [Operators -> Forms] /\ FormGood(o)' /\ \A q \in Operators : q # o => forms'[q] = forms[q]
  <2>1. forms' = [forms EXCEPT ![o].step = "resumed"] /\ form.step = "deciding" /\ form.left = <<>>
      BY <1>7 DEF ResumePolicyHolds
  <2>2. Len(form.left) = 0 /\ Len(form.decisions) \in Nat /\ Count(o) \in Nat /\ Count(o) <= Len(form.decisions)
      BY <1>1, <2>1, RowsAreFinite DEF Forms, FormGood
  <2>3. form.row = 0
    <3> SUFFICES ASSUME form.row # 0 PROVE FALSE
        OBVIOUS
    <3>1. Len(form.left) = Len(form.decisions) - (Count(o) - 1)
        BY <1>1, <2>1 DEF FormGood, LeftFrom
    <3> QED BY <2>2, <3>1
  <2>4. Count(o) = Len(form.decisions) /\ \A row \in RowsOf(o) : Row(row).approved
    <3>1. LeftFrom(form, Count(o)) /\ \A row \in RowsOf(o) : Row(row).approved
        BY <1>1, <2>1, <2>3 DEF FormGood
    <3> QED BY <2>2, <3>1 DEF LeftFrom
  <2>5. \A row \in RowsOf(o) : Row(row).domain = Bare(form.decisions[PlaceOf(o, row)])
      BY <1>1 DEF FormGood
  <2>6. forms' \in [Operators -> Forms] /\ forms'[o].step = "resumed" /\ forms'[o].decisions = form.decisions
        /\ \A q \in Operators : q # o => forms'[q] = forms[q]
      BY <1>5, <2>1
  <2> QED BY <1>2, <2>2, <2>4, <2>5, <2>6 DEF FormGood
<1>8. ASSUME FailDecisions(o)
      PROVE  forms' \in [Operators -> Forms] /\ FormGood(o)' /\ \A q \in Operators : q # o => forms'[q] = forms[q]
  <2>1. forms' = [forms EXCEPT ![o].step = "failed"] /\ form.step = "deciding"
      BY <1>8 DEF FailDecisions
  <2>2. /\ Count(o) <= Len(form.decisions)
        /\ \A row \in RowsOf(o) :
              /\ Row(row).domain = Bare(form.decisions[PlaceOf(o, row)])
              /\ PlaceOf(o, row) < Count(o) => Row(row).approved
      BY <1>1 DEF FormGood
  <2>3. forms' \in [Operators -> Forms] /\ forms'[o].step = "failed" /\ forms'[o].decisions = form.decisions
        /\ \A q \in Operators : q # o => forms'[q] = forms[q]
      BY <1>5, <2>1
  <2> QED BY <1>2, <2>2, <2>3 DEF FormGood
<1>9. forms' \in [Operators -> Forms] /\ FormGood(o)' /\ \A q \in Operators : q # o => forms'[q] = forms[q]
    BY <1>4, <1>6, <1>7, <1>8
<1> QED BY <1>9, NobodyRecords

(* What somebody reviews on a page of his own.                              *)
LEMMA ReviewGood ==
    ASSUME ConsoleInv, NEW policy \in ConsoleReviews, SubmitReview(policy)
    PROVE  ConsoleInv'
<1> DEFINE recorded == RecordedBy(None, policy)
<1>1. policies' = <<recorded>> \o policies /\ forms' = forms
    BY DEF SubmitReview, RecordReview, consoleVars
<1>2. {"domain", "status", "approved"} \subseteq DOMAIN recorded /\ \A o \in Operators : ~IsBy(recorded, o)
    BY ConsoleAssumption DEF RecordedBy, IsBy
<1> HIDE DEF recorded
<1>3. /\ Registered' /\ \A row \in 1..Len(policies) : Row(row)' = Row(row)
    BY <1>1, <1>2, Prepends DEF ConsoleInv
<1>4. ASSUME NEW o \in Operators PROVE FormGood(o)'
  <2>1. RowsOf(o)' = RowsOf(o) /\ RowsOf(o) \subseteq 1..Len(policies)
      BY <1>1, <1>2, NotMine DEF ConsoleInv, RowsOf
  <2> QED BY <1>1, <1>3, <2>1, FormStays DEF ConsoleInv
<1> QED BY <1>1, <1>3, <1>4 DEF ConsoleInv

LEMMA ConsoleStep ==
    ASSUME ConsoleInv, [ConsoleNext]_<<policies, consoleVars>>
    PROVE  ConsoleInv'
<1>1. ASSUME NEW o \in Operators, NEW decisions \in BulkForms,
             SubmitDecisions(o, decisions) \/ RefuseDecisions(o, decisions)
      PROVE  ConsoleInv'
  <2>1. UNCHANGED policies
      BY <1>1 DEF SubmitDecisions, RefuseDecisions
  <2> QED BY <1>1, <2>1, FormsGood
<1>2. ASSUME NEW o \in Operators, ResumePolicyHolds(o) \/ FailDecisions(o) PROVE ConsoleInv'
  <2>1. UNCHANGED policies
      BY <1>2 DEF ResumePolicyHolds, FailDecisions
  <2> QED BY <1>2, <2>1, FormsGood
<1>3. ASSUME NEW i \in DOMAIN policies, SubmitApproval(i) PROVE ConsoleInv'
  <2>1. Approve(i) /\ forms' = forms /\ i \in 1..Len(policies)
      BY <1>3 DEF SubmitApproval, consoleVars, ConsoleInv, Registered
  <2>2. Registered'
      BY <2>1, Approves DEF ConsoleInv
  <2>3. \A o \in Operators : FormGood(o)'
      BY <2>1, ApprovalGood
  <2> QED BY <2>1, <2>2, <2>3 DEF ConsoleInv
<1>4. ASSUME UNCHANGED <<policies, forms>> PROVE ConsoleInv'
    BY <1>4, NobodyRecords DEF ConsoleInv
<1>5. CASE UNCHANGED <<policies, consoleVars>>
    BY <1>4, <1>5 DEF consoleVars
<1>6. ASSUME \/ \E records \in SUBSET DOMAIN SourceRecords : AddToProject(records)
             \/ CloseProject
             \/ \E url \in DOMAIN jobs : ReadGate(url) \/ HoldJob(url)
      PROVE  ConsoleInv'
  <2>1. UNCHANGED <<policies, forms>>
      BY <1>6 DEF AddToProject, CloseProject, ReadGate, HoldJob
  <2> QED BY <1>4, <2>1
<1> QED BY <1>1, <1>2, <1>3, <1>5, <1>6, RecordGood, ApproveGood, ReviewGood DEF ConsoleNext

(* Whoever else reviews and approves, and wherever a form stops, its rows   *)
(* are its decisions in their order, each approved before the next.         *)
THEOREM DecisionsAreNotSplit == OperatorSpec => []DecisionsComeWhole
<1>1. OperatorStart => ConsoleInv
  <2> SUFFICES ASSUME OperatorStart PROVE ConsoleInv
      OBVIOUS
  <2>1. forms = [o \in Operators |-> NoForm] /\ NoForm \in Forms
      BY DEF OperatorStart, ConsoleInit, NoForm, Forms
  <2>2. ASSUME NEW o \in Operators PROVE FormGood(o)
    <3>1. RowsOf(o) = {} /\ forms[o] = NoForm
        BY <2>1 DEF OperatorStart
    <3>2. Count(o) = 0
        BY <3>1, FS_EmptySet DEF Count
    <3>3. NoForm.step = "unsent" /\ NoForm.row = 0 /\ Len(NoForm.decisions) = 0
        BY DEF NoForm
    <3> QED BY <3>1, <3>2, <3>3 DEF FormGood
  <2>3. forms \in [Operators -> Forms]
      BY <2>1
  <2> QED BY <2>2, <2>3 DEF ConsoleInv, OperatorStart
<1>2. ConsoleInv /\ [ConsoleNext]_<<policies, consoleVars>> => ConsoleInv'
    BY ConsoleStep
<1>3. ConsoleInv => DecisionsComeWhole
  <2> SUFFICES ASSUME ConsoleInv, NEW o \in Operators
               PROVE  /\ Count(o) <= Len(forms[o].decisions)
                      /\ \A row \in RowsOf(o) :
                            /\ Row(row).domain = Bare(forms[o].decisions[PlaceOf(o, row)])
                            /\ PlaceOf(o, row) < Count(o) \/ forms[o].step = "resumed" => Row(row).approved
                      /\ forms[o].step = "resumed" => Count(o) = Len(forms[o].decisions)
      BY DEF DecisionsComeWhole, Count, PlaceOf, Row
  <2> QED BY DEF ConsoleInv, FormGood
<1> QED BY <1>1, <1>2, <1>3, PTL DEF OperatorSpec
=============================================================================
