----------------------------- MODULE WorkLedger -----------------------------
(***************************************************************************)
(* What the collection queue promises, without saying how: every piece of  *)
(* work moves through a fixed life, done work never comes back, and each   *)
(* lane (a registrable domain) carries at most one active piece of work.   *)
(***************************************************************************)
CONSTANTS Item,      \* pieces of work
          LaneOf     \* the lane of each item

VARIABLE phase

Phase == {"absent", "waiting", "active", "held", "done"}

(* From each phase, the phases one step may reach.  One transaction may    *)
(* both release and cancel an item, so absent reaches done.                *)
Moves == [absent  |-> {"waiting", "done"},
          waiting |-> {"active", "held", "done"},
          active  |-> {"waiting", "held", "done"},
          held    |-> {"waiting"},
          done    |-> {}]

(* No two active items share a lane.                                       *)
LanesExclusive(ph) ==
  \A i, k \in Item : ph[i] = "active" /\ ph[k] = "active" /\ LaneOf[i] = LaneOf[k] => i = k

LedgerInit == phase = [i \in Item |-> "absent"]

LedgerStep ==
  /\ phase' \in [Item -> Phase]
  /\ \A i \in Item : phase'[i] = phase[i] \/ phase'[i] \in Moves[phase[i]]
  /\ LanesExclusive(phase')

LedgerSpec == LedgerInit /\ [][LedgerStep]_phase
=============================================================================
