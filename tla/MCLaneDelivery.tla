--------------------------- MODULE MCLaneDelivery ---------------------------
(***************************************************************************)
(* Instances of LaneDelivery for TLC.                                      *)
(***************************************************************************)
EXTENDS LaneDelivery, TLC

CONSTANTS m1, m2, w1, w2, lane, other

\* Both workers compete for one lane.
OneLaneOf   == [m \in Msg |-> lane]
OneLaneFor  == [w \in Worker |-> lane]

\* m1 and w1 belong to one lane, m2 and w2 to another.
TwoLanesOf  == (m1 :> lane) @@ (m2 :> other)
TwoLanesFor == (w1 :> lane) @@ (w2 :> other)

\* Only the worker of the first lane is known to make progress.
FirstLaneSpec == Spec /\ WorkerFairness(w1)

\* The notifications of the first lane settle whatever the other lane does
\* (topology.go:14-16).
FirstLaneIsolated == Isolated(lane)

WorkerSymmetry == Permutations(Worker)

=============================================================================
