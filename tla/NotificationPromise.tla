------------------------ MODULE NotificationPromise ------------------------
(***************************************************************************)
(* What the delivery side of the system promises for a notification that   *)
(* the broker accepted, without saying how: it stays in its lane until it  *)
(* has an outcome.  Delivery is at least once, so a settled notification   *)
(* may come back, and a notification may have more than one outcome.       *)
(***************************************************************************)
CONSTANTS Msg, Undeliverable

VARIABLES
  known,    \* notifications the broker accepted
  live,     \* notifications with a copy still to be handled in their lane
  outcome   \* the outcomes each notification has had

promiseVars == <<known, live, outcome>>

\* An undeliverable notification can only be given up, any other never is.
Outcomes(m) == IF m \in Undeliverable THEN {"dropped"} ELSE {"delivered", "dead"}

Init ==
  /\ known = {}
  /\ live = {}
  /\ outcome = [m \in Msg |-> {}]

Accept(m) ==
  /\ m \notin known
  /\ known' = known \cup {m}
  /\ live' = live \cup {m}
  /\ UNCHANGED outcome

Reach(m, o) ==
  /\ m \in known
  /\ outcome' = [outcome EXCEPT ![m] = @ \cup {o}]
  /\ UNCHANGED <<known, live>>

\* The last copy leaves the lane only after an outcome.
Retire(m) ==
  /\ m \in live
  /\ outcome[m] # {}
  /\ live' = live \ {m}
  /\ UNCHANGED <<known, outcome>>

\* A copy published before is accepted late: a duplicate.
Resurface(m) ==
  /\ m \in known \ live
  /\ outcome[m] # {}
  /\ live' = live \cup {m}
  /\ UNCHANGED <<known, outcome>>

Next ==
  \E m \in Msg :
    \/ Accept(m) \/ Retire(m) \/ Resurface(m)
    \/ \E o \in Outcomes(m) : Reach(m, o)

Spec == Init /\ [][Next]_promiseVars

=============================================================================
