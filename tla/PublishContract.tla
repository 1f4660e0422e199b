--------------------------- MODULE PublishContract ---------------------------
(***************************************************************************)
(* What a caller of notification.Publisher may rely on, whatever goes on   *)
(* between the process and the broker: success means that the broker has   *)
(* the message, which it takes at most once; an error means nothing, the   *)
(* message may have been stored or may be stored later.                    *)
(***************************************************************************)
CONSTANT Call

VARIABLES
  result,   \* per call: "idle", "busy", "ok" or "error"
  stored    \* the calls whose message the broker has

contractVars == <<result, stored>>

Init == result = [c \in Call |-> "idle"] /\ stored = {}

Begin(c) ==
  /\ result[c] = "idle"
  /\ result' = [result EXCEPT ![c] = "busy"]
  /\ UNCHANGED stored

Store(c) ==
  /\ result[c] \in {"busy", "error"}
  /\ c \notin stored
  /\ stored' = stored \cup {c}
  /\ UNCHANGED result

ReturnOk(c) ==
  /\ result[c] = "busy"
  /\ c \in stored
  /\ result' = [result EXCEPT ![c] = "ok"]
  /\ UNCHANGED stored

ReturnError(c) ==
  /\ result[c] = "busy"
  /\ result' = [result EXCEPT ![c] = "error"]
  /\ UNCHANGED stored

Next == \E c \in Call : Begin(c) \/ Store(c) \/ ReturnOk(c) \/ ReturnError(c)

Spec == Init /\ [][Next]_contractVars

=============================================================================
