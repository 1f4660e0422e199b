---------------------------- MODULE Notifications ----------------------------
(***************************************************************************)
(* What becomes of one requested notification before it is published: the  *)
(* default priority, the invariants of notification.New, the template.     *)
(*                                                                         *)
(* An address is "empty", "malformed" or "valid" for its channel; a        *)
(* template is its ID.                                                     *)
(***************************************************************************)
EXTENDS Integers

CONSTANTS
  TemplateId,   \* IDs a request may name
  Default,      \* the ID of the default template of each type
  Unset         \* an optional field that the request leaves out

Types      == {"email", "sms", "push"}
Priorities == {"transactional", "bulk"}
Addresses  == {"empty", "malformed", "valid"}

ASSUME NotificationAssumption ==
  /\ Default \in TemplateId
  /\ Unset \notin TemplateId \cup Types \cup Priorities

\* A requested notification.  A field may hold what its enumeration excludes.
Item == [type: Types \cup {Unset}, priority: Priorities \cup {Unset, "unknown"},
         address: [Types -> Addresses], template: TemplateId \cup {Unset}]

\* The lanes DeclareTopology declares.
Lanes == Types \X Priorities

\* Mutant: what does not say otherwise is bulk.
BulkByDefault(item) == IF item.priority = Unset THEN "bulk" ELSE item.priority

PriorityOf(item) ==
  IF item.priority = Unset THEN "transactional" ELSE item.priority

\* Mutant: the recipient is left to the worker.
IsLane(item) == item.type \in Types /\ PriorityOf(item) \in Priorities

\* notification.New: the type, the priority and the recipient's own address.
IsValid(item) ==
  /\ item.type \in Types
  /\ PriorityOf(item) \in Priorities
  /\ item.address[item.type] = "valid"

\* Service.Resolve: the template named, or the default of the type.
Resolved(item) == IF item.template = Unset THEN Default ELSE item.template

\* Among the templates known of each type.
HasTemplate(item, known) == Resolved(item) \in known[item.type]

\* How Service.Send goes up to the publish.
Verdict(item, known) ==
  IF ~IsValid(item) THEN "invalid"
  ELSE IF ~HasTemplate(item, known) THEN "no_template"
  ELSE "publish"

\* NewMessage, with the template's ID stamped on it.
Message(item) ==
  [lane |-> <<item.type, PriorityOf(item)>>, template |-> Resolved(item), retries |-> 0]

=============================================================================
