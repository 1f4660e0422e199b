------------------------------- MODULE MCIntake -------------------------------
(***************************************************************************)
(* Instances of Intake for TLC.  One unit of time is five seconds.         *)
(***************************************************************************)
EXTENDS Intake, TLC

CONSTANTS default, welcome, single, many

TemplatesOf == [t \in Types |-> CASE t = "email" -> {default, welcome}
                                  [] t = "sms" -> {default}
                                  [] t = "push" -> {}]

To(type, status) == [t \in Types |-> IF t = type THEN status ELSE "empty"]

Asks(type, priority, status, template) ==
  [type |-> type, priority |-> priority, address |-> To(type, status), template |-> template]

\* What the validator lets through; the service rejects the last two.
Bulk       == Asks("sms", "bulk", "valid", Unset)
Welcome    == Asks("email", Unset, "valid", welcome)
OtherField == [Asks("push", "bulk", "valid", default) EXCEPT !.type = "sms"]
WrongType  == Asks("sms", "transactional", "valid", welcome)

\* A single notification that is published, and a batch with items to reject.
Mixed == [r \in Request |->
  CASE r = single -> <<Welcome>>
    [] r = many   -> <<Bulk, OtherField, WrongType>>]

\* A batch that can be slow.
Long == many :> [i \in 1 .. 7 |-> Welcome]

=============================================================================
