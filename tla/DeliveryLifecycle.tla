------------------------- MODULE DeliveryLifecycle -------------------------
(***************************************************************************)
(* ALLOWED_DELIVERY_TRANSITIONS and the attempts that are counted with it, *)
(* as one delivery, that of a run, version and destination, should show    *)
(* them: attempts follow failures, and a delivery that is delivered or     *)
(* abandoned stays so.                                                     *)
(***************************************************************************)
EXTENDS Integers

CONSTANT None  \* no event yet

VARIABLES status, attempt

Init == status = None /\ attempt = 0

\* The first attempt, or the next one after a failure.
Start ==
  /\ status \in {None, "failed"}
  /\ status' = "pending"
  /\ attempt' = attempt + 1

\* The attempt is delivered or fails.
Finish ==
  /\ status = "pending"
  /\ status' \in {"delivered", "failed"}
  /\ UNCHANGED attempt

Abandon ==
  /\ status \in {"pending", "failed"}
  /\ status' = "abandoned"
  /\ UNCHANGED attempt

Next == Start \/ Finish \/ Abandon

Spec == Init /\ [][Next]_<<status, attempt>>
=============================================================================
