---------------------------- MODULE ReliableRelay ----------------------------
(***************************************************************************)
(* What the transactional outbox promises for every event it takes over:   *)
(* the event is handed to the message broker at least once, or it ends     *)
(* where an operator finds it, in the dead letter collection or as a       *)
(* failed row; and once that is settled, nothing more happens to it.       *)
(***************************************************************************)
EXTENDS Naturals

CONSTANT Events

VARIABLES
  fate,    \* what became of each event
  sent,    \* times it was handed to the broker
  filed    \* times it was copied to the dead letter collection

vars == <<fate, sent, filed>>

Init ==
  /\ fate = [e \in Events |-> "absent"]
  /\ sent = [e \in Events |-> 0]
  /\ filed = [e \in Events |-> 0]

Become(e, f) == fate' = [fate EXCEPT ![e] = f] /\ UNCHANGED <<sent, filed>>

Accept(e) == fate[e] = "absent" /\ Become(e, "owed")

Send(e) ==
  /\ fate[e] = "owed"
  /\ sent' = [sent EXCEPT ![e] = @ + 1]
  /\ UNCHANGED <<fate, filed>>

File(e) ==
  /\ fate[e] = "owed"
  /\ filed' = [filed EXCEPT ![e] = @ + 1]
  /\ UNCHANGED <<fate, sent>>

Settle(e) == fate[e] = "owed" /\ sent[e] > 0 /\ Become(e, "done")
Bury(e) == fate[e] = "owed" /\ filed[e] > 0 /\ Become(e, "buried")
Fail(e) == fate[e] = "owed" /\ Become(e, "failed")

Resolve(e) == Settle(e) \/ Bury(e) \/ Fail(e)

Next == \E e \in Events : Accept(e) \/ Send(e) \/ File(e) \/ Resolve(e)

Spec == Init /\ [][Next]_vars
FairSpec == Spec /\ \A e \in Events : WF_vars(Resolve(e))
=============================================================================
