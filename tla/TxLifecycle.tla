---------------------------- MODULE TxLifecycle ----------------------------
(***************************************************************************)
(* What the transaction manager promises a caller that polls               *)
(* GetTransactionStatus with the idempotency key it passed to Enqueue.     *)
(*                                                                         *)
(* A poll has one possible answer at any time.  A transaction is Pending   *)
(* until it is seen on chain, then Unconfirmed until it is Finalized; a    *)
(* reorganisation takes it back to Pending.  From Pending it may also      *)
(* become Failed (retries exhausted) or Fatal.  These three are verdicts:  *)
(* the only thing that may happen to one is that it is forgotten, with     *)
(* others whose retention period has ended.                                *)
(***************************************************************************)
CONSTANT Ids

VARIABLE answers  \* idempotency key -> the answers that a poll may get

Verdicts == {"Finalized", "Failed", "Fatal"}

LifecycleInit == answers = [id \in Ids |-> {"Unknown"}]

Move(id, from, to) ==
    /\ answers[id] = {from}
    /\ answers' = [answers EXCEPT ![id] = {to}]

Submit(id) == Move(id, "Unknown", "Pending")
Confirm(id) == Move(id, "Pending", "Unconfirmed")
Revert(id) == Move(id, "Unconfirmed", "Pending")
Conclude(id) == Move(id, "Unconfirmed", "Finalized")
Fail(id) == Move(id, "Pending", "Failed")
FailFatally(id) == Move(id, "Pending", "Fatal")

Forget(S) ==
    /\ \A id \in S : \E v \in Verdicts : answers[id] = {v}
    /\ answers' = [id \in Ids |-> IF id \in S THEN {"Unknown"} ELSE answers[id]]

LifecycleNext ==
    \/ \E S \in SUBSET Ids : Forget(S)
    \/ \E id \in Ids : \/ Submit(id) \/ Confirm(id) \/ Revert(id) \/ Conclude(id)
                       \/ Fail(id) \/ FailFatally(id)

LifecycleSpec == LifecycleInit /\ [][LifecycleNext]_answers
=============================================================================
