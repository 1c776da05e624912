----------------------------- MODULE MCTronTxm -----------------------------
(* Values of the constants of TronTxm for TLC. *)
EXTENDS TronTxm, TLC

CONSTANTS r1, r2, k1, k2, a1, a2, i1, i2

\* Requests of one key each, or two with the same idempotency key.
OwnKey == (r1 :> k1) @@ (r2 :> k2)
SameKey == (r1 :> k1) @@ (r2 :> k1)
OneKey == r1 :> k1

\* The idempotency keys differ.
OwnId == [k \in Keys |-> IF k = k1 THEN i1 ELSE i2]

OneAccount == [k \in Keys |-> a1]
TwoAccounts == (k1 :> a1) @@ (k2 :> a2)
=============================================================================
