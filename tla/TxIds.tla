------------------------------- MODULE TxIds -------------------------------
(***************************************************************************)
(* The names that the transaction store, the chain and the transaction     *)
(* manager share.                                                          *)
(*                                                                         *)
(* A request r stands for the TronTx object that one call of Enqueue       *)
(* creates.  A key is an account together with an idempotency key          *)
(* (TronTx.ID): the AccountStore holds one TxStore per account, so a key   *)
(* says which store and which entry of its maps.  Two accounts may use the *)
(* same idempotency key.                                                   *)
(*                                                                         *)
(* The n-th transaction built from object r has the hash <<r, n>>: every   *)
(* build carries a new timestamp and expiration (seralizer.go), so a hash  *)
(* is never reused and determines the object it was built from.            *)
(***************************************************************************)
EXTENDS Integers

CONSTANTS Requests,   \* TronTx objects, one per call of Enqueue
          Keys,       \* pairs of an account and an idempotency key
          Key,        \* Key[r]: the key that request r carries
          Account,    \* Account[k]: the account of key k
          Id,         \* Id[k]: the idempotency key of key k
          MaxBuilds,  \* bound on the transactions built from one object
          Nil         \* absent map entry, nil pointer

ASSUME IdsAssumption ==
    /\ Key \in [Requests -> Keys]
    /\ DOMAIN Account = Keys
    /\ DOMAIN Id = Keys
    /\ \A j, k \in Keys : Account[j] = Account[k] /\ Id[j] = Id[k] => j = k
    /\ MaxBuilds \in Nat
    /\ Nil \notin Requests
    /\ Nil \notin Requests \X (1..MaxBuilds)

Hashes == Requests \X (1..MaxBuilds)

TxOf(h) == h[1]
KeyOf(h) == Key[TxOf(h)]

Accounts == {Account[k] : k \in Keys}
Ids == {Id[k] : k \in Keys}
OfAccount(S, a) == {h \in S : Account[KeyOf(h)] = a}
=============================================================================
