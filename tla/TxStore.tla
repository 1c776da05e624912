------------------------------ MODULE TxStore ------------------------------
(***************************************************************************)
(* The in-memory transaction store of the Tron transaction manager:        *)
(* relayer/txm/txstore.go and the TronTx objects of relayer/txm/tx.go.     *)
(*                                                                         *)
(* The maps of the store hold pointers to TronTx objects, whose mutable    *)
(* fields live in the heap tx.  An InflightTx {Hash, ExpirationMs, Tx} is  *)
(* represented by its hash, which determines Tx; that ExpirationMs has     *)
(* passed is a fact of the chain (TronNode).                               *)
(*                                                                         *)
(* Every operation below runs under the store's mutex: one atomic step.    *)
(* An operation that returns an error leaves the store as it is; no caller *)
(* does more with the error than to log it or to skip its next line.       *)
(***************************************************************************)
EXTENDS TxIds

VARIABLES tx,              \* the fields of every TronTx object
          pendingTxs,      \* key -> object
          unconfirmedTxs,  \* key -> hash of the InflightTx
          confirmedTxs,    \* key -> hash of the InflightTx
          finishedTxs,     \* key -> FinishedTx
          hashToId         \* the hashes indexed; the id is the key of the hash

maps == <<pendingTxs, unconfirmedTxs, confirmedTxs, finishedTxs, hashToId>>
storeVars == <<tx, maps>>

TxState == {"Pending", "Errored", "FatallyErrored", "Broadcasted",
            "Confirmed", "Finalized"}

TronTx == [State : TxState, Attempt : Nat, OutOfTimeErrors : Nat,
           EnergyBumpTimes : Nat]

\* aged: RetentionTs lies before the cutoff of the reaper's next tick.
FinishedTx == [Hash : Hashes, aged : BOOLEAN]

ASSUME StoreAssumption == Nil \notin FinishedTx

StoreTypeOK ==
    /\ tx \in [Requests -> TronTx]
    /\ pendingTxs \in [Keys -> Requests \cup {Nil}]
    /\ unconfirmedTxs \in [Keys -> Hashes \cup {Nil}]
    /\ confirmedTxs \in [Keys -> Hashes \cup {Nil}]
    /\ finishedTxs \in [Keys -> FinishedTx \cup {Nil}]
    /\ hashToId \in SUBSET Hashes

NewTx == [State |-> "Pending", Attempt |-> 1, OutOfTimeErrors |-> 0,
          EnergyBumpTimes |-> 0]

NewTxStore ==
    /\ tx = [r \in Requests |-> NewTx]
    /\ pendingTxs = [k \in Keys |-> Nil]
    /\ unconfirmedTxs = [k \in Keys |-> Nil]
    /\ confirmedTxs = [k \in Keys |-> Nil]
    /\ finishedTxs = [k \in Keys |-> Nil]
    /\ hashToId = {}

SetState(r, s) == tx' = [tx EXCEPT ![r].State = s]
Put(map, k, v) == [map EXCEPT ![k] = v]
Delete(map, k) == [map EXCEPT ![k] = Nil]
-----------------------------------------------------------------------------
(* Queries *)

\* Mutant: forgets the finished transactions.
HasInflight(k) ==
    \/ pendingTxs[k] # Nil
    \/ unconfirmedTxs[k] # Nil
    \/ confirmedTxs[k] # Nil

Has(k) ==
    \/ pendingTxs[k] # Nil
    \/ unconfirmedTxs[k] # Nil
    \/ confirmedTxs[k] # Nil
    \/ finishedTxs[k] # Nil

GetUnconfirmed(a) ==
    {unconfirmedTxs[k] : k \in {i \in Keys : Account[i] = a}} \ {Nil}

GetConfirmed(a) ==
    {confirmedTxs[k] : k \in {i \in Keys : Account[i] = a}} \ {Nil}

\* The maps are looked up in this order; the state is read off the object.
GetStatus(k) ==
    IF pendingTxs[k] # Nil THEN tx[pendingTxs[k]].State
    ELSE IF unconfirmedTxs[k] # Nil THEN tx[TxOf(unconfirmedTxs[k])].State
    ELSE IF confirmedTxs[k] # Nil THEN tx[TxOf(confirmedTxs[k])].State
    ELSE IF finishedTxs[k] # Nil THEN tx[TxOf(finishedTxs[k].Hash)].State
    ELSE "none"

\* Mutant: the first store answers, whether it has the ID or not.
GetStatusAllFirst(id) ==
    {IF \E k \in Keys : Account[k] = a /\ Id[k] = id
     THEN GetStatus(CHOOSE k \in Keys : Account[k] = a /\ Id[k] = id)
     ELSE "none" : a \in Accounts}

\* AccountStore: the stores of the accounts are searched in the random order of a Go
\* map, and the first that has the ID answers.  These are the possible answers.
GetStatusAll(id) ==
    LET holders == {k \in Keys : Id[k] = id /\ Has(k)}
    IN  IF holders = {} THEN {"none"} ELSE {GetStatus(k) : k \in holders}
-----------------------------------------------------------------------------
(* Operations *)

(***************************************************************************)
(* The caller has assigned the object (tx') before the call.  A retry of a *)
(* key that is not unconfirmed dereferences a nil InflightTx (line 63):    *)
(* the caller models that crash, here unconfirmedTxs[k] is not Nil.        *)
(***************************************************************************)
OnPending(r, retry) ==
    LET k == Key[r]
        h == unconfirmedTxs[k]
        fresh == tx'[r].State = "Pending" /\ pendingTxs[k] = Nil
    IN  /\ IF retry /\ h \in hashToId
           THEN /\ hashToId' = hashToId \ {h}
                /\ unconfirmedTxs' = Delete(unconfirmedTxs, k)
           ELSE UNCHANGED <<hashToId, unconfirmedTxs>>
        /\ pendingTxs' = IF (retry => h \in hashToId) /\ fresh
                         THEN Put(pendingTxs, k, r)
                         ELSE pendingTxs
        /\ UNCHANGED <<confirmedTxs, finishedTxs>>

\* Mutant: the entry stays pending.
OnBroadcastedKeepsPending(h) ==
    LET k == KeyOf(h)
    IN  IF h \notin hashToId /\ pendingTxs[k] # Nil
        THEN /\ hashToId' = hashToId \cup {h}
             /\ SetState(TxOf(h), "Broadcasted")
             /\ unconfirmedTxs' = Put(unconfirmedTxs, k, h)
             /\ UNCHANGED <<pendingTxs, confirmedTxs, finishedTxs>>
        ELSE UNCHANGED storeVars

OnBroadcasted(h) ==
    LET k == KeyOf(h)
    IN  IF h \notin hashToId /\ pendingTxs[k] # Nil
        THEN /\ hashToId' = hashToId \cup {h}
             /\ SetState(TxOf(h), "Broadcasted")
             /\ unconfirmedTxs' = Put(unconfirmedTxs, k, h)
             /\ pendingTxs' = Delete(pendingTxs, k)
             /\ UNCHANGED <<confirmedTxs, finishedTxs>>
        ELSE UNCHANGED storeVars

\* Mutant: the object's state is not updated.
OnConfirmedKeepsState(k) ==
    LET h == unconfirmedTxs[k]
    IN  IF h # Nil /\ tx[TxOf(h)].State = "Broadcasted"
        THEN /\ unconfirmedTxs' = Delete(unconfirmedTxs, k)
             /\ confirmedTxs' = Put(confirmedTxs, k, h)
             /\ UNCHANGED <<tx, pendingTxs, finishedTxs, hashToId>>
        ELSE UNCHANGED storeVars

OnConfirmed(k) ==
    LET h == unconfirmedTxs[k]
    IN  IF h # Nil /\ tx[TxOf(h)].State = "Broadcasted"
        THEN /\ unconfirmedTxs' = Delete(unconfirmedTxs, k)
             /\ SetState(TxOf(h), "Confirmed")
             /\ confirmedTxs' = Put(confirmedTxs, k, h)
             /\ UNCHANGED <<pendingTxs, finishedTxs, hashToId>>
        ELSE UNCHANGED storeVars

\* The entry of h is removed from its map and recorded as finished in state s.
Finish(k, h, s) ==
    /\ SetState(TxOf(h), s)
    /\ finishedTxs' = Put(finishedTxs, k, [Hash |-> h, aged |-> FALSE])
    /\ UNCHANGED pendingTxs

FinishUnconfirmed(k, s) ==
    /\ Finish(k, unconfirmedTxs[k], s)
    /\ unconfirmedTxs' = Delete(unconfirmedTxs, k)
    /\ UNCHANGED confirmedTxs

FinishConfirmed(k, s) ==
    /\ Finish(k, confirmedTxs[k], s)
    /\ confirmedTxs' = Delete(confirmedTxs, k)
    /\ UNCHANGED unconfirmedTxs

OnErrored(k) ==
    IF unconfirmedTxs[k] # Nil
    THEN /\ FinishUnconfirmed(k, "Errored")
         /\ hashToId' = hashToId \ {unconfirmedTxs[k]}
    ELSE IF confirmedTxs[k] # Nil
    THEN /\ FinishConfirmed(k, "Errored")
         /\ hashToId' = hashToId \ {confirmedTxs[k]}
    ELSE UNCHANGED storeVars

\* Unlike OnErrored this leaves the hash indexed, until the reaper deletes it.
OnFatalError(k) ==
    IF unconfirmedTxs[k] # Nil
    THEN FinishUnconfirmed(k, "FatallyErrored") /\ UNCHANGED hashToId
    ELSE IF confirmedTxs[k] # Nil
    THEN FinishConfirmed(k, "FatallyErrored") /\ UNCHANGED hashToId
    ELSE UNCHANGED storeVars

\* Mutant: the hash stays indexed.
OnReorgKeepsHash(k) ==
    LET h == confirmedTxs[k]
    IN  IF h # Nil
        THEN /\ confirmedTxs' = Delete(confirmedTxs, k)
             /\ SetState(TxOf(h), "Pending")
             /\ pendingTxs' = Put(pendingTxs, k, TxOf(h))
             /\ UNCHANGED <<unconfirmedTxs, finishedTxs, hashToId>>
        ELSE UNCHANGED storeVars

OnReorg(k) ==
    LET h == confirmedTxs[k]
    IN  IF h # Nil
        THEN /\ confirmedTxs' = Delete(confirmedTxs, k)
             /\ hashToId' = hashToId \ {h}
             /\ SetState(TxOf(h), "Pending")
             /\ pendingTxs' = Put(pendingTxs, k, TxOf(h))
             /\ UNCHANGED <<unconfirmedTxs, finishedTxs>>
        ELSE UNCHANGED storeVars

OnFinalized(k) ==
    IF confirmedTxs[k] # Nil
    THEN FinishConfirmed(k, "Finalized") /\ UNCHANGED hashToId
    ELSE UNCHANGED storeVars

DeleteFinishedTxs(ids) ==
    LET found == {k \in ids : finishedTxs[k] # Nil}
    IN  /\ finishedTxs' = [k \in Keys |-> IF k \in found THEN Nil
                                                         ELSE finishedTxs[k]]
        /\ hashToId' = hashToId \ {finishedTxs[k].Hash : k \in found}
        /\ UNCHANGED <<tx, pendingTxs, unconfirmedTxs, confirmedTxs>>
=============================================================================
