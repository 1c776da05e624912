-------------------------- MODULE LifecycleProofs --------------------------
(***************************************************************************)
(* TronTxm implements TxLifecycle, and the reaper deletes only what its    *)
(* retention period has released: for any number of requests, keys,        *)
(* attempts and faults, as long as calls of Enqueue with one key do not    *)
(* overlap, and no two accounts use the same idempotency key.              *)
(***************************************************************************)
EXTENDS TronTxmProofs

-----------------------------------------------------------------------------
(* The status of a key *)

\* What the store of its account answers for a key.
KeyStatus(k) == CommonStatus(GetStatus(k))

\* In a consistent store the status of a key follows from the map it is in.
StatusFromMaps ==
    \A k \in Keys :
        /\ pendingTxs[k] # Nil \/ unconfirmedTxs[k] # Nil
             => KeyStatus(k) = "Pending"
        /\ confirmedTxs[k] # Nil => KeyStatus(k) = "Unconfirmed"
        /\ finishedTxs[k] # Nil =>
             LET state == tx[TxOf(finishedTxs[k].Hash)].State
             IN  /\ state = "Finalized" => KeyStatus(k) = "Finalized"
                 /\ state = "Errored" => KeyStatus(k) = "Failed"
                 /\ state = "FatallyErrored" => KeyStatus(k) = "Fatal"
        /\ ~Has(k) => KeyStatus(k) = "Unknown"

LEMMA StatusLookup == SerialInv => StatusFromMaps
  <1> SUFFICES ASSUME StoreInv, UnconfirmedState, NEW k \in Keys
               PROVE  /\ pendingTxs[k] # Nil \/ unconfirmedTxs[k] # Nil
                           => KeyStatus(k) = "Pending"
                      /\ confirmedTxs[k] # Nil => KeyStatus(k) = "Unconfirmed"
                      /\ finishedTxs[k] # Nil =>
                           LET state == tx[TxOf(finishedTxs[k].Hash)].State
                           IN  /\ state = "Finalized"
                                    => KeyStatus(k) = "Finalized"
                               /\ state = "Errored" => KeyStatus(k) = "Failed"
                               /\ state = "FatallyErrored"
                                    => KeyStatus(k) = "Fatal"
                      /\ ~Has(k) => KeyStatus(k) = "Unknown"
    BY DEF StatusFromMaps, SerialInv, ConfirmInv
  <1>1. CASE pendingTxs[k] # Nil
    <2>1. GetStatus(k) = "Pending"
      BY <1>1 DEF GetStatus, StoreInv, Homes
    <2> QED
      BY <1>1, <2>1 DEF KeyStatus, CommonStatus, Has, StoreInv, SingleHome
  <1>2. CASE unconfirmedTxs[k] # Nil
    <2>1. GetStatus(k) \in {"Pending", "Broadcasted"}
      BY <1>2 DEF GetStatus, StoreInv, SingleHome, UnconfirmedState
    <2> QED
      BY <1>2, <2>1 DEF KeyStatus, CommonStatus, Has, StoreInv, SingleHome
  <1>3. CASE confirmedTxs[k] # Nil
    <2>1. GetStatus(k) = "Confirmed"
      BY <1>3 DEF GetStatus, StoreInv, Homes, SingleHome
    <2> QED
      BY <1>3, <2>1 DEF KeyStatus, CommonStatus, Has, StoreInv, SingleHome
  <1>4. CASE finishedTxs[k] # Nil
    <2>1. GetStatus(k) = tx[TxOf(finishedTxs[k].Hash)].State
      BY <1>4 DEF GetStatus, StoreInv, SingleHome
    <2>2. pendingTxs[k] = Nil /\ unconfirmedTxs[k] = Nil /\ confirmedTxs[k] = Nil
      BY <1>4 DEF StoreInv, SingleHome
    <2> QED
      BY <1>4, <2>1, <2>2 DEF KeyStatus, CommonStatus, Has
  <1>5. CASE ~Has(k)
    <2>1. GetStatus(k) = "none"
      BY <1>5 DEF GetStatus, Has
    <2> QED
      BY <1>5, <2>1 DEF KeyStatus, CommonStatus, Has
  <1> QED
    BY <1>1, <1>2, <1>3, <1>4, <1>5 DEF Has

LEMMA StatusLookupNext == SerialInv' => StatusFromMaps'
  BY StatusLookup, PTL

\* A step that leaves the entry of a key alone, and its object, does not change
\* the status of the key.
LEMMA OtherKeys ==
    ASSUME StoreTypeOK, StoreInv, NEW r \in Requests, NEW k \in Keys, k # Key[r],
           \A q \in Requests : q # r => tx'[q] = tx[q],
           pendingTxs'[k] = pendingTxs[k], unconfirmedTxs'[k] = unconfirmedTxs[k],
           confirmedTxs'[k] = confirmedTxs[k], finishedTxs'[k] = finishedTxs[k]
    PROVE  KeyStatus(k)' = KeyStatus(k)
  <1>1. pendingTxs[k] # Nil => pendingTxs[k] \in Requests /\ pendingTxs[k] # r
    BY DEF StoreInv, Homes, StoreTypeOK
  <1>2. unconfirmedTxs[k] # Nil =>
           TxOf(unconfirmedTxs[k]) \in Requests /\ TxOf(unconfirmedTxs[k]) # r
    BY HashParts DEF StoreInv, Homes, StoreTypeOK, KeyOf
  <1>3. confirmedTxs[k] # Nil =>
           TxOf(confirmedTxs[k]) \in Requests /\ TxOf(confirmedTxs[k]) # r
    BY HashParts DEF StoreInv, Homes, StoreTypeOK, KeyOf
  <1>4. finishedTxs[k] # Nil =>
           TxOf(finishedTxs[k].Hash) \in Requests /\ TxOf(finishedTxs[k].Hash) # r
    BY HashParts DEF StoreInv, Homes, StoreTypeOK, FinishedTx, KeyOf
  <1>5. GetStatus(k)' = GetStatus(k)
    BY <1>1, <1>2, <1>3, <1>4 DEF GetStatus
  <1> QED
    BY <1>5 DEF KeyStatus

-----------------------------------------------------------------------------
(* Steps of the life cycle *)

\* No two accounts use the same idempotency key.
UniqueIds == \A j, k \in Keys : Id[j] = Id[k] => j = k

\* What callers may be told, as TxLifecycle's variable.
Answers == [id \in Ids |-> GetTransactionStatus(id)]

LifecycleStep == Lifecycle!LifecycleNext \/ UNCHANGED Answers

\* Where IDs are unique, the search over all accounts finds the one key of the ID.
AnswersOfKeys == \A k \in Keys : GetTransactionStatus(Id[k]) = {KeyStatus(k)}

LEMMA OneAnswer == UniqueIds => AnswersOfKeys
  <1> SUFFICES ASSUME UniqueIds, NEW k \in Keys
               PROVE  GetTransactionStatus(Id[k]) = {KeyStatus(k)}
    BY DEF AnswersOfKeys
  <1>1. CASE Has(k)
    <2>1. {i \in Keys : Id[i] = Id[k] /\ Has(i)} = {k}
      BY <1>1 DEF UniqueIds
    <2>2. GetStatusAll(Id[k]) = {GetStatus(k)}
      BY <2>1 DEF GetStatusAll
    <2> QED
      BY <2>2 DEF GetTransactionStatus, KeyStatus
  <1>2. CASE ~Has(k)
    <2>1. {i \in Keys : Id[i] = Id[k] /\ Has(i)} = {}
      BY <1>2 DEF UniqueIds
    <2>2. GetStatus(k) = "none"
      BY <1>2 DEF GetStatus, Has
    <2>3. GetStatusAll(Id[k]) = {GetStatus(k)}
      BY <2>1, <2>2 DEF GetStatusAll
    <2> QED
      BY <2>3 DEF GetTransactionStatus, KeyStatus
  <1> QED
    BY <1>1, <1>2

LEMMA OneAnswerNext == UniqueIds => AnswersOfKeys'
  <1>1. UniqueIds' => AnswersOfKeys'
    BY OneAnswer, PTL
  <1> QED
    BY <1>1 DEF UniqueIds

\* The status of k alone changes, in one of the ways of the life cycle.
LEMMA StatusMoves ==
    ASSUME UniqueIds, NEW k \in Keys, NEW from, NEW to,
           KeyStatus(k) = from, KeyStatus(k)' = to,
           \A i \in Keys : i # k => KeyStatus(i)' = KeyStatus(i),
           <<from, to>> \in {<<"Unknown", "Pending">>, <<"Pending", "Unconfirmed">>,
                            <<"Unconfirmed", "Pending">>, <<"Unconfirmed", "Finalized">>,
                            <<"Pending", "Failed">>, <<"Pending", "Fatal">>,
                            <<"Pending", "Pending">>}
    PROVE  LifecycleStep
  <1> DEFINE id == Id[k]
  <1>0. id \in Ids /\ AnswersOfKeys /\ AnswersOfKeys'
    BY OneAnswer, OneAnswerNext DEF Ids
  <1>1. Answers[id] = {from} /\ Answers'[id] = {to}
    BY <1>0 DEF Answers, AnswersOfKeys
  <1>2. ASSUME NEW j \in Ids, j # id PROVE Answers'[j] = Answers[j]
    <2>1. PICK i \in Keys : Id[i] = j
      BY DEF Ids
    <2> QED
      BY <1>0, <1>2, <2>1 DEF Answers, AnswersOfKeys
  <1>3. Answers' = [Answers EXCEPT ![id] = {to}]
    BY <1>0, <1>1, <1>2 DEF Answers
  <1>4. CASE from = to
    BY <1>1, <1>2, <1>4 DEF LifecycleStep, Answers
  <1>5. CASE from # to
    <2>1. Lifecycle!Move(id, from, to)
      BY <1>1, <1>3 DEF Lifecycle!Move, Answers
    <2> QED
      BY <1>0, <1>5, <2>1
      DEF LifecycleStep, Lifecycle!LifecycleNext, Lifecycle!Submit, Lifecycle!Confirm,
          Lifecycle!Revert, Lifecycle!Conclude, Lifecycle!Fail, Lifecycle!FailFatally
  <1> QED
    BY <1>4, <1>5

\* No status changes.
LEMMA StatusStays ==
    ASSUME UniqueIds, \A k \in Keys : KeyStatus(k)' = KeyStatus(k)
    PROVE  LifecycleStep
  <1>1. AnswersOfKeys /\ AnswersOfKeys'
    BY OneAnswer, OneAnswerNext
  <1>2. ASSUME NEW j \in Ids PROVE GetTransactionStatus(j)' = GetTransactionStatus(j)
    <2>1. PICK i \in Keys : Id[i] = j
      BY DEF Ids
    <2> QED
      BY <1>1, <2>1 DEF AnswersOfKeys
  <1> QED
    BY <1>2 DEF LifecycleStep, Answers

LEMMA StoreStutter ==
    ASSUME UniqueIds, UNCHANGED storeVars
    PROVE  LifecycleStep
  BY StatusStays DEF KeyStatus, GetStatus, storeVars, maps

\* A request enters the store.
LEMMA EnqueueStep ==
    ASSUME UniqueIds, Inv, SerialInv', NEW r \in Requests, EnqueueRejected(r) \/ Enqueue(r)
    PROVE  LifecycleStep
  <1>t. StoreTypeOK /\ SerialInv
    BY DEF Inv, TypeInv, TypeOK
  <1>1. CASE EnqueueRejected(r) \/ EnqueueCheck(r) \/ EnqueueSend(r)
    BY <1>1, StoreStutter DEF EnqueueRejected, EnqueueCheck, EnqueueSend
  <1>2. CASE EnqueueStore(r)
    <2>1. ~Has(Key[r]) /\ tx[r].State = "Pending" /\ UNCHANGED tx /\ OnPending(r, FALSE)
      BY <1>2, <1>t DEF EnqueueStore, SerialInv, EnqueueOwnsKey
    <2>2. /\ StoreInv'
          /\ pendingTxs' = Put(pendingTxs, Key[r], r)
          /\ UNCHANGED <<unconfirmedTxs, confirmedTxs, finishedTxs>>
      BY <1>t, <2>1, OnPendingNew DEF SerialInv
    <2>3. Key[r] \in Keys /\ r # Nil
      BY HashParts
    <2>4. KeyStatus(Key[r]) = "Unknown"
      BY <1>t, <2>1, <2>3, StatusLookup DEF StatusFromMaps
    <2>5. pendingTxs'[Key[r]] = r
      BY <1>t, <2>2, <2>3 DEF Put, StoreTypeOK
    <2>6. KeyStatus(Key[r])' = "Pending"
      BY <2>2, <2>3, <2>5, StatusLookupNext DEF StatusFromMaps
    <2>7. ASSUME NEW i \in Keys, i # Key[r]
          PROVE  KeyStatus(i)' = KeyStatus(i)
      BY <1>t, <2>1, <2>2, <2>7, OtherKeys DEF SerialInv, Put, StoreTypeOK
    <2> QED
      BY <2>3, <2>4, <2>6, <2>7, StatusMoves
  <1> QED
    BY <1>1, <1>2 DEF Enqueue

\* A broadcast leaves the status Pending.
LEMMA BroadcastStep ==
    ASSUME UniqueIds, Inv, SerialInv', broadcastLoop
    PROVE  LifecycleStep
  <1>t. StoreTypeOK /\ SerialInv /\ ControlOK
    BY DEF Inv, TypeInv, TypeOK
  <1>1. CASE SignFails \/ SendRejected
    BY <1>1, FailedBroadcastIsIgnored, StoreStutter
    DEF SignFails, SendRejected, BroadcastFailed
  <1>2. CASE Broadcasted
    <2>0. PICK h \in Hashes : h = bhash
      BY <1>2, <1>t DEF Broadcasted, ControlOK
    <2> DEFINE r == TxOf(h)
               k == KeyOf(h)
    <2>1. /\ OnBroadcasted(h) /\ h \in Hashes /\ r = btx /\ r \in Requests
          /\ k = Key[r] /\ k \in Keys /\ h # Nil
      BY <1>2, <1>t, <2>0, HashParts DEF Broadcasted, ControlOK, KeyOf
    <2>2. pendingTxs[k] = r /\ r # Nil
      BY <1>t, <2>1, HashParts DEF SerialInv, SingleBroadcaster
    <2>3. /\ StoreInv'
          /\ pendingTxs' = Delete(pendingTxs, k)
          /\ unconfirmedTxs' = Put(unconfirmedTxs, k, h)
          /\ UNCHANGED <<confirmedTxs, finishedTxs>>
          /\ \A q \in Requests : q # r => tx'[q] = tx[q]
      BY <1>t, <2>1, <2>2, OnBroadcastedPending DEF SerialInv
    <2>4. unconfirmedTxs'[k] = h
      BY <1>t, <2>1, <2>3 DEF Put, StoreTypeOK
    <2>5. KeyStatus(k) = "Pending"
      BY <1>t, <2>1, <2>2, StatusLookup DEF StatusFromMaps
    <2>6. KeyStatus(k)' = "Pending"
      BY <2>1, <2>3, <2>4, StatusLookupNext DEF StatusFromMaps
    <2>7. ASSUME NEW i \in Keys, i # k
          PROVE  KeyStatus(i)' = KeyStatus(i)
      BY <1>t, <2>1, <2>3, <2>7, OtherKeys DEF SerialInv, Put, Delete, StoreTypeOK
    <2> QED
      BY <2>1, <2>5, <2>6, <2>7, StatusMoves
  <1> QED
    BY <1>1, <1>2, StoreStutter
    DEF broadcastLoop, BroadcastReceive, PrepareFails, PreparePanics, PrepareTx, SignTx,
        SendAccepted, SendBusy, SendPanics, BroadcastStops

\* The confirm loop moves one entry.
LEMMA ConfirmStep ==
    ASSUME UniqueIds, Inv, SerialInv', confirmLoop
    PROVE  LifecycleStep
  <1>t. StoreTypeOK /\ SerialInv /\ ControlOK
    BY DEF Inv, TypeInv, TypeOK
  <1>m. ASSUME NEW h \in Hashes, EntryMoves(h), NEW i \in Keys, i # KeyOf(h)
        PROVE  KeyStatus(i)' = KeyStatus(i)
    BY <1>t, <1>m, HashParts, OtherKeys DEF SerialInv, EntryMoves, KeyOf
  <1>1. CASE HandleUnconfirmed \/ Retry
    <2>0. PICK h \in Hashes : h = cur
      BY <1>1, <1>t DEF HandleUnconfirmed, Retry, ControlOK
    <2> DEFINE r == TxOf(h)
               k == KeyOf(h)
    <2>1. /\ cpc \in {"handle", "retry"} /\ h = cur /\ k = Key[r]
          /\ k \in Keys /\ r \in Requests /\ h # Nil /\ r # Nil
      BY <1>1, <1>t, <2>0, HashParts DEF HandleUnconfirmed, Retry, KeyOf
    <2>2. unconfirmedTxs[k] = h
      BY <1>t, <2>1, HashParts
      DEF SerialInv, ConfirmInv, SnapshotCurrent, Snapshot, InUnconfirmedPass
    <2>3. KeyStatus(k) = "Pending"
      BY <1>t, <2>1, <2>2, StatusLookup DEF StatusFromMaps
    <2>4. CASE UNCHANGED storeVars
      BY <2>4, StoreStutter
    <2>5. CASE EntryMoves(h) /\ EntryLands(h)
      <3>1. KeyStatus(k)' \in {"Pending", "Unconfirmed", "Failed", "Fatal"}
        <4>1. CASE pendingTxs'[k] = r \/ confirmedTxs'[k] = h
          BY <2>1, <2>5, <4>1, StatusLookupNext DEF StatusFromMaps
        <4>2. CASE /\ finishedTxs'[k] = [Hash |-> h, aged |-> FALSE]
                   /\ tx'[r].State \in {"Errored", "FatallyErrored"}
          <5>1. finishedTxs'[k] # Nil /\ finishedTxs'[k].Hash = h
            BY <2>1, <4>2, FinishedEntry
          <5> QED
            BY <2>1, <2>5, <4>2, <5>1, StatusLookupNext DEF StatusFromMaps
        <4> QED
          BY <2>5, <4>1, <4>2 DEF EntryLands
      <3> QED
        BY <1>m, <2>1, <2>3, <2>5, <3>1, StatusMoves
    <2>6. CASE ObjectRetried(h)
      <3>1. unconfirmedTxs'[k] = h
        BY <2>2, <2>6 DEF ObjectRetried, maps
      <3>2. KeyStatus(k)' = "Pending"
        BY <2>1, <3>1, StatusLookupNext DEF StatusFromMaps
      <3>3. ASSUME NEW i \in Keys, i # k
            PROVE  KeyStatus(i)' = KeyStatus(i)
        BY <1>t, <2>1, <2>6, <3>3, OtherKeys DEF SerialInv, ObjectRetried, maps
      <3> QED
        BY <2>1, <2>3, <3>2, <3>3, StatusMoves
    <2>7. CASE HandleUnconfirmed
      BY <2>1, <2>2, <2>4, <2>5, <2>6, <2>7, HandleResultSerial DEF HandleUnconfirmed
    <2>8. CASE Retry
      BY <2>1, <2>5, <2>8, RetrySerial
    <2> QED
      BY <1>1, <2>7, <2>8
  <1>2. CASE HandleReorg \/ Finalize
    <2>0. PICK h \in Hashes : h = cur
      BY <1>2, <1>t DEF HandleReorg, Finalize, ControlOK
    <2> DEFINE r == TxOf(h)
               k == KeyOf(h)
    <2>1. /\ cpc \in {"reorged", "finalize"} /\ h = cur
          /\ k \in Keys /\ r \in Requests /\ k = Key[r] /\ h # Nil /\ r # Nil
      BY <1>2, <2>0, HashParts DEF HandleReorg, Finalize, KeyOf
    <2>2. confirmedTxs[k] = h
      BY <1>t, <2>1, HashParts DEF SerialInv, ConfirmInv, SnapshotCurrent, Snapshot, InUnconfirmedPass
    <2>3. KeyStatus(k) = "Unconfirmed"
      BY <1>t, <2>1, <2>2, StatusLookup DEF StatusFromMaps
    <2>4. CASE HandleReorg
      <3>1. /\ StoreInv'
            /\ confirmedTxs' = Delete(confirmedTxs, k)
            /\ pendingTxs' = Put(pendingTxs, k, r)
            /\ UNCHANGED <<unconfirmedTxs, finishedTxs>>
            /\ \A q \in Requests : q # r => tx'[q] = tx[q]
        BY <1>t, <2>1, <2>2, <2>4, OnReorgConfirmed DEF SerialInv, HandleReorg
      <3>2. pendingTxs'[k] = r
        BY <1>t, <2>1, <3>1 DEF Put, StoreTypeOK
      <3>3. KeyStatus(k)' = "Pending"
        BY <2>1, <3>1, <3>2, StatusLookupNext DEF StatusFromMaps
      <3>4. ASSUME NEW i \in Keys, i # k
            PROVE  KeyStatus(i)' = KeyStatus(i)
        BY <1>t, <2>1, <3>1, <3>4, OtherKeys DEF SerialInv, Put, Delete, StoreTypeOK
      <3> QED
        BY <2>1, <2>3, <3>3, <3>4, StatusMoves
    <2>5. CASE Finalize
      <3>1. /\ StoreInv'
            /\ confirmedTxs' = Delete(confirmedTxs, k)
            /\ finishedTxs' = Put(finishedTxs, k, [Hash |-> h, aged |-> FALSE])
            /\ UNCHANGED <<pendingTxs, unconfirmedTxs>>
            /\ \A q \in Requests : q # r => tx'[q] = tx[q]
            /\ tx'[r].State = "Finalized"
        BY <1>t, <2>1, <2>2, <2>5, OnFinalizedConfirmed DEF SerialInv, Finalize
      <3>2. finishedTxs'[k] # Nil /\ finishedTxs'[k].Hash = h
        BY <1>t, <2>1, <3>1, FinishedEntry DEF Put, StoreTypeOK
      <3>3. KeyStatus(k)' = "Finalized"
        BY <2>1, <3>1, <3>2, StatusLookupNext DEF StatusFromMaps
      <3>4. ASSUME NEW i \in Keys, i # k
            PROVE  KeyStatus(i)' = KeyStatus(i)
        BY <1>t, <2>1, <3>1, <3>4, OtherKeys DEF SerialInv, Put, Delete, StoreTypeOK
      <3> QED
        BY <2>1, <2>3, <3>3, <3>4, StatusMoves
    <2> QED
      BY <1>2, <2>4, <2>5
  <1> QED
    BY <1>1, <1>2, StoreStutter
    DEF confirmLoop, ConfirmTick, CollectUnconfirmed, GetNowBlock, CollectConfirmed,
        QueryUnconfirmed, QueryConfirmed, UnconfirmedChecked, CheckReorged,
        FinalizedChecked, ConfirmStops

-----------------------------------------------------------------------------
(* Reaping *)

\* What the reaper has collected is still finished and aged when it deletes.
ReapInv == \A k \in reapIds : finishedTxs[k] # Nil /\ finishedTxs[k].aged

\* A finished entry stays, and stays aged, until the reaper deletes it.
LEMMA FinishedStays ==
    ASSUME Inv, Next, ~ReapDelete, NEW k \in Keys, finishedTxs[k] # Nil
    PROVE  finishedTxs'[k] # Nil /\ (finishedTxs[k].aged => finishedTxs'[k].aged)
  <1>t. StoreTypeOK /\ SerialInv /\ ControlOK
    BY DEF Inv, TypeInv, TypeOK
  <1>u. CASE UNCHANGED finishedTxs
    BY <1>u
  <1>1. CASE \E r \in Requests : EnqueueRejected(r) \/ Enqueue(r)
    BY <1>1, <1>u
    DEF EnqueueRejected, Enqueue, EnqueueCheck, EnqueueStore, EnqueueSend, OnPending,
        storeVars, maps
  <1>2. CASE broadcastLoop
    <2>1. CASE SignFails \/ SendRejected
      BY <1>u, <2>1, FailedBroadcastIsIgnored
      DEF SignFails, SendRejected, BroadcastFailed, storeVars, maps
    <2>2. CASE Broadcasted
      BY <1>u, <2>2 DEF Broadcasted, OnBroadcasted, storeVars, maps
    <2> QED
      BY <1>2, <1>u, <2>1, <2>2
      DEF broadcastLoop, BroadcastReceive, PrepareFails, PreparePanics, PrepareTx, SignTx,
          SendAccepted, SendBusy, SendPanics, BroadcastStops, storeVars, maps
  <1>3. CASE confirmLoop
    <2>1. CASE HandleUnconfirmed
      <3>1. cpc = "handle" /\ cur \in Hashes /\ HandleResult(TxOf(cur))
        BY <1>t, <2>1 DEF HandleUnconfirmed, ControlOK
      <3>2. unconfirmedTxs[KeyOf(cur)] = cur /\ cur # Nil /\ KeyOf(cur) \in Keys
        BY <1>t, <3>1, HashParts DEF SerialInv, ConfirmInv, SnapshotCurrent, Snapshot, InUnconfirmedPass
      <3>3. finishedTxs[KeyOf(cur)] = Nil
        BY <1>t, <3>2 DEF SerialInv, StoreInv, SingleHome
      <3>4. UNCHANGED storeVars \/ EntryMoves(cur) \/ ObjectRetried(cur)
        BY <2>1, <3>1, <3>2, HandleResultSerial DEF HandleUnconfirmed
      <3> QED
        BY <1>u, <3>3, <3>4 DEF EntryMoves, ObjectRetried, storeVars, maps
    <2>2. CASE HandleReorg
      BY <1>u, <2>2 DEF HandleReorg, OnReorg, storeVars, maps
    <2>3. CASE Finalize
      <3>1. cpc = "finalize" /\ cur \in Hashes /\ OnFinalized(KeyOf(cur))
        BY <1>t, <2>3 DEF Finalize, ControlOK
      <3>2. confirmedTxs[KeyOf(cur)] = cur /\ cur # Nil /\ KeyOf(cur) \in Keys
        BY <1>t, <3>1, HashParts DEF SerialInv, ConfirmInv, SnapshotCurrent, Snapshot, InUnconfirmedPass
      <3>3. finishedTxs[KeyOf(cur)] = Nil
        BY <1>t, <3>2 DEF SerialInv, StoreInv, SingleHome
      <3> QED
        BY <1>t, <3>1, <3>2, <3>3
        DEF OnFinalized, FinishConfirmed, Finish, Put, StoreTypeOK
    <2>4. CASE Retry
      BY <1>u, <2>4, RetrySerial
    <2> QED
      BY <1>3, <1>u, <2>1, <2>2, <2>3, <2>4
      DEF confirmLoop, ConfirmTick, CollectUnconfirmed, GetNowBlock, CollectConfirmed,
          QueryUnconfirmed, QueryConfirmed, UnconfirmedChecked, CheckReorged,
          FinalizedChecked, ConfirmStops, storeVars, maps
  <1>4. CASE reapLoop
    BY <1>4, <1>u DEF reapLoop, ReapScan, ReapStops, storeVars, maps
  <1>5. ASSUME NEW i \in Keys, Age(i)
        PROVE  finishedTxs'[k] # Nil /\ (finishedTxs[k].aged => finishedTxs'[k].aged)
    <2>1. finishedTxs[i] \in FinishedTx
          /\ finishedTxs'[i] = [finishedTxs[i] EXCEPT !.aged = TRUE]
          /\ (k # i => finishedTxs'[k] = finishedTxs[k])
      BY <1>5, <1>t DEF Age, StoreTypeOK
    <2>2. finishedTxs'[i] \in FinishedTx /\ finishedTxs'[i].aged
      BY <2>1 DEF FinishedTx
    <2> QED
      BY <2>1, <2>2, StoreAssumption
  <1>6. CASE Start \/ Close \/ CloseReturns \/ Network
    BY <1>6, <1>u DEF Start, Close, CloseReturns, Network, storeVars, maps
  <1> QED
    BY <1>1, <1>2, <1>3, <1>4, <1>5, <1>6 DEF Next

LEMMA ReapInvNext ==
    ASSUME Inv, ReapInv, [Next]_vars
    PROVE  ReapInv'
  <1>t. reapIds \in SUBSET Keys
    BY DEF Inv, TypeInv, TypeOK
  <1>1. CASE ReapScan
    BY <1>1 DEF ReapScan, ReapInv, storeVars, maps
  <1>2. CASE ReapDelete
    BY <1>2 DEF ReapDelete, ReapInv
  <1>3. CASE Next /\ UNCHANGED reapIds /\ ~ReapDelete
    BY <1>t, <1>3, FinishedStays DEF ReapInv
  <1>4. CASE UNCHANGED vars
    BY <1>4 DEF vars, rVars, storeVars, maps, ReapInv
  <1>5. ASSUME Next, ~ReapScan, ~ReapDelete
        PROVE  UNCHANGED reapIds
    <2>1. CASE \E r \in Requests : EnqueueRejected(r) \/ Enqueue(r)
      BY <2>1 DEF EnqueueRejected, Enqueue, EnqueueCheck, EnqueueStore, EnqueueSend,
                  enqueueFrame, rVars
    <2>2. CASE broadcastLoop
      BY <2>2 DEF broadcastLoop, BroadcastReceive, PrepareFails, PreparePanics, PrepareTx, SignTx,
                  SignFails, SendAccepted, SendBusy, SendRejected, SendPanics,
                  Broadcasted, BroadcastStops, BroadcastFailed, BroadcastIdle,
                  broadcastFrame, rVars
    <2>3. CASE confirmLoop
      BY <2>3 DEF confirmLoop, ConfirmTick, CollectUnconfirmed, GetNowBlock,
                  CollectConfirmed, QueryUnconfirmed, HandleUnconfirmed, Retry, QueryConfirmed,
                  UnconfirmedChecked, CheckReorged, HandleReorg, Finalize, NextConfirmed,
                  FinalizedChecked, ConfirmStops, confirmFrame, rVars
    <2>4. CASE reapLoop \/ \E k \in Keys : Age(k)
      BY <1>5, <2>4 DEF reapLoop, ReapStops, Age, rVars
    <2>5. CASE Start \/ Close \/ CloseReturns \/ Network
      BY <2>5 DEF Start, Close, CloseReturns, Network, rVars
    <2> QED
      BY <1>5, <2>1, <2>2, <2>3, <2>4, <2>5 DEF Next
  <1> QED
    BY <1>1, <1>2, <1>3, <1>4, <1>5

\* The reaper forgets verdicts.
LEMMA ReapStep ==
    ASSUME UniqueIds, Inv, SerialInv', ReapInv, reapLoop \/ \E k \in Keys : Age(k)
    PROVE  LifecycleStep
  <1>t. StoreTypeOK /\ SerialInv /\ reapIds \in SUBSET Keys
    BY DEF Inv, TypeInv, TypeOK
  <1>1. CASE ReapDelete
    <2>1. /\ \A k \in Keys : finishedTxs'[k] = IF k \in reapIds THEN Nil ELSE finishedTxs[k]
          /\ UNCHANGED <<tx, pendingTxs, unconfirmedTxs, confirmedTxs>>
      BY <1>1 DEF ReapDelete, DeleteFinishedTxs
    <2>3. ASSUME NEW k \in Keys, k \in reapIds
          PROVE  /\ KeyStatus(k) \in {"Finalized", "Failed", "Fatal"}
                 /\ KeyStatus(k)' = "Unknown"
      <3>1. finishedTxs[k] # Nil
        BY <2>3 DEF ReapInv
      <3>2. /\ tx[TxOf(finishedTxs[k].Hash)].State
                 \in {"Errored", "FatallyErrored", "Finalized"}
            /\ pendingTxs[k] = Nil /\ unconfirmedTxs[k] = Nil /\ confirmedTxs[k] = Nil
        BY <1>t, <3>1 DEF SerialInv, StoreInv, Homes, SingleHome
      <3>3. KeyStatus(k) \in {"Finalized", "Failed", "Fatal"}
        BY <1>t, <3>1, <3>2, StatusLookup DEF StatusFromMaps
      <3>4. ~Has(k)'
        BY <2>1, <2>3, <3>2 DEF Has
      <3> QED
        BY <3>3, <3>4, StatusLookupNext DEF StatusFromMaps
    <2>4. ASSUME NEW k \in Keys, k \notin reapIds
          PROVE  KeyStatus(k)' = KeyStatus(k)
      BY <2>1, <2>4 DEF KeyStatus, CommonStatus, GetStatus
    <2>5. PICK S \in SUBSET Ids : S = {Id[k] : k \in reapIds}
      BY <1>t DEF Ids
    <2>6. AnswersOfKeys /\ AnswersOfKeys'
      BY OneAnswer, OneAnswerNext
    <2>7. ASSUME NEW id \in S
          PROVE  \E v \in Lifecycle!Verdicts : Answers[id] = {v}
      <3>1. PICK k \in Keys : k \in reapIds /\ Id[k] = id
        BY <1>t, <2>5
      <3> QED
        BY <2>3, <2>5, <2>6, <3>1 DEF AnswersOfKeys, Answers, Lifecycle!Verdicts
    <2>8. ASSUME NEW id \in Ids
          PROVE  Answers'[id] = IF id \in S THEN {"Unknown"} ELSE Answers[id]
      <3>1. PICK k \in Keys : Id[k] = id
        BY DEF Ids
      <3>2. id \in S <=> k \in reapIds
        BY <1>t, <2>5, <3>1 DEF UniqueIds
      <3> QED
        BY <2>3, <2>4, <2>6, <3>1, <3>2 DEF AnswersOfKeys, Answers
    <2>9. Lifecycle!Forget(S)
      BY <2>7, <2>8 DEF Lifecycle!Forget, Answers
    <2> QED
      BY <2>9 DEF LifecycleStep, Lifecycle!LifecycleNext
  <1>2. ASSUME NEW i \in Keys, Age(i)
        PROVE  LifecycleStep
    <2>1. /\ finishedTxs[i] \in FinishedTx /\ finishedTxs[i] # Nil
          /\ finishedTxs'[i] = [finishedTxs[i] EXCEPT !.aged = TRUE]
          /\ \A k \in Keys : k # i => finishedTxs'[k] = finishedTxs[k]
          /\ UNCHANGED <<tx, pendingTxs, unconfirmedTxs, confirmedTxs>>
      BY <1>2, <1>t DEF Age, StoreTypeOK
    <2>2. finishedTxs'[i] \in FinishedTx /\ finishedTxs'[i].Hash = finishedTxs[i].Hash
      BY <2>1 DEF FinishedTx
    <2>3. finishedTxs'[i] # Nil
      BY <2>2, StoreAssumption
    <2>4. ASSUME NEW k \in Keys
          PROVE  KeyStatus(k)' = KeyStatus(k)
      BY <2>1, <2>2, <2>3 DEF KeyStatus, CommonStatus, GetStatus
    <2> QED
      BY <2>4, StatusStays
  <1> QED
    BY <1>1, <1>2, StoreStutter DEF reapLoop, ReapScan, ReapStops
-----------------------------------------------------------------------------
LEMMA LifecycleInvariance ==
    Spec => [](TypeInv /\ (SerialEnqueue => SerialInv /\ ReapInv))
  <1> DEFINE Good == TypeInv /\ (SerialEnqueue => SerialInv)
             Reap == SerialEnqueue => ReapInv
  <1>1. Init => Reap
    BY DEF Init, ReapInv
  <1>2. Good /\ Reap /\ [Next]_vars => Reap'
    BY ReapInvNext DEF Inv
  <1>3. Spec => []Good
    BY Invariance
  <1>4. Good /\ Reap => TypeInv /\ (SerialEnqueue => SerialInv /\ ReapInv)
    OBVIOUS
  <1> QED
    BY <1>1, <1>2, <1>3, <1>4, PTL DEF Spec

\* reapLoop collects identifiers under one lock and deletes them under another:
\* no entry is deleted before its retention period, whatever happens in between.
THEOREM ReapRespectsRetention == SerialEnqueue => (Spec => ReapsOnlyAged)
  <1> SUFFICES ASSUME SerialEnqueue PROVE Spec => ReapsOnlyAged
    OBVIOUS
  <1> DEFINE Good == TypeInv /\ (SerialEnqueue => SerialInv /\ ReapInv)
             Step == \A k \in Keys : finishedTxs[k] # Nil /\ finishedTxs'[k] = Nil
                                        => finishedTxs[k].aged
  <1>1. Good /\ [Next]_vars => [Step]_vars
    <2> SUFFICES ASSUME Good, Next PROVE Step
      OBVIOUS
    <2>1. Inv /\ ReapInv
      BY DEF Inv
    <2>2. CASE ReapDelete
      BY <2>1, <2>2 DEF ReapInv, ReapDelete, DeleteFinishedTxs
    <2>3. CASE ~ReapDelete
      BY <2>1, <2>3, FinishedStays
    <2> QED
      BY <2>2, <2>3
  <1>2. Spec => []Good
    BY LifecycleInvariance
  <1> QED
    BY <1>1, <1>2, PTL DEF Spec, ReapsOnlyAged

\* What callers of GetTransactionStatus are told for an ID follows the abstract life
\* cycle: there is one answer at a time, and a verdict never changes, it is only
\* forgotten.  The search goes over the stores of all accounts, so this needs IDs that
\* no two accounts share.
THEOREM LifecycleImplemented ==
    SerialEnqueue /\ UniqueIds => (Spec => ImplementsLifecycle)
  <1> SUFFICES ASSUME SerialEnqueue, UniqueIds PROVE Spec => ImplementsLifecycle
    OBVIOUS
  <1> DEFINE Good == TypeInv /\ (SerialEnqueue => SerialInv /\ ReapInv)
  <1>1. Init => Lifecycle!LifecycleInit
    <2> SUFFICES ASSUME Init PROVE \A id \in Ids : GetTransactionStatus(id) = {"Unknown"}
      BY DEF Lifecycle!LifecycleInit
    <2>1. \A id \in Ids : GetStatusAll(id) = {"none"}
      BY DEF Init, NewTxStore, GetStatusAll, Has
    <2> QED
      BY <2>1 DEF GetTransactionStatus, CommonStatus
  <1>2. Good /\ [Next]_vars => [Lifecycle!LifecycleNext]_Answers
    <2> SUFFICES ASSUME Good, [Next]_vars PROVE LifecycleStep
      BY DEF LifecycleStep
    <2>1. Inv /\ ReapInv
      BY DEF Inv
    <2>2. SerialInv'
      BY <2>1, NextSerial
    <2>3. CASE Start \/ Close \/ CloseReturns \/ Network \/ UNCHANGED vars
      BY <2>3, StoreStutter DEF Start, Close, CloseReturns, Network, vars
    <2> QED
      BY <2>1, <2>2, <2>3, EnqueueStep, BroadcastStep, ConfirmStep, ReapStep DEF Next
  <1>3. Spec => []Good
    BY LifecycleInvariance
  <1> QED
    BY <1>1, <1>2, <1>3, PTL DEF Spec, ImplementsLifecycle, Lifecycle!LifecycleSpec, Answers
=============================================================================
