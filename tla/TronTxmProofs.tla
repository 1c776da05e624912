--------------------------- MODULE TronTxmProofs ---------------------------
(***************************************************************************)
(* Proofs about TronTxm, for any number of requests, keys, attempts,       *)
(* faults and channel slots.                                               *)
(***************************************************************************)
EXTENDS TronTxm, TLAPS

-----------------------------------------------------------------------------
(* Types *)

\* What the program counters say about the other variables of the loops.
ControlOK ==
    /\ bpc \in {"prepare", "sign", "send", "sent"} => btx \in Requests
    /\ bpc \in {"idle", "done"} => btx = Nil
    /\ bpc \in {"sign", "send", "sent"} => bhash \in Hashes /\ TxOf(bhash) = btx
    /\ cpc \in {"handle", "retry", "reorg", "reorged", "finalize"} => cur \in Hashes
    /\ cpc \in {"idle", "done", "collectU", "block", "query", "collectC", "solidity"}
         => cur = Nil
    /\ cpc \in {"idle", "done"} => todo = {}

TypeInv == TypeOK /\ ControlOK

\* The record of a finished entry is not a missing one.
LEMMA FinishedEntry ==
    ASSUME NEW h \in Hashes
    PROVE  [Hash |-> h, aged |-> FALSE] # Nil
  <1>1. [Hash |-> h, aged |-> FALSE] \in FinishedTx
    BY DEF FinishedTx
  <1> QED
    BY <1>1, StoreAssumption

\* The parts of a hash.
LEMMA HashParts ==
    /\ Nil \notin Hashes
    /\ Nil \notin Requests
    /\ \A h \in Hashes : TxOf(h) \in Requests /\ KeyOf(h) \in Keys
    /\ \A r \in Requests : Key[r] \in Keys
  BY IdsAssumption DEF Hashes, TxOf, KeyOf

\* A tx heap whose object r gets the state s.
LEMMA SetStateType ==
    ASSUME tx \in [Requests -> TronTx], NEW r, NEW s \in TxState, SetState(r, s)
    PROVE  tx' \in [Requests -> TronTx]
  <1>1. ASSUME NEW q \in Requests
        PROVE  /\ q \in DOMAIN tx'
               /\ tx'[q] \in TronTx
    <2>1. tx[q] \in TronTx
      OBVIOUS
    <2>2. tx'[q] = IF q = r THEN [tx[q] EXCEPT !.State = s] ELSE tx[q]
      BY DEF SetState
    <2>3. [tx[q] EXCEPT !.State = s] \in TronTx
      BY <2>1 DEF TronTx
    <2> QED
      BY <2>1, <2>2, <2>3 DEF SetState
  <1>2. tx' = [q \in Requests |-> tx'[q]]
    BY DEF SetState
  <1> QED
    BY <1>1, <1>2

-----------------------------------------------------------------------------
(* The operations of the store keep its type. *)

LEMMA StoreStutterType ==
    ASSUME StoreTypeOK, UNCHANGED storeVars
    PROVE  StoreTypeOK'
  BY DEF StoreTypeOK, storeVars, maps

LEMMA OnPendingType ==
    ASSUME StoreTypeOK, NEW r \in Requests, NEW retry \in BOOLEAN,
           tx' \in [Requests -> TronTx], OnPending(r, retry)
    PROVE  StoreTypeOK'
  BY HashParts DEF StoreTypeOK, OnPending, Put, Delete

LEMMA OnBroadcastedType ==
    ASSUME StoreTypeOK, NEW h \in Hashes, OnBroadcasted(h)
    PROVE  StoreTypeOK'
  <1>1. CASE h \notin hashToId /\ pendingTxs[KeyOf(h)] # Nil
    <2>1. tx' \in [Requests -> TronTx]
      BY <1>1, SetStateType DEF OnBroadcasted, StoreTypeOK, TxState
    <2> QED
      BY <1>1, <2>1, HashParts DEF OnBroadcasted, StoreTypeOK, Put, Delete
  <1>2. CASE ~(h \notin hashToId /\ pendingTxs[KeyOf(h)] # Nil)
    BY <1>2, StoreStutterType DEF OnBroadcasted
  <1> QED
    BY <1>1, <1>2

LEMMA OnConfirmedType ==
    ASSUME StoreTypeOK, NEW k \in Keys, OnConfirmed(k)
    PROVE  StoreTypeOK'
  <1> DEFINE h == unconfirmedTxs[k]
  <1>1. CASE h # Nil /\ tx[TxOf(h)].State = "Broadcasted"
    <2>1. tx' \in [Requests -> TronTx]
      BY <1>1, SetStateType DEF OnConfirmed, StoreTypeOK, TxState
    <2> QED
      BY <1>1, <2>1 DEF OnConfirmed, StoreTypeOK, Put, Delete
  <1>2. CASE ~(h # Nil /\ tx[TxOf(h)].State = "Broadcasted")
    BY <1>2, StoreStutterType DEF OnConfirmed
  <1> QED
    BY <1>1, <1>2

LEMMA FinishType ==
    ASSUME StoreTypeOK, NEW k \in Keys, NEW h \in Hashes, NEW s \in TxState,
           Finish(k, h, s)
    PROVE  /\ tx' \in [Requests -> TronTx]
           /\ finishedTxs' \in [Keys -> FinishedTx \cup {Nil}]
           /\ pendingTxs' \in [Keys -> Requests \cup {Nil}]
  <1>1. tx' \in [Requests -> TronTx]
    BY SetStateType DEF Finish, StoreTypeOK
  <1>2. [Hash |-> h, aged |-> FALSE] \in FinishedTx
    BY DEF FinishedTx
  <1> QED
    BY <1>1, <1>2 DEF Finish, StoreTypeOK, Put

LEMMA FinishUnconfirmedType ==
    ASSUME StoreTypeOK, NEW k \in Keys, NEW s \in TxState,
           unconfirmedTxs[k] # Nil, FinishUnconfirmed(k, s), hashToId' \subseteq hashToId
    PROVE  StoreTypeOK'
  <1>1. unconfirmedTxs[k] \in Hashes
    BY DEF StoreTypeOK
  <1> QED
    BY <1>1, FinishType DEF FinishUnconfirmed, StoreTypeOK, Delete

LEMMA FinishConfirmedType ==
    ASSUME StoreTypeOK, NEW k \in Keys, NEW s \in TxState,
           confirmedTxs[k] # Nil, FinishConfirmed(k, s), hashToId' \subseteq hashToId
    PROVE  StoreTypeOK'
  <1>1. confirmedTxs[k] \in Hashes
    BY DEF StoreTypeOK
  <1> QED
    BY <1>1, FinishType DEF FinishConfirmed, StoreTypeOK, Delete

LEMMA OnErroredType ==
    ASSUME StoreTypeOK, NEW k \in Keys, OnErrored(k)
    PROVE  StoreTypeOK'
  BY FinishUnconfirmedType, FinishConfirmedType, StoreStutterType
  DEF OnErrored, TxState

LEMMA OnFatalErrorType ==
    ASSUME StoreTypeOK, NEW k \in Keys, OnFatalError(k)
    PROVE  StoreTypeOK'
  BY FinishUnconfirmedType, FinishConfirmedType, StoreStutterType
  DEF OnFatalError, TxState

LEMMA OnFinalizedType ==
    ASSUME StoreTypeOK, NEW k \in Keys, OnFinalized(k)
    PROVE  StoreTypeOK'
  BY FinishConfirmedType, StoreStutterType DEF OnFinalized, TxState

LEMMA OnReorgType ==
    ASSUME StoreTypeOK, NEW k \in Keys, OnReorg(k)
    PROVE  StoreTypeOK'
  <1> DEFINE h == confirmedTxs[k]
  <1>1. CASE h # Nil
    <2>1. tx' \in [Requests -> TronTx]
      BY <1>1, SetStateType DEF OnReorg, StoreTypeOK, TxState
    <2> QED
      BY <1>1, <2>1, HashParts DEF OnReorg, StoreTypeOK, Put, Delete
  <1>2. CASE h = Nil
    BY <1>2, StoreStutterType DEF OnReorg
  <1> QED
    BY <1>1, <1>2

LEMMA DeleteFinishedTxsType ==
    ASSUME StoreTypeOK, NEW ids \in SUBSET Keys, DeleteFinishedTxs(ids)
    PROVE  StoreTypeOK'
  BY DEF DeleteFinishedTxs, StoreTypeOK

LEMMA RetriedType ==
    ASSUME StoreTypeOK, NEW r \in Requests, NEW b \in BOOLEAN, NEW o \in BOOLEAN,
           tx' = Retried(r, b, o)
    PROVE  tx' \in [Requests -> TronTx]
  <1>1. tx[r] \in TronTx
    BY DEF StoreTypeOK
  <1>2. [State           |-> "Pending",
         Attempt         |-> tx[r].Attempt + 1,
         OutOfTimeErrors |-> tx[r].OutOfTimeErrors + (IF o THEN 1 ELSE 0),
         EnergyBumpTimes |-> tx[r].EnergyBumpTimes + (IF b THEN 1 ELSE 0)] \in TronTx
    BY <1>1 DEF TronTx, TxState
  <1> QED
    BY <1>2 DEF StoreTypeOK, Retried

-----------------------------------------------------------------------------
(* Every step keeps the types. *)

LEMMA FaultType ==
    ASSUME NodeTypeOK, NEW kind, Fault(kind)
    PROVE  NodeTypeOK'
  BY NodeAssumption DEF NodeTypeOK, Fault

LEMMA NodeStutterType ==
    ASSUME NodeTypeOK, UNCHANGED nodeVars
    PROVE  NodeTypeOK'
  BY DEF NodeTypeOK, nodeVars

LEMMA SetChainType ==
    ASSUME NodeTypeOK, NEW h, NEW s \in {"none", "built", "pool"} \cup Results,
           SetChain(h, s)
    PROVE  NodeTypeOK'
  BY DEF NodeTypeOK, SetChain

LEMMA NodeNextType ==
    ASSUME NodeTypeOK, NodeNext
    PROVE  NodeTypeOK'
  <1>1. PICK h \in Hashes : \/ \E result \in Outcomes : Include(h, result)
                            \/ Solidify(h) \/ Reorg(h) \/ Expire(h)
    BY DEF NodeNext
  <1>2. ASSUME NEW result \in Outcomes, Include(h, result) PROVE NodeTypeOK'
    BY <1>2, SetChainType, NodeAssumption DEF Include
  <1>3. CASE Solidify(h)
    BY <1>3 DEF Solidify, NodeTypeOK
  <1>4. CASE Reorg(h)
    BY <1>4, NodeAssumption DEF Reorg, NodeTypeOK
  <1>5. CASE Expire(h)
    BY <1>5 DEF Expire, NodeTypeOK
  <1> QED
    BY <1>1, <1>2, <1>3, <1>4, <1>5

LEMMA TrySendType ==
    ASSUME chan \in Seq(Requests), Len(chan) <= BroadcastChanSize,
           NEW r \in Requests, TrySend(r)
    PROVE  chan' \in Seq(Requests) /\ Len(chan') <= BroadcastChanSize
  BY TxmAssumption DEF TrySend

LEMMA EnqueueTypes ==
    ASSUME TypeInv, NEW r \in Requests, EnqueueRejected(r) \/ Enqueue(r)
    PROVE  TypeInv'
  <1> USE DEF TypeInv, TypeOK, ControlOK, enqueueFrame, bVars, cVars, rVars
  <1>1. CASE EnqueueRejected(r)
    BY <1>1, StoreStutterType, NodeStutterType DEF EnqueueRejected
  <1>2. CASE EnqueueCheck(r)
    BY <1>2, StoreStutterType, NodeStutterType DEF EnqueueCheck
  <1>3. CASE EnqueueStore(r)
    <2>1. StoreTypeOK'
      BY <1>3, OnPendingType DEF EnqueueStore, StoreTypeOK
    <2> QED
      BY <1>3, <2>1, NodeStutterType DEF EnqueueStore
  <1>4. CASE EnqueueSend(r)
    <2>1. chan' \in Seq(Requests) /\ Len(chan') <= BroadcastChanSize
      BY <1>4, TrySendType DEF EnqueueSend
    <2> QED
      BY <1>4, <2>1, StoreStutterType, NodeStutterType DEF EnqueueSend
  <1> QED
    BY <1>1, <1>2, <1>3, <1>4 DEF Enqueue

LEMMA BroadcastTypes ==
    ASSUME TypeInv, broadcastLoop
    PROVE  TypeInv'
  <1> USE DEF TypeInv, TypeOK, ControlOK, broadcastFrame, bVars, cVars, rVars
  <1>1. CASE BroadcastReceive
    <2>1. /\ Head(chan) \in Requests
          /\ Tail(chan) \in Seq(Requests)
          /\ Len(Tail(chan)) <= BroadcastChanSize
      BY <1>1, TxmAssumption DEF BroadcastReceive
    <2>2. btx' \in Requests /\ bpc' = "prepare"
      BY <1>1, <2>1 DEF BroadcastReceive
    <2> QED
      BY <1>1, <2>1, <2>2, StoreStutterType, NodeStutterType DEF BroadcastReceive
  <1>2. CASE PrepareFails
    BY <1>2, StoreStutterType, FaultType DEF PrepareFails, BroadcastIdle
  <1>3. CASE PrepareTx
    <2>1. PICK h \in Hashes : Build(btx, h) /\ bhash' = h
      BY <1>3 DEF PrepareTx
    <2>2. NodeTypeOK'
      BY <2>1, SetChainType DEF Build
    <2> QED
      BY <1>3, <2>1, <2>2, StoreStutterType DEF PrepareTx, Build
  <1>4. CASE SignTx
    BY <1>4, StoreStutterType, NodeStutterType DEF SignTx
  <1>5. CASE SignFails
    <2>1. StoreTypeOK' /\ NodeTypeOK'
      BY <1>5, OnFatalErrorType, FaultType, NodeStutterType, HashParts
      DEF SignFails, BroadcastFailed
    <2> QED
      BY <1>5, <2>1 DEF SignFails, BroadcastFailed, BroadcastIdle
  <1>6. CASE SendAccepted
    <2>1. NodeTypeOK'
      BY <1>6, SetChainType DEF SendAccepted, Accept
    <2> QED
      BY <1>6, <2>1, StoreStutterType DEF SendAccepted
  <1>7. CASE SendBusy
    BY <1>7, StoreStutterType, FaultType DEF SendBusy
  <1>8. CASE SendRejected
    <2>1. StoreTypeOK' /\ NodeTypeOK'
      BY <1>8, OnFatalErrorType, FaultType, NodeStutterType, HashParts
      DEF SendRejected, BroadcastFailed
    <2> QED
      BY <1>8, <2>1 DEF SendRejected, BroadcastFailed, BroadcastIdle
  <1>9. CASE SendPanics
    <2>1. NodeTypeOK'
      BY <1>9, NodeAssumption DEF SendPanics, NodeTypeOK
    <2> QED
      BY <1>9, <2>1, StoreStutterType DEF SendPanics
  <1>10. CASE Broadcasted
    <2>1. StoreTypeOK'
      BY <1>10, OnBroadcastedType DEF Broadcasted
    <2> QED
      BY <1>10, <2>1, NodeStutterType DEF Broadcasted, BroadcastIdle
  <1>11. CASE BroadcastStops
    BY <1>11, StoreStutterType, NodeStutterType DEF BroadcastStops
  <1>12. CASE PreparePanics
    BY <1>12, StoreStutterType, FaultType DEF PreparePanics
  <1> QED
    BY <1>1, <1>2, <1>3, <1>4, <1>5, <1>6, <1>7, <1>8, <1>9, <1>10, <1>11, <1>12
    DEF broadcastLoop

\* Where checkUnconfirmed is after an answer: at its next entry, or in maybeRetry.
Answered == \/ NextUnconfirmed
            \/ cpc' = "retry" /\ UNCHANGED cur

LEMMA MaybeRetryType ==
    ASSUME TypeOK, NEW r \in Requests, NEW b \in BOOLEAN, NEW o \in BOOLEAN,
           maybeRetry(r, b, o)
    PROVE  StoreTypeOK' /\ Answered
  <1> USE DEF TypeOK
  <1>1. CASE ~MayRetry(r)
    BY <1>1, OnErroredType, HashParts DEF maybeRetry, Answered
  <1>2. CASE MayRetry(r)
    <2>1. tx' \in [Requests -> TronTx]
      BY <1>2, RetriedType DEF maybeRetry
    <2> QED
      BY <1>2, <2>1 DEF maybeRetry, maps, StoreTypeOK, Answered
  <1> QED
    BY <1>1, <1>2

LEMMA HandleResultType ==
    ASSUME TypeOK, NEW r \in Requests, HandleResult(r)
    PROVE  StoreTypeOK' /\ Answered
  <1> USE DEF TypeOK
  <1>1. CASE UNCHANGED storeVars /\ NextUnconfirmed
    BY <1>1, StoreStutterType DEF Answered
  <1>2. ASSUME NEW b \in BOOLEAN, NEW o \in BOOLEAN, maybeRetry(r, b, o)
        PROVE  StoreTypeOK' /\ Answered
    BY <1>2, MaybeRetryType
  <1>3. CASE OnConfirmed(Key[r]) /\ NextUnconfirmed
    BY <1>3, OnConfirmedType, HashParts DEF Answered
  <1>4. CASE OnFatalError(Key[r]) /\ NextUnconfirmed
    BY <1>4, OnFatalErrorType, HashParts DEF Answered
  <1> QED
    BY <1>1, <1>2, <1>3, <1>4 DEF HandleResult

LEMMA SnapshotType ==
    ASSUME StoreTypeOK, NEW a
    PROVE  GetUnconfirmed(a) \subseteq Hashes /\ GetConfirmed(a) \subseteq Hashes
  BY DEF StoreTypeOK, GetUnconfirmed, GetConfirmed

LEMMA ConfirmTypes ==
    ASSUME TypeInv, confirmLoop
    PROVE  TypeInv'
  <1> USE DEF TypeInv, TypeOK, ControlOK, confirmFrame, bVars, cVars, rVars
  <1>1. CASE ConfirmTick
    BY <1>1, StoreStutterType, NodeStutterType DEF ConfirmTick
  <1>2. ASSUME NEW a \in Accounts, CollectUnconfirmed(a) PROVE TypeInv'
    BY <1>2, StoreStutterType, NodeStutterType, SnapshotType DEF CollectUnconfirmed
  <1>3. ASSUME NEW a \in Accounts, GetNowBlock(a) PROVE TypeInv'
    <2>1. NodeTypeOK' /\ StoreTypeOK'
      BY <1>3, StoreStutterType, NodeStutterType, FaultType DEF GetNowBlock
    <2> QED
      BY <1>3, <2>1 DEF GetNowBlock, OfAccount
  <1>4. ASSUME NEW a \in Accounts, CollectConfirmed(a) PROVE TypeInv'
    BY <1>4, StoreStutterType, NodeStutterType, SnapshotType DEF CollectConfirmed
  <1>5. ASSUME NEW h \in Hashes, QueryUnconfirmed(h) PROVE TypeInv'
    <2>1. NodeTypeOK' /\ StoreTypeOK'
      BY <1>5, StoreStutterType, NodeStutterType, FaultType DEF QueryUnconfirmed
    <2>2. seen' \in Results \cup {"missing"}
      BY <1>5 DEF QueryUnconfirmed, InfoFullNode, Included
    <2> QED
      BY <1>5, <2>1, <2>2 DEF QueryUnconfirmed
  <1>6. ASSUME NEW h \in Hashes, QueryConfirmed(h) PROVE TypeInv'
    <2>1. NodeTypeOK' /\ StoreTypeOK'
      BY <1>6, StoreStutterType, NodeStutterType, FaultType DEF QueryConfirmed
    <2> QED
      BY <1>6, <2>1 DEF QueryConfirmed
  <1>7. CASE HandleUnconfirmed
    <2>1. StoreTypeOK' /\ Answered
      BY <1>7, HandleResultType, HashParts DEF HandleUnconfirmed
    <2> QED
      BY <1>7, <2>1, NodeStutterType DEF HandleUnconfirmed, Answered, NextUnconfirmed
  <1>8. CASE UnconfirmedChecked
    BY <1>8, StoreStutterType, NodeStutterType DEF UnconfirmedChecked
  <1>9. CASE CheckReorged
    <2>1. NodeTypeOK' /\ StoreTypeOK'
      BY <1>9, StoreStutterType, NodeStutterType, FaultType DEF CheckReorged
    <2>2. tries' \in 0..REORG_RETRY_COUNT
      BY <1>9, TxmAssumption DEF CheckReorged
    <2>3. misses' \in [Hashes -> Nat]
      BY <1>9 DEF CheckReorged
    <2> QED
      BY <1>9, <2>1, <2>2, <2>3 DEF CheckReorged
  <1>10. CASE HandleReorg
    <2>1. StoreTypeOK'
      BY <1>10, OnReorgType, HashParts DEF HandleReorg
    <2>2. chan' \in Seq(Requests) /\ Len(chan') <= BroadcastChanSize
      BY <1>10, TrySendType, HashParts DEF HandleReorg
    <2> QED
      BY <1>10, <2>1, <2>2, NodeStutterType DEF HandleReorg, NextConfirmed
  <1>11. CASE Finalize
    <2>1. StoreTypeOK'
      BY <1>11, OnFinalizedType, HashParts DEF Finalize
    <2> QED
      BY <1>11, <2>1, NodeStutterType DEF Finalize, NextConfirmed
  <1>12. CASE FinalizedChecked
    BY <1>12, StoreStutterType, NodeStutterType DEF FinalizedChecked
  <1>13. CASE ConfirmStops
    BY <1>13, StoreStutterType, NodeStutterType DEF ConfirmStops
  <1>14. CASE Retry
    <2>1. StoreTypeOK'
      BY <1>14, OnPendingType, HashParts DEF Retry, StoreTypeOK, maps
    <2>2. chan' \in Seq(Requests) /\ Len(chan') <= BroadcastChanSize
      BY <1>14, TrySendType, HashParts DEF Retry
    <2>3. life' \in {"running", "closing", "crashed"}
      BY <1>14 DEF Retry, Looping
    <2>4. cpc' \in {"query", "block"} /\ cur' = Nil
      BY <1>14 DEF Retry, NextUnconfirmed
    <2> QED
      BY <1>14, <2>1, <2>2, <2>3, <2>4, NodeStutterType DEF Retry
  <1> QED
    BY <1>1, <1>2, <1>3, <1>4, <1>5, <1>6, <1>7, <1>8, <1>9, <1>10, <1>11,
       <1>12, <1>13, <1>14
    DEF confirmLoop

LEMMA AgeType ==
    ASSUME StoreTypeOK, NEW k \in Keys, Age(k)
    PROVE  StoreTypeOK'
  <1>1. finishedTxs[k] \in FinishedTx
    BY DEF Age, StoreTypeOK
  <1>2. [finishedTxs[k] EXCEPT !.aged = TRUE] \in FinishedTx
    BY <1>1 DEF FinishedTx
  <1>3. finishedTxs' = [finishedTxs EXCEPT ![k] = [finishedTxs[k] EXCEPT !.aged = TRUE]]
    BY DEF Age
  <1>4. finishedTxs' \in [Keys -> FinishedTx \cup {Nil}]
    BY <1>2, <1>3 DEF StoreTypeOK
  <1> QED
    BY <1>4 DEF Age, StoreTypeOK

LEMMA ReapTypes ==
    ASSUME TypeInv, reapLoop \/ \E k \in Keys : Age(k)
    PROVE  TypeInv'
  <1> USE DEF TypeInv, TypeOK, ControlOK, reapFrame, bVars, cVars, rVars
  <1>1. CASE ReapScan
    BY <1>1, StoreStutterType, NodeStutterType DEF ReapScan
  <1>2. CASE ReapDelete
    BY <1>2, DeleteFinishedTxsType, NodeStutterType DEF ReapDelete
  <1>3. CASE ReapStops
    BY <1>3, StoreStutterType, NodeStutterType DEF ReapStops
  <1>4. ASSUME NEW k \in Keys, Age(k) PROVE TypeInv'
    <2>1. StoreTypeOK'
      BY <1>4, AgeType
    <2> QED
      BY <1>4, <2>1, NodeStutterType DEF Age
  <1> QED
    BY <1>1, <1>2, <1>3, <1>4 DEF reapLoop

LEMMA InitTypes == Init => TypeInv
  <1> SUFFICES ASSUME Init PROVE TypeInv
    OBVIOUS
  <1>1. NewTx \in TronTx
    BY DEF NewTx, TronTx, TxState
  <1>2. StoreTypeOK
    BY <1>1 DEF Init, NewTxStore, StoreTypeOK
  <1>3. NodeTypeOK
    BY NodeAssumption DEF Init, NodeInit, NodeTypeOK
  <1>4. chan \in Seq(Requests) /\ Len(chan) <= BroadcastChanSize
    BY TxmAssumption DEF Init
  <1>5. tries \in 0..REORG_RETRY_COUNT
    BY TxmAssumption DEF Init
  <1> QED
    BY <1>2, <1>3, <1>4, <1>5 DEF Init, TypeInv, TypeOK, ControlOK

LEMMA ServiceTypes ==
    ASSUME TypeInv, Start \/ Close \/ CloseReturns
    PROVE  TypeInv'
  <1>1. StoreTypeOK' /\ NodeTypeOK'
    BY StoreStutterType, NodeStutterType DEF Start, Close, CloseReturns, TypeInv, TypeOK
  <1> QED
    BY <1>1
    DEF Start, Close, CloseReturns, TypeInv, TypeOK, ControlOK, bVars, cVars, rVars

LEMMA NextTypes == TypeInv /\ [Next]_vars => TypeInv'
  <1> SUFFICES ASSUME TypeInv, [Next]_vars PROVE TypeInv'
    OBVIOUS
  <1>1. CASE Network
    BY <1>1, NodeNextType, StoreStutterType
    DEF Network, TypeInv, TypeOK, ControlOK, bVars, cVars, rVars
  <1>2. CASE UNCHANGED vars
    BY <1>2, NodeStutterType, StoreStutterType
    DEF vars, TypeInv, TypeOK, ControlOK, bVars, cVars, rVars
  <1> QED
    BY <1>1, <1>2, ServiceTypes, EnqueueTypes, BroadcastTypes, ConfirmTypes, ReapTypes
    DEF Next

\* The variables keep their types, for every value of the constants: every loop
\* holds an object and a hash exactly where its code dereferences them, and the
\* channel stays within its capacity.
THEOREM TypeCorrect == Spec => []TypeOK
  <1>1. TypeInv => TypeOK
    BY DEF TypeInv
  <1> QED
    BY <1>1, InitTypes, NextTypes, PTL DEF Spec

-----------------------------------------------------------------------------
(* The store stays consistent *)

\* HomeMatchesState without the states of the unconfirmed objects, which the confirm
\* loop changes on its own.
Homes ==
    \A k \in Keys :
        /\ pendingTxs[k] # Nil =>
              /\ Key[pendingTxs[k]] = k
              /\ tx[pendingTxs[k]].State = "Pending"
        /\ unconfirmedTxs[k] # Nil => KeyOf(unconfirmedTxs[k]) = k
        /\ confirmedTxs[k] # Nil =>
              /\ KeyOf(confirmedTxs[k]) = k
              /\ tx[TxOf(confirmedTxs[k])].State = "Confirmed"
        /\ finishedTxs[k] # Nil =>
              /\ KeyOf(finishedTxs[k].Hash) = k
              /\ tx[TxOf(finishedTxs[k].Hash)].State
                   \in {"Errored", "FatallyErrored", "Finalized"}

StoreInv == SingleHome /\ Homes /\ HashIndexExact

\* What SetState does to the objects.
LEMMA SetStateEffect ==
    ASSUME StoreTypeOK, NEW r \in Requests, NEW s, SetState(r, s)
    PROVE  /\ tx'[r].State = s
           /\ \A q \in Requests : q # r => tx'[q] = tx[q]
  <1>1. tx[r] \in TronTx
    BY DEF StoreTypeOK
  <1>2. tx'[r] = [tx[r] EXCEPT !.State = s]
    BY DEF SetState, StoreTypeOK
  <1> QED
    BY <1>1, <1>2 DEF SetState, StoreTypeOK, TronTx

LEMMA OnPendingNew ==
    ASSUME StoreTypeOK, StoreInv, NEW r \in Requests, ~Has(Key[r]),
           tx[r].State = "Pending", UNCHANGED tx, OnPending(r, FALSE)
    PROVE  /\ StoreInv'
           /\ pendingTxs' = Put(pendingTxs, Key[r], r)
           /\ UNCHANGED <<unconfirmedTxs, confirmedTxs, finishedTxs>>
  <1> DEFINE k == Key[r]
  <1>1. /\ pendingTxs[k] = Nil /\ unconfirmedTxs[k] = Nil
        /\ confirmedTxs[k] = Nil /\ finishedTxs[k] = Nil
    BY DEF Has
  <1>2. /\ pendingTxs' = Put(pendingTxs, k, r)
        /\ UNCHANGED <<tx, unconfirmedTxs, confirmedTxs, finishedTxs, hashToId>>
    BY <1>1 DEF OnPending
  <1>3. SingleHome'
    BY <1>1, <1>2, HashParts DEF StoreInv, SingleHome, Put, StoreTypeOK
  <1>4. Homes'
    BY <1>1, <1>2, HashParts DEF StoreInv, Homes, Put, StoreTypeOK
  <1>5. HashIndexExact'
    BY <1>2 DEF StoreInv, HashIndexExact
  <1> QED
    BY <1>2, <1>3, <1>4, <1>5 DEF StoreInv

LEMMA OnPendingRetry ==
    ASSUME StoreTypeOK, StoreInv, NEW h \in Hashes, unconfirmedTxs[KeyOf(h)] = h,
           tx[TxOf(h)].State = "Pending", UNCHANGED tx, OnPending(TxOf(h), TRUE)
    PROVE  /\ StoreInv'
           /\ pendingTxs' = Put(pendingTxs, KeyOf(h), TxOf(h))
           /\ unconfirmedTxs' = Delete(unconfirmedTxs, KeyOf(h))
           /\ UNCHANGED <<confirmedTxs, finishedTxs>>
  <1> DEFINE k == KeyOf(h)
             r == TxOf(h)
  <1>0. k = Key[r] /\ k \in Keys /\ r \in Requests /\ h # Nil
    BY HashParts DEF KeyOf
  <1>1. /\ pendingTxs[k] = Nil /\ confirmedTxs[k] = Nil /\ finishedTxs[k] = Nil
        /\ h \in hashToId
    BY <1>0 DEF StoreInv, SingleHome, HashIndexExact
  <1>2. tx' = tx /\ tx[r].State = "Pending"
    OBVIOUS
  <1>3. /\ pendingTxs' = Put(pendingTxs, k, r)
        /\ unconfirmedTxs' = Delete(unconfirmedTxs, k)
        /\ hashToId' = hashToId \ {h}
        /\ UNCHANGED <<confirmedTxs, finishedTxs>>
    BY <1>0, <1>1, <1>2 DEF OnPending
  <1>4. SingleHome'
    BY <1>0, <1>1, <1>3, HashParts DEF StoreInv, SingleHome, Put, Delete, StoreTypeOK
  <1>5. Homes'
    BY <1>0, <1>1, <1>2, <1>3, HashParts
    DEF StoreInv, Homes, Put, Delete, StoreTypeOK, FinishedTx, KeyOf
  <1>6. HashIndexExact'
    BY <1>0, <1>1, <1>2, <1>3, HashParts
    DEF StoreInv, HashIndexExact, Put, Delete, StoreTypeOK, KeyOf
  <1> QED
    BY <1>2, <1>3, <1>4, <1>5, <1>6 DEF StoreInv

LEMMA OnBroadcastedPending ==
    ASSUME StoreTypeOK, StoreInv, NEW h \in Hashes, pendingTxs[KeyOf(h)] = TxOf(h),
           OnBroadcasted(h)
    PROVE  /\ StoreInv'
           /\ pendingTxs' = Delete(pendingTxs, KeyOf(h))
           /\ unconfirmedTxs' = Put(unconfirmedTxs, KeyOf(h), h)
           /\ UNCHANGED <<confirmedTxs, finishedTxs>>
           /\ \A q \in Requests : q # TxOf(h) => tx'[q] = tx[q]
           /\ tx'[TxOf(h)].State = "Broadcasted"
  <1> DEFINE k == KeyOf(h)
             r == TxOf(h)
  <1>0. k = Key[r] /\ k \in Keys /\ r \in Requests /\ h # Nil /\ r # Nil
    BY HashParts DEF KeyOf
  <1>1. /\ unconfirmedTxs[k] = Nil /\ confirmedTxs[k] = Nil /\ finishedTxs[k] = Nil
        /\ h \notin hashToId
    BY <1>0 DEF StoreInv, SingleHome, HashIndexExact
  <1>2. /\ pendingTxs' = Delete(pendingTxs, k)
        /\ unconfirmedTxs' = Put(unconfirmedTxs, k, h)
        /\ hashToId' = hashToId \cup {h}
        /\ UNCHANGED <<confirmedTxs, finishedTxs>>
        /\ SetState(r, "Broadcasted")
    BY <1>0, <1>1 DEF OnBroadcasted
  <1>3. /\ tx'[r].State = "Broadcasted"
        /\ \A q \in Requests : q # r => tx'[q] = tx[q]
    BY <1>0, <1>2, SetStateEffect
  <1>4. SingleHome'
    BY <1>0, <1>1, <1>2, HashParts DEF StoreInv, SingleHome, Put, Delete, StoreTypeOK
  <1>5. Homes'
    BY <1>0, <1>1, <1>2, <1>3, HashParts
    DEF StoreInv, Homes, Put, Delete, StoreTypeOK, FinishedTx, KeyOf
  <1>6. HashIndexExact'
    BY <1>0, <1>1, <1>2, <1>3, HashParts
    DEF StoreInv, HashIndexExact, Put, Delete, StoreTypeOK, KeyOf
  <1> QED
    BY <1>2, <1>3, <1>4, <1>5, <1>6 DEF StoreInv

LEMMA OnConfirmedUnconfirmed ==
    ASSUME StoreTypeOK, StoreInv, NEW h \in Hashes, unconfirmedTxs[KeyOf(h)] = h,
           tx[TxOf(h)].State = "Broadcasted", OnConfirmed(KeyOf(h))
    PROVE  /\ StoreInv'
           /\ unconfirmedTxs' = Delete(unconfirmedTxs, KeyOf(h))
           /\ confirmedTxs' = Put(confirmedTxs, KeyOf(h), h)
           /\ UNCHANGED <<pendingTxs, finishedTxs>>
           /\ \A q \in Requests : q # TxOf(h) => tx'[q] = tx[q]
           /\ tx'[TxOf(h)].State = "Confirmed"
  <1> DEFINE k == KeyOf(h)
             r == TxOf(h)
  <1>0. k = Key[r] /\ k \in Keys /\ r \in Requests /\ h # Nil /\ r # Nil
    BY HashParts DEF KeyOf
  <1>1. /\ pendingTxs[k] = Nil /\ confirmedTxs[k] = Nil /\ finishedTxs[k] = Nil
    BY <1>0 DEF StoreInv, SingleHome
  <1>2. /\ unconfirmedTxs' = Delete(unconfirmedTxs, k)
        /\ confirmedTxs' = Put(confirmedTxs, k, h)
        /\ UNCHANGED <<pendingTxs, finishedTxs, hashToId>>
        /\ SetState(r, "Confirmed")
    BY <1>0, <1>1 DEF OnConfirmed
  <1>3. /\ tx'[r].State = "Confirmed"
        /\ \A q \in Requests : q # r => tx'[q] = tx[q]
    BY <1>0, <1>2, SetStateEffect
  <1>4. SingleHome'
    BY <1>0, <1>1, <1>2, HashParts DEF StoreInv, SingleHome, Put, Delete, StoreTypeOK
  <1>5. Homes'
    BY <1>0, <1>1, <1>2, <1>3, HashParts
    DEF StoreInv, Homes, Put, Delete, StoreTypeOK, FinishedTx, KeyOf
  <1>6. HashIndexExact'
    BY <1>0, <1>1, <1>2, <1>3, HashParts
    DEF StoreInv, HashIndexExact, Put, Delete, StoreTypeOK, KeyOf
  <1> QED
    BY <1>2, <1>3, <1>4, <1>5, <1>6 DEF StoreInv

\* The unconfirmed entry h becomes finished; Errored drops it from the index.
LEMMA FinishUnconfirmedEntry ==
    ASSUME StoreTypeOK, StoreInv, NEW h \in Hashes, unconfirmedTxs[KeyOf(h)] = h,
           NEW s \in {"Errored", "FatallyErrored"}, FinishUnconfirmed(KeyOf(h), s),
           hashToId' = IF s = "Errored" THEN hashToId \ {h} ELSE hashToId
    PROVE  /\ StoreInv'
           /\ unconfirmedTxs' = Delete(unconfirmedTxs, KeyOf(h))
           /\ finishedTxs' = Put(finishedTxs, KeyOf(h), [Hash |-> h, aged |-> FALSE])
           /\ UNCHANGED <<pendingTxs, confirmedTxs>>
           /\ \A q \in Requests : q # TxOf(h) => tx'[q] = tx[q]
           /\ tx'[TxOf(h)].State = s
  <1> DEFINE k == KeyOf(h)
             r == TxOf(h)
  <1>0. k = Key[r] /\ k \in Keys /\ r \in Requests /\ h # Nil /\ r # Nil
    BY HashParts DEF KeyOf
  <1>1. /\ pendingTxs[k] = Nil /\ confirmedTxs[k] = Nil /\ finishedTxs[k] = Nil
        /\ h \in hashToId
    BY <1>0 DEF StoreInv, SingleHome, HashIndexExact
  <1>2. /\ unconfirmedTxs' = Delete(unconfirmedTxs, k)
        /\ finishedTxs' = Put(finishedTxs, k, [Hash |-> h, aged |-> FALSE])
        /\ UNCHANGED <<pendingTxs, confirmedTxs>>
        /\ SetState(r, s)
    BY <1>0 DEF FinishUnconfirmed, Finish
  <1>3. /\ tx'[r].State = s
        /\ \A q \in Requests : q # r => tx'[q] = tx[q]
    BY <1>0, <1>2, SetStateEffect
  <1>4. SingleHome'
    BY <1>0, <1>1, <1>2, HashParts DEF StoreInv, SingleHome, Put, Delete, StoreTypeOK
  <1>5. Homes'
    BY <1>0, <1>1, <1>2, <1>3, HashParts
    DEF StoreInv, Homes, Put, Delete, StoreTypeOK, FinishedTx, KeyOf
  <1>6. HashIndexExact'
    BY <1>0, <1>1, <1>2, <1>3, HashParts, FinishedEntry
    DEF StoreInv, HashIndexExact, Put, Delete, StoreTypeOK, KeyOf
  <1> QED
    BY <1>2, <1>3, <1>4, <1>5, <1>6 DEF StoreInv

LEMMA OnFinalizedConfirmed ==
    ASSUME StoreTypeOK, StoreInv, NEW h \in Hashes, confirmedTxs[KeyOf(h)] = h,
           OnFinalized(KeyOf(h))
    PROVE  /\ StoreInv'
           /\ confirmedTxs' = Delete(confirmedTxs, KeyOf(h))
           /\ finishedTxs' = Put(finishedTxs, KeyOf(h), [Hash |-> h, aged |-> FALSE])
           /\ UNCHANGED <<pendingTxs, unconfirmedTxs>>
           /\ \A q \in Requests : q # TxOf(h) => tx'[q] = tx[q]
           /\ tx'[TxOf(h)].State = "Finalized"
  <1> DEFINE k == KeyOf(h)
             r == TxOf(h)
  <1>0. k = Key[r] /\ k \in Keys /\ r \in Requests /\ h # Nil /\ r # Nil
    BY HashParts DEF KeyOf
  <1>1. /\ pendingTxs[k] = Nil /\ unconfirmedTxs[k] = Nil /\ finishedTxs[k] = Nil
        /\ h \in hashToId
    BY <1>0 DEF StoreInv, SingleHome, HashIndexExact
  <1>2. /\ confirmedTxs' = Delete(confirmedTxs, k)
        /\ finishedTxs' = Put(finishedTxs, k, [Hash |-> h, aged |-> FALSE])
        /\ UNCHANGED <<pendingTxs, unconfirmedTxs, hashToId>>
        /\ SetState(r, "Finalized")
    BY <1>0 DEF OnFinalized, FinishConfirmed, Finish
  <1>3. /\ tx'[r].State = "Finalized"
        /\ \A q \in Requests : q # r => tx'[q] = tx[q]
    BY <1>0, <1>2, SetStateEffect
  <1>4. SingleHome'
    BY <1>0, <1>1, <1>2, HashParts DEF StoreInv, SingleHome, Put, Delete, StoreTypeOK
  <1>5. Homes'
    BY <1>0, <1>1, <1>2, <1>3, HashParts
    DEF StoreInv, Homes, Put, Delete, StoreTypeOK, FinishedTx, KeyOf
  <1>6. HashIndexExact'
    BY <1>0, <1>1, <1>2, <1>3, HashParts, FinishedEntry
    DEF StoreInv, HashIndexExact, Put, Delete, StoreTypeOK, KeyOf
  <1> QED
    BY <1>2, <1>3, <1>4, <1>5, <1>6 DEF StoreInv

LEMMA OnReorgConfirmed ==
    ASSUME StoreTypeOK, StoreInv, NEW h \in Hashes, confirmedTxs[KeyOf(h)] = h,
           OnReorg(KeyOf(h))
    PROVE  /\ StoreInv'
           /\ confirmedTxs' = Delete(confirmedTxs, KeyOf(h))
           /\ pendingTxs' = Put(pendingTxs, KeyOf(h), TxOf(h))
           /\ UNCHANGED <<unconfirmedTxs, finishedTxs>>
           /\ \A q \in Requests : q # TxOf(h) => tx'[q] = tx[q]
           /\ tx'[TxOf(h)].State = "Pending"
  <1> DEFINE k == KeyOf(h)
             r == TxOf(h)
  <1>0. k = Key[r] /\ k \in Keys /\ r \in Requests /\ h # Nil /\ r # Nil
    BY HashParts DEF KeyOf
  <1>1. /\ pendingTxs[k] = Nil /\ unconfirmedTxs[k] = Nil /\ finishedTxs[k] = Nil
        /\ h \in hashToId
    BY <1>0 DEF StoreInv, SingleHome, HashIndexExact
  <1>2. /\ confirmedTxs' = Delete(confirmedTxs, k)
        /\ pendingTxs' = Put(pendingTxs, k, r)
        /\ hashToId' = hashToId \ {h}
        /\ UNCHANGED <<unconfirmedTxs, finishedTxs>>
        /\ SetState(r, "Pending")
    BY <1>0 DEF OnReorg
  <1>3. /\ tx'[r].State = "Pending"
        /\ \A q \in Requests : q # r => tx'[q] = tx[q]
    BY <1>0, <1>2, SetStateEffect
  <1>4. SingleHome'
    BY <1>0, <1>1, <1>2, HashParts DEF StoreInv, SingleHome, Put, Delete, StoreTypeOK
  <1>5. Homes'
    BY <1>0, <1>1, <1>2, <1>3, HashParts
    DEF StoreInv, Homes, Put, Delete, StoreTypeOK, FinishedTx, KeyOf
  <1>6. HashIndexExact'
    BY <1>0, <1>1, <1>2, <1>3, HashParts
    DEF StoreInv, HashIndexExact, Put, Delete, StoreTypeOK, KeyOf
  <1> QED
    BY <1>2, <1>3, <1>4, <1>5, <1>6 DEF StoreInv

LEMMA DeleteFinishedInv ==
    ASSUME StoreTypeOK, StoreInv, NEW ids \in SUBSET Keys, DeleteFinishedTxs(ids)
    PROVE  StoreInv'
  <1>1. /\ \A k \in Keys : finishedTxs'[k] = IF k \in ids THEN Nil ELSE finishedTxs[k]
        /\ UNCHANGED <<tx, pendingTxs, unconfirmedTxs, confirmedTxs>>
    BY DEF DeleteFinishedTxs
  <1>2. SingleHome'
    BY <1>1 DEF StoreInv, SingleHome
  <1>3. Homes'
    BY <1>1 DEF StoreInv, Homes
  <1>4. ASSUME NEW h \in Hashes
        PROVE  h \in hashToId' <=> h \in hashToId
                 /\ ~(/\ KeyOf(h) \in ids
                      /\ finishedTxs[KeyOf(h)] # Nil
                      /\ finishedTxs[KeyOf(h)].Hash = h)
    BY HashParts DEF DeleteFinishedTxs, StoreInv, Homes
  <1>5. HashIndexExact'
    BY <1>1, <1>4, HashParts DEF StoreInv, HashIndexExact, SingleHome
  <1> QED
    BY <1>2, <1>3, <1>5 DEF StoreInv

LEMMA AgeInv ==
    ASSUME StoreTypeOK, StoreInv, NEW k \in Keys, Age(k)
    PROVE  StoreInv'
  <1>1. finishedTxs[k] \in FinishedTx /\ finishedTxs[k] # Nil
    BY DEF Age, StoreTypeOK
  <1>2. finishedTxs'[k] = [finishedTxs[k] EXCEPT !.aged = TRUE]
    BY DEF Age, StoreTypeOK
  <1>3. finishedTxs'[k].Hash = finishedTxs[k].Hash
    BY <1>1, <1>2 DEF FinishedTx
  <1>4. /\ \A i \in Keys : i # k => finishedTxs'[i] = finishedTxs[i]
        /\ UNCHANGED <<tx, pendingTxs, unconfirmedTxs, confirmedTxs, hashToId>>
    BY DEF Age, StoreTypeOK
  <1>5. SingleHome'
    BY <1>1, <1>4 DEF StoreInv, SingleHome
  <1>6. Homes'
    BY <1>1, <1>3, <1>4 DEF StoreInv, Homes
  <1>7. finishedTxs'[k] # Nil
    <2>1. finishedTxs'[k] \in FinishedTx
      BY <1>1, <1>2 DEF FinishedTx
    <2> QED
      BY <2>1, StoreAssumption
  <1>8. HashIndexExact'
    BY <1>1, <1>3, <1>4, <1>7, HashParts DEF StoreInv, HashIndexExact
  <1> QED
    BY <1>5, <1>6, <1>8 DEF StoreInv

\* maybeRetry changes the object of the unconfirmed entry h, and no map.
ObjectRetried(h) ==
    /\ UNCHANGED maps
    /\ tx'[TxOf(h)].State = "Pending"
    /\ \A q \in Requests : q # TxOf(h) => tx'[q] = tx[q]

LEMMA ObjectRetriedInv ==
    ASSUME StoreTypeOK, StoreInv, NEW h \in Hashes, unconfirmedTxs[KeyOf(h)] = h,
           ObjectRetried(h)
    PROVE  StoreInv'
  <1> DEFINE k == KeyOf(h)
             r == TxOf(h)
  <1>0. k = Key[r] /\ k \in Keys /\ r \in Requests /\ h # Nil /\ r # Nil
    BY HashParts DEF KeyOf
  <1>1. pendingTxs[k] = Nil /\ confirmedTxs[k] = Nil /\ finishedTxs[k] = Nil
    BY <1>0 DEF StoreInv, SingleHome
  <1>2. SingleHome'
    BY DEF ObjectRetried, maps, StoreInv, SingleHome
  <1>3. Homes'
    BY <1>0, <1>1, HashParts
    DEF ObjectRetried, maps, StoreInv, Homes, StoreTypeOK, FinishedTx, KeyOf
  <1>4. HashIndexExact'
    BY <1>0, <1>1, HashParts
    DEF ObjectRetried, maps, StoreInv, HashIndexExact, StoreTypeOK, KeyOf
  <1> QED
    BY <1>2, <1>3, <1>4 DEF StoreInv

LEMMA StoreStutterInv ==
    ASSUME StoreInv, UNCHANGED storeVars
    PROVE  StoreInv'
  BY DEF StoreInv, SingleHome, Homes, HashIndexExact, storeVars, maps

-----------------------------------------------------------------------------
(* The goroutines do not disturb each other *)

\* The objects of the unconfirmed entries are broadcast, but for the one in maybeRetry.
UnconfirmedState ==
    \A k \in Keys : unconfirmedTxs[k] # Nil =>
        tx[TxOf(unconfirmedTxs[k])].State =
            IF Retrying(unconfirmedTxs[k]) THEN "Pending" ELSE "Broadcasted"

\* The confirm loop knows what it looks at.
ConfirmInv == SnapshotCurrent /\ cur \notin todo /\ UnconfirmedState

SerialInv ==
    /\ StoreInv
    /\ SingleBroadcaster
    /\ EnqueueOwnsKey
    /\ ConfirmInv

Inv == TypeInv /\ SerialInv

\* A step that leaves the store, the channel and the broadcast loop's object alone.
LEMMA QuietStep ==
    ASSUME Inv, UNCHANGED <<storeVars, chan, btx, enq>>
    PROVE  StoreInv' /\ SingleBroadcaster' /\ EnqueueOwnsKey'
  <1>1. StoreInv'
    BY StoreStutterInv DEF Inv, SerialInv
  <1>2. SingleBroadcaster'
    BY DEF Inv, SerialInv, SingleBroadcaster, storeVars, maps
  <1>3. EnqueueOwnsKey'
    BY DEF Inv, SerialInv, EnqueueOwnsKey, Entered, Has, storeVars, maps
  <1> QED
    BY <1>1, <1>2, <1>3

\* A step that leaves the store and the confirm loop alone.
LEMMA QuietSnapshot ==
    ASSUME Inv, UNCHANGED <<storeVars, cVars>>
    PROVE  ConfirmInv'
  BY DEF Inv, SerialInv, ConfirmInv, UnconfirmedState, Retrying, SnapshotCurrent, Snapshot,
         InUnconfirmedPass, storeVars, maps, cVars

LEMMA EnqueueSerial ==
    ASSUME Inv, SerialEnqueue, NEW r \in Requests, EnqueueRejected(r) \/ Enqueue(r)
    PROVE  SerialInv'
  <1> USE DEF enqueueFrame, bVars
  <1>t. TypeOK /\ ControlOK /\ StoreTypeOK /\ SerialInv
    BY DEF Inv, TypeInv, TypeOK
  <1>e. enq \in [Requests -> {"new", "rejected", "ignored", "checked", "stored",
                              "accepted", "failed"}]
    BY <1>t DEF TypeOK
  <1>1. CASE EnqueueRejected(r)
    <2>1. UNCHANGED <<storeVars, chan, btx, cVars>> /\ enq[r] = "new"
          /\ enq' = [enq EXCEPT ![r] = "rejected"]
      BY <1>1 DEF EnqueueRejected
    <2>2. StoreInv' /\ SingleBroadcaster'
      BY <1>t, <2>1, StoreStutterInv DEF SerialInv, SingleBroadcaster, storeVars, maps
    <2>3. EnqueueOwnsKey'
      BY <1>t, <1>e, <2>1, HashParts
      DEF SerialInv, EnqueueOwnsKey, Entered, Has, storeVars, maps, StoreTypeOK, FinishedTx
    <2> QED
      BY <2>1, <2>2, <2>3, QuietSnapshot DEF SerialInv
  <1>2. CASE EnqueueCheck(r)
    <2>1. UNCHANGED <<storeVars, chan, btx, cVars>> /\ enq[r] = "new"
          /\ enq' = [enq EXCEPT ![r] = IF Has(Key[r]) THEN "ignored" ELSE "checked"]
          /\ \A q \in Requests : Key[q] = Key[r] => enq[q] \notin {"checked", "stored"}
      BY <1>2 DEF EnqueueCheck
    <2>2. StoreInv' /\ SingleBroadcaster'
      BY <1>t, <2>1, StoreStutterInv DEF SerialInv, SingleBroadcaster, storeVars, maps
    <2>3. EnqueueOwnsKey'
      BY <1>t, <1>e, <2>1, HashParts
      DEF SerialInv, EnqueueOwnsKey, Entered, Has, storeVars, maps, StoreTypeOK, FinishedTx
    <2> QED
      BY <2>1, <2>2, <2>3, QuietSnapshot DEF SerialInv
  <1>3. CASE EnqueueStore(r)
    <2>1. /\ UNCHANGED <<tx, chan, btx, cVars>> /\ enq[r] = "checked"
          /\ enq' = [enq EXCEPT ![r] = "stored"]
          /\ OnPending(r, FALSE)
      BY <1>3 DEF EnqueueStore
    <2>2. ~Has(Key[r]) /\ tx[r].State = "Pending"
      BY <1>t, <2>1 DEF SerialInv, EnqueueOwnsKey
    <2>3. /\ StoreInv'
          /\ pendingTxs' = Put(pendingTxs, Key[r], r)
          /\ UNCHANGED <<unconfirmedTxs, confirmedTxs, finishedTxs>>
      BY <1>t, <2>1, <2>2, OnPendingNew DEF SerialInv
    <2>4. pendingTxs[Key[r]] = Nil
      BY <2>2 DEF Has
    <2>5. SingleBroadcaster'
      BY <1>t, <2>1, <2>3, <2>4, HashParts
      DEF SerialInv, SingleBroadcaster, Put, TypeOK, StoreTypeOK
    <2>6. btx # r /\ \A i \in 1..Len(chan) : chan[i] # r
      BY <1>t, <2>4, HashParts DEF SerialInv, SingleBroadcaster
    <2>7. EnqueueOwnsKey'
      BY <1>t, <1>e, <2>1, <2>2, <2>3, <2>6, HashParts
      DEF SerialInv, EnqueueOwnsKey, Entered, Has, Put, StoreTypeOK, FinishedTx
    <2>8. ConfirmInv'
      BY <1>t, <2>1, <2>3
      DEF SerialInv, ConfirmInv, UnconfirmedState, Retrying, SnapshotCurrent, Snapshot,
          InUnconfirmedPass, cVars
    <2> QED
      BY <2>3, <2>5, <2>7, <2>8 DEF SerialInv
  <1>4. CASE EnqueueSend(r)
    <2>1. /\ UNCHANGED <<storeVars, btx, cVars>> /\ enq[r] = "stored"
          /\ enq' = [enq EXCEPT ![r] = IF Len(chan) < BroadcastChanSize
                                       THEN "accepted" ELSE "failed"]
          /\ TrySend(r)
      BY <1>4 DEF EnqueueSend
    <2>2. pendingTxs[Key[r]] = r /\ btx # r /\ \A i \in 1..Len(chan) : chan[i] # r
      BY <1>t, <2>1 DEF SerialInv, EnqueueOwnsKey
    <2>3. StoreInv'
      BY <1>t, <2>1, StoreStutterInv DEF SerialInv
    <2>4. chan \in Seq(Requests)
      BY <1>t DEF TypeOK
    <2>5. SingleBroadcaster'
      BY <1>t, <2>1, <2>2, <2>4, HashParts
      DEF SerialInv, SingleBroadcaster, TrySend, storeVars, maps
    <2>6. \A i \in 1..Len(chan') : chan'[i] = r \/ \E j \in 1..Len(chan) : chan'[i] = chan[j]
      BY <2>1, <2>4 DEF TrySend
    <2>7. EnqueueOwnsKey'
      BY <1>t, <1>e, <2>1, <2>2, <2>6, HashParts
      DEF SerialInv, EnqueueOwnsKey, Entered, Has, storeVars, maps, StoreTypeOK, FinishedTx
    <2> QED
      BY <2>1, <2>3, <2>5, <2>7, QuietSnapshot DEF SerialInv
  <1> QED
    BY <1>1, <1>2, <1>3, <1>4 DEF Enqueue

\* The object of the broadcast loop is pending, so that its key has no entry
\* for OnFatalError to act on: a failed broadcast leaves the store as it is.
LEMMA FailedBroadcastIsIgnored ==
    ASSUME Inv, bpc \in {"sign", "send"}, OnFatalError(Key[btx])
    PROVE  UNCHANGED storeVars
  <1>1. btx \in Requests /\ Key[btx] \in Keys
    BY HashParts DEF Inv, TypeInv, ControlOK
  <1>2. pendingTxs[Key[btx]] = btx /\ btx # Nil
    BY <1>1, HashParts DEF Inv, SerialInv, SingleBroadcaster
  <1>3. unconfirmedTxs[Key[btx]] = Nil /\ confirmedTxs[Key[btx]] = Nil
    BY <1>1, <1>2 DEF Inv, SerialInv, StoreInv, SingleHome
  <1> QED
    BY <1>3 DEF OnFatalError

\* The broadcast loop drops its object.
LEMMA DropObject ==
    ASSUME Inv, UNCHANGED storeVars, BroadcastIdle
    PROVE  SerialInv'
  <1>1. UNCHANGED <<chan, enq, cVars>> /\ btx' = Nil
    BY DEF BroadcastIdle, broadcastFrame
  <1>2. StoreInv'
    BY StoreStutterInv DEF Inv, SerialInv
  <1>3. chan \in Seq(Requests)
    BY DEF Inv, TypeInv, TypeOK
  <1>4. SingleBroadcaster'
    BY <1>1, <1>3, HashParts DEF Inv, SerialInv, SingleBroadcaster, storeVars, maps
  <1>5. EnqueueOwnsKey'
    BY <1>1, HashParts DEF Inv, SerialInv, EnqueueOwnsKey, Entered, Has, storeVars, maps
  <1> QED
    BY <1>1, <1>2, <1>4, <1>5, QuietSnapshot DEF SerialInv

LEMMA BroadcastSerial ==
    ASSUME Inv, broadcastLoop
    PROVE  SerialInv'
  <1> USE DEF broadcastFrame
  <1>t. TypeOK /\ ControlOK /\ StoreTypeOK /\ SerialInv /\ chan \in Seq(Requests)
    BY DEF Inv, TypeInv, TypeOK
  <1>q. ASSUME UNCHANGED <<storeVars, chan, btx, enq, cVars>>
        PROVE  SerialInv'
    BY <1>q, QuietStep, QuietSnapshot DEF SerialInv
  <1>1. CASE BroadcastReceive
    <2>1. /\ chan # <<>> /\ btx' = Head(chan) /\ chan' = Tail(chan)
          /\ UNCHANGED <<storeVars, enq, cVars>>
      BY <1>1 DEF BroadcastReceive
    <2>2. btx = Nil
      BY <1>1, <1>t DEF BroadcastReceive, ControlOK
    <2>3. /\ Len(chan) \in Nat /\ Len(chan) > 0 /\ Len(chan') = Len(chan) - 1
          /\ btx' = chan[1] /\ \A i \in 1..Len(chan') : chan'[i] = chan[i + 1]
      BY <1>t, <2>1
    <2>4. SingleBroadcaster'
      BY <1>t, <2>1, <2>3 DEF SerialInv, SingleBroadcaster, storeVars, maps
    <2>5. EnqueueOwnsKey'
      BY <1>t, <2>1, <2>3
      DEF SerialInv, EnqueueOwnsKey, Entered, Has, storeVars, maps
    <2>6. StoreInv'
      BY <1>t, <2>1, StoreStutterInv DEF SerialInv
    <2> QED
      BY <2>1, <2>4, <2>5, <2>6, QuietSnapshot DEF SerialInv
  <1>2. CASE PrepareFails
    BY <1>2, DropObject DEF PrepareFails
  <1>3. CASE PrepareTx
    BY <1>3, <1>q DEF PrepareTx
  <1>4. CASE SignTx
    BY <1>4, <1>q DEF SignTx
  <1>5. CASE SignFails
    BY <1>5, DropObject, FailedBroadcastIsIgnored DEF SignFails, BroadcastFailed
  <1>6. CASE SendAccepted
    BY <1>6, <1>q DEF SendAccepted
  <1>7. CASE SendBusy
    BY <1>7, <1>q DEF SendBusy, bVars
  <1>8. CASE SendRejected
    BY <1>8, DropObject, FailedBroadcastIsIgnored DEF SendRejected, BroadcastFailed
  <1>9. CASE SendPanics
    BY <1>9, <1>q DEF SendPanics, bVars
  <1>10. CASE Broadcasted
    <2> DEFINE h == bhash
               r == TxOf(bhash)
               k == KeyOf(bhash)
    <2>1. /\ OnBroadcasted(h) /\ btx' = Nil
          /\ UNCHANGED <<chan, enq, cVars>>
      BY <1>10 DEF Broadcasted, BroadcastIdle
    <2>2. h \in Hashes /\ r = btx /\ r \in Requests /\ k = Key[r] /\ k \in Keys /\ h # Nil
      BY <1>10, <1>t, HashParts DEF Broadcasted, ControlOK, KeyOf
    <2>3. pendingTxs[k] = r /\ r # Nil
      BY <1>t, <2>2, HashParts DEF SerialInv, SingleBroadcaster
    <2>4. /\ StoreInv'
          /\ pendingTxs' = Delete(pendingTxs, k)
          /\ unconfirmedTxs' = Put(unconfirmedTxs, k, h)
          /\ UNCHANGED <<confirmedTxs, finishedTxs>>
          /\ \A q \in Requests : q # r => tx'[q] = tx[q]
          /\ tx'[r].State = "Broadcasted"
      BY <1>t, <2>1, <2>2, <2>3, OnBroadcastedPending DEF SerialInv
    <2>5. unconfirmedTxs[k] = Nil /\ confirmedTxs[k] = Nil
      BY <1>t, <2>2, <2>3 DEF SerialInv, StoreInv, SingleHome
    <2>6. ASSUME NEW i \in 1..Len(chan)
          PROVE  /\ chan[i] \in Requests
                 /\ Key[chan[i]] # k
      BY <1>t, <2>2, <2>3 DEF SerialInv, SingleBroadcaster
    <2>7. SingleBroadcaster'
      BY <1>t, <2>1, <2>2, <2>4, <2>6, HashParts
      DEF SerialInv, SingleBroadcaster, Delete, StoreTypeOK
    <2>8. Entered(r) /\ enq[r] # "stored"
      BY <1>t, <2>2, <2>3 DEF SerialInv, EnqueueOwnsKey
    <2>9. EnqueueOwnsKey'
      BY <1>t, <2>1, <2>2, <2>3, <2>4, <2>8, HashParts
      DEF SerialInv, EnqueueOwnsKey, Entered, Has, Put, Delete, StoreTypeOK
    <2>10. SnapshotCurrent' /\ (cur \notin todo)'
      BY <1>t, <2>1, <2>2, <2>4, <2>5, HashParts
      DEF SerialInv, ConfirmInv, SnapshotCurrent, Snapshot, InUnconfirmedPass, cVars, Put,
          StoreTypeOK, TypeOK
    <2>11. ~Retrying(h)
      BY <1>t, <2>2, <2>5
      DEF SerialInv, ConfirmInv, SnapshotCurrent, Snapshot, InUnconfirmedPass, Retrying
    <2>12. ASSUME NEW i \in Keys, unconfirmedTxs'[i] # Nil
           PROVE  tx'[TxOf(unconfirmedTxs'[i])].State =
                      IF Retrying(unconfirmedTxs'[i]) THEN "Pending" ELSE "Broadcasted"
      <3>1. CASE i = k
        BY <1>t, <2>2, <2>4, <2>11, <3>1 DEF Put, StoreTypeOK
      <3>2. CASE i # k
        <4>1. unconfirmedTxs'[i] = unconfirmedTxs[i] /\ unconfirmedTxs[i] \in Hashes
          BY <1>t, <2>4, <2>12, <3>2 DEF Put, StoreTypeOK
        <4>2. TxOf(unconfirmedTxs[i]) # r /\ TxOf(unconfirmedTxs[i]) \in Requests
          BY <1>t, <2>2, <3>2, <4>1, HashParts DEF SerialInv, StoreInv, Homes, KeyOf
        <4> QED
          BY <1>t, <2>4, <4>1, <4>2, HashParts DEF SerialInv, ConfirmInv, UnconfirmedState
      <3> QED
        BY <3>1, <3>2
    <2>13. UnconfirmedState'
      BY <2>1, <2>12 DEF UnconfirmedState, Retrying, cVars
    <2> QED
      BY <2>4, <2>7, <2>9, <2>10, <2>13 DEF SerialInv, ConfirmInv
  <1>11. CASE BroadcastStops
    BY <1>11, <1>q DEF BroadcastStops
  <1>12. CASE PreparePanics
    BY <1>12, <1>q DEF PreparePanics, bVars
  <1> QED
    BY <1>1, <1>2, <1>3, <1>4, <1>5, <1>6, <1>7, <1>8, <1>9, <1>10, <1>11, <1>12
    DEF broadcastLoop

LEMMA ReapSerial ==
    ASSUME Inv, reapLoop \/ \E k \in Keys : Age(k)
    PROVE  SerialInv'
  <1> USE DEF reapFrame, bVars
  <1>t. TypeOK /\ StoreTypeOK /\ SerialInv /\ reapIds \in SUBSET Keys
    BY DEF Inv, TypeInv, TypeOK
  <1>q. ASSUME UNCHANGED <<storeVars, chan, btx, enq, cVars>>
        PROVE  SerialInv'
    BY <1>q, QuietStep, QuietSnapshot DEF SerialInv
  <1>s. ASSUME StoreInv', UNCHANGED <<tx, pendingTxs, unconfirmedTxs, confirmedTxs,
                                      chan, btx, enq, cVars>>,
               \A k \in Keys : finishedTxs'[k] # Nil =>
                   /\ finishedTxs[k] # Nil
                   /\ finishedTxs'[k].Hash = finishedTxs[k].Hash
        PROVE  SerialInv'
    <2>1. SingleBroadcaster'
      BY <1>t, <1>s DEF SerialInv, SingleBroadcaster
    <2>2. EnqueueOwnsKey'
      BY <1>t, <1>s, HashParts DEF SerialInv, EnqueueOwnsKey, Entered, Has
    <2>3. ConfirmInv'
      BY <1>t, <1>s
      DEF SerialInv, ConfirmInv, UnconfirmedState, Retrying, SnapshotCurrent, Snapshot,
          InUnconfirmedPass, cVars
    <2> QED
      BY <1>s, <2>1, <2>2, <2>3 DEF SerialInv
  <1>1. CASE ReapScan
    BY <1>1, <1>q DEF ReapScan
  <1>2. CASE ReapDelete
    <2>1. StoreInv'
      BY <1>2, <1>t, DeleteFinishedInv DEF ReapDelete, SerialInv
    <2> QED
      BY <1>2, <1>s, <2>1 DEF ReapDelete, DeleteFinishedTxs
  <1>3. CASE ReapStops
    BY <1>3, <1>q DEF ReapStops
  <1>4. ASSUME NEW k \in Keys, Age(k) PROVE SerialInv'
    <2>1. StoreInv'
      BY <1>4, <1>t, AgeInv DEF SerialInv
    <2>2. finishedTxs[k] \in FinishedTx /\ finishedTxs[k] # Nil
      BY <1>4, <1>t DEF Age, StoreTypeOK
    <2>3. finishedTxs'[k] = [finishedTxs[k] EXCEPT !.aged = TRUE]
      BY <1>4, <1>t DEF Age, StoreTypeOK
    <2>4. finishedTxs'[k].Hash = finishedTxs[k].Hash
      BY <2>2, <2>3 DEF FinishedTx
    <2>5. \A i \in Keys : i # k => finishedTxs'[i] = finishedTxs[i]
      BY <1>4, <1>t DEF Age, StoreTypeOK
    <2> QED
      BY <1>4, <1>s, <2>1, <2>2, <2>4, <2>5 DEF Age
  <1> QED
    BY <1>1, <1>2, <1>3, <1>4 DEF reapLoop

\* The entry h of the unconfirmed or confirmed map moves to another map; its
\* object is sent to the channel only if it becomes pending.
EntryMoves(h) ==
    LET k == KeyOf(h)
        r == TxOf(h)
    IN  /\ \A i \in Keys : i # k =>
              /\ pendingTxs'[i] = pendingTxs[i]
              /\ unconfirmedTxs'[i] = unconfirmedTxs[i]
              /\ confirmedTxs'[i] = confirmedTxs[i]
              /\ finishedTxs'[i] = finishedTxs[i]
        /\ pendingTxs'[k] \in {Nil, r}
        /\ unconfirmedTxs'[k] = Nil
        /\ confirmedTxs'[k] \in {Nil, h}
        /\ finishedTxs'[k] = Nil \/ finishedTxs'[k].Hash = h
        /\ \A q \in Requests : q # r => tx'[q] = tx[q]
        /\ chan' = chan \/ (chan' = Append(chan, r) /\ pendingTxs'[k] = r)

\* Where the unconfirmed entry h may go.
EntryLands(h) ==
    \/ pendingTxs'[KeyOf(h)] = TxOf(h)
    \/ confirmedTxs'[KeyOf(h)] = h
    \/ /\ finishedTxs'[KeyOf(h)] = [Hash |-> h, aged |-> FALSE]
       /\ tx'[TxOf(h)].State \in {"Errored", "FatallyErrored"}

LEMMA EntryMovesSafely ==
    ASSUME Inv, NEW h \in Hashes,
           unconfirmedTxs[KeyOf(h)] = h \/ confirmedTxs[KeyOf(h)] = h,
           EntryMoves(h), UNCHANGED <<btx, enq>>
    PROVE  SingleBroadcaster' /\ EnqueueOwnsKey'
  <1> DEFINE k == KeyOf(h)
             r == TxOf(h)
  <1>t. StoreTypeOK /\ SerialInv /\ chan \in Seq(Requests) /\ btx \in Requests \cup {Nil}
    BY DEF Inv, TypeInv, TypeOK
  <1>0. r \in Requests /\ k = Key[r] /\ k \in Keys /\ h # Nil /\ r # Nil
    BY HashParts DEF KeyOf
  <1>1. pendingTxs[k] = Nil /\ finishedTxs[k] = Nil
    BY <1>0, <1>t DEF SerialInv, StoreInv, SingleHome
  <1>2. \A i \in 1..Len(chan) : chan[i] \in Requests /\ Key[chan[i]] # k
    BY <1>0, <1>1, <1>t, HashParts DEF SerialInv, SingleBroadcaster
  <1>3. btx # Nil => Key[btx] # k /\ Key[btx] \in Keys
    BY <1>0, <1>1, <1>t, HashParts DEF SerialInv, SingleBroadcaster
  <1>4. SingleBroadcaster'
    <2>1. CASE chan' = chan
      BY <1>0, <1>2, <1>3, <1>t, <2>1, HashParts
      DEF EntryMoves, SerialInv, SingleBroadcaster
    <2>2. CASE chan' = Append(chan, r) /\ pendingTxs'[k] = r
      <3>1. /\ Len(chan') = Len(chan) + 1 /\ chan'[Len(chan) + 1] = r
            /\ Len(chan) \in Nat
            /\ \A i \in 1..Len(chan) : chan'[i] = chan[i]
        BY <1>0, <1>t, <2>2
      <3> QED
        BY <1>0, <1>2, <1>3, <1>t, <2>2, <3>1, HashParts
        DEF EntryMoves, SerialInv, SingleBroadcaster
    <2> QED
      BY <2>1, <2>2 DEF EntryMoves
  <1>5. Entered(r) /\ enq[r] # "stored"
    BY <1>0, <1>1, <1>t DEF SerialInv, EnqueueOwnsKey
  <1>6. \A i \in 1..Len(chan') : chan'[i] = r \/ \E j \in 1..Len(chan) : chan'[i] = chan[j]
    BY <1>0, <1>t DEF EntryMoves
  <1>7. \A q \in Requests : enq[q] = "checked" => Key[q] # k
    BY <1>0, <1>t DEF SerialInv, EnqueueOwnsKey, Has
  <1>8. \A q \in Requests : enq[q] = "stored" => Key[q] # k
    BY <1>0, <1>1, <1>t, HashParts DEF SerialInv, EnqueueOwnsKey
  <1>9. ASSUME NEW q \in Requests
        PROVE  /\ enq[q] \in {"new", "checked"} => tx'[q].State = "Pending"
               /\ enq[q] = "checked" => ~Has(Key[q])'
               /\ enq[q] = "stored" =>
                     /\ pendingTxs'[Key[q]] = q
                     /\ btx # q
                     /\ \A i \in 1..Len(chan') : chan'[i] # q
    BY <1>0, <1>5, <1>6, <1>7, <1>8, <1>t, HashParts
    DEF EntryMoves, SerialInv, EnqueueOwnsKey, Entered, Has
  <1>10. ASSUME NEW i \in Keys
         PROVE  /\ pendingTxs'[i] # Nil => Entered(pendingTxs'[i])
                /\ unconfirmedTxs'[i] # Nil => Entered(TxOf(unconfirmedTxs'[i]))
                /\ confirmedTxs'[i] # Nil => Entered(TxOf(confirmedTxs'[i]))
                /\ finishedTxs'[i] # Nil => Entered(TxOf(finishedTxs'[i].Hash))
    BY <1>0, <1>5, <1>t DEF EntryMoves, SerialInv, EnqueueOwnsKey
  <1>11. EnqueueOwnsKey'
    BY <1>9, <1>10, <1>t DEF SerialInv, EnqueueOwnsKey, Entered
  <1> QED
    BY <1>4, <1>11

LEMMA EntryMovesState ==
    ASSUME Inv, NEW h \in Hashes,
           unconfirmedTxs[KeyOf(h)] = h \/ confirmedTxs[KeyOf(h)] = h,
           EntryMoves(h), cpc = "retry" => cur = h, cpc' # "retry"
    PROVE  UnconfirmedState'
  <1> DEFINE k == KeyOf(h)
             r == TxOf(h)
  <1>t. StoreTypeOK /\ SerialInv
    BY DEF Inv, TypeInv, TypeOK
  <1>0. r \in Requests /\ k = Key[r] /\ k \in Keys /\ h # Nil
    BY HashParts DEF KeyOf
  <1>1. ASSUME NEW i \in Keys, unconfirmedTxs'[i] # Nil
        PROVE  tx'[TxOf(unconfirmedTxs'[i])].State = "Broadcasted"
    <2>1. i # k
      BY <1>1 DEF EntryMoves
    <2>2. unconfirmedTxs'[i] = unconfirmedTxs[i] /\ unconfirmedTxs[i] \in Hashes
      BY <1>1, <1>t, <2>1 DEF EntryMoves, StoreTypeOK
    <2>3. TxOf(unconfirmedTxs[i]) # r /\ TxOf(unconfirmedTxs[i]) \in Requests
      BY <1>t, <1>0, <2>1, <2>2, HashParts DEF SerialInv, StoreInv, Homes, KeyOf
    <2>4. tx[TxOf(unconfirmedTxs[i])].State = "Broadcasted"
      BY <1>t, <2>2, <2>3, HashParts DEF SerialInv, ConfirmInv, UnconfirmedState, Retrying
    <2> QED
      BY <2>2, <2>3, <2>4 DEF EntryMoves
  <1> QED
    BY <1>1 DEF UnconfirmedState, Retrying

LEMMA MaybeRetrySerial ==
    ASSUME Inv, NEW h \in Hashes, unconfirmedTxs[KeyOf(h)] = h, UNCHANGED chan,
           NEW b \in BOOLEAN, NEW o \in BOOLEAN, maybeRetry(TxOf(h), b, o)
    PROVE  /\ StoreInv'
           /\ \/ EntryMoves(h) /\ EntryLands(h) /\ NextUnconfirmed
              \/ ObjectRetried(h) /\ cpc' = "retry" /\ UNCHANGED cur
  <1> DEFINE k == KeyOf(h)
             r == TxOf(h)
  <1>t. StoreTypeOK /\ SerialInv
    BY DEF Inv, TypeInv, TypeOK
  <1>0. r \in Requests /\ k = Key[r] /\ k \in Keys /\ h # Nil /\ r # Nil
    BY HashParts DEF KeyOf
  <1>1. pendingTxs[k] = Nil /\ confirmedTxs[k] = Nil /\ finishedTxs[k] = Nil
    BY <1>0, <1>t DEF SerialInv, StoreInv, SingleHome
  <1>2. CASE ~MayRetry(r)
    <2>1. FinishUnconfirmed(k, "Errored") /\ hashToId' = hashToId \ {h} /\ NextUnconfirmed
      BY <1>0, <1>2 DEF maybeRetry, OnErrored
    <2>2. /\ StoreInv'
          /\ unconfirmedTxs' = Delete(unconfirmedTxs, k)
          /\ finishedTxs' = Put(finishedTxs, k, [Hash |-> h, aged |-> FALSE])
          /\ UNCHANGED <<pendingTxs, confirmedTxs>>
          /\ \A q \in Requests : q # r => tx'[q] = tx[q]
          /\ tx'[r].State \in {"Errored", "FatallyErrored"}
      BY <1>t, <2>1, FinishUnconfirmedEntry DEF SerialInv
    <2>3. EntryMoves(h) /\ EntryLands(h)
      BY <1>0, <1>1, <1>t, <2>2 DEF EntryMoves, EntryLands, Put, Delete, StoreTypeOK
    <2> QED
      BY <2>1, <2>2, <2>3
  <1>3. CASE MayRetry(r)
    <2>1. tx' = Retried(r, b, o) /\ UNCHANGED <<maps, cur>> /\ cpc' = "retry"
      BY <1>3 DEF maybeRetry
    <2>2. ObjectRetried(h)
      BY <1>0, <1>t, <2>1 DEF ObjectRetried, Retried, StoreTypeOK
    <2> QED
      BY <1>t, <2>1, <2>2, ObjectRetriedInv DEF SerialInv
  <1> QED
    BY <1>2, <1>3

LEMMA HandleResultSerial ==
    ASSUME Inv, NEW h \in Hashes, unconfirmedTxs[KeyOf(h)] = h, UNCHANGED chan,
           cpc = "handle", HandleResult(TxOf(h))
    PROVE  \/ UNCHANGED storeVars /\ NextUnconfirmed
           \/ StoreInv' /\ EntryMoves(h) /\ EntryLands(h) /\ NextUnconfirmed
           \/ StoreInv' /\ ObjectRetried(h) /\ cpc' = "retry" /\ UNCHANGED cur
  <1> DEFINE k == KeyOf(h)
             r == TxOf(h)
  <1>t. StoreTypeOK /\ SerialInv
    BY DEF Inv, TypeInv, TypeOK
  <1>0. r \in Requests /\ k = Key[r] /\ k \in Keys /\ h # Nil /\ r # Nil
    BY HashParts DEF KeyOf
  <1>1. pendingTxs[k] = Nil /\ confirmedTxs[k] = Nil /\ finishedTxs[k] = Nil
    BY <1>0, <1>t DEF SerialInv, StoreInv, SingleHome
  <1>2. CASE UNCHANGED storeVars /\ NextUnconfirmed
    BY <1>2
  <1>3. ASSUME NEW b \in BOOLEAN, NEW o \in BOOLEAN, maybeRetry(r, b, o)
        PROVE  \/ StoreInv' /\ EntryMoves(h) /\ EntryLands(h) /\ NextUnconfirmed
               \/ StoreInv' /\ ObjectRetried(h) /\ cpc' = "retry" /\ UNCHANGED cur
    BY <1>3, MaybeRetrySerial
  <1>4. CASE OnConfirmed(Key[r]) /\ NextUnconfirmed
    <2>0. tx[r].State = "Broadcasted"
      BY <1>0, <1>t DEF SerialInv, ConfirmInv, UnconfirmedState, Retrying
    <2>1. /\ StoreInv'
          /\ unconfirmedTxs' = Delete(unconfirmedTxs, k)
          /\ confirmedTxs' = Put(confirmedTxs, k, h)
          /\ UNCHANGED <<pendingTxs, finishedTxs>>
          /\ \A q \in Requests : q # r => tx'[q] = tx[q]
      BY <1>0, <1>4, <1>t, <2>0, OnConfirmedUnconfirmed DEF SerialInv
    <2>2. EntryMoves(h) /\ EntryLands(h)
      BY <1>0, <1>1, <1>t, <2>1 DEF EntryMoves, EntryLands, Put, Delete, StoreTypeOK
    <2> QED
      BY <1>4, <2>1, <2>2
  <1>5. CASE OnFatalError(Key[r]) /\ NextUnconfirmed
    <2>1. FinishUnconfirmed(k, "FatallyErrored") /\ UNCHANGED hashToId
      BY <1>0, <1>5 DEF OnFatalError
    <2>2. /\ StoreInv'
          /\ unconfirmedTxs' = Delete(unconfirmedTxs, k)
          /\ finishedTxs' = Put(finishedTxs, k, [Hash |-> h, aged |-> FALSE])
          /\ UNCHANGED <<pendingTxs, confirmedTxs>>
          /\ \A q \in Requests : q # r => tx'[q] = tx[q]
          /\ tx'[r].State \in {"Errored", "FatallyErrored"}
      BY <1>t, <2>1, FinishUnconfirmedEntry DEF SerialInv
    <2>3. EntryMoves(h) /\ EntryLands(h)
      BY <1>0, <1>1, <1>t, <2>2 DEF EntryMoves, EntryLands, Put, Delete, StoreTypeOK
    <2> QED
      BY <1>5, <2>2, <2>3
  <1> QED
    BY <1>2, <1>3, <1>4, <1>5 DEF HandleResult

\* The second half of maybeRetry finds its entry where the first half left it.
LEMMA RetrySerial ==
    ASSUME Inv, Retry
    PROVE  /\ cur \in Hashes /\ unconfirmedTxs[KeyOf(cur)] = cur
           /\ tx[TxOf(cur)].State = "Pending" /\ UNCHANGED <<life, tx>>
           /\ OnPending(TxOf(cur), TRUE) /\ TrySend(TxOf(cur))
           /\ pendingTxs' = Put(pendingTxs, KeyOf(cur), TxOf(cur))
           /\ unconfirmedTxs' = Delete(unconfirmedTxs, KeyOf(cur))
           /\ UNCHANGED <<confirmedTxs, finishedTxs>>
           /\ StoreInv' /\ EntryMoves(cur) /\ EntryLands(cur)
  <1> DEFINE k == KeyOf(cur)
             r == TxOf(cur)
  <1>t. StoreTypeOK /\ SerialInv
    BY DEF Inv, TypeInv, TypeOK
  <1>1. cpc = "retry" /\ cur \in Hashes
    BY DEF Retry, Inv, TypeInv, ControlOK
  <1>2. unconfirmedTxs[k] = cur
    BY <1>t, <1>1, HashParts
    DEF SerialInv, ConfirmInv, SnapshotCurrent, Snapshot, InUnconfirmedPass
  <1>3. r \in Requests /\ k = Key[r] /\ k \in Keys /\ cur # Nil /\ r # Nil
    BY <1>1, HashParts DEF KeyOf
  <1>4. pendingTxs[k] = Nil /\ confirmedTxs[k] = Nil /\ finishedTxs[k] = Nil
    BY <1>2, <1>3, <1>t DEF SerialInv, StoreInv, SingleHome
  <1>5. tx[r].State = "Pending"
    BY <1>1, <1>2, <1>3, <1>t DEF SerialInv, ConfirmInv, UnconfirmedState, Retrying
  <1>6. OnPending(r, TRUE) /\ TrySend(r) /\ UNCHANGED <<life, tx>>
    BY <1>2, <1>3 DEF Retry
  <1>7. /\ StoreInv'
        /\ pendingTxs' = Put(pendingTxs, k, r)
        /\ unconfirmedTxs' = Delete(unconfirmedTxs, k)
        /\ UNCHANGED <<confirmedTxs, finishedTxs>>
    BY <1>1, <1>2, <1>5, <1>6, <1>t, OnPendingRetry DEF SerialInv
  <1>8. EntryMoves(cur) /\ EntryLands(cur)
    BY <1>3, <1>4, <1>6, <1>7, <1>t DEF EntryMoves, EntryLands, Put, Delete, StoreTypeOK, TrySend
  <1> QED
    BY <1>1, <1>2, <1>5, <1>6, <1>7, <1>8

LEMMA ConfirmSerial ==
    ASSUME Inv, confirmLoop
    PROVE  SerialInv'
  <1> USE DEF confirmFrame, bVars
  <1>t. TypeOK /\ ControlOK /\ StoreTypeOK /\ SerialInv /\ todo \in SUBSET Hashes
    BY DEF Inv, TypeInv, TypeOK
  <1>q. ASSUME UNCHANGED <<storeVars, chan, btx, enq>>, SnapshotCurrent', (cur \notin todo)',
               cpc # "retry", cpc' # "retry"
        PROVE  SerialInv'
    <2>1. UnconfirmedState'
      BY <1>q, <1>t DEF SerialInv, ConfirmInv, UnconfirmedState, Retrying, storeVars, maps
    <2> QED
      BY <1>q, <2>1, QuietStep DEF SerialInv, ConfirmInv
  <1>1. CASE ConfirmTick
    <2>1. SnapshotCurrent' /\ (cur \notin todo)'
      BY <1>1, <1>t, HashParts
      DEF ConfirmTick, ControlOK, SnapshotCurrent, Snapshot
    <2> QED
      BY <1>1, <1>q, <2>1 DEF ConfirmTick
  <1>2. ASSUME NEW a \in Accounts, CollectUnconfirmed(a) PROVE SerialInv'
    <2>1. \A h \in GetUnconfirmed(a) : h \in Hashes /\ unconfirmedTxs[KeyOf(h)] = h
      BY <1>t DEF GetUnconfirmed, StoreTypeOK, SerialInv, StoreInv, Homes
    <2>2. cpc = "collectU" /\ cpc' \in {"collectU", "block"} /\ cur = Nil /\ cur' = Nil
      BY <1>2, <1>t DEF CollectUnconfirmed, ControlOK
    <2>3. SnapshotCurrent' /\ (cur \notin todo)'
      BY <1>2, <1>t, <2>1, <2>2, HashParts
      DEF CollectUnconfirmed, SerialInv, ConfirmInv, SnapshotCurrent, Snapshot, InUnconfirmedPass,
          storeVars, maps
    <2> QED
      BY <1>2, <1>q, <2>3 DEF CollectUnconfirmed
  <1>3. ASSUME NEW a \in Accounts, GetNowBlock(a) PROVE SerialInv'
    <2>1. SnapshotCurrent' /\ (cur \notin todo)'
      BY <1>3, <1>t
      DEF GetNowBlock, SerialInv, ConfirmInv, SnapshotCurrent, Snapshot, InUnconfirmedPass,
          storeVars, maps
    <2> QED
      BY <1>3, <1>q, <2>1 DEF GetNowBlock
  <1>4. ASSUME NEW a \in Accounts, CollectConfirmed(a) PROVE SerialInv'
    <2>1. \A h \in GetConfirmed(a) : h \in Hashes /\ confirmedTxs[KeyOf(h)] = h
      BY <1>t DEF GetConfirmed, StoreTypeOK, SerialInv, StoreInv, Homes
    <2>2. cpc = "collectC" /\ cpc' \in {"collectC", "solidity"} /\ cur = Nil /\ cur' = Nil
      BY <1>4, <1>t DEF CollectConfirmed, ControlOK
    <2>3. SnapshotCurrent' /\ (cur \notin todo)'
      BY <1>4, <1>t, <2>1, <2>2, HashParts
      DEF CollectConfirmed, SerialInv, ConfirmInv, SnapshotCurrent, Snapshot, InUnconfirmedPass,
          storeVars, maps
    <2> QED
      BY <1>4, <1>q, <2>3 DEF CollectConfirmed
  <1>5. ASSUME NEW h \in Hashes, QueryUnconfirmed(h) PROVE SerialInv'
    <2>1. SnapshotCurrent' /\ (cur \notin todo)'
      BY <1>5, <1>t
      DEF QueryUnconfirmed, OfAccount, SerialInv, ConfirmInv, SnapshotCurrent, Snapshot,
          InUnconfirmedPass, storeVars, maps
    <2> QED
      BY <1>5, <1>q, <2>1 DEF QueryUnconfirmed
  <1>6. ASSUME NEW h \in Hashes, QueryConfirmed(h) PROVE SerialInv'
    <2>1. cpc' \in {"finalize", "reorg"} /\ cpc = "solidity"
      BY <1>6 DEF QueryConfirmed
    <2>2. SnapshotCurrent' /\ (cur \notin todo)'
      BY <1>6, <1>t, <2>1
      DEF QueryConfirmed, SerialInv, ConfirmInv, SnapshotCurrent, Snapshot, InUnconfirmedPass,
          storeVars, maps
    <2> QED
      BY <1>6, <1>q, <2>2 DEF QueryConfirmed
  <1>7. CASE HandleUnconfirmed
    <2>1. /\ cpc = "handle" /\ todo' = todo
          /\ cur \in Hashes /\ UNCHANGED <<chan, btx, enq>>
          /\ HandleResult(TxOf(cur))
      BY <1>7, <1>t DEF HandleUnconfirmed, ControlOK
    <2>2. unconfirmedTxs[KeyOf(cur)] = cur
      BY <1>t, <2>1, HashParts
      DEF SerialInv, ConfirmInv, SnapshotCurrent, Snapshot, InUnconfirmedPass
    <2>3. ASSUME NEW h \in todo
          PROVE  h \in Hashes /\ KeyOf(h) \in Keys /\ KeyOf(h) # KeyOf(cur)
                 /\ unconfirmedTxs[KeyOf(h)] = h
      BY <1>t, <2>1, <2>2, HashParts
      DEF SerialInv, ConfirmInv, SnapshotCurrent, Snapshot, InUnconfirmedPass
    <2>4. CASE UNCHANGED storeVars /\ NextUnconfirmed
      <3>0. cpc' \in {"query", "block"} /\ cur' = Nil
        BY <2>4 DEF NextUnconfirmed
      <3>1. SnapshotCurrent' /\ (cur \notin todo)'
        BY <1>t, <2>1, <2>3, <2>4, <3>0, HashParts
        DEF SnapshotCurrent, Snapshot, InUnconfirmedPass, storeVars, maps
      <3> QED
        BY <1>q, <2>1, <2>4, <3>0, <3>1
    <2>5. CASE StoreInv' /\ EntryMoves(cur) /\ NextUnconfirmed
      <3>0. cpc' \in {"query", "block"} /\ cur' = Nil
        BY <2>5 DEF NextUnconfirmed
      <3>1. SnapshotCurrent' /\ (cur \notin todo)'
        BY <1>t, <2>1, <2>3, <2>5, <3>0, HashParts
        DEF EntryMoves, SnapshotCurrent, Snapshot, InUnconfirmedPass
      <3>2. SingleBroadcaster' /\ EnqueueOwnsKey'
        BY <2>1, <2>2, <2>5, EntryMovesSafely
      <3>3. UnconfirmedState'
        BY <2>1, <2>2, <2>5, <3>0, EntryMovesState
      <3> QED
        BY <2>5, <3>1, <3>2, <3>3 DEF SerialInv, ConfirmInv
    <2>6. CASE StoreInv' /\ ObjectRetried(cur) /\ cpc' = "retry" /\ UNCHANGED cur
      <3>0. /\ TxOf(cur) \in Requests /\ KeyOf(cur) \in Keys /\ cur # Nil
            /\ KeyOf(cur) = Key[TxOf(cur)]
        BY <2>1, HashParts DEF KeyOf
      <3>1. SnapshotCurrent' /\ (cur \notin todo)'
        BY <1>t, <2>1, <2>6
        DEF SerialInv, ConfirmInv, SnapshotCurrent, Snapshot, InUnconfirmedPass,
            ObjectRetried, maps
      <3>2. SingleBroadcaster'
        BY <1>t, <2>1, <2>6 DEF SerialInv, SingleBroadcaster, ObjectRetried, maps
      <3>3. Entered(TxOf(cur))
        BY <1>t, <2>2, <3>0 DEF SerialInv, EnqueueOwnsKey
      <3>4. EnqueueOwnsKey'
        BY <1>t, <2>1, <2>6, <3>3
        DEF SerialInv, EnqueueOwnsKey, Entered, Has, ObjectRetried, maps
      <3>5. ASSUME NEW k \in Keys, unconfirmedTxs[k] # Nil, unconfirmedTxs[k] # cur
            PROVE  tx'[TxOf(unconfirmedTxs[k])].State = "Broadcasted"
        <4>1. unconfirmedTxs[k] \in Hashes /\ KeyOf(unconfirmedTxs[k]) = k
          BY <1>t, <3>5 DEF SerialInv, StoreInv, Homes, StoreTypeOK
        <4>2. k # KeyOf(cur)
          BY <2>2, <3>5
        <4>3. TxOf(unconfirmedTxs[k]) # TxOf(cur) /\ TxOf(unconfirmedTxs[k]) \in Requests
          BY <4>1, <4>2, HashParts DEF KeyOf
        <4>4. tx[TxOf(unconfirmedTxs[k])].State = "Broadcasted"
          BY <1>t, <2>1, <3>5 DEF SerialInv, ConfirmInv, UnconfirmedState, Retrying
        <4> QED
          BY <2>6, <4>3, <4>4 DEF ObjectRetried
      <3>6. UnconfirmedState'
        BY <2>6, <3>5 DEF UnconfirmedState, Retrying, ObjectRetried, maps
      <3> QED
        BY <2>6, <3>1, <3>2, <3>4, <3>6 DEF SerialInv, ConfirmInv
    <2> QED
      BY <2>1, <2>2, <2>4, <2>5, <2>6, HandleResultSerial
  <1>8. CASE UnconfirmedChecked
    <2>1. SnapshotCurrent' /\ (cur \notin todo)'
      BY <1>8, <1>t, HashParts
      DEF UnconfirmedChecked, ControlOK, SnapshotCurrent, Snapshot
    <2> QED
      BY <1>8, <1>q, <2>1 DEF UnconfirmedChecked
  <1>9. CASE CheckReorged
    <2>1. cpc' \in {"finalize", "reorg", "reorged"} /\ cpc = "reorg"
      BY <1>9 DEF CheckReorged
    <2>2. SnapshotCurrent' /\ (cur \notin todo)'
      BY <1>9, <1>t, <2>1
      DEF CheckReorged, SerialInv, ConfirmInv, SnapshotCurrent, Snapshot, InUnconfirmedPass,
          storeVars, maps
    <2> QED
      BY <1>9, <1>q, <2>2 DEF CheckReorged
  <1>10. CASE HandleReorg \/ Finalize
    <2>1. /\ cpc \in {"reorged", "finalize"} /\ cpc' = "solidity" /\ todo' = todo
          /\ cur' = Nil /\ cur \in Hashes /\ UNCHANGED <<btx, enq>>
      BY <1>10, <1>t DEF HandleReorg, Finalize, NextConfirmed, ControlOK
    <2>2. confirmedTxs[KeyOf(cur)] = cur /\ cur # Nil
      BY <1>t, <2>1, HashParts DEF SerialInv, ConfirmInv, SnapshotCurrent, Snapshot, InUnconfirmedPass
    <2>3. ASSUME NEW h \in todo
          PROVE  h \in Hashes /\ KeyOf(h) \in Keys /\ KeyOf(h) # KeyOf(cur)
                 /\ confirmedTxs[KeyOf(h)] = h
      BY <1>t, <2>1, <2>2, HashParts
      DEF SerialInv, ConfirmInv, SnapshotCurrent, Snapshot, InUnconfirmedPass
    <2>4. /\ KeyOf(cur) \in Keys /\ pendingTxs[KeyOf(cur)] = Nil
          /\ unconfirmedTxs[KeyOf(cur)] = Nil /\ finishedTxs[KeyOf(cur)] = Nil
      BY <1>t, <2>1, <2>2, HashParts DEF SerialInv, StoreInv, SingleHome
    <2>5. StoreInv' /\ EntryMoves(cur)
      <3>1. CASE HandleReorg
        <4>1. OnReorg(KeyOf(cur)) /\ TrySend(TxOf(cur))
          BY <2>2, <3>1 DEF HandleReorg
        <4>2. /\ StoreInv'
              /\ confirmedTxs' = Delete(confirmedTxs, KeyOf(cur))
              /\ pendingTxs' = Put(pendingTxs, KeyOf(cur), TxOf(cur))
              /\ UNCHANGED <<unconfirmedTxs, finishedTxs>>
              /\ \A q \in Requests : q # TxOf(cur) => tx'[q] = tx[q]
          BY <1>t, <2>1, <2>2, <4>1, OnReorgConfirmed DEF SerialInv
        <4> QED
          BY <1>t, <2>4, <4>1, <4>2 DEF EntryMoves, Put, Delete, StoreTypeOK, TrySend
      <3>2. CASE Finalize
        <4>1. OnFinalized(KeyOf(cur)) /\ UNCHANGED chan
          BY <3>2 DEF Finalize
        <4>2. /\ StoreInv'
              /\ confirmedTxs' = Delete(confirmedTxs, KeyOf(cur))
              /\ finishedTxs' = Put(finishedTxs, KeyOf(cur), [Hash |-> cur, aged |-> FALSE])
              /\ UNCHANGED <<pendingTxs, unconfirmedTxs>>
              /\ \A q \in Requests : q # TxOf(cur) => tx'[q] = tx[q]
          BY <1>t, <2>1, <2>2, <4>1, OnFinalizedConfirmed DEF SerialInv
        <4> QED
          BY <1>t, <2>4, <4>1, <4>2 DEF EntryMoves, Put, Delete, StoreTypeOK
      <3> QED
        BY <1>10, <3>1, <3>2
    <2>6. SnapshotCurrent' /\ (cur \notin todo)'
      BY <1>t, <2>1, <2>3, <2>5, HashParts
      DEF EntryMoves, SnapshotCurrent, Snapshot, InUnconfirmedPass
    <2>7. SingleBroadcaster' /\ EnqueueOwnsKey'
      BY <2>1, <2>2, <2>5, EntryMovesSafely
    <2>8. UnconfirmedState'
      BY <2>1, <2>2, <2>5, EntryMovesState
    <2> QED
      BY <2>5, <2>6, <2>7, <2>8 DEF SerialInv, ConfirmInv
  <1>11. CASE FinalizedChecked
    <2>1. SnapshotCurrent' /\ (cur \notin todo)'
      BY <1>11, <1>t, HashParts
      DEF FinalizedChecked, ControlOK, SnapshotCurrent, Snapshot
    <2> QED
      BY <1>11, <1>q, <2>1 DEF FinalizedChecked
  <1>12. CASE ConfirmStops
    <2>1. SnapshotCurrent' /\ (cur \notin todo)'
      BY <1>12, <1>t, HashParts DEF ConfirmStops, ControlOK, SnapshotCurrent, Snapshot
    <2> QED
      BY <1>12, <1>q, <2>1 DEF ConfirmStops
  <1>13. CASE Retry
    <2>1. /\ cpc = "retry" /\ cpc' \in {"query", "block"} /\ todo' = todo
          /\ cur' = Nil /\ UNCHANGED <<btx, enq>>
      BY <1>13 DEF Retry, NextUnconfirmed
    <2>2. /\ cur \in Hashes /\ unconfirmedTxs[KeyOf(cur)] = cur
          /\ StoreInv' /\ EntryMoves(cur)
      BY <1>13, RetrySerial
    <2>3. ASSUME NEW h \in todo
          PROVE  h \in Hashes /\ KeyOf(h) \in Keys /\ KeyOf(h) # KeyOf(cur)
                 /\ unconfirmedTxs[KeyOf(h)] = h
      BY <1>t, <2>1, <2>2, HashParts
      DEF SerialInv, ConfirmInv, SnapshotCurrent, Snapshot, InUnconfirmedPass
    <2>4. SnapshotCurrent' /\ (cur \notin todo)'
      BY <1>t, <2>1, <2>2, <2>3, HashParts
      DEF EntryMoves, SnapshotCurrent, Snapshot, InUnconfirmedPass
    <2>5. SingleBroadcaster' /\ EnqueueOwnsKey'
      BY <2>1, <2>2, EntryMovesSafely
    <2>6. UnconfirmedState'
      BY <2>1, <2>2, EntryMovesState
    <2> QED
      BY <2>2, <2>4, <2>5, <2>6 DEF SerialInv, ConfirmInv
  <1> QED
    BY <1>1, <1>2, <1>3, <1>4, <1>5, <1>6, <1>7, <1>8, <1>9, <1>10, <1>11, <1>12,
       <1>13
    DEF confirmLoop

LEMMA InitSerial == Init => SerialInv
  BY HashParts
  DEF Init, NewTxStore, NewTx, SerialInv, StoreInv, SingleHome, Homes,
      HashIndexExact, SingleBroadcaster, EnqueueOwnsKey, Has, ConfirmInv,
      SnapshotCurrent, Snapshot, UnconfirmedState

LEMMA NextSerial == SerialEnqueue /\ Inv /\ [Next]_vars => SerialInv'
  <1> SUFFICES ASSUME SerialEnqueue, Inv, [Next]_vars PROVE SerialInv'
    OBVIOUS
  <1>1. ASSUME UNCHANGED <<storeVars, chan, btx, enq, cVars>>
        PROVE  SerialInv'
    BY <1>1, QuietStep, QuietSnapshot DEF SerialInv
  <1>2. CASE Start \/ Close \/ CloseReturns
    BY <1>1, <1>2 DEF Start, Close, CloseReturns, bVars
  <1>3. CASE Network
    BY <1>1, <1>3 DEF Network, bVars
  <1>4. CASE UNCHANGED vars
    BY <1>1, <1>4 DEF vars, bVars
  <1> QED
    BY <1>2, <1>3, <1>4, EnqueueSerial, BroadcastSerial, ConfirmSerial, ReapSerial DEF Next

\* The inductive invariant holds when calls of Enqueue with one key do not overlap.
LEMMA Invariance == Spec => [](TypeInv /\ (SerialEnqueue => SerialInv))
  <1>1. Init => TypeInv /\ (SerialEnqueue => SerialInv)
    BY InitTypes, InitSerial
  <1>2. TypeInv /\ (SerialEnqueue => SerialInv) /\ [Next]_vars
          => (TypeInv /\ (SerialEnqueue => SerialInv))'
    BY NextTypes, NextSerial DEF Inv
  <1> QED
    BY <1>1, <1>2, PTL DEF Spec

\* A key is in at most one map of the store.
THEOREM StoreConsistent == Spec => [](SerialEnqueue => SingleHome)
  <1>1. TypeInv /\ (SerialEnqueue => SerialInv) => (SerialEnqueue => SingleHome)
    BY DEF SerialInv, StoreInv
  <1> QED
    BY <1>1, Invariance, PTL

\* The state of an object in the store is the one its map stands for, although both
\* are written by five operations and the object is shared with the loops.  Only the
\* object that maybeRetry has changed and not yet moved is ahead of its map.
THEOREM StateConsistent == Spec => [](SerialEnqueue => HomeMatchesState)
  <1>1. TypeInv /\ (SerialEnqueue => SerialInv) => (SerialEnqueue => HomeMatchesState)
    BY DEF SerialInv, StoreInv, Homes, ConfirmInv, UnconfirmedState, HomeMatchesState
  <1> QED
    BY <1>1, Invariance, PTL

\* hashToId neither leaks nor misses a hash.
THEOREM HashIndexCorrect == Spec => [](SerialEnqueue => HashIndexExact)
  <1>1. TypeInv /\ (SerialEnqueue => SerialInv) => (SerialEnqueue => HashIndexExact)
    BY DEF SerialInv, StoreInv
  <1> QED
    BY <1>1, Invariance, PTL

\* BroadcastChan and the broadcast loop hold at most one copy of an object, and
\* only while it is pending: no object is broadcast twice at a time.
THEOREM NoDoubleBroadcast == Spec => [](SerialEnqueue => SingleBroadcaster)
  <1>1. TypeInv /\ (SerialEnqueue => SerialInv) => (SerialEnqueue => SingleBroadcaster)
    BY DEF SerialInv
  <1> QED
    BY <1>1, Invariance, PTL

\* What the confirm loop acts on is still in the map it was read from, although
\* the lock was released in between.
THEOREM SnapshotsStayCurrent == Spec => [](SerialEnqueue => SnapshotCurrent)
  <1>1. TypeInv /\ (SerialEnqueue => SerialInv) => (SerialEnqueue => SnapshotCurrent)
    BY DEF SerialInv, ConfirmInv
  <1> QED
    BY <1>1, Invariance, PTL

\* From its check to its send a call of Enqueue is the only one that has its key.
THEOREM EnqueueIsExclusive == Spec => [](SerialEnqueue => EnqueueOwnsKey)
  <1>1. TypeInv /\ (SerialEnqueue => SerialInv) => (SerialEnqueue => EnqueueOwnsKey)
    BY DEF SerialInv
  <1> QED
    BY <1>1, Invariance, PTL

\* maybeRetry finds the entry it dereferences: Start, Close and the two panics of the
\* broadcast loop are the only steps that change the state of the service.
LEMMA LifeSteps ==
    ASSUME Inv, Next, ~SendPanics, ~PreparePanics
    PROVE  UNCHANGED life \/ Start \/ Close \/ CloseReturns
  <1>1. CASE Retry
    BY <1>1, RetrySerial
  <1>2. CASE Start \/ Close \/ CloseReturns
    BY <1>2
  <1>3. CASE \E r \in Requests : EnqueueRejected(r) \/ Enqueue(r)
    BY <1>3 DEF EnqueueRejected, Enqueue, EnqueueCheck, EnqueueStore, EnqueueSend,
                enqueueFrame
  <1>4. CASE broadcastLoop
    BY <1>4 DEF broadcastLoop, BroadcastReceive, PrepareFails, PrepareTx, SignTx,
                SignFails, SendAccepted, SendBusy, SendRejected, Broadcasted,
                BroadcastStops, BroadcastFailed, BroadcastIdle
  <1>5. CASE confirmLoop /\ ~Retry
    BY <1>5 DEF confirmLoop, ConfirmTick, CollectUnconfirmed, GetNowBlock,
                CollectConfirmed, QueryUnconfirmed, QueryConfirmed, HandleUnconfirmed,
                UnconfirmedChecked, CheckReorged, HandleReorg, Finalize,
                FinalizedChecked, ConfirmStops, NextConfirmed
  <1>6. CASE reapLoop \/ \E k \in Keys : Age(k)
    BY <1>6 DEF reapLoop, ReapScan, ReapDelete, ReapStops, Age, reapFrame
  <1>7. CASE Network
    BY <1>7 DEF Network
  <1> QED
    BY <1>1, <1>2, <1>3, <1>4, <1>5, <1>6, <1>7 DEF Next

\* The only steps that end the process are a broadcast without a response and a block
\* that computeRefBlockBytesAndHash cannot read.
LEMMA OnlyBroadcastPanics ==
    ASSUME Inv, NoPanic, Next, ~SendPanics, ~PreparePanics
    PROVE  NoPanic'
  BY LifeSteps DEF Start, Close, CloseReturns, NoPanic

\* OnPending never dereferences a missing entry: without the two faults that the
\* broadcast loop mishandles (no HTTP response, a malformed block) no goroutine panics.
THEOREM NoNilDereference ==
    Spec => [](SerialEnqueue /\ Faults \cap {"http", "malformed"} = {} => NoPanic)
  <1> DEFINE Mild == SerialEnqueue /\ Faults \cap {"http", "malformed"} = {}
             Safe == Mild => NoPanic
             Good == TypeInv /\ (SerialEnqueue => SerialInv)
  <1>1. Init => Safe
    BY DEF Init, NoPanic
  <1>2. Good /\ Safe /\ [Next]_vars => Safe'
    <2> SUFFICES ASSUME Good, Safe, [Next]_vars, Mild
                 PROVE  NoPanic'
      OBVIOUS
    <2>1. CASE Next
      <3>1. Inv /\ NoPanic
        BY DEF Inv
      <3>2. ~SendPanics /\ ~PreparePanics
        BY DEF SendPanics, PreparePanics, Fault
      <3> QED
        BY <2>1, <3>1, <3>2, OnlyBroadcastPanics
    <2>2. CASE UNCHANGED vars
      BY <2>2 DEF vars, NoPanic
    <2> QED
      BY <2>1, <2>2
  <1>3. Spec => []Good
    BY Invariance
  <1> QED
    BY <1>1, <1>2, <1>3, PTL DEF Spec
=============================================================================
