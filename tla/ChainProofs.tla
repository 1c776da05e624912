----------------------------- MODULE ChainProofs -----------------------------
(***************************************************************************)
(* Proofs about TronTxm and the chain, for any number of requests, keys,   *)
(* attempts and faults, when calls of Enqueue with one key do not overlap. *)
(*                                                                         *)
(* First, verdicts agree with the chain when the node answers what is      *)
(* asked and no block is reorganised (Faithful; with either of these       *)
(* faults the properties do not hold).  The argument: of the transactions  *)
(* of an object at most one can succeed, now or later; the others are      *)
(* gone.  That one is in the hands of the broadcast loop, or the           *)
(* unconfirmed or confirmed entry of its key, or the object is finalized.  *)
(* A step that gives it up has seen it fail, or miss in the chain after it *)
(* had expired.                                                            *)
(*                                                                         *)
(* Then, under every fault: how often an object is built, and who leaves   *)
(* an object pending that nobody is going to broadcast.                    *)
(***************************************************************************)
EXTENDS TronTxmProofs, FiniteSetTheorems

Faithful == Faults \cap {"rpc", "reorg"} = {}

\* h has not succeeded, and cannot unless the broadcast loop sends it.
Gone(h) == \/ chain[h] \in {"none", "built"}
           \/ chain[h] \in Results /\ chain[h] # "success"
           \/ chain[h] = "pool" /\ h \in expired

InBroadcast(h) == bpc \in {"sign", "send", "sent"} /\ bhash = h

Accounted(h) == \/ InBroadcast(h)
                \/ unconfirmedTxs[KeyOf(h)] = h
                \/ confirmedTxs[KeyOf(h)] = h
                \/ tx[TxOf(h)].State = "Finalized"

LiveAccounted == \A h \in Hashes : ~Gone(h) => Accounted(h)

OneLive == \A g, h \in Hashes : TxOf(g) = TxOf(h) /\ ~Gone(g) /\ ~Gone(h) => g = h

VerdictsSucceeded ==
    /\ \A k \in Keys : confirmedTxs[k] # Nil => chain[confirmedTxs[k]] = "success"
    /\ \A r \in Requests : tx[r].State = "Finalized" => Succeeded(r) # {}

\* The broadcast loop has not sent its transaction yet.
Unsent == bpc \in {"sign", "send"} /\ life # "crashed" => chain[bhash] = "built"

\* What the confirm loop has seen is still so.
SeenHolds ==
    /\ late \subseteq expired
    /\ cpc # "reorged"
    /\ cpc = "handle" =>
          /\ seen # "missing" => chain[cur] = seen
          /\ seen = "missing" /\ cur \in late => ~Included(cur)
    /\ cpc = "retry" => Gone(cur)

ChainInv == LiveAccounted /\ OneLive /\ VerdictsSucceeded /\ Unsent /\ SeenHolds

\* The initial states satisfy the invariant.
LEMMA InitChain == Init => ChainInv
<1> SUFFICES ASSUME Init PROVE ChainInv
  OBVIOUS
<1>1. \A h \in Hashes : Gone(h)
  BY DEF Init, NodeInit, Gone
<1>2. \A r \in Requests : tx[r].State = "Pending"
  BY DEF Init, NewTxStore, NewTx
<1>3. VerdictsSucceeded
  BY <1>2 DEF Init, NewTxStore, VerdictsSucceeded
<1> QED
  BY <1>1, <1>3 DEF Init, ChainInv, LiveAccounted, OneLive, Unsent, SeenHolds

\* A step that touches neither the chain nor what accounts for its transactions.
LEMMA UntouchedChain ==
    ASSUME ChainInv, life' # "crashed" => life # "crashed",
           UNCHANGED <<chain, expired, tx, unconfirmedTxs, confirmedTxs, bVars, cVars>>
    PROVE  ChainInv'
  BY DEF ChainInv, LiveAccounted, OneLive, VerdictsSucceeded, Unsent, SeenHolds, Gone,
         Accounted, InBroadcast, Succeeded, Included, bVars, cVars
-----------------------------------------------------------------------------
(* The network *)

LEMMA NetworkChain ==
    ASSUME Inv, ChainInv, Faithful, Network
    PROVE  ChainInv'
<1>f. /\ UNCHANGED <<tx, unconfirmedTxs, confirmedTxs, life, bVars, cVars>>
      /\ NodeNext
  BY DEF Network, storeVars, maps
<1>t. chain \in [Hashes -> {"none", "built", "pool"} \cup Results]
  BY DEF Inv, TypeInv, TypeOK, NodeTypeOK
<1>1. PICK h \in Hashes : \/ \E result \in Outcomes : Include(h, result)
                          \/ Solidify(h) \/ Reorg(h) \/ Expire(h)
  BY <1>f DEF NodeNext
<1>2. ASSUME NEW result \in Outcomes, Include(h, result) PROVE ChainInv'
  <2>1. /\ chain[h] = "pool" /\ h \notin expired /\ result \in Results
        /\ chain' = [chain EXCEPT ![h] = result] /\ UNCHANGED expired
    BY <1>2, NodeAssumption DEF Include, SetChain
  <2>2. \A g \in Hashes : chain'[g] = IF g = h THEN result ELSE chain[g]
    BY <1>t, <2>1
  <2>3. \A g \in Hashes : Gone(g) => Gone(g)'
    BY <2>1, <2>2 DEF Gone, Results
  <2>4. LiveAccounted' /\ OneLive'
    BY <1>f, <2>3
    DEF ChainInv, LiveAccounted, OneLive, Accounted, InBroadcast, bVars
  <2>5. \A g \in Hashes : chain[g] = "success" => chain'[g] = "success"
    BY <2>1, <2>2
  <2>6. VerdictsSucceeded'
    <3>1. ASSUME NEW k \in Keys, confirmedTxs[k] # Nil
          PROVE  chain'[confirmedTxs[k]] = "success"
      <4>1. confirmedTxs[k] \in Hashes
        BY <3>1 DEF Inv, TypeInv, TypeOK, StoreTypeOK
      <4> QED
        BY <3>1, <4>1, <2>5 DEF ChainInv, VerdictsSucceeded
    <3>2. ASSUME NEW r \in Requests, tx[r].State = "Finalized"
          PROVE  Succeeded(r)' # {}
      BY <3>2, <2>5 DEF ChainInv, VerdictsSucceeded, Succeeded
    <3> QED
      BY <1>f, <3>1, <3>2 DEF VerdictsSucceeded
  <2>7. Unsent'
    <3>1. bpc \in {"sign", "send"} => bhash \in Hashes
      BY DEF Inv, TypeInv, ControlOK
    <3> QED
      BY <1>f, <2>1, <2>2, <3>1 DEF ChainInv, Unsent, bVars
  <2>8. SeenHolds'
    <3>1. cpc \in {"handle", "retry"} => cur \in Hashes
      BY DEF Inv, TypeInv, ControlOK
    <3>2. late \subseteq expired
      BY DEF ChainInv, SeenHolds
    <3>3. seen \in Results \cup {"missing"} /\ "pool" \notin Results /\ "missing" \notin Results
      BY DEF Inv, TypeInv, TypeOK, Results
    <3>4. cpc = "retry" => Gone(cur)'
      BY <2>3, <3>1, <1>f DEF ChainInv, SeenHolds, cVars, Gone
    <3> QED
      BY <1>f, <2>1, <2>2, <3>1, <3>2, <3>3, <3>4 DEF ChainInv, SeenHolds, Included, cVars
  <2> QED
    BY <2>4, <2>6, <2>7, <2>8 DEF ChainInv
<1>3. CASE Solidify(h)
  BY <1>3, <1>f, UntouchedChain DEF Solidify
<1>4. CASE Reorg(h)
  BY <1>4 DEF Reorg, Faithful
<1>5. CASE Expire(h)
  <2>1. expired' = expired \cup {h} /\ UNCHANGED chain
    BY <1>5 DEF Expire
  <2>2. \A g \in Hashes : Gone(g) => Gone(g)'
    BY <2>1 DEF Gone
  <2>3. LiveAccounted' /\ OneLive'
    BY <1>f, <2>2
    DEF ChainInv, LiveAccounted, OneLive, Accounted, InBroadcast, bVars
  <2>4. SeenHolds'
    BY <1>f, <2>1 DEF ChainInv, SeenHolds, Included, Gone, cVars
  <2> QED
    BY <1>f, <2>1, <2>3, <2>4
    DEF ChainInv, VerdictsSucceeded, Succeeded, Unsent, bVars
<1> QED
  BY <1>1, <1>2, <1>3, <1>4, <1>5
-----------------------------------------------------------------------------
(* The broadcast loop *)

\* The object of the broadcast loop is pending: no transaction of it is accounted for
\* but the one that the loop works on.
LEMMA BroadcastsOnly ==
    ASSUME Inv, ChainInv, btx \in Requests, NEW g \in Hashes, TxOf(g) = btx, ~Gone(g)
    PROVE  InBroadcast(g)
<1>1. Key[btx] \in Keys /\ pendingTxs[Key[btx]] = btx /\ btx # Nil
  BY HashParts DEF Inv, SerialInv, SingleBroadcaster
<1>2. /\ unconfirmedTxs[Key[btx]] = Nil /\ confirmedTxs[Key[btx]] = Nil
      /\ tx[btx].State = "Pending"
  BY <1>1 DEF Inv, SerialInv, StoreInv, SingleHome, Homes
<1>3. KeyOf(g) = Key[btx] /\ g # Nil
  BY HashParts DEF KeyOf
<1> QED
  BY <1>2, <1>3 DEF ChainInv, LiveAccounted, Accounted

\* The broadcast loop gives up a transaction that it has not sent.
LEMMA GivenUpChain ==
    ASSUME Inv, ChainInv, Looping, bpc \in {"prepare", "sign", "send"},
           UNCHANGED <<storeVars, chain, expired>>, BroadcastIdle
    PROVE  ChainInv'
<1>1. UNCHANGED <<life, cVars, tx, unconfirmedTxs, confirmedTxs>> /\ bpc' = "idle"
  BY DEF BroadcastIdle, broadcastFrame, storeVars, maps
<1>2. \A h \in Hashes : InBroadcast(h) => Gone(h)
  BY DEF InBroadcast, Gone, ChainInv, Unsent, Looping
<1>3. LiveAccounted'
  BY <1>1, <1>2 DEF ChainInv, LiveAccounted, Accounted, InBroadcast, Gone
<1> QED
  BY <1>1, <1>3 DEF ChainInv, OneLive, VerdictsSucceeded, Unsent, SeenHolds, Gone,
                    Succeeded, Included, cVars

\* The transaction of the broadcast loop reaches the pool.
LEMMA PoolChain ==
    ASSUME Inv, ChainInv, Looping, bpc = "send", bpc' = "sent" \/ life' = "crashed",
           bpc' \in {"send", "sent"}, bhash \notin expired,
           chain' = [chain EXCEPT ![bhash] = "pool"],
           UNCHANGED <<expired, storeVars, cVars, bhash>>
    PROVE  ChainInv'
<1>t. chain \in [Hashes -> {"none", "built", "pool"} \cup Results]
  BY DEF Inv, TypeInv, TypeOK, NodeTypeOK
<1>u. UNCHANGED <<tx, unconfirmedTxs, confirmedTxs>>
  BY DEF storeVars, maps
<1>1. /\ bhash \in Hashes /\ TxOf(bhash) = btx /\ btx \in Requests
      /\ chain[bhash] = "built"
  BY DEF Inv, TypeInv, ControlOK, ChainInv, Unsent, Looping
<1>2. \A g \in Hashes : chain'[g] = IF g = bhash THEN "pool" ELSE chain[g]
  BY <1>t, <1>1
<1>3. \A g \in Hashes : g # bhash => (Gone(g)' <=> Gone(g))
  BY <1>2 DEF Gone
<1>4. InBroadcast(bhash)'
  BY DEF InBroadcast
<1>5. LiveAccounted'
  <2> SUFFICES ASSUME NEW g \in Hashes, ~Gone(g)' PROVE Accounted(g)'
    BY DEF LiveAccounted
  <2>1. CASE g = bhash
    BY <2>1, <1>4 DEF Accounted, InBroadcast
  <2>2. CASE g # bhash
    <3>1. Accounted(g) /\ ~InBroadcast(g)
      BY <1>3, <2>2 DEF ChainInv, LiveAccounted, InBroadcast
    <3> QED
      BY <1>u, <3>1 DEF Accounted
  <2> QED
    BY <2>1, <2>2
<1>6. OneLive'
  <2>1. ASSUME NEW g \in Hashes, TxOf(g) = btx, ~Gone(g)' PROVE g = bhash
    BY <1>1, <1>3, <2>1, BroadcastsOnly DEF InBroadcast
  <2> QED
    BY <1>1, <1>3, <2>1 DEF ChainInv, OneLive
<1>7. \A g \in Hashes : chain[g] = "success" => chain'[g] = "success"
  BY <1>1, <1>2
<1>8. VerdictsSucceeded'
  <2>1. ASSUME NEW k \in Keys, confirmedTxs[k] # Nil
        PROVE  chain'[confirmedTxs[k]] = "success"
    <3>1. confirmedTxs[k] \in Hashes
      BY <2>1 DEF Inv, TypeInv, TypeOK, StoreTypeOK
    <3> QED
      BY <2>1, <3>1, <1>7 DEF ChainInv, VerdictsSucceeded
  <2>2. ASSUME NEW r \in Requests, tx[r].State = "Finalized"
        PROVE  Succeeded(r)' # {}
    BY <2>2, <1>7 DEF ChainInv, VerdictsSucceeded, Succeeded
  <2> QED
    BY <1>u, <2>1, <2>2 DEF VerdictsSucceeded
<1>9. Unsent'
  BY DEF Unsent
<1>10. SeenHolds'
  <2>1. cpc \in {"handle", "retry"} => cur \in Hashes
    BY DEF Inv, TypeInv, ControlOK
  <2>2. seen \in Results \cup {"missing"} /\ "built" \notin Results
        /\ "pool" \notin Results
    BY DEF Inv, TypeInv, TypeOK, Results
  <2>3. cpc = "retry" => cur # bhash
    <3> SUFFICES ASSUME cpc = "retry", cur = bhash PROVE FALSE
      OBVIOUS
    <3>1. unconfirmedTxs[KeyOf(bhash)] = bhash /\ bhash # Nil
      BY <1>1, HashParts
      DEF Inv, SerialInv, ConfirmInv, SnapshotCurrent, Snapshot, InUnconfirmedPass
    <3>2. pendingTxs[KeyOf(bhash)] = btx /\ btx # Nil /\ KeyOf(bhash) \in Keys
      BY <1>1, HashParts DEF Inv, SerialInv, SingleBroadcaster, KeyOf
    <3> QED
      BY <3>1, <3>2 DEF Inv, SerialInv, StoreInv, SingleHome
  <2>4. cpc = "retry" => Gone(cur)'
    BY <1>3, <2>1, <2>3 DEF ChainInv, SeenHolds, cVars, Gone
  <2> QED
    BY <1>1, <1>2, <2>1, <2>2, <2>4 DEF ChainInv, SeenHolds, Included, cVars
<1> QED
  BY <1>5, <1>6, <1>8, <1>9, <1>10 DEF ChainInv

\* A step of the broadcast loop up to its send.
LEMMA AdvancesChain ==
    ASSUME ChainInv, UNCHANGED <<chain, expired, storeVars, life, cVars>>,
           \A h \in Hashes : InBroadcast(h) => InBroadcast(h)', Unsent'
    PROVE  ChainInv'
<1>1. UNCHANGED <<tx, unconfirmedTxs, confirmedTxs>>
  BY DEF storeVars, maps
<1>2. LiveAccounted'
  BY <1>1 DEF ChainInv, LiveAccounted, Accounted, Gone
<1> QED
  BY <1>1, <1>2 DEF ChainInv, OneLive, VerdictsSucceeded, SeenHolds, Gone, Succeeded,
                    Included, cVars

LEMMA BroadcastChain ==
    ASSUME Inv, ChainInv, broadcastLoop
    PROVE  ChainInv'
<1> USE DEF broadcastFrame
<1>1. CASE BroadcastReceive
  BY <1>1, AdvancesChain DEF BroadcastReceive, InBroadcast, Unsent, nodeVars
<1>2. CASE PrepareFails
  BY <1>2, GivenUpChain DEF PrepareFails, Fault
<1>3. CASE PrepareTx
  <2>1. PICK h \in Hashes : Build(btx, h) /\ bhash' = h
    BY <1>3 DEF PrepareTx
  <2>2. /\ chain[h] = "none" /\ chain' = [chain EXCEPT ![h] = "built"]
        /\ UNCHANGED <<expired, tx, unconfirmedTxs, confirmedTxs, life, cVars>>
        /\ bpc = "prepare" /\ bpc' = "sign"
    BY <1>3, <2>1 DEF PrepareTx, Build, SetChain, storeVars, maps
  <2>t. chain \in [Hashes -> {"none", "built", "pool"} \cup Results]
    BY DEF Inv, TypeInv, TypeOK, NodeTypeOK
  <2>3. \A g \in Hashes : chain'[g] = IF g = h THEN "built" ELSE chain[g]
    BY <2>2, <2>t
  <2>4. \A g \in Hashes : Gone(g)' <=> Gone(g)
    BY <2>2, <2>3 DEF Gone
  <2>5. LiveAccounted' /\ OneLive'
    BY <2>2, <2>4 DEF ChainInv, LiveAccounted, OneLive, Accounted, InBroadcast
  <2>6. \A g \in Hashes : chain[g] = "success" => chain'[g] = "success"
    BY <2>2, <2>3
  <2>7. VerdictsSucceeded'
    <3>1. ASSUME NEW k \in Keys, confirmedTxs[k] # Nil
          PROVE  chain'[confirmedTxs[k]] = "success"
      <4>1. confirmedTxs[k] \in Hashes
        BY <3>1 DEF Inv, TypeInv, TypeOK, StoreTypeOK
      <4> QED
        BY <3>1, <4>1, <2>6 DEF ChainInv, VerdictsSucceeded
    <3>2. ASSUME NEW r \in Requests, tx[r].State = "Finalized"
          PROVE  Succeeded(r)' # {}
      BY <3>2, <2>6 DEF ChainInv, VerdictsSucceeded, Succeeded
    <3> QED
      BY <2>2, <3>1, <3>2 DEF VerdictsSucceeded
  <2>8. Unsent'
    BY <2>1, <2>3 DEF Unsent
  <2>9. SeenHolds'
    <3>1. cpc \in {"handle", "retry"} => cur \in Hashes
      BY DEF Inv, TypeInv, ControlOK
    <3>2. seen \in Results \cup {"missing"} /\ "none" \notin Results
          /\ "built" \notin Results
      BY DEF Inv, TypeInv, TypeOK, Results
    <3>3. cpc = "retry" => Gone(cur)'
      BY <2>2, <2>4, <3>1 DEF ChainInv, SeenHolds, cVars, Gone
    <3> QED
      BY <2>2, <2>3, <3>1, <3>2, <3>3 DEF ChainInv, SeenHolds, Included, cVars
  <2> QED
    BY <2>5, <2>7, <2>8, <2>9 DEF ChainInv
<1>4. CASE SignTx
  BY <1>4, AdvancesChain DEF SignTx, InBroadcast, ChainInv, Unsent, nodeVars
<1>5. CASE SignFails
  BY <1>5, GivenUpChain, FailedBroadcastIsIgnored
  DEF SignFails, BroadcastFailed, Fault, nodeVars
<1>6. CASE SendAccepted
  BY <1>6, PoolChain DEF SendAccepted, Accept, SetChain
<1>7. CASE SendBusy
  BY <1>7, AdvancesChain DEF SendBusy, Fault, InBroadcast, ChainInv, Unsent, bVars
<1>8. CASE SendRejected
  BY <1>8, GivenUpChain, FailedBroadcastIsIgnored
  DEF SendRejected, BroadcastFailed, Fault, nodeVars
<1>9. CASE SendPanics
  <2>1. CASE UNCHANGED chain
    BY <1>9, <2>1, UntouchedChain DEF SendPanics, storeVars, maps
  <2>2. CASE bhash \notin expired /\ chain' = [chain EXCEPT ![bhash] = "pool"]
    BY <1>9, <2>2, PoolChain DEF SendPanics, bVars
  <2> QED
    BY <1>9, <2>1, <2>2 DEF SendPanics
<1>10. CASE Broadcasted
  <2> DEFINE r == TxOf(bhash)
             k == KeyOf(bhash)
  <2>1. /\ OnBroadcasted(bhash) /\ bpc = "sent" /\ bpc' = "idle"
        /\ UNCHANGED <<chain, expired, life, cVars>>
    BY <1>10 DEF Broadcasted, BroadcastIdle, nodeVars
  <2>2. /\ bhash \in Hashes /\ r = btx /\ r \in Requests /\ k = Key[r] /\ k \in Keys
        /\ StoreTypeOK
    BY <2>1, HashParts DEF Inv, TypeInv, TypeOK, ControlOK, KeyOf
  <2>3. pendingTxs[k] = r /\ r # Nil
    BY <2>2, HashParts DEF Inv, SerialInv, SingleBroadcaster
  <2>4. /\ unconfirmedTxs' = Put(unconfirmedTxs, k, bhash)
        /\ UNCHANGED confirmedTxs
        /\ \A q \in Requests : q # r => tx'[q] = tx[q]
        /\ tx'[r].State = "Broadcasted"
    BY <2>1, <2>2, <2>3, OnBroadcastedPending DEF Inv, SerialInv
  <2>5. unconfirmedTxs[k] = Nil /\ tx[r].State = "Pending"
    BY <2>2, <2>3 DEF Inv, SerialInv, StoreInv, SingleHome, Homes
  <2>6. unconfirmedTxs'[k] = bhash /\ \A i \in Keys : i # k => unconfirmedTxs'[i] = unconfirmedTxs[i]
    BY <2>2, <2>4 DEF Put, StoreTypeOK
  <2>7. LiveAccounted'
    <3> SUFFICES ASSUME NEW g \in Hashes, ~Gone(g)' PROVE Accounted(g)'
      BY DEF LiveAccounted
    <3>1. Accounted(g)
      BY <2>1 DEF ChainInv, LiveAccounted, Gone
    <3>2. KeyOf(g) \in Keys /\ TxOf(g) \in Requests /\ g # Nil
      BY HashParts
    <3> QED
      BY <2>1, <2>2, <2>4, <2>5, <2>6, <3>1, <3>2 DEF Accounted, InBroadcast
  <2>8. VerdictsSucceeded'
    BY <2>1, <2>2, <2>4 DEF ChainInv, VerdictsSucceeded, Succeeded
  <2> QED
    BY <2>1, <2>7, <2>8 DEF ChainInv, OneLive, Unsent, SeenHolds, Gone, Included, cVars
<1>11. CASE BroadcastStops
  BY <1>11, AdvancesChain DEF BroadcastStops, InBroadcast, Unsent, nodeVars
<1>12. CASE PreparePanics
  BY <1>12, UntouchedChain DEF PreparePanics, Fault, storeVars, maps
<1> QED
  BY <1>1, <1>2, <1>3, <1>4, <1>5, <1>6, <1>7, <1>8, <1>9, <1>10, <1>11, <1>12
  DEF broadcastLoop
-----------------------------------------------------------------------------
(* The confirm loop *)

\* A step of the confirm loop that looks but does not touch.
LEMMA PassChain ==
    ASSUME ChainInv, UNCHANGED <<chain, expired, storeVars, bVars, life>>, SeenHolds'
    PROVE  ChainInv'
  BY DEF ChainInv, LiveAccounted, OneLive, VerdictsSucceeded, Unsent, Gone, Accounted,
         InBroadcast, Succeeded, bVars, storeVars, maps

\* The confirm loop moves the entry h to where the chain says it belongs.
LEMMA MoveChain ==
    ASSUME Inv, ChainInv, NEW h \in Hashes, StoreInv', EntryMoves(h),
           unconfirmedTxs[KeyOf(h)] = h \/ confirmedTxs[KeyOf(h)] = h,
           Gone(h) \/ confirmedTxs'[KeyOf(h)] = h \/ tx'[TxOf(h)].State = "Finalized",
           confirmedTxs'[KeyOf(h)] = h \/ tx'[TxOf(h)].State = "Finalized"
               => chain[h] = "success",
           UNCHANGED <<chain, expired, bVars, life>>, SeenHolds'
    PROVE  ChainInv'
<1> DEFINE k == KeyOf(h)
           r == TxOf(h)
<1>0. r \in Requests /\ k = Key[r] /\ k \in Keys /\ h # Nil /\ StoreTypeOK
  BY HashParts DEF KeyOf, Inv, TypeInv, TypeOK
<1>1. tx[r].State # "Finalized" /\ (unconfirmedTxs[k] \in {h, Nil})
      /\ (confirmedTxs[k] \in {h, Nil})
  BY <1>0 DEF Inv, SerialInv, StoreInv, SingleHome, Homes, ConfirmInv, UnconfirmedState
<1>2. /\ \A i \in Keys : i # k => /\ unconfirmedTxs'[i] = unconfirmedTxs[i]
                                 /\ confirmedTxs'[i] = confirmedTxs[i]
      /\ confirmedTxs'[k] \in {Nil, h}
      /\ \A q \in Requests : q # r => tx'[q] = tx[q]
  BY DEF EntryMoves
<1>3. LiveAccounted'
  <2> SUFFICES ASSUME NEW g \in Hashes, ~Gone(g)' PROVE Accounted(g)'
    BY DEF LiveAccounted
  <2>1. Accounted(g) /\ ~Gone(g)
    BY DEF ChainInv, LiveAccounted, Gone
  <2>2. KeyOf(g) \in Keys /\ TxOf(g) \in Requests /\ g # Nil
    BY HashParts
  <2>3. CASE g = h
    BY <2>1, <2>3 DEF Accounted
  <2>4. CASE g # h
    BY <1>0, <1>1, <1>2, <2>1, <2>2, <2>4 DEF Accounted, InBroadcast, bVars
  <2> QED
    BY <2>3, <2>4
<1>4. VerdictsSucceeded'
  <2>1. ASSUME NEW i \in Keys, confirmedTxs'[i] # Nil
        PROVE  chain'[confirmedTxs'[i]] = "success"
    BY <1>0, <1>2, <2>1 DEF ChainInv, VerdictsSucceeded
  <2>2. ASSUME NEW q \in Requests, tx'[q].State = "Finalized"
        PROVE  Succeeded(q)' # {}
    BY <1>0, <1>2, <2>2 DEF ChainInv, VerdictsSucceeded, Succeeded
  <2> QED
    BY <2>1, <2>2 DEF VerdictsSucceeded
<1> QED
  BY <1>3, <1>4 DEF ChainInv, OneLive, Unsent, Gone, bVars

\* An entry is given up only when the chain shows that it is gone, and is confirmed only
\* when it has succeeded.
LEMMA HandleChain ==
    ASSUME Inv, ChainInv, HandleUnconfirmed
    PROVE  ChainInv'
<1>t. /\ chain \in [Hashes -> {"none", "built", "pool"} \cup Results]
      /\ StoreTypeOK /\ seen \in Results \cup {"missing"}
  BY DEF Inv, TypeInv, TypeOK, NodeTypeOK
<1>1. /\ cpc = "handle" /\ late' = late
      /\ cur \in Hashes /\ HandleResult(TxOf(cur))
      /\ UNCHANGED <<chain, expired, bVars, life, chan>>
  BY DEF HandleUnconfirmed, confirmFrame, nodeVars, Inv, TypeInv, ControlOK
<1> DEFINE r == TxOf(cur)
           k == KeyOf(cur)
<1>0. r \in Requests /\ k = Key[r] /\ k \in Keys /\ cur # Nil
  BY <1>1, HashParts DEF KeyOf
<1>2. unconfirmedTxs[k] = cur
  BY <1>0, <1>1 DEF Inv, SerialInv, ConfirmInv, SnapshotCurrent, Snapshot, InUnconfirmedPass
<1>3. NextUnconfirmed => SeenHolds'
  BY <1>1 DEF ChainInv, SeenHolds, NextUnconfirmed
<1>4. \/ UNCHANGED storeVars /\ NextUnconfirmed
      \/ StoreInv' /\ EntryMoves(cur) /\ EntryLands(cur) /\ NextUnconfirmed
      \/ StoreInv' /\ ObjectRetried(cur) /\ cpc' = "retry" /\ UNCHANGED cur
  BY <1>1, <1>2, HandleResultSerial
<1>5. CASE UNCHANGED storeVars /\ NextUnconfirmed
  BY <1>1, <1>3, <1>5, PassChain
<1>g. ASSUME seen # "success", seen = "missing" => cur \in late
      PROVE  Gone(cur)
  <2>1. CASE seen = "missing"
    <3>1. cur \in expired /\ ~Included(cur)
      BY <1>1, <1>g, <2>1 DEF ChainInv, SeenHolds
    <3> QED
      BY <1>1, <1>t, <3>1 DEF Gone, Included
  <2>2. CASE seen # "missing"
    <3>1. chain[cur] = seen /\ seen \in Results
      BY <1>1, <1>t, <2>2 DEF ChainInv, SeenHolds
    <3> QED
      BY <1>g, <3>1 DEF Gone
  <2> QED
    BY <2>1, <2>2
<1>6. CASE EntryMoves(cur) /\ EntryLands(cur) /\ StoreInv' /\ NextUnconfirmed
           /\ ~UNCHANGED storeVars
  <2>1. SeenHolds' /\ cpc' # "retry"
    BY <1>3, <1>6 DEF NextUnconfirmed
  <2>2. (seen = "missing" => cur \in late) /\ "success" # "missing"
    BY <1>1, <1>6 DEF HandleResult
  <2>3. CASE seen = "success"
    <3>1. OnConfirmed(k) /\ tx[r].State = "Broadcasted"
      BY <1>0, <1>1, <1>2, <2>3
      DEF HandleResult, Inv, SerialInv, ConfirmInv, UnconfirmedState, Retrying
    <3>2. confirmedTxs' = Put(confirmedTxs, k, cur) /\ tx'[r].State = "Confirmed"
      BY <1>1, <1>2, <1>t, <3>1, OnConfirmedUnconfirmed DEF Inv, SerialInv
    <3>3. confirmedTxs'[k] = cur
      BY <1>0, <1>t, <3>2 DEF Put, StoreTypeOK
    <3>4. chain[cur] = "success"
      BY <1>1, <2>3 DEF ChainInv, SeenHolds
    <3> QED
      BY <1>1, <1>2, <1>6, <2>1, <3>3, <3>4, MoveChain
  <2>4. CASE seen # "success"
    <3>1. Gone(cur)
      BY <1>g, <2>2, <2>4
    <3>2. confirmedTxs'[k] # cur /\ tx'[r].State # "Finalized"
      <4>1. ASSUME NEW b \in BOOLEAN, NEW o \in BOOLEAN, maybeRetry(r, b, o)
            PROVE  UNCHANGED confirmedTxs
        BY <1>0, <1>2, <2>1, <4>1 DEF maybeRetry, OnErrored, FinishUnconfirmed
      <4>2. ASSUME OnFatalError(k) PROVE UNCHANGED confirmedTxs
        BY <1>0, <1>2, <4>2 DEF OnFatalError, FinishUnconfirmed
      <4>3. UNCHANGED confirmedTxs
        BY <1>0, <1>1, <2>4, <4>1, <4>2 DEF HandleResult, storeVars, maps
      <4>4. confirmedTxs[k] = Nil
        BY <1>0, <1>2 DEF Inv, SerialInv, StoreInv, SingleHome
      <4>5. confirmedTxs'[k] # cur
        BY <1>0, <4>3, <4>4
      <4>6. tx'[r].State # "Finalized"
        BY <1>0, <1>6, <4>5, HashParts DEF EntryLands, StoreInv, Homes
      <4> QED
        BY <4>5, <4>6
    <3> QED
      BY <1>1, <1>2, <1>6, <2>1, <3>1, <3>2, MoveChain
  <2> QED
    BY <2>3, <2>4
<1>7. CASE StoreInv' /\ ObjectRetried(cur) /\ cpc' = "retry" /\ UNCHANGED cur
  <2>1. seen # "success" /\ (seen = "missing" => cur \in late)
    BY <1>1, <1>7 DEF HandleResult, NextUnconfirmed
  <2>2. SeenHolds'
    BY <1>1, <1>7, <1>g, <2>1 DEF ChainInv, SeenHolds, Gone
  <2>3. UNCHANGED <<unconfirmedTxs, confirmedTxs>>
    BY <1>7 DEF ObjectRetried, maps
  <2>4. tx[r].State # "Finalized" /\ tx'[r].State # "Finalized"
    BY <1>0, <1>1, <1>2, <1>7
    DEF Inv, SerialInv, ConfirmInv, UnconfirmedState, Retrying, ObjectRetried
  <2>5. \A q \in Requests : tx'[q].State = "Finalized" <=> tx[q].State = "Finalized"
    BY <1>7, <2>4 DEF ObjectRetried
  <2>6. LiveAccounted'
    BY <1>1, <2>3, <2>5, HashParts
    DEF ChainInv, LiveAccounted, Accounted, InBroadcast, Gone, bVars
  <2>7. VerdictsSucceeded'
    BY <1>1, <2>3, <2>5 DEF ChainInv, VerdictsSucceeded, Succeeded
  <2> QED
    BY <1>1, <2>2, <2>6, <2>7 DEF ChainInv, OneLive, Unsent, Gone, bVars
<1> QED
  BY <1>4, <1>5, <1>6, <1>7

\* A retry moves an entry that is gone.
LEMMA RetryChain ==
    ASSUME Inv, ChainInv, Retry
    PROVE  ChainInv'
<1> DEFINE r == TxOf(cur)
           k == KeyOf(cur)
<1>1. /\ cur \in Hashes /\ unconfirmedTxs[k] = cur /\ tx[r].State = "Pending"
      /\ UNCHANGED <<life, tx, confirmedTxs>> /\ StoreInv' /\ EntryMoves(cur)
  BY RetrySerial
<1>2. /\ cpc = "retry" /\ cpc' \in {"query", "block"} /\ late' = late
      /\ UNCHANGED <<chain, expired, bVars>>
  BY DEF Retry, NextUnconfirmed, confirmFrame, nodeVars
<1>3. k \in Keys /\ cur # Nil
  BY <1>1, HashParts
<1>4. confirmedTxs[k] = Nil
  BY <1>1, <1>3 DEF Inv, SerialInv, StoreInv, SingleHome
<1>5. Gone(cur)
  BY <1>2 DEF ChainInv, SeenHolds
<1>6. SeenHolds'
  BY <1>2 DEF ChainInv, SeenHolds
<1>7. confirmedTxs'[k] # cur /\ tx'[r].State # "Finalized"
  BY <1>1, <1>3, <1>4
<1> QED
  BY <1>1, <1>2, <1>5, <1>6, <1>7, MoveChain

\* An entry is finalized only after it has succeeded.
LEMMA FinalizeChain ==
    ASSUME Inv, ChainInv, Finalize
    PROVE  ChainInv'
<1>1. /\ cpc = "finalize" /\ cpc' = "solidity" /\ cur \in Hashes /\ late' = late
      /\ OnFinalized(KeyOf(cur)) /\ UNCHANGED <<chain, expired, bVars, life, chan>>
  BY DEF Finalize, NextConfirmed, confirmFrame, nodeVars, Inv, TypeInv, ControlOK
<1> DEFINE r == TxOf(cur)
           k == KeyOf(cur)
<1>0. r \in Requests /\ k = Key[r] /\ k \in Keys /\ cur # Nil /\ StoreTypeOK
  BY <1>1, HashParts DEF KeyOf, Inv, TypeInv, TypeOK
<1>2. confirmedTxs[k] = cur
  BY <1>0, <1>1 DEF Inv, SerialInv, ConfirmInv, SnapshotCurrent, Snapshot, InUnconfirmedPass
<1>3. chain[cur] = "success"
  BY <1>0, <1>2 DEF ChainInv, VerdictsSucceeded
<1>4. /\ StoreInv'
      /\ confirmedTxs' = Delete(confirmedTxs, k)
      /\ finishedTxs' = Put(finishedTxs, k, [Hash |-> cur, aged |-> FALSE])
      /\ UNCHANGED <<pendingTxs, unconfirmedTxs>>
      /\ \A q \in Requests : q # r => tx'[q] = tx[q]
      /\ tx'[r].State = "Finalized"
  BY <1>0, <1>1, <1>2, OnFinalizedConfirmed DEF Inv, SerialInv
<1>5. pendingTxs[k] = Nil /\ unconfirmedTxs[k] = Nil
  BY <1>0, <1>2 DEF Inv, SerialInv, StoreInv, SingleHome
<1>6. EntryMoves(cur)
  BY <1>0, <1>1, <1>4, <1>5 DEF EntryMoves, Put, Delete, StoreTypeOK
<1>7. SeenHolds'
  BY <1>1 DEF ChainInv, SeenHolds
<1> QED
  BY <1>1, <1>2, <1>3, <1>4, <1>6, <1>7, MoveChain

LEMMA ConfirmChain ==
    ASSUME Inv, ChainInv, Faithful, confirmLoop
    PROVE  ChainInv'
<1> USE DEF confirmFrame
<1>f. ~Fault("rpc")
  BY DEF Fault, Faithful
<1>s. late \subseteq expired /\ cpc # "reorged"
  BY DEF ChainInv, SeenHolds
<1>1. CASE ConfirmTick
  BY <1>1, <1>s, PassChain DEF ConfirmTick, SeenHolds, nodeVars
<1>2. ASSUME NEW a \in Accounts, CollectUnconfirmed(a) PROVE ChainInv'
  BY <1>2, <1>s, PassChain DEF CollectUnconfirmed, SeenHolds, nodeVars
<1>3. ASSUME NEW a \in Accounts, GetNowBlock(a) PROVE ChainInv'
  BY <1>3, <1>f, PassChain DEF GetNowBlock, SeenHolds, nodeVars
<1>4. ASSUME NEW a \in Accounts, CollectConfirmed(a) PROVE ChainInv'
  BY <1>4, <1>s, PassChain DEF CollectConfirmed, SeenHolds, nodeVars
<1>5. ASSUME NEW h \in Hashes, QueryUnconfirmed(h) PROVE ChainInv'
  <2>1. /\ cur' = h /\ cpc' = "handle" /\ seen' = InfoFullNode(h)
        /\ UNCHANGED <<chain, expired, late>>
    BY <1>5, <1>f DEF QueryUnconfirmed, nodeVars
  <2>2. "missing" \notin Results
    BY DEF Results
  <2>3. SeenHolds'
    BY <1>s, <2>1, <2>2 DEF SeenHolds, InfoFullNode, Included
  <2> QED
    BY <1>5, <2>1, <2>3, PassChain DEF QueryUnconfirmed
<1>6. ASSUME NEW h \in Hashes, QueryConfirmed(h) PROVE ChainInv'
  BY <1>6, <1>f, <1>s, PassChain DEF QueryConfirmed, SeenHolds, nodeVars
<1>7. CASE HandleUnconfirmed
  BY <1>7, HandleChain
<1>8. CASE UnconfirmedChecked
  BY <1>8, PassChain DEF UnconfirmedChecked, SeenHolds, nodeVars
<1>9. CASE CheckReorged
  <2>1. cpc = "reorg" /\ cur \in Hashes /\ cur # Nil /\ KeyOf(cur) \in Keys
    BY <1>9, HashParts DEF CheckReorged, Inv, TypeInv, ControlOK
  <2>2. confirmedTxs[KeyOf(cur)] = cur
    BY <2>1 DEF Inv, SerialInv, ConfirmInv, SnapshotCurrent, Snapshot, InUnconfirmedPass
  <2>3. Included(cur)
    BY <2>1, <2>2 DEF ChainInv, VerdictsSucceeded, Included, Results
  <2>4. cpc' = "finalize" /\ UNCHANGED <<nodeVars, storeVars, life, bVars, late>>
    BY <1>9, <1>f, <2>3 DEF CheckReorged
  <2> QED
    BY <1>s, <2>4, PassChain DEF SeenHolds, nodeVars
<1>10. CASE HandleReorg
  BY <1>10, <1>s DEF HandleReorg
<1>11. CASE Finalize
  BY <1>11, FinalizeChain
<1>12. CASE FinalizedChecked
  BY <1>12, <1>s, PassChain DEF FinalizedChecked, SeenHolds, nodeVars
<1>13. CASE ConfirmStops
  BY <1>13, <1>s, PassChain DEF ConfirmStops, SeenHolds, nodeVars
<1>14. CASE Retry
  BY <1>14, RetryChain
<1> QED
  BY <1>1, <1>2, <1>3, <1>4, <1>5, <1>6, <1>7, <1>8, <1>9, <1>10, <1>11, <1>12, <1>13,
     <1>14
  DEF confirmLoop
-----------------------------------------------------------------------------
(* The verdicts *)

LEMMA NextChain == Inv /\ ChainInv /\ Faithful /\ [Next]_vars => ChainInv'
<1> SUFFICES ASSUME Inv, ChainInv, Faithful, [Next]_vars PROVE ChainInv'
  OBVIOUS
<1>1. CASE UNCHANGED vars
  BY <1>1, UntouchedChain DEF vars, nodeVars, storeVars, maps
<1>2. CASE Start \/ Close \/ CloseReturns
  BY <1>2, UntouchedChain DEF Start, Close, CloseReturns, nodeVars, storeVars, maps
<1>3. ASSUME NEW r \in Requests, EnqueueRejected(r) \/ Enqueue(r) PROVE ChainInv'
  <2>1. CASE EnqueueStore(r)
    <3>1. /\ OnPending(r, FALSE) /\ UNCHANGED <<tx, enqueueFrame>>
      BY <2>1 DEF EnqueueStore
    <3>2. UNCHANGED <<unconfirmedTxs, confirmedTxs>>
      BY <3>1 DEF OnPending
    <3> QED
      BY <3>1, <3>2, UntouchedChain DEF enqueueFrame, nodeVars
  <2>2. CASE EnqueueRejected(r) \/ EnqueueCheck(r) \/ EnqueueSend(r)
    BY <2>2, UntouchedChain
    DEF EnqueueRejected, EnqueueCheck, EnqueueSend, enqueueFrame, nodeVars, storeVars, maps
  <2> QED
    BY <1>3, <2>1, <2>2 DEF Enqueue
<1>4. CASE reapLoop \/ \E k \in Keys : Age(k)
  BY <1>4, UntouchedChain
  DEF reapLoop, ReapScan, ReapDelete, ReapStops, Age, DeleteFinishedTxs, reapFrame,
      nodeVars, storeVars, maps
<1> QED
  BY <1>1, <1>2, <1>3, <1>4, BroadcastChain, ConfirmChain, NetworkChain DEF Next

\* The transactions are accounted for under the two assumptions.
LEMMA ChainInvariance ==
    Spec => [](SerialEnqueue /\ Faithful => Inv /\ ChainInv)
<1> DEFINE Good == TypeInv /\ (SerialEnqueue => SerialInv)
           Safe == SerialEnqueue /\ Faithful => ChainInv
<1>1. Init => Safe
  BY InitChain
<1>2. Good /\ Safe /\ [Next]_vars => Safe'
  <2> SUFFICES ASSUME Good, Safe, [Next]_vars, SerialEnqueue, Faithful PROVE ChainInv'
    BY DEF Faithful
  <2> QED
    BY NextChain DEF Inv
<1>3. Good /\ Safe => (SerialEnqueue /\ Faithful => Inv /\ ChainInv)
  BY DEF Inv
<1>4. Spec => []Good
  BY Invariance
<1> QED
  BY <1>1, <1>2, <1>3, <1>4, PTL DEF Spec

\* However often an object is rebuilt, and whatever the broadcasts return, at most one of
\* its transactions succeeds, when the node answers and no block is reorganised.
THEOREM SucceedsOnce == Spec => [](SerialEnqueue /\ Faithful => AtMostOneSuccess)
<1>1. Inv /\ ChainInv => AtMostOneSuccess
  <2> SUFFICES ASSUME ChainInv, NEW r \in Requests
               PROVE  Cardinality(Succeeded(r)) <= 1
    BY DEF AtMostOneSuccess
  <2>1. \A g, h \in Succeeded(r) : g = h
    BY DEF ChainInv, OneLive, Succeeded, Gone, Results
  <2>2. CASE Succeeded(r) = {}
    BY <2>2, FS_EmptySet
  <2>3. CASE Succeeded(r) # {}
    <3>1. PICK h : Succeeded(r) = {h}
      BY <2>1, <2>3
    <3> QED
      BY <3>1, FS_Singleton
  <2> QED
    BY <2>2, <2>3
<1> QED
  BY <1>1, ChainInvariance, PTL

\* A verdict agrees with the chain and stays so: nothing of a failed object can still be
\* included, and a finalized one has succeeded.
THEOREM VerdictsAreTrue == Spec => [](SerialEnqueue /\ Faithful => VerdictMatchesChain)
<1>1. Inv /\ ChainInv => VerdictMatchesChain
  <2> SUFFICES ASSUME Inv, ChainInv, NEW r \in Requests, Finished(r)
               PROVE  /\ (tx[r].State = "Finalized") <=> (Succeeded(r) # {})
                      /\ \A h \in Hashes : TxOf(h) = r /\ chain[h] = "pool" => h \in expired
    BY DEF VerdictMatchesChain
  <2>1. ASSUME NEW h \in Hashes, TxOf(h) = r, ~Gone(h)
        PROVE  tx[r].State = "Finalized"
    <3>1. Accounted(h)
      BY <2>1 DEF ChainInv, LiveAccounted
    <3>2. KeyOf(h) = Key[r] /\ Key[r] \in Keys /\ h # Nil /\ r # Nil
      BY <2>1, HashParts DEF KeyOf
    <3>3. ~InBroadcast(h)
      <4>1. SUFFICES ASSUME InBroadcast(h) PROVE FALSE
        OBVIOUS
      <4>2. btx = r
        BY <2>1, <4>1 DEF InBroadcast, Inv, TypeInv, ControlOK
      <4>3. pendingTxs[Key[r]] = r
        BY <3>2, <4>2 DEF Inv, SerialInv, SingleBroadcaster
      <4>4. tx[r].State = "Pending"
        BY <3>2, <4>3 DEF Inv, SerialInv, StoreInv, Homes
      <4> QED
        BY <4>4 DEF Finished
    <3>4. unconfirmedTxs[Key[r]] # h /\ confirmedTxs[Key[r]] # h
      BY <2>1, <3>2
      DEF Inv, SerialInv, StoreInv, Homes, ConfirmInv, UnconfirmedState, Finished
    <3> QED
      BY <2>1, <3>1, <3>2, <3>3, <3>4 DEF Accounted
  <2>2. tx[r].State = "Finalized" => Succeeded(r) # {}
    BY DEF ChainInv, VerdictsSucceeded
  <2>3. \A h \in Hashes : chain[h] = "success" => ~Gone(h)
    BY DEF Gone, Results
  <2>4. Succeeded(r) # {} => tx[r].State = "Finalized"
    BY <2>1, <2>3 DEF Succeeded
  <2>5. ASSUME NEW h \in Hashes, TxOf(h) = r, chain[h] = "pool", h \notin expired
        PROVE  FALSE
    <3>1. ~Gone(h)
      BY <2>5 DEF Gone, Results
    <3>2. PICK g \in Hashes : TxOf(g) = r /\ chain[g] = "success"
      BY <2>1, <2>2, <2>5, <3>1 DEF Succeeded
    <3>3. g = h
      BY <2>3, <2>5, <3>1, <3>2 DEF ChainInv, OneLive
    <3> QED
      BY <2>5, <3>2, <3>3
  <2> QED
    BY <2>2, <2>4, <2>5
<1> QED
  BY <1>1, ChainInvariance, PTL
-----------------------------------------------------------------------------
(* Builds.  Neither Faithful nor a running process is assumed from here on. *)

\* The transaction is being broadcast, or is the entry of its key.
Live(h) == \/ InBroadcast(h)
           \/ unconfirmedTxs[KeyOf(h)] = h
           \/ confirmedTxs[KeyOf(h)] = h

\* The transaction is given up, and checkReorged had reason to do so.
Lost(h) == Doubted(h) /\ ~Live(h)

Spent(r) == {h \in Hashes : TxOf(h) = r /\ Lost(h)}

\* One more transaction of the object may be built before its next attempt.
Due(r) ==
    \/ enq[r] \in {"new", "checked", "stored"}
    \/ \E i \in 1..Len(chan) : chan[i] = r
    \/ bpc = "prepare" /\ btx = r
    \/ cpc = "retry" /\ TxOf(cur) = r

BuildsCovered ==
    \A r \in Requests : Builds(r) + (IF Due(r) THEN 1 ELSE 0)
                          <= tx[r].Attempt + Cardinality(Spent(r))

RetriesLimited ==
    \A r \in Requests : /\ tx[r].Attempt <= MAX_RETRY_ATTEMPTS
                        /\ tx[r].OutOfTimeErrors <= 2

BuildInv == BuildsCovered /\ RetriesLimited

\* The transaction is on the chain, or was.
OnChain(h) == Included(h) \/ h \in reorged

\* Only what was built is doubted or broadcast, only what was on the chain is confirmed,
\* and checkReorged gives up only what was removed from it or what it missed every time.
DoubtsFounded ==
    /\ \A h \in Hashes : h \in reorged \/ misses[h] > 0 => chain[h] # "none"
    /\ bpc \in {"sign", "send", "sent"} => chain[bhash] # "none"
    /\ \A k \in Keys : confirmedTxs[k] # Nil => OnChain(confirmedTxs[k])
    /\ cpc = "handle" /\ seen # "missing" => OnChain(cur)
    /\ cpc = "reorg" => cur \in reorged \/ misses[cur] >= tries
    /\ cpc # "reorg" => tries = 0
    /\ cpc = "reorged" => Doubted(cur)

\* An object has finitely many transactions.
LEMMA BuiltFinite ==
    ASSUME NEW r \in Requests, NEW S, \A h \in S : h \in Hashes /\ TxOf(h) = r
    PROVE  IsFiniteSet(S) /\ Cardinality(S) \in Nat
<1>0. MaxBuilds \in Int /\ 1 \in Int
  BY IdsAssumption
<1>1. IsFiniteSet(1..MaxBuilds)
  BY <1>0, FS_Interval
<1>2. IsFiniteSet({r} \X (1..MaxBuilds))
  BY <1>1, FS_Singleton, FS_Product
<1>3. S \subseteq {r} \X (1..MaxBuilds)
  <2> SUFFICES ASSUME NEW h \in S PROVE h \in {r} \X (1..MaxBuilds)
    OBVIOUS
  <2>1. h \in Requests \X (1..MaxBuilds) /\ h[1] = r
    BY DEF Hashes, TxOf
  <2> QED
    BY <2>1
<1> QED
  BY <1>2, <1>3, FS_Subset, FS_CardinalityType

LEMMA BuildsType ==
    ASSUME NEW r \in Requests
    PROVE  /\ Builds(r) \in Nat /\ Builds(r)' \in Nat
           /\ IsFiniteSet(Spent(r)) /\ Cardinality(Spent(r)) \in Nat
           /\ IsFiniteSet(Spent(r)') /\ Cardinality(Spent(r)') \in Nat
<1>1. Cardinality({h \in Hashes : TxOf(h) = r /\ chain[h] # "none"}) \in Nat
  BY BuiltFinite
<1>2. Cardinality({h \in Hashes : TxOf(h) = r /\ chain'[h] # "none"}) \in Nat
  BY BuiltFinite
<1>3. \A h \in Spent(r) : h \in Hashes /\ TxOf(h) = r
  BY DEF Spent
<1>4. \A h \in Spent(r)' : h \in Hashes /\ TxOf(h) = r
  BY DEF Spent
<1>5. IsFiniteSet(Spent(r)) /\ Cardinality(Spent(r)) \in Nat
  BY <1>3, BuiltFinite
<1>6. IsFiniteSet(Spent(r)') /\ Cardinality(Spent(r)') \in Nat
  BY <1>4, BuiltFinite
<1> QED
  BY <1>1, <1>2, <1>5, <1>6 DEF Builds

\* The initial states satisfy the invariants.
LEMMA InitBuilds == Init => BuildInv /\ DoubtsFounded
<1> SUFFICES ASSUME Init PROVE BuildInv /\ DoubtsFounded
  OBVIOUS
<1>1. \A r \in Requests : tx[r].Attempt = 1 /\ tx[r].OutOfTimeErrors = 0
  BY DEF Init, NewTxStore, NewTx
<1>2. ASSUME NEW r \in Requests PROVE Builds(r) = 0
  <2>1. {h \in Hashes : TxOf(h) = r /\ chain[h] # "none"} = {}
    BY DEF Init, NodeInit
  <2> QED
    BY <2>1, FS_EmptySet DEF Builds
<1>3. BuildsCovered
  <2> SUFFICES ASSUME NEW r \in Requests
               PROVE  Builds(r) + (IF Due(r) THEN 1 ELSE 0)
                        <= tx[r].Attempt + Cardinality(Spent(r))
    BY DEF BuildsCovered
  <2>1. (IF Due(r) THEN 1 ELSE 0) \in {0, 1}
    OBVIOUS
  <2>2. Builds(r) = 0 /\ tx[r].Attempt = 1
    BY <1>1, <1>2
  <2>3. Cardinality(Spent(r)) \in Nat
    BY BuildsType
  <2> HIDE DEF Spent
  <2> QED
    BY <2>1, <2>2, <2>3
<1>4. RetriesLimited
  <2>1. 1 <= MAX_RETRY_ATTEMPTS
    BY TxmAssumption
  <2>2. ASSUME NEW r \in Requests
        PROVE  tx[r].Attempt <= MAX_RETRY_ATTEMPTS /\ tx[r].OutOfTimeErrors <= 2
    BY <1>1, <2>1
  <2> QED
    BY <2>2 DEF RetriesLimited
<1>5. DoubtsFounded
  BY DEF Init, NewTxStore, NodeInit, DoubtsFounded
<1> QED
  BY <1>3, <1>4, <1>5 DEF BuildInv

\* A step that builds nothing: what becomes due is paid for by an attempt or by a
\* transaction that is lost in the step.
LEMMA NothingBuilt ==
    ASSUME TypeInv, TypeInv', BuildInv, RetriesLimited',
           \A h \in Hashes : /\ chain'[h] = "none" <=> chain[h] = "none"
                             /\ Lost(h) => Lost(h)',
           \A r \in Requests :
               /\ tx'[r].Attempt >= tx[r].Attempt
               /\ Due(r)' => \/ Due(r)
                             \/ tx'[r].Attempt > tx[r].Attempt
                             \/ \E h \in Hashes : TxOf(h) = r /\ Lost(h)' /\ ~Lost(h)
    PROVE  BuildInv'
<1> SUFFICES ASSUME NEW r \in Requests
             PROVE  Builds(r)' + (IF Due(r)' THEN 1 ELSE 0)
                      <= tx'[r].Attempt + Cardinality(Spent(r)')
  BY DEF BuildInv, BuildsCovered
<1>1. Builds(r)' = Builds(r)
  <2>1. {h \in Hashes : TxOf(h) = r /\ chain'[h] # "none"}
          = {h \in Hashes : TxOf(h) = r /\ chain[h] # "none"}
    OBVIOUS
  <2> QED
    BY <2>1 DEF Builds
<1>2. PICK b \in Nat, c \in Nat, d \in Nat :
        b = Builds(r) /\ c = Cardinality(Spent(r)) /\ d = Cardinality(Spent(r)')
  BY BuildsType
<1>3. PICK a \in Nat, e \in Nat : a = tx[r].Attempt /\ e = tx'[r].Attempt
  BY DEF TypeInv, TypeOK, StoreTypeOK, TronTx
<1>4. b + (IF Due(r) THEN 1 ELSE 0) <= a + c
  BY <1>2, <1>3 DEF BuildInv, BuildsCovered
<1>5. Spent(r) \subseteq Spent(r)'
  BY DEF Spent
<1>6. c <= d
  <2>1. IsFiniteSet(Spent(r)')
    BY BuildsType
  <2> QED
    BY <1>2, <1>5, <2>1, FS_Subset
<1>7. ASSUME NEW h \in Hashes, TxOf(h) = r, Lost(h)', ~Lost(h) PROVE c < d
  <2>1. h \in Spent(r)' /\ h \notin Spent(r)
    BY <1>7 DEF Spent
  <2>2. IsFiniteSet(Spent(r)') /\ IsFiniteSet(Spent(r))
    BY BuildsType
  <2>3. Cardinality(Spent(r) \cup {h}) = c + 1 /\ IsFiniteSet(Spent(r) \cup {h})
    BY <1>2, <2>1, <2>2, FS_AddElement
  <2>4. Spent(r) \cup {h} \subseteq Spent(r)'
    BY <1>5, <2>1
  <2>5. Cardinality(Spent(r) \cup {h}) <= Cardinality(Spent(r)')
    BY <2>2, <2>4, FS_Subset
  <2> QED
    BY <1>2, <2>3, <2>5
<1>8. e >= a
  BY <1>3
<1>9. Due(r)' => Due(r) \/ e > a \/ c < d
  BY <1>3, <1>7
<1> HIDE DEF Due
<1>10. b + (IF Due(r)' THEN 1 ELSE 0) <= e + d
  BY <1>4, <1>6, <1>8, <1>9
<1> QED
  BY <1>1, <1>2, <1>3, <1>10

\* A step of the same kind that leaves the attempts alone.
LEMMA AttemptsKept ==
    ASSUME TypeInv, TypeInv', BuildInv,
           \A h \in Hashes : /\ chain'[h] = "none" <=> chain[h] = "none"
                             /\ Lost(h) => Lost(h)',
           \A r \in Requests :
               /\ tx'[r].Attempt = tx[r].Attempt
               /\ tx'[r].OutOfTimeErrors = tx[r].OutOfTimeErrors
               /\ Due(r)' => \/ Due(r)
                             \/ \E h \in Hashes : TxOf(h) = r /\ Lost(h)' /\ ~Lost(h)
    PROVE  BuildInv'
<1>1. \A r \in Requests : tx[r].Attempt \in Nat
  BY DEF TypeInv, TypeOK, StoreTypeOK, TronTx
<1>2. RetriesLimited'
  BY DEF BuildInv, RetriesLimited
<1>3. \A r \in Requests : tx'[r].Attempt >= tx[r].Attempt
  BY <1>1
<1> HIDE DEF Due, Lost
<1> QED
  BY <1>2, <1>3, NothingBuilt

\* What the history remembers stays doubted, and stays lost where no transaction is
\* taken up again.
LEMMA LostStays ==
    ASSUME TypeInv, TypeInv', reorged \subseteq reorged',
           \A h \in Hashes : misses'[h] >= misses[h],
           \A h \in Hashes : Live(h)' /\ Doubted(h) => Live(h)
    PROVE  \A h \in Hashes : Lost(h) => Lost(h)'
<1> SUFFICES ASSUME NEW h \in Hashes, Lost(h) PROVE Lost(h)'
  OBVIOUS
<1>1. misses[h] \in Nat /\ misses'[h] \in Nat /\ REORG_RETRY_COUNT \in Nat
  BY TxmAssumption DEF TypeInv, TypeOK
<1>2. Doubted(h)'
  BY <1>1 DEF Lost, Doubted
<1> QED
  BY <1>2 DEF Lost

\* SetState changes no counter.
LEMMA SetStateCounts ==
    ASSUME StoreTypeOK, NEW r \in Requests, NEW s, SetState(r, s)
    PROVE  \A q \in Requests : /\ tx'[q].Attempt = tx[q].Attempt
                               /\ tx'[q].OutOfTimeErrors = tx[q].OutOfTimeErrors
<1> SUFFICES ASSUME NEW q \in Requests
             PROVE  /\ tx'[q].Attempt = tx[q].Attempt
                    /\ tx'[q].OutOfTimeErrors = tx[q].OutOfTimeErrors
  OBVIOUS
<1>1. tx[q] \in TronTx
  BY DEF StoreTypeOK
<1>2. tx'[q] = IF q = r THEN [tx[q] EXCEPT !.State = s] ELSE tx[q]
  BY DEF SetState, StoreTypeOK
<1> QED
  BY <1>1, <1>2 DEF TronTx

\* The confirm loop works on entries that are not pending, so never on the object that
\* the broadcast loop holds.
LEMMA LoopsApart ==
    ASSUME Inv, btx \in Requests
    PROVE  /\ \A k \in Keys : confirmedTxs[k] # Nil => TxOf(confirmedTxs[k]) # btx
           /\ \A k \in Keys : unconfirmedTxs[k] # Nil => TxOf(unconfirmedTxs[k]) # btx
           /\ cur \in Hashes => TxOf(cur) # btx
<1>1. pendingTxs[Key[btx]] = btx /\ btx # Nil /\ Key[btx] \in Keys /\ StoreTypeOK
  BY HashParts DEF Inv, SerialInv, SingleBroadcaster, TypeInv, TypeOK
<1>2. unconfirmedTxs[Key[btx]] = Nil /\ confirmedTxs[Key[btx]] = Nil
  BY <1>1 DEF Inv, SerialInv, StoreInv, SingleHome
<1>3. \A k \in Keys : confirmedTxs[k] # Nil => TxOf(confirmedTxs[k]) # btx
  BY <1>2 DEF Inv, SerialInv, StoreInv, Homes, KeyOf
<1>4. \A k \in Keys : unconfirmedTxs[k] # Nil => TxOf(unconfirmedTxs[k]) # btx
  BY <1>2 DEF Inv, SerialInv, StoreInv, Homes, KeyOf
<1>5. ASSUME cur \in Hashes PROVE TxOf(cur) # btx
  <2>1. unconfirmedTxs[KeyOf(cur)] = cur \/ confirmedTxs[KeyOf(cur)] = cur
    BY <1>5, HashParts DEF Inv, SerialInv, ConfirmInv, SnapshotCurrent, Snapshot
  <2> QED
    BY <1>3, <1>4, <1>5, <2>1, HashParts
<1> QED
  BY <1>3, <1>4, <1>5

\* A step of the confirm loop that looks but does not touch.
LEMMA PassBuilds ==
    ASSUME TypeInv, TypeInv', BuildInv, cpc' # "retry",
           UNCHANGED <<chain, reorged, storeVars, enq, chan, bVars>>,
           \A h \in Hashes : misses'[h] >= misses[h]
    PROVE  BuildInv'
<1>1. UNCHANGED <<tx, unconfirmedTxs, confirmedTxs, bpc, btx, bhash>>
  BY DEF storeVars, maps, bVars
<1>2. \A h \in Hashes : Lost(h) => Lost(h)'
  <2>1. \A h \in Hashes : Live(h)' => Live(h)
    BY <1>1 DEF Live, InBroadcast
  <2> QED
    BY <2>1, LostStays
<1>3. ASSUME NEW r \in Requests, Due(r)' PROVE Due(r)
  BY <1>1, <1>3 DEF Due
<1> HIDE DEF Due, Lost
<1> QED
  BY <1>1, <1>2, <1>3, AttemptsKept

\* The network builds nothing, and a reorganisation only adds to the doubted.
LEMMA NetworkBuilds ==
    ASSUME TypeInv, TypeInv', BuildInv, Network
    PROVE  BuildInv'
<1>f. /\ UNCHANGED <<tx, unconfirmedTxs, confirmedTxs, enq, chan, bpc, btx, bhash, misses, cpc, cur>>
      /\ NodeNext
  BY DEF Network, storeVars, maps, bVars, cVars
<1>t. /\ chain \in [Hashes -> {"none", "built", "pool"} \cup Results]
      /\ misses \in [Hashes -> Nat]
      /\ {"none", "built", "pool"} \cap Results = {}
  BY NodeAssumption DEF TypeInv, TypeOK, NodeTypeOK, Results
<1>1. PICK h \in Hashes : \/ \E result \in Outcomes : Include(h, result)
                          \/ Solidify(h) \/ Reorg(h) \/ Expire(h)
  BY <1>f DEF NodeNext
<1>2. /\ reorged \subseteq reorged'
      /\ \A g \in Hashes : chain'[g] = "none" <=> chain[g] = "none"
  BY <1>1, <1>t, NodeAssumption DEF Include, Solidify, Reorg, Expire, SetChain, Included
<1>3. \A g \in Hashes : Lost(g) => Lost(g)'
  <2>1. \A g \in Hashes : Live(g)' => Live(g)
    BY <1>f DEF Live, InBroadcast
  <2>2. \A g \in Hashes : misses'[g] >= misses[g]
    BY <1>f, <1>t
  <2> QED
    BY <1>2, <2>1, <2>2, LostStays
<1>4. ASSUME NEW r \in Requests, Due(r)' PROVE Due(r)
  BY <1>f, <1>4 DEF Due
<1> HIDE DEF Due, Lost
<1> QED
  BY <1>f, <1>2, <1>3, <1>4, AttemptsKept

\* A call of Enqueue owes its one transaction from the start.
LEMMA EnqueueBuilds ==
    ASSUME TypeInv, TypeInv', BuildInv, NEW r \in Requests, EnqueueRejected(r) \/ Enqueue(r)
    PROVE  BuildInv'
<1>t. /\ enq \in [Requests -> {"new", "rejected", "ignored", "checked", "stored",
                               "accepted", "failed"}]
      /\ chan \in Seq(Requests) /\ misses \in [Hashes -> Nat]
  BY DEF TypeInv, TypeOK
<1>1. UNCHANGED <<tx, chain, reorged, misses, unconfirmedTxs, confirmedTxs, bpc, btx, bhash, cpc, cur>>
  BY DEF EnqueueRejected, Enqueue, EnqueueCheck, EnqueueStore, EnqueueSend, OnPending,
         enqueueFrame, nodeVars, bVars, cVars, storeVars, maps
<1>2. /\ \A q \in Requests : q # r => enq'[q] = enq[q]
      /\ enq[r] \in {"new", "checked", "stored"}
  BY <1>t DEF EnqueueRejected, Enqueue, EnqueueCheck, EnqueueStore, EnqueueSend
<1>3. \A i \in 1..Len(chan') : chan'[i] = r \/ \E j \in 1..Len(chan) : chan'[i] = chan[j]
  <2>1. UNCHANGED chan \/ TrySend(r)
    BY DEF EnqueueRejected, Enqueue, EnqueueCheck, EnqueueStore, EnqueueSend
  <2> QED
    BY <1>t, <2>1 DEF TrySend
<1>4. ASSUME NEW q \in Requests, Due(q)' PROVE Due(q)
  <2>1. CASE q = r
    BY <1>2, <2>1 DEF Due
  <2>2. CASE q # r
    BY <1>1, <1>2, <1>3, <1>4, <2>2 DEF Due
  <2> QED
    BY <2>1, <2>2
<1>5. \A g \in Hashes : Lost(g) => Lost(g)'
  <2>1. \A g \in Hashes : Live(g)' => Live(g)
    BY <1>1 DEF Live, InBroadcast
  <2>2. \A g \in Hashes : misses'[g] >= misses[g]
    BY <1>1, <1>t
  <2> QED
    BY <1>1, <2>1, <2>2, LostStays
<1> HIDE DEF Due, Lost
<1> QED
  BY <1>1, <1>4, <1>5, AttemptsKept

\* The transaction that the broadcast loop builds was due and nothing else is: the object
\* is neither queued again nor does the confirm loop hold an entry of it.
LEMMA PrepareBuilds ==
    ASSUME Inv, TypeInv', BuildInv, DoubtsFounded, PrepareTx
    PROVE  BuildInv'
<1>1. PICK h \in Hashes : Build(btx, h) /\ bhash' = h
  BY DEF PrepareTx
<1>2. /\ TxOf(h) = btx /\ chain[h] = "none" /\ chain' = [chain EXCEPT ![h] = "built"]
      /\ bpc = "prepare" /\ bpc' = "sign"
      /\ UNCHANGED <<reorged, misses, tx, pendingTxs, unconfirmedTxs, confirmedTxs, enq, chan,
                     btx, cpc, cur>>
  BY <1>1 DEF PrepareTx, Build, SetChain, storeVars, maps, broadcastFrame, cVars
<1>t. /\ chain \in [Hashes -> {"none", "built", "pool"} \cup Results]
      /\ misses \in [Hashes -> Nat] /\ REORG_RETRY_COUNT \in Nat
      /\ btx \in Requests /\ Key[btx] \in Keys /\ btx # Nil /\ TypeInv
      /\ cpc = "retry" => cur \in Hashes
  BY <1>2, TxmAssumption, HashParts DEF Inv, TypeInv, TypeOK, NodeTypeOK, ControlOK
<1>3. \A g \in Hashes : chain'[g] = IF g = h THEN "built" ELSE chain[g]
  BY <1>2, <1>t
<1>4. \A g \in Hashes : Lost(g) => Lost(g)'
  <2>1. ~Doubted(h)
    BY <1>2, <1>t DEF Doubted, DoubtsFounded
  <2>2. \A g \in Hashes : g # h /\ Live(g)' => Live(g)
    BY <1>1, <1>2 DEF Live, InBroadcast
  <2>3. \A g \in Hashes : misses'[g] >= misses[g]
    BY <1>2, <1>t
  <2> HIDE DEF Live, Doubted
  <2>4. \A g \in Hashes : Live(g)' /\ Doubted(g) => Live(g)
    BY <2>1, <2>2
  <2> QED
    BY <1>2, <1>t, <2>3, <2>4, LostStays
<1>5. ~Due(btx)'
  <2>1. pendingTxs[Key[btx]] = btx
    BY <1>t DEF Inv, SerialInv, SingleBroadcaster
  <2>2. enq[btx] \notin {"new", "checked", "stored"}
    BY <1>t, <2>1 DEF Inv, SerialInv, EnqueueOwnsKey, Entered
  <2>3. \A i \in 1..Len(chan) : chan[i] # btx
    BY DEF Inv, SerialInv, SingleBroadcaster
  <2>4. ~(cpc = "retry" /\ TxOf(cur) = btx)
    BY <1>t, LoopsApart
  <2> QED
    BY <1>2, <2>2, <2>3, <2>4 DEF Due
<1>6. ASSUME NEW r \in Requests, r # btx, Due(r)' PROVE Due(r)
  BY <1>2, <1>6 DEF Due
<1>7. Builds(btx)' = Builds(btx) + 1
  <2> DEFINE S == {g \in Hashes : TxOf(g) = btx /\ chain[g] # "none"}
  <2>1. {g \in Hashes : TxOf(g) = btx /\ chain'[g] # "none"} = S \cup {h}
    BY <1>2, <1>3
  <2>2. IsFiniteSet(S) /\ h \notin S
    BY <1>2, <1>t, BuiltFinite
  <2>3. Cardinality(S \cup {h}) = Cardinality(S) + 1
    BY <2>2, FS_AddElement
  <2> QED
    BY <1>2, <2>1, <2>3 DEF Builds
<1>8. ASSUME NEW r \in Requests, r # btx PROVE Builds(r)' = Builds(r)
  <2>1. {g \in Hashes : TxOf(g) = r /\ chain'[g] # "none"}
          = {g \in Hashes : TxOf(g) = r /\ chain[g] # "none"}
    BY <1>2, <1>3, <1>8
  <2> QED
    BY <2>1 DEF Builds
<1>9. BuildsCovered'
  <2> SUFFICES ASSUME NEW r \in Requests
               PROVE  Builds(r)' + (IF Due(r)' THEN 1 ELSE 0)
                        <= tx'[r].Attempt + Cardinality(Spent(r)')
    BY DEF BuildsCovered
  <2>1. PICK b \in Nat, c \in Nat, d \in Nat :
          b = Builds(r) /\ c = Cardinality(Spent(r)) /\ d = Cardinality(Spent(r)')
    BY BuildsType
  <2>2. PICK a \in Nat : a = tx[r].Attempt
    BY <1>t DEF TypeInv, TypeOK, StoreTypeOK, TronTx
  <2>3. b + (IF Due(r) THEN 1 ELSE 0) <= a + c
    BY <2>1, <2>2 DEF BuildInv, BuildsCovered
  <2>4. c <= d
    <3>1. Spent(r) \subseteq Spent(r)'
      BY <1>4 DEF Spent
    <3>2. IsFiniteSet(Spent(r)')
      BY BuildsType
    <3> QED
      BY <2>1, <3>1, <3>2, FS_Subset
  <2>5. tx'[r].Attempt = a
    BY <1>2, <2>2
  <2>6. CASE r = btx
    <3>1. Due(r)
      BY <1>2, <2>6 DEF Due
    <3>2. Builds(r)' = b + 1
      BY <1>2, <1>7, <2>1, <2>6 DEF Builds
    <3>4. ~Due(r)'
      BY <1>2, <1>5, <2>6 DEF Due
    <3> HIDE DEF Due
    <3>3. b + 1 <= a + d
      BY <2>3, <2>4, <3>1
    <3> QED
      BY <2>1, <2>5, <3>2, <3>3, <3>4
  <2>7. CASE r # btx
    <3>1. Builds(r)' = b /\ (Due(r)' => Due(r))
      BY <1>6, <1>8, <2>1, <2>7
    <3> HIDE DEF Due
    <3>2. b + (IF Due(r)' THEN 1 ELSE 0) <= a + d
      BY <2>3, <2>4, <3>1
    <3> QED
      BY <2>1, <2>5, <3>1, <3>2
  <2> QED
    BY <2>6, <2>7
<1> QED
  BY <1>2, <1>9 DEF BuildInv, RetriesLimited

LEMMA BroadcastBuilds ==
    ASSUME Inv, TypeInv', BuildInv, DoubtsFounded, broadcastLoop
    PROVE  BuildInv'
<1> USE DEF broadcastFrame
<1>t. /\ chain \in [Hashes -> {"none", "built", "pool"} \cup Results]
      /\ chan \in Seq(Requests) /\ StoreTypeOK /\ TypeInv
      /\ misses \in [Hashes -> Nat]
  BY DEF Inv, TypeInv, TypeOK, NodeTypeOK
<1>s. ASSUME UNCHANGED <<reorged, misses>>, \A h \in Hashes : Live(h)' => Live(h)
      PROVE  \A h \in Hashes : Lost(h) => Lost(h)'
  <2>1. \A h \in Hashes : misses'[h] >= misses[h]
    BY <1>s, <1>t
  <2> QED
    BY <1>s, <1>t, <2>1, LostStays
<1>1. CASE BroadcastReceive
  <2>1. /\ chan # <<>> /\ btx' = Head(chan) /\ chan' = Tail(chan) /\ bpc' = "prepare"
        /\ UNCHANGED <<tx, unconfirmedTxs, confirmedTxs, chain, reorged, misses, enq, cpc, cur>>
    BY <1>1 DEF BroadcastReceive, storeVars, maps, nodeVars, cVars
  <2>2. /\ Len(chan) \in Nat /\ Len(chan) > 0 /\ Len(chan') = Len(chan) - 1
        /\ btx' = chan[1] /\ \A i \in 1..Len(chan') : chan'[i] = chan[i + 1]
    BY <1>t, <2>1
  <2>3. ASSUME NEW r \in Requests, Due(r)' PROVE Due(r)
    BY <2>1, <2>2, <2>3 DEF Due
  <2>4. \A h \in Hashes : Lost(h) => Lost(h)'
    BY <1>s, <2>1 DEF Live, InBroadcast
  <2> HIDE DEF Due, Lost
  <2> QED
    BY <1>t, <2>1, <2>3, <2>4, AttemptsKept
<1>2. ASSUME UNCHANGED <<storeVars, enq, chan, cVars, btx, bhash, reorged>>,
             bpc' = "prepare" => bpc = "prepare",
             bpc' \in {"sign", "send", "sent"} => bpc \in {"sign", "send", "sent"},
             \A h \in Hashes : chain'[h] = "none" <=> chain[h] = "none"
      PROVE  BuildInv'
  <2>1. UNCHANGED <<tx, unconfirmedTxs, confirmedTxs, misses, cpc, cur>>
    BY <1>2 DEF storeVars, maps, cVars
  <2>2. ASSUME NEW r \in Requests, Due(r)' PROVE Due(r)
    BY <1>2, <2>1, <2>2 DEF Due
  <2>3. \A h \in Hashes : Lost(h) => Lost(h)'
    BY <1>2, <1>s, <2>1 DEF Live, InBroadcast
  <2> HIDE DEF Due, Lost
  <2> QED
    BY <1>2, <1>t, <2>1, <2>2, <2>3, AttemptsKept
<1>3. ASSUME UNCHANGED <<storeVars, chain, reorged>>, BroadcastIdle
      PROVE  BuildInv'
  <2>1. /\ UNCHANGED <<tx, unconfirmedTxs, confirmedTxs, misses, cpc, cur, enq, chan>>
        /\ bpc' = "idle"
    BY <1>3 DEF storeVars, maps, BroadcastIdle, cVars
  <2>2. ASSUME NEW r \in Requests, Due(r)' PROVE Due(r)
    BY <2>1, <2>2 DEF Due
  <2>3. \A h \in Hashes : Lost(h) => Lost(h)'
    BY <1>3, <1>s, <2>1 DEF Live, InBroadcast
  <2> HIDE DEF Due, Lost
  <2> QED
    BY <1>3, <1>t, <2>1, <2>2, <2>3, AttemptsKept
<1>4. CASE PrepareFails
  BY <1>3, <1>4 DEF PrepareFails, Fault
<1>5. CASE PrepareTx
  BY <1>5, PrepareBuilds
<1>6. CASE SignTx
  BY <1>2, <1>6 DEF SignTx, nodeVars
<1>7. CASE SignFails
  BY <1>3, <1>7, FailedBroadcastIsIgnored DEF SignFails, BroadcastFailed, Fault, nodeVars
<1>p. ASSUME chain' = [chain EXCEPT ![bhash] = "pool"], bpc = "send"
      PROVE  \A h \in Hashes : chain'[h] = "none" <=> chain[h] = "none"
  BY <1>p, <1>t DEF DoubtsFounded
<1>8. CASE SendAccepted
  <2>1. /\ UNCHANGED <<storeVars, enq, chan, cVars, btx, bhash, reorged>> /\ bpc' = "sent"
        /\ chain' = [chain EXCEPT ![bhash] = "pool"] /\ bpc = "send"
    BY <1>8 DEF SendAccepted, Accept, SetChain
  <2> QED
    BY <1>2, <1>p, <2>1
<1>9. CASE SendBusy \/ PreparePanics
  BY <1>2, <1>9 DEF SendBusy, PreparePanics, Fault, bVars
<1>10. CASE SendRejected
  BY <1>3, <1>10, FailedBroadcastIsIgnored DEF SendRejected, BroadcastFailed, Fault, nodeVars
<1>11. CASE SendPanics
  <2>1. /\ UNCHANGED <<storeVars, enq, chan, cVars, btx, bhash, reorged>> /\ bpc' = "send"
        /\ bpc = "send"
        /\ UNCHANGED chain \/ chain' = [chain EXCEPT ![bhash] = "pool"]
    BY <1>11 DEF SendPanics, bVars
  <2>2. CASE UNCHANGED chain
    BY <1>2, <2>1, <2>2
  <2>3. CASE chain' = [chain EXCEPT ![bhash] = "pool"]
    BY <1>2, <1>p, <2>1, <2>3
  <2> QED
    BY <2>1, <2>2, <2>3
<1>12. CASE Broadcasted
  <2>1. /\ OnBroadcasted(bhash) /\ bhash \in Hashes /\ bpc = "sent" /\ bpc' = "idle"
        /\ UNCHANGED <<chain, reorged, misses, enq, chan, cpc, cur>>
    BY <1>12, <1>t DEF Broadcasted, BroadcastIdle, nodeVars, cVars, TypeInv, ControlOK
  <2>2. /\ UNCHANGED confirmedTxs
        /\ \A q \in Requests : /\ tx'[q].Attempt = tx[q].Attempt
                               /\ tx'[q].OutOfTimeErrors = tx[q].OutOfTimeErrors
    BY <1>t, <2>1, SetStateCounts, HashParts DEF OnBroadcasted, storeVars, maps
  <2>3. ASSUME NEW r \in Requests, Due(r)' PROVE Due(r)
    BY <2>1, <2>3 DEF Due
  <2>4. \A k \in Keys : unconfirmedTxs'[k] = unconfirmedTxs[k] \/ unconfirmedTxs'[k] = bhash
    BY <1>t, <2>1 DEF OnBroadcasted, storeVars, maps, Put, StoreTypeOK
  <2>5. \A h \in Hashes : Live(h)' => Live(h)
    BY <2>1, <2>2, <2>4, HashParts DEF Live, InBroadcast
  <2>6. \A h \in Hashes : Lost(h) => Lost(h)'
    BY <1>s, <2>1, <2>5
  <2> HIDE DEF Due, Lost
  <2> QED
    BY <1>t, <2>1, <2>2, <2>3, <2>6, AttemptsKept
<1>13. CASE BroadcastStops
  BY <1>2, <1>13 DEF BroadcastStops, nodeVars
<1> QED
  BY <1>1, <1>4, <1>5, <1>6, <1>7, <1>8, <1>9, <1>10, <1>11, <1>12, <1>13
  DEF broadcastLoop

\* What checkUnconfirmed does to the counters: they change only with a retry, which counts
\* its attempt, within the limits.
Counted(r) ==
    /\ \A q \in Requests : q # r => /\ tx'[q].Attempt = tx[q].Attempt
                                    /\ tx'[q].OutOfTimeErrors = tx[q].OutOfTimeErrors
    /\ tx'[r].Attempt <= MAX_RETRY_ATTEMPTS /\ tx'[r].OutOfTimeErrors <= 2
    /\ \/ tx'[r].Attempt = tx[r].Attempt /\ cpc' # "retry"
       \/ tx'[r].Attempt = tx[r].Attempt + 1

LEMMA MaybeRetryCounts ==
    ASSUME StoreTypeOK, RetriesLimited, NEW r \in Requests, NEW b \in BOOLEAN,
           NEW o \in BOOLEAN, unconfirmedTxs[Key[r]] \in Hashes,
           TxOf(unconfirmedTxs[Key[r]]) = r, maybeRetry(r, b, o)
    PROVE  Counted(r) /\ UNCHANGED confirmedTxs
<1>0. Key[r] \in Keys /\ unconfirmedTxs[Key[r]] # Nil
  BY HashParts
<1>1. CASE ~MayRetry(r)
  <2>1. OnErrored(Key[r]) /\ cpc' # "retry"
    BY <1>1 DEF maybeRetry, NextUnconfirmed
  <2>2. SetState(r, "Errored") /\ UNCHANGED confirmedTxs
    BY <1>0, <2>1 DEF OnErrored, FinishUnconfirmed, Finish
  <2>3. \A q \in Requests : /\ tx'[q].Attempt = tx[q].Attempt
                            /\ tx'[q].OutOfTimeErrors = tx[q].OutOfTimeErrors
    BY <2>2, SetStateCounts
  <2> QED
    BY <2>1, <2>2, <2>3 DEF RetriesLimited, Counted
<1>2. CASE MayRetry(r)
  <2>1. tx' = Retried(r, b, o) /\ UNCHANGED confirmedTxs
    BY <1>0, <1>2 DEF maybeRetry, maps
  <2>3. tx[r] \in TronTx
    BY DEF StoreTypeOK
  <2>4. tx[r].Attempt \in Nat /\ tx[r].OutOfTimeErrors \in Nat
    BY <2>3 DEF TronTx
  <2>5. tx[r].Attempt < MAX_RETRY_ATTEMPTS /\ tx[r].OutOfTimeErrors < 2
    BY <1>2 DEF MayRetry
  <2>6. /\ tx'[r].Attempt = tx[r].Attempt + 1
        /\ tx'[r].OutOfTimeErrors = tx[r].OutOfTimeErrors + (IF o THEN 1 ELSE 0)
        /\ \A q \in Requests : q # r => tx'[q] = tx[q]
    BY <2>1 DEF Retried, StoreTypeOK
  <2>7. tx'[r].Attempt <= MAX_RETRY_ATTEMPTS
    BY <2>4, <2>5, <2>6, TxmAssumption
  <2>8. tx'[r].OutOfTimeErrors <= 2
    <3>1. CASE o
      BY <2>4, <2>5, <2>6, <3>1
    <3>2. CASE ~o
      BY <2>4, <2>5, <2>6, <3>2
    <3> QED
      BY <3>1, <3>2
  <2> QED
    BY <2>1, <2>6, <2>7, <2>8 DEF Counted
<1> QED
  BY <1>1, <1>2

\* The same for every answer of the node; an entry is confirmed only when it was found.
LEMMA HandleCounts ==
    ASSUME StoreTypeOK, RetriesLimited, NEW r \in Requests,
           unconfirmedTxs[Key[r]] \in Hashes, TxOf(unconfirmedTxs[Key[r]]) = r,
           HandleResult(r)
    PROVE  Counted(r) /\ (seen = "success" \/ UNCHANGED confirmedTxs)
<1>0. Key[r] \in Keys /\ unconfirmedTxs[Key[r]] # Nil
  BY HashParts
<1>1. ASSUME NEW b \in BOOLEAN, NEW o \in BOOLEAN, maybeRetry(r, b, o)
      PROVE  Counted(r) /\ UNCHANGED confirmedTxs
  BY <1>1, MaybeRetryCounts
<1>2. ASSUME NEW s, SetState(r, s) \/ UNCHANGED tx, NextUnconfirmed
      PROVE  Counted(r)
  BY <1>2, SetStateCounts DEF RetriesLimited, Counted, NextUnconfirmed
<1>3. CASE UNCHANGED storeVars /\ NextUnconfirmed
  BY <1>2, <1>3 DEF storeVars, maps
<1>4. CASE seen = "success" /\ OnConfirmed(Key[r]) /\ NextUnconfirmed
  BY <1>2, <1>4 DEF OnConfirmed, storeVars
<1>5. CASE OnFatalError(Key[r]) /\ NextUnconfirmed
  BY <1>0, <1>2, <1>5 DEF OnFatalError, FinishUnconfirmed, Finish
<1> QED
  BY <1>1, <1>3, <1>4, <1>5 DEF HandleResult

\* Whatever the confirm loop does to the entry h, it takes no transaction up again, and
\* only the object of h may become due.
LEMMA MoveBuilds ==
    ASSUME Inv, TypeInv', NEW h \in Hashes, EntryMoves(h), cpc' # "retry",
           unconfirmedTxs[KeyOf(h)] = h \/ confirmedTxs[KeyOf(h)] = h,
           UNCHANGED <<reorged, misses, enq, bVars>>
    PROVE  /\ \A g \in Hashes : Lost(g) => Lost(g)'
           /\ \A q \in Requests : Due(q)' => Due(q) \/ (q = TxOf(h) /\ ~UNCHANGED chan)
<1> DEFINE r == TxOf(h)
           k == KeyOf(h)
<1>0. /\ r \in Requests /\ k \in Keys /\ h # Nil /\ chan \in Seq(Requests) /\ TypeInv
      /\ misses \in [Hashes -> Nat]
  BY HashParts DEF Inv, TypeInv, TypeOK
<1>1. /\ \A i \in Keys : i # k => /\ confirmedTxs'[i] = confirmedTxs[i]
                                  /\ unconfirmedTxs'[i] = unconfirmedTxs[i]
      /\ confirmedTxs'[k] \in {Nil, h} /\ unconfirmedTxs'[k] = Nil
      /\ chan' = chan \/ chan' = Append(chan, r)
  BY DEF EntryMoves
<1>2. \A g \in Hashes : Lost(g) => Lost(g)'
  <2>1. \A g \in Hashes : Live(g)' => Live(g)
    BY <1>0, <1>1, HashParts DEF Live, InBroadcast, bVars
  <2>2. \A g \in Hashes : misses'[g] >= misses[g]
    BY <1>0
  <2> QED
    BY <1>0, <2>1, <2>2, LostStays
<1>3. \A i \in 1..Len(chan') : chan'[i] # r => \E j \in 1..Len(chan) : chan'[i] = chan[j]
  BY <1>0, <1>1
<1>4. ASSUME NEW q \in Requests, Due(q)' PROVE Due(q) \/ (q = r /\ ~UNCHANGED chan)
  BY <1>3, <1>4 DEF Due, bVars
<1> QED
  BY <1>2, <1>4

LEMMA HandleBuilds ==
    ASSUME Inv, TypeInv', BuildInv, HandleUnconfirmed
    PROVE  BuildInv'
<1>1. /\ cpc = "handle" /\ cur \in Hashes /\ HandleResult(TxOf(cur))
      /\ UNCHANGED <<chain, reorged, misses, enq, chan, bVars>>
  BY DEF HandleUnconfirmed, confirmFrame, nodeVars, Inv, TypeInv, ControlOK
<1> DEFINE r == TxOf(cur)
           k == KeyOf(cur)
<1>0. /\ r \in Requests /\ k = Key[r] /\ k \in Keys /\ cur # Nil /\ StoreTypeOK /\ TypeInv
      /\ misses \in [Hashes -> Nat] /\ \A q \in Requests : tx[q].Attempt \in Nat
  BY <1>1, HashParts DEF KeyOf, Inv, TypeInv, TypeOK, StoreTypeOK, TronTx
<1>2. unconfirmedTxs[k] = cur
  BY <1>0, <1>1 DEF Inv, SerialInv, ConfirmInv, SnapshotCurrent, Snapshot, InUnconfirmedPass
<1>3. \/ UNCHANGED storeVars /\ NextUnconfirmed
      \/ EntryMoves(cur) /\ NextUnconfirmed
      \/ ObjectRetried(cur) /\ cpc' = "retry" /\ UNCHANGED cur
  BY <1>1, <1>2, HandleResultSerial
<1>4. Counted(r)
  <2>1. unconfirmedTxs[Key[r]] \in Hashes /\ TxOf(unconfirmedTxs[Key[r]]) = r
    BY <1>0, <1>1, <1>2
  <2> QED
    BY <1>0, <1>1, <2>1, HandleCounts DEF BuildInv
<1>5. RetriesLimited' /\ \A q \in Requests : tx'[q].Attempt >= tx[q].Attempt
  <2>1. RetriesLimited'
    BY <1>4 DEF BuildInv, RetriesLimited, Counted
  <2> QED
    BY <1>0, <1>4, <2>1 DEF Counted
<1>6. CASE UNCHANGED storeVars /\ NextUnconfirmed
  <2>1. cpc' # "retry" /\ \A h \in Hashes : misses'[h] >= misses[h]
    BY <1>0, <1>1, <1>6 DEF NextUnconfirmed
  <2> QED
    BY <1>0, <1>1, <1>6, <2>1, PassBuilds
<1>7. CASE EntryMoves(cur) /\ NextUnconfirmed
  <2>1. cpc' # "retry"
    BY <1>7 DEF NextUnconfirmed
  <2>2. /\ \A g \in Hashes : Lost(g) => Lost(g)'
        /\ \A q \in Requests : Due(q)' => Due(q)
    BY <1>1, <1>2, <1>7, <2>1, MoveBuilds
  <2> HIDE DEF Due, Lost
  <2> QED
    BY <1>0, <1>1, <1>5, <2>2, NothingBuilt
<1>8. CASE ObjectRetried(cur) /\ cpc' = "retry" /\ UNCHANGED cur
  <2>1. UNCHANGED <<unconfirmedTxs, confirmedTxs>>
    BY <1>8 DEF ObjectRetried, maps
  <2>2. \A g \in Hashes : Lost(g) => Lost(g)'
    <3>1. \A g \in Hashes : Live(g)' => Live(g)
      BY <1>1, <2>1 DEF Live, InBroadcast, bVars
    <3>2. \A g \in Hashes : misses'[g] >= misses[g]
      BY <1>0, <1>1
    <3> QED
      BY <1>0, <1>1, <3>1, <3>2, LostStays
  <2>3. tx'[r].Attempt > tx[r].Attempt
    BY <1>0, <1>4, <1>8 DEF Counted
  <2>4. ASSUME NEW q \in Requests, Due(q)' PROVE Due(q) \/ tx'[q].Attempt > tx[q].Attempt
    BY <1>1, <1>8, <2>3, <2>4 DEF Due, bVars
  <2> HIDE DEF Due, Lost
  <2> QED
    BY <1>0, <1>1, <1>5, <2>2, <2>4, NothingBuilt
<1> QED
  BY <1>3, <1>6, <1>7, <1>8

\* The send of a retry was due before.
LEMMA RetryBuilds ==
    ASSUME Inv, TypeInv', BuildInv, Retry
    PROVE  BuildInv'
<1>1. /\ cpc = "retry" /\ cpc' # "retry"
      /\ UNCHANGED <<chain, reorged, misses, enq, bVars>>
  BY DEF Retry, NextUnconfirmed, confirmFrame, nodeVars
<1>2. /\ cur \in Hashes /\ unconfirmedTxs[KeyOf(cur)] = cur
      /\ EntryMoves(cur) /\ UNCHANGED tx
  BY RetrySerial
<1>3. /\ \A g \in Hashes : Lost(g) => Lost(g)'
      /\ \A q \in Requests : Due(q)' => Due(q) \/ q = TxOf(cur)
  BY <1>1, <1>2, MoveBuilds
<1>4. Due(TxOf(cur)) /\ TypeInv
  BY <1>1 DEF Due, Inv
<1> HIDE DEF Due, Lost
<1>5. \A q \in Requests : Due(q)' => Due(q)
  BY <1>3, <1>4
<1> QED
  BY <1>1, <1>2, <1>3, <1>4, <1>5, AttemptsKept

\* A reorganised entry is sent again and its transaction lost; a final one is done.
LEMMA ConfirmedBuilds ==
    ASSUME Inv, TypeInv', BuildInv, DoubtsFounded, HandleReorg \/ Finalize
    PROVE  BuildInv'
<1>1. /\ cpc \in {"reorged", "finalize"} /\ cpc' = "solidity" /\ cur \in Hashes
      /\ UNCHANGED <<chain, reorged, misses, enq, bVars>>
  BY DEF HandleReorg, Finalize, NextConfirmed, confirmFrame, nodeVars, Inv, TypeInv, ControlOK
<1> DEFINE r == TxOf(cur)
           k == KeyOf(cur)
<1>0. r \in Requests /\ k = Key[r] /\ k \in Keys /\ cur # Nil /\ StoreTypeOK /\ TypeInv
      /\ chan \in Seq(Requests)
  BY <1>1, HashParts DEF KeyOf, Inv, TypeInv, TypeOK
<1>2. confirmedTxs[k] = cur
  BY <1>0, <1>1 DEF Inv, SerialInv, ConfirmInv, SnapshotCurrent, Snapshot, InUnconfirmedPass
<1>3. unconfirmedTxs[k] = Nil /\ pendingTxs[k] = Nil /\ finishedTxs[k] = Nil
  BY <1>0, <1>2 DEF Inv, SerialInv, StoreInv, SingleHome
<1>4. ~InBroadcast(cur)
  <2> SUFFICES ASSUME InBroadcast(cur) PROVE FALSE
    OBVIOUS
  <2>1. btx \in Requests /\ TxOf(cur) = btx
    BY <1>0 DEF InBroadcast, TypeInv, ControlOK
  <2> QED
    BY <1>1, <2>1, LoopsApart
<1>5. CASE HandleReorg
  <2>1. OnReorg(k) /\ TrySend(r) /\ cpc = "reorged"
    BY <1>0, <1>2, <1>5 DEF HandleReorg
  <2>2. /\ confirmedTxs' = Delete(confirmedTxs, k)
        /\ pendingTxs' = Put(pendingTxs, k, r)
        /\ UNCHANGED <<unconfirmedTxs, finishedTxs>>
        /\ \A q \in Requests : q # r => tx'[q] = tx[q]
    BY <1>0, <1>1, <1>2, <2>1, OnReorgConfirmed DEF Inv, SerialInv
  <2>3. \A q \in Requests : /\ tx'[q].Attempt = tx[q].Attempt
                            /\ tx'[q].OutOfTimeErrors = tx[q].OutOfTimeErrors
    BY <1>0, <1>2, <2>1, SetStateCounts DEF OnReorg
  <2>4. EntryMoves(cur)
    BY <1>0, <1>3, <2>1, <2>2 DEF EntryMoves, Put, Delete, StoreTypeOK, TrySend
  <2>5. /\ \A g \in Hashes : Lost(g) => Lost(g)'
        /\ \A q \in Requests : Due(q)' => Due(q) \/ q = r
    BY <1>1, <1>2, <2>4, MoveBuilds
  <2>6. confirmedTxs'[k] # cur /\ unconfirmedTxs'[k] # cur
    BY <1>0, <1>3, <2>2 DEF Delete, StoreTypeOK
  <2>7. ASSUME NEW h \in Hashes, h = cur PROVE TxOf(h) = r /\ Lost(h)' /\ ~Lost(h)
    BY <1>1, <1>2, <1>4, <2>1, <2>6, <2>7
    DEF Lost, Live, InBroadcast, Doubted, DoubtsFounded, bVars
  <2> HIDE DEF Due, Lost
  <2>8. \A q \in Requests :
            Due(q)' => Due(q) \/ \E h \in Hashes : TxOf(h) = q /\ Lost(h)' /\ ~Lost(h)
    BY <1>1, <2>5, <2>7
  <2> QED
    BY <1>0, <1>1, <2>3, <2>5, <2>8, AttemptsKept
<1>6. CASE Finalize
  <2>1. OnFinalized(k) /\ UNCHANGED chan
    BY <1>6 DEF Finalize
  <2>2. /\ confirmedTxs' = Delete(confirmedTxs, k)
        /\ finishedTxs' = Put(finishedTxs, k, [Hash |-> cur, aged |-> FALSE])
        /\ UNCHANGED <<pendingTxs, unconfirmedTxs>>
        /\ \A q \in Requests : q # r => tx'[q] = tx[q]
    BY <1>0, <1>1, <1>2, <2>1, OnFinalizedConfirmed DEF Inv, SerialInv
  <2>3. \A q \in Requests : /\ tx'[q].Attempt = tx[q].Attempt
                            /\ tx'[q].OutOfTimeErrors = tx[q].OutOfTimeErrors
    BY <1>0, <1>2, <2>1, SetStateCounts DEF OnFinalized, FinishConfirmed, Finish
  <2>4. EntryMoves(cur)
    BY <1>0, <1>3, <2>1, <2>2 DEF EntryMoves, Put, Delete, StoreTypeOK
  <2>5. /\ \A g \in Hashes : Lost(g) => Lost(g)'
        /\ \A q \in Requests : Due(q)' => Due(q)
    BY <1>1, <1>2, <2>1, <2>4, MoveBuilds
  <2> HIDE DEF Due, Lost
  <2> QED
    BY <1>0, <1>1, <2>3, <2>5, AttemptsKept
<1> QED
  BY <1>5, <1>6

LEMMA ConfirmBuilds ==
    ASSUME Inv, TypeInv', BuildInv, DoubtsFounded, confirmLoop
    PROVE  BuildInv'
<1> USE DEF confirmFrame
<1>t. TypeInv /\ misses \in [Hashes -> Nat]
  BY DEF Inv, TypeInv, TypeOK
<1>q. ASSUME UNCHANGED <<storeVars, chan, misses, enq, bVars>>, cpc' # "retry",
             UNCHANGED nodeVars \/ Fault("rpc")
      PROVE  BuildInv'
  <2>1. UNCHANGED <<chain, reorged>> /\ \A h \in Hashes : misses'[h] >= misses[h]
    BY <1>q, <1>t DEF nodeVars, Fault
  <2> QED
    BY <1>q, <1>t, <2>1, PassBuilds
<1>1. CASE ConfirmTick \/ UnconfirmedChecked \/ FinalizedChecked \/ ConfirmStops
  BY <1>1, <1>q DEF ConfirmTick, UnconfirmedChecked, FinalizedChecked, ConfirmStops
<1>2. ASSUME NEW a \in Accounts, CollectUnconfirmed(a) \/ GetNowBlock(a) \/ CollectConfirmed(a)
      PROVE  BuildInv'
  BY <1>2, <1>q DEF CollectUnconfirmed, GetNowBlock, CollectConfirmed
<1>3. ASSUME NEW h \in Hashes, QueryUnconfirmed(h) \/ QueryConfirmed(h) PROVE BuildInv'
  BY <1>3, <1>q DEF QueryUnconfirmed, QueryConfirmed
<1>4. CASE CheckReorged
  <2>1. /\ cpc' # "retry" /\ UNCHANGED <<chain, reorged, storeVars, enq, chan, bVars>>
        /\ misses' = misses \/ misses' = [misses EXCEPT ![cur] = @ + 1]
    BY <1>4 DEF CheckReorged, Fault, nodeVars
  <2>2. \A h \in Hashes : misses'[h] >= misses[h]
    BY <1>t, <2>1
  <2> QED
    BY <1>t, <2>1, <2>2, PassBuilds
<1> QED
  BY <1>1, <1>2, <1>3, <1>4, HandleBuilds, RetryBuilds, ConfirmedBuilds DEF confirmLoop

\* A step outside of the confirm loop that leaves the chain alone.
LEMMA QuietDoubts ==
    ASSUME DoubtsFounded,
           UNCHANGED <<chain, reorged, misses, confirmedTxs, cpc, cur, seen, tries>>,
           bpc' \in {"sign", "send", "sent"} => bpc \in {"sign", "send", "sent"} /\ UNCHANGED bhash
    PROVE  DoubtsFounded'
  BY DEF DoubtsFounded, OnChain, Included, Doubted

\* The broadcast loop builds or sends the transaction h: the confirm loop has none of its object.
LEMMA SentDoubts ==
    ASSUME Inv, DoubtsFounded, NEW h \in Hashes, TxOf(h) = btx, btx \in Requests,
           NEW s, s # "none", chain' = [chain EXCEPT ![h] = s], bhash' = h,
           UNCHANGED <<reorged, misses, confirmedTxs, cpc, cur, seen, tries>>
    PROVE  DoubtsFounded'
<1>t. /\ chain \in [Hashes -> {"none", "built", "pool"} \cup Results]
      /\ cpc = "handle" => cur \in Hashes
      /\ \A k \in Keys : confirmedTxs[k] # Nil => confirmedTxs[k] \in Hashes
  BY DEF Inv, TypeInv, TypeOK, NodeTypeOK, ControlOK, StoreTypeOK
<1>1. \A g \in Hashes : chain'[g] = IF g = h THEN s ELSE chain[g]
  BY <1>t
<1>2. \A k \in Keys : confirmedTxs[k] # Nil => confirmedTxs[k] # h
  BY LoopsApart
<1>3. cpc = "handle" => cur # h
  BY <1>t, LoopsApart
<1>4. \A g \in Hashes : g # h /\ OnChain(g) => OnChain(g)'
  BY <1>1 DEF OnChain, Included
<1>5. \A g \in Hashes : g \in reorged' \/ misses'[g] > 0 => chain'[g] # "none"
  BY <1>1 DEF DoubtsFounded
<1>6. \A k \in Keys : confirmedTxs'[k] # Nil => OnChain(confirmedTxs[k])'
  <2> SUFFICES ASSUME NEW k \in Keys, confirmedTxs[k] # Nil PROVE OnChain(confirmedTxs[k])'
    OBVIOUS
  <2>1. PICK g \in Hashes : g = confirmedTxs[k]
    BY <1>t
  <2>2. OnChain(g)'
    BY <1>2, <1>4, <2>1 DEF DoubtsFounded
  <2> QED
    BY <2>1, <2>2 DEF OnChain, Included
<1>7. cpc' = "handle" /\ seen' # "missing" => OnChain(cur)'
  <2> SUFFICES ASSUME cpc = "handle", seen # "missing" PROVE OnChain(cur)'
    OBVIOUS
  <2>1. PICK g \in Hashes : g = cur
    BY <1>t
  <2>2. OnChain(g)'
    BY <1>3, <1>4, <2>1 DEF DoubtsFounded
  <2> QED
    BY <2>1, <2>2 DEF OnChain, Included
<1>8. chain'[bhash'] # "none"
  BY <1>1
<1> QED
  BY <1>5, <1>6, <1>7, <1>8 DEF DoubtsFounded, Doubted

LEMMA BroadcastDoubts ==
    ASSUME Inv, DoubtsFounded, broadcastLoop
    PROVE  DoubtsFounded'
<1> USE DEF broadcastFrame
<1>1. CASE BroadcastReceive \/ SignTx \/ BroadcastStops
  BY <1>1, QuietDoubts
  DEF BroadcastReceive, SignTx, BroadcastStops, nodeVars, storeVars, maps, cVars
<1>2. CASE PrepareFails \/ PreparePanics \/ SendBusy
  BY <1>2, QuietDoubts
  DEF PrepareFails, PreparePanics, SendBusy, BroadcastIdle, Fault, storeVars, maps, bVars, cVars
<1>3. CASE SignFails \/ SendRejected
  BY <1>3, QuietDoubts, FailedBroadcastIsIgnored
  DEF SignFails, SendRejected, BroadcastFailed, BroadcastIdle, Fault, nodeVars, storeVars, maps, cVars
<1>4. CASE Broadcasted
  <2>1. UNCHANGED confirmedTxs
    BY <1>4 DEF Broadcasted, OnBroadcasted, storeVars, maps
  <2> QED
    BY <1>4, <2>1, QuietDoubts DEF Broadcasted, BroadcastIdle, nodeVars, cVars
<1>5. CASE PrepareTx
  <2>1. PICK h \in Hashes : Build(btx, h) /\ bhash' = h
    BY <1>5 DEF PrepareTx
  <2>2. /\ TxOf(h) = btx /\ btx \in Requests /\ chain' = [chain EXCEPT ![h] = "built"]
        /\ UNCHANGED <<reorged, misses, confirmedTxs, cpc, cur, seen, tries>>
    BY <1>5, <2>1 DEF PrepareTx, Build, SetChain, storeVars, maps, cVars, Inv, TypeInv, ControlOK
  <2> QED
    BY <2>1, <2>2, SentDoubts
<1>6. CASE SendAccepted \/ SendPanics
  <2>1. /\ bpc = "send" /\ bhash \in Hashes /\ TxOf(bhash) = btx /\ btx \in Requests
        /\ bhash' = bhash
        /\ UNCHANGED <<reorged, misses, confirmedTxs, cpc, cur, seen, tries>>
        /\ UNCHANGED chain \/ chain' = [chain EXCEPT ![bhash] = "pool"]
    BY <1>6 DEF SendAccepted, SendPanics, Accept, SetChain, storeVars, maps, bVars, cVars,
                Inv, TypeInv, ControlOK
  <2>2. CASE UNCHANGED chain
    BY <2>1, <2>2, QuietDoubts
  <2>3. CASE chain' = [chain EXCEPT ![bhash] = "pool"]
    BY <2>1, <2>3, SentDoubts
  <2> QED
    BY <2>1, <2>2, <2>3
<1> QED
  BY <1>1, <1>2, <1>3, <1>4, <1>5, <1>6 DEF broadcastLoop

\* The network removes nothing from the chain without it being remembered.
LEMMA NetworkDoubts ==
    ASSUME Inv, DoubtsFounded, Network
    PROVE  DoubtsFounded'
<1>f. UNCHANGED <<misses, confirmedTxs, bpc, bhash, cpc, cur, seen, tries>> /\ NodeNext
  BY DEF Network, storeVars, maps, bVars, cVars
<1>t. /\ chain \in [Hashes -> {"none", "built", "pool"} \cup Results]
      /\ {"none", "built", "pool"} \cap Results = {}
      /\ bpc \in {"sign", "send", "sent"} => bhash \in Hashes
      /\ cpc \in {"handle", "reorg", "reorged"} => cur \in Hashes
      /\ \A k \in Keys : confirmedTxs[k] # Nil => confirmedTxs[k] \in Hashes
  BY DEF Inv, TypeInv, TypeOK, NodeTypeOK, ControlOK, StoreTypeOK, Results
<1>1. PICK h \in Hashes : \/ \E result \in Outcomes : Include(h, result)
                          \/ Solidify(h) \/ Reorg(h) \/ Expire(h)
  BY <1>f DEF NodeNext
<1>2. /\ reorged \subseteq reorged'
      /\ \A g \in Hashes : /\ chain[g] # "none" => chain'[g] # "none"
                           /\ OnChain(g) => OnChain(g)'
                           /\ g \in reorged' => g \in reorged \/ chain'[g] # "none"
  BY <1>1, <1>t, NodeAssumption
  DEF Include, Solidify, Reorg, Expire, SetChain, Included, OnChain
<1>3. \A g \in Hashes : g \in reorged' \/ misses'[g] > 0 => chain'[g] # "none"
  BY <1>f, <1>2 DEF DoubtsFounded
<1>4. bpc' \in {"sign", "send", "sent"} => chain'[bhash'] # "none"
  BY <1>f, <1>t, <1>2 DEF DoubtsFounded
<1>5. \A k \in Keys : confirmedTxs'[k] # Nil => OnChain(confirmedTxs[k])'
  <2> SUFFICES ASSUME NEW k \in Keys, confirmedTxs[k] # Nil PROVE OnChain(confirmedTxs[k])'
    BY <1>f
  <2>1. PICK g \in Hashes : g = confirmedTxs[k]
    BY <1>t
  <2>2. OnChain(g)'
    BY <1>2, <2>1 DEF DoubtsFounded
  <2> QED
    BY <1>f, <2>1, <2>2 DEF OnChain, Included
<1>6. cpc' = "handle" /\ seen' # "missing" => OnChain(cur)'
  <2> SUFFICES ASSUME cpc = "handle", seen # "missing" PROVE OnChain(cur)'
    BY <1>f
  <2>1. PICK g \in Hashes : g = cur
    BY <1>t
  <2>2. OnChain(g)'
    BY <1>2, <2>1 DEF DoubtsFounded
  <2> QED
    BY <1>f, <2>1, <2>2 DEF OnChain, Included
<1>7. /\ cpc' = "reorg" => cur' \in reorged' \/ misses'[cur'] >= tries'
      /\ cpc' # "reorg" => tries' = 0
      /\ cpc' = "reorged" => Doubted(cur)'
  BY <1>f, <1>2 DEF DoubtsFounded, Doubted
<1> QED
  BY <1>3, <1>4, <1>5, <1>6, <1>7 DEF DoubtsFounded

\* A step of the confirm loop that leaves the chain and the history alone.
LEMMA PassDoubts ==
    ASSUME TypeInv', DoubtsFounded, UNCHANGED <<chain, reorged, misses, bVars>>,
           \A k \in Keys : confirmedTxs'[k] # Nil => OnChain(confirmedTxs'[k]),
           cpc' = "handle" /\ seen' # "missing" => OnChain(cur'),
           cpc' # "reorged", tries' = 0
    PROVE  DoubtsFounded'
<1>0. UNCHANGED <<bpc, bhash>>
  BY DEF bVars
<1>1. \A k \in Keys : confirmedTxs'[k] # Nil => OnChain(confirmedTxs[k])'
  BY DEF OnChain, Included
<1>2. cpc' = "handle" /\ seen' # "missing" => OnChain(cur)'
  BY DEF OnChain, Included
<1>3. cpc' = "reorg" => misses'[cur'] >= tries'
  BY DEF TypeInv, TypeOK, ControlOK
<1> QED
  BY <1>0, <1>1, <1>2, <1>3 DEF DoubtsFounded

\* checkReorged gives up after 1 + REORG_RETRY_COUNT failures.  Those of a transaction
\* that is on the chain are counted; one that is not, though confirmed, was removed.
LEMMA ReorgDoubts ==
    ASSUME Inv, TypeInv', DoubtsFounded, CheckReorged
    PROVE  DoubtsFounded'
<1>1. /\ cpc = "reorg" /\ cur \in Hashes /\ cur' = cur
      /\ UNCHANGED <<chain, reorged, confirmedTxs, bpc, bhash>>
  BY DEF CheckReorged, Fault, nodeVars, storeVars, maps, confirmFrame, bVars,
         Inv, TypeInv, ControlOK
<1>t. /\ misses \in [Hashes -> Nat] /\ tries \in Nat /\ tries <= REORG_RETRY_COUNT
      /\ REORG_RETRY_COUNT \in Nat /\ {"none", "built", "pool"} \cap Results = {}
  BY TxmAssumption DEF Inv, TypeInv, TypeOK, Results
<1>2. OnChain(cur)
  <2>1. KeyOf(cur) \in Keys /\ confirmedTxs[KeyOf(cur)] = cur /\ cur # Nil
    BY <1>1, HashParts
    DEF Inv, SerialInv, ConfirmInv, SnapshotCurrent, Snapshot, InUnconfirmedPass
  <2> QED
    BY <2>1 DEF DoubtsFounded
<1>3. \/ /\ cpc' = "finalize" /\ tries' = 0 /\ UNCHANGED misses
      \/ /\ \/ ~Included(cur) /\ UNCHANGED misses
            \/ Included(cur) /\ misses' = [misses EXCEPT ![cur] = @ + 1]
         /\ \/ tries < REORG_RETRY_COUNT /\ cpc' = "reorg" /\ tries' = tries + 1
            \/ tries >= REORG_RETRY_COUNT /\ cpc' = "reorged" /\ tries' = 0
  BY <1>t DEF CheckReorged
<1>4. cur \in reorged \/ misses[cur] >= tries
  BY <1>1 DEF DoubtsFounded
<1>5. \A g \in Hashes : g \in reorged' \/ misses'[g] > 0 => chain'[g] # "none"
  BY <1>1, <1>3, <1>t DEF DoubtsFounded, Included
<1>6. /\ bpc' \in {"sign", "send", "sent"} => chain'[bhash'] # "none"
      /\ \A k \in Keys : confirmedTxs'[k] # Nil => OnChain(confirmedTxs[k])'
  BY <1>1 DEF DoubtsFounded, OnChain, Included
<1>7. /\ cpc' # "handle"
      /\ cpc' = "reorg" => cur' \in reorged' \/ misses'[cur'] >= tries'
      /\ cpc' # "reorg" => tries' = 0
      /\ cpc' = "reorged" => Doubted(cur)'
  <2>1. CASE cur \in reorged
    BY <1>1, <1>3, <2>1 DEF Doubted
  <2>2. CASE cur \notin reorged
    <3>1. Included(cur)
      BY <1>2, <2>2 DEF OnChain
    <3>2. cpc' # "finalize" => misses'[cur] = misses[cur] + 1
      BY <1>1, <1>3, <1>t, <3>1
    <3>3. misses[cur] \in Nat
      BY <1>1, <1>t
    <3> QED
      BY <1>1, <1>3, <1>4, <1>t, <2>2, <3>2, <3>3 DEF Doubted
  <2> QED
    BY <2>1, <2>2
<1> QED
  BY <1>5, <1>6, <1>7 DEF DoubtsFounded

LEMMA ConfirmDoubts ==
    ASSUME Inv, TypeInv', DoubtsFounded, RetriesLimited, confirmLoop
    PROVE  DoubtsFounded'
<1> USE DEF confirmFrame
<1>t. StoreTypeOK
  BY DEF Inv, TypeInv, TypeOK
<1>c. \A k \in Keys : confirmedTxs[k] # Nil => OnChain(confirmedTxs[k])
  BY DEF DoubtsFounded
<1>q. ASSUME UNCHANGED <<storeVars, misses, tries, bVars>>, cpc # "reorg", cpc' # "reorged",
             UNCHANGED nodeVars \/ Fault("rpc"),
             cpc' = "handle" /\ seen' # "missing" => OnChain(cur')
      PROVE  DoubtsFounded'
  <2>1. UNCHANGED <<chain, reorged, confirmedTxs>> /\ tries' = 0
    BY <1>q DEF nodeVars, Fault, storeVars, maps, DoubtsFounded
  <2>2. \A k \in Keys : confirmedTxs'[k] # Nil => OnChain(confirmedTxs'[k])
    BY <1>c, <2>1
  <2> QED
    BY <1>q, <2>1, <2>2, PassDoubts
<1>1. CASE ConfirmTick \/ UnconfirmedChecked \/ FinalizedChecked \/ ConfirmStops
  BY <1>1, <1>q DEF ConfirmTick, UnconfirmedChecked, FinalizedChecked, ConfirmStops
<1>2. ASSUME NEW a \in Accounts, CollectUnconfirmed(a) \/ GetNowBlock(a) \/ CollectConfirmed(a)
      PROVE  DoubtsFounded'
  BY <1>2, <1>q DEF CollectUnconfirmed, GetNowBlock, CollectConfirmed
<1>3. ASSUME NEW h \in Hashes, QueryUnconfirmed(h) PROVE DoubtsFounded'
  <2>1. /\ seen' # "missing" => OnChain(cur')
        /\ UNCHANGED <<storeVars, misses, tries, bVars>> /\ cpc = "query" /\ cpc' = "handle"
        /\ UNCHANGED nodeVars \/ Fault("rpc")
    BY <1>3 DEF QueryUnconfirmed, InfoFullNode, OnChain
  <2> QED
    BY <1>q, <2>1
<1>4. ASSUME NEW h \in Hashes, QueryConfirmed(h) PROVE DoubtsFounded'
  BY <1>4, <1>q DEF QueryConfirmed
<1>m. ASSUME UNCHANGED <<misses, tries, bVars, nodeVars>>, cpc # "reorg",
             cpc' \notin {"handle", "reorged"},
             \A k \in Keys : confirmedTxs'[k] # Nil => OnChain(confirmedTxs'[k])
      PROVE  DoubtsFounded'
  <2>1. UNCHANGED <<chain, reorged>> /\ tries' = 0
    BY <1>m DEF nodeVars, DoubtsFounded
  <2> QED
    BY <1>m, <2>1, PassDoubts
<1>5. CASE HandleUnconfirmed
  <2> DEFINE r == TxOf(cur)
             k == KeyOf(cur)
  <2>1. /\ cpc = "handle" /\ cur \in Hashes /\ HandleResult(r) /\ UNCHANGED chan
        /\ UNCHANGED <<misses, tries, bVars, nodeVars>>
    BY <1>5 DEF HandleUnconfirmed, Inv, TypeInv, ControlOK
  <2>2. r \in Requests /\ k = Key[r] /\ k \in Keys /\ cur # Nil
    BY <2>1, HashParts DEF KeyOf
  <2>3. unconfirmedTxs[k] = cur
    BY <2>1, <2>2 DEF Inv, SerialInv, ConfirmInv, SnapshotCurrent, Snapshot, InUnconfirmedPass
  <2>4. \/ UNCHANGED storeVars /\ NextUnconfirmed
        \/ EntryMoves(cur) /\ NextUnconfirmed
        \/ ObjectRetried(cur) /\ cpc' = "retry"
    BY <2>1, <2>3, HandleResultSerial
  <2>5. seen = "success" \/ UNCHANGED confirmedTxs
    <3>1. unconfirmedTxs[Key[r]] \in Hashes /\ TxOf(unconfirmedTxs[Key[r]]) = r
      BY <2>1, <2>2, <2>3
    <3> QED
      BY <1>t, <2>1, <2>2, <3>1, HandleCounts
  <2>6. cpc' \notin {"handle", "reorged"}
    BY <2>4 DEF NextUnconfirmed
  <2>7. CASE UNCHANGED confirmedTxs
    BY <1>c, <1>m, <2>1, <2>6, <2>7
  <2>8. CASE seen = "success" /\ EntryMoves(cur)
    <3>1. OnChain(cur)
      BY <2>1, <2>8 DEF DoubtsFounded
    <3>2. \A i \in Keys : confirmedTxs'[i] \in {Nil, confirmedTxs[i], cur}
      BY <2>2, <2>8 DEF EntryMoves
    <3> HIDE DEF OnChain
    <3>3. \A i \in Keys : confirmedTxs'[i] # Nil => OnChain(confirmedTxs'[i])
      BY <1>c, <3>1, <3>2
    <3> QED
      BY <1>m, <2>1, <2>6, <3>3
  <2> QED
    BY <2>4, <2>5, <2>7, <2>8 DEF storeVars, maps, ObjectRetried
<1>6. CASE Retry
  <2>1. UNCHANGED confirmedTxs
    BY <1>6, RetrySerial
  <2> QED
    BY <1>6, <1>c, <1>m, <2>1 DEF Retry, NextUnconfirmed
<1>7. CASE HandleReorg \/ Finalize
  <2>1. \A k \in Keys : confirmedTxs'[k] \in {Nil, confirmedTxs[k]}
    BY <1>7, <1>t DEF HandleReorg, Finalize, OnReorg, OnFinalized, FinishConfirmed, Delete,
                      storeVars, maps, StoreTypeOK
  <2> HIDE DEF OnChain
  <2>2. \A k \in Keys : confirmedTxs'[k] # Nil => OnChain(confirmedTxs'[k])
    BY <1>c, <2>1
  <2> QED
    BY <1>7, <1>m, <2>2 DEF HandleReorg, Finalize, NextConfirmed
<1> QED
  BY <1>1, <1>2, <1>3, <1>4, <1>5, <1>6, <1>7, ReorgDoubts DEF confirmLoop

LEMMA NextDoubts ==
    ASSUME Inv, TypeInv', DoubtsFounded, RetriesLimited, [Next]_vars
    PROVE  DoubtsFounded'
<1>q. ASSUME UNCHANGED <<nodeVars, confirmedTxs, bVars, cVars>>
      PROVE  DoubtsFounded'
  BY <1>q, QuietDoubts DEF nodeVars, bVars, cVars
<1>1. CASE UNCHANGED vars
  BY <1>1, <1>q DEF vars, storeVars, maps
<1>2. CASE Start \/ Close \/ CloseReturns
  BY <1>2, <1>q DEF Start, Close, CloseReturns, storeVars, maps
<1>3. CASE \E r \in Requests : EnqueueRejected(r) \/ Enqueue(r)
  BY <1>3, <1>q DEF EnqueueRejected, Enqueue, EnqueueCheck, EnqueueStore, EnqueueSend,
                    OnPending, enqueueFrame, storeVars, maps
<1>4. CASE reapLoop \/ \E k \in Keys : Age(k)
  BY <1>4, <1>q DEF reapLoop, ReapScan, ReapDelete, ReapStops, Age, DeleteFinishedTxs,
                    reapFrame, storeVars, maps
<1> QED
  BY <1>1, <1>2, <1>3, <1>4, BroadcastDoubts, ConfirmDoubts, NetworkDoubts DEF Next

LEMMA NextBuilds ==
    ASSUME Inv, TypeInv', BuildInv, DoubtsFounded, [Next]_vars
    PROVE  BuildInv'
<1>t. TypeInv /\ misses \in [Hashes -> Nat]
  BY DEF Inv, TypeInv, TypeOK
<1>q. ASSUME UNCHANGED <<tx, unconfirmedTxs, confirmedTxs, nodeVars, enq, chan, bVars, cVars>>
      PROVE  BuildInv'
  <2>1. UNCHANGED <<chain, reorged, misses, bpc, btx, bhash, cpc, cur>>
    BY <1>q DEF nodeVars, bVars, cVars
  <2>2. ASSUME NEW r \in Requests, Due(r)' PROVE Due(r)
    BY <1>q, <2>1, <2>2 DEF Due
  <2>3. \A h \in Hashes : Lost(h) => Lost(h)'
    BY <1>q, <2>1 DEF Lost, Doubted, Live, InBroadcast
  <2> HIDE DEF Due, Lost
  <2> QED
    BY <1>q, <1>t, <2>1, <2>2, <2>3, AttemptsKept
<1>1. CASE UNCHANGED vars
  BY <1>1, <1>q DEF vars, storeVars, maps
<1>2. CASE Start \/ Close \/ CloseReturns
  BY <1>2, <1>q DEF Start, Close, CloseReturns, storeVars, maps
<1>3. CASE reapLoop \/ \E k \in Keys : Age(k)
  BY <1>3, <1>q DEF reapLoop, ReapScan, ReapDelete, ReapStops, Age, DeleteFinishedTxs,
                    reapFrame, storeVars, maps
<1> QED
  BY <1>t, <1>1, <1>2, <1>3, EnqueueBuilds, BroadcastBuilds, ConfirmBuilds, NetworkBuilds
  DEF Next

\* However the loops interleave, and whatever the node and the keystore do, the transactions
\* built from one object are bounded by its attempts, plus one for each of them that a
\* reorganisation removed or that a whole check of checkReorged missed, and the attempts
\* by MAX_RETRY_ATTEMPTS.
THEOREM BuildsAreBounded == Spec => [](SerialEnqueue => BuildsBounded)
<1> DEFINE Good == TypeInv /\ (SerialEnqueue => SerialInv)
           Safe == SerialEnqueue => BuildInv /\ DoubtsFounded
<1>1. Init => Safe
  BY InitBuilds
<1>2. Good /\ Good' /\ Safe /\ [Next]_vars => Safe'
  BY NextDoubts, NextBuilds DEF Inv, BuildInv
<1>3. Good /\ Safe => (SerialEnqueue => BuildsBounded)
  <2> SUFFICES ASSUME TypeInv, BuildInv, NEW r \in Requests
               PROVE  /\ Builds(r) <= tx[r].Attempt
                                        + Cardinality({h \in Hashes : TxOf(h) = r /\ Doubted(h)})
                      /\ tx[r].Attempt <= MAX_RETRY_ATTEMPTS
                      /\ tx[r].OutOfTimeErrors <= 2
    BY DEF BuildsBounded
  <2> DEFINE D == {h \in Hashes : TxOf(h) = r /\ Doubted(h)}
  <2>1. PICK b \in Nat, c \in Nat, a \in Nat :
          b = Builds(r) /\ c = Cardinality(Spent(r)) /\ a = tx[r].Attempt
    BY BuildsType DEF TypeInv, TypeOK, StoreTypeOK, TronTx
  <2>2. b + (IF Due(r) THEN 1 ELSE 0) <= a + c
    BY <2>1 DEF BuildInv, BuildsCovered
  <2>3. IsFiniteSet(D) /\ Cardinality(D) \in Nat
    BY BuiltFinite
  <2>4. Spent(r) \subseteq D
    BY DEF Spent, Lost
  <2> HIDE DEF D, Due
  <2>5. c <= Cardinality(D)
    BY <2>1, <2>3, <2>4, FS_Subset
  <2>6. b <= a + Cardinality(D)
    BY <2>2, <2>3, <2>5
  <2> QED
    BY <2>1, <2>6 DEF BuildInv, RetriesLimited, D
<1>4. Spec => []Good
  BY Invariance
<1> QED
  BY <1>1, <1>2, <1>3, <1>4, PTL DEF Spec
-----------------------------------------------------------------------------
(* Objects that nobody is going to broadcast *)

\* The channel holds as many objects as there are keys.
Room == IsFiniteSet(Keys) /\ Cardinality(Keys) <= BroadcastChanSize

\* The queued objects are the pending entries of different keys, so that a send for
\* another key finds room.
LEMMA RoomToSend ==
    ASSUME Inv, Room, NEW k \in Keys, \A i \in 1..Len(chan) : Key[chan[i]] # k
    PROVE  Len(chan) < BroadcastChanSize
<1> DEFINE f == [i \in 1..Len(chan) |-> Key[chan[i]]]
<1>0. chan \in Seq(Requests) /\ Len(chan) \in Nat
  BY DEF Inv, TypeInv, TypeOK
<1>1. \A i \in 1..Len(chan) : chan[i] \in Requests /\ Key[chan[i]] \in Keys
  BY <1>0, HashParts
<1>2. ASSUME NEW i \in 1..Len(chan), NEW j \in 1..Len(chan), Key[chan[i]] = Key[chan[j]]
      PROVE  i = j
  <2>1. chan[i] = chan[j]
    BY <1>2 DEF Inv, SerialInv, SingleBroadcaster
  <2> QED
    BY <2>1 DEF Inv, SerialInv, SingleBroadcaster
<1>3. f \in Injection(1..Len(chan), Keys \ {k})
  BY <1>1, <1>2 DEF Injection, IsInjective
<1>4. IsFiniteSet(Keys \ {k}) /\ Cardinality(Keys \ {k}) = Cardinality(Keys) - 1
  BY FS_RemoveElement DEF Room
<1>5. Cardinality(1..Len(chan)) <= Cardinality(Keys \ {k})
  BY <1>3, <1>4, FS_Injection
<1>6. Cardinality(1..Len(chan)) = Len(chan)
  <2>1. 1 \in Int /\ Len(chan) \in Int
    BY <1>0
  <2>2. Cardinality(1..Len(chan)) = IF 1 > Len(chan) THEN 0 ELSE Len(chan) - 1 + 1
    BY <2>1, FS_Interval
  <2> QED
    BY <1>0, <2>2
<1>7. Cardinality(Keys) \in Nat
  BY FS_CardinalityType DEF Room
<1> QED
  BY <1>0, <1>4, <1>5, <1>6, <1>7, TxmAssumption DEF Room

\* So the object is queued.
LEMMA SendFindsRoom ==
    ASSUME Inv, Room, NEW r \in Requests, \A i \in 1..Len(chan) : Key[chan[i]] # Key[r],
           TrySend(r)
    PROVE  \E i \in 1..Len(chan') : chan'[i] = r
<1>1. chan' = Append(chan, r)
  BY RoomToSend, HashParts DEF TrySend
<1>2. Len(chan') = Len(chan) + 1 /\ chan'[Len(chan) + 1] = r /\ Len(chan) \in Nat
  BY <1>1 DEF Inv, TypeInv, TypeOK
<1> QED
  BY <1>2

\* A step that keeps the pending entry, the call of Enqueue and the broadcaster of an object
\* does not strand it.
LEMMA NotNewlyStranded ==
    ASSUME NEW r \in Requests, Stranded(r)', pendingTxs[Key[r]] = pendingTxs'[Key[r]],
           enq'[r] = enq[r], btx # r, \A i \in 1..Len(chan) : chan[i] = r =>
                                         \E j \in 1..Len(chan') : chan'[j] = r
    PROVE  Stranded(r)
  BY DEF Stranded

\* The confirm loop moves an entry: no object that it returns to pending is stranded.
LEMMA MoveStrands ==
    ASSUME Inv, Room, NEW h \in Hashes, EntryMoves(h), UNCHANGED <<btx, enq>>,
           unconfirmedTxs[KeyOf(h)] = h \/ confirmedTxs[KeyOf(h)] = h,
           UNCHANGED pendingTxs \/ TrySend(TxOf(h)), NEW r \in Requests, Stranded(r)'
    PROVE  Stranded(r)
<1>0. /\ TxOf(h) \in Requests /\ KeyOf(h) = Key[TxOf(h)] /\ KeyOf(h) \in Keys /\ h # Nil
      /\ Key[r] \in Keys /\ r # Nil /\ chan \in Seq(Requests)
  BY HashParts DEF KeyOf, Inv, TypeInv, TypeOK
<1>1. pendingTxs[KeyOf(h)] = Nil
  BY <1>0 DEF Inv, SerialInv, StoreInv, SingleHome
<1>2. \A i \in 1..Len(chan) : \E j \in 1..Len(chan') : chan'[j] = chan[i]
  <2>1. chan' = chan \/ chan' = Append(chan, TxOf(h))
    BY DEF EntryMoves
  <2> QED
    BY <1>0, <2>1
<1>3. Key[r] # KeyOf(h)
  <2> SUFFICES ASSUME Key[r] = KeyOf(h) PROVE FALSE
    OBVIOUS
  <2>1. pendingTxs'[KeyOf(h)] = r
    BY DEF Stranded
  <2>2. r = TxOf(h) /\ TrySend(r)
    BY <1>0, <1>1, <2>1 DEF EntryMoves
  <2>3. \A i \in 1..Len(chan) : Key[chan[i]] # Key[r]
    <3> SUFFICES ASSUME NEW i \in 1..Len(chan), Key[chan[i]] = Key[r] PROVE FALSE
      OBVIOUS
    <3>1. chan[i] \in Requests /\ chan[i] # Nil
      BY <1>0, HashParts
    <3>2. pendingTxs[Key[r]] = chan[i]
      BY DEF Inv, SerialInv, SingleBroadcaster
    <3> QED
      BY <1>1, <3>1, <3>2
  <2> QED
    BY <2>2, <2>3, SendFindsRoom DEF Stranded
<1>4. pendingTxs'[Key[r]] = pendingTxs[Key[r]]
  BY <1>0, <1>3 DEF EntryMoves
<1> QED
  BY <1>2, <1>4, NotNewlyStranded DEF Stranded

\* The send of Enqueue finds room, too.
LEMMA EnqueueStrands ==
    ASSUME Inv, Room, NEW q \in Requests, EnqueueRejected(q) \/ Enqueue(q),
           NEW r \in Requests, Stranded(r)'
    PROVE  Stranded(r)
<1>t. /\ enq \in [Requests -> {"new", "rejected", "ignored", "checked", "stored",
                               "accepted", "failed"}]
      /\ chan \in Seq(Requests) /\ StoreTypeOK
      /\ Key[q] \in Keys /\ Key[r] \in Keys
  BY HashParts DEF Inv, TypeInv, TypeOK
<1>1. CASE EnqueueRejected(q) \/ EnqueueCheck(q)
  <2>1. /\ enq' = [enq EXCEPT ![q] = enq'[q]] /\ enq'[q] \in {"rejected", "ignored", "checked"}
        /\ UNCHANGED <<pendingTxs, chan, btx>>
    BY <1>1, <1>t DEF EnqueueRejected, EnqueueCheck, enqueueFrame, bVars, storeVars, maps
  <2>2. r # q
    BY <2>1 DEF Stranded
  <2>3. enq'[r] = enq[r]
    BY <1>t, <2>1, <2>2
  <2> QED
    BY <2>1, <2>3 DEF Stranded
<1>2. CASE EnqueueStore(q)
  <2>1. /\ enq' = [enq EXCEPT ![q] = "stored"] /\ enq[q] = "checked"
        /\ OnPending(q, FALSE) /\ UNCHANGED <<tx, chan, btx>>
    BY <1>2 DEF EnqueueStore, enqueueFrame, bVars
  <2>2. enq'[q] = "stored" /\ (r # q => enq'[r] = enq[r])
    BY <1>t, <2>1
  <2>3. r # q
    BY <2>2 DEF Stranded
  <2>4. pendingTxs' = Put(pendingTxs, Key[q], q)
    BY <1>t, <2>1, OnPendingNew DEF Inv, SerialInv, EnqueueOwnsKey
  <2>5. Key[r] # Key[q]
    BY <1>t, <2>3, <2>4 DEF Stranded, Put, StoreTypeOK
  <2>6. pendingTxs'[Key[r]] = pendingTxs[Key[r]]
    BY <1>t, <2>4, <2>5 DEF Put, StoreTypeOK
  <2> QED
    BY <2>1, <2>2, <2>3, <2>6 DEF Stranded
<1>3. CASE EnqueueSend(q)
  <2>1. /\ TrySend(q) /\ enq[q] = "stored" /\ \A p \in Requests : p # q => enq'[p] = enq[p]
        /\ UNCHANGED <<pendingTxs, btx>>
    BY <1>3, <1>t DEF EnqueueSend, enqueueFrame, bVars, storeVars, maps
  <2>2. \A i \in 1..Len(chan) : \E j \in 1..Len(chan') : chan'[j] = chan[i]
    BY <1>t, <2>1 DEF TrySend
  <2>3. \A i \in 1..Len(chan) : Key[chan[i]] # Key[q]
    BY <2>1 DEF Inv, SerialInv, EnqueueOwnsKey, SingleBroadcaster
  <2>4. r # q
    BY <2>1, <2>3, SendFindsRoom DEF Stranded
  <2> QED
    BY <2>1, <2>2, <2>4, NotNewlyStranded DEF Stranded
<1> QED
  BY <1>1, <1>2, <1>3 DEF Enqueue

\* A broadcast that ends without its object being out has failed.
LEMMA BroadcastStrands ==
    ASSUME Inv, broadcastLoop, NEW r \in Requests, Stranded(r)'
    PROVE  Stranded(r) \/ r \in failed'
<1> USE DEF broadcastFrame
<1>t. /\ chan \in Seq(Requests) /\ StoreTypeOK /\ Key[r] \in Keys /\ r # Nil
  BY HashParts DEF Inv, TypeInv, TypeOK
<1>1. CASE BroadcastReceive
  <2>1. /\ chan # <<>> /\ btx' = Head(chan) /\ chan' = Tail(chan)
        /\ UNCHANGED <<pendingTxs, enq>> /\ bpc = "idle"
    BY <1>1 DEF BroadcastReceive, storeVars, maps
  <2>2. btx = Nil
    BY <2>1 DEF Inv, TypeInv, ControlOK
  <2>3. \A i \in 1..Len(chan) : chan[i] = btx' \/ \E j \in 1..Len(chan') : chan'[j] = chan[i]
    <3>1. ASSUME NEW i \in 1..Len(chan), i # 1
          PROVE  \E j \in 1..Len(chan') : chan'[j] = chan[i]
      <4>1. (i - 1) \in 1..Len(chan') /\ chan'[i - 1] = chan[i]
        BY <1>t, <2>1, <3>1
      <4> QED
        BY <4>1
    <3>2. btx' = chan[1]
      BY <1>t, <2>1
    <3> QED
      BY <3>1, <3>2
  <2> QED
    BY <1>t, <2>1, <2>2, <2>3 DEF Stranded
<1>2. ASSUME UNCHANGED <<pendingTxs, enq, chan, btx>> PROVE Stranded(r)
  BY <1>2 DEF Stranded
<1>3. ASSUME UNCHANGED storeVars, BroadcastIdle, failed' = failed \cup {btx}
      PROVE  Stranded(r) \/ r \in failed'
  BY <1>3 DEF Stranded, BroadcastIdle, storeVars, maps
<1>4. CASE PrepareFails
  BY <1>3, <1>4 DEF PrepareFails
<1>5. CASE SignFails \/ SendRejected
  BY <1>3, <1>5, FailedBroadcastIsIgnored DEF SignFails, SendRejected, BroadcastFailed
<1>6. CASE PrepareTx \/ PreparePanics \/ SignTx \/ SendAccepted \/ SendBusy \/ SendPanics
             \/ BroadcastStops
  BY <1>2, <1>6 DEF PrepareTx, PreparePanics, SignTx, SendAccepted, SendBusy, SendPanics,
                    BroadcastStops, storeVars, maps, bVars
<1>7. CASE Broadcasted
  <2>1. /\ OnBroadcasted(bhash) /\ bhash \in Hashes /\ TxOf(bhash) = btx /\ btx \in Requests
        /\ UNCHANGED <<enq, chan>>
    BY <1>7 DEF Broadcasted, BroadcastIdle, Inv, TypeInv, ControlOK
  <2>2. KeyOf(bhash) = Key[btx] /\ Key[btx] \in Keys /\ pendingTxs[Key[btx]] = btx
    BY <2>1, HashParts DEF KeyOf, Inv, SerialInv, SingleBroadcaster
  <2>3. pendingTxs' = Delete(pendingTxs, Key[btx])
    BY <1>t, <2>1, <2>2, OnBroadcastedPending DEF Inv, SerialInv
  <2>4. Key[r] # Key[btx]
    BY <1>t, <2>2, <2>3 DEF Stranded, Delete, StoreTypeOK
  <2>5. pendingTxs'[Key[r]] = pendingTxs[Key[r]]
    BY <1>t, <2>2, <2>3, <2>4 DEF Delete, StoreTypeOK
  <2> QED
    BY <2>1, <2>4, <2>5 DEF Stranded
<1> QED
  BY <1>1, <1>4, <1>5, <1>6, <1>7 DEF broadcastLoop

\* What checkUnconfirmed does with an answer leaves the pending entries alone.
LEMMA HandleKeepsPending ==
    ASSUME NEW r \in Requests, unconfirmedTxs[Key[r]] # Nil, HandleResult(r)
    PROVE  UNCHANGED pendingTxs
<1>1. ASSUME NEW b \in BOOLEAN, NEW o \in BOOLEAN, maybeRetry(r, b, o)
      PROVE  UNCHANGED pendingTxs
  BY <1>1 DEF maybeRetry, OnErrored, FinishUnconfirmed, Finish, maps
<1>2. CASE OnConfirmed(Key[r])
  BY <1>2 DEF OnConfirmed, storeVars, maps
<1>3. CASE OnFatalError(Key[r])
  BY <1>3 DEF OnFatalError, FinishUnconfirmed, Finish
<1>4. CASE UNCHANGED storeVars
  BY <1>4 DEF storeVars, maps
<1> QED
  BY <1>1, <1>2, <1>3, <1>4 DEF HandleResult

LEMMA ConfirmStrands ==
    ASSUME Inv, Room, confirmLoop, NEW r \in Requests, Stranded(r)'
    PROVE  Stranded(r)
<1> USE DEF confirmFrame
<1>0. UNCHANGED <<btx, enq>>
  BY DEF confirmLoop, ConfirmTick, CollectUnconfirmed, GetNowBlock, CollectConfirmed,
         QueryUnconfirmed, QueryConfirmed, UnconfirmedChecked, CheckReorged, HandleReorg,
         Finalize, FinalizedChecked, ConfirmStops, NextConfirmed, HandleUnconfirmed, Retry,
         bVars
<1>t. StoreTypeOK
  BY DEF Inv, TypeInv, TypeOK
<1>q. ASSUME UNCHANGED <<pendingTxs, chan>> PROVE Stranded(r)
  BY <1>0, <1>q DEF Stranded
<1>1. CASE HandleUnconfirmed
  <2>1. cpc = "handle" /\ cur \in Hashes /\ HandleResult(TxOf(cur)) /\ UNCHANGED chan
    BY <1>1 DEF HandleUnconfirmed, Inv, TypeInv, ControlOK
  <2>2. /\ unconfirmedTxs[KeyOf(cur)] = cur /\ cur # Nil
        /\ TxOf(cur) \in Requests /\ KeyOf(cur) = Key[TxOf(cur)]
    BY <2>1, HashParts
    DEF Inv, SerialInv, ConfirmInv, SnapshotCurrent, Snapshot, InUnconfirmedPass, KeyOf
  <2>3. UNCHANGED pendingTxs
    BY <2>1, <2>2, HandleKeepsPending
  <2> QED
    BY <1>q, <2>1, <2>3
<1>5. CASE Retry
  BY <1>0, <1>5, RetrySerial, MoveStrands
<1>2. CASE HandleReorg
  <2>1. cpc = "reorged" /\ cur \in Hashes /\ OnReorg(KeyOf(cur))
    BY <1>2 DEF HandleReorg, Inv, TypeInv, ControlOK
  <2>2. confirmedTxs[KeyOf(cur)] = cur /\ cur # Nil /\ KeyOf(cur) \in Keys
    BY <2>1, HashParts DEF Inv, SerialInv, ConfirmInv, SnapshotCurrent, Snapshot, InUnconfirmedPass
  <2>3. TrySend(TxOf(cur))
    BY <1>2, <2>2 DEF HandleReorg
  <2>4. /\ confirmedTxs' = Delete(confirmedTxs, KeyOf(cur))
        /\ pendingTxs' = Put(pendingTxs, KeyOf(cur), TxOf(cur))
        /\ UNCHANGED <<unconfirmedTxs, finishedTxs>>
        /\ \A q \in Requests : q # TxOf(cur) => tx'[q] = tx[q]
    BY <1>t, <2>1, <2>2, OnReorgConfirmed DEF Inv, SerialInv
  <2>5. unconfirmedTxs[KeyOf(cur)] = Nil /\ finishedTxs[KeyOf(cur)] = Nil
    BY <2>2 DEF Inv, SerialInv, StoreInv, SingleHome
  <2>6. EntryMoves(cur)
    BY <1>t, <2>2, <2>3, <2>4, <2>5 DEF EntryMoves, Put, Delete, StoreTypeOK, TrySend
  <2> QED
    BY <1>0, <2>1, <2>2, <2>3, <2>6, MoveStrands
<1>3. CASE Finalize
  BY <1>q, <1>3 DEF Finalize, OnFinalized, FinishConfirmed, Finish, storeVars, maps
<1>4. CASE ~HandleUnconfirmed /\ ~Retry /\ ~HandleReorg /\ ~Finalize
  BY <1>q, <1>4
  DEF confirmLoop, ConfirmTick, CollectUnconfirmed, GetNowBlock, CollectConfirmed,
      QueryUnconfirmed, QueryConfirmed, UnconfirmedChecked, CheckReorged,
      FinalizedChecked, ConfirmStops, storeVars, maps
<1> QED
  BY <1>1, <1>2, <1>3, <1>4, <1>5

\* A failed broadcast is not forgotten.
LEMMA FailedStays ==
    ASSUME [Next]_vars
    PROVE  failed \subseteq failed'
<1>1. CASE broadcastLoop
  BY <1>1 DEF broadcastLoop, BroadcastReceive, PrepareFails, PreparePanics, PrepareTx, SignTx,
              SignFails, SendAccepted, SendBusy, SendRejected, SendPanics, Broadcasted,
              BroadcastStops, BroadcastFailed, bVars
<1>2. CASE confirmLoop
  BY <1>2 DEF confirmLoop, ConfirmTick, CollectUnconfirmed, GetNowBlock, CollectConfirmed,
              QueryUnconfirmed, QueryConfirmed, UnconfirmedChecked, CheckReorged, HandleReorg,
              Finalize, FinalizedChecked, ConfirmStops, NextConfirmed, HandleUnconfirmed,
              Retry, confirmFrame, bVars
<1>3. CASE UNCHANGED vars \/ Start \/ Close \/ CloseReturns \/ Network
             \/ reapLoop \/ \E k \in Keys : Age(k)
  BY <1>3 DEF vars, Start, Close, CloseReturns, Network, reapLoop, ReapScan, ReapDelete,
              ReapStops, Age, reapFrame, bVars
<1>4. CASE \E r \in Requests : EnqueueRejected(r) \/ Enqueue(r)
  BY <1>4 DEF EnqueueRejected, Enqueue, EnqueueCheck, EnqueueStore, EnqueueSend,
              enqueueFrame, bVars
<1> QED
  BY <1>1, <1>2, <1>3, <1>4 DEF Next

\* An object that is pending without anybody going to broadcast it got there by a broadcast
\* of its own that failed: with room in the channel for every key no send is dropped.
THEOREM OnlyFailuresStrand == Spec => [](SerialEnqueue /\ Room => StrandedByFailure)
<1> DEFINE Good == TypeInv /\ (SerialEnqueue => SerialInv)
           Safe == SerialEnqueue /\ Room => StrandedByFailure
<1>1. Init => Safe
  BY HashParts DEF Init, NewTxStore, Stranded, StrandedByFailure
<1>2. Good /\ Safe /\ [Next]_vars => Safe'
  <2> SUFFICES ASSUME Inv, StrandedByFailure, [Next]_vars, Room,
                      NEW r \in Requests, Stranded(r)'
               PROVE  r \in failed'
    BY DEF Inv, Room, StrandedByFailure
  <2>1. ASSUME Stranded(r) PROVE r \in failed'
    BY <2>1, FailedStays DEF StrandedByFailure
  <2>2. CASE UNCHANGED vars \/ Start \/ Close \/ CloseReturns \/ Network
               \/ reapLoop \/ \E k \in Keys : Age(k)
    <3>1. UNCHANGED <<pendingTxs, enq, btx, chan>>
      BY <2>2 DEF vars, Start, Close, CloseReturns, Network, reapLoop, ReapScan, ReapDelete,
                  ReapStops, Age, DeleteFinishedTxs, reapFrame, bVars, storeVars, maps
    <3>2. Stranded(r)
      BY <3>1 DEF Stranded
    <3> QED
      BY <2>1, <3>2
  <2> QED
    BY <2>1, <2>2, EnqueueStrands, BroadcastStrands, ConfirmStrands DEF Next
<1>3. Spec => []Good
  BY Invariance
<1> QED
  BY <1>1, <1>2, <1>3, PTL DEF Spec
=============================================================================
