------------------------------ MODULE TronTxm ------------------------------
(***************************************************************************)
(* The Tron transaction manager (relayer/txm/txm.go): callers of Enqueue,  *)
(* the broadcast, confirm and reap loops, and Start and Close, over the    *)
(* transaction store (TxStore) and the network (TronNode).                 *)
(*                                                                         *)
(* Every goroutine is a program counter.  A step ends where another        *)
(* goroutine or the network may act in between: before and after every     *)
(* operation of the store, every channel operation and every RPC, and      *)
(* after the lines of maybeRetry that change the object, which hold no     *)
(* lock.  There are two exceptions: maybeRetry and checkFinalized move     *)
(* their entry to the pending map and try to send its object in one step.  *)
(* What others do between the two has the same effect before the move: the *)
(* key is taken in either map, and the send looks only at the length of    *)
(* the channel.                                                            *)
(*                                                                         *)
(* failed and misses (and reorged of TronNode) are history: no step of the *)
(* program looks at them.                                                  *)
(***************************************************************************)
EXTENDS TxStore, TronNode, Sequences, FiniteSets

CONSTANTS MAX_RETRY_ATTEMPTS,  \* 5 in the code
          REORG_RETRY_COUNT,   \* 3 in the code
          BroadcastChanSize,   \* capacity of BroadcastChan
          MayClose,            \* TRUE: the service may be closed
          SerialEnqueue        \* TRUE: no two calls of Enqueue that carry the
                               \* same key overlap in time

ASSUME TxmAssumption ==
    /\ MAX_RETRY_ATTEMPTS \in Nat \ {0}
    /\ REORG_RETRY_COUNT \in Nat
    /\ BroadcastChanSize \in Nat \ {0}
    /\ MayClose \in BOOLEAN
    /\ SerialEnqueue \in BOOLEAN

VARIABLES life,      \* Start and Close; "crashed" after a panic
          enq,       \* progress of every call of Enqueue
          chan,      \* BroadcastChan: objects to broadcast
          bpc, btx,  \* broadcastLoop: control, the object it works on
          bhash,     \* and the hash of the transaction built from it
          failed,    \* history: the objects whose broadcast failed
          cpc,       \* confirmLoop: control
          accs,      \* accounts whose snapshot is not taken yet
          todo,      \* snapshot entries that are not handled yet
          cacc,      \* account of the inner loop of checkUnconfirmed
          late,      \* entries whose expiration lies before its nowBlock
          cur,       \* entry being handled
          seen,      \* what the query for cur returned
          tries,     \* failed queries of checkReorged
          misses,    \* history: how many of them failed for a transaction
                     \* that was on the chain
          rpc,       \* reapLoop: control
          reapIds    \* idsToDelete of the reaper

bVars == <<bpc, btx, bhash, failed>>
cVars == <<cpc, accs, todo, cacc, late, cur, seen, tries, misses>>
rVars == <<rpc, reapIds>>
vars == <<storeVars, nodeVars, life, enq, chan, bVars, cVars, rVars>>

TypeOK ==
    /\ StoreTypeOK
    /\ NodeTypeOK
    /\ life \in {"new", "running", "closing", "closed", "crashed"}
    /\ enq \in [Requests -> {"new", "rejected", "ignored", "checked", "stored",
                             "accepted", "failed"}]
    /\ chan \in Seq(Requests)
    /\ Len(chan) <= BroadcastChanSize
    /\ bpc \in {"idle", "prepare", "sign", "send", "sent", "done"}
    /\ btx \in Requests \cup {Nil}
    /\ bhash \in Hashes \cup {Nil}
    /\ failed \in SUBSET Requests
    /\ cpc \in {"idle", "collectU", "block", "query", "handle", "retry", "collectC",
                "solidity", "reorg", "reorged", "finalize", "done"}
    /\ accs \in SUBSET Accounts
    /\ todo \in SUBSET Hashes
    /\ cacc \in Accounts \cup {Nil}
    /\ late \in SUBSET Hashes
    /\ cur \in Hashes \cup {Nil}
    /\ seen \in Results \cup {"missing"}
    /\ tries \in 0..REORG_RETRY_COUNT
    /\ misses \in [Hashes -> Nat]
    /\ rpc \in {"idle", "delete", "done"}
    /\ reapIds \in SUBSET Keys

Init ==
    /\ NewTxStore
    /\ NodeInit
    /\ life = "new"
    /\ enq = [r \in Requests |-> "new"]
    /\ chan = <<>>
    /\ bpc = "idle" /\ btx = Nil /\ bhash = Nil /\ failed = {}
    /\ cpc = "idle" /\ accs = {} /\ todo = {} /\ cacc = Nil /\ late = {}
    /\ cur = Nil /\ seen = "missing" /\ tries = 0
    /\ misses = [h \in Hashes |-> 0]
    /\ rpc = "idle" /\ reapIds = {}

\* The goroutines exist: after Start, until they see Stop.
Looping == life \in {"running", "closing"}

\* Mutant: the send does not mind the capacity.
SendAnyway(r) == chan' = Append(chan, r)

\* A select with a default branch: the object is dropped when the channel is full.
TrySend(r) == chan' = IF Len(chan) < BroadcastChanSize THEN Append(chan, r)
                                                       ELSE chan
-----------------------------------------------------------------------------
(* Service *)

Start == life = "new" /\ life' = "running"
         /\ UNCHANGED <<storeVars, nodeVars, enq, chan, bVars, cVars, rVars>>

Close == MayClose /\ life = "running" /\ life' = "closing"
         /\ UNCHANGED <<storeVars, nodeVars, enq, chan, bVars, cVars, rVars>>

\* Done.Wait() returns.
CloseReturns ==
    /\ life = "closing"
    /\ bpc = "done" /\ cpc = "done" /\ rpc = "done"
    /\ life' = "closed"
    /\ UNCHANGED <<storeVars, nodeVars, enq, chan, bVars, cVars, rVars>>
-----------------------------------------------------------------------------
(* Enqueue: callable in every state of the service. *)

enqueueFrame == <<nodeVars, life, bVars, cVars, rVars>>

EnqueueRejected(r) ==
    /\ enq[r] = "new"
    /\ life # "crashed"
    /\ enq' = [enq EXCEPT ![r] = "rejected"]
    /\ UNCHANGED <<enqueueFrame, storeVars, chan>>

EnqueueCheck(r) ==
    /\ enq[r] = "new"
    /\ life # "crashed"
    /\ SerialEnqueue => \A q \in Requests :
                           Key[q] = Key[r] => enq[q] \notin {"checked", "stored"}
    /\ enq' = [enq EXCEPT ![r] = IF Has(Key[r]) THEN "ignored" ELSE "checked"]
    /\ UNCHANGED <<enqueueFrame, storeVars, chan>>

EnqueueStore(r) ==
    /\ enq[r] = "checked"
    /\ life # "crashed"
    /\ enq' = [enq EXCEPT ![r] = "stored"]
    /\ UNCHANGED tx
    /\ OnPending(r, FALSE)
    /\ UNCHANGED <<enqueueFrame, chan>>

EnqueueSend(r) ==
    /\ enq[r] = "stored"
    /\ life # "crashed"
    /\ TrySend(r)
    /\ enq' = [enq EXCEPT ![r] = IF Len(chan) < BroadcastChanSize
                                 THEN "accepted" ELSE "failed"]
    /\ UNCHANGED <<enqueueFrame, storeVars>>
-----------------------------------------------------------------------------
(* broadcastLoop *)

broadcastFrame == <<enq, cVars, rVars>>

BroadcastReceive ==
    /\ Looping
    /\ bpc = "idle"
    /\ chan # <<>>
    /\ bpc' = "prepare"
    /\ btx' = Head(chan)
    /\ chan' = Tail(chan)
    /\ UNCHANGED <<broadcastFrame, storeVars, nodeVars, life, bhash, failed>>

BroadcastIdle ==
    /\ bpc' = "idle"
    /\ btx' = Nil
    /\ bhash' = Nil
    /\ UNCHANGED <<broadcastFrame, life, chan>>

\* calculateFeeLimit, computeRefBlockBytesAndHash or BuildTransaction fails:
\* the loop continues with the next object and tells nobody.
PrepareFails ==
    /\ Looping
    /\ bpc = "prepare"
    /\ Fault("prepare")
    /\ BroadcastIdle
    /\ failed' = failed \cup {btx}
    /\ UNCHANGED storeVars

\* computeRefBlockBytesAndHash reads the raw data of a block that came without, or
\* slices a block id that is too short.
PreparePanics ==
    /\ Looping
    /\ bpc = "prepare"
    /\ Fault("malformed")
    /\ life' = "crashed"
    /\ UNCHANGED <<broadcastFrame, storeVars, chan, bVars>>

PrepareTx ==
    /\ Looping
    /\ bpc = "prepare"
    /\ \E h \in Hashes : Build(btx, h) /\ bhash' = h
    /\ bpc' = "sign"
    /\ UNCHANGED <<broadcastFrame, storeVars, life, chan, btx, failed>>

\* SignAndBroadcast returns an error: the object is meant to fail fatally.
BroadcastFailed ==
    /\ OnFatalError(Key[btx])
    /\ BroadcastIdle
    /\ failed' = failed \cup {btx}

SignTx ==
    /\ Looping
    /\ bpc = "sign"
    /\ bpc' = "send"
    /\ UNCHANGED <<broadcastFrame, storeVars, nodeVars, life, chan, btx, bhash, failed>>

\* The context passed to the keystore is cancelled by Close.
SignFails ==
    /\ Looping
    /\ bpc = "sign"
    /\ \/ Fault("sign")
       \/ life = "closing" /\ UNCHANGED nodeVars
    /\ BroadcastFailed

SendAccepted ==
    /\ Looping
    /\ bpc = "send"
    /\ Accept(bhash)
    /\ bpc' = "sent"
    /\ UNCHANGED <<broadcastFrame, storeVars, life, chan, btx, bhash, failed>>

\* SERVER_BUSY or BLOCK_UNSOLIDIFIED, and time is left to try again.
SendBusy ==
    /\ Looping
    /\ bpc = "send"
    /\ Fault("busy")
    /\ UNCHANGED <<broadcastFrame, storeVars, life, chan, bVars>>

\* Still busy after MAX_BROADCAST_RETRY_DURATION, or any other response code.
SendRejected ==
    /\ Looping
    /\ bpc = "send"
    /\ \/ Fault("busy")
       \/ Fault("reject")
       \/ bhash \in expired /\ UNCHANGED nodeVars
    /\ BroadcastFailed

\* No response: BroadcastTransaction returns a nil response with the error, and
\* broadcastTx reads its field Result.  The node may have got the transaction.
SendPanics ==
    /\ Looping
    /\ bpc = "send"
    /\ "http" \in Faults
    /\ faults < MaxFaults
    /\ faults' = faults + 1
    /\ \/ UNCHANGED chain
       \/ bhash \notin expired /\ chain' = [chain EXCEPT ![bhash] = "pool"]
    /\ life' = "crashed"
    /\ UNCHANGED <<broadcastFrame, storeVars, expired, solid, reorged, chan, bVars>>

Broadcasted ==
    /\ Looping
    /\ bpc = "sent"
    /\ OnBroadcasted(bhash)
    /\ BroadcastIdle
    /\ UNCHANGED <<nodeVars, failed>>

BroadcastStops ==
    /\ life = "closing"
    /\ bpc = "idle"
    /\ bpc' = "done"
    /\ UNCHANGED <<broadcastFrame, storeVars, nodeVars, life, chan, btx, bhash, failed>>

broadcastLoop ==
    \/ BroadcastReceive \/ PrepareFails \/ PreparePanics \/ PrepareTx
    \/ SignTx \/ SignFails
    \/ SendAccepted \/ SendBusy \/ SendRejected \/ SendPanics
    \/ Broadcasted \/ BroadcastStops
-----------------------------------------------------------------------------
(* confirmLoop: checkUnconfirmed, then checkFinalized, at every tick. *)

confirmFrame == <<enq, bVars, rVars>>

ConfirmTick ==
    /\ Looping
    /\ cpc = "idle"
    /\ cpc' = "collectU"
    /\ accs' = Accounts
    /\ UNCHANGED <<confirmFrame, storeVars, nodeVars, life, chan,
                   todo, cacc, late, cur, seen, tries, misses>>

\* GetAllUnconfirmed locks the stores of the accounts one after the other.
CollectUnconfirmed(a) ==
    /\ Looping
    /\ cpc = "collectU"
    /\ a \in accs
    /\ accs' = accs \ {a}
    /\ todo' = todo \cup GetUnconfirmed(a)
    /\ cpc' = IF accs = {a} THEN "block" ELSE cpc
    /\ UNCHANGED <<confirmFrame, storeVars, nodeVars, life, chan,
                   cacc, late, cur, seen, tries, misses>>

\* Mutant: every entry counts as expired.
GetNowBlockLate(a) ==
    /\ Looping
    /\ cpc = "block"
    /\ OfAccount(todo, a) # {}
    /\ \/ /\ cpc' = "query"
          /\ cacc' = a
          /\ late' = OfAccount(todo, a)
          /\ UNCHANGED <<nodeVars, todo>>
       \/ /\ Fault("rpc")
          /\ todo' = todo \ OfAccount(todo, a)
          /\ UNCHANGED <<cpc, cacc, late>>
    /\ UNCHANGED <<confirmFrame, storeVars, life, chan, accs, cur, seen, tries, misses>>

\* The block whose timestamp decides for all entries of the account.
GetNowBlock(a) ==
    /\ Looping
    /\ cpc = "block"
    /\ OfAccount(todo, a) # {}
    /\ \/ /\ cpc' = "query"
          /\ cacc' = a
          /\ late' = OfAccount(todo, a) \cap expired
          /\ UNCHANGED <<nodeVars, todo>>
       \/ /\ Fault("rpc")
          /\ todo' = todo \ OfAccount(todo, a)
          /\ UNCHANGED <<cpc, cacc, late>>
    /\ UNCHANGED <<confirmFrame, storeVars, life, chan, accs, cur, seen, tries, misses>>

\* Mutant: the entry is visited again.
QueryUnconfirmedAgain(h) ==
    /\ Looping
    /\ cpc = "query"
    /\ h \in OfAccount(todo, cacc)
    /\ cpc' = "handle"
    /\ cur' = h
    /\ \/ seen' = InfoFullNode(h) /\ UNCHANGED nodeVars
       \/ seen' = "missing" /\ Included(h) /\ Fault("rpc")
    /\ UNCHANGED <<confirmFrame, storeVars, life, chan, accs, todo, cacc, late, tries, misses>>

QueryUnconfirmed(h) ==
    /\ Looping
    /\ cpc = "query"
    /\ h \in OfAccount(todo, cacc)
    /\ cpc' = "handle"
    /\ cur' = h
    /\ todo' = todo \ {h}
    /\ \/ seen' = InfoFullNode(h) /\ UNCHANGED nodeVars
       \/ seen' = "missing" /\ Included(h) /\ Fault("rpc")
    /\ UNCHANGED <<confirmFrame, storeVars, life, chan, accs, cacc, late, tries, misses>>

Retried(r, bumpEnergy, isOutOfTimeError) ==
    [tx EXCEPT ![r] =
        [State           |-> "Pending",
         Attempt         |-> tx[r].Attempt + 1,
         OutOfTimeErrors |-> tx[r].OutOfTimeErrors
                               + (IF isOutOfTimeError THEN 1 ELSE 0),
         EnergyBumpTimes |-> tx[r].EnergyBumpTimes
                               + (IF bumpEnergy THEN 1 ELSE 0)]]

MayRetry(r) ==
    /\ tx[r].Attempt < MAX_RETRY_ATTEMPTS
    /\ tx[r].OutOfTimeErrors < 2

\* checkUnconfirmed goes on to the next entry of the account, or to the next account.
NextUnconfirmed ==
    /\ cpc' = IF OfAccount(todo, cacc) # {} THEN "query" ELSE "block"
    /\ cur' = Nil

\* The object is changed while its entry is still in the unconfirmed map.
maybeRetry(r, bumpEnergy, isOutOfTimeError) ==
    \/ /\ ~MayRetry(r)
       /\ OnErrored(Key[r])
       /\ NextUnconfirmed
    \/ /\ MayRetry(r)
       /\ tx' = Retried(r, bumpEnergy, isOutOfTimeError)
       /\ cpc' = "retry"
       /\ UNCHANGED <<maps, cur>>

\* Mutant: a missing transaction is retried before it expires.
HandleResultEarly(r) ==
    \/ seen \in {"missing", "unknown"} /\ maybeRetry(r, FALSE, FALSE)
    \/ seen = "success" /\ OnConfirmed(Key[r]) /\ NextUnconfirmed
    \/ seen = "energy" /\ maybeRetry(r, TRUE, FALSE)
    \/ seen = "time" /\ maybeRetry(r, FALSE, TRUE)
    \/ seen = "fatal" /\ OnFatalError(Key[r]) /\ NextUnconfirmed

\* Mutant: a transaction that expired without being found is left alone.
HandleResultNever(r) ==
    \/ seen = "missing" /\ UNCHANGED storeVars /\ NextUnconfirmed
    \/ seen = "success" /\ OnConfirmed(Key[r]) /\ NextUnconfirmed
    \/ seen = "energy" /\ maybeRetry(r, TRUE, FALSE)
    \/ seen = "time" /\ maybeRetry(r, FALSE, TRUE)
    \/ seen = "fatal" /\ OnFatalError(Key[r]) /\ NextUnconfirmed
    \/ seen = "unknown" /\ maybeRetry(r, FALSE, FALSE)

\* What checkUnconfirmed does with the answer for the object r of the entry.
HandleResult(r) ==
    \/ seen = "missing" /\ cur \notin late /\ UNCHANGED storeVars /\ NextUnconfirmed
    \/ seen = "missing" /\ cur \in late /\ maybeRetry(r, FALSE, FALSE)
    \/ seen = "success" /\ OnConfirmed(Key[r]) /\ NextUnconfirmed
    \/ seen = "energy" /\ maybeRetry(r, TRUE, FALSE)
    \/ seen = "time" /\ maybeRetry(r, FALSE, TRUE)
    \/ seen = "fatal" /\ OnFatalError(Key[r]) /\ NextUnconfirmed
    \/ seen = "unknown" /\ maybeRetry(r, FALSE, FALSE)

HandleUnconfirmed ==
    /\ Looping
    /\ cpc = "handle"
    /\ HandleResult(TxOf(cur))
    /\ seen' = "missing"
    /\ UNCHANGED <<confirmFrame, nodeVars, life, chan,
                   accs, todo, cacc, late, tries, misses>>

\* Mutant: the retry is sent but stays in the unconfirmed map.
RetryUnmoved ==
    /\ Looping
    /\ cpc = "retry"
    /\ TrySend(TxOf(cur))
    /\ NextUnconfirmed
    /\ UNCHANGED <<confirmFrame, storeVars, nodeVars, life,
                   accs, todo, cacc, late, seen, tries, misses>>

\* The rest of maybeRetry: OnPending takes the lock, and the object is sent.
Retry ==
    /\ Looping
    /\ cpc = "retry"
    /\ UNCHANGED tx
    /\ IF unconfirmedTxs[KeyOf(cur)] # Nil
       THEN OnPending(TxOf(cur), TRUE) /\ TrySend(TxOf(cur)) /\ UNCHANGED life
       ELSE life' = "crashed" /\ UNCHANGED <<maps, chan>>
    /\ NextUnconfirmed
    /\ UNCHANGED <<confirmFrame, nodeVars, accs, todo, cacc, late, seen, tries, misses>>

UnconfirmedChecked ==
    /\ Looping
    /\ cpc = "block"
    /\ todo = {}
    /\ cpc' = "collectC"
    /\ accs' = Accounts
    /\ cacc' = Nil
    /\ late' = {}
    /\ UNCHANGED <<confirmFrame, storeVars, nodeVars, life, chan,
                   todo, cur, seen, tries, misses>>

CollectConfirmed(a) ==
    /\ Looping
    /\ cpc = "collectC"
    /\ a \in accs
    /\ accs' = accs \ {a}
    /\ todo' = todo \cup GetConfirmed(a)
    /\ cpc' = IF accs = {a} THEN "solidity" ELSE cpc
    /\ UNCHANGED <<confirmFrame, storeVars, nodeVars, life, chan,
                   cacc, late, cur, seen, tries, misses>>

\* Mutant: the entry is visited again.
QueryConfirmedAgain(h) ==
    /\ Looping
    /\ cpc = "solidity"
    /\ h \in todo
    /\ cur' = h
    /\ \/ h \in solid /\ cpc' = "finalize" /\ UNCHANGED nodeVars
       \/ h \notin solid /\ cpc' = "reorg" /\ UNCHANGED nodeVars
       \/ h \in solid /\ cpc' = "reorg" /\ Fault("rpc")
    /\ UNCHANGED <<confirmFrame, storeVars, life, chan,
                   accs, todo, cacc, late, seen, tries, misses>>

\* The solidity node is asked first.
QueryConfirmed(h) ==
    /\ Looping
    /\ cpc = "solidity"
    /\ h \in todo
    /\ cur' = h
    /\ todo' = todo \ {h}
    /\ \/ h \in solid /\ cpc' = "finalize" /\ UNCHANGED nodeVars
       \/ h \notin solid /\ cpc' = "reorg" /\ UNCHANGED nodeVars
       \/ h \in solid /\ cpc' = "reorg" /\ Fault("rpc")
    /\ UNCHANGED <<confirmFrame, storeVars, life, chan,
                   accs, cacc, late, seen, tries, misses>>

\* Mutant: the first failed query is a reorg.
CheckReorgedOnce ==
    /\ Looping
    /\ cpc = "reorg"
    /\ \/ /\ Included(cur)
          /\ cpc' = "finalize" /\ tries' = 0 /\ UNCHANGED <<nodeVars, misses>>
       \/ /\ \/ ~Included(cur) /\ UNCHANGED <<nodeVars, misses>>
             \/ /\ Included(cur)
                /\ Fault("rpc")
                /\ misses' = [misses EXCEPT ![cur] = @ + 1]
          /\ cpc' = "reorged" /\ tries' = 0
    /\ UNCHANGED <<confirmFrame, storeVars, life, chan,
                   accs, todo, cacc, late, cur, seen>>

\* One query of checkReorged: 1 + REORG_RETRY_COUNT failures are a reorg.
CheckReorged ==
    /\ Looping
    /\ cpc = "reorg"
    /\ \/ /\ Included(cur)
          /\ cpc' = "finalize" /\ tries' = 0 /\ UNCHANGED <<nodeVars, misses>>
       \/ /\ \/ ~Included(cur) /\ UNCHANGED <<nodeVars, misses>>
             \/ /\ Included(cur)
                /\ Fault("rpc")
                /\ misses' = [misses EXCEPT ![cur] = @ + 1]
          /\ IF tries < REORG_RETRY_COUNT
             THEN cpc' = "reorg" /\ tries' = tries + 1
             ELSE cpc' = "reorged" /\ tries' = 0
    /\ UNCHANGED <<confirmFrame, storeVars, life, chan,
                   accs, todo, cacc, late, cur, seen>>

NextConfirmed ==
    /\ cpc' = "solidity"
    /\ cur' = Nil
    /\ UNCHANGED <<confirmFrame, nodeVars, life, accs, todo, cacc, late,
                   seen, tries, misses>>

\* Mutant: the object is not sent to the broadcast loop.
HandleReorgUnsent ==
    /\ Looping
    /\ cpc = "reorged"
    /\ OnReorg(KeyOf(cur))
    /\ UNCHANGED chan
    /\ NextConfirmed

HandleReorg ==
    /\ Looping
    /\ cpc = "reorged"
    /\ OnReorg(KeyOf(cur))
    /\ IF confirmedTxs[KeyOf(cur)] # Nil THEN TrySend(TxOf(cur)) ELSE UNCHANGED chan
    /\ NextConfirmed

Finalize ==
    /\ Looping
    /\ cpc = "finalize"
    /\ OnFinalized(KeyOf(cur))
    /\ UNCHANGED chan
    /\ NextConfirmed

FinalizedChecked ==
    /\ Looping
    /\ cpc = "solidity"
    /\ todo = {}
    /\ cpc' = "idle"
    /\ UNCHANGED <<confirmFrame, storeVars, nodeVars, life, chan,
                   accs, todo, cacc, late, cur, seen, tries, misses>>

ConfirmStops ==
    /\ life = "closing"
    /\ cpc = "idle"
    /\ cpc' = "done"
    /\ UNCHANGED <<confirmFrame, storeVars, nodeVars, life, chan,
                   accs, todo, cacc, late, cur, seen, tries, misses>>

confirmLoop ==
    \/ ConfirmTick
    \/ \E a \in Accounts : CollectUnconfirmed(a) \/ GetNowBlock(a)
                             \/ CollectConfirmed(a)
    \/ \E h \in Hashes : QueryUnconfirmed(h) \/ QueryConfirmed(h)
    \/ HandleUnconfirmed \/ Retry \/ UnconfirmedChecked
    \/ CheckReorged \/ HandleReorg \/ Finalize \/ FinalizedChecked
    \/ ConfirmStops
-----------------------------------------------------------------------------
(* reapLoop *)

reapFrame == <<nodeVars, life, enq, chan, bVars, cVars>>

\* The retention period of a finished entry ends.
Age(k) ==
    /\ finishedTxs[k] # Nil
    /\ ~finishedTxs[k].aged
    /\ finishedTxs' = [finishedTxs EXCEPT ![k].aged = TRUE]
    /\ UNCHANGED <<reapFrame, rVars, tx, pendingTxs, unconfirmedTxs,
                   confirmedTxs, hashToId>>

\* Mutant: the retention period is not looked at.
ReapScanAll ==
    /\ Looping
    /\ rpc = "idle"
    /\ reapIds' = {k \in Keys : finishedTxs[k] # Nil}
    /\ reapIds' # {}
    /\ rpc' = "delete"
    /\ UNCHANGED <<reapFrame, storeVars>>

\* A tick that finds nothing to delete changes nothing.
ReapScan ==
    /\ Looping
    /\ rpc = "idle"
    /\ reapIds' = {k \in Keys : finishedTxs[k] # Nil /\ finishedTxs[k].aged}
    /\ reapIds' # {}
    /\ rpc' = "delete"
    /\ UNCHANGED <<reapFrame, storeVars>>

ReapDelete ==
    /\ Looping
    /\ rpc = "delete"
    /\ DeleteFinishedTxs(reapIds)
    /\ rpc' = "idle"
    /\ reapIds' = {}
    /\ UNCHANGED reapFrame

\* Mutant: the reaper stops only when it has nothing left.
ReapStopsEmpty ==
    /\ life = "closing"
    /\ rpc = "idle"
    /\ \A k \in Keys : finishedTxs[k] = Nil
    /\ rpc' = "done"
    /\ UNCHANGED <<reapFrame, storeVars, reapIds>>

ReapStops ==
    /\ life = "closing"
    /\ rpc = "idle"
    /\ rpc' = "done"
    /\ UNCHANGED <<reapFrame, storeVars, reapIds>>

reapLoop == ReapScan \/ ReapDelete \/ ReapStops
-----------------------------------------------------------------------------
Enqueue(r) == EnqueueCheck(r) \/ EnqueueStore(r) \/ EnqueueSend(r)

Network == NodeNext /\ UNCHANGED <<storeVars, life, enq, chan, bVars, cVars, rVars>>

Next ==
    \/ Start \/ Close \/ CloseReturns
    \/ \E r \in Requests : EnqueueRejected(r) \/ Enqueue(r)
    \/ broadcastLoop
    \/ confirmLoop
    \/ reapLoop
    \/ \E k \in Keys : Age(k)
    \/ Network

Spec == Init /\ [][Next]_vars

Expires(h) == Expire(h) /\ UNCHANGED <<storeVars, life, enq, chan, bVars, cVars, rVars>>

\* The goroutines keep running, a select whose Stop case stays ready picks it
\* eventually, a call of Enqueue runs to its end, and time passes.
Fairness ==
    /\ WF_vars(broadcastLoop) /\ WF_vars(confirmLoop) /\ WF_vars(reapLoop)
    /\ SF_vars(BroadcastStops) /\ SF_vars(ConfirmStops) /\ SF_vars(ReapStops)
    /\ WF_vars(CloseReturns)
    /\ \A r \in Requests : WF_vars(EnqueueStore(r) \/ EnqueueSend(r))
    /\ \A h \in Hashes : WF_vars(Expires(h))

FairSpec == Spec /\ Fairness
-----------------------------------------------------------------------------
(* The store is consistent *)

\* A key is in at most one map of its store.
SingleHome ==
    \A k \in Keys :
        /\ pendingTxs[k] # Nil => unconfirmedTxs[k] = Nil /\ confirmedTxs[k] = Nil
                                  /\ finishedTxs[k] = Nil
        /\ unconfirmedTxs[k] # Nil => confirmedTxs[k] = Nil /\ finishedTxs[k] = Nil
        /\ confirmedTxs[k] # Nil => finishedTxs[k] = Nil

\* The entry of a key is an object that carries the key, and its state is the
\* one the map stands for: GetStatus, which reads the state off the object,
\* agrees with the map it found the object in.  The exception is the one object
\* that maybeRetry has made Pending and not yet moved.
Retrying(h) == cpc = "retry" /\ cur = h
HomeMatchesState ==
    \A k \in Keys :
        /\ pendingTxs[k] # Nil =>
              /\ Key[pendingTxs[k]] = k
              /\ tx[pendingTxs[k]].State = "Pending"
        /\ unconfirmedTxs[k] # Nil =>
              /\ KeyOf(unconfirmedTxs[k]) = k
              /\ tx[TxOf(unconfirmedTxs[k])].State =
                    IF Retrying(unconfirmedTxs[k]) THEN "Pending" ELSE "Broadcasted"
        /\ confirmedTxs[k] # Nil =>
              /\ KeyOf(confirmedTxs[k]) = k
              /\ tx[TxOf(confirmedTxs[k])].State = "Confirmed"
        /\ finishedTxs[k] # Nil =>
              /\ KeyOf(finishedTxs[k].Hash) = k
              /\ tx[TxOf(finishedTxs[k].Hash)].State
                   \in {"Errored", "FatallyErrored", "Finalized"}

\* The hash index holds exactly the hashes of the unconfirmed, confirmed and
\* finished entries, without those that failed with Errored: nothing leaks and
\* nothing is missing, over any sequence of retries, reorganisations and reaps.
HashIndexExact ==
    \A h \in Hashes :
        h \in hashToId <=> \/ unconfirmedTxs[KeyOf(h)] = h
                           \/ confirmedTxs[KeyOf(h)] = h
                           \/ /\ finishedTxs[KeyOf(h)] # Nil
                              /\ finishedTxs[KeyOf(h)].Hash = h
                              /\ tx[TxOf(h)].State # "Errored"
-----------------------------------------------------------------------------
(* Every object has at most one actor working on it *)

\* An object is queued for broadcast, or being broadcast, at most once, and only
\* while it is the pending entry of its key: BroadcastChan and the broadcast
\* loop never hold two copies of it, nor one whose transaction is already out.
SingleBroadcaster ==
    /\ \A i, j \in 1..Len(chan) : i # j => chan[i] # chan[j]
    /\ \A i \in 1..Len(chan) : chan[i] # btx /\ pendingTxs[Key[chan[i]]] = chan[i]
    /\ btx # Nil => pendingTxs[Key[btx]] = btx

\* What confirmLoop copied out of the store is still there when it acts on it:
\* the snapshot of an entry does not go stale during a pass.
InUnconfirmedPass == cpc \in {"collectU", "block", "query", "handle", "retry"}
Snapshot == todo \cup ({cur} \ {Nil})
SnapshotCurrent ==
    \A h \in Snapshot : IF InUnconfirmedPass THEN unconfirmedTxs[KeyOf(h)] = h
                                             ELSE confirmedTxs[KeyOf(h)] = h

\* Between the check of Enqueue and its send nobody takes the key or the object:
\* a checked key stays free, a stored object is pending and not queued yet, and
\* only objects whose Enqueue came that far are in the store.
Entered(r) == enq[r] \in {"stored", "accepted", "failed"}
EnqueueOwnsKey ==
    /\ \A r \in Requests :
          /\ enq[r] \in {"new", "checked"} => tx[r].State = "Pending"
          /\ enq[r] = "checked" => ~Has(Key[r])
          /\ enq[r] = "stored" =>
                /\ pendingTxs[Key[r]] = r
                /\ btx # r
                /\ \A i \in 1..Len(chan) : chan[i] # r
    /\ \A k \in Keys :
          /\ pendingTxs[k] # Nil => Entered(pendingTxs[k])
          /\ unconfirmedTxs[k] # Nil => Entered(TxOf(unconfirmedTxs[k]))
          /\ confirmedTxs[k] # Nil => Entered(TxOf(confirmedTxs[k]))
          /\ finishedTxs[k] # Nil => Entered(TxOf(finishedTxs[k].Hash))
    /\ \A q, r \in Requests :
          Key[q] = Key[r] /\ {enq[q], enq[r]} \subseteq {"checked", "stored"} => q = r

\* maybeRetry never dereferences the entry of a key that has none (txstore.go:58), as
\* long as the node answers a broadcast and its blocks are well formed: whatever the
\* loops, the reaper and the callers do between the query and the retry, nobody takes
\* the entry away.
NoPanic == life # "crashed"
-----------------------------------------------------------------------------
(* Retries *)

Builds(r) == Cardinality({h \in Hashes : TxOf(h) = r /\ chain[h] # "none"})

\* checkReorged may take the transaction for reorganised: a reorganisation removed it,
\* or every query of one check failed.
Doubted(h) == h \in reorged \/ misses[h] > REORG_RETRY_COUNT

\* However the loops interleave, the transactions built from one object are bounded
\* by its attempts, plus one for each of them that a reorganisation removed or that a
\* whole check of checkReorged could not find: no transaction is replaced twice, and
\* a failed broadcast, a busy node or any other lost answer costs none.
BuildsBounded ==
    \A r \in Requests : /\ Builds(r) <= tx[r].Attempt
                                         + Cardinality({h \in Hashes : TxOf(h) = r /\ Doubted(h)})
                        /\ tx[r].Attempt <= MAX_RETRY_ATTEMPTS
                        /\ tx[r].OutOfTimeErrors <= 2
-----------------------------------------------------------------------------
(* The verdicts agree with the chain *)

Succeeded(r) == {h \in Hashes : TxOf(h) = r /\ chain[h] = "success"}

\* A request takes effect on chain at most once, however often it is rebuilt.
AtMostOneSuccess == \A r \in Requests : Cardinality(Succeeded(r)) <= 1

Finished(r) == tx[r].State \in {"Errored", "FatallyErrored", "Finalized"}

\* A verdict is the truth and stays it: Finalized is the verdict exactly of the
\* finished objects that succeeded on chain, and no transaction of a finished
\* object is left that could still be included.
VerdictMatchesChain ==
    \A r \in Requests : Finished(r) =>
        /\ (tx[r].State = "Finalized") <=> (Succeeded(r) # {})
        /\ \A h \in Hashes : TxOf(h) = r /\ chain[h] = "pool" => h \in expired

\* What the solidity node does not have yet is not reported as finalized.
FinalizedIsSolid ==
    \A k \in Keys : finishedTxs[k] # Nil =>
        LET h == finishedTxs[k].Hash
        IN  tx[TxOf(h)].State = "Finalized" => h \in solid
-----------------------------------------------------------------------------
(* What happens in the end *)

\* Pending, but nobody is going to broadcast the object.
Stranded(r) == /\ pendingTxs[Key[r]] = r
               /\ enq[r] \in {"accepted", "failed"}
               /\ btx # r
               /\ \A i \in 1..Len(chan) : chan[i] # r

\* An object is stranded only by a failed broadcast of its own: where the channel has
\* room for an object of every key no send of Enqueue, of a retry or of a
\* reorganisation is ever dropped.
StrandedByFailure == \A r \in Requests : Stranded(r) => r \in failed

\* An accepted request gets a verdict, unless its broadcast failed or the
\* service is closed first.
Settles ==
    \A r \in Requests :
        enq[r] = "accepted" ~> (Finished(r) \/ Stranded(r) \/ life # "running")

\* Close returns, whatever the loops were doing when it was called.
CloseTerminates == life = "closing" ~> life \in {"closed", "crashed"}

\* A finished entry is deleted only after its retention period, and a key that
\* the reaper deleted was finished until then.
ReapsOnlyAged ==
    [][\A k \in Keys : finishedTxs[k] # Nil /\ finishedTxs'[k] = Nil
                          => finishedTxs[k].aged]_vars
-----------------------------------------------------------------------------
(* The status that callers see *)

\* Translation of a state of the store.
CommonStatus(state) ==
    CASE state \in {"Pending", "Broadcasted"} -> "Pending"
      [] state = "Confirmed" -> "Unconfirmed"
      [] state = "Finalized" -> "Finalized"
      [] state = "Errored" -> "Failed"
      [] state = "FatallyErrored" -> "Fatal"
      [] OTHER -> "Unknown"

\* The possible answers.
GetTransactionStatus(id) == {CommonStatus(state) : state \in GetStatusAll(id)}

Lifecycle == INSTANCE TxLifecycle
                WITH answers <- [id \in Ids |-> GetTransactionStatus(id)]

\* Where no two accounts use the same ID, a poll has one answer at any time, and the
\* answers for an ID follow each other as the abstract life cycle allows.
ImplementsLifecycle == Lifecycle!LifecycleSpec
=============================================================================
