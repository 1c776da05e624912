---------------------------- MODULE TronRelayer ----------------------------
(***************************************************************************)
(* The services that NewRelayer (relayer/plugin/relayer.go) puts together  *)
(* around one client: the transaction manager, as far as its broadcast     *)
(* loop prepares a transaction (FeeLimit), and the balance monitor         *)
(* (BalanceMonitor).  Every RPC of the broadcast loop goes through the     *)
(* validating client (ValidatedClient) and returns its error when the      *)
(* chain id does not match; so do the calls of the other goroutines (the   *)
(* confirm loop, the OCR2 readers).  The monitor gets the wrapped client   *)
(* of the solidity node, which nothing gates.                              *)
(*                                                                         *)
(* A panic of one goroutine ends the process.                              *)
(***************************************************************************)
EXTENDS ValidatedClient, FeeLimit, BalanceMonitor

CONSTANTS Broadcaster,  \* the caller that is the broadcast loop
          Workloads     \* what the services may find to do: the keys in the keystore,
                        \* the attempts of the object, the other callers

ASSUME RelayerAssumption ==
    /\ Broadcaster \in Callers
    /\ Workloads \subseteq [keys : Seq(AllKeys), attempts : Nat,
                            callers : SUBSET (Callers \ {Broadcaster})]

VARIABLES relayer,  \* the state of StartOnce and StopOnce
          loops,    \* the manager: its Start and Close
          others    \* the callers of the client besides the broadcast loop

relayerVars == <<relayer, loops, others>>
vars == <<clientVars, feeVars, monVars, relayerVars>>

TypeOK ==
    /\ ClientTypeOK
    /\ FeeTypeOK
    /\ MonitorTypeOK
    /\ relayer \in {"new", "starting", "started", "closing", "closed"}
    /\ loops \in {"new", "running", "stopping", "closed"}
    /\ others \in SUBSET (Callers \ {Broadcaster})

RelayerInit(w) ==
    /\ ClientInit
    /\ FeeInit(w.attempts)
    /\ MonitorInit(w.keys)
    /\ others = w.callers
    /\ relayer = "new"
    /\ loops = "new"

Init == \E w \in Workloads : RelayerInit(w)
-----------------------------------------------------------------------------
(* Start and Close *)

\* MultiStart starts the manager first.
Start ==
    /\ relayer = "new"
    /\ relayer' = "starting"
    /\ loops' = "running"
    /\ UNCHANGED <<clientVars, feeVars, monVars, others>>

MonitorStarted ==
    /\ relayer = "starting"
    /\ MonitorStarts
    /\ relayer' = "started"
    /\ UNCHANGED <<clientVars, feeVars, loops, others>>

Close ==
    /\ relayer = "started"
    /\ relayer' = "closing"
    /\ UNCHANGED <<clientVars, feeVars, monVars, loops, others>>

\* CloseAll closes both, in either order or at the same time.
TxmClose ==
    /\ relayer = "closing"
    /\ loops = "running"
    /\ loops' = "stopping"
    /\ UNCHANGED <<clientVars, feeVars, monVars, relayer, others>>

TxmCloseReturns ==
    /\ loops = "stopping"
    /\ prep = "done"
    /\ loops' = "closed"
    /\ UNCHANGED <<clientVars, feeVars, monVars, relayer, others>>

MonitorCloses ==
    /\ relayer = "closing"
    /\ MonitorClose \/ MonitorCloseReturns
    /\ UNCHANGED <<clientVars, feeVars, relayerVars>>

CloseReturns ==
    /\ relayer = "closing"
    /\ loops = "closed" /\ monitor = "closed"
    /\ relayer' = "closed"
    /\ UNCHANGED <<clientVars, feeVars, monVars, loops, others>>
-----------------------------------------------------------------------------
(* The broadcast loop *)

Looping == loops \in {"running", "stopping"}
broadcastFrame == <<monVars, relayerVars>>

BroadcastReceives ==
    /\ Looping
    /\ ReceiveTx
    /\ UNCHANGED <<clientVars, broadcastFrame>>

\* The loop is at an RPC and calls the client.
BroadcastCalls ==
    /\ Looping
    /\ prep \in {"estimate", "trigger", "prices", "block"}
    /\ Call(Broadcaster)
    /\ UNCHANGED <<feeVars, broadcastFrame>>

\* What the loop does when the RPC it is at returns an error.
RpcFails == EstimateFails \/ PreparationFails \/ PricesFail

\* The validation of the caller's RPC goes on, lets it through, or returns an error.
AfterValidation(c) ==
    /\ IF c = Broadcaster /\ pc'[c] = "idle" /\ ~crashed'
       THEN RpcFails
       ELSE UNCHANGED feeVars
    /\ UNCHANGED broadcastFrame

\* The node has answered the caller or failed.
AfterAnswer(c) ==
    /\ IF c = Broadcaster
       THEN \/ Estimated \/ EstimateUnsupported \/ PricesAnswered \/ BuildTransaction
            \/ RpcFails
       ELSE UNCHANGED feeVars
    /\ UNCHANGED broadcastFrame

\* The header of the block has no raw data, or its id is shorter than 16 bytes:
\* computeRefBlockBytesAndHash panics.
RefBlockPanics ==
    /\ "short" \in Answers
    /\ prep = "block"
    /\ ForwardPanics(Broadcaster)
    /\ UNCHANGED <<feeVars, broadcastFrame>>

BroadcastStops ==
    /\ loops = "stopping"
    /\ LoopStops
    /\ UNCHANGED <<clientVars, broadcastFrame>>

\* The confirm loop, which may be in the middle of its pass when the manager is closed.
Retries ==
    /\ Looping
    /\ Retry
    /\ UNCHANGED <<clientVars, broadcastFrame>>

broadcastLoop == BroadcastReceives \/ BroadcastCalls \/ RefBlockPanics \/ BroadcastStops
-----------------------------------------------------------------------------
Validates(c) == validate(c) /\ AfterValidation(c)
Forwards(c) == Forward(c) /\ AfterAnswer(c)
OtherCalls(c) == c \in others /\ Call(c) /\ UNCHANGED <<feeVars, broadcastFrame>>

monitorFrame == <<clientVars, feeVars, relayerVars>>
monitorLoop == (MonitorTick \/ updateBalances) /\ UNCHANGED monitorFrame
MonitorLoopStops == MonitorStops /\ UNCHANGED monitorFrame

services == TxmClose \/ TxmCloseReturns \/ MonitorCloses \/ CloseReturns

Next ==
    /\ ~crashed
    /\ \/ Start \/ MonitorStarted \/ Close \/ services
       \/ broadcastLoop \/ Retries
       \/ \E c \in Callers : OtherCalls(c) \/ Validates(c) \/ Forwards(c)
       \/ monitorLoop \/ MonitorLoopStops
       \/ \E i \in 1..Len(keys) : Deposit(keys[i]) /\ UNCHANGED monitorFrame

Spec == Init /\ [][Next]_vars

\* A call runs to its end (requests time out, and a sync.RWMutex starves nobody), the
\* goroutines run, and a select whose stop case stays ready picks it eventually.
Fairness ==
    /\ \A c \in Callers : SF_vars(Validates(c) \/ Forwards(c))
    /\ WF_vars(~crashed /\ (MonitorStarted \/ services))
    /\ WF_vars(~crashed /\ (BroadcastReceives \/ BroadcastCalls))
    /\ WF_vars(~crashed /\ monitorLoop)
    /\ SF_vars(~crashed /\ BroadcastStops)
    /\ SF_vars(~crashed /\ MonitorLoopStops)

FairSpec == Spec /\ Fairness
-----------------------------------------------------------------------------
\* A transaction is built only for the configured chain, although the price falls back to
\* the default, and the energy to a fixed value, when the client refuses the RPC.
BuiltOnMatchingChain == built # <<>> => genesis = "match"

\* While the monitor runs, the gauges catch up with the balances, whatever failed before:
\* no failure ends the polling, and a reader that was dropped is replaced.
BalancesCatchUp == []<>(monitor = "running" /\ ~crashed => GaugesCurrent)

\* Close returns, wherever the loops are and whatever the RPCs they wait for answer.
RelayerCloses == relayer = "closing" ~> (relayer = "closed" \/ crashed)
=============================================================================
