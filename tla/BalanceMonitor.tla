--------------------------- MODULE BalanceMonitor ---------------------------
(***************************************************************************)
(* The balance monitor (relayer/monitor/balance.go): a goroutine that asks *)
(* the solidity node for the balance of every key of the keystore at every *)
(* tick and sets a gauge per account (prom.go).                            *)
(***************************************************************************)
EXTENDS Integers, Sequences

CONSTANTS AllKeys,        \* the keys a keystore may hold
          BadKeys,        \* those that PublicKeyToTronAddress refuses
          MaxBalance,     \* bound on balances, which only grow here
          MaxMonitorFaults

ASSUME MonitorAssumption ==
    /\ BadKeys \subseteq AllKeys
    /\ MaxBalance \in Nat
    /\ MaxMonitorFaults \in Nat

VARIABLES keys,        \* what ks.Accounts returns
          balance,     \* of every key's account, at the node
          monitor,     \* the service: Start, Close
          mpc,         \* control of the goroutine
          at,          \* index of the key the loop is at
          reader,      \* TRUE: b.reader is not nil
          gotSomeBals,
          gauge,       \* the metric of every account; -1: not set
          asked,       \* history: the calls of GetAccount since stop was closed
          monFaults    \* faults so far

monVars == <<keys, balance, monitor, mpc, at, reader, gotSomeBals, gauge, asked, monFaults>>
monFrame == <<keys, balance, monitor>>

MonitorTypeOK ==
    /\ keys \in Seq(AllKeys)
    /\ balance \in [AllKeys -> 0..MaxBalance]
    /\ monitor \in {"new", "running", "stopping", "closed"}
    /\ mpc \in {"new", "wait", "accounts", "check", "get", "done"}
    /\ at \in Nat
    /\ reader \in BOOLEAN
    /\ gotSomeBals \in BOOLEAN
    /\ gauge \in [AllKeys -> -1..MaxBalance]
    /\ asked \in Nat
    /\ monFaults \in 0..MaxMonitorFaults

MonitorInit(ks) ==
    /\ keys = ks
    /\ balance = [k \in AllKeys |-> 0]
    /\ monitor = "new"
    /\ mpc = "new"
    /\ at = 0
    /\ reader = FALSE
    /\ gotSomeBals = FALSE
    /\ gauge = [k \in AllKeys |-> -1]
    /\ asked = 0
    /\ monFaults = 0

MonitorFault ==
    /\ monFaults < MaxMonitorFaults
    /\ monFaults' = monFaults + 1
-----------------------------------------------------------------------------
(* Start and Close *)

MonitorStarts ==
    /\ monitor = "new"
    /\ monitor' = "running"
    /\ mpc' = "wait"
    /\ UNCHANGED <<keys, balance, at, reader, gotSomeBals, gauge, asked, monFaults>>

\* Mutant: stop is not closed.
MonitorCloseOnlyWaits ==
    /\ monitor = "running"
    /\ mpc = "done"
    /\ monitor' = "closed"
    /\ UNCHANGED <<keys, balance, mpc, at, reader, gotSomeBals, gauge, asked, monFaults>>

\* close(b.stop)
MonitorClose ==
    /\ monitor = "running"
    /\ monitor' = "stopping"
    /\ UNCHANGED <<keys, balance, mpc, at, reader, gotSomeBals, gauge, asked, monFaults>>

\* <-b.done
MonitorCloseReturns ==
    /\ monitor = "stopping"
    /\ mpc = "done"
    /\ monitor' = "closed"
    /\ UNCHANGED <<keys, balance, mpc, at, reader, gotSomeBals, gauge, asked, monFaults>>
-----------------------------------------------------------------------------
(* monitor and updateBalances *)

\* The select takes the tick, even when stop is closed and both are ready.
MonitorTick ==
    /\ mpc = "wait"
    /\ mpc' = "accounts"
    /\ UNCHANGED <<monFrame, at, reader, gotSomeBals, gauge, asked, monFaults>>

MonitorStops ==
    /\ mpc = "wait"
    /\ monitor = "stopping"
    /\ mpc' = "done"
    /\ UNCHANGED <<monFrame, at, reader, gotSomeBals, gauge, asked, monFaults>>

\* The keystore has no keys, or it fails; Close cancels the context it is called with.
NoKeys ==
    /\ mpc = "accounts"
    /\ \/ keys = <<>> /\ UNCHANGED monFaults
       \/ monitor = "stopping" /\ UNCHANGED monFaults
       \/ keys # <<>> /\ MonitorFault
    /\ mpc' = "wait"
    /\ UNCHANGED <<monFrame, at, reader, gotSomeBals, gauge, asked>>

\* getReader: newReader is called when there is no reader; the relayer's never fails.
GetReader ==
    /\ mpc = "accounts"
    /\ keys # <<>>
    /\ reader' = TRUE
    /\ gotSomeBals' = FALSE
    /\ at' = 1
    /\ mpc' = "check"
    /\ UNCHANGED <<monFrame, gauge, asked, monFaults>>

\* Mutant: a pass without a balance ends the goroutine.
NextKeyGivesUp(got) ==
    /\ gotSomeBals' = got
    /\ IF at < Len(keys)
       THEN mpc' = "check" /\ at' = at + 1 /\ UNCHANGED reader
       ELSE mpc' = (IF got THEN "wait" ELSE "done") /\ at' = 0 /\ reader' = got

\* The end of the loop's body; after the last key a reader that got nothing is dropped.
NextKey(got) ==
    /\ gotSomeBals' = got
    /\ IF at < Len(keys)
       THEN mpc' = "check" /\ at' = at + 1 /\ UNCHANGED reader
       ELSE mpc' = "wait" /\ at' = 0 /\ reader' = got

\* Mutant: stop is looked at before the first key only.
CheckStopOnce ==
    /\ mpc = "check"
    /\ \/ /\ monitor = "stopping" /\ at = 1
          /\ mpc' = "wait" /\ at' = 0
          /\ UNCHANGED <<reader, gotSomeBals>>
       \/ /\ monitor # "stopping" \/ at > 1
          /\ keys[at] \in BadKeys
          /\ NextKey(gotSomeBals)
       \/ /\ monitor # "stopping" \/ at > 1
          /\ keys[at] \notin BadKeys
          /\ mpc' = "get"
          /\ UNCHANGED <<at, reader, gotSomeBals>>
    /\ UNCHANGED <<monFrame, gauge, asked, monFaults>>

\* Shutdown ends the pass; a key that cannot be converted is passed over.
CheckStop ==
    /\ mpc = "check"
    /\ \/ /\ monitor = "stopping"
          /\ mpc' = "wait" /\ at' = 0
          /\ UNCHANGED <<reader, gotSomeBals>>
       \/ /\ monitor # "stopping"
          /\ keys[at] \in BadKeys
          /\ NextKey(gotSomeBals)
       \/ /\ monitor # "stopping"
          /\ keys[at] \notin BadKeys
          /\ mpc' = "get"
          /\ UNCHANGED <<at, reader, gotSomeBals>>
    /\ UNCHANGED <<monFrame, gauge, asked, monFaults>>

\* The gauge of the account of k shows the balance in TRX, sun / 10^6.
updateProm(k, sun) == gauge' = [gauge EXCEPT ![k] = sun]

GetAccount ==
    /\ mpc = "get"
    /\ asked' = IF monitor = "stopping" THEN asked + 1 ELSE asked
    /\ \/ /\ MonitorFault
          /\ NextKey(gotSomeBals)
          /\ UNCHANGED gauge
       \/ /\ updateProm(keys[at], balance[keys[at]])
          /\ NextKey(TRUE)
          /\ UNCHANGED monFaults
    /\ UNCHANGED monFrame

updateBalances == NoKeys \/ GetReader \/ CheckStop \/ GetAccount

\* The balance of an account changes.
Deposit(k) ==
    /\ balance[k] < MaxBalance
    /\ balance' = [balance EXCEPT ![k] = balance[k] + 1]
    /\ UNCHANGED <<keys, monitor, mpc, at, reader, gotSomeBals, gauge, asked, monFaults>>
-----------------------------------------------------------------------------
(* Properties *)

\* Once stop is closed the monitor asks the node for at most one more account,
\* whatever the keystore holds and whichever case the select takes.
QuietAfterStop == asked <= 1

\* The gauges of the accounts whose keys can be converted show their balances.
GaugesCurrent ==
    \A i \in 1..Len(keys) : keys[i] \notin BadKeys => gauge[keys[i]] = balance[keys[i]]
=============================================================================
