---------------------------- MODULE CachePoller ----------------------------
(***************************************************************************)
(* What the two OCR2 caches (relayer/ocr2/contract_cache.go and            *)
(* transmissions_cache.go) have in common: the goroutine that polls, and   *)
(* the reader they share (relayer/reader/reader.go) with its ABI map,      *)
(* which no lock protects.                                                 *)
(*                                                                         *)
(* An update of a cache runs either in Start, before the poller exists, or *)
(* in the poller: one program counter per cache.  A step ends where another *)
(* goroutine, a node or the clock may act in between.                      *)
(***************************************************************************)
EXTENDS Aggregator

CONSTANTS MaxUpdate  \* bound on the time one update takes: its RPCs time out

ASSUME PollerAssumption == MaxUpdate \in Nat

VARIABLES mode,       \* life of each cache
          pc,         \* where its update is
          spent,      \* time spent in the update
          abi,        \* TRUE: the ABI of the contract is in the map
          abiFailed   \* history: a query for the ABI failed

pollVars == <<mode, pc, spent, abi, abiFailed>>

Caches == {"config", "transmissions"}

Modes == {"new", "starting", "polling", "stopping", "done"}
Steps == {"idle", "lookup", "getContract", "writeAbi", "call",
          "lookupEvents", "events", "height", "store"}

PollTypeOK ==
    /\ mode \in [Caches -> Modes]
    /\ pc \in [Caches -> Steps]
    /\ spent \in [Caches -> 0..MaxUpdate]
    /\ abi \in BOOLEAN
    /\ abiFailed \in BOOLEAN

PollInit ==
    /\ mode = [c \in Caches |-> "new"]
    /\ pc = [c \in Caches |-> "idle"]
    /\ spent = [c \in Caches |-> 0]
    /\ abi = FALSE
    /\ abiFailed = FALSE

Idle(c) == pc[c] = "idle"

Goto(c, p) ==
    /\ pc' = [pc EXCEPT ![c] = p]
    /\ UNCHANGED <<mode, spent, abi, abiFailed>>

\* The update returns, with or without an error.
Return(c) ==
    /\ pc' = [pc EXCEPT ![c] = "idle"]
    /\ spent' = [spent EXCEPT ![c] = 0]
    /\ UNCHANGED <<mode, abi, abiFailed>>

\* The poller's select takes the tick, even when stop is closed and both are ready.
PollTick(c) ==
    /\ mode[c] \in {"polling", "stopping"}
    /\ Idle(c)
    /\ Goto(c, "lookup")
    /\ UNCHANGED aggVars

PollStops(c) ==
    /\ mode[c] = "stopping"
    /\ Idle(c)
    /\ mode' = [mode EXCEPT ![c] = "done"]
    /\ UNCHANGED <<aggVars, pc, spent, abi, abiFailed>>

\* getContractABI: look up, query on a miss, write.
LookupAbi(c) ==
    /\ pc[c] = "lookup"
    /\ Goto(c, IF abi THEN "call" ELSE "getContract")
    /\ UNCHANGED aggVars

GetContract(c) ==
    /\ pc[c] = "getContract"
    /\ Goto(c, "writeAbi")
    /\ UNCHANGED aggVars

GetContractFails(c) ==
    /\ pc[c] = "getContract"
    /\ Fault("rpc")
    /\ pc' = [pc EXCEPT ![c] = "idle"]
    /\ spent' = [spent EXCEPT ![c] = 0]
    /\ abiFailed' = TRUE
    /\ UNCHANGED <<mode, abi>>

WriteAbi(c) ==
    /\ pc[c] = "writeAbi"
    /\ abi' = TRUE
    /\ pc' = [pc EXCEPT ![c] = "call"]
    /\ UNCHANGED <<aggVars, mode, spent, abiFailed>>

\* The second lookup of an update, in GetEventsFromBlock, finds the ABI: no entry is
\* ever removed.  The limit on the block number, which the code tests just before, is
\* part of ConfigFromEventAt.
LookupAbiForEvents(c) ==
    /\ pc[c] = "lookupEvents"
    /\ abi
    /\ Goto(c, "events")
    /\ UNCHANGED aggVars

GetAbi(c) == LookupAbi(c) \/ GetContract(c) \/ GetContractFails(c)
             \/ WriteAbi(c) \/ LookupAbiForEvents(c)

\* Mutant: requests do not time out.
TickAnyway ==
    /\ now < MaxTime
    /\ now' = now + 1
    /\ spent' = [c \in Caches |-> IF Idle(c) THEN 0 ELSE spent[c] + 1]
    /\ UNCHANGED <<height, sets, heads, solids, pending, faults,
                   mode, pc, abi, abiFailed>>

\* The clock.  The HTTP client gives up on a request in time, so that no update
\* takes longer than MaxUpdate.
Tick ==
    /\ now < MaxTime
    /\ \A c \in Caches : Idle(c) \/ spent[c] < MaxUpdate
    /\ now' = now + 1
    /\ spent' = [c \in Caches |-> IF Idle(c) THEN 0 ELSE spent[c] + 1]
    /\ UNCHANGED <<height, sets, heads, solids, pending, faults,
                   mode, pc, abi, abiFailed>>
=============================================================================
