------------------------------ MODULE TronNode ------------------------------
(***************************************************************************)
(* The Tron network as the transaction manager sees it through its full    *)
(* node and its solidity node.  It is not part of the repository: this is  *)
(* what the calls made in relayer/txm/txm.go rely on.                      *)
(*                                                                         *)
(* chain[h] follows one transaction: not built, built, in the pool, or     *)
(* included in a block of the canonical chain with a receipt result.  A    *)
(* transaction whose expiration lies before the head's timestamp is not    *)
(* included any more.  The solidity node only knows transactions of        *)
(* solidified blocks, which no reorganisation removes.                     *)
(*                                                                         *)
(* Faults is the set of fault kinds a model allows, MaxFaults how many     *)
(* happen in a behaviour.  Receipt results are not faults: any included    *)
(* transaction may have any of the Outcomes.                               *)
(***************************************************************************)
EXTENDS TxIds

CONSTANTS Faults,    \* the kinds of faults that may happen
          MaxFaults, \* bound on the number of faults in a behaviour
          Outcomes   \* the receipt results that may happen

FaultKinds == {"prepare",  \* an RPC before the build, or the build, fails
               "malformed", \* a block without raw data or with a short id
               "sign",     \* the keystore does not sign
               "busy",     \* SERVER_BUSY or BLOCK_UNSOLIDIFIED
               "reject",   \* any other response code of a broadcast
               "http",     \* a broadcast without a response
               "rpc",      \* a block or transaction query fails
               "reorg"}    \* an included transaction returns to the pool

\* Receipt results, as far as checkUnconfirmed tells them apart: SUCCESS,
\* OUT_OF_ENERGY, OUT_OF_TIME, the results it treats as fatal, and the others.
Results == {"success", "energy", "time", "fatal", "unknown"}

ASSUME NodeAssumption ==
    /\ Faults \subseteq FaultKinds
    /\ MaxFaults \in Nat
    /\ Outcomes \subseteq Results

VARIABLES chain,    \* where every transaction is
          expired,  \* those whose expiration lies before the head's timestamp
          solid,    \* those in solidified blocks
          reorged,  \* history: those a reorganisation has removed from the chain
          faults    \* faults so far

nodeVars == <<chain, expired, solid, reorged, faults>>

NodeTypeOK ==
    /\ chain \in [Hashes -> {"none", "built", "pool"} \cup Results]
    /\ expired \in SUBSET Hashes
    /\ solid \in SUBSET Hashes
    /\ reorged \in SUBSET Hashes
    /\ faults \in 0..MaxFaults

NodeInit ==
    /\ chain = [h \in Hashes |-> "none"]
    /\ expired = {}
    /\ solid = {}
    /\ reorged = {}
    /\ faults = 0

Included(h) == chain[h] \in Results

\* What a query of the full node finds.
InfoFullNode(h) == IF Included(h) THEN chain[h] ELSE "missing"

Fault(kind) ==
    /\ kind \in Faults
    /\ faults < MaxFaults
    /\ faults' = faults + 1
    /\ UNCHANGED <<chain, expired, solid, reorged>>

SetChain(h, s) ==
    /\ chain' = [chain EXCEPT ![h] = s]
    /\ UNCHANGED <<expired, solid, reorged, faults>>

\* The next transaction of object r.
Build(r, h) ==
    /\ TxOf(h) = r
    /\ chain[h] = "none"
    /\ \A g \in Hashes : TxOf(g) = r /\ g[2] < h[2] => chain[g] # "none"
    /\ SetChain(h, "built")

\* The node takes a broadcast transaction into its pool.
Accept(h) == h \notin expired /\ SetChain(h, "pool")

Include(h, result) ==
    /\ chain[h] = "pool"
    /\ h \notin expired
    /\ SetChain(h, result)

Solidify(h) ==
    /\ Included(h)
    /\ h \notin solid
    /\ solid' = solid \cup {h}
    /\ UNCHANGED <<chain, expired, reorged, faults>>

Reorg(h) ==
    /\ Included(h)
    /\ h \notin solid
    /\ "reorg" \in Faults
    /\ faults < MaxFaults
    /\ faults' = faults + 1
    /\ chain' = [chain EXCEPT ![h] = "pool"]
    /\ reorged' = reorged \cup {h}
    /\ UNCHANGED <<expired, solid>>

\* The transactions of one object expire in the order they were built.
Expire(h) ==
    /\ chain[h] # "none"
    /\ h \notin expired
    /\ \A g \in Hashes : TxOf(g) = TxOf(h) /\ g[2] < h[2] => g \in expired
    /\ expired' = expired \cup {h}
    /\ UNCHANGED <<chain, solid, reorged, faults>>

NodeNext ==
    \E h \in Hashes : \/ \E result \in Outcomes : Include(h, result)
                      \/ Solidify(h)
                      \/ Reorg(h)
                      \/ Expire(h)
=============================================================================
