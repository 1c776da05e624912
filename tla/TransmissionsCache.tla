------------------------- MODULE TransmissionsCache -------------------------
(***************************************************************************)
(* The cache of the latest transmission                                    *)
(* (relayer/ocr2/transmissions_cache.go).  An update whose timestamp is 0  *)
(* although its answer is not is skipped, but counts as a check.  The      *)
(* number of skipped updates and the time of the first one only feed the   *)
(* log; skipping says whether the last update was skipped.                 *)
(***************************************************************************)
EXTENDS CachePoller

VARIABLES transmissionDetails,
          skipping,         \* consecutiveSkippedTransmissions > 0
          tdLastCheckedAt,
          fetched           \* local of updateTransmission

transVars == <<transmissionDetails, skipping, tdLastCheckedAt, fetched>>

NoTransmission == [n |-> 0, zeroTime |-> TRUE]

TransTypeOK ==
    /\ transmissionDetails \in Transmission
    /\ skipping \in BOOLEAN
    /\ tdLastCheckedAt \in Nat
    /\ fetched \in Transmission

NewTransmissionsCache ==
    /\ transmissionDetails = NoTransmission
    /\ skipping = FALSE
    /\ tdLastCheckedAt = 0
    /\ fetched = NoTransmission

\* Mutant: a failed update counts as a check.
TransmissionRpcFailsChecked ==
    /\ pc["transmissions"] = "call"
    /\ Fault("rpc")
    /\ Return("transmissions")
    /\ tdLastCheckedAt' = now
    /\ UNCHANGED <<transmissionDetails, skipping, fetched>>

TransmissionRpcFails ==
    /\ pc["transmissions"] = "call"
    /\ Fault("rpc")
    /\ Return("transmissions")
    /\ UNCHANGED transVars

FetchTransmission ==
    /\ pc["transmissions"] = "call"
    /\ fetched' = TriggerConstantContractFullNode
    /\ Goto("transmissions", "store")
    /\ UNCHANGED <<aggVars, transmissionDetails, skipping, tdLastCheckedAt>>

\* Mutant: the timestamp is not looked at.
SkipNothing(t) == FALSE

\* The transmission is not in a block yet.
Skip(t) == t.zeroTime /\ ~ZeroAnswer(t.n)

\* Mutant: a skipped update forgets the transmission before it.
StoreTransmissionForgets ==
    /\ pc["transmissions"] = "store"
    /\ tdLastCheckedAt' = now
    /\ skipping' = Skip(fetched)
    /\ transmissionDetails' = IF Skip(fetched) THEN NoTransmission ELSE fetched
    /\ fetched' = NoTransmission
    /\ Return("transmissions")
    /\ UNCHANGED aggVars

StoreTransmission ==
    /\ pc["transmissions"] = "store"
    /\ tdLastCheckedAt' = now
    /\ skipping' = Skip(fetched)
    /\ transmissionDetails' = IF Skip(fetched) THEN transmissionDetails ELSE fetched
    /\ fetched' = NoTransmission
    /\ Return("transmissions")
    /\ UNCHANGED aggVars

updateTransmission == \/ GetAbi("transmissions") /\ UNCHANGED transVars
                      \/ FetchTransmission \/ StoreTransmission
                      \/ TransmissionRpcFails
=============================================================================
