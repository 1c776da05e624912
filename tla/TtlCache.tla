------------------------------ MODULE TtlCache ------------------------------
(***************************************************************************)
(* What the OCR2 caches promise the oracle, which reads them and never the *)
(* chain: versions are published, the cache holds one of them, and a read  *)
(* either fails or returns what the cache holds.  The abstract             *)
(* specification of contract_cache.go and transmissions_cache.go; see      *)
(* ServesConfigs and ServesTransmissions in MedianProvider.                *)
(***************************************************************************)
EXTENDS Integers, Sequences

CONSTANTS Lag  \* how long a replaced version may still be returned

VARIABLES clock,
          published,  \* the time at which each version was published
          value,      \* the version the cache holds; 0 before the first
          readable    \* TRUE: a read returns no error

ttlVars == <<clock, published, value, readable>>

Init ==
    /\ clock \in Nat
    /\ published = <<>>
    /\ value = 0
    /\ readable = FALSE

\* The version held was the latest within Lag.
Fresh == value < Len(published) => published[value + 1] + Lag >= clock

Publish ==
    /\ Len(published') >= Len(published)
    /\ \A i \in 1..Len(published) : published'[i] = published[i]
    /\ \A i \in Len(published) + 1..Len(published') : published'[i] = clock
    /\ UNCHANGED <<clock, value, readable>>

\* Time makes no read succeed that failed before.
Pass ==
    /\ clock' > clock
    /\ readable' => readable
    /\ UNCHANGED <<published, value>>

\* The cache moves on, never back and never ahead of what is published.
Refresh ==
    /\ value' \in value..Len(published)
    /\ readable' \in BOOLEAN
    /\ UNCHANGED <<clock, published>>

Next == (Publish \/ Pass \/ Refresh) /\ (readable' => Fresh')

Spec == Init /\ [][Next]_ttlVars
=============================================================================
