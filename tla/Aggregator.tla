----------------------------- MODULE Aggregator -----------------------------
(***************************************************************************)
(* The OCR2 aggregator contract and the nodes that serve it, as the OCR2   *)
(* readers see them (external: modelled from relayer/ocr2/ocr2_reader.go   *)
(* and relayer/reader/reader.go), and what those readers make of it.       *)
(*                                                                         *)
(* A configuration is a ConfigSet event of the solidified chain; its       *)
(* digest is its position in sets, 0 is the zero digest.  A transmission   *)
(* is a number: the pending one, which the full node shows as if it had    *)
(* been executed, those in a block of the head, those solidified.          *)
(***************************************************************************)
EXTENDS Integers, Sequences

CONSTANTS Blocks,           \* what a block may hold: for each of its ConfigSet
                            \* events, whether its transaction calls the contract
          Validated,        \* TRUE: the client is the validating one
          ZeroAnswers,      \* the transmissions whose answer is 0
          MaxEventBlock,    \* math.MaxInt32 in the code
          Faults,           \* the kinds of faults that may happen
          MaxFaults,        \* bound on the faults in a behaviour
          MaxTime,          \* bound on the clock
          MaxBlock,         \* bound on the block height
          MaxTransmissions  \* bound on the transmissions

FaultKinds == {"rpc",   \* a call of the contract or of a node fails
               "lost"}  \* the info of one transaction of a block is not served

ASSUME AggregatorAssumption ==
    /\ Blocks \subseteq Seq(BOOLEAN)
    /\ Validated \in BOOLEAN
    /\ ZeroAnswers \subseteq Nat
    /\ MaxEventBlock \in Nat
    /\ Faults \subseteq FaultKinds
    /\ MaxFaults \in Nat
    /\ MaxTime \in Nat \ {0}
    /\ MaxBlock \in Nat
    /\ MaxTransmissions \in Nat

VARIABLES now,      \* the clock; the zero time.Time is 0
          height,   \* number of the last solidified block
          sets,     \* the ConfigSet events in solidified blocks
          heads,    \* when each transmission was included in a block
          solids,   \* when each transmission was solidified
          pending,  \* TRUE: a transmission is not in a block yet
          faults    \* faults so far

aggVars == <<now, height, sets, heads, solids, pending, faults>>

ConfigSet == [block : Nat, direct : BOOLEAN, at : Nat]
Details == [block : Nat, digest : Nat]
Transmission == [n : Nat, zeroTime : BOOLEAN]

AggTypeOK ==
    /\ now \in 1..MaxTime
    /\ height \in 0..MaxBlock
    /\ sets \in Seq(ConfigSet)
    /\ heads \in Seq(Nat)
    /\ solids \in Seq(Nat)
    /\ pending \in BOOLEAN
    /\ faults \in 0..MaxFaults

AggInit ==
    /\ now = 1
    /\ height = 0
    /\ sets = <<>>
    /\ heads = <<>>
    /\ solids = <<>>
    /\ pending = FALSE
    /\ faults = 0

\* A block is solidified, with the ConfigSet events b.
NewBlock(b) ==
    /\ height < MaxBlock
    /\ height' = height + 1
    /\ sets' = sets \o [i \in 1..Len(b) |->
                           [block |-> height + 1, direct |-> b[i], at |-> now]]
    /\ UNCHANGED <<now, heads, solids, pending, faults>>

Transmit ==
    /\ Len(heads) < MaxTransmissions
    /\ ~pending
    /\ pending' = TRUE
    /\ UNCHANGED <<now, height, sets, heads, solids, faults>>

\* The pending transmission is included in a block, or dropped.
IncludeTransmission ==
    /\ pending
    /\ pending' = FALSE
    /\ heads' \in {heads, Append(heads, now)}
    /\ UNCHANGED <<now, height, sets, solids, faults>>

SolidifyTransmission ==
    /\ Len(solids) < Len(heads)
    /\ solids' = Append(solids, now)
    /\ UNCHANGED <<now, height, sets, heads, pending, faults>>

AggNext ==
    \/ \E b \in Blocks : NewBlock(b)
    \/ Transmit \/ IncludeTransmission \/ SolidifyTransmission

Fault(kind) ==
    /\ kind \in Faults
    /\ faults < MaxFaults
    /\ faults' = faults + 1
    /\ UNCHANGED <<now, height, sets, heads, solids, pending>>
-----------------------------------------------------------------------------
(* The readers: every call but the one for transmissions uses the solidity node. *)

NoDetails == [block |-> 0, digest |-> 0]

\* What the contract reported once k configurations were set; (0, 0) before.
DetailsAfter(k) == IF k = 0 THEN NoDetails
                            ELSE [block |-> sets[k].block, digest |-> k]
LatestConfigDetails == DetailsAfter(Len(sets))

EventsIn(b) == {i \in DOMAIN sets : sets[i].block = b}

\* The ConfigSet events found in block b: those of transactions that call the
\* contract itself and whose info was served; a failed query is only logged.
GetEventsFromBlock(b, lost) == {i \in EventsIn(b) : sets[i].direct /\ i \notin lost}

\* Mutant: the first event is taken, however many there are.
ConfigFromFirstEventAt(b, lost) ==
    {d \in GetEventsFromBlock(b, lost) :
        \A e \in GetEventsFromBlock(b, lost) : d <= e}

\* The digest of the one event of block b; nothing stands for an error.
ConfigFromEventAt(b, lost) ==
    {d \in DOMAIN sets : b <= MaxEventBlock /\ GetEventsFromBlock(b, lost) = {d}}

\* The timestamp of the first transmission, before there is one, is zero.
SolidTransmission == [n |-> Len(solids), zeroTime |-> solids = <<>>]
HeadTransmission ==
    IF pending THEN [n |-> Len(heads) + 1, zeroTime |-> TRUE]
               ELSE [n |-> Len(heads), zeroTime |-> heads = <<>>]

\* The validating client asks the solidity node where the plain one asks the
\* full node.
TriggerConstantContractFullNode ==
    IF Validated THEN SolidTransmission ELSE HeadTransmission

ZeroAnswer(n) == n = 0 \/ n \in ZeroAnswers
=============================================================================
