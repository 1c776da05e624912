------------------------------ MODULE FeeLimit ------------------------------
(***************************************************************************)
(* What the broadcast loop does with an object before it signs it          *)
(* (relayer/txm/txm.go, energy.go): estimate the energy, look up its       *)
(* price, compute the fee limit, fetch the reference block and build the   *)
(* transaction.  The module follows one object through its attempts; a     *)
(* step is what the loop does with the answer of one RPC.                  *)
(*                                                                         *)
(* Integers have the width of the code: an int32 is an integer of          *)
(* -Half..Half-1.  The float64 factors are exact here, as they are in the  *)
(* code: 1.5^(n+1) times an int32 has at most 53 significant bits for      *)
(* n <= 12, and EnergyBumpTimes stays below MAX_RETRY_ATTEMPTS.            *)
(***************************************************************************)
EXTENDS Integers, Sequences

CONSTANTS Half,             \* 2^31 in the code
          MaxBumps,         \* bound on EnergyBumpTimes
          Padding,          \* EnergyMultiplier^(n+1), as a fraction
          DEFAULT_ENERGY_UNIT_PRICE,
          FixedEnergyValue, \* of the configuration; 0: estimate
          Energies,         \* what a node may estimate: an int64
          PriceLists        \* what GetEnergyPrices may return

MinInt32 == -Half
MaxInt32 == Half - 1
InInt32(x) == MinInt32 <= x /\ x <= MaxInt32

\* A component of the list: whether it has the form timestamp:integer, and the integer.
PriceEntry == [wellFormed : BOOLEAN, price : Int]

ASSUME FeeAssumption ==
    /\ Half \in Nat \ {0}
    /\ MaxBumps \in Nat
    /\ Padding \in [0..MaxBumps -> [num : Nat, den : Nat \ {0}]]
    /\ DEFAULT_ENERGY_UNIT_PRICE \in Int
    /\ InInt32(DEFAULT_ENERGY_UNIT_PRICE)
    /\ FixedEnergyValue \in Int
    /\ Energies \subseteq Int
    /\ PriceLists \subseteq Seq(PriceEntry) \ {<<>>}

\* The multiplier is at least 3/2 (1.5 in NewRelayer): its powers are, and grow as fast.
ASSUME PaddingAssumption ==
    /\ 2 * Padding[0].num >= 3 * Padding[0].den
    /\ \A m, n \in 0..MaxBumps : m < n =>
          2 * Padding[n].num * Padding[m].den >= 3 * Padding[m].num * Padding[n].den
-----------------------------------------------------------------------------
(* The arithmetic *)

\* Conversion of an integer, and the product of two int32, keep the low bits.
Int32(x) == ((x + Half) % (2 * Half)) - Half

\* Conversion of p/q, with q > 0, to an integer drops the fraction.
Truncated(p, q) == IF p >= 0 THEN p \div q ELSE -((-p) \div q)

\* Conversion of a float64 out of range depends on the architecture: the least int32 on
\* amd64, the nearest one on arm64.
FloatToInt32(x) ==
    IF InInt32(x) THEN {x}
    ELSE {MinInt32, IF x < 0 THEN MinInt32 ELSE MaxInt32}

\* Mutant: the price is parsed as a 64 bit integer.
ParseLatestEnergyPriceWide(prices) ==
    LET last == prices[Len(prices)]
    IN  IF last.wellFormed THEN last.price ELSE DEFAULT_ENERGY_UNIT_PRICE

\* The latest price is the last of the list; one that cannot be parsed is an error, upon
\* which the callers keep the default.
ParseLatestEnergyPrice(prices) ==
    LET last == prices[Len(prices)]
    IN  IF last.wellFormed /\ InInt32(last.price) THEN last.price
                                                  ELSE DEFAULT_ENERGY_UNIT_PRICE

\* Mutant: the factor is the one of the attempt before.
PaddedFeeLimitOnce(feeLimit, bumpTimes) ==
    FloatToInt32(Truncated(feeLimit * Padding[0].num, Padding[0].den))

CalculatePaddedFeeLimit(feeLimit, bumpTimes) ==
    FloatToInt32(Truncated(feeLimit * Padding[bumpTimes].num, Padding[bumpTimes].den))

\* Mutant: the padded limit of the energy is multiplied by the price.
FeeLimitRounded(energyUsed, energyUnitPrice, bumpTimes) ==
    {Int32(energyUnitPrice * f) : f \in CalculatePaddedFeeLimit(Int32(energyUsed), bumpTimes)}

\* The fee limits that the multiplication and the padding may result in.
FeeLimit(energyUsed, energyUnitPrice, bumpTimes) ==
    CalculatePaddedFeeLimit(Int32(energyUnitPrice * Int32(energyUsed)), bumpTimes)

\* The fee limit in unbounded integers.
ExactFeeLimit(energyUsed, energyUnitPrice, bumpTimes) ==
    Truncated(energyUnitPrice * energyUsed * Padding[bumpTimes].num,
              Padding[bumpTimes].den)
-----------------------------------------------------------------------------
(* The steps *)

VARIABLES prep,                  \* where the loop is with the object
          EstimateEnergyEnabled,
          EnergyBumpTimes,       \* of the object
          energyUsed,            \* locals of calculateFeeLimit
          energyUnitPrice,
          built,                 \* the transactions built from the object
          attempts               \* bound: how often it may still be retried

feeVars == <<prep, EstimateEnergyEnabled, EnergyBumpTimes, energyUsed,
             energyUnitPrice, built, attempts>>

Transaction == [energy : Int, price : Int, bumps : 0..MaxBumps, feeLimit : Int]

FeeTypeOK ==
    /\ prep \in {"none", "queued", "estimate", "trigger", "prices", "block", "out",
                 "done"}
    /\ EstimateEnergyEnabled \in BOOLEAN
    /\ EnergyBumpTimes \in 0..MaxBumps
    /\ energyUsed \in Int
    /\ energyUnitPrice \in Int /\ InInt32(energyUnitPrice)
    /\ built \in Seq(Transaction)
    /\ attempts \in Nat

\* The object is in BroadcastChan, or there is none.
FeeInit(n) ==
    /\ prep = IF n > 0 THEN "queued" ELSE "none"
    /\ EstimateEnergyEnabled = TRUE
    /\ EnergyBumpTimes = 0
    /\ energyUsed = 0
    /\ energyUnitPrice = DEFAULT_ENERGY_UNIT_PRICE
    /\ built = <<>>
    /\ attempts = n

object == <<EnergyBumpTimes, attempts>>

\* The loop receives the object and enters estimateEnergy.
ReceiveTx ==
    /\ prep = "queued"
    /\ energyUnitPrice' = DEFAULT_ENERGY_UNIT_PRICE
    /\ IF FixedEnergyValue # 0
       THEN prep' = "prices" /\ energyUsed' = FixedEnergyValue
       ELSE /\ prep' = IF EstimateEnergyEnabled THEN "estimate" ELSE "trigger"
            /\ energyUsed' = 0
    /\ UNCHANGED <<object, EstimateEnergyEnabled, built>>

\* EstimateEnergy or, after it, TriggerConstantContract answers.
Estimated ==
    /\ prep \in {"estimate", "trigger"}
    /\ energyUsed' \in Energies
    /\ prep' = "prices"
    /\ UNCHANGED <<object, EstimateEnergyEnabled, energyUnitPrice, built>>

\* The node does not support EstimateEnergy: it is not asked again.
EstimateUnsupported ==
    /\ prep = "estimate"
    /\ EstimateEnergyEnabled' = FALSE
    /\ prep' = "trigger"
    /\ UNCHANGED <<object, energyUsed, energyUnitPrice, built>>

EstimateFails ==
    /\ prep = "estimate"
    /\ prep' = "trigger"
    /\ UNCHANGED <<object, EstimateEnergyEnabled, energyUsed, energyUnitPrice, built>>

PricesAnswered ==
    /\ prep = "prices"
    /\ \E prices \in PriceLists : energyUnitPrice' = ParseLatestEnergyPrice(prices)
    /\ prep' = "block"
    /\ UNCHANGED <<object, EstimateEnergyEnabled, energyUsed, built>>

\* The default price is kept.
PricesFail ==
    /\ prep = "prices"
    /\ prep' = "block"
    /\ UNCHANGED <<object, EstimateEnergyEnabled, energyUsed, energyUnitPrice, built>>

\* computeRefBlockBytesAndHash succeeds, and so does BuildTransaction.
BuildTransaction ==
    /\ prep = "block"
    /\ \E fee \in FeeLimit(energyUsed, energyUnitPrice, EnergyBumpTimes) :
          built' = Append(built, [energy |-> energyUsed, price |-> energyUnitPrice,
                                  bumps |-> EnergyBumpTimes, feeLimit |-> fee])
    /\ prep' = "out"
    /\ UNCHANGED <<object, EstimateEnergyEnabled, energyUsed, energyUnitPrice>>

\* Mutant: both errors are logged only.
PreparationFailsLogged ==
    \/ /\ prep = "trigger"
       /\ prep' = "prices"
       /\ UNCHANGED <<object, EstimateEnergyEnabled, energyUsed, energyUnitPrice, built>>
    \/ BuildTransaction

\* An error of TriggerConstantContract or of the query for the block: the loop
\* continues with the next object, this one stays where it is.
PreparationFails ==
    /\ prep \in {"trigger", "block"}
    /\ prep' = "none"
    /\ UNCHANGED <<object, EstimateEnergyEnabled, energyUsed, energyUnitPrice, built>>

\* maybeRetry of the confirm loop sends the object again, after OUT_OF_ENERGY with a bump.
Retry ==
    /\ prep = "out"
    /\ attempts > 1
    /\ attempts' = attempts - 1
    /\ EnergyBumpTimes' \in {EnergyBumpTimes, EnergyBumpTimes + 1} \cap 0..MaxBumps
    /\ prep' = "queued"
    /\ UNCHANGED <<EstimateEnergyEnabled, energyUsed, energyUnitPrice, built>>

LoopStops ==
    /\ prep \in {"none", "queued", "out"}
    /\ prep' = "done"
    /\ UNCHANGED <<object, EstimateEnergyEnabled, energyUsed, energyUnitPrice, built>>
-----------------------------------------------------------------------------
(* Properties *)

Fits(t) == /\ t.energy >= 0 /\ t.price >= 0
           /\ InInt32(t.energy) /\ InInt32(t.price * t.energy)
           /\ InInt32(ExactFeeLimit(t.energy, t.price, t.bumps))

\* Although the energy is cut to 32 bits, the product wraps and the float is cut again,
\* a transaction carries exactly the fee limit that unbounded integers give, and one that
\* pays for the energy and half as much again, whenever the energy, the fee and the
\* padded fee fit into an int32.
FeeLimitExact ==
    \A i \in 1..Len(built) : LET t == built[i] IN Fits(t) =>
        /\ t.feeLimit = ExactFeeLimit(t.energy, t.price, t.bumps)
        /\ 2 * t.feeLimit + 1 >= 3 * t.price * t.energy

\* An attempt after a bump offers more than any earlier one, as long as the estimate and
\* the price have not fallen and nothing overflows.
BumpRaisesFee ==
    \A i, j \in 1..Len(built) :
        /\ i < j
        /\ built[i].bumps < built[j].bumps
        /\ 0 < built[i].energy /\ built[i].energy <= built[j].energy
        /\ 0 < built[i].price /\ built[i].price <= built[j].price
        /\ Fits(built[j])
        => built[i].feeLimit < built[j].feeLimit
=============================================================================
