---------------------------- MODULE RelayerProofs ----------------------------
(***************************************************************************)
(* Proofs for ValidatedClient and TronRelayer, for any callers, keys and   *)
(* answers and for any width of the integers: the client forwards nothing  *)
(* before the chain id matched, and the relayer uses it as ClientSpec      *)
(* says, so that this holds of the relayer too; the fee limits are those   *)
(* of unbounded integers; the monitor falls silent.                        *)
(***************************************************************************)
EXTENDS PluginRelayer, TLAPS
-----------------------------------------------------------------------------
(* The client *)

\* Only the holder of the write lock queries, and only before the verdict.
QueryExclusive == \A c \in Callers : pc[c] = "query" => writer = c /\ ~done

\* The fields agree with the answer they were set from.
FieldsMatchAnswer ==
    /\ done <=> genesis \notin {"none", "fail"}
    /\ done /\ ~err /\ ~crashed => genesis = "match"

ClientInv == ClientTypeOK /\ QueryExclusive /\ FieldsMatchAnswer /\ GatedByChainId

\* The initial state satisfies the inductive invariant.
LEMMA ClientInitInv == ClientInit => ClientInv
  BY DEF ClientInit, ClientInv, ClientTypeOK, QueryExclusive, FieldsMatchAnswer, GatedByChainId,
         GenesisAnswers

\* Every step of the client preserves the inductive invariant.
LEMMA ClientStepInv == ClientInv /\ [ClientNext]_clientVars => ClientInv'
<1> SUFFICES ASSUME ClientInv, [ClientNext]_clientVars PROVE ClientInv'
  OBVIOUS
<1> USE ClientAssumption DEF ClientInv, ClientTypeOK, QueryExclusive, FieldsMatchAnswer,
                             GatedByChainId, GenesisAnswers
<1>1. CASE UNCHANGED clientVars
  BY <1>1 DEF clientVars
<1>2. ASSUME NEW c \in Callers, Call(c) PROVE ClientInv'
  BY <1>2 DEF Call, At, Goto
<1>3. ASSUME NEW c \in Callers, CheckDone(c) PROVE ClientInv'
  BY <1>3 DEF CheckDone, At, Goto, ValidateReturns
<1>4. ASSUME NEW c \in Callers, Lock(c) PROVE ClientInv'
  BY <1>4 DEF Lock, At, Goto, ValidateReturns
<1>5. ASSUME NEW c \in Callers, QueryFails(c) PROVE ClientInv'
  BY <1>5 DEF QueryFails, At, Goto, ValidateReturns
<1>6. ASSUME NEW c \in Callers, QueryAnswered(c) PROVE ClientInv'
  <2>1. PICK a \in Answers \ {"fail"} :
          /\ genesis' = a
          /\ err' = (a \in {"mismatch", "unparsable"})
          /\ crashed' = (a = "short")
          /\ pc' = [pc EXCEPT ![c] = IF a # "match" THEN "idle" ELSE "forward"]
    BY <1>6 DEF QueryAnswered, Goto, ValidateReturns
  <2>2. /\ pc[c] = "query" /\ writer = c /\ ~done
        /\ done' = TRUE /\ writer' = Nil /\ sent' = sent
    BY <1>6 DEF QueryAnswered, At
  <2>3. a \in GenesisAnswers \ {"none", "fail"}
    BY <2>1
  <2>4. ~sent /\ \A d \in Callers : pc[d] # "forward"
    BY <2>2
  <2>5. \A d \in Callers : pc'[d] = IF d # c THEN pc[d]
                                  ELSE IF a # "match" THEN "idle" ELSE "forward"
    BY <2>1
  <2>6. ClientTypeOK'
    BY <2>1, <2>2, <2>3
  <2>7. QueryExclusive'
    <3>1. \A d \in Callers : pc[d] = "query" => d = c
      BY <2>2
    <3> QED
      BY <3>1, <2>5
  <2>8. FieldsMatchAnswer'
    BY <2>1, <2>2, <2>3
  <2>9. GatedByChainId'
    BY <2>1, <2>2, <2>4, <2>5
  <2> QED
    BY <2>6, <2>7, <2>8, <2>9
<1>7. ASSUME NEW c \in Callers, Forward(c) PROVE ClientInv'
  BY <1>7 DEF Forward, At, Goto
<1>8. ASSUME NEW c \in Callers, ForwardPanics(c) PROVE ClientInv'
  BY <1>8 DEF ForwardPanics, At, Goto
<1> QED
  BY <1>1, <1>2, <1>3, <1>4, <1>5, <1>6, <1>7, <1>8 DEF ClientNext, validate

\* The inductive invariant of the client.
LEMMA ClientInvariance == ClientSpec => []ClientInv
  BY ClientInitInv, ClientStepInv, PTL DEF ClientSpec

\* For any number of callers and any sequence of answers, the methods of the
\* client forward a request only after the genesis block matched.
THEOREM NothingForwardedUnmatched == ClientSpec => []GatedByChainId
<1>1. ClientInv => GatedByChainId
  BY DEF ClientInv
<1> QED
  BY ClientInvariance, <1>1, PTL

\* A step after the verdict leaves the answer and both fields alone.
LEMMA StepSticky ==
    ClientInv /\ [ClientNext]_clientVars =>
        [genesis \notin {"none", "fail"} => UNCHANGED <<genesis, done, err>>]_clientVars
<1> SUFFICES ASSUME ClientInv, [ClientNext]_clientVars, genesis \notin {"none", "fail"}
             PROVE UNCHANGED <<genesis, done, err>>
  BY DEF clientVars
<1>1. done
  BY DEF ClientInv, FieldsMatchAnswer
<1>2. \A c \in Callers : pc[c] # "query"
  BY <1>1 DEF ClientInv, QueryExclusive
<1>3. CASE UNCHANGED clientVars
  BY <1>3 DEF clientVars
<1>4. CASE ClientNext
  BY <1>2, <1>4 DEF ClientNext, validate, Call, CheckDone, Lock, QueryFails, QueryAnswered,
                    Forward, ForwardPanics, At
<1> QED
  BY <1>3, <1>4

\* The verdict of the first answered query is final: the second check under the
\* write lock keeps every later caller from asking again.
THEOREM VerdictIsFinal == ClientSpec => VerdictSticky
  BY ClientInvariance, StepSticky, PTL DEF ClientSpec, VerdictSticky
-----------------------------------------------------------------------------
(* The arithmetic of the fee limit *)

\* A remainder that is no proper one.
LEMMA ModSmall ==
    ASSUME NEW k \in Nat, NEW m \in Nat \ {0}, k < m
    PROVE  k % m = k
<1>1. k \div m = 0
  BY SMT
<1>2. k = m * (k \div m) + (k % m)
  BY SMT
<1> QED
  BY <1>1, <1>2, SMT

\* An integer that fits is its own conversion.
LEMMA Int32InRange ==
    ASSUME NEW x \in Int, InInt32(x)
    PROVE  Int32(x) = x
<1>1. x + Half \in 0 .. 2 * Half - 1
  BY FeeAssumption DEF InInt32, MinInt32, MaxInt32
<1>2. (x + Half) % (2 * Half) = x + Half
  <2>1. x + Half \in Nat /\ 2 * Half \in Nat \ {0} /\ x + Half < 2 * Half
    BY <1>1, FeeAssumption
  <2> QED
    BY <2>1, ModSmall
<1> QED
  BY <1>2, FeeAssumption DEF Int32

\* Division brackets the quotient.
LEMMA DivBounds ==
    ASSUME NEW p \in Nat, NEW q \in Nat \ {0}
    PROVE  /\ p \div q \in Nat
           /\ (p \div q) * q <= p
           /\ p < (p \div q + 1) * q
  OBVIOUS

\* The factors are natural fractions.
LEMMA PaddingType ==
    ASSUME NEW n \in 0..MaxBumps
    PROVE  Padding[n].num \in Nat /\ Padding[n].den \in Nat \ {0}
  BY FeeAssumption

\* Every factor is at least 3/2.
LEMMA PaddingAtLeast ==
    ASSUME NEW n \in 0..MaxBumps
    PROVE  2 * Padding[n].num >= 3 * Padding[n].den
<1> DEFINE N == Padding[n].num
           D == Padding[n].den
           N0 == Padding[0].num
           D0 == Padding[0].den
<1>0. 0 \in 0..MaxBumps
  BY FeeAssumption
<1>1. N \in Nat /\ D \in Nat \ {0} /\ N0 \in Nat /\ D0 \in Nat \ {0}
  BY PaddingType, <1>0
<1>2. CASE n = 0
  BY <1>2, PaddingAssumption
<1>3. CASE n # 0
  <2>1. 2 * N * D0 >= 3 * N0 * D
    BY <1>3, <1>0, PaddingAssumption
  <2>2. 2 * N0 >= 3 * D0
    BY PaddingAssumption
  <2> HIDE DEF N, D, N0, D0
  <2>3. 2 * N0 * D >= 3 * D0 * D
    BY <2>2, <1>1
  <2>4. 4 * N * D0 >= 9 * D0 * D
    BY <2>1, <2>3, <1>1
  <2>5. D0 * (4 * N - 9 * D) >= 0
    BY <2>4, <1>1
  <2>6. 4 * N >= 9 * D
    BY <2>5, <1>1
  <2> QED
    BY <2>6, <1>1 DEF N, D
<1> QED
  BY <1>2, <1>3

\* The padded fee covers the fee and half as much again, but for the fraction dropped.
LEMMA PaddedCovers ==
    ASSUME NEW p \in Nat, NEW n \in Nat, NEW d \in Nat \ {0}, 2 * n >= 3 * d
    PROVE  2 * ((p * n) \div d) + 1 >= 3 * p
<1> DEFINE a == (p * n) \div d
<1>1. p * n \in Nat
  OBVIOUS
<1>2. a \in Nat /\ p * n < (a + 1) * d
  BY <1>1, DivBounds
<1> HIDE DEF a
<1>3. 2 * (p * n) >= 3 * (p * d)
  <2>1. p * (2 * n - 3 * d) >= 0
    OBVIOUS
  <2> QED
    BY <2>1
<1>4. 3 * (p * d) < 2 * ((a + 1) * d)
  BY <1>2, <1>3
<1>5. (2 * (a + 1) - 3 * p) * d > 0
  BY <1>4, <1>2
<1>6. 2 * (a + 1) - 3 * p > 0
  BY <1>5, <1>2
<1> QED
  BY <1>6, <1>2 DEF a

\* A factor that is 3/2 times another one, itself at least 3/2, yields more.
LEMMA LargerFactorPaysMore ==
    ASSUME NEW p \in Nat \ {0}, NEW q \in Nat, p <= q,
           NEW m \in Nat, NEW c \in Nat \ {0}, 2 * m >= 3 * c,
           NEW n \in Nat, NEW d \in Nat \ {0}, 2 * n * c >= 3 * m * d
    PROVE  (p * m) \div c < (q * n) \div d
<1> DEFINE a == (p * m) \div c
           b == (q * n) \div d
           x == p * m
           y == q * n
<1>1. x \in Nat /\ y \in Nat
  OBVIOUS
<1>2. /\ a \in Nat /\ a * c <= x /\ x < (a + 1) * c
      /\ b \in Nat /\ y < (b + 1) * d
  BY <1>1, DivBounds
<1>3. 2 * x >= 3 * c
  <2>1. p * (2 * m - 3 * c) >= 0 /\ (p - 1) * c >= 0
    OBVIOUS
  <2>2. 2 * x = p * (2 * m - 3 * c) + 3 * ((p - 1) * c) + 3 * c
    OBVIOUS
  <2> QED
    BY <2>1, <2>2
<1>4. 2 * (y * c) >= 3 * (x * d)
  <2>1. p * (2 * n * c - 3 * m * d) >= 0 /\ (q - p) * (n * c) >= 0
    <3>1. n * c \in Nat /\ m * d \in Nat /\ 2 * (n * c) - 3 * (m * d) >= 0
      OBVIOUS
    <3> QED
      BY <3>1
  <2>2. 2 * (y * c) - 3 * (x * d)
          = p * (2 * n * c - 3 * m * d) + 2 * ((q - p) * (n * c))
    OBVIOUS
  <2> QED
    BY <2>1, <2>2, <1>1
<1> HIDE DEF a, b, x, y
<1>5. SUFFICES ASSUME b <= a PROVE FALSE
  BY <1>2 DEF a, b
<1>6. y < (a + 1) * d
  <2>1. (a - b) * d >= 0
    BY <1>5, <1>2
  <2> QED
    BY <2>1, <1>1, <1>2
<1>7. 3 * x < 2 * ((a + 1) * c)
  <2>1. y * c < (a + 1) * d * c
    <3>1. ((a + 1) * d - y) * c > 0
      BY <1>6, <1>1, <1>2
    <3> QED
      BY <3>1, <1>1, <1>2
  <2>2. 3 * (x * d) < 2 * ((a + 1) * d * c)
    BY <2>1, <1>4, <1>1, <1>2
  <2>3. (2 * ((a + 1) * c) - 3 * x) * d > 0
    BY <2>2, <1>1, <1>2
  <2> DEFINE z == 2 * ((a + 1) * c) - 3 * x
  <2>4. z \in Int /\ z * d > 0
    BY <2>3, <1>1, <1>2
  <2> HIDE DEF z
  <2>5. z > 0
    BY <2>4
  <2> QED
    BY <2>5, <1>1, <1>2 DEF z
<1>8. CASE a >= 2
  <2>1. (a - 2) * c >= 0
    BY <1>8, <1>2
  <2> QED
    BY <2>1, <1>7, <1>1, <1>2
<1>9. CASE a < 2
  <2>1. a = 0 \/ a = 1
    BY <1>9, <1>2
  <2> QED
    BY <2>1, <1>3, <1>7, <1>1, <1>2
<1> QED
  BY <1>8, <1>9, <1>2
-----------------------------------------------------------------------------
(* The fee limits of the transactions *)

FeeStep == \/ ReceiveTx \/ Estimated \/ EstimateUnsupported \/ EstimateFails
           \/ PreparationFails \/ PricesAnswered \/ PricesFail \/ BuildTransaction
           \/ Retry \/ LoopStops

\* Every transaction carries a fee limit that the arithmetic may result in.
FeesComputed ==
    \A i \in 1..Len(built) :
        built[i].feeLimit \in FeeLimit(built[i].energy, built[i].price, built[i].bumps)

FeeInv == FeeTypeOK /\ FeesComputed

\* The conversions yield integers.
LEMMA FeeLimitType ==
    ASSUME NEW e \in Int, NEW p \in Int, NEW n \in 0..MaxBumps
    PROVE  FeeLimit(e, p, n) \subseteq Int
<1>1. Half \in Nat \ {0} /\ 2 * Half \in Nat \ {0}
  BY FeeAssumption
<1>2. \A x \in Int : Int32(x) \in Int
  <2> SUFFICES ASSUME NEW x \in Int PROVE Int32(x) \in Int
    OBVIOUS
  <2>1. x + Half \in Int
    BY <1>1
  <2>2. (x + Half) % (2 * Half) \in Int
    BY <2>1, <1>1, SMT
  <2> QED
    BY <2>2, <1>1 DEF Int32
<1>3. Int32(e) \in Int
  BY <1>2
<1>4. p * Int32(e) \in Int
  BY <1>3
<1> DEFINE f == Int32(p * Int32(e))
<1>5. f \in Int
  BY <1>2, <1>4
<1> HIDE DEF f
<1>6. f * Padding[n].num \in Int /\ Padding[n].den \in Nat \ {0}
  BY <1>5, PaddingType
<1> DEFINE g == f * Padding[n].num
           d == Padding[n].den
<1> HIDE DEF g, d
<1>7. g \in Int /\ d \in Nat \ {0}
  BY <1>6 DEF g, d
<1>8. Truncated(g, d) \in Int
  <2>1. CASE g >= 0
    <3>1. g \div d \in Int
      BY <2>1, <1>7
    <3> QED
      BY <2>1, <3>1 DEF Truncated
  <2>2. CASE ~(g >= 0)
    <3>1. -g \in Nat
      BY <2>2, <1>7
    <3>2. (-g) \div d \in Int
      BY <3>1, <1>7
    <3> QED
      BY <2>2, <3>2 DEF Truncated
  <2> QED
    BY <2>1, <2>2
<1>9. FloatToInt32(Truncated(g, d)) \subseteq Int
  BY <1>8, <1>1 DEF FloatToInt32, MinInt32, MaxInt32
<1> QED
  BY <1>9 DEF FeeLimit, CalculatePaddedFeeLimit, f, g, d

\* A transaction for which nothing overflows carries the exact fee limit.
LEMMA ExactWhenFits ==
    ASSUME NEW t \in Transaction, Fits(t),
           t.feeLimit \in FeeLimit(t.energy, t.price, t.bumps)
    PROVE  /\ t.feeLimit = ExactFeeLimit(t.energy, t.price, t.bumps)
           /\ t.price * t.energy \in Nat
           /\ t.feeLimit = (t.price * t.energy * Padding[t.bumps].num)
                              \div Padding[t.bumps].den
<1> DEFINE e == t.energy
           p == t.price
           N == Padding[t.bumps].num
           D == Padding[t.bumps].den
<1>1. e \in Nat /\ p \in Nat /\ t.bumps \in 0..MaxBumps
  BY DEF Fits, Transaction
<1>2. N \in Nat /\ D \in Nat \ {0}
  BY <1>1, PaddingType
<1>3. Int32(e) = e
  BY <1>1, Int32InRange DEF Fits
<1>4. p * e \in Nat
  BY <1>1
<1>5. Int32(p * e) = p * e
  BY <1>4, Int32InRange DEF Fits
<1>6. FeeLimit(e, p, t.bumps) = FloatToInt32(Truncated(p * e * N, D))
  BY <1>3, <1>5 DEF FeeLimit, CalculatePaddedFeeLimit
<1>7. InInt32(Truncated(p * e * N, D))
  BY DEF Fits, ExactFeeLimit
<1>8. FeeLimit(e, p, t.bumps) = {Truncated(p * e * N, D)}
  BY <1>6, <1>7 DEF FloatToInt32
<1>9. p * e * N \in Nat
  BY <1>4, <1>2
<1>10. Truncated(p * e * N, D) = (p * e * N) \div D
  BY <1>9 DEF Truncated
<1> QED
  BY <1>4, <1>8, <1>10 DEF ExactFeeLimit

\* The initial states satisfy the invariant of the fees.
LEMMA FeeInitInv == ASSUME NEW n \in Nat, FeeInit(n) PROVE FeeInv
  BY FeeAssumption DEF FeeInit, FeeInv, FeeTypeOK, FeesComputed

\* Every step with the object preserves the invariant of the fees.
LEMMA FeeStepInv == FeeInv /\ [FeeStep]_feeVars => FeeInv'
<1> SUFFICES ASSUME FeeInv, [FeeStep]_feeVars PROVE FeeInv'
  OBVIOUS
<1> USE DEF FeeInv
<1>1. CASE UNCHANGED feeVars
  BY <1>1 DEF feeVars, FeeTypeOK, FeesComputed
<1>2. CASE ReceiveTx
  BY <1>2, FeeAssumption DEF ReceiveTx, object, FeeTypeOK, FeesComputed
<1>3. CASE Estimated
  BY <1>3, FeeAssumption DEF Estimated, object, FeeTypeOK, FeesComputed
<1>4. CASE EstimateUnsupported
  BY <1>4 DEF EstimateUnsupported, object, FeeTypeOK, FeesComputed
<1>5. CASE EstimateFails
  BY <1>5 DEF EstimateFails, object, FeeTypeOK, FeesComputed
<1>6. CASE PreparationFails
  BY <1>6 DEF PreparationFails, object, FeeTypeOK, FeesComputed
<1>7. CASE PricesAnswered
  <2>1. PICK prices \in PriceLists : energyUnitPrice' = ParseLatestEnergyPrice(prices)
    BY <1>7 DEF PricesAnswered
  <2>2. prices \in Seq(PriceEntry) /\ prices # <<>>
    BY FeeAssumption
  <2>3. prices[Len(prices)] \in PriceEntry
    BY <2>2
  <2>4. energyUnitPrice' \in Int /\ InInt32(energyUnitPrice')
    BY <2>1, <2>3, FeeAssumption DEF ParseLatestEnergyPrice, PriceEntry
  <2> QED
    BY <1>7, <2>4 DEF PricesAnswered, object, FeeTypeOK, FeesComputed
<1>8. CASE PricesFail
  BY <1>8 DEF PricesFail, object, FeeTypeOK, FeesComputed
<1>9. CASE BuildTransaction
  <2>1. PICK fee \in FeeLimit(energyUsed, energyUnitPrice, EnergyBumpTimes) :
           built' = Append(built, [energy |-> energyUsed, price |-> energyUnitPrice,
                                   bumps |-> EnergyBumpTimes, feeLimit |-> fee])
    BY <1>9 DEF BuildTransaction
  <2> DEFINE t == [energy |-> energyUsed, price |-> energyUnitPrice,
                   bumps |-> EnergyBumpTimes, feeLimit |-> fee]
  <2>2. fee \in Int
    BY FeeLimitType DEF FeeTypeOK
  <2>3. t \in Transaction
    BY <2>2 DEF Transaction, FeeTypeOK
  <2>4. t.feeLimit \in FeeLimit(t.energy, t.price, t.bumps)
    OBVIOUS
  <2> HIDE DEF t
  <2>5. built \in Seq(Transaction) /\ built' = Append(built, t)
    BY <2>1 DEF t, FeeTypeOK
  <2>6. built' \in Seq(Transaction)
    BY <2>5, <2>3
  <2>7. Len(built') = Len(built) + 1 /\ \A i \in 1..Len(built') :
           built'[i] = IF i <= Len(built) THEN built[i] ELSE t
    BY <2>5, <2>3
  <2>8. FeesComputed'
    <3> SUFFICES ASSUME NEW i \in 1..Len(built')
                 PROVE  built'[i].feeLimit
                          \in FeeLimit(built'[i].energy, built'[i].price, built'[i].bumps)
      BY DEF FeesComputed
    <3>1. CASE i <= Len(built)
      <4>1. built'[i] = built[i] /\ i \in 1..Len(built)
        BY <2>5, <2>7, <3>1
      <4> QED
        BY <4>1 DEF FeesComputed
    <3>2. CASE ~(i <= Len(built))
      BY <2>4, <2>7, <3>2
    <3> QED
      BY <3>1, <3>2
  <2>9. FeeTypeOK'
    BY <1>9, <2>6 DEF BuildTransaction, object, FeeTypeOK
  <2> QED
    BY <2>8, <2>9
<1>10. CASE Retry
  BY <1>10, FeeAssumption DEF Retry, FeeTypeOK, FeesComputed
<1>11. CASE LoopStops
  BY <1>11 DEF LoopStops, object, FeeTypeOK, FeesComputed
<1> QED
  BY <1>1, <1>2, <1>3, <1>4, <1>5, <1>6, <1>7, <1>8, <1>9, <1>10, <1>11 DEF FeeStep

\* The computed fee limits are exact where nothing overflows.
LEMMA ComputedIsExact == FeeInv => FeeLimitExact
<1> SUFFICES ASSUME FeeInv, NEW i \in 1..Len(built), Fits(built[i])
             PROVE  /\ built[i].feeLimit
                         = ExactFeeLimit(built[i].energy, built[i].price, built[i].bumps)
                    /\ 2 * built[i].feeLimit + 1 >= 3 * built[i].price * built[i].energy
  BY DEF FeeLimitExact
<1> DEFINE t == built[i]
<1>1. t \in Transaction /\ t.feeLimit \in FeeLimit(t.energy, t.price, t.bumps)
  BY DEF FeeInv, FeeTypeOK, FeesComputed
<1>2. Fits(t)
  OBVIOUS
<1> HIDE DEF t
<1> DEFINE N == Padding[t.bumps].num
           D == Padding[t.bumps].den
           p == t.price * t.energy
<1>3. t.feeLimit = ExactFeeLimit(t.energy, t.price, t.bumps)
  BY <1>1, <1>2, ExactWhenFits
<1>4. p \in Nat /\ t.feeLimit = (p * N) \div D
  BY <1>1, <1>2, ExactWhenFits
<1>5. t.bumps \in 0..MaxBumps /\ t.price \in Int /\ t.energy \in Int
  BY <1>1 DEF Transaction
<1>6. N \in Nat /\ D \in Nat \ {0} /\ 2 * N >= 3 * D
  BY <1>5, PaddingType, PaddingAtLeast
<1> HIDE DEF p, N, D
<1>7. 2 * t.feeLimit + 1 >= 3 * p
  BY <1>4, <1>6, PaddedCovers
<1>8. 3 * p = 3 * t.price * t.energy
  BY <1>5 DEF p
<1> QED
  BY <1>3, <1>7, <1>8 DEF t

\* The product of larger factors is larger.
LEMMA ProductsRise ==
    ASSUME NEW a \in Nat \ {0}, NEW b \in Nat, NEW c \in Nat \ {0}, NEW d \in Nat,
           a <= b, c <= d
    PROVE  a * c \in Nat \ {0} /\ b * d \in Nat /\ a * c <= b * d
<1>1. a * c \in Nat \ {0} /\ b * d \in Nat
  OBVIOUS
<1>2. (b - a) * d >= 0 /\ a * (d - c) >= 0
  OBVIOUS
<1>3. b * d - a * c = (b - a) * d + a * (d - c)
  OBVIOUS
<1> QED
  BY <1>1, <1>2, <1>3

\* The computed fee limits rise with the bumps where nothing overflows.
LEMMA ComputedRises == FeeInv => BumpRaisesFee
<1> SUFFICES ASSUME FeeInv, NEW i \in 1..Len(built), NEW j \in 1..Len(built),
                    built[i].bumps < built[j].bumps,
                    0 < built[i].energy, built[i].energy <= built[j].energy,
                    0 < built[i].price, built[i].price <= built[j].price,
                    Fits(built[j])
             PROVE  built[i].feeLimit < built[j].feeLimit
  BY DEF BumpRaisesFee
<1> DEFINE s == built[i]
           t == built[j]
<1>1. /\ s \in Transaction /\ s.feeLimit \in FeeLimit(s.energy, s.price, s.bumps)
      /\ t \in Transaction /\ t.feeLimit \in FeeLimit(t.energy, t.price, t.bumps)
  BY DEF FeeInv, FeeTypeOK, FeesComputed
<1>2. /\ s.bumps < t.bumps /\ 0 < s.energy /\ s.energy <= t.energy
      /\ 0 < s.price /\ s.price <= t.price /\ Fits(t)
  OBVIOUS
<1> SUFFICES s.feeLimit < t.feeLimit
  OBVIOUS
<1> HIDE DEF s, t
<1> DEFINE M == Padding[s.bumps].num
           C == Padding[s.bumps].den
           N == Padding[t.bumps].num
           D == Padding[t.bumps].den
           p == s.price * s.energy
           q == t.price * t.energy
<1>3. /\ s.bumps \in 0..MaxBumps /\ s.price \in Nat \ {0} /\ s.energy \in Nat \ {0}
      /\ t.bumps \in 0..MaxBumps /\ t.price \in Nat \ {0} /\ t.energy \in Nat \ {0}
  BY <1>1, <1>2 DEF Transaction
<1>4. /\ M \in Nat /\ C \in Nat \ {0} /\ 2 * M >= 3 * C
      /\ N \in Nat /\ D \in Nat \ {0} /\ 2 * N * C >= 3 * M * D
  BY <1>2, <1>3, PaddingType, PaddingAtLeast, PaddingAssumption
<1>5. p \in Nat \ {0} /\ q \in Nat /\ p <= q
  BY <1>2, <1>3, ProductsRise
<1>6. t.feeLimit = (q * N) \div D
  BY <1>1, <1>2, ExactWhenFits
<1> HIDE DEF p, q, M, C, N, D
<1>7. (p * M) \div C < (q * N) \div D
  BY <1>4, <1>5, LargerFactorPaysMore
<1>8. Fits(s)
  <2>1. InInt32(t.energy) /\ InInt32(q) /\ InInt32((q * N) \div D)
    <3>1. InInt32(t.energy) /\ InInt32(q)
      BY <1>2 DEF Fits, q
    <3>2. InInt32(t.feeLimit)
      BY <1>1, <1>2, ExactWhenFits DEF Fits
    <3> QED
      BY <3>1, <3>2, <1>6
  <2>2. s.energy <= t.energy /\ s.energy \in Nat /\ t.energy \in Nat
    BY <1>2, <1>3
  <2>3. p * M \in Nat /\ q * N \in Nat
    BY <1>4, <1>5
  <2>4. (p * M) \div C \in Nat /\ (q * N) \div D \in Nat
    BY <2>3, <1>4, DivBounds
  <2>5. Truncated(p * M, C) = (p * M) \div C
    BY <2>3 DEF Truncated
  <2>6. \A x, y \in Nat : x <= y /\ InInt32(y) => InInt32(x)
    BY FeeAssumption DEF InInt32, MinInt32, MaxInt32
  <2>7. InInt32(s.energy) /\ InInt32(p) /\ InInt32((p * M) \div C)
    BY <2>1, <2>2, <2>4, <2>6, <1>5, <1>7
  <2> QED
    BY <2>5, <2>7, <1>3 DEF Fits, ExactFeeLimit, p, M, C
<1>9. s.feeLimit = (p * M) \div C
  BY <1>1, <1>8, ExactWhenFits DEF p, M, C
<1> QED
  BY <1>6, <1>7, <1>9
-----------------------------------------------------------------------------
(* The balance monitor *)

MonitorStep == \/ MonitorStarts \/ MonitorClose \/ MonitorCloseReturns
               \/ MonitorTick \/ MonitorStops \/ updateBalances
               \/ \E i \in 1..Len(keys) : Deposit(keys[i])

\* The loop over the keys is at one of them.
AtKey == mpc \in {"check", "get"} => at \in 1..Len(keys)

\* The call that is under way when stop is closed is the only one after it.
NoCallAfterStop ==
    /\ monitor = "closed" => mpc = "done"
    /\ monitor \in {"new", "running"} \/ mpc = "get" => asked = 0
    /\ QuietAfterStop

MonitorInv == MonitorTypeOK /\ AtKey /\ NoCallAfterStop

\* The initial states satisfy the invariant of the monitor.
LEMMA MonitorInitInv == ASSUME NEW ks \in Seq(AllKeys), MonitorInit(ks) PROVE MonitorInv
<1>1. /\ [k \in AllKeys |-> 0] \in [AllKeys -> 0..MaxBalance]
      /\ [k \in AllKeys |-> -1] \in [AllKeys -> -1..MaxBalance]
      /\ 0 \in 0..MaxMonitorFaults
  BY MonitorAssumption
<1>2. MonitorTypeOK
  BY <1>1 DEF MonitorInit, MonitorTypeOK
<1> QED
  BY <1>2 DEF MonitorInit, MonitorInv, AtKey, NoCallAfterStop, QuietAfterStop

\* Every step of the monitor preserves its invariant.
LEMMA MonitorStepInv == MonitorInv /\ [MonitorStep]_monVars => MonitorInv'
<1> SUFFICES ASSUME MonitorInv, [MonitorStep]_monVars PROVE MonitorInv'
  OBVIOUS
<1> USE MonitorAssumption
    DEF MonitorInv, MonitorTypeOK, AtKey, NoCallAfterStop, QuietAfterStop, monFrame
<1>1. CASE UNCHANGED monVars
  BY <1>1 DEF monVars
<1>2. CASE MonitorStarts
  BY <1>2 DEF MonitorStarts
<1>3. CASE MonitorClose
  BY <1>3 DEF MonitorClose
<1>4. CASE MonitorCloseReturns
  BY <1>4 DEF MonitorCloseReturns
<1>5. CASE MonitorTick
  BY <1>5 DEF MonitorTick
<1>6. CASE MonitorStops
  BY <1>6 DEF MonitorStops
<1>7. CASE NoKeys
  BY <1>7 DEF NoKeys, MonitorFault
<1>8. CASE GetReader
  <2>1. Len(keys) \in Nat \ {0}
    BY <1>8 DEF GetReader
  <2>2. 1 \in 1..Len(keys)
    BY <2>1
  <2>3. MonitorTypeOK'
    BY <1>8 DEF GetReader
  <2>4. AtKey' /\ NoCallAfterStop'
    BY <1>8, <2>2 DEF GetReader
  <2> QED
    BY <2>3, <2>4
<1>9. CASE CheckStop
  <2>1. /\ mpc = "check" /\ at \in 1..Len(keys) /\ Len(keys) \in Nat
        /\ UNCHANGED <<keys, balance, monitor, gauge, asked, monFaults>>
    BY <1>9 DEF CheckStop
  <2>2. MonitorTypeOK'
    BY <1>9, <2>1 DEF CheckStop, NextKey
  <2>3. AtKey'
    BY <1>9, <2>1 DEF CheckStop, NextKey
  <2>4. NoCallAfterStop'
    BY <1>9, <2>1 DEF CheckStop, NextKey
  <2> QED
    BY <2>2, <2>3, <2>4
<1>10. CASE GetAccount
  <2>1. /\ mpc = "get" /\ at \in 1..Len(keys) /\ Len(keys) \in Nat
        /\ UNCHANGED <<keys, balance, monitor>>
    BY <1>10 DEF GetAccount
  <2>2. keys[at] \in AllKeys
    BY <2>1
  <2>3. /\ asked' \in Nat /\ asked' <= 1
        /\ monitor \in {"new", "running"} => asked' = 0
    BY <1>10, <2>1 DEF GetAccount
  <2>4. PICK got \in BOOLEAN : NextKey(got)
    BY <1>10 DEF GetAccount
  <2>5. gauge' \in [AllKeys -> -1..MaxBalance] /\ monFaults' \in 0..MaxMonitorFaults
    <3>1. balance[keys[at]] \in -1..MaxBalance
      BY <2>2
    <3>2. CASE MonitorFault /\ UNCHANGED gauge
      <4>1. monFaults' \in 0..MaxMonitorFaults
        BY <3>2 DEF MonitorFault
      <4> QED
        BY <3>2, <4>1
    <3>3. CASE /\ gauge' = [gauge EXCEPT ![keys[at]] = balance[keys[at]]]
               /\ UNCHANGED monFaults
      <4>1. gauge' \in [AllKeys -> -1..MaxBalance]
        BY <2>2, <3>1, <3>3
      <4> QED
        BY <3>3, <4>1
    <3> QED
      BY <1>10, <3>2, <3>3 DEF GetAccount, updateProm
  <2>6. /\ mpc' \in {"check", "wait"} /\ at' \in Nat /\ reader' \in BOOLEAN
        /\ gotSomeBals' \in BOOLEAN
        /\ mpc' = "check" => at' \in 1..Len(keys)
    BY <2>1, <2>4 DEF NextKey
  <2>7. MonitorTypeOK'
    BY <2>1, <2>3, <2>5, <2>6
  <2>8. AtKey'
    BY <2>1, <2>6
  <2>9. NoCallAfterStop'
    BY <2>1, <2>3, <2>6
  <2> QED
    BY <2>7, <2>8, <2>9
<1>11. ASSUME NEW i \in 1..Len(keys), Deposit(keys[i]) PROVE MonitorInv'
  <2>1. keys[i] \in AllKeys
    OBVIOUS
  <2> QED
    BY <1>11, <2>1 DEF Deposit
<1> QED
  BY <1>1, <1>2, <1>3, <1>4, <1>5, <1>6, <1>7, <1>8, <1>9, <1>10, <1>11
     DEF MonitorStep, updateBalances
-----------------------------------------------------------------------------
(* The relayer *)

\* A step of the relayer is a step of each part, or leaves the part alone.
LEMMA Projection ==
    [Next]_vars => [ClientNext]_clientVars /\ [FeeStep]_feeVars /\ [MonitorStep]_monVars
<1> SUFFICES ASSUME [Next]_vars
             PROVE  [ClientNext]_clientVars /\ [FeeStep]_feeVars /\ [MonitorStep]_monVars
  OBVIOUS
<1> USE RelayerAssumption DEF ClientNext, FeeStep, MonitorStep
<1>1. CASE UNCHANGED vars
  BY <1>1 DEF vars
<1>2. CASE Start \/ MonitorStarted \/ Close
  BY <1>2 DEF Start, MonitorStarted, Close
<1>3. CASE services
  BY <1>3 DEF services, TxmClose, TxmCloseReturns, MonitorCloses, CloseReturns
<1>4. CASE broadcastLoop \/ Retries
  BY <1>4 DEF broadcastLoop, BroadcastReceives, BroadcastCalls, RefBlockPanics,
              BroadcastStops, Retries, broadcastFrame
<1>5. ASSUME NEW c \in Callers, OtherCalls(c) \/ Validates(c) \/ Forwards(c)
      PROVE  [ClientNext]_clientVars /\ [FeeStep]_feeVars /\ [MonitorStep]_monVars
  <2>1. ClientNext
    BY <1>5 DEF OtherCalls, Validates, Forwards
  <2>2. UNCHANGED monVars
    BY <1>5 DEF OtherCalls, Validates, Forwards, AfterValidation, AfterAnswer,
                broadcastFrame
  <2>3. [FeeStep]_feeVars
    BY <1>5 DEF OtherCalls, Validates, Forwards, AfterValidation, AfterAnswer, RpcFails
  <2> QED
    BY <2>1, <2>2, <2>3
<1>6. CASE monitorLoop \/ MonitorLoopStops
  BY <1>6 DEF monitorLoop, MonitorLoopStops, monitorFrame
<1>7. CASE \E i \in 1..Len(keys) : Deposit(keys[i]) /\ UNCHANGED monitorFrame
  BY <1>7 DEF monitorFrame
<1> QED
  BY <1>1, <1>2, <1>3, <1>4, <1>5, <1>6, <1>7 DEF Next

\* The relayer uses the client as ClientSpec says, whatever its services do: the
\* validation of a client that is shared by all of them is the one of a client alone.
THEOREM RelayerUsesClient == Spec => ClientSpec
<1>1. Init => ClientInit
  BY DEF Init, RelayerInit
<1> QED
  BY <1>1, Projection, PTL DEF Spec, ClientSpec

\* For any callers and any answers, no service of the relayer gets a request through the
\* validating client before the genesis block matched.
THEOREM RelayerGated == Spec => []GatedByChainId
  BY RelayerUsesClient, NothingForwardedUnmatched, PTL

\* A service that asks again after another one has got its verdict gets the same one.
THEOREM RelayerVerdictFinal == Spec => VerdictSticky
  BY RelayerUsesClient, VerdictIsFinal, PTL

\* The states of the services and the callers.
RelayerTypeOK ==
    /\ relayer \in {"new", "starting", "started", "closing", "closed"}
    /\ loops \in {"new", "running", "stopping", "closed"}
    /\ others \in SUBSET (Callers \ {Broadcaster})

\* A transaction was built from the answers of forwarded requests.
BuiltFromAnswers == built # <<>> => sent

RelayerInv == ClientInv /\ FeeInv /\ MonitorInv /\ RelayerTypeOK /\ BuiltFromAnswers

\* The initial states satisfy the invariant.
LEMMA RelayerInitInv == Init => RelayerInv
<1> SUFFICES ASSUME Init PROVE RelayerInv
  OBVIOUS
<1>1. PICK w \in Workloads : RelayerInit(w)
  BY DEF Init
<1>2. /\ w.attempts \in Nat /\ w.keys \in Seq(AllKeys)
      /\ w.callers \in SUBSET (Callers \ {Broadcaster})
  BY RelayerAssumption
<1>3. ClientInv
  BY <1>1, ClientInitInv DEF RelayerInit
<1>4. FeeInv
  BY <1>1, <1>2, FeeInitInv DEF RelayerInit
<1>5. MonitorInv
  BY <1>1, <1>2, MonitorInitInv DEF RelayerInit
<1>6. RelayerTypeOK
  BY <1>1, <1>2 DEF RelayerInit, RelayerTypeOK
<1>7. BuiltFromAnswers
  BY <1>1 DEF RelayerInit, FeeInit, BuiltFromAnswers
<1> QED
  BY <1>3, <1>4, <1>5, <1>6, <1>7 DEF RelayerInv

\* A transaction is built in the step that takes the answer of a forwarded request.
LEMMA BuiltFromAnswersStep == BuiltFromAnswers /\ [Next]_vars => BuiltFromAnswers'
<1> SUFFICES ASSUME BuiltFromAnswers, [Next]_vars PROVE BuiltFromAnswers'
  OBVIOUS
<1>1. sent => sent'
  <2>1. [ClientNext]_clientVars
    BY Projection
  <2> QED
    BY <2>1 DEF ClientNext, clientVars, Call, validate, CheckDone, Lock, QueryFails,
                QueryAnswered, Forward, ForwardPanics
<1>2. SUFFICES ASSUME built' # built PROVE sent'
  BY <1>1 DEF BuiltFromAnswers
<1> USE DEF feeVars
<1>3. CASE UNCHANGED vars \/ Start \/ MonitorStarted \/ Close \/ services
  BY <1>2, <1>3 DEF vars, Start, MonitorStarted, Close, services, TxmClose,
                    TxmCloseReturns, MonitorCloses, CloseReturns
<1>4. CASE broadcastLoop \/ Retries
  BY <1>2, <1>4 DEF broadcastLoop, BroadcastReceives, ReceiveTx, BroadcastCalls,
                    RefBlockPanics, BroadcastStops, LoopStops, Retries, Retry
<1>5. ASSUME NEW c \in Callers, OtherCalls(c) \/ Validates(c) \/ Forwards(c)
      PROVE  sent'
  <2>1. CASE OtherCalls(c)
    BY <1>2, <2>1 DEF OtherCalls
  <2>2. CASE Validates(c)
    BY <1>2, <2>2 DEF Validates, AfterValidation, RpcFails, EstimateFails,
                      PreparationFails, PricesFail
  <2>3. CASE Forwards(c)
    BY <2>3 DEF Forwards, Forward
  <2> QED
    BY <1>5, <2>1, <2>2, <2>3
<1>6. CASE monitorLoop \/ MonitorLoopStops
  BY <1>2, <1>6 DEF monitorLoop, MonitorLoopStops, monitorFrame
<1>7. CASE \E i \in 1..Len(keys) : Deposit(keys[i]) /\ UNCHANGED monitorFrame
  BY <1>2, <1>7 DEF monitorFrame
<1> QED
  BY <1>3, <1>4, <1>5, <1>6, <1>7 DEF Next

\* The states of the services stay in their types.
LEMMA RelayerTypeStep == RelayerTypeOK /\ [Next]_vars => RelayerTypeOK'
<1> SUFFICES ASSUME RelayerTypeOK, [Next]_vars PROVE RelayerTypeOK'
  OBVIOUS
<1> USE DEF RelayerTypeOK, relayerVars, broadcastFrame, monitorFrame
<1>1. CASE UNCHANGED vars \/ Start \/ MonitorStarted \/ Close \/ services
  BY <1>1 DEF vars, Start, MonitorStarted, Close, services, TxmClose, TxmCloseReturns,
              MonitorCloses, CloseReturns
<1>2. CASE broadcastLoop \/ Retries
  BY <1>2 DEF broadcastLoop, BroadcastReceives, BroadcastCalls, RefBlockPanics,
              BroadcastStops, Retries
<1>3. ASSUME NEW c \in Callers, OtherCalls(c) \/ Validates(c) \/ Forwards(c)
      PROVE  RelayerTypeOK'
  BY <1>3 DEF OtherCalls, Validates, Forwards, AfterValidation, AfterAnswer
<1>4. CASE monitorLoop \/ MonitorLoopStops
  BY <1>4 DEF monitorLoop, MonitorLoopStops
<1>5. CASE \E i \in 1..Len(keys) : Deposit(keys[i]) /\ UNCHANGED monitorFrame
  BY <1>5
<1> QED
  BY <1>1, <1>2, <1>3, <1>4, <1>5 DEF Next

LEMMA RelayerInvariance == Spec => []RelayerInv
<1>1. RelayerInv /\ [Next]_vars => RelayerInv'
  BY Projection, ClientStepInv, FeeStepInv, MonitorStepInv, RelayerTypeStep,
     BuiltFromAnswersStep DEF RelayerInv
<1> QED
  BY RelayerInitInv, <1>1, PTL DEF Spec

\* The types of the variables, in particular: the price that is used fits an int32.
THEOREM RelayerTypes == Spec => []TypeOK
<1>1. RelayerInv => TypeOK
  BY DEF RelayerInv, ClientInv, FeeInv, MonitorInv, RelayerTypeOK, TypeOK
<1> QED
  BY RelayerInvariance, <1>1, PTL

\* The broadcast loop builds a transaction for the configured chain only, for all answers
\* and callers, although it replaces refused estimates and prices.
THEOREM BuiltForConfiguredChain == Spec => []BuiltOnMatchingChain
<1>1. RelayerInv => BuiltOnMatchingChain
  BY DEF RelayerInv, ClientInv, GatedByChainId, BuiltFromAnswers, BuiltOnMatchingChain
<1> QED
  BY RelayerInvariance, <1>1, PTL

\* For integers of any width, any energies and prices and any multiplier of at least
\* 3/2, the fee limit of every transaction is exact when nothing overflows.
THEOREM FeeLimitsExact == Spec => []FeeLimitExact
<1>1. RelayerInv => FeeLimitExact
  BY ComputedIsExact DEF RelayerInv
<1> QED
  BY RelayerInvariance, <1>1, PTL

\* For integers of any width and any number of attempts, a bump raises the fee limit.
THEOREM BumpsRaiseFees == Spec => []BumpRaisesFee
<1>1. RelayerInv => BumpRaisesFee
  BY ComputedRises DEF RelayerInv
<1> QED
  BY RelayerInvariance, <1>1, PTL

\* For any keystore, the monitor asks for at most one account once stop is closed.
THEOREM MonitorFallsSilent == Spec => []QuietAfterStop
<1>1. RelayerInv => QuietAfterStop
  BY DEF RelayerInv, MonitorInv, NoCallAfterStop
<1> QED
  BY RelayerInvariance, <1>1, PTL
-----------------------------------------------------------------------------
(* The plugin *)

\* For any files and any defaults, what the plugin does to get a relayer, and how often it
\* fails, is nothing to the relayer: every theorem about Spec holds of the plugin.
THEOREM PluginRelays == PluginSpec => Spec
<1>1. PluginInit => Init
  BY PluginAssumption DEF PluginInit, Init
<1>2. [PluginNext]_allVars => [Next]_vars
  <2> SUFFICES ASSUME [PluginNext]_allVars PROVE [Next]_vars
    OBVIOUS
  <2>1. CASE SetFrom
    BY <2>1 DEF SetFrom
  <2>2. ASSUME NEW i \in DOMAIN cs, NewRelayer(cs[i]) PROVE UNCHANGED vars
    BY <2>2 DEF NewRelayer
  <2>3. CASE Relay
    BY <2>3 DEF Relay
  <2>4. CASE UNCHANGED allVars
    BY <2>4 DEF allVars
  <2> QED
    BY <2>1, <2>2, <2>3, <2>4 DEF PluginNext
<1> QED
  BY <1>1, <1>2, PTL DEF PluginSpec, Spec
=============================================================================
