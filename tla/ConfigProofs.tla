---------------------------- MODULE ConfigProofs ----------------------------
(***************************************************************************)
(* Proofs for TomlConfig and PluginRelayer, for any number of files, of    *)
(* any length: the merged configuration has each key once and the last     *)
(* value of each field, and a relayer is built from a complete one.        *)
(*                                                                         *)
(* Both loops of SetFrom are recursive functions over their rounds.  That  *)
(* such a function exists, and that what every round keeps holds at its    *)
(* end, follows from the least number for which it would be otherwise.     *)
(* What a round does to a list with unique keys is shown once for nodes    *)
(* and chains (Merged): an entry of the result is an old one, a new one,   *)
(* or the two with one key merged.                                         *)
(***************************************************************************)
EXTENDS PluginRelayer, TLAPS, WellFoundedInduction
-----------------------------------------------------------------------------
(* Loops *)

\* A set of naturals that is not empty has a least element.
LEMMA LeastNatural ==
    ASSUME NEW S \in SUBSET Nat, S # {}
    PROVE  \E m \in S : \A n \in S : m <= n
<1>1. PICK m \in S : \A n \in S : ~ (<<n, m>> \in OpToRel(<, Nat))
  BY WFMin, NatLessThanWellFounded
<1>2. \A n \in S : ~ (n < m)
  BY <1>1 DEF OpToRel
<1> QED
  BY <1>2

\* A loop of N rounds that begins with e: step[<<n, s>>] is what round n makes of s, and
\* T[n], a subset of U, holds what there may be after it.
Loop(N, e, step, T, U) ==
    /\ e \in T[0]
    /\ \A n \in 0..N : T[n] \subseteq U
    /\ \A n \in 1..N : \A s \in T[n - 1] : step[<<n, s>>] \in T[n]

\* g[n] is what there is after n rounds.
Runs(g, N, e, step, T, U) ==
    /\ g \in [0..N -> U]
    /\ g[0] = e
    /\ \A n \in 1..N : g[n] = step[<<n, g[n - 1]>>]
    /\ \A n \in 0..N : g[n] \in T[n]

\* A loop has a run.
LEMMA LoopRuns ==
    ASSUME NEW N \in Nat, NEW e, NEW step, NEW T, NEW U, Loop(N, e, step, T, U)
    PROVE  \E g : Runs(g, N, e, step, T, U)
<1> USE DEF Loop
<1> DEFINE Good(g, m) == /\ g[0] = e
                         /\ \A n \in 1..m : g[n] = step[<<n, g[n - 1]>>]
                         /\ \A n \in 0..m : g[n] \in T[n]
           Bad == {m \in 0..N : ~ \E g \in [0..m -> U] : Good(g, m)}
<1>1. SUFFICES ASSUME Bad # {} PROVE FALSE
  <2>1. PICK g \in [0..N -> U] : Good(g, N)
    BY <1>1
  <2> QED
    BY <2>1 DEF Runs
<1>2. PICK m \in Bad : \A n \in Bad : m <= n
  <2>1. Bad \in SUBSET Nat
    OBVIOUS
  <2> HIDE DEF Bad
  <2> QED
    BY <1>1, <2>1, LeastNatural
<1>3. CASE m = 0
  <2> DEFINE g == [n \in 0..0 |-> e]
  <2>1. 0 \in 0..N /\ T[0] \subseteq U
    OBVIOUS
  <2>2. g \in [0..0 -> U] /\ g[0] = e
    BY <2>1
  <2> HIDE DEF g
  <2>3. Good(g, 0)
    BY <2>2
  <2>4. 0 \in Bad
    BY <1>2, <1>3
  <2> HIDE DEF Good
  <2> QED
    BY <2>2, <2>3, <2>4
<1>4. CASE m # 0
  <2>1. m \in 1..N /\ m - 1 \in 0..N /\ m - 1 \notin Bad
    <3>1. m \in 0..N
      BY <1>2
    <3> HIDE DEF Bad
    <3> QED
      BY <1>2, <1>4, <3>1
  <2>2. PICK g \in [0..(m - 1) -> U] : Good(g, m - 1)
    BY <2>1
  <2> DEFINE h == [n \in 0..m |-> IF n = m THEN step[<<m, g[m - 1]>>] ELSE g[n]]
  <2>3. g[m - 1] \in T[m - 1]
    BY <2>1, <2>2
  <2>4. step[<<m, g[m - 1]>>] \in T[m]
    BY <2>1, <2>3
  <2>5. h \in [0..m -> U]
    BY <2>1, <2>4
  <2>6. /\ h[m] = step[<<m, g[m - 1]>>]
        /\ \A n \in 0..(m - 1) : h[n] = g[n]
    BY <2>1
  <2> HIDE DEF h
  <2>7. Good(h, m)
    <3>1. h[0] = e
      BY <2>1, <2>2, <2>6
    <3>2. ASSUME NEW n \in 1..m PROVE h[n] = step[<<n, h[n - 1]>>]
      <4>1. CASE n = m
        BY <2>1, <2>6, <4>1
      <4>2. CASE n # m
        <5>1. n \in 1..(m - 1) /\ n \in 0..(m - 1) /\ n - 1 \in 0..(m - 1)
          BY <2>1, <4>2
        <5> QED
          BY <2>2, <2>6, <5>1
      <4> QED
        BY <4>1, <4>2
    <3>3. ASSUME NEW n \in 0..m PROVE h[n] \in T[n]
      <4>1. CASE n = m
        BY <2>4, <2>6, <4>1
      <4>2. CASE n # m
        <5>1. n \in 0..(m - 1)
          BY <2>1, <4>2
        <5> QED
          BY <2>2, <2>6, <5>1
      <4> QED
        BY <4>1, <4>2
    <3> QED
      BY <3>1, <3>2, <3>3
  <2> QED
    BY <1>2, <2>5, <2>7
<1> QED
  BY <1>3, <1>4

\* What there is before the loop, and after every round, is in T.
KeptIn(g, N, T) == g[0] \in T[0] /\ \A n \in 1..N : g[n - 1] \in T[n - 1] => g[n] \in T[n]

\* What holds before the loop and is kept by every round holds after it.
LEMMA KeptAfter ==
    ASSUME NEW N \in Nat, NEW g, NEW T, KeptIn(g, N, T)
    PROVE  g[N] \in T[N]
<1> DEFINE Bad == {n \in 0..N : g[n] \notin T[n]}
<1> SUFFICES ASSUME Bad # {} PROVE FALSE
  OBVIOUS
<1>1. PICK m \in Bad : \A n \in Bad : m <= n
  <2>1. Bad \in SUBSET Nat
    OBVIOUS
  <2> HIDE DEF Bad
  <2> QED
    BY <2>1, LeastNatural
<1>2. m \in 1..N /\ m - 1 \in 0..N
  BY <1>1 DEF KeptIn
<1>3. m - 1 \notin Bad
  BY <1>1, <1>2
<1> QED
  BY <1>1, <1>2, <1>3 DEF KeptIn

\* Induction over the loop of SetFrom of NodeConfigs.
LEMMA NodesInduction ==
    ASSUME NEW ns, NEW fs, Len(fs) \in Nat, NEW T, ns \in T[0],
           \A n \in 1..Len(fs) : \A s \in T[n - 1] : SetNode(s, fs[n]) \in T[n]
    PROVE  SetFromNodes(ns, fs) \in T[Len(fs)]
<1> DEFINE N == Len(fs)
           U == UNION {T[n] : n \in 0..N}
           step == [p \in (1..N) \X U |-> SetNode(p[2], fs[p[1]])]
           Is(m) == m = [n \in 0..N |-> IF n = 0 THEN ns ELSE SetNode(m[n - 1], fs[n])]
           merged == CHOOSE m : Is(m)
<1>1. SetFromNodes(ns, fs) = merged[N]
  BY DEF SetFromNodes
<1>2. \A n \in 0..N : T[n] \subseteq U
  OBVIOUS
<1>3. \A n \in 1..N : \A s \in T[n - 1] : step[<<n, s>>] = SetNode(s, fs[n])
  OBVIOUS
<1>4. Loop(N, ns, step, T, U)
  BY <1>2, <1>3 DEF Loop
<1>5. N \in Nat
  OBVIOUS
<1> HIDE DEF step, U, N
<1>6. PICK g : Runs(g, N, ns, step, T, U)
  BY <1>4, <1>5, LoopRuns
<1>7. /\ g \in [0..N -> U]
      /\ g[0] = ns
      /\ \A n \in 1..N : g[n] = step[<<n, g[n - 1]>>]
      /\ \A n \in 0..N : g[n] \in T[n]
  BY <1>6 DEF Runs
<1>8. ASSUME NEW n \in 1..N PROVE g[n] = SetNode(g[n - 1], fs[n])
  <2>1. n - 1 \in 0..N
    BY <1>5
  <2> QED
    BY <1>3, <1>7, <2>1
<1>9. Is(g)
  BY <1>5, <1>7, <1>8
<1>10. Is(merged)
  <2> HIDE DEF Is
  <2> QED
    BY <1>9
<1>11. merged[0] = ns /\ \A n \in 1..N : merged[n] = SetNode(merged[n - 1], fs[n])
  <2> HIDE DEF merged
  <2> QED
    BY <1>5, <1>10
<1> HIDE DEF merged, Is
<1>12. KeptIn(merged, N, T)
  BY <1>11 DEF KeptIn, N
<1> QED
  BY <1>1, <1>5, <1>12, KeptAfter DEF N

\* Induction over the loop of SetFrom of TOMLConfigs.
LEMMA ChainsInduction ==
    ASSUME NEW list, NEW fs, Len(fs) \in Nat, NEW T, list \in T[0],
           \A n \in 1..Len(fs) : \A s \in T[n - 1] : SetChain(s, fs[n]) \in T[n]
    PROVE  SetFromChains(list, fs) \in T[Len(fs)]
<1> DEFINE N == Len(fs)
           U == UNION {T[n] : n \in 0..N}
           step == [p \in (1..N) \X U |-> SetChain(p[2], fs[p[1]])]
           Is(m) == m = [n \in 0..N |-> IF n = 0 THEN list ELSE SetChain(m[n - 1], fs[n])]
           merged == CHOOSE m : Is(m)
<1>1. SetFromChains(list, fs) = merged[N]
  BY DEF SetFromChains
<1>2. \A n \in 0..N : T[n] \subseteq U
  OBVIOUS
<1>3. \A n \in 1..N : \A s \in T[n - 1] : step[<<n, s>>] = SetChain(s, fs[n])
  OBVIOUS
<1>4. Loop(N, list, step, T, U)
  BY <1>2, <1>3 DEF Loop
<1>5. N \in Nat
  OBVIOUS
<1> HIDE DEF step, U, N
<1>6. PICK g : Runs(g, N, list, step, T, U)
  BY <1>4, <1>5, LoopRuns
<1>7. /\ g \in [0..N -> U]
      /\ g[0] = list
      /\ \A n \in 1..N : g[n] = step[<<n, g[n - 1]>>]
      /\ \A n \in 0..N : g[n] \in T[n]
  BY <1>6 DEF Runs
<1>8. ASSUME NEW n \in 1..N PROVE g[n] = SetChain(g[n - 1], fs[n])
  <2>1. n - 1 \in 0..N
    BY <1>5
  <2> QED
    BY <1>3, <1>7, <2>1
<1>9. Is(g)
  BY <1>5, <1>7, <1>8
<1>10. Is(merged)
  <2> HIDE DEF Is
  <2> QED
    BY <1>9
<1>11. merged[0] = list /\ \A n \in 1..N : merged[n] = SetChain(merged[n - 1], fs[n])
  <2> HIDE DEF merged
  <2> QED
    BY <1>5, <1>10
<1> HIDE DEF merged, Is
<1>12. KeptIn(merged, N, T)
  BY <1>11 DEF KeptIn, N
<1> QED
  BY <1>1, <1>5, <1>12, KeptAfter DEF N

-----------------------------------------------------------------------------
(* Lists with keys *)

HasKey(list, key, k) == \E i \in DOMAIN list : list[i][key] = k

\* merge[<<c, f>>] is what becomes of the entry c when f has the same key.
Merger(merge, E, key) ==
    \A c, f \in E :
        /\ merge[<<c, f>>] \in E
        /\ f[key] # Unset => merge[<<c, f>>][key] = f[key]

\* One round: f is appended, or merged with the entry that has its key.
Round(out, list, f, key, merge) ==
    \/ out = Append(list, f) /\ (f[key] # Unset => ~ HasKey(list, key, f[key]))
    \/ \E i \in DOMAIN list :
          /\ f[key] # Unset /\ list[i][key] = f[key]
          /\ out = [list EXCEPT ![i] = merge[<<list[i], f>>]]

\* What an entry of the result is.
Origin(e, list, fs, n, key, merge) ==
    \/ /\ \E i \in DOMAIN list : e = list[i]
       /\ e[key] # Unset => \A a \in 1..n : fs[a][key] # e[key]
    \/ /\ \E a \in 1..n : e = fs[a]
       /\ e[key] # Unset => ~ HasKey(list, key, e[key])
    \/ \E i \in DOMAIN list, a \in 1..n :
          /\ list[i][key] = e[key] /\ fs[a][key] = e[key] /\ e[key] # Unset
          /\ e = merge[<<list[i], fs[a]>>]

\* An entry is found again by its key, one without a key as it is.
Found(e, out, key) == IF e[key] = Unset THEN \E j \in DOMAIN out : out[j] = e
                                        ELSE HasKey(out, key, e[key])

\* out is what n rounds with the entries of fs make of the list.
Merged(out, list, fs, n, E, key, merge) ==
    /\ out \in Seq(E)
    /\ Unique(out, key)
    /\ \A j \in DOMAIN out : Origin(out[j], list, fs, n, key, merge)
    /\ \A i \in DOMAIN list : Found(list[i], out, key)
    /\ \A a \in 1..n : Found(fs[a], out, key)

\* IndexFunc finds an entry with the key if there is one.
LEMMA IndexFound ==
    ASSUME NEW list, Len(list) \in Nat, DOMAIN list = 1..Len(list), NEW f, NEW key
    PROVE  \/ /\ IndexFunc(list, f, key) = 0
              /\ f[key] # Unset => ~ HasKey(list, key, f[key])
           \/ /\ IndexFunc(list, f, key) \in DOMAIN list
              /\ f[key] # Unset /\ list[IndexFunc(list, f, key)][key] = f[key]
<1> DEFINE same == {i \in DOMAIN list : list[i][key] # Unset /\ list[i][key] = f[key]}
<1>1. CASE same = {}
  BY <1>1 DEF IndexFunc, HasKey
<1>2. CASE same # {}
  <2>1. same \in SUBSET Nat
    OBVIOUS
  <2>2. IndexFunc(list, f, key) = CHOOSE i \in same : \A j \in same : i <= j
    BY <1>2 DEF IndexFunc
  <2>3. \E i \in same : \A j \in same : i <= j
    <3> HIDE DEF same
    <3> QED
      BY <1>2, <2>1, LeastNatural
  <2>4. IndexFunc(list, f, key) \in same
    <3> HIDE DEF same
    <3> QED
      BY <2>2, <2>3
  <2> QED
    BY <2>4
<1> QED
  BY <1>1, <1>2

\* Before the first round.
LEMMA NothingMerged ==
    ASSUME NEW E, NEW list \in Seq(E), NEW key, Unique(list, key), NEW fs, NEW merge
    PROVE  Merged(list, list, fs, 0, E, key, merge)
<1>1. ASSUME NEW j \in DOMAIN list PROVE Origin(list[j], list, fs, 0, key, merge)
  BY DEF Origin
<1>2. ASSUME NEW i \in DOMAIN list PROVE Found(list[i], list, key)
  BY DEF Found, HasKey
<1> QED
  BY <1>1, <1>2 DEF Merged

\* One more round, with an entry that has none of the earlier keys.
LEMMA RoundMerged ==
    ASSUME NEW E, NEW key, NEW merge, Merger(merge, E, key),
           NEW list \in Seq(E), NEW fs \in Seq(E), Unique(fs, key),
           NEW n \in 1..Len(fs), NEW s, Merged(s, list, fs, n - 1, E, key, merge),
           NEW out, Round(out, s, fs[n], key, merge)
    PROVE  Merged(out, list, fs, n, E, key, merge)
<1> DEFINE f == fs[n]
<1>1. f \in E /\ s \in Seq(E) /\ Unique(s, key) /\ n \in Nat \ {0}
  BY DEF Merged
<1>2. ASSUME NEW a \in 1..n PROVE a \in 1..(n - 1) \/ a = n
  BY <1>1
<1>3. ASSUME NEW a \in 1..(n - 1), f[key] # Unset PROVE fs[a][key] # f[key]
  BY <1>1, <1>3 DEF Unique
<1>4. ASSUME NEW e, Origin(e, list, fs, n - 1, key, merge), f[key] # Unset => e[key] # f[key]
      PROVE  Origin(e, list, fs, n, key, merge)
  <2>1. \A a \in 1..(n - 1) : a \in 1..n
    BY <1>1
  <2>2. e[key] # Unset => e[key] # f[key]
    BY <1>4
  <2> QED
    BY <1>2, <1>4, <2>1, <2>2 DEF Origin
<1>5. CASE out = Append(s, f) /\ (f[key] # Unset => ~ HasKey(s, key, f[key]))
  <2>1. /\ DOMAIN out = 1..(Len(s) + 1) /\ DOMAIN s = 1..Len(s) /\ Len(s) \in Nat
        /\ out[Len(s) + 1] = f
        /\ \A j \in DOMAIN s : out[j] = s[j]
    BY <1>1, <1>5
  <2>2. out \in Seq(E)
    BY <1>1, <1>5
  <2>3. ASSUME NEW j \in DOMAIN out PROVE j \in DOMAIN s \/ j = Len(s) + 1
    BY <2>1
  <2>4. \A j \in DOMAIN s : f[key] # Unset => s[j][key] # f[key]
    BY <1>5 DEF HasKey
  <2>5. Unique(out, key)
    BY <1>1, <2>1, <2>3, <2>4 DEF Unique
  <2>6. ASSUME NEW j \in DOMAIN s PROVE Origin(s[j], list, fs, n, key, merge)
    <3>1. Origin(s[j], list, fs, n - 1, key, merge)
      BY DEF Merged
    <3> QED
      BY <1>4, <2>4, <3>1
  <2>7. Origin(f, list, fs, n, key, merge)
    <3>1. ASSUME f[key] # Unset PROVE ~ HasKey(list, key, f[key])
      <4>1. SUFFICES ASSUME NEW i \in DOMAIN list, list[i][key] = f[key] PROVE FALSE
        BY DEF HasKey
      <4>2. Found(list[i], s, key)
        BY DEF Merged
      <4>3. HasKey(s, key, f[key])
        BY <3>1, <4>1, <4>2 DEF Found
      <4> QED
        BY <1>5, <3>1, <4>3
    <3>2. n \in 1..n
      BY <1>1
    <3> QED
      BY <3>1, <3>2 DEF Origin
  <2>8. ASSUME NEW e, Found(e, s, key) PROVE Found(e, out, key)
    BY <2>1, <2>8 DEF Found, HasKey
  <2>9. Found(f, out, key)
    BY <2>1 DEF Found, HasKey
  <2>10. \A j \in DOMAIN out : Origin(out[j], list, fs, n, key, merge)
    BY <2>1, <2>3, <2>6, <2>7
  <2>11. \A i \in DOMAIN list : Found(list[i], out, key)
    BY <2>8 DEF Merged
  <2>12. \A a \in 1..n : Found(fs[a], out, key)
    BY <1>2, <2>8, <2>9 DEF Merged
  <2> QED
    BY <2>2, <2>5, <2>10, <2>11, <2>12 DEF Merged
<1>6. ASSUME NEW i \in DOMAIN s, f[key] # Unset, s[i][key] = f[key],
             out = [s EXCEPT ![i] = merge[<<s[i], f>>]]
      PROVE  Merged(out, list, fs, n, E, key, merge)
  <2> DEFINE m == merge[<<s[i], f>>]
  <2>1. s[i] \in E
    BY <1>1
  <2>2. m \in E /\ m[key] = f[key]
    BY <1>1, <1>6, <2>1 DEF Merger
  <2>3. /\ DOMAIN out = DOMAIN s
        /\ out[i] = m
        /\ \A j \in DOMAIN s : j # i => out[j] = s[j]
    BY <1>1, <1>6
  <2>4. out \in Seq(E)
    BY <1>1, <1>6, <2>2
  <2>5. \A j \in DOMAIN s : out[j][key] = s[j][key]
    BY <1>6, <2>2, <2>3
  <2>6. Unique(out, key)
    BY <1>1, <2>3, <2>5 DEF Unique
  <2>7. \A j \in DOMAIN s : j # i => s[j][key] # f[key]
    BY <1>1, <1>6 DEF Unique
  <2>8. Origin(m, list, fs, n, key, merge)
    <3>1. Origin(s[i], list, fs, n - 1, key, merge)
      BY DEF Merged
    <3>2. PICK l \in DOMAIN list : s[i] = list[l]
      BY <1>3, <1>6, <3>1 DEF Origin
    <3>3. n \in 1..n
      BY <1>1
    <3>4. list[l][key] = m[key] /\ f[key] = m[key] /\ m[key] # Unset /\ m = merge[<<list[l], f>>]
      BY <1>6, <2>2, <3>2
    <3> HIDE DEF m
    <3> QED
      BY <3>3, <3>4 DEF Origin
  <2>9. ASSUME NEW e, Found(e, s, key) PROVE Found(e, out, key)
    <3>1. CASE e[key] = Unset
      <4>1. PICK j \in DOMAIN s : s[j] = e
        BY <2>9, <3>1 DEF Found
      <4>2. j # i
        BY <1>6, <3>1, <4>1
      <4> QED
        BY <2>3, <3>1, <4>1, <4>2 DEF Found
    <3>2. CASE e[key] # Unset
      BY <2>3, <2>5, <2>9, <3>2 DEF Found, HasKey
    <3> QED
      BY <3>1, <3>2
  <2>10. Found(f, out, key)
    BY <1>6, <2>2, <2>3 DEF Found, HasKey
  <2>11. ASSUME NEW j \in DOMAIN out PROVE Origin(out[j], list, fs, n, key, merge)
    <3>1. CASE j = i
      BY <2>3, <2>8, <3>1
    <3>2. CASE j # i
      <4>1. out[j] = s[j] /\ s[j][key] # f[key] /\ j \in DOMAIN s
        BY <2>3, <2>7, <3>2
      <4>2. Origin(s[j], list, fs, n - 1, key, merge)
        BY <4>1 DEF Merged
      <4> QED
        BY <1>4, <4>1, <4>2
    <3> QED
      BY <3>1, <3>2
  <2>12. \A l \in DOMAIN list : Found(list[l], out, key)
    BY <2>9 DEF Merged
  <2>13. \A a \in 1..n : Found(fs[a], out, key)
    BY <1>2, <2>9, <2>10 DEF Merged
  <2> QED
    BY <2>4, <2>6, <2>11, <2>12, <2>13 DEF Merged
<1> QED
  BY <1>5, <1>6 DEF Round

NodeMerge == [p \in NodeConfig \X NodeConfig |-> Overlay(p[1], p[2])]

KeyedChains == {c \in TOMLConfig : Unique(c.Nodes, "Name")}
ChainMerge == [p \in KeyedChains \X KeyedChains |-> SetFromChain(p[1], p[2])]

\* A round of the loop over the nodes.
LEMMA NodeRound ==
    ASSUME NEW ns \in Seq(NodeConfig), NEW f \in NodeConfig
    PROVE  Round(SetNode(ns, f), ns, f, "Name", NodeMerge)
<1> DEFINE i == IndexFunc(ns, f, "Name")
<1>1. Len(ns) \in Nat /\ DOMAIN ns = 1..Len(ns)
  OBVIOUS
<1>2. SetNode(ns, f) = SetEntry(ns, f, i, Overlay(ns[i], f))
  BY DEF SetNode
<1>3. \/ i = 0 /\ (f["Name"] # Unset => ~ HasKey(ns, "Name", f["Name"]))
      \/ i \in DOMAIN ns /\ f["Name"] # Unset /\ ns[i]["Name"] = f["Name"]
  BY <1>1, IndexFound
<1> HIDE DEF i
<1>4. CASE i = 0
  <2>1. SetNode(ns, f) = Append(ns, f)
    BY <1>2, <1>4 DEF SetEntry
  <2>2. f["Name"] # Unset => ~ HasKey(ns, "Name", f["Name"])
    BY <1>1, <1>3, <1>4
  <2> QED
    BY <2>1, <2>2 DEF Round
<1>5. CASE i # 0
  <2>1. i \in DOMAIN ns /\ f["Name"] # Unset /\ ns[i]["Name"] = f["Name"]
    BY <1>3, <1>5
  <2>2. NodeMerge[<<ns[i], f>>] = Overlay(ns[i], f)
    BY <2>1 DEF NodeMerge
  <2> QED
    BY <1>2, <1>5, <2>1, <2>2 DEF Round, SetEntry
<1> QED
  BY <1>4, <1>5

\* A round of the loop over the chains.
LEMMA ChainRound ==
    ASSUME NEW list \in Seq(KeyedChains), NEW f \in KeyedChains
    PROVE  Round(SetChain(list, f), list, f, "ChainID", ChainMerge)
<1> DEFINE i == IndexFunc(list, f, "ChainID")
<1>1. Len(list) \in Nat /\ DOMAIN list = 1..Len(list)
  OBVIOUS
<1>2. SetChain(list, f) = SetEntry(list, f, i, SetFromChain(list[i], f))
  BY DEF SetChain
<1>3. \/ i = 0 /\ (f["ChainID"] # Unset => ~ HasKey(list, "ChainID", f["ChainID"]))
      \/ i \in DOMAIN list /\ f["ChainID"] # Unset /\ list[i]["ChainID"] = f["ChainID"]
  BY <1>1, IndexFound
<1> HIDE DEF i
<1>4. CASE i = 0
  <2>1. SetChain(list, f) = Append(list, f)
    BY <1>2, <1>4 DEF SetEntry
  <2>2. f["ChainID"] # Unset => ~ HasKey(list, "ChainID", f["ChainID"])
    BY <1>1, <1>3, <1>4
  <2> QED
    BY <2>1, <2>2 DEF Round
<1>5. CASE i # 0
  <2>1. i \in DOMAIN list /\ f["ChainID"] # Unset /\ list[i]["ChainID"] = f["ChainID"]
    BY <1>3, <1>5
  <2>2. ChainMerge[<<list[i], f>>] = SetFromChain(list[i], f)
    BY <2>1 DEF ChainMerge
  <2> QED
    BY <1>2, <1>5, <2>1, <2>2 DEF Round, SetEntry
<1> QED
  BY <1>4, <1>5

\* Merging two records of settings gives one.
LEMMA OverlayType ==
    ASSUME NEW X, NEW S, NEW c \in [X -> Optional(S)], NEW f \in [X -> Optional(S)]
    PROVE  Overlay(c, f) \in [X -> Optional(S)]
  BY DEF Overlay

\* setFromNode makes a node of the same name.
LEMMA NodeMerger == Merger(NodeMerge, NodeConfig, "Name")
<1> SUFFICES ASSUME NEW c \in NodeConfig, NEW f \in NodeConfig
             PROVE  /\ NodeMerge[<<c, f>>] \in NodeConfig
                    /\ f["Name"] # Unset => NodeMerge[<<c, f>>]["Name"] = f["Name"]
  BY DEF Merger
<1>1. NodeMerge[<<c, f>>] = Overlay(c, f)
  BY DEF NodeMerge
<1>2. DOMAIN c = {"Name", "URL", "SolidityURL"}
  BY DEF NodeConfig
<1>3. Overlay(c, f) = [Name        |-> IF f["Name"] # Unset THEN f["Name"] ELSE c["Name"],
                       URL         |-> IF f["URL"] # Unset THEN f["URL"] ELSE c["URL"],
                       SolidityURL |-> IF f["SolidityURL"] # Unset THEN f["SolidityURL"]
                                                                   ELSE c["SolidityURL"]]
  BY <1>2 DEF Overlay
<1> QED
  BY <1>1, <1>3 DEF NodeConfig, Optional

\* What SetFrom of NodeConfigs makes of nodes with unique names.
LEMMA NodesMerged ==
    ASSUME NEW ns \in Seq(NodeConfig), Unique(ns, "Name"),
           NEW fs \in Seq(NodeConfig), Unique(fs, "Name")
    PROVE  Merged(SetFromNodes(ns, fs), ns, fs, Len(fs), NodeConfig, "Name", NodeMerge)
<1> DEFINE After(s, n) == Merged(s, ns, fs, n, NodeConfig, "Name", NodeMerge)
           T == [n \in 0..Len(fs) |-> {s \in Seq(NodeConfig) : After(s, n)}]
<1>1. Len(fs) \in Nat
  OBVIOUS
<1>2. ns \in T[0]
  <2>1. After(ns, 0)
    BY NothingMerged
  <2> HIDE DEF After
  <2> QED
    BY <1>1, <2>1
<1>3. ASSUME NEW n \in 1..Len(fs), NEW s \in T[n - 1] PROVE SetNode(s, fs[n]) \in T[n]
  <2>1. s \in Seq(NodeConfig) /\ After(s, n - 1)
    <3> HIDE DEF After
    <3> QED
      BY <1>1, <1>3
  <2>2. Round(SetNode(s, fs[n]), s, fs[n], "Name", NodeMerge)
    BY <2>1, NodeRound
  <2>3. After(SetNode(s, fs[n]), n)
    BY <2>1, <2>2, NodeMerger, RoundMerged
  <2>4. SetNode(s, fs[n]) \in Seq(NodeConfig)
    BY <2>3 DEF Merged
  <2> HIDE DEF After
  <2> QED
    BY <1>1, <2>3, <2>4
<1>4. SetFromNodes(ns, fs) \in T[Len(fs)]
  <2> HIDE DEF T
  <2> QED
    BY <1>1, <1>2, <1>3, NodesInduction
<1> HIDE DEF After
<1>5. After(SetFromNodes(ns, fs), Len(fs))
  BY <1>1, <1>4
<1> QED
  BY <1>5 DEF After

\* SetFrom of TOMLConfig makes a chain of the same id, whose nodes keep unique names.
LEMMA ChainMerger == Merger(ChainMerge, KeyedChains, "ChainID")
<1> SUFFICES ASSUME NEW c \in KeyedChains, NEW f \in KeyedChains
             PROVE  /\ ChainMerge[<<c, f>>] \in KeyedChains
                    /\ f["ChainID"] # Unset => ChainMerge[<<c, f>>]["ChainID"] = f["ChainID"]
  BY DEF Merger
<1>1. ChainMerge[<<c, f>>] = SetFromChain(c, f)
  BY DEF ChainMerge
<1>2. Merged(SetFromNodes(c.Nodes, f.Nodes), c.Nodes, f.Nodes, Len(f.Nodes), NodeConfig, "Name",
             NodeMerge)
  BY NodesMerged DEF KeyedChains, TOMLConfig
<1>3. SetFromNodes(c.Nodes, f.Nodes) \in Seq(NodeConfig)
  BY <1>2 DEF Merged
<1>4. Unique(SetFromNodes(c.Nodes, f.Nodes), "Name")
  BY <1>2 DEF Merged
<1>5. Overlay(c.chain, f.chain) \in [ChainFields -> Optional(Settings)]
  BY OverlayType DEF KeyedChains, TOMLConfig
<1>6. /\ c.ChainID \in Optional(ChainIDs) /\ f.ChainID \in Optional(ChainIDs)
      /\ c.Enabled \in Optional(BOOLEAN) /\ f.Enabled \in Optional(BOOLEAN)
  BY DEF KeyedChains, TOMLConfig
<1>7. SetFromChain(c, f) \in TOMLConfig
  BY <1>3, <1>5, <1>6 DEF SetFromChain, TOMLConfig
<1>8. SetFromChain(c, f).Nodes = SetFromNodes(c.Nodes, f.Nodes)
  BY DEF SetFromChain
<1>9. f["ChainID"] # Unset => SetFromChain(c, f)["ChainID"] = f["ChainID"]
  BY DEF SetFromChain
<1> QED
  BY <1>1, <1>4, <1>7, <1>8, <1>9 DEF KeyedChains

\* What SetFrom of TOMLConfigs makes of chains with unique ids.
LEMMA ChainsMerged ==
    ASSUME NEW list \in Seq(KeyedChains), Unique(list, "ChainID"),
           NEW fs \in Seq(KeyedChains), Unique(fs, "ChainID")
    PROVE  Merged(SetFromChains(list, fs), list, fs, Len(fs), KeyedChains, "ChainID", ChainMerge)
<1> DEFINE After(s, n) == Merged(s, list, fs, n, KeyedChains, "ChainID", ChainMerge)
           T == [n \in 0..Len(fs) |-> {s \in Seq(KeyedChains) : After(s, n)}]
<1>1. Len(fs) \in Nat
  OBVIOUS
<1>2. list \in T[0]
  <2>1. After(list, 0)
    BY NothingMerged
  <2> HIDE DEF After
  <2> QED
    BY <1>1, <2>1
<1>3. ASSUME NEW n \in 1..Len(fs), NEW s \in T[n - 1] PROVE SetChain(s, fs[n]) \in T[n]
  <2>1. s \in Seq(KeyedChains) /\ After(s, n - 1)
    <3> HIDE DEF After
    <3> QED
      BY <1>1, <1>3
  <2>2. Round(SetChain(s, fs[n]), s, fs[n], "ChainID", ChainMerge)
    BY <2>1, ChainRound
  <2>3. After(SetChain(s, fs[n]), n)
    BY <2>1, <2>2, ChainMerger, RoundMerged
  <2>4. SetChain(s, fs[n]) \in Seq(KeyedChains)
    BY <2>3 DEF Merged
  <2> HIDE DEF After
  <2> QED
    BY <1>1, <2>3, <2>4
<1>4. SetFromChains(list, fs) \in T[Len(fs)]
  <2> HIDE DEF T
  <2> QED
    BY <1>1, <1>2, <1>3, ChainsInduction
<1> HIDE DEF After
<1>5. After(SetFromChains(list, fs), Len(fs))
  BY <1>1, <1>4
<1> QED
  BY <1>5 DEF After
-----------------------------------------------------------------------------
(* What was given last *)

\* h continues g, which has n elements, by one.
Extends(h, g, n) ==
    DOMAIN g = 1..n /\ DOMAIN h = 1..(n + 1) /\ \A a \in 1..n : h[a] = g[a]

\* A file that does not set the field changes nothing.
LEMMA NotGiven ==
    ASSUME NEW n \in Nat, NEW g, NEW h, Extends(h, g, n), NEW v, LastGiven(v, g),
           h[n + 1] \subseteq {Unset}
    PROVE  LastGiven(v, h)
<1>1. \A a \in DOMAIN h : a \in 1..n \/ a = n + 1
  BY DEF Extends
<1>2. \A a \in 1..n : a \in DOMAIN g /\ a \in DOMAIN h /\ h[a] = g[a]
  BY DEF Extends
<1>3. \A a \in DOMAIN g : a \in 1..n
  BY DEF Extends
<1> QED
  BY <1>1, <1>2, <1>3 DEF LastGiven

\* A file that says w of the field: w replaces what was given before, unless it is Unset.
LEMMA GivenOnce ==
    ASSUME NEW n \in Nat, NEW g, NEW h, Extends(h, g, n), NEW v, LastGiven(v, g),
           NEW w, h[n + 1] = {w}
    PROVE  LastGiven(IF w # Unset THEN w ELSE v, h)
<1>1. CASE w = Unset
  BY <1>1, NotGiven
<1>2. CASE w # Unset
  <2>1. n + 1 \in DOMAIN h
    BY DEF Extends
  <2>2. \A b \in DOMAIN h : ~ (b > n + 1)
    BY DEF Extends
  <2> QED
    BY <1>2, <2>1, <2>2 DEF LastGiven
<1> QED
  BY <1>1, <1>2

\* The first file that says anything.
LEMMA GivenFirst ==
    ASSUME NEW n \in Nat, NEW g, NEW h, Extends(h, g, n), NEW w, h[n + 1] = {w},
           \A a \in 1..n : g[a] = {}
    PROVE  LastGiven(w, h)
<1>1. LastGiven(Unset, g)
  BY DEF LastGiven, Extends
<1>2. LastGiven(IF w # Unset THEN w ELSE Unset, h)
  BY <1>1, GivenOnce
<1> QED
  BY <1>2

\* What was said of one field, and of one setting of a chain.
Fields(said, x) == [a \in DOMAIN said |-> {f[x] : f \in said[a]}]
ChainSettings(said, x) == [a \in DOMAIN said |-> {f.chain[x] : f \in said[a]}]

\* The lemmas about what was given, for a field of a chain or of a node.
LEMMA FieldGiven ==
    ASSUME NEW n \in Nat, NEW g, NEW h, Extends(h, g, n), NEW x
    PROVE  /\ \A v : LastGiven(v, Fields(g, x)) /\ h[n + 1] = {} => LastGiven(v, Fields(h, x))
           /\ \A v, e : LastGiven(v, Fields(g, x)) /\ h[n + 1] = {e} =>
                 LastGiven(IF e[x] # Unset THEN e[x] ELSE v, Fields(h, x))
           /\ \A e : (\A a \in 1..n : g[a] = {}) /\ h[n + 1] = {e} => LastGiven(e[x], Fields(h, x))
<1>1. Extends(Fields(h, x), Fields(g, x), n)
  BY DEF Extends, Fields
<1>2. n + 1 \in DOMAIN h
  BY DEF Extends
<1>3. h[n + 1] = {} => Fields(h, x)[n + 1] = {}
  BY <1>2 DEF Fields
<1>4. ASSUME NEW e, h[n + 1] = {e} PROVE Fields(h, x)[n + 1] = {e[x]}
  BY <1>2, <1>4 DEF Fields
<1>5. (\A a \in 1..n : g[a] = {}) => \A a \in 1..n : Fields(g, x)[a] = {}
  BY DEF Extends, Fields
<1>6. ASSUME NEW v, LastGiven(v, Fields(g, x)), h[n + 1] = {} PROVE LastGiven(v, Fields(h, x))
  BY <1>1, <1>3, <1>6, NotGiven
<1>7. ASSUME NEW v, NEW e, LastGiven(v, Fields(g, x)), h[n + 1] = {e}
      PROVE  LastGiven(IF e[x] # Unset THEN e[x] ELSE v, Fields(h, x))
  <2>1. Fields(h, x)[n + 1] = {e[x]}
    BY <1>4, <1>7
  <2> QED
    BY <1>1, <1>7, <2>1, GivenOnce
<1>8. ASSUME NEW e, \A a \in 1..n : g[a] = {}, h[n + 1] = {e} PROVE LastGiven(e[x], Fields(h, x))
  <2>1. Fields(h, x)[n + 1] = {e[x]}
    BY <1>4, <1>8
  <2>2. \A a \in 1..n : Fields(g, x)[a] = {}
    BY <1>5, <1>8
  <2> QED
    BY <1>1, <2>1, <2>2, GivenFirst
<1> QED
  BY <1>6, <1>7, <1>8

\* The lemmas about what was given, for a setting of a chain.
LEMMA SettingGiven ==
    ASSUME NEW n \in Nat, NEW g, NEW h, Extends(h, g, n), NEW x
    PROVE  /\ \A v : LastGiven(v, ChainSettings(g, x)) /\ h[n + 1] = {} => LastGiven(v, ChainSettings(h, x))
           /\ \A v, e : LastGiven(v, ChainSettings(g, x)) /\ h[n + 1] = {e} =>
                 LastGiven(IF e.chain[x] # Unset THEN e.chain[x] ELSE v, ChainSettings(h, x))
           /\ \A e : (\A a \in 1..n : g[a] = {}) /\ h[n + 1] = {e} => LastGiven(e.chain[x], ChainSettings(h, x))
<1>1. Extends(ChainSettings(h, x), ChainSettings(g, x), n)
  BY DEF Extends, ChainSettings
<1>2. n + 1 \in DOMAIN h
  BY DEF Extends
<1>3. h[n + 1] = {} => ChainSettings(h, x)[n + 1] = {}
  BY <1>2 DEF ChainSettings
<1>4. ASSUME NEW e, h[n + 1] = {e} PROVE ChainSettings(h, x)[n + 1] = {e.chain[x]}
  BY <1>2, <1>4 DEF ChainSettings
<1>5. (\A a \in 1..n : g[a] = {}) => \A a \in 1..n : ChainSettings(g, x)[a] = {}
  BY DEF Extends, ChainSettings
<1>6. ASSUME NEW v, LastGiven(v, ChainSettings(g, x)), h[n + 1] = {} PROVE LastGiven(v, ChainSettings(h, x))
  BY <1>1, <1>3, <1>6, NotGiven
<1>7. ASSUME NEW v, NEW e, LastGiven(v, ChainSettings(g, x)), h[n + 1] = {e}
      PROVE  LastGiven(IF e.chain[x] # Unset THEN e.chain[x] ELSE v, ChainSettings(h, x))
  <2>1. ChainSettings(h, x)[n + 1] = {e.chain[x]}
    BY <1>4, <1>7
  <2> QED
    BY <1>1, <1>7, <2>1, GivenOnce
<1>8. ASSUME NEW e, \A a \in 1..n : g[a] = {}, h[n + 1] = {e} PROVE LastGiven(e.chain[x], ChainSettings(h, x))
  <2>1. ChainSettings(h, x)[n + 1] = {e.chain[x]}
    BY <1>4, <1>8
  <2>2. \A a \in 1..n : ChainSettings(g, x)[a] = {}
    BY <1>5, <1>8
  <2> QED
    BY <1>1, <2>1, <2>2, GivenFirst
<1> QED
  BY <1>6, <1>7, <1>8
-----------------------------------------------------------------------------
(* The merged configuration *)

FilesType ==
    /\ files \in Seq(Seq(TOMLConfig))
    /\ accepted \in Seq(Seq(TOMLConfig))
    /\ cs \in Seq(TOMLConfig)

ConfigInv == FilesType /\ KeysUnique /\ LastFileWins

\* A valid file is a list of chains with unique ids, each with uniquely named nodes.
LEMMA ValidFile ==
    ASSUME NEW fs \in Seq(TOMLConfig), validateKeys(fs)
    PROVE  fs \in Seq(KeyedChains) /\ Unique(fs, "ChainID")
<1>1. ASSUME NEW c \in DOMAIN fs PROVE fs[c] \in KeyedChains
  <2>1. Unique(fs[c].Nodes, "Name")
    BY DEF validateKeys, UniqueInNodes, Unique
  <2> QED
    BY <2>1 DEF KeyedChains
<1>2. fs \in Seq(KeyedChains)
  BY <1>1
<1> QED
  BY <1>2 DEF validateKeys

\* So is the merged configuration.
LEMMA UniqueChains ==
    ASSUME FilesType, KeysUnique
    PROVE  cs \in Seq(KeyedChains) /\ Unique(cs, "ChainID")
<1>1. ASSUME NEW c \in DOMAIN cs PROVE cs[c] \in KeyedChains
  BY DEF FilesType, KeysUnique, KeyedChains, Entries
<1>2. cs \in Seq(KeyedChains)
  BY <1>1 DEF FilesType
<1> QED
  BY <1>2 DEF KeysUnique

\* The step that merges a valid file.
Accepts(fs) ==
    /\ fs \in Seq(KeyedChains) /\ Unique(fs, "ChainID")
    /\ accepted' = Append(accepted, fs)
    /\ Merged(cs', cs, fs, Len(fs), KeyedChains, "ChainID", ChainMerge)

\* SetFrom takes that step when the keys of the file are unique.
LEMMA FileAccepted ==
    ASSUME FilesType, KeysUnique, SetFrom, validateKeys(Head(files))
    PROVE  Accepts(Head(files))
<1>1. Head(files) \in Seq(TOMLConfig)
  BY DEF FilesType, SetFrom
<1>2. Head(files) \in Seq(KeyedChains) /\ Unique(Head(files), "ChainID")
  BY <1>1, ValidFile
<1>3. cs' = SetFromChains(cs, Head(files)) /\ accepted' = Append(accepted, Head(files))
  BY DEF SetFrom
<1> QED
  BY <1>2, <1>3, UniqueChains, ChainsMerged DEF Accepts

\* What the new file adds to what was said of a chain.
LEMMA SaidOfChain ==
    ASSUME FilesType, NEW fs, Accepts(fs), NEW id
    PROVE  /\ Extends(OfChain(id)', OfChain(id), Len(accepted))
           /\ OfChain(id)'[Len(accepted) + 1] = {f \in Entries(fs) : f.ChainID = id}
<1> DEFINE N == Len(accepted)
<1>1. /\ N \in Nat /\ DOMAIN accepted = 1..N /\ DOMAIN accepted' = 1..(N + 1)
      /\ accepted'[N + 1] = fs /\ N + 1 \in 1..(N + 1)
      /\ \A a \in 1..N : accepted'[a] = accepted[a] /\ a \in 1..(N + 1)
  BY DEF Accepts, FilesType
<1> HIDE DEF N
<1>2. /\ DOMAIN OfChain(id) = 1..N /\ DOMAIN OfChain(id)' = 1..(N + 1)
      /\ \A a \in 1..N : OfChain(id)'[a] = OfChain(id)[a]
      /\ OfChain(id)'[N + 1] = {f \in Entries(fs) : f.ChainID = id}
  BY <1>1 DEF OfChain, Entries
<1> QED
  BY <1>2 DEF Extends, N

\* The same of a node.
LEMMA SaidOfNode ==
    ASSUME FilesType, NEW fs, Accepts(fs), NEW id, NEW name
    PROVE  /\ Extends(OfNode(id, name)', OfNode(id, name), Len(accepted))
           /\ \A n : n \in OfNode(id, name)'[Len(accepted) + 1] <=>
                 n.Name = name /\ \E f \in OfChain(id)'[Len(accepted) + 1] : n \in Entries(f.Nodes)
<1> DEFINE N == Len(accepted)
<1>1. /\ N \in Nat /\ DOMAIN accepted = 1..N /\ DOMAIN accepted' = 1..(N + 1)
      /\ N + 1 \in 1..(N + 1)
      /\ \A a \in 1..N : a \in 1..(N + 1)
  BY DEF Accepts, FilesType
<1>2. \A a \in 1..N : OfChain(id)'[a] = OfChain(id)[a]
  BY SaidOfChain DEF Extends
<1> HIDE DEF N
<1>3. /\ DOMAIN OfNode(id, name) = 1..N /\ DOMAIN OfNode(id, name)' = 1..(N + 1)
      /\ \A a \in 1..(N + 1) : OfNode(id, name)'[a] =
             {n \in UNION {Entries(f.Nodes) : f \in OfChain(id)'[a]} : n.Name = name}
      /\ \A a \in 1..N : OfNode(id, name)[a] =
             {n \in UNION {Entries(f.Nodes) : f \in OfChain(id)[a]} : n.Name = name}
  BY <1>1 DEF OfNode
<1>4. \A a \in 1..N : OfNode(id, name)'[a] = OfNode(id, name)[a]
  BY <1>1, <1>2, <1>3
<1>5. \A n : n \in OfNode(id, name)'[N + 1] <=>
         n.Name = name /\ \E f \in OfChain(id)'[N + 1] : n \in Entries(f.Nodes)
  BY <1>1, <1>3
<1> QED
  BY <1>3, <1>4, <1>5 DEF Extends, N

\* Of a chain that is not in the configuration nothing was said.
LEMMA ChainNeverSaid ==
    ASSUME FilesType, LastFileWins, NEW id, ~ HasKey(cs, "ChainID", id), NEW name,
           NEW a \in 1..Len(accepted)
    PROVE  OfChain(id)[a] = {} /\ OfNode(id, name)[a] = {}
<1>1. a \in DOMAIN accepted
  BY DEF FilesType
<1>2. OfChain(id)[a] = {}
  <2>1. SUFFICES ASSUME NEW f \in Entries(accepted[a]), f.ChainID = id PROVE FALSE
    BY <1>1 DEF OfChain
  <2>2. PICK c \in Entries(cs) : c.ChainID = id
    BY <1>1, <2>1 DEF LastFileWins
  <2> QED
    BY <2>2 DEF Entries, HasKey
<1> QED
  BY <1>1, <1>2 DEF OfNode

\* Of a node that its chain does not have nothing was said.
LEMMA NodeNeverSaid ==
    ASSUME FilesType, KeysUnique, LastFileWins, NEW i \in DOMAIN cs, cs[i].ChainID # Unset,
           NEW name, ~ HasKey(cs[i].Nodes, "Name", name), NEW a \in 1..Len(accepted)
    PROVE  OfNode(cs[i].ChainID, name)[a] = {}
<1> DEFINE id == cs[i].ChainID
<1>1. a \in DOMAIN accepted
  BY DEF FilesType
<1>2. SUFFICES ASSUME NEW f \in OfChain(id)[a], NEW m \in Entries(f.Nodes), m.Name = name
               PROVE  FALSE
  BY <1>1 DEF OfNode
<1>3. f \in Entries(accepted[a]) /\ f.ChainID = id
  BY <1>1, <1>2 DEF OfChain
<1>4. PICK c \in Entries(cs) : c.ChainID = id /\ \E n \in Entries(c.Nodes) : n.Name = name
  BY <1>1, <1>2, <1>3 DEF LastFileWins
<1>5. PICK j \in DOMAIN cs : c = cs[j]
  BY DEF Entries
<1>6. j = i
  BY <1>4, <1>5 DEF KeysUnique, Unique
<1> QED
  BY <1>4, <1>5, <1>6 DEF Entries, HasKey

\* An entry is the only one of its list with its key.
LEMMA OnlyOne ==
    ASSUME NEW list, NEW key, Unique(list, key), NEW a \in DOMAIN list, list[a][key] # Unset
    PROVE  {e \in Entries(list) : e[key] = list[a][key]} = {list[a]}
  BY DEF Unique, Entries

\* The properties of a chain, and what a file says of its nodes.
Wins(c) ==
    SettingsWin(c) /\ \A n \in Entries(c.Nodes) : n.Name # Unset => NodeWins(c.ChainID, n)

\* A chain that the file does not mention keeps its settings.
LEMMA KeptChainWins ==
    ASSUME FilesType, NEW fs, Accepts(fs), NEW c, Wins(c), ~ HasKey(fs, "ChainID", c.ChainID)
    PROVE  Wins(c)'
<1> DEFINE N == Len(accepted)
           id == c.ChainID
<1>1. N \in Nat
  BY DEF FilesType
<1>2. Extends(OfChain(id)', OfChain(id), N) /\ OfChain(id)'[N + 1] = {}
  <2>1. {f \in Entries(fs) : f.ChainID = id} = {}
    BY DEF HasKey, Entries
  <2> QED
    BY <2>1, SaidOfChain
<1>3. ASSUME NEW name
      PROVE  Extends(OfNode(id, name)', OfNode(id, name), N) /\ OfNode(id, name)'[N + 1] = {}
  BY <1>2, SaidOfNode
<1>4. SettingsWin(c)'
  <2>1. LastGiven(c.Enabled, Fields(OfChain(id), "Enabled"))
    BY DEF Wins, SettingsWin, Fields
  <2>2. LastGiven(c.Enabled, Fields(OfChain(id)', "Enabled"))
    BY <1>1, <1>2, <2>1, FieldGiven
  <2>3. ASSUME NEW x \in ChainFields
        PROVE  LastGiven(c.chain[x], ChainSettings(OfChain(id)', x))
    <3>1. LastGiven(c.chain[x], ChainSettings(OfChain(id), x))
      BY DEF Wins, SettingsWin, ChainSettings
    <3> QED
      BY <1>1, <1>2, <3>1, SettingGiven
  <2> QED
    BY <2>2, <2>3 DEF SettingsWin, Fields, ChainSettings
<1>5. ASSUME NEW n \in Entries(c.Nodes), n.Name # Unset PROVE NodeWins(id, n)'
  <2>1. ASSUME NEW x \in {"URL", "SolidityURL"}
        PROVE  LastGiven(n[x], Fields(OfNode(id, n.Name)', x))
    <3>1. LastGiven(n[x], Fields(OfNode(id, n.Name), x))
      BY <1>5 DEF Wins, NodeWins, Fields
    <3> QED
      BY <1>1, <1>3, <3>1, FieldGiven
  <2> QED
    BY <2>1 DEF NodeWins, Fields
<1> QED
  BY <1>4, <1>5 DEF Wins

\* What the file says of the nodes of a chain it mentions.
LEMMA SaidOfItsNode ==
    ASSUME FilesType, NEW fs, Accepts(fs), NEW f, NEW id,
           OfChain(id)'[Len(accepted) + 1] = {f}, Unique(f.Nodes, "Name"), NEW name, name # Unset
    PROVE  /\ ~ HasKey(f.Nodes, "Name", name) => OfNode(id, name)'[Len(accepted) + 1] = {}
           /\ \A b \in DOMAIN f.Nodes : f.Nodes[b].Name = name =>
                 OfNode(id, name)'[Len(accepted) + 1] = {f.Nodes[b]}
<1>1. \A n : n \in OfNode(id, name)'[Len(accepted) + 1] <=> n.Name = name /\ n \in Entries(f.Nodes)
  BY SaidOfNode
<1>2. ASSUME ~ HasKey(f.Nodes, "Name", name) PROVE OfNode(id, name)'[Len(accepted) + 1] = {}
  BY <1>1, <1>2 DEF HasKey, Entries
<1>3. ASSUME NEW b \in DOMAIN f.Nodes, f.Nodes[b].Name = name
      PROVE  OfNode(id, name)'[Len(accepted) + 1] = {f.Nodes[b]}
  <2>1. f.Nodes[b] \in Entries(f.Nodes)
    BY DEF Entries
  <2>2. ASSUME NEW n \in Entries(f.Nodes), n.Name = name PROVE n = f.Nodes[b]
    BY <1>3, <2>2 DEF Entries, Unique
  <2> QED
    BY <1>1, <1>3, <2>1, <2>2
<1> QED
  BY <1>2, <1>3

\* A chain that the file adds has the settings of the file.
LEMMA NewChainWins ==
    ASSUME FilesType, LastFileWins, NEW fs, Accepts(fs), NEW a \in DOMAIN fs,
           NEW c, c = fs[a], c.ChainID # Unset, ~ HasKey(cs, "ChainID", c.ChainID)
    PROVE  Wins(c)'
<1> DEFINE N == Len(accepted)
           id == c.ChainID
<1>1. N \in Nat
  BY DEF FilesType
<1>2. Extends(OfChain(id)', OfChain(id), N) /\ OfChain(id)'[N + 1] = {c}
  <2>1. {f \in Entries(fs) : f.ChainID = id} = {c}
    BY OnlyOne DEF Accepts
  <2> QED
    BY <2>1, SaidOfChain
<1>3. \A b \in 1..N : OfChain(id)[b] = {}
  BY ChainNeverSaid
<1>4. Unique(c.Nodes, "Name")
  BY DEF Accepts, KeyedChains
<1>5. SettingsWin(c)'
  <2>1. LastGiven(c.Enabled, Fields(OfChain(id)', "Enabled"))
    BY <1>1, <1>2, <1>3, FieldGiven
  <2>2. ASSUME NEW x \in ChainFields
        PROVE  LastGiven(c.chain[x], ChainSettings(OfChain(id)', x))
    BY <1>1, <1>2, <1>3, SettingGiven
  <2> QED
    BY <2>1, <2>2 DEF SettingsWin, Fields, ChainSettings
<1>6. ASSUME NEW n \in Entries(c.Nodes), n.Name # Unset PROVE NodeWins(id, n)'
  <2> DEFINE name == n.Name
  <2>1. Extends(OfNode(id, name)', OfNode(id, name), N)
    BY SaidOfNode
  <2>2. OfNode(id, name)'[N + 1] = {n}
    <3>1. PICK b \in DOMAIN c.Nodes : c.Nodes[b] = n
      BY DEF Entries
    <3> QED
      BY <1>2, <1>4, <1>6, <3>1, SaidOfItsNode
  <2>3. \A b \in 1..N : OfNode(id, name)[b] = {}
    BY ChainNeverSaid
  <2>4. ASSUME NEW x \in {"URL", "SolidityURL"}
        PROVE  LastGiven(n[x], Fields(OfNode(id, name)', x))
    BY <1>1, <2>1, <2>2, <2>3, FieldGiven
  <2> QED
    BY <2>4 DEF NodeWins, Fields
<1> QED
  BY <1>5, <1>6 DEF Wins

\* A chain that the file mentions has the settings of the file where they are set.
LEMMA MergedChainWins ==
    ASSUME FilesType, KeysUnique, LastFileWins, NEW fs, Accepts(fs),
           NEW i \in DOMAIN cs, NEW a \in DOMAIN fs, NEW c, c = ChainMerge[<<cs[i], fs[a]>>],
           fs[a].ChainID # Unset, cs[i].ChainID = fs[a].ChainID
    PROVE  Wins(c)'
<1> DEFINE N == Len(accepted)
           o == cs[i]
           f == fs[a]
           id == f.ChainID
<1>1. N \in Nat
  BY DEF FilesType
<1>2. o \in KeyedChains /\ f \in KeyedChains
  BY UniqueChains DEF Accepts
<1>3. c = SetFromChain(o, f)
  BY <1>2 DEF ChainMerge
<1>4. /\ c.ChainID = id
      /\ c.Enabled = IF f.Enabled # Unset THEN f.Enabled ELSE o.Enabled
      /\ c.Nodes = SetFromNodes(o.Nodes, f.Nodes)
      /\ \A x \in ChainFields : c.chain[x] = IF f.chain[x] # Unset THEN f.chain[x] ELSE o.chain[x]
  BY <1>2, <1>3 DEF SetFromChain, Overlay, KeyedChains, TOMLConfig
<1>5. Extends(OfChain(id)', OfChain(id), N) /\ OfChain(id)'[N + 1] = {f}
  <2>1. {g \in Entries(fs) : g.ChainID = id} = {f}
    BY OnlyOne DEF Accepts
  <2> QED
    BY <2>1, SaidOfChain
<1>6. o.Nodes \in Seq(NodeConfig) /\ f.Nodes \in Seq(NodeConfig)
  BY <1>2 DEF KeyedChains, TOMLConfig
<1>7. Unique(o.Nodes, "Name") /\ Unique(f.Nodes, "Name")
  BY <1>2 DEF KeyedChains
<1>8. Wins(o) /\ o.ChainID = id
  BY DEF LastFileWins, Wins, Entries
<1>9. SettingsWin(c)'
  <2>1. LastGiven(o.Enabled, Fields(OfChain(id), "Enabled"))
    BY <1>8 DEF Wins, SettingsWin, Fields
  <2>2. LastGiven(c.Enabled, Fields(OfChain(id)', "Enabled"))
    <3> HIDE DEF o, f, id
    <3> QED
      BY <1>1, <1>4, <1>5, <2>1, FieldGiven
  <2>3. ASSUME NEW x \in ChainFields
        PROVE  LastGiven(c.chain[x], ChainSettings(OfChain(id)', x))
    <3>1. LastGiven(o.chain[x], ChainSettings(OfChain(id), x))
      BY <1>8 DEF Wins, SettingsWin, ChainSettings
    <3> HIDE DEF o, f, id
    <3> QED
      BY <1>1, <1>4, <1>5, <3>1, SettingGiven
  <2> QED
    BY <1>4, <2>2, <2>3 DEF SettingsWin, Fields, ChainSettings
<1>10. ASSUME NEW n \in Entries(c.Nodes), n.Name # Unset PROVE NodeWins(id, n)'
  <2> DEFINE name == n.Name
  <2>1. Extends(OfNode(id, name)', OfNode(id, name), N)
    BY SaidOfNode
  <2>2. Merged(c.Nodes, o.Nodes, f.Nodes, Len(f.Nodes), NodeConfig, "Name", NodeMerge)
    BY <1>4, <1>6, <1>7, NodesMerged
  <2>3. Origin(n, o.Nodes, f.Nodes, Len(f.Nodes), "Name", NodeMerge)
    BY <2>2 DEF Merged, Entries
  <2>4. DOMAIN f.Nodes = 1..Len(f.Nodes)
    BY <1>6
  <2>5. SUFFICES ASSUME NEW x \in {"URL", "SolidityURL"}
                 PROVE  LastGiven(n[x], Fields(OfNode(id, name)', x))
    BY DEF NodeWins, Fields
  <2>6. ASSUME NEW m \in Entries(o.Nodes), m.Name = name
        PROVE  LastGiven(m[x], Fields(OfNode(id, name), x))
    BY <1>8, <1>10, <2>6 DEF Wins, NodeWins, Fields
  <2>7. CASE n \in Entries(o.Nodes) /\ ~ HasKey(f.Nodes, "Name", name)
    <3>1. OfNode(id, name)'[N + 1] = {}
      BY <1>5, <1>7, <1>10, <2>7, SaidOfItsNode
    <3> QED
      BY <1>1, <2>1, <2>6, <2>7, <3>1, FieldGiven
  <2>8. ASSUME NEW b \in DOMAIN f.Nodes, n = f.Nodes[b], ~ HasKey(o.Nodes, "Name", name)
        PROVE  LastGiven(n[x], Fields(OfNode(id, name)', x))
    <3>1. OfNode(id, name)'[N + 1] = {n}
      BY <1>5, <1>7, <1>10, <2>8, SaidOfItsNode
    <3>2. \A d \in 1..N : OfNode(id, name)[d] = {}
      BY <2>8, NodeNeverSaid
    <3> QED
      BY <1>1, <2>1, <3>1, <3>2, FieldGiven
  <2>9. ASSUME NEW l \in DOMAIN o.Nodes, NEW b \in DOMAIN f.Nodes,
               o.Nodes[l].Name = name, f.Nodes[b].Name = name,
               n = NodeMerge[<<o.Nodes[l], f.Nodes[b]>>]
        PROVE  LastGiven(n[x], Fields(OfNode(id, name)', x))
    <3> DEFINE p == o.Nodes[l]
               q == f.Nodes[b]
    <3>1. p \in NodeConfig /\ q \in NodeConfig /\ p \in Entries(o.Nodes)
      BY <1>6 DEF Entries
    <3>2. n = Overlay(p, q)
      BY <2>9, <3>1 DEF NodeMerge
    <3>3. n[x] = IF q[x] # Unset THEN q[x] ELSE p[x]
      BY <3>1, <3>2 DEF Overlay, NodeConfig
    <3>4. OfNode(id, name)'[N + 1] = {q}
      BY <1>5, <1>7, <1>10, <2>9, SaidOfItsNode
    <3>5. LastGiven(p[x], Fields(OfNode(id, name), x))
      BY <2>6, <2>9, <3>1
    <3> HIDE DEF p, q, o, f, id, name
    <3> QED
      BY <1>1, <2>1, <3>3, <3>4, <3>5, FieldGiven
  <2>10. \/ n \in Entries(o.Nodes) /\ ~ HasKey(f.Nodes, "Name", name)
         \/ (\E b \in DOMAIN f.Nodes : n = f.Nodes[b]) /\ ~ HasKey(o.Nodes, "Name", name)
         \/ \E l \in DOMAIN o.Nodes, b \in DOMAIN f.Nodes :
               /\ o.Nodes[l].Name = name /\ f.Nodes[b].Name = name
               /\ n = NodeMerge[<<o.Nodes[l], f.Nodes[b]>>]
    BY <1>10, <2>3, <2>4 DEF Origin, HasKey, Entries
  <2> QED
    BY <2>7, <2>8, <2>9, <2>10
<1> QED
  BY <1>4, <1>9, <1>10 DEF Wins

\* The chains and the nodes of the accepted files are in the configuration.
Present(f) ==
    \E c \in Entries(cs) :
        /\ c.ChainID = f.ChainID
        /\ \A m \in Entries(f.Nodes) : \E n \in Entries(c.Nodes) : n.Name = m.Name

\* The nodes of both sides are found again in a merged chain.
LEMMA NodesPresent ==
    ASSUME NEW o \in KeyedChains, NEW f \in KeyedChains,
           NEW m \in Entries(o.Nodes) \cup Entries(f.Nodes)
    PROVE  \E n \in Entries(ChainMerge[<<o, f>>].Nodes) : n.Name = m.Name
<1> DEFINE out == SetFromNodes(o.Nodes, f.Nodes)
<1>1. ChainMerge[<<o, f>>].Nodes = out
  BY DEF ChainMerge, SetFromChain
<1>2. Merged(out, o.Nodes, f.Nodes, Len(f.Nodes), NodeConfig, "Name", NodeMerge)
  BY NodesMerged DEF KeyedChains, TOMLConfig
<1>3. DOMAIN f.Nodes = 1..Len(f.Nodes)
  BY DEF KeyedChains, TOMLConfig
<1>4. Found(m, out, "Name")
  BY <1>2, <1>3 DEF Merged, Entries
<1> HIDE DEF out
<1> QED
  BY <1>1, <1>4 DEF Found, HasKey, Entries

\* A chain of the configuration, and its nodes, survive the merge of a file.
LEMMA ChainPresent ==
    ASSUME FilesType, KeysUnique, NEW fs, Accepts(fs), NEW i \in DOMAIN cs
    PROVE  \E c \in Entries(cs') :
              /\ c.ChainID = cs[i].ChainID
              /\ \A m \in Entries(cs[i].Nodes) : \E n \in Entries(c.Nodes) : n.Name = m.Name
<1>1. Found(cs[i], cs', "ChainID")
  BY DEF Accepts, Merged
<1>2. CASE cs[i].ChainID = Unset
  <2>1. cs[i] \in Entries(cs')
    BY <1>1, <1>2 DEF Found, Entries
  <2> QED
    BY <2>1
<1>3. CASE cs[i].ChainID # Unset
  <2>1. PICK j \in DOMAIN cs' : cs'[j].ChainID = cs[i].ChainID
    BY <1>1, <1>3 DEF Found, HasKey
  <2>2. Origin(cs'[j], cs, fs, Len(fs), "ChainID", ChainMerge)
    BY DEF Accepts, Merged
  <2>3. cs'[j] \in Entries(cs')
    BY DEF Entries
  <2>4. \A l \in DOMAIN cs : cs[l].ChainID = cs[i].ChainID => l = i
    BY <1>3 DEF KeysUnique, Unique
  <2>5. \/ cs'[j] = cs[i]
        \/ \E a \in 1..Len(fs) : cs'[j] = ChainMerge[<<cs[i], fs[a]>>]
    BY <1>3, <2>1, <2>2, <2>4 DEF Origin, HasKey
  <2>6. CASE cs'[j] = cs[i]
    BY <2>1, <2>3, <2>6
  <2>7. ASSUME NEW a \in 1..Len(fs), cs'[j] = ChainMerge[<<cs[i], fs[a]>>]
        PROVE  \A m \in Entries(cs[i].Nodes) : \E n \in Entries(cs'[j].Nodes) : n.Name = m.Name
    <3>1. cs[i] \in KeyedChains /\ fs[a] \in KeyedChains
      BY UniqueChains DEF Accepts
    <3> QED
      BY <2>7, <3>1, NodesPresent
  <2> QED
    BY <2>1, <2>3, <2>5, <2>6, <2>7
<1> QED
  BY <1>2, <1>3

\* A chain of the file, and its nodes, are in the result.
LEMMA FilePresent ==
    ASSUME FilesType, KeysUnique, NEW fs, Accepts(fs), NEW a \in DOMAIN fs
    PROVE  \E c \in Entries(cs') :
              /\ c.ChainID = fs[a].ChainID
              /\ \A m \in Entries(fs[a].Nodes) : \E n \in Entries(c.Nodes) : n.Name = m.Name
<1>d. DOMAIN fs = 1..Len(fs)
  BY DEF Accepts
<1>1. Found(fs[a], cs', "ChainID")
  BY <1>d DEF Accepts, Merged
<1>2. CASE fs[a].ChainID = Unset
  <2>1. fs[a] \in Entries(cs')
    BY <1>1, <1>2 DEF Found, Entries
  <2> QED
    BY <2>1
<1>3. CASE fs[a].ChainID # Unset
  <2>1. PICK j \in DOMAIN cs' : cs'[j].ChainID = fs[a].ChainID
    BY <1>1, <1>3 DEF Found, HasKey
  <2>2. Origin(cs'[j], cs, fs, Len(fs), "ChainID", ChainMerge)
    BY DEF Accepts, Merged
  <2>3. cs'[j] \in Entries(cs')
    BY DEF Entries
  <2>4. \A l \in DOMAIN fs : fs[l].ChainID = fs[a].ChainID => l = a
    BY <1>3 DEF Accepts, Unique
  <2>5. \/ cs'[j] = fs[a]
        \/ \E i \in DOMAIN cs : cs'[j] = ChainMerge[<<cs[i], fs[a]>>]
    BY <1>d, <1>3, <2>1, <2>2, <2>4 DEF Origin, HasKey
  <2>6. CASE cs'[j] = fs[a]
    BY <2>1, <2>3, <2>6
  <2>7. ASSUME NEW i \in DOMAIN cs, cs'[j] = ChainMerge[<<cs[i], fs[a]>>]
        PROVE  \A m \in Entries(fs[a].Nodes) : \E n \in Entries(cs'[j].Nodes) : n.Name = m.Name
    <3>1. cs[i] \in KeyedChains /\ fs[a] \in KeyedChains
      BY UniqueChains DEF Accepts
    <3> QED
      BY <2>7, <3>1, NodesPresent
  <2> QED
    BY <2>1, <2>3, <2>5, <2>6, <2>7
<1> QED
  BY <1>2, <1>3

\* Merging a file preserves the invariant of the configuration.
LEMMA AcceptsInv ==
    ASSUME ConfigInv, NEW fs, Accepts(fs), files' \in Seq(Seq(TOMLConfig))
    PROVE  ConfigInv'
<1>1. FilesType /\ KeysUnique /\ LastFileWins
  BY DEF ConfigInv
<1>2. cs' \in Seq(KeyedChains) /\ Unique(cs', "ChainID")
  BY DEF Accepts, Merged
<1>3. fs \in Seq(TOMLConfig) /\ cs' \in Seq(TOMLConfig)
  BY <1>2 DEF Accepts, KeyedChains
<1>4. FilesType'
  BY <1>1, <1>3 DEF FilesType, Accepts
<1>5. KeysUnique'
  <2>1. \A j \in DOMAIN cs' : Unique(cs'[j].Nodes, "Name")
    BY <1>2 DEF KeyedChains
  <2> QED
    BY <1>2, <2>1 DEF KeysUnique, Entries
<1>6. ASSUME NEW a \in DOMAIN accepted', NEW f \in Entries(accepted'[a]) PROVE Present(f)'
  <2>1. \/ a \in DOMAIN accepted /\ accepted'[a] = accepted[a]
        \/ accepted'[a] = fs
    BY <1>1 DEF FilesType, Accepts
  <2>2. CASE a \in DOMAIN accepted /\ accepted'[a] = accepted[a]
    <3>1. PICK c \in Entries(cs) :
            /\ c.ChainID = f.ChainID
            /\ \A m \in Entries(f.Nodes) : \E n \in Entries(c.Nodes) : n.Name = m.Name
      BY <1>1, <2>2 DEF LastFileWins
    <3>2. PICK i \in DOMAIN cs : c = cs[i]
      BY DEF Entries
    <3>3. PICK d \in Entries(cs') :
            /\ d.ChainID = c.ChainID
            /\ \A m \in Entries(c.Nodes) : \E n \in Entries(d.Nodes) : n.Name = m.Name
      BY <1>1, <3>2, ChainPresent
    <3>4. \A m \in Entries(f.Nodes) : \E n \in Entries(d.Nodes) : n.Name = m.Name
      BY <3>1, <3>3
    <3> QED
      BY <3>1, <3>3, <3>4 DEF Present
  <2>3. CASE accepted'[a] = fs
    <3>1. PICK b \in DOMAIN fs : f = fs[b]
      BY <2>3 DEF Entries
    <3> QED
      BY <1>1, <3>1, FilePresent DEF Present
  <2> QED
    BY <2>1, <2>2, <2>3
<1>7. ASSUME NEW c \in Entries(cs'), c.ChainID # Unset PROVE Wins(c)'
  <2>1. PICK j \in DOMAIN cs' : c = cs'[j]
    BY DEF Entries
  <2>2. Origin(c, cs, fs, Len(fs), "ChainID", ChainMerge)
    BY <2>1 DEF Accepts, Merged
  <2>3. DOMAIN fs = 1..Len(fs)
    BY DEF Accepts
  <2>4. CASE c \in Entries(cs) /\ ~ HasKey(fs, "ChainID", c.ChainID)
    <3>1. Wins(c)
      BY <1>1, <1>7, <2>4 DEF LastFileWins, Wins
    <3> QED
      BY <1>1, <2>4, <3>1, KeptChainWins
  <2>5. ASSUME NEW a \in DOMAIN fs, c = fs[a], ~ HasKey(cs, "ChainID", c.ChainID) PROVE Wins(c)'
    BY <1>1, <1>7, <2>5, NewChainWins
  <2>6. ASSUME NEW i \in DOMAIN cs, NEW a \in DOMAIN fs, fs[a].ChainID # Unset,
               cs[i].ChainID = fs[a].ChainID, c = ChainMerge[<<cs[i], fs[a]>>]
        PROVE  Wins(c)'
    BY <1>1, <2>6, MergedChainWins
  <2>7. \/ c \in Entries(cs) /\ ~ HasKey(fs, "ChainID", c.ChainID)
        \/ (\E a \in DOMAIN fs : c = fs[a]) /\ ~ HasKey(cs, "ChainID", c.ChainID)
        \/ \E i \in DOMAIN cs, a \in DOMAIN fs :
              /\ fs[a].ChainID # Unset /\ cs[i].ChainID = fs[a].ChainID
              /\ c = ChainMerge[<<cs[i], fs[a]>>]
    BY <1>7, <2>2, <2>3 DEF Origin, HasKey, Entries
  <2> QED
    BY <2>4, <2>5, <2>6, <2>7
<1>8. LastFileWins'
  BY <1>6, <1>7 DEF LastFileWins, Present, Wins
<1> QED
  BY <1>4, <1>5, <1>8 DEF ConfigInv

\* What leaves the configuration alone preserves its invariant.
LEMMA ConfigUnchanged ==
    ASSUME ConfigInv, UNCHANGED <<accepted, cs>>, files' \in Seq(Seq(TOMLConfig))
    PROVE  ConfigInv'
<1>1. FilesType' /\ KeysUnique'
  BY DEF ConfigInv, FilesType, KeysUnique
<1>2. ASSUME NEW id PROVE OfChain(id)' = OfChain(id)
  BY DEF OfChain
<1>3. ASSUME NEW id, NEW name PROVE OfNode(id, name)' = OfNode(id, name)
  BY <1>2 DEF OfNode
<1>4. ASSUME NEW c, SettingsWin(c) PROVE SettingsWin(c)'
  BY <1>2, <1>4 DEF SettingsWin
<1>5. ASSUME NEW id, NEW n, NodeWins(id, n) PROVE NodeWins(id, n)'
  BY <1>3, <1>5 DEF NodeWins
<1>6. LastFileWins'
  BY <1>4, <1>5 DEF ConfigInv, LastFileWins
<1> QED
  BY <1>1, <1>6 DEF ConfigInv
-----------------------------------------------------------------------------
(* The relayer that is built from it *)

PluginInv == ConfigInv /\ BuiltFromConfig /\ (cfg # Unset => files = <<>>)

\* The initial states satisfy the invariant.
LEMMA PluginInitInv == PluginInit => PluginInv
<1> SUFFICES ASSUME PluginInit PROVE PluginInv
  OBVIOUS
<1>1. files \in Seq(Seq(TOMLConfig))
  BY PluginAssumption DEF PluginInit
<1>2. accepted = <<>> /\ cs = <<>> /\ cfg = Unset
  BY DEF PluginInit
<1>3. KeysUnique /\ LastFileWins
  BY <1>2 DEF KeysUnique, Unique, LastFileWins, Entries
<1> QED
  BY <1>1, <1>2, <1>3 DEF PluginInv, ConfigInv, FilesType, BuiltFromConfig

\* Completing a valid configuration keeps its nodes, and leaves no setting open.
LEMMA DefaultsComplete ==
    ASSUME NEW c \in KeyedChains, ValidateConfig(c)
    PROVE  LET full == SetDefaults(c, Defaults)
           IN  /\ full.ChainID = c.ChainID
               /\ \A x \in ChainFields :
                     full.chain[x] # Unset /\ (c.chain[x] # Unset => c.chain[x] = full.chain[x])
               /\ Entries(full.Nodes) \subseteq Entries(c.Nodes)
<1> DEFINE full == SetDefaults(c, Defaults)
<1>1. full.ChainID = c.ChainID
  BY DEF SetDefaults, SetFromChain, ValidateConfig
<1>2. ASSUME NEW x \in ChainFields
      PROVE  full.chain[x] # Unset /\ (c.chain[x] # Unset => c.chain[x] = full.chain[x])
  <2>1. full.chain[x] = IF c.chain[x] # Unset THEN c.chain[x] ELSE Defaults.chain[x]
    BY PluginAssumption DEF SetDefaults, SetFromChain, Overlay, TOMLConfig
  <2> QED
    BY <2>1, DefaultsAssumption
<1>3. Entries(full.Nodes) \subseteq Entries(c.Nodes)
  <2>1. c.Nodes \in Seq(NodeConfig) /\ Unique(c.Nodes, "Name")
    BY DEF KeyedChains, TOMLConfig
  <2>2. Defaults.Nodes = <<>> /\ <<>> \in Seq(NodeConfig) /\ Unique(<<>>, "Name")
    BY DefaultsAssumption DEF Unique
  <2>3. full.Nodes = SetFromNodes(<<>>, c.Nodes)
    BY <2>2 DEF SetDefaults, SetFromChain
  <2>4. Merged(full.Nodes, <<>>, c.Nodes, Len(c.Nodes), NodeConfig, "Name", NodeMerge)
    BY <2>1, <2>2, <2>3, NodesMerged
  <2>5. ASSUME NEW j \in DOMAIN full.Nodes PROVE full.Nodes[j] \in Entries(c.Nodes)
    <3>1. Origin(full.Nodes[j], <<>>, c.Nodes, Len(c.Nodes), "Name", NodeMerge)
      BY <2>4 DEF Merged
    <3>2. \E a \in 1..Len(c.Nodes) : full.Nodes[j] = c.Nodes[a]
      BY <3>1 DEF Origin
    <3> QED
      BY <2>1, <3>2 DEF Entries
  <2> QED
    BY <2>5 DEF Entries
<1> QED
  BY <1>1, <1>2, <1>3

\* A call of NewRelayer builds from the configuration it was given, or nothing.
LEMMA NewRelayerInv ==
    ASSUME PluginInv, NEW i \in DOMAIN cs, NewRelayer(cs[i]) PROVE PluginInv'
<1> DEFINE c == cs[i]
           full == SetDefaults(c, Defaults)
<1>1. UNCHANGED <<files, accepted, cs>> /\ files = <<>>
  BY DEF NewRelayer
<1>2. ConfigInv'
  BY <1>1, ConfigUnchanged DEF PluginInv, ConfigInv, FilesType
<1>3. CASE UNCHANGED <<cfg, node>>
  BY <1>1, <1>2, <1>3 DEF PluginInv, BuiltFromConfig
<1>4. CASE ~ UNCHANGED <<cfg, node>>
  <2>1. /\ ChainIdNum[full.ChainID] # Unset
        /\ cfg' = full /\ node' \in Entries(full.Nodes)
    BY <1>4 DEF NewRelayer, BuildRelayer, SelectRandom
  <2>2. c \in KeyedChains /\ c \in Entries(cs)
    BY UniqueChains DEF PluginInv, ConfigInv, Entries
  <2>3. ValidateConfig(c) /\ c.Enabled # FALSE
    BY ConfigAssumption DEF NewRelayer, IsEnabled
  <2>4. /\ full.ChainID = c.ChainID
        /\ \A x \in ChainFields :
              full.chain[x] # Unset /\ (c.chain[x] # Unset => c.chain[x] = full.chain[x])
        /\ Entries(full.Nodes) \subseteq Entries(c.Nodes)
    BY <2>2, <2>3, DefaultsComplete
  <2> HIDE DEF full, c
  <2>5. node' \in Entries(c.Nodes)
    BY <2>1, <2>4
  <2>6. node'.URL # Unset /\ node'.SolidityURL # Unset
    BY <2>3, <2>5 DEF ValidateConfig, ValidateNode, Entries
  <2>7. BuiltFromConfig'
    BY <1>1, <2>1, <2>2, <2>3, <2>4, <2>5, <2>6 DEF BuiltFromConfig
  <2> QED
    BY <1>1, <1>2, <2>7 DEF PluginInv
<1> QED
  BY <1>3, <1>4

\* Every step of the plugin preserves the invariant.
LEMMA PluginStepInv == PluginInv /\ [PluginNext]_allVars => PluginInv'
<1> SUFFICES ASSUME PluginInv, [PluginNext]_allVars PROVE PluginInv'
  OBVIOUS
<1>1. CASE UNCHANGED pluginVars
  <2>1. UNCHANGED <<files, accepted, cs, cfg, node>>
    BY <1>1 DEF pluginVars
  <2>2. ConfigInv'
    BY <2>1, ConfigUnchanged DEF PluginInv, ConfigInv, FilesType
  <2> QED
    BY <2>1, <2>2 DEF PluginInv, BuiltFromConfig
<1>2. CASE SetFrom
  <2>1. files # <<>> /\ files' = Tail(files) /\ UNCHANGED <<cfg, node>>
    BY <1>2 DEF SetFrom
  <2>2. cfg = Unset
    BY <2>1 DEF PluginInv
  <2>3. files' \in Seq(Seq(TOMLConfig))
    BY <2>1 DEF PluginInv, ConfigInv, FilesType
  <2>4. CASE validateKeys(Head(files))
    BY <1>2, <2>1, <2>2, <2>3, <2>4, FileAccepted, AcceptsInv DEF PluginInv, ConfigInv, BuiltFromConfig
  <2>5. CASE ~ validateKeys(Head(files))
    <3>1. UNCHANGED <<cs, accepted>>
      BY <1>2, <2>5 DEF SetFrom
    <3>2. ConfigInv'
      BY <2>3, <3>1, ConfigUnchanged DEF PluginInv
    <3> QED
      BY <2>1, <2>2, <3>2 DEF PluginInv, BuiltFromConfig
  <2> QED
    BY <2>4, <2>5
<1>3. ASSUME NEW i \in DOMAIN cs, NewRelayer(cs[i]) PROVE PluginInv'
  BY <1>3, NewRelayerInv
<1>4. CASE Relay
  BY <1>1, <1>4 DEF Relay
<1> QED
  BY <1>1, <1>2, <1>3, <1>4 DEF PluginNext, allVars, pluginVars

\* The inductive invariant of the plugin.
LEMMA PluginInvariance == PluginSpec => []PluginInv
  BY PluginInitInv, PluginStepInv, PTL DEF PluginSpec

\* For any files in any order, SetFrom never leaves two chains with one id or two nodes of
\* a chain with one name.
THEOREM MergedKeysUnique == PluginSpec => []KeysUnique
<1>1. PluginInv => KeysUnique
  BY DEF PluginInv, ConfigInv
<1> QED
  BY PluginInvariance, <1>1, PTL

\* For any files in any order, every field of the configuration that SetFrom has merged has
\* the value of the last accepted file that sets it, and no chain or node is lost.
THEOREM LastFileTakesEffect == PluginSpec => []LastFileWins
<1>1. PluginInv => LastFileWins
  BY DEF PluginInv, ConfigInv
<1> QED
  BY PluginInvariance, <1>1, PTL

\* For any files and any defaults that leave no setting open, NewRelayer builds only from a
\* configured and enabled chain, and every pointer it dereferences is set.
THEOREM RelayerFromConfig == PluginSpec => []BuiltFromConfig
<1>1. PluginInv => BuiltFromConfig
  BY DEF PluginInv
<1> QED
  BY PluginInvariance, <1>1, PTL
=============================================================================
