-------------------------- MODULE MCPluginRelayer --------------------------
(* Values of the constants of PluginRelayer for TLC. *)
EXTENDS PluginRelayer, TLC

CONSTANTS b, c1, c2, k1, k2, k3

\* Nothing to do.
Idle == [keys |-> <<>>, attempts |-> 0, callers |-> {}]

\* The object and one other caller; three callers; the attempts of the object; the monitor;
\* a relayer that is only started and closed.
SomeWorkloads ==
    {[keys |-> <<>>, attempts |-> 1, callers |-> {c1}],
     [keys |-> <<>>, attempts |-> 0, callers |-> {c1, c2}],
     [keys |-> <<>>, attempts |-> 2, callers |-> {}],
     [keys |-> <<k1, k2, k3>>, attempts |-> 0, callers |-> {}],
     Idle}

\* The powers of 1.5.
PaddingOf15 == [n \in 0..MaxBumps |-> [num |-> 3^(n + 1), den |-> 2^(n + 1)]]

Entry(p) == [wellFormed |-> TRUE, price |-> p]
Malformed == [wellFormed |-> FALSE, price |-> 0]

\* A later price, one that cannot be parsed, one that does not fit.
SomePrices == {<<Entry(1), Entry(4)>>, <<Entry(5), Malformed>>, <<Entry(Half)>>}

\* Chain ids with the same number, one that has none, the empty one.
SomeNumbers == ("10" :> 10) @@ ("0xa" :> 10) @@ ("ten" :> Unset) @@ ("" :> Unset)

Node(name, url, solidity) == [Name |-> name, URL |-> url, SolidityURL |-> solidity]
Nothing == [x \in ChainFields |-> Unset]
Chain(id, enabled, settings, nodes) ==
    [ChainID |-> id, Enabled |-> enabled, chain |-> settings @@ Nothing, Nodes |-> nodes]

SomeDefaults ==
    Chain(Unset, TRUE, [x \in ChainFields |-> IF x = "RetentionPeriod" THEN 0 ELSE 1], <<>>)

Plain == <<Chain("10", Unset, <<>>, <<Node("n1", "u1", "s1")>>)>>

\* Two nodes; a file that completes it and adds a chain that is switched off; one that
\* switches both; nodes without a name or a URL; an id without a number; ids that are
\* missing; keys that occur twice.
SomeFiles ==
    {<<Chain("10", Unset, "ReapInterval" :> 2,
             <<Node("n1", "u1", "s1"), Node("n2", "u2", Unset)>>)>>,
     <<Chain("0xa", FALSE, <<>>, <<Node("n3", "u3", "s3")>>),
       Chain("10", TRUE, ("ReapInterval" :> 3) @@ ("OCR2CacheTTL" :> 2),
             <<Node("n2", Unset, "s2"), Node("n1", "u4", Unset)>>)>>,
     <<Chain("10", FALSE, <<>>, <<>>), Chain("0xa", TRUE, "OCR2CacheTTL" :> 3, <<>>)>>,
     <<Chain("0xa", Unset, <<>>, <<Node("n1", Unset, "s4"), Node(Unset, "u4", "s4")>>)>>,
     <<Chain("ten", TRUE, <<>>, <<Node("n1", "u1", "s1")>>)>>,
     <<Chain("", Unset, <<>>, <<Node("n1", "u1", "s1")>>), Chain(Unset, Unset, <<>>, <<>>)>>,
     <<Chain("10", TRUE, <<>>, <<Node("n4", "u4", "s4"), Node("n4", "u1", "s1")>>)>>}

\* Three of the files, in any order, for a relayer with nothing to do; one for the others.
SomeDeployments ==
    {[workload |-> w, files |-> <<Plain>>] : w \in SomeWorkloads}
    \cup {[workload |-> Idle, files |-> fs] :
             fs \in {fs \in [1..3 -> SomeFiles] : \A i, j \in 1..3 : i # j => fs[i] # fs[j]}}
=============================================================================
