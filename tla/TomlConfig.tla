----------------------------- MODULE TomlConfig -----------------------------
(***************************************************************************)
(* The configuration of the chains (relayer/config).  A pointer that may   *)
(* be nil is a value or Unset; two records of such fields are merged by    *)
(* taking what the second one sets.  The configuration of a chain keeps    *)
(* the id, the switch, the periods and sizes (chain), and the nodes.       *)
(*                                                                         *)
(* Nothing validates the periods.  What they do to the loops is left out:  *)
(* a reap interval of zero makes time.NewTicker panic, and the poll period *)
(* of the confirm loop is cut to whole seconds.                            *)
(***************************************************************************)
EXTENDS Integers, Sequences

CONSTANTS Unset,     \* a nil pointer
          ChainIDs,  \* what may be given as a chain id, the empty string too
          Names,     \* node names, the empty string too
          URLs,
          Settings,  \* the values of periods and sizes
          ChainIdNum \* the number of a chain id, Unset when it has none

\* The fields of ChainConfig.
ChainFields ==
    {"BalancePollPeriod", "BroadcastChanSize", "ConfirmPollPeriod", "OCR2CachePollPeriod",
     "OCR2CacheTTL", "RetentionPeriod", "ReapInterval"}

Optional(S) == S \cup {Unset}

NodeConfig == [Name : Optional(Names), URL : Optional(URLs), SolidityURL : Optional(URLs)]

TOMLConfig == [ChainID : Optional(ChainIDs), Enabled : Optional(BOOLEAN),
               chain : [ChainFields -> Optional(Settings)], Nodes : Seq(NodeConfig)]

ASSUME ConfigAssumption ==
    /\ ChainIdNum \in [ChainIDs -> Optional(Nat)]
    /\ Unset \notin ChainIDs /\ Unset \notin Names /\ Unset \notin URLs
    /\ Unset \notin Settings /\ Unset \notin BOOLEAN /\ Unset \notin Nat
-----------------------------------------------------------------------------
(* Merging *)

\* Mutant: one field is forgotten.
OverlayForgets(c, f) ==
    [x \in DOMAIN c |-> IF x # "SolidityURL" /\ f[x] # Unset THEN f[x] ELSE c[x]]

\* setFromNode, setFromChain: what f sets replaces what c has.
Overlay(c, f) == [x \in DOMAIN c |-> IF f[x] # Unset THEN f[x] ELSE c[x]]

\* The first entry with the key of f, 0 when f has no key or a new one.
IndexFunc(list, f, key) ==
    LET same == {i \in DOMAIN list : list[i][key] # Unset /\ list[i][key] = f[key]}
    IN  IF same = {} THEN 0 ELSE CHOOSE i \in same : \A j \in same : i <= j

\* One round of the loops of both SetFrom: an entry without a counterpart is appended.
SetEntry(list, f, i, merged) ==
    IF i = 0 THEN Append(list, f) ELSE [list EXCEPT ![i] = merged]

SetNode(ns, f) ==
    LET i == IndexFunc(ns, f, "Name") IN SetEntry(ns, f, i, Overlay(ns[i], f))

SetFromNodes(ns, fs) ==
    LET merged[n \in 0..Len(fs)] == IF n = 0 THEN ns ELSE SetNode(merged[n - 1], fs[n])
    IN  merged[Len(fs)]

\* SetFrom of TOMLConfig.
SetFromChain(c, f) ==
    [ChainID |-> IF f.ChainID # Unset THEN f.ChainID ELSE c.ChainID,
     Enabled |-> IF f.Enabled # Unset THEN f.Enabled ELSE c.Enabled,
     chain   |-> Overlay(c.chain, f.chain),
     Nodes   |-> SetFromNodes(c.Nodes, f.Nodes)]

SetChain(cs, f) ==
    LET i == IndexFunc(cs, f, "ChainID") IN SetEntry(cs, f, i, SetFromChain(cs[i], f))

\* SetFrom of TOMLConfigs, once the keys are valid.
SetFromChains(cs, fs) ==
    LET merged[n \in 0..Len(fs)] == IF n = 0 THEN cs ELSE SetChain(merged[n - 1], fs[n])
    IN  merged[Len(fs)]

\* Defaults for what is not set: the periods, the sizes and the switch, no nodes.
SetDefaults(c, defaults) == SetFromChain(defaults, c)
-----------------------------------------------------------------------------
(* Validation *)

\* UniqueStrings: no value of the field but Unset occurs twice.
Unique(list, x) ==
    \A i, j \in DOMAIN list : i # j /\ list[i][x] # Unset => list[i][x] # list[j][x]

\* The same for the nodes of all chains.
UniqueInNodes(cs, x) ==
    \A c, d \in DOMAIN cs : \A i \in DOMAIN cs[c].Nodes, j \in DOMAIN cs[d].Nodes :
        (c # d \/ i # j) /\ cs[c].Nodes[i][x] # Unset => cs[c].Nodes[i][x] # cs[d].Nodes[j][x]

\* Mutant: the names of the nodes are not looked at.
validateKeysOfChains(cs) == Unique(cs, "ChainID") /\ UniqueInNodes(cs, "URL")

validateKeys(cs) ==
    /\ Unique(cs, "ChainID")
    /\ UniqueInNodes(cs, "Name")
    /\ UniqueInNodes(cs, "URL")

\* Mutant: only the URL of the full node is required.
ValidateFullNode(n) == n.Name \notin {Unset, ""} /\ n.URL # Unset

ValidateNode(n) ==
    /\ n.Name \notin {Unset, ""}
    /\ n.URL # Unset
    /\ n.SolidityURL # Unset

ValidateConfig(c) ==
    /\ c.ChainID \notin {Unset, ""}
    /\ c.Nodes # <<>>
    /\ \A i \in DOMAIN c.Nodes : ValidateNode(c.Nodes[i])

IsEnabled(c) == c.Enabled \in {Unset, TRUE}

Entries(list) == {list[i] : i \in DOMAIN list}

\* The nodes that may be picked.
SelectRandom(ns) == Entries(ns)
=============================================================================
