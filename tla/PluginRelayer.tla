--------------------------- MODULE PluginRelayer ---------------------------
(***************************************************************************)
(* From the configuration to a running relayer: the files that are merged  *)
(* into the configuration of the chains (relayer/config), NewRelayer of    *)
(* the plugin (relayer/cmd/chainlink-tron), which decodes, validates and   *)
(* completes the configuration of one chain, and NewRelayer of             *)
(* relayer/plugin, which parses the chain id, picks a node and puts the    *)
(* services of TronRelayer together.                                       *)
(*                                                                         *)
(* A call that returns an error may be repeated.  Before the chain id is   *)
(* parsed the plugin has started an emitter of its configuration, which    *)
(* lives until the plugin is closed.                                       *)
(***************************************************************************)
EXTENDS TronRelayer, TomlConfig

CONSTANTS Deployments,  \* the files, in order, and the workload of the relayer
          Defaults,     \* the defaults of docs.toml
          MaxEmitters   \* bound of the calls that start an emitter

ASSUME PluginAssumption ==
    /\ \A d \in Deployments : d.workload \in Workloads /\ d.files \in Seq(Seq(TOMLConfig))
    /\ Defaults \in TOMLConfig
    /\ MaxEmitters \in Nat

\* docs.toml gives every setting a default, and arrays of tables have none.
ASSUME DefaultsAssumption ==
    Defaults.Nodes = <<>> /\ \A x \in ChainFields : Defaults.chain[x] # Unset

VARIABLES files,     \* the files that are still to be merged
          accepted,  \* history: the files that were merged
          cs,        \* the configuration of the chains
          emitters,  \* the emitters started
          cfg,       \* the configuration of the relayer, Unset before it exists
          node       \* the node that the relayer talks to

pluginVars == <<files, accepted, cs, emitters, cfg, node>>
allVars == <<vars, pluginVars>>

PluginInit ==
    /\ \E d \in Deployments : RelayerInit(d.workload) /\ files = d.files
    /\ accepted = <<>>
    /\ cs = <<>>
    /\ emitters = 0
    /\ cfg = Unset
    /\ node = Unset
-----------------------------------------------------------------------------
\* The next file is merged, or refused as a whole when its keys are not unique.
SetFrom ==
    /\ files # <<>>
    /\ files' = Tail(files)
    /\ IF validateKeys(Head(files))
       THEN /\ cs' = SetFromChains(cs, Head(files))
            /\ accepted' = Append(accepted, Head(files))
       ELSE UNCHANGED <<cs, accepted>>
    /\ UNCHANGED <<vars, emitters, cfg, node>>

\* NewRelayer of relayer/plugin: an error for a chain id without a number.
BuildRelayer(full) ==
    IF ChainIdNum[full.ChainID] = Unset \/ SelectRandom(full.Nodes) = {}
    THEN UNCHANGED <<cfg, node>>
    ELSE cfg' = full /\ node' \in SelectRandom(full.Nodes)

\* The plugin is given the configuration of a chain that it accepts.
NewRelayer(c) ==
    /\ files = <<>>
    /\ cfg = Unset
    /\ emitters < MaxEmitters
    /\ ValidateConfig(c)
    /\ IsEnabled(c)
    /\ emitters' = emitters + 1
    /\ BuildRelayer(SetDefaults(c, Defaults))
    /\ UNCHANGED <<vars, files, accepted, cs>>

Relay ==
    /\ cfg # Unset
    /\ Next
    /\ UNCHANGED pluginVars

PluginNext ==
    \/ SetFrom
    \/ \E i \in DOMAIN cs : NewRelayer(cs[i])
    \/ Relay

PluginSpec == PluginInit /\ [][PluginNext]_allVars
PluginFairSpec == PluginSpec /\ Fairness
-----------------------------------------------------------------------------
(* Properties *)

\* However many files are merged, no chain id occurs twice, and no name twice among the
\* nodes of a chain: a later file changes an entry instead of hiding behind it.
KeysUnique == Unique(cs, "ChainID") /\ \A c \in Entries(cs) : Unique(c.Nodes, "Name")

\* What each of the accepted files says of a chain, and of a node of it.
OfChain(id) ==
    [a \in DOMAIN accepted |-> {f \in Entries(accepted[a]) : f.ChainID = id}]
OfNode(id, name) ==
    [a \in DOMAIN accepted |->
        {n \in UNION {Entries(f.Nodes) : f \in OfChain(id)[a]} : n.Name = name}]

\* v is what the last file to give a value gave; given has the values of each file.
LastGiven(v, given) ==
    \/ v = Unset /\ \A a \in DOMAIN given : given[a] \subseteq {Unset}
    \/ /\ v # Unset
       /\ \E a \in DOMAIN given :
             v \in given[a] /\ \A b \in DOMAIN given : b > a => given[b] \subseteq {Unset}

\* The settings of a chain, or of a node, are those that were given last.
SettingsWin(c) ==
    LET said == OfChain(c.ChainID)
    IN  /\ LastGiven(c.Enabled, [a \in DOMAIN said |-> {f.Enabled : f \in said[a]}])
        /\ \A x \in ChainFields :
              LastGiven(c.chain[x], [a \in DOMAIN said |-> {f.chain[x] : f \in said[a]}])

NodeWins(id, n) ==
    LET said == OfNode(id, n.Name)
    IN  \A x \in {"URL", "SolidityURL"} :
            LastGiven(n[x], [a \in DOMAIN said |-> {m[x] : m \in said[a]}])

\* The merged configuration has the chains and the nodes of the accepted files, and each
\* of their fields has the value that the last file to set it gave it.
LastFileWins ==
    /\ \A a \in DOMAIN accepted : \A f \in Entries(accepted[a]) :
          \E c \in Entries(cs) :
             /\ c.ChainID = f.ChainID
             /\ \A m \in Entries(f.Nodes) : \E n \in Entries(c.Nodes) : n.Name = m.Name
    /\ \A c \in Entries(cs) : c.ChainID # Unset =>
          SettingsWin(c) /\ \A n \in Entries(c.Nodes) : n.Name # Unset => NodeWins(c.ChainID, n)

\* A relayer exists only for a chain that was configured, and dereferences nothing that
\* is not set: its chain id has a number, its periods and sizes have values, and its two
\* URLs are those of one configured node, whatever the defaults were merged with.
BuiltFromConfig ==
    cfg # Unset =>
        /\ ChainIdNum[cfg.ChainID] # Unset
        /\ \A x \in ChainFields : cfg.chain[x] # Unset
        /\ \E c \in Entries(cs) :
              /\ c.ChainID = cfg.ChainID /\ c.Enabled # FALSE
              /\ \A x \in ChainFields : c.chain[x] # Unset => c.chain[x] = cfg.chain[x]
              /\ node.URL # Unset /\ node.SolidityURL # Unset
              /\ \E n \in Entries(c.Nodes) : n.URL = node.URL /\ n.SolidityURL = node.SolidityURL
=============================================================================
