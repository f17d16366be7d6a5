----------------------------- MODULE PortCaches -----------------------------
(***************************************************************************)
(* The ports of the plugin as the component caches them                    *)
(* (ct_component_caches.cpp), and their choice by the host                 *)
(* (set_bus_arrangements in ct_audio_processor.cpp).                       *)
(*                                                                         *)
(* A plugin has one layout of ports, or several configurations to select.  *)
(* What a configuration is like shows only when it is selected: the        *)
(* component selects one after another when it is created and keeps what   *)
(* it read.  From then on the plugin's selection and the cached ports must *)
(* go together.                                                            *)
(***************************************************************************)
EXTENDS ChannelMapping, SequencesExt

CONSTANT Plugins   \* what plugins may be: see Plugin

\* A port: channels, the map of the surround extension (empty: none), and
\* whether it is flagged as fit for 64-bit processing.
Port == [count : Nat, map : Seq(Nat), wide : BOOLEAN]

\* A configuration: its ports, and the numbers of ports it announces.
Layout == [inputs : Seq(Port), outputs : Seq(Port), told : Nat \X Nat]

\* A plugin: whether it has the extension for configurations, and these.
Plugin == [extension : BOOLEAN, layouts : Seq(Layout) \ {<< >>}]

ASSUME PluginsAssumption ==
  \A p \in Plugins : p \in Plugin /\ (~p.extension => Len(p.layouts) = 1)

MapCapacity == 4      \* sizeof(ct_port_max_channels)

VARIABLES
  pc,          \* where the component is
  plugin,      \* the plugin
  selected,    \* the configuration that the plugin has now
  configs,     \* m_audio_ports_config: the arrangements of each that is kept
  ports,       \* m_audio_ports
  remappers,   \* the remapper of each cached port
  accepted     \* the arrangements that the host was last given or granted

cache == <<plugin, selected, configs, ports, remappers, accepted>>

NoPorts == [inputs |-> << >>, outputs |-> << >>]

CachesInit ==
  /\ pc = "created"
  /\ plugin \in Plugins /\ selected \in DOMAIN plugin.layouts
  /\ configs = << >>
  /\ ports = NoPorts /\ remappers = NoPorts /\ accepted = NoPorts

-----------------------------------------------------------------------------
(***************************************************************************)
(* Reading ports.                                                          *)
(***************************************************************************)
\* The map that the surround extension stores: as much as it is told fits.
StoredMap(port) ==
  SubSeq(port.map, 1, IF Len(port.map) < MapCapacity THEN Len(port.map) ELSE MapCapacity)

\* What configure makes of a port.
MappingsOf(port) == Configure(port.count, StoredMap(port))

RemappersOf(list) ==
  {r \in [DOMAIN list -> UNION {MappingsOf(list[p]) : p \in DOMAIN list}] :
     \A p \in DOMAIN list : r[p] \in MappingsOf(list[p])}

AllValid(r) == \A p \in DOMAIN r : r[p].valid

\* What get_bus_arrangement answers for each bus of a list.
Arrangements(r) == [p \in DOMAIN r |-> r[p].arrangement]

\* m_can_do_64bit: every port is flagged for it.
CanDo64 == \A p \in Range(ports.inputs) \cup Range(ports.outputs) : p.wide

\* cache_audio_ports, when the plugin has configuration n.  An invalid mapping
\* is fatal.
ReadPorts(n) ==
  \E i \in RemappersOf(plugin.layouts[n].inputs), o \in RemappersOf(plugin.layouts[n].outputs) :
    /\ ports' = [inputs |-> plugin.layouts[n].inputs, outputs |-> plugin.layouts[n].outputs]
    /\ remappers' = [inputs |-> i, outputs |-> o]
    /\ pc' = IF AllValid(i) /\ AllValid(o) THEN "inactive" ELSE "fatal"

-----------------------------------------------------------------------------
(***************************************************************************)
(* The component's creation: all caches are dirty and are updated.         *)
(***************************************************************************)
\* The host may ask for the arrangements of a new component at any time.
Tell ==
  accepted' = [inputs |-> Arrangements(remappers'.inputs),
               outputs |-> Arrangements(remappers'.outputs)]

\* The arrangements of a list, which do not depend on the order of a sort.
ArrangementsOf(list) ==
  [p \in DOMAIN list |-> (CHOOSE m \in MappingsOf(list[p]) : TRUE).arrangement]

ValidList(list) == \A p \in DOMAIN list : Invalid \notin MappingsOf(list[p])

Config(n) ==
  [inputs |-> ArrangementsOf(plugin.layouts[n].inputs),
   outputs |-> ArrangementsOf(plugin.layouts[n].outputs)]

\* The configurations that are kept: the plugin tells and selects them, and
\* all their mappings are valid.
Kept(refused) ==
  {n \in DOMAIN plugin.layouts \ refused :
     ValidList(plugin.layouts[n].inputs) /\ ValidList(plugin.layouts[n].outputs)}

Inconsistent(n) ==
  plugin.layouts[n].told # <<Len(plugin.layouts[n].inputs), Len(plugin.layouts[n].outputs)>>

IsFirst(n, set) == n \in set /\ \A other \in set : n <= other

\* With the extension: all configurations are selected and read, and then the
\* first one that works is selected.  It is fatal when a configuration has
\* other ports than it announced, when none works, or when the plugin refuses
\* the one that worked.
cache_audio_port_configs ==
  /\ pc = "created" /\ plugin.extension
  /\ \/ \E refused \in SUBSET DOMAIN plugin.layouts, first \in DOMAIN plugin.layouts :
          /\ \A n \in DOMAIN plugin.layouts \ refused : ~Inconsistent(n)
          /\ IsFirst(first, Kept(refused))
          /\ configs' = [n \in Kept(refused) |-> Config(n)]
          /\ selected' = first
          /\ ReadPorts(first)
          /\ Tell
     \/ pc' = "fatal" /\ UNCHANGED <<selected, configs, ports, remappers, accepted>>
  /\ UNCHANGED plugin

\* Without it: the ports are what they are.
cache_audio_ports ==
  /\ pc = "created" /\ ~plugin.extension
  /\ ReadPorts(selected)
  /\ Tell
  /\ UNCHANGED <<plugin, selected, configs>>

-----------------------------------------------------------------------------
(***************************************************************************)
(* The host's choice.                                                      *)
(***************************************************************************)
\* Mutant: the outputs are not compared.
Matches_InputsOnly(config, asked) == config.inputs = asked.inputs

Matches(config, asked) == config.inputs = asked.inputs /\ config.outputs = asked.outputs

Matching(asked) == {n \in DOMAIN configs : Matches(configs[n], asked)}

\* Mutant: the caches are not invalidated.
set_bus_arrangements_Stale(asked) ==
  /\ pc = "inactive"
  /\ \E n \in DOMAIN configs :
       IsFirst(n, Matching(asked)) /\ selected' = n /\ accepted' = asked
  /\ UNCHANGED <<plugin, configs, ports, remappers, pc>>

\* The first configuration with these arrangements is selected, and the ports
\* are read again.  Nothing changes, and the answer is V3_FALSE, when there is
\* none, or when the plugin refuses it.
set_bus_arrangements(asked) ==
  /\ pc = "inactive"
  /\ \E n \in DOMAIN configs :
       /\ IsFirst(n, Matching(asked))
       /\ selected' = n
       /\ ReadPorts(n)
       /\ accepted' = asked
  /\ UNCHANGED <<plugin, configs>>

\* What hosts ask for: any inputs and outputs that the plugin has, together or
\* not.
Requests ==
  [inputs : {ArrangementsOf(l.inputs) : l \in Range(plugin.layouts)},
   outputs : {ArrangementsOf(l.outputs) : l \in Range(plugin.layouts)}]

CachesNext ==
  \/ cache_audio_port_configs \/ cache_audio_ports
  \/ \E asked \in Requests : set_bus_arrangements(asked)

CachesSpec == CachesInit /\ [][CachesNext]_<<pc, cache>>
-----------------------------------------------------------------------------
(***************************************************************************)
(* Properties.                                                             *)
(***************************************************************************)
\* The cached ports are those of the configuration that the plugin has now:
\* over the scan of all configurations and over all that the host asks for,
\* refused or not (m_audio_ports against the plugin's selection).
CacheTrue ==
  pc \notin {"created", "fatal"} =>
    /\ ports.inputs = plugin.layouts[selected].inputs
    /\ ports.outputs = plugin.layouts[selected].outputs

\* A host that set_bus_arrangements told V3_OK has exactly the arrangements
\* it asked for, on all buses of both directions; one that was refused, or did
\* not ask, has those it had (the text of set_bus_arrangements: "make the
\* matching config active").
ArrangementHonoured ==
  pc \notin {"created", "fatal"} =>
    /\ Arrangements(remappers.inputs) = accepted.inputs
    /\ Arrangements(remappers.outputs) = accepted.outputs

\* The program never ends in set_bus_arrangements: whatever configuration the
\* host may choose has valid mappings (cache_audio_port_configs: "ignore this
\* port config").
ChoiceNotFatal == [][pc' = "fatal" => pc = "created"]_<<pc, cache>>
=============================================================================
