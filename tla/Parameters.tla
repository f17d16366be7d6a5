----------------------------- MODULE Parameters -----------------------------
(***************************************************************************)
(* Parameters as the host sees them: the list that ct_caches reads from    *)
(* the plugin, its index by identifier, the values that the edit           *)
(* controller shows, the units that it makes of the parameters' module     *)
(* paths (ct_unit_description), and the states that go through the host's  *)
(* streams (ct_stream.cpp).                                                *)
(*                                                                         *)
(* All of it is the host's main thread; only the plugin's own values move  *)
(* at any time.  The loops of the code, over the parameters of the list,   *)
(* over the components of a path and over the reads of a state, take one   *)
(* step for each turn.                                                     *)
(*                                                                         *)
(* Normalised values are whole numbers of Scale-ths, and plain ones are    *)
(* counted in the same unit, so that the arithmetic of the conversions is  *)
(* exact where it is exact in the code but for rounding.                   *)
(***************************************************************************)
EXTENDS Integers, Sequences, FiniteSets, IdMap

CONSTANTS
  Ids,         \* identifiers of parameters
  Info,        \* what the plugin tells of each: min, max, stepped, module
  Lists,       \* the lists of parameters that the plugin may have
  Scale,       \* parts of the normalised range
  Positions,   \* normalised values in use
  ReadSizes,   \* sizes that the plugin asks of a stream, a value being 1 ...
  MaxRead      \* ... and the largest that VST3 can express, INT32_MAX

Names == UNION {{Info[id].module[k] : k \in DOMAIN Info[id].module} : id \in Ids}

ASSUME ParametersAssumption ==
  /\ Ids \subseteq Nat
  /\ Info \in [Ids -> [min : Int, max : Int, stepped : BOOLEAN, module : Seq(Names)]]
  /\ \A id \in Ids : Info[id].min <= Info[id].max
  /\ Lists \subseteq Seq(Ids)
  /\ \A l \in Lists : \A i, j \in DOMAIN l : l[i] = l[j] => i = j
  /\ Scale \in Nat \ {0}
  /\ Positions \subseteq 0 .. Scale
  /\ ReadSizes \subseteq Nat /\ MaxRead \in Nat

VARIABLES
  list,                \* the plugin's list of parameters
  actual,              \* the plugin's values
  constructed,         \* the host has the component
  pc,                  \* the loop that runs, "idle" when the host does
  at,                  \* where it is
  m_params,            \* ct_caches::params_t, the identifiers of m_params
  m_param_idx_by_id,   \* ... and their index
  m_param_value_cache, \* the controller's values
  m_units,             \* ct_unit_description: parent and path of each unit
  m_by_path,           \* ... units by path
  m_selected_unit,
  asked,               \* the parameters that get_parameter_info is about, one or none
  unit_id,             \* the unit that get_or_create_module_unit has come to
  told,                \* the unit of a parameter, as the host was told
  saved,               \* the state that the host has
  restored             \* how far it is in loading it, "no" if anything else changed

plugin == <<list, actual>>
cache  == <<m_params, m_param_idx_by_id>>
units  == <<m_units, m_by_path, m_selected_unit, asked, unit_id, told>>
state  == <<saved, restored>>
vars   == <<plugin, constructed, pc, at, cache, m_param_value_cache, units, state>>

Elements(s) == {s[i] : i \in DOMAIN s}
Smaller(a, b) == IF a < b THEN a ELSE b

-----------------------------------------------------------------------------
(***************************************************************************)
(* Conversions.                                                            *)
(***************************************************************************)
\* Mutant: the last step has no part of its own.
normalize_Steps(id, plain) ==
  LET p == Info[id] IN
  IF p.max = p.min THEN p.min * Scale
  ELSE (plain - p.min * Scale) \div (p.max - p.min + 1)

\* A constant parameter is normalised to its value.
normalize(id, plain) ==
  LET p == Info[id] IN
  IF p.max = p.min THEN p.min * Scale
  ELSE (plain - p.min * Scale) \div (p.max - p.min)

\* Mutant: as many parts as intervals between steps.
denormalize_Intervals(id, n) ==
  LET p     == Info[id]
      range == p.max - p.min
  IN IF p.stepped
     THEN (p.min + Smaller(range, (n * range) \div Scale)) * Scale
     ELSE p.min * Scale + n * range

\* A step has an equal part of the normalised range, the last its end as well.
denormalize(id, n) ==
  LET p     == Info[id]
      range == p.max - p.min
  IN IF p.stepped
     THEN (p.min + Smaller(range, (n * (range + 1)) \div Scale)) * Scale
     ELSE p.min * Scale + n * range

PlainValues(id) == {denormalize(id, n) : n \in Positions}

\* get_value, and the 0 in place of a value that the plugin does not tell
get_value(id) == IF id \in Elements(list) THEN actual[id] ELSE 0

Root == [parent |-> -1, path |-> << >>]
NoUnit == -1

Init ==
  /\ list \in Lists
  /\ \E n \in Positions : actual = [id \in Ids |-> denormalize(id, n)]
  /\ constructed = FALSE
  /\ pc = "caching" /\ at = 1
  /\ m_params = << >> /\ m_param_idx_by_id = Cleared /\ m_param_value_cache = << >>
  /\ m_units = <<Root>> /\ m_by_path = [path \in {} |-> 0] /\ m_selected_unit = 0
  /\ asked = << >> /\ unit_id = 0
  /\ told = [id \in Ids |-> NoUnit]
  /\ saved = << >> /\ restored = "no"

-----------------------------------------------------------------------------
(***************************************************************************)
(* The list of parameters, read once while the component is constructed,   *)
(* and the values, read again and again.                                   *)
(***************************************************************************)
\* m_param_value_cache.resize(count), and the loop from its start
BeginSync ==
  /\ pc' = "syncing" /\ at' = 1
  /\ m_param_value_cache' = [i \in 1..Len(m_params) |->
       IF i \in DOMAIN m_param_value_cache THEN m_param_value_cache[i] ELSE 0]

\* get_info, push_back and set, for one parameter
cache_params ==
  /\ pc = "caching" /\ at <= Len(list)
  /\ m_params' = Append(m_params, list[at])
  /\ m_param_idx_by_id' = Set(m_param_idx_by_id, list[at], Len(m_params))
  /\ at' = at + 1
  /\ UNCHANGED <<plugin, constructed, pc, m_param_value_cache, units, state>>

\* on_cache_update
cache_params_done ==
  /\ pc = "caching" /\ at > Len(list)
  /\ BeginSync
  /\ UNCHANGED <<plugin, constructed, cache, units, state>>

\* sync_parameter_values_to_controller_from_plugin, one value
sync ==
  /\ pc = "syncing" /\ at <= Len(m_params)
  /\ m_param_value_cache' = [m_param_value_cache EXCEPT ![at] = get_value(m_params[at])]
  /\ at' = at + 1
  /\ UNCHANGED <<plugin, constructed, pc, cache, units, state>>

sync_done ==
  /\ pc = "syncing" /\ at > Len(m_params)
  /\ pc' = "idle" /\ at' = 1 /\ constructed' = TRUE
  /\ restored' = IF restored = "syncing" THEN "yes" ELSE restored
  /\ UNCHANGED <<plugin, cache, m_param_value_cache, units, saved>>

\* params.rescan of values, of a component that has a handler
rescan ==
  /\ pc = "idle"
  /\ BeginSync
  /\ UNCHANGED <<plugin, constructed, cache, units, state>>

-----------------------------------------------------------------------------
(***************************************************************************)
(* Values.                                                                 *)
(***************************************************************************)
normalised_parameter_to_plain(id, n) ==
  IF Found(m_param_idx_by_id, id) THEN denormalize(id, n) ELSE 0
plain_parameter_to_normalised(id, plain) ==
  IF Found(m_param_idx_by_id, id) THEN normalize(id, plain) ELSE 0

\* The texts of values are the plugin's: one text stands for one plain value.
get_parameter_string_for_value(id, n) == <<id, normalised_parameter_to_plain(id, n)>>
get_parameter_value_for_string(text)  == plain_parameter_to_normalised(text[1], text[2])

get_parameter_normalised(id) ==
  IF Found(m_param_idx_by_id, id)
  THEN normalize(id, m_param_value_cache[At(m_param_idx_by_id, id) + 1]) ELSE 0

\* An unknown identifier is refused.
set_parameter_normalised(id, n) ==
  /\ pc = "idle" /\ Found(m_param_idx_by_id, id)
  /\ m_param_value_cache' =
       [m_param_value_cache EXCEPT ![At(m_param_idx_by_id, id) + 1] = denormalize(id, n)]
  /\ restored' = "no"
  /\ UNCHANGED <<plugin, constructed, pc, at, cache, units, saved>>

\* The plugin's own changes: of a value at any time, of the list by the main thread.
PluginMoves(id, plain) ==
  /\ constructed
  /\ actual' = [actual EXCEPT ![id] = plain]
  /\ restored' = "no"
  /\ UNCHANGED <<list, constructed, pc, at, cache, m_param_value_cache, units, saved>>

PluginRelists(l) ==
  /\ pc = "idle"
  /\ list' = l
  /\ restored' = "no"
  /\ UNCHANGED <<actual, constructed, pc, at, cache, m_param_value_cache, units, saved>>

-----------------------------------------------------------------------------
(***************************************************************************)
(* Units.  A path is the sequence of components that the code isolates     *)
(* between the slashes.                                                    *)
(***************************************************************************)
get_parameter_info(i) ==
  /\ pc = "idle" /\ i < Len(m_params)
  /\ asked' = <<m_params[i + 1]>>
  /\ pc' = "walking" /\ at' = 1 /\ unit_id' = 0
  /\ UNCHANGED <<plugin, constructed, cache, m_param_value_cache, m_units, m_by_path,
                 m_selected_unit, told, state>>

Walked == Info[asked[1]].module

\* Mutant: every unit is a child of the root.
NewUnit_OfRoot(path) ==
  /\ unit_id' = Len(m_units)
  /\ m_units' = Append(m_units, [parent |-> 0, path |-> path])
  /\ m_by_path' = Put(m_by_path, path, Len(m_units))

NewUnit(path) ==
  /\ unit_id' = Len(m_units)
  /\ m_units' = Append(m_units, [parent |-> unit_id, path |-> path])
  /\ m_by_path' = Put(m_by_path, path, Len(m_units))

\* get_or_create_module_unit, one component
NextComponent ==
  /\ pc = "walking" /\ at <= Len(Walked)
  /\ LET path == SubSeq(Walked, 1, at) IN
       IF path \in DOMAIN m_by_path
       THEN unit_id' = m_by_path[path] /\ UNCHANGED <<m_units, m_by_path>>
       ELSE NewUnit(path)
  /\ at' = at + 1
  /\ UNCHANGED <<plugin, constructed, pc, cache, m_param_value_cache, m_selected_unit, asked,
                 told, state>>

WalkDone ==
  /\ pc = "walking" /\ at > Len(Walked)
  /\ told' = [told EXCEPT ![asked[1]] = unit_id]
  /\ pc' = "idle" /\ at' = 1 /\ asked' = << >> /\ unit_id' = 0
  /\ UNCHANGED <<plugin, constructed, cache, m_param_value_cache, m_units, m_by_path,
                 m_selected_unit, state>>

\* The identifier is converted to unsigned, so that -1 is beyond all units.
select_unit(id) ==
  /\ pc = "idle" /\ id \in 0 .. Len(m_units) - 1
  /\ m_selected_unit' = id
  /\ UNCHANGED <<plugin, constructed, pc, at, cache, m_param_value_cache, m_units, m_by_path,
                 asked, unit_id, told, state>>

-----------------------------------------------------------------------------
(***************************************************************************)
(* States.  The plugin writes and reads its values in blocks of any size,  *)
(* and the host's stream may take or give less, or fail.                   *)
(***************************************************************************)
\* What read and write answer: the count, or -1 for a failure.
StreamAnswers(size, left) ==
  {-1} \cup (IF size > MaxRead THEN {} ELSE 0 .. Smaller(size, left))

get_state ==
  /\ pc = "idle"
  /\ pc' = "saving" /\ at' = 1
  /\ saved' = << >> /\ restored' = "no"
  /\ UNCHANGED <<plugin, constructed, cache, m_param_value_cache, units>>

\* A state whose writing failed is given up by the host.
Save ==
  /\ pc = "saving" /\ at <= Len(list)
  /\ \E size \in ReadSizes : \E count \in StreamAnswers(size, Len(list) - at + 1) :
       IF count = -1 THEN pc' = "idle" /\ at' = 1 /\ saved' = << >>
       ELSE /\ saved' = saved \o [i \in 1..count |->
                          [id |-> list[at + i - 1], value |-> actual[list[at + i - 1]]]]
            /\ at' = at + count
            /\ UNCHANGED pc
  /\ UNCHANGED <<plugin, constructed, cache, m_param_value_cache, units, restored>>

SaveDone ==
  /\ pc = "saving" /\ at > Len(list)
  /\ pc' = "idle" /\ at' = 1
  /\ UNCHANGED <<plugin, constructed, cache, m_param_value_cache, units, state>>

set_state ==
  /\ pc = "idle" /\ saved # << >>
  /\ pc' = "loading" /\ at' = 1 /\ restored' = "loading"
  /\ UNCHANGED <<plugin, constructed, cache, m_param_value_cache, units, saved>>

\* The plugin has taken what it read when a later read fails.
Load ==
  /\ pc = "loading" /\ at <= Len(saved)
  /\ \E size \in ReadSizes : \E count \in StreamAnswers(size, Len(saved) - at + 1) :
       IF count <= 0 THEN pc' = "idle" /\ at' = 1 /\ restored' = "no" /\ UNCHANGED actual
       ELSE /\ actual' = [id \in Ids |->
                 IF \E i \in at .. at + count - 1 : saved[i].id = id
                 THEN saved[CHOOSE i \in at .. at + count - 1 : saved[i].id = id].value
                 ELSE actual[id]]
            /\ at' = at + count
            /\ UNCHANGED <<pc, restored>>
  /\ UNCHANGED <<list, constructed, cache, m_param_value_cache, units, saved>>

LoadDone ==
  /\ pc = "loading" /\ at > Len(saved)
  /\ pc' = "idle" /\ at' = 1
  /\ restored' = IF restored = "loading" THEN "loaded" ELSE restored
  /\ UNCHANGED <<plugin, constructed, cache, m_param_value_cache, units, saved>>

\* Mutant: nothing to do, as in set_component_state.
controller_set_state_Nothing ==
  /\ pc = "idle"
  /\ restored' = IF restored = "loaded" THEN "yes" ELSE restored
  /\ UNCHANGED <<plugin, constructed, pc, at, cache, m_param_value_cache, units, saved>>

\* ct_edit_controller::set_state, after the component's
controller_set_state ==
  /\ pc = "idle"
  /\ BeginSync
  /\ restored' = IF restored = "loaded" THEN "syncing" ELSE restored
  /\ UNCHANGED <<plugin, constructed, cache, units, saved>>

-----------------------------------------------------------------------------
Caching == cache_params \/ cache_params_done \/ sync \/ sync_done \/ rescan
Values ==
  \/ \E id \in Ids, n \in Positions : set_parameter_normalised(id, n)
  \/ \E id \in Ids : \E plain \in PlainValues(id) : PluginMoves(id, plain)
  \/ \E l \in Lists : PluginRelists(l)
Units ==
  \/ \E i \in 0 .. Len(m_params) - 1 : get_parameter_info(i)
  \/ NextComponent \/ WalkDone
  \/ \E id \in 0 .. Len(m_units) - 1 : select_unit(id)
States ==
  \/ get_state \/ Save \/ SaveDone
  \/ set_state \/ Load \/ LoadDone \/ controller_set_state

Next == Caching \/ Values \/ Units \/ States

Spec == Init /\ [][Next]_vars
-----------------------------------------------------------------------------
(***************************************************************************)
(* Properties.                                                             *)
(***************************************************************************)
\* The types of the state.
Paths == Seq(Names)

TypeOK ==
  /\ list \in Lists /\ actual \in [Ids -> Int]
  /\ constructed \in BOOLEAN
  /\ pc \in {"caching", "syncing", "idle", "walking", "saving", "loading"}
  /\ at \in Nat \ {0}
  /\ m_params \in Seq(Ids) /\ IsMap(m_param_idx_by_id)
  /\ m_param_value_cache \in Seq(Int)
  /\ m_units \in Seq([parent : Int, path : Paths])
  /\ DOMAIN m_by_path \subseteq Paths
  /\ m_selected_unit \in Nat /\ unit_id \in Nat
  /\ asked \in Seq(Ids) /\ told \in [Ids -> Int]
  /\ saved \in Seq([id : Ids, value : Int])
  /\ restored \in {"no", "loading", "loaded", "syncing", "yes"}

\* An identifier is found exactly when it is in the list, at its place there,
\* and there is a value at this place: the assertions of
\* get_parameter_normalised and set_parameter_normalised never fail.
IndexFits ==
  constructed =>
    \A id \in Ids :
      /\ Found(m_param_idx_by_id, id) <=> id \in Elements(m_params)
      /\ Found(m_param_idx_by_id, id) =>
           LET index == At(m_param_idx_by_id, id) IN
           index < Len(m_param_value_cache) /\ m_params[index + 1] = id

\* Units form a tree with the root as unit 0: a unit's number is its place in
\* the list, its parent has a smaller number and the path without the last
\* component, and no path has two units (get_or_create_module_unit).
UnitsTree ==
  /\ m_units[1] = Root
  /\ \A i \in 2 .. Len(m_units) :
       LET unit == m_units[i] IN
       /\ unit.path # << >>
       /\ unit.parent \in 0 .. i - 2
       /\ m_units[unit.parent + 1].path = SubSeq(unit.path, 1, Len(unit.path) - 1)
  /\ \A i, j \in DOMAIN m_units : m_units[i].path = m_units[j].path => i = j

\* The unit that the host was told for a parameter is that of the parameter's
\* module, however many units were made since and in whatever order the host
\* asked; and the selected unit is there.
UnitsTold ==
  /\ \A id \in Ids : told[id] # NoUnit =>
       /\ told[id] \in 0 .. Len(m_units) - 1
       /\ m_units[told[id] + 1].path = Info[id].module
  /\ m_selected_unit < Len(m_units)

UnitsTrue == UnitsTree /\ UnitsTold

\* The text of a value that the controller shows, given back by the host, is
\* the value shown: to and from text and position nothing is lost.
TextsTrue ==
  pc = "idle" =>
    \A id \in Ids :
      LET n == get_parameter_normalised(id) IN
      Found(m_param_idx_by_id, id) /\ n \in 0 .. Scale =>
        get_parameter_value_for_string(get_parameter_string_for_value(id, n)) = n

\* When loading a state succeeded, and the controller was told to follow, it
\* shows the values of this state, whatever it showed before and wherever
\* earlier attempts failed (set_state of component and of controller).
StateRestored ==
  restored = "yes" =>
    \A i \in DOMAIN saved :
      LET id == saved[i].id IN
      id \in Elements(list) /\ Found(m_param_idx_by_id, id) =>
        get_parameter_normalised(id) = normalize(id, saved[i].value)

\* The controller implements a store with one value for each parameter, in
\* which the host finds what it set, to the nearest step: hosts rely on
\* set_parameter_normalised followed by get_parameter_normalised (the note in
\* set_parameter_normalised).  Normalised 0 to 1 is shared out among the steps.
Nearest ==
  [id \in Ids |-> [n \in 0..Scale |->
     LET range == Info[id].max - Info[id].min IN
     IF range = 0 THEN Info[id].min * Scale
     ELSE IF ~Info[id].stepped THEN n
     ELSE LET step == CHOOSE j \in 0..range :
                        /\ j * Scale <= n * (range + 1)
                        /\ n * (range + 1) < (j + 1) * Scale \/ j = range
          IN (step * Scale) \div range]]

Told(id) == normalize(id, get_value(id))

Shown(id) ==
  IF ~constructed THEN Told(id)
  ELSE IF Found(m_param_idx_by_id, id) THEN get_parameter_normalised(id)
  ELSE normalize(id, 0)

Store == INSTANCE ParameterStore WITH
  shown  <- [id \in Ids |-> Shown(id)],
  actual <- [id \in Ids |-> Told(id)]

ImplementsStore == Store!Spec
=============================================================================
