-------------------------- MODULE ParametersProofs --------------------------
(***************************************************************************)
(* Proofs about Parameters, for any parameters, lists, module paths and    *)
(* number of low identifiers: the index of the list, the units, what a     *)
(* loaded state leaves, the store that the host sees, and texts.           *)
(***************************************************************************)
EXTENDS Parameters, SequenceTheorems, TLAPS

\* The index has the identifiers of the list, each with its place.
Indexed ==
  /\ \A id \in Ids : Found(m_param_idx_by_id, id) <=> \E i \in DOMAIN m_params : m_params[i] = id
  /\ \A id \in Ids : Found(m_param_idx_by_id, id) =>
       /\ At(m_param_idx_by_id, id) + 1 \in DOMAIN m_params
       /\ m_params[At(m_param_idx_by_id, id) + 1] = id

\* The list is read from its start, once, and there is a value for each of its
\* parameters from then on.
IndexInv ==
  /\ list \in Lists /\ m_params \in Seq(Ids) /\ IsMap(m_param_idx_by_id)
  /\ constructed => pc # "caching"
  /\ ~constructed => pc \in {"caching", "syncing"}
  /\ pc = "caching" =>
       /\ at \in Nat /\ Len(m_params) = at - 1 /\ at <= Len(list) + 1
       /\ \A i \in 1 .. at - 1 : m_params[i] = list[i]
  /\ pc # "caching" =>
       m_param_value_cache = [i \in 1 .. Len(m_params) |-> m_param_value_cache[i]]
  /\ Indexed

LEMMA LenOfFunction ==
  ASSUME NEW n \in Nat, NEW f, f = [i \in 1 .. n |-> f[i]]
  PROVE  Len(f) = n
  <1>1. f \in [1 .. n -> {f[i] : i \in 1 .. n}]
    OBVIOUS
  <1>2. f \in Seq({f[i] : i \in 1 .. n})
    BY <1>1
  <1> QED
    BY <1>1, <1>2

\* set and find of clap_id_map.
LEMMA SetFinds ==
  ASSUME NEW m, IsMap(m), NEW id \in Nat, NEW value \in Nat
  PROVE  /\ IsMap(Set(m, id, value))
         /\ Found(Set(m, id, value), id) /\ At(Set(m, id, value), id) = value
         /\ \A other \in Nat \ {id} :
              /\ Found(Set(m, id, value), other) <=> Found(m, other)
              /\ Found(m, other) => At(Set(m, id, value), other) = At(m, other)
  <1>1. CASE id < NumLowIDs
    <2>1. id \in LowIDs
      BY <1>1, NumLowIDsAssumption DEF LowIDs
    <2>2. /\ Put(m.low, id, value) \in [LowIDs -> Nat]
          /\ Put(m.low, id, value)[id] = value
          /\ \A other \in LowIDs \ {id} : Put(m.low, id, value)[other] = m.low[other]
      BY <2>1 DEF Put, IsMap
    <2>3. Set(m, id, value) =
            [low |-> Put(m.low, id, value), valid |-> m.valid \cup {id}, high |-> m.high]
      BY <1>1 DEF Set
    <2>4. IsMap(Set(m, id, value))
      BY <2>1, <2>2, <2>3 DEF IsMap
    <2>5. \A other \in Nat : other < NumLowIDs => other \in LowIDs
      BY NumLowIDsAssumption DEF LowIDs
    <2> QED
      BY <1>1, <2>2, <2>3, <2>4, <2>5 DEF Found, At
  <1>2. CASE ~(id < NumLowIDs)
    <2>1. id \notin LowIDs
      BY <1>2, NumLowIDsAssumption DEF LowIDs
    <2>2. /\ DOMAIN Put(m.high, id, value) = DOMAIN m.high \cup {id}
          /\ Put(m.high, id, value)[id] = value
          /\ \A other \in DOMAIN m.high \ {id} : Put(m.high, id, value)[other] = m.high[other]
      BY DEF Put
    <2>3. Set(m, id, value) =
            [low |-> m.low, valid |-> m.valid, high |-> Put(m.high, id, value)]
      BY <1>2 DEF Set
    <2>4. IsMap(Set(m, id, value))
      BY <2>1, <2>2, <2>3 DEF IsMap
    <2> QED
      BY <1>2, <2>2, <2>3, <2>4 DEF Found, At
  <1> QED
    BY <1>1, <1>2

LEMMA InitIndex == Init => IndexInv
  <1> SUFFICES ASSUME Init PROVE IndexInv
    OBVIOUS
  <1>1. /\ list \in Lists /\ m_params = << >> /\ pc = "caching" /\ at = 1 /\ ~constructed
        /\ m_param_idx_by_id = Cleared
    BY DEF Init
  <1>2. IsMap(Cleared) /\ \A id \in Ids : ~Found(Cleared, id)
    BY NumLowIDsAssumption, ParametersAssumption DEF IsMap, Found, Cleared, LowIDs
  <1>3. list \in Seq(Ids)
    BY <1>1, ParametersAssumption
  <1> QED
    BY <1>1, <1>2, <1>3 DEF IndexInv, Indexed

\* One more parameter of the list.
LEMMA CacheIndex == IndexInv /\ cache_params => IndexInv'
  <1> SUFFICES ASSUME IndexInv, cache_params PROVE IndexInv'
    OBVIOUS
  <1>0. Ids \subseteq Nat /\ Lists \subseteq Seq(Ids)
        /\ \A l \in Lists : \A i, j \in DOMAIN l : l[i] = l[j] => i = j
    BY ParametersAssumption
  <1>1. /\ pc = "caching" /\ at \in Nat \ {0} /\ at <= Len(list) /\ Len(m_params) = at - 1
        /\ m_params \in Seq(Ids) /\ list \in Lists /\ list \in Seq(Ids)
        /\ \A i \in 1 .. at - 1 : m_params[i] = list[i]
        /\ m_params' = Append(m_params, list[at])
        /\ m_param_idx_by_id' = Set(m_param_idx_by_id, list[at], at - 1)
        /\ at' = at + 1 /\ UNCHANGED <<list, constructed, pc>>
    <2>1. /\ pc = "caching" /\ at \in Nat /\ at <= Len(list) /\ Len(m_params) = at - 1
          /\ m_params \in Seq(Ids) /\ list \in Lists /\ list \in Seq(Ids)
          /\ \A i \in 1 .. at - 1 : m_params[i] = list[i]
      BY <1>0 DEF IndexInv, cache_params
    <2>2. Len(m_params) \in Nat
      BY <2>1
    <2> QED
      BY <2>1, <2>2 DEF cache_params, plugin
  <1>2. list[at] \in Ids /\ list[at] \in Nat /\ at - 1 \in Nat /\ Len(list) \in Nat
    <2>1. Len(list) \in Nat /\ at \in 1 .. Len(list)
      BY <1>1
    <2>2. list[at] \in Ids
      BY <1>1, <2>1
    <2>3. \A id \in Ids : id \in Nat
      BY <1>0
    <2>4. at - 1 \in Nat
      BY <1>1
    <2> QED
      BY <2>1, <2>2, <2>3, <2>4
  <1>3. /\ m_params' \in Seq(Ids) /\ Len(m_params') = at
        /\ \A i \in 1 .. at - 1 : m_params'[i] = m_params[i]
        /\ m_params'[at] = list[at]
    BY <1>1, <1>2
  <1>4. \A i \in 1 .. at - 1 : m_params[i] # list[at]
    BY <1>0, <1>1
  <1>5. IsMap(m_param_idx_by_id)
    BY DEF IndexInv
  <1>6. /\ IsMap(m_param_idx_by_id')
        /\ Found(m_param_idx_by_id', list[at]) /\ At(m_param_idx_by_id', list[at]) = at - 1
        /\ \A other \in Ids \ {list[at]} :
             /\ Found(m_param_idx_by_id', other) <=> Found(m_param_idx_by_id, other)
             /\ Found(m_param_idx_by_id, other) =>
                  At(m_param_idx_by_id', other) = At(m_param_idx_by_id, other)
    <2>1. PICK m : m = m_param_idx_by_id
      OBVIOUS
    <2>2. PICK id, value : id = list[at] /\ value = at - 1
      OBVIOUS
    <2>3. PICK n : n = Set(m, id, value)
      OBVIOUS
    <2>4. IsMap(m)
      BY <1>5, <2>1 DEF IsMap
    <2>5. id \in Nat /\ value \in Nat
      BY <1>2, <2>2
    <2>6. /\ IsMap(n) /\ Found(n, id) /\ At(n, id) = value
          /\ \A other \in Nat \ {id} :
               /\ Found(n, other) <=> Found(m, other)
               /\ Found(m, other) => At(n, other) = At(m, other)
      BY <2>3, <2>4, <2>5, SetFinds
    <2>7. m_param_idx_by_id' = n
      BY <1>1, <2>1, <2>2, <2>3 DEF Set
    <2>8. IsMap(m_param_idx_by_id')
      BY <2>6, <2>7 DEF IsMap
    <2>9. Found(m_param_idx_by_id', list[at]) /\ At(m_param_idx_by_id', list[at]) = at - 1
      BY <2>2, <2>6, <2>7 DEF Found, At
    <2>10. ASSUME NEW other \in Ids \ {list[at]}
           PROVE  /\ Found(m_param_idx_by_id', other) <=> Found(m_param_idx_by_id, other)
                  /\ Found(m_param_idx_by_id, other) =>
                       At(m_param_idx_by_id', other) = At(m_param_idx_by_id, other)
      <3>1. other \in Nat \ {id}
        BY <1>0, <2>2
      <3>2. /\ Found(n, other) <=> Found(m, other)
            /\ Found(m, other) => At(n, other) = At(m, other)
        BY <2>6, <3>1
      <3> QED
        BY <2>1, <2>7, <3>2 DEF Found, At
    <2> QED
      BY <2>8, <2>9, <2>10
  <1>7. DOMAIN m_params = 1 .. at - 1 /\ DOMAIN m_params' = 1 .. at
    BY <1>1, <1>3
  <1>8. Indexed'
    <2> SUFFICES ASSUME NEW id \in Ids
                 PROVE  /\ Found(m_param_idx_by_id', id) <=>
                             \E i \in 1 .. at : m_params'[i] = id
                        /\ Found(m_param_idx_by_id', id) =>
                             /\ At(m_param_idx_by_id', id) + 1 \in 1 .. at
                             /\ m_params'[At(m_param_idx_by_id', id) + 1] = id
      BY <1>7 DEF Indexed
    <2>1. CASE id = list[at]
      BY <1>1, <1>3, <1>6, <2>1
    <2>2. CASE id # list[at]
      <3>1. /\ Found(m_param_idx_by_id, id) <=> \E i \in 1 .. at - 1 : m_params[i] = id
            /\ Found(m_param_idx_by_id, id) =>
                 /\ At(m_param_idx_by_id, id) + 1 \in 1 .. at - 1
                 /\ m_params[At(m_param_idx_by_id, id) + 1] = id
        BY <1>7 DEF IndexInv, Indexed
      <3>2. \A i \in 1 .. at : i \in 1 .. at - 1 \/ i = at
        BY <1>1
      <3>3. 1 .. at - 1 \subseteq 1 .. at
        BY <1>1
      <3> QED
        BY <1>3, <1>6, <2>2, <3>1, <3>2, <3>3
    <2> QED
      BY <2>1, <2>2
  <1>9. \A i \in 1 .. at' - 1 : m_params'[i] = list'[i]
    BY <1>1, <1>3
  <1>10. at' \in Nat /\ Len(m_params') = at' - 1 /\ at' <= Len(list') + 1
    BY <1>1, <1>2, <1>3
  <1> QED
    BY <1>1, <1>3, <1>6, <1>8, <1>9, <1>10 DEF IndexInv

\* Steps that leave the list of parameters alone.
LEMMA KeepsIndex ==
  ASSUME IndexInv, UNCHANGED <<constructed, cache>>, list' \in Lists, pc # "caching",
         pc' # "caching", constructed \/ pc' = "syncing",
         m_param_value_cache' = [i \in 1 .. Len(m_params) |-> m_param_value_cache'[i]]
  PROVE  IndexInv'
  <1>1. UNCHANGED <<m_params, m_param_idx_by_id>>
    BY DEF cache
  <1> QED
    BY <1>1 DEF IndexInv, Indexed

LEMMA StepIndex == IndexInv /\ [Next]_vars => IndexInv'
  <1> SUFFICES ASSUME IndexInv, [Next]_vars PROVE IndexInv'
    OBVIOUS
  <1>1. /\ list \in Lists
        /\ pc # "caching" =>
             m_param_value_cache = [i \in 1 .. Len(m_params) |-> m_param_value_cache[i]]
        /\ pc = "idle" => constructed
        /\ constructed => pc # "caching"
        /\ ~constructed => pc \in {"caching", "syncing"}
    BY DEF IndexInv
  <1>2. BeginSync => m_param_value_cache' = [i \in 1 .. Len(m_params) |-> m_param_value_cache'[i]]
    BY DEF BeginSync
  <1>3. CASE cache_params
    BY <1>3, CacheIndex
  <1>4. CASE cache_params_done
    <2>1. /\ pc' = "syncing" /\ BeginSync
          /\ UNCHANGED <<list, constructed, m_params, m_param_idx_by_id>>
      BY <1>4 DEF cache_params_done, plugin, cache, BeginSync
    <2> QED
      BY <1>1, <1>2, <2>1 DEF IndexInv, Indexed
  <1>5. CASE sync
    <2>1. m_param_value_cache' = [i \in 1 .. Len(m_params) |-> m_param_value_cache'[i]]
      BY <1>1, <1>5 DEF sync
    <2> QED
      BY <1>1, <1>5, <2>1, KeepsIndex DEF sync, plugin
  <1>6. CASE sync_done
    <2>1. /\ pc # "caching" /\ pc' = "idle" /\ constructed'
          /\ UNCHANGED <<list, m_params, m_param_idx_by_id, m_param_value_cache>>
      BY <1>6 DEF sync_done, plugin, cache
    <2> QED
      BY <1>1, <2>1 DEF IndexInv, Indexed
  <1>7. CASE rescan \/ controller_set_state
    BY <1>1, <1>2, <1>7, KeepsIndex DEF rescan, controller_set_state, BeginSync, plugin
  <1>8. ASSUME NEW id \in Ids, NEW n \in Positions, set_parameter_normalised(id, n)
        PROVE  IndexInv'
    <2>1. m_param_value_cache' = [i \in 1 .. Len(m_params) |-> m_param_value_cache'[i]]
      BY <1>1, <1>8 DEF set_parameter_normalised
    <2> QED
      BY <1>1, <1>8, <2>1, KeepsIndex DEF set_parameter_normalised, plugin
  <1>9. ASSUME NEW id \in Ids, NEW plain, PluginMoves(id, plain)
        PROVE  IndexInv'
    BY <1>1, <1>9, KeepsIndex DEF PluginMoves
  <1>10. ASSUME NEW l \in Lists, PluginRelists(l)
         PROVE  IndexInv'
    BY <1>1, <1>10, KeepsIndex DEF PluginRelists
  <1>11. CASE Units
    BY <1>1, <1>11, KeepsIndex
       DEF Units, get_parameter_info, NextComponent, WalkDone, select_unit, plugin
  <1>12. CASE get_state \/ Save \/ SaveDone \/ set_state \/ Load \/ LoadDone
    BY <1>1, <1>12, KeepsIndex
       DEF get_state, Save, SaveDone, set_state, Load, LoadDone, plugin
  <1>13. CASE UNCHANGED vars
    BY <1>13 DEF vars, plugin, cache, IndexInv, Indexed
  <1> QED
    BY <1>3, <1>4, <1>5, <1>6, <1>7, <1>8, <1>9, <1>10, <1>11, <1>12, <1>13
       DEF Next, Caching, Values, States

\* Identifiers are found exactly when they are in the list, at their place, and
\* there is a value there: for any list of any length, with any part of the
\* identifiers in the table of low ones, after any rescans and relistings
\* (the assertions of get_parameter_normalised and set_parameter_normalised).
THEOREM IndexAlwaysFits == Spec => []IndexFits
  <1>1. IndexInv => IndexFits
    <2> SUFFICES ASSUME IndexInv, constructed, NEW id \in Ids
                 PROVE  /\ Found(m_param_idx_by_id, id) <=> id \in Elements(m_params)
                        /\ Found(m_param_idx_by_id, id) =>
                             /\ At(m_param_idx_by_id, id) < Len(m_param_value_cache)
                             /\ m_params[At(m_param_idx_by_id, id) + 1] = id
      BY DEF IndexFits
    <2>1. m_params \in Seq(Ids) /\ IsMap(m_param_idx_by_id)
          /\ m_param_value_cache = [i \in 1 .. Len(m_params) |-> m_param_value_cache[i]]
      BY DEF IndexInv
    <2>2. Len(m_param_value_cache) = Len(m_params)
      BY <2>1, LenOfFunction
    <2>3. Found(m_param_idx_by_id, id) => At(m_param_idx_by_id, id) \in Nat
      BY <2>1, NumLowIDsAssumption, ParametersAssumption DEF IsMap, Found, At, LowIDs
    <2>4. Found(m_param_idx_by_id, id) => At(m_param_idx_by_id, id) + 1 \in 1 .. Len(m_params)
      BY <2>1 DEF IndexInv, Indexed
    <2> QED
      BY <2>1, <2>2, <2>3, <2>4 DEF IndexInv, Indexed, Elements
  <1> QED
    BY <1>1, InitIndex, StepIndex, PTL DEF Spec

-----------------------------------------------------------------------------
\* The map of the units' paths has every unit but the root.
ByPath ==
  /\ DOMAIN m_by_path = {m_units[i].path : i \in 2 .. Len(m_units)}
  /\ \A i \in 2 .. Len(m_units) : m_by_path[m_units[i].path] = i - 1

\* The walk has come to the unit of the components that it has passed.
Walking ==
  pc = "walking" =>
    /\ asked[1] \in Ids
    /\ at \in 1 .. Len(Walked) + 1
    /\ unit_id \in 0 .. Len(m_units) - 1
    /\ m_units[unit_id + 1].path = SubSeq(Walked, 1, at - 1)

UnitsInv ==
  /\ m_units \in Seq([parent : Int, path : Seq(Names)])
  /\ Len(m_units) \in Nat \ {0}
  /\ UnitsTree /\ UnitsTold
  /\ ByPath /\ Walking
  /\ m_selected_unit \in Nat
  /\ told \in [Ids -> Int]

\* The start of a path, one component longer.
LEMMA OneMore ==
  ASSUME NEW S, NEW s \in Seq(S), NEW k \in 1 .. Len(s)
  PROVE  /\ SubSeq(s, 1, k) \in Seq(S) /\ Len(SubSeq(s, 1, k)) = k
         /\ SubSeq(s, 1, k) # << >>
         /\ SubSeq(SubSeq(s, 1, k), 1, k - 1) = SubSeq(s, 1, k - 1)
  <1>1. k \in Nat \ {0} /\ Len(s) \in Nat /\ k <= Len(s)
    OBVIOUS
  <1>2. /\ SubSeq(s, 1, k) \in Seq(S) /\ Len(SubSeq(s, 1, k)) = k
        /\ \A i \in 1 .. k : SubSeq(s, 1, k)[i] = s[i]
    BY <1>1, SubSeqProperties
  <1>3. /\ SubSeq(SubSeq(s, 1, k), 1, k - 1) \in Seq(S)
        /\ Len(SubSeq(SubSeq(s, 1, k), 1, k - 1)) = k - 1
        /\ \A i \in 1 .. k - 1 : SubSeq(SubSeq(s, 1, k), 1, k - 1)[i] = s[i]
    BY <1>1, <1>2, SubSeqProperties
  <1>4. /\ SubSeq(s, 1, k - 1) \in Seq(S) /\ Len(SubSeq(s, 1, k - 1)) = k - 1
        /\ \A i \in 1 .. k - 1 : SubSeq(s, 1, k - 1)[i] = s[i]
    BY <1>1, SubSeqProperties
  <1> QED
    BY <1>1, <1>2, <1>3, <1>4, SeqEqual

LEMMA Modules == \A id \in Ids : Info[id].module \in Seq(Names)
  BY ParametersAssumption

LEMMA InitUnits == Init => UnitsInv
  <1> SUFFICES ASSUME Init PROVE UnitsInv
    OBVIOUS
  <1>1. /\ m_units = <<Root>> /\ m_by_path = [path \in {} |-> 0] /\ m_selected_unit = 0
        /\ told = [id \in Ids |-> NoUnit] /\ pc = "caching"
    BY DEF Init
  <1>2. /\ Root \in [parent : Int, path : Seq(Names)]
        /\ Len(m_units) = 1 /\ m_units[1] = Root
    BY <1>1 DEF Root
  <1>3. m_units \in Seq([parent : Int, path : Seq(Names)])
    BY <1>1, <1>2
  <1>4. 2 .. Len(m_units) = {} /\ DOMAIN m_units = {1}
    BY <1>1, <1>2
  <1>5. UnitsTree /\ ByPath
    BY <1>1, <1>2, <1>4 DEF UnitsTree, ByPath
  <1>6. UnitsTold
    BY <1>1, <1>2 DEF UnitsTold, NoUnit
  <1> QED
    BY <1>1, <1>2, <1>3, <1>5, <1>6 DEF UnitsInv, Walking, NoUnit

\* The walk makes the unit of a path that has none.
LEMMA MakesUnit ==
  ASSUME UnitsInv, NEW path \in Seq(Names), path # << >>, path \notin DOMAIN m_by_path,
         unit_id \in 0 .. Len(m_units) - 1,
         m_units[unit_id + 1].path = SubSeq(path, 1, Len(path) - 1),
         NewUnit(path), UNCHANGED <<told, m_selected_unit>>
  PROVE  /\ m_units' \in Seq([parent : Int, path : Seq(Names)])
         /\ Len(m_units') \in Nat \ {0}
         /\ UnitsTree' /\ UnitsTold' /\ ByPath'
         /\ unit_id' \in 0 .. Len(m_units') - 1 /\ m_units'[unit_id' + 1].path = path
  <1> DEFINE n    == Len(m_units)
             unit == [parent |-> unit_id, path |-> path]
  <1>1. /\ n \in Nat \ {0} /\ m_units \in Seq([parent : Int, path : Seq(Names)])
        /\ UnitsTree /\ UnitsTold /\ ByPath
    BY DEF UnitsInv
  <1>2. unit \in [parent : Int, path : Seq(Names)]
    OBVIOUS
  <1>3. /\ m_units' \in Seq([parent : Int, path : Seq(Names)])
        /\ Len(m_units') = n + 1
        /\ \A i \in 1 .. n : m_units'[i] = m_units[i]
        /\ m_units'[n + 1] = unit
        /\ DOMAIN m_units = 1 .. n /\ DOMAIN m_units' = 1 .. n + 1
    BY <1>1, <1>2 DEF NewUnit
  <1>0. n = Len(m_units) /\ unit.parent = unit_id /\ unit.path = path /\ unit_id' = n
    BY DEF NewUnit
  <1> HIDE DEF n, unit
  <1>11. n \in Nat \ {0}
    BY <1>0, <1>1
  <1>4. \A i \in 1 .. n : m_units[i].path # path
    <2>1. m_units[1].path = << >>
      BY <1>1 DEF UnitsTree, Root
    <2>2. \A i \in 2 .. n : m_units[i].path # path
      BY <1>0, <1>1 DEF ByPath
    <2>3. \A i \in 1 .. n : i = 1 \/ i \in 2 .. n
      BY <1>1
    <2> QED
      BY <2>1, <2>2, <2>3
  <1>5. \A i \in 1 .. n + 1 : i \in 1 .. n \/ i = n + 1
    BY <1>1
  <1>6. UnitsTree'
    <2>1. m_units'[1] = Root
      <3>1. 1 \in 1 .. n
        BY <1>1
      <3> QED
        BY <1>1, <1>3, <3>1 DEF UnitsTree
    <2>2. ASSUME NEW i \in 2 .. n + 1
          PROVE  /\ m_units'[i].path # << >>
                 /\ m_units'[i].parent \in 0 .. i - 2
                 /\ m_units'[m_units'[i].parent + 1].path =
                      SubSeq(m_units'[i].path, 1, Len(m_units'[i].path) - 1)
      <3>1. CASE i \in 2 .. n
        <4>1. /\ m_units[i].path # << >>
              /\ m_units[i].parent \in 0 .. i - 2
              /\ m_units[m_units[i].parent + 1].path =
                   SubSeq(m_units[i].path, 1, Len(m_units[i].path) - 1)
          BY <1>0, <1>1, <3>1 DEF UnitsTree
        <4>2. i \in 1 .. n /\ \A p : p \in 0 .. i - 2 => p + 1 \in 1 .. n
          BY <1>11, <3>1
        <4>3. m_units[i].parent + 1 \in 1 .. n
          BY <4>1, <4>2
        <4> QED
          BY <1>3, <4>1, <4>2, <4>3
      <3>2. CASE i = n + 1
        <4>1. unit_id + 1 \in 1 .. n /\ unit_id \in 0 .. i - 2
          BY <1>0, <1>1, <3>2
        <4>2. m_units'[i].path = path /\ m_units'[i].parent = unit_id
          BY <1>0, <1>3, <3>2
        <4> QED
          BY <1>3, <4>1, <4>2
      <3> QED
        BY <1>1, <3>1, <3>2
    <2>3. \A i, j \in 1 .. n + 1 : m_units'[i].path = m_units'[j].path => i = j
      <3>1. \A i, j \in 1 .. n : m_units[i].path = m_units[j].path => i = j
        BY <1>1, <1>3 DEF UnitsTree
      <3>2. m_units'[n + 1].path = path
        BY <1>0, <1>3
      <3>3. \A i \in 1 .. n : m_units'[i].path = m_units[i].path
        BY <1>3
      <3> QED
        BY <1>4, <1>5, <3>1, <3>2, <3>3
    <2> QED
      BY <1>3, <2>1, <2>2, <2>3 DEF UnitsTree
  <1>7. UnitsTold'
    <2>1. \A id \in Ids : told[id] # NoUnit =>
            /\ told[id] \in 0 .. n - 1 /\ m_units[told[id] + 1].path = Info[id].module
      BY <1>0, <1>1 DEF UnitsTold
    <2>2. \A k \in 0 .. n - 1 : k \in 0 .. n /\ m_units'[k + 1] = m_units[k + 1]
      <3>1. \A k \in 0 .. n - 1 : k \in 0 .. n /\ k + 1 \in 1 .. n
        BY <1>11
      <3> QED
        BY <1>3, <3>1
    <2>3. m_selected_unit < n + 1
      BY <1>0, <1>1 DEF UnitsTold, UnitsInv
    <2>5. \A id \in Ids : told[id] # NoUnit =>
            /\ told[id] \in 0 .. n /\ m_units'[told[id] + 1].path = Info[id].module
      BY <2>1, <2>2
    <2>6. Len(m_units') - 1 = n
      BY <1>3, <1>11
    <2>7. told' = told /\ m_selected_unit' = m_selected_unit
      OBVIOUS
    <2> QED
      BY <1>3, <2>3, <2>5, <2>6, <2>7 DEF UnitsTold
  <1>8. ByPath'
    <2>1. m_by_path' = [p \in DOMAIN m_by_path \cup {path} |->
                          IF p = path THEN n ELSE m_by_path[p]]
      BY <1>0 DEF NewUnit, Put
    <2>2. /\ DOMAIN m_by_path = {m_units[i].path : i \in 2 .. n}
          /\ \A i \in 2 .. n : m_by_path[m_units[i].path] = i - 1
      BY <1>0, <1>1 DEF ByPath
    <2>3. \A i \in 2 .. n + 1 : i \in 2 .. n \/ i = n + 1
      BY <1>1
    <2>4. \A i \in 2 .. n : i \in 2 .. n + 1 /\ i \in 1 .. n
      BY <1>1
    <2>5. n + 1 \in 2 .. n + 1
      BY <1>1
    <2>6. DOMAIN m_by_path' = {m_units'[i].path : i \in 2 .. n + 1}
      <3>1. DOMAIN m_by_path' = DOMAIN m_by_path \cup {path}
        BY <2>1
      <3>2. m_units'[n + 1].path = path
        BY <1>0, <1>3
      <3>3. \A i \in 2 .. n : m_units'[i].path = m_units[i].path
        BY <1>3, <2>4
      <3>4. DOMAIN m_by_path = {m_units'[i].path : i \in 2 .. n}
        BY <2>2, <3>3
      <3>5. {m_units'[i].path : i \in 2 .. n + 1} =
              {m_units'[i].path : i \in 2 .. n} \cup {path}
        BY <2>3, <2>4, <2>5, <3>2
      <3> QED
        BY <3>1, <3>4, <3>5
    <2>7. ASSUME NEW i \in 2 .. n + 1 PROVE m_by_path'[m_units'[i].path] = i - 1
      <3>1. CASE i = n + 1
        <4>1. m_units'[i].path = path
          BY <1>0, <1>3, <3>1
        <4>2. m_by_path'[path] = n
          BY <2>1
        <4>3. i - 1 = n
          BY <1>11, <3>1
        <4> QED
          BY <4>1, <4>2, <4>3
      <3>2. CASE i \in 2 .. n
        <4>1. m_units'[i].path = m_units[i].path /\ m_units[i].path # path
          BY <1>3, <1>4, <2>4, <3>2
        <4>2. m_units[i].path \in DOMAIN m_by_path /\ m_by_path[m_units[i].path] = i - 1
          BY <2>2, <3>2
        <4> QED
          BY <2>1, <4>1, <4>2
      <3> QED
        BY <2>3, <3>1, <3>2
    <2> QED
      BY <1>3, <2>6, <2>7 DEF ByPath
  <1>9. n \in 0 .. n + 1 - 1 /\ n + 1 \in Nat \ {0}
    BY <1>1
  <1> QED
    BY <1>0, <1>3, <1>6, <1>7, <1>8, <1>9

LEMMA StepComponent == UnitsInv /\ NextComponent => UnitsInv'
  <1> SUFFICES ASSUME UnitsInv, NextComponent PROVE UnitsInv'
    OBVIOUS
  <1> DEFINE path == SubSeq(Walked, 1, at)
  <1>1. /\ pc = "walking" /\ asked[1] \in Ids /\ unit_id \in 0 .. Len(m_units) - 1
        /\ at \in 1 .. Len(Walked) /\ at' = at + 1
        /\ m_units[unit_id + 1].path = SubSeq(Walked, 1, at - 1)
        /\ UNCHANGED <<pc, asked, told, m_selected_unit>>
    BY DEF NextComponent, UnitsInv, Walking
  <1>2. Walked \in Seq(Names) /\ Len(Walked) \in Nat /\ Walked' = Walked
    BY <1>1, Modules DEF Walked
  <1>3. /\ path \in Seq(Names) /\ Len(path) = at /\ path # << >>
        /\ SubSeq(path, 1, at - 1) = SubSeq(Walked, 1, at - 1)
    BY <1>1, <1>2, OneMore
  <1>4. at' \in 1 .. Len(Walked) + 1 /\ at' - 1 = at
    BY <1>1, <1>2
  <1>5. CASE path \in DOMAIN m_by_path
    <2>1. unit_id' = m_by_path[path] /\ UNCHANGED <<m_units, m_by_path>>
      BY <1>5 DEF NextComponent
    <2>2. PICK i \in 2 .. Len(m_units) : path = m_units[i].path
      BY <1>5 DEF UnitsInv, ByPath
    <2>3. unit_id' = i - 1 /\ Len(m_units) \in Nat
      BY <2>1, <2>2 DEF UnitsInv, ByPath
    <2>4. unit_id' \in 0 .. Len(m_units) - 1 /\ unit_id' + 1 = i
      BY <2>3
    <2>5. UnitsTree' /\ UnitsTold' /\ ByPath'
      BY <1>1, <2>1 DEF UnitsInv, UnitsTree, UnitsTold, ByPath
    <2>6. Walking'
      BY <1>1, <1>2, <1>4, <2>1, <2>2, <2>4 DEF Walking
    <2> QED
      BY <1>1, <2>1, <2>5, <2>6 DEF UnitsInv
  <1>6. CASE path \notin DOMAIN m_by_path
    <2>1. NewUnit(path)
      BY <1>6 DEF NextComponent
    <2>2. /\ m_units' \in Seq([parent : Int, path : Seq(Names)])
          /\ Len(m_units') \in Nat \ {0}
          /\ UnitsTree' /\ UnitsTold' /\ ByPath'
          /\ unit_id' \in 0 .. Len(m_units') - 1 /\ m_units'[unit_id' + 1].path = path
      <3> HIDE DEF path
      <3> QED
        BY <1>1, <1>3, <1>6, <2>1, MakesUnit
    <2>3. Walking'
      BY <1>1, <1>2, <1>4, <2>2 DEF Walking
    <2> QED
      BY <1>1, <2>2, <2>3 DEF UnitsInv
  <1> QED
    BY <1>5, <1>6

\* Steps that leave the units alone.
LEMMA KeepsUnits ==
  ASSUME UnitsInv, UNCHANGED <<m_units, m_by_path, m_selected_unit, told>>, Walking'
  PROVE  UnitsInv'
  <1>1. UnitsTree'
    BY DEF UnitsInv, UnitsTree
  <1>2. UnitsTold'
    BY DEF UnitsInv, UnitsTold
  <1>3. ByPath'
    BY DEF UnitsInv, ByPath
  <1>4. /\ m_units' \in Seq([parent : Int, path : Seq(Names)]) /\ Len(m_units') \in Nat \ {0}
        /\ m_selected_unit' \in Nat /\ told' \in [Ids -> Int]
    BY DEF UnitsInv
  <1> QED
    BY <1>1, <1>2, <1>3, <1>4 DEF UnitsInv

LEMMA StepUnits == IndexInv /\ UnitsInv /\ [Next]_vars => UnitsInv'
  <1> SUFFICES ASSUME IndexInv, UnitsInv, [Next]_vars PROVE UnitsInv'
    OBVIOUS
  <1>1. ASSUME UNCHANGED <<m_units, m_by_path, m_selected_unit, told>>, pc' # "walking"
        PROVE  UnitsInv'
    BY <1>1, KeepsUnits DEF Walking
  <1>2. ASSUME UNCHANGED <<pc, at, units>>
        PROVE  UnitsInv'
    <2>1. Walking'
      BY <1>2 DEF units, UnitsInv, Walking, Walked
    <2> QED
      BY <1>2, <2>1, KeepsUnits DEF units
  <1>3. CASE Caching
    BY <1>1, <1>3
       DEF Caching, cache_params, cache_params_done, sync, sync_done, rescan, BeginSync, units
  <1>4. CASE Values
    BY <1>2, <1>4
       DEF Values, set_parameter_normalised, PluginMoves, PluginRelists, units
  <1>5. CASE States
    BY <1>1, <1>5
       DEF States, get_state, Save, SaveDone, set_state, Load, LoadDone, controller_set_state,
           BeginSync, units
  <1>6. ASSUME NEW i \in 0 .. Len(m_params) - 1, get_parameter_info(i)
        PROVE  UnitsInv'
    <2>1. m_params \in Seq(Ids)
      BY DEF IndexInv
    <2>2. m_params[i + 1] \in Ids
      <3>1. Len(m_params) \in Nat
        BY <2>1
      <3>2. i + 1 \in 1 .. Len(m_params)
        BY <3>1
      <3> QED
        BY <2>1, <3>2
    <2>3. /\ asked' = <<m_params[i + 1]>> /\ at' = 1 /\ unit_id' = 0
          /\ UNCHANGED <<m_units, m_by_path, m_selected_unit, told>>
      BY <1>6 DEF get_parameter_info
    <2>4. Walked' \in Seq(Names)
      BY <2>2, <2>3, Modules DEF Walked
    <2>5. SubSeq(Walked', 1, 0) = << >>
      BY <2>4, SubSeqEmpty
    <2>6. /\ m_units[1].path = << >> /\ Len(m_units) \in Nat \ {0}
      BY DEF UnitsInv, UnitsTree, Root
    <2>7. at' \in 1 .. Len(Walked') + 1 /\ unit_id' \in 0 .. Len(m_units) - 1
          /\ at' - 1 = 0 /\ unit_id' + 1 = 1
      <3>1. Len(Walked') \in Nat
        BY <2>4
      <3> QED
        BY <2>3, <2>6, <3>1
    <2>8. Walking'
      BY <2>2, <2>3, <2>5, <2>6, <2>7 DEF Walking
    <2> QED
      BY <2>3, <2>8, KeepsUnits
  <1>7. CASE NextComponent
    BY <1>7, StepComponent
  <1>8. CASE WalkDone
    <2>1. /\ pc' # "walking" /\ UNCHANGED <<m_units, m_by_path, m_selected_unit>>
          /\ told' = [told EXCEPT ![asked[1]] = unit_id]
          /\ pc = "walking" /\ at > Len(Walked)
      BY <1>8 DEF WalkDone
    <2>2. /\ asked[1] \in Ids /\ at \in 1 .. Len(Walked) + 1
          /\ unit_id \in 0 .. Len(m_units) - 1
          /\ m_units[unit_id + 1].path = SubSeq(Walked, 1, at - 1)
      BY <2>1 DEF UnitsInv, Walking
    <2>3. PICK w : w = Info[asked[1]].module
      OBVIOUS
    <2>4. w \in Seq(Names) /\ Len(w) \in Nat
      BY <2>2, <2>3, Modules
    <2>5. m_units[unit_id + 1].path = Info[asked[1]].module
      <3>1. at \in 1 .. Len(w) + 1 /\ at > Len(w)
        BY <2>1, <2>2, <2>3 DEF Walked
      <3>2. at - 1 = Len(w)
        BY <2>4, <3>1
      <3>3. SubSeq(w, 1, Len(w)) = w
        BY <2>4, SubSeqFull
      <3> QED
        BY <2>2, <2>3, <3>2, <3>3 DEF Walked
    <2>6. UnitsTold'
      BY <2>1, <2>2, <2>5 DEF UnitsInv, UnitsTold
    <2>7. told' \in [Ids -> Int]
      BY <2>1, <2>2 DEF UnitsInv
    <2>8. UnitsTree' /\ ByPath' /\ Walking'
      BY <2>1 DEF UnitsInv, UnitsTree, ByPath, Walking
    <2> QED
      BY <2>1, <2>6, <2>7, <2>8 DEF UnitsInv
  <1>9. ASSUME NEW id \in 0 .. Len(m_units) - 1, select_unit(id)
        PROVE  UnitsInv'
    <2>1. /\ m_selected_unit' = id /\ UNCHANGED <<m_units, m_by_path, told>> /\ pc' # "walking"
      BY <1>9 DEF select_unit
    <2>2. id \in Nat /\ id < Len(m_units)
      BY DEF UnitsInv
    <2>3. UnitsTree' /\ ByPath' /\ Walking'
      BY <2>1 DEF UnitsInv, UnitsTree, ByPath, Walking
    <2>4. UnitsTold'
      BY <2>1, <2>2 DEF UnitsInv, UnitsTold
    <2> QED
      BY <2>1, <2>2, <2>3, <2>4 DEF UnitsInv
  <1>10. CASE UNCHANGED vars
    BY <1>2, <1>10 DEF vars
  <1> QED
    BY <1>3, <1>4, <1>5, <1>6, <1>7, <1>8, <1>9, <1>10 DEF Next, Units

\* The units are a tree by path and each parameter's unit is that of its
\* module, for any parameters and module paths of any depth, asked for in any
\* order (get_or_create_module_unit of ct_unit_description).
THEOREM UnitsAlwaysTrue == Spec => []UnitsTrue
  <1>1. UnitsInv => UnitsTrue
    BY DEF UnitsInv, UnitsTrue
  <1> QED
    BY <1>1, InitIndex, StepIndex, InitUnits, StepUnits, PTL DEF Spec

-----------------------------------------------------------------------------
\* The controller has what the plugin tells of the first parameters.
Synced(n) ==
  \A k \in DOMAIN m_params : k < n => m_param_value_cache[k] = get_value(m_params[k])

\* The plugin has the first values of the state.
Loaded(n) ==
  \A i \in DOMAIN saved : i < n => actual[saved[i].id] = saved[i].value

\* Values of a state.
Saved == [id : Ids, value : Int]

LEMMA SavedFields == \A p \in Saved : p.id \in Ids /\ p.value \in Int
  BY DEF Saved

\* What was saved is the start of the list; how far a state is loaded, and the
\* values read back.
StateInv ==
  /\ saved \in Seq(Saved)
  /\ \A i, j \in DOMAIN saved : saved[i].id = saved[j].id => i = j
  /\ actual \in [Ids -> Int]
  /\ pc = "saving" =>
       /\ restored = "no"
       /\ at \in 1 .. Len(list) + 1 /\ Len(saved) = at - 1
       /\ \A i \in 1 .. at - 1 : saved[i].id = list[i]
  /\ pc = "loading" =>
       /\ at \in 1 .. Len(saved) + 1
       /\ restored = "loading" => Loaded(at)
  /\ pc = "loading" => restored \in {"no", "loading"}
  /\ restored = "loading" => pc = "loading"
  /\ restored = "syncing" => pc = "syncing"
  /\ restored \in {"loaded", "syncing", "yes"} => Loaded(Len(saved) + 1)

\* What was read back; before the host has the component nothing moves.
SyncInv ==
  /\ \A i, j \in DOMAIN m_params : m_params[i] = m_params[j] => i = j
  /\ pc = "syncing" => at \in Nat \ {0}
  /\ pc = "syncing" /\ (~constructed \/ restored = "syncing") => Synced(at)
  /\ restored = "yes" => Synced(Len(m_params) + 1)
  /\ ~constructed /\ pc = "syncing" =>
       \A id \in Ids : Found(m_param_idx_by_id, id) <=> id \in Elements(list)
  /\ ~constructed => restored = "no"

\* What the plugin has after it read so many values, and what it writes.
LoadedBlock(count) ==
  [id \in Ids |->
     IF \E i \in at .. at + count - 1 : saved[i].id = id
     THEN saved[CHOOSE i \in at .. at + count - 1 : saved[i].id = id].value
     ELSE actual[id]]

SavedBlock(count) ==
  [i \in 1..count |-> [id |-> list[at + i - 1], value |-> actual[list[at + i - 1]]]]

\* Loading a block of the state.
LEMMA BlockLoaded ==
  ASSUME StateInv, pc = "loading", at <= Len(saved), NEW count \in 1 .. Len(saved) - at + 1,
         actual' = LoadedBlock(count), at' = at + count, UNCHANGED saved
  PROVE  /\ at' \in 1 .. Len(saved) + 1 /\ actual' \in [Ids -> Int]
         /\ Loaded(at) => Loaded(at)'
  <1>1. /\ saved \in Seq(Saved) /\ at \in 1 .. Len(saved)
        /\ DOMAIN saved = 1 .. Len(saved) /\ Len(saved) \in Nat
        /\ \A i, j \in DOMAIN saved : saved[i].id = saved[j].id => i = j
    BY DEF StateInv
  <1> USE DEF LoadedBlock
  <1>0. \A i \in DOMAIN saved : saved[i].id \in Ids /\ saved[i].value \in Int
    BY <1>1, SavedFields, ElementOfSeq
  <1>2. at' \in 1 .. Len(saved) + 1
    BY <1>1
  <1>3. \A i \in at .. at + count - 1 : i \in DOMAIN saved
    BY <1>1
  <1>4. ASSUME NEW i \in at .. at + count - 1
        PROVE  actual'[saved[i].id] = saved[i].value
    <2>1. saved[i].id \in Ids
      BY <1>0, <1>3
    <2>2. \A j \in at .. at + count - 1 : saved[j].id = saved[i].id => j = i
      BY <1>1, <1>3
    <2>3. (CHOOSE j \in at .. at + count - 1 : saved[j].id = saved[i].id) = i
      BY <2>2
    <2> QED
      BY <2>1, <2>3
  <1>5. ASSUME NEW id \in Ids PROVE actual'[id] \in Int
    <2>1. CASE \E i \in at .. at + count - 1 : saved[i].id = id
      <3>1. PICK i \in at .. at + count - 1 : saved[i].id = id
        BY <2>1
      <3>2. actual'[id] = saved[i].value
        BY <1>4, <3>1
      <3> QED
        BY <1>0, <1>3, <3>2
    <2>2. CASE ~\E i \in at .. at + count - 1 : saved[i].id = id
      BY <2>2 DEF StateInv
    <2> QED
      BY <2>1, <2>2
  <1>6. ASSUME Loaded(at), NEW i \in DOMAIN saved, i < at'
        PROVE  actual'[saved[i].id] = saved[i].value
    <2>1. CASE i < at
      <3>1. saved[i].id \in Ids
        BY <1>0
      <3>2. \A j \in at .. at + count - 1 : saved[j].id # saved[i].id
        BY <1>1, <1>3, <2>1
      <3>3. actual'[saved[i].id] = actual[saved[i].id]
        BY <3>1, <3>2
      <3> QED
        BY <1>6, <2>1, <3>3 DEF Loaded
    <2>2. CASE ~(i < at)
      <3>1. i \in at .. at + count - 1
        BY <1>1, <1>6, <2>2
      <3> QED
        BY <1>4, <3>1
    <2> QED
      BY <2>1, <2>2
  <1>7. actual' = [id \in Ids |-> actual'[id]]
    OBVIOUS
  <1>8. actual' \in [Ids -> Int]
    BY <1>5, <1>7
  <1>9. ASSUME Loaded(at) PROVE Loaded(at)'
    <2> HIDE DEF LoadedBlock
    <2>1. saved' = saved
      OBVIOUS
    <2>2. \A i \in DOMAIN saved' : i < at' => actual'[saved'[i].id] = saved'[i].value
      BY <1>6, <1>9, <2>1
    <2> QED
      BY <2>2 DEF Loaded
  <1> QED
    BY <1>2, <1>8, <1>9

LEMMA Concatenated ==
  ASSUME NEW S, NEW s \in Seq(S), NEW t \in Seq(S), NEW u, u = s \o t
  PROVE  /\ u \in Seq(S) /\ Len(u) = Len(s) + Len(t)
         /\ \A i \in 1 .. Len(s) : u[i] = s[i]
         /\ \A i \in 1 .. Len(t) : u[Len(s) + i] = t[i]
  OBVIOUS

\* Saving a block of it.
LEMMA BlockSaved ==
  ASSUME StateInv, list \in Lists, pc = "saving", at <= Len(list),
         NEW count \in 0 .. Len(list) - at + 1,
         saved' = saved \o SavedBlock(count), at' = at + count
  PROVE  /\ saved' \in Seq(Saved)
         /\ \A i, j \in DOMAIN saved' : saved'[i].id = saved'[j].id => i = j
         /\ at' \in 1 .. Len(list) + 1 /\ Len(saved') = at' - 1
         /\ \A i \in 1 .. at' - 1 : saved'[i].id = list[i]
  <1> DEFINE block == [i \in 1..count |->
               [id |-> list[at + i - 1], value |-> actual[list[at + i - 1]]]]
  <1>0. saved' = saved \o block
    BY DEF SavedBlock
  <1>1. /\ list \in Seq(Ids) /\ \A i, j \in DOMAIN list : list[i] = list[j] => i = j
    BY ParametersAssumption
  <1>2. /\ at \in 1 .. Len(list) /\ Len(saved) = at - 1 /\ Len(list) \in Nat
        /\ \A i \in 1 .. at - 1 : saved[i].id = list[i]
        /\ saved \in Seq(Saved) /\ actual \in [Ids -> Int]
    BY <1>1 DEF StateInv
  <1>3. \A i \in 1 .. count : at + i - 1 \in 1 .. Len(list)
    BY <1>2
  <1>4. block \in Seq(Saved) /\ Len(block) = count
        /\ \A i \in 1 .. count : block[i].id = list[at + i - 1]
    <2>1. \A i \in 1 .. count : list[at + i - 1] \in Ids
      BY <1>1, <1>3
    <2>2. \A i \in 1 .. count : block[i] \in Saved
      BY <1>2, <2>1 DEF Saved
    <2>3. block = [i \in 1 .. count |-> block[i]] /\ count \in Nat
      BY <1>2
    <2>4. \A i \in 1 .. count : block[i].id = list[at + i - 1]
      OBVIOUS
    <2> HIDE DEF block
    <2>5. block \in [1 .. count -> Saved]
      BY <2>2, <2>3
    <2>6. block \in Seq(Saved)
      BY <2>3, <2>5
    <2>7. Len(block) = count
      BY <2>3, LenOfFunction
    <2> QED
      BY <2>4, <2>6, <2>7
  <1>5. saved' = saved \o block
    BY <1>0
  <1> HIDE DEF block
  <1>6. /\ saved' \in Seq(Saved) /\ Len(saved') = at - 1 + count
        /\ \A i \in 1 .. at - 1 : saved'[i] = saved[i]
        /\ \A i \in 1 .. count : saved'[at - 1 + i] = block[i]
    <2>1. /\ saved' \in Seq(Saved) /\ Len(saved') = Len(saved) + Len(block)
          /\ \A i \in 1 .. Len(saved) : saved'[i] = saved[i]
          /\ \A i \in 1 .. Len(block) : saved'[Len(saved) + i] = block[i]
      <3>1. saved \in Seq(Saved) /\ block \in Seq(Saved)
        BY <1>2, <1>4
      <3>2. PICK old, new : old = saved /\ new = saved'
        OBVIOUS
      <3>3. old \in Seq(Saved) /\ new = old \o block
        BY <1>5, <3>1, <3>2
      <3>4. /\ new \in Seq(Saved) /\ Len(new) = Len(old) + Len(block)
            /\ \A i \in 1 .. Len(old) : new[i] = old[i]
            /\ \A i \in 1 .. Len(block) : new[Len(old) + i] = block[i]
        BY <3>1, <3>3, Concatenated
      <3> QED
        BY <3>2, <3>4
    <2>2. Len(saved) = at - 1 /\ Len(block) = count
      BY <1>2, <1>4
    <2> QED
      BY <2>1, <2>2
  <1>7. ASSUME NEW i \in 1 .. at' - 1 PROVE saved'[i].id = list[i]
    <2>1. CASE i <= at - 1
      BY <1>2, <1>6, <2>1
    <2>2. CASE ~(i <= at - 1)
      <3>1. PICK j \in 1 .. count : i = at - 1 + j
        <4>1. i - (at - 1) \in 1 .. count /\ i = at - 1 + (i - (at - 1))
          BY <1>2, <2>2
        <4> QED
          BY <4>1
      <3>2. saved'[i] = block[j]
        BY <1>6, <3>1
      <3>3. at + j - 1 = i
        BY <1>2, <3>1
      <3> QED
        BY <1>4, <3>2, <3>3
    <2> QED
      BY <1>2, <2>1, <2>2
  <1>8. at' \in 1 .. Len(list) + 1 /\ Len(saved') = at' - 1 /\ DOMAIN saved' = 1 .. at' - 1
    BY <1>2, <1>6
  <1>9. \A i \in 1 .. at' - 1 : i \in DOMAIN list
    BY <1>1, <1>2
  <1>10. \A i, j \in DOMAIN saved' : saved'[i].id = saved'[j].id => i = j
    <2>1. \A i, j \in 1 .. at' - 1 : list[i] = list[j] => i = j
      BY <1>1, <1>9
    <2>2. DOMAIN saved' = 1 .. at' - 1
      BY <1>8
    <2>3. ASSUME NEW i \in 1 .. at' - 1, NEW j \in 1 .. at' - 1, saved'[i].id = saved'[j].id
          PROVE  i = j
      <3>1. saved'[i].id = list[i] /\ saved'[j].id = list[j]
        BY <1>7
      <3> QED
        BY <2>1, <2>3, <3>1
    <2> QED
      BY <2>2, <2>3
  <1> QED
    BY <1>6, <1>7, <1>8, <1>10

\* Values that the plugin's parameters may take are integers.
LEMMA PlainIntegers ==
  ASSUME NEW id \in Ids, NEW n \in Positions
  PROVE  denormalize(id, n) \in Int
  <1>1. /\ Info[id].min \in Int /\ Info[id].max \in Int /\ Scale \in Nat \ {0}
        /\ n \in Nat
    BY ParametersAssumption
  <1> DEFINE min   == Info[id].min
             range == Info[id].max - Info[id].min
             step  == (n * (range + 1)) \div Scale
  <1>2. range \in Int /\ min \in Int /\ n * range \in Int /\ n * (range + 1) \in Int
        /\ min * Scale \in Int
    BY <1>1
  <1>3. step \in Int
    <2> HIDE DEF range
    <2> QED
      BY <1>1, <1>2
  <1>4. Smaller(range, step) \in Int
    BY <1>2, <1>3 DEF Smaller
  <1>5. denormalize(id, n) = IF Info[id].stepped THEN (min + Smaller(range, step)) * Scale
                             ELSE min * Scale + n * range
    BY DEF denormalize
  <1> HIDE DEF min, range, step
  <1>6. (min + Smaller(range, step)) * Scale \in Int
    BY <1>1, <1>2, <1>4
  <1>7. min * Scale + n * range \in Int
    BY <1>2
  <1> QED
    BY <1>5, <1>6, <1>7

\* What a stream answers for a size, if it does not fail.
LEMMA Answered ==
  ASSUME NEW size \in ReadSizes, NEW left \in Nat, NEW count \in StreamAnswers(size, left),
         count # -1
  PROVE  count \in 0 .. left
  <1>1. size \in Nat
    BY ParametersAssumption
  <1> QED
    BY <1>1 DEF StreamAnswers, Smaller

\* Steps that are not about states.
LEMMA KeepsState ==
  ASSUME StateInv, UNCHANGED <<saved, actual>>,
         pc \notin {"saving", "loading"}, pc' \notin {"saving", "loading"},
         restored' \in {"loaded", "syncing", "yes"} => restored \in {"loaded", "syncing", "yes"},
         restored' # "loading", restored' = "syncing" => pc' = "syncing"
  PROVE  StateInv'
  BY DEF StateInv, Loaded

LEMMA InitState == Init => StateInv
  <1> SUFFICES ASSUME Init PROVE StateInv
    OBVIOUS
  <1>1. saved = << >> /\ pc = "caching" /\ restored = "no"
        /\ \E n \in Positions : actual = [id \in Ids |-> denormalize(id, n)]
    BY DEF Init
  <1>2. actual \in [Ids -> Int]
    BY <1>1, PlainIntegers
  <1> QED
    BY <1>1, <1>2 DEF StateInv

LEMMA StepState == IndexInv /\ StateInv /\ [Next]_vars => StateInv'
  <1> SUFFICES ASSUME IndexInv, StateInv, [Next]_vars PROVE StateInv'
    OBVIOUS
  <1>0. /\ list \in Lists /\ list \in Seq(Ids) /\ Len(list) \in Nat
        /\ saved \in Seq(Saved) /\ Len(saved) \in Nat /\ DOMAIN saved = 1 .. Len(saved)
    BY ParametersAssumption DEF IndexInv, StateInv
  <1>1. CASE Caching
    BY <1>1, KeepsState
       DEF Caching, cache_params, cache_params_done, sync, sync_done, rescan, BeginSync, plugin,
           state, StateInv
  <1>2. ASSUME NEW id \in Ids, NEW n \in Positions, set_parameter_normalised(id, n)
        PROVE  StateInv'
    BY <1>2, KeepsState DEF set_parameter_normalised, plugin
  <1>3. ASSUME NEW id \in Ids, NEW plain \in PlainValues(id), PluginMoves(id, plain)
        PROVE  StateInv'
    <2>1. plain \in Int
      BY PlainIntegers DEF PlainValues
    <2>2. actual' \in [Ids -> Int]
      BY <1>3, <2>1 DEF PluginMoves, StateInv
    <2> QED
      BY <1>3, <2>2 DEF PluginMoves, StateInv
  <1>4. ASSUME NEW l \in Lists, PluginRelists(l)
        PROVE  StateInv'
    BY <1>4, KeepsState DEF PluginRelists
  <1>5. CASE Units
    BY <1>5, KeepsState
       DEF Units, get_parameter_info, NextComponent, WalkDone, select_unit, plugin, state, StateInv
  <1>6. CASE get_state
    <2>1. /\ pc' = "saving" /\ at' = 1 /\ saved' = << >> /\ restored' = "no"
          /\ UNCHANGED <<list, actual>>
      BY <1>6 DEF get_state, plugin
    <2> QED
      BY <1>0, <2>1 DEF StateInv
  <1>7. CASE Save
    <2>0. /\ pc = "saving" /\ restored = "no" /\ at \in 1 .. Len(list)
          /\ UNCHANGED <<list, actual, restored>>
      BY <1>0, <1>7 DEF Save, StateInv, plugin
    <2>1. CASE pc' = "idle" /\ saved' = << >>
      BY <2>0, <2>1 DEF StateInv
    <2>2. CASE ~(pc' = "idle" /\ saved' = << >>)
      <3>1. PICK size \in ReadSizes : \E count \in StreamAnswers(size, Len(list) - at + 1) :
              /\ count # -1
              /\ saved' = saved \o SavedBlock(count)
              /\ at' = at + count
              /\ pc' = pc
        BY <1>7, <2>2 DEF Save, SavedBlock
      <3>2. PICK count \in StreamAnswers(size, Len(list) - at + 1) :
              /\ count # -1
              /\ saved' = saved \o SavedBlock(count)
              /\ at' = at + count
              /\ pc' = pc
        BY <3>1
      <3>3. Len(list) - at + 1 \in Nat
        BY <1>0, <2>0
      <3>4. count \in 0 .. Len(list) - at + 1
        BY <3>2, <3>3, Answered
      <3>5. /\ saved' \in Seq(Saved)
            /\ \A i, j \in DOMAIN saved' : saved'[i].id = saved'[j].id => i = j
            /\ at' \in 1 .. Len(list) + 1 /\ Len(saved') = at' - 1
            /\ \A i \in 1 .. at' - 1 : saved'[i].id = list[i]
        <4>1. list \in Lists /\ at <= Len(list)
          BY <1>0, <2>0
        <4>2. saved' = saved \o SavedBlock(count) /\ at' = at + count
          BY <3>2
        <4> QED
          BY <2>0, <3>4, <4>1, <4>2, BlockSaved
      <3> QED
        BY <2>0, <3>2, <3>5 DEF StateInv
    <2> QED
      BY <2>1, <2>2
  <1>8. CASE SaveDone
    BY <1>8 DEF SaveDone, plugin, state, StateInv
  <1>9. CASE set_state
    <2>1. /\ pc' = "loading" /\ at' = 1 /\ restored' = "loading"
          /\ UNCHANGED <<saved, actual>>
      BY <1>9 DEF set_state, plugin
    <2>2. Loaded(1)'
      BY <1>0, <2>1 DEF Loaded
    <2> QED
      BY <1>0, <2>1, <2>2 DEF StateInv, Loaded
  <1>10. CASE Load
    <2>0. /\ pc = "loading" /\ at \in 1 .. Len(saved) /\ UNCHANGED <<list, saved>>
      BY <1>0, <1>10 DEF Load, StateInv
    <2>1. CASE pc' = "idle" /\ restored' = "no" /\ UNCHANGED actual
      BY <2>0, <2>1 DEF StateInv
    <2>2. CASE ~(pc' = "idle" /\ restored' = "no" /\ UNCHANGED actual)
      <3>1. PICK size \in ReadSizes : \E count \in StreamAnswers(size, Len(saved) - at + 1) :
              /\ ~(count <= 0)
              /\ actual' = LoadedBlock(count)
              /\ at' = at + count
              /\ UNCHANGED <<pc, restored>>
        BY <1>10, <2>2 DEF Load, LoadedBlock
      <3>2. PICK count \in StreamAnswers(size, Len(saved) - at + 1) :
              /\ ~(count <= 0)
              /\ actual' = LoadedBlock(count)
              /\ at' = at + count
              /\ UNCHANGED <<pc, restored>>
        BY <3>1
      <3>3. Len(saved) - at + 1 \in Nat
        BY <1>0, <2>0
      <3>4. count \in 1 .. Len(saved) - at + 1
        <4>1. count # -1
          BY <3>2
        <4>2. count \in 0 .. Len(saved) - at + 1
          BY <3>3, <4>1, Answered
        <4> QED
          BY <3>2, <4>2
      <3>5. /\ at' \in 1 .. Len(saved) + 1 /\ actual' \in [Ids -> Int]
            /\ Loaded(at) => Loaded(at)'
        BY <2>0, <3>2, <3>4, BlockLoaded
      <3> QED
        BY <2>0, <3>2, <3>5 DEF StateInv
    <2> QED
      BY <2>1, <2>2
  <1>11. CASE LoadDone
    <2>1. /\ pc = "loading" /\ at = Len(saved) + 1 /\ pc' = "idle"
          /\ restored' = IF restored = "loading" THEN "loaded" ELSE restored
          /\ UNCHANGED <<saved, actual>>
      BY <1>0, <1>11 DEF LoadDone, StateInv, plugin
    <2>2. restored = "loading" => Loaded(Len(saved) + 1)
      BY <2>1 DEF StateInv
    <2> QED
      BY <2>1, <2>2 DEF StateInv, Loaded
  <1>12. CASE controller_set_state
    BY <1>12, KeepsState DEF controller_set_state, BeginSync, plugin, StateInv
  <1>13. CASE UNCHANGED vars
    BY <1>13 DEF vars, plugin, state, StateInv, Loaded
  <1> QED
    BY <1>1, <1>2, <1>3, <1>4, <1>5, <1>6, <1>7, <1>8, <1>9, <1>10, <1>11, <1>12, <1>13
       DEF Next, Values, States

\* Steps that read nothing back from the plugin.
LEMMA KeepsSync ==
  ASSUME SyncInv, constructed, UNCHANGED <<constructed, cache>>, pc' # "syncing",
         restored' = "yes" => restored = "yes" /\ UNCHANGED <<m_param_value_cache, plugin>>
  PROVE  SyncInv'
  BY DEF SyncInv, Synced, get_value, Elements, cache, plugin

\* The values that a synchronisation starts from are those that there were.
LEMMA SyncBegins ==
  ASSUME IndexInv, pc # "caching", BeginSync
  PROVE  UNCHANGED m_param_value_cache
  <1>1. m_param_value_cache = [i \in 1 .. Len(m_params) |-> m_param_value_cache[i]]
    BY DEF IndexInv
  <1>2. DOMAIN m_param_value_cache = 1 .. Len(m_params)
    BY <1>1
  <1>3. m_param_value_cache' = [i \in 1..Len(m_params) |->
          IF i \in DOMAIN m_param_value_cache THEN m_param_value_cache[i] ELSE 0]
    BY DEF BeginSync
  <1>4. m_param_value_cache' = [i \in 1 .. Len(m_params) |-> m_param_value_cache[i]]
    BY <1>2, <1>3
  <1> QED
    BY <1>1, <1>4

LEMMA InitSync == Init => SyncInv
  BY DEF Init, SyncInv, Synced

LEMMA StepSync == IndexInv /\ StateInv /\ SyncInv /\ [Next]_vars => SyncInv'
  <1> SUFFICES ASSUME IndexInv, StateInv, SyncInv, [Next]_vars PROVE SyncInv'
    OBVIOUS
  <1>0. /\ list \in Seq(Ids) /\ Len(list) \in Nat /\ DOMAIN list = 1 .. Len(list)
        /\ \A i, j \in DOMAIN list : list[i] = list[j] => i = j
        /\ m_params \in Seq(Ids) /\ Len(m_params) \in Nat /\ DOMAIN m_params = 1 .. Len(m_params)
        /\ constructed => pc # "caching"
        /\ ~constructed => pc \in {"caching", "syncing"} /\ restored = "no"
    BY ParametersAssumption DEF IndexInv, SyncInv
  <1>1. CASE cache_params
    <2>1. /\ pc = "caching" /\ pc' = "caching" /\ at \in 1 .. Len(list)
          /\ Len(m_params) = at - 1 /\ \A i \in 1 .. at - 1 : m_params[i] = list[i]
          /\ m_params' = Append(m_params, list[at])
          /\ UNCHANGED <<constructed, restored>>
      BY <1>0, <1>1 DEF cache_params, IndexInv, state
    <2>2. DOMAIN m_params' = 1 .. at /\ \A i \in 1 .. at : m_params'[i] = list[i]
      BY <1>0, <2>1
    <2>3. \A i \in 1 .. at : i \in DOMAIN list
      BY <1>0, <2>1
    <2>4. \A i, j \in DOMAIN m_params' : m_params'[i] = m_params'[j] => i = j
      BY <1>0, <2>2, <2>3
    <2>5. ~constructed' /\ restored' = "no"
      BY <1>0, <2>1
    <2> QED
      BY <2>1, <2>4, <2>5 DEF SyncInv
  <1>2. CASE cache_params_done
    <2>1. /\ pc = "caching" /\ pc' = "syncing" /\ at' = 1
          /\ Len(m_params) = Len(list) /\ \A i \in 1 .. Len(list) : m_params[i] = list[i]
          /\ UNCHANGED <<constructed, restored, list, m_params, m_param_idx_by_id>>
      BY <1>0, <1>2 DEF cache_params_done, BeginSync, IndexInv, plugin, cache, state
    <2>2. ~constructed /\ restored = "no"
      BY <1>0, <2>1
    <2>3. \A id \in Ids : Found(m_param_idx_by_id, id) <=> id \in Elements(list)
      BY <1>0, <2>1 DEF IndexInv, Indexed, Elements
    <2>4. Synced(1)'
      BY <1>0, <2>1 DEF Synced
    <2> QED
      BY <2>1, <2>2, <2>3, <2>4 DEF SyncInv, Synced, Elements
  <1>3. CASE sync
    <2>1. /\ pc = "syncing" /\ at \in 1 .. Len(m_params) /\ at' = at + 1
          /\ m_param_value_cache' = [m_param_value_cache EXCEPT ![at] = get_value(m_params[at])]
          /\ UNCHANGED <<list, actual, m_params, m_param_idx_by_id, constructed, pc, restored>>
      BY <1>0, <1>3 DEF sync, SyncInv, plugin, cache, state
    <2>2. at \in DOMAIN m_param_value_cache
      BY <2>1 DEF IndexInv
    <2>3. /\ m_param_value_cache'[at] = get_value(m_params[at])
          /\ \A k \in DOMAIN m_params : k # at => m_param_value_cache'[k] = m_param_value_cache[k]
      BY <2>1, <2>2 DEF IndexInv
    <2>4. \A id : get_value(id)' = get_value(id)
      BY <2>1 DEF get_value, Elements
    <2>5. Synced(at) => Synced(at)'
      BY <1>0, <2>1, <2>3, <2>4 DEF Synced
    <2>6. restored = "yes" => Synced(Len(m_params) + 1)'
      BY <1>0, <2>1, <2>3, <2>4 DEF SyncInv, Synced
    <2> QED
      BY <2>1, <2>5, <2>6 DEF SyncInv, Elements
  <1>4. CASE sync_done
    <2>1. /\ pc = "syncing" /\ pc' = "idle" /\ at \in Nat /\ at >= Len(m_params) + 1 /\ constructed'
          /\ restored' = IF restored = "syncing" THEN "yes" ELSE restored
          /\ UNCHANGED <<list, actual, m_params, m_param_value_cache>>
      BY <1>0, <1>4 DEF sync_done, SyncInv, plugin, cache
    <2>2. Synced(at) => Synced(Len(m_params) + 1)
      BY <1>0, <2>1 DEF Synced
    <2>3. restored' = "yes" => Synced(Len(m_params) + 1)'
      BY <2>1, <2>2 DEF SyncInv, Synced, get_value, Elements
    <2> QED
      BY <2>1, <2>3 DEF SyncInv
  <1>5. CASE rescan \/ controller_set_state
    <2>1. /\ pc = "idle" /\ BeginSync /\ pc' = "syncing" /\ at' = 1
          /\ restored' = "yes" => restored = "yes"
          /\ UNCHANGED <<list, actual, m_params, constructed>>
      BY <1>5 DEF rescan, controller_set_state, BeginSync, plugin, cache, state
    <2>2. constructed /\ UNCHANGED m_param_value_cache
      BY <1>0, <2>1, SyncBegins
    <2>3. Synced(1)'
      BY <1>0, <2>1 DEF Synced
    <2> QED
      BY <2>1, <2>2, <2>3 DEF SyncInv, Synced, get_value, Elements
  <1>6. CASE Values
    <2>1. constructed /\ restored' = "no" /\ UNCHANGED <<constructed, pc, at, m_params>>
      BY <1>0, <1>6 DEF Values, set_parameter_normalised, PluginMoves, PluginRelists, cache
    <2> QED
      BY <2>1 DEF SyncInv
  <1>7. CASE Units
    BY <1>0, <1>7, KeepsSync
       DEF Units, get_parameter_info, NextComponent, WalkDone, select_unit, state
  <1>8. CASE get_state \/ Save \/ SaveDone \/ set_state \/ Load \/ LoadDone
    BY <1>0, <1>8, KeepsSync
       DEF get_state, Save, SaveDone, set_state, Load, LoadDone, plugin, state, StateInv
  <1>9. CASE UNCHANGED vars
    BY <1>9 DEF vars, plugin, cache, state, SyncInv, Synced, get_value, Elements
  <1> QED
    BY <1>1, <1>2, <1>3, <1>4, <1>5, <1>6, <1>7, <1>8, <1>9 DEF Next, Caching, States

LEMMA StoreInvariance == Spec => [](IndexInv /\ StateInv /\ SyncInv)
  <1>1. Init => IndexInv /\ StateInv /\ SyncInv
    BY InitIndex, InitState, InitSync
  <1>2. IndexInv /\ StateInv /\ SyncInv /\ [Next]_vars => (IndexInv /\ StateInv /\ SyncInv)'
    BY StepIndex, StepState, StepSync
  <1> QED
    BY <1>1, <1>2, PTL DEF Spec

\* A state that was loaded, and that the controller was told to follow, is
\* shown: for streams that give any part of what is asked and fail at any
\* time, and for parameters that come and go (set_state of component and of
\* controller).
THEOREM StateAlwaysRestored == Spec => []StateRestored
  <1>1. IndexInv /\ StateInv /\ SyncInv => StateRestored
    <2> SUFFICES ASSUME IndexInv, StateInv, SyncInv, restored = "yes", NEW i \in DOMAIN saved,
                        saved[i].id \in Elements(list), Found(m_param_idx_by_id, saved[i].id)
                 PROVE  get_parameter_normalised(saved[i].id) =
                          normalize(saved[i].id, saved[i].value)
      BY DEF StateRestored
    <2>1. saved[i].id \in Ids /\ i < Len(saved) + 1
      <3>1. saved \in Seq(Saved)
        BY DEF StateInv
      <3> QED
        BY <3>1, SavedFields, ElementOfSeq
    <2>2. actual[saved[i].id] = saved[i].value
      BY <2>1 DEF StateInv, Loaded
    <2> DEFINE k == At(m_param_idx_by_id, saved[i].id) + 1
    <2>3. k \in DOMAIN m_params /\ m_params[k] = saved[i].id
      BY <2>1 DEF IndexInv, Indexed
    <2>4. k < Len(m_params) + 1
      <3>1. m_params \in Seq(Ids)
        BY DEF IndexInv
      <3> HIDE DEF k
      <3> QED
        BY <2>3, <3>1
    <2>5. m_param_value_cache[k] = get_value(saved[i].id)
      BY <2>3, <2>4 DEF SyncInv, Synced
    <2> QED
      BY <2>2, <2>5 DEF get_parameter_normalised, get_value
  <1> QED
    BY <1>1, StoreInvariance, PTL

-----------------------------------------------------------------------------
\* The conversions: a position, made plain and a position again, is the
\* nearest one that the parameter has.
LEMMA Divided ==
  ASSUME NEW a \in Int, NEW b \in Nat \ {0}, NEW q \in Int, q * b <= a, a < (q + 1) * b
  PROVE  a \div b = q
  OBVIOUS

LEMMA DividedBounds ==
  ASSUME NEW a \in Nat, NEW b \in Nat \ {0}
  PROVE  /\ a \div b \in Nat
         /\ (a \div b) * b <= a /\ a < (a \div b + 1) * b
  OBVIOUS

LEMMA ProductsOrdered ==
  ASSUME NEW i \in Nat, NEW j \in Nat, i <= j, NEW b \in Nat
  PROVE  i * b <= j * b
  OBVIOUS

LEMMA NearestKept ==
  ASSUME NEW id \in Ids, NEW n \in Positions
  PROVE  normalize(id, denormalize(id, n)) = Nearest[id][n]
  <1>1. /\ Info[id].min \in Int /\ Info[id].max \in Int /\ Info[id].min <= Info[id].max
        /\ Scale \in Nat \ {0} /\ n \in 0 .. Scale /\ n \in Nat
    BY ParametersAssumption
  <1> DEFINE min   == Info[id].min
             range == Info[id].max - Info[id].min
             part  == n * (range + 1)
             Has(j) == j * Scale <= part /\ (part < (j + 1) * Scale \/ j = range)
             step  == CHOOSE j \in 0 .. range : Has(j)
             least == Smaller(range, part \div Scale)
  <1>2. Nearest[id][n] = IF range = 0 THEN min * Scale
                         ELSE IF ~Info[id].stepped THEN n ELSE (step * Scale) \div range
    BY <1>1 DEF Nearest
  <1>3. denormalize(id, n) = IF Info[id].stepped THEN (min + least) * Scale
                             ELSE min * Scale + n * range
    BY DEF denormalize
  <1>4. \A plain : normalize(id, plain) =
          IF range = 0 THEN min * Scale ELSE (plain - min * Scale) \div range
    BY <1>1 DEF normalize
  <1>5. min \in Int /\ range \in Nat
    BY <1>1
  <1> HIDE DEF min, range
  <1>6. CASE range = 0
    BY <1>2, <1>4, <1>6
  <1>7. CASE range # 0 /\ ~Info[id].stepped
    <2>1. n * range \in Int /\ min * Scale \in Int
      BY <1>1, <1>5
    <2>2. (min * Scale + n * range) - min * Scale = n * range
      BY <2>1
    <2>3. n * range < (n + 1) * range
      BY <1>1, <1>5, <1>7
    <2>4. (n * range) \div range = n
      BY <1>1, <1>5, <1>7, <2>1, <2>3, Divided
    <2> QED
      BY <1>2, <1>3, <1>4, <1>7, <2>2, <2>4
  <1>8. CASE range # 0 /\ Info[id].stepped
    <2>1. part \in Nat
      BY <1>1, <1>5
    <2>2. part <= Scale * (range + 1)
      BY <1>1, <1>5, ProductsOrdered
    <2> HIDE DEF part
    <2> DEFINE q == part \div Scale
    <2>3. q \in Nat /\ q * Scale <= part /\ part < (q + 1) * Scale
      BY <1>1, <2>1, DividedBounds
    <2>4. least = IF range < q THEN range ELSE q
      BY DEF Smaller
    <2> HIDE DEF q
    <2>5. least \in 0 .. range /\ Has(least)
      <3>1. CASE range < q
        <4>1. range * Scale <= q * Scale /\ range * Scale \in Nat /\ q * Scale \in Nat
          BY <1>1, <1>5, <2>3, <3>1, ProductsOrdered
        <4> QED
          BY <1>5, <2>1, <2>3, <2>4, <3>1, <4>1
      <3>2. CASE ~(range < q)
        BY <1>5, <2>3, <2>4, <3>2
      <3> QED
        BY <3>1, <3>2
    <2> HIDE DEF least
    <2>6. ASSUME NEW i \in 0 .. range, NEW j \in 0 .. range, Has(i), Has(j), i < j
          PROVE  FALSE
      <3>1. part < (i + 1) * Scale /\ j * Scale <= part
        BY <1>5, <2>6
      <3>2. (i + 1) * Scale <= j * Scale
        BY <1>1, <1>5, <2>6, ProductsOrdered
      <3>3. (i + 1) * Scale \in Nat /\ j * Scale \in Nat
        BY <1>1, <1>5
      <3> QED
        BY <2>1, <3>1, <3>2, <3>3
    <2>7. step \in 0 .. range /\ Has(step)
      BY <2>5
    <2> HIDE DEF Has, step
    <2>8. step = least
      BY <1>5, <2>5, <2>6, <2>7
    <2>9. (min + least) * Scale - min * Scale = least * Scale
      BY <1>1, <1>5, <2>5
    <2> QED
      BY <1>2, <1>3, <1>4, <1>8, <2>8, <2>9
  <1> QED
    BY <1>6, <1>7, <1>8

LEMMA PositionsInteger ==
  ASSUME NEW id \in Ids, NEW plain \in Int
  PROVE  normalize(id, plain) \in Int
  <1>1. /\ Info[id].min \in Int /\ Info[id].max \in Int /\ Info[id].min <= Info[id].max
        /\ Scale \in Nat
    BY ParametersAssumption
  <1> DEFINE start == Info[id].min * Scale
             range == Info[id].max - Info[id].min
  <1>2. start \in Int /\ plain - start \in Int /\ range \in Nat
    BY <1>1
  <1>3. normalize(id, plain) = IF range = 0 THEN start ELSE (plain - start) \div range
    BY <1>1 DEF normalize
  <1> HIDE DEF start, range
  <1> QED
    BY <1>2, <1>3

-----------------------------------------------------------------------------
\* The controller implements the store.
StoreInv == IndexInv /\ StateInv /\ SyncInv

ShownValues == [id \in Ids |-> Shown(id)]
PluginValues == [id \in Ids |-> Told(id)]

StoreStep == [Store!Next]_<<ShownValues, PluginValues>>

LEMMA ValuesKept ==
  ASSUME UNCHANGED plugin
  PROVE  /\ UNCHANGED PluginValues
         /\ \A id \in Ids : get_value(id)' = get_value(id) /\ Told(id)' = Told(id)
  BY DEF plugin, PluginValues, Told, get_value, Elements, normalize

LEMMA ShownKept ==
  ASSUME constructed, UNCHANGED <<constructed, cache, m_param_value_cache>>
  PROVE  UNCHANGED ShownValues
  BY DEF cache, ShownValues, Shown, get_parameter_normalised, Found, At, normalize

\* Before the host has the component it is shown what the plugin has.
LEMMA NotShownYet ==
  ASSUME ~constructed, ~constructed', UNCHANGED plugin
  PROVE  UNCHANGED ShownValues
  BY ValuesKept DEF ShownValues, Shown

\* The list is read and the values with it when the host gets the component.
LEMMA ConstructedShown ==
  ASSUME StoreInv, sync_done, ~constructed
  PROVE  UNCHANGED ShownValues
  <1>1. /\ pc = "syncing" /\ at > Len(m_params) /\ constructed'
        /\ UNCHANGED <<plugin, cache, m_param_value_cache>>
    BY DEF sync_done
  <1>2. m_params \in Seq(Ids) /\ at \in Nat
    BY <1>1 DEF StoreInv, IndexInv, SyncInv
  <1>3. ASSUME NEW id \in Ids
        PROVE  Shown(id)' = Told(id)
    <2>1. CASE Found(m_param_idx_by_id, id)
      <3> DEFINE k == At(m_param_idx_by_id, id) + 1
      <3>1. k \in DOMAIN m_params /\ m_params[k] = id
        BY <2>1 DEF StoreInv, IndexInv, Indexed
      <3>2. k < at
        <4> HIDE DEF k
        <4> QED
          BY <1>1, <1>2, <3>1
      <3>3. m_param_value_cache[k] = get_value(id)
        BY <1>1, <3>1, <3>2 DEF StoreInv, SyncInv, Synced
      <3> QED
        BY <1>1, <2>1, <3>3
           DEF Shown, Told, get_parameter_normalised, cache, Found, At, normalize
    <2>2. CASE ~Found(m_param_idx_by_id, id)
      <3>1. id \notin Elements(list)
        BY <1>1, <2>2 DEF StoreInv, SyncInv
      <3> QED
        BY <1>1, <2>2, <3>1 DEF Shown, Told, get_value, cache, Found, normalize
    <2> QED
      BY <2>1, <2>2
  <1>4. \A id \in Ids : Shown(id) = Told(id)
    BY DEF Shown
  <1> QED
    BY <1>3, <1>4 DEF ShownValues

\* What a parameter of the list shows when its value is stored.
LEMMA OneShown ==
  ASSUME StoreInv, constructed, UNCHANGED <<constructed, cache>>,
         NEW k \in DOMAIN m_params, NEW plain,
         m_param_value_cache' = [m_param_value_cache EXCEPT ![k] = plain]
  PROVE  ShownValues' = [ShownValues EXCEPT ![m_params[k]] = normalize(m_params[k], plain)]
  <1>1. /\ m_params \in Seq(Ids) /\ DOMAIN m_params = 1 .. Len(m_params) /\ pc # "caching"
        /\ \A i, j \in DOMAIN m_params : m_params[i] = m_params[j] => i = j
        /\ m_param_value_cache = [i \in 1 .. Len(m_params) |-> m_param_value_cache[i]]
    BY DEF StoreInv, IndexInv, SyncInv
  <1>2. m_params[k] \in Ids
    BY <1>1, ElementOfSeq
  <1>3. UNCHANGED m_param_idx_by_id
    BY DEF cache
  <1>4. ASSUME NEW id \in Ids, Found(m_param_idx_by_id, id)
        PROVE  /\ At(m_param_idx_by_id, id) + 1 \in DOMAIN m_params
               /\ m_params[At(m_param_idx_by_id, id) + 1] = id
    BY <1>4 DEF StoreInv, IndexInv, Indexed
  <1>5. Found(m_param_idx_by_id, m_params[k]) /\ At(m_param_idx_by_id, m_params[k]) + 1 = k
    <2>1. Found(m_param_idx_by_id, m_params[k])
      BY <1>2 DEF StoreInv, IndexInv, Indexed
    <2> QED
      BY <1>1, <1>2, <1>4, <2>1
  <1>6. ASSUME NEW id \in Ids \ {m_params[k]}
        PROVE  Shown(id)' = Shown(id)
    <2>1. CASE Found(m_param_idx_by_id, id)
      <3> DEFINE i == At(m_param_idx_by_id, id) + 1
      <3>1. i \in DOMAIN m_params /\ i # k
        BY <1>4, <1>6, <2>1
      <3>2. m_param_value_cache'[i] = m_param_value_cache[i]
        <4> HIDE DEF i
        <4> QED
          BY <1>1, <3>1
      <3> QED
        BY <1>3, <2>1, <3>2 DEF Shown, get_parameter_normalised, Found, At, normalize
    <2>2. CASE ~Found(m_param_idx_by_id, id)
      BY <1>3, <2>2 DEF Shown, Found, normalize
    <2> QED
      BY <2>1, <2>2
  <1>7. Shown(m_params[k])' = normalize(m_params[k], plain)
    <2>1. m_param_value_cache'[k] = plain
      BY <1>1
    <2>2. m_params' = m_params
      BY DEF cache
    <2> QED
      BY <1>3, <1>5, <2>1, <2>2 DEF Shown, get_parameter_normalised, Found, At, normalize
  <1>8. m_params' = m_params
    BY DEF cache
  <1>9. \A id \in Ids : Shown(id)' = IF id = m_params[k] THEN normalize(m_params[k], plain) ELSE Shown(id)
    BY <1>2, <1>6, <1>7, <1>8
  <1>10. ShownValues' = [id \in Ids |-> Shown(id)']
    BY DEF ShownValues
  <1> QED
    BY <1>2, <1>9, <1>10 DEF ShownValues

\* A value is read back.
LEMMA SyncRefreshes ==
  ASSUME StoreInv, sync, constructed
  PROVE  StoreStep
  <1>1. /\ m_params \in Seq(Ids) /\ at \in DOMAIN m_params
        /\ m_param_value_cache' = [m_param_value_cache EXCEPT ![at] = get_value(m_params[at])]
        /\ UNCHANGED <<plugin, constructed, cache>>
    <2>1. m_params \in Seq(Ids) /\ at \in Nat \ {0} /\ at <= Len(m_params)
      BY DEF StoreInv, IndexInv, SyncInv, sync
    <2> QED
      BY <2>1 DEF sync
  <1>2. m_params[at] \in Ids
    BY <1>1, ElementOfSeq
  <1>3. ShownValues' = [ShownValues EXCEPT ![m_params[at]] = Told(m_params[at])]
    BY <1>1, OneShown DEF Told
  <1>4. UNCHANGED PluginValues /\ PluginValues[m_params[at]] = Told(m_params[at])
    BY <1>1, <1>2, ValuesKept DEF PluginValues
  <1>5. ShownValues' = [ShownValues EXCEPT ![m_params[at]] = PluginValues[m_params[at]]]
    BY <1>3, <1>4
  <1>6. Store!Refresh(m_params[at])
    BY <1>4, <1>5 DEF Store!Refresh, ShownValues, PluginValues
  <1> QED
    BY <1>2, <1>6 DEF StoreStep, Store!Next

\* The host sets a value.
LEMMA HostSetsValue ==
  ASSUME StoreInv, NEW id \in Ids, NEW n \in Positions, set_parameter_normalised(id, n)
  PROVE  StoreStep
  <1> DEFINE k == At(m_param_idx_by_id, id) + 1
  <1>1. /\ pc = "idle" /\ Found(m_param_idx_by_id, id)
        /\ m_param_value_cache' = [m_param_value_cache EXCEPT ![k] = denormalize(id, n)]
        /\ UNCHANGED <<plugin, constructed, cache>>
    BY DEF set_parameter_normalised
  <1>2. constructed /\ k \in DOMAIN m_params /\ m_params[k] = id
    BY <1>1 DEF StoreInv, IndexInv, Indexed
  <1>3. ShownValues' = [ShownValues EXCEPT ![id] = Nearest[id][n]]
    <2>1. PICK i : i = k
      OBVIOUS
    <2> HIDE DEF k
    <2>2. ShownValues' = [ShownValues EXCEPT ![m_params[i]] = normalize(m_params[i], denormalize(id, n))]
      BY <1>1, <1>2, <2>1, OneShown
    <2> QED
      BY <1>2, <2>1, <2>2, NearestKept
  <1>4. UNCHANGED PluginValues
    BY <1>1, ValuesKept
  <1>5. Store!HostSets(id, n)
    BY <1>3, <1>4 DEF Store!HostSets, ShownValues, PluginValues
  <1> QED
    BY <1>5 DEF StoreStep, Store!Next

\* The plugin's values change.
LEMMA PluginMovesValues ==
  ASSUME StoreInv, StateInv', constructed,
         UNCHANGED <<constructed, cache, m_param_value_cache>>
  PROVE  StoreStep
  <1>1. ASSUME NEW id \in Ids PROVE Told(id)' \in Int
    <2>1. get_value(id)' \in Int
      BY DEF get_value, StateInv
    <2>2. Told(id)' = normalize(id, get_value(id)')
      BY DEF Told, normalize
    <2> QED
      BY <2>1, <2>2, PositionsInteger
  <1>2. PluginValues' \in [Ids -> Int]
    BY <1>1 DEF PluginValues
  <1>3. UNCHANGED ShownValues
    BY ShownKept
  <1>4. Store!PluginMoves
    BY <1>2, <1>3 DEF Store!PluginMoves, ShownValues, PluginValues
  <1> QED
    BY <1>4 DEF StoreStep, Store!Next

LEMMA StepStores ==
  ASSUME StoreInv, StateInv', [Next]_vars
  PROVE  StoreStep
  <1>0. /\ pc \in {"idle", "walking", "saving", "loading"} => constructed
        /\ pc = "caching" => ~constructed
    BY DEF StoreInv, IndexInv
  <1>1. ASSUME constructed, UNCHANGED <<plugin, constructed, cache, m_param_value_cache>>
        PROVE  StoreStep
    BY <1>1, ShownKept, ValuesKept DEF StoreStep
  <1>2. ASSUME ~constructed, ~constructed', UNCHANGED plugin
        PROVE  StoreStep
    BY <1>2, NotShownYet, ValuesKept DEF StoreStep
  <1>3. CASE cache_params \/ cache_params_done
    BY <1>0, <1>2, <1>3 DEF cache_params, cache_params_done
  <1>4. CASE sync
    <2>1. CASE constructed
      BY <1>4, <2>1, SyncRefreshes
    <2>2. CASE ~constructed
      BY <1>2, <1>4, <2>2 DEF sync
    <2> QED
      BY <2>1, <2>2
  <1>5. CASE sync_done
    <2>1. CASE constructed
      BY <1>1, <1>5, <2>1 DEF sync_done
    <2>2. CASE ~constructed
      <3>1. UNCHANGED PluginValues
        BY <1>5, ValuesKept DEF sync_done
      <3> QED
        BY <1>5, <2>2, <3>1, ConstructedShown DEF StoreStep
    <2> QED
      BY <2>1, <2>2
  <1>6. CASE rescan \/ controller_set_state
    <2>1. /\ pc = "idle" /\ BeginSync /\ UNCHANGED <<plugin, constructed, cache>>
      BY <1>6 DEF rescan, controller_set_state
    <2>2. UNCHANGED m_param_value_cache
      BY <2>1, SyncBegins DEF StoreInv
    <2> QED
      BY <1>0, <1>1, <2>1, <2>2
  <1>7. ASSUME NEW id \in Ids, NEW n \in Positions, set_parameter_normalised(id, n)
        PROVE  StoreStep
    BY <1>7, HostSetsValue
  <1>8. ASSUME NEW id \in Ids, NEW plain, PluginMoves(id, plain)
        PROVE  StoreStep
    BY <1>8, PluginMovesValues DEF PluginMoves
  <1>9. ASSUME NEW l, PluginRelists(l)
        PROVE  StoreStep
    BY <1>0, <1>9, PluginMovesValues DEF PluginRelists
  <1>10. CASE Units
    BY <1>0, <1>1, <1>10
       DEF Units, get_parameter_info, NextComponent, WalkDone, select_unit
  <1>11. CASE get_state \/ Save \/ SaveDone \/ set_state \/ LoadDone
    BY <1>0, <1>1, <1>11 DEF get_state, Save, SaveDone, set_state, LoadDone
  <1>12. CASE Load
    BY <1>0, <1>12, PluginMovesValues DEF Load
  <1>13. CASE UNCHANGED vars
    <2>1. UNCHANGED <<plugin, constructed, cache, m_param_value_cache>>
      BY <1>13 DEF vars
    <2> QED
      BY <1>1, <1>2, <2>1
  <1> QED
    BY <1>3, <1>4, <1>5, <1>6, <1>7, <1>8, <1>9, <1>10, <1>11, <1>12, <1>13
       DEF Next, Caching, Values, States

\* The controller is a store of values: the host reads what it set, to the
\* nearest step, until it sets another or the controller asks the plugin.
THEOREM StoreImplemented == Spec => ImplementsStore
  <1>1. Init => Store!Init
    BY DEF Init, Store!Init, Shown
  <1>2. StoreInv /\ StateInv' /\ [Next]_vars =>
          [Store!Next]_<<[id \in Ids |-> Shown(id)], [id \in Ids |-> Told(id)]>>
    BY StepStores DEF StoreStep, ShownValues, PluginValues
  <1>3. Spec => []StoreInv
    BY StoreInvariance DEF StoreInv
  <1>4. StoreInv => StateInv
    BY DEF StoreInv
  <1> QED
    BY <1>1, <1>2, <1>3, <1>4, PTL DEF Spec, ImplementsStore, Store!Spec

-----------------------------------------------------------------------------
(***************************************************************************)
(* Texts.  Scale stands for how fine normalised values are.  It has to be  *)
(* fine enough that a step, rounded to a normalised value, is still in the *)
(* part of the range that belongs to the step: for doubles, with their 53  *)
(* bits, this is so for parameters of up to some ninety million steps.     *)
(***************************************************************************)
FineScale ==
  \A id \in Ids :
    LET range == Info[id].max - Info[id].min IN
    Info[id].stepped /\ range > 0 =>
      (\E k \in Nat : Scale = k * range) \/ range * (range - 1) <= Scale

\* A step, made a normalised value, is read back as the step.
LEMMA StepKept ==
  ASSUME NEW S \in Nat \ {0}, NEW r \in Nat \ {0}, NEW j \in 0 .. r,
         (\E k \in Nat : S = k * r) \/ r * (r - 1) <= S
  PROVE  Smaller(r, (((j * S) \div r) * (r + 1)) \div S) = j
  <1>1. PICK a \in Nat : a = j * S
    <2>1. j * S \in Nat
      OBVIOUS
    <2> QED
      BY <2>1
  <1>2. PICK n \in Nat : n = a \div r
    BY DividedBounds
  <1>3. PICK c \in Nat : c = n * r
    <2>1. n * r \in Nat
      OBVIOUS
    <2> QED
      BY <2>1
  <1>4. c <= a /\ a < c + r
    <2>1. n * r <= a /\ a < (n + 1) * r
      BY <1>2, DividedBounds
    <2>2. (n + 1) * r = n * r + r
      OBVIOUS
    <2> QED
      BY <1>3, <2>1, <2>2
  <1>5. n * (r + 1) = c + n
    BY <1>3
  <1>6. CASE j = r
    <2>1. n = S
      <3>1. S * r <= a /\ a < (S + 1) * r
        BY <1>1, <1>6
      <3> QED
        BY <1>2, <3>1, Divided
    <2>2. (c + n) \div S = r + 1
      <3>1. (r + 1) * S <= c + n /\ c + n < ((r + 1) + 1) * S /\ c + n \in Int
        BY <1>3, <2>1
      <3> QED
        BY <3>1, Divided
    <2>3. Smaller(r, r + 1) = j
      BY <1>6 DEF Smaller
    <2> QED
      BY <1>1, <1>2, <1>5, <2>2, <2>3
  <1>7. CASE j < r
    <2>1. a - c <= n
      <3>1. CASE \E k \in Nat : S = k * r
        <4>1. PICK k \in Nat : S = k * r
          BY <3>1
        <4>2. PICK m \in Nat : m = j * k
          <5>1. j * k \in Nat
            OBVIOUS
          <5> QED
            BY <5>1
        <4>3. a = m * r
          BY <1>1, <4>1, <4>2
        <4>4. m * r <= a /\ a < (m + 1) * r
          BY <4>3
        <4>5. n = m
          BY <1>2, <4>4, Divided
        <4> QED
          BY <1>3, <4>3, <4>5
      <3>2. CASE r * (r - 1) <= S /\ j # 0
        <4>1. S <= a
          BY <1>1, <3>2
        <4>2. r * (r - 1) < (n + 1) * r
          BY <1>3, <1>4, <3>2, <4>1
        <4>3. r - 1 < n + 1
          <5>1. SUFFICES ASSUME n + 1 <= r - 1 PROVE FALSE
            OBVIOUS
          <5>2. r - 1 \in Nat /\ n + 1 \in Nat /\ (n + 1) * r <= (r - 1) * r
            BY <5>1, ProductsOrdered
          <5> QED
            BY <4>2, <5>2
        <4> QED
          BY <1>4, <4>3
      <3>3. CASE j = 0
        <4>1. a = 0
          BY <1>1, <3>3
        <4> QED
          BY <1>4, <4>1
      <3> QED
        BY <3>1, <3>2, <3>3
    <2>2. n < S
      <3> SUFFICES ASSUME S <= n PROVE FALSE
        OBVIOUS
      <3>1. S * r <= n * r
        BY ProductsOrdered
      <3>2. a <= (r - 1) * S
        <4>1. j <= r - 1 /\ r - 1 \in Nat /\ j \in Nat
          BY <1>7
        <4> QED
          BY <1>1, <4>1, ProductsOrdered
      <3>3. (r - 1) * S = S * r - S
        OBVIOUS
      <3>4. S * r \in Nat
        OBVIOUS
      <3> QED
        BY <1>3, <1>4, <3>1, <3>2, <3>3, <3>4
    <2>3. j * S <= c + n /\ c + n < (j + 1) * S
      <3>1. (j + 1) * S = a + S
        BY <1>1
      <3> QED
        BY <1>1, <1>4, <2>1, <2>2, <3>1
    <2>4. (c + n) \div S = j
      BY <2>3, Divided
    <2>5. Smaller(r, j) = j
      BY <1>7 DEF Smaller
    <2> QED
      BY <1>1, <1>2, <1>5, <2>4, <2>5
  <1> QED
    BY <1>6, <1>7

\* A number of steps.
Whole(plain) == \E q \in Int : plain = q * Scale

\* The text of a value that is shown is read back as this value.
LEMMA TextKept ==
  ASSUME FineScale, NEW id \in Ids, NEW plain \in Int,
         Info[id].stepped => Whole(plain), normalize(id, plain) \in 0 .. Scale
  PROVE  normalize(id, denormalize(id, normalize(id, plain))) = normalize(id, plain)
  <1>1. /\ Info[id].min \in Int /\ Info[id].max \in Int /\ Info[id].min <= Info[id].max
        /\ Scale \in Nat \ {0}
    BY ParametersAssumption
  <1> DEFINE min   == Info[id].min
             range == Info[id].max - Info[id].min
  <1>2. range \in Nat /\ min \in Int /\ (Info[id].max = Info[id].min <=> range = 0)
    BY <1>1
  <1>3. \A x : normalize(id, x) = IF range = 0 THEN min * Scale ELSE (x - min * Scale) \div range
    BY <1>1 DEF normalize
  <1>4. \A n : denormalize(id, n) =
                 IF Info[id].stepped
                 THEN (min + Smaller(range, (n * (range + 1)) \div Scale)) * Scale
                 ELSE min * Scale + n * range
    BY DEF denormalize
  <1>5. Info[id].stepped /\ range > 0 => (\E k \in Nat : Scale = k * range) \/ range * (range - 1) <= Scale
    BY DEF FineScale
  <1> HIDE DEF min, range
  <1>6. PICK n \in 0 .. Scale : n = normalize(id, plain)
    OBVIOUS
  <1>7. CASE range = 0
    BY <1>3, <1>7
  <1>8. CASE range # 0 /\ ~Info[id].stepped
    <2>1. PICK start \in Int : start = min * Scale
      BY <1>1, <1>2
    <2>2. PICK x \in Int : x = n * range
      BY <1>2, <1>6
    <2>3. denormalize(id, n) = start + x
      BY <1>4, <1>8, <2>1, <2>2
    <2>4. normalize(id, start + x) = x \div range
      BY <1>3, <1>8, <2>1
    <2>5. x \div range = n
      <3>1. n * range <= x /\ x < (n + 1) * range /\ range \in Nat \ {0}
        BY <1>2, <1>8, <2>2
      <3> QED
        BY <3>1, Divided
    <2> QED
      BY <1>6, <2>3, <2>4, <2>5
  <1>9. CASE range # 0 /\ Info[id].stepped
    <2>1. PICK q \in Int : plain = q * Scale
      BY <1>9 DEF Whole
    <2>2. PICK j \in Int : j = q - min
      BY <1>2
    <2>3. plain - min * Scale = j * Scale
      BY <1>1, <1>2, <2>1, <2>2
    <2>4. n = (j * Scale) \div range
      BY <1>3, <1>6, <1>9, <2>3
    <2>5. range \in Nat \ {0}
      BY <1>2, <1>9
    <2>6. j \in Nat
      <3> SUFFICES ASSUME j < 0 PROVE FALSE
        OBVIOUS
      <3>1. PICK a \in Int : a = j * Scale /\ a < 0
        <4>1. j * Scale \in Int /\ j * Scale < 0
          BY <1>1
        <4> QED
          BY <4>1
      <3>2. a \div range < 0
        BY <2>5, <3>1
      <3> QED
        BY <1>6, <2>4, <3>1, <3>2
    <2>7. CASE j <= range
      <3>1. Smaller(range, (n * (range + 1)) \div Scale) = j
        <4>1. j \in 0 .. range /\ ((\E k \in Nat : Scale = k * range) \/ range * (range - 1) <= Scale)
          BY <1>2, <1>5, <1>9, <2>6, <2>7
        <4> QED
          BY <1>1, <2>4, <2>5, <4>1, StepKept
      <3>2. denormalize(id, n) = (min + j) * Scale
        BY <1>4, <1>9, <3>1
      <3>3. (min + j) * Scale - min * Scale = j * Scale
        BY <1>1, <1>2
      <3> QED
        BY <1>3, <1>6, <1>9, <2>4, <3>2, <3>3
    \* A value beyond the last step is shown as the last step, if at all.
    <2>8. CASE range < j
      <3>1. Scale \in Nat \ {0} /\ range \in Nat \ {0}
        BY <1>1, <2>5
      <3>2. PICK a \in Nat : a = j * Scale
        <4>1. j * Scale \in Nat
          BY <2>6, <3>1
        <4> QED
          BY <4>1
      <3>3. Scale * range <= a
        <4>1. range * Scale <= j * Scale
          BY <2>6, <2>8, <3>1, ProductsOrdered
        <4> QED
          BY <3>1, <3>2, <4>1
      <3>4. n = Scale
        <4>1. a < (n + 1) * range /\ n \in Nat
          <5>1. n = a \div range /\ n \in Nat
            BY <1>6, <2>4, <3>2
          <5> QED
            BY <3>1, <5>1, DividedBounds
        <4>2. SUFFICES ASSUME n + 1 <= Scale PROVE FALSE
          BY <1>6, <3>1
        <4>3. (n + 1) * range <= Scale * range
          BY <3>1, <4>1, <4>2, ProductsOrdered
        <4> QED
          BY <3>1, <3>3, <4>1, <4>3
      <3>5. (n * (range + 1)) \div Scale = range + 1
        <4>1. PICK b \in Int : b = n * (range + 1)
          BY <3>1, <3>4
        <4>2. (range + 1) * Scale = b /\ ((range + 1) + 1) * Scale = b + Scale
          BY <3>1, <3>4, <4>1
        <4>3. (range + 1) * Scale <= b /\ b < ((range + 1) + 1) * Scale /\ range + 1 \in Int
          BY <3>1, <4>1, <4>2
        <4>4. b \div Scale = range + 1
          BY <3>1, <4>1, <4>3, Divided
        <4> QED
          BY <4>1, <4>4
      <3>6. denormalize(id, n) = (min + range) * Scale
        <4>1. Smaller(range, range + 1) = range
          BY <3>1 DEF Smaller
        <4> QED
          BY <1>4, <1>9, <3>5, <4>1
      <3>7. (min + range) * Scale - min * Scale = range * Scale
        BY <1>1, <1>2
      <3>8. (range * Scale) \div range = Scale
        <4>1. Scale * range <= range * Scale /\ range * Scale < (Scale + 1) * range
              /\ range * Scale \in Int
          BY <3>1
        <4> QED
          BY <3>1, <4>1, Divided
      <3> QED
        BY <1>3, <1>6, <1>9, <3>4, <3>6, <3>7, <3>8
    <2> QED
      BY <1>2, <2>6, <2>7, <2>8
  <1> QED
    BY <1>7, <1>8, <1>9

\* Whatever the controller, the plugin or a saved state has of a parameter is a
\* value that the parameter may have, or the 0 in place of one.
Plain(id, value) == value \in Int /\ (Info[id].stepped => Whole(value))

PlainInv ==
  /\ \A id \in Ids : Plain(id, actual[id])
  /\ \A i \in DOMAIN saved : Plain(saved[i].id, saved[i].value)
  /\ pc = "caching" => m_param_value_cache = << >>
  /\ pc # "caching" => \A i \in DOMAIN m_params : Plain(m_params[i], m_param_value_cache[i])

LEMMA DenormalizedPlain ==
  ASSUME NEW id \in Ids, NEW n \in Positions
  PROVE  Plain(id, denormalize(id, n))
  <1>1. denormalize(id, n) \in Int
    BY PlainIntegers
  <1>2. ASSUME Info[id].stepped PROVE Whole(denormalize(id, n))
    <2>1. /\ Info[id].min \in Int /\ Info[id].max \in Int /\ Scale \in Nat \ {0} /\ n \in Nat
      BY ParametersAssumption
    <2>2. PICK range \in Int : range = Info[id].max - Info[id].min
      BY <2>1
    <2>3. PICK a \in Int : a = n * (range + 1)
      BY <2>1
    <2>4. PICK step \in Int : step = a \div Scale
      BY <2>1
    <2>5. Info[id].min + Smaller(range, step) \in Int
      BY <2>1 DEF Smaller
    <2>6. denormalize(id, n) = (Info[id].min + Smaller(range, step)) * Scale
      BY <1>2, <2>2, <2>3, <2>4 DEF denormalize
    <2> QED
      BY <2>5, <2>6 DEF Whole
  <1> QED
    BY <1>1, <1>2 DEF Plain

LEMMA ZeroPlain == ASSUME NEW id PROVE Plain(id, 0)
  <1>1. 0 = 0 * Scale
    BY ParametersAssumption
  <1> QED
    BY <1>1 DEF Plain, Whole

LEMMA ToldPlain ==
  ASSUME PlainInv, NEW id \in Ids
  PROVE  Plain(id, get_value(id))
  BY ZeroPlain DEF PlainInv, get_value

LEMMA InitPlain == Init => PlainInv
  <1> SUFFICES ASSUME Init PROVE PlainInv
    OBVIOUS
  <1>1. PICK n \in Positions : actual = [id \in Ids |-> denormalize(id, n)]
    BY DEF Init
  <1>2. \A id \in Ids : Plain(id, actual[id])
    BY <1>1, DenormalizedPlain
  <1>3. saved = << >> /\ pc = "caching" /\ m_param_value_cache = << >>
    BY DEF Init
  <1> QED
    BY <1>2, <1>3 DEF PlainInv

\* The loop over the values begins: the values that are there stay.
LEMMA BeginPlain ==
  ASSUME IndexInv, PlainInv, BeginSync, UNCHANGED <<actual, saved, m_params>>
  PROVE  PlainInv'
  <1>1. pc' # "caching" /\ DOMAIN m_params = 1 .. Len(m_params)
        /\ m_param_value_cache' = [i \in 1..Len(m_params) |->
             IF i \in DOMAIN m_param_value_cache THEN m_param_value_cache[i] ELSE 0]
    BY DEF BeginSync, IndexInv
  <1>2. ASSUME NEW i \in DOMAIN m_params PROVE Plain(m_params[i], m_param_value_cache'[i])
    <2>1. CASE pc = "caching"
      <3>1. DOMAIN m_param_value_cache = {}
        BY <2>1 DEF PlainInv
      <3>2. m_param_value_cache'[i] = 0
        BY <1>1, <3>1
      <3> QED
        BY <3>2, ZeroPlain
    <2>2. CASE pc # "caching"
      <3>1. DOMAIN m_param_value_cache = 1 .. Len(m_params)
        BY <2>2 DEF IndexInv
      <3>2. m_param_value_cache'[i] = m_param_value_cache[i]
        BY <1>1, <3>1
      <3> QED
        BY <2>2, <3>2 DEF PlainInv
    <2> QED
      BY <2>1, <2>2
  <1> QED
    BY <1>1, <1>2 DEF PlainInv

LEMMA KeepsPlain ==
  ASSUME PlainInv, UNCHANGED <<actual, saved, m_params, m_param_value_cache>>,
         pc' = "caching" <=> pc = "caching"
  PROVE  PlainInv'
  BY DEF PlainInv

LEMMA StepPlain == IndexInv /\ StateInv /\ PlainInv /\ [Next]_vars => PlainInv'
  <1> SUFFICES ASSUME IndexInv, StateInv, PlainInv, [Next]_vars PROVE PlainInv'
    OBVIOUS
  <1>0. /\ list \in Lists /\ list \in Seq(Ids) /\ Len(list) \in Nat
        /\ m_params \in Seq(Ids) /\ DOMAIN m_params = 1 .. Len(m_params) /\ Len(m_params) \in Nat
        /\ saved \in Seq(Saved) /\ Len(saved) \in Nat /\ DOMAIN saved = 1 .. Len(saved)
    BY ParametersAssumption DEF IndexInv, StateInv
  <1>1. CASE cache_params
    BY <1>1 DEF cache_params, plugin, state, PlainInv
  <1>2. CASE cache_params_done \/ rescan \/ controller_set_state
    BY <1>2, BeginPlain
       DEF cache_params_done, rescan, controller_set_state, plugin, cache, state
  <1>3. CASE sync
    <2>1. /\ pc' = pc /\ pc = "syncing" /\ UNCHANGED <<actual, saved, m_params>>
          /\ m_param_value_cache' = [m_param_value_cache EXCEPT ![at] = get_value(m_params[at])]
      BY <1>3 DEF sync, plugin, cache, state
    <2>2. ASSUME NEW i \in DOMAIN m_params PROVE Plain(m_params[i], m_param_value_cache'[i])
      <3>1. DOMAIN m_param_value_cache = DOMAIN m_params
        BY <1>0, <2>1 DEF IndexInv
      <3>2. CASE i = at
        <4>1. m_param_value_cache'[i] = get_value(m_params[i]) /\ m_params[i] \in Ids
          BY <1>0, <2>1, <3>1, <3>2
        <4> QED
          BY <4>1, ToldPlain
      <3>3. CASE i # at
        <4>1. m_param_value_cache'[i] = m_param_value_cache[i]
          BY <2>1, <3>1, <3>3
        <4> QED
          BY <2>1, <4>1 DEF PlainInv
      <3> QED
        BY <3>2, <3>3
    <2> QED
      BY <2>1, <2>2 DEF PlainInv
  <1>4. CASE sync_done
    BY <1>4, KeepsPlain DEF sync_done, plugin, cache
  <1>5. ASSUME NEW id \in Ids, NEW n \in Positions, set_parameter_normalised(id, n)
        PROVE  PlainInv'
    <2> DEFINE k == At(m_param_idx_by_id, id) + 1
    <2>1. /\ pc' = pc /\ pc = "idle" /\ UNCHANGED <<actual, saved, m_params>>
          /\ m_param_value_cache' = [m_param_value_cache EXCEPT ![k] = denormalize(id, n)]
          /\ Found(m_param_idx_by_id, id)
      BY <1>5 DEF set_parameter_normalised, plugin, cache
    <2>2. m_params[k] = id
      BY <2>1 DEF IndexInv, Indexed
    <2> HIDE DEF k
    <2>3. ASSUME NEW i \in DOMAIN m_params PROVE Plain(m_params[i], m_param_value_cache'[i])
      <3>1. DOMAIN m_param_value_cache = DOMAIN m_params
        BY <1>0, <2>1 DEF IndexInv
      <3>2. CASE i = k
        <4>1. m_param_value_cache'[i] = denormalize(id, n)
          BY <2>1, <3>1, <3>2
        <4> QED
          BY <2>2, <3>2, <4>1, DenormalizedPlain
      <3>3. CASE i # k
        <4>1. m_param_value_cache'[i] = m_param_value_cache[i]
          BY <2>1, <3>1, <3>3
        <4> QED
          BY <2>1, <4>1 DEF PlainInv
      <3> QED
        BY <3>2, <3>3
    <2> QED
      BY <2>1, <2>3 DEF PlainInv
  <1>6. ASSUME NEW id \in Ids, NEW plain \in PlainValues(id), PluginMoves(id, plain)
        PROVE  PlainInv'
    <2>1. Plain(id, plain)
      BY DenormalizedPlain DEF PlainValues
    <2>2. /\ actual' = [actual EXCEPT ![id] = plain]
          /\ UNCHANGED <<pc, saved, m_params, m_param_value_cache>>
      BY <1>6 DEF PluginMoves, cache
    <2>3. actual \in [Ids -> Int]
      BY DEF StateInv
    <2>4. \A x \in Ids : Plain(x, actual'[x])
      BY <2>1, <2>2, <2>3 DEF PlainInv
    <2> QED
      BY <2>2, <2>4 DEF PlainInv
  <1>7. ASSUME NEW l \in Lists, PluginRelists(l) PROVE PlainInv'
    BY <1>7, KeepsPlain DEF PluginRelists, cache
  <1>8. CASE Units
    BY <1>8, KeepsPlain
       DEF Units, get_parameter_info, NextComponent, WalkDone, select_unit, plugin, cache, state
  <1>9. CASE get_state
    BY <1>9 DEF get_state, plugin, cache, PlainInv
  <1>10. CASE Save
    <2>0. /\ pc = "saving" /\ at \in 1 .. Len(list) /\ pc' # "caching"
          /\ UNCHANGED <<actual, m_params, m_param_value_cache>>
      BY <1>0, <1>10 DEF Save, StateInv, plugin, cache
    <2>1. CASE pc' = "idle" /\ saved' = << >>
      BY <2>0, <2>1 DEF PlainInv
    <2>2. CASE ~(pc' = "idle" /\ saved' = << >>)
      <3>1. PICK size \in ReadSizes : \E count \in StreamAnswers(size, Len(list) - at + 1) :
              count # -1 /\ saved' = saved \o SavedBlock(count)
        BY <1>10, <2>2 DEF Save, SavedBlock
      <3>2. PICK count \in StreamAnswers(size, Len(list) - at + 1) :
              count # -1 /\ saved' = saved \o SavedBlock(count)
        BY <3>1
      <3>3. Len(list) - at + 1 \in Nat
        BY <1>0, <2>0
      <3>4. count \in 0 .. Len(list) - at + 1
        BY <3>2, <3>3, Answered
      <3> DEFINE block == SavedBlock(count)
      <3>5. ASSUME NEW i \in 1..count
            PROVE  block[i] \in Saved /\ Plain(block[i].id, block[i].value)
        <4>1. at + i - 1 \in 1 .. Len(list)
          BY <1>0, <2>0, <3>4
        <4>2. list[at + i - 1] \in Ids
          BY <1>0, <4>1
        <4>3. block[i].id = list[at + i - 1] /\ block[i].value = actual[list[at + i - 1]]
              /\ block[i] = [id |-> list[at + i - 1], value |-> actual[list[at + i - 1]]]
          BY DEF SavedBlock
        <4>4. actual[list[at + i - 1]] \in Int
          BY <4>2 DEF StateInv
        <4> QED
          BY <4>2, <4>3, <4>4 DEF PlainInv, Saved
      <3>6. block \in Seq(Saved) /\ Len(block) = count
        <4>1. block = [i \in 1..count |-> block[i]]
          BY DEF SavedBlock
        <4> HIDE DEF block
        <4>2. block \in [1..count -> Saved] /\ count \in Nat
          BY <3>4, <3>5, <4>1
        <4> QED
          BY <4>2
      <3>7. saved' = saved \o block
        BY <3>2
      <3> HIDE DEF block
      <3>8. /\ saved' \in Seq(Saved) /\ Len(saved') = Len(saved) + Len(block)
            /\ \A i \in 1 .. Len(saved) : saved'[i] = saved[i]
            /\ \A i \in 1 .. Len(block) : saved'[Len(saved) + i] = block[i]
        <4>1. PICK u : u = saved' /\ u = saved \o block
          BY <3>7
        <4>2. saved \in Seq(Saved) /\ block \in Seq(Saved)
          BY <1>0, <3>6
        <4>3. /\ u \in Seq(Saved) /\ Len(u) = Len(saved) + Len(block)
              /\ \A i \in 1 .. Len(saved) : u[i] = saved[i]
              /\ \A i \in 1 .. Len(block) : u[Len(saved) + i] = block[i]
          BY <4>1, <4>2, Concatenated
        <4> QED
          BY <4>1, <4>3
      <3>9. ASSUME NEW i \in DOMAIN saved' PROVE Plain(saved'[i].id, saved'[i].value)
        <4>1. i \in 1 .. Len(saved) + count /\ count \in Nat
          BY <3>4, <3>6, <3>8
        <4>2. CASE i \in 1 .. Len(saved)
          BY <1>0, <3>8, <4>2 DEF PlainInv
        <4>3. CASE i \notin 1 .. Len(saved)
          <5>1. PICK k \in 1..count : i = Len(saved) + k
            <6>1. i - Len(saved) \in 1..count /\ i = Len(saved) + (i - Len(saved))
              BY <1>0, <4>1, <4>3
            <6> QED
              BY <6>1
          <5>2. saved'[i] = block[k]
            BY <3>6, <3>8, <5>1
          <5> QED
            BY <3>5, <5>2
        <4> QED
          BY <4>2, <4>3
      <3> QED
        BY <2>0, <3>9 DEF PlainInv
    <2> QED
      BY <2>1, <2>2
  <1>11. CASE SaveDone \/ set_state \/ LoadDone
    BY <1>11, KeepsPlain DEF SaveDone, set_state, LoadDone, plugin, cache, state
  <1>12. CASE Load
    <2>0. /\ pc = "loading" /\ at \in 1 .. Len(saved) /\ pc' # "caching"
          /\ UNCHANGED <<saved, m_params, m_param_value_cache>>
      BY <1>0, <1>12 DEF Load, StateInv, cache
    <2>1. CASE UNCHANGED actual
      BY <2>0, <2>1 DEF PlainInv
    <2>2. CASE ~UNCHANGED actual
      <3>1. PICK size \in ReadSizes : \E count \in StreamAnswers(size, Len(saved) - at + 1) :
              ~(count <= 0) /\ actual' = LoadedBlock(count)
        BY <1>12, <2>2 DEF Load, LoadedBlock
      <3>2. PICK count \in StreamAnswers(size, Len(saved) - at + 1) :
              ~(count <= 0) /\ actual' = LoadedBlock(count)
        BY <3>1
      <3>3. Len(saved) - at + 1 \in Nat
        BY <1>0, <2>0
      <3>4. count \in 1 .. Len(saved) - at + 1
        <4>1. count # -1
          BY <3>2
        <4>2. count \in 0 .. Len(saved) - at + 1
          BY <3>3, <4>1, Answered
        <4> QED
          BY <3>2, <4>2
      <3>5. ASSUME NEW id \in Ids PROVE Plain(id, actual'[id])
        <4>1. CASE \E i \in at .. at + count - 1 : saved[i].id = id
          <5>1. PICK k \in at .. at + count - 1 : saved[k].id = id /\ actual'[id] = saved[k].value
            BY <3>2, <4>1 DEF LoadedBlock
          <5>2. k \in DOMAIN saved
            BY <1>0, <2>0, <3>4
          <5> QED
            BY <5>1, <5>2 DEF PlainInv
        <4>2. CASE ~\E i \in at .. at + count - 1 : saved[i].id = id
          <5>1. actual'[id] = actual[id]
            BY <3>2, <4>2 DEF LoadedBlock
          <5> QED
            BY <5>1 DEF PlainInv
        <4> QED
          BY <4>1, <4>2
      <3> QED
        BY <2>0, <3>5 DEF PlainInv
    <2> QED
      BY <2>1, <2>2
  <1>13. CASE UNCHANGED vars
    BY <1>13, KeepsPlain DEF vars, plugin, cache, state
  <1> QED
    BY <1>1, <1>2, <1>3, <1>4, <1>5, <1>6, <1>7, <1>8, <1>9, <1>10, <1>11, <1>12, <1>13
       DEF Next, Caching, Values, States

\* On a scale that is fine enough, the text of a value that the controller shows,
\* given back by the host, is the value shown: for any parameters, stepped or
\* not, wherever the value came from (get_parameter_string_for_value,
\* get_parameter_value_for_string).
THEOREM TextsAlwaysTrue == FineScale /\ Spec => []TextsTrue
  <1>1. FineScale /\ IndexInv /\ PlainInv => TextsTrue
    <2> SUFFICES ASSUME FineScale, IndexInv, PlainInv, pc = "idle", NEW id \in Ids,
                        Found(m_param_idx_by_id, id), get_parameter_normalised(id) \in 0 .. Scale
                 PROVE  LET n == get_parameter_normalised(id) IN
                        get_parameter_value_for_string(get_parameter_string_for_value(id, n)) = n
      BY DEF TextsTrue
    <2>1. PICK k : k = At(m_param_idx_by_id, id) + 1
      OBVIOUS
    <2>2. k \in DOMAIN m_params /\ m_params[k] = id
      BY <2>1 DEF IndexInv, Indexed
    <2>3. PICK plain \in Int : plain = m_param_value_cache[k] /\ Plain(id, plain)
      BY <2>2 DEF PlainInv, Plain
    <2>4. PICK n : n = get_parameter_normalised(id)
      OBVIOUS
    <2>5. n = normalize(id, plain)
      BY <2>1, <2>3, <2>4 DEF get_parameter_normalised
    <2>6. normalize(id, denormalize(id, n)) = n
      BY <2>3, <2>4, <2>5, TextKept DEF Plain
    <2>7. get_parameter_string_for_value(id, n) = <<id, denormalize(id, n)>>
      BY DEF get_parameter_string_for_value, normalised_parameter_to_plain
    <2>8. get_parameter_value_for_string(<<id, denormalize(id, n)>>) = n
      BY <2>6 DEF get_parameter_value_for_string, plain_parameter_to_normalised
    <2> QED
      BY <2>4, <2>7, <2>8
  <1>2. Init => PlainInv
    BY InitPlain
  <1>3. (IndexInv /\ StateInv /\ SyncInv) /\ PlainInv /\ [Next]_vars => PlainInv'
    BY StepPlain
  <1>4. FineScale => FineScale'
    BY DEF FineScale
  <1>5. Spec => [](IndexInv /\ StateInv /\ SyncInv)
    BY StoreInvariance
  <1> QED
    BY <1>1, <1>2, <1>3, <1>4, <1>5, PTL DEF Spec
=============================================================================
