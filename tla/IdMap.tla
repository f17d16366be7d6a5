------------------------------- MODULE IdMap -------------------------------
(***************************************************************************)
(* clap_id_map: a map from CLAP identifiers that keeps those below         *)
(* NumLowIDs in a table with a bit for each entry in use, and the others   *)
(* in a hash map.  Only the operations that the program uses are here.     *)
(***************************************************************************)
EXTENDS Naturals

CONSTANT NumLowIDs

ASSUME NumLowIDsAssumption == NumLowIDs \in Nat

LowIDs == 0 .. NumLowIDs - 1

\* A map to numbers.
IsMap(m) ==
  /\ m.low \in [LowIDs -> Nat]
  /\ m.valid \subseteq LowIDs
  /\ DOMAIN m.high \subseteq Nat \ LowIDs
  /\ \A id \in DOMAIN m.high : m.high[id] \in Nat

\* clear
Cleared == [low |-> [id \in LowIDs |-> 0], valid |-> {}, high |-> [id \in {} |-> 0]]

\* find, and what it points to
Found(m, id) == IF id < NumLowIDs THEN id \in m.valid ELSE id \in DOMAIN m.high
At(m, id)    == IF id < NumLowIDs THEN m.low[id] ELSE m.high[id]

Put(table, id, value) ==
  [i \in DOMAIN table \cup {id} |-> IF i = id THEN value ELSE table[i]]

\* Mutant: the bit of a low identifier stays clear.
Set_NotValid(m, id, value) ==
  IF id < NumLowIDs
  THEN [low |-> Put(m.low, id, value), valid |-> m.valid, high |-> m.high]
  ELSE [low |-> m.low, valid |-> m.valid, high |-> Put(m.high, id, value)]

\* set
Set(m, id, value) ==
  IF id < NumLowIDs
  THEN [low |-> Put(m.low, id, value), valid |-> m.valid \cup {id}, high |-> m.high]
  ELSE [low |-> m.low, valid |-> m.valid, high |-> Put(m.high, id, value)]
=============================================================================
