--------------------------- MODULE ParameterStore ---------------------------
(***************************************************************************)
(* What the edit controller promises of parameter values: each parameter   *)
(* has one, which is what the host set last or what the plugin had when    *)
(* the controller last asked it.                                           *)
(***************************************************************************)
EXTENDS Integers

CONSTANTS
  Ids,        \* parameters
  Positions,  \* normalised values that a host may set
  Nearest     \* the value of a parameter that a position stands for

VARIABLES
  shown,      \* the values that the controller shows
  actual      \* the plugin's values

Init == shown = actual

\* The host sets a value and reads back the one nearest to it.
HostSets(id, n) ==
  /\ shown' = [shown EXCEPT ![id] = Nearest[id][n]]
  /\ UNCHANGED actual

\* The controller asks the plugin.
Refresh(id) ==
  /\ shown' = [shown EXCEPT ![id] = actual[id]]
  /\ UNCHANGED actual

\* The plugin changes values on its own: in its editor, by automation, by a
\* state that it loads.
PluginMoves ==
  /\ actual' \in [Ids -> Int]
  /\ UNCHANGED shown

Next ==
  \/ \E id \in Ids : Refresh(id) \/ \E n \in Positions : HostSets(id, n)
  \/ PluginMoves

Spec == Init /\ [][Next]_<<shown, actual>>
=============================================================================
