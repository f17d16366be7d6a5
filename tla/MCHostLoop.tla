----------------------------- MODULE MCHostLoop -----------------------------
(***************************************************************************)
(* Instances of HostLoop for TLC.                                          *)
(***************************************************************************)
EXTENDS HostLoop

CONSTANTS h1, h2, h3

\* Among other components, with loops that may refuse, and alone, with timers
\* that fire once.
AmongOthers == [refusals |-> TRUE, others |-> TRUE, reentrant |-> FALSE]
Alone       == [refusals |-> FALSE, others |-> FALSE, reentrant |-> TRUE]
EditorUses  == {AmongOthers, Alone}

OneShot     == {[refusals |-> FALSE, others |-> TRUE, reentrant |-> TRUE]}
=============================================================================
