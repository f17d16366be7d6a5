---------------------------- MODULE MCController ----------------------------
(***************************************************************************)
(* Instances of Controller for TLC.                                        *)
(***************************************************************************)
EXTENDS Controller

CONSTANTS h1, h2

TwoValues == {0, 1}
=============================================================================
