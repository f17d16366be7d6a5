---------------------------- MODULE MCProcessing ----------------------------
(***************************************************************************)
(* Instances of Processing for TLC.                                        *)
(***************************************************************************)
EXTENDS Processing

CONSTANTS p1, u

TwoTimes == {-1, 1}
OneTime  == {0}
=============================================================================
