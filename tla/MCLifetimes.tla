---------------------------- MODULE MCLifetimes ----------------------------
(***************************************************************************)
(* An instance of Lifetimes for TLC: two components, one with a gui, and a *)
(* host with good manners.                                                 *)
(***************************************************************************)
EXTENDS Lifetimes

TheFaces == {Component, EditController}
AllManners == {ClosesViews, RemovesViews, TerminatesFirst, AsksNoSize}
=============================================================================
