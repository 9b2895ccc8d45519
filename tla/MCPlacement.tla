---------------------------- MODULE MCPlacement ----------------------------
(* A small fleet for Placement. *)
EXTENDS Placement, MCConvergence

CONSTANTS work

(* Two machines below a scope they share, one of them below another too. *)
FanScopes  == {m1, m2, os, work}
FanParents == [s \in FanScopes |->
                  CASE s = m1 -> {os, work} [] s = m2 -> {work} [] OTHER -> {}]
FanNames   == <<m1, m2, os, work>>

(* Two machines, and a scope below the shared one that is no machine's. *)
LapParents == [s \in LapScopes |-> IF s = all THEN {} ELSE {all}]

(* No machine's own scope is deleted. *)
OwnScopesStay == \A m \in Machines : remote'[m] # Gone
=============================================================================
