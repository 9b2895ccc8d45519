--------------------------- MODULE MCConvergence ---------------------------
(* Small fleets for Convergence. *)
EXTENDS Convergence

LOCAL INSTANCE TLC

CONSTANTS all, lap, os, m1, m2, v1, v2

(* Two machines that share one scope. *)
TwoScopes  == {all, m1, m2}
TwoParents == [s \in TwoScopes |-> IF s = all THEN {} ELSE {all}]
TwoNames   == <<all, m1, m2>>

(* One machine with a scope of its own between it and the shared one. *)
ThreeScopes  == {all, os, m1, m2}
ThreeParents == [s \in ThreeScopes |->
                    CASE s = all -> {} [] s = m1 -> {os} [] OTHER -> {all}]
ThreeNames   == <<all, m1, m2, os>>

(* The two machines, and a name nobody has created a scope under yet. *)
LapScopes == {all, lap, m1, m2}
LapNames  == <<all, lap, m1, m2>>

(* What a run does between two exchanges with the remote no other machine   *)
(* sees and depends on nothing another machine does, so only the exchanges  *)
(* are interleaved.                                                         *)
Exchanges   == {"fetch", "refetch", "publish", "push", "delete"}
OnItsOwn(m) == run[m].steps # <<>> /\ Head(run[m].steps) \notin Exchanges
OnlyExchangesInterleave ==
    \A m \in Machines : OnItsOwn(m) => run'[m] # run[m] \/ pass'.by = m

(* What a file holds is told apart only by comparing it. *)
ContentsAreAlike == Permutations(Files)
=============================================================================
