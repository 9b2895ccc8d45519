------------------------------- MODULE Fleet -------------------------------
(* The fleet as one table: what every scope holds, what its parents give    *)
(* it, and which of the two a version is (fleet.rs).  Nothing stores it: it *)
(* is read off a history H and the heads of the scopes in it.               *)
EXTENDS ScopeGraph

(* What a scope's parents hold together.  A root inherits nothing. *)
InheritedTree(H, heads, parents, s) ==
    MergeOf(H, UNION {AddedIds(heads[t]) : t \in parents[s]})

(* An entry as the table reads it: the content it holds, or every content   *)
(* for one that nothing has merged yet.                                     *)
Conflicted  == Contents
Read(entry) == IF Resolved(entry) THEN {ValueOf(entry)} ELSE Conflicted

Here(H, heads, s, p) == Read(MergeOf(H, AddedIds(heads[s]))[p])
Above(H, heads, parents, s, p) == Read(InheritedTree(H, heads, parents, s)[p])

Standing(here, above) ==
    CASE here = above -> IF here = {Absent} THEN "none" ELSE "inherited"
      [] above = {Absent} -> "added"
      [] here = {Absent} -> "removed"
      [] OTHER -> "overridden"

IsOwn(standing) == standing \in {"added", "overridden", "removed"}

(* Every scope's row at a path.  A scope without a head has none. *)
Rows(H, heads, parents, p) ==
    [s \in DOMAIN parents |->
        IF AddedIds(heads[s]) = {} THEN "none"
        ELSE Standing(Here(H, heads, s, p), Above(H, heads, parents, s, p))]

(* The nearest scopes whose own version a scope holds. *)
Origins(rows, parents) ==
    LET origin[s \in DOMAIN rows] ==
          CASE IsOwn(rows[s]) -> {s}
            [] rows[s] = "none" -> {}
            [] OTHER -> UNION {origin[t] : t \in {t \in parents[s] \cap DOMAIN rows :
                                                      rows[t] # "removed"}}
    IN  origin

(* The machines a scope reaches: the leaves at or below it. *)
Leaves(parents) == {s \in DOMAIN parents : ChildrenOf(parents, s) = {}}
MachinesBelow(parents, s) ==
    {m \in Leaves(parents) : s \in AncestorsAndSelf(parents, m)}

(* What a write does to every machine: the leaves whose config it changes.  *)
(* H holds both histories, before it and after.                             *)
Effect(H, before, after, parents, p) ==
    {m \in Leaves(parents) : Here(H, before, m, p) # Here(H, after, m, p)}
=============================================================================
