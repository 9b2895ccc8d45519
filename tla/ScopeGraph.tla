----------------------------- MODULE ScopeGraph -----------------------------
(* The graph of scopes as a machine reads it off its repository: nothing    *)
(* stores it.  A creation commit is written on the heads of the scopes a    *)
(* scope is created on, so the ancestry of creation commits is the graph    *)
(* (scope_graph.rs, derive).                                                *)
(*                                                                          *)
(* heads is where a machine has each scope's head; H[c].creates is the      *)
(* scope commit c created.                                                  *)
EXTENDS History, Sequences

CONSTANTS
    Scopes,     \* the names a scope can have
    NoScope,    \* none of them
    Names       \* Scopes in alphabetical order

ASSUME NamesAreTheScopes ==
    /\ NoScope \notin Scopes /\ IsFiniteSet(Scopes)
    /\ Len(Names) = Cardinality(Scopes)
    /\ Scopes = {Names[i] : i \in 1..Len(Names)}

Alphabetical(S) ==
    LET upTo[i \in 0..Len(Names)] ==
            IF i = 0 THEN <<>>
            ELSE IF Names[i] \in S THEN Append(upTo[i - 1], Names[i])
            ELSE upTo[i - 1]
    IN  upTo[Len(Names)]

(* The scopes whose creation the history of ids holds. *)
Created(H, ids) == {H[c].creates : c \in AncestorsOf(H, ids)} \ {NoScope}

(* A scope is a branch whose own history holds a commit that created it. *)
MembersOf(H, heads) == {s \in Scopes : s \in Created(H, AddedIds(heads[s]))}

(* One name can have several creation commits. *)
CreationsOf(H, heads, s) ==
    {c \in DOMAIN H :
        /\ H[c].creates = s
        /\ \E t \in Scopes : c \in AncestorsOf(H, AddedIds(heads[t]))}

(* What each scope was created below: creation commit to creation commit. *)
Reached(H, heads) ==
    LET members == MembersOf(H, heads)
    IN  [s \in members |->
            (Created(H, CreationsOf(H, heads, s)) \cap members) \ {s}]

(* mutant: the roots in reach instead of the nearest scopes *)
FarthestParents(H, heads) ==
    LET reached == Reached(H, heads)
    IN  [s \in DOMAIN reached |-> {t \in reached[s] : reached[t] = {}}]

(* Parents are the scopes in reach that nothing nearer stands in front of. *)
ParentsOf(H, heads) ==
    LET reached == Reached(H, heads)
    IN  [s \in DOMAIN reached |->
            {t \in reached[s] : \A u \in reached[s] \ {t} : t \notin reached[u]}]

ChildrenOf(parents, s) == {t \in DOMAIN parents : s \in parents[t]}

AncestorsAndSelf(parents, s) ==
    LET within[n \in 0..Cardinality(Scopes)] ==
            IF n = 0 THEN {s} \cap DOMAIN parents
            ELSE within[n - 1] \cup UNION {parents[t] : t \in within[n - 1]}
    IN  within[Cardinality(Scopes)]

(* Parents before children, and alphabetically among those that could be    *)
(* next; it ends early where nothing could be, which a graph without cycles *)
(* never lets happen.                                                       *)
CascadeOrder(parents) ==
    LET ready(rest) == {s \in rest : parents[s] \cap rest = {}}
        order[rest \in SUBSET DOMAIN parents] ==
            IF ready(rest) = {} THEN <<>>
            ELSE Alphabetical(ready(rest)) \o order[rest \ ready(rest)]
    IN  order[DOMAIN parents]

(* A graph without cycles has every scope in it, once: the assertion there. *)
IsDag(parents) ==
    LET order == CascadeOrder(parents) IN
    /\ order \in Seq(DOMAIN parents)
    /\ Len(order) = Cardinality(DOMAIN parents)
    /\ \A i, j \in 1..Len(order) : order[i] = order[j] => i = j
=============================================================================
