--------------------------- MODULE VoteGraphSpec ---------------------------
(***************************************************************************)
(* A graph in use: votes are inserted in any order, its owner memoises the *)
(* last answer of find_ghost and passes it to the next search, and the     *)
(* base may be moved down.  The variable cast is a history of the votes    *)
(* accepted, which the properties compare the graph with.                  *)
(***************************************************************************)
EXTENDS VoteGraph

CONSTANTS
    Vote,       \* the votes that can be cast
    Threshold,  \* how many votes satisfy the condition of a search
    Genesis     \* the base of the new graph

ASSUME VoteGraphAssumption == Genesis \in Block /\ Threshold \in Nat

\* A threshold above half: the one of a round is above two thirds (voter_set.rs).
ASSUME QuorumAssumption ==
    /\ IsFiniteSet(Vote)
    /\ \A vs, ws \in SUBSET Vote :
           Cardinality(vs) >= Threshold /\ Cardinality(ws) >= Threshold => vs \intersect ws # {}

VARIABLES
    graph,      \* the vote graph
    best,       \* the last answer of find_ghost
    cast        \* cast[v]: the block that vote v was inserted at, or None

graphVars == <<graph, best, cast>>

HasThreshold == [vs \in SUBSET Vote |-> Cardinality(vs) >= Threshold]

GraphInit ==
    /\ graph = NewGraph(Genesis)
    /\ best = None
    /\ cast = [v \in Vote |-> None]

\* A vote whose target does not descend from the base is refused and changes nothing.
InsertVote(v, b) ==
    /\ cast[v] = None
    /\ IF CanInsert(graph, b)
       THEN graph' = Insert(graph, b, v) /\ cast' = [cast EXCEPT ![v] = b]
       ELSE UNCHANGED <<graph, cast>>
    /\ UNCHANGED best

MemoiseGhost ==
    /\ best' \in FindGhosts(graph, best, HasThreshold)
    /\ UNCHANGED <<graph, cast>>

\* The proofs a caller can have: down to some block below the base, or empty.
BaseProofs(base) ==
    {<<>>} \union {Append(Ancestry(b, base), b) : b \in Ancestors[base] \ {base}}

MoveBase(proof) ==
    /\ graph' = AdjustBase(graph, proof)
    /\ UNCHANGED <<best, cast>>

GraphNext ==
    \/ \E v \in Vote, b \in Block : InsertVote(v, b)
    \/ MemoiseGhost
    \/ \E proof \in BaseProofs(graph.base) : MoveBase(proof)

GraphSpec == GraphInit /\ [][GraphNext]_graphVars

-----------------------------------------------------------------------------
(* Properties *)

\* What the panics and expects of vote_graph.rs rely on, in whatever order votes split and
\* extend the edges: every edge lists the blocks of the chain down to the next node and to
\* nothing below it, descendents are the edges reversed, and the heads are the leaves.
GraphShape ==
    LET nodes   == DOMAIN graph.entries
        edge(h) == graph.entries[h].ancestors
    IN  /\ \A h \in nodes :
              /\ (h = graph.base) = (edge(h) = <<>>)
              /\ \A i \in DOMAIN edge(h) : edge(h)[i] = AncestorAt(h, Number[h] - i)
              /\ \A i \in DOMAIN edge(h) : (edge(h)[i] \in nodes) = (i = Len(edge(h)))
              /\ graph.entries[h].descendents =
                     {d \in nodes : d # graph.base /\ AncestorNode(graph, d) = h}
        /\ graph.heads = {h \in nodes : graph.entries[h].descendents = {}}

\* The votes for blocks at or above b, by definition.
CastOn(b) == {v \in Vote : cast[v] # None /\ b \in Ancestors[cast[v]]}

\* cumulative_vote agrees with the votes cast for every block above the base, a node, on an
\* edge or not in the graph: no restructuring loses, keeps too long or duplicates a vote.
VotesExact ==
    \A b \in Block : graph.base \in Ancestors[b] => CumulativeVote(graph, b) = CastOn(b)

\* The blocks of the graph: those between its base, its first base and the votes.
GraphBlocks ==
    {b \in Block : graph.base \in Ancestors[b] /\ (b \in Ancestors[Genesis] \/ CastOn(b) # {})}

\* find_ancestor, for every head: the highest block at or below it that satisfies the
\* condition; None for a head outside the graph (its doc comment).
AncestorSearchExact ==
    \A head \in Block :
        LET candidates == {b \in GraphBlocks \intersect Ancestors[head] : HasThreshold[CastOn(b)]}
            found      == FindAncestor(graph, head, HasThreshold)
        IN  IF head \notin GraphBlocks \/ candidates = {}
            THEN found = None
            ELSE found \in candidates /\ \A b \in candidates : Number[b] <= Number[found]

\* find_ghost from a memoised answer, however stale, finds what a search from the base
\* finds: the one block with the most height that satisfies the condition.
GhostFromMemoExact ==
    LET candidates == {b \in GraphBlocks : HasThreshold[CastOn(b)]}
    IN  FindGhosts(graph, best, HasThreshold) =
            IF candidates = {} THEN {None}
            ELSE {b \in candidates : \A c \in candidates : c \in Ancestors[b]}

\* The search that decides completability: its condition can hold on several forks at
\* once (here: a vote less than the threshold).  From a block that satisfies it, every
\* possible answer is at or above that block and cannot be extended.
GhostFromAnyStart ==
    LET holds == [vs \in SUBSET Vote |-> Cardinality(vs) >= Threshold - 1]
    IN  \A b \in GraphBlocks : holds[CastOn(b)] =>
            \A x \in FindGhosts(graph, b, holds) :
                /\ x \in GraphBlocks /\ b \in Ancestors[x] /\ holds[CastOn(x)]
                /\ \A y \in GraphBlocks : x \in Ancestors[y] /\ holds[CastOn(y)] => y = x
=============================================================================
