----------------------------- MODULE VoteGraph -----------------------------
(***************************************************************************)
(* The vote graph of a round (vote_graph.rs): the blocks that were voted   *)
(* for, joined by edges that skip the blocks nobody voted for, each node   *)
(* with the votes on it and above it.                                      *)
(*                                                                         *)
(* A graph is a record of entries, heads and base.  A cumulative vote is a *)
(* set of votes: += is union, as for the VoteNode a round uses             *)
(* (round/context.rs).  The descendents of an entry are a set: their order *)
(* is the order of insertion, and a search that takes the first of several *)
(* is modelled by the set of all its possible answers.  The condition of a *)
(* search is a function from sets of votes to BOOLEAN.                     *)
(***************************************************************************)
EXTENDS BlockTree, SequencesExt

-----------------------------------------------------------------------------
(* Entry *)

NewEntry(ancestors, descendents, vote) ==
    [ancestors |-> ancestors, descendents |-> descendents, cumulative_vote |-> vote]

\* Entry::ancestor_block of node h: the block with that number on its ancestor edge.
AncestorBlock(g, h, number) ==
    LET offset == Number[h] - number
    IN  IF number < Number[h] /\ offset <= Len(g.entries[h].ancestors)
        THEN g.entries[h].ancestors[offset]
        ELSE None

\* Entry::ancestor_node
AncestorNode(g, h) ==
    IF g.entries[h].ancestors = <<>> THEN None ELSE Last(g.entries[h].ancestors)

\* Entry::in_direct_ancestry(b) = Some(true)
InDirectAncestry(g, h, b) == AncestorBlock(g, h, Number[b]) = b

-----------------------------------------------------------------------------
(* Reading the graph *)

IsNode(g, b) == b \in DOMAIN g.entries

\* find_containing_nodes, for a block that is not a node: from every head down, the node
\* whose edge reaches the number of b, if b is the block it has there.
ContainingNodes(g, b) ==
    LET walk[h \in DOMAIN g.entries] ==
            IF AncestorBlock(g, h, Number[b]) # None
            THEN IF InDirectAncestry(g, h, b) THEN {h} ELSE {}
            ELSE IF AncestorNode(g, h) = None THEN {} ELSE walk[AncestorNode(g, h)]
    IN  UNION {walk[h] : h \in g.heads}

VotesOf(g, nodes) == UNION {g.entries[h].cumulative_vote : h \in nodes}

\* Slip: of the nodes whose edges contain b, only one is asked.
VoteOfOneNode(g, b) ==
    IF IsNode(g, b) THEN g.entries[b].cumulative_vote
    ELSE LET nodes == ContainingNodes(g, b)
         IN  IF nodes = {} THEN {} ELSE VotesOf(g, {CHOOSE h \in nodes : TRUE})

\* VoteGraph::cumulative_vote
CumulativeVote(g, b) ==
    IF IsNode(g, b) THEN g.entries[b].cumulative_vote ELSE VotesOf(g, ContainingNodes(g, b))

\* Slip: from a node the search goes on at the next node.
NodeBelow(g, b) ==
    IF IsNode(g, b) THEN AncestorNode(g, b)
    ELSE AncestorBlock(g, CHOOSE h \in ContainingNodes(g, b) : TRUE, Number[b] - 1)

\* Where find_ancestor goes on from block b: the block below it, on its own edge if it is a
\* node and on that of a node containing it otherwise.
BlockBelow(g, b) ==
    IF IsNode(g, b)
    THEN IF g.entries[b].ancestors = <<>> THEN None ELSE g.entries[b].ancestors[1]
    ELSE AncestorBlock(g, CHOOSE h \in ContainingNodes(g, b) : TRUE, Number[b] - 1)

\* VoteGraph::find_ancestor: from the head down, node or not, by way of the edges.
FindAncestor(g, head, condition) ==
    LET search[b \in Block] ==
            IF ~IsNode(g, b) /\ ContainingNodes(g, b) = {} THEN None
            ELSE IF condition[CumulativeVote(g, b)] THEN b
            ELSE IF BlockBelow(g, b) = None THEN None ELSE search[BlockBelow(g, b)]
    IN  search[head]

\* Slip: the climb is left out.
NoMergePoint(g, node, descendents, condition) == {node}

\* Slip: the climb ends at the first block where descendents meet.
FirstMergePoint(g, node, descendents, condition) ==
    LET on(c) == {d \in descendents : AncestorBlock(g, d, Number[node] + 1) = c}
        next  == {c \in Block : \E d, e \in on(c) : d # e /\ condition[VotesOf(g, on(c))]}
    IN  IF next = {} THEN {node} ELSE next

\* ghost_find_merge_point: climb from the node, block by block, as long as two of the given
\* descendents meet at a next block and together satisfy the condition.
MergePoints(g, node, descendents, condition) ==
    LET climb[b \in Block] ==
            LET on(c) == {d \in descendents : /\ b = node \/ InDirectAncestry(g, d, b)
                                              /\ AncestorBlock(g, d, Number[b] + 1) = c}
                next  == {c \in Block : \E d, e \in on(c) : d # e /\ condition[VotesOf(g, on(c))]}
            IN  IF next = {} THEN {b} ELSE UNION {climb[c] : c \in next}
    IN  climb[node]

\* VoteGraph::find_ghost: descend to a node below which no node satisfies the condition,
\* then climb to where its descendents merge.  A best block on an edge constrains the
\* first hop to the nodes above it.
FindGhosts(g, best, condition) ==
    LET containing  == IF best = None \/ IsNode(g, best) THEN {} ELSE ContainingNodes(g, best)
        constrained == containing # {}
        start       == IF constrained THEN AncestorNode(g, CHOOSE h \in containing : TRUE)
                       ELSE IF best # None /\ IsNode(g, best) THEN best ELSE g.base
        below(h)    == g.entries[h].descendents
        first       == IF constrained THEN {d \in below(start) : InDirectAncestry(g, d, best)}
                       ELSE below(start)
        heavy(S)    == {d \in S : condition[g.entries[d].cumulative_vote]}
        descend[h \in DOMAIN g.entries] ==
            IF heavy(below(h)) = {} THEN MergePoints(g, h, below(h), condition)
            ELSE UNION {descend[d] : d \in heavy(below(h))}
    IN  IF ~condition[g.entries[start].cumulative_vote] THEN {None}
        ELSE IF heavy(first) = {} THEN MergePoints(g, start, first, condition)
        ELSE UNION {descend[d] : d \in heavy(first)}

-----------------------------------------------------------------------------
(* Changing the graph *)

\* VoteGraph::new
NewGraph(base) ==
    [entries |-> [h \in {base} |-> NewEntry(<<>>, {}, {})], heads |-> {base}, base |-> base]

\* append: a new head above the highest node of its chain.
AppendNode(g, b) ==
    LET ancestry == Append(Ancestry(g.base, b), g.base)
        index    == SelectInSeq(ancestry, LAMBDA h : IsNode(g, h))
        parent   == ancestry[index]
    IN  [g EXCEPT
            !.entries = [h \in DOMAIN g.entries \union {b} |->
                CASE h = b      -> NewEntry(SubSeq(ancestry, 1, index), {}, {})
                  [] h = parent -> [g.entries[h] EXCEPT !.descendents = @ \union {b}]
                  [] OTHER      -> g.entries[h]],
            !.heads = (@ \ {parent}) \union {b}]

\* The entry of a block b that was on the edges of the given nodes: the rest of the edge
\* below it, the nodes above it and their votes.
BranchEntry(g, nodes, b) ==
    LET some == CHOOSE h \in nodes : TRUE
        edge == g.entries[some].ancestors
    IN  NewEntry(SubSeq(edge, Number[some] - Number[b] + 1, Len(edge)), nodes, VotesOf(g, nodes))

\* Slip: the ancestor node keeps the descendents that b took over.
KeepDescendents(descendents, nodes, b) == descendents \union {b}

\* The descendents of the ancestor node once b is between it and the nodes.
TakeOver(descendents, nodes, b) == (descendents \ nodes) \union {b}

\* introduce_branch: b, so far on the edges of the given nodes, becomes their ancestor node.
IntroduceBranch(g, nodes, b) ==
    LET previous == AncestorNode(g, CHOOSE h \in nodes : TRUE)
    IN  [g EXCEPT
            !.entries = [h \in DOMAIN g.entries \union {b} |->
                CASE h = b ->
                        BranchEntry(g, nodes, b)
                  [] h \in nodes ->
                        [g.entries[h] EXCEPT !.ancestors = SubSeq(@, 1, Number[h] - Number[b])]
                  [] h = previous ->
                        [g.entries[h] EXCEPT !.descendents = TakeOver(@, nodes, b)]
                  [] OTHER -> g.entries[h]]]

\* Chain::ancestry, asked by append, is not Err(NotDescendent).
CanInsert(g, b) ==
    \/ IsNode(g, b)
    \/ ContainingNodes(g, b) # {}
    \/ IsEqualOrDescendentOf(g.base, b)

\* The loop of insert: the vote is added to node b and to every node below it.
AddVoteFrom(g, b, vote) ==
    LET path[h \in DOMAIN g.entries] ==
            {h} \union IF AncestorNode(g, h) = None THEN {} ELSE path[AncestorNode(g, h)]
    IN  [g EXCEPT !.entries = [h \in DOMAIN g.entries |->
            IF h \in path[b] THEN [g.entries[h] EXCEPT !.cumulative_vote = @ \union {vote}]
            ELSE g.entries[h]]]

\* VoteGraph::insert: make b a node, then add the vote.
Insert(g, b, vote) ==
    LET containing == ContainingNodes(g, b)
    IN  AddVoteFrom(IF IsNode(g, b) THEN g
                    ELSE IF containing = {} THEN AppendNode(g, b)
                    ELSE IntroduceBranch(g, containing, b), b, vote)

\* VoteGraph::adjust_base, with the blocks from the old base's parent to the new base.
AdjustBase(g, proof) ==
    IF proof = <<>> \/ Len(proof) > Number[g.base] THEN g
    ELSE LET old == g.base
             new == Last(proof)
         IN  [g EXCEPT
                !.entries = [h \in DOMAIN g.entries \union {new} |->
                    CASE h = new -> NewEntry(<<>>, {old}, g.entries[old].cumulative_vote)
                      [] h = old -> [g.entries[h] EXCEPT !.ancestors = @ \o proof]
                      [] OTHER   -> g.entries[h]],
                !.base = new]
=============================================================================
