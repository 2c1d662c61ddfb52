---------------------------- MODULE ContextSpec ----------------------------
(***************************************************************************)
(* A voter set, two vote nodes and a context in use: once the set is       *)
(* created, votes set bits in a node, nodes are added to each other as the *)
(* vote graph does, voters are marked as equivocators, in every order.     *)
(* The variables voted and marked are histories that the properties        *)
(* compare the bitfields with.                                             *)
(***************************************************************************)
EXTENDS Context, VoterSetSpec

CONSTANTS
    InUse,  \* bound: the lists of (id, weight) whose set goes on to weigh votes
    Node    \* names of the vote nodes

VARIABLES
    nodes,          \* nodes[n]: the bitfield of VoteNode n
    equivocations,  \* the bitfield of the context
    voted,          \* voted[n]: the (id, phase) added to node n so far
    marked          \* the (id, phase) marked as equivocations

ctxVars == <<nodes, equivocations, voted, marked>>

CtxInit ==
    /\ SetInit
    /\ nodes = [n \in Node |-> NewBitfield]
    /\ equivocations = NewBitfield
    /\ voted = [n \in Node |-> {}]
    /\ marked = {}

\* VoteNode += Vote
AddVoteTo(n, id, phase) ==
    /\ id \in VoterIds(set)
    /\ nodes' = [nodes EXCEPT ![n] = SetBit(@, VoteBit(set, id, phase))]
    /\ voted' = [voted EXCEPT ![n] = @ \union {<<id, phase>>}]
    /\ UNCHANGED <<equivocations, marked>>

\* VoteNode += VoteNode
AddNode(n, m) ==
    /\ n # m
    /\ nodes' = [nodes EXCEPT ![n] = Merge(@, nodes[m])]
    /\ voted' = [voted EXCEPT ![n] = @ \union voted[m]]
    /\ UNCHANGED <<equivocations, marked>>

\* Context::equivocated
Equivocated(id, phase) ==
    /\ id \in VoterIds(set)
    /\ equivocations' = SetBit(equivocations, VoteBit(set, id, phase))
    /\ marked' = marked \union {<<id, phase>>}
    /\ UNCHANGED <<nodes, voted>>

CtxNext ==
    \/ SetNext /\ UNCHANGED ctxVars
    \/ /\ set # NoSet /\ input \in InUse
       /\ UNCHANGED setVars
       /\ \/ \E n \in Node, id \in Id, phase \in Phase : AddVoteTo(n, id, phase)
          \/ \E n, m \in Node : AddNode(n, m)
          \/ \E id \in Id, phase \in Phase : Equivocated(id, phase)

CtxSpec == CtxInit /\ [][CtxNext]_<<setVars, ctxVars>>

-----------------------------------------------------------------------------
(* Properties *)

\* Context::weight and equivocation_weight, on bitfields of whatever lengths: each voter
\* counts once, for its vote in that phase or as an equivocator in that phase, and an
\* equivocation in one phase never adds weight in the other.  Read as the sets of positions
\* that Round keeps, the bitfields weigh the same.
WeightIsExact ==
    set # NoSet => \A phase \in Phase :
        LET weight(S) == WeightOfIds(set, {id \in VoterIds(set) : <<id, phase>> \in S})
        IN  /\ EquivocationWeight(set, equivocations, phase) = weight(marked)
            /\ \A n \in Node :
                  /\ ContextWeight(set, equivocations, nodes[n], phase) = weight(voted[n] \union marked)
                  /\ NodeWeight(set, Positions(equivocations), Positions(nodes[n]), phase) =
                         weight(voted[n] \union marked)
=============================================================================
