------------------------------ MODULE Context ------------------------------
(***************************************************************************)
(* The context in which votes are weighed (round/context.rs): a voter has  *)
(* one bit per phase, prevotes at even and precommits at odd positions;    *)
(* equivocations are a bitfield of their own that counts for every node.   *)
(*                                                                         *)
(* ContextWeight and EquivocationWeight are the code, on bitfields.  The   *)
(* round model uses their reading as sets of positions, NodeWeight, and    *)
(* ContextSpec checks that the two agree.                                  *)
(***************************************************************************)
EXTENDS VoterSet, Bitfield

Phase == {"prevote", "precommit"}

\* Where the bits of a phase start: iter1s_even or iter1s_odd.
Parity(phase) == IF phase = "prevote" THEN 0 ELSE 1

\* Vote::new
VoteBit(vs, id, phase) == Position(vs, id) * 2 + Parity(phase)

\* Vote::voter
IsVoteOf(vs, position) == position \div 2 < Len(vs.voters)
VoterOfBit(vs, position) == vs.voters[position \div 2 + 1]

\* fn weight, over the bits an iterator yields
WeightOfBits(vs, bits) ==
    FoldLeft(LAMBDA total, p : IF IsVoteOf(vs, p) THEN SatAdd(total, VoterOfBit(vs, p).weight)
                               ELSE total,
             0, bits)

\* Context::equivocation_weight
EquivocationWeight(vs, equivocations, phase) ==
    WeightOfBits(vs, Iter1s(equivocations, Parity(phase)))

\* Context::weight
ContextWeight(vs, equivocations, node, phase) ==
    IF IsBlank(equivocations)
    THEN WeightOfBits(vs, Iter1s(node, Parity(phase)))
    ELSE WeightOfBits(vs, Iter1sMerged(node, equivocations, Parity(phase)))

\* Context::weight with the node and the equivocations as sets of bit positions.
NodeWeight(vs, equivocations, node, phase) ==
    LET bits == {p \in node \union equivocations : p % 2 = Parity(phase) /\ IsVoteOf(vs, p)}
        weight == [p \in bits |-> VoterOfBit(vs, p).weight]
    IN  FoldSet(LAMBDA p, total : SatAdd(total, weight[p]), 0, bits)
=============================================================================
