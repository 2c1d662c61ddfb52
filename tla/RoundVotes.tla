---------------------------- MODULE RoundVotes ----------------------------
(***************************************************************************)
(* The votes of a round as round.rs weighs them: a vote counts for its     *)
(* target and every block below it, an equivocator for every block, and    *)
(* the searches for the prevote-GHOST and the estimate go over the blocks  *)
(* that have votes.  RoundSpec is the round that keeps such votes.         *)
(*                                                                         *)
(* Assumed of the voters: those that equivocate, or vote for a block that  *)
(* does not descend from the round's base, weigh at most Faulty together.  *)
(***************************************************************************)
EXTENDS BlockTree, VoterWeights

CONSTANTS
    Base,       \* the base block of the round
    Byzantine   \* the voters that may misbehave

ASSUME RoundAssumption ==
    /\ Base \in Block
    /\ Byzantine \subseteq Voter
    /\ Weight[Byzantine] <= Faulty

-----------------------------------------------------------------------------
(* Weights of votes.  An equivocator counts for every block. *)

Voted(vs) == {v \in Voter : vs[v] \in Block}

On(vs, equivocators, b) ==
    {v \in Voter : v \in equivocators \/ (vs[v] \in Block /\ b \in Ancestors[vs[v]])}

Heavy(vs, equivocators, b) == Weight[On(vs, equivocators, b)] >= Threshold

MinOf(m, n) == IF m <= n THEN m ELSE n

\* Slip: equivocations already seen are not deducted.
AllTolerated(equivocators) == Faulty

\* The equivocations that may still be seen: those tolerated minus those seen.
AdditionalEquivocations(equivocators) ==
    IF Weight[equivocators] > Faulty THEN 0 ELSE Faulty - Weight[equivocators]

\* Slip: the votes for b are weighed without the equivocators.
PossibleWithoutEquivocators(pcs, equivocators, b) ==
    LET current == Weight[Voted(pcs)]
        for     == Weight[On(pcs, {}, b)]
    IN  for + (TotalWeight - current)
            + MinOf(current - for, AdditionalEquivocations(equivocators)) >= Threshold

\* possible_to_precommit: b can still reach a supermajority of precommits.
Possible(pcs, equivocators, b) ==
    LET current   == Weight[Voted(pcs)]
        for       == Weight[On(pcs, equivocators, b)]
        remaining == TotalWeight - current
    IN  for + remaining + MinOf(current - for, AdditionalEquivocations(equivocators))
            >= Threshold

-----------------------------------------------------------------------------
(* The blocks of the vote graph and what is searched for among them. *)

\* b is the base or has a vote on itself or above it.
InGraph(pvs, pcs, b) ==
    /\ Base \in Ancestors[b]
    /\ \/ b = Base
       \/ \E v \in Voter : pvs[v] \in Block /\ b \in Ancestors[pvs[v]]
       \/ \E v \in Voter : pcs[v] \in Block /\ b \in Ancestors[pcs[v]]

Below(a, b) == a \in Ancestors[b] /\ a # b

\* The blocks from the base up to g.
ChainTo(g) == {b \in Ancestors[g] : Base \in Ancestors[b]}

\* What find_ancestor may return for head g: the highest block of S below or at g.
Highest(g, S) ==
    {x \in OptionBlock :
        IF x = None
        THEN ChainTo(g) \intersect S = {}
        ELSE x \in ChainTo(g) \intersect S
             /\ \A y \in ChainTo(g) \intersect S : y \in Ancestors[x]}

\* Slip: any block with a supermajority will do.
AnyHeavy(pvs, pcs, vs, equivocators) ==
    {x \in OptionBlock : IF x = None THEN ~Heavy(vs, equivocators, Base)
                         ELSE InGraph(pvs, pcs, x) /\ Heavy(vs, equivocators, x)}

\* What find_ghost may return: a block with a supermajority, none above it having one.
Ghosts(pvs, pcs, vs, equivocators) ==
    {x \in OptionBlock :
        IF x = None
        THEN ~Heavy(vs, equivocators, Base)
        ELSE /\ InGraph(pvs, pcs, x)
             /\ Heavy(vs, equivocators, x)
             /\ \A y \in Block : InGraph(pvs, pcs, y) /\ Below(x, y) => ~Heavy(vs, equivocators, y)}
=============================================================================
