----------------------------- MODULE RoundSpec -----------------------------
(***************************************************************************)
(* What a voting round (round.rs) promises: the state Round::state()       *)
(* reports as a function of the votes imported so far, without the vote    *)
(* graph, the bitfields and the memoised searches that compute it.         *)
(* Round.tla models those; RoundProofs.tla proves that it implements this  *)
(* specification, and VotingRoundProofs.tla what this one promises, for    *)
(* every voter set, block tree and base.                                   *)
(***************************************************************************)
EXTENDS RoundVotes

VARIABLES
    prevotes,                \* prevotes[v]: target of the first prevote of v, or None
    precommits,              \* precommits[v]: target of the first precommit of v, or None
    prevote_equivocators,    \* voters seen prevoting twice
    precommit_equivocators,  \* voters seen precommitting twice
    prevote_ghost,           \* memoised prevote-GHOST
    precommit_ghost,         \* memoised precommit-GHOST
    finalized,               \* best block finalized in this round
    estimate,                \* the round-estimate
    completable              \* whether the round is completable

votes == <<prevotes, precommits, prevote_equivocators, precommit_equivocators>>
vars  == <<votes, prevote_ghost, precommit_ghost, finalized, estimate, completable>>

TypeOK ==
    /\ prevotes \in [Voter -> OptionBlock]
    /\ precommits \in [Voter -> OptionBlock]
    /\ prevote_equivocators \in SUBSET Voter
    /\ precommit_equivocators \in SUBSET Voter
    /\ prevote_ghost \in OptionBlock
    /\ precommit_ghost \in OptionBlock
    /\ finalized \in OptionBlock
    /\ estimate \in OptionBlock
    /\ completable \in BOOLEAN

-----------------------------------------------------------------------------
Init ==
    /\ prevotes = [v \in Voter |-> None]
    /\ precommits = [v \in Voter |-> None]
    /\ prevote_equivocators = {}
    /\ precommit_equivocators = {}
    /\ prevote_ghost = None
    /\ precommit_ghost = None
    /\ finalized = None
    /\ estimate = None
    /\ completable = FALSE

\* Slip: an estimate is all it takes.
HasEstimate == estimate' # None

\* When update() sets completable: the estimate is below the prevote-GHOST, or no child of
\* the prevote-GHOST can get a supermajority of precommits.
Completes ==
    /\ estimate' # None
    /\ \/ estimate' # prevote_ghost'
       \/ \A b \in Block :
             InGraph(prevotes', precommits', b) /\ Below(prevote_ghost', b)
                 => ~Possible(precommits', precommit_equivocators', b)

\* Round::update, on the votes and the prevote-GHOST after the import.
Update ==
    IF Weight[Voted(prevotes')] < Threshold \/ prevote_ghost' = None
    THEN UNCHANGED <<finalized, estimate, completable>>
    ELSE IF Weight[Voted(precommits')] < Threshold
    THEN /\ estimate' = prevote_ghost'
         /\ UNCHANGED <<finalized, completable>>
    ELSE /\ finalized' \in Highest(prevote_ghost',
                {b \in Block : Heavy(precommits', precommit_equivocators', b)})
         /\ estimate' \in Highest(prevote_ghost',
                {b \in Block : Possible(precommits', precommit_equivocators', b)})
         /\ completable' = Completes

\* Slip: import_prevote returns without update().
GhostWithoutUpdate ==
    /\ IF Weight[Voted(prevotes')] >= Threshold
       THEN prevote_ghost' \in
                Ghosts(prevotes', precommits', prevotes', prevote_equivocators')
       ELSE UNCHANGED prevote_ghost
    /\ UNCHANGED <<finalized, estimate, completable>>

\* The part of import_prevote after the vote is counted.
UpdateGhost ==
    /\ IF Weight[Voted(prevotes')] >= Threshold
       THEN prevote_ghost' \in
                Ghosts(prevotes', precommits', prevotes', prevote_equivocators')
       ELSE UNCHANGED prevote_ghost
    /\ Update

Derived == <<prevote_ghost, finalized, estimate, completable>>

MayTarget(v, b) == v \notin Byzantine => IsEqualOrDescendentOf(Base, b)

\* The first prevote of v.  If its target does not descend from the base, the vote
\* graph refuses it after it has been counted, and nothing is recomputed.
ImportPrevote(v, b) ==
    /\ prevotes[v] = None
    /\ MayTarget(v, b)
    /\ prevotes' = [prevotes EXCEPT ![v] = b]
    /\ UNCHANGED <<precommits, prevote_equivocators, precommit_equivocators, precommit_ghost>>
    /\ IF IsEqualOrDescendentOf(Base, b) THEN UpdateGhost ELSE UNCHANGED Derived

\* A second, different prevote of v; its target is not counted.
EquivocatePrevote(v) ==
    /\ prevotes[v] # None
    /\ v \in Byzantine \ prevote_equivocators
    /\ prevote_equivocators' = prevote_equivocators \union {v}
    /\ UNCHANGED <<prevotes, precommits, precommit_equivocators, precommit_ghost>>
    /\ UpdateGhost

ImportPrecommit(v, b) ==
    /\ precommits[v] = None
    /\ MayTarget(v, b)
    /\ precommits' = [precommits EXCEPT ![v] = b]
    /\ UNCHANGED <<prevotes, prevote_equivocators, precommit_equivocators,
                   prevote_ghost, precommit_ghost>>
    /\ IF IsEqualOrDescendentOf(Base, b) THEN Update
       ELSE UNCHANGED <<finalized, estimate, completable>>

EquivocatePrecommit(v) ==
    /\ precommits[v] # None
    /\ v \in Byzantine \ precommit_equivocators
    /\ precommit_equivocators' = precommit_equivocators \union {v}
    /\ UNCHANGED <<prevotes, precommits, prevote_equivocators, prevote_ghost, precommit_ghost>>
    /\ Update

\* Round::precommit_ghost computes and caches.
ComputePrecommitGhost ==
    /\ Weight[Voted(precommits)] >= Threshold
    /\ precommit_ghost' \in Ghosts(prevotes, precommits, precommits, precommit_equivocators)
    /\ UNCHANGED <<votes, Derived>>

Next ==
    \/ \E v \in Voter, b \in Block : ImportPrevote(v, b) \/ ImportPrecommit(v, b)
    \/ \E v \in Voter : EquivocatePrevote(v) \/ EquivocatePrecommit(v)
    \/ ComputePrecommitGhost

Spec == Init /\ [][Next]_vars

-----------------------------------------------------------------------------
(* Properties *)

\* A block finalized in the round is never above the estimate, and the estimate never
\* above the prevote-GHOST (VotingRound::completed and prevote build on both): a block
\* that has its supermajority of precommits was never ruled out by update().
FinalizedBelowEstimate ==
    /\ finalized # None => estimate # None /\ finalized \in ChainTo(estimate)
    /\ estimate # None => prevote_ghost # None /\ estimate \in ChainTo(prevote_ghost)

\* The comment in update(): once the round is completable, no block on a chain through the
\* prevote-GHOST other than the estimate and its ancestors can get a supermajority of
\* precommits any more, blocks nobody has voted for yet included.
EstimateBounds ==
    completable =>
        \A b \in Block :
            /\ Base \in Ancestors[b]
            /\ b \in Ancestors[prevote_ghost] \/ prevote_ghost \in Ancestors[b]
            /\ Possible(precommits, precommit_equivocators, b)
            => estimate # None /\ b \in Ancestors[estimate]

\* fuzz_helpers.rs, check_prevote_ghost and check_estimate, and the rule that finality is
\* not taken back: the prevote-GHOST and the finalized block only move up their chain, a
\* completable round stays completable, and from then on its estimate only moves back.
StepsAreMonotone ==
    /\ prevote_ghost # None => prevote_ghost' # None /\ prevote_ghost \in ChainTo(prevote_ghost')
    /\ finalized # None => finalized' # None /\ finalized \in ChainTo(finalized')
    /\ completable => completable' /\ estimate' # None /\ estimate' \in ChainTo(estimate)

MonotoneRound == [][StepsAreMonotone]_vars

\* What possible_to_precommit rules out stays ruled out, whatever votes and (tolerated)
\* equivocations follow.
StepsRuleOutForGood ==
    \A b \in Block :
        Possible(precommits', precommit_equivocators', b)
            => Possible(precommits, precommit_equivocators, b)

ImpossibleForGood == [][StepsRuleOutForGood]_vars

-----------------------------------------------------------------------------
(***************************************************************************)
(* The inductive invariant behind these properties.  The votes refused by  *)
(* the vote graph leave finalized, estimate and completable stale, so the  *)
(* invariant bounds them by the current votes instead of defining them.    *)
(***************************************************************************)

EquivocatorsVoted ==
    /\ prevote_equivocators \subseteq Voted(prevotes) \intersect Byzantine
    /\ precommit_equivocators \subseteq Voted(precommits) \intersect Byzantine

HonestOnChain ==
    \A v \in Voter \ Byzantine :
        /\ prevotes[v] \in Block => Base \in Ancestors[prevotes[v]]
        /\ precommits[v] \in Block => Base \in Ancestors[precommits[v]]

GhostHeavy ==
    prevote_ghost # None =>
        /\ Base \in Ancestors[prevote_ghost]
        /\ Heavy(prevotes, prevote_equivocators, prevote_ghost)

EstimateHighest ==
    /\ (estimate = None) <=> (prevote_ghost = None)
    /\ prevote_ghost # None =>
           /\ estimate \in ChainTo(prevote_ghost)
           /\ \A b \in ChainTo(prevote_ghost) :
                  Possible(precommits, precommit_equivocators, b) => b \in Ancestors[estimate]

FinalizedHeavy ==
    finalized # None =>
        /\ prevote_ghost # None
        /\ finalized \in ChainTo(prevote_ghost)
        /\ Heavy(precommits, precommit_equivocators, finalized)

CompletableBounds ==
    completable =>
        /\ prevote_ghost # None
        /\ Weight[Voted(precommits)] >= Threshold
        /\ \A b \in Block :
               prevote_ghost \in Ancestors[b] /\ Possible(precommits, precommit_equivocators, b)
                   => b \in Ancestors[estimate]

\* Every state of the round: only misbehaving voters equivocate or leave the base's chain,
\* the prevote-GHOST has a supermajority, everything above the estimate is ruled out, and
\* a finalized block has its supermajority of precommits below the prevote-GHOST.
RoundInv ==
    /\ TypeOK
    /\ EquivocatorsVoted
    /\ HonestOnChain
    /\ GhostHeavy
    /\ EstimateHighest
    /\ FinalizedHeavy
    /\ CompletableBounds
=============================================================================
