-------------------------- MODULE VotingRoundProofs --------------------------
(***************************************************************************)
(* A round, whatever is voted: what RoundSpec promises; a voting round on  *)
(* top of it, from prevote to finality; and a round that goes on importing *)
(* in the background.  For every voter set, block tree and base.           *)
(***************************************************************************)
EXTENDS BackgroundRound, RoundVotesProofs

-----------------------------------------------------------------------------
(* What every step does to the votes *)

\* Votes only accumulate: supermajorities stay, possibilities vanish.
VotesGrow ==
    /\ prevotes' \in VoteMap /\ precommits' \in VoteMap
    /\ prevote_equivocators' \in SUBSET Voter /\ precommit_equivocators' \in SUBSET Voter
    /\ EquivocatorsVoted'
    /\ HonestOnChain'
    /\ Weight[Voted(precommits)] <= Weight[Voted(precommits')]
    /\ \A b \in Block :
          /\ Heavy(prevotes, prevote_equivocators, b) =>
                 Heavy(prevotes', prevote_equivocators', b)
          /\ Heavy(precommits, precommit_equivocators, b) =>
                 Heavy(precommits', precommit_equivocators', b)
          /\ Possible(precommits', precommit_equivocators', b) =>
                 Possible(precommits, precommit_equivocators, b)

\* The first prevote of a voter only adds to the votes, refused by the graph or not.
LEMMA PrevoteGrows ==
    ASSUME RoundInv, NEW v \in Voter, NEW b \in Block, ImportPrevote(v, b)
    PROVE  VotesGrow
<1>1. /\ prevotes' = [prevotes EXCEPT ![v] = b] /\ prevotes[v] = None
      /\ UNCHANGED <<precommits, prevote_equivocators, precommit_equivocators>>
      /\ v \notin Byzantine => Base \in Ancestors[b]
  BY DEF ImportPrevote, MayTarget, IsEqualOrDescendentOf
<1>2. prevotes \in VoteMap /\ prevotes' \in VoteMap /\ precommits \in VoteMap
  BY <1>1 DEF RoundInv, TypeOK, VoteMap, OptionBlock
<1>3. \A w \in Voter : prevotes[w] \in Block => prevotes'[w] = prevotes[w]
  BY <1>1, <1>2, BlockTreeAssumption DEF VoteMap
<1>4. EquivocatorsVoted'
  BY <1>1, <1>3 DEF RoundInv, TypeOK, EquivocatorsVoted, Voted
<1>5. HonestOnChain'
  BY <1>1, <1>2 DEF RoundInv, HonestOnChain, VoteMap
<1>6. prevote_equivocators \in SUBSET Voter /\ precommit_equivocators \in SUBSET Voter
  BY DEF RoundInv, TypeOK
<1>7. /\ Weight[Voted(precommits)] <= Weight[Voted(precommits)]
      /\ \A c \in Block : Heavy(prevotes, prevote_equivocators, c) =>
                              Heavy(prevotes', prevote_equivocators, c)
  BY <1>2, <1>3, <1>6, HeavyGrows
<1> QED  BY <1>1, <1>2, <1>4, <1>5, <1>6, <1>7 DEF VotesGrow

\* So does the first precommit of a voter; it also makes no block possible again.
LEMMA PrecommitGrows ==
    ASSUME RoundInv, NEW v \in Voter, NEW b \in Block, ImportPrecommit(v, b)
    PROVE  VotesGrow
<1>1. /\ precommits' = [precommits EXCEPT ![v] = b] /\ precommits[v] = None
      /\ UNCHANGED <<prevotes, prevote_equivocators, precommit_equivocators>>
      /\ v \notin Byzantine => Base \in Ancestors[b]
  BY DEF ImportPrecommit, MayTarget, IsEqualOrDescendentOf
<1>2. precommits \in VoteMap /\ precommits' \in VoteMap /\ prevotes \in VoteMap
  BY <1>1 DEF RoundInv, TypeOK, VoteMap, OptionBlock
<1>3. \A w \in Voter : precommits[w] \in Block => precommits'[w] = precommits[w]
  BY <1>1, <1>2, BlockTreeAssumption DEF VoteMap
<1>4. EquivocatorsVoted'
  BY <1>1, <1>3 DEF RoundInv, TypeOK, EquivocatorsVoted, Voted
<1>5. HonestOnChain'
  BY <1>1, <1>2 DEF RoundInv, HonestOnChain, VoteMap
<1>6. /\ prevote_equivocators \in SUBSET Voter /\ precommit_equivocators \in SUBSET Voter
      /\ precommit_equivocators \subseteq Voted(precommits)
  BY DEF RoundInv, TypeOK, EquivocatorsVoted
<1>7. /\ Weight[Voted(precommits)] <= Weight[Voted(precommits')]
      /\ \A c \in Block : Heavy(precommits, precommit_equivocators, c) =>
                              Heavy(precommits', precommit_equivocators, c)
  BY <1>2, <1>3, <1>6, HeavyGrows
<1>8. \A c \in Block : Possible(precommits', precommit_equivocators, c) =>
                           Possible(precommits, precommit_equivocators, c)
  BY <1>1, <1>2, <1>6, FirstVoteRulesOut
<1> QED  BY <1>1, <1>2, <1>4, <1>5, <1>6, <1>7, <1>8 DEF VotesGrow

\* A second prevote turns its voter into an equivocator, counted for every block.
LEMMA PrevoteEquivocationGrows ==
    ASSUME RoundInv, NEW v \in Voter, EquivocatePrevote(v)
    PROVE  VotesGrow
<1>1. /\ prevotes[v] # None /\ v \in Byzantine
      /\ prevote_equivocators' = prevote_equivocators \union {v}
      /\ UNCHANGED <<prevotes, precommits, precommit_equivocators>>
  BY DEF EquivocatePrevote
<1>2. /\ prevotes \in VoteMap /\ precommits \in VoteMap
      /\ prevote_equivocators \in SUBSET Voter /\ prevote_equivocators' \in SUBSET Voter
      /\ precommit_equivocators \in SUBSET Voter
  BY <1>1 DEF RoundInv, TypeOK, VoteMap
<1>3. v \in Voted(prevotes)
  BY <1>1, <1>2 DEF Voted, VoteMap, OptionBlock
<1>4. EquivocatorsVoted'
  BY <1>1, <1>3 DEF RoundInv, EquivocatorsVoted, Voted
<1>5. HonestOnChain'
  BY <1>1 DEF RoundInv, HonestOnChain
<1>6. /\ Weight[Voted(precommits)] <= Weight[Voted(precommits)]
      /\ \A c \in Block : Heavy(prevotes, prevote_equivocators, c) =>
                              Heavy(prevotes, prevote_equivocators', c)
  BY <1>1, <1>2, HeavyGrows
<1> QED  BY <1>1, <1>2, <1>4, <1>5, <1>6 DEF VotesGrow

\* A second precommit does, and while equivocations are tolerated makes nothing possible.
LEMMA PrecommitEquivocationGrows ==
    ASSUME RoundInv, NEW v \in Voter, EquivocatePrecommit(v)
    PROVE  VotesGrow
<1>1. /\ precommits[v] # None /\ v \in Byzantine /\ v \notin precommit_equivocators
      /\ precommit_equivocators' = precommit_equivocators \union {v}
      /\ UNCHANGED <<prevotes, precommits, prevote_equivocators>>
  BY DEF EquivocatePrecommit
<1>2. /\ prevotes \in VoteMap /\ precommits \in VoteMap
      /\ precommit_equivocators \in SUBSET Voter /\ precommit_equivocators' \in SUBSET Voter
      /\ prevote_equivocators \in SUBSET Voter
      /\ precommit_equivocators \subseteq Voted(precommits)
  BY <1>1 DEF RoundInv, TypeOK, EquivocatorsVoted, VoteMap
<1>3. v \in Voted(precommits)
  BY <1>1, <1>2 DEF Voted, VoteMap, OptionBlock
<1>4. EquivocatorsVoted'
  BY <1>1, <1>3 DEF RoundInv, EquivocatorsVoted, Voted
<1>5. HonestOnChain'
  BY <1>1 DEF RoundInv, HonestOnChain
<1>6. /\ Weight[Voted(precommits)] <= Weight[Voted(precommits)]
      /\ \A c \in Block : Heavy(precommits, precommit_equivocators, c) =>
                              Heavy(precommits, precommit_equivocators', c)
  BY <1>1, <1>2, HeavyGrows
<1>7. Weight[precommit_equivocators'] <= Faulty
  BY <1>4, EquivocatorsTolerated DEF EquivocatorsVoted
<1>8. \A c \in Block : Possible(precommits, precommit_equivocators', c) =>
                           Possible(precommits, precommit_equivocators, c)
  BY <1>1, <1>2, <1>3, <1>7, EquivocationRulesOut
<1> QED  BY <1>1, <1>2, <1>4, <1>5, <1>6, <1>8 DEF VotesGrow

\* A step that imports no vote.
LEMMA NoVoteGrows ==
    ASSUME RoundInv, UNCHANGED votes
    PROVE  VotesGrow
<1>1. UNCHANGED <<prevotes, precommits, prevote_equivocators, precommit_equivocators>>
  BY DEF votes
<1>2. /\ prevotes \in VoteMap /\ precommits \in VoteMap
      /\ prevote_equivocators \in SUBSET Voter /\ precommit_equivocators \in SUBSET Voter
  BY DEF RoundInv, TypeOK, VoteMap
<1>3. EquivocatorsVoted' /\ HonestOnChain'
  BY <1>1 DEF RoundInv, EquivocatorsVoted, HonestOnChain, Voted
<1>4. Weight[Voted(precommits)] <= Weight[Voted(precommits)]
  BY <1>2, HeavyGrows
<1> QED  BY <1>1, <1>2, <1>3, <1>4 DEF VotesGrow

-----------------------------------------------------------------------------
(* The prevote-GHOST *)

\* What import_prevote does to the memoised prevote-GHOST.
GhostSearch ==
    IF Weight[Voted(prevotes')] >= Threshold
    THEN prevote_ghost' \in Ghosts(prevotes', precommits', prevotes', prevote_equivocators')
    ELSE UNCHANGED prevote_ghost

\* What every step does to the prevote-GHOST: it has a supermajority and only rises.
GhostRise ==
    /\ prevote_ghost' \in OptionBlock
    /\ GhostHeavy'
    /\ prevote_ghost # None => prevote_ghost' # None /\ prevote_ghost \in ChainTo(prevote_ghost')

\* A search among the new votes finds a block above the old prevote-GHOST.
LEMMA SearchRises ==
    ASSUME RoundInv, VotesGrow, GhostSearch
    PROVE  GhostRise
<1> DEFINE g == prevote_ghost
           h == prevote_ghost'
           hvy(b) == Heavy(prevotes', prevote_equivocators', b)
<1>1. /\ prevotes' \in VoteMap /\ prevote_equivocators' \in SUBSET Voter
      /\ prevote_equivocators' \subseteq Voted(prevotes')
      /\ prevote_equivocators' \subseteq Byzantine
  BY DEF VotesGrow, EquivocatorsVoted
<1>2. g \in OptionBlock /\ Base \in Block
  BY RoundAssumption DEF RoundInv, TypeOK
<1>3. ASSUME g # None
      PROVE  g \in Block /\ Base \in Ancestors[g] /\ hvy(g) /\ Weight[Voted(prevotes')] >= Threshold
  <2>1. g \in Block
    BY <1>2, <1>3 DEF OptionBlock
  <2>2. Base \in Ancestors[g] /\ Heavy(prevotes, prevote_equivocators, g)
    BY <1>3 DEF RoundInv, GhostHeavy
  <2>3. hvy(g)
    BY <2>1, <2>2 DEF VotesGrow
  <2> QED  BY <1>1, <2>1, <2>2, <2>3, HeavyNeedsVotes
<1>4. CASE ~(Weight[Voted(prevotes')] >= Threshold)
  <2>1. g = None /\ h = None
    BY <1>3, <1>4 DEF GhostSearch
  <2> QED  BY <2>1 DEF GhostRise, GhostHeavy, OptionBlock
<1>5. CASE Weight[Voted(prevotes')] >= Threshold
  <2>1. h \in Ghosts(prevotes', precommits', prevotes', prevote_equivocators')
    BY <1>5 DEF GhostSearch
  <2>2. h \in OptionBlock
    BY <2>1 DEF Ghosts
  <2>3. h # None => /\ h \in Block /\ Base \in Ancestors[h] /\ hvy(h)
                    /\ \A y \in Block : InGraph(prevotes', precommits', y) /\ Below(h, y) => ~hvy(y)
    BY <2>1, <2>2 DEF Ghosts, InGraph, OptionBlock
  <2>4. h = None => ~hvy(Base)
    BY <2>1 DEF Ghosts
  <2>5. GhostHeavy'
    BY <2>3 DEF GhostHeavy
  <2>6. ASSUME g # None PROVE h # None /\ g \in ChainTo(h)
    <3>1. g \in Block /\ Base \in Ancestors[g] /\ hvy(g)
      BY <1>3, <2>6
    <3>2. hvy(Base)
      <4>1. /\ Weight[On(prevotes', prevote_equivocators', g)] \in Nat
            /\ Weight[On(prevotes', prevote_equivocators', Base)] \in Nat
            /\ Weight[On(prevotes', prevote_equivocators', g)]
                  <= Weight[On(prevotes', prevote_equivocators', Base)]
        BY <1>1, <3>1, OnWeights
      <4> QED  BY <3>1, <4>1, ThresholdFacts DEF Heavy
    <3>3. h # None /\ h \in Block /\ hvy(h)
      BY <2>3, <2>4, <3>2
    <3>4. PICK v \in Voter : /\ prevotes'[v] \in Block /\ g \in Ancestors[prevotes'[v]]
                             /\ h \in Ancestors[prevotes'[v]]
      BY <1>1, <3>1, <3>3, CommonVoter
    <3>5. InGraph(prevotes', precommits', g)
      BY <3>1, <3>4 DEF InGraph
    <3>6. ~Below(h, g)
      BY <2>3, <3>1, <3>3, <3>5
    <3>7. g \in Ancestors[h]
      BY <3>1, <3>3, <3>4, <3>6, BlockTreeAssumption DEF Below
    <3> QED  BY <3>1, <3>3, <3>7 DEF ChainTo
  <2> QED  BY <2>2, <2>5, <2>6 DEF GhostRise
<1> QED  BY <1>4, <1>5

\* An unchanged prevote-GHOST keeps its supermajority.
LEMMA SameGhostRises ==
    ASSUME RoundInv, VotesGrow, UNCHANGED prevote_ghost
    PROVE  GhostRise
<1>1. prevote_ghost \in OptionBlock
  BY DEF RoundInv, TypeOK
<1>2. ASSUME prevote_ghost # None
      PROVE  /\ prevote_ghost \in ChainTo(prevote_ghost) /\ Base \in Ancestors[prevote_ghost]
             /\ Heavy(prevotes', prevote_equivocators', prevote_ghost)
  <2>1. prevote_ghost \in Block
    BY <1>1, <1>2 DEF OptionBlock
  <2>2. Base \in Ancestors[prevote_ghost] /\ Heavy(prevotes, prevote_equivocators, prevote_ghost)
    BY <1>2 DEF RoundInv, GhostHeavy
  <2> QED  BY <2>1, <2>2, BlockTreeAssumption DEF VotesGrow, ChainTo
<1> QED  BY <1>1, <1>2 DEF GhostRise, GhostHeavy

-----------------------------------------------------------------------------
(* Round::update *)

\* What every step leaves of the derived state.
Bounded ==
    /\ finalized' \in OptionBlock /\ estimate' \in OptionBlock /\ completable' \in BOOLEAN
    /\ EstimateHighest' /\ FinalizedHeavy' /\ CompletableBounds'
    /\ StepsAreMonotone

\* Until the prevotes have a supermajority and a GHOST, nothing is derived.
LEMMA UpdateTooFewPrevotes ==
    ASSUME RoundInv, VotesGrow, GhostRise, Update,
           Weight[Voted(prevotes')] < Threshold \/ prevote_ghost' = None
    PROVE  Bounded
<1>1. prevote_ghost' = None
  <2> SUFFICES ASSUME prevote_ghost' # None PROVE FALSE
    OBVIOUS
  <2>1. /\ prevote_ghost' \in Block
        /\ Heavy(prevotes', prevote_equivocators', prevote_ghost')
    BY DEF GhostRise, GhostHeavy, OptionBlock
  <2>2. /\ prevotes' \in VoteMap /\ prevote_equivocators' \in SUBSET Voter
        /\ prevote_equivocators' \subseteq Voted(prevotes')
    BY DEF VotesGrow, EquivocatorsVoted
  <2>3. Weight[Voted(prevotes')] >= Threshold
    BY <2>1, <2>2, HeavyNeedsVotes
  <2>4. Weight[Voted(prevotes')] \in Nat
    BY <2>1, <2>2, OnWeights
  <2> QED  BY <2>3, <2>4, ThresholdFacts
<1>2. prevote_ghost = None
  BY <1>1 DEF GhostRise
<1>3. finalized = None /\ estimate = None /\ completable = FALSE
  BY <1>2 DEF RoundInv, TypeOK, EstimateHighest, FinalizedHeavy, CompletableBounds
<1>4. finalized' = None /\ estimate' = None /\ completable' = FALSE
  BY <1>3 DEF Update
<1> QED
  BY <1>1, <1>2, <1>3, <1>4
  DEF Bounded, OptionBlock, EstimateHighest, FinalizedHeavy, CompletableBounds, StepsAreMonotone

\* Without a supermajority of precommits the estimate is the prevote-GHOST.
LEMMA UpdateTooFewPrecommits ==
    ASSUME RoundInv, VotesGrow, GhostRise, Update,
           ~(Weight[Voted(prevotes')] < Threshold \/ prevote_ghost' = None),
           Weight[Voted(precommits')] < Threshold
    PROVE  Bounded
<1> DEFINE h == prevote_ghost'
<1>1. h \in Block /\ Base \in Ancestors[h]
  BY DEF GhostRise, GhostHeavy, OptionBlock
<1>2. /\ precommits \in VoteMap /\ precommit_equivocators \in SUBSET Voter
      /\ precommit_equivocators \subseteq Voted(precommits)
      /\ finalized \in OptionBlock /\ completable \in BOOLEAN
  BY DEF RoundInv, TypeOK, EquivocatorsVoted, VoteMap
<1>3. ~(Weight[Voted(precommits)] >= Threshold)
  <2>1. Weight[Voted(precommits)] <= Weight[Voted(precommits')]
    BY DEF VotesGrow
  <2>2. Weight[Voted(precommits)] \in Nat
    BY <1>2, <1>1, OnWeights
  <2>3. Voted(precommits') \in SUBSET Voter
    BY DEF Voted
  <2>4. Weight[Voted(precommits')] \in Nat
    BY <2>3, WeightAssumption
  <2> QED  BY <2>1, <2>2, <2>4, ThresholdFacts
<1>4. finalized = None
  <2> SUFFICES ASSUME finalized # None PROVE FALSE
    OBVIOUS
  <2>1. finalized \in Block /\ Heavy(precommits, precommit_equivocators, finalized)
    BY <1>2 DEF RoundInv, FinalizedHeavy, OptionBlock
  <2> QED  BY <1>2, <1>3, <2>1, HeavyNeedsVotes
<1>5. completable = FALSE
  BY <1>2, <1>3 DEF RoundInv, CompletableBounds
<1>6. finalized' = None /\ estimate' = h /\ completable' = FALSE
  BY <1>4, <1>5 DEF Update
<1>7. EstimateHighest'
  BY <1>1, <1>6, TreeFacts, BlockTreeAssumption DEF EstimateHighest, ChainTo
<1> QED
  BY <1>1, <1>4, <1>5, <1>6, <1>7
  DEF Bounded, GhostRise, OptionBlock, FinalizedHeavy, CompletableBounds, StepsAreMonotone

\* With both supermajorities: finalized and estimate are searched below the prevote-GHOST,
\* and nothing the search or an earlier one ruled out comes back.
LEMMA UpdateSearches ==
    ASSUME RoundInv, VotesGrow, GhostRise, Update,
           ~(Weight[Voted(prevotes')] < Threshold \/ prevote_ghost' = None),
           ~(Weight[Voted(precommits')] < Threshold)
    PROVE  Bounded
<1> DEFINE g == prevote_ghost
           h == prevote_ghost'
           E == precommit_equivocators'
           poss(b) == Possible(precommits', E, b)
           hvy(b) == Heavy(precommits', E, b)
           possible == {b \in Block : poss(b)}
           heavy == {b \in Block : hvy(b)}
<1>1. h # None /\ h \in Block /\ Base \in Ancestors[h] /\ Base \in Block
  BY RoundAssumption DEF GhostRise, GhostHeavy, OptionBlock
<1>2. /\ precommits' \in VoteMap /\ E \in SUBSET Voter
      /\ E \subseteq Voted(precommits') /\ E \subseteq Byzantine
      /\ \A v \in Voter \ Byzantine :
             precommits'[v] \in Block => Base \in Ancestors[precommits'[v]]
  BY DEF VotesGrow, EquivocatorsVoted, HonestOnChain
<1>3. /\ finalized' \in Highest(h, heavy)
      /\ estimate' \in Highest(h, possible)
      /\ completable' =
            /\ estimate' # None
            /\ \/ estimate' # h
               \/ \A b \in Block :
                     InGraph(prevotes', precommits', b) /\ Below(h, b) => ~poss(b)
  BY DEF Update, Completes
<1>4. ChainTo(h) \subseteq Block /\ ChainTo(h) \subseteq Ancestors[h] /\ h \in ChainTo(h)
  BY <1>1, TreeFacts DEF ChainTo
<1>5. Base \in ChainTo(h) \intersect possible
  <2>1. poss(Base)
    BY <1>2, BaseIsPossible
  <2>2. Base \in ChainTo(h)
    BY <1>1, TreeFacts DEF ChainTo
  <2> QED  BY <1>1, <2>1, <2>2
<1>6. /\ estimate' # None /\ estimate' \in Block
      /\ estimate' \in ChainTo(h) /\ poss(estimate') /\ Base \in Ancestors[estimate']
      /\ \A b \in ChainTo(h) : poss(b) => b \in Ancestors[estimate']
  <2>1. estimate' # None
    BY <1>3, <1>5 DEF Highest
  <2>2. /\ estimate' \in ChainTo(h) \intersect possible
        /\ \A y \in ChainTo(h) \intersect possible : y \in Ancestors[estimate']
    BY <1>3, <2>1 DEF Highest
  <2> QED  BY <1>4, <2>1, <2>2 DEF ChainTo
<1>7. EstimateHighest'
  BY <1>1, <1>6 DEF EstimateHighest
<1>8. finalized' \in OptionBlock /\ (finalized' # None =>
            finalized' \in ChainTo(h) /\ hvy(finalized'))
  BY <1>3 DEF Highest
<1>9. FinalizedHeavy'
  BY <1>1, <1>8 DEF FinalizedHeavy
<1>10. Weight[Voted(precommits')] \in Nat /\ Weight[Voted(precommits')] >= Threshold
  <2>1. Voted(precommits') \in SUBSET Voter
    BY DEF Voted
  <2>2. Weight[Voted(precommits')] \in Nat
    BY <2>1, WeightAssumption
  <2> QED  BY <2>2, ThresholdFacts
<1>11. ASSUME completable', NEW b \in Block, h \in Ancestors[b], poss(b)
       PROVE  b \in Ancestors[estimate']
  <2>1. CASE estimate' # h
    <3>1. poss(h)
      BY <1>2, <1>11, PossibleBelow
    <3>2. h \in Ancestors[estimate'] /\ estimate' \in Ancestors[h]
      BY <1>4, <1>6, <3>1
    <3> QED  BY <1>1, <1>6, <2>1, <3>2, TreeFacts
  <2>2. CASE estimate' = h
    <3>1. CASE b = h
      BY <1>1, <2>2, <3>1, TreeFacts
    <3>2. CASE b # h
      <4>1. Below(h, b)
        BY <1>11, <3>2 DEF Below
      <4>2. ~InGraph(prevotes', precommits', b)
        BY <1>3, <1>11, <2>2, <4>1
      <4>3. Base \in Ancestors[b]
        BY <1>1, <1>11, TreeFacts
      <4>4. On(precommits', E, b) = E
        BY <1>2, <4>2, <4>3 DEF InGraph, On
      <4>5. Weight[E] <= Faulty
        BY <1>2, EquivocatorsTolerated
      <4>6. ~poss(b)
        BY <1>2, <1>10, <4>4, <4>5, UnvotedIsImpossible
      <4> QED  BY <1>11, <4>6
    <3> QED  BY <3>1, <3>2
  <2> QED  BY <2>1, <2>2
<1>12. CompletableBounds'
  BY <1>1, <1>10, <1>11 DEF CompletableBounds
<1>13. completable' \in BOOLEAN
  BY <1>3
<1>14. ASSUME finalized # None
       PROVE  finalized' # None /\ finalized \in ChainTo(finalized')
  <2>1. /\ finalized \in Block /\ g # None /\ finalized \in ChainTo(g)
        /\ Heavy(precommits, precommit_equivocators, finalized)
    BY <1>14 DEF RoundInv, TypeOK, OptionBlock, FinalizedHeavy
  <2>2. g \in Block /\ g \in ChainTo(h)
    BY <2>1 DEF GhostRise, RoundInv, TypeOK, OptionBlock
  <2>3. hvy(finalized)
    BY <2>1 DEF VotesGrow
  <2>4. finalized \in ChainTo(h) /\ Base \in Ancestors[finalized]
    BY <1>1, <2>1, <2>2, TreeFacts DEF ChainTo
  <2>5. finalized \in ChainTo(h) \intersect heavy
    BY <2>1, <2>3, <2>4
  <2>6. finalized' # None /\ finalized \in Ancestors[finalized']
    BY <1>3, <2>5 DEF Highest
  <2> QED  BY <2>4, <2>6 DEF ChainTo
<1>15. ASSUME completable
       PROVE  completable' /\ estimate' \in ChainTo(estimate)
  <2>1. /\ g # None /\ estimate # None /\ estimate \in ChainTo(g)
        /\ \A b \in ChainTo(g) :
               Possible(precommits, precommit_equivocators, b) => b \in Ancestors[estimate]
        /\ \A b \in Block :
               g \in Ancestors[b] /\ Possible(precommits, precommit_equivocators, b)
                   => b \in Ancestors[estimate]
    BY <1>15 DEF RoundInv, CompletableBounds, EstimateHighest
  <2>2. g \in Block /\ estimate \in Block /\ g \in Ancestors[h] /\ estimate \in Ancestors[g]
    BY <2>1 DEF GhostRise, RoundInv, TypeOK, OptionBlock, ChainTo
  <2>3. Possible(precommits, precommit_equivocators, estimate')
    BY <1>6 DEF VotesGrow
  <2>4. estimate' \in Ancestors[g] \/ g \in Ancestors[estimate']
    BY <1>1, <1>4, <1>6, <2>2, TreeFacts
  <2>5. estimate' \in Ancestors[estimate]
    BY <1>6, <2>1, <2>3, <2>4 DEF ChainTo
  <2>6. ASSUME NEW b \in Block, Below(h, b), poss(b) PROVE FALSE
    <3>1. h \in Ancestors[b] /\ h # b
      BY <2>6 DEF Below
    <3>2. Possible(precommits, precommit_equivocators, b)
      BY <2>6 DEF VotesGrow
    <3>3. g \in Ancestors[b]
      BY <1>1, <2>2, <3>1, TreeFacts
    <3>4. b \in Ancestors[estimate]
      BY <2>1, <3>2, <3>3
    <3>5. b \in Ancestors[h]
      BY <1>1, <2>2, <3>4, TreeFacts
    <3> QED  BY <1>1, <3>1, <3>5, TreeFacts
  <2>7. completable'
    BY <1>3, <1>6, <2>6
  <2> QED  BY <1>6, <2>5, <2>7 DEF ChainTo
<1>16. StepsAreMonotone
  BY <1>6, <1>14, <1>15 DEF GhostRise, StepsAreMonotone
<1>17. estimate' \in OptionBlock
  BY <1>6 DEF OptionBlock
<1> QED  BY <1>7, <1>8, <1>9, <1>12, <1>13, <1>16, <1>17 DEF Bounded

\* Round::update as a whole.
LEMMA UpdateBounds ==
    ASSUME RoundInv, VotesGrow, GhostRise, Update
    PROVE  Bounded
BY UpdateTooFewPrevotes, UpdateTooFewPrecommits, UpdateSearches

\* Derived state that is left alone, because the vote graph refused the vote, is still
\* bounded by the votes.
LEMMA StaleIsBounded ==
    ASSUME RoundInv, VotesGrow, UNCHANGED Derived
    PROVE  GhostRise /\ Bounded
<1> DEFINE g == prevote_ghost
<1>1. UNCHANGED <<prevote_ghost, finalized, estimate, completable>>
  BY DEF Derived
<1>2. GhostRise
  BY <1>1, SameGhostRises
<1>3. /\ g \in OptionBlock /\ finalized \in OptionBlock
      /\ estimate \in OptionBlock /\ completable \in BOOLEAN
  BY DEF RoundInv, TypeOK
<1>4. g # None => g \in Block /\ ChainTo(g) \subseteq Block
  BY <1>3, TreeFacts DEF OptionBlock
<1>5. EstimateHighest'
  BY <1>1, <1>4 DEF RoundInv, EstimateHighest, VotesGrow
<1>6. FinalizedHeavy'
  BY <1>1, <1>3 DEF RoundInv, FinalizedHeavy, VotesGrow, OptionBlock
<1>7. CompletableBounds'
  <2> SUFFICES ASSUME completable PROVE CompletableBounds'
    BY <1>1 DEF CompletableBounds
  <2>1. Weight[Voted(precommits)] >= Threshold /\ g # None
    BY DEF RoundInv, CompletableBounds
  <2>2. Weight[Voted(precommits)] <= Weight[Voted(precommits')]
    BY DEF VotesGrow
  <2>3. Voted(precommits) \in SUBSET Voter /\ Voted(precommits') \in SUBSET Voter
    BY DEF Voted
  <2>4. Weight[Voted(precommits)] \in Nat /\ Weight[Voted(precommits')] \in Nat
    BY <2>3, WeightAssumption
  <2>5. Weight[Voted(precommits')] >= Threshold
    BY <2>1, <2>2, <2>4, ThresholdFacts
  <2>6. \A b \in Block :
           g \in Ancestors[b] /\ Possible(precommits', precommit_equivocators', b)
               => b \in Ancestors[estimate]
    BY DEF RoundInv, CompletableBounds, VotesGrow
  <2> QED  BY <1>1, <2>1, <2>5, <2>6 DEF CompletableBounds
<1>8. StepsAreMonotone
  <2>1. finalized # None => finalized \in ChainTo(finalized)
    BY <1>3, TreeFacts DEF RoundInv, FinalizedHeavy, ChainTo, OptionBlock
  <2>2. completable => estimate # None /\ estimate \in ChainTo(estimate)
    BY <1>3, TreeFacts DEF RoundInv, CompletableBounds, EstimateHighest, ChainTo, OptionBlock
  <2> QED  BY <1>1, <1>2, <2>1, <2>2 DEF GhostRise, StepsAreMonotone
<1> QED  BY <1>1, <1>2, <1>3, <1>5, <1>6, <1>7, <1>8 DEF Bounded

-----------------------------------------------------------------------------
(* Steps and behaviours *)

\* The invariant holds of a new round.
LEMMA InitEstablishesInv ==
    Init => RoundInv
<1> SUFFICES ASSUME Init PROVE RoundInv
  OBVIOUS
<1>1. \A v \in Voter : prevotes[v] \notin Block /\ precommits[v] \notin Block
  BY BlockTreeAssumption DEF Init
<1>2. TypeOK
  BY DEF Init, TypeOK, OptionBlock
<1>3. EquivocatorsVoted /\ HonestOnChain
  BY <1>1 DEF Init, EquivocatorsVoted, HonestOnChain
<1>4. GhostHeavy /\ EstimateHighest /\ FinalizedHeavy /\ CompletableBounds
  BY DEF Init, GhostHeavy, EstimateHighest, FinalizedHeavy, CompletableBounds
<1> QED  BY <1>2, <1>3, <1>4 DEF RoundInv

\* Every step of the round, with a step that changes nothing, adds to the votes, raises
\* the prevote-GHOST and keeps the derived state within its bounds.
LEMMA StepFacts ==
    ASSUME RoundInv, [Next]_vars
    PROVE  VotesGrow /\ GhostRise /\ Bounded /\ precommit_ghost' \in OptionBlock
<1>0. precommit_ghost \in OptionBlock
  BY DEF RoundInv, TypeOK
<1>1. ASSUME NEW v \in Voter, NEW b \in Block, ImportPrevote(v, b)
      PROVE  VotesGrow /\ GhostRise /\ Bounded /\ precommit_ghost' \in OptionBlock
  <2>1. VotesGrow
    BY <1>1, PrevoteGrows
  <2>2. precommit_ghost' \in OptionBlock
    BY <1>0, <1>1 DEF ImportPrevote
  <2>3. CASE IsEqualOrDescendentOf(Base, b)
    <3>1. GhostSearch /\ Update
      BY <1>1, <2>3 DEF ImportPrevote, UpdateGhost, GhostSearch
    <3>2. GhostRise
      BY <2>1, <3>1, SearchRises
    <3> QED  BY <2>1, <2>2, <3>1, <3>2, UpdateBounds
  <2>4. CASE ~IsEqualOrDescendentOf(Base, b)
    <3>1. UNCHANGED Derived
      BY <1>1, <2>4 DEF ImportPrevote
    <3> QED  BY <2>1, <2>2, <3>1, StaleIsBounded
  <2> QED  BY <2>3, <2>4
<1>2. ASSUME NEW v \in Voter, NEW b \in Block, ImportPrecommit(v, b)
      PROVE  VotesGrow /\ GhostRise /\ Bounded /\ precommit_ghost' \in OptionBlock
  <2>1. VotesGrow
    BY <1>2, PrecommitGrows
  <2>2. precommit_ghost' \in OptionBlock /\ UNCHANGED prevote_ghost
    BY <1>0, <1>2 DEF ImportPrecommit
  <2>3. CASE IsEqualOrDescendentOf(Base, b)
    <3>1. Update
      BY <1>2, <2>3 DEF ImportPrecommit
    <3>2. GhostRise
      BY <2>1, <2>2, SameGhostRises
    <3> QED  BY <2>1, <2>2, <3>1, <3>2, UpdateBounds
  <2>4. CASE ~IsEqualOrDescendentOf(Base, b)
    <3>1. UNCHANGED Derived
      BY <1>2, <2>2, <2>4 DEF ImportPrecommit, Derived
    <3> QED  BY <2>1, <2>2, <3>1, StaleIsBounded
  <2> QED  BY <2>3, <2>4
<1>3. ASSUME NEW v \in Voter, EquivocatePrevote(v)
      PROVE  VotesGrow /\ GhostRise /\ Bounded /\ precommit_ghost' \in OptionBlock
  <2>1. VotesGrow
    BY <1>3, PrevoteEquivocationGrows
  <2>2. precommit_ghost' \in OptionBlock /\ GhostSearch /\ Update
    BY <1>0, <1>3 DEF EquivocatePrevote, UpdateGhost, GhostSearch
  <2>3. GhostRise
    BY <2>1, <2>2, SearchRises
  <2> QED  BY <2>1, <2>2, <2>3, UpdateBounds
<1>4. ASSUME NEW v \in Voter, EquivocatePrecommit(v)
      PROVE  VotesGrow /\ GhostRise /\ Bounded /\ precommit_ghost' \in OptionBlock
  <2>1. VotesGrow
    BY <1>4, PrecommitEquivocationGrows
  <2>2. precommit_ghost' \in OptionBlock /\ UNCHANGED prevote_ghost /\ Update
    BY <1>0, <1>4 DEF EquivocatePrecommit
  <2>3. GhostRise
    BY <2>1, <2>2, SameGhostRises
  <2> QED  BY <2>1, <2>2, <2>3, UpdateBounds
<1>5. CASE ComputePrecommitGhost
  <2>1. UNCHANGED votes /\ UNCHANGED Derived /\ precommit_ghost' \in OptionBlock
    BY <1>5 DEF ComputePrecommitGhost, Ghosts
  <2>2. VotesGrow
    BY <2>1, NoVoteGrows
  <2> QED  BY <2>1, <2>2, StaleIsBounded
<1>6. CASE UNCHANGED vars
  <2>1. UNCHANGED votes /\ UNCHANGED Derived /\ precommit_ghost' \in OptionBlock
    BY <1>0, <1>6 DEF vars, Derived
  <2>2. VotesGrow
    BY <2>1, NoVoteGrows
  <2> QED  BY <2>1, <2>2, StaleIsBounded
<1> QED  BY <1>1, <1>2, <1>3, <1>4, <1>5, <1>6 DEF Next

\* The invariant is inductive.
LEMMA InvIsInductive ==
    RoundInv /\ [Next]_vars => RoundInv'
<1> SUFFICES ASSUME RoundInv, [Next]_vars PROVE RoundInv'
  OBVIOUS
<1>1. VotesGrow /\ GhostRise /\ Bounded /\ precommit_ghost' \in OptionBlock
  BY StepFacts
<1>2. TypeOK'
  BY <1>1 DEF VotesGrow, GhostRise, Bounded, TypeOK, VoteMap
<1> QED  BY <1>1, <1>2 DEF VotesGrow, GhostRise, Bounded, RoundInv

\* RoundInv holds throughout every behaviour of the round: the state that round.rs keeps
\* is bounded by the votes imported, for every voter set, block tree and base.
THEOREM RoundInvariant == Spec => []RoundInv
<1>1. Init => RoundInv
  BY InitEstablishesInv
<1>2. RoundInv /\ [Next]_vars => RoundInv'
  BY InvIsInductive
<1> QED  BY <1>1, <1>2, PTL DEF Spec

\* A finalized block is at or below the estimate, and the estimate at or below the
\* prevote-GHOST: update() never rules a finalized block out.
THEOREM FinalizedIsBelowEstimate == Spec => []FinalizedBelowEstimate
<1>1. RoundInv => FinalizedBelowEstimate
  <2> SUFFICES ASSUME RoundInv PROVE FinalizedBelowEstimate
    OBVIOUS
  <2>1. /\ precommits \in VoteMap /\ precommit_equivocators \in SUBSET Voter
        /\ precommit_equivocators \subseteq Voted(precommits)
        /\ finalized \in OptionBlock /\ estimate \in OptionBlock
    BY DEF RoundInv, TypeOK, VoteMap, EquivocatorsVoted
  <2>2. estimate # None => prevote_ghost # None /\ estimate \in ChainTo(prevote_ghost)
    BY DEF RoundInv, EstimateHighest
  <2>3. ASSUME finalized # None PROVE estimate # None /\ finalized \in ChainTo(estimate)
    <3>1. /\ finalized \in Block /\ prevote_ghost # None
          /\ finalized \in ChainTo(prevote_ghost)
          /\ Heavy(precommits, precommit_equivocators, finalized)
      BY <2>1, <2>3 DEF RoundInv, FinalizedHeavy, OptionBlock
    <3>2. Possible(precommits, precommit_equivocators, finalized)
      BY <2>1, <3>1, HeavyIsPossible
    <3>3. estimate # None /\ finalized \in Ancestors[estimate]
      BY <3>1, <3>2 DEF RoundInv, EstimateHighest
    <3> QED  BY <3>1, <3>3 DEF ChainTo
  <2> QED  BY <2>2, <2>3 DEF FinalizedBelowEstimate
<1> QED  BY <1>1, RoundInvariant, PTL

\* Once a round is completable, no block beyond the estimate on a chain through the
\* prevote-GHOST can get a supermajority of precommits, known to the vote graph or not.
THEOREM EstimateIsBound == Spec => []EstimateBounds
<1>1. RoundInv => EstimateBounds
  <2> SUFFICES ASSUME RoundInv, completable, NEW b \in Block, Base \in Ancestors[b],
                      b \in Ancestors[prevote_ghost] \/ prevote_ghost \in Ancestors[b],
                      Possible(precommits, precommit_equivocators, b)
               PROVE  estimate # None /\ b \in Ancestors[estimate]
    BY DEF EstimateBounds
  <2>1. prevote_ghost # None /\ estimate # None
    BY DEF RoundInv, CompletableBounds, EstimateHighest
  <2>2. CASE b \in Ancestors[prevote_ghost]
    BY <2>1, <2>2 DEF RoundInv, EstimateHighest, ChainTo
  <2>3. CASE prevote_ghost \in Ancestors[b]
    BY <2>1, <2>3 DEF RoundInv, CompletableBounds
  <2> QED  BY <2>2, <2>3
<1> QED  BY <1>1, RoundInvariant, PTL

\* The prevote-GHOST and the finalized block only rise, a completable round stays so, and
\* its estimate only moves back: what check_prevote_ghost and check_estimate of
\* fuzz_helpers.rs assert of random imports.
THEOREM RoundIsMonotone == Spec => MonotoneRound
<1>1. RoundInv /\ [Next]_vars => StepsAreMonotone
  BY StepFacts DEF Bounded
<1> QED  BY <1>1, RoundInvariant, PTL DEF Spec, MonotoneRound

\* A block that possible_to_precommit rules out stays ruled out.
THEOREM RuledOutForGood == Spec => ImpossibleForGood
<1>1. RoundInv /\ [Next]_vars => StepsRuleOutForGood
  BY StepFacts DEF VotesGrow, StepsRuleOutForGood
<1> QED  BY <1>1, RoundInvariant, PTL DEF Spec, ImpossibleForGood

-----------------------------------------------------------------------------
(* The last round, seen from this one *)

\* A state in which the last round may be seen.
LEMMA LastFacts ==
    ASSUME NEW s \in LastStates
    PROVE  /\ s # None
           /\ s.prevote_ghost \in Block /\ s.estimate \in Block /\ s.completable
           /\ s.estimate \in Ancestors[s.prevote_ghost]
           /\ s.finalized # None => s.finalized \in Block /\ s.finalized \in Ancestors[s.estimate]
           /\ Follows(s, s)
<1>1. /\ s # None /\ s.prevote_ghost \in Block /\ s.completable
      /\ s.estimate \in ChainTo(s.prevote_ghost)
      /\ s.finalized # None => s.finalized \in ChainTo(s.estimate)
  BY VotingRoundAssumption
<1>2. s.estimate \in Block /\ s.estimate \in Ancestors[s.prevote_ghost]
  BY <1>1, TreeFacts
<1>3. s.finalized # None => s.finalized \in Block /\ s.finalized \in Ancestors[s.estimate]
  BY <1>1, <1>2, TreeFacts
<1> QED  BY <1>1, <1>2, <1>3, TreeFacts DEF Follows

\* Of two blocks on a chain, the one with the smaller number is the lower one.
LEMMA LowerNumber ==
    ASSUME NEW g \in Block, NEW x \in Ancestors[g], NEW y \in Ancestors[g], Number[x] <= Number[y]
    PROVE  x \in Ancestors[y]
<1>1. /\ x \in Block /\ y \in Block
      /\ x \in Ancestors[y] \/ y \in Ancestors[x]
  BY TreeFacts
<1>2. Number[x] \in Nat /\ Number[y] \in Nat /\ (y \in Ancestors[x] /\ x # y => Number[y] < Number[x])
  BY <1>1, BlockTreeAssumption
<1> QED  BY <1>1, <1>2, TreeFacts

\* construct_prevote asks for the best chain above a block that is at or above the estimate of
\* the last round, whatever the primary hinted at.
LEMMA PrevoteBase ==
    ASSUME primary_block \in OptionBlock, NEW lr \in LastStates
    PROVE  ConstructPrevote(lr) \in Block /\ lr.estimate \in Ancestors[ConstructPrevote(lr)]
<1> DEFINE ghost    == lr.prevote_ghost
           ancestry == IF Below(lr.estimate, ghost) THEN Ancestry(lr.estimate, ghost) ELSE <<>>
           offset   == Number[ghost] - Number[primary_block]
<1>1. /\ ghost \in Block /\ lr.estimate \in Block /\ lr.estimate \in Ancestors[ghost]
      /\ lr.estimate \in Ancestors[lr.estimate]
  BY LastFacts, TreeFacts
<1>2. ASSUME primary_block \in Block, Number[primary_block] < Number[ghost],
             offset \in DOMAIN ancestry, ancestry[offset] = primary_block
      PROVE  lr.estimate \in Ancestors[primary_block]
  <2>1. /\ Number[ghost] \in Nat /\ Number[lr.estimate] \in Nat /\ Number[primary_block] \in Nat
    BY <1>1, <1>2, BlockTreeAssumption
  <2>2. Below(lr.estimate, ghost)
    BY <1>2
  <2>3. /\ offset \in 1 .. (Number[ghost] - Number[lr.estimate] - 1)
        /\ AncestorAt(ghost, Number[ghost] - offset) = primary_block
    BY <1>2, <2>2 DEF Ancestry
  <2>4. Number[ghost] - offset = Number[primary_block]
    BY <2>1
  <2>5. Number[primary_block] \in Number[lr.estimate] .. Number[ghost]
    BY <2>1, <2>3
  <2>6. \E x \in Ancestors[ghost] : Number[x] = Number[primary_block]
    BY <1>1, <2>5, ContiguityAssumption
  <2>7. primary_block \in Ancestors[ghost]
    BY <2>3, <2>4, <2>6 DEF AncestorAt
  <2> QED  BY <1>1, <2>1, <2>5, <2>7, LowerNumber
<1>3. CASE primary_block = None
  BY <1>1, <1>3 DEF ConstructPrevote
<1>4. CASE primary_block \in Block
  <2>1. primary_block # None
    BY <1>4, BlockTreeAssumption
  <2>2. CASE primary_block = ghost
    BY <1>1, <2>1, <2>2 DEF ConstructPrevote
  <2>3. CASE primary_block # ghost /\ Number[primary_block] >= Number[ghost]
    BY <1>1, <2>1, <2>3 DEF ConstructPrevote
  <2>4. CASE primary_block # ghost /\ ~(Number[primary_block] >= Number[ghost])
    <3>1. Number[primary_block] < Number[ghost]
      BY <1>1, <1>4, <2>4, BlockTreeAssumption
    <3>2. ConstructPrevote(lr) = IF offset \in DOMAIN ancestry /\ ancestry[offset] = primary_block
                                 THEN primary_block ELSE lr.estimate
      BY <2>1, <2>4 DEF ConstructPrevote
    <3> QED  BY <1>1, <1>2, <1>4, <3>1, <3>2
  <2> QED  BY <2>2, <2>3, <2>4
<1> QED  BY <1>3, <1>4 DEF OptionBlock
-----------------------------------------------------------------------------
(* The voting state machine *)

\* A voter that fits a phase and a last round.
Fits(v, lr) == v \in VoterStates /\ InPhase(v) /\ OutgoingIsTail(v) /\ AboveLast(v, lr)

\* Casting one more vote at or above the estimate of the last round.
LEMMA CastOne ==
    ASSUME NEW v \in VoterStates, NEW w \in VoterStates, NEW m \in VoteMessages, NEW lr,
           InPhase(v), OutgoingIsTail(v), \A i \in DOMAIN v.cast : lr.estimate \in Ancestors[v.cast[i].target],
           w.cast = Append(v.cast, m), w.outgoing = Append(v.outgoing, m),
           \A kind \in KindsBy(v.state) :
               <<kind, m.kind>> \in
                   {<<"propose", "prevote">>, <<"propose", "precommit">>, <<"prevote", "precommit">>},
           KindsBy(v.state) \subseteq KindsBy(w.state), m.kind \in KindsBy(w.state),
           "precommit" \notin KindsBy(v.state),
           m.kind = "prevote" \/ HasCast(v, "prevote") \/ (w.state # "Prevoted" /\ m.kind # "precommit"),
           lr.estimate \in Ancestors[m.target]
    PROVE  /\ InPhase(w) /\ OutgoingIsTail(w)
           /\ \A i \in DOMAIN w.cast : lr.estimate \in Ancestors[w.cast[i].target]
<1> DEFINE n == Len(v.cast)
           pairs == {<<"propose", "prevote">>, <<"propose", "precommit">>, <<"prevote", "precommit">>}
<1>1. /\ v.cast \in Seq(VoteMessages) /\ v.outgoing \in Seq(VoteMessages)
      /\ n \in Nat /\ Len(v.outgoing) \in Nat
  BY DEF VoterStates
<1>2. /\ DOMAIN v.cast = 1 .. n /\ DOMAIN w.cast = 1 .. (n + 1)
      /\ w.cast[n + 1] = m /\ \A i \in 1 .. n : w.cast[i] = v.cast[i]
      /\ Len(w.cast) = n + 1
  BY <1>1
<1>3. /\ DOMAIN v.outgoing = 1 .. Len(v.outgoing) /\ DOMAIN w.outgoing = 1 .. (Len(v.outgoing) + 1)
      /\ w.outgoing[Len(v.outgoing) + 1] = m
      /\ \A i \in 1 .. Len(v.outgoing) : w.outgoing[i] = v.outgoing[i]
      /\ Len(w.outgoing) = Len(v.outgoing) + 1
  BY <1>1
<1>4. \A i \in 1 .. n : v.cast[i].kind \in KindsBy(v.state) /\ <<v.cast[i].kind, m.kind>> \in pairs
  BY <1>2 DEF InPhase
<1>5. ASSUME NEW i \in DOMAIN w.cast, NEW j \in DOMAIN w.cast, i < j
      PROVE  <<w.cast[i].kind, w.cast[j].kind>> \in pairs
  <2>1. CASE j = n + 1
    <3>1. i \in 1 .. n
      BY <1>1, <1>2, <1>5, <2>1
    <3> QED  BY <1>2, <1>4, <2>1, <3>1
  <2>2. CASE j # n + 1
    <3>1. i \in 1 .. n /\ j \in 1 .. n
      BY <1>1, <1>2, <1>5, <2>2
    <3>2. <<v.cast[i].kind, v.cast[j].kind>> \in pairs
      BY <1>2, <1>5, <3>1 DEF InPhase
    <3> QED  BY <1>2, <3>1, <3>2
  <2> QED  BY <2>1, <2>2
<1>6. \A i \in DOMAIN w.cast : w.cast[i].kind \in KindsBy(w.state)
  <2> SUFFICES ASSUME NEW i \in DOMAIN w.cast PROVE w.cast[i].kind \in KindsBy(w.state)
    OBVIOUS
  <2>1. CASE i = n + 1
    BY <1>2, <2>1
  <2>2. CASE i # n + 1
    <3>1. i \in 1 .. n
      BY <1>1, <1>2, <2>2
    <3> QED  BY <1>2, <1>4, <3>1
  <2> QED  BY <2>1, <2>2
<1>7. HasCast(v, "prevote") \/ m.kind = "prevote" => HasCast(w, "prevote")
  <2>1. n + 1 \in DOMAIN w.cast /\ \A i \in DOMAIN v.cast : i \in DOMAIN w.cast
    BY <1>1, <1>2
  <2> QED  BY <1>2, <2>1 DEF HasCast
<1>8. HasCast(w, "precommit") => m.kind = "precommit"
  <2> SUFFICES ASSUME NEW i \in DOMAIN w.cast, w.cast[i].kind = "precommit" PROVE m.kind = "precommit"
    BY DEF HasCast
  <2>1. i \notin 1 .. n
    BY <1>2, <1>4
  <2>2. i = n + 1
    BY <1>1, <1>2, <2>1
  <2> QED  BY <1>2, <2>2
<1>9. InPhase(w)
  BY <1>5, <1>6, <1>7, <1>8 DEF InPhase
<1>10. OutgoingIsTail(w)
  <2> DEFINE k == Len(v.outgoing)
  <2>0. n \in Nat /\ k \in Nat /\ Len(w.cast) = n + 1 /\ Len(w.outgoing) = k + 1
    BY <1>1, <1>2, <1>3
  <2>1. k <= n /\ \A i \in 1 .. k : v.outgoing[i] = v.cast[n - k + i]
    BY <1>3 DEF OutgoingIsTail
  <2>2. /\ \A i \in 1 .. n : w.cast[i] = v.cast[i]
        /\ \A i \in 1 .. k : w.outgoing[i] = v.outgoing[i]
        /\ w.cast[n + 1] = m /\ w.outgoing[k + 1] = m /\ DOMAIN w.outgoing = 1 .. (k + 1)
    BY <1>2, <1>3
  <2> HIDE DEF n, k
  <2>3. Len(w.outgoing) <= Len(w.cast)
    BY <2>0, <2>1
  <2>4. ASSUME NEW i \in 1 .. (k + 1)
        PROVE  w.outgoing[i] = w.cast[(n + 1) - (k + 1) + i]
    <3>1. CASE i = k + 1
      <4>1. (n + 1) - (k + 1) + i = n + 1
        BY <2>0, <3>1
      <4> QED  BY <2>2, <3>1, <4>1
    <3>2. CASE i # k + 1
      <4>1. n \in Nat /\ k \in Nat /\ k <= n
        BY <2>0, <2>1
      <4>2. i \in 1 .. k
        BY <3>2, <4>1
      <4>3. (n + 1) - (k + 1) + i = n - k + i /\ n - k + i \in 1 .. n
        BY <4>1, <4>2
      <4> QED  BY <2>1, <2>2, <4>2, <4>3
    <3> QED  BY <3>1, <3>2
  <2> QED  BY <2>0, <2>2, <2>3, <2>4 DEF OutgoingIsTail
<1>11. \A i \in DOMAIN w.cast : lr.estimate \in Ancestors[w.cast[i].target]
  <2> SUFFICES ASSUME NEW i \in DOMAIN w.cast PROVE lr.estimate \in Ancestors[w.cast[i].target]
    OBVIOUS
  <2>1. CASE i = n + 1
    BY <1>2, <2>1
  <2>2. CASE i # n + 1
    <3>1. i \in 1 .. n
      BY <1>1, <1>2, <2>2
    <3> QED  BY <1>2, <3>1
  <2> QED  BY <2>1, <2>2
<1> QED  BY <1>9, <1>10, <1>11

\* A step of the voter that casts nothing.
LEMMA CastNothing ==
    ASSUME NEW v \in VoterStates, NEW w \in VoterStates,
           InPhase(v), OutgoingIsTail(v),
           w.cast = v.cast, w.outgoing = v.outgoing,
           KindsBy(v.state) \subseteq KindsBy(w.state),
           w.state = "Prevoted" /\ IsActive(w) => v.state = "Prevoted" /\ IsActive(v)
    PROVE  InPhase(w) /\ OutgoingIsTail(w)
<1>1. \A kind : HasCast(w, kind) <=> HasCast(v, kind)
  BY DEF HasCast
<1>2. InPhase(w)
  BY <1>1 DEF InPhase
<1> QED  BY <1>2 DEF OutgoingIsTail

\* The voter's own messages.
LEMMA MyMessage ==
    ASSUME NEW kind \in {"propose", "prevote", "precommit"}, NEW b \in Block
    PROVE  /\ Message(kind, Me, b) \in VoteMessages
           /\ Message(kind, Me, b).kind = kind /\ Message(kind, Me, b).target = b
BY VotingRoundAssumption DEF Message, VoteMessages

LEMMA Appended ==
    ASSUME NEW v \in VoterStates, NEW m \in VoteMessages
    PROVE  Append(v.cast, m) \in Seq(VoteMessages) /\ Append(v.outgoing, m) \in Seq(VoteMessages)
<1>1. v.cast \in Seq(VoteMessages) /\ v.outgoing \in Seq(VoteMessages)
  BY DEF VoterStates
<1> QED  BY <1>1

LEMMA Kinds ==
    /\ KindsBy("Start") = {}
    /\ KindsBy("Proposed") = {"propose"} /\ KindsBy("Prevoting") = {"propose"} /\ KindsBy(None) = {"propose"}
    /\ KindsBy("Prevoted") = {"propose", "prevote"}
    /\ KindsBy("Precommitted") = {"propose", "prevote", "precommit"}
    /\ KindsBy("error") = {"propose", "prevote", "precommit"}
    /\ \A state : KindsBy(state) \subseteq {"propose", "prevote", "precommit"}
<1>1. /\ KindsBy("Start") = {}
      /\ KindsBy("Proposed") = {"propose"} /\ KindsBy("Prevoting") = {"propose"}
  BY VotingRoundAssumption DEF KindsBy
<1>2. KindsBy(None) = {"propose"}
  BY VotingRoundAssumption DEF KindsBy
<1>3. KindsBy("Prevoted") = {"propose", "prevote"}
  BY VotingRoundAssumption DEF KindsBy
<1>4. /\ KindsBy("Precommitted") = {"propose", "prevote", "precommit"}
      /\ KindsBy("error") = {"propose", "prevote", "precommit"}
  BY VotingRoundAssumption DEF KindsBy
<1>5. ASSUME NEW state PROVE KindsBy(state) \subseteq {"propose", "prevote", "precommit"}
  BY DEF KindsBy
<1> QED  BY <1>1, <1>2, <1>3, <1>4, <1>5

\* An error of the environment.
LEMMA FailedFits ==
    ASSUME NEW lr, NEW v, Fits(v, lr)
    PROVE  Fits(Failed(v), lr)
<1> DEFINE w == Failed(v)
<1>1. /\ v \in VoterStates /\ w \in VoterStates
      /\ w.state = "error" /\ w.cast = v.cast /\ w.outgoing = v.outgoing
  BY DEF Fits, Failed, VoterStates
<1>2. KindsBy(v.state) \subseteq KindsBy(w.state)
  BY <1>1, Kinds
<1>3. InPhase(w) /\ OutgoingIsTail(w)
  BY <1>1, <1>2, CastNothing DEF Fits
<1>4. w.state # "Prevoting" /\ w.state # "Precommitted"
  BY <1>1
<1> QED  BY <1>1, <1>3, <1>4 DEF Fits, AboveLast

LEMMA ProposeFits ==
    ASSUME NEW lr \in LastStates, NEW v, Fits(v, lr), NEW w \in PrimaryPropose(v, lr)
    PROVE  Fits(w, lr)
<1> DEFINE hint == Message("propose", Me, lr.estimate)
<1>1. hint \in VoteMessages /\ hint.kind = "propose" /\ hint.target = lr.estimate
  BY MyMessage, LastFacts
<1>2. ASSUME v.state = "Start",
             w = [v EXCEPT !.state = "Proposed", !.outgoing = Append(@, hint), !.cast = Append(@, hint)]
      PROVE  Fits(w, lr)
  <2> HIDE DEF hint
  <2>0. /\ v \in VoterStates
        /\ Append(v.cast, hint) \in Seq(VoteMessages) /\ Append(v.outgoing, hint) \in Seq(VoteMessages)
    BY <1>1, Appended DEF Fits
  <2>1. /\ w \in VoterStates
        /\ w.state = "Proposed" /\ w.cast = Append(v.cast, hint) /\ w.outgoing = Append(v.outgoing, hint)
    BY <1>2, <2>0 DEF VoterStates
  <2>2. KindsBy(v.state) = {} /\ KindsBy(w.state) = {"propose"}
    BY <1>2, <2>1, Kinds
  <2>3. lr.estimate \in Ancestors[hint.target]
    BY <1>1, LastFacts, TreeFacts
  <2>4. /\ InPhase(w) /\ OutgoingIsTail(w)
        /\ \A i \in DOMAIN w.cast : lr.estimate \in Ancestors[w.cast[i].target]
    BY <1>1, <2>0, <2>1, <2>2, <2>3, CastOne DEF Fits, AboveLast
  <2> QED  BY <2>1, <2>4 DEF Fits, AboveLast
<1> QED  BY <1>2, FailedFits DEF PrimaryPropose

LEMMA StartPrevotingFits ==
    ASSUME NEW lr \in LastStates, primary_block \in OptionBlock, NEW v, Fits(v, lr),
           v.state \in {"Start", "Proposed"}, NEW w \in StartPrevoting(v, lr)
    PROVE  Fits(w, lr)
<1>1. v \in VoterStates /\ KindsBy(v.state) \subseteq {"propose"}
  BY DEF Fits, KindsBy
<1>2. ASSUME IsActive(v), w = [v EXCEPT !.state = "Prevoting", !.base = ConstructPrevote(lr), !.woken = TRUE]
      PROVE  Fits(w, lr)
  <2>1. ConstructPrevote(lr) \in Block /\ lr.estimate \in Ancestors[ConstructPrevote(lr)]
    BY PrevoteBase
  <2>2. /\ w \in VoterStates /\ w.state = "Prevoting" /\ w.base = ConstructPrevote(lr)
        /\ w.cast = v.cast /\ w.outgoing = v.outgoing
    BY <1>1, <1>2, <2>1 DEF VoterStates, OptionBlock
  <2>3. InPhase(w) /\ OutgoingIsTail(w)
    BY <1>1, <2>2, CastNothing DEF Fits, KindsBy
  <2> QED  BY <2>1, <2>2, <2>3 DEF Fits, AboveLast
<1>3. ASSUME ~IsActive(v), w = [v EXCEPT !.state = "Prevoted"]
      PROVE  Fits(w, lr)
  <2>1. /\ w \in VoterStates /\ w.state = "Prevoted" /\ ~IsActive(w)
        /\ w.cast = v.cast /\ w.outgoing = v.outgoing
    BY <1>1, <1>3 DEF VoterStates, IsActive
  <2>2. InPhase(w) /\ OutgoingIsTail(w)
    BY <1>1, <2>1, CastNothing DEF Fits, KindsBy
  <2> QED  BY <2>1, <2>2 DEF Fits, AboveLast
<1>4. ASSUME w = [v EXCEPT !.armed = @ \union {"prevote_timer"}]
      PROVE  Fits(w, lr)
  <2>1. w \in VoterStates /\ w.state = v.state /\ w.cast = v.cast /\ w.outgoing = v.outgoing
    BY <1>1, <1>4 DEF VoterStates, Wakers
  <2>2. InPhase(w) /\ OutgoingIsTail(w)
    BY <1>1, <2>1, CastNothing DEF Fits
  <2> QED  BY <2>1, <2>2 DEF Fits, AboveLast
<1> QED  BY <1>2, <1>3, <1>4, FailedFits DEF StartPrevoting

LEMMA FinishPrevotingFits ==
    ASSUME NEW lr \in LastStates, NEW v, Fits(v, lr), v.state = "Prevoting", NEW w \in FinishPrevoting(v)
    PROVE  Fits(w, lr)
<1>1. /\ v \in VoterStates /\ KindsBy(v.state) = {"propose"}
      /\ v.base \in Block /\ lr.estimate \in Ancestors[v.base]
  BY Kinds DEF Fits, AboveLast
<1>2. ASSUME w = [v EXCEPT !.armed = @ \union {"best_chain"}]
      PROVE  Fits(w, lr)
  <2>1. /\ w \in VoterStates /\ w.state = v.state /\ w.base = v.base
        /\ w.cast = v.cast /\ w.outgoing = v.outgoing
    BY <1>1, <1>2 DEF VoterStates, Wakers
  <2>2. InPhase(w) /\ OutgoingIsTail(w)
    BY <1>1, <2>1, CastNothing DEF Fits
  <2> QED  BY <2>1, <2>2 DEF Fits, AboveLast
<1>3. ASSUME w = [v EXCEPT !.state = None, !.base = None, !.voting = "No"]
      PROVE  Fits(w, lr)
  <2>1. /\ w \in VoterStates /\ w.state = None
        /\ w.cast = v.cast /\ w.outgoing = v.outgoing
    BY <1>1, <1>3 DEF VoterStates, OptionBlock
  <2>2. w.state \notin {"Prevoting", "Prevoted", "Precommitted"}
    BY <2>1, VotingRoundAssumption
  <2>3. InPhase(w) /\ OutgoingIsTail(w)
    BY <1>1, <2>1, <2>2, Kinds, CastNothing DEF Fits
  <2> QED  BY <2>1, <2>2, <2>3 DEF Fits, AboveLast
<1>4. ASSUME NEW b \in Block, v.base \in Ancestors[b],
             w = [v EXCEPT !.state = "Prevoted", !.base = None,
                           !.outgoing = Append(@, Message("prevote", Me, b)),
                           !.cast = Append(@, Message("prevote", Me, b))]
      PROVE  Fits(w, lr)
  <2> DEFINE m == Message("prevote", Me, b)
  <2>1. /\ m \in VoteMessages /\ m.kind = "prevote" /\ m.target = b
    BY MyMessage
  <2>2. lr.estimate \in Ancestors[m.target]
    BY <1>1, <1>4, <2>1, TreeFacts
  <2> HIDE DEF m
  <2>3. Append(v.cast, m) \in Seq(VoteMessages) /\ Append(v.outgoing, m) \in Seq(VoteMessages)
    BY <1>1, <2>1, Appended
  <2>4. w = [v EXCEPT !.state = "Prevoted", !.base = None, !.outgoing = Append(@, m), !.cast = Append(@, m)]
    BY <1>4 DEF m
  <2>5. /\ w \in VoterStates /\ w.state = "Prevoted"
        /\ w.cast = Append(v.cast, m) /\ w.outgoing = Append(v.outgoing, m)
    BY <1>1, <2>3, <2>4 DEF VoterStates, OptionBlock
  <2>6. KindsBy(w.state) = {"propose", "prevote"}
    BY <2>5, Kinds
  <2>7. /\ InPhase(w) /\ OutgoingIsTail(w)
        /\ \A i \in DOMAIN w.cast : lr.estimate \in Ancestors[w.cast[i].target]
    BY <1>1, <2>1, <2>2, <2>5, <2>6, CastOne DEF Fits, AboveLast
  <2> QED  BY <2>5, <2>7 DEF Fits, AboveLast
<1> QED  BY <1>2, <1>3, <1>4, FailedFits DEF FinishPrevoting

LEMMA PrevoteFits ==
    ASSUME NEW lr \in LastStates, primary_block \in OptionBlock, NEW v, Fits(v, lr), NEW w \in Prevote(v, lr)
    PROVE  Fits(w, lr)
<1>1. CASE v.state \in {"Start", "Proposed"}
  BY <1>1, StartPrevotingFits DEF Prevote
<1>2. CASE v.state = "Prevoting"
  BY <1>2, FinishPrevotingFits DEF Prevote
<1>3. CASE v.state \notin {"Start", "Proposed", "Prevoting"}
  BY <1>3 DEF Prevote
<1> QED  BY <1>1, <1>2, <1>3

LEMMA PrecommitFits ==
    ASSUME NEW lr \in LastStates, prevote_ghost \in OptionBlock, NEW v, Fits(v, lr), NEW w \in Precommit(v, lr)
    PROVE  Fits(w, lr)
<1>1. v \in VoterStates
  BY DEF Fits
<1>2. ASSUME v.state = "Prevoted", GhostAbove(lr), w = [v EXCEPT !.armed = @ \union {"precommit_timer"}]
      PROVE  Fits(w, lr)
  <2>1. w \in VoterStates /\ w.state = v.state /\ w.voting = v.voting /\ w.cast = v.cast /\ w.outgoing = v.outgoing
    BY <1>1, <1>2 DEF VoterStates, Wakers
  <2>2. InPhase(w) /\ OutgoingIsTail(w)
    BY <1>1, <2>1, CastNothing DEF Fits, IsActive
  <2> QED  BY <1>2, <2>1, <2>2 DEF Fits, AboveLast
<1>3. ASSUME v.state = "Prevoted", GhostAbove(lr), w = [v EXCEPT !.state = "Precommitted"]
      PROVE  Fits(w, lr)
  <2>1. w \in VoterStates /\ w.state = "Precommitted" /\ w.cast = v.cast /\ w.outgoing = v.outgoing
    BY <1>1, <1>3 DEF VoterStates
  <2>2. InPhase(w) /\ OutgoingIsTail(w)
    BY <1>1, <2>1, Kinds, CastNothing DEF Fits
  <2> QED  BY <1>3, <2>1, <2>2 DEF Fits, AboveLast
<1>4. ASSUME v.state = "Prevoted", GhostAbove(lr), IsActive(v),
             w = [v EXCEPT !.state = "Precommitted",
                           !.outgoing = Append(@, ConstructPrecommit),
                           !.cast = Append(@, ConstructPrecommit)]
      PROVE  Fits(w, lr)
  <2> DEFINE m == ConstructPrecommit
  <2>1. prevote_ghost \in Block /\ lr.estimate \in Ancestors[prevote_ghost]
    BY <1>4 DEF GhostAbove, OptionBlock
  <2>2. m \in VoteMessages /\ m.kind = "precommit" /\ m.target = prevote_ghost
    BY <1>4, <2>1, MyMessage DEF ConstructPrecommit, GhostAbove
  <2> HIDE DEF m
  <2>3. Append(v.cast, m) \in Seq(VoteMessages) /\ Append(v.outgoing, m) \in Seq(VoteMessages)
    BY <1>1, <2>2, Appended
  <2>4. w = [v EXCEPT !.state = "Precommitted", !.outgoing = Append(@, m), !.cast = Append(@, m)]
    BY <1>4 DEF m
  <2>5. /\ w \in VoterStates /\ w.state = "Precommitted"
        /\ w.cast = Append(v.cast, m) /\ w.outgoing = Append(v.outgoing, m)
    BY <1>1, <2>3, <2>4 DEF VoterStates
  <2>6. /\ KindsBy(v.state) = {"propose", "prevote"}
        /\ KindsBy(w.state) = {"propose", "prevote", "precommit"}
        /\ HasCast(v, "prevote")
    BY <1>4, <2>5, Kinds DEF Fits, InPhase
  <2>7. /\ InPhase(w) /\ OutgoingIsTail(w)
        /\ \A i \in DOMAIN w.cast : lr.estimate \in Ancestors[w.cast[i].target]
    BY <1>1, <2>1, <2>2, <2>5, <2>6, CastOne DEF Fits, AboveLast
  <2> QED  BY <1>4, <2>5, <2>7 DEF Fits, AboveLast
<1> QED  BY <1>2, <1>3, <1>4, FailedFits DEF Precommit

\* Whatever propose, prevote and precommit do in a poll, in turn.
LEMMA CastVotesFits ==
    ASSUME NEW lr \in LastStates, primary_block \in OptionBlock, prevote_ghost \in OptionBlock,
           NEW u, Fits(u, lr),
           NEW x \in UNION {Precommit(w, lr) : w \in UNION {Prevote(v, lr) : v \in PrimaryPropose(u, lr)}}
    PROVE  Fits(x, lr)
<1>1. PICK w \in UNION {Prevote(v, lr) : v \in PrimaryPropose(u, lr)} : x \in Precommit(w, lr)
  OBVIOUS
<1>2. PICK v \in PrimaryPropose(u, lr) : w \in Prevote(v, lr)
  OBVIOUS
<1>3. Fits(v, lr)
  BY <1>2, ProposeFits
<1>4. Fits(w, lr)
  BY <1>2, <1>3, PrevoteFits
<1> QED  BY <1>1, <1>4, PrecommitFits

-----------------------------------------------------------------------------
(* The votes *)

LEMMA ImportIsStep ==
    ASSUME NEW m \in VoteMessages, ImportVote(m)
    PROVE  [Next]_vars
<1>1. m.id \in Voter /\ m.target \in Block
  BY DEF VoteMessages
<1>2. CASE m.kind = "prevote"
  <2>1. ImportPrevote(m.id, m.target) \/ EquivocatePrevote(m.id) \/ UNCHANGED vars
    BY <1>2 DEF ImportVote
  <2> QED  BY <1>1, <2>1 DEF Next
<1>3. CASE m.kind # "prevote"
  <2>1. ImportPrecommit(m.id, m.target) \/ EquivocatePrecommit(m.id) \/ UNCHANGED vars
    BY <1>3 DEF ImportVote
  <2> QED  BY <1>1, <2>1 DEF Next
<1> QED  BY <1>2, <1>3

LEMMA HandleIsStep ==
    ASSUME NEW m \in VoteMessages, HandleVote(m), primary_block \in OptionBlock
    PROVE  [Next]_vars /\ primary_block' \in OptionBlock
<1>1. m.target \in OptionBlock
  BY DEF VoteMessages, OptionBlock
<1>2. CASE ~IsEqualOrDescendentOf(Base, m.target)
  BY <1>2 DEF HandleVote
<1>3. CASE IsEqualOrDescendentOf(Base, m.target) /\ m.kind = "propose"
  BY <1>1, <1>3 DEF HandleVote
<1>4. CASE IsEqualOrDescendentOf(Base, m.target) /\ m.kind # "propose"
  BY <1>4, ImportIsStep DEF HandleVote
<1> QED  BY <1>2, <1>3, <1>4

\* What the round's state becomes: the reason why a view of it is never wrong.
LEMMA RoundMoves ==
    ASSUME RoundInv, [Next]_vars
    PROVE  /\ RoundInv' /\ prevote_ghost' \in OptionBlock
           /\ completable => completable' /\ Follows(RoundState, RoundState)
           /\ completable => Follows(RoundState, RoundState')
           /\ \A lr \in LastStates : GhostAbove(lr) => GhostAbove(lr)'
           /\ finalized # None => finalized' # None /\ finalized \in Ancestors[finalized']
<1>1. RoundInv' /\ StepsAreMonotone
  BY InvIsInductive, StepFacts DEF Bounded
<1>2. /\ prevote_ghost \in OptionBlock /\ prevote_ghost' \in OptionBlock
      /\ estimate \in OptionBlock /\ estimate' \in OptionBlock
      /\ finalized \in OptionBlock /\ finalized' \in OptionBlock
      /\ completable => prevote_ghost # None /\ estimate # None
  BY <1>1 DEF RoundInv, TypeOK, CompletableBounds, EstimateHighest
<1>3. finalized # None => finalized' # None /\ finalized \in Ancestors[finalized']
  BY <1>1, <1>2, TreeFacts DEF StepsAreMonotone, OptionBlock
<1>4. prevote_ghost # None => prevote_ghost' # None /\ prevote_ghost \in Ancestors[prevote_ghost']
  BY <1>1, <1>2, TreeFacts DEF StepsAreMonotone, OptionBlock
<1>5. completable => completable' /\ estimate' # None /\ estimate' \in Ancestors[estimate]
  BY <1>1, <1>2, TreeFacts DEF StepsAreMonotone, OptionBlock
<1>6. completable => Follows(RoundState, RoundState')
  BY <1>2, <1>3, <1>4, <1>5 DEF Follows, RoundState
<1>7. completable => Follows(RoundState, RoundState)
  BY <1>2, TreeFacts DEF Follows, RoundState, OptionBlock
<1>8. ASSUME NEW lr \in LastStates, GhostAbove(lr)
      PROVE  GhostAbove(lr)'
  BY <1>2, <1>4, <1>8, TreeFacts DEF GhostAbove, OptionBlock
<1> QED  BY <1>1, <1>2, <1>3, <1>5, <1>6, <1>7, <1>8

\* A view that was right stays right.
LEMMA FollowsOn ==
    ASSUME NEW r, NEW s, NEW t, Follows(r, s), Follows(s, t),
           s.prevote_ghost \in Block, t.prevote_ghost \in Block,
           r.estimate \in Block, s.estimate \in Block,
           s.finalized \in OptionBlock, t.finalized \in OptionBlock
    PROVE  Follows(r, t)
<1>1. r.prevote_ghost \in Ancestors[t.prevote_ghost]
  BY TreeFacts DEF Follows
<1>2. t.estimate \in Ancestors[r.estimate]
  BY TreeFacts DEF Follows
<1>3. r.finalized # None => t.finalized # None /\ r.finalized \in Ancestors[t.finalized]
  BY TreeFacts DEF Follows, OptionBlock
<1> QED  BY <1>1, <1>2, <1>3 DEF Follows

-----------------------------------------------------------------------------
(* The invariant *)

LEMMA VotingInitEstablishesInv ==
    VotingInit => VotingInv /\ BridgeInv
<1> SUFFICES ASSUME VotingInit PROVE VotingInv /\ BridgeInv
  OBVIOUS
<1>1. RoundInv
  BY InitEstablishesInv DEF VotingInit
<1>2. PICK state \in {"Start", None}, role \in {"No", IF Me = Primary THEN "Primary" ELSE "Yes"} :
          /\ voter = [state |-> state, base |-> None, voting |-> role,
                      outgoing |-> <<>>, cast |-> <<>>, armed |-> {}, woken |-> TRUE]
          /\ pc = IF state = None THEN "loading" ELSE "idle"
          /\ last_round \in IF state = None THEN {None} ELSE LastStates
  BY DEF VotingInit
<1>3. /\ voter \in VoterStates /\ voter.state = state
      /\ voter.cast = <<>> /\ voter.outgoing = <<>>
  <2>1. <<>> \in Seq(VoteMessages) /\ None \in OptionBlock
    BY DEF OptionBlock
  <2> QED  BY <1>2, <2>1 DEF VoterStates
<1>4. /\ state = None => pc = "loading" /\ last_round = None
      /\ state # None => pc = "idle" /\ last_round \in LastStates /\ last_round # None
  BY <1>2, VotingRoundAssumption
<1>5. VotingTypeOK
  BY <1>2, <1>3, <1>4 DEF VotingInit, VotingTypeOK, OptionBlock
<1>6. voter.state \notin {"Prevoting", "Prevoted", "Precommitted"}
  BY <1>3, VotingRoundAssumption
<1>7. VoterFits
  BY <1>3, <1>4, <1>6 DEF VoterFits, InPhase, OutgoingIsTail, AboveLast, HasCast
<1>8. CopyIsPast /\ ReportStands /\ BridgeIsSafe
  BY <1>4 DEF VotingInit, CopyIsPast, ReportStands, CompletedIsFinalized, BridgeIsSafe
<1>9. BridgeInv
  BY <1>3, <1>4 DEF VotingInit, BridgeInv
<1> QED  BY <1>1, <1>4, <1>5, <1>7, <1>8, <1>9 DEF VotingInit, VotingInv

\* A view of the round stays right whatever votes follow.
LEMMA BridgeStaysSafe ==
    ASSUME VotingInv, [Next]_vars, bridged' = bridged
    PROVE  BridgeIsSafe'
<1> SUFFICES ASSUME bridged # None PROVE Follows(bridged, RoundState')
  BY DEF BridgeIsSafe, Follows, RoundState
<1>1. Follows(bridged, RoundState) /\ completable /\ bridged.estimate \in Block
  BY DEF VotingInv, BridgeIsSafe, Follows, RoundState, VotingTypeOK
<1>2. RoundInv /\ RoundInv' /\ Follows(RoundState, RoundState') /\ completable'
  BY <1>1, RoundMoves DEF VotingInv
<1>3. /\ RoundState.prevote_ghost \in Block /\ RoundState'.prevote_ghost \in Block
      /\ RoundState.estimate \in Block
      /\ RoundState.finalized \in OptionBlock /\ RoundState'.finalized \in OptionBlock
  BY <1>1, <1>2 DEF RoundState, RoundInv, TypeOK, CompletableBounds, EstimateHighest, OptionBlock
<1> QED  BY <1>1, <1>2, <1>3, FollowsOn

\* What is common to the steps that leave the last round and the phase of the voter alone.
LEMMA SameVoter ==
    ASSUME VotingInv, [Next]_vars, VotingTypeOK', OutgoingIsTail(voter'),
           voter'.state = voter.state, voter'.cast = voter.cast,
           voter'.voting = voter.voting, voter'.base = voter.base,
           UNCHANGED <<last_round, bridged>>,
           ready' => ready,
           pc' \in {"incoming", "bridge", "flush", "second"} => ~ready',
           pc' \in {"flush", "second"} => pc \in {"flush", "second"} /\ last' = last,
           pc' = "loading" => pc = "loading"
    PROVE  VotingInv'
<1>1. /\ RoundInv' /\ (completable => completable')
      /\ \A lr \in LastStates : GhostAbove(lr) => GhostAbove(lr)'
      /\ finalized # None => finalized' # None /\ finalized \in Ancestors[finalized']
  BY RoundMoves DEF VotingInv
<1>2. InPhase(voter')
  BY DEF VotingInv, VoterFits, InPhase, HasCast, IsActive
<1>3. last_round # None => last_round \in LastStates /\ last_round' \in LastStates
  BY DEF VotingInv, VotingTypeOK
<1>4. VoterFits'
  <2>1. ASSUME last_round # None PROVE AboveLast(voter, last_round)'
    BY <1>1, <1>3, <2>1 DEF VotingInv, VoterFits, AboveLast
  <2> QED  BY <1>2, <2>1 DEF VotingInv, VoterFits, InPhase, HasCast, IsActive, OutgoingIsTail
<1>5. CopyIsPast'
  BY DEF VotingInv, CopyIsPast, Follows
<1>6. CompletedIsFinalized'
  <2> SUFFICES ASSUME ready, voter.state = "Precommitted"
               PROVE  \E f \in {last_round.finalized, finalized'} \ {None} :
                          last_round.estimate \in Ancestors[f]
    BY DEF CompletedIsFinalized
  <2>1. PICK f \in {last_round.finalized, finalized} \ {None} : last_round.estimate \in Ancestors[f]
    BY DEF VotingInv, ReportStands, CompletedIsFinalized
  <2>2. CASE f = finalized
    <3>1. finalized \in Block /\ finalized' \in Block
      BY <1>1, <2>1, <2>2 DEF VotingInv, RoundInv, TypeOK, OptionBlock
    <3> QED  BY <1>1, <2>1, <2>2, <3>1, TreeFacts
  <2> QED  BY <2>1, <2>2
<1>7. ReportStands'
  BY <1>1, <1>6 DEF VotingInv, ReportStands
<1>8. BridgeIsSafe'
  BY BridgeStaysSafe
<1> QED  BY <1>1, <1>4, <1>5, <1>7, <1>8 DEF VotingInv

LEMMA SentMessages ==
    ASSUME VotingTypeOK
    PROVE  Messages \union Sent \subseteq VoteMessages
<1>1. Messages \subseteq VoteMessages
  BY VotingRoundAssumption DEF VoteMessages
<1>2. ASSUME NEW i \in 1 .. (Len(voter.cast) - Len(voter.outgoing))
      PROVE  voter.cast[i] \in VoteMessages
  <2>1. voter.cast \in Seq(VoteMessages) /\ voter.outgoing \in Seq(VoteMessages)
    BY DEF VotingTypeOK, VoterStates
  <2>2. Len(voter.cast) \in Nat /\ Len(voter.outgoing) \in Nat /\ DOMAIN voter.cast = 1 .. Len(voter.cast)
    BY <2>1
  <2>3. i \in DOMAIN voter.cast
    BY <2>2
  <2> QED  BY <2>1, <2>3
<1> QED  BY <1>1, <1>2 DEF Sent

\* The same voter, but for its sink and its wakers.
SameBut(v, w) ==
    /\ w \in VoterStates
    /\ w.state = v.state /\ w.cast = v.cast /\ w.voting = v.voting /\ w.base = v.base

LEMMA Awoken ==
    ASSUME VotingTypeOK, NEW woken \in BOOLEAN, NEW armed \in SUBSET Wakers
    PROVE  /\ SameBut(voter, [voter EXCEPT !.woken = woken])
           /\ SameBut(voter, [voter EXCEPT !.armed = armed])
           /\ SameBut(voter, [voter EXCEPT !.woken = woken, !.armed = armed])
           /\ [voter EXCEPT !.woken = woken].outgoing = voter.outgoing
           /\ [voter EXCEPT !.armed = armed].outgoing = voter.outgoing
           /\ [voter EXCEPT !.woken = woken, !.armed = armed].outgoing = voter.outgoing
           /\ voter.armed \in SUBSET Wakers /\ voter.woken \in BOOLEAN
<1>1. voter \in VoterStates
  BY DEF VotingTypeOK
<1> QED  BY <1>1 DEF SameBut, VoterStates

\* A step of the surroundings: it may wake the task.
LEMMA OutsideKeepsInv ==
    ASSUME VotingInv, UNCHANGED <<vars, pollVars, outVars, unflushed, primary_block, last_round>>,
           SameBut(voter, voter'), voter'.outgoing = voter.outgoing,
           inbox' \in SUBSET VoteMessages, events' \in SUBSET Wakers
    PROVE  VotingInv'
<1>1. VotingTypeOK'
  BY DEF VotingInv, VotingTypeOK, SameBut, pollVars, outVars
<1>2. OutgoingIsTail(voter')
  BY DEF VotingInv, VoterFits, OutgoingIsTail, SameBut
<1>3. /\ UNCHANGED <<pc, last, ready, last_round, bridged>>
      /\ pc \in {"incoming", "bridge", "flush", "second"} => ~ready
  BY DEF VotingInv, ReportStands, pollVars, outVars
<1> QED  BY <1>1, <1>2, <1>3, SameVoter DEF SameBut

LEMMA ArriveKeepsInv ==
    ASSUME VotingInv, NEW m \in Messages \union Sent, Arrive(m)
    PROVE  VotingInv'
<1>1. m \in VoteMessages /\ VotingTypeOK
  BY SentMessages DEF VotingInv
<1>2. SameBut(voter, voter') /\ voter'.outgoing = voter.outgoing
  BY <1>1, Awoken DEF Arrive
<1> QED  BY <1>1, <1>2, OutsideKeepsInv DEF Arrive, VotingTypeOK

LEMMA HappenKeepsInv ==
    ASSUME VotingInv, NEW e \in Wakers, Happen(e)
    PROVE  VotingInv'
<1>1. VotingTypeOK /\ (voter.woken \/ e \in voter.armed) \in BOOLEAN
  BY DEF VotingInv, VotingTypeOK, VoterStates
<1>2. voter' = [voter EXCEPT !.woken = voter.woken \/ e \in voter.armed]
  BY DEF Happen
<1>3. SameBut(voter, voter') /\ voter'.outgoing = voter.outgoing
  BY <1>1, <1>2, Awoken
<1> QED  BY <1>1, <1>3, OutsideKeepsInv DEF Happen, VotingTypeOK

LEMMA LastRoundWakesKeepsInv ==
    ASSUME VotingInv, LastRoundWakes
    PROVE  VotingInv'
<1>1. /\ VotingTypeOK /\ (voter.woken \/ "bridge" \in voter.armed) \in BOOLEAN
      /\ voter.armed \ {"bridge"} \in SUBSET Wakers
  BY DEF VotingInv, VotingTypeOK, VoterStates
<1>2. voter' = [voter EXCEPT !.woken = voter.woken \/ "bridge" \in voter.armed,
                             !.armed = voter.armed \ {"bridge"}]
  BY DEF LastRoundWakes
<1>3. SameBut(voter, voter') /\ voter'.outgoing = voter.outgoing
  BY <1>1, <1>2, Awoken
<1> QED  BY <1>1, <1>3, OutsideKeepsInv DEF LastRoundWakes, VotingTypeOK

\* A message is handled, in a poll or while a completed round is made.
LEMMA HandlingKeepsInv ==
    ASSUME VotingInv, NEW m \in VoteMessages, HandleVote(m),
           UNCHANGED <<pollVars, outVars, voter, events, unflushed, last_round>>,
           inbox' \in SUBSET VoteMessages
    PROVE  VotingInv'
<1>1. [Next]_vars /\ primary_block' \in OptionBlock
  BY HandleIsStep DEF VotingInv, VotingTypeOK
<1>2. VotingTypeOK'
  BY <1>1 DEF VotingInv, VotingTypeOK, pollVars, outVars
<1>3. /\ UNCHANGED <<pc, last, ready, last_round, bridged, voter>>
      /\ OutgoingIsTail(voter')
      /\ pc \in {"incoming", "bridge", "flush", "second"} => ~ready
  BY DEF VotingInv, ReportStands, VoterFits, pollVars, outVars
<1> QED  BY <1>1, <1>2, <1>3, SameVoter

-----------------------------------------------------------------------------
(* The steps of a poll *)

LEMMA BeginPollKeepsInv ==
    ASSUME VotingInv, BeginPoll
    PROVE  VotingInv'
<1>1. SameBut(voter, voter') /\ voter'.outgoing = voter.outgoing
  BY Awoken DEF VotingInv, BeginPoll
<1>2. VotingTypeOK' /\ OutgoingIsTail(voter')
  BY <1>1 DEF VotingInv, VotingTypeOK, VoterFits, OutgoingIsTail, SameBut, BeginPoll, outVars
<1>3. /\ UNCHANGED <<vars, last_round, bridged>> /\ pc' = "incoming" /\ ready' = FALSE
  BY DEF BeginPoll, outVars
<1> QED  BY <1>1, <1>2, <1>3, SameVoter DEF SameBut

LEMMA RegisterWakerKeepsInv ==
    ASSUME VotingInv, RegisterWaker
    PROVE  VotingInv'
<1>1. SameBut(voter, voter') /\ voter'.outgoing = voter.outgoing
  <2>1. CASE last_round = None
    BY <2>1 DEF VotingInv, VotingTypeOK, RegisterWaker, SameBut
  <2>2. CASE last_round # None
    <3>1. /\ voter' = [voter EXCEPT !.armed = voter.armed \union {"bridge"}]
          /\ VotingTypeOK /\ voter.armed \union {"bridge"} \in SUBSET Wakers
      BY <2>2 DEF VotingInv, VotingTypeOK, VoterStates, RegisterWaker, Wakers
    <3> QED  BY <3>1, Awoken
  <2> QED  BY <2>1, <2>2
<1>2. VotingTypeOK' /\ OutgoingIsTail(voter')
  BY <1>1 DEF VotingInv, VotingTypeOK, VoterFits, OutgoingIsTail, SameBut, RegisterWaker, outVars
<1>3. /\ UNCHANGED <<vars, last_round, bridged>> /\ pc' = "bridge" /\ ~ready /\ ready' = ready
  BY DEF VotingInv, ReportStands, RegisterWaker, outVars
<1> QED  BY <1>1, <1>2, <1>3, SameVoter DEF SameBut

\* The sink took some of what waits, from the front.
LEMMA TailOfTail ==
    ASSUME NEW v \in VoterStates, NEW w \in VoterStates, OutgoingIsTail(v), w.cast = v.cast,
           NEW n \in 1 .. (Len(v.outgoing) + 1), w.outgoing = SubSeq(v.outgoing, n, Len(v.outgoing))
    PROVE  OutgoingIsTail(w)
<1> DEFINE k == Len(v.outgoing)
           c == Len(v.cast)
<1>1. /\ v.cast \in Seq(VoteMessages) /\ v.outgoing \in Seq(VoteMessages)
      /\ k \in Nat /\ c \in Nat /\ k <= c
  BY DEF VoterStates, OutgoingIsTail
<1>2. \A i \in 1 .. k : v.outgoing[i] = v.cast[c - k + i]
  <2>1. DOMAIN v.outgoing = 1 .. k
    BY <1>1
  <2> QED  BY <2>1 DEF OutgoingIsTail
<1>3. k - n + 1 \in Nat /\ n \in 1 .. (k + 1)
  BY <1>1
<1>4. /\ Len(w.outgoing) = k - n + 1 /\ DOMAIN w.outgoing = 1 .. (k - n + 1)
      /\ \A i \in 1 .. (k - n + 1) : w.outgoing[i] = v.outgoing[n + i - 1]
  BY <1>1, <1>3
<1> HIDE DEF k, c
<1>5. ASSUME NEW i \in 1 .. (k - n + 1)
      PROVE  w.outgoing[i] = w.cast[c - (k - n + 1) + i]
  <2>1. n + i - 1 \in 1 .. k /\ c - k + (n + i - 1) = c - (k - n + 1) + i
    BY <1>1, <1>3
  <2> QED  BY <1>2, <1>4, <2>1
<1>6. k - n + 1 <= c
  BY <1>1, <1>3
<1> QED  BY <1>4, <1>5, <1>6 DEF OutgoingIsTail, c

LEMMA FlushReadyKeepsInv ==
    ASSUME VotingInv, FlushReady
    PROVE  VotingInv'
<1>0. voter \in VoterStates /\ voter' = [voter EXCEPT !.outgoing = <<>>]
  BY DEF VotingInv, VotingTypeOK, FlushReady
<1>1. SameBut(voter, voter') /\ voter'.outgoing = <<>>
  <2>1. <<>> \in Seq(VoteMessages)
    OBVIOUS
  <2> QED  BY <1>0, <2>1 DEF VoterStates, SameBut
<1>2. VotingTypeOK'
  BY <1>1 DEF VotingInv, VotingTypeOK, SameBut, FlushReady, outVars
<1>3. OutgoingIsTail(voter')
  <2>1. voter'.cast \in Seq(VoteMessages)
    BY <1>1 DEF SameBut, VoterStates
  <2> QED  BY <1>1, <2>1 DEF OutgoingIsTail
<1>4. /\ UNCHANGED <<vars, last, ready, last_round, bridged>> /\ pc = "flush" /\ pc' = "second" /\ ~ready
  BY DEF VotingInv, ReportStands, FlushReady, outVars
<1> QED  BY <1>1, <1>2, <1>3, <1>4, SameVoter DEF SameBut

LEMMA FlushPendingKeepsInv ==
    ASSUME VotingInv, FlushPending
    PROVE  VotingInv'
<1>1. PICK n \in 1 .. (Len(voter.outgoing) + 1) :
          voter' = [voter EXCEPT !.outgoing = SubSeq(@, n, Len(@)), !.armed = @ \union {"sink"}]
  BY DEF FlushPending
<1>2. /\ SameBut(voter, voter')
      /\ voter'.outgoing = SubSeq(voter.outgoing, n, Len(voter.outgoing))
  <2>1. voter \in VoterStates /\ voter.outgoing \in Seq(VoteMessages)
    BY DEF VotingInv, VotingTypeOK, VoterStates
  <2>2. SubSeq(voter.outgoing, n, Len(voter.outgoing)) \in Seq(VoteMessages)
    BY <2>1
  <2> QED  BY <1>1, <2>1, <2>2 DEF VoterStates, SameBut, Wakers
<1>3. VotingTypeOK'
  BY <1>2 DEF VotingInv, VotingTypeOK, SameBut, FlushPending, outVars
<1>4. OutgoingIsTail(voter')
  BY <1>2, TailOfTail DEF VotingInv, VotingTypeOK, VoterFits, SameBut
<1>5. /\ UNCHANGED <<vars, ready, last_round, bridged>> /\ pc' = "idle"
  BY DEF FlushPending, outVars
<1> QED  BY <1>2, <1>3, <1>4, <1>5, SameVoter DEF SameBut

LEMMA PollFailsKeepsInv ==
    ASSUME VotingInv, PollFails
    PROVE  VotingInv'
<1>1. VotingTypeOK'
  BY DEF VotingInv, VotingTypeOK, PollFails, outVars
<1>2. /\ UNCHANGED <<vars, voter, ready, last_round, bridged>> /\ pc' = "failed"
      /\ OutgoingIsTail(voter')
  BY DEF VotingInv, VoterFits, PollFails, outVars
<1> QED  BY <1>1, <1>2, SameVoter

\* A view of the round stays as it is when neither changes.
LEMMA SameBridge ==
    ASSUME VotingInv, UNCHANGED <<vars, bridged>>
    PROVE  BridgeIsSafe'
BY BridgeStaysSafe

LEMMA CastVotesKeepsInv ==
    ASSUME VotingInv, CastVotes
    PROVE  VotingInv'
<1>1. /\ UNCHANGED <<vars, outVars, pre_state, ready, unflushed, inbox, primary_block, last_round>>
      /\ last' = last_round /\ pc = "bridge" /\ pc' \in {"flush", "failed"} /\ ~ready
  BY DEF VotingInv, ReportStands, CastVotes
<1>2. last_round # None => Fits(voter', last_round)
  <2> SUFFICES ASSUME last_round # None PROVE Fits(voter', last_round)
    OBVIOUS
  <2>1. last_round \in LastStates /\ primary_block \in OptionBlock /\ prevote_ghost \in OptionBlock
    BY DEF VotingInv, VotingTypeOK, RoundInv, TypeOK
  <2>2. Fits(voter, last_round)
    BY DEF VotingInv, VotingTypeOK, VoterFits, Fits
  <2>3. voter' \in UNION {Precommit(w, last_round) :
                       w \in UNION {Prevote(v, last_round) : v \in PrimaryPropose(voter, last_round)}}
    BY DEF CastVotes
  <2> QED  BY <2>1, <2>2, <2>3, CastVotesFits
<1>3. last_round = None => voter' = voter
  BY DEF CastVotes
<1>4. VotingTypeOK'
  <2>1. voter' \in VoterStates
    BY <1>2, <1>3 DEF VotingInv, VotingTypeOK, Fits
  <2>2. events' \in SUBSET Wakers
    BY DEF VotingInv, VotingTypeOK, CastVotes
  <2> QED  BY <1>1, <2>1, <2>2 DEF VotingInv, VotingTypeOK, outVars
<1>5. VoterFits'
  <2>1. last_round' = last_round /\ prevote_ghost' = prevote_ghost
    BY <1>1 DEF vars
  <2>2. CASE last_round = None
    <3>1. voter' = voter
      BY <1>3, <2>2
    <3> QED  BY <2>1, <2>2, <3>1 DEF VotingInv, VoterFits, InPhase, OutgoingIsTail, HasCast, IsActive
  <2>3. CASE last_round # None
    <3>1. InPhase(voter') /\ OutgoingIsTail(voter') /\ AboveLast(voter', last_round)
      BY <1>2, <2>3 DEF Fits
    <3> QED  BY <2>1, <2>3, <3>1 DEF VoterFits, InPhase, OutgoingIsTail, HasCast, IsActive, AboveLast, GhostAbove
  <2> QED  BY <2>2, <2>3
<1>6. CopyIsPast'
  <2>1. last_round # None => Follows(last_round, last_round)
    BY LastFacts DEF VotingInv, VotingTypeOK
  <2> QED  BY <1>1, <2>1 DEF CopyIsPast, Follows
<1>7. ReportStands'
  BY <1>1 DEF ReportStands, CompletedIsFinalized
<1>8. RoundInv' /\ BridgeIsSafe'
  BY <1>1, RoundMoves, SameBridge DEF VotingInv, outVars
<1> QED  BY <1>1, <1>4, <1>5, <1>6, <1>7, <1>8 DEF VotingInv

\* The state of a completable round, as it is put in the bridge.
LEMMA CompletableState ==
    ASSUME RoundInv, completable
    PROVE  /\ RoundState \in [prevote_ghost : Block, estimate : Block, finalized : OptionBlock, completable : {TRUE}]
           /\ Follows(RoundState, RoundState)
<1>1. prevote_ghost \in Block /\ estimate \in Block /\ finalized \in OptionBlock
  BY DEF RoundInv, TypeOK, CompletableBounds, EstimateHighest, OptionBlock
<1> QED  BY <1>1, TreeFacts DEF Follows, RoundState, OptionBlock

\* The estimate of the last round is finalized, on its chain, although only numbers are
\* compared, and against a copy of the last round's state that may be out of date.
LEMMA ReadyIsRight ==
    ASSUME VotingInv, pc = "second", LastEstimateFinalized(last), voter.state = "Precommitted"
    PROVE  \E f \in {last_round.finalized, finalized} \ {None} : last_round.estimate \in Ancestors[f]
<1>1. last_round # None /\ last # None
  BY VotingRoundAssumption DEF VotingInv, VoterFits, CopyIsPast
<1>2. last_round \in LastStates /\ last \in LastStates /\ Follows(last, last_round) /\ GhostAbove(last_round)
  BY <1>1 DEF VotingInv, VotingTypeOK, VoterFits, AboveLast, CopyIsPast
<1>3. /\ last.estimate \in Block /\ last_round.estimate \in Block
      /\ last_round.estimate \in Ancestors[last.estimate]
      /\ last.finalized # None
      /\ last.finalized \in Block /\ last.finalized \in Ancestors[last.estimate]
      /\ last_round.finalized # None /\ last_round.finalized \in Block
      /\ last.finalized \in Ancestors[last_round.finalized]
  BY <1>1, <1>2, LastFacts DEF Follows, LastEstimateFinalized
<1>4. CASE Number[last.estimate] <= Number[last.finalized]
  <2>1. last.estimate \in Ancestors[last.finalized]
    BY <1>3, <1>4, TreeFacts, LowerNumber
  <2>2. last_round.estimate \in Ancestors[last_round.finalized]
    BY <1>3, <2>1, TreeFacts
  <2> QED  BY <1>3, <2>2
<1>5. CASE finalized # None /\ Number[last.estimate] <= Number[finalized]
  <2>1. /\ finalized \in Block /\ prevote_ghost \in Block
        /\ finalized \in Ancestors[prevote_ghost] /\ last_round.estimate \in Ancestors[prevote_ghost]
    BY <1>2, <1>5, TreeFacts DEF VotingInv, RoundInv, TypeOK, FinalizedHeavy, GhostAbove, OptionBlock
  <2>2. Number[last_round.estimate] <= Number[finalized]
    <3>1. Number[last_round.estimate] \in Nat /\ Number[last.estimate] \in Nat /\ Number[finalized] \in Nat
      BY <1>3, <2>1, BlockTreeAssumption
    <3>2. Number[last_round.estimate] <= Number[last.estimate]
      BY <1>3, <3>1, BlockTreeAssumption
    <3> QED  BY <1>5, <3>1, <3>2
  <2>3. last_round.estimate \in Ancestors[finalized]
    BY <2>1, <2>2, LowerNumber
  <2> QED  BY <1>5, <2>3
<1> QED  BY <1>1, <1>3, <1>4, <1>5 DEF LastEstimateFinalized

LEMMA FinishPollKeepsInv ==
    ASSUME VotingInv, FinishPoll
    PROVE  VotingInv'
<1>1. /\ UNCHANGED <<vars, voter, events, unflushed, inbox, primary_block, last_round>>
      /\ pc = "second" /\ pc' = "idle" /\ last' = None
      /\ ready' = (completable /\ LastEstimateFinalized(last))
      /\ bridged' \in {bridged, RoundState} /\ (bridged = None => bridged' = None)
      /\ best_finalized' \in {best_finalized, finalized}
  BY DEF FinishPoll, Notify, RoundState
<1>2. /\ UNCHANGED <<prevote_ghost, estimate, finalized, completable>>
      /\ RoundInv' /\ RoundState' = RoundState /\ finalized \in OptionBlock
  BY <1>1, RoundMoves DEF VotingInv, RoundInv, TypeOK, vars, RoundState
<1>3. bridged # None => completable
  BY DEF VotingInv, BridgeIsSafe, Follows, RoundState
<1>4. VotingTypeOK' /\ BridgeIsSafe'
  <2>1. CASE bridged' = bridged
    BY <1>1, <1>2, <2>1, SameBridge DEF VotingInv, VotingTypeOK, RoundInv, TypeOK
  <2>2. CASE bridged' # bridged
    <3>1. completable /\ bridged' = RoundState
      BY <1>1, <1>3, <2>2
    <3>2. /\ RoundState \in [prevote_ghost : Block, estimate : Block, finalized : OptionBlock, completable : {TRUE}]
          /\ Follows(RoundState, RoundState)
      BY <3>1, CompletableState DEF VotingInv
    <3>3. BridgeIsSafe'
      BY <1>2, <3>1, <3>2 DEF BridgeIsSafe, Follows
    <3> QED  BY <1>1, <1>2, <3>1, <3>2, <3>3 DEF VotingInv, VotingTypeOK
  <2> QED  BY <2>1, <2>2
<1>5. VoterFits'
  BY <1>1, <1>2 DEF VotingInv, VoterFits, InPhase, HasCast, IsActive, OutgoingIsTail, AboveLast, GhostAbove
<1>6. ReportStands'
  BY <1>1, <1>2, ReadyIsRight DEF ReportStands, CompletedIsFinalized
<1>7. CopyIsPast'
  BY <1>1 DEF CopyIsPast
<1> QED  BY <1>1, <1>2, <1>4, <1>5, <1>6, <1>7 DEF VotingInv

LEMMA LastRoundUpdatesKeepsInv ==
    ASSUME VotingInv, NEW s \in LastStates, LastRoundUpdates(s)
    PROVE  VotingInv'
<1>1. /\ UNCHANGED <<vars, pollVars, outVars, voter, unflushed, inbox, primary_block>>
      /\ last_round # None /\ last_round \in LastStates /\ Follows(last_round, s) /\ last_round' = s
      /\ s # None /\ events' \in SUBSET Wakers
  BY LastFacts DEF VotingInv, VotingTypeOK, LastRoundUpdates, Wakers
<1>2. /\ UNCHANGED <<prevote_ghost, finalized, completable>> /\ UNCHANGED <<pc, last, ready, bridged>>
      /\ RoundInv' /\ BridgeIsSafe'
  BY <1>1, RoundMoves, SameBridge DEF VotingInv, vars, pollVars, outVars
<1>3. /\ s.estimate \in Block /\ last_round.estimate \in Block /\ s.estimate \in Ancestors[last_round.estimate]
      /\ last_round.prevote_ghost \in Block /\ s.prevote_ghost \in Block
      /\ last_round.finalized \in OptionBlock /\ s.finalized \in OptionBlock
      /\ last_round.finalized # None => s.finalized # None /\ last_round.finalized \in Ancestors[s.finalized]
  BY <1>1, LastFacts DEF Follows, OptionBlock
<1>4. VotingTypeOK'
  BY <1>1 DEF VotingInv, VotingTypeOK, pollVars, outVars
<1>5. VoterFits'
  <2>1. InPhase(voter) /\ OutgoingIsTail(voter) /\ AboveLast(voter, last_round)
    BY <1>1 DEF VotingInv, VoterFits
  <2>2. AboveLast(voter, last_round)'
    <3>1. \A i \in DOMAIN voter.cast : s.estimate \in Ancestors[voter.cast[i].target]
      <4> SUFFICES ASSUME NEW i \in DOMAIN voter.cast PROVE s.estimate \in Ancestors[voter.cast[i].target]
        OBVIOUS
      <4>1. voter.cast[i] \in VoteMessages
        BY DEF VotingInv, VotingTypeOK, VoterStates
      <4>2. voter.cast[i].target \in Block /\ last_round.estimate \in Ancestors[voter.cast[i].target]
        BY <2>1, <4>1 DEF AboveLast, VoteMessages
      <4> QED  BY <1>3, <4>2, TreeFacts
    <3>2. voter.state = "Prevoting" => voter.base \in Block /\ s.estimate \in Ancestors[voter.base]
      BY <1>3, <2>1, TreeFacts DEF AboveLast
    <3>3. voter.state = "Precommitted" => prevote_ghost # None /\ s.estimate \in Ancestors[prevote_ghost]
      BY <1>3, <2>1, TreeFacts DEF AboveLast, GhostAbove, VotingInv, RoundInv, TypeOK, OptionBlock
    <3> QED  BY <1>1, <1>2, <3>1, <3>2, <3>3 DEF AboveLast, GhostAbove
  <2> QED  BY <1>1, <2>1, <2>2 DEF VoterFits, InPhase, HasCast, IsActive, OutgoingIsTail
<1>6. CopyIsPast'
  <2>1. ASSUME pc \in {"flush", "second"} PROVE last # None /\ Follows(last, s)
    <3>1. last # None /\ last \in LastStates /\ Follows(last, last_round)
      BY <1>1, <2>1 DEF VotingInv, VotingTypeOK, CopyIsPast
    <3>2. last.estimate \in Block
      BY <3>1, LastFacts
    <3> QED  BY <1>1, <1>3, <3>1, <3>2, FollowsOn
  <2> QED  BY <1>1, <1>2, <2>1 DEF CopyIsPast, Follows
<1>7. CompletedIsFinalized'
  <2> SUFFICES ASSUME ready, voter.state = "Precommitted"
               PROVE  \E f \in {s.finalized, finalized} \ {None} : s.estimate \in Ancestors[f]
    BY <1>1, <1>2 DEF CompletedIsFinalized
  <2>1. PICK f \in {last_round.finalized, finalized} \ {None} : last_round.estimate \in Ancestors[f]
    BY DEF VotingInv, ReportStands, CompletedIsFinalized
  <2>2. finalized \in OptionBlock
    BY DEF VotingInv, RoundInv, TypeOK
  <2>3. CASE f = finalized
    <3>1. s.estimate \in Ancestors[finalized]
      BY <1>3, <2>1, <2>2, <2>3, TreeFacts DEF OptionBlock
    <3> QED  BY <2>1, <2>3, <3>1
  <2>4. CASE f = last_round.finalized
    <3>1. s.finalized # None /\ s.estimate \in Ancestors[s.finalized]
      BY <1>3, <2>1, <2>4, TreeFacts DEF OptionBlock
    <3> QED  BY <3>1
  <2> QED  BY <2>1, <2>3, <2>4
<1>8. ReportStands'
  BY <1>2, <1>7 DEF VotingInv, ReportStands
<1>9. pc' # "loading"
  BY <1>1, <1>2 DEF VotingInv
<1> QED  BY <1>2, <1>4, <1>5, <1>6, <1>8, <1>9 DEF VotingInv

LEMMA BridgeStateKeepsInv ==
    ASSUME VotingInv, BridgeState
    PROVE  VotingInv'
<1>1. /\ UNCHANGED <<vars, last, pre_state, ready, best_finalized, events, unflushed, inbox,
                     primary_block, last_round>>
      /\ bridged' = RoundState /\ pc' = "idle" /\ voter' = [voter EXCEPT !.woken = TRUE]
  BY DEF BridgeState
<1>2. completable
  BY DEF VotingInv, ReportStands, BridgeState
<1>3. /\ UNCHANGED <<prevote_ghost, finalized, completable>>
      /\ RoundInv' /\ RoundState' = RoundState
  BY <1>1, RoundMoves DEF VotingInv, vars, RoundState
<1>4. /\ RoundState \in [prevote_ghost : Block, estimate : Block, finalized : OptionBlock, completable : {TRUE}]
      /\ Follows(RoundState, RoundState)
  BY <1>2, CompletableState DEF VotingInv
<1>5. SameBut(voter, voter') /\ voter'.outgoing = voter.outgoing
  BY <1>1, Awoken DEF VotingInv
<1>6. VotingTypeOK'
  BY <1>1, <1>4, <1>5 DEF VotingInv, VotingTypeOK, SameBut
<1>7. VoterFits'
  BY <1>1, <1>3, <1>5 DEF VotingInv, VoterFits, InPhase, HasCast, IsActive, OutgoingIsTail, AboveLast,
                         GhostAbove, SameBut
<1>8. ReportStands'
  BY <1>1, <1>3, <1>5 DEF VotingInv, ReportStands, CompletedIsFinalized, SameBut
<1>9. BridgeIsSafe' /\ CopyIsPast'
  BY <1>1, <1>3, <1>4 DEF BridgeIsSafe, CopyIsPast, Follows
<1> QED  BY <1>1, <1>3, <1>6, <1>7, <1>8, <1>9 DEF VotingInv

-----------------------------------------------------------------------------
(* Theorems *)

LEMMA VotingStepKeepsInv ==
    ASSUME VotingInv, [VotingNext]_allVars
    PROVE  VotingInv'
<1>1. ASSUME Poll PROVE VotingInv'
  <2>1. ASSUME NEW m \in inbox, ProcessIncoming(m) PROVE VotingInv'
    <3>1. m \in VoteMessages /\ inbox \ {m} \in SUBSET VoteMessages
      BY DEF VotingInv, VotingTypeOK
    <3> QED  BY <2>1, <3>1, HandlingKeepsInv DEF ProcessIncoming
  <2> QED  BY <1>1, <2>1, BeginPollKeepsInv, RegisterWakerKeepsInv, CastVotesKeepsInv, FlushReadyKeepsInv,
              FlushPendingKeepsInv, FinishPollKeepsInv, PollFailsKeepsInv DEF Poll
<1>2. ASSUME NEW m \in Messages \union Sent, Load(m) PROVE VotingInv'
  <2>1. m \in VoteMessages /\ inbox \in SUBSET VoteMessages
    BY SentMessages DEF VotingInv, VotingTypeOK
  <2> QED  BY <1>2, <2>1, HandlingKeepsInv DEF Load
<1>3. ASSUME NEW e \in {"prevote_timer", "precommit_timer", "best_chain", "sink"}, Happen(e) PROVE VotingInv'
  <2>1. e \in Wakers
    BY DEF Wakers
  <2> QED  BY <1>3, <2>1, HappenKeepsInv
<1>4. ASSUME UNCHANGED allVars PROVE VotingInv'
  <2>1. /\ SameBut(voter, voter') /\ voter'.outgoing = voter.outgoing
        /\ inbox' \in SUBSET VoteMessages /\ events' \in SUBSET Wakers
    BY <1>4 DEF allVars, VotingInv, VotingTypeOK, SameBut
  <2> QED  BY <1>4, <2>1, OutsideKeepsInv DEF allVars
<1> QED  BY <1>1, <1>2, <1>3, <1>4, ArriveKeepsInv, LastRoundUpdatesKeepsInv, LastRoundWakesKeepsInv,
            BridgeStateKeepsInv DEF VotingNext

\* Nothing happens to the bridge while the round is left alone.
LEMMA OutsideKeepsBridgeInv ==
    ASSUME VotingInv, BridgeInv, UNCHANGED <<vars, pollVars, outVars, unflushed>>,
           voter'.state = voter.state, voter'.outgoing = voter.outgoing,
           last_round' = None => last_round = None
    PROVE  BridgeInv'
<1>1. UNCHANGED <<pc, pre_state, ready, bridged>> /\ RoundState' = RoundState
  BY DEF vars, pollVars, outVars, RoundState
<1> QED  BY <1>1 DEF BridgeInv

\* A voter that is done casts nothing.
LEMMA DoneCastsNothing ==
    ASSUME NEW lr, NEW v, v.state \in {"Precommitted", None},
           NEW x \in UNION {Precommit(w, lr) : w \in UNION {Prevote(u, lr) : u \in PrimaryPropose(v, lr)}}
    PROVE  x = v
<1>1. v.state \notin {"Start", "Proposed", "Prevoting", "Prevoted"}
  BY VotingRoundAssumption
<1>2. PrimaryPropose(v, lr) = {v}
  BY <1>1 DEF PrimaryPropose
<1>3. Prevote(v, lr) = {v}
  BY <1>1 DEF Prevote
<1>4. Precommit(v, lr) = {v}
  BY <1>1 DEF Precommit
<1> QED  BY <1>2, <1>3, <1>4

\* Between polls the bridge shows the round's state, and during a poll the state at its start:
\* once the round is bridged its sink has nothing left that could cut a poll short.
LEMMA PollKeepsBridgeInv ==
    ASSUME VotingInv, BridgeInv, Poll
    PROVE  BridgeInv'
<1>1. CASE BeginPoll
  <2>1. voter'.state = voter.state /\ voter'.outgoing = voter.outgoing
    BY <1>1, Awoken DEF BeginPoll, VotingInv, SameBut
  <2> QED  BY <1>1, <2>1 DEF BridgeInv, BeginPoll, outVars
<1>2. ASSUME NEW m \in inbox, ProcessIncoming(m) PROVE BridgeInv'
  <2>1. pc \in {"incoming", "second"} /\ UNCHANGED <<pc, pre_state, ready, bridged, voter, unflushed, last_round>>
    BY <1>2 DEF ProcessIncoming, pollVars, outVars
  <2> QED  BY <2>1 DEF BridgeInv
<1>3. CASE RegisterWaker
  <2>1. voter'.state = voter.state /\ voter'.outgoing = voter.outgoing
    BY <1>3 DEF RegisterWaker, VotingInv, VotingTypeOK, VoterStates
  <2> QED  BY <1>3, <2>1 DEF BridgeInv, RegisterWaker, outVars
<1>4. CASE CastVotes
  <2>1. /\ UNCHANGED <<pre_state, ready, bridged, unflushed, last_round>>
        /\ pc = "bridge" /\ pc' \in {"flush", "failed"} /\ ~ready
    BY <1>4 DEF VotingInv, ReportStands, CastVotes, outVars
  <2>2. CASE last_round = None \/ bridged # None
    <3>1. voter' = voter
      <4>1. CASE last_round = None
        BY <1>4, <4>1 DEF CastVotes
      <4>2. CASE last_round # None
        <5>1. voter.state \in {"Precommitted", None}
          BY <2>2, <4>2 DEF BridgeInv
        <5>2. voter' \in UNION {Precommit(w, last_round) :
                             w \in UNION {Prevote(v, last_round) : v \in PrimaryPropose(voter, last_round)}}
          BY <1>4, <4>2 DEF CastVotes
        <5> QED  BY <5>1, <5>2, DoneCastsNothing
      <4> QED  BY <4>1, <4>2
    <3> QED  BY <2>1, <3>1 DEF BridgeInv
  <2>3. CASE last_round # None /\ bridged = None
    BY <2>1, <2>3 DEF BridgeInv
  <2> QED  BY <2>2, <2>3
<1>5. CASE FlushReady
  <2>1. voter'.state = voter.state /\ voter'.outgoing = <<>>
    BY <1>5 DEF FlushReady, VotingInv, VotingTypeOK, VoterStates
  <2> QED  BY <1>5, <2>1 DEF BridgeInv, FlushReady, outVars
<1>6. CASE FlushPending
  <2>1. bridged = None /\ last_round # None /\ ~ready
    BY <1>6 DEF BridgeInv, VotingInv, ReportStands, FlushPending
  <2> QED  BY <1>6, <2>1 DEF BridgeInv, FlushPending, outVars
<1>7. CASE FinishPoll
  <2>1. /\ UNCHANGED <<vars, voter, unflushed, last_round>> /\ pc = "second" /\ pc' = "idle"
        /\ bridged' = IF pre_state # RoundState /\ bridged # None THEN RoundState ELSE bridged
    BY <1>7 DEF FinishPoll, Notify
  <2>2. RoundState' = RoundState
    BY <2>1 DEF vars, RoundState
  <2> QED  BY <2>1, <2>2 DEF BridgeInv
<1>8. CASE PollFails
  BY <1>8 DEF BridgeInv, PollFails, outVars
<1> QED  BY <1>1, <1>2, <1>3, <1>4, <1>5, <1>6, <1>7, <1>8 DEF Poll

LEMMA VotingStepKeepsBridgeInv ==
    ASSUME VotingInv, BridgeInv, [VotingNext]_allVars
    PROVE  BridgeInv'
<1>0. voter \in VoterStates
  BY DEF VotingInv, VotingTypeOK
<1>1. ASSUME NEW m \in Messages \union Sent, Arrive(m) PROVE BridgeInv'
  BY <1>0, <1>1, OutsideKeepsBridgeInv DEF Arrive, VoterStates
<1>2. ASSUME NEW m \in Messages \union Sent, Load(m) PROVE BridgeInv'
  BY <1>2 DEF Load, BridgeInv, VotingInv, pollVars, outVars
<1>3. ASSUME NEW e, Happen(e) PROVE BridgeInv'
  BY <1>0, <1>3, OutsideKeepsBridgeInv DEF Happen, VoterStates
<1>4. ASSUME NEW s \in LastStates, LastRoundUpdates(s) PROVE BridgeInv'
  BY <1>4, LastFacts, OutsideKeepsBridgeInv DEF LastRoundUpdates
<1>5. CASE LastRoundWakes
  BY <1>0, <1>5, OutsideKeepsBridgeInv DEF LastRoundWakes, VoterStates
<1>6. CASE BridgeState
  <2>1. voter'.state = voter.state /\ voter'.outgoing = voter.outgoing /\ RoundState' = RoundState
    BY <1>0, <1>6 DEF BridgeState, VoterStates, vars, RoundState
  <2>2. ready \/ last_round = None
    BY <1>6 DEF BridgeState, VotingInv
  <2>3. voter.state \in {"Precommitted", None}
    BY <1>6 DEF BridgeState, VotingInv, VoterFits
  <2> QED  BY <1>6, <2>1, <2>2, <2>3 DEF BridgeInv, BridgeState
<1>7. CASE UNCHANGED allVars
  BY <1>7, OutsideKeepsBridgeInv DEF allVars
<1> QED  BY <1>1, <1>2, <1>3, <1>4, <1>5, <1>6, <1>7, PollKeepsBridgeInv DEF VotingNext

\* VotingInv holds throughout every behaviour of a voting round.
THEOREM VotingInvariant == VotingSpec => [](VotingInv /\ BridgeInv)
<1>1. VotingInit => VotingInv /\ BridgeInv
  BY VotingInitEstablishesInv
<1>2. VotingInv /\ BridgeInv /\ [VotingNext]_allVars => (VotingInv /\ BridgeInv)'
  BY VotingStepKeepsInv, VotingStepKeepsBridgeInv
<1> QED  BY <1>1, <1>2, PTL DEF VotingSpec

LEMMA VotingStepIsRoundStep ==
    ASSUME VotingInv, [VotingNext]_allVars
    PROVE  [Next]_vars
<1>1. ASSUME NEW m \in inbox, ProcessIncoming(m) PROVE [Next]_vars
  <2>1. m \in VoteMessages /\ primary_block \in OptionBlock
    BY DEF VotingInv, VotingTypeOK
  <2> QED  BY <1>1, <2>1, HandleIsStep DEF ProcessIncoming
<1>2. ASSUME NEW m \in Messages \union Sent, Load(m) PROVE [Next]_vars
  <2>1. m \in VoteMessages /\ primary_block \in OptionBlock
    BY SentMessages DEF VotingInv, VotingTypeOK
  <2> QED  BY <1>2, <2>1, HandleIsStep DEF Load
<1>3. ASSUME Poll, ~ \E m \in inbox : ProcessIncoming(m) PROVE UNCHANGED vars
  BY <1>3 DEF Poll, BeginPoll, RegisterWaker, CastVotes, FlushReady, FlushPending, FinishPoll, PollFails
<1>4. ASSUME NEW m, Arrive(m) PROVE UNCHANGED vars
  BY <1>4 DEF Arrive
<1>5. ASSUME NEW e, Happen(e) PROVE UNCHANGED vars
  BY <1>5 DEF Happen
<1>6. ASSUME NEW s, LastRoundUpdates(s) PROVE UNCHANGED vars
  BY <1>6 DEF LastRoundUpdates
<1>7. LastRoundWakes \/ BridgeState \/ UNCHANGED allVars => UNCHANGED vars
  BY DEF LastRoundWakes, BridgeState, allVars
<1> QED  BY <1>1, <1>2, <1>3, <1>4, <1>5, <1>6, <1>7 DEF VotingNext

\* What a voter handles of the messages of a round, in and out of its polls, is a round as
\* RoundSpec specifies it: everything proved of RoundSpec holds of it.
THEOREM VotingImplementsRound == VotingSpec => Spec
<1>1. VotingInit => Init
  BY DEF VotingInit
<1>2. VotingInv /\ [VotingNext]_allVars => [Next]_vars
  BY VotingStepIsRoundStep
<1> QED  BY <1>1, <1>2, VotingInvariant, PTL DEF VotingSpec, Spec

LEMMA VotingInvHasVoting ==
    VotingInv => VotesOnce /\ VotesAboveLastEstimate /\ CompletedIsFinalized
<1>1. VotingInv => VotesOnce
  BY DEF VotingInv, VoterFits, InPhase, OutgoingIsTail, HasCast, VotesOnce, CastOf
<1>2. VotingInv => VotesAboveLastEstimate
  BY DEF VotingInv, VoterFits, AboveLast, VotesAboveLastEstimate
<1>3. VotingInv => CompletedIsFinalized
  BY DEF VotingInv, ReportStands
<1> QED  BY <1>1, <1>2, <1>3

\* A voter does not equivocate and keeps the order of the phases, whatever is interrupted, left
\* pending or resumed, and loses nothing of what it cast before it is sent.
THEOREM VotesOnlyOnce == VotingSpec => []VotesOnce
BY VotingInvariant, VotingInvHasVoting, PTL

\* No vote is cast below the estimate of the last round, however it moves back meanwhile and
\* whatever the primary hinted at.
THEOREM VotesStayAboveEstimate == VotingSpec => []VotesAboveLastEstimate
BY VotingInvariant, VotingInvHasVoting, PTL

\* When the next round is started, the estimate of the last one is on the chain of a finalized
\* block, although poll compares numbers with a copy of the last round's state.
THEOREM CompletionIsJustified == VotingSpec => []CompletedIsFinalized
BY VotingInvariant, VotingInvHasVoting, PTL

\* After a poll the next round sees the state as it is.
THEOREM BridgeStaysCurrent == VotingSpec => BridgeIsCurrent
<1>1. VotingInv /\ BridgeInv /\ (VotingInv /\ BridgeInv)' =>
          (pc = "second" /\ pc' = "idle" /\ bridged' # None => bridged' = RoundState')
  BY DEF BridgeInv
<1> QED  BY <1>1, VotingInvariant, PTL DEF BridgeIsCurrent

-----------------------------------------------------------------------------
(* The voting round under its committer *)

LEMMA PrecommitMessages ==
    ASSUME VotingTypeOK
    PROVE  Precommits \subseteq VoteMessages
BY SentMessages DEF Precommits

\* A step of the surroundings or of the committer that leaves the votes alone.
LEMMA CommitterKeepsVotingInv ==
    ASSUME VotingInv, UNCHANGED <<vars, last, pre_state, ready, outVars, events, unflushed, inbox,
                                  primary_block, last_round>>,
           pc' \in {pc, "failed", "concluded"},
           NEW woken \in BOOLEAN, voter' \in {voter, [voter EXCEPT !.woken = woken]}
    PROVE  VotingInv'
<1>1. SameBut(voter, voter') /\ voter'.outgoing = voter.outgoing
  <2>1. VotingTypeOK /\ voter \in VoterStates
    BY DEF VotingInv, VotingTypeOK
  <2> QED  BY <2>1, Awoken DEF SameBut
<1>2. VotingTypeOK' /\ OutgoingIsTail(voter')
  BY <1>1 DEF VotingInv, VotingTypeOK, VoterFits, OutgoingIsTail, SameBut, outVars
<1>3. /\ UNCHANGED <<vars, last, ready, last_round, bridged>>
      /\ pc \in {"incoming", "bridge", "flush", "second"} => ~ready
  BY DEF VotingInv, ReportStands, outVars
<1> QED  BY <1>1, <1>2, <1>3, SameVoter DEF SameBut

LEMMA ImportFromCommitKeepsVotingInv ==
    ASSUME VotingInv, NEW m \in Precommits, ImportFromCommit(m)
    PROVE  VotingInv'
<1>1. [Next]_vars
  BY PrecommitMessages, ImportIsStep DEF VotingInv, ImportFromCommit
<1>2. /\ pc = "idle" /\ pc' \in {"idle", "failed"}
      /\ UNCHANGED <<last, pre_state, ready, outVars, voter, events, unflushed, inbox,
                     primary_block, last_round>>
  BY DEF ImportFromCommit
<1>3. VotingTypeOK' /\ OutgoingIsTail(voter')
  BY <1>2 DEF VotingInv, VotingTypeOK, VoterFits, outVars
<1> QED  BY <1>1, <1>2, <1>3, SameVoter DEF outVars

LEMMA BackgroundStepKeepsVotingInv ==
    ASSUME BackgroundInv, [BackgroundNext]_backgroundVars
    PROVE  VotingInv'
<1>0. /\ VotingInv /\ voter.woken \in BOOLEAN
      /\ committer # None => committer.armed \in BOOLEAN
  BY DEF BackgroundInv, BackgroundTypeOK, Committers, VotingInv, VotingTypeOK, VoterStates
<1>1. CASE RoundStep
  BY <1>0, <1>1, VotingStepKeepsInv DEF RoundStep
<1>2. ASSUME NEW C, NEW target, CommitArrives(target, C) PROVE VotingInv'
  <2>1. voter' = [voter EXCEPT !.woken = TRUE]
    BY <1>2 DEF CommitArrives
  <2> QED  BY <1>0, <1>2, <2>1, CommitterKeepsVotingInv DEF CommitArrives, pollVars
<1>3. CASE ImportCommit
  BY <1>0, <1>3, VotingStepKeepsInv DEF ImportCommit
<1>4. ASSUME NEW m \in Precommits, ImportFromCommit(m) PROVE VotingInv'
  BY <1>0, <1>4, ImportFromCommitKeepsVotingInv
<1>5. CASE CommitTimer
  <2>1. voter' = [voter EXCEPT !.woken = voter.woken \/ committer.armed]
    BY <1>5 DEF CommitTimer
  <2>2. (voter.woken \/ committer.armed) \in BOOLEAN
    BY <1>0, <1>5 DEF CommitTimer
  <2> QED  BY <1>0, <1>5, <2>1, <2>2, CommitterKeepsVotingInv DEF CommitTimer, pollVars
<1>6. CASE FinishBackgroundPoll
  <2>1. CASE committer # None /\ ~committer.timer
    BY <1>0, <1>6, <2>1, CommitterKeepsVotingInv DEF FinishBackgroundPoll
  <2>2. CASE ~(committer # None /\ ~committer.timer)
    <3> DEFINE commit == IF committer = None THEN None ELSE CommitToIssue
    <3>1. /\ voter' = [voter EXCEPT !.woken = voter.woken \/ commit # None]
          /\ pc' \in {pc, "concluded"}
      BY <1>6, <2>2 DEF FinishBackgroundPoll
    <3>2. (voter.woken \/ commit # None) \in BOOLEAN
      BY <1>0
    <3> HIDE DEF commit
    <3> QED  BY <1>0, <1>6, <3>1, <3>2, CommitterKeepsVotingInv DEF FinishBackgroundPoll
  <2> QED  BY <2>1, <2>2
<1>7. CASE CommitterFails
  BY <1>0, <1>7, CommitterKeepsVotingInv DEF CommitterFails
<1>8. ASSUME NEW n, UpdateFinalized(n) PROVE VotingInv'
  <2>1. voter' = [voter EXCEPT !.woken = voter.woken \/ IsDone(committer, n)]
    BY <1>8 DEF UpdateFinalized
  <2>2. (voter.woken \/ IsDone(committer, n)) \in BOOLEAN
    BY <1>0
  <2> QED  BY <1>0, <1>8, <2>1, <2>2, CommitterKeepsVotingInv DEF UpdateFinalized, pollVars
<1>9. CASE UNCHANGED backgroundVars
  BY <1>0, <1>9, VotingStepKeepsInv DEF backgroundVars
<1> QED  BY <1>1, <1>2, <1>3, <1>4, <1>5, <1>6, <1>7, <1>8, <1>9 DEF BackgroundNext

-----------------------------------------------------------------------------
(* The committer *)

\* BackgroundInv without what VotingInv says.
CommitterInv ==
    /\ BackgroundTypeOK
    /\ turn = "committer" => pc \in {"idle", "failed"}
    /\ import_commits # None => committer # None
    /\ DoneIsWoken

LEMMA NewCommitterWaits ==
    NewCommitter \in Committers /\ NewCommitter # None
<1>1. NewCommitter \in Committers
  BY DEF NewCommitter, Committers, OptionBlock
<1> QED  BY <1>1, BackgroundAssumption

\* What a step of the round leaves between two polls.
LEMMA RoundWakes ==
    ASSUME VotingInv, VotingNext
    PROVE  pc = "idle" /\ pc' = "idle" /\ bridged # None =>
               UNCHANGED estimate /\ (voter.woken => voter'.woken)
<1> SUFFICES ASSUME pc = "idle", pc' = "idle", bridged # None
             PROVE  UNCHANGED estimate /\ (voter.woken => voter'.woken)
  OBVIOUS
<1>0. voter \in VoterStates
  BY DEF VotingInv, VotingTypeOK
<1>1. ~Poll
  BY DEF Poll, BeginPoll, ProcessIncoming, RegisterWaker, CastVotes, FlushReady, FlushPending, FinishPoll, PollFails
<1>2. ASSUME NEW m, Arrive(m) PROVE UNCHANGED estimate /\ voter'.woken
  BY <1>0, <1>2 DEF Arrive, vars, VoterStates
<1>3. ASSUME NEW m, Load(m) PROVE FALSE
  BY <1>3 DEF Load
<1>4. ASSUME NEW e, Happen(e) PROVE UNCHANGED estimate /\ (voter.woken => voter'.woken)
  BY <1>0, <1>4 DEF Happen, vars, VoterStates
<1>5. ASSUME NEW s, LastRoundUpdates(s) PROVE UNCHANGED estimate /\ UNCHANGED voter
  BY <1>5 DEF LastRoundUpdates, vars
<1>6. LastRoundWakes => UNCHANGED estimate /\ (voter.woken => voter'.woken)
  BY <1>0 DEF LastRoundWakes, vars, VoterStates
<1>7. ~BridgeState
  BY DEF BridgeState
<1> QED  BY <1>1, <1>2, <1>3, <1>4, <1>5, <1>6, <1>7 DEF VotingNext

\* A poll that ends gives the committer its turn; the bridge is made with a new committer.
LEMMA RoundStepKeepsCommitterInv ==
    ASSUME BackgroundInv, RoundStep
    PROVE  CommitterInv'
<1>1. /\ VotingNext /\ UNCHANGED <<import_commits, committed, finalized_number>>
      /\ turn = "committer" => pc' = "idle"
      /\ turn' = IF pc # "idle" /\ pc' = "idle" /\ bridged # None THEN "committer" ELSE turn
      /\ committer' = IF bridged = None /\ bridged' # None THEN NewCommitter ELSE committer
  BY DEF RoundStep
<1>2. BackgroundTypeOK'
  BY <1>1, NewCommitterWaits DEF BackgroundInv, BackgroundTypeOK
<1>3. turn' = "committer" => pc' \in {"idle", "failed"}
  BY <1>1 DEF BackgroundInv
<1>4. import_commits' # None => committer' # None
  BY <1>1, NewCommitterWaits DEF BackgroundInv
<1>5. DoneIsWoken'
  <2> SUFFICES ASSUME bridged' # None, pc' = "idle", turn' = "round", IsDone(committer, finalized_number)'
               PROVE  voter'.woken
    BY DEF DoneIsWoken
  <2>1. committer' = None
    BY DEF IsDone
  <2>2. bridged # None /\ committer' = committer
    BY <1>1, <2>1, NewCommitterWaits
  <2>3. pc = "idle" /\ turn = "round"
    BY <1>1, <2>2
  <2>4. UNCHANGED estimate /\ (voter.woken => voter'.woken)
    BY <1>1, <2>2, <2>3, RoundWakes DEF BackgroundInv
  <2>5. IsDone(committer, finalized_number)
    BY <1>1, <2>2, <2>4 DEF IsDone
  <2> QED  BY <2>2, <2>3, <2>4, <2>5 DEF BackgroundInv, DoneIsWoken
<1> QED  BY <1>2, <1>3, <1>4, <1>5 DEF CommitterInv

LEMMA CommitStepsKeepCommitterInv ==
    ASSUME BackgroundInv,
           \/ \E C \in SUBSET Precommits, target \in Block : CommitArrives(target, C)
           \/ ImportCommit
           \/ \E m \in Precommits : ImportFromCommit(m)
           \/ CommitTimer
           \/ CommitterFails
    PROVE  CommitterInv'
<1>0. /\ VotingTypeOK /\ Precommits \subseteq VoteMessages /\ voter \in VoterStates
      /\ BackgroundTypeOK /\ (committer # None => committer \in Committers)
  BY PrecommitMessages DEF BackgroundInv, BackgroundTypeOK, VotingInv, VotingTypeOK
<1>1. ASSUME NEW C \in SUBSET Precommits, NEW target \in Block, CommitArrives(target, C)
      PROVE  CommitterInv'
  <2>1. /\ UNCHANGED <<vars, pc, bridged, turn, committer, committed, finalized_number>>
        /\ committer # None /\ turn = "round"
        /\ import_commits' = [target |-> target, precommits |-> C, checked |-> FALSE]
    BY <1>1 DEF CommitArrives, pollVars, outVars
  <2>2. BackgroundTypeOK'
    BY <1>0, <2>1 DEF BackgroundTypeOK
  <2> QED  BY <2>1, <2>2 DEF CommitterInv, DoneIsWoken, IsDone
<1>2. CASE ImportCommit
  <2>1. /\ UNCHANGED <<allVars, turn, committer, committed, finalized_number>>
        /\ import_commits # None
        /\ import_commits' \in {None, [import_commits EXCEPT !.checked = TRUE]}
        /\ turn = "committer"
    BY <1>2 DEF ImportCommit
  <2>2. BackgroundTypeOK'
    BY <1>0, <2>1 DEF BackgroundTypeOK
  <2> QED  BY <2>1, <2>2 DEF BackgroundInv, CommitterInv, DoneIsWoken, allVars, pollVars
<1>3. ASSUME NEW m \in Precommits, ImportFromCommit(m) PROVE CommitterInv'
  <2> DEFINE rest == import_commits.precommits \ {m}
  <2>1. /\ UNCHANGED <<turn, committed, finalized_number>>
        /\ turn = "committer" /\ pc' \in {"idle", "failed"} /\ import_commits # None
        /\ import_commits' = IF rest = {} THEN None ELSE [import_commits EXCEPT !.precommits = rest]
        /\ committer' = IF rest = {} THEN [committer EXCEPT !.last_commit = import_commits.target]
                        ELSE committer
    BY <1>3 DEF ImportFromCommit
  <2>2. committer \in Committers /\ import_commits.target \in OptionBlock /\ rest \in SUBSET VoteMessages
    BY <1>0, <2>1 DEF BackgroundInv, BackgroundTypeOK, OptionBlock
  <2> HIDE DEF rest
  <2>3. committer' \in Committers
    BY <2>1, <2>2 DEF Committers
  <2>4. BackgroundTypeOK'
    BY <1>0, <2>1, <2>2, <2>3 DEF BackgroundTypeOK
  <2> QED  BY <2>1, <2>3, <2>4, BackgroundAssumption DEF CommitterInv, DoneIsWoken
<1>4. CASE CommitTimer
  <2>1. /\ UNCHANGED <<vars, pc, bridged, turn, import_commits, committed, finalized_number>>
        /\ committer # None /\ committer' = [committer EXCEPT !.timer = TRUE]
    BY <1>4 DEF CommitTimer, pollVars, outVars
  <2>2. committer' \in Committers
    BY <1>0, <2>1 DEF Committers
  <2>3. BackgroundTypeOK' /\ committer' # None
    BY <1>0, <2>1, <2>2, BackgroundAssumption DEF BackgroundTypeOK
  <2> QED  BY <2>1, <2>3 DEF BackgroundInv, CommitterInv, DoneIsWoken, IsDone
<1>5. CASE CommitterFails
  <2>1. /\ UNCHANGED <<vars, turn, committerVars, finalized_number>>
        /\ turn = "committer" /\ pc' = "failed"
    BY <1>5 DEF CommitterFails
  <2> QED  BY <1>0, <2>1 DEF BackgroundInv, BackgroundTypeOK, CommitterInv, DoneIsWoken, committerVars
<1> QED  BY <1>1, <1>2, <1>3, <1>4, <1>5

LEMMA BackgroundEndsKeepCommitterInv ==
    ASSUME BackgroundInv, FinishBackgroundPoll \/ \E b \in Block : UpdateFinalized(Number[b])
    PROVE  CommitterInv'
<1>0. /\ voter \in VoterStates /\ BackgroundTypeOK /\ (committer # None => committer \in Committers)
      /\ best_finalized \in OptionBlock
  BY DEF BackgroundInv, BackgroundTypeOK, VotingInv, VotingTypeOK
<1>1. ASSUME FinishBackgroundPoll, committer # None, ~committer.timer PROVE CommitterInv'
  <2>1. /\ UNCHANGED <<vars, bridged, pc, import_commits, committed, finalized_number>>
        /\ turn' = "round" /\ committer' = [committer EXCEPT !.armed = TRUE]
    BY <1>1 DEF FinishBackgroundPoll, outVars
  <2>2. committer' \in Committers
    BY <1>0, <1>1, <2>1 DEF Committers
  <2>3. BackgroundTypeOK' /\ committer' # None
    BY <1>0, <2>1, <2>2, BackgroundAssumption DEF BackgroundTypeOK
  <2> QED  BY <2>1, <2>3 DEF CommitterInv, DoneIsWoken, IsDone
<1>2. ASSUME FinishBackgroundPoll, ~(committer # None /\ ~committer.timer) PROVE CommitterInv'
  <2> DEFINE commit == IF committer = None THEN None ELSE CommitToIssue
  <2>1. /\ UNCHANGED <<vars, bridged, import_commits, finalized_number>>
        /\ turn' = "round" /\ committer' = None /\ import_commits = None
        /\ committed' = IF commit = None THEN committed ELSE commit
        /\ voter' = [voter EXCEPT !.woken = @ \/ commit # None]
        /\ pc' = IF commit = None /\ IsDone(None, finalized_number) THEN "concluded" ELSE pc
    BY <1>2 DEF FinishBackgroundPoll, outVars
  <2>2. commit \in OptionBlock
    BY <1>0 DEF CommitToIssue, OptionBlock
  <2> HIDE DEF commit
  <2>3. BackgroundTypeOK'
    BY <1>0, <2>1, <2>2 DEF BackgroundTypeOK
  <2>4. DoneIsWoken'
    <3> SUFFICES ASSUME pc' = "idle", IsDone(committer, finalized_number)' PROVE voter'.woken
      BY DEF DoneIsWoken
    <3>1. IsDone(None, finalized_number)
      BY <2>1 DEF IsDone, vars
    <3>2. commit # None
      BY <2>1, <3>1
    <3> QED  BY <1>0, <2>1, <3>2 DEF VoterStates
  <2> QED  BY <2>1, <2>3, <2>4 DEF CommitterInv
<1>3. ASSUME NEW b \in Block, UpdateFinalized(Number[b]) PROVE CommitterInv'
  <2>1. /\ UNCHANGED <<vars, pc, bridged, turn, committerVars>> /\ turn = "round"
        /\ finalized_number' = Number[b]
        /\ voter' = [voter EXCEPT !.woken = @ \/ IsDone(committer, Number[b])]
    BY <1>3 DEF UpdateFinalized, pollVars, outVars
  <2>2. BackgroundTypeOK'
    BY <1>0, <2>1, BlockTreeAssumption DEF BackgroundTypeOK, committerVars
  <2>3. DoneIsWoken'
    <3> SUFFICES ASSUME IsDone(committer, finalized_number)' PROVE voter'.woken
      BY DEF DoneIsWoken
    <3>1. IsDone(committer, Number[b])
      BY <2>1 DEF IsDone, vars, committerVars
    <3> QED  BY <1>0, <2>1, <3>1 DEF VoterStates
  <2> QED  BY <2>1, <2>2, <2>3 DEF BackgroundInv, CommitterInv, committerVars
<1> QED  BY <1>1, <1>2, <1>3

-----------------------------------------------------------------------------
(* Theorems *)

LEMMA BackgroundStepKeepsInv ==
    ASSUME BackgroundInv, [BackgroundNext]_backgroundVars
    PROVE  BackgroundInv'
<1>1. VotingInv'
  BY BackgroundStepKeepsVotingInv
<1>2. ASSUME UNCHANGED backgroundVars PROVE CommitterInv'
  BY <1>2 DEF backgroundVars, allVars, vars, pollVars, outVars, committerVars, BackgroundInv, BackgroundTypeOK,
              CommitterInv, DoneIsWoken, IsDone
<1>3. CommitterInv'
  BY <1>2, RoundStepKeepsCommitterInv, CommitStepsKeepCommitterInv, BackgroundEndsKeepCommitterInv
     DEF BackgroundNext
<1> QED  BY <1>1, <1>3 DEF CommitterInv, BackgroundInv

\* BackgroundInv holds from the start of a round until it is discarded.
THEOREM BackgroundInvariant == BackgroundSpec => []BackgroundInv
<1>1. BackgroundInit => BackgroundInv
  <2>1. BackgroundInit => VotingInv /\ bridged = None
    BY VotingInitEstablishesInv DEF BackgroundInit, VotingInit
  <2> QED  BY <2>1 DEF BackgroundInit, BackgroundInv, BackgroundTypeOK, DoneIsWoken, OptionBlock
<1>2. BackgroundInv /\ [BackgroundNext]_backgroundVars => BackgroundInv'
  BY BackgroundStepKeepsInv
<1> QED  BY <1>1, <1>2, PTL DEF BackgroundSpec

\* What the next round sees of this one is never wrong, while commits add votes between polls
\* as well: the assumption a round makes of the last one is what it guarantees to the next.
THEOREM BridgeStaysRight == BackgroundSpec => []BridgeIsSafe
<1>1. BackgroundInv => BridgeIsSafe
  BY DEF BackgroundInv, VotingInv
<1> QED  BY <1>1, BackgroundInvariant, PTL

\* A round that may be discarded is woken: neither the votes and commits that move its
\* estimate back, nor a finalized block learnt while its committer is there, lose the wake-up.
THEOREM DoneStaysWoken == BackgroundSpec => []DoneIsWoken
<1>1. BackgroundInv => DoneIsWoken
  BY DEF BackgroundInv
<1> QED  BY <1>1, BackgroundInvariant, PTL

\* A voter's votes are as safe when the round is in the background.
THEOREM VotesStaySafe ==
    BackgroundSpec => [](VotesOnce /\ VotesAboveLastEstimate /\ CompletedIsFinalized)
<1>1. BackgroundInv => VotesOnce /\ VotesAboveLastEstimate /\ CompletedIsFinalized
  BY VotingInvHasVoting DEF BackgroundInv
<1> QED  BY <1>1, BackgroundInvariant, PTL

\* With the precommits that commits bring in the round is still one as RoundSpec specifies it.
THEOREM BackgroundImplementsRound == BackgroundSpec => Spec
<1>1. BackgroundInit => Init
  BY DEF BackgroundInit, VotingInit
<1>2. BackgroundInv /\ [BackgroundNext]_backgroundVars => [Next]_vars
  <2> SUFFICES ASSUME BackgroundInv, [BackgroundNext]_backgroundVars PROVE [Next]_vars
    OBVIOUS
  <2>1. VotingInv /\ VotingTypeOK
    BY DEF BackgroundInv, VotingInv
  <2>2. RoundStep => [Next]_vars
    BY <2>1, VotingStepIsRoundStep DEF RoundStep
  <2>3. ASSUME NEW m \in Precommits, ImportFromCommit(m) PROVE [Next]_vars
    BY <2>1, <2>3, PrecommitMessages, ImportIsStep DEF ImportFromCommit
  <2>4. ASSUME NEW C, NEW target, CommitArrives(target, C) PROVE UNCHANGED vars
    BY <2>4 DEF CommitArrives
  <2>5. ASSUME NEW n, UpdateFinalized(n) PROVE UNCHANGED vars
    BY <2>5 DEF UpdateFinalized
  <2>6. ImportCommit \/ CommitTimer \/ FinishBackgroundPoll \/ CommitterFails \/ UNCHANGED backgroundVars
            => UNCHANGED vars
    BY DEF ImportCommit, CommitTimer, FinishBackgroundPoll, CommitterFails, backgroundVars, allVars
  <2> QED  BY <2>2, <2>3, <2>4, <2>5, <2>6 DEF BackgroundNext
<1> QED  BY <1>1, <1>2, BackgroundInvariant, PTL DEF BackgroundSpec, Spec
=============================================================================
