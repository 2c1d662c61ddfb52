---------------------------- MODULE RoundProofs ----------------------------
(***************************************************************************)
(* Round implements RoundSpec: what import_prevote, import_precommit and   *)
(* precommit_ghost compute from the vote graph and the bitfields is what   *)
(* RoundSpec defines from the votes, for every voter set, block tree and   *)
(* base, and whatever votes arrive in whatever order.                      *)
(***************************************************************************)
EXTENDS RoundImports, PartLemmas

-----------------------------------------------------------------------------
(* What a round is made of *)

Ids == VoterIds(Voters)

\* The ballots that may arrive at all.
Ballot == UNION {UNION {ballots[id] : id \in DOMAIN ballots} : ballots \in Electorates}

\* A tracker has up to two ballots of every voter, not the same twice, and weighs each voter once.
TrackerFits(t) ==
    /\ t = [votes |-> t.votes, current_weight |-> t.current_weight]
    /\ t.votes \in [Ids -> Seq(Ballot)]
    /\ \A id \in Ids : Len(t.votes[id]) <= 2
    /\ \A id \in Ids : Len(t.votes[id]) = 2 => t.votes[id][1] # t.votes[id][2]
    /\ t.current_weight = SumOfWeights[{id \in Ids : t.votes[id] # <<>>}]

PhaseOf(p) == IF p % 2 = 0 THEN "prevote" ELSE "precommit"

\* The target of these ballots that the vote graph has.
Placed(ballots) ==
    IF ballots # <<>> /\ IsEqualOrDescendentOf(Base, ballots[1].target) THEN ballots[1].target ELSE None

\* The votes of the vote graph, by their bits.
Cast(r) == [p \in AllBits(Voters) |-> Placed(r[PhaseOf(p)].votes[VoterOfBit(Voters, p).id])]

\* The trackers, the equivocations and the vote graph hold the same votes.
RoundFits(r) ==
    /\ r = [graph            |-> r.graph,
            prevote          |-> r.prevote,
            precommit        |-> r.precommit,
            equivocations    |-> r.equivocations,
            historical_votes |-> r.historical_votes,
            prevote_ghost    |-> r.prevote_ghost,
            precommit_ghost  |-> r.precommit_ghost,
            finalized        |-> r.finalized,
            estimate         |-> r.estimate,
            completable      |-> r.completable]
    /\ TrackerFits(r.prevote) /\ TrackerFits(r.precommit)
    /\ r.equivocations \in SUBSET AllBits(Voters)
    /\ \A phase \in Phase : \A id \in Ids :
           VoteBit(Voters, id, phase) \in r.equivocations <=> id \in TwoVotes(r[phase])
    /\ IsVoteGraph(r.graph, Cast(r)) /\ r.graph.base = Base
    /\ \A h \in DOMAIN r.graph.entries : h = Base \/ \E p \in AllBits(Voters) : Cast(r)[p] = h

LEMMA PhaseFacts ==
    /\ Phase = {"prevote", "precommit"}
    /\ \A phase \in Phase : Parity(phase) \in {0, 1}
    /\ \A p \in Nat : PhaseOf(p) \in Phase
    /\ \A p \in Nat : \A phase \in Phase : p % 2 = Parity(phase) <=> phase = PhaseOf(p)
<1>1. \A p \in Nat : p % 2 \in {0, 1}
  OBVIOUS
<1> QED  BY <1>1 DEF Phase, Parity, PhaseOf

\* The electorate and the tracker of a voter of the round.
LEMMA BallotFacts ==
    /\ \A ballot \in Ballot : ballot.target \in Block
    /\ \A ballot \in Ballot : ballot = [target |-> ballot.target, signature |-> ballot.signature]
    /\ \A ballots \in Electorates : \A id \in DOMAIN ballots : ballots[id] \subseteq Ballot
    /\ Base \in Block /\ None \notin Block
  BY RoundImportsAssumption, BlockTreeAssumption DEF Ballot

\* What FirstTarget says of a tracker.
LEMMA FirstFacts ==
    ASSUME NEW t, TrackerFits(t), NEW id \in Ids
    PROVE  /\ FirstTarget(t)[id] = IF t.votes[id] = <<>> THEN None ELSE t.votes[id][1].target
           /\ FirstTarget(t)[id] \in Block <=> t.votes[id] # <<>>
           /\ FirstTarget(t)[id] \in OptionBlock
           /\ Placed(t.votes[id]) = IF FirstTarget(t)[id] \in Block /\ Base \in Ancestors[FirstTarget(t)[id]]
                                    THEN FirstTarget(t)[id] ELSE None
           /\ id \in TwoVotes(t) <=> Len(t.votes[id]) = 2
           /\ id \in TwoVotes(t) => t.votes[id] # <<>>
<1>1. t.votes[id] \in Seq(Ballot)
  BY DEF TrackerFits
<1>2. t.votes[id] # <<>> => t.votes[id][1] \in Ballot
  BY <1>1
<1>3. t.votes[id] # <<>> => t.votes[id][1].target \in Block
  BY <1>2, BallotFacts
<1>4. t.votes[id] = <<>> => Len(t.votes[id]) = 0
  BY <1>1
<1>5. FirstTarget(t)[id] = IF t.votes[id] = <<>> THEN None ELSE t.votes[id][1].target
  BY DEF FirstTarget, Ids
<1>6. id \in TwoVotes(t) <=> Len(t.votes[id]) = 2
  BY DEF TwoVotes, Ids
<1> QED  BY <1>3, <1>4, <1>5, <1>6, BallotFacts DEF Placed, IsEqualOrDescendentOf, OptionBlock

\* The phases of a round.
LEMMA RoundPhases ==
    ASSUME NEW r, RoundFits(r)
    PROVE  /\ r["prevote"] = r.prevote /\ r["precommit"] = r.precommit
           /\ \A phase \in Phase : TrackerFits(r[phase])
           /\ \A phase \in Phase, id \in Ids :
                  Cast(r)[VoteBit(Voters, id, phase)] = Placed(r[phase].votes[id])
           /\ DOMAIN Cast(r) = AllBits(Voters)
<1>1. r["prevote"] = r.prevote /\ r["precommit"] = r.precommit
  BY DEF RoundFits
<1>2. \A phase \in Phase : TrackerFits(r[phase])
  BY <1>1, PhaseFacts DEF RoundFits
<1>3. ASSUME NEW phase \in Phase, NEW id \in Ids
      PROVE  Cast(r)[VoteBit(Voters, id, phase)] = Placed(r[phase].votes[id])
  <2> DEFINE p == VoteBit(Voters, id, phase)
  <2>1. p \in AllBits(Voters) /\ p % 2 = Parity(phase) /\ VoterOfBit(Voters, p).id = id
    BY BitFacts, RoundVotersAssumption DEF Ids
  <2>2. p \in Nat
    BY <2>1 DEF AllBits
  <2> HIDE DEF p
  <2>3. PhaseOf(p) = phase
    BY <2>1, <2>2, PhaseFacts
  <2> QED  BY <2>1, <2>3 DEF Cast, p
<1> QED  BY <1>1, <1>2, <1>3 DEF Cast

-----------------------------------------------------------------------------
(* What votes weigh *)

\* The weight of voters, as RoundSpec has it.
LEMMA WeightsAdd ==
    /\ Voters.total_weight \in Nat \ {0} /\ Voters.total_weight <= MaxWeight
    /\ Voters.total_weight = SumOfWeights[Ids]
    /\ Abstract!TotalWeight = Voters.total_weight /\ Abstract!Threshold = Voters.threshold
    /\ Abstract!Faulty = Voters.total_weight - Voters.threshold
    /\ Voters.threshold \in 1 .. Voters.total_weight
    /\ \A S \in SUBSET Ids : /\ SumOfWeights[S] = WeightOfIds(Voters, S) /\ SumOfWeights[S] \in Nat
                             /\ SumOfWeights[S] <= Voters.total_weight
    /\ \A S, T \in SUBSET Ids : S \subseteq T => SumOfWeights[S] <= SumOfWeights[T]
    /\ SumOfWeights[{}] = 0
    /\ \A S \in SUBSET Ids : \A id \in Ids \ S :
           SumOfWeights[S \union {id}] = SumOfWeights[S] + WeightOfVoter(Voters, id)
<1> DEFINE w == WeightsOf(Voters)
           total == Voters.total_weight
<1>1. \A S \in SUBSET Ids : /\ SumOfWeights[S] = WeightOfIds(Voters, S) /\ SumOfWeights[S] \in Nat
                            /\ SumOfWeights[S] <= total
                            /\ IsWeights(w, S) /\ SumOfWeights[S] = Sum(w, S)
  BY WeightFacts, RoundVotersAssumption DEF Ids, SumOfWeights
<1>2. total \in Nat \ {0} /\ total <= MaxWeight
  BY WeightFacts, RoundVotersAssumption DEF Ids
<1>3. total = SumOfWeights[Ids] /\ Voters.threshold = ThresholdOf(total)
  BY <1>1, RoundVotersAssumption DEF IsVoterSet, Ids
<1>4. Voters.threshold = total - (total - 1) \div 3
  BY <1>2, <1>3 DEF ThresholdOf, SatSub
<1>5. Abstract!TotalWeight = total
  BY <1>3 DEF Abstract!TotalWeight, Ids
<1>6. Abstract!Faulty = (total - 1) \div 3
  BY <1>5 DEF Abstract!Faulty
<1>7. Abstract!Threshold = Voters.threshold
  BY <1>4, <1>5, <1>6 DEF Abstract!Threshold
<1> HIDE DEF total, w
<1>8. (total - 1) \div 3 \in Nat /\ (total - 1) \div 3 < total
  BY <1>2
<1>9. \A S, T \in SUBSET Ids : S \subseteq T => SumOfWeights[S] <= SumOfWeights[T]
  BY <1>1, SumOfLess
<1>10. SumOfWeights[{}] = 0
  BY <1>1, SumFacts
<1>11. ASSUME NEW S \in SUBSET Ids, NEW id \in Ids \ S
       PROVE  SumOfWeights[S \union {id}] = SumOfWeights[S] + WeightOfVoter(Voters, id)
  <2>1. S \union {id} \in SUBSET Ids /\ (S \union {id}) \ {id} = S
    OBVIOUS
  <2>2. Sum(w, S \union {id}) = w[id] + Sum(w, S)
    BY <1>1, <2>1, SumFacts
  <2>3. w[id] = WeightOfVoter(Voters, id) /\ w[id] \in Nat
    BY WeightFacts, RoundVotersAssumption DEF w, WeightsOf, Ids
  <2> QED  BY <1>1, <2>1, <2>2, <2>3
<1>12. Abstract!Faulty = total - Voters.threshold /\ Voters.threshold \in 1 .. total
  BY <1>2, <1>4, <1>6, <1>8 DEF total
<1>13. Abstract!TotalWeight = total
  BY <1>5 DEF total
<1> QED  BY <1>1, <1>2, <1>3, <1>7, <1>9, <1>10, <1>11, <1>12, <1>13 DEF total

\* The votes at and above a block are those of the voters that RoundSpec counts for it.
LEMMA VotersOn ==
    ASSUME NEW r, RoundFits(r), NEW b \in Block, Base \in Ancestors[b], NEW phase \in Phase
    PROVE  /\ VotesAt(Cast(r), b) \in Nodes
           /\ VotersWith(Voters, VotesAt(Cast(r), b) \union r.equivocations, phase)
                  = Abstract!On(FirstTarget(r[phase]), TwoVotes(r[phase]), b)
           /\ VotersWith(Voters, {} \union r.equivocations, phase) = TwoVotes(r[phase])
<1>1. VotesAt(Cast(r), b) \in Nodes
  BY RoundPhases DEF VotesAt, Nodes, AllBits
<1>2. ASSUME NEW id \in Ids
      PROVE  VoteBit(Voters, id, phase) \in VotesAt(Cast(r), b) <=>
                 /\ FirstTarget(r[phase])[id] \in Block
                 /\ b \in Ancestors[FirstTarget(r[phase])[id]]
  <2> DEFINE p == VoteBit(Voters, id, phase)
             x == FirstTarget(r[phase])[id]
  <2>1. p \in AllBits(Voters)
    BY BitFacts, RoundVotersAssumption DEF Ids
  <2>2. Cast(r)[p] = IF x \in Block /\ Base \in Ancestors[x] THEN x ELSE None
    BY RoundPhases, FirstFacts
  <2>3. x \in Block /\ b \in Ancestors[x] => Base \in Ancestors[x]
    BY ChainFacts
  <2>4. p \in VotesAt(Cast(r), b) <=> Cast(r)[p] # None /\ b \in Ancestors[Cast(r)[p]]
    BY <2>1, RoundPhases DEF VotesAt
  <2> HIDE DEF p, x
  <2>5. p \in VotesAt(Cast(r), b) <=> x \in Block /\ b \in Ancestors[x]
    BY <2>2, <2>3, <2>4, BallotFacts
  <2> QED  BY <2>5 DEF p, x
<1>3. ASSUME NEW id \in Ids
      PROVE  VoteBit(Voters, id, phase) \in r.equivocations <=> id \in TwoVotes(r[phase])
  BY DEF RoundFits
<1>4. TwoVotes(r[phase]) \subseteq Ids
  BY DEF TwoVotes, Ids
<1>5. VotersWith(Voters, VotesAt(Cast(r), b) \union r.equivocations, phase)
          = {id \in Ids : \/ id \in TwoVotes(r[phase])
                          \/ /\ FirstTarget(r[phase])[id] \in Block
                             /\ b \in Ancestors[FirstTarget(r[phase])[id]]}
  BY <1>2, <1>3 DEF VotersWith, Ids
<1>6. Abstract!On(FirstTarget(r[phase]), TwoVotes(r[phase]), b)
          = {id \in Ids : \/ id \in TwoVotes(r[phase])
                          \/ /\ FirstTarget(r[phase])[id] \in Block
                             /\ b \in Ancestors[FirstTarget(r[phase])[id]]}
  BY DEF Abstract!On, Ids
<1>7. VotersWith(Voters, {} \union r.equivocations, phase) = TwoVotes(r[phase])
  BY <1>3, <1>4 DEF VotersWith, Ids
<1> QED  BY <1>1, <1>5, <1>6, <1>7

\* The weight of a node is that of the voters it has, of votes or equivocations.
LEMMA WeightOfNode ==
    ASSUME NEW r, RoundFits(r), NEW node \in Nodes, NEW phase \in Phase
    PROVE  LET voters == VotersWith(Voters, node \union r.equivocations, phase)
           IN  voters \in SUBSET Ids /\ WeightIn(r, node, phase) = SumOfWeights[voters]
<1>1. node \in SUBSET Nat /\ r.equivocations \in SUBSET Nat
  BY DEF Nodes, RoundFits, AllBits
<1>2. WeightIn(r, node, phase) = WeightOfIds(Voters, VotersWith(Voters, node \union r.equivocations, phase))
  BY <1>1, NodeWeightIsExact, RoundVotersAssumption DEF WeightIn
<1>3. VotersWith(Voters, node \union r.equivocations, phase) \in SUBSET Ids
  BY DEF VotersWith, Ids
<1> QED  BY <1>2, <1>3, WeightsAdd

\* The two conditions on a node of the searches mean what RoundSpec says of the block.
LEMMA SupermajorityIsHeavy ==
    ASSUME NEW r, RoundFits(r), NEW b \in Block, Base \in Ancestors[b], NEW phase \in Phase
    PROVE  Supermajority(r, phase)[VotesAt(Cast(r), b)] <=>
               Abstract!Heavy(FirstTarget(r[phase]), TwoVotes(r[phase]), b)
<1> DEFINE node == VotesAt(Cast(r), b)
           on == Abstract!On(FirstTarget(r[phase]), TwoVotes(r[phase]), b)
<1>1. node \in Nodes /\ WeightIn(r, node, phase) = SumOfWeights[on]
  <2>1. node \in Nodes /\ VotersWith(Voters, node \union r.equivocations, phase) = on
    BY VotersOn
  <2> HIDE DEF node, on
  <2> QED  BY <2>1, WeightOfNode
<1>2. Supermajority(r, phase)[node] <=> WeightIn(r, node, phase) >= Voters.threshold
  BY <1>1 DEF Supermajority
<1>3. Abstract!Heavy(FirstTarget(r[phase]), TwoVotes(r[phase]), b) <=> SumOfWeights[on] >= Abstract!Threshold
  BY DEF Abstract!Heavy
<1>4. Abstract!Threshold = Voters.threshold
  BY WeightsAdd
<1> QED  BY <1>1, <1>2, <1>3, <1>4

\* The voters that voted, and their weight.
LEMMA VotedFacts ==
    ASSUME NEW r, RoundFits(r), NEW phase \in Phase
    PROVE  LET voted == Abstract!Voted(FirstTarget(r[phase]))
           IN  /\ voted = {id \in Ids : r[phase].votes[id] # <<>>}
               /\ r[phase].current_weight = SumOfWeights[voted]
               /\ TwoVotes(r[phase]) \subseteq voted
               /\ \A b : Abstract!On(FirstTarget(r[phase]), TwoVotes(r[phase]), b) \subseteq voted
<1> DEFINE voted == Abstract!Voted(FirstTarget(r[phase]))
<1>1. TrackerFits(r[phase])
  BY RoundPhases
<1>2. voted = {id \in Ids : FirstTarget(r[phase])[id] \in Block}
  BY DEF Abstract!Voted, Ids
<1>3. \A id \in Ids : /\ FirstTarget(r[phase])[id] \in Block <=> r[phase].votes[id] # <<>>
                      /\ id \in TwoVotes(r[phase]) => r[phase].votes[id] # <<>>
  BY <1>1, FirstFacts
<1>4. voted = {id \in Ids : r[phase].votes[id] # <<>>}
  BY <1>2, <1>3
<1>5. r[phase].current_weight = SumOfWeights[voted]
  BY <1>1, <1>4 DEF TrackerFits
<1>6. TwoVotes(r[phase]) \subseteq voted
  BY <1>3, <1>4 DEF TwoVotes, Ids
<1>7. \A b : Abstract!On(FirstTarget(r[phase]), TwoVotes(r[phase]), b) \subseteq voted
  BY <1>2, <1>6 DEF Abstract!On, Ids
<1> QED  BY <1>4, <1>5, <1>6, <1>7

\* Arithmetic of possible_to_precommit: nothing saturates but the last difference.
LEMMA PossibleArithmetic ==
    ASSUME NEW total \in Nat, total <= MaxWeight, NEW threshold \in 1 .. total,
           NEW current \in 0 .. total, NEW for \in 0 .. current, NEW two \in Nat
    PROVE  LET additional == SatSub(SatSub(total, threshold), two)
               against    == SatSub(current, for)
               possible   == IF against < additional THEN against ELSE additional
               faulty     == total - threshold
               abstract   == IF two > faulty THEN 0 ELSE faulty - two
           IN  SatAdd(SatAdd(for, SatSub(total, current)), possible) =
                   for + (total - current) + (IF current - for <= abstract THEN current - for ELSE abstract)
  BY MaxWeightAssumption DEF SatSub, SatAdd

LEMMA PossibleIsPossible ==
    ASSUME NEW r, RoundFits(r), NEW b \in Block, Base \in Ancestors[b]
    PROVE  PossibleToPrecommit(r)[VotesAt(Cast(r), b)] <=>
               Abstract!Possible(FirstTarget(r.precommit), TwoVotes(r.precommit), b)
<1> DEFINE node == VotesAt(Cast(r), b)
           first == FirstTarget(r.precommit)
           two == TwoVotes(r.precommit)
           on == Abstract!On(first, two, b)
           voted == Abstract!Voted(first)
           total == Voters.total_weight
           threshold == Voters.threshold
           current == SumOfWeights[voted]
           for == SumOfWeights[on]
<1>1. "precommit" \in Phase /\ r["precommit"] = r.precommit
  BY PhaseFacts, RoundPhases
<1>2. /\ node \in Nodes /\ VotersWith(Voters, node \union r.equivocations, "precommit") = on
      /\ VotersWith(Voters, {} \union r.equivocations, "precommit") = two
  BY <1>1, VotersOn
<1>3. /\ r.precommit.current_weight = current /\ two \subseteq voted /\ on \subseteq voted
      /\ voted \in SUBSET Ids
  BY <1>1, VotedFacts
<1> HIDE DEF node, first, two, on, voted, total, threshold
<1>4. {} \in Nodes
  BY DEF Nodes
<1>5. WeightIn(r, node, "precommit") = for /\ WeightIn(r, {}, "precommit") = SumOfWeights[two]
  BY <1>1, <1>2, <1>4, WeightOfNode
<1>6. /\ total \in Nat /\ total <= MaxWeight /\ threshold \in 1 .. total
      /\ Abstract!TotalWeight = total /\ Abstract!Threshold = threshold /\ Abstract!Faulty = total - threshold
  BY WeightsAdd DEF total, threshold
<1>7. current \in 0 .. total /\ for \in 0 .. current /\ SumOfWeights[two] \in Nat
  <2>1. two \in SUBSET Ids /\ on \in SUBSET Ids
    BY <1>3
  <2>2. SumOfWeights[voted] \in Nat /\ SumOfWeights[voted] <= total
    BY <1>3, WeightsAdd DEF total
  <2>3. SumOfWeights[on] \in Nat /\ SumOfWeights[on] <= SumOfWeights[voted] /\ SumOfWeights[two] \in Nat
    BY <1>3, <2>1, WeightsAdd
  <2> QED  BY <1>6, <2>2, <2>3
<1>8. PossibleToPrecommit(r)[node] <=>
          LET additional == SatSub(SatSub(total, threshold), SumOfWeights[two])
              against    == SatSub(current, for)
              possible   == IF against < additional THEN against ELSE additional
          IN  SatAdd(SatAdd(for, SatSub(total, current)), possible) >= threshold
  BY <1>2, <1>3, <1>5 DEF PossibleToPrecommit, total, threshold
<1>9. Abstract!Possible(first, two, b) <=>
          LET faulty   == total - threshold
              abstract == IF SumOfWeights[two] > faulty THEN 0 ELSE faulty - SumOfWeights[two]
          IN  for + (total - current) + (IF current - for <= abstract THEN current - for ELSE abstract)
                  >= threshold
  BY <1>6 DEF Abstract!Possible, Abstract!AdditionalEquivocations, Abstract!MinOf, on, voted
<1> HIDE DEF current, for
<1>10. PossibleToPrecommit(r)[node] <=> Abstract!Possible(first, two, b)
  BY <1>6, <1>7, <1>8, <1>9, PossibleArithmetic
<1> QED  BY <1>10 DEF node, first, two

-----------------------------------------------------------------------------
(* What the searches find *)

\* The blocks of the vote graph are those RoundSpec searches.
LEMMA BlocksOfRound ==
    ASSUME NEW r, RoundFits(r), NEW b
    PROVE  b \in Blocks(r.graph) <=>
               b \in Block /\ Abstract!InGraph(FirstTarget(r.prevote), FirstTarget(r.precommit), b)
<1> DEFINE E == DOMAIN r.graph.entries
           first(phase) == FirstTarget(r[phase])
<1>1. /\ E \subseteq Block /\ Base \in E /\ Base \in Block /\ r.graph.base = Base
      /\ \A p \in AllBits(Voters) : Cast(r)[p] # None => Cast(r)[p] \in E
  <2>1. IsVoteGraph(r.graph, Cast(r)) /\ r.graph.base = Base
    BY DEF RoundFits
  <2> QED  BY <2>1, GraphFacts, RoundPhases
<1>2. /\ r["prevote"] = r.prevote /\ r["precommit"] = r.precommit
      /\ Phase = {"prevote", "precommit"}
  BY PhaseFacts, RoundPhases
<1>3. ASSUME b \in Blocks(r.graph)
      PROVE  b \in Block /\ Base \in Ancestors[b]
             /\ (b = Base \/ \E phase \in Phase : \E v \in Ids :
                                 first(phase)[v] \in Block /\ b \in Ancestors[first(phase)[v]])
  <2>1. b \in Block /\ Base \in Ancestors[b]
    BY <1>1, <1>3 DEF Blocks
  <2>2. PICK h \in E : b \in Ancestors[h]
    BY <1>3 DEF Blocks
  <2>3. CASE h = Base
    BY <1>1, <2>1, <2>2, <2>3, ChainFacts
  <2>4. CASE h # Base
    <3>1. PICK p \in AllBits(Voters) : Cast(r)[p] = h
      BY <2>2, <2>4 DEF RoundFits
    <3> DEFINE v == VoterOfBit(Voters, p).id
               phase == PhaseOf(p)
    <3>2. p \in Nat /\ v \in Ids /\ phase \in Phase
      <4>1. v \in Ids
        BY BitFacts, RoundVotersAssumption DEF Ids
      <4>2. p \in Nat
        BY DEF AllBits
      <4> QED  BY <4>1, <4>2, PhaseFacts
    <3>3. h = Placed(r[phase].votes[v])
      BY <3>1 DEF Cast
    <3>4. h # None
      BY <1>1, BallotFacts
    <3> HIDE DEF v, phase
    <3>5. first(phase)[v] \in Block /\ h = first(phase)[v]
      BY <3>2, <3>3, <3>4, FirstFacts, RoundPhases
    <3> QED  BY <2>1, <2>2, <3>2, <3>5
  <2> QED  BY <2>3, <2>4
<1>4. ASSUME NEW phase \in Phase, NEW v \in Ids, b \in Block, Base \in Ancestors[b],
             first(phase)[v] \in Block, b \in Ancestors[first(phase)[v]]
      PROVE  b \in Blocks(r.graph)
  <2>1. Base \in Ancestors[first(phase)[v]]
    BY <1>1, <1>4, ChainFacts
  <2>2. Cast(r)[VoteBit(Voters, v, phase)] = first(phase)[v] /\ VoteBit(Voters, v, phase) \in AllBits(Voters)
    BY <1>4, <2>1, FirstFacts, RoundPhases, BitFacts, RoundVotersAssumption DEF Ids
  <2>3. first(phase)[v] \in E
    BY <1>1, <1>4, <2>2, BallotFacts
  <2> QED  BY <1>1, <1>4, <2>3 DEF Blocks
<1>5. Base \in Blocks(r.graph)
  BY <1>1, ChainFacts DEF Blocks
<1>6. Abstract!InGraph(FirstTarget(r.prevote), FirstTarget(r.precommit), b) <=>
          Base \in Ancestors[b]
          /\ (b = Base \/ \E phase \in Phase : \E v \in Ids :
                              first(phase)[v] \in Block /\ b \in Ancestors[first(phase)[v]])
  BY <1>2 DEF Abstract!InGraph, Ids
<1> QED  BY <1>1, <1>3, <1>4, <1>5, <1>6

\* More votes weigh more.
LEMMA NodesGrow ==
    ASSUME NEW r, RoundFits(r), NEW vs \in Nodes, NEW ws \in Nodes, vs \subseteq ws, NEW phase \in Phase
    PROVE  /\ WeightIn(r, vs, phase) \in Nat /\ WeightIn(r, ws, phase) \in Nat
           /\ WeightIn(r, vs, phase) <= WeightIn(r, ws, phase)
           /\ WeightIn(r, ws, phase) <= Voters.total_weight
<1> DEFINE less == VotersWith(Voters, vs \union r.equivocations, phase)
           more == VotersWith(Voters, ws \union r.equivocations, phase)
<1>1. less \subseteq more
  BY DEF VotersWith
<1>2. less \in SUBSET Ids /\ WeightIn(r, vs, phase) = SumOfWeights[less]
  BY WeightOfNode
<1>3. more \in SUBSET Ids /\ WeightIn(r, ws, phase) = SumOfWeights[more]
  BY WeightOfNode
<1> HIDE DEF less, more
<1> QED  BY <1>1, <1>2, <1>3, WeightsAdd

\* Both conditions keep holding when votes are added.
LEMMA SupermajorityGrows ==
    ASSUME NEW r, RoundFits(r), NEW phase \in Phase
    PROVE  Monotone(Cast(r), Supermajority(r, phase))
<1>1. SUBSET DOMAIN Cast(r) = Nodes
  BY RoundPhases DEF Nodes, AllBits
<1>2. ASSUME NEW vs \in Nodes, NEW ws \in Nodes, vs \subseteq ws, Supermajority(r, phase)[vs]
      PROVE  Supermajority(r, phase)[ws]
  <2>1. WeightIn(r, vs, phase) <= WeightIn(r, ws, phase)
        /\ WeightIn(r, vs, phase) \in Nat /\ WeightIn(r, ws, phase) \in Nat
    BY <1>2, NodesGrow
  <2>2. \A node \in Nodes : Supermajority(r, phase)[node] <=> WeightIn(r, node, phase) >= Voters.threshold
    BY DEF Supermajority
  <2>3. Voters.threshold \in Nat
    BY WeightsAdd
  <2>4. WeightIn(r, ws, phase) >= Voters.threshold
    BY <1>2, <2>1, <2>2, <2>3
  <2> QED  BY <2>2, <2>4
<1> QED  BY <1>1, <1>2 DEF Monotone

LEMMA PossibleGrowsArithmetic ==
    ASSUME NEW total \in Nat, total <= MaxWeight, NEW current \in 0 .. total, NEW additional \in Nat,
           NEW for \in 0 .. total, NEW more \in for .. total
    PROVE  LET possible(x) == IF SatSub(current, x) < additional THEN SatSub(current, x) ELSE additional
               sum(x)      == SatAdd(SatAdd(x, SatSub(total, current)), possible(x))
           IN  sum(for) \in Nat /\ sum(more) \in Nat /\ sum(for) <= sum(more)
  BY MaxWeightAssumption DEF SatSub, SatAdd

LEMMA PossibleGrows ==
    ASSUME NEW r, RoundFits(r)
    PROVE  Monotone(Cast(r), PossibleToPrecommit(r))
<1> DEFINE total == Voters.total_weight
           current == r.precommit.current_weight
           additional == SatSub(SatSub(total, Voters.threshold), WeightIn(r, {}, "precommit"))
           possible(x) == IF SatSub(current, x) < additional THEN SatSub(current, x) ELSE additional
           sum(x) == SatAdd(SatAdd(x, SatSub(total, current)), possible(x))
<1>1. SUBSET DOMAIN Cast(r) = Nodes /\ {} \in Nodes
  BY RoundPhases DEF Nodes, AllBits
<1>2. /\ total \in Nat /\ total <= MaxWeight /\ Voters.threshold \in Nat
      /\ current \in 0 .. total
  <2>1. current = SumOfWeights[Abstract!Voted(FirstTarget(r.precommit))]
        /\ Abstract!Voted(FirstTarget(r.precommit)) \in SUBSET Ids
    BY VotedFacts, PhaseFacts, RoundPhases
  <2> QED  BY <2>1, WeightsAdd
<1>3. additional \in Nat
  <2>1. WeightIn(r, {}, "precommit") \in Nat
    BY <1>1, NodesGrow, PhaseFacts
  <2> QED  BY <1>2, <2>1 DEF SatSub
<1>4. \A node \in Nodes : PossibleToPrecommit(r)[node] <=> sum(WeightIn(r, node, "precommit")) >= Voters.threshold
  BY DEF PossibleToPrecommit
<1> HIDE DEF total, current, additional
<1>5. ASSUME NEW vs \in Nodes, NEW ws \in Nodes, vs \subseteq ws, PossibleToPrecommit(r)[vs]
      PROVE  PossibleToPrecommit(r)[ws]
  <2> DEFINE for == WeightIn(r, vs, "precommit")
             more == WeightIn(r, ws, "precommit")
  <2>1. for \in Nat /\ more \in Nat /\ for <= more /\ more <= total
    BY <1>5, NodesGrow, PhaseFacts DEF total
  <2> HIDE DEF for, more
  <2>2. for \in 0 .. total /\ more \in for .. total
    BY <1>2, <2>1
  <2>3. sum(for) \in Nat /\ sum(more) \in Nat /\ sum(for) <= sum(more)
    BY <1>2, <1>3, <2>2, PossibleGrowsArithmetic
  <2>4. sum(for) >= Voters.threshold
    BY <1>4, <1>5 DEF for
  <2> HIDE DEF sum
  <2>5. sum(more) >= Voters.threshold
    BY <1>2, <2>3, <2>4
  <2> QED  BY <1>4, <2>5 DEF more
<1> QED  BY <1>1, <1>5 DEF Monotone

\* find_ancestor from a block of the graph, for a condition that means S.
LEMMA AncestorIsHighest ==
    ASSUME NEW r, RoundFits(r), NEW g \in Blocks(r.graph), NEW condition, NEW S \in SUBSET Block,
           \A b \in Block : Base \in Ancestors[b] => (condition[VotesAt(Cast(r), b)] <=> b \in S)
    PROVE  FindAncestor(r.graph, g, condition) \in Abstract!Highest(g, S)
<1> DEFINE found == Satisfying(r.graph, Cast(r), g, condition)
           chain == Abstract!ChainTo(g) \intersect S
           x == FindAncestor(r.graph, g, condition)
<1>1. IsVoteGraph(r.graph, Cast(r)) /\ r.graph.base = Base /\ g \in Block /\ g \in Blocks(r.graph)
  BY DEF RoundFits, Blocks
<1>2. x = IF found = {} THEN None
          ELSE CHOOSE y \in found : \A z \in found : Number[z] <= Number[y]
  BY <1>1, SearchExact DEF HighestSatisfying
<1>3. Abstract!ChainTo(g) = Blocks(r.graph) \intersect Ancestors[g]
  <2>1. \A b \in Ancestors[g] : Base \in Ancestors[b] => b \in Blocks(r.graph)
    BY <1>1, BlocksBelow
  <2>2. \A b \in Blocks(r.graph) : Base \in Ancestors[b]
    BY <1>1 DEF Blocks
  <2> QED  BY <2>1, <2>2 DEF Abstract!ChainTo
<1>4. found = chain
  <2>1. \A b \in Blocks(r.graph) : b \in Block /\ Base \in Ancestors[b]
    BY <1>1 DEF Blocks
  <2> QED  BY <1>3, <2>1 DEF Satisfying
<1>5. found \in SUBSET Ancestors[g] /\ Ancestors[g] \subseteq Block
  BY <1>1, ChainFacts DEF Satisfying
<1> HIDE DEF found, chain, x
<1>6. CASE found = {}
  <2>1. x = None
    BY <1>2, <1>6
  <2> QED  BY <1>4, <1>6, <2>1 DEF Abstract!Highest, Abstract!OptionBlock, chain, x
<1>7. CASE found # {}
  <2>1. x \in found /\ \A z \in found : Number[z] <= Number[x]
    <3>1. \E y \in found : \A z \in found : Number[z] <= Number[y]
      BY <1>1, <1>5, <1>7, HighestExists
    <3> QED  BY <1>2, <1>7, <3>1
  <2>2. \A z \in found : z \in Ancestors[x]
    BY <1>1, <1>5, <2>1, ChainFacts
  <2>3. x \in Block /\ x # None
    BY <1>5, <2>1, BallotFacts
  <2> QED  BY <1>4, <2>1, <2>2, <2>3 DEF Abstract!Highest, Abstract!OptionBlock, chain, x
<1> QED  BY <1>6, <1>7

\* A memoised GHOST is a block of the graph that still has its supermajority.
GhostFits(r, phase, g) ==
    g # None => /\ g \in Blocks(r.graph)
                /\ Abstract!Heavy(FirstTarget(r[phase]), TwoVotes(r[phase]), g)

\* find_ghost, from a memoised GHOST.
LEMMA SearchIsGhosts ==
    ASSUME NEW r, RoundFits(r), NEW phase \in Phase, NEW g, GhostFits(r, phase, g),
           NEW x \in FindGhosts(r.graph, g, Supermajority(r, phase))
    PROVE  /\ x \in Abstract!Ghosts(FirstTarget(r.prevote), FirstTarget(r.precommit),
                                    FirstTarget(r[phase]), TwoVotes(r[phase]))
           /\ GhostFits(r, phase, x)
<1> DEFINE condition == Supermajority(r, phase)
           vs == FirstTarget(r[phase])
           two == TwoVotes(r[phase])
           Heavily(b) == Abstract!Heavy(vs, two, b)
<1>1. /\ IsVoteGraph(r.graph, Cast(r)) /\ r.graph.base = Base /\ Base \in Block /\ Base \in Blocks(r.graph)
      /\ None \notin Block
  <2>1. IsVoteGraph(r.graph, Cast(r)) /\ r.graph.base = Base
    BY DEF RoundFits
  <2> QED  BY <2>1, BallotFacts, GraphFacts, ChainFacts DEF Blocks
<1>2. Monotone(Cast(r), condition)
  BY SupermajorityGrows
<1>3. \A b \in Blocks(r.graph) : b \in Block /\ Base \in Ancestors[b]
  BY <1>1 DEF Blocks
<1>4. \A b \in Blocks(r.graph) : condition[VotesAt(Cast(r), b)] <=> Heavily(b)
  BY <1>3, SupermajorityIsHeavy
<1>5. \A b : b \in Blocks(r.graph) <=>
                b \in Block /\ Abstract!InGraph(FirstTarget(r.prevote), FirstTarget(r.precommit), b)
  BY BlocksOfRound
<1> HIDE DEF condition, vs, two
<1>6. x \in FindGhosts(r.graph, g, condition)
  BY DEF condition
<1>7. CASE g = None /\ ~condition[VotesAt(Cast(r), Base)]
  <2>1. x = None
    BY <1>1, <1>2, <1>6, <1>7, SearchFinds
  <2>2. ~Heavily(Base)
    BY <1>1, <1>4, <1>7
  <2> QED  BY <2>1, <2>2 DEF GhostFits, Abstract!Ghosts, Abstract!OptionBlock, vs, two
<1>8. CASE ~(g = None /\ ~condition[VotesAt(Cast(r), Base)])
  <2> DEFINE start == SearchFrom(r.graph, g)
  <2>1. g \in Blocks(r.graph) \union {None} /\ condition[VotesAt(Cast(r), start)]
    <3>1. CASE g = None
      BY <1>1, <1>8, <3>1 DEF SearchFrom
    <3>2. CASE g # None
      BY <1>4, <3>2 DEF GhostFits, SearchFrom, vs, two
    <3> QED  BY <3>1, <3>2
  <2>2. GhostOf(r.graph, Cast(r), start, condition, x)
    BY <1>1, <1>2, <1>6, <2>1, SearchFinds
  <2>3. /\ x \in Blocks(r.graph) /\ Heavily(x)
        /\ \A y \in Blocks(r.graph) : x \in Ancestors[y] /\ Heavily(y) => y = x
    BY <1>4, <2>2 DEF GhostOf
  <2>4. x # None /\ x \in Block
    BY <1>1, <1>3, <2>3
  <2> HIDE DEF start
  <2>5. x \in Abstract!Ghosts(FirstTarget(r.prevote), FirstTarget(r.precommit), vs, two)
    BY <1>5, <2>3, <2>4 DEF Abstract!Ghosts, Abstract!OptionBlock, Abstract!Below
  <2> QED  BY <2>3, <2>5 DEF GhostFits, vs, two
<1> QED  BY <1>7, <1>8

-----------------------------------------------------------------------------
(* What is derived from the votes *)

\* Two rounds with the same votes.
SameVotes(r, u) ==
    /\ u = [graph            |-> u.graph,
            prevote          |-> u.prevote,
            precommit        |-> u.precommit,
            equivocations    |-> u.equivocations,
            historical_votes |-> u.historical_votes,
            prevote_ghost    |-> u.prevote_ghost,
            precommit_ghost  |-> u.precommit_ghost,
            finalized        |-> u.finalized,
            estimate         |-> u.estimate,
            completable      |-> u.completable]
    /\ u.graph = r.graph /\ u.prevote = r.prevote /\ u.precommit = r.precommit
    /\ u.equivocations = r.equivocations /\ u.historical_votes = r.historical_votes

LEMMA SameVotesFit ==
    ASSUME NEW r, RoundFits(r), NEW u, SameVotes(r, u)
    PROVE  /\ RoundFits(u)
           /\ \A phase \in Phase : u[phase] = r[phase]
           /\ \A phase \in Phase : \A g : GhostFits(r, phase, g) <=> GhostFits(u, phase, g)
<1>1. u = [graph            |-> u.graph,
           prevote          |-> u.prevote,
           precommit        |-> u.precommit,
           equivocations    |-> u.equivocations,
           historical_votes |-> u.historical_votes,
           prevote_ghost    |-> u.prevote_ghost,
           precommit_ghost  |-> u.precommit_ghost,
           finalized        |-> u.finalized,
           estimate         |-> u.estimate,
           completable      |-> u.completable]
  BY DEF RoundFits, SameVotes
<1>2. \A phase \in Phase : u[phase] = r[phase]
  <2>1. u["prevote"] = u.prevote /\ u["precommit"] = u.precommit
    BY <1>1
  <2> QED  BY <2>1, PhaseFacts, RoundPhases DEF SameVotes
<1>3. Cast(u) = Cast(r)
  <2>1. \A p \in AllBits(Voters) : u[PhaseOf(p)] = r[PhaseOf(p)]
    BY <1>2, PhaseFacts DEF AllBits
  <2> QED  BY <2>1 DEF Cast
<1>4. RoundFits(u)
  BY <1>1, <1>2, <1>3 DEF RoundFits, SameVotes
<1>5. \A phase \in Phase : \A g : GhostFits(r, phase, g) <=> GhostFits(u, phase, g)
  BY <1>2 DEF GhostFits, SameVotes
<1> QED  BY <1>2, <1>4, <1>5

\* When RoundSpec has a round completable, for the estimate found.
Completed(r, est) ==
    LET pvs == FirstTarget(r.prevote)
        pcs == FirstTarget(r.precommit)
    IN  /\ est # None
        /\ \/ est # r.prevote_ghost
           \/ \A b \in Block : Abstract!InGraph(pvs, pcs, b) /\ Abstract!Below(r.prevote_ghost, b)
                                   => ~Abstract!Possible(pcs, TwoVotes(r.precommit), b)

\* What RoundSpec's Update says of the round before and after.
IsUpdate(r, u) ==
    LET pvs   == FirstTarget(r.prevote)
        pcs   == FirstTarget(r.precommit)
        two   == TwoVotes(r.precommit)
        ghost == r.prevote_ghost
    IN  IF SumOfWeights[Abstract!Voted(pvs)] < Abstract!Threshold \/ ghost = None
        THEN u.finalized = r.finalized /\ u.estimate = r.estimate /\ u.completable = r.completable
        ELSE IF SumOfWeights[Abstract!Voted(pcs)] < Abstract!Threshold
        THEN u.finalized = r.finalized /\ u.estimate = ghost /\ u.completable = r.completable
        ELSE /\ u.finalized \in Abstract!Highest(ghost, {b \in Block : Abstract!Heavy(pcs, two, b)})
             /\ u.estimate \in Abstract!Highest(ghost, {b \in Block : Abstract!Possible(pcs, two, b)})
             /\ u.completable = Completed(r, u.estimate)

\* update has the votes it needs.
LEMMA EnoughFacts ==
    ASSUME NEW r, RoundFits(r), NEW phase \in Phase
    PROVE  r[phase].current_weight >= Voters.threshold <=>
               ~(SumOfWeights[Abstract!Voted(FirstTarget(r[phase]))] < Abstract!Threshold)
<1> DEFINE voted == Abstract!Voted(FirstTarget(r[phase]))
<1>1. voted \in SUBSET Ids /\ r[phase].current_weight = SumOfWeights[voted]
  BY VotedFacts
<1>2. SumOfWeights[voted] \in Nat /\ Voters.threshold \in Nat /\ Abstract!Threshold = Voters.threshold
  BY <1>1, WeightsAdd
<1> QED  BY <1>1, <1>2

\* The end of update: find_ghost, asked for a block with a possible supermajority above the
\* estimate, answers with the estimate exactly if there is none.
LEMMA ConcludeFacts ==
    ASSUME NEW r, RoundFits(r), NEW g \in Blocks(r.graph), g = r.prevote_ghost, NEW final,
           NEW est, est = FindAncestor(r.graph, g, PossibleToPrecommit(r)),
           NEW u \in Conclude(r, final, est)
    PROVE  /\ SameVotes(r, u) /\ u.prevote_ghost = r.prevote_ghost /\ u.precommit_ghost = r.precommit_ghost
           /\ u.finalized = final /\ u.estimate = est /\ u.completable = Completed(r, est)
<1> DEFINE pvs == FirstTarget(r.prevote)
           pcs == FirstTarget(r.precommit)
           two == TwoVotes(r.precommit)
           condition == PossibleToPrecommit(r)
           answers == IF est = None THEN {FALSE}
                      ELSE IF est # r.prevote_ghost THEN {TRUE}
                      ELSE {x = None \/ x = est : x \in FindGhosts(r.graph, est, condition)}
           NoneAbove == \A b \in Block : Abstract!InGraph(pvs, pcs, b) /\ Abstract!Below(g, b)
                                              => ~Abstract!Possible(pcs, two, b)
<1>1. PICK done \in answers : u = [r EXCEPT !.finalized = final, !.estimate = est, !.completable = done]
  BY DEF Conclude
<1>2. /\ SameVotes(r, u) /\ u.prevote_ghost = r.prevote_ghost /\ u.precommit_ghost = r.precommit_ghost
      /\ u.finalized = final /\ u.estimate = est /\ u.completable = done
  BY <1>1 DEF SameVotes, RoundFits
<1>3. /\ IsVoteGraph(r.graph, Cast(r)) /\ r.graph.base = Base /\ g \in Block /\ None \notin Block
      /\ \A b \in Blocks(r.graph) : b \in Block /\ Base \in Ancestors[b]
  BY BallotFacts DEF RoundFits, Blocks
<1>4. \A b \in Blocks(r.graph) : condition[VotesAt(Cast(r), b)] <=> Abstract!Possible(pcs, two, b)
  BY <1>3, PossibleIsPossible
<1>5. Monotone(Cast(r), condition)
  BY PossibleGrows
<1>6. \A b : b \in Blocks(r.graph) <=> b \in Block /\ Abstract!InGraph(pvs, pcs, b)
  BY BlocksOfRound
<1>7. Completed(r, est) = (est # None /\ (est # g \/ NoneAbove))
  BY DEF Completed
<1> HIDE DEF pvs, pcs, two, condition, NoneAbove
<1>8. CASE est = None
  BY <1>1, <1>2, <1>8, <1>7
<1>9. CASE est # None /\ est # g
  BY <1>1, <1>2, <1>9, <1>7
<1>10. CASE est # None /\ est = g
  <2>1. condition[VotesAt(Cast(r), g)]
    <3> DEFINE found == Satisfying(r.graph, Cast(r), g, condition)
    <3>1. est = IF found = {} THEN None
                ELSE CHOOSE y \in found : \A z \in found : Number[z] <= Number[y]
      <4>1. est = FindAncestor(r.graph, g, condition)
        BY DEF condition
      <4>2. est = HighestSatisfying(r.graph, Cast(r), g, condition)
        BY <1>3, <4>1, SearchExact
      <4> QED  BY <4>2 DEF HighestSatisfying
    <3>2. found \in SUBSET Ancestors[g]
      BY DEF Satisfying
    <3>3. found # {} => \E y \in found : \A z \in found : Number[z] <= Number[y]
      BY <1>3, <3>2, HighestExists
    <3> HIDE DEF found
    <3>4. est \in found
      BY <1>10, <3>1, <3>3
    <3> QED  BY <1>10, <3>4 DEF found, Satisfying
  <2>2. PICK x \in FindGhosts(r.graph, g, condition) : done = (x = None \/ x = g)
    BY <1>1, <1>10
  <2>3. GhostOf(r.graph, Cast(r), g, condition, x)
    <3>1. SearchFrom(r.graph, g) = g
      BY <1>3 DEF SearchFrom
    <3> QED  BY <1>3, <1>5, <2>1, <2>2, <3>1, SearchFinds
  <2>4. /\ x \in Blocks(r.graph) /\ g \in Ancestors[x] /\ Abstract!Possible(pcs, two, x)
        /\ \A y \in Blocks(r.graph) : x \in Ancestors[y] /\ Abstract!Possible(pcs, two, y) => y = x
    BY <1>4, <2>3 DEF GhostOf
  <2>5. done <=> x = g
    BY <1>3, <2>2, <2>4
  <2>6. x = g <=> NoneAbove
    <3>1. ASSUME x = g PROVE NoneAbove
      <4>1. \A b \in Block : Abstract!InGraph(pvs, pcs, b) /\ g \in Ancestors[b] /\ g # b
                                 => ~Abstract!Possible(pcs, two, b)
        BY <1>6, <2>4, <3>1
      <4> QED  BY <4>1 DEF NoneAbove, Abstract!Below
    <3>2. ASSUME x # g PROVE ~NoneAbove
      <4>1. x \in Block /\ Abstract!InGraph(pvs, pcs, x) /\ Abstract!Possible(pcs, two, x)
        BY <1>6, <2>4
      <4>2. Abstract!Below(g, x)
        BY <2>4, <3>2 DEF Abstract!Below
      <4> QED  BY <4>1, <4>2 DEF NoneAbove
    <3> QED  BY <3>1, <3>2
  <2>7. done \in BOOLEAN /\ NoneAbove \in BOOLEAN
    BY <2>2 DEF NoneAbove
  <2>8. u.completable = NoneAbove
    BY <1>2, <2>5, <2>6, <2>7
  <2> QED  BY <1>2, <1>10, <1>7, <2>7, <2>8
<1> QED  BY <1>8, <1>9, <1>10

\* update does what RoundSpec says, and changes none of the votes.
LEMMA UpdateFacts ==
    ASSUME NEW r, RoundFits(r), GhostFits(r, "prevote", r.prevote_ghost), NEW u \in Update(r)
    PROVE  /\ SameVotes(r, u) /\ u.prevote_ghost = r.prevote_ghost /\ u.precommit_ghost = r.precommit_ghost
           /\ IsUpdate(r, u)
<1> DEFINE ghost == r.prevote_ghost
           pvs == FirstTarget(r.prevote)
           pcs == FirstTarget(r.precommit)
           two == TwoVotes(r.precommit)
           final == FindAncestor(r.graph, ghost, Supermajority(r, "precommit"))
           est == FindAncestor(r.graph, ghost, PossibleToPrecommit(r))
<1>1. /\ r.prevote.current_weight >= Voters.threshold
             <=> ~(SumOfWeights[Abstract!Voted(pvs)] < Abstract!Threshold)
      /\ r.precommit.current_weight >= Voters.threshold
             <=> ~(SumOfWeights[Abstract!Voted(pcs)] < Abstract!Threshold)
  BY EnoughFacts, PhaseFacts, RoundPhases
<1>2. SameVotes(r, r)
  BY DEF RoundFits, SameVotes
<1>3. CASE ~(r.prevote.current_weight >= Voters.threshold) \/ ghost = None
  <2>1. u = r
    BY <1>3 DEF Update
  <2> QED  BY <1>1, <1>2, <1>3, <2>1 DEF IsUpdate
<1>4. CASE r.prevote.current_weight >= Voters.threshold /\ ghost # None
  <2>1. CASE ~(r.precommit.current_weight >= Voters.threshold)
    <3>1. u = [r EXCEPT !.estimate = ghost]
      BY <1>4, <2>1 DEF Update
    <3>2. /\ SameVotes(r, u) /\ u.prevote_ghost = r.prevote_ghost /\ u.precommit_ghost = r.precommit_ghost
          /\ u.finalized = r.finalized /\ u.estimate = ghost /\ u.completable = r.completable
      BY <3>1 DEF RoundFits, SameVotes
    <3> QED  BY <1>1, <1>4, <2>1, <3>2 DEF IsUpdate
  <2>2. CASE r.precommit.current_weight >= Voters.threshold
    <3>1. u \in Conclude(r, final, est)
      BY <1>4, <2>2 DEF Update
    <3>2. ghost \in Blocks(r.graph)
      BY <1>4 DEF GhostFits
    <3>3. /\ SameVotes(r, u) /\ u.prevote_ghost = r.prevote_ghost /\ u.precommit_ghost = r.precommit_ghost
          /\ u.finalized = final /\ u.estimate = est /\ u.completable = Completed(r, est)
      <4>1. est = FindAncestor(r.graph, ghost, PossibleToPrecommit(r)) /\ ghost = r.prevote_ghost
        OBVIOUS
      <4> HIDE DEF ghost, final, est
      <4> QED  BY <3>1, <3>2, <4>1, ConcludeFacts
    <3>4. final \in Abstract!Highest(ghost, {b \in Block : Abstract!Heavy(pcs, two, b)})
      <4> DEFINE S == {b \in Block : Abstract!Heavy(pcs, two, b)}
      <4>1. \A b \in Block : Base \in Ancestors[b] =>
                (Supermajority(r, "precommit")[VotesAt(Cast(r), b)] <=> b \in S)
        BY SupermajorityIsHeavy, PhaseFacts, RoundPhases
      <4>2. S \in SUBSET Block
        OBVIOUS
      <4> HIDE DEF S
      <4> QED  BY <3>2, <4>1, <4>2, AncestorIsHighest DEF S
    <3>5. est \in Abstract!Highest(ghost, {b \in Block : Abstract!Possible(pcs, two, b)})
      <4> DEFINE S == {b \in Block : Abstract!Possible(pcs, two, b)}
      <4>1. \A b \in Block : Base \in Ancestors[b] =>
                (PossibleToPrecommit(r)[VotesAt(Cast(r), b)] <=> b \in S)
        BY PossibleIsPossible
      <4>2. S \in SUBSET Block
        OBVIOUS
      <4> HIDE DEF S
      <4> QED  BY <3>2, <4>1, <4>2, AncestorIsHighest DEF S
    <3> HIDE DEF final, est
    <3> QED  BY <1>1, <1>4, <2>2, <3>3, <3>4, <3>5 DEF IsUpdate
  <2> QED  BY <2>1, <2>2
<1> QED  BY <1>3, <1>4

\* The update of the prevote-GHOST: searched again when there are enough prevotes.
LEMMA PrevoteGhostFacts ==
    ASSUME NEW r, RoundFits(r), GhostFits(r, "prevote", r.prevote_ghost), NEW u \in UpdatePrevoteGhost(r)
    PROVE  /\ SameVotes(r, u) /\ GhostFits(r, "prevote", u.prevote_ghost)
           /\ u.precommit_ghost = r.precommit_ghost /\ u.finalized = r.finalized
           /\ u.estimate = r.estimate /\ u.completable = r.completable
           /\ IF ~(SumOfWeights[Abstract!Voted(FirstTarget(r.prevote))] < Abstract!Threshold)
              THEN u.prevote_ghost \in Abstract!Ghosts(FirstTarget(r.prevote), FirstTarget(r.precommit),
                                                       FirstTarget(r.prevote), TwoVotes(r.prevote))
              ELSE u.prevote_ghost = r.prevote_ghost
<1>1. r.prevote.current_weight >= Voters.threshold
          <=> ~(SumOfWeights[Abstract!Voted(FirstTarget(r.prevote))] < Abstract!Threshold)
  BY EnoughFacts, PhaseFacts, RoundPhases
<1>2. CASE r.prevote.current_weight >= Voters.threshold
  <2>1. PICK g \in FindGhosts(r.graph, r.prevote_ghost, Supermajority(r, "prevote")) :
            u = [r EXCEPT !.prevote_ghost = g]
    BY <1>2 DEF UpdatePrevoteGhost
  <2>2. /\ SameVotes(r, u) /\ u.prevote_ghost = g
        /\ u.precommit_ghost = r.precommit_ghost /\ u.finalized = r.finalized
        /\ u.estimate = r.estimate /\ u.completable = r.completable
    BY <2>1 DEF RoundFits, SameVotes
  <2>3. /\ g \in Abstract!Ghosts(FirstTarget(r.prevote), FirstTarget(r.precommit),
                                 FirstTarget(r["prevote"]), TwoVotes(r["prevote"]))
        /\ GhostFits(r, "prevote", g)
    BY SearchIsGhosts, PhaseFacts
  <2> QED  BY <1>1, <1>2, <2>2, <2>3, RoundPhases
<1>3. CASE ~(r.prevote.current_weight >= Voters.threshold)
  <2>1. u = r
    BY <1>3 DEF UpdatePrevoteGhost
  <2>2. SameVotes(r, r)
    BY DEF RoundFits, SameVotes
  <2> QED  BY <1>1, <1>3, <2>1, <2>2
<1> QED  BY <1>2, <1>3

\* precommit_ghost likewise.
LEMMA PrecommitGhostFacts ==
    ASSUME NEW r, RoundFits(r), GhostFits(r, "precommit", r.precommit_ghost), NEW u \in CachePrecommitGhost(r)
    PROVE  \/ u = r
           \/ /\ SameVotes(r, u) /\ GhostFits(r, "precommit", u.precommit_ghost)
              /\ u.prevote_ghost = r.prevote_ghost /\ u.finalized = r.finalized
              /\ u.estimate = r.estimate /\ u.completable = r.completable
              /\ ~(SumOfWeights[Abstract!Voted(FirstTarget(r.precommit))] < Abstract!Threshold)
              /\ u.precommit_ghost \in
                     Abstract!Ghosts(FirstTarget(r.prevote), FirstTarget(r.precommit),
                                     FirstTarget(r.precommit), TwoVotes(r.precommit))
<1>1. r.precommit.current_weight >= Voters.threshold
          <=> ~(SumOfWeights[Abstract!Voted(FirstTarget(r.precommit))] < Abstract!Threshold)
  BY EnoughFacts, PhaseFacts, RoundPhases
<1>2. CASE r.precommit.current_weight >= Voters.threshold
  <2>1. PICK g \in FindGhosts(r.graph, r.precommit_ghost, Supermajority(r, "precommit")) :
            u = [r EXCEPT !.precommit_ghost = g]
    BY <1>2 DEF CachePrecommitGhost
  <2>2. /\ SameVotes(r, u) /\ u.precommit_ghost = g
        /\ u.prevote_ghost = r.prevote_ghost /\ u.finalized = r.finalized
        /\ u.estimate = r.estimate /\ u.completable = r.completable
    BY <2>1 DEF RoundFits, SameVotes
  <2>3. /\ g \in Abstract!Ghosts(FirstTarget(r.prevote), FirstTarget(r.precommit),
                                 FirstTarget(r["precommit"]), TwoVotes(r["precommit"]))
        /\ GhostFits(r, "precommit", g)
    BY SearchIsGhosts, PhaseFacts
  <2> QED  BY <1>1, <1>2, <2>2, <2>3, RoundPhases
<1>3. CASE ~(r.precommit.current_weight >= Voters.threshold)
  BY <1>3 DEF CachePrecommitGhost
<1> QED  BY <1>2, <1>3

-----------------------------------------------------------------------------
(* A vote is recorded *)

LEMMA SeqLength ==
    ASSUME NEW S, NEW s \in Seq(S)
    PROVE  Len(s) \in Nat /\ (s = <<>> <=> Len(s) = 0)
  BY EmptySeq, LenProperties

\* add_vote: a first ballot counts, a second one makes an equivocation, and nothing else is kept.
LEMMA AddVoteCases ==
    ASSUME NEW t, TrackerFits(t), NEW id \in Ids, NEW ballot \in Ballot
    PROVE  LET held  == t.votes[id]
               added == AddVote(t, id, ballot)
           IN  \/ /\ held = <<>> /\ added.kind = "single"
                  /\ TrackerFits(added.tracker)
                  /\ added.tracker.votes = [t.votes EXCEPT ![id] = <<ballot>>]
               \/ /\ Len(held) = 1 /\ held # <<>> /\ ballot # held[1] /\ added.kind = "equivocation"
                  /\ TrackerFits(added.tracker)
                  /\ added.tracker.votes = [t.votes EXCEPT ![id] = Append(held, ballot)]
               \/ /\ held # <<>> /\ added.kind \in {"duplicated", "ignored"}
                  /\ ballot \in ToSet(held) \/ Len(held) = 2
<1> DEFINE held == t.votes[id]
           added == AddVote(t, id, ballot)
           voted == [t EXCEPT !.votes[id] = Append(@, ballot)]
           weight == SatAdd(t.current_weight, WeightOfVoter(Voters, id))
           Voted(f) == {i \in Ids : f[i] # <<>>}
<1>1. /\ t = [votes |-> t.votes, current_weight |-> t.current_weight]
      /\ t.votes \in [Ids -> Seq(Ballot)] /\ \A i \in Ids : Len(t.votes[i]) <= 2
      /\ \A i \in Ids : Len(t.votes[i]) = 2 => t.votes[i][1] # t.votes[i][2]
      /\ t.current_weight = SumOfWeights[Voted(t.votes)]
  BY DEF TrackerFits
<1>2. held \in Seq(Ballot) /\ Len(held) \in 0 .. 2 /\ (held = <<>> <=> Len(held) = 0)
  <2>1. held \in Seq(Ballot) /\ Len(held) <= 2
    BY <1>1
  <2>2. Len(held) \in Nat /\ (held = <<>> <=> Len(held) = 0)
    BY <2>1, SeqLength
  <2> HIDE DEF held
  <2>3. Len(held) \in 0 .. 2
    <3> DEFINE n == Len(held)
    <3>1. n \in Nat /\ n <= 2
      BY <2>1, <2>2
    <3> HIDE DEF n
    <3>2. n \in 0 .. 2
      BY <3>1
    <3> QED  BY <3>2 DEF n
  <2> QED  BY <2>1, <2>2, <2>3
<1>3. /\ voted.votes = [t.votes EXCEPT ![id] = Append(held, ballot)]
      /\ voted = [votes |-> voted.votes, current_weight |-> voted.current_weight]
      /\ voted.current_weight = t.current_weight
  <2>1. PICK f, w : t = [votes |-> f, current_weight |-> w]
    BY <1>1
  <2>2. t.votes = f /\ t.current_weight = w
    BY <2>1
  <2>3. voted = [votes |-> [f EXCEPT ![id] = Append(f[id], ballot)], current_weight |-> w]
    BY <2>1
  <2> HIDE DEF voted
  <2> QED  BY <2>2, <2>3
<1>4. /\ Append(held, ballot) \in Seq(Ballot) /\ Append(held, ballot) # <<>>
      /\ Len(Append(held, ballot)) = Len(held) + 1
  BY <1>2, SMTT(30)
<1>5. voted.votes \in [Ids -> Seq(Ballot)]
  BY <1>1, <1>3, <1>4
<1>6. CASE held = <<>>
  <2>1. added.kind = "single" /\ added.tracker = [voted EXCEPT !.current_weight = weight]
    <3>1. [voted EXCEPT !.current_weight = SatAdd(@, WeightOfVoter(Voters, id))]
              = [voted EXCEPT !.current_weight = weight]
      BY <1>3
    <3>2. added = [tracker |-> [voted EXCEPT !.current_weight = SatAdd(@, WeightOfVoter(Voters, id))],
                   kind    |-> "single"]
      BY <1>6 DEF AddVote, ToSet
    <3> HIDE DEF added, voted, weight
    <3> QED  BY <3>1, <3>2
  <2>2. Append(held, ballot) = <<ballot>> /\ Len(<<ballot>>) = 1
    BY <1>6
  <2>3. /\ added.tracker.votes = voted.votes /\ added.tracker.current_weight = weight
        /\ added.tracker = [votes |-> added.tracker.votes, current_weight |-> added.tracker.current_weight]
    BY <1>3, <2>1
  <2>4. Voted(voted.votes) = Voted(t.votes) \union {id} /\ id \notin Voted(t.votes)
    BY <1>1, <1>3, <1>4, <1>6
  <2>5. weight = SumOfWeights[Voted(voted.votes)]
    <3>1. Voted(t.votes) \in SUBSET Ids
      OBVIOUS
    <3> DEFINE S == Voted(t.votes)
    <3>2. /\ SumOfWeights[S \union {id}] = SumOfWeights[S] + WeightOfVoter(Voters, id)
          /\ SumOfWeights[S \union {id}] <= MaxWeight
      <4>1. S \in SUBSET Ids /\ S \union {id} \in SUBSET Ids /\ id \in Ids \ S
        BY <2>4
      <4> HIDE DEF S
      <4>2. SumOfWeights[S \union {id}] = SumOfWeights[S] + WeightOfVoter(Voters, id)
        BY <4>1, WeightsAdd
      <4>3. SumOfWeights[S \union {id}] \in Nat /\ SumOfWeights[S \union {id}] <= Voters.total_weight
        BY <4>1, WeightsAdd
      <4> QED  BY <4>2, <4>3, WeightsAdd, MaxWeightAssumption
    <3>3. ~(SumOfWeights[S] + WeightOfVoter(Voters, id) > MaxWeight)
      <4>1. SumOfWeights[S \union {id}] \in Nat
        BY <2>4, WeightsAdd
      <4> QED  BY <3>2, <4>1, MaxWeightAssumption
    <3> QED  BY <1>1, <2>4, <3>2, <3>3 DEF SatAdd
  <2>6. /\ \A i \in Ids : Len(voted.votes[i]) <= 2
        /\ \A i \in Ids : Len(voted.votes[i]) = 2 => voted.votes[i][1] # voted.votes[i][2]
    BY <1>1, <1>3, <2>2
  <2>7. TrackerFits(added.tracker)
    BY <1>5, <2>3, <2>5, <2>6 DEF TrackerFits
  <2> QED  BY <1>3, <1>6, <2>1, <2>2, <2>3, <2>7
<1>7. CASE held # <<>> /\ (ballot \in ToSet(held) \/ Len(held) = 2)
  BY <1>7 DEF AddVote
<1>8. CASE held # <<>> /\ ballot \notin ToSet(held) /\ Len(held) # 2
  <2>1. added.kind = "equivocation" /\ added.tracker = voted
    BY <1>8 DEF AddVote
  <2>2. Len(held) = 1
    BY <1>2, <1>8
  <2>3. ballot # held[1]
    BY <1>2, <1>8, <2>2 DEF ToSet
  <2>4. Voted(voted.votes) = Voted(t.votes)
    BY <1>1, <1>3, <1>4, <1>8
  <2>5. /\ \A i \in Ids : Len(voted.votes[i]) <= 2
        /\ \A i \in Ids : Len(voted.votes[i]) = 2 => voted.votes[i][1] # voted.votes[i][2]
    <3>1. Append(held, ballot)[1] = held[1] /\ Append(held, ballot)[2] = ballot
      BY <1>2, <2>2, AppendProperties
    <3>2. voted.votes[id] = Append(held, ballot) /\ \A i \in Ids : i # id => voted.votes[i] = t.votes[i]
      BY <1>1, <1>3
    <3>3. ASSUME NEW i \in Ids
          PROVE  Len(voted.votes[i]) <= 2 /\ (Len(voted.votes[i]) = 2 => voted.votes[i][1] # voted.votes[i][2])
      <4>1. CASE i = id
        <5>1. Len(Append(held, ballot)) = 2
          BY <1>4, <2>2
        <5> HIDE DEF voted, held
        <5> QED  BY <2>3, <3>1, <3>2, <4>1, <5>1
      <4>2. CASE i # id
        <5> HIDE DEF voted
        <5> QED  BY <1>1, <3>2, <4>2
      <4> QED  BY <4>1, <4>2
    <3> QED  BY <3>3
  <2>6. TrackerFits(voted)
    BY <1>1, <1>3, <1>5, <2>4, <2>5 DEF TrackerFits
  <2> QED  BY <1>3, <1>8, <2>1, <2>2, <2>3, <2>6
<1> QED  BY <1>6, <1>7, <1>8

\* The round with other votes.
RoundOf(g, v, c, e, h, r) ==
    [graph            |-> g,
     prevote          |-> v,
     precommit        |-> c,
     equivocations    |-> e,
     historical_votes |-> h,
     prevote_ghost    |-> r.prevote_ghost,
     precommit_ghost  |-> r.precommit_ghost,
     finalized        |-> r.finalized,
     estimate         |-> r.estimate,
     completable      |-> r.completable]

\* The round with another tracker of the phase, vote graph, equivocations and history.
WithVotes(r, phase, t, g, e, h) ==
    RoundOf(g, IF phase = "prevote" THEN t ELSE r.prevote, IF phase = "precommit" THEN t ELSE r.precommit, e, h, r)

LEMMA WithVotesFacts ==
    ASSUME NEW r, RoundFits(r), NEW phase \in Phase, NEW t, NEW g, NEW e, NEW h
    PROVE  LET n == WithVotes(r, phase, t, g, e, h)
           IN  /\ n[phase] = t /\ \A ph \in Phase : ph # phase => n[ph] = r[ph]
               /\ n["prevote"] = n.prevote /\ n["precommit"] = n.precommit
               /\ n.graph = g /\ n.equivocations = e /\ n.historical_votes = h
               /\ n.prevote_ghost = r.prevote_ghost /\ n.precommit_ghost = r.precommit_ghost
               /\ n.finalized = r.finalized /\ n.estimate = r.estimate /\ n.completable = r.completable
<1>1. CASE phase = "prevote"
  BY <1>1, PhaseFacts, RoundPhases DEF WithVotes, RoundOf
<1>2. CASE phase = "precommit"
  BY <1>2, PhaseFacts, RoundPhases DEF WithVotes, RoundOf
<1> QED  BY <1>1, <1>2, PhaseFacts

LEMMA TrackerReplaced ==
    ASSUME NEW r, RoundFits(r), NEW phase \in Phase, NEW t
    PROVE  [r EXCEPT ![phase] = t] = WithVotes(r, phase, t, r.graph, r.equivocations, r.historical_votes)
<1>1. r = RoundOf(r.graph, r.prevote, r.precommit, r.equivocations, r.historical_votes, r)
  BY DEF RoundFits, RoundOf
<1>2. /\ [r EXCEPT !["prevote"] = t] = RoundOf(r.graph, t, r.precommit, r.equivocations, r.historical_votes, r)
      /\ [r EXCEPT !["precommit"] = t] = RoundOf(r.graph, r.prevote, t, r.equivocations, r.historical_votes, r)
  <2> DEFINE n == RoundOf(r.graph, r.prevote, r.precommit, r.equivocations, r.historical_votes, r)
  <2>1. [n EXCEPT !["prevote"] = t] = RoundOf(r.graph, t, r.precommit, r.equivocations, r.historical_votes, r)
    BY DEF RoundOf
  <2>2. [n EXCEPT !["precommit"] = t] = RoundOf(r.graph, r.prevote, t, r.equivocations, r.historical_votes, r)
    BY DEF RoundOf
  <2> HIDE DEF n
  <2>3. r = n
    BY <1>1 DEF n
  <2> QED  BY <2>1, <2>2, <2>3
<1>3. CASE phase = "prevote"
  BY <1>2, <1>3 DEF WithVotes
<1>4. CASE phase = "precommit"
  BY <1>2, <1>4 DEF WithVotes
<1> QED  BY <1>3, <1>4, PhaseFacts

\* The vote graph refuses what does not descend from its base.
LEMMA InsertableFacts ==
    ASSUME NEW r, RoundFits(r), NEW b \in Block
    PROVE  CanInsert(r.graph, b) <=> Base \in Ancestors[b]
<1>1. IsVoteGraph(r.graph, Cast(r)) /\ r.graph.base = Base
  BY DEF RoundFits
<1>2. ASSUME b \in DOMAIN r.graph.entries PROVE Base \in Ancestors[b]
  BY <1>1, <1>2, GraphFacts
<1>3. ASSUME b \notin DOMAIN r.graph.entries, ContainingNodes(r.graph, b) # {} PROVE Base \in Ancestors[b]
  <2>1. IsGraph(r.graph)
    BY <1>1, GraphFacts
  <2> QED  BY <1>1, <1>3, <2>1, ContainingFacts
<1> QED  BY <1>1, <1>2, <1>3 DEF CanInsert, IsNode, IsEqualOrDescendentOf

Seen(phase, id, ballot) == [phase |-> phase, id |-> id, ballot |-> ballot]

\* The history with one vote more.
Pushed(r, phase, id, ballot) == [r.historical_votes EXCEPT !.seen = Append(@, Seen(phase, id, ballot))]

\* What becomes of a vote: it changes nothing, is refused by the vote graph after it was
\* counted, is placed, or is an equivocation.
NotNew(r, phase, id, ballot) ==
    LET held == r[phase].votes[id]
    IN  id \in Ids => held # <<>> /\ (ballot \in ToSet(held) \/ Len(held) = 2)

NotRecorded(r, n, kind, phase, id, ballot) ==
    n = r /\ ~Recorded(kind) /\ kind # "refused" /\ NotNew(r, phase, id, ballot)

Refused(r, n, kind, phase, id, ballot) ==
    /\ ~Recorded(kind) /\ r[phase].votes[id] = <<>> /\ Base \notin Ancestors[ballot.target]
    /\ n = WithVotes(r, phase, n[phase], r.graph, r.equivocations, r.historical_votes)
    /\ TrackerFits(n[phase]) /\ n[phase].votes = [r[phase].votes EXCEPT ![id] = <<ballot>>]

PlacedOne(r, n, kind, phase, id, ballot) ==
    /\ Recorded(kind) /\ r[phase].votes[id] = <<>> /\ Base \in Ancestors[ballot.target]
    /\ n = WithVotes(r, phase, n[phase], Insert(r.graph, ballot.target, VoteBit(Voters, id, phase)),
                     r.equivocations, Pushed(r, phase, id, ballot))
    /\ TrackerFits(n[phase]) /\ n[phase].votes = [r[phase].votes EXCEPT ![id] = <<ballot>>]

Equivocated(r, n, kind, phase, id, ballot) ==
    LET held == r[phase].votes[id]
    IN  /\ Recorded(kind) /\ Len(held) = 1 /\ held # <<>> /\ ballot # held[1]
        /\ n = WithVotes(r, phase, n[phase], r.graph,
                         r.equivocations \union {VoteBit(Voters, id, phase)}, Pushed(r, phase, id, ballot))
        /\ TrackerFits(n[phase]) /\ n[phase].votes = [r[phase].votes EXCEPT ![id] = Append(held, ballot)]

LEMMA RecordVoteCases ==
    ASSUME NEW r, RoundFits(r), NEW phase \in Phase, NEW id, NEW ballot \in Ballot
    PROVE  LET recorded == RecordVote(r, phase, id, ballot)
               n        == recorded.round
               kind     == recorded.kind
           IN  \/ NotRecorded(r, n, kind, phase, id, ballot)
               \/ id \in Ids /\ Refused(r, n, kind, phase, id, ballot)
               \/ id \in Ids /\ PlacedOne(r, n, kind, phase, id, ballot)
               \/ id \in Ids /\ Equivocated(r, n, kind, phase, id, ballot)
<1> DEFINE recorded == RecordVote(r, phase, id, ballot)
           added == AddVote(r[phase], id, ballot)
           tracked == WithVotes(r, phase, added.tracker, r.graph, r.equivocations, r.historical_votes)
           bit == VoteBit(Voters, id, phase)
           held == r[phase].votes[id]
<1>1. ContainsVoter(Voters, id) <=> id \in Ids
  BY DEF ContainsVoter, VoterIds, Ids
<1>2. CASE id \notin Ids
  <2>1. recorded = [round |-> r, kind |-> "unknown"]
    BY <1>1, <1>2 DEF RecordVote
  <2> QED  BY <1>2, <2>1 DEF NotRecorded, NotNew, Recorded
<1>3. CASE id \in Ids
  <2> DEFINE result(n, kind) == [round |-> n, kind |-> kind]
             n1 == PushVote([tracked EXCEPT !.equivocations = @ \union {bit}], phase, id, ballot)
             n2 == PushVote([tracked EXCEPT !.graph = Insert(@, ballot.target, bit)], phase, id, ballot)
  <2>1. [r EXCEPT ![phase] = added.tracker] = tracked
    BY TrackerReplaced
  <2>2. recorded = CASE added.kind = "equivocation" -> result(n1, "equivocation")
                     [] added.kind = "single" -> IF CanInsert(r.graph, ballot.target)
                                                 THEN result(n2, "single") ELSE result(tracked, "refused")
                     [] OTHER -> result(r, added.kind)
    BY <1>1, <1>3, <2>1 DEF RecordVote
  <2> DEFINE v == IF phase = "prevote" THEN added.tracker ELSE r.prevote
             c == IF phase = "precommit" THEN added.tracker ELSE r.precommit
             x == Seen(phase, id, ballot)
             S == Insert(r.graph, ballot.target, bit)
             h == r.historical_votes
  <2>3. tracked = RoundOf(r.graph, v, c, r.equivocations, h, r)
    BY DEF WithVotes
  <2>4. PushVote([tracked EXCEPT !.equivocations = @ \union {bit}], phase, id, ballot)
            = RoundOf(r.graph, v, c, r.equivocations \union {bit}, [h EXCEPT !.seen = Append(@, x)], r)
    <3> HIDE DEF v, c, h, x, bit
    <3> DEFINE o == RoundOf(r.graph, v, c, r.equivocations, h, r)
               n == RoundOf(r.graph, v, c, r.equivocations \union {bit}, h, r)
    <3>1. [o EXCEPT !.equivocations = o.equivocations \union {bit}] = n
      BY DEF RoundOf
    <3>2. /\ n.historical_votes = h
          /\ [n EXCEPT !.historical_votes = [h EXCEPT !.seen = Append(@, x)]]
                 = RoundOf(r.graph, v, c, r.equivocations \union {bit}, [h EXCEPT !.seen = Append(@, x)], r)
      <4> DEFINE y == [h EXCEPT !.seen = Append(@, x)]
      <4>1. n.historical_votes = h
        BY DEF RoundOf
      <4> HIDE DEF y
      <4>2. [n EXCEPT !.historical_votes = y] = RoundOf(r.graph, v, c, r.equivocations \union {bit}, y, r)
        BY DEF RoundOf
      <4> QED  BY <4>1, <4>2 DEF y
    <3>3. tracked = o
      BY <2>3
    <3> HIDE DEF o, n, tracked
    <3> QED  BY <3>1, <3>2, <3>3 DEF PushVote, Seen, x
  <2>5. PushVote([tracked EXCEPT !.graph = Insert(@, ballot.target, bit)], phase, id, ballot)
            = RoundOf(S, v, c, r.equivocations, [h EXCEPT !.seen = Append(@, x)], r)
    <3> HIDE DEF v, c, h, x, bit
    <3> DEFINE o == RoundOf(r.graph, v, c, r.equivocations, h, r)
               n == RoundOf(S, v, c, r.equivocations, h, r)
    <3>1. [o EXCEPT !.graph = S] = n
      BY DEF RoundOf
    <3>2. /\ n.historical_votes = h
          /\ [n EXCEPT !.historical_votes = [h EXCEPT !.seen = Append(@, x)]]
                 = RoundOf(S, v, c, r.equivocations, [h EXCEPT !.seen = Append(@, x)], r)
      <4> DEFINE y == [h EXCEPT !.seen = Append(@, x)]
      <4>1. n.historical_votes = h
        BY DEF RoundOf
      <4> HIDE DEF y
      <4>2. [n EXCEPT !.historical_votes = y] = RoundOf(S, v, c, r.equivocations, y, r)
        BY DEF RoundOf
      <4> QED  BY <4>1, <4>2 DEF y
    <3>3. tracked = o /\ o.graph = r.graph
      BY <2>3 DEF RoundOf
    <3> HIDE DEF o, n, tracked
    <3> QED  BY <3>1, <3>2, <3>3 DEF PushVote, Seen, x
  <2>6. n1 = WithVotes(r, phase, added.tracker, r.graph, r.equivocations \union {bit}, Pushed(r, phase, id, ballot))
    BY <2>4 DEF WithVotes, Pushed
  <2>7. n2 = WithVotes(r, phase, added.tracker, Insert(r.graph, ballot.target, bit), r.equivocations,
                       Pushed(r, phase, id, ballot))
    BY <2>5 DEF WithVotes, Pushed
  <2>8. tracked[phase] = added.tracker /\ n1[phase] = added.tracker /\ n2[phase] = added.tracker
    BY <2>6, <2>7, WithVotesFacts
  <2>9. TrackerFits(r[phase]) /\ ballot.target \in Block
    BY RoundPhases, BallotFacts
  <2>10. \/ /\ held = <<>> /\ added.kind = "single"
            /\ TrackerFits(added.tracker)
            /\ added.tracker.votes = [r[phase].votes EXCEPT ![id] = <<ballot>>]
         \/ /\ Len(held) = 1 /\ held # <<>> /\ ballot # held[1] /\ added.kind = "equivocation"
            /\ TrackerFits(added.tracker)
            /\ added.tracker.votes = [r[phase].votes EXCEPT ![id] = Append(held, ballot)]
         \/ /\ held # <<>> /\ added.kind \in {"duplicated", "ignored"}
            /\ ballot \in ToSet(held) \/ Len(held) = 2
    BY <1>3, <2>9, AddVoteCases
  <2>11. CanInsert(r.graph, ballot.target) <=> Base \in Ancestors[ballot.target]
    BY <2>9, InsertableFacts
  <2> HIDE DEF recorded, added, tracked, n1, n2, held, bit
  <2>12. CASE added.kind = "single" /\ CanInsert(r.graph, ballot.target)
    <3>1. recorded.round = n2 /\ recorded.kind = "single"
      BY <2>2, <2>12
    <3>2. n2 = WithVotes(r, phase, n2[phase], Insert(r.graph, ballot.target, bit), r.equivocations,
                         Pushed(r, phase, id, ballot))
      BY <2>7, <2>8
    <3> QED  BY <1>3, <2>8, <2>10, <2>11, <2>12, <3>1, <3>2 DEF PlacedOne, Recorded, held, bit, recorded
  <2>13. CASE added.kind = "single" /\ ~CanInsert(r.graph, ballot.target)
    <3>1. recorded.round = tracked /\ recorded.kind = "refused"
      BY <2>2, <2>13
    <3>2. tracked = WithVotes(r, phase, tracked[phase], r.graph, r.equivocations, r.historical_votes)
      BY <2>8 DEF tracked
    <3> QED  BY <1>3, <2>8, <2>10, <2>11, <2>13, <3>1, <3>2 DEF Refused, Recorded, held, recorded
  <2>14. CASE added.kind = "equivocation"
    <3>1. recorded.round = n1 /\ recorded.kind = "equivocation"
      BY <2>2, <2>14
    <3>2. n1 = WithVotes(r, phase, n1[phase], r.graph, r.equivocations \union {bit}, Pushed(r, phase, id, ballot))
      BY <2>6, <2>8
    <3> QED  BY <1>3, <2>8, <2>10, <2>14, <3>1, <3>2 DEF Equivocated, Recorded, held, bit, recorded
  <2>15. CASE /\ held # <<>> /\ added.kind \in {"duplicated", "ignored"}
              /\ ballot \in ToSet(held) \/ Len(held) = 2
    <3>1. recorded.round = r /\ recorded.kind = added.kind
      BY <2>2, <2>15
    <3> QED  BY <2>15, <3>1 DEF NotRecorded, NotNew, Recorded, recorded, held
  <2> QED  BY <2>10, <2>12, <2>13, <2>14, <2>15
<1> QED  BY <1>2, <1>3

\* The targets and equivocators of a tracker with a first ballot more.
LEMMA FirstBallot ==
    ASSUME NEW t, TrackerFits(t), NEW u, TrackerFits(u), NEW id \in Ids, NEW ballot \in Ballot,
           t.votes[id] = <<>>, u.votes = [t.votes EXCEPT ![id] = <<ballot>>]
    PROVE  /\ FirstTarget(t)[id] = None
           /\ FirstTarget(u) = [FirstTarget(t) EXCEPT ![id] = ballot.target]
           /\ TwoVotes(u) = TwoVotes(t)
<1>1. t.votes \in [Ids -> Seq(Ballot)] /\ Len(<<ballot>>) = 1 /\ <<ballot>> # <<>> /\ <<ballot>>[1] = ballot
  BY DEF TrackerFits
<1>2. u.votes[id] = <<ballot>> /\ \A i \in Ids : i # id => u.votes[i] = t.votes[i]
  BY <1>1
<1>3. FirstTarget(u) = [FirstTarget(t) EXCEPT ![id] = ballot.target]
  BY <1>1, <1>2 DEF FirstTarget, Ids
<1>4. id \notin TwoVotes(t) /\ id \notin TwoVotes(u)
  <2>1. Len(t.votes[id]) # 2 /\ Len(u.votes[id]) # 2
    BY <1>1, <1>2
  <2> QED  BY <2>1 DEF TwoVotes
<1>5. TwoVotes(u) = TwoVotes(t)
  BY <1>2, <1>4 DEF TwoVotes, Ids
<1>6. FirstTarget(t)[id] = None
  BY DEF FirstTarget, Ids
<1> QED  BY <1>3, <1>5, <1>6

LEMMA SecondAppended ==
    ASSUME NEW S, NEW s \in Seq(S), Len(s) = 1, NEW x \in S
    PROVE  Len(Append(s, x)) = 2 /\ Append(s, x) # <<>> /\ Append(s, x)[1] = s[1]
<1>1. /\ Append(s, x) \in Seq(S) /\ Len(Append(s, x)) = Len(s) + 1
      /\ \A i \in 1 .. Len(s) : Append(s, x)[i] = s[i]
  BY AppendProperties, SMTT(30)
<1>2. Len(Append(s, x)) = 2 /\ Append(s, x)[1] = s[1]
  BY <1>1
<1> QED  BY <1>1, <1>2, SeqLength

\* The same with a second one.
LEMMA SecondBallot ==
    ASSUME NEW t, TrackerFits(t), NEW u, TrackerFits(u), NEW id \in Ids, NEW ballot \in Ballot,
           Len(t.votes[id]) = 1, t.votes[id] # <<>>, u.votes = [t.votes EXCEPT ![id] = Append(t.votes[id], ballot)]
    PROVE  /\ FirstTarget(t)[id] \in Block /\ id \notin TwoVotes(t)
           /\ FirstTarget(u) = FirstTarget(t)
           /\ TwoVotes(u) = TwoVotes(t) \union {id}
           /\ Append(t.votes[id], ballot) # <<>> /\ Append(t.votes[id], ballot)[1] = t.votes[id][1]
<1> DEFINE w == Append(t.votes[id], ballot)
<1>1. t.votes \in [Ids -> Seq(Ballot)] /\ t.votes[id] \in Seq(Ballot)
  BY DEF TrackerFits
<1>2. Len(w) = 2 /\ w # <<>> /\ w[1] = t.votes[id][1]
  BY <1>1, SecondAppended
<1>3. u.votes[id] = w /\ \A i \in Ids : i # id => u.votes[i] = t.votes[i]
  BY <1>1
<1> HIDE DEF w
<1>4. FirstTarget(u) = FirstTarget(t)
  <2>1. \A i \in Ids : (u.votes[i] = <<>> <=> t.votes[i] = <<>>) /\ (t.votes[i] # <<>> => u.votes[i][1] = t.votes[i][1])
    BY <1>2, <1>3
  <2> QED  BY <2>1 DEF FirstTarget, Ids
<1>5. id \notin TwoVotes(t) /\ id \in TwoVotes(u)
  <2>1. Len(u.votes[id]) = 2
    BY <1>2, <1>3
  <2>2. Len(t.votes[id]) # 2
    OBVIOUS
  <2> QED  BY <2>1, <2>2 DEF TwoVotes, Ids
<1>6. TwoVotes(u) = TwoVotes(t) \union {id}
  BY <1>3, <1>5 DEF TwoVotes, Ids
<1> QED  BY <1>2, <1>4, <1>5, <1>6, FirstFacts DEF w

\* Other ballots of one voter change one vote of the graph.
LEMMA CastChanges ==
    ASSUME NEW r, RoundFits(r), NEW phase \in Phase, NEW id \in Ids, NEW n, NEW w,
           \A ph \in Phase : ph # phase => n[ph] = r[ph],
           n[phase].votes = [r[phase].votes EXCEPT ![id] = w]
    PROVE  Cast(n) = [Cast(r) EXCEPT ![VoteBit(Voters, id, phase)] = Placed(w)]
<1> DEFINE bit == VoteBit(Voters, id, phase)
<1>1. r[phase].votes \in [Ids -> Seq(Ballot)]
  BY RoundPhases DEF TrackerFits
<1>2. n[phase].votes[id] = w /\ \A i \in Ids : i # id => n[phase].votes[i] = r[phase].votes[i]
  BY <1>1
<1>3. bit \in AllBits(Voters) /\ bit % 2 = Parity(phase) /\ VoterOfBit(Voters, bit).id = id
  BY BitFacts, RoundVotersAssumption DEF Ids
<1>4. ASSUME NEW p \in AllBits(Voters)
      PROVE  Cast(n)[p] = IF p = bit THEN Placed(w) ELSE Cast(r)[p]
  <2> DEFINE v == VoterOfBit(Voters, p).id
             ph == PhaseOf(p)
  <2>1. p \in Nat
    BY DEF AllBits
  <2>2. ph \in Phase /\ v \in Ids /\ p = VoteBit(Voters, v, ph)
    <3>1. ph \in Phase /\ p % 2 = Parity(ph)
      BY <2>1, PhaseFacts
    <3> QED  BY <3>1, BitFacts, RoundVotersAssumption DEF Ids
  <2>3. Cast(n)[p] = Placed(n[ph].votes[v]) /\ Cast(r)[p] = Placed(r[ph].votes[v])
    BY DEF Cast
  <2>4. CASE p = bit
    <3>1. v = id
      BY <1>3, <2>4
    <3>2. ph = phase
      BY <1>3, <2>1, <2>4, PhaseFacts
    <3> QED  BY <1>2, <2>3, <2>4, <3>1, <3>2
  <2>5. CASE p # bit
    <3>1. ph # phase \/ v # id
      BY <2>2, <2>5
    <3> HIDE DEF v, ph
    <3>2. n[ph].votes[v] = r[ph].votes[v]
      BY <1>2, <2>2, <3>1
    <3> QED  BY <2>3, <2>5, <3>2
  <2> QED  BY <2>4, <2>5
<1> QED  BY <1>3, <1>4 DEF Cast

\* The bits of two votes differ.
LEMMA BitsDiffer ==
    ASSUME NEW phase \in Phase, NEW id \in Ids, NEW ph \in Phase, NEW i \in Ids,
           VoteBit(Voters, i, ph) = VoteBit(Voters, id, phase)
    PROVE  i = id /\ ph = phase
<1> DEFINE p == VoteBit(Voters, id, phase)
<1>1. /\ p \in AllBits(Voters) /\ p % 2 = Parity(phase) /\ VoterOfBit(Voters, p).id = id
      /\ p % 2 = Parity(ph) /\ VoterOfBit(Voters, p).id = i
  BY BitFacts, RoundVotersAssumption DEF Ids
<1>2. p \in Nat
  BY <1>1 DEF AllBits
<1> HIDE DEF p
<1> QED  BY <1>1, <1>2, PhaseFacts

\* A round with other votes fits, if its tracker, its graph and its equivocations do.
LEMMA WithVotesFit ==
    ASSUME NEW r, RoundFits(r), NEW phase \in Phase, NEW t, TrackerFits(t), NEW g, NEW e, NEW h, NEW n,
           n = WithVotes(r, phase, t, g, e, h),
           e \in SUBSET AllBits(Voters),
           \A ph \in Phase : \A i \in Ids : VoteBit(Voters, i, ph) \in e <=> i \in TwoVotes(n[ph]),
           IsVoteGraph(g, Cast(n)), g.base = Base,
           \A b \in DOMAIN g.entries : b = Base \/ \E p \in AllBits(Voters) : Cast(n)[p] = b
    PROVE  RoundFits(n)
<1>1. n = [graph            |-> n.graph,
           prevote          |-> n.prevote,
           precommit        |-> n.precommit,
           equivocations    |-> n.equivocations,
           historical_votes |-> n.historical_votes,
           prevote_ghost    |-> n.prevote_ghost,
           precommit_ghost  |-> n.precommit_ghost,
           finalized        |-> n.finalized,
           estimate         |-> n.estimate,
           completable      |-> n.completable]
  <2> DEFINE v == IF phase = "prevote" THEN t ELSE r.prevote
             c == IF phase = "precommit" THEN t ELSE r.precommit
  <2>1. n = RoundOf(g, v, c, e, h, r)
    BY DEF WithVotes
  <2> HIDE DEF v, c
  <2> QED  BY <2>1 DEF RoundOf
<1>2. n.graph = g /\ n.equivocations = e /\ n[phase] = t /\ \A ph \in Phase : ph # phase => n[ph] = r[ph]
  BY WithVotesFacts
<1>3. TrackerFits(n["prevote"]) /\ TrackerFits(n["precommit"])
  BY <1>2, PhaseFacts, RoundPhases
<1>4. n["prevote"] = n.prevote /\ n["precommit"] = n.precommit
  BY WithVotesFacts
<1> QED  BY <1>1, <1>2, <1>3, <1>4 DEF RoundFits

\* A first vote, placed or refused.
LEMMA RefusedFits ==
    ASSUME NEW r, RoundFits(r), NEW phase \in Phase, NEW id \in Ids, NEW ballot \in Ballot, NEW n, NEW kind,
           Refused(r, n, kind, phase, id, ballot)
    PROVE  RoundFits(n)
<1> DEFINE bit == VoteBit(Voters, id, phase)
           t == n[phase]
<1>1. /\ n = WithVotes(r, phase, t, r.graph, r.equivocations, r.historical_votes) /\ TrackerFits(t)
      /\ t.votes = [r[phase].votes EXCEPT ![id] = <<ballot>>] /\ r[phase].votes[id] = <<>>
      /\ Base \notin Ancestors[ballot.target]
  BY DEF Refused
<1>2. \A ph \in Phase : ph # phase => n[ph] = r[ph]
  BY <1>1, WithVotesFacts
<1>3. bit \in AllBits(Voters)
  BY BitFacts, RoundVotersAssumption DEF Ids
<1>4. Placed(<<ballot>>) = None /\ Placed(<<>>) = None
  BY <1>1 DEF Placed, IsEqualOrDescendentOf
<1>5. Cast(n) = Cast(r)
  <2>1. Cast(n) = [Cast(r) EXCEPT ![bit] = Placed(<<ballot>>)]
    BY <1>1, <1>2, CastChanges
  <2>2. Cast(r)[bit] = None /\ DOMAIN Cast(r) = AllBits(Voters)
    BY <1>1, <1>4, RoundPhases
  <2>3. Cast(r) = [p \in AllBits(Voters) |-> Cast(r)[p]]
    BY DEF Cast
  <2> QED  BY <1>3, <1>4, <2>1, <2>2, <2>3
<1>6. TrackerFits(r[phase]) /\ TwoVotes(t) = TwoVotes(r[phase])
  BY <1>1, FirstBallot, RoundPhases
<1>7. \A ph \in Phase : TwoVotes(n[ph]) = TwoVotes(r[ph])
  BY <1>2, <1>6
<1>8. /\ r.equivocations \in SUBSET AllBits(Voters)
      /\ \A ph \in Phase : \A i \in Ids : VoteBit(Voters, i, ph) \in r.equivocations <=> i \in TwoVotes(n[ph])
      /\ IsVoteGraph(r.graph, Cast(n)) /\ r.graph.base = Base
      /\ \A b \in DOMAIN r.graph.entries : b = Base \/ \E p \in AllBits(Voters) : Cast(n)[p] = b
  BY <1>5, <1>7 DEF RoundFits
<1> HIDE DEF t
<1> QED  BY <1>1, <1>8, WithVotesFit

LEMMA PlacedFits ==
    ASSUME NEW r, RoundFits(r), NEW phase \in Phase, NEW id \in Ids, NEW ballot \in Ballot, NEW n, NEW kind,
           PlacedOne(r, n, kind, phase, id, ballot)
    PROVE  RoundFits(n)
<1> DEFINE bit == VoteBit(Voters, id, phase)
           t == n[phase]
           g == Insert(r.graph, ballot.target, bit)
           h == Pushed(r, phase, id, ballot)
<1>1. /\ n = WithVotes(r, phase, t, g, r.equivocations, h) /\ TrackerFits(t)
      /\ t.votes = [r[phase].votes EXCEPT ![id] = <<ballot>>] /\ r[phase].votes[id] = <<>>
      /\ Base \in Ancestors[ballot.target] /\ ballot.target \in Block
  BY BallotFacts DEF PlacedOne
<1>2. \A ph \in Phase : ph # phase => n[ph] = r[ph]
  BY <1>1, WithVotesFacts
<1>3. bit \in AllBits(Voters)
  BY BitFacts, RoundVotersAssumption DEF Ids
<1>4. Placed(<<ballot>>) = ballot.target /\ Placed(<<>>) = None
  BY <1>1 DEF Placed, IsEqualOrDescendentOf
<1>5. Cast(n) = [Cast(r) EXCEPT ![bit] = ballot.target]
  BY <1>1, <1>2, <1>4, CastChanges
<1>6. Cast(r)[bit] = None /\ DOMAIN Cast(r) = AllBits(Voters)
  BY <1>1, <1>4, RoundPhases
<1>7. TrackerFits(r[phase]) /\ TwoVotes(t) = TwoVotes(r[phase])
  BY <1>1, FirstBallot, RoundPhases
<1>8. \A ph \in Phase : TwoVotes(n[ph]) = TwoVotes(r[ph])
  BY <1>2, <1>7
<1>9. /\ IsVoteGraph(r.graph, Cast(r)) /\ r.graph.base = Base
      /\ \A b \in DOMAIN r.graph.entries : b = Base \/ \E p \in AllBits(Voters) : Cast(r)[p] = b
  BY DEF RoundFits
<1>10. /\ IsGraph(g) /\ RecordsFit(g) /\ VotesFit(g, Cast(n))
       /\ DOMAIN g.entries = DOMAIN r.graph.entries \union {ballot.target} /\ g.base = r.graph.base
  <2>1. CanInsert(r.graph, ballot.target)
    BY <1>1, InsertableFacts
  <2>2. bit \in DOMAIN Cast(r)
    BY <1>3, <1>6
  <2>3. /\ IsGraph(r.graph) /\ RecordsFit(r.graph) /\ VotesFit(r.graph, Cast(r))
        /\ Cast(r) \in [DOMAIN Cast(r) -> OptionBlock]
    BY <1>9 DEF IsVoteGraph
  <2> DEFINE b == ballot.target
             c == Cast(r)
             o == r.graph
  <2>4. b \in Block /\ c[bit] = None /\ Cast(n) = [c EXCEPT ![bit] = b] /\ g = Insert(o, b, bit)
    BY <1>1, <1>5, <1>6
  <2> HIDE DEF bit, b, c, o, g
  <2>5. /\ IsGraph(Insert(o, b, bit)) /\ RecordsFit(Insert(o, b, bit))
        /\ VotesFit(Insert(o, b, bit), [c EXCEPT ![bit] = b])
        /\ DOMAIN Insert(o, b, bit).entries = DOMAIN o.entries \union {b} /\ Insert(o, b, bit).base = o.base
    <3>1. /\ IsGraph(o) /\ RecordsFit(o) /\ VotesFit(o, c) /\ c \in [DOMAIN c -> OptionBlock]
          /\ bit \in DOMAIN c /\ CanInsert(o, b) /\ b \in Block /\ c[bit] = None
      BY <2>1, <2>2, <2>3, <2>4 DEF b, c, o
    <3>2. LET m == Insert(o, b, bit)
          IN  /\ IsGraph(m) /\ RecordsFit(m) /\ VotesFit(m, [c EXCEPT ![bit] = b])
              /\ DOMAIN m.entries = DOMAIN o.entries \union {b} /\ m.base = o.base
      BY ONLY <3>1, InsertFits
    <3> QED  BY <3>2
  <2> QED  BY <2>4, <2>5 DEF b, o
<1>11. IsVoteGraph(g, Cast(n))
  <2>1. Cast(r) \in [DOMAIN Cast(r) -> OptionBlock]
    BY <1>9 DEF IsVoteGraph
  <2>2. ballot.target \in OptionBlock
    BY <1>1 DEF OptionBlock
  <2> HIDE DEF bit
  <2>3. Cast(n) \in [DOMAIN Cast(n) -> OptionBlock]
    BY <1>5, <2>1, <2>2
  <2> QED  BY <1>10, <2>3 DEF IsVoteGraph
<1> HIDE DEF g, h, bit, t
<1>12. ASSUME NEW b \in DOMAIN g.entries PROVE b = Base \/ \E p \in AllBits(Voters) : Cast(n)[p] = b
  <2>1. CASE b = ballot.target
    <3>1. Cast(n)[bit] = b
      BY <1>3, <1>5, <1>6, <2>1
    <3> QED  BY <1>3, <3>1
  <2>2. CASE b # ballot.target /\ b # Base
    <3>1. b \in DOMAIN r.graph.entries
      BY <1>10, <2>2
    <3>2. PICK p \in AllBits(Voters) : Cast(r)[p] = b
      BY <1>9, <2>2, <3>1
    <3>3. b # None
      BY <1>9, <3>1, GraphFacts, BallotFacts
    <3>4. p # bit
      BY <1>6, <3>2, <3>3
    <3>5. Cast(n)[p] = b
      BY <1>5, <1>6, <3>2, <3>4
    <3> QED  BY <3>5
  <2> QED  BY <2>1, <2>2
<1>13. /\ r.equivocations \in SUBSET AllBits(Voters)
       /\ \A ph \in Phase : \A i \in Ids : VoteBit(Voters, i, ph) \in r.equivocations <=> i \in TwoVotes(n[ph])
  BY <1>8 DEF RoundFits
<1> QED  BY <1>1, <1>9, <1>10, <1>11, <1>12, <1>13, WithVotesFit

\* A second vote.
LEMMA EquivocatedFits ==
    ASSUME NEW r, RoundFits(r), NEW phase \in Phase, NEW id \in Ids, NEW ballot \in Ballot, NEW n, NEW kind,
           Equivocated(r, n, kind, phase, id, ballot)
    PROVE  RoundFits(n)
<1> DEFINE bit == VoteBit(Voters, id, phase)
           t == n[phase]
           held == r[phase].votes[id]
           e == r.equivocations \union {bit}
           h == Pushed(r, phase, id, ballot)
<1>1. /\ n = WithVotes(r, phase, t, r.graph, e, h) /\ TrackerFits(t)
      /\ t.votes = [r[phase].votes EXCEPT ![id] = Append(held, ballot)] /\ Len(held) = 1 /\ held # <<>>
  BY DEF Equivocated
<1>2. \A ph \in Phase : ph # phase => n[ph] = r[ph]
  BY <1>1, WithVotesFacts
<1>3. bit \in AllBits(Voters)
  BY BitFacts, RoundVotersAssumption DEF Ids
<1>4. /\ TrackerFits(r[phase]) /\ TwoVotes(t) = TwoVotes(r[phase]) \union {id}
      /\ Append(held, ballot) # <<>> /\ Append(held, ballot)[1] = held[1]
  BY <1>1, SecondBallot, RoundPhases
<1>5. Cast(n) = Cast(r)
  <2> DEFINE w == Append(held, ballot)
  <2>1. n[phase].votes = [r[phase].votes EXCEPT ![id] = w]
    BY <1>1
  <2> HIDE DEF held, w
  <2>2. Cast(n) = [Cast(r) EXCEPT ![bit] = Placed(w)]
    BY <1>2, <2>1, CastChanges
  <2>3. Cast(r)[bit] = Placed(held)
    BY RoundPhases DEF held
  <2>4. Placed(w) = Placed(held)
    BY <1>1, <1>4 DEF Placed, w
  <2>5. Cast(r) = [p \in AllBits(Voters) |-> Cast(r)[p]]
    BY DEF Cast
  <2> QED  BY <1>3, <2>2, <2>3, <2>4, <2>5
<1>6. r.equivocations \in SUBSET AllBits(Voters) /\ e \in SUBSET AllBits(Voters)
  BY <1>3 DEF RoundFits
<1>7. ASSUME NEW ph \in Phase, NEW i \in Ids
      PROVE  VoteBit(Voters, i, ph) \in e <=> i \in TwoVotes(n[ph])
  <2>1. VoteBit(Voters, i, ph) \in r.equivocations <=> i \in TwoVotes(r[ph])
    BY DEF RoundFits
  <2>2. VoteBit(Voters, i, ph) = bit <=> i = id /\ ph = phase
    BY BitsDiffer
  <2> HIDE DEF bit
  <2>3. CASE ph = phase
    BY <1>4, <2>1, <2>2, <2>3
  <2>4. CASE ph # phase
    BY <1>2, <2>1, <2>2, <2>4
  <2> QED  BY <2>3, <2>4
<1>8. /\ IsVoteGraph(r.graph, Cast(n)) /\ r.graph.base = Base
      /\ \A b \in DOMAIN r.graph.entries : b = Base \/ \E p \in AllBits(Voters) : Cast(n)[p] = b
  BY <1>5 DEF RoundFits
<1> HIDE DEF t, e, h
<1> QED  BY <1>1, <1>6, <1>7, <1>8, WithVotesFit

\* More votes keep a memoised GHOST.
LEMMA GhostsStay ==
    ASSUME NEW r, RoundFits(r), NEW n, RoundFits(n),
           \A ph \in Phase : /\ TwoVotes(r[ph]) \subseteq TwoVotes(n[ph])
                             /\ \A i \in Ids : FirstTarget(r[ph])[i] \in Block =>
                                                   FirstTarget(n[ph])[i] = FirstTarget(r[ph])[i],
           NEW phase \in Phase, NEW g, GhostFits(r, phase, g)
    PROVE  GhostFits(n, phase, g)
<1> SUFFICES ASSUME g # None
             PROVE  g \in Blocks(n.graph) /\ Abstract!Heavy(FirstTarget(n[phase]), TwoVotes(n[phase]), g)
  BY DEF GhostFits
<1>1. g \in Blocks(r.graph) /\ Abstract!Heavy(FirstTarget(r[phase]), TwoVotes(r[phase]), g)
  BY DEF GhostFits
<1>2. g \in Blocks(n.graph)
  <2>1. g \in Block /\ Abstract!InGraph(FirstTarget(r.prevote), FirstTarget(r.precommit), g)
    BY <1>1, BlocksOfRound
  <2>2. /\ \A i \in Ids : FirstTarget(r.prevote)[i] \in Block => FirstTarget(n.prevote)[i] = FirstTarget(r.prevote)[i]
        /\ \A i \in Ids : FirstTarget(r.precommit)[i] \in Block => FirstTarget(n.precommit)[i] = FirstTarget(r.precommit)[i]
    <3>1. /\ r["prevote"] = r.prevote /\ r["precommit"] = r.precommit
          /\ n["prevote"] = n.prevote /\ n["precommit"] = n.precommit
      BY RoundPhases
    <3> QED  BY <3>1, PhaseFacts
  <2>3. Abstract!InGraph(FirstTarget(n.prevote), FirstTarget(n.precommit), g)
    BY <2>1, <2>2 DEF Abstract!InGraph, Ids
  <2> QED  BY <2>1, <2>3, BlocksOfRound
<1>3. Abstract!On(FirstTarget(r[phase]), TwoVotes(r[phase]), g) \subseteq
          Abstract!On(FirstTarget(n[phase]), TwoVotes(n[phase]), g)
  BY DEF Abstract!On, Ids
<1> DEFINE on == Abstract!On(FirstTarget(r[phase]), TwoVotes(r[phase]), g)
           more == Abstract!On(FirstTarget(n[phase]), TwoVotes(n[phase]), g)
<1>4. on \in SUBSET Ids /\ more \in SUBSET Ids
  BY DEF Abstract!On, TwoVotes, Ids
<1>5. SumOfWeights[on] >= Abstract!Threshold
  BY <1>1 DEF Abstract!Heavy
<1> HIDE DEF on, more
<1>6. SumOfWeights[on] <= SumOfWeights[more] /\ SumOfWeights[on] \in Nat /\ SumOfWeights[more] \in Nat
      /\ Abstract!Threshold \in Nat
  <2>1. on \subseteq more
    BY <1>3 DEF on, more
  <2> QED  BY <1>4, <2>1, WeightsAdd
<1>7. SumOfWeights[more] >= Abstract!Threshold
  BY <1>5, <1>6
<1> QED  BY <1>2, <1>7 DEF Abstract!Heavy, more

-----------------------------------------------------------------------------
(* The history *)

SeenVote == [phase : Phase, id : Ids, ballot : Ballot]

HistoryFits(r) ==
    /\ r.historical_votes = [seen          |-> r.historical_votes.seen,
                             prevote_idx   |-> r.historical_votes.prevote_idx,
                             precommit_idx |-> r.historical_votes.precommit_idx]
    /\ r.historical_votes.seen \in Seq(SeenVote)
    /\ HistoryIsExact(r)

\* One vote more in the history, for the others and for the voter itself.
LEMMA OthersSeen ==
    ASSUME NEW seen \in Seq(SeenVote), NEW x \in SeenVote, NEW b, NEW at \in [DOMAIN b -> DOMAIN seen],
           NEW phase, NEW id, x.phase # phase \/ x.id # id, SeenAt(seen, at, phase, id, b)
    PROVE  /\ at \in [DOMAIN b -> DOMAIN Append(seen, x)]
           /\ SeenAt(Append(seen, x), at, phase, id, b)
<1> DEFINE more == Append(seen, x)
<1>1. /\ DOMAIN seen = 1 .. Len(seen) /\ Len(seen) \in Nat
      /\ DOMAIN more = 1 .. (Len(seen) + 1)
      /\ \A k \in 1 .. Len(seen) : more[k] = seen[k]
      /\ more[Len(seen) + 1] = x
  BY AppendProperties, LenProperties
<1> HIDE DEF more
<1>2. at \in [DOMAIN b -> DOMAIN more]
  BY <1>1
<1>3. \A i \in DOMAIN b : more[at[i]] = seen[at[i]]
  BY <1>1
<1>4. ASSUME NEW k \in DOMAIN more, more[k].phase = phase, more[k].id = id
      PROVE  \E i \in DOMAIN b : at[i] = k
  <2>1. k # Len(seen) + 1
    BY <1>1, <1>4
  <2>2. k \in DOMAIN seen /\ seen[k] = more[k]
    BY <1>1, <2>1
  <2> QED  BY <1>4, <2>2 DEF SeenAt
<1>5. SeenAt(more, at, phase, id, b)
  BY <1>3, <1>4 DEF SeenAt
<1> QED  BY <1>2, <1>5 DEF more

LEMMA OwnSeen ==
    ASSUME NEW seen \in Seq(SeenVote), NEW b \in Seq(Ballot), NEW at \in [DOMAIN b -> DOMAIN seen],
           NEW phase \in Phase, NEW id \in Ids, NEW ballot \in Ballot, SeenAt(seen, at, phase, id, b)
    PROVE  \E to \in [DOMAIN Append(b, ballot) -> DOMAIN Append(seen, Seen(phase, id, ballot))] :
               SeenAt(Append(seen, Seen(phase, id, ballot)), to, phase, id, Append(b, ballot))
<1> DEFINE x == Seen(phase, id, ballot)
           more == Append(seen, x)
           bs == Append(b, ballot)
           n == Len(seen)
           m == Len(b)
           to == [k \in 1 .. (m + 1) |-> IF k = m + 1 THEN n + 1 ELSE at[k]]
<1>1. x \in SeenVote /\ x = [phase |-> phase, id |-> id, ballot |-> ballot]
  BY DEF SeenVote, Seen
<1> HIDE DEF x
<1>2. /\ DOMAIN seen = 1 .. n /\ n \in Nat
      /\ DOMAIN more = 1 .. (n + 1) /\ \A k \in 1 .. n : more[k] = seen[k]
      /\ more[n + 1] = x
  BY <1>1, AppendProperties, LenProperties
<1>3. /\ DOMAIN b = 1 .. m /\ m \in Nat
      /\ DOMAIN bs = 1 .. (m + 1) /\ \A k \in 1 .. m : bs[k] = b[k]
      /\ bs[m + 1] = ballot
  BY AppendProperties, LenProperties
<1> HIDE DEF more, bs, n, m
<1>4. \A k \in 1 .. m : at[k] \in 1 .. n
  BY <1>2, <1>3
<1>5. /\ DOMAIN to = 1 .. (m + 1) /\ to[m + 1] = n + 1
      /\ \A k \in 1 .. m : to[k] = at[k]
  BY <1>3
<1> HIDE DEF to
<1>6. to \in [DOMAIN bs -> DOMAIN more]
  <2>1. to = [k \in 1 .. (m + 1) |-> to[k]]
    BY DEF to
  <2>2. \A k \in 1 .. (m + 1) : to[k] \in 1 .. (n + 1)
    BY <1>2, <1>3, <1>4, <1>5
  <2> QED  BY <1>2, <1>3, <2>1, <2>2
<1>7. ASSUME NEW i \in DOMAIN bs, NEW j \in DOMAIN bs, i < j PROVE to[i] < to[j]
  <2>1. i \in 1 .. m /\ to[i] = at[i] /\ at[i] \in 1 .. n
    BY <1>3, <1>4, <1>5, <1>7
  <2>2. CASE j = m + 1
    BY <1>2, <1>5, <2>1, <2>2
  <2>3. CASE j # m + 1
    <3>1. j \in 1 .. m
      BY <1>3, <2>3
    <3>2. at[i] < at[j]
      BY <1>3, <1>7, <2>1, <3>1 DEF SeenAt
    <3> QED  BY <1>5, <2>1, <3>1, <3>2
  <2> QED  BY <2>2, <2>3
<1>8. ASSUME NEW i \in DOMAIN bs
      PROVE  more[to[i]] = [phase |-> phase, id |-> id, ballot |-> bs[i]]
  <2>1. CASE i = m + 1
    BY <1>1, <1>2, <1>3, <1>5, <2>1
  <2>2. CASE i # m + 1
    <3>1. i \in 1 .. m
      BY <1>3, <2>2
    <3>2. seen[at[i]] = [phase |-> phase, id |-> id, ballot |-> b[i]]
      BY <1>3, <3>1 DEF SeenAt
    <3> QED  BY <1>2, <1>3, <1>4, <1>5, <3>1, <3>2
  <2> QED  BY <2>1, <2>2
<1>9. ASSUME NEW k \in DOMAIN more, more[k].phase = phase, more[k].id = id
      PROVE  \E i \in DOMAIN bs : to[i] = k
  <2>1. CASE k = n + 1
    <3>1. m + 1 \in DOMAIN bs
      BY <1>3
    <3> QED  BY <1>5, <2>1, <3>1
  <2>2. CASE k # n + 1
    <3>1. k \in DOMAIN seen /\ seen[k] = more[k]
      BY <1>2, <2>2
    <3>2. PICK i \in DOMAIN b : at[i] = k
      BY <1>9, <3>1 DEF SeenAt
    <3>3. i \in DOMAIN bs /\ to[i] = k
      BY <1>3, <1>5, <3>2
    <3> QED  BY <3>3
  <2> QED  BY <2>1, <2>2
<1>10. SeenAt(more, to, phase, id, bs)
  BY <1>7, <1>8, <1>9 DEF SeenAt
<1> QED  BY <1>6, <1>10 DEF more, bs, x

\* The ballots of a voter that the history has.
LEMMA TrackedFacts ==
    ASSUME NEW held \in Seq(Ballot), NEW ballot \in Ballot
    PROVE  /\ Tracked(held) \in Seq(Ballot)
           /\ held = <<>> => Tracked(held) = <<>>
           /\ Base \notin Ancestors[ballot.target] => Tracked(<<ballot>>) = <<>>
           /\ Base \in Ancestors[ballot.target] => Tracked(<<ballot>>) = <<ballot>>
           /\ Len(held) = 1 => Tracked(Append(held, ballot)) = Append(Tracked(held), ballot)
<1>1. Tracked(held) \in Seq(Ballot)
  <2>1. held # <<>> => Tail(held) \in Seq(Ballot)
    BY HeadTailProperties
  <2> QED  BY <2>1 DEF Tracked
<1>2. held = <<>> => Tracked(held) = <<>>
  BY DEF Tracked
<1>3. <<ballot>> # <<>> /\ <<ballot>>[1] = ballot /\ Tail(<<ballot>>) = <<>>
  OBVIOUS
<1>4. /\ Base \notin Ancestors[ballot.target] => Tracked(<<ballot>>) = <<>>
      /\ Base \in Ancestors[ballot.target] => Tracked(<<ballot>>) = <<ballot>>
  BY <1>3 DEF Tracked, IsEqualOrDescendentOf
<1>5. ASSUME Len(held) = 1 PROVE Tracked(Append(held, ballot)) = Append(Tracked(held), ballot)
  <2>1. PICK x \in Ballot : held = <<x>>
    <3>1. held[1] \in Ballot
      BY <1>5
    <3>2. <<held[1]>> \in Seq(Ballot) /\ Len(<<held[1]>>) = 1 /\ <<held[1]>>[1] = held[1]
      BY <3>1
    <3>3. held = <<held[1]>>
      BY <1>5, <3>2, SeqEqual
    <3> QED  BY <3>1, <3>3
  <2>2. Append(<<x>>, ballot) = <<x, ballot>> /\ Append(<<>>, ballot) = <<ballot>>
    <3>1. /\ <<x>> \in Seq(Ballot) /\ Len(<<x>>) = 1 /\ <<x>>[1] = x
          /\ <<x, ballot>> \in Seq(Ballot) /\ Len(<<x, ballot>>) = 2
          /\ <<x, ballot>>[1] = x /\ <<x, ballot>>[2] = ballot
      OBVIOUS
    <3>2. /\ Append(<<x>>, ballot) \in Seq(Ballot) /\ Len(Append(<<x>>, ballot)) = 2
          /\ Append(<<x>>, ballot)[1] = x /\ Append(<<x>>, ballot)[2] = ballot
      BY <3>1, AppendProperties
    <3>3. Append(<<x>>, ballot) = <<x, ballot>>
      <4> DEFINE s == Append(<<x>>, ballot)
                 t == <<x, ballot>>
      <4>1. s \in Seq(Ballot) /\ t \in Seq(Ballot) /\ Len(s) = 2 /\ Len(t) = 2 /\ s[1] = t[1] /\ s[2] = t[2]
        BY <3>1, <3>2
      <4> HIDE DEF s, t
      <4>2. \A i \in 1 .. 2 : s[i] = t[i]
        BY <4>1
      <4>3. s = t
        BY <4>1, <4>2, SeqEqual
      <4> QED  BY <4>3 DEF s, t
    <3>4. Append(<<>>, ballot) = <<ballot>>
      OBVIOUS
    <3> QED  BY <3>3, <3>4
  <2>3. <<x>> # <<>> /\ <<x>>[1] = x /\ Tail(<<x>>) = <<>>
    OBVIOUS
  <2>4. <<x, ballot>> # <<>> /\ <<x, ballot>>[1] = x /\ Tail(<<x, ballot>>) = <<ballot>>
    OBVIOUS
  <2> QED  BY <2>1, <2>2, <2>3, <2>4 DEF Tracked
<1> QED  BY <1>1, <1>2, <1>4, <1>5

\* The history keeps fitting when nothing is pushed, a vote is pushed or an index is set.
LEMMA HistoryKept ==
    ASSUME NEW r, HistoryFits(r), NEW n, n.historical_votes = r.historical_votes,
           \A ph \in Phase : \A i \in Ids : Tracked(n[ph].votes[i]) = Tracked(r[ph].votes[i])
    PROVE  HistoryFits(n)
  BY DEF HistoryFits, HistoryIsExact, Ids

LEMMA HistoryPushed ==
    ASSUME NEW r, RoundFits(r), HistoryFits(r), NEW n, NEW phase \in Phase, NEW id \in Ids, NEW ballot \in Ballot,
           n.historical_votes = Pushed(r, phase, id, ballot),
           Tracked(n[phase].votes[id]) = Append(Tracked(r[phase].votes[id]), ballot),
           \A ph \in Phase : \A i \in Ids :
               ph # phase \/ i # id => Tracked(n[ph].votes[i]) = Tracked(r[ph].votes[i])
    PROVE  HistoryFits(n)
<1> DEFINE h == r.historical_votes
           seen == h.seen
           x == Seen(phase, id, ballot)
           more == Append(seen, x)
<1>1. /\ h = [seen |-> seen, prevote_idx |-> h.prevote_idx, precommit_idx |-> h.precommit_idx]
      /\ seen \in Seq(SeenVote)
  BY DEF HistoryFits
<1>2. x \in SeenVote /\ x.phase = phase /\ x.id = id
  BY DEF SeenVote, Seen
<1>3. /\ n.historical_votes = [seen |-> n.historical_votes.seen, prevote_idx |-> n.historical_votes.prevote_idx,
                               precommit_idx |-> n.historical_votes.precommit_idx]
      /\ n.historical_votes.seen = more
      /\ n.historical_votes.prevote_idx = h.prevote_idx /\ n.historical_votes.precommit_idx = h.precommit_idx
  <2>1. PICK a, b, c : h = [seen |-> a, prevote_idx |-> b, precommit_idx |-> c]
    BY <1>1
  <2>2. seen = a /\ h.prevote_idx = b /\ h.precommit_idx = c
    BY <2>1
  <2>3. Pushed(r, phase, id, ballot) = [h EXCEPT !.seen = Append(seen, x)]
    BY DEF Pushed
  <2> HIDE DEF h, seen, x
  <2>4. Pushed(r, phase, id, ballot) = [seen |-> Append(seen, x), prevote_idx |-> b, precommit_idx |-> c]
    BY <2>1, <2>2, <2>3
  <2> QED  BY <2>2, <2>4
<1>4. more \in Seq(SeenVote) /\ Len(more) = Len(seen) + 1 /\ Len(seen) \in Nat
  BY <1>1, <1>2, AppendProperties, LenProperties
<1> HIDE DEF x
<1>5. ASSUME NEW ph \in Phase, NEW i \in Ids
      PROVE  \E at \in [DOMAIN Tracked(n[ph].votes[i]) -> DOMAIN more] :
                 SeenAt(more, at, ph, i, Tracked(n[ph].votes[i]))
  <2> DEFINE b == Tracked(r[ph].votes[i])
  <2>1. PICK at \in [DOMAIN b -> DOMAIN seen] : SeenAt(seen, at, ph, i, b)
    BY DEF HistoryFits, HistoryIsExact, Ids
  <2>2. b \in Seq(Ballot)
    <3>1. r[ph].votes[i] \in Seq(Ballot)
      <4>1. TrackerFits(r[ph])
        BY RoundPhases
      <4> QED  BY <4>1 DEF TrackerFits
    <3> QED  BY <3>1, TrackedFacts
  <2> HIDE DEF b, seen
  <2>3. CASE ph = phase /\ i = id
    <3>1. \E to \in [DOMAIN Append(b, ballot) -> DOMAIN Append(seen, x)] :
              SeenAt(Append(seen, x), to, ph, i, Append(b, ballot))
      <4>1. SeenAt(seen, at, phase, id, b)
        BY <2>1, <2>3
      <4>2. \E to \in [DOMAIN Append(b, ballot) -> DOMAIN Append(seen, Seen(phase, id, ballot))] :
                SeenAt(Append(seen, Seen(phase, id, ballot)), to, phase, id, Append(b, ballot))
        BY <1>1, <2>2, <4>1, OwnSeen
      <4> QED  BY <2>3, <4>2 DEF x
    <3>2. Tracked(n[ph].votes[i]) = Append(b, ballot)
      BY <2>3 DEF b
    <3> QED  BY <3>1, <3>2
  <2>4. CASE ph # phase \/ i # id
    <3>1. at \in [DOMAIN b -> DOMAIN Append(seen, x)] /\ SeenAt(Append(seen, x), at, ph, i, b)
      BY <1>1, <1>2, <2>1, <2>4, OthersSeen
    <3>2. Tracked(n[ph].votes[i]) = b
      BY <2>4 DEF b
    <3> QED  BY <3>1, <3>2
  <2> QED  BY <2>3, <2>4
<1>6. \A k \in DOMAIN more : more[k].id \in Ids
  <2>1. \A k \in DOMAIN more : more[k] \in SeenVote
    BY <1>4
  <2> QED  BY <2>1 DEF SeenVote
<1>7. /\ h.prevote_idx # None => h.prevote_idx \in 0 .. Len(more)
      /\ h.prevote_idx # None /\ h.precommit_idx # None => h.prevote_idx <= h.precommit_idx
      /\ h.precommit_idx # None => h.precommit_idx \in 0 .. Len(more)
  <2>1. /\ h.prevote_idx # None => h.prevote_idx \in 0 .. Len(seen)
        /\ h.prevote_idx # None /\ h.precommit_idx # None => h.prevote_idx <= h.precommit_idx
        /\ h.precommit_idx # None => h.precommit_idx \in 0 .. Len(seen)
    BY DEF HistoryFits, HistoryIsExact
  <2> HIDE DEF seen, more, h
  <2> QED  BY <1>4, <2>1
<1> HIDE DEF h, more
<1>8. HistoryIsExact(n)
  BY <1>3, <1>5, <1>6, <1>7 DEF HistoryIsExact, Ids
<1> QED  BY <1>3, <1>4, <1>8 DEF HistoryFits

\* What set_prevoted_index and set_precommitted_index leave of a round.
LEMMA MarkedFacts ==
    ASSUME NEW r, RoundFits(r), HistoryFits(r), NEW phase \in Phase,
           phase = "prevote" => r.historical_votes.precommit_idx = None
    PROVE  LET u == SetIndex(r, phase)
           IN  /\ HistoryFits(u)
               /\ u = WithVotes(r, "prevote", r.prevote, r.graph, r.equivocations, u.historical_votes)
<1> DEFINE u == SetIndex(r, phase)
           h == r.historical_votes
           len == Len(h.seen)
           o == IF phase = "prevote" THEN [h EXCEPT !.prevote_idx = len] ELSE [h EXCEPT !.precommit_idx = len]
<1>1. u = RoundOf(r.graph, r.prevote, r.precommit, r.equivocations, o, r)
  <2> DEFINE n == RoundOf(r.graph, r.prevote, r.precommit, r.equivocations, h, r)
  <2>1. \A y : [n EXCEPT !.historical_votes = y] = RoundOf(r.graph, r.prevote, r.precommit, r.equivocations, y, r)
    <3> TAKE y
    <3> QED  BY DEF RoundOf
  <2>2. n.historical_votes = h /\ r = n
    BY DEF RoundOf, RoundFits
  <2> HIDE DEF n
  <2>3. u = [n EXCEPT !.historical_votes = o]
    <3>1. CASE phase = "prevote"
      BY <2>2, <3>1 DEF SetIndex
    <3>2. CASE phase # "prevote"
      BY <2>2, <3>2 DEF SetIndex
    <3> QED  BY <3>1, <3>2
  <2> HIDE DEF o, u
  <2> QED  BY <2>1, <2>3
<1>2. PICK a, b, c : h = [seen |-> a, prevote_idx |-> b, precommit_idx |-> c]
  BY DEF HistoryFits
<1>3. h.seen = a /\ h.prevote_idx = b /\ h.precommit_idx = c /\ a \in Seq(SeenVote)
  BY <1>2 DEF HistoryFits
<1> HIDE DEF h, u
<1>4. /\ o = [seen |-> o.seen, prevote_idx |-> o.prevote_idx, precommit_idx |-> o.precommit_idx]
      /\ o.seen = a
      /\ o.prevote_idx = IF phase = "prevote" THEN len ELSE b
      /\ o.precommit_idx = IF phase = "prevote" THEN c ELSE len
  <2>1. CASE phase = "prevote"
    BY <1>2, <2>1
  <2>2. CASE phase # "prevote"
    BY <1>2, <2>2
  <2> QED  BY <2>1, <2>2
<1>5. len = Len(a) /\ len \in Nat
  BY <1>3, LenProperties
<1>6. u.historical_votes = o /\ u["prevote"] = r.prevote /\ u["precommit"] = r.precommit
  <2> HIDE DEF o
  <2> QED  BY <1>1 DEF RoundOf
<1>7. \A ph \in Phase : u[ph] = r[ph]
  BY <1>6, PhaseFacts, RoundPhases
<1>8. /\ b # None => b \in 0 .. Len(a)
      /\ b # None /\ c # None => b <= c
      /\ c # None => c \in 0 .. Len(a)
      /\ \A k \in DOMAIN a : a[k].id \in VoterIds(Voters)
      /\ \A ph \in Phase : \A i \in VoterIds(Voters) :
             \E at \in [DOMAIN Tracked(r[ph].votes[i]) -> DOMAIN a] : SeenAt(a, at, ph, i, Tracked(r[ph].votes[i]))
      /\ phase = "prevote" => c = None
  BY <1>3 DEF HistoryFits, HistoryIsExact, h
<1>9. /\ o.prevote_idx # None => o.prevote_idx \in 0 .. Len(a)
      /\ o.prevote_idx # None /\ o.precommit_idx # None => o.prevote_idx <= o.precommit_idx
      /\ o.precommit_idx # None => o.precommit_idx \in 0 .. Len(a)
  <2> HIDE DEF o, len
  <2>1. CASE phase = "prevote"
    BY <1>4, <1>5, <1>8, <2>1
  <2>2. CASE phase # "prevote"
    BY <1>4, <1>5, <1>8, <2>2
  <2> QED  BY <2>1, <2>2
<1> HIDE DEF o, len
<1>10. HistoryIsExact(u)
  BY <1>4, <1>6, <1>7, <1>8, <1>9 DEF HistoryIsExact
<1>11. HistoryFits(u)
  BY <1>3, <1>4, <1>6, <1>10 DEF HistoryFits
<1>12. u = WithVotes(r, "prevote", r.prevote, r.graph, r.equivocations, u.historical_votes)
  BY <1>1, <1>6 DEF WithVotes
<1> QED  BY <1>11, <1>12 DEF u

-----------------------------------------------------------------------------
(* An import *)

\* A round between two calls.
RoundOK(r) ==
    /\ RoundFits(r)
    /\ GhostFits(r, "prevote", r.prevote_ghost)
    /\ GhostFits(r, "precommit", r.precommit_ghost)
    /\ HistoryFits(r)

SameDerived(r, u) ==
    /\ u.prevote_ghost = r.prevote_ghost /\ u.precommit_ghost = r.precommit_ghost
    /\ u.finalized = r.finalized /\ u.estimate = r.estimate /\ u.completable = r.completable

\* What an import that recorded a vote leaves, derived from the votes of u: the prevote-GHOST
\* after a prevote, and what update makes of it.
IsDerived(phase, r, u) ==
    LET pvs   == FirstTarget(u.prevote)
        pcs   == FirstTarget(u.precommit)
        two   == TwoVotes(u.precommit)
        ghost == u.prevote_ghost
    IN  /\ u.precommit_ghost = r.precommit_ghost
        /\ IF phase = "prevote" /\ ~(SumOfWeights[Abstract!Voted(pvs)] < Abstract!Threshold)
           THEN ghost \in Abstract!Ghosts(pvs, pcs, pvs, TwoVotes(u.prevote))
           ELSE ghost = r.prevote_ghost
        /\ IF SumOfWeights[Abstract!Voted(pvs)] < Abstract!Threshold \/ ghost = None
           THEN u.finalized = r.finalized /\ u.estimate = r.estimate /\ u.completable = r.completable
           ELSE IF SumOfWeights[Abstract!Voted(pcs)] < Abstract!Threshold
           THEN u.finalized = r.finalized /\ u.estimate = ghost /\ u.completable = r.completable
           ELSE /\ u.finalized \in Abstract!Highest(ghost, {b \in Block : Abstract!Heavy(pcs, two, b)})
                /\ u.estimate \in Abstract!Highest(ghost, {b \in Block : Abstract!Possible(pcs, two, b)})
                /\ u.completable = Completed(u, u.estimate)

LEMMA DerivedFacts ==
    ASSUME NEW n, RoundFits(n), GhostFits(n, "prevote", n.prevote_ghost),
           GhostFits(n, "precommit", n.precommit_ghost),
           NEW phase \in Phase, NEW recorded, recorded.round = n, Recorded(recorded.kind),
           NEW result \in Derived(phase, recorded)
    PROVE  LET u == result.round
           IN  /\ SameVotes(n, u) /\ IsDerived(phase, n, u)
               /\ GhostFits(u, "prevote", u.prevote_ghost) /\ GhostFits(u, "precommit", u.precommit_ghost)
<1> DEFINE searched == IF phase = "prevote" THEN UpdatePrevoteGhost(n) ELSE {n}
           u == result.round
           enough == ~(SumOfWeights[Abstract!Voted(FirstTarget(n.prevote))] < Abstract!Threshold)
<1>1. PICK s \in searched : u \in Update(s)
  BY DEF Derived
<1>2. /\ SameVotes(n, s) /\ GhostFits(n, "prevote", s.prevote_ghost)
      /\ s.precommit_ghost = n.precommit_ghost /\ s.finalized = n.finalized
      /\ s.estimate = n.estimate /\ s.completable = n.completable
      /\ IF phase = "prevote" /\ enough
         THEN s.prevote_ghost \in Abstract!Ghosts(FirstTarget(n.prevote), FirstTarget(n.precommit),
                                                  FirstTarget(n.prevote), TwoVotes(n.prevote))
         ELSE s.prevote_ghost = n.prevote_ghost
  <2>1. CASE phase = "prevote"
    <3>1. s \in UpdatePrevoteGhost(n)
      BY <1>1, <2>1
    <3> QED  BY <2>1, <3>1, PrevoteGhostFacts
  <2>2. CASE phase # "prevote"
    <3>1. s = n
      BY <1>1, <2>2
    <3>2. SameVotes(n, n)
      BY DEF RoundFits, SameVotes
    <3> QED  BY <2>2, <3>1, <3>2
  <2> QED  BY <2>1, <2>2
<1> HIDE DEF searched, u, enough
<1>3. RoundFits(s) /\ GhostFits(s, "prevote", s.prevote_ghost) /\ GhostFits(s, "precommit", s.precommit_ghost)
  BY <1>2, SameVotesFit, PhaseFacts
<1>4. /\ SameVotes(s, u) /\ u.prevote_ghost = s.prevote_ghost /\ u.precommit_ghost = s.precommit_ghost
      /\ IsUpdate(s, u)
  BY <1>1, <1>3, UpdateFacts
<1>5. GhostFits(u, "prevote", u.prevote_ghost) /\ GhostFits(u, "precommit", u.precommit_ghost)
  BY <1>3, <1>4, SameVotesFit, PhaseFacts
<1>6. /\ n.graph = u.graph /\ n.prevote = u.prevote /\ n.precommit = u.precommit
      /\ s.prevote = u.prevote /\ s.precommit = u.precommit
      /\ n.equivocations = u.equivocations /\ n.historical_votes = u.historical_votes
  BY <1>2, <1>4 DEF SameVotes
<1>7. SameVotes(n, u)
  BY <1>2, <1>4 DEF SameVotes
<1>8. Completed(s, u.estimate) = Completed(u, u.estimate)
  BY <1>4, <1>6 DEF Completed
<1>9. IsDerived(phase, n, u)
  BY <1>2, <1>4, <1>6, <1>8 DEF IsDerived, IsUpdate, enough
<1> QED  BY <1>5, <1>7, <1>9 DEF u

\* What an import leaves, by what becomes of the vote.
Tallied(r, u, phase, id, ballot) ==
    /\ r[phase].votes[id] = <<>> /\ u[phase].votes = [r[phase].votes EXCEPT ![id] = <<ballot>>]
    /\ FirstTarget(r[phase])[id] = None
    /\ FirstTarget(u[phase]) = [FirstTarget(r[phase]) EXCEPT ![id] = ballot.target]
    /\ TwoVotes(u[phase]) = TwoVotes(r[phase])

CaughtTwice(r, u, phase, id, ballot) ==
    /\ r[phase].votes[id] \notin {<<>>, <<ballot>>} /\ Len(r[phase].votes[id]) = 1
    /\ u[phase].votes = [r[phase].votes EXCEPT ![id] = Append(r[phase].votes[id], ballot)]
    /\ FirstTarget(r[phase])[id] \in Block /\ id \notin TwoVotes(r[phase])
    /\ FirstTarget(u[phase]) = FirstTarget(r[phase])
    /\ TwoVotes(u[phase]) = TwoVotes(r[phase]) \union {id}

LEMMA ImportCases ==
    ASSUME NEW r, RoundOK(r), NEW phase \in Phase, NEW id, NEW ballot \in Ballot,
           NEW result \in Derived(phase, RecordVote(r, phase, id, ballot))
    PROVE  LET u == result.round
           IN  /\ RoundOK(u)
               /\ result.kind = "refused" => Base \notin Ancestors[ballot.target]
               /\ \/ u = r /\ NotNew(r, phase, id, ballot)
                  \/ /\ id \in Ids /\ \A ph \in Phase : ph # phase => u[ph] = r[ph]
                     /\ \/ /\ Tallied(r, u, phase, id, ballot)
                           /\ Base \notin Ancestors[ballot.target] /\ SameDerived(r, u)
                        \/ /\ Tallied(r, u, phase, id, ballot)
                           /\ Base \in Ancestors[ballot.target] /\ IsDerived(phase, r, u)
                        \/ CaughtTwice(r, u, phase, id, ballot) /\ IsDerived(phase, r, u)
<1> DEFINE recorded == RecordVote(r, phase, id, ballot)
           n == recorded.round
           kind == recorded.kind
           u == result.round
           held == r[phase].votes[id]
<1>1. RoundFits(r) /\ HistoryFits(r)
  BY DEF RoundOK
<1>2. ASSUME ~Recorded(kind) PROVE u = n /\ result.kind = kind
  <2>1. result = recorded
    BY <1>2 DEF Derived
  <2> QED  BY <2>1
<1>12. ASSUME Recorded(kind) PROVE result.kind # "refused"
  <2>1. result.kind = kind
    BY <1>12 DEF Derived
  <2> QED  BY <1>12, <2>1 DEF Recorded
<1>3. ASSUME Recorded(kind), RoundFits(n), HistoryFits(n), GhostFits(n, "prevote", n.prevote_ghost),
             GhostFits(n, "precommit", n.precommit_ghost), SameDerived(r, n)
      PROVE  RoundOK(u) /\ (\A ph \in Phase : u[ph] = n[ph]) /\ IsDerived(phase, r, u)
  <2> HIDE DEF u, recorded
  <2>1. /\ SameVotes(n, u) /\ IsDerived(phase, n, u)
        /\ GhostFits(u, "prevote", u.prevote_ghost) /\ GhostFits(u, "precommit", u.precommit_ghost)
    BY <1>3, DerivedFacts DEF u, recorded
  <2>2. RoundFits(u) /\ \A ph \in Phase : u[ph] = n[ph]
    BY <1>3, <2>1, SameVotesFit
  <2>3. HistoryFits(u)
    <3>1. u.historical_votes = n.historical_votes
      BY <2>1 DEF SameVotes
    <3> QED  BY <1>3, <2>2, <3>1, HistoryKept
  <2>4. IsDerived(phase, r, u)
    BY <1>3, <2>1 DEF IsDerived, SameDerived
  <2> QED  BY <2>1, <2>2, <2>3, <2>4 DEF RoundOK
<1>4. CASE NotRecorded(r, n, kind, phase, id, ballot)
  <2>1. u = r /\ result.kind # "refused" /\ NotNew(r, phase, id, ballot)
    BY <1>2, <1>4 DEF NotRecorded
  <2> QED  BY <2>1
<1>5. ASSUME id \in Ids, RoundFits(n), \A ph \in Phase : ph # phase => n[ph] = r[ph], SameDerived(r, n),
             \A i \in Ids : FirstTarget(r[phase])[i] \in Block => FirstTarget(n[phase])[i] = FirstTarget(r[phase])[i],
             TwoVotes(r[phase]) \subseteq TwoVotes(n[phase])
      PROVE  GhostFits(n, "prevote", n.prevote_ghost) /\ GhostFits(n, "precommit", n.precommit_ghost)
  <2> HIDE DEF n
  <2>1. \A ph \in Phase : /\ TwoVotes(r[ph]) \subseteq TwoVotes(n[ph])
                          /\ \A i \in Ids : FirstTarget(r[ph])[i] \in Block =>
                                                FirstTarget(n[ph])[i] = FirstTarget(r[ph])[i]
    BY <1>5
  <2>2. GhostFits(n, "prevote", r.prevote_ghost) /\ GhostFits(n, "precommit", r.precommit_ghost)
    BY <1>1, <1>5, <2>1, GhostsStay, PhaseFacts DEF RoundOK
  <2> QED  BY <1>5, <2>2 DEF SameDerived
<1>6. ASSUME id \in Ids, NEW t, NEW g, NEW e, NEW h, n = WithVotes(r, phase, t, g, e, h)
      PROVE  /\ \A ph \in Phase : ph # phase => n[ph] = r[ph]
             /\ SameDerived(r, n) /\ n.historical_votes = h
  BY <1>1, <1>6, WithVotesFacts DEF SameDerived
<1>7. ASSUME id \in Ids, \A ph \in Phase : ph # phase => n[ph] = r[ph], NEW w,
             n[phase].votes = [r[phase].votes EXCEPT ![id] = w]
      PROVE  /\ n[phase].votes[id] = w
             /\ \A ph \in Phase : \A i \in Ids : ph # phase \/ i # id => n[ph].votes[i] = r[ph].votes[i]
  <2>1. TrackerFits(r[phase])
    BY <1>1, RoundPhases
  <2>2. r[phase].votes \in [Ids -> Seq(Ballot)]
    BY <2>1 DEF TrackerFits
  <2> HIDE DEF n
  <2> QED  BY <1>7, <2>2
<1>8. CASE id \in Ids /\ Refused(r, n, kind, phase, id, ballot)
  <2> HIDE DEF n, kind, u
  <2>1. /\ ~Recorded(kind) /\ held = <<>> /\ Base \notin Ancestors[ballot.target]
        /\ n = WithVotes(r, phase, n[phase], r.graph, r.equivocations, r.historical_votes)
        /\ TrackerFits(n[phase]) /\ n[phase].votes = [r[phase].votes EXCEPT ![id] = <<ballot>>]
    BY <1>8 DEF Refused
  <2>2. /\ \A ph \in Phase : ph # phase => n[ph] = r[ph]
        /\ SameDerived(r, n) /\ n.historical_votes = r.historical_votes
    BY <1>6, <1>8, <2>1
  <2>3. RoundFits(n)
    BY <1>1, <1>8, RefusedFits
  <2>4. Tallied(r, n, phase, id, ballot)
    BY <1>1, <1>8, <2>1, FirstBallot, RoundPhases DEF Tallied
  <2>5. GhostFits(n, "prevote", n.prevote_ghost) /\ GhostFits(n, "precommit", n.precommit_ghost)
    <3>1. \A i \in Ids : FirstTarget(r[phase])[i] \in Block => FirstTarget(n[phase])[i] = FirstTarget(r[phase])[i]
      BY <2>4, BallotFacts DEF Tallied, FirstTarget, Ids
    <3> QED  BY <1>5, <1>8, <2>2, <2>3, <2>4, <3>1 DEF Tallied
  <2>6. HistoryFits(n)
    <3>1. Tracked(<<ballot>>) = <<>> /\ Tracked(<<>>) = <<>>
      BY <2>1, TrackedFacts, EmptySeq
    <3>2. n[phase].votes[id] = <<ballot>> /\
          \A ph \in Phase : \A i \in Ids : ph # phase \/ i # id => n[ph].votes[i] = r[ph].votes[i]
      BY <1>7, <1>8, <2>1, <2>2
    <3>3. \A ph \in Phase : \A i \in Ids : Tracked(n[ph].votes[i]) = Tracked(r[ph].votes[i])
      BY <2>1, <3>1, <3>2
    <3> QED  BY <1>1, <2>2, <3>3, HistoryKept
  <2>7. u = n
    BY <1>2, <2>1
  <2> QED  BY <1>8, <2>1, <2>2, <2>3, <2>4, <2>5, <2>6, <2>7 DEF RoundOK, u
<1>9. CASE id \in Ids /\ PlacedOne(r, n, kind, phase, id, ballot)
  <2> HIDE DEF n, kind, u
  <2> DEFINE g == Insert(r.graph, ballot.target, VoteBit(Voters, id, phase))
  <2>1. /\ Recorded(kind) /\ held = <<>> /\ Base \in Ancestors[ballot.target]
        /\ n = WithVotes(r, phase, n[phase], g, r.equivocations, Pushed(r, phase, id, ballot))
        /\ TrackerFits(n[phase]) /\ n[phase].votes = [r[phase].votes EXCEPT ![id] = <<ballot>>]
    BY <1>9 DEF PlacedOne
  <2> HIDE DEF g
  <2>2. /\ \A ph \in Phase : ph # phase => n[ph] = r[ph]
        /\ SameDerived(r, n) /\ n.historical_votes = Pushed(r, phase, id, ballot)
    BY <1>6, <1>9, <2>1
  <2>3. RoundFits(n)
    BY <1>1, <1>9, PlacedFits
  <2>4. Tallied(r, n, phase, id, ballot)
    BY <1>1, <1>9, <2>1, FirstBallot, RoundPhases DEF Tallied
  <2>5. GhostFits(n, "prevote", n.prevote_ghost) /\ GhostFits(n, "precommit", n.precommit_ghost)
    <3>1. \A i \in Ids : FirstTarget(r[phase])[i] \in Block => FirstTarget(n[phase])[i] = FirstTarget(r[phase])[i]
      BY <2>4, BallotFacts DEF Tallied, FirstTarget, Ids
    <3> QED  BY <1>5, <1>9, <2>2, <2>3, <2>4, <3>1 DEF Tallied
  <2>6. HistoryFits(n)
    <3>1. Tracked(<<ballot>>) = <<ballot>> /\ Tracked(<<>>) = <<>> /\ Append(<<>>, ballot) = <<ballot>>
      <4>1. Tracked(<<ballot>>) = <<ballot>> /\ Tracked(<<>>) = <<>>
        BY <2>1, TrackedFacts, EmptySeq
      <4>2. Append(<<>>, ballot) = <<ballot>>
        OBVIOUS
      <4> QED  BY <4>1, <4>2
    <3>2. n[phase].votes[id] = <<ballot>> /\
          \A ph \in Phase : \A i \in Ids : ph # phase \/ i # id => n[ph].votes[i] = r[ph].votes[i]
      BY <1>7, <1>9, <2>1, <2>2
    <3>3. /\ Tracked(n[phase].votes[id]) = Append(Tracked(r[phase].votes[id]), ballot)
          /\ \A ph \in Phase : \A i \in Ids :
                 ph # phase \/ i # id => Tracked(n[ph].votes[i]) = Tracked(r[ph].votes[i])
      BY <2>1, <3>1, <3>2
    <3> QED  BY <1>1, <1>9, <2>2, <3>3, HistoryPushed
  <2>7. RoundOK(u) /\ (\A ph \in Phase : u[ph] = n[ph]) /\ IsDerived(phase, r, u)
    BY <1>3, <2>1, <2>2, <2>3, <2>5, <2>6
  <2>8. Tallied(r, u, phase, id, ballot)
    BY <2>4, <2>7 DEF Tallied
  <2> QED  BY <1>9, <1>12, <2>1, <2>2, <2>7, <2>8 DEF u
<1>10. CASE id \in Ids /\ Equivocated(r, n, kind, phase, id, ballot)
  <2> HIDE DEF n, kind, u
  <2> DEFINE e == r.equivocations \union {VoteBit(Voters, id, phase)}
  <2>1. /\ Recorded(kind) /\ Len(held) = 1 /\ held # <<>> /\ ballot # held[1]
        /\ n = WithVotes(r, phase, n[phase], r.graph, e, Pushed(r, phase, id, ballot))
        /\ TrackerFits(n[phase]) /\ n[phase].votes = [r[phase].votes EXCEPT ![id] = Append(held, ballot)]
    BY <1>10 DEF Equivocated
  <2> HIDE DEF e
  <2>2. /\ \A ph \in Phase : ph # phase => n[ph] = r[ph]
        /\ SameDerived(r, n) /\ n.historical_votes = Pushed(r, phase, id, ballot)
    BY <1>6, <1>10, <2>1
  <2>3. RoundFits(n)
    BY <1>1, <1>10, EquivocatedFits
  <2>4. CaughtTwice(r, n, phase, id, ballot)
    <3>1. held \notin {<<>>, <<ballot>>}
      <4>1. <<ballot>>[1] = ballot
        OBVIOUS
      <4> QED  BY <2>1, <4>1
    <3>2. /\ FirstTarget(r[phase])[id] \in Block /\ id \notin TwoVotes(r[phase])
          /\ FirstTarget(n[phase]) = FirstTarget(r[phase])
          /\ TwoVotes(n[phase]) = TwoVotes(r[phase]) \union {id}
      BY <1>1, <1>10, <2>1, SecondBallot, RoundPhases
    <3> QED  BY <2>1, <3>1, <3>2 DEF CaughtTwice
  <2>5. GhostFits(n, "prevote", n.prevote_ghost) /\ GhostFits(n, "precommit", n.precommit_ghost)
    BY <1>5, <1>10, <2>2, <2>3, <2>4 DEF CaughtTwice
  <2>6. HistoryFits(n)
    <3>1. Tracked(Append(held, ballot)) = Append(Tracked(held), ballot)
      <4>1. TrackerFits(r[phase])
        BY <1>1, RoundPhases
      <4>2. held \in Seq(Ballot)
        BY <1>10, <4>1 DEF TrackerFits
      <4> QED  BY <2>1, <4>2, TrackedFacts
    <3>2. n[phase].votes[id] = Append(held, ballot) /\
          \A ph \in Phase : \A i \in Ids : ph # phase \/ i # id => n[ph].votes[i] = r[ph].votes[i]
      BY <1>7, <1>10, <2>1, <2>2
    <3>3. /\ Tracked(n[phase].votes[id]) = Append(Tracked(r[phase].votes[id]), ballot)
          /\ \A ph \in Phase : \A i \in Ids :
                 ph # phase \/ i # id => Tracked(n[ph].votes[i]) = Tracked(r[ph].votes[i])
      BY <3>1, <3>2
    <3> QED  BY <1>1, <1>10, <2>2, <3>3, HistoryPushed
  <2>7. RoundOK(u) /\ (\A ph \in Phase : u[ph] = n[ph]) /\ IsDerived(phase, r, u)
    BY <1>3, <2>1, <2>2, <2>3, <2>5, <2>6
  <2>8. CaughtTwice(r, u, phase, id, ballot)
    BY <2>4, <2>7 DEF CaughtTwice
  <2> QED  BY <1>10, <1>12, <2>1, <2>2, <2>7, <2>8 DEF u
<1>11. \/ NotRecorded(r, n, kind, phase, id, ballot)
       \/ id \in Ids /\ Refused(r, n, kind, phase, id, ballot)
       \/ id \in Ids /\ PlacedOne(r, n, kind, phase, id, ballot)
       \/ id \in Ids /\ Equivocated(r, n, kind, phase, id, ballot)
  BY <1>1, RecordVoteCases
<1> QED  BY <1>4, <1>8, <1>9, <1>10, <1>11

-----------------------------------------------------------------------------
(* Every behaviour *)

\* Between any two calls, whatever was imported, the round is well made.
WellMade == electorate \in Electorates /\ RoundOK(round)

LEMMA NewTracker ==
    /\ TrackerFits(EmptyTracker)
    /\ \A id \in Ids : EmptyTracker.votes[id] = <<>>
    /\ FirstTarget(EmptyTracker) = [id \in Ids |-> None]
    /\ TwoVotes(EmptyTracker) = {}
<1>1. /\ EmptyTracker = [votes |-> EmptyTracker.votes, current_weight |-> EmptyTracker.current_weight]
      /\ EmptyTracker.votes = [id \in Ids |-> <<>>] /\ EmptyTracker.current_weight = 0
  BY DEF EmptyTracker, Ids
<1>2. \A id \in Ids : EmptyTracker.votes[id] = <<>>
  BY <1>1
<1>3. EmptyTracker.votes \in [Ids -> Seq(Ballot)] /\ Len(<<>>) = 0
  BY <1>1
<1>4. {id \in Ids : EmptyTracker.votes[id] # <<>>} = {} /\ SumOfWeights[{}] = 0
  BY <1>2, WeightsAdd
<1>5. \A id \in Ids : Len(EmptyTracker.votes[id]) = 0
  BY <1>2, <1>3
<1>6. TrackerFits(EmptyTracker)
  BY <1>1, <1>3, <1>4, <1>5 DEF TrackerFits
<1>7. TwoVotes(EmptyTracker) = {}
  BY <1>5 DEF TwoVotes, Ids
<1>8. FirstTarget(EmptyTracker) = [id \in Ids |-> None]
  BY <1>2 DEF FirstTarget, Ids
<1> QED  BY <1>2, <1>6, <1>7, <1>8

LEMMA NewRoundFits == RoundOK(NewRound(Base))
<1> DEFINE r == NewRound(Base)
           h == [seen |-> <<>>, prevote_idx |-> None, precommit_idx |-> None]
<1>1. /\ r = [graph            |-> r.graph,
              prevote          |-> r.prevote,
              precommit        |-> r.precommit,
              equivocations    |-> r.equivocations,
              historical_votes |-> r.historical_votes,
              prevote_ghost    |-> r.prevote_ghost,
              precommit_ghost  |-> r.precommit_ghost,
              finalized        |-> r.finalized,
              estimate         |-> r.estimate,
              completable      |-> r.completable]
      /\ r.graph = NewGraph(Base) /\ r.prevote = EmptyTracker /\ r.precommit = EmptyTracker
      /\ r["prevote"] = EmptyTracker /\ r["precommit"] = EmptyTracker
      /\ r.equivocations = {} /\ r.historical_votes = h
      /\ r.prevote_ghost = None /\ r.precommit_ghost = None
  BY DEF NewRound
<1> HIDE DEF r
<1>2. \A phase \in Phase : r[phase] = EmptyTracker
  BY <1>1, PhaseFacts
<1>3. \A p \in AllBits(Voters) : Cast(r)[p] = None
  <2> TAKE p \in AllBits(Voters)
  <2>1. p \in Nat /\ VoterOfBit(Voters, p).id \in Ids
    BY BitFacts, RoundVotersAssumption DEF Ids, AllBits
  <2>2. r[PhaseOf(p)].votes[VoterOfBit(Voters, p).id] = <<>>
    BY <1>2, <2>1, NewTracker, PhaseFacts
  <2> QED  BY <2>2 DEF Cast, Placed
<1>4. /\ IsVoteGraph(NewGraph(Base), Cast(r))
      /\ DOMAIN NewGraph(Base).entries = {Base} /\ NewGraph(Base).base = Base
  <2>1. Cast(r) \in [DOMAIN Cast(r) -> {None}]
    BY <1>3 DEF Cast
  <2> QED  BY <2>1, BallotFacts, NewGraphFits
<1>5. \A phase \in Phase : \A id \in Ids :
          VoteBit(Voters, id, phase) \in r.equivocations <=> id \in TwoVotes(r[phase])
  BY <1>1, <1>2, NewTracker
<1>6. RoundFits(r)
  BY <1>1, <1>4, <1>5, NewTracker DEF RoundFits
<1>7. GhostFits(r, "prevote", r.prevote_ghost) /\ GhostFits(r, "precommit", r.precommit_ghost)
  BY <1>1 DEF GhostFits
<1>8. HistoryFits(r)
  <2>1. h.seen = <<>> /\ h.prevote_idx = None /\ h.precommit_idx = None
    OBVIOUS
  <2>2. DOMAIN <<>> = {} /\ <<>> \in Seq(SeenVote)
    OBVIOUS
  <2>3. ASSUME NEW phase \in Phase, NEW id \in Ids
        PROVE  /\ DOMAIN Tracked(r[phase].votes[id]) = {}
               /\ \E at \in [DOMAIN Tracked(r[phase].votes[id]) -> DOMAIN <<>>] :
                      SeenAt(<<>>, at, phase, id, Tracked(r[phase].votes[id]))
    <3>1. r[phase].votes[id] = <<>>
      BY <1>2, NewTracker
    <3>2. Tracked(<<>>) = <<>>
      BY DEF Tracked
    <3>3. \E at \in [{} -> {}] : TRUE
      <4>1. [x \in {} |-> x] \in [{} -> {}]
        OBVIOUS
      <4> QED  BY <4>1
    <3>4. \A at : SeenAt(<<>>, at, phase, id, <<>>)
      BY <2>2 DEF SeenAt
    <3> QED  BY <2>2, <3>1, <3>2, <3>3, <3>4
  <2>4. HistoryIsExact(r)
    BY <1>1, <2>1, <2>2, <2>3 DEF HistoryIsExact, Ids
  <2> QED  BY <1>1, <2>1, <2>2, <2>4 DEF HistoryFits
<1> QED  BY <1>6, <1>7, <1>8 DEF RoundOK, r

\* precommit_ghost, and the marks of the owner's votes.
LEMMA AskedFits ==
    ASSUME NEW r, RoundOK(r), NEW u \in CachePrecommitGhost(r)
    PROVE  RoundOK(u)
<1>1. CASE u = r
  BY <1>1
<1>2. CASE SameVotes(r, u) /\ GhostFits(r, "precommit", u.precommit_ghost) /\ u.prevote_ghost = r.prevote_ghost
  <2>1. /\ RoundFits(u) /\ \A phase \in Phase : u[phase] = r[phase]
        /\ GhostFits(u, "prevote", u.prevote_ghost) /\ GhostFits(u, "precommit", u.precommit_ghost)
    BY <1>2, SameVotesFit, PhaseFacts DEF RoundOK
  <2>2. HistoryFits(u)
    <3>1. u.historical_votes = r.historical_votes
      BY <1>2 DEF SameVotes
    <3> QED  BY <2>1, <3>1, HistoryKept DEF RoundOK
  <2> QED  BY <2>1, <2>2 DEF RoundOK
<1> QED  BY <1>1, <1>2, PrecommitGhostFacts DEF RoundOK

LEMMA MarkedFits ==
    ASSUME NEW r, RoundOK(r), NEW phase \in Phase, phase = "prevote" => r.historical_votes.precommit_idx = None
    PROVE  LET u == SetIndex(r, phase)
           IN  RoundOK(u) /\ SameDerived(r, u) /\ u.prevote = r.prevote /\ u.precommit = r.precommit
<1> DEFINE u == SetIndex(r, phase)
<1>1. RoundFits(r) /\ HistoryFits(r) /\ "prevote" \in Phase
  BY PhaseFacts DEF RoundOK
<1>2. HistoryFits(u) /\ u = WithVotes(r, "prevote", r.prevote, r.graph, r.equivocations, u.historical_votes)
  BY <1>1, MarkedFacts
<1> HIDE DEF u
<1>3. /\ u["prevote"] = r.prevote /\ \A ph \in Phase : ph # "prevote" => u[ph] = r[ph]
      /\ u["prevote"] = u.prevote /\ u["precommit"] = u.precommit
      /\ u.graph = r.graph /\ u.equivocations = r.equivocations
      /\ SameDerived(r, u)
  BY <1>1, <1>2, WithVotesFacts DEF SameDerived
<1>4. (\A ph \in Phase : u[ph] = r[ph]) /\ u.prevote = r.prevote /\ u.precommit = r.precommit
  BY <1>1, <1>3, PhaseFacts, RoundPhases
<1>5. Cast(u) = Cast(r)
  <2>1. \A p \in AllBits(Voters) : u[PhaseOf(p)] = r[PhaseOf(p)]
    BY <1>4, PhaseFacts DEF AllBits
  <2> QED  BY <2>1 DEF Cast
<1>6. RoundFits(u)
  <2>1. /\ TrackerFits(r.prevote) /\ r.equivocations \in SUBSET AllBits(Voters)
        /\ \A ph \in Phase : \A i \in Ids : VoteBit(Voters, i, ph) \in r.equivocations <=> i \in TwoVotes(u[ph])
        /\ IsVoteGraph(r.graph, Cast(u)) /\ r.graph.base = Base
        /\ \A b \in DOMAIN r.graph.entries : b = Base \/ \E p \in AllBits(Voters) : Cast(u)[p] = b
    BY <1>1, <1>4, <1>5 DEF RoundFits
  <2> QED  BY <1>1, <1>2, <2>1, WithVotesFit
<1>7. \A ph \in Phase : \A g : GhostFits(r, ph, g) <=> GhostFits(u, ph, g)
  BY <1>3, <1>4 DEF GhostFits
<1>8. GhostFits(u, "prevote", u.prevote_ghost) /\ GhostFits(u, "precommit", u.precommit_ghost)
  BY <1>3, <1>7, PhaseFacts DEF RoundOK, SameDerived
<1> QED  BY <1>2, <1>3, <1>4, <1>6, <1>8 DEF RoundOK, u

\* Every call of import_prevote, import_precommit and precommit_ghost, and every mark, leaves
\* the round well made: the trackers, the vote graph, the equivocations and the history hold
\* the same votes, and the memoised GHOSTs are blocks of the graph that keep their
\* supermajority.
THEOREM RoundStaysWellMade == ImportSpec => []WellMade
<1>1. ImportInit => WellMade
  BY NewRoundFits DEF ImportInit, WellMade
<1>2. WellMade /\ [ImportNext]_importVars => WellMade'
  <2> SUFFICES ASSUME WellMade, [ImportNext]_importVars PROVE WellMade'
    OBVIOUS
  <2>1. electorate' = electorate /\ electorate' \in Electorates /\ RoundOK(round)
    BY DEF ImportNext, WellMade, importVars
  <2>2. ASSUME NEW id \in DOMAIN electorate, NEW ballot \in electorate[id], NEW phase \in Phase,
               NEW result \in Derived(phase, RecordVote(round, phase, id, ballot)), round' = result.round
        PROVE  RoundOK(round')
    <3>1. ballot \in Ballot
      BY <2>1, BallotFacts DEF WellMade
    <3> QED  BY <2>1, <2>2, <3>1, ImportCases
  <2>3. ASSUME NEW id \in DOMAIN electorate, NEW ballot \in electorate[id], ReceivePrevote(id, ballot)
        PROVE  RoundOK(round')
    BY <2>2, <2>3, PhaseFacts DEF ReceivePrevote, ImportPrevote
  <2>4. ASSUME NEW id \in DOMAIN electorate, NEW ballot \in electorate[id], ReceivePrecommit(id, ballot)
        PROVE  RoundOK(round')
    BY <2>2, <2>4, PhaseFacts DEF ReceivePrecommit, ImportPrecommit
  <2>5. ASSUME AskPrecommitGhost PROVE RoundOK(round')
    BY <2>1, <2>5, AskedFits DEF AskPrecommitGhost
  <2>6. ASSUME NEW phase \in Phase, MarkOwnVote(phase) PROVE RoundOK(round')
    BY <2>1, <2>6, MarkedFits DEF MarkOwnVote
  <2>7. CASE UNCHANGED importVars
    <3>1. round' = round
      BY <2>7 DEF importVars
    <3> QED  BY <2>1, <3>1 DEF WellMade
  <2> QED  BY <2>1, <2>3, <2>4, <2>5, <2>6, <2>7 DEF ImportNext, WellMade
<1> QED  BY <1>1, <1>2, PTL DEF ImportSpec


\* The four records agree in every round that is well made.
LEMMA RecordsAgree ==
    ASSUME NEW r, RoundOK(r), NEW phase \in Phase
    PROVE  LET votes   == r[phase].votes
               voted   == {id \in Ids : votes[id] # <<>>}
               placed  == {id \in voted : IsEqualOrDescendentOf(Base, votes[id][1].target)}
               bits(S) == {VoteBit(Voters, id, phase) : id \in S}
               mine(S) == {p \in S : p % 2 = Parity(phase)}
           IN  /\ r[phase].current_weight = SumOfWeights[voted]
               /\ mine(r.equivocations) = bits(TwoVotes(r[phase]))
               /\ mine(r.graph.entries[Base].cumulative_vote) = bits(placed)
<1> DEFINE votes   == r[phase].votes
           voted   == {id \in Ids : votes[id] # <<>>}
           placed  == {id \in voted : IsEqualOrDescendentOf(Base, votes[id][1].target)}
           bits(S) == {VoteBit(Voters, id, phase) : id \in S}
           mine(S) == {p \in S : p % 2 = Parity(phase)}
           held    == r.graph.entries[Base].cumulative_vote
<1>1. RoundFits(r) /\ TrackerFits(r[phase])
  BY RoundPhases DEF RoundOK
<1>2. \A p \in AllBits(Voters) : p % 2 = Parity(phase) =>
          VoterOfBit(Voters, p).id \in Ids /\ p = VoteBit(Voters, VoterOfBit(Voters, p).id, phase)
  BY BitFacts, RoundVotersAssumption DEF Ids
<1>3. \A id \in Ids : VoteBit(Voters, id, phase) \in AllBits(Voters) /\ VoteBit(Voters, id, phase) % 2 = Parity(phase)
  BY BitFacts, RoundVotersAssumption DEF Ids
\* Two sets of bits are the same when they hold the same voters.
<1>4. ASSUME NEW P \in SUBSET AllBits(Voters), NEW S \in SUBSET Ids,
             \A id \in Ids : VoteBit(Voters, id, phase) \in P <=> id \in S
      PROVE  mine(P) = bits(S)
  <2>1. ASSUME NEW p \in mine(P) PROVE p \in bits(S)
    <3>1. p \in AllBits(Voters) /\ p \in P /\ p % 2 = Parity(phase)
      OBVIOUS
    <3>2. VoterOfBit(Voters, p).id \in S
      BY <1>2, <1>4, <3>1
    <3> QED  BY <1>2, <3>1, <3>2
  <2>2. ASSUME NEW p \in bits(S) PROVE p \in mine(P)
    <3>1. PICK id \in S : p = VoteBit(Voters, id, phase)
      BY <2>2
    <3> QED  BY <1>3, <1>4, <3>1
  <2> HIDE DEF mine, bits
  <2> QED  BY <2>1, <2>2
<1>5. r[phase].current_weight = SumOfWeights[voted]
  BY <1>1 DEF TrackerFits
<1>6. mine(r.equivocations) = bits(TwoVotes(r[phase]))
  <2>1. TwoVotes(r[phase]) \in SUBSET Ids /\ r.equivocations \in SUBSET AllBits(Voters)
    BY <1>1 DEF TwoVotes, Ids, RoundFits
  <2>2. \A id \in Ids : VoteBit(Voters, id, phase) \in r.equivocations <=> id \in TwoVotes(r[phase])
    BY <1>1 DEF RoundFits
  <2> HIDE DEF mine, bits
  <2> QED  BY <1>4, <2>1, <2>2
<1>7. mine(held) = bits(placed)
  <2>1. IsVoteGraph(r.graph, Cast(r)) /\ r.graph.base = Base
    BY <1>1 DEF RoundFits
  <2>2. Base \in DOMAIN r.graph.entries /\ VotesFit(r.graph, Cast(r))
    BY <2>1, GraphFacts
  <2>3. held = VotesAt(Cast(r), Base)
    BY <2>2 DEF VotesFit
  <2>4. DOMAIN Cast(r) = AllBits(Voters)
    BY <1>1, RoundPhases
  <2>5. held \in SUBSET AllBits(Voters)
    BY <2>3, <2>4 DEF VotesAt
  <2>6. ASSUME NEW id \in Ids PROVE VoteBit(Voters, id, phase) \in held <=> id \in placed
    <3> DEFINE p == VoteBit(Voters, id, phase)
    <3>1. Cast(r)[p] = Placed(votes[id]) /\ p \in AllBits(Voters)
      BY <1>1, <1>3, RoundPhases
    <3>2. votes[id] # <<>> => votes[id][1].target \in Block
      BY <1>1, FirstFacts
    <3> HIDE DEF p, votes
    <3>3. p \in held <=> Placed(votes[id]) # None /\ Base \in Ancestors[Placed(votes[id])]
      BY <2>3, <2>4, <3>1 DEF VotesAt
    <3>4. p \in held <=> votes[id] # <<>> /\ Base \in Ancestors[votes[id][1].target]
      BY <3>2, <3>3, BallotFacts DEF Placed, IsEqualOrDescendentOf
    <3> QED  BY <3>4 DEF p, IsEqualOrDescendentOf
  <2>7. placed \in SUBSET Ids
    OBVIOUS
  <2> HIDE DEF mine, bits, held, placed
  <2> QED  BY <1>4, <2>5, <2>6, <2>7
<1> QED  BY <1>5, <1>6, <1>7

\* The trackers, the vote graph, the equivocation bits and the history agree, whatever votes
\* arrive in whatever order and however often: import_prevote and import_precommit record a
\* vote in all four or say why not.
THEOREM RecordsStayInAgreement == ImportSpec => []VotesAgree
<1>1. WellMade => VotesAgree
  <2> SUFFICES ASSUME WellMade PROVE VotesAgree
    OBVIOUS
  <2>1. RoundOK(round)
    BY DEF WellMade
  <2>2. HistoryIsExact(round)
    BY <2>1 DEF RoundOK, HistoryFits
  <2> QED  BY <2>1, <2>2, RecordsAgree DEF VotesAgree, Ids
<1> QED  BY <1>1, RoundStaysWellMade, PTL

-----------------------------------------------------------------------------
(* The refinement *)

\* Every behaviour of Round, the votes of any electorate imported in any order, is one of
\* RoundSpec: the prevote-GHOST, the estimate, the finalized block and completability that
\* import_prevote, import_precommit and update keep are those that RoundSpec defines from the
\* votes, so what is proved of RoundSpec holds of the code's round.
THEOREM RoundImplementsRoundSpec == ImportSpec => ImplementsRoundSpec
<1>1. ImportInit => Abstract!Init
  <2> SUFFICES ASSUME round = NewRound(Base) PROVE Abstract!Init
    BY DEF ImportInit
  <2>1. /\ round.prevote = EmptyTracker /\ round.precommit = EmptyTracker
        /\ round.prevote_ghost = None /\ round.precommit_ghost = None
        /\ round.finalized = None /\ round.estimate = None /\ round.completable = FALSE
    BY DEF NewRound
  <2> QED  BY <2>1, NewTracker DEF Abstract!Init, Ids
<1>2. WellMade /\ [ImportNext]_importVars => [Abstract!Next]_(Abstract!vars)
  <2> SUFFICES ASSUME WellMade, [ImportNext]_importVars
               PROVE  Abstract!Next \/ UNCHANGED Abstract!vars
    OBVIOUS
  <2> DEFINE u == round'
  <2>1. /\ FirstTarget(round.prevote)' = FirstTarget(u.prevote)
        /\ FirstTarget(round.precommit)' = FirstTarget(u.precommit)
        /\ TwoVotes(round.prevote)' = TwoVotes(u.prevote)
        /\ TwoVotes(round.precommit)' = TwoVotes(u.precommit)
        /\ round.prevote_ghost' = u.prevote_ghost /\ round.precommit_ghost' = u.precommit_ghost
        /\ round.finalized' = u.finalized /\ round.estimate' = u.estimate
        /\ round.completable' = u.completable
    BY DEF FirstTarget, TwoVotes
  <2>2. RoundOK(round) /\ RoundFits(round) /\ electorate \in Electorates
    BY DEF WellMade, RoundOK
  <2>3. ASSUME SameDerived(round, u), u.prevote = round.prevote, u.precommit = round.precommit
        PROVE  UNCHANGED Abstract!vars
    BY <2>1, <2>3 DEF Abstract!vars, Abstract!votes, SameDerived
  <2>4. ASSUME u = round PROVE UNCHANGED Abstract!vars
    <3>1. SameDerived(round, u)
      BY <2>4 DEF SameDerived
    <3> QED  BY <2>3, <2>4, <3>1
  <2>5. ASSUME NEW phase \in Phase, NEW id \in DOMAIN electorate, NEW ballot \in electorate[id],
               MayArrive(phase, id, ballot),
               NEW result \in Derived(phase, RecordVote(round, phase, id, ballot)), u = result.round
        PROVE  Abstract!Next \/ UNCHANGED Abstract!vars
    <3> DEFINE b == ballot.target
    <3>1. ballot \in Ballot /\ b \in Block
      BY <2>2, BallotFacts
    <3>2. CASE u = round
      BY <2>4, <3>2
    <3>3. CASE /\ RoundOK(u) /\ id \in Ids /\ \A ph \in Phase : ph # phase => u[ph] = round[ph]
               /\ \/ /\ Tallied(round, u, phase, id, ballot)
                     /\ Base \notin Ancestors[b] /\ SameDerived(round, u)
                  \/ /\ Tallied(round, u, phase, id, ballot)
                     /\ Base \in Ancestors[b] /\ IsDerived(phase, round, u)
                  \/ CaughtTwice(round, u, phase, id, ballot) /\ IsDerived(phase, round, u)
      <4>1. RoundFits(u)
        BY <3>3 DEF RoundOK
      <4>2. /\ round["prevote"] = round.prevote /\ round["precommit"] = round.precommit
            /\ u["prevote"] = u.prevote /\ u["precommit"] = u.precommit
        BY <2>2, <4>1, RoundPhases
      <4>3. /\ phase = "prevote" => u.precommit = round.precommit
            /\ phase = "precommit" => u.prevote = round.prevote
        BY <3>3, <4>2, PhaseFacts
      <4>4. Abstract!MayTarget(id, b)
        BY <2>2, <3>3, RoundImportsAssumption DEF Abstract!MayTarget, Abstract!IsEqualOrDescendentOf,
                                                  IsEqualOrDescendentOf, Ids
      <4>5. SumOfWeights[Abstract!Voted(FirstTarget(u.prevote))] >= Abstract!Threshold
                <=> ~(SumOfWeights[Abstract!Voted(FirstTarget(u.prevote))] < Abstract!Threshold)
        BY <4>1, <4>2, EnoughFacts, PhaseFacts, VotedFacts, WeightsAdd
      <4>6. CASE Tallied(round, u, phase, id, ballot) /\ Base \notin Ancestors[b] /\ SameDerived(round, u)
        <5>1. CASE phase = "prevote"
          <6>1. Abstract!ImportPrevote(id, b)
            BY <2>1, <4>2, <4>3, <4>4, <4>6, <5>1
               DEF Tallied, SameDerived, Abstract!ImportPrevote, Abstract!IsEqualOrDescendentOf, Abstract!Derived
          <6> QED  BY <3>1, <3>3, <6>1 DEF Abstract!Next, Ids
        <5>2. CASE phase = "precommit"
          <6>1. Abstract!ImportPrecommit(id, b)
            BY <2>1, <4>2, <4>3, <4>4, <4>6, <5>2
               DEF Tallied, SameDerived, Abstract!ImportPrecommit, Abstract!IsEqualOrDescendentOf
          <6> QED  BY <3>1, <3>3, <6>1 DEF Abstract!Next, Ids
        <5> QED  BY <5>1, <5>2, PhaseFacts
      <4>7. CASE IsDerived(phase, round, u)
        <5>1. Abstract!Update
          BY <2>1, <4>7 DEF IsDerived, Abstract!Update, Abstract!Completes, Completed
        <5>2. phase = "prevote" => Abstract!UpdateGhost /\ u.precommit_ghost = round.precommit_ghost
          BY <2>1, <4>5, <4>7, <5>1 DEF IsDerived, Abstract!UpdateGhost
        <5>3. phase = "precommit" => /\ u.precommit_ghost = round.precommit_ghost
                                     /\ u.prevote_ghost = round.prevote_ghost
          BY <4>7 DEF IsDerived
        <5>4. CASE Tallied(round, u, phase, id, ballot) /\ Base \in Ancestors[b]
          <6>1. CASE phase = "prevote"
            <7>1. Abstract!ImportPrevote(id, b)
              BY <2>1, <4>2, <4>3, <4>4, <5>2, <5>4, <6>1
                 DEF Tallied, Abstract!ImportPrevote, Abstract!IsEqualOrDescendentOf
            <7> QED  BY <3>1, <3>3, <7>1 DEF Abstract!Next, Ids
          <6>2. CASE phase = "precommit"
            <7>1. Abstract!ImportPrecommit(id, b)
              BY <2>1, <4>2, <4>3, <4>4, <5>1, <5>3, <5>4, <6>2
                 DEF Tallied, Abstract!ImportPrecommit, Abstract!IsEqualOrDescendentOf
            <7> QED  BY <3>1, <3>3, <7>1 DEF Abstract!Next, Ids
          <6> QED  BY <6>1, <6>2, PhaseFacts
        <5>5. CASE CaughtTwice(round, u, phase, id, ballot)
          <6>1. id \in Byzantine
            BY <2>5, <3>3, <5>5 DEF MayArrive, CaughtTwice, Ids
          <6>2. CASE phase = "prevote"
            <7>1. Abstract!EquivocatePrevote(id)
              BY <2>1, <4>2, <4>3, <5>2, <5>5, <6>1, <6>2, BallotFacts
                 DEF CaughtTwice, Abstract!EquivocatePrevote
            <7> QED  BY <3>3, <7>1 DEF Abstract!Next, Ids
          <6>3. CASE phase = "precommit"
            <7>1. Abstract!EquivocatePrecommit(id)
              BY <2>1, <4>2, <4>3, <5>1, <5>3, <5>5, <6>1, <6>3, BallotFacts
                 DEF CaughtTwice, Abstract!EquivocatePrecommit
            <7> QED  BY <3>3, <7>1 DEF Abstract!Next, Ids
          <6> QED  BY <6>2, <6>3, PhaseFacts
        <5> QED  BY <3>3, <4>6, <5>4, <5>5
      <4> QED  BY <3>3, <4>6, <4>7
    <3> HIDE DEF u
    <3> QED  BY <2>2, <2>5, <3>1, <3>2, <3>3, ImportCases
  <2>6. ASSUME AskPrecommitGhost PROVE Abstract!Next \/ UNCHANGED Abstract!vars
    <3>1. u \in CachePrecommitGhost(round)
      BY <2>6 DEF AskPrecommitGhost
    <3>2. CASE u = round
      BY <2>4, <3>2
    <3>3. CASE /\ SameVotes(round, u)
               /\ u.prevote_ghost = round.prevote_ghost /\ u.finalized = round.finalized
               /\ u.estimate = round.estimate /\ u.completable = round.completable
               /\ ~(SumOfWeights[Abstract!Voted(FirstTarget(round.precommit))] < Abstract!Threshold)
               /\ u.precommit_ghost \in
                     Abstract!Ghosts(FirstTarget(round.prevote), FirstTarget(round.precommit),
                                     FirstTarget(round.precommit), TwoVotes(round.precommit))
      <4>1. SumOfWeights[Abstract!Voted(FirstTarget(round.precommit))] >= Abstract!Threshold
        <5>1. round["precommit"] = round.precommit
          BY <2>2, RoundPhases
        <5> QED  BY <2>2, <3>3, <5>1, PhaseFacts, VotedFacts, WeightsAdd
      <4>2. u.prevote = round.prevote /\ u.precommit = round.precommit
        BY <3>3 DEF SameVotes
      <4>3. Abstract!ComputePrecommitGhost
        BY <2>1, <3>3, <4>1, <4>2 DEF Abstract!ComputePrecommitGhost, Abstract!votes, Abstract!Derived
      <4> QED  BY <4>3 DEF Abstract!Next
    <3> HIDE DEF u
    <3> QED  BY <2>2, <3>1, <3>2, <3>3, PrecommitGhostFacts DEF RoundOK
  <2>7. ASSUME NEW phase \in Phase, MarkOwnVote(phase) PROVE UNCHANGED Abstract!vars
    <3>1. u = SetIndex(round, phase) /\ (phase = "prevote" => round.historical_votes.precommit_idx = None)
      BY <2>7 DEF MarkOwnVote
    <3> HIDE DEF u
    <3>2. SameDerived(round, u) /\ u.prevote = round.prevote /\ u.precommit = round.precommit
      BY <2>2, <3>1, MarkedFits
    <3> QED  BY <2>3, <3>2
  <2>8. CASE UNCHANGED importVars
    BY <2>4, <2>8 DEF importVars
  <2>9. ASSUME NEW id \in DOMAIN electorate, NEW ballot \in electorate[id], ReceivePrevote(id, ballot)
        PROVE  Abstract!Next \/ UNCHANGED Abstract!vars
    BY <2>5, <2>9, PhaseFacts DEF ReceivePrevote, ImportPrevote
  <2>10. ASSUME NEW id \in DOMAIN electorate, NEW ballot \in electorate[id], ReceivePrecommit(id, ballot)
         PROVE  Abstract!Next \/ UNCHANGED Abstract!vars
    BY <2>5, <2>10, PhaseFacts DEF ReceivePrecommit, ImportPrecommit
  <2> QED  BY <2>6, <2>7, <2>8, <2>9, <2>10 DEF ImportNext
<1> QED  BY <1>1, <1>2, RoundStaysWellMade, PTL DEF ImportSpec, ImplementsRoundSpec, Abstract!Spec
=============================================================================
