-------------------------- MODULE RoundVotesProofs --------------------------
(***************************************************************************)
(* Facts about the operators of RoundVotes, for every voter set, block     *)
(* tree and base: what VotingRoundProofs and ProtocolProofs rest on.       *)
(***************************************************************************)
EXTENDS RoundVotes, FiniteSetTheorems, TLAPS

-----------------------------------------------------------------------------
(* Blocks *)

\* A block is on its own chain, and no two blocks are below each other.
LEMMA TreeFacts ==
    /\ \A b \in Block : /\ b \in Ancestors[b] /\ Ancestors[b] \subseteq Block
                        /\ ChainTo(b) \subseteq Block /\ ChainTo(b) \subseteq Ancestors[b]
    /\ \A a, b \in Block : a \in Ancestors[b] => Ancestors[a] \subseteq Ancestors[b]
    /\ \A a, b \in Block : a \in Ancestors[b] /\ b \in Ancestors[a] => a = b
    /\ \A b \in Block : \A x, y \in Ancestors[b] : x \in Ancestors[y] \/ y \in Ancestors[x]
<1>1. \A a, b \in Block : a \in Ancestors[b] /\ b \in Ancestors[a] => a = b
  <2> SUFFICES ASSUME NEW a \in Block, NEW b \in Block, a \in Ancestors[b], b \in Ancestors[a], a # b
               PROVE  FALSE
    OBVIOUS
  <2>1. Number[a] < Number[b] /\ Number[b] < Number[a] /\ Number[a] \in Nat /\ Number[b] \in Nat
    BY BlockTreeAssumption
  <2> QED  BY <2>1
<1> QED  BY <1>1, BlockTreeAssumption DEF ChainTo

-----------------------------------------------------------------------------
(* Weights *)

\* The threshold is a supermajority: less than a third of the weight may be faulty.
LEMMA ThresholdFacts ==
    /\ TotalWeight \in Nat
    /\ Faulty \in Nat
    /\ Threshold \in Nat
    /\ TotalWeight = Threshold + Faulty
    /\ 3 * Faulty < TotalWeight
<1>1. TotalWeight \in Nat /\ TotalWeight > 0
  BY WeightAssumption DEF TotalWeight
<1>2. Faulty \in Nat /\ 3 * Faulty < TotalWeight
  BY <1>1 DEF Faulty
<1> QED  BY <1>1, <1>2 DEF Threshold

\* The weight of a set of voters is a natural number, at most that of a larger set.
LEMMA WeightMonotone ==
    ASSUME NEW S \in SUBSET Voter, NEW T \in SUBSET Voter, S \subseteq T
    PROVE  Weight[S] \in Nat /\ Weight[T] \in Nat /\ Weight[S] <= Weight[T]
<1>1. S \union (T \ S) = T /\ S \intersect (T \ S) = {}
  OBVIOUS
<1>2. T \ S \in SUBSET Voter
  OBVIOUS
<1>3. Weight[S \union (T \ S)] + Weight[S \intersect (T \ S)] = Weight[S] + Weight[T \ S]
  BY <1>2, WeightAssumption
<1>4. Weight[S] \in Nat /\ Weight[T] \in Nat /\ Weight[T \ S] \in Nat /\ Weight[{}] = 0
  BY <1>2, WeightAssumption
<1> QED  BY <1>1, <1>3, <1>4

\* A voter that joins a set adds its own weight.
LEMMA WeightOfOneMore ==
    ASSUME NEW S \in SUBSET Voter, NEW v \in Voter, v \notin S
    PROVE  /\ Weight[{v}] \in Nat
           /\ Weight[S \union {v}] = Weight[S] + Weight[{v}]
<1>1. S \intersect {v} = {}
  OBVIOUS
<1>2. Weight[S \union {v}] + Weight[S \intersect {v}] = Weight[S] + Weight[{v}]
  BY WeightAssumption
<1>3. Weight[S \union {v}] \in Nat /\ Weight[{v}] \in Nat /\ Weight[S] \in Nat
  BY WeightAssumption
<1>4. Weight[S \intersect {v}] = 0
  BY <1>1, WeightAssumption
<1> QED  BY <1>2, <1>3, <1>4

\* Two supermajorities share more weight than may be faulty.
LEMMA QuorumIntersection ==
    ASSUME NEW S \in SUBSET Voter, NEW T \in SUBSET Voter,
           Weight[S] >= Threshold, Weight[T] >= Threshold
    PROVE  Weight[S \intersect T] > Faulty
<1>1. Weight[S \union T] + Weight[S \intersect T] = Weight[S] + Weight[T]
  BY WeightAssumption
<1>2. Weight[S \union T] <= TotalWeight
  BY WeightMonotone DEF TotalWeight
<1>3. /\ Weight[S] \in Nat /\ Weight[T] \in Nat
      /\ Weight[S \union T] \in Nat /\ Weight[S \intersect T] \in Nat
  BY WeightAssumption
<1> QED  BY <1>1, <1>2, <1>3, ThresholdFacts

-----------------------------------------------------------------------------
(* Votes *)

VoteMap == [Voter -> OptionBlock]

\* Voters on a block are voters that voted; voters on a block are on every block below it.
LEMMA OnFacts ==
    ASSUME NEW vs \in VoteMap, NEW E \in SUBSET Voter, E \subseteq Voted(vs), NEW b \in Block
    PROVE  /\ Voted(vs) \in SUBSET Voter
           /\ On(vs, E, b) \in SUBSET Voter
           /\ E \subseteq On(vs, E, b)
           /\ On(vs, E, b) \subseteq Voted(vs)
           /\ \A a \in Ancestors[b] : On(vs, E, b) \subseteq On(vs, E, a)
<1>1. \A x \in Block : b \in Ancestors[x] => Ancestors[b] \subseteq Ancestors[x]
  BY BlockTreeAssumption
<1> QED  BY <1>1 DEF On, Voted

\* The same in weights.
LEMMA OnWeights ==
    ASSUME NEW vs \in VoteMap, NEW E \in SUBSET Voter, E \subseteq Voted(vs), NEW b \in Block
    PROVE  /\ Weight[E] \in Nat /\ Weight[On(vs, E, b)] \in Nat /\ Weight[Voted(vs)] \in Nat
           /\ Weight[E] <= Weight[On(vs, E, b)]
           /\ Weight[On(vs, E, b)] <= Weight[Voted(vs)]
           /\ Weight[Voted(vs)] <= TotalWeight
           /\ \A a \in Ancestors[b] : /\ Weight[On(vs, E, a)] \in Nat
                                      /\ Weight[On(vs, E, b)] <= Weight[On(vs, E, a)]
<1>1. /\ Voted(vs) \in SUBSET Voter
      /\ On(vs, E, b) \in SUBSET Voter
      /\ E \subseteq On(vs, E, b)
      /\ On(vs, E, b) \subseteq Voted(vs)
      /\ \A a \in Ancestors[b] : On(vs, E, b) \subseteq On(vs, E, a)
  BY OnFacts
<1>2. \A a : On(vs, E, a) \in SUBSET Voter
  BY DEF On
<1>3. Weight[E] \in Nat /\ Weight[On(vs, E, b)] \in Nat /\ Weight[E] <= Weight[On(vs, E, b)]
  BY <1>1, WeightMonotone
<1>4. Weight[Voted(vs)] \in Nat /\ Weight[On(vs, E, b)] <= Weight[Voted(vs)]
  BY <1>1, WeightMonotone
<1>5. Weight[Voted(vs)] <= TotalWeight
  BY <1>1, WeightMonotone DEF TotalWeight
<1>6. ASSUME NEW a \in Ancestors[b]
      PROVE  Weight[On(vs, E, a)] \in Nat /\ Weight[On(vs, E, b)] <= Weight[On(vs, E, a)]
  BY <1>1, <1>2, WeightMonotone
<1> QED  BY <1>3, <1>4, <1>5, <1>6

\* possible_to_precommit in numbers, with e the weight of the equivocators seen.
Reach(current, for, e) ==
    for + (TotalWeight - current)
        + MinOf(current - for, IF e > Faulty THEN 0 ELSE Faulty - e) >= Threshold

\* Possible is Reach of the three weights it looks at.
LEMMA PossibleIsReach ==
    ASSUME NEW pcs, NEW E, NEW b
    PROVE  Possible(pcs, E, b) <=>
               Reach(Weight[Voted(pcs)], Weight[On(pcs, E, b)], Weight[E])
BY DEF Possible, Reach, AdditionalEquivocations

\* What can get a supermajority, every block below it can.
LEMMA PossibleBelow ==
    ASSUME NEW vs \in VoteMap, NEW E \in SUBSET Voter, E \subseteq Voted(vs),
           NEW b \in Block, NEW a \in Ancestors[b], Possible(vs, E, b)
    PROVE  Possible(vs, E, a)
<1>1. /\ Weight[E] \in Nat /\ Weight[On(vs, E, b)] \in Nat /\ Weight[Voted(vs)] \in Nat
      /\ Weight[On(vs, E, a)] \in Nat
      /\ Weight[On(vs, E, b)] <= Weight[On(vs, E, a)]
  BY OnWeights
<1>2. a \in Block
  BY BlockTreeAssumption
<1>3. Weight[On(vs, E, a)] <= Weight[Voted(vs)] /\ Weight[Voted(vs)] <= TotalWeight
  BY <1>2, OnWeights
<1>4. Reach(Weight[Voted(vs)], Weight[On(vs, E, b)], Weight[E])
  BY PossibleIsReach
<1>5. \A cur, fa, fb, e \in Nat :
         fb <= fa /\ fa <= cur /\ cur <= TotalWeight /\ Reach(cur, fb, e) => Reach(cur, fa, e)
  BY ThresholdFacts DEF Reach, MinOf
<1>6. Reach(Weight[Voted(vs)], Weight[On(vs, E, a)], Weight[E])
  BY <1>1, <1>3, <1>4, <1>5
<1> QED  BY <1>6, PossibleIsReach

\* A block with a supermajority can get one.
LEMMA HeavyIsPossible ==
    ASSUME NEW vs \in VoteMap, NEW E \in SUBSET Voter, E \subseteq Voted(vs),
           NEW b \in Block, Heavy(vs, E, b)
    PROVE  Possible(vs, E, b)
<1>1. /\ Weight[E] \in Nat /\ Weight[On(vs, E, b)] \in Nat /\ Weight[Voted(vs)] \in Nat
      /\ Weight[On(vs, E, b)] <= Weight[Voted(vs)] /\ Weight[Voted(vs)] <= TotalWeight
  BY OnWeights
<1>2. \A cur, for, e \in Nat :
         for <= cur /\ cur <= TotalWeight /\ for >= Threshold => Reach(cur, for, e)
  BY ThresholdFacts DEF Reach, MinOf
<1>3. Weight[On(vs, E, b)] >= Threshold
  BY DEF Heavy
<1>4. Reach(Weight[Voted(vs)], Weight[On(vs, E, b)], Weight[E])
  BY <1>1, <1>2, <1>3
<1> QED  BY <1>4, PossibleIsReach

\* The comment in update(): with a supermajority of precommits, a block nobody voted for
\* can not get one of its own.
LEMMA UnvotedIsImpossible ==
    ASSUME NEW vs \in VoteMap, NEW E \in SUBSET Voter, E \subseteq Voted(vs),
           Weight[E] <= Faulty, Weight[Voted(vs)] >= Threshold,
           NEW b \in Block, On(vs, E, b) = E
    PROVE  ~Possible(vs, E, b)
<1>1. /\ Weight[E] \in Nat /\ Weight[Voted(vs)] \in Nat /\ Weight[Voted(vs)] <= TotalWeight
      /\ Weight[On(vs, E, b)] = Weight[E] /\ Weight[E] <= Weight[Voted(vs)]
  BY OnWeights
<1>2. \A cur, e \in Nat :
         e <= Faulty /\ e <= cur /\ cur <= TotalWeight /\ cur >= Threshold => ~Reach(cur, e, e)
  BY ThresholdFacts DEF Reach, MinOf
<1>3. ~Reach(Weight[Voted(vs)], Weight[On(vs, E, b)], Weight[E])
  BY <1>1, <1>2
<1> QED  BY <1>3, PossibleIsReach

\* While those off the base weigh at most Faulty, the base can get a supermajority.
LEMMA BaseIsPossible ==
    ASSUME NEW vs \in VoteMap, NEW E \in SUBSET Voter, E \subseteq Voted(vs),
           \A v \in Voter \ Byzantine : vs[v] \in Block => Base \in Ancestors[vs[v]]
    PROVE  Possible(vs, E, Base)
<1> DEFINE on == On(vs, E, Base)
           off == Voted(vs) \ on
<1>1. Base \in Block /\ Byzantine \in SUBSET Voter
  BY RoundAssumption
<1>2. /\ Weight[E] \in Nat /\ Weight[on] \in Nat /\ Weight[Voted(vs)] \in Nat
      /\ Weight[on] <= Weight[Voted(vs)] /\ Weight[Voted(vs)] <= TotalWeight
  BY <1>1, OnWeights
<1>3. on \in SUBSET Voter /\ off \in SUBSET Voter /\ on \subseteq Voted(vs)
  BY <1>1, OnFacts
<1>4. off \subseteq Byzantine
  BY DEF On, Voted
<1>5. Weight[off] \in Nat /\ Weight[off] <= Faulty
  <2>1. Weight[off] \in Nat /\ Weight[Byzantine] \in Nat /\ Weight[off] <= Weight[Byzantine]
    BY <1>1, <1>3, <1>4, WeightMonotone
  <2> QED  BY <2>1, RoundAssumption, ThresholdFacts
<1>6. Weight[Voted(vs)] = Weight[on] + Weight[off]
  <2>1. on \union off = Voted(vs) /\ on \intersect off = {}
    BY <1>3
  <2>2. Weight[on \union off] + Weight[on \intersect off] = Weight[on] + Weight[off]
    BY <1>3, WeightAssumption
  <2>3. Weight[on \intersect off] = 0
    BY <2>1, WeightAssumption
  <2>4. Weight[on \union off] = Weight[Voted(vs)]
    BY <2>1
  <2> QED  BY <1>2, <1>5, <2>2, <2>3, <2>4
<1>7. \A cur, for, x, e \in Nat :
         cur = for + x /\ x <= Faulty /\ cur <= TotalWeight => Reach(cur, for, e)
  BY ThresholdFacts DEF Reach, MinOf
<1>8. Reach(Weight[Voted(vs)], Weight[on], Weight[E])
  BY <1>2, <1>5, <1>6, <1>7
<1> QED  BY <1>8, PossibleIsReach

\* The first vote of v, wherever it goes, makes no block possible.
LEMMA FirstVoteRulesOut ==
    ASSUME NEW vs \in VoteMap, NEW E \in SUBSET Voter, E \subseteq Voted(vs),
           NEW v \in Voter, vs[v] = None, NEW t \in Block, NEW b \in Block,
           Possible([vs EXCEPT ![v] = t], E, b)
    PROVE  Possible(vs, E, b)
<1> DEFINE ws == [vs EXCEPT ![v] = t]
           w == Weight[{v}]
<1>1. v \notin Voted(vs) /\ v \notin E /\ v \notin On(vs, E, b)
  BY BlockTreeAssumption DEF On, Voted
<1>2. ws \in VoteMap
  BY DEF VoteMap, OptionBlock
<1>3. Voted(ws) = Voted(vs) \union {v}
  BY DEF Voted, VoteMap
<1>4. On(ws, E, b) = On(vs, E, b) \/ On(ws, E, b) = On(vs, E, b) \union {v}
  BY <1>1 DEF On, VoteMap
<1>5. E \subseteq Voted(ws)
  BY <1>3
<1>6. /\ Weight[E] \in Nat /\ Weight[On(vs, E, b)] \in Nat /\ Weight[Voted(vs)] \in Nat
      /\ Weight[On(vs, E, b)] <= Weight[Voted(vs)]
  BY OnWeights
<1>7. Weight[Voted(ws)] <= TotalWeight
  BY <1>2, <1>5, OnWeights
<1>8. w \in Nat /\ Weight[Voted(ws)] = Weight[Voted(vs)] + w
  BY <1>1, <1>3, WeightOfOneMore DEF Voted
<1>9. \/ Weight[On(ws, E, b)] = Weight[On(vs, E, b)]
      \/ Weight[On(ws, E, b)] = Weight[On(vs, E, b)] + w
  <2>1. On(vs, E, b) \in SUBSET Voter
    BY DEF On
  <2>2. Weight[On(vs, E, b) \union {v}] = Weight[On(vs, E, b)] + w
    BY <1>1, <2>1, WeightOfOneMore
  <2> QED  BY <1>4, <2>2
<1>10. Reach(Weight[Voted(ws)], Weight[On(ws, E, b)], Weight[E])
  BY PossibleIsReach
<1>11. \A cur, for, e, x \in Nat :
          for <= cur /\ cur + x <= TotalWeight
              /\ (Reach(cur + x, for, e) \/ Reach(cur + x, for + x, e)) => Reach(cur, for, e)
  BY ThresholdFacts DEF Reach, MinOf
<1>12. Reach(Weight[Voted(vs)], Weight[On(vs, E, b)], Weight[E])
  BY <1>6, <1>7, <1>8, <1>9, <1>10, <1>11
<1> QED  BY <1>12, PossibleIsReach

\* Nor does an equivocation that is still tolerated.
LEMMA EquivocationRulesOut ==
    ASSUME NEW vs \in VoteMap, NEW E \in SUBSET Voter, E \subseteq Voted(vs),
           NEW v \in Voted(vs), v \notin E, Weight[E \union {v}] <= Faulty, NEW b \in Block,
           Possible(vs, E \union {v}, b)
    PROVE  Possible(vs, E, b)
<1> DEFINE F == E \union {v}
           w == Weight[{v}]
<1>1. v \in Voter /\ F \in SUBSET Voter /\ F \subseteq Voted(vs)
  BY DEF Voted
<1>2. On(vs, F, b) = On(vs, E, b) \union {v}
  BY <1>1 DEF On
<1>3. w \in Nat /\ Weight[F] = Weight[E] + w
  BY <1>1, WeightOfOneMore
<1>4. /\ Weight[E] \in Nat /\ Weight[On(vs, E, b)] \in Nat /\ Weight[Voted(vs)] \in Nat
      /\ Weight[On(vs, E, b)] <= Weight[Voted(vs)] /\ Weight[Voted(vs)] <= TotalWeight
  BY OnWeights
<1>5. Weight[On(vs, F, b)] <= Weight[Voted(vs)]
  BY <1>1, OnWeights
<1>6. \/ Weight[On(vs, F, b)] = Weight[On(vs, E, b)]
      \/ Weight[On(vs, F, b)] = Weight[On(vs, E, b)] + w
  <2>1. On(vs, E, b) \in SUBSET Voter
    BY DEF On
  <2>2. CASE v \in On(vs, E, b)
    BY <1>2, <2>2
  <2>3. CASE v \notin On(vs, E, b)
    BY <1>1, <1>2, <2>1, <2>3, WeightOfOneMore
  <2> QED  BY <2>2, <2>3
<1>7. Reach(Weight[Voted(vs)], Weight[On(vs, F, b)], Weight[F])
  BY PossibleIsReach
<1>8. \A cur, for, e, x \in Nat :
         e + x <= Faulty /\ for <= cur /\ cur <= TotalWeight
             /\ (Reach(cur, for, e + x) \/ (for + x <= cur /\ Reach(cur, for + x, e + x)))
             => Reach(cur, for, e)
  BY ThresholdFacts DEF Reach, MinOf
<1>9. Reach(Weight[Voted(vs)], Weight[On(vs, E, b)], Weight[E])
  BY <1>3, <1>4, <1>5, <1>6, <1>7, <1>8
<1> QED  BY <1>9, PossibleIsReach

\* More voters on a block keep its supermajority.
LEMMA HeavyGrows ==
    ASSUME NEW vs \in VoteMap, NEW E \in SUBSET Voter, NEW ws \in VoteMap, NEW F \in SUBSET Voter,
           \A v \in Voter : vs[v] \in Block => ws[v] = vs[v], E \subseteq F
    PROVE  /\ Weight[Voted(vs)] <= Weight[Voted(ws)]
           /\ \A b \in Block : Heavy(vs, E, b) => Heavy(ws, F, b)
<1>1. Voted(vs) \in SUBSET Voter /\ Voted(ws) \in SUBSET Voter /\ Voted(vs) \subseteq Voted(ws)
  BY DEF Voted
<1>2. ASSUME NEW b \in Block, Heavy(vs, E, b)
      PROVE  Heavy(ws, F, b)
  <2>1. On(vs, E, b) \in SUBSET Voter /\ On(ws, F, b) \in SUBSET Voter
    BY DEF On
  <2>2. On(vs, E, b) \subseteq On(ws, F, b)
    BY DEF On
  <2>3. /\ Weight[On(vs, E, b)] \in Nat /\ Weight[On(ws, F, b)] \in Nat
        /\ Weight[On(vs, E, b)] <= Weight[On(ws, F, b)]
    BY <2>1, <2>2, WeightMonotone
  <2> QED  BY <1>2, <2>3, ThresholdFacts DEF Heavy
<1> QED  BY <1>1, <1>2, WeightMonotone

\* The weight of equivocators stays tolerated: only Byzantine voters equivocate.
LEMMA EquivocatorsTolerated ==
    ASSUME NEW E, E \subseteq Byzantine
    PROVE  E \in SUBSET Voter /\ Weight[E] \in Nat /\ Weight[E] <= Faulty
<1>1. Byzantine \in SUBSET Voter /\ E \in SUBSET Voter
  BY RoundAssumption
<1>2. Weight[E] \in Nat /\ Weight[Byzantine] \in Nat /\ Weight[E] <= Weight[Byzantine]
  BY <1>1, WeightMonotone
<1> QED  BY <1>1, <1>2, RoundAssumption, ThresholdFacts

\* Two blocks with supermajorities have a vote above both of them: the blocks are on
\* one chain.
LEMMA CommonVoter ==
    ASSUME NEW vs \in VoteMap, NEW E, E \subseteq Byzantine, NEW a \in Block, NEW b \in Block,
           Heavy(vs, E, a), Heavy(vs, E, b)
    PROVE  \E v \in Voter : vs[v] \in Block /\ a \in Ancestors[vs[v]] /\ b \in Ancestors[vs[v]]
<1> DEFINE both == On(vs, E, a) \intersect On(vs, E, b)
<1>1. On(vs, E, a) \in SUBSET Voter /\ On(vs, E, b) \in SUBSET Voter /\ both \in SUBSET Voter
  BY DEF On
<1>2. Weight[both] > Faulty
  BY <1>1, QuorumIntersection DEF Heavy
<1>3. E \in SUBSET Voter /\ Weight[E] \in Nat /\ Weight[E] <= Faulty
  BY EquivocatorsTolerated
<1>4. ~(both \subseteq E)
  <2> SUFFICES ASSUME both \subseteq E PROVE FALSE
    OBVIOUS
  <2>1. Weight[both] \in Nat /\ Weight[both] <= Weight[E]
    BY <1>1, <1>3, WeightMonotone
  <2> QED  BY <1>2, <1>3, <2>1, ThresholdFacts
<1>5. PICK v \in both : v \notin E
  BY <1>4
<1> QED  BY <1>5 DEF On

\* A block with a supermajority needs one of votes cast at all.
LEMMA HeavyNeedsVotes ==
    ASSUME NEW vs \in VoteMap, NEW E \in SUBSET Voter, E \subseteq Voted(vs), NEW b \in Block,
           Heavy(vs, E, b)
    PROVE  Weight[Voted(vs)] >= Threshold
<1>1. /\ Weight[On(vs, E, b)] \in Nat /\ Weight[Voted(vs)] \in Nat
      /\ Weight[On(vs, E, b)] <= Weight[Voted(vs)]
  BY OnWeights
<1>2. Weight[On(vs, E, b)] >= Threshold
  BY DEF Heavy
<1> QED  BY <1>1, <1>2, ThresholdFacts

-----------------------------------------------------------------------------
(* The searches find something *)

\* A set of numbers has a least one.
LEMMA LeastNumber ==
    ASSUME NEW T \in SUBSET Nat, T # {}
    PROVE  \E n \in T : \A m \in T : n <= m
<1>1. PICK n \in T : \A m \in T : ~ (<<m, n>> \in OpToRel(<, Nat))
  BY NatLessThanWellFounded, WFMin
<1>2. \A m \in T : ~(m < n)
  BY <1>1 DEF OpToRel
<1> QED  BY <1>2

\* A bounded set of numbers has a greatest one.
LEMMA GreatestNumber ==
    ASSUME NEW T \in SUBSET Nat, T # {}, NEW n \in Nat, \A m \in T : m <= n
    PROVE  \E k \in T : \A m \in T : m <= k
<1> DEFINE gaps == {n - m : m \in T}
<1>1. gaps \in SUBSET Nat /\ gaps # {}
  <2>1. \A m \in T : n - m \in Nat
    OBVIOUS
  <2> QED  BY <2>1
<1>2. PICK d \in gaps : \A m \in gaps : d <= m
  BY <1>1, LeastNumber
<1>3. PICK k \in T : d = n - k
  OBVIOUS
<1>4. ASSUME NEW m \in T PROVE m <= k
  <2>1. n - k <= n - m
    BY <1>2, <1>3
  <2> QED  BY <2>1
<1> QED  BY <1>4

\* The numbers that a finite set is mapped to are bounded.
LEMMA FiniteImageIsBounded ==
    ASSUME NEW S, IsFiniteSet(S), NEW f \in [S -> Nat]
    PROVE  \E n \in Nat : \A s \in S : f[s] <= n
<1> DEFINE bounded(A) == \E n \in Nat : \A s \in A : f[s] <= n
           unbounded == {A \in SUBSET S : ~bounded(A)}
<1>1. SUFFICES ASSUME unbounded # {} PROVE FALSE
  OBVIOUS
<1>2. FiniteSubsetsOf(S) = SUBSET S
  BY FS_FiniteSubsetsOfFinite
<1>3. IsWellFoundedOn(StrictSubsetOrdering(S), SUBSET S)
  BY <1>2, FS_StrictSubsetOrderingWellFounded
<1>4. PICK A \in unbounded : \A B \in unbounded : ~ (<<B, A>> \in StrictSubsetOrdering(S))
  <2>1. unbounded \subseteq SUBSET S
    OBVIOUS
  <2> QED  BY <1>1, <1>3, <2>1, WFMin
<1>5. \A B \in unbounded : ~(B \subseteq A /\ B # A)
  BY <1>4 DEF StrictSubsetOrdering
<1>6. CASE A = {}
  BY <1>6
<1>7. CASE A # {}
  <2>1. PICK x \in A : TRUE
    BY <1>7
  <2>2. bounded(A \ {x})
    <3>1. A \ {x} \in SUBSET S /\ A \ {x} \subseteq A /\ A \ {x} # A
      BY <2>1
    <3>2. A \ {x} \notin unbounded
      BY <1>5, <3>1
    <3> QED  BY <3>1, <3>2
  <2>3. PICK n \in Nat : \A s \in A \ {x} : f[s] <= n
    BY <2>2
  <2>4. f[x] \in Nat
    BY <2>1
  <2>5. \A s \in A : f[s] <= n + f[x]
    <3> TAKE s \in A
    <3>1. f[s] \in Nat
      OBVIOUS
    <3> QED  BY <2>3, <2>4, <3>1
  <2>6. n + f[x] \in Nat
    BY <2>4
  <2>7. bounded(A)
    BY <2>5, <2>6
  <2> QED  BY <2>7
<1> QED  BY <1>6, <1>7

\* Blocks on a chain have numbers up to that of its head, and higher blocks higher numbers.
LEMMA NumberFacts ==
    /\ \A b \in Block : Number[b] \in Nat
    /\ \A b \in Block : \A a \in Ancestors[b] : Number[a] <= Number[b]
    /\ \A a, b \in Block : a \in Ancestors[b] /\ a # b => Number[a] < Number[b]
<1>1. \A b \in Block : \A a \in Ancestors[b] : a \in Block
  BY TreeFacts
<1> QED  BY <1>1, BlockTreeAssumption

\* find_ancestor: on the chain to g there is a highest block of S, or none of S at all.
LEMMA HighestExists ==
    ASSUME NEW g \in Block, NEW S
    PROVE  \E x : x \in Highest(g, S)
<1> DEFINE C == ChainTo(g) \intersect S
           numbers == {Number[y] : y \in C}
<1>1. C \subseteq Block /\ C \subseteq Ancestors[g]
  BY TreeFacts
<1>2. CASE C = {}
  <2>1. None \in Highest(g, S)
    BY <1>2 DEF Highest, OptionBlock
  <2> QED  BY <2>1
<1>3. CASE C # {}
  <2>1. numbers \in SUBSET Nat /\ numbers # {} /\ \A m \in numbers : m <= Number[g]
    BY <1>1, <1>3, NumberFacts
  <2>2. Number[g] \in Nat
    BY NumberFacts
  <2>3. PICK k \in numbers : \A m \in numbers : m <= k
    BY <2>1, <2>2, GreatestNumber
  <2>4. PICK x \in C : k = Number[x]
    BY <2>3
  <2>5. ASSUME NEW y \in C PROVE y \in Ancestors[x]
    <3>1. x \in Block /\ y \in Block /\ Number[x] \in Nat /\ Number[y] \in Nat
      BY <1>1, NumberFacts
    <3>2. x \in Ancestors[y] \/ y \in Ancestors[x]
      BY <1>1, TreeFacts
    <3>3. Number[y] <= Number[x]
      BY <2>3, <2>4
    <3>4. ~(x \in Ancestors[y] /\ x # y)
      BY <3>1, <3>3, NumberFacts
    <3> QED  BY <3>1, <3>2, <3>4, TreeFacts
  <2>6. x # None /\ x \in OptionBlock
    BY <1>1, BlockTreeAssumption DEF OptionBlock
  <2>7. x \in Highest(g, S)
    BY <2>5, <2>6 DEF Highest
  <2> QED  BY <2>7
<1> QED  BY <1>2, <1>3

\* find_ghost: unless the base has no supermajority, there is a block that has one and none
\* above it that does.
LEMMA GhostExists ==
    ASSUME NEW vs \in VoteMap, NEW E, E \subseteq Byzantine
    PROVE  \E x : x \in Ghosts(vs, vs, vs, E)
<1> DEFINE C == {b \in Block : InGraph(vs, vs, b) /\ Heavy(vs, E, b)}
           numbers == {Number[y] : y \in C}
           reach == [v \in Voter |-> IF vs[v] \in Block THEN Number[vs[v]] ELSE 0]
<1>1. CASE ~Heavy(vs, E, Base)
  <2>1. None \in Ghosts(vs, vs, vs, E)
    BY <1>1 DEF Ghosts, OptionBlock
  <2> QED  BY <2>1
<1>2. CASE Heavy(vs, E, Base)
  <2>1. Base \in C
    BY <1>2, RoundAssumption, TreeFacts DEF InGraph
  <2>2. reach \in [Voter -> Nat]
    BY NumberFacts
  <2>3. PICK n \in Nat : \A v \in Voter : reach[v] <= n
    <3> HIDE DEF reach
    <3> QED  BY <2>2, VotersAssumption, FiniteImageIsBounded
  <2>4. ASSUME NEW b \in C PROVE Number[b] \in Nat /\ Number[b] <= n
    <3>1. PICK v \in Voter : vs[v] \in Block /\ b \in Ancestors[vs[v]]
      BY CommonVoter
    <3>2. Number[b] \in Nat /\ Number[vs[v]] \in Nat /\ Number[b] <= Number[vs[v]]
      BY <3>1, NumberFacts
    <3>3. Number[vs[v]] <= n
      BY <2>3, <3>1
    <3> QED  BY <3>2, <3>3
  <2>5. numbers \in SUBSET Nat /\ numbers # {} /\ \A m \in numbers : m <= n
    BY <2>1, <2>4
  <2>6. PICK k \in numbers : \A m \in numbers : m <= k
    BY <2>5, GreatestNumber
  <2>7. PICK x \in C : k = Number[x]
    BY <2>6
  <2>8. ASSUME NEW y \in Block, InGraph(vs, vs, y), Below(x, y) PROVE ~Heavy(vs, E, y)
    <3> SUFFICES ASSUME Heavy(vs, E, y) PROVE FALSE
      OBVIOUS
    <3>1. y \in C
      BY <2>8
    <3>2. Number[y] <= Number[x]
      BY <2>6, <2>7, <3>1
    <3>3. Number[x] < Number[y] /\ Number[x] \in Nat /\ Number[y] \in Nat
      BY <2>8, NumberFacts DEF Below
    <3> QED  BY <3>2, <3>3
  <2>9. x # None /\ x \in OptionBlock
    BY BlockTreeAssumption DEF OptionBlock
  <2>10. x \in Ghosts(vs, vs, vs, E)
    BY <2>8, <2>9 DEF Ghosts
  <2> QED  BY <2>10
<1> QED  BY <1>1, <1>2

-----------------------------------------------------------------------------
(* What correct voters have voted for *)

\* The correct voters whose vote is elsewhere than at or above b.
Off(vs, b) == {v \in Voter \ Byzantine : vs[v] \in Block /\ b \notin Ancestors[vs[v]]}

\* While the correct voters off b weigh at most what is tolerated, b can get a supermajority,
\* whatever the others do.
LEMMA FewOffIsPossible ==
    ASSUME NEW vs \in VoteMap, NEW E, E \subseteq Voted(vs), E \subseteq Byzantine,
           NEW b \in Block, Weight[Off(vs, b)] <= Faulty
    PROVE  Possible(vs, E, b)
<1> DEFINE on == On(vs, E, b)
           off == Voted(vs) \ on
           others == Byzantine \ E
<1>1. E \in SUBSET Voter /\ Weight[E] \in Nat /\ Weight[E] <= Faulty
  BY EquivocatorsTolerated
<1>2. /\ Weight[on] \in Nat /\ Weight[Voted(vs)] \in Nat
      /\ Weight[on] <= Weight[Voted(vs)] /\ Weight[Voted(vs)] <= TotalWeight
  BY <1>1, OnWeights
<1>3. /\ on \in SUBSET Voter /\ on \subseteq Voted(vs) /\ Byzantine \in SUBSET Voter
      /\ off \in SUBSET Voter /\ others \in SUBSET Voter /\ Off(vs, b) \in SUBSET Voter
  BY <1>1, OnFacts, RoundAssumption DEF Voted, Off
<1>4. /\ Weight[others] \in Nat /\ Weight[others] + Weight[E] = Weight[Byzantine]
      /\ Weight[Byzantine] \in Nat /\ Weight[Byzantine] <= Faulty
  <2>1. others \union E = Byzantine /\ others \intersect E = {}
    OBVIOUS
  <2>2. Weight[others \union E] + Weight[others \intersect E] = Weight[others] + Weight[E]
    BY <1>1, <1>3, WeightAssumption
  <2>3. Weight[others] \in Nat /\ Weight[Byzantine] \in Nat /\ Weight[{}] = 0
    BY <1>3, WeightAssumption
  <2> QED  BY <2>1, <2>2, <2>3, RoundAssumption
<1>5. Weight[off] \in Nat /\ Weight[off] <= Weight[Off(vs, b)] + Weight[others]
  <2>1. off \subseteq Off(vs, b) \union others
    BY DEF On, Voted, Off
  <2>2. Off(vs, b) \union others \in SUBSET Voter
    BY <1>3
  <2>3. /\ Weight[off] \in Nat /\ Weight[Off(vs, b) \union others] \in Nat
        /\ Weight[off] <= Weight[Off(vs, b) \union others]
    BY <1>3, <2>1, <2>2, WeightMonotone
  <2>4. Weight[Off(vs, b) \union others] + Weight[Off(vs, b) \intersect others]
            = Weight[Off(vs, b)] + Weight[others]
    BY <1>3, WeightAssumption
  <2>5. Off(vs, b) \intersect others \in SUBSET Voter
    BY <1>3
  <2>6. Weight[Off(vs, b) \intersect others] \in Nat /\ Weight[Off(vs, b)] \in Nat
    BY <1>3, <2>5, WeightAssumption
  <2> QED  BY <1>4, <2>3, <2>4, <2>6
<1>6. Weight[Voted(vs)] = Weight[on] + Weight[off]
  <2>1. on \union off = Voted(vs) /\ on \intersect off = {}
    BY <1>3
  <2>2. Weight[on \union off] + Weight[on \intersect off] = Weight[on] + Weight[off]
    BY <1>3, WeightAssumption
  <2>3. Weight[{}] = 0
    BY WeightAssumption
  <2>4. Weight[on \union off] = Weight[Voted(vs)] /\ Weight[on \intersect off] = 0
    BY <2>1, <2>3
  <2> QED  BY <1>2, <1>5, <2>2, <2>4
<1>7. Weight[Off(vs, b)] \in Nat
  BY <1>3, WeightAssumption
<1>8. \A cur, for, x, e, o, w \in Nat :
         /\ cur = for + x /\ cur <= TotalWeight /\ x <= o + w
         /\ o <= Faulty /\ w + e <= Faulty
         => Reach(cur, for, e)
  BY ThresholdFacts DEF Reach, MinOf
<1>9. Reach(Weight[Voted(vs)], Weight[on], Weight[E])
  BY <1>1, <1>2, <1>4, <1>5, <1>6, <1>7, <1>8
<1> QED  BY <1>9, PossibleIsReach

\* A set of voters with a supermajority, the Byzantine ones counted, has a correct one in
\* every other such set.
LEMMA CorrectInBoth ==
    ASSUME NEW S \in SUBSET Voter, NEW T \in SUBSET Voter,
           Weight[S] >= Threshold, Weight[T] >= Threshold
    PROVE  \E v \in Voter \ Byzantine : v \in S /\ v \in T
<1>1. Weight[S \intersect T] > Faulty
  BY QuorumIntersection
<1>2. Byzantine \in SUBSET Voter /\ Weight[Byzantine] \in Nat /\ Weight[Byzantine] <= Faulty
  BY RoundAssumption, WeightAssumption
<1>3. ~(S \intersect T \subseteq Byzantine)
  <2> SUFFICES ASSUME S \intersect T \subseteq Byzantine PROVE FALSE
    OBVIOUS
  <2>1. S \intersect T \in SUBSET Voter
    OBVIOUS
  <2>2. Weight[S \intersect T] \in Nat /\ Weight[S \intersect T] <= Weight[Byzantine]
    BY <1>2, <2>1, WeightMonotone
  <2> QED  BY <1>1, <1>2, <2>2, ThresholdFacts
<1> QED  BY <1>3
=============================================================================
