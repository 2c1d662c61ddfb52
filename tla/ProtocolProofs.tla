--------------------------- MODULE ProtocolProofs ---------------------------
(***************************************************************************)
(* Theorems about Protocol for every voter set, block tree and number of   *)
(* rounds: what any voter may hold final in any round is at or below every *)
(* estimate of that round and of the rounds after it, and is on one chain. *)
(***************************************************************************)
EXTENDS Protocol, RoundVotesProofs

CorrectVotes == [Correct -> OptionBlock]

-----------------------------------------------------------------------------
(* Views *)

\* A view is a map of votes that says nothing wrong about correct voters, nor that one of
\* them voted twice.
LEMMA ViewFacts ==
    ASSUME NEW vs \in CorrectVotes, NEW x \in ViewsOf(vs)
    PROVE  /\ x.votes \in VoteMap
           /\ x.equivocators \subseteq Byzantine
           /\ x.equivocators \subseteq Voted(x.votes)
           /\ \A v \in Correct : x.votes[v] \in Block => vs[v] = x.votes[v]
<1>1. PICK S \in SUBSET Correct, lies \in [Byzantine -> OptionBlock] :
         x.votes = Heard(vs, S, lies)
  BY DEF ViewsOf
<1>2. x.equivocators \in SUBSET Byzantine /\ \A v \in x.equivocators : x.votes[v] # None
  BY DEF ViewsOf
<1>3. Byzantine \subseteq Voter
  BY RoundAssumption
<1>4. x.votes \in VoteMap
  BY <1>1 DEF Heard, VoteMap, OptionBlock, Correct, CorrectVotes
<1>5. \A v \in Correct : x.votes[v] = vs[v] \/ x.votes[v] = None
  BY <1>1 DEF Heard, Correct
<1> QED  BY <1>2, <1>3, <1>4, <1>5, BlockTreeAssumption DEF VoteMap, Voted, OptionBlock

\* A prevote-GHOST that is seen descends from the base and has a supermajority in a view.
LEMMA GhostFacts ==
    ASSUME NEW vs \in CorrectVotes, NEW g \in Block, <<vs, g>> \in SeenGhosts
    PROVE  /\ Base \in Ancestors[g]
           /\ \E x \in ViewsOf(vs) : Heavy(x.votes, x.equivocators, g)
<1>1. PICK pvs \in CorrectVotes : \E x \in ViewsOf(pvs) : <<vs, g>> = <<pvs, PrevoteGhost(x)>>
  BY DEF SeenGhosts, CorrectVotes
<1>2. PICK x \in ViewsOf(vs) : g = PrevoteGhost(x)
  BY <1>1
<1>3. x.votes \in VoteMap /\ x.equivocators \subseteq Byzantine
  BY <1>2, ViewFacts
<1>4. g # None
  BY BlockTreeAssumption
<1>5. g = CHOOSE y \in Ghosts(x.votes, x.votes, x.votes, x.equivocators) : TRUE
  BY <1>2, <1>4 DEF PrevoteGhost
<1>6. g \in Ghosts(x.votes, x.votes, x.votes, x.equivocators)
  BY <1>3, <1>5, GhostExists
<1> QED  BY <1>2, <1>4, <1>6 DEF Ghosts, InGraph

\* An estimate that is seen is at or above every block on a chain with the prevote-GHOST
\* that can get a supermajority of precommits in a view.
LEMMA EstimateFacts ==
    ASSUME NEW vs \in CorrectVotes, NEW g \in Block, NEW e \in Block,
           <<vs, g, e>> \in SeenEstimates, Base \in Ancestors[g],
           NEW f \in Block, f \in Ancestors[g] \/ g \in Ancestors[f],
           \A x \in ViewsOf(vs) : Possible(x.votes, x.equivocators, f)
    PROVE  f \in Ancestors[e]
<1>1. PICK pcs \in CorrectVotes : \E h \in Block, x \in ViewsOf(pcs) :
         <<vs, g, e>> = <<pcs, h, Estimate(h, x)>>
  BY DEF SeenEstimates, CorrectVotes
<1>2. PICK x \in ViewsOf(vs) : e = Estimate(g, x)
  BY <1>1
<1> DEFINE possible == {b \in Block : Possible(x.votes, x.equivocators, b)}
           highest == CHOOSE y \in Highest(g, possible) : TRUE
<1>3. e # None
  BY BlockTreeAssumption
<1>4. e = highest /\ (e = g => \A b \in possible : ~Below(g, b))
  BY <1>2, <1>3 DEF Estimate, RoundState
<1>5. e \in Highest(g, possible)
  BY <1>4, HighestExists
<1>6. /\ e \in ChainTo(g) \intersect possible
      /\ \A y \in ChainTo(g) \intersect possible : y \in Ancestors[e]
  BY <1>3, <1>5 DEF Highest
<1>7. /\ x.votes \in VoteMap /\ x.equivocators \in SUBSET Voter
      /\ x.equivocators \subseteq Voted(x.votes) /\ f \in possible
  BY <1>2, ViewFacts, RoundAssumption
<1>8. CASE f \in Ancestors[g]
  <2>1. Base \in Block /\ Base \in Ancestors[e]
    BY <1>6, RoundAssumption DEF ChainTo
  <2>2. CASE Base \in Ancestors[f]
    BY <1>6, <1>7, <1>8, <2>2 DEF ChainTo
  <2>3. CASE f \in Ancestors[Base]
    BY <2>1, <2>3, TreeFacts
  <2> QED  BY <1>8, <2>2, <2>3, TreeFacts
<1>9. CASE g \in Ancestors[f] /\ f # g
  <2>1. g \in possible
    BY <1>7, <1>9, PossibleBelow
  <2>2. g \in Ancestors[e] /\ e \in Ancestors[g]
    BY <1>6, <2>1, TreeFacts DEF ChainTo
  <2>3. e = g
    BY <2>2, TreeFacts
  <2>4. Below(g, f)
    BY <1>9 DEF Below
  <2> QED  BY <1>4, <1>7, <2>3, <2>4
<1> QED  BY <1>8, <1>9, TreeFacts

-----------------------------------------------------------------------------
(* One round *)

\* The prevote-GHOSTs of two views of a round are on one chain.
LEMMA GhostsOnOneChain ==
    ASSUME ProtocolTypeOK, NEW r \in 1 .. MaxRound, NEW g \in GhostsSeen(r), NEW h \in GhostsSeen(r)
    PROVE  g \in Ancestors[h] \/ h \in Ancestors[g]
<1>1. prevotes[r] \in CorrectVotes
  BY DEF ProtocolTypeOK, CorrectVotes
<1>2. /\ g \in Block /\ <<prevotes[r], g>> \in SeenGhosts
      /\ h \in Block /\ <<prevotes[r], h>> \in SeenGhosts
  BY DEF GhostsSeen
<1>3. PICK x \in ViewsOf(prevotes[r]) : Heavy(x.votes, x.equivocators, g)
  BY <1>1, <1>2, GhostFacts
<1>4. PICK y \in ViewsOf(prevotes[r]) : Heavy(y.votes, y.equivocators, h)
  BY <1>1, <1>2, GhostFacts
<1> DEFINE S == On(x.votes, x.equivocators, g)
           T == On(y.votes, y.equivocators, h)
<1>5. S \in SUBSET Voter /\ T \in SUBSET Voter /\ Weight[S] >= Threshold /\ Weight[T] >= Threshold
  BY <1>3, <1>4 DEF On, Heavy
<1>6. PICK v \in Voter \ Byzantine : v \in S /\ v \in T
  BY <1>5, CorrectInBoth
<1>7. /\ v \in Correct
      /\ x.votes[v] \in Block /\ g \in Ancestors[x.votes[v]] /\ prevotes[r][v] = x.votes[v]
      /\ y.votes[v] \in Block /\ h \in Ancestors[y.votes[v]] /\ prevotes[r][v] = y.votes[v]
  BY <1>1, <1>6, ViewFacts DEF On, Correct
<1> QED  BY <1>7, TreeFacts

\* The voters that make b final in round r: the Byzantine ones and the correct ones with a
\* precommit at or above it.
Supporters(r, b) ==
    Byzantine \union {v \in Correct : precommits[r][v] # None /\ b \in Ancestors[precommits[r][v]]}

\* A final block has a correct voter's precommit at or above it, and what else correct
\* voters precommit does not rule it out.
LEMMA FinalFacts ==
    ASSUME ProtocolTypeOK, NEW r \in 1 .. MaxRound, NEW f \in FinalIn(r)
    PROVE  /\ f \in Block /\ Supporters(r, f) \in SUBSET Voter
           /\ Weight[Supporters(r, f)] >= Threshold
           /\ \E v \in Correct : precommits[r][v] \in Block /\ f \in Ancestors[precommits[r][v]]
           /\ \A x \in ViewsOf(precommits[r]) : Possible(x.votes, x.equivocators, f)
<1> DEFINE S == Supporters(r, f)
<1>1. precommits[r] \in CorrectVotes
  BY DEF ProtocolTypeOK, CorrectVotes
<1>2. f \in Block /\ S \in SUBSET Voter /\ Weight[S] >= Threshold
  BY RoundAssumption DEF FinalIn, Supporters, Correct
<1>3. PICK v \in Voter \ Byzantine : v \in S
  BY <1>2, CorrectInBoth
<1>4. v \in Correct /\ precommits[r][v] \in Block /\ f \in Ancestors[precommits[r][v]]
  BY <1>1, <1>3 DEF Supporters, Correct, CorrectVotes, OptionBlock
<1>5. ASSUME NEW x \in ViewsOf(precommits[r]) PROVE Possible(x.votes, x.equivocators, f)
  <2>1. /\ x.votes \in VoteMap /\ x.equivocators \subseteq Byzantine
        /\ x.equivocators \subseteq Voted(x.votes)
        /\ \A w \in Correct : x.votes[w] \in Block => precommits[r][w] = x.votes[w]
    BY <1>1, ViewFacts
  <2> DEFINE off == Off(x.votes, f)
  <2>2. off \in SUBSET Voter /\ off \intersect S = {}
    BY <2>1, BlockTreeAssumption DEF Off, Supporters, Correct
  <2>3. Weight[off \union S] + Weight[off \intersect S] = Weight[off] + Weight[S]
    BY <1>2, <2>2, WeightAssumption
  <2>4. off \union S \in SUBSET Voter
    BY <1>2, <2>2
  <2>5. /\ Weight[off \union S] \in Nat /\ Weight[off] \in Nat /\ Weight[S] \in Nat
        /\ Weight[off \intersect S] = 0
    BY <1>2, <2>2, <2>4, WeightAssumption
  <2>6. Weight[off \union S] <= TotalWeight
    BY <2>4, WeightMonotone DEF TotalWeight
  <2>7. Weight[off] <= Faulty
    BY <1>2, <2>3, <2>5, <2>6, ThresholdFacts
  <2> QED  BY <1>2, <2>1, <2>7, FewOffIsPossible
<1> QED  BY <1>2, <1>4, <1>5

\* What is final in a round is at or below every estimate of that round.
LEMMA FinalBelowEstimates ==
    ASSUME ProtocolInv, NEW r \in 1 .. MaxRound, NEW f \in FinalIn(r), NEW e \in EstimatesSeen(r)
    PROVE  f \in Ancestors[e]
<1>1. ProtocolTypeOK /\ precommits[r] \in CorrectVotes /\ prevotes[r] \in CorrectVotes
  BY DEF ProtocolInv, ProtocolTypeOK, CorrectVotes
<1>2. /\ f \in Block
      /\ \A x \in ViewsOf(precommits[r]) : Possible(x.votes, x.equivocators, f)
  BY <1>1, FinalFacts
<1>3. PICK v \in Correct : precommits[r][v] \in Block /\ f \in Ancestors[precommits[r][v]]
  BY <1>1, FinalFacts
<1>4. precommits[r][v] \in GhostsSeen(r)
  BY <1>3, BlockTreeAssumption DEF ProtocolInv, PrecommitsGrounded
<1>5. e \in Block /\ \E g \in GhostsSeen(r) : <<precommits[r], g, e>> \in SeenEstimates
  BY DEF EstimatesSeen
<1>6. PICK g \in GhostsSeen(r) : <<precommits[r], g, e>> \in SeenEstimates
  BY <1>5
<1>7. g \in Block /\ Base \in Ancestors[g]
  BY <1>1, GhostFacts DEF GhostsSeen
<1>8. precommits[r][v] \in Ancestors[g] \/ g \in Ancestors[precommits[r][v]]
  BY <1>1, <1>4, GhostsOnOneChain
<1>9. f \in Ancestors[g] \/ g \in Ancestors[f]
  BY <1>3, <1>7, <1>8, TreeFacts
<1> QED  BY <1>1, <1>2, <1>5, <1>6, <1>7, <1>9, EstimateFacts

-----------------------------------------------------------------------------
(* From one round to the next *)

\* A block at or below every estimate of a round is at or below every estimate of the next:
\* no correct voter has voted off it.
LEMMA EstimatesCarryOver ==
    ASSUME ProtocolInv, NEW r \in 1 .. MaxRound, NEW f \in Block,
           \A e \in EstimatesSeen(r - 1) : f \in Ancestors[e],
           NEW e \in EstimatesSeen(r)
    PROVE  f \in Ancestors[e]
<1>1. ProtocolTypeOK /\ precommits[r] \in CorrectVotes /\ prevotes[r] \in CorrectVotes
  BY DEF ProtocolInv, ProtocolTypeOK, CorrectVotes
<1>2. ASSUME NEW b \in Block, Grounded(r, b) PROVE f \in Ancestors[b]
  <2>1. PICK d \in EstimatesSeen(r - 1) : d \in Ancestors[b]
    BY <1>2 DEF Grounded
  <2> QED  BY <2>1, TreeFacts
<1>3. \A v \in Correct : prevotes[r][v] \in Block => f \in Ancestors[prevotes[r][v]]
  BY <1>2, BlockTreeAssumption DEF ProtocolInv, PrevotesGrounded
<1>4. \A v \in Correct : precommits[r][v] \in Block => f \in Ancestors[precommits[r][v]]
  BY <1>2, BlockTreeAssumption DEF ProtocolInv, PrecommitsGrounded
<1>5. e \in Block /\ \E g \in GhostsSeen(r) : <<precommits[r], g, e>> \in SeenEstimates
  BY DEF EstimatesSeen
<1>6. PICK g \in GhostsSeen(r) : <<precommits[r], g, e>> \in SeenEstimates
  BY <1>5
<1>7. g \in Block /\ <<prevotes[r], g>> \in SeenGhosts
  BY DEF GhostsSeen
<1>8. /\ Base \in Ancestors[g]
      /\ \E x \in ViewsOf(prevotes[r]) : Heavy(x.votes, x.equivocators, g)
  BY <1>1, <1>7, GhostFacts
<1>9. f \in Ancestors[g] \/ g \in Ancestors[f]
  <2>1. PICK x \in ViewsOf(prevotes[r]) : Heavy(x.votes, x.equivocators, g)
    BY <1>8
  <2>2. /\ On(x.votes, x.equivocators, g) \in SUBSET Voter
        /\ Weight[On(x.votes, x.equivocators, g)] >= Threshold
    BY <2>1 DEF On, Heavy
  <2>3. PICK v \in Voter \ Byzantine : v \in On(x.votes, x.equivocators, g)
    BY <2>2, CorrectInBoth
  <2>4. v \in Correct /\ prevotes[r][v] \in Block /\ g \in Ancestors[prevotes[r][v]]
    BY <1>1, <2>3, ViewFacts DEF On, Correct
  <2> QED  BY <1>3, <2>4, TreeFacts
<1>10. ASSUME NEW x \in ViewsOf(precommits[r]) PROVE Possible(x.votes, x.equivocators, f)
  <2>1. /\ x.votes \in VoteMap /\ x.equivocators \subseteq Byzantine
        /\ x.equivocators \subseteq Voted(x.votes)
        /\ \A w \in Correct : x.votes[w] \in Block => precommits[r][w] = x.votes[w]
    BY <1>1, ViewFacts
  <2>2. Off(x.votes, f) = {}
    BY <1>4, <2>1 DEF Off, Correct
  <2>3. Weight[Off(x.votes, f)] <= Faulty
    BY <2>2, WeightAssumption, ThresholdFacts
  <2> QED  BY <2>1, <2>3, FewOffIsPossible
<1> QED  BY <1>1, <1>5, <1>6, <1>7, <1>8, <1>9, <1>10, EstimateFacts

\* So what is final in a round is at or below every estimate of that round and the later
\* ones: there is no first round where it is not.
LEMMA FinalBelowLaterEstimates ==
    ASSUME ProtocolInv, NEW n \in 1 .. MaxRound, NEW m \in n .. MaxRound,
           NEW f \in FinalIn(n), NEW e \in EstimatesSeen(m)
    PROVE  f \in Ancestors[e]
<1> DEFINE bad == {r \in n .. MaxRound : \E d \in EstimatesSeen(r) : f \notin Ancestors[d]}
<1>1. n \in Nat /\ n > 0 /\ MaxRound \in Nat /\ f \in Block
  BY MaxRoundAssumption, FinalFacts DEF ProtocolInv
<1>2. bad = {}
  <2> SUFFICES ASSUME bad # {} PROVE FALSE
    OBVIOUS
  <2>1. bad \in SUBSET Nat
    BY <1>1
  <2>2. PICK r \in bad : \A q \in bad : r <= q
    BY <2>1, LeastNumber
  <2>3. PICK d \in EstimatesSeen(r) : f \notin Ancestors[d]
    BY <2>2
  <2>4. r \in Nat /\ n <= r /\ r <= MaxRound
    BY <1>1
  <2>5. CASE r = n
    BY <1>1, <2>3, <2>5, FinalBelowEstimates
  <2>6. CASE r # n
    <3>1. r - 1 \in n .. MaxRound /\ r \in 1 .. MaxRound /\ ~(r <= r - 1)
      BY <1>1, <2>4, <2>6
    <3>2. r - 1 \notin bad
      BY <2>2, <3>1
    <3>3. \A c \in EstimatesSeen(r - 1) : f \in Ancestors[c]
      BY <3>1, <3>2
    <3> QED  BY <1>1, <2>3, <3>1, <3>3, EstimatesCarryOver
  <2> QED  BY <2>5, <2>6
<1> QED  BY <1>2

-----------------------------------------------------------------------------
(* What every step does to the votes and their views *)

\* ws has the votes of vs, and perhaps more.
Extends(ws, vs) == \A v \in Correct : vs[v] # None => ws[v] = vs[v]

\* A view of some votes is a view of more of them: the others have not arrived.
LEMMA ViewsGrow ==
    ASSUME NEW vs \in CorrectVotes, NEW ws \in CorrectVotes, Extends(ws, vs), NEW x \in ViewsOf(vs)
    PROVE  x \in ViewsOf(ws)
<1>1. PICK S \in SUBSET Correct, lies \in [Byzantine -> OptionBlock] : x.votes = Heard(vs, S, lies)
  BY DEF ViewsOf
<1> DEFINE T == {v \in S : vs[v] # None}
<1>2. T \in SUBSET Correct
  OBVIOUS
<1>3. Heard(ws, T, lies) = Heard(vs, S, lies)
  BY <1>2 DEF Heard, Extends
<1>4. x.votes \in {Heard(ws, U, ls) : U \in SUBSET Correct, ls \in [Byzantine -> OptionBlock]}
  BY <1>1, <1>2, <1>3
<1> QED  BY <1>4 DEF ViewsOf

\* What is seen of some votes is seen of more of them.
LEMMA SeenGrows ==
    ASSUME NEW vs \in CorrectVotes, NEW ws \in CorrectVotes, Extends(ws, vs)
    PROVE  /\ \A g : <<vs, g>> \in SeenGhosts => <<ws, g>> \in SeenGhosts
           /\ \A g, e : <<vs, g, e>> \in SeenEstimates => <<ws, g, e>> \in SeenEstimates
<1>1. ASSUME NEW g, <<vs, g>> \in SeenGhosts PROVE <<ws, g>> \in SeenGhosts
  <2>1. PICK pvs \in CorrectVotes : \E x \in ViewsOf(pvs) : <<vs, g>> = <<pvs, PrevoteGhost(x)>>
    BY <1>1 DEF SeenGhosts, CorrectVotes
  <2>2. PICK x \in ViewsOf(vs) : g = PrevoteGhost(x)
    BY <2>1
  <2>3. x \in ViewsOf(ws)
    BY ViewsGrow
  <2> QED  BY <2>2, <2>3 DEF SeenGhosts, CorrectVotes
<1>2. ASSUME NEW g, NEW e, <<vs, g, e>> \in SeenEstimates PROVE <<ws, g, e>> \in SeenEstimates
  <2>1. PICK pcs \in CorrectVotes : \E h \in Block, x \in ViewsOf(pcs) :
           <<vs, g, e>> = <<pcs, h, Estimate(h, x)>>
    BY <1>2 DEF SeenEstimates, CorrectVotes
  <2>2. g \in Block /\ \E x \in ViewsOf(vs) : e = Estimate(g, x)
    BY <2>1
  <2>3. PICK x \in ViewsOf(vs) : e = Estimate(g, x)
    BY <2>2
  <2>4. x \in ViewsOf(ws)
    BY ViewsGrow
  <2> QED  BY <2>2, <2>3, <2>4 DEF SeenEstimates, CorrectVotes
<1> QED  BY <1>1, <1>2

\* Votes are not taken back, so GHOSTs, estimates and the reasons for votes stay.
LEMMA ReasonsStay ==
    ASSUME ProtocolTypeOK, ProtocolTypeOK',
           \A r \in 1 .. MaxRound : /\ Extends(prevotes'[r], prevotes[r])
                                    /\ Extends(precommits'[r], precommits[r])
    PROVE  \A r \in 1 .. MaxRound :
               /\ GhostsSeen(r) \subseteq GhostsSeen(r)'
               /\ \A b : Grounded(r, b) => Grounded(r, b)'
<1>1. ASSUME NEW r \in 1 .. MaxRound
      PROVE  GhostsSeen(r) \subseteq GhostsSeen(r)' /\ EstimatesSeen(r) \subseteq EstimatesSeen(r)'
  <2>1. /\ prevotes[r] \in CorrectVotes /\ prevotes'[r] \in CorrectVotes
        /\ precommits[r] \in CorrectVotes /\ precommits'[r] \in CorrectVotes
    BY DEF ProtocolTypeOK, CorrectVotes
  <2>2. GhostsSeen(r) \subseteq GhostsSeen(r)'
    BY <2>1, SeenGrows DEF GhostsSeen
  <2>3. ~(r = 0)
    OBVIOUS
  <2>4. EstimatesSeen(r) \subseteq EstimatesSeen(r)'
    BY <2>1, <2>2, <2>3, SeenGrows DEF EstimatesSeen
  <2> QED  BY <2>2, <2>4
<1>2. ASSUME NEW r \in 1 .. MaxRound, NEW b, Grounded(r, b) PROVE Grounded(r, b)'
  <2>1. EstimatesSeen(0) \subseteq EstimatesSeen(0)'
    BY DEF EstimatesSeen
  <2>2. r - 1 = 0 \/ r - 1 \in 1 .. MaxRound
    BY MaxRoundAssumption
  <2>3. EstimatesSeen(r - 1) \subseteq EstimatesSeen(r - 1)'
    BY <1>1, <2>1, <2>2
  <2> QED  BY <1>2, <2>3 DEF Grounded
<1> QED  BY <1>1, <1>2

\* A correct voter's step adds its vote, and the vote has its reason.
LEMMA StepKeepsProtocolInv ==
    ASSUME ProtocolInv, [ProtocolNext]_protocolVars
    PROVE  ProtocolInv'
<1>1. ASSUME NEW r \in 1 .. MaxRound, NEW e \in EstimatesSeen(r - 1), NEW v \in Correct,
             NEW b \in Block, Prevote(v, r, e, b)
      PROVE  ProtocolInv'
  <2>1. /\ prevotes[r][v] = None /\ prevotes' = [prevotes EXCEPT ![r][v] = b]
        /\ precommits' = precommits /\ Grounded(r, b)
    BY <1>1 DEF Prevote, Grounded
  <2>2. ProtocolTypeOK /\ ProtocolTypeOK'
    BY <2>1 DEF ProtocolInv, ProtocolTypeOK, OptionBlock
  <2>3. \A q \in 1 .. MaxRound : /\ Extends(prevotes'[q], prevotes[q])
                                 /\ Extends(precommits'[q], precommits[q])
    BY <2>1, <2>2 DEF ProtocolTypeOK, Extends
  <2>4. \A q \in 1 .. MaxRound : /\ GhostsSeen(q) \subseteq GhostsSeen(q)'
                                 /\ \A c : Grounded(q, c) => Grounded(q, c)'
    BY <2>2, <2>3, ReasonsStay
  <2>5. \A q \in 1 .. MaxRound : \A w \in Correct :
            prevotes'[q][w] = prevotes[q][w] \/ (q = r /\ prevotes'[q][w] = b)
    BY <2>1, <2>2 DEF ProtocolTypeOK
  <2>6. PrevotesGrounded'
    BY <2>1, <2>4, <2>5 DEF ProtocolInv, PrevotesGrounded
  <2>7. PrecommitsGrounded'
    BY <2>1, <2>4 DEF ProtocolInv, PrecommitsGrounded
  <2> QED  BY <2>2, <2>6, <2>7 DEF ProtocolInv
<1>2. ASSUME NEW r \in 1 .. MaxRound, NEW e \in EstimatesSeen(r - 1), NEW v \in Correct,
             NEW g \in GhostsSeen(r), Precommit(v, r, e, g)
      PROVE  ProtocolInv'
  <2>1. /\ precommits[r][v] = None /\ precommits' = [precommits EXCEPT ![r][v] = g]
        /\ prevotes' = prevotes /\ Grounded(r, g) /\ g \in Block
    BY <1>2 DEF Precommit, Grounded, GhostsSeen
  <2>2. ProtocolTypeOK /\ ProtocolTypeOK'
    BY <2>1 DEF ProtocolInv, ProtocolTypeOK, OptionBlock
  <2>3. \A q \in 1 .. MaxRound : /\ Extends(prevotes'[q], prevotes[q])
                                 /\ Extends(precommits'[q], precommits[q])
    BY <2>1, <2>2 DEF ProtocolTypeOK, Extends
  <2>4. \A q \in 1 .. MaxRound : /\ GhostsSeen(q) \subseteq GhostsSeen(q)'
                                 /\ \A c : Grounded(q, c) => Grounded(q, c)'
    BY <2>2, <2>3, ReasonsStay
  <2>5. \A q \in 1 .. MaxRound : \A w \in Correct :
            precommits'[q][w] = precommits[q][w] \/ (q = r /\ precommits'[q][w] = g)
    BY <2>1, <2>2 DEF ProtocolTypeOK
  <2>6. PrevotesGrounded'
    BY <2>1, <2>4 DEF ProtocolInv, PrevotesGrounded
  <2>7. PrecommitsGrounded'
    BY <1>2, <2>1, <2>4, <2>5 DEF ProtocolInv, PrecommitsGrounded
  <2> QED  BY <2>2, <2>6, <2>7 DEF ProtocolInv
<1>3. CASE UNCHANGED protocolVars
  <2>1. prevotes' = prevotes /\ precommits' = precommits
    BY <1>3 DEF protocolVars
  <2>2. ProtocolTypeOK /\ ProtocolTypeOK'
    BY <2>1 DEF ProtocolInv, ProtocolTypeOK
  <2>3. \A q \in 1 .. MaxRound : /\ Extends(prevotes'[q], prevotes[q])
                                 /\ Extends(precommits'[q], precommits[q])
    BY <2>1 DEF Extends
  <2>4. \A q \in 1 .. MaxRound : /\ GhostsSeen(q) \subseteq GhostsSeen(q)'
                                 /\ \A c : Grounded(q, c) => Grounded(q, c)'
    BY <2>2, <2>3, ReasonsStay
  <2>5. PrevotesGrounded' /\ PrecommitsGrounded'
    BY <2>1, <2>4 DEF ProtocolInv, PrevotesGrounded, PrecommitsGrounded
  <2> QED  BY <2>2, <2>5 DEF ProtocolInv
<1> QED  BY <1>1, <1>2, <1>3 DEF ProtocolNext

-----------------------------------------------------------------------------
(* Theorems *)

\* Every vote of a correct voter has its reason in views of the rounds as they are now, the
\* precommit a prevote-GHOST and both an estimate of the last round below them.
THEOREM ProtocolInvariant == ProtocolSpec => []ProtocolInv
<1>1. ProtocolInit => ProtocolInv
  <2> SUFFICES ASSUME ProtocolInit PROVE ProtocolInv
    OBVIOUS
  <2>1. \A r \in 1 .. MaxRound : \A v \in Correct : prevotes[r][v] = None /\ precommits[r][v] = None
    BY DEF ProtocolInit, NoVotes
  <2>2. ProtocolTypeOK
    BY DEF ProtocolInit, NoVotes, ProtocolTypeOK, OptionBlock
  <2> QED  BY <2>1, <2>2 DEF ProtocolInv, PrevotesGrounded, PrecommitsGrounded
<1>2. ProtocolInv /\ [ProtocolNext]_protocolVars => ProtocolInv'
  BY StepKeepsProtocolInv
<1> QED  BY <1>1, <1>2, PTL DEF ProtocolSpec

\* What is final in a round, now or later known, is at or below the estimate that any voter
\* has of it or of a later round: no voter has left it for another branch.
THEOREM EstimatesStayAboveFinal == ProtocolSpec => []EstimatesAboveFinal
<1>1. ProtocolInv => EstimatesAboveFinal
  BY FinalBelowLaterEstimates DEF EstimatesAboveFinal
<1> QED  BY <1>1, ProtocolInvariant, PTL

\* Blocks final in two rounds, the later one in n, are on one chain.
LEMMA FinalOnOneChain ==
    ASSUME ProtocolInv, NEW m \in 1 .. MaxRound, NEW n \in 1 .. MaxRound, m <= n,
           NEW f \in FinalIn(m), NEW g \in FinalIn(n)
    PROVE  f \in Ancestors[g] \/ g \in Ancestors[f]
<1>1. ProtocolTypeOK
  BY DEF ProtocolInv
<1>2. /\ f \in Block /\ Supporters(m, f) \in SUBSET Voter /\ Weight[Supporters(m, f)] >= Threshold
      /\ g \in Block /\ Supporters(n, g) \in SUBSET Voter /\ Weight[Supporters(n, g)] >= Threshold
  BY <1>1, FinalFacts
<1>3. CASE m = n
  <2>1. PICK v \in Voter \ Byzantine : v \in Supporters(m, f) /\ v \in Supporters(n, g)
    BY <1>2, CorrectInBoth
  <2>2. /\ v \in Correct /\ precommits[m][v] # None
        /\ f \in Ancestors[precommits[m][v]] /\ g \in Ancestors[precommits[m][v]]
    BY <1>3, <2>1 DEF Supporters, Correct
  <2>3. precommits[m][v] \in Block
    BY <1>1, <2>2 DEF ProtocolTypeOK, OptionBlock
  <2> QED  BY <2>2, <2>3, TreeFacts
<1>4. CASE m # n
  <2>1. n - 1 \in m .. MaxRound
    BY <1>4, MaxRoundAssumption
  <2>2. PICK v \in Correct : precommits[n][v] \in Block /\ g \in Ancestors[precommits[n][v]]
    BY <1>1, FinalFacts
  <2>3. Grounded(n, precommits[n][v])
    BY <2>2, BlockTreeAssumption DEF ProtocolInv, PrecommitsGrounded
  <2>4. PICK e \in EstimatesSeen(n - 1) : e \in Ancestors[precommits[n][v]]
    BY <2>3 DEF Grounded
  <2>5. f \in Ancestors[e]
    BY <2>1, FinalBelowLaterEstimates
  <2>6. f \in Ancestors[precommits[n][v]]
    BY <2>2, <2>4, <2>5, TreeFacts
  <2> QED  BY <2>2, <2>6, TreeFacts
<1> QED  BY <1>3, <1>4

\* Blocks finalized in any rounds by any views are on one chain, for every voter set whose
\* Byzantine voters weigh less than a third: the safety of the protocol.
THEOREM FinalityIsSafe == ProtocolSpec => []FinalityAgrees
<1>1. ProtocolInv => FinalityAgrees
  <2> SUFFICES ASSUME ProtocolInv, NEW m \in 1 .. MaxRound, NEW n \in 1 .. MaxRound,
                      NEW f \in FinalIn(m), NEW g \in FinalIn(n)
               PROVE  f \in Ancestors[g] \/ g \in Ancestors[f]
    BY DEF FinalityAgrees
  <2>1. m <= n \/ n <= m
    BY MaxRoundAssumption
  <2> QED  BY <2>1, FinalOnOneChain
<1> QED  BY <1>1, ProtocolInvariant, PTL

-----------------------------------------------------------------------------
(* The world that the voters make *)

\* A state seen of a round is blank or what Round::update makes of a view; it is one of a
\* round, with its estimate on the chain to the prevote-GHOST and its finalized block below.
LEMMA StateSeenFacts ==
    ASSUME ProtocolInv, NEW r \in 1 .. MaxRound, NEW s \in StatesSeen(r)
    PROVE  /\ s \in RoundStates /\ IsState(s)
           /\ s.finalized # None => s.finalized \in FinalIn(r)
           /\ s.completable => s.estimate \in EstimatesSeen(r)
<1>1. CASE s = Blank
  BY <1>1 DEF Blank, RoundStates, IsState, OptionBlock
<1>2. ASSUME NEW g \in GhostsSeen(r), NEW x \in ViewsOf(precommits[r]), s = RoundState(g, x)
      PROVE  /\ s \in RoundStates /\ IsState(s)
             /\ s.finalized # None => s.finalized \in FinalIn(r)
             /\ s.completable => s.estimate \in EstimatesSeen(r)
  <2> DEFINE heavy == {b \in Block : Heavy(x.votes, x.equivocators, b)}
             possible == {b \in Block : Possible(x.votes, x.equivocators, b)}
             e == CHOOSE y \in Highest(g, possible) : TRUE
             f == CHOOSE y \in Highest(g, heavy) : TRUE
  <2>1. g \in Block /\ None \notin Block
    BY BlockTreeAssumption DEF GhostsSeen
  <2>2. CASE Weight[Voted(x.votes)] < Threshold
    <3>1. s = [prevote_ghost |-> g, estimate |-> g, finalized |-> None, completable |-> FALSE]
      BY <1>2, <2>2 DEF RoundState
    <3> QED  BY <2>1, <3>1, TreeFacts DEF RoundStates, IsState, OptionBlock
  <2>3. CASE ~(Weight[Voted(x.votes)] < Threshold)
    <3>1. s = [prevote_ghost |-> g, estimate |-> e, finalized |-> f,
               completable |-> e # None /\ (e = g => \A b \in possible : ~Below(g, b))]
      BY <1>2, <2>3 DEF RoundState
    <3>2. e \in Highest(g, possible) /\ f \in Highest(g, heavy)
      BY <2>1, HighestExists
    <3>3. /\ e \in OptionBlock /\ f \in OptionBlock
          /\ e # None => e \in ChainTo(g) /\ \A y \in ChainTo(g) \intersect possible : y \in Ancestors[e]
          /\ e = None => ChainTo(g) \intersect possible = {}
          /\ f # None => f \in ChainTo(g) /\ f \in heavy
      BY <3>2 DEF Highest
    <3> HIDE DEF e, f
    <3>4. precommits[r] \in CorrectVotes /\ prevotes[r] \in CorrectVotes
      BY DEF ProtocolInv, ProtocolTypeOK, CorrectVotes
    <3>5. /\ x.votes \in VoteMap /\ x.equivocators \subseteq Byzantine
          /\ x.equivocators \in SUBSET Voter /\ x.equivocators \subseteq Voted(x.votes)
          /\ \A v \in Correct : x.votes[v] \in Block => precommits[r][v] = x.votes[v]
      BY <3>4, ViewFacts, RoundAssumption
    <3>6. f # None => f \in possible
      BY <3>3, <3>5, HeavyIsPossible
    <3>7. f # None => e # None /\ f \in Ancestors[e]
      BY <3>3, <3>6
    <3>8. f # None => f \in FinalIn(r)
      <4> SUFFICES ASSUME f # None PROVE f \in FinalIn(r)
        OBVIOUS
      <4> DEFINE on == On(x.votes, x.equivocators, f)
      <4>1. f \in Block /\ Weight[on] >= Threshold /\ on \in SUBSET Voter
        BY <3>3 DEF Heavy, On
      <4>2. on \subseteq Supporters(r, f)
        BY <3>5, BlockTreeAssumption DEF On, Supporters, Correct
      <4>3. Supporters(r, f) \in SUBSET Voter
        BY RoundAssumption DEF Supporters, Correct
      <4>4. Weight[on] \in Nat /\ Weight[Supporters(r, f)] \in Nat
            /\ Weight[on] <= Weight[Supporters(r, f)]
        BY <4>1, <4>2, <4>3, WeightMonotone
      <4>5. Weight[Supporters(r, f)] >= Threshold
        BY <4>1, <4>4, ThresholdFacts
      <4> QED  BY <4>1, <4>5 DEF FinalIn, Supporters
    <3>9. s.completable => e \in EstimatesSeen(r)
      <4> SUFFICES ASSUME s.completable PROVE e \in EstimatesSeen(r)
        OBVIOUS
      <4>1. s.estimate = e /\ e # None
        BY <3>1
      <4>2. e = Estimate(g, x) /\ e \in Block
        BY <1>2, <3>3, <4>1 DEF Estimate, OptionBlock
      <4>3. <<precommits[r], g, e>> \in {<<precommits[r], h, Estimate(h, y)>> :
                                              h \in Block, y \in ViewsOf(precommits[r])}
        BY <2>1, <4>2
      <4>4. <<precommits[r], g, e>> \in SeenEstimates
        BY <3>4, <4>3 DEF SeenEstimates, CorrectVotes
      <4>5. r # 0
        BY MaxRoundAssumption
      <4> QED  BY <4>2, <4>4, <4>5 DEF EstimatesSeen
    <3>10. e # None => e \in Ancestors[g]
      BY <2>1, <3>3, TreeFacts
    <3>11. s \in RoundStates
      BY <2>1, <3>1, <3>3 DEF RoundStates, OptionBlock
    <3>12. s.prevote_ghost = g /\ s.estimate = e /\ s.finalized = f /\ (s.completable => e # None)
      BY <3>1
    <3> QED  BY <2>1, <3>7, <3>8, <3>9, <3>10, <3>11, <3>12 DEF IsState
  <2> QED  BY <2>2, <2>3
<1> QED  BY <1>1, <1>2 DEF StatesSeen

\* What is final in a round is on the chain of the base: a correct voter's precommit is a
\* prevote-GHOST, which is above the base.
LEMMA FinalAndBaseOnOneChain ==
    ASSUME ProtocolInv, NEW r \in 1 .. MaxRound, NEW f \in FinalIn(r)
    PROVE  OnOneChain(f, Base)
<1>1. ProtocolTypeOK /\ prevotes[r] \in CorrectVotes
  BY DEF ProtocolInv, ProtocolTypeOK, CorrectVotes
<1>2. PICK v \in Correct : precommits[r][v] \in Block /\ f \in Ancestors[precommits[r][v]]
  BY <1>1, FinalFacts
<1>3. precommits[r][v] \in GhostsSeen(r)
  BY <1>2, BlockTreeAssumption DEF ProtocolInv, PrecommitsGrounded
<1>4. Base \in Ancestors[precommits[r][v]]
  BY <1>1, <1>2, <1>3, GhostFacts DEF GhostsSeen
<1> QED  BY <1>2, <1>4, TreeFacts DEF OnOneChain

\* The world that the voters have made at any time is one that Voter is right in: what
\* Voter.tla assumes of its worlds, the protocol guarantees.
THEOREM VotesMakeAWorld == ProtocolSpec => []IsWorld(WorldSeen, Base)
<1>1. ASSUME ProtocolInv PROVE IsWorld(WorldSeen, Base)
  <2> DEFINE w == WorldSeen
  <2>1. /\ \A r \in Round : w.states[r] = StatesSeen(r) /\ w.commits[r] = FinalIn(r)
        /\ w.states = [r \in Round |-> StatesSeen(r)] /\ w.commits = [r \in Round |-> FinalIn(r)]
        /\ w.bases = [r \in Round |-> {Base} \union UNION {FinalIn(m) : m \in Round}]
    BY DEF WorldSeen
  <2>2. \A r \in Round : FinalIn(r) \subseteq Block /\ StatesSeen(r) \subseteq RoundStates
    BY <1>1, StateSeenFacts DEF Round, FinalIn
  <2>3. /\ w.states \in [Round -> SUBSET RoundStates]
        /\ w.bases \in [Round -> SUBSET Block] /\ w.commits \in [Round -> SUBSET Block]
    <3>1. {Base} \union UNION {FinalIn(m) : m \in Round} \in SUBSET Block
      BY <2>2, RoundAssumption
    <3> QED  BY <2>1, <2>2, <3>1
  <2>4. \A n \in Round : Blank \in w.states[n] /\ \A s \in w.states[n] : IsState(s)
    BY <1>1, <2>1, StateSeenFacts DEF Round, StatesSeen
  <2>5. \A n \in Round : FinalOf(w, n) = FinalIn(n)
    BY <1>1, <2>1, StateSeenFacts DEF Round, FinalOf
  <2>6. ASSUME NEW n \in Round, NEW f \in FinalOf(w, n), NEW m \in n .. MaxRound
        PROVE  /\ \A s \in w.states[m] : s.completable => f \in Ancestors[s.estimate]
               /\ \A g \in FinalOf(w, m) : OnOneChain(f, g)
    <3>1. n \in 1 .. MaxRound /\ m \in 1 .. MaxRound /\ m \in Round /\ n <= m
      BY MaxRoundAssumption DEF Round
    <3>2. f \in FinalIn(n)
      BY <2>5
    <3>3. \A s \in w.states[m] : s.completable => f \in Ancestors[s.estimate]
      BY <1>1, <2>1, <3>1, <3>2, StateSeenFacts, FinalBelowLaterEstimates
    <3>4. \A g \in FinalOf(w, m) : OnOneChain(f, g)
      BY <1>1, <2>5, <3>1, <3>2, FinalOnOneChain DEF OnOneChain
    <3> QED  BY <3>3, <3>4
  <2>7. \A n \in Round : \A f \in FinalOf(w, n) : OnOneChain(f, Base)
    BY <1>1, <2>5, FinalAndBaseOnOneChain DEF Round
  <2> QED  BY <2>3, <2>4, <2>6, <2>7 DEF IsWorld
<1> QED  BY <1>1, ProtocolInvariant, PTL
=============================================================================
