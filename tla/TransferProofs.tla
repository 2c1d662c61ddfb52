--------------------------- MODULE TransferProofs ---------------------------
(***************************************************************************)
(* What leaves a round, and a round made anew from what was kept or sent.  *)
(* A commit of any round that finalized a block carries the supermajority  *)
(* that finalized it.  A completable round replayed from its history, or   *)
(* from the votes in a catch-up, ends in the state it had.                 *)
(***************************************************************************)
EXTENDS CommitExchange, RoundTransfer, RoundProofs

-----------------------------------------------------------------------------
(* Votes in a row *)

\* The ballots that a tracker has of a voter.
LEMMA HeldFacts ==
    ASSUME NEW t, TrackerFits(t), NEW id \in Ids
    PROVE  LET held == t.votes[id]
           IN  /\ held \in Seq(Ballot) /\ DOMAIN held = 1 .. Len(held) /\ Len(held) \in {0, 1, 2}
               /\ Len(held) = 0 <=> held = <<>>
               /\ Len(held) = 2 => held[1] # held[2]
               /\ \A j \in 1 .. Len(held) : held[j] \in Ballot
<1> DEFINE held == t.votes[id]
<1>1. held \in Seq(Ballot) /\ Len(held) <= 2 /\ (Len(held) = 2 => held[1] # held[2])
  BY DEF TrackerFits
<1> HIDE DEF held
<1>2. Len(held) \in Nat /\ DOMAIN held = 1 .. Len(held) /\ \A j \in 1 .. Len(held) : held[j] \in Ballot
  BY <1>1, LenProperties
<1>3. Len(held) \in {0, 1, 2}
  BY <1>1, <1>2
<1>4. held = <<>> <=> Len(held) = 0
  BY <1>1, SeqLength
<1> QED  BY <1>1, <1>2, <1>3, <1>4 DEF held

\* The places of the voters in their set.
LEMMA VoterPlaces ==
    /\ Len(Voters.voters) \in Nat /\ DOMAIN Voters.voters = 1 .. Len(Voters.voters)
    /\ \A i \in 1 .. Len(Voters.voters) : Voters.voters[i].id \in Ids
    /\ \A id \in Ids : \E i \in 1 .. Len(Voters.voters) : Voters.voters[i].id = id
    /\ \A i, j \in 1 .. Len(Voters.voters) : Voters.voters[i].id = Voters.voters[j].id => i = j
<1> DEFINE share == [id \in Ids |-> WeightOfVoter(Voters, id)]
<1>1. Ids \in SUBSET Nat /\ HasVoters(Voters, Ids, share)
  BY SetHasVoters, RoundVotersAssumption DEF Ids
<1>2. \A i \in 1 .. Len(Voters.voters) : Position(Voters, Voters.voters[i].id) = i - 1
  BY <1>1, VoterFacts
<1> HIDE DEF share
<1>3. /\ Len(Voters.voters) \in Nat /\ DOMAIN Voters.voters = 1 .. Len(Voters.voters)
      /\ \A i \in 1 .. Len(Voters.voters) : Voters.voters[i].id \in Ids
      /\ \A id \in Ids : \E i \in 1 .. Len(Voters.voters) : Voters.voters[i].id = id
  BY <1>1 DEF HasVoters
<1>4. ASSUME NEW i \in 1 .. Len(Voters.voters), NEW j \in 1 .. Len(Voters.voters),
             Voters.voters[i].id = Voters.voters[j].id
      PROVE  i = j
  <2>1. i - 1 = j - 1
    BY <1>2, <1>4
  <2> QED  BY <1>3, <2>1
<1> QED  BY <1>3, <1>4

-----------------------------------------------------------------------------
(* A commit *)

\* A vote of a voter, in a list.
Signed == [id : Ids, ballot : Ballot]

SignedBy(id, ballot) == [id |-> id, ballot |-> ballot]

\* The compact form loses nothing of a list of votes.
LEMMA CommitTravels ==
    ASSUME NEW commit, commit.precommits \in Seq(Signed)
    PROVE  ExpandCommit(CompactCommit(commit)).precommits = commit.precommits
<1> DEFINE s == commit.precommits
           n == Len(s)
           targets == [i \in DOMAIN s |-> s[i].ballot.target]
           auth == [i \in DOMAIN s |-> [signature |-> s[i].ballot.signature, id |-> s[i].id]]
           zipped == Zip(targets, auth)
           out == [i \in DOMAIN zipped |-> [id |-> auth[i].id,
                                            ballot |-> [target |-> targets[i], signature |-> auth[i].signature]]]
<1>1. n \in Nat /\ DOMAIN s = 1 .. n /\ \A i \in 1 .. n : s[i] \in Signed
  BY LenProperties
<1>2. Len(targets) = n /\ Len(auth) = n
  BY <1>1
<1>3. DOMAIN zipped = 1 .. n
  BY <1>2 DEF Zip
<1>4. ASSUME NEW i \in 1 .. n PROVE out[i] = s[i]
  <2>1. s[i] \in Signed
    BY <1>1
  <2>2. PICK id \in Ids, ballot \in Ballot : s[i] = [id |-> id, ballot |-> ballot]
    BY <2>1 DEF Signed
  <2>3. ballot = [target |-> ballot.target, signature |-> ballot.signature]
    BY BallotFacts
  <2>4. targets[i] = ballot.target /\ auth[i].signature = ballot.signature /\ auth[i].id = id
    BY <1>1, <2>2
  <2>5. out[i] = [id |-> auth[i].id, ballot |-> [target |-> targets[i], signature |-> auth[i].signature]]
    BY <1>3
  <2> HIDE DEF targets, auth, out
  <2> QED  BY <2>2, <2>3, <2>4, <2>5
<1>5. ExpandCommit(CompactCommit(commit)).precommits = out
  <2>1. CompactCommit(commit).precommits = targets /\ CompactCommit(commit).auth_data = auth
    BY DEF CompactCommit
  <2> HIDE DEF targets, auth
  <2> QED  BY <2>1 DEF ExpandCommit
<1>6. out = [i \in 1 .. n |-> out[i]] /\ s = [i \in 1 .. n |-> s[i]]
  <2>1. s = [i \in 1 .. n |-> s[i]]
    BY <1>1
  <2> DEFINE both(i) == [id |-> auth[i].id, ballot |-> [target |-> targets[i], signature |-> auth[i].signature]]
  <2>2. out = [i \in 1 .. n |-> both(i)]
    BY <1>3
  <2>3. \A i \in 1 .. n : out[i] = both(i)
    BY <2>2
  <2> HIDE DEF both, out, s, n
  <2> QED  BY <2>1, <2>2, <2>3
<1> HIDE DEF out, s
<1>7. out = s
  <2> HIDE DEF n
  <2> QED  BY <1>4, <1>6
<1> QED  BY <1>5, <1>7 DEF s

\* A vote is in the commit if it is at or above the finalized block, or of an equivocator.
LEMMA CommitHas ==
    ASSUME NEW r, RoundFits(r)
    PROVE  LET sent == Delivered(r).precommits
               ballots(id) == r.precommit.votes[id]
           IN  \A x : x \in ToSet(sent) <=>
                   \E id \in Ids : \E j \in 1 .. Len(ballots(id)) :
                       /\ x = SignedBy(id, ballots(id)[j])
                       /\ Len(ballots(id)) = 1 => r.finalized \in Ancestors[ballots(id)[1].target]
<1> DEFINE ballots(id) == r.precommit.votes[id]
           out(id) == Len(ballots(id)) = 1 /\ ~(r.finalized \in Ancestors[ballots(id)[1].target])
           chosen(id) == IF out(id) THEN <<>> ELSE [i \in DOMAIN ballots(id) |-> SignedBy(id, ballots(id)[i])]
           n == Len(Voters.voters)
           seqs == [i \in 1 .. n |-> chosen(Voters.voters[i].id)]
           flat == FlattenSeq(seqs)
<1>1. \A id \in Ids : ballots(id) \in Seq(Ballot)
  BY DEF RoundFits, TrackerFits
<1>2. ASSUME NEW id \in Ids
      PROVE  /\ chosen(id) \in Seq(Signed)
             /\ \A x : (\E j \in 1 .. Len(chosen(id)) : x = chosen(id)[j]) <=>
                           ~out(id) /\ \E j \in 1 .. Len(ballots(id)) : x = SignedBy(id, ballots(id)[j])
  <2> DEFINE s == ballots(id)
             signed == [i \in DOMAIN s |-> SignedBy(id, s[i])]
  <2>1. s \in Seq(Ballot) /\ Len(s) \in Nat /\ DOMAIN s = 1 .. Len(s) /\ \A i \in 1 .. Len(s) : s[i] \in Ballot
    BY <1>1, LenProperties
  <2> HIDE DEF s
  <2>2. \A i \in 1 .. Len(s) : SignedBy(id, s[i]) \in Signed
    BY <2>1 DEF Signed, SignedBy
  <2>3. /\ signed \in Seq(Signed) /\ Len(signed) = Len(s)
        /\ \A i \in 1 .. Len(s) : signed[i] = SignedBy(id, s[i])
    BY <2>1, <2>2
  <2>4. CASE out(id)
    <3>1. chosen(id) = <<>> /\ Len(<<>>) = 0 /\ <<>> \in Seq(Signed)
      BY <2>4
    <3> HIDE DEF chosen, out
    <3> QED  BY <2>4, <3>1 DEF s
  <2>5. CASE ~out(id)
    <3>1. chosen(id) = signed
      BY <2>5 DEF s
    <3> HIDE DEF chosen, out, signed
    <3> QED  BY <2>3, <2>5, <3>1 DEF s
  <2> QED  BY <2>4, <2>5
<1>3. FinalizingPrecommits(r) = flat
  <2>1. [i \in DOMAIN Voters.voters |-> chosen(Voters.voters[i].id)] = seqs
    BY VoterPlaces
  <2> QED  BY <2>1 DEF FinalizingPrecommits, IsEqualOrDescendentOf, SignedBy
<1>4. seqs \in [1 .. n -> Seq(Signed)] /\ n \in Nat
  <2> HIDE DEF chosen
  <2> QED  BY <1>2, VoterPlaces
<1>5. /\ flat \in Seq(Signed)
      /\ \A x : x \in ToSet(flat) <=> \E i \in 1 .. n : \E j \in 1 .. Len(seqs[i]) : x = seqs[i][j]
  <2> HIDE DEF seqs, n
  <2> QED  BY <1>4, RowHas
<1>6. Delivered(r).precommits = flat
  <2>1. MakeCommit(r).precommits = flat
    BY <1>3 DEF MakeCommit
  <2> HIDE DEF flat
  <2> QED  BY <1>5, <2>1, CommitTravels DEF Delivered
<1>7. \A i \in 1 .. n : seqs[i] = chosen(Voters.voters[i].id) /\ Voters.voters[i].id \in Ids
  <2> HIDE DEF chosen
  <2> QED  BY VoterPlaces
<1> DEFINE Chosen(id, x) == \E j \in 1 .. Len(chosen(id)) : x = chosen(id)[j]
           Sent(id, x) == ~out(id) /\ \E j \in 1 .. Len(ballots(id)) : x = SignedBy(id, ballots(id)[j])
<1>8. ASSUME NEW x PROVE x \in ToSet(flat) <=> \E id \in Ids : Chosen(id, x)
  <2>1. x \in ToSet(flat) <=> \E i \in 1 .. n : \E j \in 1 .. Len(seqs[i]) : x = seqs[i][j]
    <3> HIDE DEF flat, seqs, n
    <3> QED  BY <1>5
  <2>2. \A i \in 1 .. n : (\E j \in 1 .. Len(seqs[i]) : x = seqs[i][j]) <=> Chosen(Voters.voters[i].id, x)
    <3> HIDE DEF chosen, flat, seqs, n
    <3> QED  BY <1>7
  <2> DEFINE At(i) == Chosen(Voters.voters[i].id, x)
  <2>3. x \in ToSet(flat) <=> \E i \in 1 .. n : At(i)
    BY <2>1, <2>2
  <2>4. ASSUME NEW i \in 1 .. n, At(i) PROVE \E id \in Ids : Chosen(id, x)
    <3> HIDE DEF Chosen
    <3> QED  BY <1>7, <2>4
  <2>5. ASSUME NEW id \in Ids, Chosen(id, x) PROVE \E i \in 1 .. n : At(i)
    <3> HIDE DEF Chosen
    <3>1. PICK i \in 1 .. n : Voters.voters[i].id = id
      BY VoterPlaces
    <3> QED  BY <2>5, <3>1
  <2> HIDE DEF At, Chosen, flat
  <2> QED  BY <2>3, <2>4, <2>5
<1>9. \A id \in Ids : \A x : Chosen(id, x) <=> Sent(id, x)
  BY <1>2
<1>10. \A x : x \in ToSet(flat) <=> \E id \in Ids : Sent(id, x)
  <2> HIDE DEF Chosen, Sent, flat
  <2> QED  BY <1>8, <1>9
<1> HIDE DEF flat
<1> QED  BY <1>6, <1>10
-----------------------------------------------------------------------------
(* The steps of a round *)

\* What a vote that changes the round makes of it.
Imported(r, u, phase, id, ballot) ==
    /\ id \in Ids /\ \A ph \in Phase : ph # phase => u[ph] = r[ph]
    /\ \/ /\ Tallied(r, u, phase, id, ballot)
          /\ Base \notin Ancestors[ballot.target] /\ SameDerived(r, u)
       \/ /\ Tallied(r, u, phase, id, ballot)
          /\ Base \in Ancestors[ballot.target] /\ IsDerived(phase, r, u)
       \/ CaughtTwice(r, u, phase, id, ballot) /\ IsDerived(phase, r, u)

\* The state that a round reports, and its votes, are the same.
SameState(r, u) == StateOf(u) = StateOf(r) /\ \A phase \in Phase : u[phase] = r[phase]

LEMMA SameStateFacts ==
    ASSUME NEW r, NEW u
    PROVE  SameState(r, u) <=>
               /\ u.prevote_ghost = r.prevote_ghost /\ u.finalized = r.finalized
               /\ u.estimate = r.estimate /\ u.completable = r.completable
               /\ \A phase \in Phase : u[phase] = r[phase]
  BY DEF SameState, StateOf

\* Every step of the round imports a vote or leaves votes and state alone.
LEMMA ImportSteps ==
    ASSUME WellMade, [ImportNext]_importVars
    PROVE  \/ SameState(round, round')
           \/ \E phase \in Phase, id \in Ids, ballot \in Ballot :
                  MayArrive(phase, id, ballot) /\ Imported(round, round', phase, id, ballot)
<1> DEFINE u == round'
<1>1. RoundOK(round) /\ RoundFits(round) /\ electorate \in Electorates
  BY DEF WellMade, RoundOK
<1>2. ASSUME u = round PROVE SameState(round, u)
  BY <1>2 DEF SameState
<1>3. ASSUME NEW id \in DOMAIN electorate, NEW ballot \in electorate[id], NEW phase \in Phase,
             MayArrive(phase, id, ballot),
             NEW result \in Derived(phase, RecordVote(round, phase, id, ballot)), u = result.round
      PROVE  \/ SameState(round, u)
             \/ \E ph \in Phase, i \in Ids, b \in Ballot : MayArrive(ph, i, b) /\ Imported(round, u, ph, i, b)
  <2>1. ballot \in Ballot
    BY <1>1, BallotFacts
  <2>2. u = round \/ Imported(round, u, phase, id, ballot)
    <3> HIDE DEF u
    <3> QED  BY <1>1, <1>3, <2>1, ImportCases DEF Imported
  <2>3. CASE Imported(round, u, phase, id, ballot)
    <3>1. id \in Ids
      BY <2>3 DEF Imported
    <3> HIDE DEF u
    <3> QED  BY <1>3, <2>1, <2>3, <3>1
  <2> HIDE DEF u
  <2> QED  BY <1>2, <2>2, <2>3
<1>4. ASSUME AskPrecommitGhost PROVE SameState(round, u)
  <2>1. u \in CachePrecommitGhost(round) /\ GhostFits(round, "precommit", round.precommit_ghost)
    BY <1>1, <1>4 DEF AskPrecommitGhost, RoundOK
  <2>2. CASE u = round
    BY <1>2, <2>2
  <2>3. CASE /\ SameVotes(round, u)
             /\ u.prevote_ghost = round.prevote_ghost /\ u.finalized = round.finalized
             /\ u.estimate = round.estimate /\ u.completable = round.completable
    <3> HIDE DEF u
    <3>1. \A phase \in Phase : u[phase] = round[phase]
      BY <1>1, <2>3, SameVotesFit
    <3> QED  BY <2>3, <3>1, SameStateFacts
  <2> HIDE DEF u
  <2> QED  BY <1>1, <2>1, <2>2, <2>3, PrecommitGhostFacts
<1>5. ASSUME NEW phase \in Phase, MarkOwnVote(phase) PROVE SameState(round, u)
  <2>1. u = SetIndex(round, phase) /\ (phase = "prevote" => round.historical_votes.precommit_idx = None)
    BY <1>5 DEF MarkOwnVote
  <2> HIDE DEF u
  <2>2. RoundOK(u) /\ SameDerived(round, u) /\ u.prevote = round.prevote /\ u.precommit = round.precommit
    BY <1>1, <2>1, MarkedFits
  <2>3. /\ u["prevote"] = u.prevote /\ u["precommit"] = u.precommit
        /\ round["prevote"] = round.prevote /\ round["precommit"] = round.precommit
    BY <1>1, <2>2, RoundPhases DEF RoundOK
  <2> QED  BY <2>2, <2>3, SameStateFacts, PhaseFacts DEF SameDerived
<1>6. CASE UNCHANGED importVars
  BY <1>2, <1>6 DEF importVars
<1>7. ASSUME NEW id \in DOMAIN electorate, NEW ballot \in electorate[id], ReceivePrevote(id, ballot)
      PROVE  \/ SameState(round, u)
             \/ \E ph \in Phase, i \in Ids, b \in Ballot : MayArrive(ph, i, b) /\ Imported(round, u, ph, i, b)
  BY <1>3, <1>7, PhaseFacts DEF ReceivePrevote, ImportPrevote
<1>8. ASSUME NEW id \in DOMAIN electorate, NEW ballot \in electorate[id], ReceivePrecommit(id, ballot)
      PROVE  \/ SameState(round, u)
             \/ \E ph \in Phase, i \in Ids, b \in Ballot : MayArrive(ph, i, b) /\ Imported(round, u, ph, i, b)
  BY <1>3, <1>8, PhaseFacts DEF ReceivePrecommit, ImportPrecommit
<1> QED  BY <1>4, <1>5, <1>6, <1>7, <1>8 DEF ImportNext

\* An import only adds votes.
LEMMA ImportedGrows ==
    ASSUME NEW r, RoundFits(r), NEW u, RoundFits(u), NEW phase \in Phase, NEW id, NEW ballot \in Ballot,
           Imported(r, u, phase, id, ballot)
    PROVE  \A ph \in Phase : /\ TwoVotes(r[ph]) \subseteq TwoVotes(u[ph])
                             /\ \A i \in Ids : FirstTarget(r[ph])[i] \in Block =>
                                                   FirstTarget(u[ph])[i] = FirstTarget(r[ph])[i]
<1>1. ASSUME NEW ph \in Phase, ph # phase PROVE u[ph] = r[ph]
  BY <1>1 DEF Imported
<1>2. ASSUME NEW i \in Ids, FirstTarget(r[phase])[i] \in Block
      PROVE  FirstTarget(u[phase])[i] = FirstTarget(r[phase])[i]
  <2>1. CASE Tallied(r, u, phase, id, ballot)
    <3>1. i # id
      BY <1>2, <2>1, BallotFacts DEF Tallied
    <3> QED  BY <2>1, <3>1 DEF Tallied
  <2>2. CASE CaughtTwice(r, u, phase, id, ballot)
    BY <2>2 DEF CaughtTwice
  <2> QED  BY <2>1, <2>2 DEF Imported
<1>3. TwoVotes(r[phase]) \subseteq TwoVotes(u[phase])
  BY DEF Imported, Tallied, CaughtTwice
<1> QED  BY <1>1, <1>2, <1>3
-----------------------------------------------------------------------------
(* What a commit carries *)

\* The finalized block is one of the vote graph's, and keeps its supermajority.
FinalizedFits(r) == GhostFits(r, "precommit", r.finalized)

LEMMA ImportedFinalized ==
    ASSUME NEW r, RoundOK(r), FinalizedFits(r), NEW u, RoundOK(u), NEW phase \in Phase, NEW id,
           NEW ballot \in Ballot, Imported(r, u, phase, id, ballot)
    PROVE  FinalizedFits(u)
<1> DEFINE ghost == u.prevote_ghost
           heavy == {b \in Block : Abstract!Heavy(FirstTarget(u.precommit), TwoVotes(u.precommit), b)}
<1>1. RoundFits(r) /\ RoundFits(u)
  BY DEF RoundOK
<1>2. CASE u.finalized = r.finalized
  BY <1>1, <1>2, ImportedGrows, GhostsStay, PhaseFacts DEF FinalizedFits
<1>3. CASE ghost # None /\ u.finalized \in Abstract!Highest(ghost, heavy)
  <2>1. ghost \in Blocks(u.graph)
    BY <1>3 DEF RoundOK, GhostFits
  <2>2. CASE u.finalized = None
    BY <2>2 DEF FinalizedFits, GhostFits
  <2>3. CASE u.finalized # None
    <3>1. u.finalized \in Abstract!ChainTo(ghost) \intersect heavy
      BY <1>3, <2>3 DEF Abstract!Highest
    <3>2. u.finalized \in Ancestors[ghost] /\ Base \in Ancestors[u.finalized] /\ u.finalized \in heavy
      BY <3>1 DEF Abstract!ChainTo
    <3>3. IsVoteGraph(u.graph, Cast(u)) /\ u.graph.base = Base
      BY <1>1 DEF RoundFits
    <3>4. u.finalized \in Blocks(u.graph)
      BY <2>1, <3>2, <3>3, BlocksBelow
    <3>5. u["precommit"] = u.precommit
      BY <1>1, RoundPhases
    <3> QED  BY <3>2, <3>4, <3>5 DEF FinalizedFits, GhostFits
  <2> QED  BY <2>2, <2>3
<1>4. CASE IsDerived(phase, r, u)
  BY <1>2, <1>3, <1>4 DEF IsDerived
<1>5. CASE SameDerived(r, u)
  BY <1>2, <1>5 DEF SameDerived
<1> QED  BY <1>4, <1>5 DEF Imported

LEMMA RoundStaysFinalized == ImportSpec => [](WellMade /\ FinalizedFits(round))
<1>1. ImportInit => FinalizedFits(round)
  <2> SUFFICES ASSUME round = NewRound(Base) PROVE FinalizedFits(round)
    BY DEF ImportInit
  <2>1. round.finalized = None
    BY DEF NewRound
  <2> QED  BY <2>1 DEF FinalizedFits, GhostFits
<1>2. WellMade /\ WellMade' /\ FinalizedFits(round) /\ [ImportNext]_importVars => FinalizedFits(round)'
  <2> SUFFICES ASSUME WellMade, WellMade', FinalizedFits(round), [ImportNext]_importVars
               PROVE  FinalizedFits(round')
    BY DEF FinalizedFits, GhostFits
  <2>1. RoundOK(round) /\ RoundOK(round')
    BY DEF WellMade
  <2>2. CASE SameState(round, round')
    <3>1. \A phase \in Phase : TwoVotes(round[phase]) = TwoVotes(round'[phase])
                               /\ FirstTarget(round[phase]) = FirstTarget(round'[phase])
      BY <2>2 DEF SameState
    <3>2. round'.finalized = round.finalized
      BY <2>2, SameStateFacts
    <3> QED  BY <2>1, <3>1, <3>2, GhostsStay, PhaseFacts DEF FinalizedFits, RoundOK
  <2>3. CASE \E phase \in Phase, id \in Ids, ballot \in Ballot : Imported(round, round', phase, id, ballot)
    BY <2>1, <2>3, ImportedFinalized
  <2> QED  BY <2>2, <2>3, ImportSteps
<1> QED  BY <1>1, <1>2, RoundStaysWellMade, PTL DEF ImportSpec

\* Two different ballots.
LEMMA PairHasTwo ==
    ASSUME NEW x, NEW y, x # y
    PROVE  Cardinality({x, y}) = 2
<1>1. IsFiniteSet({x}) /\ Cardinality({x}) = 1
  BY FS_Singleton
<1>2. {x, y} = {x} \union {y} /\ y \notin {x}
  OBVIOUS
<1> QED  BY <1>1, <1>2, FS_AddElement

\* A commit that a round makes, whatever votes it was given in whatever order, carries a
\* supermajority for its target: single precommits at or above it and voters shown to
\* equivocate by two different votes, and nothing else (finalizing_precommits, commit).
THEOREM CommitsCarrySupermajority == ImportSpec => []CommitCarriesSupermajority
<1>1. ASSUME WellMade, FinalizedFits(round) PROVE CommitCarriesSupermajority
  <2> DEFINE r == round
             f == r.finalized
             sent == Delivered(r).precommits
             ids == {s.id : s \in ToSet(sent)}
             of(id) == {s.ballot : s \in {t \in ToSet(sent) : t.id = id}}
             backing == {id \in ids : \/ Cardinality(of(id)) = 2
                                      \/ \E x \in of(id) : f \in Ancestors[x.target]}
             ballots(id) == r.precommit.votes[id]
             first == FirstTarget(r.precommit)
             two == TwoVotes(r.precommit)
             on == Abstract!On(first, two, f)
             Sent(id, j) == Len(ballots(id)) = 1 => f \in Ancestors[ballots(id)[1].target]
  <2> SUFFICES ASSUME f # None PROVE SumOfWeights[backing] >= Voters.threshold /\ ids = backing
    BY DEF CommitCarriesSupermajority
  <2>1. RoundOK(r) /\ RoundFits(r) /\ TrackerFits(r.precommit) /\ r["precommit"] = r.precommit
    BY <1>1, RoundPhases DEF WellMade, RoundOK, RoundFits
  <2>2. SumOfWeights[on] >= Voters.threshold
    <3>1. Abstract!Heavy(first, two, f)
      BY <1>1, <2>1 DEF FinalizedFits, GhostFits
    <3> HIDE DEF first, two, f
    <3> QED  BY <3>1, WeightsAdd DEF Abstract!Heavy, on
  <2>3. \A x : x \in ToSet(sent) <=>
            \E id \in Ids : \E j \in 1 .. Len(ballots(id)) : x = SignedBy(id, ballots(id)[j]) /\ Sent(id, j)
    BY <2>1, CommitHas
  <2>4. \A id \in Ids : /\ Len(ballots(id)) \in {0, 1, 2}
                        /\ Len(ballots(id)) = 0 <=> ballots(id) = <<>>
                        /\ Len(ballots(id)) = 2 => ballots(id)[1] # ballots(id)[2]
    BY <2>1, HeldFacts
  <2>5. \A id, ballot : SignedBy(id, ballot).id = id /\ SignedBy(id, ballot).ballot = ballot
    BY DEF SignedBy
  <2>6. on \in SUBSET Ids
    BY DEF Abstract!On, TwoVotes, Ids
  <2>7. ASSUME NEW id \in on PROVE id \in ids
    <3>1. id \in Ids
      BY <2>6
    <3>2. id \in two \/ (first[id] \in Block /\ f \in Ancestors[first[id]])
      BY DEF Abstract!On
    <3>3. /\ first[id] = IF ballots(id) = <<>> THEN None ELSE ballots(id)[1].target
          /\ id \in two <=> Len(ballots(id)) = 2
          /\ first[id] \in Block <=> ballots(id) # <<>>
      BY <2>1, <3>1, FirstFacts
    <3> HIDE DEF ballots, first, two, on, sent, f
    <3>4. 1 \in 1 .. Len(ballots(id)) /\ Sent(id, 1)
      BY <2>4, <3>1, <3>2, <3>3
    <3>5. SignedBy(id, ballots(id)[1]) \in ToSet(sent)
      BY <2>3, <3>1, <3>4
    <3> QED  BY <2>5, <3>5
  <2>8. ASSUME NEW id \in ids PROVE id \in Ids /\ id \in backing
    <3>1. PICK s \in ToSet(sent) : s.id = id
      OBVIOUS
    <3> HIDE DEF ballots, sent, f, Sent
    <3>7. PICK i \in Ids : \E j \in 1 .. Len(ballots(i)) : s = SignedBy(i, ballots(i)[j]) /\ Sent(i, j)
      BY <2>3, <3>1
    <3>2. PICK j \in 1 .. Len(ballots(i)) : s = SignedBy(i, ballots(i)[j]) /\ Sent(i, j)
      BY <3>7
    <3>3. i = id /\ id \in Ids
      BY <2>5, <3>1, <3>2
    <3>4. CASE Len(ballots(id)) = 1
      <4>1. j = 1 /\ f \in Ancestors[ballots(id)[1].target]
        BY <3>2, <3>3, <3>4 DEF Sent
      <4>2. s.ballot = ballots(id)[1] /\ s.ballot \in of(id)
        BY <2>5, <3>1, <3>2, <3>3, <4>1
      <4> QED  BY <3>3, <4>1, <4>2
    <3>5. CASE Len(ballots(id)) = 2
      <4> DEFINE x == ballots(id)[1]
                 y == ballots(id)[2]
      <4>1. SignedBy(id, x) \in ToSet(sent) /\ SignedBy(id, y) \in ToSet(sent)
        <5>1. 1 \in 1 .. Len(ballots(id)) /\ 2 \in 1 .. Len(ballots(id)) /\ Sent(id, 1) /\ Sent(id, 2)
          BY <3>5 DEF Sent
        <5> QED  BY <2>3, <3>3, <5>1
      <4>2. x \in of(id) /\ y \in of(id)
        BY <2>5, <4>1
      <4>3. ASSUME NEW b \in of(id) PROVE b \in {x, y}
        <5>1. PICK t \in ToSet(sent) : t.id = id /\ b = t.ballot
          OBVIOUS
        <5>4. PICK k \in Ids : \E l \in 1 .. Len(ballots(k)) : t = SignedBy(k, ballots(k)[l])
          BY <2>3, <5>1
        <5>2. PICK l \in 1 .. Len(ballots(k)) : t = SignedBy(k, ballots(k)[l])
          BY <5>4
        <5>3. k = id /\ b = ballots(id)[l] /\ l \in {1, 2}
          BY <2>5, <3>5, <5>1, <5>2
        <5> QED  BY <5>3
      <4> HIDE DEF of, x, y
      <4>4. of(id) = {x, y}
        BY <4>2, <4>3
      <4>5. x # y
        BY <2>4, <3>3, <3>5 DEF x, y
      <4> QED  BY <3>3, <4>4, <4>5, PairHasTwo
    <3>6. Len(ballots(id)) # 0
      BY <3>2, <3>3
    <3> QED  BY <2>4, <3>3, <3>4, <3>5, <3>6
  <2>9. ids = backing
    BY <2>8
  <2> HIDE DEF backing, ids, on
  <2>10. on \subseteq backing /\ backing \in SUBSET Ids
    BY <2>7, <2>8, <2>9
  <2>11. SumOfWeights[on] <= SumOfWeights[backing] /\ SumOfWeights[on] \in Nat /\ SumOfWeights[backing] \in Nat
         /\ Voters.threshold \in Nat
    BY <2>6, <2>10, WeightsAdd
  <2> QED  BY <2>2, <2>9, <2>11
<1> QED  BY <1>1, RoundStaysFinalized, PTL
-----------------------------------------------------------------------------
(* The state of a round whose votes are all above the base *)

\* Every vote descends from the base.
AboveBase(r) ==
    \A phase \in Phase : \A id \in Ids : \A ballot \in ToSet(r[phase].votes[id]) :
        Base \in Ancestors[ballot.target]

\* No more voters equivocated than is tolerated.
Tolerated(r) ==
    \A phase \in Phase : SumOfWeights[TwoVotes(r[phase])] <= Voters.total_weight - Voters.threshold

\* Enough voters voted.
Enough(vs) == ~(SumOfWeights[Abstract!Voted(vs)] < Abstract!Threshold)

\* The state is that which RoundSpec defines from the votes: nothing is left from earlier.
Settled(r) ==
    LET pvs   == FirstTarget(r.prevote)
        pcs   == FirstTarget(r.precommit)
        two   == TwoVotes(r.precommit)
        ghost == r.prevote_ghost
    IN  IF ~Enough(pvs)
        THEN ghost = None /\ r.finalized = None /\ r.estimate = None /\ r.completable = FALSE
        ELSE /\ ghost # None /\ ghost \in Abstract!Ghosts(pvs, pcs, pvs, TwoVotes(r.prevote))
             /\ IF ~Enough(pcs)
                THEN r.finalized = None /\ r.estimate = ghost /\ r.completable = FALSE
                ELSE /\ r.finalized \in Abstract!Highest(ghost, {b \in Block : Abstract!Heavy(pcs, two, b)})
                     /\ r.estimate \in Abstract!Highest(ghost, {b \in Block : Abstract!Possible(pcs, two, b)})
                     /\ r.completable = Completed(r, r.estimate)

LEMMA WeightsMeet ==
    ASSUME NEW S \in SUBSET Ids, NEW T \in SUBSET Ids
    PROVE  SumOfWeights[S \union T] + SumOfWeights[S \intersect T] = SumOfWeights[S] + SumOfWeights[T]
<1>1. \A U \in SUBSET Ids : IsWeights(WeightsOf(Voters), U) /\ SumOfWeights[U] = Sum(WeightsOf(Voters), U)
  BY WeightFacts, WeightsAdd, RoundVotersAssumption DEF Ids
<1>2. S \union T \in SUBSET Ids /\ S \intersect T \in SUBSET Ids
  OBVIOUS
<1> QED  BY <1>1, <1>2, SumOfUnion

\* Two supermajorities share a voter that did not equivocate.
LEMMA CommonVote ==
    ASSUME NEW r, RoundFits(r), Tolerated(r), NEW phase \in Phase, NEW a \in Block, NEW b \in Block,
           Abstract!Heavy(FirstTarget(r[phase]), TwoVotes(r[phase]), a),
           Abstract!Heavy(FirstTarget(r[phase]), TwoVotes(r[phase]), b)
    PROVE  \E id \in Ids : LET t == FirstTarget(r[phase])[id]
                           IN  t \in Block /\ a \in Ancestors[t] /\ b \in Ancestors[t]
<1> DEFINE first == FirstTarget(r[phase])
           two == TwoVotes(r[phase])
           A == Abstract!On(first, two, a)
           B == Abstract!On(first, two, b)
<1>1. A \in SUBSET Ids /\ B \in SUBSET Ids /\ two \in SUBSET Ids
  BY DEF Abstract!On, TwoVotes, Ids
<1>2. SumOfWeights[A] >= Voters.threshold /\ SumOfWeights[B] >= Voters.threshold
  <2>1. SumOfWeights[A] >= Abstract!Threshold /\ SumOfWeights[B] >= Abstract!Threshold
    BY DEF Abstract!Heavy
  <2> HIDE DEF A, B
  <2> QED  BY <2>1, WeightsAdd
<1>3. SumOfWeights[two] <= Voters.total_weight - Voters.threshold
  BY DEF Tolerated
<1>4. \A id \in A \intersect B : id \in two \/ (first[id] \in Block /\ a \in Ancestors[first[id]] /\ b \in Ancestors[first[id]])
  BY DEF Abstract!On
<1> HIDE DEF A, B, two, first
<1>5. SumOfWeights[A \union B] + SumOfWeights[A \intersect B] = SumOfWeights[A] + SumOfWeights[B]
  BY <1>1, WeightsMeet
<1> DEFINE total == Voters.total_weight
           faulty == Abstract!Faulty
<1>6. total \in Nat \ {0} /\ faulty = (total - 1) \div 3 /\ faulty = total - Voters.threshold
      /\ Voters.threshold \in 1 .. total
  BY WeightsAdd DEF Abstract!Faulty
<1>7. /\ SumOfWeights[A \union B] \in Nat /\ SumOfWeights[A \union B] <= total
      /\ SumOfWeights[A \intersect B] \in Nat /\ SumOfWeights[A] \in Nat /\ SumOfWeights[B] \in Nat
      /\ SumOfWeights[two] \in Nat
  <2>1. A \union B \in SUBSET Ids /\ A \intersect B \in SUBSET Ids
    BY <1>1
  <2> QED  BY <1>1, <2>1, WeightsAdd
<1>8. A \intersect B \subseteq two => SumOfWeights[A \intersect B] <= SumOfWeights[two]
  BY <1>1, WeightsAdd
<1>9. ~(A \intersect B \subseteq two)
  <2> HIDE DEF total, faulty
  <2>1. faulty \in Nat /\ 3 * faulty < total
    BY <1>6
  <2> QED  BY <1>2, <1>3, <1>5, <1>6, <1>7, <1>8, <2>1 DEF total
<1>10. PICK id \in A \intersect B : id \notin two
  BY <1>9
<1> QED  BY <1>1, <1>4, <1>10 DEF first

\* Votes above the base that are enough are a supermajority for the base.
LEMMA GhostThere ==
    ASSUME NEW r, RoundFits(r), AboveBase(r), Enough(FirstTarget(r.prevote)),
           NEW g \in Abstract!Ghosts(FirstTarget(r.prevote), FirstTarget(r.precommit),
                                     FirstTarget(r.prevote), TwoVotes(r.prevote))
    PROVE  g # None
<1> DEFINE first == FirstTarget(r.prevote)
           two == TwoVotes(r.prevote)
<1>1. r["prevote"] = r.prevote /\ TrackerFits(r.prevote)
  BY RoundPhases DEF RoundFits
<1>2. ASSUME NEW id \in Ids, first[id] \in Block PROVE Base \in Ancestors[first[id]]
  <2> DEFINE held == r.prevote.votes[id]
  <2>1. held # <<>> /\ first[id] = held[1].target
    BY <1>1, <1>2, FirstFacts
  <2>2. held[1] \in ToSet(held)
    <3>1. Len(held) \in {0, 1, 2} /\ (Len(held) = 0 <=> held = <<>>) /\ DOMAIN held = 1 .. Len(held)
      BY <1>1, HeldFacts
    <3> HIDE DEF held
    <3>2. 1 \in DOMAIN held
      BY <2>1, <3>1
    <3> QED  BY <3>2 DEF ToSet
  <2> HIDE DEF held
  <2> QED  BY <1>1, <2>1, <2>2, PhaseFacts DEF AboveBase, held
<1>3. Abstract!Voted(first) \subseteq Abstract!On(first, two, Base)
  BY <1>2 DEF Abstract!Voted, Abstract!On, Ids
<1>4. Abstract!Voted(first) \in SUBSET Ids /\ Abstract!On(first, two, Base) \in SUBSET Ids
  BY DEF Abstract!Voted, Abstract!On, Ids
<1>5. Abstract!Heavy(first, two, Base)
  <2> DEFINE V == Abstract!Voted(first)
             O == Abstract!On(first, two, Base)
  <2>1. ~(SumOfWeights[V] < Abstract!Threshold)
    BY DEF Enough
  <2> HIDE DEF V, O
  <2>2. SumOfWeights[V] <= SumOfWeights[O] /\ SumOfWeights[V] \in Nat /\ SumOfWeights[O] \in Nat
        /\ Abstract!Threshold \in Nat
    BY <1>3, <1>4, WeightsAdd DEF V, O
  <2>3. SumOfWeights[O] >= Abstract!Threshold
    BY <2>1, <2>2
  <2> QED  BY <2>3 DEF Abstract!Heavy, O
<1> QED  BY <1>5 DEF Abstract!Ghosts

\* More precommits leave the prevote-GHOST where it is.
LEMMA GhostKept ==
    ASSUME NEW r, RoundFits(r), NEW u, RoundFits(u), Tolerated(r), u.prevote = r.prevote,
           \A i \in Ids : FirstTarget(r.precommit)[i] \in Block =>
                              FirstTarget(u.precommit)[i] = FirstTarget(r.precommit)[i],
           NEW g \in Abstract!Ghosts(FirstTarget(r.prevote), FirstTarget(r.precommit),
                                     FirstTarget(r.prevote), TwoVotes(r.prevote))
    PROVE  g \in Abstract!Ghosts(FirstTarget(u.prevote), FirstTarget(u.precommit),
                                 FirstTarget(u.prevote), TwoVotes(u.prevote))
<1> DEFINE first == FirstTarget(r.prevote)
           two == TwoVotes(r.prevote)
           pcs == FirstTarget(r.precommit)
           more == FirstTarget(u.precommit)
<1>1. \A b : Abstract!InGraph(first, pcs, b) => Abstract!InGraph(first, more, b)
  BY DEF Abstract!InGraph, Ids
<1>2. ASSUME NEW b \in Block, Abstract!InGraph(first, more, b), Abstract!Heavy(first, two, b)
      PROVE  Abstract!InGraph(first, pcs, b)
  <2>1. r["prevote"] = r.prevote
    BY RoundPhases
  <2>2. \E id \in Ids : first[id] \in Block /\ b \in Ancestors[first[id]]
    BY <1>2, <2>1, CommonVote, PhaseFacts
  <2> QED  BY <1>2, <2>2 DEF Abstract!InGraph, Ids
<1> HIDE DEF first, two, pcs, more
<1>3. g \in Abstract!Ghosts(first, pcs, first, two)
  BY DEF first, two, pcs
<1>4. g \in Abstract!Ghosts(first, more, first, two)
  BY <1>1, <1>2, <1>3 DEF Abstract!Ghosts
<1> QED  BY <1>4 DEF first, two, more
LEMMA EnoughGrows ==
    ASSUME NEW vs, NEW ws, \A i \in Ids : vs[i] \in Block => ws[i] = vs[i], Enough(vs)
    PROVE  Enough(ws)
<1> DEFINE V == Abstract!Voted(vs)
           W == Abstract!Voted(ws)
<1>1. V \subseteq W /\ V \in SUBSET Ids /\ W \in SUBSET Ids
  BY DEF Abstract!Voted, Ids
<1>2. ~(SumOfWeights[V] < Abstract!Threshold)
  BY DEF Enough
<1> HIDE DEF V, W
<1>3. SumOfWeights[V] <= SumOfWeights[W] /\ SumOfWeights[V] \in Nat /\ SumOfWeights[W] \in Nat
      /\ Abstract!Threshold \in Nat
  BY <1>1, WeightsAdd
<1>4. ~(SumOfWeights[W] < Abstract!Threshold)
  BY <1>2, <1>3
<1> QED  BY <1>4 DEF Enough, W

\* An import keeps it so, when no vote is refused.
LEMMA ImportedSettled ==
    ASSUME NEW r, RoundOK(r), NEW u, RoundOK(u), NEW phase \in Phase, NEW id, NEW ballot \in Ballot,
           Imported(r, u, phase, id, ballot), AboveBase(u), Tolerated(r), Settled(r)
    PROVE  Settled(u)
<1> DEFINE pvs == FirstTarget(u.prevote)
           pcs == FirstTarget(u.precommit)
           two == TwoVotes(u.precommit)
           ghost == u.prevote_ghost
<1>1. RoundFits(r) /\ RoundFits(u)
  BY DEF RoundOK
<1>2. /\ r["prevote"] = r.prevote /\ r["precommit"] = r.precommit
      /\ u["prevote"] = u.prevote /\ u["precommit"] = u.precommit
  BY <1>1, RoundPhases
<1>3. /\ \A i \in Ids : FirstTarget(r.prevote)[i] \in Block => pvs[i] = FirstTarget(r.prevote)[i]
      /\ \A i \in Ids : FirstTarget(r.precommit)[i] \in Block => pcs[i] = FirstTarget(r.precommit)[i]
  BY <1>1, <1>2, ImportedGrows, PhaseFacts
<1>4. Enough(FirstTarget(r.prevote)) => Enough(pvs)
  BY <1>3, EnoughGrows
<1>5. Enough(FirstTarget(r.precommit)) => Enough(pcs)
  BY <1>3, EnoughGrows
<1>6. IsDerived(phase, r, u)
  <2>1. CASE Tallied(r, u, phase, id, ballot) /\ Base \notin Ancestors[ballot.target]
    <3>1. id \in Ids /\ u[phase].votes = [r[phase].votes EXCEPT ![id] = <<ballot>>]
      BY <2>1 DEF Imported, Tallied
    <3>2. r[phase].votes \in [Ids -> Seq(Ballot)]
      BY <1>1, RoundPhases DEF TrackerFits
    <3>3. u[phase].votes[id] = <<ballot>>
      BY <3>1, <3>2
    <3>4. ballot \in ToSet(<<ballot>>)
      BY DEF ToSet
    <3> QED  BY <2>1, <3>1, <3>3, <3>4 DEF AboveBase
  <2> QED  BY <2>1 DEF Imported
<1>7. IF ~Enough(pvs) \/ ghost = None
      THEN u.finalized = r.finalized /\ u.estimate = r.estimate /\ u.completable = r.completable
      ELSE IF ~Enough(pcs)
      THEN u.finalized = r.finalized /\ u.estimate = ghost /\ u.completable = r.completable
      ELSE /\ u.finalized \in Abstract!Highest(ghost, {b \in Block : Abstract!Heavy(pcs, two, b)})
           /\ u.estimate \in Abstract!Highest(ghost, {b \in Block : Abstract!Possible(pcs, two, b)})
           /\ u.completable = Completed(u, u.estimate)
  BY <1>6 DEF IsDerived, Enough
<1>8. CASE ~Enough(pvs)
  <2>1. ghost = r.prevote_ghost
    BY <1>6, <1>8 DEF IsDerived, Enough
  <2>2. r.prevote_ghost = None /\ r.finalized = None /\ r.estimate = None /\ r.completable = FALSE
    BY <1>4, <1>8 DEF Settled
  <2> HIDE DEF pvs, ghost
  <2> QED  BY <1>7, <1>8, <2>1, <2>2 DEF Settled, pvs, ghost
<1>9. CASE Enough(pvs)
  <2>1. ghost \in Abstract!Ghosts(pvs, pcs, pvs, TwoVotes(u.prevote))
    <3>1. CASE phase = "prevote"
      BY <1>6, <1>9, <3>1 DEF IsDerived, Enough
    <3>2. CASE phase = "precommit"
      <4>1. ghost = r.prevote_ghost
        BY <1>6, <3>2 DEF IsDerived
      <4>2. u.prevote = r.prevote
        BY <1>2, <3>2, PhaseFacts DEF Imported
      <4>3. r.prevote_ghost \in Abstract!Ghosts(FirstTarget(r.prevote), FirstTarget(r.precommit),
                                                FirstTarget(r.prevote), TwoVotes(r.prevote))
        BY <1>9, <4>2 DEF Settled
      <4> HIDE DEF pcs
      <4> QED  BY <1>1, <1>3, <4>1, <4>2, <4>3, GhostKept DEF pcs
    <3> QED  BY <3>1, <3>2, PhaseFacts
  <2>2. ghost # None
    BY <1>1, <1>9, <2>1, GhostThere
  <2>3. CASE Enough(pcs)
    <3> HIDE DEF pvs, pcs, two, ghost
    <3> QED  BY <1>7, <1>9, <2>1, <2>2, <2>3 DEF Settled, pvs, pcs, two, ghost
  <2>4. CASE ~Enough(pcs)
    <3>1. r.finalized = None /\ r.completable = FALSE
      BY <1>5, <2>4 DEF Settled
    <3> HIDE DEF pvs, pcs, two, ghost
    <3> QED  BY <1>7, <1>9, <2>1, <2>2, <2>4, <3>1 DEF Settled, pvs, pcs, two, ghost
  <2> QED  BY <2>3, <2>4
<1> QED  BY <1>8, <1>9

LEMMA NewSettled == Settled(NewRound(Base)) /\ AboveBase(NewRound(Base)) /\ Tolerated(NewRound(Base))
<1> DEFINE r == NewRound(Base)
<1>1. /\ r.prevote = EmptyTracker /\ r.precommit = EmptyTracker
      /\ r.prevote_ghost = None /\ r.finalized = None /\ r.estimate = None /\ r.completable = FALSE
  BY DEF NewRound
<1>2. RoundFits(r)
  BY NewRoundFits DEF RoundOK
<1> HIDE DEF r
<1>3. \A phase \in Phase : r[phase] = EmptyTracker
  BY <1>1, <1>2, RoundPhases, PhaseFacts
<1>4. Abstract!Voted(FirstTarget(EmptyTracker)) = {}
  BY NewTracker, BallotFacts DEF Abstract!Voted, Ids
<1>5. ~Enough(FirstTarget(EmptyTracker))
  BY <1>4, WeightsAdd DEF Enough
<1>6. Settled(r)
  BY <1>1, <1>5 DEF Settled
<1>7. AboveBase(r)
  BY <1>3, NewTracker DEF AboveBase, ToSet
<1>8. Tolerated(r)
  <2>1. SumOfWeights[{}] <= Voters.total_weight - Voters.threshold
    BY WeightsAdd
  <2> QED  BY <1>3, <2>1, NewTracker DEF Tolerated
<1> QED  BY <1>6, <1>7, <1>8 DEF r

\* The highest block of a set on a chain is one.
LEMMA HighestIsOne ==
    ASSUME NEW g \in Block, NEW good \in SUBSET Block,
           NEW x, x \in Abstract!Highest(g, good), NEW y, y \in Abstract!Highest(g, good)
    PROVE  x = y
<1>1. Abstract!ChainTo(g) \subseteq Block
  BY ChainFacts DEF Abstract!ChainTo
<1>2. CASE x = None
  <2>1. Abstract!ChainTo(g) \intersect good = {}
    BY <1>2 DEF Abstract!Highest
  <2> QED  BY <1>2, <2>1 DEF Abstract!Highest
<1>3. CASE x # None
  <2>1. x \in Abstract!ChainTo(g) \intersect good
    BY <1>3 DEF Abstract!Highest
  <2>2. y # None
    BY <2>1 DEF Abstract!Highest
  <2>3. y \in Block /\ x \in Block /\ y \in Ancestors[x] /\ x \in Ancestors[y]
    BY <1>1, <1>3, <2>1, <2>2 DEF Abstract!Highest
  <2> QED  BY <2>3, ChainFacts
<1> QED  BY <1>2, <1>3

\* Settled states of the same votes are the same.
LEMMA OneSettled ==
    ASSUME NEW r, RoundFits(r), NEW u, RoundFits(u), Tolerated(r), Settled(r), Settled(u),
           \A phase \in Phase : /\ FirstTarget(u[phase]) = FirstTarget(r[phase])
                                /\ TwoVotes(u[phase]) = TwoVotes(r[phase])
    PROVE  StateOf(u) = StateOf(r)
<1> DEFINE pvs == FirstTarget(r.prevote)
           pcs == FirstTarget(r.precommit)
           twice == TwoVotes(r.prevote)
           two == TwoVotes(r.precommit)
<1>1. /\ r["prevote"] = r.prevote /\ r["precommit"] = r.precommit
      /\ u["prevote"] = u.prevote /\ u["precommit"] = u.precommit
  BY RoundPhases
<1>2. /\ FirstTarget(u.prevote) = pvs /\ FirstTarget(u.precommit) = pcs
      /\ TwoVotes(u.prevote) = twice /\ TwoVotes(u.precommit) = two
  BY <1>1, PhaseFacts
<1>3. SUFFICES /\ u.prevote_ghost = r.prevote_ghost /\ u.finalized = r.finalized
               /\ u.estimate = r.estimate /\ u.completable = r.completable
  BY DEF StateOf
<1> DEFINE g == r.prevote_ghost
           h == u.prevote_ghost
           all == Abstract!Ghosts(pvs, pcs, pvs, twice)
<1>4. CASE ~Enough(pvs)
  BY <1>2, <1>4 DEF Settled
<1>5. CASE Enough(pvs)
  <2>1. g # None /\ h # None /\ g \in all /\ h \in all
    BY <1>2, <1>5 DEF Settled
  <2>2. /\ g \in Block /\ Abstract!InGraph(pvs, pcs, g) /\ Abstract!Heavy(pvs, twice, g)
        /\ h \in Block /\ Abstract!InGraph(pvs, pcs, h) /\ Abstract!Heavy(pvs, twice, h)
        /\ \A y \in Block : Abstract!InGraph(pvs, pcs, y) /\ Abstract!Heavy(pvs, twice, y)
               => ~Abstract!Below(g, y) /\ ~Abstract!Below(h, y)
    BY <2>1 DEF Abstract!Ghosts, Abstract!OptionBlock
  <2>3. \E id \in Ids : pvs[id] \in Block /\ g \in Ancestors[pvs[id]] /\ h \in Ancestors[pvs[id]]
    BY <1>1, <2>2, CommonVote, PhaseFacts
  <2>4. g \in Ancestors[h] \/ h \in Ancestors[g]
    BY <2>3, BlockTreeAssumption
  <2>5. g = h
    BY <2>2, <2>4 DEF Abstract!Below
  <2>6. CASE ~Enough(pcs)
    BY <1>2, <1>5, <2>5, <2>6 DEF Settled
  <2>7. CASE Enough(pcs)
    <3> DEFINE H == {b \in Block : Abstract!Heavy(pcs, two, b)}
               P == {b \in Block : Abstract!Possible(pcs, two, b)}
    <3>1. /\ r.finalized \in Abstract!Highest(g, H) /\ r.estimate \in Abstract!Highest(g, P)
          /\ r.completable = Completed(r, r.estimate)
      BY <1>5, <2>7 DEF Settled
    <3>2. /\ u.finalized \in Abstract!Highest(h, H) /\ u.estimate \in Abstract!Highest(h, P)
          /\ u.completable = Completed(u, u.estimate)
      BY <1>2, <1>5, <2>7 DEF Settled
    <3>3. u.finalized = r.finalized /\ u.estimate = r.estimate
      <4>1. /\ g \in Block
            /\ u.finalized \in Abstract!Highest(g, H) /\ u.estimate \in Abstract!Highest(g, P)
        BY <2>2, <2>5, <3>2
      <4>4. H \in SUBSET Block /\ P \in SUBSET Block
        OBVIOUS
      <4> HIDE DEF H, P, g
      <4>2. u.finalized = r.finalized
        BY <3>1, <4>1, <4>4, HighestIsOne
      <4>3. u.estimate = r.estimate
        BY <3>1, <4>1, <4>4, HighestIsOne
      <4> QED  BY <4>2, <4>3
    <3>4. Completed(u, u.estimate) = Completed(r, r.estimate)
      BY <1>2, <2>5, <3>3 DEF Completed
    <3> QED  BY <2>5, <3>1, <3>2, <3>3, <3>4
  <2> QED  BY <2>6, <2>7
<1> QED  BY <1>4, <1>5
\* Only those equivocate that may.
OnlyByzantineTwice(r) == \A phase \in Phase : TwoVotes(r[phase]) \subseteq Byzantine

LEMMA FewEquivocate ==
    ASSUME NEW r, OnlyByzantineTwice(r)
    PROVE  Tolerated(r)
<1>1. Byzantine \in SUBSET Ids
  BY RoundImportsAssumption DEF Ids
<1>2. SumOfWeights[Byzantine] <= Voters.total_weight - Voters.threshold
  BY <1>1, WeightsAdd, RoundTransferAssumption
<1>3. ASSUME NEW phase \in Phase
      PROVE  SumOfWeights[TwoVotes(r[phase])] <= Voters.total_weight - Voters.threshold
  <2> DEFINE two == TwoVotes(r[phase])
  <2>1. two \subseteq Byzantine /\ two \in SUBSET Ids
    BY <1>1 DEF OnlyByzantineTwice
  <2> HIDE DEF two
  <2>2. /\ SumOfWeights[two] <= SumOfWeights[Byzantine]
        /\ SumOfWeights[two] \in Nat /\ SumOfWeights[Byzantine] \in Nat
        /\ Voters.total_weight \in Nat /\ Voters.threshold \in Nat
    BY <1>1, <2>1, WeightsAdd
  <2>3. SumOfWeights[two] <= Voters.total_weight - Voters.threshold
    BY <1>2, <2>2
  <2> QED  BY <2>3 DEF two
<1> QED  BY <1>3 DEF Tolerated

LEMMA AppendHas ==
    ASSUME NEW S, NEW s \in Seq(S), NEW x \in S
    PROVE  ToSet(Append(s, x)) = ToSet(s) \union {x}
<1>1. /\ Append(s, x) \in Seq(S) /\ Len(Append(s, x)) = Len(s) + 1 /\ Len(s) \in Nat
      /\ \A i \in 1 .. Len(s) : Append(s, x)[i] = s[i]
      /\ Append(s, x)[Len(s) + 1] = x
  BY AppendProperties, LenProperties
<1> DEFINE t == Append(s, x)
<1> HIDE DEF t
<1>2. DOMAIN t = 1 .. Len(s) + 1 /\ DOMAIN s = 1 .. Len(s)
  BY <1>1, LenProperties DEF t
<1>3. \A i \in 1 .. Len(s) + 1 : i \in 1 .. Len(s) \/ i = Len(s) + 1
  BY <1>1
<1>4. \A i \in 1 .. Len(s) : i \in 1 .. Len(s) + 1
  BY <1>1
<1>5. Len(s) + 1 \in 1 .. Len(s) + 1
  BY <1>1
<1> QED  BY <1>1, <1>2, <1>3, <1>4, <1>5 DEF t, ToSet

\* No vote is taken back.
LEMMA VotesKept ==
    ASSUME NEW r, RoundFits(r), NEW u, NEW phase \in Phase, NEW id, NEW ballot \in Ballot,
           Imported(r, u, phase, id, ballot), NEW ph \in Phase, NEW i \in Ids
    PROVE  ToSet(r[ph].votes[i]) \subseteq ToSet(u[ph].votes[i])
<1>1. r[phase].votes \in [Ids -> Seq(Ballot)] /\ id \in Ids
  BY RoundPhases DEF TrackerFits, Imported
<1>2. CASE ph # phase
  BY <1>2 DEF Imported
<1>3. CASE ph = phase
  <2> DEFINE held == r[phase].votes
             more == u[phase].votes
  <2>1. \/ held[id] = <<>> /\ more = [held EXCEPT ![id] = <<ballot>>]
        \/ more = [held EXCEPT ![id] = Append(held[id], ballot)]
    BY DEF Imported, Tallied, CaughtTwice
  <2> HIDE DEF held, more
  <2>2. \/ held[id] = <<>> /\ more[id] = <<ballot>>
        \/ more[id] = Append(held[id], ballot)
    BY <1>1, <2>1 DEF held
  <2>3. i # id => more[i] = held[i]
    BY <1>1, <2>1 DEF held
  <2>4. ToSet(<<>>) = {}
    BY DEF ToSet
  <2>5. ToSet(Append(held[id], ballot)) = ToSet(held[id]) \union {ballot}
    BY <1>1, AppendHas DEF held
  <2>6. ToSet(held[i]) \subseteq ToSet(more[i])
    BY <2>2, <2>3, <2>4, <2>5
  <2> QED  BY <1>3, <2>6 DEF held, more
<1> QED  BY <1>2, <1>3

\* While no vote was refused the state is that of the votes.
RoundSettled == OnlyByzantineTwice(round) /\ (AboveBase(round) => Settled(round))

LEMMA RoundStaysSettled == ImportSpec => [](WellMade /\ RoundSettled)
<1>1. ImportInit => RoundSettled
  <2> SUFFICES ASSUME round = NewRound(Base) PROVE RoundSettled
    BY DEF ImportInit
  <2>1. round.prevote = EmptyTracker /\ round.precommit = EmptyTracker /\ RoundFits(round)
    BY NewRoundFits DEF NewRound, RoundOK
  <2>2. \A phase \in Phase : TwoVotes(round[phase]) = {}
    BY <2>1, NewTracker, RoundPhases, PhaseFacts
  <2> QED  BY <2>2, NewSettled DEF RoundSettled, OnlyByzantineTwice
<1>2. WellMade /\ WellMade' /\ RoundSettled /\ [ImportNext]_importVars => RoundSettled'
  <2> SUFFICES ASSUME WellMade, WellMade', RoundSettled, [ImportNext]_importVars
               PROVE  OnlyByzantineTwice(round') /\ (AboveBase(round') => Settled(round'))
    BY DEF RoundSettled, OnlyByzantineTwice, AboveBase, Settled, Completed
  <2> DEFINE r == round
             u == round'
  <2>1. RoundOK(r) /\ RoundOK(u) /\ RoundFits(r) /\ RoundFits(u) /\ OnlyByzantineTwice(r) /\ Tolerated(r)
    BY FewEquivocate DEF WellMade, RoundOK, RoundSettled
  <2>2. CASE SameState(r, u)
    <3>1. \A phase \in Phase : u[phase] = r[phase]
      BY <2>2 DEF SameState
    <3>2. /\ u.prevote_ghost = r.prevote_ghost /\ u.finalized = r.finalized
          /\ u.estimate = r.estimate /\ u.completable = r.completable
      BY <2>2, SameStateFacts
    <3>3. u.prevote = r.prevote /\ u.precommit = r.precommit
      BY <2>1, <3>1, RoundPhases, PhaseFacts
    <3>4. AboveBase(u) => Settled(r)
      BY <3>1 DEF RoundSettled, AboveBase
    <3> HIDE DEF u
    <3>5. Settled(r) => Settled(u)
      <4>1. \A est : Completed(u, est) = Completed(r, est)
        BY <3>2, <3>3 DEF Completed
      <4> QED  BY <3>2, <3>3, <4>1 DEF Settled
    <3>6. OnlyByzantineTwice(u)
      BY <2>1, <3>1 DEF OnlyByzantineTwice
    <3> QED  BY <3>4, <3>5, <3>6 DEF u
  <2>3. ASSUME NEW phase \in Phase, NEW id \in Ids, NEW ballot \in Ballot,
               MayArrive(phase, id, ballot), Imported(r, u, phase, id, ballot)
        PROVE  OnlyByzantineTwice(u) /\ (AboveBase(u) => Settled(u))
    <3> HIDE DEF u
    <3>1. AboveBase(u) => AboveBase(r)
      BY <2>1, <2>3, VotesKept DEF AboveBase
    <3>2. AboveBase(u) => Settled(u)
      BY <2>1, <2>3, <3>1, ImportedSettled DEF RoundSettled
    <3>3. TwoVotes(u[phase]) \subseteq Byzantine
      <4>1. CASE Tallied(r, u, phase, id, ballot)
        BY <2>1, <4>1 DEF Tallied, OnlyByzantineTwice
      <4>2. CASE CaughtTwice(r, u, phase, id, ballot)
        <5>1. id \in Byzantine
          BY <2>3, <4>2 DEF MayArrive, CaughtTwice, Ids
        <5> QED  BY <2>1, <4>2, <5>1 DEF CaughtTwice, OnlyByzantineTwice
      <4> QED  BY <2>3, <4>1, <4>2 DEF Imported
    <3>4. \A ph \in Phase : ph # phase => TwoVotes(u[ph]) \subseteq Byzantine
      BY <2>1, <2>3 DEF Imported, OnlyByzantineTwice
    <3> QED  BY <3>2, <3>3, <3>4 DEF OnlyByzantineTwice
  <2> QED  BY <2>2, <2>3, ImportSteps
<1> QED  BY <1>1, <1>2, RoundStaysWellMade, PTL DEF ImportSpec

-----------------------------------------------------------------------------
(* Votes imported one after the other *)

\* What a fold over the first n votes does: f gives its value on each set of places.
OverPlaces(f, n, start, votes) ==
    \A s \in SUBSET (1 .. n) :
        f[s] = IF s = {} THEN start ELSE HandleVote(f[s \ {Max(s)}], Base, votes[Max(s)])

PlacesReplayed(f, n, start, votes) ==
    f = [s \in SUBSET (1 .. n) |->
            IF s = {} THEN start ELSE HandleVote(f[s \ {Max(s)}], Base, votes[Max(s)])]

\* Such a function exists.
LEMMA ReplayExists ==
    ASSUME NEW n \in Nat, NEW start, NEW votes
    PROVE  \E f : PlacesReplayed(f, n, start, votes)
<1> DEFINE Exists(k) == \E f : PlacesReplayed(f, k, start, votes)
           Good == {k \in 0 .. n : Exists(k)}
<1>1. 0 \in Good
  <2> DEFINE f == [s \in SUBSET (1 .. 0) |-> start]
  <2>1. \A s \in SUBSET (1 .. 0) : s = {}
    OBVIOUS
  <2>2. PlacesReplayed(f, 0, start, votes)
    BY <2>1 DEF PlacesReplayed
  <2> HIDE DEF f
  <2> QED  BY <2>2
<1>2. ASSUME NEW k \in 1 .. n, k - 1 \in Good PROVE k \in Good
  <2>1. PICK g : PlacesReplayed(g, k - 1, start, votes)
    BY <1>2
  <2> DEFINE past == SUBSET (1 .. k - 1)
             next(s) == HandleVote(g[s \ {k}], Base, votes[k])
             f == [s \in SUBSET (1 .. k) |-> IF s \in past THEN g[s] ELSE next(s)]
             step(h, s) == IF s = {} THEN start ELSE HandleVote(h[s \ {Max(s)}], Base, votes[Max(s)])
  <2>2. ASSUME NEW s \in past PROVE g[s] = step(g, s)
    <3>1. g = [t \in past |-> step(g, t)]
      BY <2>1 DEF PlacesReplayed
    <3> HIDE DEF step, past
    <3> QED  BY <3>1
  <2>3. ASSUME NEW s \in SUBSET (1 .. k) PROVE f[s] = step(f, s)
    <3>1. CASE s \in past
      <4>1. f[s] = g[s]
        BY <3>1
      <4>2. g[s] = step(g, s)
        BY <2>2, <3>1
      <4>3. f[s \ {Max(s)}] = g[s \ {Max(s)}]
        <5> DEFINE rest == s \ {Max(s)}
        <5>1. rest \in past /\ rest \in SUBSET (1 .. k)
          BY <3>1
        <5> HIDE DEF rest
        <5>2. f[rest] = g[rest]
          BY <5>1
        <5> QED  BY <5>2 DEF rest
      <4> HIDE DEF f
      <4>4. step(f, s) = step(g, s)
        BY <4>3
      <4> HIDE DEF step
      <4> QED  BY <4>1, <4>2, <4>4
    <3>2. CASE s \notin past
      <4>1. k \in s /\ s # {}
        BY <3>2
      <4>2. Max(s) = k
        BY <4>1, GreatestOf
      <4> DEFINE rest == s \ {k}
      <4>3. rest \in past /\ rest \in SUBSET (1 .. k)
        OBVIOUS
      <4>4. f[rest] = g[rest]
        <5> HIDE DEF rest, next
        <5> QED  BY <4>3
      <4>5. f[s] = next(s)
        BY <3>2
      <4> HIDE DEF f
      <4>6. step(f, s) = HandleVote(f[rest], Base, votes[k])
        BY <4>1, <4>2
      <4>7. next(s) = HandleVote(g[rest], Base, votes[k])
        OBVIOUS
      <4> HIDE DEF step, next, rest
      <4> QED  BY <4>4, <4>5, <4>6, <4>7
    <3> QED  BY <3>1, <3>2
  <2>4. f = [s \in SUBSET (1 .. k) |-> step(f, s)]
    <3> HIDE DEF step
    <3>1. f = [s \in SUBSET (1 .. k) |-> f[s]]
      OBVIOUS
    <3> HIDE DEF f
    <3> QED  BY <2>3, <3>1
  <2>5. PlacesReplayed(f, k, start, votes)
    <3> HIDE DEF f
    <3> QED  BY <2>4 DEF PlacesReplayed
  <2> HIDE DEF f
  <2> QED  BY <2>5
<1>3. n \in Good
  <2> HIDE DEF Good
  <2> QED  BY <1>1, <1>2, CountingUp
<1> QED  BY <1>3

\* The rounds after each of the votes.
Replayed(start, votes, f) ==
    /\ f[0] = start
    /\ \A k \in 1 .. Len(votes) : f[k] = HandleVote(f[k - 1], Base, votes[k])

\* The value of the fold is what is there after the last vote.
LEMMA RoundsAfterEach ==
    ASSUME NEW n \in Nat, NEW start, NEW votes, Len(votes) = n, NEW g,
           OverPlaces(g, n, start, votes)
    PROVE  \E f : Replayed(start, votes, f) /\ f[n] = g[1 .. n]
<1> DEFINE f == [k \in 0 .. n |-> g[1 .. k]]
<1>1. f[0] = start
  <2>1. 1 .. 0 = {} /\ 1 .. 0 \in SUBSET (1 .. n) /\ 0 \in 0 .. n
    OBVIOUS
  <2>2. g[1 .. 0] = start
    BY <2>1 DEF OverPlaces
  <2> QED  BY <2>1, <2>2
<1>2. ASSUME NEW k \in 1 .. n PROVE f[k] = HandleVote(f[k - 1], Base, votes[k])
  <2>1. 1 .. k \in SUBSET (1 .. n) /\ 1 .. k # {} /\ k \in 1 .. k /\ k \in Nat
    OBVIOUS
  <2>2. Max(1 .. k) = k
    BY <2>1, GreatestOf
  <2>3. (1 .. k) \ {k} = 1 .. k - 1 /\ k \in 0 .. n /\ k - 1 \in 0 .. n
    OBVIOUS
  <2>4. g[1 .. k] = HandleVote(g[(1 .. k) \ {Max(1 .. k)}], Base, votes[Max(1 .. k)])
    BY <2>1 DEF OverPlaces
  <2>5. g[1 .. k] = HandleVote(g[1 .. k - 1], Base, votes[k])
    BY <2>2, <2>3, <2>4
  <2>6. f[k] = g[1 .. k] /\ f[k - 1] = g[1 .. k - 1]
    BY <2>3
  <2> HIDE DEF f
  <2> QED  BY <2>5, <2>6
<1>3. f[n] = g[1 .. n]
  OBVIOUS
<1> HIDE DEF f
<1>4. Replayed(start, votes, f)
  BY <1>1, <1>2 DEF Replayed
<1> QED  BY <1>3, <1>4

\* instantiate_last_round's loop.
LEMMA HandledInTurn ==
    ASSUME NEW n \in Nat, NEW start, NEW votes, Len(votes) = n, DOMAIN votes = 1 .. n
    PROVE  \E f : /\ Replayed(start, votes, f)
                  /\ f[n] = FoldLeft(LAMBDA rs, vote : HandleVote(rs, Base, vote), start, votes)
<1> DEFINE iter[s \in SUBSET (1 .. n)] ==
               IF s = {} THEN start ELSE HandleVote(iter[s \ {Max(s)}], Base, votes[Max(s)])
<1>1. FoldLeft(LAMBDA rs, vote : HandleVote(rs, Base, vote), start, votes) = iter[1 .. n]
  BY DEF FoldLeft, MapThenFoldSet
<1>2. iter = CHOOSE f : PlacesReplayed(f, n, start, votes)
  BY DEF PlacesReplayed
<1>3. \E f : PlacesReplayed(f, n, start, votes)
  BY ReplayExists
<1> HIDE DEF iter
<1>4. PlacesReplayed(iter, n, start, votes)
  BY <1>2, <1>3
<1>5. OverPlaces(iter, n, start, votes)
  <2> DEFINE step(f, s) == IF s = {} THEN start ELSE HandleVote(f[s \ {Max(s)}], Base, votes[Max(s)])
  <2>1. iter = [s \in SUBSET (1 .. n) |-> step(iter, s)]
    BY <1>4 DEF PlacesReplayed
  <2>2. \A s \in SUBSET (1 .. n) : iter[s] = step(iter, s)
    <3> HIDE DEF step
    <3> QED  BY <2>1
  <2> QED  BY <2>2 DEF OverPlaces
<1>6. \E f : Replayed(start, votes, f) /\ f[n] = iter[1 .. n]
  BY <1>5, RoundsAfterEach
<1> HIDE DEF FoldLeft
<1> QED  BY <1>1, <1>6
-----------------------------------------------------------------------------
(* The votes of a round, one after the other *)

\* The votes in the list are those of the round, in the order of its trackers.
Lists(votes, r) ==
    /\ votes \in Seq(SeenVote)
    /\ \A phase \in Phase, id \in Ids :
           \E at \in [DOMAIN r[phase].votes[id] -> DOMAIN votes] :
               SeenAt(votes, at, phase, id, r[phase].votes[id])

\* Of these ballots, held are those whose place is one of the first k.
HeldBy(ballots, held, at, k) ==
    /\ Len(held) <= Len(ballots)
    /\ \A i \in 1 .. Len(held) : held[i] = ballots[i]
    /\ \A i \in 1 .. Len(ballots) : i <= Len(held) <=> at[i] <= k

\* The round u has the votes of r that are among the first k of the list.
HasUpTo(votes, r, u, k) ==
    \A phase \in Phase, id \in Ids :
        \E at \in [DOMAIN r[phase].votes[id] -> DOMAIN votes] :
            /\ SeenAt(votes, at, phase, id, r[phase].votes[id])
            /\ HeldBy(r[phase].votes[id], u[phase].votes[id], at, k)

\* The next vote of the list is the next ballot of its voter.
LEMMA NextBallot ==
    ASSUME NEW votes \in Seq(SeenVote), NEW b \in Seq(Ballot), Len(b) <= 2, Len(b) = 2 => b[1] # b[2],
           NEW held \in Seq(Ballot), NEW at \in [DOMAIN b -> DOMAIN votes], NEW phase, NEW id,
           SeenAt(votes, at, phase, id, b), NEW k \in 1 .. Len(votes), HeldBy(b, held, at, k - 1),
           votes[k].phase = phase, votes[k].id = id
    PROVE  /\ Len(held) < 2 /\ votes[k].ballot \notin ToSet(held)
           /\ HeldBy(b, Append(held, votes[k].ballot), at, k)
<1> DEFINE x == votes[k].ballot
           m == Len(held)
           n == Len(b)
           more == Append(held, x)
<1>1. /\ DOMAIN votes = 1 .. Len(votes) /\ DOMAIN b = 1 .. n /\ n \in {0, 1, 2}
      /\ DOMAIN held = 1 .. m /\ m \in Nat /\ m <= n /\ Len(votes) \in Nat
  <2>1. /\ DOMAIN votes = 1 .. Len(votes) /\ DOMAIN b = 1 .. Len(b) /\ Len(b) \in Nat
        /\ DOMAIN held = 1 .. Len(held) /\ Len(held) \in Nat /\ Len(votes) \in Nat
    BY LenProperties
  <2>2. Len(held) <= Len(b)
    BY DEF HeldBy
  <2> HIDE DEF HeldBy
  <2> QED  BY <2>1, <2>2
<1>2. PICK i \in 1 .. n : at[i] = k
  BY <1>1 DEF SeenAt
<1>3. votes[k] = [phase |-> phase, id |-> id, ballot |-> b[i]]
  BY <1>1, <1>2 DEF SeenAt
<1>4. x = b[i]
  BY <1>3
<1>5. votes[k] \in SeenVote
  BY LenProperties
<1>6. x \in Ballot
  BY <1>5 DEF SeenVote
<1>7. /\ Len(more) = m + 1 /\ \A j \in 1 .. m : more[j] = held[j]
      /\ more[m + 1] = x
  BY <1>6, AppendProperties
<1> HIDE DEF x, m, n, more
<1>8. \A j \in 1 .. n : at[j] \in Nat /\ (j < i => at[j] < k) /\ (i < j => k < at[j])
  <2>1. \A j \in 1 .. n : at[j] \in 1 .. Len(votes)
    BY <1>1
  <2>2. \A j, h \in 1 .. n : j < h => at[j] < at[h]
    BY <1>1 DEF SeenAt
  <2> QED  BY <1>1, <1>2, <2>1, <2>2
<1>9. \A j \in 1 .. n : j <= m <=> at[j] <= k - 1
  BY DEF HeldBy, m, n
<1>10. i = m + 1
  <2>1. ~(i <= m)
    BY <1>2, <1>8, <1>9
  <2>2. CASE i > m + 1
    <3>1. m + 1 \in 1 .. n /\ m + 1 < i
      BY <1>1, <1>2, <2>2
    <3>2. at[m + 1] <= k - 1
      BY <1>8, <3>1
    <3> QED  BY <1>1, <1>9, <3>1, <3>2
  <2> QED  BY <1>1, <1>2, <2>1, <2>2
<1>11. m < 2
  BY <1>1, <1>2, <1>10
<1>12. x \notin ToSet(held)
  <2> SUFFICES ASSUME x \in ToSet(held) PROVE FALSE
    OBVIOUS
  <2>1. PICK j \in 1 .. m : held[j] = x
    BY <1>1 DEF ToSet
  <2>2. j = 1 /\ m = 1 /\ i = 2 /\ n = 2
    BY <1>1, <1>2, <1>10, <1>11, <2>1
  <2>3. held[1] = b[1]
    BY <2>2 DEF HeldBy, m
  <2> QED  BY <1>4, <2>1, <2>2, <2>3 DEF n
<1>13. HeldBy(b, more, at, k)
  <2>1. Len(more) <= n
    BY <1>1, <1>2, <1>7, <1>10
  <2>2. ASSUME NEW j \in 1 .. Len(more) PROVE more[j] = b[j]
    <3>1. CASE j = m + 1
      BY <1>4, <1>7, <1>10, <3>1
    <3>2. CASE j # m + 1
      <4>1. j \in 1 .. m
        BY <1>1, <1>7, <2>2, <3>2
      <4>2. held[j] = b[j]
        BY <4>1 DEF HeldBy, m
      <4> QED  BY <1>7, <4>1, <4>2
    <3> QED  BY <3>1, <3>2
  <2>3. ASSUME NEW j \in 1 .. n PROVE j <= m + 1 <=> at[j] <= k
    <3>1. j < i \/ j = i \/ i < j
      BY <1>1, <1>2
    <3> QED  BY <1>1, <1>2, <1>8, <1>10, <3>1
  <2> QED  BY <1>7, <2>1, <2>2, <2>3 DEF HeldBy, n
<1> QED  BY <1>11, <1>12, <1>13 DEF x, m, more

\* A vote of another voter, or in the other phase, leaves the ballots as they are.
LEMMA OtherBallots ==
    ASSUME NEW votes \in Seq(SeenVote), NEW b \in Seq(Ballot),
           NEW held \in Seq(Ballot), NEW at \in [DOMAIN b -> DOMAIN votes], NEW phase, NEW id,
           SeenAt(votes, at, phase, id, b), NEW k \in 1 .. Len(votes), HeldBy(b, held, at, k - 1),
           votes[k].phase # phase \/ votes[k].id # id
    PROVE  HeldBy(b, held, at, k)
<1>1. DOMAIN votes = 1 .. Len(votes) /\ DOMAIN b = 1 .. Len(b) /\ Len(b) \in Nat /\ Len(votes) \in Nat
  BY LenProperties
<1>2. ASSUME NEW i \in 1 .. Len(b) PROVE at[i] \in Nat /\ at[i] # k
  <2>1. votes[at[i]] = [phase |-> phase, id |-> id, ballot |-> b[i]]
    BY <1>1 DEF SeenAt
  <2>2. votes[at[i]].phase = phase /\ votes[at[i]].id = id
    BY <2>1
  <2>3. at[i] \in 1 .. Len(votes)
    BY <1>1
  <2>4. at[i] # k
    BY <2>2
  <2> QED  BY <1>1, <2>3, <2>4
<1>3. \A i \in 1 .. Len(b) : at[i] <= k - 1 <=> at[i] <= k
  BY <1>2
<1> QED  BY <1>3 DEF HeldBy
\* The ballots of a voter in the round.
LEMMA BallotsOf ==
    ASSUME NEW r, RoundFits(r), NEW phase \in Phase, NEW id \in Ids
    PROVE  /\ r[phase].votes \in [Ids -> Seq(Ballot)] /\ r[phase].votes[id] \in Seq(Ballot)
           /\ Len(r[phase].votes[id]) <= 2
           /\ Len(r[phase].votes[id]) = 2 => r[phase].votes[id][1] # r[phase].votes[id][2]
<1>1. TrackerFits(r[phase])
  BY RoundPhases
<1> DEFINE t == r[phase]
<1> HIDE DEF t
<1>2. TrackerFits(t)
  BY <1>1 DEF t
<1>3. /\ t.votes \in [Ids -> Seq(Ballot)] /\ t.votes[id] \in Seq(Ballot)
      /\ Len(t.votes[id]) <= 2
      /\ Len(t.votes[id]) = 2 => t.votes[id][1] # t.votes[id][2]
  BY <1>2 DEF TrackerFits
<1> QED  BY <1>3 DEF t

\* Before the first vote nothing is held.
LEMMA HasNone ==
    ASSUME NEW r, RoundFits(r), NEW votes, Lists(votes, r)
    PROVE  HasUpTo(votes, r, NewRound(Base), 0)
<1> DEFINE u == NewRound(Base)
<1>1. u.prevote = EmptyTracker /\ u.precommit = EmptyTracker /\ RoundFits(u)
  BY NewRoundFits DEF NewRound, RoundOK
<1> HIDE DEF u
<1>2. \A phase \in Phase, id \in Ids : u[phase].votes[id] = <<>>
  BY <1>1, NewTracker, RoundPhases, PhaseFacts
<1>3. ASSUME NEW phase \in Phase, NEW id \in Ids
      PROVE  \E at \in [DOMAIN r[phase].votes[id] -> DOMAIN votes] :
                 /\ SeenAt(votes, at, phase, id, r[phase].votes[id])
                 /\ HeldBy(r[phase].votes[id], u[phase].votes[id], at, 0)
  <2> DEFINE b == r[phase].votes[id]
  <2>1. b \in Seq(Ballot)
    BY BallotsOf
  <2>2. PICK at \in [DOMAIN b -> DOMAIN votes] : SeenAt(votes, at, phase, id, b)
    BY DEF Lists
  <2> HIDE DEF b
  <2>3. DOMAIN votes = 1 .. Len(votes) /\ Len(votes) \in Nat /\ DOMAIN b = 1 .. Len(b) /\ Len(b) \in Nat
    BY <2>1, LenProperties DEF Lists
  <2>4. \A i \in 1 .. Len(b) : at[i] \in 1 .. Len(votes)
    BY <2>3
  <2>5. \A i \in 1 .. Len(b) : ~(at[i] <= 0) /\ ~(i <= 0)
    BY <2>3, <2>4
  <2>6. Len(<<>>) = 0
    OBVIOUS
  <2>7. HeldBy(b, <<>>, at, 0)
    BY <2>3, <2>5, <2>6 DEF HeldBy
  <2> QED  BY <1>2, <2>2, <2>7 DEF b
<1> QED  BY <1>3 DEF HasUpTo, u

\* The next vote of the list is new, and imported it is held.
LEMMA NextIsNew ==
    ASSUME NEW r, RoundFits(r), NEW votes, Lists(votes, r), NEW k \in 1 .. Len(votes),
           NEW u, RoundFits(u), HasUpTo(votes, r, u, k - 1)
    PROVE  /\ ~NotNew(u, votes[k].phase, votes[k].id, votes[k].ballot)
           /\ \A w : Imported(u, w, votes[k].phase, votes[k].id, votes[k].ballot)
                         => HasUpTo(votes, r, w, k)
<1> DEFINE phase == votes[k].phase
           id == votes[k].id
           ballot == votes[k].ballot
           b == r[phase].votes[id]
           held == u[phase].votes[id]
<1>1. votes \in Seq(SeenVote) /\ votes[k] \in SeenVote
  BY LenProperties DEF Lists
<1>2. phase \in Phase /\ id \in Ids /\ ballot \in Ballot
  BY <1>1 DEF SeenVote
<1> HIDE DEF phase, id, ballot
<1>3. PICK at \in [DOMAIN b -> DOMAIN votes] :
          SeenAt(votes, at, phase, id, b) /\ HeldBy(b, held, at, k - 1)
  BY <1>2 DEF HasUpTo
<1>4. /\ b \in Seq(Ballot) /\ Len(b) <= 2 /\ (Len(b) = 2 => b[1] # b[2])
      /\ held \in Seq(Ballot) /\ u[phase].votes \in [Ids -> Seq(Ballot)]
  BY <1>2, BallotsOf
<1> HIDE DEF b, held
<1>5. Len(held) < 2 /\ ballot \notin ToSet(held) /\ HeldBy(b, Append(held, ballot), at, k)
  BY <1>1, <1>3, <1>4, NextBallot DEF phase, id, ballot
<1>6. ~NotNew(u, phase, id, ballot)
  <2>1. Len(held) \in Nat
    BY <1>4, LenProperties
  <2>2. Len(held) # 2
    BY <1>5, <2>1
  <2>3. held # <<>> /\ NotNew(u, phase, id, ballot) => ballot \in ToSet(held) \/ Len(held) = 2
    BY <1>2 DEF NotNew, held
  <2>4. NotNew(u, phase, id, ballot) => held # <<>>
    BY <1>2 DEF NotNew, held
  <2> QED  BY <1>5, <2>2, <2>3, <2>4
<1>7. ASSUME NEW w, Imported(u, w, phase, id, ballot) PROVE HasUpTo(votes, r, w, k)
  <2> DEFINE old == u[phase].votes
             new == w[phase].votes
  <2>1. \/ old[id] = <<>> /\ new = [old EXCEPT ![id] = <<ballot>>]
        \/ new = [old EXCEPT ![id] = Append(old[id], ballot)]
    BY <1>7 DEF Imported, Tallied, CaughtTwice
  <2>2. old \in [Ids -> Seq(Ballot)] /\ old[id] = held
    BY <1>4 DEF held
  <2> HIDE DEF old, new
  <2>3. new[id] = Append(held, ballot)
    <3>1. Append(<<>>, ballot) = <<ballot>>
      OBVIOUS
    <3> QED  BY <1>2, <2>1, <2>2, <3>1
  <2>4. \A i \in Ids : i # id => new[i] = old[i]
    BY <2>1, <2>2
  <2>5. ASSUME NEW ph \in Phase, NEW i \in Ids, ph # phase \/ i # id PROVE w[ph].votes[i] = u[ph].votes[i]
    <3>1. CASE ph # phase
      BY <1>7, <3>1 DEF Imported
    <3>2. CASE ph = phase
      BY <2>4, <2>5, <3>2 DEF new, old
    <3> QED  BY <3>1, <3>2
  <2>6. ASSUME NEW ph \in Phase, NEW i \in Ids
        PROVE  \E to \in [DOMAIN r[ph].votes[i] -> DOMAIN votes] :
                   /\ SeenAt(votes, to, ph, i, r[ph].votes[i])
                   /\ HeldBy(r[ph].votes[i], w[ph].votes[i], to, k)
    <3>1. CASE ph = phase /\ i = id
      BY <1>3, <1>5, <2>3, <3>1 DEF b, new
    <3>2. CASE ph # phase \/ i # id
      <4> DEFINE c == r[ph].votes[i]
                 has == u[ph].votes[i]
      <4>1. PICK to \in [DOMAIN c -> DOMAIN votes] : SeenAt(votes, to, ph, i, c) /\ HeldBy(c, has, to, k - 1)
        BY DEF HasUpTo
      <4>2. c \in Seq(Ballot) /\ has \in Seq(Ballot)
        BY BallotsOf
      <4>3. w[ph].votes[i] = has
        BY <2>5, <3>2
      <4> HIDE DEF c, has
      <4>4. HeldBy(c, has, to, k)
        BY <1>1, <3>2, <4>1, <4>2, OtherBallots DEF phase, id
      <4> QED  BY <4>1, <4>3, <4>4 DEF c
    <3> QED  BY <3>1, <3>2
  <2> QED  BY <2>6 DEF HasUpTo
<1> QED  BY <1>6, <1>7 DEF phase, id, ballot

\* A part of the votes are all above the base, and few of them twice, when it is so of all.
LEMMA PartIsFine ==
    ASSUME NEW r, RoundFits(r), AboveBase(r), OnlyByzantineTwice(r), NEW votes,
           NEW k, NEW u, RoundFits(u), HasUpTo(votes, r, u, k)
    PROVE  AboveBase(u) /\ OnlyByzantineTwice(u)
<1>1. ASSUME NEW phase \in Phase, NEW id \in Ids
      PROVE  /\ \A ballot \in ToSet(u[phase].votes[id]) : Base \in Ancestors[ballot.target]
             /\ Len(u[phase].votes[id]) = 2 => Len(r[phase].votes[id]) = 2
  <2> DEFINE b == r[phase].votes[id]
             held == u[phase].votes[id]
  <2>1. b \in Seq(Ballot) /\ held \in Seq(Ballot) /\ Len(b) <= 2
    BY BallotsOf
  <2>2. PICK at : HeldBy(b, held, at, k)
    BY DEF HasUpTo
  <2>3. \A ballot \in ToSet(b) : Base \in Ancestors[ballot.target]
    BY DEF AboveBase
  <2> HIDE DEF b, held
  <2>4. /\ DOMAIN b = 1 .. Len(b) /\ Len(b) \in Nat /\ DOMAIN held = 1 .. Len(held) /\ Len(held) \in Nat
    BY <2>1, LenProperties
  <2>5. Len(held) <= Len(b) /\ \A i \in 1 .. Len(held) : held[i] = b[i]
    BY <2>2 DEF HeldBy
  <2>6. ASSUME NEW ballot \in ToSet(held) PROVE Base \in Ancestors[ballot.target]
    <3>1. PICK i \in 1 .. Len(held) : ballot = held[i]
      BY <2>4 DEF ToSet
    <3>2. i \in 1 .. Len(b)
      BY <2>4, <2>5
    <3>3. ballot \in ToSet(b)
      BY <2>4, <2>5, <3>1, <3>2 DEF ToSet
    <3> QED  BY <2>3, <3>3
  <2>7. Len(held) = 2 => Len(b) = 2
    BY <2>1, <2>4, <2>5
  <2> QED  BY <2>6, <2>7 DEF b, held
<1>2. \A phase \in Phase : TwoVotes(u[phase]) \subseteq TwoVotes(r[phase])
  BY <1>1 DEF TwoVotes, Ids
<1> QED  BY <1>1, <1>2 DEF AboveBase, OnlyByzantineTwice

\* After the last vote all are held.
LEMMA HasAll ==
    ASSUME NEW r, RoundFits(r), NEW votes, Lists(votes, r), NEW u, RoundFits(u),
           HasUpTo(votes, r, u, Len(votes))
    PROVE  \A phase \in Phase : /\ FirstTarget(u[phase]) = FirstTarget(r[phase])
                                /\ TwoVotes(u[phase]) = TwoVotes(r[phase])
<1>1. ASSUME NEW phase \in Phase, NEW id \in Ids PROVE u[phase].votes[id] = r[phase].votes[id]
  <2> DEFINE b == r[phase].votes[id]
             held == u[phase].votes[id]
  <2>1. b \in Seq(Ballot) /\ held \in Seq(Ballot)
    BY BallotsOf
  <2>2. PICK at \in [DOMAIN b -> DOMAIN votes] : HeldBy(b, held, at, Len(votes))
    BY DEF HasUpTo
  <2> HIDE DEF b, held
  <2>3. /\ DOMAIN b = 1 .. Len(b) /\ Len(b) \in Nat /\ DOMAIN held = 1 .. Len(held) /\ Len(held) \in Nat
        /\ DOMAIN votes = 1 .. Len(votes) /\ Len(votes) \in Nat
    BY <2>1, LenProperties DEF Lists
  <2>4. Len(held) <= Len(b) /\ \A i \in 1 .. Len(held) : held[i] = b[i]
    BY <2>2 DEF HeldBy
  <2>5. \A i \in 1 .. Len(b) : at[i] <= Len(votes)
    <3>1. \A i \in 1 .. Len(b) : at[i] \in 1 .. Len(votes)
      BY <2>3
    <3> QED  BY <2>3, <3>1
  <2>6. \A i \in 1 .. Len(b) : i <= Len(held)
    BY <2>2, <2>5 DEF HeldBy
  <2>7. Len(held) = Len(b)
    <3>1. CASE Len(b) = 0
      BY <2>3, <2>4, <3>1
    <3>2. CASE Len(b) # 0
      <4>1. Len(b) \in 1 .. Len(b)
        BY <2>3, <3>2
      <4>2. Len(b) <= Len(held)
        BY <2>6, <4>1
      <4>3. Len(held) \in Nat /\ Len(b) \in Nat
        BY <2>3
      <4>4. Len(held) <= Len(b)
        BY <2>4
      <4> QED  BY <4>2, <4>3, <4>4
    <3> QED  BY <3>1, <3>2
  <2>8. held = b
    BY <2>1, <2>4, <2>7, SeqEqual
  <2> QED  BY <2>8 DEF b, held
<1> QED  BY <1>1 DEF FirstTarget, TwoVotes, Ids
\* Every vote of the list is above the base when the round's are.
LEMMA ListedAbove ==
    ASSUME NEW r, RoundFits(r), AboveBase(r), NEW votes, Lists(votes, r), NEW k \in 1 .. Len(votes)
    PROVE  Base \in Ancestors[votes[k].ballot.target]
<1> DEFINE phase == votes[k].phase
           id == votes[k].id
           ballot == votes[k].ballot
           b == r[phase].votes[id]
<1>1. votes \in Seq(SeenVote) /\ votes[k] \in SeenVote /\ k \in DOMAIN votes
  BY LenProperties DEF Lists
<1>2. phase \in Phase /\ id \in Ids
  BY <1>1 DEF SeenVote
<1>3. PICK at \in [DOMAIN b -> DOMAIN votes] : SeenAt(votes, at, phase, id, b)
  BY <1>2 DEF Lists
<1>4. PICK i \in DOMAIN b : at[i] = k
  BY <1>1, <1>3 DEF SeenAt
<1>5. votes[k] = [phase |-> phase, id |-> id, ballot |-> b[i]]
  BY <1>3, <1>4 DEF SeenAt
<1>6. ballot = b[i]
  BY <1>5
<1>7. ballot \in ToSet(b)
  BY <1>4, <1>6 DEF ToSet
<1> HIDE DEF ballot, b
<1>8. Base \in Ancestors[ballot.target]
  BY <1>2, <1>7 DEF AboveBase, b
<1> QED  BY <1>8 DEF ballot

\* The model has None where the code has no round.
NoneIsNoRound == \A r : RoundFits(r) => r # None

\* A round made of the first k votes of the list.
MadeOf(votes, r, u, k) == u # None /\ RoundOK(u) /\ Settled(u) /\ HasUpTo(votes, r, u, k)

\* Importing the next vote of the list into it makes one of the votes up to that.
LEMMA NextImport ==
    ASSUME NoneIsNoRound, NEW r, RoundFits(r), AboveBase(r), OnlyByzantineTwice(r),
           NEW votes, Lists(votes, r), NEW k \in 1 .. Len(votes),
           NEW rounds, \A u \in rounds : MadeOf(votes, r, u, k - 1)
    PROVE  /\ Base \in Ancestors[votes[k].ballot.target]
           /\ \A w \in ImportInto(rounds, votes[k].phase, votes[k].id, votes[k].ballot) :
                  MadeOf(votes, r, w, k)
<1> DEFINE phase == votes[k].phase
           id == votes[k].id
           ballot == votes[k].ballot
<1>1. votes \in Seq(SeenVote) /\ votes[k] \in SeenVote /\ k \in DOMAIN votes
  BY LenProperties DEF Lists
<1>2. phase \in Phase /\ id \in Ids /\ ballot \in Ballot
  BY <1>1 DEF SeenVote
<1>3. Base \in Ancestors[ballot.target]
  BY ListedAbove
<1> HIDE DEF phase, id, ballot
<1>4. ASSUME NEW u \in rounds, NEW result \in ImportVote(u, phase, id, ballot)
      PROVE  result.kind # "refused" /\ MadeOf(votes, r, result.round, k)
  <2> DEFINE w == result.round
  <2>1. u # None /\ RoundOK(u) /\ RoundFits(u) /\ Settled(u) /\ HasUpTo(votes, r, u, k - 1)
    BY <1>4 DEF MadeOf, RoundOK
  <2>2. result \in Derived(phase, RecordVote(u, phase, id, ballot))
    BY <1>2, <1>4, PhaseFacts DEF ImportVote, ImportPrevote, ImportPrecommit
  <2>3. ~NotNew(u, phase, id, ballot)
    BY <2>1, NextIsNew DEF phase, id, ballot
  <2>4. RoundOK(w) /\ result.kind # "refused" /\ Imported(u, w, phase, id, ballot)
    BY <1>2, <1>3, <2>1, <2>2, <2>3, ImportCases DEF Imported
  <2> HIDE DEF w
  <2>5. RoundFits(w) /\ w # None
    BY <2>4 DEF RoundOK, NoneIsNoRound
  <2>6. HasUpTo(votes, r, w, k)
    BY <2>1, <2>4, NextIsNew DEF phase, id, ballot
  <2>7. AboveBase(w) /\ OnlyByzantineTwice(u)
    BY <2>1, <2>5, <2>6, PartIsFine
  <2>8. Tolerated(u)
    BY <2>7, FewEquivocate
  <2>9. Settled(w)
    BY <1>2, <2>1, <2>4, <2>7, <2>8, ImportedSettled
  <2> QED  BY <2>4, <2>5, <2>6, <2>9 DEF MadeOf, w
<1>5. ASSUME NEW w \in ImportInto(rounds, phase, id, ballot) PROVE MadeOf(votes, r, w, k)
  <2>1. PICK u \in rounds : w \in IF u = None THEN {None}
             ELSE {IF i.kind = "refused" THEN None ELSE i.round : i \in ImportVote(u, phase, id, ballot)}
    BY <1>5 DEF ImportInto
  <2>2. u # None
    BY DEF MadeOf
  <2>3. PICK i \in ImportVote(u, phase, id, ballot) : w = IF i.kind = "refused" THEN None ELSE i.round
    BY <2>1, <2>2
  <2> QED  BY <1>4, <2>3
<1> QED  BY <1>3, <1>5 DEF phase, id, ballot

\* Importing them all makes rounds in the state of the first.
LEMMA ReplayedIsSame ==
    ASSUME NoneIsNoRound, NEW r, RoundFits(r), AboveBase(r), OnlyByzantineTwice(r), Settled(r),
           NEW votes, Lists(votes, r), NEW f, Replayed({NewRound(Base)}, votes, f)
    PROVE  \A u \in f[Len(votes)] : u # None /\ StateOf(u) = StateOf(r)
<1> DEFINE n == Len(votes)
           Good == {k \in 0 .. n : \A u \in f[k] : MadeOf(votes, r, u, k)}
<1>1. n \in Nat
  BY LenProperties DEF Lists
<1>2. 0 \in Good
  <2> DEFINE u == NewRound(Base)
  <2>1. RoundOK(u) /\ Settled(u) /\ RoundFits(u)
    BY NewRoundFits, NewSettled DEF RoundOK
  <2>2. HasUpTo(votes, r, u, 0)
    BY HasNone
  <2>3. f[0] = {u}
    BY DEF Replayed
  <2> HIDE DEF u
  <2>4. MadeOf(votes, r, u, 0)
    BY <2>1, <2>2 DEF MadeOf, NoneIsNoRound
  <2> QED  BY <1>1, <2>3, <2>4
<1>3. ASSUME NEW k \in 1 .. n, k - 1 \in Good PROVE k \in Good
  <2>1. \A u \in f[k - 1] : MadeOf(votes, r, u, k - 1)
    BY <1>3
  <2>2. /\ Base \in Ancestors[votes[k].ballot.target]
        /\ \A w \in ImportInto(f[k - 1], votes[k].phase, votes[k].id, votes[k].ballot) :
               MadeOf(votes, r, w, k)
    BY <2>1, NextImport
  <2>3. f[k] = HandleVote(f[k - 1], Base, votes[k])
    BY DEF Replayed
  <2>4. f[k] = ImportInto(f[k - 1], votes[k].phase, votes[k].id, votes[k].ballot)
    BY <2>2, <2>3 DEF HandleVote, IsEqualOrDescendentOf
  <2>5. k \in 0 .. n
    BY <1>1
  <2> QED  BY <2>2, <2>4, <2>5
<1>4. n \in Good
  <2> HIDE DEF Good, n
  <2>1. \A k \in 0 .. n : k \in Good
    BY <1>1, <1>2, <1>3, CountingUp
  <2> QED  BY <1>1, <2>1
<1>5. ASSUME NEW u \in f[n] PROVE u # None /\ StateOf(u) = StateOf(r)
  <2>1. MadeOf(votes, r, u, n)
    BY <1>4, <1>5
  <2>2. u # None /\ RoundFits(u) /\ Settled(u) /\ HasUpTo(votes, r, u, n)
    BY <2>1 DEF MadeOf, RoundOK
  <2>3. Tolerated(r)
    BY FewEquivocate
  <2>4. \A phase \in Phase : /\ FirstTarget(u[phase]) = FirstTarget(r[phase])
                             /\ TwoVotes(u[phase]) = TwoVotes(r[phase])
    BY <2>2, HasAll
  <2>5. StateOf(u) = StateOf(r)
    BY <2>2, <2>3, <2>4, OneSettled
  <2> QED  BY <2>2, <2>5
<1> QED  BY <1>5
\* AllAboveBase, the model's word for it, and the theorem's.
LEMMA AllAboveIsAbove == AllAboveBase <=> AboveBase(round)
  BY DEF AllAboveBase, AboveBase, Ids, IsEqualOrDescendentOf

-----------------------------------------------------------------------------
(* The last round, made anew from its history *)

\* The history of a round lists its votes.
LEMMA HistoryLists ==
    ASSUME NEW r, RoundOK(r), AboveBase(r)
    PROVE  Lists(r.historical_votes.seen, r)
<1>1. RoundFits(r) /\ HistoryIsExact(r) /\ r.historical_votes.seen \in Seq(SeenVote)
  BY DEF RoundOK, HistoryFits
<1>2. ASSUME NEW phase \in Phase, NEW id \in Ids
      PROVE  Tracked(r[phase].votes[id]) = r[phase].votes[id]
  <2> DEFINE b == r[phase].votes[id]
  <2>1. b \in Seq(Ballot)
    BY <1>1, BallotsOf
  <2>2. \A ballot \in ToSet(b) : Base \in Ancestors[ballot.target]
    BY DEF AboveBase
  <2> HIDE DEF b
  <2>3. ASSUME b # <<>> PROVE IsEqualOrDescendentOf(Base, b[1].target)
    <3>1. Len(b) \in Nat /\ Len(b) # 0 /\ DOMAIN b = 1 .. Len(b)
      BY <2>1, <2>3, LenProperties, SeqLength
    <3>2. 1 \in DOMAIN b
      BY <3>1
    <3>3. b[1] \in ToSet(b)
      BY <3>2 DEF ToSet
    <3> QED  BY <2>2, <3>3 DEF IsEqualOrDescendentOf
  <2>4. Tracked(b) = b
    BY <2>3 DEF Tracked
  <2> QED  BY <2>4 DEF b
<1>3. ASSUME NEW phase \in Phase, NEW id \in Ids
      PROVE  \E at \in [DOMAIN r[phase].votes[id] -> DOMAIN r.historical_votes.seen] :
                 SeenAt(r.historical_votes.seen, at, phase, id, r[phase].votes[id])
  <2> DEFINE seen == r.historical_votes.seen
             b == r[phase].votes[id]
  <2>1. \E at \in [DOMAIN Tracked(b) -> DOMAIN seen] : SeenAt(seen, at, phase, id, Tracked(b))
    BY <1>1 DEF HistoryIsExact, Ids
  <2>2. Tracked(b) = b
    BY <1>2
  <2> HIDE DEF seen, b
  <2>3. \E at \in [DOMAIN b -> DOMAIN seen] : SeenAt(seen, at, phase, id, b)
    BY <2>1, <2>2
  <2> QED  BY <2>3 DEF seen, b
<1> QED  BY <1>1, <1>3 DEF Lists

\* Voter::new's instantiate_last_round gives back the last round: whatever votes a round
\* imported, in whatever order, repeated or twice by the voters that may, once it is
\* completable its stored votes make a round that is completable and has the same estimate,
\* prevote-GHOST and finalized block.
THEOREM RebuiltRoundsAreSame == NoneIsNoRound => (ImportSpec => []RebuiltIsSame)
<1> SUFFICES ASSUME NoneIsNoRound PROVE ImportSpec => []RebuiltIsSame
  OBVIOUS
<1>1. WellMade /\ RoundSettled => RebuiltIsSame
  <2> SUFFICES ASSUME WellMade, RoundSettled, round.completable, AllAboveBase,
                      NEW u \in InstantiateLastRound(Base, round.historical_votes)
               PROVE  u # None /\ StateOf(u) = StateOf(round)
    BY DEF RebuiltIsSame
  <2> DEFINE votes == round.historical_votes.seen
             start == {NewRound(Base)}
             rebuilt == FoldLeft(LAMBDA rs, vote : HandleVote(rs, Base, vote), start, votes)
  <2>1. /\ RoundOK(round) /\ RoundFits(round) /\ AboveBase(round)
        /\ OnlyByzantineTwice(round) /\ Settled(round)
    BY AllAboveIsAbove DEF WellMade, RoundOK, RoundSettled
  <2>2. Lists(votes, round)
    BY <2>1, HistoryLists
  <2>3. u \in OnlyCompletable(rebuilt)
    BY DEF InstantiateLastRound
  <2> HIDE DEF votes
  <2>4. votes \in Seq(SeenVote) /\ Len(votes) \in Nat /\ DOMAIN votes = 1 .. Len(votes)
    BY <2>2, LenProperties DEF Lists
  <2>5. PICK f : Replayed(start, votes, f) /\ f[Len(votes)] = rebuilt
    BY <2>4, HandledInTurn
  <2> HIDE DEF rebuilt
  <2>6. \A w \in rebuilt : w # None /\ StateOf(w) = StateOf(round)
    BY <2>1, <2>2, <2>5, ReplayedIsSame
  <2>7. PICK w \in rebuilt : u = IF w # None /\ w.completable THEN w ELSE None
    BY <2>3 DEF OnlyCompletable
  <2>8. w.completable = round.completable
    BY <2>6 DEF StateOf
  <2> QED  BY <2>6, <2>7, <2>8
<1> QED  BY <1>1, RoundStaysSettled, PTL
-----------------------------------------------------------------------------
(* The round made of a catch-up *)

\* The votes of a phase stand voter by voter in a catch-up, those of each from a place on.
StandFrom(list, o, id, b) ==
    /\ \A j \in 1 .. Len(b) : o + j \in 1 .. Len(list) /\ list[o + j] = SignedBy(id, b[j])
    /\ \A k \in 1 .. Len(list) : list[k].id = id => \E j \in 1 .. Len(b) : k = o + j

LEMMA HeldInARow ==
    ASSUME NEW r, RoundFits(r), NEW phase \in Phase
    PROVE  /\ VotesHeld(r, phase) \in Seq(Signed)
           /\ \A id \in Ids : \E o \in Nat : StandFrom(VotesHeld(r, phase), o, id, r[phase].votes[id])
<1> DEFINE b(id) == r[phase].votes[id]
           signed(id) == [i \in DOMAIN b(id) |-> SignedBy(id, b(id)[i])]
           n == Len(Voters.voters)
           seqs == [i \in 1 .. n |-> signed(Voters.voters[i].id)]
           list == FlattenSeq(seqs)
<1>1. ASSUME NEW id \in Ids
      PROVE  /\ signed(id) \in Seq(Signed) /\ Len(signed(id)) = Len(b(id))
             /\ \A j \in 1 .. Len(b(id)) : signed(id)[j] = SignedBy(id, b(id)[j])
  <2> DEFINE s == b(id)
             signs == [i \in DOMAIN s |-> SignedBy(id, s[i])]
  <2>1. s \in Seq(Ballot)
    BY BallotsOf
  <2> HIDE DEF s
  <2>2. Len(s) \in Nat /\ DOMAIN s = 1 .. Len(s) /\ \A i \in 1 .. Len(s) : s[i] \in Ballot
    BY <2>1, LenProperties
  <2>3. \A i \in 1 .. Len(s) : SignedBy(id, s[i]) \in Signed
    BY <2>2 DEF Signed, SignedBy
  <2>4. /\ signs \in Seq(Signed) /\ Len(signs) = Len(s)
        /\ \A j \in 1 .. Len(s) : signs[j] = SignedBy(id, s[j])
    BY <2>2, <2>3
  <2> QED  BY <2>4 DEF s
<1>2. VotesHeld(r, phase) = list
  <2>1. [i \in DOMAIN Voters.voters |-> signed(Voters.voters[i].id)] = seqs
    BY VoterPlaces
  <2> QED  BY <2>1 DEF VotesHeld, SignedBy
<1>3. seqs \in [1 .. n -> Seq(Signed)] /\ n \in Nat
  <2> HIDE DEF signed
  <2> QED  BY <1>1, VoterPlaces
<1>4. \A i \in 1 .. n : seqs[i] = signed(Voters.voters[i].id) /\ Voters.voters[i].id \in Ids
  <2> HIDE DEF signed
  <2> QED  BY VoterPlaces
<1>5. list \in Seq(Signed)
  <2> HIDE DEF seqs, n
  <2> QED  BY <1>3, FlattenFacts
<1>6. PICK off : InARow(seqs, n, list, off)
  <2> HIDE DEF seqs, n
  <2> QED  BY <1>3, FlattenFacts
<1>7. ASSUME NEW i \in 1 .. n
      PROVE  LET id == Voters.voters[i].id
             IN  /\ id \in Ids /\ Len(seqs[i]) = Len(b(id))
                 /\ \A j \in 1 .. Len(seqs[i]) : seqs[i][j] = SignedBy(id, b(id)[j])
  <2> HIDE DEF seqs, n, b
  <2>1. Voters.voters[i].id \in Ids /\ seqs[i] = signed(Voters.voters[i].id)
    BY <1>4
  <2> HIDE DEF signed
  <2> QED  BY <1>1, <2>1
<1> HIDE DEF list, seqs
<1>8. ASSUME NEW p \in 1 .. n
      PROVE  StandFrom(list, off[p], Voters.voters[p].id, b(Voters.voters[p].id))
  <2> DEFINE id == Voters.voters[p].id
  <2>1. id \in Ids /\ Len(seqs[p]) = Len(b(id)) /\ \A j \in 1 .. Len(b(id)) : seqs[p][j] = SignedBy(id, b(id)[j])
    BY <1>7
  <2> HIDE DEF b
  <2>2. ASSUME NEW j \in 1 .. Len(b(id))
        PROVE  off[p] + j \in 1 .. Len(list) /\ list[off[p] + j] = SignedBy(id, b(id)[j])
    BY <1>6, <2>1 DEF InARow
  <2>3. ASSUME NEW k \in 1 .. Len(list), list[k].id = id PROVE \E j \in 1 .. Len(b(id)) : k = off[p] + j
    <3>1. PICK i \in 1 .. n : \E j \in 1 .. Len(seqs[i]) : k = off[i] + j
      BY <1>6 DEF InARow
    <3>2. PICK j \in 1 .. Len(seqs[i]) : k = off[i] + j
      BY <3>1
    <3>3. list[k] = seqs[i][j]
      BY <1>6, <3>2 DEF InARow
    <3>4. list[k].id = Voters.voters[i].id
      <4>1. seqs[i][j] = SignedBy(Voters.voters[i].id, b(Voters.voters[i].id)[j])
        BY <1>7
      <4>2. SignedBy(Voters.voters[i].id, b(Voters.voters[i].id)[j]).id = Voters.voters[i].id
        BY DEF SignedBy
      <4> QED  BY <3>3, <4>1, <4>2
    <3>5. i = p
      BY <2>3, <3>4, VoterPlaces DEF n
    <3>6. j \in 1 .. Len(b(id))
      BY <2>1, <3>5
    <3> QED  BY <3>2, <3>5, <3>6
  <2> QED  BY <2>2, <2>3 DEF StandFrom
<1>9. ASSUME NEW id \in Ids PROVE \E o \in Nat : StandFrom(list, o, id, b(id))
  <2>1. PICK p \in 1 .. n : Voters.voters[p].id = id
    BY VoterPlaces
  <2>2. off[p] \in Nat
    BY <1>6 DEF InARow
  <2> HIDE DEF b
  <2> QED  BY <1>8, <2>1, <2>2
<1> QED  BY <1>2, <1>5, <1>9

\* The votes of a catch-up made of a round, in the order of their import, list its votes.
LEMMA CatchUpLists ==
    ASSUME NEW r, RoundFits(r)
    PROVE  Lists(InImportOrder(CatchUpFor(r)), r)
<1> DEFINE pvs == VotesHeld(r, "prevote")
           pcs == VotesHeld(r, "precommit")
           first == OfPhase("prevote", pvs)
           then == OfPhase("precommit", pcs)
           votes == first \o then
           m == Len(pvs)
           n == Len(pcs)
<1>1. pvs \in Seq(Signed) /\ pcs \in Seq(Signed)
  BY HeldInARow, PhaseFacts
<1>2. /\ \A id \in Ids : \E o \in Nat : StandFrom(pvs, o, id, r["prevote"].votes[id])
      /\ \A id \in Ids : \E o \in Nat : StandFrom(pcs, o, id, r["precommit"].votes[id])
  BY HeldInARow, PhaseFacts
<1>3. InImportOrder(CatchUpFor(r)) = votes
  BY DEF InImportOrder, CatchUpFor
<1> HIDE DEF pvs, pcs
<1>4. ASSUME NEW phase \in Phase, NEW list \in Seq(Signed)
      PROVE  /\ OfPhase(phase, list) \in Seq(SeenVote) /\ Len(OfPhase(phase, list)) = Len(list)
             /\ \A k \in 1 .. Len(list) : OfPhase(phase, list)[k] = Seen(phase, list[k].id, list[k].ballot)
  <2>1. DOMAIN list = 1 .. Len(list) /\ Len(list) \in Nat /\ \A k \in 1 .. Len(list) : list[k] \in Signed
    BY LenProperties
  <2>2. \A k \in 1 .. Len(list) : Seen(phase, list[k].id, list[k].ballot) \in SeenVote
    BY <2>1 DEF Signed, SeenVote, Seen
  <2>3. OfPhase(phase, list) = [k \in 1 .. Len(list) |-> Seen(phase, list[k].id, list[k].ballot)]
    BY <2>1 DEF OfPhase, Seen
  <2> QED  BY <2>1, <2>2, <2>3
<1>5. /\ first \in Seq(SeenVote) /\ Len(first) = m
      /\ \A k \in 1 .. m : first[k] = Seen("prevote", pvs[k].id, pvs[k].ballot)
      /\ then \in Seq(SeenVote) /\ Len(then) = n
      /\ \A k \in 1 .. n : then[k] = Seen("precommit", pcs[k].id, pcs[k].ballot)
  BY <1>1, <1>4, PhaseFacts
<1> HIDE DEF first, then
<1>6. /\ votes \in Seq(SeenVote) /\ Len(votes) = m + n /\ m \in Nat /\ n \in Nat
      /\ \A k \in 1 .. m : votes[k] = first[k]
      /\ \A k \in 1 .. n : votes[m + k] = then[k]
  <2>1. /\ first \o then \in Seq(SeenVote) /\ Len(first \o then) = Len(first) + Len(then)
        /\ Len(first) \in Nat /\ Len(then) \in Nat
        /\ \A k \in 1 .. Len(first) : (first \o then)[k] = first[k]
        /\ \A k \in 1 .. Len(then) : (first \o then)[Len(first) + k] = then[k]
    <3>1. first \in Seq(SeenVote) /\ then \in Seq(SeenVote)
      BY <1>5
    <3> QED  BY <3>1, ConcatFacts, SMTT(30)
  <2> HIDE DEF m, n
  <2>2. Len(first) = m /\ Len(then) = n
    BY <1>5
  <2> QED  BY <2>1, <2>2
<1> HIDE DEF votes, m, n
<1>7. DOMAIN votes = 1 .. m + n
  BY <1>6, LenProperties
<1>8. /\ \A k \in 1 .. m : votes[k] = Seen("prevote", pvs[k].id, pvs[k].ballot)
      /\ \A k \in 1 .. n : votes[m + k] = Seen("precommit", pcs[k].id, pcs[k].ballot)
  BY <1>5, <1>6
<1>9. /\ \A phase, id, ballot : /\ Seen(phase, id, ballot).phase = phase /\ Seen(phase, id, ballot).id = id
      /\ \A id, ballot : SignedBy(id, ballot).id = id /\ SignedBy(id, ballot).ballot = ballot
  BY DEF Seen, SignedBy
<1>10. ASSUME NEW k \in 1 .. m + n
       PROVE  \/ k \in 1 .. m /\ votes[k].phase = "prevote" /\ votes[k].id = pvs[k].id
              \/ \E i \in 1 .. n : k = m + i /\ votes[k].phase = "precommit" /\ votes[k].id = pcs[i].id
  <2>1. CASE k <= m
    <3>1. k \in 1 .. m
      BY <1>6, <2>1
    <3> QED  BY <1>8, <1>9, <3>1
  <2>2. CASE ~(k <= m)
    <3>1. k - m \in 1 .. n /\ k = m + (k - m)
      BY <1>6, <2>2
    <3>2. votes[m + (k - m)] = Seen("precommit", pcs[k - m].id, pcs[k - m].ballot)
      BY <1>8, <3>1
    <3> QED  BY <1>9, <3>1, <3>2
  <2> QED  BY <2>1, <2>2
\* One phase: its votes are the votes of the list whose places are moved by d.
<1>11. ASSUME NEW phase \in Phase, NEW id \in Ids, NEW list, NEW d \in Nat,
              \A k \in 1 .. Len(list) : d + k \in 1 .. m + n /\ votes[d + k] = Seen(phase, list[k].id, list[k].ballot),
              \A k \in 1 .. m + n : votes[k].phase = phase => \E i \in 1 .. Len(list) : k = d + i /\ votes[k].id = list[i].id,
              \E o \in Nat : StandFrom(list, o, id, r[phase].votes[id])
       PROVE  \E at \in [DOMAIN r[phase].votes[id] -> DOMAIN votes] :
                  SeenAt(votes, at, phase, id, r[phase].votes[id])
  <2> DEFINE b == r[phase].votes[id]
  <2>1. PICK o \in Nat : StandFrom(list, o, id, b)
    BY <1>11
  <2>2. b \in Seq(Ballot)
    BY BallotsOf
  <2> HIDE DEF b
  <2>3. DOMAIN b = 1 .. Len(b) /\ Len(b) \in Nat
    BY <2>2, LenProperties
  <2> DEFINE at == [j \in DOMAIN b |-> d + (o + j)]
  <2>4. \A j \in 1 .. Len(b) : /\ o + j \in 1 .. Len(list) /\ list[o + j] = SignedBy(id, b[j])
                               /\ at[j] = d + (o + j)
    BY <2>1, <2>3 DEF StandFrom
  <2>5. at \in [DOMAIN b -> DOMAIN votes]
    BY <1>7, <1>11, <2>3, <2>4
  <2> HIDE DEF at
  <2>6. \A i, j \in DOMAIN b : i < j => at[i] < at[j]
    BY <2>3, <2>4
  <2>7. ASSUME NEW j \in DOMAIN b PROVE votes[at[j]] = [phase |-> phase, id |-> id, ballot |-> b[j]]
    <3>1. votes[d + (o + j)] = Seen(phase, list[o + j].id, list[o + j].ballot)
      BY <1>11, <2>3, <2>4
    <3>2. list[o + j].id = id /\ list[o + j].ballot = b[j] /\ at[j] = d + (o + j)
      BY <1>9, <2>3, <2>4
    <3> QED  BY <3>1, <3>2 DEF Seen
  <2>8. ASSUME NEW k \in DOMAIN votes, votes[k].phase = phase, votes[k].id = id
        PROVE  \E i \in DOMAIN b : at[i] = k
    <3>1. PICK i \in 1 .. Len(list) : k = d + i /\ votes[k].id = list[i].id
      BY <1>7, <1>11, <2>8
    <3>2. PICK j \in 1 .. Len(b) : i = o + j
      BY <2>1, <2>8, <3>1 DEF StandFrom
    <3>3. at[j] = k /\ j \in DOMAIN b
      BY <2>3, <2>4, <3>1, <3>2
    <3> QED  BY <3>3
  <2>9. SeenAt(votes, at, phase, id, b)
    BY <2>6, <2>7, <2>8 DEF SeenAt
  <2> QED  BY <2>5, <2>9 DEF b
<1>12. ASSUME NEW phase \in Phase, NEW id \in Ids
       PROVE  \E at \in [DOMAIN r[phase].votes[id] -> DOMAIN votes] :
                  SeenAt(votes, at, phase, id, r[phase].votes[id])
  <2>1. CASE phase = "prevote"
    <3>1. \A k \in 1 .. Len(pvs) : 0 + k \in 1 .. m + n /\ votes[0 + k] = Seen(phase, pvs[k].id, pvs[k].ballot)
      BY <1>6, <1>8, <2>1 DEF m
    <3>2. ASSUME NEW k \in 1 .. m + n, votes[k].phase = phase
          PROVE  \E i \in 1 .. Len(pvs) : k = 0 + i /\ votes[k].id = pvs[i].id
      <4>1. k \in 1 .. m /\ votes[k].id = pvs[k].id /\ k = 0 + k
        BY <1>10, <2>1, <3>2
      <4> QED  BY <4>1 DEF m
    <3>3. \E o \in Nat : StandFrom(pvs, o, id, r[phase].votes[id])
      BY <1>2, <2>1
    <3> QED  BY <1>11, <3>1, <3>2, <3>3
  <2>2. CASE phase = "precommit"
    <3>1. \A k \in 1 .. Len(pcs) : m + k \in 1 .. m + n /\ votes[m + k] = Seen(phase, pcs[k].id, pcs[k].ballot)
      BY <1>6, <1>8, <2>2 DEF n
    <3>2. ASSUME NEW k \in 1 .. m + n, votes[k].phase = phase
          PROVE  \E i \in 1 .. Len(pcs) : k = m + i /\ votes[k].id = pcs[i].id
      <4>1. \E i \in 1 .. n : k = m + i /\ votes[k].id = pcs[i].id
        BY <1>10, <2>2, <3>2
      <4> QED  BY <4>1 DEF n
    <3>3. \E o \in Nat : StandFrom(pcs, o, id, r[phase].votes[id])
      BY <1>2, <2>2
    <3> QED  BY <1>6, <1>11, <3>1, <3>2, <3>3
  <2> QED  BY <2>1, <2>2, PhaseFacts
<1> QED  BY <1>3, <1>6, <1>12 DEF Lists
\* What validate_catch_up's loops do, as a fold over sets of places.
PlacesImported(f, n, start, votes) ==
    f = [s \in SUBSET (1 .. n) |->
            IF s = {} THEN start
            ELSE ImportInto(f[s \ {Max(s)}], votes[Max(s)].phase, votes[Max(s)].id, votes[Max(s)].ballot)]

\* When every vote is above the base, they import as handle_vote does.
LEMMA ImportedInTurn ==
    ASSUME NEW n \in Nat, NEW start, NEW votes, Len(votes) = n, DOMAIN votes = 1 .. n,
           \A k \in 1 .. n : Base \in Ancestors[votes[k].ballot.target]
    PROVE  \E f : Replayed(start, votes, f) /\ f[n] = ImportAll(start, votes)
<1> DEFINE iter[s \in SUBSET (1 .. n)] ==
               IF s = {} THEN start
               ELSE ImportInto(iter[s \ {Max(s)}], votes[Max(s)].phase, votes[Max(s)].id, votes[Max(s)].ballot)
<1>1. ImportAll(start, votes) = iter[1 .. n]
  BY DEF ImportAll, FoldLeft, MapThenFoldSet
<1>2. iter = CHOOSE f : PlacesImported(f, n, start, votes)
  BY DEF PlacesImported
<1>3. ASSUME NEW f PROVE PlacesImported(f, n, start, votes) <=> PlacesReplayed(f, n, start, votes)
  <2> DEFINE handle(s) == IF s = {} THEN start ELSE HandleVote(f[s \ {Max(s)}], Base, votes[Max(s)])
             import(s) == IF s = {} THEN start
                          ELSE ImportInto(f[s \ {Max(s)}], votes[Max(s)].phase, votes[Max(s)].id,
                                          votes[Max(s)].ballot)
  <2>1. ASSUME NEW s \in SUBSET (1 .. n) PROVE import(s) = handle(s)
    <3>1. CASE s = {}
      BY <3>1
    <3>2. CASE s # {}
      <4>1. Max(s) \in 1 .. n
        BY <3>2, GreatestOf
      <4>2. Base \in Ancestors[votes[Max(s)].ballot.target]
        BY <4>1
      <4> QED  BY <3>2, <4>2 DEF HandleVote, IsEqualOrDescendentOf
    <3> QED  BY <3>1, <3>2
  <2>2. [s \in SUBSET (1 .. n) |-> import(s)] = [s \in SUBSET (1 .. n) |-> handle(s)]
    <3> HIDE DEF import, handle
    <3> QED  BY <2>1
  <2>3. PlacesImported(f, n, start, votes) <=> f = [s \in SUBSET (1 .. n) |-> import(s)]
    BY DEF PlacesImported
  <2>4. PlacesReplayed(f, n, start, votes) <=> f = [s \in SUBSET (1 .. n) |-> handle(s)]
    BY DEF PlacesReplayed
  <2> HIDE DEF import, handle
  <2> QED  BY <2>2, <2>3, <2>4
<1>4. \E f : PlacesImported(f, n, start, votes)
  BY <1>3, ReplayExists
<1> HIDE DEF iter
<1>5. PlacesReplayed(iter, n, start, votes)
  BY <1>2, <1>3, <1>4
<1>6. OverPlaces(iter, n, start, votes)
  <2> DEFINE step(f, s) == IF s = {} THEN start ELSE HandleVote(f[s \ {Max(s)}], Base, votes[Max(s)])
  <2>1. iter = [s \in SUBSET (1 .. n) |-> step(iter, s)]
    BY <1>5 DEF PlacesReplayed
  <2>2. \A s \in SUBSET (1 .. n) : iter[s] = step(iter, s)
    <3> HIDE DEF step
    <3> QED  BY <2>1
  <2> QED  BY <2>2 DEF OverPlaces
<1>7. \E f : Replayed(start, votes, f) /\ f[n] = iter[1 .. n]
  BY <1>6, RoundsAfterEach
<1> QED  BY <1>1, <1>7

\* Of a completable round a supermajority of voters is in each phase of the catch-up.
LEMMA EnoughSigners ==
    ASSUME NEW r, RoundFits(r), Settled(r), r.completable, NEW phase \in Phase
    PROVE  /\ \A i \in DOMAIN VotesHeld(r, phase) : ContainsVoter(Voters, VotesHeld(r, phase)[i].id)
           /\ WeightOfSigners(VotesHeld(r, phase)) >= Voters.threshold
<1> DEFINE list == VotesHeld(r, phase)
           signers == {id \in Ids : \E s \in ToSet(list) : s.id = id}
           voted == Abstract!Voted(FirstTarget(r[phase]))
<1>1. list \in Seq(Signed) /\ \A id \in Ids : \E o \in Nat : StandFrom(list, o, id, r[phase].votes[id])
  BY HeldInARow
<1> HIDE DEF list
<1>2. DOMAIN list = 1 .. Len(list) /\ \A i \in DOMAIN list : list[i] \in Signed
  BY <1>1, LenProperties
<1>3. ASSUME NEW i \in DOMAIN list PROVE ContainsVoter(Voters, list[i].id)
  <2>1. list[i].id \in VoterIds(Voters)
    BY <1>2 DEF Signed, Ids
  <2> QED  BY <2>1 DEF ContainsVoter, VoterIds
<1>4. voted = {id \in Ids : r[phase].votes[id] # <<>>}
  BY VotedFacts
<1>5. ASSUME NEW id \in voted PROVE id \in signers
  <2> DEFINE b == r[phase].votes[id]
  <2>1. id \in Ids /\ b # <<>> /\ b \in Seq(Ballot)
    BY <1>4, BallotsOf
  <2>2. PICK o \in Nat : StandFrom(list, o, id, b)
    BY <1>1, <2>1
  <2> HIDE DEF b
  <2>3. Len(b) \in Nat /\ Len(b) # 0
    BY <2>1, LenProperties, SeqLength
  <2>4. 1 \in 1 .. Len(b)
    BY <2>3
  <2>5. o + 1 \in 1 .. Len(list) /\ list[o + 1] = SignedBy(id, b[1])
    BY <2>2, <2>4 DEF StandFrom
  <2>6. list[o + 1] \in ToSet(list) /\ list[o + 1].id = id
    BY <1>2, <2>5 DEF ToSet, SignedBy
  <2> QED  BY <2>1, <2>6
<1>6. Enough(FirstTarget(r[phase]))
  <2>1. Enough(FirstTarget(r.prevote)) /\ Enough(FirstTarget(r.precommit))
    BY DEF Settled
  <2>2. r["prevote"] = r.prevote /\ r["precommit"] = r.precommit
    BY RoundPhases
  <2> QED  BY <2>1, <2>2, PhaseFacts
<1>7. voted \in SUBSET Ids /\ signers \in SUBSET Ids /\ voted \subseteq signers
  BY <1>4, <1>5
<1>8. ~(SumOfWeights[voted] < Voters.threshold)
  BY <1>6, WeightsAdd DEF Enough
<1>9. WeightOfSigners(list) = WeightOfIds(Voters, signers)
  BY DEF WeightOfSigners, Ids
<1> HIDE DEF voted, signers
<1>10. /\ SumOfWeights[voted] <= SumOfWeights[signers] /\ SumOfWeights[signers] = WeightOfIds(Voters, signers)
       /\ SumOfWeights[voted] \in Nat /\ SumOfWeights[signers] \in Nat /\ Voters.threshold \in Nat
  BY <1>7, WeightsAdd
<1>11. WeightOfSigners(list) >= Voters.threshold
  BY <1>8, <1>9, <1>10
<1> QED  BY <1>3, <1>11 DEF list

\* validate_catch_up accepts what a peer sends of a completable round, and makes of it a
\* round with the same estimate, prevote-GHOST and finalized block, whatever the order in
\* which the peer itself had the votes: the catch-up sorts them by phase and voter.
THEOREM CatchUpsAreAccepted == NoneIsNoRound => (ImportSpec => []CatchUpIsAccepted)
<1> SUFFICES ASSUME NoneIsNoRound PROVE ImportSpec => []CatchUpIsAccepted
  OBVIOUS
<1>1. WellMade /\ RoundSettled => CatchUpIsAccepted
  <2> SUFFICES ASSUME WellMade, RoundSettled, round.completable, AllAboveBase,
                      NEW u \in ValidateCatchUp(CatchUpFor(round))
               PROVE  u # None /\ StateOf(u) = StateOf(round)
    BY DEF CatchUpIsAccepted
  <2> DEFINE sent == CatchUpFor(round)
             votes == InImportOrder(sent)
             start == {NewRound(Base)}
             made == ImportAll(start, votes)
  <2>1. /\ RoundOK(round) /\ RoundFits(round) /\ AboveBase(round)
        /\ OnlyByzantineTwice(round) /\ Settled(round)
    BY AllAboveIsAbove DEF WellMade, RoundOK, RoundSettled
  <2>2. Lists(votes, round)
    BY <2>1, CatchUpLists
  <2>3. /\ sent.base = Base
        /\ sent.prevotes = VotesHeld(round, "prevote") /\ sent.precommits = VotesHeld(round, "precommit")
    BY DEF CatchUpFor
  <2> HIDE DEF sent
  <2>4. \A signed \in {sent.prevotes, sent.precommits} :
            /\ \A i \in DOMAIN signed : ContainsVoter(Voters, signed[i].id)
            /\ WeightOfSigners(signed) >= Voters.threshold
    BY <2>1, <2>3, EnoughSigners, PhaseFacts
  <2>5. u \in OnlyCompletable(made)
    BY <2>3, <2>4 DEF ValidateCatchUp, sent
  <2> HIDE DEF votes
  <2>6. votes \in Seq(SeenVote) /\ Len(votes) \in Nat /\ DOMAIN votes = 1 .. Len(votes)
    BY <2>2, LenProperties DEF Lists
  <2>7. \A k \in 1 .. Len(votes) : Base \in Ancestors[votes[k].ballot.target]
    BY <2>1, <2>2, ListedAbove
  <2>8. PICK f : Replayed(start, votes, f) /\ f[Len(votes)] = made
    BY <2>6, <2>7, ImportedInTurn
  <2> HIDE DEF made
  <2>9. \A w \in made : w # None /\ StateOf(w) = StateOf(round)
    BY <2>1, <2>2, <2>8, ReplayedIsSame
  <2>10. PICK w \in made : u = IF w # None /\ w.completable THEN w ELSE None
    BY <2>5 DEF OnlyCompletable
  <2>11. w.completable = round.completable
    BY <2>9 DEF StateOf
  <2> QED  BY <2>9, <2>10, <2>11
<1> QED  BY <1>1, RoundStaysSettled, PTL
=============================================================================
