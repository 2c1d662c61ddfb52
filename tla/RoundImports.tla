---------------------------- MODULE RoundImports ----------------------------
(***************************************************************************)
(* A round as its owner drives it: votes of any voters are imported in any *)
(* order, repeated, contradicting each other or not fitting the base; the  *)
(* precommit-GHOST is asked for at any time; the owner marks when it voted *)
(* itself.  Shown to implement RoundSpec.                                  *)
(***************************************************************************)
EXTENDS Round

CONSTANTS
    Base,       \* the base of the round
    Byzantine,  \* the ids that may vote twice, or for a block not above the base
    Electorates \* what may arrive: functions from ids, of voters or not, to sets of ballots

ASSUME RoundImportsAssumption ==
    /\ Base \in Block
    /\ Byzantine \subseteq VoterIds(Voters)
    /\ \A ballots \in Electorates : \A id \in DOMAIN ballots : \A ballot \in ballots[id] :
           /\ ballot = [target |-> ballot.target, signature |-> ballot.signature]
           /\ ballot.target \in Block
    /\ \A ballots \in Electorates, id \in VoterIds(Voters) \ Byzantine :
           \A ballot \in ballots[id] : IsEqualOrDescendentOf(Base, ballot.target)

VARIABLES
    electorate,     \* the ballots that may arrive in this behaviour
    round

importVars == <<electorate, round>>

ImportInit == electorate \in Electorates /\ round = NewRound(Base)

\* A correct voter signs one vote per phase; it may arrive again.
MayArrive(phase, id, ballot) ==
    id \in VoterIds(Voters) \ Byzantine =>
        round[phase].votes[id] \in {<<>>, <<ballot>>}

ReceivePrevote(id, ballot) ==
    /\ MayArrive("prevote", id, ballot)
    /\ \E result \in ImportPrevote(round, id, ballot) : round' = result.round

ReceivePrecommit(id, ballot) ==
    /\ MayArrive("precommit", id, ballot)
    /\ \E result \in ImportPrecommit(round, id, ballot) : round' = result.round

AskPrecommitGhost == round' \in CachePrecommitGhost(round)

\* VotingRound sets each index once, when it casts that vote, and prevotes first.
MarkOwnVote(phase) ==
    /\ IF phase = "prevote" THEN round.historical_votes.prevote_idx = None
       ELSE round.historical_votes.precommit_idx = None
    /\ phase = "prevote" => round.historical_votes.precommit_idx = None
    /\ round' = SetIndex(round, phase)

ImportNext ==
    /\ UNCHANGED electorate
    /\ \/ \E id \in DOMAIN electorate : \E ballot \in electorate[id] :
              ReceivePrevote(id, ballot) \/ ReceivePrecommit(id, ballot)
       \/ AskPrecommitGhost
       \/ \E phase \in Phase : MarkOwnVote(phase)

ImportSpec == ImportInit /\ [][ImportNext]_importVars

-----------------------------------------------------------------------------
(* Properties *)

FirstTarget(tracker) ==
    [id \in VoterIds(Voters) |->
        IF tracker.votes[id] = <<>> THEN None ELSE tracker.votes[id][1].target]

TwoVotes(tracker) == {id \in VoterIds(Voters) : Len(tracker.votes[id]) = 2}

SumOfWeights == [S \in SUBSET VoterIds(Voters) |-> WeightOfIds(Voters, S)]

Abstract == INSTANCE RoundSpec WITH
    Voter <- VoterIds(Voters),
    Weight <- SumOfWeights,
    prevotes <- FirstTarget(round.prevote),
    precommits <- FirstTarget(round.precommit),
    prevote_equivocators <- TwoVotes(round.prevote),
    precommit_equivocators <- TwoVotes(round.precommit),
    prevote_ghost <- round.prevote_ghost,
    precommit_ghost <- round.precommit_ghost,
    finalized <- round.finalized,
    estimate <- round.estimate,
    completable <- round.completable

\* The vote graph, the bitfields, the memoised GHOST and the incremental update compute
\* what RoundSpec defines from the votes, at every import: Round implements RoundSpec.
ImplementsRoundSpec == Abstract!Spec

\* The ballots of a voter that are in the history: all it has but a first one that the vote
\* graph refused.
Tracked(ballots) ==
    IF ballots # <<>> /\ ~IsEqualOrDescendentOf(Base, ballots[1].target) THEN Tail(ballots)
    ELSE ballots

\* These ballots, and no others of the voter in the phase, were seen, in this order, when at
\* gives their places in the history.
SeenAt(seen, at, phase, id, ballots) ==
    /\ \A i, j \in DOMAIN ballots : i < j => at[i] < at[j]
    /\ \A i \in DOMAIN ballots : seen[at[i]] = [phase |-> phase, id |-> id, ballot |-> ballots[i]]
    /\ \A k \in DOMAIN seen :
           seen[k].phase = phase /\ seen[k].id = id => \E i \in DOMAIN ballots : at[i] = k

\* historical_votes (round.rs: "all votes for the round ... At most two prevotes and two
\* precommits per voter are present"): every vote tracked and not refused was seen exactly
\* once, in the order the tracker has it, and the owner's indices point into the history.
HistoryIsExact(r) ==
    LET history == r.historical_votes
        seen    == history.seen
    IN  /\ \A phase \in Phase : \A id \in VoterIds(Voters) :
               LET ballots == Tracked(r[phase].votes[id])
               IN  \E at \in [DOMAIN ballots -> DOMAIN seen] : SeenAt(seen, at, phase, id, ballots)
        /\ \A k \in DOMAIN seen : seen[k].id \in VoterIds(Voters)
        /\ history.prevote_idx # None => history.prevote_idx \in 0 .. Len(seen)
        /\ history.prevote_idx # None /\ history.precommit_idx # None
               => history.prevote_idx <= history.precommit_idx
        /\ history.precommit_idx # None => history.precommit_idx \in 0 .. Len(seen)

\* The trackers, the vote graph, the equivocation bits and the history, which are four records
\* of the same votes, agree whatever was repeated, ignored or refused: a voter counts once in
\* the weight, and its bit is in the graph unless the graph refused its vote.
VotesAgree ==
    /\ HistoryIsExact(round)
    /\ \A phase \in Phase :
           LET votes   == round[phase].votes
               voted   == {id \in VoterIds(Voters) : votes[id] # <<>>}
               placed  == {id \in voted : IsEqualOrDescendentOf(Base, votes[id][1].target)}
               bits(S) == {VoteBit(Voters, id, phase) : id \in S}
               mine(S) == {p \in S : p % 2 = Parity(phase)}
           IN  /\ round[phase].current_weight = SumOfWeights[voted]
               /\ mine(round.equivocations) = bits(TwoVotes(round[phase]))
               /\ mine(round.graph.entries[Base].cumulative_vote) = bits(placed)
=============================================================================
