------------------------------ MODULE CatchUp ------------------------------
(***************************************************************************)
(* Rounds made from votes that are already there (voter/mod.rs): from the  *)
(* catch-up of a peer that is ahead, by validate_catch_up, and from the    *)
(* stored votes of the last round at a restart, by instantiate_last_round. *)
(* A catch-up is a base and the signed votes [id, ballot] of both phases;  *)
(* its round number is compared with the best round's in Voter.tla.        *)
(*                                                                         *)
(* Each operator returns the set of its possible results: a round or None. *)
(***************************************************************************)
EXTENDS Round

\* Round::state, without the voters and the votes.
StateOf(r) == [prevote_ghost |-> r.prevote_ghost, finalized |-> r.finalized,
               estimate |-> r.estimate, completable |-> r.completable]

ImportVote(r, phase, id, ballot) ==
    IF phase = "prevote" THEN ImportPrevote(r, id, ballot) ELSE ImportPrecommit(r, id, ballot)

\* Import a vote into each of the rounds; an import that fails leaves None.
ImportInto(rounds, phase, id, ballot) ==
    UNION {IF r = None THEN {None}
           ELSE {IF i.kind = "refused" THEN None ELSE i.round : i \in ImportVote(r, phase, id, ballot)}
           : r \in rounds}

ImportAll(rounds, votes) ==
    FoldLeft(LAMBDA rs, vote : ImportInto(rs, vote.phase, vote.id, vote.ballot), rounds, votes)

OfPhase(phase, signed) ==
    [i \in DOMAIN signed |-> [phase |-> phase, id |-> signed[i].id, ballot |-> signed[i].ballot]]

\* The votes of a catch-up in the order of their import: the prevotes first.
InImportOrder(catch_up) ==
    OfPhase("prevote", catch_up.prevotes) \o OfPhase("precommit", catch_up.precommits)

\* The weight of the distinct known voters of a list of votes.
WeightOfSigners(signed) ==
    WeightOfIds(Voters, {id \in VoterIds(Voters) : \E s \in ToSet(signed) : s.id = id})

OnlyCompletable(rounds) == {IF r # None /\ r.completable THEN r ELSE None : r \in rounds}

\* Slip: a round that is not completable is accepted.
ValidateThreshold(catch_up) ==
    IF \A signed \in {catch_up.prevotes, catch_up.precommits} :
           /\ \A i \in DOMAIN signed : ContainsVoter(Voters, signed[i].id)
           /\ WeightOfSigners(signed) >= Voters.threshold
    THEN ImportAll({NewRound(catch_up.base)}, InImportOrder(catch_up))
    ELSE {None}

\* Slip: a catch-up with two votes of one voter is taken for invalid.
ValidateSingleVotes(catch_up) ==
    IF \A signed \in {catch_up.prevotes, catch_up.precommits} :
           /\ \A i, j \in DOMAIN signed : signed[i].id = signed[j].id => i = j
           /\ WeightOfSigners(signed) >= Voters.threshold
    THEN OnlyCompletable(ImportAll({NewRound(catch_up.base)}, InImportOrder(catch_up)))
    ELSE {None}

\* validate_catch_up: every vote by a known voter, a supermajority of voters in each phase,
\* the prevotes imported first, and the round completable afterwards.
ValidateCatchUp(catch_up) ==
    IF \A signed \in {catch_up.prevotes, catch_up.precommits} :
           /\ \A i \in DOMAIN signed : ContainsVoter(Voters, signed[i].id)
           /\ WeightOfSigners(signed) >= Voters.threshold
    THEN OnlyCompletable(ImportAll({NewRound(catch_up.base)}, InImportOrder(catch_up)))
    ELSE {None}

\* VotingRound::handle_vote on the votes of a round: a target that does not descend from
\* the base is ignored.
HandleVote(rounds, base, vote) ==
    IF IsEqualOrDescendentOf(base, vote.ballot.target)
    THEN ImportInto(rounds, vote.phase, vote.id, vote.ballot)
    ELSE rounds

\* Slip: an equivocation is taken for a bad vote, at which the replay gives up.
InstantiateSingles(base, history) ==
    LET votes == history.seen
        twice == \E i, j \in DOMAIN votes :
                     i < j /\ votes[i].id = votes[j].id /\ votes[i].phase = votes[j].phase
    IN  IF twice THEN {None}
        ELSE OnlyCompletable(
                 FoldLeft(LAMBDA rs, vote : HandleVote(rs, base, vote), {NewRound(base)}, votes))

\* instantiate_last_round: the stored votes in their order.
InstantiateLastRound(base, history) ==
    OnlyCompletable(
        FoldLeft(LAMBDA rs, vote : HandleVote(rs, base, vote), {NewRound(base)}, history.seen))
=============================================================================
