--------------------------- MODULE RoundTransfer ---------------------------
(***************************************************************************)
(* What becomes of a round's votes when it is made anew: after a restart   *)
(* from the history that Environment::completed was given, at a peer from  *)
(* a catch-up.  The round is driven as in RoundImports.                    *)
(***************************************************************************)
EXTENDS RoundImports, CatchUp

\* The voters that may equivocate weigh no more than the protocol tolerates.
ASSUME RoundTransferAssumption ==
    WeightOfIds(Voters, Byzantine) <= Voters.total_weight - Voters.threshold

\* handle_vote leaves out votes that do not descend from the base.  Only a commit brings one
\* in unchecked, as the second vote of an equivocator; replaying would leave it out.
AllAboveBase ==
    \A phase \in Phase, id \in VoterIds(Voters) :
        \A ballot \in ToSet(round[phase].votes[id]) : IsEqualOrDescendentOf(Base, ballot.target)

\* Round::prevotes and Round::precommits: every vote held, in the order of the ids.
VotesHeld(r, phase) ==
    LET of(id) == [i \in DOMAIN r[phase].votes[id] |-> [id |-> id, ballot |-> r[phase].votes[id][i]]]
    IN  FlattenSeq([i \in DOMAIN Voters.voters |-> of(Voters.voters[i].id)])

\* The catch-up for a round: made by the environment of a peer from the round's votes.
CatchUpFor(r) ==
    [base |-> Base, prevotes |-> VotesHeld(r, "prevote"), precommits |-> VotesHeld(r, "precommit")]

-----------------------------------------------------------------------------
(* Properties *)

\* Voter::new: "The last round ... must be completable" (mod.rs).  A completable round made
\* anew from its stored votes, equivocations included, is completable and has the estimate,
\* the prevote-GHOST and the finalized block it had.
RebuiltIsSame ==
    round.completable /\ AllAboveBase =>
        \A r \in InstantiateLastRound(Base, round.historical_votes) :
            r # None /\ StateOf(r) = StateOf(round)

\* A peer that is sent the votes of a completable round, sorted by phase and voter, accepts
\* the catch-up and ends with the round's own state: the estimate its next round builds on.
CatchUpIsAccepted ==
    round.completable /\ AllAboveBase =>
        \A r \in ValidateCatchUp(CatchUpFor(round)) :
            r # None /\ StateOf(r) = StateOf(round)
=============================================================================
