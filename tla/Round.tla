------------------------------- MODULE Round -------------------------------
(***************************************************************************)
(* The vote accumulator of one round (round.rs, HistoricalVotes of         *)
(* lib.rs): operators on a record with the fields of the struct Round.     *)
(* They return the set of possible results, because find_ghost depends on  *)
(* an order the vote graph does not model.                                 *)
(*                                                                         *)
(* A ballot is a signed vote: a target and a signature.  The multiplicity  *)
(* of a voter is the sequence of its ballots: none, Single, Equivocated.   *)
(***************************************************************************)
EXTENDS VoteGraph, Context

CONSTANT Voters     \* the VoterSet of the round

\* Of every set that VoterSet::new makes (MakesVoterSets in PartProofs).
ASSUME RoundVotersAssumption == IsVoterSet(Voters)

EmptyTracker == [votes |-> [id \in VoterIds(Voters) |-> <<>>], current_weight |-> 0]

\* Round::new
NewRound(base) ==
    [graph            |-> NewGraph(base),
     prevote          |-> EmptyTracker,
     precommit        |-> EmptyTracker,
     equivocations    |-> {},
     historical_votes |-> [seen |-> <<>>, prevote_idx |-> None, precommit_idx |-> None],
     prevote_ghost    |-> None,
     precommit_ghost  |-> None,
     finalized        |-> None,
     estimate         |-> None,
     completable      |-> FALSE]

\* Slip: an equivocation adds the weight of the voter again.
AddVoteWeighsTwice(tracker, id, ballot) ==
    LET held  == tracker.votes[id]
        voted == [tracker EXCEPT !.votes[id] = Append(@, ballot),
                                 !.current_weight = SatAdd(@, WeightOfVoter(Voters, id))]
    IN  CASE ballot \in ToSet(held) -> [tracker |-> tracker, kind |-> "duplicated"]
          [] Len(held) = 2          -> [tracker |-> tracker, kind |-> "ignored"]
          [] OTHER -> [tracker |-> voted, kind |-> IF held = <<>> THEN "single" ELSE "equivocation"]

\* Slip: a repeated vote is not told from a second one.
AddVoteUncompared(tracker, id, ballot) ==
    LET held  == tracker.votes[id]
        voted == [tracker EXCEPT !.votes[id] = Append(@, ballot)]
    IN  CASE held = <<>> ->
                [tracker |-> [voted EXCEPT !.current_weight = SatAdd(@, WeightOfVoter(Voters, id))],
                 kind    |-> "single"]
          [] Len(held) = 2 -> [tracker |-> tracker, kind |-> "ignored"]
          [] OTHER         -> [tracker |-> voted, kind |-> "equivocation"]

\* VoteTracker::add_vote: the tracker afterwards and what the vote is.
AddVote(tracker, id, ballot) ==
    LET held  == tracker.votes[id]
        voted == [tracker EXCEPT !.votes[id] = Append(@, ballot)]
    IN  CASE held = <<>> ->
                [tracker |-> [voted EXCEPT !.current_weight = SatAdd(@, WeightOfVoter(Voters, id))],
                 kind    |-> "single"]
          [] ballot \in ToSet(held) -> [tracker |-> tracker, kind |-> "duplicated"]
          [] Len(held) = 2          -> [tracker |-> tracker, kind |-> "ignored"]
          [] OTHER                  -> [tracker |-> voted, kind |-> "equivocation"]

\* HistoricalVotes::push_vote
PushVote(r, phase, id, ballot) ==
    [r EXCEPT !.historical_votes.seen = Append(@, [phase |-> phase, id |-> id, ballot |-> ballot])]

\* The first part of import_prevote and import_precommit, up to the vote being recorded.
\* A single vote that the vote graph refuses stays in the tracker.
RecordVote(r, phase, id, ballot) ==
    IF ~ContainsVoter(Voters, id) THEN [round |-> r, kind |-> "unknown"]
    ELSE LET added   == AddVote(r[phase], id, ballot)
             tracked == [r EXCEPT ![phase] = added.tracker]
             bit     == VoteBit(Voters, id, phase)
             result(round, kind) == [round |-> round, kind |-> kind]
         IN  CASE added.kind = "equivocation" ->
                    result(PushVote([tracked EXCEPT !.equivocations = @ \union {bit}],
                                    phase, id, ballot), "equivocation")
               [] added.kind = "single" ->
                    IF CanInsert(r.graph, ballot.target)
                    THEN result(PushVote([tracked EXCEPT !.graph = Insert(@, ballot.target, bit)],
                                         phase, id, ballot), "single")
                    ELSE result(tracked, "refused")
               [] OTHER -> result(r, added.kind)

WeightIn(r, node, phase) == NodeWeight(Voters, r.equivocations, node, phase)

\* The vote nodes of a round: sets of the bits of its voters.
Nodes == SUBSET (0 .. 2 * Len(Voters.voters) - 1)

\* The condition that a node has a supermajority in the phase.
Supermajority(r, phase) ==
    [node \in Nodes |-> WeightIn(r, node, phase) >= Voters.threshold]

\* The closure possible_to_precommit of update.
PossibleToPrecommit(r) ==
    LET current    == r.precommit.current_weight
        tolerated  == SatSub(Voters.total_weight, Voters.threshold)
        additional == SatSub(tolerated, WeightIn(r, {}, "precommit"))
        remaining  == SatSub(Voters.total_weight, current)
    IN  [node \in Nodes |->
            LET for      == WeightIn(r, node, "precommit")
                against  == SatSub(current, for)
                possible == IF against < additional THEN against ELSE additional
            IN  SatAdd(SatAdd(for, remaining), possible) >= Voters.threshold]

\* The end of update: completability, for the estimate found.
Conclude(r, final, est) ==
    {[r EXCEPT !.finalized = final, !.estimate = est, !.completable = done] :
        done \in IF est = None THEN {FALSE}
                 ELSE IF est # r.prevote_ghost THEN {TRUE}
                 ELSE {x = None \/ x = est : x \in FindGhosts(r.graph, est, PossibleToPrecommit(r))}}

\* Round::update
Update(r) ==
    LET ghost     == r.prevote_ghost
        enough(t) == t.current_weight >= Voters.threshold
    IN  IF ~enough(r.prevote) \/ ghost = None THEN {r}
        ELSE IF ~enough(r.precommit) THEN {[r EXCEPT !.estimate = ghost]}
        ELSE Conclude(r, FindAncestor(r.graph, ghost, Supermajority(r, "precommit")),
                         FindAncestor(r.graph, ghost, PossibleToPrecommit(r)))

\* Slip: a prevote-GHOST once found is not searched again.
KeepPrevoteGhost(r) ==
    LET heavy == Supermajority(r, "prevote")
    IN  IF r.prevote.current_weight >= Voters.threshold /\ r.prevote_ghost = None
        THEN {[r EXCEPT !.prevote_ghost = g] : g \in FindGhosts(r.graph, None, heavy)}
        ELSE {r}

\* The update of the prevote-GHOST in import_prevote.
UpdatePrevoteGhost(r) ==
    LET heavy == Supermajority(r, "prevote")
    IN  IF r.prevote.current_weight >= Voters.threshold
        THEN {[r EXCEPT !.prevote_ghost = g] : g \in FindGhosts(r.graph, r.prevote_ghost, heavy)}
        ELSE {r}

Recorded(kind) == kind \in {"single", "equivocation"}

\* What is derived once a vote is recorded; nothing if it was not.
Derived(phase, recorded) ==
    IF ~Recorded(recorded.kind) THEN {recorded}
    ELSE LET searched == IF phase = "prevote" THEN UpdatePrevoteGhost(recorded.round) ELSE {recorded.round}
         IN  {[round |-> u, kind |-> recorded.kind] : u \in UNION {Update(r) : r \in searched}}

\* Round::import_prevote
ImportPrevote(r, id, prevote) == Derived("prevote", RecordVote(r, "prevote", id, prevote))

\* Round::import_precommit
ImportPrecommit(r, id, precommit) == Derived("precommit", RecordVote(r, "precommit", id, precommit))

\* Round::precommit_ghost computes and caches; the rounds it may leave.
CachePrecommitGhost(r) ==
    LET heavy == Supermajority(r, "precommit")
    IN  IF r.precommit.current_weight >= Voters.threshold
        THEN {[r EXCEPT !.precommit_ghost = g] :
                 g \in FindGhosts(r.graph, r.precommit_ghost, heavy)}
        ELSE {r}

\* Round::set_prevoted_index and set_precommitted_index
SetIndex(r, phase) ==
    LET len == Len(r.historical_votes.seen)
    IN  IF phase = "prevote" THEN [r EXCEPT !.historical_votes.prevote_idx = len]
        ELSE [r EXCEPT !.historical_votes.precommit_idx = len]

\* Slip: of an equivocator only the first vote is sent.
FirstPrecommits(r) ==
    LET ballots(id) == r.precommit.votes[id]
        chosen(id)  == IF ballots(id) = <<>> THEN <<>>
                       ELSE <<[id |-> id, ballot |-> ballots(id)[1]]>>
    IN  FlattenSeq([i \in DOMAIN Voters.voters |-> chosen(Voters.voters[i].id)])

\* Round::finalizing_precommits, once a block is finalized: in the order of the ids, single
\* votes at or above that block and both votes of every equivocator.
FinalizingPrecommits(r) ==
    LET ballots(id) == r.precommit.votes[id]
        chosen(id)  ==
            IF Len(ballots(id)) = 1 /\ ~IsEqualOrDescendentOf(r.finalized, ballots(id)[1].target)
            THEN <<>>
            ELSE [i \in DOMAIN ballots(id) |-> [id |-> id, ballot |-> ballots(id)[i]]]
    IN  FlattenSeq([i \in DOMAIN Voters.voters |-> chosen(Voters.voters[i].id)])
=============================================================================
