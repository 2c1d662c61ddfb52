---------------------------- MODULE VotingRound ----------------------------
(***************************************************************************)
(* A voter's part in one round (voter/voting_round.rs) with the buffered   *)
(* sink of voter/mod.rs and the round-state bridge of bridge_state.rs.     *)
(* The votes are a round as RoundSpec specifies it.                        *)
(*                                                                         *)
(* VotingRound::poll runs when the task was woken.  It is cut where the    *)
(* surroundings may act in between: it drains the incoming messages, casts *)
(* votes, flushes, drains again, and reports.  A future that is not ready  *)
(* wakes the task later only if poll asked it, and the same holds of the   *)
(* sink and of the bridge; the message stream is asked in every poll.      *)
(***************************************************************************)
EXTENDS RoundSpec, FiniteSets

CONSTANTS
    Me,             \* the local voter id
    Primary,        \* the primary voter of the round
    Messages,       \* what other voters may send
    LastStates,     \* the states in which the last round may be seen
    MaxInbox        \* bound: messages waiting at a time

ASSUME VotingRoundAssumption ==
    /\ Me \in Voter \ Byzantine
    /\ Primary \in Voter
    /\ MaxInbox \in Nat
    /\ Messages \subseteq [kind : {"propose", "prevote", "precommit"}, id : Voter, target : Block]
    /\ None \notin LastStates
    /\ None \notin {"Start", "Proposed", "Prevoting", "Prevoted", "Precommitted", "error"}
    /\ \A s \in LastStates :
           /\ s.prevote_ghost \in Block /\ s.completable
           /\ s.estimate \in ChainTo(s.prevote_ghost)
           /\ s.finalized # None => s.finalized \in ChainTo(s.estimate)

VARIABLES
    pc,             \* where poll is: idle, incoming, bridge, flush, second; loading, failed, concluded
    voter,          \* the voting state machine: state, base, voting, outgoing, cast, armed, woken
    events,         \* the futures that are ready, the sink, and an update of the bridge
    unflushed,      \* whether the sink still has to be flushed
    inbox,          \* messages ready in the incoming stream
    primary_block,  \* the primary's hint
    last_round,     \* the last round's state in the bridge; None: there is no last round
    last,           \* the copy of it that this poll took
    pre_state,      \* the round's state when this poll started
    bridged,        \* this round's state in the bridge to the next round, or None
    best_finalized, \* the block of the last finality notification
    ready           \* whether the last poll returned Ready

pollVars == <<pc, last, pre_state, ready>>
outVars  == <<bridged, best_finalized>>
allVars  == <<vars, pollVars, outVars, voter, events, unflushed, inbox, primary_block, last_round>>

\* Round::state
RoundState ==
    [prevote_ghost |-> prevote_ghost, estimate |-> estimate,
     finalized |-> finalized, completable |-> completable]

Message(kind, id, target) == [kind |-> kind, id |-> id, target |-> target]

IsActive(v) == v.voting \in {"Yes", "Primary"}

\* VotingRound::new, which votes unless the node has no voter id, and VotingRound::completed
VotingInit ==
    /\ Init
    /\ \E state \in {"Start", None} :
       \E role \in {"No", IF Me = Primary THEN "Primary" ELSE "Yes"} :
           /\ state = None => role = "No"
           /\ voter = [state |-> state, base |-> None, voting |-> role,
                       outgoing |-> <<>>, cast |-> <<>>, armed |-> {}, woken |-> TRUE]
           /\ pc = IF state = None THEN "loading" ELSE "idle"
           /\ last_round \in IF state = None THEN {None} ELSE LastStates
    /\ events = {}
    /\ unflushed = FALSE
    /\ inbox = {}
    /\ primary_block = None
    /\ last = None
    /\ pre_state = None
    /\ bridged = None
    /\ best_finalized = None
    /\ ready = FALSE

-----------------------------------------------------------------------------
(* The surroundings *)

\* The messages that reached the sink, which come back signed.
Sent == {voter.cast[i] : i \in 1 .. (Len(voter.cast) - Len(voter.outgoing))}

\* A message not seen before; a correct voter sends one vote of a kind.  (A repeated vote
\* changes nothing: the runs of RoundImports.)
Available(m) ==
    LET votesOf == IF m.kind = "prevote" THEN prevotes ELSE precommits
        twice   == IF m.kind = "prevote" THEN prevote_equivocators ELSE precommit_equivocators
    IN  /\ m \in (Messages \union Sent) \ inbox
        /\ IF m.kind = "propose" THEN primary_block # m.target
           ELSE \/ /\ votesOf[m.id] = None
                   /\ \A n \in inbox : n.id = m.id /\ n.kind = m.kind => m.id \in Byzantine
                \/ m.id \in Byzantine \ twice /\ votesOf[m.id] # m.target

\* (A message that will be ignored only wakes the task: it comes between polls.)
Arrive(m) ==
    /\ \/ pc = "idle"
       \/ pc = "second" /\ IsEqualOrDescendentOf(Base, m.target)
    /\ Cardinality(inbox) < MaxInbox
    /\ Available(m)
    /\ inbox' = inbox \union {m}
    /\ voter' = [voter EXCEPT !.woken = TRUE]
    /\ UNCHANGED <<vars, pollVars, outVars, events, unflushed, primary_block, last_round>>

\* The futures that the states hold.
Futures(state) ==
    CASE state \in {"Start", "Proposed"} -> {"prevote_timer", "precommit_timer"}
      [] state = "Prevoting"             -> {"best_chain", "precommit_timer"}
      [] state = "Prevoted"              -> {"precommit_timer"}
      [] OTHER                           -> {}

\* A timer expires, the best chain is known, or the sink can go on.
Happen(e) ==
    /\ pc \notin {"failed", "concluded"}
    /\ e \in Futures(voter.state) \union IF unflushed THEN {"sink"} ELSE {}
    /\ e \notin events
    /\ events' = events \union {e}
    /\ voter' = [voter EXCEPT !.woken = @ \/ e \in voter.armed]
    /\ UNCHANGED <<vars, pollVars, outVars, unflushed, inbox, primary_block, last_round>>

\* A completable round in state s may later be in state t.
Follows(s, t) ==
    /\ s.completable /\ t.completable
    /\ s.prevote_ghost \in Ancestors[t.prevote_ghost]
    /\ t.estimate \in Ancestors[s.estimate]
    /\ s.finalized # None => t.finalized # None /\ s.finalized \in Ancestors[t.finalized]

\* Slip: the waker is called before the state is written; "bridge" says that it is not yet.
UpdateWakesFirst(s) ==
    /\ last_round \notin {None, s}
    /\ Follows(last_round, s)
    /\ IF "bridge" \notin events
       THEN /\ events' = events \union {"bridge"}
            /\ voter' = [voter EXCEPT !.woken = @ \/ "bridge" \in voter.armed, !.armed = @ \ {"bridge"}]
            /\ UNCHANGED last_round
       ELSE /\ last_round' = s
            /\ events' = events \ {"bridge"}
            /\ UNCHANGED voter
    /\ UNCHANGED <<vars, pollVars, outVars, unflushed, inbox, primary_block>>

\* PriorView::update of the last round, of which BridgeIsSafe is assumed: the state is written,
LastRoundUpdates(s) ==
    /\ last_round \notin {None, s}
    /\ "bridge" \notin events
    /\ Follows(last_round, s)
    /\ last_round' = s
    /\ events' = events \union {"bridge"}
    /\ UNCHANGED <<vars, pollVars, outVars, voter, unflushed, inbox, primary_block>>

\* and then the registered waker, if there is one, is taken and called.
LastRoundWakes ==
    /\ "bridge" \in events
    /\ events' = events \ {"bridge"}
    /\ voter' = [voter EXCEPT !.woken = @ \/ "bridge" \in voter.armed, !.armed = @ \ {"bridge"}]
    /\ UNCHANGED <<vars, pollVars, outVars, unflushed, inbox, primary_block, last_round>>

-----------------------------------------------------------------------------
(* Handling messages *)

ImportVote(m) ==
    IF m.kind = "prevote"
    THEN CASE prevotes[m.id] = None -> ImportPrevote(m.id, m.target)
           [] prevotes[m.id] \notin {None, m.target} /\ m.id \notin prevote_equivocators ->
                EquivocatePrevote(m.id)
           [] OTHER -> UNCHANGED vars
    ELSE CASE precommits[m.id] = None -> ImportPrecommit(m.id, m.target)
           [] precommits[m.id] \notin {None, m.target} /\ m.id \notin precommit_equivocators ->
                EquivocatePrecommit(m.id)
           [] OTHER -> UNCHANGED vars

\* VotingRound::handle_vote
HandleVote(m) ==
    CASE ~IsEqualOrDescendentOf(Base, m.target) -> UNCHANGED <<vars, primary_block>>
      [] IsEqualOrDescendentOf(Base, m.target) /\ m.kind = "propose" ->
            /\ primary_block' = IF m.id = Primary THEN m.target ELSE primary_block
            /\ UNCHANGED vars
      [] OTHER -> ImportVote(m) /\ UNCHANGED primary_block

\* One message of process_incoming.
ProcessIncoming(m) ==
    /\ pc \in {"incoming", "second"}
    /\ m \in inbox
    /\ inbox' = inbox \ {m}
    /\ HandleVote(m)
    /\ UNCHANGED <<pollVars, outVars, voter, events, unflushed, last_round>>

\* A completed round is made from stored votes or from a catch-up.
Load(m) ==
    /\ pc = "loading"
    /\ Available(m)
    /\ HandleVote(m)
    /\ UNCHANGED <<pollVars, outVars, voter, events, unflushed, inbox, last_round>>

-----------------------------------------------------------------------------
(* Casting votes: each call takes the voting state and returns the possible ones after it. *)

\* The call returns an error of the environment: the state was taken and is not put back.
Failed(v) == [v EXCEPT !.state = "error"]

\* primary_propose
PrimaryPropose(v, lr) ==
    IF /\ v.state = "Start" /\ v.voting = "Primary"
       /\ lr.finalized = None \/ Number[lr.estimate] > Number[lr.finalized]
    THEN LET hint == Message("propose", Me, lr.estimate)
         IN  {Failed(v),
              [v EXCEPT !.state = "Proposed", !.outgoing = Append(@, hint), !.cast = Append(@, hint)]}
    ELSE {v}

\* Slip: the primary's hint is taken without a look at the last round.
HintUnchecked(lr) == IF primary_block = None THEN lr.estimate ELSE primary_block

\* construct_prevote: the block whose best chain is asked for.
ConstructPrevote(lr) ==
    LET ghost    == lr.prevote_ghost
        ancestry == IF Below(lr.estimate, ghost) THEN Ancestry(lr.estimate, ghost) ELSE <<>>
        offset   == Number[ghost] - Number[primary_block]
    IN  IF primary_block = None THEN lr.estimate
        ELSE IF primary_block = ghost THEN primary_block
        ELSE IF Number[primary_block] >= Number[ghost] THEN lr.estimate
        ELSE IF offset \in DOMAIN ancestry /\ ancestry[offset] = primary_block THEN primary_block
        ELSE lr.estimate

\* start_prevoting
StartPrevoting(v, lr) ==
    {Failed(v),
     IF "prevote_timer" \in events \/ completable
     THEN IF IsActive(v)
          THEN [v EXCEPT !.state = "Prevoting", !.base = ConstructPrevote(lr), !.woken = TRUE]
          ELSE [v EXCEPT !.state = "Prevoted"]
     ELSE [v EXCEPT !.armed = @ \union {"prevote_timer"}]}

\* Slip: the state is left as it was after the prevote is cast.
PrevoteAndStay(v) ==
    IF "best_chain" \notin events THEN {v}
    ELSE {LET prevote == Message("prevote", Me, v.base)
          IN  [v EXCEPT !.outgoing = Append(@, prevote), !.cast = Append(@, prevote)]}

\* finish_prevoting: the best chain may end in any block at or above the base asked for, or
\* that block may have disappeared.
FinishPrevoting(v) ==
    IF "best_chain" \notin events THEN {Failed(v), [v EXCEPT !.armed = @ \union {"best_chain"}]}
    ELSE {Failed(v), [v EXCEPT !.state = None, !.base = None, !.voting = "No"]}
         \union {LET prevote == Message("prevote", Me, target)
                 IN  [v EXCEPT !.state = "Prevoted", !.base = None,
                               !.outgoing = Append(@, prevote), !.cast = Append(@, prevote)] :
                 target \in {b \in Block : v.base \in Ancestors[b]}}

Prevote(v, lr) ==
    CASE v.state \in {"Start", "Proposed"} -> StartPrevoting(v, lr)
      [] v.state = "Prevoting"             -> FinishPrevoting(v)
      [] OTHER                             -> {v}

\* construct_precommit
ConstructPrecommit == Message("precommit", Me, IF prevote_ghost = None THEN Base ELSE prevote_ghost)

\* The estimate of the last round is at or below the prevote-GHOST.
GhostAbove(lr) == prevote_ghost # None /\ lr.estimate \in Ancestors[prevote_ghost]

Precommit(v, lr) ==
    IF v.state # "Prevoted" \/ ~GhostAbove(lr) THEN {v}
    ELSE {Failed(v),
          IF "precommit_timer" \in events \/ completable
          THEN IF IsActive(v)
               THEN [v EXCEPT !.state = "Precommitted",
                              !.outgoing = Append(@, ConstructPrecommit),
                              !.cast = Append(@, ConstructPrecommit)]
               ELSE [v EXCEPT !.state = "Precommitted"]
          ELSE [v EXCEPT !.armed = @ \union {"precommit_timer"}]}

-----------------------------------------------------------------------------
(* VotingRound::poll *)

BeginPoll ==
    /\ pc = "idle"
    /\ voter.woken
    /\ pc' = "incoming"
    /\ pre_state' = RoundState
    /\ voter' = [voter EXCEPT !.woken = FALSE]
    /\ ready' = FALSE
    /\ UNCHANGED <<vars, last, outVars, events, unflushed, inbox, primary_block, last_round>>

\* Once the messages are drained, LatterView::get registers the task's waker.
RegisterWaker ==
    /\ pc = "incoming"
    /\ inbox = {}
    /\ pc' = "bridge"
    /\ voter' = IF last_round = None THEN voter ELSE [voter EXCEPT !.armed = @ \union {"bridge"}]
    /\ UNCHANGED <<vars, last, pre_state, ready, outVars, events, unflushed, inbox, primary_block, last_round>>

\* It then reads the last round's state; propose, prevote and precommit by that copy.
CastVotes ==
    /\ pc = "bridge"
    /\ last' = last_round
    /\ voter' \in
           IF last_round = None THEN {voter}
           ELSE UNION {Precommit(w, last_round) :
                    w \in UNION {Prevote(v, last_round) : v \in PrimaryPropose(voter, last_round)}}
    /\ pc' = IF voter'.state = "error" THEN "failed" ELSE "flush"
    /\ events' = events \intersect (Futures(voter'.state) \union {"sink", "bridge"})
    /\ UNCHANGED <<vars, outVars, pre_state, ready, unflushed, inbox, primary_block, last_round>>

\* Buffered::poll is done, or there was nothing to do.
FlushReady ==
    /\ pc = "flush"
    /\ pc' = "second"
    /\ voter' = [voter EXCEPT !.outgoing = <<>>]
    /\ unflushed' = FALSE
    /\ events' = events \ {"sink"}
    /\ UNCHANGED <<vars, last, pre_state, ready, outVars, inbox, primary_block, last_round>>

\* Buffered::poll: the sink takes a part of the buffer, or all of it, and has more to do;
\* poll returns without a report.
FlushPending ==
    /\ pc = "flush"
    /\ voter.outgoing # <<>> \/ unflushed
    /\ "sink" \notin events
    /\ pc' = "idle"
    /\ \E n \in 1 .. (Len(voter.outgoing) + 1) :
           voter' = [voter EXCEPT !.outgoing = SubSeq(@, n, Len(@)), !.armed = @ \union {"sink"}]
    /\ unflushed' = TRUE
    /\ last' = None
    /\ pre_state' = None
    /\ UNCHANGED <<vars, ready, outVars, events, inbox, primary_block, last_round>>

\* An error of the stream or of the sink ends the poll, and with it the voter.
PollFails ==
    /\ pc \in {"incoming", "flush", "second"}
    /\ pc' = "failed"
    /\ UNCHANGED <<vars, last, pre_state, ready, outVars, voter, events, unflushed, inbox,
                   primary_block, last_round>>

\* Slip: the state is pushed only when the finalized block has changed.
PushFinality ==
    /\ bridged' = IF pre_state.finalized # finalized /\ bridged # None THEN RoundState ELSE bridged
    /\ best_finalized' = IF completable /\ finalized # None THEN finalized ELSE best_finalized

\* Slip: notified on a change only, also when the first one was held back.
NotifyChange ==
    /\ bridged' = IF pre_state # RoundState /\ bridged # None THEN RoundState ELSE bridged
    /\ best_finalized' =
           IF /\ completable /\ finalized # None /\ pre_state.finalized # finalized
              /\ voter.state = "Precommitted" \/ last_round = None
           THEN finalized ELSE best_finalized

\* notify: the state for the next round, and the finality notification.
Notify ==
    LET new == RoundState
    IN  /\ bridged' = IF pre_state # new /\ bridged # None THEN new ELSE bridged
        /\ best_finalized' =
               IF /\ new.completable /\ new.finalized # None
                  /\ pre_state.finalized # new.finalized \/ best_finalized = None
                  /\ voter.state = "Precommitted" \/ last_round = None
               THEN new.finalized ELSE best_finalized

\* Slip: it is enough that something is finalized here.
SomethingFinalized(lr) == lr = None \/ finalized # None

\* The estimate of the last round is finalized, there or here; compared by number.
LastEstimateFinalized(lr) ==
    \/ lr = None
    \/ /\ lr.finalized # None
       /\ \/ Number[lr.estimate] <= Number[lr.finalized]
          \/ finalized # None /\ Number[lr.estimate] <= Number[finalized]

\* The end of poll, once the messages are drained again.
FinishPoll ==
    /\ pc = "second"
    /\ inbox = {}
    /\ Notify
    /\ ready' = (completable /\ LastEstimateFinalized(last))
    /\ pc' = "idle"
    /\ last' = None
    /\ pre_state' = None
    /\ UNCHANGED <<vars, voter, events, unflushed, inbox, primary_block, last_round>>

\* Slip: the next round is started without waiting for the poll to be ready.
BridgeEarly ==
    /\ bridged = None
    /\ pc \in {"idle", "loading"}
    /\ bridged' = RoundState
    /\ pc' = "idle"
    /\ UNCHANGED <<vars, last, pre_state, ready, best_finalized, voter, events, unflushed, inbox,
                   primary_block, last_round>>

\* bridge_state, called to start the next round: when this one was polled to completion
\* after precommitting, or was made completed.  It goes to the background and is polled there.
BridgeState ==
    /\ bridged = None
    /\ \/ pc = "idle" /\ ready /\ voter.state = "Precommitted"
       \/ pc = "loading" /\ completable
    /\ bridged' = RoundState
    /\ pc' = "idle"
    /\ voter' = [voter EXCEPT !.woken = TRUE]
    /\ UNCHANGED <<vars, last, pre_state, ready, best_finalized, events, unflushed, inbox,
                   primary_block, last_round>>

Poll ==
    \/ BeginPoll
    \/ \E m \in inbox : ProcessIncoming(m)
    \/ RegisterWaker
    \/ CastVotes
    \/ FlushReady
    \/ FlushPending
    \/ FinishPoll
    \/ PollFails

VotingNext ==
    \/ Poll
    \/ \E m \in Messages \union Sent : Arrive(m) \/ Load(m)
    \/ \E e \in {"prevote_timer", "precommit_timer", "best_chain", "sink"} : Happen(e)
    \/ \E s \in LastStates : LastRoundUpdates(s)
    \/ LastRoundWakes
    \/ BridgeState

\* The executor polls a task that was woken, and poll does not block; timers expire, the
\* best chain is found, the sink makes progress and an update of the bridge is finished.  Nothing is assumed of the messages.
Fairness ==
    /\ WF_allVars(Poll)
    /\ WF_allVars(LastRoundWakes)
    /\ \A e \in {"prevote_timer", "precommit_timer", "best_chain", "sink"} : WF_allVars(Happen(e))

VotingSpec == VotingInit /\ [][VotingNext]_allVars /\ Fairness

-----------------------------------------------------------------------------
(* Properties *)

CastOf(kind) == {m \in {voter.cast[i] : i \in DOMAIN voter.cast} : m.kind = kind}

\* The voter never equivocates and keeps the order of the phases, whatever was interrupted,
\* left pending or resumed: at most a hint, then a prevote, then a precommit; it does not
\* precommit without its prevote, and what waits to be sent is the end of what was cast.
VotesOnce ==
    /\ \A i, j \in DOMAIN voter.cast : i < j =>
           <<voter.cast[i].kind, voter.cast[j].kind>> \in
               {<<"propose", "prevote">>, <<"propose", "precommit">>, <<"prevote", "precommit">>}
    /\ CastOf("precommit") # {} => CastOf("prevote") # {}
    /\ \A i \in DOMAIN voter.outgoing :
           voter.outgoing[i] = voter.cast[Len(voter.cast) - Len(voter.outgoing) + i]

\* Every vote cast is for a block at or above the estimate of the last round, as it is at any
\* later time: the base of a prevote is chosen by a copy of the last round's state, a poll or
\* more before the vote is cast, and by the hint of a primary that may have seen other votes.
VotesAboveLastEstimate ==
    \A i \in DOMAIN voter.cast : last_round.estimate \in Ancestors[voter.cast[i].target]

\* When the next round is started, the estimate of the last round is finalized, in that round
\* or in this one: on its chain, although LastEstimateFinalized compares numbers only.
CompletedIsFinalized ==
    ready /\ voter.state = "Precommitted" =>
        \E f \in {last_round.finalized, finalized} \ {None} : last_round.estimate \in Ancestors[f]

\* The comment of bridge_state: the prior view is "held by a round which produces the state
\* and pushes updates to a latter view".  After a poll the next round sees the state of this
\* one, although notify compares with the state at the start of the same poll only.
BridgeIsCurrent ==
    [][pc = "second" /\ pc' = "idle" /\ bridged' # None => bridged' = RoundState']_allVars

\* The next round's view of this one may be out of date, but never wrong: it is of a
\* completable round, whose prevote-GHOST and finalized block have only risen since and
\* whose estimate has only moved back.  This is what LastRoundUpdates assumes of the last
\* round.
BridgeIsSafe == bridged # None => Follows(bridged, RoundState)

\* A voter whose prevote-GHOST is above the last round's estimate precommits, unless its
\* block disappeared or an error ended the voter: no wake-up is lost among the timers, the
\* best-chain future, the sink, the messages and the last round.
PrecommitsEventually ==
    (last_round # None /\ GhostAbove(last_round)) ~>
        (voter.state \in {"Precommitted", None} \/ pc = "failed")

\* The comment of notify ("notify when new blocks are finalized"): what is finalized in a
\* completable round in which the voter is done is reported.
FinalityReported ==
    (finalized # None /\ completable /\ voter.state = "Precommitted") ~>
        (best_finalized = finalized \/ pc \in {"failed", "concluded"})
-----------------------------------------------------------------------------
(***************************************************************************)
(* The inductive invariant behind these properties.  What was cast so far  *)
(* depends on the voter's state alone; where it was cast is bounded by the *)
(* last round's estimate, which only moves back; and what a finished poll  *)
(* reported holds at any later time, since rounds are monotone.            *)
(***************************************************************************)
Wakers       == {"prevote_timer", "precommit_timer", "best_chain", "sink", "bridge"}
VoteMessages == [kind : {"propose", "prevote", "precommit"}, id : Voter, target : Block]

VoterStates  ==
    [state    : {"Start", "Proposed", "Prevoting", "Prevoted", "Precommitted", "error", None},
     base     : OptionBlock,
     voting   : {"No", "Yes", "Primary"},
     outgoing : Seq(VoteMessages),
     cast     : Seq(VoteMessages),
     armed    : SUBSET Wakers,
     woken    : BOOLEAN]

VotingTypeOK ==
    /\ pc \in {"idle", "incoming", "bridge", "flush", "second", "loading", "failed", "concluded"}
    /\ voter \in VoterStates
    /\ events \in SUBSET Wakers
    /\ unflushed \in BOOLEAN
    /\ inbox \in SUBSET VoteMessages
    /\ primary_block \in OptionBlock
    /\ last_round \in LastStates \union {None}
    /\ last \in LastStates \union {None}
    /\ bridged \in [prevote_ghost : Block, estimate : Block, finalized : OptionBlock, completable : {TRUE}]
                       \union {None}
    /\ best_finalized \in OptionBlock
    /\ ready \in BOOLEAN

\* What may have been cast in a state.
KindsBy(state) ==
    CASE state = "Start"                         -> {}
      [] state \in {"Proposed", "Prevoting", None} -> {"propose"}
      [] state = "Prevoted"                      -> {"propose", "prevote"}
      [] OTHER                                   -> {"propose", "prevote", "precommit"}

HasCast(v, kind) == \E i \in DOMAIN v.cast : v.cast[i].kind = kind

\* The votes are in the order of the phases; a voter that votes has prevoted before it
\* precommits.
InPhase(v) ==
    /\ \A i, j \in DOMAIN v.cast : i < j =>
           <<v.cast[i].kind, v.cast[j].kind>> \in
               {<<"propose", "prevote">>, <<"propose", "precommit">>, <<"prevote", "precommit">>}
    /\ \A i \in DOMAIN v.cast : v.cast[i].kind \in KindsBy(v.state)
    /\ (v.state = "Prevoted" /\ IsActive(v)) \/ HasCast(v, "precommit") => HasCast(v, "prevote")

\* What waits to be sent is the end of what was cast.
OutgoingIsTail(v) ==
    /\ Len(v.outgoing) <= Len(v.cast)
    /\ \A i \in DOMAIN v.outgoing :
           v.outgoing[i] = v.cast[Len(v.cast) - Len(v.outgoing) + i]

\* What was cast or chosen is at or above the estimate of the last round.
AboveLast(v, lr) ==
    /\ \A i \in DOMAIN v.cast : lr.estimate \in Ancestors[v.cast[i].target]
    /\ v.state = "Prevoting" => v.base \in Block /\ lr.estimate \in Ancestors[v.base]
    /\ v.state = "Precommitted" => GhostAbove(lr)

VoterFits ==
    /\ InPhase(voter)
    /\ OutgoingIsTail(voter)
    /\ last_round # None => AboveLast(voter, last_round)
    /\ last_round = None => voter.state = None /\ voter.cast = <<>>

\* A poll goes by its copy of the last round, which may have moved on since.
CopyIsPast ==
    pc \in {"flush", "second"} =>
        /\ last = None <=> last_round = None
        /\ last # None => Follows(last, last_round)

\* What a poll reported when it was ready.
ReportStands ==
    /\ pc \in {"incoming", "bridge", "flush", "second"} => ~ready
    /\ ready => completable
    /\ CompletedIsFinalized

VotingInv ==
    /\ RoundInv
    /\ VotingTypeOK
    /\ VoterFits
    /\ CopyIsPast
    /\ ReportStands
    /\ pc = "loading" => last_round = None /\ bridged = None
    /\ BridgeIsSafe

\* Once the round is bridged its voter is done, and its sink has nothing left: no poll ends
\* before it has notified, and between polls the round's state is not touched.
BridgeInv ==
    /\ pc = "second" \/ ready \/ last_round = None \/ bridged # None =>
           voter.outgoing = <<>> /\ ~unflushed
    /\ bridged # None =>
           /\ voter.state \in {"Precommitted", None}
           /\ pc = "idle" => bridged = RoundState
           /\ pc \in {"incoming", "bridge", "flush", "second"} => bridged = pre_state
=============================================================================
