------------------------------- MODULE Voter -------------------------------
(***************************************************************************)
(* The voter (voter/mod.rs): a best round, the past rounds that run on in  *)
(* the background (voter/past_rounds.rs), finality notifications, commits  *)
(* and catch-ups from peers, and the restart of a node from what its       *)
(* environment has stored.                                                 *)
(*                                                                         *)
(* A round is its state (Round::state) and what VotingRound keeps with it. *)
(* What states the votes of a round can lead to is a world: it is given,   *)
(* and rounds follow it as StepsAreMonotone of RoundSpec allows.  That     *)
(* worlds agree on what is final, as WorldsAssumption says, is the safety  *)
(* of the protocol, which ProtocolProofs.tla proves.                       *)
(***************************************************************************)
EXTENDS World, Integers

CONSTANTS
    Genesis,      \* the base of the first round
    Worlds,       \* what the votes of each round can lead to: states, commits
    MaxWaiting,   \* bound: messages waiting in global_in
    MaxRestarts   \* bound: restarts

\* RoundState::genesis
GenesisState(b) == [prevote_ghost |-> b, estimate |-> b, finalized |-> b, completable |-> TRUE]

\* None, or at or above b.
AtOrAbove(b, x) == x # None => b \in Ancestors[x]

\* More votes may take a round from state s to state t (StepsAreMonotone of RoundSpec).
Advances(s, t) ==
    /\ s.prevote_ghost # None => t.prevote_ghost # None /\ s.prevote_ghost \in Ancestors[t.prevote_ghost]
    /\ s.finalized # None => t.finalized # None /\ s.finalized \in Ancestors[t.finalized]
    /\ s.completable => t.completable /\ t.estimate \in Ancestors[s.estimate]

\* A round of base b, which ignores the votes below it, can be in state t.
Fits(b, t) == \A x \in {t.prevote_ghost, t.estimate, t.finalized} : AtOrAbove(b, x)

ASSUME VoterAssumption == Genesis \in Block /\ MaxRound \in Nat \ {0} /\ None \notin RoundStates

\* What votes can lead to: Protocol makes such worlds.
ASSUME WorldsAssumption == \A w \in Worlds : IsWorld(w, Genesis)

VARIABLES
    world,                     \* the member of Worlds this node lives in
    up,                        \* whether the voter runs
    step,                      \* where Voter::poll is: idle, incoming, past, finalized, flush, best
    woken,                     \* whether the task will be polled
    best,                      \* the number of the best round
    rounds,                    \* the best round and the past rounds by number
    notifications,             \* finalized_notifications: blocks, in order
    last_finalized_number,
    last_finalized_in_rounds,
    global_in,                 \* messages waiting in the stream
    asked,                     \* whether the stream will wake the task
    global_out,                \* targets of the commits to be sent
    stored,                    \* kept by the environment: the last completed round
    chain_finalized,           \* kept by the environment: the last finalized block
    restarts,                  \* how often the node has restarted
    given                      \* history: the last finalized block that Voter::new was given

taskVars    == <<up, step, woken>>
finalVars   == <<notifications, last_finalized_number, last_finalized_in_rounds>>
storageVars == <<stored, chain_finalized>>
lifeVars    == <<world, restarts, given>>
voterVars   == <<taskVars, best, rounds, finalVars, global_in, asked, global_out, storageVars, lifeVars>>

-----------------------------------------------------------------------------
(* Rounds *)

\* VotingRound::new
NewRound(base, last) ==
    [base |-> base, state |-> Blank, last |-> last, voting |-> "Voting", best_finalized |-> None,
     committer |-> "none", import_commits |-> <<>>, last_commit |-> None, finalized_number |-> 0]

\* VotingRound::completed
CompletedRound(base, state) ==
    [NewRound(base, None) EXCEPT !.state = state, !.voting = "None"]

\* PastRounds::push
Pushed(round) == [round EXCEPT !.committer = "new", !.finalized_number = 0]

Past == DOMAIN rounds \ {best}

\* A stored round is rebuilt if its votes are available (instantiate_last_round), otherwise
\* the state of genesis stands for it.
Rebuilt(available) == stored.number > 0 /\ available

\* rs with round as its round n.
With(rs, n, round) == [m \in DOMAIN rs \union {n} |-> IF m = n THEN round ELSE rs[m]]

NoRounds == [n \in {} |-> None]

\* Voter::new
NewRounds(available) ==
    LET n    == stored.number
        last == IF Rebuilt(available) THEN stored.state ELSE GenesisState(stored.base)
        old  == IF Rebuilt(available) THEN With(NoRounds, n, Pushed(CompletedRound(stored.base, stored.state)))
                ELSE NoRounds
    IN  With(old, n + 1, NewRound(chain_finalized, last))

VoterInit ==
    /\ world \in Worlds
    /\ stored = [number |-> 0, base |-> Genesis, state |-> GenesisState(Genesis)]
    /\ chain_finalized = Genesis
    /\ restarts = 0
    /\ up = TRUE
    /\ step = "idle"
    /\ woken = TRUE
    /\ best = 1
    /\ rounds = With(NoRounds, 1, NewRound(Genesis, GenesisState(Genesis)))
    /\ notifications = <<>>
    /\ last_finalized_number = Number[Genesis]
    /\ last_finalized_in_rounds = Genesis
    /\ global_in = <<>>
    /\ asked = FALSE
    /\ global_out = <<>>
    /\ given = Genesis

\* How the voting may be after a poll in which the round comes to state t.  (A precommit that
\* is not flushed yet ends the poll early, as if it was not cast.)
VotingAfter(round, t) ==
    {round.voting} \union
        IF /\ round.voting = "Voting" /\ round.last # None /\ t.prevote_ghost # None
           /\ round.last.estimate \in Ancestors[t.prevote_ghost]
        THEN {"Precommitted"} ELSE {}

\* Slip: a round that cannot vote is not reported either.
ReportsOwn(round, t, voting) ==
    /\ t.completable /\ t.finalized # None
    /\ round.state.finalized # t.finalized \/ round.best_finalized = None
    /\ voting = "Precommitted"

\* VotingRound::notify sends a finality notification.
Reports(round, t, voting) ==
    /\ t.completable /\ t.finalized # None
    /\ round.state.finalized # t.finalized \/ round.best_finalized = None
    /\ voting = "Precommitted" \/ round.last = None

\* VotingRound::poll
Polled(round, t, voting) ==
    [round EXCEPT !.state = t, !.voting = voting,
                  !.best_finalized = IF Reports(round, t, voting) THEN t.finalized ELSE @]

\* The state t of round n is pushed to the next round, if it was made from this one.
Bridged(rs, n, t) ==
    IF t # rounds[n].state /\ n + 1 \in DOMAIN rounds /\ rounds[n + 1].last # None
    THEN [rs EXCEPT ![n + 1].last = t] ELSE rs

MayReach(n, s, t) == t \in world.states[n] /\ Advances(s, t) /\ Fits(rounds[n].base, t)

\* The estimate of the last round is finalized, there or in state t.
LastEstimateFinalized(round, t) ==
    \/ round.last = None
    \/ /\ round.last.finalized # None
       /\ \/ Number[round.last.estimate] <= Number[round.last.finalized]
          \/ t.finalized # None /\ Number[round.last.estimate] <= Number[t.finalized]
-----------------------------------------------------------------------------
(* The surroundings *)

CommitMessage(n, target) == [kind |-> "commit", number |-> n, target |-> target]
CatchUpMessage(n, base, state) == [kind |-> "catch_up", number |-> n, base |-> base, state |-> state]

\* Commits and catch-ups of peers, for any round.  None stands for a commit that
\* validate_commit refuses, and for votes that validate_catch_up refuses.
Global ==
    (UNION {{CommitMessage(n, target) : target \in world.commits[n] \union {None}} : n \in Round})
    \union {CatchUpMessage(n, Genesis, None) : n \in Round}
    \union (UNION {{CatchUpMessage(n, base, state) : base \in world.bases[n], state \in world.states[n]} :
                       n \in 1 .. (MaxRound - 1)})

\* The stream wakes the task if it was asked until it had nothing more.
GlobalArrives(m) ==
    /\ up /\ step = "idle"
    /\ Len(global_in) < MaxWaiting
    /\ global_in' = Append(global_in, m)
    /\ woken' = (woken \/ asked)
    /\ UNCHANGED <<up, step, best, rounds, finalVars, asked, global_out, storageVars, lifeVars>>

\* A vote, or a timer of a round, wakes the task.
Wake ==
    /\ up /\ step = "idle" /\ ~woken
    /\ woken' = TRUE
    /\ UNCHANGED <<up, step, best, rounds, finalVars, global_in, asked, global_out, storageVars, lifeVars>>

CommitTimer(n) ==
    /\ up /\ step = "idle"
    /\ n \in Past /\ rounds[n].committer = "open"
    /\ rounds' = [rounds EXCEPT ![n].committer = "fired"]
    /\ woken' = TRUE
    /\ UNCHANGED <<up, step, best, finalVars, global_in, asked, global_out, storageVars, lifeVars>>

-----------------------------------------------------------------------------
(* Voter::poll *)

BeginPoll ==
    /\ up /\ step = "idle" /\ woken
    /\ step' = "incoming"
    /\ woken' = FALSE
    /\ UNCHANGED <<up, best, rounds, finalVars, global_in, asked, global_out, storageVars, lifeVars>>

\* Slip: the estimate is not looked at.
IsCommitted(round) == round.committer = "gone"

\* BackgroundRound::is_done
IsDone(round) ==
    /\ round.committer = "gone"
    /\ round.state.estimate # None => Number[round.state.estimate] <= round.finalized_number

\* PastRounds::update_finalized
Told(rs, past, f) ==
    [n \in DOMAIN rs |->
        IF n \in past /\ rs[n].finalized_number < Number[f]
        THEN [rs[n] EXCEPT !.finalized_number = Number[f]] ELSE rs[n]]

\* Slip: any block is new.
FinalizeAny(f) ==
    /\ rounds' = Told(rounds, Past, f)
    /\ woken' = (woken \/ \E n \in Past : IsDone(rounds'[n]))
    /\ last_finalized_number' = Number[f]
    /\ chain_finalized' = f

\* Slip: the past rounds are told of new blocks only.
FinalizeNew(f) ==
    IF Number[f] > last_finalized_number
    THEN /\ rounds' = Told(rounds, Past, f)
         /\ woken' = (woken \/ \E n \in Past : IsDone(rounds'[n]))
         /\ last_finalized_number' = Number[f] /\ chain_finalized' = f
    ELSE UNCHANGED <<rounds, woken, last_finalized_number, chain_finalized>>

\* update_finalized, which wakes the rounds that are done, and finalize_block for a new block.
Finalize(f) ==
    /\ rounds' = Told(rounds, Past, f)
    /\ woken' = (woken \/ \E n \in Past : IsDone(rounds'[n]))
    /\ IF Number[f] > last_finalized_number
       THEN last_finalized_number' = Number[f] /\ chain_finalized' = f
       ELSE UNCHANGED <<last_finalized_number, chain_finalized>>

\* PastRounds::import_commit: the round's committer still listens.
Listens(n) == n \in Past /\ rounds[n].committer \in {"new", "open", "fired"}

\* Slip: the next round starts at what a commit finalizes.
ProcessCommitInRounds ==
    /\ up /\ step = "incoming" /\ global_in # <<>>
    /\ LET m == Head(global_in)
       IN  /\ m.kind = "commit"
           /\ IF Listens(m.number)
              THEN /\ rounds' = [rounds EXCEPT ![m.number].import_commits = Append(@, m.target)]
                   /\ UNCHANGED <<woken, last_finalized_number, last_finalized_in_rounds, chain_finalized>>
              ELSE IF m.target # None
              THEN Finalize(m.target) /\ last_finalized_in_rounds' = m.target
              ELSE UNCHANGED <<rounds, woken, last_finalized_number, last_finalized_in_rounds, chain_finalized>>
    /\ global_in' = Tail(global_in)
    /\ asked' = FALSE
    /\ UNCHANGED <<up, step, best, notifications, global_out, stored, lifeVars>>

\* process_incoming, a commit: it goes to the past round, or is validated and finalizes.
ProcessCommit ==
    /\ up /\ step = "incoming" /\ global_in # <<>>
    /\ LET m == Head(global_in)
       IN  /\ m.kind = "commit"
           /\ IF Listens(m.number)
              THEN /\ rounds' = [rounds EXCEPT ![m.number].import_commits = Append(@, m.target)]
                   /\ UNCHANGED <<woken, last_finalized_number, chain_finalized>>
              ELSE IF m.target # None THEN Finalize(m.target)
              ELSE UNCHANGED <<rounds, woken, last_finalized_number, chain_finalized>>
    /\ global_in' = Tail(global_in)
    /\ asked' = FALSE
    /\ UNCHANGED <<up, step, best, notifications, last_finalized_in_rounds, global_out, stored, lifeVars>>

Higher(f, g) == IF f # None /\ Number[f] > Number[g] THEN f ELSE g

\* validate_catch_up
IsValidCatchUp(m) ==
    /\ m.number > best
    /\ m.state # None => m.state.completable /\ Fits(m.base, m.state)
    /\ m.state # None

\* The rounds after the catch-up m: its round is completed, the next one is started on it,
\* and the best round so far goes to the background as it is.
CaughtUp(m) ==
    With(With([rounds EXCEPT ![best] = Pushed(@)], m.number, Pushed(CompletedRound(m.base, m.state))),
         m.number + 1, NewRound(last_finalized_in_rounds, m.state))

\* Slip: the environment is not told that the round is completed.
CatchUpUntold ==
    /\ up /\ step = "incoming" /\ global_in # <<>>
    /\ LET m == Head(global_in)
       IN  /\ m.kind = "catch_up" /\ IsValidCatchUp(m)
           /\ best' = m.number + 1
           /\ rounds' = CaughtUp(m)
           /\ last_finalized_in_rounds' = Higher(m.state.finalized, last_finalized_in_rounds)
    /\ global_in' = Tail(global_in)
    /\ asked' = FALSE
    /\ UNCHANGED <<taskVars, notifications, last_finalized_number, global_out, storageVars, lifeVars>>

\* process_incoming, a valid catch-up.
CatchUp ==
    /\ up /\ step = "incoming" /\ global_in # <<>>
    /\ LET m == Head(global_in)
       IN  /\ m.kind = "catch_up" /\ IsValidCatchUp(m)
           /\ best' = m.number + 1
           /\ rounds' = CaughtUp(m)
           /\ last_finalized_in_rounds' = Higher(m.state.finalized, last_finalized_in_rounds)
           /\ stored' = [number |-> m.number, base |-> m.base, state |-> m.state]
    /\ global_in' = Tail(global_in)
    /\ asked' = FALSE
    /\ UNCHANGED <<taskVars, notifications, last_finalized_number, global_out, chain_finalized, lifeVars>>

\* process_incoming, any other catch-up: process_incoming returns, with the stream not asked
\* for more.
BadCatchUp ==
    /\ up /\ step = "incoming" /\ global_in # <<>>
    /\ Head(global_in).kind = "catch_up" /\ ~IsValidCatchUp(Head(global_in))
    /\ global_in' = Tail(global_in)
    /\ asked' = FALSE
    /\ step' = "past"
    /\ UNCHANGED <<up, woken, best, rounds, finalVars, global_out, storageVars, lifeVars>>

IncomingDone ==
    /\ up /\ step = "incoming" /\ global_in = <<>>
    /\ asked' = TRUE
    /\ step' = "past"
    /\ UNCHANGED <<up, woken, best, rounds, finalVars, global_in, global_out, storageVars, lifeVars>>

\* RoundCommitter::import_commit of a commit for c, where s is the state of round n and the
\* last commit: it is below what is finalized, or invalid, or its precommits are imported.
Imported(n, s, c) ==
    IF c = None \/ (s.state.finalized # None /\ Number[c] < Number[s.state.finalized]) THEN {s}
    ELSE {[state |-> u, last_commit |-> c] :
            u \in {u \in world.states[n] :
                    /\ MayReach(n, s.state, u)
                    /\ u.prevote_ghost # None /\ c \in Ancestors[u.prevote_ghost]
                           => u.finalized # None /\ c \in Ancestors[u.finalized]}}

\* The states that the import of the commits waiting for round n goes through from s, in the
\* commits' order.
ImportPaths(n, s) ==
    LET commits == rounds[n].import_commits
        seen    == [state : world.states[n],
                    last_commit : {s.last_commit} \union {commits[i] : i \in DOMAIN commits}]
    IN  {path \in [0 .. Len(commits) -> seen] :
            /\ path[0] = s
            /\ \A i \in 1 .. Len(commits) : path[i] \in Imported(n, path[i - 1], commits[i])}

ImportedAll(n, s) == {path[Len(rounds[n].import_commits)] : path \in ImportPaths(n, s)}

\* RoundCommitter::commit issues a commit once the timer has fired.
Issues(round, s) ==
    /\ round.committer = "fired"
    /\ s.state.finalized # None
    /\ s.last_commit # None => Number[s.last_commit] < Number[s.state.finalized]
    /\ round.best_finalized # None

CommitterAfter(round) ==
    CASE round.committer = "fired" -> "gone" [] round.committer = "new" -> "open" [] OTHER -> round.committer

\* BackgroundRound::poll of round n, which first comes to state t.
PollPast(n, t, voting) ==
    LET old    == rounds[n]
        polled == Polled(old, t, voting)
    IN  /\ up /\ step = "past" /\ n \in Past
        /\ MayReach(n, old.state, t) /\ voting \in VotingAfter(old, t)
        /\ \E s \in ImportedAll(n, [state |-> t, last_commit |-> old.last_commit]) :
              LET issues == Issues(polled, s)
                  new    == [polled EXCEPT !.state = s.state, !.import_commits = <<>>,
                                           !.committer = CommitterAfter(old),
                                           !.last_commit = IF old.committer = "fired" THEN None ELSE s.last_commit]
              IN  /\ global_out' = IF issues THEN Append(global_out, polled.best_finalized) ELSE global_out
                  /\ IF IsDone(new) /\ ~issues
                     THEN /\ rounds' = [m \in DOMAIN rounds \ {n} |-> Bridged(rounds, n, t)[m]]
                          /\ stored' = IF stored.number = n THEN [stored EXCEPT !.state = s.state] ELSE stored
                     ELSE /\ rounds' = [Bridged(rounds, n, t) EXCEPT ![n] = new]
                          /\ UNCHANGED stored
        /\ notifications' = IF Reports(old, t, voting) THEN Append(notifications, t.finalized) ELSE notifications
        /\ UNCHANGED <<taskVars, best, last_finalized_number, last_finalized_in_rounds, global_in, asked,
                       chain_finalized, lifeVars>>

\* Slip: the commits are sent before the notifications are handled.
PastDoneFlush ==
    /\ up /\ step = "past"
    /\ \A n \in Past : rounds[n].committer \notin {"new", "fired"} /\ ~IsDone(rounds[n])
    /\ step' = "flush"
    /\ UNCHANGED <<up, woken, best, rounds, finalVars, global_in, asked, global_out, storageVars, lifeVars>>

\* A past round is polled when it was just pushed, its timer fired, a commit is in its
\* channel, or it is done (DoneIsWoken of BackgroundRound).
PastDone ==
    /\ up /\ step = "past"
    /\ \A n \in Past : /\ rounds[n].committer \notin {"new", "fired"}
                        /\ rounds[n].import_commits = <<>>
                        /\ ~IsDone(rounds[n])
    /\ step' = "finalized"
    /\ UNCHANGED <<up, woken, best, rounds, finalVars, global_in, asked, global_out, storageVars, lifeVars>>

\* prune_background_rounds, one notification.
HandleNotification ==
    /\ up /\ step = "finalized" /\ notifications # <<>>
    /\ Finalize(Head(notifications))
    /\ last_finalized_in_rounds' = Higher(Head(notifications), last_finalized_in_rounds)
    /\ notifications' = Tail(notifications)
    /\ UNCHANGED <<up, step, best, global_in, asked, global_out, stored, lifeVars>>

NotificationsDone ==
    /\ up /\ step = "finalized" /\ notifications = <<>>
    /\ step' = "flush"
    /\ UNCHANGED <<up, woken, best, rounds, finalVars, global_in, asked, global_out, storageVars, lifeVars>>

\* Buffered::poll: the sink takes the commits, or a part of them.
FlushGlobal ==
    /\ up /\ step = "flush"
    /\ \E k \in 1 .. (Len(global_out) + 1) : global_out' = SubSeq(global_out, k, Len(global_out))
    /\ step' = "best"
    /\ UNCHANGED <<up, woken, best, rounds, finalVars, global_in, asked, storageVars, lifeVars>>

\* process_best_round: the best round comes to state t.  If that completes it, the next one
\* is started and the poll begins again (completed_best_round).
PollBest(t, voting) ==
    LET old      == rounds[best]
        polled   == Polled(old, t, voting)
        complete == t.completable /\ voting = "Precommitted" /\ LastEstimateFinalized(old, t)
    IN  /\ up /\ step = "best"
        /\ MayReach(best, old.state, t) /\ voting \in VotingAfter(old, t)
        /\ notifications' = IF Reports(old, t, voting) THEN Append(notifications, t.finalized) ELSE notifications
        /\ woken' = (woken \/ Reports(old, t, voting))
        /\ IF complete
           THEN /\ best < MaxRound
                /\ stored' = [number |-> best, base |-> old.base, state |-> t]
                /\ rounds' = With([rounds EXCEPT ![best] = Pushed(polled)],
                                  best + 1, NewRound(last_finalized_in_rounds, t))
                /\ best' = best + 1
                /\ step' = "incoming"
           ELSE /\ rounds' = [rounds EXCEPT ![best] = polled]
                /\ step' = "idle"
                /\ UNCHANGED <<stored, best>>
        /\ UNCHANGED <<up, last_finalized_number, last_finalized_in_rounds, global_in, asked, global_out,
                       chain_finalized, lifeVars>>

-----------------------------------------------------------------------------
(* The node *)

\* The node stops at any point, or an error of the environment ends the voter: what the
\* environment has stored is left.
Crash ==
    /\ up
    /\ restarts < MaxRestarts
    /\ up' = FALSE
    /\ step' = "idle"
    /\ woken' = FALSE
    /\ rounds' = NoRounds
    /\ notifications' = <<>>
    /\ global_in' = <<>>
    /\ asked' = FALSE
    /\ global_out' = <<>>
    /\ UNCHANGED <<best, last_finalized_number, last_finalized_in_rounds, storageVars, lifeVars>>

\* Voter::new with what is stored.
Restart(available) ==
    /\ ~up
    /\ stored.number < MaxRound
    /\ up' = TRUE
    /\ woken' = TRUE
    /\ best' = stored.number + 1
    /\ rounds' = NewRounds(available)
    /\ last_finalized_number' = Number[chain_finalized]
    /\ last_finalized_in_rounds' = chain_finalized
    /\ given' = chain_finalized
    /\ restarts' = restarts + 1
    /\ UNCHANGED <<world, step, notifications, global_in, asked, global_out, storageVars>>

PollStep ==
    \/ BeginPoll
    \/ ProcessCommit \/ CatchUp \/ BadCatchUp \/ IncomingDone
    \/ \E n \in Past : \E t \in world.states[n] : \E voting \in {"Voting", "Precommitted", "None"} :
           PollPast(n, t, voting)
    \/ PastDone
    \/ HandleNotification \/ NotificationsDone
    \/ FlushGlobal
    \/ \E t \in world.states[best], voting \in {"Voting", "Precommitted"} : PollBest(t, voting)

VoterNext ==
    \/ PollStep
    \/ \E m \in Global : GlobalArrives(m)
    \/ Wake
    \/ \E n \in Past : CommitTimer(n)
    \/ Crash
    \/ \E available \in BOOLEAN : Restart(available)

\* The executor polls a task that was woken, and poll does not block; the timer of a commit
\* runs on while other events have the task polled.  No message and no vote need ever come.
VoterFairness ==
    /\ WF_voterVars(PollStep)
    /\ \A n \in Round : SF_voterVars(n \in Past /\ CommitTimer(n))

VoterSpec == VoterInit /\ [][VoterNext]_voterVars /\ VoterFairness

-----------------------------------------------------------------------------
(* Properties *)

\* Of all that reports finality (notifications of several rounds in any order, commits of
\* peers for past and future rounds, the rounds of a restarted node) the environment is asked
\* to finalize each block once, upwards along one chain.
FinalizesUpward ==
    [][chain_finalized' # chain_finalized =>
          chain_finalized \in Ancestors[chain_finalized'] \ {chain_finalized'}]_voterVars

\* The comment of last_finalized_in_rounds: the base is kept back "so we don't violate any
\* assumptions from round-to-round".  A round starts at or below the estimate that any voter
\* may have of the round before it, so that no vote of a correct voter is below its base;
\* but for the base that Voter::new was given.
BaseBelowEstimates ==
    up => \/ rounds[best].base \in Ancestors[given]
          \/ \A s \in world.states[best - 1] : s.completable => rounds[best].base \in Ancestors[s.estimate]

\* A node does not return to a round it has left, also by a restart after a catch-up.
NeverReturns == [][best' >= best]_voterVars

\* A base is finalized at the latest when the poll ends: what a catch-up brings counts in the
\* rounds before the environment has heard of it, and is reported by the round it completes.
BaseIsFinalized == up /\ step = "idle" => last_finalized_in_rounds \in Ancestors[chain_finalized]

\* A commit is sent to peers only when its block is finalized here: a past round issues it in
\* the step of the poll before the one in which its notification is handled.
SentIsFinalized ==
    step = "flush" => \A i \in DOMAIN global_out : global_out[i] \in Ancestors[chain_finalized]

\* When a completable past round is discarded nothing is lost: what any voter has seen
\* finalized in it is finalized here, although the estimate is compared by number and may be
\* on another branch.
ConcludedIsFinalized ==
    [][\A n \in DOMAIN rounds \ DOMAIN rounds' :
          up' /\ rounds[n].state.completable =>
              \A f \in FinalOf(world, n) : f \in Ancestors[chain_finalized]]_voterVars

\* A later round has reported a block as high as the estimate of round n.
Superseded(n) ==
    /\ n \in Past /\ rounds[n].state.completable
    /\ \E m \in DOMAIN rounds :
           /\ m > n /\ rounds[m].best_finalized # None
           /\ Number[rounds[m].best_finalized] >= Number[rounds[n].state.estimate]

\* No past round is left behind: whenever the task sleeps, every past round whose estimate a
\* later round has finalized only waits for its commit timer, also if that block had been
\* finalized before, by a commit.  A round enters the background with the finalized number
\* zero, and learns of finality only by what is reported after that.
NoneLeftBehind ==
    up /\ step = "idle" /\ ~woken =>
        \A n \in Past : Superseded(n) => rounds[n].committer = "open"

-----------------------------------------------------------------------------
(* What the comments say *)

\* The comment of process_incoming: "Process all incoming messages from other nodes".
IncomingIsProcessed == global_in # <<>> ~> global_in = <<>>

-----------------------------------------------------------------------------
(* The inductive invariant *)

RoundRecords ==
    [base : Block, state : RoundStates, last : RoundStates \union {None},
     voting : {"Voting", "Precommitted", "None"}, best_finalized : OptionBlock,
     committer : {"none", "new", "open", "fired", "gone"}, import_commits : Seq(OptionBlock),
     last_commit : OptionBlock, finalized_number : Nat]

StoredRounds == [number : Nat, base : Block, state : RoundStates]

VoterTypeOK ==
    /\ world \in Worlds
    /\ up \in BOOLEAN /\ woken \in BOOLEAN
    /\ step \in {"idle", "incoming", "past", "finalized", "flush", "best"}
    /\ best \in Round
    /\ DOMAIN rounds \subseteq 1 .. best
    /\ rounds \in [DOMAIN rounds -> RoundRecords]
    /\ notifications \in Seq(Block) /\ global_out \in Seq(Block) /\ global_in \in Seq(Global)
    /\ last_finalized_number \in Nat /\ last_finalized_in_rounds \in Block
    /\ stored \in StoredRounds
    /\ chain_finalized \in Block /\ given \in Block

\* The best round is there while the voter runs, and after a crash only what is stored is.
RunsOrDown ==
    /\ stored.number + 1 = best
    /\ up => best \in DOMAIN rounds
    /\ ~up => step = "idle" /\ DOMAIN rounds = {} /\ notifications = <<>> /\ global_out = <<>> /\ global_in = <<>>
    /\ \A n \in Past : rounds[n].committer # "none"

\* All rounds are in states that their votes lead to.
StatesOfWorld ==
    /\ \A n \in DOMAIN rounds : rounds[n].state \in world.states[n]
    /\ stored.number > 0 => stored.state \in world.states[stored.number]

\* b has a supermajority of precommits in a round that is not later than round n.
FinalBy(b, n) == \E m \in 1 .. n : b \in FinalOf(world, m)

\* All that reports finality reports what is final in some round.
ReportsAreFinal ==
    /\ chain_finalized = Genesis \/ FinalBy(chain_finalized, MaxRound)
    /\ last_finalized_number = Number[chain_finalized]
    /\ last_finalized_in_rounds \in Ancestors[given] \/ FinalBy(last_finalized_in_rounds, best)
    /\ \A i \in DOMAIN notifications : FinalBy(notifications[i], best)

\* The environment has heard of b, or a notification that waits will tell it.
Known(b) == b \in Ancestors[chain_finalized] \/ \E i \in DOMAIN notifications : notifications[i] = b

ReportsAreKnown ==
    /\ \A n \in DOMAIN rounds : rounds[n].best_finalized # None => Known(rounds[n].best_finalized)
    /\ \A i \in DOMAIN global_out : Known(global_out[i])

\* Round n will report what the catch-up that brought it has finalized.
WillReport(n) ==
    /\ n \in Past /\ rounds[n].committer = "new" /\ rounds[n].last = None /\ rounds[n].best_finalized = None
    /\ rounds[n].state.completable /\ rounds[n].state.finalized # None
    /\ last_finalized_in_rounds \in Ancestors[rounds[n].state.finalized]

\* The base of the next round is finalized, or will be in this poll.
BaseIsReported ==
    up => \/ last_finalized_in_rounds \in Ancestors[chain_finalized]
          \/ step \in {"incoming", "past"} /\ \E n \in Past : WillReport(n)
          \/ /\ step \in {"incoming", "past", "finalized"}
             /\ \E i \in DOMAIN notifications : last_finalized_in_rounds \in Ancestors[notifications[i]]

\* A past round was told of what later rounds have reported, or a notification waits; it was
\* told of nothing else.
PastIsTold ==
    /\ \A n \in DOMAIN rounds : rounds[n].finalized_number <= last_finalized_number
    /\ \A n \in Past, m \in DOMAIN rounds :
           m > n /\ rounds[m].best_finalized # None =>
               \/ \E i \in DOMAIN notifications : notifications[i] = rounds[m].best_finalized
               \/ Number[rounds[m].best_finalized] <= rounds[n].finalized_number

\* What the poll has done is not left over, unless the task is woken again.
NothingIsLeft ==
    /\ step \in {"flush", "best"} \/ (step = "idle" /\ ~woken) => notifications = <<>>
    /\ step \in {"finalized", "flush", "best"} \/ (step = "idle" /\ ~woken) =>
           \A n \in Past : rounds[n].committer \notin {"new", "fired"}
    /\ step \in {"finalized", "flush", "best", "idle"} /\ ~woken => \A n \in Past : ~IsDone(rounds[n])

VoterInv ==
    /\ VoterTypeOK
    /\ RunsOrDown
    /\ StatesOfWorld
    /\ ReportsAreFinal
    /\ ReportsAreKnown
    /\ BaseIsReported
    /\ BaseBelowEstimates
    /\ PastIsTold
    /\ NothingIsLeft
=============================================================================
