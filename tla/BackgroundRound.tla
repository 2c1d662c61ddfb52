-------------------------- MODULE BackgroundRound --------------------------
(***************************************************************************)
(* A voting round from its start until it is discarded: once the next      *)
(* round is built on it, it runs in the background with a RoundCommitter   *)
(* (voter/past_rounds.rs), which imports the commits that peers send and,  *)
(* when its timer fires, may issue one.  BackgroundRound::poll polls the   *)
(* round first and then gives the committer its turn.                      *)
(***************************************************************************)
EXTENDS VotingRound

VARIABLES
    turn,               \* whose turn it is in BackgroundRound::poll: round or committer
    committer,          \* the RoundCommitter: timer, armed, last_commit; None: dropped, or not yet made
    import_commits,     \* the commit in the committer's channel, or None
    committed,          \* the target of the commit that was issued, or None
    finalized_number    \* the finalized number this round was told of

committerVars  == <<committer, import_commits, committed>>
backgroundVars == <<allVars, turn, committerVars, finalized_number>>

Committers == [timer : BOOLEAN, armed : BOOLEAN, last_commit : OptionBlock]

ASSUME BackgroundAssumption == None \notin Committers

\* RoundCommitter::new
NewCommitter == [timer |-> FALSE, armed |-> FALSE, last_commit |-> None]

\* BackgroundRound::is_done
IsDone(roundCommitter, finalizedNumber) ==
    /\ roundCommitter = None
    /\ estimate # None => Number[estimate] <= finalizedNumber

BackgroundInit ==
    /\ VotingInit
    /\ turn = "round"
    /\ committer = None
    /\ import_commits = None
    /\ committed = None
    /\ finalized_number = 0

\* A step of the round.  When the next round is started this one is pushed to the background;
\* there, whatever its poll returned, the committer is next.
RoundStep ==
    /\ VotingNext
    /\ turn = "committer" => pc' = "idle"
    /\ turn' = IF pc # "idle" /\ pc' = "idle" /\ bridged # None THEN "committer" ELSE turn
    /\ committer' = IF bridged = None /\ bridged' # None THEN NewCommitter ELSE committer
    /\ UNCHANGED <<import_commits, committed, finalized_number>>

-----------------------------------------------------------------------------
(* Commits from peers *)

\* The precommits a peer may hold: of a correct voter, the one this node sees as well.
Precommits ==
    {m \in Messages \union Sent :
        /\ m.kind = "precommit"
        /\ m.id \notin Byzantine => precommits[m.id] \in {None, m.target}}

\* validate_commit accepts the commit: one precommit is at or below all others, and the
\* target is the highest block with a supermajority, of votes at or above it and of those
\* who precommit twice.  (Commit.tla has the whole of it.)
IsValidCommit(target, C) ==
    LET twice == {m.id : m \in {n \in C : \E o \in C : o.id = n.id /\ o # n}}
        heavy == {b \in Block :
                     Weight[{m.id : m \in {n \in C : b \in Ancestors[n.target]}} \union twice] >= Threshold}
    IN  /\ \E m \in C : \A n \in C : m.target \in Ancestors[n.target]
        /\ target \in heavy
        /\ \A b \in heavy : b \in Ancestors[target]

\* A valid commit for this round; one of known precommits only would change nothing.  (One
\* that comes in the committer's turn is as good as before it or after it.)
CommitArrives(target, C) ==
    /\ pc # "failed"
    /\ turn = "round"
    /\ committer # None
    /\ import_commits = None
    /\ IsValidCommit(target, C)
    /\ \E m \in C : precommits[m.id] # m.target
    /\ import_commits' = [target |-> target, precommits |-> C, checked |-> FALSE]
    /\ voter' = [voter EXCEPT !.woken = TRUE]
    /\ UNCHANGED <<vars, pollVars, outVars, events, unflushed, inbox, primary_block, last_round,
                   turn, committer, committed, finalized_number>>

\* RoundCommitter::import_commit: a commit below what is finalized is ignored.
ImportCommit ==
    LET c == import_commits
    IN  /\ turn = "committer"
        /\ c # None /\ ~c.checked
        /\ import_commits' =
               IF finalized # None /\ Number[c.target] < Number[finalized] THEN None
               ELSE [c EXCEPT !.checked = TRUE]
        /\ UNCHANGED <<allVars, turn, committer, committed, finalized_number>>

\* The vote graph refuses a vote below the base, once it is counted: import_precommit gives it
\* a voter's first vote only.  A second one is an equivocation, which needs no place there.
IsRefused(m) == precommits[m.id] = None /\ ~IsEqualOrDescendentOf(Base, m.target)

\* check_and_import_from_commit imports the precommits, in any order, without the base check
\* of handle_vote; the error of a refused one ends the voter.
ImportFromCommit(m) ==
    LET c    == import_commits
        rest == c.precommits \ {m}
    IN  /\ turn = "committer" /\ pc = "idle"
        /\ c # None /\ c.checked /\ m \in c.precommits
        /\ ImportVote(m)
        /\ pc' = IF IsRefused(m) THEN "failed" ELSE "idle"
        /\ import_commits' = IF rest = {} THEN None ELSE [c EXCEPT !.precommits = rest]
        /\ committer' = IF rest = {} THEN [committer EXCEPT !.last_commit = c.target] ELSE committer
        /\ UNCHANGED <<last, pre_state, ready, outVars, voter, events, unflushed, inbox,
                       primary_block, last_round, turn, committed, finalized_number>>

-----------------------------------------------------------------------------
(* The end of BackgroundRound::poll *)

CommitTimer ==
    /\ committer # None
    /\ ~committer.timer
    /\ committer' = [committer EXCEPT !.timer = TRUE]
    /\ voter' = [voter EXCEPT !.woken = @ \/ committer.armed]
    /\ UNCHANGED <<vars, pollVars, outVars, events, unflushed, inbox, primary_block, last_round,
                   turn, import_commits, committed, finalized_number>>

\* The end of RoundCommitter::commit once the timer fired: the block whose commit is issued.
CommitToIssue ==
    IF finalized # None /\ (committer.last_commit # None =>
                               Number[committer.last_commit] < Number[finalized])
    THEN best_finalized ELSE None

\* The committer waits for its timer, or is dropped and its commit issued: the round is then
\* rescheduled.  Otherwise the round may be done.
FinishBackgroundPoll ==
    /\ turn = "committer" /\ pc = "idle"
    /\ import_commits = None
    /\ turn' = "round"
    /\ IF committer # None /\ ~committer.timer
       THEN /\ committer' = [committer EXCEPT !.armed = TRUE]
            /\ UNCHANGED <<pc, voter, committed>>
       ELSE LET commit == IF committer = None THEN None ELSE CommitToIssue
            IN  /\ committer' = None
                /\ committed' = IF commit = None THEN committed ELSE commit
                /\ voter' = [voter EXCEPT !.woken = @ \/ commit # None]
                /\ pc' = IF commit = None /\ IsDone(None, finalized_number) THEN "concluded" ELSE pc
    /\ UNCHANGED <<vars, last, pre_state, ready, outVars, events, unflushed, inbox, primary_block,
                   last_round, import_commits, finalized_number>>

\* The commit timer's error ends the voter.
CommitterFails ==
    /\ turn = "committer" /\ pc = "idle"
    /\ committer # None
    /\ pc' = "failed"
    /\ UNCHANGED <<vars, last, pre_state, ready, outVars, voter, events, unflushed, inbox,
                   primary_block, last_round, turn, committerVars, finalized_number>>

\* Slip: nobody is woken.
UpdateFinalizedAsleep(n) ==
    /\ bridged # None /\ pc = "idle" /\ turn = "round"
    /\ n > finalized_number
    /\ finalized_number' = n
    /\ UNCHANGED <<allVars, turn, committerVars>>

\* The voter learns of a finalized block, from any round or commit; BackgroundRound::update_finalized.
UpdateFinalized(n) ==
    /\ bridged # None /\ pc = "idle" /\ turn = "round"
    /\ n > finalized_number
    /\ finalized_number' = n
    /\ voter' = [voter EXCEPT !.woken = @ \/ IsDone(committer, n)]
    /\ UNCHANGED <<vars, pollVars, outVars, events, unflushed, inbox, primary_block, last_round,
                   turn, committerVars>>

BackgroundNext ==
    \/ RoundStep
    \/ \E C \in SUBSET Precommits, target \in Block : CommitArrives(target, C)
    \/ ImportCommit
    \/ \E m \in Precommits : ImportFromCommit(m)
    \/ CommitTimer
    \/ FinishBackgroundPoll
    \/ CommitterFails
    \/ \E b \in Block : UpdateFinalized(Number[b])

\* As for the voting round; the committer's turn does not block, and its timer fires.
BackgroundFairness ==
    /\ WF_backgroundVars(Poll /\ RoundStep)
    /\ WF_backgroundVars(LastRoundWakes /\ RoundStep)
    /\ \A e \in {"prevote_timer", "precommit_timer", "best_chain", "sink"} :
           WF_backgroundVars(Happen(e) /\ RoundStep)
    /\ WF_backgroundVars(ImportCommit)
    /\ WF_backgroundVars(\E m \in Precommits : ImportFromCommit(m))
    /\ WF_backgroundVars(FinishBackgroundPoll)
    /\ WF_backgroundVars(CommitTimer)

BackgroundSpec == BackgroundInit /\ [][BackgroundNext]_backgroundVars /\ BackgroundFairness

-----------------------------------------------------------------------------
(* Properties *)

\* BackgroundRound "resolves when the round can be discarded": a round whose committer is gone
\* and whose estimate is known to be finalized is about to be polled, and concludes in that
\* poll.  No wake-up is lost when a vote or a commit moves the estimate back, or when the
\* finalized block is learnt while the committer is still there, although update_finalized
\* then wakes nobody.
DoneIsWoken ==
    bridged # None /\ pc = "idle" /\ turn = "round" /\ IsDone(committer, finalized_number) =>
        voter.woken

-----------------------------------------------------------------------------
(***************************************************************************)
(* The inductive invariant behind these properties and those of            *)
(* VotingRound, which hold of a round in the background as well: a commit  *)
(* adds votes between polls, when it is the committer's turn.              *)
(***************************************************************************)
BackgroundTypeOK ==
    /\ turn \in {"round", "committer"}
    /\ committer \in Committers \union {None}
    /\ import_commits \in
           [target : Block, precommits : SUBSET VoteMessages, checked : BOOLEAN] \union {None}
    /\ committed \in OptionBlock
    /\ finalized_number \in Nat

BackgroundInv ==
    /\ VotingInv
    /\ BackgroundTypeOK
    /\ turn = "committer" => pc \in {"idle", "failed"}
    /\ import_commits # None => committer # None
    /\ DoneIsWoken
=============================================================================
