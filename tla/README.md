# finality-grandpa in TLA+

`finality-grandpa` is the GRANDPA finality gadget as a library: voters exchange prevotes and
precommits for blocks of a chain, round after round, and finalize the blocks that a supermajority
of the vote weight stands behind. The embedding node supplies the chain, the network, timers and
storage through the traits `Chain` and `Environment`.

This directory models the library's core in TLA+: how votes are weighed, where they are kept, what
a round concludes from them, how a voter takes part in a round until it is discarded, how a
conclusion is passed on as a commit or a catch-up, how the voter runs its rounds through commits,
catch-ups and restarts, and that voters which follow the code agree. TLC checks every module
on small instances. TLAPS proofs hold for every voter set, block tree and base, and for every number
of rounds: of the voter set, the bitfields and the vote graph, of a round as it is defined and as the code computes
it, of what a round sends and what is made of it, of a voter in a round, in front and in the
background, of the voter over its rounds and of all voters together. Source paths below are relative
to `src/src/`.

## The system

| component | state | operations | interaction |
|---|---|---|---|
| `Chain` (lib.rs) | the block tree, owned by the node | `ancestry`, `is_equal_or_descendent_of` | asked by everything below |
| `VoterSet`, weights (voter_set.rs, weights.rs) | sorted voters, total weight, threshold | `new`, `get`, `nth_mod`; saturating `+` and `-` | shared by all rounds of a set |
| `Bitfield`, `Context` (bitfield.rs, round/context.rs) | one bit per voter and phase; equivocation bits | `set_bit`, `merge`, iterators, `weight`, `equivocated` | the vote data of a graph node |
| `VoteGraph` (vote_graph.rs) | nodes for voted blocks, edges that skip the others, heads, base | `insert` (`append`, `introduce_branch`), `adjust_base`, `cumulative_vote`, `find_ancestor`, `find_ghost` | owned by a round |
| `Round` (round.rs), `HistoricalVotes` (lib.rs) | trackers, graph, equivocations, memoised GHOSTs, estimate, finalized, completable, history | `import_prevote`, `import_precommit`, `precommit_ghost`, `finalizing_precommits`, index marks | driven by `VotingRound`, `validate_commit`, catch-up |
| `Commit` (lib.rs) | none | `validate_commit`, compact form | made by `VotingRound::notify`, checked by every peer |
| catch-up (voter/mod.rs) | none | `validate_catch_up`, `instantiate_last_round` | makes a completed round of a peer's or of stored votes |
| `VotingRound` (voter/voting_round.rs) | vote state machine, primary hint, best commit | `poll`, `handle_vote`, `check_and_import_from_commit`, `notify` | reads the previous round through `BridgeState` |
| `BridgeState` (bridge_state.rs) | a round state behind a lock, a waker | `update`, `get` | between two consecutive rounds |
| `PastRounds`, `RoundCommitter` (voter/past_rounds.rs) | background rounds, commit timer and channel | `push`, `update_finalized`, `import_commit`, `poll_next` | owned by the voter |
| `Voter` (voter/mod.rs) | best round, past rounds, last finalized blocks | `new` (restart), `process_incoming` (commits, catch-up), `prune_background_rounds`, `process_best_round` | the top-level future |

What is hard here: votes arrive in any order, twice, contradicting each other, or for blocks that
do not fit the round; a round answers after every vote, incrementally and from memoised searches;
answers given once must not be taken back (finality, completability) or only in one direction (the
estimate); and equivocators, up to a third of the weight, count for every block at once. Above the
round: futures polled in any order, timers that race late messages, a catch-up that skips rounds,
and restarts from stored rounds. `PROJECT.json` lists these hazards at their lines.

What makes each component correct:

- voter set: two supermajorities share more weight than may be faulty, and no weight is lost;
- bitfields and context: a voter counts once per phase, as a voter or as an equivocator;
- vote graph: whatever the order of insertions, every search answers what the votes define;
- round: the state reported is the protocol's function of the votes; finality is never taken back;
  what the estimate rules out stays ruled out, for blocks not yet seen as well;
- commit: what is accepted is justified, what is justified is accepted;
- voting round: at most one vote per phase, none below the last round's estimate; the next round is
  started on a finalized estimate only; no wake-up and no finality notification is lost;
- background round: the next round's view of it is never wrong; it concludes when it may;
- catch-up and stored votes: the round made of them is the round they came from;
- voter: finality is reported upwards along one chain; a round's base is one no correct voter's vote
  can be below; nothing is discarded while it is needed, or kept asleep when it is not;
- all voters together: whatever each of them sees, they finalize on one chain.

## Modules

| module | models | how |
|---|---|---|
| `BlockTree` | trait `Chain` | constants `Block`, `Number`, `Ancestors` with the assumptions of a forest; a pair (hash, number) is the hash |
| `Forest` | - | builds block trees from a parent function for the runs |
| `VoterWeights` | what the protocol uses of a voter set | `Weight` is an additive measure on sets of voters; `Threshold`, `Faulty` |
| `VoterSet`, `VoterSetSpec` | voter_set.rs, weights.rs | `VoterSet::new` as a fold over the list; one action creates a set from any short list |
| `Bitfield`, `Context`, `ContextSpec` | bitfield.rs, round/context.rs | a word is the set of its bit offsets; actions set bits, merge nodes and mark equivocators |
| `VoteGraph`, `VoteGraphSpec` | vote_graph.rs | operators on a record of entries, heads and base; actions insert, memoise a GHOST, move the base |
| `RoundVotes` | round.rs: weights, what is still possible, GHOST | operators on the votes, shared by `RoundSpec`, `Protocol` and `CatchUpValidation` |
| `RoundSpec` | round.rs, abstractly | first vote and equivocation of every voter; the derived state defined from them |
| `Round`, `RoundImports` | round.rs, in detail | a record with the fields of the struct; actions import votes, ask for the precommit-GHOST, mark own votes |
| `Commit`, `CommitValidation` | lib.rs | `validate_commit` over a fresh round; one action receives any commit |
| `CommitExchange` | `VotingRound::notify` and a peer's `validate_commit` | the commit of every reachable round, sent in its compact form |
| `CatchUp` | `validate_catch_up`, `instantiate_last_round` (voter/mod.rs) | folds of imports over a fresh round; the result is a set, as the graph's searches may have several answers |
| `CatchUpValidation` | `validate_catch_up` on anything | extends `CommitValidation`: one action receives any catch-up |
| `RoundTransfer` | a round's votes sent as a catch-up, or stored and replayed | every reachable round of `RoundImports` |
| `VotingRound` | voter/voting_round.rs, bridge_state.rs, `Buffered` | the votes are the variables of `RoundSpec`; a poll is cut into its drains, casting, flushing and reporting, between which the surroundings act |
| `BackgroundRound` | voter/past_rounds.rs, the start of a next round in voter/mod.rs | extends `VotingRound`: the committer's turn after each poll, its timer and channel, `is_done` |
| `World` | `Round::state` and the commits of peers, as a voter meets them | what the votes of consecutive rounds can lead to; shared by `Voter`, which lives in a world, and `Protocol`, which says what worlds there are |
| `Voter` | voter/mod.rs, past_rounds.rs | a round is its state and what `VotingRound` keeps with it; `Voter::poll` is cut into its four calls, and these into messages, rounds and notifications |
| `Protocol` | what all voters do in consecutive rounds | the votes cast; a view is any part of them, with anything from Byzantine voters; the operators of `RoundVotes` say what a view shows |
| `PartLemmas`, `RoundVotesProofs` | - | lemmas about the operators: sums, voters and bits, the graph and its searches; weights, possibility and the GHOST as `RoundSpec` defines them |
| `PartProofs`, `RoundProofs`, `TransferProofs`, `VotingRoundProofs`, `ProtocolProofs`, `VoterProofs` | - | theorems: about `VoterSetSpec`, `ContextSpec` and `VoteGraphSpec`; `Round`; `CommitExchange` and `RoundTransfer`; `RoundSpec`, `VotingRound` and `BackgroundRound`; `Protocol`; `Voter` |

The `MC...` modules give the constants their values. Definitions introduced with "Slip:" are not
part of any specification. Each is a plausible mistake in the definition that follows it, kept to
show that a property depends on that definition (`mutants` in `PROJECT.json`).

Modelling decisions:

- The descendents of a graph node are a set. In the code they are a list in insertion order, and
  `find_ghost` takes the first that fits; the model returns the set of all possible answers, so a
  property that holds of all of them holds of the code.
- The cumulative vote of a node is a set of votes in `VoteGraph` and a set of bit positions in
  `Round`; `WeightIsExact` in the run `weights`, and the theorem `VotersCountOnce`, show that this
  reading weighs what the bitfields weigh.
- `import_prevote` and `import_precommit` count a vote before `graph.insert` can refuse it. The
  refused vote stays in the tracker and nothing is recomputed; `Round` and `RoundSpec` both do so.
- A third distinct vote of a voter is neither a duplicate nor reported as an equivocation
  (`VoteTracker::add_vote`). The early return of `validate_commit` for a voter's second equivocation
  (lib.rs:499) is in the model and is never taken.
- A ballot is a target and a signature: the same target with another signature is an
  equivocation, as in `VoteMultiplicity::contains`.
- `validate_commit` can return an error of the import. It is the outcome `failed`;
  `ValidIsJustified` shows that the base check before the loop excludes it.
- The task of a round is polled when it was woken (`voter.woken`). A timer, the best-chain future or
  the sink wakes it only if a poll has asked that future since it was made (`voter.armed`), so that
  a branch that returns without asking is told apart from one that asks. Every poll asks the message
  stream and the bridge, which therefore always wake.
- An error of the environment may come at every `?`. The voting state was taken at that point and is
  not put back; the voter ends (`pc = "failed"`).
- The last round is its state in the bridge, which changes as `Follows` allows. `BridgeIsSafe` shows
  that this is what a round pushes. `PriorView::update` and `LatterView::get` are two steps each
  (write, wake; register, read), because nothing but the lock orders the two rounds' threads.
- `Voter` does not count votes. What the votes of each round can lead to, and which commits exist, is
  a constant (a world); a round moves through these states as `MonotoneRound` allows. Worlds must
  satisfy `WorldsAssumption`: what is final in a round is at or below every later estimate, all that
  is final is on one chain, that of the genesis block, and a state is one that a round can report.
  This is a theorem about the votes: `VotesMakeAWorld` says that at any time the states which views
  of the votes have, the blocks that are final and the bases make such a world.
- In `Voter`, a round whose state is pushed to the next one reaches it in the same step
  (`BackgroundRound` has the steps between), a poll of the best round is one step, and past rounds
  are polled while one of them has something to do (`DoneIsWoken` shows that they are then awake).
- A catch-up or commit that validation refuses is one with nothing in it: `CatchUpIsExact`,
  `ValidIsJustified` and `JustifiedIsValid` say which are refused.
- A restart finds what the environment was given: the last completed round (updated when it is
  concluded) and the last finalized block. Whether the stored votes complete the round is a choice,
  as they are the node's affair; if not, the state of genesis stands for it, as in `Voter::new`.
- `Protocol` has no order of polls: a correct voter may prevote any block at or above any estimate
  that some view shows, and precommit any prevote-GHOST that some view shows above it. This is more
  than the code allows, which adds a base, a primary and timers; safety does not rest on these.
- `Sent`: what reached the sink may come back as a signed message, any time or never.
- `IsValidCommit` in `BackgroundRound` is what `ValidIsJustified` and `JustifiedIsValid` say of
  `validate_commit`, with voters that precommit twice in a commit counted for every block.
- The import of a commit has no base check. A voter's first precommit below the base is counted, then
  refused by the graph, and the error ends the voter; a second one is an equivocation, which is not put
  into the graph: it is recorded and the round goes on (`IsRefused`).

Assumptions, from the documentation of the traits: signatures are verified before a message reaches
the library; all blocks of imported votes are known to the chain; the number of a vote's target is
that of its hash. `RoundSpec` assumes in addition that the voters that equivocate, or vote for a
block not at or above the base, weigh at most `Faulty`. Without this no property of finality holds.
`RoundImports` assumes no such bound, only that ballots of correct voters are above the base;
`RoundTransfer` adds the bound (`RoundTransferAssumption`), because with more equivocators two forks
can each have a supermajority, and the order of votes decides between them. `Protocol` makes the same assumption, with the Byzantine voters named.
`VoteGraphSpec` assumes that two sets of votes with the threshold have a vote in common
(`QuorumAssumption`): the memoised search of a round is for two thirds of the weight, and with less
there is no one block for it to find. `VoterSetSpec` assumes that ids and weights are numbers and that
`None` is not a half-counted set (`ListAssumption`, `NoSetAssumption`).

## Runs

Fairness is assumed in `VotingRound` and `BackgroundRound`, and used by `voting_liveness`
and `background_finality`: a woken task is polled and a poll runs to its end (an executor does
that, and nothing in poll blocks); the last round's thread wakes after it has written; timers expire,
the best chain is found and a pending sink makes progress (the trait asks that of the environment).
Nothing is assumed of messages and commits: they may never come. The messages of these two runs are
ones a round keeps, so none of them can arrive again and again to keep a drain from ending. `Voter`
assumes the same of its own task and of the commit timers, and nothing of messages, votes and
restarts; `voter_incoming` uses it.

Deadlock is not checked where the inputs are finite and the system simply stops when all have
arrived, or where it waits for messages that need not come.

| run | configuration | shows |
|---|---|---|
| `round_spec` | base with two children and a block below it; weights 4, 7, 3 of threshold 10, the lightest voter faulty | the properties below and the inductive invariant, with refused votes and equivocations |
| `vote_graph` | eight blocks with forks at three heights, five votes, threshold three, votes interchangeable | shape, votes and searches after every order of insertions, with a base that moves down once |
| `weights` | lists of up to three entries over three ids and five weights, maximum 11; one set's voters over words of four bits, two nodes | all totals up to the maximum and overflow at every position; bitfields of no, one and two words against each other |
| `round` | base, a child and two forks, a block below the base; the voters of the tests; a stranger; three electorates: honest votes on both forks with an equivocator's, the same with refused votes, and one voter's votes with two signatures in all orders | `Round` implements `RoundSpec`; the records of a vote agree; what its votes make of a commit, a catch-up and a replay |
| `messages` | up to four of eight precommits, any target; catch-ups of up to three prevotes and three precommits out of five signed votes, two bases | what `validate_commit` and `validate_catch_up` accept, and the round made |
| `voting_round` | the chain a, b, a fork c and a block below the base; weights 4, 7, 3; the last round's estimate moves from b to a | the voter's own votes, the hint, completion and the bridge |
| `voting_liveness` | the chain; two voters of weights 1 and 3 | no wake-up is lost, finality is reported |
| `background_round` | the chain and a block below the base; weights 4, 7, 3; commits of peers | the next round's view is safe, also when a commit's import fails half-way; a finished round is woken |
| `background_finality` | the chain; weights 4, 7, 3 | finding, below |
| `voter` | three rounds on a chain of three blocks and a branch; two worlds, in which an estimate moves back and a later round goes on along the chain or on the other branch; one message waiting, one restart | finality, bases, commits sent, conclusions and restarts |
| `voter_incoming` | as `voter`, the chain only, no restart | finding, below |
| `protocol` | four voters of equal weight, one Byzantine; two rounds; a chain of three blocks and a branch | agreement and what it rests on |

Why the bounds are enough to be interesting: weights 4, 7 and 3 make the supermajority depend on
who votes (7 + 3 is one, 4 + 3 is not) and the tolerated weight 4 exceeds the faulty voter's 3, so
that equivocations can both be seen and still be expected. Two forks above the base are the least
on which a prevote-GHOST is below the votes, an estimate below the prevote-GHOST, and an
equivocator's vote on the wrong side. In the vote graph five votes over forks at three heights reach
merge points inside edges, branches introduced on the edges of two descendents at once, and memoised
blocks that later become nodes. In `round` the view leaves the history out, which
nothing in the round reads, except with the third electorate, where the order of votes is part of
the state. The symmetry in `vote_graph`, `weights` and `protocol` exchanges votes, nodes and correct
voters that no definition tells apart.

In `voting_round` the estimate of the last round is above what is finalized there, so that the
voter has to wait, and moves back while a poll is under way; in `voting_liveness` it is then finalized
there; bob's hint is on the right chain or on
the fork. One message waits at a time (`MaxInbox`): a drain handles messages one by one, and
between the two drains any number can arrive.

In `voter` three rounds let a catch-up skip one that a past round and a commit still concern, and the
worlds are chosen so that the estimate of a discarded round may be on another branch than the block
that discards it. In `protocol` two rounds are what one step of the induction over rounds needs: a
round in which something is final and one built on its estimates; three rounds on three blocks pass
the time a run is given.

Properties:

- `FinalizedBelowEstimate`, `EstimateBounds`, `MonotoneRound`, `ImpossibleForGood` (RoundSpec): a
  finalized block is never ruled out; a completable round's estimate bounds everything that can
  still get a supermajority, unseen blocks included; GHOST and finality only rise, the estimate of a
  completable round only falls; what is ruled out stays so.
- `GraphShape`, `VotesExact`, `AncestorSearchExact`, `GhostFromMemoExact`, `GhostFromAnyStart`
  (VoteGraphSpec): the compressed graph answers as the plain block tree with its votes would, also
  when a search starts from a stale memo or its condition holds on two forks.
- `NewIsExact`, `ThresholdIsTight` (VoterSetSpec); `WeightIsExact` (ContextSpec).
- `ImplementsRoundSpec`, `VotesAgree` (RoundImports): the code's incremental round is the defined
  one; trackers, graph, equivocation bits and history are the same votes (`HistoryIsExact`).
- `ValidIsJustified`, `JustifiedIsValid` (CommitValidation);
  `CommitCarriesSupermajority`, `PeerAcceptsCommit` (CommitExchange).
- `CatchUpIsExact` (CatchUpValidation): a catch-up is accepted exactly if its votes, each voter's
  first one and the equivocations, define a completable round, and makes that round; `RebuiltIsSame`,
  `CatchUpIsAccepted` (RoundTransfer): a completable round survives storage and transfer unchanged.
- `VotesOnce`, `VotesAboveLastEstimate`, `CompletedIsFinalized`, `BridgeIsCurrent`, `BridgeIsSafe`,
  `PrecommitsEventually`, `FinalityReported` (VotingRound); `DoneIsWoken` (BackgroundRound).
  `FinalityReported` holds of a round as long as its votes come through its own message stream, and
  fails once commits are imported as well.
- `FinalizesUpward`, `BaseIsFinalized`, `SentIsFinalized` (Voter): of all sources of finality, each
  block is reported once and along one chain, a base is reported by the end of the poll, and a commit
  is sent only for a block finalized here. `BaseBelowEstimates`: no correct voter's vote in a round is
  below its base. `NeverReturns`: no round is entered twice, over catch-up and restart.
  `ConcludedIsFinalized`: what is final in a completable round when it is discarded is finalized.
  `NoneLeftBehind`: no past round sleeps on although a later one finalized its estimate.
- `FinalityAgrees`, `EstimatesAboveFinal` (Protocol).

`PeerAcceptsCommit` is worth reading: the commit of a correct round, although justified, is rejected
by `validate_commit` when an equivocator's vote in it is on another fork than the rest (there is no
common base), or when precommits have a supermajority above the block finalized (the sender's
prevote-GHOST is lower). The run shows that these are the only two cases.

Three more observations, from states the runs pass through:

- `handle_vote` leaves out a vote that does not descend from the base, `check_and_import_from_commit`
  does not: an equivocator's second vote can enter by a commit, is in the history, and would be
  ignored when the history is replayed. `RebuiltIsSame` and `CatchUpIsAccepted` therefore speak of
  rounds whose votes are all above the base.
- The comment in `notify` (voting_round.rs:757) wants that a round is never created again with a base
  finalized in it or after. The base of a restarted round comes from `last_finalized`, which a commit
  for that round can have moved before the round was stored as completed; `BaseBelowEstimates`
  excepts the base that `Voter::new` was given.
- `is_done` maps a missing estimate to true, so that a round skipped by a catch-up is concluded
  without having completed: `Environment::concluded` can be called for a round for which `completed`
  never was. `ConcludedIsFinalized` speaks of completable rounds.

### Findings

`background_finality`: a comment (voting_round.rs:749) says "notify when new blocks are finalized".
`notify` compares the states at the start and at the end of one poll, while `RoundCommitter` imports a
peer's commit after the poll, so that what the commit changed is in both states of the next one. The
run shows a round that has reported a and then imports a commit whose precommits finalize b: b is
never reported, and this round does not make the voter call `Environment::finalize_block` for it. The
update of the next round's view in `notify` has the same comparison; that view then stays behind,
which `BridgeIsSafe` shows to be harmless.

`voter_incoming`: a comment (voter/mod.rs:636) says "Process all incoming messages from other nodes".
After a refused catch-up `process_incoming` returns (voter/mod.rs:719) instead of going on to the next
message. As the stream has not answered `Pending`, it has no waker; a commit behind the catch-up, or
one that arrives later, waits until a vote or a timer happens to wake the voter. The run shows a
voter that sleeps with a commit in its stream.

## Proofs

Each theorem holds for every `Voter`, `Weight`, `Block`, `Ancestors`, `Base`, `Byzantine` and so on
that satisfy the assumptions of the modules, which TLC evaluates in the runs. The bounds of the runs
(rounds, messages waiting, restarts) are arbitrary in the theorems.

| module | theorem | property |
|---|---|---|
| `PartProofs` | `NewStaysExact`, `ThresholdStaysTight`, `SetsAreWeighed`, `SetsAreVoterSets`, `VotersCountOnce` | `NewIsExact`, `ThresholdIsTight`, `WeighsVoters`, `MakesVoterSets`, `WeightIsExact` |
| `PartProofs` | `GraphInvariant`, `ShapeStays`, `VotesStayExact`, `SearchStaysExact`, `BestStaysFit`, `MemoStaysExact`, `AnyStartStaysExact` | `GraphInv`, `GraphShape`, `VotesExact`, `AncestorSearchExact`, `BestFits`, `GhostFromMemoExact`, `GhostFromAnyStart` |
| `RoundProofs` | `RoundStaysWellMade`, `RecordsStayInAgreement`, `RoundImplementsRoundSpec` | `WellMade`, `VotesAgree`, `ImplementsRoundSpec` |
| `TransferProofs` | `CommitsCarrySupermajority`, `RebuiltRoundsAreSame`, `CatchUpsAreAccepted` | `CommitCarriesSupermajority`, `RebuiltIsSame`, `CatchUpIsAccepted` |
| `VotingRoundProofs` | `RoundInvariant`, `FinalizedIsBelowEstimate`, `EstimateIsBound`, `RoundIsMonotone`, `RuledOutForGood` | `RoundInv` (with `TypeOK`), `FinalizedBelowEstimate`, `EstimateBounds`, `MonotoneRound`, `ImpossibleForGood` |
| `ProtocolProofs` | `ProtocolInvariant`, `EstimatesStayAboveFinal`, `FinalityIsSafe`, `VotesMakeAWorld` | `ProtocolInv`, `EstimatesAboveFinal`, `FinalityAgrees`, `IsWorld(WorldSeen, Base)` |
| `VotingRoundProofs` | `VotingInvariant`, `VotesOnlyOnce`, `VotesStayAboveEstimate`, `CompletionIsJustified`, `BridgeStaysCurrent`, `VotingImplementsRound` | `VotingInv` and `BridgeInv`, `VotesOnce`, `VotesAboveLastEstimate`, `CompletedIsFinalized`, `BridgeIsCurrent`; `VotingSpec => Spec` |
| `VotingRoundProofs` | `BackgroundInvariant`, `BridgeStaysRight`, `DoneStaysWoken`, `VotesStaySafe`, `BackgroundImplementsRound` | `BackgroundInv`, `BridgeIsSafe`, `DoneIsWoken`; the voting properties again; `BackgroundSpec => Spec` |
| `VoterProofs` | `VoterInvariant`, `FinalityRises`, `BaseStaysBelowEstimates`, `BaseGetsFinalized`, `SentStaysFinalized`, `NothingLeftBehind`, `NeverGoesBack`, `ConcludedStaysFinalized` | `VoterInv`, `FinalizesUpward`, `BaseBelowEstimates`, `BaseIsFinalized`, `SentIsFinalized`, `NoneLeftBehind`, `NeverReturns`, `ConcludedIsFinalized` |

Several operators are recursive functions or folds. The library's induction theorems cannot be
used here, so what such a function computes is proved without them: a closed form is exhibited that
satisfies the equation of the recursion, and it is the only function that does, as otherwise there
would be a least element at which another one differs (`SmallestNumber`). What decreases is the height
of a block, the distance from a head, or the length of a list.

### Voter sets

The set is `NewVoterSet` of the list (`SetIsMade`), so that the properties are about one
expression. A sum of weights is the number of its marks, one for every unit of weight of every
entry (`SumIsMarks`), which makes sums additive, monotone and independent of order
(`SumOfUnion`, `SumOfSame`, `SumOfLess`). The loop of `VoterSet::new` has the closed form `Counted`: after
n entries it holds each id's sum over these entries, or has given up if their total overflows
(`CountStep`, `CountAll`). The ids have exactly one ascending order (`OrderExists`,
`InOrderFacts`), and consecutive numbers modulo their count reach all of them (`Residues`). The
threshold is arithmetic (`ThresholdArithmetic`). Two theorems connect this to everything below: every
set that `VoterSet::new` makes is what `VoterWeights` assumes of a voter set (`SetsAreWeighed`) and what
`Round` assumes of one, `IsVoterSet` (`SetsAreVoterSets`).

### Bitfields

The rounds weigh sets of bit positions, the code words of bits. `VotersCountOnce` connects the two for
words of every even size up to 64 and any history of `set_bit` and `merge`. `Positions` reads a
bitfield as a set; `SetBitFacts` and `MergeFacts` say that the two operations, with the words that they
allocate on the way, add exactly the positions they should. A position is in one word at one offset
(`OnePlace`) and has the parity of that offset, as words are even (`ParityOfOffset`). The iterators
therefore yield the positions of their parity, each once (`Iter1sFacts`, `Iter1sMergedFacts` for words
of different counts), and the saturating loop over them adds up the weights of the voters they belong
to (`BitsAddUp`, `BitsWeigh`), a position beyond the last voter adding nothing. The invariant is
`CtxInv`: a bitfield has exactly the bits of the votes and marks of its history.

### The vote graph

`GraphInv` determines the graph from its nodes: a node's edge lists the chain down to the highest
node below it, descendents are the edges reversed, the heads are the nodes without one, and the
cumulative vote of a node is the votes cast at and above it; nodes are the base, the first base and
the targets of votes, or blocks that the base was moved to. Its preservation has a lemma for each
way to change the graph: `AppendFits`, `IntroduceFits` (the edges that contain the new node are cut at it, and
its descendents are exactly the nodes they belong to), `AddVoteFits`, `AdjustFits`. The searches are then
read off the invariant:

1. the walks from the heads find exactly the nodes whose edge contains a block (`Containing`), so that
   `cumulative_vote` is exact off the nodes as well (`CumulativeIsExact`);
2. `find_ancestor` steps from block to block down the chain (`BlockBelowFacts`, `SearchExact`);
3. in `find_ghost`, the climb from a node takes a step exactly while two descendents meet at a block whose
   votes suffice (`MergeExact`, `ClimbEnds`, `ClimbGoes`), and the descent ends at nodes from which
   no single descendent suffices (`SearchDescends`, `GhostsFromNext`); with a condition that more votes
   cannot make false, no block above the answer satisfies it (`SearchFinds`);
4. a memoised answer stays in the graph and keeps its votes (`BestFits`), so that starting from it loses
   nothing; that there is only one answer needs `QuorumAssumption` (`CandidatesOnOneChain`).

### A round

The properties are not inductive by themselves. A vote refused by the graph changes the weights but
not the derived state, so `estimate`, `finalized` and `completable` cannot be said to equal their
definition; `RoundInv` bounds them instead: everything above the estimate on the chain to the
prevote-GHOST is impossible (`EstimateHighest`), a completable round has a supermajority of
precommits and nothing above its prevote-GHOST is possible beyond the estimate
(`CompletableBounds`), a finalized block has its supermajority below the prevote-GHOST
(`FinalizedHeavy`), the prevote-GHOST has one of prevotes (`GhostHeavy`), and only faulty voters
equivocate or leave the base's chain (`EquivocatorsVoted`, `HonestOnChain`). The argument:

1. weights: monotone, additive, and any two supermajorities share more than `Faulty`
   (`QuorumIntersection`);
2. possibility in numbers (`Reach`): it is inherited downwards (`PossibleBelow`), implied by a
   supermajority (`HeavyIsPossible`), excluded for unvoted blocks (`UnvotedIsImpossible`), true of the
   base (`BaseIsPossible`), and not created by a vote or a tolerated equivocation
   (`FirstVoteRulesOut`, `EquivocationRulesOut`);
3. every step only adds votes (`VotesGrow`);
4. two blocks with a supermajority of prevotes have a common vote above them, so a new
   prevote-GHOST is above the old one (`CommonVoter`, `SearchRises`);
5. `update` keeps its results in bounds, in each of its three cases, and so does leaving them alone
   (`UpdateBounds`, `StaleIsBounded`).

The voters are finitely many (`VotersAssumption`), so that the searches for the prevote-GHOST and the
estimate have an answer (`HighestExists`, `GhostExists`): the numbers of the voted blocks are
bounded, although the block tree need not be finite.

### The round in detail

`Round` has a vote in four places: the tracker, which adds up the weight; the vote graph, where it is
a bit in the cumulative vote of every node below it; for a second vote, the bit of the equivocator,
which then counts for every block; and the history. `WellMade` ties them together (`RoundOK`):

- `RoundFits`: a tracker has at most two votes of a voter and weighs each voter once; the
  bits of equivocators are those with two votes; the graph is the graph of `Cast`, which has every
  voter's first vote of a phase if it is above the base. This is `IsVoteGraph`, the invariant of
  `VoteGraphSpec`, so that all lemmas about its searches apply;
- `GhostFits` for both memoised GHOSTs: a block of the graph with a supermajority of its phase, or
  none if the weight never reached the threshold. It is not the current answer, but the search from it gives that;
- `HistoryFits`: each voter's votes are in the history in their order, without a refused first one.

The proof goes up from bits to steps:

1. `VoteNode::weight` folds a saturating sum over positions, which are bits of either phase shifted by
   the parity; a voter has one bit per phase (`BitFacts`), so that what a node weighs is the weight of
   the set of voters who voted at or above it or equivocate (`NodeWeightIsExact`, `WeightOfNode`), and
   nothing saturates, as the whole set does not;
2. hence the condition that the searches go by is the supermajority of `RoundSpec`
   (`SupermajorityIsHeavy`), and `possible_to_precommit`, with its saturating differences, is what
   `RoundVotes` calls possible (`PossibleIsPossible`);
3. the search from any memoised answer yields exactly the GHOSTs of the votes (`SearchIsGhosts`), and
   `find_ancestor` the highest block (`AncestorIsHighest`), among all blocks, although it looks only
   at those in the graph: a block outside has no votes;
4. `update` therefore derives what `RoundSpec` derives (`UpdateFacts`), early returns included;
5. what `add_vote` answers decides which of the four places change (`RecordVoteCases`): nothing, a
   first vote placed, a first vote refused by the graph but counted, an equivocation. Each keeps
   `RoundFits` (`PlacedFits`, `RefusedFits`, `EquivocatedFits`) and the memoised GHOSTs (`GhostsStay`:
   votes are only added);
6. `ImportCases` says of each case which step of `RoundSpec` it is. `RoundImplementsRoundSpec` follows,
   and with it all that is proved of `RoundSpec` holds of `Round`. Marks and the precommit-GHOST
   are stutters.

Assumed is what `Round` names: the voter set is one (`RoundVotersAssumption`, a theorem about
`VoterSet::new`), the block tree is a forest with numbers that rise by one, and ballots are for blocks,
those of correct voters above the base. The electorates are otherwise arbitrary, any number of voters
may be faulty (the theorems about `RoundSpec` and `RoundTransfer` add that they weigh at most
`Faulty`), and ballots arrive in any order and any number of times.

### What leaves a round, and a round made anew

A commit lists `finalizing_precommits` of the finalized block. `CommitsCarrySupermajority` rests on one
more invariant, as the block was finalized earlier and votes have come since: `FinalizedFits`, the
finalized block is in the graph and keeps its supermajority. The signers that the list takes from the
trackers are then enough (`EnoughSigners`), and compacting and expanding moves signatures apart from
votes and back, without loss.

`RebuiltRoundsAreSame` and `CatchUpsAreAccepted` compare two rounds that have the same votes and got
them in different orders. It is not enough that both implement `RoundSpec`: the derived state is
stale after a refused vote, and the searches go on from memoised answers. The argument:

1. for a round with all votes above the base nothing is ever refused, so that the derived state is
   what the votes define (`Settled`), kept by every import (`RoundStaysSettled`);
2. votes define one prevote-GHOST, estimate and finalized block (`OneSettled`): two candidates for a
   GHOST have a supermajority each, hence a common voter, who has voted once unless he equivocates,
   and equivocators weigh at most `Faulty`;
3. the votes listed are exactly those of the round: the history has every vote of every voter, at most
   two (`HistoryLists`), and a catch-up sorts the trackers' votes by voter (`CatchUpLists`);
4. a fold of imports has, after n votes, exactly these n, each voter's in their order (`MadeOf`,
   `HasUpTo`; `HandledInTurn` for the replay of `instantiate_last_round`, `ImportedInTurn` for
   `validate_catch_up`). At the end both rounds have the same first votes and the same equivocators,
   which is all that `Settled` looks at.

Both theorems have the hypothesis `NoneIsNoRound`: the model's `None`, an `Option` of a round here, is
no round. It is a hypothesis and not an `ASSUME` because TLC would have to enumerate all rounds.

### All voters together

`ProtocolInv` says that every vote of a correct voter has its reason: an estimate of the round before
that some view shows and, for a precommit, a prevote-GHOST of its round. A reason stays one because
a view of some votes is a view of more votes (`ViewsGrow`). What is final in round n is then at or
below every estimate of round n (`FinalBelowEstimates`: whatever a view leaves out, the final block
remains possible in it, so that the search for the estimate cannot stop below). If all estimates of a
round are at or above a block, so are all votes of the next round, therefore its prevote-GHOSTs, and
its estimates (`EstimatesCarryOver`); the induction over rounds takes the least round that would
break this (`FinalBelowLaterEstimates`). Agreement follows: two final blocks of one round share a
correct voter, a later one is above the estimates that the earlier one is below (`FinalOnOneChain`).
`VotesMakeAWorld` adds that the state of every view is ordered (finalized below estimate below
prevote-GHOST), which is all that `Voter` asks of a round.
This uses that the voters in `Byzantine` weigh at most `Faulty`, and nothing of timing.

### A voter in a round

`VotingInv` adds to `RoundInv` what was cast in each voting state and that what waits to be sent is
its tail (`VoterFits`), that a poll goes by a copy of the last round that was right at some time
(`CopyIsPast`), what a finished poll has reported (`ReportStands`), and that the next round's view is
a past state of this one (`BridgeIsSafe`). The last argument needs `RoundIsMonotone`: `Follows` is
transitive and every step of a round keeps it. What is assumed of the last round (`LastStates`,
`Follows`) is thus what the round guarantees to its successor. `BridgeIsCurrent` needs a second
invariant, `BridgeInv`: once a round is bridged its voter is done and its sink empty, so that every
poll that begins also ends with `notify`. The votes change only by steps of `RoundSpec`
(`VotingStepIsRoundStep`), so that every theorem about a round holds of a voting round.

In the background the committer adds votes between polls, and a commit's import may fail half-way;
`BackgroundInv` shows that `VotingInv` is kept, but not `BridgeInv`: a commit changes the round after
its poll has notified, which is the cause of the finding in `background_finality`.

### The voter

`VoterInv` has one conjunct for each thing that the calls of a poll leave to one another:

- `ReportsAreFinal`: all that reports finality (notifications, commits of peers, rounds brought by
  catch-ups, what is stored) reports a block that is final in some round;
- `ReportsAreKnown`, `BaseIsReported`: what a round has reported, and the base of the next round, is
  finalized or waits as a notification, or a past round that a catch-up has brought will report it in
  its first poll. This is what `BaseIsFinalized` and `SentIsFinalized` need, and where the order of
  the calls in `Voter::poll` matters;
- `PastIsTold`: a past round was told of what later rounds have reported, or a notification waits;
- `NothingIsLeft`: which of these waits can be over at which point of the poll;
- `BaseBelowEstimates` itself, `RunsOrDown`, `StatesOfWorld` and the types.

`FinalizeFacts` is the main lemma: a final block is on one chain with the last finalized block, so
that comparing numbers, as the code does, compares blocks (`HigherIsAbove`). `FinalizesUpward` and
`ConcludedIsFinalized` are this lemma again. The commits that a past round imports in one poll are a
path of states, and a least state that is not completable shows that none is (`ImportsKeepState`).
Assumed is `WorldsAssumption`, which `VotesMakeAWorld` proves of the worlds that voters make. `VoterInv` itself was also model-checked, on the
instance of the run `voter`.

### Only model-checked

- What a peer says of a commit or a catch-up that need not come from a correct round:
  `PeerAcceptsCommit`, `ValidIsJustified`, `JustifiedIsValid` and `CatchUpIsExact`.
- `PrecommitsEventually`, `FinalityReported` and `IncomingIsProcessed`: the prover does not handle
  liveness under fairness.
- The violations of the two findings, which are behaviours and not theorems.

## Not modelled

Codec, logging, the voter-state report, the test network and the fuzz targets; the embedding node
beyond what it may answer. Of `Voter`: an error of the environment is the crash that it amounts to,
`voter_state` only reads, and the callbacks with which a message's outcome is reported only report.
`Protocol` leaves out bases, timers and the primary, as said above; liveness of the protocol is not
stated, as it needs assumptions on message delays that no code here makes.

## Plan

1. Proofs: what `validate_commit` and `validate_catch_up` accept of anything, for which
   `TransferProofs` has the folds of imports.
2. Several observers of one round's votes: the claims of fuzz_helpers.rs that all of them complete
   the round with estimates on one chain, and that all votes make a round completable.
3. `Voter` over the detailed rounds instead of their states, on an instance small enough.
