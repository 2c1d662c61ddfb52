---------------------------- MODULE VoterProofs ----------------------------
(***************************************************************************)
(* Proofs about the voter: for every block tree, every number of rounds    *)
(* and every world that satisfies WorldsAssumption, with any number of     *)
(* messages waiting and of restarts, VoterInv is an invariant, and the     *)
(* safety properties of Voter follow from it.                              *)
(***************************************************************************)
EXTENDS Voter, WellFoundedInduction, TLAPS

-----------------------------------------------------------------------------
(* Blocks and worlds *)

\* "At or above" is transitive.
LEMMA BelowBelow ==
    ASSUME NEW a \in Block, NEW b \in Block, NEW c \in Block, a \in Ancestors[b], b \in Ancestors[c]
    PROVE  a \in Ancestors[c]
BY BlockTreeAssumption

\* Numbers rise along a chain.
LEMMA NumbersRise ==
    ASSUME NEW a \in Block, NEW b \in Block, a \in Ancestors[b]
    PROVE  /\ Number[a] \in Nat /\ Number[b] \in Nat /\ Number[a] <= Number[b]
           /\ a # b => Number[a] < Number[b]
BY BlockTreeAssumption

\* On one chain the higher number is above.
LEMMA HigherIsAbove ==
    ASSUME NEW a \in Block, NEW b \in Block, OnOneChain(a, b), Number[a] <= Number[b]
    PROVE  a \in Ancestors[b]
<1>1. CASE a \in Ancestors[b]
  BY <1>1
<1>2. CASE b \in Ancestors[a]
  BY <1>2, NumbersRise, BlockTreeAssumption
<1> QED  BY <1>1, <1>2 DEF OnOneChain

\* The members of a world have their types, and its states are states of a round.
LEMMA WorldTypes ==
    ASSUME NEW w \in Worlds, NEW n \in Round
    PROVE  /\ w.states[n] \subseteq RoundStates /\ Blank \in w.states[n]
           /\ w.bases[n] \subseteq Block /\ w.commits[n] \subseteq Block
           /\ FinalOf(w, n) \subseteq Block
           /\ \A s \in w.states[n] : IsState(s)
<1>1. /\ w.states[n] \subseteq RoundStates /\ w.commits[n] \subseteq Block /\ w.bases[n] \subseteq Block
      /\ Blank \in w.states[n] /\ \A s \in w.states[n] : IsState(s)
  BY WorldsAssumption DEF IsWorld
<1>2. \A s \in RoundStates : s.finalized # None => s.finalized \in Block
  BY DEF RoundStates, OptionBlock
<1>3. FinalOf(w, n) \subseteq Block
  BY <1>1, <1>2 DEF FinalOf
<1> QED  BY <1>1, <1>3

\* All that is final is on one chain with everything else that is, and with Genesis.
LEMMA FinalOnOneChain ==
    ASSUME NEW w \in Worlds, NEW n \in Round, NEW m \in Round, NEW f \in FinalOf(w, n), NEW g \in FinalOf(w, m)
    PROVE  OnOneChain(f, g) /\ OnOneChain(f, Genesis)
<1> USE VoterAssumption DEF Round
<1>1. CASE n <= m
  BY <1>1, WorldsAssumption DEF IsWorld
<1>2. CASE m <= n
  BY <1>2, WorldsAssumption DEF IsWorld, OnOneChain
<1> QED  BY <1>1, <1>2

\* What is final in a round is at or below the later estimates.
LEMMA FinalBelowEstimates ==
    ASSUME NEW w \in Worlds, NEW n \in Round, NEW m \in Round, n <= m, NEW f \in FinalOf(w, n),
           NEW s \in w.states[m], s.completable
    PROVE  s.estimate \in Block /\ f \in Block /\ f \in Ancestors[s.estimate]
<1> USE VoterAssumption DEF Round
<1>1. f \in Ancestors[s.estimate]
  BY WorldsAssumption DEF IsWorld
<1>2. s \in RoundStates /\ IsState(s) /\ f \in Block
  BY WorldTypes
<1> QED  BY <1>1, <1>2 DEF IsState, RoundStates, OptionBlock

\* A least number with a property.
LEMMA LeastNumber ==
    ASSUME NEW T \in SUBSET Nat, T # {}
    PROVE  \E n \in T : \A m \in T : n <= m
<1>1. PICK n \in T : \A m \in T : ~ (<<m, n>> \in OpToRel(<, Nat))
  BY NatLessThanWellFounded, WFMin
<1>2. \A m \in T : ~(m < n)
  BY <1>1 DEF OpToRel
<1> QED  BY <1>2

-----------------------------------------------------------------------------
(* Rounds *)

\* The states a round may have.
LEMMA StateTypes ==
    /\ Blank \in RoundStates
    /\ \A b \in Block : GenesisState(b) \in RoundStates
    /\ \A s \in RoundStates :
           /\ s.prevote_ghost \in OptionBlock /\ s.estimate \in OptionBlock /\ s.finalized \in OptionBlock
           /\ s.completable \in BOOLEAN
BY DEF Blank, GenesisState, RoundStates, OptionBlock

\* A new round, a completed one, and one that is pushed to the background.
LEMMA RoundTypes ==
    /\ \A b \in Block, last \in RoundStates \union {None} :
           /\ NewRound(b, last) \in RoundRecords
           /\ NewRound(b, last).base = b /\ NewRound(b, last).state = Blank
           /\ NewRound(b, last).best_finalized = None /\ NewRound(b, last).finalized_number = 0
    /\ \A b \in Block, s \in RoundStates :
           /\ CompletedRound(b, s) \in RoundRecords
           /\ CompletedRound(b, s).state = s /\ CompletedRound(b, s).last = None
           /\ CompletedRound(b, s).best_finalized = None /\ CompletedRound(b, s).finalized_number = 0
    /\ \A r \in RoundRecords :
           /\ Pushed(r) \in RoundRecords
           /\ Pushed(r).state = r.state /\ Pushed(r).best_finalized = r.best_finalized
           /\ Pushed(r).base = r.base /\ Pushed(r).last = r.last
           /\ Pushed(r).committer = "new" /\ Pushed(r).finalized_number = 0
<1>1. <<>> \in Seq(OptionBlock)
  OBVIOUS
<1>2. \A b \in Block, last \in RoundStates \union {None} :
          /\ NewRound(b, last) \in RoundRecords
          /\ NewRound(b, last).base = b /\ NewRound(b, last).state = Blank
          /\ NewRound(b, last).best_finalized = None /\ NewRound(b, last).finalized_number = 0
  BY <1>1, StateTypes DEF NewRound, RoundRecords, OptionBlock
<1>3. \A b \in Block, s \in RoundStates :
          /\ CompletedRound(b, s) \in RoundRecords
          /\ CompletedRound(b, s).state = s /\ CompletedRound(b, s).last = None
          /\ CompletedRound(b, s).best_finalized = None /\ CompletedRound(b, s).finalized_number = 0
  BY <1>1, StateTypes DEF CompletedRound, NewRound, RoundRecords, OptionBlock
<1>4. \A r \in RoundRecords :
          /\ Pushed(r) \in RoundRecords
          /\ Pushed(r).state = r.state /\ Pushed(r).best_finalized = r.best_finalized
          /\ Pushed(r).base = r.base /\ Pushed(r).last = r.last
          /\ Pushed(r).committer = "new" /\ Pushed(r).finalized_number = 0
  BY DEF Pushed, RoundRecords
<1> QED  BY <1>2, <1>3, <1>4

\* A poll of a round changes its state, the voting and what it has reported.
LEMMA PolledTypes ==
    ASSUME NEW r \in RoundRecords, NEW t \in RoundStates, NEW voting \in {"Voting", "Precommitted", "None"}
    PROVE  /\ Polled(r, t, voting) \in RoundRecords
           /\ Polled(r, t, voting).state = t
           /\ Polled(r, t, voting).base = r.base
           /\ Polled(r, t, voting).last = r.last
           /\ Polled(r, t, voting).committer = r.committer
           /\ Polled(r, t, voting).finalized_number = r.finalized_number
           /\ Polled(r, t, voting).best_finalized =
                 IF Reports(r, t, voting) THEN t.finalized ELSE r.best_finalized
<1>1. Reports(r, t, voting) => t.finalized \in Block
  BY StateTypes DEF Reports, OptionBlock
<1> QED  BY <1>1 DEF Polled, RoundRecords, OptionBlock

\* Commits imported one after the other leave the round in a state that its votes lead to, and
\* completable if it was.
LEMMA ImportsKeepState ==
    ASSUME VoterTypeOK, NEW n \in DOMAIN rounds, NEW s, s.last_commit \in OptionBlock,
           s.state \in world.states[n], NEW u \in ImportedAll(n, s)
    PROVE  /\ u.state \in world.states[n] /\ u.last_commit \in OptionBlock
           /\ s.state.completable => u.state.completable
<1> DEFINE commits == rounds[n].import_commits
           seen == [state : world.states[n], last_commit : {s.last_commit} \union {commits[i] : i \in DOMAIN commits}]
<1>1. n \in Round /\ world \in Worlds /\ rounds[n] \in RoundRecords
  BY VoterAssumption DEF VoterTypeOK, Round
<1>2. commits \in Seq(OptionBlock) /\ Len(commits) \in Nat
  BY <1>1 DEF RoundRecords
<1>3. PICK path \in [0 .. Len(commits) -> seen] :
          /\ path[0] = s /\ \A i \in 1 .. Len(commits) : path[i] \in Imported(n, path[i - 1], commits[i])
          /\ u = path[Len(commits)]
  BY DEF ImportedAll, ImportPaths
<1>4. u \in seen
  BY <1>2, <1>3
<1>5. u.state \in world.states[n] /\ u.last_commit \in OptionBlock
  <2>1. \A i \in DOMAIN commits : commits[i] \in OptionBlock
    BY <1>2
  <2> QED  BY <1>4, <2>1
<1>6. ASSUME s.state.completable PROVE u.state.completable
  <2> DEFINE stopped == {i \in 0 .. Len(commits) : ~path[i].state.completable}
  <2>1. SUFFICES ASSUME stopped # {} PROVE FALSE
    BY <1>2, <1>3, <2>1
  <2>2. PICK k \in stopped : \A i \in stopped : k <= i
    <3>1. stopped \in SUBSET Nat
      BY <1>2
    <3> HIDE DEF stopped
    <3> QED  BY LeastNumber, <3>1, <2>1
  <2>3. k \in 1 .. Len(commits) /\ k - 1 \in 0 .. Len(commits) /\ path[k - 1].state.completable
    BY <1>2, <1>3, <1>6, <2>2
  <2>4. path[k] \in Imported(n, path[k - 1], commits[k])
    BY <1>3, <2>3
  <2>5. path[k].state = path[k - 1].state \/ MayReach(n, path[k - 1].state, path[k].state)
    BY <2>4 DEF Imported
  <2> QED  BY <2>2, <2>3, <2>5 DEF MayReach, Advances
<1> QED  BY <1>5, <1>6

-----------------------------------------------------------------------------
(* What finalize_block and update_finalized do *)

\* What the environment has finalized last is on one chain with all that is final.
LEMMA ChainOnOneChain ==
    ASSUME VoterTypeOK, ReportsAreFinal, NEW n \in Round, NEW f \in FinalOf(world, n)
    PROVE  f \in Block /\ OnOneChain(f, chain_finalized)
<1>1. world \in Worlds /\ chain_finalized \in Block
  BY DEF VoterTypeOK
<1>2. f \in Block
  BY <1>1, WorldTypes
<1>3. CASE chain_finalized = Genesis
  BY <1>1, <1>2, <1>3, FinalOnOneChain
<1>4. CASE FinalBy(chain_finalized, MaxRound)
  BY <1>1, <1>2, <1>4, FinalOnOneChain DEF FinalBy, Round
<1> QED  BY <1>2, <1>3, <1>4 DEF ReportsAreFinal

\* Only the finalized number of a round is changed.
LEMMA OtherNumber ==
    ASSUME NEW r \in RoundRecords, NEW q \in RoundRecords,
           q = [r EXCEPT !.finalized_number = q.finalized_number]
    PROVE  /\ q.base = r.base /\ q.state = r.state /\ q.last = r.last /\ q.committer = r.committer
           /\ q.best_finalized = r.best_finalized
           /\ r.finalized_number \in Nat /\ q.finalized_number \in Nat
BY DEF RoundRecords

\* Finalize raises the last finalized block to f or leaves it above f, and tells the past rounds.
LEMMA FinalizeFacts ==
    ASSUME VoterTypeOK, ReportsAreFinal, PastIsTold, NEW f, FinalBy(f, MaxRound), Finalize(f)
    PROVE  /\ f \in Block /\ chain_finalized' \in Block
           /\ chain_finalized' = chain_finalized \/ chain_finalized' = f
           /\ chain_finalized \in Ancestors[chain_finalized'] /\ f \in Ancestors[chain_finalized']
           /\ last_finalized_number' = Number[chain_finalized']
           /\ chain_finalized' # chain_finalized => Number[chain_finalized] < Number[chain_finalized']
           /\ rounds' \in [DOMAIN rounds -> RoundRecords]
           /\ \A n \in DOMAIN rounds :
                  /\ rounds'[n] = [rounds[n] EXCEPT !.finalized_number = rounds'[n].finalized_number]
                  /\ rounds[n].finalized_number <= rounds'[n].finalized_number
                  /\ rounds'[n].finalized_number <= last_finalized_number'
           /\ \A n \in Past : Number[f] <= rounds'[n].finalized_number
<1>1. PICK k \in Round : f \in FinalOf(world, k)
  BY DEF FinalBy, Round
<1>2. f \in Block /\ OnOneChain(f, chain_finalized)
  BY <1>1, ChainOnOneChain
<1>3. /\ chain_finalized \in Block /\ last_finalized_number = Number[chain_finalized]
      /\ Number[f] \in Nat /\ Number[chain_finalized] \in Nat
      /\ chain_finalized \in Ancestors[chain_finalized] /\ f \in Ancestors[f]
  BY <1>2, BlockTreeAssumption DEF VoterTypeOK, ReportsAreFinal
<1>4. /\ rounds \in [DOMAIN rounds -> RoundRecords]
      /\ \A n \in DOMAIN rounds : rounds[n] \in RoundRecords /\ rounds[n].finalized_number \in Nat
      /\ \A n \in DOMAIN rounds : rounds[n].finalized_number <= last_finalized_number
  <2>1. \A r \in RoundRecords : r.finalized_number \in Nat
    BY DEF RoundRecords
  <2> QED  BY <2>1 DEF VoterTypeOK, PastIsTold
<1>5. /\ chain_finalized' \in Block
      /\ chain_finalized' = chain_finalized \/ chain_finalized' = f
      /\ chain_finalized \in Ancestors[chain_finalized'] /\ f \in Ancestors[chain_finalized']
      /\ last_finalized_number' = Number[chain_finalized']
      /\ chain_finalized' # chain_finalized => Number[chain_finalized] < Number[chain_finalized']
      /\ last_finalized_number <= last_finalized_number' /\ Number[f] <= last_finalized_number'
  <2>1. CASE Number[f] > last_finalized_number
    <3>1. chain_finalized' = f /\ last_finalized_number' = Number[f]
      BY <2>1 DEF Finalize
    <3>2. chain_finalized \in Ancestors[f]
      BY <1>2, <1>3, <2>1, HigherIsAbove DEF OnOneChain
    <3> QED  BY <1>2, <1>3, <2>1, <3>1, <3>2
  <2>2. CASE ~(Number[f] > last_finalized_number)
    <3>1. chain_finalized' = chain_finalized /\ last_finalized_number' = last_finalized_number
      BY <2>2 DEF Finalize
    <3>2. f \in Ancestors[chain_finalized]
      BY <1>2, <1>3, <2>2, HigherIsAbove
    <3> QED  BY <1>2, <1>3, <2>2, <3>1, <3>2
  <2> QED  BY <2>1, <2>2
<1>6. rounds' = Told(rounds, Past, f)
  BY DEF Finalize
<1>7. ASSUME NEW n \in DOMAIN rounds
      PROVE  /\ rounds'[n] \in RoundRecords
             /\ rounds'[n] = [rounds[n] EXCEPT !.finalized_number = rounds'[n].finalized_number]
             /\ rounds[n].finalized_number <= rounds'[n].finalized_number
             /\ rounds'[n].finalized_number <= last_finalized_number'
             /\ n \in Past => Number[f] <= rounds'[n].finalized_number
  <2>1. CASE n \in Past /\ rounds[n].finalized_number < Number[f]
    <3>1. rounds'[n] = [rounds[n] EXCEPT !.finalized_number = Number[f]]
      BY <1>6, <2>1 DEF Told
    <3>2. rounds'[n].finalized_number = Number[f] /\ rounds'[n] \in RoundRecords
      BY <1>3, <1>4, <3>1 DEF RoundRecords
    <3> QED  BY <1>3, <1>4, <1>5, <2>1, <3>1, <3>2
  <2>2. CASE ~(n \in Past /\ rounds[n].finalized_number < Number[f])
    <3>1. rounds'[n] = rounds[n]
      BY <1>6, <2>2 DEF Told
    <3>2. rounds[n] = [rounds[n] EXCEPT !.finalized_number = rounds[n].finalized_number]
      BY <1>4 DEF RoundRecords
    <3>3. last_finalized_number \in Nat /\ last_finalized_number' \in Nat
      BY <1>3, <1>5, BlockTreeAssumption
    <3> QED  BY <1>3, <1>4, <1>5, <2>2, <3>1, <3>2, <3>3
  <2> QED  BY <2>1, <2>2
<1>8. DOMAIN rounds' = DOMAIN rounds /\ rounds' = [n \in DOMAIN rounds' |-> rounds'[n]]
  BY <1>6 DEF Told
<1>9. rounds' \in [DOMAIN rounds -> RoundRecords]
  BY <1>7, <1>8
<1> QED  BY <1>2, <1>5, <1>7, <1>9 DEF Past

-----------------------------------------------------------------------------
(* Steps that leave the rounds and what is finalized alone *)

LEMMA TypesOfInv ==
    ASSUME VoterInv
    PROVE  /\ world \in Worlds /\ best \in Round /\ best \in Nat /\ Round \subseteq Nat
           /\ rounds \in [DOMAIN rounds -> RoundRecords] /\ DOMAIN rounds \subseteq Round
           /\ \A n \in DOMAIN rounds : n <= best /\ rounds[n] \in RoundRecords
           /\ \A n \in DOMAIN rounds : rounds[n].state \in world.states[n] /\ rounds[n].state \in RoundStates
           /\ \A n \in Past : n \in DOMAIN rounds /\ n < best /\ n # best
           /\ Past \subseteq DOMAIN rounds
<1>1. /\ world \in Worlds /\ best \in Round /\ DOMAIN rounds \subseteq 1 .. best
      /\ rounds \in [DOMAIN rounds -> RoundRecords]
      /\ \A n \in DOMAIN rounds : rounds[n].state \in world.states[n]
  BY DEF VoterInv, VoterTypeOK, StatesOfWorld
<1>2. Round \subseteq Nat /\ DOMAIN rounds \subseteq Round
  BY <1>1, VoterAssumption DEF Round
<1> QED  BY <1>1, <1>2, WorldTypes DEF Past, Round

LEMMA QuietStep ==
    ASSUME VoterInv, up, UNCHANGED <<up, best, rounds, finalVars, storageVars, lifeVars>>,
           step' \in {"idle", "incoming", "past", "finalized", "flush", "best"}, woken' \in BOOLEAN,
           global_in' \in Seq(Global), global_out' \in Seq(Block),
           \A i \in DOMAIN global_out' : \E j \in DOMAIN global_out : global_out'[i] = global_out[j],
           step' = step \/ (step = "incoming" /\ step' = "past") \/ BaseIsReported',
           NothingIsLeft'
    PROVE  VoterInv'
<1> USE DEF finalVars, storageVars, lifeVars
<1>1. VoterTypeOK'
  BY DEF VoterInv, VoterTypeOK, Global
<1>2. RunsOrDown' /\ StatesOfWorld'
  BY DEF VoterInv, RunsOrDown, StatesOfWorld, Past
<1>3. ReportsAreFinal'
  BY DEF VoterInv, ReportsAreFinal, FinalBy
<1>4. ReportsAreKnown'
  BY DEF VoterInv, ReportsAreKnown, Known
<1>5. BaseIsReported'
  BY DEF VoterInv, BaseIsReported, WillReport, Past
<1>6. BaseBelowEstimates' /\ PastIsTold'
  BY DEF VoterInv, BaseBelowEstimates, PastIsTold, Past
<1> QED  BY <1>1, <1>2, <1>3, <1>4, <1>5, <1>6 DEF VoterInv

\* The surroundings: a message arrives, or a vote or a timer wakes the task.
LEMMA ArrivalKeepsInv ==
    ASSUME VoterInv, (\E m \in Global : GlobalArrives(m)) \/ Wake
    PROVE  VoterInv'
<1> USE DEF finalVars, storageVars, lifeVars
<1>1. global_in \in Seq(Global) /\ global_out \in Seq(Block) /\ asked \in {asked} /\ woken \in BOOLEAN
  BY DEF VoterInv, VoterTypeOK
<1>2. CASE \E m \in Global : GlobalArrives(m)
  <2>1. PICK m \in Global : GlobalArrives(m)
    BY <1>2
  <2>2. /\ up /\ step = "idle" /\ step' = "idle" /\ woken' = (woken \/ asked) /\ global_out' = global_out
        /\ UNCHANGED <<up, best, rounds, finalVars, storageVars, lifeVars>>
        /\ global_in' = Append(global_in, m)
    BY <2>1 DEF GlobalArrives
  <2>3. global_in' \in Seq(Global)
    BY <1>1, <2>2
  <2>4. NothingIsLeft' /\ woken' \in BOOLEAN
    BY <1>1, <2>2 DEF VoterInv, NothingIsLeft, Past, IsDone
  <2> QED  BY <1>1, <2>2, <2>3, <2>4, QuietStep
<1>3. CASE Wake
  <2>1. NothingIsLeft'
    BY <1>3 DEF Wake, VoterInv, NothingIsLeft
  <2> QED  BY <1>1, <1>3, <2>1, QuietStep DEF Wake
<1> QED  BY <1>2, <1>3

\* The steps of a poll that go on to its next part.
LEMMA PassingOnKeepsInv ==
    ASSUME VoterInv, BeginPoll \/ BadCatchUp \/ IncomingDone \/ PastDone \/ NotificationsDone \/ FlushGlobal
    PROVE  VoterInv'
<1> USE DEF finalVars, storageVars, lifeVars
<1>1. global_in \in Seq(Global) /\ global_out \in Seq(Block) /\ woken \in BOOLEAN
  BY DEF VoterInv, VoterTypeOK
<1>2. CASE BeginPoll
  <2>1. BaseIsReported'
    BY <1>2 DEF BeginPoll, VoterInv, BaseIsReported
  <2>2. NothingIsLeft'
    BY <1>2 DEF BeginPoll, NothingIsLeft
  <2> QED  BY <1>1, <1>2, <2>1, <2>2, QuietStep DEF BeginPoll
<1>3. CASE BadCatchUp \/ IncomingDone
  <2>1. NothingIsLeft'
    BY <1>3 DEF BadCatchUp, IncomingDone, NothingIsLeft
  <2>2. global_in' \in Seq(Global)
    BY <1>1, <1>3 DEF BadCatchUp, IncomingDone
  <2> QED  BY <1>1, <1>3, <2>1, <2>2, QuietStep DEF BadCatchUp, IncomingDone
<1>4. CASE PastDone
  <2>1. NothingIsLeft'
    BY <1>4 DEF PastDone, NothingIsLeft, Past, IsDone
  <2>2. BaseIsReported'
    BY <1>4 DEF PastDone, VoterInv, BaseIsReported, WillReport, Past
  <2> QED  BY <1>1, <1>4, <2>1, <2>2, QuietStep DEF PastDone
<1>5. CASE NotificationsDone
  <2>1. NothingIsLeft'
    BY <1>5 DEF NotificationsDone, VoterInv, NothingIsLeft, Past, IsDone
  <2>2. BaseIsReported'
    BY <1>5 DEF NotificationsDone, VoterInv, BaseIsReported
  <2> QED  BY <1>1, <1>5, <2>1, <2>2, QuietStep DEF NotificationsDone
<1>6. CASE FlushGlobal
  <2>1. NothingIsLeft'
    BY <1>6 DEF FlushGlobal, VoterInv, NothingIsLeft, Past, IsDone
  <2>2. BaseIsReported'
    BY <1>6 DEF FlushGlobal, VoterInv, BaseIsReported
  <2>3. PICK k \in 1 .. (Len(global_out) + 1) : global_out' = SubSeq(global_out, k, Len(global_out))
    BY <1>6 DEF FlushGlobal
  <2>4. /\ global_out' \in Seq(Block)
        /\ \A i \in DOMAIN global_out' : \E j \in DOMAIN global_out : global_out'[i] = global_out[j]
    <3>1. Len(global_out) \in Nat /\ k \in Nat /\ k >= 1
      BY <1>1, <2>3
    <3>2. global_out' \in Seq(Block)
      BY <1>1, <2>3, <3>1
    <3>3. ASSUME NEW i \in DOMAIN global_out'
          PROVE  \E j \in DOMAIN global_out : global_out'[i] = global_out[j]
      <4>1. i \in 1 .. (Len(global_out) - k + 1)
        BY <1>1, <2>3, <3>1, <3>3
      <4>2. global_out'[i] = global_out[k + i - 1] /\ k + i - 1 \in DOMAIN global_out
        BY <1>1, <2>3, <3>1, <4>1
      <4> QED  BY <4>2
    <3> QED  BY <3>2, <3>3
  <2> QED  BY <1>1, <1>6, <2>1, <2>2, <2>4, QuietStep DEF FlushGlobal
<1> QED  BY <1>2, <1>3, <1>4, <1>5, <1>6

\* The timer of a commit fires.
LEMMA TimerKeepsInv ==
    ASSUME VoterInv, \E n \in Past : CommitTimer(n)
    PROVE  VoterInv'
<1> USE DEF finalVars, storageVars, lifeVars
<1>1. PICK n \in Past : CommitTimer(n)
  OBVIOUS
<1>2. /\ up /\ step = "idle" /\ rounds[n].committer = "open"
      /\ rounds' = [rounds EXCEPT ![n].committer = "fired"] /\ woken' = TRUE
      /\ UNCHANGED <<up, step, best, finalVars, global_in, asked, global_out, storageVars, lifeVars>>
  BY <1>1 DEF CommitTimer
<1>3. /\ rounds \in [DOMAIN rounds -> RoundRecords] /\ n \in DOMAIN rounds
      /\ [rounds[n] EXCEPT !.committer = "fired"] \in RoundRecords
  <2>1. rounds \in [DOMAIN rounds -> RoundRecords] /\ n \in DOMAIN rounds /\ rounds[n] \in RoundRecords
    BY TypesOfInv
  <2>2. \A r \in RoundRecords : [r EXCEPT !.committer = "fired"] \in RoundRecords
    BY DEF RoundRecords
  <2> QED  BY <2>1, <2>2
<1>4. /\ DOMAIN rounds' = DOMAIN rounds /\ rounds' \in [DOMAIN rounds' -> RoundRecords]
      /\ Past' = Past
      /\ \A m \in DOMAIN rounds : rounds'[m] = IF m = n THEN [rounds[n] EXCEPT !.committer = "fired"] ELSE rounds[m]
  <2>1. DOMAIN rounds' = DOMAIN rounds /\ best' = best
    BY <1>2
  <2>2. \A m \in DOMAIN rounds : rounds'[m] = IF m = n THEN [rounds[n] EXCEPT !.committer = "fired"] ELSE rounds[m]
    BY <1>2
  <2>3. rounds' \in [DOMAIN rounds' -> RoundRecords]
    BY <1>2, <1>3
  <2> QED  BY <2>1, <2>2, <2>3 DEF Past
<1>5. \A m \in DOMAIN rounds :
          /\ rounds'[m].base = rounds[m].base /\ rounds'[m].state = rounds[m].state
          /\ rounds'[m].best_finalized = rounds[m].best_finalized
          /\ rounds'[m].finalized_number = rounds[m].finalized_number
          /\ rounds'[m].committer \in {rounds[m].committer, "fired"}
  BY <1>3, <1>4 DEF RoundRecords
<1> HIDE DEF finalVars, storageVars, lifeVars
<1>6. VoterTypeOK'
  BY <1>2, <1>4 DEF VoterInv, VoterTypeOK, Global, finalVars, storageVars, lifeVars
<1>7. RunsOrDown' /\ StatesOfWorld'
  BY <1>2, <1>4, <1>5 DEF VoterInv, RunsOrDown, StatesOfWorld, Past, finalVars, storageVars, lifeVars
<1>8. ReportsAreFinal'
  BY <1>2 DEF VoterInv, ReportsAreFinal, FinalBy, finalVars, storageVars, lifeVars
<1>9. ReportsAreKnown'
  BY <1>2, <1>4, <1>5 DEF VoterInv, ReportsAreKnown, Known, finalVars, storageVars, lifeVars
<1>10. BaseIsReported'
  BY <1>2 DEF VoterInv, BaseIsReported, finalVars, storageVars, lifeVars
<1>11. BaseBelowEstimates'
  BY <1>2, <1>4, <1>5 DEF VoterInv, BaseBelowEstimates, RunsOrDown, finalVars, storageVars, lifeVars
<1>12. PastIsTold'
  BY <1>2, <1>4, <1>5 DEF VoterInv, PastIsTold, Past, finalVars, storageVars, lifeVars
<1>13. NothingIsLeft'
  BY <1>2 DEF NothingIsLeft
<1> QED  BY <1>6, <1>7, <1>8, <1>9, <1>10, <1>11, <1>12, <1>13 DEF VoterInv

-----------------------------------------------------------------------------
(* The node stops and starts again *)

\* A crash leaves what is stored.
LEMMA CrashKeepsInv ==
    ASSUME VoterInv, Crash
    PROVE  VoterInv'
<1>1. /\ ~up' /\ step' = "idle" /\ woken' = FALSE /\ rounds' = NoRounds
      /\ notifications' = <<>> /\ global_in' = <<>> /\ global_out' = <<>>
      /\ UNCHANGED <<best, last_finalized_number, last_finalized_in_rounds, stored, chain_finalized, world, given>>
  BY DEF Crash, storageVars, lifeVars
<1>2. DOMAIN rounds' = {} /\ rounds' \in [DOMAIN rounds' -> RoundRecords] /\ Past' = {}
  BY <1>1 DEF NoRounds, Past
<1>3. VoterTypeOK'
  <2>1. <<>> \in Seq(Block) /\ <<>> \in Seq(Global')
    OBVIOUS
  <2>2. notifications' \in Seq(Block) /\ global_out' \in Seq(Block) /\ global_in' \in Seq(Global')
    BY <1>1, <2>1
  <2>3. DOMAIN rounds' \subseteq 1 .. best' /\ up' \in BOOLEAN /\ woken' \in BOOLEAN
    BY <1>1, <1>2 DEF Crash
  <2> QED  BY <1>1, <1>2, <2>2, <2>3 DEF VoterInv, VoterTypeOK
<1>4. RunsOrDown' /\ StatesOfWorld'
  BY <1>1, <1>2 DEF VoterInv, RunsOrDown, StatesOfWorld
<1>5. ReportsAreFinal'
  BY <1>1 DEF VoterInv, ReportsAreFinal, FinalBy
<1>6. ReportsAreKnown' /\ BaseIsReported' /\ BaseBelowEstimates' /\ PastIsTold' /\ NothingIsLeft'
  BY <1>1, <1>2 DEF ReportsAreKnown, BaseIsReported, BaseBelowEstimates, PastIsTold, NothingIsLeft
<1> QED  BY <1>3, <1>4, <1>5, <1>6 DEF VoterInv

\* Voter::new starts on the last block it has finalized.
LEMMA RestartKeepsInv ==
    ASSUME VoterInv, NEW available \in BOOLEAN, Restart(available)
    PROVE  VoterInv'
<1>1. /\ ~up /\ up' /\ woken' = TRUE /\ best' = stored.number + 1
      /\ rounds' = NewRounds(available)
      /\ last_finalized_number' = Number[chain_finalized]
      /\ last_finalized_in_rounds' = chain_finalized /\ given' = chain_finalized
      /\ UNCHANGED <<world, step, notifications, global_in, global_out, stored, chain_finalized>>
  BY DEF Restart, storageVars
<1>2. /\ step = "idle" /\ notifications = <<>> /\ global_in = <<>> /\ global_out = <<>> /\ best' = best
      /\ world \in Worlds /\ chain_finalized \in Block /\ stored \in StoredRounds /\ best \in Round /\ best \in Nat
      /\ Number[chain_finalized] \in Nat /\ chain_finalized \in Ancestors[chain_finalized]
      /\ stored.number + 1 = best
      /\ stored.number > 0 => stored.state \in world.states[stored.number]
  BY <1>1, BlockTreeAssumption, VoterAssumption DEF VoterInv, VoterTypeOK, RunsOrDown, StatesOfWorld, Round
<1>3. stored.base \in Block /\ stored.state \in RoundStates /\ stored.number \in Nat
  BY <1>2 DEF StoredRounds
<1> DEFINE n == stored.number
           last == IF Rebuilt(available) THEN stored.state ELSE GenesisState(stored.base)
           next == NewRound(chain_finalized, last)
           pushed == Pushed(CompletedRound(stored.base, stored.state))
<1>4. /\ next \in RoundRecords /\ next.base = chain_finalized /\ next.state = Blank
      /\ next.best_finalized = None /\ next.finalized_number = 0
      /\ pushed \in RoundRecords /\ pushed.state = stored.state /\ pushed.committer = "new"
      /\ pushed.best_finalized = None /\ pushed.finalized_number = 0
  <2>1. last \in RoundStates
    BY <1>3, StateTypes
  <2>2. next \in RoundRecords /\ next.base = chain_finalized /\ next.state = Blank
        /\ next.best_finalized = None /\ next.finalized_number = 0
    BY <1>2, <2>1, RoundTypes
  <2>3. CompletedRound(stored.base, stored.state) \in RoundRecords
        /\ CompletedRound(stored.base, stored.state).state = stored.state
        /\ CompletedRound(stored.base, stored.state).best_finalized = None
    BY <1>3, RoundTypes
  <2>4. /\ pushed \in RoundRecords /\ pushed.state = stored.state /\ pushed.committer = "new"
        /\ pushed.best_finalized = None /\ pushed.finalized_number = 0
    BY <2>3, RoundTypes
  <2> QED  BY <2>2, <2>4
<1>5. /\ DOMAIN rounds' \subseteq {n, n + 1} /\ n + 1 \in DOMAIN rounds'
      /\ n \in DOMAIN rounds' => n > 0 /\ rounds'[n] = pushed
      /\ rounds'[n + 1] = next
      /\ rounds' = [m \in DOMAIN rounds' |-> rounds'[m]]
  <2> HIDE DEF next, pushed
  <2>1. CASE Rebuilt(available)
    <3>1. rounds' = With(With(NoRounds, n, pushed), n + 1, next)
      BY <1>1, <2>1 DEF NewRounds, next, pushed
    <3>2. n > 0 /\ n \in Nat
      BY <1>3, <2>1 DEF Rebuilt
    <3> QED  BY <3>1, <3>2 DEF With, NoRounds
  <2>2. CASE ~Rebuilt(available)
    <3>1. rounds' = With(NoRounds, n + 1, next)
      BY <1>1, <2>2 DEF NewRounds, next
    <3> QED  BY <1>3, <3>1 DEF With, NoRounds
  <2> QED  BY <2>1, <2>2
<1>6. \A m \in DOMAIN rounds' :
          /\ rounds'[m] \in RoundRecords
          /\ rounds'[m].state \in world.states[m]
          /\ rounds'[m].best_finalized = None /\ rounds'[m].finalized_number = 0
          /\ m # best => rounds'[m].committer = "new"
  <2> HIDE DEF next, pushed
  <2>1. best = n + 1 /\ n # n + 1 /\ Blank \in world.states[n + 1]
    BY <1>2, <1>3, WorldTypes
  <2> QED  BY <1>2, <1>4, <1>5, <2>1
<1>7. rounds'[best].base = chain_finalized /\ best \in DOMAIN rounds'
  BY <1>2, <1>4, <1>5
<1>8. DOMAIN rounds' \subseteq 1 .. best /\ rounds' \in [DOMAIN rounds' -> RoundRecords]
  BY <1>2, <1>3, <1>5, <1>6
<1> HIDE DEF n, last, next, pushed
<1>9. VoterTypeOK'
  BY <1>1, <1>2, <1>8 DEF VoterInv, VoterTypeOK, Global
<1>10. RunsOrDown' /\ StatesOfWorld'
  BY <1>1, <1>2, <1>6, <1>7 DEF RunsOrDown, StatesOfWorld, Past
<1>11. ReportsAreFinal'
  BY <1>1, <1>2 DEF VoterInv, ReportsAreFinal, FinalBy
<1>12. ReportsAreKnown' /\ BaseIsReported' /\ BaseBelowEstimates'
  BY <1>1, <1>2, <1>6, <1>7 DEF ReportsAreKnown, BaseIsReported, BaseBelowEstimates
<1>13. PastIsTold'
  BY <1>1, <1>2, <1>6 DEF PastIsTold, Past
<1>14. NothingIsLeft'
  BY <1>1, <1>2 DEF NothingIsLeft
<1> QED  BY <1>9, <1>10, <1>11, <1>12, <1>13, <1>14 DEF VoterInv

-----------------------------------------------------------------------------
(* Commits and notifications *)

\* The messages of peers.
LEMMA MessageKinds ==
    ASSUME NEW m \in Global
    PROVE  \/ \E n \in Round : \E target \in world.commits[n] \union {None} : m = CommitMessage(n, target)
           \/ \E n \in Round : m = CatchUpMessage(n, Genesis, None)
           \/ \E n \in 1 .. (MaxRound - 1) : \E base \in world.bases[n], state \in world.states[n] :
                  m = CatchUpMessage(n, base, state)
BY DEF Global

\* What a step that finalizes f keeps, whether it comes from a commit or a notification.
LEMMA FinalizeKeeps ==
    ASSUME VoterInv, up, NEW f, FinalBy(f, MaxRound), Finalize(f), UNCHANGED <<up, best, world, stored, given>>
    PROVE  /\ rounds' \in [DOMAIN rounds' -> RoundRecords] /\ DOMAIN rounds' = DOMAIN rounds /\ Past' = Past
           /\ \A n \in DOMAIN rounds :
                  /\ rounds'[n].base = rounds[n].base /\ rounds'[n].state = rounds[n].state
                  /\ rounds'[n].last = rounds[n].last /\ rounds'[n].committer = rounds[n].committer
                  /\ rounds'[n].best_finalized = rounds[n].best_finalized
                  /\ rounds[n].finalized_number \in Nat /\ rounds'[n].finalized_number \in Nat
                  /\ rounds[n].finalized_number <= rounds'[n].finalized_number
                  /\ rounds'[n].finalized_number <= last_finalized_number'
           /\ \A n \in Past : Number[f] <= rounds'[n].finalized_number
           /\ chain_finalized' \in Block /\ last_finalized_number' \in Nat
           /\ last_finalized_number' = Number[chain_finalized']
           /\ chain_finalized' = Genesis \/ FinalBy(chain_finalized', MaxRound)
           /\ f \in Block /\ f \in Ancestors[chain_finalized']
           /\ \A b \in Block : b \in Ancestors[chain_finalized] => b \in Ancestors[chain_finalized']
           /\ StatesOfWorld' /\ BaseBelowEstimates'
           /\ woken' \in BOOLEAN /\ (woken => woken') /\ \A n \in Past : IsDone(rounds'[n]) => woken'
<1> USE DEF VoterInv
<1>1. /\ f \in Block /\ chain_finalized' \in Block /\ chain_finalized \in Block
      /\ chain_finalized' = chain_finalized \/ chain_finalized' = f
      /\ chain_finalized \in Ancestors[chain_finalized'] /\ f \in Ancestors[chain_finalized']
      /\ last_finalized_number' = Number[chain_finalized']
      /\ rounds' \in [DOMAIN rounds -> RoundRecords]
      /\ \A n \in DOMAIN rounds :
             /\ rounds'[n] = [rounds[n] EXCEPT !.finalized_number = rounds'[n].finalized_number]
             /\ rounds[n].finalized_number <= rounds'[n].finalized_number
             /\ rounds'[n].finalized_number <= last_finalized_number'
      /\ \A n \in Past : Number[f] <= rounds'[n].finalized_number
  <2>1. VoterTypeOK /\ ReportsAreFinal /\ PastIsTold /\ chain_finalized \in Block
    BY DEF VoterTypeOK
  <2> HIDE DEF VoterInv
  <2> QED  BY <2>1, FinalizeFacts
<1>2. DOMAIN rounds' = DOMAIN rounds /\ Past' = Past
  BY <1>1 DEF Past
<1>3. \A n \in DOMAIN rounds : rounds[n] \in RoundRecords /\ rounds'[n] \in RoundRecords
  BY <1>1, TypesOfInv
<1>4. ASSUME NEW n \in DOMAIN rounds
      PROVE  /\ rounds'[n].base = rounds[n].base /\ rounds'[n].state = rounds[n].state
             /\ rounds'[n].last = rounds[n].last /\ rounds'[n].committer = rounds[n].committer
             /\ rounds'[n].best_finalized = rounds[n].best_finalized
             /\ rounds[n].finalized_number \in Nat /\ rounds'[n].finalized_number \in Nat
  <2>1. rounds[n] \in RoundRecords /\ rounds'[n] \in RoundRecords
        /\ rounds'[n] = [rounds[n] EXCEPT !.finalized_number = rounds'[n].finalized_number]
    BY <1>1, <1>3
  <2> HIDE DEF VoterInv
  <2> QED  BY <2>1, OtherNumber
<1>5. last_finalized_number' \in Nat
  BY <1>1, BlockTreeAssumption
<1>6. chain_finalized' = Genesis \/ FinalBy(chain_finalized', MaxRound)
  BY <1>1 DEF ReportsAreFinal, FinalBy
<1>7. \A b \in Block : b \in Ancestors[chain_finalized] => b \in Ancestors[chain_finalized']
  BY <1>1, BelowBelow
<1>8. StatesOfWorld' /\ BaseBelowEstimates'
  BY <1>2, <1>4 DEF StatesOfWorld, BaseBelowEstimates, RunsOrDown
<1>9. woken' \in BOOLEAN /\ (woken => woken') /\ \A n \in Past : IsDone(rounds'[n]) => woken'
  BY DEF Finalize, VoterTypeOK
<1> QED  BY <1>1, <1>2, <1>4, <1>5, <1>6, <1>7, <1>8, <1>9

\* A commit from a peer goes to its past round, or finalizes its block.
LEMMA ProcessCommitKeepsInv ==
    ASSUME VoterInv, ProcessCommit
    PROVE  VoterInv'
<1> DEFINE m == Head(global_in)
<1>1. /\ up /\ step = "incoming" /\ global_in # <<>> /\ m.kind = "commit" /\ global_in' = Tail(global_in)
      /\ UNCHANGED <<up, step, best, notifications, last_finalized_in_rounds, global_out, stored, world, given>>
  BY DEF ProcessCommit, lifeVars
<1>2. m \in Global /\ global_in' \in Seq(Global')
  <2>1. global_in \in Seq(Global) /\ Global' = Global
    BY <1>1 DEF VoterInv, VoterTypeOK, Global
  <2> QED  BY <1>1, <2>1
<1>3. m.target # None => m.number \in Round /\ m.target \in world.commits[m.number]
  BY <1>1, <1>2, MessageKinds DEF CommitMessage, CatchUpMessage
<1>4. NothingIsLeft'
  BY <1>1 DEF NothingIsLeft
<1>5. Past \subseteq DOMAIN rounds
  BY DEF Past
<1>6. CASE Listens(m.number)
  <2> DEFINE n == m.number
             new == [rounds[n] EXCEPT !.import_commits = Append(@, m.target)]
  <2>1. /\ rounds' = [rounds EXCEPT ![n] = new]
        /\ UNCHANGED <<woken, last_finalized_number, chain_finalized>>
    BY <1>1, <1>6 DEF ProcessCommit
  <2>2. n \in DOMAIN rounds /\ n # best /\ rounds[n] \in RoundRecords /\ m.target \in OptionBlock
        /\ rounds \in [DOMAIN rounds -> RoundRecords]
    <3>1. n \in Past
      BY <1>6 DEF Listens
    <3>2. m.target \in OptionBlock
      <4>1. m.target # None => m.target \in Block
        BY <1>3, TypesOfInv, WorldTypes
      <4> QED  BY <4>1 DEF OptionBlock
    <3> QED  BY <3>1, <3>2, TypesOfInv
  <2>3. new \in RoundRecords /\ new.base = rounds[n].base /\ new.state = rounds[n].state
        /\ new.last = rounds[n].last /\ new.committer = rounds[n].committer
        /\ new.best_finalized = rounds[n].best_finalized /\ new.finalized_number = rounds[n].finalized_number
    <3>1. \A r \in RoundRecords, s \in Seq(OptionBlock) :
              LET q == [r EXCEPT !.import_commits = s]
              IN  /\ q \in RoundRecords /\ q.base = r.base /\ q.state = r.state /\ q.last = r.last
                  /\ q.committer = r.committer /\ q.best_finalized = r.best_finalized
                  /\ q.finalized_number = r.finalized_number
      BY DEF RoundRecords
    <3>2. rounds[n].import_commits \in Seq(OptionBlock)
      BY <2>2 DEF RoundRecords
    <3>3. Append(rounds[n].import_commits, m.target) \in Seq(OptionBlock)
      BY <2>2, <3>2
    <3> HIDE DEF m
    <3> QED  BY <2>2, <3>1, <3>3
  <2> HIDE DEF m, n, new
  <2>4. /\ DOMAIN rounds' = DOMAIN rounds /\ Past' = Past /\ rounds' \in [DOMAIN rounds' -> RoundRecords]
        /\ \A k \in DOMAIN rounds :
               /\ rounds'[k].base = rounds[k].base /\ rounds'[k].state = rounds[k].state
               /\ rounds'[k].last = rounds[k].last /\ rounds'[k].committer = rounds[k].committer
               /\ rounds'[k].best_finalized = rounds[k].best_finalized
               /\ rounds'[k].finalized_number = rounds[k].finalized_number
    <3>1. DOMAIN rounds' = DOMAIN rounds /\ rounds' \in [DOMAIN rounds' -> RoundRecords]
          /\ \A k \in DOMAIN rounds : rounds'[k] = IF k = n THEN new ELSE rounds[k]
      BY <2>1, <2>2, <2>3
    <3> QED  BY <1>1, <2>3, <3>1 DEF Past
  <2>5. VoterTypeOK'
    BY <1>1, <1>2, <2>1, <2>4 DEF VoterInv, VoterTypeOK
  <2>6. RunsOrDown' /\ StatesOfWorld'
    BY <1>1, <1>5, <2>4 DEF VoterInv, RunsOrDown, StatesOfWorld
  <2>7. ReportsAreFinal'
    BY <1>1, <2>1 DEF VoterInv, ReportsAreFinal, FinalBy
  <2>8. ReportsAreKnown'
    BY <1>1, <2>1, <2>4 DEF VoterInv, ReportsAreKnown, Known
  <2>9. BaseIsReported'
    <3>1. \A k \in Past : WillReport(k) => WillReport(k)'
      BY <1>1, <2>4, TypesOfInv DEF WillReport
    <3> QED  BY <1>1, <2>1, <2>4, <3>1 DEF VoterInv, BaseIsReported
  <2>10. BaseBelowEstimates'
    BY <1>1, <2>4 DEF VoterInv, BaseBelowEstimates, RunsOrDown
  <2>11. PastIsTold'
    BY <1>1, <1>5, <2>1, <2>4 DEF VoterInv, PastIsTold
  <2> QED  BY <1>4, <2>5, <2>6, <2>7, <2>8, <2>9, <2>10, <2>11 DEF VoterInv
<1>7. CASE ~Listens(m.number) /\ m.target # None
  <2>1. Finalize(m.target)
    BY <1>7 DEF ProcessCommit
  <2>2. m.target \in Block /\ FinalBy(m.target, MaxRound)
    <3> HIDE DEF m
    <3>1. m.number \in Round /\ m.target \in FinalOf(world, m.number)
      BY <1>3, <1>7 DEF FinalOf
    <3> QED  BY <3>1, TypesOfInv, WorldTypes DEF FinalBy, Round
  <2> HIDE DEF m
  <2>3. /\ rounds' \in [DOMAIN rounds' -> RoundRecords] /\ DOMAIN rounds' = DOMAIN rounds /\ Past' = Past
        /\ \A n \in DOMAIN rounds :
               /\ rounds'[n].base = rounds[n].base /\ rounds'[n].state = rounds[n].state
               /\ rounds'[n].last = rounds[n].last /\ rounds'[n].committer = rounds[n].committer
               /\ rounds'[n].best_finalized = rounds[n].best_finalized
               /\ rounds[n].finalized_number \in Nat /\ rounds'[n].finalized_number \in Nat
               /\ rounds[n].finalized_number <= rounds'[n].finalized_number
               /\ rounds'[n].finalized_number <= last_finalized_number'
        /\ chain_finalized' \in Block /\ last_finalized_number' \in Nat
        /\ last_finalized_number' = Number[chain_finalized']
        /\ chain_finalized' = Genesis \/ FinalBy(chain_finalized', MaxRound)
        /\ \A b \in Block : b \in Ancestors[chain_finalized] => b \in Ancestors[chain_finalized']
        /\ StatesOfWorld' /\ BaseBelowEstimates' /\ woken' \in BOOLEAN
    BY <1>1, <2>1, <2>2, FinalizeKeeps
  <2>4. \A n \in DOMAIN rounds : rounds[n].best_finalized \in OptionBlock
    BY TypesOfInv DEF RoundRecords
  <2>5. VoterTypeOK'
    BY <1>1, <1>2, <2>3 DEF VoterInv, VoterTypeOK
  <2>6. RunsOrDown'
    BY <1>1, <1>5, <2>3 DEF VoterInv, RunsOrDown
  <2>7. ReportsAreFinal'
    BY <1>1, <2>3 DEF VoterInv, ReportsAreFinal, FinalBy
  <2>8. ReportsAreKnown'
    <3>1. \A b \in Block : Known(b) => Known(b)'
      BY <1>1, <2>3 DEF Known
    <3>2. \A i \in DOMAIN global_out : global_out[i] \in Block
      BY DEF VoterInv, VoterTypeOK
    <3> QED  BY <1>1, <2>3, <2>4, <3>1, <3>2 DEF VoterInv, ReportsAreKnown, OptionBlock
  <2>9. BaseIsReported'
    <3>1. \A k \in Past : WillReport(k) => WillReport(k)'
      BY <1>1, <2>3, TypesOfInv DEF WillReport
    <3>2. last_finalized_in_rounds \in Block
      BY DEF VoterInv, VoterTypeOK
    <3> QED  BY <1>1, <2>3, <3>1, <3>2 DEF VoterInv, BaseIsReported
  <2>10. PastIsTold'
    <3>1. \A n \in DOMAIN rounds : rounds[n].best_finalized # None => Number[rounds[n].best_finalized] \in Nat
      BY <2>4, BlockTreeAssumption DEF OptionBlock
    <3>2. ASSUME NEW n \in Past, NEW k \in DOMAIN rounds, k > n, rounds[k].best_finalized # None
          PROVE  \/ \E i \in DOMAIN notifications : notifications[i] = rounds[k].best_finalized
                 \/ Number[rounds[k].best_finalized] <= rounds'[n].finalized_number
      <4>1. \/ \E i \in DOMAIN notifications : notifications[i] = rounds[k].best_finalized
            \/ Number[rounds[k].best_finalized] <= rounds[n].finalized_number
        BY <3>2 DEF VoterInv, PastIsTold
      <4> QED  BY <1>5, <2>3, <3>1, <3>2, <4>1
    <3> QED  BY <1>1, <2>3, <3>2 DEF PastIsTold
  <2> QED  BY <1>4, <2>3, <2>5, <2>6, <2>7, <2>8, <2>9, <2>10 DEF VoterInv
<1>8. CASE ~Listens(m.number) /\ m.target = None
  <2>1. UNCHANGED <<rounds, woken, last_finalized_number, chain_finalized, restarts>>
    BY <1>8 DEF ProcessCommit, lifeVars
  <2>2. global_in' \in Seq(Global) /\ global_out \in Seq(Block) /\ woken \in BOOLEAN
    BY <1>1 DEF VoterInv, VoterTypeOK
  <2> QED  BY <1>1, <1>4, <2>1, <2>2, QuietStep DEF finalVars, storageVars, lifeVars
<1> QED  BY <1>6, <1>7, <1>8

\* The head of the notifications is handled.
LEMMA NotificationKeepsInv ==
    ASSUME VoterInv, HandleNotification
    PROVE  VoterInv'
<1> DEFINE f == Head(notifications)
<1>1. /\ up /\ step = "finalized" /\ notifications # <<>> /\ notifications' = Tail(notifications)
      /\ Finalize(f) /\ last_finalized_in_rounds' = Higher(f, last_finalized_in_rounds)
      /\ UNCHANGED <<up, step, best, global_in, global_out, stored, world, given>>
  BY DEF HandleNotification, lifeVars
<1>2. /\ notifications \in Seq(Block) /\ last_finalized_in_rounds \in Block /\ chain_finalized \in Block
      /\ f \in Block /\ f = notifications[1] /\ notifications' \in Seq(Block)
      /\ \A i \in DOMAIN notifications : i = 1 \/ (i - 1 \in DOMAIN notifications' /\ notifications'[i - 1] = notifications[i])
      /\ \A i \in DOMAIN notifications' : i + 1 \in DOMAIN notifications /\ notifications'[i] = notifications[i + 1]
  <2>1. notifications \in Seq(Block) /\ last_finalized_in_rounds \in Block /\ chain_finalized \in Block
    BY DEF VoterInv, VoterTypeOK
  <2>2. Len(notifications) \in Nat /\ Len(notifications) >= 1
    BY <1>1, <2>1
  <2> QED  BY <1>1, <2>1, <2>2
<1>3. FinalBy(f, best) /\ FinalBy(f, MaxRound)
  <2>1. 1 \in DOMAIN notifications
    BY <1>1, <1>2
  <2>2. FinalBy(f, best)
    BY <1>2, <2>1 DEF VoterInv, ReportsAreFinal
  <2> QED  BY <2>2, TypesOfInv, VoterAssumption DEF FinalBy, Round
<1> HIDE DEF f
<1>4. /\ rounds' \in [DOMAIN rounds' -> RoundRecords] /\ DOMAIN rounds' = DOMAIN rounds /\ Past' = Past
      /\ \A n \in DOMAIN rounds :
             /\ rounds'[n].base = rounds[n].base /\ rounds'[n].state = rounds[n].state
             /\ rounds'[n].last = rounds[n].last /\ rounds'[n].committer = rounds[n].committer
             /\ rounds'[n].best_finalized = rounds[n].best_finalized
             /\ rounds[n].finalized_number \in Nat /\ rounds'[n].finalized_number \in Nat
             /\ rounds[n].finalized_number <= rounds'[n].finalized_number
             /\ rounds'[n].finalized_number <= last_finalized_number'
      /\ \A n \in Past : Number[f] <= rounds'[n].finalized_number
      /\ chain_finalized' \in Block /\ last_finalized_number' \in Nat
      /\ last_finalized_number' = Number[chain_finalized']
      /\ chain_finalized' = Genesis \/ FinalBy(chain_finalized', MaxRound)
      /\ f \in Ancestors[chain_finalized']
      /\ \A b \in Block : b \in Ancestors[chain_finalized] => b \in Ancestors[chain_finalized']
      /\ StatesOfWorld' /\ BaseBelowEstimates'
      /\ woken' \in BOOLEAN /\ (woken => woken') /\ \A n \in Past : IsDone(rounds'[n]) => woken'
  BY <1>1, <1>3, FinalizeKeeps
<1>5. last_finalized_in_rounds' \in {f, last_finalized_in_rounds}
  BY <1>1 DEF Higher
<1>6. \A n \in DOMAIN rounds : rounds[n].best_finalized \in OptionBlock
  BY TypesOfInv DEF RoundRecords
<1>7. VoterTypeOK'
  BY <1>1, <1>2, <1>4, <1>5 DEF VoterInv, VoterTypeOK, Global
<1>8. RunsOrDown'
  <2>1. Past \subseteq DOMAIN rounds
    BY DEF Past
  <2> QED  BY <1>1, <1>4, <2>1 DEF VoterInv, RunsOrDown
<1>9. ReportsAreFinal'
  BY <1>1, <1>2, <1>3, <1>4, <1>5 DEF VoterInv, ReportsAreFinal, FinalBy
<1>10. ReportsAreKnown'
  <2>1. \A b \in Block : Known(b) => Known(b)'
    BY <1>1, <1>2, <1>4 DEF Known
  <2>2. \A i \in DOMAIN global_out : global_out[i] \in Block
    BY DEF VoterInv, VoterTypeOK
  <2> QED  BY <1>1, <1>4, <1>6, <2>1, <2>2 DEF VoterInv, ReportsAreKnown, OptionBlock
<1>11. BaseIsReported'
  <2>1. CASE last_finalized_in_rounds' = f
    BY <1>4, <2>1 DEF BaseIsReported
  <2>2. CASE last_finalized_in_rounds' = last_finalized_in_rounds
    <3>1. CASE last_finalized_in_rounds \in Ancestors[chain_finalized]
      BY <1>2, <1>4, <2>2, <3>1 DEF BaseIsReported
    <3>2. ASSUME NEW i \in DOMAIN notifications, last_finalized_in_rounds \in Ancestors[notifications[i]]
          PROVE  BaseIsReported'
      <4>1. CASE i = 1
        <5>1. last_finalized_in_rounds \in Ancestors[chain_finalized']
          BY <1>2, <1>4, <3>2, <4>1, BelowBelow
        <5> QED  BY <2>2, <5>1 DEF BaseIsReported
      <4>2. CASE i # 1
        <5>1. i - 1 \in DOMAIN notifications' /\ last_finalized_in_rounds \in Ancestors[notifications'[i - 1]]
          BY <1>2, <3>2, <4>2
        <5> QED  BY <1>1, <2>2, <5>1 DEF BaseIsReported
      <4> QED  BY <4>1, <4>2
    <3> QED  BY <1>1, <3>1, <3>2 DEF VoterInv, BaseIsReported
  <2> QED  BY <1>5, <2>1, <2>2
<1>12. PastIsTold'
  <2>1. \A n \in DOMAIN rounds : rounds[n].best_finalized # None => Number[rounds[n].best_finalized] \in Nat
    BY <1>6, BlockTreeAssumption DEF OptionBlock
  <2>2. ASSUME NEW n \in Past, NEW m \in DOMAIN rounds, m > n, rounds[m].best_finalized # None
        PROVE  \/ \E i \in DOMAIN notifications' : notifications'[i] = rounds[m].best_finalized
               \/ Number[rounds[m].best_finalized] <= rounds'[n].finalized_number
    <3>1. n \in DOMAIN rounds
      BY DEF Past
    <3>2. CASE Number[rounds[m].best_finalized] <= rounds[n].finalized_number
      BY <1>4, <2>1, <2>2, <3>1, <3>2
    <3>3. CASE \E i \in DOMAIN notifications : notifications[i] = rounds[m].best_finalized
      <4>1. PICK i \in DOMAIN notifications : notifications[i] = rounds[m].best_finalized
        BY <3>3
      <4>2. CASE i = 1
        BY <1>2, <1>4, <4>1, <4>2
      <4>3. CASE i # 1
        BY <1>2, <4>1, <4>3
      <4> QED  BY <4>2, <4>3
    <3> QED  BY <2>2, <3>2, <3>3 DEF VoterInv, PastIsTold
  <2> QED  BY <1>4, <2>2 DEF PastIsTold
<1>13. NothingIsLeft'
  <2>1. \A n \in Past : rounds'[n].committer = rounds[n].committer
    BY <1>4 DEF Past
  <2> QED  BY <1>1, <1>4, <2>1 DEF VoterInv, NothingIsLeft
<1> QED  BY <1>4, <1>7, <1>8, <1>9, <1>10, <1>11, <1>12, <1>13 DEF VoterInv

-----------------------------------------------------------------------------
(* Catch-ups *)

\* A round that is pushed to the background, and a new best round: what PollBest and CatchUp
\* have in common.  The rounds other than k, at or above best, and k + 1 stay, and best is pushed.
LEMMA NextRound ==
    ASSUME VoterInv, up, NEW k \in Round, k >= best, k + 1 \in Round,
           NEW pushed \in RoundRecords, NEW next \in RoundRecords,
           pushed.committer = "new", pushed.state \in world.states[k], pushed.finalized_number = 0,
           next.base = last_finalized_in_rounds, next.state = Blank, next.best_finalized = None,
           next.finalized_number = 0,
           best' = k + 1, up', step' = "incoming", woken' \in BOOLEAN,
           rounds' = [n \in DOMAIN rounds \union {k, k + 1} |->
                         IF n = k + 1 THEN next ELSE IF n = k THEN pushed
                         ELSE IF n = best THEN Pushed(rounds[best]) ELSE rounds[n]],
           stored' \in StoredRounds, stored'.number = k, stored'.state \in world.states[k],
           pushed.best_finalized # None =>
               \/ k = best /\ pushed.best_finalized = rounds[best].best_finalized
               \/ \E i \in DOMAIN notifications' : notifications'[i] = pushed.best_finalized,
           \A i \in DOMAIN notifications : \E j \in DOMAIN notifications' : notifications'[j] = notifications[i],
           notifications' \in Seq(Block), global_in' \in Seq(Global),
           \A i \in DOMAIN notifications' : FinalBy(notifications'[i], k),
           UNCHANGED <<world, global_out, last_finalized_number, chain_finalized, given>>,
           last_finalized_in_rounds' \in Block,
           last_finalized_in_rounds' = last_finalized_in_rounds \/ FinalBy(last_finalized_in_rounds', k),
           BaseIsReported'
    PROVE  VoterInv'
<1>1. /\ world \in Worlds /\ best \in Nat /\ k \in Nat /\ DOMAIN rounds \subseteq Nat
      /\ best \in DOMAIN rounds /\ DOMAIN rounds \subseteq 1 .. best
      /\ \A n \in DOMAIN rounds : rounds[n] \in RoundRecords /\ n <= best /\ n <= k /\ n # k + 1
      /\ \A n \in DOMAIN rounds : rounds[n].state \in world.states[n]
      /\ last_finalized_number \in Nat
  BY TypesOfInv DEF VoterInv, RunsOrDown, VoterTypeOK
<1>2. /\ DOMAIN rounds' = DOMAIN rounds \union {k, k + 1}
      /\ rounds'[k + 1] = next /\ rounds'[k] = pushed
      /\ k # best => rounds'[best] = Pushed(rounds[best])
      /\ \A n \in DOMAIN rounds \ {best, k} : rounds'[n] = rounds[n]
      /\ rounds' = [n \in DOMAIN rounds' |-> rounds'[n]]
  BY <1>1
<1>3. /\ Pushed(rounds[best]) \in RoundRecords /\ Pushed(rounds[best]).committer = "new"
      /\ Pushed(rounds[best]).state = rounds[best].state
      /\ Pushed(rounds[best]).best_finalized = rounds[best].best_finalized
      /\ Pushed(rounds[best]).finalized_number = 0
  BY <1>1, RoundTypes
<1>4. \A n \in DOMAIN rounds' : n = k + 1 \/ n = k \/ (n = best /\ n # k) \/ n \in DOMAIN rounds \ {best, k}
  BY <1>2
<1>5. \A n \in DOMAIN rounds' : rounds'[n] \in RoundRecords /\ rounds'[n].state \in world.states[n]
  <2>1. next.state \in world.states[k + 1]
    BY <1>1, WorldTypes
  <2> QED  BY <1>1, <1>2, <1>3, <1>4, <2>1
<1>6. /\ rounds' \in [DOMAIN rounds' -> RoundRecords] /\ DOMAIN rounds' \subseteq 1 .. best'
      /\ Past' = Past \union {best, k} /\ best' \in DOMAIN rounds'
  <2>1. rounds' \in [DOMAIN rounds' -> RoundRecords]
    BY <1>2, <1>5
  <2>2. DOMAIN rounds' \subseteq 1 .. (k + 1)
    BY <1>1, <1>2
  <2>3. Past' = Past \union {best, k}
    BY <1>1, <1>2 DEF Past
  <2> QED  BY <1>2, <2>1, <2>2, <2>3
<1>7. \A n \in Past : /\ n \in DOMAIN rounds \ {best, k} /\ n < best /\ rounds'[n] = rounds[n]
  BY <1>1, <1>2 DEF Past
<1>8. VoterTypeOK'
  BY <1>5, <1>6 DEF VoterInv, VoterTypeOK, Global
<1>9. RunsOrDown'
  <2>1. \A n \in Past' : rounds'[n].committer # "none"
    <3>1. \A n \in Past : rounds[n].committer # "none"
      BY DEF VoterInv, RunsOrDown
    <3>2. rounds'[k].committer # "none" /\ rounds'[best].committer # "none"
      BY <1>2, <1>3
    <3>3. \A n \in Past : rounds'[n].committer # "none"
      BY <1>7, <3>1
    <3> QED  BY <1>6, <3>2, <3>3
  <2>2. stored'.number + 1 = best'
    OBVIOUS
  <2>3. best' \in DOMAIN rounds' /\ up'
    BY <1>6
  <2> QED  BY <2>1, <2>2, <2>3 DEF RunsOrDown
<1>10. StatesOfWorld'
  BY <1>5 DEF StatesOfWorld
<1>11. ReportsAreFinal'
  BY <1>1 DEF VoterInv, ReportsAreFinal, FinalBy
<1> DEFINE known(b) == b \in Ancestors[chain_finalized'] \/ \E i \in DOMAIN notifications' : notifications'[i] = b
<1>12. ASSUME NEW b \in Block, Known(b) PROVE known(b)
  BY <1>12 DEF Known
<1>13. ReportsAreKnown'
  <2>1. \A r \in RoundRecords : r.best_finalized \in Block \union {None}
    BY DEF RoundRecords, OptionBlock
  <2>2. ASSUME NEW n \in DOMAIN rounds', rounds'[n].best_finalized # None
        PROVE  known(rounds'[n].best_finalized)
    <3>1. CASE n = k + 1
      BY <1>2, <2>2, <3>1
    <3>2. CASE \E i \in DOMAIN notifications' : notifications'[i] = rounds'[n].best_finalized
      BY <3>2
    <3>3. CASE n \in DOMAIN rounds /\ rounds'[n].best_finalized = rounds[n].best_finalized
      <4>1. rounds'[n].best_finalized = rounds[n].best_finalized
        BY <3>3
      <4>2. Known(rounds[n].best_finalized)
        BY <2>2, <3>3, <4>1 DEF VoterInv, ReportsAreKnown
      <4>3. rounds[n].best_finalized \in Block
        BY <1>1, <2>1, <2>2, <3>3, <4>1
      <4>4. known(rounds[n].best_finalized)
        BY <1>12, <4>2, <4>3
      <4> QED  BY <4>1, <4>4
    <3>4. n = k => \/ n \in DOMAIN rounds /\ rounds'[n].best_finalized = rounds[n].best_finalized
                   \/ \E i \in DOMAIN notifications' : notifications'[i] = rounds'[n].best_finalized
      BY <1>1, <1>2, <2>2
    <3>5. n # k /\ n # k + 1 => n \in DOMAIN rounds /\ rounds'[n].best_finalized = rounds[n].best_finalized
      BY <1>1, <1>2, <1>3, <1>4
    <3> QED  BY <3>1, <3>2, <3>3, <3>4, <3>5
  <2>3. \A i \in DOMAIN global_out : global_out[i] \in Block /\ Known(global_out[i])
    BY DEF VoterInv, VoterTypeOK, ReportsAreKnown
  <2> QED  BY <1>12, <2>2, <2>3 DEF ReportsAreKnown, Known
<1>14. BaseBelowEstimates'
  <2>1. rounds'[best'].base = last_finalized_in_rounds /\ best' - 1 = k
    BY <1>1, <1>2
  <2>2. CASE last_finalized_in_rounds \in Ancestors[given]
    BY <2>1, <2>2 DEF BaseBelowEstimates
  <2>3. CASE FinalBy(last_finalized_in_rounds, best)
    <3>1. PICK n \in 1 .. best : last_finalized_in_rounds \in FinalOf(world, n)
      BY <2>3 DEF FinalBy
    <3>2. n \in Round /\ n <= k
      BY <1>1, <3>1, TypesOfInv, VoterAssumption DEF Round
    <3>3. \A s \in world.states[k] : s.completable => last_finalized_in_rounds \in Ancestors[s.estimate]
      BY <1>1, <3>1, <3>2, FinalBelowEstimates
    <3> QED  BY <2>1, <3>3 DEF BaseBelowEstimates
  <2> QED  BY <2>2, <2>3 DEF VoterInv, ReportsAreFinal
<1>15. PastIsTold'
  <2>1. \A n \in DOMAIN rounds' : rounds'[n].finalized_number <= last_finalized_number'
    <3>1. \A n \in DOMAIN rounds : rounds[n].finalized_number <= last_finalized_number
      BY DEF VoterInv, PastIsTold
    <3> QED  BY <1>1, <1>2, <1>3, <1>4, <3>1
  <2>2. ASSUME NEW n \in Past', NEW m \in DOMAIN rounds', m > n, rounds'[m].best_finalized # None
        PROVE  \/ \E i \in DOMAIN notifications' : notifications'[i] = rounds'[m].best_finalized
               \/ Number[rounds'[m].best_finalized] <= rounds'[n].finalized_number
    <3>1. m # k + 1
      BY <1>2, <2>2
    <3>2. CASE \E i \in DOMAIN notifications' : notifications'[i] = rounds'[m].best_finalized
      BY <3>2
    <3>3. CASE ~ \E i \in DOMAIN notifications' : notifications'[i] = rounds'[m].best_finalized
      <4>1. m \in DOMAIN rounds /\ rounds'[m].best_finalized = rounds[m].best_finalized
        <5>1. CASE m = k
          BY <1>1, <1>2, <2>2, <3>3, <5>1
        <5>2. CASE m # k
          BY <1>1, <1>2, <1>3, <1>4, <3>1, <5>2
        <5> QED  BY <5>1, <5>2
      <4>2. n \in Past
        <5>1. m <= best
          BY <1>1, <4>1
        <5> QED  BY <1>1, <1>6, <2>2, <5>1
      <4>3. Number[rounds[m].best_finalized] <= rounds[n].finalized_number
        <5>1. ~ \E i \in DOMAIN notifications : notifications[i] = rounds[m].best_finalized
          BY <3>3, <4>1
        <5> QED  BY <2>2, <4>1, <4>2, <5>1 DEF VoterInv, PastIsTold
      <4> QED  BY <1>7, <4>1, <4>2, <4>3
    <3> QED  BY <3>2, <3>3
  <2> QED  BY <2>1, <2>2 DEF PastIsTold
<1>16. NothingIsLeft'
  BY DEF NothingIsLeft
<1> QED  BY <1>8, <1>9, <1>10, <1>11, <1>13, <1>14, <1>15, <1>16 DEF VoterInv

\* A valid catch-up completes a later round, of which the next best round is made.
LEMMA CatchUpKeepsInv ==
    ASSUME VoterInv, CatchUp
    PROVE  VoterInv'
<1> PICK m : m = Head(global_in)
  OBVIOUS
<1> DEFINE k == m.number
           s == m.state
           pushed == Pushed(CompletedRound(m.base, s))
           next == NewRound(last_finalized_in_rounds, s)
<1>1. /\ up /\ step = "incoming" /\ global_in # <<>> /\ m.kind = "catch_up" /\ IsValidCatchUp(m)
      /\ best' = k + 1 /\ rounds' = CaughtUp(m)
      /\ last_finalized_in_rounds' = Higher(s.finalized, last_finalized_in_rounds)
      /\ stored' = [number |-> k, base |-> m.base, state |-> s]
      /\ global_in' = Tail(global_in)
      /\ UNCHANGED <<up, step, woken, notifications, last_finalized_number, global_out, chain_finalized, world, given>>
  BY DEF CatchUp, taskVars, lifeVars
<1>2. m \in Global /\ global_in' \in Seq(Global')
  <2>1. global_in \in Seq(Global) /\ Global' = Global
    BY <1>1 DEF VoterInv, VoterTypeOK, Global
  <2> QED  BY <1>1, <2>1
<1>3. /\ s # None /\ s.completable /\ k > best
      /\ k \in 1 .. (MaxRound - 1) /\ m.base \in world.bases[k] /\ s \in world.states[k]
  <2>1. /\ m.number > best /\ m.state # None /\ m.state.completable
    BY <1>1 DEF IsValidCatchUp
  <2>2. PICK n \in 1 .. (MaxRound - 1) : \E base \in world.bases[n], state \in world.states[n] :
            m = CatchUpMessage(n, base, state)
    BY <1>1, <1>2, <2>1, MessageKinds DEF CommitMessage, CatchUpMessage
  <2>3. PICK base \in world.bases[n], state \in world.states[n] : m = CatchUpMessage(n, base, state)
    BY <2>2
  <2>4. m.number = n /\ m.base = base /\ m.state = state
    BY <2>3 DEF CatchUpMessage
  <2> QED  BY <2>1, <2>2, <2>3, <2>4
<1>4. /\ world \in Worlds /\ k \in Round /\ k + 1 \in Round /\ best \in Nat /\ best \in DOMAIN rounds
      /\ s \in RoundStates /\ m.base \in Block /\ last_finalized_in_rounds \in Block
      /\ DOMAIN rounds \subseteq 1 .. best /\ chain_finalized \in Block
      /\ notifications \in Seq(Block) /\ woken \in BOOLEAN
  <2>1. k \in Round /\ k + 1 \in Round
    BY <1>3, VoterAssumption DEF Round
  <2>2. s \in RoundStates /\ m.base \in Block
    BY <1>3, <2>1, TypesOfInv, WorldTypes
  <2>3. best \in DOMAIN rounds
    BY <1>1 DEF VoterInv, RunsOrDown
  <2> QED  BY <2>1, <2>2, <2>3, TypesOfInv DEF VoterInv, VoterTypeOK
<1>5. /\ pushed \in RoundRecords /\ pushed.committer = "new" /\ pushed.state = s /\ pushed.last = None
      /\ pushed.finalized_number = 0 /\ pushed.best_finalized = None
  <2>1. /\ CompletedRound(m.base, s) \in RoundRecords
        /\ CompletedRound(m.base, s).state = s /\ CompletedRound(m.base, s).last = None
        /\ CompletedRound(m.base, s).best_finalized = None
    BY <1>4, RoundTypes
  <2> QED  BY <2>1, RoundTypes
<1>6. /\ next \in RoundRecords /\ next.base = last_finalized_in_rounds /\ next.state = Blank
      /\ next.best_finalized = None /\ next.finalized_number = 0
  BY <1>4, RoundTypes
<1> HIDE DEF pushed, next
<1>7. rounds' = [n \in DOMAIN rounds \union {k, k + 1} |->
                    IF n = k + 1 THEN next ELSE IF n = k THEN pushed
                    ELSE IF n = best THEN Pushed(rounds[best]) ELSE rounds[n]]
  <2>1. rounds' = With(With([rounds EXCEPT ![best] = Pushed(rounds[best])], k, pushed), k + 1, next)
    BY <1>1 DEF CaughtUp, pushed, next
  <2> HIDE DEF k
  <2>2. rounds \in [DOMAIN rounds -> RoundRecords]
    BY TypesOfInv
  <2> QED  BY <1>4, <2>1, <2>2 DEF With
<1>8. stored' \in StoredRounds /\ stored'.number = k /\ stored'.state \in world.states[k]
  BY <1>1, <1>3, <1>4, VoterAssumption DEF StoredRounds, Round
<1>9. s.finalized # None => FinalBy(s.finalized, k) /\ s.finalized \in Block
  <2>1. s.finalized # None => s.finalized \in FinalOf(world, k)
    BY <1>3 DEF FinalOf
  <2> QED  BY <1>3, <1>4, <2>1, WorldTypes DEF FinalBy
<1>10. last_finalized_in_rounds' = last_finalized_in_rounds
       \/ (s.finalized # None /\ last_finalized_in_rounds' = s.finalized)
  BY <1>1 DEF Higher
<1>11. \A i \in DOMAIN notifications : FinalBy(notifications[i], k)
  <2>1. \A b : FinalBy(b, best) => FinalBy(b, k)
    BY <1>3, <1>4 DEF FinalBy
  <2> QED  BY <2>1 DEF VoterInv, ReportsAreFinal
<1>12. BaseIsReported'
  <2>1. CASE s.finalized # None /\ last_finalized_in_rounds' = s.finalized
    <3>1. k \in Past' /\ rounds'[k] = pushed /\ step' = "incoming"
      BY <1>1, <1>4, <1>7 DEF Past
    <3>2. s.finalized \in Ancestors[s.finalized]
      BY <1>9, <2>1, BlockTreeAssumption
    <3>3. WillReport(k)'
      BY <1>3, <1>5, <2>1, <3>1, <3>2 DEF WillReport
    <3> QED  BY <3>1, <3>3 DEF BaseIsReported
  <2>2. CASE last_finalized_in_rounds' = last_finalized_in_rounds
    <3>1. ASSUME NEW n \in Past, WillReport(n) PROVE n \in Past' /\ WillReport(n)'
      <4>1. n \in DOMAIN rounds /\ n # best /\ n < best /\ n # k /\ n # k + 1
        BY <1>3, <1>4 DEF Past
      <4>2. rounds'[n] = rounds[n] /\ n \in Past'
        BY <1>1, <1>3, <1>4, <1>7, <4>1 DEF Past
      <4> QED  BY <2>2, <3>1, <4>2 DEF WillReport
    <3> QED  BY <1>1, <2>2, <3>1 DEF VoterInv, BaseIsReported
  <2> QED  BY <1>10, <2>1, <2>2
<1> HIDE DEF k, s
<1>13. k >= best /\ pushed.state \in world.states[k] /\ last_finalized_in_rounds' \in Block
       /\ (last_finalized_in_rounds' = last_finalized_in_rounds \/ FinalBy(last_finalized_in_rounds', k))
       /\ up' /\ step' = "incoming" /\ woken' \in BOOLEAN /\ k \in Nat
  BY <1>1, <1>3, <1>4, <1>5, <1>9, <1>10
<1>14. \A i \in DOMAIN notifications : \E j \in DOMAIN notifications' : notifications'[j] = notifications[i]
  BY <1>1
<1>15. \A i \in DOMAIN notifications' : FinalBy(notifications'[i], k)
  BY <1>1, <1>11
<1>16. global_in' \in Seq(Global) /\ notifications' \in Seq(Block)
  BY <1>1, <1>2, <1>4 DEF Global
<1> QED  BY <1>1, <1>4, <1>5, <1>6, <1>7, <1>8, <1>12, <1>13, <1>14, <1>15, <1>16, NextRound

-----------------------------------------------------------------------------
(* The best round *)

\* What a round reports is final in it.
LEMMA ReportedIsFinal ==
    ASSUME VoterInv, NEW n \in DOMAIN rounds, NEW r, NEW t \in world.states[n], NEW voting, Reports(r, t, voting)
    PROVE  t.finalized \in Block /\ FinalBy(t.finalized, n) /\ FinalBy(t.finalized, best)
<1>1. world \in Worlds /\ n \in Round /\ n \in Nat /\ n <= best /\ n >= 1 /\ best \in Nat
  BY TypesOfInv, VoterAssumption DEF Round
<1>2. t.finalized \in FinalOf(world, n)
  BY DEF Reports, FinalOf
<1> QED  BY <1>1, <1>2, WorldTypes DEF FinalBy

\* The best round is polled, and may be completed.
LEMMA BestKeepsInv ==
    ASSUME VoterInv, NEW t \in world.states[best], NEW voting \in {"Voting", "Precommitted"}, PollBest(t, voting)
    PROVE  VoterInv'
<1> DEFINE old == rounds[best]
           polled == Polled(old, t, voting)
           complete == t.completable /\ voting = "Precommitted" /\ LastEstimateFinalized(old, t)
           next == NewRound(last_finalized_in_rounds, t)
<1>1. /\ up /\ step = "best" /\ MayReach(best, old.state, t)
      /\ notifications' = IF Reports(old, t, voting) THEN Append(notifications, t.finalized) ELSE notifications
      /\ woken' = (woken \/ Reports(old, t, voting))
      /\ complete => /\ best < MaxRound
                     /\ stored' = [number |-> best, base |-> old.base, state |-> t]
                     /\ rounds' = With([rounds EXCEPT ![best] = Pushed(polled)], best + 1, next)
                     /\ best' = best + 1 /\ step' = "incoming"
      /\ ~complete => /\ rounds' = [rounds EXCEPT ![best] = polled] /\ step' = "idle"
                      /\ UNCHANGED <<stored, best>>
      /\ UNCHANGED <<up, last_finalized_number, last_finalized_in_rounds, global_in, global_out, chain_finalized,
                     world, given>>
  BY DEF PollBest, lifeVars
<1>2. /\ world \in Worlds /\ best \in Round /\ best \in Nat /\ MaxRound \in Nat /\ best \in DOMAIN rounds
      /\ old \in RoundRecords /\ t \in RoundStates /\ rounds \in [DOMAIN rounds -> RoundRecords]
      /\ last_finalized_in_rounds \in Block /\ last_finalized_number \in Nat /\ chain_finalized \in Block
      /\ notifications = <<>> /\ woken \in BOOLEAN /\ global_in \in Seq(Global)
      /\ DOMAIN rounds \subseteq 1 .. best
  <2>1. best \in DOMAIN rounds
    BY <1>1 DEF VoterInv, RunsOrDown
  <2>2. notifications = <<>>
    BY <1>1 DEF VoterInv, NothingIsLeft
  <2> QED  BY <2>1, <2>2, TypesOfInv, WorldTypes, VoterAssumption DEF VoterInv, VoterTypeOK
<1>3. /\ polled \in RoundRecords /\ polled.state = t /\ polled.base = old.base
      /\ polled.finalized_number = old.finalized_number
      /\ polled.best_finalized = IF Reports(old, t, voting) THEN t.finalized ELSE old.best_finalized
  <2>1. voting \in {"Voting", "Precommitted", "None"} /\ old \in RoundRecords
    BY <1>2
  <2> HIDE DEF old
  <2> QED  BY <1>2, <2>1, PolledTypes
<1>4. Reports(old, t, voting) => t.finalized \in Block /\ FinalBy(t.finalized, best)
  BY <1>2, ReportedIsFinal
<1>5. /\ notifications' \in Seq(Block)
      /\ \A i \in DOMAIN notifications' : Reports(old, t, voting) /\ notifications'[i] = t.finalized
      /\ Reports(old, t, voting) => 1 \in DOMAIN notifications' /\ notifications'[1] = t.finalized
  <2>1. CASE Reports(old, t, voting)
    <3>1. notifications' = <<t.finalized>>
      BY <1>1, <1>2, <2>1
    <3> QED  BY <1>4, <2>1, <3>1
  <2>2. CASE ~Reports(old, t, voting)
    BY <1>1, <1>2, <2>2
  <2> QED  BY <2>1, <2>2
<1>6. last_finalized_in_rounds \in Ancestors[chain_finalized]
  BY <1>1 DEF VoterInv, BaseIsReported
<1>7. woken' \in BOOLEAN /\ (woken => woken') /\ (Reports(old, t, voting) => woken')
  BY <1>1, <1>2
<1>8. \A i \in DOMAIN notifications' : FinalBy(notifications'[i], best)
  BY <1>4, <1>5
<1>9. CASE complete
  <2> DEFINE pushed == Pushed(polled)
  <2>1. /\ pushed \in RoundRecords /\ pushed.committer = "new" /\ pushed.state = t /\ pushed.finalized_number = 0
        /\ pushed.best_finalized = polled.best_finalized
    BY <1>3, RoundTypes
  <2>2. /\ next \in RoundRecords /\ next.base = last_finalized_in_rounds /\ next.state = Blank
        /\ next.best_finalized = None /\ next.finalized_number = 0
    BY <1>2, RoundTypes
  <2>3. rounds' = With([rounds EXCEPT ![best] = pushed], best + 1, next)
    BY <1>1, <1>9
  <2> HIDE DEF pushed, next
  <2>4. rounds' = [n \in DOMAIN rounds \union {best, best + 1} |->
                      IF n = best + 1 THEN next ELSE IF n = best THEN pushed
                      ELSE IF n = best THEN Pushed(rounds[best]) ELSE rounds[n]]
    BY <1>2, <2>3 DEF With
  <2>5. stored' \in StoredRounds /\ stored'.number = best /\ stored'.state = t
    <3>1. old.base \in Block
      BY <1>2 DEF RoundRecords
    <3> QED  BY <1>1, <1>2, <1>9, <3>1 DEF StoredRounds
  <2>6. /\ best + 1 \in Round /\ best >= best /\ up /\ up' /\ step' = "incoming" /\ best' = best + 1
        /\ UNCHANGED <<world, global_out, last_finalized_number, chain_finalized, given>>
        /\ last_finalized_in_rounds' = last_finalized_in_rounds
    BY <1>1, <1>2, <1>9 DEF Round
  <2>7. pushed.best_finalized # None =>
            \/ pushed.best_finalized = rounds[best].best_finalized
            \/ \E i \in DOMAIN notifications' : notifications'[i] = pushed.best_finalized
    BY <1>3, <1>5, <2>1
  <2>8. BaseIsReported'
    BY <1>1, <1>6 DEF BaseIsReported
  <2>9. \A i \in DOMAIN notifications : \E j \in DOMAIN notifications' : notifications'[j] = notifications[i]
    BY <1>2
  <2>10. global_in' \in Seq(Global)
    BY <1>1, <1>2
  <2> HIDE DEF old, complete, polled
  <2> QED  BY <1>2, <1>5, <1>7, <1>8, <2>1, <2>2, <2>4, <2>5, <2>6, <2>7, <2>8, <2>9, <2>10, NextRound
<1>10. CASE ~complete
  <2>1. /\ rounds' = [rounds EXCEPT ![best] = polled] /\ step' = "idle" /\ stored' = stored /\ best' = best
        /\ up /\ up'
    BY <1>1, <1>10
  <2> HIDE DEF polled
  <2>2. /\ DOMAIN rounds' = DOMAIN rounds /\ rounds' \in [DOMAIN rounds' -> RoundRecords]
        /\ rounds'[best] = polled /\ \A n \in DOMAIN rounds : n # best => rounds'[n] = rounds[n]
        /\ Past' = Past /\ \A n \in Past : n \in DOMAIN rounds /\ rounds'[n] = rounds[n]
    <3>1. /\ DOMAIN rounds' = DOMAIN rounds /\ rounds' \in [DOMAIN rounds' -> RoundRecords]
          /\ rounds'[best] = polled /\ \A n \in DOMAIN rounds : n # best => rounds'[n] = rounds[n]
      BY <1>2, <1>3, <2>1
    <3> QED  BY <2>1, <3>1 DEF Past
  <2> HIDE DEF old, complete
  <2>3. VoterTypeOK'
    BY <1>1, <1>5, <1>7, <2>1, <2>2 DEF VoterInv, VoterTypeOK, Global
  <2>4. RunsOrDown'
    BY <1>1, <2>1, <2>2 DEF VoterInv, RunsOrDown
  <2>5. StatesOfWorld'
    <3>1. polled.state \in world.states[best]
      BY <1>3
    <3> QED  BY <1>1, <2>1, <2>2, <3>1 DEF VoterInv, StatesOfWorld
  <2>6. ReportsAreFinal'
    BY <1>1, <1>8, <2>1 DEF VoterInv, ReportsAreFinal, FinalBy
  <2>7. ReportsAreKnown'
    <3>1. \A b : Known(b) => b \in Ancestors[chain_finalized']
      BY <1>1, <1>2 DEF Known
    <3>2. polled.best_finalized # None =>
              \/ polled.best_finalized \in Ancestors[chain_finalized']
              \/ \E i \in DOMAIN notifications' : notifications'[i] = polled.best_finalized
      BY <1>2, <1>3, <1>5, <3>1 DEF old, VoterInv, ReportsAreKnown
    <3>3. ASSUME NEW n \in DOMAIN rounds', rounds'[n].best_finalized # None
          PROVE  \/ rounds'[n].best_finalized \in Ancestors[chain_finalized']
                 \/ \E i \in DOMAIN notifications' : notifications'[i] = rounds'[n].best_finalized
      <4>1. CASE n = best
        BY <2>2, <3>2, <3>3, <4>1
      <4>2. CASE n # best
        BY <2>2, <3>1, <3>3, <4>2 DEF VoterInv, ReportsAreKnown
      <4> QED  BY <4>1, <4>2
    <3>4. \A i \in DOMAIN global_out : global_out[i] \in Ancestors[chain_finalized']
      BY <3>1 DEF VoterInv, ReportsAreKnown
    <3> QED  BY <1>1, <3>3, <3>4 DEF ReportsAreKnown, Known
  <2>8. BaseIsReported'
    BY <1>1, <1>6 DEF BaseIsReported
  <2>9. BaseBelowEstimates'
    BY <1>1, <1>3, <2>1, <2>2 DEF old, VoterInv, BaseBelowEstimates
  <2>10. PastIsTold'
    <3>1. \A n \in DOMAIN rounds' : rounds'[n].finalized_number <= last_finalized_number'
      BY <1>1, <1>2, <1>3, <2>2 DEF old, VoterInv, PastIsTold
    <3>2. ASSUME NEW n \in Past, NEW m \in DOMAIN rounds, m > n, rounds'[m].best_finalized # None
          PROVE  \/ \E i \in DOMAIN notifications' : notifications'[i] = rounds'[m].best_finalized
                 \/ Number[rounds'[m].best_finalized] <= rounds'[n].finalized_number
      <4>1. CASE Reports(old, t, voting) /\ m = best
        BY <1>3, <1>5, <2>2, <4>1
      <4>2. CASE ~(Reports(old, t, voting) /\ m = best)
        <5>1. rounds'[m].best_finalized = rounds[m].best_finalized
          BY <1>2, <1>3, <2>2, <4>2 DEF old
        <5>2. ~ \E i \in DOMAIN notifications : notifications[i] = rounds[m].best_finalized
          BY <1>2
        <5> QED  BY <2>2, <3>2, <5>1, <5>2 DEF VoterInv, PastIsTold
      <4> QED  BY <4>1, <4>2
    <3> QED  BY <2>2, <3>1, <3>2 DEF PastIsTold
  <2>11. NothingIsLeft'
    <3>1. ~woken' => notifications' = <<>>
      BY <1>1, <1>2, <1>7 DEF old
    <3>2. \A n \in Past : rounds[n].committer \notin {"new", "fired"}
      BY <1>1 DEF VoterInv, NothingIsLeft
    <3>3. ~woken' => \A n \in Past : ~IsDone(rounds[n])
      BY <1>1, <1>7 DEF VoterInv, NothingIsLeft
    <3> QED  BY <2>1, <2>2, <3>1, <3>2, <3>3 DEF NothingIsLeft
  <2> QED  BY <2>3, <2>4, <2>5, <2>6, <2>7, <2>8, <2>9, <2>10, <2>11 DEF VoterInv
<1> QED  BY <1>9, <1>10

-----------------------------------------------------------------------------
(* Past rounds *)

\* Pushing a state to the next round changes nothing but that round's view of the last one.
LEMMA BridgedFacts ==
    ASSUME VoterInv, NEW n \in DOMAIN rounds, NEW t \in RoundStates
    PROVE  /\ DOMAIN Bridged(rounds, n, t) = DOMAIN rounds
           /\ \A k \in DOMAIN rounds :
                  LET q == Bridged(rounds, n, t)[k]
                      r == rounds[k]
                  IN  /\ q \in RoundRecords /\ q.base = r.base /\ q.state = r.state
                      /\ q.best_finalized = r.best_finalized /\ q.committer = r.committer
                      /\ q.finalized_number = r.finalized_number
                      /\ r.last = None => q.last = None
<1>1. /\ rounds \in [DOMAIN rounds -> RoundRecords] /\ \A k \in DOMAIN rounds : rounds[k] \in RoundRecords
  BY TypesOfInv
<1>2. ASSUME NEW r \in RoundRecords
      PROVE  LET q == [r EXCEPT !.last = t]
             IN  /\ q \in RoundRecords /\ q.base = r.base /\ q.state = r.state
                 /\ q.best_finalized = r.best_finalized /\ q.committer = r.committer
                 /\ q.finalized_number = r.finalized_number
  BY DEF RoundRecords
<1>3. \/ Bridged(rounds, n, t) = rounds
      \/ /\ n + 1 \in DOMAIN rounds /\ rounds[n + 1].last # None
         /\ Bridged(rounds, n, t) = [rounds EXCEPT ![n + 1] = [rounds[n + 1] EXCEPT !.last = t]]
  BY DEF Bridged
<1>4. CASE Bridged(rounds, n, t) = rounds
  BY <1>1, <1>4
<1>5. CASE /\ n + 1 \in DOMAIN rounds /\ rounds[n + 1].last # None
           /\ Bridged(rounds, n, t) = [rounds EXCEPT ![n + 1] = [rounds[n + 1] EXCEPT !.last = t]]
  <2>1. DOMAIN Bridged(rounds, n, t) = DOMAIN rounds
    BY <1>5
  <2>2. ASSUME NEW k \in DOMAIN rounds, k # n + 1 PROVE Bridged(rounds, n, t)[k] = rounds[k]
    BY <1>5, <2>2
  <2>3. Bridged(rounds, n, t)[n + 1] = [rounds[n + 1] EXCEPT !.last = t]
    BY <1>5
  <2>4. rounds[n + 1] \in RoundRecords
    BY <1>1, <1>5
  <2> DEFINE q(k) == Bridged(rounds, n, t)[k]
  <2>5. ASSUME NEW k \in DOMAIN rounds
        PROVE  /\ q(k) \in RoundRecords /\ q(k).base = rounds[k].base /\ q(k).state = rounds[k].state
               /\ q(k).best_finalized = rounds[k].best_finalized /\ q(k).committer = rounds[k].committer
               /\ q(k).finalized_number = rounds[k].finalized_number
               /\ rounds[k].last = None => q(k).last = None
    <3>1. CASE k = n + 1
      BY <1>2, <1>5, <2>3, <2>4, <3>1
    <3>2. CASE k # n + 1
      BY <1>1, <2>2, <3>2
    <3> QED  BY <3>1, <3>2
  <2> QED  BY <2>1, <2>5
<1> QED  BY <1>3, <1>4, <1>5

\* What polling past round n does: it comes to a later state, and stays or is discarded.
PastPolled(n, t, voting) ==
    /\ up /\ step = "past" /\ t \in RoundStates /\ Advances(rounds[n].state, t)
    /\ UNCHANGED <<up, step, woken, best, last_finalized_number, last_finalized_in_rounds, global_in,
                   chain_finalized, world, given>>
    /\ notifications' = IF Reports(rounds[n], t, voting) THEN Append(notifications, t.finalized)
                        ELSE notifications
    /\ \E new \in RoundRecords :
          /\ new.state \in world.states[n] /\ new.base = rounds[n].base
          /\ new.finalized_number = rounds[n].finalized_number
          /\ new.committer # "none"
          /\ new.best_finalized =
                IF Reports(rounds[n], t, voting) THEN t.finalized ELSE rounds[n].best_finalized
          /\ rounds[n].state.completable => new.state.completable
          /\ \/ global_out' = global_out
             \/ new.best_finalized # None /\ global_out' = Append(global_out, new.best_finalized)
          /\ \/ /\ IsDone(new) /\ DOMAIN rounds' = DOMAIN rounds \ {n}
                /\ stored' = stored \/ (stored.number = n /\ stored' = [stored EXCEPT !.state = new.state])
             \/ DOMAIN rounds' = DOMAIN rounds /\ rounds'[n] = new /\ stored' = stored
    /\ \A k \in DOMAIN rounds \ {n} :
          /\ rounds'[k] \in RoundRecords /\ rounds'[k].base = rounds[k].base
          /\ rounds'[k].state = rounds[k].state
          /\ rounds'[k].best_finalized = rounds[k].best_finalized
          /\ rounds'[k].committer = rounds[k].committer
          /\ rounds'[k].finalized_number = rounds[k].finalized_number
          /\ rounds[k].last = None => rounds'[k].last = None
    /\ rounds' = [k \in DOMAIN rounds' |-> rounds'[k]]

\* That is the effect of PollPast.
LEMMA PollPastFacts ==
    ASSUME VoterInv, NEW n \in Past, NEW t \in world.states[n],
           NEW voting \in {"Voting", "Precommitted", "None"}, PollPast(n, t, voting)
    PROVE  PastPolled(n, t, voting)
<1> DEFINE old == rounds[n]
           polled == Polled(old, t, voting)
           first == [state |-> t, last_commit |-> old.last_commit]
           bridged == Bridged(rounds, n, t)
<1>1. /\ n \in DOMAIN rounds /\ old \in RoundRecords /\ t \in RoundStates /\ n \in Round /\ n # best
      /\ world \in Worlds /\ VoterTypeOK /\ old.committer # "none"
  BY TypesOfInv, WorldTypes DEF VoterInv, RunsOrDown
<1>2. /\ up /\ step = "past" /\ Advances(old.state, t)
      /\ UNCHANGED <<up, step, woken, best, last_finalized_number, last_finalized_in_rounds, global_in,
                     chain_finalized, world, given>>
      /\ notifications' = IF Reports(old, t, voting) THEN Append(notifications, t.finalized) ELSE notifications
  BY DEF PollPast, MayReach, taskVars, lifeVars
<1>3. PICK s \in ImportedAll(n, first) :
          LET issues == Issues(polled, s)
              new    == [polled EXCEPT !.state = s.state, !.import_commits = <<>>,
                                       !.committer = CommitterAfter(old),
                                       !.last_commit = IF old.committer = "fired" THEN None ELSE s.last_commit]
          IN  /\ global_out' = IF issues THEN Append(global_out, polled.best_finalized) ELSE global_out
              /\ IF IsDone(new) /\ ~issues
                 THEN /\ rounds' = [m \in DOMAIN rounds \ {n} |-> bridged[m]]
                      /\ stored' = IF stored.number = n THEN [stored EXCEPT !.state = s.state] ELSE stored
                 ELSE /\ rounds' = [bridged EXCEPT ![n] = new]
                      /\ UNCHANGED stored
  BY DEF PollPast
<1> DEFINE new == [polled EXCEPT !.state = s.state, !.import_commits = <<>>,
                                 !.committer = CommitterAfter(old),
                                 !.last_commit = IF old.committer = "fired" THEN None ELSE s.last_commit]
<1>4. /\ s.state \in world.states[n] /\ s.last_commit \in OptionBlock
      /\ t.completable => s.state.completable
  <2>1. first.last_commit \in OptionBlock /\ first.state = t
    BY <1>1 DEF RoundRecords
  <2> HIDE DEF first
  <2> QED  BY <1>1, <2>1, ImportsKeepState
<1>5. /\ polled \in RoundRecords /\ polled.state = t /\ polled.base = old.base /\ polled.last = old.last
      /\ polled.finalized_number = old.finalized_number
      /\ polled.best_finalized = IF Reports(old, t, voting) THEN t.finalized ELSE old.best_finalized
  <2> HIDE DEF old
  <2> QED  BY <1>1, PolledTypes
<1>6. /\ new \in RoundRecords /\ new.state = s.state /\ new.base = old.base
      /\ new.finalized_number = old.finalized_number /\ new.best_finalized = polled.best_finalized
      /\ new.committer # "none"
  <2>1. CommitterAfter(old) \in {"new", "open", "fired", "gone"}
    <3>1. old.committer \in {"new", "open", "fired", "gone"}
      BY <1>1 DEF RoundRecords
    <3> HIDE DEF old
    <3> QED  BY <3>1 DEF CommitterAfter
  <2>2. s.state \in RoundStates
    BY <1>1, <1>4, WorldTypes
  <2> DEFINE committer == CommitterAfter(old)
             commit    == IF old.committer = "fired" THEN None ELSE s.last_commit
             state     == s.state
  <2>3. commit \in OptionBlock /\ committer \in {"none", "new", "open", "fired", "gone"} /\ committer # "none"
    BY <1>4, <2>1 DEF OptionBlock
  <2>4. new = [polled EXCEPT !.state = state, !.import_commits = <<>>, !.committer = committer,
                             !.last_commit = commit]
    OBVIOUS
  <2>5. state \in RoundStates /\ state = s.state
    BY <2>2
  <2> HIDE DEF new, committer, commit, state, polled, old
  <2>6. <<>> \in Seq(OptionBlock) /\ polled \in RoundRecords
    BY <1>5
  <2>7. /\ new \in RoundRecords /\ new.state = state /\ new.base = polled.base
        /\ new.finalized_number = polled.finalized_number /\ new.best_finalized = polled.best_finalized
        /\ new.committer = committer
    BY <2>3, <2>4, <2>5, <2>6 DEF RoundRecords
  <2> QED  BY <1>5, <2>3, <2>5, <2>7
<1> HIDE DEF new
<1>7. /\ global_out' = global_out
         \/ (new.best_finalized # None /\ global_out' = Append(global_out, new.best_finalized))
      /\ \/ /\ IsDone(new) /\ rounds' = [m \in DOMAIN rounds \ {n} |-> bridged[m]]
            /\ stored' = stored \/ (stored.number = n /\ stored' = [stored EXCEPT !.state = s.state])
         \/ rounds' = [bridged EXCEPT ![n] = new] /\ stored' = stored
  <2> HIDE DEF polled, old, bridged
  <2>1. Issues(polled, s) => polled.best_finalized # None
    BY DEF Issues
  <2> QED  BY <1>3, <1>6, <2>1 DEF new
<1>8. /\ DOMAIN bridged = DOMAIN rounds
      /\ \A k \in DOMAIN rounds :
             /\ bridged[k] \in RoundRecords /\ bridged[k].base = rounds[k].base
             /\ bridged[k].state = rounds[k].state
             /\ bridged[k].best_finalized = rounds[k].best_finalized
             /\ bridged[k].committer = rounds[k].committer
             /\ bridged[k].finalized_number = rounds[k].finalized_number
             /\ rounds[k].last = None => bridged[k].last = None
  BY <1>1, BridgedFacts
<1> HIDE DEF bridged, polled, old
<1>9. /\ \/ /\ IsDone(new) /\ DOMAIN rounds' = DOMAIN rounds \ {n}
            /\ stored' = stored \/ (stored.number = n /\ stored' = [stored EXCEPT !.state = new.state])
         \/ DOMAIN rounds' = DOMAIN rounds /\ rounds'[n] = new /\ stored' = stored
      /\ \A k \in DOMAIN rounds \ {n} : rounds'[k] = bridged[k]
      /\ rounds' = [k \in DOMAIN rounds' |-> rounds'[k]]
  <2>1. CASE /\ IsDone(new) /\ rounds' = [m \in DOMAIN rounds \ {n} |-> bridged[m]]
             /\ stored' = stored \/ (stored.number = n /\ stored' = [stored EXCEPT !.state = s.state])
    BY <1>6, <2>1
  <2>2. CASE rounds' = [bridged EXCEPT ![n] = new] /\ stored' = stored
    BY <1>1, <1>8, <2>2
  <2> QED  BY <1>7, <2>1, <2>2
<1>10. old.state.completable => new.state.completable
  BY <1>2, <1>4, <1>6 DEF Advances
<1>11. \A k \in DOMAIN rounds \ {n} :
           /\ rounds'[k] \in RoundRecords /\ rounds'[k].base = rounds[k].base
           /\ rounds'[k].state = rounds[k].state
           /\ rounds'[k].best_finalized = rounds[k].best_finalized
           /\ rounds'[k].committer = rounds[k].committer
           /\ rounds'[k].finalized_number = rounds[k].finalized_number
           /\ rounds[k].last = None => rounds'[k].last = None
  BY <1>8, <1>9
<1>12. /\ new \in RoundRecords /\ new.state \in world.states[n] /\ new.base = rounds[n].base
       /\ new.finalized_number = rounds[n].finalized_number
       /\ new.committer # "none"
       /\ new.best_finalized = IF Reports(rounds[n], t, voting) THEN t.finalized ELSE rounds[n].best_finalized
       /\ rounds[n].state.completable => new.state.completable
  BY <1>4, <1>5, <1>6, <1>10 DEF old
<1> QED  BY <1>1, <1>2, <1>7, <1>9, <1>11, <1>12 DEF old, PastPolled

\* A past round is polled: it reports, imports commits, issues its own, and may be discarded.
LEMMA PastKeepsInv ==
    ASSUME VoterInv, NEW n \in Past, NEW t \in world.states[n],
           NEW voting \in {"Voting", "Precommitted", "None"}, PollPast(n, t, voting)
    PROVE  VoterInv'
<1> DEFINE reports == Reports(rounds[n], t, voting)
<1>0. PastPolled(n, t, voting)
  BY PollPastFacts
<1>1. /\ up /\ step = "past" /\ t \in RoundStates /\ Advances(rounds[n].state, t)
      /\ UNCHANGED <<up, step, woken, best, last_finalized_number, last_finalized_in_rounds, global_in,
                     chain_finalized, world, given>>
      /\ notifications' = IF reports THEN Append(notifications, t.finalized) ELSE notifications
      /\ \A k \in DOMAIN rounds \ {n} :
             /\ rounds'[k] \in RoundRecords /\ rounds'[k].base = rounds[k].base
             /\ rounds'[k].state = rounds[k].state
             /\ rounds'[k].best_finalized = rounds[k].best_finalized
             /\ rounds'[k].committer = rounds[k].committer
             /\ rounds'[k].finalized_number = rounds[k].finalized_number
             /\ rounds[k].last = None => rounds'[k].last = None
      /\ rounds' = [k \in DOMAIN rounds' |-> rounds'[k]]
  BY <1>0 DEF PastPolled
<1>2. PICK new \in RoundRecords :
          /\ new.state \in world.states[n] /\ new.finalized_number = rounds[n].finalized_number
          /\ new.committer # "none"
          /\ new.best_finalized = IF reports THEN t.finalized ELSE rounds[n].best_finalized
          /\ \/ global_out' = global_out
             \/ new.best_finalized # None /\ global_out' = Append(global_out, new.best_finalized)
          /\ \/ /\ DOMAIN rounds' = DOMAIN rounds \ {n}
                /\ stored' = stored \/ (stored.number = n /\ stored' = [stored EXCEPT !.state = new.state])
             \/ DOMAIN rounds' = DOMAIN rounds /\ rounds'[n] = new /\ stored' = stored
  BY <1>0 DEF PastPolled
<1>3. /\ world \in Worlds /\ best \in Round /\ best \in Nat /\ n \in DOMAIN rounds /\ n # best /\ n \in Round
      /\ rounds[n] \in RoundRecords /\ rounds[n].state \in RoundStates /\ best \in DOMAIN rounds
      /\ DOMAIN rounds \subseteq 1 .. best /\ Past \subseteq DOMAIN rounds
      /\ new.state \in RoundStates /\ new.best_finalized \in OptionBlock
      /\ stored \in StoredRounds /\ notifications \in Seq(Block) /\ global_out \in Seq(Block)
      /\ last_finalized_in_rounds \in Block
  <2>1. new.state \in RoundStates /\ new.best_finalized \in OptionBlock
    BY <1>2 DEF RoundRecords
  <2> QED  BY <1>1, <2>1, TypesOfInv DEF VoterInv, VoterTypeOK, RunsOrDown
<1>4. reports => t.finalized \in Block /\ FinalBy(t.finalized, best)
  BY <1>3, ReportedIsFinal
<1> HIDE DEF reports
<1>5. /\ notifications' \in Seq(Block)
      /\ \A i \in DOMAIN notifications' :
             (\E j \in DOMAIN notifications : notifications'[i] = notifications[j])
             \/ (reports /\ notifications'[i] = t.finalized)
      /\ \A i \in DOMAIN notifications : i \in DOMAIN notifications' /\ notifications'[i] = notifications[i]
      /\ reports => \E i \in DOMAIN notifications' : notifications'[i] = t.finalized
  <2>1. CASE reports
    <3>1. notifications' = Append(notifications, t.finalized) /\ t.finalized \in Block
      BY <1>1, <1>4, <2>1
    <3>2. /\ Len(notifications') = Len(notifications) + 1 /\ DOMAIN notifications' = 1 .. Len(notifications')
          /\ DOMAIN notifications = 1 .. Len(notifications) /\ Len(notifications) \in Nat
          /\ notifications'[Len(notifications')] = t.finalized /\ notifications' \in Seq(Block)
          /\ \A i \in 1 .. Len(notifications) : notifications'[i] = notifications[i]
      BY <1>3, <3>1
    <3> QED  BY <2>1, <3>2
  <2>2. CASE ~reports
    BY <1>1, <1>3, <2>2
  <2> QED  BY <2>1, <2>2
<1>6. /\ global_out' \in Seq(Block)
      /\ \A i \in DOMAIN global_out' :
             (\E j \in DOMAIN global_out : global_out'[i] = global_out[j])
             \/ (new.best_finalized # None /\ global_out'[i] = new.best_finalized)
  <2>1. CASE global_out' = global_out
    BY <1>3, <2>1
  <2>2. CASE new.best_finalized # None /\ global_out' = Append(global_out, new.best_finalized)
    <3>1. new.best_finalized \in Block
      BY <1>3, <2>2 DEF OptionBlock
    <3>2. /\ Len(global_out') = Len(global_out) + 1 /\ DOMAIN global_out' = 1 .. Len(global_out')
          /\ DOMAIN global_out = 1 .. Len(global_out) /\ Len(global_out) \in Nat
          /\ global_out'[Len(global_out')] = new.best_finalized /\ global_out' \in Seq(Block)
          /\ \A i \in 1 .. Len(global_out) : global_out'[i] = global_out[i]
      BY <1>3, <2>2, <3>1
    <3> QED  BY <2>2, <3>2
  <2> QED  BY <1>2, <2>1, <2>2
<1>7. /\ stored' \in StoredRounds /\ stored'.number = stored.number
      /\ stored'.state = stored.state \/ (stored.number = n /\ stored'.state = new.state)
  BY <1>2, <1>3 DEF StoredRounds
<1>8. /\ DOMAIN rounds' \subseteq DOMAIN rounds /\ best \in DOMAIN rounds'
      /\ \A k \in DOMAIN rounds' : k # n \/ rounds'[n] = new
      /\ \A k \in DOMAIN rounds : k # n => k \in DOMAIN rounds'
  BY <1>2, <1>3
<1>9. ASSUME NEW k \in DOMAIN rounds'
      PROVE  /\ k \in DOMAIN rounds /\ rounds'[k] \in RoundRecords /\ rounds'[k].state \in world.states[k]
             /\ rounds'[k].finalized_number = rounds[k].finalized_number
             /\ rounds'[k].best_finalized = rounds[k].best_finalized
                \/ (k = n /\ reports /\ rounds'[k].best_finalized = t.finalized)
             /\ rounds'[k].committer = rounds[k].committer \/ (k = n /\ rounds'[k].committer # "none")
  <2>1. CASE k = n
    BY <1>2, <1>3, <1>8, <2>1
  <2>2. CASE k # n
    BY <1>1, <1>8, <2>2, TypesOfInv
  <2> QED  BY <2>1, <2>2
<1>10. Past' \subseteq Past /\ Past' = DOMAIN rounds' \ {best} /\ \A k \in Past : k # n => k \in Past'
  BY <1>1, <1>8 DEF Past
<1>11. VoterTypeOK'
  <2>1. DOMAIN rounds' \subseteq 1 .. best /\ rounds' \in [DOMAIN rounds' -> RoundRecords]
    BY <1>1, <1>3, <1>8, <1>9
  <2> QED  BY <1>1, <1>5, <1>6, <1>7, <2>1 DEF VoterInv, VoterTypeOK, Global
<1>12. RunsOrDown'
  BY <1>1, <1>7, <1>8, <1>9, <1>10 DEF VoterInv, RunsOrDown, Past
<1>13. StatesOfWorld'
  <2>1. stored'.number > 0 => stored'.state \in world.states[stored'.number]
    BY <1>2, <1>7 DEF VoterInv, StatesOfWorld
  <2> QED  BY <1>1, <1>9, <2>1 DEF StatesOfWorld
<1>14. ReportsAreFinal'
  <2>1. \A i \in DOMAIN notifications' : FinalBy(notifications'[i], best)
    BY <1>4, <1>5 DEF VoterInv, ReportsAreFinal
  <2> QED  BY <1>1, <2>1 DEF VoterInv, ReportsAreFinal, FinalBy
<1> DEFINE Heard(b) == b \in Ancestors[chain_finalized] \/ \E i \in DOMAIN notifications' : notifications'[i] = b
<1>15. ReportsAreKnown'
  <2>1. \A b : Known(b) => Heard(b)
    BY <1>5 DEF Known
  <2>2. \A k \in DOMAIN rounds' : rounds'[k].best_finalized # None => Heard(rounds'[k].best_finalized)
    BY <1>5, <1>9, <2>1 DEF VoterInv, ReportsAreKnown
  <2>3. new.best_finalized # None => Heard(new.best_finalized)
    BY <1>2, <1>3, <1>5, <2>1 DEF VoterInv, ReportsAreKnown
  <2>4. \A i \in DOMAIN global_out' : Heard(global_out'[i])
    BY <1>6, <2>1, <2>3 DEF VoterInv, ReportsAreKnown
  <2> QED  BY <1>1, <2>2, <2>4 DEF ReportsAreKnown, Known
<1>16. BaseIsReported'
  <2> DEFINE base == last_finalized_in_rounds
  <2>1. CASE base \in Ancestors[chain_finalized]
    BY <1>1, <2>1 DEF BaseIsReported
  <2>2. CASE WillReport(n)
    <3>1. /\ rounds[n].last = None /\ rounds[n].best_finalized = None /\ rounds[n].state.completable
          /\ rounds[n].state.finalized # None /\ base \in Ancestors[rounds[n].state.finalized]
      BY <2>2 DEF WillReport
    <3>2. t.completable /\ t.finalized # None /\ rounds[n].state.finalized \in Ancestors[t.finalized]
      BY <1>1, <3>1 DEF Advances
    <3>3. reports
      BY <3>1, <3>2 DEF reports, Reports
    <3>4. rounds[n].state.finalized \in Block /\ t.finalized \in Block
      BY <1>3, <1>4, <3>1, <3>3, StateTypes DEF OptionBlock
    <3>5. base \in Ancestors[t.finalized]
      BY <1>3, <3>1, <3>2, <3>4, BelowBelow
    <3>6. \E i \in DOMAIN notifications' : base \in Ancestors[notifications'[i]]
      BY <1>5, <3>3, <3>5
    <3> QED  BY <1>1, <3>6 DEF BaseIsReported
  <2>3. ASSUME NEW k \in Past, k # n, WillReport(k) PROVE BaseIsReported'
    <3>1. /\ k \in Past' /\ rounds'[k].committer = "new" /\ rounds'[k].last = None
          /\ rounds'[k].best_finalized = None /\ rounds'[k].state.completable
          /\ rounds'[k].state.finalized # None /\ base \in Ancestors[rounds'[k].state.finalized]
      BY <1>1, <1>3, <1>10, <2>3 DEF WillReport
    <3> QED  BY <1>1, <3>1 DEF BaseIsReported, WillReport
  <2>4. ASSUME NEW i \in DOMAIN notifications, base \in Ancestors[notifications[i]] PROVE BaseIsReported'
    <3>1. \E j \in DOMAIN notifications' : base \in Ancestors[notifications'[j]]
      BY <1>5, <2>4
    <3> QED  BY <1>1, <3>1 DEF BaseIsReported
  <2> QED  BY <1>1, <2>1, <2>2, <2>3, <2>4 DEF VoterInv, BaseIsReported
<1>17. BaseBelowEstimates'
  <2>1. rounds'[best].base = rounds[best].base
    BY <1>1, <1>3
  <2> QED  BY <1>1, <2>1 DEF VoterInv, BaseBelowEstimates
<1>18. PastIsTold'
  <2>1. \A k \in DOMAIN rounds' : rounds'[k].finalized_number <= last_finalized_number
    BY <1>9 DEF VoterInv, PastIsTold
  <2>2. ASSUME NEW k \in Past', NEW m \in DOMAIN rounds', m > k, rounds'[m].best_finalized # None
        PROVE  \/ \E i \in DOMAIN notifications' : notifications'[i] = rounds'[m].best_finalized
               \/ Number[rounds'[m].best_finalized] <= rounds'[k].finalized_number
    <3>1. k \in Past /\ k \in DOMAIN rounds' /\ m \in DOMAIN rounds
      BY <1>9, <1>10
    <3>2. CASE rounds'[m].best_finalized = rounds[m].best_finalized
      <4>1. \/ \E i \in DOMAIN notifications : notifications[i] = rounds[m].best_finalized
            \/ Number[rounds[m].best_finalized] <= rounds[k].finalized_number
        BY <2>2, <3>1, <3>2 DEF VoterInv, PastIsTold
      <4> QED  BY <1>5, <1>9, <3>1, <3>2, <4>1
    <3>3. CASE reports /\ rounds'[m].best_finalized = t.finalized
      BY <1>5, <3>3
    <3> QED  BY <1>9, <3>2, <3>3
  <2> QED  BY <1>1, <2>1, <2>2 DEF PastIsTold
<1>19. NothingIsLeft'
  BY <1>1 DEF NothingIsLeft
<1> QED  BY <1>11, <1>12, <1>13, <1>14, <1>15, <1>16, <1>17, <1>18, <1>19 DEF VoterInv

-----------------------------------------------------------------------------
(* The invariant *)

LEMMA InitInv ==
    ASSUME VoterInit
    PROVE  VoterInv
<1> DEFINE first == NewRound(Genesis, GenesisState(Genesis))
<1>1. /\ world \in Worlds /\ chain_finalized = Genesis /\ given = Genesis /\ up = TRUE /\ step = "idle"
      /\ stored = [number |-> 0, base |-> Genesis, state |-> GenesisState(Genesis)]
      /\ woken = TRUE /\ best = 1 /\ notifications = <<>> /\ global_in = <<>> /\ global_out = <<>>
      /\ last_finalized_number = Number[Genesis] /\ last_finalized_in_rounds = Genesis
      /\ rounds = With(NoRounds, 1, first)
  BY DEF VoterInit
<1>2. /\ Genesis \in Block /\ MaxRound \in Nat \ {0} /\ Number[Genesis] \in Nat
      /\ Genesis \in Ancestors[Genesis] /\ 1 \in Round
  BY VoterAssumption, BlockTreeAssumption DEF Round
<1>3. /\ first \in RoundRecords /\ first.base = Genesis /\ first.state = Blank
      /\ first.best_finalized = None /\ first.finalized_number = 0
  BY <1>2, StateTypes, RoundTypes
<1> HIDE DEF first
<1>4. DOMAIN rounds = {1} /\ rounds[1] = first /\ rounds = [n \in DOMAIN rounds |-> rounds[n]] /\ Past = {}
  BY <1>1 DEF With, NoRounds, Past
<1>5. VoterTypeOK
  <2>1. stored \in StoredRounds
    BY <1>1, <1>2, StateTypes DEF StoredRounds
  <2>2. rounds \in [DOMAIN rounds -> RoundRecords] /\ DOMAIN rounds \subseteq 1 .. best
    BY <1>1, <1>3, <1>4
  <2>3. notifications \in Seq(Block) /\ global_out \in Seq(Block) /\ global_in \in Seq(Global)
    BY <1>1
  <2> QED  BY <1>1, <1>2, <2>1, <2>2, <2>3 DEF VoterTypeOK
<1>6. RunsOrDown
  BY <1>1, <1>4 DEF RunsOrDown
<1>7. StatesOfWorld
  BY <1>1, <1>2, <1>3, <1>4, WorldTypes DEF StatesOfWorld
<1>8. ReportsAreFinal /\ ReportsAreKnown /\ BaseIsReported
  BY <1>1, <1>2, <1>3, <1>4 DEF ReportsAreFinal, ReportsAreKnown, BaseIsReported
<1>9. BaseBelowEstimates
  BY <1>1, <1>2, <1>3, <1>4 DEF BaseBelowEstimates
<1>10. PastIsTold /\ NothingIsLeft
  BY <1>1, <1>2, <1>3, <1>4 DEF PastIsTold, NothingIsLeft
<1> QED  BY <1>5, <1>6, <1>7, <1>8, <1>9, <1>10 DEF VoterInv

\* One step for each action of VoterNext.
LEMMA StepKeepsInv ==
    ASSUME VoterInv, [VoterNext]_voterVars
    PROVE  VoterInv'
<1>1. CASE VoterNext
  <2>1. CASE BeginPoll \/ BadCatchUp \/ IncomingDone \/ PastDone \/ NotificationsDone \/ FlushGlobal
    BY <2>1, PassingOnKeepsInv
  <2>2. CASE (\E m \in Global : GlobalArrives(m)) \/ Wake
    BY <2>2, ArrivalKeepsInv
  <2>3. CASE \E n \in Past : CommitTimer(n)
    BY <2>3, TimerKeepsInv
  <2>4. CASE ProcessCommit
    BY <2>4, ProcessCommitKeepsInv
  <2>5. CASE CatchUp
    BY <2>5, CatchUpKeepsInv
  <2>6. CASE \E n \in Past : \E t \in world.states[n] : \E voting \in {"Voting", "Precommitted", "None"} :
                 PollPast(n, t, voting)
    BY <2>6, PastKeepsInv
  <2>7. CASE HandleNotification
    BY <2>7, NotificationKeepsInv
  <2>8. CASE \E t \in world.states[best], voting \in {"Voting", "Precommitted"} : PollBest(t, voting)
    BY <2>8, BestKeepsInv
  <2>9. CASE Crash
    BY <2>9, CrashKeepsInv
  <2>10. CASE \E available \in BOOLEAN : Restart(available)
    BY <2>10, RestartKeepsInv
  <2> QED  BY <1>1, <2>1, <2>2, <2>3, <2>4, <2>5, <2>6, <2>7, <2>8, <2>9, <2>10 DEF VoterNext, PollStep
<1>2. CASE UNCHANGED voterVars
  BY <1>2 DEF voterVars, taskVars, finalVars, storageVars, lifeVars, VoterInv, VoterTypeOK, Global, RunsOrDown,
        StatesOfWorld, Past, ReportsAreFinal, FinalBy, ReportsAreKnown, Known, BaseIsReported, WillReport,
        BaseBelowEstimates, PastIsTold, NothingIsLeft
<1> QED  BY <1>1, <1>2

\* VoterInv holds in every state of the voter.
THEOREM VoterInvariant == VoterSpec => []VoterInv
<1>1. VoterInit => VoterInv
  BY InitInv
<1>2. VoterInv /\ [VoterNext]_voterVars => VoterInv'
  BY StepKeepsInv
<1>3. VoterSpec => VoterInit /\ [][VoterNext]_voterVars
  BY PTL DEF VoterSpec
<1> QED  BY <1>1, <1>2, <1>3, PTL

-----------------------------------------------------------------------------
(* The properties *)

\* Voter::poll starts a round on last_finalized_in_rounds, which is raised only once the round
\* that reports a block is behind: the base of the best round is at or below every estimate of
\* the round before it, or is the base that Voter::new was given.
THEOREM BaseStaysBelowEstimates == VoterSpec => []BaseBelowEstimates
<1>1. VoterInv => BaseBelowEstimates
  BY DEF VoterInv
<1> QED  BY <1>1, VoterInvariant, PTL

\* When a poll ends the environment has finalized the base of the next round, also if a
\* catch-up has brought that base: NothingIsLeft has all notifications handled by then.
THEOREM BaseGetsFinalized == VoterSpec => []BaseIsFinalized
<1>1. VoterInv => BaseIsFinalized
  BY DEF VoterInv, BaseIsReported, BaseIsFinalized
<1> QED  BY <1>1, VoterInvariant, PTL

\* The commits that go to the sink in Buffered::poll are for blocks that the environment has
\* finalized before.
THEOREM SentStaysFinalized == VoterSpec => []SentIsFinalized
<1>1. ASSUME VoterInv, step = "flush", NEW i \in DOMAIN global_out
      PROVE  global_out[i] \in Ancestors[chain_finalized]
  <2>1. notifications = <<>> /\ Known(global_out[i])
    BY <1>1 DEF VoterInv, NothingIsLeft, ReportsAreKnown
  <2> QED  BY <2>1 DEF Known
<1>2. VoterInv => SentIsFinalized
  BY <1>1 DEF SentIsFinalized
<1> QED  BY <1>2, VoterInvariant, PTL

\* While the task sleeps, a past round whose estimate a later round has finalized waits for
\* its commit timer: BackgroundRound::is_done holds of no round that is left.
THEOREM NothingLeftBehind == VoterSpec => []NoneLeftBehind
<1>1. ASSUME VoterInv, up, step = "idle", ~woken, NEW n \in Past, Superseded(n)
      PROVE  rounds[n].committer = "open"
  <2>1. PICK m \in DOMAIN rounds :
            /\ m > n /\ rounds[m].best_finalized # None
            /\ Number[rounds[m].best_finalized] >= Number[rounds[n].state.estimate]
    BY <1>1 DEF Superseded
  <2>2. /\ world \in Worlds /\ n \in DOMAIN rounds /\ n \in Round
        /\ rounds[n] \in RoundRecords /\ rounds[m] \in RoundRecords
        /\ rounds[n].state \in world.states[n] /\ rounds[n].state \in RoundStates
    BY <1>1, TypesOfInv
  <2>3. /\ notifications = <<>> /\ ~IsDone(rounds[n])
        /\ rounds[n].committer \notin {"new", "fired", "none"}
    BY <1>1 DEF VoterInv, NothingIsLeft, RunsOrDown
  <2>4. Number[rounds[m].best_finalized] <= rounds[n].finalized_number
    BY <1>1, <2>1, <2>3 DEF VoterInv, PastIsTold
  <2>5. /\ rounds[n].state.estimate \in Block /\ rounds[m].best_finalized \in Block
        /\ rounds[n].finalized_number \in Nat
        /\ rounds[n].committer \in {"none", "new", "open", "fired", "gone"}
    <3>1. rounds[n].state.estimate # None
      BY <1>1, <2>2, WorldTypes DEF Superseded, IsState
    <3> QED  BY <2>1, <2>2, <3>1, StateTypes DEF RoundRecords, OptionBlock
  <2>6. Number[rounds[n].state.estimate] <= rounds[n].finalized_number
    BY <2>1, <2>4, <2>5, BlockTreeAssumption
  <2> QED  BY <2>3, <2>5, <2>6 DEF IsDone
<1>2. VoterInv => NoneLeftBehind
  BY <1>1 DEF NoneLeftBehind
<1> QED  BY <1>2, VoterInvariant, PTL

\* The environment's last finalized block changes only in update_finalized and
\* finalize_block, for a block that is final in some round.
LEMMA ChainChanges ==
    ASSUME VoterInv, VoterNext
    PROVE  chain_finalized' = chain_finalized \/ \E f : FinalBy(f, MaxRound) /\ Finalize(f)
<1>1. ASSUME ProcessCommit
      PROVE  chain_finalized' = chain_finalized \/ \E f : FinalBy(f, MaxRound) /\ Finalize(f)
  <2> PICK m : m = Head(global_in)
    OBVIOUS
  <2>1. /\ m \in Global /\ m.kind = "commit"
    BY <1>1 DEF ProcessCommit, VoterInv, VoterTypeOK
  <2>2. m.target # None => m.number \in Round /\ m.target \in world.commits[m.number]
    BY <2>1, MessageKinds DEF CommitMessage, CatchUpMessage
  <2>3. m.target # None => FinalBy(m.target, MaxRound)
    BY <2>2 DEF FinalBy, FinalOf, Round
  <2> QED  BY <1>1, <2>3 DEF ProcessCommit
<1>2. ASSUME HandleNotification
      PROVE  chain_finalized' = chain_finalized \/ \E f : FinalBy(f, MaxRound) /\ Finalize(f)
  <2>1. 1 \in DOMAIN notifications /\ Head(notifications) = notifications[1]
    BY <1>2 DEF HandleNotification, VoterInv, VoterTypeOK
  <2>2. FinalBy(Head(notifications), best)
    BY <2>1 DEF VoterInv, ReportsAreFinal
  <2>3. FinalBy(Head(notifications), MaxRound)
    BY <2>2, TypesOfInv, VoterAssumption DEF FinalBy, Round
  <2> QED  BY <1>2, <2>3 DEF HandleNotification
<1>3. CASE ~ProcessCommit /\ ~HandleNotification
  BY <1>3 DEF VoterNext, PollStep, BeginPoll, CatchUp, BadCatchUp, IncomingDone, PollPast, PastDone,
        NotificationsDone, FlushGlobal, PollBest, GlobalArrives, Wake, CommitTimer, Crash, Restart, storageVars
<1> QED  BY <1>1, <1>2, <1>3

\* Whoever reports, Environment::finalize_block is called upwards along one chain, and once
\* for a block.
THEOREM FinalityRises == VoterSpec => FinalizesUpward
<1>1. ASSUME VoterInv, [VoterNext]_voterVars, chain_finalized' # chain_finalized
      PROVE  chain_finalized \in Ancestors[chain_finalized'] \ {chain_finalized'}
  <2>1. VoterNext
    BY <1>1 DEF voterVars, storageVars
  <2>2. PICK f : FinalBy(f, MaxRound) /\ Finalize(f)
    BY <1>1, <2>1, ChainChanges
  <2>3. VoterTypeOK /\ ReportsAreFinal /\ PastIsTold
    BY <1>1 DEF VoterInv
  <2> QED  BY <1>1, <2>2, <2>3, FinalizeFacts
<1>2. VoterInv /\ [VoterNext]_voterVars =>
          [chain_finalized' # chain_finalized =>
              chain_finalized \in Ancestors[chain_finalized'] \ {chain_finalized'}]_voterVars
  BY <1>1
<1>3. VoterSpec => [][VoterNext]_voterVars
  BY PTL DEF VoterSpec
<1> QED  BY <1>2, <1>3, VoterInvariant, PTL DEF FinalizesUpward

\* The number of the best round falls in no step: a catch-up brings a later round, and
\* Voter::new starts after the round that was stored last, which is the round before the best.
THEOREM NeverGoesBack == VoterSpec => NeverReturns
<1>1. ASSUME VoterInv, [VoterNext]_voterVars
      PROVE  best' >= best
  <2>1. best \in Nat
    BY <1>1, TypesOfInv
  <2>2. CASE \E t \in world.states[best], voting \in {"Voting", "Precommitted"} : PollBest(t, voting)
    BY <2>1, <2>2 DEF PollBest
  <2>3. CASE CatchUp
    <3> PICK m : m = Head(global_in)
      OBVIOUS
    <3>1. m \in Global /\ m.kind = "catch_up" /\ m.number > best /\ m.state # None /\ best' = m.number + 1
      BY <1>1, <2>3 DEF CatchUp, IsValidCatchUp, VoterInv, VoterTypeOK
    <3>2. m.number \in Nat
      BY <3>1, MessageKinds, VoterAssumption DEF CommitMessage, CatchUpMessage, Round
    <3> QED  BY <2>1, <3>1, <3>2
  <2>4. CASE \E available \in BOOLEAN : Restart(available)
    BY <1>1, <2>1, <2>4 DEF Restart, VoterInv, RunsOrDown
  <2>5. CASE UNCHANGED best
    BY <2>1, <2>5
  <2> QED
    BY <1>1, <2>2, <2>3, <2>4, <2>5
    DEF VoterNext, PollStep, BeginPoll, ProcessCommit, BadCatchUp, IncomingDone, PollPast, PastDone,
        HandleNotification, NotificationsDone, FlushGlobal, GlobalArrives, Wake, CommitTimer, Crash, voterVars
<1>2. VoterInv /\ [VoterNext]_voterVars => [best' >= best]_voterVars
  BY <1>1
<1>3. VoterSpec => [][VoterNext]_voterVars
  BY PTL DEF VoterSpec
<1> QED  BY <1>2, <1>3, VoterInvariant, PTL DEF NeverReturns

\* A round is discarded only by its own poll, or all are by a crash.
LEMMA DiscardedInPoll ==
    ASSUME VoterInv, [VoterNext]_voterVars, up', NEW n \in DOMAIN rounds \ DOMAIN rounds'
    PROVE  /\ n \in Past
           /\ \E t \in world.states[n] : \E voting \in {"Voting", "Precommitted", "None"} :
                  PollPast(n, t, voting)
<1>1. CASE \E k \in Past : \E t \in world.states[k] : \E voting \in {"Voting", "Precommitted", "None"} :
               PollPast(k, t, voting)
  <2>1. PICK k \in Past : \E t \in world.states[k] : \E voting \in {"Voting", "Precommitted", "None"} :
                 PollPast(k, t, voting)
    BY <1>1
  <2>2. PICK t \in world.states[k], voting \in {"Voting", "Precommitted", "None"} : PollPast(k, t, voting)
    BY <2>1
  <2>3. PastPolled(k, t, voting)
    BY <2>2, PollPastFacts
  <2>4. DOMAIN rounds \ {k} \subseteq DOMAIN rounds'
    BY <2>3 DEF PastPolled
  <2> QED  BY <2>1, <2>4
<1>2. CASE ProcessCommit \/ HandleNotification \/ \E k \in Past : CommitTimer(k)
  BY <1>2 DEF ProcessCommit, HandleNotification, CommitTimer, Finalize, Told
<1>3. CASE CatchUp
  BY <1>3 DEF CatchUp, CaughtUp, With
<1>4. CASE \E t \in world.states[best], voting \in {"Voting", "Precommitted"} : PollBest(t, voting)
  BY <1>4 DEF PollBest, With
<1>5. CASE \E available \in BOOLEAN : Restart(available)
  BY <1>5 DEF Restart, VoterInv, RunsOrDown
<1>6. CASE Crash
  BY <1>6 DEF Crash
<1>7. CASE UNCHANGED rounds
  BY <1>7
<1> QED
  BY <1>1, <1>2, <1>3, <1>4, <1>5, <1>6, <1>7
  DEF VoterNext, PollStep, BeginPoll, BadCatchUp, IncomingDone, PastDone, NotificationsDone, FlushGlobal,
      GlobalArrives, Wake, voterVars

\* PastRounds drops a concluded round by the number of its estimate alone.  What anyone has
\* seen finalized in the round is finalized here all the same, because final blocks are on
\* one chain with the last finalized block.
THEOREM ConcludedStaysFinalized == VoterSpec => ConcludedIsFinalized
<1>1. ASSUME VoterInv, [VoterNext]_voterVars, up', NEW n \in DOMAIN rounds \ DOMAIN rounds',
             rounds[n].state.completable, NEW f \in FinalOf(world, n)
      PROVE  f \in Ancestors[chain_finalized]
  <2>1. PICK t \in world.states[n], voting \in {"Voting", "Precommitted", "None"} : PollPast(n, t, voting)
    BY <1>1, DiscardedInPoll
  <2>2. n \in Past /\ PastPolled(n, t, voting)
    BY <1>1, <2>1, DiscardedInPoll, PollPastFacts
  <2>3. PICK new \in RoundRecords :
            /\ new.state \in world.states[n] /\ new.state.completable /\ IsDone(new)
            /\ new.finalized_number = rounds[n].finalized_number
    BY <1>1, <2>2 DEF PastPolled
  <2>4. /\ world \in Worlds /\ n \in Round /\ n \in Nat /\ chain_finalized \in Block
        /\ VoterTypeOK /\ ReportsAreFinal /\ last_finalized_number = Number[chain_finalized]
        /\ rounds[n].finalized_number <= last_finalized_number
    BY <1>1, TypesOfInv DEF VoterInv, VoterTypeOK, ReportsAreFinal, PastIsTold
  <2>5. new.state.estimate \in Block /\ f \in Block /\ f \in Ancestors[new.state.estimate]
    BY <2>3, <2>4, FinalBelowEstimates
  <2>6. Number[new.state.estimate] <= new.finalized_number
    <3>1. new.state.estimate # None
      BY <2>5, BlockTreeAssumption
    <3> QED  BY <2>3, <3>1 DEF IsDone
  <2>7. /\ Number[f] \in Nat /\ Number[new.state.estimate] \in Nat /\ Number[chain_finalized] \in Nat
        /\ Number[f] <= Number[new.state.estimate] /\ new.finalized_number \in Nat
    BY <2>3, <2>4, <2>5, NumbersRise, BlockTreeAssumption DEF RoundRecords
  <2>8. Number[f] <= Number[chain_finalized]
    BY <2>3, <2>4, <2>6, <2>7
  <2> QED  BY <2>4, <2>5, <2>8, ChainOnOneChain, HigherIsAbove
<1>2. VoterInv /\ [VoterNext]_voterVars =>
          [\A n \in DOMAIN rounds \ DOMAIN rounds' :
              up' /\ rounds[n].state.completable =>
                  \A f \in FinalOf(world, n) : f \in Ancestors[chain_finalized]]_voterVars
  BY <1>1
<1>3. VoterSpec => [][VoterNext]_voterVars
  BY PTL DEF VoterSpec
<1> QED  BY <1>2, <1>3, VoterInvariant, PTL DEF ConcludedIsFinalized
=============================================================================
