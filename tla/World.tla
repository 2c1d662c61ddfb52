------------------------------- MODULE World -------------------------------
(***************************************************************************)
(* What the votes of consecutive rounds can lead to, as a voter meets it:  *)
(* the states a round can report (Round::state), the blocks a peer's       *)
(* commit can show to be final, the bases of peers' rounds.  Voter lives   *)
(* in a world; Protocol says which worlds the voters make.                 *)
(***************************************************************************)
EXTENDS BlockTree

CONSTANT MaxRound   \* bound: rounds

Round == 1 .. MaxRound

\* A round that has seen nothing.
Blank == [prevote_ghost |-> None, estimate |-> None, finalized |-> None, completable |-> FALSE]

RoundStates ==
    [prevote_ghost : OptionBlock, estimate : OptionBlock, finalized : OptionBlock, completable : BOOLEAN]

\* The estimate of a state is on the chain to its prevote-GHOST, and its finalized block below
\* (FinalizedBelowEstimate of RoundSpec).
IsState(s) ==
    /\ s.finalized # None => s.estimate # None /\ s.finalized \in Ancestors[s.estimate]
    /\ s.estimate # None => s.prevote_ghost # None /\ s.estimate \in Ancestors[s.prevote_ghost]
    /\ s.completable => s.estimate # None

\* The blocks with a supermajority of precommits in round n.
FinalOf(w, n) == ({s.finalized : s \in w.states[n]} \ {None}) \union w.commits[n]

\* f and g are on one chain.
OnOneChain(f, g) == f \in Ancestors[g] \/ g \in Ancestors[f]

\* What is final in a round is at or below the estimate of every completable view of it and
\* of later rounds, and final blocks are on one chain, which is that of genesis.
IsWorld(w, genesis) ==
    /\ w.states \in [Round -> SUBSET RoundStates]
    /\ w.bases \in [Round -> SUBSET Block] /\ w.commits \in [Round -> SUBSET Block]
    /\ \A n \in Round : Blank \in w.states[n] /\ \A s \in w.states[n] : IsState(s)
    /\ \A n \in Round : \A f \in FinalOf(w, n) :
           /\ OnOneChain(f, genesis)
           /\ \A m \in n .. MaxRound :
                  /\ \A s \in w.states[m] : s.completable => f \in Ancestors[s.estimate]
                  /\ \A g \in FinalOf(w, m) : OnOneChain(f, g)
=============================================================================
