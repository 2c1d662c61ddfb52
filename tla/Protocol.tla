------------------------------ MODULE Protocol ------------------------------
(***************************************************************************)
(* The protocol that the voters run together: several rounds, each voter   *)
(* with its own view of them.  A voter that follows voter/voting_round.rs  *)
(* prevotes at or above the estimate of the last round and precommits the  *)
(* prevote-GHOST, both as it sees them; round.rs says what it sees.        *)
(*                                                                         *)
(* Messages may be lost, late, duplicated or out of order: a view is any   *)
(* part of the votes cast.  Voters in Byzantine show any view what they    *)
(* like, two votes included.  A voter may come to a round by a catch-up,   *)
(* without having voted in the one before.                                 *)
(*                                                                         *)
(* WorldSeen is the world that a voter (Voter.tla) lives in.               *)
(***************************************************************************)
EXTENDS RoundVotes, World

ASSUME MaxRoundAssumption == MaxRound \in Nat

VARIABLES
    prevotes,       \* prevotes[r][v]: what correct voter v prevotes in round r, or None
    precommits      \* precommits[r][v]: likewise

protocolVars == <<prevotes, precommits>>

Correct == Voter \ Byzantine

NoVotes == [v \in Correct |-> None]

ProtocolInit ==
    /\ prevotes = [r \in 1 .. MaxRound |-> NoVotes]
    /\ precommits = [r \in 1 .. MaxRound |-> NoVotes]

-----------------------------------------------------------------------------
(* What a voter sees *)

\* What is heard of the votes vs of correct voters, from those in S, and of the others' lies.
Heard(vs, S, lies) ==
    [v \in Voter |-> IF v \in Byzantine THEN lies[v] ELSE IF v \in S THEN vs[v] ELSE None]

\* The views of the votes vs of correct voters: a part of them, and anything of the others,
\* with the voters seen to vote twice.
ViewsOf(vs) ==
    {x \in [votes        : {Heard(vs, S, lies) : S \in SUBSET Correct, lies \in [Byzantine -> OptionBlock]},
            equivocators : SUBSET Byzantine] :
        \A v \in x.equivocators : x.votes[v] # None}

\* Slip: half of the votes make a GHOST.
PrevoteGhostOfHalf(x) ==
    LET heavy == {b \in Block : 2 * Weight[On(x.votes, x.equivocators, b)] >= TotalWeight}
    IN  IF heavy = {} THEN None
        ELSE CHOOSE g \in heavy : \A b \in heavy : Number[b] <= Number[g]

\* Round::import_prevote: the prevote-GHOST in view x of the prevotes.
PrevoteGhost(x) ==
    IF Weight[Voted(x.votes)] < Threshold THEN None
    ELSE CHOOSE g \in Ghosts(x.votes, x.votes, x.votes, x.equivocators) : TRUE

\* Round::update: the state for the prevote-GHOST g and view x of the precommits.  (That the
\* round looks only at blocks with votes makes no difference: EstimateIsBound.)
RoundState(g, x) ==
    LET heavy    == {b \in Block : Heavy(x.votes, x.equivocators, b)}
        possible == {b \in Block : Possible(x.votes, x.equivocators, b)}
        e        == CHOOSE y \in Highest(g, possible) : TRUE
    IN  IF Weight[Voted(x.votes)] < Threshold
        THEN [prevote_ghost |-> g, estimate |-> g, finalized |-> None, completable |-> FALSE]
        ELSE [prevote_ghost |-> g,
              estimate      |-> e,
              finalized     |-> CHOOSE y \in Highest(g, heavy) : TRUE,
              completable   |-> e # None /\ (e = g => \A b \in possible : ~Below(g, b))]

\* Slip: the estimate is what is finalized.
EstimateOfFinalized(g, x) == RoundState(g, x).finalized

\* The estimate of a round that is completable; None for another.
Estimate(g, x) ==
    LET s == RoundState(g, x)
    IN  IF s.completable THEN s.estimate ELSE None

\* The pairs of prevotes and a prevote-GHOST that some view of them has.
SeenGhosts ==
    UNION {{<<pvs, PrevoteGhost(x)>> : x \in ViewsOf(pvs)} : pvs \in [Correct -> OptionBlock]}

\* The triples of precommits, a prevote-GHOST and the estimate that some view of them has.
SeenEstimates ==
    UNION {{<<pcs, g, Estimate(g, x)>> : g \in Block, x \in ViewsOf(pcs)} : pcs \in [Correct -> OptionBlock]}

\* The prevote-GHOSTs of all views of round r.
GhostsSeen(r) == {g \in Block : <<prevotes[r], g>> \in SeenGhosts}

\* The estimates of all views of round r that are completable; round 0 is that of genesis.
EstimatesSeen(r) ==
    IF r = 0 THEN {Base}
    ELSE {e \in Block : \E g \in GhostsSeen(r) : <<precommits[r], g, e>> \in SeenEstimates}

-----------------------------------------------------------------------------
(* What a voter does *)

\* VotingRound::prevote, in a round started on a completable last one with estimate e: the
\* best chain that contains e, or a primary's hint above it.
Prevote(v, r, e, b) ==
    /\ prevotes[r][v] = None
    /\ e \in Ancestors[b]
    /\ prevotes' = [prevotes EXCEPT ![r][v] = b]
    /\ UNCHANGED precommits

\* VotingRound::precommit: the prevote-GHOST g, if the last round's estimate e is below it.
Precommit(v, r, e, g) ==
    /\ prevotes[r][v] # None
    /\ precommits[r][v] = None
    /\ e \in Ancestors[g]
    /\ precommits' = [precommits EXCEPT ![r][v] = g]
    /\ UNCHANGED prevotes

ProtocolNext ==
    \E r \in 1 .. MaxRound : \E e \in EstimatesSeen(r - 1), v \in Correct :
        \/ \E b \in Block : Prevote(v, r, e, b)
        \/ \E g \in GhostsSeen(r) : Precommit(v, r, e, g)

ProtocolSpec == ProtocolInit /\ [][ProtocolNext]_protocolVars

-----------------------------------------------------------------------------
(* Properties *)

\* The blocks that some view, or a commit, shows to be final in round r.
FinalIn(r) ==
    {b \in Block :
        Weight[Byzantine \union {v \in Correct : precommits[r][v] # None /\ b \in Ancestors[precommits[r][v]]}]
            >= Threshold}

\* The states that views of round r have: until a prevote-GHOST is seen, the blank one.
StatesSeen(r) ==
    {Blank} \union {RoundState(g, x) : g \in GhostsSeen(r), x \in ViewsOf(precommits[r])}

\* The world that the votes cast make.  The base of a round is genesis or was finalized.
WorldSeen ==
    [states  |-> [r \in Round |-> StatesSeen(r)],
     bases   |-> [r \in Round |-> {Base} \union UNION {FinalIn(m) : m \in Round}],
     commits |-> [r \in Round |-> FinalIn(r)]]

\* Blocks finalized in any rounds by any views are on one chain.
FinalityAgrees ==
    \A m, n \in 1 .. MaxRound : \A f \in FinalIn(m), g \in FinalIn(n) :
        f \in Ancestors[g] \/ g \in Ancestors[f]

\* What is final in a round, now or later known, is at or below the estimate that any voter
\* has of it or of a later round: no voter has left it for another branch.
EstimatesAboveFinal ==
    \A n \in 1 .. MaxRound : \A m \in n .. MaxRound :
        \A f \in FinalIn(n), e \in EstimatesSeen(m) : f \in Ancestors[e]

-----------------------------------------------------------------------------
(***************************************************************************)
(* The inductive invariant behind these properties: every vote of a        *)
(* correct voter has its reason, an estimate of the last round below it    *)
(* and, for a precommit, a prevote-GHOST.  As more votes become known      *)
(* views are only added, so a reason stays one.                            *)
(***************************************************************************)

ProtocolTypeOK ==
    /\ prevotes \in [1 .. MaxRound -> [Correct -> OptionBlock]]
    /\ precommits \in [1 .. MaxRound -> [Correct -> OptionBlock]]

\* b is at or above some voter's estimate of the round before r.
Grounded(r, b) == \E e \in EstimatesSeen(r - 1) : e \in Ancestors[b]

PrevotesGrounded ==
    \A r \in 1 .. MaxRound : \A v \in Correct :
        prevotes[r][v] # None => Grounded(r, prevotes[r][v])

PrecommitsGrounded ==
    \A r \in 1 .. MaxRound : \A v \in Correct :
        precommits[r][v] # None =>
            precommits[r][v] \in GhostsSeen(r) /\ Grounded(r, precommits[r][v])

ProtocolInv == ProtocolTypeOK /\ PrevotesGrounded /\ PrecommitsGrounded
=============================================================================
