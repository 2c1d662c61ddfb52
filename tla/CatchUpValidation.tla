------------------------- MODULE CatchUpValidation -------------------------
(***************************************************************************)
(* Validation of whatever a peer may send, a commit as in CommitValidation *)
(* or a catch-up: short lists of votes by anyone for anything, on a base   *)
(* the peer chooses.                                                       *)
(***************************************************************************)
EXTENDS CommitValidation, CatchUp

CONSTANTS
    CatchUpBases,   \* the bases a catch-up may have
    CatchUpSigned,  \* the signed votes [id, ballot] it may contain
    MaxCatchUpVotes \* bound on the number of its votes in each phase

VARIABLES
    catch_up,   \* the catch-up received, or None
    made        \* the state of the round that validate_catch_up returned, or None

messageVars == <<commitVars, catch_up, made>>

MessageInit == CommitInit /\ catch_up = None /\ made = None

ReceiveCatchUp(base, prevotes, precommits) ==
    /\ catch_up' = [base |-> base, prevotes |-> prevotes, precommits |-> precommits]
    /\ made' \in {IF r = None THEN None ELSE StateOf(r) : r \in ValidateCatchUp(catch_up')}
    /\ UNCHANGED commitVars

MessageNext ==
    \/ catch_up = None /\ CommitNext /\ UNCHANGED <<catch_up, made>>
    \/ /\ commit = None /\ catch_up = None
       /\ \E base \in CatchUpBases, n, m \in 1 .. MaxCatchUpVotes :
              \E prevotes \in [1 .. n -> CatchUpSigned], precommits \in [1 .. m -> CatchUpSigned] :
                  ReceiveCatchUp(base, prevotes, precommits)

MessageSpec == MessageInit /\ [][MessageNext]_messageVars

-----------------------------------------------------------------------------
(* Properties *)

SumOfWeights == [S \in SUBSET VoterIds(Voters) |-> WeightOfIds(Voters, S)]

\* The definitions of RoundVotes, for a round with the base of the catch-up.
Votes(base) == INSTANCE RoundVotes WITH
    Voter <- VoterIds(Voters), Weight <- SumOfWeights, Base <- base, Byzantine <- {}

\* The first vote of each voter in a list, and the voters with more than one.
FirstOf(signed) ==
    [id \in VoterIds(Voters) |->
        LET mine == SelectSeq(signed, LAMBDA s : s.id = id)
        IN  IF mine = <<>> THEN None ELSE mine[1].ballot.target]

TwiceIn(signed) ==
    {id \in VoterIds(Voters) : Cardinality({s.ballot : s \in {t \in ToSet(signed) : t.id = id}}) > 1}

\* What update() is to compute from these votes, for the prevote-GHOST ghost.
RoundOf(base, ghost, pvs, pcs, pcEq) ==
    LET possible == {b \in Block : Votes(base)!Possible(pcs, pcEq, b)}
        heavy    == {b \in Block : Votes(base)!Heavy(pcs, pcEq, b)}
        above    == {b \in Block : Votes(base)!InGraph(pvs, pcs, b) /\ Votes(base)!Below(ghost, b)}
    IN  {[prevote_ghost |-> ghost, finalized |-> final, estimate |-> est,
          completable   |-> est # None /\ (est # ghost \/ above \intersect possible = {})]
         : final \in Votes(base)!Highest(ghost, heavy), est \in Votes(base)!Highest(ghost, possible)}

\* validate_catch_up ("return a completed round with all prevotes and precommits from the
\* catch up imported", mod.rs), for every list with tolerably few equivocators: a round comes
\* out exactly when all votes are known voters', no first vote is off the base, and the votes
\* by themselves make a round completable; it has the estimate and the finalized block the
\* votes define, however they were repeated and ordered.
CatchUpIsExact ==
    catch_up # None =>
        LET signed   == ToSet(catch_up.prevotes) \union ToSet(catch_up.precommits)
            pvs      == FirstOf(catch_up.prevotes)
            pcs      == FirstOf(catch_up.precommits)
            pvEq     == TwiceIn(catch_up.prevotes)
            pcEq     == TwiceIn(catch_up.precommits)
            weight(votes) == SumOfWeights[{id \in VoterIds(Voters) : votes[id] # None}]
            fits(votes)   == \A id \in VoterIds(Voters) :
                                 votes[id] # None => IsEqualOrDescendentOf(catch_up.base, votes[id])
            ghosts   == Votes(catch_up.base)!Ghosts(pvs, pcs, pvs, pvEq) \ {None}
            rounds   == {r \in UNION {RoundOf(catch_up.base, g, pvs, pcs, pcEq) : g \in ghosts}
                         : r.completable}
        IN  SumOfWeights[pvEq \union pcEq] <= Voters.total_weight - Voters.threshold =>
            IF /\ \A s \in signed : s.id \in VoterIds(Voters)
               /\ fits(pvs) /\ fits(pcs)
               /\ weight(pvs) >= Voters.threshold /\ weight(pcs) >= Voters.threshold
               /\ rounds # {}
            THEN made \in rounds
            ELSE made = None
=============================================================================
