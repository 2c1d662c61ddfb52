-------------------------- MODULE CommitValidation --------------------------
(***************************************************************************)
(* Validation of whatever commit a peer may send: any short list of        *)
(* precommits by anyone for anything, and any target.                      *)
(***************************************************************************)
EXTENDS Commit

CONSTANTS
    Signed,         \* the signed precommits [id, ballot] a commit may contain
    MaxPrecommits   \* bound on their number

VARIABLES
    commit,     \* the commit received, or None
    result      \* what validate_commit returned, or None

commitVars == <<commit, result>>

CommitInit == commit = None /\ result = None

ReceiveCommit(c) ==
    /\ commit' = c
    /\ result' \in ValidateCommit(c)

CommitNext ==
    /\ commit = None
    /\ \E target \in Block, n \in 0 .. MaxPrecommits :
           \E precommits \in [1 .. n -> Signed] :
               ReceiveCommit([target |-> target, precommits |-> precommits])

-----------------------------------------------------------------------------
(* Properties *)

Ballots(id) == {s.ballot : s \in {t \in ToSet(commit.precommits) : t.id = id}}

Equivocators == {id \in VoterIds(Voters) : Cardinality(Ballots(id)) > 1}

WeightOf(ids) == MapThenSumSet(LAMBDA id : WeightOfVoter(Voters, id), ids)

\* The weight behind block b in the commit, by definition: each known voter once.
CommitWeight(b) ==
    WeightOf({id \in VoterIds(Voters) :
        id \in Equivocators \/ \E x \in Ballots(id) : b \in Ancestors[x.target]})

\* is_valid: "implies that the target block in the commit is finalized" (lib.rs).  A commit
\* judged valid carries a supermajority for its target, from distinct known voters, however
\* its precommits repeat each other, and for no block above the target.  No import fails, as
\* the base check precedes them.
ValidIsJustified ==
    /\ commit # None => ~result.failed
    /\ commit # None /\ result.valid =>
           /\ CommitWeight(commit.target) >= Voters.threshold
           /\ \A s \in ToSet(commit.precommits) :
                 WeightOf(Equivocators) < Voters.threshold =>
                     \A b \in Ancestors[s.ballot.target] \ {commit.target} :
                         commit.target \in Ancestors[b] => CommitWeight(b) < Voters.threshold

\* Conversely a commit for the best such block is accepted when all its precommits are at
\* or above one of them.
JustifiedIsValid ==
    commit # None =>
        LET targets == {s.ballot.target : s \in {t \in ToSet(commit.precommits) :
                                                     t.id \in VoterIds(Voters)}}
            inChain(b) == \E t \in targets : b \in Ancestors[t]
        IN  (/\ \E t \in targets : \A u \in targets : t \in Ancestors[u]
             /\ \E t \in targets : t \in Ancestors[commit.target]
             /\ WeightOf(Equivocators) < Voters.threshold
             /\ CommitWeight(commit.target) >= Voters.threshold
             /\ \A b \in Block : inChain(b) /\ b # commit.target /\ commit.target \in Ancestors[b]
                    => CommitWeight(b) < Voters.threshold)
            => result.valid
=============================================================================
