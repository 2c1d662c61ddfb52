--------------------------- MODULE MCVotingRound ---------------------------
(* VotingRound for TLC: the base G with a fork c and the chain a <- b, and X below the base;
   alice, of weight 4, runs the round with bob (7) and eve (3), of a threshold of 10. *)
EXTENDS VotingRound, Forest, FiniteSetsExt

MCParent    == [X |-> "X", G |-> "X", a |-> "G", b |-> "a", c |-> "G"]
MCBlock     == DOMAIN MCParent
MCAncestors == AncestorsOf(MCParent)
MCNumber    == NumberOf(MCParent, 0)
MCVoter     == {"alice", "bob", "eve"}
MCWeights   == [alice |-> 4, bob |-> 7, eve |-> 3]
MCWeight    == [S \in SUBSET MCVoter |-> MapThenSumSet(LAMBDA v : MCWeights[v], S)]

\* Of the last round, its estimate b is a block that may be finalized there; it moves down to
\* a, which only this round may finalize.
MCLast(est, fin) == [prevote_ghost |-> "b", estimate |-> est, finalized |-> fin, completable |-> TRUE]
MCLastStates == {MCLast("b", "G"), MCLast("a", "G")}

\* Bob votes on either fork and, as primary, hints at a block on the chain of the last round or
\* on the fork; eve's prevote below the base is ignored.
MCMessages ==
    {Message("prevote", "bob", "b"), Message("prevote", "bob", "c"),
     Message("precommit", "bob", "a"),
     Message("propose", "bob", "a"), Message("propose", "bob", "c"),
     Message("prevote", "eve", "X"), Message("precommit", "eve", "a")}

\* For what happens eventually: the chain without the fork, one change of the last round, and
\* alice (1) with bob (3), who has a supermajority of his own and prevotes either block.
MCChain          == {"G", "a", "b"}
MCChainAncestors == [b \in MCChain |-> MCAncestors[b] \ {"X"}]
MCChainNumber    == [b \in MCChain |-> MCNumber[b]]
MCChainLast      == {MCLast("b", "G"), MCLast("a", "a")}
MCPair           == {"alice", "bob"}
MCPairWeight     == [S \in SUBSET MCPair |-> (IF "alice" \in S THEN 1 ELSE 0) + (IF "bob" \in S THEN 3 ELSE 0)]
MCPairMessages   ==
    {Message("prevote", "bob", "a"), Message("prevote", "bob", "b"),
     Message("precommit", "bob", "a")}
=============================================================================
