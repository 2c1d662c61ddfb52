------------------------- MODULE MCBackgroundRound -------------------------
(* BackgroundRound for TLC: the base G with the chain a <- b, and X below the base; alice, of
   weight 4, with bob (7), the primary, and eve (3), of a threshold of 10. *)
EXTENDS BackgroundRound, Forest, FiniteSetsExt

MCParent    == [X |-> "X", G |-> "X", a |-> "G", b |-> "a"]
MCBlock     == DOMAIN MCParent
MCAncestors == AncestorsOf(MCParent)
MCNumber    == NumberOf(MCParent, 0)
MCVoter     == {"alice", "bob", "eve"}
MCWeights   == [alice |-> 4, bob |-> 7, eve |-> 3]
MCWeight    == [S \in SUBSET MCVoter |-> MapThenSumSet(LAMBDA v : MCWeights[v], S)]

\* The estimate of the last round is finalized there.
MCLastStates ==
    {[prevote_ghost |-> "b", estimate |-> "a", finalized |-> "a", completable |-> TRUE]}

\* Bob is correct; eve precommits twice, once below the base.
MCMessages ==
    {Message("prevote", "bob", "b"), Message("precommit", "bob", "b"),
     Message("precommit", "eve", "a"), Message("precommit", "eve", "X")}

\* For what happens eventually: the chain without X.
MCChain          == {"G", "a", "b"}
MCChainAncestors == [b \in MCChain |-> MCAncestors[b] \ {"X"}]
MCChainNumber    == [b \in MCChain |-> MCNumber[b]]
MCChainMessages  == {m \in MCMessages : m.target \in MCChain}
=============================================================================
