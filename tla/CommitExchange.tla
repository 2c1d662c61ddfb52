--------------------------- MODULE CommitExchange ---------------------------
(***************************************************************************)
(* The commit a voter makes from its round (RoundCommitter::commit sends   *)
(* the finalized block with finalizing_precommits, past_rounds.rs) and     *)
(* what a peer's validate_commit says to it.  The round is driven as in    *)
(* RoundImports; the commit travels in its compact form.                   *)
(***************************************************************************)
EXTENDS RoundImports, Commit

MakeCommit(r) == [target |-> r.finalized, precommits |-> FinalizingPrecommits(r)]

Delivered(r) == ExpandCommit(CompactCommit(MakeCommit(r)))

Accepted(r) == \E result \in ValidateCommit(Delivered(r)) : result.valid

-----------------------------------------------------------------------------
(* Properties *)

\* A commit that a round makes, after any imports, carries a supermajority for the block it
\* finalizes: single votes at or above it and voters shown to equivocate, each once.
CommitCarriesSupermajority ==
    round.finalized # None =>
        LET sent    == Delivered(round).precommits
            ids     == {s.id : s \in ToSet(sent)}
            of(id)  == {s.ballot : s \in {t \in ToSet(sent) : t.id = id}}
            backing == {id \in ids : \/ Cardinality(of(id)) = 2
                                     \/ \E x \in of(id) : round.finalized \in Ancestors[x.target]}
        IN  /\ SumOfWeights[backing] >= Voters.threshold
            /\ ids = backing

\* A peer accepts the commit unless the sender has seen precommits reach past its own
\* prevote-GHOST, or includes an equivocator's vote for another fork.
PeerAcceptsCommit ==
    round.finalized # None =>
        LET best     == FindGhosts(round.graph, None, Supermajority(round, "precommit"))
            targets  == {s.ballot.target : s \in ToSet(Delivered(round).precommits)}
            oneChain == \E t \in targets : \A u \in targets : t \in Ancestors[u]
        IN  Accepted(round) = (oneChain /\ best = {round.finalized})
=============================================================================
