------------------------------ MODULE MCMessages ------------------------------
(* CatchUpValidation for TLC: three voters of weights 4, 7 and 3 (threshold 10) and one that
   is not in the set; blocks G <- a <- {b, c}. *)
EXTENDS CatchUpValidation, Forest

MCParent    == [G |-> "G", a |-> "G", b |-> "a", c |-> "a"]
MCBlock     == DOMAIN MCParent
MCAncestors == AncestorsOf(MCParent)
MCNumber    == NumberOf(MCParent, 0)
MCVoters    == NewVoterSet(<<[id |-> 1, weight |-> 4], [id |-> 2, weight |-> 7],
                             [id |-> 3, weight |-> 3]>>)

By(id, targets) == {[id |-> id, ballot |-> [target |-> t, signature |-> "s"]] : t \in targets}

MCSigned == By(1, {"a", "b"}) \union By(2, {"a", "b", "c"}) \union By(3, {"G", "b"}) \union By(9, {"G"})

\* Catch-ups: votes on two forks, a vote below one of the bases, an equivocator's.
MCCatchUpSigned == By(1, {"b"}) \union By(2, {"c"}) \union By(3, {"G", "c"}) \union By(9, {"c"})
=============================================================================
