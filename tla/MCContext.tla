----------------------------- MODULE MCContext -----------------------------
(* ContextSpec for TLC: sets from every list of up to three entries; votes of one of them,
   with two bits for each of its three voters over words of four bits, so that bitfields have
   zero, one or two words. *)
EXTENDS ContextSpec

MCInUse == {<<[id |-> 3, weight |-> 1], [id |-> 1, weight |-> 4], [id |-> 2, weight |-> 6]>>}
MCSymmetry == Permutations(Node)
=============================================================================
