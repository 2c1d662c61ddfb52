----------------------------- MODULE BlockTree -----------------------------
(***************************************************************************)
(* The chain of blocks that GRANDPA votes on, as the crate sees it through *)
(* the trait Chain (lib.rs): block hashes, their numbers, and the question *)
(* which blocks lie between a base and a block.  The chain itself belongs  *)
(* to the embedding node; the crate never changes it.                      *)
(***************************************************************************)
EXTENDS Naturals, Sequences

CONSTANTS
    Block,      \* the block hashes
    None,       \* the value None of an Option<(H, N)>
    Number,     \* Number[b]: the number of block b
    Ancestors   \* Ancestors[b]: block b and all blocks below it

(***************************************************************************)
(* What makes the blocks a forest: Ancestors is a partial order that is    *)
(* linear below each block, and numbers rise by one along every edge.      *)
(***************************************************************************)
ASSUME BlockTreeAssumption ==
    /\ None \notin Block
    /\ Number \in [Block -> Nat]
    /\ Ancestors \in [Block -> SUBSET Block]
    /\ \A b \in Block : b \in Ancestors[b]
    /\ \A a, b \in Block : a \in Ancestors[b] => Ancestors[a] \subseteq Ancestors[b]
    /\ \A b \in Block : \A x, y \in Ancestors[b] : x \in Ancestors[y] \/ y \in Ancestors[x]
    /\ \A a, b \in Block : a \in Ancestors[b] /\ a # b => Number[a] < Number[b]

\* No block number is skipped along a chain (used by the vote-graph's offsets).
ASSUME ContiguityAssumption ==
    \A b \in Block : \A a \in Ancestors[b] : \A n \in Number[a] .. Number[b] :
        \E x \in Ancestors[b] : Number[x] = n

\* An Option<(H, N)>; the number of a hash is Number[hash], so the pair is the hash.
OptionBlock == Block \union {None}

\* Chain::is_equal_or_descendent_of
IsEqualOrDescendentOf(base, block) == base \in Ancestors[block]

\* The block with number n on the chain that ends in b.
AncestorAt(b, n) == CHOOSE x \in Ancestors[b] : Number[x] = n

\* Chain::ancestry: from the parent of block down to, and without, base.  Asked only
\* for a strict descendent; otherwise the call is Err(NotDescendent).
Ancestry(base, block) ==
    [i \in 1 .. (Number[block] - Number[base] - 1) |-> AncestorAt(block, Number[block] - i)]
=============================================================================
