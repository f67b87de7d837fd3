------------------------------- MODULE Merkle -------------------------------
(***************************************************************************)
(* The Merkle tree over the event hashes of a batch: the root that is      *)
(* signed and timestamped, the proof an evidence bundle carries for each   *)
(* event, and the check a verifier makes of it.                            *)
(*                                                                         *)
(* SHA-256 is free: digests of different inputs are different terms.  The  *)
(* variable is the number of leaves of the tree under examination; the     *)
(* leaves are the hashes of different events.                              *)
(***************************************************************************)
EXTENDS Naturals, Sequences, SequencesExt

CONSTANT MaxLeaves      \* bound: events in one batch

ASSUME MerkleAssumption == MaxLeaves \in Nat \ {0}

VARIABLE leaves         \* how many leaves the tree has

\* The hash of event e, and the digest of two concatenated hashes.
Leaf(e) == [event |-> e, of |-> <<>>]

Digest(a, b) == [event |-> 0, of |-> <<a, b>>]

\* Mutant: the last node of an odd level moves up as it is.
ParentPromoted(L, i) == IF 2 * i <= Len(L) THEN Digest(L[2 * i - 1], L[2 * i]) ELSE L[2 * i - 1]

\* The i-th node above level L.  An odd level is extended by its last node.
Parent(L, i) == Digest(L[2 * i - 1], L[IF 2 * i <= Len(L) THEN 2 * i ELSE Len(L)])

LevelAbove(L) == [i \in 1..((Len(L) + 1) \div 2) |-> Parent(L, i)]

\* The levels of the tree over L, the leaves at height 0.
Level(L) ==
    LET level[k \in 0..Len(L)] == IF k = 0 THEN L ELSE LevelAbove(level[k - 1])
    IN  level

\* The loop goes on while a level has more than one node.
Height(L) ==
    CHOOSE k \in 0..Len(L) :
        Len(Level(L)[k]) = 1 /\ \A j \in 0..(k - 1) : Len(Level(L)[j]) > 1

Tree(L) == [k \in 0..Height(L) |-> Level(L)[k]]

MerkleRoot(L) == Tree(L)[Height(L)][1]

\* idx //= 2: the position of the (0-based) index at each of n heights.
Path(index, n) ==
    LET at[k \in 0..n] == IF k = 0 THEN index ELSE at[k - 1] \div 2
    IN  at

Sibling(idx) == IF idx % 2 = 1 THEN idx - 1 ELSE idx + 1

\* The sibling of a node; that of the last node of an odd level is its copy.
SiblingNode(level, idx) ==
    LET s == Sibling(idx) + 1
    IN  level[IF s <= Len(level) THEN s ELSE Len(level)]

\* merkle_proof: the sibling at every height below the root.
MerkleProof(L, index) ==
    LET T == Tree(L)
        path == Path(index, Height(L))
    IN  [k \in 1..Height(L) |-> SiblingNode(T[k - 1], path[k - 1])]

\* One turn of the loop of verify_merkle_proof: the index says on which side.
Combine(idx, current, sibling) ==
    IF idx % 2 = 1 THEN Digest(sibling, current) ELSE Digest(current, sibling)

\* The loop, from the leaf up.
Climb(leaf, index, proof) ==
    LET path == Path(index, Len(proof))
        up[k \in 0..Len(proof)] == IF k = 0 THEN leaf ELSE Combine(path[k - 1], up[k - 1], proof[k])
    IN  up

VerifyMerkleProof(leaf, index, proof, root) == Climb(leaf, index, proof)[Len(proof)] = root

-----------------------------------------------------------------------------
EventHashes == [i \in 1..leaves |-> Leaf(i)]

MerkleInit == leaves = 1

\* One more event in the batch.
AddLeaf == leaves < MaxLeaves /\ leaves' = leaves + 1

MerkleSpec == MerkleInit /\ [][AddLeaf]_leaves

-----------------------------------------------------------------------------
\* For every number of leaves, the proof made for a leaf verifies that leaf
\* at its index, and no other leaf and at no other index of the batch.
ProofsVerifyExactly ==
    LET root == MerkleRoot(EventHashes)
    IN  \A k \in 1..leaves :
            LET proof == MerkleProof(EventHashes, k - 1)
            IN  \A i \in 1..leaves, j \in 1..leaves :
                    VerifyMerkleProof(Leaf(i), j - 1, proof, root) <=> i = k /\ j = k
=============================================================================
