----------------------------- MODULE MerkleTree -----------------------------
(***************************************************************************)
(* The Merkle tree over the transactions of a block: elements are added,   *)
(* the tree is finalized once, and proofs are taken from it and verified   *)
(* against its root.  The element count and all indices are bytes in the   *)
(* code, so the tree holds at most 255 elements; hashes are terms, equal   *)
(* only when what they hash is.  What FinalizeTree computes is a function  *)
(* of the elements d.  TransactionGroup says which steps follow which.     *)
(***************************************************************************)
EXTENDS Naturals, SequencesExt

VARIABLES
  elements,  \* uint8
  data,      \* one number per element: no two transactions are equal
  levelHash, \* per level, the root at 0, and per index, a hash
  finalized,
  asked,     \* the element a proof was last asked for
  proof,     \* the answer
  panicked   \* an index was out of range

treeVars == <<elements, data, levelHash, finalized, asked, proof, panicked>>

(* Variant: an empty slice is hashed.                                      *)
LeafOfNothing(a) == [data |-> 0]

Leaf(a) == [data |-> a]

Join(l, r) == [left |-> l, right |-> r]
Uint8(n) == n % 256
NoProof == [applicationOrder |-> 0, proofSize |-> 0, proofArray |-> <<>>, data |-> 0]

(* bits.Len8(elements) - 1: the deepest level that is completely filled.   *)
LowerLevel(n) == CHOOSE l \in 0..7 : 2^l <= n /\ n < 2^(l + 1)

(* How many elements lie below that level.                                 *)
BitsOnHighLevel(n) == Uint8(2 * (n - 2^LowerLevel(n)))

(* Variant: the capacity is off by one, and the count wraps.               *)
AddOneMore ==
  /\ ~finalized /\ ~panicked
  /\ IF elements <= 255
     THEN elements' = Uint8(elements + 1) /\ data' = Append(data, Len(data) + 1)
     ELSE UNCHANGED <<elements, data>>
  /\ UNCHANGED <<levelHash, finalized, asked, proof, panicked>>

Add ==
  /\ ~finalized /\ ~panicked
  /\ IF elements <= 254
     THEN elements' = Uint8(elements + 1) /\ data' = Append(data, Len(data) + 1)
     ELSE UNCHANGED <<elements, data>>
  /\ UNCHANGED <<levelHash, finalized, asked, proof, panicked>>

HashPairs(level, n) == [j \in 0..(n - 1) |-> Join(level[2 * j], level[2 * j + 1])]

HighLevel(d) == [i \in 0..(BitsOnHighLevel(Len(d)) - 1) |-> Leaf(d[i + 1])]

(* Variant: the elements already hashed below are not skipped rightly.     *)
FullLevelShifted(d) ==
  LET joined == BitsOnHighLevel(Len(d)) \div 2
      highLevel == HighLevel(d)
  IN [i \in 0..(2^LowerLevel(Len(d)) - 1) |->
        IF i < joined THEN Join(highLevel[2 * i], highLevel[2 * i + 1]) ELSE Leaf(d[i + 1])]

(* The deepest full level: joined pairs of the level below, then elements. *)
FullLevel(d) ==
  LET joined == BitsOnHighLevel(Len(d)) \div 2
      highLevel == HighLevel(d)
  IN [i \in 0..(2^LowerLevel(Len(d)) - 1) |->
        IF i < joined THEN Join(highLevel[2 * i], highLevel[2 * i + 1])
                      ELSE Leaf(d[i + joined + 1])]

(* All levels: each one above the deepest full one joins pairs.            *)
LevelHash(d) ==
  LET lowerLevel == LowerLevel(Len(d))
      depth == IF BitsOnHighLevel(Len(d)) = 0 THEN lowerLevel ELSE lowerLevel + 1
      level[i \in 0..depth] == IF i > lowerLevel THEN HighLevel(d)
                               ELSE IF i = lowerLevel THEN FullLevel(d)
                               ELSE HashPairs(level[i + 1], 2^i)
  IN level

(* With no element the level of the root does not exist and the index is   *)
(* out of range.                                                           *)
FinalizeTree ==
  /\ ~finalized /\ ~panicked
  /\ IF elements = 0
     THEN panicked' = TRUE /\ UNCHANGED <<levelHash, finalized>>
     ELSE levelHash' = LevelHash(data) /\ finalized' = TRUE /\ UNCHANGED panicked
  /\ UNCHANGED <<elements, data, asked, proof>>

MerkleRoot == levelHash[0][0]

(* Bit i of a number, and the neighbour of an index: k^1.                  *)
Bit(k, i) == (k \div 2^i) % 2
Neighbour(k) == IF k % 2 = 0 THEN k + 1 ELSE k - 1

(* Variant: the index is shifted before its neighbour is taken.            *)
ProofArrayShifted(order, size) ==
  [i \in 1..size |-> levelHash[size - i + 1][Neighbour(order \div 2^i)]]

(* One hash per level from the element up: the neighbour on its path.      *)
ProofArray(order, size) ==
  [i \in 1..size |-> levelHash[size - i + 1][Neighbour(order \div 2^(i - 1))]]

(* The level of an element, and its index there, whose bits say on which   *)
(* side its hash is at each join.                                          *)
ProofSize(n) == IF n < BitsOnHighLevel(elements) THEN LowerLevel(elements) + 1
                                                 ELSE LowerLevel(elements)
ApplicationOrder(n) == IF n < BitsOnHighLevel(elements) THEN n
                                                        ELSE n - BitsOnHighLevel(elements) \div 2

(* The proof of a tree of one element is the element, whichever is asked.  *)
(* Bound: one proof is taken of a tree, which does not change it.          *)
GenerareteMerkleProof(n) ==
  /\ finalized /\ proof = NoProof
  /\ asked' = n
  /\ proof' = IF elements = 1 THEN [NoProof EXCEPT !.data = data[1]]
              ELSE IF n >= elements THEN NoProof
              ELSE [applicationOrder |-> ApplicationOrder(n),
                    proofSize |-> ProofSize(n),
                    proofArray |-> ProofArray(ApplicationOrder(n), ProofSize(n)),
                    data |-> data[n + 1]]
  /\ UNCHANGED <<elements, data, levelHash, finalized, panicked>>

(* The root recomputed from the data and the proof's hashes.               *)
VerifyProofStruct(ps, expected) ==
  LET temp[i \in 0..ps.proofSize] ==
        IF i = 0 THEN Leaf(ps.data)
        ELSE IF Bit(ps.applicationOrder, i - 1) = 1 THEN Join(ps.proofArray[i], temp[i - 1])
        ELSE Join(temp[i - 1], ps.proofArray[i])
  IN temp[ps.proofSize] = expected

-----------------------------------------------------------------------------
(* InitializeMerkleTree.                                                   *)
TreeInit ==
  /\ elements = 0 /\ data = <<>> /\ levelHash = <<>> /\ finalized = FALSE
  /\ asked = 0 /\ proof = NoProof /\ panicked = FALSE

-----------------------------------------------------------------------------
(* The variables range over the values the fields of the code can hold,    *)
(* and the byte that counts the elements never wraps.                      *)
TypeOK ==
  /\ elements \in 0..255 /\ data \in Seq(Nat) /\ elements = Len(data)
  /\ finalized \in BOOLEAN /\ panicked \in BOOLEAN /\ asked \in 0..255
  /\ proof.applicationOrder \in 0..255 /\ proof.proofSize \in 0..8
  /\ Len(proof.proofArray) = proof.proofSize

(* What a hash stands for: it is opened, then what it joins, down to the   *)
(* elements, each of which is left with its level and its index there.     *)
Halves(node) ==
  IF "data" \in DOMAIN node.hash THEN {node}
  ELSE {[level |-> node.level + 1, index |-> 2 * node.index, hash |-> node.hash.left],
        [level |-> node.level + 1, index |-> 2 * node.index + 1, hash |-> node.hash.right]}

Leaves(hash) ==
  LET opened[i \in 0..8] == IF i = 0 THEN {[level |-> 0, index |-> 0, hash |-> hash]}
                            ELSE UNION {Halves(node) : node \in opened[i - 1]}
  IN opened[8]

(* The root commits to every element, at its place, and to nothing else.   *)
RootCommitsToAll ==
  finalized =>
    Leaves(MerkleRoot) = {[level |-> ProofSize(n), index |-> ApplicationOrder(n),
                           hash |-> Leaf(data[n + 1])] : n \in 0..(elements - 1)}

Answered == finalized /\ proof # NoProof /\ asked < elements

(* The proof of an element carries that element and is accepted against    *)
(* the root, whatever the number of elements.                              *)
ProofsVerify ==
  Answered => proof.data = data[asked + 1] /\ VerifyProofStruct(proof, MerkleRoot)

(* It proves nothing else: with other data it is rejected.                 *)
ProofsBind ==
  Answered => \A a \in Range(data) \ {proof.data} :
                ~VerifyProofStruct([proof EXCEPT !.data = a], MerkleRoot)
=============================================================================
