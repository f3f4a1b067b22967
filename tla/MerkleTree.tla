----------------------------- MODULE MerkleTree -----------------------------
(***************************************************************************)
(* The note tree: PoseidonMerkleTree.sol, an incremental Merkle tree that  *)
(* starts a new tree (epoch) when the current one is full and keeps every  *)
(* root it ever had, and PoseidonMerkleTree.ts, the copy a wallet rebuilds *)
(* from leaves it downloads, in any order, to open its notes.              *)
(*                                                                         *)
(* The Poseidon hash is a free constructor: two nodes are equal exactly    *)
(* when their subtrees are.                                                *)
(***************************************************************************)
EXTENDS Naturals, Sequences, FiniteSets, Functions

CONSTANTS
  Leaves,       \* note commitments
  ZeroLeaf,     \* the padding leaf, ZERO_LEAF
  Height,       \* TREE_HEIGHT: levels of nodes, the leaves included
  MaxInserts    \* bound: leaves ever inserted

ASSUME MerkleTreeAssumption ==
  /\ ZeroLeaf \notin Leaves
  /\ Height \in Nat \ {0}
  /\ MaxInserts \in Nat

VARIABLES
  epoch, nextIndex, currentRoot,
  filledSubtrees,  \* <<epoch, level, index>> -> node, only the nodes written
  knownRoots,
  mirrorEpoch,     \* the epoch the wallet's copy is of
  mirror,          \* hashMap of the copy: <<level, index>> -> node
  inserted         \* history: every leaf, in insertion order

onChain == <<epoch, nextIndex, currentRoot, filledSubtrees, knownRoots, inserted>>
offChain == <<mirrorEpoch, mirror>>
vars == <<onChain, offChain>>

-----------------------------------------------------------------------------
Levels == 0 .. Height - 1
Top == Height - 1
MaxLeafIndex == 2 ^ Top

HashLeftRight(left, right) == <<left, right>>

\* zeros[i] is the root of an empty subtree of height i.
zeros[i \in Levels] ==
  IF i = 0 THEN ZeroLeaf ELSE HashLeftRight(zeros[i - 1], zeros[i - 1])

\* Mutant of Empty: a missing node is taken for a missing leaf.
EmptyLeaf(level) == ZeroLeaf

Empty(level) == zeros[level]

SiblingOf(index) == IF index % 2 = 0 THEN index + 1 ELSE index - 1

\* The index at level i of the node above, and of that node's sibling.
Above(index, i) == index \div 2 ^ i
Beside(index, i) == SiblingOf(Above(index, i))

\* The hashes from a leaf up to the root, level by level, given the siblings on
\* the way: the loop of _insert, of insert and of compute_merkle_root.
Climb(leaf, index, sibling) ==
  LET h[i \in Levels] ==
        IF i = 0 THEN leaf
        ELSE IF Above(index, i - 1) % 2 = 0
             THEN HashLeftRight(h[i - 1], sibling[i - 1])
             ELSE HashLeftRight(sibling[i - 1], h[i - 1])
  IN  h

\* Mutant of StorageKey: the epochs share their nodes.
SharedKey(e, level, index) == <<0, level, index>>

StorageKey(e, level, index) == <<e, level, index>>

ReadNode(store, key, level) ==
  IF key \in DOMAIN store THEN store[key] ELSE Empty(level)

\* The store with the nodes given by new written over the old ones.
Write(store, new) ==
  [k \in DOMAIN store \cup DOMAIN new |->
     IF k \in DOMAIN new THEN new[k] ELSE store[k]]

-----------------------------------------------------------------------------
(* The contract *)

\* The state that the constructor and setPoseidon leave.
Init ==
  /\ epoch = 0 /\ nextIndex = 0
  /\ currentRoot = zeros[Top] /\ knownRoots = {zeros[Top]}
  /\ filledSubtrees = << >>
  /\ inserted = << >>
  /\ mirrorEpoch = 0 /\ mirror = << >>

\* Mutant of Full: one leaf too many goes into a tree.
OverFull == nextIndex > MaxLeafIndex

Full == nextIndex = MaxLeafIndex

\* _insert: roll over to a fresh epoch if the tree is full, write the path of
\* the new leaf, remember the new root.  Commitments are fresh (each note has
\* its own secret).  MaxInserts is a bound.
Insert(leaf) ==
  LET e    == IF Full THEN epoch + 1 ELSE epoch
      at   == IF Full THEN 0 ELSE nextIndex
      path == Climb(leaf, at,
                [i \in Levels |-> ReadNode(filledSubtrees,
                                           StorageKey(e, i, Beside(at, i)), i)])
      keys == [i \in Levels |-> StorageKey(e, i, Above(at, i))]
  IN
  /\ Len(inserted) < MaxInserts /\ leaf \notin Range(inserted)
  /\ epoch' = e
  /\ nextIndex' = at + 1
  /\ filledSubtrees' = Write(filledSubtrees,
        [k \in Range(keys) |-> path[CHOOSE i \in Levels : keys[i] = k]])
  /\ currentRoot' = path[Top]
  /\ knownRoots' = knownRoots \cup {path[Top]}
  /\ inserted' = Append(inserted, leaf)
  /\ UNCHANGED offChain

-----------------------------------------------------------------------------
(* A wallet's copy of one epoch *)

EpochSize(e) == IF e < epoch THEN MaxLeafIndex ELSE nextIndex
LeafAt(e, index) == inserted[e * MaxLeafIndex + index + 1]

\* A new, empty copy.
MirrorEpoch(e) ==
  /\ mirrorEpoch' = e /\ mirror' = << >>
  /\ UNCHANGED onChain

\* getProof(index): the siblings on the way up, as the copy has them.
GetProof(index) ==
  [i \in Levels |-> ReadNode(mirror, <<i, Beside(index, i)>>, i)]

\* insert(leaf, index): leaves arrive in any order and more than once.
MirrorInsert(index) ==
  LET path == Climb(LeafAt(mirrorEpoch, index), index, GetProof(index)) IN
  /\ mirror' = Write(mirror,
        [k \in {<<i, Above(index, i)>> : i \in Levels} |-> path[k[1]]])
  /\ UNCHANGED <<mirrorEpoch, onChain>>

GetRoot == ReadNode(mirror, <<Top, 0>>, Top)

\* getProof(index), replayed by the circuits' compute_merkle_root.
OpenedRoot(leaf, index) == Climb(leaf, index, GetProof(index))[Top]

Next ==
  \/ \E leaf \in Leaves : Insert(leaf)
  \/ \E e \in 0 .. epoch : MirrorEpoch(e)
  \/ \E index \in 0 .. EpochSize(mirrorEpoch) - 1 : MirrorInsert(index)

Spec == Init /\ [][Next]_vars

-----------------------------------------------------------------------------
(* Properties *)

\* The nodes of the tree with the leaves given by a partial function from
\* positions, from their definition: every absent leaf is the zero leaf.
ReferenceNodes(leafAt) ==
  LET node[level \in Levels] ==
        IF level = 0
        THEN [i \in 0 .. MaxLeafIndex - 1 |->
                IF i \in DOMAIN leafAt THEN leafAt[i] ELSE ZeroLeaf]
        ELSE [i \in 0 .. 2 ^ (Top - level) - 1 |->
                <<node[level - 1][2 * i], node[level - 1][2 * i + 1]>>]
  IN  node

ReferenceRoot(leafAt) == ReferenceNodes(leafAt)[Top][0]

\* The reference root of the tree the first n leaves of the log end in.
PrefixRoot(n) ==
  LET start == IF n = 0 THEN 0 ELSE ((n - 1) \div MaxLeafIndex) * MaxLeafIndex
  IN  ReferenceRoot([i \in 0 .. n - start - 1 |-> inserted[start + i + 1]])

\* Incremental insertion computes the Merkle root: the contract's root is the
\* reference root of the leaves of the current epoch.  And knownRoots is neither
\* forgetful nor generous: exactly the roots that every prefix of the log had,
\* sealed epochs included.
RootIsReference ==
  /\ currentRoot = PrefixRoot(Len(inserted))
  /\ knownRoots = {PrefixRoot(n) : n \in 0 .. Len(inserted)}

MirrorHas == {k[2] : k \in {key \in DOMAIN mirror : key[1] = 0}}

\* Whatever order the leaves arrive in, the wallet's root is the reference root
\* of what arrived; it is a root the contract accepts exactly when what arrived
\* is a prefix of the epoch, and then every leaf of it opens against that root.
MirrorOpensNotes ==
  LET has == MirrorHas IN
  /\ GetRoot = ReferenceRoot([i \in has |-> LeafAt(mirrorEpoch, i)])
  /\ GetRoot \in knownRoots <=> has = 0 .. Cardinality(has) - 1
  /\ \A i \in has : OpenedRoot(LeafAt(mirrorEpoch, i), i) = GetRoot

\* The leaves as the contract's storage holds them, epoch after epoch.
StoredLog ==
  [n \in 1 .. epoch * MaxLeafIndex + nextIndex |->
     ReadNode(filledSubtrees,
       StorageKey((n - 1) \div MaxLeafIndex, 0, (n - 1) % MaxLeafIndex), 0)]

Log == INSTANCE LeafLog WITH
  log <- StoredLog,
  roots <- {n \in 0 .. Len(inserted) : PrefixRoot(n) \in knownRoots}

\* The tree implements the append-only log: no insertion or rollover overwrites
\* a stored leaf of this or another epoch, and no root is lost.
ImplementsLog == Log!Spec
=============================================================================
