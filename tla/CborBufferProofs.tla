------------------------- MODULE CborBufferProofs -------------------------
(***************************************************************************)
(* Proofs about CborBuffer, for any number of objects, cells and blocks:   *)
(* the memory of cbor::Buffer, and the items beside it.                    *)
(***************************************************************************)
EXTENDS CborBuffer, CborItemProofs

-----------------------------------------------------------------------------
(***************************************************************************)
(* cbor::Buffer and its blocks.                                            *)
(***************************************************************************)

BuffersTyped ==
  /\ m_buffer \in [Live -> Blocks \cup {nullptr}]
  /\ m_size \in [Live -> Nat]
  /\ allocated \in [Blocks -> Nat \cup {FREE}]

\* No block has two owners.
BlocksAreOwn ==
  \A a, b \in Live : m_buffer[a] = m_buffer[b] /\ m_buffer[a] # nullptr => a = b

\* A pointer is to a block that was allocated with the size beside it.
SizesAreRight ==
  \A b \in Live : m_buffer[b] # nullptr => allocated[m_buffer[b]] = m_size[b]

\* No block is left behind.
BlocksAreOwned ==
  \A k \in Blocks : allocated[k] # FREE => \E b \in Live : m_buffer[b] = k

BInv == BuffersTyped /\ BlocksAreOwn /\ SizesAreRight /\ BlocksAreOwned

\* What BuffersOwnTheirMemory counts.
LEMMA OwnersAreCounted == BInv => BuffersOwnTheirMemory
<1> SUFFICES ASSUME BInv, NEW k \in Blocks
             PROVE  Cardinality({b \in Live : m_buffer[b] = k}) =
                      IF allocated[k] = FREE THEN 0 ELSE 1
  BY DEF BInv, SizesAreRight, BuffersOwnTheirMemory
<1> DEFINE own == {b \in Live : m_buffer[b] = k}
<1>1. k # nullptr
  BY NullBlockAssumption
<1>2. CASE allocated[k] = FREE
  <2>1. own = {}
    BY <1>1, <1>2 DEF BInv, SizesAreRight, BuffersTyped, FREE
  <2> QED
    BY <1>2, <2>1, FS_EmptySet
<1>3. CASE allocated[k] # FREE
  <2>1. PICK b \in Live : m_buffer[b] = k
    BY <1>3 DEF BInv, BlocksAreOwned
  <2>2. own = {b}
    BY <1>1, <2>1 DEF BInv, BlocksAreOwn
  <2>3. Cardinality(own) = 1
    BY <2>2, FS_Singleton
  <2> QED
    BY <1>3, <2>3
<1> QED
  BY <1>2, <1>3

\* A block put into an object, new or not, that had none, or whose own block has
\* been freed.
LEMMA HoldKeepsBlocks ==
  ASSUME BInv, NEW b, NEW block \in Blocks \cup {nullptr}, NEW size \in Nat,
         Hold(b, block, size),
         NEW blocks \in [Blocks -> Nat \cup {FREE}],
         \A k \in Blocks : (b \in Live => k # m_buffer[b]) => blocks[k] = allocated[k],
         b \in Live /\ m_buffer[b] # nullptr => blocks[m_buffer[b]] = FREE,
         block # nullptr => blocks[block] = FREE,
         allocated' = IF block = nullptr THEN blocks ELSE [blocks EXCEPT ![block] = size]
  PROVE  BInv'
<1>1. /\ Live' = Live \cup {b} /\ DOMAIN m_size' = Live'
      /\ m_buffer'[b] = block /\ m_size'[b] = size
      /\ \A d \in Live : d # b => m_buffer'[d] = m_buffer[d] /\ m_size'[d] = m_size[d]
  BY DEF Hold, Live
<1>2. /\ allocated' \in [Blocks -> Nat \cup {FREE}]
      /\ block # nullptr => block \in Blocks /\ allocated'[block] = size
      /\ \A k \in Blocks : k # block => allocated'[k] = blocks[k]
  BY NullBlockAssumption
<1>3. BuffersTyped'
  <2>1. m_buffer' \in [Live' -> Blocks \cup {nullptr}]
    BY <1>1 DEF BInv, BuffersTyped, Hold
  <2>2. m_size' \in [Live' -> Nat]
    BY <1>1 DEF BInv, BuffersTyped, Hold
  <2> QED
    BY <1>2, <2>1, <2>2 DEF BuffersTyped
\* Another object that points to the block would own what was free.
<1>4. ASSUME NEW d \in Live, d # b, block # nullptr PROVE m_buffer[d] # block
  <2>1. SUFFICES ASSUME m_buffer[d] = block PROVE FALSE
    OBVIOUS
  <2>2. allocated[block] = m_size[d] /\ m_size[d] \in Nat /\ block \in Blocks
    BY <1>4, <2>1 DEF BInv, SizesAreRight, BuffersTyped
  <2>3. blocks[block] # FREE
    BY <1>4, <2>1, <2>2 DEF BInv, BlocksAreOwn, FREE
  <2> QED
    BY <1>4, <2>3
<1>5. BlocksAreOwn'
  BY <1>1, <1>4 DEF BInv, BlocksAreOwn
<1>6. SizesAreRight'
  <2>1. ASSUME NEW d \in Live', m_buffer'[d] # nullptr
        PROVE  allocated'[m_buffer'[d]] = m_size'[d]
    <3>1. CASE d = b
      BY <1>1, <1>2, <2>1, <3>1
    <3>2. CASE d # b
      <4>1. /\ d \in Live /\ m_buffer'[d] = m_buffer[d] /\ m_size'[d] = m_size[d]
            /\ m_buffer[d] \in Blocks
        BY <1>1, <2>1, <3>2 DEF BInv, BuffersTyped
      <4>2. m_buffer[d] # block
        BY <1>4, <2>1, <3>2, <4>1
      <4>3. blocks[m_buffer[d]] = allocated[m_buffer[d]]
        BY <2>1, <3>2, <4>1 DEF BInv, BlocksAreOwn
      <4> QED
        BY <1>2, <2>1, <4>1, <4>2, <4>3 DEF BInv, SizesAreRight
    <3> QED
      BY <3>1, <3>2
  <2> QED
    BY <2>1 DEF SizesAreRight
<1>7. BlocksAreOwned'
  <2>1. ASSUME NEW k \in Blocks, allocated'[k] # FREE
        PROVE  \E d \in Live' : m_buffer'[d] = k
    <3>1. CASE k = block
      BY <1>1, <3>1
    <3>2. CASE k # block
      <4>1. blocks[k] # FREE
        BY <1>2, <2>1, <3>2
      <4>2. b \in Live => k # m_buffer[b]
        BY <4>1, NullBlockAssumption
      <4>3. blocks[k] = allocated[k]
        BY <4>2
      <4>4. PICK d \in Live : m_buffer[d] = k
        BY <4>1, <4>3 DEF BInv, BlocksAreOwned
      <4> QED
        BY <1>1, <4>2, <4>4
    <3> QED
      BY <3>1, <3>2
  <2> QED
    BY <2>1 DEF BlocksAreOwned
<1> QED
  BY <1>3, <1>5, <1>6, <1>7 DEF BInv

\* A new object gets a block that was free, or none.
LEMMA MakingKeepsBlocks ==
  ASSUME BInv, NEW b, b \notin Live, NEW block \in Blocks, NEW size \in Nat,
         malloc(allocated, block, size), Hold(b, block, size)
  PROVE  BInv'
<1>1. /\ allocated[block] = FREE /\ allocated' = [allocated EXCEPT ![block] = size]
      /\ block # nullptr /\ allocated \in [Blocks -> Nat \cup {FREE}]
  BY NullBlockAssumption DEF malloc, BInv, BuffersTyped
<1>2. /\ \A k \in Blocks : (b \in Live => k # m_buffer[b]) => allocated[k] = allocated[k]
      /\ b \in Live /\ m_buffer[b] # nullptr => allocated[m_buffer[b]] = FREE
      /\ block # nullptr => allocated[block] = FREE
      /\ allocated' = IF block = nullptr THEN allocated ELSE [allocated EXCEPT ![block] = size]
      /\ block \in Blocks \cup {nullptr}
  BY <1>1
<1> QED
  BY <1>1, <1>2, HoldKeepsBlocks

LEMMA NewBufferKeepsBlocks ==
  ASSUME BInv, NEW b, new_buffer(b)
  PROVE  BInv'
<1>1. /\ Hold(b, nullptr, 0) /\ b \notin Live /\ allocated' = allocated
      /\ allocated \in [Blocks -> Nat \cup {FREE}]
  BY DEF new_buffer, BInv, BuffersTyped
<1>2. /\ \A k \in Blocks : (b \in Live => k # m_buffer[b]) => allocated[k] = allocated[k]
      /\ b \in Live /\ m_buffer[b] # nullptr => allocated[m_buffer[b]] = FREE
      /\ allocated' = IF nullptr = nullptr THEN allocated ELSE [allocated EXCEPT ![nullptr] = 0]
      /\ nullptr \in Blocks \cup {nullptr} /\ 0 \in Nat
  BY <1>1
<1> QED
  BY <1>1, <1>2, HoldKeepsBlocks

\* Freeing the block of an object leaves the other blocks alone.
LEMMA FreeingOne ==
  ASSUME BInv, NEW b \in Live
  PROVE  LET blocks == free(allocated, m_buffer[b])
         IN  /\ blocks \in [Blocks -> Nat \cup {FREE}]
             /\ \A k \in Blocks : k # m_buffer[b] => blocks[k] = allocated[k]
             /\ m_buffer[b] # nullptr => blocks[m_buffer[b]] = FREE
BY NullBlockAssumption DEF free, BInv, BuffersTyped

LEMMA AssignKeepsBlocks ==
  ASSUME BInv, NEW b, NEW other, assign_buffer(b, other)
  PROVE  BInv'
<1> DEFINE blocks == free(allocated, m_buffer[b])
<1>1. b \in Live /\ other \in Live /\ m_size[other] \in Nat
  BY DEF assign_buffer, BInv, BuffersTyped
<1>2. /\ blocks \in [Blocks -> Nat \cup {FREE}]
      /\ m_buffer[b] # nullptr => blocks[m_buffer[b]] = FREE
      /\ \A k \in Blocks : (b \in Live => k # m_buffer[b]) => blocks[k] = allocated[k]
  <2> blocks \in [Blocks -> Nat \cup {FREE}]
    BY <1>1, FreeingOne
  <2>1. \A k \in Blocks : k # m_buffer[b] => blocks[k] = allocated[k]
    BY <1>1, FreeingOne
  <2>2. m_buffer[b] # nullptr => blocks[m_buffer[b]] = FREE
    BY <1>1, FreeingOne
  <2> HIDE DEF blocks
  <2> QED
    BY <1>1, <2>1, <2>2, NullBlockAssumption
<1>3. \/ \E block \in Blocks :
            malloc(blocks, block, m_size[other]) /\ Hold(b, block, m_size[other])
      \/ allocated' = blocks /\ Hold(b, nullptr, m_size[other])
  BY DEF assign_buffer
<1> HIDE DEF blocks
<1>4. ASSUME NEW block \in Blocks, malloc(blocks, block, m_size[other]), Hold(b, block, m_size[other])
      PROVE  BInv'
  <2>1. /\ blocks[block] = FREE /\ allocated' = [blocks EXCEPT ![block] = m_size[other]]
        /\ block # nullptr
    BY <1>4, NullBlockAssumption DEF malloc
  <2> QED
    BY <1>1, <1>2, <1>4, <2>1, HoldKeepsBlocks, ZenonT(60)
<1>5. CASE allocated' = blocks /\ Hold(b, nullptr, m_size[other])
  BY <1>1, <1>2, <1>5, HoldKeepsBlocks
<1> QED
  BY <1>3, <1>4, <1>5

LEMMA MoveKeepsBlocks ==
  ASSUME BInv, NEW b, NEW other, move_buffer(b, other)
  PROVE  BInv'
<1>1. /\ b \notin Live /\ other \in Live /\ other # b /\ allocated' = allocated
      /\ Live' = Live \cup {b} /\ DOMAIN m_size' = Live'
      /\ m_buffer'[b] = m_buffer[other] /\ m_size'[b] = m_size[other]
      /\ m_buffer'[other] = nullptr /\ m_size'[other] = 0
      /\ \A d \in Live : d # other => m_buffer'[d] = m_buffer[d] /\ m_size'[d] = m_size[d]
  BY DEF move_buffer, Live
<1>2. BuffersTyped'
  BY <1>1 DEF BInv, BuffersTyped, move_buffer
<1>3. BlocksAreOwn'
  <2>1. ASSUME NEW c \in Live', NEW d \in Live', m_buffer'[c] = m_buffer'[d], m_buffer'[c] # nullptr
        PROVE  c = d
    <3>1. c # other /\ d # other
      BY <1>1, <2>1
    <3> QED
      BY <1>1, <2>1, <3>1 DEF BInv, BlocksAreOwn
  <2> QED
    BY <2>1 DEF BlocksAreOwn
<1>4. SizesAreRight'
  BY <1>1 DEF BInv, SizesAreRight
<1>5. BlocksAreOwned'
  BY <1>1 DEF BInv, BlocksAreOwned
<1> QED
  BY <1>2, <1>3, <1>4, <1>5 DEF BInv

LEMMA MoveAssignKeepsBlocks ==
  ASSUME BInv, NEW b, NEW other, move_assign_buffer(b, other)
  PROVE  BInv'
<1>1. /\ b \in Live /\ other \in Live /\ other # b
      /\ allocated' = free(allocated, m_buffer[b])
      /\ m_buffer' = [m_buffer EXCEPT ![b] = m_buffer[other], ![other] = nullptr]
      /\ m_size' = [m_size EXCEPT ![b] = m_size[other], ![other] = 0]
  BY DEF move_assign_buffer
<1>2. /\ Live' = Live
      /\ m_buffer'[b] = m_buffer[other] /\ m_size'[b] = m_size[other]
      /\ m_buffer'[other] = nullptr /\ m_size'[other] = 0
      /\ \A d \in Live : d # b /\ d # other => m_buffer'[d] = m_buffer[d] /\ m_size'[d] = m_size[d]
  BY <1>1 DEF BInv, BuffersTyped, Live
<1>3. /\ allocated' \in [Blocks -> Nat \cup {FREE}]
      /\ \A k \in Blocks : k # m_buffer[b] => allocated'[k] = allocated[k]
      /\ m_buffer[b] # nullptr => allocated'[m_buffer[b]] = FREE
  BY <1>1, FreeingOne
<1>4. BuffersTyped'
  BY <1>1, <1>2, <1>3 DEF BInv, BuffersTyped
<1>5. BlocksAreOwn'
  <2>1. ASSUME NEW c \in Live, NEW d \in Live, m_buffer'[c] = m_buffer'[d], m_buffer'[c] # nullptr
        PROVE  c = d
    <3>1. c # other /\ d # other
      BY <1>2, <2>1
    <3>2. CASE c = b
      BY <1>1, <1>2, <2>1, <3>1, <3>2 DEF BInv, BlocksAreOwn
    <3>3. CASE c # b
      BY <1>1, <1>2, <2>1, <3>1, <3>3 DEF BInv, BlocksAreOwn
    <3> QED
      BY <3>2, <3>3
  <2> QED
    BY <1>2, <2>1 DEF BlocksAreOwn
<1>6. SizesAreRight'
  <2>1. ASSUME NEW d \in Live, m_buffer'[d] # nullptr
        PROVE  allocated'[m_buffer'[d]] = m_size'[d]
    <3>1. PICK e \in Live \ {b} : m_buffer'[d] = m_buffer[e] /\ m_size'[d] = m_size[e]
      BY <1>1, <1>2, <2>1
    <3>2. m_buffer[e] # m_buffer[b] /\ m_buffer[e] \in Blocks
      BY <1>1, <2>1, <3>1 DEF BInv, BlocksAreOwn, BuffersTyped
    <3> QED
      BY <1>3, <2>1, <3>1, <3>2 DEF BInv, SizesAreRight
  <2> QED
    BY <1>2, <2>1 DEF SizesAreRight
<1>7. BlocksAreOwned'
  <2>1. ASSUME NEW k \in Blocks, allocated'[k] # FREE
        PROVE  \E d \in Live : m_buffer'[d] = k
    <3>1. k # m_buffer[b] /\ allocated[k] # FREE
      BY <1>3, <2>1, NullBlockAssumption
    <3>2. PICK d \in Live : m_buffer[d] = k
      BY <3>1 DEF BInv, BlocksAreOwned
    <3> QED
      BY <1>1, <1>2, <3>1, <3>2
  <2> QED
    BY <1>2, <2>1 DEF BlocksAreOwned
<1> QED
  BY <1>4, <1>5, <1>6, <1>7 DEF BInv

LEMMA DestroyKeepsBlocks ==
  ASSUME BInv, NEW b, destroy_buffer(b)
  PROVE  BInv'
<1>1. /\ b \in Live /\ allocated' = free(allocated, m_buffer[b])
      /\ Live' = Live \ {b} /\ DOMAIN m_size' = Live'
      /\ \A d \in Live' : m_buffer'[d] = m_buffer[d] /\ m_size'[d] = m_size[d]
  BY DEF destroy_buffer, Live
<1>2. /\ allocated' \in [Blocks -> Nat \cup {FREE}]
      /\ \A k \in Blocks : k # m_buffer[b] => allocated'[k] = allocated[k]
      /\ m_buffer[b] # nullptr => allocated'[m_buffer[b]] = FREE
  BY <1>1, FreeingOne
<1>3. BuffersTyped'
  BY <1>1, <1>2 DEF BInv, BuffersTyped, destroy_buffer
<1>4. BlocksAreOwn'
  BY <1>1 DEF BInv, BlocksAreOwn
<1>5. SizesAreRight'
  <2>1. ASSUME NEW d \in Live', m_buffer[d] # nullptr
        PROVE  m_buffer[d] # m_buffer[b] /\ m_buffer[d] \in Blocks
    BY <1>1, <2>1 DEF BInv, BlocksAreOwn, BuffersTyped
  <2> QED
    BY <1>1, <1>2, <2>1 DEF BInv, SizesAreRight
<1>6. BlocksAreOwned'
  <2>1. ASSUME NEW k \in Blocks, allocated'[k] # FREE
        PROVE  \E d \in Live' : m_buffer'[d] = k
    <3>1. k # m_buffer[b] /\ allocated[k] # FREE
      BY <1>2, <2>1, NullBlockAssumption
    <3>2. PICK d \in Live : m_buffer[d] = k
      BY <3>1 DEF BInv, BlocksAreOwned
    <3> QED
      BY <1>1, <3>1, <3>2
  <2> QED
    BY <2>1 DEF BlocksAreOwned
<1> QED
  BY <1>3, <1>4, <1>5, <1>6 DEF BInv

LEMMA InitOwnsBlocks == BufferInit => BInv
BY DEF BufferInit, BInv, BuffersTyped, BlocksAreOwn, SizesAreRight, BlocksAreOwned, Live

LEMMA StepKeepsBlocks ==
  ASSUME BInv, [BufferNext]_<<vars, memory>>
  PROVE  BInv'
<1>1. CASE UNCHANGED memory
  BY <1>1 DEF memory, BInv, BuffersTyped, BlocksAreOwn, SizesAreRight, BlocksAreOwned, Live
<1>2. ASSUME NEW b, NEW o, serialise(b, o) PROVE BInv'
  <2>1. PICK block \in Blocks, size \in 1 .. MaxSize :
          malloc(allocated, block, size) /\ Hold(b, block, size)
    BY <1>2 DEF serialise
  <2>2. b \notin Live /\ size \in Nat
    BY <1>2, BoundsAssumption DEF serialise
  <2> QED
    BY <2>1, <2>2, MakingKeepsBlocks
<1>3. ASSUME NEW b, NEW other, copy_buffer(b, other) PROVE BInv'
  <2>1. PICK block \in Blocks :
          malloc(allocated, block, m_size[other]) /\ Hold(b, block, m_size[other])
    BY <1>3 DEF copy_buffer
  <2>2. b \notin Live /\ m_size[other] \in Nat
    BY <1>3 DEF copy_buffer, BInv, BuffersTyped
  <2> QED
    BY <2>1, <2>2, MakingKeepsBlocks
<1>4. CASE BufferStep
  BY <1>2, <1>3, <1>4, NewBufferKeepsBlocks, AssignKeepsBlocks, MoveKeepsBlocks,
     MoveAssignKeepsBlocks, DestroyKeepsBlocks DEF BufferStep
<1> QED
  BY <1>1, <1>4 DEF BufferNext, ItemStep

\* Whatever is copied, moved, assigned or destroyed, and whichever allocation
\* fails, every block allocated for a cbor::Buffer is owned by exactly one, and
\* has the size that Buffer says.
THEOREM BuffersOwnTheirMemoryHolds == BufferSpec => []BuffersOwnTheirMemory
<1>1. BInv /\ [BufferNext]_<<vars, memory>> => BInv'
  BY StepKeepsBlocks
<1> QED
  BY <1>1, InitOwnsBlocks, OwnersAreCounted, PTL DEF BufferSpec

-----------------------------------------------------------------------------
(***************************************************************************)
(* cbor::Item beside cbor::Buffer.                                         *)
(***************************************************************************)

\* A Buffer changes nothing of the items, and loading one builds an item.
LEMMA BufferStepIsItemStep == [BufferNext]_<<vars, memory>> => [Next]_vars
<1>1. ASSUME NEW o \in Objects, NEW b, load(o, b) PROVE Next
  BY <1>1 DEF load, Next
<1> QED
  BY <1>1 DEF BufferNext, ItemStep, BufferStep

\* The invariants of the items hold beside buffers too: a Buffer reads an item
\* and makes a new one, and changes no other.
THEOREM ItemInvariantHolds == BufferSpec => [](CInv /\ TreeInv)
<1>1. BufferInit => CInv /\ TreeInv
  BY ItemsKeepTheirCounts DEF BufferInit
<1>2. CInv /\ TreeInv /\ [BufferNext]_<<vars, memory>> => (CInv /\ TreeInv)'
  BY ItemsKeepTheirCounts, BufferStepIsItemStep
<1> QED
  BY <1>1, <1>2, PTL DEF BufferSpec

\* No reference count of libcbor falls below zero, no array is overfull, and no
\* object or array points outside the cells.
THEOREM TypeCorrect == BufferSpec => []TypeOK
<1>1. CInv /\ TreeInv => TypeOK
  BY CountsGiveSafety
<1> QED
  BY <1>1, ItemInvariantHolds, PTL

\* In whatever order items are built, copied, moved, assigned, pushed and
\* destroyed, the count of each is that of the objects, the places in arrays
\* and the pending releases that own it.
THEOREM CountsAreOwnersHolds == BufferSpec => []CountsAreOwners
<1>1. CInv /\ TreeInv => CountsAreOwners
  BY DEF CInv
<1> QED
  BY <1>1, ItemInvariantHolds, PTL

\* No Item and no array points to an item that was freed.
THEOREM NoUseAfterFreeHolds == BufferSpec => []NoUseAfterFree
<1>1. CInv /\ TreeInv => NoUseAfterFree
  BY CountsGiveSafety
<1> QED
  BY <1>1, ItemInvariantHolds, PTL

\* Between two operations every allocated item is reached from an Item object:
\* reference counting loses nothing, because array_push makes no cycle.
THEOREM NoLeakHolds == BufferSpec => []NoLeak
<1>1. CInv /\ TreeInv => NoLeak
  BY TreeGivesNoLeak
<1> QED
  BY <1>1, ItemInvariantHolds, PTL
=============================================================================
