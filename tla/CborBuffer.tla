----------------------------- MODULE CborBuffer -----------------------------
(***************************************************************************)
(* cbor::Buffer beside cbor::Item: who owns the memory that malloc and     *)
(* cbor_serialize_alloc hand out.  Buffers are made from items, copied,    *)
(* moved, assigned, loaded and destroyed in any order, and any allocation  *)
(* may fail.  m_capacity is left out: nothing reads it.                    *)
(***************************************************************************)
EXTENDS CborItem

CONSTANTS
  BufferObjects,     \* names of cbor::Buffer objects
  Blocks,            \* addresses malloc may return
  MaxSize,           \* bound: the bytes an encoded item takes
  ItemsBesideBuffers \* bound: the Item objects alive beside Buffer objects

ASSUME NullBlockAssumption == nullptr \notin Blocks
ASSUME BoundsAssumption == {MaxSize, ItemsBesideBuffers} \subseteq Nat

VARIABLES
  m_buffer,  \* for each Buffer alive, its block or nullptr
  m_size,    \* for each Buffer alive, the bytes it says it has
  allocated  \* for each block, the bytes it was allocated with, or FREE

memory == <<m_buffer, m_size, allocated>>

Live == DOMAIN m_buffer

FREE == -1

BufferInit ==
  /\ Init
  /\ m_buffer = [b \in {} |-> nullptr]
  /\ m_size = [b \in {} |-> 0]
  /\ allocated = [k \in Blocks |-> FREE]

\* The block is put into the object, which may be new; what cannot be allocated
\* is nullptr.
Hold(b, block, size) ==
  /\ m_buffer' = [d \in Live \cup {b} |-> IF d = b THEN block ELSE m_buffer[d]]
  /\ m_size' = [d \in Live \cup {b} |-> IF d = b THEN size ELSE m_size[d]]

free(blocks, block) ==
  IF block = nullptr THEN blocks ELSE [blocks EXCEPT ![block] = FREE]

malloc(blocks, block, size) ==
  blocks[block] = FREE /\ allocated' = [blocks EXCEPT ![block] = size]

-----------------------------------------------------------------------------
\* Buffer()
new_buffer(b) ==
  /\ b \notin Live
  /\ Hold(b, nullptr, 0)
  /\ UNCHANGED allocated

\* Buffer(const cbor_item_t*); without memory it throws and there is no object.
serialise(b, o) ==
  /\ b \notin Live /\ o \in Alive /\ m_item[o] # nullptr
  /\ \E block \in Blocks, size \in 1 .. MaxSize :
       malloc(allocated, block, size) /\ Hold(b, block, size)

\* A Buffer that has a size but no memory must not be copied or read.
Sound(b) == m_size[b] = 0 \/ m_buffer[b] # nullptr

\* Buffer(const Buffer&)
copy_buffer(b, other) ==
  /\ b \notin Live /\ other \in Live /\ Sound(other)
  /\ \E block \in Blocks :
       malloc(allocated, block, m_size[other]) /\ Hold(b, block, m_size[other])

\* Mutant: what the object had is not freed.
Mut_assign_buffer(b, other) ==
  /\ b \in Live /\ other \in Live \ {b} /\ Sound(other)
  /\ \E block \in Blocks :
       malloc(allocated, block, m_size[other]) /\ Hold(b, block, m_size[other])

\* operator=(const Buffer&) frees before it allocates: when that fails, the
\* object is left with the size of the other and no memory.
assign_buffer(b, other) ==
  /\ b \in Live /\ other \in Live \ {b} /\ Sound(other)
  /\ LET blocks == free(allocated, m_buffer[b]) IN
       \/ \E block \in Blocks :
            malloc(blocks, block, m_size[other]) /\ Hold(b, block, m_size[other])
       \/ allocated' = blocks /\ Hold(b, nullptr, m_size[other])

\* Mutant: the other keeps its pointer.
Mut_move_buffer(b, other) ==
  /\ b \notin Live /\ other \in Live
  /\ Hold(b, m_buffer[other], m_size[other])
  /\ UNCHANGED allocated

\* Buffer(Buffer&&)
move_buffer(b, other) ==
  /\ b \notin Live /\ other \in Live
  /\ m_buffer' = [d \in Live \cup {b} |->
                    IF d = b THEN m_buffer[other] ELSE IF d = other THEN nullptr ELSE m_buffer[d]]
  /\ m_size' = [d \in Live \cup {b} |->
                  IF d = b THEN m_size[other] ELSE IF d = other THEN 0 ELSE m_size[d]]
  /\ UNCHANGED allocated

\* operator=(Buffer&&)
move_assign_buffer(b, other) ==
  /\ b \in Live /\ other \in Live \ {b}
  /\ m_buffer' = [m_buffer EXCEPT ![b] = m_buffer[other], ![other] = nullptr]
  /\ m_size' = [m_size EXCEPT ![b] = m_size[other], ![other] = 0]
  /\ allocated' = free(allocated, m_buffer[b])

\* ~Buffer
destroy_buffer(b) ==
  /\ b \in Live
  /\ m_buffer' = [d \in Live \ {b} |-> m_buffer[d]]
  /\ m_size' = [d \in Live \ {b} |-> m_size[d]]
  /\ allocated' = free(allocated, m_buffer[b])

\* Item(const Buffer&): a new item with one reference; of its elements, which
\* only it refers to, none is told apart here.
load(o, b) ==
  /\ b \in Live /\ m_buffer[b] # nullptr
  /\ build(o)

BufferStep ==
  /\ Idle
  /\ \E b \in BufferObjects :
       \/ new_buffer(b)
       \/ destroy_buffer(b)
       \/ \E o \in Objects : serialise(b, o)
       \/ \E other \in BufferObjects :
            \/ copy_buffer(b, other)
            \/ assign_buffer(b, other)
            \/ move_buffer(b, other)
            \/ move_assign_buffer(b, other)
  /\ UNCHANGED vars

ItemStep ==
  /\ \/ Next
     \/ \E o \in Objects, b \in BufferObjects : load(o, b)
  /\ UNCHANGED memory

BufferNext ==
  /\ ItemStep \/ BufferStep
  /\ Live' # {} => Cardinality(Alive') <= ItemsBesideBuffers

BufferSpec == BufferInit /\ [][BufferNext]_<<vars, memory>>

-----------------------------------------------------------------------------
\* Every block that is allocated is owned by one Buffer, whose destructor will
\* free it, and has the bytes that Buffer says it has, whatever was copied,
\* moved or assigned and whichever allocation failed.
BuffersOwnTheirMemory ==
  /\ \A k \in Blocks :
       Cardinality({b \in Live : m_buffer[b] = k}) = IF allocated[k] = FREE THEN 0 ELSE 1
  /\ \A b \in Live : m_buffer[b] # nullptr => allocated[m_buffer[b]] = m_size[b]
=============================================================================
