------------------------------ MODULE CborItem ------------------------------
(***************************************************************************)
(* Who owns the CBOR items: cbor::Item objects of the program, the arrays  *)
(* items are pushed into, and the reference counts of libcbor, where       *)
(* releasing the last reference to an array releases its elements.         *)
(*                                                                         *)
(* The values are left out.  The objects are built, copied, moved,         *)
(* assigned, pushed and destroyed in any order, which covers the orders of *)
(* to_cbor_dom and those in which an exception destroys its locals.        *)
(***************************************************************************)
EXTENDS Integers, Sequences, FiniteSets, SequencesExt

CONSTANTS
  Objects,  \* names of cbor::Item objects
  Cells,    \* addresses of cbor_item_t
  Size,     \* the size definite arrays are built with
  nullptr

ASSUME NullptrAssumption == nullptr \notin Cells
ASSUME SizeAssumption == Size \in Nat
ASSUME CellsAssumption == IsFiniteSet(Cells)

VARIABLES
  m_item,    \* for each object alive, the cell it points to or nullptr
  refcount,  \* for each cell, its reference count; 0 when it is free
  array,     \* for each cell, the cells pushed into it
  releasing, \* the cells cbor_decref has still to visit
  assigning  \* the copy assignment in progress, <<to, from>>, or <<>>

vars == <<m_item, refcount, array, releasing, assigning>>

Init ==
  /\ m_item = [o \in {} |-> nullptr]
  /\ refcount = [c \in Cells |-> 0]
  /\ array = [c \in Cells |-> <<>>]
  /\ releasing = <<>>
  /\ assigning = <<>>

Alive == DOMAIN m_item

Idle == releasing = <<>> /\ assigning = <<>>

Free(c) == refcount[c] = 0

-----------------------------------------------------------------------------
(***************************************************************************)
(* libcbor.                                                                *)
(***************************************************************************)

incref(counts, c) == [counts EXCEPT ![c] = @ + 1]

\* cbor_decref frees the cell with its last reference, and then visits the
\* elements of an array.
decref ==
  LET c == Head(releasing) IN
  /\ releasing # <<>>
  /\ refcount' = [refcount EXCEPT ![c] = @ - 1]
  /\ IF refcount[c] = 1
       THEN /\ releasing' = array[c] \o Tail(releasing)
            /\ array' = [array EXCEPT ![c] = <<>>]
       ELSE /\ releasing' = Tail(releasing)
            /\ UNCHANGED array
  /\ UNCHANGED <<m_item, assigning>>

\* What is in arrays of cells in the set is in it too.
Closed(cells) == \A d \in cells : ToSet(array[d]) \subseteq cells

\* The cells that can be reached through arrays from those in from.
Reachable(from) ==
  {c \in Cells : \A cells \in SUBSET Cells : from \subseteq cells /\ Closed(cells) => c \in cells}

-----------------------------------------------------------------------------
(***************************************************************************)
(* cbor::Item.                                                             *)
(***************************************************************************)

Point(o, c) == m_item' = [p \in Alive \cup {o} |-> IF p = o THEN c ELSE m_item[p]]

Disappear(o) == m_item' = [p \in Alive \ {o} |-> m_item[p]]

\* Mutant: the item is never released.
Mut_dtor_impl(o) == <<>>

\* dtor_impl releases what the object points to.
dtor_impl(o) == IF m_item[o] = nullptr THEN <<>> ELSE <<m_item[o]>>

\* build_* and new_*_array: the object takes over the only reference.
build(o) ==
  /\ Idle /\ o \notin Alive
  /\ \E c \in Cells : Free(c) /\ Point(o, c) /\ refcount' = incref(refcount, c)
  /\ UNCHANGED <<array, releasing, assigning>>

\* Item(const Item&).  A moved-from object must not be copied: the constructor
\* would pass nullptr to cbor_incref.
copy(o, other) ==
  /\ Idle /\ o \notin Alive
  /\ other \in Alive /\ m_item[other] # nullptr
  /\ Point(o, m_item[other])
  /\ refcount' = incref(refcount, m_item[other])
  /\ UNCHANGED <<array, releasing, assigning>>

\* operator=(const Item&) first releases ...
assign(o, other) ==
  /\ Idle /\ o \in Alive /\ other \in Alive \ {o}
  /\ m_item[other] # nullptr
  /\ releasing' = dtor_impl(o)
  /\ assigning' = <<o, other>>
  /\ UNCHANGED <<m_item, refcount, array>>

\* Mutant: the assigned reference is not counted.
Mut_assigned ==
  /\ releasing = <<>> /\ assigning # <<>>
  /\ Point(assigning[1], m_item[assigning[2]])
  /\ assigning' = <<>>
  /\ UNCHANGED <<refcount, array, releasing>>

\* ... and then takes a reference of its own.
assigned ==
  /\ releasing = <<>> /\ assigning # <<>>
  /\ Point(assigning[1], m_item[assigning[2]])
  /\ refcount' = incref(refcount, m_item[assigning[2]])
  /\ assigning' = <<>>
  /\ UNCHANGED <<array, releasing>>

\* Item(Item&&)
move(o, other) ==
  /\ Idle /\ o \notin Alive /\ other \in Alive
  /\ m_item' = [p \in Alive \cup {o} |->
                  IF p = o THEN m_item[other]
                  ELSE IF p = other THEN nullptr ELSE m_item[p]]
  /\ UNCHANGED <<refcount, array, releasing, assigning>>

\* operator=(Item&&) releases what the object had and takes what the other has;
\* the elements that are freed do not depend on the order.
move_assign(o, other) ==
  /\ Idle /\ o \in Alive /\ other \in Alive \ {o}
  /\ releasing' = dtor_impl(o)
  /\ m_item' = [m_item EXCEPT ![o] = m_item[other], ![other] = nullptr]
  /\ UNCHANGED <<refcount, array, assigning>>

\* ~Item
destroy(o) ==
  /\ Idle /\ o \in Alive
  /\ releasing' = dtor_impl(o)
  /\ Disappear(o)
  /\ UNCHANGED <<refcount, array, assigning>>

\* Mutant: the array does not take a reference.
Mut_array_push(o, other) ==
  /\ Idle /\ {o, other} \subseteq Alive
  /\ nullptr \notin {m_item[o], m_item[other]}
  /\ Len(array[m_item[o]]) < Size
  /\ m_item[o] \notin Reachable({m_item[other]})
  /\ array' = [array EXCEPT ![m_item[o]] = Append(@, m_item[other])]
  /\ UNCHANGED <<m_item, refcount, releasing, assigning>>

\* array_push: the array takes a reference of its own, unless it is full, which
\* changes nothing and throws.  No array is pushed into itself.
array_push(o, other) ==
  /\ Idle /\ {o, other} \subseteq Alive
  /\ nullptr \notin {m_item[o], m_item[other]}
  /\ Len(array[m_item[o]]) < Size
  /\ m_item[o] \notin Reachable({m_item[other]})
  /\ array' = [array EXCEPT ![m_item[o]] = Append(@, m_item[other])]
  /\ refcount' = incref(refcount, m_item[other])
  /\ UNCHANGED <<m_item, releasing, assigning>>

Next ==
  \/ decref
  \/ assigned
  \/ \E o \in Objects :
       \/ build(o)
       \/ destroy(o)
       \/ \E other \in Objects :
            \/ copy(o, other)
            \/ assign(o, other)
            \/ move(o, other)
            \/ move_assign(o, other)
            \/ array_push(o, other)

Spec == Init /\ [][Next]_vars

-----------------------------------------------------------------------------
(***************************************************************************)
(* Properties.                                                             *)
(***************************************************************************)

Places(seq, c) == Cardinality({i \in DOMAIN seq : seq[i] = c})

\* The objects that own c: the target of an assignment has given up its cell.
Owners(c) ==
  {o \in Alive : m_item[o] = c /\ (assigning = <<>> \/ assigning[1] # o)}

\* The places of the arrays that hold c: the cell of the array and the index.
Slots(c) == {s \in Cells \X (1 .. Size) : s[2] \in DOMAIN array[s[1]] /\ array[s[1]][s[2]] = c}

\* The variables hold values of their types: no count falls below zero.
TypeOK ==
  /\ Alive \subseteq Objects
  /\ \A o \in Alive : m_item[o] \in Cells \cup {nullptr}
  /\ refcount \in [Cells -> Nat]
  /\ \A c \in Cells : Len(array[c]) <= Size /\ ToSet(array[c]) \subseteq Cells
  /\ ToSet(releasing) \subseteq Cells

\* The count of a cell is the number of its owners: objects, places in arrays,
\* and references that are still to be released.
CountsAreOwners ==
  \A c \in Cells :
    refcount[c] = Cardinality(Owners(c)) + Cardinality(Slots(c)) + Places(releasing, c)

\* What an object or an array that exists refers to has not been freed, so the
\* pointers that Message reads out of an array stay good while its Item lives.
NoUseAfterFree ==
  \A c \in Cells : Free(c) => Owners(c) = {} /\ Slots(c) = {}

\* Between two operations every item that is allocated can be reached from an
\* object: when the last object is gone, so are all the items.
NoLeak ==
  Idle => \A c \in Cells :
            ~Free(c) => c \in Reachable({m_item[o] : o \in Alive} \ {nullptr})
=============================================================================
