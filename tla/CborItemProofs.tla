--------------------------- MODULE CborItemProofs ---------------------------
(***************************************************************************)
(* Proofs about CborItem: the reference counts of libcbor are those of the *)
(* owners, for any number of objects and cells and arrays of any size.     *)
(***************************************************************************)
EXTENDS CborItem, FiniteSetTheorems, FunctionTheorems, TLAPS

\* An assignment in progress is of one object to another that has a cell.
AssignmentIsSound ==
  assigning # <<>> =>
    /\ assigning \in Alive \X Alive
    /\ assigning[1] # assigning[2]
    /\ m_item[assigning[2]] \in Cells

ItemsTyped ==
  /\ Alive \subseteq Objects /\ IsFiniteSet(Alive)
  /\ m_item \in [Alive -> Cells \cup {nullptr}]
  /\ refcount \in [Cells -> Nat]
  /\ array \in [Cells -> Seq(Cells)]
  /\ \A c \in Cells : Len(array[c]) <= Size
  /\ releasing \in Seq(Cells)
  /\ AssignmentIsSound

CInv == ItemsTyped /\ CountsAreOwners

\* No array holds itself, however deep: of any cells, some is in no array of
\* theirs.
Acyclic ==
  \A cells \in SUBSET Cells : cells # {} =>
    \E c \in cells : \A d \in cells : c \notin ToSet(array[d])

\* What is freed holds nothing.
FreeIsEmpty == \A c \in Cells : Free(c) => array[c] = <<>>

TreeInv == Acyclic /\ FreeIsEmpty

-----------------------------------------------------------------------------
(***************************************************************************)
(* The places of a sequence that hold a cell, counted.                     *)
(***************************************************************************)

LEMMA PlacesFinite ==
  ASSUME NEW S, NEW s \in Seq(S), NEW c
  PROVE  IsFiniteSet({i \in DOMAIN s : s[i] = c}) /\ Places(s, c) \in Nat
<1>1. IsFiniteSet(1 .. Len(s)) /\ DOMAIN s = 1 .. Len(s)
  BY FS_Interval
<1>2. IsFiniteSet({i \in DOMAIN s : s[i] = c})
  BY <1>1, FS_Subset
<1> QED
  BY <1>2, FS_CardinalityType DEF Places

LEMMA PlacesOfNone ==
  ASSUME NEW c
  PROVE  Places(<<>>, c) = 0
<1>1. {i \in DOMAIN <<>> : <<>>[i] = c} = {}
  OBVIOUS
<1> QED
  BY <1>1, FS_EmptySet DEF Places

LEMMA PlacesOfOne ==
  ASSUME NEW d, NEW c
  PROVE  Places(<<d>>, c) = IF c = d THEN 1 ELSE 0
<1>1. CASE c = d
  <2>1. {i \in DOMAIN <<d>> : <<d>>[i] = c} = {1}
    BY <1>1
  <2> QED
    BY <1>1, <2>1, FS_Singleton DEF Places
<1>2. CASE c # d
  <2>1. {i \in DOMAIN <<d>> : <<d>>[i] = c} = {}
    BY <1>2
  <2> QED
    BY <1>2, <2>1, FS_EmptySet DEF Places
<1> QED
  BY <1>1, <1>2

LEMMA PlacesOfBoth ==
  ASSUME NEW S, NEW s \in Seq(S), NEW t \in Seq(S), NEW c
  PROVE  Places(s \o t, c) = Places(s, c) + Places(t, c)
<1> DEFINE inS == {i \in DOMAIN s : s[i] = c}
           inT == {i \in DOMAIN t : t[i] = c}
           later == {i \in Len(s) + 1 .. Len(s) + Len(t) : t[i - Len(s)] = c}
<1>1. {i \in DOMAIN (s \o t) : (s \o t)[i] = c} = inS \cup later
  OBVIOUS
<1>2. inS \cap later = {}
  OBVIOUS
<1>3. IsFiniteSet(inS) /\ IsFiniteSet(inT) /\ Cardinality(inS) \in Nat /\ Cardinality(inT) \in Nat
  BY PlacesFinite DEF Places
<1>4. IsFiniteSet(later) /\ Cardinality(later) = Cardinality(inT)
  <2> DEFINE f == [i \in inT |-> Len(s) + i]
  <2>1. f \in Bijection(inT, later)
    <3>1. f \in [inT -> later]
      OBVIOUS
    <3>2. \A i, j \in inT : f[i] = f[j] => i = j
      OBVIOUS
    <3>3. ASSUME NEW k \in later PROVE \E i \in inT : f[i] = k
      <4>1. k - Len(s) \in inT /\ f[k - Len(s)] = k
        OBVIOUS
      <4> QED
        BY <4>1
    <3> HIDE DEF f, inT, later
    <3> QED
      BY <3>1, <3>2, <3>3, Fun_IsBij
  <2>2. ExistsBijection(inT, later)
    BY <2>1 DEF ExistsBijection
  <2> QED
    BY <1>3, <2>2, FS_Bijection
<1> HIDE DEF inS, inT, later
<1>5. Cardinality(inS \cup later) = Cardinality(inS) + Cardinality(inT)
  <2>1. Cardinality(inS \cup later)
          = Cardinality(inS) + Cardinality(later) - Cardinality(inS \cap later)
    BY <1>3, <1>4, FS_Union
  <2>2. Cardinality(inS \cap later) = 0
    BY <1>2, FS_EmptySet
  <2> QED
    BY <1>3, <1>4, <2>1, <2>2
<1> QED
  BY <1>1, <1>5 DEF Places, inS, inT

LEMMA PlacesOfTail ==
  ASSUME NEW S, NEW s \in Seq(S), s # <<>>, NEW c
  PROVE  /\ Places(s, c) = Places(Tail(s), c) + (IF c = Head(s) THEN 1 ELSE 0)
         /\ Places(Tail(s), c) \in Nat /\ Tail(s) \in Seq(S) /\ Head(s) \in S
<1>1. Tail(s) \in Seq(S) /\ Head(s) \in S /\ <<Head(s)>> \in Seq(S)
  OBVIOUS
<1>2. s = <<Head(s)>> \o Tail(s)
  OBVIOUS
<1>3. Places(s, c) = Places(<<Head(s)>>, c) + Places(Tail(s), c)
  BY <1>1, <1>2, PlacesOfBoth, ZenonT(60)
<1>4. Places(<<Head(s)>>, c) = IF c = Head(s) THEN 1 ELSE 0
  BY PlacesOfOne
<1>5. Places(Tail(s), c) \in Nat
  BY <1>1, PlacesFinite
<1> QED
  BY <1>1, <1>3, <1>4, <1>5

-----------------------------------------------------------------------------
(***************************************************************************)
(* What is counted is finite.                                              *)
(***************************************************************************)

LEMMA CountsAreNumbers ==
  ASSUME ItemsTyped, NEW c
  PROVE  /\ IsFiniteSet(Owners(c)) /\ Cardinality(Owners(c)) \in Nat
         /\ IsFiniteSet(Slots(c)) /\ Cardinality(Slots(c)) \in Nat
         /\ Places(releasing, c) \in Nat
<1>1. IsFiniteSet(Owners(c))
  BY FS_Subset DEF ItemsTyped, Owners
<1>2. IsFiniteSet(Cells \X (1 .. Size))
  <2>1. IsFiniteSet(1 .. Size)
    BY SizeAssumption, FS_Interval
  <2> QED
    BY <2>1, CellsAssumption, FS_Product
<1>3. IsFiniteSet(Slots(c))
  BY <1>2, FS_Subset DEF Slots
<1>4. Places(releasing, c) \in Nat
  BY PlacesFinite DEF ItemsTyped
<1> QED
  BY <1>1, <1>3, <1>4, FS_CardinalityType

-----------------------------------------------------------------------------
(***************************************************************************)
(* An object takes a reference, or releases the one it has.                *)
(***************************************************************************)

\* build, copy and the second half of a copy assignment: an object that owned
\* nothing is made an owner of c, and c is counted once more.
LEMMA TakingAReference ==
  ASSUME CInv, NEW o \in Objects, NEW c \in Cells, Point(o, c),
         refcount' = incref(refcount, c), UNCHANGED <<array, releasing>>, assigning' = <<>>,
         IF assigning = <<>> THEN o \notin Alive ELSE assigning[1] = o
  PROVE  CInv'
<1>1. /\ Alive' = Alive \cup {o} /\ m_item'[o] = c
      /\ m_item' \in [Alive' -> Cells \cup {nullptr}]
      /\ \A p \in Alive : p # o => m_item'[p] = m_item[p]
  BY DEF Point, Alive, CInv, ItemsTyped
<1>2. /\ refcount' \in [Cells -> Nat] /\ refcount'[c] = refcount[c] + 1
      /\ \A e \in Cells : e # c => refcount'[e] = refcount[e]
  BY DEF incref, CInv, ItemsTyped
<1>3. IsFiniteSet(Alive')
  BY <1>1, FS_AddElement DEF CInv, ItemsTyped
<1>4. ItemsTyped'
  BY <1>1, <1>2, <1>3 DEF CInv, ItemsTyped, AssignmentIsSound
<1>5. ASSUME NEW e \in Cells
      PROVE  /\ o \notin Owners(e)
             /\ Owners(e)' = IF e = c THEN Owners(e) \cup {o} ELSE Owners(e)
             /\ Slots(e)' = Slots(e)
  BY <1>1 DEF Owners, Slots
<1>6. ASSUME NEW e \in Cells
      PROVE  refcount'[e] = Cardinality(Owners(e)') + Cardinality(Slots(e)') + Places(releasing', e)
  <2>1. /\ refcount[e] = Cardinality(Owners(e)) + Cardinality(Slots(e)) + Places(releasing, e)
        /\ IsFiniteSet(Owners(e)) /\ Cardinality(Owners(e)) \in Nat
        /\ Cardinality(Slots(e)) \in Nat /\ Places(releasing, e) \in Nat
    BY CountsAreNumbers DEF CInv, CountsAreOwners
  <2>2. CASE e = c
    <3>1. Cardinality(Owners(e)') = Cardinality(Owners(e)) + 1
      BY <1>5, <2>1, <2>2, FS_AddElement
    <3> QED
      BY <1>2, <1>5, <2>1, <2>2, <3>1
  <2>3. CASE e # c
    BY <1>2, <1>5, <2>1, <2>3
  <2> QED
    BY <2>2, <2>3
<1> QED
  BY <1>4, <1>6 DEF CInv, CountsAreOwners

\* What dtor_impl gives up is the one place of its cell.
LEMMA Released ==
  ASSUME ItemsTyped, NEW o \in Alive, NEW e \in Cells
  PROVE  /\ dtor_impl(o) \in Seq(Cells)
         /\ Places(dtor_impl(o), e) = IF m_item[o] = e THEN 1 ELSE 0
<1>1. CASE m_item[o] = nullptr
  BY <1>1, PlacesOfNone, NullptrAssumption DEF dtor_impl
<1>2. CASE m_item[o] # nullptr
  BY <1>2, PlacesOfOne DEF dtor_impl, ItemsTyped
<1> QED
  BY <1>1, <1>2

\* destroy and the first half of a copy assignment: the reference an object
\* had is now to be released.
LEMMA ReleasingAReference ==
  ASSUME CInv, Idle, NEW o \in Alive, releasing' = dtor_impl(o),
         UNCHANGED <<refcount, array>>,
         \A e \in Cells : Owners(e)' = Owners(e) \ {o}
  PROVE  CountsAreOwners'
<1>1. ASSUME NEW e \in Cells
      PROVE  refcount'[e] = Cardinality(Owners(e)') + Cardinality(Slots(e)') + Places(releasing', e)
  <2>1. /\ refcount[e] = Cardinality(Owners(e)) + Cardinality(Slots(e)) + Places(releasing, e)
        /\ IsFiniteSet(Owners(e)) /\ Cardinality(Owners(e)) \in Nat
        /\ Cardinality(Slots(e)) \in Nat
    BY CountsAreNumbers DEF CInv, CountsAreOwners
  <2>2. Places(releasing, e) = 0
    BY PlacesOfNone DEF Idle
  <2>3. Cardinality(Owners(e)') = IF m_item[o] = e THEN Cardinality(Owners(e)) - 1
                                                   ELSE Cardinality(Owners(e))
    <3>1. o \in Owners(e) <=> m_item[o] = e
      BY DEF Owners, Idle
    <3> QED
      BY <2>1, <3>1, FS_RemoveElement
  <2>4. Places(releasing', e) = IF m_item[o] = e THEN 1 ELSE 0
    BY Released DEF CInv
  <2>5. Slots(e)' = Slots(e)
    BY DEF Slots
  <2> QED
    BY <2>1, <2>2, <2>3, <2>4, <2>5
<1> QED
  BY <1>1 DEF CountsAreOwners

-----------------------------------------------------------------------------
(***************************************************************************)
(* CInv is inductive.                                                      *)
(***************************************************************************)

LEMMA BuildKeepsCounts ==
  ASSUME CInv, NEW o \in Objects, build(o)
  PROVE  CInv'
<1>1. PICK c \in Cells : Point(o, c) /\ refcount' = incref(refcount, c)
  BY DEF build
<1>2. /\ UNCHANGED <<array, releasing>> /\ assigning = <<>> /\ assigning' = <<>>
      /\ o \notin Alive
  BY DEF build, Idle
<1> QED
  BY <1>1, <1>2, TakingAReference

LEMMA CopyKeepsCounts ==
  ASSUME CInv, NEW o \in Objects, NEW other, copy(o, other)
  PROVE  CInv'
<1>1. /\ UNCHANGED <<array, releasing>> /\ assigning = <<>> /\ assigning' = <<>>
      /\ o \notin Alive /\ m_item[other] \in Cells
      /\ Point(o, m_item[other]) /\ refcount' = incref(refcount, m_item[other])
  BY DEF copy, Idle, CInv, ItemsTyped
<1> QED
  BY <1>1, TakingAReference

LEMMA AssignedKeepsCounts ==
  ASSUME CInv, assigned
  PROVE  CInv'
<1>1. /\ UNCHANGED <<array, releasing>> /\ assigning # <<>> /\ assigning' = <<>>
      /\ assigning[1] \in Objects /\ m_item[assigning[2]] \in Cells
      /\ Point(assigning[1], m_item[assigning[2]])
      /\ refcount' = incref(refcount, m_item[assigning[2]])
  BY DEF assigned, CInv, ItemsTyped, AssignmentIsSound
<1> QED
  BY <1>1, TakingAReference

LEMMA AssignKeepsCounts ==
  ASSUME CInv, NEW o \in Objects, NEW other, assign(o, other)
  PROVE  CInv'
<1>1. /\ Idle /\ o \in Alive /\ other \in Alive /\ o # other
      /\ m_item[other] \in Cells
      /\ releasing' = dtor_impl(o) /\ assigning' = <<o, other>>
      /\ UNCHANGED <<m_item, refcount, array>>
  BY DEF assign, CInv, ItemsTyped
<1>2. releasing' \in Seq(Cells)
  <2>1. PICK e \in Cells : TRUE
    BY <1>1
  <2> QED
    BY <1>1, <2>1, Released DEF CInv
<1>3. ItemsTyped'
  BY <1>1, <1>2 DEF CInv, ItemsTyped, AssignmentIsSound, Alive
<1>4. \A e \in Cells : Owners(e)' = Owners(e) \ {o}
  BY <1>1 DEF Owners, Alive, Idle
<1> QED
  BY <1>1, <1>3, <1>4, ReleasingAReference DEF CInv

LEMMA DestroyKeepsCounts ==
  ASSUME CInv, NEW o \in Objects, destroy(o)
  PROVE  CInv'
<1>1. /\ Idle /\ o \in Alive
      /\ releasing' = dtor_impl(o)
      /\ UNCHANGED <<refcount, array, assigning>> /\ assigning = <<>>
      /\ m_item' = [p \in Alive \ {o} |-> m_item[p]]
  BY DEF destroy, Idle, Disappear
<1>2. /\ Alive' = Alive \ {o} /\ \A p \in Alive' : m_item'[p] = m_item[p]
      /\ m_item' \in [Alive' -> Cells \cup {nullptr}]
  BY <1>1 DEF Alive, CInv, ItemsTyped
<1>3. releasing' \in Seq(Cells)
  BY <1>1 DEF dtor_impl, CInv, ItemsTyped
<1>4. IsFiniteSet(Alive')
  BY <1>2, FS_RemoveElement DEF CInv, ItemsTyped
<1>5. ItemsTyped'
  BY <1>1, <1>2, <1>3, <1>4 DEF CInv, ItemsTyped, AssignmentIsSound
<1>6. \A e \in Cells : Owners(e)' = Owners(e) \ {o}
  BY <1>1, <1>2 DEF Owners
<1> QED
  BY <1>1, <1>5, <1>6, ReleasingAReference DEF CInv

\* One owner in the place of another.
LEMMA OwnerIsReplaced ==
  ASSUME NEW S, IsFiniteSet(S), NEW a \in S, NEW b, b \notin S
  PROVE  Cardinality((S \ {a}) \cup {b}) = Cardinality(S)
<1> DEFINE R == S \ {a}
<1>1. IsFiniteSet(R) /\ Cardinality(R) = Cardinality(S) - 1 /\ Cardinality(S) \in Nat
  BY FS_RemoveElement, FS_CardinalityType
<1>2. b \notin R
  OBVIOUS
<1> HIDE DEF R
<1>3. Cardinality(R \cup {b}) = Cardinality(R) + 1
  BY <1>1, <1>2, FS_AddElement
<1>4. Cardinality(R \cup {b}) = Cardinality(S)
  BY <1>1, <1>3
<1> QED
  BY <1>4 DEF R

LEMMA MoveKeepsCounts ==
  ASSUME CInv, NEW o \in Objects, NEW other, move(o, other)
  PROVE  CInv'
<1>1. /\ o \notin Alive /\ other \in Alive /\ o # other
      /\ releasing = <<>> /\ assigning = <<>>
      /\ UNCHANGED <<refcount, array, releasing, assigning>>
  BY DEF move, Idle
<1>2. /\ Alive' = Alive \cup {o} /\ m_item'[o] = m_item[other] /\ m_item'[other] = nullptr
      /\ m_item' \in [Alive' -> Cells \cup {nullptr}]
      /\ \A p \in Alive : p # other => m_item'[p] = m_item[p]
  BY <1>1 DEF move, Alive, CInv, ItemsTyped
<1>3. IsFiniteSet(Alive')
  BY <1>2, FS_AddElement DEF CInv, ItemsTyped
<1>4. ItemsTyped'
  BY <1>1, <1>2, <1>3 DEF CInv, ItemsTyped, AssignmentIsSound
<1>5. ASSUME NEW e \in Cells
      PROVE  refcount'[e] = Cardinality(Owners(e)') + Cardinality(Slots(e)') + Places(releasing', e)
  <2>1. /\ refcount[e] = Cardinality(Owners(e)) + Cardinality(Slots(e)) + Places(releasing, e)
        /\ IsFiniteSet(Owners(e))
    BY CountsAreNumbers DEF CInv, CountsAreOwners
  <2>2. /\ o \notin Owners(e)
        /\ other \in Owners(e) <=> m_item[other] = e
    BY <1>1 DEF Owners
  <2>3. Owners(e)' = IF m_item[other] = e THEN (Owners(e) \ {other}) \cup {o} ELSE Owners(e)
    BY <1>1, <1>2, NullptrAssumption DEF Owners
  <2>4. Cardinality(Owners(e)') = Cardinality(Owners(e))
    <3>1. CASE m_item[other] = e
      BY <2>1, <2>2, <2>3, <3>1, OwnerIsReplaced
    <3>2. CASE m_item[other] # e
      BY <2>3, <3>2
    <3> QED
      BY <3>1, <3>2
  <2>5. Slots(e)' = Slots(e)
    BY <1>1 DEF Slots
  <2> QED
    BY <1>1, <2>1, <2>4, <2>5
<1> QED
  BY <1>4, <1>5 DEF CInv, CountsAreOwners

LEMMA MoveAssignKeepsCounts ==
  ASSUME CInv, NEW o \in Objects, NEW other, move_assign(o, other)
  PROVE  CInv'
<1>1. /\ o \in Alive /\ other \in Alive /\ o # other
      /\ releasing = <<>> /\ assigning = <<>> /\ releasing' = dtor_impl(o)
      /\ UNCHANGED <<refcount, array, assigning>>
      /\ m_item' = [m_item EXCEPT ![o] = m_item[other], ![other] = nullptr]
  BY DEF move_assign, Idle
<1>2. /\ Alive' = Alive /\ m_item'[o] = m_item[other] /\ m_item'[other] = nullptr
      /\ m_item' \in [Alive' -> Cells \cup {nullptr}]
      /\ \A p \in Alive : p # other /\ p # o => m_item'[p] = m_item[p]
  BY <1>1 DEF Alive, CInv, ItemsTyped
<1>3. releasing' \in Seq(Cells)
  BY <1>1 DEF dtor_impl, CInv, ItemsTyped
<1>4. ItemsTyped'
  BY <1>1, <1>2, <1>3 DEF CInv, ItemsTyped, AssignmentIsSound
<1>5. ASSUME NEW e \in Cells
      PROVE  refcount'[e] = Cardinality(Owners(e)') + Cardinality(Slots(e)') + Places(releasing', e)
  <2> DEFINE left == Owners(e) \ {o}
  <2>1. /\ refcount[e] = Cardinality(Owners(e)) + Cardinality(Slots(e)) + Places(releasing, e)
        /\ IsFiniteSet(Owners(e)) /\ Cardinality(Owners(e)) \in Nat /\ Cardinality(Slots(e)) \in Nat
    BY CountsAreNumbers DEF CInv, CountsAreOwners
  <2>2. /\ o \in Owners(e) <=> m_item[o] = e
        /\ other \in left <=> m_item[other] = e
        /\ o \notin left
    BY <1>1 DEF Owners
  <2>3. Owners(e)' = IF m_item[other] = e THEN (left \ {other}) \cup {o} ELSE left
    BY <1>1, <1>2, NullptrAssumption DEF Owners
  <2>4. /\ IsFiniteSet(left)
        /\ Cardinality(left) = IF m_item[o] = e THEN Cardinality(Owners(e)) - 1
                                                ELSE Cardinality(Owners(e))
    BY <2>1, <2>2, FS_RemoveElement
  <2> HIDE DEF left
  <2>5. Cardinality(Owners(e)') = Cardinality(left)
    <3>1. CASE m_item[other] = e
      BY <2>2, <2>3, <2>4, <3>1, OwnerIsReplaced
    <3>2. CASE m_item[other] # e
      BY <2>3, <3>2
    <3> QED
      BY <3>1, <3>2
  <2>6. Slots(e)' = Slots(e)
    BY <1>1 DEF Slots
  <2>7. /\ Places(releasing, e) = 0
        /\ Places(releasing', e) = IF m_item[o] = e THEN 1 ELSE 0
    BY <1>1, PlacesOfNone, Released DEF CInv
  <2> QED
    BY <1>1, <2>1, <2>4, <2>5, <2>6, <2>7
<1> QED
  BY <1>4, <1>5 DEF CInv, CountsAreOwners

LEMMA PushKeepsCounts ==
  ASSUME CInv, NEW o, NEW other, array_push(o, other)
  PROVE  CInv'
<1> DEFINE a == m_item[o]
           c == m_item[other]
           slot == <<a, Len(array[a]) + 1>>
<1>1. /\ a \in Cells /\ c \in Cells /\ Len(array[a]) < Size
      /\ array' = [array EXCEPT ![a] = Append(@, c)]
      /\ refcount' = incref(refcount, c)
      /\ UNCHANGED <<m_item, releasing, assigning>>
  BY DEF array_push, CInv, ItemsTyped
<1> HIDE DEF a, c
<1>2. /\ refcount' \in [Cells -> Nat] /\ refcount'[c] = refcount[c] + 1
      /\ \A e \in Cells : e # c => refcount'[e] = refcount[e]
  BY <1>1 DEF incref, CInv, ItemsTyped
<1>3. /\ array[a] \in Seq(Cells) /\ Append(array[a], c) \in Seq(Cells)
      /\ array'[a] = Append(array[a], c)
      /\ Len(array'[a]) = Len(array[a]) + 1
      /\ \A i \in 1 .. Len(array[a]) : array'[a][i] = array[a][i]
      /\ array'[a][Len(array[a]) + 1] = c
      /\ \A e \in Cells : e # a => array'[e] = array[e]
  BY <1>1 DEF CInv, ItemsTyped
<1>4. array' \in [Cells -> Seq(Cells)]
  BY <1>1, <1>3 DEF CInv, ItemsTyped
<1>5. \A e \in Cells : Len(array'[e]) <= Size
  <2>1. Len(array'[a]) <= Size
    BY <1>1, <1>3, SizeAssumption
  <2> QED
    BY <1>3, <2>1 DEF CInv, ItemsTyped
<1>6. ItemsTyped'
  BY <1>1, <1>2, <1>4, <1>5 DEF CInv, ItemsTyped, AssignmentIsSound, Alive
<1>7. ASSUME NEW e \in Cells
      PROVE  /\ slot \notin Slots(e)
             /\ Slots(e)' = IF e = c THEN Slots(e) \cup {slot} ELSE Slots(e)
  <2>1. Len(array[a]) + 1 \in 1 .. Size /\ Len(array[a]) \in Nat
    BY <1>1, <1>3, SizeAssumption
  <2>2. DOMAIN array[a] = 1 .. Len(array[a]) /\ DOMAIN array'[a] = 1 .. Len(array[a]) + 1
    BY <1>3
  <2>3. slot \notin Slots(e)
    BY <2>1, <2>2 DEF Slots
  <2>4. ASSUME NEW s \in Cells \X (1 .. Size)
        PROVE  s \in Slots(e)' <=> s \in Slots(e) \/ (e = c /\ s = slot)
    <3>1. CASE s[1] # a
      BY <1>3, <3>1 DEF Slots
    <3>2. CASE s[1] = a
      <4>1. s = <<a, s[2]>> /\ s[2] \in 1 .. Size
        BY <3>2
      <4>2. CASE s[2] = Len(array[a]) + 1
        BY <1>3, <2>1, <2>2, <3>2, <4>1, <4>2 DEF Slots
      <4>3. CASE s[2] # Len(array[a]) + 1
        <5>1. s[2] \in DOMAIN array'[a] <=> s[2] \in DOMAIN array[a]
          BY <2>1, <2>2, <4>1, <4>3
        <5>2. s # slot
          BY <4>1, <4>3
        <5> QED
          BY <1>3, <2>2, <3>2, <5>1, <5>2 DEF Slots
      <4> QED
        BY <4>2, <4>3
    <3> QED
      BY <3>1, <3>2
  <2>5. slot \in Cells \X (1 .. Size)
    BY <1>1, <2>1
  <2>6. Slots(e) \subseteq Cells \X (1 .. Size) /\ Slots(e)' \subseteq Cells \X (1 .. Size)
    BY DEF Slots
  <2> HIDE DEF slot
  <2> QED
    BY <2>3, <2>4, <2>5, <2>6
<1> HIDE DEF slot
<1>8. ASSUME NEW e \in Cells
      PROVE  refcount'[e] = Cardinality(Owners(e)') + Cardinality(Slots(e)') + Places(releasing', e)
  <2>1. /\ refcount[e] = Cardinality(Owners(e)) + Cardinality(Slots(e)) + Places(releasing, e)
        /\ IsFiniteSet(Slots(e)) /\ Cardinality(Owners(e)) \in Nat
        /\ Cardinality(Slots(e)) \in Nat /\ Places(releasing, e) \in Nat
    BY CountsAreNumbers DEF CInv, CountsAreOwners
  <2>2. Owners(e)' = Owners(e) /\ releasing' = releasing
    BY <1>1 DEF Owners, Alive
  <2>3. CASE e = c
    <3>1. Cardinality(Slots(e)') = Cardinality(Slots(e)) + 1
      BY <1>7, <2>1, <2>3, FS_AddElement
    <3> QED
      BY <1>2, <2>1, <2>2, <2>3, <3>1
  <2>4. CASE e # c
    BY <1>2, <1>7, <2>1, <2>2, <2>4
  <2> QED
    BY <2>3, <2>4
<1> QED
  BY <1>6, <1>8 DEF CInv, CountsAreOwners

\* The places of one array among the places of all.
LEMMA SlotsOfOne ==
  ASSUME ItemsTyped, NEW c \in Cells, NEW e
  PROVE  LET mine == {s \in Slots(e) : s[1] = c}
         IN  IsFiniteSet(mine) /\ Cardinality(mine) = Places(array[c], e)
<1> DEFINE mine == {s \in Slots(e) : s[1] = c}
           places == {i \in DOMAIN array[c] : array[c][i] = e}
           f == [i \in places |-> <<c, i>>]
<1>1. IsFiniteSet(places)
  <2>1. array[c] \in Seq(Cells)
    BY DEF ItemsTyped
  <2> QED
    BY <2>1, PlacesFinite
<1>2. \A i \in places : i \in 1 .. Size
  <2>1. array[c] \in Seq(Cells) /\ Len(array[c]) <= Size
    BY DEF ItemsTyped
  <2> QED
    BY <2>1, SizeAssumption
<1>3. f \in [places -> mine]
  BY <1>2 DEF Slots
<1>4. \A i, j \in places : f[i] = f[j] => i = j
  OBVIOUS
<1>5. ASSUME NEW s \in mine PROVE \E i \in places : f[i] = s
  <2>1. s = <<c, s[2]>> /\ s[2] \in places
    BY <1>5 DEF Slots
  <2> QED
    BY <2>1
<1> HIDE DEF mine, places, f
<1>6. f \in Bijection(places, mine)
  BY <1>3, <1>4, <1>5, Fun_IsBij
<1>7. IsFiniteSet(mine) /\ Cardinality(mine) = Cardinality(places)
  BY <1>1, <1>6, FS_Bijection DEF ExistsBijection
<1> QED
  BY <1>7 DEF mine, places, Places

LEMMA DecrefKeepsCounts ==
  ASSUME CInv, decref
  PROVE  CInv'
<1> DEFINE c == Head(releasing)
           rest == Tail(releasing)
<1>1. /\ releasing # <<>> /\ refcount' = [refcount EXCEPT ![c] = @ - 1]
      /\ UNCHANGED <<m_item, assigning>>
      /\ IF refcount[c] = 1
           THEN releasing' = array[c] \o rest /\ array' = [array EXCEPT ![c] = <<>>]
           ELSE releasing' = rest /\ array' = array
  BY DEF decref
<1>2. releasing \in Seq(Cells)
  BY DEF CInv, ItemsTyped
<1>3. /\ c \in Cells /\ rest \in Seq(Cells)
      /\ \A e \in Cells : /\ Places(releasing, e) = Places(rest, e) + (IF e = c THEN 1 ELSE 0)
                          /\ Places(rest, e) \in Nat
  BY <1>1, <1>2, PlacesOfTail
<1> HIDE DEF c, rest
<1>4. ASSUME NEW e \in Cells
      PROVE  /\ refcount[e] = Cardinality(Owners(e)) + Cardinality(Slots(e)) + Places(releasing, e)
             /\ IsFiniteSet(Slots(e)) /\ Cardinality(Owners(e)) \in Nat
             /\ Cardinality(Slots(e)) \in Nat /\ Places(releasing, e) \in Nat
             /\ Owners(e)' = Owners(e)
  BY <1>1, CountsAreNumbers DEF CInv, CountsAreOwners, Owners, Alive
\* The count of the cell that is released does not fall below zero.
<1>5. refcount[c] \in Nat /\ refcount[c] >= 1
  BY <1>3, <1>4
<1>6. /\ refcount' \in [Cells -> Nat] /\ refcount'[c] = refcount[c] - 1
      /\ \A e \in Cells : e # c => refcount'[e] = refcount[e]
  BY <1>1, <1>3, <1>5, SMTT(60) DEF CInv, ItemsTyped
<1>7. CASE refcount[c] # 1
  <2>1. releasing' = rest /\ array' = array
    BY <1>1, <1>7
  <2>2. ItemsTyped'
    BY <1>1, <1>3, <1>6, <2>1 DEF CInv, ItemsTyped, AssignmentIsSound, Alive
  <2>3. ASSUME NEW e \in Cells
        PROVE  refcount'[e] = Cardinality(Owners(e)') + Cardinality(Slots(e)') + Places(releasing', e)
    <3>1. Slots(e)' = Slots(e)
      BY <2>1 DEF Slots
    <3>2. /\ Cardinality(Owners(e)') = Cardinality(Owners(e))
          /\ Cardinality(Slots(e)') = Cardinality(Slots(e))
          /\ Places(releasing', e) = Places(rest, e)
      BY <1>4, <2>1, <3>1
    <3>3. refcount'[e] = refcount[e] - (IF e = c THEN 1 ELSE 0) /\ refcount[e] \in Nat
      BY <1>3, <1>6 DEF CInv, ItemsTyped
    <3> QED
      BY <1>3, <1>4, <3>2, <3>3, SMTT(60)
  <2> QED
    BY <2>2, <2>3 DEF CInv, CountsAreOwners
<1>8. CASE refcount[c] = 1
  <2>1. releasing' = array[c] \o rest /\ array' = [array EXCEPT ![c] = <<>>]
    BY <1>1, <1>8
  <2>2. /\ array[c] \in Seq(Cells) /\ array' \in [Cells -> Seq(Cells)]
        /\ array'[c] = <<>> /\ \A e \in Cells : e # c => array'[e] = array[e]
        /\ releasing' \in Seq(Cells)
    BY <1>3, <2>1 DEF CInv, ItemsTyped
  <2>3. \A e \in Cells : Len(array'[e]) <= Size
    <3>1. Len(array'[c]) <= Size
      BY <2>2, SizeAssumption
    <3> QED
      BY <2>2, <3>1 DEF CInv, ItemsTyped
  <2>4. ItemsTyped'
    BY <1>1, <1>6, <2>2, <2>3 DEF CInv, ItemsTyped, AssignmentIsSound, Alive
  <2>5. ASSUME NEW e \in Cells
        PROVE  refcount'[e] = Cardinality(Owners(e)') + Cardinality(Slots(e)') + Places(releasing', e)
    <3> DEFINE mine == {s \in Slots(e) : s[1] = c}
               others == {s \in Slots(e) : s[1] # c}
    <3>1. IsFiniteSet(mine) /\ Cardinality(mine) = Places(array[c], e)
      BY <1>3, SlotsOfOne DEF CInv
    <3>2. Slots(e)' = others
      BY <1>3, <2>2, SMTT(60) DEF Slots
    <3>3. Slots(e) = others \cup mine /\ others \cap mine = {}
      OBVIOUS
    <3>4. IsFiniteSet(others)
      BY <1>4, FS_Subset
    <3> HIDE DEF mine, others
    <3>5. Cardinality(Slots(e)) = Cardinality(others) + Cardinality(mine)
      <4>1. Cardinality(others \cup mine)
              = Cardinality(others) + Cardinality(mine) - Cardinality(others \cap mine)
        BY <3>1, <3>4, FS_Union
      <4>2. Cardinality(others \cap mine) = 0
        BY <3>3, FS_EmptySet
      <4>3. Cardinality(others) \in Nat /\ Cardinality(mine) \in Nat
        BY <3>1, <3>4, FS_CardinalityType
      <4> QED
        BY <3>3, <4>1, <4>2, <4>3
    <3>6. Places(releasing', e) = Places(array[c], e) + Places(rest, e)
      BY <1>3, <2>1, <2>2, PlacesOfBoth
    <3>7. Cardinality(others) \in Nat /\ Cardinality(mine) \in Nat
      BY <3>1, <3>4, FS_CardinalityType
    <3>8. /\ Cardinality(Owners(e)') = Cardinality(Owners(e))
          /\ Cardinality(Slots(e)') = Cardinality(others)
      BY <1>4, <3>2
    <3>9. refcount'[e] = refcount[e] - (IF e = c THEN 1 ELSE 0) /\ refcount[e] \in Nat
      BY <1>3, <1>6 DEF CInv, ItemsTyped
    <3>10. /\ refcount[e] = Cardinality(Owners(e)) + Cardinality(Slots(e)) + Places(releasing, e)
           /\ Places(releasing, e) = Places(rest, e) + (IF e = c THEN 1 ELSE 0)
           /\ Places(rest, e) \in Nat /\ Cardinality(Owners(e)) \in Nat
      BY <1>3, <1>4
    <3>11. Places(array[c], e) = Cardinality(mine)
      BY <3>1
    <3> QED
      BY <3>5, <3>6, <3>7, <3>8, <3>9, <3>10, <3>11
  <2> QED
    BY <2>4, <2>5 DEF CInv, CountsAreOwners
<1> QED
  BY <1>7, <1>8

LEMMA InitCounts == Init => CInv
<1> SUFFICES ASSUME Init PROVE CInv
  OBVIOUS
<1>1. Alive = {} /\ IsFiniteSet(Alive)
  BY FS_EmptySet DEF Init, Alive
<1>2. ItemsTyped
  <2>1. <<>> \in Seq(Cells) /\ Len(<<>>) <= Size
    BY SizeAssumption
  <2> QED
    BY <1>1, <2>1 DEF Init, ItemsTyped, AssignmentIsSound
<1>3. ASSUME NEW e \in Cells
      PROVE  Owners(e) = {} /\ Slots(e) = {} /\ Places(releasing, e) = 0 /\ refcount[e] = 0
  BY <1>1, PlacesOfNone DEF Init, Owners, Slots
<1> QED
  BY <1>2, <1>3, FS_EmptySet DEF CInv, CountsAreOwners

LEMMA StepKeepsCounts ==
  ASSUME CInv, [Next]_vars
  PROVE  CInv'
<1>1. CASE UNCHANGED vars
  BY <1>1 DEF vars, CInv, ItemsTyped, AssignmentIsSound, CountsAreOwners, Owners, Slots, Alive
<1> QED
  BY <1>1, DecrefKeepsCounts, AssignedKeepsCounts, BuildKeepsCounts, DestroyKeepsCounts,
     CopyKeepsCounts, AssignKeepsCounts, MoveKeepsCounts, MoveAssignKeepsCounts,
     PushKeepsCounts DEF Next

\* The invariants of CborItem follow from CInv.
LEMMA CountsGiveSafety == CInv => TypeOK /\ NoUseAfterFree
<1> SUFFICES ASSUME CInv PROVE TypeOK /\ NoUseAfterFree
  OBVIOUS
<1>1. TypeOK
  BY DEF CInv, ItemsTyped, TypeOK, ToSet
<1>2. NoUseAfterFree
  <2> SUFFICES ASSUME NEW c \in Cells, refcount[c] = 0 PROVE Owners(c) = {} /\ Slots(c) = {}
    BY DEF NoUseAfterFree, Free
  <2>1. /\ IsFiniteSet(Owners(c)) /\ IsFiniteSet(Slots(c))
        /\ Cardinality(Owners(c)) \in Nat /\ Cardinality(Slots(c)) \in Nat
        /\ Places(releasing, c) \in Nat
    BY CountsAreNumbers DEF CInv
  <2>2. Cardinality(Owners(c)) = 0 /\ Cardinality(Slots(c)) = 0
    BY <2>1 DEF CInv, CountsAreOwners
  <2> QED
    BY <2>1, <2>2, FS_EmptySet
<1> QED
  BY <1>1, <1>2

-----------------------------------------------------------------------------
(***************************************************************************)
(* Nothing leaks, because no array holds itself.                           *)
(***************************************************************************)

\* What can be reached is closed, and the least closed set.
LEMMA ReachableIsClosed ==
  ASSUME ItemsTyped, NEW from \in SUBSET Cells
  PROVE  /\ Reachable(from) \subseteq Cells /\ from \subseteq Reachable(from)
         /\ \A d \in Reachable(from) : ToSet(array[d]) \subseteq Reachable(from)
<1>1. Reachable(from) \subseteq Cells /\ from \subseteq Reachable(from)
  BY DEF Reachable
<1>2. ASSUME NEW d \in Reachable(from), NEW c \in ToSet(array[d])
      PROVE  c \in Reachable(from)
  <2>1. c \in Cells
    BY <1>1, <1>2 DEF ItemsTyped, ToSet
  <2>2. ASSUME NEW cells \in SUBSET Cells, from \subseteq cells, Closed(cells)
        PROVE  c \in cells
    <3>1. d \in cells
      BY <2>2 DEF Reachable
    <3> QED
      BY <1>2, <2>2, <3>1 DEF Closed
  <2> QED
    BY <2>1, <2>2 DEF Reachable
<1> QED
  BY <1>1, <1>2

\* Arrays that lose elements, or are left alone, stay free of cycles.
LEMMA LosingKeepsAcyclic ==
  ASSUME Acyclic, \A d \in Cells : ToSet(array'[d]) \subseteq ToSet(array[d])
  PROVE  Acyclic'
<1> SUFFICES ASSUME NEW cells \in SUBSET Cells, cells # {}
             PROVE  \E c \in cells : \A d \in cells : c \notin ToSet(array'[d])
  BY DEF Acyclic
<1>1. PICK c \in cells : \A d \in cells : c \notin ToSet(array[d])
  BY DEF Acyclic
<1> QED
  BY <1>1

\* array_push makes no cycle: the array is not reached from what is pushed.
LEMMA PushKeepsTree ==
  ASSUME CInv, TreeInv, NEW o, NEW other, array_push(o, other)
  PROVE  TreeInv'
<1> DEFINE a == m_item[o]
           k == m_item[other]
           below == Reachable({k})
<1>1. /\ a \in Cells /\ k \in Cells /\ a \notin below /\ o \in Alive
      /\ array' = [array EXCEPT ![a] = Append(@, k)]
      /\ refcount' = incref(refcount, k)
      /\ Idle
  BY DEF array_push, CInv, ItemsTyped
<1>2. /\ below \subseteq Cells /\ k \in below
      /\ \A d \in below : ToSet(array[d]) \subseteq below
  BY <1>1, ReachableIsClosed DEF CInv
<1>3. Cardinality(Owners(a)) # 0
  <2>1. o \in Owners(a) /\ IsFiniteSet(Owners(a))
    BY <1>1, CountsAreNumbers DEF Owners, Idle, CInv
  <2> QED
    BY <2>1, FS_EmptySet
<1> HIDE DEF a, k, below
<1>4. /\ ToSet(array'[a]) \subseteq ToSet(array[a]) \cup {k}
      /\ \A d \in Cells : d # a => array'[d] = array[d]
  <2>1. array[a] \in Seq(Cells) /\ array'[a] = Append(array[a], k)
    BY <1>1 DEF CInv, ItemsTyped
  <2>2. ToSet(Append(array[a], k)) \subseteq ToSet(array[a]) \cup {k}
    BY <2>1 DEF ToSet
  <2> QED
    BY <1>1, <2>1, <2>2 DEF CInv, ItemsTyped
<1>5. Acyclic'
  <2> SUFFICES ASSUME NEW cells \in SUBSET Cells, cells # {}
               PROVE  \E c \in cells : \A d \in cells : c \notin ToSet(array'[d])
    BY DEF Acyclic
  <2>1. CASE cells \subseteq below
    <3>1. PICK c \in cells : \A d \in cells : c \notin ToSet(array[d])
      BY DEF TreeInv, Acyclic
    <3>2. \A d \in cells : array'[d] = array[d]
      BY <1>1, <1>4, <2>1
    <3> QED
      BY <3>1, <3>2
  <2>2. CASE ~(cells \subseteq below)
    <3>1. PICK c \in cells \ below : \A d \in cells \ below : c \notin ToSet(array[d])
      BY <2>2 DEF TreeInv, Acyclic
    <3>2. \A d \in cells : c \notin ToSet(array[d])
      BY <1>2, <3>1
    <3>3. \A d \in cells : c \notin ToSet(array'[d])
      BY <1>2, <1>4, <3>1, <3>2
    <3> QED
      BY <3>1, <3>3
  <2> QED
    BY <2>1, <2>2
<1>6. FreeIsEmpty'
  <2> SUFFICES ASSUME NEW c \in Cells, refcount'[c] = 0 PROVE array'[c] = <<>>
    BY DEF FreeIsEmpty, Free
  <2>1. refcount \in [Cells -> Nat]
    BY DEF CInv, ItemsTyped
  <2>2. refcount[c] = 0
    BY <1>1, <2>1 DEF incref
  <2>3. c # a
    <3>1. refcount[a] = Cardinality(Owners(a)) + Cardinality(Slots(a)) + Places(releasing, a)
      BY <1>1 DEF CInv, CountsAreOwners
    <3>2. refcount[a] # 0
      BY <1>1, <1>3, <3>1, CountsAreNumbers DEF CInv
    <3> QED
      BY <2>2, <3>2
  <2> QED
    BY <1>4, <2>2, <2>3 DEF TreeInv, FreeIsEmpty, Free
<1> QED
  BY <1>5, <1>6 DEF TreeInv

LEMMA DecrefKeepsTree ==
  ASSUME CInv, TreeInv, decref
  PROVE  TreeInv'
<1> DEFINE c == Head(releasing)
<1>1. c \in Cells
  BY DEF decref, CInv, ItemsTyped
<1>2. /\ refcount' = [refcount EXCEPT ![c] = @ - 1]
      /\ IF refcount[c] = 1 THEN array' = [array EXCEPT ![c] = <<>>] ELSE array' = array
  BY DEF decref
<1>3. refcount \in [Cells -> Nat] /\ array \in [Cells -> Seq(Cells)]
  BY DEF CInv, ItemsTyped
<1> HIDE DEF c
<1>4. \A d \in Cells : array'[d] = array[d] \/ array'[d] = <<>>
  BY <1>1, <1>2, <1>3
<1>5. Acyclic'
  <2>1. \A d \in Cells : ToSet(array'[d]) \subseteq ToSet(array[d])
    BY <1>4 DEF ToSet
  <2> QED
    BY <2>1, LosingKeepsAcyclic DEF TreeInv
<1>6. FreeIsEmpty'
  <2> SUFFICES ASSUME NEW d \in Cells, refcount'[d] = 0 PROVE array'[d] = <<>>
    BY DEF FreeIsEmpty, Free
  <2>1. CASE d = c
    <3>1. refcount[c] = 1
      BY <1>1, <1>2, <1>3, <2>1
    <3> QED
      BY <1>1, <1>2, <1>3, <2>1, <3>1
  <2>2. CASE d # c
    <3>1. refcount[d] = 0
      BY <1>1, <1>2, <1>3, <2>2
    <3> QED
      BY <1>4, <3>1 DEF TreeInv, FreeIsEmpty, Free
  <2> QED
    BY <2>1, <2>2
<1> QED
  BY <1>5, <1>6 DEF TreeInv

\* The other steps leave the arrays alone and free nothing.
LEMMA StepKeepsTree ==
  ASSUME CInv, TreeInv, [Next]_vars
  PROVE  TreeInv'
<1>1. ASSUME array' = array, \A c \in Cells : refcount'[c] = 0 => refcount[c] = 0
      PROVE  TreeInv'
  <2>1. Acyclic'
    BY <1>1, LosingKeepsAcyclic DEF TreeInv
  <2>2. FreeIsEmpty'
    BY <1>1 DEF TreeInv, FreeIsEmpty, Free
  <2> QED
    BY <2>1, <2>2 DEF TreeInv
<1>2. ASSUME NEW k, refcount' = incref(refcount, k)
      PROVE  \A c \in Cells : refcount'[c] = 0 => refcount[c] = 0
  BY <1>2 DEF incref, CInv, ItemsTyped
<1>3. CASE assigned \/ \E o \in Objects : \/ build(o)
                                          \/ \E other \in Objects : copy(o, other)
  <2>1. array' = array /\ \E k : refcount' = incref(refcount, k)
    BY <1>3 DEF assigned, build, copy
  <2> QED
    BY <1>1, <1>2, <2>1
<1>4. CASE \/ UNCHANGED vars
           \/ \E o \in Objects :
                \/ destroy(o)
                \/ \E other \in Objects : assign(o, other) \/ move(o, other) \/ move_assign(o, other)
  <2>1. array' = array /\ refcount' = refcount
    BY <1>4 DEF vars, destroy, assign, move, move_assign
  <2> QED
    BY <1>1, <2>1
<1> QED
  BY <1>3, <1>4, DecrefKeepsTree, PushKeepsTree DEF Next

LEMMA InitTree == Init => TreeInv
<1> SUFFICES ASSUME Init PROVE TreeInv
  OBVIOUS
<1>1. \A d \in Cells : ToSet(array[d]) = {}
  BY DEF Init, ToSet
<1> QED
  BY <1>1 DEF Init, TreeInv, Acyclic, FreeIsEmpty

\* An allocated cell that no object reaches would be held by another such cell,
\* and that one by another, without end.
LEMMA TreeHasNoLeak ==
  ASSUME CInv, TreeInv, Idle, NEW c \in Cells, ~Free(c)
  PROVE  c \in Reachable({m_item[o] : o \in Alive} \ {nullptr})
<1> DEFINE roots == {m_item[o] : o \in Alive} \ {nullptr}
           reached == Reachable(roots)
           lost == {d \in Cells : ~Free(d) /\ d \notin reached}
<1>1. roots \in SUBSET Cells
  BY DEF CInv, ItemsTyped
<1>2. /\ roots \subseteq reached
      /\ \A d \in reached : ToSet(array[d]) \subseteq reached
  BY <1>1, ReachableIsClosed DEF CInv
<1>3. SUFFICES ASSUME lost # {} PROVE FALSE
  OBVIOUS
<1>4. PICK d \in lost : \A e \in lost : d \notin ToSet(array[e])
  BY <1>3 DEF TreeInv, Acyclic
<1>5. d \in Cells /\ refcount[d] # 0 /\ d \notin reached
  BY DEF Free
<1>6. Owners(d) # {} \/ Slots(d) # {}
  <2>1. Places(releasing, d) = 0
    BY PlacesOfNone DEF Idle
  <2>2. refcount[d] = Cardinality(Owners(d)) + Cardinality(Slots(d)) + 0
    BY <1>5, <2>1 DEF CInv, CountsAreOwners
  <2>3. Cardinality(Owners(d)) # 0 \/ Cardinality(Slots(d)) # 0
    BY <1>5, <2>2
  <2> QED
    BY <2>3, FS_EmptySet
<1>7. Owners(d) = {}
  <2>1. ASSUME NEW o \in Owners(d) PROVE d \in roots
    BY <1>5, NullptrAssumption DEF Owners
  <2> QED
    BY <1>2, <1>5, <2>1
<1>8. PICK s \in Slots(d) : TRUE
  BY <1>6, <1>7
<1>9. s[1] \in Cells /\ d \in ToSet(array[s[1]])
  BY DEF Slots, ToSet
<1>10. ~Free(s[1])
  BY <1>9 DEF TreeInv, FreeIsEmpty, ToSet
<1>11. s[1] \notin lost
  BY <1>4, <1>9
<1>12. s[1] \in reached
  BY <1>9, <1>10, <1>11
<1> QED
  BY <1>2, <1>5, <1>9, <1>12

\* Everything the proofs rest on, kept by every step of the items.
LEMMA ItemsKeepTheirCounts ==
  /\ Init => CInv /\ TreeInv
  /\ CInv /\ TreeInv /\ [Next]_vars => (CInv /\ TreeInv)'
BY InitCounts, InitTree, StepKeepsCounts, StepKeepsTree

LEMMA TreeGivesNoLeak == CInv /\ TreeInv => NoLeak
BY TreeHasNoLeak DEF NoLeak

\* Without any cbor::Buffer: the four properties hold of the items alone.
THEOREM ItemsAreSafe ==
  Spec => [](TypeOK /\ CountsAreOwners /\ NoUseAfterFree /\ NoLeak)
<1>1. CInv /\ TreeInv => TypeOK /\ CountsAreOwners /\ NoUseAfterFree /\ NoLeak
  BY CountsGiveSafety, TreeGivesNoLeak DEF CInv
<1> QED
  BY <1>1, ItemsKeepTheirCounts, PTL DEF Spec
=============================================================================
