------------------------- MODULE BsonMessagesProofs -------------------------
(***************************************************************************)
(* Proofs about BsonMessages, for all vectors of messages, all widths of   *)
(* their numbers, and wherever an append fails.                            *)
(***************************************************************************)
EXTENDS BsonMessages, TLAPS

-----------------------------------------------------------------------------
(***************************************************************************)
(* Sequences.                                                              *)
(***************************************************************************)

LEMMA SameElements ==
  ASSUME NEW S, NEW s \in Seq(S), NEW t \in Seq(S), Len(s) = Len(t),
         \A i \in 1 .. Len(s) : s[i] = t[i]
  PROVE  s = t
OBVIOUS

LEMMA ElementOf ==
  ASSUME NEW S, NEW s \in Seq(S), NEW i \in 1 .. Len(s)
  PROVE  s[i] \in S
OBVIOUS

LEMMA RestElements ==
  ASSUME NEW S, NEW s \in Seq(S), NEW j \in 1 .. Len(s) + 1
  PROVE  /\ SubSeq(s, j, Len(s)) \in Seq(S)
         /\ Len(SubSeq(s, j, Len(s))) = Len(s) + 1 - j
         /\ \A i \in 1 .. Len(s) + 1 - j : SubSeq(s, j, Len(s))[i] = s[j + i - 1]
OBVIOUS

LEMMA TailElements ==
  ASSUME NEW S, NEW s \in Seq(S), s # <<>>
  PROVE  /\ Tail(s) \in Seq(S) /\ Len(Tail(s)) = Len(s) - 1 /\ Head(s) = s[1]
         /\ \A i \in 1 .. Len(s) - 1 : Tail(s)[i] = s[i + 1]
OBVIOUS

\* The calls that remain, from the j-th on.
LEMMA RestOfSequence ==
  ASSUME NEW S, NEW s \in Seq(S), NEW j \in 1 .. Len(s)
  PROVE  /\ SubSeq(s, j, Len(s)) # <<>>
         /\ Head(SubSeq(s, j, Len(s))) = s[j]
         /\ Tail(SubSeq(s, j, Len(s))) = SubSeq(s, j + 1, Len(s))
<1> DEFINE r == SubSeq(s, j, Len(s))
           q == SubSeq(s, j + 1, Len(s))
<1>1. /\ r \in Seq(S) /\ Len(r) = Len(s) + 1 - j
      /\ \A i \in 1 .. Len(s) + 1 - j : r[i] = s[j + i - 1]
  BY RestElements
<1>2. /\ q \in Seq(S) /\ Len(q) = Len(s) - j
      /\ \A i \in 1 .. Len(s) - j : q[i] = s[j + i]
  <2>1. j + 1 \in 1 .. Len(s) + 1 /\ Len(s) + 1 - (j + 1) = Len(s) - j
    OBVIOUS
  <2>2. \A i \in 1 .. Len(s) - j : (j + 1) + i - 1 = j + i
    OBVIOUS
  <2>3. /\ q \in Seq(S) /\ Len(q) = Len(s) + 1 - (j + 1)
        /\ \A i \in 1 .. Len(s) + 1 - (j + 1) : q[i] = s[(j + 1) + i - 1]
    BY <2>1, RestElements
  <2> HIDE DEF q
  <2> QED
    BY <2>1, <2>2, <2>3
<1> HIDE DEF r, q
<1>3. r # <<>> /\ 1 \in 1 .. Len(s) + 1 - j /\ j + 1 - 1 = j
  BY <1>1
<1>4. /\ Tail(r) \in Seq(S) /\ Len(Tail(r)) = Len(r) - 1 /\ Head(r) = r[1]
      /\ \A i \in 1 .. Len(r) - 1 : Tail(r)[i] = r[i + 1]
  BY <1>1, <1>3, TailElements
<1>5. Tail(r) = q
  <2>1. ASSUME NEW i \in 1 .. Len(s) - j PROVE Tail(r)[i] = q[i]
    <3>1. i \in 1 .. Len(r) - 1 /\ i + 1 \in 1 .. Len(s) + 1 - j /\ j + (i + 1) - 1 = j + i
      BY <1>1
    <3> QED
      BY <1>1, <1>2, <1>4, <3>1
  <2>a. Len(s) \in Nat /\ Len(r) - 1 = Len(s) - j
    BY <1>1
  <2>2. Len(Tail(r)) = Len(q) /\ Len(Tail(r)) = Len(s) - j
    BY <1>2, <1>4, <2>a
  <2> QED
    BY <1>2, <1>4, <2>1, <2>2, SameElements
<1>6. Head(r) = s[j]
  BY <1>1, <1>3, <1>4
<1> QED
  BY <1>3, <1>5, <1>6 DEF r, q

LEMMA NoRest ==
  ASSUME NEW S, NEW s \in Seq(S)
  PROVE  SubSeq(s, Len(s) + 1, Len(s)) = <<>> /\ SubSeq(s, 1, Len(s)) = s
OBVIOUS

LEMMA Appended ==
  ASSUME NEW S, NEW s \in Seq(S), NEW x \in S
  PROVE  /\ Append(s, x) \in Seq(S) /\ Len(Append(s, x)) = Len(s) + 1
         /\ Append(s, x)[Len(s) + 1] = x
         /\ \A i \in 1 .. Len(s) : Append(s, x)[i] = s[i]
OBVIOUS

\* A sequence that is filled from a function, with one element more.
LEMMA OneMore ==
  ASSUME NEW f, NEW n \in Nat
  PROVE  Append([i \in 1 .. n |-> f[i]], f[n + 1]) = [i \in 1 .. n + 1 |-> f[i]]
OBVIOUS

LEMMA AppendTo0 ==
  ASSUME NEW a
  PROVE  Append(<<>>, a) = <<a>>
<1> DEFINE S == {a}
           s == <<>>
           t == <<a>>
           r == Append(s, a)
<1>1. s \in Seq(S) /\ Len(s) = 0
  OBVIOUS
<1>2. t \in Seq(S) /\ Len(t) = 1 /\ t[1] = a
  OBVIOUS
<1>3. a \in S
  OBVIOUS
<1> HIDE DEF S, s, t
<1>4. r \in Seq(S) /\ Len(r) = 1 /\ r[1] = a
  BY <1>1, <1>3
<1> HIDE DEF r
<1>5. r = t
  BY <1>1, <1>2, <1>4, SameElements
<1> QED
  BY <1>5 DEF r, s, t

LEMMA AppendTo1 ==
  ASSUME NEW a, NEW b
  PROVE  Append(<<a>>, b) = <<a, b>>
<1> DEFINE S == {a, b}
           s == <<a>>
           t == <<a, b>>
           r == Append(s, b)
<1>1. s \in Seq(S) /\ Len(s) = 1 /\ s[1] = a
  OBVIOUS
<1>2. t \in Seq(S) /\ Len(t) = 2 /\ t[1] = a /\ t[2] = b
  OBVIOUS
<1>3. b \in S
  OBVIOUS
<1> HIDE DEF S, s, t
<1>4. /\ r \in Seq(S) /\ Len(r) = Len(s) + 1 /\ r[Len(s) + 1] = b
      /\ \A i \in 1 .. Len(s) : r[i] = s[i]
  <2>1. s \in Seq(S)
    BY <1>1
  <2> QED
    BY <1>3, <2>1
<1> HIDE DEF r
<1>5. 1 \in 1 .. Len(s) /\ Len(s) + 1 = 2
  BY <1>1
<1>6. r \in Seq(S) /\ Len(r) = 2 /\ r[1] = s[1] /\ r[2] = b
  BY <1>1, <1>4, <1>5
<1>7. r = t
  BY <1>1, <1>2, <1>6, SameElements
<1> QED
  BY <1>7 DEF r, s, t

LEMMA AppendTo2 ==
  ASSUME NEW a, NEW b, NEW c
  PROVE  Append(<<a, b>>, c) = <<a, b, c>>
<1> DEFINE S == {a, b, c}
           s == <<a, b>>
           t == <<a, b, c>>
           r == Append(s, c)
<1>1. s \in Seq(S) /\ Len(s) = 2 /\ s[1] = a /\ s[2] = b
  OBVIOUS
<1>2. t \in Seq(S) /\ Len(t) = 3 /\ t[1] = a /\ t[2] = b /\ t[3] = c
  OBVIOUS
<1>3. c \in S
  OBVIOUS
<1> HIDE DEF S, s, t
<1>4. /\ r \in Seq(S) /\ Len(r) = Len(s) + 1 /\ r[Len(s) + 1] = c
      /\ \A i \in 1 .. Len(s) : r[i] = s[i]
  <2>1. s \in Seq(S)
    BY <1>1
  <2> QED
    BY <1>3, <2>1
<1> HIDE DEF r
<1>5. 1 \in 1 .. Len(s) /\ 2 \in 1 .. Len(s) /\ Len(s) + 1 = 3
  BY <1>1
<1>6. r \in Seq(S) /\ Len(r) = 3 /\ r[1] = s[1] /\ r[2] = s[2] /\ r[3] = c
  BY <1>1, <1>4, <1>5
<1>7. r = t
  BY <1>1, <1>2, <1>6, SameElements
<1> QED
  BY <1>7 DEF r, s, t

LEMMA AppendTo3 ==
  ASSUME NEW a, NEW b, NEW c, NEW d
  PROVE  Append(<<a, b, c>>, d) = <<a, b, c, d>>
<1> DEFINE S == {a, b, c, d}
           s == <<a, b, c>>
           t == <<a, b, c, d>>
           r == Append(s, d)
<1>1. s \in Seq(S) /\ Len(s) = 3 /\ s[1] = a /\ s[2] = b /\ s[3] = c
  OBVIOUS
<1>2. t \in Seq(S) /\ Len(t) = 4 /\ t[1] = a /\ t[2] = b /\ t[3] = c /\ t[4] = d
  OBVIOUS
<1>3. d \in S
  OBVIOUS
<1> HIDE DEF S, s, t
<1>4. /\ r \in Seq(S) /\ Len(r) = Len(s) + 1 /\ r[Len(s) + 1] = d
      /\ \A i \in 1 .. Len(s) : r[i] = s[i]
  <2>1. s \in Seq(S)
    BY <1>1
  <2> QED
    BY <1>3, <2>1
<1> HIDE DEF r
<1>5. 1 \in 1 .. Len(s) /\ 2 \in 1 .. Len(s) /\ 3 \in 1 .. Len(s) /\ Len(s) + 1 = 4
  BY <1>1
<1>6. r \in Seq(S) /\ Len(r) = 4 /\ r[1] = s[1] /\ r[2] = s[2] /\ r[3] = s[3] /\ r[4] = d
  BY <1>1, <1>4, <1>5
<1>7. r = t
  <2>1. ASSUME NEW i \in 1 .. Len(r) PROVE r[i] = t[i]
    <3>1. i = 1 \/ i = 2 \/ i = 3 \/ i = 4
      BY <1>6
    <3> QED
      BY <1>1, <1>2, <1>6, <3>1
  <2>2. Len(r) = Len(t)
    BY <1>2, <1>6
  <2> QED
    BY <1>2, <1>6, <2>1, <2>2, SameElements
<1> QED
  BY <1>7 DEF r, s, t

LEMMA BeginElements ==
  ASSUME NEW S, NEW s \in Seq(S), NEW n \in 0 .. Len(s)
  PROVE  /\ SubSeq(s, 1, n) \in Seq(S) /\ Len(SubSeq(s, 1, n)) = n
         /\ \A i \in 1 .. n : SubSeq(s, 1, n)[i] = s[i]
OBVIOUS

LEMMA BeginOfTuple ==
  ASSUME NEW a, NEW b, NEW c, NEW d
  PROVE  /\ SubSeq(<<a, b>>, 1, 1) = <<a>>
         /\ SubSeq(<<a, b, c>>, 1, 2) = <<a, b>>
         /\ SubSeq(<<a, b, c, d>>, 1, 3) = <<a, b, c>>
<1> DEFINE S == {a, b, c, d}
<1>0. a \in S /\ b \in S /\ c \in S /\ d \in S
  OBVIOUS
<1> HIDE DEF S
<1>1. SubSeq(<<a, b>>, 1, 1) = <<a>>
  <2> DEFINE s == <<a, b>>  t == <<a>>
  <2>1. /\ s \in Seq(S) /\ Len(s) = 2 /\ s[1] = a /\ s[2] = b
        /\ t \in Seq(S) /\ Len(t) = 1 /\ t[1] = a
    BY <1>0
  <2> HIDE DEF s, t
  <2>2. SubSeq(s, 1, 1) \in Seq(S) /\ Len(SubSeq(s, 1, 1)) = 1 /\ SubSeq(s, 1, 1)[1] = a
    BY <2>1, BeginElements
  <2>3. SubSeq(s, 1, 1) = t
    BY <2>1, <2>2, SameElements
  <2> QED
    BY <2>3 DEF s, t
<1>2. SubSeq(<<a, b, c>>, 1, 2) = <<a, b>>
  <2> DEFINE s == <<a, b, c>>  t == <<a, b>>
  <2>1. /\ s \in Seq(S) /\ Len(s) = 3 /\ s[1] = a /\ s[2] = b /\ s[3] = c
        /\ t \in Seq(S) /\ Len(t) = 2 /\ t[1] = a /\ t[2] = b
    BY <1>0
  <2> HIDE DEF s, t
  <2>2. /\ SubSeq(s, 1, 2) \in Seq(S) /\ Len(SubSeq(s, 1, 2)) = 2
        /\ SubSeq(s, 1, 2)[1] = a /\ SubSeq(s, 1, 2)[2] = b
    BY <2>1, BeginElements
  <2>3. SubSeq(s, 1, 2) = t
    BY <2>1, <2>2, SameElements
  <2> QED
    BY <2>3 DEF s, t
<1>3. SubSeq(<<a, b, c, d>>, 1, 3) = <<a, b, c>>
  <2> DEFINE s == <<a, b, c, d>>  t == <<a, b, c>>
  <2>1. /\ s \in Seq(S) /\ Len(s) = 4 /\ s[1] = a /\ s[2] = b /\ s[3] = c /\ s[4] = d
        /\ t \in Seq(S) /\ Len(t) = 3 /\ t[1] = a /\ t[2] = b /\ t[3] = c
    BY <1>0
  <2> HIDE DEF s, t
  <2>2. /\ SubSeq(s, 1, 3) \in Seq(S) /\ Len(SubSeq(s, 1, 3)) = 3
        /\ SubSeq(s, 1, 3)[1] = a /\ SubSeq(s, 1, 3)[2] = b /\ SubSeq(s, 1, 3)[3] = c
    BY <2>1, BeginElements
  <2>3. SubSeq(s, 1, 3) = t
    BY <2>1, <2>2, SameElements
  <2> QED
    BY <2>3 DEF s, t
<1> QED
  BY <1>1, <1>2, <1>3

-----------------------------------------------------------------------------
(***************************************************************************)
(* What the calls do to the documents.                                     *)
(***************************************************************************)

Document(key, elements, m_index, in_child) ==
  [key |-> key, elements |-> elements, m_index |-> m_index, in_child |-> in_child]

LEMMA Fields4 ==
  ASSUME NEW k, NEW e, NEW i, NEW o
  PROVE  LET d == Document(k, e, i, o)
         IN  d.key = k /\ d.elements = e /\ d.m_index = i /\ d.in_child = o
BY DEF Document

\* The values of in_child: a Boolean is no value for the provers.
Open == TRUE
Shut == FALSE

LEMMA Opens ==
  ASSUME NEW k, NEW e, NEW i, NEW o
  PROVE  [Document(k, e, i, o) EXCEPT !.in_child = Open] = Document(k, e, i, Open)
BY DEF Document

LEMMA Appends ==
  ASSUME NEW k, NEW e, NEW i, NEW o, NEW x
  PROVE  [Document(k, e, i, o) EXCEPT !.elements = Append(@, x)] = Document(k, Append(e, x), i, o)
<1> DEFINE y == Append(Document(k, e, i, o).elements, x)
<1>1. y = Append(e, x)
  BY Fields4
<1> HIDE DEF y
<1>0. [Document(k, e, i, o) EXCEPT !.elements = y] = Document(k, y, i, o)
  BY DEF Document
<1>2. [Document(k, e, i, o) EXCEPT !.elements = y] = Document(k, Append(e, x), i, o)
  BY <1>1, <1>0, Zenon
<1> QED
  BY <1>2 DEF y

LEMMA Increments ==
  ASSUME NEW k, NEW e, NEW i, NEW o
  PROVE  [Document(k, e, i, o) EXCEPT !.m_index = @ + 1] = Document(k, e, i + 1, o)
BY DEF Document

\* A SubArray is constructed under the index m_index of document k; the element
\* x is appended to document k; its index is incremented; its child is closed.
Begun(ds, k, m_index) ==
  Append([ds EXCEPT ![k].in_child = Open], EmptyDocument(m_index))
Extended(ds, k, x) == [ds EXCEPT ![k].elements = Append(@, x)]
Incremented(ds, k) == [ds EXCEPT ![k].m_index = @ + 1]
Ended(ds, k, x) ==
  [SubSeq(ds, 1, k) EXCEPT ![k].in_child = Shut, ![k].elements = Append(@, x)]

LEMMA BeginIn1 ==
  ASSUME NEW k, NEW e, NEW i
  PROVE  Begun(<<Document(k, e, i, Shut)>>, 1, i)
           = <<Document(k, e, i, Open), Document(i, <<>>, 0, Shut)>>
<1> DEFINE x == Document(k, e, i, Shut)  y == Document(k, e, i, Open)  z == EmptyDocument(i)
<1>1. [x EXCEPT !.in_child = Open] = y
  BY Opens
<1>2. z = Document(i, <<>>, 0, Shut)
  BY DEF EmptyDocument, Document, Shut
<1> HIDE DEF x, y, z
<1>3. [<<x>> EXCEPT ![1].in_child = Open] = <<y>>
  BY <1>1
<1>4. Append(<<y>>, z) = <<y, z>>
  BY AppendTo1
<1>5. Append([<<x>> EXCEPT ![1].in_child = Open], z) = <<y, z>>
  BY <1>3, <1>4, Zenon
<1> QED
  BY <1>2, <1>5, Zenon DEF Begun, x, y, z

LEMMA BeginIn2 ==
  ASSUME NEW a, NEW k, NEW e, NEW i
  PROVE  Begun(<<a, Document(k, e, i, Shut)>>, 2, i)
           = <<a, Document(k, e, i, Open), Document(i, <<>>, 0, Shut)>>
<1> DEFINE x == Document(k, e, i, Shut)  y == Document(k, e, i, Open)  z == EmptyDocument(i)
<1>1. [x EXCEPT !.in_child = Open] = y
  BY Opens
<1>2. z = Document(i, <<>>, 0, Shut)
  BY DEF EmptyDocument, Document, Shut
<1> HIDE DEF x, y, z
<1>3. [<<a, x>> EXCEPT ![2].in_child = Open] = <<a, y>>
  BY <1>1
<1>4. Append(<<a, y>>, z) = <<a, y, z>>
  BY AppendTo2
<1>5. Append([<<a, x>> EXCEPT ![2].in_child = Open], z) = <<a, y, z>>
  BY <1>3, <1>4, Zenon
<1> QED
  BY <1>2, <1>5, Zenon DEF Begun, x, y, z

LEMMA BeginIn3 ==
  ASSUME NEW a, NEW b, NEW k, NEW e, NEW i
  PROVE  Begun(<<a, b, Document(k, e, i, Shut)>>, 3, i)
           = <<a, b, Document(k, e, i, Open), Document(i, <<>>, 0, Shut)>>
<1> DEFINE x == Document(k, e, i, Shut)  y == Document(k, e, i, Open)  z == EmptyDocument(i)
<1>1. [x EXCEPT !.in_child = Open] = y
  BY Opens
<1>2. z = Document(i, <<>>, 0, Shut)
  BY DEF EmptyDocument, Document, Shut
<1> HIDE DEF x, y, z
<1>3. [<<a, b, x>> EXCEPT ![3].in_child = Open] = <<a, b, y>>
  BY <1>1
<1>4. Append(<<a, b, y>>, z) = <<a, b, y, z>>
  BY AppendTo3
<1>5. Append([<<a, b, x>> EXCEPT ![3].in_child = Open], z) = <<a, b, y, z>>
  BY <1>3, <1>4, Zenon
<1> QED
  BY <1>2, <1>5, Zenon DEF Begun, x, y, z

LEMMA AppendIn3 ==
  ASSUME NEW a, NEW b, NEW k, NEW e, NEW i, NEW o, NEW v
  PROVE  Extended(<<a, b, Document(k, e, i, o)>>, 3, v)
           = <<a, b, Document(k, Append(e, v), i, o)>>
<1> DEFINE x == Document(k, e, i, o)  y == Document(k, Append(e, v), i, o)
<1>1. [x EXCEPT !.elements = Append(@, v)] = y
  BY Appends
<1> HIDE DEF x, y
<1>2. [<<a, b, x>> EXCEPT ![3].elements = Append(@, v)]
        = [<<a, b, x>> EXCEPT ![3] = [x EXCEPT !.elements = Append(@, v)]]
  OBVIOUS
<1>3. [<<a, b, x>> EXCEPT ![3] = y] = <<a, b, y>>
  OBVIOUS
<1> QED
  BY <1>1, <1>2, <1>3, Zenon DEF Extended, x, y

LEMMA AppendIn4 ==
  ASSUME NEW a, NEW b, NEW c, NEW k, NEW e, NEW i, NEW o, NEW v
  PROVE  Extended(<<a, b, c, Document(k, e, i, o)>>, 4, v)
           = <<a, b, c, Document(k, Append(e, v), i, o)>>
<1> DEFINE x == Document(k, e, i, o)  y == Document(k, Append(e, v), i, o)
<1>1. [x EXCEPT !.elements = Append(@, v)] = y
  BY Appends
<1> HIDE DEF x, y
<1>2. [<<a, b, c, x>> EXCEPT ![4].elements = Append(@, v)]
        = [<<a, b, c, x>> EXCEPT ![4] = [x EXCEPT !.elements = Append(@, v)]]
  OBVIOUS
<1>3. [<<a, b, c, x>> EXCEPT ![4] = y] = <<a, b, c, y>>
  OBVIOUS
<1> QED
  BY <1>1, <1>2, <1>3, Zenon DEF Extended, x, y

LEMMA IncrementIn2 ==
  ASSUME NEW a, NEW k, NEW e, NEW i, NEW o
  PROVE  Incremented(<<a, Document(k, e, i, o)>>, 2)
           = <<a, Document(k, e, i + 1, o)>>
<1> DEFINE x == Document(k, e, i, o)  y == Document(k, e, i + 1, o)
<1>1. [x EXCEPT !.m_index = @ + 1] = y
  BY Increments
<1> HIDE DEF x, y
<1>2. [<<a, x>> EXCEPT ![2].m_index = @ + 1]
        = [<<a, x>> EXCEPT ![2] = [x EXCEPT !.m_index = @ + 1]]
  OBVIOUS
<1>3. [<<a, x>> EXCEPT ![2] = y] = <<a, y>>
  OBVIOUS
<1> QED
  BY <1>1, <1>2, <1>3, Zenon DEF Incremented, x, y

LEMMA IncrementIn3 ==
  ASSUME NEW a, NEW b, NEW d, NEW k, NEW e, NEW i, NEW o
  PROVE  Incremented(<<a, b, Document(k, e, i, o), d>>, 3)
           = <<a, b, Document(k, e, i + 1, o), d>>
<1> DEFINE x == Document(k, e, i, o)  y == Document(k, e, i + 1, o)
<1>1. [x EXCEPT !.m_index = @ + 1] = y
  BY Increments
<1> HIDE DEF x, y
<1>2. [<<a, b, x, d>> EXCEPT ![3].m_index = @ + 1]
        = [<<a, b, x, d>> EXCEPT ![3] = [x EXCEPT !.m_index = @ + 1]]
  OBVIOUS
<1>3. [<<a, b, x, d>> EXCEPT ![3] = y] = <<a, b, y, d>>
  OBVIOUS
<1> QED
  BY <1>1, <1>2, <1>3, Zenon DEF Incremented, x, y

LEMMA EndOf2 ==
  ASSUME NEW k, NEW e, NEW i, NEW o, NEW d, NEW v
  PROVE  Ended(<<Document(k, e, i, o), d>>, 1, v)
           = <<Document(k, Append(e, v), i, Shut)>>
<1> DEFINE x == Document(k, e, i, o)  y == Document(k, Append(e, v), i, Shut)
<1>1. [x EXCEPT !.in_child = Shut, !.elements = Append(@, v)] = y
  <2> DEFINE w == Append(x.elements, v)
  <2>1. w = Append(e, v)
    BY Fields4
  <2>2. [x EXCEPT !.in_child = Shut] = Document(k, e, i, Shut)
    BY DEF Document
  <2> HIDE DEF w, x
  <2>3. [x EXCEPT !.in_child = Shut, !.elements = w]
          = [[x EXCEPT !.in_child = Shut] EXCEPT !.elements = w]
    OBVIOUS
  <2>4. [Document(k, e, i, Shut) EXCEPT !.elements = w] = Document(k, w, i, Shut)
    BY DEF Document
  <2>5. [x EXCEPT !.in_child = Shut, !.elements = w] = y
    BY <2>1, <2>2, <2>3, <2>4, Zenon
  <2> QED
    BY <2>5 DEF w
<1> HIDE DEF x, y
<1>2. SubSeq(<<x, d>>, 1, 1) = <<x>>
  BY BeginOfTuple
<1>3. [<<x>> EXCEPT ![1].in_child = Shut, ![1].elements = Append(@, v)]
        = [<<x>> EXCEPT ![1] = [x EXCEPT !.in_child = Shut, !.elements = Append(@, v)]]
  OBVIOUS
<1>4. [<<x>> EXCEPT ![1] = y] = <<y>>
  OBVIOUS
<1> QED
  BY <1>1, <1>2, <1>3, <1>4, Zenon DEF Ended, x, y

LEMMA EndOf3 ==
  ASSUME NEW a, NEW k, NEW e, NEW i, NEW o, NEW d, NEW v
  PROVE  Ended(<<a, Document(k, e, i, o), d>>, 2, v)
           = <<a, Document(k, Append(e, v), i, Shut)>>
<1> DEFINE x == Document(k, e, i, o)  y == Document(k, Append(e, v), i, Shut)
<1>1. [x EXCEPT !.in_child = Shut, !.elements = Append(@, v)] = y
  <2> DEFINE w == Append(x.elements, v)
  <2>1. w = Append(e, v)
    BY Fields4
  <2>2. [x EXCEPT !.in_child = Shut] = Document(k, e, i, Shut)
    BY DEF Document
  <2> HIDE DEF w, x
  <2>3. [x EXCEPT !.in_child = Shut, !.elements = w]
          = [[x EXCEPT !.in_child = Shut] EXCEPT !.elements = w]
    OBVIOUS
  <2>4. [Document(k, e, i, Shut) EXCEPT !.elements = w] = Document(k, w, i, Shut)
    BY DEF Document
  <2>5. [x EXCEPT !.in_child = Shut, !.elements = w] = y
    BY <2>1, <2>2, <2>3, <2>4, Zenon
  <2> QED
    BY <2>5 DEF w
<1> HIDE DEF x, y
<1>2. SubSeq(<<a, x, d>>, 1, 2) = <<a, x>>
  BY BeginOfTuple
<1>3. [<<a, x>> EXCEPT ![2].in_child = Shut, ![2].elements = Append(@, v)]
        = [<<a, x>> EXCEPT ![2] = [x EXCEPT !.in_child = Shut, !.elements = Append(@, v)]]
  OBVIOUS
<1>4. [<<a, x>> EXCEPT ![2] = y] = <<a, y>>
  OBVIOUS
<1> QED
  BY <1>1, <1>2, <1>3, <1>4, Zenon DEF Ended, x, y

LEMMA EndOf4 ==
  ASSUME NEW a, NEW b, NEW k, NEW e, NEW i, NEW o, NEW d, NEW v
  PROVE  Ended(<<a, b, Document(k, e, i, o), d>>, 3, v)
           = <<a, b, Document(k, Append(e, v), i, Shut)>>
<1> DEFINE x == Document(k, e, i, o)  y == Document(k, Append(e, v), i, Shut)
<1>1. [x EXCEPT !.in_child = Shut, !.elements = Append(@, v)] = y
  <2> DEFINE w == Append(x.elements, v)
  <2>1. w = Append(e, v)
    BY Fields4
  <2>2. [x EXCEPT !.in_child = Shut] = Document(k, e, i, Shut)
    BY DEF Document
  <2> HIDE DEF w, x
  <2>3. [x EXCEPT !.in_child = Shut, !.elements = w]
          = [[x EXCEPT !.in_child = Shut] EXCEPT !.elements = w]
    OBVIOUS
  <2>4. [Document(k, e, i, Shut) EXCEPT !.elements = w] = Document(k, w, i, Shut)
    BY DEF Document
  <2>5. [x EXCEPT !.in_child = Shut, !.elements = w] = y
    BY <2>1, <2>2, <2>3, <2>4, Zenon
  <2> QED
    BY <2>5 DEF w
<1> HIDE DEF x, y
<1>2. SubSeq(<<a, b, x, d>>, 1, 3) = <<a, b, x>>
  BY BeginOfTuple
<1>3. [<<a, b, x>> EXCEPT ![3].in_child = Shut, ![3].elements = Append(@, v)]
        = [<<a, b, x>> EXCEPT ![3] = [x EXCEPT !.in_child = Shut, !.elements = Append(@, v)]]
  OBVIOUS
<1>4. [<<a, b, x>> EXCEPT ![3] = y] = <<a, b, y>>
  OBVIOUS
<1> QED
  BY <1>1, <1>2, <1>3, <1>4, Zenon DEF Ended, x, y

-----------------------------------------------------------------------------
(***************************************************************************)
(* The documents before each call: t is the turn, and j the place of the   *)
(* call among those of the turn.                                           *)
(***************************************************************************)

\* The first n elements of the attachments of a message.
AttachmentElements(m, n) == [i \in 1 .. n |-> Element(0, "binary", m.attachments[i])]

MessageElements(m, n) ==
  [i \in 1 .. n |->
     CASE i = 1 -> Element(0, "int64", to_int64(m.from))
       [] i = 2 -> Element(0, "int64", to_int64(m.to))
       [] i = 3 -> Element(0, "utf8", m.text)
       [] OTHER -> Element(0, "array", AttachmentElements(m, Len(m.attachments)))]

\* The array of the first n messages.
ArrayElements(v, n) == [i \in 1 .. n |-> Element(i - 1, "array", MessageElements(v[i], 4))]

Bson(in_child) == Document(0, <<>>, 0, in_child)
Array(v, n, m_index, in_child) == Document(0, ArrayElements(v, n), m_index, in_child)

\* While message t is written, whose call j comes next.
InMessage(v, t, j) ==
  LET m == v[t]
      n == Len(m.attachments)
  IN
  CASE j = 1 -> <<Bson(Open), Array(v, t - 1, t - 1, Shut)>>
    [] j \in 2 .. 5 ->
         <<Bson(Open), Array(v, t - 1, t - 1, Open),
           Document(t - 1, MessageElements(m, j - 2), 0, Shut)>>
    [] j = 6 ->
         <<Bson(Open), Array(v, t - 1, t - 1, Open),
           Document(t - 1, MessageElements(m, 3), 0, Open), Document(0, <<>>, 0, Shut)>>
    [] j \in 7 .. 7 + n ->
         <<Bson(Open), Array(v, t - 1, t - 1, Open),
           Document(t - 1, MessageElements(m, 3), 1, Open),
           Document(0, AttachmentElements(m, j - 7), 0, Shut)>>
    [] j = 8 + n ->
         <<Bson(Open), Array(v, t - 1, t - 1, Open),
           Document(t - 1, MessageElements(m, 4), 1, Shut)>>
    [] j = 9 + n -> <<Bson(Open), Array(v, t, t - 1, Shut)>>
    [] OTHER -> <<Bson(Open), Array(v, t, t, Shut)>>

Complete(v) == <<Element(0, "array", ArrayElements(v, Len(v)))>>

Documents(v, t, j) ==
  CASE t = 0 /\ j = 1 -> <<Bson(Shut)>>
    [] t = 0 /\ j # 1 -> <<Bson(Open), Array(v, 0, 0, Shut)>>
    [] t \in 1 .. Len(v) -> InMessage(v, t, j)
    [] t = Len(v) + 1 /\ j = 1 -> <<Bson(Open), Array(v, Len(v), Len(v), Shut)>>
    [] OTHER -> <<Document(0, Complete(v), 0, Shut)>>

IsDocument(d) == d = Document(d.key, d.elements, d.m_index, d.in_child)

\* Each document is the open child of the one before it.
Nested(ds) ==
  /\ Len(ds) \in 1 .. 4
  /\ ds = [k \in 1 .. Len(ds) |-> ds[k]]
  /\ \A k \in 1 .. Len(ds) :
       IsDocument(ds[k]) /\ ds[k].in_child = IF k < Len(ds) THEN Open ELSE Shut

WritingInv ==
  /\ turn \in 0 .. Len(messages) + 1
  /\ LET C == VectorCalls(messages, turn) IN
     \E j \in 1 .. Len(C) + 1 :
       todo = SubSeq(C, j, Len(C)) /\ documents = Documents(messages, turn, j)

BInv ==
  /\ messages \in Vectors
  /\ outcome \in {"writing", "unwinding", "undefined", "written", "thrown", "read"}
  /\ outcome = "writing" => WritingInv
  /\ outcome = "unwinding" => Nested(documents) /\ todo = Destructors(Len(documents))
  /\ outcome = "written" => documents[1].elements = Complete(messages)
  /\ outcome = "read" => got = messages

LEMMA NoElements ==
  ASSUME NEW v, NEW m
  PROVE  ArrayElements(v, 0) = <<>> /\ MessageElements(m, 0) = <<>> /\ AttachmentElements(m, 0) = <<>>
BY DEF ArrayElements, MessageElements, AttachmentElements

LEMMA OneMoreMessage ==
  ASSUME NEW v, NEW t \in Nat \ {0}
  PROVE  Append(ArrayElements(v, t - 1), Element(t - 1, "array", MessageElements(v[t], 4)))
           = ArrayElements(v, t)
<1> DEFINE f == [i \in 1 .. t |-> Element(i - 1, "array", MessageElements(v[i], 4))]
           n == t - 1
<1>1. n \in Nat /\ n + 1 = t /\ t \in 1 .. t
  OBVIOUS
<1>2. f[n + 1] = Element(t - 1, "array", MessageElements(v[t], 4))
  BY <1>1
<1>3. ArrayElements(v, n) = [i \in 1 .. n |-> f[i]]
  BY <1>1 DEF ArrayElements
<1>4. ArrayElements(v, t) = [i \in 1 .. n + 1 |-> f[i]]
  BY <1>1 DEF ArrayElements
<1>5. Append([i \in 1 .. n |-> f[i]], f[n + 1]) = [i \in 1 .. n + 1 |-> f[i]]
  <2> HIDE DEF f, n
  <2> QED
    BY <1>1, OneMore
<1> QED
  BY <1>2, <1>3, <1>4, <1>5, Zenon

LEMMA OneMoreAttachment ==
  ASSUME NEW m, NEW n \in Nat
  PROVE  Append(AttachmentElements(m, n), Element(0, "binary", m.attachments[n + 1]))
           = AttachmentElements(m, n + 1)
<1> DEFINE f == [i \in 1 .. n + 1 |-> Element(0, "binary", m.attachments[i])]
<1>1. n + 1 \in 1 .. n + 1
  OBVIOUS
<1>2. f[n + 1] = Element(0, "binary", m.attachments[n + 1])
  BY <1>1
<1>3. AttachmentElements(m, n) = [i \in 1 .. n |-> f[i]]
  BY DEF AttachmentElements
<1>4. AttachmentElements(m, n + 1) = [i \in 1 .. n + 1 |-> f[i]]
  BY DEF AttachmentElements
<1>5. Append([i \in 1 .. n |-> f[i]], f[n + 1]) = [i \in 1 .. n + 1 |-> f[i]]
  <2> HIDE DEF f
  <2> QED
    BY OneMore
<1> QED
  BY <1>2, <1>3, <1>4, <1>5, Zenon

LEMMA OneMoreField ==
  ASSUME NEW m
  PROVE  /\ Append(MessageElements(m, 0), Element(0, "int64", to_int64(m.from)))
              = MessageElements(m, 1)
         /\ Append(MessageElements(m, 1), Element(0, "int64", to_int64(m.to)))
              = MessageElements(m, 2)
         /\ Append(MessageElements(m, 2), Element(0, "utf8", m.text)) = MessageElements(m, 3)
         /\ Append(MessageElements(m, 3),
                   Element(0, "array", AttachmentElements(m, Len(m.attachments))))
              = MessageElements(m, 4)
<1> DEFINE f == [i \in 1 .. 4 |->
                   CASE i = 1 -> Element(0, "int64", to_int64(m.from))
                     [] i = 2 -> Element(0, "int64", to_int64(m.to))
                     [] i = 3 -> Element(0, "utf8", m.text)
                     [] OTHER -> Element(0, "array", AttachmentElements(m, Len(m.attachments)))]
<1>1. /\ f[1] = Element(0, "int64", to_int64(m.from))
      /\ f[2] = Element(0, "int64", to_int64(m.to))
      /\ f[3] = Element(0, "utf8", m.text)
      /\ f[4] = Element(0, "array", AttachmentElements(m, Len(m.attachments)))
  OBVIOUS
<1>2. ASSUME NEW n \in 0 .. 4 PROVE MessageElements(m, n) = [i \in 1 .. n |-> f[i]]
  BY DEF MessageElements
<1> HIDE DEF f
<1>3. ASSUME NEW n \in 0 .. 3 PROVE Append(MessageElements(m, n), f[n + 1]) = MessageElements(m, n + 1)
  <2>1. n + 1 \in 0 .. 4 /\ n \in 0 .. 4 /\ n \in Nat
    OBVIOUS
  <2>2. /\ MessageElements(m, n) = [i \in 1 .. n |-> f[i]]
        /\ MessageElements(m, n + 1) = [i \in 1 .. n + 1 |-> f[i]]
    BY <1>2, <2>1
  <2>3. Append([i \in 1 .. n |-> f[i]], f[n + 1]) = [i \in 1 .. n + 1 |-> f[i]]
    BY <2>1, OneMore
  <2> QED
    BY <2>2, <2>3
<1>4. /\ Append(MessageElements(m, 0), f[0 + 1]) = MessageElements(m, 0 + 1)
      /\ Append(MessageElements(m, 1), f[1 + 1]) = MessageElements(m, 1 + 1)
      /\ Append(MessageElements(m, 2), f[2 + 1]) = MessageElements(m, 2 + 1)
      /\ Append(MessageElements(m, 3), f[3 + 1]) = MessageElements(m, 3 + 1)
  <2>1. 0 \in 0 .. 3 /\ 1 \in 0 .. 3 /\ 2 \in 0 .. 3 /\ 3 \in 0 .. 3
    OBVIOUS
  <2> QED
    BY <1>3, <2>1
<1>5. 0 + 1 = 1 /\ 1 + 1 = 2 /\ 2 + 1 = 3 /\ 3 + 1 = 4
  OBVIOUS
<1> QED
  BY <1>1, <1>4, <1>5

-----------------------------------------------------------------------------
(***************************************************************************)
(* The calls of a turn.                                                    *)
(***************************************************************************)

CallSet(m) ==
  {Begin(3), Begin(4), Increment(2), Increment(3), End(3), End(4)}
    \cup {Append1(3, "int64", to_int64(m.from)), Append1(3, "int64", to_int64(m.to)),
          Append1(3, "utf8", m.text)}
    \cup {Append1(4, "binary", m.attachments[i]) : i \in 1 .. Len(m.attachments)}

\* What MessageCalls and the increment after it are: nine calls, and those in r.
Joined(c, r) ==
  Append(<<c[1]>> \o <<c[2], c[3], c[4]>> \o <<c[5], c[6]>> \o r \o <<c[7], c[8]>>, c[9])

LEMMA Pieces ==
  ASSUME NEW S, NEW x \in Seq(S), Len(x) = 9, NEW r \in Seq(S)
  PROVE  LET s == Joined(x, r)
             n == Len(r)
         IN /\ s \in Seq(S) /\ Len(s) = 9 + n
            /\ s[1] = x[1] /\ s[2] = x[2] /\ s[3] = x[3] /\ s[4] = x[4] /\ s[5] = x[5]
            /\ s[6] = x[6]
            /\ \A i \in 1 .. n : s[6 + i] = r[i]
            /\ s[7 + n] = x[7] /\ s[8 + n] = x[8] /\ s[9 + n] = x[9]
<1> DEFINE a == x[1]  b == x[2]  c == x[3]  d == x[4]  e == x[5]  f == x[6]  g == x[7]
           h == x[8]  k == x[9]
<1>0. /\ a \in S /\ b \in S /\ c \in S /\ d \in S /\ e \in S /\ f \in S /\ g \in S
      /\ h \in S /\ k \in S
  <2>1. \A i \in 1 .. 9 : x[i] \in S
    BY ElementOf
  <2>2. /\ 1 \in 1 .. 9 /\ 2 \in 1 .. 9 /\ 3 \in 1 .. 9 /\ 4 \in 1 .. 9 /\ 5 \in 1 .. 9
        /\ 6 \in 1 .. 9 /\ 7 \in 1 .. 9 /\ 8 \in 1 .. 9 /\ 9 \in 1 .. 9
    OBVIOUS
  <2> QED
    BY <2>1, <2>2
<1>01. Joined(x, r) = Append(<<a>> \o <<b, c, d>> \o <<e, f>> \o r \o <<g, h>>, k)
  BY DEF Joined
<1> HIDE DEF a, b, c, d, e, f, g, h, k
<1> DEFINE n == Len(r)
           t1 == <<a>>  t2 == <<b, c, d>>  t3 == <<e, f>>  t5 == <<g, h>>
<1>1. /\ t1 \in Seq(S) /\ Len(t1) = 1 /\ t1[1] = a
      /\ t2 \in Seq(S) /\ Len(t2) = 3 /\ t2[1] = b /\ t2[2] = c /\ t2[3] = d
      /\ t3 \in Seq(S) /\ Len(t3) = 2 /\ t3[1] = e /\ t3[2] = f
      /\ t5 \in Seq(S) /\ Len(t5) = 2 /\ t5[1] = g /\ t5[2] = h
      /\ n \in Nat
  BY <1>0
<1> HIDE DEF t1, t2, t3, t5, n
<1> DEFINE s2 == t1 \o t2
<1>2. /\ s2 \in Seq(S) /\ Len(s2) = 4
      /\ s2[1] = a /\ s2[2] = b /\ s2[3] = c /\ s2[4] = d
  <2>0. t1 \in Seq(S) /\ t2 \in Seq(S)
    BY <1>1
  <2>1. /\ s2 \in Seq(S) /\ Len(s2) = Len(t1) + Len(t2)
        /\ \A i \in 1 .. Len(t1) : s2[i] = t1[i]
        /\ \A i \in 1 .. Len(t2) : s2[Len(t1) + i] = t2[i]
    BY <2>0
  <2> HIDE DEF s2
  <2>2. s2[1] = t1[1] /\ s2[1 + 1] = t2[1] /\ s2[1 + 2] = t2[2] /\ s2[1 + 3] = t2[3]
    BY <1>1, <2>1
  <2> QED
    BY <1>1, <2>1, <2>2
<1> HIDE DEF s2
<1> DEFINE s3 == s2 \o t3
<1>3. /\ s3 \in Seq(S) /\ Len(s3) = 6
      /\ s3[1] = a /\ s3[2] = b /\ s3[3] = c /\ s3[4] = d /\ s3[5] = e /\ s3[6] = f
  <2>0. s2 \in Seq(S) /\ t3 \in Seq(S)
    BY <1>1, <1>2
  <2>1. /\ s3 \in Seq(S) /\ Len(s3) = Len(s2) + Len(t3)
        /\ \A i \in 1 .. Len(s2) : s3[i] = s2[i]
        /\ \A i \in 1 .. Len(t3) : s3[Len(s2) + i] = t3[i]
    BY <2>0
  <2> HIDE DEF s3
  <2>2. /\ s3[1] = s2[1] /\ s3[2] = s2[2] /\ s3[3] = s2[3] /\ s3[4] = s2[4]
        /\ s3[4 + 1] = t3[1] /\ s3[4 + 2] = t3[2]
    BY <1>1, <1>2, <2>1
  <2> QED
    BY <1>1, <1>2, <2>1, <2>2
<1> HIDE DEF s3
<1> DEFINE s4 == s3 \o r
<1>4. /\ s4 \in Seq(S) /\ Len(s4) = 6 + n
      /\ \A i \in 1 .. 6 : s4[i] = s3[i]
      /\ \A i \in 1 .. n : s4[6 + i] = r[i]
  <2>0. s3 \in Seq(S) /\ r \in Seq(S)
    BY <1>3
  <2>1. /\ s4 \in Seq(S) /\ Len(s4) = Len(s3) + Len(r)
        /\ \A i \in 1 .. Len(s3) : s4[i] = s3[i]
        /\ \A i \in 1 .. Len(r) : s4[Len(s3) + i] = r[i]
    BY <2>0
  <2> QED
    BY <1>3, <2>1 DEF n
<1> HIDE DEF s4
<1> DEFINE s5 == s4 \o t5
<1>5. /\ s5 \in Seq(S) /\ Len(s5) = 8 + n
      /\ \A i \in 1 .. 6 + n : s5[i] = s4[i]
      /\ s5[7 + n] = g /\ s5[8 + n] = h
  <2>0. s4 \in Seq(S) /\ t5 \in Seq(S)
    BY <1>1, <1>4
  <2>1. /\ s5 \in Seq(S) /\ Len(s5) = Len(s4) + Len(t5)
        /\ \A i \in 1 .. Len(s4) : s5[i] = s4[i]
        /\ \A i \in 1 .. Len(t5) : s5[Len(s4) + i] = t5[i]
    BY <2>0
  <2> HIDE DEF s5
  <2>2. s5[6 + n + 1] = g /\ s5[6 + n + 2] = h
    BY <1>1, <1>4, <2>1
  <2>3. 6 + n + 1 = 7 + n /\ 6 + n + 2 = 8 + n
    BY <1>1
  <2> QED
    BY <1>1, <1>4, <2>1, <2>2, <2>3
<1> HIDE DEF s5
<1> DEFINE s == Append(s5, k)
<1>6. /\ s \in Seq(S) /\ Len(s) = 9 + n /\ s[9 + n] = k
      /\ \A i \in 1 .. 8 + n : s[i] = s5[i]
  <2>1. /\ s \in Seq(S) /\ Len(s) = Len(s5) + 1 /\ s[Len(s5) + 1] = k
        /\ \A i \in 1 .. Len(s5) : s[i] = s5[i]
    BY <1>0, <1>5, Appended
  <2>2. 8 + n + 1 = 9 + n
    BY <1>1
  <2> QED
    BY <1>1, <1>5, <2>1, <2>2
<1> HIDE DEF s
<1>7. ASSUME NEW i \in 1 .. 6 PROVE s[i] = s3[i]
  <2>1. i \in 1 .. 6 + n /\ i \in 1 .. 8 + n
    BY <1>1
  <2> QED
    BY <1>4, <1>5, <1>6, <2>1
<1>8. ASSUME NEW i \in 1 .. n PROVE s[6 + i] = r[i]
  <2>1. 6 + i \in 1 .. 6 + n /\ 6 + i \in 1 .. 8 + n
    BY <1>1
  <2> QED
    BY <1>4, <1>5, <1>6, <2>1, ZenonT(60)
<1>9. s[7 + n] = g /\ s[8 + n] = h
  <2>1. 7 + n \in 1 .. 8 + n /\ 8 + n \in 1 .. 8 + n
    BY <1>1
  <2> QED
    BY <1>5, <1>6, <2>1
<1>10. s[1] = a /\ s[2] = b /\ s[3] = c /\ s[4] = d /\ s[5] = e /\ s[6] = f
  BY <1>3, <1>7
<1>11. s = Joined(x, r)
  BY <1>01 DEF s, s5, s4, s3, s2, t1, t2, t3, t5
<1> QED
  BY <1>6, <1>8, <1>9, <1>10, <1>11 DEF n, a, b, c, d, e, f, g, h, k

LEMMA CallsOfMessage ==
  ASSUME NEW v, NEW t \in DOMAIN v, v[t] \in Message, t # 0
  PROVE  LET m == v[t]
             n == Len(m.attachments)
             C == VectorCalls(v, t)
         IN /\ n \in Nat /\ C \in Seq(CallSet(m)) /\ Len(C) = 9 + n
            /\ C[1] = Begin(3)
            /\ C[2] = Append1(3, "int64", to_int64(m.from))
            /\ C[3] = Append1(3, "int64", to_int64(m.to))
            /\ C[4] = Append1(3, "utf8", m.text)
            /\ C[5] = Begin(4) /\ C[6] = Increment(3)
            /\ \A i \in 1 .. n : C[6 + i] = Append1(4, "binary", m.attachments[i])
            /\ C[7 + n] = End(4) /\ C[8 + n] = End(3) /\ C[9 + n] = Increment(2)
<1> DEFINE m == v[t]
           n == Len(m.attachments)
           S == CallSet(m)
           r == Attachments(m)
           C == VectorCalls(v, t)
           b1 == Append1(3, "int64", to_int64(m.from))
           b2 == Append1(3, "int64", to_int64(m.to))
           b3 == Append1(3, "utf8", m.text)
<1>1. m.attachments \in Seq(Buffers) /\ n \in Nat /\ DOMAIN m.attachments = 1 .. n
  BY DEF Message
<1>2. /\ Begin(3) \in S /\ Begin(4) \in S /\ Increment(2) \in S /\ Increment(3) \in S
      /\ End(3) \in S /\ End(4) \in S /\ b1 \in S /\ b2 \in S /\ b3 \in S
  BY DEF CallSet
<1>3. r = [i \in 1 .. n |-> Append1(4, "binary", m.attachments[i])]
  BY <1>1 DEF Attachments
<1>4. ASSUME NEW i \in 1 .. n PROVE Append1(4, "binary", m.attachments[i]) \in S
  BY DEF CallSet
<1>5. r \in Seq(S) /\ Len(r) = n /\ \A i \in 1 .. n : r[i] = Append1(4, "binary", m.attachments[i])
  <2> HIDE DEF n, S, r, m
  <2> QED
    BY <1>1, <1>3, <1>4
<1>6. C = Append(MessageCalls(m), Increment(2))
  BY DEF VectorCalls
<1>7. MessageCalls(m) = <<Begin(3)>> \o <<b1, b2, b3>> \o <<Begin(4), Increment(3)>> \o r \o <<End(4), End(3)>>
  BY DEF MessageCalls, Fields
<1>8. C = Append(<<Begin(3)>> \o <<b1, b2, b3>> \o <<Begin(4), Increment(3)>> \o r \o <<End(4), End(3)>>, Increment(2))
  BY <1>6, <1>7
<1> HIDE DEF C, S, r, b1, b2, b3, m, n
<1>9. /\ C \in Seq(S) /\ Len(C) = 9 + Len(r)
      /\ C[1] = Begin(3) /\ C[2] = b1 /\ C[3] = b2 /\ C[4] = b3 /\ C[5] = Begin(4)
      /\ C[6] = Increment(3)
      /\ \A i \in 1 .. Len(r) : C[6 + i] = r[i]
      /\ C[7 + Len(r)] = End(4) /\ C[8 + Len(r)] = End(3) /\ C[9 + Len(r)] = Increment(2)
  <2> DEFINE x == <<Begin(3), b1, b2, b3, Begin(4), Increment(3), End(4), End(3), Increment(2)>>
             s == Joined(x, r)
  <2>1. /\ x \in Seq(S) /\ Len(x) = 9
        /\ x[1] = Begin(3) /\ x[2] = b1 /\ x[3] = b2 /\ x[4] = b3 /\ x[5] = Begin(4)
        /\ x[6] = Increment(3) /\ x[7] = End(4) /\ x[8] = End(3) /\ x[9] = Increment(2)
    BY <1>2
  <2>2. C = s
    BY <1>8 DEF Joined
  <2> HIDE DEF x
  <2>3. /\ s \in Seq(S) /\ Len(s) = 9 + Len(r)
        /\ s[1] = x[1] /\ s[2] = x[2] /\ s[3] = x[3] /\ s[4] = x[4] /\ s[5] = x[5]
        /\ s[6] = x[6]
        /\ \A i \in 1 .. Len(r) : s[6 + i] = r[i]
        /\ s[7 + Len(r)] = x[7] /\ s[8 + Len(r)] = x[8] /\ s[9 + Len(r)] = x[9]
    BY <1>5, <2>1, Pieces, ZenonT(60)
  <2> HIDE DEF s
  <2> QED
    BY <2>1, <2>2, <2>3
<1> QED
  BY <1>1, <1>5, <1>9 DEF C, S, m, n, b1, b2, b3

\* Before the loop and after it.
LEMMA CallsAround ==
  ASSUME NEW v, NEW t \in Nat, t \notin DOMAIN v
  PROVE  LET C == VectorCalls(v, t)
         IN /\ Len(C) = 1 /\ C \in Seq({C[1]})
            /\ t = 0 => C[1] = Begin(2)
            /\ t # 0 => C[1] = End(2)
<1>1. CASE t = 0
  <2> DEFINE b == Begin(2)
  <2>1. VectorCalls(v, t) = <<b>>
    BY <1>1 DEF VectorCalls
  <2> HIDE DEF b
  <2>2. Len(<<b>>) = 1 /\ <<b>> \in Seq({b}) /\ <<b>>[1] = b
    OBVIOUS
  <2> QED
    BY <1>1, <2>1, <2>2, Zenon DEF b
<1>2. CASE t # 0
  <2> DEFINE b == End(2)
  <2>1. VectorCalls(v, t) = <<b>>
    BY <1>2 DEF VectorCalls
  <2> HIDE DEF b
  <2>2. Len(<<b>>) = 1 /\ <<b>> \in Seq({b}) /\ <<b>>[1] = b
    OBVIOUS
  <2> QED
    BY <1>2, <2>1, <2>2, Zenon DEF b
<1> QED
  BY <1>1, <1>2

-----------------------------------------------------------------------------
(***************************************************************************)
(* What a call does, that finds its document without an open child.        *)
(***************************************************************************)

CallsNext == begin \/ append \/ increment \/ end

LEMMA CallMade ==
  ASSUME CallsNext
  PROVE  /\ todo # <<>> /\ todo' = Tail(todo) /\ outcome \in {"writing", "unwinding"}
         /\ UNCHANGED <<messages, turn, got>>
         /\ Head(todo).op = "begin" => begin
         /\ Head(todo).op = "append" => append
         /\ Head(todo).op = "increment" => increment
         /\ Head(todo).op = "end" => end
BY Zenon DEF CallsNext, begin, append, increment, end, Call

LEMMA Begins ==
  ASSUME CallsNext, NEW k \in Nat, Head(todo) = Begin(k + 1), documents[k].in_child = Shut
  PROVE  documents' = Begun(documents, k, documents[k].m_index) /\ outcome' = outcome
<1>1. Head(todo).op = "begin" /\ Head(todo).on = k
  BY DEF Begin
<1>2. begin
  BY <1>1, CallMade
<1>3. ~Forbidden(k)
  BY DEF Forbidden, Shut
<1> QED
  BY <1>1, <1>2, <1>3, Zenon DEF begin, Begun, Open

LEMMA Appending ==
  ASSUME CallsNext, NEW k, NEW type, NEW value, Head(todo) = Append1(k, type, value),
         documents[k].in_child = Shut
  PROVE  /\ documents' = Extended(documents, k, Element(documents[k].m_index, type, value))
         /\ outcome' = outcome
<1>1. /\ Head(todo).op = "append" /\ Head(todo).on = k
      /\ Head(todo).type = type /\ Head(todo).value = value
  BY DEF Append1
<1>2. append
  BY <1>1, CallMade
<1>3. ~Forbidden(k)
  BY DEF Forbidden, Shut
<1> QED
  BY <1>1, <1>2, <1>3, Zenon DEF append, Extended

LEMMA Incrementing ==
  ASSUME CallsNext, NEW k, Head(todo) = Increment(k)
  PROVE  documents' = Incremented(documents, k) /\ outcome' = outcome
<1>1. Head(todo).op = "increment" /\ Head(todo).on = k
  BY DEF Increment
<1>2. increment
  BY <1>1, CallMade
<1> QED
  BY <1>1, <1>2, Zenon DEF increment, Incremented

LEMMA Ending ==
  ASSUME CallsNext, NEW k \in Nat, Head(todo) = End(k + 1),
         documents[k + 1].in_child = Shut, documents[k].in_child = Open
  PROVE  LET d == documents[k + 1]
         IN /\ documents' = Ended(documents, k, Element(d.key, "array", d.elements))
            /\ outcome' = outcome
<1>0. k + 1 - 1 = k
  OBVIOUS
<1>1. Head(todo).op = "end" /\ Head(todo).on = k + 1
  BY DEF End
<1>2. end
  BY <1>1, CallMade
<1>3. ~Forbidden(k + 1) /\ documents[k].in_child
  BY DEF Forbidden, Shut, Open
<1> DEFINE h == Head(todo).on
           j == h - 1
           d == documents[h]
           ds == Ended(documents, j, Element(d.key, "array", d.elements))
<1>4. h = k + 1 /\ j = k
  BY <1>0, <1>1
<1>5. Forbidden(h) \/ ~documents[j].in_child \/ (documents' = ds /\ outcome' = outcome)
  BY <1>2, Zenon DEF end, Ended, Shut
<1>6. ~Forbidden(h) /\ documents[j].in_child
  <2> HIDE DEF h, j
  <2> QED
    BY <1>3, <1>4
<1>7. documents' = ds /\ outcome' = outcome
  <2> HIDE DEF ds, h, j
  <2> QED
    BY <1>5, <1>6
<1> HIDE DEF h, j
<1> QED
  BY <1>4, <1>7, Zenon DEF ds, d

-----------------------------------------------------------------------------
(***************************************************************************)
(* What the calls do to the documents there are.                           *)
(***************************************************************************)

LEMMA BeginsIn1 ==
  ASSUME CallsNext, NEW k, NEW e, NEW i, Head(todo) = Begin(2),
         documents = <<Document(k, e, i, Shut)>>
  PROVE  /\ documents' = <<Document(k, e, i, Open), Document(i, <<>>, 0, Shut)>>
         /\ outcome' = outcome
<1> DEFINE x == Document(k, e, i, Shut)
<1>1. x.m_index = i /\ x.in_child = Shut
  BY Fields4
<1>2. documents = <<x>> /\ documents[1] = x
  OBVIOUS
<1> HIDE DEF x
<1>3. 1 \in Nat /\ 1 + 1 = 2
  OBVIOUS
<1>4. documents' = Begun(documents, 1, documents[1].m_index) /\ outcome' = outcome
  <2>1. Head(todo) = Begin(1 + 1) /\ documents[1].in_child = Shut
    BY <1>1, <1>2, <1>3, Zenon
  <2> QED
    BY <1>3, <2>1, Begins, Zenon
<1>5. documents' = Begun(<<x>>, 1, i)
  BY <1>1, <1>2, <1>4, Zenon
<1>6. Begun(<<Document(k, e, i, Shut)>>, 1, i)
        = <<Document(k, e, i, Open), Document(i, <<>>, 0, Shut)>>
  BY BeginIn1, SMT
<1> QED
  BY <1>4, <1>5, <1>6, Zenon DEF x

LEMMA BeginsIn2 ==
  ASSUME CallsNext, NEW a, NEW k, NEW e, NEW i, Head(todo) = Begin(3),
         documents = <<a, Document(k, e, i, Shut)>>
  PROVE  /\ documents' = <<a, Document(k, e, i, Open), Document(i, <<>>, 0, Shut)>>
         /\ outcome' = outcome
<1> DEFINE x == Document(k, e, i, Shut)
<1>1. x.m_index = i /\ x.in_child = Shut
  BY Fields4
<1>2. documents = <<a, x>> /\ documents[2] = x
  OBVIOUS
<1> HIDE DEF x
<1>3. 2 \in Nat /\ 2 + 1 = 3
  OBVIOUS
<1>4. documents' = Begun(documents, 2, documents[2].m_index) /\ outcome' = outcome
  <2>1. Head(todo) = Begin(2 + 1) /\ documents[2].in_child = Shut
    BY <1>1, <1>2, <1>3, Zenon
  <2> QED
    BY <1>3, <2>1, Begins, Zenon
<1>5. documents' = Begun(<<a, x>>, 2, i)
  BY <1>1, <1>2, <1>4, Zenon
<1>6. Begun(<<a, Document(k, e, i, Shut)>>, 2, i)
        = <<a, Document(k, e, i, Open), Document(i, <<>>, 0, Shut)>>
  BY BeginIn2, SMT
<1> QED
  BY <1>4, <1>5, <1>6, Zenon DEF x

LEMMA BeginsIn3 ==
  ASSUME CallsNext, NEW a, NEW b, NEW k, NEW e, NEW i, Head(todo) = Begin(4),
         documents = <<a, b, Document(k, e, i, Shut)>>
  PROVE  /\ documents' = <<a, b, Document(k, e, i, Open), Document(i, <<>>, 0, Shut)>>
         /\ outcome' = outcome
<1> DEFINE x == Document(k, e, i, Shut)
<1>1. x.m_index = i /\ x.in_child = Shut
  BY Fields4
<1>2. documents = <<a, b, x>> /\ documents[3] = x
  OBVIOUS
<1> HIDE DEF x
<1>3. 3 \in Nat /\ 3 + 1 = 4
  OBVIOUS
<1>4. documents' = Begun(documents, 3, documents[3].m_index) /\ outcome' = outcome
  <2>1. Head(todo) = Begin(3 + 1) /\ documents[3].in_child = Shut
    BY <1>1, <1>2, <1>3, Zenon
  <2> QED
    BY <1>3, <2>1, Begins, Zenon
<1>5. documents' = Begun(<<a, b, x>>, 3, i)
  BY <1>1, <1>2, <1>4, Zenon
<1>6. Begun(<<a, b, Document(k, e, i, Shut)>>, 3, i)
        = <<a, b, Document(k, e, i, Open), Document(i, <<>>, 0, Shut)>>
  BY BeginIn3, SMT
<1> QED
  BY <1>4, <1>5, <1>6, Zenon DEF x

LEMMA AppendsIn3 ==
  ASSUME CallsNext, NEW a, NEW b, NEW k, NEW e, NEW i, NEW type, NEW value,
         Head(todo) = Append1(3, type, value),
         documents = <<a, b, Document(k, e, i, Shut)>>
  PROVE  /\ documents' = <<a, b, Document(k, Append(e, Element(i, type, value)), i, Shut)>>
         /\ outcome' = outcome
<1> DEFINE x == Document(k, e, i, Shut)
           w == Element(i, type, value)
<1>1. x.m_index = i /\ x.in_child = Shut
  BY Fields4
<1>2. documents = <<a, b, x>> /\ documents[3] = x
  OBVIOUS
<1> HIDE DEF x
<1>3. documents[3].in_child = Shut
  BY <1>1, <1>2, Zenon
<1>4. /\ documents' = Extended(documents, 3, Element(documents[3].m_index, type, value))
      /\ outcome' = outcome
  BY <1>3, Appending, Zenon
<1>5. documents' = Extended(<<a, b, x>>, 3, w)
  BY <1>1, <1>2, <1>4, Zenon
<1> HIDE DEF w
<1>6. Extended(<<a, b, Document(k, e, i, Shut)>>, 3, w)
        = <<a, b, Document(k, Append(e, w), i, Shut)>>
  BY AppendIn3, SMT
<1> QED
  BY <1>4, <1>5, <1>6, Zenon DEF w, x

LEMMA AppendsIn4 ==
  ASSUME CallsNext, NEW a, NEW b, NEW c, NEW k, NEW e, NEW i, NEW type, NEW value,
         Head(todo) = Append1(4, type, value),
         documents = <<a, b, c, Document(k, e, i, Shut)>>
  PROVE  /\ documents' = <<a, b, c, Document(k, Append(e, Element(i, type, value)), i, Shut)>>
         /\ outcome' = outcome
<1> DEFINE x == Document(k, e, i, Shut)
           w == Element(i, type, value)
<1>1. x.m_index = i /\ x.in_child = Shut
  BY Fields4
<1>2. documents = <<a, b, c, x>> /\ documents[4] = x
  OBVIOUS
<1> HIDE DEF x
<1>3. documents[4].in_child = Shut
  BY <1>1, <1>2, Zenon
<1>4. /\ documents' = Extended(documents, 4, Element(documents[4].m_index, type, value))
      /\ outcome' = outcome
  BY <1>3, Appending, Zenon
<1>5. documents' = Extended(<<a, b, c, x>>, 4, w)
  BY <1>1, <1>2, <1>4, Zenon
<1> HIDE DEF w
<1>6. Extended(<<a, b, c, Document(k, e, i, Shut)>>, 4, w)
        = <<a, b, c, Document(k, Append(e, w), i, Shut)>>
  BY AppendIn4, SMT
<1> QED
  BY <1>4, <1>5, <1>6, Zenon DEF w, x

LEMMA IncrementsIn2 ==
  ASSUME CallsNext, NEW a, NEW k, NEW e, NEW i, NEW o, Head(todo) = Increment(2),
         documents = <<a, Document(k, e, i, o)>>
  PROVE  /\ documents' = <<a, Document(k, e, i + 1, o)>>
         /\ outcome' = outcome
<1>1. documents' = Incremented(documents, 2) /\ outcome' = outcome
  BY Incrementing, Zenon
<1>2. documents' = Incremented(<<a, Document(k, e, i, o)>>, 2)
  BY <1>1, Zenon
<1>3. Incremented(<<a, Document(k, e, i, o)>>, 2)
        = <<a, Document(k, e, i + 1, o)>>
  BY IncrementIn2, SMT
<1> QED
  BY <1>1, <1>2, <1>3, Zenon

LEMMA IncrementsIn3 ==
  ASSUME CallsNext, NEW a, NEW b, NEW d, NEW k, NEW e, NEW i, NEW o, Head(todo) = Increment(3),
         documents = <<a, b, Document(k, e, i, o), d>>
  PROVE  /\ documents' = <<a, b, Document(k, e, i + 1, o), d>>
         /\ outcome' = outcome
<1>1. documents' = Incremented(documents, 3) /\ outcome' = outcome
  BY Incrementing, Zenon
<1>2. documents' = Incremented(<<a, b, Document(k, e, i, o), d>>, 3)
  BY <1>1, Zenon
<1>3. Incremented(<<a, b, Document(k, e, i, o), d>>, 3)
        = <<a, b, Document(k, e, i + 1, o), d>>
  BY IncrementIn3, SMT
<1> QED
  BY <1>1, <1>2, <1>3, Zenon

LEMMA EndsOf2 ==
  ASSUME CallsNext, NEW k, NEW e, NEW i, NEW l, NEW f, NEW j, Head(todo) = End(2),
         documents = <<Document(k, e, i, Open), Document(l, f, j, Shut)>>
  PROVE  /\ documents' = <<Document(k, Append(e, Element(l, "array", f)), i, Shut)>>
         /\ outcome' = outcome
<1> DEFINE x == Document(k, e, i, Open)
           y == Document(l, f, j, Shut)
           w == Element(l, "array", f)
<1>1. x.in_child = Open /\ y.key = l /\ y.elements = f /\ y.in_child = Shut
  BY Fields4
<1>2. documents = <<x, y>> /\ documents[1] = x /\ documents[2] = y
  OBVIOUS
<1> HIDE DEF x, y
<1>3. 1 \in Nat /\ 1 + 1 = 2
  OBVIOUS
<1>4. /\ documents' = Ended(documents, 1, Element(documents[2].key, "array",
                                                  documents[2].elements))
      /\ outcome' = outcome
  <2>1. /\ Head(todo) = End(1 + 1)
        /\ documents[1 + 1].in_child = Shut /\ documents[1].in_child = Open
    BY <1>1, <1>2, <1>3, Zenon
  <2>2. /\ documents' = Ended(documents, 1, Element(documents[1 + 1].key, "array",
                                                    documents[1 + 1].elements))
        /\ outcome' = outcome
    BY <1>3, <2>1, Ending, Zenon
  <2> QED
    BY <1>3, <2>2, Zenon
<1>5. documents' = Ended(<<x, y>>, 1, w)
  BY <1>1, <1>2, <1>4, Zenon
<1> HIDE DEF w
<1>6. Ended(<<Document(k, e, i, Open), y>>, 1, w)
        = <<Document(k, Append(e, w), i, Shut)>>
  BY EndOf2, SMT
<1> QED
  BY <1>4, <1>5, <1>6, Zenon DEF w, x

LEMMA EndsOf3 ==
  ASSUME CallsNext, NEW a, NEW k, NEW e, NEW i, NEW l, NEW f, NEW j, Head(todo) = End(3),
         documents = <<a, Document(k, e, i, Open), Document(l, f, j, Shut)>>
  PROVE  /\ documents' = <<a, Document(k, Append(e, Element(l, "array", f)), i, Shut)>>
         /\ outcome' = outcome
<1> DEFINE x == Document(k, e, i, Open)
           y == Document(l, f, j, Shut)
           w == Element(l, "array", f)
<1>1. x.in_child = Open /\ y.key = l /\ y.elements = f /\ y.in_child = Shut
  BY Fields4
<1>2. documents = <<a, x, y>> /\ documents[2] = x /\ documents[3] = y
  OBVIOUS
<1> HIDE DEF x, y
<1>3. 2 \in Nat /\ 2 + 1 = 3
  OBVIOUS
<1>4. /\ documents' = Ended(documents, 2, Element(documents[3].key, "array",
                                                  documents[3].elements))
      /\ outcome' = outcome
  <2>1. /\ Head(todo) = End(2 + 1)
        /\ documents[2 + 1].in_child = Shut /\ documents[2].in_child = Open
    BY <1>1, <1>2, <1>3, Zenon
  <2>2. /\ documents' = Ended(documents, 2, Element(documents[2 + 1].key, "array",
                                                    documents[2 + 1].elements))
        /\ outcome' = outcome
    BY <1>3, <2>1, Ending, Zenon
  <2> QED
    BY <1>3, <2>2, Zenon
<1>5. documents' = Ended(<<a, x, y>>, 2, w)
  BY <1>1, <1>2, <1>4, Zenon
<1> HIDE DEF w
<1>6. Ended(<<a, Document(k, e, i, Open), y>>, 2, w)
        = <<a, Document(k, Append(e, w), i, Shut)>>
  BY EndOf3, SMT
<1> QED
  BY <1>4, <1>5, <1>6, Zenon DEF w, x

LEMMA EndsOf4 ==
  ASSUME CallsNext, NEW a, NEW b, NEW k, NEW e, NEW i, NEW l, NEW f, NEW j, Head(todo) = End(4),
         documents = <<a, b, Document(k, e, i, Open), Document(l, f, j, Shut)>>
  PROVE  /\ documents' = <<a, b, Document(k, Append(e, Element(l, "array", f)), i, Shut)>>
         /\ outcome' = outcome
<1> DEFINE x == Document(k, e, i, Open)
           y == Document(l, f, j, Shut)
           w == Element(l, "array", f)
<1>1. x.in_child = Open /\ y.key = l /\ y.elements = f /\ y.in_child = Shut
  BY Fields4
<1>2. documents = <<a, b, x, y>> /\ documents[3] = x /\ documents[4] = y
  OBVIOUS
<1> HIDE DEF x, y
<1>3. 3 \in Nat /\ 3 + 1 = 4
  OBVIOUS
<1>4. /\ documents' = Ended(documents, 3, Element(documents[4].key, "array",
                                                  documents[4].elements))
      /\ outcome' = outcome
  <2>1. /\ Head(todo) = End(3 + 1)
        /\ documents[3 + 1].in_child = Shut /\ documents[3].in_child = Open
    BY <1>1, <1>2, <1>3, Zenon
  <2>2. /\ documents' = Ended(documents, 3, Element(documents[3 + 1].key, "array",
                                                    documents[3 + 1].elements))
        /\ outcome' = outcome
    BY <1>3, <2>1, Ending, Zenon
  <2> QED
    BY <1>3, <2>2, Zenon
<1>5. documents' = Ended(<<a, b, x, y>>, 3, w)
  BY <1>1, <1>2, <1>4, Zenon
<1> HIDE DEF w
<1>6. Ended(<<a, b, Document(k, e, i, Open), y>>, 3, w)
        = <<a, b, Document(k, Append(e, w), i, Shut)>>
  BY EndOf4, SMT
<1> QED
  BY <1>4, <1>5, <1>6, Zenon DEF w, x

-----------------------------------------------------------------------------
(***************************************************************************)
(* From the documents before a call to those before the next.              *)
(***************************************************************************)

LEMMA PlacesAround ==
  ASSUME NEW v, Len(v) \in Nat
  PROVE  /\ Documents(v, 0, 1) = <<Bson(Shut)>>
         /\ Documents(v, 0, 2) = <<Bson(Open), Array(v, 0, 0, Shut)>>
         /\ Documents(v, Len(v) + 1, 1) = <<Bson(Open), Array(v, Len(v), Len(v), Shut)>>
         /\ Documents(v, Len(v) + 1, 2) = <<Document(0, Complete(v), 0, Shut)>>
<1>1. Len(v) + 1 # 0 /\ Len(v) + 1 \notin 1 .. Len(v) /\ 2 # 1 /\ 0 \notin 1 .. Len(v)
  OBVIOUS
<1> QED
  BY <1>1, Zenon DEF Documents

LEMMA Places ==
  ASSUME NEW v, NEW t \in 1 .. Len(v), Len(v) \in Nat, Len(v[t].attachments) \in Nat
  PROVE  LET m == v[t]
             n == Len(m.attachments)
             b == Bson(Open)
             a == Array(v, t - 1, t - 1, Open)
         IN
         /\ Documents(v, t, 1) = <<b, Array(v, t - 1, t - 1, Shut)>>
         /\ \A j \in 2 .. 5 :
              Documents(v, t, j) = <<b, a, Document(t - 1, MessageElements(m, j - 2), 0, Shut)>>
         /\ Documents(v, t, 6) =
              <<b, a, Document(t - 1, MessageElements(m, 3), 0, Open), Document(0, <<>>, 0, Shut)>>
         /\ \A j \in 7 .. 7 + n :
              Documents(v, t, j) =
                <<b, a, Document(t - 1, MessageElements(m, 3), 1, Open),
                  Document(0, AttachmentElements(m, j - 7), 0, Shut)>>
         /\ Documents(v, t, 8 + n) = <<b, a, Document(t - 1, MessageElements(m, 4), 1, Shut)>>
         /\ Documents(v, t, 9 + n) = <<b, Array(v, t, t - 1, Shut)>>
         /\ Documents(v, t, 10 + n) = <<b, Array(v, t, t, Shut)>>
<1> DEFINE n == Len(v[t].attachments)
<1>1. ASSUME NEW j PROVE Documents(v, t, j) = InMessage(v, t, j)
  <2>1. t # 0
    OBVIOUS
  <2> QED
    BY <2>1, SMT DEF Documents
<1>2. Documents(v, t, 1) = <<Bson(Open), Array(v, t - 1, t - 1, Shut)>>
  BY <1>1, SMTT(60) DEF InMessage
<1>3. ASSUME NEW j \in 2 .. 5
      PROVE  Documents(v, t, j) =
               <<Bson(Open), Array(v, t - 1, t - 1, Open),
                 Document(t - 1, MessageElements(v[t], j - 2), 0, Shut)>>
  <2>1. j # 1
    OBVIOUS
  <2> QED
    BY <1>1, <2>1, SMTT(60) DEF InMessage
<1>4. Documents(v, t, 6) =
        <<Bson(Open), Array(v, t - 1, t - 1, Open),
          Document(t - 1, MessageElements(v[t], 3), 0, Open), Document(0, <<>>, 0, Shut)>>
  <2>1. 6 # 1 /\ 6 \notin 2 .. 5
    OBVIOUS
  <2> QED
    BY <1>1, <2>1, SMT DEF InMessage
<1>5. ASSUME NEW j \in 7 .. 7 + n
      PROVE  Documents(v, t, j) =
               <<Bson(Open), Array(v, t - 1, t - 1, Open),
                 Document(t - 1, MessageElements(v[t], 3), 1, Open),
                 Document(0, AttachmentElements(v[t], j - 7), 0, Shut)>>
  <2>1. j # 1 /\ j \notin 2 .. 5 /\ j # 6
    OBVIOUS
  <2> QED
    BY <1>1, <2>1, SMTT(60) DEF InMessage
<1>6. Documents(v, t, 8 + n) =
        <<Bson(Open), Array(v, t - 1, t - 1, Open),
          Document(t - 1, MessageElements(v[t], 4), 1, Shut)>>
  <2>1. 8 + n # 1 /\ 8 + n \notin 2 .. 5 /\ 8 + n # 6 /\ 8 + n \notin 7 .. 7 + n
    OBVIOUS
  <2> QED
    BY <1>1, <2>1, SMTT(60) DEF InMessage
<1>7. Documents(v, t, 9 + n) = <<Bson(Open), Array(v, t, t - 1, Shut)>>
  <2>1. 9 + n # 1 /\ 9 + n \notin 2 .. 5 /\ 9 + n # 6 /\ 9 + n \notin 7 .. 7 + n /\ 9 + n # 8 + n
    BY SMTT(60)
  <2> QED
    BY <1>1, <2>1, SMTT(60) DEF InMessage
<1>8. Documents(v, t, 10 + n) = <<Bson(Open), Array(v, t, t, Shut)>>
  <2>1. /\ 10 + n # 1 /\ 10 + n \notin 2 .. 5 /\ 10 + n # 6 /\ 10 + n \notin 7 .. 7 + n
        /\ 10 + n # 8 + n /\ 10 + n # 9 + n
    BY SMTT(60)
  <2> QED
    BY <1>1, <2>1, SMTT(60) DEF InMessage
<1> QED
  BY <1>2, <1>3, <1>4, <1>5, <1>6, <1>7, <1>8, Zenon

LEMMA StepAround ==
  ASSUME NEW v, Len(v) \in Nat, NEW t \in {0, Len(v) + 1}, CallsNext,
         Head(todo) = IF t = 0 THEN Begin(2) ELSE End(2),
         documents = Documents(v, t, 1)
  PROVE  documents' = Documents(v, t, 2) /\ outcome' = outcome
<1>1. CASE t = 0
  <2>1. documents = <<Document(0, <<>>, 0, Shut)>> /\ Head(todo) = Begin(2)
    BY <1>1, PlacesAround, Zenon DEF Bson
  <2>2. documents' = <<Document(0, <<>>, 0, Open), Document(0, <<>>, 0, Shut)>> /\ outcome' = outcome
    BY <2>1, BeginsIn1, Zenon
  <2>3. Array(v, 0, 0, Shut) = Document(0, <<>>, 0, Shut)
    BY NoElements, Zenon DEF Array
  <2> QED
    BY <1>1, <2>2, <2>3, PlacesAround, Zenon DEF Bson
<1>2. CASE t = Len(v) + 1
  <2> DEFINE e == ArrayElements(v, Len(v))
  <2>0. t # 0
    BY <1>2
  <2>1. /\ documents = <<Document(0, <<>>, 0, Open), Document(0, e, Len(v), Shut)>>
        /\ Head(todo) = End(2)
    BY <1>2, <2>0, PlacesAround, Zenon DEF Bson, Array
  <2>2. /\ documents' = <<Document(0, Append(<<>>, Element(0, "array", e)), 0, Shut)>>
        /\ outcome' = outcome
    BY <2>1, EndsOf2, Zenon
  <2>3. Append(<<>>, Element(0, "array", e)) = Complete(v)
    BY AppendTo0, Zenon DEF Complete
  <2> QED
    BY <1>2, <2>2, <2>3, PlacesAround, Zenon
<1> QED
  BY <1>1, <1>2

LEMMA StepInMessage ==
  ASSUME NEW v, Len(v) \in Nat, NEW t \in 1 .. Len(v), v[t] \in Message, t \in DOMAIN v,
         NEW j \in 1 .. Len(VectorCalls(v, t)), CallsNext,
         Head(todo) = VectorCalls(v, t)[j],
         documents = Documents(v, t, j)
  PROVE  documents' = Documents(v, t, j + 1) /\ outcome' = outcome
<1> DEFINE m == v[t]
           n == Len(m.attachments)
           C == VectorCalls(v, t)
           b == Bson(Open)
           a == Array(v, t - 1, t - 1, Open)
           e == ArrayElements(v, t - 1)
<1>0. t # 0 /\ t \in Nat \ {0} /\ (t - 1) + 1 = t
  OBVIOUS
<1>1. /\ n \in Nat /\ Len(C) = 9 + n
      /\ C[1] = Begin(3)
      /\ C[2] = Append1(3, "int64", to_int64(m.from))
      /\ C[3] = Append1(3, "int64", to_int64(m.to))
      /\ C[4] = Append1(3, "utf8", m.text)
      /\ C[5] = Begin(4) /\ C[6] = Increment(3)
      /\ \A i \in 1 .. n : C[6 + i] = Append1(4, "binary", m.attachments[i])
      /\ C[7 + n] = End(4) /\ C[8 + n] = End(3) /\ C[9 + n] = Increment(2)
  BY <1>0, CallsOfMessage, SMTT(60)
<1>2. /\ Documents(v, t, 1) = <<b, Array(v, t - 1, t - 1, Shut)>>
      /\ \A i \in 2 .. 5 :
           Documents(v, t, i) = <<b, a, Document(t - 1, MessageElements(m, i - 2), 0, Shut)>>
      /\ Documents(v, t, 6) =
           <<b, a, Document(t - 1, MessageElements(m, 3), 0, Open), Document(0, <<>>, 0, Shut)>>
      /\ \A i \in 7 .. 7 + n :
           Documents(v, t, i) =
             <<b, a, Document(t - 1, MessageElements(m, 3), 1, Open),
               Document(0, AttachmentElements(m, i - 7), 0, Shut)>>
      /\ Documents(v, t, 8 + n) = <<b, a, Document(t - 1, MessageElements(m, 4), 1, Shut)>>
      /\ Documents(v, t, 9 + n) = <<b, Array(v, t, t - 1, Shut)>>
      /\ Documents(v, t, 10 + n) = <<b, Array(v, t, t, Shut)>>
  BY <1>1, Places, Zenon
<1>3. /\ Documents(v, t, 2) = <<b, a, Document(t - 1, MessageElements(m, 0), 0, Shut)>>
      /\ Documents(v, t, 3) = <<b, a, Document(t - 1, MessageElements(m, 1), 0, Shut)>>
      /\ Documents(v, t, 4) = <<b, a, Document(t - 1, MessageElements(m, 2), 0, Shut)>>
      /\ Documents(v, t, 5) = <<b, a, Document(t - 1, MessageElements(m, 3), 0, Shut)>>
  <2>1. 2 \in 2 .. 5 /\ 3 \in 2 .. 5 /\ 4 \in 2 .. 5 /\ 5 \in 2 .. 5
    OBVIOUS
  <2>2. 2 - 2 = 0 /\ 3 - 2 = 1 /\ 4 - 2 = 2 /\ 5 - 2 = 3
    OBVIOUS
  <2> QED
    BY <1>2, <2>1, <2>2, Zenon
<1>4. \/ j = 1 \/ j = 2 \/ j = 3 \/ j = 4 \/ j = 5 \/ j = 6
      \/ j \in 7 .. 6 + n \/ j = 7 + n \/ j = 8 + n \/ j = 9 + n
  <2>1. n \in Nat /\ j \in 1 .. 9 + n
    BY <1>1, Zenon
  <2> HIDE DEF n
  <2> QED
    BY <2>1
<1>5. /\ 1 + 1 = 2 /\ 2 + 1 = 3 /\ 3 + 1 = 4 /\ 4 + 1 = 5 /\ 5 + 1 = 6 /\ 6 + 1 = 7
      /\ (7 + n) + 1 = 8 + n /\ (8 + n) + 1 = 9 + n /\ (9 + n) + 1 = 10 + n
  <2> HIDE DEF n
  <2> QED
    BY <1>1
<1> HIDE DEF b, n, C, m
<1>6. CASE j = 1
  <2>1. /\ documents = <<b, Document(0, e, t - 1, Shut)>> /\ Head(todo) = Begin(3)
    BY <1>1, <1>2, <1>6, Zenon DEF Array, C
  <2>2. /\ documents' = <<b, Document(0, e, t - 1, Open), Document(t - 1, <<>>, 0, Shut)>>
        /\ outcome' = outcome
    BY <2>1, BeginsIn2, Zenon
  <2> QED
    BY <1>3, <1>5, <1>6, <2>2, NoElements, Zenon DEF Array
<1>7. CASE j = 2
  <2>1. /\ documents = <<b, a, Document(t - 1, MessageElements(m, 0), 0, Shut)>>
        /\ Head(todo) = Append1(3, "int64", to_int64(m.from))
    BY <1>1, <1>3, <1>7, Zenon DEF C
  <2> HIDE DEF a
  <2>2. /\ documents' =
             <<b, a, Document(t - 1, Append(MessageElements(m, 0),
                                            Element(0, "int64", to_int64(m.from))), 0, Shut)>>
        /\ outcome' = outcome
    BY <2>1, AppendsIn3, Zenon
  <2> QED
    BY <1>3, <1>5, <1>7, <2>2, OneMoreField, Zenon
<1>8. CASE j = 3
  <2>1. /\ documents = <<b, a, Document(t - 1, MessageElements(m, 1), 0, Shut)>>
        /\ Head(todo) = Append1(3, "int64", to_int64(m.to))
    BY <1>1, <1>3, <1>8, Zenon DEF C
  <2> HIDE DEF a
  <2>2. /\ documents' =
             <<b, a, Document(t - 1, Append(MessageElements(m, 1),
                                            Element(0, "int64", to_int64(m.to))), 0, Shut)>>
        /\ outcome' = outcome
    BY <2>1, AppendsIn3, Zenon
  <2> QED
    BY <1>3, <1>5, <1>8, <2>2, OneMoreField, Zenon
<1>9. CASE j = 4
  <2>1. /\ documents = <<b, a, Document(t - 1, MessageElements(m, 2), 0, Shut)>>
        /\ Head(todo) = Append1(3, "utf8", m.text)
    BY <1>1, <1>3, <1>9, Zenon DEF C
  <2> HIDE DEF a
  <2>2. /\ documents' =
             <<b, a, Document(t - 1, Append(MessageElements(m, 2),
                                            Element(0, "utf8", m.text)), 0, Shut)>>
        /\ outcome' = outcome
    BY <2>1, AppendsIn3, Zenon
  <2> QED
    BY <1>3, <1>5, <1>9, <2>2, OneMoreField, Zenon
<1>10. CASE j = 5
  <2>1. /\ documents = <<b, a, Document(t - 1, MessageElements(m, 3), 0, Shut)>>
        /\ Head(todo) = Begin(4)
    BY <1>1, <1>3, <1>10, Zenon DEF C
  <2> HIDE DEF a
  <2>2. /\ documents' = <<b, a, Document(t - 1, MessageElements(m, 3), 0, Open),
                          Document(0, <<>>, 0, Shut)>>
        /\ outcome' = outcome
    BY <2>1, BeginsIn3, Zenon
  <2> QED
    BY <1>2, <1>5, <1>10, <2>2, Zenon
<1>11. CASE j = 6
  <2>1. /\ documents = <<b, a, Document(t - 1, MessageElements(m, 3), 0, Open),
                         Document(0, <<>>, 0, Shut)>>
        /\ Head(todo) = Increment(3)
    BY <1>1, <1>2, <1>11, Zenon DEF C
  <2> HIDE DEF a
  <2>2. /\ documents' = <<b, a, Document(t - 1, MessageElements(m, 3), 0 + 1, Open),
                          Document(0, <<>>, 0, Shut)>>
        /\ outcome' = outcome
    BY <2>1, IncrementsIn3, Zenon
  <2>3. 7 \in 7 .. 7 + n /\ 7 - 7 = 0 /\ 0 + 1 = 1
    BY <1>1
  <2> QED
    BY <1>2, <1>5, <1>11, <2>2, <2>3, NoElements, Zenon
<1>12. CASE j \in 7 .. 6 + n
  <2> DEFINE i == j - 7
  <2>1. /\ i \in Nat /\ j = 6 + (i + 1) /\ i + 1 \in 1 .. n /\ j \in 7 .. 7 + n
        /\ j + 1 \in 7 .. 7 + n /\ (j + 1) - 7 = i + 1
    BY <1>1, <1>12
  <2> HIDE DEF i
  <2>2. /\ documents = <<b, a, Document(t - 1, MessageElements(m, 3), 1, Open),
                         Document(0, AttachmentElements(m, i), 0, Shut)>>
        /\ Head(todo) = Append1(4, "binary", m.attachments[i + 1])
    <3>1. j - 7 = i
      BY DEF i
    <3>2. documents = <<b, a, Document(t - 1, MessageElements(m, 3), 1, Open),
                         Document(0, AttachmentElements(m, i), 0, Shut)>>
      BY <1>2, <2>1, <3>1, Zenon
    <3>3. Head(todo) = C[6 + (i + 1)]
      BY <2>1, Zenon DEF C
    <3> QED
      BY <1>1, <2>1, <3>2, <3>3, Zenon
  <2> DEFINE c == Document(t - 1, MessageElements(m, 3), 1, Open)
  <2> HIDE DEF a, c
  <2>3. /\ documents' =
             <<b, a, c, Document(0, Append(AttachmentElements(m, i),
                                           Element(0, "binary", m.attachments[i + 1])), 0, Shut)>>
        /\ outcome' = outcome
    <3>1. documents = <<b, a, c, Document(0, AttachmentElements(m, i), 0, Shut)>>
      BY <2>2 DEF c
    <3> QED
      BY <2>2, <3>1, AppendsIn4, Zenon
  <2>4. documents' = <<b, a, c, Document(0, AttachmentElements(m, i + 1), 0, Shut)>>
    BY <2>1, <2>3, OneMoreAttachment, Zenon
  <2> QED
    BY <1>2, <2>1, <2>3, <2>4, Zenon DEF c
<1>13. CASE j = 7 + n
  <2>1. 7 + n \in 7 .. 7 + n /\ (7 + n) - 7 = n
    BY <1>1
  <2>2. /\ documents = <<b, a, Document(t - 1, MessageElements(m, 3), 1, Open),
                         Document(0, AttachmentElements(m, n), 0, Shut)>>
        /\ Head(todo) = End(4)
    BY <1>1, <1>2, <1>13, <2>1, Zenon DEF C
  <2> HIDE DEF a
  <2>3. /\ documents' =
             <<b, a, Document(t - 1, Append(MessageElements(m, 3),
                                            Element(0, "array", AttachmentElements(m, n))), 1, Shut)>>
        /\ outcome' = outcome
    BY <2>2, EndsOf4, Zenon
  <2>4. Append(MessageElements(m, 3), Element(0, "array", AttachmentElements(m, n)))
          = MessageElements(m, 4)
    BY OneMoreField, Zenon DEF n
  <2> QED
    BY <1>2, <1>5, <1>13, <2>3, <2>4, Zenon
<1>14. CASE j = 8 + n
  <2>1. /\ documents = <<b, Document(0, e, t - 1, Open),
                         Document(t - 1, MessageElements(m, 4), 1, Shut)>>
        /\ Head(todo) = End(3)
    BY <1>1, <1>2, <1>14, Zenon DEF C, Array
  <2>2. /\ documents' =
             <<b, Document(0, Append(e, Element(t - 1, "array", MessageElements(m, 4))),
                           t - 1, Shut)>>
        /\ outcome' = outcome
    BY <2>1, EndsOf3, Zenon
  <2>3. Append(e, Element(t - 1, "array", MessageElements(m, 4))) = ArrayElements(v, t)
    BY <1>0, OneMoreMessage, Zenon DEF m
  <2> QED
    BY <1>2, <1>5, <1>14, <2>2, <2>3, Zenon DEF Array
<1>15. CASE j = 9 + n
  <2>1. documents = <<b, Document(0, ArrayElements(v, t), t - 1, Shut)>> /\ Head(todo) = Increment(2)
    BY <1>1, <1>2, <1>15, Zenon DEF C, Array
  <2>2. documents' = <<b, Document(0, ArrayElements(v, t), (t - 1) + 1, Shut)>> /\ outcome' = outcome
    BY <2>1, IncrementsIn2, Zenon
  <2> QED
    BY <1>0, <1>2, <1>5, <1>15, <2>2, Zenon DEF Array
<1> QED
  BY <1>4, <1>6, <1>7, <1>8, <1>9, <1>10, <1>11, <1>12, <1>13, <1>14, <1>15

-----------------------------------------------------------------------------
(***************************************************************************)
(* A turn of the loop.                                                     *)
(***************************************************************************)

LEMMA Vector ==
  ASSUME NEW v \in Vectors
  PROVE  /\ v \in Seq(Message) /\ Len(v) \in Nat /\ DOMAIN v = 1 .. Len(v)
         /\ \A t \in 1 .. Len(v) : v[t] \in Message
<1>1. v \in Seq(Message)
  BY VectorsAssumption
<1> QED
  BY <1>1, ElementOf

\* The calls of a turn are a sequence that is not empty, and the turn ends where
\* the next one begins.
LEMMA Turn ==
  ASSUME NEW v \in Vectors, NEW t \in 0 .. Len(v) + 1
  PROVE  LET C == VectorCalls(v, t)
         IN /\ \E S : C \in Seq(S)
            /\ Len(C) \in Nat \ {0}
            /\ t <= Len(v) => Documents(v, t, Len(C) + 1) = Documents(v, t + 1, 1)
            /\ t \notin 1 .. Len(v) => Len(C) = 1
<1> DEFINE C == VectorCalls(v, t)
<1>1. v \in Seq(Message) /\ Len(v) \in Nat /\ DOMAIN v = 1 .. Len(v)
      /\ \A i \in 1 .. Len(v) : v[i] \in Message
  BY Vector
<1>2. ASSUME NEW s, s \in 1 .. Len(v) PROVE Documents(v, s, 1) = <<Bson(Open), Array(v, s - 1, s - 1, Shut)>>
  <2>1. v[s] \in Message /\ s \in DOMAIN v /\ s # 0
    BY <1>1, <1>2
  <2>2. Len(v[s].attachments) \in Nat
    BY <2>1, CallsOfMessage
  <2> QED
    BY <1>1, <1>2, <2>2, Places, Zenon
<1>3. ASSUME t \notin 1 .. Len(v)
      PROVE  Len(C) = 1 /\ C \in Seq({C[1]})
  <2>1. t \in Nat /\ t \notin DOMAIN v
    BY <1>1, <1>3
  <2> QED
    BY <2>1, CallsAround, Zenon
<1>4. ASSUME NEW s \in 0 .. Len(v)
      PROVE  Documents(v, s + 1, 1) = <<Bson(Open), Array(v, s, s, Shut)>>
  <2>1. CASE s = Len(v)
    BY <1>1, <2>1, PlacesAround, Zenon
  <2>2. CASE s # Len(v)
    <3>0. Len(v) \in Nat
      BY <1>1, Zenon
    <3>1. s + 1 \in 1 .. Len(v) /\ (s + 1) - 1 = s
      BY <2>2, <3>0
    <3> QED
      BY <1>2, <3>1, Zenon
  <2> QED
    BY <2>1, <2>2
<1>5. CASE t = 0
  <2>1. t \notin 1 .. Len(v) /\ 0 \in 0 .. Len(v) /\ 1 + 1 = 2 /\ 1 \in Nat \ {0}
    BY <1>1, <1>5
  <2>2. Documents(v, t, 2) = Documents(v, t + 1, 1)
    BY <1>1, <1>4, <1>5, <2>1, PlacesAround, Zenon
  <2> QED
    BY <1>3, <2>1, <2>2
<1>6. CASE t \in 1 .. Len(v)
  <2>1. v[t] \in Message /\ t \in DOMAIN v /\ t # 0 /\ t \in 0 .. Len(v)
    BY <1>1, <1>6
  <2>2. LET n == Len(v[t].attachments)
        IN n \in Nat /\ C \in Seq(CallSet(v[t])) /\ Len(C) = 9 + n
    BY <2>1, CallsOfMessage
  <2>3. LET n == Len(v[t].attachments)
        IN Documents(v, t, 10 + n) = <<Bson(Open), Array(v, t, t, Shut)>>
    BY <1>1, <1>6, <2>2, Places, Zenon
  <2>4. LET n == Len(v[t].attachments)
        IN Len(C) + 1 = 10 + n /\ Len(C) \in Nat \ {0}
    <3> DEFINE n == Len(v[t].attachments)
    <3>1. n \in Nat /\ Len(C) = 9 + n
      BY <2>2, Zenon
    <3> HIDE DEF n, C
    <3> QED
      BY <3>1 DEF n
  <2>5. Documents(v, t, Len(C) + 1) = Documents(v, t + 1, 1)
    BY <1>4, <2>1, <2>3, <2>4, Zenon
  <2> HIDE DEF C
  <2> QED
    BY <1>6, <2>2, <2>4, <2>5, Zenon DEF C
<1>7. CASE t = Len(v) + 1
  <2>1. t \notin 1 .. Len(v) /\ ~(t <= Len(v)) /\ 1 \in Nat \ {0}
    BY <1>1, <1>7
  <2> QED
    BY <1>3, <2>1
<1>8. t = 0 \/ t \in 1 .. Len(v) \/ t = Len(v) + 1
  BY <1>1
<1> QED
  BY <1>5, <1>6, <1>7, <1>8, Zenon

LEMMA StepInTurn ==
  ASSUME NEW v \in Vectors, NEW t \in 0 .. Len(v) + 1,
         NEW j \in 1 .. Len(VectorCalls(v, t)), CallsNext,
         Head(todo) = VectorCalls(v, t)[j], documents = Documents(v, t, j)
  PROVE  documents' = Documents(v, t, j + 1) /\ outcome' = outcome
<1>1. Len(v) \in Nat /\ DOMAIN v = 1 .. Len(v) /\ \A i \in 1 .. Len(v) : v[i] \in Message
  BY Vector
<1>2. CASE t \in 1 .. Len(v)
  BY <1>1, <1>2, StepInMessage, Zenon
<1>3. CASE t \notin 1 .. Len(v)
  <2>1. t \in {0, Len(v) + 1} /\ t \in Nat /\ t \notin DOMAIN v
    BY <1>1, <1>3
  <2>2. /\ Len(VectorCalls(v, t)) = 1
        /\ VectorCalls(v, t)[1] = IF t = 0 THEN Begin(2) ELSE End(2)
    BY <2>1, CallsAround, Zenon
  <2>3. j = 1
    BY <2>2
  <2>4. 1 + 1 = 2
    OBVIOUS
  <2>5. Head(todo) = (IF t = 0 THEN Begin(2) ELSE End(2)) /\ documents = Documents(v, t, 1)
    BY <2>2, <2>3, Zenon
  <2> QED
    BY <1>1, <2>1, <2>3, <2>4, <2>5, StepAround, Zenon
<1> QED
  BY <1>2, <1>3

-----------------------------------------------------------------------------
(***************************************************************************)
(* Each document is the open child of the one before it.                   *)
(***************************************************************************)

LEMMA DocumentIs ==
  ASSUME NEW k, NEW e, NEW i, NEW o
  PROVE  IsDocument(Document(k, e, i, o))
<1> DEFINE d == Document(k, e, i, o)
<1>1. d.key = k /\ d.elements = e /\ d.m_index = i /\ d.in_child = o
  BY Fields4
<1>2. d = Document(k, e, i, o)
  OBVIOUS
<1> HIDE DEF d
<1>3. IsDocument(d)
  BY <1>1, <1>2, Zenon DEF IsDocument
<1> QED
  BY <1>3 DEF d

LEMMA Nested1 ==
  ASSUME NEW k, NEW e, NEW i
  PROVE  Nested(<<Document(k, e, i, Shut)>>)
<1> DEFINE x == Document(k, e, i, Shut)
<1>1. IsDocument(x) /\ x.in_child = Shut
  BY DocumentIs, Fields4
<1> HIDE DEF x
<1>2. Nested(<<x>>)
  BY <1>1 DEF Nested
<1> QED
  BY <1>2 DEF x

LEMMA Nested2 ==
  ASSUME NEW k, NEW e, NEW i, NEW l, NEW f, NEW j
  PROVE  Nested(<<Document(k, e, i, Open), Document(l, f, j, Shut)>>)
<1> DEFINE x == Document(k, e, i, Open)  y == Document(l, f, j, Shut)
<1>1. IsDocument(x) /\ x.in_child = Open /\ IsDocument(y) /\ y.in_child = Shut
  BY DocumentIs, Fields4
<1> HIDE DEF x, y
<1>2. Nested(<<x, y>>)
  BY <1>1 DEF Nested
<1> QED
  BY <1>2 DEF x, y

LEMMA Nested3 ==
  ASSUME NEW k, NEW e, NEW i, NEW l, NEW f, NEW j, NEW p, NEW g, NEW q
  PROVE  Nested(<<Document(k, e, i, Open), Document(l, f, j, Open), Document(p, g, q, Shut)>>)
<1> DEFINE x == Document(k, e, i, Open)  y == Document(l, f, j, Open)
           z == Document(p, g, q, Shut)
<1>1. /\ IsDocument(x) /\ x.in_child = Open /\ IsDocument(y) /\ y.in_child = Open
      /\ IsDocument(z) /\ z.in_child = Shut
  BY DocumentIs, Fields4
<1> HIDE DEF x, y, z
<1>2. Nested(<<x, y, z>>)
  BY <1>1 DEF Nested
<1> QED
  BY <1>2 DEF x, y, z

LEMMA Nested4 ==
  ASSUME NEW k, NEW e, NEW i, NEW l, NEW f, NEW j, NEW p, NEW g, NEW q, NEW r, NEW h, NEW s
  PROVE  Nested(<<Document(k, e, i, Open), Document(l, f, j, Open), Document(p, g, q, Open),
                  Document(r, h, s, Shut)>>)
<1> DEFINE x == Document(k, e, i, Open)  y == Document(l, f, j, Open)
           z == Document(p, g, q, Open)  w == Document(r, h, s, Shut)
<1>1. /\ IsDocument(x) /\ x.in_child = Open /\ IsDocument(y) /\ y.in_child = Open
      /\ IsDocument(z) /\ z.in_child = Open /\ IsDocument(w) /\ w.in_child = Shut
  BY DocumentIs, Fields4
<1> HIDE DEF x, y, z, w
<1>2. Nested(<<x, y, z, w>>)
  BY <1>1 DEF Nested
<1> QED
  BY <1>2 DEF x, y, z, w

\* The documents that a SubArray leaves when it is destroyed are nested too.
LEMMA Unwinds ==
  ASSUME CallsNext, Nested(documents), Len(documents) # 1, Head(todo) = End(Len(documents))
  PROVE  /\ Nested(documents') /\ Len(documents') = Len(documents) - 1
         /\ outcome' = outcome
<1> DEFINE d(k) == documents[k]
<1>1. CASE Len(documents) = 2
  <2>1. /\ documents = [k \in 1 .. 2 |-> documents[k]]
        /\ \A k \in 1 .. 2 :
             /\ documents[k] = Document(d(k).key, d(k).elements, d(k).m_index, d(k).in_child)
             /\ d(k).in_child = IF k < 2 THEN Open ELSE Shut
    BY <1>1, Zenon DEF Nested, IsDocument
  <2>2. 1 \in 1 .. 2 /\ 2 \in 1 .. 2 /\ 1 < 2 /\ ~(2 < 2)
    OBVIOUS
  <2>3. /\ documents[1] = Document(d(1).key, d(1).elements, d(1).m_index, Open)
        /\ documents[2] = Document(d(2).key, d(2).elements, d(2).m_index, Shut)
    BY <2>1, <2>2, Zenon
  <2>4. documents = <<documents[1], documents[2]>>
    BY <2>1
  <2>5. /\ documents = <<Document(d(1).key, d(1).elements, d(1).m_index, Open),
                         Document(d(2).key, d(2).elements, d(2).m_index, Shut)>>
        /\ Head(todo) = End(2)
    BY <1>1, <2>3, <2>4, Zenon
  <2> DEFINE e == Append(d(1).elements, Element(d(2).key, "array", d(2).elements))
  <2>6. documents' = <<Document(d(1).key, e, d(1).m_index, Shut)>> /\ outcome' = outcome
    BY <2>5, EndsOf2, Zenon
  <2>7. Nested(documents')
    BY <2>6, Nested1, Zenon
  <2>8. Len(documents') = 1
    <3> HIDE DEF e
    <3> QED
      BY <2>6
  <2> QED
    BY <1>1, <2>6, <2>7, <2>8
<1>2. CASE Len(documents) = 3
  <2>1. /\ documents = [k \in 1 .. 3 |-> documents[k]]
        /\ \A k \in 1 .. 3 :
             /\ documents[k] = Document(d(k).key, d(k).elements, d(k).m_index, d(k).in_child)
             /\ d(k).in_child = IF k < 3 THEN Open ELSE Shut
    BY <1>2, Zenon DEF Nested, IsDocument
  <2>2. 1 \in 1 .. 3 /\ 2 \in 1 .. 3 /\ 3 \in 1 .. 3 /\ 1 < 3 /\ 2 < 3 /\ ~(3 < 3)
    OBVIOUS
  <2>3. /\ documents[1] = Document(d(1).key, d(1).elements, d(1).m_index, Open)
        /\ documents[2] = Document(d(2).key, d(2).elements, d(2).m_index, Open)
        /\ documents[3] = Document(d(3).key, d(3).elements, d(3).m_index, Shut)
    BY <2>1, <2>2, Zenon
  <2>4. documents = <<documents[1], documents[2], documents[3]>>
    BY <2>1
  <2>5. /\ documents = <<documents[1],
                         Document(d(2).key, d(2).elements, d(2).m_index, Open),
                         Document(d(3).key, d(3).elements, d(3).m_index, Shut)>>
        /\ Head(todo) = End(3)
    BY <1>2, <2>3, <2>4, Zenon
  <2> DEFINE e == Append(d(2).elements, Element(d(3).key, "array", d(3).elements))
  <2>6. /\ documents' = <<documents[1], Document(d(2).key, e, d(2).m_index, Shut)>>
        /\ outcome' = outcome
    BY <2>5, EndsOf3, Zenon
  <2>7. Nested(documents')
    BY <2>3, <2>6, Nested2, Zenon
  <2>8. Len(documents') = 2
    <3> HIDE DEF e
    <3> QED
      BY <2>6
  <2> QED
    BY <1>2, <2>6, <2>7, <2>8
<1>3. CASE Len(documents) = 4
  <2>1. /\ documents = [k \in 1 .. 4 |-> documents[k]]
        /\ \A k \in 1 .. 4 :
             /\ documents[k] = Document(d(k).key, d(k).elements, d(k).m_index, d(k).in_child)
             /\ d(k).in_child = IF k < 4 THEN Open ELSE Shut
    BY <1>3, Zenon DEF Nested, IsDocument
  <2>2. /\ 1 \in 1 .. 4 /\ 2 \in 1 .. 4 /\ 3 \in 1 .. 4 /\ 4 \in 1 .. 4
        /\ 1 < 4 /\ 2 < 4 /\ 3 < 4 /\ ~(4 < 4)
    OBVIOUS
  <2>3. /\ documents[1] = Document(d(1).key, d(1).elements, d(1).m_index, Open)
        /\ documents[2] = Document(d(2).key, d(2).elements, d(2).m_index, Open)
        /\ documents[3] = Document(d(3).key, d(3).elements, d(3).m_index, Open)
        /\ documents[4] = Document(d(4).key, d(4).elements, d(4).m_index, Shut)
    BY <2>1, <2>2, Zenon
  <2>4. documents = <<documents[1], documents[2], documents[3], documents[4]>>
    BY <2>1
  <2>5. /\ documents = <<documents[1], documents[2],
                         Document(d(3).key, d(3).elements, d(3).m_index, Open),
                         Document(d(4).key, d(4).elements, d(4).m_index, Shut)>>
        /\ Head(todo) = End(4)
    BY <1>3, <2>3, <2>4, Zenon
  <2> DEFINE e == Append(d(3).elements, Element(d(4).key, "array", d(4).elements))
  <2>6. /\ documents' = <<documents[1], documents[2], Document(d(3).key, e, d(3).m_index, Shut)>>
        /\ outcome' = outcome
    BY <2>5, EndsOf4, Zenon
  <2>7. Nested(documents')
    BY <2>3, <2>6, Nested3, ZenonT(60)
  <2>8. Len(documents') = 3
    <3> HIDE DEF e
    <3> QED
      BY <2>6
  <2> QED
    BY <1>3, <2>6, <2>7, <2>8
<1>4. Len(documents) \in 1 .. 4
  BY Zenon DEF Nested
<1>5. Len(documents) = 2 \/ Len(documents) = 3 \/ Len(documents) = 4
  BY <1>4
<1> QED
  BY <1>1, <1>2, <1>3, <1>5, Zenon

LEMMA DestructorsRun ==
  ASSUME NEW n \in 1 .. 4
  PROVE  /\ Destructors(n) = <<>> <=> n = 1
         /\ n # 1 => Head(Destructors(n)) = End(n) /\ Tail(Destructors(n)) = Destructors(n - 1)
<1>1. Destructors(1) = <<>>
  BY DEF Destructors
<1>2. ASSUME n # 1
      PROVE  /\ Destructors(n) # <<>>
             /\ Head(Destructors(n)) = End(n) /\ Tail(Destructors(n)) = Destructors(n - 1)
  <2> DEFINE s == Destructors(n)  r == Destructors(n - 1)  S == {End(i) : i \in 0 .. 4}
  <2>0. n - 1 \in 1 .. 3 /\ (n - 1) - 1 = n - 2 /\ n - 1 \in Nat /\ n - 2 \in Nat
    BY <1>2
  <2>1. /\ s \in Seq(S) /\ Len(s) = n - 1 /\ \A i \in 1 .. n - 1 : s[i] = End(n + 1 - i)
    <3>1. s = [i \in 1 .. n - 1 |-> End(n + 1 - i)]
      BY DEF Destructors
    <3>2. \A i \in 1 .. n - 1 : End(n + 1 - i) \in S
      <4>1. \A i \in 1 .. n - 1 : n + 1 - i \in 0 .. 4
        OBVIOUS
      <4> QED
        BY <4>1
    <3> HIDE DEF s, S
    <3> QED
      BY <2>0, <3>1, <3>2
  <2>2. /\ r \in Seq(S) /\ Len(r) = n - 2 /\ \A i \in 1 .. n - 2 : r[i] = End(n - i)
    <3>1. r = [i \in 1 .. n - 2 |-> End((n - 1) + 1 - i)]
      BY <2>0 DEF Destructors
    <3>2. \A i \in 1 .. n - 2 : (n - 1) + 1 - i = n - i /\ n - i \in 0 .. 4
      OBVIOUS
    <3>3. \A i \in 1 .. n - 2 : End(n - i) \in S
      BY <3>2
    <3> HIDE DEF r, S
    <3> QED
      BY <2>0, <3>1, <3>2, <3>3
  <2> HIDE DEF s, r, S
  <2>3. s # <<>>
    BY <2>0, <2>1
  <2>4. /\ Tail(s) \in Seq(S) /\ Len(Tail(s)) = Len(s) - 1 /\ Head(s) = s[1]
        /\ \A i \in 1 .. Len(s) - 1 : Tail(s)[i] = s[i + 1]
    BY <2>1, <2>3, TailElements
  <2>5. n + 1 - 1 = n /\ 1 \in 1 .. n - 1 /\ (n - 1) - 1 = n - 2
    BY <1>2
  <2>6. ASSUME NEW i \in 1 .. n - 2 PROVE Tail(s)[i] = r[i]
    <3>1. i + 1 \in 1 .. n - 1 /\ n + 1 - (i + 1) = n - i /\ i \in 1 .. Len(s) - 1
      BY <2>1, <2>5
    <3> QED
      BY <2>1, <2>2, <2>4, <3>1, Zenon
  <2>7. Tail(s) = r
    <3>1. Len(Tail(s)) = n - 2 /\ Len(r) = n - 2
      BY <2>1, <2>2, <2>4, <2>5
    <3> QED
      BY <2>2, <2>4, <2>6, <3>1, SameElements
  <2>8. Head(s) = End(n)
    BY <2>1, <2>4, <2>5, Zenon
  <2> QED
    BY <2>3, <2>7, <2>8 DEF s, r
<1> QED
  BY <1>1, <1>2

\* The documents there are between two calls.
LEMMA Shapes ==
  ASSUME NEW v \in Vectors, NEW t \in 0 .. Len(v) + 1, NEW j \in 1 .. Len(VectorCalls(v, t)) + 1
  PROVE  \/ \E e : Documents(v, t, j) = <<Document(0, e, 0, Shut)>>
         \/ \E q \in 0 .. Len(v) : \E i : Documents(v, t, j) = <<Bson(Open), Array(v, q, i, Shut)>>
         \/ \E q \in 0 .. Len(v) : \E k, e, i :
              Documents(v, t, j) = <<Bson(Open), Array(v, q, q, Open), Document(k, e, i, Shut)>>
         \/ \E q \in 0 .. Len(v) : \E k, e, i, f :
              Documents(v, t, j) = <<Bson(Open), Array(v, q, q, Open), Document(k, e, i, Open),
                                     Document(0, f, 0, Shut)>>
<1>1. Len(v) \in Nat /\ DOMAIN v = 1 .. Len(v) /\ \A i \in 1 .. Len(v) : v[i] \in Message
  BY Vector
<1>2. CASE t \in 1 .. Len(v)
  <2> DEFINE m == v[t]
             n == Len(m.attachments)
             b == Bson(Open)
             a == Array(v, t - 1, t - 1, Open)
  <2>1. m \in Message /\ t \in DOMAIN v /\ t # 0
    BY <1>1, <1>2
  <2>2. n \in Nat /\ Len(VectorCalls(v, t)) = 9 + n
    BY <2>1, CallsOfMessage
  <2>3. \/ j = 1 \/ j \in 2 .. 5 \/ j = 6 \/ j \in 7 .. 7 + n
        \/ j = 8 + n \/ j = 9 + n \/ j = 10 + n
    <3>1. j \in 1 .. (9 + n) + 1
      BY <2>2, Zenon
    <3> HIDE DEF n
    <3> QED
      BY <2>2, <3>1
  <2>4. /\ Documents(v, t, 1) = <<b, Array(v, t - 1, t - 1, Shut)>>
        /\ \A i \in 2 .. 5 :
             Documents(v, t, i) = <<b, a, Document(t - 1, MessageElements(m, i - 2), 0, Shut)>>
        /\ Documents(v, t, 6) =
             <<b, a, Document(t - 1, MessageElements(m, 3), 0, Open), Document(0, <<>>, 0, Shut)>>
        /\ \A i \in 7 .. 7 + n :
             Documents(v, t, i) =
               <<b, a, Document(t - 1, MessageElements(m, 3), 1, Open),
                 Document(0, AttachmentElements(m, i - 7), 0, Shut)>>
        /\ Documents(v, t, 8 + n) = <<b, a, Document(t - 1, MessageElements(m, 4), 1, Shut)>>
        /\ Documents(v, t, 9 + n) = <<b, Array(v, t, t - 1, Shut)>>
        /\ Documents(v, t, 10 + n) = <<b, Array(v, t, t, Shut)>>
    BY <1>1, <1>2, <2>2, Places, Zenon
  <2>0. t - 1 \in 0 .. Len(v) /\ t \in 0 .. Len(v)
    BY <1>1, <1>2
  <2> HIDE DEF m, n
  <2>5. CASE j = 1
    BY <2>0, <2>4, <2>5, Zenon
  <2>6. CASE j \in 2 .. 5
    BY <2>0, <2>4, <2>6, Zenon
  <2>7. CASE j = 6
    BY <2>0, <2>4, <2>7, ZenonT(60)
  <2>8. CASE j \in 7 .. 7 + n
    BY <2>0, <2>4, <2>8, ZenonT(60)
  <2>9. CASE j = 8 + n
    BY <2>0, <2>4, <2>9, Zenon
  <2>10. CASE j = 9 + n
    BY <2>0, <2>4, <2>10, Zenon
  <2>11. CASE j = 10 + n
    BY <2>0, <2>4, <2>11, Zenon
  <2> QED
    BY <2>3, <2>5, <2>6, <2>7, <2>8, <2>9, <2>10, <2>11
<1>3. CASE t \notin 1 .. Len(v)
  <2>1. Len(VectorCalls(v, t)) = 1
    BY <1>3, Turn, Zenon
  <2>2. (t = 0 \/ t = Len(v) + 1) /\ (j = 1 \/ j = 2)
    BY <1>1, <1>3, <2>1
  <2>3. 0 \in 0 .. Len(v) /\ Len(v) \in 0 .. Len(v)
    BY <1>1
  <2>4. \/ Documents(v, t, j) = <<Bson(Shut)>>
        \/ Documents(v, t, j) = <<Bson(Open), Array(v, 0, 0, Shut)>>
        \/ Documents(v, t, j) = <<Bson(Open), Array(v, Len(v), Len(v), Shut)>>
        \/ Documents(v, t, j) = <<Document(0, Complete(v), 0, Shut)>>
    BY <1>1, <2>2, PlacesAround, Zenon
  <2>5. Bson(Shut) = Document(0, <<>>, 0, Shut)
    BY DEF Bson
  <2> QED
    BY <2>3, <2>4, <2>5, Zenon
<1> QED
  BY <1>2, <1>3

LEMMA NestedPlaces ==
  ASSUME NEW v \in Vectors, NEW t \in 0 .. Len(v) + 1, NEW j \in 1 .. Len(VectorCalls(v, t)) + 1
  PROVE  Nested(Documents(v, t, j))
<1> DEFINE ds == Documents(v, t, j)
<1>0. \/ \E e : ds = <<Document(0, e, 0, Shut)>>
      \/ \E q \in 0 .. Len(v) : \E i : ds = <<Bson(Open), Array(v, q, i, Shut)>>
      \/ \E q \in 0 .. Len(v) : \E k, e, i :
           ds = <<Bson(Open), Array(v, q, q, Open), Document(k, e, i, Shut)>>
      \/ \E q \in 0 .. Len(v) : \E k, e, i, f :
           ds = <<Bson(Open), Array(v, q, q, Open), Document(k, e, i, Open),
                  Document(0, f, 0, Shut)>>
  BY Shapes, Zenon
<1> HIDE DEF ds
<1>1. ASSUME NEW e, ds = <<Document(0, e, 0, Shut)>> PROVE Nested(ds)
  BY <1>1, Nested1, Zenon
<1>2. ASSUME NEW q, NEW i, ds = <<Bson(Open), Array(v, q, i, Shut)>> PROVE Nested(ds)
  <2>1. Nested(<<Document(0, <<>>, 0, Open), Document(0, ArrayElements(v, q), i, Shut)>>)
    BY Nested2, Zenon
  <2> QED
    BY <1>2, <2>1, Zenon DEF Bson, Array
<1>3. ASSUME NEW q, NEW k, NEW e, NEW i,
             ds = <<Bson(Open), Array(v, q, q, Open), Document(k, e, i, Shut)>>
      PROVE  Nested(ds)
  <2>1. Nested(<<Document(0, <<>>, 0, Open), Document(0, ArrayElements(v, q), q, Open),
                 Document(k, e, i, Shut)>>)
    BY Nested3, SMT
  <2> QED
    BY <1>3, <2>1, Zenon DEF Bson, Array
<1>4. ASSUME NEW q, NEW k, NEW e, NEW i, NEW f,
             ds = <<Bson(Open), Array(v, q, q, Open), Document(k, e, i, Open),
                    Document(0, f, 0, Shut)>>
      PROVE  Nested(ds)
  <2>1. Nested(<<Document(0, <<>>, 0, Open), Document(0, ArrayElements(v, q), q, Open),
                 Document(k, e, i, Open), Document(0, f, 0, Shut)>>)
    BY Nested4, SMT
  <2> QED
    BY <1>4, <2>1, Zenon DEF Bson, Array
<1>5. Nested(ds)
  BY <1>0, <1>1, <1>2, <1>3, <1>4, Zenon
<1> QED
  BY <1>5 DEF ds

\* The array of messages holds the elements of the first q of them.
LEMMA SecondDocument ==
  ASSUME NEW v \in Vectors, NEW t \in 0 .. Len(v) + 1,
         NEW j \in 1 .. Len(VectorCalls(v, t)) + 1, Len(Documents(v, t, j)) >= 2
  PROVE  \E q \in 0 .. Len(v) : Documents(v, t, j)[2].elements = ArrayElements(v, q)
<1> DEFINE ds == Documents(v, t, j)
<1>0. \/ \E e : ds = <<Document(0, e, 0, Shut)>>
      \/ \E q \in 0 .. Len(v) : \E i : ds = <<Bson(Open), Array(v, q, i, Shut)>>
      \/ \E q \in 0 .. Len(v) : \E k, e, i :
           ds = <<Bson(Open), Array(v, q, q, Open), Document(k, e, i, Shut)>>
      \/ \E q \in 0 .. Len(v) : \E k, e, i, f :
           ds = <<Bson(Open), Array(v, q, q, Open), Document(k, e, i, Open),
                  Document(0, f, 0, Shut)>>
  BY Shapes, Zenon
<1>1. Len(ds) >= 2
  OBVIOUS
<1> HIDE DEF ds
<1>2. ASSUME NEW q, NEW i, NEW o PROVE Array(v, q, i, o).elements = ArrayElements(v, q)
  BY Fields4 DEF Array
<1>3. ASSUME NEW d PROVE ~(Len(<<d>>) >= 2)
  OBVIOUS
<1>4. ASSUME NEW a, NEW b, NEW c, NEW d
      PROVE  <<a, b>>[2] = b /\ <<a, b, c>>[2] = b /\ <<a, b, c, d>>[2] = b
  OBVIOUS
<1>5. ASSUME NEW e, ds = <<Document(0, e, 0, Shut)>> PROVE FALSE
  BY <1>1, <1>3, <1>5, Zenon
<1>6. ASSUME NEW q, NEW i, ds = <<Bson(Open), Array(v, q, i, Shut)>>
      PROVE  ds[2].elements = ArrayElements(v, q)
  <2>1. ds[2] = Array(v, q, i, Shut)
    BY <1>6, <1>4, Zenon
  <2> QED
    BY <1>2, <2>1, Zenon
<1>7. ASSUME NEW q, NEW k, NEW e, NEW i,
             ds = <<Bson(Open), Array(v, q, q, Open), Document(k, e, i, Shut)>>
      PROVE  ds[2].elements = ArrayElements(v, q)
  <2>1. ds[2] = Array(v, q, q, Open)
    BY <1>7
  <2> QED
    BY <1>2, <2>1, Zenon
<1>8. ASSUME NEW q, NEW k, NEW e, NEW i, NEW f,
             ds = <<Bson(Open), Array(v, q, q, Open), Document(k, e, i, Open),
                    Document(0, f, 0, Shut)>>
      PROVE  ds[2].elements = ArrayElements(v, q)
  <2>1. ds[2] = Array(v, q, q, Open)
    BY <1>8
  <2> QED
    BY <1>2, <2>1, Zenon
<1>9. \E q \in 0 .. Len(v) : ds[2].elements = ArrayElements(v, q)
  BY <1>0, <1>5, <1>6, <1>7, <1>8, Zenon
<1> QED
  BY <1>9 DEF ds

-----------------------------------------------------------------------------
(***************************************************************************)
(* Reading.                                                                *)
(***************************************************************************)

\* The casts to int64_t and back lose nothing.
LEMMA NumberReturns ==
  ASSUME NEW x \in Unsigned
  PROVE  to_uint64(to_int64(x)) = x
<1> DEFINE M == 2^W
<1>1. M \in Int
  BY WidthAssumption
<1>2. x \in 0 .. M - 1
  BY DEF Unsigned
<1> HIDE DEF M
<1>3. M \in Nat \ {0} /\ x % M = x /\ (x - M) % M = x
  <2>1. M \in Nat \ {0}
    BY <1>1, <1>2
  <2> QED
    BY <1>2, <2>1
<1>4. to_int64(x) = x \/ to_int64(x) = x - M
  BY DEF to_int64, M
<1> QED
  BY <1>3, <1>4 DEF to_uint64, M

LEMMA FieldsOf ==
  ASSUME NEW key, NEW type, NEW value
  PROVE  LET e == Element(key, type, value)
         IN e.key = key /\ e.type = type /\ e.value = value
BY DEF Element

\* The fields of the elements of a message.
LEMMA ElementsOfMessage ==
  ASSUME NEW m
  PROVE  LET e == MessageElements(m, 4)
             n == Len(m.attachments)
         IN /\ DOMAIN e = 1 .. 4
            /\ e[1] = Element(0, "int64", to_int64(m.from))
            /\ e[2] = Element(0, "int64", to_int64(m.to))
            /\ e[3] = Element(0, "utf8", m.text)
            /\ e[4] = Element(0, "array", AttachmentElements(m, n))
BY DEF MessageElements

\* The fields of a message's elements, as the readers see them.
LEMMA FieldsOfMessage ==
  ASSUME NEW m
  PROVE  LET e == MessageElements(m, 4)
         IN /\ DOMAIN e = 1 .. 4
            /\ e[1].type = "int64" /\ e[1].value = to_int64(m.from)
            /\ e[2].type = "int64" /\ e[2].value = to_int64(m.to)
            /\ e[3].type = "utf8" /\ e[3].value = m.text
            /\ e[4].type = "array"
            /\ e[4].value = AttachmentElements(m, Len(m.attachments))
<1> DEFINE e == MessageElements(m, 4)
<1>1. /\ DOMAIN e = 1 .. 4
      /\ e[1] = Element(0, "int64", to_int64(m.from))
      /\ e[2] = Element(0, "int64", to_int64(m.to))
      /\ e[3] = Element(0, "utf8", m.text)
      /\ e[4] = Element(0, "array", AttachmentElements(m, Len(m.attachments)))
  BY ElementsOfMessage, Zenon
<1> HIDE DEF e
<1>2. e[1].type = "int64" /\ e[1].value = to_int64(m.from)
  <2>1. LET d == Element(0, "int64", to_int64(m.from))
        IN d.type = "int64" /\ d.value = to_int64(m.from)
    BY DEF Element
  <2> QED
    BY <1>1, <2>1, Zenon
<1>3. e[2].type = "int64" /\ e[2].value = to_int64(m.to)
  <2>1. LET d == Element(0, "int64", to_int64(m.to))
        IN d.type = "int64" /\ d.value = to_int64(m.to)
    BY DEF Element
  <2> QED
    BY <1>1, <2>1, Zenon
<1>4. e[3].type = "utf8" /\ e[3].value = m.text
  <2>1. LET d == Element(0, "utf8", m.text)
        IN d.type = "utf8" /\ d.value = m.text
    BY DEF Element
  <2> QED
    BY <1>1, <2>1, Zenon
<1>5. e[4].type = "array" /\ e[4].value = AttachmentElements(m, Len(m.attachments))
  <2>1. LET d == Element(0, "array", AttachmentElements(m, Len(m.attachments)))
        IN d.type = "array" /\ d.value = AttachmentElements(m, Len(m.attachments))
    BY DEF Element
  <2> QED
    BY <1>1, <2>1, Zenon
<1> QED
  BY <1>1, <1>2, <1>3, <1>4, <1>5, Zenon DEF e

LEMMA ElementsOfAttachments ==
  ASSUME NEW m, NEW n
  PROVE  LET a == AttachmentElements(m, n)
         IN /\ DOMAIN a = 1 .. n
            /\ \A i \in 1 .. n : a[i].type = "binary" /\ a[i].value = m.attachments[i]
<1>1. /\ DOMAIN AttachmentElements(m, n) = 1 .. n
      /\ \A i \in 1 .. n : AttachmentElements(m, n)[i] = Element(0, "binary", m.attachments[i])
  BY DEF AttachmentElements
<1> QED
  BY <1>1, FieldsOf

LEMMA ReadsMessage ==
  ASSUME NEW m \in Message
  PROVE  ReadMessage(MessageElements(m, 4)) = m
<1> DEFINE e == MessageElements(m, 4)
           n == Len(m.attachments)
           a == AttachmentElements(m, n)
<1>1. /\ e[1].value = to_int64(m.from) /\ e[2].value = to_int64(m.to)
      /\ e[3].value = m.text /\ e[4].value = a
  BY FieldsOfMessage, Zenon
<1>2. /\ m.from \in Unsigned /\ m.to \in Unsigned /\ m.attachments \in Seq(Buffers)
      /\ m = [from |-> m.from, to |-> m.to, text |-> m.text, attachments |-> m.attachments]
  BY DEF Message
<1>3. DOMAIN a = 1 .. n /\ \A i \in 1 .. n : a[i].value = m.attachments[i]
  BY ElementsOfAttachments
<1> HIDE DEF e, a
<1>4. [i \in DOMAIN a |-> a[i].value] = m.attachments
  <2>1. m.attachments = [i \in 1 .. n |-> m.attachments[i]]
    BY <1>2
  <2> QED
    BY <1>3, <2>1
<1>5. to_uint64(to_int64(m.from)) = m.from /\ to_uint64(to_int64(m.to)) = m.to
  BY <1>2, NumberReturns
<1>6. ReadMessage(e) = [from |-> m.from, to |-> m.to, text |-> m.text, attachments |-> m.attachments]
  BY <1>1, <1>4, <1>5, Zenon DEF ReadMessage
<1> QED
  BY <1>2, <1>6, Zenon DEF e

LEMMA MessageIsAccepted ==
  ASSUME NEW m \in Message
  PROVE  message_asserts(MessageElements(m, 4))
<1> DEFINE e == MessageElements(m, 4)
           n == Len(m.attachments)
           a == AttachmentElements(m, n)
<1>1. /\ DOMAIN e = 1 .. 4 /\ e[1].type = "int64" /\ e[2].type = "int64"
      /\ e[3].type = "utf8" /\ e[4].type = "array" /\ e[4].value = a
  BY FieldsOfMessage, Zenon
<1>2. DOMAIN a = 1 .. n /\ \A i \in 1 .. n : a[i].type = "binary"
  BY ElementsOfAttachments
<1> HIDE DEF e, a
<1>3. Types(e) = <<"int64", "int64", "utf8", "array">>
  <2>1. Types(e) = [i \in 1 .. 4 |-> e[i].type]
    BY <1>1 DEF Types
  <2> QED
    BY <1>1, <2>1
<1>4. ToSet(Types(a)) \subseteq {"binary"}
  BY <1>2 DEF ToSet, Types
<1>5. message_asserts(e)
  BY <1>1, <1>3, <1>4 DEF message_asserts
<1> QED
  BY <1>5 DEF e

LEMMA ElementsOfArray ==
  ASSUME NEW v, NEW n
  PROVE  LET a == ArrayElements(v, n)
         IN /\ DOMAIN a = 1 .. n
            /\ \A i \in 1 .. n : /\ a[i].key = i - 1 /\ a[i].type = "array"
                                 /\ a[i].value = MessageElements(v[i], 4)
<1>1. /\ DOMAIN ArrayElements(v, n) = 1 .. n
      /\ \A i \in 1 .. n :
           ArrayElements(v, n)[i] = Element(i - 1, "array", MessageElements(v[i], 4))
  BY DEF ArrayElements
<1> QED
  BY <1>1, FieldsOf

\* What the readers make of the first n messages.
LEMMA ReadsMessages ==
  ASSUME NEW v \in Vectors, NEW n \in 0 .. Len(v)
  PROVE  LET a == ArrayElements(v, n)
         IN [i \in DOMAIN a |-> ReadMessage(a[i].value)] = [i \in 1 .. n |-> v[i]]
<1> DEFINE a == ArrayElements(v, n)
<1>1. Len(v) \in Nat /\ \A t \in 1 .. Len(v) : v[t] \in Message
  BY Vector
<1>2. DOMAIN a = 1 .. n /\ \A i \in 1 .. n : a[i].value = MessageElements(v[i], 4)
  BY ElementsOfArray
<1> HIDE DEF a
<1>3. ASSUME NEW i \in 1 .. n PROVE ReadMessage(a[i].value) = v[i]
  <2>1. v[i] \in Message
    BY <1>1
  <2> QED
    BY <1>2, <2>1, ReadsMessage
<1>4. [i \in DOMAIN a |-> ReadMessage(a[i].value)] = [i \in 1 .. n |-> v[i]]
  BY <1>2, <1>3, Zenon
<1> QED
  BY <1>4 DEF a

-----------------------------------------------------------------------------
(***************************************************************************)
(* The inductive invariant.                                                *)
(***************************************************************************)

LEMMA BInit ==
  ASSUME Init
  PROVE  BInv
<1>1. /\ messages \in Vectors /\ documents = <<EmptyDocument(0)>> /\ turn = 0
      /\ todo = VectorCalls(messages, 0) /\ outcome = "writing"
  BY DEF Init
<1>2. Len(messages) \in Nat
  BY <1>1, Vector
<1> DEFINE C == VectorCalls(messages, 0)
<1>3. 0 \in 0 .. Len(messages) + 1
  BY <1>2
<1>4. Len(C) \in Nat \ {0} /\ \E S : C \in Seq(S)
  BY <1>1, <1>3, Turn, Zenon
<1>5. C = SubSeq(C, 1, Len(C)) /\ 1 \in 1 .. Len(C) + 1
  <2> HIDE DEF C
  <2>1. PICK S : C \in Seq(S)
    BY <1>4
  <2> QED
    BY <1>4, <2>1, NoRest
<1>6. EmptyDocument(0) = Bson(Shut)
  BY DEF EmptyDocument, Bson, Document, Shut
<1>7. documents = Documents(messages, 0, 1)
  BY <1>1, <1>2, <1>6, PlacesAround, Zenon
<1>8. WritingInv
  BY <1>1, <1>3, <1>5, <1>7, Zenon DEF WritingInv
<1> QED
  BY <1>1, <1>8 DEF BInv

\* What the invariant says of the calls that remain.
LEMMA Remaining ==
  ASSUME BInv, outcome = "writing"
  PROVE  /\ messages \in Vectors /\ Len(messages) \in Nat /\ turn \in 0 .. Len(messages) + 1
         /\ LET C == VectorCalls(messages, turn) IN
            /\ Len(C) \in Nat \ {0}
            /\ \/ \E j \in 1 .. Len(C) :
                    /\ documents = Documents(messages, turn, j)
                    /\ todo # <<>> /\ Head(todo) = C[j]
                    /\ Tail(todo) = SubSeq(C, j + 1, Len(C)) /\ j + 1 \in 1 .. Len(C) + 1
               \/ todo = <<>> /\ documents = Documents(messages, turn, Len(C) + 1)
<1> DEFINE C == VectorCalls(messages, turn)
<1>1. messages \in Vectors /\ turn \in 0 .. Len(messages) + 1
  BY DEF BInv, WritingInv
<1>2. PICK j \in 1 .. Len(C) + 1 :
        todo = SubSeq(C, j, Len(C)) /\ documents = Documents(messages, turn, j)
  BY DEF BInv, WritingInv
<1>3. Len(messages) \in Nat
  BY <1>1, Vector
<1>4. Len(C) \in Nat \ {0} /\ \E S : C \in Seq(S)
  BY <1>1, Turn, Zenon
<1> HIDE DEF C
<1>5. PICK S : C \in Seq(S)
  BY <1>4
<1>6. CASE j = Len(C) + 1
  <2>1. todo = <<>>
    BY <1>2, <1>5, <1>6, NoRest, Zenon
  <2> QED
    BY <1>1, <1>2, <1>3, <1>4, <1>6, <2>1, Zenon DEF C
<1>7. CASE j # Len(C) + 1
  <2>1. j \in 1 .. Len(C) /\ j + 1 \in 1 .. Len(C) + 1
    BY <1>2, <1>4, <1>7
  <2>2. /\ SubSeq(C, j, Len(C)) # <<>> /\ Head(SubSeq(C, j, Len(C))) = C[j]
        /\ Tail(SubSeq(C, j, Len(C))) = SubSeq(C, j + 1, Len(C))
    BY <1>5, <2>1, RestOfSequence, Zenon
  <2> QED
    BY <1>1, <1>2, <1>3, <1>4, <2>1, <2>2, Zenon DEF C
<1> QED
  BY <1>6, <1>7

LEMMA BCall ==
  ASSUME BInv, CallsNext
  PROVE  BInv'
<1>1. /\ todo # <<>> /\ todo' = Tail(todo) /\ outcome \in {"writing", "unwinding"}
      /\ messages' = messages /\ turn' = turn
  BY CallMade
<1>2. CASE outcome = "writing"
  <2> DEFINE C == VectorCalls(messages, turn)
  <2>1. /\ messages \in Vectors /\ Len(messages) \in Nat /\ turn \in 0 .. Len(messages) + 1
        /\ \/ \E j \in 1 .. Len(C) :
                /\ documents = Documents(messages, turn, j)
                /\ todo # <<>> /\ Head(todo) = C[j]
                /\ Tail(todo) = SubSeq(C, j + 1, Len(C)) /\ j + 1 \in 1 .. Len(C) + 1
           \/ todo = <<>> /\ documents = Documents(messages, turn, Len(C) + 1)
    BY <1>2, Remaining, Zenon
  <2>2. PICK j \in 1 .. Len(C) :
          /\ documents = Documents(messages, turn, j)
          /\ Head(todo) = C[j]
          /\ Tail(todo) = SubSeq(C, j + 1, Len(C)) /\ j + 1 \in 1 .. Len(C) + 1
    BY <1>1, <2>1, Zenon
  <2>3. documents' = Documents(messages, turn, j + 1) /\ outcome' = outcome
    BY <2>1, <2>2, StepInTurn, Zenon
  <2>4. WritingInv'
    BY <1>1, <2>1, <2>2, <2>3, Zenon DEF WritingInv
  <2>5. messages' \in Vectors /\ outcome' = "writing"
    BY <1>1, <1>2, <2>1, <2>3
  <2> QED
    BY <2>4, <2>5 DEF BInv
<1>3. CASE outcome = "unwinding"
  <2>1. Nested(documents) /\ todo = Destructors(Len(documents)) /\ messages \in Vectors
    BY <1>3 DEF BInv
  <2>2. Len(documents) \in 1 .. 4
    BY <2>1, Zenon DEF Nested
  <2>3. /\ Len(documents) # 1 /\ Head(todo) = End(Len(documents))
        /\ Tail(todo) = Destructors(Len(documents) - 1)
    BY <1>1, <2>1, <2>2, DestructorsRun, Zenon
  <2>4. Nested(documents') /\ Len(documents') = Len(documents) - 1 /\ outcome' = outcome
    BY <2>1, <2>3, Unwinds, Zenon
  <2>5. todo' = Destructors(Len(documents'))
    BY <1>1, <2>3, <2>4, Zenon
  <2>6. messages' \in Vectors /\ outcome' = "unwinding"
    BY <1>1, <1>3, <2>1, <2>4
  <2> QED
    BY <2>4, <2>5, <2>6 DEF BInv
<1> QED
  BY <1>1, <1>2, <1>3

\* An append or the constructor of a SubArray fails: what exists is nested.
LEMMA BFails ==
  ASSUME BInv, append_fails \/ begin_fails
  PROVE  BInv'
<1>1. /\ outcome = "writing" /\ UNCHANGED <<messages, documents>>
      /\ todo' = Destructors(Len(documents)) /\ outcome' \in {"unwinding", "undefined"}
  BY DEF append_fails, begin_fails, Fails
<1> DEFINE C == VectorCalls(messages, turn)
<1>2. /\ messages \in Vectors /\ turn \in 0 .. Len(messages) + 1
      /\ \E j \in 1 .. Len(C) + 1 : documents = Documents(messages, turn, j)
  BY <1>1 DEF BInv, WritingInv
<1>3. Nested(documents)
  BY <1>2, NestedPlaces, Zenon
<1>4. Nested(documents') /\ todo' = Destructors(Len(documents'))
  BY <1>1, <1>3, Zenon
<1> QED
  BY <1>1, <1>2, <1>4 DEF BInv

LEMMA BNextMessage ==
  ASSUME BInv, next_message
  PROVE  BInv'
<1>1. /\ outcome = "writing" /\ todo = <<>> /\ turn <= Len(messages)
      /\ turn' = turn + 1 /\ todo' = VectorCalls(messages, turn')
      /\ messages' = messages /\ documents' = documents /\ outcome' = outcome
  BY DEF next_message
<1> DEFINE C == VectorCalls(messages, turn)
<1>2. /\ messages \in Vectors /\ Len(messages) \in Nat /\ turn \in 0 .. Len(messages) + 1
      /\ documents = Documents(messages, turn, Len(C) + 1)
  BY <1>1, Remaining, Zenon
<1>3. Documents(messages, turn, Len(C) + 1) = Documents(messages, turn + 1, 1)
  BY <1>1, <1>2, Turn, Zenon
<1>4. turn + 1 \in 0 .. Len(messages) + 1
  BY <1>1, <1>2
<1> DEFINE D == VectorCalls(messages, turn + 1)
<1>5. Len(D) \in Nat \ {0} /\ \E S : D \in Seq(S)
  BY <1>2, <1>4, Turn, Zenon
<1>6. D = SubSeq(D, 1, Len(D)) /\ 1 \in 1 .. Len(D) + 1
  <2> HIDE DEF D
  <2>1. PICK S : D \in Seq(S)
    BY <1>5
  <2> QED
    BY <1>5, <2>1, NoRest
<1>7. WritingInv'
  BY <1>1, <1>2, <1>3, <1>4, <1>6, Zenon DEF WritingInv
<1> QED
  BY <1>1, <1>2, <1>7 DEF BInv

LEMMA BFinish ==
  ASSUME BInv, finish
  PROVE  BInv'
<1>1. /\ todo = <<>> /\ UNCHANGED <<messages, documents, turn, todo, got>>
      /\ \/ outcome = "writing" /\ turn > Len(messages) /\ outcome' = "written"
         \/ outcome = "unwinding" /\ outcome' = "thrown"
  BY DEF finish
<1>2. CASE outcome = "writing"
  <2> DEFINE C == VectorCalls(messages, turn)
  <2>1. /\ messages \in Vectors /\ Len(messages) \in Nat /\ turn \in 0 .. Len(messages) + 1
        /\ documents = Documents(messages, turn, Len(C) + 1)
    BY <1>1, <1>2, Remaining, Zenon
  <2>2. turn = Len(messages) + 1 /\ turn \notin 1 .. Len(messages) /\ outcome' = "written"
    BY <1>1, <1>2, <2>1
  <2>3. Len(C) + 1 = 2
    <3>1. Len(C) = 1
      BY <2>1, <2>2, Turn, Zenon
    <3> HIDE DEF C
    <3> QED
      BY <3>1
  <2>4. documents = <<Document(0, Complete(messages), 0, Shut)>>
    BY <2>1, <2>2, <2>3, PlacesAround, Zenon
  <2>5. documents[1].elements = Complete(messages)
    <3> DEFINE d == Document(0, Complete(messages), 0, Shut)
    <3>1. d.elements = Complete(messages)
      BY Fields4
    <3> HIDE DEF d
    <3>2. documents = <<d>>
      BY <2>4 DEF d
    <3> QED
      BY <3>1, <3>2
  <2>6. documents'[1].elements = Complete(messages')
    BY <1>1, <2>5
  <2> QED
    BY <1>1, <2>1, <2>2, <2>6 DEF BInv
<1>3. CASE outcome = "unwinding"
  BY <1>1, <1>3 DEF BInv
<1> QED
  BY <1>1, <1>2, <1>3

LEMMA BRead ==
  ASSUME BInv, read
  PROVE  BInv'
<1> DEFINE root == documents[1].elements
           a == root[1].value
<1>1. /\ messages \in Vectors /\ outcome = "written" /\ UNCHANGED messages
      /\ root = Complete(messages)
  BY DEF BInv, read
<1>2. Len(messages) \in Nat /\ messages \in Seq(Message)
      /\ \A i \in 1 .. Len(messages) : messages[i] \in Message
  BY <1>1, Vector
<1> DEFINE A == ArrayElements(messages, Len(messages))
<1>3. Types(root) = <<"array">> /\ a = A
  <2> DEFINE x == Element(0, "array", A)
  <2>1. x.type = "array" /\ x.value = A
    BY FieldsOf
  <2>2. root = <<x>>
    BY <1>1 DEF Complete
  <2> HIDE DEF x, root
  <2> QED
    BY <2>1, <2>2 DEF Types
<1>4. /\ DOMAIN A = 1 .. Len(messages)
      /\ \A i \in 1 .. Len(messages) : A[i].type = "array" /\ A[i].value = MessageElements(messages[i], 4)
  BY ElementsOfArray
<1>5. \A i \in DOMAIN a : a[i].type = "array" /\ message_asserts(a[i].value)
  <2> HIDE DEF a, A
  <2> QED
    BY <1>2, <1>3, <1>4, MessageIsAccepted, Zenon
<1>6. [i \in DOMAIN a |-> ReadMessage(a[i].value)] = messages
  <2>1. [i \in DOMAIN A |-> ReadMessage(A[i].value)] = [i \in 1 .. Len(messages) |-> messages[i]]
    <3>1. Len(messages) \in 0 .. Len(messages)
      BY <1>2
    <3> QED
      BY <1>1, <3>1, ReadsMessages, Zenon
  <2>2. messages = [i \in 1 .. Len(messages) |-> messages[i]]
    BY <1>2
  <2> QED
    BY <1>3, <2>1, <2>2, Zenon
<1>7. got' = [i \in DOMAIN a |-> ReadMessage(a[i].value)] /\ outcome' = "read"
  BY <1>3, <1>5, Zenon DEF read
<1>8. got' = messages'
  BY <1>1, <1>6, <1>7, Zenon
<1> QED
  BY <1>1, <1>7, <1>8 DEF BInv

\* The invariant of a vector on its way to BSON and back: between two calls the
\* documents are those that the calls before have made, and after a failure each
\* is still the open child of the one before it.
THEOREM BInvariant == Spec => []BInv
<1>1. Init => BInv
  BY BInit
<1>2. BInv /\ [Next]_vars => BInv'
  <2> SUFFICES ASSUME BInv, [Next]_vars PROVE BInv'
    OBVIOUS
  <2>1. CASE begin \/ append \/ increment \/ end
    BY <2>1, BCall DEF CallsNext
  <2>2. CASE append_fails \/ begin_fails
    BY <2>2, BFails
  <2>3. CASE next_message
    BY <2>3, BNextMessage
  <2>4. CASE finish
    BY <2>4, BFinish
  <2>5. CASE read
    BY <2>5, BRead
  <2>6. CASE UNCHANGED vars
    BY <2>6 DEF vars, BInv, WritingInv
  <2> QED
    BY <2>1, <2>2, <2>3, <2>4, <2>5, <2>6 DEF Next
<1> QED
  BY <1>1, <1>2, PTL DEF Spec

-----------------------------------------------------------------------------
(***************************************************************************)
(* What the properties of BsonMessages say, always.                        *)
(***************************************************************************)

\* Whatever MessageVector::to_bson_buffer has written is read back by
\* MessageVector(bson::Iter&) as what it was, for every width of user_id_t, any
\* number of messages and any number of attachments.
THEOREM ReadsWhatWasWritten == Spec => []RoundTrip
<1>1. BInv => RoundTrip
  BY DEF BInv, RoundTrip
<1> QED
  BY <1>1, BInvariant, PTL

\* No call of the wrapper touches a document with an open child, neither while a
\* vector is written nor when an exception destroys the SubArrays, and none of
\* the readers' assertions fails on what was written.
THEOREM NothingEverAborts == Spec => []NothingAborts
<1>1. BInv => NothingAborts
  BY DEF BInv, NothingAborts
<1> QED
  BY <1>1, BInvariant, PTL

\* The elements of the array of messages are always the first messages of the
\* vector, under the keys 0, 1, 2, ..., wherever the writing stands.
THEOREM ArrayAlwaysHoldsAPrefix == Spec => []ArrayHoldsAPrefix
<1>1. ASSUME BInv PROVE ArrayHoldsAPrefix
  <2> DEFINE written == documents[2].elements
             C == VectorCalls(messages, turn)
  <2>1. ASSUME Len(documents) >= 2, outcome = "writing"
        PROVE  /\ \A i \in DOMAIN written : written[i].key = i - 1
               /\ IsPrefix([i \in DOMAIN written |-> ReadMessage(written[i].value)], messages)
    <3>1. /\ messages \in Vectors /\ turn \in 0 .. Len(messages) + 1
          /\ \E j \in 1 .. Len(C) + 1 : documents = Documents(messages, turn, j)
      BY <1>1, <2>1 DEF BInv, WritingInv
    <3>2. PICK q \in 0 .. Len(messages) : written = ArrayElements(messages, q)
      BY <2>1, <3>1, SecondDocument, Zenon
    <3>3. \A i \in DOMAIN written : written[i].key = i - 1
      <4> DEFINE A == ArrayElements(messages, q)
      <4>1. DOMAIN A = 1 .. q /\ \A i \in 1 .. q : A[i].key = i - 1
        BY ElementsOfArray, ZenonT(60)
      <4>2. written = A
        BY <3>2
      <4> HIDE DEF written, A
      <4> QED
        BY <4>1, <4>2, Zenon
    <3> DEFINE r == [i \in DOMAIN written |-> ReadMessage(written[i].value)]
    <3>4. r = [i \in 1 .. q |-> messages[i]]
      <4> DEFINE A == ArrayElements(messages, q)
      <4>1. [i \in DOMAIN A |-> ReadMessage(A[i].value)] = [i \in 1 .. q |-> messages[i]]
        BY <3>1, ReadsMessages, Zenon
      <4>2. written = A
        BY <3>2
      <4> HIDE DEF written
      <4> QED
        BY <4>1, <4>2, Zenon
    <3>5. messages \in Seq(Message) /\ Len(messages) \in Nat
      BY <3>1, Vector
    <3> HIDE DEF r
    <3>6. r \in Seq(Message) /\ Len(r) = q /\ \A i \in 1 .. q : r[i] = messages[i]
      <4>1. \A i \in 1 .. q : messages[i] \in Message
        BY <3>5, ElementOf
      <4> QED
        BY <3>4, <3>5, <4>1
    <3>7. /\ SubSeq(messages, 1, q) \in Seq(Message) /\ Len(SubSeq(messages, 1, q)) = q
          /\ \A i \in 1 .. q : SubSeq(messages, 1, q)[i] = messages[i]
      BY <3>5, BeginElements
    <3>8. SubSeq(r, 1, q) = r
      BY <3>6, NoRest
    <3>9. r = SubSeq(messages, 1, q)
      BY <3>6, <3>7, SameElements
    <3>10. q <= Len(messages)
      BY <3>5
    <3>11. IsPrefix(r, messages)
      BY <3>6, <3>8, <3>9, <3>10, Zenon DEF IsPrefix
    <3> QED
      BY <3>3, <3>11 DEF r
  <2> QED
    BY <2>1, Zenon DEF ArrayHoldsAPrefix
<1> QED
  BY <1>1, BInvariant, PTL
=============================================================================
