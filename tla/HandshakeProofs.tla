-------------------------- MODULE HandshakeProofs --------------------------
(***************************************************************************)
(* Proofs about Handshake, for all streams of bytes and however they are   *)
(* cut into reads and writes.                                              *)
(***************************************************************************)
EXTENDS Handshake, TLAPS

-----------------------------------------------------------------------------
(***************************************************************************)
(* Parts of sequences.                                                     *)
(***************************************************************************)

LEMMA PartElements ==
  ASSUME NEW S, NEW s \in Seq(S), NEW n \in 0 .. Len(s), NEW p \in 0 .. n
  PROVE  /\ SubSeq(s, p + 1, n) \in Seq(S)
         /\ Len(SubSeq(s, p + 1, n)) = n - p
         /\ \A i \in 1 .. n - p : SubSeq(s, p + 1, n)[i] = s[p + i]
OBVIOUS

\* The same, of all parts of a sequence.
LEMMA PartsOf ==
  ASSUME NEW S, NEW s \in Seq(S)
  PROVE  \A n \in 0 .. Len(s) : \A p \in 0 .. n :
           /\ SubSeq(s, p + 1, n) \in Seq(S)
           /\ Len(SubSeq(s, p + 1, n)) = n - p
           /\ \A i \in 1 .. n - p : SubSeq(s, p + 1, n)[i] = s[p + i]
BY PartElements, ZenonT(60)

LEMMA FirstElements ==
  ASSUME NEW S, NEW s \in Seq(S), NEW n \in 0 .. Len(s)
  PROVE  /\ SubSeq(s, 1, n) \in Seq(S) /\ Len(SubSeq(s, 1, n)) = n
         /\ \A i \in 1 .. n : SubSeq(s, 1, n)[i] = s[i]
OBVIOUS

LEMMA ElementOfSequence ==
  ASSUME NEW S, NEW s \in Seq(S), NEW i \in 1 .. Len(s)
  PROVE  s[i] \in S
OBVIOUS

\* Two sequences with the same elements.
LEMMA SameElements ==
  ASSUME NEW S, NEW s \in Seq(S), NEW t \in Seq(S), Len(s) = Len(t),
         \A i \in 1 .. Len(s) : s[i] = t[i]
  PROVE  s = t
OBVIOUS

LEMMA JoinedElements ==
  ASSUME NEW S, NEW s \in Seq(S), NEW t \in Seq(S)
  PROVE  /\ s \o t \in Seq(S) /\ Len(s \o t) = Len(s) + Len(t)
         /\ \A i \in 1 .. Len(s) : (s \o t)[i] = s[i]
         /\ \A i \in 1 .. Len(t) : (s \o t)[Len(s) + i] = t[i]
OBVIOUS

LEMMA PartOfPart ==
  ASSUME NEW S, NEW s \in Seq(S), NEW n \in 0 .. Len(s), NEW p \in 0 .. n,
         NEW b \in 0 .. n - p, NEW a \in 0 .. b
  PROVE  SubSeq(SubSeq(s, p + 1, n), a + 1, b) = SubSeq(s, p + a + 1, p + b)
<1> DEFINE part == SubSeq(s, p + 1, n)
<1>1. /\ part \in Seq(S) /\ Len(part) = n - p
      /\ \A i \in 1 .. n - p : part[i] = s[p + i]
  BY PartElements
<1> HIDE DEF part
<1>2. /\ SubSeq(part, a + 1, b) \in Seq(S) /\ Len(SubSeq(part, a + 1, b)) = b - a
      /\ \A i \in 1 .. b - a : SubSeq(part, a + 1, b)[i] = part[a + i]
  BY <1>1, PartElements
<1>3. p + b \in 0 .. Len(s) /\ p + a \in 0 .. p + b
  OBVIOUS
<1>4. /\ SubSeq(s, p + a + 1, p + b) \in Seq(S) /\ Len(SubSeq(s, p + a + 1, p + b)) = (p + b) - (p + a)
      /\ \A i \in 1 .. (p + b) - (p + a) : SubSeq(s, p + a + 1, p + b)[i] = s[p + a + i]
  BY <1>3, PartElements
<1>5. ASSUME NEW i \in 1 .. b - a PROVE SubSeq(part, a + 1, b)[i] = SubSeq(s, p + a + 1, p + b)[i]
  <2>1. a + i \in 1 .. n - p /\ i \in 1 .. (p + b) - (p + a) /\ p + (a + i) = p + a + i
    OBVIOUS
  <2> QED
    BY <1>1, <1>2, <1>4, <2>1
<1>6. (p + b) - (p + a) = b - a
  OBVIOUS
<1>7. SubSeq(part, a + 1, b) = SubSeq(s, p + a + 1, p + b)
  BY <1>2, <1>4, <1>5, <1>6, SameElements
<1> QED
  BY <1>7 DEF part

LEMMA PartsJoin ==
  ASSUME NEW S, NEW s \in Seq(S), NEW n \in 0 .. Len(s), NEW m \in 0 .. n, NEW p \in 0 .. m
  PROVE  SubSeq(s, p + 1, m) \o SubSeq(s, m + 1, n) = SubSeq(s, p + 1, n)
<1> DEFINE a == SubSeq(s, p + 1, m)
           b == SubSeq(s, m + 1, n)
           c == SubSeq(s, p + 1, n)
<1>1. /\ a \in Seq(S) /\ Len(a) = m - p /\ \A i \in 1 .. m - p : a[i] = s[p + i]
      /\ b \in Seq(S) /\ Len(b) = n - m /\ \A i \in 1 .. n - m : b[i] = s[m + i]
      /\ c \in Seq(S) /\ Len(c) = n - p /\ \A i \in 1 .. n - p : c[i] = s[p + i]
  BY PartElements
<1> HIDE DEF a, b, c
<1>2. /\ a \o b \in Seq(S) /\ Len(a \o b) = n - p
      /\ \A i \in 1 .. m - p : (a \o b)[i] = a[i]
      /\ \A i \in 1 .. n - m : (a \o b)[(m - p) + i] = b[i]
  <2>1. /\ a \o b \in Seq(S) /\ Len(a \o b) = Len(a) + Len(b)
        /\ \A i \in 1 .. Len(a) : (a \o b)[i] = a[i]
        /\ \A i \in 1 .. Len(b) : (a \o b)[Len(a) + i] = b[i]
    <3>1. a \in Seq(S) /\ b \in Seq(S)
      BY <1>1
    <3> QED
      BY <3>1, JoinedElements
  <2>2. Len(a) + Len(b) = n - p
    BY <1>1
  <2> QED
    BY <1>1, <2>1, <2>2
<1>3. ASSUME NEW i \in 1 .. n - p PROVE (a \o b)[i] = c[i]
  <2>1. CASE i <= m - p
    <3>1. i \in 1 .. m - p
      BY <2>1
    <3> QED
      BY <1>1, <1>2, <3>1
  <2>2. CASE ~(i <= m - p)
    <3> DEFINE j == i - (m - p)
    <3>1. j \in 1 .. n - m /\ m + j = p + i /\ (m - p) + j = i
      BY <2>2
    <3> HIDE DEF j
    <3>2. (a \o b)[i] = b[j]
      BY <1>2, <3>1
    <3>3. b[j] = s[p + i]
      BY <1>1, <3>1
    <3>4. c[i] = s[p + i]
      BY <1>1
    <3> QED
      BY <3>2, <3>3, <3>4
  <2> QED
    BY <2>1, <2>2
<1>4. a \o b = c
  BY <1>1, <1>2, <1>3, SameElements
<1> QED
  BY <1>4 DEF a, b, c

\* Cutting a sequence in two and joining it again.
LEMMA CutAndJoin ==
  ASSUME NEW S, NEW s \in Seq(S), NEW k \in 0 .. Len(s)
  PROVE  /\ SubSeq(s, 1, k) \in Seq(S) /\ SubSeq(s, k + 1, Len(s)) \in Seq(S)
         /\ SubSeq(s, 1, k) \o SubSeq(s, k + 1, Len(s)) = s
<1>1. SubSeq(s, 1, k) \in Seq(S) /\ SubSeq(s, k + 1, Len(s)) \in Seq(S)
  OBVIOUS
<1>2. Len(s) \in 0 .. Len(s) /\ 0 \in 0 .. k /\ 0 + 1 = 1
  OBVIOUS
<1>3. SubSeq(s, 0 + 1, k) \o SubSeq(s, k + 1, Len(s)) = SubSeq(s, 0 + 1, Len(s))
  BY <1>2, PartsJoin
<1>4. SubSeq(s, 1, Len(s)) = s
  OBVIOUS
<1> QED
  BY <1>1, <1>2, <1>3, <1>4

LEMMA PrefixOfSelf ==
  ASSUME NEW S, NEW s \in Seq(S)
  PROVE  IsPrefix(s, s)
BY DEF IsPrefix

\* The beginning of a prefix is a prefix.
LEMMA PrefixOfPrefix ==
  ASSUME NEW S, NEW s \in Seq(S), NEW t \in Seq(S), NEW whole \in Seq(S), IsPrefix(s \o t, whole)
  PROVE  IsPrefix(s, whole)
<1>1. Len(s) \in Nat /\ Len(t) \in Nat /\ Len(s \o t) = Len(s) + Len(t) /\ s \o t \in Seq(S)
  OBVIOUS
<1>2. Len(s) + Len(t) <= Len(whole)
  BY <1>1 DEF IsPrefix
<1>3. \A i \in 1 .. Len(s) : (s \o t)[i] = s[i]
  OBVIOUS
<1>4. \A i \in 1 .. Len(s) + Len(t) : (s \o t)[i] = whole[i]
  <2>1. SubSeq(s \o t, 1, Len(s) + Len(t)) = SubSeq(whole, 1, Len(s) + Len(t))
    BY <1>1 DEF IsPrefix
  <2>2. ASSUME NEW i \in 1 .. Len(s) + Len(t)
        PROVE  /\ SubSeq(s \o t, 1, Len(s) + Len(t))[i] = (s \o t)[i]
               /\ SubSeq(whole, 1, Len(s) + Len(t))[i] = whole[i]
    BY <1>1, <1>2
  <2> QED
    BY <2>1, <2>2
<1>5. SubSeq(s, 1, Len(s)) = SubSeq(whole, 1, Len(s))
  <2>1. \A i \in 1 .. Len(s) : s[i] = whole[i]
    BY <1>1, <1>3, <1>4
  <2> QED
    BY <1>1, <1>2, <2>1
<1> QED
  BY <1>1, <1>2, <1>5 DEF IsPrefix

-----------------------------------------------------------------------------
(***************************************************************************)
(* The inductive invariant: what is true of a Session c after n bytes of   *)
(* the stream were read and the client has got the bytes r.                *)
(***************************************************************************)

Bytes == Seq(0 .. 255)

States == {"READING_CLIENT_GREETING", "READING_AUTH_METHODS",
           "READING_CLIENT_CONNECTION_REQUEST", "READING_DOMAIN_NAME_LENGTH",
           "READING_ADDRESS", "CONNECTING_TO_DESTINATION", "PROXYING_REQUESTS"}

Destinations ==
  Bytes \cup {Resolved4(name) : name \in Bytes} \cup {Resolved6(name) : name \in Bytes}

Sessions ==
  [m_state : States, m_read_buffer : Bytes, needed : Nat,
   m_auth_methods_count : 0 .. 255, m_address_type : 0 .. 255,
   m_domain_name_length : 0 .. 255, destination : Destinations,
   m_write_client_buffer : Bytes, m_is_failed : BOOLEAN,
   request : {"none", "read", "write", "connect", "segfault"}]

LEMMA StateNames ==
  /\ "READING_AUTH_METHODS" \in States /\ "READING_CLIENT_CONNECTION_REQUEST" \in States
  /\ "READING_DOMAIN_NAME_LENGTH" \in States /\ "READING_ADDRESS" \in States
BY DEF States

\* What the handlers assign leaves a Session a Session.
LEMMA Buffered ==
  ASSUME NEW c \in Sessions, NEW b \in Bytes
  PROVE  [c EXCEPT !.m_read_buffer = b] \in Sessions
BY DEF Sessions

LEMMA Waits ==
  ASSUME NEW c \in Sessions, NEW s \in States, NEW k \in Nat
  PROVE  [c EXCEPT !.m_state = s, !.needed = k] \in Sessions
BY ZenonT(60) DEF Sessions

LEMMA WaitsForMethods ==
  ASSUME NEW c \in Sessions, NEW m \in 0 .. 255, NEW s \in States, NEW k \in Nat
  PROVE  [c EXCEPT !.m_auth_methods_count = m, !.m_state = s, !.needed = k] \in Sessions
BY ZenonT(60) DEF Sessions

LEMMA WaitsForName ==
  ASSUME NEW c \in Sessions, NEW b \in 0 .. 255, NEW s \in States, NEW k \in Nat
  PROVE  [c EXCEPT !.m_domain_name_length = b, !.m_state = s, !.needed = k] \in Sessions
BY ZenonT(60) DEF Sessions

LEMMA WaitsForAddress ==
  ASSUME NEW c \in Sessions, NEW t \in 0 .. 255, NEW s \in States, NEW k \in Nat
  PROVE  [c EXCEPT !.m_address_type = t, !.m_state = s, !.needed = k] \in Sessions
BY ZenonT(60) DEF Sessions

LEMMA WritesBytes ==
  ASSUME NEW c \in Sessions, NEW b \in Bytes
  PROVE  [c EXCEPT !.m_write_client_buffer = b, !.request = "write"] \in Sessions
BY ZenonT(60) DEF Sessions

LEMMA HasToWrite ==
  ASSUME NEW c \in Sessions, NEW b \in Bytes
  PROVE  [c EXCEPT !.m_write_client_buffer = b] \in Sessions
BY DEF Sessions

LEMMA Refuses ==
  ASSUME NEW c \in Sessions, NEW b \in Bytes
  PROVE  [c EXCEPT !.m_is_failed = TRUE, !.m_write_client_buffer = b, !.request = "write"]
           \in Sessions
BY ZenonT(60) DEF Sessions

LEMMA Fails ==
  ASSUME NEW c \in Sessions
  PROVE  [c EXCEPT !.m_is_failed = TRUE] \in Sessions
BY DEF Sessions

LEMMA CallsConnect ==
  ASSUME NEW c \in Sessions, NEW r \in {"connect", "segfault"}
  PROVE  [c EXCEPT !.m_state = "CONNECTING_TO_DESTINATION", !.request = r] \in Sessions
BY ZenonT(60) DEF Sessions, States

\* The buffer is what follows the first p of the n bytes read.
Holds(c, p, n) == p \in 0 .. n /\ c.m_read_buffer = SubSeq(stream, p + 1, n)

\* The stream has asked for a connection, in good form.
Asked ==
  /\ MethodsAreGood
  /\ Len(ConnectRequest) >= 4
  /\ SubSeq(ConnectRequest, 1, 3) = <<5, 1, 0>>

AddressStart == GreetingLength + 4 + IF ConnectRequest[4] = DOMAIN_NAME THEN 1 ELSE 0

RequestEnd == GreetingLength + 4 + AddressLength

\* A Session whose request reads, state by state.
ReadsGreeting(c, n, r) == Holds(c, 0, n) /\ c.needed = 3 /\ r = <<>>

ReadsMethods(c, n, r) ==
  /\ GreetingIsGood /\ Holds(c, 2, n)
  /\ c.m_auth_methods_count = stream[2] /\ c.needed = stream[2] /\ r = <<>>

ReadsRequest(c, n, r) ==
  MethodsAreGood /\ Holds(c, GreetingLength, n) /\ c.needed = 4 /\ r = <<5, 0>>

ReadsNameLength(c, n, r) ==
  /\ Asked /\ ConnectRequest[4] = DOMAIN_NAME /\ c.m_address_type = DOMAIN_NAME
  /\ Holds(c, GreetingLength + 4, n) /\ c.needed = 1 /\ r = <<5, 0>>

ReadsAddress(c, n, r) ==
  /\ Asked /\ c.m_address_type = ConnectRequest[4]
  /\ c.m_address_type \in {IPV4, DOMAIN_NAME, IPV6}
  /\ Holds(c, AddressStart, n) /\ r = <<5, 0>>
  /\ c.m_address_type = DOMAIN_NAME =>
       Len(ConnectRequest) > 4 /\ c.m_domain_name_length = ConnectRequest[5]
  /\ AddressStart + c.needed = RequestEnd

Reads(c, n, r) ==
  \/ c.m_state = "READING_CLIENT_GREETING" /\ ReadsGreeting(c, n, r)
  \/ c.m_state = "READING_AUTH_METHODS" /\ ReadsMethods(c, n, r)
  \/ c.m_state = "READING_CLIENT_CONNECTION_REQUEST" /\ ReadsRequest(c, n, r)
  \/ c.m_state = "READING_DOMAIN_NAME_LENGTH" /\ ReadsNameLength(c, n, r)
  \/ c.m_state = "READING_ADDRESS" /\ ReadsAddress(c, n, r)

\* The whole request has been read and parsed.
Parsing(c, n) ==
  Asked /\ Len(ConnectRequest) >= 4 + AddressLength /\ Holds(c, RequestEnd, n)

Connects(c, n, r) ==
  /\ c.m_state = "CONNECTING_TO_DESTINATION" /\ Parsing(c, n)
  /\ c.destination \in WantedDestinations /\ r = <<5, 0>>
  /\ c.m_address_type = FamilyOf(c.destination)

\* A Session that is not failed answers the greeting, or the request.
AnswersWhole(c, n, r) ==
  \/ /\ c.m_state = "READING_AUTH_METHODS" /\ MethodsAreGood
     /\ Holds(c, GreetingLength, n) /\ r \o c.m_write_client_buffer = <<5, 0>>
  \/ c.m_state = "CONNECTING_TO_DESTINATION" /\ Parsing(c, n)

Said(c, r) == r \o IF c.request = "write" THEN c.m_write_client_buffer ELSE <<>>

\* The answers a stream allows, with the address that was taken from it.
Fits(a, address) ==
  \/ a = <<>>
  \/ GreetingIsGood /\ IsPrefix(a, <<5, 0>>)
  \/ /\ MethodsAreGood
     /\ Len(ConnectRequest) >= 4
     /\ \/ \E code \in RefusalCodes : IsPrefix(a, Refusal(code))
        \/ /\ Len(ConnectRequest) >= 4 + AddressLength
           /\ address \in WantedDestinations
           /\ IsPrefix(a, <<5, 0>> \o Success(address))

Sound(c, n, r) ==
  /\ c \in Sessions
  /\ c.request # "segfault" => Fits(Said(c, r), c.destination)
  /\ c.request = "read" => ~c.m_is_failed /\ Reads(c, n, r) /\ Len(c.m_read_buffer) < c.needed
  /\ c.request = "connect" => ~c.m_is_failed /\ Connects(c, n, r)
  /\ c.request = "write" /\ ~c.m_is_failed => AnswersWhole(c, n, r)
  /\ c.m_state = "PROXYING_REQUESTS" => c.request = "none" /\ Parsing(c, n)

\* The Session of the state.
Now == [Current EXCEPT !.request = request]

HInv ==
  /\ stream \in Streams /\ nread \in 0 .. Len(stream) /\ received \in Bytes
  /\ Sound(Now, nread, received)

-----------------------------------------------------------------------------
(***************************************************************************)
(* What the buffer and the stream have to do with each other.              *)
(***************************************************************************)

\* What a Session holds are bytes of the stream, and what it consumes moves the
\* point it has parsed to.
LEMMA HeldBytes ==
  ASSUME stream \in Bytes, NEW n \in 0 .. Len(stream), NEW p \in 0 .. n,
         NEW c \in Sessions, Holds(c, p, n)
  PROVE  /\ Len(c.m_read_buffer) = n - p
         /\ \A i \in 0 .. n - p - 1 : Byte(c, i) = stream[p + i + 1] /\ Byte(c, i) \in 0 .. 255
         /\ \A k \in 0 .. n - p : SubSeq(c.m_read_buffer, 1, k) = SubSeq(stream, p + 1, p + k)
<1>1. c.m_read_buffer = SubSeq(stream, p + 1, n)
  BY DEF Holds
<1>2. /\ Len(c.m_read_buffer) = n - p
      /\ \A i \in 1 .. n - p : c.m_read_buffer[i] = stream[p + i]
  BY <1>1, PartElements DEF Bytes
<1>3. ASSUME NEW i \in 0 .. n - p - 1
      PROVE  Byte(c, i) = stream[p + i + 1] /\ Byte(c, i) \in 0 .. 255
  <2>1. i + 1 \in 1 .. n - p /\ p + (i + 1) = p + i + 1 /\ p + i + 1 \in 1 .. Len(stream)
    OBVIOUS
  <2>2. stream[p + i + 1] \in 0 .. 255
    BY <2>1, ElementOfSequence, SMTT(60) DEF Bytes
  <2>3. Byte(c, i) = stream[p + i + 1]
    BY <1>2, <2>1 DEF Byte
  <2> QED
    BY <2>2, <2>3
<1>4. ASSUME NEW k \in 0 .. n - p
      PROVE  SubSeq(c.m_read_buffer, 1, k) = SubSeq(stream, p + 1, p + k)
  <2>1. 0 \in 0 .. k /\ 0 + 1 = 1 /\ p + 0 + 1 = p + 1
    OBVIOUS
  <2>2. SubSeq(SubSeq(stream, p + 1, n), 0 + 1, k) = SubSeq(stream, p + 0 + 1, p + k)
    BY <2>1, PartOfPart DEF Bytes
  <2> QED
    BY <1>1, <2>1, <2>2
<1> QED
  BY <1>2, <1>3, <1>4

LEMMA Consumed ==
  ASSUME stream \in Bytes, NEW n \in 0 .. Len(stream), NEW p \in 0 .. n,
         NEW c \in Sessions, Holds(c, p, n), NEW k \in 0 .. n - p
  PROVE  LET d == consume_bytes_from_read_buffer(c, k)
         IN  /\ d \in Sessions /\ Holds(d, p + k, n)
             /\ d.m_state = c.m_state /\ d.needed = c.needed
             /\ d.m_auth_methods_count = c.m_auth_methods_count
             /\ d.m_address_type = c.m_address_type
             /\ d.m_domain_name_length = c.m_domain_name_length
             /\ d.destination = c.destination
             /\ d.m_write_client_buffer = c.m_write_client_buffer
             /\ d.m_is_failed = c.m_is_failed /\ d.request = c.request
<1> DEFINE b == SubSeq(c.m_read_buffer, k + 1, Len(c.m_read_buffer))
<1>1. c.m_read_buffer = SubSeq(stream, p + 1, n) /\ Len(c.m_read_buffer) = n - p
  BY HeldBytes DEF Holds
<1>2. n - p \in 0 .. n - p /\ k \in 0 .. n - p /\ p + (n - p) = n
  OBVIOUS
<1>3. SubSeq(SubSeq(stream, p + 1, n), k + 1, n - p) = SubSeq(stream, p + k + 1, p + (n - p))
  BY <1>2, PartOfPart DEF Bytes
<1>4. b = SubSeq(stream, p + k + 1, n)
  BY <1>1, <1>2, <1>3
<1>5. p + k \in 0 .. n
  OBVIOUS
<1>6. b \in Bytes
  <2>1. stream \in Seq(0 .. 255)
    BY DEF Bytes
  <2>2. SubSeq(stream, (p + k) + 1, n) \in Seq(0 .. 255)
    BY <1>5, <2>1, PartElements
  <2> QED
    BY <1>4, <2>2 DEF Bytes
<1>7. consume_bytes_from_read_buffer(c, k) = [c EXCEPT !.m_read_buffer = b]
  BY DEF consume_bytes_from_read_buffer
<1> HIDE DEF b
<1>8. [c EXCEPT !.m_read_buffer = b] \in Sessions
  BY <1>6, Buffered
<1>9. consume_bytes_from_read_buffer(c, k).m_read_buffer = b
  BY <1>7 DEF Sessions
<1> DEFINE d == consume_bytes_from_read_buffer(c, k)
<1>10. /\ d.m_state = c.m_state /\ d.needed = c.needed
       /\ d.m_auth_methods_count = c.m_auth_methods_count
       /\ d.m_address_type = c.m_address_type
       /\ d.m_domain_name_length = c.m_domain_name_length
       /\ d.destination = c.destination
       /\ d.m_write_client_buffer = c.m_write_client_buffer
       /\ d.m_is_failed = c.m_is_failed /\ d.request = c.request
  BY <1>7 DEF Sessions
<1> QED
  BY <1>4, <1>5, <1>7, <1>8, <1>9, <1>10 DEF Holds

\* The request is what follows the greeting.
LEMMA RequestBytes ==
  ASSUME stream \in Bytes, GreetingLength \in 0 .. Len(stream)
  PROVE  /\ ConnectRequest \in Bytes /\ Len(ConnectRequest) = Len(stream) - GreetingLength
         /\ \A i \in 1 .. Len(stream) - GreetingLength :
              ConnectRequest[i] = stream[GreetingLength + i] /\ ConnectRequest[i] \in 0 .. 255
         /\ \A b \in 0 .. Len(stream) - GreetingLength : \A a \in 0 .. b :
              SubSeq(ConnectRequest, a + 1, b)
                = SubSeq(stream, GreetingLength + a + 1, GreetingLength + b)
<1> DEFINE G == GreetingLength
<1> HIDE DEF G
<1>1. Len(stream) \in 0 .. Len(stream) /\ G \in 0 .. Len(stream) /\ stream \in Seq(0 .. 255)
  BY DEF Bytes, G
<1>2. ConnectRequest = SubSeq(stream, G + 1, Len(stream))
  BY DEF ConnectRequest, G
<1>3. /\ ConnectRequest \in Bytes /\ Len(ConnectRequest) = Len(stream) - G
      /\ \A i \in 1 .. Len(stream) - G : ConnectRequest[i] = stream[G + i]
  <2> DEFINE part == SubSeq(stream, G + 1, Len(stream))
  <2>1. /\ part \in Seq(0 .. 255) /\ Len(part) = Len(stream) - G
        /\ \A i \in 1 .. Len(stream) - G : part[i] = stream[G + i]
    <3>1. \A m \in 0 .. Len(stream) : \A p \in 0 .. m :
            /\ SubSeq(stream, p + 1, m) \in Seq(0 .. 255)
            /\ Len(SubSeq(stream, p + 1, m)) = m - p
            /\ \A i \in 1 .. m - p : SubSeq(stream, p + 1, m)[i] = stream[p + i]
      BY <1>1, PartsOf
    <3> QED
      BY <1>1, <3>1, ZenonT(60)
  <2> HIDE DEF part
  <2>2. ConnectRequest = part
    BY <1>2 DEF part
  <2> QED
    BY <2>1, <2>2 DEF Bytes
<1>4. ASSUME NEW b \in 0 .. Len(stream) - G, NEW a \in 0 .. b
      PROVE  SubSeq(ConnectRequest, a + 1, b) = SubSeq(stream, G + a + 1, G + b)
  BY <1>1, <1>2, PartOfPart
<1>5. \A i \in 1 .. Len(stream) - G : ConnectRequest[i] \in 0 .. 255
  BY <1>3, ElementOfSequence DEF Bytes
<1> QED
  BY <1>3, <1>4, <1>5 DEF G

\* A good greeting has a length.
LEMMA GreetingHasLength ==
  ASSUME stream \in Bytes, GreetingIsGood
  PROVE  stream[2] \in 1 .. 255 /\ GreetingLength = stream[2] + 2 /\ GreetingLength \in Nat
<1>1. Len(stream) >= 3 /\ stream[2] # 0
  BY DEF GreetingIsGood
<1>2. 2 \in 1 .. Len(stream) /\ stream \in Seq(0 .. 255)
  BY <1>1 DEF Bytes
<1>3. stream[2] \in 0 .. 255
  BY <1>2, ElementOfSequence, SMTT(60)
<1> DEFINE m == stream[2]
<1>4. GreetingLength = 2 + m
  BY DEF GreetingLength
<1>5. m \in 0 .. 255 /\ m # 0
  BY <1>1, <1>3
<1> HIDE DEF m
<1>6. m \in 1 .. 255 /\ GreetingLength = m + 2 /\ GreetingLength \in Nat
  BY <1>4, <1>5
<1> QED
  BY <1>6 DEF m

-----------------------------------------------------------------------------
(***************************************************************************)
(* What a Session may become.                                              *)
(***************************************************************************)

LEMMA ReplyBytes ==
  ASSUME NEW code \in 0 .. 255, NEW type \in {IPV4, IPV6}, NEW k \in Nat
  PROVE  Reply(code, type, Zeros(k)) \in Bytes
<1>1. Zeros(k) \in Seq(0 .. 255)
  BY DEF Zeros
<1>2. <<5, code, 0, type>> \in Seq(0 .. 255)
  BY DEF IPV4, IPV6
<1>3. <<5, code, 0, type>> \o Zeros(k) \in Seq(0 .. 255)
  BY <1>1, <1>2, JoinedElements
<1> QED
  BY <1>3 DEF Reply, Bytes

\* What a Session has said before it answers the request.
LEMMA Beginnings ==
  /\ <<>> \in Bytes /\ <<5, 0>> \in Bytes
  /\ IsPrefix(<<>>, <<5, 0>>) /\ IsPrefix(<<5, 0>>, <<5, 0>>)
  /\ <<5, 0>> \o <<>> = <<5, 0>> /\ <<>> \o <<5, 0>> = <<5, 0>> /\ <<>> \o <<>> = <<>>
<1>1. <<>> \in Bytes /\ <<5, 0>> \in Bytes
  BY DEF Bytes
<1>2. IsPrefix(<<5, 0>>, <<5, 0>>)
  BY <1>1, PrefixOfSelf DEF Bytes
<1>3. IsPrefix(<<>>, <<5, 0>>)
  BY DEF IsPrefix
<1> QED
  BY <1>1, <1>2, <1>3

LEMMA RefusalCode ==
  ASSUME NEW code \in RefusalCodes
  PROVE  code \in 0 .. 255
BY DEF RefusalCodes

\* A refusal fits the stream when its code does.
LEMMA Refused ==
  ASSUME NEW n, NEW c \in Sessions, c.m_state # "PROXYING_REQUESTS",
         MethodsAreGood, Len(ConnectRequest) >= 4, NEW code \in RefusalCodes
  PROVE  Sound(send_fail_message(c, code), n, <<5, 0>>)
<1> DEFINE d == send_fail_message(c, code)
           answer == Reply(code, IPV4, Zeros(6))
<1>1. answer \in Bytes
  BY ReplyBytes, RefusalCode DEF IPV4
<1>2. <<5, 0>> \o answer \in Bytes
  BY <1>1, JoinedElements, Beginnings DEF Bytes
<1>3. IsPrefix(Refusal(code), Refusal(code))
  BY <1>2, PrefixOfSelf DEF Refusal, Bytes
<1>4. d = [c EXCEPT !.m_is_failed = TRUE, !.m_write_client_buffer = answer, !.request = "write"]
  BY DEF send_fail_message, fail_delayed, write_to_client, Sessions
<1> HIDE DEF answer, d
<1>5. /\ d \in Sessions /\ d.m_is_failed = TRUE /\ d.request = "write"
      /\ d.m_write_client_buffer = answer /\ d.m_state = c.m_state
  <2>1. d \in Sessions
    BY <1>1, <1>4, Refuses
  <2> QED
    BY <1>4, <2>1 DEF Sessions
<1>6. Said(d, <<5, 0>>) = Refusal(code)
  BY <1>5 DEF Said, Refusal, answer
<1>7. Fits(Said(d, <<5, 0>>), d.destination)
  BY <1>3, <1>6 DEF Fits
<1> QED
  BY <1>5, <1>7 DEF Sound, d

\* A Session that has the address either connects to it or says why not.
LEMMA Connecting ==
  ASSUME NEW n, NEW c \in Sessions, ~c.m_is_failed, c.m_state # "PROXYING_REQUESTS",
         Parsing(c, n), 1 \in RefusalCodes,
         NEW type \in {IPV4, IPV6}, NEW address \in Destinations, address \in WantedDestinations,
         FamilyOf(address) = type,
         NEW d \in connect_destination(c, type, address)
  PROVE  Sound(d, n, <<5, 0>>)
<1> DEFINE to == [c EXCEPT !.m_address_type = type, !.destination = address]
           connecting == [to EXCEPT !.m_state = "CONNECTING_TO_DESTINATION", !.request = "connect"]
<1>0. c.m_is_failed = FALSE
  BY DEF Sessions
<1>a. type \in 0 .. 255
  BY DEF IPV4, IPV6
<1>b. to \in Sessions
  BY <1>a, ZenonT(60) DEF Sessions
<1>c. /\ to.m_state = c.m_state /\ to.m_is_failed = FALSE
      /\ to.m_read_buffer = c.m_read_buffer /\ to.destination = address
      /\ to.m_address_type = type
  BY <1>0 DEF Sessions
<1>1. /\ to \in Sessions /\ to.m_state = c.m_state /\ to.m_is_failed = FALSE
      /\ to.m_read_buffer = c.m_read_buffer /\ to.destination = address
      /\ to.m_address_type = type
  BY <1>b, <1>c
<1>2. GreetingIsGood /\ MethodsAreGood /\ Len(ConnectRequest) >= 4
  BY DEF Parsing, Asked, MethodsAreGood
<1>3. \/ d = connecting
      \/ d = send_fail_message(to, 1)
      \/ \E e \in translate_errno(to) :
           d = [e EXCEPT !.m_state = "CONNECTING_TO_DESTINATION", !.request = "segfault"]
  BY DEF connect_destination
<1> HIDE DEF to
<1>4. CASE d = connecting
  <2>1. /\ d \in Sessions /\ d.m_state = "CONNECTING_TO_DESTINATION" /\ d.request = "connect"
        /\ d.m_is_failed = FALSE /\ d.m_read_buffer = c.m_read_buffer /\ d.destination = address
        /\ d.m_address_type = type
    <3>1. d = [to EXCEPT !.m_state = "CONNECTING_TO_DESTINATION", !.request = "connect"]
      BY <1>4, SMTT(60)
    <3> HIDE DEF connecting
    <3>2. d \in Sessions
      BY <1>1, <3>1, CallsConnect
    <3>3. /\ d.m_state = "CONNECTING_TO_DESTINATION" /\ d.request = "connect"
          /\ d.m_is_failed = to.m_is_failed /\ d.m_read_buffer = to.m_read_buffer
          /\ d.destination = to.destination /\ d.m_address_type = to.m_address_type
      BY <1>1, <3>1 DEF Sessions
    <3> QED
      BY <1>1, <3>2, <3>3
  <2>2. Connects(d, n, <<5, 0>>)
    BY <2>1 DEF Connects, Parsing, Holds
  <2>3. Fits(Said(d, <<5, 0>>), d.destination)
    BY <1>2, <2>1, Beginnings DEF Said, Fits
  <2> QED
    BY <2>1, <2>2, <2>3 DEF Sound
<1>5. CASE d = send_fail_message(to, 1)
  BY <1>1, <1>2, <1>5, Refused
<1>6. ASSUME NEW code \in {1, 3, 4, 5},
             d = [send_fail_message(to, code) EXCEPT !.m_state = "CONNECTING_TO_DESTINATION",
                                                     !.request = "segfault"]
      PROVE  Sound(d, n, <<5, 0>>)
  <2>1. Reply(code, IPV4, Zeros(6)) \in Bytes
    BY ReplyBytes, SMTT(60)
  <2> DEFINE e == send_fail_message(to, code)
  <2>a. e = [to EXCEPT !.m_is_failed = TRUE,
                       !.m_write_client_buffer = Reply(code, IPV4, Zeros(6)),
                       !.request = "write"]
    BY <1>1 DEF send_fail_message, fail_delayed, write_to_client, Sessions
  <2>c. d = [e EXCEPT !.m_state = "CONNECTING_TO_DESTINATION", !.request = "segfault"]
    BY <1>6
  <2> HIDE DEF e
  <2>b. e \in Sessions
    BY <1>1, <2>1, <2>a, Refuses, ZenonT(60)
  <2>d. d \in Sessions
    BY <2>b, <2>c, CallsConnect
  <2>2. /\ d \in Sessions /\ d.m_state = "CONNECTING_TO_DESTINATION" /\ d.request = "segfault"
    BY <2>b, <2>c, <2>d DEF Sessions
  <2> QED
    BY <2>2 DEF Sound
<1> QED
  BY <1>3, <1>4, <1>5, <1>6 DEF translate_errno

-----------------------------------------------------------------------------
(***************************************************************************)
(* Where a request ends, by the type of its address.                       *)
(***************************************************************************)

AddressTypes == {IPV4, DOMAIN_NAME, IPV6}

LEMMA Address4 ==
  ASSUME GreetingLength \in Nat, ConnectRequest[4] = IPV4
  PROVE  /\ AddressLength = 6 /\ WantedDestinations = {SubSeq(ConnectRequest, 5, 10)}
         /\ AddressStart = GreetingLength + 4
<1>1. IPV4 # IPV6 /\ IPV4 # DOMAIN_NAME
  BY DEF IPV4, IPV6, DOMAIN_NAME
<1>2. AddressLength = 6
  BY <1>1 DEF AddressLength
<1>3. 4 + 6 = 10
  OBVIOUS
<1>4. WantedAddress = SubSeq(ConnectRequest, 5, 10)
  BY <1>1, <1>2, <1>3 DEF WantedAddress
<1>5. WantedDestinations = {SubSeq(ConnectRequest, 5, 10)}
  BY <1>1, <1>4 DEF WantedDestinations
<1>6. AddressStart = GreetingLength + 4 + 0
  BY <1>1 DEF AddressStart
<1> QED
  BY <1>2, <1>5, <1>6

LEMMA Address6 ==
  ASSUME GreetingLength \in Nat, ConnectRequest[4] = IPV6
  PROVE  /\ AddressLength = 18 /\ WantedDestinations = {SubSeq(ConnectRequest, 5, 22)}
         /\ AddressStart = GreetingLength + 4
<1>1. IPV4 # IPV6 /\ IPV6 # DOMAIN_NAME
  BY DEF IPV4, IPV6, DOMAIN_NAME
<1>2. AddressLength = 18
  BY <1>1 DEF AddressLength
<1>3. 4 + 18 = 22
  OBVIOUS
<1>4. WantedAddress = SubSeq(ConnectRequest, 5, 22)
  BY <1>1, <1>2, <1>3 DEF WantedAddress
<1>5. WantedDestinations = {SubSeq(ConnectRequest, 5, 22)}
  BY <1>1, <1>4 DEF WantedDestinations
<1>6. AddressStart = GreetingLength + 4 + 0
  BY <1>1 DEF AddressStart
<1> QED
  BY <1>2, <1>5, <1>6

LEMMA AddressByName ==
  ASSUME GreetingLength \in Nat, ConnectRequest[4] = DOMAIN_NAME
  PROVE  /\ AddressStart = GreetingLength + 5
         /\ Len(ConnectRequest) > 4 => AddressLength = 1 + ConnectRequest[5] + 2
         /\ WantedDestinations =
              {Resolved4(SubSeq(ConnectRequest, 6, 4 + AddressLength)),
               Resolved6(SubSeq(ConnectRequest, 6, 4 + AddressLength))}
<1>1. IPV4 # DOMAIN_NAME /\ IPV6 # DOMAIN_NAME
  BY DEF IPV4, IPV6, DOMAIN_NAME
<1>2. Len(ConnectRequest) > 4 => AddressLength = 1 + ConnectRequest[5] + 2
  BY <1>1 DEF AddressLength
<1>3. WantedAddress = SubSeq(ConnectRequest, 6, 4 + AddressLength)
  BY DEF WantedAddress
<1>4. AddressStart = GreetingLength + 4 + 1
  BY DEF AddressStart
<1> QED
  BY <1>2, <1>3, <1>4 DEF WantedDestinations

\* The refusals of a good request.
LEMMA RefusalsOfAsked ==
  ASSUME Asked, ConnectRequest[4] \in AddressTypes
  PROVE  RefusalCodes = {1, 3, 4, 5}
BY DEF RefusalCodes, Asked, AddressTypes

\* A whole address in the buffer is that of the request, and what is behind it
\* stays.
LEMMA AddressTaken ==
  ASSUME stream \in Bytes, NEW n \in 0 .. Len(stream), NEW c \in Sessions,
         ReadsAddress(c, n, <<5, 0>>), c.needed <= Len(c.m_read_buffer),
         AddressLength \in Nat, NEW s \in {4, 5}, AddressStart = GreetingLength + s
  PROVE  /\ c.needed \in 0 .. n - AddressStart
         /\ Parsing(consume_bytes_from_read_buffer(c, c.needed), n)
         /\ SubSeq(c.m_read_buffer, 1, c.needed) \in Bytes
         /\ SubSeq(c.m_read_buffer, 1, c.needed) = SubSeq(ConnectRequest, s + 1, s + c.needed)
         /\ s + c.needed = 4 + AddressLength
<1> DEFINE G == GreetingLength
           k == c.needed
           e == consume_bytes_from_read_buffer(c, k)
<1>1. Asked /\ Holds(c, AddressStart, n) /\ AddressStart + k = RequestEnd
  BY DEF ReadsAddress
<1>2. G \in Nat
  BY <1>1, GreetingHasLength DEF Asked, MethodsAreGood
<1>3. k \in Nat
  BY DEF Sessions
<1>4. AddressStart \in 0 .. n
  BY <1>1 DEF Holds
<1>5. Len(c.m_read_buffer) = n - AddressStart
  BY <1>1, <1>4, HeldBytes
<1>6. RequestEnd = G + 4 + AddressLength
  BY DEF RequestEnd
<1> HIDE DEF G, k
<1>7. k \in 0 .. n - AddressStart
  BY <1>3, <1>4, <1>5 DEF k
<1>8. AddressStart = G + s
  BY DEF G
<1>9. /\ G + s + k = G + 4 + AddressLength /\ G + s + k <= n
      /\ s + k = 4 + AddressLength /\ G <= n /\ G + s + k = RequestEnd
  BY <1>1, <1>2, <1>3, <1>4, <1>6, <1>7, <1>8, SMTT(60)
<1>10. Len(stream) \in Nat /\ n <= Len(stream) /\ n \in Nat
  BY DEF Bytes
<1>11. GreetingLength \in 0 .. Len(stream)
  BY <1>2, <1>9, <1>10 DEF G
<1>12. Len(ConnectRequest) = Len(stream) - G
  BY <1>11, RequestBytes DEF G
<1>13. Len(ConnectRequest) >= 4 + AddressLength
  BY <1>2, <1>3, <1>9, <1>10, <1>12
<1>14. SubSeq(c.m_read_buffer, 1, k) = SubSeq(stream, AddressStart + 1, AddressStart + k)
  BY <1>1, <1>4, <1>7, HeldBytes, ZenonT(60)
<1>15. SubSeq(ConnectRequest, s + 1, s + k) = SubSeq(stream, G + s + 1, G + (s + k))
  <2>1. s + k \in 0 .. Len(stream) - GreetingLength /\ s \in 0 .. s + k
    BY <1>2, <1>3, <1>9, <1>10 DEF G
  <2> QED
    BY <1>11, <2>1, RequestBytes DEF G
<1>16. SubSeq(c.m_read_buffer, 1, k) = SubSeq(ConnectRequest, s + 1, s + k)
  <2>1. AddressStart + 1 = G + s + 1 /\ AddressStart + k = G + (s + k)
    BY <1>2, <1>3, <1>8, SMTT(60)
  <2> QED
    BY <1>14, <1>15, <2>1
<1>17. SubSeq(c.m_read_buffer, 1, k) \in Bytes
  <2>1. c.m_read_buffer \in Seq(0 .. 255)
    BY DEF Sessions, Bytes
  <2>2. k \in 0 .. Len(c.m_read_buffer)
    BY <1>5, <1>7
  <2> QED
    BY <2>1, <2>2, CutAndJoin DEF Bytes
<1>18. Holds(e, RequestEnd, n)
  <2>1. AddressStart + k = RequestEnd
    BY <1>1
  <2>2. Holds(e, AddressStart + k, n)
    BY <1>1, <1>4, <1>7, Consumed DEF k
  <2> QED
    BY <2>1, <2>2
<1>19. Parsing(e, n)
  BY <1>1, <1>13, <1>18 DEF Parsing
<1> QED
  BY <1>7, <1>9, <1>16, <1>17, <1>19 DEF k

-----------------------------------------------------------------------------
(***************************************************************************)
(* The readers keep a Session sound, from the last to the first.           *)
(***************************************************************************)

LEMMA AddressIsRead ==
  ASSUME stream \in Bytes, NEW n \in 0 .. Len(stream), NEW c \in Sessions,
         c.m_state = "READING_ADDRESS", ~c.m_is_failed,
         ReadsAddress(c, n, <<5, 0>>), c.needed <= Len(c.m_read_buffer),
         NEW d \in read_address(c)
  PROVE  Sound(d, n, <<5, 0>>)
<1> DEFINE e(k) == consume_bytes_from_read_buffer(c, k)
           address(k) == SubSeq(c.m_read_buffer, 1, k)
<1>1. /\ Asked /\ Holds(c, AddressStart, n) /\ AddressStart + c.needed = RequestEnd
      /\ c.m_address_type = ConnectRequest[4] /\ c.m_address_type \in {IPV4, DOMAIN_NAME, IPV6}
      /\ c.m_address_type = DOMAIN_NAME =>
           Len(ConnectRequest) > 4 /\ c.m_domain_name_length = ConnectRequest[5]
  BY DEF ReadsAddress
<1>2. GreetingLength \in Nat
  BY <1>1, GreetingHasLength DEF Asked, MethodsAreGood
<1>3. RefusalCodes = {1, 3, 4, 5}
  BY <1>1, RefusalsOfAsked DEF AddressTypes
<1>4. IPV4 # DOMAIN_NAME /\ IPV6 # DOMAIN_NAME /\ IPV4 # IPV6
  BY DEF IPV4, IPV6, DOMAIN_NAME
<1>5. c.needed \in Nat /\ c.m_domain_name_length \in Nat
  <2>1. c.needed \in Nat /\ c.m_domain_name_length \in 0 .. 255
    BY DEF Sessions
  <2>2. \A x \in 0 .. 255 : x \in Nat
    OBVIOUS
  <2> QED
    BY <2>1, <2>2, Zenon
<1>6. ASSUME c.needed \in 0 .. n - AddressStart
      PROVE  /\ e(c.needed) \in Sessions /\ e(c.needed).m_state = "READING_ADDRESS"
             /\ ~e(c.needed).m_is_failed
  <2>1. AddressStart \in 0 .. n
    BY <1>1 DEF Holds
  <2> QED
    BY <1>1, <1>6, <2>1, Consumed
<1>7. CASE c.m_address_type = IPV4
  <2>1. /\ AddressLength = 6 /\ WantedDestinations = {SubSeq(ConnectRequest, 5, 10)}
        /\ AddressStart = GreetingLength + 4
    BY <1>1, <1>2, <1>7, Address4
  <2>2. /\ c.needed \in 0 .. n - AddressStart /\ Parsing(e(c.needed), n)
        /\ address(c.needed) \in Bytes
        /\ address(c.needed) = SubSeq(ConnectRequest, 4 + 1, 4 + c.needed)
        /\ 4 + c.needed = 4 + AddressLength
    <3>1. AddressLength \in Nat /\ 4 \in {4, 5}
      BY <2>1
    <3> QED
      BY <2>1, <3>1, AddressTaken
  <2>3. c.needed = 6 /\ 4 + 1 = 5 /\ 4 + c.needed = 10
    BY <1>5, <2>1, <2>2, SMTT(60)
  <2>4. address(6) \in Destinations /\ address(6) \in WantedDestinations
    BY <2>1, <2>2, <2>3 DEF Destinations
  <2>5. d \in connect_destination(e(6), IPV4, address(6))
    BY <1>4, <1>7, Zenon DEF read_address
  <2>6. FamilyOf(address(6)) = IPV4
    BY <1>1, <1>4, <1>7, Zenon DEF FamilyOf
  <2> HIDE DEF e, address
  <2> QED
    BY <1>3, <1>6, <2>2, <2>3, <2>4, <2>5, <2>6, Connecting
<1>8. CASE c.m_address_type = IPV6
  <2>1. /\ AddressLength = 18 /\ WantedDestinations = {SubSeq(ConnectRequest, 5, 22)}
        /\ AddressStart = GreetingLength + 4
    BY <1>1, <1>2, <1>8, Address6
  <2>2. /\ c.needed \in 0 .. n - AddressStart /\ Parsing(e(c.needed), n)
        /\ address(c.needed) \in Bytes
        /\ address(c.needed) = SubSeq(ConnectRequest, 4 + 1, 4 + c.needed)
        /\ 4 + c.needed = 4 + AddressLength
    <3>1. AddressLength \in Nat /\ 4 \in {4, 5}
      BY <2>1
    <3> QED
      BY <2>1, <3>1, AddressTaken
  <2>3. c.needed = 18 /\ 4 + 1 = 5 /\ 4 + c.needed = 22
    BY <1>5, <2>1, <2>2, SMTT(60)
  <2>4. address(18) \in Destinations /\ address(18) \in WantedDestinations
    BY <2>1, <2>2, <2>3 DEF Destinations
  <2>5. d \in connect_destination(e(18), IPV6, address(18))
    BY <1>4, <1>8, Zenon DEF read_address
  <2>6. FamilyOf(address(18)) = IPV6
    BY <1>1, <1>4, <1>8, Zenon DEF FamilyOf
  <2> HIDE DEF e, address
  <2> QED
    BY <1>3, <1>6, <2>2, <2>3, <2>4, <2>5, <2>6, Connecting
<1>9. CASE c.m_address_type = DOMAIN_NAME
  <2> DEFINE m == c.m_domain_name_length
  <2>1. /\ AddressLength = 1 + m + 2
        /\ WantedDestinations =
             {Resolved4(SubSeq(ConnectRequest, 6, 4 + AddressLength)),
              Resolved6(SubSeq(ConnectRequest, 6, 4 + AddressLength))}
        /\ AddressStart = GreetingLength + 5
    BY <1>1, <1>2, <1>9, AddressByName
  <2>2. /\ c.needed \in 0 .. n - AddressStart /\ Parsing(e(c.needed), n)
        /\ address(c.needed) \in Bytes
        /\ address(c.needed) = SubSeq(ConnectRequest, 5 + 1, 5 + c.needed)
        /\ 5 + c.needed = 4 + AddressLength
    <3>1. m \in Nat
      BY <1>5, Zenon
    <3> HIDE DEF m
    <3>2. AddressLength \in Nat /\ 5 \in {4, 5}
      BY <2>1, <3>1
    <3> QED
      BY <2>1, <3>2, AddressTaken
  <2>3. c.needed = m + 2 /\ 5 + 1 = 6
    <3> DEFINE k == c.needed
    <3>1. m \in Nat /\ k \in Nat /\ 5 + k = 4 + AddressLength
      BY <1>5, <2>2, Zenon
    <3> HIDE DEF m, k
    <3>2. k = m + 2
      BY <2>1, <3>1
    <3> QED
      BY <3>2 DEF k
  <2>4. /\ Resolved4(address(m + 2)) \in Destinations
        /\ Resolved4(address(m + 2)) \in WantedDestinations
        /\ Resolved6(address(m + 2)) \in Destinations
        /\ Resolved6(address(m + 2)) \in WantedDestinations
    BY <2>1, <2>2, <2>3 DEF Destinations
  <2>5. \/ d = send_fail_message(e(m + 2), 4)
        \/ d \in connect_destination(e(m + 2), IPV4, Resolved4(address(m + 2)))
        \/ d \in connect_destination(e(m + 2), IPV6, Resolved6(address(m + 2)))
    BY <1>4, <1>9, Zenon DEF read_address
  <2>6. /\ FamilyOf(Resolved4(address(m + 2))) = IPV4
        /\ FamilyOf(Resolved6(address(m + 2))) = IPV6
    BY <1>1, <1>9 DEF FamilyOf, Resolved4, Resolved6
  <2> HIDE DEF e, address, m
  <2>7. /\ e(m + 2) \in Sessions /\ e(m + 2).m_state = "READING_ADDRESS"
        /\ ~e(m + 2).m_is_failed /\ Parsing(e(m + 2), n)
    BY <1>6, <2>2, <2>3
  <2>8. MethodsAreGood /\ Len(ConnectRequest) >= 4
    BY <1>1 DEF Asked
  <2>9. CASE d = send_fail_message(e(m + 2), 4)
    BY <1>3, <2>7, <2>8, <2>9, Refused
  <2>10. CASE d \in connect_destination(e(m + 2), IPV4, Resolved4(address(m + 2)))
    BY <1>3, <2>4, <2>7, <2>6, <2>10, Connecting
  <2>11. CASE d \in connect_destination(e(m + 2), IPV6, Resolved6(address(m + 2)))
    BY <1>3, <2>4, <2>7, <2>6, <2>11, Connecting
  <2> QED
    BY <2>5, <2>9, <2>10, <2>11
<1> QED
  BY <1>1, <1>7, <1>8, <1>9

\* A Session that waits for bytes it does not have asks the kernel for them.
LEMMA Waiting ==
  ASSUME NEW n, NEW c \in Sessions, ~c.m_is_failed, c.m_state # "PROXYING_REQUESTS",
         NEW r \in {<<>>, <<5, 0>>}, Reads(c, n, r), Len(c.m_read_buffer) < c.needed
  PROVE  Sound([c EXCEPT !.request = "read"], n, r)
<1> DEFINE d == [c EXCEPT !.request = "read"]
<1>1. c.m_is_failed = FALSE
  BY DEF Sessions
<1>2. d \in Sessions
  BY DEF Sessions
<1>3. /\ d.request = "read" /\ d.m_is_failed = FALSE
      /\ d.m_state = c.m_state /\ d.m_read_buffer = c.m_read_buffer /\ d.needed = c.needed
      /\ d.m_auth_methods_count = c.m_auth_methods_count
      /\ d.m_address_type = c.m_address_type
      /\ d.m_domain_name_length = c.m_domain_name_length
  BY <1>1 DEF Sessions
<1> HIDE DEF d
<1>4. Reads(d, n, r)
  BY <1>3 DEF Reads, ReadsGreeting, ReadsMethods, ReadsRequest, ReadsNameLength,
              ReadsAddress, Holds
<1>5. Said(d, r) = r
  BY <1>3, Beginnings DEF Said
<1>6. Fits(Said(d, r), d.destination)
  <2>1. r = <<>> \/ GreetingIsGood
    BY Zenon DEF Reads, ReadsGreeting, ReadsMethods, ReadsRequest, ReadsNameLength, ReadsAddress,
           Asked, MethodsAreGood
  <2> QED
    BY <1>5, <2>1, Beginnings DEF Fits
<1> QED
  BY <1>2, <1>3, <1>4, <1>6 DEF Sound, d

LEMMA ReadOrHandled ==
  ASSUME NEW n, NEW c \in Sessions, ~c.m_is_failed, c.m_state # "PROXYING_REQUESTS",
         NEW r \in {<<>>, <<5, 0>>}, Reads(c, n, r),
         NEW handled, NEW d \in read_some_from_client(c, handled),
         c.needed <= Len(c.m_read_buffer) => \A e \in handled : Sound(e, n, r)
  PROVE  Sound(d, n, r)
<1>1. c.needed \in Nat /\ Len(c.m_read_buffer) \in Nat
  BY DEF Sessions, Bytes
<1>2. CASE Len(c.m_read_buffer) >= c.needed
  <2>1. d \in handled
    BY <1>2 DEF read_some_from_client
  <2>2. c.needed <= Len(c.m_read_buffer)
    BY <1>2
  <2> QED
    BY <2>1, <2>2
<1>3. CASE ~(Len(c.m_read_buffer) >= c.needed)
  <2>1. d = [c EXCEPT !.request = "read"]
    BY <1>3 DEF read_some_from_client
  <2>2. Len(c.m_read_buffer) < c.needed
    BY <1>1, <1>3
  <2> QED
    BY <2>1, <2>2, Waiting
<1> QED
  BY <1>2, <1>3

LEMMA NameLengthIsRead ==
  ASSUME stream \in Bytes, NEW n \in 0 .. Len(stream), NEW c \in Sessions, ~c.m_is_failed,
         ReadsNameLength(c, n, <<5, 0>>), c.needed <= Len(c.m_read_buffer),
         NEW d \in read_domain_name_length(c)
  PROVE  Sound(d, n, <<5, 0>>)
<1> DEFINE G == GreetingLength
           b == Byte(c, 0)
           e == consume_bytes_from_read_buffer(c, 1)
           f == wait_for([e EXCEPT !.m_domain_name_length = b, !.m_state = "READING_ADDRESS"], b + 2)
<1>1. /\ Asked /\ ConnectRequest[4] = DOMAIN_NAME /\ c.m_address_type = DOMAIN_NAME
      /\ Holds(c, G + 4, n) /\ c.needed = 1 /\ G + 4 \in 0 .. n
  BY DEF ReadsNameLength, Holds
<1>2. G \in Nat
  BY <1>1, GreetingHasLength DEF Asked, MethodsAreGood
<1>3. Len(c.m_read_buffer) = n - (G + 4)
  BY <1>1, HeldBytes
<1>4. 1 <= n - (G + 4)
  BY <1>1, <1>3
<1> HIDE DEF G
<1>5. n \in Nat /\ Len(stream) \in Nat /\ n <= Len(stream)
  BY DEF Bytes
<1>6. /\ 0 \in 0 .. n - (G + 4) - 1 /\ 1 \in 0 .. n - (G + 4) /\ G \in 0 .. Len(stream)
      /\ G + 4 + 0 + 1 = G + 5 /\ G + 4 + 1 = G + 5 /\ 5 \in 1 .. Len(stream) - G
      /\ Len(stream) - G > 4
  BY <1>2, <1>4, <1>5
<1>7. b = stream[G + 4 + 0 + 1] /\ b \in 0 .. 255
  BY <1>1, <1>6, HeldBytes
<1>8. ConnectRequest[5] = stream[G + 5] /\ Len(ConnectRequest) = Len(stream) - G
  BY <1>6, RequestBytes DEF G
<1>9. b = ConnectRequest[5]
  BY <1>6, <1>7, <1>8
<1>10. /\ AddressStart = G + 5 /\ AddressLength = 1 + b + 2
  BY <1>1, <1>2, <1>6, <1>8, <1>9, AddressByName DEF G
<1>11. /\ e \in Sessions /\ Holds(e, G + 4 + 1, n) /\ e.m_address_type = c.m_address_type
       /\ e.m_is_failed = c.m_is_failed
  BY <1>1, <1>6, Consumed
<1> HIDE DEF b, e
<1>12. b \in 0 .. 255 /\ b \in Nat /\ b + 2 \in Nat
  <2>1. b \in 0 .. 255
    BY <1>7, Zenon
  <2> QED
    BY <2>1
<1>13. /\ f \in Sessions /\ ~f.m_is_failed /\ f.m_state = "READING_ADDRESS" /\ f.needed = b + 2
       /\ f.m_domain_name_length = b /\ f.m_address_type = DOMAIN_NAME
       /\ f.m_read_buffer = e.m_read_buffer
  <2>1. e.m_is_failed = FALSE
    BY <1>11 DEF Sessions
  <2>2. e \in Sessions
    BY <1>11
  <2>3. f = [e EXCEPT !.m_domain_name_length = b, !.m_state = "READING_ADDRESS", !.needed = b + 2]
    BY <1>11 DEF wait_for, Sessions
  <2> HIDE DEF f
  <2>4. f \in Sessions
    BY <1>12, <2>2, <2>3, StateNames, WaitsForName, Zenon
  <2>5. /\ f.m_is_failed = FALSE /\ f.m_state = "READING_ADDRESS" /\ f.needed = b + 2
        /\ f.m_domain_name_length = b /\ f.m_address_type = e.m_address_type
        /\ f.m_read_buffer = e.m_read_buffer
    BY <1>11, <2>1, <2>3 DEF Sessions
  <2> QED
    BY <1>1, <1>11, <2>4, <2>5
<1> HIDE DEF f
<1>14. AddressStart + f.needed = RequestEnd
  <2>1. RequestEnd = G + 4 + (1 + b + 2)
    BY <1>10 DEF RequestEnd, G
  <2>2. G + 5 + (b + 2) = G + 4 + (1 + b + 2)
    BY <1>2, <1>12
  <2> QED
    BY <1>10, <1>13, <2>1, <2>2
<1>15. ReadsAddress(f, n, <<5, 0>>)
  <2>1. Holds(f, AddressStart, n)
    BY <1>6, <1>10, <1>11, <1>13 DEF Holds
  <2> QED
    BY <1>1, <1>6, <1>8, <1>9, <1>13, <1>14, <2>1 DEF ReadsAddress
<1>16. d \in read_some_from_client(f, read_address(f))
  BY DEF read_domain_name_length, f, e, b
<1>17. f.needed <= Len(f.m_read_buffer) => \A g \in read_address(f) : Sound(g, n, <<5, 0>>)
  BY <1>13, <1>15, AddressIsRead
<1>18. Reads(f, n, <<5, 0>>)
  BY <1>13, <1>15 DEF Reads
<1> QED
  BY <1>13, <1>16, <1>17, <1>18, ReadOrHandled

LEMMA FirstThree ==
  ASSUME NEW s \in Seq(0 .. 255), Len(s) >= 3
  PROVE  (SubSeq(s, 1, 3) = <<5, 1, 0>>) <=> (s[1] = 5 /\ s[2] = 1 /\ s[3] = 0)
<1>1. /\ SubSeq(s, 1, 3) \in Seq(0 .. 255) /\ Len(SubSeq(s, 1, 3)) = 3
      /\ SubSeq(s, 1, 3)[1] = s[1] /\ SubSeq(s, 1, 3)[2] = s[2] /\ SubSeq(s, 1, 3)[3] = s[3]
  <2>1. 3 \in 0 .. Len(s) /\ 1 \in 1 .. 3 /\ 2 \in 1 .. 3 /\ 3 \in 1 .. 3
    OBVIOUS
  <2>2. /\ SubSeq(s, 1, 3) \in Seq(0 .. 255) /\ Len(SubSeq(s, 1, 3)) = 3
        /\ \A i \in 1 .. 3 : SubSeq(s, 1, 3)[i] = s[i]
    BY <2>1, FirstElements, ZenonT(60)
  <2> QED
    BY <2>1, <2>2
<1>2. /\ <<5, 1, 0>> \in Seq(0 .. 255) /\ Len(<<5, 1, 0>>) = 3
      /\ <<5, 1, 0>>[1] = 5 /\ <<5, 1, 0>>[2] = 1 /\ <<5, 1, 0>>[3] = 0
  OBVIOUS
<1>3. ASSUME s[1] = 5, s[2] = 1, s[3] = 0 PROVE SubSeq(s, 1, 3) = <<5, 1, 0>>
  <2>1. ASSUME NEW i \in 1 .. 3 PROVE SubSeq(s, 1, 3)[i] = <<5, 1, 0>>[i]
    <3>1. i = 1 \/ i = 2 \/ i = 3
      OBVIOUS
    <3> QED
      BY <1>1, <1>2, <1>3, <3>1
  <2> QED
    BY <1>1, <1>2, <2>1, SameElements, ZenonT(60)
<1> QED
  BY <1>1, <1>2, <1>3

LEMMA RequestIsRead ==
  ASSUME stream \in Bytes, NEW n \in 0 .. Len(stream), NEW c \in Sessions, ~c.m_is_failed,
         c.m_state # "PROXYING_REQUESTS",
         ReadsRequest(c, n, <<5, 0>>), c.needed <= Len(c.m_read_buffer),
         NEW d \in read_client_connection_request(c)
  PROVE  Sound(d, n, <<5, 0>>)
<1> DEFINE G == GreetingLength
           type == Byte(c, 3)
           e == consume_bytes_from_read_buffer(c, 4)
           f(state, k) == wait_for([[e EXCEPT !.m_address_type = type] EXCEPT !.m_state = state], k)
<1>1. /\ MethodsAreGood /\ Holds(c, G, n) /\ c.needed = 4 /\ G \in 0 .. n
  BY DEF ReadsRequest, Holds
<1>2. G \in Nat /\ GreetingLength = G
  BY <1>1, GreetingHasLength DEF MethodsAreGood
<1>3. Len(c.m_read_buffer) = n - G
  BY <1>1, HeldBytes
<1>4. 4 <= n - G
  BY <1>1, <1>3
<1> HIDE DEF G
<1>5. n \in Nat /\ Len(stream) \in Nat /\ n <= Len(stream)
  BY DEF Bytes
<1>6. /\ 0 \in 0 .. n - G - 1 /\ 1 \in 0 .. n - G - 1 /\ 2 \in 0 .. n - G - 1
      /\ 3 \in 0 .. n - G - 1 /\ 4 \in 0 .. n - G /\ G \in 0 .. Len(stream)
      /\ G + 0 + 1 = G + 1 /\ G + 1 + 1 = G + 2 /\ G + 2 + 1 = G + 3 /\ G + 3 + 1 = G + 4
      /\ 1 \in 1 .. Len(stream) - G /\ 2 \in 1 .. Len(stream) - G
      /\ 3 \in 1 .. Len(stream) - G /\ 4 \in 1 .. Len(stream) - G
      /\ Len(stream) - G >= 4
  BY <1>2, <1>4, <1>5
<1>7. /\ ConnectRequest \in Bytes /\ Len(ConnectRequest) = Len(stream) - G
      /\ Len(ConnectRequest) >= 4
      /\ ConnectRequest[1] = stream[G + 1] /\ ConnectRequest[2] = stream[G + 2]
      /\ ConnectRequest[3] = stream[G + 3] /\ ConnectRequest[4] = stream[G + 4]
  BY <1>2, <1>6, RequestBytes, SMTT(60)
<1>8. /\ Byte(c, 0) = ConnectRequest[1] /\ Byte(c, 1) = ConnectRequest[2]
      /\ Byte(c, 2) = ConnectRequest[3] /\ type = ConnectRequest[4] /\ type \in 0 .. 255
  BY <1>1, <1>6, <1>7, HeldBytes, SMTT(60)
<1>9. (SubSeq(ConnectRequest, 1, 3) = <<5, 1, 0>>)
        <=> (Byte(c, 0) = 5 /\ Byte(c, 1) = 1 /\ Byte(c, 2) = 0)
  <2>1. ConnectRequest \in Seq(0 .. 255) /\ Len(ConnectRequest) >= 3
    BY <1>5, <1>6, <1>7 DEF Bytes
  <2> QED
    BY <1>8, <2>1, FirstThree
<1>10. /\ e \in Sessions /\ Holds(e, G + 4, n) /\ e.m_is_failed = c.m_is_failed
       /\ e.m_state = c.m_state
  BY <1>1, <1>6, Consumed
<1>11. e \in Sessions /\ e.m_is_failed = FALSE /\ type \in 0 .. 255
  BY <1>8, <1>10 DEF Sessions
<1>12. CASE Byte(c, 0) # 5 \/ Byte(c, 1) # 1 \/ Byte(c, 2) # 0
  <2>1. d = send_fail_message(c, 7)
    BY <1>12, Zenon DEF read_client_connection_request
  <2>2. 7 \in RefusalCodes
    BY <1>9, <1>12 DEF RefusalCodes
  <2> QED
    BY <1>1, <1>7, <2>1, <2>2, Refused
<1>13. CASE Byte(c, 0) = 5 /\ Byte(c, 1) = 1 /\ Byte(c, 2) = 0
  <2>1. Asked
    BY <1>1, <1>7, <1>9, <1>13 DEF Asked
  <2>2. /\ type = IPV4 =>
             d \in read_some_from_client(f("READING_ADDRESS", 6), read_address(f("READING_ADDRESS", 6)))
        /\ type = IPV6 =>
             d \in read_some_from_client(f("READING_ADDRESS", 18), read_address(f("READING_ADDRESS", 18)))
        /\ type = DOMAIN_NAME =>
             d \in read_some_from_client(f("READING_DOMAIN_NAME_LENGTH", 1),
                                         read_domain_name_length(f("READING_DOMAIN_NAME_LENGTH", 1)))
        /\ type \notin AddressTypes => d = send_fail_message(e, 8)
    <3>1. IPV4 # DOMAIN_NAME /\ IPV6 # DOMAIN_NAME /\ IPV4 # IPV6
      BY DEF IPV4, IPV6, DOMAIN_NAME
    <3> QED
      BY <1>13, <3>1, Zenon DEF read_client_connection_request, AddressTypes
  <2> HIDE DEF e, type
  <2>3. ASSUME NEW state \in {"READING_ADDRESS", "READING_DOMAIN_NAME_LENGTH"}, NEW k \in Nat
        PROVE  /\ f(state, k) \in Sessions /\ ~f(state, k).m_is_failed
               /\ f(state, k).m_state = state /\ f(state, k).needed = k
               /\ f(state, k).m_address_type = type /\ Holds(f(state, k), G + 4, n)
    <3> DEFINE g == f(state, k)
    <3>1. g = [e EXCEPT !.m_address_type = type, !.m_state = state, !.needed = k]
      BY <1>11 DEF wait_for, Sessions
    <3> HIDE DEF f, g
    <3>a. state \in States
      BY StateNames
    <3>b. type \in 0 .. 255 /\ e \in Sessions
      BY <1>8, <1>11
    <3>2. g \in Sessions
      BY <3>1, <3>a, <3>b, WaitsForAddress, Zenon
    <3>3. /\ g.m_is_failed = FALSE /\ g.m_state = state /\ g.needed = k
          /\ g.m_address_type = type /\ g.m_read_buffer = e.m_read_buffer
      BY <1>11, <3>1 DEF Sessions
    <3>4. Holds(g, G + 4, n)
      BY <1>10, <3>3 DEF Holds
    <3> QED
      BY <3>2, <3>3, <3>4 DEF g
  <2>4. CASE type = IPV4
    <3> DEFINE g == f("READING_ADDRESS", 6)
    <3>1. /\ g \in Sessions /\ ~g.m_is_failed /\ g.m_state = "READING_ADDRESS" /\ g.needed = 6
          /\ g.m_address_type = type /\ Holds(g, G + 4, n)
      BY <2>3
    <3>2. d \in read_some_from_client(g, read_address(g))
      BY <2>2, <2>4
    <3> HIDE DEF f, g
    <3>3. AddressLength = 6 /\ AddressStart = G + 4
      BY <1>2, <1>8, <2>4, Address4
    <3>4. AddressStart + g.needed = RequestEnd
      BY <1>2, <3>1, <3>3 DEF RequestEnd
    <3>5. ReadsAddress(g, n, <<5, 0>>)
      <4>1. IPV4 # DOMAIN_NAME
        BY DEF IPV4, DOMAIN_NAME
      <4> QED
        BY <1>8, <2>1, <2>4, <3>1, <3>3, <3>4, <4>1 DEF ReadsAddress
    <3>6. g.needed <= Len(g.m_read_buffer) => \A x \in read_address(g) : Sound(x, n, <<5, 0>>)
      BY <3>1, <3>5, AddressIsRead
    <3>7. Reads(g, n, <<5, 0>>)
      BY <3>1, <3>5 DEF Reads
    <3> QED
      BY <3>1, <3>2, <3>6, <3>7, ReadOrHandled
  <2>5. CASE type = IPV6
    <3> DEFINE g == f("READING_ADDRESS", 18)
    <3>1. /\ g \in Sessions /\ ~g.m_is_failed /\ g.m_state = "READING_ADDRESS" /\ g.needed = 18
          /\ g.m_address_type = type /\ Holds(g, G + 4, n)
      BY <2>3
    <3>2. d \in read_some_from_client(g, read_address(g))
      BY <2>2, <2>5
    <3> HIDE DEF f, g
    <3>3. AddressLength = 18 /\ AddressStart = G + 4
      BY <1>2, <1>8, <2>5, Address6
    <3>4. AddressStart + g.needed = RequestEnd
      BY <1>2, <3>1, <3>3 DEF RequestEnd
    <3>5. ReadsAddress(g, n, <<5, 0>>)
      <4>1. IPV6 # DOMAIN_NAME
        BY DEF IPV6, DOMAIN_NAME
      <4> QED
        BY <1>8, <2>1, <2>5, <3>1, <3>3, <3>4, <4>1 DEF ReadsAddress
    <3>6. g.needed <= Len(g.m_read_buffer) => \A x \in read_address(g) : Sound(x, n, <<5, 0>>)
      BY <3>1, <3>5, AddressIsRead
    <3>7. Reads(g, n, <<5, 0>>)
      BY <3>1, <3>5 DEF Reads
    <3> QED
      BY <3>1, <3>2, <3>6, <3>7, ReadOrHandled
  <2>6. CASE type = DOMAIN_NAME
    <3> DEFINE g == f("READING_DOMAIN_NAME_LENGTH", 1)
    <3>1. /\ g \in Sessions /\ ~g.m_is_failed /\ g.m_state = "READING_DOMAIN_NAME_LENGTH"
          /\ g.needed = 1 /\ g.m_address_type = type /\ Holds(g, G + 4, n)
      BY <2>3
    <3>2. d \in read_some_from_client(g, read_domain_name_length(g))
      BY <2>2, <2>6
    <3> HIDE DEF f, g
    <3>3. ReadsNameLength(g, n, <<5, 0>>)
      BY <1>2, <1>8, <2>1, <2>6, <3>1 DEF ReadsNameLength
    <3>4. g.needed <= Len(g.m_read_buffer)
            => \A x \in read_domain_name_length(g) : Sound(x, n, <<5, 0>>)
      BY <3>1, <3>3, NameLengthIsRead
    <3>5. Reads(g, n, <<5, 0>>)
      BY <3>1, <3>3 DEF Reads
    <3> QED
      BY <3>1, <3>2, <3>4, <3>5, ReadOrHandled
  <2>7. CASE type \notin AddressTypes
    <3>1. d = send_fail_message(e, 8)
      BY <2>2, <2>7
    <3>2. 8 \in RefusalCodes
      BY <1>8, <2>1, <2>7 DEF RefusalCodes, Asked, AddressTypes
    <3> QED
      BY <1>1, <1>7, <1>10, <3>1, <3>2, Refused
  <2> QED
    BY <2>4, <2>5, <2>6, <2>7 DEF AddressTypes
<1> QED
  BY <1>12, <1>13

LEMMA MethodsAreRead ==
  ASSUME stream \in Bytes, NEW n \in 0 .. Len(stream), NEW c \in Sessions, ~c.m_is_failed,
         c.m_state = "READING_AUTH_METHODS",
         ReadsMethods(c, n, <<>>), c.needed <= Len(c.m_read_buffer),
         NEW d \in read_auth_methods(c)
  PROVE  Sound(d, n, <<>>)
<1> DEFINE m == c.m_auth_methods_count
           good == NO_AUTH \in ToSet(SubSeq(c.m_read_buffer, 1, m))
           chosen == IF good THEN c ELSE fail_delayed(c)
           e == consume_bytes_from_read_buffer(chosen, m)
<1>1. GreetingIsGood /\ Holds(c, 2, n) /\ m = stream[2] /\ c.needed = m /\ 2 \in 0 .. n
  BY DEF ReadsMethods, Holds
<1>2. stream[2] \in 1 .. 255 /\ GreetingLength = stream[2] + 2
  BY <1>1, GreetingHasLength
<1>3. Len(c.m_read_buffer) = n - 2
  BY <1>1, HeldBytes
<1>4. m <= n - 2
  BY <1>1, <1>3
<1>5. m \in 1 .. 255 /\ GreetingLength = m + 2
  BY <1>1, <1>2, Zenon
<1>6. d = write_to_client(e, <<5, 0>>)
  BY DEF read_auth_methods
<1>7. (good => chosen = c) /\ (~good => chosen = fail_delayed(c))
  BY Zenon
<1>8. c.m_is_failed = FALSE
  BY DEF Sessions
<1>9. /\ chosen \in Sessions /\ chosen.m_read_buffer = c.m_read_buffer
      /\ chosen.m_state = c.m_state
      /\ good => chosen.m_is_failed = FALSE
      /\ ~good => chosen.m_is_failed = TRUE
  <2>1. /\ fail_delayed(c) \in Sessions /\ fail_delayed(c).m_read_buffer = c.m_read_buffer
        /\ fail_delayed(c).m_state = c.m_state /\ fail_delayed(c).m_is_failed = TRUE
    BY ZenonT(60) DEF fail_delayed, Sessions
  <2> QED
    BY <1>7, <1>8, <2>1, Zenon
<1> HIDE DEF m
<1>10. m \in 0 .. n - 2 /\ 2 + m = GreetingLength /\ 2 + 1 = 3
  BY <1>4, <1>5
<1>11. SubSeq(c.m_read_buffer, 1, m) = SubSeq(stream, 3, GreetingLength)
  <2>1. SubSeq(c.m_read_buffer, 1, m) = SubSeq(stream, 2 + 1, 2 + m)
    BY <1>1, <1>10, HeldBytes
  <2> QED
    BY <1>10, <2>1
<1>12. good <=> MethodsAreGood
  BY <1>1, <1>11 DEF MethodsAreGood
<1> HIDE DEF good, chosen
<1>13. Holds(chosen, 2, n)
  BY <1>1, <1>9 DEF Holds
<1>14. /\ e \in Sessions /\ Holds(e, GreetingLength, n) /\ e.m_state = chosen.m_state
       /\ e.m_is_failed = chosen.m_is_failed
  BY <1>1, <1>9, <1>10, <1>13, Consumed
<1> HIDE DEF e
<1>15. d = [e EXCEPT !.m_write_client_buffer = <<5, 0>>, !.request = "write"]
  BY <1>6, <1>14 DEF write_to_client, Sessions
<1>16. d \in Sessions
  BY <1>14, <1>15, Beginnings, WritesBytes
<1>17. /\ d.request = "write" /\ d.m_write_client_buffer = <<5, 0>>
       /\ d.m_state = "READING_AUTH_METHODS" /\ d.m_read_buffer = e.m_read_buffer
  BY <1>9, <1>14, <1>15 DEF Sessions
<1>18. (good => d.m_is_failed = FALSE) /\ (~good => d.m_is_failed = TRUE)
  BY <1>9, <1>14, <1>15 DEF Sessions
<1>19. Said(d, <<>>) = <<5, 0>>
  BY <1>17, Beginnings DEF Said
<1>20. Fits(Said(d, <<>>), d.destination)
  BY <1>1, <1>19, Beginnings DEF Fits
<1>21. ~d.m_is_failed => AnswersWhole(d, n, <<>>)
  BY <1>12, <1>14, <1>17, <1>18, Beginnings DEF AnswersWhole, Holds
<1> QED
  BY <1>16, <1>17, <1>20, <1>21 DEF Sound

LEMMA GreetingIsRead ==
  ASSUME stream \in Bytes, NEW n \in 0 .. Len(stream), NEW c \in Sessions, ~c.m_is_failed,
         c.m_state = "READING_CLIENT_GREETING", c.request = "none",
         ReadsGreeting(c, n, <<>>), c.needed <= Len(c.m_read_buffer),
         NEW d \in read_client_greeting(c)
  PROVE  Sound(d, n, <<>>)
<1> DEFINE m == Byte(c, 1)
           e == consume_bytes_from_read_buffer(c, 2)
           f == wait_for([e EXCEPT !.m_auth_methods_count = m, !.m_state = "READING_AUTH_METHODS"], m)
<1>1. Holds(c, 0, n) /\ c.needed = 3 /\ 0 \in 0 .. n
  BY DEF ReadsGreeting, Holds
<1>2. Len(c.m_read_buffer) = n - 0
  BY <1>1, HeldBytes
<1>3. 3 <= n - 0
  BY <1>1, <1>2
<1>4. n \in Nat /\ Len(stream) \in Nat /\ n <= Len(stream)
  BY DEF Bytes
<1>5. /\ 0 \in 0 .. n - 0 - 1 /\ 1 \in 0 .. n - 0 - 1 /\ 2 \in 0 .. n - 0
      /\ 0 + 0 + 1 = 1 /\ 0 + 1 + 1 = 2 /\ 0 + 2 = 2 /\ Len(stream) >= 3
  BY <1>3, <1>4
<1>6. Byte(c, 0) = stream[1] /\ m = stream[2] /\ m \in 0 .. 255
  BY <1>1, <1>5, HeldBytes
<1>7. e \in Sessions /\ Holds(e, 2, n) /\ e.m_is_failed = c.m_is_failed
  BY <1>1, <1>5, Consumed
<1>8. e \in Sessions /\ e.m_is_failed = FALSE /\ c.m_is_failed = FALSE
  BY <1>7 DEF Sessions
<1>9. CASE Byte(c, 0) # 5 \/ m = 0
  <2>1. d = fail_delayed(c)
    BY <1>9, Zenon DEF read_client_greeting
  <2>2. /\ d \in Sessions /\ d.request = "none" /\ d.m_state = "READING_CLIENT_GREETING"
    <3>1. d = [c EXCEPT !.m_is_failed = TRUE]
      BY <2>1 DEF fail_delayed
    <3>2. d \in Sessions
      BY <3>1, Fails
    <3>3. d.request = c.request /\ d.m_state = c.m_state
      BY <3>1 DEF Sessions
    <3> QED
      BY <3>2, <3>3
  <2>3. Said(d, <<>>) = <<>>
    BY <2>2, Beginnings DEF Said
  <2>4. Fits(Said(d, <<>>), d.destination)
    BY <2>3, Beginnings DEF Fits
  <2> QED
    BY <2>2, <2>4 DEF Sound
<1>10. CASE Byte(c, 0) = 5 /\ m # 0
  <2>1. GreetingIsGood
    BY <1>5, <1>6, <1>10 DEF GreetingIsGood
  <2>2. d \in read_some_from_client(f, read_auth_methods(f))
    BY <1>10, Zenon DEF read_client_greeting
  <2>3. m \in 0 .. 255 /\ m \in Nat
    <3>1. m \in 0 .. 255
      BY <1>6, Zenon
    <3> HIDE DEF m
    <3> QED
      BY <3>1
  <2> HIDE DEF m, e
  <2>4. f = [e EXCEPT !.m_auth_methods_count = m, !.m_state = "READING_AUTH_METHODS", !.needed = m]
    BY <1>8 DEF wait_for, Sessions
  <2> HIDE DEF f
  <2>5. f \in Sessions
    BY <1>8, <2>3, <2>4, StateNames, WaitsForMethods, Zenon
  <2>6. /\ f.m_is_failed = FALSE /\ f.m_state = "READING_AUTH_METHODS" /\ f.needed = m
        /\ f.m_auth_methods_count = m /\ f.m_read_buffer = e.m_read_buffer
    BY <1>8, <2>4 DEF Sessions
  <2>7. ReadsMethods(f, n, <<>>)
    BY <1>6, <1>7, <2>1, <2>6 DEF ReadsMethods, Holds
  <2>8. f.needed <= Len(f.m_read_buffer) => \A x \in read_auth_methods(f) : Sound(x, n, <<>>)
    BY <2>5, <2>6, <2>7, MethodsAreRead
  <2>9. Reads(f, n, <<>>)
    BY <2>6, <2>7 DEF Reads
  <2> QED
    BY <2>2, <2>5, <2>6, <2>8, <2>9, ReadOrHandled
<1> QED
  BY <1>9, <1>10

\* Whatever a Session reads, its reader keeps it sound.
LEMMA ReaderIsSound ==
  ASSUME stream \in Bytes, NEW n \in 0 .. Len(stream), NEW c \in Sessions, ~c.m_is_failed,
         c.request = "none", NEW r, Reads(c, n, r), c.needed <= Len(c.m_read_buffer),
         NEW d \in Reader(c)
  PROVE  Sound(d, n, r)
<1>1. CASE c.m_state = "READING_CLIENT_GREETING"
  <2>1. d \in read_client_greeting(c)
    BY <1>1, Zenon DEF Reader
  <2>2. ReadsGreeting(c, n, r) /\ r = <<>>
    BY <1>1 DEF Reads, ReadsGreeting
  <2> QED
    BY <1>1, <2>1, <2>2, GreetingIsRead
<1>2. CASE c.m_state = "READING_AUTH_METHODS"
  <2>1. d \in read_auth_methods(c)
    BY <1>2, Zenon DEF Reader
  <2>2. ReadsMethods(c, n, r) /\ r = <<>>
    BY <1>2 DEF Reads, ReadsMethods
  <2> QED
    BY <1>2, <2>1, <2>2, MethodsAreRead
<1>3. CASE c.m_state = "READING_CLIENT_CONNECTION_REQUEST"
  <2>1. d \in read_client_connection_request(c)
    BY <1>3, Zenon DEF Reader
  <2>2. ReadsRequest(c, n, r) /\ r = <<5, 0>>
    BY <1>3 DEF Reads, ReadsRequest
  <2> QED
    BY <1>3, <2>1, <2>2, RequestIsRead
<1>4. CASE c.m_state = "READING_DOMAIN_NAME_LENGTH"
  <2>1. d \in read_domain_name_length(c)
    BY <1>4, Zenon DEF Reader
  <2>2. ReadsNameLength(c, n, r) /\ r = <<5, 0>>
    BY <1>4 DEF Reads, ReadsNameLength
  <2> QED
    BY <2>1, <2>2, NameLengthIsRead
<1>5. CASE c.m_state = "READING_ADDRESS"
  <2>1. d \in read_address(c)
    BY <1>5, Zenon DEF Reader
  <2>2. ReadsAddress(c, n, r) /\ r = <<5, 0>>
    BY <1>5 DEF Reads, ReadsAddress
  <2> QED
    BY <1>5, <2>1, <2>2, AddressIsRead
<1> QED
  BY <1>1, <1>2, <1>3, <1>4, <1>5 DEF Reads

-----------------------------------------------------------------------------
(***************************************************************************)
(* The invariant of the state.                                             *)
(***************************************************************************)

LEMMA StreamBytes ==
  ASSUME HInv
  PROVE  stream \in Bytes
BY StreamsAssumption DEF HInv, Bytes

\* The Session of the state, and the one its handlers start from.
LEMMA CurrentSession ==
  ASSUME HInv
  PROVE  /\ Now \in Sessions /\ Now.request = request
         /\ Now.m_state = m_state /\ Now.m_read_buffer = m_read_buffer /\ Now.needed = needed
         /\ Now.m_write_client_buffer = m_write_client_buffer /\ Now.destination = destination
         /\ Now.m_address_type = m_address_type
         /\ Now.m_auth_methods_count = m_auth_methods_count
         /\ Now.m_domain_name_length = m_domain_name_length
         /\ Now.m_is_failed = m_is_failed /\ m_is_failed \in BOOLEAN
         /\ Current \in Sessions /\ Current.request = "none"
         /\ Current.m_state = m_state /\ Current.m_read_buffer = m_read_buffer
         /\ Current.needed = needed /\ Current.destination = destination
         /\ Current.m_write_client_buffer = m_write_client_buffer
         /\ Current.m_address_type = m_address_type
         /\ Current.m_auth_methods_count = m_auth_methods_count
         /\ Current.m_domain_name_length = m_domain_name_length
         /\ Current.m_is_failed = m_is_failed
<1>1. Now \in Sessions
  BY DEF HInv, Sound
<1>2. Now = [m_state |-> m_state, m_read_buffer |-> m_read_buffer, needed |-> needed,
             m_auth_methods_count |-> m_auth_methods_count, m_address_type |-> m_address_type,
             m_domain_name_length |-> m_domain_name_length, destination |-> destination,
             m_write_client_buffer |-> m_write_client_buffer, m_is_failed |-> m_is_failed,
             request |-> request]
  BY DEF Now, Current
<1>3. /\ Now.request = request
      /\ Now.m_state = m_state /\ Now.m_read_buffer = m_read_buffer /\ Now.needed = needed
      /\ Now.m_write_client_buffer = m_write_client_buffer /\ Now.destination = destination
      /\ Now.m_address_type = m_address_type
      /\ Now.m_auth_methods_count = m_auth_methods_count
      /\ Now.m_domain_name_length = m_domain_name_length
      /\ Now.m_is_failed = m_is_failed
  BY <1>2
<1>4. /\ m_state \in States /\ m_read_buffer \in Bytes /\ needed \in Nat
      /\ m_auth_methods_count \in 0 .. 255 /\ m_address_type \in 0 .. 255
      /\ m_domain_name_length \in 0 .. 255 /\ destination \in Destinations
      /\ m_write_client_buffer \in Bytes /\ m_is_failed \in BOOLEAN
  <2>1. /\ Now.m_state \in States /\ Now.m_read_buffer \in Bytes /\ Now.needed \in Nat
        /\ Now.m_auth_methods_count \in 0 .. 255 /\ Now.m_address_type \in 0 .. 255
        /\ Now.m_domain_name_length \in 0 .. 255 /\ Now.destination \in Destinations
        /\ Now.m_write_client_buffer \in Bytes /\ Now.m_is_failed \in BOOLEAN
    BY <1>1 DEF Sessions
  <2> QED
    BY <1>3, <2>1, Zenon
<1>5. Current \in Sessions
  BY <1>4 DEF Current, Sessions
<1>6. /\ Current.request = "none"
      /\ Current.m_state = m_state /\ Current.m_read_buffer = m_read_buffer
      /\ Current.needed = needed /\ Current.destination = destination
      /\ Current.m_write_client_buffer = m_write_client_buffer
      /\ Current.m_address_type = m_address_type
      /\ Current.m_auth_methods_count = m_auth_methods_count
      /\ Current.m_domain_name_length = m_domain_name_length
      /\ Current.m_is_failed = m_is_failed
  BY DEF Current
<1> QED
  BY <1>1, <1>3, <1>4, <1>5, <1>6

\* A step to a sound Session keeps the invariant.
LEMMA SoundStep ==
  ASSUME stream \in Streams, UNCHANGED stream, nread' \in 0 .. Len(stream), received' \in Bytes,
         NEW d, Sound(d, nread', received'), Become(d)
  PROVE  HInv'
<1>1. Now' = d
  <2>1. d \in Sessions
    BY DEF Sound
  <2>2. d = [m_state |-> d.m_state, m_read_buffer |-> d.m_read_buffer, needed |-> d.needed,
             m_auth_methods_count |-> d.m_auth_methods_count, m_address_type |-> d.m_address_type,
             m_domain_name_length |-> d.m_domain_name_length, destination |-> d.destination,
             m_write_client_buffer |-> d.m_write_client_buffer, m_is_failed |-> d.m_is_failed,
             request |-> d.request]
    BY <2>1 DEF Sessions
  <2>3. Now' = [m_state |-> m_state', m_read_buffer |-> m_read_buffer', needed |-> needed',
             m_auth_methods_count |-> m_auth_methods_count', m_address_type |-> m_address_type',
             m_domain_name_length |-> m_domain_name_length', destination |-> destination',
             m_write_client_buffer |-> m_write_client_buffer', m_is_failed |-> m_is_failed',
             request |-> request']
    BY DEF Now, Current
  <2> QED
    BY <2>2, <2>3, Zenon DEF Become
<1>2. /\ GreetingLength' = GreetingLength /\ ConnectRequest' = ConnectRequest
      /\ GreetingIsGood' = GreetingIsGood
  BY DEF GreetingLength, ConnectRequest, GreetingIsGood
<1>3. MethodsAreGood' = MethodsAreGood
  BY <1>2 DEF MethodsAreGood
<1>4. AddressLength' = AddressLength
  BY <1>2 DEF AddressLength
<1>5. WantedDestinations' = WantedDestinations
  BY <1>2, <1>4 DEF WantedDestinations, WantedAddress
<1>6. RefusalCodes' = RefusalCodes
  BY <1>2 DEF RefusalCodes
<1>7. Asked' = Asked /\ AddressStart' = AddressStart /\ RequestEnd' = RequestEnd
  BY <1>2, <1>3, <1>4 DEF Asked, AddressStart, RequestEnd
<1>8. \A a : FamilyOf(a)' = FamilyOf(a) /\ Success(a)' = Success(a)
  BY <1>2 DEF FamilyOf, Success
<1>9. Sound(Now, nread, received)'
  BY <1>1, <1>2, <1>3, <1>4, <1>5, <1>6, <1>7, <1>8
     DEF Sound, Fits, Said, Reads, ReadsGreeting, ReadsMethods, ReadsRequest, ReadsNameLength,
         ReadsAddress, Holds, Connects, Parsing, AnswersWhole
<1> QED
  BY <1>9 DEF HInv

-----------------------------------------------------------------------------
(***************************************************************************)
(* The completions.                                                        *)
(***************************************************************************)

LEMMA JoinsAssociate ==
  ASSUME NEW S, NEW s \in Seq(S), NEW t \in Seq(S), NEW u \in Seq(S)
  PROVE  (s \o t) \o u = s \o (t \o u)
<1> DEFINE a == s \o t
           b == t \o u
<1>1. /\ a \in Seq(S) /\ Len(a) = Len(s) + Len(t)
      /\ \A i \in 1 .. Len(s) : a[i] = s[i]
      /\ \A i \in 1 .. Len(t) : a[Len(s) + i] = t[i]
  BY JoinedElements
<1>2. /\ b \in Seq(S) /\ Len(b) = Len(t) + Len(u)
      /\ \A i \in 1 .. Len(t) : b[i] = t[i]
      /\ \A i \in 1 .. Len(u) : b[Len(t) + i] = u[i]
  BY JoinedElements
<1> HIDE DEF a, b
<1>3. /\ a \o u \in Seq(S) /\ Len(a \o u) = Len(a) + Len(u)
      /\ \A i \in 1 .. Len(a) : (a \o u)[i] = a[i]
      /\ \A i \in 1 .. Len(u) : (a \o u)[Len(a) + i] = u[i]
  <2>1. a \in Seq(S)
    BY <1>1
  <2> QED
    BY <2>1, JoinedElements
<1>4. /\ s \o b \in Seq(S) /\ Len(s \o b) = Len(s) + Len(b)
      /\ \A i \in 1 .. Len(s) : (s \o b)[i] = s[i]
      /\ \A i \in 1 .. Len(b) : (s \o b)[Len(s) + i] = b[i]
  <2>1. b \in Seq(S)
    BY <1>2
  <2> QED
    BY <2>1, JoinedElements
<1> DEFINE l == Len(s)
           m == Len(t)
           n == Len(u)
<1>5. l \in Nat /\ m \in Nat /\ n \in Nat
  OBVIOUS
<1>6. Len(a) = l + m /\ Len(b) = m + n /\ Len(a \o u) = (l + m) + n /\ Len(s \o b) = l + (m + n)
  BY <1>1, <1>2, <1>3, <1>4
<1>7. ASSUME NEW i \in 1 .. Len(a \o u) PROVE (a \o u)[i] = (s \o b)[i]
  <2>0. i \in 1 .. (l + m) + n
    BY <1>6
  <2>1. CASE i <= l
    <3> HIDE DEF l, m, n
    <3>1. i \in 1 .. l /\ i \in 1 .. l + m
      BY <1>5, <2>0, <2>1
    <3>2. i \in 1 .. Len(s) /\ i \in 1 .. Len(a)
      BY <1>6, <3>1 DEF l
    <3>3. (a \o u)[i] = a[i] /\ a[i] = s[i] /\ (s \o b)[i] = s[i]
      BY <1>1, <1>3, <1>4, <3>2
    <3> QED
      BY <3>3
  <2>2. CASE ~(i <= l) /\ i <= l + m
    <3> DEFINE j == i - l
    <3> HIDE DEF l, m, n
    <3>1. j \in 1 .. m /\ i \in 1 .. l + m /\ l + j = i /\ j \in 1 .. m + n
      BY <1>5, <2>0, <2>2
    <3> HIDE DEF j
    <3>2. j \in 1 .. Len(t) /\ i \in 1 .. Len(a) /\ Len(s) + j = i /\ j \in 1 .. Len(b)
      BY <1>6, <3>1 DEF l, m
    <3>3. (a \o u)[i] = a[i] /\ a[Len(s) + j] = t[j]
      BY <1>1, <1>3, <3>2
    <3>4. (s \o b)[Len(s) + j] = b[j] /\ b[j] = t[j]
      BY <1>2, <1>4, <3>2
    <3> QED
      BY <3>2, <3>3, <3>4
  <2>3. CASE ~(i <= l + m)
    <3> DEFINE j == i - (l + m)
               k == i - l
    <3> HIDE DEF l, m, n
    <3>1. j \in 1 .. n /\ (l + m) + j = i /\ k \in 1 .. m + n /\ l + k = i /\ m + j = k
      BY <1>5, <2>0, <2>3
    <3> HIDE DEF j, k
    <3>2. /\ j \in 1 .. Len(u) /\ Len(a) + j = i /\ k \in 1 .. Len(b) /\ Len(s) + k = i
          /\ Len(t) + j = k
      BY <1>6, <3>1 DEF l, m, n
    <3>3. (a \o u)[Len(a) + j] = u[j]
      BY <1>3, <3>2
    <3>4. (s \o b)[Len(s) + k] = b[k] /\ b[Len(t) + j] = u[j]
      BY <1>2, <1>4, <3>2
    <3> QED
      BY <3>2, <3>3, <3>4
  <2> QED
    BY <2>1, <2>2, <2>3
<1>8. Len(a \o u) = Len(s \o b)
  <2> HIDE DEF l, m, n
  <2> QED
    BY <1>5, <1>6
<1>9. a \o u = s \o b
  BY <1>3, <1>4, <1>7, <1>8, SameElements
<1> QED
  BY <1>9 DEF a, b

\* What a read brings is held behind what was there.
LEMMA HoldsMore ==
  ASSUME stream \in Bytes, NEW n \in 0 .. Len(stream), NEW m \in 0 .. n, NEW p, NEW b, NEW c,
         Holds(b, p, m), c.m_read_buffer = b.m_read_buffer \o SubSeq(stream, m + 1, n)
  PROVE  Holds(c, p, n)
<1>1. p \in 0 .. m /\ p \in 0 .. n
  BY DEF Holds
<1>2. stream \in Seq(0 .. 255)
  BY DEF Bytes
<1>3. SubSeq(stream, p + 1, m) \o SubSeq(stream, m + 1, n) = SubSeq(stream, p + 1, n)
  BY <1>1, <1>2, PartsJoin
<1> QED
  BY <1>1, <1>3 DEF Holds

LEMMA ReadsMore ==
  ASSUME stream \in Bytes, NEW n \in 0 .. Len(stream), NEW m \in 0 .. n, NEW r, NEW b, NEW c,
         Reads(b, m, r), c.m_read_buffer = b.m_read_buffer \o SubSeq(stream, m + 1, n),
         c.m_state = b.m_state, c.needed = b.needed,
         c.m_auth_methods_count = b.m_auth_methods_count,
         c.m_address_type = b.m_address_type, c.m_domain_name_length = b.m_domain_name_length
  PROVE  Reads(c, n, r)
<1>1. \A p : Holds(b, p, m) => Holds(c, p, n)
  BY HoldsMore
<1>2. ReadsGreeting(b, m, r) => ReadsGreeting(c, n, r)
  BY <1>1 DEF ReadsGreeting
<1>3. ReadsMethods(b, m, r) => ReadsMethods(c, n, r)
  BY <1>1 DEF ReadsMethods
<1>4. ReadsRequest(b, m, r) => ReadsRequest(c, n, r)
  BY <1>1 DEF ReadsRequest
<1>5. ReadsNameLength(b, m, r) => ReadsNameLength(c, n, r)
  BY <1>1 DEF ReadsNameLength
<1>6. ReadsAddress(b, m, r) => ReadsAddress(c, n, r)
  BY <1>1 DEF ReadsAddress
<1> QED
  BY <1>2, <1>3, <1>4, <1>5, <1>6 DEF Reads

\* What has been said of an answer that fits, fits.
LEMMA BeginningFits ==
  ASSUME NEW s \in Bytes, NEW t \in Bytes, NEW address, Fits(s \o t, address)
  PROVE  Fits(s, address)
<1>1. ASSUME NEW whole \in Bytes, IsPrefix(s \o t, whole) PROVE IsPrefix(s, whole)
  BY <1>1, PrefixOfPrefix DEF Bytes
<1>2. ASSUME NEW code \in 0 .. 255, NEW type \in {IPV4, IPV6}, NEW k \in Nat
      PROVE  <<5, 0>> \o Reply(code, type, Zeros(k)) \in Bytes
  <2>1. Reply(code, type, Zeros(k)) \in Seq(0 .. 255) /\ <<5, 0>> \in Seq(0 .. 255)
    BY ReplyBytes, Beginnings, ZenonT(60) DEF Bytes
  <2> QED
    BY <2>1, JoinedElements DEF Bytes
<1>3. \A code \in RefusalCodes : Refusal(code) \in Bytes
  BY <1>2, RefusalCode DEF Refusal
<1>4. /\ <<5, 0>> \o Reply(0, IPV4, Zeros(6)) \in Bytes
      /\ <<5, 0>> \o Reply(0, IPV6, Zeros(18)) \in Bytes
  <2>1. 0 \in 0 .. 255 /\ 6 \in Nat /\ 18 \in Nat
    OBVIOUS
  <2> QED
    BY <1>2, <2>1, Zenon
<1>5. <<5, 0>> \o Success(address) \in Bytes
  BY <1>4 DEF Success
<1>6. s \o t = <<>> => s = <<>>
  <2>1. s \in Seq(0 .. 255) /\ t \in Seq(0 .. 255)
    BY DEF Bytes
  <2> QED
    BY <2>1
<1> QED
  BY <1>1, <1>3, <1>5, <1>6, Beginnings DEF Fits

LEMMA ReadIsSound ==
  ASSUME HInv, NEW n \in 1 .. HALF_BUFFER_SIZE, ClientRead(n)
  PROVE  HInv'
<1> DEFINE c == [Current EXCEPT !.m_read_buffer = @ \o SubSeq(stream, nread + 1, nread + n)]
           k == nread + n
           new == SubSeq(stream, nread + 1, k)
<1>1. /\ request = "read" /\ ~m_is_failed /\ nread + n <= Len(stream) /\ nread' = nread + n
      /\ UNCHANGED <<stream, received>>
  BY DEF ClientRead
<1>2. stream \in Bytes /\ stream \in Streams /\ nread \in 0 .. Len(stream) /\ received \in Bytes
  BY StreamBytes DEF HInv
<1>3. nread \in 0 .. k /\ k \in 0 .. Len(stream)
  BY <1>1, <1>2, HalfBufferAssumption DEF Bytes
<1>4. new \in Bytes
  BY <1>2, <1>3, PartElements DEF Bytes
<1>5. Reads(Now, nread, received)
  BY <1>1, CurrentSession DEF HInv, Sound
<1>6. c = [Current EXCEPT !.m_read_buffer = m_read_buffer \o new]
  BY CurrentSession DEF Current
<1> HIDE DEF c, k, new
<1>7. m_read_buffer \o new \in Bytes
  <2>1. m_read_buffer \in Seq(0 .. 255)
    BY CurrentSession DEF Sessions, Bytes
  <2> QED
    BY <1>4, <2>1, JoinedElements DEF Bytes
<1>8. c \in Sessions
  BY <1>6, <1>7, CurrentSession, Buffered
<1>9. /\ c.request = "none" /\ c.m_read_buffer = m_read_buffer \o new
      /\ c.m_state = m_state /\ c.needed = needed
      /\ c.m_auth_methods_count = m_auth_methods_count
      /\ c.m_address_type = m_address_type /\ c.m_domain_name_length = m_domain_name_length
      /\ c.m_is_failed = m_is_failed
  BY <1>6, CurrentSession DEF Sessions
<1>10. Reads(c, k, received)
  <2>1. /\ c.m_read_buffer = Now.m_read_buffer \o SubSeq(stream, nread + 1, k)
        /\ c.m_state = Now.m_state /\ c.needed = Now.needed
        /\ c.m_auth_methods_count = Now.m_auth_methods_count
        /\ c.m_address_type = Now.m_address_type
        /\ c.m_domain_name_length = Now.m_domain_name_length
    BY <1>9, CurrentSession DEF new
  <2> QED
    BY <1>2, <1>3, <1>5, <2>1, ReadsMore
<1>11. c.m_state # "PROXYING_REQUESTS" /\ received \in {<<>>, <<5, 0>>}
  BY <1>10 DEF Reads, ReadsGreeting, ReadsMethods, ReadsRequest, ReadsNameLength, ReadsAddress
<1>12. nread' = k /\ nread' \in 0 .. Len(stream) /\ received' = received /\ received' \in Bytes
  BY <1>1, <1>2, <1>3 DEF k
<1>13. IF Len(c.m_read_buffer) < needed
         THEN Become([c EXCEPT !.request = "read"])
         ELSE \E d \in Reader(c) : Become(d)
  BY Zenon DEF ClientRead, c
<1>14. CASE Len(c.m_read_buffer) < needed
  <2>1. Sound([c EXCEPT !.request = "read"], k, received)
    BY <1>1, <1>8, <1>9, <1>10, <1>11, <1>14, Waiting
  <2> QED
    BY <1>1, <1>2, <1>12, <1>13, <1>14, <2>1, SoundStep
<1>15. CASE ~(Len(c.m_read_buffer) < needed)
  <2>1. PICK d \in Reader(c) : Become(d)
    BY <1>13, <1>15
  <2>2. c.needed <= Len(c.m_read_buffer)
    <3>1. c.needed \in Nat /\ Len(c.m_read_buffer) \in Nat
      BY <1>8 DEF Sessions, Bytes
    <3>2. ~(Len(c.m_read_buffer) < c.needed)
      BY <1>9, <1>15
    <3> QED
      BY <3>1, <3>2
  <2>3. Sound(d, k, received)
    BY <1>1, <1>2, <1>3, <1>8, <1>9, <1>10, <2>2, ReaderIsSound
  <2> QED
    BY <1>1, <1>2, <1>12, <2>1, <2>3, SoundStep
<1> QED
  BY <1>14, <1>15

\* A Session that fails has said what it had said.
LEMMA FailureIsSound ==
  ASSUME HInv, request \in {"read", "write", "connect"}, Become(fail_delayed(Current)),
         UNCHANGED <<stream, nread, received>>
  PROVE  HInv'
<1> DEFINE d == fail_delayed(Current)
<1>1. /\ d \in Sessions /\ d.request = "none" /\ d.m_is_failed = TRUE
      /\ d.m_state = m_state /\ d.destination = destination
  BY CurrentSession, ZenonT(60) DEF fail_delayed, Sessions
<1>2. stream \in Streams /\ nread \in 0 .. Len(stream) /\ received \in Bytes
  BY DEF HInv
<1>3. m_state # "PROXYING_REQUESTS" /\ Fits(Said(Now, received), destination)
  BY CurrentSession DEF HInv, Sound
<1>4. Fits(received, destination)
  <2>1. CASE request = "write"
    <3>1. Said(Now, received) = received \o m_write_client_buffer
      BY <2>1, CurrentSession DEF Said
    <3>2. m_write_client_buffer \in Bytes
      BY CurrentSession DEF Sessions
    <3> QED
      BY <1>2, <1>3, <3>1, <3>2, BeginningFits
  <2>2. CASE request # "write"
    <3>1. Said(Now, received) = received \o <<>>
      BY <2>2, CurrentSession DEF Said
    <3> QED
      BY <1>2, <1>3, <3>1, Beginnings, BeginningFits
  <2> QED
    BY <2>1, <2>2
<1>5. Said(d, received) = received
  BY <1>1, <1>2 DEF Said, Bytes
<1> HIDE DEF d
<1>6. Sound(d, nread, received)
  BY <1>1, <1>3, <1>4, <1>5 DEF Sound
<1>7. Sound(d, nread', received') /\ nread' \in 0 .. Len(stream) /\ received' \in Bytes
  BY <1>2, <1>6
<1> QED
  BY <1>2, <1>7, SoundStep DEF d

\* A Session whose answer has left goes on to what follows it.
LEMMA WrittenIsSound ==
  ASSUME stream \in Bytes, NEW n \in 0 .. Len(stream), NEW r \in Bytes,
         NEW c \in Sessions, ~c.m_is_failed, c.request = "none", c.m_write_client_buffer = <<>>,
         AnswersWhole(c, n, r), Fits(r, c.destination), NEW d \in write_completed(c)
  PROVE  Sound(d, n, r)
<1>1. c.m_is_failed = FALSE
  BY DEF Sessions
<1>2. r \o <<>> = r
  BY DEF Bytes
<1>3. CASE c.m_state = "READING_AUTH_METHODS"
  <2> DEFINE e == wait_for([c EXCEPT !.m_state = "READING_CLIENT_CONNECTION_REQUEST"], 4)
  <2>1. d \in read_some_from_client(e, read_client_connection_request(e))
    BY <1>3, Zenon DEF write_completed
  <2>2. e = [c EXCEPT !.m_state = "READING_CLIENT_CONNECTION_REQUEST", !.needed = 4]
    BY DEF wait_for, Sessions
  <2> HIDE DEF e
  <2>3. e \in Sessions
    BY <2>2, StateNames, Waits, Zenon
  <2>4. /\ e.m_is_failed = FALSE /\ e.m_state = "READING_CLIENT_CONNECTION_REQUEST"
        /\ e.needed = 4 /\ e.m_read_buffer = c.m_read_buffer
    BY <1>1, <2>2 DEF Sessions
  <2>5. r = <<5, 0>> /\ MethodsAreGood /\ Holds(c, GreetingLength, n)
    BY <1>2, <1>3 DEF AnswersWhole
  <2>6. ReadsRequest(e, n, r)
    BY <2>4, <2>5 DEF ReadsRequest, Holds
  <2>7. Reads(e, n, r)
    BY <2>4, <2>6 DEF Reads
  <2>8. e.needed <= Len(e.m_read_buffer)
          => \A x \in read_client_connection_request(e) : Sound(x, n, r)
    BY <2>3, <2>4, <2>5, <2>6, RequestIsRead
  <2> QED
    BY <2>1, <2>3, <2>4, <2>5, <2>7, <2>8, ReadOrHandled
<1>4. CASE c.m_state # "READING_AUTH_METHODS"
  <2>1. c.m_state = "CONNECTING_TO_DESTINATION" /\ Parsing(c, n)
    BY <1>4 DEF AnswersWhole
  <2>2. d = [c EXCEPT !.m_state = "PROXYING_REQUESTS"]
    BY <2>1, Zenon DEF write_completed
  <2>3. d \in Sessions
    <3>1. "PROXYING_REQUESTS" \in States
      BY DEF States
    <3>2. [c EXCEPT !.m_state = "PROXYING_REQUESTS"] \in Sessions
      BY <3>1 DEF Sessions
    <3> QED
      BY <2>2, <3>2, Zenon
  <2>4. /\ d.m_state = "PROXYING_REQUESTS" /\ d.request = "none"
        /\ d.m_read_buffer = c.m_read_buffer /\ d.destination = c.destination
    BY <2>2 DEF Sessions
  <2>5. Parsing(d, n)
    BY <2>1, <2>4 DEF Parsing, Holds
  <2>6. Said(d, r) = r
    BY <1>2, <2>4 DEF Said
  <2>7. Fits(Said(d, r), d.destination)
    BY <2>4, <2>6
  <2> QED
    BY <2>3, <2>4, <2>5, <2>7 DEF Sound
<1> QED
  BY <1>3, <1>4

LEMMA WriteIsSound ==
  ASSUME HInv, NEW n \in 1 .. HALF_BUFFER_SIZE, ClientWrite(n)
  PROVE  HInv'
<1> DEFINE taken == SubSeq(m_write_client_buffer, 1, n)
           rest == unsent(n)
           r == received \o taken
           c == [Current EXCEPT !.m_write_client_buffer = rest]
<1>1. /\ request = "write" /\ n <= Len(m_write_client_buffer) /\ received' = r
      /\ UNCHANGED <<stream, nread>>
  BY DEF ClientWrite
<1>2. stream \in Bytes /\ stream \in Streams /\ nread \in 0 .. Len(stream) /\ received \in Bytes
  BY StreamBytes DEF HInv
<1>3. m_write_client_buffer \in Bytes
  BY CurrentSession DEF Sessions
<1>4. n \in 0 .. Len(m_write_client_buffer)
  BY <1>1, <1>3, HalfBufferAssumption DEF Bytes
<1>5. taken \in Bytes /\ rest \in Bytes /\ taken \o rest = m_write_client_buffer
  BY <1>3, <1>4, CutAndJoin DEF Bytes, unsent
<1> HIDE DEF taken, rest
<1>6. r \in Bytes
  BY <1>2, <1>5, JoinedElements DEF Bytes
<1>7. r \o rest = received \o m_write_client_buffer
  <2>1. received \in Seq(0 .. 255) /\ taken \in Seq(0 .. 255) /\ rest \in Seq(0 .. 255)
    BY <1>2, <1>5 DEF Bytes
  <2>2. (received \o taken) \o rest = received \o (taken \o rest)
    <3>1. \A s, t, u \in Seq(0 .. 255) : (s \o t) \o u = s \o (t \o u)
      BY JoinsAssociate, SMTT(60)
    <3> QED
      BY <2>1, <3>1, ZenonT(60)
  <2> QED
    BY <1>5, <2>2, Zenon
<1> HIDE DEF r
<1>8. Said(Now, received) = r \o rest
  BY <1>1, <1>7, CurrentSession DEF Said
<1>9. Fits(r \o rest, destination) /\ m_state # "PROXYING_REQUESTS"
  BY <1>1, <1>8, CurrentSession DEF HInv, Sound
<1>10. Fits(r, destination)
  BY <1>5, <1>6, <1>9, BeginningFits
<1>11. nread' = nread /\ nread' \in 0 .. Len(stream) /\ received' = r /\ received' \in Bytes
  BY <1>1, <1>2, <1>6
<1>12. IF m_is_failed
         THEN Become(Current)
         ELSE IF c.m_write_client_buffer # <<>>
                THEN Become([c EXCEPT !.request = "write"])
                ELSE \E d \in write_completed(c) : Become(d)
  BY Zenon DEF ClientWrite, rest
<1>13. CASE m_is_failed
  <2>1. Said(Current, r) = r
    BY <1>6, CurrentSession DEF Said, Bytes
  <2>2. Sound(Current, nread, r)
    BY <1>9, <1>10, <2>1, CurrentSession DEF Sound
  <2>3. Become(Current)
    BY <1>12, <1>13
  <2> QED
    BY <1>1, <1>2, <1>11, <2>2, <2>3, SoundStep
<1>14. CASE ~m_is_failed
  <2>1. AnswersWhole(Now, nread, received)
    BY <1>1, <1>14, CurrentSession DEF HInv, Sound
  <2> HIDE DEF c
  <2>2. c = [Current EXCEPT !.m_write_client_buffer = rest]
    BY DEF c
  <2>3. c \in Sessions
    BY <1>5, <2>2, CurrentSession, HasToWrite
  <2>4. m_is_failed = FALSE
    BY <1>14, CurrentSession
  <2>5. /\ c.request = "none" /\ c.m_write_client_buffer = rest /\ c.m_state = m_state
        /\ c.m_read_buffer = m_read_buffer /\ c.destination = destination
        /\ c.m_is_failed = FALSE
    BY <2>2, <2>4, CurrentSession DEF Sessions
  <2>6. ASSUME NEW d, d.m_state = m_state, d.m_read_buffer = m_read_buffer,
               d.m_write_client_buffer = rest
        PROVE  AnswersWhole(d, nread, r)
    BY <1>7, <2>1, <2>6, CurrentSession DEF AnswersWhole, Parsing, Holds
  <2>7. CASE rest # <<>>
    <3> DEFINE d == [c EXCEPT !.request = "write"]
    <3>1. Become(d)
      BY <1>12, <1>14, <2>5, <2>7
    <3>2. d \in Sessions
      BY <2>3 DEF Sessions
    <3>3. /\ d.request = "write" /\ d.m_write_client_buffer = rest /\ d.m_state = m_state
          /\ d.m_read_buffer = m_read_buffer /\ d.destination = destination
          /\ d.m_is_failed = FALSE
      BY <2>3, <2>5 DEF Sessions
    <3> HIDE DEF d
    <3>4. AnswersWhole(d, nread, r)
      BY <2>6, <3>3
    <3>5. Said(d, r) = r \o rest
      BY <3>3 DEF Said
    <3>6. Sound(d, nread, r)
      BY <1>9, <3>2, <3>3, <3>4, <3>5 DEF Sound
    <3> QED
      BY <1>1, <1>2, <1>11, <3>1, <3>6, SoundStep
  <2>8. CASE rest = <<>>
    <3>1. PICK d \in write_completed(c) : Become(d)
      BY <1>12, <1>14, <2>5, <2>8
    <3>2. AnswersWhole(c, nread, r)
      BY <2>5, <2>6
    <3>3. Sound(d, nread, r)
      BY <1>2, <1>6, <1>10, <2>3, <2>5, <2>8, <3>2, WrittenIsSound
    <3> QED
      BY <1>1, <1>2, <1>11, <3>1, <3>3, SoundStep
  <2> QED
    BY <2>7, <2>8
<1> QED
  BY <1>13, <1>14

LEMMA ConnectIsSound ==
  ASSUME HInv, handle_destination_connect
  PROVE  HInv'
<1> DEFINE type == IF m_address_type = IPV4 THEN IPV4 ELSE IPV6
           k == IF m_address_type = IPV4 THEN 6 ELSE 18
           answer == Reply(0, type, Zeros(k))
           d == write_to_client(Current, answer)
<1>1. request = "connect" /\ Become(d) /\ UNCHANGED <<stream, nread, received>>
  <2>1. CASE m_address_type = IPV4
    BY <2>1, Zenon DEF handle_destination_connect
  <2>2. CASE m_address_type # IPV4
    BY <2>2, Zenon DEF handle_destination_connect
  <2> QED
    BY <2>1, <2>2
<1>2. stream \in Streams /\ nread \in 0 .. Len(stream) /\ received \in Bytes
  BY DEF HInv
<1>3. m_is_failed = FALSE /\ Connects(Now, nread, received)
  BY <1>1, CurrentSession DEF HInv, Sound
<1>4. /\ m_state = "CONNECTING_TO_DESTINATION" /\ Parsing(Now, nread)
      /\ destination \in WantedDestinations /\ received = <<5, 0>>
      /\ m_address_type = FamilyOf(destination)
  BY <1>3, CurrentSession DEF Connects
<1>5. answer \in Bytes
  <2>1. 0 \in 0 .. 255 /\ k \in Nat /\ type \in {IPV4, IPV6}
    OBVIOUS
  <2> QED
    BY <2>1, ReplyBytes
<1>6. answer = Success(destination)
  BY <1>4 DEF Success
<1> HIDE DEF answer
<1>7. d = [Current EXCEPT !.m_write_client_buffer = answer, !.request = "write"]
  BY CurrentSession DEF write_to_client, Sessions
<1> HIDE DEF d
<1>8. d \in Sessions
  BY <1>5, <1>7, CurrentSession, WritesBytes
<1>9. /\ d.request = "write" /\ d.m_write_client_buffer = answer /\ d.m_state = m_state
      /\ d.m_read_buffer = m_read_buffer /\ d.destination = destination
  BY <1>7, CurrentSession DEF Sessions
<1>10. Parsing(d, nread)
  BY <1>4, <1>9, CurrentSession DEF Parsing, Holds
<1>11. Said(d, received) = <<5, 0>> \o answer
  BY <1>4, <1>9 DEF Said
<1>12. IsPrefix(<<5, 0>> \o answer, <<5, 0>> \o answer)
  <2>1. <<5, 0>> \o answer \in Seq(0 .. 255)
    BY <1>5, Beginnings, JoinedElements DEF Bytes
  <2> QED
    BY <2>1, PrefixOfSelf
<1>13. Fits(Said(d, received), d.destination)
  <2>1. MethodsAreGood /\ Len(ConnectRequest) >= 4 /\ Len(ConnectRequest) >= 4 + AddressLength
    BY <1>4 DEF Parsing, Asked
  <2> QED
    BY <1>4, <1>6, <1>9, <1>11, <1>12, <2>1 DEF Fits
<1>14. Sound(d, nread, received)
  BY <1>4, <1>8, <1>9, <1>10, <1>13 DEF Sound, AnswersWhole
<1>15. Sound(d, nread', received') /\ nread' \in 0 .. Len(stream) /\ received' \in Bytes
  BY <1>1, <1>2, <1>14
<1> QED
  BY <1>1, <1>2, <1>15, SoundStep

-----------------------------------------------------------------------------
(***************************************************************************)
(* The theorems.                                                           *)
(***************************************************************************)

LEMMA InitIsSound == Init => HInv
<1> SUFFICES ASSUME Init PROVE HInv
  OBVIOUS
<1>1. stream \in Streams /\ stream \in Seq(0 .. 255)
  BY StreamsAssumption DEF Init
<1>2. nread \in 0 .. Len(stream) /\ nread = 0
  BY <1>1 DEF Init
<1>3. Now = [m_state |-> "READING_CLIENT_GREETING", m_read_buffer |-> <<>>, needed |-> 3,
             m_auth_methods_count |-> 0, m_address_type |-> 0, m_domain_name_length |-> 0,
             destination |-> <<>>, m_write_client_buffer |-> <<>>, m_is_failed |-> FALSE,
             request |-> "read"]
  <2>1. Now = [m_state |-> m_state, m_read_buffer |-> m_read_buffer, needed |-> needed,
               m_auth_methods_count |-> m_auth_methods_count, m_address_type |-> m_address_type,
               m_domain_name_length |-> m_domain_name_length, destination |-> destination,
               m_write_client_buffer |-> m_write_client_buffer, m_is_failed |-> m_is_failed,
               request |-> request]
    BY DEF Now, Current
  <2> QED
    BY <2>1, Zenon DEF Init
<1>4. received = <<>> /\ received \in Bytes
  BY Beginnings DEF Init
<1> HIDE DEF Now
<1>5. <<>> \in Destinations /\ "READING_CLIENT_GREETING" \in States
  BY Beginnings DEF Destinations, States
<1>6. Now \in Sessions
  BY <1>3, <1>4, <1>5, Beginnings DEF Sessions
<1>7. /\ Now.m_state = "READING_CLIENT_GREETING" /\ Now.m_read_buffer = <<>> /\ Now.needed = 3
      /\ Now.m_is_failed = FALSE /\ Now.request = "read"
  BY <1>3
<1>8. Holds(Now, 0, 0)
  <2>1. SubSeq(stream, 0 + 1, 0) = <<>>
    BY <1>1
  <2> QED
    BY <1>7, <2>1 DEF Holds
<1>9. Reads(Now, nread, received)
  BY <1>2, <1>4, <1>7, <1>8 DEF Reads, ReadsGreeting
<1>10. Said(Now, received) = <<>>
  BY <1>4, <1>7, Beginnings DEF Said
<1>11. Fits(Said(Now, received), Now.destination)
  BY <1>10, Beginnings DEF Fits
<1>12. Len(Now.m_read_buffer) < Now.needed
  BY <1>7
<1> QED
  BY <1>1, <1>2, <1>4, <1>6, <1>7, <1>9, <1>11, <1>12 DEF HInv, Sound

LEMMA NextIsSound == HInv /\ [Next]_vars => HInv'
<1> SUFFICES ASSUME HInv, [Next]_vars PROVE HInv'
  OBVIOUS
<1>1. ASSUME NEW n \in 1 .. HALF_BUFFER_SIZE, ClientRead(n) PROVE HInv'
  BY <1>1, ReadIsSound
<1>2. ASSUME NEW n \in 1 .. HALF_BUFFER_SIZE, ClientWrite(n) PROVE HInv'
  BY <1>2, WriteIsSound
<1>3. CASE ClientDisconnects
  BY <1>3, FailureIsSound DEF ClientDisconnects
<1>4. CASE RequestFails
  BY <1>4, FailureIsSound DEF RequestFails
<1>5. CASE handle_destination_connect
  BY <1>5, ConnectIsSound
<1>6. CASE UNCHANGED vars
  <2>1. Become(Now)
    BY <1>6 DEF Become, vars, Now, Current
  <2>2. UNCHANGED <<stream, nread, received>>
    BY <1>6 DEF vars
  <2>3. /\ stream \in Streams /\ nread' \in 0 .. Len(stream) /\ received' \in Bytes
        /\ Sound(Now, nread', received')
    BY <2>2 DEF HInv
  <2> QED
    BY <2>1, <2>2, <2>3, SoundStep
<1> QED
  BY <1>1, <1>2, <1>3, <1>4, <1>5, <1>6 DEF Next

\* The session, the bytes it has read and the bytes it has answered fit the
\* stream of the client in every state: the inductive invariant.
THEOREM SessionIsSound == Spec => []HInv
BY InitIsSound, NextIsSound, PTL DEF Spec

\* What a handler leaves in the fields of Session is of their types, and no
\* switch over m_state reaches its assert(false).
THEOREM TypeCorrect == Spec => []TypeOK
<1>1. HInv => TypeOK
  <2> SUFFICES ASSUME HInv PROVE TypeOK
    OBVIOUS
  <2>1. /\ m_auth_methods_count \in 0 .. 255 /\ m_address_type \in 0 .. 255
        /\ m_domain_name_length \in 0 .. 255 /\ needed \in Nat
        /\ m_read_buffer \in Bytes /\ m_write_client_buffer \in Bytes /\ m_is_failed \in BOOLEAN
        /\ request \in {"none", "read", "write", "connect", "segfault"}
    <3>1. /\ Now.m_auth_methods_count \in 0 .. 255 /\ Now.m_address_type \in 0 .. 255
          /\ Now.m_domain_name_length \in 0 .. 255 /\ Now.needed \in Nat
          /\ Now.m_read_buffer \in Bytes /\ Now.m_write_client_buffer \in Bytes
          /\ Now.request \in {"none", "read", "write", "connect", "segfault"}
      BY CurrentSession DEF Sessions
    <3> QED
      BY <3>1, CurrentSession, ZenonT(60)
  <2> QED
    BY <2>1, ZenonT(60) DEF HInv, TypeOK, Bytes
<1> QED
  BY <1>1, SessionIsSound, PTL

\* Whatever the cuts, m_read_buffer holds the bytes that were read and not
\* parsed, and the relay starts with what the client sent ahead.
THEOREM BufferIsTheUnparsedStreamHolds == Spec => []BufferIsTheUnparsedStream
<1>1. HInv => BufferIsTheUnparsedStream
  <2> SUFFICES ASSUME HInv, request \in {"read", "connect"} \/ m_state = "PROXYING_REQUESTS"
               PROVE  m_read_buffer = SubSeq(stream, Parsed + 1, nread)
    BY DEF BufferIsTheUnparsedStream
  <2>1. CASE request = "read"
    <3>1. Reads(Now, nread, received)
      BY <2>1, CurrentSession DEF HInv, Sound
    <3>2. CASE m_state = "READING_CLIENT_GREETING"
      BY <3>1, <3>2, CurrentSession DEF Reads, ReadsGreeting, Holds, Parsed
    <3>3. CASE m_state = "READING_AUTH_METHODS"
      BY <2>1, <3>1, <3>3, CurrentSession DEF Reads, ReadsMethods, Holds, Parsed
    <3>4. CASE m_state = "READING_CLIENT_CONNECTION_REQUEST"
      BY <3>1, <3>4, CurrentSession DEF Reads, ReadsRequest, Holds, Parsed
    <3>5. CASE m_state = "READING_DOMAIN_NAME_LENGTH"
      BY <3>1, <3>5, CurrentSession DEF Reads, ReadsNameLength, Holds, Parsed
    <3>6. CASE m_state = "READING_ADDRESS"
      BY <3>1, <3>6, CurrentSession DEF Reads, ReadsAddress, Holds, Parsed, AddressStart
    <3> QED
      BY <3>1, <3>2, <3>3, <3>4, <3>5, <3>6, CurrentSession DEF Reads
  <2>2. CASE request # "read"
    <3>1. Parsing(Now, nread) /\ m_state \in {"CONNECTING_TO_DESTINATION", "PROXYING_REQUESTS"}
      BY <2>2, CurrentSession DEF HInv, Sound, Connects
    <3>2. Parsed = RequestEnd
      BY <3>1 DEF Parsed, RequestEnd
    <3> QED
      BY <3>1, <3>2, CurrentSession DEF Parsing, Holds
  <2> QED
    BY <2>1, <2>2
<1> QED
  BY <1>1, SessionIsSound, PTL

\* read_some_from_client never asks the kernel for bytes that are there.
THEOREM NeverWaitsForWhatItHasHolds == Spec => []NeverWaitsForWhatItHas
<1>1. HInv => NeverWaitsForWhatItHas
  BY CurrentSession DEF HInv, Sound, NeverWaitsForWhatItHas
<1> QED
  BY <1>1, SessionIsSound, PTL

\* The session connects only to the address the stream asks for, of a client
\* whose methods and request are acceptable.
THEOREM ConnectsWhereAskedHolds == Spec => []ConnectsWhereAsked
<1>1. HInv => ConnectsWhereAsked
  BY CurrentSession DEF HInv, Sound, Connects, Parsing, Asked, ConnectsWhereAsked
<1> QED
  BY <1>1, SessionIsSound, PTL

\* What the client has got, over partial writes of any size, is the beginning
\* of a conversation its stream allows: nothing after a bad greeting, a refusal
\* with its reason, a success of the family that was connected to.
THEOREM AnswersFitTheStreamHolds == Spec => []AnswersFitTheStream
<1>1. HInv => AnswersFitTheStream
  <2> SUFFICES ASSUME HInv, request # "segfault" PROVE AnswersFitTheStream
    BY DEF AnswersFitTheStream
  <2>1. Fits(Said(Now, received), destination)
    BY CurrentSession DEF HInv, Sound
  <2>2. Said(Now, received) = Answers
    BY CurrentSession DEF Said, Answers
  <2>3. Fits(Answers, destination)
    BY <2>1, <2>2
  <2> QED
    BY <2>3 DEF Fits, AnswersFitTheStream
<1> QED
  BY <1>1, SessionIsSound, PTL
=============================================================================
