----------------------------- MODULE Handshake -----------------------------
(***************************************************************************)
(* The SOCKS5 handshake of one Session, byte by byte: what it does with    *)
(* the bytes of the client however the kernel cuts them into reads, what   *)
(* it answers however the kernel cuts the writes, and where it connects.   *)
(*                                                                         *)
(* IoUring owns the counts and the pools; here one request is in flight at *)
(* a time and a Session that has failed is only watched until its answer   *)
(* has left.                                                               *)
(***************************************************************************)
EXTENDS Integers, Sequences, SequencesExt

CONSTANTS
  Streams,          \* what a client may send, as sequences of bytes
  HALF_BUFFER_SIZE  \* bytes one read or write moves at most; a read without
                    \* registered buffers moves up to twice as many

ASSUME HalfBufferAssumption == HALF_BUFFER_SIZE \in Nat \ {0}
ASSUME StreamsAssumption == Streams \subseteq Seq(0 .. 255)

IPV4 == 1
DOMAIN_NAME == 3
IPV6 == 4

VARIABLES
  stream,                 \* all the client sends
  nread,                  \* how many bytes of it have been read
  m_state,
  m_read_buffer,
  needed,                 \* n of the m_is_read_completed in force
  m_auth_methods_count,
  m_address_type,
  m_domain_name_length,
  destination,            \* the address taken from the request, or <<>>
  m_write_client_buffer,
  received,               \* the bytes the client has got back
  m_is_failed,
  request                 \* the request in flight, "none", or how the process died

vars == <<stream, nread, m_state, m_read_buffer, needed, m_auth_methods_count,
          m_address_type, m_domain_name_length, destination,
          m_write_client_buffer, received, m_is_failed, request>>

\* The fields a handler may change, and the request it adds.
Current ==
  [m_state |-> m_state, m_read_buffer |-> m_read_buffer, needed |-> needed,
   m_auth_methods_count |-> m_auth_methods_count, m_address_type |-> m_address_type,
   m_domain_name_length |-> m_domain_name_length, destination |-> destination,
   m_write_client_buffer |-> m_write_client_buffer, m_is_failed |-> m_is_failed,
   request |-> "none"]

Become(c) ==
  /\ m_state' = c.m_state
  /\ m_read_buffer' = c.m_read_buffer
  /\ needed' = c.needed
  /\ m_auth_methods_count' = c.m_auth_methods_count
  /\ m_address_type' = c.m_address_type
  /\ m_domain_name_length' = c.m_domain_name_length
  /\ destination' = c.destination
  /\ m_write_client_buffer' = c.m_write_client_buffer
  /\ m_is_failed' = c.m_is_failed
  /\ request' = c.request

\* handle_accept reads the first three bytes of a greeting.
Init ==
  /\ stream \in Streams
  /\ nread = 0
  /\ m_state = "READING_CLIENT_GREETING"
  /\ m_read_buffer = <<>>
  /\ needed = 3
  /\ m_auth_methods_count = 0
  /\ m_address_type = 0
  /\ m_domain_name_length = 0
  /\ destination = <<>>
  /\ m_write_client_buffer = <<>>
  /\ received = <<>>
  /\ m_is_failed = FALSE
  /\ request = "read"

-----------------------------------------------------------------------------
(***************************************************************************)
(* The readers.  Each maps a Session to the Sessions it may become.        *)
(***************************************************************************)

Byte(c, i) == c.m_read_buffer[i + 1]

\* Mutant: the bytes that have been parsed stay in the buffer.
Mut_consume_bytes_from_read_buffer(c, n) == c

consume_bytes_from_read_buffer(c, n) ==
  [c EXCEPT !.m_read_buffer = SubSeq(@, n + 1, Len(@))]

fail_delayed(c) == [c EXCEPT !.m_is_failed = TRUE]

write_to_client(c, bytes) ==
  [c EXCEPT !.m_write_client_buffer = bytes, !.request = "write"]

Zeros(n) == [i \in 1 .. n |-> 0]

Reply(code, type, address) == <<5, code, 0, type>> \o address

\* Mutant: the session is not failed before it is refused.
Mut_send_fail_message(c, code) == write_to_client(c, Reply(code, IPV4, Zeros(6)))

send_fail_message(c, code) ==
  write_to_client(fail_delayed(c), Reply(code, IPV4, Zeros(6)))

wait_for(c, n) == [c EXCEPT !.needed = n]

\* Mutant: the kernel is asked even when the bytes are there already.
Mut_read_some_from_client(c, handled) == {[c EXCEPT !.request = "read"]}

\* Bytes that are there already are handled at once, by the reader of the state.
read_some_from_client(c, handled) ==
  IF Len(c.m_read_buffer) >= c.needed
    THEN handled
    ELSE {[c EXCEPT !.request = "read"]}

\* The error codes of socket(): translate_errno tells three of them apart.
translate_errno(c) == {send_fail_message(c, code) : code \in {1, 3, 4, 5}}

\* connect_ipv4_destination and connect_ipv6_destination.  A failure to create
\* the socket is answered, and then the socket that is not there is connected.
connect_destination(c, type, address) ==
  LET to == [c EXCEPT !.m_address_type = type, !.destination = address]
  IN  {[to EXCEPT !.m_state = "CONNECTING_TO_DESTINATION", !.request = "connect"],
       send_fail_message(to, 1)}
        \cup {[d EXCEPT !.m_state = "CONNECTING_TO_DESTINATION", !.request = "segfault"] :
                d \in translate_errno(to)}

Resolved4(name) == <<"resolved", IPV4, name>>
Resolved6(name) == <<"resolved", IPV6, name>>

read_address(c) ==
  LET n == c.m_domain_name_length
      address(k) == SubSeq(c.m_read_buffer, 1, k)
  IN  CASE c.m_address_type = IPV4 ->
             connect_destination(consume_bytes_from_read_buffer(c, 6), IPV4, address(6))
        [] c.m_address_type = IPV6 ->
             connect_destination(consume_bytes_from_read_buffer(c, 18), IPV6, address(18))
        [] c.m_address_type = DOMAIN_NAME ->
             LET named == consume_bytes_from_read_buffer(c, n + 2)
             IN  {send_fail_message(named, 4)}
                   \cup connect_destination(named, IPV4, Resolved4(address(n + 2)))
                   \cup connect_destination(named, IPV6, Resolved6(address(n + 2)))

read_domain_name_length(c) ==
  LET d == wait_for([consume_bytes_from_read_buffer(c, 1) EXCEPT
                       !.m_domain_name_length = Byte(c, 0),
                       !.m_state = "READING_ADDRESS"], Byte(c, 0) + 2)
  IN  read_some_from_client(d, read_address(d))

read_client_connection_request(c) ==
  LET type == Byte(c, 3)
      rest == [consume_bytes_from_read_buffer(c, 4) EXCEPT !.m_address_type = type]
      at(state, n) == wait_for([rest EXCEPT !.m_state = state], n)
      address(n) ==
        read_some_from_client(at("READING_ADDRESS", n), read_address(at("READING_ADDRESS", n)))
  IN  IF Byte(c, 0) # 5 \/ Byte(c, 1) # 1 \/ Byte(c, 2) # 0
        THEN {send_fail_message(c, 7)}
        ELSE CASE type = IPV4 -> address(6)
               [] type = IPV6 -> address(18)
               [] type = DOMAIN_NAME ->
                    LET d == at("READING_DOMAIN_NAME_LENGTH", 1)
                    IN  read_some_from_client(d, read_domain_name_length(d))
               [] OTHER ->
                    {send_fail_message(consume_bytes_from_read_buffer(c, 4), 8)}

NO_AUTH == 0

\* Mutant: the session goes on without an acceptable method.
Mut_read_auth_methods(c) ==
  {write_to_client(consume_bytes_from_read_buffer(c, c.m_auth_methods_count), <<5, 0>>)}

\* m_auth_method is set to 0xFF or 0x00 and never used: 0x00 is sent.
read_auth_methods(c) ==
  LET n == c.m_auth_methods_count
      offered == ToSet(SubSeq(c.m_read_buffer, 1, n))
      chosen == IF NO_AUTH \in offered THEN c ELSE fail_delayed(c)
  IN  {write_to_client(consume_bytes_from_read_buffer(chosen, n), <<5, 0>>)}

\* A greeting that is refused closes the connection without an answer.
read_client_greeting(c) ==
  LET n == Byte(c, 1)
      d == wait_for([consume_bytes_from_read_buffer(c, 2) EXCEPT
                       !.m_auth_methods_count = n, !.m_state = "READING_AUTH_METHODS"], n)
  IN  IF Byte(c, 0) # 5 \/ n = 0
        THEN {fail_delayed(c)}
        ELSE read_some_from_client(d, read_auth_methods(d))

Reader(c) ==
  CASE c.m_state = "READING_CLIENT_GREETING" -> read_client_greeting(c)
    [] c.m_state = "READING_AUTH_METHODS" -> read_auth_methods(c)
    [] c.m_state = "READING_CLIENT_CONNECTION_REQUEST" -> read_client_connection_request(c)
    [] c.m_state = "READING_DOMAIN_NAME_LENGTH" -> read_domain_name_length(c)
    [] c.m_state = "READING_ADDRESS" -> read_address(c)

-----------------------------------------------------------------------------
(***************************************************************************)
(* The completions.                                                        *)
(***************************************************************************)

\* A read brings 1 to HALF_BUFFER_SIZE bytes; a partial one is continued.
ClientRead(n) ==
  /\ request = "read" /\ ~m_is_failed
  /\ nread + n <= Len(stream)
  /\ nread' = nread + n
  /\ LET c == [Current EXCEPT !.m_read_buffer = @ \o SubSeq(stream, nread + 1, nread + n)]
     IN  IF Len(c.m_read_buffer) < needed
           THEN Become([c EXCEPT !.request = "read"])
           ELSE \E d \in Reader(c) : Become(d)
  /\ UNCHANGED <<stream, received>>

\* The client has nothing more to send and closes its side; or it stays silent,
\* and the read waits, since nothing in the code times it out.
ClientDisconnects ==
  /\ request = "read" /\ ~m_is_failed
  /\ nread = Len(stream)
  /\ Become(fail_delayed(Current))
  /\ UNCHANGED <<stream, nread, received>>

\* Mutant: the answer is sent and nothing is read after it.
Mut_write_completed(c) ==
  {[c EXCEPT !.m_state = IF @ = "READING_AUTH_METHODS"
                           THEN "READING_CLIENT_CONNECTION_REQUEST"
                           ELSE "PROXYING_REQUESTS"]}

\* The state that follows an answer; the other states assert(false).
write_completed(c) ==
  CASE c.m_state = "READING_AUTH_METHODS" ->
         LET d == wait_for([c EXCEPT !.m_state = "READING_CLIENT_CONNECTION_REQUEST"], 4)
         IN  read_some_from_client(d, read_client_connection_request(d))
    [] c.m_state = "CONNECTING_TO_DESTINATION" ->
         {[c EXCEPT !.m_state = "PROXYING_REQUESTS"]}
    [] OTHER -> {[c EXCEPT !.request = "aborted"]}

\* Mutant: the bytes the kernel has taken stay in the buffer.
Mut_unsent(n) == m_write_client_buffer

unsent(n) == SubSeq(m_write_client_buffer, n + 1, Len(m_write_client_buffer))

\* write_to_client offers the kernel at most HALF_BUFFER_SIZE bytes, of which
\* it takes some.  The session that has failed is not continued.
ClientWrite(n) ==
  /\ request = "write"
  /\ n <= Len(m_write_client_buffer)
  /\ received' = received \o SubSeq(m_write_client_buffer, 1, n)
  /\ LET c == [Current EXCEPT !.m_write_client_buffer = unsent(n)]
     IN  IF m_is_failed
           THEN Become(Current)
           ELSE IF c.m_write_client_buffer # <<>>
                  THEN Become([c EXCEPT !.request = "write"])
                  ELSE \E d \in write_completed(c) : Become(d)
  /\ UNCHANGED <<stream, nread>>

\* The reply has room for the address that was asked for; here, zeros.
handle_destination_connect ==
  /\ request = "connect"
  /\ Become(write_to_client(Current,
       IF m_address_type = IPV4 THEN Reply(0, IPV4, Zeros(6))
                                ELSE Reply(0, IPV6, Zeros(18))))
  /\ UNCHANGED <<stream, nread, received>>

\* event_loop gives up the session; a connect that fails is not answered.
RequestFails ==
  /\ request \in {"read", "write", "connect"}
  /\ Become(fail_delayed(Current))
  /\ UNCHANGED <<stream, nread, received>>

Next ==
  \/ \E n \in 1 .. HALF_BUFFER_SIZE : ClientRead(n) \/ ClientWrite(n)
  \/ ClientDisconnects
  \/ RequestFails
  \/ handle_destination_connect

Spec == Init /\ [][Next]_vars

Completes ==
  \/ \E n \in 1 .. HALF_BUFFER_SIZE : ClientRead(n) \/ ClientWrite(n)
  \/ handle_destination_connect

\* The kernel hands over what the client has sent, sends what it is given and
\* answers a connect.  No request has to fail and no client has to leave.
FairSpec == Spec /\ WF_vars(Completes)

-----------------------------------------------------------------------------
(***************************************************************************)
(* What the stream asks for, read off the whole of it at once.             *)
(***************************************************************************)

GreetingLength == 2 + stream[2]

ConnectRequest == SubSeq(stream, GreetingLength + 1, Len(stream))

GreetingIsGood == Len(stream) >= 3 /\ stream[1] = 5 /\ stream[2] # 0

MethodsAreGood ==
  /\ GreetingIsGood
  /\ NO_AUTH \in ToSet(SubSeq(stream, 3, GreetingLength))

AddressLength ==
  CASE ConnectRequest[4] = IPV4 -> 6
    [] ConnectRequest[4] = IPV6 -> 18
    [] ConnectRequest[4] = DOMAIN_NAME ->
         IF Len(ConnectRequest) > 4 THEN 1 + ConnectRequest[5] + 2 ELSE 1
    [] OTHER -> 0

\* The client has sent all that the handshake needs to come to its end, which
\* for a message that is refused may be less than the whole of it.
IsWhole ==
  /\ Len(stream) >= 3
  /\ GreetingIsGood =>
       /\ Len(stream) >= GreetingLength
       /\ MethodsAreGood =>
            /\ Len(ConnectRequest) >= 4
            /\ \/ SubSeq(ConnectRequest, 1, 3) # <<5, 1, 0>>
               \/ Len(ConnectRequest) >= 4 + AddressLength

\* The address bytes, without the length byte of a domain name.
WantedAddress ==
  SubSeq(ConnectRequest, IF ConnectRequest[4] = DOMAIN_NAME THEN 6 ELSE 5,
         4 + AddressLength)

WantedDestinations ==
  IF ConnectRequest[4] = DOMAIN_NAME
    THEN {Resolved4(WantedAddress), Resolved6(WantedAddress)}
    ELSE {WantedAddress}

FamilyOf(address) ==
  IF ConnectRequest[4] = DOMAIN_NAME THEN address[2] ELSE ConnectRequest[4]

\* How much of the stream the session has parsed when it is in a state.
Parsed ==
  CASE m_state = "READING_CLIENT_GREETING" -> 0
    [] m_state = "READING_AUTH_METHODS" ->
         IF request = "write" THEN GreetingLength ELSE 2
    [] m_state = "READING_CLIENT_CONNECTION_REQUEST" -> GreetingLength
    [] m_state = "READING_DOMAIN_NAME_LENGTH" -> GreetingLength + 4
    [] m_state = "READING_ADDRESS" ->
         GreetingLength + 4 + IF ConnectRequest[4] = DOMAIN_NAME THEN 1 ELSE 0
    [] OTHER -> GreetingLength + 4 + AddressLength

\* What the client has got and is being sent.
Answers == received \o IF request = "write" THEN m_write_client_buffer ELSE <<>>

Success(address) ==
  IF FamilyOf(address) = IPV4 THEN Reply(0, IPV4, Zeros(6)) ELSE Reply(0, IPV6, Zeros(18))

Refusal(code) == <<5, 0>> \o Reply(code, IPV4, Zeros(6))

RefusalCodes ==
  IF SubSeq(ConnectRequest, 1, 3) # <<5, 1, 0>> THEN {7}
  ELSE IF ConnectRequest[4] \notin {IPV4, IPV6, DOMAIN_NAME} THEN {8}
  ELSE {1, 3, 4, 5}

-----------------------------------------------------------------------------
(***************************************************************************)
(* Properties.                                                             *)
(***************************************************************************)

\* The variables hold values of their C++ types, and no switch over m_state
\* reaches its assert(false).
TypeOK ==
  /\ stream \in Streams
  /\ nread \in 0 .. Len(stream)
  /\ {m_auth_methods_count, m_address_type, m_domain_name_length} \subseteq 0 .. 255
  /\ {m_read_buffer, m_write_client_buffer, received} \subseteq Seq(0 .. 255)
  /\ needed \in Nat
  /\ m_is_failed \in BOOLEAN
  /\ request \in {"none", "read", "write", "connect", "segfault"}

\* However the stream is cut, no byte is lost, skipped or parsed twice: while
\* the session reads or connects, m_read_buffer is what has been read and not
\* parsed, and when the relay starts it holds exactly what the client sent
\* ahead of the reply.  (The relay never sends these bytes on: see Relay.)
BufferIsTheUnparsedStream ==
  (request \in {"read", "connect"} \/ m_state = "PROXYING_REQUESTS") =>
    m_read_buffer = SubSeq(stream, Parsed + 1, nread)

\* read_some_from_client never asks the kernel for bytes that are there: a
\* client that has sent a whole message and waits for the answer would wait
\* for ever.
NeverWaitsForWhatItHas == request = "read" => Len(m_read_buffer) < needed

\* The session connects to the address the stream asks for, only if the method
\* and the request are acceptable, whatever the cuts.
ConnectsWhereAsked ==
  request = "connect" =>
    /\ MethodsAreGood
    /\ SubSeq(ConnectRequest, 1, 3) = <<5, 1, 0>>
    /\ destination \in WantedDestinations

\* The answers, over partial writes of any size, are always the beginning of
\* one of the conversations the stream allows: nothing is said to a bad greeting,
\* a refusal says why, and a success is of the family that was connected to.
AnswersFitTheStream ==
  request # "segfault" =>
    \/ Answers = <<>>
    \/ GreetingIsGood /\ IsPrefix(Answers, <<5, 0>>)
    \/ /\ MethodsAreGood
       /\ Len(ConnectRequest) >= 4
       /\ \/ \E code \in RefusalCodes : IsPrefix(Answers, Refusal(code))
          \/ /\ Len(ConnectRequest) >= 4 + AddressLength
             /\ destination \in WantedDestinations
             /\ IsPrefix(Answers, <<5, 0>> \o Success(destination))

\* A client that has sent all that is needed is brought to the end of the
\* handshake, even if it then waits in silence: the relay starts or the session
\* fails.  Only one that stops in the middle can keep the session reading, and
\* it does so for ever: there is no timeout.
HandshakeEnds ==
  <>(\/ m_state = "PROXYING_REQUESTS" \/ m_is_failed \/ request = "segfault"
     \/ request = "read" /\ nread = Len(stream) /\ ~IsWhole)

\* What the comment on m_auth_method says: a client none of whose methods is
\* acceptable is told 0xFF.  The code sends 0x00, "no authentication".
NoAcceptableMethodIsSaid ==
  (m_state = "READING_AUTH_METHODS" /\ m_is_failed /\ request = "write") =>
    m_write_client_buffer = <<5, 255>>
=============================================================================
