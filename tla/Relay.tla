------------------------------- MODULE Relay -------------------------------
(***************************************************************************)
(* The bytes of one Session that proxies: two directions, each reading     *)
(* into a half of the session's buffer and writing from it, and the kernel *)
(* that moves the bytes between the buffer and the two sockets.            *)
(*                                                                         *)
(* IoUring says which requests are in flight; here is what they carry.     *)
(***************************************************************************)
EXTENDS Integers, Sequences, SequencesExt

CONSTANTS
  HALF_BUFFER_SIZE,
  Stream,       \* for each direction, the bytes its source sends
  m_is_root,    \* the buffers are registered and fixed requests are used
  EarlyBytes    \* how many bytes of the client came before the relay started

BUFFER_SIZE == 2 * HALF_BUFFER_SIZE

Way == {"to_destination", "to_client"}

ASSUME HalfBufferAssumption == HALF_BUFFER_SIZE \in Nat \ {0}
ASSUME StreamAssumption == Stream \in [Way -> Seq(Int)]
ASSUME EarlyBytesAssumption == EarlyBytes \subseteq 0 .. Len(Stream["to_destination"])
ASSUME ModeAssumption == m_is_root \in BOOLEAN

VARIABLES
  buffer,        \* the buffer of the session, both halves
  early,         \* bytes left in m_read_buffer when the relay started
  taken,         \* how many bytes of each stream have been read
  delivered,     \* the bytes the other end of each direction has got
  request,       \* the request in flight in each direction
  write_size,    \* m_destination_write_size and m_client_write_size
  write_offset,  \* m_destination_write_offset and m_client_write_offset
  cut,           \* whether the kernel ever took a part of a write only
  m_is_failed

vars == <<buffer, early, taken, delivered, request, write_size, write_offset, cut, m_is_failed>>

\* Mutant: both directions use the first half.
Mut_Half(d) == 0

\* buffer_half0 and buffer_half1: where the requests of a direction point.
Half(d) == IF d = "to_destination" THEN 0 ELSE HALF_BUFFER_SIZE

PENDING == -1

\* Any negative result: ECONNRESET, EPIPE, ESPIPE and the rest are one to the code.
ERROR == -2

Read(nbytes) == [op |-> "read", nbytes |-> nbytes, offset |-> 0, res |-> PENDING]

\* The request always points to the start of the half; offset is the position
\* in the file.
Write(nbytes, offset) ==
  [op |-> "write", nbytes |-> nbytes, offset |-> offset, res |-> PENDING]

\* Mutant: every read asks for the whole buffer.
Mut_add_read_request(d) == Read(BUFFER_SIZE)

\* add_client_read_request asks for the whole buffer when it is not root.
add_read_request(d) ==
  IF d = "to_destination" /\ ~m_is_root THEN Read(BUFFER_SIZE) ELSE Read(HALF_BUFFER_SIZE)

\* read_from_client calls handle_client_read(0) if bytes came early: they stay
\* in m_read_buffer and a write of no bytes is added.
Init ==
  /\ buffer = [i \in 0 .. BUFFER_SIZE - 1 |-> 0]
  /\ early \in EarlyBytes
  /\ taken = [d \in Way |-> IF d = "to_destination" THEN early ELSE 0]
  /\ delivered = [d \in Way |-> <<>>]
  /\ request = [d \in Way |-> IF d = "to_destination" /\ early > 0
                                THEN Write(0, 0) ELSE add_read_request(d)]
  /\ write_size = [d \in Way |-> 0]
  /\ write_offset = [d \in Way |-> 0]
  /\ cut = [d \in Way |-> FALSE]
  /\ m_is_failed = FALSE

-----------------------------------------------------------------------------
(***************************************************************************)
(* The kernel.  The bytes move when it likes, the completion is handled    *)
(* later, and any request may fail instead.  A socket has no position: the *)
(* offset of a write is ignored.                                           *)
(***************************************************************************)

Complete(d, res) == request' = [request EXCEPT ![d].res = res]

\* A read of zero bytes is the end of the stream.
KernelRead(d, n) ==
  /\ request[d].op = "read" /\ request[d].res = PENDING
  /\ n <= request[d].nbytes
  /\ taken[d] + n <= Len(Stream[d])
  /\ n = 0 => taken[d] = Len(Stream[d])
  /\ buffer' = [i \in DOMAIN buffer |->
                  IF i - Half(d) \in 0 .. n - 1
                    THEN Stream[d][taken[d] + i - Half(d) + 1]
                    ELSE buffer[i]]
  /\ taken' = [taken EXCEPT ![d] = @ + n]
  /\ Complete(d, n)
  /\ UNCHANGED <<early, delivered, write_size, write_offset, cut, m_is_failed>>

KernelWrite(d, n) ==
  /\ request[d].op = "write" /\ request[d].res = PENDING
  /\ n <= request[d].nbytes
  /\ n = 0 => request[d].nbytes = 0
  /\ delivered' = [delivered EXCEPT ![d] = @ \o [i \in 1 .. n |-> buffer[Half(d) + i - 1]]]
  /\ cut' = [cut EXCEPT ![d] = @ \/ n < request[d].nbytes]
  /\ Complete(d, n)
  /\ UNCHANGED <<buffer, early, taken, write_size, write_offset, m_is_failed>>

\* A peer that resets the connection, a write after that, an offset refused.
KernelFails(d) ==
  /\ request[d].res = PENDING
  /\ Complete(d, ERROR)
  /\ UNCHANGED <<buffer, early, taken, delivered, write_size, write_offset, cut, m_is_failed>>

-----------------------------------------------------------------------------
(***************************************************************************)
(* The handlers.                                                           *)
(***************************************************************************)

Completed(d, op) ==
  ~m_is_failed /\ request[d].op = op /\ request[d].res >= 0

Add(d, r) == request' = [request EXCEPT ![d] = r]

\* Mutant: the next read is added before the bytes are written.
Mut_HandleRead(d) ==
  /\ Completed(d, "read") /\ request[d].res # 0
  /\ Add(d, add_read_request(d))
  /\ UNCHANGED <<buffer, early, taken, delivered, write_size, write_offset, cut, m_is_failed>>

\* handle_client_read and handle_destination_read.
HandleRead(d) ==
  LET n == request[d].res IN
  /\ Completed(d, "read") /\ n # 0
  /\ write_offset' = [write_offset EXCEPT ![d] = 0]
  /\ write_size' = [write_size EXCEPT ![d] = n]
  /\ Add(d, Write(n, 0))
  /\ UNCHANGED <<buffer, early, taken, delivered, cut, m_is_failed>>

\* An empty read: fail_immediately closes both sockets.  A request that failed:
\* the same, or the Session is deleted when nothing else is in flight.
HandleEnd(d) ==
  /\ ~m_is_failed
  /\ \/ Completed(d, "read") /\ request[d].res = 0
     \/ request[d].res = ERROR
  /\ m_is_failed' = TRUE
  /\ UNCHANGED <<buffer, early, taken, delivered, request, write_size, write_offset, cut>>

\* Mutant: the offset of the bytes already written is not added up.
Mut_remaining(d) == write_size[d] - request[d].res

remaining(d) == write_size[d] - (write_offset[d] + request[d].res)

\* handle_destination_write and handle_client_write.
HandleWrite(d) ==
  /\ Completed(d, "write")
  /\ IF remaining(d) = 0
       THEN /\ Add(d, add_read_request(d))
            /\ UNCHANGED write_offset
       ELSE /\ write_offset' = [write_offset EXCEPT ![d] = @ + request[d].res]
            /\ Add(d, Write(remaining(d), write_offset'[d]))
  /\ UNCHANGED <<buffer, early, taken, delivered, write_size, cut, m_is_failed>>

Next ==
  \E d \in Way :
    \/ \E n \in 0 .. BUFFER_SIZE : KernelRead(d, n) \/ KernelWrite(d, n)
    \/ KernelFails(d)
    \/ HandleRead(d)
    \/ HandleEnd(d)
    \/ HandleWrite(d)

Spec == Init /\ [][Next]_vars

\* The peers take what they are sent and the thread takes the completions.  A
\* peer need not send anything, nor end its stream: a read may wait for ever,
\* and no request has to fail.
FairSpec ==
  /\ Spec
  /\ \A d \in Way :
       /\ WF_vars(\E n \in 0 .. BUFFER_SIZE : KernelWrite(d, n))
       /\ WF_vars(HandleRead(d) \/ HandleEnd(d) \/ HandleWrite(d))

-----------------------------------------------------------------------------
(***************************************************************************)
(* Properties.                                                             *)
(***************************************************************************)

\* Where the relay takes up a stream: the bytes that came early stay in
\* m_read_buffer, and nobody ever sends them on.
Start(d) == IF d = "to_destination" THEN early ELSE 0

\* What a direction has to deliver of what it has read, and of all its source
\* sends.
Due(d) == SubSeq(Stream[d], Start(d) + 1, taken[d])

Forwarded(d) == SubSeq(Stream[d], Start(d) + 1, Len(Stream[d]))

\* The source of the direction has closed its side: the read came back empty.
Ended(d) == request[d].op = "read" /\ request[d].res = 0

Other(d) == CHOOSE e \in Way : e # d

Done(d) == IF request[d].res < 0 THEN 0 ELSE request[d].res

\* The bytes of the last read that are still to be written.
Unwritten(d) ==
  IF request[d].op = "read" THEN Done(d) ELSE request[d].nbytes - Done(d)

\* The variables hold values of their C++ types, and no request is longer than
\* the memory behind its pointer.
TypeOK ==
  /\ DOMAIN buffer = 0 .. BUFFER_SIZE - 1
  /\ taken \in [Way -> Nat]
  /\ {write_size[d] : d \in Way} \cup {write_offset[d] : d \in Way} \subseteq 0 .. BUFFER_SIZE
  /\ \A d \in Way : Half(d) + request[d].nbytes <= BUFFER_SIZE
  /\ m_is_failed \in BOOLEAN

\* As long as no write of a direction is cut short, and whatever happens to the
\* other, what has arrived is a prefix of what its source sent after the relay
\* took over, in order and each byte once; and when the source is seen to end,
\* before both sockets are closed, it is all of that.  It is not all the client
\* sent: what the client sent ahead of the reply is in no Forwarded stream.
DeliveredInOrder ==
  \A d \in Way : ~cut[d] =>
    /\ IsPrefix(delivered[d], Forwarded(d))
    /\ Ended(d) => delivered[d] = Forwarded(d)

\* What the log lines "Partial write ..., re-add write request" and the comment
\* on the two halves say: the write in flight holds the bytes of its direction
\* that follow those already written.  The code points a resumed write to the
\* start of the half again.
WriteHoldsTheRest ==
  \A d \in Way : request[d].op = "write" /\ request[d].res = PENDING =>
    [i \in 1 .. request[d].nbytes |-> buffer[Half(d) + i - 1]]
      = SubSeq(Due(d), Len(delivered[d]) + 1, Len(Due(d)))

\* What is sent in a direction was received for it: the client never gets its
\* own bytes back, nor the destination.
HalvesAreSeparate == \A d \in Way : ToSet(delivered[d]) \subseteq ToSet(Stream[d])

\* However the writes are cut, as many bytes are delivered as were read, less
\* those still to be written: no write is skipped, none is added.
CountsBalance == \A d \in Way : Len(delivered[d]) + Unwritten(d) = Len(Due(d))

\* However the writes are cut, every byte that is read is followed by one more
\* byte delivered (a byte, not the same one: see WriteHoldsTheRest), unless the
\* other direction ends or a request of either fails, which closes both sockets.
ReadBytesArrive ==
  \A d \in Way : \A k \in 1 .. Len(Stream[d]) :
    (Len(Due(d)) >= k) ~> (\/ Len(delivered[d]) >= k
                              \/ Ended(Other(d))
                              \/ \E e \in Way : request[e].res = ERROR)
=============================================================================
