---------------------------- MODULE RelayProofs ----------------------------
(***************************************************************************)
(* Proofs about Relay, for every size of the buffer and all streams.       *)
(***************************************************************************)
EXTENDS Relay, TLAPS

Room(d) == IF d = "to_destination" /\ ~m_is_root THEN BUFFER_SIZE ELSE HALF_BUFFER_SIZE

Requests ==
  [op : {"read", "write"}, nbytes : 0 .. BUFFER_SIZE, offset : 0 .. BUFFER_SIZE, res : Int]

Typed ==
  /\ buffer \in [0 .. BUFFER_SIZE - 1 -> Int]
  /\ early \in EarlyBytes
  /\ taken \in [Way -> Nat]
  /\ delivered \in [Way -> Seq(Int)]
  /\ request \in [Way -> Requests]
  /\ write_size \in [Way -> 0 .. BUFFER_SIZE]
  /\ write_offset \in [Way -> 0 .. BUFFER_SIZE]
  /\ cut \in [Way -> BOOLEAN]
  /\ m_is_failed \in BOOLEAN

\* A request fits behind its pointer, and the kernel moves no more than asked.
RequestFits(d) ==
  /\ request[d].nbytes <= Room(d)
  /\ request[d].res >= 0 => request[d].res <= request[d].nbytes

\* A write in flight carries what the counters say is left of the last read,
\* and as long as none was cut it carries all of it, or fails.
WriteIsTheRest(d) ==
  request[d].op = "write" =>
    /\ write_offset[d] + request[d].nbytes = write_size[d]
    /\ ~cut[d] => request[d].res \in {PENDING, ERROR, request[d].nbytes}

\* Every byte read is delivered or still to be written.
Balanced(d) ==
  /\ taken[d] \in Start(d) .. Len(Stream[d])
  /\ Len(delivered[d]) + Unwritten(d) = taken[d] - Start(d)
  /\ request[d].op = "read" /\ request[d].res = 0 => taken[d] = Len(Stream[d])

RInv ==
  /\ Typed
  /\ \A d \in Way : RequestFits(d) /\ WriteIsTheRest(d) /\ Balanced(d)

\* How many bytes of its half a direction has use for.
Held(d) == IF request[d].op = "read" THEN Done(d) ELSE request[d].nbytes

Holds(d, i) == buffer[Half(d) + i - 1]

\* What a direction has in its half and what it has delivered are its own bytes.
OwnBytes(d) ==
  /\ \A i \in 1 .. Held(d) : Holds(d, i) \in ToSet(Stream[d])
  /\ \A i \in 1 .. Len(delivered[d]) : delivered[d][i] \in ToSet(Stream[d])

\* As long as no write is cut, they are so in order.
OwnOrder(d) ==
  ~cut[d] =>
    /\ \A i \in 1 .. Unwritten(d) :
         Holds(d, i) = Stream[d][Start(d) + Len(delivered[d]) + i]
    /\ \A i \in 1 .. Len(delivered[d]) : delivered[d][i] = Stream[d][Start(d) + i]

OwnInv == \A d \in Way : OwnBytes(d) /\ OwnOrder(d)

-----------------------------------------------------------------------------
(***************************************************************************)
(* The halves, and what a direction owes to nobody but itself.             *)
(***************************************************************************)

\* The two halves and the whole buffer have sizes that fit.
LEMMA HalvesFit ==
  /\ BUFFER_SIZE \in Nat /\ HALF_BUFFER_SIZE \in Nat
  /\ HALF_BUFFER_SIZE > 0 /\ BUFFER_SIZE = HALF_BUFFER_SIZE + HALF_BUFFER_SIZE
  /\ \A d \in Way : /\ Half(d) \in Nat /\ Room(d) \in Nat
                    /\ Room(d) > 0
                    /\ Half(d) + Room(d) <= BUFFER_SIZE
BY HalfBufferAssumption DEF BUFFER_SIZE, Half, Room, Way

\* The streams are sequences of bytes, and a relay starts within its stream.
LEMMA StreamsAreSequences ==
  ASSUME NEW d \in Way
  PROVE  /\ Stream[d] \in Seq(Int) /\ Len(Stream[d]) \in Nat
         /\ early \in EarlyBytes => Start(d) \in 0 .. Len(Stream[d])
<1>1. Stream[d] \in Seq(Int) /\ Len(Stream[d]) \in Nat
  BY StreamAssumption
<1>2. ASSUME early \in EarlyBytes PROVE Start(d) \in 0 .. Len(Stream[d])
  BY <1>1, <1>2, EarlyBytesAssumption DEF Start
<1> QED
  BY <1>1, <1>2

\* A read that is added asks for the room of its direction.
LEMMA AddedRead ==
  ASSUME NEW d \in Way
  PROVE  /\ add_read_request(d) \in Requests
         /\ add_read_request(d) = [op |-> "read", nbytes |-> Room(d), offset |-> 0, res |-> PENDING]
BY HalvesFit DEF add_read_request, Read, Room, Requests, PENDING, BUFFER_SIZE, Way

\* What the handlers and the kernel leave alone in a direction stays true of it.
LEMMA UndisturbedDirection ==
  ASSUME NEW e \in Way,
         RequestFits(e), WriteIsTheRest(e), Balanced(e),
         request'[e] = request[e], taken'[e] = taken[e],
         delivered'[e] = delivered[e], write_size'[e] = write_size[e],
         write_offset'[e] = write_offset[e], cut'[e] = cut[e], early' = early
  PROVE  RequestFits(e)' /\ WriteIsTheRest(e)' /\ Balanced(e)'
BY DEF RequestFits, WriteIsTheRest, Balanced, Unwritten, Done, Start, Room

-----------------------------------------------------------------------------
(***************************************************************************)
(* RInv is inductive, whether the buffers are registered or not.           *)
(***************************************************************************)

LEMMA InitCounts == Init => RInv
<1> SUFFICES ASSUME Init PROVE RInv
  OBVIOUS
<1>1. early \in EarlyBytes /\ early \in Nat
  BY EarlyBytesAssumption, StreamsAreSequences DEF Init, Way
<1>2. ASSUME NEW d \in Way
      PROVE  /\ request[d] \in Requests
             /\ request[d].res = PENDING /\ request[d].nbytes <= Room(d)
             /\ request[d].op = "write" => request[d].nbytes = 0 /\ request[d].offset = 0
  BY <1>2, AddedRead, HalvesFit DEF Init, Write, Requests, PENDING
<1>3. Typed
  <2>1. request \in [Way -> Requests]
    BY <1>2 DEF Init
  <2>2. taken \in [Way -> Nat] /\ cut \in [Way -> BOOLEAN]
    BY <1>1 DEF Init
  <2>3. <<>> \in Seq(Int)
    OBVIOUS
  <2>4. delivered \in [Way -> Seq(Int)]
    BY <2>3 DEF Init
  <2>5. buffer \in [0 .. BUFFER_SIZE - 1 -> Int]
    BY HalvesFit DEF Init
  <2>6. write_size \in [Way -> 0 .. BUFFER_SIZE] /\ write_offset \in [Way -> 0 .. BUFFER_SIZE]
    BY HalvesFit DEF Init
  <2> QED
    BY <1>1, <2>1, <2>2, <2>4, <2>5, <2>6 DEF Init, Typed
<1>4. ASSUME NEW d \in Way PROVE RequestFits(d) /\ WriteIsTheRest(d)
  BY <1>2, <1>4 DEF Init, RequestFits, WriteIsTheRest, PENDING, Requests
<1>5. ASSUME NEW d \in Way PROVE Balanced(d)
  <2>1. taken[d] = Start(d) /\ Len(delivered[d]) = 0
    BY <1>5 DEF Init, Start
  <2>2. Unwritten(d) = 0
    BY <1>2, <1>5 DEF Unwritten, Done, PENDING, Requests
  <2> QED
    BY <1>1, <1>2, <1>5, <2>1, <2>2, StreamsAreSequences DEF Balanced, PENDING
<1> QED
  BY <1>3, <1>4, <1>5 DEF RInv

\* A completion changes what the kernel says of one request, and a handler puts
\* one request in the place of another.
LEMMA OneRequestChanges ==
  ASSUME request \in [Way -> Requests], NEW d \in Way
  PROVE  /\ \A res \in Int : Complete(d, res) =>
              /\ request' \in [Way -> Requests]
              /\ request'[d].op = request[d].op /\ request'[d].nbytes = request[d].nbytes
              /\ request'[d].offset = request[d].offset /\ request'[d].res = res
              /\ \A e \in Way : e # d => request'[e] = request[e]
         /\ \A r \in Requests : Add(d, r) =>
              /\ request' \in [Way -> Requests]
              /\ request'[d] = r
              /\ \A e \in Way : e # d => request'[e] = request[e]
<1>1. ASSUME NEW res \in Int, Complete(d, res)
      PROVE  /\ request' \in [Way -> Requests]
             /\ request'[d].op = request[d].op /\ request'[d].nbytes = request[d].nbytes
             /\ request'[d].offset = request[d].offset /\ request'[d].res = res
             /\ \A e \in Way : e # d => request'[e] = request[e]
  BY <1>1 DEF Complete, Requests
<1>2. ASSUME NEW r \in Requests, Add(d, r)
      PROVE  /\ request' \in [Way -> Requests]
             /\ request'[d] = r
             /\ \A e \in Way : e # d => request'[e] = request[e]
  BY <1>2 DEF Add
<1> QED
  BY <1>1, <1>2

LEMMA KernelReadKeepsCounts ==
  ASSUME RInv, NEW d \in Way, NEW n \in 0 .. BUFFER_SIZE, KernelRead(d, n)
  PROVE  RInv'
<1>1. /\ request' \in [Way -> Requests]
      /\ request'[d].op = request[d].op /\ request'[d].nbytes = request[d].nbytes
      /\ request'[d].offset = request[d].offset /\ request'[d].res = n
      /\ \A e \in Way : e # d => request'[e] = request[e]
  <2>1. n \in Int /\ Complete(d, n) /\ request \in [Way -> Requests]
    BY HalvesFit DEF KernelRead, RInv, Typed
  <2> QED
    BY <2>1, OneRequestChanges
<1>2. Len(Stream[d]) \in Nat /\ Start(d) \in Nat
  BY StreamsAreSequences DEF RInv, Typed
<1>3. /\ taken' \in [Way -> Nat] /\ taken'[d] = taken[d] + n
      /\ \A e \in Way : e # d => taken'[e] = taken[e]
  BY HalvesFit, SMTT(60) DEF KernelRead, RInv, Typed
<1>4. buffer' \in [0 .. BUFFER_SIZE - 1 -> Int]
  <2>1. ASSUME NEW i \in 0 .. BUFFER_SIZE - 1, i - Half(d) \in 0 .. n - 1
        PROVE  Stream[d][taken[d] + i - Half(d) + 1] \in Int
    <3>1. taken[d] \in Nat /\ taken[d] + n <= Len(Stream[d]) /\ Half(d) \in Nat
      BY HalvesFit DEF KernelRead, RInv, Typed
    <3>2. n \in Nat /\ i \in Int
      BY HalvesFit
    <3>3. taken[d] + i - Half(d) + 1 \in 1 .. Len(Stream[d])
      BY <1>2, <2>1, <3>1, <3>2, SMTT(60)
    <3> QED
      BY <3>3, StreamsAreSequences
  <2>2. DOMAIN buffer = 0 .. BUFFER_SIZE - 1
    BY DEF RInv, Typed
  <2> QED
    BY <2>1, <2>2 DEF KernelRead, RInv, Typed
<1>5. Typed'
  BY <1>1, <1>3, <1>4 DEF KernelRead, RInv, Typed
<1>6. ASSUME NEW e \in Way PROVE RequestFits(e)' /\ WriteIsTheRest(e)' /\ Balanced(e)'
  <2>1. CASE e = d
    <3>1. request[d].op = "read" /\ request[d].res = PENDING
      BY DEF KernelRead
    <3>2. RequestFits(d)'
      BY <1>1, <3>1 DEF KernelRead, RequestFits, RInv, Room
    <3>3. WriteIsTheRest(d)'
      BY <1>1, <3>1 DEF WriteIsTheRest
    <3>4. Unwritten(d) = 0 /\ Unwritten(d)' = n
      BY <1>1, <3>1 DEF Unwritten, Done, PENDING
    <3>5. Start(d)' = Start(d) /\ delivered' = delivered
      BY DEF KernelRead, Start
    <3>6. /\ taken[d] \in Start(d) .. Len(Stream[d])
          /\ Len(delivered[d]) + 0 = taken[d] - Start(d)
      BY <3>4 DEF RInv, Balanced
    <3>7. taken[d] + n <= Len(Stream[d]) /\ (n = 0 => taken[d] = Len(Stream[d]))
      BY DEF KernelRead
    <3>8. delivered[d] \in Seq(Int)
      BY DEF RInv, Typed
    <3>9. Len(delivered[d]) \in Nat
      BY <3>8
    <3>10. n \in Nat /\ taken[d] \in Int /\ taken'[d] = taken[d] + n
      BY <1>3, HalvesFit DEF RInv, Typed
    <3>11. taken'[d] \in Start(d) .. Len(Stream[d])
      BY <1>2, <3>6, <3>7, <3>10
    <3>12. Len(delivered[d]) + n = taken'[d] - Start(d)
      BY <1>2, <3>6, <3>9, <3>10, SMTT(60)
    <3>13. n = 0 => taken'[d] = Len(Stream[d])
      BY <1>2, <3>7, <3>10
    <3>14. Balanced(d)'
      BY <1>1, <3>4, <3>5, <3>11, <3>12, <3>13 DEF Balanced
    <3> QED
      BY <2>1, <3>2, <3>3, <3>14
  <2>2. CASE e # d
    BY <1>1, <1>3, <2>2, UndisturbedDirection DEF KernelRead, RInv
  <2> QED
    BY <2>1, <2>2
<1> QED
  BY <1>5, <1>6 DEF RInv

\* The bytes a write moves are those behind its pointer.
LEMMA WrittenBytes ==
  ASSUME RInv, NEW d \in Way, NEW n \in 0 .. BUFFER_SIZE,
         request[d].op = "write", n <= request[d].nbytes
  PROVE  LET bytes == [i \in 1 .. n |-> buffer[Half(d) + i - 1]]
         IN  /\ bytes \in Seq(Int) /\ Len(bytes) = n
             /\ \A i \in 1 .. n : bytes[i] = Holds(d, i)
<1>1. n \in Nat /\ n <= Room(d)
  BY HalvesFit, SMTT(60) DEF RInv, Typed, Requests, RequestFits
<1>2. ASSUME NEW i \in 1 .. n PROVE buffer[Half(d) + i - 1] \in Int
  <2>1. Half(d) + i - 1 \in 0 .. BUFFER_SIZE - 1
    BY <1>1, HalvesFit
  <2> QED
    BY <2>1 DEF RInv, Typed
<1> QED
  BY <1>1, <1>2 DEF Holds

\* What is delivered is longer by what was written.
LEMMA Appended ==
  ASSUME NEW s \in Seq(Int), NEW t \in Seq(Int)
  PROVE  /\ s \o t \in Seq(Int) /\ Len(s \o t) = Len(s) + Len(t)
         /\ \A i \in 1 .. Len(s) : (s \o t)[i] = s[i]
         /\ \A i \in 1 .. Len(t) : (s \o t)[Len(s) + i] = t[i]
BY SMTT(60)

LEMMA KernelWriteKeepsCounts ==
  ASSUME RInv, NEW d \in Way, NEW n \in 0 .. BUFFER_SIZE, KernelWrite(d, n)
  PROVE  RInv'
<1> DEFINE bytes == [i \in 1 .. n |-> buffer[Half(d) + i - 1]]
<1>1. /\ request' \in [Way -> Requests]
      /\ request'[d].op = request[d].op /\ request'[d].nbytes = request[d].nbytes
      /\ request'[d].offset = request[d].offset /\ request'[d].res = n
      /\ \A e \in Way : e # d => request'[e] = request[e]
  <2>1. n \in Int /\ Complete(d, n) /\ request \in [Way -> Requests]
    BY HalvesFit DEF KernelWrite, RInv, Typed
  <2> QED
    BY <2>1, OneRequestChanges
<1>2. bytes \in Seq(Int) /\ Len(bytes) = n
  BY WrittenBytes DEF KernelWrite
<1>3. delivered' = [delivered EXCEPT ![d] = @ \o bytes] /\ delivered[d] \in Seq(Int)
  BY DEF KernelWrite, RInv, Typed
<1> HIDE DEF bytes
<1>4. /\ delivered' \in [Way -> Seq(Int)]
      /\ Len(delivered'[d]) = Len(delivered[d]) + n
      /\ \A e \in Way : e # d => delivered'[e] = delivered[e]
  BY <1>2, <1>3, Appended DEF RInv, Typed
<1>5. /\ cut' \in [Way -> BOOLEAN]
      /\ cut'[d] = (cut[d] \/ n < request[d].nbytes)
      /\ \A e \in Way : e # d => cut'[e] = cut[e]
  <2>1. cut' = [cut EXCEPT ![d] = @ \/ n < request[d].nbytes] /\ cut \in [Way -> BOOLEAN]
    BY DEF KernelWrite, RInv, Typed
  <2>2. (cut[d] \/ n < request[d].nbytes) \in BOOLEAN
    OBVIOUS
  <2> QED
    BY <2>1, <2>2, Zenon
<1>6. Typed'
  BY <1>1, <1>4, <1>5 DEF KernelWrite, RInv, Typed
<1>7. ASSUME NEW e \in Way PROVE RequestFits(e)' /\ WriteIsTheRest(e)' /\ Balanced(e)'
  <2>1. CASE e = d
    <3>1. /\ request[d].op = "write" /\ request[d].res = PENDING
          /\ n <= request[d].nbytes /\ request[d].nbytes \in Nat /\ n \in Nat
      BY HalvesFit DEF KernelWrite, RInv, Typed, Requests
    <3>2. RequestFits(d)'
      BY <1>1, <3>1 DEF RequestFits, RInv, Room
    <3>3. WriteIsTheRest(d)'
      <4>1. write_offset' = write_offset /\ write_size' = write_size
        BY DEF KernelWrite
      <4>2. ~cut'[d] => ~cut[d] /\ n = request[d].nbytes
        BY <1>5, <3>1
      <4> QED
        BY <1>1, <3>1, <4>1, <4>2 DEF WriteIsTheRest, RInv
    <3>4. Unwritten(d) = request[d].nbytes /\ Unwritten(d)' = request[d].nbytes - n
      BY <1>1, <3>1 DEF Unwritten, Done, PENDING
    <3>5. Start(d)' = Start(d) /\ taken' = taken
      BY DEF KernelWrite, Start
    <3>6. Len(delivered[d]) \in Nat
      BY <1>3
    <3>7. Balanced(d)'
      BY <1>1, <1>4, <3>1, <3>4, <3>5, <3>6 DEF Balanced, RInv
    <3> QED
      BY <2>1, <3>2, <3>3, <3>7
  <2>2. CASE e # d
    BY <1>1, <1>4, <1>5, <2>2, UndisturbedDirection DEF KernelWrite, RInv
  <2> QED
    BY <2>1, <2>2
<1> QED
  BY <1>6, <1>7 DEF RInv

LEMMA KernelFailsKeepsCounts ==
  ASSUME RInv, NEW d \in Way, KernelFails(d)
  PROVE  RInv'
<1>1. /\ request' \in [Way -> Requests]
      /\ request'[d].op = request[d].op /\ request'[d].nbytes = request[d].nbytes
      /\ request'[d].offset = request[d].offset /\ request'[d].res = ERROR
      /\ \A e \in Way : e # d => request'[e] = request[e]
  <2>1. ERROR \in Int /\ Complete(d, ERROR) /\ request \in [Way -> Requests]
    BY DEF KernelFails, RInv, Typed, ERROR
  <2> QED
    BY <2>1, OneRequestChanges
<1>2. Typed'
  BY <1>1 DEF KernelFails, RInv, Typed
<1>3. ASSUME NEW e \in Way PROVE RequestFits(e)' /\ WriteIsTheRest(e)' /\ Balanced(e)'
  <2>1. CASE e = d
    <3>1. request[d].res = PENDING
      BY DEF KernelFails
    <3>2. RequestFits(d)' /\ WriteIsTheRest(d)'
      BY <1>1 DEF KernelFails, RequestFits, WriteIsTheRest, RInv, Room, ERROR
    \* Nothing was done by the request, and nothing will be.
    <3>3. Unwritten(d)' = Unwritten(d)
      BY <1>1, <3>1 DEF Unwritten, Done, PENDING, ERROR
    <3>4. Balanced(d)'
      BY <1>1, <3>3 DEF KernelFails, Balanced, RInv, Start, ERROR
    <3> QED
      BY <2>1, <3>2, <3>4
  <2>2. CASE e # d
    BY <1>1, <2>2, UndisturbedDirection DEF KernelFails, RInv
  <2> QED
    BY <2>1, <2>2
<1> QED
  BY <1>2, <1>3 DEF RInv

LEMMA HandleReadKeepsCounts ==
  ASSUME RInv, NEW d \in Way, HandleRead(d)
  PROVE  RInv'
<1> DEFINE n == request[d].res
<1>1. /\ request[d].op = "read" /\ n >= 0 /\ n # 0 /\ n <= request[d].nbytes
      /\ n \in 0 .. BUFFER_SIZE /\ n \in Nat
      /\ Add(d, Write(n, 0))
  BY HalvesFit, SMTT(60) DEF HandleRead, Completed, RInv, Typed, Requests, RequestFits
<1> HIDE DEF n
<1>2. Write(n, 0) \in Requests
  BY <1>1, HalvesFit DEF Write, Requests, PENDING
<1>3. /\ request' \in [Way -> Requests] /\ request'[d] = Write(n, 0)
      /\ \A e \in Way : e # d => request'[e] = request[e]
  BY <1>1, <1>2, OneRequestChanges DEF RInv, Typed
<1>4. /\ write_size' \in [Way -> 0 .. BUFFER_SIZE] /\ write_size'[d] = n
      /\ write_offset' \in [Way -> 0 .. BUFFER_SIZE] /\ write_offset'[d] = 0
      /\ \A e \in Way : e # d => write_size'[e] = write_size[e] /\ write_offset'[e] = write_offset[e]
  BY <1>1, HalvesFit, SMTT(60) DEF HandleRead, RInv, Typed, n
<1>5. Typed'
  BY <1>3, <1>4 DEF HandleRead, RInv, Typed
<1>6. ASSUME NEW e \in Way PROVE RequestFits(e)' /\ WriteIsTheRest(e)' /\ Balanced(e)'
  <2>1. CASE e = d
    <3>1. n <= Room(d)
      <4>1. request[d].nbytes \in Nat /\ request[d].nbytes <= Room(d) /\ Room(d) \in Nat
        BY HalvesFit DEF RInv, Typed, Requests, RequestFits
      <4> QED
        BY <1>1, <4>1
    <3>2. RequestFits(d)' /\ WriteIsTheRest(d)'
      BY <1>1, <1>3, <1>4, <3>1 DEF RequestFits, WriteIsTheRest, Write, Room, PENDING
    <3>3. Unwritten(d) = n /\ Unwritten(d)' = n
      BY <1>1, <1>3 DEF Unwritten, Done, Write, PENDING, n
    <3>4. Balanced(d)'
      BY <1>3, <3>3 DEF HandleRead, Balanced, RInv, Start, Write
    <3> QED
      BY <2>1, <3>2, <3>4
  <2>2. CASE e # d
    BY <1>3, <1>4, <2>2, UndisturbedDirection DEF HandleRead, RInv
  <2> QED
    BY <2>1, <2>2
<1> QED
  BY <1>5, <1>6 DEF RInv

LEMMA HandleEndKeepsCounts ==
  ASSUME RInv, NEW d \in Way, HandleEnd(d)
  PROVE  RInv'
<1>1. Typed'
  BY DEF HandleEnd, RInv, Typed
<1>2. ASSUME NEW e \in Way PROVE RequestFits(e)' /\ WriteIsTheRest(e)' /\ Balanced(e)'
  BY UndisturbedDirection DEF HandleEnd, RInv
<1> QED
  BY <1>1, <1>2 DEF RInv

LEMMA HandleWriteKeepsCounts ==
  ASSUME RInv, NEW d \in Way, HandleWrite(d)
  PROVE  RInv'
<1> DEFINE rest == remaining(d)
<1>1. /\ request[d].op = "write" /\ request[d].res \in Nat
      /\ request[d].nbytes \in Nat /\ request[d].res <= request[d].nbytes
      /\ write_offset[d] \in Nat /\ write_size[d] \in 0 .. BUFFER_SIZE
      /\ write_offset[d] + request[d].nbytes = write_size[d]
  BY HalvesFit, SMTT(60) DEF HandleWrite, Completed, RInv, Typed, Requests, RequestFits, WriteIsTheRest
<1>2. rest = request[d].nbytes - request[d].res /\ rest \in Nat
  BY <1>1, HalvesFit DEF remaining
<1>3. Len(delivered[d]) \in Nat
  BY DEF RInv, Typed
<1> HIDE DEF rest
<1>4. Unwritten(d) = rest
  BY <1>1, <1>2 DEF Unwritten, Done
<1>5. CASE rest = 0
  <2>1. /\ request' \in [Way -> Requests] /\ request'[d] = add_read_request(d)
        /\ \A e \in Way : e # d => request'[e] = request[e]
    BY <1>5, OneRequestChanges, AddedRead DEF HandleWrite, RInv, Typed, rest
  <2>2. UNCHANGED <<buffer, early, taken, delivered, write_size, write_offset, cut, m_is_failed>>
    BY <1>5 DEF HandleWrite, rest
  <2>3. Typed'
    BY <2>1, <2>2 DEF RInv, Typed
  <2>4. ASSUME NEW e \in Way PROVE RequestFits(e)' /\ WriteIsTheRest(e)' /\ Balanced(e)'
    <3>1. CASE e = d
      <4>1. /\ request'[d].op = "read" /\ request'[d].res = PENDING
            /\ request'[d].nbytes = Room(d)
        BY <2>1, AddedRead
      <4>2. RequestFits(d)' /\ WriteIsTheRest(d)'
        BY <4>1, HalvesFit DEF RequestFits, WriteIsTheRest, Room, PENDING
      <4>3. Unwritten(d)' = 0
        BY <4>1 DEF Unwritten, Done, PENDING
      <4>4. Balanced(d)'
        BY <1>4, <1>5, <2>2, <4>1, <4>3 DEF Balanced, RInv, Start, PENDING
      <4> QED
        BY <3>1, <4>2, <4>4
    <3>2. CASE e # d
      BY <2>1, <2>2, <3>2, UndisturbedDirection DEF RInv
    <3> QED
      BY <3>1, <3>2
  <2> QED
    BY <2>3, <2>4 DEF RInv
<1>6. CASE rest # 0
  <2> DEFINE off == write_offset[d] + request[d].res
  <2>1. off \in 0 .. BUFFER_SIZE /\ off + rest = write_size[d] /\ rest \in 0 .. BUFFER_SIZE
    BY <1>1, <1>2, HalvesFit
  <2>2. write_offset' = [write_offset EXCEPT ![d] = off]
    BY <1>6 DEF HandleWrite, rest
  <2>3. write_offset'[d] = off /\ Add(d, Write(rest, off))
    <3>1. write_offset \in [Way -> 0 .. BUFFER_SIZE]
      BY DEF RInv, Typed
    <3>2. write_offset'[d] = off
      BY <2>2, <3>1
    <3> QED
      BY <1>6, <3>2 DEF HandleWrite, rest
  <2>4. UNCHANGED <<buffer, early, taken, delivered, write_size, cut, m_is_failed>>
    BY DEF HandleWrite
  <2> HIDE DEF off
  <2>5. Write(rest, off) \in Requests
    BY <2>1, HalvesFit DEF Write, Requests, PENDING
  <2>6. /\ request' \in [Way -> Requests] /\ request'[d] = Write(rest, off)
        /\ \A e \in Way : e # d => request'[e] = request[e]
    BY <2>3, <2>5, OneRequestChanges DEF RInv, Typed
  <2>7. /\ write_offset' \in [Way -> 0 .. BUFFER_SIZE]
        /\ \A e \in Way : e # d => write_offset'[e] = write_offset[e]
    BY <2>1, <2>2 DEF RInv, Typed
  <2>8. Typed'
    BY <2>4, <2>6, <2>7 DEF RInv, Typed
  <2>9. ASSUME NEW e \in Way PROVE RequestFits(e)' /\ WriteIsTheRest(e)' /\ Balanced(e)'
    <3>1. CASE e = d
      <4>1. /\ request'[d].op = "write" /\ request'[d].res = PENDING
            /\ request'[d].nbytes = rest
        BY <2>6 DEF Write
      \* A rest means that the write was cut.
      <4>2. cut'[d]
        <5>1. request[d].res \notin {PENDING, ERROR, request[d].nbytes}
          BY <1>1, <1>2, <1>6 DEF PENDING, ERROR
        <5> QED
          BY <1>1, <2>4, <5>1 DEF RInv, WriteIsTheRest
      <4>3. rest <= Room(d)
        BY <1>1, <1>2, HalvesFit DEF RInv, RequestFits
      <4>4. RequestFits(d)' /\ WriteIsTheRest(d)'
        BY <2>1, <2>3, <2>4, <4>1, <4>2, <4>3 DEF RequestFits, WriteIsTheRest, Room, PENDING
      <4>5. Unwritten(d)' = rest
        BY <1>2, <4>1 DEF Unwritten, Done, PENDING
      <4>6. Balanced(d)'
        BY <1>4, <2>4, <4>1, <4>5 DEF Balanced, RInv, Start
      <4> QED
        BY <3>1, <4>4, <4>6
    <3>2. CASE e # d
      BY <2>4, <2>6, <2>7, <3>2, UndisturbedDirection DEF RInv
    <3> QED
      BY <3>1, <3>2
  <2> QED
    BY <2>8, <2>9 DEF RInv
<1> QED
  BY <1>5, <1>6

\* Whatever the kernel does and whichever way the bytes go, every step keeps
\* the counts of both directions.
LEMMA StepKeepsCounts == RInv /\ [Next]_vars => RInv'
<1> SUFFICES ASSUME RInv, [Next]_vars PROVE RInv'
  OBVIOUS
<1>1. ASSUME NEW d \in Way, NEW n \in 0 .. BUFFER_SIZE, KernelRead(d, n) \/ KernelWrite(d, n)
      PROVE  RInv'
  BY <1>1, KernelReadKeepsCounts, KernelWriteKeepsCounts
<1>2. ASSUME NEW d \in Way, KernelFails(d) PROVE RInv'
  BY <1>2, KernelFailsKeepsCounts
<1>3. ASSUME NEW d \in Way, HandleRead(d) PROVE RInv'
  BY <1>3, HandleReadKeepsCounts
<1>4. ASSUME NEW d \in Way, HandleEnd(d) PROVE RInv'
  BY <1>4, HandleEndKeepsCounts
<1>5. ASSUME NEW d \in Way, HandleWrite(d) PROVE RInv'
  BY <1>5, HandleWriteKeepsCounts
<1>6. CASE UNCHANGED vars
  <2>1. Typed'
    BY <1>6 DEF vars, RInv, Typed
  <2>2. ASSUME NEW e \in Way PROVE RequestFits(e)' /\ WriteIsTheRest(e)' /\ Balanced(e)'
    BY <1>6, UndisturbedDirection DEF vars, RInv
  <2> QED
    BY <2>1, <2>2 DEF RInv
<1> QED
  BY <1>1, <1>2, <1>3, <1>4, <1>5, <1>6 DEF Next

\* The counts of both directions hold in every state of the relay.
THEOREM CountsHold == Spec => []RInv
<1>1. RInv /\ [Next]_vars => RInv'
  BY StepKeepsCounts
<1> QED
  BY <1>1, InitCounts, PTL DEF Spec

\* The bytes of a stream from where the relay takes it up, one by one.
LEMMA TakenUp ==
  ASSUME RInv, NEW d \in Way, NEW last \in Start(d) .. Len(Stream[d])
  PROVE  LET part == SubSeq(Stream[d], Start(d) + 1, last)
         IN  /\ part \in Seq(Int) /\ Len(part) = last - Start(d)
             /\ \A i \in 1 .. last - Start(d) : part[i] = Stream[d][Start(d) + i]
<1>1. Start(d) \in Nat /\ Stream[d] \in Seq(Int)
  BY StreamsAreSequences DEF RInv, Typed
<1>2. ASSUME NEW s \in Seq(Int), NEW a \in Nat, NEW b \in a .. Len(s)
      PROVE  /\ SubSeq(s, a + 1, b) \in Seq(Int) /\ Len(SubSeq(s, a + 1, b)) = b - a
             /\ \A i \in 1 .. b - a : SubSeq(s, a + 1, b)[i] = s[a + i]
  OBVIOUS
<1> QED
  BY <1>1, <1>2

\* As many bytes are due as were read since then.
LEMMA DueBytes ==
  ASSUME RInv, NEW d \in Way
  PROVE  Len(Due(d)) = taken[d] - Start(d)
BY TakenUp DEF Due, RInv, Balanced

\* No request of a relay reaches past the buffer of its session, whether the
\* buffers are registered or not, and the counters of its writes stay in range.
THEOREM TypeCorrect == Spec => []TypeOK
<1>1. RInv => TypeOK
  <2> SUFFICES ASSUME RInv PROVE TypeOK
    OBVIOUS
  <2>1. DOMAIN buffer = 0 .. BUFFER_SIZE - 1 /\ taken \in [Way -> Nat] /\ m_is_failed \in BOOLEAN
    BY DEF RInv, Typed
  <2>2. {write_size[d] : d \in Way} \cup {write_offset[d] : d \in Way} \subseteq 0 .. BUFFER_SIZE
    BY DEF RInv, Typed
  <2>3. ASSUME NEW d \in Way PROVE Half(d) + request[d].nbytes <= BUFFER_SIZE
    BY HalvesFit, SMTT(60) DEF RInv, Typed, Requests, RequestFits
  <2> QED
    BY <2>1, <2>2, <2>3 DEF TypeOK
<1> QED
  BY <1>1, CountsHold, PTL

\* However the kernel cuts the writes of a relay, and even where a resumed one
\* sends the wrong bytes, each direction has delivered as many bytes as it has
\* read, less those the write in flight still owes.
THEOREM CountsBalanceHolds == Spec => []CountsBalance
<1>1. RInv => CountsBalance
  BY DueBytes DEF RInv, Balanced, CountsBalance
<1> QED
  BY <1>1, CountsHold, PTL

-----------------------------------------------------------------------------
(***************************************************************************)
(* OwnInv is inductive when the buffers are registered: each direction     *)
(* then reads into a half of its own.                                      *)
(***************************************************************************)

\* With registered buffers the halves are disjoint.
LEMMA HalvesAreDisjoint ==
  ASSUME m_is_root, NEW d \in Way, NEW e \in Way, e # d,
         NEW i \in 1 .. Room(d), NEW j \in 1 .. Room(e)
  PROVE  Half(d) + i - 1 # Half(e) + j - 1
BY HalfBufferAssumption DEF Room, Half, Way

\* A direction has use for no more than the room it has.
LEMMA HeldFits ==
  ASSUME RInv, NEW d \in Way
  PROVE  /\ Held(d) \in Nat /\ Held(d) <= Room(d)
         /\ Unwritten(d) \in Nat /\ Unwritten(d) <= Held(d)
         /\ Start(d) \in Nat /\ Len(delivered[d]) \in Nat
         /\ taken[d] = Start(d) + Len(delivered[d]) + Unwritten(d)
         /\ taken[d] <= Len(Stream[d])
<1>1. /\ request[d].nbytes \in Nat /\ request[d].nbytes <= Room(d) /\ Room(d) \in Nat
      /\ request[d].res \in Int /\ (request[d].res >= 0 => request[d].res <= request[d].nbytes)
      /\ request[d].op \in {"read", "write"}
  BY HalvesFit, SMTT(60) DEF RInv, Typed, Requests, RequestFits
<1>2. /\ Held(d) \in Nat /\ Held(d) <= Room(d)
      /\ Unwritten(d) \in Nat /\ Unwritten(d) <= Held(d)
  <2>1. Done(d) \in Nat /\ Done(d) <= request[d].nbytes
    BY <1>1 DEF Done
  <2>2. CASE request[d].op = "read"
    <3>1. Held(d) = Done(d) /\ Unwritten(d) = Done(d)
      BY <2>2 DEF Held, Unwritten
    <3> QED
      BY <1>1, <2>1, <3>1
  <2>3. CASE request[d].op = "write"
    <3>1. Held(d) = request[d].nbytes /\ Unwritten(d) = request[d].nbytes - Done(d)
      BY <2>3 DEF Held, Unwritten
    <3> QED
      BY <1>1, <2>1, <3>1
  <2> QED
    BY <1>1, <2>2, <2>3
<1>3. Start(d) \in Nat /\ taken[d] \in Nat
  BY StreamsAreSequences DEF RInv, Typed
<1>4. Len(delivered[d]) \in Nat
  BY DEF RInv, Typed
<1>5. /\ Len(delivered[d]) + Unwritten(d) = taken[d] - Start(d)
      /\ taken[d] <= Len(Stream[d])
  BY <1>3, StreamsAreSequences DEF RInv, Balanced
<1> QED
  BY <1>2, <1>3, <1>4, <1>5, SMTT(60)

\* A direction whose request and half are left alone keeps its bytes.
LEMMA UndisturbedBytes ==
  ASSUME RInv, NEW e \in Way, OwnBytes(e), OwnOrder(e),
         request'[e] = request[e], delivered'[e] = delivered[e], cut'[e] = cut[e], early' = early,
         \A i \in 1 .. Room(e) : Holds(e, i)' = Holds(e, i)
  PROVE  OwnBytes(e)' /\ OwnOrder(e)'
<1>1. Held(e)' = Held(e) /\ Unwritten(e)' = Unwritten(e) /\ Start(e)' = Start(e)
  BY DEF Held, Unwritten, Done, Start
<1>2. \A i \in 1 .. Held(e) : i \in 1 .. Room(e)
  BY HeldFits, HalvesFit
<1>3. \A i \in 1 .. Unwritten(e) : i \in 1 .. Room(e)
  BY HeldFits, HalvesFit
<1>4. OwnBytes(e)'
  BY <1>1, <1>2 DEF OwnBytes
<1>5. OwnOrder(e)'
  BY <1>1, <1>3 DEF OwnOrder
<1> QED
  BY <1>4, <1>5

LEMMA InitOwns == Init => OwnInv
<1> SUFFICES ASSUME Init, NEW d \in Way PROVE OwnBytes(d) /\ OwnOrder(d)
  BY DEF OwnInv
<1>1. Len(delivered[d]) = 0
  BY DEF Init
<1>2. Held(d) = 0 /\ Unwritten(d) = 0
  BY AddedRead DEF Init, Held, Unwritten, Done, Write, PENDING
<1> QED
  BY <1>1, <1>2 DEF OwnBytes, OwnOrder

LEMMA KernelReadKeepsOwn ==
  ASSUME m_is_root, RInv, OwnInv, NEW d \in Way, NEW n \in 0 .. BUFFER_SIZE, KernelRead(d, n)
  PROVE  OwnInv'
<1>1. /\ request'[d].op = request[d].op /\ request'[d].nbytes = request[d].nbytes
      /\ request'[d].res = n
      /\ \A e \in Way : e # d => request'[e] = request[e]
  <2>1. n \in Int /\ Complete(d, n) /\ request \in [Way -> Requests]
    BY HalvesFit DEF KernelRead, RInv, Typed
  <2> QED
    BY <2>1, OneRequestChanges
<1>2. /\ request[d].op = "read" /\ request[d].res = PENDING
      /\ taken[d] + n <= Len(Stream[d])
  BY DEF KernelRead
<1>3. n \in Nat /\ n <= Room(d)
  <2>1. /\ n <= request[d].nbytes /\ request[d].nbytes \in Nat
        /\ request[d].nbytes <= Room(d) /\ Room(d) \in Nat
    BY HalvesFit DEF KernelRead, RInv, Typed, Requests, RequestFits
  <2> QED
    BY <2>1, HalvesFit
<1>4. ASSUME NEW e \in Way, NEW i \in 1 .. Room(e)
      PROVE  /\ Half(e) + i - 1 \in DOMAIN buffer
             /\ Half(e) + i - 1 \in Int
  <2>1. DOMAIN buffer = 0 .. BUFFER_SIZE - 1
    BY DEF RInv, Typed
  <2> QED
    BY <2>1, HalvesFit
<1>5. ASSUME NEW e \in Way PROVE OwnBytes(e)' /\ OwnOrder(e)'
  <2>1. CASE e = d
    <3>1. ASSUME NEW i \in 1 .. n
          PROVE  Holds(d, i)' = Stream[d][taken[d] + i]
      <4>1. /\ Half(d) + i - 1 \in DOMAIN buffer
            /\ (Half(d) + i - 1) - Half(d) \in 0 .. n - 1
            /\ taken[d] + (Half(d) + i - 1) - Half(d) + 1 = taken[d] + i
        <5>1. i \in 1 .. Room(d) /\ Half(d) \in Nat /\ taken[d] \in Nat
          BY <1>3, HalvesFit, SMTT(60) DEF RInv, Typed
        <5>2. Half(d) + i - 1 \in DOMAIN buffer
          BY <1>4, <5>1
        <5> QED
          BY <1>3, <5>1, <5>2
      <4>2. buffer'[Half(d) + i - 1] = Stream[d][taken[d] + (Half(d) + i - 1) - Half(d) + 1]
        BY <4>1 DEF KernelRead
      <4> QED
        BY <4>1, <4>2 DEF Holds
    <3>2. Held(d)' = n /\ Unwritten(d)' = n /\ Unwritten(d) = 0
      BY <1>1, <1>2, <1>3 DEF Held, Unwritten, Done, PENDING
    <3>3. /\ delivered' = delivered /\ cut' = cut /\ Start(d)' = Start(d)
          /\ taken[d] = Start(d) + Len(delivered[d]) /\ taken[d] \in Nat
      BY <3>2, HeldFits, SMTT(60) DEF KernelRead, Start, RInv, Typed
    <3>4. ASSUME NEW i \in 1 .. n PROVE Stream[d][taken[d] + i] \in ToSet(Stream[d])
      <4>1. taken[d] + i \in 1 .. Len(Stream[d])
        BY <1>2, <1>3, <3>3, StreamsAreSequences, SMTT(60)
      <4> QED
        BY <4>1, StreamsAreSequences DEF ToSet
    <3>5. OwnBytes(d)'
      BY <3>1, <3>2, <3>3, <3>4 DEF OwnBytes, OwnInv
    <3>6. OwnOrder(d)'
      BY <3>1, <3>2, <3>3 DEF OwnOrder, OwnInv
    <3> QED
      BY <2>1, <3>5, <3>6
  <2>2. CASE e # d
    <3>1. ASSUME NEW i \in 1 .. Room(e) PROVE Holds(e, i)' = Holds(e, i)
      <4>1. (Half(e) + i - 1) - Half(d) \notin 0 .. n - 1
        <5>1. SUFFICES ASSUME (Half(e) + i - 1) - Half(d) \in 0 .. n - 1 PROVE FALSE
          OBVIOUS
        <5> DEFINE k == (Half(e) + i - 1) - Half(d) + 1
        <5>2. k \in 1 .. Room(d) /\ Half(d) + k - 1 = Half(e) + i - 1
          BY <1>3, <5>1, HalvesFit
        <5> QED
          BY <2>2, <5>2, HalvesAreDisjoint
      <4> QED
        BY <1>4, <4>1 DEF KernelRead, Holds
    <3> QED
      BY <1>1, <2>2, <3>1, UndisturbedBytes DEF KernelRead, OwnInv
  <2> QED
    BY <2>1, <2>2
<1> QED
  BY <1>5 DEF OwnInv

LEMMA KernelWriteKeepsOwn ==
  ASSUME m_is_root, RInv, OwnInv, NEW d \in Way, NEW n \in 0 .. BUFFER_SIZE, KernelWrite(d, n)
  PROVE  OwnInv'
<1> DEFINE bytes == [i \in 1 .. n |-> buffer[Half(d) + i - 1]]
<1>1. /\ request'[d].op = request[d].op /\ request'[d].nbytes = request[d].nbytes
      /\ request'[d].res = n
      /\ \A e \in Way : e # d => request'[e] = request[e]
  <2>1. n \in Int /\ Complete(d, n) /\ request \in [Way -> Requests]
    BY HalvesFit DEF KernelWrite, RInv, Typed
  <2> QED
    BY <2>1, OneRequestChanges
<1>2. /\ request[d].op = "write" /\ request[d].res = PENDING
      /\ n <= request[d].nbytes /\ n \in Nat /\ request[d].nbytes \in Nat
  BY HalvesFit DEF KernelWrite, RInv, Typed, Requests
<1>3. /\ bytes \in Seq(Int) /\ Len(bytes) = n
      /\ \A i \in 1 .. n : bytes[i] = Holds(d, i)
  BY <1>2, WrittenBytes
<1>4. delivered' = [delivered EXCEPT ![d] = @ \o bytes] /\ delivered[d] \in Seq(Int)
  BY DEF KernelWrite, RInv, Typed
<1> HIDE DEF bytes
<1>5. /\ delivered'[d] = delivered[d] \o bytes
      /\ \A e \in Way : e # d => delivered'[e] = delivered[e]
  BY <1>4 DEF RInv, Typed
<1>6. /\ Len(delivered'[d]) = Len(delivered[d]) + n /\ Len(delivered[d]) \in Nat
      /\ \A i \in 1 .. Len(delivered[d]) : delivered'[d][i] = delivered[d][i]
      /\ \A i \in 1 .. n : delivered'[d][Len(delivered[d]) + i] = Holds(d, i)
  BY <1>3, <1>4, <1>5, Appended
\* Every byte delivered now was delivered before or has just been written.
<1>7. ASSUME NEW i \in 1 .. Len(delivered'[d])
      PROVE  \/ i \in 1 .. Len(delivered[d])
             \/ \E k \in 1 .. n : i = Len(delivered[d]) + k
  <2>1. CASE i <= Len(delivered[d])
    BY <1>6, <2>1
  <2>2. CASE i > Len(delivered[d])
    <3>1. /\ i - Len(delivered[d]) \in 1 .. n
          /\ i = Len(delivered[d]) + (i - Len(delivered[d]))
      BY <1>2, <1>6, <2>2
    <3> QED
      BY <3>1
  <2> QED
    BY <1>6, <2>1, <2>2
<1>8. /\ buffer' = buffer /\ Start(d)' = Start(d) /\ early' = early
      /\ \A e \in Way : \A i : Holds(e, i)' = Holds(e, i)
  BY DEF KernelWrite, Start, Holds
<1>9. /\ Held(d) = request[d].nbytes /\ Held(d)' = request[d].nbytes
      /\ Unwritten(d) = request[d].nbytes /\ Unwritten(d)' = request[d].nbytes - n
  BY <1>1, <1>2 DEF Held, Unwritten, Done, PENDING
<1>10. OwnBytes(d)'
  <2>1. \A i \in 1 .. Held(d)' : Holds(d, i)' \in ToSet(Stream[d])
    BY <1>8, <1>9 DEF OwnInv, OwnBytes
  <2>2. ASSUME NEW i \in 1 .. Len(delivered'[d]) PROVE delivered'[d][i] \in ToSet(Stream[d])
    <3>1. CASE i \in 1 .. Len(delivered[d])
      BY <1>6, <3>1 DEF OwnInv, OwnBytes
    <3>2. ASSUME NEW k \in 1 .. n, i = Len(delivered[d]) + k
          PROVE  delivered'[d][i] \in ToSet(Stream[d])
      <4>1. k \in 1 .. Held(d)
        BY <1>2, <1>9
      <4> QED
        BY <1>6, <3>2, <4>1 DEF OwnInv, OwnBytes
    <3> QED
      BY <1>7, <3>1, <3>2
  <2> QED
    BY <2>1, <2>2 DEF OwnBytes
<1>11. OwnOrder(d)'
  <2> SUFFICES ASSUME ~cut'[d]
               PROVE  /\ \A i \in 1 .. Unwritten(d)' :
                           Holds(d, i)' = Stream[d][Start(d) + Len(delivered'[d]) + i]
                      /\ \A i \in 1 .. Len(delivered'[d]) :
                           delivered'[d][i] = Stream[d][Start(d) + i]
    BY <1>8 DEF OwnOrder
  <2>1. ~cut[d] /\ n = request[d].nbytes
    <3>1. cut'[d] = (cut[d] \/ n < request[d].nbytes)
      BY DEF KernelWrite, RInv, Typed
    <3>2. ~cut[d] /\ ~(n < request[d].nbytes)
      BY <3>1, Zenon
    <3>3. n = request[d].nbytes
      BY <1>2, <3>2
    <3> QED
      BY <3>2, <3>3
  <2>2. Unwritten(d)' = 0
    BY <1>2, <1>9, <2>1
  <2>3. ASSUME NEW i \in 1 .. Len(delivered'[d])
        PROVE  delivered'[d][i] = Stream[d][Start(d) + i]
    <3>1. CASE i \in 1 .. Len(delivered[d])
      BY <1>6, <2>1, <3>1 DEF OwnInv, OwnOrder
    <3>2. ASSUME NEW k \in 1 .. n, i = Len(delivered[d]) + k
          PROVE  delivered'[d][i] = Stream[d][Start(d) + i]
      <4>1. k \in 1 .. Unwritten(d)
        BY <1>9, <2>1
      <4>2. Holds(d, k) = Stream[d][Start(d) + Len(delivered[d]) + k]
        BY <2>1, <4>1 DEF OwnInv, OwnOrder
      <4>3. Start(d) + Len(delivered[d]) + k = Start(d) + i
        BY <1>2, <1>6, <3>2, HeldFits
      <4> QED
        BY <1>6, <3>2, <4>2, <4>3
    <3> QED
      BY <1>7, <3>1, <3>2
  <2> QED
    BY <2>2, <2>3
<1>12. ASSUME NEW e \in Way, e # d PROVE OwnBytes(e)' /\ OwnOrder(e)'
  <2>1. cut'[e] = cut[e]
    BY <1>12 DEF KernelWrite, RInv, Typed
  <2> QED
    BY <1>1, <1>5, <1>8, <1>12, <2>1, UndisturbedBytes DEF OwnInv
<1> QED
  BY <1>10, <1>11, <1>12 DEF OwnInv

LEMMA KernelFailsKeepsOwn ==
  ASSUME m_is_root, RInv, OwnInv, NEW d \in Way, KernelFails(d)
  PROVE  OwnInv'
<1>1. /\ request'[d].op = request[d].op /\ request'[d].nbytes = request[d].nbytes
      /\ request[d].res = PENDING /\ request'[d].res = ERROR
      /\ \A e \in Way : e # d => request'[e] = request[e]
  <2>1. ERROR \in Int /\ Complete(d, ERROR) /\ request \in [Way -> Requests]
    BY DEF KernelFails, RInv, Typed, ERROR
  <2> QED
    BY <2>1, OneRequestChanges DEF KernelFails
<1>2. /\ UNCHANGED <<buffer, early, taken, delivered, cut>>
      /\ \A e \in Way : \A i : Holds(e, i)' = Holds(e, i)
  BY DEF KernelFails, Holds
<1>3. Held(d)' = Held(d) /\ Unwritten(d)' = Unwritten(d) /\ Start(d)' = Start(d)
  BY <1>1, <1>2 DEF Held, Unwritten, Done, Start, PENDING, ERROR
<1>4. OwnBytes(d)' /\ OwnOrder(d)'
  BY <1>2, <1>3 DEF OwnInv, OwnBytes, OwnOrder
<1>5. ASSUME NEW e \in Way, e # d PROVE OwnBytes(e)' /\ OwnOrder(e)'
  BY <1>1, <1>2, <1>5, UndisturbedBytes DEF OwnInv
<1> QED
  BY <1>4, <1>5 DEF OwnInv

LEMMA HandleReadKeepsOwn ==
  ASSUME m_is_root, RInv, OwnInv, NEW d \in Way, HandleRead(d)
  PROVE  OwnInv'
<1> DEFINE n == request[d].res
<1>1. /\ request[d].op = "read" /\ n \in Nat /\ n \in 0 .. BUFFER_SIZE
      /\ Add(d, Write(n, 0))
  BY HalvesFit, SMTT(60) DEF HandleRead, Completed, RInv, Typed, Requests, RequestFits
<1>2. Held(d) = n /\ Unwritten(d) = n
  BY <1>1 DEF Held, Unwritten, Done
<1> HIDE DEF n
<1>3. /\ request'[d] = Write(n, 0)
      /\ \A e \in Way : e # d => request'[e] = request[e]
  <2>1. Write(n, 0) \in Requests
    BY <1>1, HalvesFit DEF Write, Requests, PENDING
  <2> QED
    BY <1>1, <2>1, OneRequestChanges DEF RInv, Typed
<1>4. /\ UNCHANGED <<buffer, early, delivered, cut>>
      /\ \A e \in Way : \A i : Holds(e, i)' = Holds(e, i)
      /\ Start(d)' = Start(d)
  BY DEF HandleRead, Holds, Start
<1>5. Held(d)' = n /\ Unwritten(d)' = n
  BY <1>1, <1>3 DEF Held, Unwritten, Done, Write, PENDING
<1>6. OwnBytes(d)' /\ OwnOrder(d)'
  BY <1>2, <1>4, <1>5 DEF OwnInv, OwnBytes, OwnOrder
<1>7. ASSUME NEW e \in Way, e # d PROVE OwnBytes(e)' /\ OwnOrder(e)'
  BY <1>3, <1>4, <1>7, UndisturbedBytes DEF OwnInv
<1> QED
  BY <1>6, <1>7 DEF OwnInv

LEMMA HandleWriteKeepsOwn ==
  ASSUME m_is_root, RInv, OwnInv, NEW d \in Way, HandleWrite(d)
  PROVE  OwnInv'
<1>1. /\ request[d].op = "write" /\ request[d].res \in Nat
      /\ request[d].nbytes \in Nat /\ request[d].res <= request[d].nbytes
      /\ write_offset[d] \in Nat /\ write_size[d] \in 0 .. BUFFER_SIZE
      /\ write_offset[d] + request[d].nbytes = write_size[d]
  BY HalvesFit, SMTT(60) DEF HandleWrite, Completed, RInv, Typed, Requests, RequestFits, WriteIsTheRest
<1>2. /\ remaining(d) = request[d].nbytes - request[d].res
      /\ remaining(d) \in 0 .. BUFFER_SIZE /\ remaining(d) <= request[d].nbytes
  BY <1>1, HalvesFit DEF remaining
<1>3. /\ UNCHANGED <<buffer, early, delivered, cut>>
      /\ \A e \in Way : \A i : Holds(e, i)' = Holds(e, i)
      /\ Start(d)' = Start(d)
  BY DEF HandleWrite, Holds, Start
<1>4. Held(d) = request[d].nbytes
  BY <1>1 DEF Held
<1>5. CASE remaining(d) = 0
  <2>1. /\ request'[d] = add_read_request(d)
        /\ \A e \in Way : e # d => request'[e] = request[e]
    BY <1>5, OneRequestChanges, AddedRead DEF HandleWrite, RInv, Typed
  <2>2. Held(d)' = 0 /\ Unwritten(d)' = 0
    BY <2>1, AddedRead DEF Held, Unwritten, Done, PENDING
  <2>3. OwnBytes(d)' /\ OwnOrder(d)'
    BY <1>3, <2>2 DEF OwnInv, OwnBytes, OwnOrder
  <2>4. ASSUME NEW e \in Way, e # d PROVE OwnBytes(e)' /\ OwnOrder(e)'
    BY <1>3, <2>1, <2>4, UndisturbedBytes DEF OwnInv
  <2> QED
    BY <2>3, <2>4 DEF OwnInv
<1>6. CASE remaining(d) # 0
  <2> DEFINE off == write_offset[d] + request[d].res
             rest == remaining(d)
  <2>1. off \in 0 .. BUFFER_SIZE
    BY <1>1, <1>2, HalvesFit
  <2>2. Add(d, Write(rest, off))
    <3>1. write_offset \in [Way -> 0 .. BUFFER_SIZE]
      BY DEF RInv, Typed
    <3>2. write_offset' = [write_offset EXCEPT ![d] = off]
      BY <1>6 DEF HandleWrite
    <3>3. write_offset'[d] = off
      BY <3>1, <3>2
    <3> QED
      BY <1>6, <3>3 DEF HandleWrite
  <2> HIDE DEF off
  <2>3. Write(rest, off) \in Requests
    BY <1>2, <2>1, HalvesFit DEF Write, Requests, PENDING
  <2>4. /\ request'[d] = Write(rest, off)
        /\ \A e \in Way : e # d => request'[e] = request[e]
    BY <2>2, <2>3, OneRequestChanges DEF RInv, Typed
  <2>5. Held(d)' = rest
    BY <2>4 DEF Held, Write
  <2>6. OwnBytes(d)'
    <3>1. \A i \in 1 .. rest : i \in 1 .. request[d].nbytes
      BY <1>1, <1>2, HalvesFit
    <3> QED
      BY <1>3, <1>4, <2>5, <3>1 DEF OwnInv, OwnBytes
  \* There is a rest only if the write was cut.
  <2>7. OwnOrder(d)'
    <3>1. request[d].res \notin {PENDING, ERROR, request[d].nbytes}
      BY <1>1, <1>2, <1>6 DEF PENDING, ERROR
    <3>2. cut[d]
      BY <1>1, <3>1 DEF RInv, WriteIsTheRest
    <3> QED
      BY <1>3, <3>2 DEF OwnOrder
  <2>8. ASSUME NEW e \in Way, e # d PROVE OwnBytes(e)' /\ OwnOrder(e)'
    BY <1>3, <2>4, <2>8, UndisturbedBytes DEF OwnInv
  <2> QED
    BY <2>6, <2>7, <2>8 DEF OwnInv
<1> QED
  BY <1>5, <1>6

\* With registered buffers every step leaves each direction its own bytes.
LEMMA StepKeepsOwn ==
  ASSUME m_is_root, RInv, OwnInv, [Next]_vars
  PROVE  OwnInv'
<1>1. ASSUME NEW d \in Way, NEW n \in 0 .. BUFFER_SIZE, KernelRead(d, n) \/ KernelWrite(d, n)
      PROVE  OwnInv'
  BY <1>1, KernelReadKeepsOwn, KernelWriteKeepsOwn
<1>2. ASSUME NEW d \in Way, KernelFails(d) PROVE OwnInv'
  BY <1>2, KernelFailsKeepsOwn
<1>3. ASSUME NEW d \in Way, HandleRead(d) PROVE OwnInv'
  BY <1>3, HandleReadKeepsOwn
<1>4. ASSUME NEW d \in Way, HandleWrite(d) PROVE OwnInv'
  BY <1>4, HandleWriteKeepsOwn
<1>5. CASE \/ \E d \in Way : HandleEnd(d)
           \/ UNCHANGED vars
  <2>1. /\ UNCHANGED <<buffer, early, delivered, cut, request>>
        /\ \A e \in Way : \A i : Holds(e, i)' = Holds(e, i)
    BY <1>5 DEF HandleEnd, vars, Holds
  <2> QED
    BY <2>1, UndisturbedBytes DEF OwnInv
<1> QED
  BY <1>1, <1>2, <1>3, <1>4, <1>5 DEF Next

\* Where the buffers are registered the halves, the requests in flight and what
\* has arrived hold only bytes of their own direction, in order.
THEOREM OwnBytesHold ==
  ASSUME m_is_root
  PROVE  Spec => [](RInv /\ OwnInv)
<1>1. Init => RInv /\ OwnInv
  BY InitCounts, InitOwns
<1>2. RInv /\ OwnInv /\ [Next]_vars => (RInv /\ OwnInv)'
  BY StepKeepsCounts, StepKeepsOwn
<1> QED
  BY <1>1, <1>2, PTL DEF Spec

\* Where the buffers are registered no client gets its own bytes back, nor any
\* destination: buffer_half0 and buffer_half1 keep the directions apart.
THEOREM HalvesAreSeparateHolds ==
  ASSUME m_is_root
  PROVE  Spec => []HalvesAreSeparate
<1>1. RInv /\ OwnInv => HalvesAreSeparate
  <2> SUFFICES ASSUME RInv, OwnInv, NEW d \in Way, NEW i \in DOMAIN delivered[d]
               PROVE  delivered[d][i] \in ToSet(Stream[d])
    BY DEF HalvesAreSeparate, ToSet
  <2>1. DOMAIN delivered[d] = 1 .. Len(delivered[d])
    BY DEF RInv, Typed
  <2> QED
    BY <2>1 DEF OwnInv, OwnBytes
<1> QED
  BY <1>1, OwnBytesHold, PTL

\* Where the buffers are registered, a direction none of whose writes was cut has
\* delivered a prefix of what its source sent after the relay took over, each
\* byte once and in order, and all of it when the source is seen to end.
THEOREM DeliveredInOrderHolds ==
  ASSUME m_is_root
  PROVE  Spec => []DeliveredInOrder
<1>1. RInv /\ OwnInv => DeliveredInOrder
  <2> SUFFICES ASSUME RInv, OwnInv, NEW d \in Way, ~cut[d]
               PROVE  /\ IsPrefix(delivered[d], Forwarded(d))
                      /\ Ended(d) => delivered[d] = Forwarded(d)
    BY DEF DeliveredInOrder
  <2> DEFINE sent == delivered[d]
             whole == Forwarded(d)
             last == Len(Stream[d])
  <2>1. sent \in Seq(Int)
    BY DEF RInv, Typed
  <2>2. last \in Start(d) .. Len(Stream[d]) /\ last \in Nat /\ Start(d) \in Nat
    BY StreamsAreSequences DEF RInv, Typed
  <2>3. /\ whole \in Seq(Int) /\ Len(whole) = last - Start(d)
        /\ \A i \in 1 .. last - Start(d) : whole[i] = Stream[d][Start(d) + i]
    BY <2>2, TakenUp DEF Forwarded
  <2>4. Len(sent) \in Nat /\ Len(sent) <= Len(whole)
    BY <2>2, <2>3, HeldFits, SMTT(60)
  <2>5. ASSUME NEW i \in 1 .. Len(sent) PROVE sent[i] = whole[i]
    <3>1. i \in 1 .. last - Start(d)
      BY <2>3, <2>4
    <3>2. sent[i] = Stream[d][Start(d) + i]
      BY DEF OwnInv, OwnOrder
    <3> QED
      BY <2>3, <3>1, <3>2
  \* At the end all was read, and a read in flight leaves nothing unwritten.
  <2>6. ASSUME Ended(d) PROVE Len(sent) = Len(whole)
    <3>1. taken[d] = last /\ Unwritten(d) = 0
      BY <2>6 DEF Ended, RInv, Balanced, Unwritten, Done
    <3> QED
      BY <2>2, <2>3, <2>4, <3>1, HeldFits
  <2> HIDE DEF sent, whole, last
  <2>7. SubSeq(sent, 1, Len(sent)) = SubSeq(whole, 1, Len(sent))
    BY <2>1, <2>3, <2>4, <2>5
  <2>8. IsPrefix(sent, whole)
    BY <2>4, <2>7 DEF IsPrefix
  <2>9. Len(sent) = Len(whole) => sent = whole
    BY <2>1, <2>3, <2>5
  <2> QED
    BY <2>6, <2>8, <2>9 DEF sent, whole
<1> QED
  BY <1>1, OwnBytesHold, PTL
=============================================================================
