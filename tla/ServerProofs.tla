---------------------------- MODULE ServerProofs ----------------------------
(***************************************************************************)
(* Proofs about Server, for every number of threads and connections: the   *)
(* inductive invariant SInv, the safety properties and the action          *)
(* properties it implies, and that the threads together implement          *)
(* SessionLifecycle.                                                       *)
(***************************************************************************)
EXTENDS Server, FiniteSetTheorems, FunctionTheorems, TLAPS

Phases ==
  {"free", "handshake", "rejecting", "answered", "dropped", "connecting", "relaying",
   "draining"}

Typed ==
  /\ process \in {"up", "refused", "logged", "terminated", "killed"}
  /\ main \in {"parsing", "opening", "limiting", "spawning", "serving"}
  /\ threads_count \in 0 .. MaxThreads
  /\ thread \in [ThreadId -> {"none", "constructing", "serving"}]
  /\ descriptors \in Int
  /\ waiting \in BOOLEAN
  /\ deaf \subseteq ThreadId
  /\ phase \in [ThreadId -> [Sessions -> Phases]]
  /\ hostent \in [family : {"AF_INET", "AF_INET6"}, address : Names \cup {NULL}]
  /\ lookup \in [ThreadId -> Lookup \cup {NULL}]

\* The threads are started in the order of their numbers, main's own last, and
\* no more than were asked for.
ThreadsInOrder ==
  /\ main # "parsing" => threads_count > 0
  /\ main \in {"parsing", "opening", "limiting"} => \A t \in ThreadId : thread[t] = "none"
  /\ main # "serving" => thread[MAIN] = "none"
  /\ Spawned = 1 .. Cardinality(Spawned)
  /\ \A t \in ThreadId : t >= threads_count => thread[t] = "none"

\* Only a thread that serves has connections, no more than its share, and looks
\* names up, for connections that are in their handshake.
ThreadsServe ==
  \A t \in ThreadId :
    /\ thread[t] # "serving" => Occupied(t) = {} /\ lookup[t] = NULL
    /\ thread[t] = "serving" => Cardinality(Occupied(t)) <= one_thread_connections
    /\ lookup[t] # NULL => phase[t][lookup[t].session] = "handshake"

\* gethostbyname's static answer is that of the lookup no other has overtaken.
AnswerIsOwn ==
  \A t \in ThreadId : lookup[t] # NULL /\ ~lookup[t].overtaken =>
    /\ hostent.family = Family(lookup[t].name)
    /\ hostent.address = lookup[t].name
    /\ lookup[t].family \in {NULL, Family(lookup[t].name)}

DescriptorsBounded ==
  /\ main \in {"parsing", "opening"} => descriptors = Inherited
  /\ descriptors <= Inherited + 1 \/ descriptors <= DescriptorLimit

SInv ==
  /\ Typed
  /\ ThreadsInOrder
  /\ ThreadsServe
  /\ AnswerIsOwn
  /\ DescriptorsBounded
  /\ DescriptorsBalance

-----------------------------------------------------------------------------
(***************************************************************************)
(* Counting connections and descriptors.                                   *)
(***************************************************************************)

LEMMA SessionsFinite ==
  /\ IsFiniteSet(Sessions) /\ Cardinality(Sessions) = max_connections
  /\ IsFiniteSet(ThreadId) /\ Cardinality(ThreadId) = MaxThreads
<1>1. max_connections \in Nat \ {0} /\ MaxThreads \in Nat \ {0}
  BY ConnectionsAssumption
<1>2. IsFiniteSet(Sessions) /\ Cardinality(Sessions) = max_connections
  BY <1>1, FS_Interval DEF Sessions
<1>3. IsFiniteSet(ThreadId) /\ Cardinality(ThreadId) = MaxThreads
  BY <1>1, FS_Interval DEF ThreadId
<1> QED
  BY <1>2, <1>3

LEMMA HoldingElements ==
  ASSUME NEW P
  PROVE  \A c : c \in Holding(P) <=>
           /\ c \in ThreadId \X Sessions
           /\ phase[c[1]][c[2]] # "free"
           /\ phase[c[1]][c[2]] \in P
BY DEF Holding, Connections

LEMMA HoldingFinite ==
  ASSUME NEW P
  PROVE  /\ IsFiniteSet(Connections) /\ Cardinality(Connections) \in Nat
         /\ IsFiniteSet(Holding(P)) /\ Cardinality(Holding(P)) \in Nat
         /\ Holding(P) \subseteq Connections
<1>1. IsFiniteSet(ThreadId \X Sessions)
  BY SessionsFinite, FS_Product
<1>2. Connections \subseteq ThreadId \X Sessions /\ Holding(P) \subseteq Connections
  BY DEF Connections, Holding
<1>3. IsFiniteSet(Connections) /\ IsFiniteSet(Holding(P))
  BY <1>1, <1>2, FS_Subset
<1> QED
  BY <1>2, <1>3, FS_CardinalityType

Unit(b) == IF b THEN 1 ELSE 0

\* One element of a finite set at most comes, and one goes.
LEMMA OneElementChanges ==
  ASSUME NEW S, NEW T, IsFiniteSet(S), NEW c,
         \A d : d # c => (d \in T <=> d \in S)
  PROVE  /\ IsFiniteSet(T)
         /\ Cardinality(T) = Cardinality(S) + Unit(c \in T) - Unit(c \in S)
<1>1. Cardinality(S) \in Nat
  BY FS_CardinalityType
<1>2. CASE c \in S /\ c \notin T
  <2>1. T = S \ {c}
    BY <1>2
  <2> QED
    BY <1>1, <1>2, <2>1, FS_RemoveElement DEF Unit
<1>3. CASE c \notin S /\ c \in T
  <2>1. T = S \cup {c}
    BY <1>3
  <2> QED
    BY <1>1, <1>3, <2>1, FS_AddElement DEF Unit
<1>4. CASE c \in S <=> c \in T
  <2>1. T = S
    BY <1>4
  <2> QED
    BY <1>1, <1>4, <2>1 DEF Unit
<1> QED
  BY <1>2, <1>3, <1>4

\* Connection s of thread t goes to phase p.
PhaseBecomes(t, s, p) == phase' = [phase EXCEPT ![t][s] = p]

LEMMA PhaseBecomesElements ==
  ASSUME Typed, NEW t \in ThreadId, NEW s \in Sessions, NEW p \in Phases,
         PhaseBecomes(t, s, p)
  PROVE  /\ phase'[t][s] = p
         /\ \A u \in ThreadId, r \in Sessions :
              <<u, r>> # <<t, s>> => phase'[u][r] = phase[u][r]
         /\ phase' \in [ThreadId -> [Sessions -> Phases]]
         /\ \A u \in ThreadId : u # t => Occupied(u)' = Occupied(u)
<1>1. phase \in [ThreadId -> [Sessions -> Phases]]
  BY DEF Typed
<1>2. phase' = [phase EXCEPT ![t] = [phase[t] EXCEPT ![s] = p]]
  BY DEF PhaseBecomes
<1>3. [phase[t] EXCEPT ![s] = p] \in [Sessions -> Phases]
  BY <1>1
<1>4. phase'[t] = [phase[t] EXCEPT ![s] = p] /\ \A u \in ThreadId : u # t => phase'[u] = phase[u]
  BY <1>1, <1>2
<1>5. phase' \in [ThreadId -> [Sessions -> Phases]]
  BY <1>1, <1>2, <1>3
<1> QED
  BY <1>1, <1>4, <1>5 DEF Occupied

\* How the counts follow.
LEMMA PhaseBecomesCounts ==
  ASSUME Typed, NEW t \in ThreadId, NEW s \in Sessions, NEW p \in Phases,
         PhaseBecomes(t, s, p)
  PROVE  /\ \A P : "free" \notin P =>
              Cardinality(Holding(P)') =
                Cardinality(Holding(P)) + Unit(p \in P) - Unit(phase[t][s] \in P)
         /\ Cardinality(Occupied(t)') =
              Cardinality(Occupied(t)) + Unit(p # "free") - Unit(phase[t][s] # "free")
<1>1. /\ phase'[t][s] = p
      /\ \A u \in ThreadId, r \in Sessions :
           <<u, r>> # <<t, s>> => phase'[u][r] = phase[u][r]
  BY PhaseBecomesElements
<1>2. ASSUME NEW P, "free" \notin P
      PROVE  Cardinality(Holding(P)') =
               Cardinality(Holding(P)) + Unit(p \in P) - Unit(phase[t][s] \in P)
  <2> DEFINE c == <<t, s>>
             S == Holding(P)
             T == {d \in ThreadId \X Sessions : phase'[d[1]][d[2]] # "free"
                                                  /\ phase'[d[1]][d[2]] \in P}
  <2>1. T = Holding(P)'
    BY DEF Holding, Connections
  <2>2. c \in T <=> p \in P
    BY <1>1, <1>2
  <2>3. c \in S <=> phase[t][s] \in P
    BY <1>2 DEF Holding, Connections
  <2>4. \A d : d # c => (d \in T <=> d \in S)
    BY <1>1 DEF Holding, Connections
  <2>5. IsFiniteSet(S)
    BY HoldingFinite
  <2> HIDE DEF S, T, c
  <2>6. Cardinality(T) = Cardinality(S) + Unit(c \in T) - Unit(c \in S)
    BY <2>4, <2>5, OneElementChanges
  <2>7. Cardinality(T) = Cardinality(S) + Unit(p \in P) - Unit(phase[t][s] \in P)
    BY <2>2, <2>3, <2>6 DEF Unit
  <2> QED
    BY <2>1, <2>7 DEF S
<1>3. Cardinality(Occupied(t)') =
        Cardinality(Occupied(t)) + Unit(p # "free") - Unit(phase[t][s] # "free")
  <2> DEFINE S == Occupied(t)
             T == {r \in Sessions : phase'[t][r] # "free"}
  <2>1. T = Occupied(t)'
    BY DEF Occupied
  <2>2. s \in T <=> p # "free"
    BY <1>1
  <2>3. s \in S <=> phase[t][s] # "free"
    BY DEF Occupied
  <2>4. \A r : r # s => (r \in T <=> r \in S)
    BY <1>1 DEF Occupied
  <2>5. IsFiniteSet(S)
    BY SessionsFinite, FS_Subset DEF Occupied
  <2> HIDE DEF S, T
  <2>6. Cardinality(T) = Cardinality(S) + Unit(s \in T) - Unit(s \in S)
    BY <2>4, <2>5, OneElementChanges
  <2>7. Cardinality(T) = Cardinality(S) + Unit(p # "free") - Unit(phase[t][s] # "free")
    BY <2>2, <2>3, <2>6 DEF Unit
  <2> QED
    BY <2>1, <2>7 DEF S
<1> QED
  BY <1>2, <1>3

-----------------------------------------------------------------------------
(***************************************************************************)
(* What all steps of a kind keep.                                          *)
(***************************************************************************)

LEMMA InitEstablishesInvariant == Init => SInv
<1> SUFFICES ASSUME Init PROVE SInv
  OBVIOUS
<1>1. Typed
  <2>1. MaxThreads \in Nat /\ Inherited \in Int
    BY ConnectionsAssumption, InheritedAssumption
  <2>2. phase \in [ThreadId -> [Sessions -> Phases]]
    BY DEF Init, Phases
  <2>3. lookup \in [ThreadId -> Lookup \cup {NULL}]
    BY DEF Init
  <2>4. hostent \in [family : {"AF_INET", "AF_INET6"}, address : Names \cup {NULL}]
    BY DEF Init
  <2>5. thread \in [ThreadId -> {"none", "constructing", "serving"}]
    BY DEF Init
  <2>6. threads_count \in 0 .. MaxThreads /\ descriptors \in Int
    BY <2>1 DEF Init
  <2>7. deaf \subseteq ThreadId /\ waiting \in BOOLEAN
    BY DEF Init
  <2>8. /\ process \in {"up", "refused", "logged", "terminated", "killed"}
        /\ main \in {"parsing", "opening", "limiting", "spawning", "serving"}
    BY DEF Init
  <2> QED
    BY <2>2, <2>3, <2>4, <2>5, <2>6, <2>7, <2>8 DEF Typed
<1>2. Spawned = {} /\ Cardinality(Spawned) = 0
  BY FS_EmptySet DEF Init, Spawned
<1>3. ThreadsInOrder
  BY <1>2, ConnectionsAssumption DEF Init, ThreadsInOrder, ThreadId, MAIN
<1>4. \A t \in ThreadId : Occupied(t) = {}
  BY DEF Init, Occupied
<1>5. ThreadsServe /\ AnswerIsOwn
  BY <1>4 DEF Init, ThreadsServe, AnswerIsOwn
<1>6. DescriptorsBounded
  BY InheritedAssumption DEF Init, DescriptorsBounded
<1>7. Connections = {} /\ Rings = {} /\ \A P : Holding(P) = {}
  BY DEF Init, Connections, Rings, Holding
<1>8. Cardinality({}) = 0
  BY FS_EmptySet
<1>9. DescriptorsBalance
  BY <1>7, <1>8, InheritedAssumption, SMTT(60) DEF Init, DescriptorsBalance, Overhead
<1> QED
  BY <1>1, <1>3, <1>5, <1>6, <1>9 DEF SInv

\* The end of the process, and what happens to the queue of the socket, change
\* nothing that the invariant relates.
LEMMA QuietStepKeepsInvariant ==
  ASSUME SInv, Typed',
         UNCHANGED <<main, threads_count, thread, descriptors, phase, hostent, lookup>>
  PROVE  SInv'
<1>1. ThreadsInOrder'
  BY DEF SInv, ThreadsInOrder, Spawned
<1>2. ThreadsServe' /\ AnswerIsOwn' /\ DescriptorsBounded'
  BY DEF SInv, ThreadsServe, AnswerIsOwn, DescriptorsBounded, Occupied,
         one_thread_connections
<1>3. DescriptorsBalance'
  BY DEF SInv, DescriptorsBalance, Overhead, Rings, Holding, Connections
<1> QED
  BY <1>1, <1>2, <1>3 DEF SInv

LEMMA EndKeepsInvariant ==
  ASSUME SInv, NEW how \in {"refused", "logged", "terminated", "killed"}, EndProcess(how)
  PROVE  SInv'
<1>1. Typed'
  BY DEF EndProcess, connections, SInv, Typed
<1> QED
  BY <1>1, QuietStepKeepsInvariant DEF EndProcess, connections

\* The share of a thread, and that the shares together are not more than
\* max_connections.
LEMMA Shares ==
  ASSUME NEW n \in 1 .. MaxThreads
  PROVE  /\ max_connections \div n \in Nat
         /\ n * (max_connections \div n) <= max_connections
<1>1. max_connections \in Nat /\ n \in Nat \ {0}
  BY ConnectionsAssumption
<1> QED
  BY <1>1

LEMMA ShareOfServing ==
  ASSUME SInv, NEW t \in ThreadId, thread[t] # "none"
  PROVE  /\ threads_count \in 1 .. MaxThreads /\ t < threads_count
         /\ one_thread_connections \in Nat
<1>1. threads_count \in 1 .. MaxThreads /\ t < threads_count
  BY DEF SInv, Typed, ThreadsInOrder, ThreadId
<1> QED
  BY <1>1, Shares DEF one_thread_connections

\* What a connection costs in descriptors.
Cost(p) ==
  IF p \in {"handshake", "rejecting", "answered"} THEN 1
  ELSE IF p \in {"connecting", "relaying"} THEN 2 ELSE 0

LEMMA MoveKeepsBalance ==
  ASSUME SInv, NEW t \in ThreadId, NEW s \in Sessions, NEW p \in Phases,
         PhaseBecomes(t, s, p), UNCHANGED <<main, thread>>,
         descriptors' = descriptors + Cost(p) - Cost(phase[t][s])
  PROVE  DescriptorsBalance'
<1> DEFINE P1 == {"handshake", "rejecting", "answered"}
           P2 == {"connecting", "relaying"}
<1>1. /\ Cardinality(Holding(P1)') =
           Cardinality(Holding(P1)) + Unit(p \in P1) - Unit(phase[t][s] \in P1)
      /\ Cardinality(Holding(P2)') =
           Cardinality(Holding(P2)) + Unit(p \in P2) - Unit(phase[t][s] \in P2)
  BY PhaseBecomesCounts DEF SInv
<1>2. /\ Cost(p) = Unit(p \in P1) + 2 * Unit(p \in P2)
      /\ Cost(phase[t][s]) = Unit(phase[t][s] \in P1) + 2 * Unit(phase[t][s] \in P2)
  BY DEF Cost, Unit
<1>3. /\ Cardinality(Holding(P1)) \in Nat /\ Cardinality(Holding(P2)) \in Nat
      /\ Unit(p \in P1) \in Int /\ Unit(phase[t][s] \in P1) \in Int
      /\ Unit(p \in P2) \in Int /\ Unit(phase[t][s] \in P2) \in Int
  BY HoldingFinite DEF Unit
<1>4. Overhead' = Overhead
  BY DEF Overhead, Rings
<1>5. Overhead \in Int
  <2>1. Cardinality(Rings) \in Nat
    BY SessionsFinite, FS_Subset, FS_CardinalityType DEF Rings
  <2> QED
    BY <2>1, InheritedAssumption DEF Overhead
<1> HIDE DEF P1, P2
<1>6. descriptors = Overhead + Cardinality(Holding(P1)) + 2 * Cardinality(Holding(P2))
  BY DEF SInv, DescriptorsBalance, P1, P2
<1>7. descriptors' = Overhead' + Cardinality(Holding(P1)') + 2 * Cardinality(Holding(P2)')
  BY <1>1, <1>2, <1>3, <1>4, <1>5, <1>6
<1> QED
  BY <1>7 DEF DescriptorsBalance, P1, P2

\* A move of a connection of a thread that serves: the thread has room for one
\* that opens, and its own lookup is over.
LEMMA MoveKeepsInvariant ==
  ASSUME SInv, Typed', AnswerIsOwn',
         NEW t \in ThreadId, NEW s \in Sessions, NEW p \in Phases,
         PhaseBecomes(t, s, p), thread[t] = "serving",
         phase[t][s] = "free" /\ p # "free" => ~Full(t),
         lookup'[t] = NULL,
         \A u \in ThreadId : u # t /\ lookup'[u] # NULL =>
           lookup[u] # NULL /\ lookup'[u].session = lookup[u].session,
         UNCHANGED <<main, threads_count, thread>>,
         descriptors' = descriptors + Cost(p) - Cost(phase[t][s]),
         \/ descriptors' <= descriptors
         \/ descriptors < DescriptorLimit /\ descriptors' = descriptors + 1
  PROVE  SInv'
<1>1. ThreadsInOrder'
  BY DEF SInv, ThreadsInOrder, Spawned
<1>2. ThreadsServe'
  <2>1. one_thread_connections \in Nat /\ one_thread_connections' = one_thread_connections
    BY ShareOfServing DEF one_thread_connections
  <2>2. /\ \A u \in ThreadId : u # t => Occupied(u)' = Occupied(u)
        /\ \A u \in ThreadId : u # t => \A r \in Sessions : phase'[u][r] = phase[u][r]
    BY PhaseBecomesElements DEF SInv
  <2>3. Cardinality(Occupied(t)') <= one_thread_connections
    <3>1. Cardinality(Occupied(t)) \in Nat
      BY SessionsFinite, FS_Subset, FS_CardinalityType DEF Occupied
    <3>2. Cardinality(Occupied(t)) <= one_thread_connections
      BY DEF SInv, ThreadsServe
    <3>3. Cardinality(Occupied(t)') =
            Cardinality(Occupied(t)) + Unit(p # "free") - Unit(phase[t][s] # "free")
      BY PhaseBecomesCounts DEF SInv
    <3> QED
      BY <2>1, <3>1, <3>2, <3>3 DEF Unit, Full
  <2>4. ASSUME NEW u \in ThreadId, u # t
        PROVE  /\ thread'[u] # "serving" => Occupied(u)' = {} /\ lookup'[u] = NULL
               /\ thread'[u] = "serving" => Cardinality(Occupied(u)') <= one_thread_connections'
               /\ lookup'[u] # NULL => phase'[u][lookup'[u].session] = "handshake"
    <3>1. lookup'[u] # NULL => lookup'[u].session \in Sessions
      BY DEF Typed, Lookup
    <3> QED
      BY <2>1, <2>2, <2>4, <3>1 DEF SInv, ThreadsServe
  <2> QED
    BY <2>1, <2>3, <2>4 DEF ThreadsServe
<1>3. DescriptorsBounded'
  <2>1. main \notin {"parsing", "opening"}
    BY DEF SInv, ThreadsInOrder
  <2>2. descriptors \in Int /\ descriptors' \in Int
    BY DEF SInv, Typed
  <2>3. DescriptorLimit \in Int /\ Inherited \in Int
    BY ConnectionsAssumption, InheritedAssumption DEF DescriptorLimit
  <2> QED
    BY <2>1, <2>2, <2>3 DEF SInv, DescriptorsBounded
<1>4. DescriptorsBalance'
  BY MoveKeepsBalance
<1> QED
  BY <1>1, <1>2, <1>3, <1>4 DEF SInv

LEMMA ServingFacts ==
  ASSUME SInv, NEW t \in ThreadId, Serving(t)
  PROVE  thread[t] = "serving" /\ lookup[t] = NULL /\ main \notin {"parsing", "opening"}
BY DEF Serving, SInv, ThreadsInOrder

LEMMA AcceptPicks ==
  ASSUME SInv, NEW t \in ThreadId, AcceptConnection(t)
  PROVE  /\ thread[t] = "serving" /\ lookup[t] = NULL
         /\ \E s \in Sessions : phase[t][s] = "free" /\ PhaseBecomes(t, s, "handshake")
<1> DEFINE s == CHOOSE r \in Sessions : phase[t][r] = "free"
<1>1. thread[t] = "serving" /\ lookup[t] = NULL
  BY ServingFacts DEF AcceptConnection
<1>2. PICK r \in Sessions : phase[t][r] = "free"
  <2> SUFFICES ASSUME \A r \in Sessions : phase[t][r] # "free"
               PROVE  Full(t)
    BY DEF AcceptConnection
  <2>1. Occupied(t) = Sessions
    BY DEF Occupied
  <2>2. threads_count \in 1 .. MaxThreads /\ max_connections \in Nat
    BY <1>1, ShareOfServing, ConnectionsAssumption
  <2>3. one_thread_connections <= max_connections
    BY <2>2 DEF one_thread_connections
  <2> QED
    BY <2>1, <2>3, SessionsFinite DEF Full
<1>3. s \in Sessions /\ phase[t][s] = "free"
  BY <1>2
<1>4. PhaseBecomes(t, s, "handshake")
  BY DEF AcceptConnection, PhaseBecomes
<1> QED
  BY <1>1, <1>3, <1>4

LEMMA AcceptKeepsInvariant ==
  ASSUME SInv, NEW t \in ThreadId, AcceptConnection(t)
  PROVE  SInv'
<1>1. thread[t] = "serving" /\ lookup[t] = NULL
  BY AcceptPicks
<1>2. PICK s \in Sessions : phase[t][s] = "free" /\ PhaseBecomes(t, s, "handshake")
  BY AcceptPicks
<1>3. "handshake" \in Phases
  BY DEF Phases
<1>4. Typed'
  <2>1. phase' \in [ThreadId -> [Sessions -> Phases]]
    BY <1>2, <1>3, PhaseBecomesElements DEF SInv
  <2>2. descriptors' \in Int
    BY DEF AcceptConnection, SInv, Typed
  <2> QED
    BY <2>1, <2>2 DEF AcceptConnection, startup, SInv, Typed
<1>5. AnswerIsOwn'
  BY DEF AcceptConnection, SInv, AnswerIsOwn
<1>6. descriptors' = descriptors + Cost("handshake") - Cost(phase[t][s])
  BY <1>2 DEF AcceptConnection, Cost, SInv, Typed
<1> QED
  BY <1>1, <1>2, <1>3, <1>4, <1>5, <1>6, MoveKeepsInvariant
     DEF AcceptConnection, startup

\* The turns that only move a connection and close its descriptors.
LEMMA GoesKeepsInvariant ==
  ASSUME SInv, NEW t \in ThreadId, NEW s \in Sessions,
         NEW from \in Phases \ {"free"}, NEW to \in Phases,
         Goes(t, s, from, to, Cost(from) - Cost(to)), Cost(to) <= Cost(from)
  PROVE  SInv'
<1>1. thread[t] = "serving" /\ lookup[t] = NULL /\ phase[t][s] = from
  BY ServingFacts DEF Goes
<1>2. PhaseBecomes(t, s, to)
  BY DEF Goes, PhaseBecomes
<1>3. Cost(from) \in Int /\ Cost(to) \in Int
  BY DEF Cost
<1>4. Typed'
  <2>1. phase' \in [ThreadId -> [Sessions -> Phases]]
    BY <1>2, PhaseBecomesElements DEF SInv
  <2>2. descriptors' \in Int
    BY <1>3 DEF Goes, SInv, Typed
  <2> QED
    BY <2>1, <2>2 DEF Goes, startup, SInv, Typed
<1>5. AnswerIsOwn'
  BY DEF Goes, SInv, AnswerIsOwn
<1>6. /\ descriptors' = descriptors + Cost(to) - Cost(phase[t][s])
      /\ \/ descriptors' <= descriptors
         \/ descriptors < DescriptorLimit /\ descriptors' = descriptors + 1
  BY <1>1, <1>3 DEF Goes, SInv, Typed
<1>7. /\ phase[t][s] # "free"
      /\ lookup' = lookup /\ UNCHANGED <<main, threads_count, thread>>
  BY <1>1 DEF Goes, startup
<1> QED
  BY <1>1, <1>2, <1>4, <1>5, <1>6, <1>7, MoveKeepsInvariant

LEMMA GoingTurnsKeepInvariant ==
  ASSUME SInv, NEW t \in ThreadId, NEW s \in Sessions,
         \/ Refuse(t, s) \/ Drop(t, s) \/ Answered(t, s) \/ AnswerFails(t, s)
         \/ Relay(t, s) \/ ConnectFails(t, s) \/ HalfClosed(t, s) \/ Closed(t, s)
  PROVE  SInv'
<1>1. PICK from \in Phases \ {"free"}, to \in Phases :
        Goes(t, s, from, to, Cost(from) - Cost(to)) /\ Cost(to) <= Cost(from)
  <2> DEFINE Fine(from, to, n) ==
               /\ from \in Phases \ {"free"} /\ to \in Phases
               /\ n = Cost(from) - Cost(to) /\ Cost(to) <= Cost(from)
  <2>1. /\ Fine("handshake", "rejecting", 0) /\ Fine("handshake", "dropped", 1)
        /\ Fine("rejecting", "answered", 0) /\ Fine("rejecting", "dropped", 1)
        /\ Fine("connecting", "relaying", 0) /\ Fine("connecting", "free", 2)
        /\ Fine("relaying", "draining", 2) /\ Fine("draining", "free", 0)
    BY DEF Phases, Cost
  <2>2. \E from, to, n : Fine(from, to, n) /\ Goes(t, s, from, to, n)
    <3> HIDE DEF Fine
    <3> QED
      BY <2>1 DEF Refuse, Drop, Answered, AnswerFails, Relay, ConnectFails, HalfClosed, Closed
  <2> QED
    BY <2>2
<1> QED
  BY <1>1, GoesKeepsInvariant

\* The connection gets its destination, or a refusal, or the process ends.
LEMMA ConnectOutcomes ==
  ASSUME descriptors \in Int, NEW t \in ThreadId, NEW s \in Sessions,
         connect_destination(t, s)
  PROVE  \/ EndProcess("killed")
         \/ \E p \in {"connecting", "rejecting"} :
              /\ PhaseBecomes(t, s, p)
              /\ descriptors' = descriptors + IF p = "connecting" THEN 1 ELSE 0
              /\ p = "connecting" => descriptors < DescriptorLimit
              /\ lookup' = [lookup EXCEPT ![t] = NULL]
              /\ UNCHANGED <<startup, waiting, deaf, hostent>>
<1>1. CASE EndProcess("killed")
  BY <1>1
<1>2. CASE /\ descriptors < DescriptorLimit
           /\ phase' = [phase EXCEPT ![t][s] = "connecting"]
           /\ descriptors' = descriptors + 1
           /\ lookup' = [lookup EXCEPT ![t] = NULL]
           /\ UNCHANGED <<startup, waiting, deaf, hostent>>
  BY <1>2 DEF PhaseBecomes
<1>3. CASE /\ phase' = [phase EXCEPT ![t][s] = "rejecting"]
           /\ lookup' = [lookup EXCEPT ![t] = NULL]
           /\ UNCHANGED <<startup, descriptors, waiting, deaf, hostent>>
  BY <1>3 DEF PhaseBecomes
<1> QED
  BY <1>1, <1>2, <1>3 DEF connect_destination

\* The connection is in its handshake; the thread serves it, and no lookup but
\* perhaps the one it has read to the end keeps it.
LEMMA ConnectKeepsInvariant ==
  ASSUME SInv, NEW t \in ThreadId, NEW s \in Sessions,
         thread[t] = "serving", phase[t][s] = "handshake", connect_destination(t, s)
  PROVE  SInv'
<1>1. CASE EndProcess("killed")
  BY <1>1, EndKeepsInvariant
<1>2. ASSUME NEW p \in {"connecting", "rejecting"},
             PhaseBecomes(t, s, p),
             descriptors' = descriptors + IF p = "connecting" THEN 1 ELSE 0,
             p = "connecting" => descriptors < DescriptorLimit,
             lookup' = [lookup EXCEPT ![t] = NULL],
             UNCHANGED <<startup, waiting, deaf, hostent>>
      PROVE  SInv'
  <2>1. p \in Phases /\ p # "free"
    BY DEF Phases
  <2>2. /\ lookup'[t] = NULL /\ \A u \in ThreadId : u # t => lookup'[u] = lookup[u]
        /\ lookup' \in [ThreadId -> Lookup \cup {NULL}]
    BY <1>2 DEF SInv, Typed
  <2>3. Typed'
    <3>1. phase' \in [ThreadId -> [Sessions -> Phases]]
      BY <1>2, <2>1, PhaseBecomesElements DEF SInv
    <3>2. descriptors' \in Int
      BY <1>2 DEF SInv, Typed
    <3> QED
      BY <1>2, <2>2, <3>1, <3>2 DEF startup, SInv, Typed
  <2>4. AnswerIsOwn'
    BY <1>2, <2>2 DEF SInv, AnswerIsOwn
  <2>5. /\ descriptors' = descriptors + Cost(p) - Cost(phase[t][s])
        /\ \/ descriptors' <= descriptors
           \/ descriptors < DescriptorLimit /\ descriptors' = descriptors + 1
    BY <1>2 DEF Cost, SInv, Typed
  <2> QED
    BY <1>2, <2>1, <2>2, <2>3, <2>4, <2>5, MoveKeepsInvariant DEF startup
<1> QED
  BY <1>1, <1>2, ConnectOutcomes DEF SInv, Typed

\* What the others are reading is still theirs; they know when it no longer is
\* what they asked for.
LEMMA OvertakeElements ==
  ASSUME SInv, NEW t \in ThreadId
  PROVE  /\ Overtake(t) \in [ThreadId -> Lookup \cup {NULL}]
         /\ Overtake(t)[t] = lookup[t]
         /\ \A u \in ThreadId : u # t =>
              \/ lookup[u] = NULL /\ Overtake(t)[u] = NULL
              \/ /\ lookup[u] # NULL
                 /\ Overtake(t)[u] = [lookup[u] EXCEPT !.overtaken = TRUE]
                 /\ Overtake(t)[u].overtaken
                 /\ Overtake(t)[u].session = lookup[u].session
<1>1. lookup \in [ThreadId -> Lookup \cup {NULL}]
  BY DEF SInv, Typed
<1>2. \A l \in Lookup : LET m == [l EXCEPT !.overtaken = TRUE] IN
        m \in Lookup /\ m.overtaken /\ m.session = l.session
  BY DEF Lookup
<1>3. \A u \in ThreadId : lookup[u] # NULL => lookup[u] \in Lookup
  BY <1>1
<1> QED
  BY <1>1, <1>2, <1>3 DEF Overtake

LEMMA LookUpKeepsInvariant ==
  ASSUME SInv, NEW t \in ThreadId, NEW s \in Sessions, NEW name \in Names,
         LookUp(t, s, name)
  PROVE  SInv'
<1> DEFINE l == [session |-> s, name |-> name, family |-> NULL, overtaken |-> FALSE]
<1>1. /\ thread[t] = "serving" /\ phase[t][s] = "handshake"
      /\ hostent' = [family |-> Family(name), address |-> name]
      /\ lookup' = [Overtake(t) EXCEPT ![t] = l]
      /\ UNCHANGED <<startup, descriptors, waiting, deaf, phase>>
  BY ServingFacts DEF LookUp
<1>2. l \in Lookup /\ l.session = s /\ l.name = name /\ l.family = NULL /\ ~l.overtaken
  BY DEF Lookup
<1> HIDE DEF l
<1>3. /\ lookup' \in [ThreadId -> Lookup \cup {NULL}]
      /\ lookup'[t] = l
      /\ \A u \in ThreadId : u # t /\ lookup'[u] # NULL =>
           /\ lookup[u] # NULL
           /\ lookup'[u].overtaken /\ lookup'[u].session = lookup[u].session
  BY <1>1, <1>2, OvertakeElements
<1>4. /\ hostent' \in [family : {"AF_INET", "AF_INET6"}, address : Names \cup {NULL}]
      /\ hostent'.family = Family(name) /\ hostent'.address = name
  BY <1>1 DEF Family
<1>5. Typed'
  BY <1>1, <1>3, <1>4 DEF startup, SInv, Typed
<1>6. AnswerIsOwn'
  BY <1>2, <1>3, <1>4 DEF AnswerIsOwn
<1>7. ThreadsInOrder' /\ DescriptorsBounded'
  BY <1>1 DEF startup, SInv, ThreadsInOrder, Spawned, DescriptorsBounded
<1>8. ThreadsServe'
  <2>1. \A u \in ThreadId : lookup'[u] # NULL =>
          phase'[u][lookup'[u].session] = "handshake" /\ (lookup[u] = NULL => u = t)
    BY <1>1, <1>2, <1>3 DEF SInv, ThreadsServe
  <2>2. thread' = thread /\ \A u \in ThreadId : Occupied(u)' = Occupied(u)
    BY <1>1 DEF startup, Occupied
  <2>3. one_thread_connections' = one_thread_connections
    BY <1>1, SMTT(60) DEF startup, one_thread_connections
  <2> QED
    BY <1>1, <2>1, <2>2, <2>3 DEF SInv, ThreadsServe
<1>9. DescriptorsBalance'
  BY <1>1 DEF startup, SInv, DescriptorsBalance, Overhead, Rings, Holding, Connections
<1> QED
  BY <1>5, <1>6, <1>7, <1>8, <1>9 DEF SInv

LEMMA LookUpFailsKeepsInvariant ==
  ASSUME SInv, NEW t \in ThreadId, NEW s \in Sessions, LookUpFails(t, s)
  PROVE  SInv'
<1>1. /\ thread[t] = "serving" /\ lookup[t] = NULL /\ phase[t][s] = "handshake"
      /\ PhaseBecomes(t, s, "rejecting")
      /\ hostent' \in {hostent, [hostent EXCEPT !.address = NULL]}
      /\ lookup' = Overtake(t)
      /\ UNCHANGED <<startup, descriptors, waiting, deaf>>
  BY ServingFacts DEF LookUpFails, PhaseBecomes
<1>2. "rejecting" \in Phases
  BY DEF Phases
<1>3. /\ lookup' \in [ThreadId -> Lookup \cup {NULL}]
      /\ lookup'[t] = NULL
      /\ \A u \in ThreadId : u # t /\ lookup'[u] # NULL =>
           /\ lookup[u] # NULL
           /\ lookup'[u].overtaken /\ lookup'[u].session = lookup[u].session
  BY <1>1, OvertakeElements
<1>4. Typed'
  <2>1. phase' \in [ThreadId -> [Sessions -> Phases]]
    BY <1>1, <1>2, PhaseBecomesElements DEF SInv
  <2>2. hostent' \in [family : {"AF_INET", "AF_INET6"}, address : Names \cup {NULL}]
    BY <1>1 DEF SInv, Typed
  <2> QED
    BY <1>1, <1>3, <2>1, <2>2 DEF startup, SInv, Typed
<1>5. AnswerIsOwn'
  BY <1>3 DEF AnswerIsOwn
<1>6. descriptors' = descriptors + Cost("rejecting") - Cost(phase[t][s])
  BY <1>1 DEF Cost, SInv, Typed
<1>7. \/ descriptors' <= descriptors
      \/ descriptors < DescriptorLimit /\ descriptors' = descriptors + 1
  BY <1>1 DEF SInv, Typed
<1>8. UNCHANGED <<main, threads_count, thread>>
  BY <1>1 DEF startup
<1> QED
  BY <1>1, <1>2, <1>3, <1>4, <1>5, <1>6, <1>7, <1>8, MoveKeepsInvariant

\* Only the thread that looked a name up reads the answer.
LEMMA LookingUp ==
  ASSUME SInv, NEW t \in ThreadId, lookup[t] # NULL
  PROVE  /\ lookup[t] \in Lookup /\ lookup[t].session \in Sessions
         /\ thread[t] = "serving" /\ phase[t][lookup[t].session] = "handshake"
BY DEF SInv, Typed, ThreadsServe, Lookup

LEMMA ReadFamilyKeepsInvariant ==
  ASSUME SInv, NEW t \in ThreadId, ReadFamily(t)
  PROVE  SInv'
<1> DEFINE l == [lookup[t] EXCEPT !.family = hostent.family]
<1>1. /\ lookup[t] \in Lookup /\ lookup[t] # NULL /\ lookup[t].family = NULL
      /\ lookup' = [lookup EXCEPT ![t] = l]
      /\ UNCHANGED <<startup, descriptors, waiting, deaf, phase, hostent>>
  BY LookingUp DEF ReadFamily
<1>2. /\ l \in Lookup /\ l.session = lookup[t].session /\ l.name = lookup[t].name
      /\ l.family = hostent.family /\ l.overtaken = lookup[t].overtaken
  BY <1>1 DEF Lookup, SInv, Typed
<1> HIDE DEF l
<1>3. /\ lookup' \in [ThreadId -> Lookup \cup {NULL}]
      /\ lookup'[t] = l /\ \A u \in ThreadId : u # t => lookup'[u] = lookup[u]
  BY <1>1, <1>2 DEF SInv, Typed
<1>4. Typed'
  BY <1>1, <1>3 DEF startup, SInv, Typed
<1>5. AnswerIsOwn'
  <2>1. ASSUME ~l.overtaken
        PROVE  /\ hostent.family = Family(l.name) /\ hostent.address = l.name
               /\ l.family \in {NULL, Family(l.name)}
    BY <1>1, <1>2, <2>1 DEF SInv, AnswerIsOwn
  <2> QED
    BY <1>1, <1>3, <2>1 DEF SInv, AnswerIsOwn
<1>6. ThreadsInOrder' /\ DescriptorsBounded'
  BY <1>1 DEF startup, SInv, ThreadsInOrder, Spawned, DescriptorsBounded
<1>7. ThreadsServe'
  <2>1. \A u \in ThreadId : lookup'[u] # NULL =>
          /\ lookup[u] # NULL /\ phase'[u][lookup'[u].session] = "handshake"
    BY <1>1, <1>2, <1>3 DEF SInv, ThreadsServe
  <2>2. thread' = thread /\ \A u \in ThreadId : Occupied(u)' = Occupied(u)
    BY <1>1 DEF startup, Occupied
  <2>3. one_thread_connections' = one_thread_connections
    BY <1>1 DEF startup, one_thread_connections
  <2> QED
    BY <2>1, <2>2, <2>3 DEF SInv, ThreadsServe
<1>8. DescriptorsBalance'
  BY <1>1 DEF startup, SInv, DescriptorsBalance, Overhead, Rings, Holding, Connections
<1> QED
  BY <1>4, <1>5, <1>6, <1>7, <1>8 DEF SInv

-----------------------------------------------------------------------------
(***************************************************************************)
(* main and the constructors.                                              *)
(***************************************************************************)

-----------------------------------------------------------------------------
(***************************************************************************)
(* main and the constructors.                                              *)
(***************************************************************************)

LEMMA ConnectionsKept ==
  ASSUME UNCHANGED phase
  PROVE  /\ \A t \in ThreadId : Occupied(t)' = Occupied(t)
         /\ \A P : Holding(P)' = Holding(P)
BY DEF Occupied, Holding, Connections

LEMMA RingsFinite == IsFiniteSet(Rings) /\ Cardinality(Rings) \in Nat
<1>1. Rings \subseteq ThreadId
  BY DEF Rings
<1> QED
  BY <1>1, SessionsFinite, FS_Subset, FS_CardinalityType

\* The steps of main before any thread exists.
LEMMA EarlyStepKeepsInvariant ==
  ASSUME SInv, Typed', main \in {"parsing", "opening", "limiting"},
         threads_count' > 0, UNCHANGED <<thread, connections>>,
         \/ main = "parsing" /\ main' = "opening" /\ UNCHANGED descriptors
         \/ main = "opening" /\ main' = "limiting" /\ descriptors' = descriptors + 1
         \/ main = "limiting" /\ main' = "spawning" /\ UNCHANGED descriptors
  PROVE  SInv'
<1>1. \A t \in ThreadId : thread[t] = "none"
  BY DEF SInv, ThreadsInOrder
<1>2. ThreadsInOrder'
  BY <1>1 DEF SInv, ThreadsInOrder, Spawned, MAIN
<1>3. phase' = phase /\ hostent' = hostent /\ lookup' = lookup
  BY DEF connections
<1>4. ThreadsServe' /\ AnswerIsOwn'
  <2>1. \A t \in ThreadId : Occupied(t)' = {} /\ lookup[t] = NULL
    BY <1>1, <1>3, ConnectionsKept DEF SInv, ThreadsServe
  <2> QED
    BY <1>1, <1>3, <2>1 DEF ThreadsServe, AnswerIsOwn
<1>5. DescriptorsBounded' /\ DescriptorsBalance'
  <2>1. Rings' = Rings /\ \A P : Holding(P)' = Holding(P) /\ Cardinality(Holding(P)) \in Nat
    BY <1>3, ConnectionsKept, HoldingFinite DEF Rings
  <2>2. Cardinality(Rings) \in Nat /\ Inherited \in Nat /\ descriptors \in Int
    BY RingsFinite, InheritedAssumption DEF SInv, Typed
  <2>3. DescriptorLimit \in Int
    BY ConnectionsAssumption DEF DescriptorLimit
  <2>4. CASE main \in {"parsing", "limiting"}
    BY <2>1, <2>2, <2>3, <2>4 DEF SInv, DescriptorsBounded, DescriptorsBalance, Overhead
  <2>5. CASE main = "opening"
    BY <2>1, <2>2, <2>3, <2>5 DEF SInv, DescriptorsBounded, DescriptorsBalance, Overhead
  <2> QED
    BY <2>4, <2>5
<1> QED
  BY <1>2, <1>4, <1>5 DEF SInv

\* A thread begins to construct its IoUring.
LEMMA StartThreadKeepsInvariant ==
  ASSUME SInv, StartThread
  PROVE  SInv'
<1> DEFINE n == Cardinality(Spawned) + 1
<1>1. /\ main = "spawning" /\ thread[MAIN] = "none"
      /\ threads_count \in 1 .. MaxThreads /\ MAIN \in ThreadId
      /\ UNCHANGED <<process, threads_count, descriptors, connections>>
  BY ConnectionsAssumption
     DEF StartThread, At, SInv, Typed, ThreadsInOrder, MAIN, ThreadId
<1>2. Cardinality(Spawned) \in Nat /\ IsFiniteSet(Spawned)
  BY SessionsFinite, FS_Subset, FS_CardinalityType DEF Spawned
<1>3. Spawned = 1 .. Cardinality(Spawned)
  BY DEF SInv, ThreadsInOrder
<1>4. PICK x \in ThreadId :
        /\ thread[x] = "none" /\ x < threads_count
        /\ thread' = [thread EXCEPT ![x] = "constructing"]
        /\ \/ x = n /\ x # MAIN /\ main' = main
           \/ x = MAIN /\ main' = "serving"
  <2>1. CASE n < threads_count
    <3>1. n \in ThreadId /\ n # MAIN /\ n \notin Spawned
      <4>1. n \in Nat \ {0} /\ n \notin 1 .. Cardinality(Spawned)
        BY <1>2
      <4>2. MaxThreads \in Nat
        BY ConnectionsAssumption
      <4> HIDE DEF n
      <4>3. n \in ThreadId
        BY <1>1, <2>1, <4>1, <4>2 DEF ThreadId
      <4> QED
        BY <1>3, <4>1, <4>3 DEF MAIN
    <3>2. thread[n] = "none"
      BY <3>1 DEF Spawned
    <3> QED
      BY <2>1, <3>1, <3>2 DEF StartThread
  <2>2. CASE ~(n < threads_count)
    BY <1>1, <2>2 DEF StartThread, MAIN
  <2> QED
    BY <2>1, <2>2
<1>5. /\ thread \in [ThreadId -> {"none", "constructing", "serving"}]
      /\ thread' \in [ThreadId -> {"none", "constructing", "serving"}]
      /\ thread'[x] = "constructing" /\ \A t \in ThreadId : t # x => thread'[t] = thread[t]
  BY <1>4 DEF SInv, Typed
<1>6. Typed'
  BY <1>1, <1>4, <1>5 DEF connections, SInv, Typed
<1>7. ThreadsInOrder'
  <2>1. Spawned' = 1 .. Cardinality(Spawned')
    <3>1. CASE x = MAIN
      <4>1. Spawned' = Spawned
        BY <1>5, <3>1 DEF Spawned
      <4> QED
        BY <1>3, <4>1
    <3>2. CASE x = n /\ x # MAIN
      <4>1. Spawned' = Spawned \cup {x} /\ x \notin Spawned
        BY <1>4, <1>5, <3>2 DEF Spawned
      <4>2. Cardinality(Spawned') = Cardinality(Spawned) + 1
        BY <1>2, <4>1, FS_AddElement
      <4>3. Spawned' = 1 .. (Cardinality(Spawned) + 1)
        BY <1>2, <1>3, <3>2, <4>1
      <4> QED
        BY <4>2, <4>3
    <3> QED
      BY <1>4, <3>1, <3>2
  <2>2. \A t \in ThreadId : t >= threads_count' => thread'[t] = "none"
    BY <1>1, <1>4, <1>5 DEF SInv, ThreadsInOrder, ThreadId
  <2>3. main' # "serving" => thread'[MAIN] = "none"
    BY <1>1, <1>4, <1>5
  <2> QED
    BY <1>1, <1>4, <2>1, <2>2, <2>3 DEF ThreadsInOrder, SInv
<1>8. phase' = phase /\ hostent' = hostent /\ lookup' = lookup
  BY <1>1 DEF connections
<1>9. ThreadsServe' /\ AnswerIsOwn'
  <2>1. \A t \in ThreadId : Occupied(t)' = Occupied(t)
    BY <1>8, ConnectionsKept
  <2>2. one_thread_connections' = one_thread_connections
    BY <1>1 DEF one_thread_connections
  <2> QED
    BY <1>4, <1>5, <1>8, <2>1, <2>2 DEF SInv, ThreadsServe, AnswerIsOwn
<1>10. DescriptorsBounded' /\ DescriptorsBalance'
  <2>1. Rings' = Rings
    BY <1>4, <1>5 DEF Rings
  <2>2. \A P : Holding(P)' = Holding(P)
    BY <1>8, ConnectionsKept
  <2>3. main' \in {"spawning", "serving"}
    BY <1>1, <1>4
  <2> QED
    BY <1>1, <2>1, <2>2, <2>3 DEF SInv, DescriptorsBounded, DescriptorsBalance, Overhead
<1> QED
  BY <1>6, <1>7, <1>9, <1>10 DEF SInv

\* The constructor of an IoUring is done: the thread has its ring and its share.
LEMMA ConstructKeepsInvariant ==
  ASSUME SInv, NEW t \in ThreadId, Construct(t)
  PROVE  SInv'
<1>1. /\ thread[t] = "constructing" /\ one_thread_connections > 0
      /\ descriptors < DescriptorLimit
      /\ thread' = [thread EXCEPT ![t] = "serving"]
      /\ descriptors' = descriptors + 1
      /\ UNCHANGED <<process, main, threads_count, connections>>
  BY DEF Construct
<1>2. /\ thread' \in [ThreadId -> {"none", "constructing", "serving"}]
      /\ thread'[t] = "serving" /\ \A u \in ThreadId : u # t => thread'[u] = thread[u]
      /\ descriptors \in Int
  BY <1>1 DEF SInv, Typed
<1>3. phase' = phase /\ hostent' = hostent /\ lookup' = lookup
  BY <1>1 DEF connections
<1>4. Typed'
  BY <1>1, <1>2 DEF connections, SInv, Typed
<1>5. ThreadsInOrder'
  <2>1. Spawned' = Spawned
    BY <1>1, <1>2 DEF Spawned
  <2> QED
    BY <1>1, <1>2, <2>1 DEF SInv, ThreadsInOrder
<1>6. ThreadsServe' /\ AnswerIsOwn'
  <2>1. \A u \in ThreadId : Occupied(u)' = Occupied(u)
    BY <1>3, ConnectionsKept
  <2>2. /\ one_thread_connections' = one_thread_connections
        /\ one_thread_connections \in Nat
    BY <1>1, ShareOfServing DEF one_thread_connections
  <2>3. Occupied(t) = {} /\ lookup[t] = NULL
    BY <1>1 DEF SInv, ThreadsServe
  <2>4. Cardinality({}) = 0
    BY FS_EmptySet
  <2> QED
    BY <1>2, <1>3, <2>1, <2>2, <2>3, <2>4 DEF SInv, ThreadsServe, AnswerIsOwn
<1>7. DescriptorsBounded' /\ DescriptorsBalance'
  <2>1. Rings' = Rings \cup {t} /\ t \notin Rings
    BY <1>1, <1>2 DEF Rings
  <2>2. Cardinality(Rings') = Cardinality(Rings) + 1 /\ Cardinality(Rings) \in Nat
    BY <2>1, RingsFinite, FS_AddElement
  <2>3. \A P : Holding(P)' = Holding(P) /\ Cardinality(Holding(P)) \in Nat
    BY <1>3, ConnectionsKept, HoldingFinite
  <2>4. main \notin {"parsing", "opening"} /\ main' = main
    BY <1>1 DEF SInv, ThreadsInOrder
  <2>5. DescriptorLimit \in Int /\ Inherited \in Nat
    BY ConnectionsAssumption, InheritedAssumption DEF DescriptorLimit
  <2> QED
    BY <1>1, <1>2, <2>2, <2>3, <2>4, <2>5
       DEF SInv, DescriptorsBounded, DescriptorsBalance, Overhead
<1> QED
  BY <1>4, <1>5, <1>6, <1>7 DEF SInv

LEMMA StartKeepsInvariant ==
  ASSUME SInv, Start
  PROVE  SInv'
<1>1. CASE Refused
  BY <1>1, EndKeepsInvariant DEF Refused
<1>2. CASE Parse
  <2>1. PICK n \in Arguments \cup Hardware :
          IF n = 0
            THEN EndProcess("killed")
            ELSE /\ threads_count' = n
                 /\ main' = "opening"
                 /\ UNCHANGED <<process, thread, descriptors, connections>>
    BY <1>2 DEF Parse
  <2>2. CASE n = 0
    BY <2>1, <2>2, EndKeepsInvariant
  <2>3. CASE n # 0
    <3>1. n \in 0 .. MaxThreads /\ n > 0
      BY <2>3, ArgumentsAssumption, ConnectionsAssumption
    <3>2. Typed'
      BY <2>1, <2>3, <3>1 DEF connections, SInv, Typed
    <3> QED
      BY <1>2, <2>1, <2>3, <3>1, <3>2, EarlyStepKeepsInvariant DEF Parse, At
  <2> QED
    BY <2>2, <2>3
<1>3. CASE OpenMainSocket \/ SetLimits
  <2>1. Typed'
    BY <1>3 DEF OpenMainSocket, SetLimits, At, connections, SInv, Typed
  <2>2. threads_count' > 0
    BY <1>3 DEF OpenMainSocket, SetLimits, At, SInv, ThreadsInOrder
  <2> QED
    BY <1>3, <2>1, <2>2, EarlyStepKeepsInvariant DEF OpenMainSocket, SetLimits, At
<1>4. CASE StartThread
  BY <1>4, StartThreadKeepsInvariant
<1>5. CASE MainFails
  BY <1>5, EndKeepsInvariant DEF MainFails, Throw
<1> QED
  BY <1>1, <1>2, <1>3, <1>4, <1>5 DEF Start

LEMMA StepKeepsInvariant == SInv /\ [Next]_vars => SInv'
<1> SUFFICES ASSUME SInv, [Next]_vars PROVE SInv'
  OBVIOUS
<1>1. CASE Start
  BY <1>1, StartKeepsInvariant
<1>2. ASSUME waiting' \in BOOLEAN, deaf' \subseteq ThreadId,
             UNCHANGED <<startup, descriptors, phase, hostent, lookup>>
      PROVE  SInv'
  <2>1. Typed'
    BY <1>2 DEF startup, SInv, Typed
  <2> QED
    BY <1>2, <2>1, QuietStepKeepsInvariant DEF startup
<1>3. waiting \in BOOLEAN /\ deaf \subseteq ThreadId
  BY DEF SInv, Typed
<1>4. CASE ClientArrives
  BY <1>2, <1>3, <1>4 DEF ClientArrives
<1>5. ASSUME NEW t \in ThreadId, Construct(t) \/ ConstructFails(t) \/ EventLoopFails(t)
      PROVE  SInv'
  BY <1>5, ConstructKeepsInvariant, EndKeepsInvariant
     DEF ConstructFails, EventLoopFails, Throw
<1>6. ASSUME NEW t \in ThreadId, TakeClient(t) \/ AcceptFails(t) PROVE SInv'
  BY <1>2, <1>3, <1>6, AcceptKeepsInvariant DEF TakeClient, TurnAway, AcceptFails
<1>7. ASSUME NEW t \in ThreadId, Resolve(t) PROVE SInv'
  BY <1>7, ReadFamilyKeepsInvariant, LookingUp, ConnectKeepsInvariant
     DEF Resolve, ConnectResolved
<1>8. ASSUME NEW t \in ThreadId, NEW s \in Sessions, Turn(t, s) PROVE SInv'
  <2>1. CASE ConnectAddress(t, s)
    BY <2>1, ServingFacts, ConnectKeepsInvariant DEF ConnectAddress
  <2> QED
    BY <1>8, <2>1, GoingTurnsKeepInvariant, LookUpKeepsInvariant, LookUpFailsKeepsInvariant
       DEF Turn
<1>9. CASE UNCHANGED vars
  BY <1>2, <1>3, <1>9 DEF vars, startup
<1> QED
  BY <1>1, <1>4, <1>5, <1>6, <1>7, <1>8, <1>9 DEF Next

\* In every reachable state each thread keeps to its share of the connections,
\* only threads that serve hold any, every descriptor is accounted for, and the
\* answer of a lookup nobody has overtaken is its own.
THEOREM InvariantHolds == Spec => []SInv
BY InitEstablishesInvariant, StepKeepsInvariant, PTL DEF Spec

-----------------------------------------------------------------------------
(***************************************************************************)
(* What follows from the invariant.                                        *)
(***************************************************************************)

\* A descriptor that is counted is open: the number never falls below zero nor
\* exceeds the limit by more than what the process started with.
LEMMA TypeOKFollows == SInv => TypeOK
<1> SUFFICES ASSUME SInv PROVE TypeOK
  OBVIOUS
<1>1. descriptors >= 0 /\ descriptors \in Int
  <2>1. /\ \A P : Cardinality(Holding(P)) \in Nat
        /\ Cardinality(Rings) \in Nat /\ Inherited \in Nat
    BY HoldingFinite, RingsFinite, InheritedAssumption
  <2>2. Overhead \in Nat
    BY <2>1 DEF Overhead
  <2> QED
    BY <2>1, <2>2 DEF SInv, DescriptorsBalance, Typed
<1>2. descriptors <= Inherited + 1 + MaxThreads + DescriptorLimit
  <2>1. MaxThreads \in Nat /\ DescriptorLimit \in Nat /\ Inherited \in Nat
    BY ConnectionsAssumption, InheritedAssumption DEF DescriptorLimit
  <2> QED
    BY <1>1, <2>1 DEF SInv, DescriptorsBounded
<1>3. Inherited + 1 + MaxThreads + DescriptorLimit \in Int
  BY ConnectionsAssumption, InheritedAssumption DEF DescriptorLimit
<1>4. descriptors \in 0 .. Inherited + 1 + MaxThreads + DescriptorLimit
  BY <1>1, <1>2, <1>3
<1> QED
  BY <1>4 DEF SInv, Typed, ThreadsInOrder, TypeOK

\* The variables hold values of their types, no thread is started beyond those
\* asked for, and the count of descriptors stays between zero and its limit.
THEOREM TypeCorrect == Spec => []TypeOK
BY TypeOKFollows, InvariantHolds, PTL

\* No interleaving of the threads loses a descriptor, closes one twice or counts
\* one to two connections.
THEOREM DescriptorsBalanceHolds == Spec => []DescriptorsBalance
<1>1. SInv => DescriptorsBalance
  BY DEF SInv
<1> QED
  BY <1>1, InvariantHolds, PTL

\* A name is connected to by its own address, as one of its own family, unless
\* another thread has called gethostbyname since it was looked up.
THEOREM ConnectsToOwnNameHolds == Spec => ConnectsToOwnName
<1> DEFINE Own(t) ==
             \/ lookup[t].overtaken
             \/ /\ lookup[t].family = Family(lookup[t].name)
                /\ hostent.address = lookup[t].name
<1>1. SInv /\ [Next]_vars =>
        \/ \A t \in ThreadId : lookup[t] # NULL /\ lookup'[t] = NULL => Own(t)
        \/ UNCHANGED vars
  <2> SUFFICES ASSUME SInv, Next,
                      NEW t \in ThreadId, lookup[t] # NULL, lookup'[t] = NULL
               PROVE  Own(t)
    BY DEF vars
  <2> USE DEF startup, connections
  <2>1. lookup[t] \in Lookup /\ lookup \in [ThreadId -> Lookup \cup {NULL}]
    BY LookingUp DEF SInv, Typed
  <2>2. lookup'[t] # lookup[t]
    OBVIOUS
  <2>3. ASSUME NEW how, EndProcess(how) PROVE FALSE
    BY <2>2, <2>3 DEF EndProcess
  <2>4. ~Start
    BY <2>2, <2>3 DEF Start, Refused, Parse, OpenMainSocket, SetLimits, StartThread,
                      MainFails, Throw
  <2>5. ~ClientArrives
    BY <2>2 DEF ClientArrives
  <2>6. ASSUME NEW u \in ThreadId, Construct(u) \/ ConstructFails(u) \/ EventLoopFails(u)
        PROVE  FALSE
    BY <2>2, <2>3, <2>6 DEF Construct, ConstructFails, EventLoopFails, Throw
  <2>7. ASSUME NEW u \in ThreadId, TakeClient(u) \/ AcceptFails(u) PROVE FALSE
    BY <2>2, <2>7 DEF TakeClient, AcceptConnection, TurnAway, AcceptFails
  <2>8. ASSUME NEW u \in ThreadId, NEW s \in Sessions, connect_destination(u, s), u # t
        PROVE  FALSE
    BY <2>1, <2>2, <2>3, <2>8 DEF connect_destination
  <2>9. ASSUME NEW u \in ThreadId, ReadFamily(u) PROVE FALSE
    <3>1. lookup[u] \in Lookup /\ hostent.family \in {"AF_INET", "AF_INET6"}
      BY <2>9, LookingUp DEF ReadFamily, SInv, Typed
    <3>2. [lookup[u] EXCEPT !.family = hostent.family] \in Lookup
      BY <3>1 DEF Lookup
    <3> QED
      BY <2>1, <2>9, <3>2, NullAssumption DEF ReadFamily
  <2>10. ASSUME NEW u \in ThreadId, ConnectResolved(u) PROVE Own(t)
    BY <2>8, <2>10, LookingUp DEF ConnectResolved, SInv, AnswerIsOwn
  <2>11. ASSUME NEW u \in ThreadId, NEW s \in Sessions, Turn(u, s) PROVE FALSE
    <3>1. lookup[u] = NULL /\ u # t
      BY <2>11 DEF Turn, Refuse, Drop, Answered, AnswerFails, Relay, ConnectFails,
                   HalfClosed, Closed, Goes, ConnectAddress, LookUpFails, LookUp, Serving
    <3>2. Overtake(u)[t] # NULL
      <4>1. [lookup[t] EXCEPT !.overtaken = TRUE] \in Lookup
        BY <2>1 DEF Lookup
      <4> QED
        BY <3>1, <4>1, NullAssumption DEF Overtake
    <3>3. ~LookUpFails(u, s) /\ \A name \in Names : ~LookUp(u, s, name)
      BY <3>1, <3>2, OvertakeElements DEF LookUpFails, LookUp
    <3>4. ~ConnectAddress(u, s)
      BY <2>8, <3>1 DEF ConnectAddress
    <3> QED
      BY <2>2, <2>11, <3>3, <3>4
         DEF Turn, Refuse, Drop, Answered, AnswerFails, Relay, ConnectFails, HalfClosed,
             Closed, Goes
  <2> QED
    BY <2>4, <2>5, <2>6, <2>7, <2>9, <2>10, <2>11 DEF Next, Resolve
<1> QED
  BY <1>1, InvariantHolds, PTL DEF Spec, ConnectsToOwnName

-----------------------------------------------------------------------------
(***************************************************************************)
(* The refinement of SessionLifecycle.                                     *)
(***************************************************************************)

\* The elements of a finite set can be numbered.
LEMMA Numbering ==
  ASSUME NEW S, IsFiniteSet(S)
  PROVE  \E f : /\ \A s \in S : f[s] \in 1 .. Cardinality(S)
                /\ \A s, r \in S : f[s] = f[r] => s = r
<1>1. ExistsBijection(S, 1 .. Cardinality(S))
  BY FS_CardinalityType, Fun_ExistsBijSymmetric
<1>2. PICK f : f \in Bijection(S, 1 .. Cardinality(S))
  BY <1>1, Fun_ExistsBij
<1>3. f \in [S -> 1 .. Cardinality(S)] /\ \A s, r \in S : f[s] = f[r] => s = r
  BY <1>2 DEF Bijection, Injection, IsInjective
<1> QED
  BY <1>3

\* Each thread keeps to its share, so all of them together stay within
\* max_connections; a thread that has room leaves room for one more.
LEMMA RoomForOne ==
  ASSUME SInv, NEW t \in ThreadId, thread[t] = "serving", ~Full(t)
  PROVE  Cardinality(Connections) < max_connections
<1> DEFINE n == threads_count
           q == one_thread_connections
           Slots == (0 .. (n - 1)) \X (1 .. q)
           Left == Slots \ {<<t, q>>}
           IsNumbering(u, f) ==
             /\ \A s \in Occupied(u) : f[s] \in 1 .. Cardinality(Occupied(u))
             /\ \A s, r \in Occupied(u) : f[s] = f[r] => s = r
           number == [u \in ThreadId |-> CHOOSE f : IsNumbering(u, f)]
           slot == [c \in Connections |-> <<c[1], number[c[1]][c[2]]>>]
<1>1. n \in 1 .. MaxThreads /\ t < n /\ q \in Nat
  BY ShareOfServing
<1>2. \A u \in ThreadId : IsFiniteSet(Occupied(u)) /\ Cardinality(Occupied(u)) \in Nat
  BY SessionsFinite, FS_Subset, FS_CardinalityType DEF Occupied
<1>3. \A u \in ThreadId : IsNumbering(u, number[u])
  <2> SUFFICES ASSUME NEW u \in ThreadId PROVE IsNumbering(u, number[u])
    OBVIOUS
  <2>1. \E f : IsNumbering(u, f)
    BY <1>2, Numbering
  <2> HIDE DEF IsNumbering
  <2> QED
    BY <2>1
<1> HIDE DEF number
<1>4. Cardinality(Occupied(t)) < q
  BY <1>1, <1>2 DEF Full
<1>5. ASSUME NEW c \in Connections
      PROVE  /\ c[1] \in ThreadId /\ c[1] \in 0 .. (n - 1) /\ c[2] \in Occupied(c[1])
             /\ c = <<c[1], c[2]>>
             /\ number[c[1]][c[2]] \in 1 .. q
             /\ <<c[1], number[c[1]][c[2]]>> # <<t, q>>
  <2>1. /\ c[1] \in ThreadId /\ c[2] \in Sessions /\ c = <<c[1], c[2]>>
        /\ c[2] \in Occupied(c[1])
    BY DEF Connections, Occupied
  <2>2. thread[c[1]] = "serving" /\ Cardinality(Occupied(c[1])) <= q
    BY <2>1 DEF SInv, ThreadsServe
  <2>3. c[1] \in 0 .. (n - 1)
    BY <1>1, <2>1, <2>2, ShareOfServing DEF ThreadId
  <2>4. number[c[1]][c[2]] \in 1 .. Cardinality(Occupied(c[1]))
    BY <1>3, <2>1
  <2> QED
    BY <1>1, <1>2, <1>4, <2>1, <2>2, <2>3, <2>4
<1> HIDE DEF n, q
<1>6. slot \in [Connections -> Left]
  BY <1>5
<1>7. ASSUME NEW c \in Connections, NEW d \in Connections, slot[c] = slot[d]
      PROVE  c = d
  <2>1. c[1] = d[1] /\ number[c[1]][c[2]] = number[d[1]][d[2]]
    BY <1>7
  <2> QED
    BY <1>3, <1>5, <2>1
<1>8. slot \in Injection(Connections, Left)
  BY <1>6, <1>7 DEF Injection, IsInjective
<1> HIDE DEF slot
<1>9. IsFiniteSet(Slots) /\ Cardinality(Slots) = n * q
  <2>1. /\ IsFiniteSet(0 .. (n - 1)) /\ Cardinality(0 .. (n - 1)) = n
        /\ IsFiniteSet(1 .. q) /\ Cardinality(1 .. q) = q
    BY <1>1, FS_Interval
  <2>2. /\ IsFiniteSet((0 .. (n - 1)) \X (1 .. q))
        /\ Cardinality((0 .. (n - 1)) \X (1 .. q)) =
             Cardinality(0 .. (n - 1)) * Cardinality(1 .. q)
    BY <2>1, FS_Product
  <2> QED
    BY <2>1, <2>2
<1>10. <<t, q>> \in Slots
  BY <1>1, <1>2, <1>4 DEF ThreadId
<1>11. IsFiniteSet(Left) /\ Cardinality(Left) = n * q - 1
  BY <1>9, <1>10, FS_RemoveElement, ZenonT(60)
<1>12. Cardinality(Connections) <= n * q - 1 /\ Cardinality(Connections) \in Nat
  BY <1>8, <1>11, FS_Injection, HoldingFinite
<1>13. n * q <= max_connections /\ n * q \in Nat /\ max_connections \in Nat
  BY <1>1, Shares, ConnectionsAssumption DEF n, q, one_thread_connections
<1> QED
  BY <1>12, <1>13

lives == [c \in ThreadId \X Sessions |-> LifecyclePhase(phase[c[1]][c[2]])]

stopped == process # "up"

\* The phases of the others stay, so a move here is a move of the lifecycle.
LEMMA MoveOfOneLife ==
  ASSUME SInv, process = "up", UNCHANGED process,
         NEW t \in ThreadId, NEW s \in Sessions, NEW p \in Phases, PhaseBecomes(t, s, p)
  PROVE  Lifecycle!Move(<<t, s>>, LifecyclePhase(phase[t][s]), LifecyclePhase(p))
<1> DEFINE c == <<t, s>>
<1>1. /\ phase'[t][s] = p
      /\ \A u \in ThreadId, r \in Sessions : <<u, r>> # c => phase'[u][r] = phase[u][r]
  BY PhaseBecomesElements DEF SInv
<1>2. lives' = [lives EXCEPT ![c] = LifecyclePhase(p)]
  <2>1. \A d \in ThreadId \X Sessions :
          LifecyclePhase(phase'[d[1]][d[2]]) =
            IF d = c THEN LifecyclePhase(p) ELSE LifecyclePhase(phase[d[1]][d[2]])
    BY <1>1
  <2> HIDE DEF c
  <2> QED
    BY <2>1 DEF lives
<1>3. lives[c] = LifecyclePhase(phase[t][s])
  BY DEF lives
<1> QED
  BY <1>2, <1>3 DEF lives, Lifecycle!Move

LEMMA QuietStepIsNoLife ==
  ASSUME UNCHANGED <<process, phase>>
  PROVE  UNCHANGED <<lives, stopped>>
BY DEF lives, stopped

LEMMA EndIsStop ==
  ASSUME process = "up", NEW how \in {"refused", "logged", "terminated", "killed"},
         EndProcess(how)
  PROVE  Lifecycle!Next
<1>1. UNCHANGED lives
  BY DEF EndProcess, connections, lives
<1> QED
  BY <1>1 DEF EndProcess, lives, Lifecycle!Next, Lifecycle!Stop

LEMMA AcceptIsOpen ==
  ASSUME SInv, NEW t \in ThreadId, AcceptConnection(t)
  PROVE  Lifecycle!Next
<1>1. thread[t] = "serving" /\ ~Full(t) /\ process = "up" /\ UNCHANGED process
  BY AcceptPicks DEF AcceptConnection, Serving, startup
<1>2. PICK s \in Sessions : phase[t][s] = "free" /\ PhaseBecomes(t, s, "handshake")
  BY AcceptPicks
<1>3. "handshake" \in Phases
  BY DEF Phases
<1>4. Lifecycle!Move(<<t, s>>, LifecyclePhase("free"), LifecyclePhase("handshake"))
  BY <1>1, <1>2, <1>3, MoveOfOneLife
<1>5. LifecyclePhase("free") = "free" /\ LifecyclePhase("handshake") = "handshake"
  BY DEF LifecyclePhase
<1>6. Lifecycle!Occupied = Connections
  BY DEF Lifecycle!Occupied, Connections, LifecyclePhase
<1>7. Lifecycle!Cardinality(Lifecycle!Occupied) < max_connections
  <2>1. \A S : Lifecycle!Cardinality(S) = Cardinality(S)
    BY DEF Cardinality, Lifecycle!Cardinality
  <2> QED
    BY <1>1, <1>6, <2>1, RoomForOne
<1>8. Lifecycle!Move(<<t, s>>, "free", "handshake")
  BY <1>4, <1>5
<1>9. Lifecycle!Open(<<t, s>>)
  BY <1>7, <1>8 DEF Lifecycle!Open
<1> QED
  BY <1>9 DEF Lifecycle!Next

\* The connection of a turn, and the move of its life.
LEMMA TurnIsMove ==
  ASSUME SInv, NEW t \in ThreadId, NEW s \in Sessions, NEW from \in Phases, NEW p \in Phases,
         process = "up", UNCHANGED process, phase[t][s] = from, PhaseBecomes(t, s, p),
         <<from, p>> \in {<<"handshake", "rejecting">>, <<"handshake", "dropped">>,
                          <<"handshake", "connecting">>,
                          <<"rejecting", "answered">>, <<"rejecting", "dropped">>,
                          <<"connecting", "relaying">>, <<"connecting", "free">>,
                          <<"relaying", "draining">>, <<"draining", "free">>}
  PROVE  Lifecycle!Next
<1> DEFINE c == <<t, s>>
<1>1. Lifecycle!Move(c, LifecyclePhase(from), LifecyclePhase(p))
  BY MoveOfOneLife
<1>2. c \in ThreadId \X Sessions
  OBVIOUS
<1> HIDE DEF c
<1>3. \/ Lifecycle!Refuse(c) \/ Lifecycle!Drop(c) \/ Lifecycle!Grant(c)
      \/ Lifecycle!Answered(c) \/ Lifecycle!Relay(c) \/ Lifecycle!ConnectFailed(c)
      \/ Lifecycle!HalfClosed(c) \/ Lifecycle!Closed(c)
  BY <1>1 DEF LifecyclePhase, Lifecycle!Refuse, Lifecycle!Drop, Lifecycle!Grant,
              Lifecycle!Answered, Lifecycle!Relay, Lifecycle!ConnectFailed,
              Lifecycle!HalfClosed, Lifecycle!Closed
<1> QED
  BY <1>2, <1>3 DEF Lifecycle!Next

LEMMA ConnectIsGrantRefuseOrStop ==
  ASSUME SInv, NEW t \in ThreadId, NEW s \in Sessions, process = "up",
         phase[t][s] = "handshake", connect_destination(t, s)
  PROVE  Lifecycle!Next
<1>1. CASE EndProcess("killed")
  BY <1>1, EndIsStop
<1>2. ASSUME NEW p \in {"connecting", "rejecting"}, PhaseBecomes(t, s, p), UNCHANGED startup
      PROVE  Lifecycle!Next
  BY <1>2, TurnIsMove DEF Phases, startup
<1> QED
  BY <1>1, <1>2, ConnectOutcomes DEF SInv, Typed

LEMMA StepIsLifecycleStep ==
  ASSUME SInv, [Next]_vars
  PROVE  Lifecycle!Next \/ UNCHANGED <<lives, stopped>>
<1>1. ASSUME UNCHANGED <<process, phase>> PROVE UNCHANGED <<lives, stopped>>
  BY <1>1, QuietStepIsNoLife
<1>2. CASE Start
  BY <1>1, <1>2, EndIsStop
     DEF Start, Refused, Parse, OpenMainSocket, SetLimits, StartThread, MainFails, Throw,
         At, connections
<1>3. CASE ClientArrives
  BY <1>1, <1>3 DEF ClientArrives, startup
<1>4. ASSUME NEW t \in ThreadId, Construct(t) \/ ConstructFails(t) \/ EventLoopFails(t)
      PROVE  Lifecycle!Next \/ UNCHANGED <<lives, stopped>>
  BY <1>1, <1>4, EndIsStop DEF Construct, ConstructFails, EventLoopFails, Throw, connections
<1>5. ASSUME NEW t \in ThreadId, TakeClient(t) \/ AcceptFails(t)
      PROVE  Lifecycle!Next \/ UNCHANGED <<lives, stopped>>
  BY <1>1, <1>5, AcceptIsOpen DEF TakeClient, TurnAway, AcceptFails, startup
<1>6. ASSUME NEW t \in ThreadId, Resolve(t)
      PROVE  Lifecycle!Next \/ UNCHANGED <<lives, stopped>>
  BY <1>1, <1>6, LookingUp, ConnectIsGrantRefuseOrStop
     DEF Resolve, ReadFamily, ConnectResolved, startup
<1>7. ASSUME NEW t \in ThreadId, NEW s \in Sessions, Turn(t, s)
      PROVE  Lifecycle!Next \/ UNCHANGED <<lives, stopped>>
  <2>1. CASE ConnectAddress(t, s)
    BY <2>1, ConnectIsGrantRefuseOrStop DEF ConnectAddress, Serving
  <2>2. CASE LookUpFails(t, s)
    BY <2>2, TurnIsMove DEF LookUpFails, PhaseBecomes, Serving, startup, Phases
  <2>3. ASSUME NEW name \in Names, LookUp(t, s, name)
        PROVE  UNCHANGED <<lives, stopped>>
    BY <1>1, <2>3 DEF LookUp, startup
  <2>4. ASSUME NEW from, NEW to, NEW closed, Goes(t, s, from, to, closed)
        PROVE  process = "up" /\ UNCHANGED process /\ phase[t][s] = from
               /\ PhaseBecomes(t, s, to)
    BY <2>4 DEF Goes, PhaseBecomes, Serving, startup
  <2>5. ASSUME \/ Refuse(t, s) \/ Drop(t, s) \/ Answered(t, s) \/ AnswerFails(t, s)
               \/ Relay(t, s) \/ ConnectFails(t, s) \/ HalfClosed(t, s) \/ Closed(t, s)
        PROVE  Lifecycle!Next
    BY <2>4, <2>5, TurnIsMove
       DEF Phases, Refuse, Drop, Answered, AnswerFails, Relay, ConnectFails, HalfClosed,
           Closed
  <2> QED
    BY <1>7, <2>1, <2>2, <2>3, <2>5 DEF Turn
<1>8. CASE UNCHANGED vars
  BY <1>1, <1>8 DEF vars
<1> QED
  BY <1>2, <1>3, <1>4, <1>5, <1>6, <1>7, <1>8 DEF Next

\* The threads together implement the lifecycle with max_connections as its
\* capacity: the shares of the threads never add up to more, each connection
\* goes through its phases in order, and all end with the process.
THEOREM ImplementsLifecycleHolds == Spec => ImplementsLifecycle
<1>1. Init => Lifecycle!Init
  BY DEF Init, Lifecycle!Init, LifecyclePhase
<1>2. SInv /\ [Next]_vars
        => [Lifecycle!Next]_<<[c \in ThreadId \X Sessions |-> LifecyclePhase(phase[c[1]][c[2]])],
                              process # "up">>
  BY StepIsLifecycleStep DEF lives, stopped
<1> QED
  BY <1>1, <1>2, InvariantHolds, PTL DEF Spec, Lifecycle!Spec, ImplementsLifecycle

=============================================================================
