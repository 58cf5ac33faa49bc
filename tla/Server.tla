------------------------------- MODULE Server -------------------------------
(***************************************************************************)
(* The whole process: main starts the threads, each thread serves its      *)
(* share of the connections, and all of them share the listening socket,   *)
(* the descriptors, and the answer of gethostbyname.                       *)
(*                                                                         *)
(* What one thread does with its connections is in IoUring, which          *)
(* implements SessionLifecycle; here a connection is its phase and the     *)
(* descriptors that go with it.                                            *)
(***************************************************************************)
EXTENDS Integers, FiniteSets

CONSTANTS
  max_connections,  \* 1 << 15 in the code
  Arguments,        \* what -t may say; 0 stands for the hardware's number
  Hardware,         \* what hardware_concurrency() may return
  MaxThreads,       \* bound: the threads an Argument asks for
  Inherited,        \* the descriptors the process starts with
  Names4, Names6,   \* names that resolve to an address of either family
  NULL

ASSUME ConnectionsAssumption == {max_connections, MaxThreads} \subseteq Nat \ {0}
ASSUME ArgumentsAssumption == (Arguments \cup Hardware) \subseteq 0 .. MaxThreads
ASSUME InheritedAssumption == Inherited \in Nat
ASSUME NamesAssumption == NULL \notin Names4 \cup Names6 /\ Names4 \cap Names6 = {}

ThreadId == 0 .. (MaxThreads - 1)

MAIN == 0

Names == Names4 \cup Names6

Family(name) == IF name \in Names4 THEN "AF_INET" ELSE "AF_INET6"

\* The connections a thread may have at a time are numbered.
Sessions == 1 .. max_connections

DescriptorLimit == 2 * max_connections

\* A lookup whose answer a thread has not read to the end: the family it has
\* read, if it has, and whether another thread has called gethostbyname since.
Lookup ==
  [session : Sessions, name : Names, family : {NULL, "AF_INET", "AF_INET6"},
   overtaken : BOOLEAN]

ASSUME NullAssumption == NULL \notin Lookup

VARIABLES
  process,       \* "up", or how it ended
  main,          \* what main does next
  threads_count,
  thread,        \* each thread: "none", "constructing" its IoUring, "serving"
  descriptors,   \* the number of open descriptors
  waiting,       \* a client waits in the queue of the listening socket
  deaf,          \* the threads that have no accept request any more
  phase,         \* phase[t][s] of connection s of thread t
  hostent,       \* the static answer of gethostbyname
  lookup         \* for each thread, the lookup whose answer it is reading, or NULL

vars == <<process, main, threads_count, thread, descriptors, waiting, deaf, phase,
          hostent, lookup>>

connections == <<waiting, deaf, phase, hostent, lookup>>
startup == <<process, main, threads_count, thread>>

Init ==
  /\ process = "up"
  /\ main = "parsing"
  /\ threads_count = 0
  /\ thread = [t \in ThreadId |-> "none"]
  /\ descriptors = Inherited
  /\ waiting = FALSE
  /\ deaf = {}
  /\ phase = [t \in ThreadId |-> [s \in Sessions |-> "free"]]
  /\ hostent = [family |-> "AF_INET", address |-> NULL]
  /\ lookup = [t \in ThreadId |-> NULL]

-----------------------------------------------------------------------------
(***************************************************************************)
(* main.                                                                   *)
(***************************************************************************)

\* Mutant: every thread may have all the connections.
Mut_one_thread_connections == max_connections

one_thread_connections == max_connections \div threads_count

Spawned == {t \in ThreadId \ {MAIN} : thread[t] # "none"}

EndProcess(how) ==
  /\ process' = how
  /\ UNCHANGED <<main, threads_count, thread, descriptors, connections>>

\* main logs an exception and returns; but one that leaves a thread function,
\* or finds threads that were not joined, calls std::terminate.
Throw(t) ==
  EndProcess(IF t = MAIN /\ Spawned = {} THEN "logged" ELSE "terminated")

At(step) == process = "up" /\ main = step

\* The command line or a signal handler is refused: EXIT_FAILURE.
Refused == At("parsing") /\ EndProcess("refused")

\* Both the argument and the hardware may say 0, which is then divided by.
Parse ==
  /\ At("parsing")
  /\ \E argument \in Arguments, hardware \in Hardware :
       LET n == IF argument = 0 THEN hardware ELSE argument IN
       IF n = 0
         THEN EndProcess("killed")
         ELSE /\ threads_count' = n
              /\ main' = "opening"
              /\ UNCHANGED <<process, thread, descriptors, connections>>

OpenMainSocket ==
  /\ At("opening")
  /\ descriptors' = descriptors + 1
  /\ main' = "limiting"
  /\ UNCHANGED <<process, threads_count, thread, connections>>

SetLimits ==
  /\ At("limiting")
  /\ main' = "spawning"
  /\ UNCHANGED <<process, threads_count, thread, descriptors, connections>>

\* Mutant: a thread for main is started, too.
Mut_StartThread ==
  /\ At("spawning")
  /\ LET n == Cardinality(Spawned) + 1 IN
       IF n <= threads_count /\ n \in ThreadId
         THEN thread' = [thread EXCEPT ![n] = "constructing"] /\ UNCHANGED main
         ELSE thread' = [thread EXCEPT ![MAIN] = "constructing"] /\ main' = "serving"
  /\ UNCHANGED <<process, threads_count, descriptors, connections>>

\* The threads of the vector first, then main calls thread_function itself.
StartThread ==
  /\ At("spawning")
  /\ LET n == Cardinality(Spawned) + 1 IN
       IF n < threads_count
         THEN thread' = [thread EXCEPT ![n] = "constructing"] /\ UNCHANGED main
         ELSE thread' = [thread EXCEPT ![MAIN] = "constructing"] /\ main' = "serving"
  /\ UNCHANGED <<process, threads_count, descriptors, connections>>

\* The socket cannot be bound, a limit cannot be set, a thread cannot be started.
MainFails ==
  /\ \/ At("opening")
     \/ At("limiting")
     \/ At("spawning") /\ Cardinality(Spawned) + 1 < threads_count
  /\ Throw(MAIN)

\* An io_uring has a descriptor, and cannot be set up with no entries.
Construct(t) ==
  /\ process = "up" /\ thread[t] = "constructing"
  /\ one_thread_connections > 0 /\ descriptors < DescriptorLimit
  /\ thread' = [thread EXCEPT ![t] = "serving"]
  /\ descriptors' = descriptors + 1
  /\ UNCHANGED <<process, main, threads_count, connections>>

ConstructFails(t) ==
  process = "up" /\ thread[t] = "constructing" /\ Throw(t)

\* io_uring_wait_cqe fails, or a close does.
EventLoopFails(t) ==
  process = "up" /\ thread[t] = "serving" /\ Throw(t)

-----------------------------------------------------------------------------
(***************************************************************************)
(* The event loops, which a lookup keeps from doing anything else.         *)
(***************************************************************************)

Serving(t) == process = "up" /\ thread[t] = "serving" /\ lookup[t] = NULL

Occupied(t) == {s \in Sessions : phase[t][s] # "free"}

Full(t) == Cardinality(Occupied(t)) >= one_thread_connections

ClientArrives ==
  /\ process = "up" /\ main \in {"limiting", "spawning", "serving"}
  /\ ~waiting /\ waiting' = TRUE
  /\ UNCHANGED <<startup, descriptors, deaf, phase, hostent, lookup>>

\* Which of the free connections it is makes no difference.
AcceptConnection(t) ==
  /\ Serving(t) /\ waiting /\ t \notin deaf
  /\ ~Full(t) /\ descriptors < DescriptorLimit
  /\ phase' = [phase EXCEPT ![t][CHOOSE s \in Sessions : phase[t][s] = "free"] = "handshake"]
  /\ descriptors' = descriptors + 1
  /\ waiting' = FALSE
  /\ UNCHANGED <<startup, deaf, hostent, lookup>>

\* Mutant: the client that is turned away is not closed.
Mut_TurnAway(t) ==
  /\ Serving(t) /\ waiting /\ t \notin deaf
  /\ Full(t) /\ descriptors < DescriptorLimit
  /\ waiting' = FALSE
  /\ descriptors' = descriptors + 1
  /\ UNCHANGED <<startup, deaf, phase, hostent, lookup>>

\* "Server capacity exceeded" is said by a thread that has no buffer, while
\* others may have some.
TurnAway(t) ==
  /\ Serving(t) /\ waiting /\ t \notin deaf
  /\ Full(t) /\ descriptors < DescriptorLimit
  /\ waiting' = FALSE
  /\ UNCHANGED <<startup, descriptors, deaf, phase, hostent, lookup>>

\* Mutant: a thread that is full does not take clients.
Mut_TakeClient(t) == AcceptConnection(t)

\* Whatever the error, with or without a client, the accept request is not added
\* again.  The client stays in the queue (no descriptor for it) or has gone.
AcceptFails(t) ==
  /\ Serving(t) /\ t \notin deaf
  /\ deaf' = deaf \cup {t}
  /\ waiting' \in {waiting, FALSE}
  /\ UNCHANGED <<startup, descriptors, phase, hostent, lookup>>

\* The completion of the accept request that a waiting client brings about.
TakeClient(t) ==
  waiting /\ (AcceptConnection(t) \/ TurnAway(t) \/ AcceptFails(t))

\* Mutant: the destination socket is not closed with the session.
Mut_Goes(t, s, from, to, closed) ==
  /\ Serving(t)
  /\ phase[t][s] = from
  /\ phase' = [phase EXCEPT ![t][s] = to]
  /\ descriptors' = descriptors - IF closed = 2 THEN 1 ELSE closed
  /\ UNCHANGED <<startup, waiting, deaf, hostent, lookup>>

\* A turn that moves a connection from one phase to another and closes some of
\* its descriptors.
Goes(t, s, from, to, closed) ==
  /\ Serving(t)
  /\ phase[t][s] = from
  /\ phase' = [phase EXCEPT ![t][s] = to]
  /\ descriptors' = descriptors - closed
  /\ UNCHANGED <<startup, waiting, deaf, hostent, lookup>>

\* A refused session whose answer has left keeps its descriptor for ever; it
\* is closed if the answer, or the handshake, failed.
Refuse(t, s) == Goes(t, s, "handshake", "rejecting", 0)
Drop(t, s) == Goes(t, s, "handshake", "dropped", 1)
Answered(t, s) == Goes(t, s, "rejecting", "answered", 0)
AnswerFails(t, s) == Goes(t, s, "rejecting", "dropped", 1)

Relay(t, s) == Goes(t, s, "connecting", "relaying", 0)
ConnectFails(t, s) == Goes(t, s, "connecting", "free", 2)

\* fail_immediately closes both sockets at once; the session is deleted later.
HalfClosed(t, s) == Goes(t, s, "relaying", "draining", 2)
Closed(t, s) == Goes(t, s, "draining", "free", 0)

\* The destination socket is created.  After an error of ::socket, whichever it
\* is, connect_*_destination goes on to use the socket it does not have; any
\* other exception ("General failure") is answered and the session rejected.
connect_destination(t, s) ==
  \/ /\ descriptors < DescriptorLimit
     /\ phase' = [phase EXCEPT ![t][s] = "connecting"]
     /\ descriptors' = descriptors + 1
     /\ lookup' = [lookup EXCEPT ![t] = NULL]
     /\ UNCHANGED <<startup, waiting, deaf, hostent>>
  \/ EndProcess("killed")
  \/ /\ phase' = [phase EXCEPT ![t][s] = "rejecting"]
     /\ lookup' = [lookup EXCEPT ![t] = NULL]
     /\ UNCHANGED <<startup, descriptors, waiting, deaf, hostent>>

ConnectAddress(t, s) ==
  /\ Serving(t) /\ phase[t][s] = "handshake"
  /\ connect_destination(t, s)

-----------------------------------------------------------------------------
(***************************************************************************)
(* Names: gethostbyname answers in static memory, and the thread reads the *)
(* family and then the address from there.                                 *)
(***************************************************************************)

\* What the other threads are reading is overwritten.
Overtake(t) ==
  [u \in ThreadId |->
     IF u # t /\ lookup[u] # NULL THEN [lookup[u] EXCEPT !.overtaken = TRUE] ELSE lookup[u]]

LookUp(t, s, name) ==
  /\ Serving(t) /\ phase[t][s] = "handshake"
  /\ hostent' = [family |-> Family(name), address |-> name]
  /\ lookup' = [Overtake(t) EXCEPT ![t] =
                  [session |-> s, name |-> name, family |-> NULL, overtaken |-> FALSE]]
  /\ UNCHANGED <<startup, descriptors, waiting, deaf, phase>>

\* The name has no address; the static memory may have been used on the way.
LookUpFails(t, s) ==
  /\ Serving(t) /\ phase[t][s] = "handshake"
  /\ phase' = [phase EXCEPT ![t][s] = "rejecting"]
  /\ hostent' \in {hostent, [hostent EXCEPT !.address = NULL]}
  /\ lookup' = Overtake(t)
  /\ UNCHANGED <<startup, descriptors, waiting, deaf>>

\* Mutant: the family is not looked at.
Mut_ReadFamily(t) ==
  /\ process = "up" /\ lookup[t] # NULL /\ lookup[t].family = NULL
  /\ lookup' = [lookup EXCEPT ![t].family = "AF_INET"]
  /\ UNCHANGED <<startup, descriptors, waiting, deaf, phase, hostent>>

\* switch (he->h_addrtype)
ReadFamily(t) ==
  /\ process = "up" /\ lookup[t] # NULL /\ lookup[t].family = NULL
  /\ lookup' = [lookup EXCEPT ![t].family = hostent.family]
  /\ UNCHANGED <<startup, descriptors, waiting, deaf, phase, hostent>>

\* The address is copied, as one of that family, and connected to.
ConnectResolved(t) ==
  /\ process = "up" /\ lookup[t] # NULL /\ lookup[t].family # NULL
  /\ connect_destination(t, lookup[t].session)

-----------------------------------------------------------------------------
Start ==
  \/ Refused \/ Parse \/ OpenMainSocket \/ SetLimits \/ StartThread \/ MainFails

Resolve(t) == ReadFamily(t) \/ ConnectResolved(t)

Turn(t, s) ==
  \/ Refuse(t, s) \/ Drop(t, s) \/ Answered(t, s) \/ AnswerFails(t, s)
  \/ Relay(t, s) \/ ConnectFails(t, s) \/ HalfClosed(t, s) \/ Closed(t, s)
  \/ ConnectAddress(t, s)
  \/ LookUpFails(t, s)
  \/ \E name \in Names : LookUp(t, s, name)

Next ==
  \/ Start
  \/ ClientArrives
  \/ \E t \in ThreadId :
       \/ Construct(t) \/ ConstructFails(t) \/ EventLoopFails(t)
       \/ TakeClient(t) \/ AcceptFails(t)
       \/ Resolve(t)
       \/ \E s \in Sessions : Turn(t, s)

\* main and the constructors go on; a lookup is read to its end; and a client
\* that waits again and again while a thread can accept is accepted in the end:
\* the completions of a thread are taken in the order in which they come.
Fairness ==
  /\ WF_vars(Start)
  /\ \A t \in ThreadId :
       /\ WF_vars(Construct(t) \/ ConstructFails(t))
       /\ WF_vars(Resolve(t))
       /\ SF_vars(TakeClient(t))

Spec == Init /\ [][Next]_vars /\ Fairness

-----------------------------------------------------------------------------
(***************************************************************************)
(* Properties.                                                             *)
(***************************************************************************)

Connections == {c \in ThreadId \X Sessions : phase[c[1]][c[2]] # "free"}

Holding(phases) == {c \in Connections : phase[c[1]][c[2]] \in phases}

Rings == {t \in ThreadId : thread[t] = "serving"}

\* What is open beside the connections.
Overhead ==
  Inherited + Cardinality(Rings) + IF main \in {"parsing", "opening"} THEN 0 ELSE 1

\* The variables hold values of their types, and no more threads exist than
\* were asked for.
TypeOK ==
  /\ process \in {"up", "refused", "logged", "terminated", "killed"}
  /\ threads_count \in 0 .. MaxThreads
  /\ \A t \in ThreadId : t >= threads_count => thread[t] = "none"
  /\ descriptors \in 0 .. Inherited + 1 + MaxThreads + DescriptorLimit
  /\ hostent.address \in Names \cup {NULL}

\* However the threads interleave, no descriptor is lost, closed twice or
\* counted to two connections: those in use are the overhead, one for each
\* client that is served or was refused, and one for each destination.
DescriptorsBalance ==
  descriptors =
    Overhead
      + Cardinality(Holding({"handshake", "rejecting", "answered"}))
      + 2 * Cardinality(Holding({"connecting", "relaying"}))

\* A domain name is connected to by its own address, as an address of its
\* family, unless another thread called gethostbyname before it was read.
ConnectsToOwnName ==
  [][\A t \in ThreadId :
       lookup[t] # NULL /\ lookup'[t] = NULL =>
         \/ lookup[t].overtaken
         \/ /\ lookup[t].family = Family(lookup[t].name)
            /\ hostent.address = lookup[t].name]_vars

\* A client that waits is accepted or turned away by some thread, from the
\* moment the socket listens, unless the process has ended or every thread has
\* gone deaf.
NoClientIsLeftWaiting ==
  waiting ~> \/ ~waiting
             \/ process # "up"
             \/ Rings # {} /\ Rings \subseteq deaf

LifecyclePhase(p) == IF p \in {"answered", "dropped"} THEN "stranded" ELSE p

Lifecycle ==
  INSTANCE SessionLifecycle WITH
    Sessions <- ThreadId \X Sessions,
    Capacity <- max_connections,
    phase <- [c \in ThreadId \X Sessions |-> LifecyclePhase(phase[c[1]][c[2]])],
    stopped <- (process # "up")

\* The threads together keep the promise that each keeps for its share: every
\* connection goes through the phases in order, never more than
\* max_connections of them exist, and all end when one thread fails.
ImplementsLifecycle == Lifecycle!Spec
=============================================================================
