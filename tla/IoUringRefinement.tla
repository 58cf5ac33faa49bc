-------------------------- MODULE IoUringRefinement --------------------------
(***************************************************************************)
(* Proofs about the steps of IoUring, for every NConnections and every set *)
(* of Sessions: the two action properties, and that a thread implements    *)
(* SessionLifecycle.                                                       *)
(*                                                                         *)
(* IoUringProofs leaves three ends of a turn (TurnDies, TurnLeaves and     *)
(* TurnDeletes); each is one step of one connection's life.                *)
(***************************************************************************)
EXTENDS IoUringProofs

-----------------------------------------------------------------------------
(***************************************************************************)
(* What a turn does to the other sessions.                                 *)
(***************************************************************************)

\* The session of Event e is s; the requests of the others stay as they are.
LEMMA TurnKeepsOthers ==
  ASSUME IInv, NEW e \in EventId, InFlight(e), TurnEnds(e),
         NEW t \in Sessions, t # Client(e)
  PROVE  /\ session'[t] = session[t]
         /\ Outstanding(t)' = Outstanding(t)
<1> DEFINE s == Client(e)
<1>1. session \in [Sessions -> Session \cup {NULL}]
  BY DEF IInv, TypeOK
<1>2. CASE TurnDies(e)
  BY <1>2 DEF TurnDies, Outstanding, InFlight, Client
<1>3. ASSUME NEW v, InTurn(v, s, e), m_events' = v.events,
             NEW c, session' = [session EXCEPT ![s] = c]
      PROVE  /\ session'[t] = session[t]
             /\ Outstanding(t)' = Outstanding(t)
  <2>1. session'[t] = session[t]
    BY <1>1, <1>3
  <2>2. OthersKept(m_events', s)
    BY <1>3 DEF InTurn
  <2> HIDE DEF s
  <2>3. \A x \in EventId :
          m_events'[x] # NULL /\ m_events'[x].client = t
            <=> m_events[x] # NULL /\ m_events[x].client = t
    BY <2>2 DEF OthersKept, s
  <2>4. Outstanding(t)' = Outstanding(t)
    BY <2>3 DEF Outstanding, InFlight, Client
  <2> QED
    BY <2>1, <2>4
<1>4. ASSUME NEW v, TurnLeaves(e, v)
      PROVE  /\ session'[t] = session[t]
             /\ Outstanding(t)' = Outstanding(t)
  BY <1>3, <1>4 DEF TurnLeaves
<1>5. ASSUME NEW v, TurnDeletes(e, v)
      PROVE  /\ session'[t] = session[t]
             /\ Outstanding(t)' = Outstanding(t)
  BY <1>3, <1>5 DEF TurnDeletes
<1> QED
  BY <1>2, <1>4, <1>5 DEF TurnEnds

\* handle_accept touches only the address the new Session is allocated at.
LEMMA AcceptKeepsOthers ==
  ASSUME IInv, NEW s \in Sessions, AcceptConnection(s), NEW t \in Sessions, t # s
  PROVE  /\ session'[t] = session[t]
         /\ Outstanding(t)' = Outstanding(t)
<1>1. PICK c, x, b : Opens(s, c, x, b)
  BY AcceptOpens
<1> DEFINE ev == [client |-> s, type |-> "CLIENT_READ"]
<1>2. /\ session \in [Sessions -> Session \cup {NULL}]
      /\ m_events \in [EventId -> Event \cup {NULL}]
      /\ x \in EventId /\ m_events[x] = NULL
  BY <1>1 DEF Opens, IInv, TypeOK, PoolsBalance, InFlight
<1>3. ev \in Event /\ ev # NULL /\ ev.client = s
  BY NullAssumption DEF Event, EventType
<1>4. session' = [session EXCEPT ![s] = c] /\ m_events' = [m_events EXCEPT ![x] = ev]
  BY <1>1 DEF Opens
<1> HIDE DEF ev
<1>5. session'[t] = session[t]
  BY <1>2, <1>4
<1>6. \A y \in EventId :
        m_events'[y] # NULL /\ m_events'[y].client = t
          <=> m_events[y] # NULL /\ m_events[y].client = t
  BY <1>2, <1>3, <1>4
<1>7. Outstanding(t)' = Outstanding(t)
  BY <1>6 DEF Outstanding, InFlight, Client
<1> QED
  BY <1>5, <1>7

-----------------------------------------------------------------------------
(***************************************************************************)
(* The action properties.                                                  *)
(***************************************************************************)

\* Only the turn of a session still in its handshake can take the process
\* down: no completion of a session that connects or relays, failed or not,
\* finds its destination socket gone.
THEOREM OnlyHandshakesKillTheServerHolds == Spec => OnlyHandshakesKillTheServer
<1>1. IInv => \A e \in EventId : Completion(e) /\ server' # server =>
                session[Client(e)].m_state \in ReadingState
  <2> SUFFICES ASSUME IInv, NEW e \in EventId, Completion(e), server' # server
               PROVE  session[Client(e)].m_state \in ReadingState
    OBVIOUS
  <2>1. server = "running" /\ TurnEnds(e)
    BY CompletionEndsTurn
  <2> QED
    BY <2>1 DEF TurnEnds, TurnDies, TurnLeaves, TurnDeletes
<1> QED
  BY <1>1, InvariantHolds, PTL DEF OnlyHandshakesKillTheServer

\* A completion of a failed session starts nothing: its Event is given back and
\* no other is taken.
LEMMA FailedTurnStartsNothing ==
  ASSUME IInv, NEW e \in EventId, Completion(e), session[Client(e)].m_is_failed
  PROVE  m_events' = m_events \/ m_events' = [m_events EXCEPT ![e] = NULL]
<1> DEFINE w == Reap(e)
           s == Client(e)
<1>1. RequestFailed(e) \/ RequestOfFailedSession(e)
  BY DEF Completion, Dispatched, ClientRead, ClientWrite, DestinationConnect,
         DestinationRead, DestinationWrite
<1>2. server = "running" /\ InFlight(e)
  BY CompletionEndsTurn
<1>3. /\ w \in WorkState
      /\ w.events = [m_events EXCEPT ![e] = NULL]
  BY <1>2, ReapStartsTurn DEF InTurn, Reap, Work
<1>4. ASSUME NEW u, u.events = w.events, Commit(u, s)
      PROVE  m_events' = m_events \/ m_events' = [m_events EXCEPT ![e] = NULL]
  BY <1>3, <1>4 DEF Commit
<1> HIDE DEF w, s
<1>5. return_event(delete(w), e).events = w.events
  BY <1>3 DEF return_event, delete, WorkState
<1>6. return_event(w, e).events = w.events
  BY <1>3 DEF return_event, WorkState
<1>7. return_event(fail_immediately(w), e).events = w.events
  BY <1>3 DEF return_event, fail_immediately, fail_delayed, WorkState
<1>8. CASE RequestFailed(e)
  BY <1>4, <1>5, <1>7, <1>8 DEF RequestFailed, w, s
<1>9. CASE RequestOfFailedSession(e)
  BY <1>4, <1>5, <1>6, <1>9 DEF RequestOfFailedSession, delete_if_done, w, s
<1> QED
  BY <1>1, <1>8, <1>9

\* A failed session adds no request and never leaves the failed state, whatever
\* still completes for it and whoever else connects.
THEOREM FailedSessionIsQuietHolds == Spec => FailedSessionIsQuiet
<1> DEFINE Quiet(s) ==
             /\ Outstanding(s)' \subseteq Outstanding(s)
             /\ session'[s] # NULL => session'[s].m_is_failed
<1>1. IInv /\ [Next]_vars =>
        \/ \A s \in Live : session[s].m_is_failed => Quiet(s)
        \/ UNCHANGED vars
  <2> SUFFICES ASSUME IInv, Next, NEW s \in Live, session[s].m_is_failed
               PROVE  Quiet(s) \/ UNCHANGED vars
    BY DEF vars
  <2>1. s \in Sessions /\ session[s] # NULL
    BY DEF Live
  <2>2. ASSUME session'[s] = session[s], Outstanding(s)' = Outstanding(s)
        PROVE  Quiet(s)
    BY <2>2
  <2>3. ASSUME NEW t \in Sessions, AcceptConnection(t) PROVE Quiet(s)
    BY <2>1, <2>2, <2>3, AcceptOpens, AcceptKeepsOthers
  <2>4. CASE AcceptFailed
    BY <2>2, <2>4 DEF AcceptFailed, Outstanding, InFlight, Client
  <2>5. ASSUME NEW e \in EventId, Completion(e), Client(e) # s PROVE Quiet(s)
    BY <2>1, <2>2, <2>5, CompletionEndsTurn, TurnKeepsOthers
  <2>6. ASSUME NEW e \in EventId, Completion(e), Client(e) = s PROVE Quiet(s)
    <3>1. m_events' = m_events \/ m_events' = [m_events EXCEPT ![e] = NULL]
      BY <2>6, FailedTurnStartsNothing
    <3>2. m_events \in [EventId -> Event \cup {NULL}]
      BY DEF IInv, TypeOK
    <3>3. Outstanding(s)' \subseteq Outstanding(s)
      BY <3>1, <3>2 DEF Outstanding, InFlight, Client
    <3>4. session \in [Sessions -> Session \cup {NULL}] /\ TurnEnds(e)
      BY <2>6, CompletionEndsTurn DEF IInv, TypeOK
    <3>5. session'[s] # NULL => session'[s].m_is_failed
      BY <2>1, <2>6, <3>4 DEF TurnEnds, TurnDies, TurnLeaves, TurnDeletes, Follows
    <3> QED
      BY <3>3, <3>5
  <2> QED
    BY <2>3, <2>4, <2>5, <2>6 DEF Next, AcceptRefused
<1> QED
  BY <1>1, InvariantHolds, PTL DEF Spec, FailedSessionIsQuiet

-----------------------------------------------------------------------------
(***************************************************************************)
(* The refinement of SessionLifecycle.                                     *)
(***************************************************************************)

\* Which phase a live session is in.
LivePhases ==
  \A s \in Live :
    LET c == session[s] IN
    /\ c.m_state \in State /\ c.m_is_failed \in BOOLEAN
    /\ c.m_state \in ReadingState =>
         PhaseOf(s) = IF ~c.m_is_failed THEN "handshake"
                      ELSE IF Outstanding(s) = {} THEN "stranded" ELSE "rejecting"
    /\ c.m_state = "CONNECTING_TO_DESTINATION" => PhaseOf(s) = "connecting"
    /\ c.m_state = "PROXYING_REQUESTS" =>
         PhaseOf(s) = IF c.m_is_failed THEN "draining" ELSE "relaying"

LEMMA LivePhasesHold == IInv => LivePhases
<1> SUFFICES ASSUME IInv, NEW s \in Live
             PROVE  LET c == session[s] IN
                    /\ c.m_state \in State /\ c.m_is_failed \in BOOLEAN
                    /\ c.m_state \in ReadingState =>
                         PhaseOf(s) =
                           IF ~c.m_is_failed THEN "handshake"
                           ELSE IF Outstanding(s) = {} THEN "stranded" ELSE "rejecting"
                    /\ c.m_state = "CONNECTING_TO_DESTINATION" =>
                         PhaseOf(s) = "connecting"
                    /\ c.m_state = "PROXYING_REQUESTS" =>
                         PhaseOf(s) = IF c.m_is_failed THEN "draining" ELSE "relaying"
  BY DEF LivePhases
<1>1. session[s] # NULL /\ session[s] \in Session
  BY DEF Live, IInv, TypeOK
<1>2. session[s].m_state \in State /\ session[s].m_is_failed \in BOOLEAN
  BY <1>1 DEF Session
<1>3. "CONNECTING_TO_DESTINATION" \notin ReadingState /\ "PROXYING_REQUESTS" \notin ReadingState
  BY DEF ReadingState
<1> QED
  BY <1>1, <1>2, <1>3 DEF PhaseOf, PhaseAt

phases == [s \in Sessions |-> PhaseOf(s)]

\* A step that changes the phase of one session is a move of the lifecycle.
LEMMA MoveOfOnePhase ==
  ASSUME server = "running", UNCHANGED server, NEW s \in Sessions,
         \A t \in Sessions : t # s =>
           session'[t] = session[t] /\ Outstanding(t)' = Outstanding(t)
  PROVE  Lifecycle!Move(s, PhaseOf(s), PhaseOf(s)')
<1>1. \A t \in Sessions : t # s => PhaseOf(t)' = PhaseOf(t)
  <2> TAKE t \in Sessions
  <2> HAVE t # s
  <2>1. session'[t] = session[t] /\ Outstanding(t)' = Outstanding(t)
    OBVIOUS
  <2> QED
    BY <2>1 DEF PhaseOf
<1>2. phases' = [phases EXCEPT ![s] = PhaseOf(s)']
  BY <1>1 DEF phases
<1> QED
  BY <1>2 DEF phases, Lifecycle!Move

stopped == server # "running"

\* A turn the session survives moves it at most one phase.
LEMMA LeavingIsOneMove ==
  ASSUME IInv, LivePhases, LivePhases', server = "running",
         NEW e \in EventId, InFlight(e), NEW v, TurnLeaves(e, v),
         NEW s \in Sessions, s = Client(e)
  PROVE  Lifecycle!Next \/ UNCHANGED <<phases, stopped>>
<1> DEFINE c == session[s]
           d == session'[s]
<1>1. /\ s \in Live /\ e \in Outstanding(s)
      /\ session \in [Sessions -> Session \cup {NULL}]
      /\ TurnEnds(e) /\ UNCHANGED server
  BY InFlightFacts DEF IInv, TypeOK, Live, Outstanding, TurnEnds, TurnLeaves
<1>2. d = v.client /\ Follows(c, d) /\ Fits(d, Requested(v.events, s)) /\ d \in Session
  BY <1>1 DEF TurnLeaves, InTurn, WorkState
<1>3. s \in Live'
  BY <1>1, <1>2, NullAssumption DEF Live
<1>4. Lifecycle!Move(s, PhaseOf(s), PhaseOf(s)')
  <2>1. \A t \in Sessions : t # s =>
          session'[t] = session[t] /\ Outstanding(t)' = Outstanding(t)
    BY <1>1, TurnKeepsOthers
  <2> QED
    BY <1>1, <2>1, MoveOfOnePhase
<1>5. ~(d.m_state = "CONNECTING_TO_DESTINATION" /\ d.m_is_failed)
  BY <1>2 DEF Fits, Handshaking, Rejected, Connecting, Proxying, Draining, ReadingState
<1>6. \/ PhaseOf(s)' = PhaseOf(s)
      \/ PhaseOf(s) = "handshake" /\ PhaseOf(s)' \in {"connecting", "rejecting", "stranded"}
      \/ PhaseOf(s) = "rejecting" /\ PhaseOf(s)' = "stranded"
      \/ PhaseOf(s) = "connecting" /\ PhaseOf(s)' = "relaying"
      \/ PhaseOf(s) = "relaying" /\ PhaseOf(s)' = "draining"
  BY <1>1, <1>2, <1>3, <1>5 DEF Follows, LivePhases
<1>7. CASE PhaseOf(s)' = PhaseOf(s)
  BY <1>1, <1>4, <1>7 DEF Lifecycle!Move, phases, stopped
<1> QED
  BY <1>1, <1>4, <1>6, <1>7
     DEF Lifecycle!Next, Lifecycle!Grant, Lifecycle!Refuse, Lifecycle!Drop,
         Lifecycle!Answered, Lifecycle!Relay, Lifecycle!HalfClosed

\* A turn that deletes its session ends a connection that never relayed, or one
\* whose second direction ends.
LEMMA DeletingIsOneMove ==
  ASSUME IInv, LivePhases, server = "running",
         NEW e \in EventId, InFlight(e), NEW v, TurnDeletes(e, v),
         NEW s \in Sessions, s = Client(e)
  PROVE  Lifecycle!Next
<1>1. /\ s \in Live
      /\ session \in [Sessions -> Session \cup {NULL}]
      /\ TurnEnds(e) /\ UNCHANGED server
  BY InFlightFacts DEF IInv, TypeOK, Live, TurnEnds, TurnDeletes
<1>2. Lifecycle!Move(s, PhaseOf(s), PhaseOf(s)')
  <2>1. \A t \in Sessions : t # s =>
          session'[t] = session[t] /\ Outstanding(t)' = Outstanding(t)
    BY <1>1, TurnKeepsOthers
  <2> QED
    BY <1>1, <2>1, MoveOfOnePhase
<1>3. PhaseOf(s)' = "free"
  <2>1. \A out : PhaseAt(NULL, out) = "free"
    BY DEF PhaseAt
  <2>2. session'[s] = NULL
    BY <1>1 DEF TurnDeletes
  <2> QED
    BY <2>1, <2>2 DEF PhaseOf
<1>4. PhaseOf(s) \in {"connecting", "draining"}
  BY <1>1 DEF TurnDeletes, LivePhases, Connecting, Draining
<1> QED
  BY <1>1, <1>2, <1>3, <1>4 DEF Lifecycle!Next, Lifecycle!ConnectFailed, Lifecycle!Closed

\* While a buffer is free, fewer sessions live than the thread has buffers: each
\* of them owns one of the others.
LEMMA FreeBufferLeavesRoom ==
  ASSUME IInv, NEW b \in free_buffers
  PROVE  Cardinality(Live) < NConnections
<1> DEFINE Owned == BufferIndex \ {b}
           f == [s \in Live |-> session[s].m_buffer_index]
<1>1. b \in BufferIndex /\ IsFiniteSet(BufferIndex) /\ Cardinality(BufferIndex) = NConnections
  BY FS_Interval, NConnectionsAssumption DEF BufferIndex, IInv, TypeOK
<1>2. IsFiniteSet(Owned) /\ Cardinality(Owned) = NConnections - 1
  BY <1>1, FS_RemoveElement
<1>3. \A s \in Live : session[s] \in Session
  BY DEF Live, IInv, TypeOK
<1>4. f \in [Live -> Owned]
  BY <1>3 DEF IInv, PoolsBalance, Session
<1>5. \A s, t \in Live : f[s] = f[t] => s = t
  BY DEF IInv, PoolsBalance
<1>6. f \in Injection(Live, Owned)
  BY <1>4, <1>5 DEF Injection, IsInjective
<1> HIDE DEF f, Owned
<1>7. IsFiniteSet(Live) /\ Cardinality(Live) <= NConnections - 1
  BY <1>2, <1>6, FS_Injection
<1> QED
  BY <1>7, FS_CardinalityType, NConnectionsAssumption

\* An accepted connection opens a life, and there is room for it.
LEMMA AcceptOpensOne ==
  ASSUME IInv, LivePhases, LivePhases', NEW s \in Sessions, AcceptConnection(s)
  PROVE  Lifecycle!Next
<1>1. server = "running" /\ session[s] = NULL
  BY AcceptOpens
<1>2. PICK c, x, b : Opens(s, c, x, b)
  BY AcceptOpens
<1>3. UNCHANGED server /\ b \in free_buffers
  BY <1>2 DEF Opens
<1>4. Lifecycle!Move(s, PhaseOf(s), PhaseOf(s)')
  <2>1. \A t \in Sessions : t # s =>
          session'[t] = session[t] /\ Outstanding(t)' = Outstanding(t)
    BY AcceptKeepsOthers
  <2> QED
    BY <1>1, <1>3, <2>1, MoveOfOnePhase
<1>5. \A t \in Sessions : PhaseOf(t) = "free" <=> session[t] = NULL
  <2>1. \A out : PhaseAt(NULL, out) = "free"
    BY DEF PhaseAt
  <2>2. ASSUME NEW t \in Live PROVE PhaseOf(t) # "free"
    BY DEF LivePhases, State
  <2> QED
    BY <2>1, <2>2 DEF PhaseOf, Live
<1>6. PhaseOf(s)' = "handshake"
  <2>1. session'[s] = c
    BY <1>2 DEF Opens, IInv, TypeOK
  <2>2. /\ c # NULL /\ c.m_state = "READING_CLIENT_GREETING" /\ ~c.m_is_failed
        /\ c.m_state \in ReadingState
    BY <1>2, NullAssumption DEF Opens, ReadingState
  <2> QED
    BY <2>1, <2>2 DEF LivePhases, Live
<1>7. Lifecycle!Occupied = Live
  BY <1>5 DEF Lifecycle!Occupied, Live, phases
<1>8. Lifecycle!Cardinality(Lifecycle!Occupied) < NConnections
  <2>1. \A S : Lifecycle!Cardinality(S) = Cardinality(S)
    BY DEF Cardinality, Lifecycle!Cardinality
  <2> QED
    BY <1>3, <1>7, <2>1, FreeBufferLeavesRoom
<1>9. Lifecycle!Move(s, "free", "handshake")
  BY <1>1, <1>4, <1>5, <1>6
<1>10. Lifecycle!Open(s)
  BY <1>8, <1>9 DEF Lifecycle!Open
<1> QED
  BY <1>10 DEF Lifecycle!Next

\* Every step of the thread is one step of one connection's life, or none.
LEMMA StepIsLifecycleStep ==
  ASSUME IInv, LivePhases, LivePhases', [Next]_vars
  PROVE  Lifecycle!Next \/ UNCHANGED <<phases, stopped>>
<1>1. ASSUME UNCHANGED <<server, session, m_events>>
      PROVE  UNCHANGED <<phases, stopped>>
  BY <1>1 DEF phases, stopped, PhaseOf, Outstanding, InFlight, Client
<1>2. ASSUME NEW s \in Sessions, AcceptConnection(s) PROVE Lifecycle!Next
  BY <1>2, AcceptOpensOne
<1>3. CASE AcceptRefused
  BY <1>1, <1>3 DEF AcceptRefused, vars
<1>4. CASE AcceptFailed
  BY <1>1, <1>4 DEF AcceptFailed
<1>5. ASSUME NEW e \in EventId, Completion(e)
      PROVE  Lifecycle!Next \/ UNCHANGED <<phases, stopped>>
  <2>1. server = "running" /\ InFlight(e) /\ TurnEnds(e)
    BY <1>5, CompletionEndsTurn
  <2>2. PICK s \in Sessions : s = Client(e)
    BY <2>1, InFlightFacts DEF Live
  <2>3. CASE TurnDies(e)
    <3>1. UNCHANGED phases
      BY <2>3 DEF TurnDies, phases, PhaseOf, Outstanding, InFlight, Client
    <3> QED
      BY <2>1, <2>3, <3>1 DEF TurnDies, Lifecycle!Next, Lifecycle!Stop, phases
  <2> QED
    BY <2>1, <2>2, <2>3, LeavingIsOneMove, DeletingIsOneMove DEF TurnEnds
<1>6. CASE UNCHANGED vars
  BY <1>1, <1>6 DEF vars
<1> QED
  BY <1>2, <1>3, <1>4, <1>5, <1>6 DEF Next

\* A thread implements the lifecycle: through all interleavings of completions
\* and accepts, each connection goes through its phases in order, one at a time,
\* and never more than NConnections exist, whatever is stranded or dies.
THEOREM ImplementsLifecycleHolds == Spec => ImplementsLifecycle
<1>1. Init => Lifecycle!Init
  <2>1. \A out : PhaseAt(NULL, out) = "free"
    BY DEF PhaseAt
  <2> QED
    BY <2>1 DEF Init, Lifecycle!Init, PhaseOf
<1>2. IInv /\ LivePhases /\ LivePhases' /\ [Next]_vars
        => [Lifecycle!Next]_<<[s \in Sessions |-> PhaseOf(s)], server # "running">>
  BY StepIsLifecycleStep DEF phases, stopped
<1> QED
  BY <1>1, <1>2, LivePhasesHold, InvariantHolds, PTL
     DEF Spec, Lifecycle!Spec, ImplementsLifecycle

=============================================================================
