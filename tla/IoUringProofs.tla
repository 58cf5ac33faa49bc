--------------------------- MODULE IoUringProofs ---------------------------
(***************************************************************************)
(* Proofs about IoUring, for every NConnections and every set of Sessions: *)
(* the inductive invariant IInv, and the safety properties it implies.     *)
(*                                                                         *)
(* A turn of event_loop is followed the way the code runs it: lemmas about *)
(* the primitives (await, submit, fail_...) on the work record, then one   *)
(* per handler, then one per action.                                       *)
(***************************************************************************)
EXTENDS IoUring, FiniteSetTheorems, TLAPS

\* The work records of a turn.
WorkState ==
  [client  : Session,
   events  : [EventId -> Event \cup {NULL}],
   free    : SUBSET EventId,
   buffers : SUBSET BufferIndex,
   server  : {"running", "aborted", "segfault", "terminated"}]

\* The Events of the sessions other than s are those of the state.
OthersKept(evs, s) ==
  \A x \in EventId :
    /\ m_events[x] # NULL /\ m_events[x].client # s => evs[x] = m_events[x]
    /\ evs[x] # NULL /\ evs[x].client # s => evs[x] = m_events[x]

\* Where a handler of session s may be while Event e is being handled.
InTurn(w, s, e) ==
  /\ w \in WorkState
  /\ w.buffers = free_buffers
  /\ w.client.m_buffer_index = session[s].m_buffer_index
  /\ w.free = {x \in EventId : w.events[x] = NULL /\ x # e}
  /\ w.events[e] = NULL
  /\ Distinct(w.events)
  /\ OthersKept(w.events, s)

\* k Events are left to take.
Left1(w) == \E x \in w.free : TRUE
Left2(w) == \E x, y \in w.free : x # y

\* How far a turn may take a session c: it never goes back to the handshake,
\* skips nothing, and stays failed; a connecting session is not failed by the
\* turns it survives.
Follows(c, d) ==
  /\ c.m_is_failed => d.m_is_failed
  /\ \/ /\ c.m_state \in ReadingState
        /\ d.m_state \in ReadingState \cup {"CONNECTING_TO_DESTINATION"}
     \/ /\ c.m_state = "CONNECTING_TO_DESTINATION"
        /\ d.m_state \in {"CONNECTING_TO_DESTINATION", "PROXYING_REQUESTS"}
        /\ ~d.m_is_failed
     \/ c.m_state = "PROXYING_REQUESTS" /\ d.m_state = "PROXYING_REQUESTS"

\* What a handler leaves behind.  Only a handshake may take the process down.
Turned(w, s, e) ==
  \/ /\ w.server = "segfault"
     /\ w \in WorkState
     /\ session[s].m_state \in ReadingState
  \/ /\ w.server = "running"
     /\ InTurn(w, s, e)
     /\ Fits(w.client, Requested(w.events, s))
     /\ Follows(session[s], w.client)

-----------------------------------------------------------------------------
(***************************************************************************)
(* Primitives.                                                             *)
(***************************************************************************)

\* submit takes some free Event, points it at the session, and touches nothing
\* else (server.cpp, the add_*_request functions).
LEMMA SubmitTakesOne ==
  ASSUME NEW w \in WorkState, NEW s \in Sessions, NEW type \in EventType, Left1(w)
  PROVE  \E x \in w.free :
           LET v == submit(w, s, type) IN
           /\ v \in WorkState
           /\ v.client = w.client
           /\ v.events = [w.events EXCEPT ![x] = [client |-> s, type |-> type]]
           /\ v.free = w.free \ {x}
           /\ v.buffers = w.buffers
           /\ v.server = w.server
<1> DEFINE x == obtain_event(w)
           ev == [client |-> s, type |-> type]
<1>1. x \in w.free
  BY DEF Left1, obtain_event
<1>2. ev \in Event
  BY DEF Event
<1>3. w.free # {}
  BY <1>1
<1>4. submit(w, s, type) =
        [w EXCEPT !.events = [w.events EXCEPT ![x] = ev], !.free = w.free \ {x}]
  BY <1>3 DEF submit
<1> HIDE DEF x, ev
<1>5. x \in EventId
  BY <1>1 DEF WorkState
<1>6. [w.events EXCEPT ![x] = ev] \in [EventId -> Event \cup {NULL}]
  BY <1>2, <1>5 DEF WorkState
<1>7. \A evs \in [EventId -> Event \cup {NULL}], free \in SUBSET EventId :
        LET v == [w EXCEPT !.events = evs, !.free = free] IN
        /\ v \in WorkState
        /\ v.client = w.client /\ v.events = evs /\ v.free = free
        /\ v.buffers = w.buffers /\ v.server = w.server
  BY DEF WorkState
<1>8. w.free \ {x} \in SUBSET EventId
  BY DEF WorkState
<1> DEFINE v == submit(w, s, type)
           evs == [w.events EXCEPT ![x] = ev]
<1>9. evs \in [EventId -> Event \cup {NULL}]
  BY <1>6
<1>10. v = [w EXCEPT !.events = evs, !.free = w.free \ {x}]
  BY <1>4
<1> HIDE DEF v, evs
<1>11. /\ v \in WorkState
       /\ v.client = w.client /\ v.events = evs /\ v.free = w.free \ {x}
       /\ v.buffers = w.buffers /\ v.server = w.server
  BY <1>7, <1>8, <1>9, <1>10, ZenonT(60)
<1> QED
  BY <1>1, <1>11 DEF v, evs, ev

\* A request of a type the session does not wait for keeps the turn in order
\* and is added to the requests of the session.
LEMMA SubmitKeepsTurn ==
  ASSUME NEW w, NEW s \in Sessions, NEW e, NEW type \in EventType,
         InTurn(w, s, e), Left1(w), type \notin Requested(w.events, s)
  PROVE  LET v == submit(w, s, type) IN
         /\ InTurn(v, s, e)
         /\ v.client = w.client
         /\ v.server = w.server
         /\ Requested(v.events, s) = Requested(w.events, s) \cup {type}
         /\ Left2(w) => Left1(v)
<1> DEFINE v == submit(w, s, type)
           ev == [client |-> s, type |-> type]
<1>1. w \in WorkState
  BY DEF InTurn
<1>2. PICK x \in w.free :
        /\ v \in WorkState
        /\ v.client = w.client
        /\ v.events = [w.events EXCEPT ![x] = ev]
        /\ v.free = w.free \ {x}
        /\ v.buffers = w.buffers
        /\ v.server = w.server
  BY <1>1, SubmitTakesOne, ZenonT(60)
<1> HIDE DEF v
<1>3. /\ x \in EventId /\ w.events[x] = NULL /\ x # e
      /\ w.events \in [EventId -> Event \cup {NULL}]
      /\ ev \in Event /\ ev # NULL
  BY <1>1, NullAssumption DEF InTurn, WorkState, Event
<1>4. \A y \in EventId : v.events[y] = IF y = x THEN ev ELSE w.events[y]
  BY <1>2, <1>3
<1>5. \A y \in EventId : w.events[y] # ev
  BY DEF Requested
<1>6. Distinct(v.events)
  BY <1>4, <1>5 DEF Distinct, InTurn
<1>7. OthersKept(v.events, s)
  <2>1. ev.client = s
    OBVIOUS
  <2> HIDE DEF ev
  <2> QED
    BY <1>3, <1>4, <2>1 DEF OthersKept, InTurn
<1>8. v.free = {y \in EventId : v.events[y] = NULL /\ y # e}
  BY <1>2, <1>3, <1>4 DEF InTurn
<1>9. Requested(v.events, s) = Requested(w.events, s) \cup {type}
  <2>1. \A t \in EventType : [client |-> s, type |-> t] = ev <=> t = type
    OBVIOUS
  <2>2. \A t \in EventType : [client |-> s, type |-> t] # NULL
    BY NullAssumption DEF Event
  <2> DEFINE P(evs, t) == \E y \in EventId : evs[y] = [client |-> s, type |-> t]
  <2>3. ASSUME NEW t \in EventType PROVE P(v.events, t) <=> P(w.events, t) \/ t = type
    BY <1>3, <1>4, <2>1, <2>2
  <2>4. \A t : t \in Requested(v.events, s) <=> t \in EventType /\ P(v.events, t)
    BY DEF Requested
  <2>5. \A t : t \in Requested(w.events, s) <=> t \in EventType /\ P(w.events, t)
    BY DEF Requested
  <2> HIDE DEF P
  <2> QED
    BY <2>3, <2>4, <2>5
<1>10. v.events[e] = NULL
  BY <1>2, <1>3 DEF InTurn, WorkState
<1>11. Left2(w) => Left1(v)
  BY <1>2 DEF Left1, Left2
<1> QED
  BY <1>2, <1>6, <1>7, <1>8, <1>9, <1>10, <1>11 DEF InTurn, v

\* await, enter, the fail functions and the assignment of the destination
\* socket change the session only, and never its buffer.
LEMMA ClientUpdateKeepsTurn ==
  ASSUME NEW w, NEW s, NEW e, InTurn(w, s, e),
         NEW c \in Session, c.m_buffer_index = w.client.m_buffer_index
  PROVE  LET v == [w EXCEPT !.client = c] IN
         /\ InTurn(v, s, e)
         /\ v.client = c
         /\ v.server = w.server
         /\ v.events = w.events
         /\ v.free = w.free
<1> DEFINE v == [w EXCEPT !.client = c]
<1>1. w \in WorkState
  BY DEF InTurn
<1>2. v = [client |-> c, events |-> w.events, free |-> w.free,
           buffers |-> w.buffers, server |-> w.server]
  BY <1>1 DEF WorkState
<1>3. v \in WorkState
  BY <1>1, <1>2 DEF WorkState
<1> QED
  BY <1>2, <1>3 DEF InTurn

LEMMA AwaitKeepsTurn ==
  ASSUME NEW w, NEW s, NEW e, InTurn(w, s, e)
  PROVE  /\ InTurn(await(w), s, e)
         /\ await(w).client = [w.client EXCEPT !.awaiting_events_count = @ + 1]
         /\ await(w).server = w.server
         /\ await(w).events = w.events
         /\ await(w).free = w.free
<1> DEFINE c == [w.client EXCEPT !.awaiting_events_count = @ + 1]
<1>1. w.client \in Session
  BY DEF InTurn, WorkState
<1>2. c \in Session /\ c.m_buffer_index = w.client.m_buffer_index
  BY <1>1 DEF Session
<1>3. await(w) = [w EXCEPT !.client = c]
  BY DEF await
<1> HIDE DEF c
<1>4. /\ InTurn([w EXCEPT !.client = c], s, e)
      /\ [w EXCEPT !.client = c].client = c
      /\ [w EXCEPT !.client = c].server = w.server
      /\ [w EXCEPT !.client = c].events = w.events
      /\ [w EXCEPT !.client = c].free = w.free
  BY <1>2, ClientUpdateKeepsTurn
<1> QED
  BY <1>3, <1>4 DEF c

LEMMA EnterKeepsTurn ==
  ASSUME NEW w, NEW s, NEW e, InTurn(w, s, e), NEW state \in State
  PROVE  /\ InTurn(enter(w, state), s, e)
         /\ enter(w, state).client = [w.client EXCEPT !.m_state = state]
         /\ enter(w, state).server = w.server
         /\ enter(w, state).events = w.events
         /\ enter(w, state).free = w.free
<1> DEFINE c == [w.client EXCEPT !.m_state = state]
<1>1. w.client \in Session
  BY DEF InTurn, WorkState
<1>2. c \in Session /\ c.m_buffer_index = w.client.m_buffer_index
  BY <1>1 DEF Session
<1>3. enter(w, state) = [w EXCEPT !.client = c]
  BY DEF enter
<1> HIDE DEF c
<1>4. /\ InTurn([w EXCEPT !.client = c], s, e)
      /\ [w EXCEPT !.client = c].client = c
      /\ [w EXCEPT !.client = c].server = w.server
      /\ [w EXCEPT !.client = c].events = w.events
      /\ [w EXCEPT !.client = c].free = w.free
  BY <1>2, ClientUpdateKeepsTurn
<1> QED
  BY <1>3, <1>4 DEF c

LEMMA FailDelayedKeepsTurn ==
  ASSUME NEW w, NEW s, NEW e, InTurn(w, s, e)
  PROVE  /\ InTurn(fail_delayed(w), s, e)
         /\ fail_delayed(w).client =
              [w.client EXCEPT !.m_is_failed = TRUE, !.m_destination_socket = "none"]
         /\ fail_delayed(w).server = w.server
         /\ fail_delayed(w).events = w.events
         /\ fail_delayed(w).free = w.free
<1> DEFINE c == [w.client EXCEPT !.m_is_failed = TRUE, !.m_destination_socket = "none"]
<1>1. w.client \in Session
  BY DEF InTurn, WorkState
<1>2. c \in Session /\ c.m_buffer_index = w.client.m_buffer_index
  BY <1>1 DEF Session
<1>3. fail_delayed(w) = [w EXCEPT !.client = c]
  BY <1>1 DEF fail_delayed, InTurn, WorkState
<1> HIDE DEF c
<1>4. /\ InTurn([w EXCEPT !.client = c], s, e)
      /\ [w EXCEPT !.client = c].client = c
      /\ [w EXCEPT !.client = c].server = w.server
      /\ [w EXCEPT !.client = c].events = w.events
      /\ [w EXCEPT !.client = c].free = w.free
  BY <1>2, ClientUpdateKeepsTurn
<1> QED
  BY <1>3, <1>4 DEF c

\* fail_immediately closes the descriptor, which is still open when it is called.
LEMMA FailImmediatelyKeepsTurn ==
  ASSUME NEW w, NEW s, NEW e, InTurn(w, s, e), w.client.m_fd = "open"
  PROVE  LET v == fail_immediately(w) IN
         /\ InTurn(v, s, e)
         /\ v.client = [w.client EXCEPT !.m_is_failed = TRUE,
                                        !.m_destination_socket = "none",
                                        !.m_fd = "closed"]
         /\ v.server = w.server
         /\ v.events = w.events
         /\ v.free = w.free
<1> DEFINE u == fail_delayed(w)
           c == [u.client EXCEPT !.m_fd = "closed"]
<1>1. /\ InTurn(u, s, e)
      /\ u.client = [w.client EXCEPT !.m_is_failed = TRUE, !.m_destination_socket = "none"]
      /\ u.server = w.server /\ u.events = w.events /\ u.free = w.free
  BY FailDelayedKeepsTurn
<1>2. fail_immediately(w) = [u EXCEPT !.client = c]
  BY DEF fail_immediately
<1> HIDE DEF u
<1>3. u.client \in Session /\ w.client \in Session
  BY <1>1 DEF InTurn, WorkState
<1>4. c \in Session /\ c.m_buffer_index = u.client.m_buffer_index
  BY <1>3 DEF Session
<1>5. c = [w.client EXCEPT !.m_is_failed = TRUE, !.m_destination_socket = "none",
                           !.m_fd = "closed"]
  BY <1>1, <1>3, Zenon
<1> HIDE DEF c
<1>6. /\ InTurn([u EXCEPT !.client = c], s, e)
      /\ [u EXCEPT !.client = c].client = c
      /\ [u EXCEPT !.client = c].server = u.server
      /\ [u EXCEPT !.client = c].events = u.events
      /\ [u EXCEPT !.client = c].free = u.free
  BY <1>1, <1>4, ClientUpdateKeepsTurn, ZenonT(60)
<1> QED
  BY <1>1, <1>2, <1>5, <1>6

\* A counted request: add_client_read_request and its three companions.
LEMMA CountedRequestKeepsTurn ==
  ASSUME NEW w, NEW s \in Sessions, NEW e, NEW type \in EventType,
         InTurn(w, s, e), Left1(w), type \notin Requested(w.events, s)
  PROVE  LET v == submit(await(w), s, type) IN
         /\ InTurn(v, s, e)
         /\ v.client = [w.client EXCEPT !.awaiting_events_count = @ + 1]
         /\ v.server = w.server
         /\ Requested(v.events, s) = Requested(w.events, s) \cup {type}
         /\ Left2(w) => Left1(v)
<1> DEFINE u == await(w)
<1>1. /\ InTurn(u, s, e)
      /\ u.client = [w.client EXCEPT !.awaiting_events_count = @ + 1]
      /\ u.server = w.server /\ u.events = w.events /\ u.free = w.free
  BY AwaitKeepsTurn
<1> HIDE DEF u
<1>2. Left1(u) /\ (Left2(w) => Left2(u))
  BY <1>1 DEF Left1, Left2
<1>3. type \notin Requested(u.events, s)
  BY <1>1
<1> DEFINE v == submit(u, s, type)
<1>4. /\ InTurn(v, s, e)
      /\ v.client = u.client /\ v.server = u.server
      /\ Requested(v.events, s) = Requested(u.events, s) \cup {type}
      /\ Left2(u) => Left1(v)
  BY <1>1, <1>2, <1>3, SubmitKeepsTurn
<1> HIDE DEF v
<1>5. /\ InTurn(v, s, e)
      /\ v.client = [w.client EXCEPT !.awaiting_events_count = @ + 1]
      /\ v.server = w.server
      /\ Requested(v.events, s) = Requested(w.events, s) \cup {type}
      /\ Left2(w) => Left1(v)
  BY <1>1, <1>2, <1>4
<1> QED
  BY <1>5 DEF u, v

-----------------------------------------------------------------------------
(***************************************************************************)
(* Handlers, by the phase of the session whose turn it is.                 *)
(***************************************************************************)

\* A handshaking session whose only request is the one being handled.
HandshakeTurn(w, s, e) ==
  /\ InTurn(w, s, e) /\ w.server = "running" /\ Left2(w)
  /\ Requested(w.events, s) = {}
  /\ w.client.m_state \in ReadingState /\ ~w.client.m_is_failed
  /\ w.client.m_fd = "open" /\ w.client.m_destination_socket = "none"
  /\ w.client.awaiting_events_count = 1
  /\ session[s].m_state \in ReadingState /\ ~session[s].m_is_failed

\* A connecting session whose only request is the one being handled.
ConnectTurn(w, s, e) ==
  /\ InTurn(w, s, e) /\ w.server = "running" /\ Left2(w)
  /\ Requested(w.events, s) = {}
  /\ w.client.m_state = "CONNECTING_TO_DESTINATION" /\ ~w.client.m_is_failed
  /\ w.client.m_fd = "open" /\ w.client.m_destination_socket = "open"
  /\ w.client.awaiting_events_count = 0
  /\ session[s].m_state = "CONNECTING_TO_DESTINATION" /\ ~session[s].m_is_failed

\* A proxying session that waits for a request of type r beside the one being
\* handled.
RelayTurn(w, s, e, r) ==
  /\ InTurn(w, s, e) /\ w.server = "running" /\ Left1(w)
  /\ Requested(w.events, s) = {r}
  /\ w.client.m_state = "PROXYING_REQUESTS" /\ ~w.client.m_is_failed
  /\ w.client.m_fd = "open" /\ w.client.m_destination_socket = "open"
  /\ w.client.awaiting_events_count = 1
  /\ session[s].m_state \in {"CONNECTING_TO_DESTINATION", "PROXYING_REQUESTS"}
  /\ ~session[s].m_is_failed

LEMMA TwoLeftOneLeft == ASSUME NEW w, Left2(w) PROVE Left1(w)
  BY DEF Left1, Left2

\* Reading more of the handshake leaves a handshaking session.
LEMMA HandshakeReads ==
  ASSUME NEW w, NEW s \in Sessions, NEW e, HandshakeTurn(w, s, e)
  PROVE  Turned(add_client_read_request(w, s), s, e)
<1> DEFINE v == submit(await(w), s, "CLIENT_READ")
<1>1. w.client \in Session /\ Left1(w) /\ InTurn(w, s, e)
  BY TwoLeftOneLeft DEF HandshakeTurn, InTurn, WorkState
<1>2. "CLIENT_READ" \in EventType /\ "CLIENT_READ" \notin Requested(w.events, s)
  BY DEF EventType, HandshakeTurn
<1>3. /\ InTurn(v, s, e)
      /\ v.client = [w.client EXCEPT !.awaiting_events_count = @ + 1]
      /\ v.server = w.server
      /\ Requested(v.events, s) = Requested(w.events, s) \cup {"CLIENT_READ"}
  BY <1>1, <1>2, CountedRequestKeepsTurn
<1> HIDE DEF v
<1>4. /\ v.client.m_state = w.client.m_state
      /\ v.client.m_is_failed = w.client.m_is_failed
      /\ v.client.m_fd = w.client.m_fd
      /\ v.client.m_destination_socket = w.client.m_destination_socket
      /\ v.client.awaiting_events_count = 2
  BY <1>1, <1>3 DEF HandshakeTurn, Session
<1>5. Handshaking(v.client, Requested(v.events, s))
  BY <1>3, <1>4 DEF HandshakeTurn, Handshaking
<1>6. Follows(session[s], v.client)
  BY <1>4 DEF HandshakeTurn, Follows
<1> QED
  BY <1>3, <1>5, <1>6 DEF Turned, Fits, HandshakeTurn, v, add_client_read_request

\* An answer leaves a rejected session, or a handshaking one in the state whose
\* answer is the choice of a method.
LEMMA HandshakeAnswers ==
  ASSUME NEW w, NEW s \in Sessions, NEW e, HandshakeTurn(w, s, e)
  PROVE  /\ Turned(send_fail_message(w, s), s, e)
         /\ InTurn(send_fail_message(w, s), s, e)
         /\ send_fail_message(w, s).server = "running"
         /\ send_fail_message(w, s).client.m_destination_socket = "none"
         /\ Left1(send_fail_message(w, s))
         /\ w.client.m_state = "READING_AUTH_METHODS"
              => Turned(write_to_client(w, s), s, e)
<1> DEFINE u == fail_delayed(w)
           v == submit(await(u), s, "CLIENT_WRITE")
           x == submit(await(w), s, "CLIENT_WRITE")
<1>1. w.client \in Session /\ Left1(w) /\ InTurn(w, s, e)
  BY TwoLeftOneLeft DEF HandshakeTurn, InTurn, WorkState
<1>2. /\ InTurn(u, s, e)
      /\ u.client = [w.client EXCEPT !.m_is_failed = TRUE, !.m_destination_socket = "none"]
      /\ u.server = w.server /\ u.events = w.events /\ u.free = w.free
  BY <1>1, FailDelayedKeepsTurn
<1> HIDE DEF u
<1>3. "CLIENT_WRITE" \in EventType
  BY DEF EventType
<1>4. /\ u.client \in Session /\ Left1(u) /\ Left2(u)
      /\ "CLIENT_WRITE" \notin Requested(u.events, s)
      /\ "CLIENT_WRITE" \notin Requested(w.events, s)
  BY <1>1, <1>2 DEF HandshakeTurn, InTurn, WorkState, Left1, Left2
<1>5. /\ InTurn(v, s, e)
      /\ v.client = [u.client EXCEPT !.awaiting_events_count = @ + 1]
      /\ v.server = u.server
      /\ Requested(v.events, s) = Requested(u.events, s) \cup {"CLIENT_WRITE"}
      /\ Left2(u) => Left1(v)
  BY <1>2, <1>3, <1>4, CountedRequestKeepsTurn
<1>6. /\ InTurn(x, s, e)
      /\ x.client = [w.client EXCEPT !.awaiting_events_count = @ + 1]
      /\ x.server = w.server
      /\ Requested(x.events, s) = Requested(w.events, s) \cup {"CLIENT_WRITE"}
  BY <1>1, <1>3, <1>4, CountedRequestKeepsTurn
<1>7. send_fail_message(w, s) = v /\ write_to_client(w, s) = x
  BY DEF send_fail_message, write_to_client, add_client_write_request, u
<1> HIDE DEF v, x
<1>8. /\ u.client.m_state = w.client.m_state
      /\ u.client.m_is_failed
      /\ u.client.m_fd = w.client.m_fd
      /\ u.client.m_destination_socket = "none"
      /\ u.client.awaiting_events_count = 1
  BY <1>1, <1>2 DEF HandshakeTurn, Session
<1>9. /\ v.client.m_state = w.client.m_state
      /\ v.client.m_is_failed
      /\ v.client.m_fd = w.client.m_fd
      /\ v.client.m_destination_socket = "none"
      /\ v.client.awaiting_events_count = 2
  BY <1>4, <1>5, <1>8 DEF Session
<1>10. /\ x.client.m_state = w.client.m_state
       /\ x.client.m_is_failed = w.client.m_is_failed
       /\ x.client.m_fd = w.client.m_fd
       /\ x.client.m_destination_socket = w.client.m_destination_socket
       /\ x.client.awaiting_events_count = 2
  BY <1>1, <1>6 DEF HandshakeTurn, Session
<1>11. Rejected(v.client, Requested(v.events, s))
  BY <1>2, <1>5, <1>9 DEF HandshakeTurn, Rejected
<1>12. w.client.m_state = "READING_AUTH_METHODS"
         => Handshaking(x.client, Requested(x.events, s))
  BY <1>6, <1>10 DEF HandshakeTurn, Handshaking
<1>13. Follows(session[s], v.client) /\ Follows(session[s], x.client)
  BY <1>9, <1>10 DEF HandshakeTurn, Follows
<1> QED
  BY <1>2, <1>4, <1>5, <1>6, <1>7, <1>9, <1>11, <1>12, <1>13 DEF Turned, Fits, HandshakeTurn

\* A greeting that is refused leaves a session that waits for nothing.
LEMMA HandshakeDrops ==
  ASSUME NEW w, NEW s \in Sessions, NEW e, HandshakeTurn(w, s, e)
  PROVE  Turned(fail_immediately(w), s, e)
<1> DEFINE v == fail_immediately(w)
<1>1. w.client \in Session
  BY DEF HandshakeTurn, InTurn, WorkState
<1>2. /\ InTurn(v, s, e)
      /\ v.client = [w.client EXCEPT !.m_is_failed = TRUE,
                                     !.m_destination_socket = "none",
                                     !.m_fd = "closed"]
      /\ v.server = w.server /\ v.events = w.events
  BY FailImmediatelyKeepsTurn DEF HandshakeTurn
<1> HIDE DEF v
<1>3. Rejected(v.client, Requested(v.events, s))
  BY <1>1, <1>2 DEF HandshakeTurn, Rejected, Session
<1>4. Follows(session[s], v.client)
  BY <1>1, <1>2 DEF HandshakeTurn, Follows, Session
<1> QED
  BY <1>2, <1>3, <1>4 DEF Turned, Fits, HandshakeTurn, v

\* Moving on within the handshake changes nothing a reader depends on.
LEMMA HandshakeEnters ==
  ASSUME NEW w, NEW s \in Sessions, NEW e, HandshakeTurn(w, s, e),
         NEW state \in ReadingState
  PROVE  /\ HandshakeTurn(enter(w, state), s, e)
         /\ enter(w, state).client.m_state = state
<1> DEFINE v == enter(w, state)
<1>1. w.client \in Session /\ state \in State
  BY DEF HandshakeTurn, InTurn, WorkState, State
<1>2. /\ InTurn(v, s, e)
      /\ v.client = [w.client EXCEPT !.m_state = state]
      /\ v.server = w.server /\ v.events = w.events /\ v.free = w.free
  BY <1>1, EnterKeepsTurn DEF HandshakeTurn
<1> HIDE DEF v
<1>3. HandshakeTurn(v, s, e) /\ v.client.m_state = state
  BY <1>1, <1>2 DEF HandshakeTurn, Session, Left2
<1> QED
  BY <1>3 DEF v

\* The three ends of connect_*_destination: the socket is there and is being
\* connected; it is not, and the process dies; the request is refused.
LEMMA ConnectDestinationTurns ==
  ASSUME NEW w, NEW s \in Sessions, NEW e, HandshakeTurn(w, s, e),
         NEW v \in connect_destination(w, s)
  PROVE  Turned(v, s, e)
<1> USE DEF EventType
<1> DEFINE c  == [w.client EXCEPT !.m_destination_socket = "open"]
           a1 == [w EXCEPT !.client = c]
           a2 == enter(a1, "CONNECTING_TO_DESTINATION")
           a  == add_destination_connect_request(a2, s)
           b1 == send_fail_message(w, s)
           b2 == enter(b1, "CONNECTING_TO_DESTINATION")
           b  == add_destination_connect_request(b2, s)
<1>1. w.client \in Session /\ InTurn(w, s, e) /\ "CONNECTING_TO_DESTINATION" \in State
  BY DEF HandshakeTurn, InTurn, WorkState, State
<1>2. a1 = [w EXCEPT !.client.m_destination_socket = "open"]
  OBVIOUS
<1>3. v \in {a, b, b1}
  BY <1>2 DEF connect_destination
<1>4. c \in Session /\ c.m_buffer_index = w.client.m_buffer_index
  BY <1>1 DEF Session
<1>5. Turned(a, s, e)
  <2> HIDE DEF c
  <2>1. /\ InTurn(a1, s, e) /\ a1.client = c /\ a1.server = w.server
        /\ a1.events = w.events /\ a1.free = w.free
    BY <1>1, <1>4, ClientUpdateKeepsTurn
  <2> HIDE DEF a1
  <2>2. /\ InTurn(a2, s, e)
        /\ a2.client = [c EXCEPT !.m_state = "CONNECTING_TO_DESTINATION"]
        /\ a2.server = w.server /\ a2.events = w.events /\ a2.free = w.free
    BY <1>1, <2>1, EnterKeepsTurn
  <2> HIDE DEF a2
  <2>3. /\ a2.client.m_state = "CONNECTING_TO_DESTINATION"
        /\ ~a2.client.m_is_failed
        /\ a2.client.m_fd = "open"
        /\ a2.client.m_destination_socket = "open"
        /\ a2.client.awaiting_events_count = 1
    BY <1>1, <1>4, <2>2 DEF c, Session, HandshakeTurn
  <2> DEFINE z == submit(a2, s, "DESTINATION_CONNECT")
  <2>4. a = z
    BY <2>3 DEF add_destination_connect_request, dereference_destination
  <2>5. Left1(a2) /\ "DESTINATION_CONNECT" \notin Requested(a2.events, s)
    BY <2>2, TwoLeftOneLeft DEF HandshakeTurn, Left1
  <2>6. /\ InTurn(z, s, e) /\ z.client = a2.client /\ z.server = a2.server
        /\ Requested(z.events, s) = Requested(a2.events, s) \cup {"DESTINATION_CONNECT"}
    BY <2>2, <2>5, SubmitKeepsTurn
  <2> HIDE DEF z, a
  <2>7. Connecting(z.client, Requested(z.events, s))
    BY <2>2, <2>3, <2>6 DEF HandshakeTurn, Connecting
  <2>8. Follows(session[s], z.client)
    BY <2>3, <2>6 DEF HandshakeTurn, Follows
  <2> QED
    BY <2>2, <2>4, <2>6, <2>7, <2>8 DEF Turned, Fits, HandshakeTurn
<1>6. Turned(b, s, e)
  <2>1. /\ InTurn(b1, s, e) /\ b1.server = "running" /\ Left1(b1)
        /\ b1.client.m_destination_socket = "none"
    BY HandshakeAnswers
  <2> HIDE DEF b1
  <2>2. /\ InTurn(b2, s, e)
        /\ b2.client = [b1.client EXCEPT !.m_state = "CONNECTING_TO_DESTINATION"]
        /\ b2.server = "running" /\ b2.free = b1.free
    BY <1>1, <2>1, EnterKeepsTurn
  <2> HIDE DEF b2
  <2>3. b1.client \in Session /\ b2 \in WorkState
    BY <2>1, <2>2 DEF InTurn, WorkState
  <2>4. b2.client.m_destination_socket = "none"
    BY <2>1, <2>2, <2>3 DEF Session
  <2> DEFINE y == [b2 EXCEPT !.server = "segfault"]
  <2>5. b = submit(y, s, "DESTINATION_CONNECT")
    BY <2>4 DEF add_destination_connect_request, dereference_destination
  <2>6. y \in WorkState /\ y.server = "segfault" /\ y.free = b2.free
    BY <2>3 DEF WorkState
  <2> HIDE DEF y, b
  <2>7. Left1(y)
    BY <2>1, <2>2, <2>6 DEF Left1
  <2>8. /\ submit(y, s, "DESTINATION_CONNECT").server = y.server
        /\ submit(y, s, "DESTINATION_CONNECT") \in WorkState
    BY <2>6, <2>7, SubmitTakesOne
  <2> QED
    BY <2>5, <2>6, <2>8 DEF Turned, HandshakeTurn
<1>7. Turned(b1, s, e)
  BY HandshakeAnswers
<1> HIDE DEF a, b, b1
<1> QED
  BY <1>3, <1>5, <1>6, <1>7

LEMMA ReadAddressTurns ==
  ASSUME NEW w, NEW s \in Sessions, NEW e, HandshakeTurn(w, s, e),
         NEW v \in read_address(w, s)
  PROVE  Turned(v, s, e)
  BY ConnectDestinationTurns, HandshakeAnswers DEF read_address

LEMMA ToAddressTurns ==
  ASSUME NEW w, NEW s \in Sessions, NEW e, HandshakeTurn(w, s, e),
         NEW v \in to_address(w, s)
  PROVE  Turned(v, s, e)
<1> DEFINE u == enter(w, "READING_ADDRESS")
<1>1. HandshakeTurn(u, s, e)
  BY HandshakeEnters DEF ReadingState
<1>2. v \in {add_client_read_request(u, s)} \cup read_address(u, s)
  BY DEF to_address, read_some_from_client
<1> HIDE DEF u
<1> QED
  BY <1>1, <1>2, HandshakeReads, ReadAddressTurns

LEMMA ToDomainNameLengthTurns ==
  ASSUME NEW w, NEW s \in Sessions, NEW e, HandshakeTurn(w, s, e),
         NEW v \in to_domain_name_length(w, s)
  PROVE  Turned(v, s, e)
<1> DEFINE u == enter(w, "READING_DOMAIN_NAME_LENGTH")
<1>1. HandshakeTurn(u, s, e)
  BY HandshakeEnters DEF ReadingState
<1>2. v \in {add_client_read_request(u, s)} \cup to_address(u, s)
  BY DEF to_domain_name_length, read_some_from_client, read_domain_name_length
<1> HIDE DEF u
<1> QED
  BY <1>1, <1>2, HandshakeReads, ToAddressTurns

LEMMA ReadClientConnectionRequestTurns ==
  ASSUME NEW w, NEW s \in Sessions, NEW e, HandshakeTurn(w, s, e),
         NEW v \in read_client_connection_request(w, s)
  PROVE  Turned(v, s, e)
  BY HandshakeAnswers, ToAddressTurns, ToDomainNameLengthTurns
     DEF read_client_connection_request

LEMMA ToClientConnectionRequestTurns ==
  ASSUME NEW w, NEW s \in Sessions, NEW e, HandshakeTurn(w, s, e),
         NEW v \in to_client_connection_request(w, s)
  PROVE  Turned(v, s, e)
<1> DEFINE u == enter(w, "READING_CLIENT_CONNECTION_REQUEST")
<1>1. HandshakeTurn(u, s, e)
  BY HandshakeEnters DEF ReadingState
<1>2. v \in {add_client_read_request(u, s)} \cup read_client_connection_request(u, s)
  BY DEF to_client_connection_request, read_some_from_client
<1> HIDE DEF u
<1> QED
  BY <1>1, <1>2, HandshakeReads, ReadClientConnectionRequestTurns

LEMMA ReadAuthMethodsTurns ==
  ASSUME NEW w, NEW s \in Sessions, NEW e, HandshakeTurn(w, s, e),
         w.client.m_state = "READING_AUTH_METHODS",
         NEW v \in read_auth_methods(w, s)
  PROVE  Turned(v, s, e)
  BY HandshakeAnswers DEF read_auth_methods, send_fail_message

LEMMA ToAuthMethodsTurns ==
  ASSUME NEW w, NEW s \in Sessions, NEW e, HandshakeTurn(w, s, e),
         NEW v \in to_auth_methods(w, s)
  PROVE  Turned(v, s, e)
<1> DEFINE u == enter(w, "READING_AUTH_METHODS")
<1>1. HandshakeTurn(u, s, e) /\ u.client.m_state = "READING_AUTH_METHODS"
  BY HandshakeEnters DEF ReadingState
<1>2. v \in {add_client_read_request(u, s)} \cup read_auth_methods(u, s)
  BY DEF to_auth_methods, read_some_from_client
<1> HIDE DEF u
<1> QED
  BY <1>1, <1>2, HandshakeReads, ReadAuthMethodsTurns

\* A read that completes during the handshake.
LEMMA HandshakeReadCompletes ==
  ASSUME NEW w, NEW s \in Sessions, NEW e, HandshakeTurn(w, s, e),
         NEW v \in handle_client_read(w, s) \cup {fail_immediately(w)}
  PROVE  Turned(v, s, e)
<1>1. w.client.m_state \in ReadingState /\ w.client.m_state # "PROXYING_REQUESTS"
  BY DEF HandshakeTurn, ReadingState
<1>2. v \in {add_client_read_request(w, s), fail_immediately(w)}
            \cup read_completed(w, s)
  BY <1>1 DEF handle_client_read, read_some_from_client
<1>3. ASSUME v \in read_completed(w, s) PROVE Turned(v, s, e)
  <2>1. CASE w.client.m_state = "READING_CLIENT_GREETING"
    <3>1. v \in {fail_immediately(w)} \cup to_auth_methods(w, s)
      BY <1>3, <2>1 DEF read_completed, read_client_greeting
    <3> QED
      BY <3>1, HandshakeDrops, ToAuthMethodsTurns
  <2>2. CASE w.client.m_state = "READING_AUTH_METHODS"
    <3>1. v \in read_auth_methods(w, s)
      BY <1>3, <2>2 DEF read_completed
    <3> QED
      BY <2>2, <3>1, ReadAuthMethodsTurns
  <2>3. CASE w.client.m_state = "READING_CLIENT_CONNECTION_REQUEST"
    <3>1. v \in read_client_connection_request(w, s)
      BY <1>3, <2>3 DEF read_completed
    <3> QED
      BY <3>1, ReadClientConnectionRequestTurns
  <2>4. CASE w.client.m_state = "READING_DOMAIN_NAME_LENGTH"
    <3>1. v \in to_address(w, s)
      BY <1>3, <2>4 DEF read_completed, read_domain_name_length
    <3> QED
      BY <3>1, ToAddressTurns
  <2>5. CASE w.client.m_state = "READING_ADDRESS"
    <3>1. v \in read_address(w, s)
      BY <1>3, <2>5 DEF read_completed
    <3> QED
      BY <3>1, ReadAddressTurns
  <2> QED
    BY <1>1, <2>1, <2>2, <2>3, <2>4, <2>5 DEF ReadingState
<1> QED
  BY <1>2, <1>3, HandshakeReads, HandshakeDrops

\* A relaying session adds one request in the direction that has none.
LEMMA RelayRequests ==
  ASSUME NEW w, NEW s \in Sessions, NEW e, NEW r, RelayTurn(w, s, e, r),
         NEW type \in EventType,
         \/ type \in ToDestination /\ r \in ToClient
         \/ type \in ToClient /\ r \in ToDestination
  PROVE  Turned(submit(await(w), s, type), s, e)
<1> DEFINE v == submit(await(w), s, type)
<1>1. w.client \in Session /\ InTurn(w, s, e) /\ Left1(w)
  BY DEF RelayTurn, InTurn, WorkState
<1>2. type \notin Requested(w.events, s)
  BY DEF RelayTurn, ToDestination, ToClient
<1>3. /\ InTurn(v, s, e)
      /\ v.client = [w.client EXCEPT !.awaiting_events_count = @ + 1]
      /\ v.server = w.server
      /\ Requested(v.events, s) = Requested(w.events, s) \cup {type}
  BY <1>1, <1>2, CountedRequestKeepsTurn
<1> HIDE DEF v
<1>4. /\ v.client.m_state = "PROXYING_REQUESTS"
      /\ ~v.client.m_is_failed
      /\ v.client.m_fd = "open"
      /\ v.client.m_destination_socket = "open"
      /\ v.client.awaiting_events_count = 2
  BY <1>1, <1>3 DEF RelayTurn, Session
<1>5. \E d \in ToDestination, c \in ToClient : Requested(v.events, s) = {d, c}
  <2>1. Requested(v.events, s) = {r, type} /\ {r, type} = {type, r}
    BY <1>3 DEF RelayTurn
  <2> QED
    BY <2>1
<1>6. Proxying(v.client, Requested(v.events, s))
  BY <1>4, <1>5 DEF Proxying
<1>7. Follows(session[s], v.client)
  BY <1>4 DEF RelayTurn, Follows
<1> QED
  BY <1>3, <1>6, <1>7 DEF Turned, Fits, RelayTurn, v

\* When the destination socket is there, the two destination requests are
\* counted requests like the others.
LEMMA DestinationRequests ==
  ASSUME NEW w, NEW s, NEW e, InTurn(w, s, e), w.client.m_destination_socket = "open"
  PROVE  /\ add_destination_read_request(w, s) = submit(await(w), s, "DESTINATION_READ")
         /\ add_destination_write_request(w, s) = submit(await(w), s, "DESTINATION_WRITE")
<1>1. await(w).client = [w.client EXCEPT !.awaiting_events_count = @ + 1]
  BY AwaitKeepsTurn
<1>2. w.client \in Session
  BY DEF InTurn, WorkState
<1>3. await(w).client.m_destination_socket # "none"
  BY <1>1, <1>2 DEF Session
<1> HIDE DEF await
<1> QED
  BY <1>3 DEF add_destination_read_request, add_destination_write_request,
              dereference_destination

\* A relaying session whose peer has gone drains its other direction.
LEMMA RelayFails ==
  ASSUME NEW w, NEW s \in Sessions, NEW e, NEW r \in ToDestination \cup ToClient,
         RelayTurn(w, s, e, r), session[s].m_state = "PROXYING_REQUESTS"
  PROVE  Turned(fail_immediately(w), s, e)
<1> DEFINE v == fail_immediately(w)
<1>1. w.client \in Session
  BY DEF RelayTurn, InTurn, WorkState
<1>2. /\ InTurn(v, s, e)
      /\ v.client = [w.client EXCEPT !.m_is_failed = TRUE,
                                     !.m_destination_socket = "none",
                                     !.m_fd = "closed"]
      /\ v.server = w.server /\ v.events = w.events
  BY FailImmediatelyKeepsTurn DEF RelayTurn
<1> HIDE DEF v
<1>3. Draining(v.client, Requested(v.events, s))
  BY <1>1, <1>2 DEF RelayTurn, Draining, Session
<1>4. Follows(session[s], v.client)
  BY <1>1, <1>2 DEF RelayTurn, Follows, Session
<1> QED
  BY <1>2, <1>3, <1>4 DEF Turned, Fits, RelayTurn, v

\* The handlers of a relaying session.
LEMMA RelayHandlersTurn ==
  ASSUME NEW w, NEW s \in Sessions, NEW e, NEW r, RelayTurn(w, s, e, r), NEW v
  PROVE  /\ r \in ToClient /\ v \in handle_client_read(w, s) => Turned(v, s, e)
         /\ r \in ToDestination /\ v \in handle_client_write(w, s) => Turned(v, s, e)
         /\ r \in ToDestination /\ v \in handle_destination_read(w, s)
              => Turned(v, s, e)
         /\ r \in ToClient /\ v \in handle_destination_write(w, s) => Turned(v, s, e)
<1> DEFINE cr == submit(await(w), s, "CLIENT_READ")
           cw == submit(await(w), s, "CLIENT_WRITE")
           dr == submit(await(w), s, "DESTINATION_READ")
           dw == submit(await(w), s, "DESTINATION_WRITE")
<1>1. /\ r \in ToClient => Turned(cr, s, e) /\ Turned(dw, s, e)
      /\ r \in ToDestination => Turned(cw, s, e) /\ Turned(dr, s, e)
  BY RelayRequests DEF EventType, ToDestination, ToClient
<1>2. /\ add_client_read_request(w, s) = cr
      /\ add_client_write_request(w, s) = cw
      /\ add_destination_read_request(w, s) = dr
      /\ add_destination_write_request(w, s) = dw
  BY DestinationRequests DEF add_client_read_request, add_client_write_request, RelayTurn
<1>3. w.client.m_state = "PROXYING_REQUESTS"
  BY DEF RelayTurn
<1> HIDE DEF cr, cw, dr, dw
<1>4. /\ handle_client_read(w, s) = {dw}
      /\ handle_client_write(w, s) = {dr, cw}
      /\ handle_destination_read(w, s) = {cw}
      /\ handle_destination_write(w, s) = {cr, dw}
  BY <1>2, <1>3 DEF handle_client_read, handle_client_write, handle_destination_read,
                    handle_destination_write
<1> QED
  BY <1>1, <1>4

\* The connect request is answered.
LEMMA ConnectAnswers ==
  ASSUME NEW w, NEW s \in Sessions, NEW e, ConnectTurn(w, s, e)
  PROVE  Turned(write_to_client(w, s), s, e)
<1> DEFINE v == submit(await(w), s, "CLIENT_WRITE")
<1>1. w.client \in Session /\ InTurn(w, s, e) /\ Left1(w)
  BY TwoLeftOneLeft DEF ConnectTurn, InTurn, WorkState
<1>2. "CLIENT_WRITE" \in EventType /\ "CLIENT_WRITE" \notin Requested(w.events, s)
  BY DEF EventType, ConnectTurn
<1>3. /\ InTurn(v, s, e)
      /\ v.client = [w.client EXCEPT !.awaiting_events_count = @ + 1]
      /\ v.server = w.server
      /\ Requested(v.events, s) = Requested(w.events, s) \cup {"CLIENT_WRITE"}
  BY <1>1, <1>2, CountedRequestKeepsTurn
<1> HIDE DEF v
<1>4. Connecting(v.client, Requested(v.events, s))
  BY <1>1, <1>3 DEF ConnectTurn, Connecting, Session
<1>5. Follows(session[s], v.client)
  BY <1>4 DEF ConnectTurn, Connecting, Follows
<1> QED
  BY <1>3, <1>4, <1>5
     DEF Turned, Fits, ConnectTurn, v, write_to_client, add_client_write_request

\* Once the answer has left, the relay starts in both directions.
LEMMA StartProxyingTurns ==
  ASSUME NEW w, NEW s \in Sessions, NEW e, ConnectTurn(w, s, e),
         NEW v \in start_proxying(w, s)
  PROVE  Turned(v, s, e)
<1> DEFINE u == enter(w, "PROXYING_REQUESTS")
           p == submit(await(u), s, "DESTINATION_READ")
<1>1. w.client \in Session /\ "PROXYING_REQUESTS" \in State
  BY DEF ConnectTurn, InTurn, WorkState, State
<1>2. /\ InTurn(u, s, e)
      /\ u.client = [w.client EXCEPT !.m_state = "PROXYING_REQUESTS"]
      /\ u.server = w.server /\ u.events = w.events /\ u.free = w.free
  BY <1>1, EnterKeepsTurn DEF ConnectTurn
<1>3. v \in {add_client_read_request(add_destination_read_request(u, s), s),
             add_destination_write_request(add_destination_read_request(u, s), s)}
  BY DEF start_proxying
<1> HIDE DEF u
<1>4. /\ u.client.m_state = "PROXYING_REQUESTS" /\ ~u.client.m_is_failed
      /\ u.client.m_fd = "open" /\ u.client.m_destination_socket = "open"
      /\ u.client.awaiting_events_count = 0
      /\ u.client \in Session
  BY <1>1, <1>2 DEF ConnectTurn, Session, InTurn, WorkState
<1>5. add_destination_read_request(u, s) = p
  BY <1>2, <1>4, DestinationRequests
<1>6. /\ "DESTINATION_READ" \in EventType
      /\ "DESTINATION_READ" \notin Requested(u.events, s)
      /\ Left1(u) /\ Left2(u)
  BY <1>2, TwoLeftOneLeft DEF EventType, ConnectTurn, Left2, Left1
<1>7. /\ InTurn(p, s, e)
      /\ p.client = [u.client EXCEPT !.awaiting_events_count = @ + 1]
      /\ p.server = u.server
      /\ Requested(p.events, s) = Requested(u.events, s) \cup {"DESTINATION_READ"}
      /\ Left2(u) => Left1(p)
  BY <1>2, <1>6, CountedRequestKeepsTurn
<1> HIDE DEF p
<1>8. RelayTurn(p, s, e, "DESTINATION_READ")
  BY <1>2, <1>4, <1>6, <1>7 DEF RelayTurn, ConnectTurn, Session
<1>9. /\ Turned(submit(await(p), s, "CLIENT_READ"), s, e)
      /\ Turned(submit(await(p), s, "DESTINATION_WRITE"), s, e)
  BY <1>8, RelayRequests DEF EventType, ToDestination, ToClient
<1>10. /\ add_client_read_request(p, s) = submit(await(p), s, "CLIENT_READ")
       /\ add_destination_write_request(p, s) = submit(await(p), s, "DESTINATION_WRITE")
  BY <1>8, DestinationRequests DEF RelayTurn, add_client_read_request
<1> QED
  BY <1>3, <1>5, <1>9, <1>10

\* A write that completes before the relay has started.
LEMMA EarlyWriteCompletes ==
  ASSUME NEW w, NEW s \in Sessions, NEW e, NEW v \in handle_client_write(w, s),
         \/ HandshakeTurn(w, s, e) /\ w.client.m_state = "READING_AUTH_METHODS"
         \/ ConnectTurn(w, s, e)
  PROVE  Turned(v, s, e)
<1>1. v \in {write_to_client(w, s)} \cup write_completed(w, s)
  BY DEF handle_client_write, HandshakeTurn, ConnectTurn, ReadingState
<1>2. CASE HandshakeTurn(w, s, e) /\ w.client.m_state = "READING_AUTH_METHODS"
  <2>1. v \in {write_to_client(w, s)} \cup to_client_connection_request(w, s)
    BY <1>1, <1>2 DEF write_completed
  <2> QED
    BY <1>2, <2>1, HandshakeAnswers, ToClientConnectionRequestTurns
<1>3. CASE ConnectTurn(w, s, e)
  <2>1. v \in {write_to_client(w, s)} \cup start_proxying(w, s)
    BY <1>1, <1>3 DEF write_completed, ConnectTurn
  <2> QED
    BY <1>3, <2>1, ConnectAnswers, StartProxyingTurns
<1> QED
  BY <1>2, <1>3

-----------------------------------------------------------------------------
(***************************************************************************)
(* The EventPool holds 4 * NConnections Events and at most half of them    *)
(* are in flight: obtain_event always finds two.                           *)
(***************************************************************************)

Busy == {e \in EventId : InFlight(e)}

LEMMA InFlightFacts ==
  ASSUME IInv, NEW e \in EventId, InFlight(e)
  PROVE  /\ m_events[e] \in Event
         /\ Client(e) \in Live
         /\ session[Client(e)] \in Session
         /\ m_events[e] = [client |-> Client(e), type |-> m_events[e].type]
         /\ m_events[e].type \in Requested(m_events, Client(e))
         /\ Fits(session[Client(e)], Requested(m_events, Client(e)))
<1>1. m_events[e] \in Event
  BY DEF IInv, TypeOK, InFlight
<1>2. Client(e) \in Live
  BY DEF IInv, NoUseAfterFree
<1>3. session[Client(e)] \in Session
  BY <1>2 DEF IInv, TypeOK, Live
<1>4. m_events[e] = [client |-> Client(e), type |-> m_events[e].type]
  BY <1>1 DEF Event, Client
<1>5. m_events[e].type \in Requested(m_events, Client(e))
  BY <1>1, <1>4 DEF Requested, Event
<1> QED
  BY <1>1, <1>2, <1>3, <1>4, <1>5 DEF IInv, RequestsFitSessions

\* Two requests of a session that fits go in different directions.
LEMMA FittingDirections ==
  ASSUME NEW c, NEW R, Fits(c, R), NEW t \in R, NEW u \in R,
         Direction(t) = Direction(u)
  PROVE  t = u
<1>1. CASE \E d \in ToDestination, r \in ToClient : R = {d, r}
  <2>1. PICK d \in ToDestination, r \in ToClient : R = {d, r}
    BY <1>1
  <2>2. Direction(d) = "to_destination" /\ Direction(r) = "to_client"
    BY DEF Direction, FromClient, ToDestination, ToClient
  <2> QED
    BY <2>1, <2>2
<1>2. CASE R = {} \/ \E x : R = {x}
  BY <1>2
<1>3. (\E d \in ToDestination, r \in ToClient : R = {d, r}) \/ R = {} \/ \E x : R = {x}
  BY DEF Fits, Handshaking, Rejected, Connecting, Proxying, Draining
<1> QED
  BY <1>1, <1>2, <1>3

LEMMA OneRequestPerDirectionFollows ==
  ASSUME IInv
  PROVE  OneRequestPerDirection
<1> SUFFICES ASSUME NEW s \in Live, NEW e \in Outstanding(s), NEW f \in Outstanding(s),
                    Direction(m_events[e].type) = Direction(m_events[f].type)
             PROVE  e = f
  BY DEF OneRequestPerDirection
<1>1. /\ e \in EventId /\ InFlight(e) /\ Client(e) = s
      /\ f \in EventId /\ InFlight(f) /\ Client(f) = s
  BY DEF Outstanding
<1>2. m_events[e].type = m_events[f].type
  BY <1>1, InFlightFacts, FittingDirections
<1>3. m_events[e] = m_events[f]
  BY <1>1, <1>2, InFlightFacts
<1> QED
  BY <1>1, <1>3 DEF IInv, RequestsFitSessions, Distinct, InFlight

LEMMA HalfTheEventsSuffice ==
  ASSUME IInv
  PROVE  /\ IsFiniteSet(Busy)
         /\ Cardinality(Busy) <= 2 * NConnections
<1> DEFINE Way == {"to_destination", "to_client"}
           T == BufferIndex \X Way
           f == [e \in Busy |-> <<session[Client(e)].m_buffer_index,
                                  Direction(m_events[e].type)>>]
<1>1. \A e \in Busy : session[Client(e)].m_buffer_index \in BufferIndex
  BY InFlightFacts DEF Busy, Session
<1>2. f \in [Busy -> T]
  BY <1>1 DEF Direction
<1>3. \A d, e \in Busy : f[d] = f[e] => d = e
  <2> SUFFICES ASSUME NEW d \in Busy, NEW e \in Busy, f[d] = f[e]
               PROVE  d = e
    OBVIOUS
  <2>1. /\ session[Client(d)].m_buffer_index = session[Client(e)].m_buffer_index
        /\ Direction(m_events[d].type) = Direction(m_events[e].type)
    OBVIOUS
  <2>2. Client(d) = Client(e)
    BY <2>1, InFlightFacts DEF Busy, IInv, PoolsBalance
  <2> QED
    BY <2>1, <2>2, InFlightFacts, OneRequestPerDirectionFollows
       DEF OneRequestPerDirection, Outstanding, Busy
<1>4. f \in Injection(Busy, T)
  BY <1>2, <1>3 DEF Injection, IsInjective
<1>5. IsFiniteSet(BufferIndex) /\ Cardinality(BufferIndex) = NConnections
  BY FS_Interval, NConnectionsAssumption DEF BufferIndex
<1>6. IsFiniteSet(Way) /\ Cardinality(Way) = 2
  <2> DEFINE One == {"to_destination"}
  <2>1. IsFiniteSet(One) /\ Cardinality(One) = 1
    BY FS_Singleton
  <2>2. Way = One \cup {"to_client"} /\ "to_client" \notin One
    OBVIOUS
  <2> HIDE DEF One, Way
  <2> QED
    BY <2>1, <2>2, FS_AddElement
<1> HIDE DEF f, Way
<1>7. IsFiniteSet(T) /\ Cardinality(T) = NConnections * 2
  BY <1>5, <1>6, FS_Product
<1> HIDE DEF T
<1>8. IsFiniteSet(Busy) /\ Cardinality(Busy) <= Cardinality(T)
  BY <1>4, <1>7, FS_Injection
<1> QED
  BY <1>7, <1>8, NConnectionsAssumption

LEMMA TwoEventsAreFree ==
  ASSUME IInv
  PROVE  \E x, y \in free_events : x # y
<1>1. IsFiniteSet(EventId) /\ Cardinality(EventId) = 4 * NConnections
  BY FS_Interval, NConnectionsAssumption DEF EventId
<1>2. free_events = EventId \ Busy /\ EventId \cap Busy = Busy
  BY DEF IInv, PoolsBalance, Busy
<1>3. IsFiniteSet(free_events)
        /\ Cardinality(free_events) = 4 * NConnections - Cardinality(Busy)
  BY <1>1, <1>2, FS_Difference
<1>4. Cardinality(Busy) \in Nat
  BY HalfTheEventsSuffice, FS_CardinalityType
<1>5. Cardinality(free_events) >= 2
  BY <1>3, <1>4, HalfTheEventsSuffice, NConnectionsAssumption
<1>6. PICK x \in free_events : TRUE
  BY <1>3, <1>5, FS_EmptySet
<1>7. /\ IsFiniteSet(free_events \ {x})
      /\ Cardinality(free_events \ {x}) = Cardinality(free_events) - 1
  BY <1>3, <1>6, FS_RemoveElement
<1>8. Cardinality(free_events \ {x}) # 0
  BY <1>3, <1>4, <1>5, <1>7, NConnectionsAssumption
<1>9. free_events \ {x} # {}
  BY <1>8, FS_EmptySet
<1> QED
  BY <1>6, <1>9

-----------------------------------------------------------------------------
(***************************************************************************)
(* A turn: it starts with Reap and ends with Commit.                       *)
(***************************************************************************)

LEMMA ReapStartsTurn ==
  ASSUME IInv, server = "running", NEW e \in EventId, InFlight(e)
  PROVE  LET w == Reap(e)
             c == session[Client(e)]
         IN  /\ InTurn(w, Client(e), e)
             /\ w.server = "running"
             /\ Left2(w)
             /\ w.client = [c EXCEPT !.awaiting_events_count = @ - 1]
             /\ Requested(w.events, Client(e)) =
                  Requested(m_events, Client(e)) \ {m_events[e].type}
<1> DEFINE s == Client(e)
           c == [session[s] EXCEPT !.awaiting_events_count = @ - 1]
           evs == [m_events EXCEPT ![e] = NULL]
           w == Reap(e)
<1>1. /\ w.client = c /\ w.events = evs /\ w.free = free_events
      /\ w.buffers = free_buffers /\ w.server = "running"
  BY DEF Reap, Work
<1>2. /\ m_events \in [EventId -> Event \cup {NULL}]
      /\ s \in Live /\ session[s] \in Session
      /\ m_events[e] \in Event
      /\ m_events[e] = [client |-> s, type |-> m_events[e].type]
      /\ Fits(session[s], Requested(m_events, s))
  BY InFlightFacts DEF IInv, TypeOK
<1>3. session[s].awaiting_events_count \in {1, 2}
  BY <1>2 DEF Fits, Handshaking, Rejected, Connecting, Proxying, Draining
<1>4. c \in Session /\ c.m_buffer_index = session[s].m_buffer_index
  BY <1>2, <1>3 DEF Session
<1>5. evs \in [EventId -> Event \cup {NULL}] /\ evs[e] = NULL
        /\ \A x \in EventId : x # e => evs[x] = m_events[x]
  BY <1>2
<1>6. w \in WorkState
  <2> HIDE DEF c, evs
  <2>1. w = [client |-> c, events |-> evs, free |-> free_events,
             buffers |-> free_buffers, server |-> "running"]
    BY DEF Reap, Work, c, evs, s
  <2> QED
    BY <1>4, <1>5, <2>1 DEF IInv, TypeOK, WorkState
<1>7. free_events = {x \in EventId : evs[x] = NULL /\ x # e}
  BY <1>5 DEF IInv, PoolsBalance, InFlight
<1>8. Distinct(evs)
  BY <1>5 DEF IInv, RequestsFitSessions, Distinct
<1>9. OthersKept(evs, s)
  BY <1>5 DEF OthersKept, Client
<1>10. Left2(w)
  BY <1>1, TwoEventsAreFree DEF Left2
<1>11. Requested(evs, s) = Requested(m_events, s) \ {m_events[e].type}
  <2>1. \A x \in EventId : x # e => m_events[x] # m_events[e]
    BY DEF IInv, RequestsFitSessions, Distinct, InFlight
  <2> DEFINE P(f, t) == \E x \in EventId : f[x] = [client |-> s, type |-> t]
  <2>2. ASSUME NEW t \in EventType
        PROVE  P(evs, t) <=> P(m_events, t) /\ t # m_events[e].type
    <3>1. CASE t = m_events[e].type
      BY <1>2, <1>5, <2>1, <3>1, NullAssumption
    <3>2. CASE t # m_events[e].type
      <4>1. m_events[e] # [client |-> s, type |-> t]
        BY <3>2
      <4>2. evs[e] # [client |-> s, type |-> t]
        BY <1>2, <1>5, NullAssumption DEF Event, s, Client
      <4> QED
        BY <1>5, <3>2, <4>1, <4>2
    <3> QED
      BY <3>1, <3>2
  <2>3. \A t : t \in Requested(evs, s) <=> t \in EventType /\ P(evs, t)
    BY DEF Requested
  <2>4. \A t : t \in Requested(m_events, s) <=> t \in EventType /\ P(m_events, t)
    BY DEF Requested
  <2> HIDE DEF P, evs
  <2> QED
    BY <2>2, <2>3, <2>4
<1> HIDE DEF c, evs, w
<1>12. InTurn(w, s, e)
  BY <1>1, <1>4, <1>5, <1>6, <1>7, <1>8, <1>9 DEF InTurn
<1> QED
  BY <1>1, <1>10, <1>11, <1>12 DEF w, c

\* The other sessions keep their requests.
LEMMA OthersKeepRequests ==
  ASSUME IInv, NEW s, NEW evs \in [EventId -> Event \cup {NULL}],
         OthersKept(evs, s), NEW t \in Sessions, t # s
  PROVE  Requested(evs, t) = Requested(m_events, t)
<1>1. ASSUME NEW x \in EventId, NEW type \in EventType
      PROVE  evs[x] = [client |-> t, type |-> type]
               <=> m_events[x] = [client |-> t, type |-> type]
  <2> DEFINE ev == [client |-> t, type |-> type]
  <2>1. ev # NULL /\ ev.client = t
    BY NullAssumption DEF Event
  <2> HIDE DEF ev
  <2>2. evs[x] = ev <=> m_events[x] = ev
    BY <2>1 DEF OthersKept
  <2> QED
    BY <2>2 DEF ev
<1> QED
  BY <1>1 DEF Requested

\* Giving the Event back changes the pool of Events only.
LEMMA ReturnEventFields ==
  ASSUME NEW v \in WorkState, NEW e \in EventId
  PROVE  LET u == return_event(v, e) IN
         /\ u \in WorkState
         /\ u.client = v.client /\ u.events = v.events /\ u.free = v.free \cup {e}
         /\ u.buffers = v.buffers /\ u.server = v.server
<1> DEFINE free == v.free \cup {e}
<1>1. free \in SUBSET EventId
  BY DEF WorkState
<1>2. return_event(v, e) = [v EXCEPT !.free = free]
  BY DEF return_event
<1> HIDE DEF free
<1>3. LET u == [v EXCEPT !.free = free] IN
      /\ u \in WorkState
      /\ u.client = v.client /\ u.events = v.events /\ u.free = free
      /\ u.buffers = v.buffers /\ u.server = v.server
  BY <1>1 DEF WorkState
<1> QED
  BY <1>2, <1>3 DEF free

\* The three ends of the turn of Event e: the process dies, which takes a
\* session in its handshake; the session goes on; or it is deleted, which takes
\* one that connects or drains.
TurnDies(e) ==
  /\ server' = "segfault"
  /\ session[Client(e)].m_state \in ReadingState
  /\ UNCHANGED <<accept_armed, session, m_events, free_events, free_buffers>>

TurnLeaves(e, v) ==
  LET s == Client(e) IN
  /\ InTurn(v, s, e)
  /\ Fits(v.client, Requested(v.events, s))
  /\ Follows(session[s], v.client)
  /\ session' = [session EXCEPT ![s] = v.client]
  /\ m_events' = v.events
  /\ free_events' = v.free \cup {e}
  /\ free_buffers' = v.buffers
  /\ UNCHANGED <<server, accept_armed>>

TurnDeletes(e, v) ==
  LET s == Client(e) IN
  /\ InTurn(v, s, e)
  /\ Requested(v.events, s) = {}
  /\ \/ Connecting(session[s], Requested(m_events, s))
     \/ Draining(session[s], Requested(m_events, s))
  /\ session' = [session EXCEPT ![s] = NULL]
  /\ m_events' = v.events
  /\ free_events' = v.free \cup {e}
  /\ free_buffers' = free_buffers \cup {session[s].m_buffer_index}
  /\ UNCHANGED <<server, accept_armed>>

TurnEnds(e) ==
  TurnDies(e) \/ (\E v : TurnLeaves(e, v)) \/ (\E v : TurnDeletes(e, v))

LEMMA CommitEndsTurn ==
  ASSUME IInv, server = "running", NEW e \in EventId, InFlight(e),
         NEW v, Turned(v, Client(e), e),
         Commit(return_event(v, e), Client(e))
  PROVE  TurnEnds(e)
<1> DEFINE u == return_event(v, e)
<1>1. v \in WorkState /\ v.server \in {"running", "segfault"}
  BY DEF Turned, InTurn
<1>2. /\ u \in WorkState
      /\ u.client = v.client /\ u.events = v.events /\ u.free = v.free \cup {e}
      /\ u.buffers = v.buffers /\ u.server = v.server
  BY <1>1, ReturnEventFields
<1> HIDE DEF u
<1>3. CASE v.server = "segfault"
  BY <1>2, <1>3 DEF Commit, u, Turned, TurnEnds, TurnDies
<1>4. CASE v.server = "running"
  <2>1. TurnLeaves(e, v)
    BY <1>2, <1>4 DEF Commit, u, Turned, TurnLeaves
  <2> QED
    BY <2>1 DEF TurnEnds
<1> QED
  BY <1>1, <1>3, <1>4

LEMMA DeleteEndsTurn ==
  ASSUME IInv, server = "running", NEW e \in EventId, InFlight(e),
         NEW v, InTurn(v, Client(e), e), v.server = "running",
         Requested(v.events, Client(e)) = {},
         \/ Connecting(session[Client(e)], Requested(m_events, Client(e)))
         \/ Draining(session[Client(e)], Requested(m_events, Client(e))),
         Commit(return_event(delete(v), e), Client(e))
  PROVE  TurnEnds(e)
<1>1. v \in WorkState
  BY DEF InTurn
<1>2. TurnDeletes(e, v)
  BY <1>1 DEF Commit, return_event, delete, WorkState, InTurn, TurnDeletes
<1> QED
  BY <1>2 DEF TurnEnds

\* The process dies: nothing but "server" changes, and no assertion has fired.
LEMMA DeathKeepsInvariant ==
  ASSUME IInv, server' = "segfault",
         UNCHANGED <<accept_armed, session, m_events, free_events, free_buffers>>
  PROVE  IInv'
<1>1. TypeOK' /\ NoAssertionFires'
  BY DEF IInv, TypeOK, NoAssertionFires
<1>2. Live' = Live /\ \A e \in EventId : InFlight(e)' = InFlight(e) /\ Client(e)' = Client(e)
  BY DEF Live, InFlight, Client
<1>3. NoUseAfterFree' /\ PoolsBalance' /\ RequestsFitSessions'
  BY <1>2 DEF IInv, NoUseAfterFree, PoolsBalance, RequestsFitSessions
<1> QED
  BY <1>1, <1>3 DEF IInv

\* A turn that a handler has left in order ends in a state of the invariant.
LEMMA LeavingKeepsInvariant ==
  ASSUME IInv, server = "running", NEW e \in EventId, InFlight(e),
         NEW v, TurnLeaves(e, v)
  PROVE  IInv'
<1> DEFINE s == Client(e)
<1>1. /\ session' = [session EXCEPT ![s] = v.client]
      /\ m_events' = v.events
      /\ free_events' = v.free \cup {e}
      /\ free_buffers' = v.buffers
      /\ UNCHANGED <<server, accept_armed>>
  BY DEF TurnLeaves
<1>2. /\ v \in WorkState /\ InTurn(v, s, e)
      /\ Fits(v.client, Requested(v.events, s))
  BY DEF TurnLeaves, InTurn
<1>3. s \in Live /\ s \in Sessions /\ session \in [Sessions -> Session \cup {NULL}]
  BY InFlightFacts DEF IInv, TypeOK, Live
<1>4. v.client \in Session /\ v.client # NULL
      /\ v.events \in [EventId -> Event \cup {NULL}]
  BY <1>2, NullAssumption DEF WorkState
<1>5. /\ session'[s] = v.client
      /\ \A t \in Sessions : t # s => session'[t] = session[t]
      /\ session' \in [Sessions -> Session \cup {NULL}]
  BY <1>1, <1>3, <1>4
<1>6. Live' = Live
  BY <1>3, <1>4, <1>5 DEF Live
<1>7. \A t \in Live : session'[t].m_buffer_index = session[t].m_buffer_index
  BY <1>2, <1>5 DEF InTurn, Live
<1>8. TypeOK'
  BY <1>1, <1>2, <1>4, <1>5 DEF IInv, TypeOK, WorkState
<1>9. NoAssertionFires'
  BY <1>1 DEF NoAssertionFires
<1>10. NoUseAfterFree'
  BY <1>1, <1>2, <1>3, <1>6
     DEF IInv, NoUseAfterFree, InTurn, OthersKept, InFlight, Client
<1>11. PoolsBalance'
  <2>1. free_events' = {x \in EventId : ~InFlight(x)'}
    BY <1>1, <1>2 DEF InTurn, InFlight
  <2>2. free_buffers' = BufferIndex \ {session'[t].m_buffer_index : t \in Live'}
    BY <1>1, <1>2, <1>6, <1>7 DEF InTurn, IInv, PoolsBalance
  <2>3. \A t, r \in Live' : session'[t].m_buffer_index = session'[r].m_buffer_index
                            => t = r
    BY <1>6, <1>7 DEF IInv, PoolsBalance
  <2> QED
    BY <2>1, <2>2, <2>3 DEF PoolsBalance
<1>12. RequestsFitSessions'
  <2>1. Distinct(m_events)'
    BY <1>1, <1>2 DEF InTurn, Distinct
  <2>2. ASSUME NEW t \in Live PROVE Fits(session'[t], Requested(m_events', t))
    <3>1. CASE t = s
      BY <1>1, <1>2, <1>5, <3>1
    <3>2. CASE t # s
      <4>1. Requested(v.events, t) = Requested(m_events, t)
        BY <1>2, <1>4, <3>2, OthersKeepRequests DEF InTurn, Live
      <4>2. Fits(session[t], Requested(m_events, t)) /\ session'[t] = session[t]
        BY <1>5, <3>2 DEF IInv, RequestsFitSessions, Live
      <4> QED
        BY <1>1, <4>1, <4>2
    <3> QED
      BY <3>1, <3>2
  <2> QED
    BY <1>6, <2>1, <2>2 DEF RequestsFitSessions, Distinct
<1> QED
  BY <1>8, <1>9, <1>10, <1>11, <1>12 DEF IInv

\* Deleting a session that waits for nothing ends in a state of the invariant.
LEMMA DeletingKeepsInvariant ==
  ASSUME IInv, server = "running", NEW e \in EventId, InFlight(e),
         NEW v, TurnDeletes(e, v)
  PROVE  IInv'
<1> DEFINE s == Client(e)
           b == session[s].m_buffer_index
<1>1. v \in WorkState /\ InTurn(v, s, e) /\ Requested(v.events, s) = {}
  BY DEF TurnDeletes, InTurn
<1>2. /\ session' = [session EXCEPT ![s] = NULL]
      /\ m_events' = v.events
      /\ free_events' = v.free \cup {e}
      /\ free_buffers' = free_buffers \cup {b}
      /\ UNCHANGED <<server, accept_armed>>
  BY DEF TurnDeletes
<1>3. /\ s \in Live /\ s \in Sessions /\ session \in [Sessions -> Session \cup {NULL}]
      /\ b \in BufferIndex
  BY InFlightFacts DEF IInv, TypeOK, Live, Session
<1>4. v.events \in [EventId -> Event \cup {NULL}] /\ v.free \subseteq EventId
  BY <1>1 DEF WorkState
<1>5. /\ session'[s] = NULL
      /\ \A t \in Sessions : t # s => session'[t] = session[t]
      /\ session' \in [Sessions -> Session \cup {NULL}]
  BY <1>2, <1>3
<1>6. Live' = Live \ {s}
  BY <1>5 DEF Live
<1>7. \A x \in EventId : v.events[x] # NULL => v.events[x].client # s
  <2> SUFFICES ASSUME NEW x \in EventId, v.events[x] # NULL, v.events[x].client = s
               PROVE  FALSE
    OBVIOUS
  <2>1. v.events[x] \in Event
    BY <1>4
  <2>2. v.events[x] = [client |-> s, type |-> v.events[x].type]
          /\ v.events[x].type \in EventType
    BY <2>1 DEF Event
  <2> QED
    BY <1>1, <2>2 DEF Requested
<1>8. TypeOK'
  BY <1>2, <1>3, <1>4, <1>5 DEF IInv, TypeOK
<1>9. NoAssertionFires'
  BY <1>2 DEF NoAssertionFires
<1>10. NoUseAfterFree'
  BY <1>1, <1>2, <1>6, <1>7 DEF IInv, NoUseAfterFree, InTurn, OthersKept, InFlight, Client
<1>11. PoolsBalance'
  <2>1. free_events' = {x \in EventId : ~InFlight(x)'}
    BY <1>1, <1>2 DEF InTurn, InFlight
  <2>2. \A t \in Live' : session'[t] = session[t] /\ t \in Live /\ t # s
    BY <1>5, <1>6 DEF Live
  <2>3. free_buffers' = BufferIndex \ {session'[t].m_buffer_index : t \in Live'}
    BY <1>2, <1>3, <1>6, <2>2 DEF IInv, PoolsBalance
  <2>4. \A t, r \in Live' : session'[t].m_buffer_index = session'[r].m_buffer_index
                            => t = r
    BY <2>2 DEF IInv, PoolsBalance
  <2> QED
    BY <2>1, <2>3, <2>4 DEF PoolsBalance
<1>12. RequestsFitSessions'
  <2>1. Distinct(m_events)'
    BY <1>1, <1>2 DEF InTurn, Distinct
  <2>2. ASSUME NEW t \in Live' PROVE Fits(session'[t], Requested(m_events', t))
    <3>1. t \in Sessions /\ t \in Live /\ t # s /\ session'[t] = session[t]
      BY <1>5, <1>6 DEF Live
    <3>2. Requested(v.events, t) = Requested(m_events, t)
      BY <1>1, <1>4, <3>1, OthersKeepRequests DEF InTurn
    <3> QED
      BY <1>2, <3>1, <3>2 DEF IInv, RequestsFitSessions
  <2> QED
    BY <2>1, <2>2 DEF RequestsFitSessions, Distinct
<1> QED
  BY <1>8, <1>9, <1>10, <1>11, <1>12 DEF IInv

\* However a turn ends, the invariant holds again.
LEMMA TurnKeepsInvariant ==
  ASSUME IInv, server = "running", NEW e \in EventId, InFlight(e), TurnEnds(e)
  PROVE  IInv'
  BY DeathKeepsInvariant, LeavingKeepsInvariant, DeletingKeepsInvariant
     DEF TurnEnds, TurnDies

-----------------------------------------------------------------------------
(***************************************************************************)
(* The turns, by what the session was waiting for.                         *)
(***************************************************************************)

\* A session that has not failed gets its turn in one of three situations.
LEMMA HandledTurns ==
  ASSUME IInv, server = "running", NEW e \in EventId, InFlight(e),
         ~session[Client(e)].m_is_failed
  PROVE  LET w == Reap(e)
             s == Client(e)
             t == m_events[e].type
         IN  \/ /\ HandshakeTurn(w, s, e)
                /\ \/ t = "CLIENT_READ"
                   \/ t = "CLIENT_WRITE" /\ w.client.m_state = "READING_AUTH_METHODS"
             \/ /\ ConnectTurn(w, s, e)
                /\ t \in {"DESTINATION_CONNECT", "CLIENT_WRITE"}
             \/ \E r \in ToDestination \cup ToClient :
                  /\ RelayTurn(w, s, e, r)
                  /\ session[s].m_state = "PROXYING_REQUESTS"
                  /\ \/ t \in ToDestination /\ r \in ToClient
                     \/ t \in ToClient /\ r \in ToDestination
<1> DEFINE s == Client(e)
           t == m_events[e].type
           w == Reap(e)
           c == session[s]
           R == Requested(m_events, s)
<1>1. c \in Session /\ t \in R /\ Fits(c, R) /\ ~c.m_is_failed
  BY InFlightFacts
<1>2. /\ InTurn(w, s, e) /\ w.server = "running" /\ Left2(w)
      /\ w.client = [c EXCEPT !.awaiting_events_count = @ - 1]
      /\ Requested(w.events, s) = R \ {t}
  BY ReapStartsTurn
<1> HIDE DEF w, c, R, t, s
<1>3. /\ w.client.m_state = c.m_state
      /\ w.client.m_is_failed = c.m_is_failed
      /\ w.client.m_fd = c.m_fd
      /\ w.client.m_destination_socket = c.m_destination_socket
      /\ w.client.awaiting_events_count = c.awaiting_events_count - 1
  BY <1>1, <1>2 DEF Session
<1>4. Handshaking(c, R) \/ Connecting(c, R) \/ Proxying(c, R)
  BY <1>1 DEF Fits, Rejected, Draining
<1>5. CASE Handshaking(c, R)
  <2>1. HandshakeTurn(w, s, e)
    BY <1>1, <1>2, <1>3, <1>5 DEF Handshaking, HandshakeTurn, c
  <2>2. \/ t = "CLIENT_READ"
        \/ t = "CLIENT_WRITE" /\ w.client.m_state = "READING_AUTH_METHODS"
    BY <1>1, <1>3, <1>5 DEF Handshaking
  <2> QED
    BY <2>1, <2>2 DEF w, s, t
<1>6. CASE Connecting(c, R)
  <2>1. ConnectTurn(w, s, e)
    BY <1>1, <1>2, <1>3, <1>6 DEF Connecting, ConnectTurn, c
  <2>2. t \in {"DESTINATION_CONNECT", "CLIENT_WRITE"}
    BY <1>1, <1>6 DEF Connecting
  <2> QED
    BY <2>1, <2>2 DEF w, s, t
<1>7. CASE Proxying(c, R)
  <2>1. PICK d \in ToDestination, r \in ToClient : R = {d, r}
    BY <1>7 DEF Proxying
  <2>2. d # r
    BY DEF ToDestination, ToClient
  <2>3. Left1(w)
    BY <1>2, TwoLeftOneLeft
  <2>4. CASE t = d
    <3>1. RelayTurn(w, s, e, r)
      BY <1>2, <1>3, <1>7, <2>1, <2>2, <2>3, <2>4 DEF Proxying, RelayTurn, c
    <3> QED
      BY <1>7, <2>4, <3>1 DEF Proxying, w, s, t, c
  <2>5. CASE t = r
    <3>1. RelayTurn(w, s, e, d)
      BY <1>2, <1>3, <1>7, <2>1, <2>2, <2>3, <2>5 DEF Proxying, RelayTurn, c
    <3> QED
      BY <1>7, <2>5, <3>1 DEF Proxying, w, s, t, c
  <2> QED
    BY <1>1, <2>1, <2>4, <2>5
<1> QED
  BY <1>4, <1>5, <1>6, <1>7

\* A handler never leaves a session for delete_if_done to delete: a request is
\* left, or the connect request is still counted.
LEMMA HandledEndsTurn ==
  ASSUME IInv, server = "running", NEW e \in EventId, InFlight(e),
         NEW v, Turned(v, Client(e), e),
         Commit(return_event(delete_if_done(v), e), Client(e))
  PROVE  TurnEnds(e)
<1>1. v \in WorkState /\ v.server \in {"running", "segfault"}
  BY DEF Turned, InTurn
<1>2. CASE v.server = "segfault"
  <2> DEFINE d == delete_if_done(v)
  <2>1. d.server = "segfault"
    BY <1>1, <1>2 DEF delete_if_done, delete, WorkState
  <2>2. return_event(d, e).server = "segfault"
    BY <1>1, <1>2 DEF delete_if_done, delete, return_event, WorkState
  <2>3. /\ server' = "segfault"
        /\ UNCHANGED <<accept_armed, session, m_events, free_events, free_buffers>>
    BY <2>2 DEF Commit
  <2> QED
    BY <1>2, <2>3 DEF Turned, TurnEnds, TurnDies
<1>3. CASE v.server = "running"
  <2>1. Fits(v.client, Requested(v.events, Client(e)))
    BY <1>3 DEF Turned
  <2>2. v.client.awaiting_events_count # 0
    BY <2>1 DEF Fits, Handshaking, Rejected, Connecting, Proxying, Draining
  <2>3. delete_if_done(v) = v
    BY <2>2 DEF delete_if_done
  <2> QED
    BY <2>3, CommitEndsTurn
<1> QED
  BY <1>1, <1>2, <1>3

\* A dispatched event, whatever its type.
LEMMA DispatchedEndsTurn ==
  ASSUME IInv, NEW e \in EventId,
         \/ ClientRead(e) \/ ClientWrite(e) \/ DestinationConnect(e)
         \/ DestinationRead(e) \/ DestinationWrite(e)
  PROVE  TurnEnds(e)
<1> DEFINE w == Reap(e)
           s == Client(e)
<1>1. server = "running" /\ InFlight(e) /\ ~session[s].m_is_failed
  BY DEF ClientRead, ClientWrite, DestinationConnect, DestinationRead, DestinationWrite,
         Dispatched
<1>2. s \in Sessions
  BY <1>1, InFlightFacts DEF Live
<1>3. SUFFICES ASSUME NEW v,
                      \/ /\ m_events[e].type = "CLIENT_READ"
                         /\ v \in handle_client_read(w, s) \cup {fail_immediately(w)}
                      \/ /\ m_events[e].type = "CLIENT_WRITE"
                         /\ v \in handle_client_write(w, s)
                      \/ /\ m_events[e].type = "DESTINATION_CONNECT"
                         /\ v \in handle_destination_connect(w, s)
                      \/ /\ m_events[e].type = "DESTINATION_READ"
                         /\ v \in handle_destination_read(w, s) \cup {fail_immediately(w)}
                      \/ /\ m_events[e].type = "DESTINATION_WRITE"
                         /\ v \in handle_destination_write(w, s)
               PROVE  Turned(v, s, e)
  <2> HIDE DEF w, s
  <2>1. PICK v :
          /\ Commit(return_event(delete_if_done(v), e), s)
          /\ \/ /\ m_events[e].type = "CLIENT_READ"
                /\ v \in handle_client_read(w, s) \cup {fail_immediately(w)}
             \/ /\ m_events[e].type = "CLIENT_WRITE"
                /\ v \in handle_client_write(w, s)
             \/ /\ m_events[e].type = "DESTINATION_CONNECT"
                /\ v \in handle_destination_connect(w, s)
             \/ /\ m_events[e].type = "DESTINATION_READ"
                /\ v \in handle_destination_read(w, s) \cup {fail_immediately(w)}
             \/ /\ m_events[e].type = "DESTINATION_WRITE"
                /\ v \in handle_destination_write(w, s)
    BY DEF ClientRead, ClientWrite, DestinationConnect, DestinationRead, DestinationWrite,
           Dispatched, Handled, w, s
  <2> QED
    BY <1>1, <2>1, HandledEndsTurn DEF s
<1>4. CASE HandshakeTurn(w, s, e) /\ m_events[e].type = "CLIENT_READ"
  <2>1. v \in handle_client_read(w, s) \cup {fail_immediately(w)}
    BY <1>3, <1>4
  <2> HIDE DEF w, s
  <2> QED
    BY <1>2, <1>4, <2>1, HandshakeReadCompletes
<1>5. CASE \/ HandshakeTurn(w, s, e) /\ w.client.m_state = "READING_AUTH_METHODS"
           \/ ConnectTurn(w, s, e)
  <2> HIDE DEF w, s
  <2>1. CASE m_events[e].type = "CLIENT_WRITE"
    <3>1. v \in handle_client_write(w, s)
      BY <1>3, <2>1
    <3> QED
      BY <1>2, <1>5, <3>1, EarlyWriteCompletes
  <2>2. CASE m_events[e].type = "DESTINATION_CONNECT" /\ ConnectTurn(w, s, e)
    <3>1. v \in handle_destination_connect(w, s)
      BY <1>3, <2>2
    <3>2. v = write_to_client(w, s)
      BY <2>2, <3>1 DEF handle_destination_connect, ConnectTurn
    <3> QED
      BY <1>2, <2>2, <3>2, ConnectAnswers
  <2> QED
    BY <1>1, <1>4, <1>5, <2>1, <2>2, HandledTurns
       DEF HandshakeTurn, ConnectTurn, RelayTurn, ReadingState, w, s
<1>6. CASE \E r \in ToDestination \cup ToClient :
             /\ RelayTurn(w, s, e, r)
             /\ session[s].m_state = "PROXYING_REQUESTS"
             /\ \/ m_events[e].type \in ToDestination /\ r \in ToClient
                \/ m_events[e].type \in ToClient /\ r \in ToDestination
  <2> HIDE DEF w, s
  <2>1. PICK r \in ToDestination \cup ToClient :
          /\ RelayTurn(w, s, e, r)
          /\ session[s].m_state = "PROXYING_REQUESTS"
          /\ \/ m_events[e].type \in ToDestination /\ r \in ToClient
             \/ m_events[e].type \in ToClient /\ r \in ToDestination
    BY <1>6
  <2>2. \/ r \in ToClient /\ v \in handle_client_read(w, s)
        \/ r \in ToDestination /\ v \in handle_client_write(w, s)
        \/ r \in ToDestination /\ v \in handle_destination_read(w, s)
        \/ r \in ToClient /\ v \in handle_destination_write(w, s)
        \/ v = fail_immediately(w)
    BY <1>3, <2>1 DEF ToDestination, ToClient
  <2> QED
    BY <1>2, <2>1, <2>2, RelayHandlersTurn, RelayFails
<1> QED
  BY <1>1, <1>4, <1>5, <1>6, HandledTurns

\* What Reap leaves of a session, by its kind before.
LEMMA ReapedSession ==
  ASSUME IInv, server = "running", NEW e \in EventId, InFlight(e)
  PROVE  LET w == Reap(e)
             s == Client(e)
             c == session[s]
         IN  /\ w.client.m_state = c.m_state
             /\ w.client.m_is_failed = c.m_is_failed
             /\ w.client.m_fd = c.m_fd
             /\ w.client.m_destination_socket = c.m_destination_socket
             /\ w.client.awaiting_events_count = c.awaiting_events_count - 1
             /\ w.client \in Session
             /\ \/ /\ w.client.awaiting_events_count = 0
                   /\ Requested(w.events, s) = {}
                   /\ \/ Connecting(c, Requested(m_events, s))
                      \/ Draining(c, Requested(m_events, s))
                \/ /\ w.client.awaiting_events_count = 1
                   /\ w.client.m_fd = "open"
                   /\ w.client.m_state \in ReadingState
                   /\ Requested(w.events, s) = {}
                   /\ w.client.m_destination_socket = "none"
                \/ /\ w.client.awaiting_events_count = 1
                   /\ w.client.m_fd = "open"
                   /\ w.client.m_state = "PROXYING_REQUESTS"
                   /\ ~w.client.m_is_failed
                   /\ \E r \in ToDestination \cup ToClient : Requested(w.events, s) = {r}
<1> DEFINE s == Client(e)
           t == m_events[e].type
           w == Reap(e)
           c == session[s]
           R == Requested(m_events, s)
<1>1. c \in Session /\ t \in R /\ Fits(c, R)
  BY InFlightFacts
<1>2. /\ InTurn(w, s, e)
      /\ w.client = [c EXCEPT !.awaiting_events_count = @ - 1]
      /\ Requested(w.events, s) = R \ {t}
  BY ReapStartsTurn
<1> HIDE DEF w, c, R, t, s
<1>3. /\ w.client.m_state = c.m_state
      /\ w.client.m_is_failed = c.m_is_failed
      /\ w.client.m_fd = c.m_fd
      /\ w.client.m_destination_socket = c.m_destination_socket
      /\ w.client.awaiting_events_count = c.awaiting_events_count - 1
      /\ w.client \in Session
  BY <1>1, <1>2 DEF Session, InTurn, WorkState
<1>4. CASE Handshaking(c, R) \/ Rejected(c, R)
  <2>1. /\ w.client.awaiting_events_count = 1 /\ w.client.m_fd = "open"
        /\ w.client.m_state \in ReadingState /\ Requested(w.events, s) = {}
        /\ w.client.m_destination_socket = "none"
    BY <1>1, <1>2, <1>3, <1>4 DEF Handshaking, Rejected
  <2> QED
    BY <1>3, <2>1 DEF w, c, s
<1>5. CASE Connecting(c, R) \/ Draining(c, R)
  <2>1. w.client.awaiting_events_count = 0 /\ Requested(w.events, s) = {}
    BY <1>1, <1>2, <1>3, <1>5 DEF Connecting, Draining
  <2> QED
    BY <1>3, <1>5, <2>1 DEF w, c, s, R
<1>6. CASE Proxying(c, R)
  <2>1. PICK d \in ToDestination, r \in ToClient : R = {d, r}
    BY <1>6 DEF Proxying
  <2>2. d # r
    BY DEF ToDestination, ToClient
  <2>3. \E x \in ToDestination \cup ToClient : Requested(w.events, s) = {x}
    BY <1>1, <1>2, <2>1, <2>2
  <2>4. /\ w.client.awaiting_events_count = 1 /\ w.client.m_fd = "open"
        /\ w.client.m_state = "PROXYING_REQUESTS" /\ ~w.client.m_is_failed
    BY <1>3, <1>6 DEF Proxying
  <2> QED
    BY <1>3, <2>3, <2>4 DEF w, c, s
<1> QED
  BY <1>1, <1>4, <1>5, <1>6 DEF Fits

LEMMA RequestFailedEndsTurn ==
  ASSUME IInv, NEW e \in EventId, RequestFailed(e)
  PROVE  TurnEnds(e)
<1> DEFINE w == Reap(e)
           s == Client(e)
           v == fail_immediately(w)
<1>1. /\ server = "running" /\ InFlight(e)
      /\ Commit(return_event(IF w.client.awaiting_events_count = 0
                               THEN delete(w) ELSE v, e), s)
  BY DEF RequestFailed
<1>2. InTurn(w, s, e) /\ w.server = "running"
  BY <1>1, ReapStartsTurn
<1>3. CASE w.client.awaiting_events_count = 0
  <2>1. /\ Requested(w.events, s) = {}
        /\ \/ Connecting(session[s], Requested(m_events, s))
           \/ Draining(session[s], Requested(m_events, s))
    BY <1>1, <1>3, ReapedSession
  <2>2. Commit(return_event(delete(w), e), s)
    BY <1>1, <1>3
  <2> QED
    BY <1>1, <1>2, <2>1, <2>2, DeleteEndsTurn
<1>4. CASE w.client.awaiting_events_count # 0
  <2>1. /\ w.client.awaiting_events_count = 1
        /\ w.client.m_fd = "open"
        /\ w.client \in Session
        /\ \/ w.client.m_state \in ReadingState /\ Requested(w.events, s) = {}
           \/ /\ w.client.m_state = "PROXYING_REQUESTS"
              /\ \E r \in ToDestination \cup ToClient : Requested(w.events, s) = {r}
    BY <1>1, <1>4, ReapedSession
  <2>2. Commit(return_event(v, e), s)
    BY <1>1, <1>4
  <2>3. Turned(v, s, e)
    <3> HIDE DEF w, s
    <3>1. /\ InTurn(v, s, e)
          /\ v.client = [w.client EXCEPT !.m_is_failed = TRUE,
                                         !.m_destination_socket = "none",
                                         !.m_fd = "closed"]
          /\ v.server = w.server /\ v.events = w.events
      BY <1>2, <2>1, FailImmediatelyKeepsTurn
    <3> HIDE DEF v
    <3>2. /\ v.client.m_state = w.client.m_state /\ v.client.m_is_failed
          /\ v.client.m_destination_socket = "none"
          /\ v.client.awaiting_events_count = 1
      BY <2>1, <3>1 DEF Session
    <3>3. \/ Rejected(v.client, Requested(v.events, s))
          \/ Draining(v.client, Requested(v.events, s))
      BY <2>1, <3>1, <3>2 DEF Rejected, Draining
    <3>4. Follows(session[s], v.client)
      BY <1>1, <2>1, <3>2, ReapedSession DEF Follows, w, s
    <3> QED
      BY <1>2, <3>1, <3>3, <3>4 DEF Turned, Fits
  <2> HIDE DEF v
  <2> QED
    BY <1>1, <2>2, <2>3, CommitEndsTurn
<1> QED
  BY <1>3, <1>4

LEMMA RequestOfFailedSessionEndsTurn ==
  ASSUME IInv, NEW e \in EventId, RequestOfFailedSession(e)
  PROVE  TurnEnds(e)
<1> DEFINE w == Reap(e)
           s == Client(e)
<1>1. /\ server = "running" /\ InFlight(e) /\ session[s].m_is_failed
      /\ Commit(return_event(delete_if_done(w), e), s)
  BY DEF RequestOfFailedSession
<1>2. InTurn(w, s, e) /\ w.server = "running"
  BY <1>1, ReapStartsTurn
<1>3. w.client.m_is_failed
  BY <1>1, ReapedSession
<1>4. CASE w.client.awaiting_events_count = 0
  <2>1. /\ Requested(w.events, s) = {}
        /\ \/ Connecting(session[s], Requested(m_events, s))
           \/ Draining(session[s], Requested(m_events, s))
    BY <1>1, <1>4, ReapedSession
  <2>2. Commit(return_event(delete(w), e), s)
    BY <1>1, <1>3, <1>4 DEF delete_if_done
  <2> QED
    BY <1>1, <1>2, <2>1, <2>2, DeleteEndsTurn
<1>5. CASE w.client.awaiting_events_count # 0
  <2>1. /\ w.client.awaiting_events_count = 1
        /\ w.client.m_state \in ReadingState /\ Requested(w.events, s) = {}
        /\ w.client.m_destination_socket = "none"
    BY <1>1, <1>3, <1>5, ReapedSession
  <2>2. Commit(return_event(w, e), s)
    BY <1>1, <1>5 DEF delete_if_done
  <2>3. Turned(w, s, e)
    <3> HIDE DEF w, s
    <3>1. Rejected(w.client, Requested(w.events, s))
      BY <1>3, <2>1 DEF Rejected
    <3>2. Follows(session[s], w.client)
      BY <1>1, <1>3, <2>1, ReapedSession DEF Follows, w, s
    <3> QED
      BY <1>2, <3>1, <3>2 DEF Turned, Fits
  <2> HIDE DEF w
  <2> QED
    BY <1>1, <2>2, <2>3, CommitEndsTurn
<1> QED
  BY <1>4, <1>5

\* Every completion is a turn that ends in one of the three ways.
LEMMA CompletionEndsTurn ==
  ASSUME IInv, NEW e \in EventId, Completion(e)
  PROVE  server = "running" /\ InFlight(e) /\ TurnEnds(e)
<1>1. server = "running" /\ InFlight(e)
  BY DEF Completion, RequestFailed, RequestOfFailedSession, Dispatched, ClientRead,
         ClientWrite, DestinationConnect, DestinationRead, DestinationWrite
<1>2. TurnEnds(e)
  BY RequestFailedEndsTurn, RequestOfFailedSessionEndsTurn, DispatchedEndsTurn
     DEF Completion
<1> QED
  BY <1>1, <1>2

-----------------------------------------------------------------------------
(***************************************************************************)
(* handle_accept.                                                          *)
(***************************************************************************)

\* A new session c waits for its first bytes with Event x and owns buffer b.
Opens(s, c, x, b) ==
  /\ c \in Session /\ b \in free_buffers /\ x \in free_events
  /\ c.m_state = "READING_CLIENT_GREETING" /\ ~c.m_is_failed /\ c.m_fd = "open"
  /\ c.m_destination_socket = "none" /\ c.awaiting_events_count = 2
  /\ c.m_buffer_index = b
  /\ session' = [session EXCEPT ![s] = c]
  /\ m_events' = [m_events EXCEPT ![x] = [client |-> s, type |-> "CLIENT_READ"]]
  /\ free_events' = free_events \ {x}
  /\ free_buffers' = free_buffers \ {b}
  /\ UNCHANGED <<server, accept_armed>>

LEMMA AcceptOpens ==
  ASSUME IInv, NEW s \in Sessions, AcceptConnection(s)
  PROVE  /\ server = "running" /\ session[s] = NULL
         /\ \E c, x, b : Opens(s, c, x, b)
<1> DEFINE b == CHOOSE x \in free_buffers : TRUE
           n == new_session(b)
           w == Work(n, m_events, free_events, free_buffers \ {b})
           c == [n EXCEPT !.awaiting_events_count = @ + 1]
           u == await(w)
           v == submit(u, s, "CLIENT_READ")
           ev == [client |-> s, type |-> "CLIENT_READ"]
<1>1. /\ server = "running" /\ free_buffers # {} /\ session[s] = NULL
      /\ Commit(v, s)
  BY DEF AcceptConnection, add_client_read_request
<1>2. b \in free_buffers /\ b \in BufferIndex
  BY <1>1 DEF IInv, TypeOK
<1> HIDE DEF b
<1>3. n \in Session
  BY <1>2 DEF new_session, Session, State, ReadingState
<1>4. /\ n.m_state = "READING_CLIENT_GREETING" /\ ~n.m_is_failed /\ n.m_fd = "open"
      /\ n.m_destination_socket = "none" /\ n.awaiting_events_count = 1
      /\ n.m_buffer_index = b
  BY DEF new_session
<1> HIDE DEF n
<1>5. /\ c \in Session
      /\ c.m_state = "READING_CLIENT_GREETING" /\ ~c.m_is_failed /\ c.m_fd = "open"
      /\ c.m_destination_socket = "none" /\ c.awaiting_events_count = 2
      /\ c.m_buffer_index = b
  BY <1>3, <1>4 DEF Session
<1> HIDE DEF c
<1>6. /\ u \in WorkState
      /\ u.client = c /\ u.events = m_events /\ u.free = free_events
      /\ u.buffers = free_buffers \ {b} /\ u.server = "running"
  <2>1. w = [client |-> n, events |-> m_events, free |-> free_events,
             buffers |-> free_buffers \ {b}, server |-> "running"]
    BY <1>1 DEF Work
  <2> HIDE DEF w
  <2>2. u = [w EXCEPT !.client = c]
    BY <2>1 DEF await, c
  <2>3. u = [client |-> c, events |-> m_events, free |-> free_events,
             buffers |-> free_buffers \ {b}, server |-> "running"]
    BY <2>1, <2>2
  <2> HIDE DEF u
  <2> QED
    BY <1>5, <2>3 DEF IInv, TypeOK, WorkState
<1> HIDE DEF u, w
<1>7. Left1(u) /\ "CLIENT_READ" \in EventType
  BY <1>6, TwoEventsAreFree DEF Left1, EventType
<1>8. PICK x \in u.free :
        /\ v \in WorkState
        /\ v.client = u.client
        /\ v.events = [u.events EXCEPT ![x] = ev]
        /\ v.free = u.free \ {x}
        /\ v.buffers = u.buffers
        /\ v.server = u.server
  BY <1>6, <1>7, SubmitTakesOne, ZenonT(60)
<1> HIDE DEF v
<1>9. Opens(s, c, x, b)
  BY <1>1, <1>2, <1>5, <1>6, <1>8 DEF Commit, Opens
<1> QED
  BY <1>1, <1>9

LEMMA AcceptKeepsInvariant ==
  ASSUME IInv, NEW s \in Sessions, AcceptConnection(s)
  PROVE  IInv'
<1> DEFINE ev == [client |-> s, type |-> "CLIENT_READ"]
<1>1. session[s] = NULL
  BY AcceptOpens
<1>2. PICK c, x, b : Opens(s, c, x, b)
  BY AcceptOpens
<1>3. /\ c \in Session
      /\ c.m_state = "READING_CLIENT_GREETING" /\ ~c.m_is_failed /\ c.m_fd = "open"
      /\ c.m_destination_socket = "none" /\ c.awaiting_events_count = 2
      /\ c.m_buffer_index = b
  BY <1>2 DEF Opens
<1>4. b \in free_buffers /\ b \in BufferIndex /\ x \in free_events /\ x \in EventId
  BY <1>2 DEF Opens, IInv, TypeOK
<1>5. "CLIENT_READ" \in EventType
  BY DEF EventType
<1>6. /\ session' = [session EXCEPT ![s] = c]
      /\ m_events' = [m_events EXCEPT ![x] = ev]
      /\ free_events' = free_events \ {x}
      /\ free_buffers' = free_buffers \ {b}
      /\ UNCHANGED <<server, accept_armed>>
  BY <1>2 DEF Opens
<1>7. /\ x \in EventId /\ m_events[x] = NULL
      /\ m_events \in [EventId -> Event \cup {NULL}]
      /\ ev \in Event /\ ev # NULL /\ ev.client = s
  BY <1>4, <1>5, NullAssumption DEF IInv, TypeOK, PoolsBalance, InFlight, Event
<1>8. /\ m_events'[x] = ev
      /\ \A y \in EventId : y # x => m_events'[y] = m_events[y]
      /\ m_events' \in [EventId -> Event \cup {NULL}]
  BY <1>6, <1>7
<1>9. /\ session \in [Sessions -> Session \cup {NULL}] /\ c # NULL
      /\ session'[s] = c /\ \A t \in Sessions : t # s => session'[t] = session[t]
      /\ session' \in [Sessions -> Session \cup {NULL}]
  BY <1>3, <1>6, NullAssumption DEF IInv, TypeOK
<1>10. Live' = Live \cup {s} /\ s \notin Live
  BY <1>1, <1>9 DEF Live
<1>11. \A t \in Live : t \in Sessions /\ t # s /\ session'[t] = session[t]
  BY <1>9, <1>10 DEF Live
<1>12. \A y \in EventId : m_events[y] # NULL => m_events[y].client # s
  BY <1>10 DEF IInv, NoUseAfterFree, InFlight, Client
<1> HIDE DEF ev
<1>13. TypeOK'
  BY <1>6, <1>8, <1>9 DEF IInv, TypeOK
<1>14. NoAssertionFires'
  BY <1>6 DEF IInv, NoAssertionFires
<1>15. NoUseAfterFree'
  BY <1>7, <1>8, <1>10 DEF IInv, NoUseAfterFree, InFlight, Client
<1>16. PoolsBalance'
  <2>1. free_events' = {y \in EventId : ~InFlight(y)'}
    BY <1>6, <1>7, <1>8 DEF IInv, PoolsBalance, InFlight
  <2>2. free_buffers' = BufferIndex \ {session'[t].m_buffer_index : t \in Live'}
    BY <1>4, <1>3, <1>6, <1>9, <1>10, <1>11 DEF IInv, PoolsBalance
  <2>3. \A t \in Live : session'[t].m_buffer_index # b
    BY <1>4, <1>11 DEF IInv, PoolsBalance
  <2>4. \A t, r \in Live' : session'[t].m_buffer_index = session'[r].m_buffer_index
                            => t = r
    BY <1>3, <1>9, <1>10, <1>11, <2>3 DEF IInv, PoolsBalance
  <2> QED
    BY <2>1, <2>2, <2>4 DEF PoolsBalance
<1>17. RequestsFitSessions'
  <2>1. \A y \in EventId : m_events[y] # ev
    BY <1>7, <1>12
  <2>2. Distinct(m_events')
    BY <1>8, <2>1 DEF IInv, RequestsFitSessions, Distinct
  <2>3. Requested(m_events', s) = {"CLIENT_READ"}
    <3>1. "CLIENT_READ" \in Requested(m_events', s)
      BY <1>5, <1>7, <1>8 DEF Requested, ev
    <3>2. ASSUME NEW t \in Requested(m_events', s) PROVE t = "CLIENT_READ"
      <4> DEFINE er == [client |-> s, type |-> t]
      <4>1. PICK y \in EventId : m_events'[y] = er
        BY DEF Requested
      <4>2. er.client = s /\ er.type = t
        OBVIOUS
      <4>3. t \in EventType
        BY DEF Requested
      <4>4. er # NULL
        BY <4>3, NullAssumption DEF Event
      <4> HIDE DEF er
      <4>5. m_events'[y] = ev
        BY <1>8, <1>12, <4>1, <4>2, <4>4
      <4> QED
        BY <4>1, <4>2, <4>5 DEF ev
    <3> QED
      BY <3>1, <3>2
  <2>4. Fits(session'[s], Requested(m_events', s))
    BY <1>3, <1>9, <2>3 DEF Fits, Handshaking, ReadingState
  <2>5. ASSUME NEW t \in Live PROVE Fits(session'[t], Requested(m_events', t))
    <3>1. OthersKept(m_events', s)
      BY <1>7, <1>8 DEF OthersKept
    <3>2. Requested(m_events', t) = Requested(m_events, t)
      BY <1>8, <1>11, <3>1, OthersKeepRequests
    <3> QED
      BY <1>11, <3>2 DEF IInv, RequestsFitSessions
  <2>6. \A t \in Live' : Fits(session'[t], Requested(m_events', t))
    BY <1>10, <2>4, <2>5
  <2> QED
    BY <2>2, <2>6 DEF RequestsFitSessions, Distinct
<1> QED
  BY <1>13, <1>14, <1>15, <1>16, <1>17 DEF IInv

-----------------------------------------------------------------------------
(***************************************************************************)
(* The invariant.                                                          *)
(***************************************************************************)

LEMMA InitEstablishesInvariant == Init => IInv
<1> SUFFICES ASSUME Init PROVE IInv
  OBVIOUS
<1>1. TypeOK /\ NoAssertionFires
  BY DEF Init, TypeOK, NoAssertionFires
<1>2. Live = {} /\ \A e \in EventId : ~InFlight(e)
  BY DEF Init, Live, InFlight
<1>3. NoUseAfterFree
  BY <1>2 DEF NoUseAfterFree
<1>4. PoolsBalance
  BY <1>2 DEF Init, PoolsBalance
<1>5. RequestsFitSessions
  BY <1>2 DEF Init, RequestsFitSessions, Distinct
<1> QED
  BY <1>1, <1>3, <1>4, <1>5 DEF IInv

LEMMA AcceptArmedIsFree ==
  ASSUME IInv, accept_armed' \in BOOLEAN,
         UNCHANGED <<server, session, m_events, free_events, free_buffers>>
  PROVE  IInv'
<1>1. TypeOK' /\ NoAssertionFires'
  BY DEF IInv, TypeOK, NoAssertionFires
<1>2. Live' = Live /\ \A e \in EventId : InFlight(e)' = InFlight(e) /\ Client(e)' = Client(e)
  BY DEF Live, InFlight, Client
<1>3. NoUseAfterFree' /\ PoolsBalance' /\ RequestsFitSessions'
  BY <1>2 DEF IInv, NoUseAfterFree, PoolsBalance, RequestsFitSessions
<1> QED
  BY <1>1, <1>3 DEF IInv

LEMMA StepKeepsInvariant == IInv /\ [Next]_vars => IInv'
<1> SUFFICES ASSUME IInv, [Next]_vars PROVE IInv'
  OBVIOUS
<1>1. ASSUME NEW s \in Sessions, AcceptConnection(s) PROVE IInv'
  BY <1>1, AcceptKeepsInvariant
<1>2. CASE AcceptRefused
  BY <1>2, AcceptArmedIsFree DEF AcceptRefused, vars, IInv, TypeOK
<1>3. CASE AcceptFailed
  BY <1>3, AcceptArmedIsFree DEF AcceptFailed
<1>4. ASSUME NEW e \in EventId, Completion(e) PROVE IInv'
  BY <1>4, CompletionEndsTurn, TurnKeepsInvariant
<1>5. CASE UNCHANGED vars
  BY <1>5, AcceptArmedIsFree DEF vars, IInv, TypeOK
<1> QED
  BY <1>1, <1>2, <1>3, <1>4, <1>5 DEF Next

\* In every reachable state the requests in flight fit the sessions that wait
\* for them, the pools balance, every Event points to a live session, and no
\* assertion has fired.
THEOREM InvariantHolds == Spec => []IInv
<1>1. Init => IInv
  BY InitEstablishesInvariant
<1>2. IInv /\ [Next]_vars => IInv'
  BY StepKeepsInvariant
<1> QED
  BY <1>1, <1>2, PTL DEF Spec

-----------------------------------------------------------------------------
(***************************************************************************)
(* What follows from the invariant.                                        *)
(***************************************************************************)

\* The Events a session waits for are as many as the types it waits for.
LEMMA OutstandingCounts ==
  ASSUME IInv, NEW s \in Live
  PROVE  /\ Requested(m_events, s) = {} => Outstanding(s) = {}
         /\ \A t : Requested(m_events, s) = {t} => Cardinality(Outstanding(s)) = 1
         /\ \A t, u : t # u /\ Requested(m_events, s) = {t, u}
              => Cardinality(Outstanding(s)) = 2
<1>1. \A e \in Outstanding(s) :
        /\ e \in EventId
        /\ m_events[e].type \in Requested(m_events, s)
        /\ m_events[e] = [client |-> s, type |-> m_events[e].type]
  BY InFlightFacts DEF Outstanding
<1>2. ASSUME NEW t \in Requested(m_events, s)
      PROVE  \E e \in Outstanding(s) :
               /\ m_events[e] = [client |-> s, type |-> t]
               /\ m_events[e].type = t
  <2>1. PICK e \in EventId : m_events[e] = [client |-> s, type |-> t]
    BY DEF Requested
  <2>2. [client |-> s, type |-> t] \in Event
    BY DEF Requested, Event, Live
  <2> QED
    BY <2>1, <2>2, NullAssumption DEF Outstanding, InFlight, Client
<1>3. \A e, f \in Outstanding(s) : m_events[e] = m_events[f] => e = f
  BY DEF Outstanding, InFlight, IInv, RequestsFitSessions, Distinct
<1>4. Requested(m_events, s) = {} => Outstanding(s) = {}
  BY <1>1
<1>5. ASSUME NEW t, Requested(m_events, s) = {t}
      PROVE  Cardinality(Outstanding(s)) = 1
  <2>1. PICK e \in Outstanding(s) : m_events[e] = [client |-> s, type |-> t]
    BY <1>2, <1>5
  <2>2. Outstanding(s) = {e}
    BY <1>1, <1>3, <1>5, <2>1
  <2> QED
    BY <2>2, FS_Singleton
<1>6. ASSUME NEW t, NEW u, t # u, Requested(m_events, s) = {t, u}
      PROVE  Cardinality(Outstanding(s)) = 2
  <2>1. PICK e \in Outstanding(s) : m_events[e] = [client |-> s, type |-> t]
                                   /\ m_events[e].type = t
    BY <1>2, <1>6
  <2>2. PICK f \in Outstanding(s) : m_events[f] = [client |-> s, type |-> u]
                                   /\ m_events[f].type = u
    BY <1>2, <1>6
  <2>3. e # f
    BY <1>6, <2>1, <2>2
  <2>4. \A x \in Outstanding(s) : x = e \/ x = f
    BY <1>1, <1>3, <1>6, <2>1, <2>2
  <2> DEFINE One == {e}
  <2>5. IsFiniteSet(One) /\ Cardinality(One) = 1
    BY FS_Singleton
  <2>6. Outstanding(s) = One \cup {f} /\ f \notin One
    BY <2>3, <2>4
  <2> HIDE DEF One
  <2> QED
    BY <2>5, <2>6, FS_AddElement
<1> QED
  BY <1>4, <1>5, <1>6

LEMMA CountsFollow ==
  ASSUME IInv
  PROVE  AwaitingCountIsExact /\ NoSessionIsForgotten /\ StrandedOnlyInHandshake
<1> DEFINE N(s) == Cardinality(Outstanding(s))
<1>1. ASSUME NEW s \in Live
      PROVE  /\ session[s].awaiting_events_count =
                  N(s) + IF session[s].m_state \in ReadingState THEN 1 ELSE 0
             /\ ~session[s].m_is_failed =>
                  N(s) = IF session[s].m_state = "PROXYING_REQUESTS" THEN 2 ELSE 1
             /\ Outstanding(s) = {} =>
                  session[s].m_is_failed /\ session[s].m_state \in ReadingState
  <2> DEFINE c == session[s]
             R == Requested(m_events, s)
  <2>1. Fits(c, R)
    BY DEF IInv, RequestsFitSessions
  <2>2. /\ R = {} => Outstanding(s) = {}
        /\ \A t : R = {t} => N(s) = 1
        /\ \A t, u : t # u /\ R = {t, u} => N(s) = 2
        /\ Outstanding(s) = {} => N(s) = 0
    BY OutstandingCounts, FS_EmptySet
  <2> HIDE DEF N, c, R
  <2>3. CASE Handshaking(c, R)
    <3>1. N(s) = 1
      BY <2>2, <2>3 DEF Handshaking
    <3>2. /\ c.m_state \in ReadingState /\ c.m_state # "PROXYING_REQUESTS"
          /\ c.awaiting_events_count = 2 /\ Outstanding(s) # {}
      BY <2>2, <2>3, <3>1 DEF Handshaking, ReadingState
    <3> QED
      BY <3>1, <3>2 DEF c
  <2>4. CASE Rejected(c, R)
    BY <2>2, <2>4 DEF Rejected, ReadingState, c
  <2>5. CASE Connecting(c, R)
    <3>1. N(s) = 1
      BY <2>2, <2>5 DEF Connecting
    <3>2. /\ c.m_state = "CONNECTING_TO_DESTINATION" /\ c.awaiting_events_count = 1
          /\ c.m_state \notin ReadingState
      BY <2>5 DEF Connecting, ReadingState
    <3> QED
      BY <2>2, <3>1, <3>2 DEF c
  <2>6. CASE Proxying(c, R)
    <3>1. N(s) = 2
      <4>1. PICK d \in ToDestination, r \in ToClient : R = {d, r}
        BY <2>6 DEF Proxying
      <4>2. d # r
        BY DEF ToDestination, ToClient
      <4> QED
        BY <2>2, <4>1, <4>2
    <3> QED
      BY <2>2, <2>6, <3>1 DEF Proxying, ReadingState, c
  <2>7. CASE Draining(c, R)
    <3>1. N(s) = 1
      BY <2>2, <2>7 DEF Draining
    <3> QED
      BY <2>2, <2>7, <3>1 DEF Draining, ReadingState, c
  <2> QED
    BY <2>1, <2>3, <2>4, <2>5, <2>6, <2>7 DEF Fits
<1> QED
  BY <1>1 DEF AwaitingCountIsExact, NoSessionIsForgotten, StrandedOnlyInHandshake

\* The variables of a thread always hold values of their C++ types; in
\* particular awaiting_events_count is never decremented below zero.
THEOREM TypeCorrect == Spec => []TypeOK
<1>1. IInv => TypeOK
  BY DEF IInv
<1> QED
  BY <1>1, InvariantHolds, PTL

\* event_loop never touches a Session it has deleted: every Event in flight
\* points to a live one.
THEOREM NoUseAfterFreeHolds == Spec => []NoUseAfterFree
<1>1. IInv => NoUseAfterFree
  BY DEF IInv
<1> QED
  BY <1>1, InvariantHolds, PTL

\* EventPool and BufferPool neither lose an element nor hand one out twice.
THEOREM PoolsBalanceHolds == Spec => []PoolsBalance
<1>1. IInv => PoolsBalance
  BY DEF IInv
<1> QED
  BY <1>1, InvariantHolds, PTL

\* No assertion of server.cpp fires, 4 * NConnections Events are enough for
\* every interleaving, and no descriptor is closed twice.
THEOREM NoAssertionFiresHolds == Spec => []NoAssertionFires
<1>1. IInv => NoAssertionFires
  BY DEF IInv
<1> QED
  BY <1>1, InvariantHolds, PTL

\* The halves of a session's buffer are never used by two requests at once.
THEOREM OneRequestPerDirectionHolds == Spec => []OneRequestPerDirection
<1>1. IInv => OneRequestPerDirection
  BY OneRequestPerDirectionFollows
<1> QED
  BY <1>1, InvariantHolds, PTL

\* awaiting_events_count counts the requests in flight exactly, the connect
\* request in advance: whoever sees it reach zero may delete the session.
THEOREM AwaitingCountIsExactHolds == Spec => []AwaitingCountIsExact
<1>1. IInv => AwaitingCountIsExact
  BY CountsFollow
<1> QED
  BY <1>1, InvariantHolds, PTL

\* A session that has not failed always has the kernel working for it.
THEOREM NoSessionIsForgottenHolds == Spec => []NoSessionIsForgotten
<1>1. IInv => NoSessionIsForgotten
  BY CountsFollow
<1> QED
  BY <1>1, InvariantHolds, PTL

\* The only sessions that are never deleted are those that failed during the
\* handshake.
THEOREM StrandedOnlyInHandshakeHolds == Spec => []StrandedOnlyInHandshake
<1>1. IInv => StrandedOnlyInHandshake
  BY CountsFollow
<1> QED
  BY <1>1, InvariantHolds, PTL

\* The flag, the descriptors and the count of a live session, and the requests
\* the kernel holds for it, always agree: it is in one of five situations.
THEOREM RequestsFitSessionsHolds == Spec => []RequestsFitSessions
<1>1. IInv => RequestsFitSessions
  BY DEF IInv
<1> QED
  BY <1>1, InvariantHolds, PTL

=============================================================================
