------------------------------ MODULE IoUring ------------------------------
(***************************************************************************)
(* One thread of the SOCKS5 server: an IoUring, the Session objects it     *)
(* owns, its EventPool and BufferPool, and the kernel that completes the   *)
(* submitted requests in any order and with any result.                    *)
(*                                                                         *)
(* The module keeps who waits for what: which requests are in flight, the  *)
(* count a Session keeps of them, and who frees it.  The bytes that        *)
(* travel are abstracted to the choices the handlers make after looking at *)
(* them.  A handler is an operator from the thread's state to the set of   *)
(* states it may leave behind; an action is one turn of event_loop.        *)
(***************************************************************************)
EXTENDS Integers, FiniteSets

CONSTANTS
  NConnections,  \* the nconnections an IoUring is built with
  Sessions,      \* the addresses operator new may give a Session
  NULL           \* no Session at an address, no request in an Event

ASSUME NConnectionsAssumption == NConnections \in Nat \ {0}

ReadingState ==
  {"READING_CLIENT_GREETING", "READING_AUTH_METHODS",
   "READING_CLIENT_CONNECTION_REQUEST", "READING_DOMAIN_NAME_LENGTH",
   "READING_ADDRESS"}

State ==
  ReadingState \cup {"CONNECTING_TO_DESTINATION", "PROXYING_REQUESTS"}

\* CLIENT_ACCEPT is left out: an accept request carries no Event.
EventType ==
  {"CLIENT_READ", "CLIENT_WRITE", "DESTINATION_CONNECT",
   "DESTINATION_READ", "DESTINATION_WRITE"}

EventId == 0 .. (4 * NConnections - 1)

BufferIndex == 0 .. (NConnections - 1)

Event == [client : Sessions, type : EventType]

Session ==
  [m_state               : State,
   m_fd                  : {"open", "closed"},
   m_is_failed           : BOOLEAN,
   m_destination_socket  : {"none", "open"},
   awaiting_events_count : Nat,
   m_buffer_index        : BufferIndex]

ASSUME NullAssumption == NULL \notin Event /\ NULL \notin Session

VARIABLES
  server,        \* "running", or how the process died
  accept_armed,  \* an accept request is with the kernel
  session,       \* the Session at each address, or NULL
  m_events,      \* what each Event in flight holds, or NULL
  free_events,   \* EventPool::m_free_events, as a set
  free_buffers   \* BufferPool::m_free_buffers, as a set

vars == <<server, accept_armed, session, m_events, free_events, free_buffers>>

Init ==
  /\ server = "running"
  /\ accept_armed = TRUE
  /\ session = [s \in Sessions |-> NULL]
  /\ m_events = [e \in EventId |-> NULL]
  /\ free_events = EventId
  /\ free_buffers = BufferIndex

-----------------------------------------------------------------------------
(***************************************************************************)
(* The state a handler works on: its Session ("client"), the Events, the   *)
(* two pools, and whether the process has died on the way.                 *)
(***************************************************************************)

obtain_event(w) == CHOOSE e \in w.free : TRUE

\* Mutant: the Event is not given back.
Mut_return_event(w, e) == w

return_event(w, e) == [w EXCEPT !.free = @ \cup {e}]

\* The common part of the five add_*_request functions: take an Event, point
\* it at the session and submit.  obtain_event asserts that one is left.
submit(w, s, type) ==
  IF w.free = {}
    THEN [w EXCEPT !.server = "aborted"]
    ELSE [w EXCEPT !.events[obtain_event(w)] = [client |-> s, type |-> type],
                   !.free = @ \ {obtain_event(w)}]

await(w) == [w EXCEPT !.client.awaiting_events_count = @ + 1]

\* destination_socket()->fd() on a session that has no destination socket.
dereference_destination(w) ==
  IF w.client.m_destination_socket = "none"
    THEN [w EXCEPT !.server = "segfault"]
    ELSE w

add_client_read_request(w, s) == submit(await(w), s, "CLIENT_READ")

add_client_write_request(w, s) == submit(await(w), s, "CLIENT_WRITE")

\* Mutant: the connect request counts itself like the others.
Mut_add_destination_connect_request(w, s) ==
  submit(dereference_destination(await(w)), s, "DESTINATION_CONNECT")

\* The only request that is not counted when it is added: handle_accept has
\* counted it in advance.
add_destination_connect_request(w, s) ==
  submit(dereference_destination(w), s, "DESTINATION_CONNECT")

add_destination_read_request(w, s) ==
  submit(dereference_destination(await(w)), s, "DESTINATION_READ")

add_destination_write_request(w, s) ==
  submit(dereference_destination(await(w)), s, "DESTINATION_WRITE")

fail_delayed(w) ==
  [w EXCEPT !.client.m_is_failed = TRUE,
            !.client.m_destination_socket = "none"]

\* close(-1) throws, and nothing on the way out of event_loop catches it.
fail_immediately(w) ==
  IF w.client.m_fd = "closed"
    THEN [fail_delayed(w) EXCEPT !.server = "terminated"]
    ELSE [fail_delayed(w) EXCEPT !.client.m_fd = "closed"]

write_to_client(w, s) == add_client_write_request(w, s)

send_fail_message(w, s) == write_to_client(fail_delayed(w), s)

enter(w, state) == [w EXCEPT !.client.m_state = state]

-----------------------------------------------------------------------------
(***************************************************************************)
(* The handshake.  read_some_from_client(n) either has the n bytes already *)
(* and goes on to the next reader at once, or asks the kernel for more, so *)
(* one completion may run through several readers.                         *)
(***************************************************************************)

read_some_from_client(w, s, handled) == {add_client_read_request(w, s)} \cup handled

\* The socket is created; or ::socket fails and translate_errno answers, but
\* the function goes on to connect the socket it does not have; or another
\* exception is answered and the function returns.
connect_destination(w, s) ==
  { add_destination_connect_request(
      enter([w EXCEPT !.client.m_destination_socket = "open"],
            "CONNECTING_TO_DESTINATION"), s),
    add_destination_connect_request(
      enter(send_fail_message(w, s), "CONNECTING_TO_DESTINATION"), s),
    send_fail_message(w, s) }

\* A domain name may also fail to resolve.
read_address(w, s) ==
  connect_destination(w, s) \cup {send_fail_message(w, s)}

to_address(w, s) ==
  LET u == enter(w, "READING_ADDRESS")
  IN  read_some_from_client(u, s, read_address(u, s))

read_domain_name_length(w, s) == to_address(w, s)

to_domain_name_length(w, s) ==
  LET u == enter(w, "READING_DOMAIN_NAME_LENGTH")
  IN  read_some_from_client(u, s, read_domain_name_length(u, s))

read_client_connection_request(w, s) ==
  {send_fail_message(w, s)} \cup to_address(w, s) \cup to_domain_name_length(w, s)

to_client_connection_request(w, s) ==
  LET u == enter(w, "READING_CLIENT_CONNECTION_REQUEST")
  IN  read_some_from_client(u, s, read_client_connection_request(u, s))

\* Both answers are sent; the session that offered no acceptable method is
\* failed first.
read_auth_methods(w, s) ==
  {write_to_client(w, s), write_to_client(fail_delayed(w), s)}

to_auth_methods(w, s) ==
  LET u == enter(w, "READING_AUTH_METHODS")
  IN  read_some_from_client(u, s, read_auth_methods(u, s))

read_client_greeting(w, s) ==
  {fail_immediately(w)} \cup to_auth_methods(w, s)

\* The switches over m_state; a state no case handles is an assert(false).
read_completed(w, s) ==
  CASE w.client.m_state = "READING_CLIENT_GREETING" ->
         read_client_greeting(w, s)
    [] w.client.m_state = "READING_AUTH_METHODS" ->
         read_auth_methods(w, s)
    [] w.client.m_state = "READING_CLIENT_CONNECTION_REQUEST" ->
         read_client_connection_request(w, s)
    [] w.client.m_state = "READING_DOMAIN_NAME_LENGTH" ->
         read_domain_name_length(w, s)
    [] w.client.m_state = "READING_ADDRESS" ->
         read_address(w, s)
    [] OTHER -> {[w EXCEPT !.server = "aborted"]}

\* Mutant: the relay starts in one direction only.
Mut_start_proxying(w, s) ==
  {add_destination_read_request(enter(w, "PROXYING_REQUESTS"), s)}

\* Bytes the client sent ahead of the reply are still in m_read_buffer: then
\* read_from_client calls handle_client_read(0), which writes to the
\* destination instead of reading from the client.
start_proxying(w, s) ==
  LET proxying ==
        add_destination_read_request(enter(w, "PROXYING_REQUESTS"), s)
  IN  {add_client_read_request(proxying, s),
       add_destination_write_request(proxying, s)}

write_completed(w, s) ==
  CASE w.client.m_state = "READING_AUTH_METHODS" ->
         to_client_connection_request(w, s)
    [] w.client.m_state = "CONNECTING_TO_DESTINATION" ->
         start_proxying(w, s)
    [] OTHER -> {[w EXCEPT !.server = "aborted"]}

handle_client_read(w, s) ==
  IF w.client.m_state = "PROXYING_REQUESTS"
    THEN {add_destination_write_request(w, s)}
    ELSE read_some_from_client(w, s, read_completed(w, s))

\* A partial write is continued by another write.
handle_client_write(w, s) ==
  IF w.client.m_state = "PROXYING_REQUESTS"
    THEN {add_destination_read_request(w, s), add_client_write_request(w, s)}
    ELSE {write_to_client(w, s)} \cup write_completed(w, s)

handle_destination_connect(w, s) ==
  IF w.client.m_state = "CONNECTING_TO_DESTINATION"
    THEN {write_to_client(w, s)}
    ELSE {[w EXCEPT !.server = "aborted"]}

\* Mutant: the next read is started before the bytes just read are written.
Mut_handle_destination_read(w, s) ==
  {add_destination_read_request(add_client_write_request(w, s), s)}

handle_destination_read(w, s) == {add_client_write_request(w, s)}

handle_destination_write(w, s) ==
  {add_client_read_request(w, s), add_destination_write_request(w, s)}

-----------------------------------------------------------------------------
(***************************************************************************)
(* event_loop.  Commit ends a turn: what the handler left in w becomes the *)
(* state, unless the process died in it.                                   *)
(***************************************************************************)

Work(client, events, free, buffers) ==
  [client  |-> client, events |-> events, free |-> free, buffers |-> buffers,
   server  |-> server]

Commit(w, s) ==
  IF w.server = "running"
    THEN /\ session' = [session EXCEPT ![s] = w.client]
         /\ m_events' = w.events
         /\ free_events' = w.free
         /\ free_buffers' = w.buffers
         /\ UNCHANGED <<server, accept_armed>>
    ELSE /\ server' = w.server
         /\ UNCHANGED <<accept_armed, session, m_events, free_events, free_buffers>>

\* ~Session closes what is still open and returns the buffer.
delete(w) ==
  [w EXCEPT !.client = NULL, !.buffers = @ \cup {w.client.m_buffer_index}]

\* Mutant: a failed session is deleted whatever is in flight.
Mut_delete_if_done(w) == IF w.client.m_is_failed THEN delete(w) ELSE w

\* Mutant: the last completion does not delete the session.
Mut_never_delete(w) == w

delete_if_done(w) ==
  IF w.client.m_is_failed /\ w.client.awaiting_events_count = 0
    THEN delete(w)
    ELSE w

\* Mutant: the connect request is not counted in advance.
Mut_new_session(buffer) ==
  [m_state               |-> "READING_CLIENT_GREETING",
   m_fd                  |-> "open",
   m_is_failed           |-> FALSE,
   m_destination_socket  |-> "none",
   awaiting_events_count |-> 0,
   m_buffer_index        |-> buffer]

new_session(buffer) ==
  [m_state               |-> "READING_CLIENT_GREETING",
   m_fd                  |-> "open",
   m_is_failed           |-> FALSE,
   m_destination_socket  |-> "none",
   awaiting_events_count |-> 1,
   m_buffer_index        |-> buffer]

\* handle_accept arms the next accept request before anything else.
AcceptConnection(s) ==
  /\ server = "running" /\ accept_armed
  /\ free_buffers # {}
  /\ session[s] = NULL
  /\ LET buffer == CHOOSE b \in free_buffers : TRUE
     IN  Commit(add_client_read_request(
                  Work(new_session(buffer), m_events, free_events,
                       free_buffers \ {buffer}), s), s)

\* "Server capacity exceeded": the new connection is closed again.
AcceptRefused ==
  /\ server = "running" /\ accept_armed
  /\ free_buffers = {}
  /\ UNCHANGED vars

\* A failed accept is logged and not armed again.
AcceptFailed ==
  /\ server = "running" /\ accept_armed
  /\ accept_armed' = FALSE
  /\ UNCHANGED <<server, session, m_events, free_events, free_buffers>>

InFlight(e) == m_events[e] # NULL

Client(e) == m_events[e].client

\* The state after "--event->client->awaiting_events_count".  The Event is
\* read but not returned yet: it is neither in flight nor free.
Reap(e) ==
  Work([session[Client(e)] EXCEPT !.awaiting_events_count = @ - 1],
       [m_events EXCEPT ![e] = NULL], free_events, free_buffers)

RequestFailed(e) ==
  /\ server = "running" /\ InFlight(e)
  /\ LET w == Reap(e)
     IN  Commit(return_event(IF w.client.awaiting_events_count = 0
                               THEN delete(w)
                               ELSE fail_immediately(w), e), Client(e))

RequestOfFailedSession(e) ==
  /\ server = "running" /\ InFlight(e)
  /\ session[Client(e)].m_is_failed
  /\ Commit(return_event(delete_if_done(Reap(e)), e), Client(e))

\* Mutant: is_failed is not asked before the handler is called.
Mut_Dispatched(e, type) ==
  server = "running" /\ InFlight(e) /\ m_events[e].type = type

Dispatched(e, type) ==
  /\ server = "running" /\ InFlight(e)
  /\ ~session[Client(e)].m_is_failed
  /\ m_events[e].type = type

Handled(e, outcomes) ==
  \E w \in outcomes : Commit(return_event(delete_if_done(w), e), Client(e))

\* A read of zero bytes means that the peer has disconnected.
ClientRead(e) ==
  /\ Dispatched(e, "CLIENT_READ")
  /\ Handled(e, handle_client_read(Reap(e), Client(e))
                  \cup {fail_immediately(Reap(e))})

ClientWrite(e) ==
  /\ Dispatched(e, "CLIENT_WRITE")
  /\ Handled(e, handle_client_write(Reap(e), Client(e)))

DestinationConnect(e) ==
  /\ Dispatched(e, "DESTINATION_CONNECT")
  /\ Handled(e, handle_destination_connect(Reap(e), Client(e)))

DestinationRead(e) ==
  /\ Dispatched(e, "DESTINATION_READ")
  /\ Handled(e, handle_destination_read(Reap(e), Client(e))
                  \cup {fail_immediately(Reap(e))})

DestinationWrite(e) ==
  /\ Dispatched(e, "DESTINATION_WRITE")
  /\ Handled(e, handle_destination_write(Reap(e), Client(e)))

Completion(e) ==
  \/ RequestFailed(e)
  \/ RequestOfFailedSession(e)
  \/ ClientRead(e)
  \/ ClientWrite(e)
  \/ DestinationConnect(e)
  \/ DestinationRead(e)
  \/ DestinationWrite(e)

Next ==
  \/ \E s \in Sessions : AcceptConnection(s)
  \/ AcceptRefused
  \/ AcceptFailed
  \/ \E e \in EventId : Completion(e)

Spec == Init /\ [][Next]_vars

\* An assumption on the peers: none of them stays silent, or refuses bytes, for
\* ever, so the kernel completes every request and event_loop, which is always
\* waiting for a completion, takes it.
PeersRespond == \A e \in EventId : WF_vars(Completion(e))

FairSpec == Spec /\ PeersRespond

-----------------------------------------------------------------------------
(***************************************************************************)
(* Properties.                                                             *)
(***************************************************************************)

Live == {s \in Sessions : session[s] # NULL}

Outstanding(s) == {e \in EventId : InFlight(e) /\ Client(e) = s}

FromClient == {"CLIENT_READ", "DESTINATION_CONNECT", "DESTINATION_WRITE"}

Direction(type) == IF type \in FromClient THEN "to_destination" ELSE "to_client"

\* The variables hold values of their C++ types.
TypeOK ==
  /\ server \in {"running", "aborted", "segfault", "terminated"}
  /\ accept_armed \in BOOLEAN
  /\ session \in [Sessions -> Session \cup {NULL}]
  /\ m_events \in [EventId -> Event \cup {NULL}]
  /\ free_events \subseteq EventId
  /\ free_buffers \subseteq BufferIndex

\* The Session* in every Event the kernel still holds points to a live
\* Session: event_loop never touches a session it has deleted.
NoUseAfterFree == \A e \in EventId : InFlight(e) => Client(e) \in Live

\* awaiting_events_count is the number of requests in flight, plus one until
\* the connect request is added: handle_accept counts that one in advance.
AwaitingCountIsExact ==
  \A s \in Live :
    session[s].awaiting_events_count =
      Cardinality(Outstanding(s))
        + IF session[s].m_state \in ReadingState THEN 1 ELSE 0

\* Each half of a session's buffer is used by one request at a time: at most
\* one request carries bytes towards the destination, one towards the client.
OneRequestPerDirection ==
  \A s \in Live : \A e, f \in Outstanding(s) :
    Direction(m_events[e].type) = Direction(m_events[f].type) => e = f

\* No Event and no buffer is lost or handed out twice: an Event is either
\* free or in flight, a buffer is either free or owned by one live session.
PoolsBalance ==
  /\ free_events = {e \in EventId : ~InFlight(e)}
  /\ free_buffers = BufferIndex \ {session[s].m_buffer_index : s \in Live}
  /\ \A s, t \in Live :
       session[s].m_buffer_index = session[t].m_buffer_index => s = t

\* No assertion of server.cpp fires (the EventPool never runs dry, no handler
\* meets a state it does not expect) and no descriptor is closed twice, which
\* would throw out of event_loop.
NoAssertionFires == server \notin {"aborted", "terminated"}

\* A session that has not failed always waits for the kernel, for one request
\* during the handshake and for one in each direction when it proxies, so no
\* connection is forgotten while it is served.
NoSessionIsForgotten ==
  \A s \in Live : ~session[s].m_is_failed =>
    Cardinality(Outstanding(s)) =
      IF session[s].m_state = "PROXYING_REQUESTS" THEN 2 ELSE 1

\* A session that waits for nothing is one that failed before its connect
\* request was added; any other failed session is deleted by the turn of
\* event_loop that takes its last completion.
StrandedOnlyInHandshake ==
  \A s \in Live : Outstanding(s) = {} =>
    session[s].m_is_failed /\ session[s].m_state \in ReadingState

\* A failed session adds no request and never leaves the failed state.
FailedSessionIsQuiet ==
  [][\A s \in Live : session[s].m_is_failed =>
       /\ Outstanding(s)' \subseteq Outstanding(s)
       /\ session'[s] # NULL => session'[s].m_is_failed]_vars

\* Only the turn of a session still in its handshake can take the process
\* down: no request that completes, in whatever order, for a session that
\* connects or relays, failed or not, finds a destination socket gone.
OnlyHandshakesKillTheServer ==
  [][\A e \in EventId : Completion(e) /\ server' # server =>
       session[Client(e)].m_state \in ReadingState]_vars

\* A session that fails while it proxies is deleted in the end, and its buffer
\* goes back to the pool, when its last request completes.
FailedProxyIsDeleted ==
  \A s \in Sessions :
    (/\ session[s] # NULL
     /\ session[s].m_is_failed
     /\ session[s].m_state = "PROXYING_REQUESTS")
      ~> (session[s] = NULL \/ server # "running")

\* What the log line "Server capacity exceeded" says: a connection is turned
\* away only when every buffer serves a connection.  The code disagrees: the
\* stranded sessions keep theirs.
CapacityMeansBusy ==
  free_buffers = {} => \A s \in Live : Outstanding(s) # {}

\* What translate_errno says: a failure to create the destination socket is
\* answered with a SOCKS reply.  The code goes on and dereferences the socket.
SocketErrorIsAnswered == server # "segfault"

-----------------------------------------------------------------------------
(***************************************************************************)
(* The inductive invariant: which requests each kind of session waits for, *)
(* and what its count is.                                                  *)
(***************************************************************************)

\* The types of the requests of session s in the table of Events evs.
Requested(evs, s) ==
  {t \in EventType : \E e \in EventId : evs[e] = [client |-> s, type |-> t]}

\* Two Events in flight differ in the session or in the type.
Distinct(evs) ==
  \A e, f \in EventId : evs[e] # NULL /\ evs[e] = evs[f] => e = f

ToDestination == {"CLIENT_READ", "DESTINATION_WRITE"}
ToClient == {"DESTINATION_READ", "CLIENT_WRITE"}

Handshaking(c, R) ==
  /\ c.m_state \in ReadingState /\ ~c.m_is_failed
  /\ c.m_fd = "open" /\ c.m_destination_socket = "none"
  /\ c.awaiting_events_count = 2
  /\ \/ R = {"CLIENT_READ"}
     \/ R = {"CLIENT_WRITE"} /\ c.m_state = "READING_AUTH_METHODS"

Rejected(c, R) ==
  /\ c.m_state \in ReadingState /\ c.m_is_failed
  /\ c.m_destination_socket = "none"
  /\ \/ R = {} /\ c.awaiting_events_count = 1
     \/ R = {"CLIENT_WRITE"} /\ c.m_fd = "open" /\ c.awaiting_events_count = 2

Connecting(c, R) ==
  /\ c.m_state = "CONNECTING_TO_DESTINATION" /\ ~c.m_is_failed
  /\ c.m_fd = "open" /\ c.m_destination_socket = "open"
  /\ c.awaiting_events_count = 1
  /\ R \in {{"DESTINATION_CONNECT"}, {"CLIENT_WRITE"}}

Proxying(c, R) ==
  /\ c.m_state = "PROXYING_REQUESTS" /\ ~c.m_is_failed
  /\ c.m_fd = "open" /\ c.m_destination_socket = "open"
  /\ c.awaiting_events_count = 2
  /\ \E d \in ToDestination, r \in ToClient : R = {d, r}

Draining(c, R) ==
  /\ c.m_state = "PROXYING_REQUESTS" /\ c.m_is_failed
  /\ c.m_destination_socket = "none"
  /\ c.awaiting_events_count = 1
  /\ \E t \in ToDestination \cup ToClient : R = {t}

Fits(c, R) ==
  Handshaking(c, R) \/ Rejected(c, R) \/ Connecting(c, R) \/ Proxying(c, R)
    \/ Draining(c, R)

\* The count, the flags and the state of a session determine, up to the choices
\* of the peers, the set of requests the kernel holds for it, and no request is
\* there twice.
RequestsFitSessions ==
  /\ Distinct(m_events)
  /\ \A s \in Live : Fits(session[s], Requested(m_events, s))

IInv ==
  /\ TypeOK
  /\ NoAssertionFires
  /\ NoUseAfterFree
  /\ PoolsBalance
  /\ RequestsFitSessions

-----------------------------------------------------------------------------
(***************************************************************************)
(* The refinement mapping onto the phases of SessionLifecycle.             *)
(***************************************************************************)

PhaseAt(c, waiting) ==
  IF c = NULL THEN "free"
  ELSE
    CASE c.m_state \in ReadingState /\ ~c.m_is_failed -> "handshake"
      [] c.m_state \in ReadingState /\ c.m_is_failed ->
           IF waiting = {} THEN "stranded" ELSE "rejecting"
      [] c.m_state = "CONNECTING_TO_DESTINATION" -> "connecting"
      [] c.m_state = "PROXYING_REQUESTS" ->
           IF c.m_is_failed THEN "draining" ELSE "relaying"

PhaseOf(s) == PhaseAt(session[s], Outstanding(s))

Lifecycle ==
  INSTANCE SessionLifecycle WITH
    Capacity <- NConnections,
    phase <- [s \in Sessions |-> PhaseOf(s)],
    stopped <- (server # "running")

\* Every turn of event_loop is one step of one connection's life, and the
\* thread never holds more connections than it was built for.
ImplementsLifecycle == Lifecycle!Spec
=============================================================================
