-------------------------- MODULE SessionLifecycle --------------------------
(***************************************************************************)
(* What the server promises about its connections, without requests,       *)
(* counts or pools: the phases a connection goes through, in which order,  *)
(* and that never more than Capacity of them exist.                        *)
(*                                                                         *)
(* "stranded" is the end of a connection that failed before its connect    *)
(* request: nothing will ever free it.                                     *)
(***************************************************************************)
EXTENDS Naturals, FiniteSets

CONSTANTS Sessions, Capacity

VARIABLES phase, stopped

Phase ==
  {"free", "handshake", "rejecting", "stranded", "connecting", "relaying", "draining"}

Occupied == {s \in Sessions : phase[s] # "free"}

Move(s, from, to) ==
  /\ ~stopped
  /\ phase[s] = from
  /\ phase' = [phase EXCEPT ![s] = to]
  /\ UNCHANGED stopped

Open(s) == Cardinality(Occupied) < Capacity /\ Move(s, "free", "handshake")

\* The request is granted, refused with an answer, or dropped.
Grant(s) == Move(s, "handshake", "connecting")
Refuse(s) == Move(s, "handshake", "rejecting")
Drop(s) == Move(s, "handshake", "stranded")

\* The answer to a refused request has left, or could not leave.
Answered(s) == Move(s, "rejecting", "stranded")

Relay(s) == Move(s, "connecting", "relaying")
ConnectFailed(s) == Move(s, "connecting", "free")

\* One direction of the relay ends; the other one ends.
HalfClosed(s) == Move(s, "relaying", "draining")
Closed(s) == Move(s, "draining", "free")

Stop == ~stopped /\ stopped' = TRUE /\ UNCHANGED phase

Init == phase = [s \in Sessions |-> "free"] /\ stopped = FALSE

Next ==
  \/ \E s \in Sessions :
       \/ Open(s) \/ Grant(s) \/ Refuse(s) \/ Drop(s) \/ Answered(s)
       \/ Relay(s) \/ ConnectFailed(s) \/ HalfClosed(s) \/ Closed(s)
  \/ Stop

Spec == Init /\ [][Next]_<<phase, stopped>>
=============================================================================
