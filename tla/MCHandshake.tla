---------------------------- MODULE MCHandshake ----------------------------
(* Model checking of Handshake: greetings, requests and what follows them,  *)
(* good, refused and cut short.                                             *)
EXTENDS Handshake

Greetings == {<<5, 1, 0>>, <<5, 4, 1, 2, 3, 0>>, <<5, 1, 2>>, <<4, 1, 0>>, <<5, 0, 0>>}

Address(n) == [i \in 1 .. n |-> i]

Requests ==
  { <<5, 1, 0, IPV4>> \o Address(6),
    <<5, 1, 0, IPV6>> \o Address(18),
    <<5, 1, 0, DOMAIN_NAME, 2>> \o Address(4),
    <<5, 1, 0, DOMAIN_NAME, 0>> \o Address(2),
    <<5, 1, 0, 9>>, <<4, 1, 0, IPV4>>, <<5, 2, 0, IPV4>>, <<5, 1, 7, IPV4>>,
    <<5, 1, 0, IPV4, 1, 2>> }

MCStreams ==
  {g \o r \o p : g \in Greetings, r \in Requests, p \in {<<>>, <<5, 1>>}}
    \cup {<<>>, <<5, 1>>, <<5, 4, 1, 2>>, <<5, 1, 0, 5, 1>>}
=============================================================================
