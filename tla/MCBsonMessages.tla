--------------------------- MODULE MCBsonMessages ---------------------------
(* Model checking of BsonMessages with 3-bit numbers, on both sides of the *)
(* sign bit, and up to two messages with up to two attachments.            *)
EXTENDS BsonMessages

MCTexts == {"", "text"}
MCBuffers == {<<>>, <<7, 0>>}

MCMessages ==
  { [from |-> f, to |-> t, text |-> x, attachments |-> a] :
      f \in {0, 3, 4, 7}, t \in {7}, x \in MCTexts,
      a \in {<<>>} \cup {<<b>> : b \in MCBuffers} \cup {<<b, c>> : b \in MCBuffers, c \in MCBuffers} }

Pair == {m \in MCMessages : m.from \in {3, 4} /\ Len(m.attachments) < 2}

MCVectors ==
  {<<>>} \cup {<<m>> : m \in MCMessages} \cup {<<m, n>> : m \in Pair, n \in Pair}
=============================================================================
