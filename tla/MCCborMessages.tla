--------------------------- MODULE MCCborMessages ---------------------------
(* Model checking of CborMessages: up to three messages with up to two      *)
(* attachments; two users, so that a swapped pair shows.                    *)
EXTENDS CborMessages

MCMessages ==
  { [from |-> f, to |-> t, text |-> x, attachments |-> a] :
      f \in {1, 2}, t \in {1, 2}, x \in {"", "text"},
      a \in {<<>>, <<"">>, <<"bytes">>, <<"bytes", "">>} }

Short == {m \in MCMessages : m.to = 2 /\ m.text = "text" /\ Len(m.attachments) # 1}

MCVectors ==
  {<<>>} \cup {<<m>> : m \in MCMessages}
    \cup {<<m, n>> : m \in Short, n \in Short}
    \cup {<<m, n, o>> : m \in Short, n \in Short, o \in Short}
=============================================================================
