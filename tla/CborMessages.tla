---------------------------- MODULE CborMessages ----------------------------
(***************************************************************************)
(* A MessageVector written to CBOR and read back, from the items           *)
(* themselves or through a Buffer.  Writing and reading are sequences of   *)
(* calls on named items.                                                   *)
(*                                                                         *)
(* Who owns the items, and what an exception does to them, is in CborItem: *)
(* here an item is the tree of what it holds.                              *)
(***************************************************************************)
EXTENDS Integers, Sequences, SequencesExt

CONSTANT Vectors  \* the MessageVectors that are serialised

VARIABLES
  messages, \* m_messages, a sequence of [from, to, text, attachments]
  items,    \* what each item that was made holds
  buffers,  \* the tokens in each Buffer that was made
  todo,     \* the calls still to be made
  outcome,  \* "running", or how it ended
  got       \* the Messages read back

vars == <<messages, items, buffers, todo, outcome, got>>

-----------------------------------------------------------------------------
(***************************************************************************)
(* The calls of to_cbor_dom, to_cbor_buffer and the constructors that read.*)
(***************************************************************************)

\* An item: its type, what it holds, the size it was built for as an array, and
\* the items pushed into it.
Leaf(type, v) == [type |-> type, holds |-> v, size |-> 0, elements |-> <<>>]
new_definite_array(n) == [type |-> "array", holds |-> 0, size |-> n, elements |-> <<>>]

Build(o, item) == [op |-> "build", object |-> o, item |-> item]

\* Item::array_push throws when the array is full; the result of the
\* cbor_array_push in MessageVector::to_cbor_dom is ignored.
Push(o, other) == [op |-> "push", object |-> o, other |-> other, full |-> "throws"]
PushUnchecked(o, other) == [Push(o, other) EXCEPT !.full = "ignored"]

\* A Buffer of an item, or of the i-th element of one.
Serialise(b, o, i) == [op |-> "serialise", buffer |-> b, object |-> o, index |-> i]
Whole == 0

Load(o, b) == [op |-> "load", object |-> o, buffer |-> b]

\* Message::to_cbor_dom
MessageCalls(m) ==
  <<Build("root", new_definite_array(4)),
    Build("from", Leaf("uint", m.from)),
    Build("to", Leaf("uint", m.to)),
    Build("text", Leaf("string", m.text)),
    Build("attachments", new_definite_array(Len(m.attachments)))>>
    \o FlattenSeq([i \in DOMAIN m.attachments |->
         <<Build("temporary", Leaf("bytestring", m.attachments[i])),
           Push("attachments", "temporary")>>])
    \o <<Push("root", "from"), Push("root", "to"),
         Push("root", "text"), Push("root", "attachments")>>

\* Mutant: the array is built one too small, and nobody looks at the last push.
Mut_VectorCalls(v) ==
  <<Build("vector", new_definite_array(IF v = <<>> THEN 0 ELSE Len(v) - 1))>>
    \o FlattenSeq([i \in DOMAIN v |->
         Append(MessageCalls(v[i]), PushUnchecked("vector", "root"))])

\* MessageVector::to_cbor_dom
VectorCalls(v) ==
  <<Build("vector", new_definite_array(Len(v)))>>
    \o FlattenSeq([i \in DOMAIN v |->
         Append(MessageCalls(v[i]), PushUnchecked("vector", "root"))])

ReadVector == <<[op |-> "read_vector", object |-> "vector"]>>

\* to_cbor_buffer, and MessageVector(const cbor::Buffer&).
ThroughBuffer == <<Serialise("buffer", "vector", Whole), Load("vector", "buffer")>>

\* MessageVector(const cbor::Item&) has no Message constructor for the
\* cbor_item_t* it finds in the array: each element is encoded in a Buffer of
\* its own, and the Message loads an Item from that.
ReadElement(i) ==
  <<Serialise("element", "vector", i), Load("root", "element"),
    [op |-> "read_message", object |-> "root"]>>

-----------------------------------------------------------------------------
(***************************************************************************)
(* libcbor: an encoded array announces the elements it has, whatever it    *)
(* was built for, and they follow it.                                      *)
(***************************************************************************)

RECURSIVE cbor_serialize_alloc(_)
cbor_serialize_alloc(item) ==
  <<[type |-> item.type, holds |-> item.holds, size |-> Len(item.elements)]>>
    \o FlattenSeq([i \in DOMAIN item.elements |-> cbor_serialize_alloc(item.elements[i])])

\* From the last token to the first, an array takes what has been decoded
\* behind it.
cbor_load(tokens) ==
  LET Decode(token, decoded) ==
        <<[type |-> token.type, holds |-> token.holds, size |-> token.size,
           elements |-> SubSeq(decoded, 1, token.size)]>>
          \o SubSeq(decoded, token.size + 1, Len(decoded))
  IN  FoldRight(Decode, tokens, <<>>)[1]

-----------------------------------------------------------------------------
(***************************************************************************)
(* The execution.                                                          *)
(***************************************************************************)

Init ==
  /\ messages \in Vectors
  /\ items = [o \in {} |-> Leaf("none", 0)]
  /\ buffers = [b \in {} |-> <<>>]
  /\ \E through \in {<<>>, ThroughBuffer} : todo = VectorCalls(messages) \o through \o ReadVector
  /\ outcome = "running"
  /\ got = <<>>

Set(f, name, v) == [n \in DOMAIN f \cup {name} |-> IF n = name THEN v ELSE f[n]]

Call(op) ==
  /\ outcome = "running" /\ todo # <<>>
  /\ Head(todo).op = op
  /\ UNCHANGED messages

Return == todo' = Tail(todo) /\ UNCHANGED outcome

End(how) == outcome' = how /\ UNCHANGED todo

build ==
  /\ Call("build")
  /\ items' = Set(items, Head(todo).object, Head(todo).item)
  /\ Return
  /\ UNCHANGED <<buffers, got>>

push ==
  LET call == Head(todo)
      array == items[call.object]
  IN
  /\ Call("push")
  /\ IF Len(array.elements) < array.size
       THEN /\ items' = [items EXCEPT ![call.object].elements = Append(@, items[call.other])]
            /\ Return
       ELSE /\ IF call.full = "throws" THEN End("thrown") ELSE Return
            /\ UNCHANGED items
  /\ UNCHANGED <<buffers, got>>

serialise ==
  LET call == Head(todo)
      item == items[call.object]
  IN
  /\ Call("serialise")
  /\ buffers' = Set(buffers, call.buffer,
                    cbor_serialize_alloc(IF call.index = Whole THEN item
                                         ELSE item.elements[call.index]))
  /\ Return
  /\ UNCHANGED <<items, got>>

load ==
  /\ Call("load")
  /\ items' = Set(items, Head(todo).object, cbor_load(buffers[Head(todo).buffer]))
  /\ Return
  /\ UNCHANGED <<buffers, got>>

Types(item) == [i \in DOMAIN item.elements |-> item.elements[i].type]

Held(item) == [i \in DOMAIN item.elements |-> item.elements[i].holds]

\* The assertions of Message(const cbor::Item&).
message_asserts(item) ==
  /\ item.type = "array"
  /\ Types(item) = <<"uint", "uint", "string", "array">>
  /\ ToSet(Types(item.elements[4])) \subseteq {"bytestring"}

Message(item) ==
  [from        |-> Held(item)[1],
   to          |-> Held(item)[2],
   text        |-> Held(item)[3],
   attachments |-> Held(item.elements[4])]

read_message ==
  LET item == items[Head(todo).object] IN
  /\ Call("read_message")
  /\ IF message_asserts(item)
       THEN Return /\ got' = Append(got, Message(item))
       ELSE End("aborted") /\ UNCHANGED got
  /\ UNCHANGED <<items, buffers>>

\* As many Messages are read as there are elements.
read_vector ==
  LET item == items[Head(todo).object] IN
  /\ Call("read_vector")
  /\ IF item.type = "array"
       THEN /\ todo' = FlattenSeq([i \in DOMAIN item.elements |-> ReadElement(i)]) \o Tail(todo)
            /\ UNCHANGED outcome
       ELSE End("aborted")
  /\ UNCHANGED <<items, buffers, got>>

finish ==
  /\ outcome = "running" /\ todo = <<>>
  /\ End("read")
  /\ UNCHANGED <<messages, items, buffers, got>>

Next ==
  \/ build \/ push \/ serialise \/ load
  \/ read_message \/ read_vector
  \/ finish

Spec == Init /\ [][Next]_vars

-----------------------------------------------------------------------------
(***************************************************************************)
(* Properties.                                                             *)
(***************************************************************************)

\* What the tests say: a vector that is serialised and deserialised, with or
\* without a Buffer between, is equal to itself.  Every array is built for what
\* is pushed into it, so no push throws and none whose result is ignored loses
\* a message, and what is written passes the assertions of the readers.
RoundTrip == outcome # "running" => outcome = "read" /\ got = messages
=============================================================================
