---------------------------- MODULE BsonMessages ----------------------------
(***************************************************************************)
(* A MessageVector written to BSON and read back.  Writing is a sequence   *)
(* of calls on nested documents: a Bson holds a SubArray of messages, each *)
(* a SubArray that ends with a SubArray of attachments.  Any append may    *)
(* fail (the document is too large, or memory is short); the exception     *)
(* then destroys the open SubArrays from the innermost out.                *)
(*                                                                         *)
(* The rules of libbson are modelled as the wrapper depends on them: while *)
(* a child is open its parent must not be touched, and a failed            *)
(* bson_append_array_begin leaves the child as it was.                     *)
(***************************************************************************)
EXTENDS Integers, Sequences, SequencesExt

CONSTANTS
  Vectors,  \* the MessageVectors that are serialised
  Texts,    \* the texts of their Messages
  Buffers,  \* the contents of their Attachments
  W         \* the width of user_id_t; 64 in the code

Unsigned == 0 .. (2^W - 1)

Message == [from : Unsigned, to : Unsigned, text : Texts, attachments : Seq(Buffers)]

ASSUME WidthAssumption == W \in Nat \ {0}
ASSUME VectorsAssumption == Vectors \subseteq Seq(Message)

VARIABLES
  messages,  \* g_messages, a sequence of Messages
  documents, \* the documents that exist, the innermost last
  turn,      \* the turn of the loop over the messages: 0 before it, and
             \* Len(messages) + 1 after it
  todo,      \* the calls of this turn still to be made
  outcome,   \* "writing", "unwinding", or how it ended
  got        \* the MessageVector read back

vars == <<messages, documents, turn, todo, outcome, got>>

-----------------------------------------------------------------------------
(***************************************************************************)
(* The calls that MessageVector::to_bson_buffer makes.                     *)
(***************************************************************************)

\* Mutant: the cast saturates instead of wrapping around.
Mut_to_int64(v) == IF v >= 2^(W - 1) THEN 2^(W - 1) - 1 ELSE v

\* The casts between uint64_t and int64_t.
to_int64(v) == IF v >= 2^(W - 1) THEN v - 2^W ELSE v
to_uint64(v) == v % 2^W

\* A call names its document by its depth: 1 is the Bson, 2 the array of
\* messages, 3 a message, 4 its attachments.
Begin(k) == [op |-> "begin", on |-> k - 1]
Append1(k, type, value) == [op |-> "append", on |-> k, type |-> type, value |-> value]
Increment(k) == [op |-> "increment", on |-> k]
End(k) == [op |-> "end", on |-> k]

Fields(m) ==
  <<Append1(3, "int64", to_int64(m.from)),
    Append1(3, "int64", to_int64(m.to)),
    Append1(3, "utf8", m.text)>>

Attachments(m) ==
  [i \in DOMAIN m.attachments |-> Append1(4, "binary", m.attachments[i])]

\* Message::to_bson_buffer
MessageCalls(m) ==
  <<Begin(3)>> \o Fields(m) \o <<Begin(4), Increment(3)>>
    \o Attachments(m) \o <<End(4), End(3)>>

\* Mutant: the index of the array of messages is not incremented.
Mut_VectorCalls(v, i) ==
  CASE i = 0 -> <<Begin(2)>>
    [] i \in DOMAIN v -> MessageCalls(v[i])
    [] OTHER -> <<End(2)>>

\* MessageVector::to_bson_buffer: what its turns call, and before and after them.
VectorCalls(v, i) ==
  CASE i = 0 -> <<Begin(2)>>
    [] i \in DOMAIN v -> Append(MessageCalls(v[i]), Increment(2))
    [] OTHER -> <<End(2)>>

-----------------------------------------------------------------------------
(***************************************************************************)
(* Base and SubArray.                                                      *)
(***************************************************************************)

\* A document: the key it has in its parent, its elements, the m_index of a
\* SubArray, and whether libbson has an open child in it.
EmptyDocument(key) ==
  [key |-> key, elements |-> <<>>, m_index |-> 0, in_child |-> FALSE]

Element(key, type, value) == [key |-> key, type |-> type, value |-> value]

Init ==
  /\ messages \in Vectors
  /\ documents = <<EmptyDocument(0)>>
  /\ turn = 0
  /\ todo = VectorCalls(messages, turn)
  /\ outcome = "writing"
  /\ got = <<>>

Call(op) ==
  /\ outcome \in {"writing", "unwinding"}
  /\ todo # <<>>
  /\ Head(todo).op = op
  /\ todo' = Tail(todo)
  /\ UNCHANGED <<messages, turn, got>>

\* libbson asserts that the document has no open child.
Forbidden(k) == documents[k].in_child

Abort == outcome' = "aborted" /\ UNCHANGED documents

\* SubArray::SubArray, in an array under the index of the parent; the array of
\* messages is under "0", which is what m_index of a Bson is here.
begin ==
  LET k == Head(todo).on IN
  /\ Call("begin")
  /\ IF Forbidden(k)
       THEN Abort
       ELSE /\ documents' = Append([documents EXCEPT ![k].in_child = TRUE],
                                   EmptyDocument(documents[k].m_index))
            /\ UNCHANGED outcome

\* append_int64, append_utf8 and append_binary: none of them increments m_index.
append ==
  LET c == Head(todo) IN
  /\ Call("append")
  /\ IF Forbidden(c.on)
       THEN Abort
       ELSE /\ documents' =
                 [documents EXCEPT ![c.on].elements =
                    Append(@, Element(documents[c.on].m_index, c.type, c.value))]
            /\ UNCHANGED outcome

increment ==
  /\ Call("increment")
  /\ documents' = [documents EXCEPT ![Head(todo).on].m_index = @ + 1]
  /\ UNCHANGED outcome

\* ~SubArray closes the child in the parent; ~Base has nothing left to free.
end ==
  LET k == Head(todo).on
      child == documents[k]
  IN
  /\ Call("end")
  /\ IF Forbidden(k) \/ ~documents[k - 1].in_child
       THEN Abort
       ELSE /\ documents' =
                 [SubSeq(documents, 1, k - 1) EXCEPT
                    ![k - 1].in_child = FALSE,
                    ![k - 1].elements =
                       Append(@, Element(child.key, "array", child.elements))]
            /\ UNCHANGED outcome

\* Mutant: the SubArrays are destroyed in the order they were constructed.
Mut_Destructors(n) == [i \in 1 .. n - 1 |-> End(i + 1)]

\* The destructors that run when an exception leaves n documents.
Destructors(n) == [i \in 1 .. n - 1 |-> End(n + 1 - i)]

Fails(op) ==
  /\ outcome = "writing" /\ todo # <<>>
  /\ Head(todo).op = op
  /\ UNCHANGED <<messages, documents, turn, got>>

\* An append throws; the SubArrays are destroyed, and the Bson in the end.
append_fails ==
  /\ Fails("append")
  /\ todo' = Destructors(Len(documents))
  /\ outcome' = "unwinding"

\* The constructor of SubArray throws: ~SubArray does not run, but ~Base does,
\* and gives bson_destroy a bson_t that was never initialised.  By its garbage,
\* that has no effect, or frees what is no pointer.
begin_fails ==
  /\ Fails("begin")
  /\ todo' = Destructors(Len(documents))
  /\ outcome' \in {"unwinding", "undefined"}

\* The loop over the messages, and what follows it.
next_message ==
  /\ outcome = "writing" /\ todo = <<>> /\ turn <= Len(messages)
  /\ turn' = turn + 1
  /\ todo' = VectorCalls(messages, turn')
  /\ UNCHANGED <<messages, documents, outcome, got>>

finish ==
  /\ todo = <<>>
  /\ \/ outcome = "writing" /\ turn > Len(messages) /\ outcome' = "written"
     \/ outcome = "unwinding" /\ outcome' = "thrown"
  /\ UNCHANGED <<messages, documents, turn, todo, got>>

-----------------------------------------------------------------------------
(***************************************************************************)
(* Reading through bson::Iter, which goes by position and never looks at a *)
(* key.  The assertions on the results of next and on the types come first.*)
(***************************************************************************)

Types(elements) == [i \in DOMAIN elements |-> elements[i].type]

\* Message(bson::Iter&)
message_asserts(elements) ==
  /\ Types(elements) = <<"int64", "int64", "utf8", "array">>
  /\ ToSet(Types(elements[4].value)) \subseteq {"binary"}

ReadMessage(elements) ==
  [from        |-> to_uint64(elements[1].value),
   to          |-> to_uint64(elements[2].value),
   text        |-> elements[3].value,
   attachments |-> [i \in DOMAIN elements[4].value |-> elements[4].value[i].value]]

\* MessageVector(bson::Iter&)
read ==
  LET root == documents[1].elements IN
  /\ outcome = "written"
  /\ IF /\ Types(root) = <<"array">>
        /\ \A i \in DOMAIN root[1].value :
             root[1].value[i].type = "array" /\ message_asserts(root[1].value[i].value)
       THEN /\ got' = [i \in DOMAIN root[1].value |-> ReadMessage(root[1].value[i].value)]
            /\ outcome' = "read"
       ELSE outcome' = "aborted" /\ UNCHANGED got
  /\ UNCHANGED <<messages, documents, turn, todo>>

Next ==
  \/ begin \/ append \/ increment \/ end
  \/ append_fails \/ begin_fails
  \/ next_message \/ finish
  \/ read

Spec == Init /\ [][Next]_vars

-----------------------------------------------------------------------------
(***************************************************************************)
(* Properties.                                                             *)
(***************************************************************************)

\* What the tests say: what is serialised and deserialised is equal to itself,
\* for every width-W number, through the signed integers BSON has.
RoundTrip == outcome = "read" => got = messages

\* Neither libbson nor the assertions of the wrapper and of the readers stop
\* the program: no document is touched while a child is open in it, also when
\* an exception unwinds, and what was written is what the readers expect.
NothingAborts == outcome # "aborted"

\* The finished messages are always the first messages of the vector, with the
\* keys 0, 1, 2, ... that a BSON array has.
ArrayHoldsAPrefix ==
  Len(documents) >= 2 =>
    LET written == documents[2].elements IN
    outcome = "writing" =>
      /\ \A i \in DOMAIN written : written[i].key = i - 1
      /\ IsPrefix([i \in DOMAIN written |-> ReadMessage(written[i].value)], messages)
=============================================================================
