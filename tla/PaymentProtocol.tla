----------------------------- MODULE PaymentProtocol -----------------------------
(***************************************************************************)
(* BRPaymentProtocol.c: the BIP70 and BIP75 messages.  A buffer is a        *)
(* sequence of fields, the varints and lengths inside a field left out; a   *)
(* field of a message is a sequence of its values, empty when the field is  *)
(* absent and its default applies.  A value is [bytes |-> v], or [wire |-> w]  *)
(* of an inner message.                                                     *)
(***************************************************************************)
EXTENDS Integers, SequencesExt

Field(key, value) == [key |-> key, value |-> value]

\* A field: given again, a value replaces the last one or, if repeated, is added; "of" names the message it holds.
Plain(key)      == [key |-> key, repeated |-> FALSE, required |-> FALSE, of |-> "bytes"]
Required(key)   == [Plain(key) EXCEPT !.required = TRUE]
Holding(f, msg) == [f EXCEPT !.of = msg]
Repeated(key)   == [Plain(key) EXCEPT !.repeated = TRUE]

Output           == <<Plain(1), Required(2)>>
Details          == <<Plain(1), Holding(Repeated(2), "output"), Plain(3), Plain(4), Plain(5), Plain(6), Plain(7)>>
Request          == <<Plain(1), Plain(2), Plain(3), Holding(Required(4), "details"), Plain(5)>>
Payment          == <<Plain(1), Repeated(2), Holding(Repeated(3), "output"), Plain(4)>>
ACK              == <<Holding(Required(1), "payment"), Plain(2)>>
InvoiceRequest   == <<Required(1), Plain(2), Plain(3), Plain(4), Plain(5), Plain(6), Plain(7)>>
Message          == <<Required(1), Required(2), Plain(3), Plain(4), Plain(5)>>
EncryptedMessage == <<Required(1), Required(2), Required(3), Required(4), Required(5), Plain(6), Plain(7),
                      Plain(8), Plain(9)>>

Messages == [output |-> Output, details |-> Details, request |-> Request, payment |-> Payment, ack |-> ACK,
             invoice |-> InvoiceRequest, message |-> Message, encrypted |-> EncryptedMessage]

NoMessage == [fields |-> <<>>, unknown |-> <<>>]

-----------------------------------------------------------------------------
\* _ProtoBufUnknown: in front of the first unknown field whose key is not lower, which it replaces if it has its
\* key; if all are lower, in front of the last
TakeUnknown(unknown, f) ==
    LET higher == {i \in DOMAIN unknown : unknown[i].key >= f.key}
        at     == IF higher # {} THEN CHOOSE i \in higher : \A j \in higher : i <= j
                  ELSE IF unknown = <<>> THEN 1 ELSE Len(unknown)
        rest   == IF higher # {} /\ unknown[at].key = f.key THEN RemoveAt(unknown, at) ELSE unknown
    IN InsertAt(rest, at, f)

\* The values of a field after one more: an inner message without what it must have is left out.
Taken(f, values, value) ==
    CASE value = NoMessage -> values
      [] value # NoMessage /\ f.repeated -> Append(values, value)
      [] OTHER -> <<value>>

\* The ...Parse functions
RECURSIVE ParseMessage(_, _)
ParseMessage(name, wire) ==
    LET known(key) == key \in 1 .. Len(Messages[name])
        value(w)   == LET of == Messages[name][w.key].of IN IF of = "bytes" THEN w.value ELSE ParseMessage(of, w.value.wire)
        take(m, w) == IF known(w.key) THEN [m EXCEPT !.fields[w.key] = Taken(Messages[name][w.key], @, value(w))]
                      ELSE [m EXCEPT !.unknown = TakeUnknown(@, w)]
        empty      == [fields |-> [i \in DOMAIN Messages[name] |-> <<>>], unknown |-> <<>>]
        m          == FoldLeft(take, empty, wire)
    IN IF \E i \in DOMAIN Messages[name] : Messages[name][i].required /\ m.fields[i] = <<>> THEN NoMessage ELSE m

\* The ...Serialize functions: the fields that are there in the order of their keys, then the unknown ones
RECURSIVE SerializeMessage(_, _)
SerializeMessage(name, m) ==
    LET wire(i, v) == LET of == Messages[name][i].of IN Field(i, IF of = "bytes" THEN v ELSE [wire |-> SerializeMessage(of, v)])
        fields(i)  == [j \in DOMAIN m.fields[i] |-> wire(i, m.fields[i][j])]
    IN FlattenSeq([i \in DOMAIN m.fields |-> fields(i)]) \o m.unknown

-----------------------------------------------------------------------------
\* In the order of the keys, a field that is not repeated once, and no inner message that is left out
RECURSIVE WellFormed(_, _)
WellFormed(name, wire) ==
    LET known(w)    == w.key \in 1 .. Len(Messages[name])
        repeated(w) == known(w) /\ Messages[name][w.key].repeated
        of(w)       == Messages[name][w.key].of
    IN /\ \A i \in 1 .. Len(wire) - 1 :
              wire[i].key < wire[i + 1].key \/ (wire[i].key = wire[i + 1].key /\ repeated(wire[i]))
       /\ \A i \in DOMAIN wire : known(wire[i]) /\ of(wire[i]) # "bytes" =>
              ParseMessage(of(wire[i]), wire[i].value.wire) # NoMessage /\ WellFormed(of(wire[i]), wire[i].value.wire)

\* Whatever was read is read again from what it is written as; and what came in the order of its keys is written
\* as it came, which is what the digest of a signed request is computed over.
MessageRoundTrip(name, wire) ==
    LET m == ParseMessage(name, wire)
    IN m # NoMessage =>
         /\ ParseMessage(name, SerializeMessage(name, m)) = m
         /\ WellFormed(name, wire) => SerializeMessage(name, m) = wire
================================================================================
