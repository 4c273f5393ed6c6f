-------------------------------- MODULE Wire --------------------------------
(***************************************************************************)
(* etc/subtrace-next/pubsub.ts and its copy in etc/subtrace-cloudflare: the *)
(* messages between publishers, subscribers and the server, in protobuf's  *)
(* binary form (the websocket of the Next.js client) and in its JSON form  *)
(* (the POST of the Cloudflare client).                                     *)
(*                                                                         *)
(* The generated functions of a message do the same for each of its fields *)
(* as for the like fields of the others: a message is its list of fields,  *)
(* in the order encode writes them, and the functions are stated once.     *)
(* Strings and bytes are members of small sets; a field holds              *)
(*   - a string, a uint64, bytes, or a map, as themselves;                 *)
(*   - an optional string or a message as <<value>>, or <<>> if undefined; *)
(*   - repeated strings and messages as a sequence.                        *)
(* An encoded field is its number, its wire type and its content.          *)
(***************************************************************************)
EXTENDS Integers, SequencesExt

CONSTANTS Messages, \* bound: the messages that are sent, of each type
          MaxSafe,  \* Number.MAX_SAFE_INTEGER, odd
          MaxHops   \* bound: times a message is sent or passed on

ASSUME WireAssumption == /\ MaxSafe \in Nat /\ MaxSafe % 2 = 1
                         /\ MaxHops \in Nat \ {0}
-----------------------------------------------------------------------------
(* The messages.                                                            *)

Field(name, number, kind, of) == [name |-> name, number |-> number, kind |-> kind, of |-> of]

String(name, number)       == Field(name, number, "string", "")
Optional(name, number)     == Field(name, number, "optional", "")
Uint64(name, number)       == Field(name, number, "uint64", "")
Bytes(name, number)        == Field(name, number, "bytes", "")
Strings(name, number)      == Field(name, number, "strings", "")
Map(name, number, of)      == Field(name, number, "map", of)
Sub(name, number, of)      == Field(name, number, "message", of)
Repeated(name, number, of) == Field(name, number, "messages", of)

JoinPublisher           == <<>>
JoinPublisher_Request   == <<Optional("linkIdOverride", 1)>>
JoinPublisher_Response  == <<Optional("error", 1000), String("websocketUrl", 1)>>
JoinSubscriber          == <<>>
JoinSubscriber_Request  == <<Optional("namespaceId", 1)>>
JoinSubscriber_Response == <<Optional("error", 1000), String("websocketUrl", 1)>>
PublishEvents           == <<>>
PublishEvents_Request   == <<Repeated("events", 1, "Event")>>
PublishEvents_Response  == <<Optional("error", 1000)>>
Event                   == <<Sub("concreteV1", 1, "Event_V1")>>
Event_Log               == <<Strings("lines", 1), Uint64("index", 2)>>
Event_V1                == <<Map("tags", 1, "Event_V1_TagsEntry"), Bytes("harEntryJson", 2), Sub("log", 3, "Event_Log")>>
Event_V1_TagsEntry      == <<String("key", 1), String("value", 2)>>
SetSubscriberConfig     == <<Sub("concreteV1", 1, "SetSubscriberConfig_V1")>>
SetSubscriberConfig_V1  == <<Sub("call", 1, "SetSubscriberConfig_V1_Call"), Sub("result", 2, "SetSubscriberConfig_V1_Result")>>
SetSubscriberConfig_V1_Call   == <<Uint64("revision", 1), Strings("filters", 2)>>
SetSubscriberConfig_V1_Result == <<Uint64("revision", 1), Optional("error", 2)>>
AnnounceStats           == <<Sub("concreteV1", 1, "AnnounceStats_V1")>>
AnnounceStats_V1        == <<Uint64("numPublishers", 1), Uint64("numSubscribers", 2)>>
Message                 == <<Sub("concreteV1", 1, "Message_V1")>>
Message_V1              == <<Sub("event", 1, "Event"), Sub("setSubscriberConfig", 2, "SetSubscriberConfig"),
                             Sub("announceStats", 3, "AnnounceStats")>>

Schema == [JoinPublisher |-> JoinPublisher, JoinPublisher_Request |-> JoinPublisher_Request,
           JoinPublisher_Response |-> JoinPublisher_Response, JoinSubscriber |-> JoinSubscriber,
           JoinSubscriber_Request |-> JoinSubscriber_Request, JoinSubscriber_Response |-> JoinSubscriber_Response,
           PublishEvents |-> PublishEvents, PublishEvents_Request |-> PublishEvents_Request,
           PublishEvents_Response |-> PublishEvents_Response, Event |-> Event, Event_Log |-> Event_Log,
           Event_V1 |-> Event_V1, Event_V1_TagsEntry |-> Event_V1_TagsEntry,
           SetSubscriberConfig |-> SetSubscriberConfig, SetSubscriberConfig_V1 |-> SetSubscriberConfig_V1,
           SetSubscriberConfig_V1_Call |-> SetSubscriberConfig_V1_Call,
           SetSubscriberConfig_V1_Result |-> SetSubscriberConfig_V1_Result, AnnounceStats |-> AnnounceStats,
           AnnounceStats_V1 |-> AnnounceStats_V1, Message |-> Message, Message_V1 |-> Message_V1]

FieldsOf(T) == {Schema[T][i] : i \in DOMAIN Schema[T]}
FieldNamed(T, name) == CHOOSE f \in FieldsOf(T) : f.name = name

\* The fields of a new message; an empty map is an empty function, <<>>.
Default(f) == CASE f.kind = "string" -> ""
                [] f.kind = "uint64" -> 0
                [] OTHER -> <<>>

Base(T) == [name \in {f.name : f \in FieldsOf(T)} |-> Default(FieldNamed(T, name))]

\* A field that is not written, in either form: an optional string is only
\* left out when it is undefined.
Falsy(f, v) == v = Default(f) \/ (f.kind = "optional" /\ v = <<"">>)
Unset(f, v) == v = Default(f)
-----------------------------------------------------------------------------
(* The binary form.                                                         *)

Varint == 0
Delimited == 2

WireType(f) == IF f.kind = "uint64" THEN Varint ELSE Delimited

\* A double holds the even integers above 2^53.
Double(n) == IF n <= MaxSafe THEN n ELSE (n \div 2) * 2

\* <<>> stands for the error that is thrown.
Rounded(n) == <<Double(n)>>
LongToNumber(n) == IF Double(n) > MaxSafe THEN <<>> ELSE <<Double(n)>>

RECURSIVE Encode(_, _)

\* What encode writes of a field: one content, or one per element.
Contents(f, v) ==
    CASE f.kind = "optional" -> v
      [] f.kind = "strings" -> v
      [] f.kind \in {"message", "messages"} -> [i \in DOMAIN v |-> Encode(f.of, v[i])]
      [] f.kind = "map" -> LET keys == SetToSeq(DOMAIN v)
                           IN  [i \in DOMAIN keys |-> Encode(f.of, [key |-> keys[i], value |-> v[keys[i]]])]
      [] OTHER -> <<v>>

EncodeField(f, v) ==
    IF Unset(f, v) THEN <<>>
    ELSE LET c == Contents(f, v)
         IN  [i \in DOMAIN c |-> [number |-> f.number, wire |-> WireType(f), content |-> c[i]]]

Encode(T, m) == FlattenSeq([i \in DOMAIN Schema[T] |-> EncodeField(Schema[T][i], m[Schema[T][i].name])])

\* What decode makes of a field that has a value already: elements are
\* added, anything else is replaced.
Store(f, old, v) == CASE f.kind \in {"optional", "message"} -> <<v>>
                      [] f.kind \in {"strings", "messages"} -> Append(old, v)
                      [] f.kind = "map" -> [k \in DOMAIN old \cup {v.key} |-> IF k = v.key THEN v.value ELSE old[k]]
                      [] OTHER -> v

RECURSIVE Decode(_, _)

ReadContent(f, content) == CASE f.kind = "uint64" -> LongToNumber(content)
                             [] f.kind \in {"message", "messages", "map"} -> Decode(f.of, content)
                             [] OTHER -> <<content>>

\* A field whose number or wire type is not known is skipped.
DecodeField(T, decoded, field) ==
    LET known == {f \in FieldsOf(T) : f.number = field.number /\ WireType(f) = field.wire}
    IN  IF decoded = <<>> \/ known = {} THEN decoded
        ELSE LET f == CHOOSE f \in known : TRUE
                 r == ReadContent(f, field.content)
             IN  IF r = <<>> THEN <<>> ELSE <<[decoded[1] EXCEPT ![f.name] = Store(f, @, r[1])]>>

Decode(T, frame) == FoldLeft(LAMBDA decoded, field : DecodeField(T, decoded, field), <<Base(T)>>, frame)
-----------------------------------------------------------------------------
(* The JSON form: an object is a function of the names that it has; a value *)
(* is <<v>>, null is <<>>.                                                   *)

Base64FromBytes(b) == [base64 |-> b]
BytesFromBase64(s) == s.base64

RECURSIVE ToJSON(_, _)

JsonOf(f, v) == CASE f.kind = "optional" -> v[1]
                  [] f.kind = "uint64" -> [quoted |-> FALSE, number |-> v]
                  [] f.kind = "bytes" -> Base64FromBytes(v)
                  [] f.kind = "message" -> ToJSON(f.of, v[1])
                  [] f.kind = "messages" -> [i \in DOMAIN v |-> ToJSON(f.of, v[i])]
                  [] OTHER -> v

ToJSON(T, m) == [name \in {f.name : f \in {g \in FieldsOf(T) : ~Unset(g, m[g.name])}} |->
                    <<JsonOf(FieldNamed(T, name), m[name])>>]

IsSet(object, name) == name \in DOMAIN object /\ object[name] # <<>>

RECURSIVE FromJSON(_, _)

ValueOf(f, j) == CASE f.kind = "optional" -> <<j>>
                   [] f.kind = "uint64" -> Double(j.number)
                   [] f.kind = "bytes" -> BytesFromBase64(j)
                   [] f.kind = "message" -> <<FromJSON(f.of, j)>>
                   [] f.kind = "messages" -> [i \in DOMAIN j |-> FromJSON(f.of, j[i])]
                   [] OTHER -> j

FromJSON(T, object) ==
    [name \in {f.name : f \in FieldsOf(T)} |->
        LET f == FieldNamed(T, name)
        IN  IF IsSet(object, name) THEN ValueOf(f, object[name][1]) ELSE Default(f)]
-----------------------------------------------------------------------------
(* Partial objects, in the representation of JSON's.                         *)

RECURSIVE FromPartial(_, _), PartialOf(_, _)

FromPartial(T, object) ==
    [name \in {f.name : f \in FieldsOf(T)} |->
        LET f == FieldNamed(T, name)
        IN  IF ~IsSet(object, name) THEN Default(f)
            ELSE CASE f.kind = "optional" -> object[name]
                   [] f.kind = "message" -> <<FromPartial(f.of, object[name][1])>>
                   [] f.kind = "messages" -> [i \in DOMAIN object[name][1] |-> FromPartial(f.of, object[name][1][i])]
                   [] OTHER -> object[name][1]]

\* What a caller writes who leaves out what create fills in.
PartialOf(T, m) ==
    [name \in {f.name : f \in {g \in FieldsOf(T) : m[g.name] # Default(g)}} |->
        LET f == FieldNamed(T, name)
        IN  CASE f.kind = "optional" -> m[name]
              [] f.kind = "message" -> <<PartialOf(f.of, m[name][1])>>
              [] f.kind = "messages" -> <<[i \in DOMAIN m[name] |-> PartialOf(f.of, m[name][i])]>>
              [] OTHER -> <<m[name]>>]
-----------------------------------------------------------------------------
(* Other peers: newer ones that write fields of which pubsub.ts knows       *)
(* nothing, or know a number by another type; ones that write the fields in *)
(* another order, or a scalar twice, of which the last one counts; and ones *)
(* that write null for what is unset, and a uint64 as a string.             *)

Unknown(wire) == [number |-> 15, wire |-> wire, content |-> <<>>]

RECURSIVE PeerEncode(_, _, _)

PeerField(f, v, style) ==
    LET fields == [i \in DOMAIN EncodeField(f, v) |->
                      IF f.kind \in {"message", "messages"}
                      THEN [EncodeField(f, v)[i] EXCEPT !.content = PeerEncode(f.of, v[i], style)]
                      ELSE EncodeField(f, v)[i]]
        other  == [number |-> f.number, wire |-> Delimited - WireType(f), content |-> <<>>]
    IN  CASE style = "newer" -> <<Unknown(Varint)>> \o fields \o <<other, Unknown(Delimited)>>
          [] style = "twice" /\ f.kind \in {"string", "optional"} -> IF fields = <<>> THEN <<>>
                                                                     ELSE <<[fields[1] EXCEPT !.content = "b"]>> \o fields
          [] style = "twice" /\ f.kind = "uint64" -> IF fields = <<>> THEN <<>>
                                                     ELSE <<[fields[1] EXCEPT !.content = 2]>> \o fields
          [] OTHER -> fields

PeerEncode(T, m, style) ==
    LET parts == [i \in DOMAIN Schema[T] |-> PeerField(Schema[T][i], m[Schema[T][i].name], style)]
    IN  IF Schema[T] = <<>> /\ style = "newer" THEN <<Unknown(Varint)>>
        ELSE FlattenSeq(IF style = "reversed" THEN Reverse(parts) ELSE parts)

RECURSIVE PeerJSON(_, _)

PeerJSON(T, m) ==
    [name \in {f.name : f \in FieldsOf(T)} \cup {"unknown"} |->
        IF name = "unknown" THEN <<0>>
        ELSE LET f == FieldNamed(T, name)
             IN  IF Unset(f, m[name]) THEN <<>>
                 ELSE CASE f.kind = "message" -> <<PeerJSON(f.of, m[name][1])>>
                        [] f.kind = "messages" -> <<[i \in DOMAIN m[name] |-> PeerJSON(f.of, m[name][i])]>>
                        [] f.kind = "uint64" -> <<[quoted |-> TRUE, number |-> m[name]]>>
                        [] OTHER -> <<JsonOf(f, m[name])>>]

Styles == {"newer", "reversed", "twice"}
-----------------------------------------------------------------------------
(* A message on its way through several peers.                              *)

VARIABLES type, message,  \* what was sent
          status,         \* "idle", "binary" or "json" (on the way), "received", "refused"
          transit,        \* its encoded form
          received,       \* what the last receiver made of it
          hops,           \* times it was sent
          binary          \* it has been in the binary form only

vars == <<type, message, status, transit, received, hops, binary>>

RECURSIVE Safe(_, _)

\* Every number of the message is a safe integer.
Safe(T, m) ==
    \A f \in FieldsOf(T) : /\ f.kind = "uint64" => m[f.name] <= MaxSafe
                           /\ f.kind \in {"message", "messages"} =>
                                 \A i \in DOMAIN m[f.name] : Safe(f.of, m[f.name][i])

Init == /\ type = "Message" /\ message = Base("Message")
        /\ status = "idle"
        /\ transit = <<>>
        /\ received = <<>>
        /\ hops = 0
        /\ binary = TRUE

\* A message of T leaves in one of the forms: from this code, which holds
\* its numbers as doubles, or from another peer.
Leave(T, m) ==
    /\ hops < MaxHops
    /\ hops' = hops + 1
    /\ received' = <<>>
    /\ \/ /\ status' = "binary"
          /\ UNCHANGED binary
          /\ \/ Safe(T, m) /\ transit' = Encode(T, FromPartial(T, PartialOf(T, m)))
             \/ \E style \in Styles : transit' = PeerEncode(T, m, style)
       \/ /\ status' = "json"
          /\ binary' = FALSE
          /\ \/ Safe(T, m) /\ transit' = ToJSON(T, FromPartial(T, PartialOf(T, m)))
             \/ transit' = PeerJSON(T, m)

Send(T, m) ==
    /\ status = "idle"
    /\ type' = T
    /\ message' = m
    /\ Leave(T, m)

PassOn ==
    /\ status = "received"
    /\ Leave(type, received[1])
    /\ UNCHANGED <<type, message>>

ReceiveBinary ==
    /\ status = "binary"
    /\ received' = Decode(type, transit)
    /\ status' = IF received' = <<>> THEN "refused" ELSE "received"
    /\ UNCHANGED <<type, message, transit, hops, binary>>

ReceiveJSON ==
    /\ status = "json"
    /\ received' = <<FromJSON(type, transit)>>
    /\ status' = "received"
    /\ UNCHANGED <<type, message, transit, hops, binary>>

Next == \/ \E T \in DOMAIN Messages : \E m \in Messages[T] : Send(T, m)
        \/ PassOn \/ ReceiveBinary \/ ReceiveJSON

Spec == Init /\ [][Next]_vars
-----------------------------------------------------------------------------
\* Through any forms and peers, older or newer, in any field order, a message
\* arrives as it was sent: what encode leaves out, decode puts back, an empty
\* optional string stays apart from none, and no map entry or element of a
\* list is lost.
Faithful == Safe(type, message) =>
               /\ status # "refused"
               /\ status = "received" => received = <<message>>

\* In the binary form a number that a double cannot hold is refused with its
\* message, never rounded.
RefusedNotRounded == binary => /\ status = "received" => received = <<message>>
                               /\ status = "refused" => ~Safe(type, message)
=============================================================================
