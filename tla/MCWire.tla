------------------------------- MODULE MCWire -------------------------------
(* Model checking instance of Wire: messages of every type, with empty and  *)
(* other strings, maps of up to two tags, and numbers around MaxSafe.       *)
EXTENDS Wire

Texts == {"", "a"}
Maybe(S) == {<<>>} \cup {<<x>> : x \in S}
Numbers == {0, 1, MaxSafe, MaxSafe + 2}
Lists == {<<>>, <<"">>, <<"a">>, <<"b", "">>, <<"a", "b", "a">>}
Tags == {<<>>} \cup [{"region"} -> Texts] \cup [{"", "region"} -> Texts]
Logs == [lines : Lists, index : Numbers]
V1Events == [tags : Tags, harEntryJson : {<<>>, <<0>>, <<1, 0>>}, log : Maybe(Logs)]
Events == [concreteV1 : Maybe(V1Events)]
FewEvents == [concreteV1 : Maybe([tags : Tags, harEntryJson : {<<0>>}, log : {<<>>}])]
Config == [concreteV1 : Maybe([call : Maybe([revision : Numbers, filters : Lists]), result : {<<>>}]
                              \cup [call : {<<>>}, result : Maybe([revision : Numbers, error : Maybe(Texts)])])]
Stats == [concreteV1 : Maybe([numPublishers : Numbers, numSubscribers : Numbers])]
Bodies == [event : Maybe(FewEvents), setSubscriberConfig : {<<>>}, announceStats : {<<>>}]
          \cup [event : {<<>>}, setSubscriberConfig : Maybe(Config), announceStats : {<<>>}]
          \cup [event : {<<>>}, setSubscriberConfig : {<<>>}, announceStats : Maybe(Stats)]

AllMessages == [JoinPublisher |-> {<<>>}, JoinSubscriber |-> {<<>>}, PublishEvents |-> {<<>>},
                JoinPublisher_Request |-> [linkIdOverride : Maybe(Texts)],
                JoinSubscriber_Request |-> [namespaceId : Maybe(Texts)],
                JoinPublisher_Response |-> [error : Maybe(Texts), websocketUrl : Texts],
                JoinSubscriber_Response |-> [error : Maybe(Texts), websocketUrl : Texts],
                PublishEvents_Request |-> [events : UNION {[1 .. n -> FewEvents] : n \in 0 .. 2}],
                PublishEvents_Response |-> [error : Maybe(Texts)],
                Event |-> Events,
                Message |-> [concreteV1 : Maybe(Bodies)]]
=============================================================================
