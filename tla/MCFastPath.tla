----------------------------- MODULE MCFastPath -----------------------------
(* Model values for FastPath: two flows to one server port, a host that is *)
(* classified as chat and one that is not classified.                      *)
EXTENDS FastPath

CONSTANTS out, other, client, web, chat, port

MCSrcIp   == [t \in Tuple |-> client]
MCDstPort == [t \in Tuple |-> port]

ChatHost  == <<"www", "chat", "com">>
PlainHost == <<"plain", "org">>
MCHost    == {ChatHost, PlainHost}
MCAppOf   == [h \in MCHost |-> IF h = ChatHost THEN chat ELSE web]

Zone    == <<"chat", "com">>
AnyZone == <<"*", "plain", "org">>
MCText  == {Zone, AnyZone}
OneText == {Zone}
Stars   == {"*"}

Data(t)     == [tuple |-> t, host |-> NoHost]
Hello(t, h) == [tuple |-> t, host |-> h]

TwoFlows == {Data(out), Hello(out, ChatHost), Hello(out, PlainHost),
             Hello(other, PlainHost)}
ThreeKinds == {Data(out), Hello(out, ChatHost), Hello(other, PlainHost)}

=============================================================================
