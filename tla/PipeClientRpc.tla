---------------------------- MODULE PipeClientRpc ----------------------------
(* PipeClient, its threads and its pipe implement PipeRpc. *)
EXTENDS PipeClient

InCall == {"offer", "mark", "await", "waiting", "check", "answered", "expired"}

\* Where a request or its answer can be, from the call that issued it to its Message.
Members(q)  == {q[k] : k \in 1..Len(q)}
ReplyIds(q) == {q[k].id : k \in 1..Len(q)} \ {EosId}

Offered  == {callId[c] : c \in {d \in Callers : callAt[d] = "offer"}}
Queued   == Members(transmitQueue)
InHand   == IF xmtAt \in {"lookup", "spin", "write", "writing"} THEN {xmtId} ELSE {}
Sent     == Members(toServer) \ {EosId}
Replied  == ReplyIds(toClient)
Received == IF rdrAt \in {"lookup", "deliver"} THEN {response.id} ELSE {}
Stored   == {i \in MsgIds : data[i].kind = "reply"}

\* PipeRpc's view of that.
Request == [c \in Callers |-> IF callAt[c] \in InCall THEN callId[c] ELSE EosId]
Result  == [c \in Callers |-> IF callAt[c] = "answered" THEN data[callId[c]].of ELSE EosId]
Pending == Offered \cup Queued \cup InHand \cup Sent
Answers == Replied \cup Received \cup Stored

Rpc == INSTANCE PipeRpc WITH
    issued <- nextMsgId, request <- Request, result <- Result,
    pending <- Pending, executing <- executing, answers <- Answers

\* The classes of net.kwami.pipe.client do what sendRequest() promises: whatever the
\* threads, the pipe and the server do, no request is executed twice, and a call returns
\* the answer to its own request or throws (PipeClient.java 65-98, RequestTransmitter.java
\* 23-63, ResponseReader.java 23-74).
ImplementsRpc == Rpc!Spec
=============================================================================
