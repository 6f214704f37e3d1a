-------------------------------- MODULE Relay --------------------------------
(***************************************************************************)
(* net.kwami.tcp.Transceiver (Receiver and Sender have the same body): one *)
(* thread with a selector between the channel of a client and that of a    *)
(* server.  Both channels are non-blocking.  What was read and not yet     *)
(* accepted by the other channel waits in the buffer of the direction, and *)
(* is offered again only when there is something more to read: OP_WRITE is *)
(* never registered.                                                       *)
(*                                                                         *)
(* A byte is the place it has in its stream.                               *)
(***************************************************************************)
EXTENDS Naturals, Sequences

CONSTANTS BufferSize,    \* the 4096 of allocateDirect
          Window,        \* what a channel accepts before its peer reads
          MaxBytes       \* bound: bytes sent, per direction

\* requestBuffer: from the client to the server; responseBuffer: the other way.
Directions == {"request", "response"}

ASSUME RelayAssumption ==
    /\ BufferSize \in Nat \ {0} /\ Window \in Nat \ {0}
    /\ MaxBytes \in [Directions -> Nat]

Opposite(d) == CHOOSE e \in Directions : e # d

VARIABLES
    sent,      \* per direction: bytes its source has sent
    inq,       \* received for the relay, not read
    eof,       \* its source sends no more
    buffer,    \* requestBuffer and responseBuffer
    outq,      \* accepted from the relay, not received by its destination
    got,       \* received by its destination
    gone,      \* its destination has closed its socket
    at,        \* the thread: select, read, write, done
    selected,  \* keys of this round not yet served
    serving,   \* the direction being served
    mustRun,
    asked      \* history: setMustRun(false) was called

streams == <<sent, inq, eof, outq, got, gone>>
vars == <<sent, inq, eof, buffer, outq, got, gone, at, selected, serving, mustRun, asked>>

Init ==
    /\ sent = [d \in Directions |-> 0]
    /\ inq = [d \in Directions |-> <<>>]
    /\ eof = [d \in Directions |-> FALSE]
    /\ buffer = [d \in Directions |-> <<>>]
    /\ outq = [d \in Directions |-> <<>>]
    /\ got = [d \in Directions |-> <<>>]
    /\ gone = [d \in Directions |-> FALSE]
    /\ at = "select" /\ selected = {} /\ serving = "request"
    /\ mustRun = TRUE /\ asked = FALSE

Least(m, n) == IF m < n THEN m ELSE n
Firsts(s, n) == SubSeq(s, 1, n)
Rest(s, n) == SubSeq(s, n + 1, Len(s))

-----------------------------------------------------------------------------
(* The thread                                                              *)

Readable(d) == inq[d] # <<>> \/ eof[d]

\* The next key of the round, or the end of the round.
Proceeds(keys) ==
    /\ selected' = keys
    /\ IF keys # {} THEN at' = "read" /\ serving' \in keys
       ELSE /\ at' = IF mustRun' THEN "select" ELSE "close"
            /\ UNCHANGED serving

\* select() waits until a channel is readable.
Select ==
    /\ at = "select" /\ mustRun
    /\ \E d \in Directions : Readable(d)
    /\ UNCHANGED mustRun
    /\ Proceeds({d \in Directions : Readable(d)})
    /\ UNCHANGED <<streams, buffer, asked>>

\* while (mustRun), before the next select().
Leave ==
    /\ at = "select" /\ ~mustRun
    /\ at' = "close"
    /\ UNCHANGED <<streams, buffer, selected, serving, mustRun, asked>>

\* A full buffer reads nothing, even at the end of the stream.
Room(d) == BufferSize - Len(buffer[d])

\* Mutant: nothing read is taken for the end.
AtEnd_NothingRead(d) == Room(d) = 0 \/ inq[d] = <<>>

\* bytesRead == -1
AtEnd(d) == Room(d) > 0 /\ inq[d] = <<>>

\* Mutant: the end of a stream does not end the thread.
ReadEnd_GoesOn(d) ==
    /\ at = "read" /\ serving = d /\ AtEnd(d)
    /\ UNCHANGED mustRun
    /\ Proceeds(selected \ {d})
    /\ UNCHANGED <<streams, buffer, asked>>

ReadEnd(d) ==
    /\ at = "read" /\ serving = d /\ AtEnd(d)
    /\ mustRun' = FALSE
    /\ Proceeds(selected \ {d})
    /\ UNCHANGED <<streams, buffer, asked>>

Read(d) ==
    LET n == Least(Room(d), Len(inq[d]))
    IN  /\ at = "read" /\ serving = d /\ ~AtEnd(d)
        /\ buffer' = [buffer EXCEPT ![d] = @ \o Firsts(inq[d], n)]
        /\ inq' = [inq EXCEPT ![d] = Rest(@, n)]
        /\ at' = "write"
        /\ UNCHANGED <<sent, eof, outq, got, gone, selected, serving, mustRun, asked>>

\* What a channel accepts; everything, to be lost, when its peer is gone.
Accepts(d) == IF gone[d] THEN Len(buffer[d]) ELSE Least(Len(buffer[d]), Window - Len(outq[d]))

\* Mutant: clear() in place of compact().
Compact_Clears(d, n) == <<>>

\* compact(): what was not written stays, at the front.
Compact(d, n) == Rest(buffer[d], n)

\* Mutant: writes until the buffer is empty.
Write_Blocking(d) ==
    /\ at = "write" /\ serving = d /\ Accepts(d) = Len(buffer[d])
    /\ outq' = [outq EXCEPT ![d] = IF gone[d] THEN @ ELSE @ \o buffer[d]]
    /\ buffer' = [buffer EXCEPT ![d] = <<>>]
    /\ UNCHANGED mustRun
    /\ Proceeds(selected \ {d})
    /\ UNCHANGED <<sent, inq, eof, got, gone, asked>>

Write(d) ==
    /\ at = "write" /\ serving = d
    /\ outq' = [outq EXCEPT ![d] = IF gone[d] THEN @ ELSE @ \o Firsts(buffer[d], Accepts(d))]
    /\ buffer' = [buffer EXCEPT ![d] = Compact(d, Accepts(d))]
    /\ UNCHANGED mustRun
    /\ Proceeds(selected \ {d})
    /\ UNCHANGED <<sent, inq, eof, got, gone, asked>>

\* IOException: the peer of the channel has closed its socket.
Fails(d) ==
    /\ serving = d
    /\ (at = "read" /\ gone[Opposite(d)]) \/ (at = "write" /\ gone[d])
    /\ at' = "close"
    /\ UNCHANGED <<streams, buffer, selected, serving, mustRun, asked>>

\* finally: the keys are cancelled, both channels closed.
Close ==
    /\ at = "close"
    /\ at' = "done"
    /\ UNCHANGED <<streams, buffer, selected, serving, mustRun, asked>>

Thread ==
    \/ Select \/ Leave \/ Close
    \/ \E d \in Directions : Read(d) \/ ReadEnd(d) \/ Write(d) \/ Fails(d)

-----------------------------------------------------------------------------
(* Client, server and setMustRun                                           *)

Send(d) ==
    /\ ~eof[d] /\ sent[d] < MaxBytes[d] /\ at # "done"
    /\ sent' = [sent EXCEPT ![d] = @ + 1]
    /\ inq' = [inq EXCEPT ![d] = Append(@, sent'[d])]
    /\ UNCHANGED <<eof, buffer, outq, got, gone, at, selected, serving, mustRun, asked>>

Receive(d) ==
    /\ ~gone[d] /\ outq[d] # <<>>
    /\ got' = [got EXCEPT ![d] = Append(@, Head(outq[d]))]
    /\ outq' = [outq EXCEPT ![d] = Tail(@)]
    /\ UNCHANGED <<sent, inq, eof, buffer, gone, at, selected, serving, mustRun, asked>>

\* The source of d closes its output, or its whole socket.
Ends(d) ==
    /\ ~eof[d]
    /\ eof' = [eof EXCEPT ![d] = TRUE]
    /\ gone' \in {gone, [gone EXCEPT ![Opposite(d)] = TRUE]}
    /\ UNCHANGED <<sent, inq, buffer, outq, got, at, selected, serving, mustRun, asked>>

\* setMustRun(false); the selector is not woken.
SetMustRun ==
    /\ ~asked
    /\ asked' = TRUE /\ mustRun' = FALSE
    /\ UNCHANGED <<streams, buffer, at, selected, serving>>

Environment ==
    \/ SetMustRun
    \/ \E d \in Directions : Send(d) \/ Receive(d) \/ Ends(d)

Next == Thread \/ Environment

Spec == Init /\ [][Next]_vars

\* The thread runs, and the server reads.  Nothing is assumed of the client: it need not
\* send, nor read what comes back.
FairSpec == Spec /\ WF_vars(Thread) /\ WF_vars(Receive("request"))

-----------------------------------------------------------------------------
(* Properties                                                              *)

Streams == [Directions -> Seq(Nat)]

TypeOK ==
    /\ sent \in [Directions -> Nat] /\ \A d \in Directions : sent[d] <= MaxBytes[d]
    /\ inq \in Streams /\ buffer \in Streams /\ outq \in Streams /\ got \in Streams
    /\ eof \in [Directions -> BOOLEAN] /\ gone \in [Directions -> BOOLEAN]
    /\ at \in {"select", "read", "write", "close", "done"}
    /\ selected \subseteq Directions /\ serving \in Directions
    /\ mustRun \in BOOLEAN /\ asked \in BOOLEAN
    /\ \A d \in Directions : Len(buffer[d]) <= BufferSize /\ Len(outq[d]) <= Window
    /\ at \in {"read", "write"} => serving \in selected

\* Between its ends a stream loses, repeats and reorders nothing, however little the other
\* channel accepts at a time (Transceiver.java 59-65, 68-74): flip, write and compact.
StreamIntact ==
    \A d \in Directions :
        ~gone[d] => got[d] \o outq[d] \o buffer[d] \o inq[d] = [i \in 1..sent[d] |-> i]

\* The relay closes only after a stream has ended or it was told to
\* (Transceiver.java 59-61, 68-70): reading nothing because the buffer is full is not the end.
ClosesForAReason == at = "done" => asked \/ \E d \in Directions : eof[d]

\* What the client sends is read in the end, even if it never reads the answers
\* (Transceiver.java 32-34, 64): a write that does not fit does not hold the thread.
RequestsGoOn == inq["request"] # <<>> ~> inq["request"] = <<>> \/ at = "done"

\* Nothing moves towards a destination that does not read.
Full(d) == ~gone[d] /\ Room(d) = 0 /\ Len(outq[d]) = Window

\* When one side has ended, both channels are closed in the end, whatever is under way in
\* the other direction (Transceiver.java 59-61, 68-70, 81-91): for the server's end if the
\* client makes room again and again, because a full buffer hides the end of its stream.
ClosesAtEnd ==
    /\ eof["request"] ~> at = "done"
    /\ []<>~Full("response") => (eof["response"] ~> at = "done")
=============================================================================
