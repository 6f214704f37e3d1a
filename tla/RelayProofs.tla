----------------------------- MODULE RelayProofs -----------------------------
(***************************************************************************)
(* The relay for every size of buffer and window and any number of bytes:  *)
(* the streams stay intact, and it does not close without a reason.        *)
(***************************************************************************)
EXTENDS RelayStreams, SequenceTheorems, TLAPS

LEMMA OppositeFacts ==
    ASSUME NEW d \in Directions
    PROVE  /\ Opposite(d) \in Directions /\ Opposite(d) # d
           /\ Opposite(Opposite(d)) = d
  <1>1. \A e \in Directions : \E f \in Directions : f # e
    BY DEF Directions
  <1>2. \A e \in Directions : Opposite(e) \in Directions /\ Opposite(e) # e
    BY <1>1 DEF Opposite
  <1> QED
    BY <1>2 DEF Directions

LEMMA ConcatFacts ==
    \A s, t \in Seq(Nat) : s \o t \in Seq(Nat) /\ Len(s \o t) = Len(s) + Len(t)
  BY ConcatProperties

LEMMA Associative ==
    \A s, t, u \in Seq(Nat) : (s \o t) \o u = s \o (t \o u)
  BY ConcatAssociative

\* flip, write and compact cut a stream in two.
LEMMA CutFacts ==
    ASSUME NEW s \in Seq(Nat), NEW n \in 0..Len(s)
    PROVE  /\ Firsts(s, n) \in Seq(Nat) /\ Len(Firsts(s, n)) = n
           /\ Rest(s, n) \in Seq(Nat) /\ Len(Rest(s, n)) = Len(s) - n
           /\ Firsts(s, n) \o Rest(s, n) = s
  <1>1. Len(s) \in Nat /\ \A i \in 1..Len(s) : s[i] \in Nat
    BY LenProperties, ElementOfSeq
  <1>2. Firsts(s, n) \in Seq(Nat) /\ Len(Firsts(s, n)) = n
    BY <1>1, SubSeqProperties DEF Firsts
  <1>3. Rest(s, n) \in Seq(Nat) /\ Len(Rest(s, n)) = Len(s) - n
    <2>1. n + 1 \in Int /\ Len(s) \in Int /\ \A i \in (n + 1)..Len(s) : s[i] \in Nat
      BY <1>1
    <2>2. /\ SubSeq(s, n + 1, Len(s)) \in Seq(Nat)
          /\ Len(SubSeq(s, n + 1, Len(s))) = IF n + 1 <= Len(s) THEN Len(s) - (n + 1) + 1 ELSE 0
      BY <2>1, SubSeqProperties
    <2> QED
      BY <1>1, <2>2 DEF Rest
  <1>4. SubSeq(s, 1, n) \o SubSeq(s, n + 1, Len(s)) = SubSeq(s, 1, Len(s))
    <2>1. /\ 1 \in 1 .. Len(s) + 1 /\ n \in 1 - 1 .. Len(s) /\ Len(s) \in n .. Len(s)
      BY <1>1
    <2> QED
      BY <2>1, ConcatAdjacentSubSeq
  <1>5. SubSeq(s, 1, Len(s)) = s
    BY SubSeqFull
  <1> QED
    BY <1>2, <1>3, <1>4, <1>5 DEF Firsts, Rest

LEMMA LeastFacts ==
    ASSUME NEW m \in Nat, NEW n \in Nat
    PROVE  Least(m, n) \in 0..n /\ Least(m, n) <= m
  BY DEF Least

\* The lengths the steps compute with.
LEMMA LengthFacts ==
    ASSUME TypeOK, NEW d \in Directions
    PROVE  /\ inq[d] \in Seq(Nat) /\ buffer[d] \in Seq(Nat) /\ outq[d] \in Seq(Nat)
           /\ got[d] \in Seq(Nat) /\ sent[d] \in Nat
           /\ Len(inq[d]) \in Nat /\ Len(outq[d]) \in Nat
           /\ Room(d) \in Nat /\ Window - Len(outq[d]) \in Nat
           /\ Accepts(d) \in 0..Len(buffer[d]) /\ Len(buffer[d]) \in Nat
           /\ ~gone[d] => Accepts(d) <= Window - Len(outq[d])
  <1>1. /\ inq[d] \in Seq(Nat) /\ buffer[d] \in Seq(Nat) /\ outq[d] \in Seq(Nat)
        /\ got[d] \in Seq(Nat) /\ sent[d] \in Nat
        /\ Len(buffer[d]) <= BufferSize /\ Len(outq[d]) <= Window
    BY DEF TypeOK, Streams
  <1>2. Len(inq[d]) \in Nat /\ Len(outq[d]) \in Nat /\ Len(buffer[d]) \in Nat
    BY <1>1, LenProperties
  <1>3. Room(d) \in Nat /\ Window - Len(outq[d]) \in Nat
    BY <1>1, <1>2, RelayAssumption DEF Room
  <1>4. /\ Least(Len(buffer[d]), Window - Len(outq[d])) \in 0..(Window - Len(outq[d]))
        /\ Least(Len(buffer[d]), Window - Len(outq[d])) <= Len(buffer[d])
    BY <1>2, <1>3, LeastFacts
  <1>5. Accepts(d) \in 0..Len(buffer[d]) /\ (~gone[d] => Accepts(d) <= Window - Len(outq[d]))
    BY <1>2, <1>3, <1>4 DEF Accepts
  <1> QED
    BY <1>1, <1>2, <1>3, <1>5

LEMMA ProceedsFacts ==
    ASSUME NEW keys \in SUBSET Directions, Proceeds(keys), serving \in Directions
    PROVE  /\ selected' = keys /\ serving' \in Directions
           /\ at' \in {"read", "select", "close"}
           /\ at' = "read" => serving' \in keys
           /\ at' = "close" => ~mustRun'
  BY DEF Proceeds

-----------------------------------------------------------------------------
(* Types                                                                   *)

\* What TypeOK says of the thread, and of the streams.
ThreadOK ==
    /\ at \in {"select", "read", "write", "close", "done"}
    /\ selected \subseteq Directions /\ serving \in Directions
    /\ mustRun \in BOOLEAN /\ asked \in BOOLEAN
    /\ at \in {"read", "write"} => serving \in selected
StreamsOK ==
    /\ sent \in [Directions -> Nat] /\ \A d \in Directions : sent[d] <= MaxBytes[d]
    /\ inq \in Streams /\ buffer \in Streams /\ outq \in Streams /\ got \in Streams
    /\ eof \in [Directions -> BOOLEAN] /\ gone \in [Directions -> BOOLEAN]
    /\ \A d \in Directions : Len(buffer[d]) <= BufferSize /\ Len(outq[d]) <= Window

LEMMA TypeInitially == Init => TypeOK
  <1> SUFFICES ASSUME Init PROVE TypeOK
    OBVIOUS
  <1>1. <<>> \in Seq(Nat) /\ Len(<<>>) = 0
    BY EmptySeq
  <1>2. StreamsOK
    BY <1>1, RelayAssumption DEF Init, StreamsOK, Streams
  <1>3. ThreadOK
    BY DEF Init, ThreadOK, Directions
  <1> QED
    BY <1>2, <1>3 DEF TypeOK, StreamsOK, ThreadOK

LEMMA ThreadKept == TypeOK /\ [Next]_vars => ThreadOK'
  <1> SUFFICES ASSUME TypeOK, [Next]_vars PROVE ThreadOK'
    OBVIOUS
  <1>0. ThreadOK
    BY DEF TypeOK, ThreadOK
  <1>1. CASE Select
    <2>1. {d \in Directions : Readable(d)} \in SUBSET Directions
      OBVIOUS
    <2> QED
      BY <1>0, <1>1, <2>1, ProceedsFacts DEF Select, ThreadOK
  <1>2. ASSUME NEW d \in Directions, ReadEnd(d) \/ Write(d) PROVE ThreadOK'
    <2>1. selected \ {d} \in SUBSET Directions
      BY <1>0 DEF ThreadOK
    <2> QED
      BY <1>0, <1>2, <2>1, ProceedsFacts DEF ReadEnd, Write, ThreadOK
  <1>3. CASE Leave \/ Close \/ Environment \/ UNCHANGED vars
    BY <1>0, <1>3 DEF Leave, Close, Environment, SetMustRun, Send, Receive, Ends, vars, ThreadOK
  <1>4. ASSUME NEW d \in Directions, Read(d) \/ Fails(d) PROVE ThreadOK'
    BY <1>0, <1>4 DEF Read, Fails, ThreadOK
  <1> QED
    BY <1>1, <1>2, <1>3, <1>4 DEF Next, Thread

LEMMA StreamsKept == TypeOK /\ [Next]_vars => StreamsOK'
  <1> SUFFICES ASSUME TypeOK, [Next]_vars PROVE StreamsOK'
    OBVIOUS
  <1>0. StreamsOK
    BY DEF TypeOK, StreamsOK
  <1>1. CASE UNCHANGED <<streams, buffer>>
    BY <1>0, <1>1 DEF streams, StreamsOK
  <1>2. ASSUME NEW d \in Directions, Read(d) PROVE StreamsOK'
    <2> DEFINE n == Least(Room(d), Len(inq[d]))
    <2>1. n \in 0..Len(inq[d]) /\ n <= BufferSize - Len(buffer[d])
      BY LengthFacts, LeastFacts DEF Room
    <2> HIDE DEF n
    <2>2. /\ Firsts(inq[d], n) \in Seq(Nat) /\ Len(Firsts(inq[d], n)) = n
          /\ Rest(inq[d], n) \in Seq(Nat)
      BY <2>1, LengthFacts, CutFacts
    <2>3. /\ buffer[d] \o Firsts(inq[d], n) \in Seq(Nat)
          /\ Len(buffer[d] \o Firsts(inq[d], n)) <= BufferSize
      <3>1. buffer[d] \in Seq(Nat) /\ Len(buffer[d]) \in Nat
        BY LengthFacts
      <3>2. /\ buffer[d] \o Firsts(inq[d], n) \in Seq(Nat)
            /\ Len(buffer[d] \o Firsts(inq[d], n)) = Len(buffer[d]) + n
        BY <2>2, <3>1, ConcatFacts, Zenon
      <3>3. n \in Nat
        BY <2>1, LengthFacts
      <3> QED
        BY <2>1, <3>1, <3>2, <3>3, RelayAssumption
    <2>4. /\ buffer' = [buffer EXCEPT ![d] = buffer[d] \o Firsts(inq[d], n)]
          /\ inq' = [inq EXCEPT ![d] = Rest(inq[d], n)]
          /\ UNCHANGED <<sent, eof, outq, got, gone>>
      BY <1>2 DEF Read, n
    <2> QED
      BY <1>0, <2>2, <2>3, <2>4 DEF StreamsOK, Streams
  <1>3. ASSUME NEW d \in Directions, Write(d) PROVE StreamsOK'
    <2>1. /\ Firsts(buffer[d], Accepts(d)) \in Seq(Nat)
          /\ Len(Firsts(buffer[d], Accepts(d))) = Accepts(d)
          /\ Rest(buffer[d], Accepts(d)) \in Seq(Nat)
          /\ Len(Rest(buffer[d], Accepts(d))) <= Len(buffer[d])
      BY LengthFacts, CutFacts
    <2>2. ~gone[d] => /\ outq[d] \o Firsts(buffer[d], Accepts(d)) \in Seq(Nat)
                      /\ Len(outq[d] \o Firsts(buffer[d], Accepts(d))) <= Window
      <3>1. /\ outq[d] \o Firsts(buffer[d], Accepts(d)) \in Seq(Nat)
            /\ Len(outq[d] \o Firsts(buffer[d], Accepts(d))) = Len(outq[d]) + Accepts(d)
        BY <2>1, LengthFacts, ConcatFacts
      <3>2. /\ Len(outq[d]) \in Nat /\ Accepts(d) \in Nat
            /\ ~gone[d] => Accepts(d) <= Window - Len(outq[d])
        BY LengthFacts
      <3> QED
        BY <3>1, <3>2, RelayAssumption
    <2>3. /\ outq' = [outq EXCEPT ![d] = IF gone[d] THEN outq[d]
                                         ELSE outq[d] \o Firsts(buffer[d], Accepts(d))]
          /\ buffer' = [buffer EXCEPT ![d] = Rest(buffer[d], Accepts(d))]
          /\ UNCHANGED <<sent, inq, eof, got, gone>>
      BY <1>3 DEF Write, Compact
    <2>4. Len(Rest(buffer[d], Accepts(d))) <= BufferSize
      <3>1. Len(Rest(buffer[d], Accepts(d))) \in Nat /\ Len(buffer[d]) <= BufferSize
        BY <1>0, <2>1, LenProperties DEF StreamsOK
      <3> QED
        BY <2>1, <3>1, LengthFacts, RelayAssumption
    <2> QED
      BY <1>0, <2>1, <2>2, <2>3, <2>4 DEF StreamsOK, Streams
  <1>4. ASSUME NEW d \in Directions, Send(d) PROVE StreamsOK'
    <2>1. Append(inq[d], sent[d] + 1) \in Seq(Nat) /\ sent[d] + 1 \in Nat
      BY LengthFacts, AppendProperties
    <2>2. /\ sent' = [sent EXCEPT ![d] = sent[d] + 1] /\ sent[d] < MaxBytes[d]
          /\ inq' = [inq EXCEPT ![d] = Append(inq[d], sent[d] + 1)]
          /\ UNCHANGED <<eof, buffer, outq, got, gone>>
      BY <1>0, <1>4 DEF Send, StreamsOK
    <2>3. sent[d] + 1 <= MaxBytes[d]
      BY <2>2, LengthFacts, RelayAssumption
    <2> QED
      BY <1>0, <2>1, <2>2, <2>3 DEF StreamsOK, Streams
  <1>5. ASSUME NEW d \in Directions, Receive(d) PROVE StreamsOK'
    <2>1. /\ Head(outq[d]) \in Nat /\ Tail(outq[d]) \in Seq(Nat)
          /\ Len(Tail(outq[d])) = Len(outq[d]) - 1
      BY <1>5, LengthFacts, HeadTailProperties DEF Receive
    <2>2. Append(got[d], Head(outq[d])) \in Seq(Nat)
      BY <2>1, LengthFacts, AppendProperties
    <2>3. Len(Tail(outq[d])) <= Window
      BY <1>0, <2>1, LengthFacts, RelayAssumption DEF StreamsOK
    <2>4. /\ got' = [got EXCEPT ![d] = Append(got[d], Head(outq[d]))]
          /\ outq' = [outq EXCEPT ![d] = Tail(outq[d])]
          /\ UNCHANGED <<sent, inq, eof, buffer, gone>>
      BY <1>5 DEF Receive
    <2> QED
      BY <1>0, <2>1, <2>2, <2>3, <2>4 DEF StreamsOK, Streams
  <1>6. ASSUME NEW d \in Directions, Ends(d) PROVE StreamsOK'
    BY <1>0, <1>6, OppositeFacts DEF Ends, StreamsOK
  <1> QED
    BY <1>1, <1>2, <1>3, <1>4, <1>5, <1>6
    DEF Next, Thread, Environment, Select, Leave, Close, ReadEnd, Fails, SetMustRun, vars, streams

\* Every variable keeps its type, no buffer overflows, and who is served was selected.
THEOREM TypesOfRelay == Spec => []TypeOK
  <1>1. TypeOK /\ [Next]_vars => TypeOK'
    BY ThreadKept, StreamsKept DEF TypeOK, ThreadOK, StreamsOK
  <1> QED
    BY <1>1, TypeInitially, PTL DEF Spec

-----------------------------------------------------------------------------
(* The streams                                                             *)

Whole(d) == got[d] \o outq[d] \o buffer[d] \o inq[d]
Numbers(n) == [i \in 1..n |-> i]

LEMMA NumbersFacts ==
    ASSUME NEW n \in Nat
    PROVE  Numbers(n) \in Seq(Nat) /\ Append(Numbers(n), n + 1) = Numbers(n + 1)
  <1>1. \A m \in Nat : Numbers(m) \in Seq(Nat) /\ Len(Numbers(m)) = m
    BY DEF Numbers
  <1>2. /\ Append(Numbers(n), n + 1) \in Seq(Nat)
        /\ Len(Append(Numbers(n), n + 1)) = n + 1
        /\ \A i \in 1..n : Append(Numbers(n), n + 1)[i] = i
        /\ Append(Numbers(n), n + 1)[n + 1] = n + 1
    <2>1. \A i \in 1..n : Numbers(n)[i] = i
      BY DEF Numbers
    <2>2. Numbers(n) \in Seq(Nat) /\ Len(Numbers(n)) = n /\ n + 1 \in Nat
      BY <1>1
    <2>3. /\ Append(Numbers(n), n + 1) \in Seq(Nat)
          /\ Len(Append(Numbers(n), n + 1)) = Len(Numbers(n)) + 1
          /\ \A i \in 1..Len(Numbers(n)) : Append(Numbers(n), n + 1)[i] = Numbers(n)[i]
          /\ Append(Numbers(n), n + 1)[Len(Numbers(n)) + 1] = n + 1
      BY <2>2, AppendProperties
    <2> QED
      BY <2>1, <2>2, <2>3
  <1>3. \A i \in 1..(n + 1) : Append(Numbers(n), n + 1)[i] = Numbers(n + 1)[i]
    BY <1>2 DEF Numbers
  <1> QED
    BY <1>1, <1>2, <1>3, SeqEqual

LEMMA AppendToConcat ==
    ASSUME NEW s \in Seq(Nat), NEW t \in Seq(Nat), NEW e \in Nat
    PROVE  s \o Append(t, e) = Append(s \o t, e)
  <1>1. <<e>> \in Seq(Nat) /\ s \o t \in Seq(Nat)
    BY ConcatProperties
  <1>2. Append(t, e) = t \o <<e>> /\ Append(s \o t, e) = (s \o t) \o <<e>>
    BY <1>1, AppendIsConcat
  <1> QED
    BY <1>1, <1>2, ConcatAssociative

\* A cut anywhere in a concatenation does not show.
LEMMA CutInside ==
    ASSUME NEW s \in Seq(Nat), NEW t \in Seq(Nat), NEW n \in 0..Len(t)
    PROVE  (s \o Firsts(t, n)) \o Rest(t, n) = s \o t
  <1>1. /\ Firsts(t, n) \in Seq(Nat) /\ Rest(t, n) \in Seq(Nat)
        /\ Firsts(t, n) \o Rest(t, n) = t
    BY CutFacts
  <1>2. (s \o Firsts(t, n)) \o Rest(t, n) = s \o (Firsts(t, n) \o Rest(t, n))
    BY <1>1, Associative, Zenon
  <1> QED
    BY <1>1, <1>2

LEMMA HeadMoves ==
    ASSUME NEW s \in Seq(Nat), NEW t \in Seq(Nat), t # <<>>
    PROVE  Append(s, Head(t)) \o Tail(t) = s \o t
  <1>1. Head(t) \in Nat /\ Tail(t) \in Seq(Nat) /\ <<Head(t)>> \in Seq(Nat)
    BY HeadTailProperties
  <1>2. Append(s, Head(t)) = s \o <<Head(t)>>
    BY <1>1, AppendIsConcat
  <1>3. <<Head(t)>> \o Tail(t) = t
    <2>1. Len(t) \in Nat \ {0} /\ 1 \in 1..Len(t) /\ Len(t) \in 1..Len(t)
      BY EmptySeq
    <2>2. SubSeq(t, 1, Len(t)) = <<t[1]>> \o SubSeq(t, 1 + 1, Len(t))
      BY <2>1, SubSeqRecursiveFirst
    <2>3. SubSeq(t, 1, Len(t)) = t
      BY SubSeqFull
    <2>4. Tail(t) = SubSeq(t, 2, Len(t))
      BY TailIsSubSeq
    <2>5. Head(t) = t[1]
      <3>1. Head(SubSeq(t, 1, Len(t))) = t[1]
        BY <2>1, HeadTailOfSubSeq
      <3> QED
        BY <2>3, <3>1
    <2> QED
      BY <2>2, <2>3, <2>4, <2>5
  <1>4. (s \o <<Head(t)>>) \o Tail(t) = s \o (<<Head(t)>> \o Tail(t))
    BY <1>1, Associative, Zenon
  <1> QED
    BY <1>2, <1>3, <1>4, Zenon

LEMMA WholeKept ==
    ASSUME TypeOK, StreamIntact, [Next]_vars
    PROVE  StreamIntact'
  <1> SUFFICES ASSUME NEW e \in Directions, ~gone'[e]
               PROVE  Whole(e)' = Numbers(sent'[e])
    BY DEF StreamIntact, Whole, Numbers
  <1>0. \A d \in Directions : ~gone[d] => Whole(d) = Numbers(sent[d])
    BY DEF StreamIntact, Whole, Numbers
  <1>1. ~gone[e]
    BY DEF Next, Thread, Environment, Select, Leave, Close, Read, ReadEnd, Write, Fails, SetMustRun,
       Send, Receive, Ends, vars, streams, TypeOK
  <1>2. CASE UNCHANGED <<sent, inq, buffer, outq, got>>
    BY <1>0, <1>1, <1>2 DEF Whole
  <1>a. /\ got[e] \in Seq(Nat) /\ outq[e] \in Seq(Nat) /\ buffer[e] \in Seq(Nat)
        /\ inq[e] \in Seq(Nat) /\ sent[e] \in Nat
    BY LengthFacts
  <1>b. got[e] \o outq[e] \in Seq(Nat) /\ (got[e] \o outq[e]) \o buffer[e] \in Seq(Nat)
    BY <1>a, ConcatProperties
  <1>3. ASSUME NEW d \in Directions, Read(d) PROVE Whole(e)' = Numbers(sent'[e])
    <2> DEFINE n == Least(Room(d), Len(inq[d]))
    <2>1. n \in 0..Len(inq[d])
      BY LengthFacts, LeastFacts
    <2>2. /\ buffer' = [buffer EXCEPT ![d] = buffer[d] \o Firsts(inq[d], n)]
          /\ inq' = [inq EXCEPT ![d] = Rest(inq[d], n)]
          /\ UNCHANGED <<sent, outq, got>>
      BY <1>3 DEF Read, n
    <2> HIDE DEF n
    <2>3. CASE e # d
      BY <1>0, <1>1, <2>2, <2>3 DEF Whole, TypeOK, Streams
    <2>4. CASE e = d
      <3>1. /\ buffer'[e] = buffer[e] \o Firsts(inq[e], n) /\ inq'[e] = Rest(inq[e], n)
            /\ sent' = sent /\ outq' = outq /\ got' = got
        BY <2>2, <2>4 DEF TypeOK, Streams
      <3>2. ((got[e] \o outq[e]) \o (buffer[e] \o Firsts(inq[e], n))) \o Rest(inq[e], n)
              = ((got[e] \o outq[e]) \o buffer[e]) \o inq[e]
        <4>1. n \in 0..Len(inq[e])
          BY <2>1, <2>4
        <4> DEFINE s == got[e] \o outq[e]
                   b == buffer[e]
                   t == inq[e]
        <4>2. s \in Seq(Nat) /\ b \in Seq(Nat) /\ t \in Seq(Nat) /\ n \in 0..Len(t)
          BY <1>a, <1>b, <4>1
        <4> HIDE DEF s, b, t
        <4>3. Firsts(t, n) \in Seq(Nat) /\ s \o b \in Seq(Nat)
          BY <4>2, CutFacts, ConcatFacts
        <4>4. (s \o b) \o Firsts(t, n) = s \o (b \o Firsts(t, n))
          BY <4>2, <4>3, Associative, Zenon
        <4>5. ((s \o b) \o Firsts(t, n)) \o Rest(t, n) = (s \o b) \o t
          BY <4>2, <4>3, CutInside
        <4>6. (s \o (b \o Firsts(t, n))) \o Rest(t, n) = (s \o b) \o t
          BY <4>4, <4>5, Zenon
        <4> QED
          BY <4>6 DEF s, b, t
      <3> QED
        BY <1>0, <1>1, <3>1, <3>2 DEF Whole
    <2> QED
      BY <2>3, <2>4
  <1>4. ASSUME NEW d \in Directions, Write(d) PROVE Whole(e)' = Numbers(sent'[e])
    <2>1. /\ buffer' = [buffer EXCEPT ![d] = Rest(buffer[d], Accepts(d))]
          /\ outq' = [outq EXCEPT ![d] = IF gone[d] THEN outq[d]
                                         ELSE outq[d] \o Firsts(buffer[d], Accepts(d))]
          /\ UNCHANGED <<sent, inq, got>>
      BY <1>4 DEF Write, Compact
    <2>2. CASE e # d
      BY <1>0, <1>1, <2>1, <2>2 DEF Whole, TypeOK, Streams
    <2>3. CASE e = d
      <3>1. /\ buffer'[e] = Rest(buffer[e], Accepts(e))
            /\ outq'[e] = outq[e] \o Firsts(buffer[e], Accepts(e))
            /\ sent' = sent /\ inq' = inq /\ got' = got
        BY <1>1, <2>1, <2>3 DEF TypeOK, Streams
      <3>2. Accepts(e) \in 0..Len(buffer[e])
        BY LengthFacts
      <3>3. Firsts(buffer[e], Accepts(e)) \in Seq(Nat)
        BY <1>a, <3>2, CutFacts
      <3>4. got[e] \o (outq[e] \o Firsts(buffer[e], Accepts(e)))
              = (got[e] \o outq[e]) \o Firsts(buffer[e], Accepts(e))
        BY <1>a, <3>3, Associative, Zenon
      <3>5. ((got[e] \o outq[e]) \o Firsts(buffer[e], Accepts(e))) \o Rest(buffer[e], Accepts(e))
              = (got[e] \o outq[e]) \o buffer[e]
        BY <1>a, <1>b, <3>2, CutInside
      <3> QED
        BY <1>0, <1>1, <3>1, <3>4, <3>5 DEF Whole
    <2> QED
      BY <2>2, <2>3
  <1>5. ASSUME NEW d \in Directions, Send(d) PROVE Whole(e)' = Numbers(sent'[e])
    <2>1. /\ sent' = [sent EXCEPT ![d] = sent[d] + 1]
          /\ inq' = [inq EXCEPT ![d] = Append(inq[d], sent[d] + 1)]
          /\ UNCHANGED <<buffer, outq, got>>
      BY <1>5 DEF Send, TypeOK
    <2>2. CASE e # d
      BY <1>0, <1>1, <2>1, <2>2 DEF Whole, TypeOK, Streams
    <2>3. CASE e = d
      <3>1. /\ sent'[e] = sent[e] + 1 /\ inq'[e] = Append(inq[e], sent[e] + 1)
            /\ buffer' = buffer /\ outq' = outq /\ got' = got /\ sent[e] + 1 \in Nat
        BY <1>a, <2>1, <2>3 DEF TypeOK, Streams
      <3>2. ((got[e] \o outq[e]) \o buffer[e]) \o Append(inq[e], sent[e] + 1)
              = Append(((got[e] \o outq[e]) \o buffer[e]) \o inq[e], sent[e] + 1)
        BY <1>a, <1>b, <3>1, AppendToConcat, Zenon
      <3>3. Whole(e)' = Append(Whole(e), sent[e] + 1)
        BY <3>1, <3>2 DEF Whole
      <3> QED
        BY <1>0, <1>1, <1>a, <3>1, <3>3, NumbersFacts
    <2> QED
      BY <2>2, <2>3
  <1>6. ASSUME NEW d \in Directions, Receive(d) PROVE Whole(e)' = Numbers(sent'[e])
    <2>1. /\ got' = [got EXCEPT ![d] = Append(got[d], Head(outq[d]))]
          /\ outq' = [outq EXCEPT ![d] = Tail(outq[d])] /\ outq[d] # <<>>
          /\ UNCHANGED <<sent, inq, buffer>>
      BY <1>6 DEF Receive
    <2>2. CASE e # d
      BY <1>0, <1>1, <2>1, <2>2 DEF Whole, TypeOK, Streams
    <2>3. CASE e = d
      <3>1. /\ got'[e] = Append(got[e], Head(outq[e])) /\ outq'[e] = Tail(outq[e])
            /\ sent' = sent /\ inq' = inq /\ buffer' = buffer /\ outq[e] # <<>>
        BY <2>1, <2>3 DEF TypeOK, Streams
      <3>2. got'[e] \o outq'[e] = got[e] \o outq[e]
        BY <1>a, <3>1, HeadMoves
      <3> QED
        BY <1>0, <1>1, <3>1, <3>2 DEF Whole
    <2> QED
      BY <2>2, <2>3
  <1> QED
    BY <1>2, <1>3, <1>4, <1>5, <1>6
    DEF Next, Thread, Environment, Select, Leave, Close, ReadEnd, Fails, SetMustRun, Ends, vars, streams

\* Nothing of a stream is lost, repeated or reordered between its ends, whatever the sizes
\* of the buffer and of what the other channel accepts.
THEOREM StreamsOfRelay == Spec => []StreamIntact
  <1>1. Init => StreamIntact
    <2> SUFFICES ASSUME Init, NEW d \in Directions
                 PROVE  got[d] \o outq[d] \o buffer[d] \o inq[d] = [i \in 1..sent[d] |-> i]
      BY DEF StreamIntact
    <2>1. <<>> \o <<>> = <<>>
      BY EmptySeq, ConcatEmptySeq
    <2>2. [i \in 1..0 |-> i] = <<>>
      OBVIOUS
    <2> QED
      BY <2>1, <2>2 DEF Init
  <1>2. TypeOK /\ StreamIntact /\ [Next]_vars => StreamIntact'
    BY WholeKept
  <1> QED
    BY <1>1, <1>2, TypesOfRelay, PTL DEF Spec

-----------------------------------------------------------------------------
(* The reason to close                                                     *)

Reason == asked \/ \E d \in Directions : eof[d]

\* What stops the thread is a reason, what is read was readable when it was selected, and
\* only the thread itself makes it less so.
ReasonInv ==
    /\ ~mustRun \/ at \in {"close", "done"} => Reason
    /\ at = "read" => \A d \in selected : Readable(d)
    /\ at = "write" => \A d \in selected \ {serving} : Readable(d)
    /\ \A d \in Directions : gone[d] => eof[Opposite(d)]

LEMMA ReasonKept ==
    ASSUME TypeOK, ReasonInv, [Next]_vars
    PROVE  ReasonInv'
  <1>0. selected \in SUBSET Directions /\ serving \in Directions
    BY DEF TypeOK
  <1>1. CASE Select
    <2>1. {d \in Directions : Readable(d)} \in SUBSET Directions /\ mustRun' = mustRun
      BY <1>1 DEF Select
    <2>2. /\ selected' = {d \in Directions : Readable(d)}
          /\ at' \in {"read", "select", "close"} /\ (at' = "close" => ~mustRun')
      BY <1>0, <1>1, <2>1, ProceedsFacts DEF Select
    <2> QED
      BY <1>1, <2>1, <2>2 DEF Select, streams, ReasonInv, Reason, Readable
  <1>2. ASSUME NEW d \in Directions, ReadEnd(d) PROVE ReasonInv'
    <2>1. at = "read" /\ serving = d /\ inq[d] = <<>> /\ UNCHANGED <<streams, asked>>
      BY <1>2 DEF ReadEnd, AtEnd
    <2>2. eof[d]
      BY <2>1 DEF TypeOK, ReasonInv, Readable
    <2>3. selected \ {d} \in SUBSET Directions
      BY <1>0
    <2>4. selected' = selected \ {d} /\ at' \in {"read", "select", "close"}
      BY <1>0, <1>2, <2>3, ProceedsFacts DEF ReadEnd
    <2> QED
      BY <2>1, <2>2, <2>4 DEF streams, ReasonInv, Reason, Readable
  <1>3. ASSUME NEW d \in Directions, Write(d) PROVE ReasonInv'
    <2>1. /\ at = "write" /\ serving = d /\ mustRun' = mustRun
          /\ UNCHANGED <<inq, eof, gone, asked>>
      BY <1>3 DEF Write
    <2>2. selected \ {d} \in SUBSET Directions
      BY <1>0
    <2>3. /\ selected' = selected \ {d} /\ at' \in {"read", "select", "close"}
          /\ at' = "close" => ~mustRun'
      BY <1>0, <1>3, <2>2, ProceedsFacts DEF Write
    <2> QED
      BY <2>1, <2>3 DEF ReasonInv, Reason, Readable
  <1>4. ASSUME NEW d \in Directions, Read(d) PROVE ReasonInv'
    <2>1. /\ at = "read" /\ serving = d /\ at' = "write"
          /\ \A e \in Directions \ {d} : inq'[e] = inq[e]
          /\ UNCHANGED <<eof, gone, selected, serving, mustRun, asked>>
      BY <1>4 DEF Read, TypeOK, Streams
    <2> QED
      BY <1>0, <2>1 DEF ReasonInv, Reason, Readable
  <1>5. ASSUME NEW d \in Directions, Fails(d) PROVE ReasonInv'
    <2>1. Reason
      BY <1>5, OppositeFacts DEF Fails, ReasonInv, Reason
    <2> QED
      BY <1>5, <2>1 DEF Fails, streams, ReasonInv, Reason
  <1>6. ASSUME NEW d \in Directions, Send(d) PROVE ReasonInv'
    <2>1. /\ inq'[d] # <<>> /\ \A e \in Directions \ {d} : inq'[e] = inq[e]
          /\ UNCHANGED <<eof, gone, at, selected, serving, mustRun, asked>>
      <3>1. inq'[d] = Append(inq[d], sent'[d]) /\ sent'[d] \in Nat /\ inq[d] \in Seq(Nat)
        BY <1>6 DEF Send, TypeOK, Streams
      <3>2. inq'[d] # <<>>
        BY <3>1, AppendProperties
      <3> QED
        BY <1>6, <3>2 DEF Send, TypeOK, Streams
    <2> QED
      BY <1>0, <2>1 DEF ReasonInv, Reason, Readable
  <1>7. ASSUME NEW d \in Directions, Ends(d) PROVE ReasonInv'
    <2>1. /\ eof'[d] /\ \A e \in Directions : eof[e] => eof'[e]
          /\ \A e \in Directions : gone'[e] => gone[e] \/ e = Opposite(d)
          /\ UNCHANGED <<inq, at, selected, serving, mustRun, asked>>
      BY <1>7, OppositeFacts DEF Ends, TypeOK
    <2> QED
      BY <1>0, <2>1, OppositeFacts DEF ReasonInv, Reason, Readable
  <1>8. CASE Leave \/ Close
    BY <1>8 DEF Leave, Close, streams, ReasonInv, Reason
  <1>9. CASE SetMustRun
    BY <1>9 DEF SetMustRun, streams, ReasonInv, Reason, Readable
  <1>10. ASSUME NEW d \in Directions, Receive(d) PROVE ReasonInv'
    BY <1>10 DEF Receive, ReasonInv, Reason, Readable
  <1>11. CASE UNCHANGED vars
    BY <1>11 DEF vars, ReasonInv, Reason, Readable
  <1> QED
    BY <1>1, <1>2, <1>3, <1>4, <1>5, <1>6, <1>7, <1>8, <1>9, <1>10, <1>11
    DEF Next, Thread, Environment

LEMMA ReasonAlways == Spec => []ReasonInv
  <1>1. Init => ReasonInv
    BY DEF Init, ReasonInv
  <1>2. TypeOK /\ ReasonInv /\ [Next]_vars => ReasonInv'
    BY ReasonKept
  <1> QED
    BY <1>1, <1>2, TypesOfRelay, PTL DEF Spec

\* The channels are closed only after a stream ended or setMustRun was called: a full
\* buffer, into which nothing can be read, is not taken for an end.
THEOREM ReasonOfRelay == Spec => []ClosesForAReason
  <1>1. ReasonInv => ClosesForAReason
    BY DEF ReasonInv, Reason, ClosesForAReason
  <1> QED
    BY <1>1, ReasonAlways, PTL

-----------------------------------------------------------------------------
(* The relay is a pair of byte streams                                     *)

LEMMA IndexFacts ==
    ASSUME NEW s \in Seq(Nat), NEW t \in Seq(Nat)
    PROVE  /\ \A i \in 1..Len(s) : (s \o t)[i] = s[i]
           /\ \A i \in 1..Len(t) : (s \o t)[Len(s) + i] = t[i]
  BY ConcatProperties

\* What the destination receives next is the byte that follows the last one it has.
LEMMA NextByte ==
    ASSUME TypeOK, StreamIntact, NEW d \in Directions, ~gone[d], outq[d] # <<>>
    PROVE  Len(got[d]) < sent[d] /\ Head(outq[d]) = Len(got[d]) + 1
  <1> DEFINE g == got[d]
             o == outq[d]
             b == buffer[d]
             q == inq[d]
             n == Len(g) + 1
  <1>1. /\ g \in Seq(Nat) /\ o \in Seq(Nat) /\ b \in Seq(Nat) /\ q \in Seq(Nat)
        /\ sent[d] \in Nat
    BY LengthFacts
  <1>2. ((g \o o) \o b) \o q = Numbers(sent[d])
    BY DEF StreamIntact, Numbers
  <1>3. Len(o) \in Nat \ {0} /\ Head(o) = o[1]
    BY <1>1, EmptySeq, LenProperties, HeadTailProperties
  <1> HIDE DEF g, o, b, q
  <1>4. /\ Len(g) \in Nat /\ Len(b) \in Nat /\ Len(q) \in Nat
        /\ g \o o \in Seq(Nat) /\ Len(g \o o) = Len(g) + Len(o)
    BY <1>1, ConcatFacts, LenProperties
  <1>5. (g \o o) \o b \in Seq(Nat) /\ Len((g \o o) \o b) = Len(g) + Len(o) + Len(b)
    BY <1>1, <1>4, ConcatFacts
  <1>6. Len(((g \o o) \o b) \o q) = Len(g) + Len(o) + Len(b) + Len(q)
    BY <1>1, <1>5, ConcatFacts
  <1>7. Len(Numbers(sent[d])) = sent[d]
    BY <1>1 DEF Numbers
  <1>8. n \in 1..sent[d]
    BY <1>1, <1>2, <1>3, <1>4, <1>6, <1>7
  <1>9. (g \o o)[n] = o[1]
    BY <1>1, <1>3, IndexFacts
  <1>10. ((g \o o) \o b)[n] = (g \o o)[n]
    <2>1. n \in 1..Len(g \o o)
      BY <1>3, <1>4
    <2> QED
      BY <1>1, <1>4, <2>1, IndexFacts
  <1>11. (((g \o o) \o b) \o q)[n] = ((g \o o) \o b)[n]
    <2>1. n \in 1..Len((g \o o) \o b)
      BY <1>3, <1>4, <1>5
    <2> QED
      BY <1>1, <1>5, <2>1, IndexFacts
  <1>12. Numbers(sent[d])[n] = n
    BY <1>8 DEF Numbers
  <1>13. Head(o) = n
    BY <1>2, <1>3, <1>9, <1>10, <1>11, <1>12
  <1> QED
    BY <1>1, <1>4, <1>8, <1>13 DEF g, o

\* Every step of the relay is one of the pair of streams, or none of theirs.
LEMMA StepIsOfStreams ==
    ASSUME TypeOK, StreamIntact, ReasonInv, [Next]_vars
    PROVE  [Service!Next]_(Service!vars)
  <1>1. CASE Select \/ Leave \/ \E d \in Directions : Read(d) \/ ReadEnd(d) \/ Write(d) \/ Fails(d)
    <2>1. UNCHANGED <<sent, got, eof, asked>> /\ at # "done"
      BY <1>1 DEF Select, Leave, Read, ReadEnd, Write, Fails, streams
    <2>2. at' # "done"
      BY <1>1 DEF Select, Leave, Read, ReadEnd, Write, Fails, Proceeds
    <2> QED
      BY <2>1, <2>2 DEF Service!vars, Closed
  <1>2. CASE Close
    <2>1. Reason
      BY <1>2 DEF Close, ReasonInv
    <2>2. Closed' = TRUE /\ UNCHANGED <<sent, got, eof, asked>>
      BY <1>2 DEF Close, Closed, streams
    <2>3. Service!Close
      BY <2>1, <2>2 DEF Service!Close, Reason
    <2> QED
      BY <2>3 DEF Service!Next
  <1>3. CASE SetMustRun
    <2>1. asked' = TRUE /\ UNCHANGED <<sent, got, eof>> /\ Closed' = Closed
      BY <1>3 DEF SetMustRun, streams, Closed
    <2> QED
      BY <2>1 DEF Service!Tell, Service!Next
  <1>4. ASSUME NEW d \in Directions, Send(d) PROVE Service!Next
    <2>1. /\ ~eof[d] /\ ~Closed /\ sent' = [sent EXCEPT ![d] = @ + 1]
          /\ UNCHANGED <<got, eof, asked>> /\ Closed' = Closed
      BY <1>4 DEF Send, Closed
    <2>2. Service!Send(d)
      BY <2>1 DEF Service!Send
    <2> QED
      BY <2>2 DEF Service!Next
  <1>5. ASSUME NEW d \in Directions, Receive(d) PROVE Service!Next
    <2>1. /\ ~gone[d] /\ outq[d] # <<>>
          /\ got' = [got EXCEPT ![d] = Append(@, Head(outq[d]))]
          /\ UNCHANGED <<sent, eof, asked>> /\ Closed' = Closed
      BY <1>5 DEF Receive, Closed
    <2>2. Len(got[d]) < sent[d] /\ Head(outq[d]) = Len(got[d]) + 1
      BY <2>1, NextByte
    <2>3. Service!Deliver(d)
      BY <2>1, <2>2 DEF Service!Deliver
    <2> QED
      BY <2>3 DEF Service!Next
  <1>6. ASSUME NEW d \in Directions, Ends(d) PROVE Service!Next
    <2>1. /\ eof' = [eof EXCEPT ![d] = TRUE]
          /\ UNCHANGED <<sent, got, asked>> /\ Closed' = Closed
      BY <1>6 DEF Ends, Closed
    <2>2. Service!End(d)
      BY <2>1 DEF Service!End
    <2> QED
      BY <2>2 DEF Service!Next
  <1>7. CASE UNCHANGED vars
    BY <1>7 DEF vars, Service!vars, Closed
  <1> QED
    BY <1>1, <1>2, <1>3, <1>4, <1>5, <1>6, <1>7 DEF Next, Thread, Environment

\* The relay is a pair of byte streams, for every size of buffer and window and any number
\* of bytes: what a destination receives is the next byte that was sent, and the
\* connection is closed only for a reason.
THEOREM RelayImplementsStreams == Spec => ImplementsStreams
  <1>1. Init => Service!Init
    BY DEF Init, Service!Init, Closed
  <1>2. TypeOK /\ StreamIntact /\ ReasonInv /\ [Next]_vars => [Service!Next]_(Service!vars)
    BY StepIsOfStreams
  <1> QED
    BY <1>1, <1>2, TypesOfRelay, StreamsOfRelay, ReasonAlways, PTL
    DEF Spec, ImplementsStreams, Service!Spec
=============================================================================
