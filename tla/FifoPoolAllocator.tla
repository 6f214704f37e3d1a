-------------------------- MODULE FifoPoolAllocator --------------------------
(* The accept loop and the RequestReaders implement FifoAllocator. *)
EXTENDS FifoPool

\* FifoAllocator's view of fifoByteMap and of usedFifos: who has what, and what is
\* marked although nobody has it.
Held == {p \in Sessions \X Fifos : \E k \in 1..2 : Owns(p[1], k) /\ usedFifos[p[1]][k] = p[2]}
Lost == {f \in Fifos : fifoByteMap[f] = 1 /\ \A s \in Sessions : <<s, f>> \notin Held}

Allocator == INSTANCE FifoAllocator WITH held <- Held, lost <- Lost

\* fifoByteMap and its two users are an allocator: whatever accept loop and ending
\* RequestReaders do at the same time, a FIFO is granted only while nobody has it, a
\* session gives back what it has and nothing else, and a FIFO is lost only by a session
\* for which there was no second one (PipeServer.java 150-205, RequestReader.java 72-74).
ImplementsAllocator == Allocator!Spec
=============================================================================
