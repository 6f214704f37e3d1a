---------------------------- MODULE RelayStreams ----------------------------
(* The relay implements ByteStreams. *)
EXTENDS Relay

\* ByteStreams' view of the thread: finally has closed both channels.
Closed == at = "done"

Service == INSTANCE ByteStreams WITH ended <- eof, told <- asked, closed <- Closed

\* However flip, write and compact cut the streams, and whichever channel is full, slow,
\* ended or gone, the relay is a pair of byte streams that close only for a reason
\* (Transceiver.java 49-91).
ImplementsStreams == Service!Spec
=============================================================================
