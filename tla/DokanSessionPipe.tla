-------------------------- MODULE DokanSessionPipe --------------------------
(***************************************************************************)
(* The two session engines implement one byte pipe for each stream: the    *)
(* refinement mapping from DokanSession to DokanPipe.                      *)
(***************************************************************************)
EXTENDS DokanSessionInv

Sent == [id \in Ids |-> hist[id].sent]
Got == [id \in Ids |-> hist[id].got]
Ended == [id \in Ids |-> tx[id].fin]
Eof == [id \in Ids |-> hist[id].fins > 0]

Pipe == INSTANCE DokanPipe
          WITH Streams <- Ids, sent <- Sent, got <- Got, ended <- Ended, eof <- Eof

\* Chunking, credits, pauses with their buffers, the held-back EOF and two streams
\* sharing a connection are invisible: each stream behaves as a pipe of its own.
ImplementsPipe == Pipe!Spec
=============================================================================
