----------------------------- MODULE DokanPipe ------------------------------
(***************************************************************************)
(* What a dokan stream promises the two applications: one unidirectional   *)
(* byte stream per id, as the comments in components/dokan/inc/dokan.h and *)
(* the STREAM_* events of dokan_types.h describe it.  The writer appends   *)
(* and finishes; the reader gets the bytes in order, each once, and        *)
(* FINISHED only after the last of them.  A reset, a release, a close or a *)
(* broken link stops a stream where it is.                                 *)
(***************************************************************************)
EXTENDS Naturals

CONSTANT Streams    \* the ids of the streams

VARIABLES
  sent,     \* sent[id]: bytes the writer's engine took and put on the wire
  got,      \* got[id]: bytes handed to the reader by DATA events
  ended,    \* ended[id]: the writer called dokan_stream_finish
  eof       \* eof[id]: the reader saw FINISHED

pipeVars == <<sent, got, ended, eof>>

Init ==
  /\ sent = [id \in Streams |-> 0]
  /\ got = [id \in Streams |-> 0]
  /\ ended = [id \in Streams |-> FALSE]
  /\ eof = [id \in Streams |-> FALSE]

\* Some bytes more on one stream: new is old, but for a greater count at id.
Grows(old, new, id) ==
  /\ new = [old EXCEPT ![id] = new[id]]
  /\ new[id] \in Nat /\ new[id] > old[id]

Write(id) ==
  /\ ~ended[id]
  /\ Grows(sent, sent', id)
  /\ UNCHANGED <<got, ended, eof>>

Deliver(id) ==
  /\ ~eof[id]
  /\ Grows(got, got', id) /\ got'[id] <= sent[id]
  /\ UNCHANGED <<sent, ended, eof>>

Finish(id) ==
  /\ ~ended[id]
  /\ ended' = [ended EXCEPT ![id] = TRUE]
  /\ UNCHANGED <<sent, got, eof>>

Complete(id) ==
  /\ ended[id] /\ got[id] = sent[id]
  /\ eof' = [eof EXCEPT ![id] = TRUE]
  /\ UNCHANGED <<sent, got, ended>>

Next == \E id \in Streams : Write(id) \/ Deliver(id) \/ Finish(id) \/ Complete(id)

Spec == Init /\ [][Next]_pipeVars
=============================================================================
