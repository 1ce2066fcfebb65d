-------------------------- MODULE TransferExchange --------------------------
(***************************************************************************)
(* Two devices with their sessions, screens and files carry out the        *)
(* exchange of CardExchange: the refinement mapping.                       *)
(***************************************************************************)
EXTENDS Transfer

Wants == [d \in Device |-> WillReceive(d)]
Has == [d \in Device |-> pub[d].inbound_complete]
Knows == [d \in Device |-> pub[d].got_peer_ack]
Card == [d \in Device |-> disk[d].card]
Opens == [d \in Device |-> nvs[d].record]
Phase == [d \in Device |-> IF ui[d].pc \in {"off", "booted"} THEN ui[d].pc ELSE "on"]
Said == [d \in Device |-> nvs[d].msg]

Exchange == INSTANCE CardExchange
              WITH wants <- Wants, has <- Has, knows <- Knows, card <- Card,
                   opens <- Opens, at <- Phase, said <- Said,
                   Forgets <- {d \in Device : "nvs" \in Faults[d]}

\* Whatever is cut off, late or lost, and however the polls of the two devices fall
\* between the frames: the card is placed once and whole, outcomes are true, and the boot
\* after a success opens the card.
ImplementsExchange == Exchange!Spec
=============================================================================
