---------------------------- MODULE CardExchange ----------------------------
(***************************************************************************)
(* What a transfer promises the two users (the comments of                 *)
(* app/screens/TransferScreen.hpp and docs/dokan.md:437-470): a card is    *)
(* put into the gallery once, after all of it was handed over; a device    *)
(* that reports success has the card and opens it at the next boot, one    *)
(* that reports a failure opens nothing; and who is told that its peer has *)
(* the card may leave.  Power may go at any time.                          *)
(***************************************************************************)
CONSTANTS
  Device,
  Forgets   \* the devices whose NVS may fail

VARIABLES
  wants,   \* wants[d]: d is to be given the peer's card
  has,     \* has[d]: all of it was handed over
  knows,   \* knows[d]: d has its peer's word that the peer has all it wants
  card,    \* card[d]: what of it is in the gallery of d, if anything
  opens,   \* opens[d]: the next boot of d opens it
  at,      \* at[d]: d is at it, off, or booted again
  said     \* said[d]: the outcome that d has yet to show

exchangeVars == <<wants, has, knows, card, opens, at, said>>

Init ==
  /\ wants \in [Device -> BOOLEAN]
  /\ has = [d \in Device |-> FALSE]
  /\ knows = [d \in Device |-> FALSE]
  /\ card = [d \in Device |-> "none"]
  /\ opens = [d \in Device |-> FALSE]
  /\ at = [d \in Device |-> "on"]
  /\ said = [d \in Device |-> "none"]

Receive(d) ==
  /\ at[d] = "on"
  /\ has' = [has EXCEPT ![d] = TRUE]
  /\ UNCHANGED <<wants, knows, card, opens, at, said>>

Learn(d) ==
  /\ at[d] = "on" /\ \A p \in Device \ {d} : wants[p] => has[p]
  /\ knows' = [knows EXCEPT ![d] = TRUE]
  /\ UNCHANGED <<wants, has, card, opens, at, said>>

\* The SD card may have torn the file as it was written.
Place(d) ==
  /\ at[d] = "on" /\ wants[d] /\ has[d] /\ card[d] = "none"
  /\ \E c \in {"whole", "torn"} : card' = [card EXCEPT ![d] = c]
  /\ UNCHANGED <<wants, has, knows, opens, at, said>>

Remember(d) ==
  /\ at[d] = "on" /\ card[d] # "none"
  /\ opens' = [opens EXCEPT ![d] = TRUE]
  /\ UNCHANGED <<wants, has, knows, card, at, said>>

Withdraw(d) ==
  /\ at[d] = "on"
  /\ opens' = [opens EXCEPT ![d] = FALSE]
  /\ UNCHANGED <<wants, has, knows, card, at, said>>

Ends(d, outcome) ==
  /\ at[d] = "on"
  /\ said' = [said EXCEPT ![d] = outcome]
  /\ at' = [at EXCEPT ![d] = "off"]
  /\ UNCHANGED <<wants, has, knows, card, opens>>

Succeed(d) ==
  /\ Ends(d, "complete")
  /\ wants[d] => card[d] # "none" /\ (opens[d] \/ d \in Forgets)

Fail(d) == Ends(d, "failed") /\ (opens[d] => d \in Forgets)

\* Power is lost before there is an outcome, the button is pressed, or the outcome is
\* forgotten.
Stop(d) == Ends(d, "none")

\* The outcome is shown without a boot, on a device that cannot be switched off.
Tell(d) ==
  /\ at[d] = "off"
  /\ said' = [said EXCEPT ![d] = "none"]
  /\ UNCHANGED <<wants, has, knows, card, opens, at>>

\* A boot shows the outcome and opens the card, each once.
Boot(d) ==
  /\ at[d] = "off"
  /\ at' = [at EXCEPT ![d] = "booted"]
  /\ said' = [said EXCEPT ![d] = "none"] \/ (d \in Forgets /\ UNCHANGED said)
  /\ opens' = [opens EXCEPT ![d] = FALSE] \/ (d \in Forgets /\ UNCHANGED opens)
  /\ UNCHANGED <<wants, has, knows, card>>

Next ==
  \E d \in Device :
    \/ Receive(d) \/ Learn(d) \/ Place(d) \/ Remember(d) \/ Withdraw(d)
    \/ Succeed(d) \/ Fail(d) \/ Stop(d) \/ Tell(d) \/ Boot(d)

Spec == Init /\ [][Next]_exchangeVars
=============================================================================
