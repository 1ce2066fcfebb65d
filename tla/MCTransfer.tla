----------------------------- MODULE MCTransfer -----------------------------
(***************************************************************************)
(* Instances of Transfer for TLC.                                          *)
(***************************************************************************)
EXTENDS TransferExchange

\* The HOST always sends a card and the CLIENT always receives one, so that is
\* where sending and receiving go wrong; a card that cannot be read goes wrong at
\* either, the NVS at the HOST, power and button at the CLIENT.
MCFaults ==
  [d \in Device |->
     IF d = "HOST" THEN {"cut", "share", "read", "nvs"}
     ELSE {"timeout", "early", "power", "button", "read", "open", "write", "rename"}]
=============================================================================
