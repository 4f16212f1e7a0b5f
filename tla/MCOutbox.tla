------------------------------- MODULE MCOutbox -------------------------------
(* A message of each channel through one worker, with the gateways of production *)
(* and an e-mail provider that only logs.                                         *)
EXTENDS Outbox

CONSTANTS m1, m2, m3

MCChannelOf ==
    [m \in Msgs |-> IF m = m1 THEN "WHATSAPP" ELSE IF m = m2 THEN "SMS" ELSE "EMAIL"]
================================================================================
