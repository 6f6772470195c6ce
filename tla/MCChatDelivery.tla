--------------------------- MODULE MCChatDelivery ---------------------------
(* ChatDelivery for TLC: who writes how much, as definitions a cfg can name. *)
EXTENDS ChatDelivery

InitiatorWrites == [p \in {0, 1} |-> IF p = 0 THEN 2 ELSE 0]
ResponderWrites == [p \in {0, 1} |-> IF p = 1 THEN 2 ELSE 0]
ThreeWrites == [p \in {0, 1} |-> IF p = 1 THEN 3 ELSE 0]
=============================================================================
