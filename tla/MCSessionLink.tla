--------------------------- MODULE MCSessionLink ---------------------------
(* Two phones, in the situations a run is to cover: how each begins and     *)
(* what its environment may do.                                             *)
EXTENDS SessionLink, TLC

CONSTANTS a, b

Still == [switch |-> 0, ticks |-> 0, rotate |-> 0, epoch |-> 0, pings |-> 0, chats |-> 0,
          pairs |-> 0, dials |-> 0, idles |-> 0, severs |-> 0, restarts |-> 0,
          refusals |-> 0, replaced |-> 0]
From(order, isOn, budget) == [id |-> order, on |-> isOn, left |-> budget]
Straight == a :> 1 @@ b :> 2

Appearing == From(Straight, FALSE, [Still EXCEPT !.switch = 2, !.ticks = 1, !.epoch = 1])
Rotating  == From(Straight, TRUE, [Still EXCEPT !.ticks = 1, !.rotate = 1, !.dials = 1])
Turning   == From(Straight, TRUE, [Still EXCEPT !.ticks = 1, !.switch = 2, !.rotate = 1])
Dialling  == From(Straight, TRUE, [Still EXCEPT !.dials = 2, !.pings = 1, !.refusals = 1])
Pinging   == From(Straight, TRUE, [Still EXCEPT !.pings = 2, !.severs = 1])
Severing  == From(Straight, TRUE, [Still EXCEPT !.pings = 1, !.severs = 1, !.dials = 1])
Crossing  == From(Straight, TRUE, [Still EXCEPT !.pings = 1, !.pairs = 1])
Leaving   == From(Straight, TRUE, [Still EXCEPT !.pings = 1, !.idles = 1])
Starting  == From(Straight, TRUE, [Still EXCEPT !.pings = 1, !.restarts = 1, !.switch = 1])
Chatting  == From(Straight, TRUE, [Still EXCEPT !.chats = 1, !.pings = 1])
Replacing == From(Straight, TRUE, [Still EXCEPT !.dials = 1, !.pings = 1, !.replaced = 1])

Situations == {Appearing, Rotating, Turning, Dialling, Pinging, Severing, Crossing, Leaving,
               Starting, Chatting, Replacing}
OnlyTurning == {Turning}
TheDisputed == {Severing, Crossing}
=============================================================================
