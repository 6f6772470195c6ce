----------------------------- MODULE MCLanRung -----------------------------
(* The situations the LAN rung is checked in: what may happen, how often.     *)
EXTENDS LanRung, TLC

CONSTANTS a, b

MCOwner == (1 :> a) @@ (2 :> b) @@ (3 :> a)

None == [e \in {"dials", "writes", "hangups", "cuts", "renames", "switches", "sights",
                "shutdowns"} |-> 0]
Crossing  == [None EXCEPT !["dials"] = 2, !["writes"] = 1]
Redialling == [None EXCEPT !["dials"] = 3]
Flapping  == [None EXCEPT !["dials"] = 2, !["cuts"] = 1]
Writing   == [None EXCEPT !["dials"] = 1, !["cuts"] = 1, !["hangups"] = 1, !["writes"] = 1]
Renaming  == [None EXCEPT !["dials"] = 2, !["renames"] = 1]
Sighting  == [None EXCEPT !["dials"] = 1, !["switches"] = 2, !["sights"] = 1, !["renames"] = 1]
Closing   == [None EXCEPT !["dials"] = 1, !["writes"] = 1, !["shutdowns"] = 1]

Situations == {Crossing, Redialling, Flapping, Writing, Renaming, Sighting, Closing}
TheDisputed == {Flapping, Renaming}

=============================================================================
