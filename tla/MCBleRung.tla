----------------------------- MODULE MCBleRung -----------------------------
(* The situations the BLE rung is checked in: what may happen, how often.   *)
EXTENDS BleRung, TLC

CONSTANTS a, w1, w2

None == [e \in {"switches", "renames", "dials", "writes", "hangups", "shutdowns", "hosts",
                "toggles", "links", "drops", "bytes", "sights", "scanfails",
                "refreshes"} |-> 0]
Toggling == [None EXCEPT !["toggles"] = 2, !["switches"] = 2]
Hosting  == [None EXCEPT !["hosts"] = 2, !["switches"] = 1, !["toggles"] = 1]
Writing  == [None EXCEPT !["links"] = 2, !["writes"] = 3]
Parting  == [None EXCEPT !["links"] = 2, !["writes"] = 1, !["drops"] = 1, !["hangups"] = 1]
Dialling == [None EXCEPT !["links"] = 1, !["dials"] = 2]
Hearing  == [None EXCEPT !["links"] = 1, !["bytes"] = 1, !["hangups"] = 1]
Rearming == [None EXCEPT !["toggles"] = 2, !["switches"] = 1, !["shutdowns"] = 1]
Closing  == [None EXCEPT !["links"] = 1, !["writes"] = 1, !["switches"] = 1, !["shutdowns"] = 1]
Renaming == [None EXCEPT !["toggles"] = 2, !["switches"] = 1, !["renames"] = 1]
Sighting == [None EXCEPT !["sights"] = 2, !["switches"] = 1, !["dials"] = 1]
Refusing == [None EXCEPT !["switches"] = 2, !["scanfails"] = 1, !["refreshes"] = 2]

Situations == {Toggling, Renaming, Hosting, Writing, Parting, Sighting, Dialling, Hearing,
               Rearming, Closing, Refusing}
Symmetry == Permutations({w1, w2})
TheDisputed == {Toggling, Refusing, Closing}

=============================================================================
