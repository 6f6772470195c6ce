--------------------------- MODULE MCPairingCeremony ---------------------------
(* PairingCeremony for TLC: the phones are model values.  Two phones that   *)
(* both show and scan, with one upset; or a third that shows one code to    *)
(* both, with none.  The two phones are alike in either cast.               *)
EXTENDS PairingCeremony, TLC

CONSTANTS a, b, c

Alike == Permutations({a, b})

TwoPhones(n) == [showers |-> {a, b}, scanners |-> {a, b}, aborts |-> n]
OneCode == [showers |-> {c}, scanners |-> {a, b}, aborts |-> 0]

Either == {TwoPhones(1), OneCode}
Steady == {TwoPhones(0)}
Upset == {TwoPhones(1)}
=============================================================================
