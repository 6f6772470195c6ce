----------------------------- MODULE ChatPromise -----------------------------
(***************************************************************************)
(* What a conversation promises the two people in it, whatever the threads, *)
(* the links and the stores do: a message is shown once, out of order by   *)
(* no more than a window, and is called delivered only after it was shown. *)
(* ChatDelivery implements it.                                             *)
(***************************************************************************)
EXTENDS Integers, Sequences, FiniteSets

CONSTANT Window       \* how far past the first missing message one is shown

Side == {0, 1}
Other(p) == 1 - p

VARIABLES
    written,          \* how many messages each person has written
    shown,            \* the other's messages each has been shown, in order
    confirmed         \* the messages each sees as delivered

vars == <<written, shown, confirmed>>

Init ==
    /\ written = [p \in Side |-> 0]
    /\ shown = [p \in Side |-> <<>>]
    /\ confirmed = [p \in Side |-> {}]

Seen(p) == {shown[p][i] : i \in DOMAIN shown[p]}

Write(p) ==
    /\ written' = [written EXCEPT ![p] = @ + 1]
    /\ UNCHANGED <<shown, confirmed>>

(* Shown for the first time, with at most Window - 1 of those before it    *)
(* still missing after the unbroken run.                                   *)
Show(p, s) ==
    /\ shown' = [shown EXCEPT ![p] = Append(@, s)]
    /\ s \in 1..written[Other(p)]
    /\ s \notin Seen(p)
    /\ s <= Window \/ 1..(s - Window) \subseteq Seen(p)
    /\ UNCHANGED <<written, confirmed>>

Confirm(p, s) ==
    /\ s \in Seen(Other(p)) \ confirmed[p]
    /\ confirmed' = [confirmed EXCEPT ![p] = @ \cup {s}]
    /\ UNCHANGED <<written, shown>>

(* A delivered message may be called merely sent again.  The code does it  *)
(* (ChatDelivery!DeliveredStays), and a promise without it is not kept.    *)
Doubt(p, s) ==
    /\ s \in confirmed[p]
    /\ confirmed' = [confirmed EXCEPT ![p] = @ \ {s}]
    /\ UNCHANGED <<written, shown>>

(* Every step changes something a person sees; said first, it spares TLC   *)
(* the search through the rest for the steps of ChatDelivery that do not.  *)
Next ==
    /\ shown' # shown \/ confirmed' # confirmed \/ written' # written
    /\ \E p \in Side :
           \/ Write(p)
           \/ \E s \in 1..written[Other(p)] : Show(p, s)
           \/ \E s \in 1..written[p] : Confirm(p, s) \/ Doubt(p, s)

Spec == Init /\ [][Next]_vars
=============================================================================
