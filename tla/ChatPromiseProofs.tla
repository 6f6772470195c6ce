-------------------------- MODULE ChatPromiseProofs --------------------------
(***************************************************************************)
(* What whoever keeps ChatPromise owes the two people, for every window    *)
(* and however much is written.  ChatDelivery keeps it: chat_safety checks *)
(* that every step of the two engines is a step of the promise.            *)
(***************************************************************************)
EXTENDS ChatPromise, TLAPS

TypeOK ==
    /\ written \in [Side -> Nat]
    /\ shown \in [Side -> Seq(Nat)]
    /\ confirmed \in [Side -> SUBSET Nat]

(* No message is shown twice. *)
ShownOnce ==
    \A p \in Side : \A i, j \in DOMAIN shown[p] :
        shown[p][i] = shown[p][j] => i = j

(* Nobody is shown what was not written to them. *)
ShownWasWritten == \A p \in Side : Seen(p) \subseteq 1..written[Other(p)]

(* What a sender sees as delivered, the other person has been shown. *)
ConfirmedWasShown == \A p \in Side : confirmed[p] \subseteq Seen(Other(p))

(* When a message was shown, all of those a window or more before it had   *)
(* been shown already.                                                     *)
Before(p, i) == {shown[p][j] : j \in 1..(i - 1)}
WithinWindow ==
    \A p \in Side : \A i \in DOMAIN shown[p] :
        shown[p][i] <= Window \/ 1..(shown[p][i] - Window) \subseteq Before(p, i)

PromiseInv ==
    /\ TypeOK
    /\ ShownOnce /\ ShownWasWritten /\ ConfirmedWasShown /\ WithinWindow

-----------------------------------------------------------------------------
LEMMA OtherIsASide == \A p \in Side : Other(p) \in Side /\ Other(Other(p)) = p
  BY SMT DEF Side, Other

LEMMA InitPromiseInv == Init => PromiseInv
<1> SUFFICES ASSUME Init PROVE PromiseInv
  OBVIOUS
<1>1. TypeOK
  BY SMT DEF Init, TypeOK
<1>2. \A p \in Side : DOMAIN shown[p] = {} /\ confirmed[p] = {}
  BY SMT DEF Init
<1>3. ShownOnce /\ ShownWasWritten /\ ConfirmedWasShown /\ WithinWindow
  BY <1>2 DEF ShownOnce, ShownWasWritten, ConfirmedWasShown, WithinWindow, Seen
<1> QED BY <1>1, <1>3 DEF PromiseInv

(* What is on the screen stays where it was, and one message comes after. *)
Grows(p, s) ==
    /\ shown' \in [Side -> Seq(Nat)]
    /\ Len(shown[p]) \in Nat
    /\ DOMAIN shown[p] = 1..Len(shown[p])
    /\ DOMAIN shown'[p] = 1..(Len(shown[p]) + 1)
    /\ \A i \in 1..Len(shown[p]) : shown'[p][i] = shown[p][i]
    /\ shown'[p][Len(shown[p]) + 1] = s
    /\ \A q \in Side \ {p} : shown'[q] = shown[q]

LEMMA AfterShow ==
  ASSUME TypeOK, NEW p \in Side, NEW s \in Nat, Show(p, s)
  PROVE  Grows(p, s)
<1>1. shown[p] \in Seq(Nat)
  BY DEF TypeOK
<1>2. shown' = [shown EXCEPT ![p] = Append(shown[p], s)]
  BY DEF Show
<1>3. shown'[p] = Append(shown[p], s) /\ \A q \in Side \ {p} : shown'[q] = shown[q]
  BY <1>2 DEF TypeOK
<1>4. shown' \in [Side -> Seq(Nat)]
  BY <1>1, <1>2, SMT DEF TypeOK
<1> QED BY <1>1, <1>3, <1>4, SMT DEF Grows

(* One more is seen, and nothing is forgotten. *)
LEMMA SeenAfterShow ==
  ASSUME NEW p \in Side, NEW s \in Nat, Grows(p, s)
  PROVE  /\ Seen(p)' = Seen(p) \cup {s}
         /\ \A q \in Side \ {p} : Seen(q)' = Seen(q)
<1>1. ASSUME NEW x PROVE x \in Seen(p)' <=> x \in Seen(p) \cup {s}
  <2> DEFINE n == Len(shown[p])
  <2>1. x \in Seen(p)' <=> \E i \in 1..(n + 1) : x = shown'[p][i]
    BY DEF Seen, Grows
  <2>2. x \in Seen(p) <=> \E i \in 1..n : x = shown'[p][i]
    BY DEF Seen, Grows
  <2>3. n \in Nat /\ shown'[p][n + 1] = s
    BY DEF Grows
  <2> HIDE DEF n
  <2>4. \A i : i \in 1..(n + 1) <=> i \in 1..n \/ i = n + 1
    BY <2>3, SMT
  <2> QED BY <2>1, <2>2, <2>3, <2>4
<1>2. Seen(p)' = Seen(p) \cup {s}
  BY <1>1
<1>3. \A q \in Side \ {p} : Seen(q)' = Seen(q)
  BY DEF Seen, Grows
<1> QED BY <1>2, <1>3

LEMMA ShowKeepsPromiseInv ==
  ASSUME PromiseInv, NEW p \in Side, NEW s \in 1..written[Other(p)], Show(p, s)
  PROVE  PromiseInv'
<1>1. TypeOK /\ s \in Nat
  BY OtherIsASide, SMT DEF PromiseInv, TypeOK
<1>2. Grows(p, s)
  BY <1>1, AfterShow
<1>3. /\ Seen(p)' = Seen(p) \cup {s}
      /\ \A q \in Side \ {p} : Seen(q)' = Seen(q)
  BY <1>1, <1>2, SeenAfterShow
<1>4. written' = written /\ confirmed' = confirmed
  BY DEF Show
<1>5. \A k \in DOMAIN shown'[p] :
         \/ k \in DOMAIN shown[p] /\ shown'[p][k] = shown[p][k]
         \/ k = Len(shown[p]) + 1 /\ shown'[p][k] = s
  <2> DEFINE n == Len(shown[p])
  <2>1. n \in Nat /\ DOMAIN shown[p] = 1..n /\ DOMAIN shown'[p] = 1..(n + 1)
    BY <1>2 DEF Grows
  <2>2. (\A i \in 1..n : shown'[p][i] = shown[p][i]) /\ shown'[p][n + 1] = s
    BY <1>2 DEF Grows
  <2> HIDE DEF n
  <2>3. \A i : i \in 1..(n + 1) <=> i \in 1..n \/ i = n + 1
    BY <2>1, SMT
  <2>4. \A k \in DOMAIN shown'[p] :
           \/ k \in DOMAIN shown[p] /\ shown'[p][k] = shown[p][k]
           \/ k = n + 1 /\ shown'[p][k] = s
    BY <2>1, <2>2, <2>3
  <2> QED BY <2>4 DEF n
<1>6. TypeOK'
  BY <1>1, <1>2, <1>4 DEF Grows, TypeOK
<1>7. ShownOnce'
  <2> SUFFICES ASSUME NEW q \in Side, NEW i \in DOMAIN shown'[q],
                      NEW j \in DOMAIN shown'[q], shown'[q][i] = shown'[q][j]
               PROVE  i = j
    BY DEF ShownOnce
  <2>1. \A k, l \in DOMAIN shown[q] : shown[q][k] = shown[q][l] => k = l
    BY DEF PromiseInv, ShownOnce
  <2>2. CASE q # p
    <3>1. shown'[q] = shown[q]
      BY <1>2, <2>2 DEF Grows
    <3> QED BY <2>1, <3>1
  <2>3. CASE q = p
    <3>1. \A k \in DOMAIN shown[p] : shown[p][k] # s
      BY DEF Show, Seen
    <3> QED BY <1>5, <2>1, <2>3, <3>1
  <2> QED BY <2>2, <2>3
<1>8. ShownWasWritten'
  <2> SUFFICES ASSUME NEW q \in Side PROVE Seen(q)' \subseteq 1..written[Other(q)]
    BY <1>4 DEF ShownWasWritten
  <2>1. Seen(q) \subseteq 1..written[Other(q)]
    BY DEF PromiseInv, ShownWasWritten
  <2> QED BY <1>3, <2>1
<1>9. ConfirmedWasShown'
  <2> SUFFICES ASSUME NEW q \in Side PROVE confirmed[q] \subseteq Seen(Other(q))'
    BY <1>4 DEF ConfirmedWasShown
  <2>1. confirmed[q] \subseteq Seen(Other(q))
    BY DEF PromiseInv, ConfirmedWasShown
  <2>2. \A o \in Side : Seen(o) \subseteq Seen(o)'
    BY <1>3
  <2>3. Seen(Other(q)) \subseteq Seen(Other(q))'
    BY <2>2, OtherIsASide
  <2> QED BY <2>1, <2>3
<1>10. WithinWindow'
  <2> SUFFICES ASSUME NEW q \in Side, NEW i \in DOMAIN shown'[q]
               PROVE  shown'[q][i] <= Window
                      \/ 1..(shown'[q][i] - Window) \subseteq Before(q, i)'
    BY DEF WithinWindow
  <2>1. CASE q # p
    <3>1. shown'[q] = shown[q]
      BY <1>2, <2>1 DEF Grows
    <3>2. Before(q, i)' = Before(q, i)
      BY <3>1 DEF Before
    <3> QED BY <3>1, <3>2 DEF PromiseInv, WithinWindow
  <2>2. CASE q = p /\ i \in DOMAIN shown[p]
    <3> DEFINE n == Len(shown[p])
    <3>1. n \in Nat /\ i \in 1..n
      BY <1>2, <2>2 DEF Grows
    <3>2. \A j \in 1..n : shown'[p][j] = shown[p][j]
      BY <1>2 DEF Grows
    <3> HIDE DEF n
    <3>3. 1..(i - 1) \subseteq 1..n
      BY <3>1, SMT
    <3>4. \A j \in 1..(i - 1) : shown'[p][j] = shown[p][j]
      BY <3>2, <3>3
    <3>5. Before(p, i)' = Before(p, i)
      BY <3>4 DEF Before
    <3>6. shown'[p][i] = shown[p][i]
      BY <3>1, <3>2
    <3> QED BY <2>2, <3>5, <3>6 DEF PromiseInv, WithinWindow
  <2>3. CASE q = p /\ i = Len(shown[p]) + 1
    <3> DEFINE n == Len(shown[p])
    <3>1. n \in Nat /\ DOMAIN shown[p] = 1..n
      BY <1>2 DEF Grows
    <3>2. \A j \in 1..n : shown'[p][j] = shown[p][j]
      BY <1>2 DEF Grows
    <3>3. i = n + 1 /\ shown'[p][i] = s
      BY <1>2, <2>3 DEF Grows
    <3> HIDE DEF n
    <3>4. 1..(i - 1) = 1..n
      BY <3>1, <3>3, SMT
    <3>5. Before(p, i)' = Seen(p)
      BY <3>1, <3>2, <3>4 DEF Before, Seen
    <3> QED BY <2>3, <3>3, <3>5 DEF Show
  <2> QED BY <1>5, <2>1, <2>2, <2>3
<1> QED BY <1>6, <1>7, <1>8, <1>9, <1>10 DEF PromiseInv

LEMMA NextPromiseInv == PromiseInv /\ [Next]_vars => PromiseInv'
<1> SUFFICES ASSUME PromiseInv, [Next]_vars PROVE PromiseInv'
  OBVIOUS
<1>1. CASE UNCHANGED vars
  <2> UNCHANGED <<written, shown, confirmed>>
    BY <1>1 DEF vars
  <2>1. TypeOK'
    BY DEF PromiseInv, TypeOK
  <2>2. (ShownOnce /\ ShownWasWritten /\ ConfirmedWasShown /\ WithinWindow)'
    BY DEF PromiseInv, ShownOnce, ShownWasWritten, ConfirmedWasShown, WithinWindow,
           Before, Seen
  <2> QED BY <2>1, <2>2 DEF PromiseInv
<1>2. ASSUME NEW p \in Side, Write(p) PROVE PromiseInv'
  <2> UNCHANGED <<shown, confirmed>>
    BY <1>2 DEF Write
  <2>1. TypeOK'
    BY <1>2, SMT DEF Write, PromiseInv, TypeOK
  <2>2. \A q \in Side : 1..written[q] \subseteq 1..written'[q]
    BY <1>2, SMT DEF Write, PromiseInv, TypeOK
  <2>3. ShownWasWritten'
    BY <2>2, OtherIsASide DEF PromiseInv, ShownWasWritten, Seen
  <2>4. (ShownOnce /\ ConfirmedWasShown /\ WithinWindow)'
    BY DEF PromiseInv, ShownOnce, ConfirmedWasShown, WithinWindow, Before, Seen
  <2> QED BY <2>1, <2>3, <2>4 DEF PromiseInv
<1>3. ASSUME NEW p \in Side, NEW s \in 1..written[Other(p)], Show(p, s)
      PROVE  PromiseInv'
  BY <1>3, ShowKeepsPromiseInv
<1>4. ASSUME NEW p \in Side, NEW s \in 1..written[p], Confirm(p, s) \/ Doubt(p, s)
      PROVE  PromiseInv'
  <2> UNCHANGED <<written, shown>>
    BY <1>4 DEF Confirm, Doubt
  <2>1. s \in Nat
    BY SMT DEF PromiseInv, TypeOK
  <2>2. TypeOK'
    BY <1>4, <2>1 DEF Confirm, Doubt, PromiseInv, TypeOK
  <2>3. ConfirmedWasShown'
    <3>1. \A q \in Side : Seen(q)' = Seen(q)
      BY DEF Seen
    <3>2. \A q \in Side : confirmed'[q] \subseteq Seen(Other(q))
      BY <1>4 DEF Confirm, Doubt, PromiseInv, TypeOK, ConfirmedWasShown
    <3> QED BY <3>1, <3>2, OtherIsASide DEF ConfirmedWasShown
  <2>4. (ShownOnce /\ ShownWasWritten /\ WithinWindow)'
    BY DEF PromiseInv, ShownOnce, ShownWasWritten, WithinWindow, Before, Seen
  <2> QED BY <2>2, <2>3, <2>4 DEF PromiseInv
<1> QED BY <1>1, <1>2, <1>3, <1>4 DEF Next

(* The promise, for every window: each message is shown once, to the       *)
(* person it was written to, never far ahead of one still missing, and is  *)
(* called delivered only while it is on the other screen.                  *)
THEOREM PromiseHolds ==
    Spec => [](ShownOnce /\ ShownWasWritten /\ ConfirmedWasShown /\ WithinWindow)
<1>1. PromiseInv => ShownOnce /\ ShownWasWritten /\ ConfirmedWasShown /\ WithinWindow
  BY DEF PromiseInv
<1> QED BY <1>1, InitPromiseInv, NextPromiseInv, PTL DEF Spec
=============================================================================
