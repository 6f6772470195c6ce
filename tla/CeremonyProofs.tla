--------------------------- MODULE CeremonyProofs ---------------------------
(***************************************************************************)
(* Nobody's identity is sent before both people have confirmed, a phone    *)
(* that shows a code answers one other at a time, and those who are paired *)
(* have both confirmed: for any number of phones, codes, keys and messages *)
(* and every order in which taps, frames, cuts and timeouts may come.      *)
(*                                                                         *)
(* What a phone knows of the other it knows from messages, so the heart of *)
(* CeremonyInv is Honesty: whatever a phone has said, be it in the hand of *)
(* a thread, in the queue of a session that is not open yet or on the      *)
(* wire, says what that phone has done and carries a key of its own.  A    *)
(* ceremony is then what the messages it was made of say (CeremonyOK), and *)
(* both its phones may be read off its transcript.                         *)
(*                                                                         *)
(* That nobody refuses a message of a ceremony the other has completed     *)
(* depends on the order frames come in as well, and is left to the model   *)
(* checker.                                                                *)
(***************************************************************************)
EXTENDS PairingCeremony, SequenceTheorems, FiniteSetTheorems, TLAPS

-----------------------------------------------------------------------------
(* What is in a queue, before and after the code changes it.               *)

(* Nothing is in an empty queue. *)
LEMMA RangeOfNone == Range(<<>>) = {} /\ \A S : <<>> \in Seq(S)
<1>1. DOMAIN <<>> = {}
  OBVIOUS
<1> QED BY <1>1, EmptySeq DEF Range

(* A queue of one. *)
LEMMA RangeOfOne == \A x : Range(<<x>>) = {x}
  BY DEF Range

(* A queue appended to has what it had and what was appended. *)
LEMMA RangeOfAppend ==
  ASSUME NEW S, NEW queue \in Seq(S), NEW e \in S
  PROVE  /\ Append(queue, e) \in Seq(S)
         /\ Range(Append(queue, e)) = Range(queue) \cup {e}
<1>1. Append(queue, e) = queue \o <<e>> /\ <<e>> \in Seq(S)
  BY AppendIsConcat
<1>2. Range(queue \o <<e>>) = Range(queue) \cup Range(<<e>>)
  BY <1>1, RangeConcatenation
<1> QED BY <1>1, <1>2, AppendProperties DEF Range

(* A queue has its head and what its tail has. *)
LEMMA RangeOfTail ==
  ASSUME NEW S, NEW queue \in Seq(S), queue # <<>>
  PROVE  /\ Head(queue) \in S /\ Head(queue) \in Range(queue)
         /\ Tail(queue) \in Seq(S) /\ Range(Tail(queue)) \subseteq Range(queue)
         /\ Range(queue) = {Head(queue)} \cup Range(Tail(queue))
<1>1. /\ queue = <<Head(queue)>> \o Tail(queue)
      /\ Head(queue) \in S /\ Tail(queue) \in Seq(S)
  BY HeadTailProperties
<1>2. <<Head(queue)>> \in Seq(S)
  BY <1>1
<1>3. Range(<<Head(queue)>> \o Tail(queue)) = Range(<<Head(queue)>>) \cup Range(Tail(queue))
  BY <1>1, <1>2, RangeConcatenation
<1>4. Range(<<Head(queue)>>) = {Head(queue)}
  BY DEF Range
<1> QED BY <1>1, <1>3, <1>4

-----------------------------------------------------------------------------

(* The types. *)
Mine(p) == {p} \X Nat
Key == {NoKey, Stray} \cup (Phone \X Nat)
Code == {NoCode} \cup (Phone \X Nat)
Transcript == Code \X Key \X Key
MessageType ==
    [kind : {"hello", "answer", "finish", "Confirm", "L1", "garbled"}, t : Transcript, n : Nat]
OpeningType == [stage : {"opening"}, role : {"scanner", "shower"}, t : Transcript]
ConfirmingType ==
    [stage : {"confirming"}, role : {"scanner", "shower"}, t : Transcript, we : BOOLEAN,
     they : BOOLEAN, proved : BOOLEAN, out : Nat, in : Nat]
Vias == {"none", "session", "sealed", "queue", "opened", "flush", "flushed"}
TaskType == {Idle} \cup [to : Phone, todo : Seq(MessageType), via : Vias]

ScreenOK ==
    /\ cast \in Casts
    /\ showing \in [Phone -> Code]
    /\ codes \in [Phone -> Nat] /\ made \in [Phone -> Nat]

CeremoniesOK == ceremony \in [Pair -> {NoCeremony} \cup OpeningType \cup ConfirmingType]

QueuesOK ==
    /\ waiting \in [Pair -> Seq(MessageType)] /\ wire \in [Pair -> Seq(MessageType)]
    /\ task \in [Phone -> [Thread -> TaskType]]

TypeOK == ScreenOK /\ CeremoniesOK /\ QueuesOK

(* What a phone has sealed or said, wherever it has got to; and noise,     *)
(* which says nothing.                                                     *)
InHand(p) == UNION {Range(task[p][th].todo) : th \in Thread}
Queued(p) == UNION {Range(waiting[<<p, q>>]) : q \in Phone}
OnTheWay(p) == UNION {Range(wire[<<p, q>>]) : q \in Phone}
Said(p) == InHand(p) \cup Queued(p) \cup OnTheWay(p) \cup {Garbled}

(* A message carries the key of the phone that said it, and says what that *)
(* phone has done.                                                         *)
Honest(p, m) ==
    /\ m.kind \in {"hello", "finish"} => m.t[2] \in Mine(p)
    /\ m.kind = "answer" => m.t[3] \in Mine(p)
    /\ m.kind = "Confirm" => <<p, m.t>> \in tapped
    /\ m.kind = "L1" => <<p, m.t>> \in proved

Honesty == \A p \in Phone : \A m \in Said(p) : Honest(p, m)

(* A ceremony is between the two phones its transcript names, and knows    *)
(* only what was done.                                                     *)
OpeningOK(p, q, c) ==
    /\ c.role = "scanner" => c.t[2] \in Mine(p)
    /\ c.role = "shower" => c.t[3] \in Mine(p)

ConfirmingOK(p, q, c) ==
    /\ c.role = "scanner" => c.t[2] \in Mine(p) /\ c.t[3] \in Mine(q)
    /\ c.role = "shower" => c.t[2] \in Mine(q) /\ c.t[3] \in Mine(p)
    /\ c.we => <<p, c.t>> \in tapped
    /\ c.they => <<q, c.t>> \in tapped
    /\ c.we /\ c.they => c.proved
    /\ c.proved => <<p, c.t>> \in proved

CeremonyOK(p, q) ==
    LET c == ceremony[<<p, q>>] IN
    /\ c.stage = "opening" => OpeningOK(p, q, c)
    /\ c.stage = "confirming" => ConfirmingOK(p, q, c)

Answers(p, q) == InFlight(p, q) /\ ceremony[<<p, q>>].role = "shower"
OneShower == \A p, q, r \in Phone : Answers(p, q) /\ Answers(p, r) => q = r

PairedWasProved == \A x \in paired : Both(x[2]) \subseteq proved

CeremonyInv ==
    /\ TypeOK
    /\ Honesty
    /\ \A p, q \in Phone : CeremonyOK(p, q)
    /\ OneShower
    /\ NoIdentityWithoutBoth
    /\ PairedWasProved

-----------------------------------------------------------------------------
(* The phones of a cast are phones. *)
LEMMA AroundIsHere ==
  ASSUME TypeOK
  PROVE  Around \subseteq Phone
<1>1. cast \in [showers : SUBSET Phone, scanners : SUBSET Phone, aborts : Nat]
  BY CeremonyAssumption DEF TypeOK, ScreenOK
<1> QED BY <1>1 DEF Around

(* What is in a queue or in hand was said. *)
LEMMA SaidHas ==
  ASSUME NEW p \in Phone
  PROVE  /\ \A th \in Thread : Range(task[p][th].todo) \subseteq Said(p)
         /\ \A q \in Phone : Range(waiting[<<p, q>>]) \subseteq Said(p)
         /\ \A q \in Phone : Range(wire[<<p, q>>]) \subseteq Said(p)
         /\ Garbled \in Said(p)
<1>1. \A th \in Thread : Range(task[p][th].todo) \subseteq InHand(p)
  BY Zenon DEF InHand
<1>2. \A q \in Phone : Range(waiting[<<p, q>>]) \subseteq Queued(p)
  BY Zenon DEF Queued
<1>3. \A q \in Phone : Range(wire[<<p, q>>]) \subseteq OnTheWay(p)
  BY Zenon DEF OnTheWay
<1> QED BY <1>1, <1>2, <1>3 DEF Said

(* What was said is in a queue or in hand, after a step as before it. *)
LEMMA SaidWithin ==
  ASSUME NEW p \in Phone, NEW S, Garbled \in S,
         \A th \in Thread : Range(task'[p][th].todo) \subseteq S,
         \A q \in Phone : Range(waiting'[<<p, q>>]) \subseteq S,
         \A q \in Phone : Range(wire'[<<p, q>>]) \subseteq S
  PROVE  Said(p)' \subseteq S
<1>1. InHand(p)' \subseteq S
  BY Zenon DEF InHand
<1>2. Queued(p)' \subseteq S
  BY Zenon DEF Queued
<1>3. OnTheWay(p)' \subseteq S
  BY Zenon DEF OnTheWay
<1> QED BY <1>1, <1>2, <1>3 DEF Said

(* A thread is given frames to send, or is done. *)
LEMMA SendsFields ==
  ASSUME QueuesOK, NEW p \in Phone, NEW th \in Thread, NEW q \in Phone,
         NEW frames \in Seq(MessageType),
         NEW way \in Vias, SendsBy(p, th, q, frames, way)
  PROVE  /\ task' \in [Phone -> [Thread -> TaskType]]
         /\ \A r \in Phone \ {p} : task'[r] = task[r]
         /\ \A u \in Thread : Range(task'[p][u].todo) \subseteq Said(p) \cup Range(frames)
<1> DEFINE after == IF frames = <<>> THEN Idle ELSE [to |-> q, todo |-> frames, via |-> way]
<1>1. after \in TaskType /\ after.todo = frames
  <2>1. CASE frames = <<>>
    BY <2>1, RangeOfNone DEF Idle, TaskType
  <2>2. CASE frames # <<>>
    BY <2>2 DEF TaskType
  <2> QED BY <2>1, <2>2
<1>2. task' = [task EXCEPT ![p][th] = after]
  BY DEF SendsBy
<1> HIDE DEF after
<1>3. /\ task' \in [Phone -> [Thread -> TaskType]]
      /\ \A r \in Phone \ {p} : task'[r] = task[r]
      /\ \A u \in Thread : task'[p][u] = IF u = th THEN after ELSE task[p][u]
  BY <1>1, <1>2 DEF QueuesOK
<1>4. ASSUME NEW u \in Thread
      PROVE  Range(task'[p][u].todo) \subseteq Said(p) \cup Range(frames)
  <2>1. CASE u = th
    BY <1>1, <1>3, <2>1
  <2>2. CASE u # th
    BY <1>3, <2>2, SaidHas
  <2> QED BY <2>1, <2>2
<1> QED BY <1>3, <1>4

(* forget_ceremony clears a queue. *)
LEMMA WaitingCleared ==
  ASSUME QueuesOK, NEW l, waiting' = [waiting EXCEPT ![l] = <<>>]
  PROVE  /\ waiting' \in [Pair -> Seq(MessageType)]
         /\ \A k \in Pair : Range(waiting'[k]) \subseteq Range(waiting[k])
<1>1. <<>> \in Seq(MessageType) /\ Range(<<>>) = {}
  BY RangeOfNone
<1> QED BY <1>1 DEF QueuesOK

(* What arrives was said by the other phone. *)
LEMMA ArrivesFields ==
  ASSUME QueuesOK, NEW p \in Phone, NEW q \in Phone,
         wire[<<q, p>>] # <<>>, wire' = [wire EXCEPT ![<<q, p>>] = Tail(@)]
  PROVE  /\ wire' \in [Pair -> Seq(MessageType)]
         /\ \A k \in Pair : Range(wire'[k]) \subseteq Range(wire[k])
         /\ First(p, q) \in MessageType /\ First(p, q) \in Said(q)
<1> DEFINE l == <<q, p>>
           rest == Tail(wire[l])
<1>1. l \in Pair /\ wire[l] \in Seq(MessageType)
  BY DEF Pair, QueuesOK
<1>2. /\ Head(wire[l]) \in MessageType /\ Head(wire[l]) \in Range(wire[l])
      /\ rest \in Seq(MessageType) /\ Range(rest) \subseteq Range(wire[l])
  BY <1>1, RangeOfTail
<1>3. wire' = [wire EXCEPT ![l] = rest]
  OBVIOUS
<1>4. First(p, q) \in MessageType /\ First(p, q) \in Said(q)
  BY <1>2, SaidHas DEF First
<1> HIDE DEF l, rest
<1>5. /\ wire' \in [Pair -> Seq(MessageType)]
      /\ wire'[l] = rest /\ \A k \in Pair \ {l} : wire'[k] = wire[k]
  BY <1>1, <1>2, <1>3 DEF QueuesOK
<1> QED BY <1>2, <1>4, <1>5

(* Any two phones are a pair.                                              *)
LEMMA Pairs == \A p, q \in Phone : <<p, q>> \in Pair
  BY DEF Pair

(* What was said after a step was said before it, or is new in hand. *)
LEMMA SaidAfter ==
  ASSUME NEW p \in Phone, NEW new,
         \A r \in Phone \ {p} : task'[r] = task[r],
         \A th \in Thread : Range(task'[p][th].todo) \subseteq Said(p) \cup new,
         \A r, q \in Phone : /\ Range(waiting'[<<r, q>>]) \subseteq Said(r)
                            /\ Range(wire'[<<r, q>>]) \subseteq Said(r)
  PROVE  /\ Said(p)' \subseteq Said(p) \cup new
         /\ \A r \in Phone \ {p} : Said(r)' \subseteq Said(r)
<1>1. Said(p)' \subseteq Said(p) \cup new
  <2>1. \A q \in Phone : /\ Range(waiting'[<<p, q>>]) \subseteq Said(p) \cup new
                         /\ Range(wire'[<<p, q>>]) \subseteq Said(p) \cup new
    OBVIOUS
  <2> QED BY <2>1, SaidWithin, SaidHas
<1>2. ASSUME NEW r \in Phone \ {p} PROVE Said(r)' \subseteq Said(r)
  <2>1. \A th \in Thread : Range(task'[r][th].todo) \subseteq Said(r)
    BY SaidHas
  <2> QED BY <2>1, SaidWithin, SaidHas
<1> QED BY <1>1, <1>2

(* Queues that are left, or only shrink, hold nothing new. *)
LEMMA QueuesHold ==
  ASSUME NEW queue, queue \in {waiting, wire},
         NEW after, \A k \in Pair : Range(after[k]) \subseteq Range(queue[k])
  PROVE  \A r, q \in Phone : Range(after[<<r, q>>]) \subseteq Said(r)
  BY SaidHas, Pairs

(* A frame put behind a queue was said by the phone whose queue it is. *)
LEMMA QueueGrows ==
  ASSUME NEW queue \in [Pair -> Seq(MessageType)],
         \A r, s \in Phone : Range(queue[<<r, s>>]) \subseteq Said(r),
         NEW p \in Phone, NEW q \in Phone, NEW m \in MessageType, m \in Said(p)
  PROVE  LET after == [queue EXCEPT ![<<p, q>>] = Append(@, m)] IN
         /\ after \in [Pair -> Seq(MessageType)]
         /\ \A r, s \in Phone : Range(after[<<r, s>>]) \subseteq Said(r)
<1> DEFINE l == <<p, q>>
           longer == Append(queue[l], m)
           after == [queue EXCEPT ![l] = longer]
<1>1. l \in Pair /\ queue[l] \in Seq(MessageType) /\ Range(queue[l]) \subseteq Said(p)
  BY Pairs
<1>2. \A had \in Seq(MessageType) :
         /\ Append(had, m) \in Seq(MessageType)
         /\ Range(Append(had, m)) = Range(had) \cup {m}
  BY RangeOfAppend
<1>3. longer \in Seq(MessageType) /\ Range(longer) \subseteq Said(p)
  BY <1>1, <1>2
<1> HIDE DEF longer
<1>4. after \in [Pair -> Seq(MessageType)]
  BY <1>1, <1>3
<1>5. ASSUME NEW r \in Phone, NEW s \in Phone
      PROVE  Range(after[<<r, s>>]) \subseteq Said(r)
  <2>1. CASE r = p /\ s = q
    BY <1>1, <1>3, <2>1
  <2>2. CASE ~(r = p /\ s = q)
    <3>1. <<r, s>> # l /\ <<r, s>> \in Pair
      BY <2>2, Pairs
    <3>2. after[<<r, s>>] = queue[<<r, s>>]
      BY <1>1, <3>1
    <3> QED BY <3>2
  <2> QED BY <2>1, <2>2
<1> QED BY <1>4, <1>5 DEF longer

-----------------------------------------------------------------------------
(* What a phone has done stays done, and what was honest stays so. *)
LEMMA HonestStays ==
  ASSUME tapped \subseteq tapped', proved \subseteq proved', NEW p, NEW m, Honest(p, m)
  PROVE  Honest(p, m)'
  BY DEF Honest

(* A ceremony that ended, or that nothing was done to, is as sound as it   *)
(* was.                                                                    *)
LEMMA CeremonyStays ==
  ASSUME tapped \subseteq tapped', proved \subseteq proved', NEW p, NEW q,
         \/ ceremony'[<<p, q>>] = NoCeremony
         \/ ceremony'[<<p, q>>] = ceremony[<<p, q>>] /\ CeremonyOK(p, q)
  PROVE  CeremonyOK(p, q)'
<1>1. CASE ceremony'[<<p, q>>] = NoCeremony
  BY <1>1 DEF CeremonyOK, NoCeremony
<1>2. CASE ceremony'[<<p, q>>] = ceremony[<<p, q>>] /\ CeremonyOK(p, q)
  BY <1>2 DEF CeremonyOK, OpeningOK, ConfirmingOK
<1> QED BY <1>1, <1>2

(* The rest of the invariant, from what a step says and does. *)
LEMMA StepKeepsInv ==
  ASSUME CeremonyInv, TypeOK', tapped \subseteq tapped', proved \subseteq proved',
         \A p \in Phone : \A m \in Said(p)' : m \in Said(p) \/ Honest(p, m)',
         \A p, q \in Phone : CeremonyOK(p, q)',
         OneShower', NoIdentityWithoutBoth', PairedWasProved'
  PROVE  CeremonyInv'
<1>1. Honesty'
  BY HonestStays DEF CeremonyInv, Honesty
<1> QED BY <1>1 DEF CeremonyInv

(* Ceremonies that are left, or end, stay well-formed. *)
LEMMA CeremoniesEnd ==
  ASSUME CeremoniesOK, NEW p \in Phone, NEW q \in Phone,
         ceremony' \in {ceremony, [ceremony EXCEPT ![<<p, q>>] = NoCeremony]}
  PROVE  CeremoniesOK' /\ \A k \in Pair : ceremony'[k] \in {ceremony[k], NoCeremony}
  BY DEF CeremoniesOK

(* The screen, and the numbers of codes and keys, untouched.               *)
LEMMA ScreenStays ==
  ASSUME ScreenOK, UNCHANGED <<cast, showing, codes, made>>
  PROVE  ScreenOK'
  BY DEF ScreenOK

(* A step that begins no ceremony and goes on with none. *)
LEMMA QuietStep ==
  ASSUME CeremonyInv, ScreenOK', QueuesOK', UNCHANGED <<tapped, proved>>,
         \A r \in Phone : Said(r)' \subseteq Said(r),
         NEW p \in Phone, NEW q \in Phone,
         ceremony' \in {ceremony, [ceremony EXCEPT ![<<p, q>>] = NoCeremony]},
         PairedWasProved'
  PROVE  CeremonyInv'
<1>1. CeremoniesOK' /\ \A k \in Pair : ceremony'[k] \in {ceremony[k], NoCeremony}
  BY CeremoniesEnd DEF CeremonyInv, TypeOK
<1>2. TypeOK'
  BY <1>1 DEF TypeOK
<1>3. \A r, s \in Phone : CeremonyOK(r, s)'
  BY <1>1, Pairs, CeremonyStays DEF CeremonyInv
<1>4. OneShower'
  <2>1. \A r, s \in Phone : Answers(r, s)' => Answers(r, s)
    BY <1>1, Pairs DEF Answers, InFlight, NoCeremony
  <2> QED BY <2>1 DEF CeremonyInv, OneShower
<1>5. NoIdentityWithoutBoth'
  BY DEF CeremonyInv, NoIdentityWithoutBoth
<1> QED BY <1>2, <1>3, <1>4, <1>5, StepKeepsInv

(* Nobody is paired in the step.                                           *)
LEMMA PairedStays ==
  ASSUME CeremonyInv, UNCHANGED <<paired, proved>>
  PROVE  PairedWasProved'
  BY DEF CeremonyInv, PairedWasProved

-----------------------------------------------------------------------------
(* The screen. *)
LEMMA PairingInviteKeeps ==
  ASSUME CeremonyInv, NEW p \in Phone, PairingInvite(p)
  PROVE  CeremonyInv'
<1>1. /\ codes' = [codes EXCEPT ![p] = @ + 1]
      /\ showing' = [showing EXCEPT ![p] = <<p, codes[p] + 1>>]
      /\ UNCHANGED <<cast, made, ceremony, waiting, wire, task, tapped, proved, paired>>
  BY DEF PairingInvite, line, history
<1>2. ScreenOK /\ QueuesOK
  BY DEF CeremonyInv, TypeOK
<1>3. ScreenOK'
  BY <1>1, <1>2 DEF ScreenOK, Code
<1>4. QueuesOK' /\ \A r \in Phone : Said(r)' \subseteq Said(r)
  BY <1>1, <1>2 DEF QueuesOK, Said, InHand, Queued, OnTheWay
<1> QED BY <1>1, <1>3, <1>4, QuietStep, PairedStays

(* The code is taken off the screen, with no ceremony touched.             *)
LEMMA StopShowingKeeps ==
  ASSUME CeremonyInv, NEW p \in Phone, StopShowing(p)
  PROVE  CeremonyInv'
<1>1. /\ showing' = [showing EXCEPT ![p] = NoCode]
      /\ UNCHANGED <<cast, codes, made, ceremony, waiting, wire, task, tapped, proved, paired>>
  BY DEF StopShowing, line, history
<1>2. ScreenOK /\ QueuesOK
  BY DEF CeremonyInv, TypeOK
<1>3. ScreenOK'
  BY <1>1, <1>2 DEF ScreenOK, Code
<1>4. QueuesOK' /\ \A r \in Phone : Said(r)' \subseteq Said(r)
  BY <1>1, <1>2 DEF QueuesOK, Said, InHand, Queued, OnTheWay
<1> QED BY <1>1, <1>3, <1>4, QuietStep, PairedStays

(* forget_ceremony, on a thread that has nothing left to send or that      *)
(* keeps what it has.                                                      *)
LEMMA ForgetKeeps ==
  ASSUME CeremonyInv, NEW p \in Phone, NEW q \in Phone, Forget(p, q),
         task' \in [Phone -> [Thread -> TaskType]],
         \A r \in Phone \ {p} : task'[r] = task[r],
         \A th \in Thread : Range(task'[p][th].todo) \subseteq Said(p),
         wire' \in [Pair -> Seq(MessageType)],
         \A k \in Pair : Range(wire'[k]) \subseteq Range(wire[k]),
         UNCHANGED <<cast, showing, codes, made, tapped, proved>>, PairedWasProved'
  PROVE  CeremonyInv'
<1>1. ScreenOK /\ QueuesOK
  BY DEF CeremonyInv, TypeOK
<1>2. ScreenOK'
  BY <1>1, ScreenStays
<1>3. /\ waiting' \in [Pair -> Seq(MessageType)]
      /\ \A k \in Pair : Range(waiting'[k]) \subseteq Range(waiting[k])
  BY <1>1, WaitingCleared DEF Forget
<1>4. \A r, s \in Phone : /\ Range(waiting'[<<r, s>>]) \subseteq Said(r)
                          /\ Range(wire'[<<r, s>>]) \subseteq Said(r)
  BY <1>3, SaidHas, Pairs
<1>5. \A th \in Thread : Range(task'[p][th].todo) \subseteq Said(p) \cup {}
  OBVIOUS
<1>6. \A r \in Phone : Said(r)' \subseteq Said(r)
  BY <1>4, <1>5, SaidAfter
<1>7. QueuesOK'
  BY <1>3 DEF QueuesOK
<1>8. ceremony' \in {ceremony, [ceremony EXCEPT ![<<p, q>>] = NoCeremony]}
  BY DEF Forget
<1> QED BY <1>2, <1>6, <1>7, <1>8, QuietStep

(* The threads of every phone have in hand what they had.                  *)
LEMMA TaskStays ==
  ASSUME QueuesOK, task' = task, NEW p \in Phone
  PROVE  /\ task' \in [Phone -> [Thread -> TaskType]]
         /\ \A r \in Phone \ {p} : task'[r] = task[r]
         /\ \A th \in Thread : Range(task'[p][th].todo) \subseteq Said(p)
  BY SaidHas DEF QueuesOK

(* Nothing moves between the phones.                                       *)
LEMMA WireStays ==
  ASSUME QueuesOK, wire' = wire
  PROVE  /\ wire' \in [Pair -> Seq(MessageType)]
         /\ \A k \in Pair : Range(wire'[k]) \subseteq Range(wire[k])
  BY DEF QueuesOK

(* cancel_pairing forgets the ceremony and the frames that wait.           *)
LEMMA CancelPairingKeeps ==
  ASSUME CeremonyInv, NEW p \in Phone, NEW q \in Phone, CancelPairing(p, q)
  PROVE  CeremonyInv'
<1>1. /\ Forget(p, q)
      /\ UNCHANGED <<cast, showing, codes, made, wire, task, tapped, proved, paired>>
  BY DEF CancelPairing, screen, line
<1>2. QueuesOK
  BY DEF CeremonyInv, TypeOK
<1> QED BY <1>1, <1>2, TaskStays, WireStays, ForgetKeeps, PairedStays

-----------------------------------------------------------------------------
(* dispatch and send_ceremony. *)

(* A thread that has frames has the phone they are for. *)
LEMMA WorksFields ==
  ASSUME QueuesOK, NEW p \in Phone, NEW th \in Thread, Works(p, th)
  PROVE  /\ task[p][th] \in [to : Phone, todo : Seq(MessageType), via : Vias]
         /\ Head(task[p][th].todo) \in MessageType
         /\ Head(task[p][th].todo) \in Said(p)
         /\ Tail(task[p][th].todo) \in Seq(MessageType)
         /\ Range(Tail(task[p][th].todo)) \subseteq Said(p)
<1>1. /\ task[p][th] \in [to : Phone, todo : Seq(MessageType), via : Vias]
      /\ task[p][th].todo # <<>>
  BY DEF QueuesOK, TaskType, Idle, Works
<1>2. task[p][th].todo \in Seq(MessageType)
  BY <1>1
<1> QED BY <1>1, <1>2, RangeOfTail, SaidHas

(* Sending what it has in hand, a phone says nothing new. *)
LEMMA SendsWithin ==
  ASSUME QueuesOK, NEW p \in Phone, NEW th \in Thread, NEW q \in Phone,
         NEW frames \in Seq(MessageType), Range(frames) \subseteq Said(p),
         NEW way \in Vias, SendsBy(p, th, q, frames, way)
  PROVE  /\ task' \in [Phone -> [Thread -> TaskType]]
         /\ \A r \in Phone \ {p} : task'[r] = task[r]
         /\ \A u \in Thread : Range(task'[p][u].todo) \subseteq Said(p)
  BY SendsFields

(* The rest of the frames goes on by a way there is. *)
LEMMA OnwardSends ==
  ASSUME NEW p, NEW th, Onward(p, th)
  PROVE  \E way \in Vias : SendsBy(p, th, task[p][th].to, Tail(task[p][th].todo), way)
<1>1. (IF Way(p, th) \in {"flush", "flushed"} THEN "flush" ELSE "none") \in Vias
  BY DEF Vias
<1> QED BY <1>1 DEF Onward

(* A thread goes another way with what it has in hand: nothing is said.    *)
LEMMA WayStep ==
  ASSUME CeremonyInv, NEW p \in Phone, NEW th \in Thread, Works(p, th),
         NEW way \in Vias, task' = [task EXCEPT ![p][th].via = way],
         UNCHANGED <<cast, showing, codes, made, ceremony, waiting, wire, tapped, proved, paired>>
  PROVE  CeremonyInv'
<1>1. ScreenOK /\ QueuesOK
  BY DEF CeremonyInv, TypeOK
<1>2. task[p][th] \in [to : Phone, todo : Seq(MessageType), via : Vias]
  BY <1>1, WorksFields
<1>3. /\ task' \in [Phone -> [Thread -> TaskType]]
      /\ \A r \in Phone \ {p} : task'[r] = task[r]
      /\ \A u \in Thread : task'[p][u].todo = task[p][u].todo
  BY <1>1, <1>2 DEF QueuesOK, TaskType
<1>4. QueuesOK'
  BY <1>1, <1>3 DEF QueuesOK
<1>5. \A u \in Thread : Range(task'[p][u].todo) \subseteq Said(p) \cup {}
  BY <1>3, SaidHas
<1>6. \A r \in Phone : Said(r)' \subseteq Said(r)
  BY <1>3, <1>5, SaidAfter, SaidHas
<1> QED BY <1>1, <1>4, <1>6, QuietStep, PairedStays, ScreenStays

(* A thread that asked whether the session is open sends or queues what it *)
(* had in hand.                                                            *)
LEMMA ChooseWayKeeps ==
  ASSUME CeremonyInv, NEW p \in Phone, NEW th \in Thread, ChooseWay(p, th)
  PROVE  CeremonyInv'
<1>1. PICK way \in {"session", "queue"} : task' = [task EXCEPT ![p][th].via = way]
  BY DEF ChooseWay
<1>2. UNCHANGED <<cast, showing, codes, made, ceremony, waiting, wire, tapped, proved, paired>>
  BY DEF ChooseWay, screen, line, history
<1>3. Works(p, th) /\ way \in Vias
  BY DEF ChooseWay, Vias
<1> QED BY <1>1, <1>2, <1>3, WayStep

(* The first frame in hand has its number.                                 *)
LEMMA SealFrameKeeps ==
  ASSUME CeremonyInv, NEW p \in Phone, NEW th \in Thread, SealFrame(p, th)
  PROVE  CeremonyInv'
<1>1. PICK way \in {"sealed", "flushed"} : task' = [task EXCEPT ![p][th].via = way]
  BY DEF SealFrame
<1>2. UNCHANGED <<cast, showing, codes, made, ceremony, waiting, wire, tapped, proved, paired>>
  BY DEF SealFrame, screen, history
<1>3. Works(p, th) /\ way \in Vias
  BY DEF SealFrame, Vias
<1> QED BY <1>1, <1>2, <1>3, WayStep

(* Noise is a message. *)
LEMMA GarbledIs == Garbled \in MessageType
  BY DEF Garbled, Message, MessageType, Transcript, Code, Key

(* The first frame in hand goes to the wire, or is noise there, or lost.   *)
LEMMA WriteFrameKeeps ==
  ASSUME CeremonyInv, NEW p \in Phone, NEW th \in Thread, WriteFrame(p, th)
  PROVE  CeremonyInv'
<1> DEFINE q == task[p][th].to
           m == Head(task[p][th].todo)
           rest == Tail(task[p][th].todo)
<1>1. /\ Works(p, th) /\ Onward(p, th)
      /\ \/ wire' = wire
         \/ \E e \in {m, Garbled} : wire' = [wire EXCEPT ![<<p, q>>] = Append(@, e)]
      /\ UNCHANGED <<cast, showing, codes, made, ceremony, waiting, tapped, proved, paired>>
  BY DEF WriteFrame, IsSealed, Link, screen, history
<1>2. ScreenOK /\ QueuesOK
  BY DEF CeremonyInv, TypeOK
<1>3. /\ q \in Phone /\ m \in MessageType /\ m \in Said(p)
      /\ rest \in Seq(MessageType) /\ Range(rest) \subseteq Said(p)
  BY <1>1, <1>2, WorksFields
<1>10. PICK way \in Vias : SendsBy(p, th, q, rest, way)
  BY <1>1, OnwardSends
<1> HIDE DEF q, m, rest
<1>4. /\ task' \in [Phone -> [Thread -> TaskType]]
      /\ \A r \in Phone \ {p} : task'[r] = task[r]
      /\ \A u \in Thread : Range(task'[p][u].todo) \subseteq Said(p) \cup {}
  BY <1>10, <1>2, <1>3, SendsWithin
<1>5. /\ wire' \in [Pair -> Seq(MessageType)]
      /\ \A r, s \in Phone : Range(wire'[<<r, s>>]) \subseteq Said(r)
  <2>1. CASE wire' = wire
    BY <1>2, <2>1, SaidHas DEF QueuesOK
  <2>2. ASSUME NEW e \in {m, Garbled}, wire' = [wire EXCEPT ![<<p, q>>] = Append(@, e)]
        PROVE  /\ wire' \in [Pair -> Seq(MessageType)]
               /\ \A r, s \in Phone : Range(wire'[<<r, s>>]) \subseteq Said(r)
    <3>1. e \in MessageType /\ e \in Said(p)
      BY <1>3, GarbledIs, SaidHas
    <3> QED BY <1>2, <1>3, <2>2, <3>1, SaidHas, QueueGrows DEF QueuesOK
  <2> QED BY <1>1, <2>1, <2>2
<1>6. QueuesOK'
  BY <1>1, <1>2, <1>4, <1>5 DEF QueuesOK
<1>7. \A r, s \in Phone : Range(waiting'[<<r, s>>]) \subseteq Said(r)
  BY <1>1, SaidHas
<1>8. \A r \in Phone : Said(r)' \subseteq Said(r)
  BY <1>4, <1>5, <1>7, SaidAfter
<1> QED BY <1>1, <1>2, <1>6, <1>8, QuietStep, PairedStays, ScreenStays

(* The first frame in hand goes behind those that wait for the session.    *)
LEMMA QueueFrameKeeps ==
  ASSUME CeremonyInv, NEW p \in Phone, NEW th \in Thread, QueueFrame(p, th)
  PROVE  CeremonyInv'
<1> DEFINE q == task[p][th].to
           m == Head(task[p][th].todo)
           rest == Tail(task[p][th].todo)
<1>1. /\ Works(p, th) /\ Onward(p, th)
      /\ waiting' = [waiting EXCEPT ![<<p, q>>] = Append(@, m)]
      /\ UNCHANGED <<cast, showing, codes, made, ceremony, wire, tapped, proved, paired>>
  BY DEF QueueFrame, screen, line, history
<1>10. PICK way \in Vias : SendsBy(p, th, q, rest, way)
  BY <1>1, OnwardSends
<1>2. ScreenOK /\ QueuesOK
  BY DEF CeremonyInv, TypeOK
<1>3. /\ q \in Phone /\ m \in MessageType /\ m \in Said(p)
      /\ rest \in Seq(MessageType) /\ Range(rest) \subseteq Said(p)
  BY <1>1, <1>2, WorksFields
<1> HIDE DEF q, m, rest
<1>4. /\ task' \in [Phone -> [Thread -> TaskType]]
      /\ \A r \in Phone \ {p} : task'[r] = task[r]
      /\ \A u \in Thread : Range(task'[p][u].todo) \subseteq Said(p) \cup {}
  BY <1>10, <1>2, <1>3, SendsWithin
<1>5. /\ waiting' \in [Pair -> Seq(MessageType)]
      /\ \A r, s \in Phone : Range(waiting'[<<r, s>>]) \subseteq Said(r)
  BY <1>1, <1>2, <1>3, SaidHas, QueueGrows DEF QueuesOK
<1>6. QueuesOK'
  BY <1>1, <1>2, <1>4, <1>5 DEF QueuesOK
<1>7. \A r, s \in Phone : Range(wire'[<<r, s>>]) \subseteq Said(r)
  BY <1>1, SaidHas
<1>8. \A r \in Phone : Said(r)' \subseteq Said(r)
  BY <1>4, <1>5, <1>7, SaidAfter
<1> QED BY <1>1, <1>2, <1>6, <1>8, QuietStep, PairedStays, ScreenStays

(* The bytes were refused, or the peer cannot be dialled: the ceremony is  *)
(* forgotten, or the frame left out.                                       *)
LEMMA SendFailsKeeps ==
  ASSUME CeremonyInv, NEW p \in Phone, NEW th \in Thread,
         SendFails(p, th) \/ ReachFails(p, th)
  PROVE  CeremonyInv'
<1> DEFINE q == task[p][th].to
<1>1. /\ Works(p, th)
      /\ \/ Forget(p, q) /\ Sends(p, th, q, <<>>)
         \/ Onward(p, th) /\ UNCHANGED <<ceremony, waiting>>
      /\ UNCHANGED <<cast, showing, codes, made, wire, tapped, proved, paired>>
  BY DEF SendFails, ReachFails, Refused, screen, line, history
<1>2. ScreenOK /\ QueuesOK
  BY DEF CeremonyInv, TypeOK
<1>3. q \in Phone
  BY <1>1, <1>2, WorksFields
<1>4. CASE Forget(p, q) /\ Sends(p, th, q, <<>>)
  <2> HIDE DEF q
  <2>1. <<>> \in Seq(MessageType) /\ Range(<<>>) \subseteq Said(p) /\ "none" \in Vias
    BY RangeOfNone DEF Vias
  <2>2. /\ task' \in [Phone -> [Thread -> TaskType]]
        /\ \A r \in Phone \ {p} : task'[r] = task[r]
        /\ \A u \in Thread : Range(task'[p][u].todo) \subseteq Said(p)
    BY <1>2, <1>3, <1>4, <2>1, SendsWithin DEF Sends
  <2> QED BY <1>1, <1>2, <1>3, <1>4, <2>2, WireStays, ForgetKeeps, PairedStays
<1>5. CASE Onward(p, th) /\ UNCHANGED <<ceremony, waiting>>
  <2>1. PICK way \in Vias : SendsBy(p, th, q, Tail(task[p][th].todo), way)
    BY <1>5, OnwardSends
  <2>2. /\ Tail(task[p][th].todo) \in Seq(MessageType)
        /\ Range(Tail(task[p][th].todo)) \subseteq Said(p)
    BY <1>1, <1>2, WorksFields
  <2> HIDE DEF q
  <2>3. /\ task' \in [Phone -> [Thread -> TaskType]]
        /\ \A r \in Phone \ {p} : task'[r] = task[r]
        /\ \A u \in Thread : Range(task'[p][u].todo) \subseteq Said(p) \cup {}
    BY <1>2, <1>3, <2>1, <2>2, SendsWithin
  <2>4. QueuesOK'
    BY <1>1, <1>2, <1>5, <2>3 DEF QueuesOK
  <2>5. \A r \in Phone : Said(r)' \subseteq Said(r)
    BY <1>1, <1>5, <2>3, SaidAfter, SaidHas
  <2> QED BY <1>1, <1>2, <1>5, <2>4, <2>5, QuietStep, PairedStays, ScreenStays
<1> QED BY <1>1, <1>4, <1>5

-----------------------------------------------------------------------------
(* The sessions, the clock, and what is dropped. *)

(* Queues only shrink, and no thread is given anything. *)
LEMMA QueuesShrink ==
  ASSUME QueuesOK, task' = task,
         waiting' \in [Pair -> Seq(MessageType)], wire' \in [Pair -> Seq(MessageType)],
         \A k \in Pair : Range(waiting'[k]) \subseteq Range(waiting[k]),
         \A k \in Pair : Range(wire'[k]) \subseteq Range(wire[k])
  PROVE  QueuesOK' /\ \A r \in Phone : Said(r)' \subseteq Said(r)
<1>1. QueuesOK'
  BY DEF QueuesOK
<1>2. ASSUME NEW r \in Phone PROVE Said(r)' \subseteq Said(r)
  <2>1. \A th \in Thread : Range(task'[r][th].todo) \subseteq Said(r)
    BY SaidHas
  <2>2. \A q \in Phone : /\ Range(waiting'[<<r, q>>]) \subseteq Said(r)
                         /\ Range(wire'[<<r, q>>]) \subseteq Said(r)
    BY SaidHas, Pairs
  <2> QED BY <2>1, <2>2, SaidWithin, SaidHas
<1> QED BY <1>1, <1>2

(* Nothing is queued for a session, or taken from the queue.               *)
LEMMA WaitingStays ==
  ASSUME QueuesOK, waiting' = waiting
  PROVE  /\ waiting' \in [Pair -> Seq(MessageType)]
         /\ \A k \in Pair : Range(waiting'[k]) \subseteq Range(waiting[k])
  BY DEF QueuesOK

(* A frame that fits no ceremony is dropped, and adds nothing to what was  *)
(* said.                                                                   *)
LEMMA IgnoreKeeps ==
  ASSUME CeremonyInv, NEW p \in Phone, NEW q \in Phone, Ignore(p, q)
  PROVE  CeremonyInv'
<1>1. /\ wire[<<q, p>>] # <<>> /\ wire' = [wire EXCEPT ![<<q, p>>] = Tail(@)]
      /\ UNCHANGED <<cast, showing, codes, made, ceremony, waiting, task, tapped, proved, paired>>
  BY DEF Ignore, Arrives, Reaches, Takes, screen, history
<1>2. ScreenOK /\ QueuesOK
  BY DEF CeremonyInv, TypeOK
<1>3. QueuesOK' /\ \A r \in Phone : Said(r)' \subseteq Said(r)
  BY <1>1, <1>2, ArrivesFields, WaitingStays, QueuesShrink
<1> QED BY <1>1, <1>2, <1>3, QuietStep, PairedStays, ScreenStays

(* The pump is given frames that had been said, or none. *)
LEMMA PumpStep ==
  ASSUME CeremonyInv, NEW p \in Phone,
         task' \in [Phone -> [Thread -> TaskType]],
         \A r \in Phone \ {p} : task'[r] = task[r],
         \A th \in Thread : Range(task'[p][th].todo) \subseteq Said(p),
         waiting' \in [Pair -> Seq(MessageType)],
         \A k \in Pair : Range(waiting'[k]) \subseteq Range(waiting[k]),
         UNCHANGED <<cast, showing, codes, made, ceremony, wire, tapped, proved, paired>>
  PROVE  CeremonyInv'
<1>1. ScreenOK /\ QueuesOK
  BY DEF CeremonyInv, TypeOK
<1>2. QueuesOK'
  BY <1>1 DEF QueuesOK
<1>3. \A r, q \in Phone : /\ Range(waiting'[<<r, q>>]) \subseteq Said(r)
                          /\ Range(wire'[<<r, q>>]) \subseteq Said(r)
  BY SaidHas, Pairs
<1>4. \A th \in Thread : Range(task'[p][th].todo) \subseteq Said(p) \cup {}
  OBVIOUS
<1>5. \A r \in Phone : Said(r)' \subseteq Said(r)
  BY <1>3, <1>4, SaidAfter
<1> QED BY <1>1, <1>2, <1>5, QuietStep, PairedStays, ScreenStays

(* A session opens: the pump has what waited for it still to take.         *)
LEMMA OpensKeeps ==
  ASSUME CeremonyInv, NEW p \in Phone, NEW q \in Phone, Accept(p, q) \/ Finish(p, q)
  PROVE  CeremonyInv'
<1>1. /\ task' = [task EXCEPT ![p]["pump"] = [to |-> q, todo |-> <<>>, via |-> "opened"]]
      /\ UNCHANGED <<cast, showing, codes, made, ceremony, waiting, wire, tapped, proved, paired>>
  BY DEF Accept, Finish, Opens, screen, line, history
<1>2. QueuesOK
  BY DEF CeremonyInv, TypeOK
<1> DEFINE after == [to |-> q, todo |-> <<>>, via |-> "opened"]
<1>3. after \in TaskType /\ Range(after.todo) = {}
  BY RangeOfNone DEF TaskType, Vias
<1> HIDE DEF after
<1>4. /\ task' \in [Phone -> [Thread -> TaskType]]
      /\ \A r \in Phone \ {p} : task'[r] = task[r]
      /\ \A u \in Thread : task'[p][u] = IF u = "pump" THEN after ELSE task[p][u]
  BY <1>1, <1>2, <1>3 DEF QueuesOK, after, Thread
<1>5. \A u \in Thread : Range(task'[p][u].todo) \subseteq Said(p)
  BY <1>3, <1>4, SaidHas
<1> QED BY <1>1, <1>2, <1>4, <1>5, WaitingStays, PumpStep

(* What waited for a session was said already. *)
LEMMA TakeQueuedKeeps ==
  ASSUME CeremonyInv, NEW p \in Phone, TakeQueued(p)
  PROVE  CeremonyInv'
<1> DEFINE q == task[p]["pump"].to
<1>1. /\ SendsBy(p, "pump", q, waiting[<<p, q>>], "flush")
      /\ waiting' = [waiting EXCEPT ![<<p, q>>] = <<>>]
      /\ UNCHANGED <<cast, showing, codes, made, ceremony, wire, tapped, proved, paired>>
  BY DEF TakeQueued, screen, line, history
<1>2. QueuesOK /\ "pump" \in Thread /\ "flush" \in Vias
  BY DEF CeremonyInv, TypeOK, Thread, Vias
<1>3. q \in Phone
  <2>1. task[p]["pump"] \in TaskType /\ task[p]["pump"].via = "opened"
    BY <1>2 DEF QueuesOK, TakeQueued, Way
  <2> QED BY <2>1 DEF TaskType, Idle
<1> HIDE DEF q
<1>4. waiting[<<p, q>>] \in Seq(MessageType) /\ Range(waiting[<<p, q>>]) \subseteq Said(p)
  BY <1>2, <1>3, Pairs, SaidHas DEF QueuesOK
<1>5. /\ task' \in [Phone -> [Thread -> TaskType]]
      /\ \A r \in Phone \ {p} : task'[r] = task[r]
      /\ \A u \in Thread : Range(task'[p][u].todo) \subseteq Said(p)
  BY <1>1, <1>2, <1>3, <1>4, SendsWithin
<1>6. /\ waiting' \in [Pair -> Seq(MessageType)]
      /\ \A k \in Pair : Range(waiting'[k]) \subseteq Range(waiting[k])
  BY <1>1, <1>2, WaitingCleared
<1> QED BY <1>1, <1>5, <1>6, PumpStep

(* A session is dropped, or bytes are for none: at most a frame is lost.   *)
LEMMA LostKeeps ==
  ASSUME CeremonyInv, NEW p \in Phone, NEW q \in Phone, Drop(p, q) \/ Unheard(p, q)
  PROVE  CeremonyInv'
<1>1. /\ \/ wire' = wire
         \/ wire[<<q, p>>] # <<>> /\ wire' = [wire EXCEPT ![<<q, p>>] = Tail(@)]
      /\ UNCHANGED <<cast, showing, codes, made, ceremony, waiting, task, tapped, proved, paired>>
  BY DEF Drop, Unheard, Takes, screen, history
<1>2. ScreenOK /\ QueuesOK
  BY DEF CeremonyInv, TypeOK
<1>3. /\ wire' \in [Pair -> Seq(MessageType)]
      /\ \A k \in Pair : Range(wire'[k]) \subseteq Range(wire[k])
  BY <1>1, <1>2, ArrivesFields, WireStays
<1>4. QueuesOK' /\ \A r \in Phone : Said(r)' \subseteq Said(r)
  BY <1>1, <1>2, <1>3, WaitingStays, QueuesShrink
<1> QED BY <1>1, <1>2, <1>4, QuietStep, PairedStays, ScreenStays

(* A pipe that is cut loses what was on it in both directions.             *)
LEMMA CutKeeps ==
  ASSUME CeremonyInv, NEW p \in Phone, NEW q \in Phone, Cut(p, q)
  PROVE  CeremonyInv'
<1>1. /\ wire' = [l \in Pair |-> IF l \in Ways(p, q) THEN <<>> ELSE wire[l]]
      /\ UNCHANGED <<cast, showing, codes, made, ceremony, waiting, task, tapped, proved, paired>>
  BY DEF Cut, screen, history
<1>2. ScreenOK /\ QueuesOK
  BY DEF CeremonyInv, TypeOK
<1>3. /\ wire' \in [Pair -> Seq(MessageType)]
      /\ \A k \in Pair : Range(wire'[k]) \subseteq Range(wire[k])
  <2>1. \A k \in Pair : wire'[k] \in {<<>>, wire[k]}
    BY <1>1
  <2> QED BY <1>1, <1>2, <2>1, RangeOfNone DEF QueuesOK
<1>4. QueuesOK' /\ \A r \in Phone : Said(r)' \subseteq Said(r)
  BY <1>1, <1>2, <1>3, WaitingStays, QueuesShrink
<1> QED BY <1>1, <1>2, <1>4, QuietStep, PairedStays, ScreenStays

(* The frames that waited too long are dropped.                            *)
LEMMA SweepQueueKeeps ==
  ASSUME CeremonyInv, NEW p \in Phone, SweepQueue(p)
  PROVE  CeremonyInv'
<1> DEFINE l == <<p, swept[p]>>
<1>1. /\ waiting' = [waiting EXCEPT ![l] = <<>>]
      /\ UNCHANGED <<cast, showing, codes, made, ceremony, wire, task, tapped, proved, paired>>
  BY DEF SweepQueue, screen, line, history
<1> HIDE DEF l
<1>2. ScreenOK /\ QueuesOK
  BY DEF CeremonyInv, TypeOK
<1>3. QueuesOK' /\ \A r \in Phone : Said(r)' \subseteq Said(r)
  BY <1>1, <1>2, WaitingCleared, WireStays, QueuesShrink
<1> QED BY <1>1, <1>2, <1>3, QuietStep, PairedStays, ScreenStays

(* A pipe that is gone ends the ceremony it carried.                       *)
LEMMA PipeGoneKeeps ==
  ASSUME CeremonyInv, NEW p \in Phone, NEW q \in Phone, PipeGone(p, q)
  PROVE  CeremonyInv'
<1>1. /\ Forget(p, q)
      /\ UNCHANGED <<cast, showing, codes, made, wire, task, tapped, proved, paired>>
  BY DEF PipeGone, screen, line, history
<1>2. QueuesOK
  BY DEF CeremonyInv, TypeOK
<1> QED BY <1>1, <1>2, TaskStays, WireStays, ForgetKeeps, PairedStays

(* A ceremony that took too long is ended.                                 *)
LEMMA SweepKeeps ==
  ASSUME CeremonyInv, NEW p \in Phone, NEW q \in Phone, Sweep(p, q)
  PROVE  CeremonyInv'
<1>1. /\ ceremony' \in {ceremony, [ceremony EXCEPT ![<<p, q>>] = NoCeremony]}
      /\ UNCHANGED <<cast, showing, codes, made, waiting, wire, task, tapped, proved, paired>>
  BY DEF Sweep, screen, line, history
<1>2. ScreenOK /\ QueuesOK
  BY DEF CeremonyInv, TypeOK
<1>3. QueuesOK' /\ \A r \in Phone : Said(r)' \subseteq Said(r)
  BY <1>1, <1>2, WaitingStays, WireStays, QueuesShrink
<1> QED BY <1>1, <1>2, <1>3, QuietStep, PairedStays, ScreenStays

(* A frame that does not verify ends the ceremony.                         *)
LEMMA RefuseKeeps ==
  ASSUME CeremonyInv, NEW p \in Phone, NEW q \in Phone, Refuse(p, q)
  PROVE  CeremonyInv'
<1>1. /\ wire[<<q, p>>] # <<>> /\ wire' = [wire EXCEPT ![<<q, p>>] = Tail(@)]
      /\ ceremony' \in {ceremony, [ceremony EXCEPT ![<<p, q>>] = NoCeremony]}
      /\ UNCHANGED <<cast, showing, codes, made, waiting, task, tapped, proved, paired>>
  BY DEF Refuse, Arrives, Reaches, Takes, screen
<1>2. ScreenOK /\ QueuesOK
  BY DEF CeremonyInv, TypeOK
<1>3. QueuesOK' /\ \A r \in Phone : Said(r)' \subseteq Said(r)
  BY <1>1, <1>2, ArrivesFields, WaitingStays, QueuesShrink
<1> QED BY <1>1, <1>2, <1>3, QuietStep, PairedStays, ScreenStays

(* A pairing the store refuses ends the ceremony, and pairs nobody.        *)
LEMMA CannotRecordKeeps ==
  ASSUME CeremonyInv, NEW p \in Phone, NEW q \in Phone, CannotRecord(p, q)
  PROVE  CeremonyInv'
<1>1. /\ wire[<<q, p>>] # <<>> /\ wire' = [wire EXCEPT ![<<q, p>>] = Tail(@)]
      /\ Forget(p, q)
      /\ UNCHANGED <<cast, showing, codes, made, task, tapped, proved, paired>>
  BY DEF CannotRecord, Reaches, Takes, screen, history
<1>2. QueuesOK
  BY DEF CeremonyInv, TypeOK
<1>3. /\ wire' \in [Pair -> Seq(MessageType)]
      /\ \A k \in Pair : Range(wire'[k]) \subseteq Range(wire[k])
  BY <1>1, <1>2, ArrivesFields
<1> QED BY <1>1, <1>2, <1>3, TaskStays, ForgetKeeps, PairedStays

(* The two phones of a ceremony under way are those its transcript names. *)
LEMMA EndsOf ==
  ASSUME NEW p, NEW q, NEW c \in ConfirmingType, ConfirmingOK(p, q, c)
  PROVE  Ends(c.t) = {p, q} /\ Both(c.t) = {<<p, c.t>>, <<q, c.t>>}
<1>1. c.role \in {"scanner", "shower"}
  BY DEF ConfirmingType
<1>2. {c.t[2][1], c.t[3][1]} = {p, q}
  BY <1>1 DEF ConfirmingOK, Mine
<1> QED BY <1>2 DEF Ends, Both

(* The identity arrives and the phones are paired: the ceremony knew that  *)
(* both had tapped, and an honest L1 was proved by its sender.             *)
LEMMA ReadL1Keeps ==
  ASSUME CeremonyInv, NEW p \in Phone, NEW q \in Phone, ReadL1(p, q)
  PROVE  CeremonyInv'
<1> DEFINE c == ceremony[<<p, q>>]
           m == First(p, q)
<1>1. /\ wire[<<q, p>>] # <<>> /\ wire' = [wire EXCEPT ![<<q, p>>] = Tail(@)]
      /\ IsL1(c, m) /\ Forget(p, q)
      /\ paired' = paired \cup {<<p, c.t>>}
      /\ UNCHANGED <<cast, showing, codes, made, task, tapped, proved>>
  BY DEF ReadL1, Arrives, Reaches, Takes, screen
<1>2. QueuesOK /\ CeremoniesOK /\ CeremonyOK(p, q) /\ Honesty /\ PairedWasProved
  BY DEF CeremonyInv, TypeOK
<1>3. /\ wire' \in [Pair -> Seq(MessageType)]
      /\ \A k \in Pair : Range(wire'[k]) \subseteq Range(wire[k])
      /\ m \in Said(q)
  BY <1>1, <1>2, ArrivesFields
<1>4. PairedWasProved'
  <2>1. Honest(q, m)
    BY <1>2, <1>3 DEF Honesty
  <2>2. /\ c.stage = "confirming" /\ c.we /\ c.they /\ m.kind = "L1" /\ m.t = c.t
    BY <1>1 DEF IsL1, Reads
  <2>3. c \in ConfirmingType
    BY <1>2, <2>2, Pairs DEF CeremoniesOK, NoCeremony, OpeningType
  <2>4. ConfirmingOK(p, q, c)
    BY <1>2, <2>2 DEF CeremonyOK
  <2>5. <<q, c.t>> \in proved /\ <<p, c.t>> \in proved
    BY <2>1, <2>2, <2>4 DEF Honest, ConfirmingOK
  <2>6. Both(c.t) \subseteq proved
    BY <2>3, <2>4, <2>5, EndsOf
  <2> HIDE DEF c
  <2>7. \A x \in paired' : x \in paired \/ x[2] = c.t
    BY <1>1
  <2> QED BY <1>1, <1>2, <2>6, <2>7 DEF PairedWasProved
<1> QED BY <1>1, <1>2, <1>3, <1>4, TaskStays, ForgetKeeps

-----------------------------------------------------------------------------
(* The steps a ceremony is begun by and goes on with. *)

(* One ceremony is set, frames of it are given to the thread: what the step *)
(* has to show for itself.                                                 *)
LEMMA SettingStep ==
  ASSUME CeremonyInv, ScreenOK', QueuesOK', NEW p \in Phone, NEW q \in Phone,
         NEW c \in OpeningType \cup ConfirmingType,
         ceremony' = [ceremony EXCEPT ![<<p, q>>] = c],
         c.stage = "opening" => OpeningOK(p, q, c),
         c.stage = "confirming" => ConfirmingOK(p, q, c)',
         c.role = "shower" => \A s \in Phone : Answers(p, s) => s = q,
         tapped \subseteq tapped', proved \subseteq proved', paired' = paired,
         \A x \in proved' : x \in proved \/ Both(x[2]) \subseteq tapped',
         \A m \in Said(p)' : m \in Said(p) \/ Honest(p, m)',
         \A r \in Phone \ {p} : Said(r)' \subseteq Said(r)
  PROVE  CeremonyInv'
<1>1. /\ CeremoniesOK /\ OneShower /\ NoIdentityWithoutBoth /\ PairedWasProved
      /\ \A r, s \in Phone : CeremonyOK(r, s)
  BY DEF CeremonyInv, TypeOK
<1>2. <<p, q>> \in Pair
  BY Pairs
<1>3. /\ ceremony'[<<p, q>>] = c
      /\ \A r, s \in Phone : ~(r = p /\ s = q) => ceremony'[<<r, s>>] = ceremony[<<r, s>>]
  BY <1>1, <1>2, Pairs DEF CeremoniesOK
<1>4. CeremoniesOK'
  BY <1>1, <1>2 DEF CeremoniesOK
<1>5. TypeOK'
  BY <1>4 DEF TypeOK
<1>6. ASSUME NEW r \in Phone, NEW s \in Phone PROVE CeremonyOK(r, s)'
  <2>1. CASE r = p /\ s = q
    BY <1>3, <2>1 DEF CeremonyOK, OpeningOK
  <2>2. CASE ~(r = p /\ s = q)
    BY <1>1, <1>3, <2>2, CeremonyStays
  <2> QED BY <2>1, <2>2
<1>7. OneShower'
  <2>1. \A r, s \in Phone : Answers(r, s)' =>
           \/ r = p /\ s = q /\ c.role = "shower"
           \/ ~(r = p /\ s = q) /\ Answers(r, s)
    BY <1>3 DEF Answers, InFlight
  <2> QED BY <1>1, <2>1 DEF OneShower
<1>8. NoIdentityWithoutBoth'
  BY <1>1 DEF NoIdentityWithoutBoth
<1>9. PairedWasProved'
  BY <1>1 DEF PairedWasProved
<1>10. \A r \in Phone : \A m \in Said(r)' : m \in Said(r) \/ Honest(r, m)'
  OBVIOUS
<1> QED BY <1>5, <1>6, <1>7, <1>8, <1>9, <1>10, StepKeepsInv

(* The frames given to a thread are all the step says. *)
LEMMA SendsNew ==
  ASSUME QueuesOK, NEW p \in Phone, NEW th \in Thread, NEW q \in Phone,
         NEW frames \in Seq(MessageType), Sends(p, th, q, frames), waiting' = waiting,
         wire' \in [Pair -> Seq(MessageType)],
         \A k \in Pair : Range(wire'[k]) \subseteq Range(wire[k])
  PROVE  /\ QueuesOK'
         /\ Said(p)' \subseteq Said(p) \cup Range(frames)
         /\ \A r \in Phone \ {p} : Said(r)' \subseteq Said(r)
<1>1. /\ task' \in [Phone -> [Thread -> TaskType]]
      /\ \A r \in Phone \ {p} : task'[r] = task[r]
      /\ \A u \in Thread : Range(task'[p][u].todo) \subseteq Said(p) \cup Range(frames)
  <2>1. "none" \in Vias /\ SendsBy(p, th, q, frames, "none")
    BY DEF Vias, Sends
  <2> QED BY <2>1, SendsFields
<1>2. QueuesOK'
  BY <1>1 DEF QueuesOK
<1>3. \A r, s \in Phone : /\ Range(waiting'[<<r, s>>]) \subseteq Said(r)
                          /\ Range(wire'[<<r, s>>]) \subseteq Said(r)
  BY SaidHas, Pairs
<1> QED BY <1>1, <1>2, <1>3, SaidAfter

(* A single frame. *)
LEMMA OneFrame ==
  ASSUME NEW m \in MessageType
  PROVE  <<m>> \in Seq(MessageType) /\ Range(<<m>>) = {m}
<1>1. <<m>> \in Seq(MessageType)
  OBVIOUS
<1> QED BY <1>1, RangeOfOne

(* A frame made of a kind, a transcript and a number.                      *)
LEMMA MessageFields ==
  ASSUME NEW kind \in {"hello", "answer", "finish", "Confirm", "L1"}, NEW t \in Transcript,
         NEW n \in Nat
  PROVE  /\ Message(kind, t, n) \in MessageType
         /\ Message(kind, t, n).kind = kind /\ Message(kind, t, n).t = t
  BY DEF Message, MessageType

(* An ephemeral is the phone's own, and fits a transcript. *)
LEMMA KeyIsMine ==
  ASSUME ScreenOK, NEW p \in Phone, NEW r \in Phone, NEW e \in Key
  PROVE  /\ NewKey(p) \in Mine(p)
         /\ <<showing[r], NewKey(p), NoKey>> \in Transcript
         /\ <<showing[r], e, NewKey(p)>> \in Transcript
<1>1. made[p] + 1 \in Nat /\ showing[r] \in Code
  BY DEF ScreenOK
<1>2. NewKey(p) \in Mine(p) /\ NewKey(p) \in Key
  BY <1>1 DEF NewKey, Mine, Key
<1> QED BY <1>1, <1>2 DEF Transcript, Key

(* The scanner opens a ceremony with a key of its own, and says so.        *)
LEMMA BeginPairingKeeps ==
  ASSUME CeremonyInv, NEW p \in Phone, NEW q \in Phone, BeginPairing(p, q)
  PROVE  CeremonyInv'
<1>1. PICK t, c, m :
        /\ t = <<showing[q], NewKey(p), NoKey>>
        /\ c = Opening("scanner", t) /\ m = Message("hello", t, 0)
        /\ made' = [made EXCEPT ![p] = @ + 1]
        /\ ceremony' = [ceremony EXCEPT ![<<p, q>>] = c]
        /\ Sends(p, "ui", q, <<m>>)
        /\ UNCHANGED <<cast, showing, codes, waiting, wire, tapped, proved, paired>>
  BY Zenon DEF BeginPairing, line, Makes, screen, history
<1>2. ScreenOK /\ QueuesOK
  BY DEF CeremonyInv, TypeOK
<1>3. ScreenOK'
  BY <1>1, <1>2 DEF ScreenOK
<1>4. t \in Transcript /\ t[2] \in Mine(p)
  BY <1>1, <1>2, KeyIsMine DEF Key
<1>5. m \in MessageType /\ m.kind = "hello" /\ m.t = t
  BY <1>1, <1>4, MessageFields
<1>6. c \in OpeningType /\ c.stage = "opening" /\ c.role = "scanner" /\ c.t = t
  BY <1>1, <1>4 DEF Opening, OpeningType
<1>7. <<m>> \in Seq(MessageType) /\ Range(<<m>>) = {m}
  BY <1>5, OneFrame
<1>8. "ui" \in Thread
  BY DEF Thread
<1>9. /\ QueuesOK'
      /\ Said(p)' \subseteq Said(p) \cup {m}
      /\ \A r \in Phone \ {p} : Said(r)' \subseteq Said(r)
  BY <1>1, <1>2, <1>7, <1>8, WireStays, SendsNew
<1>10. \A x \in Said(p)' : x \in Said(p) \/ Honest(p, x)'
  BY <1>4, <1>5, <1>9 DEF Honest
<1>11. OpeningOK(p, q, c)
  BY <1>4, <1>6 DEF OpeningOK
<1> QED BY <1>1, <1>3, <1>6, <1>9, <1>10, <1>11, SettingStep

(* The shower answers the hello, unless another ceremony of his is under   *)
(* way: so he answers one phone at a time.                                 *)
LEMMA ReadHelloKeeps ==
  ASSUME CeremonyInv, NEW p \in Phone, NEW q \in Phone, ReadHello(p, q)
  PROVE  CeremonyInv'
<1>1. PICK e, t, c, m :
        /\ e = IF First(p, q).kind = "hello" THEN First(p, q).t[2] ELSE Stray
        /\ t = <<showing[p], e, NewKey(p)>>
        /\ c = Opening("shower", t) /\ m = Message("answer", t, 0)
        /\ wire[<<q, p>>] # <<>> /\ wire' = [wire EXCEPT ![<<q, p>>] = Tail(@)]
        /\ CodeIsFree(p) /\ made' = [made EXCEPT ![p] = @ + 1]
        /\ ceremony' = [ceremony EXCEPT ![<<p, q>>] = c]
        /\ Sends(p, "pump", q, <<m>>)
        /\ UNCHANGED <<cast, showing, codes, waiting, tapped, proved, paired>>
  BY Zenon DEF ReadHello, Arrives, Reaches, Takes, Makes, screen, history
<1>2. ScreenOK /\ QueuesOK
  BY DEF CeremonyInv, TypeOK
<1>3. ScreenOK'
  BY <1>1, <1>2 DEF ScreenOK
<1>4. /\ wire' \in [Pair -> Seq(MessageType)]
      /\ \A k \in Pair : Range(wire'[k]) \subseteq Range(wire[k])
      /\ First(p, q) \in MessageType
  BY <1>1, <1>2, ArrivesFields
<1>5. e \in Key
  BY <1>1, <1>4 DEF MessageType, Transcript, Key
<1>6. t \in Transcript /\ t[3] \in Mine(p)
  BY <1>1, <1>2, <1>5, KeyIsMine
<1>7. m \in MessageType /\ m.kind = "answer" /\ m.t = t
  BY <1>1, <1>6, MessageFields
<1>8. c \in OpeningType /\ c.stage = "opening" /\ c.role = "shower" /\ c.t = t
  BY <1>1, <1>6 DEF Opening, OpeningType
<1>9. <<m>> \in Seq(MessageType) /\ Range(<<m>>) = {m}
  BY <1>7, OneFrame
<1>10. "pump" \in Thread
  BY DEF Thread
<1>11. /\ QueuesOK'
       /\ Said(p)' \subseteq Said(p) \cup {m}
       /\ \A r \in Phone \ {p} : Said(r)' \subseteq Said(r)
  BY <1>1, <1>2, <1>4, <1>9, <1>10, SendsNew
<1>12. \A x \in Said(p)' : x \in Said(p) \/ Honest(p, x)'
  BY <1>6, <1>7, <1>11 DEF Honest
<1>13. OpeningOK(p, q, c)
  BY <1>6, <1>8 DEF OpeningOK
<1>14. \A s \in Phone : ~Answers(p, s)
  BY <1>1 DEF CodeIsFree, Answers
<1> QED BY <1>1, <1>3, <1>8, <1>11, <1>12, <1>13, <1>14, SettingStep

(* What a ceremony under way begins as, and the two readings that bring it *)
(* there.                                                                  *)
LEMMA ConfirmingFields ==
  ASSUME NEW role \in {"scanner", "shower"}, NEW t \in Transcript
  PROVE  LET c == Confirming(role, t) IN
         /\ c \in ConfirmingType /\ c.stage = "confirming" /\ c.role = role /\ c.t = t
         /\ c.we = FALSE /\ c.they = FALSE /\ c.proved = FALSE
  BY DEF Confirming, ConfirmingType

(* The scanner learns the shower's key from the answer and goes on to      *)
(* confirm.                                                                *)
LEMMA ReadAnswerKeeps ==
  ASSUME CeremonyInv, NEW p \in Phone, NEW q \in Phone, ReadAnswer(p, q)
  PROVE  CeremonyInv'
<1>1. PICK b, m, t, c, f :
        /\ b = ceremony[<<p, q>>] /\ m = First(p, q) /\ t = m.t
        /\ c = Confirming("scanner", t) /\ f = Message("finish", t, 0)
        /\ wire[<<q, p>>] # <<>> /\ wire' = [wire EXCEPT ![<<q, p>>] = Tail(@)]
        /\ IsAnswer(b, m)
        /\ ceremony' = [ceremony EXCEPT ![<<p, q>>] = c]
        /\ Sends(p, "pump", q, <<f>>)
        /\ UNCHANGED <<cast, showing, codes, made, waiting, tapped, proved, paired>>
  BY Zenon DEF ReadAnswer, Arrives, Reaches, Takes, screen, history
<1>2. ScreenOK /\ QueuesOK /\ CeremonyOK(p, q) /\ Honesty
  BY DEF CeremonyInv, TypeOK
<1>3. ScreenOK'
  BY <1>1, <1>2, ScreenStays
<1>4. /\ wire' \in [Pair -> Seq(MessageType)]
      /\ \A k \in Pair : Range(wire'[k]) \subseteq Range(wire[k])
      /\ m \in MessageType /\ m \in Said(q)
  BY <1>1, <1>2, ArrivesFields
<1>5. /\ b.stage = "opening" /\ b.role = "scanner" /\ m.kind = "answer" /\ t[2] = b.t[2]
  BY <1>1 DEF IsAnswer
<1>6. t[2] \in Mine(p)
  BY <1>1, <1>2, <1>5 DEF CeremonyOK, OpeningOK
<1>7. t[3] \in Mine(q)
  BY <1>1, <1>2, <1>4, <1>5 DEF Honesty, Honest
<1>8. t \in Transcript
  BY <1>1, <1>4 DEF MessageType
<1>9. f \in MessageType /\ f.kind = "finish" /\ f.t = t
  BY <1>1, <1>8, MessageFields
<1>10. /\ c \in ConfirmingType /\ c.stage = "confirming" /\ c.role = "scanner" /\ c.t = t
       /\ c.we = FALSE /\ c.they = FALSE /\ c.proved = FALSE
  BY <1>1, <1>8, ConfirmingFields
<1>11. <<f>> \in Seq(MessageType) /\ Range(<<f>>) = {f}
  BY <1>9, OneFrame
<1>12. "pump" \in Thread
  BY DEF Thread
<1>13. /\ QueuesOK'
       /\ Said(p)' \subseteq Said(p) \cup {f}
       /\ \A r \in Phone \ {p} : Said(r)' \subseteq Said(r)
  BY <1>1, <1>2, <1>4, <1>11, <1>12, SendsNew
<1>14. \A x \in Said(p)' : x \in Said(p) \/ Honest(p, x)'
  BY <1>6, <1>9, <1>13 DEF Honest
<1>15. ConfirmingOK(p, q, c)'
  BY <1>6, <1>7, <1>10 DEF ConfirmingOK
<1> QED BY <1>1, <1>3, <1>10, <1>13, <1>14, <1>15, SettingStep

(* The shower learns the scanner's key from the finish and goes on to      *)
(* confirm.                                                                *)
LEMMA ReadFinishKeeps ==
  ASSUME CeremonyInv, NEW p \in Phone, NEW q \in Phone, ReadFinish(p, q)
  PROVE  CeremonyInv'
<1>1. PICK b, m, t, c :
        /\ b = ceremony[<<p, q>>] /\ m = First(p, q) /\ t = m.t
        /\ c = Confirming("shower", t)
        /\ wire[<<q, p>>] # <<>> /\ wire' = [wire EXCEPT ![<<q, p>>] = Tail(@)]
        /\ IsFinish(b, m)
        /\ ceremony' = [ceremony EXCEPT ![<<p, q>>] = c]
        /\ UNCHANGED <<cast, showing, codes, made, waiting, task, tapped, proved, paired>>
  BY Zenon DEF ReadFinish, Arrives, Reaches, Takes, screen, history
<1>2. ScreenOK /\ QueuesOK /\ CeremonyOK(p, q) /\ Honesty /\ OneShower
  BY DEF CeremonyInv, TypeOK
<1>3. ScreenOK'
  BY <1>1, <1>2, ScreenStays
<1>4. /\ wire' \in [Pair -> Seq(MessageType)]
      /\ \A k \in Pair : Range(wire'[k]) \subseteq Range(wire[k])
      /\ m \in MessageType /\ m \in Said(q)
  BY <1>1, <1>2, ArrivesFields
<1>5. b.stage = "opening" /\ b.role = "shower" /\ m.kind = "finish" /\ t = b.t
  BY <1>1 DEF IsFinish
<1>6. t[3] \in Mine(p)
  BY <1>1, <1>2, <1>5 DEF CeremonyOK, OpeningOK
<1>7. t[2] \in Mine(q)
  BY <1>1, <1>2, <1>4, <1>5 DEF Honesty, Honest
<1>8. t \in Transcript
  BY <1>1, <1>4 DEF MessageType
<1>9. /\ c \in ConfirmingType /\ c.stage = "confirming" /\ c.role = "shower" /\ c.t = t
      /\ c.we = FALSE /\ c.they = FALSE /\ c.proved = FALSE
  BY <1>1, <1>8, ConfirmingFields
<1>10. QueuesOK' /\ \A r \in Phone : Said(r)' \subseteq Said(r)
  BY <1>1, <1>2, <1>4, WaitingStays, QueuesShrink
<1>11. ConfirmingOK(p, q, c)'
  BY <1>6, <1>7, <1>9 DEF ConfirmingOK
<1>12. \A s \in Phone : Answers(p, s) => s = q
  <2>1. Answers(p, q)
    BY <1>1, <1>5 DEF Answers, InFlight
  <2> QED BY <1>2, <2>1 DEF OneShower
<1>13. \A x \in Said(p)' : x \in Said(p)
  BY <1>10
<1> QED BY <1>1, <1>3, <1>9, <1>10, <1>11, <1>12, <1>13, SettingStep

-----------------------------------------------------------------------------
(* The two confirmations, and the identity that goes once both are there. *)

(* What prove_if_ready does: the identity goes exactly when both have      *)
(* confirmed and it has not gone, sealed behind what is being sent.        *)
LEMMA ProveIfReadyFields ==
  ASSUME NEW c \in ConfirmingType, NEW frames \in Seq(MessageType)
  PROVE  LET r == ProveIfReady(c, frames) IN
         /\ r.c \in ConfirmingType /\ r.c.stage = "confirming"
         /\ r.c.role = c.role /\ r.c.t = c.t /\ r.c.we = c.we /\ r.c.they = c.they
         /\ r.c.proved <=> c.proved \/ (c.we /\ c.they)
         /\ r.frames \in Seq(MessageType)
         /\ \A m \in Range(r.frames) :
               m \in Range(frames) \/ (m.kind = "L1" /\ m.t = c.t /\ r.c.proved)
<1> DEFINE l == Sealed(c, "L1")
           d == [c EXCEPT !.proved = TRUE, !.out = @ + 1]
<1>0. PICK n \in Nat : n = c.out + 1
  BY DEF ConfirmingType
<1>1. /\ c.t \in Transcript /\ c.out \in Nat /\ c.stage = "confirming"
      /\ c.we \in BOOLEAN /\ c.they \in BOOLEAN /\ c.proved \in BOOLEAN
  BY DEF ConfirmingType
<1>2. l \in MessageType /\ l.kind = "L1" /\ l.t = c.t
  BY <1>1, MessageFields DEF Sealed
<1> HIDE DEF l
<1>3. /\ Append(frames, l) \in Seq(MessageType)
      /\ Range(Append(frames, l)) = Range(frames) \cup {l}
  BY <1>2, RangeOfAppend
<1>4. /\ d \in ConfirmingType /\ d.stage = "confirming" /\ d.proved = TRUE
      /\ d.role = c.role /\ d.t = c.t /\ d.we = c.we /\ d.they = c.they
  <2>1. d = [c EXCEPT !.proved = TRUE, !.out = n]
    BY <1>0
  <2> QED BY <2>1 DEF ConfirmingType
<1>5. CASE MayProve(c)
  <2>1. /\ ProveIfReady(c, frames).c = d
        /\ ProveIfReady(c, frames).frames = Append(frames, l)
    BY <1>5 DEF ProveIfReady, l
  <2> HIDE DEF d
  <2> QED BY <1>2, <1>3, <1>4, <1>5, <2>1 DEF MayProve
<1>6. CASE ~MayProve(c)
  <2>1. ProveIfReady(c, frames).c = c /\ ProveIfReady(c, frames).frames = frames
    BY <1>6 DEF ProveIfReady
  <2> HIDE DEF d
  <2> QED BY <1>1, <1>6, <2>1 DEF MayProve
<1> QED BY <1>5, <1>6

(* Whoever newly proved did so with both people's confirmations. *)
LEMMA NewlyProved ==
  ASSUME NEW p, NEW q, NEW b \in ConfirmingType, ConfirmingOK(p, q, b), NEW c, c.t = b.t,
         <<p, b.t>> \in tapped', <<q, b.t>> \in tapped',
         proved' = proved \cup Proved(p, c)
  PROVE  \A x \in proved' : x \in proved \/ Both(x[2]) \subseteq tapped'
<1>1. Both(b.t) = {<<p, b.t>>, <<q, b.t>>}
  BY EndsOf
<1>2. proved' \subseteq proved \cup {<<p, b.t>>}
  BY DEF Proved
<1>3. <<p, b.t>>[2] = b.t
  OBVIOUS
<1>4. \A x \in proved' : x \in proved \/ x[2] = b.t
  BY <1>2, <1>3
<1> QED BY <1>1, <1>4

(* Going on with a ceremony under way, b, as c, between the same phones in *)
(* the same roles: what is known of both people is true, and so is what is *)
(* sent.                                                                   *)
GoesOn(p, q, th, b, c, frames) ==
    /\ b \in ConfirmingType /\ b = ceremony[<<p, q>>]
    /\ c \in ConfirmingType /\ c.stage = "confirming" /\ c.role = b.role /\ c.t = b.t
    /\ ceremony' = [ceremony EXCEPT ![<<p, q>>] = c]
    /\ Sends(p, th, q, frames)
    /\ tapped \subseteq tapped' /\ proved' = proved \cup Proved(p, c)
    /\ c.we => <<p, b.t>> \in tapped'
    /\ c.they => <<q, b.t>> \in tapped'
    /\ c.we /\ c.they => c.proved
    /\ c.proved => b.proved \/ (c.we /\ c.they)
    /\ frames \in Seq(MessageType)
    /\ \A m \in Range(frames) :
          /\ m.kind \in {"Confirm", "L1"} /\ m.t = b.t
          /\ m.kind = "Confirm" => <<p, b.t>> \in tapped'
          /\ m.kind = "L1" => c.proved

(* A ceremony that goes on by a tap, this phone's or the other's: what is  *)
(* sent for it is honest, and L1 is sent when both have tapped and not     *)
(* before.                                                                 *)
LEMMA GoingOn ==
  ASSUME CeremonyInv, NEW p \in Phone, NEW q \in Phone, NEW th \in Thread,
         NEW b, NEW c, NEW frames, GoesOn(p, q, th, b, c, frames),
         UNCHANGED <<cast, showing, codes, made, waiting, paired>>,
         wire' \in [Pair -> Seq(MessageType)],
         \A k \in Pair : Range(wire'[k]) \subseteq Range(wire[k])
  PROVE  CeremonyInv'
<1> USE DEF GoesOn
<1>1. /\ ScreenOK /\ QueuesOK /\ OneShower /\ NoIdentityWithoutBoth
      /\ CeremonyOK(p, q)
  BY DEF CeremonyInv, TypeOK
<1>2. ScreenOK'
  BY <1>1, ScreenStays
<1>3. /\ QueuesOK'
      /\ Said(p)' \subseteq Said(p) \cup Range(frames)
      /\ \A r \in Phone \ {p} : Said(r)' \subseteq Said(r)
  BY <1>1, SendsNew
<1>4. b.stage = "confirming"
  BY DEF ConfirmingType
<1>5. ConfirmingOK(p, q, b)
  BY <1>1, <1>4 DEF CeremonyOK
<1>6. proved \subseteq proved' /\ (c.proved => <<p, b.t>> \in proved')
  BY DEF Proved
<1>7. ConfirmingOK(p, q, c)'
  BY <1>5, <1>6 DEF ConfirmingOK
<1>8. \A m \in Said(p)' : m \in Said(p) \/ Honest(p, m)'
  BY <1>3, <1>6 DEF Honest
<1>9. \A x \in proved' : x \in proved \/ Both(x[2]) \subseteq tapped'
  <2>1. CASE b.proved
    BY <1>5, <2>1 DEF ConfirmingOK, Proved
  <2>2. CASE ~b.proved /\ c.proved
    BY <1>5, <2>2, NewlyProved
  <2>3. CASE ~c.proved
    BY <2>3 DEF Proved
  <2> QED BY <2>1, <2>2, <2>3
<1>10. c.role = "shower" => \A s \in Phone : Answers(p, s) => s = q
  <2>1. c.role = "shower" => Answers(p, q)
    BY <1>4 DEF Answers, InFlight
  <2> QED BY <1>1, <2>1 DEF OneShower
<1> QED BY <1>2, <1>3, <1>6, <1>7, <1>8, <1>9, <1>10, SettingStep

(* Our confirmation, and the identity behind it if theirs came first. *)
LEMMA ConfirmPairingKeeps ==
  ASSUME CeremonyInv, NEW p \in Phone, NEW q \in Phone, ConfirmPairing(p, q)
  PROVE  CeremonyInv'
<1>1. PICK b, d, f, one, c, frames :
        /\ b = ceremony[<<p, q>>] /\ d = [b EXCEPT !.we = TRUE, !.out = @ + 1]
        /\ f = Sealed(b, "Confirm") /\ one = <<f>>
        /\ c = ProveIfReady(d, one).c /\ frames = ProveIfReady(d, one).frames
        /\ MayTap(b)
        /\ ceremony' = [ceremony EXCEPT ![<<p, q>>] = c]
        /\ Sends(p, "ui", q, frames)
        /\ tapped' = tapped \cup {<<p, c.t>>} /\ proved' = proved \cup Proved(p, c)
        /\ UNCHANGED <<cast, showing, codes, made, waiting, wire, paired>>
  BY Zenon DEF ConfirmPairing, line, Confirm, screen
<1>2. /\ QueuesOK /\ CeremoniesOK /\ CeremonyOK(p, q)
  BY DEF CeremonyInv, TypeOK
<1>3. b \in ConfirmingType /\ b.stage = "confirming"
  BY <1>1, <1>2, Pairs DEF CeremoniesOK, NoCeremony, OpeningType, MayTap
<1>4. ConfirmingOK(p, q, b)
  BY <1>1, <1>2, <1>3 DEF CeremonyOK
<1>5. /\ d \in ConfirmingType /\ d.role = b.role /\ d.t = b.t
      /\ d.we = TRUE /\ d.they = b.they /\ d.proved = b.proved
  <2>1. PICK n \in Nat : n = b.out + 1
    BY <1>3 DEF ConfirmingType
  <2>2. d = [b EXCEPT !.we = TRUE, !.out = n]
    BY <1>1, <2>1
  <2> QED BY <1>3, <2>2 DEF ConfirmingType
<1>6. f \in MessageType /\ f.kind = "Confirm" /\ f.t = b.t
  BY <1>1, <1>3, MessageFields DEF Sealed, ConfirmingType
<1>7. one \in Seq(MessageType) /\ Range(one) = {f}
  BY <1>1, <1>6, OneFrame
<1>8. /\ c \in ConfirmingType /\ c.stage = "confirming"
      /\ c.role = b.role /\ c.t = b.t /\ c.we = TRUE /\ c.they = b.they
      /\ c.proved <=> (b.proved \/ b.they)
      /\ frames \in Seq(MessageType)
      /\ \A m \in Range(frames) : m = f \/ (m.kind = "L1" /\ m.t = b.t /\ c.proved)
  <2>1. PICK r : r = ProveIfReady(d, one)
    OBVIOUS
  <2>2. c = r.c /\ frames = r.frames
    BY <1>1, <2>1
  <2>3. /\ r.c \in ConfirmingType /\ r.c.stage = "confirming"
        /\ r.c.role = d.role /\ r.c.t = d.t /\ r.c.we = d.we /\ r.c.they = d.they
    BY <1>5, <1>7, <2>1, ProveIfReadyFields
  <2>4. r.c.proved <=> d.proved \/ (d.we /\ d.they)
    BY <1>5, <1>7, <2>1, ProveIfReadyFields
  <2>5. /\ r.frames \in Seq(MessageType)
        /\ \A m \in Range(r.frames) :
               m \in Range(one) \/ (m.kind = "L1" /\ m.t = d.t /\ r.c.proved)
    BY <1>5, <1>7, <2>1, ProveIfReadyFields
  <2>6. c.proved <=> (b.proved \/ b.they)
    BY <1>5, <2>2, <2>4
  <2>7. \A m \in Range(frames) : m = f \/ (m.kind = "L1" /\ m.t = b.t /\ c.proved)
    BY <1>5, <1>7, <2>2, <2>5
  <2> QED BY <1>5, <2>2, <2>3, <2>5, <2>6, <2>7
<1>9. b.they => <<q, b.t>> \in tapped
  BY <1>4 DEF ConfirmingOK
<1>10. "ui" \in Thread
  BY DEF Thread
<1>11. /\ wire' \in [Pair -> Seq(MessageType)]
       /\ \A k \in Pair : Range(wire'[k]) \subseteq Range(wire[k])
  BY <1>1, <1>2, WireStays
<1>12. /\ tapped \subseteq tapped' /\ <<p, b.t>> \in tapped'
       /\ c.they => <<q, b.t>> \in tapped'
  BY <1>1, <1>8, <1>9
<1>13. \A m \in Range(frames) :
          /\ m.kind \in {"Confirm", "L1"} /\ m.t = b.t
          /\ m.kind = "Confirm" => <<p, b.t>> \in tapped'
          /\ m.kind = "L1" => c.proved
  BY <1>6, <1>8, <1>12
<1>14. GoesOn(p, q, "ui", b, c, frames)
  BY <1>1, <1>3, <1>8, <1>12, <1>13 DEF GoesOn
<1> QED BY <1>1, <1>10, <1>11, <1>14, GoingOn

(* Theirs, and our identity behind it if ours had gone. *)
LEMMA ReadConfirmKeeps ==
  ASSUME CeremonyInv, NEW p \in Phone, NEW q \in Phone, ReadConfirm(p, q)
  PROVE  CeremonyInv'
<1>1. PICK b, m, d, none, c, frames :
        /\ b = ceremony[<<p, q>>] /\ m = First(p, q)
        /\ d = [b EXCEPT !.they = TRUE, !.in = @ + 1]
        /\ none = <<>>
        /\ c = ProveIfReady(d, none).c /\ frames = ProveIfReady(d, none).frames
        /\ wire[<<q, p>>] # <<>> /\ wire' = [wire EXCEPT ![<<q, p>>] = Tail(@)]
        /\ IsConfirm(b, m)
        /\ ceremony' = [ceremony EXCEPT ![<<p, q>>] = c]
        /\ Sends(p, "pump", q, frames)
        /\ proved' = proved \cup Proved(p, c)
        /\ UNCHANGED <<cast, showing, codes, made, waiting, tapped, paired>>
  BY Zenon DEF ReadConfirm, PeerConfirmed, Arrives, Reaches, Takes, screen
<1>2. QueuesOK /\ CeremoniesOK /\ CeremonyOK(p, q) /\ Honesty
  BY DEF CeremonyInv, TypeOK
<1>3. /\ b \in ConfirmingType /\ b.stage = "confirming"
      /\ m.kind = "Confirm" /\ m.t = b.t
  BY <1>1, <1>2, Pairs DEF CeremoniesOK, NoCeremony, OpeningType, IsConfirm, Reads
<1>4. ConfirmingOK(p, q, b)
  BY <1>1, <1>2, <1>3 DEF CeremonyOK
<1>5. /\ wire' \in [Pair -> Seq(MessageType)]
      /\ \A k \in Pair : Range(wire'[k]) \subseteq Range(wire[k])
      /\ m \in Said(q)
  BY <1>1, <1>2, ArrivesFields
<1>6. <<q, b.t>> \in tapped
  BY <1>2, <1>3, <1>5 DEF Honesty, Honest
<1>7. /\ d \in ConfirmingType /\ d.role = b.role /\ d.t = b.t
      /\ d.they = TRUE /\ d.we = b.we /\ d.proved = b.proved
  <2>1. PICK n \in Nat : n = b.in + 1
    BY <1>3 DEF ConfirmingType
  <2>2. d = [b EXCEPT !.they = TRUE, !.in = n]
    BY <1>1, <2>1
  <2> QED BY <1>3, <2>2 DEF ConfirmingType
<1>8. none \in Seq(MessageType) /\ Range(none) = {}
  BY <1>1, RangeOfNone
<1>9. /\ c \in ConfirmingType /\ c.stage = "confirming"
      /\ c.role = b.role /\ c.t = b.t /\ c.they = TRUE /\ c.we = b.we
      /\ c.proved <=> (b.proved \/ b.we)
      /\ frames \in Seq(MessageType)
      /\ \A f \in Range(frames) : f.kind = "L1" /\ f.t = b.t /\ c.proved
  <2>1. PICK r : r = ProveIfReady(d, none)
    OBVIOUS
  <2>2. c = r.c /\ frames = r.frames
    BY <1>1, <2>1
  <2>3. /\ r.c \in ConfirmingType /\ r.c.stage = "confirming"
        /\ r.c.role = d.role /\ r.c.t = d.t /\ r.c.we = d.we /\ r.c.they = d.they
    BY <1>7, <1>8, <2>1, ProveIfReadyFields
  <2>4. r.c.proved <=> d.proved \/ (d.we /\ d.they)
    BY <1>7, <1>8, <2>1, ProveIfReadyFields
  <2>5. /\ r.frames \in Seq(MessageType)
        /\ \A f \in Range(r.frames) :
               f \in Range(none) \/ (f.kind = "L1" /\ f.t = d.t /\ r.c.proved)
    BY <1>7, <1>8, <2>1, ProveIfReadyFields
  <2>6. c.proved <=> (b.proved \/ b.we)
    BY <1>7, <2>2, <2>4
  <2>7. \A f \in Range(frames) : f.kind = "L1" /\ f.t = b.t /\ c.proved
    BY <1>7, <1>8, <2>2, <2>5
  <2> QED BY <1>7, <2>2, <2>3, <2>5, <2>6, <2>7
<1>10. "pump" \in Thread
  BY DEF Thread
<1>11. /\ tapped \subseteq tapped' /\ <<q, b.t>> \in tapped'
       /\ c.we => <<p, b.t>> \in tapped'
  BY <1>1, <1>4, <1>6, <1>9 DEF ConfirmingOK
<1>12. \A f \in Range(frames) :
          /\ f.kind \in {"Confirm", "L1"} /\ f.t = b.t
          /\ f.kind = "Confirm" => <<p, b.t>> \in tapped'
          /\ f.kind = "L1" => c.proved
  BY <1>9
<1>13. GoesOn(p, q, "pump", b, c, frames)
  BY <1>1, <1>3, <1>9, <1>11, <1>12 DEF GoesOn
<1> QED BY <1>1, <1>5, <1>10, <1>13, GoingOn

-----------------------------------------------------------------------------
(* The invariant, of the initial states and of every step. *)
LEMMA InitIsSound == Init => CeremonyInv
<1> SUFFICES ASSUME Init PROVE CeremonyInv
  OBVIOUS
<1>1. <<>> \in Seq(MessageType) /\ Range(<<>>) = {}
  BY RangeOfNone
<1>2. Idle \in TaskType /\ Idle.todo = <<>>
  BY DEF TaskType, Idle
<1>3. ScreenOK
  BY DEF Init, ScreenOK, Code
<1>4. CeremoniesOK
  BY DEF Init, CeremoniesOK
<1>5. QueuesOK
  BY <1>1, <1>2 DEF Init, QueuesOK
<1>6. ASSUME NEW p \in Phone PROVE Said(p) = {Garbled}
  <2>1. \A th \in Thread : Range(task[p][th].todo) = {}
    BY <1>1, <1>2 DEF Init
  <2>2. \A q \in Phone : Range(waiting[<<p, q>>]) = {} /\ Range(wire[<<p, q>>]) = {}
    BY <1>1, Pairs DEF Init
  <2> QED BY <2>1, <2>2 DEF Said, InHand, Queued, OnTheWay
<1>7. \A l \in Pair : ceremony[l].stage = "none"
  BY DEF Init, NoCeremony
<1>8. \A p, q \in Phone : CeremonyOK(p, q) /\ ~Answers(p, q)
  BY <1>7, Pairs DEF CeremonyOK, Answers, InFlight
<1>9. \A p \in Phone : Honest(p, Garbled)
  BY DEF Honest, Garbled, Message
<1> QED BY <1>3, <1>4, <1>5, <1>6, <1>8, <1>9
        DEF CeremonyInv, TypeOK, Honesty, OneShower, NoIdentityWithoutBoth, PairedWasProved, Init

(* A step that changes nothing.                                            *)
LEMMA StutterKeeps ==
  ASSUME CeremonyInv, UNCHANGED vars
  PROVE  CeremonyInv'
<1>1. UNCHANGED <<cast, showing, codes, made, ceremony, waiting, wire, task, tapped, proved,
                  paired>>
  BY DEF vars, screen, link, line, history
<1>2. ScreenOK /\ CeremoniesOK /\ QueuesOK
  BY DEF CeremonyInv, TypeOK
<1>3. ScreenOK' /\ CeremoniesOK'
  BY <1>1, <1>2, ScreenStays DEF CeremoniesOK
<1>4. QueuesOK' /\ \A r \in Phone : Said(r)' \subseteq Said(r)
  BY <1>1, <1>2, WaitingStays, WireStays, QueuesShrink
<1>5. \A p, q \in Phone : CeremonyOK(p, q)'
  BY <1>1, CeremonyStays DEF CeremonyInv
<1>6. OneShower' /\ NoIdentityWithoutBoth' /\ PairedWasProved'
  BY <1>1 DEF CeremonyInv, OneShower, Answers, InFlight, NoIdentityWithoutBoth, PairedWasProved
<1> QED BY <1>1, <1>3, <1>4, <1>5, <1>6, StepKeepsInv DEF TypeOK

(* Every step keeps the invariant.                                         *)
LEMMA NextKeepsInv == CeremonyInv /\ [Next]_vars => CeremonyInv'
<1> SUFFICES ASSUME CeremonyInv, [Next]_vars PROVE CeremonyInv'
  OBVIOUS
<1>1. Around \subseteq Phone
  BY AroundIsHere DEF CeremonyInv
<1>2. CASE \E p \in Around :
              PairingInvite(p) \/ StopShowing(p) \/ TakeQueued(p) \/ SweepQueue(p)
  BY <1>1, <1>2, PairingInviteKeeps, StopShowingKeeps, TakeQueuedKeeps, SweepQueueKeeps
<1>3. CASE \E p, q \in Around :
              \/ BeginPairing(p, q) \/ ConfirmPairing(p, q) \/ CancelPairing(p, q)
              \/ ReadHello(p, q) \/ Ignore(p, q) \/ ReadAnswer(p, q)
              \/ ReadFinish(p, q) \/ ReadConfirm(p, q) \/ ReadL1(p, q)
              \/ CannotRecord(p, q) \/ Refuse(p, q)
              \/ Accept(p, q) \/ Finish(p, q) \/ Drop(p, q) \/ Unheard(p, q)
              \/ Cut(p, q) \/ PipeGone(p, q) \/ Sweep(p, q)
  <2>1. PICK p \in Phone, q \in Phone :
              \/ BeginPairing(p, q) \/ ConfirmPairing(p, q) \/ CancelPairing(p, q)
              \/ ReadHello(p, q) \/ Ignore(p, q) \/ ReadAnswer(p, q)
              \/ ReadFinish(p, q) \/ ReadConfirm(p, q) \/ ReadL1(p, q)
              \/ CannotRecord(p, q) \/ Refuse(p, q)
              \/ Accept(p, q) \/ Finish(p, q) \/ Drop(p, q) \/ Unheard(p, q)
              \/ Cut(p, q) \/ PipeGone(p, q) \/ Sweep(p, q)
    BY <1>1, <1>3
  <2>2. CASE BeginPairing(p, q)
    BY <2>2, BeginPairingKeeps
  <2>3. CASE ConfirmPairing(p, q)
    BY <2>3, ConfirmPairingKeeps
  <2>4. CASE CancelPairing(p, q)
    BY <2>4, CancelPairingKeeps
  <2>5. CASE ReadHello(p, q) \/ Ignore(p, q)
    BY <2>5, ReadHelloKeeps, IgnoreKeeps
  <2>6. CASE ReadAnswer(p, q) \/ ReadFinish(p, q)
    BY <2>6, ReadAnswerKeeps, ReadFinishKeeps
  <2>7. CASE ReadConfirm(p, q)
    BY <2>7, ReadConfirmKeeps
  <2>8. CASE ReadL1(p, q) \/ CannotRecord(p, q)
    BY <2>8, ReadL1Keeps, CannotRecordKeeps
  <2>9. CASE Refuse(p, q)
    BY <2>9, RefuseKeeps
  <2>10. CASE Accept(p, q) \/ Finish(p, q)
    BY <2>10, OpensKeeps
  <2>12. CASE Drop(p, q) \/ Unheard(p, q) \/ Cut(p, q)
    BY <2>12, LostKeeps, CutKeeps
  <2>11. CASE PipeGone(p, q) \/ Sweep(p, q)
    BY <2>11, PipeGoneKeeps, SweepKeeps
  <2> QED BY <2>1, <2>2, <2>3, <2>4, <2>5, <2>6, <2>7, <2>8, <2>9, <2>10, <2>11, <2>12
<1>4. CASE \E p \in Around, th \in Thread :
              \/ ChooseWay(p, th) \/ SealFrame(p, th) \/ WriteFrame(p, th)
              \/ SendFails(p, th) \/ QueueFrame(p, th) \/ ReachFails(p, th)
  BY <1>1, <1>4, ChooseWayKeeps, SealFrameKeeps, WriteFrameKeeps, SendFailsKeeps, QueueFrameKeeps
<1>5. CASE UNCHANGED vars
  BY <1>5, StutterKeeps
<1> QED BY <1>2, <1>3, <1>4, <1>5 DEF Next

(* Every message in hand, in a queue or on its way says what its sender    *)
(* did, every ceremony is between the phones its transcript names, and one *)
(* code is answered once, whatever the order of calls, frames and cuts.    *)
THEOREM CeremonyInvHolds == Spec => []CeremonyInv
<1>1. Init => CeremonyInv
  BY InitIsSound
<1>2. CeremonyInv /\ [Next]_vars => CeremonyInv'
  BY NextKeepsInv
<1> QED BY <1>1, <1>2, PTL DEF Spec

(* No phone has sealed its Layer-1 identity before both people confirmed   *)
(* the colours of that very transcript.                                    *)
THEOREM NoIdentityWithoutBothHolds == Spec => []NoIdentityWithoutBoth
<1>1. CeremonyInv => NoIdentityWithoutBoth
  BY DEF CeremonyInv
<1> QED BY <1>1, CeremonyInvHolds, PTL

(* However many phones scan one code, at most one ceremony answers it at a *)
(* time.                                                                   *)
THEOREM OneAnswerAtATimeHolds == Spec => []OneAnswerAtATime
<1>1. ASSUME OneShower, NEW p \in Phone
      PROVE  Cardinality({q \in Phone : Answers(p, q)}) <= 1
  <2> DEFINE answering == {q \in Phone : Answers(p, q)}
  <2>1. \A q, r \in answering : q = r
    BY <1>1 DEF OneShower
  <2>2. CASE answering = {}
    BY <2>2, FS_EmptySet
  <2>3. CASE answering # {}
    <3>1. PICK q : answering = {q}
      BY <2>1, <2>3
    <3> QED BY <3>1, FS_Singleton
  <2> QED BY <2>2, <2>3
<1>2. CeremonyInv => OneAnswerAtATime
  BY <1>1 DEF CeremonyInv, OneAnswerAtATime, Answers
<1> QED BY <1>2, CeremonyInvHolds, PTL

(* Whoever wrote a pairing down holds the identity the other phone sealed, *)
(* and both people had confirmed: the half of PairedTogether that does not *)
(* depend on the order the frames came in.                                 *)
PairedWasConfirmed == \A x \in paired : Both(x[2]) \subseteq proved \cap tapped

(* Whoever writes a pairing down did so after both people had confirmed    *)
(* the words of that attempt and both phones had proved their identity to  *)
(* each other (read_l1, then the engine's record_pairing).                 *)
THEOREM PairedWasConfirmedHolds == Spec => []PairedWasConfirmed
<1>1. ASSUME CeremonyInv PROVE PairedWasConfirmed
  <2>1. ASSUME NEW x \in paired PROVE Both(x[2]) \subseteq proved \cap tapped
    <3>1. Both(x[2]) \subseteq proved
      BY <1>1 DEF CeremonyInv, PairedWasProved
    <3>2. <<x[2][2][1], x[2]>> \in Both(x[2])
      BY DEF Both, Ends
    <3>3. Both(<<x[2][2][1], x[2]>>[2]) \subseteq tapped
      BY <1>1, <3>1, <3>2 DEF CeremonyInv, NoIdentityWithoutBoth
    <3> QED BY <3>1, <3>3
  <2> QED BY <2>1 DEF PairedWasConfirmed
<1> QED BY <1>1, CeremonyInvHolds, PTL
=============================================================================
