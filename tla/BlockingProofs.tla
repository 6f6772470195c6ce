--------------------------- MODULE BlockingProofs ---------------------------
(***************************************************************************)
(* The two safety properties of Blocking, for every number of phones,      *)
(* contacts, calls, changed names and restarts.                            *)
(*                                                                         *)
(* Both say what holds while nobody is inside the core lock, and neither   *)
(* is inductive: who holds the lock decides what the live list may be      *)
(* ahead of.  BlockingInv says it for every holder.  A handle refused has  *)
(* a row, or is being unblocked at this moment, or was taught by a lesson  *)
(* queued or in a drainer's hand; and what taught that lesson has a row,   *)
(* or is being unblocked, and is not itself a pseudonym: a lesson is never *)
(* learned from a lesson.  A drainer and the screen are never inside the   *)
(* lock together, so what a drainer writes still has the row it joins.     *)
(***************************************************************************)
EXTENDS Blocking, SequenceTheorems, FiniteSetTheorems, TLAPS

-----------------------------------------------------------------------------
(* What is in a queue, before and after the code changes it.               *)

(* Nothing is in an empty queue. *)
LEMMA RangeOfNone == Range(<<>>) = {} /\ \A S : <<>> \in Seq(S)
<1>1. DOMAIN <<>> = {}
  OBVIOUS
<1> QED BY <1>1, EmptySeq DEF Range

(* A queue appended to has what it had and what was appended. *)
LEMMA RangeOfAppend ==
  ASSUME NEW S, NEW queue \in Seq(S), NEW e \in S
  PROVE  /\ Append(queue, e) \in Seq(S)
         /\ Range(Append(queue, e)) = Range(queue) \cup {e}
<1>1. Append(queue, e) = queue \o <<e>> /\ <<e>> \in Seq(S)
  BY AppendIsConcat
<1>2. Range(queue \o <<e>>) = Range(queue) \cup Range(<<e>>)
  BY <1>1, RangeConcatenation
<1> QED BY <1>1, <1>2, AppendProperties DEF Range

(* A queue has its head and what its tail has. *)
LEMMA RangeOfTail ==
  ASSUME NEW S, NEW queue \in Seq(S), queue # <<>>
  PROVE  /\ Head(queue) \in S /\ Head(queue) \in Range(queue)
         /\ Tail(queue) \in Seq(S) /\ Range(Tail(queue)) \subseteq Range(queue)
         /\ Range(queue) = {Head(queue)} \cup Range(Tail(queue))
<1>1. /\ queue = <<Head(queue)>> \o Tail(queue)
      /\ Head(queue) \in S /\ Tail(queue) \in Seq(S)
  BY HeadTailProperties
<1>2. <<Head(queue)>> \in Seq(S)
  BY <1>1
<1>3. Range(<<Head(queue)>> \o Tail(queue)) = Range(<<Head(queue)>>) \cup Range(Tail(queue))
  BY <1>1, <1>2, RangeConcatenation
<1>4. Range(<<Head(queue)>>) = {Head(queue)}
  BY DEF Range
<1> QED BY <1>1, <1>3, <1>4

-----------------------------------------------------------------------------

(* The pseudonyms, which a refused dial proves, and what it matched.       *)
Name == Peer \X {"pseudonym"} \X Nat
Lesson == (Handle \ Name) \X Name
ContactType == [key : Handle, l2 : Handle \cup {ZeroKey}, paired : SUBSET Peer]
UiType == [pc : {"idle", "block", "close", "unblock"}, handles : SUBSET Handle,
           peer : Peer \cup {NoPeer}]
PumpType == [pc : {"idle", "note", "accept", "opened", "heard", "drain"},
             peer : Peer \cup {NoPeer}]

RowsOK == contacts \in [DOMAIN contacts -> ContactType] /\ DOMAIN blocklist \subseteq Handle

ListsOK ==
    /\ who \subseteq Handle
    /\ learned \in Seq(Lesson)
    /\ batch \in [Drainer -> Seq(Lesson)]

ThreadsOK ==
    /\ ui \in UiType
    /\ pump \in PumpType
    /\ pump.pc \in {"note", "accept", "opened", "heard"} => pump.peer \in Peer

AirOK ==
    /\ session \in [Peer -> {NoSession} \cup (Handle \X Handle)]
    /\ persona \in [Peer -> Nat]
    /\ rung \in [Peer -> Nat]

TypeOK == RowsOK /\ ListsOK /\ ThreadsOK /\ AirOK

(* Nobody but the holder of the core lock is half way through a change.    *)
LockHeld ==
    /\ core = "ui" <=> ui.pc \in {"block", "unblock"}
    /\ \A t \in Drainer : batch[t] # <<>> => core = t

(* The handles with a row, those whose row is gone and which the live list *)
(* is yet to lose, and every lesson there is.                              *)
Unlisting == IF ui.pc = "unblock" THEN ui.handles ELSE {}
Known == DOMAIN blocklist \cup Unlisting
Taught == Range(learned) \cup UNION {Range(batch[t]) : t \in Drainer}

BlockIsStored == ui.pc = "block" => ui.handles \subseteq DOMAIN blocklist
LessonsAreKnown == \A lesson \in Taught : lesson[1] \in Known
WhoIsKnown == \A h \in who : h \in Known \/ \E lesson \in Taught : lesson[2] = h

BlockingInv ==
    /\ TypeOK
    /\ LockHeld
    /\ BlockIsStored
    /\ LessonsAreKnown
    /\ WhoIsKnown
    /\ LiftedIsLifted

-----------------------------------------------------------------------------
(* With and Without, by their domains and values. *)
LEMMA WithFields ==
  ASSUME NEW f, NEW S, NEW v
  PROVE  /\ DOMAIN With(f, S, v) = DOMAIN f \cup S
         /\ \A x \in S : With(f, S, v)[x] = v
         /\ \A x \in DOMAIN f \ S : With(f, S, v)[x] = f[x]
  BY DEF With

(* Taking entries from a function.                                         *)
LEMMA WithoutFields ==
  ASSUME NEW f, NEW S
  PROVE  /\ DOMAIN Without(f, S) = DOMAIN f \ S
         /\ \A x \in DOMAIN f \ S : Without(f, S)[x] = f[x]
         /\ Without(f, S) = [x \in DOMAIN f \ S |-> f[x]]
  BY DEF Without

(* The handles of a phone, by the kind they are. *)
LEMMA HandlesAreHandles ==
  ASSUME AirOK, NEW p \in Peer
  PROVE  /\ Pseudonym(p) \in Handle /\ Pseudonym(p) \in Name
         /\ SessionPub(p) \in Handle
         /\ L2Pub(p) \in Handle /\ L2Pub(p) \notin Name
         /\ Device(p) \in Handle /\ Device(p) \notin Name
         /\ Asked(p) \subseteq Handle
  BY DEF AirOK, Handle, Name, Pseudonym, SessionPub, L2Pub, Device, Asked

(* A session is the two keys of a handshake. *)
LEMMA SessionFields ==
  ASSUME AirOK, NEW p \in Peer, session[p] # NoSession
  PROVE  session[p][1] \in Handle /\ session[p][2] \in Handle
  BY DEF AirOK

(* The queue of lessons, and what the drainers took from it. *)
LEMMA TaughtIsLessons ==
  ASSUME ListsOK
  PROVE  /\ Taught \subseteq Lesson
         /\ Range(learned) \subseteq Taught
         /\ \A t \in Drainer : Range(batch[t]) \subseteq Taught
<1>1. Range(learned) \subseteq Lesson
  BY RangeOfSeq DEF ListsOK
<1>2. \A t \in Drainer : Range(batch[t]) \subseteq Lesson
  BY RangeOfSeq DEF ListsOK
<1>3. UNION {Range(batch[t]) : t \in Drainer} \subseteq Lesson
  BY <1>2, Zenon
<1>4. \A t \in Drainer : Range(batch[t]) \subseteq UNION {Range(batch[u]) : u \in Drainer}
  BY Zenon
<1> QED BY <1>1, <1>3, <1>4 DEF Taught

(* Nothing is taught that is neither queued nor in a batch.                *)
LEMMA TaughtWithin ==
  ASSUME NEW S, Range(learned') \subseteq S, \A t \in Drainer : Range(batch'[t]) \subseteq S
  PROVE  Taught' \subseteq S
<1>1. UNION {Range(batch'[t]) : t \in Drainer} \subseteq S
  BY Zenon
<1> QED BY <1>1 DEF Taught

-----------------------------------------------------------------------------
(* What a step has to show for itself. *)
LEMMA StepKeepsInv ==
  ASSUME BlockingInv, TypeOK', LockHeld', BlockIsStored', LiftedIsLifted',
         Known \subseteq Known',
         \A lesson \in Taught' : lesson \in Taught \/ lesson[1] \in Known,
         \A lesson \in Taught : lesson \in Taught' \/ lesson[2] \in Known',
         \A h \in who' : \/ h \in who \/ h \in Known'
                         \/ \E lesson \in Taught' : lesson[2] = h
  PROVE  BlockingInv'
<1>1. LessonsAreKnown'
  BY DEF BlockingInv, LessonsAreKnown
<1>2. WhoIsKnown'
  BY DEF BlockingInv, WhoIsKnown
<1> QED BY <1>1, <1>2 DEF BlockingInv

(* A step of the air, of the peers, or of the contact rows alone. *)
LEMMA PeerStep ==
  ASSUME BlockingInv, UNCHANGED <<blocklist, who, learned, core, ui, batch, standing>>,
         RowsOK', ThreadsOK', AirOK'
  PROVE  BlockingInv'
<1>1. ListsOK' /\ LockHeld' /\ BlockIsStored' /\ LiftedIsLifted'
  BY DEF BlockingInv, TypeOK, ListsOK, LockHeld, BlockIsStored, LiftedIsLifted
<1>2. Known' = Known /\ Taught' = Taught
  BY DEF Known, Unlisting, Taught
<1>3. TypeOK'
  BY <1>1 DEF TypeOK
<1> QED BY <1>1, <1>2, <1>3, StepKeepsInv

(* The parts of the type of what a step leaves alone. *)
LEMMA RowsStay ==
  ASSUME RowsOK, UNCHANGED <<contacts, blocklist>>
  PROVE  RowsOK'
  BY DEF RowsOK

(* The sessions, personas and device ids, untouched.                       *)
LEMMA AirStays ==
  ASSUME AirOK, UNCHANGED <<session, persona, rung>>
  PROVE  AirOK'
  BY DEF AirOK

(* The threads, untouched.                                                 *)
LEMMA ThreadsStay ==
  ASSUME ThreadsOK, UNCHANGED <<ui, pump>>
  PROVE  ThreadsOK'
  BY DEF ThreadsOK

(* The pump goes where it goes with a phone it is about, or rests. *)
LEMMA PumpGoes ==
  ASSUME ThreadsOK, ui' = ui,
         \/ \E p \in Peer, pc \in {"note", "accept", "opened", "heard"} : Stands(pc, p)
         \/ Stands("drain", NoPeer) \/ pump' = PumpIdle
  PROVE  ThreadsOK'
  BY DEF ThreadsOK, Stands, PumpType, PumpIdle, UiType

(* A session opens, or goes. *)
LEMMA SessionGoes ==
  ASSUME AirOK, UNCHANGED <<persona, rung>>, NEW p,
         \/ session' = [session EXCEPT ![p] = NoSession]
         \/ \E one, two \in Handle : session' = [session EXCEPT ![p] = <<one, two>>]
  PROVE  AirOK'
  BY DEF AirOK

(* A handshake arrives: the gate asks, and the lists stay.                 *)
LEMMA OfferKeeps ==
  ASSUME BlockingInv, NEW p \in Peer, Offer(p)
  PROVE  BlockingInv'
<1>1. /\ UNCHANGED <<contacts, blocklist, who, learned, core, ui, batch, standing>>
      /\ UNCHANGED <<session, persona, rung>>
      /\ \E pc \in {"note", "accept"} : Stands(pc, p)
  BY DEF Offer, store, lists, peers
<1>2. RowsOK /\ ThreadsOK /\ AirOK
  BY DEF BlockingInv, TypeOK
<1>3. RowsOK' /\ AirOK'
  BY <1>1, <1>2, RowsStay, AirStays
<1>4. ThreadsOK'
  BY <1>1, <1>2, PumpGoes
<1> QED BY <1>1, <1>3, <1>4, PeerStep

(* The handshake is answered, and a session opens under the caller's       *)
(* pseudonym.                                                              *)
LEMMA AcceptKeeps ==
  ASSUME BlockingInv, Accept
  PROVE  BlockingInv'
<1>1. /\ UNCHANGED <<contacts, blocklist, who, learned, core, ui, batch, standing>>
      /\ UNCHANGED <<persona, rung>> /\ Stands("opened", pump.peer) /\ pump.pc = "accept"
      /\ session' = [session EXCEPT ![pump.peer] =
                        <<Pseudonym(pump.peer), L2Pub(pump.peer)>>]
  BY DEF Accept, store, lists, peers
<1>2. RowsOK /\ ThreadsOK /\ AirOK
  BY DEF BlockingInv, TypeOK
<1>3. PICK p \in Peer : p = pump.peer
  BY <1>1, <1>2 DEF ThreadsOK
<1>4. RowsOK'
  BY <1>1, <1>2, RowsStay
<1>5. AirOK'
  <2>1. Pseudonym(p) \in Handle /\ L2Pub(p) \in Handle
    BY <1>2, HandlesAreHandles
  <2>2. PICK one \in Handle, two \in Handle : one = Pseudonym(p) /\ two = L2Pub(p)
    BY <2>1
  <2>3. session' = [session EXCEPT ![p] = <<one, two>>]
    BY <1>1, <1>3, <2>2
  <2> QED BY <1>1, <1>2, <2>3, SessionGoes
<1>6. ThreadsOK'
  BY <1>1, <1>2, <1>3, PumpGoes
<1> QED BY <1>1, <1>4, <1>5, <1>6, PeerStep

(* The other side answered: a session opens under its session key.         *)
LEMMA ReplyKeeps ==
  ASSUME BlockingInv, NEW p \in Peer, Reply(p)
  PROVE  BlockingInv'
<1>1. /\ UNCHANGED <<contacts, blocklist, who, learned, core, ui, batch, standing>>
      /\ UNCHANGED <<persona, rung>> /\ Stands("opened", p)
      /\ session' = [session EXCEPT ![p] = <<SessionPub(p), L2Pub(p)>>]
  BY DEF Reply, store, lists, peers
<1>2. RowsOK /\ ThreadsOK /\ AirOK
  BY DEF BlockingInv, TypeOK
<1>3. RowsOK' /\ ThreadsOK'
  BY <1>1, <1>2, RowsStay, PumpGoes
<1>4. AirOK'
  <2>1. PICK one \in Handle, two \in Handle : one = SessionPub(p) /\ two = L2Pub(p)
    BY <1>2, HandlesAreHandles
  <2>2. session' = [session EXCEPT ![p] = <<one, two>>]
    BY <1>1, <2>1
  <2> QED BY <1>1, <1>2, <2>2, SessionGoes
<1> QED BY <1>1, <1>3, <1>4, PeerStep

(* A dial, a frame, a pipe that goes, and an event with nothing to it. *)
LEMMA EventKeeps ==
  ASSUME BlockingInv,
         \/ \E p \in Peer : Reach(p) \/ Hear(p) \/ PipeGone(p)
         \/ HeardNothing \/ NothingLearned
  PROVE  BlockingInv'
<1>1. /\ UNCHANGED <<contacts, blocklist, who, learned, core, ui, batch, standing>>
      /\ UNCHANGED <<persona, rung>>
      /\ session' = session \/ \E p \in Peer : session' = [session EXCEPT ![p] = NoSession]
      /\ \/ \E p \in Peer : Stands("heard", p)
         \/ Stands("drain", NoPeer) \/ pump' = PumpIdle
  BY DEF Reach, Hear, PipeGone, HeardNothing, NothingLearned, store, lists, peers
<1>2. RowsOK /\ ThreadsOK /\ AirOK
  BY DEF BlockingInv, TypeOK
<1>3. RowsOK'
  BY <1>1, <1>2, RowsStay
<1>4. ThreadsOK'
  BY <1>1, <1>2, PumpGoes
<1>5. AirOK'
  BY <1>1, <1>2, AirStays, SessionGoes
<1> QED BY <1>1, <1>3, <1>4, <1>5, PeerStep

(* A peer comes back as somebody else. *)
LEMMA NewNameKeeps ==
  ASSUME BlockingInv, NEW p \in Peer, NewPersona(p) \/ Rotate(p)
  PROVE  BlockingInv'
<1>1. /\ UNCHANGED <<contacts, blocklist, who, learned, core, ui, batch, standing>>
      /\ UNCHANGED <<session, pump>>
      /\ persona' \in {persona, [persona EXCEPT ![p] = @ + 1]}
      /\ rung' \in {rung, [rung EXCEPT ![p] = @ + 1]}
  BY DEF NewPersona, Rotate, store, lists
<1>2. RowsOK /\ ThreadsOK /\ AirOK
  BY DEF BlockingInv, TypeOK
<1>3. RowsOK' /\ ThreadsOK'
  BY <1>1, <1>2, RowsStay, ThreadsStay
<1>4. AirOK'
  BY <1>1, <1>2 DEF AirOK
<1> QED BY <1>1, <1>3, <1>4, PeerStep

-----------------------------------------------------------------------------
(* The contact rows. *)

(* A new row is about one of a phone's handles. *)
LEMMA AddContactFields ==
  ASSUME RowsOK, NEW p, NEW key \in Handle, AddContact(p, key), blocklist' = blocklist
  PROVE  RowsOK'
<1> DEFINE row == [key |-> key, l2 |-> ZeroKey, paired |-> {}]
<1>1. contacts' = With(contacts, {created + 1}, row)
  BY DEF AddContact
<1>2. row \in ContactType
  BY DEF ContactType
<1> HIDE DEF row
<1>3. /\ DOMAIN contacts' = DOMAIN contacts \cup {created + 1}
      /\ \A c \in DOMAIN contacts' : contacts'[c] \in ContactType
  BY <1>1, <1>2 DEF RowsOK, With
<1>4. contacts' = [c \in DOMAIN contacts' |-> contacts'[c]]
  BY <1>1 DEF With
<1> QED BY <1>3, <1>4 DEF RowsOK

(* A session's key is a handle.                                            *)
LEMMA SessionKeyIsHandle ==
  ASSUME AirOK, NEW p \in Peer
  PROVE  SessionKey(p) \in Handle
  BY SessionFields, HandlesAreHandles DEF SessionKey

(* A contact is filed for a conversation.                                  *)
LEMMA WriteToKeeps ==
  ASSUME BlockingInv, NEW p \in Peer, WriteTo(p)
  PROVE  BlockingInv'
<1>1. /\ AddContact(p, SessionKey(p))
      /\ UNCHANGED <<blocklist, who, learned, core, ui, batch, standing>>
      /\ UNCHANGED <<session, persona, rung, pump>>
  BY DEF WriteTo, lists, peers
<1>2. RowsOK /\ ThreadsOK /\ AirOK
  BY DEF BlockingInv, TypeOK
<1>3. RowsOK'
  BY <1>1, <1>2, SessionKeyIsHandle, AddContactFields
<1>4. ThreadsOK' /\ AirOK'
  BY <1>1, <1>2, ThreadsStay, AirStays
<1> QED BY <1>1, <1>3, <1>4, PeerStep

(* A pairing is recorded in the rows of the phone it is with.              *)
LEMMA RecordPairingKeeps ==
  ASSUME BlockingInv, RecordPairing
  PROVE  BlockingInv'
<1>0. PICK p \in Peer, l2 \in Handle : p = pump.peer /\ l2 = L2Pub(p)
  BY HandlesAreHandles DEF BlockingInv, TypeOK, ThreadsOK, RecordPairing
<1>1. PICK named :
        /\ contacts' = [c \in DOMAIN contacts |->
              IF c \in named THEN [contacts[c] EXCEPT !.paired = {p}, !.l2 = l2]
              ELSE contacts[c]]
        /\ Stands("drain", NoPeer)
        /\ UNCHANGED <<blocklist, who, learned, core, ui, batch, standing>>
        /\ UNCHANGED <<session, persona, rung>>
  BY <1>0, Zenon DEF RecordPairing, lists, peers
<1>2. RowsOK /\ ThreadsOK /\ AirOK
  BY DEF BlockingInv, TypeOK
<1>3. RowsOK'
  <2>1. \A c \in DOMAIN contacts :
           [contacts[c] EXCEPT !.paired = {p}, !.l2 = l2] \in ContactType
    BY <1>2 DEF RowsOK, ContactType
  <2>2. DOMAIN contacts' = DOMAIN contacts
    BY <1>1
  <2>3. \A c \in DOMAIN contacts : contacts'[c] \in ContactType
    BY <1>1, <1>2, <2>1 DEF RowsOK
  <2>4. contacts' = [c \in DOMAIN contacts' |-> contacts'[c]]
    BY <1>1, <2>2
  <2> QED BY <1>1, <1>2, <2>2, <2>3, <2>4 DEF RowsOK
<1>4. ThreadsOK' /\ AirOK'
  BY <1>1, <1>2, PumpGoes, AirStays
<1> QED BY <1>1, <1>3, <1>4, PeerStep

(* reconcile_contact: no handle loses its row, and a row whose contact was *)
(* folded is about nobody, whose block then stands.                        *)
LEMMA ReconcileFields ==
  ASSUME RowsOK, AirOK, LiftedIsLifted, NEW p \in Peer, Reconcile(p)
  PROVE  /\ RowsOK'
         /\ DOMAIN blocklist' = DOMAIN blocklist
         /\ LiftedIsLifted'
<1> DEFINE stray == Keyed(Device(p))
<1>1. CASE UNCHANGED <<contacts, blocklist, standing>>
  BY <1>1 DEF RowsOK, LiftedIsLifted
<1>2. CASE /\ session[p] # NoSession
           /\ contacts' = [c \in DOMAIN contacts |->
                 IF c \in stray THEN [contacts[c] EXCEPT !.key = session[p][1]]
                                ELSE contacts[c]]
           /\ UNCHANGED <<blocklist, standing>>
  <2>1. PICK key \in Handle : key = session[p][1]
    BY <1>2, SessionFields
  <2>2. \A c \in DOMAIN contacts : [contacts[c] EXCEPT !.key = key] \in ContactType
    BY DEF RowsOK, ContactType
  <2> HIDE DEF stray
  <2>3. DOMAIN contacts' = DOMAIN contacts
    BY <1>2
  <2>4. \A c \in DOMAIN contacts : contacts'[c] \in ContactType
    BY <1>2, <2>1, <2>2 DEF RowsOK
  <2>5. contacts' = [c \in DOMAIN contacts' |-> contacts'[c]]
    BY <1>2, <2>3
  <2> QED BY <1>2, <2>3, <2>4, <2>5 DEF RowsOK, LiftedIsLifted
<1>3. CASE /\ contacts' = Without(contacts, stray)
           /\ blocklist' = [h \in DOMAIN blocklist |->
                 IF blocklist[h] \in stray THEN NoContact ELSE blocklist[h]]
           /\ standing' = IF stray \cap standing = {} THEN standing
                          ELSE standing \cup {NoContact}
  <2> HIDE DEF stray
  <2>1. /\ DOMAIN contacts' = DOMAIN contacts \ stray
        /\ \A c \in DOMAIN contacts \ stray : contacts'[c] = contacts[c]
        /\ contacts' = [c \in DOMAIN contacts \ stray |-> contacts[c]]
    BY <1>3, WithoutFields
  <2>2. RowsOK'
    BY <1>3, <2>1 DEF RowsOK
  <2>3. LiftedIsLifted'
    BY <1>3 DEF LiftedIsLifted
  <2> QED BY <1>3, <2>2, <2>3
<1> QED BY <1>1, <1>2, <1>3 DEF Reconcile

(* Reconciling is all a step does, beside the pump going on. *)
LEMMA ReconcileKeeps ==
  ASSUME BlockingInv, NEW p \in Peer, Reconcile(p), Stands("drain", NoPeer),
         UNCHANGED <<who, learned, core, ui, batch, session, persona, rung>>
  PROVE  BlockingInv'
<1>1. RowsOK /\ ListsOK /\ ThreadsOK /\ AirOK /\ LiftedIsLifted
  BY DEF BlockingInv, TypeOK
<1>2. RowsOK' /\ DOMAIN blocklist' = DOMAIN blocklist /\ LiftedIsLifted'
  BY <1>1, ReconcileFields
<1>3. ThreadsOK' /\ AirOK'
  BY <1>1, PumpGoes, AirStays
<1>4. ListsOK' /\ LockHeld' /\ BlockIsStored'
  BY <1>2 DEF BlockingInv, TypeOK, ListsOK, LockHeld, BlockIsStored
<1>5. Known' = Known /\ Taught' = Taught
  BY <1>2 DEF Known, Unlisting, Taught
<1>6. TypeOK'
  BY <1>2, <1>3, <1>4 DEF TypeOK
<1> QED BY <1>2, <1>4, <1>5, <1>6, StepKeepsInv

(* The row of the phone is reconciled with its session.                    *)
LEMMA SessionOpenedKeeps ==
  ASSUME BlockingInv, SessionOpened
  PROVE  BlockingInv'
<1>1. PICK p \in Peer : p = pump.peer
  BY DEF BlockingInv, TypeOK, ThreadsOK, SessionOpened
<1>2. /\ Reconcile(p) /\ Stands("drain", NoPeer)
      /\ UNCHANGED <<who, learned, core, ui, batch, session, persona, rung>>
  BY <1>1 DEF SessionOpened, lists, peers
<1> QED BY <1>2, ReconcileKeeps

(* A message is stored in a row that was there, or is filed, or is         *)
(* reconciled.                                                             *)
LEMMA StoreChatKeeps ==
  ASSUME BlockingInv, StoreChat
  PROVE  BlockingInv'
<1>1. PICK p \in Peer : p = pump.peer
  BY DEF BlockingInv, TypeOK, ThreadsOK, StoreChat
<1>2. /\ \/ AddContact(p, SessionKey(p)) /\ UNCHANGED <<blocklist, standing>>
         \/ Reconcile(p)
      /\ Stands("drain", NoPeer)
      /\ UNCHANGED <<who, learned, core, ui, batch, session, persona, rung>>
  BY <1>1 DEF StoreChat, lists, peers
<1>3. CASE Reconcile(p)
  BY <1>2, <1>3, ReconcileKeeps
<1>4. CASE AddContact(p, SessionKey(p)) /\ UNCHANGED <<blocklist, standing>>
  <2>1. RowsOK /\ ThreadsOK /\ AirOK
    BY DEF BlockingInv, TypeOK
  <2>2. RowsOK'
    BY <1>4, <2>1, SessionKeyIsHandle, AddContactFields
  <2>3. ThreadsOK' /\ AirOK'
    BY <1>2, <2>1, PumpGoes, AirStays
  <2> QED BY <1>2, <1>4, <2>2, <2>3, PeerStep
<1> QED BY <1>2, <1>3, <1>4

-----------------------------------------------------------------------------
(* A refused dial, and the two calls of the screen. *)

(* What a dial proves is learned from a handle with a row: the pseudonyms  *)
(* are all the list is ahead of, and this one is not on it.                *)
LEMMA NoteRefusedKeeps ==
  ASSUME BlockingInv, NoteRefused
  PROVE  BlockingInv'
<1>1. PICK p \in Peer : p = pump.peer
  BY DEF BlockingInv, TypeOK, ThreadsOK, NoteRefused
<1>2. /\ NoteProved(Asked(p), Pseudonym(p)) /\ Stands("drain", NoPeer)
      /\ UNCHANGED <<contacts, blocklist, core, ui, batch, standing, session, persona, rung>>
  BY <1>1 DEF NoteRefused, store, peers
<1>3. RowsOK /\ ListsOK /\ ThreadsOK /\ AirOK /\ WhoIsKnown
  BY DEF BlockingInv, TypeOK
<1>4. RowsOK' /\ ThreadsOK' /\ AirOK'
  BY <1>2, <1>3, RowsStay, PumpGoes, AirStays
<1>5. CASE UNCHANGED lists
  BY <1>2, <1>4, <1>5, PeerStep DEF lists
<1>6. CASE ~UNCHANGED lists
  <2>1. PICK matched, name : /\ name = Pseudonym(p) /\ name \notin who
                             /\ matched \in Asked(p) \cap who
                             /\ learned' = Append(learned, <<matched, name>>)
                             /\ who' = who \cup {name}
    BY <1>2, <1>6 DEF NoteProved
  <2>2. name \in Handle /\ name \in Name /\ matched \in Handle /\ matched \notin Name
    BY <1>3, <2>1, HandlesAreHandles DEF Asked
  <2>3. PICK lesson \in Lesson : lesson = <<matched, name>>
    BY <2>2 DEF Lesson
  <2>4. matched \in Known
    <3>1. \A l \in Taught : l[2] \in Name
      BY <1>3, TaughtIsLessons DEF Lesson
    <3> QED BY <1>3, <2>1, <2>2, <3>1 DEF WhoIsKnown
  <2>5. /\ learned' \in Seq(Lesson) /\ Range(learned') = Range(learned) \cup {lesson}
    <3>1. learned' = Append(learned, lesson)
      BY <2>1, <2>3
    <3> QED BY <1>3, <3>1, RangeOfAppend DEF ListsOK
  <2>6. ListsOK'
    BY <1>2, <1>3, <2>1, <2>2, <2>5 DEF ListsOK
  <2>7. TypeOK'
    BY <1>4, <2>6 DEF TypeOK
  <2>8. Known' = Known
    BY <1>2 DEF Known, Unlisting
  <2>9. Taught' = Taught \cup {lesson}
    BY <1>2, <2>5 DEF Taught
  <2>10. LockHeld' /\ BlockIsStored' /\ LiftedIsLifted'
    BY <1>2 DEF BlockingInv, LockHeld, BlockIsStored, LiftedIsLifted
  <2>11. /\ \A l \in Taught' : l \in Taught \/ l[1] \in Known
         /\ \A l \in Taught : l \in Taught'
    BY <2>3, <2>4, <2>9
  <2>12. \A h \in who' : h \in who \/ \E l \in Taught' : l[2] = h
    BY <2>1, <2>3, <2>9
  <2> QED BY <2>7, <2>8, <2>10, <2>11, <2>12, StepKeepsInv
<1> QED BY <1>5, <1>6

(* The handles a block writes are handles. *)
LEMMA HandlesForAreHandles ==
  ASSUME RowsOK, AirOK, NEW p \in Peer, NEW contact \in SUBSET DOMAIN contacts,
         NEW named \in BOOLEAN
  PROVE  HandlesFor(p, contact, named) \subseteq Handle
<1>1. \A c \in DOMAIN contacts : {contacts[c].key, contacts[c].l2} \ {ZeroKey} \subseteq Handle
  BY DEF RowsOK, ContactType
<1>3. (IF session[p] = NoSession THEN {}
       ELSE {session[p][2]} \cup ({session[p][1]} \cap {Pseudonym(p)})) \subseteq Handle
  BY SessionFields
<1>4. (IF named THEN {L2Pub(p)} ELSE {}) \subseteq Handle /\ Device(p) \in Handle
  BY HandlesAreHandles
<1>5. ASSUME NEW x \in HandlesFor(p, contact, named) PROVE x \in Handle
  <2>1. \/ x \in IF session[p] = NoSession THEN {}
                 ELSE {session[p][2]} \cup ({session[p][1]} \cap {Pseudonym(p)})
        \/ x \in IF named THEN {L2Pub(p)} ELSE {}
        \/ \E c \in contact : x \in {contacts[c].key, contacts[c].l2} \ {ZeroKey}
        \/ x = Device(p)
    BY <1>5 DEF HandlesFor
  <2> QED BY <1>1, <1>3, <1>4, <2>1
<1> QED BY <1>5

(* The contact a phone is taken for is on file.                            *)
LEMMA ContactForIsContact ==
  \A p : ContactFor(p) \subseteq DOMAIN contacts
  BY DEF ContactFor, Proved, PairedWith, Keyed

(* block writes its handles to the store, and holds the core lock until    *)
(* the live list has them.                                                 *)
LEMMA WriteBlockKeeps ==
  ASSUME BlockingInv, NEW handles \in SUBSET Handle, NEW contact, NEW peer \in Peer \cup {NoPeer},
         WriteBlock(handles, contact, peer)
  PROVE  BlockingInv'
<1>1. PICK about :
        /\ core = "free" /\ ui.pc = "idle" /\ core' = "ui"
        /\ contacts' = [c \in DOMAIN contacts |->
              IF c \in contact THEN [contacts[c] EXCEPT !.paired = {}] ELSE contacts[c]]
        /\ blocklist' = With(blocklist, handles, about)
        /\ standing' = standing \cup {about}
        /\ ui' = [pc |-> "block", handles |-> handles, peer |-> peer]
        /\ UNCHANGED <<who, learned, pump, batch, session, persona, rung>>
  BY Zenon DEF WriteBlock, lists, peers
<1>2. /\ RowsOK /\ ListsOK /\ ThreadsOK /\ AirOK /\ LockHeld /\ LiftedIsLifted
  BY DEF BlockingInv, TypeOK
<1>3. /\ DOMAIN blocklist' = DOMAIN blocklist \cup handles
      /\ \A h \in DOMAIN blocklist' : blocklist'[h] = about
                                      \/ (h \in DOMAIN blocklist /\ blocklist'[h] = blocklist[h])
  BY <1>1 DEF With
<1>4. RowsOK'
  <2>1. \A c \in DOMAIN contacts : [contacts[c] EXCEPT !.paired = {}] \in ContactType
    BY <1>2 DEF RowsOK, ContactType
  <2>2. DOMAIN contacts' = DOMAIN contacts
    BY <1>1
  <2>3. \A c \in DOMAIN contacts : contacts'[c] \in ContactType
    BY <1>1, <1>2, <2>1 DEF RowsOK
  <2>4. contacts' = [c \in DOMAIN contacts' |-> contacts'[c]]
    BY <1>1, <2>2
  <2> QED BY <1>2, <1>3, <2>2, <2>3, <2>4 DEF RowsOK
<1>5. ui' \in UiType /\ ui'.pc = "block" /\ ui'.handles = handles
  BY <1>1 DEF UiType
<1>6. ListsOK' /\ ThreadsOK' /\ AirOK'
  BY <1>1, <1>2, <1>5, AirStays DEF ListsOK, ThreadsOK
<1>7. LockHeld' /\ BlockIsStored'
  BY <1>1, <1>2, <1>3, <1>5 DEF LockHeld, BlockIsStored, Drainer
<1>8. LiftedIsLifted'
  BY <1>1, <1>2, <1>3 DEF LiftedIsLifted
<1>9. Known \subseteq Known' /\ Taught' = Taught
  BY <1>1, <1>3 DEF Known, Unlisting, Taught
<1>10. TypeOK'
  BY <1>4, <1>6 DEF TypeOK
<1> QED BY <1>1, <1>7, <1>8, <1>9, <1>10, StepKeepsInv

(* A device or a conversation is blocked by the handles known of it.       *)
LEMMA BlockKeeps ==
  ASSUME BlockingInv,
         (\E p \in Peer : BlockDevice(p)) \/ (\E c \in ContactId : BlockThread(c))
  PROVE  BlockingInv'
<1>1. RowsOK /\ AirOK
  BY DEF BlockingInv, TypeOK
<1>2. CASE \E p \in Peer : BlockDevice(p)
  <2>1. PICK p, named, handles, contact :
          /\ p \in Peer /\ named \in BOOLEAN
          /\ handles = HandlesFor(p, ContactFor(p), named) /\ contact = ContactFor(p)
          /\ WriteBlock(handles, contact, p)
    BY <1>2 DEF BlockDevice
  <2>2. handles \in SUBSET Handle
    BY <1>1, <2>1, ContactForIsContact, HandlesForAreHandles
  <2> QED BY <2>1, <2>2, WriteBlockKeeps
<1>3. CASE \E c \in ContactId : BlockThread(c)
  <2>1. PICK c, handles, contact :
          /\ c \in DOMAIN contacts /\ handles = ContactHandles(c) /\ contact = {c}
          /\ WriteBlock(handles, contact, NoPeer)
    BY <1>3 DEF BlockThread
  <2>2. handles \in SUBSET Handle
    BY <1>1, <2>1 DEF ContactHandles, RowsOK, ContactType
  <2> QED BY <2>1, <2>2, WriteBlockKeeps
<1> QED BY <1>2, <1>3

(* A handle goes from the store to the live list, under the lock.          *)
LEMMA BlockLiveKeeps ==
  ASSUME BlockingInv, NEW h \in ui.handles, BlockLive(h)
  PROVE  BlockingInv'
<1>1. /\ ui.pc = "block" /\ who' = who \cup {h} /\ ui' = [ui EXCEPT !.handles = @ \ {h}]
      /\ UNCHANGED <<contacts, blocklist, learned, core, pump, batch, session, persona, rung,
                     standing>>
  BY DEF BlockLive, store, peers
<1>2. /\ RowsOK /\ ListsOK /\ ThreadsOK /\ AirOK /\ LockHeld /\ BlockIsStored
  BY DEF BlockingInv, TypeOK
<1>3. /\ ui' \in UiType /\ ui'.pc = ui.pc /\ ui'.handles = ui.handles \ {h}
      /\ h \in Handle /\ h \in DOMAIN blocklist
  BY <1>1, <1>2 DEF ThreadsOK, UiType, BlockIsStored
<1>4. TypeOK'
  BY <1>1, <1>2, <1>3, RowsStay, AirStays DEF TypeOK, ListsOK, ThreadsOK
<1>5. LockHeld' /\ BlockIsStored' /\ LiftedIsLifted'
  BY <1>1, <1>2, <1>3 DEF LockHeld, BlockIsStored, BlockingInv, LiftedIsLifted
<1>6. Known' = Known /\ Taught' = Taught /\ h \in Known'
  BY <1>1, <1>3 DEF Known, Unlisting, Taught
<1> QED BY <1>1, <1>4, <1>5, <1>6, StepKeepsInv

(* The lock is given up, or the session closed at last. *)
LEMMA EndCallKeeps ==
  ASSUME BlockingInv, EndWriteBlock \/ FinishBlock \/ EndUnblock
  PROVE  BlockingInv'
<1>1. /\ UNCHANGED <<contacts, blocklist, who, learned, pump, batch, persona, rung, standing>>
      /\ \E p : session' \in {session, [session EXCEPT ![p] = NoSession]}
      /\ ui.pc \in {"block", "unblock", "close"}
      /\ ui.pc \in {"block", "unblock"} => ui.handles = {} /\ core' = "free"
      /\ ui.pc = "close" => core' = core
      /\ ui' \in {UiIdle, [ui EXCEPT !.pc = "close"]}
  BY DEF EndWriteBlock, FinishBlock, EndUnblock, store, lists, peers
<1>2. /\ RowsOK /\ ListsOK /\ ThreadsOK /\ AirOK /\ LockHeld
  BY DEF BlockingInv, TypeOK
<1>3. ui' \in UiType /\ ui'.pc \in {"idle", "close"}
  BY <1>1, <1>2 DEF ThreadsOK, UiType, UiIdle
<1>4. AirOK'
  BY <1>1, <1>2, AirStays, SessionGoes
<1>5. TypeOK'
  BY <1>1, <1>2, <1>3, <1>4, RowsStay DEF TypeOK, ListsOK, ThreadsOK
<1>6. LockHeld'
  BY <1>1, <1>2, <1>3 DEF LockHeld, Drainer
<1>7. BlockIsStored' /\ LiftedIsLifted'
  BY <1>1, <1>3 DEF BlockIsStored, BlockingInv, LiftedIsLifted
<1>8. Known' = Known /\ Taught' = Taught
  BY <1>1, <1>3 DEF Known, Unlisting, Taught
<1> QED BY <1>1, <1>5, <1>6, <1>7, <1>8, StepKeepsInv

-----------------------------------------------------------------------------
(* unblock_person: the rows first, and the live list one handle at a time. *)
LEMMA UnblockPersonKeeps ==
  ASSUME BlockingInv, NEW c, UnblockPerson(c)
  PROVE  BlockingInv'
<1>1. PICK handles :
        /\ core = "free" /\ ui.pc = "idle" /\ core' = "ui"
        /\ handles = {h \in DOMAIN blocklist : blocklist[h] = c}
        /\ blocklist' = Without(blocklist, handles)
        /\ ui' = [UiIdle EXCEPT !.pc = "unblock", !.handles = handles]
        /\ standing' = standing \ {c}
        /\ UNCHANGED <<contacts, who, learned, pump, batch, session, persona, rung>>
  BY Zenon DEF UnblockPerson, lists, peers
<1>2. /\ RowsOK /\ ListsOK /\ ThreadsOK /\ AirOK /\ LockHeld /\ LiftedIsLifted
  BY DEF BlockingInv, TypeOK
<1>3. /\ DOMAIN blocklist' = DOMAIN blocklist \ handles
      /\ \A h \in DOMAIN blocklist' : blocklist'[h] = blocklist[h]
  BY <1>1 DEF Without
<1>4. handles \subseteq DOMAIN blocklist /\ handles \in SUBSET Handle
  BY <1>1, <1>2 DEF RowsOK
<1>5. ui' \in UiType /\ ui'.pc = "unblock" /\ ui'.handles = handles
  BY <1>1, <1>4 DEF UiType, UiIdle
<1>6. TypeOK'
  BY <1>1, <1>2, <1>3, <1>5, AirStays DEF TypeOK, RowsOK, ListsOK, ThreadsOK
<1>7. LockHeld' /\ BlockIsStored'
  BY <1>1, <1>2, <1>5 DEF LockHeld, BlockIsStored, Drainer
<1>8. LiftedIsLifted'
  BY <1>1, <1>2, <1>3 DEF LiftedIsLifted
<1>9. who' = who /\ learned' = learned /\ batch' = batch /\ ui.pc = "idle"
  BY <1>1
<1>10. Known' = Known /\ Taught' = Taught
  BY <1>3, <1>4, <1>5, <1>9 DEF Known, Unlisting, Taught
<1> QED BY <1>6, <1>7, <1>8, <1>9, <1>10, StepKeepsInv

(* Vec::retain leaves the lessons at those places, and only those. *)
LEMMA RetainFields ==
  ASSUME learned \in Seq(Lesson), NEW kept \in SUBSET DOMAIN learned, Retain(kept)
  PROVE  learned' \in Seq(Lesson) /\ Range(learned') = {learned[i] : i \in kept}
<1>1. IsFiniteSet(kept)
  <2>1. DOMAIN learned = 1..Len(learned) /\ Len(learned) \in Nat
    BY LenProperties
  <2>2. IsFiniteSet(DOMAIN learned)
    BY <2>1, FS_Interval
  <2> QED BY <2>2, FS_Subset
<1>2. PICK n \in Nat : n = Cardinality(kept)
  BY <1>1, FS_CardinalityType
<1>3. PICK place \in [1..n -> kept] :
         /\ {place[i] : i \in DOMAIN place} = kept
         /\ learned' = [i \in DOMAIN place |-> learned[place[i]]]
  BY <1>2 DEF Retain
<1>4. \A i \in DOMAIN learned : learned[i] \in Lesson
  BY ElementOfSeq, LenProperties
<1>5. learned' = [i \in 1..n |-> learned[place[i]]] /\ \A i \in 1..n : place[i] \in kept
  BY <1>3
<1>6. learned' \in [1..n -> Lesson]
  BY <1>4, <1>5
<1>7. learned' \in Seq(Lesson)
  BY <1>6, SeqDef
<1>8. Range(learned') = {learned[i] : i \in kept}
  BY <1>3, <1>5 DEF Range
<1> QED BY <1>7, <1>8

(* Nobody taught by a handle that is let go stays refused for it, and no   *)
(* lesson of it is left to be written.                                     *)
LEMMA UnblockLiveKeeps ==
  ASSUME BlockingInv, NEW h \in ui.handles, UnblockLive(h)
  PROVE  BlockingInv'
<1> DEFINE kept == {i \in DOMAIN learned : learned[i][1] # h}
           taught == {learned[i][2] : i \in DOMAIN learned \ kept}
<1>1. /\ ui.pc = "unblock" /\ ui' = [ui EXCEPT !.handles = @ \ {h}]
      /\ who' = who \ ({h} \cup taught) /\ Retain(kept)
      /\ UNCHANGED <<contacts, blocklist, core, pump, batch, session, persona, rung, standing>>
  BY Zenon DEF UnblockLive, UnblockHandle, store, peers
<1>2. /\ RowsOK /\ ListsOK /\ ThreadsOK /\ AirOK /\ LockHeld
      /\ LessonsAreKnown /\ WhoIsKnown
  BY DEF BlockingInv, TypeOK
<1>3. learned' \in Seq(Lesson) /\ Range(learned') = {learned[i] : i \in kept}
  BY <1>1, <1>2, RetainFields DEF ListsOK
<1>4. ui' \in UiType /\ ui'.pc = "unblock" /\ ui'.handles = ui.handles \ {h}
  BY <1>1, <1>2 DEF ThreadsOK, UiType
<1>5. TypeOK'
  BY <1>1, <1>2, <1>3, <1>4, RowsStay, AirStays DEF TypeOK, ListsOK, ThreadsOK
<1>6. LockHeld' /\ BlockIsStored' /\ LiftedIsLifted'
  BY <1>1, <1>2, <1>4 DEF LockHeld, BlockIsStored, BlockingInv, LiftedIsLifted
<1>7. \A t \in Drainer : batch[t] = <<>>
  BY <1>1, <1>2 DEF LockHeld, Drainer
<1>8. Taught = Range(learned) /\ Taught' = Range(learned')
  <2>1. \A t \in Drainer : Range(batch[t]) = {} /\ Range(batch'[t]) = {}
    BY <1>1, <1>7, RangeOfNone
  <2> QED BY <2>1 DEF Taught
<1>9. \A lesson \in Taught' : lesson \in Taught /\ lesson[1] # h
  BY <1>3, <1>8 DEF Range
<1>10. \A lesson \in Taught : lesson \in Taught' \/ lesson[2] \in taught
  BY <1>3, <1>8 DEF Range
<1> HIDE DEF kept, taught
<1>11. \A x \in Known : x \in Known' \/ x = h
  BY <1>1, <1>4 DEF Known, Unlisting
<1>12. LessonsAreKnown'
  BY <1>2, <1>9, <1>11 DEF LessonsAreKnown
<1>13. WhoIsKnown'
  BY <1>1, <1>2, <1>10, <1>11 DEF WhoIsKnown
<1> QED BY <1>5, <1>6, <1>12, <1>13 DEF BlockingInv

-----------------------------------------------------------------------------
(* write_learned_blocks, and a restart. *)

(* A drainer takes what was learned, and holds the lock.                   *)
LEMMA TakeLearnedKeeps ==
  ASSUME BlockingInv, NEW t \in Drainer, TakeLearned(t)
  PROVE  BlockingInv'
<1>1. /\ core = "free" /\ core' = t
      /\ batch' = [batch EXCEPT ![t] = learned] /\ learned' = <<>>
      /\ UNCHANGED <<contacts, blocklist, who, ui, pump, session, persona, rung, standing>>
  BY DEF TakeLearned, store, peers
<1>2. /\ RowsOK /\ ListsOK /\ ThreadsOK /\ AirOK /\ LockHeld
  BY DEF BlockingInv, TypeOK
<1>3. /\ batch \in [Drainer -> Seq(Lesson)] /\ learned \in Seq(Lesson)
      /\ \A u \in Drainer : batch[u] = <<>>
  BY <1>1, <1>2 DEF ListsOK, LockHeld, Drainer
<1>4. batch'[t] = learned /\ \A u \in Drainer \ {t} : batch'[u] = <<>>
  BY <1>1, <1>3
<1>5. ListsOK'
  BY <1>1, <1>2, <1>3, RangeOfNone DEF ListsOK
<1>6. TypeOK'
  BY <1>1, <1>2, <1>5, RowsStay, AirStays, ThreadsStay DEF TypeOK
<1>7. LockHeld'
  BY <1>1, <1>2, <1>4 DEF LockHeld, Drainer
<1>8. BlockIsStored' /\ LiftedIsLifted'
  BY <1>1 DEF BlockingInv, BlockIsStored, LiftedIsLifted
<1>9. Taught' = Taught
  <2>1. Range(learned') = {} /\ Range(batch'[t]) = Range(learned)
        /\ \A u \in Drainer \ {t} : Range(batch'[u]) = {}
    BY <1>1, <1>4, RangeOfNone
  <2>2. \A u \in Drainer : Range(batch[u]) = {}
    BY <1>3, RangeOfNone
  <2>3. UNION {Range(batch'[u]) : u \in Drainer} = Range(learned)
    BY <2>1
  <2>4. UNION {Range(batch[u]) : u \in Drainer} = {}
    BY <2>2
  <2> QED BY <2>1, <2>3, <2>4 DEF Taught
<1>10. Known' = Known
  BY <1>1 DEF Known, Unlisting
<1> QED BY <1>1, <1>6, <1>7, <1>8, <1>9, <1>10, StepKeepsInv

(* The lesson joins the block of what taught it, which still stands.       *)
LEMMA WriteLessonKeeps ==
  ASSUME BlockingInv, NEW t \in Drainer, WriteLesson(t)
  PROVE  BlockingInv'
<1>1. PICK lesson, rest, about :
        /\ lesson = Head(batch[t]) /\ rest = Tail(batch[t])
        /\ about = IF lesson[1] \in DOMAIN blocklist THEN blocklist[lesson[1]] ELSE NoContact
        /\ core = t /\ batch[t] # <<>>
        /\ blocklist' = With(blocklist, {lesson[2]}, about)
        /\ contacts' = [c \in DOMAIN contacts |->
              IF c = about THEN [contacts[c] EXCEPT !.paired = {}] ELSE contacts[c]]
        /\ batch' = [batch EXCEPT ![t] = rest]
        /\ UNCHANGED <<who, learned, core, ui, pump, session, persona, rung, standing>>
  BY Zenon DEF WriteLesson, lists, peers
<1>2. /\ RowsOK /\ ListsOK /\ ThreadsOK /\ AirOK /\ LockHeld /\ LiftedIsLifted
      /\ LessonsAreKnown
  BY DEF BlockingInv, TypeOK
<1>3. batch \in [Drainer -> Seq(Lesson)] /\ batch[t] \in Seq(Lesson)
  BY <1>2 DEF ListsOK
<1>4. /\ lesson \in Lesson /\ lesson \in Range(batch[t])
      /\ rest \in Seq(Lesson) /\ Range(batch[t]) = {lesson} \cup Range(rest)
  BY <1>1, <1>3, RangeOfTail
<1>5. lesson \in Taught /\ lesson[2] \in Handle
  BY <1>2, <1>4, TaughtIsLessons DEF Lesson, Handle, Name
<1>6. ui.pc \notin {"block", "unblock"} /\ lesson[1] \in DOMAIN blocklist
  BY <1>1, <1>2, <1>5 DEF LockHeld, Drainer, LessonsAreKnown, Known, Unlisting
<1>7. /\ DOMAIN blocklist' = DOMAIN blocklist \cup {lesson[2]}
      /\ \A h \in DOMAIN blocklist' : blocklist'[h] = about
                                      \/ (h \in DOMAIN blocklist /\ blocklist'[h] = blocklist[h])
  BY <1>1 DEF With
<1>8. LiftedIsLifted'
  BY <1>1, <1>2, <1>6, <1>7 DEF LiftedIsLifted
<1>9. RowsOK'
  <2>1. \A c \in DOMAIN contacts : [contacts[c] EXCEPT !.paired = {}] \in ContactType
    BY <1>2 DEF RowsOK, ContactType
  <2>2. DOMAIN contacts' = DOMAIN contacts
    BY <1>1
  <2>3. \A c \in DOMAIN contacts : contacts'[c] \in ContactType
    BY <1>1, <1>2, <2>1 DEF RowsOK
  <2>4. contacts' = [c \in DOMAIN contacts' |-> contacts'[c]]
    BY <1>1, <2>2
  <2> QED BY <1>2, <1>5, <1>7, <2>2, <2>3, <2>4 DEF RowsOK
<1>10. ListsOK'
  BY <1>1, <1>2, <1>3, <1>4 DEF ListsOK
<1>11. TypeOK'
  BY <1>1, <1>2, <1>9, <1>10, AirStays, ThreadsStay DEF TypeOK
<1>12. LockHeld' /\ BlockIsStored'
  BY <1>1, <1>2, <1>3, <1>6 DEF LockHeld, BlockIsStored
<1>13. Known \subseteq Known' /\ lesson[2] \in Known'
  BY <1>1, <1>7 DEF Known, Unlisting
<1>14. \A u \in Drainer : batch'[u] = IF u = t THEN rest ELSE batch[u]
  BY <1>1, <1>3
<1>15. Taught' \subseteq Taught
  <2>1. \A u \in Drainer : Range(batch'[u]) \subseteq Taught
    BY <1>2, <1>4, <1>14, TaughtIsLessons
  <2> QED BY <1>1, <1>2, <2>1, TaughtIsLessons, TaughtWithin
<1>16. \A l \in Taught : l \in Taught' \/ l = lesson
  <2>1. \A u \in Drainer : \A l \in Range(batch[u]) : l = lesson \/ l \in Range(batch'[u])
    BY <1>4, <1>14
  <2> QED BY <1>1, <2>1 DEF Taught
<1> QED BY <1>1, <1>8, <1>11, <1>12, <1>13, <1>15, <1>16, StepKeepsInv

(* What could not be written goes back in front of what was learned since. *)
LEMMA RelearnKeeps ==
  ASSUME BlockingInv, NEW t \in Drainer, Relearn(t)
  PROVE  BlockingInv'
<1>1. /\ core = t
      /\ learned' = batch[t] \o learned /\ batch' = [batch EXCEPT ![t] = <<>>]
      /\ UNCHANGED <<contacts, blocklist, who, core, ui, pump, session, persona, rung, standing>>
  BY DEF Relearn, store, peers
<1>2. /\ RowsOK /\ ListsOK /\ ThreadsOK /\ AirOK /\ LockHeld
  BY DEF BlockingInv, TypeOK
<1>3. /\ batch \in [Drainer -> Seq(Lesson)] /\ batch[t] \in Seq(Lesson) /\ learned \in Seq(Lesson)
  BY <1>2 DEF ListsOK
<1>4. /\ learned' \in Seq(Lesson)
      /\ Range(learned') = Range(batch[t]) \cup Range(learned)
  BY <1>1, <1>3, ConcatProperties, RangeConcatenation
<1>5. \A u \in Drainer : batch'[u] = IF u = t THEN <<>> ELSE batch[u]
  BY <1>1, <1>3
<1>6. ListsOK'
  BY <1>1, <1>2, <1>3, <1>4, RangeOfNone DEF ListsOK
<1>7. TypeOK'
  BY <1>1, <1>2, <1>6, RowsStay, AirStays, ThreadsStay DEF TypeOK
<1>8. LockHeld' /\ BlockIsStored' /\ LiftedIsLifted'
  BY <1>1, <1>2, <1>5 DEF BlockingInv, LockHeld, BlockIsStored, LiftedIsLifted
<1>9. Taught' \subseteq Taught
  <2>1. \A u \in Drainer : Range(batch'[u]) \subseteq Taught
    BY <1>2, <1>5, TaughtIsLessons, RangeOfNone
  <2> QED BY <1>2, <1>4, <2>1, TaughtIsLessons, TaughtWithin
<1>10. Taught \subseteq Taught'
  <2>1. \A u \in Drainer : Range(batch[u]) \subseteq Range(learned') \cup Range(batch'[u])
    BY <1>4, <1>5
  <2> QED BY <1>4, <2>1 DEF Taught
<1>11. Known' = Known
  BY <1>1 DEF Known, Unlisting
<1> QED BY <1>1, <1>7, <1>8, <1>9, <1>10, <1>11, StepKeepsInv

(* The drainer is done, and lets the lock go.                              *)
LEMMA EndDrainKeeps ==
  ASSUME BlockingInv, NEW t \in Drainer, EndDrain(t)
  PROVE  BlockingInv'
<1>1. /\ core = t /\ batch[t] = <<>> /\ core' = "free"
      /\ pump' = pump \/ pump' = PumpIdle
      /\ UNCHANGED <<contacts, blocklist, who, learned, ui, batch, session, persona, rung, standing>>
  BY DEF EndDrain, store, lists, peers
<1>2. /\ RowsOK /\ ListsOK /\ ThreadsOK /\ AirOK /\ LockHeld
  BY DEF BlockingInv, TypeOK
<1>3. ThreadsOK' /\ ListsOK'
  BY <1>1, <1>2, ThreadsStay, PumpGoes DEF ListsOK
<1>4. TypeOK'
  BY <1>1, <1>2, <1>3, RowsStay, AirStays DEF TypeOK
<1>5. LockHeld' /\ BlockIsStored' /\ LiftedIsLifted'
  BY <1>1, <1>2 DEF BlockingInv, LockHeld, Drainer, BlockIsStored, LiftedIsLifted
<1>6. Known' = Known /\ Taught' = Taught
  BY <1>1 DEF Known, Unlisting, Taught
<1> QED BY <1>1, <1>4, <1>5, <1>6, StepKeepsInv

(* Blocklist::loaded: the list is the rows, and nothing waits.             *)
LEMMA RestartKeeps ==
  ASSUME BlockingInv, Restart
  PROVE  BlockingInv'
<1>1. /\ who' = DOMAIN blocklist /\ learned' = <<>>
      /\ core' = "free" /\ ui' = UiIdle /\ pump' = PumpIdle
      /\ batch' = [t \in Drainer |-> <<>>]
      /\ session' = [p \in Peer |-> NoSession]
      /\ UNCHANGED <<contacts, blocklist, persona, rung, standing>>
  BY DEF Restart, store, peers
<1>2. /\ RowsOK /\ AirOK
  BY DEF BlockingInv, TypeOK
<1>3. TypeOK'
  BY <1>1, <1>2, RowsStay, RangeOfNone
     DEF TypeOK, RowsOK, ListsOK, ThreadsOK, AirOK, UiType, UiIdle, PumpType, PumpIdle
<1>4. LockHeld' /\ BlockIsStored' /\ LiftedIsLifted'
  BY <1>1 DEF BlockingInv, LockHeld, Drainer, BlockIsStored, LiftedIsLifted, UiIdle
<1>5. Taught' = {}
  <2>1. Range(learned') = {} /\ \A t \in Drainer : Range(batch'[t]) = {}
    BY <1>1, RangeOfNone
  <2> QED BY <2>1 DEF Taught
<1>6. LessonsAreKnown' /\ WhoIsKnown'
  BY <1>1, <1>5 DEF LessonsAreKnown, WhoIsKnown, Known
<1> QED BY <1>3, <1>4, <1>6 DEF BlockingInv

-----------------------------------------------------------------------------
(* Nothing is blocked, learned or under way.                               *)
LEMMA InitIsSound == Init => BlockingInv
<1> SUFFICES ASSUME Init PROVE BlockingInv
  OBVIOUS
<1>1. <<>> \in Seq(Lesson) /\ Range(<<>>) = {} /\ DOMAIN <<>> = {}
  BY RangeOfNone
<1>2. DOMAIN contacts = {} /\ DOMAIN blocklist = {}
  BY <1>1 DEF Init
<1>3. contacts \in [DOMAIN contacts -> ContactType]
  BY <1>2 DEF Init
<1>4. TypeOK
  BY <1>1, <1>2, <1>3
     DEF Init, TypeOK, RowsOK, ListsOK, ThreadsOK, AirOK, UiType, UiIdle, PumpType, PumpIdle
<1>5. Taught = {}
  <2>1. Range(learned) = {} /\ \A t \in Drainer : Range(batch[t]) = {}
    BY <1>1 DEF Init
  <2> QED BY <2>1 DEF Taught
<1>6. LockHeld /\ BlockIsStored /\ LessonsAreKnown /\ WhoIsKnown /\ LiftedIsLifted
  BY <1>2, <1>5
     DEF Init, LockHeld, BlockIsStored, LessonsAreKnown, WhoIsKnown, LiftedIsLifted, UiIdle
<1> QED BY <1>4, <1>6 DEF BlockingInv

(* Every step keeps the invariant.                                         *)
LEMMA NextKeepsInv == BlockingInv /\ [Next]_vars => BlockingInv'
<1> SUFFICES ASSUME BlockingInv, [Next]_vars PROVE BlockingInv'
  OBVIOUS
<1>1. CASE UiStep
  <2>1. CASE \E p \in Peer : BlockDevice(p) \/ WriteTo(p)
    BY <2>1, BlockKeeps, WriteToKeeps
  <2>2. CASE \E c \in ContactId : BlockThread(c) \/ UnblockPerson(c)
    BY <2>2, BlockKeeps, UnblockPersonKeeps
  <2>3. CASE \E h \in ui.handles : BlockLive(h) \/ UnblockLive(h)
    BY <2>3, BlockLiveKeeps, UnblockLiveKeeps
  <2>4. CASE EndWriteBlock \/ FinishBlock \/ EndUnblock
    BY <2>4, EndCallKeeps
  <2> QED BY <1>1, <2>1, <2>2, <2>3, <2>4 DEF UiStep
<1>2. CASE PumpStep
  <2>1. CASE \E p \in Peer : Offer(p) \/ Reach(p) \/ Reply(p) \/ Hear(p) \/ PipeGone(p)
    BY <2>1, OfferKeeps, ReplyKeeps, EventKeeps
  <2>2. CASE NoteRefused \/ Accept
    BY <2>2, NoteRefusedKeeps, AcceptKeeps
  <2>3. CASE SessionOpened \/ StoreChat \/ RecordPairing
    BY <2>3, SessionOpenedKeeps, StoreChatKeeps, RecordPairingKeeps
  <2>4. CASE HeardNothing \/ NothingLearned
    BY <2>4, EventKeeps
  <2> QED BY <1>2, <2>1, <2>2, <2>3, <2>4 DEF PumpStep
<1>3. CASE \E t \in Drainer : DrainStep(t)
  BY <1>3, TakeLearnedKeeps, WriteLessonKeeps, RelearnKeeps, EndDrainKeeps DEF DrainStep
<1>4. CASE \E p \in Peer : NewPersona(p) \/ Rotate(p)
  BY <1>4, NewNameKeeps
<1>5. CASE Restart
  BY <1>5, RestartKeeps
<1>6. CASE UNCHANGED vars
  <2>1. /\ UNCHANGED <<contacts, blocklist, who, learned, core, ui, batch, standing>>
        /\ UNCHANGED <<session, persona, rung, pump>>
    BY <1>6 DEF vars, store, lists, peers
  <2>2. RowsOK' /\ ThreadsOK' /\ AirOK'
    BY <2>1, RowsStay, ThreadsStay, AirStays DEF BlockingInv, TypeOK
  <2> QED BY <2>1, <2>2, PeerStep
<1> QED BY <1>1, <1>2, <1>3, <1>4, <1>5, <1>6 DEF Next

(* Whoever holds the core lock, what the live list refuses has a row, is   *)
(* being let go, or is a lesson on its way to one.                         *)
THEOREM BlockingInvHolds == Spec => []BlockingInv
<1>1. Init => BlockingInv
  BY InitIsSound
<1>2. BlockingInv /\ [Next]_vars => BlockingInv'
  BY NextKeepsInv
<1> QED BY <1>1, <1>2, PTL DEF Spec

(* A block that was lifted stays lifted: no refused dial, queued lesson,   *)
(* busy disk, folded contact or restart writes a row of it again.          *)
THEOREM LiftedIsLiftedHolds == Spec => []LiftedIsLifted
<1>1. BlockingInv => LiftedIsLifted
  BY DEF BlockingInv
<1> QED BY <1>1, BlockingInvHolds, PTL

(* With nobody inside the core lock, nobody is refused whom an unblock     *)
(* could not reach.                                                        *)
THEOREM RefusedIsOnRecordHolds == Spec => []RefusedIsOnRecord
<1>1. ASSUME BlockingInv PROVE RefusedIsOnRecord
  <2>1. who \subseteq Handle
    BY <1>1 DEF BlockingInv, TypeOK, ListsOK
  <2>2. ASSUME core = "free"
        PROVE  /\ who \subseteq DOMAIN blocklist \cup {lesson[2] : lesson \in Lessons}
               /\ {lesson[1] : lesson \in Lessons} \subseteq DOMAIN blocklist
    <3>1. /\ ui.pc \notin {"block", "unblock"}
          /\ \A t \in Drainer : batch[t] = <<>>
      BY <1>1, <2>2 DEF BlockingInv, LockHeld, Drainer
    <3>2. Known = DOMAIN blocklist
      BY <3>1 DEF Known, Unlisting
    <3>3. Lessons = Range(learned)
      BY DEF Lessons, Range
    <3>4. Taught = Lessons
      <4>1. \A t \in Drainer : Range(batch[t]) = {}
        BY <3>1, RangeOfNone
      <4>2. UNION {Range(batch[t]) : t \in Drainer} = {}
        BY <4>1
      <4> QED BY <3>3, <4>2 DEF Taught
    <3>5. LessonsAreKnown /\ WhoIsKnown
      BY <1>1 DEF BlockingInv
    <3>6. who \subseteq DOMAIN blocklist \cup {lesson[2] : lesson \in Lessons}
      BY <3>2, <3>4, <3>5 DEF WhoIsKnown
    <3>7. {lesson[1] : lesson \in Lessons} \subseteq DOMAIN blocklist
      BY <3>2, <3>4, <3>5 DEF LessonsAreKnown
    <3> QED BY <3>6, <3>7
  <2> QED BY <2>1, <2>2 DEF RefusedIsOnRecord
<1> QED BY <1>1, BlockingInvHolds, PTL
=============================================================================
