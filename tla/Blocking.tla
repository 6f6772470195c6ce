------------------------------ MODULE Blocking ------------------------------
(***************************************************************************)
(* Blocking a person (src/rust/src/block.rs, and block, unblock_person and *)
(* write_learned_blocks of engine/mod.rs): the stored rows, the live list  *)
(* every ingress asks, and the queue of what refused dials prove, under    *)
(* the UI thread, the pump thread and the clock thread.                    *)
(*                                                                         *)
(* The core lock is held by one thread at a time; the live list and the    *)
(* queue have locks of their own, so a step on them may fall anywhere      *)
(* inside what another thread does under the core lock.                    *)
(***************************************************************************)
EXTENDS Integers, Sequences, FiniteSets

CONSTANTS
    Peer,             \* the other phones
    MaxContacts,      \* bound: contact rows ever created
    MaxCalls,         \* bound: calls of block and of unblock_person
    MaxUpsets         \* bound: changes of a peer's persona or rung id, and restarts

ASSUME BoundsAssumption ==
    {MaxContacts, MaxCalls, MaxUpsets} \subseteq Nat

(* What a phone can be known by.  The pseudonym is for life; the persona's *)
(* two keys are new with each persona, the rung id with each rotation.     *)
Handle == Peer \X {"pseudonym", "session_pub", "l2_pub", "device"} \X Nat
ContactId == 1..MaxContacts
NoContact == 0
NoPeer == 0
ZeroKey == <<>>           \* the l2_pub of a contact never paired
NoSession == <<>>
Drainer == {"pump", "clock"}

VARIABLES
    \* the store
    contacts,         \* contact rows: the key and l2_pub columns, and pairing
    blocklist,        \* blocked handles, each with the contact it is about
    created,          \* how many contact rows were ever created
    \* block::Blocklist
    who,              \* the live list
    learned,          \* pairs <<matched, proven>> waiting to be written
    \* the threads
    core,             \* the holder of the core lock, "free" if none
    ui, pump, batch,  \* where each stands; batch is what a drainer took
    \* Net
    session,          \* the open sessions: remote static and l2_pub
    pending,          \* the peers this device has dialled, unanswered
    \* the peers
    persona, rung,
    calls, upsets,
    \* history: the contacts whose block has not been lifted
    standing

store == <<contacts, blocklist, created>>
lists == <<who, learned>>
peers == <<persona, rung>>
bounds == <<calls, upsets>>
vars == <<store, lists, core, ui, pump, batch, session, pending, peers,
          bounds, standing>>

Pseudonym(p) == <<p, "pseudonym", 0>>
SessionPub(p) == <<p, "session_pub", persona[p]>>
L2Pub(p) == <<p, "l2_pub", persona[p]>>
Device(p) == <<p, "device", rung[p]>>

UiIdle == [pc |-> "idle", handles |-> {}, peer |-> NoPeer]
PumpIdle == [pc |-> "idle", peer |-> NoPeer]

Init ==
    /\ contacts = <<>> /\ blocklist = <<>> /\ created = 0
    /\ who = {} /\ learned = <<>>
    /\ core = "free" /\ ui = UiIdle /\ pump = PumpIdle
    /\ batch = [t \in Drainer |-> <<>>]
    /\ session = [p \in Peer |-> NoSession]
    /\ pending = [p \in Peer |-> FALSE]
    /\ persona = [p \in Peer |-> 0] /\ rung = [p \in Peer |-> 0]
    /\ calls = 0 /\ upsets = 0 /\ standing = {}

(* Without one handle, contact or row of a partial function. *)
Without(f, S) == [x \in DOMAIN f \ S |-> f[x]]
With(f, S, value) == [x \in DOMAIN f \cup S |-> IF x \in S THEN value ELSE f[x]]

-----------------------------------------------------------------------------
(* block.rs. *)

Silences(handles) == handles \cap who # {}

(* Mutant: nothing is queued, so the lesson lasts as long as the process. *)
NoteUnwritten(asked, proven) ==
    /\ who' = IF Silences(asked) THEN who \cup {proven} ELSE who
    /\ UNCHANGED learned

NoteProved(asked, proven) ==
    \/ /\ (proven \in who \/ ~Silences(asked))
       /\ UNCHANGED lists
    \/ /\ proven \notin who
       /\ \E matched \in asked \cap who : learned' = Append(learned, <<matched, proven>>)
       /\ who' = who \cup {proven}

(* Vec::retain: the lessons at these places stay, in the order they have.  *)
Retain(kept) ==
    \E place \in [1..Cardinality(kept) -> kept] :
        /\ {place[i] : i \in DOMAIN place} = kept
        /\ \A i, j \in DOMAIN place : i < j => place[i] < place[j]
        /\ learned' = [i \in DOMAIN place |-> learned[place[i]]]

(* Mutant: what the handle taught stays. *)
UnblockHandleOnly(h) ==
    /\ who' = who \ {h}
    /\ UNCHANGED learned

UnblockHandle(h) ==
    LET kept == {i \in DOMAIN learned : learned[i][1] # h}
        taught == {learned[i][2] : i \in DOMAIN learned \ kept}
    IN /\ who' = who \ ({h} \cup taught)
       /\ Retain(kept)

-----------------------------------------------------------------------------
(* Whose row it is: contact_for, reconcile_contact, ensure_contact.  At    *)
(* most one contact has a given key.                                       *)

Keyed(key) == {c \in DOMAIN contacts : contacts[c].key = key}

(* session_key_of: the static the handshake proved. *)
Proved(p) == IF session[p] = NoSession THEN {} ELSE Keyed(session[p][1])

PairedWith(p) == {c \in DOMAIN contacts : contacts[c].paired = {p}}

ContactFor(p) ==
    IF Proved(p) # {} THEN Proved(p)
    ELSE IF PairedWith(p) # {} THEN PairedWith(p)
    ELSE Keyed(Device(p))

(* reconcile_contact: a row keyed on the rung id is moved to the key the   *)
(* session proved, or folded into the row that has it.  The rows of the    *)
(* block list that named the folded contact name nobody: ON DELETE SET     *)
(* NULL.                                                                   *)
Reconcile(p) ==
    LET stray == Keyed(Device(p)) IN
    IF session[p] = NoSession \/ stray = {}
    THEN UNCHANGED <<contacts, blocklist, standing>>
    ELSE IF Proved(p) = {}
    THEN /\ contacts' = [c \in DOMAIN contacts |->
                IF c \in stray THEN [contacts[c] EXCEPT !.key = session[p][1]]
                               ELSE contacts[c]]
         /\ UNCHANGED <<blocklist, standing>>
    ELSE /\ contacts' = Without(contacts, stray)
         /\ blocklist' = [h \in DOMAIN blocklist |->
                IF blocklist[h] \in stray THEN NoContact ELSE blocklist[h]]
         /\ standing' = IF stray \cap standing = {} THEN standing
                        ELSE standing \cup {NoContact}

-----------------------------------------------------------------------------
(* The UI thread. *)

(* handles_for, with a sighting that has a persona or has none yet. *)
HandlesFor(p, contact, named) ==
    (IF session[p] = NoSession THEN {}
     ELSE {session[p][2]} \cup ({session[p][1]} \cap {Pseudonym(p)}))
    \cup (IF named THEN {L2Pub(p)} ELSE {})
    \cup (UNION {{contacts[c].key, contacts[c].l2} \ {ZeroKey} : c \in contact})
    \cup {Device(p)}

(* contact_handles, for somebody not in sight. *)
ContactHandles(c) == {contacts[c].key, contacts[c].l2} \ {ZeroKey}

(* Store::block, one commit: the pairing goes, and a row for each handle.  *)
WriteBlock(handles, contact, peer) ==
    /\ core = "free" /\ ui.pc = "idle"
    /\ calls < MaxCalls /\ calls' = calls + 1
    /\ core' = "ui"
    /\ contacts' = [c \in DOMAIN contacts |->
           IF c \in contact THEN [contacts[c] EXCEPT !.paired = {}] ELSE contacts[c]]
    /\ LET about == IF contact = {} THEN NoContact ELSE CHOOSE c \in contact : TRUE
       IN /\ blocklist' = With(blocklist, handles, about)
          /\ standing' = standing \cup {about}
    /\ ui' = [pc |-> "block", handles |-> handles, peer |-> peer]
    /\ UNCHANGED <<created, lists, pump, batch, session, pending, peers, upsets>>

BlockDevice(p) ==
    \E named \in BOOLEAN :
        WriteBlock(HandlesFor(p, ContactFor(p), named), ContactFor(p), p)

(* For somebody in sight block_thread finds the device, and is BlockDevice. *)
BlockThread(c) ==
    /\ c \in DOMAIN contacts
    /\ WriteBlock(ContactHandles(c), {c}, NoPeer)

(* The rest of write_block: Blocklist::block on one handle after another. *)
BlockLive(h) ==
    /\ ui.pc = "block" /\ h \in ui.handles
    /\ who' = who \cup {h}
    /\ ui' = [ui EXCEPT !.handles = @ \ {h}]
    /\ UNCHANGED <<store, learned, core, pump, batch, session, pending, peers,
                   bounds, standing>>

EndWriteBlock ==
    /\ ui.pc = "block" /\ ui.handles = {}
    /\ core' = "free"
    /\ ui' = IF ui.peer = NoPeer THEN UiIdle ELSE [ui EXCEPT !.pc = "close"]
    /\ UNCHANGED <<store, lists, pump, batch, session, pending, peers, bounds,
                   standing>>

(* finish_block, the core lock given up: the session goes last. *)
FinishBlock ==
    /\ ui.pc = "close"
    /\ session' = [session EXCEPT ![ui.peer] = NoSession]
    /\ ui' = UiIdle
    /\ UNCHANGED <<store, lists, core, pump, batch, pending, peers, bounds,
                   standing>>

(* blocked_people, the screen a block is lifted from: a row that names no  *)
(* contact on file is not drawn.                                           *)
BlockedPeople == {blocklist[h] : h \in DOMAIN blocklist} \cap DOMAIN contacts

(* unblock_person: the handles are read and their rows deleted. *)
UnblockPerson(c) ==
    /\ core = "free" /\ ui.pc = "idle"
    /\ c \in BlockedPeople
    /\ LET handles == {h \in DOMAIN blocklist : blocklist[h] = c} IN
       /\ blocklist' = Without(blocklist, handles)
       /\ ui' = [UiIdle EXCEPT !.pc = "unblock", !.handles = handles]
    /\ calls < MaxCalls /\ calls' = calls + 1
    /\ core' = "ui"
    /\ standing' = standing \ {c}
    /\ UNCHANGED <<contacts, created, lists, pump, batch, session, pending, peers,
                   upsets>>

UnblockLive(h) ==
    /\ ui.pc = "unblock" /\ h \in ui.handles
    /\ UnblockHandle(h)
    /\ ui' = [ui EXCEPT !.handles = @ \ {h}]
    /\ UNCHANGED <<store, core, pump, batch, session, pending, peers, bounds,
                   standing>>

EndUnblock ==
    /\ ui.pc = "unblock" /\ ui.handles = {}
    /\ core' = "free" /\ ui' = UiIdle
    /\ UNCHANGED <<store, lists, pump, batch, session, pending, peers, bounds,
                   standing>>

-----------------------------------------------------------------------------
(* The pump thread, one event at a time, each followed by a drain. *)

Stands(pc, p) == pump' = [pc |-> pc, peer |-> p]

(* on_handshake_offer: the peer dials, and the gate answers. *)
Asked(p) == {Pseudonym(p), L2Pub(p), Device(p)}

Offer(p) ==
    /\ pump.pc = "idle" /\ session[p] = NoSession /\ ~pending[p]
    /\ Stands(IF Silences(Asked(p)) THEN "note" ELSE "accept", p)
    /\ UNCHANGED <<store, lists, core, ui, batch, session, pending, peers,
                   bounds, standing>>

NoteRefused ==
    /\ pump.pc = "note"
    /\ NoteProved(Asked(pump.peer), Pseudonym(pump.peer))
    /\ Stands("drain", NoPeer)
    /\ UNCHANGED <<store, core, ui, batch, session, pending, peers, bounds,
                   standing>>

Accept ==
    /\ pump.pc = "accept"
    /\ session' = [session EXCEPT ![pump.peer] =
                      <<Pseudonym(pump.peer), L2Pub(pump.peer)>>]
    /\ Stands("opened", pump.peer)
    /\ UNCHANGED <<store, lists, core, ui, batch, pending, peers, bounds,
                   standing>>

(* reach_for_queued_messages: a peer in sight and not connected is dialled *)
(* when somebody is owed a message; nothing asks the block list.           *)
Reach(p) ==
    /\ pump.pc = "idle" /\ session[p] = NoSession /\ ~pending[p]
    /\ pending' = [pending EXCEPT ![p] = TRUE]
    /\ Stands("drain", NoPeer)
    /\ UNCHANGED <<store, lists, core, ui, batch, session, peers, bounds,
                   standing>>

(* The reply to our dial: Initiator::finish, and adopt. *)
Reply(p) ==
    /\ pump.pc = "idle" /\ pending[p]
    /\ pending' = [pending EXCEPT ![p] = FALSE]
    /\ session' = [session EXCEPT ![p] = <<SessionPub(p), L2Pub(p)>>]
    /\ Stands("opened", p)
    /\ UNCHANGED <<store, lists, core, ui, batch, peers, bounds, standing>>

(* SessionOpened. *)
SessionOpened ==
    /\ pump.pc = "opened" /\ core = "free"
    /\ Reconcile(pump.peer)
    /\ Stands("drain", NoPeer)
    /\ UNCHANGED <<created, lists, core, ui, batch, session, pending, peers,
                   bounds>>

(* on_session_bytes: a frame over the session passes the gate, or nothing. *)
Hear(p) ==
    /\ pump.pc = "idle" /\ session[p] # NoSession
    /\ ~Silences({session[p][1], session[p][2], Device(p)})
    /\ Stands("heard", p)
    /\ UNCHANGED <<store, lists, core, ui, batch, session, pending, peers,
                   bounds, standing>>

(* ensure_contact, after Reconcile found no stray row. *)
AddContact(p, key) ==
    /\ created < MaxContacts
    /\ created' = created + 1
    /\ contacts' = With(contacts, {created + 1},
                        [key |-> key, l2 |-> ZeroKey, paired |-> {}])

SessionKey(p) == IF session[p] = NoSession THEN Device(p) ELSE session[p][1]

(* A chat frame: the contact is moved or folded if it was a stray, created *)
(* if there is none.                                                       *)
StoreChat ==
    LET p == pump.peer IN
    /\ pump.pc = "heard" /\ core = "free"
    /\ IF ContactFor(p) = {}
       THEN AddContact(p, SessionKey(p)) /\ UNCHANGED <<blocklist, standing>>
       ELSE Reconcile(p) /\ UNCHANGED created
    /\ Stands("drain", NoPeer)
    /\ UNCHANGED <<lists, core, ui, batch, session, pending, peers, bounds>>

(* Any other frame: nothing here changes. *)
HeardNothing ==
    /\ pump.pc = "heard"
    /\ Stands("drain", NoPeer)
    /\ UNCHANGED <<store, lists, core, ui, batch, session, pending, peers,
                   bounds, standing>>

(* A finished ceremony: record_pairing, of a person not paired before. *)
RecordPairing ==
    LET p == pump.peer IN
    /\ pump.pc = "heard" /\ core = "free"
    /\ session[p] # NoSession /\ Keyed(Device(p)) = {} /\ PairedWith(p) = {}
    /\ Proved(p) # {}
    /\ contacts' = [c \in DOMAIN contacts |->
           IF c \in Proved(p)
           THEN [contacts[c] EXCEPT !.paired = {p}, !.l2 = L2Pub(p)]
           ELSE contacts[c]]
    /\ Stands("drain", NoPeer)
    /\ UNCHANGED <<blocklist, created, lists, core, ui, batch, session, pending,
                   peers, bounds, standing>>

(* The pipe goes, and the session and the dial with it. *)
PipeGone(p) ==
    /\ pump.pc = "idle" /\ (session[p] # NoSession \/ pending[p])
    /\ session' = [session EXCEPT ![p] = NoSession]
    /\ pending' = [pending EXCEPT ![p] = FALSE]
    /\ Stands("drain", NoPeer)
    /\ UNCHANGED <<store, lists, core, ui, batch, peers, bounds, standing>>

(* send_chat: a row for somebody first written to. *)
WriteTo(p) ==
    /\ core = "free" /\ ui.pc = "idle"
    /\ ContactFor(p) = {}
    /\ AddContact(p, SessionKey(p))
    /\ UNCHANGED <<blocklist, lists, core, ui, pump, batch, session, pending,
                   peers, bounds, standing>>

-----------------------------------------------------------------------------
(* write_learned_blocks, by the pump after each event and by the clock:    *)
(* drain and write under one hold of the core lock.                        *)

MayDrain(t) == t = "pump" => pump.pc = "drain"

TakeLearned(t) ==
    /\ MayDrain(t) /\ core = "free" /\ learned # <<>>
    /\ core' = t
    /\ batch' = [batch EXCEPT ![t] = learned]
    /\ learned' = <<>>
    /\ UNCHANGED <<store, who, ui, pump, session, pending, peers, bounds, standing>>

(* The pump has nothing to write. *)
NothingLearned ==
    /\ pump.pc = "drain" /\ core = "free" /\ learned = <<>>
    /\ pump' = PumpIdle
    /\ UNCHANGED <<store, lists, core, ui, batch, session, pending, peers, bounds,
                   standing>>

(* Store::block of what was proven, for the contact of what matched. *)
WriteLesson(t) ==
    LET matched == Head(batch[t])[1]
        proven  == Head(batch[t])[2]
        about   == IF matched \in DOMAIN blocklist THEN blocklist[matched]
                                                   ELSE NoContact
    IN /\ core = t /\ batch[t] # <<>>
       /\ blocklist' = With(blocklist, {proven}, about)
       /\ contacts' = [c \in DOMAIN contacts |->
              IF c = about THEN [contacts[c] EXCEPT !.paired = {}] ELSE contacts[c]]
       /\ batch' = [batch EXCEPT ![t] = Tail(@)]
       /\ UNCHANGED <<created, lists, core, ui, pump, session, pending, peers,
                      bounds, standing>>

(* Mutant: what could not be written is dropped. *)
DropUnwritten(t) ==
    /\ core = t /\ batch[t] # <<>>
    /\ batch' = [batch EXCEPT ![t] = <<>>]
    /\ UNCHANGED <<store, lists, core, ui, pump, session, pending, peers,
                   bounds, standing>>

(* The disk is busy: the rest goes back, before what came since. *)
Relearn(t) ==
    /\ core = t /\ batch[t] # <<>>
    /\ learned' = batch[t] \o learned
    /\ batch' = [batch EXCEPT ![t] = <<>>]
    /\ UNCHANGED <<store, who, core, ui, pump, session, pending, peers, bounds,
                   standing>>

EndDrain(t) ==
    /\ core = t /\ batch[t] = <<>>
    /\ core' = "free"
    /\ pump' = IF t = "pump" THEN PumpIdle ELSE pump
    /\ UNCHANGED <<store, lists, ui, batch, session, pending, peers, bounds,
                   standing>>

-----------------------------------------------------------------------------
(* The peers, and the process. *)

Absent(p) == session[p] = NoSession /\ ~pending[p] /\ pump.peer # p

Upset == upsets < MaxUpsets /\ upsets' = upsets + 1

NewPersona(p) ==
    /\ Absent(p) /\ Upset
    /\ persona' = [persona EXCEPT ![p] = @ + 1]
    /\ UNCHANGED <<store, lists, core, ui, pump, batch, session, pending, rung,
                   calls, standing>>

(* A rung does not rotate under an open pipe. *)
Rotate(p) ==
    /\ Absent(p) /\ Upset
    /\ rung' = [rung EXCEPT ![p] = @ + 1]
    /\ UNCHANGED <<store, lists, core, ui, pump, batch, session, pending, persona,
                   calls, standing>>

(* Killed between any two steps, and started again: Blocklist::loaded. *)
Restart ==
    /\ Upset
    /\ who' = DOMAIN blocklist /\ learned' = <<>>
    /\ core' = "free" /\ ui' = UiIdle /\ pump' = PumpIdle
    /\ batch' = [t \in Drainer |-> <<>>]
    /\ session' = [p \in Peer |-> NoSession]
    /\ pending' = [p \in Peer |-> FALSE]
    /\ UNCHANGED <<store, peers, calls, standing>>

UiStep ==
    \/ \E p \in Peer : BlockDevice(p) \/ WriteTo(p)
    \/ \E c \in ContactId : BlockThread(c) \/ UnblockPerson(c)
    \/ \E h \in ui.handles : BlockLive(h) \/ UnblockLive(h)
    \/ EndWriteBlock \/ FinishBlock \/ EndUnblock

PumpStep ==
    \/ \E p \in Peer : Offer(p) \/ Reach(p) \/ Reply(p) \/ Hear(p) \/ PipeGone(p)
    \/ NoteRefused \/ Accept \/ SessionOpened \/ StoreChat \/ RecordPairing
    \/ HeardNothing \/ NothingLearned

DrainStep(t) == TakeLearned(t) \/ WriteLesson(t) \/ Relearn(t) \/ EndDrain(t)

Next ==
    \/ UiStep \/ PumpStep
    \/ \E t \in Drainer : DrainStep(t)
    \/ \E p \in Peer : NewPersona(p) \/ Rotate(p)
    \/ Restart

Spec == Init /\ [][Next]_vars

(* A call that has begun ends, the clock keeps waking and in the end gets  *)
(* the lock, and the disk is not busy for ever.                            *)
Fairness ==
    /\ WF_vars(\E h \in ui.handles : BlockLive(h) \/ UnblockLive(h))
    /\ WF_vars(EndWriteBlock) /\ WF_vars(EndUnblock)
    /\ SF_vars(TakeLearned("clock"))
    /\ \A t \in Drainer : SF_vars(WriteLesson(t)) /\ WF_vars(EndDrain(t))

FairSpec == Spec /\ Fairness

-----------------------------------------------------------------------------
Lessons == {learned[i] : i \in DOMAIN learned}

(* Nobody is refused without a cause on record: while no call holds the    *)
(* core lock the live list has no handle without a row or a queued lesson, *)
(* and never the zero of a contact not paired; and what a queued lesson    *)
(* matched still has its row, so that written later it joins the block it  *)
(* came from and no other.                                                 *)
RefusedIsOnRecord ==
    /\ who \subseteq Handle
    /\ core = "free" =>
        /\ who \subseteq DOMAIN blocklist \cup {lesson[2] : lesson \in Lessons}
        /\ {lesson[1] : lesson \in Lessons} \subseteq DOMAIN blocklist

(* A block lifted stays lifted: no refused dial, queued lesson, busy disk  *)
(* or restart writes a row of it again.                                    *)
LiftedIsLifted ==
    \A h \in DOMAIN blocklist : blocklist[h] \in standing

(* What a refused dial proved reaches the disk, whatever fails on the way, *)
(* unless the block is lifted or the process dies first.                   *)
LessonsAreWritten ==
    \A p \in Peer :
        Pseudonym(p) \in {lesson[2] : lesson \in Lessons}
            ~> Pseudonym(p) \in DOMAIN blocklist \/ Pseudonym(p) \notin who

-----------------------------------------------------------------------------
(* What the comments of the code say, and the code does not do (README,    *)
(* Disagreements).                                                       *)

(* engine/mod.rs:836-837, "after this returns every ingress in the app     *)
(* refuses them": a stored handle is in the live list.                     *)
BlockedIsRefused ==
    core = "free" =>
        \A h \in DOMAIN blocklist : blocklist[h] # NoContact => h \in who

(* engine/mod.rs:835-836, "Nothing goes to the person being blocked - not  *)
(* a frame, not a close, not a persona": nobody whom the list refuses is   *)
(* dialled.                                                                *)
NothingGoesToTheBlocked ==
    [][\A p \in Peer :
          ui.pc = "idle" /\ Silences(Asked(p)) /\ pending'[p] => pending[p]]_vars

(* engine/mod.rs:1044, blocked_people is "everyone this device is          *)
(* refusing, for the screen that lists them": whoever the screen lists     *)
(* stays on it until the block is lifted.                                  *)
BlockedStayListed ==
    [][\A h \in DOMAIN blocklist \cap DOMAIN blocklist' :
          blocklist[h] \in BlockedPeople => blocklist'[h] \in BlockedPeople']_vars
=============================================================================
