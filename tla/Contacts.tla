------------------------------ MODULE Contacts ------------------------------
(***************************************************************************)
(* Whom one phone thinks it is talking to: the rows of contacts, pairings, *)
(* threads, ratchets and messages, and the routes by which a device in     *)
(* sight is taken for one of them.  A person is known by a device id that  *)
(* rotates, by one of two session keys depending on who dialled, by the    *)
(* hint a paired phone advertises and by a persona; the rows made under    *)
(* these are adopted, re-keyed and folded into one another as each is      *)
(* proved.  Every action is one hold of the core lock.                     *)
(***************************************************************************)
EXTENDS Integers, Sequences, FiniteSets, FiniteSetsExt, Functions

CONSTANTS Person, NoOne,
          MaxIds, MaxMessages, MaxMeetings, MaxCeremonies, MaxBlocks, MaxSpent

ASSUME BoundsAreNumbers ==
    {MaxIds, MaxMessages, MaxMeetings, MaxCeremonies, MaxBlocks, MaxSpent} \subseteq Nat

ASSUME PeopleAreMany == IsFiniteSet(Person) /\ NoOne \notin Person

VARIABLES
    store,      \* the database: see NoRows
    owner,      \* whose each device id ever used is; the latest is the one in use
    hinted,     \* the people whose advertisement carries a hint this phone can try
    claimed,    \* the people whose persona this phone has fetched
    session,    \* the side that dialled the session open with a person, or "none"
    opened,     \* the people whose SessionOpened has not been handled
    finished,   \* the PairingCompleted not yet handled: its device and number
    screen,     \* the thread a screen writes to, and whom it was opened to write to
    peer,       \* the other phones: the ratchet each seals to us with, its next seq
    about,      \* for each message, whose conversation it was put in
    meant,      \* for each message, who was on the screen that wrote it
    spent       \* meetings, ceremonies and blocks so far

air == <<owner, hinted, claimed, session>>
told == <<about, meant>>
vars == <<store, air, opened, finished, screen, peer, told, spent>>

NoRows == [contacts |-> <<>>,    \* id -> the key it is filed under
           pairings |-> <<>>,    \* contact -> the person and the ceremony
           threads  |-> <<>>,    \* id -> its contact
           ratchets |-> <<>>,    \* thread -> the ceremony that seeded it
           inboxes  |-> <<>>,    \* thread -> the seqs it has taken
           rows     |-> {},      \* messages
           seals    |-> <<>>]    \* message -> the ratchet it was sealed with, 0 bare

Device(p) == Max({d \in DOMAIN owner : owner[d] = p})
Holder(d) == IF d = Device(owner[d]) THEN owner[d] ELSE NoOne

\* The keys a contact may be filed under: what a session proved, which is one
\* of two values for one person, or the placeholder made of a device id.
SessionKey(p) == [kind |-> session[p], of |-> p]
Placeholder(d) == [kind |-> "device", of |-> d]
PersonOf(key) == IF key.kind = "device" THEN owner[key.of] ELSE key.of

----------------------------------------------------------------------------
(* store/records.rs.                                                       *)

\* A rowid is one more than the highest in the table.
NextId(table) == Max(DOMAIN table \union {0}) + 1

\* A row written under an id, over the one that is there if there is one.
Put(table, id, row) ==
    [i \in DOMAIN table \union {id} |-> IF i = id THEN row ELSE table[i]]

Erase(table, ids) == Restrict(table, DOMAIN table \ ids)

ThreadsOf(st, c) == {t \in DOMAIN st.threads : st.threads[t] = c}

\* thread_for_contact: the newest, 0 if there is none.
CurrentThread(st, c) == Max(ThreadsOf(st, c) \union {0})

LastSeq(st, t, dir) ==
    Max({r.seq : r \in {m \in st.rows : m.thread = t /\ m.dir = dir}} \union {0})

FiledUnder(st, key) == {c \in DOMAIN st.contacts : st.contacts[c] = key}

PairedWith(st, p) == {c \in DOMAIN st.pairings : st.pairings[c].who = p}

\* What deleting a thread takes with it: ON DELETE CASCADE.
DeleteThreads(st, ts) ==
    LET gone == {r.no : r \in {m \in st.rows : m.thread \in ts}}
    IN [st EXCEPT !.threads = Erase(@, ts), !.ratchets = Erase(@, ts),
                  !.inboxes = Erase(@, ts), !.seals = Erase(@, gone),
                  !.rows = {m \in @ : m.thread \notin ts}]

DeleteContact(st, c) ==
    [DeleteThreads(st, ThreadsOf(st, c)) EXCEPT
        !.contacts = Erase(@, {c}), !.pairings = Erase(@, {c})]

AddContact(st, key) == [st EXCEPT !.contacts = Put(@, NextId(@), key)]

Rekey(st, c, key) == [st EXCEPT !.contacts[c] = key]

CreateThread(st, c) == [st EXCEPT !.threads = Put(@, NextId(@), c)]

\* next_seq(into_thread, dir) - 1.
Offset(st, into, dir) == LastSeq(st, into, dir)

(* Mutant: a conversation that joins no other is left to the cascade. *)
LeaveBehind(st, from) == {}

\* threads_for_contact: every one of them, for the delete takes what is left.
Carried(st, from) == ThreadsOf(st, from)

\* fold_contact.
Fold(st, from, into) ==
    LET now    == CurrentThread(st, from)
        dest   == CurrentThread(st, into)
        joins  == now # 0 /\ dest # 0
        Moved(r) == IF joins /\ r.thread = now
                    THEN [r EXCEPT !.thread = dest,
                                   !.seq = @ + Offset(st, dest, r.dir)]
                    ELSE r
        across == Carried(st, from) \ (IF joins THEN {now} ELSE {})
        tables == [st EXCEPT
                     !.rows = {Moved(r) : r \in st.rows},
                     !.threads = [t \in DOMAIN st.threads |->
                                    IF t \in across THEN into ELSE st.threads[t]]]
    IN DeleteContact(tables, from)

\* merge_contact: nothing if they are one row, or if either is not on file.
MergeContact(st, from, into) ==
    IF from = into \/ ~({from, into} \subseteq DOMAIN st.contacts) THEN st
    ELSE Fold(st, from, into)

\* revoke_pairing_within.
Revoke(st, c) ==
    [st EXCEPT !.ratchets = Erase(@, {CurrentThread(st, c)}),
               !.pairings = Erase(@, {c})]

(* Mutant: the keys of the conversation that ended are kept. *)
KeepKeys(st, c) == st

\* write_pairing, pairing again: the last conversation loses its ratchet.
EndConversation(st, c) ==
    [st EXCEPT !.ratchets = Erase(@, {CurrentThread(st, c)})]

\* write_pairing.
WritePairing(st, c, p, no) ==
    LET again  == c \in DOMAIN st.pairings
        paired == [st EXCEPT !.pairings = Put(@, c, [who |-> p, no |-> no])]
    IN IF again THEN CreateThread(EndConversation(paired, c), c)
       ELSE IF CurrentThread(st, c) = 0 THEN CreateThread(paired, c)
       ELSE paired

(* Mutant: the ratchet is written over what is there only. *)
SeedUnseeded(st, t, no) ==
    IF t \in DOMAIN st.ratchets THEN st ELSE [st EXCEPT !.ratchets = Put(@, t, no)]

\* write_ratchet, and drop_seals_overtaken_by_pairing.
Seed(st, t, no) ==
    LET overtaken == {r.no : r \in {m \in st.rows : m.thread = t /\ m.state = "queued"}}
    IN [st EXCEPT !.ratchets = Put(@, t, no), !.seals = Erase(@, overtaken)]

(* Mutant: the row is looked for by what it is filed under only. *)
Nobody(st, c, p) == {}

\* contact_by_l1, another row than the one being paired.
OtherRow(st, c, p) == PairedWith(st, p) \ {c}

\* record_pairing.
RecordPairing(st, c, p, no) ==
    LET others == OtherRow(st, c, p)
        one == IF others = {} THEN st ELSE Fold(st, Max(others), c)
        written == WritePairing(one, c, p, no)
    IN Seed(written, CurrentThread(written, c), no)

----------------------------------------------------------------------------
(* engine/mod.rs: whose a device is.                                       *)

Proved(st, d) ==
    LET p == Holder(d)
    IN IF p # NoOne /\ session[p] # "none" THEN FiledUnder(st, SessionKey(p)) ELSE {}

\* Recogniser::whose.
Recognised(st, d) == IF Holder(d) \in hinted THEN PairedWith(st, Holder(d)) ELSE {}

\* paired_contact_by_l2.
Persona(st, d) == IF Holder(d) \in claimed THEN PairedWith(st, Holder(d)) ELSE {}

\* contact_by_device_id.
Remembered(st, d) == FiledUnder(st, Placeholder(d))

First(sets) ==
    LET some == {i \in DOMAIN sets : sets[i] # {}}
    IN IF some = {} THEN {} ELSE sets[Min(some)]

(* Mutant: the rotating id comes second. *)
IdBeforeHint(st, d) ==
    First(<<Proved(st, d), Remembered(st, d), Recognised(st, d), Persona(st, d)>>)

\* contact_for, contact_id_for_device: the contact, in a set of one, or no one.
ContactFor(st, d) ==
    First(<<Proved(st, d), Recognised(st, d), Persona(st, d), Remembered(st, d)>>)

\* nearby_devices, but for the gate of a block: a row for each device in sight
\* with the contact it is taken for, and one for each friend not among them.
Drawn(st, inSight) ==
    LET taken(p) == ContactFor(st, Device(p))
        front == UNION {taken(p) : p \in inSight}
    IN {[device |-> Device(p), contact |-> taken(p)] : p \in inSight}
       \union {[device |-> 0, contact |-> {c}] : c \in DOMAIN st.pairings \ front}

\* reconcile_contact.
Reconcile(st, d) ==
    LET p      == Holder(d)
        strays == FiledUnder(st, Placeholder(d))
        known  == Proved(st, d)
    IN IF p = NoOne \/ session[p] = "none" \/ strays = {} THEN st
       ELSE IF known # {} THEN MergeContact(st, Max(strays), Max(known))
       ELSE Rekey(st, Max(strays), SessionKey(p))

\* The contact a device is taken for, or a new one: with the database after.
FindOrAdd(st, d) ==
    LET found == ContactFor(st, d)
        p == Holder(d)
        key == IF p # NoOne /\ session[p] # "none" THEN SessionKey(p) ELSE Placeholder(d)
        new == NextId(st.contacts)
    IN IF found # {} THEN [st |-> st, contact |-> Max(found)]
       ELSE [st |-> AddContact(st, key), contact |-> new]

\* ensure_contact: the database after and the contact, in a set of one.
EnsureContact(st, d) == {FindOrAdd(settled, d) : settled \in {Reconcile(st, d)}}

WithThread(st, c) ==
    LET now == CurrentThread(st, c)
    IN IF now = 0 THEN [st |-> CreateThread(st, c), thread |-> NextId(st.threads)]
       ELSE [st |-> st, thread |-> now]

\* ensure_thread: the database after and the thread, in a set of one.
EnsureThread(st, d) == {WithThread(e.st, e.contact) : e \in EnsureContact(st, d)}

\* superseded: the thread is on file and is its contact's current one.
Writable(st, t) ==
    t \in DOMAIN st.threads /\ CurrentThread(st, st.threads[t]) = t

\* The ratchet a thread seals and opens with, 0 if it has none.
RatchetOf(st, t) == IF t \in DOMAIN st.ratchets THEN st.ratchets[t] ELSE 0

Taken(st, t) == IF t \in DOMAIN st.inboxes THEN st.inboxes[t] ELSE {}

WhoseThread(st, t) == PersonOf(st.contacts[st.threads[t]])

----------------------------------------------------------------------------
(* What happens.                                                           *)

Count == Len(about)
Spend(what) ==
    /\ spent.meetings + spent.ceremonies + spent.blocks < MaxSpent
    /\ spent' = [spent EXCEPT ![what] = @ + 1]
Quiet == UNCHANGED <<opened, finished, screen, peer, told, spent>>

Init ==
    /\ store = NoRows
    /\ \E ids \in [1..Cardinality(Person) -> Person] : IsInjective(ids) /\ owner = ids
    /\ hinted = {} /\ claimed = {} /\ opened = {}
    /\ session = [p \in Person |-> "none"]
    /\ finished = [device |-> 0, no |-> 0]
    /\ screen = [thread |-> 0, who |-> NoOne]
    /\ peer = [p \in Person |-> [ratchet |-> 0, next |-> 1]]
    /\ about = <<>> /\ meant = <<>>
    /\ spent = [meetings |-> 0, ceremonies |-> 0, blocks |-> 0]

\* A phone takes a new device id, and is seen under it with nothing else.
Rotate(p) ==
    /\ session[p] = "none" /\ Len(owner) < MaxIds
    /\ owner' = Append(owner, p)
    /\ hinted' = hinted \ {p} /\ claimed' = claimed \ {p}
    /\ UNCHANGED <<store, session>> /\ Quiet

\* The rung reports the hint of a phone in sight.
SeeHint(p) ==
    /\ p \notin hinted /\ hinted' = hinted \union {p}
    /\ UNCHANGED <<store, owner, claimed, session>> /\ Quiet

FetchPersona(p) ==
    /\ session[p] # "none" /\ p \notin claimed /\ claimed' = claimed \union {p}
    /\ UNCHANGED <<store, owner, hinted, session>> /\ Quiet

\* A session opens: what it proves depends on who dialled.
Meet(p, side) ==
    /\ session[p] = "none" /\ spent.meetings < MaxMeetings /\ Spend("meetings")
    /\ session' = [session EXCEPT ![p] = side]
    /\ opened' = opened \union {p}
    /\ UNCHANGED <<store, owner, hinted, claimed, finished, screen, peer, told>>

Part(p) ==
    /\ session[p] # "none" /\ session' = [session EXCEPT ![p] = "none"]
    /\ UNCHANGED <<store, owner, hinted, claimed>> /\ Quiet

\* What resend_queued sends: the bytes kept for a message, or a fresh sealing.
Resent(st, d) ==
    LET found == ContactFor(st, d)
        t == IF found = {} THEN 0 ELSE CurrentThread(st, Max(found))
        left == {m \in st.rows : m.thread = t /\ m.state = "queued"}
    IN [st EXCEPT !.rows = (@ \ left) \union {[m EXCEPT !.state = "sent"] : m \in left},
                  !.seals = Erase(@, {m.no : m \in left})]

\* on_net_event, SessionOpened: the row is reconciled, and what waited leaves.
HandleOpened(p) ==
    /\ p \in opened /\ opened' = opened \ {p}
    /\ \E settled \in {Reconcile(store, Device(p))} :
         store' = IF session[p] = "none" THEN settled ELSE Resent(settled, Device(p))
    /\ UNCHANGED <<air, finished, screen, peer, told, spent>>

\* send_chat before it writes: the thread of a device in sight.
OpenDevice(p) ==
    /\ Count < MaxMessages
    /\ \E e \in EnsureThread(store, Device(p)) :
         store' = e.st /\ screen' = [thread |-> e.thread, who |-> p]
    /\ UNCHANGED <<air, opened, finished, peer, told, spent>>

\* A conversation is opened from the list.
OpenListed(t) ==
    /\ Count < MaxMessages
    /\ screen' = [thread |-> t, who |-> WhoseThread(store, t)]
    /\ screen' # screen
    /\ UNCHANGED <<store, air, opened, finished, peer, told, spent>>

Row(t, dir, seq, state) ==
    [no |-> Count + 1, thread |-> t, dir |-> dir, seq |-> seq, state |-> state]

\* write_then_send: sealed as the thread seals, kept until it is sent, and
\* sent at once when a session with its person is there to carry it.
Type(state) ==
    LET t == screen.thread
        row == Row(t, "out", LastSeq(store, t, "out") + 1, state)
    IN /\ Count < MaxMessages /\ Writable(store, t)
       /\ state = "sent" => session[WhoseThread(store, t)] # "none"
       /\ store' = [store EXCEPT
            !.rows = @ \union {row},
            !.seals = IF state = "sent" THEN @ ELSE Put(@, row.no, RatchetOf(store, t))]
       /\ about' = Append(about, WhoseThread(store, t))
       /\ meant' = Append(meant, screen.who)
       /\ UNCHANGED <<air, opened, finished, screen, peer, spent>>

\* store_incoming_chat: kept if it opens and its number is new to the thread.
\* A message refused stays with its sender.
Hear(p) ==
    \E e \in EnsureThread(store, Device(p)) :
    LET seq == peer[p].next
        kept == /\ RatchetOf(e.st, e.thread) = peer[p].ratchet
                /\ seq \notin Taken(e.st, e.thread)
    IN /\ session[p] # "none" /\ Count < MaxMessages
       /\ \/ /\ kept
             /\ store' = [e.st EXCEPT
                  !.rows = @ \union {Row(e.thread, "in", seq, "delivered")},
                  !.inboxes = Put(@, e.thread, Taken(e.st, e.thread) \union {seq})]
             /\ peer' = [peer EXCEPT ![p].next = @ + 1]
             /\ about' = Append(about, p) /\ meant' = Append(meant, p)
          \/ ~kept /\ store' = e.st /\ UNCHANGED <<peer, told>>
       /\ UNCHANGED <<air, opened, finished, screen, spent>>

\* A ceremony is over, and the other phone has written it down: on a phone that
\* was paired with this one already the conversation starts again.
Complete(p) ==
    /\ session[p] # "none" /\ finished.device = 0
    /\ spent.ceremonies < MaxCeremonies /\ Spend("ceremonies")
    /\ finished' = [device |-> Device(p), no |-> spent.ceremonies + 1]
    /\ peer' = [peer EXCEPT ![p] =
         [ratchet |-> spent.ceremonies + 1, next |-> IF @.ratchet = 0 THEN @.next ELSE 1]]
    /\ UNCHANGED <<store, air, opened, screen, told>>

\* record_pairing of the engine, as PairingCompleted is handled.
Record ==
    /\ finished.device # 0
    /\ \E e \in EnsureContact(store, finished.device) :
         store' = RecordPairing(e.st, e.contact, owner[finished.device], finished.no)
    /\ finished' = [device |-> 0, no |-> 0]
    /\ UNCHANGED <<air, opened, screen, peer, told, spent>>

\* write_block and finish_block, for what they do to the pairing and the session.
Block(c) ==
    LET p == PersonOf(store.contacts[c])
    IN /\ spent.blocks < MaxBlocks /\ Spend("blocks")
       /\ store' = Revoke(store, c)
       /\ session' = [session EXCEPT ![p] = "none"]
       /\ UNCHANGED <<owner, hinted, claimed, opened, finished, screen, peer, told>>

Next ==
    \/ \E p \in Person : \/ Rotate(p) \/ SeeHint(p) \/ FetchPersona(p) \/ Part(p)
                         \/ HandleOpened(p) \/ OpenDevice(p) \/ Hear(p) \/ Complete(p)
    \/ \E p \in Person, side \in {"pseudonym", "session_pub"} : Meet(p, side)
    \/ \E t \in DOMAIN store.threads : OpenListed(t)
    \/ \E state \in {"queued", "sent"} : Type(state)
    \/ Record
    \/ \E c \in DOMAIN store.contacts : Block(c)

Spec == Init /\ [][Next]_vars

----------------------------------------------------------------------------
(* What must hold.                                                         *)

\* Nothing said is lost or passed to another person by any adoption, re-keying,
\* fold or pairing: every message is still in a conversation with its person
\* (fold_contact, "the delete at the bottom cascades").
EveryMessageStays ==
    \A no \in 1..Count :
        \E m \in store.rows : m.no = no /\ WhoseThread(store, m.thread) = about[no]

\* The messages this phone wrote in a conversation have each a number of their
\* own, whatever was folded into it ("two runs of 1, 2, 3 would interleave").
OutgoingNumbered ==
    \A m, n \in store.rows :
        (m.dir = "out" /\ n.dir = "out" /\ m.thread = n.thread /\ m.seq = n.seq) => m = n

\* A fold moves the whole of a conversation to its person, and shuffles none.
HistoryStays == EveryMessageStays /\ OutgoingNumbered

\* The conversation of a paired contact that a screen writes to seals with the
\* ratchet of the last ceremony with them: no fold leaves another on top of it.
PairedIsSealed ==
    \A c \in DOMAIN store.pairings :
        RatchetOf(store, CurrentThread(store, c)) = store.pairings[c].no

\* No key outlives the pairing it belongs to: a thread with a ratchet is the
\* current one of a paired contact.
KeysArePaired ==
    \A t \in DOMAIN store.ratchets :
        /\ store.threads[t] \in DOMAIN store.pairings
        /\ CurrentThread(store, store.threads[t]) = t

\* One person is not paired under two rows, and each row is the person's own
\* (record_pairing, contact_by_l1: the fold comes before the key is written).
OnePairingEach ==
    \A c \in DOMAIN store.pairings :
        /\ PersonOf(store.contacts[c]) = store.pairings[c].who
        /\ PairedWith(store, store.pairings[c].who) = {c}

\* A pairing is one person's, and all the keys on file are a pairing's.
PairingsAreSound == KeysArePaired /\ OnePairingEach

\* A friend seen with nobody connected is recognised by the hint, whatever row
\* was made under the id before (contact_for: "a row remembered under it must
\* not outrank a friend recognised by a key"); and in sight or not, she is drawn
\* once (nearby_devices: "what stops the loop over the disk drawing the same
\* person again").
FriendIsKnown ==
    \A inSight \in SUBSET hinted : \A p \in Person :
        LET friend == PairedWith(store, p)
            row == [device |-> IF p \in inSight THEN Device(p) ELSE 0,
                    contact |-> friend]
        IN (friend # {} /\ \A q \in Person : session[q] = "none")
            => {r \in Drawn(store, inSight) : r.contact \intersect friend # {}} = {row}

\* A pairing ends only in a block: no fold takes one away.
PairingsLast ==
    [][\A p \in Person :
          (PairedWith(store, p) # {} /\ PairedWith(store', p) = {})
              => spent'.blocks > spent.blocks]_vars

----------------------------------------------------------------------------
(* What the repository says, and the code does not keep.                   *)

\* "sending the stored bytes at the next reunion delivers something it throws
\* away.  R0-F5 promises the opposite": what is kept to be sent is sealed as its
\* conversation seals.
KeptSealsOpen ==
    \A m \in store.rows :
        m.no \in DOMAIN store.seals => store.seals[m.no] = RatchetOf(store, m.thread)

\* "Pairing again starts a new conversation ... Reusing the thread meant a peer
\* ... began at seq = 1 into an inbox that had already seen a hundred, and was
\* dropped as a duplicate."
NeverADuplicate ==
    \A p \in Person : \A c \in PairedWith(store, p) :
        LET t == CurrentThread(store, c)
        IN (finished.device = 0 /\ RatchetOf(store, t) = peer[p].ratchet)
               => peer[p].next \notin Taken(store, t)

\* "the rowid only ever increases": what is written on a screen goes to the
\* person it was opened for.
GoesWhereMeant == about = meant

\* A session with a friend reaches the row they are paired under ("Contacts are
\* keyed on this, and stay resolvable anyway").
SessionFindsThePairing ==
    \A p \in Person :
        (session[p] # "none" /\ p \in claimed /\ PairedWith(store, p) # {})
            => ContactFor(store, Device(p)) = PairedWith(store, p)

=============================================================================
