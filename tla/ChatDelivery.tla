---------------------------- MODULE ChatDelivery ----------------------------
(***************************************************************************)
(* One paired conversation between two engines (src/rust/src/engine/mod.rs *)
(* over store/records.rs): what the store keeps of it, the UI threads that *)
(* write messages, the pump thread that handles what the network delivers, *)
(* and a link that breaks and loses what it carried.                       *)
(*                                                                         *)
(* Every step below is what the code does under one hold of the core lock, *)
(* or one call made outside it.  The ratchet is the one RatchetPair        *)
(* describes: a sealing has a number of its own, and opens once.           *)
(***************************************************************************)
EXTENDS Integers, Sequences, FiniteSets

CONSTANTS
    UiThread,         \* threads of the UI that may be inside a send
    Writes,           \* bound: messages each engine writes, per party
    MaxUnacked,       \* MAX_UNACKED
    MaxAhead,         \* MAX_AHEAD
    MaxLinks,         \* bound: times the link comes up
    FaultKinds,       \* what may go wrong: "crash", or a side out of "turn"
    MaxFaults,        \* bound: engines killed, and sides that fell out of turn
    Sightings         \* what looking for the peer's device may answer

ASSUME ConstantsAssumption ==
    /\ Writes \in [{0, 1} -> Nat]
    /\ MaxUnacked \in Nat /\ MaxAhead \in Nat /\ MaxLinks \in Nat
    /\ MaxFaults \in Nat /\ Sightings \subseteq BOOLEAN

Party == {0, 1}           \* 0 is the side that initiated the ratchet
Peer(p) == 1 - p
Seqs(p) == 1..Writes[p]

VARIABLES
    \* what the store keeps, and a crash does not lose
    row,              \* the state of each outgoing message, "none" if unwritten
    seal,             \* outbound_seals: the sealed body kept for a message, 0 if none
    sealed,           \* how many bodies the ratchet has sealed
    spent,            \* the peer's sealed bodies the ratchet has opened
    stored,           \* the incoming rows, in the order they were inserted
    inbox,            \* inboxes: through and ahead
    \* what runs, and a crash loses
    ui, pump,         \* where each thread stands
    session,          \* the link a session is open on, 0 if none
    spoilt,           \* the last link on which a side fell out of turn, 0 if none
    \* the network
    link,             \* the link that is up, 0 if none
    links,            \* how many have come up
    arriving,         \* what each engine's pump has yet to handle
    crashes

store == <<row, seal, sealed, spent, stored, inbox>>
network == <<session, spoilt, link, links, arriving, crashes>>
vars == <<store, ui, pump, network>>

UiIdle == [pc |-> "idle", seq |-> 0, no |-> 0, seen |-> FALSE]
PumpIdle == [pc |-> "idle", todo |-> <<>>, no |-> 0, seq |-> 0, offers |-> FALSE]

Init ==
    /\ row = [p \in Party |-> [s \in Seqs(p) |-> "none"]]
    /\ seal = [p \in Party |-> [s \in Seqs(p) |-> 0]]
    /\ sealed = [p \in Party |-> 0]
    /\ spent = [p \in Party |-> {}]
    /\ stored = [p \in Party |-> <<>>]
    /\ inbox = [p \in Party |-> [through |-> 0, ahead |-> {}]]
    /\ ui = [p \in Party |-> [t \in UiThread |-> UiIdle]]
    /\ pump = [p \in Party |-> PumpIdle]
    /\ session = [p \in Party |-> 0]
    /\ spoilt = [p \in Party |-> 0]
    /\ link = 0 /\ links = 0 /\ crashes = 0
    /\ arriving = [p \in Party |-> <<>>]

-----------------------------------------------------------------------------
(* The ratchet, as RatchetPair has it.                                     *)

Heard(p) == spent[p] # {}
CanSend(p) == p = 0 \/ Heard(p)


Opens(p, no) == no \notin spent[p]

OwesAnOpening(p) == p = 0 /\ ~Heard(p)

(* Mutant: what was sealed leaves, and the ratchet is not written. *)
ForgetRatchet(p) == UNCHANGED sealed

(* A body is sealed under the next number, and the ratchet that sealed it  *)
(* is written in the same commit: start_ratchet, or write_ratchet inside   *)
(* commit_sent and seal_queued.                                            *)
NextNumber(p) == sealed[p] + 1
KeepRatchet(p) == sealed' = [sealed EXCEPT ![p] = @ + 1]

-----------------------------------------------------------------------------
(* Inbox::receive.                                                         *)

Duplicate(p, s) == s <= inbox[p].through \/ s \in inbox[p].ahead

(* Mutant: the window is one wider. *)
FurtherAhead(p, s) == s > inbox[p].through + MaxAhead + 1

TooFarAhead(p, s) == s > inbox[p].through + MaxAhead
Accepted(p, s) == ~Duplicate(p, s) /\ ~TooFarAhead(p, s)

(* Mutant: one step of the run is absorbed, and the rest left ahead. *)
ReceivedUndrained(box, s) ==
    IF s = box.through + 1 THEN [box EXCEPT !.through = s]
                           ELSE [box EXCEPT !.ahead = @ \cup {s}]

(* Drained: the contiguous run above through is absorbed into it. *)
Received(box, s) ==
    LET have == box.ahead \cup {s}
        run  == {n \in have : \A k \in (box.through + 1)..n : k \in have}
    IN [through |-> box.through + Cardinality(run), ahead |-> have \ run]

-----------------------------------------------------------------------------
(* Sending on the session: Net::send_frame takes the session's next number *)
(* under the table's lock and writes after it.  Frames the transport       *)
(* refuses (WouldBlock, an IO error), or that another thread's frame - of  *)
(* this conversation, a ping or a ceremony - overtakes between the two,    *)
(* put the side's frames out of turn: from there to the end of the link    *)
(* none of them opens at the other end.  On a link that has gone without   *)
(* our noticing the transport takes the frame and loses it, or errs.       *)

Frame(kind, seq, no) == [kind |-> kind, seq |-> seq, no |-> no]
Unreadable == Frame("garbled", 0, 0)

Waiting(p) == {arriving[p][i] : i \in DOMAIN arriving[p]}
Faults == crashes + Cardinality({p \in Party : spoilt[p] # 0})
Live(p) == session[p] # 0 /\ session[p] = link
Spoil(p) ==
    /\ spoilt[p] = link \/ (Faults < MaxFaults /\ "turn" \in FaultKinds)
    /\ spoilt' = [spoilt EXCEPT ![p] = link]
Joins(p, frame) == arriving' = [arriving EXCEPT ![Peer(p)] = Append(@, frame)]

InTurn(p, frame) == Live(p) /\ spoilt[p] # link /\ Joins(p, frame) /\ UNCHANGED spoilt
OutOfTurn(p) ==
    /\ Live(p)
    /\ Spoil(p)
    /\ IF Unreadable \in Waiting(Peer(p)) THEN UNCHANGED arriving
                                         ELSE Joins(p, Unreadable)
Vanishes(p) == session[p] # 0 /\ ~Live(p) /\ UNCHANGED <<arriving, spoilt>>

Sends(p, frame) == InTurn(p, frame) \/ OutOfTurn(p) \/ Vanishes(p)

(* SendError::NoSession and SendError::Refused. *)
FailsToSend(p) ==
    /\ UNCHANGED arriving
    /\ IF Live(p) THEN Spoil(p) ELSE UNCHANGED spoilt

-----------------------------------------------------------------------------
(* The UI threads: send_chat_to_thread, which finds the peer's device      *)
(* first and then runs write_then_send.                                    *)

LookForDevice(p, t, seen) ==
    /\ ui[p][t].pc = "idle"
    /\ \E s \in Seqs(p) : row[p][s] = "none"
    /\ ui' = [ui EXCEPT ![p][t] = [UiIdle EXCEPT !.pc = "found", !.seen = seen]]
    /\ UNCHANGED <<store, pump, network>>

NextSeq(p) == Cardinality({s \in Seqs(p) : row[p][s] # "none"}) + 1

InState(p, state) == {s \in Seqs(p) : row[p][s] = state}

(* write_seal: the first seal of a message is the one it keeps. *)
WriteSeal(p, s, no) ==
    seal' = [seal EXCEPT ![p][s] = IF @ = 0 THEN no ELSE @]

(* commit_sent: the turn, the row and its seal, in one transaction.        *)
CommitSent(p, s, no) ==
    /\ IF no = 0 THEN UNCHANGED sealed ELSE KeepRatchet(p)
    /\ row' = [row EXCEPT ![p][s] = "Queued"]
    /\ WriteSeal(p, s, no)

(* write_then_send, under the lock.  With no chain yet the row is held     *)
(* without a seal.                                                         *)
WriteMessage(p, t) ==
    /\ ui[p][t].pc = "found"
    /\ NextSeq(p) \in Seqs(p)
    /\ Cardinality(InState(p, "Queued")) < MaxUnacked
    /\ LET s  == NextSeq(p)
           no == IF CanSend(p) THEN NextNumber(p) ELSE 0
       IN /\ CommitSent(p, s, no)
          /\ ui' = [ui EXCEPT ![p][t] =
                       IF no = 0 \/ ~@.seen THEN UiIdle
                       ELSE [@ EXCEPT !.pc = "send", !.seq = s, !.no = no]]
    /\ UNCHANGED <<spent, stored, inbox, pump, network>>

(* The early returns of write_then_send: nothing is written. *)
RefuseWrite(p, t) ==
    /\ ui[p][t].pc = "found"
    /\ \/ NextSeq(p) \notin Seqs(p)
       \/ Cardinality(InState(p, "Queued")) >= MaxUnacked
    /\ ui' = [ui EXCEPT ![p][t] = UiIdle]
    /\ UNCHANGED <<store, pump, network>>

SendWritten(p, t) ==
    /\ ui[p][t].pc = "send"
    /\ \/ /\ Sends(p, Frame("chat", ui[p][t].seq, ui[p][t].no))
          /\ ui' = [ui EXCEPT ![p][t].pc = "move"]
       \/ /\ FailsToSend(p)
          /\ ui' = [ui EXCEPT ![p][t] = UiIdle]
    /\ UNCHANGED <<store, pump, session, link, links, crashes>>

(* set_message_state: unconditional, and no longer Queued means no seal. *)
SetMessageState(p, s, state) ==
    /\ row' = [row EXCEPT ![p][s] = state]
    /\ seal' = [seal EXCEPT ![p][s] = IF state = "Queued" THEN @ ELSE 0]
    /\ UNCHANGED <<sealed, spent, stored, inbox>>

MoveWritten(p, t) ==
    /\ ui[p][t].pc = "move"
    /\ SetMessageState(p, ui[p][t].seq, "Sent")
    /\ ui' = [ui EXCEPT ![p][t] = UiIdle]
    /\ UNCHANGED <<pump, network>>

-----------------------------------------------------------------------------
(* The pump thread: Net::handle and on_net_event, one event at a time.     *)

Takes(p, kind) ==
    /\ pump[p].pc = "idle"
    /\ arriving[p] # <<>>
    /\ Head(arriving[p]).kind = kind
    /\ arriving' = [arriving EXCEPT ![p] = Tail(@)]

(* adopt opens the session; then SessionOpened is handled. *)
SessionOpened(p) ==
    /\ Takes(p, "opened")
    /\ session' = [session EXCEPT ![p] = Head(arriving[p]).no]
    /\ pump' = [pump EXCEPT ![p] = [PumpIdle EXCEPT !.pc = "list",
                                                   !.offers = TRUE]]
    /\ UNCHANGED <<store, ui, spoilt, link, links, crashes>>

SessionClosed(p) ==
    /\ Takes(p, "gone")
    /\ session' = [session EXCEPT ![p] =
                      IF @ = Head(arriving[p]).no THEN 0 ELSE @]
    /\ UNCHANGED <<store, ui, pump, spoilt, link, links, crashes>>

(* A frame that does not open: the table drops the session and the pipe    *)
(* stays; what comes later on it finds no session.                         *)
DropUnreadable(p) ==
    /\ Takes(p, "garbled")
    /\ session' = [session EXCEPT ![p] = 0]
    /\ UNCHANGED <<store, ui, pump, spoilt, link, links, crashes>>

(* A body opened before does not open again: a warning, and no answer. *)
DropReplayed(p) ==
    /\ \E kind \in {"chat", "ack", "opening"} : Takes(p, kind)
    /\ ~Opens(p, Head(arriving[p]).no)
    /\ UNCHANGED <<store, ui, pump, session, spoilt, link, links, crashes>>

Spend(p, no) == spent' = [spent EXCEPT ![p] = @ \cup {no}]

(* write_inbox: what the read would refuse is not written. *)
WriteInbox(p, box) ==
    /\ Cardinality(box.ahead) <= MaxAhead
    /\ inbox' = [inbox EXCEPT ![p] = box]

(* commit_received: the turn, the inbox and the row, in one transaction.   *)
CommitReceived(p, m) ==
    /\ Spend(p, m.no)
    /\ WriteInbox(p, Received(inbox[p], m.seq))
    /\ stored' = [stored EXCEPT ![p] = Append(@, m.seq)]

(* What a body that landed leaves the pump with: an answer to send. *)
Landed(seq, no) == [PumpIdle EXCEPT !.pc = "ack", !.seq = seq, !.no = no]

(* seal_ack: the turn it costs is on file before the bytes can leave.  Who *)
(* has just opened a body has a chain to seal it with.                     *)
SealAck(p, seq) ==
    /\ KeepRatchet(p)
    /\ pump' = [pump EXCEPT ![p] = Landed(seq, NextNumber(p))]

(* store_incoming_chat: all of it under one hold of the core lock. *)
StoreIncomingChat(p) ==
    LET m == Head(arriving[p]) IN
    /\ Takes(p, "chat")
    /\ Opens(p, m.no)
    /\ Accepted(p, m.seq)
    /\ CommitReceived(p, m)
    /\ SealAck(p, m.seq)
    /\ UNCHANGED <<row, seal, ui, session, spoilt, link, links, crashes>>

(* Mutant: what is not kept is acknowledged all the same. *)
AckWhatIsNotKept(p) ==
    LET m == Head(arriving[p]) IN
    /\ Takes(p, "chat")
    /\ Opens(p, m.no)
    /\ ~Accepted(p, m.seq)
    /\ Spend(p, m.no)
    /\ SealAck(p, m.seq)
    /\ UNCHANGED <<row, seal, stored, inbox, ui, session, spoilt, link, links, crashes>>

(* The message is not kept and the turn is; nothing is acknowledged. *)
KeepTurnOnly(p) ==
    LET m == Head(arriving[p]) IN
    /\ Takes(p, "chat")
    /\ Opens(p, m.no)
    /\ ~Accepted(p, m.seq)
    /\ Spend(p, m.no)
    /\ UNCHANGED <<row, seal, sealed, stored, inbox, ui, pump, session, spoilt, link,
                   links, crashes>>

SendAck(p) ==
    /\ pump[p].pc = "ack"
    /\ \/ Sends(p, Frame("ack", pump[p].seq, pump[p].no))
       \/ FailsToSend(p)
    /\ pump' = [pump EXCEPT ![p] = PumpIdle]
    /\ UNCHANGED <<store, ui, session, link, links, crashes>>

(* mark_delivered: the row is read under the lock, and moved outside it. *)
MarkDelivered(p) ==
    LET m == Head(arriving[p]) IN
    /\ Takes(p, "ack")
    /\ Opens(p, m.no)
    /\ Spend(p, m.no)
    /\ pump' = [pump EXCEPT ![p] =
                   IF row[p][m.seq] = "Sent"
                   THEN [PumpIdle EXCEPT !.pc = "promote", !.seq = m.seq]
                   ELSE PumpIdle]
    /\ UNCHANGED <<row, seal, sealed, stored, inbox, ui, session, spoilt, link, links,
                   crashes>>

Promote(p) ==
    /\ pump[p].pc = "promote"
    /\ SetMessageState(p, pump[p].seq, "Delivered")
    /\ pump' = [pump EXCEPT ![p] = PumpIdle]
    /\ UNCHANGED <<ui, network>>

(* Mutant: an opening is taken, and nothing is resent on the chain it gave. *)
OpeningWithoutResend(p) ==
    LET m == Head(arriving[p]) IN
    /\ Takes(p, "opening")
    /\ Opens(p, m.no)
    /\ Spend(p, m.no)
    /\ UNCHANGED <<row, seal, sealed, stored, inbox, ui, pump, session, spoilt, link,
                   links, crashes>>

(* take_an_opening, and then the same resend without the offer. *)
TakeAnOpening(p) ==
    LET m == Head(arriving[p]) IN
    /\ Takes(p, "opening")
    /\ Opens(p, m.no)
    /\ Spend(p, m.no)
    /\ pump' = [pump EXCEPT ![p] = [PumpIdle EXCEPT !.pc = "list"]]
    /\ UNCHANGED <<row, seal, sealed, stored, inbox, ui, session, spoilt, link, links,
                   crashes>>

(* resend_queued: the queued rows in seq order, no more than MaxUnacked. *)
Ascending(S) ==
    [i \in 1..Cardinality(S) |->
        CHOOSE s \in S : Cardinality({k \in S : k < s}) = i - 1]

Lowest(S, n) == {s \in S : Cardinality({k \in S : k < s}) < n}

AfterResend(p) == IF pump[p].offers THEN [PumpIdle EXCEPT !.pc = "offer"]
                                    ELSE PumpIdle

(* The next message to resend, or what follows when none is left. *)
Resending(p, todo) ==
    IF todo = <<>> THEN AfterResend(p)
    ELSE [pump[p] EXCEPT !.pc = "seal", !.todo = todo]

ListQueued(p) ==
    /\ pump[p].pc = "list"
    /\ pump' = [pump EXCEPT ![p] =
                   Resending(p, Ascending(Lowest(InState(p, "Queued"), MaxUnacked)))]
    /\ UNCHANGED <<store, ui, network>>

SealFor(p, s) == seal[p][s]

(* seal_queued: a late seal and the turn it cost, in one transaction. *)
SealQueued(p, s) == KeepRatchet(p) /\ WriteSeal(p, s, NextNumber(p))

(* The bytes kept for a message are those that go; without any, it is      *)
(* sealed now, or passed over while there is no chain.                     *)
SealForResend(p) ==
    LET s == Head(pump[p].todo) IN
    /\ pump[p].pc = "seal"
    /\ \/ /\ SealFor(p, s) # 0
          /\ pump' = [pump EXCEPT ![p].pc = "resend", ![p].no = SealFor(p, s)]
          /\ UNCHANGED <<seal, sealed>>
       \/ /\ SealFor(p, s) = 0 /\ CanSend(p)
          /\ SealQueued(p, s)
          /\ pump' = [pump EXCEPT ![p].pc = "resend", ![p].no = NextNumber(p)]
       \/ /\ SealFor(p, s) = 0 /\ ~CanSend(p)
          /\ pump' = [pump EXCEPT ![p] = Resending(p, Tail(@.todo))]
          /\ UNCHANGED <<seal, sealed>>
    /\ UNCHANGED <<row, spent, stored, inbox, ui, network>>

Resend(p) ==
    /\ pump[p].pc = "resend"
    /\ \/ /\ Sends(p, Frame("chat", Head(pump[p].todo), pump[p].no))
          /\ pump' = [pump EXCEPT ![p].pc = "moved"]
       \/ /\ FailsToSend(p)
          /\ pump' = [pump EXCEPT ![p] = AfterResend(p)]
    /\ UNCHANGED <<store, ui, session, link, links, crashes>>

MoveResent(p) ==
    /\ pump[p].pc = "moved"
    /\ SetMessageState(p, Head(pump[p].todo), "Sent")
    /\ pump' = [pump EXCEPT ![p] = Resending(p, Tail(@.todo))]
    /\ UNCHANGED <<ui, network>>

(* offer_an_opening: sealed and kept under the lock, sent outside it. *)
SealAnOpening(p) ==
    /\ pump[p].pc = "offer"
    /\ IF OwesAnOpening(p) THEN KeepRatchet(p) ELSE UNCHANGED sealed
    /\ pump' = [pump EXCEPT ![p] =
                   IF OwesAnOpening(p)
                   THEN [PumpIdle EXCEPT !.pc = "open", !.no = NextNumber(p)]
                   ELSE PumpIdle]
    /\ UNCHANGED <<row, seal, spent, stored, inbox, ui, network>>

SendAnOpening(p) ==
    /\ pump[p].pc = "open"
    /\ \/ Sends(p, Frame("opening", 0, pump[p].no))
       \/ FailsToSend(p)
    /\ pump' = [pump EXCEPT ![p] = PumpIdle]
    /\ UNCHANGED <<store, ui, session, link, links, crashes>>

-----------------------------------------------------------------------------
(* The link.  A handshake that completes opens a session at both ends; a   *)
(* link that breaks loses some suffix of what it carried and tells both.   *)

LinkUp ==
    /\ link = 0 /\ links < MaxLinks
    /\ link' = links + 1 /\ links' = links + 1
    /\ arriving' = [p \in Party |->
                       Append(arriving[p], Frame("opened", 0, links + 1))]
    /\ UNCHANGED <<store, ui, pump, session, spoilt, crashes>>

Cut(queue, kept) ==
    Append(SubSeq(queue, 1, kept), Frame("gone", 0, link))

Cuttable(queue) ==
    {n \in 0..Len(queue) :
        \A i \in (n + 1)..Len(queue) : queue[i].kind \notin {"opened", "gone"}}

LinkDown ==
    /\ link # 0 /\ links < MaxLinks
    /\ link' = 0
    /\ \E a \in Cuttable(arriving[0]), b \in Cuttable(arriving[1]) :
           arriving' = [p \in Party |-> Cut(arriving[p], IF p = 0 THEN a ELSE b)]
    /\ UNCHANGED <<store, ui, pump, session, spoilt, links, crashes>>

(* An engine killed between any two steps: the store is what is left. *)
Crash(p) ==
    /\ Faults < MaxFaults /\ "crash" \in FaultKinds /\ links < MaxLinks
    /\ crashes' = crashes + 1
    /\ ui' = [ui EXCEPT ![p] = [t \in UiThread |-> UiIdle]]
    /\ pump' = [pump EXCEPT ![p] = PumpIdle]
    /\ session' = [session EXCEPT ![p] = 0]
    /\ link' = 0
    /\ \E kept \in Cuttable(arriving[Peer(p)]) :
           arriving' = [q \in Party |->
               IF q = p THEN <<>>
               ELSE IF link = 0 THEN arriving[q] ELSE Cut(arriving[q], kept)]
    /\ UNCHANGED <<store, spoilt, links>>

-----------------------------------------------------------------------------
UiStep(p, t) ==
    \/ WriteMessage(p, t) \/ RefuseWrite(p, t)
    \/ SendWritten(p, t) \/ MoveWritten(p, t)

PumpStep(p) ==
    \/ SessionOpened(p) \/ SessionClosed(p) \/ DropUnreadable(p)
    \/ DropReplayed(p)
    \/ StoreIncomingChat(p) \/ KeepTurnOnly(p) \/ SendAck(p)
    \/ MarkDelivered(p) \/ Promote(p) \/ TakeAnOpening(p)
    \/ ListQueued(p) \/ SealForResend(p) \/ Resend(p) \/ MoveResent(p)
    \/ SealAnOpening(p) \/ SendAnOpening(p)

Next ==
    \/ \E p \in Party :
           \/ \E t \in UiThread, seen \in Sightings : LookForDevice(p, t, seen)
           \/ \E t \in UiThread : UiStep(p, t)
           \/ PumpStep(p)
           \/ Crash(p)
    \/ LinkUp \/ LinkDown

Spec == Init /\ [][Next]_vars

(* Threads run, and two phones that meet often enough connect.  Nobody is  *)
(* obliged to write, and nothing obliges a link to break.                  *)
Fairness ==
    /\ \A p \in Party : WF_vars(PumpStep(p))
    /\ \A p \in Party, t \in UiThread : WF_vars(UiStep(p, t))
    /\ WF_vars(LinkUp)

FairSpec == Spec /\ Fairness

-----------------------------------------------------------------------------
Rows(p) == {stored[p][i] : i \in DOMAIN stored[p]}

(* The inbox position says exactly which rows are on file, is drained, and *)
(* stays inside its window: a crash between the two writes would make a    *)
(* message vanish as a duplicate, or show it twice.                        *)
InboxMatchesRows ==
    \A p \in Party :
        LET box == inbox[p] IN
        /\ Rows(p) = (1..box.through) \cup box.ahead
        /\ \A s \in box.ahead :
               box.through + 1 < s /\ s <= box.through + MaxAhead

(* The sealed bodies an engine has produced and that are still somewhere:  *)
(* kept in the store, in a thread's hand, or on their way.                 *)
Bodies(p) ==
    LET hand == pump[p] IN
    {Frame("chat", s, seal[p][s]) : s \in {k \in Seqs(p) : seal[p][k] # 0}}
    \cup {Frame("chat", ui[p][t].seq, ui[p][t].no) :
             t \in {u \in UiThread : ui[p][u].pc = "send"}}
    \cup (CASE hand.pc = "resend" -> {Frame("chat", Head(hand.todo), hand.no)}
            [] hand.pc = "ack"    -> {Frame("ack", hand.seq, hand.no)}
            [] hand.pc = "open"   -> {Frame("opening", 0, hand.no)}
            [] OTHER            -> {})
    \cup {f \in {arriving[Peer(p)][i] : i \in DOMAIN arriving[Peer(p)]} :
             f.kind \in {"chat", "ack", "opening"}}

(* A ratchet number never seals two things, and none leaves the engine     *)
(* that the store has not already counted: "a counter that rewinds reuses  *)
(* a nonce".                                                               *)
NumbersUsedOnce ==
    \A p \in Party :
        /\ \A f, g \in Bodies(p) : f.no = g.no => f = g
        /\ \A f \in Bodies(p) : f.no \in 1..sealed[p]

(* An acknowledgement on its way is for a message on file: nothing dropped *)
(* as a duplicate or as too far ahead is ever acknowledged.                *)
AckMeansStored ==
    \A p \in Party : \A f \in Bodies(p) : f.kind = "ack" => f.seq \in Rows(p)

(* A message that is queued when the pump turns to the queue of an open    *)
(* session leaves it, the responder's whose chain has yet to open too: the *)
(* resend passes it over, the offer that follows opens the chain, and the  *)
(* opening resends it.  The session may end first, or either direction of  *)
(* it fall out of turn.                                                    *)
OpeningDrains ==
    \A p \in Party : \A s \in Seqs(p), l \in 1..MaxLinks :
        pump[p].pc = "list" /\ row[p][s] = "Queued" /\ session[p] = l
            ~> row[p][s] # "Queued" \/ session[p] # l \/ l \in {spoilt[p], spoilt[Peer(p)]}


-----------------------------------------------------------------------------
(* The conversation implements what ChatPromise promises: written are the  *)
(* rows of the sender, shown the rows of the receiver, confirmed the rows  *)
(* the sender's screen shows as delivered.                                 *)
Promise == INSTANCE ChatPromise WITH
    Window    <- MaxAhead,
    written   <- [p \in Party |-> Cardinality({s \in Seqs(p) : row[p][s] # "none"})],
    shown     <- stored,
    confirmed <- [p \in Party |-> InState(p, "Delivered")]

(* Every step of the two engines is a step of the promise or changes       *)
(* nothing a person sees: no crash, resend, reordering or late answer      *)
(* shows a message twice, unshows one, or confirms one not yet shown.      *)
KeepsPromise == Promise!Spec

-----------------------------------------------------------------------------
(* What the comments of the code say of the rows, and the code does not do *)
(* (README, Disagreements).                                              *)

(* engine/mod.rs:1474, a row written with nobody there stays Queued, "and  *)
(* resend_queued delivers it": a queued message leaves the queue.          *)
QueuedLeaves ==
    \A p \in Party : \A s \in Seqs(p) :
        row[p][s] = "Queued" ~> row[p][s] # "Queued"

(* engine/mod.rs:2755, "Only ever forwards. A row already Delivered stays  *)
(* there."                                                                 *)
DeliveredStays ==
    [][\A p \in Party : \A s \in Seqs(p) :
          row[p][s] = "Delivered" => row'[p][s] = "Delivered"]_vars

(* engine/mod.rs:2755, a row still Queued "is not promoted by an ack for   *)
(* bytes that have not left - which cannot happen".                        *)
AckFindsItsRowSent ==
    \A p \in Party :
        arriving[p] # <<>> /\ Head(arriving[p]).kind = "ack"
            /\ pump[p].pc = "idle"
            => row[p][Head(arriving[p]).seq] # "Queued"

(* store/schema.rs:145, "The row lives exactly as long as the message is   *)
(* Queued."                                                                *)
SealLivesWhileQueued ==
    \A p \in Party : \A s \in Seqs(p) :
        seal[p][s] # 0 => row[p][s] = "Queued"

(* session/chat.rs:71, MAX_UNACKED is "how many messages may be waiting on *)
(* an acknowledgement".                                                    *)
UnackedIsBounded ==
    \A p \in Party :
        Cardinality(InState(p, "Queued") \cup InState(p, "Sent")) <= MaxUnacked
=============================================================================
