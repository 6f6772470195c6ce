---------------------------- MODULE PairingCeremony ----------------------------
(***************************************************************************)
(* The ceremony that pairs two people (pairing/ceremony.rs, and its caller *)
(* in engine/net.rs): one shows a code, the other reads it, the phones run *)
(* a three-message handshake, both people confirm the colours, and only    *)
(* then do the lasting identities cross.                                   *)
(*                                                                         *)
(* On each phone the calls of the screen and the pump run at once.  Both   *)
(* change a ceremony under its lock and send what came of it after the     *)
(* lock is given up, so what is sealed in one order may leave in another.  *)
(* Sending is two steps again: a frame takes its number in the session     *)
(* under the table's lock and is written after it.  A frame out of turn    *)
(* ends the session at the reader, the pipe and the ceremony being kept.   *)
(***************************************************************************)
EXTENDS Integers, Sequences, FiniteSets

CONSTANTS
    Phone,            \* the phones
    Casts,            \* who is there to show a code and who to read one, and
                      \* a bound: cancels, deadlines, cuts, writes refused
    MaxCodes,         \* bound: codes each phone puts on its screen
    MaxCeremonies     \* bound: ceremonies each phone begins or answers

ASSUME CeremonyAssumption ==
    /\ Casts \subseteq [showers : SUBSET Phone, scanners : SUBSET Phone, aborts : Nat]
    /\ {MaxCodes, MaxCeremonies} \subseteq Nat

NoCeremony == [stage |-> "none"]
NoCode == <<>>
NoKey == <<>>
Stray == <<"stray">>      \* an ephemeral read off bytes that were never one
Thread == {"ui", "pump"}
Pair == Phone \X Phone
Ways(p, q) == {<<p, q>>, <<q, p>>}

VARIABLES
    cast,             \* the one of Casts this is
    showing,          \* the code on each screen
    codes, made,      \* how many codes and ceremonies each phone has made
    ceremony,         \* Net::ceremonies, of a phone and a peer
    waiting,          \* Net::pending_ceremony: messages until a session opens
    session,          \* who has a session with whom
    broken,           \* <<p, q>>: p has yet to hear that the pipe to q is gone
    replied,          \* <<p, q>>: p's reply to q's handshake is on its way
    wire,             \* the frames on their way from p to q
    turns,            \* p's threads with a frame for q in hand, sealed in this order
    spoilt,           \* <<p, q>>: a number of p's session was lost or came late
    task,             \* what a thread has yet to send, and the way it goes
    swept,            \* the peer whose queue the clock has yet to clear
    aborts,
    \* history, of a phone and a transcript
    tapped,           \* this person confirmed the colours
    proved,           \* this phone sealed its Layer-1 identity
    paired,           \* this phone wrote the pairing down
    refused,          \* this phone could not read a message, and gave up
    cancelled,        \* this person abandoned it
    marred            \* the pairs that lost a frame or a session, their pipe kept

history == <<tapped, proved, paired, refused, cancelled>>
screen == <<cast, showing, codes>>
link == <<session, broken, replied>>
line == <<wire, turns, spoilt, marred>>
vars == <<screen, made, ceremony, waiting, link, line, task, swept, aborts,
          history>>

Nobody == "nobody"
Idle == [to |-> Nobody, todo |-> <<>>, via |-> "none"]

Init ==
    /\ cast \in Casts
    /\ showing = [p \in Phone |-> NoCode]
    /\ codes = [p \in Phone |-> 0] /\ made = [p \in Phone |-> 0]
    /\ ceremony = [l \in Pair |-> NoCeremony]
    /\ waiting = [l \in Pair |-> <<>>] /\ wire = [l \in Pair |-> <<>>]
    /\ session = [l \in Pair |-> FALSE] /\ broken = {} /\ replied = {}
    /\ turns = [l \in Pair |-> <<>>] /\ spoilt = {} /\ marred = {}
    /\ task = [p \in Phone |-> [th \in Thread |-> Idle]]
    /\ swept = [p \in Phone |-> Nobody] /\ aborts = 0
    /\ tapped = {} /\ proved = {} /\ paired = {} /\ refused = {} /\ cancelled = {}

-----------------------------------------------------------------------------
(* A transcript is the code, the scanner's ephemeral and the shower's.     *)

Message(kind, t, n) == [kind |-> kind, t |-> t, n |-> n]

(* What the reader's session does not open. *)
Garbled == Message("garbled", <<NoCode, NoKey, NoKey>>, 0)

Opening(role, t) ==
    [stage |-> "opening", role |-> role, t |-> t]

(* finish_with. *)
Confirming(role, t) ==
    [stage |-> "confirming", role |-> role, t |-> t, we |-> FALSE,
     they |-> FALSE, proved |-> FALSE, out |-> 0, in |-> 0]

InFlight(p, q) == ceremony[<<p, q>>].stage # "none"

(* seal: the next frame of the ceremony's own channel. *)
Sealed(c, kind) == Message(kind, c.t, c.out)

(* open: a frame reads only if it is the very next one. *)
Reads(c, m, kind) == m.kind = kind /\ m.t = c.t /\ m.n = c.in

(* Mutant: our identity goes when the other person has confirmed. *)
OnTheirWord(c) == c.they /\ ~c.proved

MayProve(c) == c.we /\ c.they /\ ~c.proved

(* prove_if_ready: the ceremony, and what it adds to the frames to send. *)
ProveIfReady(c, frames) ==
    IF MayProve(c)
    THEN [c |-> [c EXCEPT !.proved = TRUE, !.out = @ + 1],
          frames |-> Append(frames, Sealed(c, "L1"))]
    ELSE [c |-> c, frames |-> frames]

(* confirm. *)
Confirm(c) ==
    ProveIfReady([c EXCEPT !.we = TRUE, !.out = @ + 1], <<Sealed(c, "Confirm")>>)

(* read_frame, of a confirmation. *)
PeerConfirmed(c) == ProveIfReady([c EXCEPT !.they = TRUE, !.in = @ + 1], <<>>)

Proved(p, c) == IF c.proved THEN {<<p, c.t>>} ELSE {}

-----------------------------------------------------------------------------
(* The screen: calls of the UI thread. *)

UiFree(p) == task[p]["ui"] = Idle
PumpFree(p) == task[p]["pump"] = Idle

SendsBy(p, th, q, frames, way) ==
    task' = [task EXCEPT ![p][th] =
                IF frames = <<>> THEN Idle
                ELSE [to |-> q, todo |-> frames, via |-> way]]

Sends(p, th, q, frames) == SendsBy(p, th, q, frames, "none")

(* forget_ceremony: both maps at once. *)
Forget(p, q) ==
    /\ ceremony' = [ceremony EXCEPT ![<<p, q>>] = NoCeremony]
    /\ waiting' = [waiting EXCEPT ![<<p, q>>] = <<>>]

PairingInvite(p) ==
    /\ UiFree(p) /\ p \in cast.showers /\ codes[p] < MaxCodes
    /\ codes' = [codes EXCEPT ![p] = @ + 1]
    /\ showing' = [showing EXCEPT ![p] = <<p, codes[p] + 1>>]
    /\ UNCHANGED <<cast, swept, made, ceremony, waiting, link, line, task, aborts, history>>

StopShowing(p) ==
    /\ UiFree(p) /\ showing[p] # NoCode
    /\ showing' = [showing EXCEPT ![p] = NoCode]
    /\ UNCHANGED <<cast, swept, codes, made, ceremony, waiting, link, line, task, aborts, history>>

Makes(p) == made[p] < MaxCeremonies /\ made' = [made EXCEPT ![p] = @ + 1]

NewKey(p) == <<p, made[p] + 1>>

(* begin_pairing with the code on q's screen: Ceremony::scan. *)
BeginPairing(p, q) ==
    LET t == <<showing[q], NewKey(p), NoKey>> IN
    /\ UiFree(p) /\ p \in cast.scanners \ {q} /\ showing[q] # NoCode
    /\ ~InFlight(p, q) /\ Makes(p)
    /\ ceremony' = [ceremony EXCEPT ![<<p, q>>] = Opening("scanner", t)]
    /\ Sends(p, "ui", q, <<Message("hello", t, 0)>>)
    /\ UNCHANGED <<swept, screen, waiting, link, line, aborts, history>>

MayTap(c) == c.stage = "confirming" /\ ~c.we

(* The colours are on the screen once the call that reached them returns.  *)
Shown(p, q) ==
    \A i \in DOMAIN task[p]["pump"].todo :
        task[p]["pump"].todo[i].t # ceremony[<<p, q>>].t

ConfirmPairing(p, q) ==
    LET after == Confirm(ceremony[<<p, q>>]) IN
    /\ UiFree(p) /\ MayTap(ceremony[<<p, q>>]) /\ Shown(p, q)
    /\ ceremony' = [ceremony EXCEPT ![<<p, q>>] = after.c]
    /\ Sends(p, "ui", q, after.frames)
    /\ tapped' = tapped \cup {<<p, after.c.t>>}
    /\ proved' = proved \cup Proved(p, after.c)
    /\ UNCHANGED <<swept, screen, made, waiting, link, line, aborts, paired, refused,
                   cancelled>>

Aborts == aborts < cast.aborts /\ aborts' = aborts + 1

CancelPairing(p, q) ==
    /\ UiFree(p) /\ InFlight(p, q) /\ Aborts
    /\ Forget(p, q)
    /\ cancelled' = cancelled \cup {<<p, ceremony[<<p, q>>].t>>}
    /\ UNCHANGED <<swept, screen, made, link, line, task, tapped, proved, paired, refused>>

-----------------------------------------------------------------------------
(* dispatch and send_ceremony, of either thread, the lock given up; and    *)
(* the pump's sending of what waited for a session, "flush".               *)

Works(p, th) == task[p][th].todo # <<>>
Way(p, th) == task[p][th].via
Link(p, th) == <<p, task[p][th].to>>

(* The rest of the frames, once the first is away. *)
Onward(p, th) ==
    SendsBy(p, th, task[p][th].to, Tail(task[p][th].todo),
            IF Way(p, th) \in {"flush", "flushed"} THEN "flush" ELSE "none")

(* is_open: which way the next frame goes. *)
ChooseWay(p, th) ==
    /\ Works(p, th) /\ Way(p, th) = "none"
    /\ task' = [task EXCEPT ![p][th].via =
                   IF session[Link(p, th)] THEN "session" ELSE "queue"]
    /\ UNCHANGED <<swept, screen, made, ceremony, waiting, link, line, aborts, history>>

(* seal, under the table's lock: the frame has its number. *)
SealFrame(p, th) ==
    /\ Works(p, th) /\ Way(p, th) \in {"session", "flush"} /\ session[Link(p, th)]
    /\ task' = [task EXCEPT ![p][th].via = IF @ = "session" THEN "sealed" ELSE "flushed"]
    /\ turns' = [turns EXCEPT ![Link(p, th)] = Append(@, th)]
    /\ UNCHANGED <<swept, screen, made, ceremony, waiting, link, wire, spoilt, marred,
                   aborts, history>>

Up(l) == Ways(l[1], l[2]) \cap broken = {}
IsSealed(p, th) == Works(p, th) /\ Way(p, th) \in {"sealed", "flushed"}

(* No number before this frame's is missing at the reader. *)
InTurn(l, th) == l \notin spoilt /\ turns[l] # <<>> /\ Head(turns[l]) = th

(* The frame leaves the thread's hand; a number lost or late spoils those  *)
(* after it, for as long as the session lasts.                             *)
Leaves(l, th, late) ==
    /\ spoilt' = IF late /\ th \in {turns[l][i] : i \in DOMAIN turns[l]}
                 THEN spoilt \cup {l} ELSE spoilt
    /\ turns' = [turns EXCEPT ![l] = SelectSeq(@, LAMBDA other : other # th)]

Mars(l) == marred' = marred \cup {{l[1], l[2]}}

(* The transport takes the frame.  Over a pipe already gone it is lost; of *)
(* a session that is closed, or out of turn, it is not what the reader     *)
(* waits for.                                                              *)
WriteFrame(p, th) ==
    LET l == Link(p, th) IN
    /\ IsSealed(p, th)
    /\ \/ /\ ~Up(l) /\ UNCHANGED <<wire, marred>> /\ Leaves(l, th, FALSE)
       \/ /\ Up(l) /\ InTurn(l, th) /\ Leaves(l, th, FALSE)
          /\ wire' = [wire EXCEPT ![l] = Append(@, Head(task[p][th].todo))]
          /\ IF session[l] THEN UNCHANGED marred ELSE Mars(l)
       \/ /\ Up(l) /\ ~InTurn(l, th) /\ Leaves(l, th, TRUE) /\ Mars(l)
          /\ wire' = [wire EXCEPT ![l] = Append(@, Garbled)]
    /\ Onward(p, th)
    /\ UNCHANGED <<swept, screen, made, ceremony, waiting, link, aborts, history>>

(* The transport refuses it: the pipe is gone, or full for now. *)
Refused(l, th) ==
    /\ UNCHANGED wire
    /\ \/ ~Up(l) /\ Leaves(l, th, FALSE) /\ UNCHANGED <<aborts, marred>>
       \/ Up(l) /\ Leaves(l, th, TRUE) /\ Mars(l) /\ Aborts

(* The session closed meanwhile, or the bytes were refused.  That ends the *)
(* ceremony, unless the frame had waited: then it is left out.             *)
SendFails(p, th) ==
    LET q == task[p][th].to IN
    /\ Works(p, th)
    /\ \/ /\ Way(p, th) \in {"session", "flush"} /\ ~session[<<p, q>>]
          /\ UNCHANGED <<line, aborts>>
       \/ IsSealed(p, th) /\ Refused(<<p, q>>, th)
    /\ \/ Way(p, th) \in {"session", "sealed"} /\ Forget(p, q) /\ Sends(p, th, q, <<>>)
       \/ /\ Way(p, th) \in {"flush", "flushed"}
          /\ Onward(p, th) /\ UNCHANGED <<ceremony, waiting>>
    /\ UNCHANGED <<swept, screen, made, link, history>>

(* No session: the message waits for one. *)
QueueFrame(p, th) ==
    LET q == task[p][th].to IN
    /\ Works(p, th) /\ Way(p, th) = "queue"
    /\ waiting' = [waiting EXCEPT ![<<p, q>>] = Append(@, Head(task[p][th].todo))]
    /\ Onward(p, th)
    /\ UNCHANGED <<swept, screen, made, ceremony, link, line, aborts, history>>

(* reach failed: the peer cannot be dialled at all. *)
ReachFails(p, th) ==
    LET q == task[p][th].to IN
    /\ Works(p, th) /\ Way(p, th) = "queue" /\ ~session[<<p, q>>] /\ Aborts
    /\ Forget(p, q)
    /\ Sends(p, th, q, <<>>)
    /\ UNCHANGED <<swept, screen, made, link, line, history>>

-----------------------------------------------------------------------------
(* on_ceremony_frame: the pump thread of p reads what q sent. *)

First(p, q) == Head(wire[<<q, p>>])
Takes(p, q) == wire' = [wire EXCEPT ![<<q, p>>] = Tail(@)]

Reaches(p, q) ==
    /\ p # q /\ PumpFree(p) /\ session[<<p, q>>]
    /\ wire[<<q, p>>] # <<>> /\ First(p, q) # Garbled

Arrives(p, q) ==
    /\ Reaches(p, q) /\ Takes(p, q)
    /\ UNCHANGED <<swept, screen, link, turns, spoilt, marred, aborts>>

(* Mutant: whoever scans the code is answered. *)
AnyoneMayAnswer(p) == showing[p] # NoCode

(* A code is on the screen, and no ceremony in flight is answering it. *)
CodeIsFree(p) ==
    /\ showing[p] # NoCode
    /\ \A q \in Phone : InFlight(p, q) => ceremony[<<p, q>>].role # "shower"

(* Ceremony::show, and message 1.  It is in the clear and has no tag:      *)
(* whatever is long enough, and a confirmation is not, reads as one.       *)
ReadHello(p, q) ==
    LET m == First(p, q)
        e == IF m.kind = "hello" THEN m.t[2] ELSE Stray
        t == <<showing[p], e, NewKey(p)>>
    IN /\ Arrives(p, q) /\ ~InFlight(p, q) /\ CodeIsFree(p)
       /\ m.kind # "Confirm" /\ Makes(p)
       /\ ceremony' = [ceremony EXCEPT ![<<p, q>>] = Opening("shower", t)]
       /\ Sends(p, "pump", q, <<Message("answer", t, 0)>>)
       /\ UNCHANGED <<waiting, history>>

(* No code to answer with, or one being answered: dropped without a word.  *)
(* A stray confirmation makes a ceremony that ends in the same call.       *)
Ignore(p, q) ==
    /\ Arrives(p, q) /\ ~InFlight(p, q)
    /\ ~CodeIsFree(p) \/ First(p, q).kind = "Confirm"
    /\ UNCHANGED <<made, ceremony, waiting, task, history>>

(* Message 2 opens only under our code and our ephemeral. *)
IsAnswer(c, m) ==
    /\ c.stage = "opening" /\ c.role = "scanner"
    /\ m.kind = "answer" /\ m.t[1] = c.t[1] /\ m.t[2] = c.t[2]

ReadAnswer(p, q) ==
    LET m == First(p, q) IN
    /\ Arrives(p, q) /\ IsAnswer(ceremony[<<p, q>>], m)
    /\ ceremony' = [ceremony EXCEPT ![<<p, q>>] = Confirming("scanner", m.t)]
    /\ Sends(p, "pump", q, <<Message("finish", m.t, 0)>>)
    /\ UNCHANGED <<made, waiting, history>>

IsFinish(c, m) ==
    /\ c.stage = "opening" /\ c.role = "shower"
    /\ m.kind = "finish" /\ m.t = c.t

ReadFinish(p, q) ==
    /\ Arrives(p, q) /\ IsFinish(ceremony[<<p, q>>], First(p, q))
    /\ ceremony' = [ceremony EXCEPT ![<<p, q>>] =
                       Confirming("shower", First(p, q).t)]
    /\ UNCHANGED <<made, waiting, task, history>>

IsConfirm(c, m) == c.stage = "confirming" /\ Reads(c, m, "Confirm") /\ ~c.they

ReadConfirm(p, q) ==
    LET after == PeerConfirmed(ceremony[<<p, q>>]) IN
    /\ Arrives(p, q) /\ IsConfirm(ceremony[<<p, q>>], First(p, q))
    /\ ceremony' = [ceremony EXCEPT ![<<p, q>>] = after.c]
    /\ Sends(p, "pump", q, after.frames)
    /\ proved' = proved \cup Proved(p, after.c)
    /\ UNCHANGED <<made, waiting, tapped, paired, refused, cancelled>>

(* Mutant: two confirmations complete it, and no proof is waited for. *)
IsL1OrConfirm(c, m) ==
    /\ c.stage = "confirming"
    /\ (Reads(c, m, "L1") /\ c.they) \/ Reads(c, m, "Confirm")
    /\ c.we

IsL1(c, m) == c.stage = "confirming" /\ Reads(c, m, "L1") /\ c.we /\ c.they

(* read_l1, the Paired step, and record_pairing, which the store may fail. *)
ReadL1(p, q) ==
    /\ Arrives(p, q) /\ IsL1(ceremony[<<p, q>>], First(p, q))
    /\ Forget(p, q)
    /\ paired' = paired \cup {<<p, ceremony[<<p, q>>].t>>}
    /\ UNCHANGED <<made, task, tapped, proved, refused, cancelled>>

CannotRecord(p, q) ==
    /\ Reaches(p, q) /\ IsL1(ceremony[<<p, q>>], First(p, q)) /\ Aborts
    /\ Takes(p, q) /\ Forget(p, q)
    /\ UNCHANGED <<swept, screen, made, link, turns, spoilt, marred, task, history>>

(* Anything else ends the ceremony; its queued messages are left. *)
Refuse(p, q) ==
    LET mine == ceremony[<<p, q>>]
        m == First(p, q)
    IN /\ Arrives(p, q) /\ InFlight(p, q)
       /\ ~IsAnswer(mine, m) /\ ~IsFinish(mine, m) /\ ~IsConfirm(mine, m) /\ ~IsL1(mine, m)
       /\ ceremony' = [ceremony EXCEPT ![<<p, q>>] = NoCeremony]
       /\ refused' = refused \cup {<<p, mine.t>>}
       /\ UNCHANGED <<made, waiting, task, tapped, proved, paired, cancelled>>

-----------------------------------------------------------------------------
(* The sessions, and the clock. *)

(* adopt opens the session, and the pump goes on to what waited for it. *)
Opens(p, q) ==
    /\ session' = [session EXCEPT ![<<p, q>>] = TRUE]
    /\ task' = [task EXCEPT ![p]["pump"] = [to |-> q, todo |-> <<>>, via |-> "opened"]]

(* on_handshake_offer, of a peer that has no session and whose frames of   *)
(* earlier ones are read: the reply leaves, and this end's session is      *)
(* open.  What the rung refuses, or finds a handshake gone, is no reply.   *)
Accept(p, q) ==
    /\ p # q /\ PumpFree(p) /\ Up(<<p, q>>)
    /\ \A l \in Ways(p, q) : ~session[l] /\ wire[l] = <<>> /\ l \notin replied
    /\ Opens(p, q)
    /\ turns' = [l \in Pair |-> IF l \in Ways(p, q) THEN <<>> ELSE turns[l]]
    /\ spoilt' = spoilt \ Ways(p, q)
    /\ \/ replied' = replied \cup {<<p, q>>} /\ UNCHANGED <<marred, aborts>>
       \/ Mars(<<p, q>>) /\ Aborts /\ UNCHANGED replied
    /\ UNCHANGED <<swept, screen, made, ceremony, waiting, broken, wire, history>>

(* finish, of the reply. *)
Finish(p, q) ==
    /\ p # q /\ PumpFree(p) /\ <<q, p>> \in replied
    /\ Opens(p, q)
    /\ replied' = replied \ {<<q, p>>}
    /\ UNCHANGED <<swept, screen, made, ceremony, waiting, broken, line, aborts, history>>

(* adopt: what waited is taken, whether or not its ceremony still stands. *)
TakeQueued(p) ==
    LET q == task[p]["pump"].to IN
    /\ Way(p, "pump") = "opened"
    /\ SendsBy(p, "pump", q, waiting[<<p, q>>], "flush")
    /\ waiting' = [waiting EXCEPT ![<<p, q>>] = <<>>]
    /\ UNCHANGED <<swept, screen, made, ceremony, link, line, aborts, history>>

(* open_frames: a frame that does not open is the end of the session; so   *)
(* is an offer of a peer that has none any more.  The table drops it, and  *)
(* neither the ceremony nor the pipe.                                      *)
Drop(p, q) ==
    /\ p # q /\ PumpFree(p) /\ session[<<p, q>>]
    /\ \/ wire[<<q, p>>] # <<>> /\ First(p, q) = Garbled /\ Takes(p, q)
       \/ /\ ~session[<<q, p>>] /\ Up(<<p, q>>) /\ <<p, q>> \notin replied
          /\ wire[<<q, p>>] = <<>> /\ UNCHANGED wire
    /\ session' = [session EXCEPT ![<<p, q>>] = FALSE]
    /\ Mars(<<p, q>>)
    /\ UNCHANGED <<swept, screen, made, ceremony, waiting, broken, replied, turns, spoilt,
                   task, aborts, history>>

(* Without a session the bytes are an offer that does not parse. *)
Unheard(p, q) ==
    /\ p # q /\ PumpFree(p) /\ ~session[<<p, q>>] /\ <<q, p>> \notin replied
    /\ wire[<<q, p>>] # <<>> /\ Takes(p, q) /\ Mars(<<p, q>>)
    /\ UNCHANGED <<swept, screen, made, ceremony, waiting, link, turns, spoilt, task,
                   aborts, history>>

(* The radio: the pipe is gone, and what was on it; each end hears later.  *)
(* Or another takes its place (lan.rs, adopt), and of the ends those that  *)
(* still had the old one hear nothing.                                     *)
Cut(p, q) ==
    /\ p # q /\ Up(<<p, q>>) /\ Aborts
    /\ \E told \in SUBSET Ways(p, q) :
        /\ broken' = broken \cup told
        /\ IF told = Ways(p, q) THEN UNCHANGED <<spoilt, marred>>
           ELSE /\ spoilt' = spoilt \cup {l \in Ways(p, q) : wire[l] # <<>>}
                /\ Mars(<<p, q>>)
    /\ wire' = [l \in Pair |-> IF l \in Ways(p, q) THEN <<>> ELSE wire[l]]
    /\ replied' = replied \ Ways(p, q)
    /\ UNCHANGED <<swept, screen, made, ceremony, waiting, session, turns, task, history>>

(* on_pipe_gone: the ceremony goes with the session. *)
PipeGone(p, q) ==
    /\ <<p, q>> \in broken /\ PumpFree(p)
    /\ broken' = broken \ {<<p, q>>} /\ replied' = replied
    /\ session' = [session EXCEPT ![<<p, q>>] = FALSE]
    /\ Forget(p, q)
    /\ UNCHANGED <<swept, screen, made, line, task, aborts, history>>

(* sweep_ceremonies, by the clock thread: a ceremony past its deadline     *)
(* goes under one hold of the map, and its queued messages after.  No      *)
(* thread takes the two minutes to send what it has in hand.               *)
Sweep(p, q) ==
    /\ swept[p] = Nobody /\ InFlight(p, q) /\ Aborts
    /\ \A th \in Thread : task[p][th].to # q
    /\ ceremony' = [ceremony EXCEPT ![<<p, q>>] = NoCeremony]
    /\ swept' = [swept EXCEPT ![p] = q]
    /\ UNCHANGED <<screen, made, waiting, link, line, task, history>>

SweepQueue(p) ==
    /\ swept[p] # Nobody
    /\ waiting' = [waiting EXCEPT ![<<p, swept[p]>>] = <<>>]
    /\ swept' = [swept EXCEPT ![p] = Nobody]
    /\ UNCHANGED <<screen, made, ceremony, link, line, task, aborts, history>>

(* The phones there are. *)
Around == cast.showers \cup cast.scanners

Next ==
    \/ \E p \in Around :
          PairingInvite(p) \/ StopShowing(p) \/ TakeQueued(p) \/ SweepQueue(p)
    \/ \E p, q \in Around :
          \/ BeginPairing(p, q) \/ ConfirmPairing(p, q) \/ CancelPairing(p, q)
          \/ ReadHello(p, q) \/ Ignore(p, q) \/ ReadAnswer(p, q)
          \/ ReadFinish(p, q) \/ ReadConfirm(p, q) \/ ReadL1(p, q)
          \/ CannotRecord(p, q) \/ Refuse(p, q)
          \/ Accept(p, q) \/ Finish(p, q) \/ Drop(p, q) \/ Unheard(p, q)
          \/ Cut(p, q) \/ PipeGone(p, q) \/ Sweep(p, q)
    \/ \E p \in Around, th \in Thread :
          \/ ChooseWay(p, th) \/ SealFrame(p, th) \/ WriteFrame(p, th)
          \/ SendFails(p, th) \/ QueueFrame(p, th) \/ ReachFails(p, th)

Spec == Init /\ [][Next]_vars

-----------------------------------------------------------------------------
Ends(t) == {t[2][1], t[3][1]}
Both(t) == {<<p, t>> : p \in Ends(t)}

(* No identity crosses without both confirmations (R0-F4): whoever sealed  *)
(* its Layer-1 key did so after both people tapped, in the ceremony whose  *)
(* colours they both saw.                                                  *)
NoIdentityWithoutBoth ==
    \A x \in proved : Both(x[2]) \subseteq tapped

(* A pairing written down is one the other phone proved and both people    *)
(* confirmed; and no order in which two threads and two phones send leaves *)
(* the other with a message it cannot read, for as long as no frame and no *)
(* session of the two is lost with the pipe kept.  That aside a person, a  *)
(* deadline, the pipe or a store that cannot write leaves one side paired  *)
(* alone.                                                                  *)
PairedTogether ==
    \A x \in paired :
        /\ Both(x[2]) \subseteq proved \cap tapped
        /\ Both(x[2]) \cap refused # {} => Ends(x[2]) \in marred

(* A code on screen is the token for one ceremony: however many phones     *)
(* scan it, one set of colours comes of it at a time.                      *)
OneAnswerAtATime ==
    \A p \in Phone :
        Cardinality({q \in Phone : InFlight(p, q)
                                   /\ ceremony[<<p, q>>].role = "shower"}) <= 1

-----------------------------------------------------------------------------
(* What the comments of the code say, and the code does not do (README,    *)
(* Disagreements).                                                       *)

(* pairing/ceremony.rs:45, "Layer-1 crosses last": an identity on the wire *)
(* has no confirmation of ours still behind it.                            *)
L1CrossesLast ==
    \A l \in Pair : \A i \in DOMAIN wire[l] : wire[l][i].kind = "L1" =>
        \A th \in Thread : \A k \in DOMAIN task[l[1]][th].todo :
            LET m == task[l[1]][th].todo[k]
            IN ~(m.kind = "Confirm" /\ m.t = wire[l][i].t)

(* engine/net.rs:640-642, on abandoning a ceremony: "their side ends the   *)
(* same way": what one person cancelled, the other does not end up paired  *)
(* by.                                                                     *)
CancelledByBoth ==
    \A x \in cancelled : \A y \in paired : x[2] # y[2]

(* engine/net.rs:650-654: no session opening flushes "bytes for a ceremony *)
(* this side no longer had".                                               *)
FlushedHasCeremony ==
    [][\A p, q \in Phone :
          TakeQueued(p) /\ task[p]["pump"].to = q /\ waiting[<<p, q>>] # <<>>
              => InFlight(p, q)]_vars
=============================================================================
