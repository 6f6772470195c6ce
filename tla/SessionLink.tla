---------------------------- MODULE SessionLink ----------------------------
(***************************************************************************)
(* How two phones that have found each other come to talk (engine/net.rs,  *)
(* session/table.rs, session/handshake.rs, session/frame.rs and            *)
(* engine/pipe.rs) over Discovery and the loopback rung: asking for a      *)
(* persona, the two-message handshake the smaller id starts, the table of  *)
(* sessions, sealed frames, and the Pings and ceremony messages that wait  *)
(* for a session.                                                          *)
(* The pump handles one event of the rung at a time.  The user's calls are *)
(* not serialised against it: on either side a check of the table, the     *)
(* seal, the write and the dial are steps of their own, as the locks of    *)
(* net.rs leave them, and what the pump has yet to do for the event it     *)
(* took is a list of such steps.                                           *)
(* A rung over the air does what the loopback never does: it refuses a     *)
(* write, and over LAN it puts one connection in the place of another      *)
(* without a word.  Both are events of the environment.                    *)
(* Keys are abstracted to a handshake number and nonces to how many frames *)
(* a session has sealed and opened.  The block gates are Blocking's, and   *)
(* what a ceremony message does is PairingCeremony's.                      *)
(***************************************************************************)
EXTENDS Discovery

LOCAL INSTANCE SequencesExt

CONSTANT Plans      \* how the phones start, and what the environment may do

VARIABLES
    known,      \* the ids a persona is kept for, so a handshake can be started
    pending,    \* for each id, the handshake started and not answered, or 0
    session,    \* for each id, the open session or NoSession
    ping,       \* for each id, the pending ping: none, waiting or late
    queued,     \* for each id, the ceremony messages that wait for a session
    shakes,     \* how many handshakes have been started
    taps, told, \* the pings asked for, and the verdicts given on them
    todo,       \* what the pump has yet to do for the event it took
    marred      \* whether bytes were lost on an open pipe, or left out of turn

linkVars == <<known, pending, session, ping, queued, shakes, taps, told, todo, marred>>
vars == <<rungVars, discoveryVars, linkVars>>

NoSession == [hs |-> 0, sent |-> 0, got |-> 0, junk |-> FALSE]
IsOpen(p, i) == session[p][i].hs # 0

Request    == [NoBytes EXCEPT !.what = "request"]
Persona    == [NoBytes EXCEPT !.what = "persona"]
Offer(h)   == [NoBytes EXCEPT !.what = "offer", !.hs = h]
Reply(h)   == [NoBytes EXCEPT !.what = "reply", !.hs = h]
Frame(s, n, kind) == [what |-> "frame", hs |-> s.hs, n |-> n, kind |-> kind]

Event1(p) == Head(queue[p])
Handling(p, what) == queue[p] # <<>> /\ Event1(p).what = what
Hearing(p, what)  == Handling(p, "received") /\ Event1(p).bytes.what = what

(* A frame that was sealed later leaves before one in hand: its number is   *)
(* not the one the other end opens next.                                    *)
InHand(p) ==
    {task[p][t].bytes : t \in {u \in Threads : At(p, u, "write")}}
        \union {todo[p][k].bytes : k \in DOMAIN todo[p]}
Overtakes(p, frame) ==
    \E other \in InHand(p) : other.hs = frame.hs /\ 0 < other.n /\ other.n < frame.n

(* The rung has no room for it: the bytes are gone and the pipe stays.      *)
Refused == Spend("refusals") /\ marred' = TRUE

steady == <<on, localId, air, seen, epoch, task>>

(* The pump has taken an event, and written at most one message to that     *)
(* peer, that may be refused; what else there is to do are its jobs.        *)
Job(what, i, n, bytes) == [do |-> what, peer |-> i, n |-> n, bytes |-> bytes]

Handled(p, messages, jobs) ==
    /\ \/ Deliver(p, Sends(p, Event1(p).peer, messages)) /\ UNCHANGED <<left, marred>>
       \/ messages # <<>> /\ Deliver(p, Nobody) /\ Refused
    /\ todo' = [todo EXCEPT ![p] = jobs]
    /\ UNCHANGED <<id, adv, scanning, pipes>>

-----------------------------------------------------------------------------
(* on_pipe_opened: only the smaller id speaks first, and not over a         *)
(* handshake or a session it already has.                                   *)
WeInitiate(p, i) == localId[p] < i

(* Mutant: a second event of the pipe starts another handshake. *)
StartAgain(p, i) == ~IsOpen(p, i)

MayStart(p, i) == ~IsOpen(p, i) /\ pending[p][i] = 0

(* start_handshake: message one goes out under a fresh handshake.           *)
StartHandshake(p, i) ==
    IF MayStart(p, i)
    THEN /\ shakes' = shakes + 1
         /\ pending' = [pending EXCEPT ![p][i] = shakes + 1]
         /\ Handled(p, <<Offer(shakes + 1)>>, <<>>)
    ELSE Handled(p, <<>>, <<>>) /\ UNCHANGED <<shakes, pending>>

PipeOpens(p) ==
    /\ Handling(p, "opened")
    /\ LET i == Event1(p).peer
       IN  IF ~MayStart(p, i) \/ ~WeInitiate(p, i)
           THEN Handled(p, <<>>, <<>>) /\ UNCHANGED <<shakes, pending>>
           ELSE IF i \in known[p]
           THEN StartHandshake(p, i)
           ELSE Handled(p, <<Request>>, <<>>) /\ UNCHANGED <<shakes, pending>>
    /\ UNCHANGED <<steady, named, hits, known, session, ping, queued, taps, told>>

(* on_pipe_gone, for a pipe that closed and for one that never opened.      *)
PipeGone(p) ==
    /\ Handling(p, "closed") \/ Handling(p, "failed")
    /\ LET i == Event1(p).peer
       IN  /\ pending' = [pending EXCEPT ![p][i] = 0]
           /\ ping' = [ping EXCEPT ![p][i] = "none"]
           /\ told' = IF ping[p][i] = "none" THEN told ELSE [told EXCEPT ![p] = @ + 1]
           /\ queued' = [queued EXCEPT ![p][i] = 0]
           /\ session' = [session EXCEPT ![p][i] = NoSession]
    /\ Handled(p, <<>>, <<>>)
    /\ UNCHANGED <<steady, named, hits, known, shakes, taps>>

(* on_discovery                                                             *)
HearRequest(p) ==
    /\ Hearing(p, "request")
    /\ CountRequest(p, Event1(p).peer)
    /\ Handled(p, IF Answers(p, Event1(p).peer) THEN <<Persona>> ELSE <<>>, <<>>)
    /\ UNCHANGED <<steady, named, known, pending, session, ping, queued, shakes, taps, told>>

LearnPersona(p, i) ==
    /\ known' = [known EXCEPT ![p] = @ \union {i}]
    /\ named' = [named EXCEPT ![p] = @ \union {i}]

HearPersona(p) ==
    /\ Hearing(p, "persona")
    /\ LearnPersona(p, Event1(p).peer)
    /\ StartHandshake(p, Event1(p).peer)
    /\ UNCHANGED <<steady, hits, session, ping, queued, taps, told>>

-----------------------------------------------------------------------------
(* SessionTable::open: the session replaces any other. *)
OpenSession(p, i, s) == session' = [session EXCEPT ![p][i] = s]

(* adopt: the session goes on the table, then a Ping that waits goes out    *)
(* if its deadline had not passed when the event came, and then the         *)
(* ceremony messages, one by one.                                           *)
Adopting(p, i, h) ==
    <<Job("open", i, h, NoBytes),
      Job("ping", i, IF ping[p][i] = "late" THEN 1 ELSE 0, NoBytes),
      Job("flush", i, 0, NoBytes)>>
ToSeal(i, kind) == Job("seal", i, 0, [NoBytes EXCEPT !.kind = kind])

SessionBytes(p) ==
    \/ Hearing(p, "offer") \/ Hearing(p, "reply") \/ Hearing(p, "frame")

(* Mutant: a reply is a reply. *)
AnyReply(p, i, b) == b.what = "reply"

IsReply(p, i, b) == b = Reply(pending[p][i])

(* A handshake is pending: whatever arrives is taken for its reply, and     *)
(* what is not its reply ends it.                                           *)
FinishHandshake(p) ==
    LET i == Event1(p).peer
        came == Event1(p).bytes
    IN  /\ SessionBytes(p) /\ ~IsOpen(p, i) /\ pending[p][i] # 0
        /\ pending' = [pending EXCEPT ![p][i] = 0]
        /\ IF IsReply(p, i, came)
           THEN LearnPersona(p, i) /\ Handled(p, <<>>, Adopting(p, i, pending[p][i]))
           ELSE Handled(p, <<>>, <<>>) /\ UNCHANGED <<known, named>>
        /\ UNCHANGED <<steady, hits, session, ping, queued, shakes, taps, told>>

(* Responder::read_first. *)
IsOffer(b) == b.what = "offer"

(* Nothing is pending: what arrives is read as an offer, or refused.        *)
AnswerHandshake(p) ==
    LET i == Event1(p).peer
        came == Event1(p).bytes
    IN  /\ SessionBytes(p) /\ MayStart(p, i)
        /\ IF IsOffer(came)
           THEN LearnPersona(p, i) /\ Handled(p, <<Reply(came.hs)>>, Adopting(p, i, came.hs))
           ELSE Handled(p, <<>>, <<>>) /\ UNCHANGED <<known, named>>
        /\ UNCHANGED <<steady, hits, pending, session, ping, queued, shakes, taps, told>>

(* open_frames.  A frame opens in its turn and under its own keys.  Anything *)
(* else finishes the session, at once or, when its first bytes are read as  *)
(* the length of something longer, at the latest when that is complete.     *)
InTurn(s, b) == b.what = "frame" /\ b.hs = s.hs /\ b.n = s.got + 1 /\ ~s.junk

Spoilt(p, i) ==
    \/ session' = [session EXCEPT ![p][i] = NoSession]
    \/ /\ Event1(p).bytes.what # "frame" \/ session[p][i].junk
       /\ session' = [session EXCEPT ![p][i].junk = TRUE]

(* Mutant: the acknowledged ping is left pending. *)
PongTwice(p, i) == told' = [told EXCEPT ![p] = @ + 1] /\ UNCHANGED ping

Settle(p, i) ==
    /\ ping' = [ping EXCEPT ![p][i] = "none"]
    /\ told' = [told EXCEPT ![p] = @ + 1]

(* on_session_bytes: a Ping is to be answered, and a Pong is believed only  *)
(* for a ping that is still within its deadline.                            *)
OpenFrame(p) ==
    LET i == Event1(p).peer
        came == Event1(p).bytes
        s == session[p][i]
    IN  /\ SessionBytes(p) /\ IsOpen(p, i)
        /\ IF InTurn(s, came)
           THEN session' = [session EXCEPT ![p][i].got = came.n]
           ELSE Spoilt(p, i)
        /\ IF InTurn(s, came) /\ came.kind = "pong" /\ ping[p][i] = "waiting"
           THEN Settle(p, i)
           ELSE UNCHANGED <<ping, told>>
        /\ Handled(p, <<>>, IF InTurn(s, came) /\ came.kind = "ping"
                            THEN <<ToSeal(i, "pong")>> ELSE <<>>)
        /\ UNCHANGED <<steady, named, hits, known, pending, queued, shakes, taps>>

(* The pump's next job.                                                     *)
Doing(p, what) == todo[p] # <<>> /\ Head(todo[p]).do = what
Did(p, more) == todo' = [todo EXCEPT ![p] = more \o Tail(@)]

PutOnTable(p) ==
    /\ Doing(p, "open")
    /\ OpenSession(p, Head(todo[p]).peer, [NoSession EXCEPT !.hs = Head(todo[p]).n])
    /\ Did(p, <<>>)
    /\ UNCHANGED <<rungVars, discoveryVars, known, pending, ping, queued, shakes, taps, told, marred>>

StillWanted(p, i, wasLate) == ping[p][i] = "waiting" \/ (ping[p][i] = "late" /\ ~wasLate)

TakePing(p) ==
    /\ Doing(p, "ping")
    /\ LET i == Head(todo[p]).peer
       IN  Did(p, IF StillWanted(p, i, Head(todo[p]).n = 1) THEN <<ToSeal(i, "ping")>> ELSE <<>>)
    /\ UNCHANGED <<rungVars, discoveryVars, known, pending, session, ping, queued, shakes,
                   taps, told, marred>>

TakeQueued(p) ==
    /\ Doing(p, "flush")
    /\ LET i == Head(todo[p]).peer
       IN  /\ Did(p, [k \in 1..queued[p][i] |-> ToSeal(i, "ceremony")])
           /\ queued' = [queued EXCEPT ![p][i] = 0]
    /\ UNCHANGED <<rungVars, discoveryVars, known, pending, session, ping, shakes, taps, told, marred>>

(* send_frame, on the pump's side: without a session nothing is sent.       *)
PumpSeals(p) ==
    /\ Doing(p, "seal")
    /\ LET i == Head(todo[p]).peer
           s == session[p][i]
       IN  IF IsOpen(p, i)
           THEN /\ session' = [session EXCEPT ![p][i].sent = @ + 1]
                /\ Did(p, <<Job("write", i, 0, Frame(s, s.sent + 1, Head(todo[p]).bytes.kind))>>)
           ELSE UNCHANGED session /\ Did(p, <<>>)
    /\ UNCHANGED <<rungVars, discoveryVars, known, pending, ping, queued, shakes, taps, told, marred>>

(* The sealed bytes are handed to the rung after the table's lock is        *)
(* released, by whichever thread sealed them.                               *)
HandOver(p, i, frame) ==
    /\ \/ /\ Post(Sends(p, i, <<frame>>))
          /\ marred' = (marred \/ Overtakes(p, frame))
          /\ UNCHANGED left
       \/ Refused /\ UNCHANGED queue
    /\ UNCHANGED <<id, adv, scanning, pipes>>

PumpWrites(p) ==
    /\ Doing(p, "write")
    /\ HandOver(p, Head(todo[p]).peer, Head(todo[p]).bytes)
    /\ Did(p, <<>>)
    /\ UNCHANGED <<steady, named, hits, known, pending, session, ping, queued, shakes, taps, told>>

-----------------------------------------------------------------------------
(* The user's calls.  task[p]["user"] holds where the call is, with whom,   *)
(* and in bytes.kind what it wants to send.                                 *)
UserGoes(p, step) ==
    /\ Goto(p, "user", step)
    /\ UNCHANGED <<on, localId, air, seen, named, hits, epoch, left>>
UserIsDone(p) ==
    /\ Finish(p, "user")
    /\ UNCHANGED <<on, localId, air, seen, named, hits, epoch>>
To1(p) == task[p]["user"].peer
Kind1(p) == task[p]["user"].bytes.kind

Begin(p, i, kind, step) ==
    /\ Free(p, "user")
    /\ seen[p][i] # Off
    /\ task' = [task EXCEPT ![p]["user"] =
          [Idle EXCEPT !.at = step, !.peer = i, !.bytes.kind = kind]]
    /\ UNCHANGED <<rungVars, on, localId, air, seen, named, hits, epoch>>

(* ping: the deadline is written down before anything is sent, and while    *)
(* discovery is off there is no one to ping.                                *)
Ping(p, i) ==
    /\ on[p] /\ Spend("pings") /\ Begin(p, i, "ping", "check")
    /\ ping' = [ping EXCEPT ![p][i] = "waiting"]
    /\ taps' = [taps EXCEPT ![p] = @ + 1]
    /\ UNCHANGED <<known, pending, session, queued, shakes, told, todo, marred>>

(* send_chat, send_opening and send_ack; send_ceremony; reach on its own.   *)
Chat(p, i)    == Spend("chats") /\ Begin(p, i, "chat", "check") /\ UNCHANGED linkVars
Pair(p, i)    == Spend("pairs") /\ Begin(p, i, "ceremony", "check") /\ UNCHANGED linkVars
Dial(p, i)    == Spend("dials") /\ Begin(p, i, "none", "reach") /\ UNCHANGED linkVars

(* Is there a session?  Without one a Ping waits behind a dial, a ceremony  *)
(* message is queued first, and a chat frame is the caller's to keep.       *)
Check(p) ==
    /\ At(p, "user", "check")
    /\ \/ IsOpen(p, To1(p)) /\ UserGoes(p, "seal")
       \/ ~IsOpen(p, To1(p)) /\ Kind1(p) = "ping" /\ UserGoes(p, "reach")
       \/ ~IsOpen(p, To1(p)) /\ Kind1(p) = "ceremony" /\ UserGoes(p, "queue")
       \/ ~IsOpen(p, To1(p)) /\ Kind1(p) = "chat" /\ UserIsDone(p) /\ UNCHANGED left
    /\ UNCHANGED <<rungVars, linkVars>>

(* send_frame takes the next nonce under the table's lock.  A session gone  *)
(* by then is a refusal, or for a Ping a reason to reach after all.         *)
Seal(p) ==
    /\ At(p, "user", "seal")
    /\ \/ LET s == session[p][To1(p)] IN
          /\ IsOpen(p, To1(p))
          /\ session' = [session EXCEPT ![p][To1(p)].sent = @ + 1]
          /\ task' = [task EXCEPT ![p]["user"].at = "write",
                                  ![p]["user"].bytes = Frame(s, s.sent + 1, @.kind)]
          /\ UNCHANGED <<on, localId, air, seen, named, hits, epoch, left>>
       \/ ~IsOpen(p, To1(p)) /\ UserIsDone(p) /\ UNCHANGED <<session, left>>
       \/ ~IsOpen(p, To1(p)) /\ Kind1(p) = "ping" /\ UserGoes(p, "reach") /\ UNCHANGED session
    /\ UNCHANGED <<rungVars, known, pending, ping, queued, shakes, taps, told, todo, marred>>

Write(p) ==
    /\ At(p, "user", "write")
    /\ HandOver(p, To1(p), task[p]["user"].bytes)
    /\ UserIsDone(p)
    /\ UNCHANGED <<known, pending, session, ping, queued, shakes, taps, told, todo>>

Queue(p) ==
    /\ At(p, "user", "queue")
    /\ queued' = [queued EXCEPT ![p][To1(p)] = @ + 1]
    /\ UserGoes(p, "reach")
    /\ UNCHANGED <<rungVars, known, pending, session, ping, shakes, taps, told, todo, marred>>

Reach(p) ==
    /\ At(p, "user", "reach")
    /\ IF IsOpen(p, To1(p)) THEN UNCHANGED rungVars ELSE Connect(p, To1(p))
    /\ UserIsDone(p)
    /\ UNCHANGED <<left, linkVars>>

-----------------------------------------------------------------------------
(* A ping's deadline passes, and the watcher its tap left reports it.       *)
DeadlinePasses(p, i) ==
    /\ ping[p][i] = "waiting"
    /\ ping' = [ping EXCEPT ![p][i] = "late"]
    /\ UNCHANGED <<rungVars, discoveryVars, known, pending, session, queued, shakes, taps, told,
                   todo, marred>>

Watch(p, i) ==
    /\ ping[p][i] = "late"
    /\ Settle(p, i)
    /\ UNCHANGED <<rungVars, discoveryVars, known, pending, session, queued, shakes, taps,
                   todo, marred>>

(* sweep_sessions, before discovery's tick: idle sessions are dropped and   *)
(* their pipes hung up, so that a rotation is possible.                     *)
Sweep(p, i) ==
    /\ Free(p, "clock") /\ IsOpen(p, i) /\ Spend("idles")
    /\ session' = [session EXCEPT ![p][i] = NoSession]
    /\ task' = [task EXCEPT ![p]["clock"].at = "hang up", ![p]["clock"].peer = i]
    /\ UNCHANGED <<rungVars, on, localId, air, seen, named, hits, epoch,
                   known, pending, ping, queued, shakes, taps, told, todo, marred>>

HangUp(p) ==
    /\ At(p, "clock", "hang up")
    /\ Disconnect(p, task[p]["clock"].peer)
    /\ task' = [task EXCEPT ![p]["clock"] = [Idle EXCEPT !.at = "swept"]]
    /\ UNCHANGED <<on, localId, air, seen, named, hits, epoch, left, linkVars>>

(* The environment severs a pipe, or a phone's core is shut down and        *)
(* started again as init leaves it: off, empty, under a fresh id.           *)
Sever(p, i) ==
    /\ i \in pipes[p] /\ Spend("severs")
    /\ Disconnect(p, i)
    /\ UNCHANGED <<on, localId, air, seen, named, hits, epoch, task, linkVars>>

(* Over LAN a connection that crossed another takes its place: both ends    *)
(* hear of a pipe opened and of none closed, and what was still on its way  *)
(* over the old one, the last of what each end sent, is lost.               *)
Unread(p, i) == {k \in DOMAIN queue[p] : queue[p][k].what = "received" /\ queue[p][k].peer = i}
Keeping(s, ks) ==
    LET order == SetToSortSeq(ks, <) IN [k \in DOMAIN order |-> s[order[k]]]

Replace(p, i) ==
    /\ i \in pipes[p] /\ Spend("replaced")
    /\ LET ends == {p, Node(i)}
           from == [q \in ends |-> IF q = p THEN i ELSE id[p]]
       IN  \E kept \in [ends -> 0..Cardinality(Unread(p, i) \union Unread(Node(i), id[p]))] :
              LET lost == [q \in ends |->
                    {k \in Unread(q, from[q]) :
                        kept[q] < Cardinality({j \in Unread(q, from[q]) : j <= k})}]
              IN  /\ queue' = [q \in Phone |->
                        IF q \in ends
                        THEN Append(Keeping(queue[q], DOMAIN queue[q] \ lost[q]), Opened(from[q]))
                        ELSE queue[q]]
                  /\ marred' = (marred \/ \E q \in ends : lost[q] # {})
    /\ UNCHANGED <<id, adv, scanning, pipes, steady, named, hits,
                   known, pending, session, ping, queued, shakes, taps, told, todo>>

None == [i \in Id |-> 0]
Restart(p) ==
    /\ Spend("restarts")
    /\ \E fresh \in Fresh :
          /\ ShutdownAndRejoin(p, fresh)
          /\ localId' = [localId EXCEPT ![p] = fresh]
    /\ on' = [on EXCEPT ![p] = FALSE]
    /\ air' = [air EXCEPT ![p] = Off]
    /\ seen' = [seen EXCEPT ![p] = [i \in Id |-> Off]]
    /\ named' = [named EXCEPT ![p] = {}]
    /\ hits' = [hits EXCEPT ![p] = None]
    /\ task' = [task EXCEPT ![p] = [t \in Threads |-> Idle]]
    /\ known' = [known EXCEPT ![p] = {}]
    /\ pending' = [pending EXCEPT ![p] = None]
    /\ session' = [session EXCEPT ![p] = [i \in Id |-> NoSession]]
    /\ ping' = [ping EXCEPT ![p] = [i \in Id |-> "none"]]
    /\ queued' = [queued EXCEPT ![p] = None]
    /\ taps' = [taps EXCEPT ![p] = 0]
    /\ told' = [told EXCEPT ![p] = 0]
    /\ todo' = [todo EXCEPT ![p] = <<>>]
    /\ UNCHANGED <<epoch, shakes, marred>>

-----------------------------------------------------------------------------
(* Both phones start off and unseen, as Net::new leaves them; or with       *)
(* discovery on at both and each sighted by the other.                      *)
Sighted(p) == [i \in Id |-> IF \E q \in Phone \ {p} : id[q] = i THEN Hint(i, 0) ELSE Off]

Init ==
    /\ \E plan \in Plans :
          /\ left = plan.left
          /\ id = plan.id
          /\ on = [p \in Phone |-> plan.on]
          /\ adv = [p \in Phone |-> IF plan.on THEN Hint(id[p], 0) ELSE Off]
          /\ seen = [p \in Phone |-> IF plan.on THEN Sighted(p) ELSE [i \in Id |-> Off]]
    /\ scanning = on
    /\ air = adv
    /\ localId = id
    /\ pipes = [p \in Phone |-> {}]
    /\ queue = [p \in Phone |-> <<>>]
    /\ named = [p \in Phone |-> {}]
    /\ hits = [p \in Phone |-> None]
    /\ epoch = 0
    /\ task = [p \in Phone |-> [t \in Threads |-> Idle]]
    /\ known = [p \in Phone |-> {}]
    /\ pending = [p \in Phone |-> None]
    /\ session = [p \in Phone |-> [i \in Id |-> NoSession]]
    /\ ping = [p \in Phone |-> [i \in Id |-> "none"]]
    /\ queued = [p \in Phone |-> None]
    /\ shakes = 0
    /\ taps = [p \in Phone |-> 0]
    /\ told = [p \in Phone |-> 0]
    /\ todo = [p \in Phone |-> <<>>]
    /\ marred = FALSE

TakeEvent(p) ==
    \/ (Sight(p) \/ Lose(p)) /\ UNCHANGED linkVars
    \/ PipeOpens(p) \/ PipeGone(p)
    \/ HearRequest(p) \/ HearPersona(p)
    \/ FinishHandshake(p) \/ AnswerHandshake(p) \/ OpenFrame(p)

Pump(p) ==
    \/ todo[p] = <<>> /\ TakeEvent(p)
    \/ PutOnTable(p) \/ TakePing(p) \/ TakeQueued(p) \/ PumpSeals(p) \/ PumpWrites(p)

UserStep(p) ==
    \/ SwitchStep(p) /\ UNCHANGED linkVars
    \/ Check(p) \/ Seal(p) \/ Write(p) \/ Queue(p) \/ Reach(p)

ClockStep(p) ==
    \/ TickStep(p) /\ UNCHANGED linkVars
    \/ HangUp(p)

Call(p) ==
    \/ (SwitchOn(p) \/ SwitchOff(p)) /\ UNCHANGED linkVars
    \/ \E i \in Id : Ping(p, i) \/ Chat(p, i) \/ Pair(p, i) \/ Dial(p, i)

Time(p) ==
    \/ Tick(p) /\ UNCHANGED linkVars
    \/ \E i \in Id : DeadlinePasses(p, i) \/ Watch(p, i) \/ Sweep(p, i)

Environment ==
    \/ EpochTurns /\ UNCHANGED linkVars
    \/ \E p \in Phone : Restart(p)
    \/ \E p \in Phone, i \in Id : Sever(p, i) \/ Replace(p, i)

Next ==
    \/ \E p \in Phone : Pump(p) \/ UserStep(p) \/ ClockStep(p) \/ Call(p) \/ Time(p)
    \/ Environment

(* The pump drains its queue, a call or a tick that was begun goes on, and  *)
(* the clock comes round: each is a thread nothing holds up.                *)
Fairness ==
    \A p \in Phone :
        /\ WF_vars(Pump(p))
        /\ WF_vars(UserStep(p))
        /\ WF_vars(ClockStep(p))
        /\ WF_vars(Tick(p) /\ UNCHANGED linkVars)

Spec == Init /\ [][Next]_vars /\ Fairness

-----------------------------------------------------------------------------
(* Two phones joined by a pipe hold each other's names for as long as it    *)
(* is open: no rotation renames a peer under a pipe (contract rule 4).      *)
PipesNameLivePeers ==
    \A p \in Phone : \A i \in pipes[p] :
        \E q \in Phone \ {p} : id[q] = i /\ id[p] \in pipes[q]

(* When both ends have a session they have the same one, made of one        *)
(* handshake, and neither has opened more than the other has sealed: a      *)
(* reply that crossed a reconnection never pairs keys of two handshakes.    *)
(* (on_session, adopt, SessionTable::open)                                  *)
SessionsPair ==
    \A p, q \in Phone : LET s == session[p][id[q]]
                            t == session[q][id[p]]
                        IN  p # q /\ s.hs # 0 /\ t.hs # 0 => s.hs = t.hs /\ s.got <= t.sent

(* A session does not outlive its pipe: once the rung's events are all      *)
(* handled, every open session has the pipe its keys were made on, so no    *)
(* idle sweep or rotation waits for a pipe that is gone (on_pipe_gone).     *)
SessionsHavePipes ==
    \A p \in Phone : \A i \in Id :
        queue[p] = <<>> /\ IsOpen(p, i) => i \in pipes[p]

(* What the two ends make of a pipe fits together: its names, its keys and  *)
(* its being there.                                                         *)
SessionsFitThePipes == PipesNameLivePeers /\ SessionsPair /\ SessionsHavePipes

(* No tap is given two verdicts: a ping is acknowledged, failed with its    *)
(* pipe, or reported late, whichever comes first, and only once.            *)
(* (on_session_bytes, on_pipe_gone, expire_pings)                           *)
Pending(p) == Cardinality({i \in Id : ping[p][i] # "none"})
OneVerdictPerPing == \A p \in Phone : told[p] + Pending(p) <= taps[p]

(* A Ping that still waits when a session opens goes out with it: there is  *)
(* no session with nothing sealed under it while a tap waits whose call has *)
(* returned and the pump is done with the event (ping writes the deadline   *)
(* before it asks, adopt reads it after it opened the session).             *)
NoPingForgotten ==
    \A p \in Phone : \A i \in Id :
        IsOpen(p, i) /\ ping[p][i] = "waiting" /\ Free(p, "user") /\ todo[p] = <<>>
            => session[p][i].sent > 0

(* A tap is answered, once.                                                 *)
TapsAreAnswered == OneVerdictPerPing /\ NoPingForgotten

(* Nobody seals to a session the other end has forgotten: once everything   *)
(* sent has been handled, an open pipe has a session at both of its ends    *)
(* or at neither (SessionTable::open).                                      *)
Quiet == \A p \in Phone : queue[p] = <<>> /\ todo[p] = <<>> /\ \A t \in Threads : Free(p, t)
NobodyForgets ==
    Quiet => \A p, q \in Phone : id[q] \in pipes[p] =>
                (IsOpen(p, id[q]) <=> IsOpen(q, id[p]))

(* Frames are opened in the order they were sealed: as long as one pipe     *)
(* carries a session no frame on it is out of turn.                         *)
FramesInTurn ==
    \A p \in Phone : SessionBytes(p) /\ Event1(p).bytes.what = "frame"
        /\ Event1(p).bytes.hs = session[p][Event1(p).peer].hs
            => Event1(p).bytes.n = session[p][Event1(p).peer].got + 1

(* While nothing is severed, renamed or switched off, a pipe comes to carry *)
(* a session at both its ends, however the dials, the calls and the pump of *)
(* the two cross: the smaller id starts one handshake, and no second event  *)
(* of the pipe starts another (on_pipe_opened).  Two things keep it from    *)
(* that, and nothing else does: bytes the rung lost while the pipe stayed,  *)
(* because it refused them or because another connection took its place,    *)
(* and two frames of a session written in another order than they were      *)
(* sealed in.  From either the code has no way back before the pipe goes.   *)
Calm ==
    /\ \A event \in {"severs", "restarts", "idles", "rotate", "switch"} : left[event] = 0
    /\ ~marred
DialsMeet ==
    []Calm => ((\E p \in Phone : on[p] /\ pipes[p] # {})
                  ~> (\A p \in Phone : \A i \in pipes[p] : IsOpen(p, i)))

=============================================================================
