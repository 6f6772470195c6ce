------------------------------ MODULE BleRung ------------------------------
(***************************************************************************)
(* The BLE rung (transport/ble.rs) of one phone, the bridge that carries   *)
(* its commands to the host (platform/mod.rs, platform/ble.rs) and, as the *)
(* rung uses it, the radio at the far end.  A command is queued and never  *)
(* answered; what came of it is reported later, and the rung decides what  *)
(* the core is told.  A radio that was off comes back blank, and the rung  *)
(* puts it back as it remembers it (rearm).                                *)
(* A platform call is made under the locks of what it is about, so that    *)
(* such a call and the memory of it are one step; shutdown tells the radio *)
(* without any lock, between any two steps of the others.                  *)
(***************************************************************************)
EXTENDS Rung, FiniteSets

LOCAL INSTANCE SequencesExt

CONSTANTS
    Me,             \* the phone
    Others,         \* the ids of those it may meet
    Names,          \* the ids it may have itself
    Workers,        \* the threads that bring reports in
    SendWindow,     \* SEND_WINDOW, in sends
    MaxQueued       \* MAX_QUEUED, the commands held for an absent host

ASSUME MeIsAPhone == Me \in Phone
ASSUME NamesAreNumbers == Names \subseteq Nat \ {0} /\ Others \subseteq Nat \ {0}
ASSUME BoundsAreNumbers == SendWindow \in Nat /\ MaxQueued \in Nat

VARIABLES
    local,          \* local_id
    advertising,    \* whether it means to be heard
    scanning,       \* whether it means to listen
    peers,          \* the ids it may dial
    live,           \* the pipe of each id, as an index of credit, 0 for none
    credit,         \* for every pipe there has been, the bytes outstanding
    available,      \* what the radio last said of itself
    released,       \* whether shutdown has told the radio
    hand,           \* the report each worker has in hand
    backlog,        \* commands issued while no host is attached
    host,           \* commands the attached host has yet to run
    attached,       \* whether a host is
    radio,          \* the radio itself
    reports         \* what it has said and nobody has brought in yet

rungMemory == <<local, advertising, scanning, peers, live, credit, available, released>>
seam == <<backlog, host, attached>>
air == <<radio, reports>>
bleVars == <<rungMemory, hand, seam, air, task, left>>

Command(what, i) == [cmd |-> what, peer |-> i]
Report(what, i) == [what |-> what, peer |-> i, is |-> TRUE]
Available(b) == [what |-> "available", peer |-> 0, is |-> b]
Empty == [at |-> "empty", report |-> Report("none", 0), say |-> Nothing]

(* What the radio knows of: its own switch, whether its adapter was shut    *)
(* down, the name it was given, the name it is advertising under (0 if it   *)
(* is not), whether it listens ("deaf" if a scan was begun and has failed   *)
(* since), its links and how many writes each of them has yet to finish.    *)
Blank(r) == [r EXCEPT !.under = 0, !.scan = "off", !.links = {},
                      !.held = [i \in Others |-> 0]]

-----------------------------------------------------------------------------
(* The bridge.  Commands without a host wait, the newest of too many is     *)
(* dropped, and a host that attaches is given the backlog under the lock    *)
(* that every command takes; it begins by saying how the radio is.          *)
Commands(cs) ==
    /\ IF attached
       THEN host' = host \o cs /\ UNCHANGED backlog
       ELSE LET all == backlog \o cs
            IN  /\ backlog' = SubSeq(all, 1, IF Len(all) < MaxQueued THEN Len(all)
                                                                      ELSE MaxQueued)
                /\ UNCHANGED host
    /\ UNCHANGED attached

Attach ==
    /\ Spend("hosts")
    /\ attached' = TRUE
    /\ host' = host \o backlog
    /\ backlog' = <<>>
    /\ reports' = Append(reports, Available(radio.on))
    /\ UNCHANGED <<sinkVars, rungMemory, hand, radio, task>>

Detach ==
    /\ attached /\ Spend("hosts")
    /\ attached' = FALSE
    /\ UNCHANGED <<sinkVars, rungMemory, hand, host, backlog, air, task>>

(* new: the name is the first command.                                      *)
BleInit ==
    /\ SinkInit
    /\ local \in Names
    /\ advertising = FALSE /\ scanning = FALSE
    /\ peers = {} /\ live = [i \in Others |-> 0] /\ credit = <<>>
    /\ available = TRUE /\ released = FALSE
    /\ hand = [w \in Workers |-> Empty]
    /\ attached \in BOOLEAN
    /\ backlog = (IF attached THEN <<>> ELSE <<Command("name", local)>>)
    /\ host = (IF attached THEN <<Command("name", local)>> ELSE <<>>)
    /\ radio \in {[on |-> b, down |-> FALSE, name |-> 0, under |-> 0, scan |-> "off",
                   links |-> {}, held |-> [i \in Others |-> 0]] : b \in BOOLEAN}
    /\ reports = (IF attached THEN <<Available(radio.on)>> ELSE <<>>)

-----------------------------------------------------------------------------
(* Calls.  Each asks whether the rung is alive before it takes a lock, and  *)
(* only rearm asks again under it.                                          *)
Alive(t, step, i) ==
    /\ Up(Me) /\ Free(Me, t)
    /\ Goto(Me, t, step, i, 0)
    /\ UNCHANGED <<sinkVars, rungMemory, hand, seam, air>>

(* rearm holds the locks of the name and of what is advertised.             *)
Locked == \E w \in Workers : hand[w].at = "tell"

Ends(t) == Finish(Me, t) /\ UNCHANGED <<sinkVars, hand, air, left>>

StartAdvertising(t) ==
    /\ At(Me, t, "advertise") /\ ~Locked
    /\ Commands(<<Command("advertise", 0)>>)
    /\ advertising' = TRUE
    /\ UNCHANGED <<local, scanning, peers, live, credit, available, released>>
    /\ Ends(t)

StopAdvertising(t) ==
    /\ At(Me, t, "withdraw") /\ ~Locked
    /\ IF advertising THEN Commands(<<Command("withdraw", 0)>>) ELSE UNCHANGED seam
    /\ advertising' = FALSE
    /\ UNCHANGED <<local, scanning, peers, live, credit, available, released>>
    /\ Ends(t)

SetScanning(t) ==
    /\ \/ At(Me, t, "listen") /\ scanning' = TRUE
       \/ At(Me, t, "deafen") /\ scanning' = FALSE
    /\ IF scanning' # scanning THEN Commands(<<Command(task[Me][t].at, 0)>>)
                               ELSE UNCHANGED seam
    /\ UNCHANGED <<local, advertising, peers, live, credit, available, released>>
    /\ Ends(t)

(* set_local_id: refused while a pipe is open, which is asked before the    *)
(* locks are taken; the old name is withdrawn before the new one is put up. *)
AskToRename(t) ==
    /\ At(Me, t, "asking")
    /\ IF \A i \in Others : live[i] = 0
       THEN Goto(Me, t, "rename", task[Me][t].peer, 0)
       ELSE Finish(Me, t)
    /\ UNCHANGED <<sinkVars, rungMemory, hand, seam, air, left>>

Rename(t) ==
    LET fresh == task[Me][t].peer
    IN  /\ At(Me, t, "rename") /\ ~Locked
        /\ IF local = fresh THEN UNCHANGED seam
           ELSE Commands(IF advertising
                         THEN <<Command("withdraw", 0), Command("name", fresh),
                                Command("advertise", 0)>>
                         ELSE <<Command("name", fresh)>>)
        /\ local' = fresh
        /\ UNCHANGED <<advertising, scanning, peers, live, credit, available, released>>
        /\ Ends(t)

(* connect: a pipe that is open is announced again, after the lock.         *)
Connect(t) ==
    LET i == task[Me][t].peer
    IN  /\ At(Me, t, "connect")
        /\ \/ /\ live[i] # 0
              /\ Goto(Me, t, "announce", i, 0) /\ UNCHANGED <<sinkVars, seam>>
           \/ /\ live[i] = 0 /\ i \notin peers
              /\ Emit(Me, <<Event("failed", i)>>) /\ Finish(Me, t) /\ UNCHANGED seam
           \/ /\ live[i] = 0 /\ i \in peers
              /\ Commands(<<Command("connect", i)>>) /\ Finish(Me, t) /\ UNCHANGED sinkVars
        /\ UNCHANGED <<rungMemory, hand, air, left>>

Announce(t) ==
    /\ At(Me, t, "announce")
    /\ Emit(Me, <<Event("opened", task[Me][t].peer)>>)
    /\ Finish(Me, t)
    /\ UNCHANGED <<rungMemory, hand, seam, air, left>>

(* send charges the window before it writes, and gives back what was not    *)
(* written.                                                                 *)
Charge(t) ==
    LET i == task[Me][t].peer
        n == live[i]
    IN  /\ At(Me, t, "send")
        /\ IF n = 0 THEN Finish(Me, t) /\ UNCHANGED credit
           ELSE /\ credit' = [credit EXCEPT ![n] = @ + 1]
                /\ Goto(Me, t, IF credit[n] + 1 > SendWindow THEN "refund" ELSE "write", i, n)
        /\ UNCHANGED <<sinkVars, local, advertising, scanning, peers, live, available,
                       released, hand, seam, air, left>>

WriteOut(t) ==
    /\ At(Me, t, "write")
    /\ \/ Commands(<<Command("send", task[Me][t].peer)>>) /\ Finish(Me, t)
       \/ Goto(Me, t, "refund", task[Me][t].peer, task[Me][t].ref) /\ UNCHANGED seam
    /\ UNCHANGED <<sinkVars, rungMemory, hand, air, left>>

Less(n) == IF n = 0 THEN 0 ELSE n - 1

(* Mutant: a send that is refused keeps its charge. *)
KeepCharge(t) ==
    /\ At(Me, t, "refund")
    /\ UNCHANGED <<credit, local, advertising, scanning, peers, live, available, released, seam>>
    /\ Ends(t)

Refund(t) ==
    /\ At(Me, t, "refund")
    /\ credit' = [credit EXCEPT ![task[Me][t].ref] = Less(@)]
    /\ UNCHANGED <<local, advertising, scanning, peers, live, available, released, seam>>
    /\ Ends(t)

(* disconnect: out of the table, then the radio is told, then the core.     *)
LetGo(t) ==
    LET i == task[Me][t].peer
    IN  /\ At(Me, t, "disconnect")
        /\ IF live[i] = 0 THEN Finish(Me, t) ELSE Goto(Me, t, "hang up", i, 0)
        /\ live' = [live EXCEPT ![i] = 0]
        /\ UNCHANGED <<sinkVars, local, advertising, scanning, peers, credit, available,
                       released, hand, seam, air, left>>

HangUp(t) ==
    LET i == task[Me][t].peer
    IN  /\ At(Me, t, "hang up")
        /\ Commands(<<Command("disconnect", i)>>)
        /\ Emit(Me, <<Event("closed", i)>>)
        /\ Finish(Me, t)
        /\ UNCHANGED <<rungMemory, hand, air, left>>

-----------------------------------------------------------------------------
(* shutdown: the flag, the radio, the pipes, what it means to do, the sink. *)
StartShutdown ==
    /\ Spend("shutdowns") /\ Down(Me)
    /\ UNCHANGED <<rungMemory, hand, seam, air, task>>

Release ==
    /\ life[Me] = "closing" /\ ~released
    /\ released' = TRUE
    /\ Commands(<<Command("shutdown", 0)>>)
    /\ UNCHANGED <<sinkVars, local, advertising, scanning, peers, live, credit, available,
                   hand, air, task, left>>

Clear ==
    /\ released /\ ~Locked /\ Drained(Me)
    /\ live' = [i \in Others |-> 0]
    /\ advertising' = FALSE /\ scanning' = FALSE
    /\ UNCHANGED <<local, peers, credit, available, released, hand, seam, air, task, left>>

-----------------------------------------------------------------------------
(* on_platform_event, one report at a time on each of the workers: once the *)
(* rung is going down only credit still comes back.                         *)
Fetch(w) ==
    /\ hand[w] = Empty /\ reports # <<>>
    /\ reports' = Tail(reports)
    /\ hand' = IF Up(Me) \/ Head(reports).what = "written"
               THEN [hand EXCEPT ![w] = [@ EXCEPT !.at = "read", !.report = Head(reports)]]
               ELSE hand
    /\ UNCHANGED <<sinkVars, rungMemory, seam, radio, task, left>>

Says(w, event) == hand' = [hand EXCEPT ![w].at = "say", ![w].say = event]
Drops(w) == hand' = [hand EXCEPT ![w] = Empty]
Given(w, what) == hand[w].at = "read" /\ hand[w].report.what = what
Who(w) == hand[w].report.peer

OnFound(w) ==
    /\ Given(w, "found")
    /\ peers' = peers \union {Who(w)}
    /\ Says(w, Event("found", Who(w)))
    /\ UNCHANGED <<local, advertising, scanning, live, credit, available, released>>

OnLost(w) ==
    /\ Given(w, "lost")
    /\ peers' = IF live[Who(w)] = 0 THEN peers \ {Who(w)} ELSE peers
    /\ Says(w, Event("lost", Who(w)))
    /\ UNCHANGED <<local, advertising, scanning, live, credit, available, released>>

(* A second open of one pipe is not said again, and starts a new window.    *)
OnOpened(w) ==
    /\ Given(w, "opened")
    /\ peers' = peers \union {Who(w)}
    /\ credit' = Append(credit, 0)
    /\ live' = [live EXCEPT ![Who(w)] = Len(credit) + 1]
    /\ IF live[Who(w)] = 0 THEN Says(w, Event("opened", Who(w))) ELSE Drops(w)
    /\ UNCHANGED <<local, advertising, scanning, available, released>>

OnFailed(w) ==
    /\ Given(w, "failed")
    /\ IF live[Who(w)] = 0 THEN Says(w, Event("failed", Who(w))) ELSE Drops(w)
    /\ UNCHANGED rungMemory

OnClosed(w) ==
    /\ Given(w, "closed")
    /\ live' = [live EXCEPT ![Who(w)] = 0]
    /\ Says(w, Event(IF live[Who(w)] # 0 THEN "closed" ELSE "failed", Who(w)))
    /\ UNCHANGED <<local, advertising, scanning, peers, credit, available, released>>

OnReceived(w) ==
    /\ Given(w, "received")
    /\ IF live[Who(w)] # 0 THEN Says(w, Event("received", Who(w))) ELSE Drops(w)
    /\ UNCHANGED rungMemory

(* on_write_complete, which comes the same way.                             *)
OnWritten(w) ==
    LET n == live[Who(w)]
    IN  /\ Given(w, "written")
        /\ credit' = IF n = 0 THEN credit ELSE [credit EXCEPT ![n] = Less(@)]
        /\ Drops(w)
        /\ UNCHANGED <<local, advertising, scanning, peers, live, available, released>>

OnAvailable(w) ==
    LET is == hand[w].report.is
    IN  /\ Given(w, "available")
        /\ available' = is
        /\ IF is /\ ~available THEN hand' = [hand EXCEPT ![w].at = "rearm"]
                               ELSE Says(w, Event("available", 0))
        /\ UNCHANGED <<local, advertising, scanning, peers, live, credit, released>>

Read(w) ==
    /\ \/ OnFound(w) \/ OnLost(w) \/ OnOpened(w) \/ OnFailed(w) \/ OnClosed(w)
       \/ OnReceived(w) \/ OnWritten(w) \/ OnAvailable(w)
    /\ UNCHANGED <<sinkVars, seam, air, task, left>>

Say(w) ==
    /\ hand[w].at = "say"
    /\ Emit(Me, <<hand[w].say>>)
    /\ Drops(w)
    /\ UNCHANGED <<rungMemory, seam, air, task, left>>

(* rearm: the locks, a second look at whether the rung is alive, and then   *)
(* the radio is told, whose own end shutdown may have announced meanwhile.  *)
Lock(w) ==
    /\ hand[w].at = "rearm" /\ ~Locked
    /\ IF Up(Me) THEN hand' = [hand EXCEPT ![w].at = "tell"]
                 ELSE Says(w, Event("available", 0))
    /\ UNCHANGED <<sinkVars, rungMemory, seam, air, task, left>>

(* Mutant: what is advertised is left out. *)
TellName(w) ==
    /\ hand[w].at = "tell"
    /\ Commands(<<Command("name", local)>>)
    /\ hand' = [hand EXCEPT ![w].at = "relisten"]
    /\ UNCHANGED <<sinkVars, rungMemory, air, task, left>>

Tell(w) ==
    /\ hand[w].at = "tell"
    /\ Commands(IF advertising THEN <<Command("name", local), Command("advertise", 0)>>
                               ELSE <<Command("name", local)>>)
    /\ hand' = [hand EXCEPT ![w].at = "relisten"]
    /\ UNCHANGED <<sinkVars, rungMemory, air, task, left>>

Relisten(w) ==
    /\ hand[w].at = "relisten"
    /\ IF scanning /\ Up(Me) THEN Commands(<<Command("listen", 0)>>) ELSE UNCHANGED seam
    /\ Says(w, Event("available", 0))
    /\ UNCHANGED <<sinkVars, rungMemory, air, task, left>>

-----------------------------------------------------------------------------
(* The host and the radio.  What the radio cannot do, or will not though it *)
(* is on, is answered with its being unavailable, and with nothing else.    *)
Obeys(r, said) == radio' = r /\ reports' = reports \o said
Refuses == Obeys(radio, <<Available(FALSE)>>)

(* An advertisement needs a name, a listener, which an adapter that was     *)
(* shut down does not open again, and the radio's consent: refused before   *)
(* the one on the air was stopped it stays, refused after that none is left.*)
Advertise ==
    \/ radio.on /\ radio.name # 0 /\ ~radio.down /\ Obeys([radio EXCEPT !.under = radio.name], <<>>)
    \/ Refuses
    \/ radio.on /\ ~radio.down /\ Obeys([radio EXCEPT !.under = 0], <<Available(FALSE)>>)

(* A scan that was begun is not begun again, though it may have failed.     *)
Listen ==
    \/ radio.scan # "off" /\ radio.on /\ Obeys(radio, <<>>)
    \/ radio.scan = "off" /\ radio.on /\ Obeys([radio EXCEPT !.scan = "on"], <<>>)
    \/ (radio.scan = "off" \/ ~radio.on) /\ Refuses

(* A dial to a peer already linked is passed over, unless the link came up  *)
(* while it was under way.                                                  *)
Dial(i) ==
    \/ i \in radio.links /\ Obeys(radio, <<>>)
    \/ radio.on /\ ~radio.down
         /\ Obeys([radio EXCEPT !.links = @ \union {i}, !.held[i] = 0], <<Report("opened", i)>>)
    \/ Obeys(radio, <<Report("failed", i)>>)

Obey(c) ==
    \/ c.cmd = "name" /\ Obeys([radio EXCEPT !.name = c.peer], <<>>)
    \/ c.cmd = "advertise" /\ Advertise
    \/ c.cmd = "withdraw" /\ Obeys([radio EXCEPT !.under = 0], <<>>)
    \/ c.cmd = "listen" /\ Listen
    \/ c.cmd = "deafen" /\ Obeys([radio EXCEPT !.scan = "off"], <<>>)
    \/ c.cmd = "connect" /\ Dial(c.peer)
    \/ c.cmd = "send" /\ c.peer \in radio.links
         /\ Obeys([radio EXCEPT !.held[c.peer] = @ + 1], <<>>)
    \/ c.cmd = "send" /\ c.peer \notin radio.links /\ Refuses
    \/ c.cmd = "disconnect" /\ c.peer \in radio.links
         /\ Obeys([radio EXCEPT !.links = @ \ {c.peer}, !.held[c.peer] = 0],
                  <<Report("closed", c.peer)>>)
    \/ c.cmd = "disconnect" /\ c.peer \notin radio.links /\ Obeys(radio, <<>>)
    \/ c.cmd = "shutdown" /\ Obeys([Blank(radio) EXCEPT !.down = TRUE], <<>>)

RunCommand ==
    /\ host # <<>>
    /\ Obey(Head(host))
    /\ host' = Tail(host)
    /\ UNCHANGED <<sinkVars, rungMemory, hand, backlog, attached, task, left>>

Toggle ==
    /\ Spend("toggles")
    /\ IF radio.on
       THEN \E order \in SetToSeqs(radio.links) :
              Obeys([Blank(radio) EXCEPT !.on = FALSE],
                    [k \in DOMAIN order |-> Report("closed", order[k])] \o <<Available(FALSE)>>)
       ELSE Obeys([radio EXCEPT !.on = TRUE], <<Available(TRUE)>>)

(* A scan fails some time after it was begun; and the app, coming to the    *)
(* front or given a permission, has the radio say again how it is.          *)
ScanFails ==
    /\ radio.scan = "on" /\ Spend("scanfails")
    /\ Obeys([radio EXCEPT !.scan = "deaf"], <<Available(FALSE)>>)

Refresh == Spend("refreshes") /\ Obeys(radio, <<Available(radio.on)>>)

(* A link the other side opened, or a second one for a peer already linked. *)
Linked(i) ==
    /\ radio.on /\ ~radio.down /\ Spend("links")
    /\ Obeys([radio EXCEPT !.links = @ \union {i}, !.held[i] = 0], <<Report("opened", i)>>)

Unlinked(i) ==
    /\ i \in radio.links /\ Spend("drops")
    /\ Obeys([radio EXCEPT !.links = @ \ {i}, !.held[i] = 0], <<Report("closed", i)>>)

Hears(i) ==
    /\ i \in radio.links /\ Spend("bytes")
    /\ Obeys(radio, <<Report("received", i)>>)

Sights(i) ==
    /\ radio.scan = "on" /\ Spend("sights")
    /\ \E what \in {"found", "lost"} : Obeys(radio, <<Report(what, i)>>)

Writes(i) ==
    /\ radio.held[i] > 0
    /\ Obeys([radio EXCEPT !.held[i] = @ - 1], <<Report("written", i)>>)
    /\ UNCHANGED left

Radio ==
    /\ \/ Toggle \/ ScanFails \/ Refresh
       \/ \E i \in Others : Linked(i) \/ Unlinked(i) \/ Hears(i) \/ Sights(i) \/ Writes(i)
    /\ UNCHANGED <<sinkVars, rungMemory, hand, seam, task>>

-----------------------------------------------------------------------------
Calls ==
    \E t \in Threads, i \in Others, n \in Names :
      \/ Spend("switches") /\ \E step \in {"advertise", "withdraw", "listen", "deafen"} :
            t = "user" /\ Alive(t, step, 0)
      \/ Spend("renames") /\ t = "clock" /\ Alive(t, "asking", n)
      \/ Spend("dials") /\ t = "user" /\ Alive(t, "connect", i)
      \/ Spend("writes") /\ Alive(t, "send", i)
      \/ Spend("hangups") /\ t = "clock" /\ Alive(t, "disconnect", i)

InHand(t) ==
    \/ StartAdvertising(t) \/ StopAdvertising(t) \/ SetScanning(t) \/ AskToRename(t)
    \/ Rename(t) \/ Connect(t) \/ Announce(t) \/ Charge(t) \/ WriteOut(t) \/ Refund(t)
    \/ LetGo(t) \/ HangUp(t)

Ingress(w) == Fetch(w) \/ Read(w) \/ Say(w) \/ Lock(w) \/ Tell(w) \/ Relisten(w)

Dispatch == (TakeEvent(Me) \/ FinishEvent(Me) \/ Revoke(Me) \/ Return(Me)) /\ UNCHANGED bleVars

BleNext ==
    \/ Calls \/ (\E t \in Threads : InHand(t)) \/ (\E w \in Workers : Ingress(w))
    \/ StartShutdown \/ Release \/ Clear \/ Dispatch
    \/ Attach \/ Detach \/ RunCommand \/ Radio

BleSpec == BleInit /\ [][BleNext]_<<sinkVars, bleVars>>

-----------------------------------------------------------------------------
Quiet ==
    /\ attached /\ backlog = <<>> /\ host = <<>> /\ reports = <<>>
    /\ \A t \in Threads : Free(Me, t)
    /\ \A w \in Workers : hand[w] = Empty

(* However often the radio goes and comes, whatever it refuses, whatever is *)
(* asked of the rung meanwhile and in whatever order the reports come in:   *)
(* once everything has been carried out, the rung does not take the radio   *)
(* for usable while it does other than the rung believes, so that nobody is *)
(* told they are found, or looking, when they are not (on_platform_event,   *)
(* rearm).  A scan that failed after it was begun is the exception: the     *)
(* adapter takes it for one that runs, and does not begin it again.         *)
AsAsked ==
    /\ radio.under = (IF advertising THEN local ELSE 0)
    /\ radio.scan \in (IF scanning THEN {"on", "deaf"} ELSE {"off"})
RadioAsAsked == Quiet /\ Up(Me) /\ radio.on /\ available => AsAsked

(* The same without the exception: what listens, listens.                   *)
ListensAsAsked ==
    Quiet /\ Up(Me) /\ radio.on /\ available /\ scanning => radio.scan = "on"

(* A radio that came back is put back the way the rung believes it is, and  *)
(* one that refused says so and is on its way back (the comment on rearm).  *)
RadioIsPutBack == Quiet /\ Up(Me) /\ radio.on => AsAsked

(* A pipe's window never closes for good: everything charged to it is       *)
(* either still to be written by the radio, or about to be given back.      *)
Underway(i) ==
    LET charged == {t \in Threads : task[Me][t].at \in {"write", "refund"}
                                      /\ task[Me][t].ref = live[i]}
        sends(q) == SelectSeq(q, LAMBDA c : c.cmd = "send" /\ c.peer = i)
        acked == SelectSeq(reports, LAMBDA r : r.what = "written" /\ r.peer = i)
        acking == {w \in Workers : Given(w, "written") /\ Who(w) = i}
    IN  radio.held[i] + Len(sends(host)) + Len(sends(backlog)) + Len(acked)
          + Cardinality(charged) + Cardinality(acking)

Changing(i) ==
    \/ i \notin radio.links
    \/ \E k \in DOMAIN reports : reports[k].what \in {"opened", "closed"} /\ reports[k].peer = i
    \/ \E w \in Workers : hand[w].at = "read" /\ Who(w) = i
                            /\ hand[w].report.what \in {"opened", "closed"}
    \/ \E k \in DOMAIN host : host[k].peer = i /\ host[k].cmd \in {"connect", "disconnect"}

CreditComesBack ==
    \A i \in Others : live[i] # 0 /\ ~Changing(i) => credit[live[i]] <= Underway(i)

(* Rule 6, for the radio: once shutdown has returned and the radio has been *)
(* told everything, it is neither heard nor listening.                      *)
RadioIsDark ==
    life[Me] = "returned" /\ attached /\ backlog = <<>> /\ host = <<>>
      /\ (\A t \in Threads : Free(Me, t)) /\ (\A w \in Workers : hand[w] = Empty)
    => radio.under = 0 /\ radio.scan = "off"

(* What the core hears of a pipe makes sense: no bytes after its closing.   *)
BytesBeforeClosed == busy[Me].what = "received" => busy[Me].peer \in heard[Me]

(* The radio is never given more than a window of writes at once.           *)
WindowHolds == \A i \in Others : radio.held[i] <= SendWindow

=============================================================================
