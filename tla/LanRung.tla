------------------------------ MODULE LanRung ------------------------------
(***************************************************************************)
(* The LAN rung (transport/lan.rs): a pipe is a TCP connection dialled to  *)
(* an address multicast DNS resolved, introduced by a hello that carries   *)
(* the dialler's id.  Both ends keep a table with at most one connection   *)
(* for each id; when two connections meet there, adopt decides which one   *)
(* survives from the two ids alone, so that both ends decide alike.        *)
(* The threads of a phone are the caller of the rung ("user"), the clock   *)
(* that renames it ("clock"), and one accepter and one reader for each     *)
(* connection.  What a lock covers is one step here, what it does not is   *)
(* several.  TCP and multicast DNS are external: bytes arrive in order, a  *)
(* closed end is seen by the other after what was sent before, and a       *)
(* connection that is cut is noticed by each end on its own (keepalive).   *)
(***************************************************************************)
EXTENDS Rung, FiniteSets

CONSTANTS
    Id,             \* what a phone may be named, ordered as the names are
    Owner,          \* the phone each id belongs to, now or after a rotation
    MaxPending      \* MAX_PENDING_HANDSHAKES

ASSUME IdsAreOwned == Id \subseteq Nat \ {0} /\ Owner \in [Id -> Phone]

VARIABLES
    name,       \* local_id
    registered, \* the names multicast DNS answers for on this phone's behalf
    browsing,   \* whether it is listening for others
    book,       \* the ids it has an address for
    socks,      \* every connection so far, in the order they were dialled
    pipe        \* the connection it keeps for each id, 0 for none

lanVars == <<name, registered, browsing, book, socks, pipe, task, left>>

Work(p) == task[p]["user"]

(* A connection: who dialled whom and under which names, how far each end   *)
(* has come, which ends have closed it, whether the network has cut it,     *)
(* the bytes under way to each end, and whether anything but the tie-break  *)
(* ended it.                                                                *)
Dialled(p, i) ==
    [from |-> p, to |-> Owner[i], hello |-> name[p], target |-> i,
     at |-> [q \in Phone |-> IF q = p THEN "dialled" ELSE "backlog"],
     closed |-> {}, cut |-> FALSE, bytes |-> [q \in Phone |-> 0], lost |-> FALSE]

Peer(p, s)   == IF p = socks[s].from THEN socks[s].target ELSE socks[s].hello
Other(p, s)  == IF p = socks[s].from THEN socks[s].to ELSE socks[s].from
Broken(s)    == socks[s].cut \/ socks[s].closed # {}
EndsFor(p)   == {s \in DOMAIN socks : p \in {socks[s].from, socks[s].to}}
Held(p)      == {pipe[p][i] : i \in Id} \ {0}
Pending(p)   == Cardinality({s \in EndsFor(p) : socks[s].at[p] = "hello"})

Close(p, s, stage, lost) ==
    [socks EXCEPT ![s].closed = @ \union {p}, ![s].at[p] = stage, ![s].lost = @ \/ lost]

LanInit ==
    /\ SinkInit
    /\ name \in {f \in [Phone -> Id] : \A p \in Phone : Owner[f[p]] = p}
    /\ registered = [p \in Phone |-> {}]
    /\ browsing = [p \in Phone |-> FALSE]
    /\ book = [p \in Phone |-> {name[q] : q \in Phone \ {p}}]
    /\ socks = <<>>
    /\ pipe = [p \in Phone |-> [i \in Id |-> 0]]

-----------------------------------------------------------------------------
(* adopt, where the dialling and the accepting end meet.                    *)

(* Mutant: the connection that is there already is kept. *)
FirstSurvives(p, i, dialled) == FALSE

NewcomerSurvives(p, i, dialled) == dialled = (name[p] <= i)

(* The address is recorded before the table is locked; the rung going down  *)
(* is asked under the lock, and the announcement is made under it too.      *)
Adopt(p, s, dialled) ==
    LET i == Peer(p, s)
        rival == pipe[p][i]
    IN  /\ book' = [book EXCEPT ![p] = @ \union {i}]
        /\ \/ /\ ~Up(p) \/ (rival # 0 /\ ~NewcomerSurvives(p, i, dialled))
              /\ socks' = Close(p, s, "done", ~Up(p))
              /\ UNCHANGED <<sinkVars, pipe>>
           \/ /\ Up(p)
              /\ rival # 0 => NewcomerSurvives(p, i, dialled)
              /\ pipe' = [pipe EXCEPT ![p][i] = s]
              /\ socks' = IF rival = 0 THEN [socks EXCEPT ![s].at[p] = "open"]
                          ELSE [socks EXCEPT ![s].at[p] = "open",
                                             ![rival].closed = @ \union {p}]
              /\ Emit(p, <<Event("opened", i)>>)

(* connect asks under the lock whether the pipe is open and announces it    *)
(* after letting go; otherwise it dials every address it knows for the id.  *)
Connect(p, i) ==
    /\ Up(p) /\ Free(p, "user") /\ Owner[i] # p /\ Spend("dials")
    /\ \/ /\ pipe[p][i] # 0
          /\ Goto(p, "user", "announce", i, 0) /\ UNCHANGED sinkVars
       \/ /\ pipe[p][i] = 0 /\ i \notin book[p]
          /\ Emit(p, <<Event("failed", i)>>) /\ UNCHANGED task
       \/ /\ pipe[p][i] = 0 /\ i \in book[p]
          /\ Goto(p, "user", "dial", i, 0) /\ UNCHANGED sinkVars
    /\ UNCHANGED <<name, registered, browsing, book, socks, pipe>>

Announce(p) ==
    /\ At(p, "user", "announce")
    /\ Emit(p, <<Event("opened", Work(p).peer)>>)
    /\ Finish(p, "user")
    /\ UNCHANGED <<name, registered, browsing, book, socks, pipe, left>>

(* The dial and its hello, which names the phone as it is called by then.   *)
Dial(p) ==
    /\ At(p, "user", "dial")
    /\ \/ /\ socks' = Append(socks, Dialled(p, Work(p).peer))
          /\ Goto(p, "user", "adopt", Work(p).peer, Len(socks) + 1)
          /\ UNCHANGED sinkVars
       \/ /\ Emit(p, <<Event("failed", Work(p).peer)>>)
          /\ Finish(p, "user")
          /\ UNCHANGED socks
    /\ UNCHANGED <<name, registered, browsing, book, pipe, left>>

AdoptDialled(p) ==
    /\ At(p, "user", "adopt")
    /\ Adopt(p, Work(p).ref, TRUE)
    /\ Finish(p, "user")
    /\ UNCHANGED <<name, registered, browsing, left>>

(* accept_loop: too many strangers who have not said their name, or a rung  *)
(* going down, and the connection is dropped.                               *)
Accept(p, s) ==
    /\ socks[s].at[p] = "backlog"
    /\ socks' = IF ~Up(p) \/ Pending(p) >= MaxPending
                THEN Close(p, s, "done", TRUE)
                ELSE [socks EXCEPT ![s].at[p] = "hello"]
    /\ UNCHANGED <<sinkVars, name, registered, browsing, book, pipe, task, left>>

ReadHello(p, s) ==
    /\ socks[s].at[p] = "hello"
    /\ \/ Adopt(p, s, FALSE)
       \/ /\ socks[s].cut
          /\ socks' = Close(p, s, "done", TRUE)
          /\ UNCHANGED <<sinkVars, book, pipe>>
    /\ UNCHANGED <<name, registered, browsing, task, left>>

-----------------------------------------------------------------------------
(* read_loop: every delivery and the closing ask, under the lock, whether   *)
(* this connection is still the one the table holds.                        *)

(* Mutant: the reader does not ask. *)
AnyGeneration(p, s) == TRUE

Current(p, s) == pipe[p][Peer(p, s)] = s

ReadBytes(p, s) ==
    /\ socks[s].at[p] = "open" /\ socks[s].bytes[p] > 0
    /\ IF Current(p, s)
       THEN /\ socks' = [socks EXCEPT ![s].bytes[p] = @ - 1]
            /\ Emit(p, <<Event("received", Peer(p, s))>>)
       ELSE /\ socks' = [socks EXCEPT ![s].bytes[p] = @ - 1, ![s].at[p] = "done"]
            /\ UNCHANGED sinkVars
    /\ UNCHANGED <<name, registered, browsing, book, pipe, task, left>>

(* Mutant: the reader ends and leaves the table as it was. *)
EndQuietly(p, s) ==
    /\ socks[s].at[p] = "open" /\ Broken(s)
    /\ p \in socks[s].closed \/ socks[s].cut \/ socks[s].bytes[p] = 0
    /\ socks' = Close(p, s, "done", socks[s].cut)
    /\ UNCHANGED <<sinkVars, pipe, name, registered, browsing, book, task, left>>

ReadEnd(p, s) ==
    /\ socks[s].at[p] = "open" /\ Broken(s)
    /\ p \in socks[s].closed \/ socks[s].cut \/ socks[s].bytes[p] = 0
    /\ socks' = Close(p, s, "done", socks[s].cut)
    /\ IF Current(p, s)
       THEN /\ pipe' = [pipe EXCEPT ![p][Peer(p, s)] = 0]
            /\ Emit(p, <<Event("closed", Peer(p, s))>>)
       ELSE UNCHANGED <<sinkVars, pipe>>
    /\ UNCHANGED <<name, registered, browsing, book, task, left>>

-----------------------------------------------------------------------------
(* disconnect: out of the table and announced under the lock, then closed   *)
(* through the handle no writer holds.                                      *)
HangUp(p, i) ==
    IF pipe[p][i] = 0
    THEN UNCHANGED <<sinkVars, pipe, socks>>
    ELSE /\ pipe' = [pipe EXCEPT ![p][i] = 0]
         /\ socks' = [socks EXCEPT ![pipe[p][i]].closed = @ \union {p},
                                   ![pipe[p][i]].lost = TRUE]
         /\ Emit(p, <<Event("closed", i)>>)

Disconnect(p, i) ==
    /\ Up(p) /\ Free(p, "clock") /\ pipe[p][i] # 0 /\ Spend("hangups")
    /\ HangUp(p, i)
    /\ UNCHANGED <<name, registered, browsing, book, task>>

(* send takes the connection from the table and writes to it afterwards.    *)
Send(p, i) ==
    /\ Up(p) /\ Free(p, "user") /\ pipe[p][i] # 0 /\ Spend("writes")
    /\ Goto(p, "user", "write", i, pipe[p][i])
    /\ UNCHANGED <<sinkVars, name, registered, browsing, book, socks, pipe>>

(* All of it is written, or none of it (WouldBlock), or a part of it, which *)
(* no retry can mend: then the pipe is disconnected, by the peer's name.    *)
Write(p) ==
    LET s == Work(p).ref
    IN  /\ At(p, "user", "write")
        /\ \/ /\ ~socks[s].cut /\ p \notin socks[s].closed
              /\ socks' = [socks EXCEPT ![s].bytes[Other(p, s)] = @ + 1]
              /\ Finish(p, "user")
           \/ Broken(s) /\ Finish(p, "user") /\ UNCHANGED socks
           \/ /\ Broken(s)
              /\ Goto(p, "user", "tear", Work(p).peer, s) /\ UNCHANGED socks
        /\ UNCHANGED <<sinkVars, name, registered, browsing, book, pipe, left>>

TearDown(p) ==
    /\ At(p, "user", "tear")
    /\ IF Up(p) THEN HangUp(p, Work(p).peer) ELSE UNCHANGED <<sinkVars, pipe, socks>>
    /\ Finish(p, "user")
    /\ UNCHANGED <<name, registered, browsing, book, left>>

-----------------------------------------------------------------------------
(* Names and discovery.  set_local_id asks whether a pipe is open and takes *)
(* the lock of the name afterwards; the lock is then held across the old    *)
(* registration's end and the new one's start.                              *)
AskToRename(p, i) ==
    /\ Up(p) /\ Free(p, "clock") /\ Held(p) = {}
    /\ Owner[i] = p /\ i # name[p] /\ Spend("renames")
    /\ Goto(p, "clock", "rename", i, 0)
    /\ UNCHANGED <<sinkVars, name, registered, browsing, book, socks, pipe>>

Rename(p) ==
    LET fresh == task[p]["clock"].peer
    IN  /\ At(p, "clock", "rename")
        /\ registered' = [registered EXCEPT ![p] =
              IF name[p] \in @ THEN (@ \ {name[p]}) \union {fresh} ELSE @]
        /\ name' = [name EXCEPT ![p] = fresh]
        /\ Finish(p, "clock")
        /\ UNCHANGED <<sinkVars, browsing, book, socks, pipe, left>>

StartAdvertising(p) ==
    /\ Up(p) /\ Spend("switches")
    /\ registered' = [registered EXCEPT ![p] = @ \union {name[p]}]
    /\ UNCHANGED <<sinkVars, name, browsing, book, socks, pipe, task>>

StopAdvertising(p) ==
    /\ Up(p) /\ registered[p] # {} /\ Spend("switches")
    /\ registered' = [registered EXCEPT ![p] = @ \ {name[p]}]
    /\ UNCHANGED <<sinkVars, name, browsing, book, socks, pipe, task>>

SetScanning(p) ==
    /\ Up(p) /\ Spend("switches")
    /\ browsing' = [browsing EXCEPT ![p] = ~@]
    /\ UNCHANGED <<sinkVars, name, registered, book, socks, pipe, task>>

Resolve(p, i) ==
    /\ Up(p) /\ browsing[p] /\ i # name[p] /\ i \in registered[Owner[i]] /\ Spend("sights")
    /\ book' = [book EXCEPT ![p] = @ \union {i}]
    /\ Emit(p, <<Event("found", i)>>)
    /\ UNCHANGED <<name, registered, browsing, socks, pipe, task>>

(* A record that was withdrawn or has expired takes the addresses with it.  *)
Remove(p, i) ==
    /\ Up(p) /\ browsing[p] /\ i # name[p] /\ i \in book[p] /\ Spend("sights")
    /\ book' = [book EXCEPT ![p] = @ \ {i}]
    /\ Emit(p, <<Event("lost", i)>>)
    /\ UNCHANGED <<name, registered, browsing, socks, pipe, task>>

-----------------------------------------------------------------------------
(* shutdown.  What is drained is decided under the table's lock.            *)
StartShutdown(p) ==
    /\ Spend("shutdowns") /\ Down(p)
    /\ UNCHANGED <<name, registered, browsing, book, socks, pipe, task>>

Drain(p) ==
    /\ Drained(p)
    /\ registered' = [registered EXCEPT ![p] = {}]
    /\ browsing' = [browsing EXCEPT ![p] = FALSE]
    /\ socks' = [s \in DOMAIN socks |->
          IF s \in Held(p)
          THEN [socks[s] EXCEPT !.closed = @ \union {p}, !.lost = TRUE] ELSE socks[s]]
    /\ pipe' = [pipe EXCEPT ![p] = [i \in Id |-> 0]]
    /\ UNCHANGED <<name, book, task, left>>

Cut(s) ==
    /\ ~socks[s].cut /\ Spend("cuts")
    /\ socks' = [socks EXCEPT ![s].cut = TRUE, ![s].lost = TRUE]
    /\ UNCHANGED <<sinkVars, name, registered, browsing, book, pipe, task>>

Deliver(p) == (TakeEvent(p) \/ FinishEvent(p)) /\ UNCHANGED lanVars
Silence(p) == (Revoke(p) \/ Return(p)) /\ UNCHANGED lanVars

(* What the phone's own threads do once there is something for them to do.  *)
Working(p) ==
    \/ Announce(p) \/ Dial(p) \/ AdoptDialled(p) \/ Write(p) \/ TearDown(p) \/ Rename(p)
    \/ \E s \in DOMAIN socks :
          Accept(p, s) \/ ReadHello(p, s) \/ ReadBytes(p, s) \/ ReadEnd(p, s)
    \/ Deliver(p) \/ Drain(p) \/ Silence(p)

Calling(p) ==
    \/ \E i \in Id : Connect(p, i) \/ Send(p, i) \/ Disconnect(p, i) \/ AskToRename(p, i)
    \/ StartAdvertising(p) \/ StopAdvertising(p) \/ SetScanning(p) \/ StartShutdown(p)

Outside ==
    \/ \E p \in Phone, i \in Id : Resolve(p, i) \/ Remove(p, i)
    \/ \E s \in DOMAIN socks : Cut(s)

LanNext == Outside \/ \E p \in Phone : Working(p) \/ Calling(p)

(* The phone's threads run; nobody is bound to call, or to lose a link.     *)
LanSpec ==
    /\ LanInit /\ [][LanNext]_<<sinkVars, lanVars>>
    /\ \A p \in Phone : WF_<<sinkVars, lanVars>>(Working(p))

-----------------------------------------------------------------------------
(* The stream a sink hears makes sense: bytes come only on a pipe it was    *)
(* told is open and has not been told is closed.                            *)
BytesOnlyOnOpenPipe ==
    \A p \in Phone : busy[p].what = "received" => busy[p].peer \in heard[p]

Settled ==
    /\ \A p \in Phone, t \in Threads : task[p][t] = Idle
    /\ \A s \in DOMAIN socks, p \in Phone :
          socks[s].at[p] = "done" \/ (socks[s].at[p] = "open" /\ ~Broken(s))

(* However dials cross, the two ends keep the same connection, and crossing *)
(* alone never leaves them with none: what adopt's tie-break is there for.  *)
OneSurvives ==
    Settled /\ socks # <<>>
      /\ (\A s \in DOMAIN socks :
             /\ ~socks[s].lost
             /\ socks[s].hello = name[socks[s].from]
             /\ socks[s].target = name[socks[s].to])
    => \E s \in DOMAIN socks : \A p \in {socks[s].from, socks[s].to} : Held(p) = {s}

(* A connection that has ended at one end leaves the table of the other.    *)
HalfOpen(p) == \E s \in Held(p) : Broken(s)
DeadEndsClose == \A p \in Phone : []<>~HalfOpen(p)

(* The last word a sink hears of a pipe is the truth about it.              *)
SaidIsSo ==
    \A p \in Phone :
      Up(p) /\ queue[p] = <<>> /\ (\A t \in Threads : Free(p, t)) =>
        \A i \in heard[p] : pipe[p][i] # 0

(* Rule 4: a phone is not renamed while a pipe to it is open.               *)
NamesHold ==
    \A s \in DOMAIN socks :
      (\A p \in {socks[s].from, socks[s].to} : s \in Held(p)) =>
        socks[s].hello = name[socks[s].from]

(* Rule 5: a peer with an open pipe is one that can be dialled.             *)
DialableBack == \A p \in Phone, i \in Id : pipe[p][i] # 0 => i \in book[p]

(* A write that failed half way tears down the connection it was made on.   *)
TornAlone ==
    [][\A p \in Phone :
          TearDown(p) => \A i \in Id : pipe'[p][i] \in {pipe[p][i]} \union
                            (IF pipe[p][i] = Work(p).ref THEN {0} ELSE {})]_<<sinkVars, lanVars>>

=============================================================================
