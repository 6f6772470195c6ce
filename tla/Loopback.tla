------------------------------ MODULE Loopback ------------------------------
(***************************************************************************)
(* The in-process rung (transport/loopback.rs), the reference              *)
(* implementation of the contract in transport/mod.rs.  Every phone is one *)
(* node of a shared airspace; one mutex makes each call a single step, and *)
(* each node has a queue its own delivery thread drains, so no event is    *)
(* ever handled on the thread of the call that caused it (rule 1).         *)
(* The module declares the rung's state and its calls; Discovery and       *)
(* SessionLink, which extend it, say who makes them.                       *)
(***************************************************************************)
EXTENDS Naturals, Sequences, FiniteSets

LOCAL INSTANCE SequencesExt

CONSTANTS
    Phone,      \* the devices in range of each other
    Id          \* the ids a device may be known by, ordered as their strings are

ASSUME IdsAreNumbers == Id \subseteq Nat /\ 0 \notin Id

VARIABLES
    id,         \* the name a phone's node is under
    adv,        \* what it advertises, Off if nothing
    scanning,   \* whether it is discovering
    pipes,      \* the names it holds a pipe to
    queue       \* what the rung has yet to deliver to its sink

rungVars == <<id, adv, scanning, pipes, queue>>

(* An advertisement is a hint bound to an id and an epoch, the empty        *)
(* payload, or no advertisement at all.                                     *)
Hint(i, e) == <<i, e>>
Bare       == <<>>
Off        == <<0>>
IsHint(h)  == Len(h) = 2

NoBytes == [what |-> "nothing", hs |-> 0, n |-> 0, kind |-> "none"]

Event(what, i, payload, bytes) ==
    [what |-> what, peer |-> i, payload |-> payload, bytes |-> bytes]
Found(i, payload)  == Event("found", i, payload, NoBytes)
Lost(i)            == Event("lost", i, Off, NoBytes)
Opened(i)          == Event("opened", i, Off, NoBytes)
Closed(i)          == Event("closed", i, Off, NoBytes)
Failed(i)          == Event("failed", i, Off, NoBytes)
Received(i, bytes) == Event("received", i, Off, bytes)

Node(i)   == CHOOSE p \in Phone : id[p] = i
Exists(i) == \E p \in Phone : id[p] = i

(* What each queue gains, as a function from phones to sequences.  Deliver  *)
(* is Post on behalf of the delivery thread, which first took an event.     *)
Nobody == [p \in Phone |-> <<>>]
To(p, events) == [Nobody EXCEPT ![p] = events]
ToScanners(me, events) ==
    [p \in Phone |-> IF p # me /\ scanning[p] THEN events ELSE <<>>]
ToBoth(p, i, mine, theirs) == [To(p, <<mine>>) EXCEPT ![Node(i)] = <<theirs>>]
Post(new) == queue' = [p \in Phone |-> queue[p] \o new[p]]
Deliver(me, new) ==
    queue' = [p \in Phone |-> (IF p = me THEN Tail(queue[p]) ELSE queue[p]) \o new[p]]

-----------------------------------------------------------------------------
(* The calls.  A call that is refused returns an error and changes nothing. *)

MayRename(p, fresh) == pipes[p] = {} /\ ~Exists(fresh)

(* Mutant: the old name is not announced lost. *)
RenameQuietly(p, fresh) ==
    /\ MayRename(p, fresh)
    /\ id' = [id EXCEPT ![p] = fresh]
    /\ Post(ToScanners(p, IF adv[p] # Off THEN <<Found(fresh, adv[p])>> ELSE <<>>))
    /\ UNCHANGED <<adv, scanning, pipes>>

SetLocalId(p, fresh) ==
    /\ MayRename(p, fresh)
    /\ id' = [id EXCEPT ![p] = fresh]
    /\ Post(ToScanners(p, <<Lost(id[p])>> \o
            (IF adv[p] # Off THEN <<Found(fresh, adv[p])>> ELSE <<>>)))
    /\ UNCHANGED <<adv, scanning, pipes>>

StartAdvertising(p, payload) ==
    /\ adv' = [adv EXCEPT ![p] = payload]
    /\ Post(ToScanners(p, <<Found(id[p], payload)>>))
    /\ UNCHANGED <<id, scanning, pipes>>

StopAdvertising(p) ==
    /\ adv' = [adv EXCEPT ![p] = Off]
    /\ Post(IF adv[p] # Off THEN ToScanners(p, <<Lost(id[p])>>) ELSE Nobody)
    /\ UNCHANGED <<id, scanning, pipes>>

StartScanning(p) ==
    /\ scanning' = [scanning EXCEPT ![p] = TRUE]
    /\ \E order \in SetToSeqs({q \in Phone \ {p} : adv[q] # Off}) :
          Post(To(p, [k \in DOMAIN order |-> Found(id[order[k]], adv[order[k]])]))
    /\ UNCHANGED <<id, adv, pipes>>

(* Acceptance only: the pipe is usable once the event arrives, which is     *)
(* posted for a pipe that was already open too (rule 2).                    *)
Connect(p, i) ==
    IF Exists(i)
    THEN /\ pipes' = [pipes EXCEPT ![p] = @ \union {i}, ![Node(i)] = @ \union {id[p]}]
         /\ Post(ToBoth(p, i, Opened(i), Opened(id[p])))
         /\ UNCHANGED <<id, adv, scanning>>
    ELSE /\ Post(To(p, <<Failed(i)>>))
         /\ UNCHANGED <<id, adv, scanning, pipes>>

(* What a run of sends on one pipe puts in the other end's queue.           *)
Sends(p, i, messages) ==
    IF i \in pipes[p]
    THEN To(Node(i), [k \in DOMAIN messages |-> Received(id[p], messages[k])])
    ELSE Nobody

Disconnect(p, i) ==
    IF i \in pipes[p]
    THEN /\ pipes' = [pipes EXCEPT ![p] = @ \ {i}, ![Node(i)] = @ \ {id[p]}]
         /\ Post(ToBoth(p, i, Closed(i), Closed(id[p])))
         /\ UNCHANGED <<id, adv, scanning>>
    ELSE UNCHANGED rungVars

(* The node leaves the airspace and another joins under a fresh id: its     *)
(* pipes close at the far ends, its advertisement is lost, and whatever its *)
(* own queue held is dropped with the revoked sink (rule 6).                *)
ShutdownAndRejoin(p, fresh) ==
    /\ ~Exists(fresh)
    /\ id' = [id EXCEPT ![p] = fresh]
    /\ adv' = [adv EXCEPT ![p] = Off]
    /\ scanning' = [scanning EXCEPT ![p] = FALSE]
    /\ pipes' = [q \in Phone |-> IF q = p THEN {} ELSE pipes[q] \ {id[p]}]
    /\ queue' = [q \in Phone |->
          IF q = p THEN <<>>
          ELSE queue[q]
               \o (IF id[p] \in pipes[q] THEN <<Closed(id[p])>> ELSE <<>>)
               \o (IF scanning[q] /\ adv[p] # Off THEN <<Lost(id[p])>> ELSE <<>>)]

=============================================================================
