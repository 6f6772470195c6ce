------------------------------- MODULE Rung -------------------------------
(***************************************************************************)
(* How a rung hands what happened to the layer above, the same in          *)
(* transport/loopback.rs, transport/lan.rs and transport/ble.rs.  A queue  *)
(* and a thread of its own run the sink, so that no call of the rung does  *)
(* (rule 1), and shutdown revokes it (rule 6): the flag first, then a lock *)
(* that waits for the delivery under way, unless shutdown was called by    *)
(* the sink itself, whose own thread holds that lock.                      *)
(* A rung's module extends this one and says what is emitted and when.     *)
(* Calls come from two threads here, the user's and the clock's, and a     *)
(* call that is not atomic is a task its thread has in hand.               *)
(***************************************************************************)
EXTENDS Naturals, Sequences

CONSTANTS
    Phone,      \* the devices, each with a rung and a sink of its own
    Plans       \* what the environment may do, and how often: one is chosen

VARIABLES
    queue,      \* the events on their way to the sink
    busy,       \* the event the sink is being run with, Nothing between two
    life,       \* "up", or how far shutdown has come
    inside,     \* whether shutdown was called by the delivery under way
    heard,      \* the peers the sink was last told it has an open pipe to
    task,       \* what each calling thread is in the middle of
    left        \* how often each event of the environment may still happen

sinkVars == <<queue, busy, life, inside, heard>>

Threads == {"user", "clock"}
Idle == [at |-> "idle", peer |-> 0, ref |-> 0]
Free(p, t) == task[p][t] = Idle
At(p, t, step) == task[p][t].at = step
Goto(p, t, step, i, n) ==
    task' = [task EXCEPT ![p][t] = [at |-> step, peer |-> i, ref |-> n]]
Finish(p, t) == task' = [task EXCEPT ![p][t] = Idle]
Spend(event) == left[event] > 0 /\ left' = [left EXCEPT ![event] = @ - 1]

Event(what, i) == [what |-> what, peer |-> i]
Nothing == Event("nothing", 0)

Up(p)      == life[p] = "up"
Revoked(p) == life[p] \in {"revoked", "returned"}

SinkInit ==
    /\ queue = [p \in Phone |-> <<>>]
    /\ busy = [p \in Phone |-> Nothing]
    /\ life = [p \in Phone |-> "up"]
    /\ inside = [p \in Phone |-> FALSE]
    /\ heard = [p \in Phone |-> {}]
    /\ task = [p \in Phone |-> [t \in Threads |-> Idle]]
    /\ left \in Plans

(* Nothing is queued once the rung is going down.                           *)
Emit(p, events) ==
    /\ queue' = IF Up(p) THEN [queue EXCEPT ![p] = @ \o events] ELSE queue
    /\ UNCHANGED <<busy, life, inside, heard>>

Told(open, event) ==
    CASE event.what = "opened" -> open \union {event.peer}
      [] event.what = "closed" -> open \ {event.peer}
      [] OTHER -> open

(* The dispatch thread takes an event and the guard of the sink together,   *)
(* and drops the event if the sink has been revoked since it was queued.    *)
TakeEvent(p) ==
    /\ queue[p] # <<>> /\ busy[p] = Nothing
    /\ queue' = [queue EXCEPT ![p] = Tail(@)]
    /\ IF Revoked(p)
       THEN UNCHANGED <<busy, heard>>
       ELSE /\ busy' = [busy EXCEPT ![p] = Head(queue[p])]
            /\ heard' = [heard EXCEPT ![p] = Told(@, Head(queue[p]))]
    /\ UNCHANGED <<life, inside>>

FinishEvent(p) ==
    /\ busy[p] # Nothing
    /\ busy' = [busy EXCEPT ![p] = Nothing]
    /\ inside' = [inside EXCEPT ![p] = FALSE]
    /\ UNCHANGED <<queue, life, heard>>

(* shutdown: the flag that stops calls and new events, first of all.        *)
Down(p) ==
    /\ Up(p)
    /\ life' = [life EXCEPT ![p] = "closing"]
    /\ inside' \in {[inside EXCEPT ![p] = b] : b \in {FALSE, busy[p] # Nothing}}
    /\ UNCHANGED <<queue, busy, heard>>

Drained(p) ==
    /\ life[p] = "closing"
    /\ life' = [life EXCEPT ![p] = "drained"]
    /\ UNCHANGED <<queue, busy, inside, heard>>

Revoke(p) ==
    /\ life[p] = "drained"
    /\ life' = [life EXCEPT ![p] = "revoked"]
    /\ UNCHANGED <<queue, busy, inside, heard>>

(* Mutant: shutdown does not wait for the delivery under way. *)
ReturnAtOnce(p) ==
    /\ life[p] = "revoked"
    /\ life' = [life EXCEPT ![p] = "returned"]
    /\ UNCHANGED <<queue, busy, inside, heard>>

(* The write lock: granted when no delivery is under way.                   *)
Return(p) ==
    /\ life[p] = "revoked"
    /\ busy[p] = Nothing \/ inside[p]
    /\ life' = [life EXCEPT ![p] = "returned"]
    /\ UNCHANGED <<queue, busy, inside, heard>>

-----------------------------------------------------------------------------
(* Rule 6 of the contract: once shutdown has returned no event is being     *)
(* delivered and none will be, except the one whose own handler called it.  *)
SilentAfterShutdown ==
    \A p \in Phone : life[p] = "returned" /\ ~inside[p] => busy[p] = Nothing

=============================================================================
