----------------------------- MODULE Discovery -----------------------------
(***************************************************************************)
(* Finding people nearby (discovery/mod.rs) over the loopback rung: what a *)
(* phone advertises, the id it advertises under, when both change, and the *)
(* list of who has been sighted.                                           *)
(* Three threads of a phone reach this state: the pump hands it the rung's *)
(* events, the user's call switches discovery on and off, and the clock    *)
(* ticks every thirty seconds.  Only on_the_air is held across a call of   *)
(* the rung (publish); every other lock covers one assignment, so the      *)
(* steps of a tick and of a switch interleave here as they do there.       *)
(* The interface awaits one switch before it makes the next.               *)
(***************************************************************************)
EXTENDS Loopback

CONSTANT Burst      \* RATE_LIMIT_BURST, the answers one asker gets in a window

ASSUME BurstIsPositive == Burst \in Nat \ {0}

VARIABLES
    on,         \* the switch
    localId,    \* the id hints are bound to and handshakes are decided by
    air,        \* on_the_air: the advertisement last put up, Off if none is
    seen,       \* sightings: for each id, Off if absent, else its hint or Bare
    named,      \* the ids whose persona has been learnt
    hits,       \* the requests of each asker in the current window
    epoch,      \* the period hints are derived for, the same on every phone
    task,       \* what the user's call and the clock are in the middle of
    left        \* how often each event of the environment may still happen

discoveryVars == <<on, localId, air, seen, named, hits, epoch, task, left>>

Threads == {"user", "clock"}
Idle == [at |-> "idle", want |-> Off, peer |-> 0, bytes |-> NoBytes]
Free(p, t) == task[p][t].at = "idle"
At(p, t, step) == task[p][t].at = step
Goto(p, t, step) == task' = [task EXCEPT ![p][t].at = step]
Finish(p, t) == task' = [task EXCEPT ![p][t] = Idle]
Spend(event) == left[event] > 0 /\ left' = [left EXCEPT ![event] = @ - 1]

PayloadNow(p) == Hint(localId[p], epoch)

-----------------------------------------------------------------------------
(* publish, in either thread: what to say is read first, and the lock on    *)
(* what is on the air is taken afterwards and held while the rung is told.  *)
ReadPayload(p, t) ==
    /\ At(p, t, "payload")
    /\ task' = [task EXCEPT ![p][t].at = "publish", ![p][t].want = PayloadNow(p)]
    /\ UNCHANGED <<rungVars, on, localId, air, seen, named, hits, epoch, left>>

Publish(p, t) ==
    /\ At(p, t, "publish")
    /\ IF air[p] = task[p][t].want
       THEN UNCHANGED <<rungVars, air>>
       ELSE /\ StartAdvertising(p, task[p][t].want)
            /\ air' = [air EXCEPT ![p] = task[p][t].want]
    /\ IF t = "user" THEN Goto(p, t, "scan") ELSE Finish(p, t)
    /\ UNCHANGED <<on, localId, seen, named, hits, epoch, left>>

(* set_discovery(true): the switch, then publish, then scanning.            *)
SwitchOn(p) ==
    /\ Free(p, "user") /\ Spend("switch")
    /\ on' = [on EXCEPT ![p] = TRUE]
    /\ Goto(p, "user", "payload")
    /\ UNCHANGED <<rungVars, localId, air, seen, named, hits, epoch>>

Scan(p) ==
    /\ At(p, "user", "scan")
    /\ StartScanning(p)
    /\ Finish(p, "user")
    /\ UNCHANGED <<on, localId, air, seen, named, hits, epoch, left>>

(* set_discovery(false): the switch, then the rung, then the memory of what *)
(* is on the air.                                                           *)
SwitchOff(p) ==
    /\ Free(p, "user") /\ Spend("switch")
    /\ on' = [on EXCEPT ![p] = FALSE]
    /\ Goto(p, "user", "stop")
    /\ UNCHANGED <<rungVars, localId, air, seen, named, hits, epoch>>

Stop(p) ==
    /\ At(p, "user", "stop")
    /\ StopAdvertising(p)
    /\ Goto(p, "user", "forget")
    /\ UNCHANGED <<on, localId, air, seen, named, hits, epoch, left>>

ForgetAir(p) ==
    /\ At(p, "user", "forget")
    /\ air' = [air EXCEPT ![p] = Off]
    /\ Finish(p, "user")
    /\ UNCHANGED <<rungVars, on, localId, seen, named, hits, epoch, left>>

-----------------------------------------------------------------------------
(* Mutant: a tick publishes only when it rotates. *)
TickOnlyToRotate(p) ==
    /\ left["ticks"] > 0 /\ Free(p, "clock") /\ on[p]
    /\ Goto(p, "clock", "quiet") /\ Spend("rotate")
    /\ UNCHANGED <<rungVars, on, localId, air, seen, named, hits, epoch>>

(* A tick sweeps the buckets, and does nothing more while discovery is off. *)
(* Otherwise it rotates the id when that is due, and publishes in any case. *)
Tick(p) ==
    /\ left["ticks"] > 0
    /\ task[p]["clock"].at \in {"idle", "swept"}
    /\ \E expired \in SUBSET {i \in Id : hits[p][i] > 0} :
          hits' = [hits EXCEPT ![p] = [i \in Id |-> IF i \in expired THEN 0 ELSE @[i]]]
    /\ \/ ~on[p] /\ Finish(p, "clock") /\ UNCHANGED left
       \/ on[p] /\ Goto(p, "clock", "payload") /\ UNCHANGED left
       \/ on[p] /\ Goto(p, "clock", "quiet") /\ Spend("rotate")
    /\ UNCHANGED <<rungVars, on, localId, air, seen, named, epoch>>

(* rotate: the old hint comes off the air before the id changes, so that no *)
(* listener hears one hint under two ids.                                   *)
GoQuiet(p) ==
    /\ At(p, "clock", "quiet")
    /\ StartAdvertising(p, Bare)
    /\ Goto(p, "clock", "quieted")
    /\ UNCHANGED <<on, localId, air, seen, named, hits, epoch, left>>

RememberQuiet(p) ==
    /\ At(p, "clock", "quieted")
    /\ air' = [air EXCEPT ![p] = Bare]
    /\ Goto(p, "clock", "rename")
    /\ UNCHANGED <<rungVars, on, localId, seen, named, hits, epoch, left>>

(* ephemeral_id: sixteen random digits, never an id that is already about.  *)
Fresh == {i \in Id : ~Exists(i) /\ \A p \in Phone : seen[p][i] = Off /\ localId[p] # i}

Rename(p) ==
    /\ At(p, "clock", "rename")
    /\ \/ \E fresh \in Fresh :
             /\ SetLocalId(p, fresh)
             /\ task' = [task EXCEPT ![p]["clock"].at = "renamed",
                                     ![p]["clock"].peer = fresh]
       \/ pipes[p] # {} /\ Goto(p, "clock", "payload") /\ UNCHANGED rungVars
    /\ UNCHANGED <<on, localId, air, seen, named, hits, epoch, left>>

AdoptId(p) ==
    /\ At(p, "clock", "renamed")
    /\ localId' = [localId EXCEPT ![p] = task[p]["clock"].peer]
    /\ task' = [task EXCEPT ![p]["clock"] = [Idle EXCEPT !.at = "payload"]]
    /\ UNCHANGED <<rungVars, on, air, seen, named, hits, epoch, left>>

(* The period hints are derived for turns over everywhere at once.          *)
EpochTurns ==
    /\ Spend("epoch")
    /\ epoch' = epoch + 1
    /\ UNCHANGED <<rungVars, on, localId, air, seen, named, hits, task>>

-----------------------------------------------------------------------------
(* on_event.  A sighting keeps the hint it has when an advertisement        *)
(* without one is found, and whoever is lost is forgotten whole.            *)
Refreshed(old, payload) == IF old = Off \/ IsHint(payload) THEN payload ELSE old

Sight(p) ==
    /\ queue[p] # <<>> /\ Head(queue[p]).what = "found"
    /\ LET e == Head(queue[p])
       IN  seen' = [seen EXCEPT ![p][e.peer] = Refreshed(@, e.payload)]
    /\ Deliver(p, Nobody)
    /\ UNCHANGED <<id, adv, scanning, pipes, on, localId, air, named, hits, epoch, task, left>>

Lose(p) ==
    /\ queue[p] # <<>> /\ Head(queue[p]).what = "lost"
    /\ seen' = [seen EXCEPT ![p][Head(queue[p]).peer] = Off]
    /\ named' = [named EXCEPT ![p] = @ \ {Head(queue[p]).peer}]
    /\ Deliver(p, Nobody)
    /\ UNCHANGED <<id, adv, scanning, pipes, on, localId, air, hits, epoch, task, left>>

(* answer: a request is met with silence while discovery is off, and once   *)
(* its asker has used up the burst; only an asker who is heard is counted.  *)
Answers(p, i) == on[p] /\ hits[p][i] < Burst
CountRequest(p, i) ==
    hits' = IF Answers(p, i) THEN [hits EXCEPT ![p][i] = @ + 1] ELSE hits

(* What goes on once it has begun: a switch, and a tick.                    *)
SwitchStep(p) ==
    ReadPayload(p, "user") \/ Publish(p, "user") \/ Scan(p) \/ Stop(p) \/ ForgetAir(p)
TickStep(p) ==
    \/ ReadPayload(p, "clock") \/ Publish(p, "clock")
    \/ GoQuiet(p) \/ RememberQuiet(p) \/ Rename(p) \/ AdoptId(p)

-----------------------------------------------------------------------------
(* Whoever scans and has heard everything its rung has told it knows just   *)
(* who is advertising and the hint each last put up: an id that was given   *)
(* up is gone from every list, whatever else moved meanwhile.               *)
(* (Discovery::on_event and the calls of the rung that announce a change)   *)
SightingsMatchTheAir ==
    \A p \in Phone : scanning[p] /\ queue[p] = <<>> =>
        /\ \A i \in Id : seen[p][i] # Off <=> \E q \in Phone \ {p} : id[q] = i /\ adv[q] # Off
        /\ \A q \in Phone \ {p} : IsHint(adv[q]) => seen[p][id[q]] = adv[q]

(* What discovery remembers to have put on the air is on the air, once the  *)
(* calls that were changing it are through, and while the switch is on      *)
(* something is: publish, which skips what it remembers, would otherwise    *)
(* leave the phone unfindable until the next epoch.                         *)
(* (publish, go_quiet, set_enabled)                                         *)
AirIsRemembered ==
    \A p \in Phone : (\A t \in Threads : Free(p, t)) =>
        /\ air[p] # Off => adv[p] = air[p]
        /\ on[p] => air[p] # Off

(* What is on the air, what its phone thinks of it and what the others know *)
(* of it agree.                                                             *)
AirIsKnown == SightingsMatchTheAir /\ AirIsRemembered

(* "After this returns, the rung emits nothing discoverable": with          *)
(* discovery off and no call of the user's in progress, nothing is          *)
(* advertised (transport/mod.rs, stop_advertising).                         *)
OffIsOff == \A p \in Phone : ~on[p] /\ Free(p, "user") => adv[p] = Off

(* No hint is ever advertised under an id it was not made for, so that      *)
(* nobody who listens can join the ids before and after a rotation          *)
(* (go_quiet).                                                              *)
NoHintUnderTwoIds == \A p \in Phone : IsHint(adv[p]) => adv[p][1] = id[p]

(* A phone that stays on ends up advertising the current hint under its     *)
(* current id, whatever a switch or a rotation left behind: the clock comes *)
(* round and publishes what has changed (tick).                             *)
HintsCatchUp == <>[](\A p \in Phone : on[p] => adv[p] = Hint(id[p], epoch))

=============================================================================
