------------------------------ MODULE Startup ------------------------------
(***************************************************************************)
(* One device's launches and wipes: the file keystore behind the platform  *)
(* wrapper, the database it keys, the identity it seals and the marker     *)
(* that says a wipe began.  Every write to the disk is a step, and the     *)
(* process may be killed, or the power cut, between any two of them.       *)
(*                                                                         *)
(* A secret is the number of the draw that made it, 0 being none; both     *)
(* seeds of an identity come of one draw, and a database file is numbered  *)
(* with them.  The file store lives and dies with the database and is not  *)
(* shown apart from it.                                                    *)
(***************************************************************************)
EXTENDS Naturals, FiniteSets

CONSTANTS Latest,        \* the schema version this build migrates to
          MaxWipes, MaxRenames, MaxFaults

ASSUME BoundsAreNumbers ==
    /\ Latest \in Nat \ {0}
    /\ {MaxWipes, MaxRenames, MaxFaults} \subseteq Nat

Labels == {"layer1", "layer2", "master"}

VARIABLES
    sealed,     \* the keystore directory: the secret under each label
    form,       \* how it was written: bare, wrapped, or wrapped by another phone
    db,         \* the database: which file, its key, schema version and persona row
    marker,     \* whether the .wiping file exists
    undone,     \* what a power cut would bring back: removed, not yet synced
    risen,      \* the secrets one brought back, neither replaced nor erased since
    at,         \* the step the call in hand is about to take, or "rest"
    launching,  \* whether that call is a launch
    had,        \* open_store's had_master
    retried,    \* whether the stale database was reset in this launch
    core,       \* CORE: the engine's identity, key and persona version
    made,       \* how many secrets and files were ever made
    doomed,     \* everything made up to this one was to be destroyed by a wipe
    lived,      \* the seeds, key and file last installed, no wipe being asked since
    served,     \* the persona version they last answered peers with
    spent       \* the wipes, renames and faults so far

disk == <<sealed, form, db, marker, undone, risen>>
call == <<at, launching, had, retried>>
told == <<doomed, lived, served>>
vars == <<disk, call, core, made, told, spent>>

NoDb == [file |-> 0, key |-> 0, version |-> 0, name |-> 0]
NoCore == [layer1 |-> 0, layer2 |-> 0, key |-> 0, name |-> 0]
Nobody == [layer1 |-> 0, layer2 |-> 0, key |-> 0, file |-> 0]

Running == core # NoCore
Stale == db # NoDb /\ db.key # sealed["master"]

----------------------------------------------------------------------------
(* Faults are counted, so that a behaviour has finitely many. *)
Spend(what) == spent' = [spent EXCEPT ![what] = @ + 1]
Healthy == UNCHANGED spent
Faulty == spent.faults < MaxFaults /\ Spend("faults")

Goto(step) == at' = step /\ UNCHANGED <<launching, had, retried>>

(* The call in hand returns, with an error or without. *)
Return == at' = "rest" /\ launching' = FALSE /\ had' = FALSE /\ retried' = FALSE

----------------------------------------------------------------------------
(* The keystore.  What a read of a label comes back with; a backend error  *)
(* may stand for any of them.                                              *)
Contents(label) ==
    CASE sealed[label] = 0 -> "missing"
      [] form[label] = "foreign" -> "broken"
      [] OTHER -> "read"

Unseal(label, answer) ==
    \/ answer = Contents(label) /\ Healthy
    \/ answer = "broken" /\ Contents(label) # "broken" /\ Faulty

(* A secret from before the hardware is wrapped on the way past, if it can be. *)
Upgrade(labels) ==
    \E wrapped \in SUBSET {l \in labels : sealed[l] # 0 /\ form[l] = "bare"} :
        form' = [l \in Labels |-> IF l \in wrapped THEN "wrapped" ELSE form[l]]

(* Staged, renamed and the directory synced: what was removed from it      *)
(* before is gone for good.                                                *)
Seal(label, secret) ==
    /\ sealed' = [sealed EXCEPT ![label] = secret]
    /\ form' = [form EXCEPT ![label] = "wrapped"]
    /\ undone' = [undone EXCEPT !.sealed = [l \in Labels |-> 0]]
    /\ risen' = risen \ {label}

(* Unlinked, and the directory not synced. *)
Wipe(label) ==
    /\ sealed' = [sealed EXCEPT ![label] = 0]
    /\ undone' = IF sealed[label] = 0 THEN undone
                 ELSE [undone EXCEPT !.sealed[label] = sealed[label]]
    /\ risen' = risen \ {label}
    /\ UNCHANGED form

(* Mutant: a label with nothing under it is an error, not a wipe that      *)
(* already happened.                                                       *)
AbsentIsAnError(label) == sealed[label] # 0

Wipeable(label) == TRUE

RemoveDb ==
    /\ db' = NoDb
    /\ undone' = IF db = NoDb THEN undone ELSE [undone EXCEPT !.db = db]

----------------------------------------------------------------------------
(* open_store, before anything is opened: a launch that cannot tell        *)
(* whether a wipe was interrupted refuses to start.                        *)

(* Mutant: the launch does not ask after the marker. *)
NeverAsks == at' = "look"

AsksAfterMarker == at' = IF marker THEN "layer1" ELSE "look"

Launch ==
    /\ at = "rest" /\ ~Running
    /\ \/ /\ AsksAfterMarker
          /\ launching' = TRUE /\ had' = FALSE /\ retried' = FALSE
          /\ Healthy
       \/ Faulty /\ UNCHANGED call
    /\ UNCHANGED <<disk, core, made, told>>

(* had_master: only a definite absence counts as none. *)

(* Mutant: a keystore that did not answer holds no master. *)
BrokenIsNone(answer) == answer = "read"

MasterIsSealed(answer) == answer # "missing"

Look ==
    /\ at = "look"
    /\ \E answer \in {"read", "missing", "broken"} :
        /\ Unseal("master", answer)
        /\ IF answer = "read" THEN Upgrade({"master"}) ELSE UNCHANGED form
        /\ had' = MasterIsSealed(answer)
    /\ at' = "key"
    /\ UNCHANGED <<sealed, risen, db, marker, undone, launching, retried, core, made, told>>

(* Store::open came back with an error. *)
Refused ==
    IF ~had /\ db # NoDb /\ ~retried THEN Goto("reset") ELSE Return

(* The master is unsealed, or drawn and sealed. *)
Key ==
    /\ at = "key"
    /\ \E answer \in {"read", "missing", "broken"} :
        /\ Unseal("master", answer)
        /\ CASE answer = "read" -> /\ Upgrade({"master"})
                                   /\ Goto("open")
                                   /\ UNCHANGED <<sealed, risen, undone, made>>
             [] answer = "missing" -> /\ made' = made + 1
                                      /\ Seal("master", made')
                                      /\ Goto("open")
             [] answer = "broken" -> Refused /\ UNCHANGED <<sealed, risen, form, undone, made>>
    /\ UNCHANGED <<db, marker, core, told>>

CannotSealMaster ==
    /\ at = "key" /\ sealed["master"] = 0
    /\ Faulty
    /\ Refused
    /\ UNCHANGED <<disk, core, made, told>>

(* A file that is not there is created; one keyed otherwise does not open. *)
OpenDb ==
    /\ at = "open"
    /\ \/ /\ db = NoDb
          /\ made' = made + 1
          /\ db' = [NoDb EXCEPT !.file = made', !.key = sealed["master"]]
          /\ undone' = [undone EXCEPT !.db = NoDb]
          /\ Goto("migrate") /\ Healthy
       \/ /\ db # NoDb /\ ~Stale
          /\ Goto("migrate") /\ Healthy
          /\ UNCHANGED <<db, undone, made>>
       \/ /\ IF Stale THEN Healthy ELSE Faulty
          /\ Refused
          /\ UNCHANGED <<db, undone, made>>
    /\ UNCHANGED <<sealed, risen, form, marker, core, told>>

(* Each step and its version commit together. *)
Migrate ==
    /\ at = "migrate"
    /\ \/ /\ db.version < Latest
          /\ db' = [db EXCEPT !.version = @ + 1]
          /\ Healthy /\ UNCHANGED call
       \/ /\ db.version < Latest
          /\ Faulty /\ Refused /\ UNCHANGED db
       \/ /\ db.version = Latest
          /\ Goto("identity") /\ Healthy /\ UNCHANGED db
    /\ UNCHANGED <<sealed, risen, form, marker, undone, core, made, told>>

(* The database nobody can key is removed, and the store opened again. *)
ResetStaleDb ==
    /\ at = "reset"
    /\ \/ /\ RemoveDb
          /\ at' = "key" /\ retried' = TRUE
          /\ Healthy /\ UNCHANGED <<launching, had>>
       \/ Faulty /\ Return /\ UNCHANGED <<db, undone>>
    /\ UNCHANGED <<sealed, risen, form, marker, core, made, told>>

----------------------------------------------------------------------------
(* load_identity: a backend error is looked for before absence. *)
Unsealed(one, two) ==
    CASE one = "broken" \/ two = "broken" -> "refuse"
      [] one = "missing" \/ two = "missing" -> "new"
      [] OTHER -> "same"

LoadIdentity ==
    /\ at = "identity"
    /\ \E one, two \in {"read", "missing", "broken"} :
        /\ LET true == one = Contents("layer1") /\ two = Contents("layer2")
           IN /\ one \in {Contents("layer1"), "broken"}
              /\ two \in {Contents("layer2"), "broken"}
              /\ IF true THEN Healthy ELSE Faulty
        /\ Upgrade({l \in {"layer1", "layer2"} :
                      (IF l = "layer1" THEN one ELSE two) = "read"})
        /\ CASE Unsealed(one, two) = "same" -> Goto("install") /\ UNCHANGED made
             [] Unsealed(one, two) = "new" -> Goto("seal1") /\ made' = made + 1
             [] OTHER -> Return /\ UNCHANGED made
    /\ UNCHANGED <<sealed, risen, db, marker, undone, core, told>>

(* seal_seeds: two labels, two writes. *)
SealSeed(step, label, next) ==
    /\ at = step
    /\ \/ Seal(label, made) /\ Goto(next) /\ Healthy
       \/ Faulty /\ Return /\ UNCHANGED <<sealed, risen, form, undone>>
    /\ UNCHANGED <<db, marker, core, made, told>>

SealSeeds ==
    \/ SealSeed("seal1", "layer1", "seal2")
    \/ SealSeed("seal2", "layer2", "install")

(* The persona row is written only when somebody chooses a name. *)
StoredPersona == IF db.name = 0 THEN 1 ELSE db.name

Install ==
    /\ at = "install"
    /\ \/ /\ core' = [layer1 |-> sealed["layer1"], layer2 |-> sealed["layer2"],
                      key |-> sealed["master"], name |-> StoredPersona]
          /\ lived' = [layer1 |-> core'.layer1, layer2 |-> core'.layer2,
                      key |-> core'.key, file |-> db.file]
          /\ served' = IF served > core'.name THEN served ELSE core'.name
          /\ Healthy
       \/ Faulty /\ UNCHANGED <<core, lived, served>>
    /\ Return
    /\ UNCHANGED <<disk, made, doomed>>

----------------------------------------------------------------------------
(* update_persona, under the engine's lock: stored, and then made live. *)
StoredFirst(stored) ==
    IF stored
    THEN /\ db' = [db EXCEPT !.name = core.name + 1]
         /\ core' = [core EXCEPT !.name = @ + 1]
    ELSE UNCHANGED <<db, core>>

Rename ==
    /\ Running /\ at = "rest"
    /\ spent.renames < MaxRenames
    /\ \E stored \in BOOLEAN :
        /\ StoredFirst(stored)
        /\ IF stored THEN Spend("renames")
           ELSE /\ spent.faults < MaxFaults
                /\ spent' = [spent EXCEPT !.renames = @ + 1, !.faults = @ + 1]
    /\ served' = IF lived = Nobody THEN 0 ELSE core'.name
    /\ UNCHANGED <<sealed, risen, form, marker, undone, call, made, doomed, lived>>

----------------------------------------------------------------------------
(* wipe: the marker, then the core, then the secrets, then the files. *)

MarkWipeStarted ==
    /\ at = "rest"
    /\ spent.wipes < MaxWipes
    /\ \/ /\ marker' = TRUE
          /\ Goto("stop")
          /\ doomed' = made /\ lived' = Nobody /\ served' = 0
          /\ Spend("wipes")
          /\ UNCHANGED <<sealed, risen, form, db, undone>>
       \/ /\ marker' \in {marker, TRUE}     \* not created, or created and not synced
          /\ spent.faults < MaxFaults
          /\ spent' = [spent EXCEPT !.wipes = @ + 1, !.faults = @ + 1]
          /\ lived' = IF marker' THEN Nobody ELSE lived
          /\ served' = IF marker' THEN 0 ELSE served
          /\ UNCHANGED <<sealed, risen, form, db, undone, call, doomed>>
    /\ UNCHANGED <<core, made>>

StopCore ==
    /\ at = "stop"
    /\ core' = NoCore
    /\ Goto("layer1")
    /\ UNCHANGED <<disk, made, told, spent>>

(* erase_everything, which a launch redoes from the top. *)
After(label) == CASE label = "layer1" -> "layer2"
                  [] label = "layer2" -> "master"
                  [] label = "master" -> "files"

EraseSecret ==
    /\ at \in Labels
    /\ \/ /\ Wipeable(at)
          /\ Wipe(at)
          /\ Goto(After(at)) /\ Healthy
       \/ /\ IF Wipeable(at) THEN Faulty ELSE Healthy
          /\ Return /\ UNCHANGED <<sealed, risen, form, undone>>
    /\ UNCHANGED <<db, marker, core, made, told>>

(* Best effort: what is left is ciphertext nobody can key. *)
DeleteStoreFiles ==
    /\ at = "files"
    /\ \/ RemoveDb /\ Healthy
       \/ db # NoDb /\ Faulty /\ UNCHANGED <<db, undone>>
    /\ Goto("unmark")
    /\ UNCHANGED <<sealed, risen, form, marker, core, made, told>>

(* The removal is synced, and with it that of the database beside it: not  *)
(* that of the secrets, which are in a directory of their own.             *)
ClearWipeMarker ==
    /\ at = "unmark"
    /\ \/ /\ marker' = FALSE
          /\ undone' = [undone EXCEPT !.db = NoDb]
          /\ Healthy
          /\ IF launching THEN Goto("look") ELSE Return
       \/ Faulty /\ Return /\ UNCHANGED <<marker, undone>>
    /\ UNCHANGED <<sealed, risen, form, db, core, made, told>>

----------------------------------------------------------------------------
(* The app is closed, killed, or loses its power. *)

Close ==
    /\ Running /\ at = "rest"
    /\ core' = NoCore
    /\ UNCHANGED <<disk, call, made, told, spent>>

Kill ==
    /\ Running \/ at # "rest"
    /\ Faulty
    /\ core' = NoCore /\ Return
    /\ UNCHANGED <<disk, made, told>>

PowerCut ==
    /\ Faulty
    /\ core' = NoCore /\ Return
    /\ \E back \in SUBSET {l \in Labels : undone.sealed[l] # 0}, dbBack \in BOOLEAN :
        /\ dbBack => undone.db # NoDb
        /\ back # {} \/ dbBack
        /\ sealed' = [l \in Labels |-> IF l \in back THEN undone.sealed[l] ELSE sealed[l]]
        /\ risen' = risen \union back
        /\ db' = IF dbBack THEN undone.db ELSE db
    /\ undone' = [sealed |-> [l \in Labels |-> 0], db |-> NoDb]
    /\ UNCHANGED <<form, marker, made, told>>

----------------------------------------------------------------------------
(* A phone nothing was installed on; one that has been run, before or      *)
(* since secrets were wrapped, perhaps by an older build; and its data     *)
(* restored onto a phone whose hardware cannot open it.                    *)
Init ==
    /\ undone = [sealed |-> [l \in Labels |-> 0], db |-> NoDb]
    /\ marker = FALSE /\ risen = {} /\ core = NoCore /\ doomed = 0 /\ served = 0
    /\ at = "rest" /\ launching = FALSE /\ had = FALSE /\ retried = FALSE
    /\ spent = [wipes |-> 0, renames |-> 0, faults |-> 0]
    /\ \/ /\ sealed = [l \in Labels |-> 0]
          /\ form = [l \in Labels |-> "wrapped"]
          /\ db = NoDb /\ made = 0 /\ lived = Nobody
       \/ /\ sealed = [layer1 |-> 2, layer2 |-> 2, master |-> 1]
          /\ made = 3
          /\ lived = [layer1 |-> 2, layer2 |-> 2, key |-> 1, file |-> 3]
          /\ form \in {[l \in Labels |-> f] : f \in {"bare", "wrapped", "foreign"}}
          /\ \E old \in 1..Latest : db = [file |-> 3, key |-> 1, version |-> old, name |-> 0]

Step ==
    \/ Look \/ Key \/ OpenDb \/ Migrate \/ ResetStaleDb
    \/ LoadIdentity \/ SealSeeds \/ Install
    \/ StopCore \/ EraseSecret \/ DeleteStoreFiles \/ ClearWipeMarker

Next ==
    \/ Launch \/ Step \/ CannotSealMaster
    \/ Rename \/ MarkWipeStarted
    \/ Close \/ Kill \/ PowerCut

Spec == Init /\ [][Next]_vars

(* A call that was begun goes on, and somebody opens the app again. *)
FairSpec == Spec /\ WF_vars(Step) /\ WF_vars(Launch)

----------------------------------------------------------------------------
(* Properties *)

(* Destroyed, or brought back by a power cut. *)
Gone(label, secret) == secret > doomed \/ label \in risen

(* A wipe's marker and its last erasure are synced, its erasures of the    *)
(* secrets are not: a power cut may bring one back after the marker is     *)
(* gone (filekeystore.rs wipe).  Nothing else does.  But for such a secret *)
(* no engine ever runs on anything a wipe was to destroy, nor on the seeds *)
(* of two identities; and once the marker is gone and no call is in hand,  *)
(* neither the seeds nor a database anybody could key are left of what was *)
(* there before (engine/mod.rs wipe, open_store, erase_everything).        *)
WipedIsGone ==
    /\ Running /\ at = "rest" =>
        /\ Gone("layer1", core.layer1) /\ Gone("layer2", core.layer2)
        /\ Gone("master", core.key)
        /\ core.layer1 = core.layer2 \/ "layer2" \in risen
    /\ ~marker /\ at = "rest" =>
        /\ \A l \in {"layer1", "layer2"} : sealed[l] # 0 => Gone(l, sealed[l])
        /\ db # NoDb /\ ~Stale => Gone("master", db.key)

(* Whatever fails, and wherever the process dies, a device that was somebody *)
(* keeps that identity and the database its master opens until it is asked   *)
(* to wipe them (Identity::unsealed, Store::master_is_sealed).               *)
IdentityIsKept ==
    lived # Nobody =>
        /\ sealed["layer1"] = lived.layer1 /\ sealed["layer2"] = lived.layer2
        /\ sealed["master"] = lived.key
        /\ db.key = lived.key /\ db.file = lived.file

(* A launch never goes back to a persona older than one this identity has  *)
(* served (update_persona stores before it makes live).                    *)
NoNameTakenBack == Running => core.name >= served

(* What a device was, and was called, it stays until it is asked to forget. *)
KeptUntilAsked == IdentityIsKept /\ NoNameTakenBack

(* A wipe that stopped the engine, or was found at a launch, is finished:  *)
(* the marker is taken down, whatever cut it short (engine/mod.rs wipe,    *)
(* open_store).                                                            *)
WipesFinish ==
    (marker /\ ~Running) ~> ~marker

(* Violated.  What a wipe erased is not found again: cut short at any point *)
(* it is finished by the next launch (engine/mod.rs wipe).                  *)
WipedStaysGone == Running => core.layer1 > doomed /\ core.layer2 > doomed

(* Violated.  A database no key opens is removed at the next launch: the   *)
(* path that resets it is open, no master being sealed.                    *)
StaleIsReset ==
    at = "rest" /\ Stale => sealed["master"] = 0
============================================================================
