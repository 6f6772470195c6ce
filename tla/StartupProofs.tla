--------------------------- MODULE StartupProofs ---------------------------
(***************************************************************************)
(* What a wipe destroys stays destroyed, and what nobody asked to wipe is  *)
(* kept, for every schema version and every number of launches, wipes,     *)
(* renames and faults.                                                     *)
(*                                                                         *)
(* The disk may undo any removal it was not asked to sync, of the          *)
(* database and of the secrets.  What that costs is in risen: a secret a   *)
(* power cut brought back is an exception to WipedIsGone, and to nothing   *)
(* else, for a device that was somebody has every label sealed, and        *)
(* nothing erased that could come back.                                    *)
(*                                                                         *)
(* Both speak of a device at rest.  StartupInv says what each step of a    *)
(* launch and of a wipe may rely on, and above all which secrets are there *)
(* when the marker is not, but for those that rose: none a wipe was to     *)
(* destroy, and no second seed without the first.                          *)
(***************************************************************************)
EXTENDS Startup, TLAPS

Opening == {"look", "key", "open", "migrate", "reset", "identity", "seal1", "seal2", "install"}
Wiping == {"stop", "layer1", "layer2", "master", "files", "unmark"}

DbType == [file : Nat, key : Nat, version : Nat, name : Nat]

UndoneType == [sealed : [Labels -> Nat], db : DbType]
LivedType == [layer1 : Nat, layer2 : Nat, key : Nat, file : Nat]

TypeOK ==
    /\ sealed \in [Labels -> Nat] /\ db \in DbType /\ marker \in BOOLEAN
    /\ undone \in UndoneType
    /\ risen \subseteq Labels
    /\ at \in {"rest"} \cup Opening \cup Wiping
    /\ core \in [layer1 : Nat, layer2 : Nat, key : Nat, name : Nat]
    /\ lived \in LivedType
    /\ made \in Nat /\ doomed \in Nat /\ served \in Nat
    /\ doomed <= made

(* A launch runs without the marker, a wipe under it, neither with an      *)
(* engine, but for the wipe that has yet to stop it.                       *)
StepOK ==
    /\ at \in Opening => ~marker /\ ~Running
    /\ at \in Wiping => marker
    /\ at \in Wiping \ {"stop"} => ~Running

(* What a wipe has erased by each of its steps. *)
ErasedOK ==
    /\ at \in {"layer2", "master", "files", "unmark"} => sealed["layer1"] = 0
    /\ at \in {"master", "files", "unmark"} => sealed["layer2"] = 0
    /\ at \in {"files", "unmark"} => sealed["master"] = 0

(* A database that is there has a key.  What was removed may come back     *)
(* only to an empty place.                                                 *)
FilesOK ==
    /\ db # NoDb => db.key # 0 /\ undone.db = NoDb
    /\ undone.db # NoDb => undone.db.key # 0
    /\ \A l \in Labels : undone.sealed[l] # 0 => sealed[l] = 0

(* What is sealed when no wipe is under way. *)
SecretsOK ==
    ~marker =>
        /\ \A l \in Labels : sealed[l] # 0 => Gone(l, sealed[l])
        /\ sealed["layer2"] # 0 =>
              sealed["layer1"] = sealed["layer2"] \/ "layer2" \in risen

(* What each step of a launch has made sure of. *)
LaunchOK ==
    /\ at \in {"key", "open", "migrate", "reset"} /\ ~had => lived = Nobody
    /\ at = "reset" => ~had
    /\ at \in {"open", "migrate", "identity", "seal1", "seal2", "install"} =>
          sealed["master"] # 0
    /\ at \in {"migrate", "identity", "seal1", "seal2", "install"} => db.key = sealed["master"]
    /\ at \in {"seal1", "seal2"} =>
          /\ made > doomed /\ lived = Nobody
          /\ sealed["layer2"] = 0 \/ "layer2" \in risen
    /\ at = "seal2" => sealed["layer1"] = made
    /\ at = "install" => sealed["layer1"] # 0 /\ sealed["layer2"] # 0

(* The engine that runs. *)
EngineOK ==
    Running =>
        /\ db.key # 0 /\ core.name = StoredPersona
        /\ at # "stop" =>
              /\ Gone("layer1", core.layer1) /\ Gone("layer2", core.layer2)
              /\ Gone("master", core.key)
              /\ core.layer1 = core.layer2 \/ "layer2" \in risen

(* The device that was somebody. *)
LivedOK ==
    /\ served <= StoredPersona
    /\ lived = Nobody => served = 0
    /\ lived # Nobody =>
          /\ ~marker /\ IdentityIsKept
          /\ lived.layer1 # 0 /\ lived.layer2 # 0 /\ lived.key # 0

StartupInv ==
    /\ TypeOK /\ StepOK /\ ErasedOK /\ FilesOK /\ SecretsOK /\ LaunchOK /\ EngineOK /\ LivedOK

(* open_store asks whether a master is sealed, and changes nothing but     *)
(* what it remembers of the answer: one it could not read counts as there. *)
LEMMA LookKeeps ==
    ASSUME StartupInv, Look
    PROVE  StartupInv'
<1>1. /\ at = "look" /\ at' = "key" /\ had' \in BOOLEAN
      /\ sealed["master"] = 0 \/ had'
  BY DEF Look, MasterIsSealed, Unseal, Contents
<1>2. UNCHANGED <<sealed, risen, db, marker, undone, core, made, doomed, lived, served>>
  BY DEF Look, told
<1>3. TypeOK' /\ StepOK' /\ ErasedOK' /\ FilesOK' /\ SecretsOK'
  BY <1>1, <1>2 DEF StartupInv, TypeOK, StepOK, ErasedOK, FilesOK, SecretsOK, Gone, Opening, Wiping, Running,
     StoredPersona
<1>4. LaunchOK' /\ EngineOK' /\ LivedOK'
  BY <1>1, <1>2 DEF StartupInv, TypeOK, StepOK, SecretsOK, Gone, LaunchOK, EngineOK, LivedOK, IdentityIsKept, Opening,
     Running, StoredPersona, Labels
<1> QED
  BY <1>3, <1>4 DEF StartupInv

(* A launch where the marker stands takes the wipe up again; where it does *)
(* not, the store is opened.                                               *)
LEMMA LaunchKeeps ==
    ASSUME StartupInv, Launch
    PROVE  StartupInv'
<1>1. /\ at = "rest" /\ ~Running
      /\ \/ at' = at
         \/ at' = "layer1" /\ marker
         \/ at' = "look" /\ ~marker
      /\ ~had' \/ at' = "rest"
  BY DEF Launch, AsksAfterMarker, call
<1>2. UNCHANGED <<sealed, risen, db, marker, undone, core, made, doomed, lived, served>>
  BY DEF Launch, told, disk
<1>3. TypeOK' /\ StepOK' /\ ErasedOK' /\ FilesOK' /\ SecretsOK'
  BY <1>1, <1>2 DEF StartupInv, TypeOK, StepOK, ErasedOK, FilesOK, SecretsOK, Gone, Opening, Wiping, Running,
     StoredPersona
<1>4. LaunchOK' /\ EngineOK' /\ LivedOK'
  BY <1>1, <1>2 DEF StartupInv, TypeOK, StepOK, SecretsOK, Gone, LaunchOK, EngineOK, LivedOK, IdentityIsKept, Opening,
     Running, StoredPersona, Labels
<1> QED
  BY <1>3, <1>4 DEF StartupInv

(* A launch that fails gives up, or goes on to throw the database away     *)
(* when it found no master at first.                                       *)
LEMMA RefusedGoes ==
    ASSUME Refused
    PROVE  /\ at' = "rest" \/ at' = "reset"
           /\ at' = "reset" => ~had /\ had' = had /\ db # NoDb
BY DEF Refused, Goto, Return

(* A keystore may fail to answer, but does not lie: what it calls missing  *)
(* is not sealed, and what it reads is.                                    *)
LEMMA AnswersAreTrue ==
    ASSUME NEW label, NEW answer, Unseal(label, answer)
    PROVE  /\ answer = "missing" => sealed[label] = 0
           /\ answer = "read" => sealed[label] # 0
BY DEF Unseal, Contents

(* A new master is drawn where none is sealed: then no seed is sealed      *)
(* either, and it takes nothing from anybody.                              *)
LEMMA MasterDrawn ==
    ASSUME StartupInv, at = "key", at' = "open", sealed["master"] = 0,
           made' = made + 1, Seal("master", made'), had' = had,
           UNCHANGED <<db, marker, core, doomed, lived, served>>
    PROVE  StartupInv'
<1>1. PICK n \in Nat : n = made + 1
  BY DEF StartupInv, TypeOK
<1>2. /\ sealed' = [sealed EXCEPT !["master"] = n] /\ made' = n /\ n > doomed /\ n # 0
      /\ undone' = [undone EXCEPT !.sealed = [l \in Labels |-> 0]]
      /\ risen' = risen \ {"master"}
  BY <1>1 DEF Seal, StartupInv, TypeOK
<1>3. /\ sealed' \in [Labels -> Nat] /\ sealed'["master"] = n
      /\ sealed'["layer1"] = sealed["layer1"] /\ sealed'["layer2"] = sealed["layer2"]
  BY <1>2 DEF StartupInv, TypeOK, Labels
<1>4. ~marker /\ ~Running /\ lived = Nobody
  BY DEF StartupInv, TypeOK, StepOK, LivedOK, IdentityIsKept, Opening, Labels
<1>5. /\ undone' \in UndoneType /\ undone'.db = undone.db
      /\ \A l \in Labels : undone'.sealed[l] = 0
  BY <1>2 DEF StartupInv, TypeOK, UndoneType
<1>6. TypeOK'
  BY <1>1, <1>2, <1>3, <1>5 DEF StartupInv, TypeOK, Opening
<1>7. StepOK' /\ ErasedOK' /\ FilesOK' /\ EngineOK'
  BY <1>4, <1>5 DEF StartupInv, StepOK, ErasedOK, FilesOK, EngineOK, Running, Opening, Wiping, Gone
<1>8. SecretsOK'
  BY <1>2, <1>3, <1>4 DEF StartupInv, SecretsOK, Gone, Labels
<1>9. LaunchOK' /\ LivedOK'
  BY <1>2, <1>3, <1>4 DEF StartupInv, LaunchOK, LivedOK, StoredPersona
<1> QED
  BY <1>6, <1>7, <1>8, <1>9 DEF StartupInv

(* A step that leaves the disk and the engine as they were keeps the       *)
(* invariant if it goes where it may.                                      *)
LEMMA StandingStill ==
    ASSUME StartupInv,
           \/ at' = "rest"
           \/ at = "key" /\ at' = "open" /\ sealed["master"] # 0 /\ had' = had
           \/ at \in {"key", "open", "migrate"} /\ at' = "reset" /\ ~had /\ had' = had
           \/ at = "migrate" /\ at' \in {"migrate", "identity"} /\ had' = had
           \/ at = "open" /\ at' = "migrate" /\ had' = had /\ db # NoDb /\ ~Stale
           \/ at = "identity" /\ at' = "install" /\ sealed["layer1"] # 0 /\ sealed["layer2"] # 0,
           at # "stop" \/ ~Running,
           UNCHANGED <<sealed, risen, db, marker, undone, core, made, doomed, lived, served>>
    PROVE  StartupInv'
<1>1. TypeOK' /\ FilesOK' /\ SecretsOK'
  BY DEF StartupInv, TypeOK, FilesOK, SecretsOK, Gone, Opening, Wiping, StoredPersona
<1>2. StepOK' /\ ErasedOK'
  BY DEF StartupInv, StepOK, ErasedOK, Running, Opening, Wiping
<1>3. LaunchOK'
  BY DEF StartupInv, LaunchOK, Stale, SecretsOK, Gone, StepOK, Opening
<1>4. EngineOK' /\ LivedOK'
  BY DEF StartupInv, EngineOK, LivedOK, IdentityIsKept, Running, StoredPersona, Gone
<1> QED
  BY <1>1, <1>2, <1>3, <1>4 DEF StartupInv

(* The master is unsealed, or drawn where none is sealed, or the launch    *)
(* fails.                                                                  *)
LEMMA KeyKeeps ==
    ASSUME StartupInv, Key
    PROVE  StartupInv'
<1>1. PICK answer \in {"read", "missing", "broken"} :
        /\ Unseal("master", answer)
        /\ CASE answer = "read" -> /\ Upgrade({"master"})
                                   /\ Goto("open")
                                   /\ UNCHANGED <<sealed, risen, undone, made>>
             [] answer = "missing" -> /\ made' = made + 1
                                      /\ Seal("master", made')
                                      /\ Goto("open")
             [] answer = "broken" -> Refused /\ UNCHANGED <<sealed, risen, form, undone, made>>
  BY Zenon DEF Key
<1>2. at = "key" /\ UNCHANGED <<db, marker, core, doomed, lived, served>>
  BY DEF Key, told
<1>3. CASE answer = "read"
  BY <1>1, <1>2, <1>3, AnswersAreTrue, StandingStill DEF Goto
<1>4. CASE answer = "missing"
  BY <1>1, <1>2, <1>4, AnswersAreTrue, MasterDrawn DEF Goto
<1>5. CASE answer = "broken"
  BY <1>1, <1>2, <1>5, RefusedGoes, StandingStill
<1> QED
  BY <1>1, <1>3, <1>4, <1>5

(* The new master cannot be sealed, and the launch fails.                  *)
LEMMA CannotSealMasterKeeps ==
    ASSUME StartupInv, CannotSealMaster
    PROVE  StartupInv'
BY RefusedGoes, StandingStill DEF CannotSealMaster, disk, told

(* A database is created under the master in force, where there was none.  *)
LEMMA DbCreated ==
    ASSUME StartupInv, at = "open", at' = "migrate", db = NoDb, NEW n \in Nat, n = made + 1, made' = n,
           db' = [NoDb EXCEPT !.file = n, !.key = sealed["master"]],
           undone' = [undone EXCEPT !.db = NoDb],
           had' = had,
           UNCHANGED <<sealed, risen, marker, core, doomed, lived, served>>
    PROVE  StartupInv'
<1>1. db' \in DbType /\ db'.key = sealed["master"] /\ sealed["master"] # 0
  BY DEF StartupInv, TypeOK, LaunchOK, NoDb, DbType, Labels
<1>2. undone' \in UndoneType /\ undone'.db = NoDb /\ undone'.sealed = undone.sealed
  BY DEF StartupInv, TypeOK, NoDb, DbType, UndoneType
<1>3. ~marker /\ ~Running /\ lived = Nobody
  BY DEF StartupInv, StepOK, Opening, LivedOK, IdentityIsKept, NoDb
<1>4. TypeOK'
  BY <1>1, <1>2 DEF StartupInv, TypeOK, Opening
<1>5. StepOK' /\ ErasedOK' /\ EngineOK'
  BY <1>3 DEF StartupInv, StepOK, ErasedOK, EngineOK, Running, Opening, Wiping, Gone
<1>6. FilesOK' /\ SecretsOK' /\ LaunchOK'
  BY <1>1, <1>2, <1>3 DEF StartupInv, FilesOK, SecretsOK, Gone, LaunchOK
<1>7. LivedOK'
  BY <1>1, <1>3 DEF StartupInv, TypeOK, DbType, LivedOK, StoredPersona
<1> QED
  BY <1>4, <1>5, <1>6, <1>7 DEF StartupInv

(* The database opens under the master, is created, or refuses the key.    *)
LEMMA OpenDbKeeps ==
    ASSUME StartupInv, OpenDb
    PROVE  StartupInv'
<1>1. at = "open" /\ UNCHANGED <<sealed, risen, marker, core, doomed, lived, served>>
  BY DEF OpenDb, told
<1>2. CASE db = NoDb /\ made' = made + 1
           /\ db' = [NoDb EXCEPT !.file = made', !.key = sealed["master"]]
           /\ undone' = [undone EXCEPT !.db = NoDb] /\ Goto("migrate")
  <2>1. made + 1 \in Nat
    BY DEF StartupInv, TypeOK
  <2> QED
    BY <1>1, <1>2, <2>1, DbCreated DEF Goto
<1>3. CASE db # NoDb /\ ~Stale /\ Goto("migrate") /\ UNCHANGED <<db, undone, made>>
  BY <1>1, <1>3, StandingStill DEF Goto
<1>4. CASE Refused /\ UNCHANGED <<db, undone, made>>
  BY <1>1, <1>4, RefusedGoes, StandingStill
<1> QED
  BY <1>2, <1>3, <1>4 DEF OpenDb

(* A migration raises the version of the schema and touches neither key    *)
(* nor rows.                                                               *)
LEMMA MigrateKeeps ==
    ASSUME StartupInv, Migrate
    PROVE  StartupInv'
<1>1. at = "migrate" /\ UNCHANGED <<sealed, risen, marker, undone, core, made, doomed, lived, served>>
  BY DEF Migrate, told
<1>2. CASE db' = [db EXCEPT !.version = @ + 1] /\ UNCHANGED call
  <2>1. at' = "migrate" /\ had' = had
    BY <1>1, <1>2 DEF call
  <2>2. /\ db' \in DbType /\ db'.key = db.key /\ db'.name = db.name /\ db'.file = db.file
        /\ db.key # 0 /\ db # NoDb
    BY <1>1, <1>2 DEF StartupInv, TypeOK, LaunchOK, DbType, NoDb
  <2>3. TypeOK' /\ StepOK' /\ ErasedOK'
    BY <1>1, <2>1, <2>2 DEF StartupInv, TypeOK, StepOK, ErasedOK, Running, Opening, Wiping
  <2>4. FilesOK' /\ SecretsOK' /\ LaunchOK'
    BY <1>1, <2>1, <2>2 DEF StartupInv, FilesOK, SecretsOK, Gone, LaunchOK, StoredPersona
  <2>5. EngineOK' /\ LivedOK'
    BY <1>1, <2>1, <2>2 DEF StartupInv, EngineOK, LivedOK, IdentityIsKept, Running, StoredPersona, Gone
  <2> QED
    BY <2>3, <2>4, <2>5 DEF StartupInv
<1>3. CASE Refused /\ UNCHANGED db
  <2>1. at # "stop" /\ (at' = "rest" \/ (at' = "reset" /\ ~had /\ had' = had))
    BY <1>1, <1>3, RefusedGoes
  <2> QED
    BY <1>1, <1>3, <2>1, StandingStill
<1>4. CASE Goto("identity") /\ UNCHANGED db
  BY <1>1, <1>4, StandingStill DEF Goto
<1> QED
  BY <1>2, <1>3, <1>4 DEF Migrate

(* reset_stale_db removes a database no sealed master opens: the launch    *)
(* found no master at first, so nobody lived in it.                        *)
LEMMA ResetStaleDbKeeps ==
    ASSUME StartupInv, ResetStaleDb
    PROVE  StartupInv'
<1>1. at = "reset" /\ UNCHANGED <<sealed, risen, marker, core, made, doomed, lived, served>>
  BY DEF ResetStaleDb, told
<1>2. CASE RemoveDb /\ at' = "key" /\ UNCHANGED had
  <2>1. db' = NoDb /\ undone' = IF db = NoDb THEN undone ELSE [undone EXCEPT !.db = db]
    BY <1>2 DEF RemoveDb
  <2>2. ~marker /\ ~Running /\ ~marker' /\ ~Running'
    BY <1>1 DEF StartupInv, StepOK, Opening, Running
  <2>3. /\ undone' \in UndoneType /\ db' \in DbType
        /\ undone'.db # NoDb => undone'.db.key # 0
        /\ undone'.sealed = undone.sealed
    BY <2>1 DEF StartupInv, TypeOK, FilesOK, NoDb, DbType, UndoneType
  <2>4. ~had /\ lived = Nobody /\ served = 0 /\ db'.name = 0
    BY <1>1, <2>1 DEF StartupInv, LaunchOK, LivedOK, NoDb
  <2>5. TypeOK' /\ StepOK' /\ ErasedOK' /\ FilesOK'
    BY <1>1, <1>2, <2>1, <2>2, <2>3 DEF StartupInv, TypeOK, StepOK, ErasedOK, FilesOK, Opening, Wiping
  <2>6. SecretsOK' /\ LaunchOK' /\ EngineOK'
    BY <1>1, <1>2, <2>2, <2>4 DEF StartupInv, SecretsOK, Gone, LaunchOK, EngineOK
  <2>7. LivedOK'
    BY <1>1, <2>4 DEF LivedOK, StoredPersona
  <2> QED
    BY <2>5, <2>6, <2>7 DEF StartupInv
<1>3. CASE Return /\ UNCHANGED <<db, undone>>
  BY <1>1, <1>3, StandingStill DEF Return
<1> QED
  BY <1>2, <1>3 DEF ResetStaleDb

(* The identity is read back, or drawn anew where a seed is missing, and   *)
(* then nobody lived here; one that cannot be read is an error, and        *)
(* nothing is drawn (Identity::unsealed).                                  *)
LEMMA LoadIdentityKeeps ==
    ASSUME StartupInv, LoadIdentity
    PROVE  StartupInv'
<1>1. /\ at = "identity" /\ UNCHANGED <<sealed, risen, db, marker, undone, core, doomed, lived, served>>
      /\ \/ /\ Goto("install") /\ UNCHANGED made
            /\ sealed["layer1"] # 0 /\ sealed["layer2"] # 0
         \/ /\ Goto("seal1") /\ made' = made + 1
            /\ sealed["layer1"] = 0 \/ sealed["layer2"] = 0
         \/ Return /\ UNCHANGED made
  BY DEF LoadIdentity, Unsealed, Contents, told
<1>2. CASE Goto("install") /\ UNCHANGED made /\ sealed["layer1"] # 0 /\ sealed["layer2"] # 0
  BY <1>1, <1>2, StandingStill DEF Goto
<1>3. CASE Return /\ UNCHANGED made
  BY <1>1, <1>3, StandingStill DEF Return
<1>4. CASE /\ Goto("seal1") /\ made' = made + 1
           /\ sealed["layer1"] = 0 \/ sealed["layer2"] = 0
  <2>1. at' = "seal1" /\ ~marker /\ ~Running /\ ~Running'
    BY <1>1, <1>4 DEF Goto, StartupInv, StepOK, Opening, Running
  <2>2. made' \in Nat /\ made' > doomed
    BY <1>1, <1>4 DEF StartupInv, TypeOK
  <2>3. sealed["layer2"] = 0 \/ "layer2" \in risen
    BY <2>1, <1>4 DEF StartupInv, SecretsOK, Gone
  <2>4. lived = Nobody
    BY <1>4 DEF StartupInv, LivedOK, IdentityIsKept
  <2>5. TypeOK' /\ StepOK' /\ ErasedOK' /\ FilesOK'
    BY <1>1, <1>4, <2>1, <2>2 DEF StartupInv, TypeOK, StepOK, ErasedOK, FilesOK, Opening, Wiping
  <2>6. SecretsOK' /\ LivedOK'
    BY <1>1, <2>4 DEF StartupInv, SecretsOK, Gone, LivedOK, StoredPersona
  <2>7. LaunchOK' /\ EngineOK'
    BY <1>1, <1>4, <2>1, <2>2, <2>3, <2>4 DEF StartupInv, LaunchOK, EngineOK, Gone
  <2> QED
    BY <2>5, <2>6, <2>7 DEF StartupInv
<1> QED
  BY <1>1, <1>2, <1>3, <1>4

(* A seed just drawn is sealed: the first makes nobody yet, and the second *)
(* is of the same pair.                                                    *)
LEMMA SealSeedKeeps ==
    ASSUME StartupInv,
           NEW label \in {"layer1", "layer2"},
           \/ at = "seal1" /\ at' = "seal2" /\ label = "layer1"
           \/ at = "seal2" /\ at' = "install" /\ label = "layer2",
           Seal(label, made),
           UNCHANGED <<db, marker, core, made, doomed, lived, served>>
    PROVE  StartupInv'
<1>1. /\ sealed' = [sealed EXCEPT ![label] = made]
      /\ undone' = [undone EXCEPT !.sealed = [l \in Labels |-> 0]]
      /\ risen' = risen \ {label}
  BY DEF Seal
<1>2. ~marker /\ ~Running /\ ~Running' /\ ~marker'
  BY DEF StartupInv, StepOK, Opening, Running
<1>3. /\ made \in Nat /\ doomed \in Nat /\ made > doomed /\ lived = Nobody
      /\ sealed["layer2"] = 0 \/ "layer2" \in risen
      /\ sealed["master"] # 0 /\ db.key = sealed["master"]
      /\ at = "seal2" => sealed["layer1"] = made
  BY DEF StartupInv, TypeOK, LaunchOK
<1>4. /\ sealed' \in [Labels -> Nat] /\ sealed'["master"] = sealed["master"]
      /\ sealed'["layer1"] = made
      /\ at = "seal1" => sealed'["layer2"] = sealed["layer2"]
      /\ at = "seal2" => sealed'["layer2"] = made
  BY <1>1, <1>3 DEF StartupInv, TypeOK, Labels
<1>5. /\ undone' \in UndoneType /\ undone'.db = undone.db
      /\ \A l \in Labels : undone'.sealed[l] = 0
  BY <1>1 DEF StartupInv, TypeOK, UndoneType
<1>6. TypeOK' /\ StepOK' /\ ErasedOK' /\ FilesOK'
  BY <1>1, <1>2, <1>4, <1>5 DEF StartupInv, TypeOK, StepOK, ErasedOK, FilesOK, Opening, Wiping
<1>7. SecretsOK'
  <2>1. \A l \in Labels : sealed'[l] # 0 => sealed'[l] > doomed' \/ l \in risen'
    BY <1>1, <1>2, <1>3, <1>4 DEF StartupInv, SecretsOK, Gone, Labels
  <2>2. sealed'["layer2"] # 0 => sealed'["layer1"] = sealed'["layer2"] \/ "layer2" \in risen'
    BY <1>1, <1>3, <1>4
  <2> QED
    BY <2>1, <2>2 DEF SecretsOK, Gone
<1>8. LaunchOK' /\ EngineOK' /\ LivedOK'
  BY <1>1, <1>2, <1>3, <1>4 DEF StartupInv, LaunchOK, EngineOK, LivedOK, StoredPersona, Gone
<1> QED
  BY <1>6, <1>7, <1>8 DEF StartupInv

(* The seeds are sealed one after the other, either may fail.              *)
LEMMA SealSeedsKeeps ==
    ASSUME StartupInv, SealSeeds
    PROVE  StartupInv'
<1>1. CASE SealSeed("seal1", "layer1", "seal2")
  BY <1>1, SealSeedKeeps, StandingStill DEF SealSeed, Goto, Return, told
<1>2. CASE SealSeed("seal2", "layer2", "install")
  BY <1>2, SealSeedKeeps, StandingStill DEF SealSeed, Goto, Return, told
<1> QED
  BY <1>1, <1>2 DEF SealSeeds

(* The engine is installed with the seeds and the master that are sealed   *)
(* and the name that is stored.                                            *)
LEMMA InstallKeeps ==
    ASSUME StartupInv, Install
    PROVE  StartupInv'
<1>1. /\ at = "install" /\ at' = "rest" /\ Return
      /\ UNCHANGED <<sealed, risen, db, marker, undone, made, doomed>>
  BY DEF Install, Return, disk
<1>2. CASE UNCHANGED <<core, lived, served>>
  BY <1>1, <1>2, StandingStill
<1>3. CASE /\ core' = [layer1 |-> sealed["layer1"], layer2 |-> sealed["layer2"],
                       key |-> sealed["master"], name |-> StoredPersona]
           /\ lived' = [layer1 |-> core'.layer1, layer2 |-> core'.layer2,
                        key |-> core'.key, file |-> db.file]
           /\ served' = IF served > core'.name THEN served ELSE core'.name
  <2>1. ~marker /\ ~marker'
    BY <1>1 DEF StartupInv, StepOK, Opening
  <2>2. /\ sealed["layer1"] # 0 /\ sealed["layer2"] # 0 /\ sealed["master"] # 0
        /\ sealed["layer1"] = sealed["layer2"] \/ "layer2" \in risen
        /\ \A l \in Labels : sealed[l] # 0 => Gone(l, sealed[l])
        /\ db.key = sealed["master"]
        /\ served <= StoredPersona
    BY <1>1, <2>1 DEF StartupInv, SecretsOK, LaunchOK, LivedOK, Gone
  <2>3. /\ StoredPersona \in Nat /\ db \in DbType /\ served \in Nat
        /\ \A l \in Labels : sealed[l] \in Nat
    BY DEF StartupInv, TypeOK, StoredPersona, DbType
  <2>4. served' = StoredPersona /\ StoredPersona' = StoredPersona
    BY <1>1, <1>3, <2>2, <2>3 DEF StoredPersona
  <2>5. core' \in [layer1 : Nat, layer2 : Nat, key : Nat, name : Nat]
    BY <1>3, <2>3 DEF Labels
  <2>6. lived' \in LivedType
    BY <1>3, <2>3 DEF Labels, DbType, LivedType
  <2>7. TypeOK' /\ StepOK' /\ ErasedOK' /\ FilesOK'
    BY <1>1, <2>1, <2>3, <2>4, <2>5, <2>6 DEF StartupInv, TypeOK, StepOK, ErasedOK, FilesOK, Opening, Wiping
  <2>8. SecretsOK'
    BY <1>1 DEF StartupInv, SecretsOK, Gone
  <2>9. LaunchOK'
    BY <1>1 DEF LaunchOK
  <2>10. EngineOK'
    BY <1>1, <1>3, <2>2, <2>4 DEF EngineOK, Gone, Labels
  <2>11. LivedOK'
    BY <1>1, <1>3, <2>1, <2>2, <2>3, <2>4 DEF LivedOK, IdentityIsKept, Nobody
  <2> QED
    BY <2>7, <2>8, <2>9, <2>10, <2>11 DEF StartupInv
<1> QED
  BY <1>2, <1>3 DEF Install

(* update_persona stores the name and then makes it live, or stores        *)
(* nothing and makes nothing live.                                         *)
LEMMA RenameKeeps ==
    ASSUME StartupInv, Rename
    PROVE  StartupInv'
<1>1. /\ Running /\ at = "rest"
      /\ served' = IF lived = Nobody THEN 0 ELSE core'.name
      /\ at' = at /\ had' = had
      /\ UNCHANGED <<sealed, risen, marker, undone, made, doomed, lived>>
  BY DEF Rename, call
<1>2. \/ db' = [db EXCEPT !.name = core.name + 1] /\ core' = [core EXCEPT !.name = @ + 1]
      \/ UNCHANGED <<db, core>>
  BY DEF Rename, StoredFirst
<1>3. /\ core.name \in Nat /\ core.name = StoredPersona /\ db.key # 0
      /\ StoredPersona \in Nat
  BY <1>1 DEF StartupInv, TypeOK, EngineOK, Gone
<1>4. PICK n \in Nat : n = core.name + 1
  BY <1>3
<1>5. CASE db' = [db EXCEPT !.name = core.name + 1] /\ core' = [core EXCEPT !.name = @ + 1]
  <2>1. db' = [db EXCEPT !.name = n] /\ core' = [core EXCEPT !.name = n] /\ n # 0
    BY <1>3, <1>4, <1>5
  <2>2. /\ db' \in DbType /\ db'.key = db.key /\ db'.file = db.file /\ db'.name = n
        /\ db' # NoDb /\ db # NoDb
    BY <1>3, <2>1 DEF StartupInv, TypeOK, DbType, NoDb
  <2>3. /\ core' \in [layer1 : Nat, layer2 : Nat, key : Nat, name : Nat] /\ core'.name = n
        /\ core'.layer1 = core.layer1 /\ core'.layer2 = core.layer2 /\ core'.key = core.key
    BY <2>1 DEF StartupInv, TypeOK
  <2>4. TypeOK' /\ StepOK' /\ ErasedOK' /\ FilesOK'
    BY <1>1, <1>3, <2>2, <2>3 DEF StartupInv, TypeOK, StepOK, ErasedOK, FilesOK, Opening, Wiping
  <2>5. SecretsOK' /\ LaunchOK'
    BY <1>1, <2>1, <2>2, <2>3 DEF StartupInv, SecretsOK, Gone, LaunchOK, StoredPersona
  <2>6. EngineOK' /\ LivedOK'
    BY <1>1, <1>3, <2>1, <2>2, <2>3 DEF StartupInv, EngineOK, LivedOK, IdentityIsKept, StoredPersona, Gone
  <2> QED
    BY <2>4, <2>5, <2>6 DEF StartupInv
<1>6. CASE UNCHANGED <<db, core>>
  <2>1. TypeOK' /\ StepOK' /\ ErasedOK' /\ FilesOK'
    BY <1>1, <1>3, <1>6 DEF StartupInv, TypeOK, StepOK, ErasedOK, FilesOK, Opening, Wiping, Running
  <2>2. SecretsOK' /\ LaunchOK'
    BY <1>1, <1>3, <1>6 DEF StartupInv, SecretsOK, Gone, LaunchOK, StoredPersona
  <2>3. EngineOK' /\ LivedOK'
    BY <1>1, <1>3, <1>6 DEF StartupInv, EngineOK, LivedOK, IdentityIsKept, StoredPersona, Running, Gone
  <2> QED
    BY <2>1, <2>2, <2>3 DEF StartupInv
<1> QED
  BY <1>2, <1>5, <1>6

(* The wipe begins with its marker, and from there whatever was made so    *)
(* far is doomed.                                                          *)
LEMMA MarkWipeStartedKeeps ==
    ASSUME StartupInv, MarkWipeStarted
    PROVE  StartupInv'
<1>1. /\ at = "rest" /\ UNCHANGED <<sealed, risen, db, undone, core, made>>
      /\ \/ marker' = TRUE /\ at' = "stop" /\ doomed' = made /\ lived' = Nobody /\ served' = 0
         \/ /\ marker' \in {marker, TRUE} /\ at' = at /\ had' = had /\ doomed' = doomed
            /\ lived' = IF marker' THEN Nobody ELSE lived
            /\ served' = IF marker' THEN 0 ELSE served
  BY DEF MarkWipeStarted, Goto, call
<1>2. TypeOK'
  <2>1. Nobody \in LivedType
    BY DEF Nobody, LivedType
  <2>2. marker' \in BOOLEAN
    BY <1>1, Zenon DEF StartupInv, TypeOK
  <2>3. lived' \in LivedType /\ served' \in Nat
    <3>1. (lived' = Nobody \/ lived' = lived) /\ (served' = 0 \/ served' = served)
      BY <1>1
    <3> QED
      BY <2>1, <3>1 DEF StartupInv, TypeOK
  <2>4. doomed' \in Nat /\ doomed' <= made /\ made \in Nat
    <3>1. doomed' = made \/ doomed' = doomed
      BY <1>1, Zenon
    <3>2. made \in Nat /\ doomed \in Nat /\ doomed <= made /\ made <= made
      BY DEF StartupInv, TypeOK
    <3> QED
      BY <3>1, <3>2
  <2>5. at' = "rest" \/ at' = "stop"
    BY <1>1
  <2> QED
    BY <1>1, <2>2, <2>3, <2>4, <2>5 DEF StartupInv, TypeOK, Wiping
<1>3. StepOK' /\ ErasedOK' /\ FilesOK'
  BY <1>1 DEF StartupInv, StepOK, ErasedOK, FilesOK, Opening, Wiping, Running
<1>4. SecretsOK' /\ LaunchOK'
  BY <1>1 DEF StartupInv, TypeOK, SecretsOK, Gone, LaunchOK, StoredPersona
<1>5. EngineOK'
  BY <1>1 DEF StartupInv, EngineOK, StoredPersona, Running, Gone
<1>6. LivedOK'
  <2>1. StoredPersona' = StoredPersona /\ 0 <= StoredPersona
    BY <1>1 DEF StartupInv, TypeOK, DbType, StoredPersona
  <2>2. \/ marker' /\ lived' = Nobody /\ served' = 0
        \/ marker' = marker /\ lived' = lived /\ served' = served
    BY <1>1 DEF StartupInv, TypeOK
  <2> QED
    BY <1>1, <2>1, <2>2 DEF StartupInv, LivedOK, IdentityIsKept
<1> QED
  BY <1>2, <1>3, <1>4, <1>5, <1>6 DEF StartupInv

(* The engine is dropped and the disk stays.                               *)
LEMMA CoreGone ==
    ASSUME StartupInv, core' = NoCore,
           \/ at' = "rest"
           \/ at = "stop" /\ at' = "layer1",
           UNCHANGED <<sealed, risen, db, marker, undone, made, doomed, lived, served>>
    PROVE  StartupInv'
<1>1. ~Running' /\ core' \in [layer1 : Nat, layer2 : Nat, key : Nat, name : Nat]
  BY DEF Running, NoCore
<1>2. TypeOK'
  BY <1>1 DEF StartupInv, TypeOK, Wiping
<1>3. StepOK' /\ ErasedOK' /\ FilesOK'
  BY <1>1 DEF StartupInv, StepOK, ErasedOK, FilesOK, Opening, Wiping
<1>4. SecretsOK' /\ LaunchOK'
  BY DEF StartupInv, SecretsOK, Gone, LaunchOK, StoredPersona
<1>5. EngineOK' /\ LivedOK'
  BY <1>1 DEF StartupInv, EngineOK, LivedOK, IdentityIsKept, StoredPersona
<1> QED
  BY <1>2, <1>3, <1>4, <1>5 DEF StartupInv

(* A secret is erased and the wipe goes on, or the keystore fails and the  *)
(* wipe stops short, under its marker.                                     *)
LEMMA EraseSecretKeeps ==
    ASSUME StartupInv, EraseSecret
    PROVE  StartupInv'
<1>1. /\ at \in Labels /\ UNCHANGED <<db, marker, core, made, doomed, lived, served>>
      /\ \/ Wipe(at) /\ at' = After(at)
         \/ at' = "rest" /\ UNCHANGED <<sealed, risen, undone>>
  BY DEF EraseSecret, Goto, Return, told
<1>2. CASE at' = "rest" /\ UNCHANGED <<sealed, risen, undone>>
  BY <1>1, <1>2, StandingStill DEF Labels
<1>3. CASE Wipe(at) /\ at' = After(at)
  <2>1. /\ marker /\ marker' /\ ~Running /\ ~Running'
    BY <1>1 DEF StartupInv, StepOK, Wiping, Labels, Running
  <2>2. /\ sealed' = [sealed EXCEPT ![at] = 0]
        /\ undone' = IF sealed[at] = 0 THEN undone
                     ELSE [undone EXCEPT !.sealed[at] = sealed[at]]
        /\ risen' = risen \ {at}
    BY <1>3 DEF Wipe
  <2>3. /\ sealed' \in [Labels -> Nat] /\ sealed'[at] = 0
        /\ \A l \in Labels \ {at} : sealed'[l] = sealed[l]
    BY <1>1, <2>2 DEF StartupInv, TypeOK
  <2>4. /\ undone' \in UndoneType /\ undone'.db = undone.db
        /\ \A l \in Labels \ {at} : undone'.sealed[l] = undone.sealed[l]
    BY <1>1, <2>2 DEF StartupInv, TypeOK, UndoneType
  <2>5. \/ at = "layer1" /\ at' = "layer2"
        \/ at = "layer2" /\ at' = "master"
        \/ at = "master" /\ at' = "files"
    BY <1>1, <1>3 DEF After, Labels
  <2>6. TypeOK' /\ StepOK' /\ FilesOK'
    BY <1>1, <2>1, <2>2, <2>3, <2>4, <2>5 DEF StartupInv, TypeOK, StepOK, FilesOK, Opening, Wiping
  <2>7. ErasedOK'
    BY <2>3, <2>5 DEF StartupInv, ErasedOK, Labels
  <2>8. SecretsOK' /\ LaunchOK' /\ EngineOK' /\ LivedOK'
    BY <1>1, <2>1, <2>5 DEF StartupInv, SecretsOK, LaunchOK, EngineOK, LivedOK, StoredPersona
  <2> QED
    BY <2>6, <2>7, <2>8 DEF StartupInv
<1> QED
  BY <1>1, <1>2, <1>3

(* The files of the database are deleted, all secrets being gone.          *)
LEMMA DeleteStoreFilesKeeps ==
    ASSUME StartupInv, DeleteStoreFiles
    PROVE  StartupInv'
<1>1. /\ at = "files" /\ at' = "unmark"
      /\ UNCHANGED <<sealed, risen, marker, core, made, doomed, lived, served>>
      /\ RemoveDb \/ UNCHANGED <<db, undone>>
  BY DEF DeleteStoreFiles, Goto, told
<1>2. /\ marker /\ marker' /\ ~Running /\ ~Running'
  BY <1>1 DEF StartupInv, StepOK, Wiping, Running
<1>3. /\ undone' \in UndoneType /\ db' \in DbType
      /\ undone'.db # NoDb => undone'.db.key # 0
      /\ undone'.sealed = undone.sealed
      /\ db' # NoDb => db'.key # 0 /\ undone'.db = NoDb
  BY <1>1 DEF RemoveDb, StartupInv, TypeOK, FilesOK, NoDb, DbType, UndoneType
<1>4. TypeOK' /\ StepOK' /\ ErasedOK' /\ FilesOK'
  BY <1>1, <1>2, <1>3 DEF StartupInv, TypeOK, StepOK, ErasedOK, FilesOK, Opening, Wiping
<1>5. SecretsOK' /\ LaunchOK' /\ EngineOK'
  BY <1>1, <1>2 DEF SecretsOK, LaunchOK, EngineOK
<1>6. LivedOK'
  <2>1. lived = Nobody /\ served = 0
    BY <1>2 DEF StartupInv, LivedOK
  <2> QED
    BY <1>1, <1>3, <2>1 DEF LivedOK, StoredPersona, DbType
<1> QED
  BY <1>4, <1>5, <1>6 DEF StartupInv

(* The marker goes last, and only when every secret is gone: nothing       *)
(* doomed is sealed when it does.                                          *)
LEMMA ClearWipeMarkerKeeps ==
    ASSUME StartupInv, ClearWipeMarker
    PROVE  StartupInv'
<1>1. /\ at = "unmark" /\ UNCHANGED <<sealed, risen, db, core, made, doomed, lived, served>>
  BY DEF ClearWipeMarker, told
<1>2. CASE Return /\ UNCHANGED <<marker, undone>>
  BY <1>1, <1>2, StandingStill DEF Return
<1>3. CASE /\ marker' = FALSE
           /\ undone' = [undone EXCEPT !.db = NoDb]
           /\ at' = "look" \/ at' = "rest"
  <2>1. /\ ~Running /\ ~Running' /\ lived = Nobody
        /\ sealed["layer1"] = 0 /\ sealed["layer2"] = 0 /\ sealed["master"] = 0
    BY <1>1 DEF StartupInv, StepOK, ErasedOK, LivedOK, Wiping, Running
  <2>2. undone' \in UndoneType /\ undone'.db = NoDb /\ undone'.sealed = undone.sealed
    BY <1>3 DEF StartupInv, TypeOK, NoDb, DbType, UndoneType
  <2>3. TypeOK' /\ StepOK' /\ ErasedOK' /\ FilesOK'
    BY <1>1, <1>3, <2>1, <2>2 DEF StartupInv, TypeOK, StepOK, ErasedOK, FilesOK, Opening, Wiping
  <2>4. SecretsOK' /\ LaunchOK' /\ EngineOK' /\ LivedOK'
    BY <1>1, <1>3, <2>1 DEF StartupInv, SecretsOK, LaunchOK, EngineOK, LivedOK, StoredPersona, Labels
  <2> QED
    BY <2>3, <2>4 DEF StartupInv
<1> QED
  BY <1>2, <1>3 DEF ClearWipeMarker, Goto, Return

(* A power cut brings back what was removed and not synced: to a device    *)
(* nobody lives in, for one somebody does has nothing removed; and a       *)
(* secret that comes back has risen.                                       *)
LEMMA PowerCutKeeps ==
    ASSUME StartupInv, PowerCut
    PROVE  StartupInv'
<1>1. /\ core' = NoCore /\ at' = "rest"
      /\ UNCHANGED <<marker, made, doomed, lived, served>>
      /\ undone' = [sealed |-> [l \in Labels |-> 0], db |-> NoDb]
  BY DEF PowerCut, Return, told
<1>2. PICK back \in SUBSET {l \in Labels : undone.sealed[l] # 0}, dbBack \in BOOLEAN :
        /\ dbBack => undone.db # NoDb
        /\ sealed' = [l \in Labels |-> IF l \in back THEN undone.sealed[l] ELSE sealed[l]]
        /\ risen' = risen \union back
        /\ db' = IF dbBack THEN undone.db ELSE db
  BY DEF PowerCut
<1>3. /\ sealed' \in [Labels -> Nat] /\ risen' \subseteq Labels
      /\ \A l \in back : l \in risen' /\ sealed[l] = 0
      /\ \A l \in Labels \ back : sealed'[l] = sealed[l]
  BY <1>2 DEF StartupInv, TypeOK, UndoneType, FilesOK
<1>4. db' = db \/ (undone.db # NoDb /\ db' = undone.db)
  BY <1>2
<1>5. /\ undone' \in UndoneType /\ undone'.db = NoDb
      /\ \A l \in Labels : undone'.sealed[l] = 0
  BY <1>1 DEF UndoneType, DbType, NoDb
<1>6. ~Running' /\ core' \in [layer1 : Nat, layer2 : Nat, key : Nat, name : Nat]
  BY <1>1 DEF Running, NoCore
<1>7. db' \in DbType /\ (db' # NoDb => db'.key # 0)
  BY <1>4 DEF StartupInv, TypeOK, UndoneType, FilesOK
<1>8. TypeOK' /\ StepOK' /\ ErasedOK' /\ FilesOK'
  BY <1>1, <1>3, <1>5, <1>6, <1>7 DEF StartupInv, TypeOK, StepOK, ErasedOK, FilesOK, Opening, Wiping
<1>9. SecretsOK'
  <2> SUFFICES ASSUME ~marker PROVE SecretsOK'
    BY <1>1 DEF SecretsOK, Gone
  <2>1. \A l \in Labels : sealed'[l] # 0 => sealed'[l] > doomed' \/ l \in risen'
    BY <1>1, <1>2, <1>3 DEF StartupInv, SecretsOK, Gone
  <2>2. sealed'["layer2"] # 0 => sealed'["layer1"] = sealed'["layer2"] \/ "layer2" \in risen'
    <3>1. CASE "layer2" \in back
      BY <1>3, <3>1
    <3>2. CASE "layer2" \notin back /\ "layer1" \notin back
      BY <1>2, <1>3, <3>2 DEF StartupInv, SecretsOK, Labels, Gone
    <3>3. CASE "layer2" \notin back /\ "layer1" \in back
      BY <1>2, <1>3, <3>3 DEF StartupInv, SecretsOK, Labels, Gone
    <3> QED
      BY <3>1, <3>2, <3>3
  <2> QED
    BY <2>1, <2>2 DEF SecretsOK, Gone
<1>10. LaunchOK' /\ EngineOK'
  BY <1>1, <1>6 DEF LaunchOK, EngineOK, Gone
<1>11. LivedOK'
  <2>1. CASE lived = Nobody
    BY <1>1, <1>7, <2>1 DEF StartupInv, LivedOK, StoredPersona, DbType
  <2>2. CASE lived # Nobody
    <3>1. /\ IdentityIsKept /\ lived.layer1 # 0 /\ lived.layer2 # 0 /\ lived.key # 0
          /\ db # NoDb
      BY <2>2 DEF StartupInv, LivedOK, IdentityIsKept, NoDb
    <3>2. back = {} /\ db' = db
      <4>1. \A l \in Labels : sealed[l] # 0
        BY <2>2, <3>1 DEF IdentityIsKept, Labels
      <4>2. back = {}
        <5>1. \A l \in back : l \in Labels
          BY <1>2
        <5> QED
          BY <1>3, <4>1, <5>1
      <4>3. undone.db = NoDb
        BY <3>1 DEF StartupInv, FilesOK
      <4> QED
        BY <1>4, <4>2, <4>3
    <3>3. sealed' = sealed
      BY <1>3, <3>2 DEF StartupInv, TypeOK
    <3> QED
      BY <1>1, <3>1, <3>2, <3>3 DEF StartupInv, LivedOK, IdentityIsKept, StoredPersona
  <2> QED
    BY <2>1, <2>2
<1> QED
  BY <1>8, <1>9, <1>10, <1>11 DEF StartupInv

(* A phone on which the app was never started.                             *)
LEMMA StartupInitInv == Init => StartupInv
<1> SUFFICES ASSUME Init PROVE StartupInv
  OBVIOUS
<1>1. /\ undone = [sealed |-> [l \in Labels |-> 0], db |-> NoDb]
      /\ marker = FALSE /\ risen = {} /\ core = NoCore /\ doomed = 0 /\ served = 0 /\ at = "rest"
  BY DEF Init
<1>2. /\ undone \in UndoneType /\ undone.db = NoDb
      /\ \A l \in Labels : undone.sealed[l] = 0
      /\ core \in [layer1 : Nat, layer2 : Nat, key : Nat, name : Nat] /\ ~Running
  BY <1>1 DEF NoDb, NoCore, DbType, UndoneType, Running
<1>3. ~marker /\ risen = {} /\ marker \in BOOLEAN /\ doomed = 0 /\ served = 0 /\ at = "rest"
  BY <1>1
<1>4. CASE /\ sealed = [l \in Labels |-> 0]
           /\ db = NoDb /\ made = 0 /\ lived = Nobody
  <2>1. db \in DbType /\ lived \in LivedType
    BY <1>4 DEF NoDb, DbType, Nobody, LivedType
  <2>2. sealed \in [Labels -> Nat] /\ made = 0
    BY <1>4
  <2>3. TypeOK /\ StepOK /\ ErasedOK /\ FilesOK
    BY <1>3, <1>2, <2>2, <1>4, <2>1 DEF TypeOK, StepOK, ErasedOK, FilesOK, Opening, Wiping
  <2>4. SecretsOK /\ LaunchOK /\ EngineOK /\ LivedOK
    BY <1>1, <1>2, <1>4 DEF SecretsOK, LaunchOK, EngineOK, LivedOK, StoredPersona, NoDb, Labels
  <2> QED
    BY <2>3, <2>4 DEF StartupInv
<1>5. CASE /\ sealed = [layer1 |-> 2, layer2 |-> 2, master |-> 1]
           /\ made = 3
           /\ lived = [layer1 |-> 2, layer2 |-> 2, key |-> 1, file |-> 3]
           /\ \E old \in 1..Latest : db = [file |-> 3, key |-> 1, version |-> old, name |-> 0]
  <2>1. PICK old \in 1..Latest : db = [file |-> 3, key |-> 1, version |-> old, name |-> 0]
    BY <1>5
  <2>2. db \in DbType /\ db.key = 1 /\ db.file = 3 /\ db.name = 0
    BY <2>1, BoundsAreNumbers DEF DbType
  <2>3. /\ sealed \in [Labels -> Nat]
        /\ sealed["layer1"] = 2 /\ sealed["layer2"] = 2 /\ sealed["master"] = 1
    BY <1>5 DEF Labels
  <2>4. lived \in LivedType /\ made = 3
    BY <1>5 DEF LivedType
  <2>5. TypeOK /\ StepOK /\ ErasedOK /\ FilesOK
    BY <1>3, <1>2, <2>4, <2>2, <2>3 DEF TypeOK, StepOK, ErasedOK, FilesOK, Opening, Wiping
  <2>6. SecretsOK /\ LaunchOK /\ EngineOK /\ LivedOK
    BY <1>1, <1>2, <1>5, <2>2, <2>3 DEF SecretsOK, Gone, LaunchOK, EngineOK, LivedOK, IdentityIsKept, StoredPersona, Labels
  <2> QED
    BY <2>5, <2>6 DEF StartupInv
<1> QED
  BY <1>4, <1>5 DEF Init

(* Every step of a launch, a rename and a wipe, and every fault, keeps the *)
(* invariant.                                                              *)
LEMMA StartupNextKeepsInv ==
    ASSUME StartupInv, [Next]_vars
    PROVE  StartupInv'
<1>1. CASE Launch
  BY <1>1, LaunchKeeps
<1>2. CASE Look
  BY <1>2, LookKeeps
<1>3. CASE Key
  BY <1>3, KeyKeeps
<1>4. CASE CannotSealMaster
  BY <1>4, CannotSealMasterKeeps
<1>5. CASE OpenDb
  BY <1>5, OpenDbKeeps
<1>6. CASE Migrate
  BY <1>6, MigrateKeeps
<1>7. CASE ResetStaleDb
  BY <1>7, ResetStaleDbKeeps
<1>8. CASE LoadIdentity
  BY <1>8, LoadIdentityKeeps
<1>9. CASE SealSeeds
  BY <1>9, SealSeedsKeeps
<1>10. CASE Install
  BY <1>10, InstallKeeps
<1>11. CASE StopCore
  BY <1>11, CoreGone DEF StopCore, Goto, disk, told
<1>12. CASE EraseSecret
  BY <1>12, EraseSecretKeeps
<1>13. CASE DeleteStoreFiles
  BY <1>13, DeleteStoreFilesKeeps
<1>14. CASE ClearWipeMarker
  BY <1>14, ClearWipeMarkerKeeps
<1>15. CASE Rename
  BY <1>15, RenameKeeps
<1>16. CASE MarkWipeStarted
  BY <1>16, MarkWipeStartedKeeps
<1>17. CASE Close
  BY <1>17, CoreGone DEF Close, disk, call, told
<1>18. CASE Kill
  BY <1>18, CoreGone DEF Kill, Return, disk, told
<1>19. CASE PowerCut
  BY <1>19, PowerCutKeeps
<1>20. CASE UNCHANGED vars
  <2>1. UNCHANGED <<sealed, risen, db, marker, undone, at, had, core, made, doomed, lived, served>>
    BY <1>20 DEF vars, disk, call, told
  <2>2. TypeOK' /\ StepOK' /\ ErasedOK' /\ FilesOK'
    BY <2>1 DEF StartupInv, TypeOK, StepOK, ErasedOK, FilesOK, Running
  <2>3. SecretsOK' /\ LaunchOK' /\ EngineOK' /\ LivedOK'
    BY <2>1 DEF StartupInv, SecretsOK, Gone, LaunchOK, EngineOK, LivedOK, IdentityIsKept, StoredPersona, Running
  <2> QED
    BY <2>2, <2>3 DEF StartupInv
<1> QED
  BY <1>1, <1>2, <1>3, <1>4, <1>5, <1>6, <1>7, <1>8, <1>9, <1>10, <1>11, <1>12, <1>13, <1>14, <1>15, <1>16,
     <1>17, <1>18, <1>19, <1>20 DEF Next, Step

(* What each step of a launch and of a wipe relies on holds in every       *)
(* behaviour, however often the process dies and the power fails.          *)
THEOREM StartupInvHolds == Spec => []StartupInv
<1>1. Init => StartupInv
  BY StartupInitInv
<1>2. StartupInv /\ [Next]_vars => StartupInv'
  BY StartupNextKeepsInv
<1> QED
  BY <1>1, <1>2, PTL DEF Spec

(* But for a secret a power cut brought back, no engine ever runs on       *)
(* anything a wipe was to destroy or on the seeds of two identities, and   *)
(* with the marker gone neither the seeds nor a database anybody could key *)
(* are left of what was there before (engine/mod.rs wipe, open_store,      *)
(* erase_everything).                                                      *)
THEOREM WipedIsGoneHolds == Spec => []WipedIsGone
<1>1. StartupInv => WipedIsGone
  <2> SUFFICES ASSUME StartupInv PROVE WipedIsGone
    OBVIOUS
  <2>1. Running /\ at = "rest" =>
            /\ Gone("layer1", core.layer1) /\ Gone("layer2", core.layer2)
            /\ Gone("master", core.key)
            /\ core.layer1 = core.layer2 \/ "layer2" \in risen
    BY DEF StartupInv, EngineOK
  <2>2. ~marker => \A l \in Labels : sealed[l] # 0 => Gone(l, sealed[l])
    BY DEF StartupInv, SecretsOK
  <2>3. ~marker /\ db # NoDb /\ ~Stale => Gone("master", db.key)
    BY <2>2 DEF StartupInv, FilesOK, Stale, Labels
  <2> QED
    BY <2>1, <2>2, <2>3 DEF WipedIsGone, Labels
<1> QED
  BY <1>1, StartupInvHolds, PTL

(* Who asked for no wipe keeps both seeds, the master and the database it  *)
(* opens through every launch, failure and power cut, and the name last    *)
(* served is not taken back (Identity::unsealed, Store::master_is_sealed,  *)
(* update_persona).                                                        *)
THEOREM KeptUntilAskedHolds == Spec => []KeptUntilAsked
<1>1. StartupInv => KeptUntilAsked
  BY DEF StartupInv, LivedOK, EngineOK, KeptUntilAsked, NoNameTakenBack, IdentityIsKept, Nobody
<1> QED
  BY <1>1, StartupInvHolds, PTL
=============================================================================
