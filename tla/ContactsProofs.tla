--------------------------- MODULE ContactsProofs ---------------------------
(***************************************************************************)
(* Proofs about Contacts: whatever order the phones meet, rotate, pair and *)
(* block in, and however the rows made under their ids are adopted,        *)
(* re-keyed and folded, a conversation keeps its messages and its numbers, *)
(* a pairing its keys and a person one row, and a friend is known.         *)
(* An operation on the database is a function of the tables: most lemmas   *)
(* say what one of them makes of tables that are in order (Sound).         *)
(***************************************************************************)
EXTENDS Contacts, FiniteSetTheorems, WellFoundedInduction, TLAPS

-----------------------------------------------------------------------------
(* The invariant.                                                          *)

Table == {"contacts", "pairings", "threads", "ratchets", "inboxes", "rows", "seals"}

Shape(st) == DOMAIN st = Table

\* Rowids and sequence numbers: there is always a next one.
Numbers(S) == S \subseteq Nat \ {0} /\ \E n \in Nat : \A i \in S : i <= n

Key == [kind : {"device"}, of : DOMAIN owner]
         \union [kind : {"pseudonym", "session_pub"}, of : Person]

Message(st) == [no : 1..Count, thread : DOMAIN st.threads, dir : {"in", "out"},
                seq : Nat \ {0}, state : {"queued", "sent", "delivered"}]

\* What refers to a row refers to one that is on file (REFERENCES).
TablesOK(st) ==
    /\ Shape(st)
    /\ Numbers(DOMAIN st.contacts) /\ Numbers(DOMAIN st.threads)
    /\ \A c \in DOMAIN st.contacts : st.contacts[c] \in Key
    /\ DOMAIN st.pairings \subseteq DOMAIN st.contacts
    /\ \A t \in DOMAIN st.threads : st.threads[t] \in DOMAIN st.contacts
    /\ DOMAIN st.ratchets \subseteq DOMAIN st.threads
    /\ st.rows \subseteq Message(st) /\ Numbers({m.seq : m \in st.rows})

\* One row for one key (UNIQUE).
KeysOnce(st) ==
    \A c, d \in DOMAIN st.contacts : st.contacts[c] = st.contacts[d] => c = d

\* A contact was made to be written to: it has a conversation.  C are those
\* whose conversation is still being made.
Threaded(st, C) == \A c \in DOMAIN st.contacts \ C : ThreadsOf(st, c) # {}

Holds(st, no, p) ==
    \E m \in st.rows : m.no = no /\ WhoseThread(st, m.thread) = p
AllThere(st) == \A no \in 1..Count : Holds(st, no, about[no])

Numbered(st) ==
    \A m, n \in st.rows :
        (m.dir = "out" /\ n.dir = "out" /\ m.thread = n.thread /\ m.seq = n.seq) => m = n

\* PairedIsSealed and KeysArePaired, while the contacts of C are being paired.
Sealed(st, C) ==
    \A c \in DOMAIN st.pairings \ C :
        RatchetOf(st, CurrentThread(st, c)) = st.pairings[c].no
Keyed(st, C) ==
    \A t \in DOMAIN st.ratchets :
        /\ st.threads[t] \in DOMAIN st.pairings \union C
        /\ CurrentThread(st, st.threads[t]) = t

Once(st) ==
    \A c \in DOMAIN st.pairings :
        /\ PersonOf(st.contacts[c]) = st.pairings[c].who
        /\ PairedWith(st, st.pairings[c].who) = {c}

\* A row made under the id in use, beside the row its person is paired under,
\* is of one conversation: there was no pairing with it to end one.  This is so
\* while the id a ceremony began under has been rotated away too, for it may
\* make another row of theirs the paired one.
Aside(st, p, s) ==
    \/ \E c \in PairedWith(st, p) : c # s
    \/ /\ finished.device # 0 /\ owner[finished.device] = p
       /\ finished.device # Device(p)
Single(st, s) == \A t, u \in ThreadsOf(st, s) : t = u
Lone(st) ==
    \A p \in Person : \A s \in FiledUnder(st, Placeholder(Device(p))) :
        Aside(st, p, s) => Single(st, s)

\* What the tables hold is in order, but for C.
Whole(st, C) ==
    TablesOK(st) /\ KeysOnce(st) /\ Threaded(st, C) /\ AllThere(st) /\ Numbered(st)
Sound(st, C) ==
    Whole(st, C) /\ Sealed(st, {}) /\ Keyed(st, {}) /\ Once(st) /\ Lone(st)

Owners ==
    /\ owner \in Seq(Person)
    /\ \A p \in Person : \E d \in DOMAIN owner : owner[d] = p

\* The other variables, as far as the database depends on them.
AroundOK ==
    /\ Owners
    /\ hinted \subseteq Person /\ claimed \subseteq Person /\ opened \subseteq Person
    /\ session \in [Person -> {"none", "pseudonym", "session_pub"}]
    /\ finished \in [device : DOMAIN owner \union {0}, no : Nat]
    /\ peer \in [Person -> [ratchet : Nat, next : Nat \ {0}]]
    /\ spent \in [meetings : Nat, ceremonies : Nat, blocks : Nat]
    /\ about \in Seq(Person)

ContactsInv == AroundOK /\ Sound(store, {})

-----------------------------------------------------------------------------
(* Numbers.                                                                *)

(* The highest of some numbers is one of them and no lower than any.       *)
LEMMA MaxIsThere ==
  ASSUME NEW S \in SUBSET Nat, S # {}, NEW n \in Nat, \A i \in S : i <= n
  PROVE  Max(S) \in S /\ \A i \in S : i <= Max(S)
<1> DEFINE below == {k \in Nat : \E i \in S : i = n - k}
<1>1. PICK i \in S : TRUE
  OBVIOUS
<1>2. n - i \in below
  OBVIOUS
<1>3. below \subseteq Nat /\ below # {}
  BY <1>2
<1> HIDE DEF below
<1>4. \E k \in below : \A j \in below : ~(<<j, k>> \in OpToRel(<, Nat))
  BY <1>3, NatLessThanWellFounded, WFMin, Zenon
<1>5. PICK k \in below : \A j \in below : ~(<<j, k>> \in OpToRel(<, Nat))
  BY <1>4
<1>6. \A j \in below : ~(j < k)
  BY <1>3, <1>5 DEF OpToRel
<1>7. k \in Nat /\ n - k \in S
  BY DEF below
<1>8. ASSUME NEW j \in S PROVE j <= n - k
  <2>1. n - j \in below
    BY DEF below
  <2> QED BY <1>6, <1>7, <2>1
<1>9. \E x \in S : \A y \in S : x >= y
  BY <1>7, <1>8
<1> QED BY <1>9 DEF Max

(* So it is with 0 among them, which stands for there being none.          *)
LEMMA HighestFacts ==
  ASSUME NEW S, Numbers(S)
  PROVE  /\ Max(S \union {0}) \in Nat
         /\ \A i \in S : i \in Nat \ {0} /\ i <= Max(S \union {0})
         /\ S = {} => Max(S \union {0}) = 0
         /\ S # {} => Max(S \union {0}) \in S /\ Max(S \union {0}) # 0
<1>1. PICK n \in Nat : \A i \in S : i <= n
  BY DEF Numbers
<1>2. S \union {0} \in SUBSET Nat /\ \A i \in S \union {0} : i <= n
  BY <1>1 DEF Numbers
<1>3. /\ Max(S \union {0}) \in S \union {0}
      /\ \A i \in S \union {0} : i <= Max(S \union {0})
  BY <1>2, MaxIsThere
<1>4. Max(S \union {0}) \in Nat /\ \A i \in S : i \in Nat \ {0}
  BY <1>2, <1>3 DEF Numbers
<1>5. CASE S = {}
  BY <1>3, <1>4, <1>5
<1>6. CASE S # {}
  <2>1. PICK i \in S : TRUE
    BY <1>6
  <2>2. Max(S \union {0}) # 0
    BY <1>3, <1>4, <2>1
  <2> QED BY <1>3, <1>4, <1>6, <2>2
<1> QED BY <1>5, <1>6

(* And without it, when there is one.                                      *)
LEMMA OneOf ==
  ASSUME NEW S, Numbers(S), S # {}
  PROVE  Max(S) \in S
<1>1. PICK n \in Nat : \A i \in S : i <= n
  BY DEF Numbers
<1> QED BY <1>1, MaxIsThere DEF Numbers

\* Some of them are numbers too.
LEMMA FewerNumbers ==
  ASSUME NEW S, Numbers(S), NEW T, T \subseteq S
  PROVE  Numbers(T)
  BY DEF Numbers

(* A rowid given out is above all in the table, and there is a next one.   *)
LEMMA NextIsNew ==
  ASSUME NEW table, Numbers(DOMAIN table)
  PROVE  /\ NextId(table) \in Nat \ {0}
         /\ \A i \in DOMAIN table : i < NextId(table)
         /\ NextId(table) \notin DOMAIN table
         /\ Numbers(DOMAIN table \union {NextId(table)})
<1> DEFINE top == Max(DOMAIN table \union {0})
<1>0. top \in Nat /\ \A i \in DOMAIN table : i \in Nat \ {0} /\ i <= top
  BY HighestFacts, Zenon
<1> HIDE DEF top
<1>1. /\ NextId(table) \in Nat \ {0}
      /\ \A i \in DOMAIN table : i \in Nat \ {0} /\ i < NextId(table)
  BY <1>0 DEF NextId, top
<1>2. \A i \in DOMAIN table \union {NextId(table)} : i <= NextId(table)
  BY <1>1
<1> QED BY <1>1, <1>2 DEF Numbers

\* A row written has its id, and the others are as they were.
LEMMA PutFields ==
  ASSUME NEW table, NEW id, NEW row
  PROVE  /\ DOMAIN Put(table, id, row) = DOMAIN table \union {id}
         /\ Put(table, id, row)[id] = row
         /\ \A i \in DOMAIN table \ {id} : Put(table, id, row)[i] = table[i]
  BY DEF Put

\* Rows erased are gone, and the others are as they were.
LEMMA EraseFields ==
  ASSUME NEW table, NEW ids
  PROVE  /\ DOMAIN Erase(table, ids) = DOMAIN table \ ids
         /\ \A i \in DOMAIN table \ ids : Erase(table, ids)[i] = table[i]
  BY DEF Erase, Restrict

(* The current thread of a contact is the highest of its own.              *)
LEMMA CurrentFacts ==
  ASSUME NEW st, Numbers(DOMAIN st.threads), NEW c
  PROVE  /\ CurrentThread(st, c) \in Nat
         /\ ThreadsOf(st, c) = {} => CurrentThread(st, c) = 0
         /\ ThreadsOf(st, c) # {} =>
              /\ CurrentThread(st, c) \in ThreadsOf(st, c)
              /\ CurrentThread(st, c) # 0
         /\ \A t \in ThreadsOf(st, c) : t \in Nat \ {0} /\ t <= CurrentThread(st, c)
<1>1. Numbers(ThreadsOf(st, c))
  BY FewerNumbers DEF ThreadsOf
<1> QED BY <1>1, HighestFacts DEF CurrentThread

(* The thread that is highest of a contact's is its current one.           *)
LEMMA IsCurrent ==
  ASSUME NEW st, Numbers(DOMAIN st.threads), NEW c, NEW t \in ThreadsOf(st, c),
         \A u \in ThreadsOf(st, c) : u <= t
  PROVE  CurrentThread(st, c) = t
<1>1. t \in Nat /\ t <= CurrentThread(st, c)
  BY CurrentFacts
<1>2. CurrentThread(st, c) \in Nat /\ CurrentThread(st, c) <= t
  BY CurrentFacts
<1> QED BY <1>1, <1>2

(* Contacts with the same threads have the same current one.               *)
LEMMA SameCurrent ==
  ASSUME NEW st, NEW after, NEW c, ThreadsOf(after, c) = ThreadsOf(st, c)
  PROVE  CurrentThread(after, c) = CurrentThread(st, c)
  BY DEF CurrentThread

\* No row of a conversation is numbered past the last, which is one of them.
LEMMA LastFacts ==
  ASSUME NEW st, TablesOK(st), NEW t, NEW dir
  PROVE  /\ LastSeq(st, t, dir) \in Nat
         /\ \A m \in st.rows : (m.thread = t /\ m.dir = dir)
              => m.seq \in Nat /\ m.seq <= LastSeq(st, t, dir)
         /\ LastSeq(st, t, dir) # 0 => \E m \in st.rows : LastSeq(st, t, dir) = m.seq
<1> DEFINE those == {r.seq : r \in {m \in st.rows : m.thread = t /\ m.dir = dir}}
<1>1. those \subseteq {m.seq : m \in st.rows}
  OBVIOUS
<1>2. Numbers(those)
  BY <1>1, FewerNumbers DEF TablesOK
<1>3. LastSeq(st, t, dir) = Max(those \union {0})
  BY DEF LastSeq
<1>4. \A m \in st.rows : (m.thread = t /\ m.dir = dir) => m.seq \in those
  OBVIOUS
<1>a. \A i \in those : \E m \in st.rows : i = m.seq
  OBVIOUS
<1> HIDE DEF those
<1>5. /\ those = {} => Max(those \union {0}) = 0
      /\ those # {} => Max(those \union {0}) \in those
      /\ Max(those \union {0}) \in Nat
      /\ \A i \in those : i \in Nat \ {0} /\ i <= Max(those \union {0})
  BY <1>2, HighestFacts, Zenon
<1> QED BY <1>3, <1>4, <1>5, <1>a

(* Every phone has an id in use, and it is its own.                        *)
LEMMA DeviceFacts ==
  ASSUME Owners, NEW p \in Person
  PROVE  /\ Device(p) \in DOMAIN owner /\ owner[Device(p)] = p
         /\ Device(p) \in Nat \ {0}
         /\ \A d \in DOMAIN owner : owner[d] = p => d <= Device(p)
         /\ Holder(Device(p)) = p
<1> DEFINE ids == {d \in DOMAIN owner : owner[d] = p}
<1>1. Len(owner) \in Nat /\ DOMAIN owner = 1..Len(owner)
  BY DEF Owners
<1>2. ids \in SUBSET Nat /\ ids # {} /\ \A d \in ids : d <= Len(owner)
  BY <1>1 DEF Owners
<1>3. Max(ids) \in ids /\ \A d \in ids : d <= Max(ids)
  BY <1>1, <1>2, MaxIsThere
<1>4. Device(p) = Max(ids)
  BY DEF Device
<1>5. Device(p) \in DOMAIN owner /\ owner[Device(p)] = p
  BY <1>3, <1>4
<1> QED BY <1>1, <1>3, <1>4, <1>5 DEF Holder

(* An id held is the one in use, and its holder's.                         *)
LEMMA HolderFacts ==
  ASSUME Owners, NEW d \in DOMAIN owner
  PROVE  /\ owner[d] \in Person
         /\ Holder(d) \in {owner[d], NoOne}
         /\ Holder(d) # NoOne => Holder(d) = owner[d] /\ d = Device(owner[d])
         /\ Holder(d) = NoOne => d # Device(owner[d])
<1>1. owner[d] \in Person
  BY DEF Owners
<1> QED BY <1>1, DeviceFacts, PeopleAreMany DEF Holder

-----------------------------------------------------------------------------
(* Who is behind a key, and whom a device is taken for.                    *)

(* contact_for asks four questions, and the first answer counts.           *)
LEMMA FirstOfFour ==
  ASSUME NEW A, NEW B, NEW C, NEW D
  PROVE  First(<<A, B, C, D>>) = IF A # {} THEN A ELSE IF B # {} THEN B
                                 ELSE IF C # {} THEN C ELSE D
<1> DEFINE sets == <<A, B, C, D>>
           some == {i \in DOMAIN sets : sets[i] # {}}
<1>1. /\ DOMAIN sets = 1..4
      /\ sets[1] = A /\ sets[2] = B /\ sets[3] = C /\ sets[4] = D
  OBVIOUS
<1>2. First(sets) = IF some = {} THEN {} ELSE sets[Min(some)]
  BY DEF First
<1>3. \A i : i \in some <=> i \in 1..4 /\ sets[i] # {}
  BY <1>1
<1> HIDE DEF some, sets
<1>4. ASSUME NEW i \in some, \A j \in some : i <= j PROVE Min(some) = i
  <2>1. \A j \in some : j \in 1..4
    BY <1>3
  <2>2. Min(some) \in some /\ \A y \in some : Min(some) <= y
    BY <1>4, Zenon DEF Min
  <2> QED BY <1>4, <2>1, <2>2
<1>5. CASE A # {}
  <2>1. 1 \in some /\ \A j \in some : 1 <= j
    BY <1>1, <1>3, <1>5
  <2> QED BY <1>1, <1>2, <1>4, <1>5, <2>1 DEF sets
<1>6. CASE A = {} /\ B # {}
  <2>1. 2 \in some /\ \A j \in some : 2 <= j
    BY <1>1, <1>3, <1>6
  <2> QED BY <1>1, <1>2, <1>4, <1>6, <2>1 DEF sets
<1>7. CASE A = {} /\ B = {} /\ C # {}
  <2>1. 3 \in some /\ \A j \in some : 3 <= j
    BY <1>1, <1>3, <1>7
  <2> QED BY <1>1, <1>2, <1>4, <1>7, <2>1 DEF sets
<1>8. CASE A = {} /\ B = {} /\ C = {} /\ D # {}
  <2>1. 4 \in some /\ \A j \in some : 4 <= j
    BY <1>1, <1>3, <1>8
  <2> QED BY <1>1, <1>2, <1>4, <1>8, <2>1 DEF sets
<1>9. CASE A = {} /\ B = {} /\ C = {} /\ D = {}
  <2>1. some = {}
    BY <1>1, <1>3, <1>9
  <2> QED BY <1>2, <1>9, <2>1 DEF sets
<1> QED BY <1>5, <1>6, <1>7, <1>8, <1>9

\* Every key on file is somebody's, and no session proves what is made of an id.
LEMMA KeyFacts ==
  ASSUME AroundOK
  PROVE  /\ \A k \in Key : PersonOf(k) \in Person
         /\ \A d \in DOMAIN owner :
              Placeholder(d) \in Key /\ PersonOf(Placeholder(d)) = owner[d]
         /\ \A p \in Person : session[p] # "none" =>
              SessionKey(p) \in Key /\ PersonOf(SessionKey(p)) = p
         /\ \A p, d : session[p] \in {"pseudonym", "session_pub"} =>
              SessionKey(p) # Placeholder(d)
         /\ \A d, e : Placeholder(d) = Placeholder(e) => d = e
<1>1. \A d \in DOMAIN owner : owner[d] \in Person
  BY DEF AroundOK, Owners
<1>2. \A p \in Person : session[p] \in {"none", "pseudonym", "session_pub"}
  BY DEF AroundOK
<1>3. \A k \in Key : PersonOf(k) \in Person
  BY <1>1 DEF Key, PersonOf
<1>4. \A d \in DOMAIN owner :
        Placeholder(d) \in Key /\ PersonOf(Placeholder(d)) = owner[d]
  BY DEF Key, PersonOf, Placeholder
<1>5. \A p \in Person : session[p] # "none" =>
        SessionKey(p) \in Key /\ PersonOf(SessionKey(p)) = p
  BY <1>2 DEF Key, PersonOf, SessionKey
<1>6. \A p, d : session[p] \in {"pseudonym", "session_pub"} =>
        SessionKey(p) # Placeholder(d)
  BY DEF SessionKey, Placeholder
<1>7. \A d, e : Placeholder(d) = Placeholder(e) => d = e
  BY DEF Placeholder
<1> QED BY <1>3, <1>4, <1>5, <1>6, <1>7

\* What is filed under a key is a contact, and has that key.
LEMMA FiledFacts ==
  ASSUME NEW st, TablesOK(st), NEW key
  PROVE  /\ FiledUnder(st, key) \subseteq DOMAIN st.contacts
         /\ Numbers(FiledUnder(st, key))
         /\ \A c \in FiledUnder(st, key) : st.contacts[c] = key
  BY FewerNumbers DEF FiledUnder, TablesOK

\* Who is paired is on file.
LEMMA PairedFacts ==
  ASSUME NEW st, TablesOK(st), NEW p
  PROVE  /\ PairedWith(st, p) \subseteq DOMAIN st.contacts
         /\ PairedWith(st, p) \subseteq DOMAIN st.pairings
         /\ Numbers(PairedWith(st, p))
<1>1. /\ PairedWith(st, p) \subseteq DOMAIN st.pairings
      /\ DOMAIN st.pairings \subseteq DOMAIN st.contacts
  BY DEF PairedWith, TablesOK
<1> QED BY <1>1, FewerNumbers DEF TablesOK

(* One person is paired under one row at most, and it is their own.        *)
LEMMA OnceFacts ==
  ASSUME NEW st, Once(st), NEW p, NEW c \in PairedWith(st, p)
  PROVE  PersonOf(st.contacts[c]) = p /\ PairedWith(st, p) = {c}
  BY DEF Once, PairedWith

(* What a device is taken for is a row of its owner's, found in one of     *)
(* three ways; and when it is taken for no one, no row is filed under what *)
(* it proves or under its id.                                              *)
LEMMA TakenFor ==
  ASSUME AroundOK, NEW st, TablesOK(st), Once(st), NEW d \in DOMAIN owner
  PROVE  /\ ContactFor(st, d) \subseteq DOMAIN st.contacts
         /\ Numbers(ContactFor(st, d))
         /\ \A c \in ContactFor(st, d) : PersonOf(st.contacts[c]) = owner[d]
         /\ \A c \in ContactFor(st, d) :
              \/ c \in Proved(st, d)
              \/ Proved(st, d) = {} /\ Holder(d) = owner[d] /\ c \in PairedWith(st, owner[d])
              \/ Proved(st, d) = {} /\ c \in Remembered(st, d)
         /\ ContactFor(st, d) = {} => Proved(st, d) = {} /\ Remembered(st, d) = {}
<1> DEFINE four == <<Proved(st, d), Recognised(st, d), Persona(st, d), Remembered(st, d)>>
<1>1. ContactFor(st, d) = IF Proved(st, d) # {} THEN Proved(st, d)
                          ELSE IF Recognised(st, d) # {} THEN Recognised(st, d)
                          ELSE IF Persona(st, d) # {} THEN Persona(st, d)
                          ELSE Remembered(st, d)
  BY FirstOfFour DEF ContactFor
<1>2. /\ owner[d] \in Person /\ Holder(d) \in {owner[d], NoOne}
      /\ hinted \subseteq Person /\ claimed \subseteq Person /\ NoOne \notin Person
  BY HolderFacts, PeopleAreMany DEF AroundOK
<1>3. /\ Proved(st, d) \subseteq DOMAIN st.contacts
      /\ Numbers(Proved(st, d))
      /\ \A c \in Proved(st, d) : PersonOf(st.contacts[c]) = owner[d]
  <2>1. CASE Holder(d) # NoOne /\ session[Holder(d)] # "none"
    <3>1. Holder(d) = owner[d] /\ Proved(st, d) = FiledUnder(st, SessionKey(owner[d]))
      BY <1>2, <2>1 DEF Proved
    <3>2. PersonOf(SessionKey(owner[d])) = owner[d]
      BY <1>2, <2>1, <3>1, KeyFacts
    <3> QED BY <3>1, <3>2, FiledFacts
  <2>2. CASE ~(Holder(d) # NoOne /\ session[Holder(d)] # "none")
    <3>1. Proved(st, d) = {}
      BY <2>2 DEF Proved
    <3> QED BY <3>1 DEF Numbers
  <2> QED BY <2>1, <2>2
<1>4. ASSUME NEW S, S \in {Recognised(st, d), Persona(st, d)}, S # {}
      PROVE  Holder(d) = owner[d] /\ S = PairedWith(st, owner[d])
  BY <1>2, <1>4 DEF Recognised, Persona
<1>5. /\ PairedWith(st, owner[d]) \subseteq DOMAIN st.contacts
      /\ Numbers(PairedWith(st, owner[d]))
      /\ \A c \in PairedWith(st, owner[d]) : PersonOf(st.contacts[c]) = owner[d]
  BY PairedFacts, OnceFacts
<1>6. /\ Remembered(st, d) \subseteq DOMAIN st.contacts
      /\ Numbers(Remembered(st, d))
      /\ \A c \in Remembered(st, d) : PersonOf(st.contacts[c]) = owner[d]
  BY FiledFacts, KeyFacts DEF Remembered
<1>7. \/ ContactFor(st, d) = Proved(st, d) /\ Proved(st, d) # {}
      \/ /\ Proved(st, d) = {} /\ Holder(d) = owner[d]
         /\ ContactFor(st, d) = PairedWith(st, owner[d])
         /\ ContactFor(st, d) # {}
      \/ Proved(st, d) = {} /\ ContactFor(st, d) = Remembered(st, d)
  BY <1>1, <1>4
<1> QED BY <1>3, <1>5, <1>6, <1>7

-----------------------------------------------------------------------------
(* What each operation makes of the tables.                                *)

\* add_contact writes the one row.
LEMMA AddContactFields ==
  ASSUME NEW st, Shape(st), NEW key
  PROVE  LET after == AddContact(st, key) IN
         /\ Shape(after)
         /\ after.contacts = Put(st.contacts, NextId(st.contacts), key)
         /\ after.pairings = st.pairings
         /\ after.threads = st.threads
         /\ after.ratchets = st.ratchets
         /\ after.rows = st.rows
  BY DEF AddContact, Shape, Table

\* create_thread writes the one row.
LEMMA CreateThreadFields ==
  ASSUME NEW st, Shape(st), NEW c
  PROVE  LET after == CreateThread(st, c) IN
         /\ Shape(after)
         /\ after.contacts = st.contacts
         /\ after.pairings = st.pairings
         /\ after.threads = Put(st.threads, NextId(st.threads), c)
         /\ after.ratchets = st.ratchets
         /\ after.rows = st.rows
  BY DEF CreateThread, Shape, Table

\* rekey_contact changes what one row is filed under.
LEMMA RekeyFields ==
  ASSUME NEW st, Shape(st), NEW c, NEW key
  PROVE  LET after == Rekey(st, c, key) IN
         /\ Shape(after)
         /\ after.contacts = [st.contacts EXCEPT ![c] = key]
         /\ after.pairings = st.pairings
         /\ after.threads = st.threads
         /\ after.ratchets = st.ratchets
         /\ after.rows = st.rows
  BY DEF Rekey, Shape, Table

\* Ending a conversation takes its ratchet only.
LEMMA EndConversationFields ==
  ASSUME NEW st, Shape(st), NEW c
  PROVE  LET after == EndConversation(st, c) IN
         /\ Shape(after)
         /\ after.contacts = st.contacts
         /\ after.pairings = st.pairings
         /\ after.threads = st.threads
         /\ after.ratchets = Erase(st.ratchets, {CurrentThread(st, c)})
         /\ after.rows = st.rows
  BY DEF EndConversation, Shape, Table

\* Revoking takes the pairing and the ratchet of its conversation.
LEMMA RevokeFields ==
  ASSUME NEW st, Shape(st), NEW c
  PROVE  LET after == Revoke(st, c) IN
         /\ Shape(after)
         /\ after.contacts = st.contacts
         /\ after.pairings = Erase(st.pairings, {c})
         /\ after.threads = st.threads
         /\ after.ratchets = Erase(st.ratchets, {CurrentThread(st, c)})
         /\ after.rows = st.rows
  BY DEF Revoke, Shape, Table

\* write_ratchet writes the one row, and drops seals.
LEMMA SeedFields ==
  ASSUME NEW st, Shape(st), NEW t, NEW no
  PROVE  /\ Shape(Seed(st, t, no))
         /\ Seed(st, t, no).contacts = st.contacts
         /\ Seed(st, t, no).pairings = st.pairings
         /\ Seed(st, t, no).threads = st.threads
         /\ Seed(st, t, no).ratchets = Put(st.ratchets, t, no)
         /\ Seed(st, t, no).rows = st.rows
  BY DEF Seed, Shape, Table

\* Threads go with their ratchets and their rows.
LEMMA DeleteThreadsFields ==
  ASSUME NEW st, Shape(st), NEW ts
  PROVE  /\ Shape(DeleteThreads(st, ts))
         /\ DeleteThreads(st, ts).contacts = st.contacts
         /\ DeleteThreads(st, ts).pairings = st.pairings
         /\ DeleteThreads(st, ts).threads = Erase(st.threads, ts)
         /\ DeleteThreads(st, ts).ratchets = Erase(st.ratchets, ts)
         /\ DeleteThreads(st, ts).rows = {m \in st.rows : m.thread \notin ts}
  BY DEF DeleteThreads, Shape, Table

\* A contact goes with its pairing and its threads.
LEMMA DeleteContactFields ==
  ASSUME NEW st, Shape(st), NEW c
  PROVE  LET after == DeleteContact(st, c)
             ts == ThreadsOf(st, c)
         IN /\ Shape(after)
            /\ after.contacts = Erase(st.contacts, {c})
            /\ after.pairings = Erase(st.pairings, {c})
            /\ after.threads = Erase(st.threads, ts)
            /\ after.ratchets = Erase(st.ratchets, ts)
            /\ after.rows = {m \in st.rows : m.thread \notin ts}
<1> DEFINE cut == DeleteThreads(st, ThreadsOf(st, c))
<1>1. /\ Shape(cut) /\ cut.contacts = st.contacts /\ cut.pairings = st.pairings
      /\ cut.threads = Erase(st.threads, ThreadsOf(st, c))
      /\ cut.ratchets = Erase(st.ratchets, ThreadsOf(st, c))
      /\ cut.rows = {m \in st.rows : m.thread \notin ThreadsOf(st, c)}
  BY DeleteThreadsFields
<1>2. DeleteContact(st, c) = [cut EXCEPT !.contacts = Erase(@, {c}), !.pairings = Erase(@, {c})]
  BY DEF DeleteContact
<1> HIDE DEF cut
<1> QED BY <1>1, <1>2 DEF Shape, Table

\* The thread a fold empties, and its rows as they come out of it.
Emptied(st, from, into) ==
    IF CurrentThread(st, from) # 0 /\ CurrentThread(st, into) # 0
    THEN {CurrentThread(st, from)} ELSE {}
MovedRow(st, from, into, r) ==
    IF r.thread \in Emptied(st, from, into)
    THEN [r EXCEPT !.thread = CurrentThread(st, into),
                   !.seq = @ + LastSeq(st, CurrentThread(st, into), r.dir)]
    ELSE r

Folded(st, from, into, after) ==
    LET gone == Emptied(st, from, into)
    IN /\ Shape(after)
       /\ after.contacts = Erase(st.contacts, {from})
       /\ after.pairings = Erase(st.pairings, {from})
       /\ DOMAIN after.threads = DOMAIN st.threads \ gone
       /\ \A t \in DOMAIN st.threads \ gone :
            after.threads[t] = IF st.threads[t] = from THEN into ELSE st.threads[t]
       /\ after.ratchets = Erase(st.ratchets, gone)
       /\ \A m : m \in after.rows <=> \E r \in st.rows : m = MovedRow(st, from, into, r)

(* A fold gives the threads to the other contact, but for the one whose    *)
(* rows it moves, and takes no row away.                                   *)
LEMMA FoldFields ==
  ASSUME NEW st, TablesOK(st),
         NEW from \in DOMAIN st.contacts, NEW into \in DOMAIN st.contacts,
         from # into
  PROVE  Folded(st, from, into, Fold(st, from, into))
<1> DEFINE now    == CurrentThread(st, from)
           dest   == CurrentThread(st, into)
           joins  == now # 0 /\ dest # 0
           Mv(r)  == IF joins /\ r.thread = now
                     THEN [r EXCEPT !.thread = dest, !.seq = @ + Offset(st, dest, r.dir)]
                     ELSE r
           across == Carried(st, from) \ (IF joins THEN {now} ELSE {})
           moved  == {Mv(r) : r \in st.rows}
           given  == [t \in DOMAIN st.threads |->
                        IF t \in across THEN into ELSE st.threads[t]]
           tables == [st EXCEPT !.rows = moved, !.threads = given]
           gone   == Emptied(st, from, into)
<1>1. Fold(st, from, into) = DeleteContact(tables, from)
  BY DEF Fold
<1>2. Shape(st) /\ Numbers(DOMAIN st.threads)
  BY DEF TablesOK
<1>3. gone = IF joins THEN {now} ELSE {}
  BY DEF Emptied
<1>4. moved = {MovedRow(st, from, into, r) : r \in st.rows}
  BY <1>3 DEF MovedRow, Offset
<1>5. /\ joins => now \in ThreadsOf(st, from) /\ dest \in ThreadsOf(st, into)
      /\ now = 0 => ThreadsOf(st, from) = {}
      /\ dest = 0 => ThreadsOf(st, into) = {}
  BY <1>2, CurrentFacts
<1>6. across = ThreadsOf(st, from) \ gone
  BY <1>3 DEF Carried
<1>7. \A t \in DOMAIN st.threads :
        given[t] = IF st.threads[t] = from /\ t \notin gone THEN into ELSE st.threads[t]
  BY <1>6 DEF ThreadsOf
<1> HIDE DEF moved, given
<1>8. /\ Shape(tables) /\ tables.threads = given /\ tables.rows = moved
      /\ tables.contacts = st.contacts /\ tables.pairings = st.pairings
      /\ tables.ratchets = st.ratchets
  BY <1>2 DEF Shape, Table
<1> HIDE DEF tables
<1>9. ThreadsOf(tables, from) = gone
  <2>1. DOMAIN given = DOMAIN st.threads
    BY DEF given
  <2>2. \A t \in gone : t \in DOMAIN st.threads /\ st.threads[t] = from
    BY <1>3, <1>5 DEF ThreadsOf
  <2> QED BY <1>7, <1>8, <2>1, <2>2 DEF ThreadsOf
<1>10. \A m \in moved : m.thread \notin gone
  <2>1. ASSUME NEW r \in st.rows PROVE MovedRow(st, from, into, r).thread \notin gone
    <3>1. r \in Message(st)
      BY DEF TablesOK
    <3>2. CASE r.thread \in gone
      <4>1. MovedRow(st, from, into, r).thread = dest
        BY <3>1, <3>2 DEF MovedRow, Message
      <4>2. dest \notin gone
        BY <1>3, <1>5 DEF ThreadsOf
      <4> QED BY <4>1, <4>2
    <3> QED BY <3>2 DEF MovedRow
  <2> QED BY <1>4, <2>1
<1>11. /\ Shape(Fold(st, from, into))
       /\ Fold(st, from, into).contacts = Erase(st.contacts, {from})
       /\ Fold(st, from, into).pairings = Erase(st.pairings, {from})
       /\ Fold(st, from, into).threads = Erase(given, gone)
       /\ Fold(st, from, into).ratchets = Erase(st.ratchets, gone)
       /\ Fold(st, from, into).rows = {m \in moved : m.thread \notin gone}
  <2>1. /\ Shape(DeleteContact(tables, from))
        /\ DeleteContact(tables, from).contacts = Erase(tables.contacts, {from})
        /\ DeleteContact(tables, from).pairings = Erase(tables.pairings, {from})
        /\ DeleteContact(tables, from).threads = Erase(tables.threads, ThreadsOf(tables, from))
        /\ DeleteContact(tables, from).ratchets = Erase(tables.ratchets, ThreadsOf(tables, from))
        /\ DeleteContact(tables, from).rows = {m \in tables.rows : m.thread \notin ThreadsOf(tables, from)}
    BY <1>8, DeleteContactFields, Zenon
  <2> QED BY <1>1, <1>8, <1>9, <2>1
<1>12. DOMAIN given = DOMAIN st.threads
  BY DEF given
<1>13. /\ DOMAIN Erase(given, gone) = DOMAIN st.threads \ gone
       /\ \A t \in DOMAIN st.threads \ gone : Erase(given, gone)[t] = given[t]
  BY <1>12, EraseFields
<1>14. \A t \in DOMAIN st.threads \ gone :
         Fold(st, from, into).threads[t] = IF st.threads[t] = from THEN into ELSE st.threads[t]
  BY <1>7, <1>11, <1>13
<1>15. {m \in moved : m.thread \notin gone} = {MovedRow(st, from, into, r) : r \in st.rows}
  BY <1>4, <1>10
<1>16. \A m : m \in Fold(st, from, into).rows
                <=> \E r \in st.rows : m = MovedRow(st, from, into, r)
  BY <1>11, <1>15
<1> QED BY <1>11, <1>13, <1>14, <1>16 DEF Folded

\* What a fold takes from the tables it does not rewrite.
LEMMA FoldedDomains ==
  ASSUME NEW st, NEW from, NEW into, NEW after, Folded(st, from, into, after)
  PROVE  /\ DOMAIN after.contacts = DOMAIN st.contacts \ {from}
         /\ \A c \in DOMAIN after.contacts : after.contacts[c] = st.contacts[c]
         /\ DOMAIN after.pairings = DOMAIN st.pairings \ {from}
         /\ \A c \in DOMAIN after.pairings : after.pairings[c] = st.pairings[c]
         /\ DOMAIN after.ratchets = DOMAIN st.ratchets \ Emptied(st, from, into)
         /\ \A t \in DOMAIN after.ratchets : after.ratchets[t] = st.ratchets[t]
<1>1. /\ after.contacts = Erase(st.contacts, {from})
      /\ after.pairings = Erase(st.pairings, {from})
      /\ after.ratchets = Erase(st.ratchets, Emptied(st, from, into))
  BY DEF Folded
<1>2. /\ DOMAIN Erase(st.contacts, {from}) = DOMAIN st.contacts \ {from}
      /\ \A c \in DOMAIN st.contacts \ {from} :
           Erase(st.contacts, {from})[c] = st.contacts[c]
  BY EraseFields, Zenon
<1>3. /\ DOMAIN Erase(st.pairings, {from}) = DOMAIN st.pairings \ {from}
      /\ \A c \in DOMAIN st.pairings \ {from} :
           Erase(st.pairings, {from})[c] = st.pairings[c]
  BY EraseFields, Zenon
<1>4. /\ DOMAIN Erase(st.ratchets, Emptied(st, from, into))
           = DOMAIN st.ratchets \ Emptied(st, from, into)
      /\ \A t \in DOMAIN st.ratchets \ Emptied(st, from, into) :
           Erase(st.ratchets, Emptied(st, from, into))[t] = st.ratchets[t]
  BY EraseFields, Zenon
<1> QED BY <1>1, <1>2, <1>3, <1>4

-----------------------------------------------------------------------------
(* Folding one contact into another of the same person.                    *)

\* The threads a fold leaves each contact with.
LEMMA FoldThreads ==
  ASSUME NEW st, TablesOK(st),
         NEW from \in DOMAIN st.contacts, NEW into \in DOMAIN st.contacts,
         from # into
  PROVE  LET after == Fold(st, from, into)
             gone == Emptied(st, from, into)
         IN /\ gone \subseteq ThreadsOf(st, from)
            /\ \A t \in gone : t = CurrentThread(st, from) /\ ThreadsOf(st, into) # {}
            /\ ThreadsOf(st, into) # {} =>
                 \A t \in ThreadsOf(st, from) : CurrentThread(st, from) \in gone
            /\ \A c : c \notin {from, into} => ThreadsOf(after, c) = ThreadsOf(st, c)
            /\ ThreadsOf(after, into) = ThreadsOf(st, into) \union (ThreadsOf(st, from) \ gone)
            /\ ThreadsOf(after, from) = {}
<1> DEFINE after == Fold(st, from, into)
           gone == Emptied(st, from, into)
<1>0. Folded(st, from, into, after)
  BY FoldFields
<1> HIDE DEF after
<1>1. /\ DOMAIN after.threads = DOMAIN st.threads \ gone
      /\ \A t \in DOMAIN st.threads \ gone :
           after.threads[t] = IF st.threads[t] = from THEN into ELSE st.threads[t]
  BY <1>0 DEF Folded
<1>2. Numbers(DOMAIN st.threads)
  BY DEF TablesOK
<1>3. /\ gone \subseteq ThreadsOf(st, from)
      /\ \A t \in gone : t = CurrentThread(st, from) /\ ThreadsOf(st, into) # {}
      /\ ThreadsOf(st, into) # {} =>
           \A t \in ThreadsOf(st, from) : CurrentThread(st, from) \in gone
  BY <1>2, CurrentFacts DEF Emptied
<1> HIDE DEF gone
<1>4. \A t \in ThreadsOf(st, from) : t \in DOMAIN st.threads /\ st.threads[t] = from
  BY DEF ThreadsOf
<1>5. \A c : c \notin {from, into} => ThreadsOf(after, c) = ThreadsOf(st, c)
  BY <1>1, <1>3, <1>4 DEF ThreadsOf
<1>6. ThreadsOf(after, into) = ThreadsOf(st, into) \union (ThreadsOf(st, from) \ gone)
  BY <1>1, <1>3, <1>4 DEF ThreadsOf
<1>7. ThreadsOf(after, from) = {}
  BY <1>1 DEF ThreadsOf
<1> QED BY <1>3, <1>5, <1>6, <1>7 DEF after, gone

\* A row that comes out of a fold, and where it went.
LEMMA MovedRowFields ==
  ASSUME NEW st, TablesOK(st),
         NEW from \in DOMAIN st.contacts, NEW into \in DOMAIN st.contacts,
         from # into, NEW r \in st.rows
  PROVE  LET m == MovedRow(st, from, into, r)
             gone == Emptied(st, from, into)
             dest == CurrentThread(st, into)
         IN /\ r.thread \notin gone => m = r
            /\ r.thread \in gone =>
                 /\ m = [no |-> r.no, thread |-> dest, dir |-> r.dir,
                         seq |-> r.seq + LastSeq(st, dest, r.dir), state |-> r.state]
                 /\ dest \in ThreadsOf(st, into) /\ dest \notin gone
            /\ m.thread \in DOMAIN st.threads \ gone
            /\ m.no = r.no /\ m.dir = r.dir /\ m.state = r.state
<1> DEFINE gone == Emptied(st, from, into)
           dest == CurrentThread(st, into)
           m == MovedRow(st, from, into, r)
<1>1. r \in Message(st) /\ Numbers(DOMAIN st.threads)
  BY DEF TablesOK
<1>2. CASE r.thread \notin gone
  <2>1. m = r
    BY <1>2 DEF MovedRow
  <2> QED BY <1>1, <1>2, <2>1 DEF Message
<1>3. CASE r.thread \in gone
  <2>1. gone \subseteq ThreadsOf(st, from) /\ ThreadsOf(st, into) # {}
    BY <1>3, FoldThreads
  <2>2. dest \in ThreadsOf(st, into)
    BY <1>1, <2>1, CurrentFacts
  <2>3. dest \in DOMAIN st.threads /\ dest \notin gone
    BY <2>1, <2>2 DEF ThreadsOf
  <2>4. m = [r EXCEPT !.thread = dest, !.seq = @ + LastSeq(st, dest, r.dir)]
    BY <1>3 DEF MovedRow
  <2> HIDE DEF m, gone, dest
  <2>5. m = [no |-> r.no, thread |-> dest, dir |-> r.dir,
             seq |-> r.seq + LastSeq(st, dest, r.dir), state |-> r.state]
    BY <1>1, <2>4 DEF Message
  <2>6. m.thread = dest /\ m.no = r.no /\ m.dir = r.dir /\ m.state = r.state
    BY <2>5
  <2> QED BY <1>3, <2>2, <2>3, <2>5, <2>6 DEF m, gone, dest
<1> QED BY <1>2, <1>3

\* What was said with a person is still in a conversation with them.
LEMMA FoldKeepsPeople ==
  ASSUME NEW st, TablesOK(st),
         NEW from \in DOMAIN st.contacts, NEW into \in DOMAIN st.contacts,
         from # into, PersonOf(st.contacts[from]) = PersonOf(st.contacts[into])
  PROVE  /\ \A t \in DOMAIN st.threads \ Emptied(st, from, into) :
              WhoseThread(Fold(st, from, into), t) = WhoseThread(st, t)
         /\ \A r \in st.rows :
              WhoseThread(Fold(st, from, into), MovedRow(st, from, into, r).thread)
                = WhoseThread(st, r.thread)
<1> DEFINE after == Fold(st, from, into)
           gone == Emptied(st, from, into)
           dest == CurrentThread(st, into)
<1>0. Folded(st, from, into, after)
  BY FoldFields
<1> HIDE DEF after
<1>1. /\ \A t \in DOMAIN st.threads \ gone :
           after.threads[t] = IF st.threads[t] = from THEN into ELSE st.threads[t]
      /\ after.contacts = Erase(st.contacts, {from})
  BY <1>0 DEF Folded
<1>2. \A c \in DOMAIN st.contacts \ {from} : after.contacts[c] = st.contacts[c]
  <2>1. \A c \in DOMAIN st.contacts \ {from} :
          Erase(st.contacts, {from})[c] = st.contacts[c]
    BY EraseFields, Zenon
  <2> QED BY <1>1, <2>1
<1>3. \A t \in DOMAIN st.threads : st.threads[t] \in DOMAIN st.contacts
  BY DEF TablesOK
<1>4. ASSUME NEW t \in DOMAIN st.threads \ gone
      PROVE  WhoseThread(after, t) = WhoseThread(st, t)
  <2>1. CASE st.threads[t] = from
    <3>1. after.threads[t] = into /\ after.contacts[into] = st.contacts[into]
      BY <1>1, <1>2, <2>1
    <3>2. WhoseThread(after, t) = PersonOf(st.contacts[into])
      BY <3>1 DEF WhoseThread
    <3> QED BY <2>1, <3>2 DEF WhoseThread
  <2>2. CASE st.threads[t] # from
    <3>1. after.threads[t] = st.threads[t]
      BY <1>1, <2>2
    <3>2. after.contacts[st.threads[t]] = st.contacts[st.threads[t]]
      BY <1>2, <1>3, <2>2
    <3> QED BY <3>1, <3>2 DEF WhoseThread
  <2> QED BY <2>1, <2>2
<1>5. ASSUME NEW r \in st.rows
      PROVE  WhoseThread(after, MovedRow(st, from, into, r).thread) = WhoseThread(st, r.thread)
  <2> DEFINE m == MovedRow(st, from, into, r)
  <2>1. /\ r.thread \notin gone => m = r
        /\ r.thread \in gone => m.thread = dest /\ dest \in ThreadsOf(st, into)
        /\ m.thread \in DOMAIN st.threads \ gone
    BY MovedRowFields
  <2>2. WhoseThread(after, m.thread) = WhoseThread(st, m.thread)
    BY <1>4, <2>1
  <2>3. CASE r.thread \in gone
    <3>1. st.threads[m.thread] = into
      BY <2>1, <2>3 DEF ThreadsOf
    <3>2. r.thread \in ThreadsOf(st, from)
      BY <2>3, FoldThreads
    <3>3. st.threads[r.thread] = from
      BY <3>2 DEF ThreadsOf
    <3> QED BY <2>2, <3>1, <3>3 DEF WhoseThread
  <2> QED BY <2>1, <2>2, <2>3
<1> QED BY <1>4, <1>5 DEF after

\* The rows that come out of a fold are rows of threads there are.
LEMMA FoldKeepsRows ==
  ASSUME NEW st, TablesOK(st),
         NEW from \in DOMAIN st.contacts, NEW into \in DOMAIN st.contacts,
         from # into
  PROVE  /\ Fold(st, from, into).rows \subseteq Message(Fold(st, from, into))
         /\ Numbers({m.seq : m \in Fold(st, from, into).rows})
<1> DEFINE after == Fold(st, from, into)
           gone == Emptied(st, from, into)
           dest == CurrentThread(st, into)
<1>0. Folded(st, from, into, after)
  BY FoldFields
<1> HIDE DEF after
<1>1. /\ DOMAIN after.threads = DOMAIN st.threads \ gone
      /\ \A m \in after.rows : \E r \in st.rows : m = MovedRow(st, from, into, r)
  BY <1>0 DEF Folded
<1>2. PICK n \in Nat : \A i \in {m.seq : m \in st.rows} : i <= n
  BY DEF TablesOK, Numbers
<1>3. \A r \in st.rows : r \in Message(st) /\ r.seq \in Nat \ {0} /\ r.seq <= n
  BY <1>2 DEF TablesOK, Message
<1>4. \A dir : LastSeq(st, dest, dir) \in Nat /\ LastSeq(st, dest, dir) <= n
  <2>1. ASSUME NEW dir PROVE LastSeq(st, dest, dir) \in Nat /\ LastSeq(st, dest, dir) <= n
    <3>1. /\ LastSeq(st, dest, dir) \in Nat
          /\ LastSeq(st, dest, dir) # 0 => \E m \in st.rows : LastSeq(st, dest, dir) = m.seq
      BY LastFacts
    <3> QED BY <1>3, <3>1
  <2> QED BY <2>1
<1>5. ASSUME NEW m \in after.rows
      PROVE  m \in Message(after) /\ m.seq \in Nat \ {0} /\ m.seq <= n + n
  <2>1. PICK r \in st.rows : m = MovedRow(st, from, into, r)
    BY <1>1
  <2>2. /\ r.thread \notin gone => m = r
        /\ r.thread \in gone =>
             m = [no |-> r.no, thread |-> dest, dir |-> r.dir,
                  seq |-> r.seq + LastSeq(st, dest, r.dir), state |-> r.state]
        /\ m.thread \in DOMAIN after.threads
    BY <1>1, <2>1, MovedRowFields
  <2> HIDE DEF gone, dest
  <2>3. CASE r.thread \notin gone
    BY <1>3, <2>2, <2>3 DEF Message
  <2>4. CASE r.thread \in gone
    <3>1. r.seq + LastSeq(st, dest, r.dir) \in Nat \ {0}
          /\ r.seq + LastSeq(st, dest, r.dir) <= n + n
      BY <1>3, <1>4
    <3>2. m.thread = dest /\ m.seq = r.seq + LastSeq(st, dest, r.dir)
      BY <2>2, <2>4
    <3> QED BY <1>3, <2>2, <2>4, <3>1, <3>2 DEF Message
  <2> QED BY <2>3, <2>4
<1>6. Numbers({m.seq : m \in after.rows})
  <2>1. \A i \in {m.seq : m \in after.rows} : i \in Nat \ {0} /\ i <= n + n
    BY <1>5
  <2>2. n + n \in Nat
    OBVIOUS
  <2> QED BY <2>1, <2>2 DEF Numbers
<1>7. after.rows \subseteq Message(after)
  BY <1>5
<1> QED BY <1>6, <1>7 DEF after

\* What referred to the contact that goes refers to the one that stays.
LEMMA FoldKeepsTables ==
  ASSUME NEW st, TablesOK(st),
         NEW from \in DOMAIN st.contacts, NEW into \in DOMAIN st.contacts,
         from # into
  PROVE  TablesOK(Fold(st, from, into))
<1> DEFINE after == Fold(st, from, into)
           gone == Emptied(st, from, into)
<1>0. Folded(st, from, into, after)
  BY FoldFields
<1>r. after.rows \subseteq Message(after) /\ Numbers({m.seq : m \in after.rows})
  BY FoldKeepsRows
<1> HIDE DEF after
<1>1. /\ DOMAIN after.contacts = DOMAIN st.contacts \ {from}
      /\ \A c \in DOMAIN after.contacts : after.contacts[c] = st.contacts[c]
      /\ DOMAIN after.pairings = DOMAIN st.pairings \ {from}
      /\ DOMAIN after.ratchets = DOMAIN st.ratchets \ gone
  BY <1>0, FoldedDomains
<1>2. /\ Shape(after)
      /\ DOMAIN after.threads = DOMAIN st.threads \ gone
      /\ \A t \in DOMAIN st.threads \ gone :
           after.threads[t] = IF st.threads[t] = from THEN into ELSE st.threads[t]
  BY <1>0 DEF Folded
<1>3. Numbers(DOMAIN after.contacts) /\ Numbers(DOMAIN after.threads)
  <2>1. DOMAIN after.contacts \subseteq DOMAIN st.contacts
        /\ DOMAIN after.threads \subseteq DOMAIN st.threads
    BY <1>1, <1>2
  <2> QED BY <2>1, FewerNumbers DEF TablesOK
<1>4. \A c \in DOMAIN after.contacts : after.contacts[c] \in Key
  BY <1>1 DEF TablesOK
<1>5. DOMAIN after.pairings \subseteq DOMAIN after.contacts
  BY <1>1 DEF TablesOK
<1>6. \A t \in DOMAIN after.threads : after.threads[t] \in DOMAIN after.contacts
  BY <1>1, <1>2 DEF TablesOK
<1>7. DOMAIN after.ratchets \subseteq DOMAIN after.threads
  BY <1>1, <1>2 DEF TablesOK
<1> QED BY <1>r, <1>2, <1>3, <1>4, <1>5, <1>6, <1>7 DEF TablesOK, after

\* The rows a fold moves are numbered past those they join, in their order.
LEMMA FoldKeepsNumbered ==
  ASSUME NEW st, TablesOK(st), Numbered(st),
         NEW from \in DOMAIN st.contacts, NEW into \in DOMAIN st.contacts,
         from # into
  PROVE  Numbered(Fold(st, from, into))
<1> DEFINE after == Fold(st, from, into)
           gone == Emptied(st, from, into)
           dest == CurrentThread(st, into)
           Mv(r) == MovedRow(st, from, into, r)
<1>0. Folded(st, from, into, after)
  BY FoldFields
<1>1. \A m \in after.rows : \E r \in st.rows : m = Mv(r)
  BY <1>0 DEF Folded
<1>2. ASSUME NEW r \in st.rows
      PROVE  /\ r.thread \notin gone => Mv(r) = r
             /\ r.thread \in gone =>
                  /\ Mv(r).thread = dest
                  /\ Mv(r).seq = r.seq + LastSeq(st, dest, r.dir)
             /\ Mv(r).thread \notin gone
             /\ Mv(r).dir = r.dir
             /\ r.seq \in Nat \ {0}
  <2>1. r.seq \in Nat \ {0}
    BY DEF TablesOK, Message
  <2> QED BY <2>1, MovedRowFields
<1>3. \A t, u \in gone : t = u
  BY FoldThreads
<1> HIDE DEF after, gone, dest, Mv
<1>4. /\ LastSeq(st, dest, "out") \in Nat
      /\ \A m \in st.rows : (m.thread = dest /\ m.dir = "out")
           => m.seq \in Nat /\ m.seq <= LastSeq(st, dest, "out")
  BY LastFacts
<1>5. ASSUME NEW r \in st.rows, NEW s \in st.rows,
             Mv(r).dir = "out", Mv(s).dir = "out", Mv(r).thread = Mv(s).thread,
             Mv(r).seq = Mv(s).seq
      PROVE  Mv(r) = Mv(s)
  <2>1. r.dir = "out" /\ s.dir = "out"
    BY <1>2, <1>5
  <2>2. CASE r.thread \in gone /\ s.thread \in gone
    <3>1. r.thread = s.thread
      BY <1>3, <2>2
    <3>2. r.seq + LastSeq(st, dest, "out") = s.seq + LastSeq(st, dest, "out")
      BY <1>2, <1>5, <2>1, <2>2
    <3>3. r.seq = s.seq
      BY <1>2, <1>4, <3>2
    <3> QED BY <2>1, <3>1, <3>3 DEF Numbered
  <2>3. CASE r.thread \in gone /\ s.thread \notin gone
    <3>1. s.thread = dest /\ s.seq = r.seq + LastSeq(st, dest, "out")
      BY <1>2, <1>5, <2>1, <2>3
    <3>2. s.seq <= LastSeq(st, dest, "out")
      BY <1>4, <2>1, <3>1
    <3> QED BY <1>2, <1>4, <3>1, <3>2
  <2>4. CASE r.thread \notin gone /\ s.thread \in gone
    <3>1. r.thread = dest /\ r.seq = s.seq + LastSeq(st, dest, "out")
      BY <1>2, <1>5, <2>1, <2>4
    <3>2. r.seq <= LastSeq(st, dest, "out")
      BY <1>4, <2>1, <3>1
    <3> QED BY <1>2, <1>4, <3>1, <3>2
  <2>5. CASE r.thread \notin gone /\ s.thread \notin gone
    BY <1>2, <1>5, <2>1, <2>5 DEF Numbered
  <2> QED BY <2>2, <2>3, <2>4, <2>5
<1>6. Numbered(after)
  BY <1>1, <1>5 DEF Numbered
<1> QED BY <1>6 DEF after

\* A fold of two rows of one person loses none of what was said.
LEMMA FoldKeepsWhole ==
  ASSUME NEW st, NEW C, Whole(st, C),
         NEW from \in DOMAIN st.contacts, NEW into \in DOMAIN st.contacts,
         from # into, PersonOf(st.contacts[from]) = PersonOf(st.contacts[into]),
         C \subseteq {into}
  PROVE  Whole(Fold(st, from, into), {})
<1> DEFINE after == Fold(st, from, into)
           gone == Emptied(st, from, into)
<1>0. TablesOK(st) /\ Folded(st, from, into, after)
  BY FoldFields DEF Whole
<1>1. TablesOK(after) /\ Numbered(after)
  BY FoldKeepsTables, FoldKeepsNumbered DEF Whole
<1>2. /\ gone \subseteq ThreadsOf(st, from)
      /\ \A t \in gone : ThreadsOf(st, into) # {}
      /\ \A c : c \notin {from, into} => ThreadsOf(after, c) = ThreadsOf(st, c)
      /\ ThreadsOf(after, into) = ThreadsOf(st, into) \union (ThreadsOf(st, from) \ gone)
  BY <1>0, FoldThreads
<1>3. \A r \in st.rows :
        WhoseThread(after, MovedRow(st, from, into, r).thread) = WhoseThread(st, r.thread)
  BY <1>0, FoldKeepsPeople
<1>4. \A r \in st.rows : MovedRow(st, from, into, r).no = r.no
  BY <1>0, MovedRowFields
<1> HIDE DEF after, gone
<1>5. /\ DOMAIN after.contacts = DOMAIN st.contacts \ {from}
      /\ \A c \in DOMAIN after.contacts : after.contacts[c] = st.contacts[c]
  BY <1>0, FoldedDomains
<1>6. KeysOnce(after)
  BY <1>5 DEF KeysOnce, Whole
<1>7. Threaded(after, {})
  <2>1. ThreadsOf(st, from) # {}
    BY DEF Whole, Threaded
  <2>2. \A c \in DOMAIN after.contacts \ {into} : ThreadsOf(after, c) # {}
    BY <1>2, <1>5 DEF Whole, Threaded
  <2>3. ThreadsOf(after, into) # {}
    BY <1>2, <2>1
  <2> QED BY <2>2, <2>3 DEF Threaded
<1>8. AllThere(after)
  <2>1. ASSUME NEW no \in 1..Count PROVE Holds(after, no, about[no])
    <3>1. PICK r \in st.rows : r.no = no /\ WhoseThread(st, r.thread) = about[no]
      BY DEF Whole, AllThere, Holds
    <3>2. MovedRow(st, from, into, r) \in after.rows
      BY <1>0 DEF Folded
    <3> QED BY <1>3, <1>4, <3>1, <3>2 DEF Holds
  <2> QED BY <2>1 DEF AllThere
<1> QED BY <1>1, <1>6, <1>7, <1>8 DEF Whole, after


-----------------------------------------------------------------------------
(* What a fold leaves of the keys.                                         *)

\* Contacts but the two have the threads and the ratchets they had; the one
\* that stays has the ratchets it had, and those of the other but of its last
\* conversation.
LEMMA FoldKeepsOthers ==
  ASSUME NEW st, TablesOK(st), Keyed(st, {}),
         NEW from \in DOMAIN st.contacts, NEW into \in DOMAIN st.contacts, from # into
  PROVE  LET after == Fold(st, from, into) IN
         /\ \A c : c \notin {from, into} =>
              /\ CurrentThread(after, c) = CurrentThread(st, c)
              /\ RatchetOf(after, CurrentThread(after, c))
                   = RatchetOf(st, CurrentThread(st, c))
         /\ \A t \in DOMAIN after.ratchets :
              /\ t \in DOMAIN st.ratchets
              /\ ThreadsOf(st, into) # {} => st.threads[t] # from
              /\ after.threads[t] = IF st.threads[t] = from THEN into ELSE st.threads[t]
<1> DEFINE after == Fold(st, from, into)
           gone == Emptied(st, from, into)
<1>0. Folded(st, from, into, after)
  BY FoldFields
<1>1. /\ gone \subseteq ThreadsOf(st, from)
      /\ ThreadsOf(st, into) # {} =>
           \A t \in ThreadsOf(st, from) : CurrentThread(st, from) \in gone
      /\ \A c : c \notin {from, into} => ThreadsOf(after, c) = ThreadsOf(st, c)
  BY FoldThreads
<1> HIDE DEF after, gone
<1>2. /\ DOMAIN after.ratchets = DOMAIN st.ratchets \ gone
      /\ \A t \in DOMAIN after.ratchets : after.ratchets[t] = st.ratchets[t]
  BY <1>0, FoldedDomains DEF gone
<1>3. ASSUME NEW c, c \notin {from, into}
      PROVE  /\ CurrentThread(after, c) = CurrentThread(st, c)
             /\ RatchetOf(after, CurrentThread(after, c))
                  = RatchetOf(st, CurrentThread(st, c))
  <2>1. CurrentThread(after, c) = CurrentThread(st, c)
    BY <1>1, <1>3, SameCurrent
  <2>2. CurrentThread(st, c) \notin gone
    <3>1. Numbers(DOMAIN st.threads)
      BY DEF TablesOK
    <3>2. CurrentThread(st, c) \in gone => CurrentThread(st, c) \in ThreadsOf(st, c)
      <4>1. \A t \in gone : t # 0
        BY <1>1, <3>1, CurrentFacts
      <4> QED BY <3>1, <4>1, CurrentFacts
    <3> QED BY <1>1, <1>3, <3>2 DEF ThreadsOf
  <2> QED BY <1>2, <2>1, <2>2 DEF RatchetOf
<1>4. ASSUME NEW t \in DOMAIN after.ratchets
      PROVE  /\ t \in DOMAIN st.ratchets
             /\ ThreadsOf(st, into) # {} => st.threads[t] # from
             /\ after.threads[t] = IF st.threads[t] = from THEN into ELSE st.threads[t]
  <2>1. t \in DOMAIN st.ratchets /\ t \notin gone /\ t \in DOMAIN st.threads
    BY <1>2 DEF TablesOK
  <2>2. CurrentThread(st, st.threads[t]) = t
    BY <2>1 DEF Keyed
  <2>3. ThreadsOf(st, into) # {} => st.threads[t] # from
    BY <1>1, <2>1, <2>2 DEF ThreadsOf
  <2> QED BY <1>0, <2>1, <2>3 DEF Folded, gone
<1> QED BY <1>3, <1>4 DEF after

\* Who is paired after a fold was paired before it.
LEMMA FewerPaired ==
  ASSUME NEW st, NEW from, NEW into, NEW after, Folded(st, from, into, after), NEW p
  PROVE  PairedWith(after, p) = PairedWith(st, p) \ {from}
  BY FoldedDomains DEF PairedWith

\* A fold pairs nobody.
LEMMA FoldKeepsOnce ==
  ASSUME NEW st, TablesOK(st), Once(st),
         NEW from \in DOMAIN st.contacts, NEW into \in DOMAIN st.contacts, from # into
  PROVE  Once(Fold(st, from, into))
<1> DEFINE after == Fold(st, from, into)
<1>0. Folded(st, from, into, after)
  BY FoldFields
<1> HIDE DEF after
<1>1. ASSUME NEW c \in DOMAIN after.pairings
      PROVE  /\ PersonOf(after.contacts[c]) = after.pairings[c].who
             /\ PairedWith(after, after.pairings[c].who) = {c}
  <2>1. c \in DOMAIN st.pairings \ {from} /\ after.pairings[c] = st.pairings[c]
    BY <1>0, FoldedDomains
  <2>2. after.contacts[c] = st.contacts[c]
    BY <1>0, <2>1, FoldedDomains DEF TablesOK
  <2>3. PairedWith(after, st.pairings[c].who) = PairedWith(st, st.pairings[c].who) \ {from}
    BY <1>0, FewerPaired
  <2> QED BY <2>1, <2>2, <2>3 DEF Once
<1> QED BY <1>1 DEF Once, after

\* The rows a fold does not touch stand beside no more than they stood.
LEMMA FoldKeepsLone ==
  ASSUME AroundOK, NEW st, TablesOK(st), Lone(st),
         NEW from \in DOMAIN st.contacts, NEW into \in DOMAIN st.contacts, from # into,
         \A p \in Person : st.contacts[into] # Placeholder(Device(p))
  PROVE  Lone(Fold(st, from, into))
<1> DEFINE after == Fold(st, from, into)
<1>0. Folded(st, from, into, after)
  BY FoldFields
<1>1. \A c : c \notin {from, into} => ThreadsOf(after, c) = ThreadsOf(st, c)
  BY FoldThreads
<1> HIDE DEF after
<1>2. ASSUME NEW p \in Person, NEW s \in FiledUnder(after, Placeholder(Device(p))),
             Aside(after, p, s)
      PROVE  Single(after, s)
  <2>1. s \in FiledUnder(st, Placeholder(Device(p))) /\ s \notin {from, into}
    BY <1>0, <1>2, FoldedDomains DEF FiledUnder
  <2>2. Aside(st, p, s)
    <3>1. PairedWith(after, p) = PairedWith(st, p) \ {from}
      BY <1>0, FewerPaired
    <3> QED BY <1>2, <3>1 DEF Aside
  <2> QED BY <1>1, <2>1, <2>2 DEF Lone, Single
<1> QED BY <1>2 DEF Lone, after

-----------------------------------------------------------------------------
(* Settling a row made under an id with what a session proves.             *)

\* The row made under an id, folded into the one a session reaches: whichever
\* is the paired one, what it seals with stays current.
LEMMA MergeKeepsSound ==
  ASSUME AroundOK, NEW st, Sound(st, {}), NEW p \in Person, session[p] # "none",
         NEW from \in FiledUnder(st, Placeholder(Device(p))),
         NEW into \in FiledUnder(st, SessionKey(p))
  PROVE  Sound(Fold(st, from, into), {}) /\ from # into
<1> DEFINE after == Fold(st, from, into)
           gone == Emptied(st, from, into)
<1>1. /\ TablesOK(st) /\ KeysOnce(st) /\ Threaded(st, {}) /\ Whole(st, {})
      /\ Sealed(st, {}) /\ Keyed(st, {}) /\ Once(st) /\ Lone(st)
  BY DEF Sound, Whole
<1>2. /\ from \in DOMAIN st.contacts /\ st.contacts[from] = Placeholder(Device(p))
      /\ into \in DOMAIN st.contacts /\ st.contacts[into] = SessionKey(p)
  BY DEF FiledUnder
<1>3. /\ PersonOf(st.contacts[from]) = p /\ PersonOf(st.contacts[into]) = p
      /\ \A d : SessionKey(p) # Placeholder(d)
  <2>1. Device(p) \in DOMAIN owner /\ owner[Device(p)] = p
    BY DeviceFacts DEF AroundOK
  <2>2. session[p] \in {"pseudonym", "session_pub"}
    BY DEF AroundOK
  <2> QED BY <1>2, <2>1, <2>2, KeyFacts
<1>4. from # into
  BY <1>2, <1>3
<1>5. ThreadsOf(st, from) # {} /\ ThreadsOf(st, into) # {}
  BY <1>1, <1>2 DEF Threaded
<1>6. Folded(st, from, into, after)
  BY <1>1, <1>2, <1>4, FoldFields
<1>7. Whole(after, {}) /\ Once(after) /\ Lone(after)
  <2>1. Whole(after, {})
    BY <1>1, <1>2, <1>3, <1>4, FoldKeepsWhole
  <2>2. Once(after)
    BY <1>1, <1>2, <1>4, FoldKeepsOnce
  <2>3. Lone(after)
    BY <1>1, <1>2, <1>3, <1>4, FoldKeepsLone
  <2> QED BY <2>1, <2>2, <2>3
<1>8. /\ \A c : c \notin {from, into} =>
           /\ CurrentThread(after, c) = CurrentThread(st, c)
           /\ RatchetOf(after, CurrentThread(after, c))
                = RatchetOf(st, CurrentThread(st, c))
      /\ \A t \in DOMAIN after.ratchets :
           /\ t \in DOMAIN st.ratchets /\ st.threads[t] # from
           /\ after.threads[t] = st.threads[t]
  BY <1>1, <1>2, <1>4, <1>5, FoldKeepsOthers
<1>9. into \in DOMAIN st.pairings => ThreadsOf(after, into) = ThreadsOf(st, into)
  <2> SUFFICES ASSUME into \in DOMAIN st.pairings
               PROVE  ThreadsOf(after, into) = ThreadsOf(st, into)
    OBVIOUS
  <2>1. into \in PairedWith(st, p)
    BY <1>1, <1>3 DEF Once, PairedWith
  <2>2. Single(st, from)
    BY <1>1, <1>4, <2>1 DEF Lone, Aside
  <2>3. ThreadsOf(st, from) \subseteq gone
    <3>1. \A t \in ThreadsOf(st, from) : CurrentThread(st, from) \in gone
      BY <1>1, <1>2, <1>4, <1>5, FoldThreads
    <3>2. gone \subseteq ThreadsOf(st, from)
      BY <1>1, <1>2, <1>4, FoldThreads
    <3> QED BY <2>2, <3>1, <3>2 DEF Single
  <2>4. ThreadsOf(after, into) = ThreadsOf(st, into) \union (ThreadsOf(st, from) \ gone)
    BY <1>1, <1>2, <1>4, FoldThreads
  <2> QED BY <2>3, <2>4
<1> HIDE DEF after, gone
<1>10. /\ DOMAIN after.pairings = DOMAIN st.pairings \ {from}
       /\ \A c \in DOMAIN after.pairings : after.pairings[c] = st.pairings[c]
       /\ DOMAIN after.ratchets = DOMAIN st.ratchets \ gone
       /\ \A t \in DOMAIN after.ratchets : after.ratchets[t] = st.ratchets[t]
  BY <1>6, FoldedDomains DEF gone
<1>11. into \in DOMAIN st.pairings =>
         /\ CurrentThread(after, into) = CurrentThread(st, into)
         /\ RatchetOf(after, CurrentThread(after, into))
              = RatchetOf(st, CurrentThread(st, into))
  <2> SUFFICES ASSUME into \in DOMAIN st.pairings
               PROVE  /\ CurrentThread(after, into) = CurrentThread(st, into)
                      /\ RatchetOf(after, CurrentThread(after, into))
                           = RatchetOf(st, CurrentThread(st, into))
    OBVIOUS
  <2>1. CurrentThread(after, into) = CurrentThread(st, into)
    BY <1>9, SameCurrent
  <2>2. CurrentThread(st, into) \in ThreadsOf(st, into)
    BY <1>1, <1>5, CurrentFacts DEF TablesOK
  <2>3. gone \subseteq ThreadsOf(st, from)
    BY <1>1, <1>2, <1>4, FoldThreads DEF gone
  <2>4. CurrentThread(st, into) \notin gone
    BY <1>4, <2>2, <2>3 DEF ThreadsOf
  <2> QED BY <1>10, <2>1, <2>4 DEF RatchetOf
<1>12. Sealed(after, {})
  <2>1. ASSUME NEW c \in DOMAIN after.pairings
        PROVE  RatchetOf(after, CurrentThread(after, c)) = after.pairings[c].no
    <3>1. c \in DOMAIN st.pairings /\ c # from /\ after.pairings[c] = st.pairings[c]
      BY <1>10
    <3>2. RatchetOf(after, CurrentThread(after, c)) = RatchetOf(st, CurrentThread(st, c))
      BY <1>8, <1>11, <3>1
    <3> QED BY <1>1, <3>1, <3>2 DEF Sealed
  <2> QED BY <2>1 DEF Sealed
<1>13. Keyed(after, {})
  <2>1. ASSUME NEW t \in DOMAIN after.ratchets
        PROVE  /\ after.threads[t] \in DOMAIN after.pairings
               /\ CurrentThread(after, after.threads[t]) = t
    <3>1. /\ t \in DOMAIN st.ratchets /\ st.threads[t] # from
          /\ after.threads[t] = st.threads[t]
      BY <1>8
    <3>2. st.threads[t] \in DOMAIN st.pairings /\ CurrentThread(st, st.threads[t]) = t
      BY <1>1, <3>1 DEF Keyed
    <3>3. CurrentThread(after, st.threads[t]) = CurrentThread(st, st.threads[t])
      BY <1>8, <1>11, <3>1, <3>2
    <3> QED BY <1>10, <3>1, <3>2, <3>3
  <2> QED BY <2>1 DEF Keyed
<1> QED BY <1>4, <1>7, <1>12, <1>13 DEF Sound, after

\* A row filed under another key of the same person, which no row is under.
LEMMA RekeyKeepsSound ==
  ASSUME AroundOK, NEW st, Sound(st, {}), NEW c \in DOMAIN st.contacts, NEW key \in Key,
         PersonOf(key) = PersonOf(st.contacts[c]), FiledUnder(st, key) = {},
         \A p \in Person : key # Placeholder(Device(p))
  PROVE  Sound(Rekey(st, c, key), {})
<1> DEFINE after == Rekey(st, c, key)
<1>1. /\ TablesOK(st) /\ KeysOnce(st) /\ Threaded(st, {}) /\ AllThere(st) /\ Numbered(st)
      /\ Sealed(st, {}) /\ Keyed(st, {}) /\ Once(st) /\ Lone(st)
  BY DEF Sound, Whole
<1>2. /\ Shape(after)
      /\ after.contacts = [st.contacts EXCEPT ![c] = key]
      /\ after.pairings = st.pairings /\ after.threads = st.threads
      /\ after.ratchets = st.ratchets /\ after.rows = st.rows
  BY <1>1, RekeyFields DEF TablesOK
<1> HIDE DEF after
<1>3. /\ DOMAIN after.contacts = DOMAIN st.contacts
      /\ after.contacts[c] = key
      /\ \A e \in DOMAIN st.contacts \ {c} : after.contacts[e] = st.contacts[e]
      /\ \A e \in DOMAIN st.contacts : PersonOf(after.contacts[e]) = PersonOf(st.contacts[e])
  BY <1>2
<1>4. TablesOK(after)
  <2>1. \A e \in DOMAIN after.contacts : after.contacts[e] \in Key
    BY <1>1, <1>3 DEF TablesOK
  <2>2. Message(after) = Message(st)
    BY <1>2 DEF Message
  <2> QED BY <1>1, <1>2, <1>3, <2>1, <2>2 DEF TablesOK
<1>5. KeysOnce(after)
  <2>1. \A e \in DOMAIN st.contacts : st.contacts[e] # key
    BY DEF FiledUnder
  <2> QED BY <1>1, <1>3, <2>1 DEF KeysOnce
<1>6. \A e : ThreadsOf(after, e) = ThreadsOf(st, e) /\ CurrentThread(after, e) = CurrentThread(st, e)
  BY <1>2 DEF ThreadsOf, CurrentThread
<1>7. Threaded(after, {})
  BY <1>1, <1>3, <1>6 DEF Threaded
<1>8. \A t \in DOMAIN st.threads : WhoseThread(after, t) = WhoseThread(st, t)
  BY <1>1, <1>2, <1>3 DEF WhoseThread, TablesOK
<1>9. AllThere(after)
  <2>1. \A m \in st.rows : WhoseThread(after, m.thread) = WhoseThread(st, m.thread)
    BY <1>1, <1>8 DEF TablesOK, Message
  <2> QED BY <1>1, <1>2, <2>1 DEF AllThere, Holds
<1>10. Numbered(after)
  BY <1>1, <1>2 DEF Numbered
<1>11. Sealed(after, {}) /\ Keyed(after, {})
  BY <1>1, <1>2, <1>6 DEF Sealed, Keyed, RatchetOf
<1>12. \A p : PairedWith(after, p) = PairedWith(st, p)
  BY <1>2 DEF PairedWith
<1>13. Once(after)
  BY <1>1, <1>2, <1>3, <1>12 DEF Once, TablesOK
<1>14. Lone(after)
  <2>1. \A p \in Person :
          FiledUnder(after, Placeholder(Device(p))) \subseteq FiledUnder(st, Placeholder(Device(p)))
    BY <1>3 DEF FiledUnder
  <2> QED BY <1>1, <1>6, <1>12, <2>1 DEF Lone, Aside, Single
<1> QED BY <1>4, <1>5, <1>7, <1>9, <1>10, <1>11, <1>13, <1>14 DEF Sound, Whole, after

\* reconcile_contact: adopted, re-keyed or left, the tables are in order, and with
\* a session open no row is left under the id.
LEMMA ReconcileKeepsSound ==
  ASSUME AroundOK, NEW st, Sound(st, {}), NEW d \in DOMAIN owner
  PROVE  /\ Sound(Reconcile(st, d), {})
         /\ (Holder(d) # NoOne /\ session[Holder(d)] # "none")
              => Remembered(Reconcile(st, d), d) = {}
<1> DEFINE after == Reconcile(st, d)
           p == Holder(d)
           strays == FiledUnder(st, Placeholder(d))
           known == FiledUnder(st, SessionKey(p))
<1>1. TablesOK(st) /\ KeysOnce(st)
  BY DEF Sound, Whole
<1>2. CASE p = NoOne \/ session[p] = "none" \/ strays = {}
  <2>1. after = st
    BY <1>2 DEF Reconcile
  <2> QED BY <1>2, <2>1 DEF Remembered
<1>3. CASE ~(p = NoOne \/ session[p] = "none" \/ strays = {})
  <2>1. /\ p \in Person /\ p = owner[d] /\ d = Device(p)
        /\ session[p] \in {"pseudonym", "session_pub"}
    BY <1>3, HolderFacts DEF AroundOK
  <2>2. Proved(st, d) = known
    BY <1>3 DEF Proved
  <2>3. Max(strays) \in strays
    BY <1>1, <1>3, FiledFacts, OneOf
  <2>4. /\ SessionKey(p) \in Key /\ PersonOf(SessionKey(p)) = p
        /\ \A e : SessionKey(p) # Placeholder(e)
        /\ PersonOf(Placeholder(d)) = p
    BY <2>1, KeyFacts
  <2>5. /\ strays \subseteq DOMAIN st.contacts /\ known \subseteq DOMAIN st.contacts
        /\ \A c \in strays : st.contacts[c] = Placeholder(d)
        /\ \A c \in known : st.contacts[c] = SessionKey(p)
    BY DEF FiledUnder
  <2>6. \A c \in strays : c = Max(strays)
    BY <1>1, <2>3, <2>5 DEF KeysOnce
  <2>7. CASE known # {}
    <3>1. Max(known) \in known
      BY <1>1, <2>7, FiledFacts, OneOf
    <3>2. Sound(Fold(st, Max(strays), Max(known)), {}) /\ Max(strays) # Max(known)
      BY <2>1, <2>3, <3>1, MergeKeepsSound
    <3>3. {Max(strays), Max(known)} \subseteq DOMAIN st.contacts
      BY <2>3, <2>5, <3>1
    <3>4. after = Fold(st, Max(strays), Max(known))
      BY <1>3, <2>2, <2>7, <3>2, <3>3 DEF Reconcile, MergeContact
    <3>5. Folded(st, Max(strays), Max(known), after)
      BY <1>1, <3>2, <3>3, <3>4, FoldFields
    <3> HIDE DEF after, strays, known
    <3>6. /\ DOMAIN after.contacts = DOMAIN st.contacts \ {Max(strays)}
          /\ \A c \in DOMAIN after.contacts : after.contacts[c] = st.contacts[c]
      BY <3>5, FoldedDomains
    <3>7. Remembered(after, d) = {}
      BY <2>6, <3>6 DEF Remembered, FiledUnder, strays
    <3> QED BY <3>2, <3>4, <3>7 DEF after
  <2>8. CASE known = {}
    <3>1. after = Rekey(st, Max(strays), SessionKey(p))
      BY <1>3, <2>2, <2>8 DEF Reconcile
    <3>2. Sound(after, {})
      <4>1. \A q \in Person : SessionKey(p) # Placeholder(Device(q))
        BY <2>4
      <4>2. Max(strays) \in DOMAIN st.contacts /\ PersonOf(st.contacts[Max(strays)]) = p
        BY <2>3, <2>4, <2>5
      <4> QED BY <2>4, <2>8, <3>1, <4>1, <4>2, RekeyKeepsSound
    <3>3. after.contacts = [st.contacts EXCEPT ![Max(strays)] = SessionKey(p)]
      <4>1. Shape(st)
        BY <1>1 DEF TablesOK
      <4>2. Rekey(st, Max(strays), SessionKey(p)).contacts
              = [st.contacts EXCEPT ![Max(strays)] = SessionKey(p)]
        BY <4>1 DEF Rekey, Shape, Table
      <4> QED BY <3>1, <4>2
    <3> HIDE DEF after, strays
    <3>4. Remembered(after, d) = {}
      <4>1. DOMAIN after.contacts = DOMAIN st.contacts
        BY <3>3
      <4>2. ASSUME NEW c \in DOMAIN st.contacts PROVE after.contacts[c] # Placeholder(d)
        <5>1. CASE c = Max(strays)
          BY <2>4, <3>3, <4>2, <5>1
        <5>2. CASE c # Max(strays)
          BY <2>6, <3>3, <4>2, <5>2 DEF strays, FiledUnder
        <5> QED BY <5>1, <5>2
      <4> QED BY <4>1, <4>2 DEF Remembered, FiledUnder
    <3> QED BY <3>2, <3>4 DEF after
  <2> QED BY <2>7, <2>8
<1> QED BY <1>2, <1>3

\* A row is added only for a key that no row is under.
LEMMA AddContactKeepsSound ==
  ASSUME AroundOK, NEW st, Sound(st, {}), NEW key \in Key, FiledUnder(st, key) = {}
  PROVE  LET after == AddContact(st, key)
             new == NextId(st.contacts)
         IN /\ Sound(after, {new})
            /\ new \notin DOMAIN st.contacts
            /\ new \in DOMAIN after.contacts /\ after.contacts[new] = key
<1> DEFINE after == AddContact(st, key)
           new == NextId(st.contacts)
<1>1. /\ TablesOK(st) /\ KeysOnce(st) /\ Threaded(st, {}) /\ AllThere(st) /\ Numbered(st)
      /\ Sealed(st, {}) /\ Keyed(st, {}) /\ Once(st) /\ Lone(st)
  BY DEF Sound, Whole
<1>2. /\ Shape(after)
      /\ after.contacts = Put(st.contacts, new, key)
      /\ after.pairings = st.pairings /\ after.threads = st.threads
      /\ after.ratchets = st.ratchets /\ after.rows = st.rows
  BY <1>1, AddContactFields DEF TablesOK
<1>3. new \notin DOMAIN st.contacts /\ Numbers(DOMAIN st.contacts \union {new})
  BY <1>1, NextIsNew DEF TablesOK
<1> HIDE DEF after, new
<1>4. /\ DOMAIN after.contacts = DOMAIN st.contacts \union {new}
      /\ after.contacts[new] = key
      /\ \A e \in DOMAIN st.contacts : after.contacts[e] = st.contacts[e]
  <2>1. /\ DOMAIN Put(st.contacts, new, key) = DOMAIN st.contacts \union {new}
        /\ Put(st.contacts, new, key)[new] = key
        /\ \A i \in DOMAIN st.contacts \ {new} :
             Put(st.contacts, new, key)[i] = st.contacts[i]
    BY DEF Put
  <2> QED BY <1>2, <1>3, <2>1
<1>5. TablesOK(after)
  <2>1. \A e \in DOMAIN after.contacts : after.contacts[e] \in Key
    BY <1>1, <1>4 DEF TablesOK
  <2>2. Message(after) = Message(st)
    BY <1>2 DEF Message
  <2> QED BY <1>1, <1>2, <1>3, <1>4, <2>1, <2>2 DEF TablesOK
<1>6. KeysOnce(after)
  <2>1. \A e \in DOMAIN st.contacts : st.contacts[e] # key
    BY DEF FiledUnder
  <2> QED BY <1>1, <1>4, <2>1 DEF KeysOnce
<1>7. \A e : ThreadsOf(after, e) = ThreadsOf(st, e) /\ CurrentThread(after, e) = CurrentThread(st, e)
  BY <1>2 DEF ThreadsOf, CurrentThread
<1>8. Threaded(after, {new})
  BY <1>1, <1>4, <1>7 DEF Threaded
<1>9. \A t \in DOMAIN st.threads : WhoseThread(after, t) = WhoseThread(st, t)
  BY <1>1, <1>2, <1>4 DEF WhoseThread, TablesOK
<1>10. AllThere(after)
  <2>1. \A m \in st.rows : WhoseThread(after, m.thread) = WhoseThread(st, m.thread)
    BY <1>1, <1>9 DEF TablesOK, Message
  <2> QED BY <1>1, <1>2, <2>1 DEF AllThere, Holds
<1>11. Numbered(after)
  BY <1>1, <1>2 DEF Numbered
<1>12. Sealed(after, {}) /\ Keyed(after, {})
  BY <1>1, <1>2, <1>7 DEF Sealed, Keyed, RatchetOf
<1>13. \A p : PairedWith(after, p) = PairedWith(st, p)
  BY <1>2 DEF PairedWith
<1>14. Once(after)
  BY <1>1, <1>2, <1>4, <1>13 DEF Once, TablesOK
<1>15. Lone(after)
  <2>1. ThreadsOf(st, new) = {}
    BY <1>1, <1>3 DEF ThreadsOf, TablesOK
  <2>2. \A p \in Person :
          FiledUnder(after, Placeholder(Device(p)))
            \subseteq FiledUnder(st, Placeholder(Device(p))) \union {new}
    BY <1>4 DEF FiledUnder
  <2> QED BY <1>1, <1>7, <1>13, <2>1, <2>2 DEF Lone, Aside, Single
<1> QED BY <1>3, <1>4, <1>5, <1>6, <1>8, <1>10, <1>11, <1>12, <1>14, <1>15
        DEF Sound, Whole, after, new

\* A new thread is the current one of its contact, and no other's change.
LEMMA CreateThreadFacts ==
  ASSUME NEW st, Shape(st), Numbers(DOMAIN st.threads), NEW c
  PROVE  LET after == CreateThread(st, c)
             new == NextId(st.threads)
         IN /\ new \notin DOMAIN st.threads /\ new # 0
            /\ DOMAIN after.threads = DOMAIN st.threads \union {new}
            /\ Numbers(DOMAIN after.threads)
            /\ after.threads[new] = c
            /\ \A t \in DOMAIN st.threads : after.threads[t] = st.threads[t]
            /\ ThreadsOf(after, c) = ThreadsOf(st, c) \union {new}
            /\ CurrentThread(after, c) = new
            /\ \A e : e # c => /\ ThreadsOf(after, e) = ThreadsOf(st, e)
                               /\ CurrentThread(after, e) = CurrentThread(st, e)
<1> DEFINE after == CreateThread(st, c)
           new == NextId(st.threads)
<1>1. after.threads = Put(st.threads, new, c)
  BY CreateThreadFields
<1>2. /\ new \in Nat \ {0} /\ new \notin DOMAIN st.threads
      /\ \A t \in DOMAIN st.threads : t < new
      /\ Numbers(DOMAIN st.threads \union {new})
  BY NextIsNew
<1> HIDE DEF after, new
<1>3. /\ DOMAIN after.threads = DOMAIN st.threads \union {new}
      /\ after.threads[new] = c
      /\ \A t \in DOMAIN st.threads : after.threads[t] = st.threads[t]
  BY <1>1, <1>2 DEF Put
<1>4. ThreadsOf(after, c) = ThreadsOf(st, c) \union {new}
  BY <1>3 DEF ThreadsOf
<1>5. CurrentThread(after, c) = new
  <2>1. \A u \in ThreadsOf(after, c) : u <= new
    BY <1>2, <1>4 DEF ThreadsOf, Numbers
  <2>2. Numbers(DOMAIN after.threads)
    BY <1>2, <1>3
  <2>3. new \in ThreadsOf(after, c)
    BY <1>4
  <2> QED BY <2>1, <2>2, <2>3, IsCurrent
<1>6. \A e : e # c => ThreadsOf(after, e) = ThreadsOf(st, e)
  BY <1>2, <1>3 DEF ThreadsOf
<1>7. \A e : e # c => CurrentThread(after, e) = CurrentThread(st, e)
  BY <1>6, SameCurrent
<1> QED BY <1>2, <1>3, <1>4, <1>5, <1>6, <1>7 DEF after, new

\* The rows and the people of the threads there were stay as they were.
LEMMA CreateThreadKeepsWhole ==
  ASSUME NEW st, NEW c \in DOMAIN st.contacts, Whole(st, {c})
  PROVE  Whole(CreateThread(st, c), {})
<1> DEFINE after == CreateThread(st, c)
           new == NextId(st.threads)
<1>1. /\ TablesOK(st) /\ KeysOnce(st) /\ Threaded(st, {c}) /\ AllThere(st) /\ Numbered(st)
      /\ Shape(st) /\ Numbers(DOMAIN st.threads)
  BY DEF Whole, TablesOK
<1>2. /\ Shape(after)
      /\ after.contacts = st.contacts /\ after.pairings = st.pairings
      /\ after.ratchets = st.ratchets /\ after.rows = st.rows
  BY <1>1, CreateThreadFields
<1>3. /\ DOMAIN after.threads = DOMAIN st.threads \union {new}
      /\ Numbers(DOMAIN after.threads)
      /\ after.threads[new] = c
      /\ \A t \in DOMAIN st.threads : after.threads[t] = st.threads[t]
      /\ ThreadsOf(after, c) = ThreadsOf(st, c) \union {new}
      /\ \A e : e # c => ThreadsOf(after, e) = ThreadsOf(st, e)
  BY <1>1, CreateThreadFacts
<1> HIDE DEF after, new
<1>4. TablesOK(after)
  <2>1. Message(st) \subseteq Message(after)
    BY <1>3 DEF Message
  <2>2. \A t \in DOMAIN after.threads : after.threads[t] \in DOMAIN after.contacts
    BY <1>1, <1>2, <1>3 DEF TablesOK
  <2> QED BY <1>1, <1>2, <1>3, <2>1, <2>2 DEF TablesOK
<1>5. KeysOnce(after)
  BY <1>1, <1>2 DEF KeysOnce
<1>6. Threaded(after, {})
  BY <1>1, <1>2, <1>3 DEF Threaded
<1>7. AllThere(after)
  <2>1. \A m \in st.rows : WhoseThread(after, m.thread) = WhoseThread(st, m.thread)
    BY <1>1, <1>2, <1>3 DEF TablesOK, Message, WhoseThread
  <2> QED BY <1>1, <1>2, <2>1 DEF AllThere, Holds
<1>8. Numbered(after)
  BY <1>1, <1>2 DEF Numbered
<1> QED BY <1>4, <1>5, <1>6, <1>7, <1>8 DEF Whole, after

\* A contact's first conversation.
LEMMA FirstThreadKeepsSound ==
  ASSUME NEW st, NEW c \in DOMAIN st.contacts, Sound(st, {c}), ThreadsOf(st, c) = {}
  PROVE  Sound(CreateThread(st, c), {})
<1> DEFINE after == CreateThread(st, c)
           new == NextId(st.threads)
<1>1. /\ TablesOK(st) /\ Sealed(st, {}) /\ Keyed(st, {}) /\ Once(st) /\ Lone(st)
      /\ Shape(st) /\ Numbers(DOMAIN st.threads)
  BY DEF Sound, Whole, TablesOK
<1>2. /\ Shape(after)
      /\ after.contacts = st.contacts /\ after.pairings = st.pairings
      /\ after.ratchets = st.ratchets /\ after.rows = st.rows
  BY <1>1, CreateThreadFields
<1>3. /\ new \notin DOMAIN st.threads
      /\ \A t \in DOMAIN st.threads : after.threads[t] = st.threads[t]
      /\ ThreadsOf(after, c) = {new} /\ CurrentThread(after, c) = new
      /\ \A e : e # c => /\ ThreadsOf(after, e) = ThreadsOf(st, e)
                         /\ CurrentThread(after, e) = CurrentThread(st, e)
  BY <1>1, CreateThreadFacts
<1>w. Whole(after, {})
  BY CreateThreadKeepsWhole DEF Sound
<1>4. CurrentThread(st, c) = 0 /\ 0 \notin DOMAIN st.threads
  BY <1>1, CurrentFacts DEF Numbers
<1> HIDE DEF after, new
<1>5. new \notin DOMAIN st.ratchets /\ 0 \notin DOMAIN st.ratchets
      /\ DOMAIN st.ratchets \subseteq DOMAIN st.threads
  BY <1>1, <1>3, <1>4 DEF TablesOK
<1>6. \A e : RatchetOf(after, CurrentThread(after, e)) = RatchetOf(st, CurrentThread(st, e))
  BY <1>2, <1>3, <1>4, <1>5 DEF RatchetOf
<1>7. Sealed(after, {})
  BY <1>1, <1>2, <1>6 DEF Sealed
<1>8. Keyed(after, {})
  <2>1. ASSUME NEW t \in DOMAIN st.ratchets PROVE st.threads[t] # c
    BY <1>5 DEF ThreadsOf
  <2> QED BY <1>1, <1>2, <1>3, <1>5, <2>1 DEF Keyed
<1>9. \A p : PairedWith(after, p) = PairedWith(st, p)
  BY <1>2 DEF PairedWith
<1>10. Once(after)
  BY <1>1, <1>2, <1>9 DEF Once
<1>11. Lone(after)
  BY <1>1, <1>2, <1>3, <1>9 DEF Lone, Aside, Single, FiledUnder
<1> QED BY <1>w, <1>7, <1>8, <1>10, <1>11 DEF Sound, after

\* What ensure_contact returns: the row is the person's whose the id was, and
\* while the id is in use no other row is filed under it, but beside a pairing.
Ensured(st, c, d) ==
    /\ Sound(st, {c}) /\ c \in DOMAIN st.contacts
    /\ PersonOf(st.contacts[c]) = owner[d]
    /\ Holder(d) # NoOne =>
         \A s \in Remembered(st, d) : s = c \/ c \in PairedWith(st, owner[d])

\* ensure_contact: the row found or added is in order.
LEMMA EnsureContactKeepsSound ==
  ASSUME AroundOK, NEW st, Sound(st, {}), NEW d \in DOMAIN owner,
         NEW e \in EnsureContact(st, d)
  PROVE  Ensured(e.st, e.contact, d)
<1> DEFINE settled == Reconcile(st, d)
           found == ContactFor(settled, d)
           p == Holder(d)
<1>1. Sound(settled, {})
      /\ ((p # NoOne /\ session[p] # "none") => Remembered(settled, d) = {})
  BY ReconcileKeepsSound
<1>2. e = FindOrAdd(settled, d)
  BY DEF EnsureContact
<1> HIDE DEF settled
<1>3. TablesOK(settled) /\ KeysOnce(settled) /\ Threaded(settled, {}) /\ Once(settled)
  BY <1>1 DEF Sound, Whole
<1>4. /\ found \subseteq DOMAIN settled.contacts
      /\ Numbers(found)
      /\ \A c \in found : PersonOf(settled.contacts[c]) = owner[d]
      /\ \A c \in found :
           \/ c \in Proved(settled, d)
           \/ Proved(settled, d) = {} /\ p = owner[d] /\ c \in PairedWith(settled, owner[d])
           \/ Proved(settled, d) = {} /\ c \in Remembered(settled, d)
      /\ found = {} => Proved(settled, d) = {} /\ Remembered(settled, d) = {}
  BY <1>3, TakenFor
<1>5. /\ owner[d] \in Person /\ p \in {owner[d], NoOne} /\ NoOne \notin Person
      /\ Placeholder(d) \in Key /\ PersonOf(Placeholder(d)) = owner[d]
      /\ (p # NoOne /\ session[p] # "none") =>
           SessionKey(p) \in Key /\ PersonOf(SessionKey(p)) = owner[d]
  BY HolderFacts, KeyFacts, PeopleAreMany DEF AroundOK
<1>6. CASE found # {}
  <2> DEFINE c == Max(found)
  <2>1. e.st = settled /\ e.contact = c
    BY <1>2, <1>6 DEF FindOrAdd
  <2>2. c \in found
    BY <1>4, <1>6, OneOf
  <2> HIDE DEF c, found
  <2>3. Sound(settled, {c})
    BY <1>1 DEF Sound, Whole, Threaded
  <2>4. ASSUME p # NoOne, NEW s \in Remembered(settled, d)
        PROVE  s = c \/ c \in PairedWith(settled, owner[d])
    <3>1. session[p] = "none" /\ Proved(settled, d) = {}
      BY <1>1, <2>4 DEF Proved
    <3>2. CASE c \in Remembered(settled, d)
      BY <1>3, <2>4, <3>2 DEF Remembered, FiledUnder, KeysOnce
    <3> QED BY <1>4, <2>2, <3>1, <3>2
  <2> QED BY <1>4, <2>1, <2>2, <2>3, <2>4 DEF Ensured
<1>7. CASE found = {}
  <2> DEFINE new == NextId(settled.contacts)
             key == IF p # NoOne /\ session[p] # "none" THEN SessionKey(p) ELSE Placeholder(d)
             after == AddContact(settled, key)
  <2>1. e.st = after /\ e.contact = new
    BY <1>2, <1>7 DEF FindOrAdd
  <2>2. key \in Key /\ PersonOf(key) = owner[d]
    BY <1>5
  <2>3. FiledUnder(settled, key) = {}
    BY <1>4, <1>7 DEF Proved, Remembered
  <2>4. /\ Sound(after, {new})
        /\ new \notin DOMAIN settled.contacts
        /\ new \in DOMAIN after.contacts /\ after.contacts[new] = key
    BY <1>1, <2>2, <2>3, AddContactKeepsSound
  <2>5. after.contacts = Put(settled.contacts, new, key)
    BY <1>3 DEF AddContact, TablesOK, Shape, Table
  <2> HIDE DEF after, new, key, found
  <2>6. ASSUME NEW s \in Remembered(after, d) PROVE s = new
    <3>1. \A i \in DOMAIN settled.contacts : settled.contacts[i] # Placeholder(d)
      BY <1>4, <1>7 DEF Remembered, FiledUnder
    <3>2. /\ DOMAIN after.contacts = DOMAIN settled.contacts \union {new}
          /\ \A i \in DOMAIN settled.contacts : i # new => after.contacts[i] = settled.contacts[i]
      BY <2>5 DEF Put
    <3> QED BY <2>4, <3>1, <3>2 DEF Remembered, FiledUnder
  <2> QED BY <2>1, <2>2, <2>4, <2>6 DEF Ensured
<1> QED BY <1>6, <1>7

\* What ensure_thread returns: the current conversation with that person.
LEMMA EnsureThreadKeepsSound ==
  ASSUME AroundOK, NEW st, Sound(st, {}), NEW d \in DOMAIN owner,
         NEW e \in EnsureThread(st, d)
  PROVE  /\ Sound(e.st, {})
         /\ e.thread \in DOMAIN e.st.threads
         /\ WhoseThread(e.st, e.thread) = owner[d]
<1>1. PICK f \in EnsureContact(st, d) : e = WithThread(f.st, f.contact)
  BY DEF EnsureThread
<1> DEFINE base == f.st
           c == f.contact
           now == CurrentThread(base, c)
<1>2. Ensured(base, c, d)
  BY EnsureContactKeepsSound
<1> HIDE DEF base, c
<1>3. /\ Sound(base, {c}) /\ c \in DOMAIN base.contacts
      /\ PersonOf(base.contacts[c]) = owner[d]
      /\ TablesOK(base) /\ Shape(base) /\ Numbers(DOMAIN base.threads)
  BY <1>2 DEF Ensured, Sound, Whole, TablesOK
<1>4. /\ ThreadsOf(base, c) = {} => now = 0
      /\ ThreadsOf(base, c) # {} => now \in ThreadsOf(base, c) /\ now # 0
  BY <1>3, CurrentFacts
<1>5. CASE now = 0
  <2> DEFINE after == CreateThread(base, c)
             new == NextId(base.threads)
  <2>1. e.st = after /\ e.thread = new
    BY <1>1, <1>5 DEF WithThread, base, c
  <2>2. Sound(after, {})
    BY <1>3, <1>4, <1>5, FirstThreadKeepsSound
  <2>3. new \in DOMAIN after.threads /\ after.threads[new] = c
    BY <1>3, CreateThreadFacts
  <2>4. after.contacts = base.contacts
    BY <1>3, CreateThreadFields
  <2> QED BY <1>3, <2>1, <2>2, <2>3, <2>4 DEF WhoseThread
<1>6. CASE now # 0
  <2>1. e.st = base /\ e.thread = now
    BY <1>1, <1>6 DEF WithThread, base, c
  <2>2. now \in DOMAIN base.threads /\ base.threads[now] = c
    BY <1>4, <1>6 DEF ThreadsOf
  <2>3. Threaded(base, {})
    BY <1>3, <1>4, <1>6 DEF Sound, Whole, Threaded
  <2>4. Sound(base, {})
    BY <1>3, <2>3 DEF Sound, Whole
  <2> QED BY <1>3, <2>1, <2>2, <2>4 DEF WhoseThread
<1> QED BY <1>5, <1>6

-----------------------------------------------------------------------------
(* Writing a pairing down.                                                 *)

\* The tables while c is being paired with p.
Pairing(st, c, p) ==
    /\ Whole(st, {c}) /\ Sealed(st, {c}) /\ Keyed(st, {c}) /\ Once(st)
    /\ c \in DOMAIN st.contacts /\ PersonOf(st.contacts[c]) = p
    /\ PairedWith(st, p) \subseteq {c}

\* What pairing c with p leaves as it was.
Beside(st, after, c, p) ==
    /\ \A s \in DOMAIN after.contacts \ {c} :
         /\ s \in DOMAIN st.contacts /\ after.contacts[s] = st.contacts[s]
         /\ ThreadsOf(after, s) = ThreadsOf(st, s)
    /\ \A q : q # p => PairedWith(after, q) = PairedWith(st, q)

\* The row of theirs paired before, if it is another, goes into this one, with
\* the keys of its last conversation unless this one has a conversation.
LEMMA JoinKeepsPairing ==
  ASSUME NEW st, NEW c \in DOMAIN st.contacts, Sound(st, {c}),
         NEW p, PersonOf(st.contacts[c]) = p
  PROVE  LET others == OtherRow(st, c, p)
             one == IF others = {} THEN st ELSE Fold(st, Max(others), c)
         IN Pairing(one, c, p) /\ Beside(st, one, c, p)
<1> DEFINE others == OtherRow(st, c, p)
           from == Max(others)
           one == IF others = {} THEN st ELSE Fold(st, Max(others), c)
<1>1. /\ TablesOK(st) /\ KeysOnce(st) /\ Threaded(st, {c}) /\ Whole(st, {c})
      /\ Sealed(st, {}) /\ Keyed(st, {}) /\ Once(st) /\ Lone(st)
  BY DEF Sound, Whole
<1>2. CASE others = {}
  <2>1. one = st
    BY <1>2
  <2>2. PairedWith(st, p) \subseteq {c}
    BY <1>2 DEF OtherRow
  <2>3. Sealed(st, {c}) /\ Keyed(st, {c})
    BY <1>1 DEF Sealed, Keyed
  <2> QED BY <1>1, <2>1, <2>2, <2>3 DEF Pairing, Beside
<1>3. CASE others # {}
  <2>1. from \in others /\ from \in PairedWith(st, p) /\ from # c
    <3>1. Numbers(PairedWith(st, p))
      BY <1>1, PairedFacts
    <3>2. others \subseteq PairedWith(st, p)
      BY DEF OtherRow
    <3>3. Numbers(others)
      BY <3>1, <3>2, FewerNumbers
    <3>4. from \in others
      BY <1>3, <3>3, OneOf
    <3> QED BY <3>4 DEF OtherRow
  <2>2. /\ from \in DOMAIN st.contacts /\ PersonOf(st.contacts[from]) = p
        /\ PairedWith(st, p) = {from}
    BY <1>1, <2>1, PairedFacts, OnceFacts
  <2>3. c \notin DOMAIN st.pairings
    BY <1>1, <2>1, <2>2 DEF Once, PairedWith
  <2>4. one = Fold(st, from, c)
    BY <1>3
  <2> HIDE DEF one, from, others
  <2>5. Folded(st, from, c, one)
    BY <1>1, <2>1, <2>2, <2>4, FoldFields
  <2>6. Whole(one, {})
    BY <1>1, <2>1, <2>2, <2>4, FoldKeepsWhole
  <2>7. Whole(one, {c})
    BY <2>6 DEF Whole, Threaded
  <2>8. Once(one)
    BY <1>1, <2>1, <2>2, <2>4, FoldKeepsOnce
  <2>9. /\ DOMAIN one.contacts = DOMAIN st.contacts \ {from}
        /\ \A s \in DOMAIN one.contacts : one.contacts[s] = st.contacts[s]
        /\ DOMAIN one.pairings = DOMAIN st.pairings \ {from}
        /\ \A s \in DOMAIN one.pairings : one.pairings[s] = st.pairings[s]
    BY <2>5, FoldedDomains
  <2>10. \A q : PairedWith(one, q) = PairedWith(st, q) \ {from}
    BY <2>5, FewerPaired
  <2>11. /\ \A s : s \notin {from, c} => ThreadsOf(one, s) = ThreadsOf(st, s)
         /\ ThreadsOf(st, c) = {} => ThreadsOf(one, c) = ThreadsOf(st, from)
    <3>1. LET gone == Emptied(st, from, c) IN
          /\ \A t \in gone : ThreadsOf(st, c) # {}
          /\ \A s : s \notin {from, c} => ThreadsOf(one, s) = ThreadsOf(st, s)
          /\ ThreadsOf(one, c) = ThreadsOf(st, c) \union (ThreadsOf(st, from) \ gone)
      BY <1>1, <2>1, <2>2, <2>4, FoldThreads
    <3> QED BY <3>1
  <2>12. /\ \A s : s \notin {from, c} =>
              /\ CurrentThread(one, s) = CurrentThread(st, s)
              /\ RatchetOf(one, CurrentThread(one, s)) = RatchetOf(st, CurrentThread(st, s))
         /\ \A t \in DOMAIN one.ratchets :
              /\ t \in DOMAIN st.ratchets
              /\ ThreadsOf(st, c) # {} => st.threads[t] # from
              /\ one.threads[t] = IF st.threads[t] = from THEN c ELSE st.threads[t]
    BY <1>1, <2>1, <2>2, <2>4, FoldKeepsOthers
  <2>13. Sealed(one, {c})
    BY <1>1, <2>9, <2>12 DEF Sealed
  <2>14. Keyed(one, {c})
    <3>1. ASSUME NEW t \in DOMAIN one.ratchets
          PROVE  /\ one.threads[t] \in DOMAIN one.pairings \union {c}
                 /\ CurrentThread(one, one.threads[t]) = t
      <4>1. /\ t \in DOMAIN st.ratchets
            /\ st.threads[t] \in DOMAIN st.pairings /\ CurrentThread(st, st.threads[t]) = t
        BY <1>1, <2>12 DEF Keyed
      <4>2. CASE st.threads[t] = from
        <5>1. ThreadsOf(st, c) = {} /\ one.threads[t] = c
          BY <2>12, <4>2
        <5>2. CurrentThread(one, c) = CurrentThread(st, from)
          BY <2>11, <5>1 DEF CurrentThread
        <5> QED BY <4>1, <4>2, <5>1, <5>2
      <4>3. CASE st.threads[t] # from
        <5>1. one.threads[t] = st.threads[t] /\ st.threads[t] # c
          BY <2>3, <2>12, <4>1, <4>3
        <5> QED BY <2>9, <2>12, <4>1, <4>3, <5>1
      <4> QED BY <4>2, <4>3
    <3> QED BY <3>1 DEF Keyed
  <2>15. Beside(st, one, c, p)
    <3>1. \A q : q # p => PairedWith(one, q) = PairedWith(st, q)
      <4>1. ASSUME NEW q, q # p PROVE from \notin PairedWith(st, q)
        BY <2>1, <4>1 DEF PairedWith
      <4> QED BY <2>10, <4>1
    <3> QED BY <2>9, <2>11, <3>1 DEF Beside
  <2>16. /\ c \in DOMAIN one.contacts /\ PersonOf(one.contacts[c]) = p
         /\ PairedWith(one, p) \subseteq {c}
    BY <2>1, <2>2, <2>9, <2>10
  <2>17. Pairing(one, c, p)
    BY <2>7, <2>8, <2>13, <2>14, <2>16 DEF Pairing
  <2> QED BY <2>15, <2>17 DEF one, from, others
<1> QED BY <1>2, <1>3

\* The pairing written over the one there was, or beside none of theirs.
LEMMA PairKeepsPairing ==
  ASSUME NEW st, NEW c, NEW p, NEW no, Pairing(st, c, p)
  PROVE  LET after == [st EXCEPT !.pairings = Put(@, c, [who |-> p, no |-> no])]
         IN /\ Pairing(after, c, p) /\ Beside(st, after, c, p)
            /\ DOMAIN after.pairings = DOMAIN st.pairings \union {c}
            /\ after.pairings[c] = [who |-> p, no |-> no]
            /\ after.threads = st.threads
<1> DEFINE row == [who |-> p, no |-> no]
           after == [st EXCEPT !.pairings = Put(@, c, row)]
<1>1. /\ TablesOK(st) /\ KeysOnce(st) /\ Threaded(st, {c}) /\ AllThere(st) /\ Numbered(st)
      /\ Sealed(st, {c}) /\ Keyed(st, {c}) /\ Once(st) /\ Shape(st)
      /\ c \in DOMAIN st.contacts /\ PersonOf(st.contacts[c]) = p
      /\ PairedWith(st, p) \subseteq {c}
  BY DEF Pairing, Whole, TablesOK
<1>2. /\ Shape(after) /\ after.pairings = Put(st.pairings, c, row)
      /\ after.contacts = st.contacts /\ after.threads = st.threads
      /\ after.ratchets = st.ratchets /\ after.rows = st.rows
  BY <1>1 DEF Shape, Table
<1>3. row.who = p
  OBVIOUS
<1> HIDE DEF after, row
<1>4. /\ DOMAIN after.pairings = DOMAIN st.pairings \union {c}
      /\ after.pairings[c] = row
      /\ \A e \in DOMAIN st.pairings : e # c => after.pairings[e] = st.pairings[e]
  BY <1>2 DEF Put
<1>5. TablesOK(after)
  <2>1. Message(after) = Message(st)
    BY <1>2 DEF Message
  <2> QED BY <1>1, <1>2, <1>4, <2>1 DEF TablesOK
<1>6. \A e : ThreadsOf(after, e) = ThreadsOf(st, e) /\ CurrentThread(after, e) = CurrentThread(st, e)
  BY <1>2 DEF ThreadsOf, CurrentThread
<1>7. AllThere(after)
  BY <1>1, <1>2 DEF AllThere, Holds, WhoseThread
<1>8. KeysOnce(after) /\ Threaded(after, {c}) /\ Numbered(after)
  BY <1>1, <1>2, <1>6 DEF KeysOnce, Threaded, Numbered
<1>9. Sealed(after, {c}) /\ Keyed(after, {c})
  BY <1>1, <1>2, <1>4, <1>6 DEF Sealed, Keyed, RatchetOf
<1>10. \A q : PairedWith(after, q) = IF q = p THEN {c} ELSE PairedWith(st, q)
  <2>1. ASSUME NEW q, q # p PROVE PairedWith(after, q) = PairedWith(st, q)
    <3>1. c \notin PairedWith(after, q)
      BY <1>3, <1>4, <2>1 DEF PairedWith
    <3>2. c \notin PairedWith(st, q)
      BY <1>1, <2>1, OnceFacts
    <3> QED BY <1>4, <3>1, <3>2 DEF PairedWith
  <2>2. PairedWith(after, p) = {c}
    <3>1. \A e \in DOMAIN st.pairings : st.pairings[e].who = p => e = c
      BY <1>1 DEF PairedWith
    <3> QED BY <1>3, <1>4, <3>1 DEF PairedWith
  <2> QED BY <2>1, <2>2
<1>11. Once(after)
  <2>1. ASSUME NEW e \in DOMAIN after.pairings
        PROVE  /\ PersonOf(after.contacts[e]) = after.pairings[e].who
               /\ PairedWith(after, after.pairings[e].who) = {e}
    <3>1. CASE e = c
      BY <1>1, <1>2, <1>3, <1>4, <1>10, <3>1
    <3>2. CASE e # c
      <4>1. e \in DOMAIN st.pairings /\ after.pairings[e] = st.pairings[e]
        BY <1>4, <3>2
      <4>2. /\ PersonOf(st.contacts[e]) = st.pairings[e].who
            /\ PairedWith(st, st.pairings[e].who) = {e}
        BY <1>1, <4>1 DEF Once
      <4>3. st.pairings[e].who # p
        BY <1>1, <3>2, <4>2
      <4> QED BY <1>2, <1>10, <4>1, <4>2, <4>3
    <3> QED BY <3>1, <3>2
  <2> QED BY <2>1 DEF Once
<1>12. Pairing(after, c, p)
  BY <1>1, <1>2, <1>5, <1>7, <1>8, <1>9, <1>10, <1>11 DEF Pairing, Whole
<1>13. Beside(st, after, c, p)
  BY <1>2, <1>6, <1>10 DEF Beside
<1> QED BY <1>2, <1>4, <1>12, <1>13 DEF after, row

\* The conversation there was has no keys any more, and no other of theirs did.
LEMMA EndKeepsPairing ==
  ASSUME NEW st, NEW c, NEW p, Pairing(st, c, p)
  PROVE  LET after == EndConversation(st, c)
         IN /\ Pairing(after, c, p) /\ Beside(st, after, c, p)
            /\ after.pairings = st.pairings
            /\ \A t \in DOMAIN after.ratchets : after.threads[t] # c
<1> DEFINE now == CurrentThread(st, c)
           after == EndConversation(st, c)
<1>1. /\ TablesOK(st) /\ KeysOnce(st) /\ Threaded(st, {c}) /\ AllThere(st) /\ Numbered(st)
      /\ Sealed(st, {c}) /\ Keyed(st, {c}) /\ Once(st) /\ Shape(st)
      /\ Numbers(DOMAIN st.threads)
      /\ c \in DOMAIN st.contacts /\ PersonOf(st.contacts[c]) = p
      /\ PairedWith(st, p) \subseteq {c}
  BY DEF Pairing, Whole, TablesOK
<1>2. /\ Shape(after) /\ after.pairings = st.pairings
      /\ after.contacts = st.contacts /\ after.threads = st.threads
      /\ after.ratchets = Erase(st.ratchets, {now}) /\ after.rows = st.rows
  BY <1>1, EndConversationFields
<1>n. now # 0 => now \in ThreadsOf(st, c)
  BY <1>1, CurrentFacts
<1> HIDE DEF after
<1>3. /\ DOMAIN after.ratchets = DOMAIN st.ratchets \ {now}
      /\ \A t \in DOMAIN after.ratchets : after.ratchets[t] = st.ratchets[t]
  <2>1. /\ DOMAIN Erase(st.ratchets, {now}) = DOMAIN st.ratchets \ {now}
        /\ \A t \in DOMAIN st.ratchets \ {now} :
             Erase(st.ratchets, {now})[t] = st.ratchets[t]
    BY EraseFields, Zenon
  <2> QED BY <1>2, <2>1
<1>4. \A t \in DOMAIN after.ratchets : st.threads[t] # c
  BY <1>1, <1>3 DEF Keyed
<1> HIDE DEF now
<1>5. TablesOK(after)
  <2>1. Message(after) = Message(st)
    BY <1>2 DEF Message
  <2> QED BY <1>1, <1>2, <1>3, <2>1 DEF TablesOK
<1>6. \A e : ThreadsOf(after, e) = ThreadsOf(st, e) /\ CurrentThread(after, e) = CurrentThread(st, e)
  BY <1>2 DEF ThreadsOf, CurrentThread
<1>7. AllThere(after)
  BY <1>1, <1>2 DEF AllThere, Holds, WhoseThread
<1>8. KeysOnce(after) /\ Threaded(after, {c}) /\ Numbered(after)
  BY <1>1, <1>2, <1>6 DEF KeysOnce, Threaded, Numbered
<1>9. Sealed(after, {c})
  <2>1. ASSUME NEW e \in DOMAIN st.pairings \ {c}
        PROVE  RatchetOf(after, CurrentThread(st, e)) = RatchetOf(st, CurrentThread(st, e))
    <3>1. CurrentThread(st, e) = now => now \notin DOMAIN st.ratchets
      <4>1. CurrentThread(st, e) # 0 => CurrentThread(st, e) \in ThreadsOf(st, e)
        BY <1>1, CurrentFacts
      <4>2. 0 \notin DOMAIN st.ratchets
        BY <1>1 DEF TablesOK, Numbers
      <4> QED BY <1>n, <2>1, <4>1, <4>2 DEF ThreadsOf
    <3> QED BY <1>3, <3>1 DEF RatchetOf
  <2> QED BY <1>1, <1>2, <1>6, <2>1 DEF Sealed
<1>10. Keyed(after, {c})
  BY <1>1, <1>2, <1>3, <1>6 DEF Keyed
<1>11. \A q : PairedWith(after, q) = PairedWith(st, q)
  BY <1>2 DEF PairedWith
<1>12. Once(after)
  BY <1>1, <1>2, <1>11 DEF Once
<1>13. Pairing(after, c, p)
  BY <1>1, <1>2, <1>5, <1>7, <1>8, <1>9, <1>10, <1>11, <1>12 DEF Pairing, Whole
<1>14. Beside(st, after, c, p)
  BY <1>2, <1>6, <1>11 DEF Beside
<1> QED BY <1>2, <1>4, <1>13, <1>14 DEF after

\* The conversation that starts has no keys yet.
LEMMA StartKeepsPairing ==
  ASSUME NEW st, NEW c, NEW p, Pairing(st, c, p),
         \A t \in DOMAIN st.ratchets : st.threads[t] # c
  PROVE  LET after == CreateThread(st, c)
         IN /\ Pairing(after, c, p) /\ Beside(st, after, c, p)
            /\ after.pairings = st.pairings /\ Threaded(after, {})
<1> DEFINE after == CreateThread(st, c)
           new == NextId(st.threads)
<1>1. /\ TablesOK(st) /\ Whole(st, {c}) /\ Shape(st) /\ Numbers(DOMAIN st.threads)
      /\ Sealed(st, {c}) /\ Keyed(st, {c}) /\ Once(st)
      /\ c \in DOMAIN st.contacts /\ PersonOf(st.contacts[c]) = p
      /\ PairedWith(st, p) \subseteq {c}
  BY DEF Pairing, Whole, TablesOK
<1>2. /\ Shape(after) /\ after.pairings = st.pairings
      /\ after.contacts = st.contacts
      /\ after.ratchets = st.ratchets /\ after.rows = st.rows
  BY <1>1, CreateThreadFields
<1>3. /\ new \notin DOMAIN st.threads
      /\ \A t \in DOMAIN st.threads : after.threads[t] = st.threads[t]
      /\ \A e : e # c => /\ ThreadsOf(after, e) = ThreadsOf(st, e)
                         /\ CurrentThread(after, e) = CurrentThread(st, e)
  BY <1>1, CreateThreadFacts
<1>4. Whole(after, {})
  BY <1>1, CreateThreadKeepsWhole
<1> HIDE DEF after, new
<1>5. Whole(after, {c}) /\ Threaded(after, {})
  BY <1>4 DEF Whole, Threaded
<1>6. Sealed(after, {c})
  BY <1>1, <1>2, <1>3 DEF Sealed, RatchetOf
<1>7. Keyed(after, {c})
  <2>1. DOMAIN st.ratchets \subseteq DOMAIN st.threads
    BY <1>1 DEF TablesOK
  <2> QED BY <1>1, <1>2, <1>3, <2>1 DEF Keyed
<1>8. \A q : PairedWith(after, q) = PairedWith(st, q)
  BY <1>2 DEF PairedWith
<1>9. Once(after)
  BY <1>1, <1>2, <1>8 DEF Once
<1>10. Pairing(after, c, p)
  BY <1>1, <1>2, <1>5, <1>6, <1>7, <1>8, <1>9 DEF Pairing
<1>11. Beside(st, after, c, p)
  BY <1>2, <1>3, <1>8 DEF Beside
<1> QED BY <1>2, <1>5, <1>10, <1>11 DEF after

\* write_pairing: the pairing is down and there is a conversation to seal, with
\* the keys of the last one only where it goes on.
LEMMA WriteKeepsPairing ==
  ASSUME NEW st, NEW c, NEW p, NEW no, Pairing(st, c, p)
  PROVE  LET after == WritePairing(st, c, p, no)
         IN /\ Pairing(after, c, p) /\ Beside(st, after, c, p) /\ Threaded(after, {})
            /\ c \in DOMAIN after.pairings
            /\ after.pairings[c] = [who |-> p, no |-> no]
<1> DEFINE row == [who |-> p, no |-> no]
           paired == [st EXCEPT !.pairings = Put(@, c, [who |-> p, no |-> no])]
           after == WritePairing(st, c, p, no)
<1>1. /\ Pairing(paired, c, p) /\ Beside(st, paired, c, p)
      /\ DOMAIN paired.pairings = DOMAIN st.pairings \union {c}
      /\ paired.pairings[c] = row
      /\ paired.threads = st.threads
  BY PairKeepsPairing
<1>2. after = IF c \in DOMAIN st.pairings THEN CreateThread(EndConversation(paired, c), c)
              ELSE IF CurrentThread(st, c) = 0 THEN CreateThread(paired, c)
              ELSE paired
  BY DEF WritePairing
<1> HIDE DEF paired, after, row
<1>3. CASE c \in DOMAIN st.pairings
  <2> DEFINE ended == EndConversation(paired, c)
  <2>1. /\ Pairing(ended, c, p) /\ Beside(paired, ended, c, p)
        /\ ended.pairings = paired.pairings
        /\ \A t \in DOMAIN ended.ratchets : ended.threads[t] # c
    BY <1>1, EndKeepsPairing
  <2>2. after = CreateThread(ended, c)
    BY <1>2, <1>3
  <2> HIDE DEF ended
  <2>3. /\ Pairing(after, c, p) /\ Beside(ended, after, c, p)
        /\ after.pairings = ended.pairings /\ Threaded(after, {})
    BY <2>1, <2>2, StartKeepsPairing
  <2>4. Beside(st, after, c, p)
    BY <1>1, <2>1, <2>3 DEF Beside
  <2> QED BY <1>1, <2>1, <2>3, <2>4 DEF after, row
<1>4. CASE c \notin DOMAIN st.pairings /\ CurrentThread(st, c) = 0
  <2>1. after = CreateThread(paired, c)
    BY <1>2, <1>4
  <2>2. \A t \in DOMAIN paired.ratchets : paired.threads[t] # c
    <3>1. TablesOK(paired) /\ Numbers(DOMAIN paired.threads)
      BY <1>1 DEF Pairing, Whole, TablesOK
    <3>2. CurrentThread(paired, c) = 0
      BY <1>1, <1>4 DEF CurrentThread, ThreadsOf
    <3>3. ThreadsOf(paired, c) = {}
      BY <3>1, <3>2, CurrentFacts
    <3> QED BY <3>1, <3>3 DEF ThreadsOf, TablesOK
  <2>3. /\ Pairing(after, c, p) /\ Beside(paired, after, c, p)
        /\ after.pairings = paired.pairings /\ Threaded(after, {})
    BY <1>1, <2>1, <2>2, StartKeepsPairing
  <2>4. Beside(st, after, c, p)
    BY <1>1, <2>3 DEF Beside
  <2> QED BY <1>1, <2>3, <2>4 DEF after, row
<1>5. CASE c \notin DOMAIN st.pairings /\ CurrentThread(st, c) # 0
  <2>1. after = paired
    BY <1>2, <1>5
  <2>2. Threaded(paired, {})
    <3>1. ThreadsOf(paired, c) = ThreadsOf(st, c)
      BY <1>1 DEF ThreadsOf
    <3>2. ThreadsOf(st, c) # {}
      BY <1>5, CurrentFacts DEF Pairing, Whole, TablesOK
    <3> QED BY <1>1, <3>1, <3>2 DEF Pairing, Whole, Threaded
  <2> QED BY <1>1, <2>1, <2>2 DEF after, row
<1> QED BY <1>3, <1>4, <1>5

\* write_ratchet: the paired contact's current conversation seals with the keys
\* of its pairing.
LEMMA SeedKeepsKeys ==
  ASSUME NEW st, NEW c, NEW p, NEW no, Pairing(st, c, p), Threaded(st, {}),
         c \in DOMAIN st.pairings, st.pairings[c].no = no
  PROVE  LET after == Seed(st, CurrentThread(st, c), no)
         IN /\ Whole(after, {}) /\ Sealed(after, {}) /\ Keyed(after, {}) /\ Once(after)
            /\ Beside(st, after, c, p) /\ PairedWith(after, p) = {c}
<1> DEFINE now == CurrentThread(st, c)
           after == Seed(st, now, no)
<1>1. /\ TablesOK(st) /\ KeysOnce(st) /\ AllThere(st) /\ Numbered(st)
      /\ Sealed(st, {c}) /\ Keyed(st, {c}) /\ Once(st) /\ Shape(st)
      /\ Numbers(DOMAIN st.threads)
      /\ c \in DOMAIN st.contacts /\ PersonOf(st.contacts[c]) = p
      /\ PairedWith(st, p) \subseteq {c}
  BY DEF Pairing, Whole, TablesOK
<1>2. /\ Shape(after) /\ after.pairings = st.pairings
      /\ after.contacts = st.contacts /\ after.threads = st.threads
      /\ after.ratchets = Put(st.ratchets, now, no) /\ after.rows = st.rows
  BY <1>1, SeedFields
<1>3. now \in DOMAIN st.threads /\ st.threads[now] = c
  <2>1. ThreadsOf(st, c) # {}
    BY <1>1 DEF Threaded
  <2> QED BY <1>1, <2>1, CurrentFacts DEF ThreadsOf
<1>n. now = CurrentThread(st, c)
  OBVIOUS
<1> HIDE DEF after, now
<1>4. /\ DOMAIN after.ratchets = DOMAIN st.ratchets \union {now}
      /\ after.ratchets[now] = no
      /\ \A t \in DOMAIN st.ratchets : t # now => after.ratchets[t] = st.ratchets[t]
  BY <1>2 DEF Put
<1>5. TablesOK(after)
  <2>1. Message(after) = Message(st)
    BY <1>2 DEF Message
  <2> QED BY <1>1, <1>2, <1>3, <1>4, <2>1 DEF TablesOK
<1>6. \A e : ThreadsOf(after, e) = ThreadsOf(st, e) /\ CurrentThread(after, e) = CurrentThread(st, e)
  BY <1>2 DEF ThreadsOf, CurrentThread
<1>7. AllThere(after)
  BY <1>1, <1>2 DEF AllThere, Holds, WhoseThread
<1>8. KeysOnce(after) /\ Threaded(after, {}) /\ Numbered(after)
  BY <1>1, <1>2, <1>6 DEF KeysOnce, Threaded, Numbered
<1>9. Sealed(after, {})
  <2>1. RatchetOf(after, now) = no
    BY <1>4 DEF RatchetOf
  <2>2. ASSUME NEW e \in DOMAIN st.pairings \ {c}
        PROVE  RatchetOf(after, CurrentThread(st, e)) = RatchetOf(st, CurrentThread(st, e))
    <3>1. CurrentThread(st, e) # now
      <4>1. CurrentThread(st, e) # 0 => CurrentThread(st, e) \in ThreadsOf(st, e)
        BY <1>1, CurrentFacts
      <4>2. now # 0
        BY <1>1, <1>3 DEF Numbers
      <4> QED BY <1>3, <2>2, <4>1, <4>2 DEF ThreadsOf
    <3> QED BY <1>4, <3>1 DEF RatchetOf
  <2> QED BY <1>1, <1>2, <1>6, <1>n, <2>1, <2>2 DEF Sealed
<1>10. Keyed(after, {})
  <2>1. ASSUME NEW t \in DOMAIN after.ratchets
        PROVE  /\ after.threads[t] \in DOMAIN after.pairings
               /\ CurrentThread(after, after.threads[t]) = t
    <3>1. CASE t = now
      BY <1>2, <1>3, <1>6, <1>n, <3>1
    <3>2. CASE t # now
      <4>1. /\ st.threads[t] \in DOMAIN st.pairings \union {c}
            /\ CurrentThread(st, st.threads[t]) = t
        BY <1>1, <1>4, <3>2 DEF Keyed
      <4> QED BY <1>2, <1>6, <4>1
    <3> QED BY <3>1, <3>2
  <2> QED BY <2>1 DEF Keyed
<1>11. \A q : PairedWith(after, q) = PairedWith(st, q)
  BY <1>2 DEF PairedWith
<1>12. Once(after)
  BY <1>1, <1>2, <1>11 DEF Once
<1>13. Beside(st, after, c, p)
  BY <1>2, <1>6, <1>11 DEF Beside
<1>14. PairedWith(after, p) = {c}
  <2>1. st.pairings[c].who = p
    BY <1>1 DEF Once
  <2> QED BY <1>1, <1>11, <2>1 DEF PairedWith
<1>15. Whole(after, {})
  BY <1>5, <1>7, <1>8 DEF Whole
<1> QED BY <1>9, <1>10, <1>12, <1>13, <1>14, <1>15 DEF after, now

\* record_pairing: folded, written and seeded as one, and no other row touched.
LEMMA RecordPairingKeepsKeys ==
  ASSUME NEW st, NEW c \in DOMAIN st.contacts, Sound(st, {c}),
         NEW p, PersonOf(st.contacts[c]) = p, NEW no
  PROVE  LET after == RecordPairing(st, c, p, no)
         IN /\ Whole(after, {}) /\ Sealed(after, {}) /\ Keyed(after, {}) /\ Once(after)
            /\ Beside(st, after, c, p) /\ PairedWith(after, p) = {c}
<1> DEFINE others == OtherRow(st, c, p)
           one == IF others = {} THEN st ELSE Fold(st, Max(others), c)
           written == WritePairing(one, c, p, no)
           after == Seed(written, CurrentThread(written, c), no)
<1>1. Pairing(one, c, p) /\ Beside(st, one, c, p)
  BY JoinKeepsPairing
<1>2. RecordPairing(st, c, p, no) = after
  BY DEF RecordPairing
<1> HIDE DEF one
<1>3. /\ Pairing(written, c, p) /\ Beside(one, written, c, p) /\ Threaded(written, {})
      /\ c \in DOMAIN written.pairings
      /\ written.pairings[c] = [who |-> p, no |-> no]
  BY <1>1, WriteKeepsPairing
<1> HIDE DEF written
<1>4. /\ Whole(after, {}) /\ Sealed(after, {}) /\ Keyed(after, {}) /\ Once(after)
      /\ Beside(written, after, c, p) /\ PairedWith(after, p) = {c}
  BY <1>3, SeedKeepsKeys
<1> HIDE DEF after
<1>5. Beside(st, after, c, p)
  BY <1>1, <1>3, <1>4 DEF Beside
<1> QED BY <1>2, <1>4, <1>5

-----------------------------------------------------------------------------
(* What each action makes of the invariant.                                *)

\* Where no id and no message is new, whose the keys are is what it was.
LEMMA SamePeople ==
  ASSUME UNCHANGED <<owner, about>>, Whole(store', {}), Sealed(store', {}),
         Keyed(store', {}), Once(store')
  PROVE  /\ Whole(store, {})' /\ Sealed(store, {})'
         /\ Keyed(store, {})' /\ Once(store)'
<1>1. TablesOK(store)'
  BY DEF Whole, TablesOK, Shape, Table, Numbers, Key, Message, Count
<1>2. KeysOnce(store)' /\ Threaded(store, {})' /\ Numbered(store)'
  BY DEF Whole, KeysOnce, Threaded, Numbered, ThreadsOf
<1>3. AllThere(store)'
  BY DEF Whole, AllThere, Holds, Count, WhoseThread, PersonOf
<1>4. Sealed(store, {})' /\ Keyed(store, {})'
  BY DEF Sealed, Keyed, RatchetOf, CurrentThread, ThreadsOf
<1>5. Once(store)'
  BY DEF Once, PairedWith, PersonOf
<1> QED BY <1>1, <1>2, <1>3, <1>4, <1>5 DEF Whole

\* The rows that stand aside are those that did.
LEMMA SameLone ==
  ASSUME UNCHANGED <<owner, finished>>, Lone(store')
  PROVE  Lone(store)'
BY DEF Lone, Aside, Single, FiledUnder, Placeholder, Device, PairedWith, ThreadsOf

\* And so is all of it.
LEMMA SameSound ==
  ASSUME UNCHANGED <<owner, about, finished>>, Sound(store', {})
  PROVE  Sound(store, {})'
BY SamePeople, SameLone DEF Sound

\* An empty database is in order, and every phone has its first id.
LEMMA InitOK ==
  ASSUME Init
  PROVE  ContactsInv
<1>1. PICK ids \in [1..Cardinality(Person) -> Person] : IsInjective(ids) /\ owner = ids
  BY DEF Init
<1> DEFINE n == Cardinality(Person)
<1>2. n \in Nat /\ IsFiniteSet(Person)
  BY FS_CardinalityType, PeopleAreMany
<1>3. owner \in Seq(Person) /\ DOMAIN owner = 1..n
  BY <1>1, <1>2
<1>4. \A p \in Person : \E d \in DOMAIN owner : owner[d] = p
  <2> DEFINE those == {owner[d] : d \in 1..n}
  <2>1. \A d, e \in 1..n : d # e => owner[d] # owner[e]
    BY <1>1, <1>3 DEF IsInjective
  <2>2. owner \in Bijection(1..n, those)
    <3>1. owner \in [1..n -> those]
      BY <1>3
    <3>2. \A x \in those : \E d \in 1..n : owner[d] = x
      OBVIOUS
    <3> QED BY <2>1, <3>1, <3>2 DEF Bijection, Injection, Surjection, IsInjective
  <2>3. IsFiniteSet(1..n) /\ Cardinality(1..n) = n
    <3>1. 1..n = {} => n = 0
      BY <1>2
    <3> QED BY <1>2, FS_Interval
  <2>4. Cardinality(those) = n
    BY <1>2, <2>2, FS_CountingElements DEF ExistsBijection
  <2>5. those \subseteq Person
    BY <1>1
  <2>6. those = Person
    BY <1>2, <2>4, <2>5, FS_Subset
  <2> QED BY <1>3, <2>6
<1>5. AroundOK
  <2>1. /\ hinted = {} /\ claimed = {} /\ opened = {}
        /\ session = [p \in Person |-> "none"]
        /\ finished = [device |-> 0, no |-> 0]
        /\ peer = [p \in Person |-> [ratchet |-> 0, next |-> 1]]
        /\ about = <<>>
        /\ spent = [meetings |-> 0, ceremonies |-> 0, blocks |-> 0]
    BY DEF Init
  <2> QED BY <1>3, <1>4, <2>1 DEF AroundOK, Owners
<1>6. /\ Shape(store)
      /\ DOMAIN store.contacts = {} /\ DOMAIN store.pairings = {}
      /\ DOMAIN store.threads = {} /\ DOMAIN store.ratchets = {}
      /\ store.rows = {} /\ Count = 0
  BY DEF Init, NoRows, Shape, Table, Count
<1>7. Numbers({})
  BY DEF Numbers
<1>8. TablesOK(store)
  BY <1>6, <1>7 DEF TablesOK
<1>9. /\ KeysOnce(store) /\ Threaded(store, {}) /\ AllThere(store) /\ Numbered(store)
      /\ Sealed(store, {}) /\ Keyed(store, {}) /\ Once(store)
  BY <1>6 DEF KeysOnce, Threaded, AllThere, Numbered, Sealed, Keyed, Once
<1>10. Lone(store)
  BY <1>6 DEF Lone, FiledUnder
<1> QED BY <1>5, <1>8, <1>9, <1>10 DEF ContactsInv, Sound, Whole

\* A phone under a new id is filed under no row yet.
LEMMA RotateOK ==
  ASSUME ContactsInv, NEW p \in Person, Rotate(p)
  PROVE  ContactsInv'
<1>1. /\ owner' = Append(owner, p) /\ owner \in Seq(Person)
      /\ hinted' = hinted \ {p} /\ claimed' = claimed \ {p}
      /\ UNCHANGED <<store, session, opened, finished, peer, about, spent>>
  BY DEF Rotate, Quiet, told, ContactsInv, AroundOK, Owners
<1> DEFINE n == Len(owner)
<1>2. /\ n \in Nat /\ DOMAIN owner = 1..n /\ DOMAIN owner' = 1..(n + 1)
      /\ owner'[n + 1] = p /\ \A d \in 1..n : owner'[d] = owner[d]
      /\ owner' \in Seq(Person)
  BY <1>1
<1> HIDE DEF n
<1>3. AroundOK'
  <2>1. Owners'
    <3>1. \A q \in Person : \E d \in 1..n : owner[d] = q
      BY <1>2 DEF ContactsInv, AroundOK, Owners
    <3>2. \A q \in Person : \E d \in 1..(n + 1) : owner'[d] = q
      BY <1>2, <3>1
    <3> QED BY <1>2, <3>2 DEF Owners
  <2>2. finished' \in [device : DOMAIN owner' \union {0}, no : Nat]
    BY <1>1, <1>2 DEF ContactsInv, AroundOK
  <2> QED BY <1>1, <2>1, <2>2 DEF ContactsInv, AroundOK
<1>4. Whole(store, {}) /\ Sealed(store, {}) /\ Keyed(store, {}) /\ Once(store) /\ Lone(store)
      /\ TablesOK(store)
  BY DEF ContactsInv, Sound, Whole
<1>5. \A k \in Key : k \in Key' /\ PersonOf(k)' = PersonOf(k)
  BY <1>2 DEF Key, PersonOf
<1>6. \A c \in DOMAIN store.contacts :
        store.contacts[c] \in Key /\ PersonOf(store.contacts[c])' = PersonOf(store.contacts[c])
  <2>1. \A c \in DOMAIN store.contacts : store.contacts[c] \in Key
    BY <1>4 DEF TablesOK
  <2> QED BY <1>1, <1>2, <2>1 DEF Key, PersonOf
<1>7. \A t \in DOMAIN store.threads : WhoseThread(store, t)' = WhoseThread(store, t)
  <2>1. \A t \in DOMAIN store.threads : store.threads[t] \in DOMAIN store.contacts
    BY <1>4 DEF TablesOK
  <2> QED BY <1>1, <1>6, <2>1 DEF WhoseThread
<1>8. TablesOK(store)'
  BY <1>1, <1>4, <1>5 DEF TablesOK, Shape, Numbers, Message, Count
<1>9. /\ KeysOnce(store)' /\ Threaded(store, {})' /\ Numbered(store)'
      /\ Sealed(store, {})' /\ Keyed(store, {})'
  <2>1. KeysOnce(store) /\ Threaded(store, {}) /\ Numbered(store)
    BY <1>4 DEF Whole
  <2>2. KeysOnce(store)' /\ Threaded(store, {})' /\ Numbered(store)'
    BY <1>1, <2>1 DEF KeysOnce, Threaded, Numbered, ThreadsOf
  <2>3. Sealed(store, {})'
    BY <1>1, <1>4 DEF Sealed, RatchetOf, CurrentThread, ThreadsOf
  <2>4. Keyed(store, {})'
    BY <1>1, <1>4 DEF Keyed, CurrentThread, ThreadsOf
  <2> QED BY <2>2, <2>3, <2>4
<1>10. AllThere(store)'
  <2>1. ASSUME NEW m \in store.rows PROVE WhoseThread(store, m.thread)' = WhoseThread(store, m.thread)
    BY <1>4, <1>7 DEF TablesOK, Message
  <2> QED BY <1>1, <1>4, <2>1 DEF Whole, AllThere, Holds, Count
<1>11. Once(store)'
  <2>1. DOMAIN store.pairings \subseteq DOMAIN store.contacts
    BY <1>4 DEF TablesOK
  <2> QED BY <1>1, <1>4, <1>6, <2>1 DEF Once, PairedWith
<1>12. \A q \in Person : q # p => Device(q)' = Device(q)
  <2>1. ASSUME NEW q \in Person, q # p
        PROVE  {d \in DOMAIN owner' : owner'[d] = q} = {d \in DOMAIN owner : owner[d] = q}
    BY <1>2, <2>1
  <2> QED BY <2>1 DEF Device
<1>13. Device(p)' = n + 1
  <2> DEFINE ids == {d \in DOMAIN owner' : owner'[d] = p}
  <2>1. ids \in SUBSET Nat /\ n + 1 \in ids /\ \A d \in ids : d <= n + 1
    BY <1>2
  <2>2. Max(ids) \in ids /\ \A d \in ids : d <= Max(ids)
    BY <1>2, <2>1, MaxIsThere
  <2>3. Max(ids) = n + 1
    BY <1>2, <2>1, <2>2
  <2> QED BY <2>3 DEF Device
<1>14. Lone(store)'
  <2>1. ASSUME NEW q \in Person, NEW s \in FiledUnder(store, Placeholder(Device(q)))',
               Aside(store, q, s)'
        PROVE  Single(store, s)'
    <3>1. s \in DOMAIN store.contacts /\ store.contacts[s] = Placeholder(Device(q)')
      BY <1>1, <2>1 DEF FiledUnder, Placeholder
    <3>2. q # p
      <4>1. store.contacts[s] \in Key
        BY <1>6, <3>1
      <4>2. n + 1 \notin DOMAIN owner
        BY <1>2
      <4> QED BY <1>13, <3>1, <4>1, <4>2 DEF Key, Placeholder
    <3>3. s \in FiledUnder(store, Placeholder(Device(q)))
      BY <1>12, <3>1, <3>2 DEF FiledUnder
    <3>4. Aside(store, q, s)
      <4>1. finished.device \in DOMAIN owner \union {0}
        BY DEF ContactsInv, AroundOK
      <4>2. 0 \notin 1..n
        BY <1>2
      <4> QED BY <1>1, <1>2, <1>12, <2>1, <3>2, <4>1, <4>2 DEF Aside, PairedWith
    <3>5. Single(store, s)
      BY <1>4, <3>3, <3>4 DEF Lone
    <3> QED BY <1>1, <3>5 DEF Single, ThreadsOf
  <2> QED BY <2>1 DEF Lone
<1> QED BY <1>3, <1>8, <1>9, <1>10, <1>11, <1>14 DEF ContactsInv, Sound, Whole

\* What does not touch the database, the ids or the ceremony leaves it in order.
LEMMA AsideOK ==
  ASSUME ContactsInv, AroundOK', UNCHANGED <<store, owner, about, finished>>
  PROVE  ContactsInv'
<1>1. Sound(store', {})
  BY DEF ContactsInv
<1> QED BY <1>1, SameSound DEF ContactsInv

\* What is seen, fetched, opened or closed changes no row.
LEMMA AirOK ==
  ASSUME ContactsInv,
         NEW p \in Person, NEW side \in {"pseudonym", "session_pub"}, NEW t,
         SeeHint(p) \/ FetchPersona(p) \/ Meet(p, side) \/ Part(p) \/ OpenListed(t)
  PROVE  ContactsInv'
<1>1. UNCHANGED <<store, owner, about, finished>>
  BY DEF SeeHint, FetchPersona, Meet, Part, OpenListed, Quiet, told, air
<1>2. /\ AroundOK
      /\ session \in [Person -> {"none", "pseudonym", "session_pub"}]
      /\ spent \in [meetings : Nat, ceremonies : Nat, blocks : Nat]
  BY DEF ContactsInv, AroundOK
<1>3. AroundOK'
  <2>1. CASE SeeHint(p)
    BY <1>2, <2>1 DEF AroundOK, Owners, SeeHint, Quiet, told
  <2>2. CASE FetchPersona(p)
    BY <1>2, <2>2 DEF AroundOK, Owners, FetchPersona, Quiet, told
  <2>3. CASE Meet(p, side)
    <3>1. /\ session' = [session EXCEPT ![p] = side]
          /\ opened' = opened \union {p}
          /\ spent' = [spent EXCEPT !["meetings"] = @ + 1]
          /\ UNCHANGED <<owner, hinted, claimed, finished, peer, about>>
      BY <2>3 DEF Meet, Spend, told
    <3>2. spent' \in [meetings : Nat, ceremonies : Nat, blocks : Nat]
      BY <1>2, <3>1
    <3>3. session' \in [Person -> {"none", "pseudonym", "session_pub"}]
      BY <1>2, <3>1
    <3> QED BY <1>2, <3>1, <3>2, <3>3 DEF AroundOK, Owners
  <2>4. CASE Part(p)
    <3>1. /\ session' = [session EXCEPT ![p] = "none"]
          /\ UNCHANGED <<owner, hinted, claimed, opened, finished, peer, about, spent>>
      BY <2>4 DEF Part, Quiet, told
    <3>2. session' \in [Person -> {"none", "pseudonym", "session_pub"}]
      BY <1>2, <3>1
    <3> QED BY <1>2, <3>1, <3>2 DEF AroundOK, Owners
  <2>5. CASE OpenListed(t)
    BY <1>2, <2>5 DEF AroundOK, Owners, OpenListed, air, told
  <2> QED BY <2>1, <2>2, <2>3, <2>4, <2>5
<1> QED BY <1>1, <1>3, AsideOK

\* Messages do not decide who is paired, nor with which keys.
LEMMA SameButRows ==
  ASSUME NEW st, NEW after, Sound(st, {}),
         after.contacts = st.contacts, after.pairings = st.pairings,
         after.threads = st.threads, after.ratchets = st.ratchets
  PROVE  /\ KeysOnce(after) /\ Threaded(after, {})
         /\ Sealed(after, {}) /\ Keyed(after, {}) /\ Once(after) /\ Lone(after)
<1>1. /\ KeysOnce(st) /\ Threaded(st, {})
      /\ Sealed(st, {}) /\ Keyed(st, {}) /\ Once(st) /\ Lone(st)
  BY DEF Sound, Whole
<1>2. \A e : ThreadsOf(after, e) = ThreadsOf(st, e) /\ CurrentThread(after, e) = CurrentThread(st, e)
  BY DEF ThreadsOf, CurrentThread
<1>3. \A q : PairedWith(after, q) = PairedWith(st, q)
  BY DEF PairedWith
<1>4. KeysOnce(after) /\ Threaded(after, {})
  BY <1>1, <1>2 DEF KeysOnce, Threaded
<1>5. Sealed(after, {}) /\ Keyed(after, {})
  BY <1>1, <1>2 DEF Sealed, Keyed, RatchetOf
<1>6. Once(after)
  BY <1>1, <1>3 DEF Once
<1>7. Lone(after)
  BY <1>1, <1>2, <1>3 DEF Lone, Aside, Single, FiledUnder
<1> QED BY <1>4, <1>5, <1>6, <1>7

\* A row sent is the row it was, but for its state.
LEMMA ResentKeepsSound ==
  ASSUME NEW st, Sound(st, {}), NEW d
  PROVE  Sound(Resent(st, d), {})
<1> DEFINE found == ContactFor(st, d)
           t == IF found = {} THEN 0 ELSE CurrentThread(st, Max(found))
           left == {m \in st.rows : m.thread = t /\ m.state = "queued"}
           sent == {[m EXCEPT !.state = "sent"] : m \in left}
           after == Resent(st, d)
<1>1. TablesOK(st) /\ Shape(st) /\ AllThere(st) /\ Numbered(st) /\ st.rows \subseteq Message(st)
  BY DEF Sound, Whole, TablesOK
<1>2. after = [st EXCEPT !.rows = (@ \ left) \union sent,
                         !.seals = Erase(@, {m.no : m \in left})]
  BY DEF Resent
<1>3. left \subseteq st.rows
  OBVIOUS
<1>4. \A x \in sent : \E m \in left : x = [m EXCEPT !.state = "sent"]
  OBVIOUS
<1>5. \A m \in left : [m EXCEPT !.state = "sent"] \in sent
  OBVIOUS
<1> HIDE DEF after, left, sent
<1>6. /\ Shape(after)
      /\ after.contacts = st.contacts /\ after.pairings = st.pairings
      /\ after.threads = st.threads /\ after.ratchets = st.ratchets
      /\ after.rows = (st.rows \ left) \union sent
  BY <1>1, <1>2 DEF Shape, Table
<1>7. ASSUME NEW m \in left
      PROVE  LET x == [m EXCEPT !.state = "sent"] IN
             /\ x \in Message(st) /\ m \in Message(st)
             /\ x.no = m.no /\ x.thread = m.thread /\ x.dir = m.dir /\ x.seq = m.seq
  BY <1>1, <1>3 DEF Message
<1>8. \A x \in after.rows : \E m \in st.rows :
        /\ x.no = m.no /\ x.thread = m.thread /\ x.dir = m.dir /\ x.seq = m.seq
        /\ (x = m \/ (m \in left /\ x = [m EXCEPT !.state = "sent"]))
        /\ x \in Message(st)
  <2>1. ASSUME NEW x \in after.rows, x \notin sent
        PROVE  x \in st.rows /\ x \in Message(st)
    BY <1>1, <1>6, <2>1
  <2>2. ASSUME NEW x \in sent
        PROVE  \E m \in st.rows :
                 /\ x.no = m.no /\ x.thread = m.thread /\ x.dir = m.dir /\ x.seq = m.seq
                 /\ m \in left /\ x = [m EXCEPT !.state = "sent"]
                 /\ x \in Message(st)
    <3>1. PICK m \in left : x = [m EXCEPT !.state = "sent"]
      BY <1>4
    <3>2. m \in st.rows
      BY <1>3
    <3> QED BY <1>7, <3>1, <3>2
  <2>3. ASSUME NEW x \in after.rows
        PROVE  \E m \in st.rows :
                 /\ x.no = m.no /\ x.thread = m.thread /\ x.dir = m.dir /\ x.seq = m.seq
                 /\ (x = m \/ (m \in left /\ x = [m EXCEPT !.state = "sent"]))
                 /\ x \in Message(st)
    <3>1. CASE x \in sent
      BY <2>2, <3>1
    <3>2. CASE x \notin sent
      BY <2>1, <3>2
    <3> QED BY <3>1, <3>2
  <2> QED BY <2>3
<1>9. \A m \in st.rows : \E x \in after.rows : x.no = m.no /\ x.thread = m.thread
  BY <1>5, <1>6, <1>7
<1>10. TablesOK(after)
  <2>1. Message(after) = Message(st)
    BY <1>6 DEF Message
  <2>2. after.rows \subseteq Message(after)
    BY <1>8, <2>1
  <2>3. {m.seq : m \in after.rows} \subseteq {m.seq : m \in st.rows}
    BY <1>8
  <2>4. Numbers({m.seq : m \in after.rows})
    BY <1>1, <2>3, FewerNumbers DEF TablesOK
  <2> QED BY <1>1, <1>6, <2>2, <2>4 DEF TablesOK
<1>11. AllThere(after)
  <2>1. \A u : WhoseThread(after, u) = WhoseThread(st, u)
    BY <1>6 DEF WhoseThread
  <2>2. ASSUME NEW no \in 1..Count PROVE Holds(after, no, about[no])
    <3>1. PICK m \in st.rows : m.no = no /\ WhoseThread(st, m.thread) = about[no]
      BY <1>1 DEF AllThere, Holds
    <3>2. PICK x \in after.rows : x.no = m.no /\ x.thread = m.thread
      BY <1>9
    <3> QED BY <2>1, <3>1, <3>2 DEF Holds
  <2> QED BY <2>2 DEF AllThere
<1>12. Numbered(after)
  <2>1. ASSUME NEW x \in after.rows, NEW y \in after.rows,
               x.dir = "out", y.dir = "out", x.thread = y.thread, x.seq = y.seq
        PROVE  x = y
    <3>1. PICK m \in st.rows :
            /\ x.no = m.no /\ x.thread = m.thread /\ x.dir = m.dir /\ x.seq = m.seq
            /\ (x = m \/ (m \in left /\ x = [m EXCEPT !.state = "sent"]))
      BY <1>8
    <3>2. PICK n \in st.rows :
            /\ y.no = n.no /\ y.thread = n.thread /\ y.dir = n.dir /\ y.seq = n.seq
            /\ (y = n \/ (n \in left /\ y = [n EXCEPT !.state = "sent"]))
      BY <1>8
    <3>3. m = n
      BY <1>1, <2>1, <3>1, <3>2 DEF Numbered
    <3>4. ASSUME NEW z \in after.rows, z = m, m \in left PROVE m.state = "sent" /\ FALSE
      <4>1. z \in sent
        BY <1>6, <3>4
      <4>2. z.state = "sent"
        BY <1>4, <1>7, <4>1 DEF Message
      <4>3. m.state = "queued"
        BY <3>4 DEF left
      <4> QED BY <3>4, <4>2, <4>3
    <3> QED BY <3>1, <3>2, <3>3, <3>4
  <2> QED BY <2>1 DEF Numbered
<1>13. /\ KeysOnce(after) /\ Threaded(after, {})
       /\ Sealed(after, {}) /\ Keyed(after, {}) /\ Once(after) /\ Lone(after)
  BY <1>6, SameButRows
<1> QED BY <1>10, <1>11, <1>12, <1>13 DEF Sound, Whole, after

\* A message is put in a conversation with the person it is about, numbered past
\* those this phone wrote there.
LEMMA AddRowOK ==
  ASSUME AroundOK, NEW st, Sound(st, {}), UNCHANGED <<owner, finished>>,
         NEW t \in DOMAIN st.threads, NEW row,
         row \in [no : {Count + 1}, thread : {t}, dir : {"in", "out"},
                  seq : Nat \ {0}, state : {"queued", "sent", "delivered"}],
         row.dir = "out" => row.seq = LastSeq(st, t, "out") + 1,
         Shape(store'),
         store'.contacts = st.contacts, store'.pairings = st.pairings,
         store'.threads = st.threads, store'.ratchets = st.ratchets,
         store'.rows = st.rows \union {row},
         about' = Append(about, WhoseThread(st, t))
  PROVE  Sound(store, {})' /\ about' \in Seq(Person)
<1>1. /\ TablesOK(st) /\ AllThere(st) /\ Numbered(st)
      /\ st.rows \subseteq Message(st) /\ Numbers({m.seq : m \in st.rows})
  BY DEF Sound, Whole, TablesOK
<1>2. /\ KeysOnce(store') /\ Threaded(store', {})
      /\ Sealed(store', {}) /\ Keyed(store', {}) /\ Once(store') /\ Lone(store')
  BY SameButRows
<1>3. /\ KeysOnce(store)' /\ Threaded(store, {})'
      /\ Sealed(store, {})' /\ Keyed(store, {})' /\ Once(store)'
  <2>1. KeysOnce(store)' /\ Threaded(store, {})'
    BY <1>2 DEF KeysOnce, Threaded, ThreadsOf
  <2>2. Sealed(store, {})' /\ Keyed(store, {})'
    BY <1>2 DEF Sealed, Keyed, RatchetOf, CurrentThread, ThreadsOf
  <2>3. Once(store)'
    BY <1>2 DEF Once, PairedWith, PersonOf
  <2> QED BY <2>1, <2>2, <2>3
<1>4. Lone(store)'
  BY <1>2, SameLone
<1>5. WhoseThread(st, t) \in Person /\ about \in Seq(Person) /\ Count \in Nat
  <2>1. st.contacts[st.threads[t]] \in Key
    BY <1>1 DEF TablesOK
  <2> QED BY <2>1, KeyFacts DEF WhoseThread, AroundOK, Count
<1>6. /\ about' \in Seq(Person) /\ Count' = Count + 1
      /\ about'[Count + 1] = WhoseThread(st, t)
      /\ \A no \in 1..Count : about'[no] = about[no]
  BY <1>5 DEF Count
<1>7. row.no = Count + 1 /\ row.thread = t /\ row.seq \in Nat \ {0}
  OBVIOUS
<1>8. TablesOK(store)'
  <2>1. Key' = Key
    BY DEF Key
  <2>2. store'.rows \subseteq Message(store)'
    <3>1. \A m \in st.rows : m \in Message(store)'
      BY <1>1, <1>5, <1>6 DEF Message
    <3>2. row \in Message(store)'
      BY <1>5, <1>6 DEF Message
    <3> QED BY <3>1, <3>2
  <2>3. Numbers({m.seq : m \in store'.rows})
    <3>1. PICK n \in Nat : \A i \in {m.seq : m \in st.rows} : i <= n
      BY <1>1 DEF Numbers
    <3>2. \A m \in st.rows : m.seq \in Nat \ {0} /\ m.seq <= n
      BY <1>1, <3>1 DEF Message
    <3>3. \A m \in store'.rows : m.seq \in Nat \ {0} /\ m.seq <= n + row.seq
      BY <1>7, <3>2
    <3>4. \A i \in {m.seq : m \in store'.rows} : i \in Nat \ {0} /\ i <= n + row.seq
      BY <3>3
    <3>5. n + row.seq \in Nat
      BY <1>7
    <3> QED BY <3>4, <3>5 DEF Numbers
  <2>4. Numbers({m.seq : m \in store.rows})'
    BY <2>3 DEF Numbers
  <2>5. /\ Shape(store)'
        /\ Numbers(DOMAIN store.contacts)' /\ Numbers(DOMAIN store.threads)'
    BY <1>1 DEF TablesOK, Shape, Numbers, Table
  <2> QED BY <1>1, <2>1, <2>2, <2>4, <2>5 DEF TablesOK
<1>9. AllThere(store)'
  <2>1. ASSUME NEW no \in 1..(Count + 1)
        PROVE  \E m \in store'.rows : m.no = no /\ WhoseThread(st, m.thread) = about'[no]
    <3>1. CASE no = Count + 1
      BY <1>6, <1>7, <3>1
    <3>2. CASE no # Count + 1
      <4>1. no \in 1..Count
        BY <1>5, <3>2
      <4>2. PICK m \in st.rows : m.no = no /\ WhoseThread(st, m.thread) = about[no]
        BY <1>1, <4>1 DEF AllThere, Holds
      <4> QED BY <1>6, <4>1, <4>2
    <3> QED BY <3>1, <3>2
  <2>2. ASSUME NEW no \in 1..(Count + 1)
        PROVE  Holds(store, no, about[no])'
    <3>1. PICK m \in store'.rows : m.no = no /\ WhoseThread(st, m.thread) = about'[no]
      BY <2>1
    <3>2. WhoseThread(store, m.thread)' = WhoseThread(st, m.thread)
      BY DEF WhoseThread, PersonOf
    <3> QED BY <3>1, <3>2 DEF Holds
  <2> QED BY <1>6, <2>2 DEF AllThere, Holds
<1>10. Numbered(store)'
  <2>1. ASSUME NEW m \in st.rows, m.dir = "out", row.dir = "out", m.thread = t
        PROVE  m.seq # row.seq
    <3>1. /\ LastSeq(st, t, "out") \in Nat
          /\ m.seq \in Nat /\ m.seq <= LastSeq(st, t, "out")
      BY <1>1, <2>1, LastFacts
    <3> QED BY <2>1, <3>1
  <2>2. ASSUME NEW m \in store'.rows, NEW n \in store'.rows,
               m.dir = "out", n.dir = "out", m.thread = n.thread, m.seq = n.seq
        PROVE  m = n
    BY <1>1, <1>7, <2>1, <2>2 DEF Numbered
  <2> QED BY <2>2 DEF Numbered
<1> QED BY <1>3, <1>4, <1>6, <1>8, <1>9, <1>10 DEF Sound, Whole

\* A session opened: rows adopted, and what waited sent.
LEMMA HandleOpenedOK ==
  ASSUME ContactsInv, NEW p \in Person, HandleOpened(p)
  PROVE  ContactsInv'
<1>1. /\ AroundOK /\ Sound(store, {}) /\ Device(p) \in DOMAIN owner
  BY DeviceFacts DEF ContactsInv, AroundOK
<1>2. /\ UNCHANGED <<owner, hinted, claimed, session, finished, peer, about, spent>>
      /\ opened' = opened \ {p}
  BY DEF HandleOpened, air, told
<1>3. PICK settled \in {Reconcile(store, Device(p))} :
        store' = IF session[p] = "none" THEN settled ELSE Resent(settled, Device(p))
  BY DEF HandleOpened
<1>4. Sound(settled, {})
  BY <1>1, <1>3, ReconcileKeepsSound
<1>5. Sound(store', {})
  BY <1>3, <1>4, ResentKeepsSound
<1>6. AroundOK'
  BY <1>1, <1>2 DEF AroundOK, Owners
<1> QED BY <1>2, <1>5, <1>6, SameSound DEF ContactsInv

\* A conversation opened on a device in sight.
LEMMA OpenDeviceOK ==
  ASSUME ContactsInv, NEW p \in Person, OpenDevice(p)
  PROVE  ContactsInv'
<1>1. /\ AroundOK /\ Sound(store, {}) /\ Device(p) \in DOMAIN owner
  BY DeviceFacts DEF ContactsInv, AroundOK
<1>2. UNCHANGED <<owner, hinted, claimed, session, opened, finished, peer, about, spent>>
  BY DEF OpenDevice, air, told
<1>3. PICK e \in EnsureThread(store, Device(p)) : store' = e.st
  BY DEF OpenDevice
<1>4. Sound(store', {})
  BY <1>1, <1>3, EnsureThreadKeepsSound
<1>5. AroundOK'
  BY <1>1, <1>2 DEF AroundOK, Owners
<1> QED BY <1>2, <1>4, <1>5, SameSound DEF ContactsInv

\* A message written on a screen whose thread is still the current one.
LEMMA TypeOK ==
  ASSUME ContactsInv, NEW state \in {"queued", "sent"}, Type(state)
  PROVE  ContactsInv'
<1> DEFINE t == screen.thread
           row == Row(t, "out", LastSeq(store, t, "out") + 1, state)
           kept == IF state = "sent" THEN store.seals
                   ELSE Put(store.seals, row.no, RatchetOf(store, t))
<1>1. AroundOK /\ Sound(store, {}) /\ TablesOK(store) /\ Shape(store)
  BY DEF ContactsInv, Sound, Whole, TablesOK
<1>2. /\ UNCHANGED <<owner, hinted, claimed, session, opened, finished, peer, spent>>
      /\ t \in DOMAIN store.threads
      /\ about' = Append(about, WhoseThread(store, t))
      /\ store' = [store EXCEPT !.rows = @ \union {row}, !.seals = kept]
  BY DEF Type, Writable, air
<1>3. /\ row \in [no : {Count + 1}, thread : {t}, dir : {"in", "out"},
                  seq : Nat \ {0}, state : {"queued", "sent", "delivered"}]
      /\ row.seq = LastSeq(store, t, "out") + 1
  <2>1. LastSeq(store, t, "out") \in Nat
    BY <1>1, LastFacts
  <2>2. LastSeq(store, t, "out") + 1 \in Nat \ {0}
    BY <2>1
  <2> QED BY <2>2 DEF Row
<1> HIDE DEF row, kept, t
<1>4. /\ Shape(store')
      /\ store'.contacts = store.contacts /\ store'.pairings = store.pairings
      /\ store'.threads = store.threads /\ store'.ratchets = store.ratchets
      /\ store'.rows = store.rows \union {row}
  BY <1>1, <1>2 DEF Shape, Table
<1>5. Sound(store, {})' /\ about' \in Seq(Person)
  BY <1>1, <1>2, <1>3, <1>4, AddRowOK
<1>6. AroundOK'
  BY <1>1, <1>2, <1>5 DEF AroundOK, Owners
<1> QED BY <1>5, <1>6 DEF ContactsInv

\* A message that came, kept or refused.
LEMMA HearOK ==
  ASSUME ContactsInv, NEW p \in Person, Hear(p)
  PROVE  ContactsInv'
<1>1. /\ AroundOK /\ Sound(store, {})
      /\ Device(p) \in DOMAIN owner /\ owner[Device(p)] = p
  BY DeviceFacts DEF ContactsInv, AroundOK
<1>2. UNCHANGED <<owner, hinted, claimed, session, opened, finished, spent>>
  BY DEF Hear, air
<1> DEFINE seq == peer[p].next
<1>3. PICK e \in EnsureThread(store, Device(p)) :
        \/ /\ store' = [e.st EXCEPT
                !.rows = @ \union {Row(e.thread, "in", seq, "delivered")},
                !.inboxes = Put(@, e.thread, Taken(e.st, e.thread) \union {seq})]
           /\ peer' = [peer EXCEPT ![p].next = @ + 1]
           /\ about' = Append(about, p)
        \/ store' = e.st /\ peer' = peer /\ about' = about
  BY DEF Hear, told
<1>4. /\ Sound(e.st, {}) /\ Shape(e.st)
      /\ e.thread \in DOMAIN e.st.threads /\ WhoseThread(e.st, e.thread) = p
  <2>1. /\ Sound(e.st, {})
        /\ e.thread \in DOMAIN e.st.threads /\ WhoseThread(e.st, e.thread) = p
    BY <1>1, EnsureThreadKeepsSound
  <2> QED BY <2>1 DEF Sound, Whole, TablesOK
<1>5. /\ peer \in [Person -> [ratchet : Nat, next : Nat \ {0}]]
      /\ seq \in Nat \ {0} /\ about \in Seq(Person)
  BY <1>1 DEF AroundOK
<1>6. CASE store' = e.st /\ peer' = peer /\ about' = about
  <2>1. Sound(store, {})'
    BY <1>2, <1>4, <1>6, SameSound
  <2>2. AroundOK'
    BY <1>1, <1>2, <1>6 DEF AroundOK, Owners
  <2> QED BY <2>1, <2>2 DEF ContactsInv
<1>7. CASE /\ store' = [e.st EXCEPT
                !.rows = @ \union {Row(e.thread, "in", seq, "delivered")},
                !.inboxes = Put(@, e.thread, Taken(e.st, e.thread) \union {seq})]
           /\ peer' = [peer EXCEPT ![p].next = @ + 1]
           /\ about' = Append(about, p)
  <2> DEFINE row == Row(e.thread, "in", seq, "delivered")
             taken == Put(e.st.inboxes, e.thread, Taken(e.st, e.thread) \union {seq})
  <2>1. /\ row \in [no : {Count + 1}, thread : {e.thread}, dir : {"in", "out"},
                    seq : Nat \ {0}, state : {"queued", "sent", "delivered"}]
        /\ row.dir = "in"
    BY <1>5 DEF Row
  <2>2. store' = [e.st EXCEPT !.rows = @ \union {row}, !.inboxes = taken]
    BY <1>7
  <2> HIDE DEF row, taken
  <2>3. /\ Shape(store')
        /\ store'.contacts = e.st.contacts /\ store'.pairings = e.st.pairings
        /\ store'.threads = e.st.threads /\ store'.ratchets = e.st.ratchets
        /\ store'.rows = e.st.rows \union {row}
    BY <1>4, <2>2 DEF Shape, Table
  <2>4. Sound(store, {})' /\ about' \in Seq(Person)
    BY <1>1, <1>2, <1>4, <1>7, <2>1, <2>3, AddRowOK
  <2>5. peer' \in [Person -> [ratchet : Nat, next : Nat \ {0}]]
    <3>1. peer[p].next + 1 \in Nat \ {0}
      BY <1>5
    <3>2. peer[p] \in [ratchet : Nat, next : Nat \ {0}]
      BY <1>5
    <3>3. [peer[p] EXCEPT !.next = @ + 1] \in [ratchet : Nat, next : Nat \ {0}]
      BY <3>1, <3>2
    <3>4. peer' = [peer EXCEPT ![p] = [peer[p] EXCEPT !.next = @ + 1]]
      BY <1>7
    <3> QED BY <1>5, <3>3, <3>4
  <2>6. AroundOK'
    BY <1>1, <1>2, <2>4, <2>5 DEF AroundOK, Owners
  <2> QED BY <2>4, <2>6 DEF ContactsInv
<1> QED BY <1>3, <1>6, <1>7

\* A ceremony that ends under the id in use makes no row stand beside another.
LEMMA CompleteOK ==
  ASSUME ContactsInv, NEW p \in Person, Complete(p)
  PROVE  ContactsInv'
<1>1. /\ AroundOK /\ Sound(store, {})
      /\ Device(p) \in DOMAIN owner /\ owner[Device(p)] = p
  BY DeviceFacts DEF ContactsInv, AroundOK
<1>2. /\ UNCHANGED <<store, owner, hinted, claimed, session, opened, about>>
      /\ finished' = [device |-> Device(p), no |-> spent.ceremonies + 1]
      /\ spent' = [spent EXCEPT !["ceremonies"] = @ + 1]
      /\ peer' = [peer EXCEPT ![p] =
           [ratchet |-> spent.ceremonies + 1, next |-> IF @.ratchet = 0 THEN @.next ELSE 1]]
  BY DEF Complete, Spend, air, told
<1>3. AroundOK'
  <2>1. /\ peer \in [Person -> [ratchet : Nat, next : Nat \ {0}]]
        /\ spent \in [meetings : Nat, ceremonies : Nat, blocks : Nat]
    BY <1>1 DEF AroundOK
  <2>2. spent' \in [meetings : Nat, ceremonies : Nat, blocks : Nat]
    BY <1>2, <2>1
  <2>3. peer' \in [Person -> [ratchet : Nat, next : Nat \ {0}]]
    BY <1>2, <2>1
  <2>4. finished' \in [device : DOMAIN owner' \union {0}, no : Nat]
    BY <1>1, <1>2, <2>1
  <2> QED BY <1>1, <1>2, <2>2, <2>3, <2>4 DEF AroundOK, Owners
<1>4. /\ Whole(store', {}) /\ Sealed(store', {}) /\ Keyed(store', {}) /\ Once(store')
  BY <1>1, <1>2 DEF Sound
<1>5. Lone(store)'
  <2>1. ASSUME NEW q \in Person, NEW s \in FiledUnder(store, Placeholder(Device(q))),
               Aside(store, q, s)'
        PROVE  Single(store, s)
    <3>1. Aside(store, q, s)
      BY <1>1, <1>2, <2>1 DEF Aside, PairedWith, Device
    <3> QED BY <1>1, <3>1 DEF Sound, Lone
  <2>2. \A q : Device(q)' = Device(q)
    BY <1>2 DEF Device
  <2>3. \A q : FiledUnder(store, Placeholder(Device(q)))' = FiledUnder(store, Placeholder(Device(q)))
    BY <1>2, <2>2 DEF FiledUnder, Placeholder
  <2>4. ASSUME NEW q \in Person, NEW s \in FiledUnder(store, Placeholder(Device(q)))',
               Aside(store, q, s)'
        PROVE  Single(store, s)'
    <3>1. Single(store, s)
      BY <2>1, <2>3, <2>4
    <3> QED BY <1>2, <3>1 DEF Single, ThreadsOf
  <2> QED BY <2>4 DEF Lone
<1> QED BY <1>2, <1>3, <1>4, <1>5, SamePeople DEF ContactsInv, Sound

\* Pairing leaves the other rows of the person alone; one filed under the id in
\* use stood beside a pairing already, or beside the id the ceremony began under.
LEMMA RecordOK ==
  ASSUME ContactsInv, Record
  PROVE  ContactsInv'
<1> DEFINE d == finished.device
           p == owner[d]
<1>1. /\ AroundOK /\ Sound(store, {})
      /\ d \in DOMAIN owner /\ d # 0 /\ p \in Person
  BY HolderFacts DEF ContactsInv, AroundOK, Record
<1>2. /\ UNCHANGED <<owner, hinted, claimed, session, opened, peer, about, spent>>
      /\ finished' = [device |-> 0, no |-> 0]
  BY DEF Record, air, told
<1>3. PICK e \in EnsureContact(store, d) :
        store' = RecordPairing(e.st, e.contact, p, finished.no)
  BY DEF Record
<1> DEFINE st == e.st
           c == e.contact
<1>4. Ensured(st, c, d)
  BY <1>1, <1>3, EnsureContactKeepsSound
<1> HIDE DEF st, c
<1>5. /\ Sound(st, {c}) /\ c \in DOMAIN st.contacts
      /\ PersonOf(st.contacts[c]) = p
      /\ Holder(d) # NoOne =>
           \A s \in Remembered(st, d) : s = c \/ c \in PairedWith(st, p)
      /\ TablesOK(st) /\ Once(st) /\ Lone(st)
  BY <1>4 DEF Ensured, Sound, Whole
<1>6. /\ Whole(store', {}) /\ Sealed(store', {}) /\ Keyed(store', {}) /\ Once(store')
      /\ Beside(st, store', c, p) /\ PairedWith(store', p) = {c}
  <2>1. store' = RecordPairing(st, c, p, finished.no)
    BY <1>3 DEF st, c
  <2> HIDE DEF p
  <2>2. /\ Whole(RecordPairing(st, c, p, finished.no), {})
        /\ Sealed(RecordPairing(st, c, p, finished.no), {})
        /\ Keyed(RecordPairing(st, c, p, finished.no), {})
        /\ Once(RecordPairing(st, c, p, finished.no))
        /\ Beside(st, RecordPairing(st, c, p, finished.no), c, p)
        /\ PairedWith(RecordPairing(st, c, p, finished.no), p) = {c}
    BY <1>5, RecordPairingKeepsKeys
  <2> QED BY <2>1, <2>2
<1>7. AroundOK'
  BY <1>1, <1>2 DEF AroundOK, Owners
<1>8. ASSUME NEW q \in Person, NEW s \in FiledUnder(store', Placeholder(Device(q))),
             NEW o \in PairedWith(store', q), o # s
      PROVE  Single(store', s)
  <2>1. s \in DOMAIN store'.contacts /\ store'.contacts[s] = Placeholder(Device(q))
    BY DEF FiledUnder
  <2>2. s # c
    <3>1. CASE q = p
      BY <1>6, <1>8, <3>1
    <3>2. CASE q # p
      <4>1. o \in PairedWith(st, q) /\ q # p
        BY <1>6, <1>8, <3>2 DEF Beside
      <4>2. SUFFICES ASSUME s = c PROVE FALSE
        OBVIOUS
      <4>3. Whole(store', {}) /\ c \in PairedWith(store', p)
        BY <1>6
      <4>4. PersonOf(store'.contacts[c]) = p
        BY <1>6, <4>3, OnceFacts
      <4>5. PersonOf(Placeholder(Device(q))) = q
        BY <1>1, KeyFacts, DeviceFacts DEF AroundOK
      <4> QED BY <2>1, <3>2, <4>2, <4>4, <4>5
    <3> QED BY <3>1, <3>2
  <2>3. /\ s \in FiledUnder(st, Placeholder(Device(q)))
        /\ ThreadsOf(store', s) = ThreadsOf(st, s)
    BY <1>6, <2>1, <2>2 DEF Beside, FiledUnder
  <2>4. Aside(st, q, s)
    <3>1. CASE q # p
      <4>1. o \in PairedWith(st, q)
        BY <1>6, <1>8, <3>1 DEF Beside
      <4> QED BY <1>8, <4>1 DEF Aside
    <3>2. CASE q = p /\ d # Device(p)
      BY <1>1, <3>2 DEF Aside
    <3>3. CASE q = p /\ d = Device(p)
      <4>1. Holder(d) # NoOne /\ s \in Remembered(st, d)
        <5>1. Holder(d) = p
          BY <1>1, <3>3 DEF Holder
        <5>2. s \in Remembered(st, d)
          BY <2>3, <3>3 DEF Remembered
        <5> QED BY <1>1, <5>1, <5>2, PeopleAreMany
      <4>2. c \in PairedWith(st, p)
        BY <1>5, <2>2, <4>1
      <4> QED BY <2>2, <3>3, <4>2 DEF Aside
    <3> QED BY <3>1, <3>2, <3>3
  <2>5. Single(st, s)
    BY <1>1, <1>5, <1>8, <2>3, <2>4 DEF Lone
  <2> QED BY <2>3, <2>5 DEF Single
<1>9. Lone(store)'
  <2>1. \A q : Device(q)' = Device(q)
    BY <1>2 DEF Device
  <2>2. \A q : FiledUnder(store, Placeholder(Device(q)))' = FiledUnder(store', Placeholder(Device(q)))
    BY <2>1 DEF FiledUnder, Placeholder
  <2>3. ASSUME NEW q \in Person, NEW s \in FiledUnder(store, Placeholder(Device(q)))',
               Aside(store, q, s)'
        PROVE  Single(store, s)'
    <3>1. \E o \in PairedWith(store', q) : o # s
      BY <1>2, <2>3 DEF Aside, PairedWith
    <3>2. Single(store', s)
      BY <1>8, <2>2, <2>3, <3>1
    <3> QED BY <3>2 DEF Single, ThreadsOf
  <2> QED BY <2>3 DEF Lone
<1> QED BY <1>2, <1>6, <1>7, <1>9, SamePeople DEF ContactsInv, Sound

\* A block takes a pairing away with the keys of its conversation.
LEMMA BlockOK ==
  ASSUME ContactsInv, NEW c \in DOMAIN store.contacts, Block(c)
  PROVE  ContactsInv'
<1> DEFINE p == PersonOf(store.contacts[c])
           now == CurrentThread(store, c)
<1>1. /\ AroundOK
      /\ TablesOK(store) /\ KeysOnce(store) /\ Threaded(store, {}) /\ AllThere(store)
      /\ Numbered(store) /\ Shape(store) /\ Numbers(DOMAIN store.threads)
      /\ Sealed(store, {}) /\ Keyed(store, {}) /\ Once(store) /\ Lone(store)
  BY DEF ContactsInv, Sound, Whole, TablesOK
<1>2. /\ UNCHANGED <<owner, hinted, claimed, opened, finished, peer, about>>
      /\ session' = [session EXCEPT ![p] = "none"]
      /\ store' = Revoke(store, c)
      /\ spent' = [spent EXCEPT !["blocks"] = @ + 1]
  BY DEF Block, Spend, told
<1>3. /\ Shape(store')
      /\ store'.contacts = store.contacts
      /\ store'.pairings = Erase(store.pairings, {c})
      /\ store'.threads = store.threads
      /\ store'.ratchets = Erase(store.ratchets, {now})
      /\ store'.rows = store.rows
  BY <1>1, <1>2, RevokeFields
<1>n. now = CurrentThread(store, c) /\ (now # 0 => now \in ThreadsOf(store, c))
  BY <1>1, CurrentFacts
<1> HIDE DEF p, now
<1>4. /\ DOMAIN store'.pairings = DOMAIN store.pairings \ {c}
      /\ \A e \in DOMAIN store'.pairings : store'.pairings[e] = store.pairings[e]
      /\ DOMAIN store'.ratchets = DOMAIN store.ratchets \ {now}
      /\ \A t \in DOMAIN store'.ratchets : store'.ratchets[t] = store.ratchets[t]
  <2>1. /\ DOMAIN Erase(store.pairings, {c}) = DOMAIN store.pairings \ {c}
        /\ \A e \in DOMAIN store.pairings \ {c} :
             Erase(store.pairings, {c})[e] = store.pairings[e]
    BY EraseFields, Zenon
  <2>2. /\ DOMAIN Erase(store.ratchets, {now}) = DOMAIN store.ratchets \ {now}
        /\ \A t \in DOMAIN store.ratchets \ {now} :
             Erase(store.ratchets, {now})[t] = store.ratchets[t]
    BY EraseFields, Zenon
  <2> QED BY <1>3, <2>1, <2>2
<1>5. AroundOK'
  <2>1. /\ session \in [Person -> {"none", "pseudonym", "session_pub"}]
        /\ spent \in [meetings : Nat, ceremonies : Nat, blocks : Nat]
    BY <1>1 DEF AroundOK
  <2>2. spent' \in [meetings : Nat, ceremonies : Nat, blocks : Nat]
    BY <1>2, <2>1
  <2>3. session' \in [Person -> {"none", "pseudonym", "session_pub"}]
    BY <1>2, <2>1
  <2> QED BY <1>1, <1>2, <2>2, <2>3 DEF AroundOK, Owners
<1>6. TablesOK(store')
  <2>1. Message(store') = Message(store)
    BY <1>3 DEF Message
  <2> QED BY <1>1, <1>3, <1>4, <2>1 DEF TablesOK
<1>7. \A e : /\ ThreadsOf(store', e) = ThreadsOf(store, e)
             /\ CurrentThread(store', e) = CurrentThread(store, e)
  BY <1>3 DEF ThreadsOf, CurrentThread
<1>8. KeysOnce(store') /\ Threaded(store', {}) /\ Numbered(store') /\ AllThere(store')
  <2>1. KeysOnce(store') /\ Threaded(store', {}) /\ Numbered(store')
    BY <1>1, <1>3, <1>7 DEF KeysOnce, Threaded, Numbered
  <2>2. AllThere(store')
    BY <1>1, <1>3 DEF AllThere, Holds, WhoseThread
  <2> QED BY <2>1, <2>2
<1>9. Sealed(store', {})
  <2>1. ASSUME NEW e \in DOMAIN store.pairings \ {c}
        PROVE  RatchetOf(store', CurrentThread(store, e)) = RatchetOf(store, CurrentThread(store, e))
    <3>1. CurrentThread(store, e) = now => now \notin DOMAIN store.ratchets
      <4>1. CurrentThread(store, e) # 0 => CurrentThread(store, e) \in ThreadsOf(store, e)
        BY <1>1, CurrentFacts
      <4>2. 0 \notin DOMAIN store.ratchets
        BY <1>1 DEF TablesOK, Numbers
      <4> QED BY <1>n, <2>1, <4>1, <4>2 DEF ThreadsOf
    <3> QED BY <1>4, <3>1 DEF RatchetOf
  <2> QED BY <1>1, <1>4, <1>7, <2>1 DEF Sealed
<1>10. Keyed(store', {})
  <2>1. ASSUME NEW t \in DOMAIN store'.ratchets
        PROVE  /\ store'.threads[t] \in DOMAIN store'.pairings
               /\ CurrentThread(store', store'.threads[t]) = t
    <3>1. /\ t \in DOMAIN store.ratchets /\ t # now
          /\ store.threads[t] \in DOMAIN store.pairings
          /\ CurrentThread(store, store.threads[t]) = t
      BY <1>1, <1>4 DEF Keyed
    <3>2. store.threads[t] # c
      BY <1>n, <3>1
    <3> QED BY <1>3, <1>4, <1>7, <3>1, <3>2
  <2> QED BY <2>1 DEF Keyed
<1>11. \A q : PairedWith(store', q) = PairedWith(store, q) \ {c}
  BY <1>4 DEF PairedWith
<1>12. Once(store')
  <2>1. ASSUME NEW e \in DOMAIN store'.pairings
        PROVE  /\ PersonOf(store'.contacts[e]) = store'.pairings[e].who
               /\ PairedWith(store', store'.pairings[e].who) = {e}
    <3>1. /\ e \in DOMAIN store.pairings /\ e # c
          /\ store'.pairings[e] = store.pairings[e]
      BY <1>4
    <3>2. /\ PersonOf(store.contacts[e]) = store.pairings[e].who
          /\ PairedWith(store, store.pairings[e].who) = {e}
      BY <1>1, <3>1 DEF Once
    <3> QED BY <1>3, <1>11, <3>1, <3>2
  <2> QED BY <2>1 DEF Once
<1>13. Lone(store')
  BY <1>1, <1>3, <1>7, <1>11 DEF Lone, Aside, Single, FiledUnder
<1>14. Sound(store', {})
  BY <1>6, <1>8, <1>9, <1>10, <1>12, <1>13 DEF Sound, Whole
<1> QED BY <1>2, <1>5, <1>14, SameSound DEF ContactsInv

\* Every step keeps the invariant.
LEMMA NextOK ==
  ASSUME ContactsInv, [Next]_vars
  PROVE  ContactsInv'
<1>1. ASSUME NEW p \in Person, Rotate(p) PROVE ContactsInv'
  BY <1>1, RotateOK
<1>2. ASSUME NEW p \in Person, SeeHint(p) \/ FetchPersona(p) \/ Part(p) PROVE ContactsInv'
  <2>1. "pseudonym" \in {"pseudonym", "session_pub"}
    OBVIOUS
  <2> QED BY <1>2, <2>1, AirOK, Zenon
<1>3. ASSUME NEW p \in Person, HandleOpened(p) PROVE ContactsInv'
  BY <1>3, HandleOpenedOK
<1>4. ASSUME NEW p \in Person, OpenDevice(p) PROVE ContactsInv'
  BY <1>4, OpenDeviceOK
<1>5. ASSUME NEW p \in Person, Hear(p) PROVE ContactsInv'
  BY <1>5, HearOK
<1>6. ASSUME NEW p \in Person, Complete(p) PROVE ContactsInv'
  BY <1>6, CompleteOK
<1>7. ASSUME NEW p \in Person, NEW side \in {"pseudonym", "session_pub"}, Meet(p, side)
      PROVE  ContactsInv'
  BY <1>7, AirOK
<1>8. ASSUME NEW t \in DOMAIN store.threads, OpenListed(t) PROVE ContactsInv'
  <2>1. UNCHANGED <<store, owner, about, finished>>
    BY <1>8 DEF OpenListed, told, air
  <2>2. AroundOK'
    BY <1>8 DEF ContactsInv, AroundOK, Owners, OpenListed, air, told
  <2> QED BY <2>1, <2>2, AsideOK
<1>9. ASSUME NEW state \in {"queued", "sent"}, Type(state) PROVE ContactsInv'
  BY <1>9, TypeOK
<1>10. ASSUME Record PROVE ContactsInv'
  BY <1>10, RecordOK
<1>11. ASSUME NEW c \in DOMAIN store.contacts, Block(c) PROVE ContactsInv'
  BY <1>11, BlockOK
<1>12. ASSUME UNCHANGED vars PROVE ContactsInv'
  <2>1. UNCHANGED <<store, owner, about, finished>>
    BY <1>12 DEF vars, told, air
  <2>2. AroundOK'
    BY <1>12 DEF ContactsInv, AroundOK, Owners, vars, told, air
  <2> QED BY <2>1, <2>2, AsideOK
<1> QED BY <1>1, <1>2, <1>3, <1>4, <1>5, <1>6, <1>7, <1>8, <1>9, <1>10, <1>11, <1>12
        DEF Next

-----------------------------------------------------------------------------
(* What the invariant means.                                               *)

\* The inductive invariant holds in every state: however the phones meet and
\* the rows are adopted, re-keyed and folded, the tables stay in order.
THEOREM ContactsInvHolds == Spec => []ContactsInv
<1>1. Init => ContactsInv
  BY InitOK
<1>2. ContactsInv /\ [Next]_vars => ContactsInv'
  BY NextOK
<1> QED BY <1>1, <1>2, PTL DEF Spec

\* Every message stays in a conversation with the person it is about, and those
\* this phone wrote in one have each a number of their own (fold_contact).
THEOREM HistoryStaysHolds == Spec => []HistoryStays
<1>1. ContactsInv => HistoryStays
  BY DEF ContactsInv, Sound, Whole, AllThere, Holds, Numbered,
         HistoryStays, EveryMessageStays, OutgoingNumbered
<1> QED BY <1>1, ContactsInvHolds, PTL

\* The current conversation of a paired contact seals with the ratchet of the
\* last ceremony with them (record_pairing, merge_contact).
THEOREM PairedIsSealedHolds == Spec => []PairedIsSealed
<1>1. ContactsInv => PairedIsSealed
  BY DEF ContactsInv, Sound, Sealed, PairedIsSealed
<1> QED BY <1>1, ContactsInvHolds, PTL

\* No key outlives its pairing, and a person is paired under one row, their own.
THEOREM PairingsAreSoundHolds == Spec => []PairingsAreSound
<1>1. ContactsInv => PairingsAreSound
  BY DEF ContactsInv, Sound, Keyed, Once, PairingsAreSound, KeysArePaired, OnePairingEach
<1> QED BY <1>1, ContactsInvHolds, PTL

\* With nobody connected, a phone whose hint was seen is taken for its owner's
\* paired row, and one whose owner is not paired for none of another's.
LEMMA SeenIsKnown ==
  ASSUME ContactsInv, NEW q \in hinted, session[q] = "none",
         NEW p \in Person, NEW c, PairedWith(store, p) = {c}
  PROVE  IF q = p THEN ContactFor(store, Device(q)) = {c}
         ELSE c \notin ContactFor(store, Device(q))
<1> DEFINE d == Device(q)
<1>1. /\ AroundOK /\ TablesOK(store) /\ Once(store) /\ q \in Person
  BY DEF ContactsInv, AroundOK, Sound, Whole
<1>2. d \in DOMAIN owner /\ owner[d] = q /\ Holder(d) = q
  BY <1>1, DeviceFacts DEF AroundOK
<1>3. CASE q = p
  <2>1. Proved(store, d) = {}
    BY <1>2 DEF Proved
  <2>2. Recognised(store, d) = {c}
    BY <1>2, <1>3 DEF Recognised
  <2> QED BY <1>3, <2>1, <2>2, FirstOfFour DEF ContactFor
<1>4. CASE q # p
  <2>1. PersonOf(store.contacts[c]) = p
    BY <1>1, OnceFacts
  <2>2. \A e \in ContactFor(store, d) : PersonOf(store.contacts[e]) = owner[d]
    BY <1>1, <1>2, TakenFor
  <2> QED BY <1>2, <1>4, <2>1, <2>2
<1> QED BY <1>3, <1>4

\* With nobody connected a friend is recognised by the hint, and in sight or not
\* is drawn once (contact_for, nearby_devices).
THEOREM FriendIsKnownHolds == Spec => []FriendIsKnown
<1>1. ASSUME ContactsInv PROVE FriendIsKnown
  <2> SUFFICES ASSUME NEW inSight \in SUBSET hinted, NEW p \in Person,
                      PairedWith(store, p) # {}, \A q \in Person : session[q] = "none"
               PROVE  {r \in Drawn(store, inSight) : r.contact \intersect PairedWith(store, p) # {}}
                        = {[device |-> IF p \in inSight THEN Device(p) ELSE 0,
                            contact |-> PairedWith(store, p)]}
    BY DEF FriendIsKnown
  <2>1. PICK c \in PairedWith(store, p) : TRUE
    OBVIOUS
  <2>2. /\ Once(store) /\ hinted \subseteq Person
        /\ c \in DOMAIN store.pairings
    BY <1>1 DEF ContactsInv, AroundOK, Sound, PairedWith
  <2>3. PairedWith(store, p) = {c}
    BY <2>2, OnceFacts
  <2> DEFINE taken(q) == ContactFor(store, Device(q))
             front == UNION {taken(q) : q \in inSight}
             seen == {[device |-> Device(q), contact |-> taken(q)] : q \in inSight}
             away == {[device |-> 0, contact |-> {e}] : e \in DOMAIN store.pairings \ front}
  <2>4. Drawn(store, inSight) = seen \union away
    BY DEF Drawn
  <2>5. \A q \in inSight : IF q = p THEN taken(q) = {c} ELSE c \notin taken(q)
    BY <1>1, <2>2, <2>3, SeenIsKnown
  <2> HIDE DEF taken
  <2>6. c \in front <=> p \in inSight
    BY <2>5
  <2>7. \A r \in seen : r.contact \intersect {c} # {} <=>
          p \in inSight /\ r = [device |-> Device(p), contact |-> {c}]
    <3>1. ASSUME NEW q \in inSight
          PROVE  LET r == [device |-> Device(q), contact |-> taken(q)] IN
                 r.contact \intersect {c} # {} <=>
                   p \in inSight /\ r = [device |-> Device(p), contact |-> {c}]
      BY <2>5
    <3> QED BY <3>1
  <2>8. \A r \in away : r.contact \intersect {c} # {} <=>
          p \notin inSight /\ r = [device |-> 0, contact |-> {c}]
    BY <2>6
  <2>9. p \in inSight => [device |-> Device(p), contact |-> {c}] \in seen
    BY <2>5
  <2>10. p \notin inSight => [device |-> 0, contact |-> {c}] \in away
    BY <2>2, <2>6
  <2> HIDE DEF seen, away, front
  <2> DEFINE row == [device |-> IF p \in inSight THEN Device(p) ELSE 0, contact |-> {c}]
  <2>11. \A r \in seen \union away : r.contact \intersect {c} # {} => r = row
    BY <2>7, <2>8
  <2>12. row \in seen \union away /\ row.contact \intersect {c} # {}
    BY <2>9, <2>10
  <2> HIDE DEF row
  <2>13. {r \in seen \union away : r.contact \intersect {c} # {}} = {row}
    BY <2>11, <2>12
  <2> QED BY <2>3, <2>4, <2>13 DEF row
<1> QED BY <1>1, ContactsInvHolds, PTL
=============================================================================
