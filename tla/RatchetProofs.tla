---------------------------- MODULE RatchetProofs ----------------------------
(***************************************************************************)
(* Proofs about RatchetPair, for every value of its limits: the types, the *)
(* agreement of the two stores of kept keys, one message per key, no       *)
(* replay and forward secrecy from the invariant IInv, that no message is  *)
(* lost from the stronger LossInv, and that a stored ratchet reads back.   *)
(*                                                                         *)
(* First what each operation does to a ratchet, field by field; then, per  *)
(* action, that IInv is kept, and its theorems; then the same for LossInv; *)
(* and last the layout of a stored ratchet.                                *)
(***************************************************************************)
EXTENDS MCRatchetPair, SequenceTheorems, FiniteSetTheorems, TLAPS

(* There are two sides, each the other's peer. *)
LEMMA PeerFacts == /\ Party = {0, 1}
                   /\ \A p \in Party : Peer(p) \in Party /\ Peer(p) # p
                   /\ \A p, q \in Party : q # p => q = Peer(p)
  BY DEF Party, Peer

(* One message is sealed: the sending chain steps, and nothing else moves. *)
LEMMA EncryptFields ==
  ASSUME NEW r, IsRatchet(r), CanSend(r)
  PROVE  LET q == AfterEncrypt(r) IN
         /\ IsRatchet(q)
         /\ q.sending = [seed |-> r.sending.seed, step |-> r.sending.step + 1]
         /\ q.sent = r.sent + 1
         /\ q.root = r.root /\ q.ours = r.ours /\ q.theirs = r.theirs
         /\ q.receiving = r.receiving /\ q.received = r.received
         /\ q.previous_chain_len = r.previous_chain_len
         /\ q.skipped = r.skipped /\ q.skipped_order = r.skipped_order
<1> DEFINE q == AfterEncrypt(r)
<1>1. r.sending \in Chain
  BY DEF IsRatchet, CanSend
<1>2. KdfChain(r.sending) = [seed |-> r.sending.seed, step |-> r.sending.step + 1]
  BY <1>1 DEF Chain, KdfChain
<1>3. KdfChain(r.sending) \in Chain
  BY <1>1, <1>2 DEF Chain
<1>4. /\ DOMAIN q = DOMAIN r
      /\ q.sending = KdfChain(r.sending) /\ q.sent = r.sent + 1
      /\ q.root = r.root /\ q.ours = r.ours /\ q.theirs = r.theirs
      /\ q.receiving = r.receiving /\ q.received = r.received
      /\ q.previous_chain_len = r.previous_chain_len
      /\ q.skipped = r.skipped /\ q.skipped_order = r.skipped_order
  BY DEF IsRatchet, AfterEncrypt
<1>5. IsRatchet(q)
  BY <1>3, <1>4 DEF IsRatchet
<1> QED BY <1>2, <1>4, <1>5

(* Every slot held before or walked is held after, unless they are more    *)
(* than there is room for.                                                 *)
Keeps(r, walked, q) ==
  LET had == DOMAIN r.skipped \cup walked
  IN /\ IsFiniteSet(had)
     /\ Cardinality(had) <= MaxSkippedKeys => had \subseteq DOMAIN q.skipped

(* What keeping walked keys leaves of a ratchet. *)
Remembered(r, keys, q) ==
   /\ IsRatchet(q) /\ SlotsAgree(q)
   /\ q.root = r.root /\ q.ours = r.ours /\ q.theirs = r.theirs
   /\ q.sending = r.sending /\ q.receiving = r.receiving
   /\ q.sent = r.sent /\ q.received = r.received
   /\ q.previous_chain_len = r.previous_chain_len
   /\ DOMAIN q.skipped \subseteq DOMAIN r.skipped \cup DOMAIN keys
   /\ \A s \in DOMAIN q.skipped :
          q.skipped[s] = IF s \in DOMAIN keys THEN keys[s]
                                              ELSE r.skipped[s]
   /\ Keeps(r, DOMAIN keys, q)

(* Keeping walked keys: what stays is among what was held and what was     *)
(* walked, all of it if there is room, each slot with its own key, listed  *)
(* once and within the bound.                                              *)
LEMMA RememberFields ==
  ASSUME NEW r, IsRatchet(r), SlotsAgree(r),
         NEW slots \in Seq(Slot), NEW keys,
         DOMAIN keys = Held(slots),
         \A s \in DOMAIN keys : keys[s] \in Chain,
         \A i, j \in DOMAIN slots : slots[i] = slots[j] => i = j,
         DOMAIN keys \cap DOMAIN r.skipped = {}
  PROVE  Remembered(r, keys, RememberSkipped(r, slots, keys))
<1> DEFINE both  == r.skipped_order \o slots
           order == Newest(both)
           from  == IF Len(both) > MaxSkippedKeys
                    THEN Len(both) - MaxSkippedKeys ELSE 0
           q     == RememberSkipped(r, slots, keys)
           map   == [s \in Held(order) |-> IF s \in DOMAIN keys
                                           THEN keys[s] ELSE r.skipped[s]]
<1>1. r.skipped_order \in Seq(Slot) /\ both \in Seq(Slot)
  BY DEF IsRatchet
<1>2. /\ Len(both) = Len(r.skipped_order) + Len(slots)
      /\ \A i \in 1..Len(both) :
            both[i] = IF i <= Len(r.skipped_order) THEN r.skipped_order[i]
                      ELSE slots[i - Len(r.skipped_order)]
  BY <1>1, ConcatProperties
<1>3. \A i \in 1..Len(both) : both[i] \in DOMAIN r.skipped \cup DOMAIN keys
  BY <1>1, <1>2 DEF SlotsAgree, Held
<1>4. \A i, j \in 1..Len(both) : both[i] = both[j] => i = j
  <2> DEFINE n == Len(r.skipped_order)
  <2>1. n \in Nat /\ Len(slots) \in Nat
    BY <1>1
  <2>2. \A i \in 1..Len(both) : IF i <= n THEN both[i] \in DOMAIN r.skipped
                                         ELSE both[i] \in DOMAIN keys
    BY <1>1, <1>2, <2>1 DEF SlotsAgree, Held
  <2>3. \A i, j \in 1..n : both[i] = both[j] => i = j
    BY <1>1, <1>2, <2>1 DEF SlotsAgree
  <2>4. \A i, j \in (n + 1)..Len(both) : both[i] = both[j] => i = j
    <3> SUFFICES ASSUME NEW i \in (n + 1)..Len(both), NEW j \in (n + 1)..Len(both),
                        both[i] = both[j]
                 PROVE  i = j
      OBVIOUS
    <3>1. i - n \in DOMAIN slots /\ j - n \in DOMAIN slots
      BY <1>2, <2>1
    <3>2. slots[i - n] = slots[j - n]
      BY <1>2, <2>1
    <3> QED BY <2>1, <3>1, <3>2
  <2> HIDE DEF both, n
  <2> QED BY <1>1, <2>1, <2>2, <2>3, <2>4
<1>5. /\ from \in Nat /\ from <= Len(both)
      /\ Len(both) - from <= MaxSkippedKeys
  BY <1>1, LimitsAssumption
<1>6. /\ order \in Seq(Slot) /\ Len(order) = Len(both) - from
      /\ \A i \in 1..Len(order) : order[i] = both[from + i]
  <2>1. order = SubSeq(both, from + 1, Len(both))
    BY DEF Newest
  <2> HIDE DEF both, order, from
  <2>2. /\ from + 1 \in 1..(Len(both) + 1) /\ Len(both) \in from..Len(both)
        /\ Len(both) \in Nat
    BY <1>1, <1>5
  <2>3. /\ order \in Seq(Slot)
        /\ Len(order) = IF from + 1 <= Len(both) THEN Len(both) - (from + 1) + 1
                        ELSE 0
        /\ \A i \in 1..(Len(both) - (from + 1) + 1) :
              order[i] = both[from + 1 + i - 1]
    BY <1>1, <2>1, <2>2, SubSeqProperties
  <2> QED BY <1>1, <1>5, <2>2, <2>3
<1>7. /\ Held(order) \subseteq DOMAIN r.skipped \cup DOMAIN keys
      /\ \A i, j \in DOMAIN order : order[i] = order[j] => i = j
      /\ Len(order) <= MaxSkippedKeys
  <2> HIDE DEF both, order, from
  <2>1. DOMAIN order = 1..Len(order) /\ Len(both) \in Nat
    BY <1>1, <1>6
  <2>2. \A i \in DOMAIN order : from + i \in 1..Len(both)
    BY <1>5, <1>6, <2>1
  <2>3. Held(order) \subseteq DOMAIN r.skipped \cup DOMAIN keys
    BY <1>3, <1>6, <2>1, <2>2 DEF Held
  <2>4. \A i, j \in DOMAIN order : order[i] = order[j] => i = j
    BY <1>4, <1>5, <1>6, <2>1, <2>2
  <2> QED BY <1>5, <1>6, <2>3, <2>4
<1>8. /\ DOMAIN q = DOMAIN r
      /\ q.skipped_order = order /\ q.skipped = map
      /\ q.root = r.root /\ q.ours = r.ours /\ q.theirs = r.theirs
      /\ q.sending = r.sending /\ q.receiving = r.receiving
      /\ q.sent = r.sent /\ q.received = r.received
      /\ q.previous_chain_len = r.previous_chain_len
  BY DEF IsRatchet, RememberSkipped
<1>9. SlotsAgree(q)
  BY <1>7, <1>8 DEF SlotsAgree
<1>10. \A s \in Held(order) : s \in Slot /\ map[s] \in Chain
  BY <1>6, <1>7 DEF IsRatchet, Held
<1>11. IsRatchet(q)
  BY <1>6, <1>8, <1>10 DEF IsRatchet
<1> DEFINE had == DOMAIN r.skipped \cup DOMAIN keys
<1>12. had \subseteq {both[i] : i \in 1..Len(both)}
  <2>1. Len(r.skipped_order) \in Nat /\ Len(slots) \in Nat
    BY <1>1
  <2>2. ASSUME NEW s \in DOMAIN r.skipped
        PROVE  \E i \in 1..Len(both) : both[i] = s
    <3>1. PICK i \in 1..Len(r.skipped_order) : r.skipped_order[i] = s
      BY <1>1 DEF SlotsAgree, Held
    <3>2. i \in 1..Len(both) /\ both[i] = s
      BY <1>2, <2>1, <3>1
    <3> QED BY <3>2
  <2>3. ASSUME NEW s \in DOMAIN keys
        PROVE  \E i \in 1..Len(both) : both[i] = s
    <3>1. PICK j \in 1..Len(slots) : slots[j] = s
      BY DEF Held
    <3> DEFINE i == Len(r.skipped_order) + j
    <3>2. i \in 1..Len(both) /\ both[i] = s
      BY <1>2, <2>1, <3>1
    <3> QED BY <3>2
  <2> HIDE DEF both
  <2> QED BY <2>2, <2>3
<1>13. IsFiniteSet(had) /\ Cardinality(had) = Len(both)
  <2> HIDE DEF both, had
  <2>1. Len(both) \in Nat
    BY <1>1
  <2> DEFINE f == [i \in 1..Len(both) |-> both[i]]
  <2>2. f \in Bijection(1..Len(both), had)
    <3>1. f \in [1..Len(both) -> had]
      BY <1>3 DEF had
    <3>2. \A i, j \in 1..Len(both) : f[i] = f[j] => i = j
      BY <1>4
    <3>3. \A s \in had : \E i \in 1..Len(both) : f[i] = s
      BY <1>12
    <3> QED BY <3>1, <3>2, <3>3 DEF Bijection, Injection, Surjection, IsInjective
  <2>3. /\ IsFiniteSet(1..Len(both))
        /\ Cardinality(1..Len(both)) = Len(both)
    <3> DEFINE n == Len(both)
    <3>1. n \in Nat
      BY <2>1
    <3> HIDE DEF n
    <3>2. 1 \in Int /\ n \in Int
      BY <3>1
    <3>3. /\ IsFiniteSet(1..n)
          /\ Cardinality(1..n) = IF 1 > n THEN 0 ELSE n - 1 + 1
      BY <3>2, FS_Interval
    <3>4. (IF 1 > n THEN 0 ELSE n - 1 + 1) = n
      BY <3>1
    <3>5. IsFiniteSet(1..n) /\ Cardinality(1..n) = n
      BY <3>3, <3>4
    <3> QED BY <3>5 DEF n
  <2> HIDE DEF f
  <2> QED BY <2>2, <2>3, FS_Bijection DEF ExistsBijection
<1>14. Len(both) <= MaxSkippedKeys => had \subseteq Held(order)
  <2> SUFFICES ASSUME Len(both) <= MaxSkippedKeys, NEW i \in 1..Len(both)
               PROVE  both[i] \in Held(order)
    BY <1>12
  <2>1. from = 0
    BY <1>1, LimitsAssumption
  <2> HIDE DEF both, order, from
  <2>2. Len(order) = Len(both) /\ order[i] = both[i] /\ i \in DOMAIN order
    BY <1>1, <1>6, <2>1
  <2> QED BY <2>2 DEF Held
<1>15. Keeps(r, DOMAIN keys, q)
  <2>1. DOMAIN q.skipped = Held(order)
    BY <1>8
  <2> HIDE DEF both, order, q
  <2> QED BY <1>13, <1>14, <2>1 DEF Keeps
<1> HIDE DEF map, order
<1> QED BY <1>7, <1>8, <1>9, <1>11, <1>15 DEF map, Remembered

(* A key taken out of the store leaves the others where they were. *)
LEMMA ForgetFields ==
  ASSUME NEW r, IsRatchet(r), SlotsAgree(r), NEW slot \in DOMAIN r.skipped
  PROVE  LET q == ForgetSkipped(r, slot) IN
         /\ IsRatchet(q) /\ SlotsAgree(q)
         /\ q.root = r.root /\ q.ours = r.ours /\ q.theirs = r.theirs
         /\ q.sending = r.sending /\ q.receiving = r.receiving
         /\ q.sent = r.sent /\ q.received = r.received
         /\ q.previous_chain_len = r.previous_chain_len
         /\ DOMAIN q.skipped = DOMAIN r.skipped \ {slot}
         /\ \A s \in DOMAIN q.skipped : q.skipped[s] = r.skipped[s]
<1> DEFINE old == r.skipped_order
           n   == Len(old)
           at  == CHOOSE i \in DOMAIN old : old[i] = slot
           new == [i \in 1..(n - 1) |-> old[IF i < at THEN i ELSE i + 1]]
           map == [s \in DOMAIN r.skipped \ {slot} |-> r.skipped[s]]
           q   == ForgetSkipped(r, slot)
<1>1. old \in Seq(Slot) /\ n \in Nat /\ DOMAIN old = 1..n
  BY DEF IsRatchet
<1>2. at \in 1..n /\ old[at] = slot
  BY <1>1 DEF SlotsAgree, Held
<1>3. \A i \in 1..n : i # at => old[i] # slot
  BY <1>1, <1>2 DEF SlotsAgree
<1> HIDE DEF at
<1>4. /\ new \in Seq(Slot) /\ Len(new) = n - 1 /\ DOMAIN new = 1..(n - 1)
      /\ \A i \in 1..(n - 1) : new[i] = IF i < at THEN old[i] ELSE old[i + 1]
  <2>1. n - 1 \in Nat
    BY <1>1, <1>2
  <2>2. \A i \in 1..(n - 1) : old[IF i < at THEN i ELSE i + 1] \in Slot
    BY <1>1, <1>2
  <2>3. new \in [1..(n - 1) -> Slot]
    BY <2>2
  <2>4. new \in Seq(Slot) /\ Len(new) = n - 1
    BY <2>1, <2>3
  <2> QED BY <2>3, <2>4
<1>5. \A i, j \in DOMAIN new : new[i] = new[j] => i = j
  <2> SUFFICES ASSUME NEW i \in 1..(n - 1), NEW j \in 1..(n - 1), new[i] = new[j]
               PROVE  i = j
    BY <1>4
  <2> DEFINE u == IF i < at THEN i ELSE i + 1
             v == IF j < at THEN j ELSE j + 1
  <2>1. u \in 1..n /\ v \in 1..n /\ old[u] = old[v]
    BY <1>1, <1>2, <1>4
  <2>2. u = v
    BY <1>1, <2>1 DEF SlotsAgree
  <2> QED BY <1>1, <1>2, <2>2
<1>6. Held(new) = DOMAIN r.skipped \ {slot}
  <2>1. Held(new) \subseteq DOMAIN r.skipped \ {slot}
    <3> SUFFICES ASSUME NEW i \in 1..(n - 1)
                 PROVE  new[i] \in DOMAIN r.skipped /\ new[i] # slot
      BY <1>4 DEF Held
    <3> DEFINE u == IF i < at THEN i ELSE i + 1
    <3>1. u \in 1..n /\ u # at /\ new[i] = old[u]
      BY <1>1, <1>2, <1>4
    <3> QED BY <1>1, <1>3, <3>1 DEF SlotsAgree, Held
  <2>2. ASSUME NEW s \in DOMAIN r.skipped, s # slot
        PROVE  s \in Held(new)
    <3>1. PICK k \in 1..n : old[k] = s
      BY <1>1 DEF SlotsAgree, Held
    <3>2. k # at
      BY <1>2, <2>2, <3>1
    <3>3. CASE k < at
      <4>1. k \in 1..(n - 1) /\ new[k] = s
        BY <1>1, <1>2, <1>4, <3>1, <3>3
      <4> QED BY <1>4, <4>1 DEF Held
    <3>4. CASE k > at
      <4>1. k - 1 \in 1..(n - 1) /\ new[k - 1] = s
        BY <1>1, <1>2, <1>4, <3>1, <3>4
      <4> QED BY <1>4, <4>1 DEF Held
    <3> QED BY <1>1, <1>2, <3>2, <3>3, <3>4
  <2> QED BY <2>1, <2>2
<1>7. /\ DOMAIN q = DOMAIN r
      /\ q.skipped_order = new /\ q.skipped = map
      /\ q.root = r.root /\ q.ours = r.ours /\ q.theirs = r.theirs
      /\ q.sending = r.sending /\ q.receiving = r.receiving
      /\ q.sent = r.sent /\ q.received = r.received
      /\ q.previous_chain_len = r.previous_chain_len
  BY DEF IsRatchet, ForgetSkipped, at
<1> HIDE DEF new
<1>8. SlotsAgree(q)
  BY <1>1, <1>4, <1>5, <1>6, <1>7, LimitsAssumption DEF SlotsAgree
<1>9. IsRatchet(q)
  BY <1>4, <1>7 DEF IsRatchet
<1> QED BY <1>7, <1>8, <1>9

(* What a walk of chain from one number to another steps over, and where it *)
(* leaves the chain.                                                       *)
Walk(chain, dh, from, until) ==
  LET slots == WalkedSlots(dh, from, until)
      keys  == WalkedKeys(chain, dh, from, until)
  IN /\ slots \in Seq(Slot)
     /\ \A i, j \in DOMAIN slots : slots[i] = slots[j] => i = j
     /\ DOMAIN keys = Held(slots)
     /\ DOMAIN keys = {dh} \X (from..(until - 1))
     /\ \A s \in DOMAIN keys :
            /\ s[1] = dh /\ s[2] \in from..(until - 1)
            /\ keys[s] \in Chain
            /\ keys[s] = [seed |-> chain.seed,
                          step |-> chain.step + (s[2] - from)]
     /\ StepsTo(from, until) \in Nat
     /\ KdfChain(WalkedChain(chain, from, until))
          = [seed |-> chain.seed,
             step |-> chain.step + StepsTo(from, until) + 1]
     /\ WalkedChain(chain, from, until)
          = [seed |-> chain.seed, step |-> chain.step + StepsTo(from, until)]

(* A walk names each slot once, and gives it the key of its own step. *)
LEMMA WalkFacts ==
  ASSUME NEW chain \in Chain, NEW dh \in PublicKey,
         NEW from \in Nat, NEW until \in Nat
  PROVE  Walk(chain, dh, from, until)
<1> DEFINE n     == StepsTo(from, until)
           slots == WalkedSlots(dh, from, until)
           keys  == WalkedKeys(chain, dh, from, until)
<1>1. n \in Nat /\ n = IF until > from THEN until - from ELSE 0
  BY DEF StepsTo
<1>2. /\ DOMAIN slots = 1..n
      /\ \A i \in 1..n : slots[i] = <<dh, from + i - 1>> /\ slots[i] \in Slot
  BY <1>1 DEF WalkedSlots, Slot
<1>3. slots \in Seq(Slot)
  <2>1. slots \in [1..n -> Slot]
    BY <1>2 DEF WalkedSlots
  <2> QED BY <1>1, <2>1
<1>4. \A i, j \in DOMAIN slots : slots[i] = slots[j] => i = j
  BY <1>1, <1>2
<1>5. /\ DOMAIN keys = {dh} \X (from..(until - 1))
      /\ \A s \in DOMAIN keys :
            keys[s] = [chain EXCEPT !.step = chain.step + (s[2] - from)]
  BY DEF WalkedKeys
<1>6. DOMAIN keys = Held(slots)
  <2>1. ASSUME NEW s \in DOMAIN keys PROVE s \in Held(slots)
    <3>1. PICK k \in from..(until - 1) : s = <<dh, k>>
      BY <1>5
    <3>2. k - from + 1 \in 1..n /\ slots[k - from + 1] = s
      BY <1>1, <1>2, <3>1
    <3> QED BY <1>2, <3>2 DEF Held
  <2>2. ASSUME NEW i \in 1..n PROVE slots[i] \in DOMAIN keys
    <3>1. from + i - 1 \in from..(until - 1)
      BY <1>1
    <3>2. slots[i] = <<dh, from + i - 1>>
      BY <1>2
    <3>3. <<dh, from + i - 1>> \in {dh} \X (from..(until - 1))
      BY <3>1
    <3> QED BY <1>5, <3>2, <3>3
  <2> QED BY <1>2, <2>1, <2>2 DEF Held
<1>7. ASSUME NEW s \in DOMAIN keys
      PROVE  /\ s[1] = dh /\ s[2] \in from..(until - 1)
             /\ keys[s] \in Chain
             /\ keys[s] = [seed |-> chain.seed,
                           step |-> chain.step + (s[2] - from)]
  <2>1. s[1] = dh /\ s[2] \in from..(until - 1)
    BY <1>5
  <2>2. keys[s] = [seed |-> chain.seed, step |-> chain.step + (s[2] - from)]
    BY <1>5 DEF Chain
  <2>3. chain.step + (s[2] - from) \in Nat
    BY <2>1 DEF Chain
  <2> QED BY <2>1, <2>2, <2>3 DEF Chain
<1>8. WalkedChain(chain, from, until)
         = [seed |-> chain.seed, step |-> chain.step + n]
  BY DEF WalkedChain, Chain
<1>9. KdfChain(WalkedChain(chain, from, until))
         = [seed |-> chain.seed, step |-> chain.step + n + 1]
  BY <1>8 DEF KdfChain
<1> QED BY <1>1, <1>3, <1>4, <1>5, <1>6, <1>7, <1>8, <1>9 DEF Walk

(* A message opened on the chain in hand. *)
LEMMA OnChainFields ==
  ASSUME NEW r, IsRatchet(r), SlotsAgree(r), NEW header \in Header,
         OnChain(r, header), r.receiving \in Chain,
         r.receiving.step = r.received,
         \A s \in DOMAIN r.skipped : s[1] = r.theirs => s[2] < r.received
  PROVE  LET q == AfterOnChain(r, header) IN
         /\ IsRatchet(q) /\ SlotsAgree(q)
         /\ q.root = r.root /\ q.ours = r.ours /\ q.theirs = r.theirs
         /\ q.sending = r.sending /\ q.sent = r.sent
         /\ q.previous_chain_len = r.previous_chain_len
         /\ q.received = r.received + StepsTo(r.received, header.number) + 1
         /\ q.received > r.received
         /\ q.receiving = [seed |-> r.receiving.seed, step |-> q.received]
         /\ \A s \in DOMAIN q.skipped :
               \/ s \in DOMAIN r.skipped /\ q.skipped[s] = r.skipped[s]
               \/ /\ s[1] = r.theirs
                  /\ s[2] \in r.received..(header.number - 1)
                  /\ q.skipped[s] = [seed |-> r.receiving.seed, step |-> s[2]]
         /\ Keeps(r, {header.dh} \X (r.received..(header.number - 1)), q)
<1> DEFINE slots == WalkedSlots(header.dh, r.received, header.number)
           keys  == WalkedKeys(r.receiving, header.dh, r.received, header.number)
           kept  == RememberSkipped(r, slots, keys)
           next  == KdfChain(WalkedChain(r.receiving, r.received, header.number))
           steps == StepsTo(r.received, header.number)
           q     == AfterOnChain(r, header)
<1>1. /\ header.dh \in PublicKey /\ header.number \in Nat
      /\ r.received \in Nat /\ header.dh = r.theirs
  BY DEF IsRatchet, Header, OnChain
<1>2. /\ slots \in Seq(Slot)
      /\ \A i, j \in DOMAIN slots : slots[i] = slots[j] => i = j
      /\ DOMAIN keys = Held(slots)
      /\ \A s \in DOMAIN keys :
             /\ s[1] = header.dh /\ s[2] \in r.received..(header.number - 1)
             /\ keys[s] \in Chain
             /\ keys[s] = [seed |-> r.receiving.seed,
                           step |-> r.receiving.step + (s[2] - r.received)]
      /\ steps \in Nat
      /\ next = [seed |-> r.receiving.seed,
                 step |-> r.receiving.step + steps + 1]
      /\ DOMAIN keys = {header.dh} \X (r.received..(header.number - 1))
  <2>1. Walk(r.receiving, header.dh, r.received, header.number)
    BY <1>1, WalkFacts
  <2> QED BY <2>1 DEF Walk
<1> HIDE DEF slots, keys, next, steps
<1>3. DOMAIN keys \cap DOMAIN r.skipped = {}
  BY <1>1, <1>2
<1>4. \A s \in DOMAIN keys :
         keys[s] = [seed |-> r.receiving.seed, step |-> s[2]]
  BY <1>1, <1>2
<1>5. /\ IsRatchet(kept) /\ SlotsAgree(kept)
      /\ kept.root = r.root /\ kept.ours = r.ours /\ kept.theirs = r.theirs
      /\ kept.sending = r.sending /\ kept.receiving = r.receiving
      /\ kept.sent = r.sent /\ kept.received = r.received
      /\ kept.previous_chain_len = r.previous_chain_len
      /\ DOMAIN kept.skipped \subseteq DOMAIN r.skipped \cup DOMAIN keys
      /\ \A s \in DOMAIN kept.skipped :
             kept.skipped[s] = IF s \in DOMAIN keys THEN keys[s]
                                                    ELSE r.skipped[s]
      /\ Keeps(r, DOMAIN keys, kept)
  <2>1. Remembered(r, keys, kept)
    BY <1>2, <1>3, RememberFields
  <2> QED BY <2>1 DEF Remembered
<1> HIDE DEF kept
<1>6. q = [kept EXCEPT !.receiving =
                  KdfChain(WalkedChain(kept.receiving, r.received, header.number)),
                       !.received = kept.received + steps + 1]
  BY DEF AfterOnChain, kept, slots, keys, steps
<1>7. /\ DOMAIN q = DOMAIN kept
      /\ q.receiving = next /\ q.received = r.received + steps + 1
      /\ q.root = r.root /\ q.ours = r.ours /\ q.theirs = r.theirs
      /\ q.sending = r.sending /\ q.sent = r.sent
      /\ q.previous_chain_len = r.previous_chain_len
      /\ q.skipped = kept.skipped /\ q.skipped_order = kept.skipped_order
  BY <1>5, <1>6 DEF IsRatchet, next
<1>8. next \in Chain /\ q.received \in Nat
  BY <1>1, <1>2, <1>7 DEF Chain
<1> HIDE DEF q
<1>9. IsRatchet(q)
  BY <1>5, <1>7, <1>8 DEF IsRatchet
<1>10. SlotsAgree(q)
  BY <1>5, <1>7 DEF SlotsAgree
<1>11. \A s \in DOMAIN q.skipped :
          \/ s \in DOMAIN r.skipped /\ q.skipped[s] = r.skipped[s]
          \/ /\ s[1] = r.theirs
             /\ s[2] \in r.received..(header.number - 1)
             /\ q.skipped[s] = [seed |-> r.receiving.seed, step |-> s[2]]
  BY <1>1, <1>2, <1>4, <1>5, <1>7
<1>12. q.received > r.received /\ next.step = q.received
  BY <1>1, <1>2, <1>7
<1>13. Keeps(r, {header.dh} \X (r.received..(header.number - 1)), q)
  BY <1>2, <1>5, <1>7 DEF Keeps
<1> QED BY <1>2, <1>7, <1>9, <1>10, <1>11, <1>12, <1>13 DEF q, steps

(* The slots a turn walks: the new chain's up to the message, and the rest *)
(* of the old one's.                                                       *)
LeftBehind(r, header) ==
  ({header.dh} \X (0..(header.number - 1)))
  \cup IF r.receiving = None THEN {}
       ELSE {r.theirs} \X (r.received..(header.previous_chain_len - 1))

(* A message that turns the ratchet: both roots of the turn, the rest of   *)
(* the old chain kept, and the new one walked to the message.              *)
Turned(r, header, fresh, q) ==
  LET receiving == TurnReceiving(r, header.dh)
      sending   == KdfRoot(receiving, DiffieHellman(fresh, header.dh))
  IN /\ IsRatchet(q) /\ SlotsAgree(q)
     /\ receiving \in Root /\ Len(receiving) = Len(r.root) + 1
     /\ q.root = sending /\ Len(sending) = Len(r.root) + 2
     /\ q.sending = [seed |-> sending, step |-> 0] /\ q.sent = 0
     /\ q.ours = fresh /\ q.theirs = header.dh
     /\ q.previous_chain_len = r.sent
     /\ q.received = header.number + 1
     /\ q.receiving = [seed |-> receiving, step |-> header.number + 1]
     /\ \A s \in DOMAIN q.skipped :
           \/ s \in DOMAIN r.skipped /\ q.skipped[s] = r.skipped[s]
           \/ /\ r.receiving # None
              /\ s[1] = r.theirs
              /\ s[2] \in r.received..(header.previous_chain_len - 1)
              /\ q.skipped[s] = [seed |-> r.receiving.seed, step |-> s[2]]
           \/ /\ s[1] = header.dh
              /\ s[2] \in 0..(header.number - 1)
              /\ q.skipped[s] = [seed |-> receiving, step |-> s[2]]
     /\ Keeps(r, LeftBehind(r, header), q)

(* A turn does just that, for a key of the peer's that no slot names. *)
LEMMA TurnFields ==
  ASSUME NEW r, IsRatchet(r), SlotsAgree(r), NEW header \in Header,
         NEW fresh \in PublicKey, r.theirs # header.dh,
         r.receiving = None => DOMAIN r.skipped = {},
         r.receiving # None => r.theirs # None /\ r.receiving.step = r.received,
         \A s \in DOMAIN r.skipped : s[1] = r.theirs => s[2] < r.received,
         \A s \in DOMAIN r.skipped : s[1] # header.dh
  PROVE  Turned(r, header, fresh, AfterTurn(r, header, fresh))
<1> DEFINE receiving == TurnReceiving(r, header.dh)
           sending   == KdfRoot(receiving, DiffieHellman(fresh, header.dh))
           turned    == CommitTurn(r, header.dh, fresh)
           pcl       == header.previous_chain_len
           oldSlots  == WalkedSlots(r.theirs, r.received, pcl)
           oldKeys   == WalkedKeys(r.receiving, r.theirs, r.received, pcl)
           keptOld   == IF r.receiving = None THEN turned
                        ELSE RememberSkipped(turned, oldSlots, oldKeys)
           newSlots  == WalkedSlots(header.dh, 0, header.number)
           newKeys   == WalkedKeys(turned.receiving, header.dh, 0, header.number)
           keptNew   == RememberSkipped(keptOld, newSlots, newKeys)
           q         == AfterTurn(r, header, fresh)
<1>1. /\ header.dh \in PublicKey /\ header.number \in Nat /\ pcl \in Nat
      /\ r.received \in Nat /\ r.root \in Root /\ r.ours \in PublicKey
  BY DEF IsRatchet, Header
<1>2. /\ receiving \in Root /\ Len(receiving) = Len(r.root) + 1
      /\ sending \in Root /\ Len(sending) = Len(r.root) + 2
  <2>1. receiving = Append(r.root, {r.ours, header.dh})
    BY DEF TurnReceiving, KdfRoot, DiffieHellman
  <2>2. sending = Append(receiving, {fresh, header.dh})
    BY DEF KdfRoot, DiffieHellman
  <2> HIDE DEF receiving, sending
  <2> QED BY <1>1, <2>1, <2>2 DEF Root
<1>3. /\ DOMAIN turned = DOMAIN r
      /\ turned.root = sending /\ turned.ours = fresh
      /\ turned.theirs = header.dh
      /\ turned.receiving = [seed |-> receiving, step |-> 0]
      /\ turned.sending = [seed |-> sending, step |-> 0]
      /\ turned.sent = 0 /\ turned.received = 0
      /\ turned.previous_chain_len = r.sent
      /\ turned.skipped = r.skipped /\ turned.skipped_order = r.skipped_order
  BY DEF IsRatchet, CommitTurn, ChainFrom
<1> HIDE DEF receiving, sending, turned
<1>4. turned.receiving \in Chain /\ turned.sending \in Chain
  BY <1>2, <1>3 DEF Chain
<1>5. IsRatchet(turned) /\ SlotsAgree(turned)
  <2>1. IsRatchet(turned)
    BY <1>1, <1>2, <1>3, <1>4 DEF IsRatchet
  <2> QED BY <1>3, <2>1 DEF SlotsAgree
<1> DEFINE oldWalk == IF r.receiving = None THEN {}
                      ELSE {r.theirs} \X (r.received..(pcl - 1))
<1> DEFINE OldOnly(k) ==
              /\ IsRatchet(k) /\ SlotsAgree(k)
              /\ k.root = sending /\ k.ours = fresh /\ k.theirs = header.dh
              /\ k.sending = turned.sending /\ k.receiving = turned.receiving
              /\ k.sent = 0 /\ k.received = 0 /\ k.previous_chain_len = r.sent
              /\ \A s \in DOMAIN k.skipped :
                    \/ s \in DOMAIN r.skipped /\ k.skipped[s] = r.skipped[s]
                    \/ /\ r.receiving # None
                       /\ s[1] = r.theirs /\ s[2] \in r.received..(pcl - 1)
                       /\ k.skipped[s] = [seed |-> r.receiving.seed, step |-> s[2]]
              /\ DOMAIN k.skipped \subseteq DOMAIN r.skipped \cup oldWalk
              /\ Keeps(r, oldWalk, k)
<1>6. OldOnly(keptOld)
  <2>1. CASE r.receiving = None
    <3>1. DOMAIN r.skipped = {} /\ oldWalk = {} /\ keptOld = turned
      BY <2>1
    <3>2. Keeps(r, oldWalk, keptOld)
      BY <3>1, FS_EmptySet DEF Keeps
    <3> HIDE DEF oldWalk, keptOld
    <3> QED BY <1>3, <1>5, <2>1, <3>1, <3>2
  <2>2. CASE r.receiving # None
    <3>1. r.receiving \in Chain /\ r.theirs \in PublicKey
      BY <2>2 DEF IsRatchet
    <3>2. Walk(r.receiving, r.theirs, r.received, pcl)
      BY <1>1, <3>1, WalkFacts
    <3>3. /\ oldSlots \in Seq(Slot)
          /\ \A i, j \in DOMAIN oldSlots : oldSlots[i] = oldSlots[j] => i = j
          /\ DOMAIN oldKeys = Held(oldSlots)
          /\ \A s \in DOMAIN oldKeys :
                 /\ s[1] = r.theirs /\ s[2] \in r.received..(pcl - 1)
                 /\ oldKeys[s] \in Chain
                 /\ oldKeys[s] = [seed |-> r.receiving.seed,
                                  step |-> r.receiving.step + (s[2] - r.received)]
          /\ DOMAIN oldKeys = oldWalk
      BY <2>2, <3>2 DEF Walk
    <3>4. keptOld = RememberSkipped(turned, oldSlots, oldKeys)
      BY <2>2
    <3> HIDE DEF oldSlots, oldKeys, pcl, keptOld, oldWalk
    <3>5. \A s \in DOMAIN oldKeys :
             oldKeys[s] = [seed |-> r.receiving.seed, step |-> s[2]]
      BY <1>1, <2>2, <3>3
    <3>6. DOMAIN oldKeys \cap DOMAIN turned.skipped = {}
      BY <1>1, <1>3, <3>3
    <3>7. /\ IsRatchet(keptOld) /\ SlotsAgree(keptOld)
          /\ keptOld.root = turned.root /\ keptOld.ours = turned.ours
          /\ keptOld.theirs = turned.theirs
          /\ keptOld.sending = turned.sending
          /\ keptOld.receiving = turned.receiving
          /\ keptOld.sent = turned.sent /\ keptOld.received = turned.received
          /\ keptOld.previous_chain_len = turned.previous_chain_len
          /\ DOMAIN keptOld.skipped \subseteq DOMAIN turned.skipped \cup DOMAIN oldKeys
          /\ \A s \in DOMAIN keptOld.skipped :
                 keptOld.skipped[s] = IF s \in DOMAIN oldKeys THEN oldKeys[s]
                                      ELSE turned.skipped[s]
          /\ Keeps(turned, DOMAIN oldKeys, keptOld)
      <4>1. Remembered(turned, oldKeys, RememberSkipped(turned, oldSlots, oldKeys))
        BY <1>5, <3>3, <3>6, RememberFields
      <4> QED BY <3>4, <4>1 DEF Remembered
    <3>8. Keeps(r, oldWalk, keptOld)
      BY <1>3, <3>3, <3>7 DEF Keeps
    <3> QED BY <1>3, <2>2, <3>3, <3>5, <3>7, <3>8
  <2> QED BY <2>1, <2>2
<1> HIDE DEF keptOld, oldWalk
<1>7. Walk(turned.receiving, header.dh, 0, header.number)
  BY <1>1, <1>4, WalkFacts
<1>8. /\ newSlots \in Seq(Slot)
      /\ \A i, j \in DOMAIN newSlots : newSlots[i] = newSlots[j] => i = j
      /\ DOMAIN newKeys = Held(newSlots)
      /\ \A s \in DOMAIN newKeys :
             /\ s[1] = header.dh /\ s[2] \in 0..(header.number - 1)
             /\ newKeys[s] \in Chain
             /\ newKeys[s] = [seed |-> turned.receiving.seed,
                              step |-> turned.receiving.step + (s[2] - 0)]
      /\ DOMAIN newKeys = {header.dh} \X (0..(header.number - 1))
  BY <1>7 DEF Walk
<1> HIDE DEF newSlots, newKeys
<1>9. \A s \in DOMAIN newKeys :
         newKeys[s] = [seed |-> receiving, step |-> s[2]]
  BY <1>1, <1>3, <1>8
<1>10. DOMAIN newKeys \cap DOMAIN keptOld.skipped = {}
  BY <1>6, <1>8
<1>11. /\ IsRatchet(keptNew) /\ SlotsAgree(keptNew)
       /\ keptNew.root = keptOld.root /\ keptNew.ours = keptOld.ours
       /\ keptNew.theirs = keptOld.theirs
       /\ keptNew.sending = keptOld.sending
       /\ keptNew.receiving = keptOld.receiving
       /\ keptNew.sent = keptOld.sent /\ keptNew.received = keptOld.received
       /\ keptNew.previous_chain_len = keptOld.previous_chain_len
       /\ DOMAIN keptNew.skipped \subseteq DOMAIN keptOld.skipped \cup DOMAIN newKeys
       /\ \A s \in DOMAIN keptNew.skipped :
              keptNew.skipped[s] = IF s \in DOMAIN newKeys THEN newKeys[s]
                                   ELSE keptOld.skipped[s]
       /\ Keeps(keptOld, DOMAIN newKeys, keptNew)
  <2>1. Remembered(keptOld, newKeys, keptNew)
    BY <1>6, <1>8, <1>10, RememberFields
  <2> QED BY <2>1 DEF Remembered
<1>12. KdfChain(WalkedChain(turned.receiving, 0, header.number))
          = [seed |-> receiving, step |-> header.number + 1]
  <2>1. StepsTo(0, header.number) = header.number
    BY <1>1 DEF StepsTo
  <2> QED BY <1>1, <1>3, <1>7, <2>1 DEF Walk
<1>13. q = [keptNew EXCEPT
              !.receiving = KdfChain(WalkedChain(keptNew.receiving, 0, header.number)),
              !.received = header.number + 1]
  BY DEF AfterTurn, keptNew, keptOld, newSlots, newKeys, turned
<1> HIDE DEF keptNew, q
<1>14. /\ DOMAIN q = DOMAIN keptNew
       /\ q.receiving = [seed |-> receiving, step |-> header.number + 1]
       /\ q.received = header.number + 1
       /\ q.root = sending /\ q.ours = fresh /\ q.theirs = header.dh
       /\ q.sending = turned.sending /\ q.sent = 0
       /\ q.previous_chain_len = r.sent
       /\ q.skipped = keptNew.skipped
       /\ q.skipped_order = keptNew.skipped_order
  BY <1>6, <1>11, <1>12, <1>13 DEF IsRatchet
<1>15. q.receiving \in Chain /\ q.received \in Nat
  BY <1>1, <1>2, <1>14 DEF Chain
<1>16. IsRatchet(q) /\ SlotsAgree(q)
  <2>1. IsRatchet(q)
    BY <1>1, <1>2, <1>4, <1>11, <1>14, <1>15 DEF IsRatchet
  <2> QED BY <1>11, <1>14, <2>1 DEF SlotsAgree
<1>17. \A s \in DOMAIN q.skipped :
          \/ s \in DOMAIN r.skipped /\ q.skipped[s] = r.skipped[s]
          \/ /\ r.receiving # None
             /\ s[1] = r.theirs /\ s[2] \in r.received..(pcl - 1)
             /\ q.skipped[s] = [seed |-> r.receiving.seed, step |-> s[2]]
          \/ /\ s[1] = header.dh /\ s[2] \in 0..(header.number - 1)
             /\ q.skipped[s] = [seed |-> receiving, step |-> s[2]]
  BY <1>6, <1>8, <1>9, <1>11, <1>14
<1>18. Keeps(r, LeftBehind(r, header), q)
  <2> DEFINE had == DOMAIN r.skipped \cup LeftBehind(r, header)
             one == DOMAIN r.skipped \cup oldWalk
             two == DOMAIN keptOld.skipped \cup DOMAIN newKeys
  <2>1. LeftBehind(r, header) = DOMAIN newKeys \cup oldWalk
    BY <1>8 DEF LeftBehind, oldWalk
  <2>2. /\ IsFiniteSet(one) /\ IsFiniteSet(two)
        /\ Cardinality(one) <= MaxSkippedKeys => one \subseteq DOMAIN keptOld.skipped
        /\ Cardinality(two) <= MaxSkippedKeys => two \subseteq DOMAIN q.skipped
        /\ DOMAIN keptOld.skipped \subseteq one
    BY <1>6, <1>11, <1>14 DEF Keeps
  <2>3. had = one \cup two
    BY <2>1, <2>2
  <2>4. IsFiniteSet(had)
    BY <2>2, <2>3, FS_Union
  <2>5. ASSUME Cardinality(had) <= MaxSkippedKeys
        PROVE  had \subseteq DOMAIN q.skipped
    <3> HIDE DEF had, one, two
    <3>1. /\ Cardinality(one) <= Cardinality(had)
          /\ Cardinality(two) <= Cardinality(had)
      BY <2>3, <2>4, FS_Subset
    <3>2. /\ Cardinality(one) \in Nat /\ Cardinality(two) \in Nat
          /\ Cardinality(had) \in Nat
      BY <2>2, <2>4, FS_CardinalityType
    <3>3. Cardinality(one) <= MaxSkippedKeys /\ Cardinality(two) <= MaxSkippedKeys
      BY <2>5, <3>1, <3>2, LimitsAssumption
    <3>4. one \subseteq DOMAIN keptOld.skipped /\ two \subseteq DOMAIN q.skipped
      BY <2>2, <3>3
    <3> QED BY <2>3, <3>4 DEF one, two
  <2> QED BY <2>4, <2>5 DEF Keeps
<1> QED BY <1>2, <1>3, <1>14, <1>16, <1>17, <1>18 DEF Turned, q, receiving, sending

(* A seed is one side's, and one turn on it is the other side's. *)
LEMMA OwnsFacts ==
  /\ \A p, q \in Party : \A seed : Owns(p, seed) /\ Owns(q, seed) => p = q
  /\ \A p \in Party : \A seed, longer \in Root :
        Len(longer) = Len(seed) + 1 => (Owns(p, seed) <=> Owns(Peer(p), longer))
<1>1. ASSUME NEW p \in Party, NEW q \in Party, NEW seed, Owns(p, seed), Owns(q, seed)
      PROVE  p = q
  <2> DEFINE n == Len(seed) % 2
  <2>1. n = 1 - p /\ n = 1 - q
    BY <1>1 DEF Owns
  <2> HIDE DEF n
  <2> QED BY <2>1 DEF Party
<1>2. ASSUME NEW p \in Party, NEW seed \in Root, NEW longer \in Root,
             Len(longer) = Len(seed) + 1
      PROVE  Owns(p, seed) <=> Owns(Peer(p), longer)
  <2>1. \A n \in Nat : (n % 2 = 1 - p) <=> ((n + 1) % 2 = 1 - (1 - p))
    BY DEF Party
  <2>2. Len(seed) \in Nat
    BY DEF Root
  <2>3. (Len(seed) % 2 = 1 - p) <=> ((Len(seed) + 1) % 2 = 1 - (1 - p))
    BY <2>1, <2>2
  <2> QED BY <1>2, <2>3 DEF Owns, Peer
<1> QED BY <1>1, <1>2

-----------------------------------------------------------------------------
(* The invariant. *)

(* What the invariant says of one side's ratchet, unfolded once. *)
LEMMA SideFacts ==
  ASSUME IInv, NEW p \in Party
  PROVE  /\ IsRatchet(ratchet[p]) /\ SlotsAgree(ratchet[p])
         /\ SendingInv(p) /\ ReceivingInv(p) /\ SkippedInv(p) /\ OpenedInv(p)
         /\ opened[p] \subseteq wire /\ generated[p] \in Nat
         /\ Peer(p) \in Party /\ Peer(p) # p
  BY PeerFacts DEF IInv, TypeOK, StoresAgree

(* The invariant holds when the conversation is paired. *)
LEMMA InitIInv == Init => IInv
<1> SUFFICES ASSUME Init PROVE IInv
  OBVIOUS
<1> DEFINE root == KdfRoot(<<>>, DiffieHellman(<<0, 0>>, <<1, 0>>))
<1>1. ratchet[0] = Initiator(<<0, 0>>, <<1, 0>>) /\ ratchet[1] = Responder(<<1, 0>>)
  BY DEF Init, Party
<1>2. /\ wire = {} /\ \A p \in Party : generated[p] = 1 /\ opened[p] = {}
  BY DEF Init
<1>3. root \in Root /\ Len(root) = 1 /\ <<>> \in Root /\ Len(<<>>) = 0
  <2>1. root = <<{<<0, 0>>, <<1, 0>>}>>
    BY DEF KdfRoot, DiffieHellman
  <2> HIDE DEF root
  <2> QED BY <2>1 DEF Root, PublicKey, Party
<1> HIDE DEF root
<1>4. \A p \in Party :
         LET r == ratchet[p] IN
         /\ DOMAIN r = {"root", "ours", "theirs", "sending", "receiving", "sent",
                        "received", "previous_chain_len", "skipped", "skipped_order"}
         /\ r.ours = <<p, 0>> /\ r.receiving = None /\ r.received = 0
         /\ r.sent = 0 /\ r.previous_chain_len = 0
         /\ r.skipped = <<>> /\ r.skipped_order = <<>>
         /\ r.root = IF p = 0 THEN root ELSE <<>>
         /\ r.theirs = IF p = 0 THEN <<1, 0>> ELSE None
         /\ r.sending = IF p = 0 THEN [seed |-> root, step |-> 0] ELSE None
  BY <1>1 DEF Party, Initiator, Responder, ChainFrom, root
<1>5. \A p \in Party : IsRatchet(ratchet[p])
  <2> SUFFICES ASSUME NEW p \in Party PROVE IsRatchet(ratchet[p])
    OBVIOUS
  <2>1. <<p, 0>> \in PublicKey /\ <<1, 0>> \in PublicKey
    BY DEF PublicKey, Party
  <2>2. [seed |-> root, step |-> 0] \in Chain
    BY <1>3 DEF Chain
  <2>3. <<>> \in Seq(Slot) /\ DOMAIN <<>> = {}
    OBVIOUS
  <2> DEFINE r == ratchet[p]
  <2>4. /\ DOMAIN r = {"root", "ours", "theirs", "sending", "receiving", "sent",
                       "received", "previous_chain_len", "skipped", "skipped_order"}
        /\ r.ours \in PublicKey /\ r.receiving = None /\ r.received = 0
        /\ r.sent = 0 /\ r.previous_chain_len = 0
        /\ DOMAIN r.skipped = {} /\ r.skipped_order \in Seq(Slot)
    BY <1>4, <2>1, <2>3
  <2>5. r.root \in Root
    BY <1>3, <1>4
  <2>6. r.theirs \in PublicKey \cup {None}
    BY <1>4, <2>1
  <2>7. r.sending \in Chain \cup {None}
    BY <1>4, <2>2
  <2> HIDE DEF r
  <2>8. IsRatchet(r)
    BY <2>4, <2>5, <2>6, <2>7 DEF IsRatchet
  <2> QED BY <2>8 DEF r
<1>6. \A p \in Party : SlotsAgree(ratchet[p])
  BY <1>4, LimitsAssumption DEF SlotsAgree, Held
<1>7. TypeOK
  BY <1>5 DEF TypeOK, Init
<1>8. \A p \in Party : SendingInv(p)
  <2>1. \A p \in Party : Owns(p, ratchet[p].root)
    <3>1. 1 % 2 = 1 /\ 0 % 2 = 0
      OBVIOUS
    <3>2. Owns(0, root) /\ Owns(1, <<>>)
      BY <1>3, <3>1 DEF Owns
    <3>3. ratchet[0].root = root /\ ratchet[1].root = <<>>
      BY <1>4 DEF Party
    <3> QED BY <3>2, <3>3 DEF Party
  <2>2. \A p \in Party : <<p, 0>>[1] = p /\ <<p, 0>>[2] = 0
    OBVIOUS
  <2> QED BY <1>2, <1>4, <2>1, <2>2 DEF SendingInv, Party
<1>9. \A p \in Party : ReceivingInv(p) /\ SkippedInv(p) /\ OpenedInv(p)
  BY <1>2, <1>4 DEF ReceivingInv, SkippedInv, OpenedInv
<1> QED BY <1>2, <1>6, <1>7, <1>8, <1>9 DEF IInv, StoresAgree, KeysUsedOnce

(* Sealing keeps the invariant. *)
LEMMA EncryptIInv ==
  ASSUME IInv, NEW p \in Party, Encrypt(p)
  PROVE  IInv'
<1> DEFINE r   == ratchet[p]
           q   == AfterEncrypt(r)
           new == [from |-> p, header |-> HeaderOf(r), key |-> r.sending,
                   body |-> seals[p]]
<1>1. /\ IsRatchet(r) /\ SlotsAgree(r) /\ SendingInv(p) /\ generated[p] \in Nat
  BY SideFacts
<1>2. /\ r.sending \in Chain /\ r.sending # None
      /\ r.sending.seed = r.root /\ r.sending.step = r.sent /\ r.sent \in Nat
      /\ r.ours \in PublicKey /\ r.previous_chain_len \in Nat
  BY <1>1 DEF Encrypt, CanEncrypt, CanSend, IsRatchet, SendingInv
<1>3. /\ IsRatchet(q)
      /\ q.sending = [seed |-> r.sending.seed, step |-> r.sending.step + 1]
      /\ q.sent = r.sent + 1
      /\ q.root = r.root /\ q.ours = r.ours /\ q.theirs = r.theirs
      /\ q.receiving = r.receiving /\ q.received = r.received
      /\ q.previous_chain_len = r.previous_chain_len
      /\ q.skipped = r.skipped /\ q.skipped_order = r.skipped_order
  BY <1>1, EncryptFields DEF Encrypt, CanEncrypt
<1>4. q.sending # None
  BY <1>2, <1>3, NoneAssumption DEF Chain
<1>5. /\ new \in Message /\ new.from = p /\ new.header.dh = r.ours
      /\ new.header.number = r.sent /\ new.key = r.sending
  BY <1>2 DEF Message, Header, HeaderOf, IInv, TypeOK
<1>6. /\ ratchet' = [ratchet EXCEPT ![p] = q]
      /\ wire' = wire \cup {new}
      /\ seals' = [seals EXCEPT ![p] = seals[p] + 1]
      /\ UNCHANGED <<generated, opened, evicted>>
  BY DEF Encrypt
<1> HIDE DEF q, new
<1>7. /\ ratchet' = [x \in Party |-> ratchet'[x]]
      /\ \A x \in Party : ratchet'[x] = IF x = p THEN q ELSE ratchet[x]
  BY <1>6 DEF IInv, TypeOK
<1>8. TypeOK'
  BY <1>3, <1>5, <1>6, <1>7 DEF IInv, TypeOK
<1>9. StoresAgree'
  BY <1>1, <1>3, <1>7 DEF IInv, StoresAgree, SlotsAgree
<1>10. \A m \in wire : WireInv(m) /\ m.from \in Party /\ m.key \in Chain
  BY DEF IInv, TypeOK, Message
<1>11. \A x \in Party : \A dh, seed : SealsWith(x, dh, seed) => SealsWith(x, dh, seed)'
  BY <1>2, <1>3, <1>4, <1>5, <1>6, <1>7 DEF SealsWith
<1>12. \A dh, seed : dh = r.ours /\ seed = r.root => SealsWith(p, dh, seed)'
  <2>1. r.ours[1] = p /\ r.ours[2] < generated[p] /\ r.root \in Root
    BY <1>1 DEF SendingInv, IsRatchet
  <2>2. \A m \in wire : m.from = p /\ m.header.dh = r.ours => m.key.seed = r.root
    BY <1>2, <1>10 DEF WireInv, SealsWith
  <2> QED BY <1>2, <1>3, <1>4, <1>5, <1>6, <1>7, <2>1, <2>2 DEF SealsWith
<1>13. \A m \in wire : WireInv(m)'
  <2> SUFFICES ASSUME NEW m \in wire PROVE WireInv(m)'
    OBVIOUS
  <2>1. m.from \in Party /\ WireInv(m)
    BY <1>10
  <2>2. SealsWith(m.from, m.header.dh, m.key.seed)'
    BY <1>11, <2>1 DEF WireInv
  <2>3. m.header \in Header
    BY DEF IInv, TypeOK, Message
  <2>4. m.header.dh = ratchet'[m.from].ours
           => m.header.number < ratchet'[m.from].sent
    <3>1. m.header.number \in Nat
      BY <2>3 DEF Header
    <3> QED BY <1>2, <1>3, <1>7, <2>1, <3>1 DEF WireInv
  <2> QED BY <2>1, <2>2, <2>4 DEF WireInv
<1>14. \A m : m = new => WireInv(m)'
  <2> SUFFICES ASSUME NEW m, m = new PROVE WireInv(m)'
    OBVIOUS
  <2>1. /\ m.from = p /\ m.header.dh = r.ours /\ m.header.number = r.sent
        /\ m.key.seed = r.root /\ m.key.step = r.sent
    BY <1>2, <1>5
  <2>2. SealsWith(m.from, m.header.dh, m.key.seed)'
    BY <1>12, <2>1
  <2>3. Owns(m.from, m.key.seed)
    BY <1>1, <2>1 DEF SendingInv
  <2>4. m.header.number < ratchet'[m.from].sent
    BY <1>2, <1>3, <1>7, <2>1
  <2> QED BY <2>1, <2>2, <2>3, <2>4 DEF WireInv
<1>15. KeysUsedOnce'
  <2>1. \A m \in wire : m.key # new.key
    <3> SUFFICES ASSUME NEW m \in wire, m.key = r.sending PROVE FALSE
      BY <1>5
    <3>1. WireInv(m) /\ m.from \in Party /\ m.header \in Header
      BY <1>10 DEF IInv, TypeOK, Message
    <3>2. m.from = p
      <4>1. Owns(m.from, r.root) /\ Owns(p, r.root)
        BY <1>1, <1>2, <3>1 DEF WireInv, SendingInv
      <4> QED BY <3>1, <4>1, OwnsFacts
    <3>3. r.root \in Root
      BY <1>1 DEF IsRatchet
    <3>4. Len(r.root) \in Nat
      BY <3>3 DEF Root
    <3>5. m.header.dh = r.ours
      BY <1>2, <3>1, <3>2, <3>4 DEF WireInv, SealsWith
    <3> QED BY <1>2, <3>1, <3>2, <3>5 DEF WireInv, Header
  <2> QED BY <1>6, <2>1 DEF IInv, KeysUsedOnce
<1>16. ASSUME NEW x \in Party
       PROVE  (SendingInv(x) /\ ReceivingInv(x) /\ SkippedInv(x) /\ OpenedInv(x))'
  <2>1. SendingInv(x) /\ ReceivingInv(x) /\ SkippedInv(x) /\ OpenedInv(x)
        /\ Peer(x) \in Party
    BY SideFacts
  <2>2. SendingInv(x)'
    BY <1>2, <1>3, <1>6, <1>7, <2>1 DEF SendingInv
  <2>3. ReceivingInv(x)'
    BY <1>3, <1>6, <1>7, <1>11, <2>1 DEF ReceivingInv
  <2>4. SkippedInv(x)'
    <3>1. /\ ratchet'[x].skipped = ratchet[x].skipped
          /\ ratchet'[x].theirs = ratchet[x].theirs
          /\ ratchet'[x].receiving = ratchet[x].receiving
          /\ ratchet'[x].received = ratchet[x].received
      BY <1>3, <1>7
    <3>2. \A s \in DOMAIN ratchet[x].skipped :
             SealsWith(Peer(x), s[1], ratchet[x].skipped[s].seed)
      BY <2>1 DEF SkippedInv
    <3> QED BY <1>11, <2>1, <3>1, <3>2 DEF SkippedInv
  <2>5. OpenedInv(x)'
    BY <1>3, <1>6, <1>7, <2>1 DEF OpenedInv
  <2> QED BY <2>2, <2>3, <2>4, <2>5
<1>17. \A m \in wire' : WireInv(m)'
  BY <1>6, <1>13, <1>14
<1> QED BY <1>8, <1>9, <1>15, <1>16, <1>17 DEF IInv

(* What is known of a message that opens. *)
LEMMA ArrivedFacts ==
  ASSUME IInv, NEW p \in Party, NEW m \in wire, Arrived(p, m)
  PROVE  /\ m.from = Peer(p) /\ m.header \in Header /\ m.key \in Chain
         /\ m.header.dh \in PublicKey /\ m.header.number \in Nat
         /\ m.header.previous_chain_len \in Nat
         /\ WireInv(m) /\ MayTry(ratchet[p], m.header)
         /\ TriedKey(ratchet[p], m.header) = m.key
  BY DEF IInv, TypeOK, Message, Header, Arrived, Opens

(* A side that does not move keeps its part of the invariant while the     *)
(* other side's keys keep naming their chains.                             *)
LEMMA OtherSide ==
  ASSUME IInv, NEW x \in Party, ratchet'[x] = ratchet[x],
         opened'[x] = opened[x], generated'[x] = generated[x],
         \A y \in Party : \A dh, seed :
             SealsWith(y, dh, seed) => SealsWith(y, dh, seed)'
  PROVE  (SendingInv(x) /\ ReceivingInv(x) /\ SkippedInv(x) /\ OpenedInv(x))'
<1>1. SendingInv(x) /\ ReceivingInv(x) /\ SkippedInv(x) /\ OpenedInv(x)
      /\ Peer(x) \in Party
  BY SideFacts
<1>2. SendingInv(x)'
  BY <1>1 DEF SendingInv
<1>3. ReceivingInv(x)'
  BY <1>1 DEF ReceivingInv
<1>4. SkippedInv(x)'
  BY <1>1 DEF SkippedInv
<1>5. OpenedInv(x)'
  BY <1>1 DEF OpenedInv
<1> QED BY <1>2, <1>3, <1>4, <1>5

(* A message opened without a turn: what is sealed is untouched, so only   *)
(* the reader's chain, its kept keys and what it opened are left to check. *)
LEMMA NoTurn ==
  ASSUME IInv, NEW p \in Party, NEW m \in wire, NEW q, IsRatchet(q), SlotsAgree(q),
         q.root = ratchet[p].root, q.ours = ratchet[p].ours,
         q.sending = ratchet[p].sending, q.sent = ratchet[p].sent,
         ratchet' = [ratchet EXCEPT ![p] = q],
         opened' = [opened EXCEPT ![p] = @ \cup {m}],
         evicted' \in [Party -> SUBSET Slot],
         UNCHANGED <<wire, generated, seals>>
  PROVE  /\ (ReceivingInv(p) /\ SkippedInv(p) /\ OpenedInv(p))' => IInv'
         /\ ratchet'[p] = q /\ opened'[p] = opened[p] \cup {m}
         /\ \A x \in Party : \A dh, seed :
               SealsWith(x, dh, seed) => SealsWith(x, dh, seed)'
<1>1. /\ ratchet' = [x \in Party |-> ratchet'[x]]
      /\ \A x \in Party : ratchet'[x] = IF x = p THEN q ELSE ratchet[x]
  BY DEF IInv, TypeOK
<1>2. /\ opened' \in [Party -> SUBSET wire]
      /\ \A x \in Party : opened'[x] = IF x = p THEN opened[p] \cup {m}
                                                 ELSE opened[x]
  BY DEF IInv, TypeOK
<1>3. TypeOK'
  BY <1>1, <1>2 DEF IInv, TypeOK
<1>4. StoresAgree'
  BY <1>1 DEF IInv, StoresAgree
<1>5. KeysUsedOnce'
  BY DEF IInv, KeysUsedOnce
<1>6. \A x \in Party : \A dh, seed : SealsWith(x, dh, seed) => SealsWith(x, dh, seed)'
  BY <1>1 DEF SealsWith
<1>7. \A w \in wire' : WireInv(w)'
  <2> SUFFICES ASSUME NEW w \in wire PROVE WireInv(w)'
    OBVIOUS
  <2>1. WireInv(w) /\ w.from \in Party
    BY DEF IInv, TypeOK, Message
  <2>2. SealsWith(w.from, w.header.dh, w.key.seed)'
    BY <1>6, <2>1 DEF WireInv
  <2> QED BY <1>1, <2>1, <2>2 DEF WireInv
<1>8. SendingInv(p)'
  <2>1. SendingInv(p)
    BY SideFacts
  <2> QED BY <1>1, <2>1 DEF SendingInv
<1>9. ASSUME NEW x \in Party, x # p
      PROVE  (SendingInv(x) /\ ReceivingInv(x) /\ SkippedInv(x) /\ OpenedInv(x))'
  BY <1>1, <1>2, <1>6, <1>9, OtherSide
<1>10. ASSUME (ReceivingInv(p) /\ SkippedInv(p) /\ OpenedInv(p))'
       PROVE  IInv'
  BY <1>3, <1>4, <1>5, <1>7, <1>8, <1>9, <1>10 DEF IInv
<1> QED BY <1>1, <1>2, <1>6, <1>10

(* Opening by a kept key keeps the invariant. *)
LEMMA DecryptKeptIInv ==
  ASSUME IInv, NEW p \in Party, NEW m \in wire, DecryptKept(p, m)
  PROVE  IInv'
<1> DEFINE r    == ratchet[p]
           slot == SlotOf(m.header)
           q    == ForgetSkipped(r, slot)
<1>1. /\ IsRatchet(r) /\ SlotsAgree(r) /\ ReceivingInv(p) /\ SkippedInv(p)
      /\ OpenedInv(p) /\ Peer(p) \in Party
  BY SideFacts
<1>2. /\ Arrived(p, m) /\ slot \in DOMAIN r.skipped
      /\ m.from = Peer(p) /\ m.key = r.skipped[slot]
  BY ArrivedFacts DEF DecryptKept, Kept, TriedKey
<1>3. /\ IsRatchet(q) /\ SlotsAgree(q)
      /\ q.root = r.root /\ q.ours = r.ours /\ q.theirs = r.theirs
      /\ q.sending = r.sending /\ q.receiving = r.receiving
      /\ q.sent = r.sent /\ q.received = r.received
      /\ DOMAIN q.skipped = DOMAIN r.skipped \ {slot}
      /\ \A s \in DOMAIN q.skipped : q.skipped[s] = r.skipped[s]
  BY <1>1, <1>2, ForgetFields
<1>4. /\ ratchet' = [ratchet EXCEPT ![p] = q]
      /\ opened' = [opened EXCEPT ![p] = @ \cup {m}]
      /\ evicted' \in [Party -> SUBSET Slot]
      /\ UNCHANGED <<wire, generated, seals>>
  BY DEF DecryptKept, AfterKept, IInv, TypeOK
<1> HIDE DEF q, slot
<1>5. /\ (ReceivingInv(p) /\ SkippedInv(p) /\ OpenedInv(p))' => IInv'
      /\ ratchet'[p] = q /\ opened'[p] = opened[p] \cup {m}
      /\ \A x \in Party : \A dh, seed :
            SealsWith(x, dh, seed) => SealsWith(x, dh, seed)'
  BY <1>3, <1>4, NoTurn
<1>6. ReceivingInv(p)'
  BY <1>1, <1>2, <1>3, <1>5 DEF ReceivingInv
<1>7. SkippedInv(p)'
  <2>1. \A s \in DOMAIN q.skipped : s \in DOMAIN r.skipped /\ q.skipped[s] = r.skipped[s]
    BY <1>3
  <2>2. \A s \in DOMAIN q.skipped : SealsWith(Peer(p), s[1], q.skipped[s].seed)
    BY <1>1, <2>1 DEF SkippedInv
  <2>3. \A s, dh, seed : s \in DOMAIN q.skipped /\ dh = s[1] /\ seed = q.skipped[s].seed
                          => SealsWith(Peer(p), dh, seed)'
    BY <1>1, <1>5, <2>2
  <2> QED BY <1>1, <1>3, <1>5, <2>1, <2>3 DEF SkippedInv
<1>8. OpenedInv(p)'
  <2>1. \A w \in opened[p] :
           /\ w.from = Peer(p)
           /\ w.key \notin {q.skipped[s] : s \in DOMAIN q.skipped}
           /\ \/ Len(w.key.seed) < Len(q.receiving.seed)
              \/ w.key.seed = q.receiving.seed /\ w.key.step < q.received
    BY <1>1, <1>3 DEF OpenedInv
  <2>2. m.key \notin {q.skipped[s] : s \in DOMAIN q.skipped}
    <3> SUFFICES ASSUME NEW s \in DOMAIN r.skipped, s # slot,
                        r.skipped[s] = r.skipped[slot]
                 PROVE  FALSE
      BY <1>2, <1>3
    <3>1. s[1] = slot[1] /\ s[2] = slot[2]
      BY <1>1, <1>2 DEF SkippedInv
    <3>2. s \in Slot /\ slot \in Slot
      BY <1>1, <1>2 DEF IsRatchet
    <3> QED BY <3>1, <3>2 DEF Slot
  <2>3. \/ Len(m.key.seed) < Len(q.receiving.seed)
        \/ m.key.seed = q.receiving.seed /\ m.key.step < q.received
    BY <1>1, <1>2, <1>3 DEF SkippedInv
  <2> QED BY <1>2, <1>5, <2>1, <2>2, <2>3 DEF OpenedInv
<1> QED BY <1>5, <1>6, <1>7, <1>8

(* Opening on the chain in hand keeps the invariant. *)
LEMMA DecryptOnChainIInv ==
  ASSUME IInv, NEW p \in Party, NEW m \in wire, DecryptOnChain(p, m)
  PROVE  IInv'
<1> DEFINE r      == ratchet[p]
           header == m.header
           seed0  == r.receiving.seed
           steps  == StepsTo(r.received, header.number)
           q      == AfterOnChain(r, header)
<1>1. /\ IsRatchet(r) /\ SlotsAgree(r) /\ ReceivingInv(p) /\ SkippedInv(p)
      /\ OpenedInv(p) /\ SendingInv(p) /\ Peer(p) \in Party
  BY SideFacts
<1>2. /\ Arrived(p, m) /\ OnChain(r, header) /\ ~Kept(r, header)
      /\ m.from = Peer(p) /\ header \in Header /\ header.number \in Nat
      /\ header.dh \in PublicKey /\ header.dh = r.theirs
      /\ m.key.step = header.number
  BY ArrivedFacts DEF DecryptOnChain, OnChain, WireInv
<1>3. r.receiving # None /\ r.receiving \in Chain /\ r.received \in Nat
  BY <1>1, <1>2, ArrivedFacts DEF MayTry, Kept, IsRatchet
<1>4. /\ r.receiving.step = r.received
      /\ Len(seed0) + 1 = Len(r.root)
      /\ SealsWith(Peer(p), r.theirs, seed0)
  BY <1>1, <1>3 DEF ReceivingInv
<1>5. \A s \in DOMAIN r.skipped :
         IF s[1] = r.theirs THEN r.skipped[s].seed = seed0 /\ s[2] < r.received
                            ELSE Len(r.skipped[s].seed) < Len(seed0)
  BY <1>1 DEF SkippedInv
<1>6. /\ IsRatchet(q) /\ SlotsAgree(q)
      /\ q.root = r.root /\ q.ours = r.ours /\ q.theirs = r.theirs
      /\ q.sending = r.sending /\ q.sent = r.sent
      /\ q.received = r.received + steps + 1
      /\ q.received > r.received
      /\ q.receiving = [seed |-> seed0, step |-> q.received]
      /\ \A s \in DOMAIN q.skipped :
            \/ s \in DOMAIN r.skipped /\ q.skipped[s] = r.skipped[s]
            \/ /\ s[1] = r.theirs
               /\ s[2] \in r.received..(header.number - 1)
               /\ q.skipped[s] = [seed |-> seed0, step |-> s[2]]
  BY <1>1, <1>2, <1>3, <1>4, <1>5, OnChainFields
<1>7. m.key = [seed |-> seed0, step |-> r.received + steps] /\ steps \in Nat
  <2>1. Walk(r.receiving, header.dh, r.received, header.number)
    BY <1>2, <1>3, WalkFacts
  <2>2. m.key = WalkedChain(r.receiving, r.received, header.number)
    BY <1>2, ArrivedFacts DEF TriedKey, ReadChain, ReadFrom
  <2> QED BY <1>4, <2>1, <2>2 DEF Walk
<1>8. /\ ratchet' = [ratchet EXCEPT ![p] = q]
      /\ opened' = [opened EXCEPT ![p] = @ \cup {m}]
      /\ UNCHANGED <<wire, generated, seals>>
  BY DEF DecryptOnChain
<1>9. evicted' \in [Party -> SUBSET Slot]
  <2>1. DOMAIN r.skipped \subseteq Slot
    BY <1>1 DEF IsRatchet
  <2>2. {header.dh} \X (r.received..(header.number - 1)) \subseteq Slot
    BY <1>2, <1>3 DEF Slot
  <2>3. LetGo(p, {header.dh} \X (r.received..(header.number - 1))) \subseteq Slot
    BY <2>1, <2>2 DEF LetGo
  <2> QED BY <2>3 DEF DecryptOnChain, IInv, TypeOK
<1> HIDE DEF q, steps
<1>10. /\ (ReceivingInv(p) /\ SkippedInv(p) /\ OpenedInv(p))' => IInv'
       /\ ratchet'[p] = q /\ opened'[p] = opened[p] \cup {m}
       /\ \A x \in Party : \A dh, seed :
             SealsWith(x, dh, seed) => SealsWith(x, dh, seed)'
  BY <1>6, <1>8, <1>9, NoTurn
<1>11. ReceivingInv(p)'
  <2>1. q.receiving # None
    BY <1>6, <1>3, NoneAssumption DEF Chain, IsRatchet
  <2>2. \A dh, seed : dh = q.theirs /\ seed = q.receiving.seed
                       => SealsWith(Peer(p), dh, seed)'
    BY <1>1, <1>4, <1>6, <1>10
  <2>3. q.theirs # None
    BY <1>2, <1>6, NoneAssumption
  <2> QED BY <1>4, <1>6, <1>10, <2>1, <2>2, <2>3 DEF ReceivingInv
<1>12. SkippedInv(p)'
  <2> DEFINE old(s) == s \in DOMAIN r.skipped /\ q.skipped[s] = r.skipped[s]
             new(s) == /\ s[1] = r.theirs
                       /\ s[2] \in r.received..(header.number - 1)
                       /\ q.skipped[s] = [seed |-> seed0, step |-> s[2]]
  <2>1. \A s \in DOMAIN q.skipped : old(s) \/ new(s)
    BY <1>6
  <2>2. Owns(Peer(p), seed0)
    <3>1. seed0 \in Root /\ r.root \in Root /\ Len(r.root) = Len(seed0) + 1
      BY <1>1, <1>3, <1>4 DEF IsRatchet, Chain, Root
    <3>2. Owns(p, r.root)
      BY <1>1 DEF SendingInv
    <3>3. Owns(Peer(p), seed0) <=> Owns(Peer(Peer(p)), r.root)
      BY <1>1, <3>1, OwnsFacts
    <3>4. Peer(Peer(p)) = p
      BY DEF Peer, Party
    <3> QED BY <3>2, <3>3, <3>4
  <2>3. \A s \in DOMAIN q.skipped :
           /\ q.skipped[s].step = s[2]
           /\ Owns(Peer(p), q.skipped[s].seed)
           /\ SealsWith(Peer(p), s[1], q.skipped[s].seed)
    <3>1. \A s : old(s) => /\ q.skipped[s].step = s[2]
                          /\ Owns(Peer(p), q.skipped[s].seed)
                          /\ SealsWith(Peer(p), s[1], q.skipped[s].seed)
      BY <1>1 DEF SkippedInv
    <3>2. \A s : new(s) => /\ q.skipped[s].step = s[2]
                          /\ Owns(Peer(p), q.skipped[s].seed)
                          /\ SealsWith(Peer(p), s[1], q.skipped[s].seed)
      BY <1>4, <2>2
    <3> QED BY <2>1, <3>1, <3>2
  <2>4. header.number <= r.received + steps /\ steps \in Nat
    BY <1>2, <1>3, <1>7 DEF StepsTo, steps
  <2>5. \A s \in DOMAIN q.skipped :
           IF s[1] = q.theirs
           THEN q.skipped[s].seed = q.receiving.seed /\ s[2] < q.received
           ELSE Len(q.skipped[s].seed) < Len(q.receiving.seed)
    <3> SUFFICES ASSUME NEW s \in DOMAIN q.skipped
                 PROVE  IF s[1] = q.theirs
                        THEN q.skipped[s].seed = q.receiving.seed /\ s[2] < q.received
                        ELSE Len(q.skipped[s].seed) < Len(q.receiving.seed)
      OBVIOUS
    <3>1. s[2] \in Nat
      BY <1>6 DEF IsRatchet, Slot
    <3>2. CASE old(s)
      BY <1>3, <1>5, <1>6, <2>4, <3>1, <3>2
    <3>3. CASE new(s)
      BY <1>2, <1>3, <1>6, <2>4, <3>1, <3>3
    <3> QED BY <2>1, <3>2, <3>3
  <2>6. \A s, t \in DOMAIN q.skipped :
           q.skipped[t].seed = q.skipped[s].seed => t[1] = s[1]
    <3>1. \A s, t : old(s) /\ old(t) /\ q.skipped[t].seed = q.skipped[s].seed
                    => t[1] = s[1]
      BY <1>1 DEF SkippedInv
    <3>2. Len(seed0) \in Nat
      BY <1>3 DEF Chain, Root
    <3>3. \A s : old(s) /\ q.skipped[s].seed = seed0 => s[1] = r.theirs
      BY <1>5, <3>2
    <3>4. \A s : new(s) => s[1] = r.theirs /\ q.skipped[s].seed = seed0
      OBVIOUS
    <3> HIDE DEF old, new
    <3> QED BY <2>1, <3>1, <3>3, <3>4
  <2>7. \A s, dh, seed : s \in DOMAIN q.skipped /\ dh = s[1] /\ seed = q.skipped[s].seed
                          => SealsWith(Peer(p), dh, seed)'
    BY <1>1, <1>10, <2>3
  <2> QED BY <1>10, <2>3, <2>5, <2>6, <2>7 DEF SkippedInv
<1>13. OpenedInv(p)'
  <2>1. \A s \in DOMAIN q.skipped :
           \/ s \in DOMAIN r.skipped /\ q.skipped[s] = r.skipped[s]
           \/ /\ q.skipped[s].seed = seed0
              /\ q.skipped[s].step \in r.received..(header.number - 1)
    <3> SUFFICES ASSUME NEW s \in DOMAIN q.skipped,
                        ~(s \in DOMAIN r.skipped /\ q.skipped[s] = r.skipped[s])
                 PROVE  /\ q.skipped[s].seed = seed0
                        /\ q.skipped[s].step \in r.received..(header.number - 1)
      OBVIOUS
    <3>1. /\ s[2] \in r.received..(header.number - 1)
          /\ q.skipped[s] = [seed |-> seed0, step |-> s[2]]
      BY <1>6
    <3> QED BY <3>1
  <2>2. /\ Len(seed0) \in Nat /\ q.receiving.seed = seed0
        /\ header.number <= r.received + steps
    BY <1>2, <1>3, <1>6, <1>7 DEF Chain, Root, StepsTo, steps
  <2>3. ASSUME NEW w \in opened[p]
        PROVE  /\ w.from = Peer(p)
               /\ w.key \notin {q.skipped[s] : s \in DOMAIN q.skipped}
               /\ \/ Len(w.key.seed) < Len(q.receiving.seed)
                  \/ w.key.seed = q.receiving.seed /\ w.key.step < q.received
    <3>1. /\ w.from = Peer(p)
          /\ \A s \in DOMAIN r.skipped : w.key # r.skipped[s]
          /\ \/ Len(w.key.seed) < Len(seed0)
             \/ w.key.seed = seed0 /\ w.key.step < r.received
          /\ w.key \in Chain
      BY <1>1, <2>3 DEF OpenedInv, IInv, TypeOK, Message
    <3>2. w.key.step \in Nat
      BY <3>1 DEF Chain
    <3>3. \A s \in DOMAIN q.skipped : w.key # q.skipped[s]
      BY <1>2, <1>3, <2>1, <2>2, <3>1, <3>2
    <3>4. q.received \in Nat
      BY <1>6 DEF IsRatchet
    <3> QED BY <1>3, <1>6, <2>2, <3>1, <3>2, <3>3, <3>4
  <2>4. m.key \notin {q.skipped[s] : s \in DOMAIN q.skipped}
    <3> SUFFICES ASSUME NEW s \in DOMAIN q.skipped, q.skipped[s] = m.key
                 PROVE  FALSE
      OBVIOUS
    <3>1. m.key.seed = seed0 /\ m.key.step = r.received + steps
      BY <1>7
    <3>2. CASE s \in DOMAIN r.skipped /\ q.skipped[s] = r.skipped[s]
      <4>1. s[1] = r.theirs
        BY <1>5, <2>2, <3>1, <3>2
      <4>2. s[2] = r.received + steps /\ s[2] < r.received
        BY <1>1, <1>5, <3>1, <3>2, <4>1 DEF SkippedInv
      <4> QED BY <1>3, <1>7, <4>2
    <3>3. CASE q.skipped[s].step \in r.received..(header.number - 1)
      BY <1>2, <1>3, <1>7, <2>2, <3>1, <3>3
    <3> QED BY <2>1, <3>2, <3>3
  <2>5. m.key.seed = q.receiving.seed /\ m.key.step < q.received
    BY <1>3, <1>6, <1>7
  <2> QED BY <1>2, <1>10, <2>3, <2>4, <2>5 DEF OpenedInv
<1> QED BY <1>10, <1>11, <1>12, <1>13

(* Opening by a turn keeps the invariant. *)
LEMMA DecryptTurningIInv ==
  ASSUME IInv, NEW p \in Party, NEW m \in wire, DecryptTurning(p, m)
  PROVE  IInv'
<1> DEFINE r       == ratchet[p]
           header  == m.header
           fresh   == <<p, generated[p]>>
           receive == TurnReceiving(r, header.dh)
           q       == AfterTurn(r, header, fresh)
<1>1. /\ IsRatchet(r) /\ SlotsAgree(r) /\ ReceivingInv(p) /\ SkippedInv(p)
      /\ OpenedInv(p) /\ SendingInv(p) /\ generated[p] \in Nat
      /\ Peer(p) \in Party /\ Peer(p) # p /\ Peer(Peer(p)) = p
  BY SideFacts DEF Peer, Party
<1>2. /\ Arrived(p, m) /\ ~Kept(r, header) /\ r.theirs # header.dh
      /\ m.from = Peer(p) /\ header \in Header /\ header.number \in Nat
      /\ header.dh \in PublicKey /\ header.previous_chain_len \in Nat
      /\ m.key.step = header.number /\ SealsWith(Peer(p), header.dh, m.key.seed)
      /\ Owns(Peer(p), m.key.seed)
  BY ArrivedFacts DEF DecryptTurning, NeedsTurn, WireInv
<1>3. fresh \in PublicKey /\ fresh[1] = p /\ fresh[2] = generated[p]
  BY <1>1 DEF PublicKey
<1>4. /\ r.root \in Root /\ Len(r.root) \in Nat /\ r.received \in Nat
      /\ receive \in Root /\ Len(receive) = Len(r.root) + 1
  <2>1. r.root \in Root /\ r.ours \in PublicKey /\ r.received \in Nat
    BY <1>1 DEF IsRatchet
  <2>2. receive = Append(r.root, {r.ours, header.dh})
    BY DEF TurnReceiving, KdfRoot, DiffieHellman
  <2> HIDE DEF receive, r
  <2> QED BY <1>2, <2>1, <2>2 DEF Root
<1>5. m.key = [seed |-> receive, step |-> header.number]
  <2> DEFINE start == ChainFrom(receive)
  <2>1. start = [seed |-> receive, step |-> 0] /\ start \in Chain
    BY <1>4 DEF ChainFrom, Chain
  <2>2. m.key = WalkedChain(start, 0, header.number)
    BY <1>2, ArrivedFacts DEF TriedKey, ReadChain, ReadFrom, OnChain
  <2> HIDE DEF start, receive
  <2>3. Walk(start, header.dh, 0, header.number)
    BY <1>2, <2>1, WalkFacts
  <2>4. StepsTo(0, header.number) = header.number
    BY <1>2 DEF StepsTo
  <2> QED BY <1>2, <2>1, <2>2, <2>3, <2>4 DEF Walk
<1>6. r.receiving # None =>
         /\ r.theirs # None /\ r.receiving.step = r.received
         /\ r.receiving \in Chain /\ r.receiving.seed \in Root
         /\ Len(r.receiving.seed) \in Nat
         /\ Len(r.receiving.seed) + 1 = Len(r.root)
         /\ SealsWith(Peer(p), r.theirs, r.receiving.seed)
  BY <1>1 DEF ReceivingInv, IsRatchet, Chain, Root
<1>7. ASSUME NEW s \in DOMAIN r.skipped
      PROVE  /\ r.receiving # None
             /\ r.skipped[s].step = s[2]
             /\ Owns(Peer(p), r.skipped[s].seed)
             /\ SealsWith(Peer(p), s[1], r.skipped[s].seed)
             /\ r.skipped[s].seed \in Root /\ Len(r.skipped[s].seed) \in Nat
             /\ Len(r.skipped[s].seed) <= Len(r.receiving.seed)
             /\ s[2] \in Nat
             /\ IF s[1] = r.theirs
                THEN r.skipped[s].seed = r.receiving.seed /\ s[2] < r.received
                ELSE Len(r.skipped[s].seed) < Len(r.receiving.seed)
  <2>1. r.receiving # None
    BY <1>1 DEF ReceivingInv
  <2>2. r.skipped[s] \in Chain /\ s[2] \in Nat
    BY <1>1 DEF IsRatchet, Slot
  <2>3. r.skipped[s].seed \in Root /\ Len(r.skipped[s].seed) \in Nat
    BY <2>2 DEF Chain, Root
  <2> QED BY <1>1, <1>6, <2>1, <2>2, <2>3 DEF SkippedInv
<1>8. \A s \in DOMAIN r.skipped : s[1] # header.dh
  <2> SUFFICES ASSUME NEW s \in DOMAIN r.skipped, s[1] = header.dh PROVE FALSE
    OBVIOUS
  <2>1. r.skipped[s].seed = receive
    BY <1>2, <1>5, <1>7 DEF SealsWith
  <2> HIDE DEF receive
  <2> QED BY <1>4, <1>6, <1>7, <2>1
<1>9. Turned(r, header, fresh, q)
  BY <1>1, <1>2, <1>3, <1>6, <1>7, <1>8, TurnFields DEF ReceivingInv
<1> DEFINE old(s)   == s \in DOMAIN r.skipped /\ q.skipped[s] = r.skipped[s]
           rest(s)  == /\ r.receiving # None
                       /\ s[1] = r.theirs
                       /\ s[2] \in r.received..(header.previous_chain_len - 1)
                       /\ q.skipped[s] = [seed |-> r.receiving.seed, step |-> s[2]]
           ahead(s) == /\ s[1] = header.dh
                       /\ s[2] \in 0..(header.number - 1)
                       /\ q.skipped[s] = [seed |-> receive, step |-> s[2]]
<1>10. /\ IsRatchet(q) /\ SlotsAgree(q)
       /\ q.root \in Root /\ Len(q.root) = Len(r.root) + 2
       /\ q.sending = [seed |-> q.root, step |-> 0] /\ q.sent = 0
       /\ q.ours = fresh /\ q.theirs = header.dh
       /\ q.received = header.number + 1
       /\ q.receiving = [seed |-> receive, step |-> header.number + 1]
       /\ \A s \in DOMAIN q.skipped : old(s) \/ rest(s) \/ ahead(s)
  BY <1>9 DEF Turned, IsRatchet
<1>11. /\ ratchet' = [ratchet EXCEPT ![p] = q]
       /\ opened' = [opened EXCEPT ![p] = @ \cup {m}]
       /\ generated' = [generated EXCEPT ![p] = @ + 1]
       /\ UNCHANGED <<wire, seals>>
  BY DEF DecryptTurning
<1>12. evicted' \in [Party -> SUBSET Slot]
  <2> DEFINE walked ==
        ({header.dh} \X (0..(header.number - 1)))
        \cup IF r.receiving = None THEN {}
             ELSE {r.theirs} \X (r.received..(header.previous_chain_len - 1))
  <2>1. DOMAIN r.skipped \subseteq Slot
    BY <1>1 DEF IsRatchet
  <2>2. r.receiving # None => r.theirs \in PublicKey
    BY <1>1, <1>6 DEF IsRatchet
  <2>3. walked \subseteq Slot
    BY <1>2, <1>4, <2>2 DEF Slot
  <2>4. evicted' = [evicted EXCEPT ![p] = @ \cup LetGo(p, walked)]
    BY DEF DecryptTurning
  <2> HIDE DEF walked
  <2>5. LetGo(p, walked) \subseteq Slot
    BY <2>1, <2>3 DEF LetGo
  <2> QED BY <2>4, <2>5 DEF IInv, TypeOK
<1> HIDE DEF q, receive
<1>13. /\ ratchet' = [x \in Party |-> ratchet'[x]]
       /\ \A x \in Party : ratchet'[x] = IF x = p THEN q ELSE ratchet[x]
       /\ \A x \in Party : opened'[x] = IF x = p THEN opened[p] \cup {m}
                                                  ELSE opened[x]
       /\ \A x \in Party : generated'[x] = IF x = p THEN generated[p] + 1
                                                     ELSE generated[x]
       /\ opened' \in [Party -> SUBSET wire] /\ generated' \in [Party -> Nat]
  BY <1>11 DEF IInv, TypeOK
<1>14. TypeOK'
  BY <1>10, <1>11, <1>12, <1>13 DEF IInv, TypeOK
<1>15. StoresAgree'
  BY <1>10, <1>13 DEF IInv, StoresAgree
<1>16. KeysUsedOnce'
  BY <1>11 DEF IInv, KeysUsedOnce
<1>17. ASSUME NEW x \in Party, NEW dh, NEW seed, SealsWith(x, dh, seed)
       PROVE  SealsWith(x, dh, seed)'
  <2>1. CASE x # p
    BY <1>11, <1>13, <1>17, <2>1 DEF SealsWith
  <2>2. CASE x = p
    <3>1. dh # fresh
      BY <1>1, <1>3, <1>17, <2>2 DEF SealsWith
    <3>2. Len(seed) < Len(q.root)
      <4>1. CASE dh = r.ours
        <5>1. seed = r.root
          BY <1>1, <1>17, <2>2, <4>1 DEF SealsWith, SendingInv
        <5> HIDE DEF r
        <5> QED BY <1>4, <1>10, <5>1
      <4>2. CASE dh # r.ours
        <5>1. Len(seed) < Len(r.root) /\ Len(seed) \in Nat
          BY <1>17, <2>2, <4>2 DEF SealsWith, Root
        <5> HIDE DEF r
        <5> QED BY <1>4, <1>10, <5>1
      <4> QED BY <4>1, <4>2
    <3>3. dh \in PublicKey /\ dh[1] = p /\ dh[2] < generated[p] + 1 /\ seed \in Root
      BY <1>1, <1>17, <2>2 DEF SealsWith, PublicKey
    <3>4. \A w \in wire : w.from = p /\ w.header.dh = dh => w.key.seed = seed
      BY <1>17, <2>2 DEF SealsWith
    <3>5. ratchet'[x] = q /\ generated'[x] = generated[p] + 1 /\ wire' = wire
      BY <1>11, <1>13, <2>2
    <3> HIDE DEF r, fresh
    <3> QED BY <1>10, <2>2, <3>1, <3>2, <3>3, <3>4, <3>5 DEF SealsWith
  <2> QED BY <2>1, <2>2
<1>18. \A x \in Party : \A dh, seed : SealsWith(x, dh, seed) => SealsWith(x, dh, seed)'
  BY <1>17
<1>19. ASSUME NEW w \in wire PROVE WireInv(w)'
  <2>1. WireInv(w) /\ w.from \in Party
    BY DEF IInv, TypeOK, Message
  <2>2. SealsWith(w.from, w.header.dh, w.key.seed)'
    BY <1>18, <2>1 DEF WireInv
  <2>3. w.from = p => w.header.dh # q.ours
    BY <1>1, <1>3, <1>10, <2>1 DEF WireInv, SealsWith
  <2> QED BY <1>13, <2>1, <2>2, <2>3 DEF WireInv
<1>20. SendingInv(p)'
  <2>1. Owns(p, q.root)
    <3>1. Owns(Peer(p), receive)
      BY <1>2, <1>5
    <3>2. Len(q.root) = Len(receive) + 1
      BY <1>4, <1>10
    <3>3. Owns(Peer(p), receive) <=> Owns(Peer(Peer(p)), q.root)
      BY <1>1, <1>4, <1>10, <3>2, OwnsFacts
    <3> QED BY <1>1, <3>1, <3>3
  <2> QED BY <1>1, <1>3, <1>10, <1>13, <2>1 DEF SendingInv
<1>21. ReceivingInv(p)'
  <2>1. q.receiving # None /\ q.theirs # None
    BY <1>2, <1>4, <1>10, NoneAssumption DEF Chain
  <2>2. \A dh, seed : dh = q.theirs /\ seed = q.receiving.seed
                       => SealsWith(Peer(p), dh, seed)'
    BY <1>1, <1>2, <1>5, <1>10, <1>18
  <2>3. Len(q.receiving.seed) + 1 = Len(q.root)
    BY <1>4, <1>10
  <2> QED BY <1>10, <1>13, <2>1, <2>2, <2>3 DEF ReceivingInv
<1>22. \A s \in DOMAIN q.skipped : s[2] \in Nat /\ q.skipped[s] \in Chain
  BY <1>10 DEF IsRatchet, Slot
<1>23. SkippedInv(p)'
  <2>1. ASSUME NEW s \in DOMAIN q.skipped
        PROVE  /\ q.skipped[s].step = s[2]
               /\ Owns(Peer(p), q.skipped[s].seed)
               /\ SealsWith(Peer(p), s[1], q.skipped[s].seed)
    <3>1. CASE old(s)
      BY <1>7, <3>1
    <3>2. CASE rest(s)
      <4>1. Owns(Peer(p), r.receiving.seed)
        <5>1. Owns(p, r.root)
          BY <1>1 DEF SendingInv
        <5>2. Owns(Peer(p), r.receiving.seed) <=> Owns(Peer(Peer(p)), r.root)
          BY <1>1, <1>4, <1>6, <3>2, OwnsFacts
        <5> QED BY <1>1, <5>1, <5>2
      <4> QED BY <1>6, <3>2, <4>1
    <3>3. CASE ahead(s)
      BY <1>2, <1>5, <3>3
    <3> QED BY <1>10, <3>1, <3>2, <3>3
  <2>2. ASSUME NEW s \in DOMAIN q.skipped
        PROVE  IF s[1] = q.theirs
               THEN q.skipped[s].seed = q.receiving.seed /\ s[2] < q.received
               ELSE Len(q.skipped[s].seed) < Len(q.receiving.seed)
    <3>1. CASE old(s)
      <4>1. /\ s[1] # header.dh /\ r.receiving # None
            /\ Len(r.skipped[s].seed) \in Nat
            /\ Len(r.skipped[s].seed) <= Len(r.receiving.seed)
        BY <1>7, <1>8, <3>1
      <4>2. Len(r.skipped[s].seed) < Len(receive)
        <5> DEFINE a == Len(r.skipped[s].seed)
                   b == Len(r.receiving.seed)
                   c == Len(r.root)
        <5>1. a \in Nat /\ b \in Nat /\ c \in Nat /\ a <= b /\ b + 1 = c
              /\ Len(receive) = c + 1
          BY <1>4, <1>6, <4>1
        <5> HIDE DEF a, b, c
        <5>2. a < Len(receive)
          BY <5>1
        <5> QED BY <5>2 DEF a
      <4> QED BY <1>10, <3>1, <4>1, <4>2
    <3>2. CASE rest(s)
      BY <1>2, <1>4, <1>6, <1>10, <3>2
    <3>3. CASE ahead(s)
      BY <1>2, <1>10, <1>22, <3>3
    <3> QED BY <1>10, <3>1, <3>2, <3>3
  <2>3. ASSUME NEW s \in DOMAIN q.skipped, NEW t \in DOMAIN q.skipped,
               q.skipped[t].seed = q.skipped[s].seed
        PROVE  t[1] = s[1]
    <3>1. \A u \in DOMAIN q.skipped : q.skipped[u].seed = receive => ahead(u)
      <4> SUFFICES ASSUME NEW u \in DOMAIN q.skipped, q.skipped[u].seed = receive,
                          old(u) \/ rest(u)
                   PROVE  FALSE
        BY <1>10
      <4>1. /\ r.receiving # None /\ Len(q.skipped[u].seed) \in Nat
            /\ Len(q.skipped[u].seed) <= Len(r.receiving.seed)
        <5>1. CASE old(u)
          BY <1>7, <5>1
        <5>2. CASE rest(u)
          BY <1>6, <5>2
        <5> QED BY <5>1, <5>2
      <4> QED BY <1>4, <1>6, <4>1
    <3>2. CASE ahead(s) \/ ahead(t)
      BY <2>3, <3>1, <3>2
    <3>3. CASE old(s) /\ old(t)
      BY <1>1, <2>3, <3>3 DEF SkippedInv
    <3>4. \A u : old(u) /\ r.skipped[u].seed = r.receiving.seed => u[1] = r.theirs
      BY <1>6, <1>7
    <3>5. CASE rest(s) \/ rest(t)
      <4>1. CASE rest(s) /\ rest(t)
        BY <4>1
      <4>2. CASE rest(s) /\ old(t)
        BY <2>3, <3>4, <4>2
      <4>3. CASE old(s) /\ rest(t)
        BY <2>3, <3>4, <4>3
      <4> QED BY <1>10, <3>2, <3>5, <4>1, <4>2, <4>3
    <3> QED BY <1>10, <3>2, <3>3, <3>5
  <2>4. \A s, dh, seed : s \in DOMAIN q.skipped /\ dh = s[1] /\ seed = q.skipped[s].seed
                          => SealsWith(Peer(p), dh, seed)'
    BY <1>1, <1>18, <2>1
  <2> HIDE DEF old, rest, ahead
  <2> QED BY <1>13, <2>1, <2>2, <2>3, <2>4 DEF SkippedInv
<1>24. OpenedInv(p)'
  <2>1. ASSUME NEW w \in opened[p]
        PROVE  /\ w.from = Peer(p)
               /\ r.receiving # None
               /\ \A s \in DOMAIN r.skipped : w.key # r.skipped[s]
               /\ Len(w.key.seed) \in Nat /\ w.key.step \in Nat
               /\ \/ Len(w.key.seed) < Len(r.receiving.seed)
                  \/ w.key.seed = r.receiving.seed /\ w.key.step < r.received
    <3>1. w.key \in Chain
      BY SideFacts DEF IInv, TypeOK, Message
    <3>2. Len(w.key.seed) \in Nat /\ w.key.step \in Nat
      BY <3>1 DEF Chain, Root
    <3> QED BY <1>1, <3>2 DEF ReceivingInv, OpenedInv
  <2>2. ASSUME NEW w \in opened[p]
        PROVE  /\ Len(w.key.seed) < Len(q.receiving.seed)
               /\ \A s \in DOMAIN q.skipped : w.key # q.skipped[s]
    <3>1. Len(w.key.seed) < Len(receive)
      <4> DEFINE a == Len(w.key.seed)
                 b == Len(r.receiving.seed)
                 c == Len(r.root)
      <4>1. a \in Nat /\ b \in Nat /\ c \in Nat /\ a <= b /\ b + 1 = c
            /\ Len(receive) = c + 1
        BY <1>4, <1>6, <2>1
      <4> HIDE DEF a, b, c
      <4>2. a < Len(receive)
        BY <4>1
      <4> QED BY <4>2 DEF a
    <3>2. ASSUME NEW s \in DOMAIN q.skipped, w.key = q.skipped[s]
          PROVE  FALSE
      <4>1. CASE old(s)
        BY <2>1, <3>2, <4>1
      <4>2. CASE rest(s)
        <5>1. w.key.seed = r.receiving.seed /\ w.key.step \in r.received..(header.previous_chain_len - 1)
          BY <3>2, <4>2
        <5> QED BY <1>2, <1>4, <2>1, <5>1
      <4>3. CASE ahead(s)
        BY <1>4, <3>1, <3>2, <4>3
      <4> QED BY <1>10, <4>1, <4>2, <4>3
    <3> QED BY <1>10, <3>1, <3>2
  <2>3. ASSUME NEW s \in DOMAIN q.skipped, m.key = q.skipped[s]
        PROVE  FALSE
    <3>1. CASE old(s)
      BY <1>4, <1>5, <1>6, <1>7, <2>3, <3>1
    <3>2. CASE rest(s)
      BY <1>4, <1>5, <1>6, <2>3, <3>2
    <3>3. CASE ahead(s)
      BY <1>2, <1>5, <2>3, <3>3
    <3> QED BY <1>10, <3>1, <3>2, <3>3
  <2>4. m.key.seed = q.receiving.seed /\ m.key.step < q.received
    BY <1>2, <1>5, <1>10
  <2> HIDE DEF old, rest, ahead
  <2> QED BY <1>2, <1>13, <2>1, <2>2, <2>3, <2>4 DEF OpenedInv
<1>25. ASSUME NEW x \in Party, x # p
       PROVE  (SendingInv(x) /\ ReceivingInv(x) /\ SkippedInv(x) /\ OpenedInv(x))'
  BY <1>13, <1>18, <1>25, OtherSide
<1>26. \A w \in wire' : WireInv(w)'
  BY <1>11, <1>19
<1> QED BY <1>14, <1>15, <1>16, <1>20, <1>21, <1>23, <1>24, <1>25, <1>26 DEF IInv

(* Every step keeps the invariant. *)
LEMMA NextIInv == IInv /\ [Next]_vars => IInv'
<1> SUFFICES ASSUME IInv, [Next]_vars PROVE IInv'
  OBVIOUS
<1>1. CASE UNCHANGED vars
  <2>1. /\ ratchet' = ratchet /\ wire' = wire /\ generated' = generated
        /\ seals' = seals /\ opened' = opened /\ evicted' = evicted
    BY <1>1 DEF vars
  <2>2. \A x \in Party : \A dh, seed : SealsWith(x, dh, seed) => SealsWith(x, dh, seed)'
    BY <2>1 DEF SealsWith
  <2>3. TypeOK' /\ StoresAgree' /\ KeysUsedOnce'
    BY <2>1 DEF IInv, TypeOK, StoresAgree, KeysUsedOnce
  <2>4. ASSUME NEW w \in wire PROVE WireInv(w)'
    <3>1. WireInv(w) /\ w.from \in Party
      BY DEF IInv, TypeOK, Message
    <3>2. SealsWith(w.from, w.header.dh, w.key.seed)'
      BY <2>2, <3>1 DEF WireInv
    <3> QED BY <2>1, <3>1, <3>2 DEF WireInv
  <2>5. ASSUME NEW x \in Party
        PROVE  (SendingInv(x) /\ ReceivingInv(x) /\ SkippedInv(x) /\ OpenedInv(x))'
    BY <2>1, <2>2, OtherSide
  <2> QED BY <2>1, <2>3, <2>4, <2>5 DEF IInv
<1>2. CASE Next
  <2>1. PICK p \in Party : \/ Encrypt(p)
                          \/ \E m \in wire : \/ DecryptKept(p, m)
                                             \/ DecryptOnChain(p, m)
                                             \/ DecryptTurning(p, m)
    BY <1>2 DEF Next
  <2>2. CASE Encrypt(p)
    BY <2>2, EncryptIInv
  <2>3. ASSUME NEW m \in wire, DecryptKept(p, m) PROVE IInv'
    BY <2>3, DecryptKeptIInv
  <2>4. ASSUME NEW m \in wire, DecryptOnChain(p, m) PROVE IInv'
    BY <2>4, DecryptOnChainIInv
  <2>5. ASSUME NEW m \in wire, DecryptTurning(p, m) PROVE IInv'
    BY <2>5, DecryptTurningIInv
  <2> QED BY <2>1, <2>2, <2>3, <2>4, <2>5
<1> QED BY <1>1, <1>2

(* What an opened message leaves behind: no key of the chain it was on is  *)
(* at or before the message's own.                                         *)
LEMMA OpenedFacts ==
  ASSUME IInv, NEW p \in Party, NEW m \in opened[p]
  PROVE  /\ m \in wire /\ m.from = Peer(p) /\ WireInv(m)
         /\ m.key \in Chain /\ m.key.step \in Nat
         /\ m.key.seed \in Root /\ Len(m.key.seed) \in Nat
         /\ ratchet[p].receiving \in Chain /\ ratchet[p].receiving # None
         /\ ratchet[p].receiving.step = ratchet[p].received
         /\ ratchet[p].received \in Nat
         /\ Len(ratchet[p].receiving.seed) + 1 = Len(ratchet[p].root)
         /\ \A s \in DOMAIN ratchet[p].skipped : m.key # ratchet[p].skipped[s]
         /\ \/ Len(m.key.seed) < Len(ratchet[p].receiving.seed)
            \/ /\ m.key.seed = ratchet[p].receiving.seed
               /\ m.key.step < ratchet[p].received
<1> DEFINE r == ratchet[p]
<1>1. /\ IsRatchet(r) /\ ReceivingInv(p) /\ OpenedInv(p) /\ opened[p] \subseteq wire
  BY SideFacts
<1>2. m \in wire /\ WireInv(m) /\ m.key \in Chain
  BY <1>1 DEF IInv, TypeOK, Message
<1>3. m.key.step \in Nat /\ m.key.seed \in Root /\ Len(m.key.seed) \in Nat
  BY <1>2 DEF Chain, Root
<1>4. /\ r.receiving # None /\ r.receiving.step = r.received
      /\ Len(r.receiving.seed) + 1 = Len(r.root)
  BY <1>1 DEF ReceivingInv
<1>5. r.receiving \in Chain /\ r.received \in Nat
  BY <1>1, <1>4 DEF IsRatchet
<1>6. /\ m.from = Peer(p)
      /\ \A s \in DOMAIN r.skipped : m.key # r.skipped[s]
      /\ \/ Len(m.key.seed) < Len(r.receiving.seed)
         \/ m.key.seed = r.receiving.seed /\ m.key.step < r.received
  BY <1>1 DEF OpenedInv
<1> QED BY <1>2, <1>3, <1>4, <1>5, <1>6

(* The invariant rules out opening a message twice. *)
LEMMA IInvOpenedOnce == IInv => OpenedOnce
<1> SUFFICES ASSUME IInv, NEW p \in Party, NEW m \in opened[p],
                    Opens(ratchet[p], m)
             PROVE  FALSE
  BY DEF OpenedOnce
<1> DEFINE r      == ratchet[p]
           header == m.header
<1>1. /\ m \in wire /\ WireInv(m) /\ m.header \in Header
      /\ MayTry(r, header) /\ TriedKey(r, header) = m.key
      /\ IsRatchet(r) /\ SkippedInv(p) /\ m.from = Peer(p)
  BY OpenedFacts, SideFacts DEF Opens, IInv, TypeOK, Message
<1>2. ~Kept(r, header)
  BY <1>1, OpenedFacts DEF TriedKey, Kept
<1>3. header.number \in Nat /\ header.dh \in PublicKey
  BY <1>1 DEF Header
<1>4. CASE OnChain(r, header)
  <2>1. Walk(r.receiving, header.dh, r.received, header.number)
    BY <1>3, OpenedFacts, WalkFacts
  <2>2. m.key = WalkedChain(r.receiving, r.received, header.number)
    BY <1>1, <1>2, <1>4 DEF TriedKey, ReadChain, ReadFrom
  <2>3. /\ m.key.seed = r.receiving.seed
        /\ m.key.step = r.received + StepsTo(r.received, header.number)
        /\ StepsTo(r.received, header.number) \in Nat
    BY <2>1, <2>2, OpenedFacts DEF Walk
  <2> QED BY <2>3, OpenedFacts
<1>5. CASE ~OnChain(r, header)
  <2> DEFINE receive == TurnReceiving(r, header.dh)
  <2>1. r.root \in Root /\ r.ours \in PublicKey
    BY <1>1 DEF IsRatchet
  <2>2. receive = Append(r.root, {r.ours, header.dh})
    BY DEF TurnReceiving, KdfRoot, DiffieHellman
  <2>3. m.key = WalkedChain(ChainFrom(receive), 0, header.number)
    BY <1>1, <1>2, <1>5 DEF TriedKey, ReadChain, ReadFrom
  <2> HIDE DEF receive
  <2>4. receive \in Root /\ Len(receive) = Len(r.root) + 1 /\ Len(r.root) \in Nat
    BY <1>3, <2>1, <2>2 DEF Root
  <2>5. m.key.seed = receive
    BY <2>3 DEF WalkedChain, ChainFrom
  <2>6. /\ Len(r.receiving.seed) + 1 = Len(r.root)
        /\ Len(r.receiving.seed) \in Nat
        /\ Len(m.key.seed) <= Len(r.receiving.seed)
    BY OpenedFacts DEF Chain, Root
  <2> DEFINE a == Len(m.key.seed)
             b == Len(r.receiving.seed)
             c == Len(r.root)
  <2>7. a = c + 1 /\ b + 1 = c /\ a <= b /\ b \in Nat /\ c \in Nat
    BY <2>4, <2>5, <2>6
  <2> HIDE DEF a, b, c
  <2> QED BY <2>7
<1> QED BY <1>4, <1>5

(* The invariant is forward secrecy. *)
LEMMA IInvSpentKeysAreGone == IInv => SpentKeysAreGone
<1> SUFFICES ASSUME IInv, NEW p \in Party, NEW m \in wire,
                    m.from = p \/ m \in opened[p], Derives(ratchet[p], m.key)
             PROVE  FALSE
  BY DEF SpentKeysAreGone
<1> DEFINE r == ratchet[p]
<1>1. /\ IsRatchet(r) /\ SendingInv(p) /\ ReceivingInv(p) /\ SkippedInv(p)
      /\ Peer(p) \in Party /\ Peer(p) # p /\ Peer(Peer(p)) = p
  BY SideFacts DEF Peer, Party
<1>2. /\ WireInv(m) /\ m.key \in Chain /\ m.header.number \in Nat
      /\ m.from \in Party
  BY DEF IInv, TypeOK, Message, Header
<1>3. r.sending # None =>
         r.sending.seed = r.root /\ r.sending.step = r.sent /\ Owns(p, r.root)
  BY <1>1 DEF SendingInv
<1>4. r.receiving # None => Owns(Peer(p), r.receiving.seed)
  <2> SUFFICES ASSUME r.receiving # None PROVE Owns(Peer(p), r.receiving.seed)
    OBVIOUS
  <2>1. /\ r.receiving.seed \in Root /\ r.root \in Root
        /\ Len(r.root) = Len(r.receiving.seed) + 1
    BY <1>1 DEF ReceivingInv, IsRatchet, Chain, Root
  <2>2. Owns(p, r.root)
    BY <1>1 DEF SendingInv
  <2>3. Owns(Peer(p), r.receiving.seed) <=> Owns(Peer(Peer(p)), r.root)
    BY <1>1, <2>1, OwnsFacts
  <2> QED BY <1>1, <2>2, <2>3
<1>5. CASE m.from = p
  <2>1. \A s \in DOMAIN r.skipped : r.skipped[s].seed # m.key.seed
    BY <1>1, <1>2, <1>5, OwnsFacts DEF SkippedInv, WireInv
  <2>2. r.receiving # None => r.receiving.seed # m.key.seed
    BY <1>1, <1>2, <1>4, <1>5, OwnsFacts DEF WireInv
  <2>3. ASSUME r.sending # None, r.sending.seed = m.key.seed
        PROVE  ~(r.sending.step <= m.key.step)
    <3>1. Len(r.root) \in Nat /\ r.sent \in Nat
      BY <1>1 DEF IsRatchet, Root
    <3>2. m.header.dh = r.ours
      BY <1>2, <1>3, <1>5, <2>3, <3>1 DEF WireInv, SealsWith
    <3> QED BY <1>2, <1>3, <1>5, <2>3, <3>1, <3>2 DEF WireInv
  <2> QED BY <2>1, <2>2, <2>3 DEF Derives
<1>6. CASE m \in opened[p]
  <2>1. \A s \in DOMAIN r.skipped : m.key # r.skipped[s]
    BY <1>6, OpenedFacts
  <2>2. r.sending # None => r.sending.seed # m.key.seed
    <3>1. Owns(Peer(p), m.key.seed)
      BY <1>6, OpenedFacts DEF WireInv
    <3> QED BY <1>1, <1>3, <3>1, OwnsFacts
  <2>3. r.receiving.seed = m.key.seed => ~(r.receiving.step <= m.key.step)
    <3>1. /\ m.key.step \in Nat /\ Len(m.key.seed) \in Nat
          /\ r.receiving.step = r.received /\ r.received \in Nat
          /\ \/ Len(m.key.seed) < Len(r.receiving.seed)
             \/ m.key.seed = r.receiving.seed /\ m.key.step < r.received
      BY <1>6, OpenedFacts
    <3> QED BY <3>1
  <2> QED BY <2>1, <2>2, <2>3 DEF Derives
<1> QED BY <1>5, <1>6

(* Every reachable state satisfies the invariant. *)
THEOREM Invariance == Spec => []IInv
<1>1. IInv /\ [Next]_vars => IInv'
  BY NextIInv
<1> QED BY <1>1, InitIInv, PTL DEF Spec

(* Every variable keeps its type: in particular every ratchet a             *)
(* conversation reaches has the shape from_state accepts.                  *)
THEOREM TypeCorrect == Spec => []TypeOK
<1>1. IInv => TypeOK
  BY DEF IInv
<1> QED BY <1>1, Invariance, PTL

(* The kept keys and the order they were kept in always list the same      *)
(* slots, each once and within MAX_SKIPPED_KEYS: to_state never meets a    *)
(* slot without a key, and from_state never refuses what to_state wrote.   *)
THEOREM StoresStayInStep == Spec => []StoresAgree
<1>1. IInv => StoresAgree
  BY DEF IInv
<1> QED BY <1>1, Invariance, PTL

(* No message key seals two messages, whatever is lost, repeated or        *)
(* reordered: the nonce nonce_for draws from the number is never reused.   *)
THEOREM NoNonceTwice == Spec => []KeysUsedOnce
<1>1. IInv => KeysUsedOnce
  BY DEF IInv
<1> QED BY <1>1, Invariance, PTL

(* decrypt never returns a message it has returned before. *)
THEOREM NoReplay == Spec => []OpenedOnce
<1> QED BY Invariance, IInvOpenedOnce, PTL

(* Nothing a ratchet holds after sealing or opening a message leads back   *)
(* to that message's key.                                                  *)
THEOREM ForwardSecrecy == Spec => []SpentKeysAreGone
<1> QED BY Invariance, IInvSpentKeysAreGone, PTL

-----------------------------------------------------------------------------
(* Nothing is lost: each side's record of what it has not opened matches   *)
(* what the other has sealed.                                              *)

(* What the invariant says of a message and of the side that sealed it. *)
LEMMA MessageFacts ==
  ASSUME IInv, NEW m \in wire
  PROVE  LET s == ratchet[m.from] IN
         /\ m.from \in Party /\ m.header \in Header /\ m.key \in Chain
         /\ m.header.dh \in PublicKey /\ m.header.number \in Nat
         /\ m.header.previous_chain_len \in Nat
         /\ m.key.seed \in Root /\ Len(m.key.seed) \in Nat
         /\ m.key.step = m.header.number
         /\ Owns(m.from, m.key.seed)
         /\ SealsWith(m.from, m.header.dh, m.key.seed)
         /\ s.root \in Root /\ Len(s.root) \in Nat /\ s.sent \in Nat
         /\ Len(m.key.seed) <= Len(s.root)
         /\ Len(m.key.seed) = Len(s.root) <=> m.header.dh = s.ours
         /\ m.header.dh = s.ours =>
               m.key.seed = s.root /\ s.sending # None /\ m.header.number < s.sent
<1> DEFINE s == ratchet[m.from]
<1>1. /\ m.from \in Party /\ m.header \in Header /\ m.key \in Chain /\ WireInv(m)
  BY DEF IInv, TypeOK, Message
<1>2. IsRatchet(s) /\ SendingInv(m.from)
  BY <1>1, SideFacts
<1>3. /\ m.header.dh \in PublicKey /\ m.header.number \in Nat
      /\ m.header.previous_chain_len \in Nat
  BY <1>1 DEF Header
<1>4. m.key.seed \in Root /\ Len(m.key.seed) \in Nat
  BY <1>1 DEF Chain, Root
<1>5. s.root \in Root /\ Len(s.root) \in Nat /\ s.sent \in Nat
  BY <1>2 DEF IsRatchet, Root
<1>6. /\ m.key.step = m.header.number
      /\ Owns(m.from, m.key.seed)
      /\ SealsWith(m.from, m.header.dh, m.key.seed)
      /\ m.header.dh = s.ours => m.header.number < s.sent
  BY <1>1 DEF WireInv
<1>7. IF m.header.dh = s.ours
      THEN s.sending # None /\ m.key.seed = s.root
      ELSE Len(m.key.seed) < Len(s.root)
  BY <1>2, <1>6 DEF SealsWith, SendingInv
<1> QED BY <1>1, <1>3, <1>4, <1>5, <1>6, <1>7

(* One key of a side's names one chain, and a slot one message. *)
LEMMA OneChain ==
  ASSUME IInv, NEW m \in wire, NEW w \in wire,
         m.from = w.from, m.header.dh = w.header.dh
  PROVE  /\ m.key.seed = w.key.seed
         /\ m.header.number = w.header.number => m = w
<1>1. m.key.seed = w.key.seed
  BY MessageFacts DEF SealsWith
<1>2. ASSUME m.header.number = w.header.number PROVE m = w
  <2>1. m.key = w.key
    BY <1>1, <1>2, MessageFacts DEF Chain
  <2> QED BY <2>1 DEF IInv, KeysUsedOnce
<1> QED BY <1>1, <1>2

(* What the invariant says of the chain a side reads on. *)
LEMMA ReadingFacts ==
  ASSUME IInv, NEW p \in Party, ratchet[p].receiving # None
  PROVE  LET r == ratchet[p] IN
         /\ r.receiving \in Chain /\ r.receiving.step = r.received
         /\ Len(r.receiving.seed) \in Nat /\ Len(r.root) \in Nat
         /\ Len(r.receiving.seed) + 1 = Len(r.root)
         /\ r.received \in Nat /\ r.theirs # None
         /\ \A w \in wire : w.from = Peer(p) /\ w.header.dh = r.theirs =>
                w.key.seed = r.receiving.seed
<1>1. IsRatchet(ratchet[p]) /\ ReceivingInv(p)
  BY SideFacts
<1> QED BY <1>1 DEF IsRatchet, ReceivingInv, SealsWith, Chain, Root

(* The two roots are one turn apart. *)
LEMMA RootsFacts ==
  ASSUME IInv, TurnsInv, NEW p \in Party
  PROVE  LET r == ratchet[p]
             s == ratchet[Peer(p)]
         IN /\ r.root \in Root /\ s.root \in Root
            /\ Len(r.root) \in Nat /\ Len(s.root) \in Nat
            /\ \/ /\ Len(s.root) = Len(r.root) + 1
                  /\ s.root = Append(r.root, {r.ours, s.ours})
               \/ Len(r.root) = Len(s.root) + 1
<1> DEFINE r == ratchet[p]
           s == ratchet[Peer(p)]
<1>1. /\ r.root \in Root /\ s.root \in Root /\ r.ours \in PublicKey
      /\ s.ours \in PublicKey /\ Peer(p) \in Party /\ Peer(Peer(p)) = p
  BY SideFacts DEF IsRatchet, Peer, Party
<1>2. Len(r.root) \in Nat /\ Len(s.root) \in Nat
  BY <1>1 DEF Root
<1>3. PICK x \in Party : Leads(Peer(x), x)
  BY DEF TurnsInv
<1>4. CASE x = p
  <2>1. s.root = Append(r.root, {r.ours, s.ours})
    BY <1>3, <1>4 DEF Leads, DiffieHellman
  <2> HIDE DEF r, s
  <2>2. Len(s.root) = Len(r.root) + 1
    BY <1>1, <2>1 DEF Root
  <2> QED BY <1>1, <1>2, <2>1, <2>2 DEF r, s
<1>5. CASE x = Peer(p)
  <2>1. r.root = Append(s.root, {s.ours, r.ours})
    BY <1>1, <1>3, <1>5 DEF Leads, DiffieHellman
  <2> HIDE DEF r, s
  <2>2. Len(r.root) = Len(s.root) + 1
    BY <1>1, <2>1 DEF Root
  <2> QED BY <1>1, <1>2, <2>2 DEF r, s
<1> QED BY <1>4, <1>5, PeerFacts

(* A message on a chain as long as the reader's root is on the chain the   *)
(* reader's next turn makes.                                               *)
LEMMA NewTurn ==
  ASSUME IInv, TurnsInv, NEW p \in Party, NEW m \in wire, m.from = Peer(p),
         Len(m.key.seed) >= Len(ratchet[p].root)
  PROVE  /\ m.header.dh = ratchet[Peer(p)].ours
         /\ m.key.seed = ratchet[Peer(p)].root
         /\ m.key.seed = Append(ratchet[p].root, {ratchet[p].ours, m.header.dh})
         /\ Len(m.key.seed) = Len(ratchet[p].root) + 1
<1> DEFINE r == ratchet[p]
           s == ratchet[Peer(p)]
           n == Len(m.key.seed)
           a == Len(r.root)
           b == Len(s.root)
<1>1. n \in Nat /\ a \in Nat /\ b \in Nat /\ n <= b /\ n >= a
  BY MessageFacts, RootsFacts
<1>2. n # a
  <2>1. n % 2 = 1 - Peer(p) /\ a % 2 = 1 - p
    BY MessageFacts, SideFacts DEF Owns, SendingInv
  <2> HIDE DEF n, a
  <2> QED BY <2>1 DEF Peer, Party
<1>3. \/ b = a + 1 /\ s.root = Append(r.root, {r.ours, s.ours})
      \/ a = b + 1
  BY RootsFacts
<1>4. n = b <=> m.header.dh = s.ours
  BY MessageFacts
<1>5. m.header.dh = s.ours => m.key.seed = s.root
  BY MessageFacts
<1> HIDE DEF n, a, b, r, s
<1>6. n = a + 1 /\ n = b /\ s.root = Append(r.root, {r.ours, s.ours})
  BY <1>1, <1>2, <1>3
<1> QED BY <1>4, <1>5, <1>6 DEF n, a, r, s

(* A message of a chain not read on yet is on that chain. *)
LEMMA Unread ==
  ASSUME IInv, TurnsInv, NEW p \in Party, StartInv(p),
         NEW m \in wire, m.from = Peer(p), HeaderInv(m),
         \/ ratchet[p].receiving = None
         \/ Len(m.key.seed) > Len(ratchet[p].receiving.seed)
  PROVE  /\ Len(m.key.seed) >= Len(ratchet[p].root)
         /\ m.header.dh # ratchet[p].theirs
<1> DEFINE r == ratchet[p]
<1>1. /\ m.key.seed \in Root /\ Len(m.key.seed) \in Nat
      /\ m.header.dh \in PublicKey
  BY MessageFacts
<1>2. CASE r.receiving = None
  <2>1. /\ Len(r.root) = 1 - p /\ r.theirs \in {None, <<1, 0>>}
        /\ m.key.seed # <<>> /\ m.header.dh # <<1, 0>>
    BY <1>2 DEF StartInv, HeaderInv
  <2>2. Len(m.key.seed) > 0
    BY <1>1, <2>1 DEF Root
  <2>3. Len(m.key.seed) >= Len(r.root)
    BY <1>1, <2>1, <2>2 DEF Party
  <2> QED BY <1>1, <2>1, <2>3, NoneAssumption
<1>3. CASE r.receiving # None
  <2>1. /\ Len(r.receiving.seed) \in Nat /\ Len(r.root) \in Nat
        /\ Len(r.receiving.seed) + 1 = Len(r.root)
        /\ m.header.dh = r.theirs => m.key.seed = r.receiving.seed
    BY <1>3, ReadingFacts
  <2>2. Len(m.key.seed) > Len(r.receiving.seed)
    BY <1>3
  <2> HIDE DEF r
  <2>3. m.header.dh # r.theirs
    BY <1>1, <2>1, <2>2
  <2>4. Len(m.key.seed) >= Len(r.root)
    BY <1>1, <2>1, <2>2
  <2> QED BY <2>3, <2>4 DEF r
<1> QED BY <1>2, <1>3

(* The invariant holds when the conversation is paired. *)
LEMMA InitLoss == Init => LossInv
<1> SUFFICES ASSUME Init PROVE LossInv
  OBVIOUS
<1> DEFINE root == KdfRoot(<<>>, DiffieHellman(<<0, 0>>, <<1, 0>>))
<1>1. ratchet[0] = Initiator(<<0, 0>>, <<1, 0>>) /\ ratchet[1] = Responder(<<1, 0>>)
  BY DEF Init, Party
<1>2. wire = {} /\ \A p \in Party : generated[p] = 1
  BY DEF Init
<1>3. root = Append(<<>>, {<<1, 0>>, <<0, 0>>}) /\ Len(root) = 1 /\ root # <<>>
  <2>1. root = Append(<<>>, {<<1, 0>>, <<0, 0>>})
    BY DEF KdfRoot, DiffieHellman
  <2>2. root = <<{<<0, 0>>, <<1, 0>>}>>
    BY DEF KdfRoot, DiffieHellman
  <2> HIDE DEF root
  <2>3. Len(root) = 1 /\ root # <<>>
    BY <2>2
  <2> QED BY <2>1, <2>3
<1> HIDE DEF root
<1>4. \A p \in Party :
         LET r == ratchet[p] IN
         /\ r.root = IF p = 0 THEN root ELSE <<>>
         /\ r.ours = <<p, 0>> /\ r.receiving = None
         /\ r.theirs = IF p = 0 THEN <<1, 0>> ELSE None
         /\ p = 1 => r.sending = None
  BY <1>1 DEF Party, Initiator, Responder, root
<1>5. TurnsInv
  <2>1. /\ ratchet[0].root = root /\ ratchet[0].ours = <<0, 0>>
        /\ ratchet[1].root = <<>> /\ ratchet[1].ours = <<1, 0>>
    BY <1>4 DEF Party
  <2>2. Leads(0, 1)
    BY <1>3, <2>1 DEF Leads, DiffieHellman
  <2> QED BY <2>2 DEF TurnsInv, Party, Peer
<1>7. \A p \in Party : StartInv(p)
  <2>1. Len(<<>>) = 0 /\ <<0, 0>> # <<1, 0>>
    OBVIOUS
  <2>2. StartInv(0)
    <3>1. 0 \in Party
      BY DEF Party
    <3>2. /\ ratchet[0].root = root /\ ratchet[0].ours = <<0, 0>>
          /\ ratchet[0].theirs = <<1, 0>> /\ generated[0] = 1
      BY <1>2, <1>4, <3>1
    <3> QED BY <1>3, <2>1, <3>2 DEF StartInv
  <2>3. StartInv(1)
    <3>1. 1 \in Party
      BY DEF Party
    <3>2. /\ ratchet[1].root = <<>> /\ ratchet[1].sending = None
          /\ ratchet[1].theirs = None /\ generated[1] = 1
      BY <1>2, <1>4, <3>1
    <3> QED BY <2>1, <3>2 DEF StartInv
  <2> QED BY <2>2, <2>3 DEF Party
<1>6. \A p \in Party : ChainLenInv(p) /\ LastRead(p) /\ Accounted(p)
  BY <1>2, <1>4 DEF ChainLenInv, LastRead, Accounted
<1> QED BY <1>2, <1>5, <1>6, <1>7, InitIInv DEF LossInv

(* Sealing keeps the invariant: the new message is ahead of its reader. *)
LEMMA EncryptLoss ==
  ASSUME LossInv, NEW p \in Party, Encrypt(p)
  PROVE  LossInv'
<1> DEFINE r   == ratchet[p]
           q   == AfterEncrypt(r)
           new == [from |-> p, header |-> HeaderOf(r), key |-> r.sending,
                   body |-> seals[p]]
<1>1. IInv /\ TurnsInv /\ IsRatchet(r) /\ SendingInv(p)
  BY SideFacts DEF LossInv
<1>2. CanSend(r) /\ r.sent + 1 <= MaxNumber /\ r.sent \in Nat
  BY <1>1 DEF Encrypt, CanEncrypt, IsRatchet
<1>3. /\ q.root = r.root /\ q.ours = r.ours /\ q.theirs = r.theirs
      /\ q.receiving = r.receiving /\ q.received = r.received
      /\ q.previous_chain_len = r.previous_chain_len /\ q.skipped = r.skipped
  BY <1>1, <1>2, EncryptFields
<1>4. /\ wire' = wire \cup {new}
      /\ ratchet' = [ratchet EXCEPT ![p] = q]
      /\ generated' = generated /\ opened' = opened /\ evicted' = evicted
  BY DEF Encrypt
<1>5. /\ new.from = p /\ new.header.dh = r.ours /\ new.header.number = r.sent
      /\ new.header.previous_chain_len = r.previous_chain_len
      /\ new.key.seed = r.root
  BY <1>1, <1>2 DEF HeaderOf, SendingInv, CanSend
<1> HIDE DEF new, q
<1>6. \A x \in Party :
         /\ ratchet'[x].root = ratchet[x].root
         /\ ratchet'[x].ours = ratchet[x].ours
         /\ ratchet'[x].theirs = ratchet[x].theirs
         /\ ratchet'[x].receiving = ratchet[x].receiving
         /\ ratchet'[x].received = ratchet[x].received
         /\ ratchet'[x].previous_chain_len = ratchet[x].previous_chain_len
         /\ ratchet'[x].skipped = ratchet[x].skipped
         /\ ratchet'[x].sending # None => ratchet[x].sending # None
  BY <1>1, <1>2, <1>3, <1>4 DEF IInv, TypeOK, CanSend
<1>7. IInv'
  BY <1>1, EncryptIInv
<1>8. TurnsInv'
  BY <1>1, <1>6, PeerFacts DEF TurnsInv, Leads
<1>9. \A x \in Party : StartInv(x)'
  BY <1>4, <1>6 DEF LossInv, StartInv
<1>10. \A w \in wire : w.from = p =>
          /\ Len(w.key.seed) \in Nat /\ Len(r.root) \in Nat
          /\ Len(w.key.seed) <= Len(r.root)
          /\ Len(w.key.seed) = Len(r.root) => w.header.dh = r.ours
          /\ w.header.dh = r.ours => w.header.number < r.sent
  BY <1>1, MessageFacts
<1>11. ASSUME NEW m \in wire' PROVE HeaderInv(m)'
  <2>1. CASE m \in wire
    <3>1. HeaderInv(m)
      BY <2>1 DEF LossInv
    <3>2. ASSUME NEW w \in wire', w.from = m.from
          PROVE  /\ Len(w.key.seed) = Len(m.key.seed) => w.header.dh = m.header.dh
                 /\ Len(w.key.seed) + 2 = Len(m.key.seed) =>
                       w.header.number < m.header.previous_chain_len
      <4>1. CASE w \in wire
        BY <3>1, <3>2, <4>1 DEF HeaderInv
      <4>2. CASE w = new
        BY <1>5, <1>10, <2>1, <3>2, <4>2
      <4> QED BY <1>4, <4>1, <4>2
    <3> QED BY <3>1, <3>2 DEF HeaderInv
  <2>2. CASE m = new
    <3>1. /\ r.sent < MaxNumber /\ r.root # <<>> /\ r.ours # <<1, 0>>
          /\ ChainLenInv(p)
      BY <1>2, LimitsAssumption DEF LossInv, StartInv, CanSend
    <3>2. Len(r.root) \in Nat
      BY <1>1 DEF IsRatchet, Root
    <3>3. ASSUME NEW w \in wire', w.from = p
          PROVE  /\ Len(w.key.seed) = Len(r.root) => w.header.dh = r.ours
                 /\ Len(w.key.seed) + 2 = Len(r.root) =>
                       w.header.number < r.previous_chain_len
      <4>1. CASE w \in wire
        BY <1>10, <3>1, <3>3, <4>1 DEF ChainLenInv
      <4>2. CASE w = new
        BY <1>5, <3>2, <4>2
      <4> QED BY <1>4, <4>1, <4>2
    <3> QED BY <1>5, <2>2, <3>1, <3>3 DEF HeaderInv
  <2> QED BY <1>4, <2>1, <2>2
<1>12. ASSUME NEW x \in Party PROVE ChainLenInv(x)'
  <2>1. ChainLenInv(x)
    BY DEF LossInv
  <2>2. Len(r.root) \in Nat
    BY <1>1 DEF IsRatchet, Root
  <2>3. new.from = x => Len(new.key.seed) + 2 # Len(ratchet[x].root)
    BY <1>5, <2>2
  <2> QED BY <1>4, <1>6, <2>1, <2>3 DEF ChainLenInv
<1>13. ASSUME NEW x \in Party PROVE LastRead(x)'
  <2>1. LastRead(x)
    BY DEF LossInv
  <2> QED BY <1>4, <1>6, <2>1 DEF LastRead
<1>14. ASSUME NEW x \in Party PROVE Accounted(x)'
  <2>1. Accounted(x)
    BY DEF LossInv
  <2>2. ASSUME p = Peer(x) PROVE Ahead(ratchet[x], new)
    <3> DEFINE o == ratchet[x]
    <3> SUFFICES ASSUME o.receiving # None,
                        ~(Len(r.root) > Len(o.receiving.seed))
                 PROVE  r.ours = o.theirs /\ r.sent >= o.received
      BY <1>5 DEF Ahead
    <3>1. /\ Len(o.receiving.seed) \in Nat /\ Len(o.root) \in Nat
          /\ Len(o.receiving.seed) + 1 = Len(o.root) /\ o.received \in Nat
          /\ \A w \in wire : w.from = Peer(x) /\ w.header.dh = o.theirs =>
                 w.key.seed = o.receiving.seed
      BY <1>1, ReadingFacts
    <3>2. /\ Len(r.root) \in Nat
          /\ Len(r.root) = Len(o.root) + 1 \/ Len(o.root) = Len(r.root) + 1
      BY <1>1, <2>2, RootsFacts
    <3>3. Len(r.root) = Len(o.receiving.seed)
      BY <3>1, <3>2
    <3>4. PICK w \in wire : /\ w.from = Peer(x) /\ w.header.dh = o.theirs
                            /\ o.received <= w.header.number + 1
      BY DEF LossInv, LastRead
    <3>5. w.key.seed = o.receiving.seed /\ w.header.number \in Nat
      BY <1>1, <3>1, <3>4, MessageFacts
    <3>6. w.header.dh = r.ours /\ w.header.number < r.sent
      BY <1>10, <2>2, <3>3, <3>4, <3>5
    <3> HIDE DEF o
    <3> QED BY <1>2, <3>1, <3>4, <3>5, <3>6
  <2>3. ASSUME NEW m \in wire', m.from = Peer(x)
        PROVE  \/ m \in opened[x]
               \/ SlotOf(m.header) \in DOMAIN ratchet[x].skipped \cup evicted[x]
               \/ Ahead(ratchet[x], m)
    <3>1. CASE m \in wire
      BY <2>1, <2>3, <3>1 DEF Accounted
    <3>2. CASE m = new
      BY <1>5, <2>2, <2>3, <3>2
    <3> QED BY <1>4, <3>1, <3>2
  <2> QED BY <1>4, <1>6, <2>3 DEF Accounted, Ahead
<1> QED BY <1>7, <1>8, <1>9, <1>11, <1>12, <1>13, <1>14 DEF LossInv

(* Opening puts nothing on the wire: the headers, and the side that does   *)
(* not move, stay as they were.                                            *)
LEMMA OtherLoss ==
  ASSUME LossInv, NEW p \in Party, wire' = wire,
         \A x \in Party \ {p} :
             /\ ratchet'[x] = ratchet[x] /\ generated'[x] = generated[x]
             /\ opened'[x] = opened[x] /\ evicted'[x] = evicted[x],
         IInv', TurnsInv',
         (StartInv(p) /\ ChainLenInv(p) /\ LastRead(p) /\ Accounted(p))'
  PROVE  LossInv'
<1>1. ASSUME NEW m \in wire' PROVE HeaderInv(m)'
  <2>1. HeaderInv(m)
    BY DEF LossInv
  <2> QED BY <2>1 DEF HeaderInv
<1>2. ASSUME NEW x \in Party, x # p
      PROVE  (StartInv(x) /\ ChainLenInv(x) /\ LastRead(x) /\ Accounted(x))'
  <2>1. StartInv(x) /\ ChainLenInv(x) /\ LastRead(x) /\ Accounted(x)
    BY DEF LossInv
  <2>2. /\ ratchet'[x] = ratchet[x] /\ generated'[x] = generated[x]
        /\ opened'[x] = opened[x] /\ evicted'[x] = evicted[x]
    BY <1>2
  <2>3. StartInv(x)'
    BY <2>1, <2>2 DEF StartInv
  <2>4. ChainLenInv(x)'
    BY <2>1, <2>2 DEF ChainLenInv
  <2>5. LastRead(x)'
    BY <2>1, <2>2 DEF LastRead
  <2>6. Accounted(x)'
    BY <2>1, <2>2 DEF Accounted
  <2> QED BY <2>3, <2>4, <2>5, <2>6
<1> QED BY <1>1, <1>2 DEF LossInv

(* Opening without a turn leaves the two roots, and what is sealed, alone. *)
LEMMA NoTurnLoss ==
  ASSUME LossInv, NEW p \in Party, NEW q,
         q.root = ratchet[p].root, q.ours = ratchet[p].ours,
         q.theirs = ratchet[p].theirs, q.sending = ratchet[p].sending,
         q.previous_chain_len = ratchet[p].previous_chain_len,
         q.receiving = None => ratchet[p].receiving = None,
         ratchet' = [ratchet EXCEPT ![p] = q],
         wire' = wire, generated' = generated,
         \A x \in Party \ {p} : opened'[x] = opened[x] /\ evicted'[x] = evicted[x],
         IInv', (LastRead(p) /\ Accounted(p))'
  PROVE  LossInv'
<1>1. \A x \in Party : ratchet'[x] = IF x = p THEN q ELSE ratchet[x]
  BY DEF LossInv, IInv, TypeOK
<1>2. \A x \in Party : ratchet'[x].root = ratchet[x].root
                       /\ ratchet'[x].ours = ratchet[x].ours
  BY <1>1
<1>3. TurnsInv'
  BY <1>2, PeerFacts DEF LossInv, TurnsInv, Leads
<1>4. StartInv(p)'
  <2>1. StartInv(p)
    BY DEF LossInv
  <2> QED BY <1>1, <2>1 DEF StartInv
<1>5. ChainLenInv(p)'
  <2>1. ChainLenInv(p)
    BY DEF LossInv
  <2> QED BY <1>1, <2>1 DEF ChainLenInv
<1> QED BY <1>1, <1>3, <1>4, <1>5, OtherLoss

(* Opening by a kept key: the slot given up was the message's own. *)
LEMMA DecryptKeptLoss ==
  ASSUME LossInv, NEW p \in Party, NEW m \in wire, DecryptKept(p, m)
  PROVE  LossInv'
<1> DEFINE r    == ratchet[p]
           slot == SlotOf(m.header)
           q    == ForgetSkipped(r, slot)
<1>1. /\ IInv /\ IsRatchet(r) /\ SlotsAgree(r)
      /\ LastRead(p) /\ Accounted(p)
  BY SideFacts DEF LossInv
<1>2. slot \in DOMAIN r.skipped /\ m.from = Peer(p)
  BY <1>1, ArrivedFacts DEF DecryptKept, Kept
<1>3. /\ q.root = r.root /\ q.ours = r.ours /\ q.theirs = r.theirs
      /\ q.sending = r.sending /\ q.receiving = r.receiving
      /\ q.received = r.received
      /\ q.previous_chain_len = r.previous_chain_len
      /\ DOMAIN q.skipped = DOMAIN r.skipped \ {slot}
  BY <1>1, <1>2, ForgetFields
<1>4. /\ ratchet' = [ratchet EXCEPT ![p] = q]
      /\ opened' = [opened EXCEPT ![p] = @ \cup {m}]
      /\ wire' = wire /\ generated' = generated /\ evicted' = evicted
  BY DEF DecryptKept, AfterKept
<1>5. IInv'
  BY <1>1, DecryptKeptIInv
<1> HIDE DEF q
<1>6. /\ ratchet'[p] = q /\ opened'[p] = opened[p] \cup {m}
      /\ \A x \in Party \ {p} : opened'[x] = opened[x] /\ evicted'[x] = evicted[x]
  BY <1>1, <1>4 DEF IInv, TypeOK
<1>7. LastRead(p)'
  BY <1>1, <1>3, <1>4, <1>6 DEF LastRead
<1>8. ASSUME NEW w \in wire, w.from = Peer(p)
      PROVE  \/ w \in opened'[p]
             \/ SlotOf(w.header) \in DOMAIN q.skipped \cup evicted[p]
             \/ Ahead(q, w)
  <2>1. CASE SlotOf(w.header) = slot
    <3>1. w = m
      BY <1>1, <1>2, <1>8, <2>1, OneChain DEF SlotOf
    <3> QED BY <1>6, <3>1
  <2>2. CASE SlotOf(w.header) # slot
    <3>1. \/ w \in opened[p]
          \/ SlotOf(w.header) \in DOMAIN r.skipped \cup evicted[p]
          \/ Ahead(r, w)
      BY <1>1, <1>8 DEF Accounted
    <3>2. Ahead(r, w) => Ahead(q, w)
      BY <1>3 DEF Ahead
    <3> QED BY <1>3, <1>6, <2>2, <3>1, <3>2
  <2> QED BY <2>1, <2>2
<1>9. Accounted(p)'
  BY <1>4, <1>6, <1>8 DEF Accounted, Ahead
<1> QED BY <1>3, <1>4, <1>5, <1>6, <1>7, <1>9, NoTurnLoss

(* A slot held or walked is held after, or was let go. *)
LEMMA HeldOrLetGo ==
  ASSUME NEW p, NEW walked, NEW s \in DOMAIN ratchet[p].skipped \cup walked,
         Keeps(ratchet[p], walked, ratchet'[p])
  PROVE  s \in DOMAIN ratchet'[p].skipped \cup LetGo(p, walked)
<1> DEFINE had == DOMAIN ratchet[p].skipped \cup walked
<1>1. /\ IsFiniteSet(had) /\ s \in had
      /\ Cardinality(had) <= MaxSkippedKeys => had \subseteq DOMAIN ratchet'[p].skipped
  BY DEF Keeps
<1>2. LetGo(p, walked) = IF Cardinality(had) > MaxSkippedKeys
                         THEN had \ DOMAIN ratchet'[p].skipped ELSE {}
  BY DEF LetGo
<1> HIDE DEF had
<1>3. Cardinality(had) \in Nat
  BY <1>1, FS_CardinalityType
<1>4. CASE Cardinality(had) <= MaxSkippedKeys
  BY <1>1, <1>4
<1>5. CASE Cardinality(had) > MaxSkippedKeys
  BY <1>1, <1>2, <1>5
<1> QED BY <1>3, <1>4, <1>5, LimitsAssumption

(* Opening on the chain in hand: what the walk passed over is kept or let  *)
(* go, and what it did not reach is still ahead.                           *)
LEMMA DecryptOnChainLoss ==
  ASSUME LossInv, NEW p \in Party, NEW m \in wire, DecryptOnChain(p, m)
  PROVE  LossInv'
<1> DEFINE r      == ratchet[p]
           header == m.header
           walked == {header.dh} \X (r.received..(header.number - 1))
           q      == AfterOnChain(r, header)
<1>1. /\ IInv /\ IsRatchet(r) /\ SlotsAgree(r) /\ SkippedInv(p) /\ Accounted(p)
  BY SideFacts DEF LossInv
<1>2. /\ OnChain(r, header) /\ ~Kept(r, header) /\ m.from = Peer(p)
      /\ header \in Header /\ header.number \in Nat /\ header.dh \in PublicKey
      /\ header.dh = r.theirs /\ m.key.step = header.number
  BY <1>1, ArrivedFacts DEF DecryptOnChain, OnChain, WireInv
<1>3. r.receiving # None
  BY <1>1, <1>2, ArrivedFacts DEF DecryptOnChain, MayTry
<1>4. /\ r.receiving \in Chain /\ r.receiving.step = r.received
      /\ Len(r.receiving.seed) \in Nat /\ r.received \in Nat
  BY <1>1, <1>3, ReadingFacts
<1>5. /\ q.root = r.root /\ q.ours = r.ours /\ q.theirs = r.theirs
      /\ q.sending = r.sending
      /\ q.previous_chain_len = r.previous_chain_len
      /\ q.received = r.received + StepsTo(r.received, header.number) + 1
      /\ q.receiving = [seed |-> r.receiving.seed, step |-> q.received]
      /\ Keeps(r, walked, q) /\ IsRatchet(q)
  <2>1. \A s \in DOMAIN r.skipped : s[1] = r.theirs => s[2] < r.received
    BY <1>1 DEF SkippedInv
  <2> HIDE DEF q, walked
  <2> QED BY <1>1, <1>2, <1>4, <2>1, OnChainFields DEF q, walked
<1>6. header.number >= r.received /\ q.received = header.number + 1
  <2>1. m.key = WalkedChain(r.receiving, r.received, header.number)
    BY <1>1, <1>2, ArrivedFacts DEF DecryptOnChain, TriedKey, ReadChain, ReadFrom
  <2> HIDE DEF r, header
  <2>2. m.key.step = r.received + StepsTo(r.received, header.number)
    <3>1. Walk(r.receiving, header.dh, r.received, header.number)
      BY <1>2, <1>4, WalkFacts
    <3>2. m.key = [seed |-> r.receiving.seed,
                   step |-> r.receiving.step + StepsTo(r.received, header.number)]
      BY <2>1, <3>1 DEF Walk
    <3> QED BY <1>4, <3>2
  <2> HIDE DEF q
  <2> QED BY <1>2, <1>4, <1>5, <2>2 DEF StepsTo
<1>7. /\ ratchet' = [ratchet EXCEPT ![p] = q]
      /\ opened' = [opened EXCEPT ![p] = @ \cup {m}]
      /\ evicted' = [evicted EXCEPT ![p] = @ \cup LetGo(p, walked)]
      /\ wire' = wire /\ generated' = generated
  BY DEF DecryptOnChain
<1>8. IInv'
  BY <1>1, DecryptOnChainIInv
<1> HIDE DEF q, walked
<1>9. /\ ratchet'[p] = q /\ opened'[p] = opened[p] \cup {m}
      /\ evicted'[p] = evicted[p] \cup LetGo(p, walked)
      /\ \A x \in Party \ {p} : opened'[x] = opened[x] /\ evicted'[x] = evicted[x]
  BY <1>1, <1>7 DEF IInv, TypeOK
<1>10. LastRead(p)'
  BY <1>2, <1>5, <1>6, <1>7, <1>9 DEF LastRead
<1>11. \A s \in DOMAIN r.skipped \cup walked :
          s \in DOMAIN q.skipped \cup evicted'[p]
  BY <1>5, <1>9, HeldOrLetGo
<1>12. ASSUME NEW w \in wire, w.from = Peer(p)
       PROVE  \/ w \in opened'[p]
              \/ SlotOf(w.header) \in DOMAIN q.skipped \cup evicted'[p]
              \/ Ahead(q, w)
  <2>1. \/ w \in opened[p]
        \/ SlotOf(w.header) \in DOMAIN r.skipped \cup evicted[p]
        \/ Ahead(r, w)
    BY <1>1, <1>12 DEF Accounted
  <2>2. CASE Len(w.key.seed) > Len(r.receiving.seed)
    BY <1>5, <2>2 DEF Ahead
  <2>3. CASE w.header.dh = r.theirs /\ w.header.number >= r.received
    <3>1. w.header.number \in Nat
      BY <1>1, MessageFacts
    <3>2. CASE w.header.number > header.number
      BY <1>2, <1>5, <1>6, <2>3, <3>1, <3>2 DEF Ahead
    <3>3. CASE w.header.number = header.number
      <4>1. w = m
        BY <1>1, <1>2, <1>12, <2>3, <3>3, OneChain
      <4> QED BY <1>9, <4>1
    <3>4. CASE w.header.number < header.number
      <4>1. w.header.number \in r.received..(header.number - 1)
        BY <1>2, <1>4, <2>3, <3>1, <3>4
      <4>2. SlotOf(w.header) \in walked
        BY <1>2, <2>3, <4>1 DEF SlotOf, walked
      <4> QED BY <1>11, <4>2
    <3> QED BY <1>2, <3>1, <3>2, <3>3, <3>4
  <2> QED BY <1>3, <1>9, <1>11, <2>1, <2>2, <2>3 DEF Ahead
<1>13. Accounted(p)'
  BY <1>7, <1>9, <1>12 DEF Accounted, Ahead
<1>14. q.receiving # None
  <2>1. q.receiving \in Chain
    BY <1>4, <1>5 DEF Chain, IsRatchet
  <2> QED BY <2>1, NoneAssumption
<1> QED BY <1>5, <1>7, <1>8, <1>9, <1>10, <1>13, <1>14, NoTurnLoss

(* A turn goes to the chain the peer seals on now: the rest of the chain   *)
(* left behind, which the header covers, and the new one up to the message *)
(* are kept or let go.                                                     *)
LEMMA DecryptTurningLoss ==
  ASSUME LossInv, NEW p \in Party, NEW m \in wire, DecryptTurning(p, m)
  PROVE  LossInv'
<1> DEFINE r      == ratchet[p]
           s      == ratchet[Peer(p)]
           header == m.header
           fresh  == <<p, generated[p]>>
           q      == AfterTurn(r, header, fresh)
<1>1. /\ IInv /\ TurnsInv /\ IsRatchet(r) /\ SlotsAgree(r) /\ SkippedInv(p)
      /\ ReceivingInv(p) /\ StartInv(p) /\ Accounted(p) /\ HeaderInv(m)
      /\ Peer(p) \in Party /\ Peer(p) # p /\ generated[p] \in Nat
      /\ \A w \in wire : HeaderInv(w)
  BY SideFacts DEF LossInv
<1>2. /\ NeedsTurn(r, header) /\ ~Kept(r, header) /\ m.from = Peer(p)
      /\ header \in Header /\ header.number \in Nat /\ header.dh \in PublicKey
      /\ header.previous_chain_len \in Nat
      /\ header.dh # r.theirs
  BY <1>1, ArrivedFacts DEF DecryptTurning, NeedsTurn
<1>3. /\ r.root \in Root /\ Len(r.root) \in Nat /\ r.ours \in PublicKey
      /\ r.sent \in Nat /\ r.received \in Nat
  BY <1>1 DEF IsRatchet, Root
<1>4. m.key.seed = Append(r.root, {r.ours, header.dh})
  <2>1. m.key = WalkedChain(ChainFrom(TurnReceiving(r, header.dh)), 0, header.number)
    BY <1>1, <1>2, ArrivedFacts
       DEF DecryptTurning, TriedKey, ReadChain, ReadFrom, OnChain
  <2> QED BY <2>1 DEF WalkedChain, ChainFrom, TurnReceiving, KdfRoot, DiffieHellman
<1>5. /\ header.dh = s.ours /\ m.key.seed = s.root
      /\ Len(m.key.seed) = Len(r.root) + 1
  <2>1. Len(m.key.seed) >= Len(r.root)
    BY <1>3, <1>4 DEF Root
  <2> QED BY <1>1, <1>2, <2>1, NewTurn
<1>6. fresh \in PublicKey /\ fresh # <<1, 0>>
  BY <1>1 DEF PublicKey, StartInv
<1> HIDE DEF fresh
<1>7. Turned(r, header, fresh, q)
  <2>1. \A t \in DOMAIN r.skipped : t[1] = r.theirs => t[2] < r.received
    BY <1>1 DEF SkippedInv
  <2>2. r.receiving = None => DOMAIN r.skipped = {}
    BY <1>1 DEF ReceivingInv
  <2>3. r.receiving # None => r.theirs # None /\ r.receiving.step = r.received
    BY <1>1, ReadingFacts
  <2>4. \A t \in DOMAIN r.skipped : t[1] # header.dh
    <3> SUFFICES ASSUME NEW t \in DOMAIN r.skipped, t[1] = header.dh PROVE FALSE
      OBVIOUS
    <3>1. /\ r.receiving # None /\ r.skipped[t].seed = m.key.seed
          /\ Len(r.skipped[t].seed) < Len(r.receiving.seed)
      BY <1>1, <1>2 DEF SkippedInv, ReceivingInv, SealsWith
    <3>2. /\ Len(r.receiving.seed) \in Nat
          /\ Len(r.receiving.seed) + 1 = Len(r.root)
      BY <1>1, <3>1, ReadingFacts
    <3> HIDE DEF r
    <3> QED BY <1>3, <1>5, <3>1, <3>2
  <2> HIDE DEF q
  <2> QED BY <1>1, <1>2, <1>6, <2>1, <2>2, <2>3, <2>4, TurnFields DEF q
<1>8. /\ ratchet' = [ratchet EXCEPT ![p] = q]
      /\ generated' = [generated EXCEPT ![p] = @ + 1]
      /\ opened' = [opened EXCEPT ![p] = @ \cup {m}]
      /\ evicted' = [evicted EXCEPT ![p] = @ \cup LetGo(p, LeftBehind(r, header))]
      /\ wire' = wire
  BY DEF DecryptTurning, LeftBehind, fresh
<1> HIDE DEF q
<1>9. /\ ratchet'[p] = q /\ opened'[p] = opened[p] \cup {m}
      /\ evicted'[p] = evicted[p] \cup LetGo(p, LeftBehind(r, header))
      /\ generated'[p] = generated[p] + 1
      /\ \A x \in Party \ {p} :
            /\ ratchet'[x] = ratchet[x] /\ generated'[x] = generated[x]
            /\ opened'[x] = opened[x] /\ evicted'[x] = evicted[x]
  BY <1>1, <1>8 DEF IInv, TypeOK
<1>10. /\ q.root = Append(s.root, {fresh, header.dh})
       /\ Len(q.root) = Len(r.root) + 2
       /\ q.ours = fresh /\ q.theirs = header.dh
       /\ q.previous_chain_len = r.sent
       /\ q.received = header.number + 1
       /\ q.receiving = [seed |-> s.root, step |-> header.number + 1]
       /\ Keeps(r, LeftBehind(r, header), q) /\ IsRatchet(q)
  BY <1>4, <1>5, <1>7 DEF Turned, TurnReceiving, KdfRoot, DiffieHellman
<1>11. q.receiving # None
  <2>1. q.receiving \in Chain
    BY <1>1, <1>2, <1>10, RootsFacts DEF Chain
  <2> QED BY <2>1, NoneAssumption
<1>12. IInv'
  BY <1>1, DecryptTurningIInv
<1>13. TurnsInv'
  <2>1. Peer(Peer(p)) = p
    BY DEF Peer, Party
  <2>2. q.root = Append(s.root, {s.ours, q.ours})
    BY <1>5, <1>10
  <2>3. ratchet'[Peer(p)] = s
    BY <1>1, <1>9
  <2>4. Leads(p, Peer(p))'
    BY <1>9, <2>2, <2>3 DEF Leads, DiffieHellman
  <2> QED BY <1>1, <2>1, <2>4 DEF TurnsInv
<1>14. StartInv(p)'
  <2>1. Len(q.root) # 0 /\ Len(<<>>) = 0
    BY <1>3, <1>10
  <2>2. q.root # <<>>
    BY <2>1
  <2> QED BY <1>1, <1>6, <1>9, <1>10, <1>11, <2>2 DEF StartInv
<1>15. ChainLenInv(p)'
  <2> SUFFICES ASSUME NEW w \in wire, w.from = p,
                      Len(w.key.seed) + 2 = Len(q.root)
               PROVE  w.header.number < r.sent
    BY <1>8, <1>9, <1>10 DEF ChainLenInv
  <2>1. Len(w.key.seed) \in Nat /\ (Len(w.key.seed) = Len(r.root) <=> w.header.dh = r.ours)
        /\ (w.header.dh = r.ours => w.header.number < r.sent)
    BY <1>1, MessageFacts
  <2>2. Len(w.key.seed) = Len(r.root)
    BY <1>3, <1>10, <2>1
  <2> QED BY <2>1, <2>2
<1>16. LastRead(p)'
  BY <1>2, <1>8, <1>9, <1>10 DEF LastRead
<1>17. \A t \in DOMAIN r.skipped \cup LeftBehind(r, header) :
          t \in DOMAIN q.skipped \cup evicted'[p]
  BY <1>9, <1>10, HeldOrLetGo
<1>18. ASSUME NEW w \in wire, w.from = Peer(p)
       PROVE  \/ w \in opened'[p]
              \/ SlotOf(w.header) \in DOMAIN q.skipped \cup evicted'[p]
              \/ Ahead(q, w)
  <2>1. \/ w \in opened[p]
        \/ SlotOf(w.header) \in DOMAIN r.skipped \cup evicted[p]
        \/ Ahead(r, w)
    BY <1>1, <1>18 DEF Accounted
  <2>2. w.header.number \in Nat /\ Len(w.key.seed) \in Nat
    BY <1>1, MessageFacts
  <2>3. CASE r.receiving = None \/ Len(w.key.seed) > Len(r.receiving.seed)
    <3>1. w.header.dh = header.dh
      <4>1. Len(w.key.seed) >= Len(r.root)
        BY <1>1, <1>18, <2>3, Unread
      <4> QED BY <1>1, <1>5, <1>18, <4>1, NewTurn
    <3>2. CASE w.header.number > header.number
      BY <1>2, <1>10, <2>2, <3>1, <3>2 DEF Ahead
    <3>3. CASE w.header.number = header.number
      <4>1. w = m
        BY <1>1, <1>2, <1>18, <3>1, <3>3, OneChain
      <4> QED BY <1>9, <4>1
    <3>4. CASE w.header.number < header.number
      <4>1. w.header.number \in 0..(header.number - 1)
        BY <1>2, <2>2, <3>4
      <4>2. SlotOf(w.header) \in LeftBehind(r, header)
        BY <3>1, <4>1 DEF SlotOf, LeftBehind
      <4> QED BY <1>17, <4>2
    <3> QED BY <1>2, <2>2, <3>2, <3>3, <3>4
  <2>4. CASE /\ r.receiving # None
             /\ w.header.dh = r.theirs /\ w.header.number >= r.received
    <3>1. /\ w.key.seed = r.receiving.seed
          /\ Len(r.receiving.seed) + 1 = Len(r.root)
      BY <1>1, <1>18, <2>4, ReadingFacts
    <3>2. Len(w.key.seed) + 2 = Len(m.key.seed)
      <4> DEFINE a == Len(w.key.seed)
                 b == Len(r.root)
                 c == Len(m.key.seed)
      <4>1. a \in Nat /\ b \in Nat /\ a + 1 = b /\ c = b + 1
        BY <1>3, <1>5, <2>2, <3>1
      <4> HIDE DEF a, b, c
      <4>2. a + 2 = c
        BY <4>1
      <4> QED BY <4>2 DEF a, c
    <3>3. w.header.number < header.previous_chain_len
      BY <1>1, <1>2, <1>18, <3>2 DEF HeaderInv
    <3>4. w.header.number \in r.received..(header.previous_chain_len - 1)
      BY <1>2, <1>3, <2>2, <2>4, <3>3
    <3>5. SlotOf(w.header) \in LeftBehind(r, header)
      BY <2>4, <3>4 DEF SlotOf, LeftBehind
    <3> QED BY <1>17, <3>5
  <2> QED BY <1>9, <1>17, <2>1, <2>3, <2>4 DEF Ahead
<1>19. Accounted(p)'
  BY <1>8, <1>9, <1>18 DEF Accounted, Ahead
<1> QED BY <1>8, <1>9, <1>12, <1>13, <1>14, <1>15, <1>16, <1>19, OtherLoss

(* Every step keeps the invariant. *)
LEMMA NextLoss == LossInv /\ [Next]_vars => LossInv'
<1> SUFFICES ASSUME LossInv, [Next]_vars PROVE LossInv'
  OBVIOUS
<1>1. CASE UNCHANGED vars
  <2>1. /\ ratchet' = ratchet /\ wire' = wire /\ generated' = generated
        /\ opened' = opened /\ evicted' = evicted
    BY <1>1 DEF vars
  <2>2. IInv'
    BY <1>1, NextIInv DEF LossInv
  <2>3. TurnsInv'
    BY <2>1 DEF LossInv, TurnsInv, Leads
  <2>4. 0 \in Party
    BY DEF Party
  <2>5. StartInv(0) /\ ChainLenInv(0) /\ LastRead(0) /\ Accounted(0)
    BY <2>4 DEF LossInv
  <2>6. StartInv(0)' /\ ChainLenInv(0)'
    BY <2>1, <2>5 DEF StartInv, ChainLenInv
  <2>7. LastRead(0)' /\ Accounted(0)'
    BY <2>1, <2>5 DEF LastRead, Accounted
  <2> QED BY <2>1, <2>2, <2>3, <2>4, <2>6, <2>7, OtherLoss
<1>2. CASE Next
  <2>1. PICK p \in Party : \/ Encrypt(p)
                          \/ \E m \in wire : \/ DecryptKept(p, m)
                                             \/ DecryptOnChain(p, m)
                                             \/ DecryptTurning(p, m)
    BY <1>2 DEF Next
  <2>2. CASE Encrypt(p)
    BY <2>2, EncryptLoss
  <2>3. ASSUME NEW m \in wire, DecryptKept(p, m) PROVE LossInv'
    BY <2>3, DecryptKeptLoss
  <2>4. ASSUME NEW m \in wire, DecryptOnChain(p, m) PROVE LossInv'
    BY <2>4, DecryptOnChainLoss
  <2>5. ASSUME NEW m \in wire, DecryptTurning(p, m) PROVE LossInv'
    BY <2>5, DecryptTurningLoss
  <2> QED BY <2>1, <2>2, <2>3, <2>4, <2>5
<1> QED BY <1>1, <1>2

(* A message the invariant accounts for opens, unless a gap is too long or *)
(* its key was let go.                                                     *)
LEMMA LossNothingLost == LossInv => NothingLost
<1> SUFFICES ASSUME LossInv, NEW p \in Party, NEW m \in wire, m.from = Peer(p),
                    m \notin opened[p], SlotOf(m.header) \notin evicted[p],
                    ~TooFar(ratchet[p], m.header)
             PROVE  Opens(ratchet[p], m)
  BY DEF NothingLost
<1> DEFINE r      == ratchet[p]
           header == m.header
<1>1. /\ IInv /\ TurnsInv /\ IsRatchet(r) /\ SkippedInv(p) /\ StartInv(p)
      /\ Accounted(p) /\ HeaderInv(m)
  BY SideFacts DEF LossInv
<1>2. /\ m.key \in Chain /\ m.key.step = header.number /\ header.number \in Nat
      /\ header.dh \in PublicKey /\ header.number < MaxNumber
  BY <1>1, MessageFacts DEF HeaderInv
<1>3. CASE Kept(r, header)
  <2> DEFINE slot == SlotOf(header)
  <2>1. /\ slot \in DOMAIN r.skipped /\ slot[1] = header.dh /\ slot[2] = header.number
    BY <1>3 DEF Kept, SlotOf
  <2>2. r.skipped[slot].step = header.number /\ r.skipped[slot].seed = m.key.seed
    BY <1>1, <2>1 DEF SkippedInv, SealsWith
  <2>3. r.skipped[slot] \in Chain
    BY <1>1, <2>1 DEF IsRatchet
  <2>4. r.skipped[slot] = m.key
    BY <1>2, <2>2, <2>3 DEF Chain
  <2> QED BY <1>3, <2>4 DEF Opens, MayTry, TriedKey
<1>4. CASE ~Kept(r, header)
  <2>1. Ahead(r, m)
    BY <1>1, <1>4 DEF Accounted, Kept
  <2>2. CASE r.receiving = None \/ Len(m.key.seed) > Len(r.receiving.seed)
    <3>1. Len(m.key.seed) >= Len(r.root) /\ header.dh # r.theirs
      BY <1>1, <2>2, Unread
    <3>2. m.key.seed = Append(r.root, {r.ours, header.dh})
      BY <1>1, <3>1, NewTurn
    <3>3. NeedsTurn(r, header) /\ ~OnChain(r, header) /\ ReadFrom(r, header) = 0
      BY <1>4, <3>1 DEF NeedsTurn, OnChain, ReadFrom
    <3>4. StepsTo(0, header.number) = header.number
      BY <1>2 DEF StepsTo
    <3>5. MayTry(r, header)
      <4>1. /\ WithinSkip(0, header.number)
            /\ r.receiving # None => WithinSkip(r.received, header.previous_chain_len)
        BY <3>3 DEF TooFar
      <4>2. 0 + header.number + 1 <= MaxNumber
        BY <1>2, LimitsAssumption
      <4> QED BY <3>3, <3>4, <4>1, <4>2 DEF MayTry
    <3>6. TriedKey(r, header) = [seed |-> m.key.seed, step |-> 0 + header.number]
      BY <1>4, <3>2, <3>3, <3>4
         DEF TriedKey, ReadChain, WalkedChain, ChainFrom, TurnReceiving, KdfRoot,
             DiffieHellman
    <3>7. TriedKey(r, header) = m.key
      BY <1>2, <3>6 DEF Chain
    <3> QED BY <3>5, <3>7 DEF Opens
  <2>3. CASE /\ r.receiving # None
             /\ header.dh = r.theirs /\ header.number >= r.received
    <3>1. /\ r.receiving \in Chain /\ r.receiving.step = r.received
          /\ r.received \in Nat /\ m.key.seed = r.receiving.seed
      BY <1>1, <2>3, ReadingFacts
    <3>2. OnChain(r, header) /\ ~NeedsTurn(r, header) /\ ReadFrom(r, header) = r.received
      BY <1>4, <2>3 DEF NeedsTurn, OnChain, ReadFrom
    <3>3. r.received + StepsTo(r.received, header.number) = header.number
      BY <1>2, <2>3, <3>1 DEF StepsTo
    <3>4. MayTry(r, header)
      <4>1. WithinSkip(r.received, header.number)
        BY <3>2 DEF TooFar
      <4>2. header.number + 1 <= MaxNumber
        BY <1>2, LimitsAssumption
      <4> QED BY <2>3, <3>2, <3>3, <4>1, <4>2 DEF MayTry
    <3>5. TriedKey(r, header) = WalkedChain(r.receiving, r.received, header.number)
      BY <1>4, <3>2 DEF TriedKey, ReadChain
    <3>6. TriedKey(r, header) = [seed |-> r.receiving.seed, step |-> header.number]
      <4>1. Walk(r.receiving, header.dh, r.received, header.number)
        BY <1>2, <3>1, WalkFacts
      <4> QED BY <3>1, <3>3, <3>5, <4>1 DEF Walk
    <3>7. TriedKey(r, header) = m.key
      BY <1>2, <3>1, <3>6 DEF Chain
    <3> QED BY <3>4, <3>7 DEF Opens
  <2> QED BY <2>1, <2>2, <2>3 DEF Ahead
<1> QED BY <1>3, <1>4

(* Every reachable state satisfies the stronger invariant. *)
THEOREM LossInvariance == Spec => []LossInv
<1> QED BY InitLoss, NextLoss, PTL DEF Spec

(* Whatever is lost, repeated or reordered, a message not opened yet       *)
(* opens, unless it lies over a gap longer than MAX_SKIP or its key was    *)
(* let go at MAX_SKIPPED_KEYS.                                             *)
THEOREM NothingIsLost == Spec => []NothingLost
<1> QED BY LossInvariance, LossNothingLost, PTL

-----------------------------------------------------------------------------
(* Stored and read back: what to_state lays out is what from_state finds.  *)

(* A ratchet is a record, and its kept keys are a map. *)
IsMap(r) ==
    /\ r = [f \in DOMAIN r |-> r[f]] /\ "skipped" \in DOMAIN r
    /\ r.skipped = [s \in DOMAIN r.skipped |-> r.skipped[s]]

(* Where to_state lays each field, and each kept key's three. *)
Laid(r, st) ==
    LET order == r.skipped_order
        n == Len(order)
    IN /\ \E S : st \in Seq(S)
       /\ Len(st) = 13 + 3 * n /\ DOMAIN st = 1..(13 + 3 * n)
       /\ st[1] = Byte(StateVersion)
       /\ st[2] = Array32(r.root) /\ st[3] = Array32(r.ours)
       /\ st[4] = Flag(r.theirs) /\ st[5] = Filled(r.theirs)
       /\ st[6] = Flag(r.sending) /\ st[7] = Filled(r.sending)
       /\ st[8] = Flag(r.receiving) /\ st[9] = Filled(r.receiving)
       /\ st[10] = U32(r.sent) /\ st[11] = U32(r.received)
       /\ st[12] = U32(r.previous_chain_len) /\ st[13] = U32(n)
       /\ \A k \in 1..n :
             /\ st[13 + (3 * k - 2)] = Array32(order[k][1])
             /\ st[13 + (3 * k - 1)] = U32(order[k][2])
             /\ st[13 + 3 * k] = Array32(r.skipped[order[k]])

(* Thirds of a list. *)
LEMMA Thirds ==
  /\ \A k \in Nat \ {0} :
        /\ (3 * k - 2) % 3 = 1 /\ (3 * k - 1) % 3 = 2 /\ (3 * k) % 3 = 0
        /\ (3 * k - 2 - 1) \div 3 + 1 = k /\ (3 * k - 1 - 1) \div 3 + 1 = k
        /\ (3 * k - 1) \div 3 + 1 = k
  /\ \A n \in Nat : \A i \in 1..(3 * n) :
        \E k \in 1..n : i = 3 * k - 2 \/ i = 3 * k - 1 \/ i = 3 * k
<1>1. ASSUME NEW k \in Nat \ {0}
      PROVE  /\ (3 * k - 2) % 3 = 1 /\ (3 * k - 1) % 3 = 2 /\ (3 * k) % 3 = 0
             /\ (3 * k - 2 - 1) \div 3 + 1 = k /\ (3 * k - 1 - 1) \div 3 + 1 = k
             /\ (3 * k - 1) \div 3 + 1 = k
  OBVIOUS
<1>2. ASSUME NEW n \in Nat, NEW i \in 1..(3 * n)
      PROVE  \E k \in 1..n : i = 3 * k - 2 \/ i = 3 * k - 1 \/ i = 3 * k
  <2> DEFINE k == (i + 2) \div 3
  <2>1. k \in 1..n /\ (i = 3 * k - 2 \/ i = 3 * k - 1 \/ i = 3 * k)
    OBVIOUS
  <2> QED BY <2>1
<1> QED BY <1>1, <1>2

(* to_state lays them there. *)
LEMMA ToStateFacts ==
  ASSUME NEW r, IsRatchet(r)
  PROVE  Laid(r, ToState(r))
<1> DEFINE order == r.skipped_order
           n     == Len(order)
           head  == Prefix(r)
           tail  == Skipped(r)
           S     == {head[i] : i \in 1..13} \cup {tail[i] : i \in 1..(3 * n)}
<1>1. n \in Nat
  BY DEF IsRatchet
<1>2. /\ DOMAIN head = 1..13 /\ head = [i \in 1..13 |-> head[i]]
      /\ head[1] = Byte(StateVersion)
      /\ head[2] = Array32(r.root) /\ head[3] = Array32(r.ours)
      /\ head[4] = Flag(r.theirs) /\ head[5] = Filled(r.theirs)
      /\ head[6] = Flag(r.sending) /\ head[7] = Filled(r.sending)
      /\ head[8] = Flag(r.receiving) /\ head[9] = Filled(r.receiving)
      /\ head[10] = U32(r.sent) /\ head[11] = U32(r.received)
      /\ head[12] = U32(r.previous_chain_len) /\ head[13] = U32(n)
  BY DEF Prefix
<1>3. /\ DOMAIN tail = 1..(3 * n) /\ tail = [i \in 1..(3 * n) |-> tail[i]]
      /\ \A k \in 1..n :
            /\ tail[3 * k - 2] = Array32(order[k][1])
            /\ tail[3 * k - 1] = U32(order[k][2])
            /\ tail[3 * k] = Array32(r.skipped[order[k]])
  <2> DEFINE slot(i) == order[(i - 1) \div 3 + 1]
  <2>1. tail = [i \in 1..(3 * n) |->
                   CASE i % 3 = 1 -> Array32(slot(i)[1])
                     [] i % 3 = 2 -> U32(slot(i)[2])
                     [] OTHER -> Array32(r.skipped[slot(i)])]
    BY DEF Skipped, WrittenOrder, EntryFields
  <2> HIDE DEF tail, order, n
  <2>3. \A i \in 1..(3 * n) :
           /\ i % 3 = 1 => tail[i] = Array32(slot(i)[1])
           /\ i % 3 = 2 => tail[i] = U32(slot(i)[2])
           /\ i % 3 = 0 => tail[i] = Array32(r.skipped[slot(i)])
    <3> HIDE DEF slot
    <3> SUFFICES ASSUME NEW i \in 1..(3 * n)
                 PROVE  /\ i % 3 = 1 => tail[i] = Array32(slot(i)[1])
                        /\ i % 3 = 2 => tail[i] = U32(slot(i)[2])
                        /\ i % 3 = 0 => tail[i] = Array32(r.skipped[slot(i)])
      OBVIOUS
    <3>1. tail[i] = CASE i % 3 = 1 -> Array32(slot(i)[1])
                      [] i % 3 = 2 -> U32(slot(i)[2])
                      [] OTHER -> Array32(r.skipped[slot(i)])
      BY <2>1
    <3> QED BY <3>1
  <2>4. DOMAIN tail = 1..(3 * n) /\ tail = [i \in 1..(3 * n) |-> tail[i]]
    BY <2>1
  <2>2. ASSUME NEW k \in 1..n
        PROVE  /\ tail[3 * k - 2] = Array32(order[k][1])
               /\ tail[3 * k - 1] = U32(order[k][2])
               /\ tail[3 * k] = Array32(r.skipped[order[k]])
    <3>1. /\ 3 * k - 2 \in 1..(3 * n) /\ 3 * k - 1 \in 1..(3 * n)
          /\ 3 * k \in 1..(3 * n) /\ k \in Nat \ {0}
      BY <1>1
    <3>2. /\ slot(3 * k - 2) = order[k] /\ slot(3 * k - 1) = order[k]
          /\ slot(3 * k) = order[k]
          /\ (3 * k - 2) % 3 = 1 /\ (3 * k - 1) % 3 = 2 /\ (3 * k) % 3 = 0
      BY <3>1, Thirds
    <3> DEFINE a == 3 * k - 2
               b == 3 * k - 1
               c == 3 * k
    <3>3. /\ a \in 1..(3 * n) /\ b \in 1..(3 * n) /\ c \in 1..(3 * n)
          /\ slot(a) = order[k] /\ slot(b) = order[k] /\ slot(c) = order[k]
          /\ a % 3 = 1 /\ b % 3 = 2 /\ c % 3 = 0
      BY <3>1, <3>2
    <3> HIDE DEF slot, a, b, c
    <3>4. tail[a] = Array32(order[k][1])
      BY <2>3, <3>3
    <3>5. tail[b] = U32(order[k][2])
      BY <2>3, <3>3
    <3>6. tail[c] = Array32(r.skipped[order[k]])
      BY <2>3, <3>3
    <3> QED BY <3>4, <3>5, <3>6 DEF a, b, c
  <2> QED BY <2>2, <2>4
<1>4. head \in Seq(S) /\ Len(head) = 13
  <2> HIDE DEF head, tail
  <2>1. head \in [1..13 -> S]
    BY <1>2
  <2> HIDE DEF S
  <2>2. \A m \in Nat : \A f \in [1..m -> S] : f \in Seq(S) /\ Len(f) = m
    OBVIOUS
  <2> QED BY <2>1, <2>2
<1>5. tail \in Seq(S) /\ Len(tail) = 3 * n
  <2>1. 3 * n \in Nat
    BY <1>1
  <2> HIDE DEF head, tail, n
  <2>2. tail \in [1..(3 * n) -> S]
    BY <1>3
  <2> QED BY <2>1, <2>2
<1> DEFINE st == head \o tail
<1>6. ToState(r) = st
  BY DEF ToState
<1> HIDE DEF head, tail, n, order, S
<1>7. /\ st \in Seq(S) /\ Len(st) = 13 + 3 * n
      /\ \A i \in 1..(13 + 3 * n) : st[i] = IF i <= 13 THEN head[i] ELSE tail[i - 13]
  <2>1. /\ st \in Seq(S) /\ Len(st) = Len(head) + Len(tail)
        /\ \A i \in 1..(Len(head) + Len(tail)) :
              st[i] = IF i <= Len(head) THEN head[i] ELSE tail[i - Len(head)]
    BY <1>4, <1>5, ConcatProperties
  <2> HIDE DEF st
  <2> QED BY <1>4, <1>5, <2>1
<1>8. \A i \in 1..13 : st[i] = head[i]
  BY <1>1, <1>7
<1>9. \A i \in 1..(3 * n) : st[13 + i] = tail[i]
  BY <1>1, <1>7
<1>10. DOMAIN st = 1..(13 + 3 * n)
  BY <1>7
<1> HIDE DEF st
<1>11. \A k \in 1..n :
          /\ st[13 + (3 * k - 2)] = Array32(order[k][1])
          /\ st[13 + (3 * k - 1)] = U32(order[k][2])
          /\ st[13 + 3 * k] = Array32(r.skipped[order[k]])
  <2> SUFFICES ASSUME NEW k \in 1..n
               PROVE  /\ st[13 + (3 * k - 2)] = tail[3 * k - 2]
                      /\ st[13 + (3 * k - 1)] = tail[3 * k - 1]
                      /\ st[13 + 3 * k] = tail[3 * k]
    BY <1>3
  <2>1. /\ 3 * k - 2 \in 1..(3 * n) /\ 3 * k - 1 \in 1..(3 * n)
        /\ 3 * k \in 1..(3 * n)
    BY <1>1
  <2> QED BY <1>9, <2>1
<1>12. /\ st[1] = head[1] /\ st[2] = head[2] /\ st[3] = head[3] /\ st[4] = head[4]
       /\ st[5] = head[5] /\ st[6] = head[6] /\ st[7] = head[7] /\ st[8] = head[8]
       /\ st[9] = head[9] /\ st[10] = head[10] /\ st[11] = head[11]
       /\ st[12] = head[12] /\ st[13] = head[13]
  BY <1>8
<1>13. Laid(r, st)
  BY <1>2, <1>7, <1>10, <1>11, <1>12, Zenon DEF Laid, n, order
<1> QED BY <1>6, <1>13

(* What is written is as from_state will have it. *)
LEMMA WrittenIsReadable ==
  ASSUME NEW r, IsRatchet(r), SlotsAgree(r)
  PROVE  Readable(ToState(r))
<1> DEFINE st == ToState(r)
           n  == Len(r.skipped_order)
<1>1. n \in Nat /\ n <= MaxSkippedKeys
  BY DEF IsRatchet, SlotsAgree
<1>2. Laid(r, st)
  BY ToStateFacts
<1> HIDE DEF st, n
<1>3. /\ Len(st) = 13 + 3 * n /\ DOMAIN st = 1..(13 + 3 * n)
      /\ st[13].value = n /\ st[1].value = StateVersion
  BY <1>2 DEF Laid, Byte, U32, Field, n
<1>4. \A i \in Flags : st[i].value \in {0, 1}
  <2>1. \A v : Flag(v).value \in {0, 1}
    BY DEF Flag, Byte, Field
  <2> QED BY <1>2, <2>1 DEF Laid, Flags
<1>5. ExactlyAsLong(st)
  BY <1>3 DEF ExactlyAsLong, PrefixFields, EntryFields, CountAt
<1>6. ASSUME NEW i \in DOMAIN Sizes(n) PROVE st[i].size = Sizes(n)[i]
  <2> DEFINE heads == <<1, 32, 32, 1, 32, 1, 32, 1, 32, 4, 4, 4, 4>>
             tails == [j \in 1..(3 * n) |-> IF j % 3 = 2 THEN 4 ELSE 32]
             sizes == heads \o tails
  <2>1. Sizes(n) = sizes
    BY DEF Sizes, EntryFields
  <2>2. heads \in Seq(Nat) /\ Len(heads) = 13
    OBVIOUS
  <2>3. tails \in Seq(Nat) /\ Len(tails) = 3 * n
    <3>1. 3 * n \in Nat
      BY <1>1
    <3>2. tails \in [1..(3 * n) -> Nat]
      OBVIOUS
    <3> HIDE DEF tails
    <3> QED BY <3>1, <3>2
  <2>4. /\ sizes \in Seq(Nat) /\ Len(sizes) = 13 + 3 * n
        /\ \A j \in 1..(13 + 3 * n) :
              sizes[j] = IF j <= 13 THEN heads[j] ELSE tails[j - 13]
    <3> HIDE DEF heads, tails
    <3>1. /\ sizes \in Seq(Nat) /\ Len(sizes) = Len(heads) + Len(tails)
          /\ \A j \in 1..(Len(heads) + Len(tails)) :
                sizes[j] = IF j <= Len(heads) THEN heads[j] ELSE tails[j - Len(heads)]
      BY <2>2, <2>3, ConcatProperties
    <3> HIDE DEF sizes
    <3> QED BY <2>2, <2>3, <3>1
  <2> HIDE DEF sizes
  <2>5. i \in 1..(13 + 3 * n)
    BY <2>1, <2>4
  <2>6. \A v : /\ Byte(v).size = 1 /\ Array32(v).size = 32 /\ U32(v).size = 4
               /\ Flag(v).size = 1 /\ Filled(v).size = 32
    BY DEF Byte, Array32, U32, Flag, Filled, Field
  <2>7. CASE i <= 13
    <3>1. sizes[i] = heads[i]
      BY <2>4, <2>5, <2>7
    <3>2. st[i].size = heads[i]
      <4>1. /\ st[1].size = 1 /\ st[2].size = 32 /\ st[3].size = 32
            /\ st[4].size = 1 /\ st[5].size = 32 /\ st[6].size = 1
            /\ st[7].size = 32 /\ st[8].size = 1 /\ st[9].size = 32
            /\ st[10].size = 4 /\ st[11].size = 4 /\ st[12].size = 4
            /\ st[13].size = 4
        BY <1>2, <2>6 DEF Laid
      <4>2. i \in 1..13
        BY <2>5, <2>7
      <4>3. i \in {1, 2, 3, 4, 5, 6, 7, 8, 9, 10, 11, 12, 13}
        BY <4>2
      <4> QED BY <4>1, <4>3
    <3> QED BY <2>1, <3>1, <3>2
  <2>8. CASE i > 13
    <3> DEFINE j == i - 13
    <3>1. j \in 1..(3 * n) /\ i = 13 + j
      BY <1>1, <2>5, <2>8
    <3>2. sizes[i] = tails[j]
      <4> HIDE DEF heads, tails
      <4>1. sizes[i] = tails[i - 13]
        BY <1>1, <2>4, <2>5, <2>8
      <4> QED BY <4>1
    <3>3. PICK k \in 1..n : j = 3 * k - 2 \/ j = 3 * k - 1 \/ j = 3 * k
      BY <1>1, <3>1, Thirds
    <3>4. /\ (3 * k - 2) % 3 = 1 /\ (3 * k - 1) % 3 = 2 /\ (3 * k) % 3 = 0
      BY <1>1, Thirds
    <3> HIDE DEF j
    <3>5. /\ st[13 + (3 * k - 2)].size = 32
          /\ st[13 + (3 * k - 1)].size = 4
          /\ st[13 + 3 * k].size = 32
      <4> DEFINE order == r.skipped_order
      <4>1. /\ st[13 + (3 * k - 2)] = Array32(order[k][1])
            /\ st[13 + (3 * k - 1)] = U32(order[k][2])
            /\ st[13 + 3 * k] = Array32(r.skipped[order[k]])
        BY <1>2, Zenon DEF Laid, n
      <4> HIDE DEF order
      <4> QED BY <2>6, <4>1
    <3>6. tails[j] = IF j % 3 = 2 THEN 4 ELSE 32
      BY <3>1
    <3> HIDE DEF tails
    <3>7. st[13 + j].size = tails[j]
      <4>1. CASE j = 3 * k - 2
        BY <3>4, <3>5, <3>6, <4>1
      <4>2. CASE j = 3 * k - 1
        BY <3>4, <3>5, <3>6, <4>2
      <4>3. CASE j = 3 * k
        BY <3>4, <3>5, <3>6, <4>3
      <4> QED BY <3>3, <4>1, <4>2, <4>3
    <3> QED BY <2>1, <3>1, <3>2, <3>7
  <2> QED BY <1>1, <2>5, <2>7, <2>8
<1>7. Len(st) >= PrefixFields
  BY <1>1, <1>3 DEF PrefixFields
<1> QED BY <1>1, <1>3, <1>4, <1>5, <1>6, <1>7 DEF Readable, CountAt, st

(* Cut short or added to, it no longer says its own length. *)
LEMMA DamagedIsNot ==
  ASSUME NEW r, IsRatchet(r), NEW state \in Damaged(ToState(r))
  PROVE  ~Readable(state)
<1> DEFINE st == ToState(r)
           n  == Len(r.skipped_order)
<1>1. n \in Nat
  BY DEF IsRatchet
<1>2. Laid(r, st)
  BY ToStateFacts
<1>3. PICK S : st \in Seq(S)
  BY <1>2 DEF Laid
<1>4. /\ Len(st) = 13 + 3 * n /\ st[13] = U32(n)
  BY <1>2 DEF Laid
<1>5. Readable(state) => Len(state) >= 13 /\ Len(state) = 13 + 3 * state[13].value
  BY DEF Readable, ExactlyAsLong, PrefixFields, EntryFields, CountAt
<1> HIDE DEF st, n
<1>6. U32(n).value = n
  BY DEF U32, Field
<1>7. CASE \E k \in 0..(Len(st) - 1) : state = SubSeq(st, 1, k)
  <2>1. PICK k \in 0..(Len(st) - 1) : state = SubSeq(st, 1, k)
    BY <1>7
  <2>2. Len(state) = k /\ \A i \in 1..k : state[i] = st[i]
    BY <1>1, <1>3, <1>4, <2>1
  <2>3. k \in Nat /\ k < 13 + 3 * n
    BY <1>1, <1>4
  <2>4. k >= 13 => state[13] = st[13]
    BY <2>2, <2>3
  <2> QED BY <1>1, <1>4, <1>5, <1>6, <2>2, <2>3, <2>4
<1>8. CASE \E more : state = Append(st, more)
  <2>1. PICK more : state = Append(st, more)
    BY <1>8
  <2>2. Len(state) = Len(st) + 1 /\ \A i \in 1..Len(st) : state[i] = st[i]
    BY <1>3, <2>1
  <2>3. state[13] = st[13]
    BY <1>1, <1>4, <2>2
  <2> QED BY <1>1, <1>4, <1>5, <1>6, <2>2, <2>3
<1>9. \/ \E k \in 0..(Len(st) - 1) : state = SubSeq(st, 1, k)
      \/ \E more : state = Append(st, more)
  BY DEF Damaged, st
<1> QED BY <1>7, <1>8, <1>9

(* What is read back is what was written. *)
LEMMA ReadIsWritten ==
  ASSUME NEW r, IsRatchet(r), SlotsAgree(r), IsMap(r)
  PROVE  FromState(ToState(r)) = r
<1> DEFINE st      == ToState(r)
           order   == r.skipped_order
           n       == Len(order)
           entries == 1..st[13].value
           firsts  == {i \in entries :
                          \A j \in 1..(i - 1) : SlotAt(st, j) # SlotAt(st, i)}
           place(i) == Cardinality({j \in firsts : j <= i})
           map     == [s \in {SlotAt(st, i) : i \in entries} |->
                          KeyAt(st, CHOOSE i \in entries :
                              /\ SlotAt(st, i) = s
                              /\ \A j \in entries : SlotAt(st, j) = s => j <= i)]
           list    == [k \in 1..Cardinality(firsts) |->
                          SlotAt(st, CHOOSE i \in firsts : place(i) = k)]
<1>1. /\ n \in Nat /\ order \in Seq(Slot) /\ DOMAIN order = 1..n
      /\ order = [k \in 1..n |-> order[k]]
      /\ Held(order) = DOMAIN r.skipped
      /\ \A i, j \in 1..n : order[i] = order[j] => i = j
  BY DEF IsRatchet, SlotsAgree
<1>2. Laid(r, st)
  BY ToStateFacts
<1>3. /\ FromState(st) =
            [root |-> st[2].value, ours |-> st[3].value,
             theirs |-> OptionalAt(st, 4), sending |-> OptionalAt(st, 6),
             receiving |-> OptionalAt(st, 8),
             sent |-> st[10].value, received |-> st[11].value,
             previous_chain_len |-> st[12].value,
             skipped |-> map, skipped_order |-> list]
  BY DEF FromState, CountAt
<1> HIDE DEF st, map, list
<1>4. /\ st[2].value = r.root /\ st[3].value = r.ours
      /\ st[10].value = r.sent /\ st[11].value = r.received
      /\ st[12].value = r.previous_chain_len /\ st[13].value = n
  BY <1>2 DEF Laid, Array32, U32, Field
<1>5. /\ OptionalAt(st, 4) = r.theirs /\ OptionalAt(st, 6) = r.sending
      /\ OptionalAt(st, 8) = r.receiving
  <2>1. \A v : /\ Flag(v).value = IF v = None THEN 0 ELSE 1
               /\ Filled(v).value = IF v = None THEN Zeros ELSE v
    BY DEF Flag, Filled, Byte, Array32, Field
  <2>2. /\ st[4] = Flag(r.theirs) /\ st[5] = Filled(r.theirs)
        /\ st[6] = Flag(r.sending) /\ st[7] = Filled(r.sending)
        /\ st[8] = Flag(r.receiving) /\ st[9] = Filled(r.receiving)
    BY <1>2 DEF Laid
  <2> QED BY <2>1, <2>2 DEF OptionalAt
<1>6. \A i \in 1..n : SlotAt(st, i) = order[i] /\ KeyAt(st, i) = r.skipped[order[i]]
  <2> SUFFICES ASSUME NEW i \in 1..n
               PROVE  SlotAt(st, i) = order[i] /\ KeyAt(st, i) = r.skipped[order[i]]
    OBVIOUS
  <2>1. /\ st[13 + (3 * i - 2)] = Array32(order[i][1])
        /\ st[13 + (3 * i - 1)] = U32(order[i][2])
        /\ st[13 + 3 * i] = Array32(r.skipped[order[i]])
    BY <1>2 DEF Laid
  <2>2. /\ 13 + 3 * (i - 1) + 1 = 13 + (3 * i - 2)
        /\ 13 + 3 * (i - 1) + 1 + 1 = 13 + (3 * i - 1)
    BY <1>1
  <2>3. SlotAt(st, i) = <<order[i][1], order[i][2]>>
    BY <2>1, <2>2 DEF SlotAt, PrefixFields, EntryFields, Array32, U32, Field
  <2>4. order[i] = <<order[i][1], order[i][2]>>
    <3>1. order[i] \in Slot
      BY <1>1
    <3> QED BY <3>1 DEF Slot
  <2>5. KeyAt(st, i) = r.skipped[order[i]]
    BY <2>1 DEF KeyAt, PrefixFields, EntryFields, Array32, Field
  <2> QED BY <2>3, <2>4, <2>5
<1>7. firsts = 1..n
  <2> HIDE DEF n, order
  <2>1. \A i \in 1..n : \A j \in 1..(i - 1) : j \in 1..n /\ j # i
    BY <1>1
  <2> QED BY <1>1, <1>4, <1>6, <2>1
<1>8. \A k \in 1..n : place(k) = k
  <2> SUFFICES ASSUME NEW k \in 1..n PROVE place(k) = k
    OBVIOUS
  <2>1. {j \in firsts : j <= k} = 1..k
    BY <1>1, <1>7
  <2>2. Cardinality(1..k) = IF 1 > k THEN 0 ELSE k - 1 + 1
    <3>1. 1 \in Int /\ k \in Int
      BY <1>1
    <3> QED BY <3>1, FS_Interval
  <2>3. place(k) = Cardinality(1..k)
    BY <2>1, Zenon
  <2> HIDE DEF place
  <2> QED BY <1>1, <2>2, <2>3
<1>9. Cardinality(firsts) = n
  <2>1. Cardinality(1..n) = IF 1 > n THEN 0 ELSE n - 1 + 1
    <3>1. 1 \in Int /\ n \in Int
      BY <1>1
    <3> HIDE DEF n
    <3> QED BY <3>1, FS_Interval
  <2> HIDE DEF n, firsts
  <2> QED BY <1>1, <1>7, <2>1
<1>10. list = order
  <2> HIDE DEF firsts, place, n, order
  <2>1. ASSUME NEW k \in 1..n
        PROVE  SlotAt(st, CHOOSE i \in firsts : place(i) = k) = order[k]
    <3> DEFINE at == CHOOSE i \in firsts : place(i) = k
    <3>1. at \in firsts /\ place(at) = k
      BY <1>7, <1>8
    <3>2. at = k
      BY <1>7, <1>8, <3>1
    <3> QED BY <1>6, <3>2
  <2>2. list = [k \in 1..n |-> SlotAt(st, CHOOSE i \in firsts : place(i) = k)]
    BY <1>9 DEF list
  <2>3. list = [k \in 1..n |-> order[k]]
    BY <2>1, <2>2
  <2> QED BY <1>1, <2>3
<1>11. map = r.skipped
  <2> DEFINE key(s) == KeyAt(st, CHOOSE i \in entries :
                              /\ SlotAt(st, i) = s
                              /\ \A j \in entries : SlotAt(st, j) = s => j <= i)
             slots == {SlotAt(st, i) : i \in entries}
  <2>1. entries = 1..n
    BY <1>4
  <2>2. map = [s \in slots |-> key(s)]
    BY DEF map
  <2>3. slots = DOMAIN r.skipped
    <3> HIDE DEF entries, order, n
    <3>1. \A i \in entries : SlotAt(st, i) \in DOMAIN r.skipped
      BY <1>1, <1>6, <2>1 DEF Held
    <3>2. \A s \in DOMAIN r.skipped : \E i \in entries : SlotAt(st, i) = s
      BY <1>1, <1>6, <2>1 DEF Held
    <3> QED BY <3>1, <3>2
  <2>4. ASSUME NEW s \in DOMAIN r.skipped PROVE key(s) = r.skipped[s]
    <3>1. PICK k \in 1..n : order[k] = s
      BY <1>1, <2>4 DEF Held
    <3> DEFINE P(i) == /\ SlotAt(st, i) = s
                       /\ \A j \in entries : SlotAt(st, j) = s => j <= i
               at == CHOOSE i \in entries : P(i)
    <3> HIDE DEF entries, order, n
    <3>2. P(k)
      BY <1>1, <1>6, <2>1, <3>1
    <3>3. \A i \in entries : P(i) => i = k
      BY <1>1, <1>6, <2>1, <3>1
    <3>4. k \in entries
      BY <2>1
    <3> HIDE DEF P
    <3>5. at = k
      BY <3>2, <3>3, <3>4
    <3>6. key(s) = KeyAt(st, at)
      BY DEF P
    <3> QED BY <1>6, <3>1, <3>5, <3>6
  <2> HIDE DEF key, slots
  <2>5. map = [s \in DOMAIN r.skipped |-> r.skipped[s]]
    BY <2>2, <2>3, <2>4
  <2> QED BY <2>5 DEF IsMap
<1>12. FromState(st) =
          [root |-> r.root, ours |-> r.ours, theirs |-> r.theirs,
           sending |-> r.sending, receiving |-> r.receiving,
           sent |-> r.sent, received |-> r.received,
           previous_chain_len |-> r.previous_chain_len,
           skipped |-> r.skipped, skipped_order |-> r.skipped_order]
  BY <1>3, <1>4, <1>5, <1>10, <1>11
<1>13. r = [root |-> r.root, ours |-> r.ours, theirs |-> r.theirs,
            sending |-> r.sending, receiving |-> r.receiving,
            sent |-> r.sent, received |-> r.received,
            previous_chain_len |-> r.previous_chain_len,
            skipped |-> r.skipped, skipped_order |-> r.skipped_order]
  BY DEF IsMap, IsRatchet
<1> QED BY <1>12, <1>13 DEF st

(* Whatever is done to a ratchet, a record with a map stays one. *)
LEMMA NextIsMap ==
  ASSUME IInv, \A p \in Party : IsMap(ratchet[p]), [Next]_vars
  PROVE  \A p \in Party : IsMap(ratchet'[p])
<1>1. ASSUME NEW r, IsMap(r) PROVE IsMap(AfterEncrypt(r))
  <2> DEFINE q == AfterEncrypt(r)
  <2>1. q = [f \in DOMAIN q |-> q[f]] /\ DOMAIN q = DOMAIN r
    BY DEF AfterEncrypt
  <2>2. q.skipped = r.skipped
    BY <1>1 DEF AfterEncrypt, IsMap
  <2> HIDE DEF q
  <2> QED BY <1>1, <2>1, <2>2 DEF IsMap, q
<1>2. ASSUME NEW r, NEW slot, IsMap(r) PROVE IsMap(ForgetSkipped(r, slot))
  <2> DEFINE q   == ForgetSkipped(r, slot)
             map == [s \in DOMAIN r.skipped \ {slot} |-> r.skipped[s]]
  <2>1. q = [f \in DOMAIN q |-> q[f]] /\ DOMAIN q = DOMAIN r
    BY DEF ForgetSkipped
  <2>2. q.skipped = map
    BY <1>2 DEF ForgetSkipped, IsMap
  <2> HIDE DEF q
  <2> QED BY <1>2, <2>1, <2>2 DEF IsMap, q
<1>3. ASSUME NEW r, NEW slots, NEW keys, IsMap(r)
      PROVE  IsMap(RememberSkipped(r, slots, keys))
  <2> DEFINE order == Newest(r.skipped_order \o slots)
             q     == RememberSkipped(r, slots, keys)
             map   == [s \in Held(order) |-> IF s \in DOMAIN keys THEN keys[s]
                                             ELSE r.skipped[s]]
  <2>1. q = [f \in DOMAIN q |-> q[f]] /\ DOMAIN q = DOMAIN r
    BY DEF RememberSkipped
  <2>2. q.skipped = map
    BY <1>3 DEF RememberSkipped, IsMap
  <2>3. map = [s \in DOMAIN map |-> map[s]]
    OBVIOUS
  <2> HIDE DEF q, map
  <2> QED BY <1>3, <2>1, <2>2, <2>3 DEF IsMap, q
<1>4. ASSUME NEW r, NEW chain, NEW count, IsMap(r)
      PROVE  IsMap([r EXCEPT !.receiving = chain, !.received = count])
  <2> DEFINE q == [r EXCEPT !.receiving = chain, !.received = count]
  <2>1. q = [f \in DOMAIN q |-> q[f]] /\ DOMAIN q = DOMAIN r
    OBVIOUS
  <2>2. q.skipped = r.skipped
    BY <1>4 DEF IsMap
  <2> HIDE DEF q
  <2> QED BY <1>4, <2>1, <2>2 DEF IsMap, q
<1>5. ASSUME NEW r, NEW dh, NEW fresh, IsMap(r)
      PROVE  IsMap(CommitTurn(r, dh, fresh))
  <2> DEFINE q == CommitTurn(r, dh, fresh)
  <2>1. q = [f \in DOMAIN q |-> q[f]] /\ DOMAIN q = DOMAIN r
    BY DEF CommitTurn
  <2>2. q.skipped = r.skipped
    BY <1>5 DEF CommitTurn, IsMap
  <2> HIDE DEF q
  <2> QED BY <1>5, <2>1, <2>2 DEF IsMap, q
<1>6. \A r, header : IsMap(r) => IsMap(AfterOnChain(r, header))
  <2> SUFFICES ASSUME NEW r, NEW header, IsMap(r) PROVE IsMap(AfterOnChain(r, header))
    OBVIOUS
  <2> DEFINE kept == RememberSkipped(r,
                         WalkedSlots(header.dh, r.received, header.number),
                         WalkedKeys(r.receiving, header.dh, r.received, header.number))
  <2>1. IsMap(kept)
    BY <1>3
  <2> HIDE DEF kept
  <2> DEFINE chain == KdfChain(WalkedChain(kept.receiving, r.received, header.number))
             count == kept.received + StepsTo(r.received, header.number) + 1
  <2>2. AfterOnChain(r, header) = [kept EXCEPT !.receiving = chain, !.received = count]
    BY DEF AfterOnChain, kept
  <2> HIDE DEF chain, count
  <2>3. IsMap([kept EXCEPT !.receiving = chain, !.received = count])
    BY <1>4, <2>1
  <2> QED BY <2>2, <2>3
<1>7. \A r, header, fresh : IsMap(r) => IsMap(AfterTurn(r, header, fresh))
  <2> SUFFICES ASSUME NEW r, NEW header, NEW fresh, IsMap(r)
               PROVE  IsMap(AfterTurn(r, header, fresh))
    OBVIOUS
  <2> DEFINE turned  == CommitTurn(r, header.dh, fresh)
             keptOld == IF r.receiving = None THEN turned
                        ELSE RememberSkipped(turned,
                            WalkedSlots(r.theirs, r.received, header.previous_chain_len),
                            WalkedKeys(r.receiving, r.theirs, r.received,
                                       header.previous_chain_len))
             keptNew == RememberSkipped(keptOld,
                            WalkedSlots(header.dh, 0, header.number),
                            WalkedKeys(turned.receiving, header.dh, 0, header.number))
  <2>1. IsMap(turned)
    BY <1>5
  <2>2. IsMap(keptOld)
    <3> HIDE DEF turned
    <3> QED BY <1>3, <2>1
  <2>3. IsMap(keptNew)
    <3> HIDE DEF keptOld, turned
    <3> QED BY <1>3, <2>2
  <2> HIDE DEF keptNew
  <2> DEFINE chain == KdfChain(WalkedChain(keptNew.receiving, 0, header.number))
             count == header.number + 1
  <2>4. AfterTurn(r, header, fresh)
           = [keptNew EXCEPT !.receiving = chain, !.received = count]
    BY DEF AfterTurn, keptNew
  <2> HIDE DEF chain, count
  <2>5. IsMap([keptNew EXCEPT !.receiving = chain, !.received = count])
    BY <1>4, <2>3
  <2> QED BY <2>4, <2>5
<1>8. ASSUME NEW p \in Party, NEW q, ratchet' = [ratchet EXCEPT ![p] = q], IsMap(q)
      PROVE  \A x \in Party : IsMap(ratchet'[x])
  BY <1>8 DEF IInv, TypeOK
<1>9. CASE UNCHANGED vars
  BY <1>9 DEF vars
<1>10. ASSUME NEW p \in Party, Encrypt(p)
       PROVE  \A x \in Party : IsMap(ratchet'[x])
  BY <1>1, <1>8, <1>10 DEF Encrypt
<1>11. ASSUME NEW p \in Party, NEW m \in wire, DecryptKept(p, m)
       PROVE  \A x \in Party : IsMap(ratchet'[x])
  BY <1>2, <1>8, <1>11 DEF DecryptKept, AfterKept
<1>12. ASSUME NEW p \in Party, NEW m \in wire, DecryptOnChain(p, m)
       PROVE  \A x \in Party : IsMap(ratchet'[x])
  BY <1>6, <1>8, <1>12 DEF DecryptOnChain
<1>13. ASSUME NEW p \in Party, NEW m \in wire, DecryptTurning(p, m)
       PROVE  \A x \in Party : IsMap(ratchet'[x])
  BY <1>7, <1>8, <1>13 DEF DecryptTurning
<1> QED BY <1>9, <1>10, <1>11, <1>12, <1>13 DEF Next

(* Paired, both are. *)
LEMMA InitIsMap == Init => \A p \in Party : IsMap(ratchet[p])
<1> SUFFICES ASSUME Init PROVE \A p \in Party : IsMap(ratchet[p])
  OBVIOUS
<1>1. IsMap(Initiator(<<0, 0>>, <<1, 0>>))
  BY DEF IsMap, Initiator
<1>2. IsMap(Responder(<<1, 0>>))
  BY DEF IsMap, Responder
<1> QED BY <1>1, <1>2 DEF Init, Party

(* Whatever a conversation has come to, the state stored of each side is   *)
(* one from_state takes, it reads back as the ratchet it was, the next key *)
(* to be evicted included, and cut short or added to it is refused.        *)
THEOREM StoredIsRead == Spec => []StoredReadsBack
<1> DEFINE Maps == \A p \in Party : IsMap(ratchet[p])
<1>1. IInv /\ Maps => StoredReadsBack
  <2> SUFFICES ASSUME IInv, Maps, NEW p \in Party PROVE ReadsBack(ratchet[p])
    BY DEF StoredReadsBack
  <2>1. IsRatchet(ratchet[p]) /\ SlotsAgree(ratchet[p]) /\ IsMap(ratchet[p])
    BY SideFacts
  <2> QED BY <2>1, WrittenIsReadable, ReadIsWritten, DamagedIsNot DEF ReadsBack
<1>2. Init => Maps
  BY InitIsMap
<1>3. IInv /\ Maps /\ [Next]_vars => Maps'
  BY NextIsMap
<1>4. Spec => []Maps
  <2> HIDE DEF Maps
  <2> QED BY <1>2, <1>3, Invariance, PTL DEF Spec
<1> HIDE DEF Maps
<1> QED BY <1>1, <1>4, Invariance, PTL
=============================================================================
