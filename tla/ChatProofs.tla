----------------------------- MODULE ChatProofs -----------------------------
(***************************************************************************)
(* The conversation of ChatDelivery is safe for every number of threads,   *)
(* writes, links and crashes, every window and every limit, and keeps the  *)
(* promise of ChatPromise.                                                 *)
(*                                                                         *)
(* ChatInv is inductive.  Beside the three properties it says that rows    *)
(* are numbered in order (write_then_send counts them under the lock),     *)
(* that a body, a list or a thread's hand is always about a row on file,   *)
(* and that what the pump is about to call delivered was stored at the     *)
(* other end.  Nearly all of it is preserved for one reason (StepKeepsInv): *)
(* a step makes at most one sealed body, and counts it.                    *)
(***************************************************************************)
EXTENDS ChatDelivery, SequenceTheorems, FiniteSetTheorems, WellFoundedInduction, TLAPS

-----------------------------------------------------------------------------
(* What is in a queue, before and after the code changes it.               *)

(* A queue appended to has what it had and what was appended. *)
LEMMA RangeOfAppend ==
  ASSUME NEW S, NEW queue \in Seq(S), NEW e \in S
  PROVE  /\ Append(queue, e) \in Seq(S)
         /\ Range(Append(queue, e)) = Range(queue) \cup {e}
<1>1. Append(queue, e) = queue \o <<e>> /\ <<e>> \in Seq(S)
  BY AppendIsConcat
<1>2. Range(queue \o <<e>>) = Range(queue) \cup Range(<<e>>)
  BY <1>1, RangeConcatenation
<1> QED BY <1>1, <1>2, AppendProperties DEF Range

(* A queue has its head and what its tail has. *)
LEMMA RangeOfTail ==
  ASSUME NEW S, NEW queue \in Seq(S), queue # <<>>
  PROVE  /\ Head(queue) \in S /\ Head(queue) \in Range(queue)
         /\ Tail(queue) \in Seq(S) /\ Range(Tail(queue)) \subseteq Range(queue)
         /\ Range(queue) = {Head(queue)} \cup Range(Tail(queue))
<1>1. /\ queue = <<Head(queue)>> \o Tail(queue)
      /\ Head(queue) \in S /\ Tail(queue) \in Seq(S)
  BY HeadTailProperties
<1>2. <<Head(queue)>> \in Seq(S)
  BY <1>1
<1>3. Range(<<Head(queue)>> \o Tail(queue)) = Range(<<Head(queue)>>) \cup Range(Tail(queue))
  BY <1>1, <1>2, RangeConcatenation
<1>4. Range(<<Head(queue)>>) = {Head(queue)}
  BY DEF Range
<1> QED BY <1>1, <1>3, <1>4

(* What a cut leaves was there before it. *)
LEMMA RangeOfPrefix ==
  ASSUME NEW S, NEW queue \in Seq(S), NEW kept \in 0..Len(queue)
  PROVE  /\ SubSeq(queue, 1, kept) \in Seq(S)
         /\ Range(SubSeq(queue, 1, kept)) \subseteq Range(queue)
<1> DEFINE n == Len(queue)
           left == SubSeq(queue, 1, kept)
<1>1. n \in Nat /\ DOMAIN queue = 1..n /\ \A i \in 1..n : queue[i] \in S
  BY LenProperties, ElementOfSeq
<1>2. kept \in Int /\ kept <= n /\ 0 <= kept
  BY <1>1
<1>3. 1..kept \subseteq 1..n
  BY <1>1, <1>2
<1>4. \A i \in 1..kept : queue[i] \in S
  BY <1>1, <1>3
<1>5. /\ left \in Seq(S)
      /\ Len(left) = IF 1 <= kept THEN kept - 1 + 1 ELSE 0
      /\ \A i \in 1..(kept - 1 + 1) : left[i] = queue[1 + i - 1]
  BY <1>2, <1>4, SubSeqProperties
<1>6. DOMAIN left = 1..Len(left)
  BY <1>5, LenProperties
<1> HIDE DEF n, left
<1>7. Len(left) = kept
  BY <1>2, <1>5
<1>8. \A i \in 1..kept : left[i] = queue[i]
  BY <1>2, <1>5
<1>9. Range(left) \subseteq Range(queue)
  BY <1>1, <1>3, <1>6, <1>7, <1>8 DEF Range
<1> QED BY <1>5, <1>9 DEF left

-----------------------------------------------------------------------------

(* There are two engines, each the other's peer. *)
LEMMA PeerFacts == /\ Party = {0, 1}
                   /\ \A p \in Party : Peer(p) \in Party /\ Peer(p) # p /\ Peer(Peer(p)) = p
                   /\ \A p, q \in Party : q # p => q = Peer(p)
  BY DEF Party, Peer

(* The messages a party may write in an instance are finitely many and     *)
(* numbered from 1.                                                        *)
LEMMA SeqsAreFinite ==
  ASSUME NEW p \in Party
  PROVE  /\ Writes[p] \in Nat /\ Seqs(p) \subseteq Nat \ {0}
         /\ IsFiniteSet(Seqs(p))
<1>1. Writes[p] \in Nat
  BY ConstantsAssumption DEF Party
<1>2. IsFiniteSet(1..Writes[p])
  BY <1>1, FS_Interval
<1> QED BY <1>1, <1>2 DEF Seqs

-----------------------------------------------------------------------------
(* The numbers above t that are missing from a finite set have a least.    *)
LEMMA LeastMissing ==
  ASSUME NEW have \in SUBSET Nat, NEW t \in Nat, NEW top \in Nat,
         \A n \in have : n <= top
  PROVE  \E m \in Nat : m > t /\ m \notin have /\ \A k \in (t + 1)..(m - 1) : k \in have
<1> DEFINE Missing == {n \in Nat : n > t /\ n \notin have}
<1>1. t + top + 1 \in Missing
  OBVIOUS
<1>2. \E m \in Missing : \A k \in Missing : ~(<<k, m>> \in OpToRel(<, Nat))
  BY <1>1, NatLessThanWellFounded, WFMin
<1>3. PICK m \in Missing : \A k \in Missing : ~(<<k, m>> \in OpToRel(<, Nat))
  BY <1>2
<1>4. \A k \in Missing : ~(k < m)
  BY <1>3 DEF OpToRel
<1>5. m \in Nat /\ m > t /\ m \notin have
  BY <1>3
<1>6. ASSUME NEW k \in (t + 1)..(m - 1) PROVE k \in have
  <2>1. k \in Nat /\ k > t /\ k < m
    BY <1>5
  <2> QED BY <2>1, <1>4
<1> QED BY <1>5, <1>6

(* Inbox::receive absorbs the unbroken run above through and no more: what *)
(* was had is had, and what stays ahead is past a gap.                     *)
LEMMA ReceivedFields ==
  ASSUME NEW through \in Nat, NEW ahead \in SUBSET Nat, IsFiniteSet(ahead),
         NEW top \in Nat, \A n \in ahead : through + 1 < n /\ n <= top,
         NEW s \in Nat, s > through, s <= top
  PROVE  LET box == Received([through |-> through, ahead |-> ahead], s) IN
         /\ DOMAIN box = {"through", "ahead"}
         /\ box = [through |-> box.through, ahead |-> box.ahead]
         /\ box.through \in Nat /\ box.through >= through
         /\ box.ahead \subseteq ahead \cup {s}
         /\ IsFiniteSet(box.ahead)
         /\ \A n \in box.ahead : box.through + 1 < n
         /\ (1..box.through) \cup box.ahead = (1..through) \cup ahead \cup {s}
<1> DEFINE have == ahead \cup {s}
           run == {n \in have : \A k \in (through + 1)..n : k \in have}
           box == Received([through |-> through, ahead |-> ahead], s)
<1>0. have \in SUBSET Nat /\ \A n \in have : through < n /\ n <= top
  OBVIOUS
<1>1. PICK m \in Nat : m > through /\ m \notin have
                       /\ \A k \in (through + 1)..(m - 1) : k \in have
  BY <1>0, LeastMissing
<1>2. run = (through + 1)..(m - 1)
  <2>1. ASSUME NEW n \in run PROVE n \in (through + 1)..(m - 1)
    <3>1. n \in Nat /\ n > through /\ \A k \in (through + 1)..n : k \in have
      OBVIOUS
    <3>2. ~(m <= n)
      BY <1>1, <3>1
    <3> QED BY <1>1, <3>1, <3>2
  <2>2. ASSUME NEW n \in (through + 1)..(m - 1) PROVE n \in run
    <3>1. (through + 1)..n \subseteq (through + 1)..(m - 1)
      BY <1>1
    <3> QED BY <1>1, <3>1
  <2> QED BY <2>1, <2>2
<1>3. Cardinality(run) = m - 1 - through
  <2>1. through + 1 \in Int /\ m - 1 \in Int /\ ~(through + 1 > m)
    BY <1>1
  <2>2. Cardinality((through + 1)..(m - 1))
          = IF through + 1 > m - 1 THEN 0 ELSE (m - 1) - (through + 1) + 1
    BY <2>1, FS_Interval
  <2>3. Cardinality((through + 1)..(m - 1)) = m - 1 - through
    BY <1>1, <2>2
  <2> HIDE DEF run
  <2> QED BY <1>2, <2>3
<1>4. box = [through |-> through + Cardinality(run), ahead |-> have \ run]
  BY DEF Received
<1>5. IsFiniteSet(have) /\ IsFiniteSet(have \ run)
  <2>1. IsFiniteSet(have)
    BY FS_AddElement
  <2>2. have \ run \in SUBSET have
    OBVIOUS
  <2> QED BY <2>1, <2>2, FS_Subset
<1> HIDE DEF run, have, box
<1>6. box = [through |-> m - 1, ahead |-> have \ run]
  BY <1>1, <1>3, <1>4
<1>7. \A n \in have \ run : m < n
  BY <1>0, <1>1, <1>2
<1>8. (1..(m - 1)) \cup (have \ run) = (1..through) \cup have
  <2>1. ASSUME NEW n PROVE n \in (1..(m - 1)) \cup (have \ run)
                           <=> n \in (1..through) \cup have
    <3>1. n \in run <=> n \in (through + 1)..(m - 1)
      BY <1>2
    <3>2. n \in 1..(m - 1) <=> n \in 1..through \/ n \in (through + 1)..(m - 1)
      BY <1>1
    <3>3. run \subseteq have
      BY DEF run
    <3> QED BY <3>1, <3>2, <3>3
  <2> QED BY <2>1
<1>9. /\ box.through = m - 1 /\ box.ahead = have \ run
      /\ DOMAIN box = {"through", "ahead"}
  BY <1>6
<1>10. have = ahead \cup {s}
  BY DEF have
<1> QED BY <1>1, <1>5, <1>6, <1>7, <1>8, <1>9, <1>10 DEF box
-----------------------------------------------------------------------------
(* A finite set of numbers has, for each count below its size, a member    *)
(* that so many others are smaller than: Ascending lists members only.     *)
Below(S, s) == {k \in S : k < s}

(* A member of a finite set of numbers has fewer others below it than the  *)
(* set has.                                                                *)
LEMMA RankedBelow ==
  ASSUME NEW S \in SUBSET Nat, IsFiniteSet(S), NEW s \in S
  PROVE  Cardinality(Below(S, s)) \in 0..(Cardinality(S) - 1)
<1>1. Below(S, s) \in SUBSET (S \ {s})
  BY DEF Below
<1>2. IsFiniteSet(S \ {s}) /\ Cardinality(S \ {s}) = Cardinality(S) - 1
  BY FS_RemoveElement
<1>3. IsFiniteSet(Below(S, s)) /\ Cardinality(Below(S, s)) <= Cardinality(S \ {s})
  BY <1>1, <1>2, FS_Subset
<1>4. Cardinality(Below(S, s)) \in Nat /\ Cardinality(S) \in Nat
  BY <1>3, FS_CardinalityType
<1> QED BY <1>2, <1>3, <1>4

(* Of two members the smaller has fewer below it, so no two have the same  *)
(* rank.                                                                   *)
LEMMA RanksDiffer ==
  ASSUME NEW S \in SUBSET Nat, IsFiniteSet(S), NEW s \in S, NEW t \in S, s < t
  PROVE  Cardinality(Below(S, s)) < Cardinality(Below(S, t))
<1>1. IsFiniteSet(Below(S, s)) /\ IsFiniteSet(Below(S, t))
  <2>1. Below(S, s) \in SUBSET S /\ Below(S, t) \in SUBSET S
    BY DEF Below
  <2> QED BY <2>1, FS_Subset
<1>2. Below(S, s) \cup {s} \in SUBSET Below(S, t)
  <2>1. \A k \in S : k < s => k < t
    OBVIOUS
  <2> QED BY <2>1 DEF Below
<1>3. s \notin Below(S, s)
  BY DEF Below
<1>4. /\ IsFiniteSet(Below(S, s) \cup {s})
      /\ Cardinality(Below(S, s) \cup {s}) = Cardinality(Below(S, s)) + 1
  BY <1>1, <1>3, FS_AddElement
<1>5. Cardinality(Below(S, s) \cup {s}) <= Cardinality(Below(S, t))
  BY <1>1, <1>2, FS_Subset
<1>6. Cardinality(Below(S, s)) \in Nat /\ Cardinality(Below(S, t)) \in Nat
  BY <1>1, FS_CardinalityType
<1> QED BY <1>4, <1>5, <1>6

(* Every rank is taken: the CHOOSE of Ascending always has a witness.      *)
LEMMA EveryRank ==
  ASSUME NEW S \in SUBSET Nat, IsFiniteSet(S), NEW i \in 0..(Cardinality(S) - 1)
  PROVE  \E s \in S : Cardinality(Below(S, s)) = i
<1> DEFINE n == Cardinality(S)
           rank == [s \in S |-> Cardinality(Below(S, s))]
           ranks == {rank[s] : s \in S}
<1>1. n \in Nat
  BY FS_CardinalityType
<1>2. \A s \in S : rank[s] \in 0..(n - 1)
  BY RankedBelow
<1>3. rank \in Injection(S, ranks)
  <2>1. \A s, t \in S : s < t => rank[s] < rank[t]
    BY RanksDiffer
  <2>2. \A s \in S : rank[s] \in Nat
    BY <1>1, <1>2
  <2>3. \A s, t \in S : s # t => s < t \/ t < s
    OBVIOUS
  <2> HIDE DEF rank, ranks, n
  <2>4. \A s, t \in S : rank[s] = rank[t] => s = t
    BY <2>1, <2>2, <2>3
  <2>5. rank \in [S -> ranks]
    BY DEF rank, ranks
  <2> QED BY <2>4, <2>5 DEF Injection, IsInjective
<1>4. rank \in Bijection(S, ranks)
  BY <1>3 DEF Bijection, Surjection, Injection
<1>5. IsFiniteSet(ranks) /\ Cardinality(ranks) = n
  BY <1>4, FS_Bijection DEF ExistsBijection
<1>6. IsFiniteSet(0..(n - 1)) /\ Cardinality(0..(n - 1)) = n
  BY <1>1, FS_Interval
<1>7. ranks \in SUBSET (0..(n - 1))
  BY <1>2
<1>8. ranks = 0..(n - 1)
  BY <1>5, <1>6, <1>7, FS_Subset
<1> QED BY <1>8

(* What resend_queued lists is made of the rows it was asked to list.      *)
LEMMA AscendingLists ==
  ASSUME NEW S \in SUBSET Nat, IsFiniteSet(S)
  PROVE  /\ Ascending(S) \in Seq(S)
         /\ Range(Ascending(S)) \subseteq S
<1> DEFINE n == Cardinality(S)
           list == Ascending(S)
<1>1. n \in Nat
  BY FS_CardinalityType
<1>2. ASSUME NEW i \in 1..n PROVE list[i] \in S
  <2>1. i - 1 \in 0..(n - 1)
    BY <1>1
  <2>2. \E s \in S : Cardinality({k \in S : k < s}) = i - 1
    BY <2>1, EveryRank DEF Below
  <2>3. list[i] = CHOOSE s \in S : Cardinality({k \in S : k < s}) = i - 1
    BY DEF Ascending
  <2> QED BY <2>2, <2>3
<1>3. DOMAIN list = 1..n
  BY DEF Ascending
<1>4. list \in [1..n -> S]
  BY <1>2 DEF Ascending
<1>5. list \in Seq(S)
  BY <1>1, <1>4
<1>6. Range(list) \subseteq S
  BY <1>2, <1>3 DEF Range
<1> QED BY <1>5, <1>6

-----------------------------------------------------------------------------
(* The types. *)
FrameType == [kind : {"chat", "ack", "opening", "opened", "gone", "garbled"},
              seq : Nat, no : Nat]
UiType == [pc : {"idle", "found", "send", "move"}, seq : Nat, no : Nat, seen : BOOLEAN]
PumpType ==
    [pc : {"idle", "ack", "promote", "list", "seal", "resend", "moved", "offer", "open"},
     todo : Seq(Nat), no : Nat, seq : Nat, offers : BOOLEAN]

StoreOK ==
    /\ DOMAIN row = Party /\ DOMAIN seal = Party
    /\ \A p \in Party :
          /\ row[p] \in [Seqs(p) -> {"none", "Queued", "Sent", "Delivered"}]
          /\ seal[p] \in [Seqs(p) -> Nat]
    /\ sealed \in [Party -> Nat]
    /\ spent \in [Party -> SUBSET Nat]
    /\ stored \in [Party -> Seq(Nat)]
    /\ inbox \in [Party -> [through : Nat, ahead : SUBSET Nat]]

ThreadsOK ==
    /\ ui \in [Party -> [UiThread -> UiType]]
    /\ pump \in [Party -> PumpType]

NetworkOK ==
    /\ session \in [Party -> Nat] /\ spoilt \in [Party -> Nat]
    /\ link \in Nat /\ links \in Nat /\ crashes \in Nat
    /\ arriving \in [Party -> Seq(FrameType)]

TypeOK == StoreOK /\ ThreadsOK /\ NetworkOK

(* The messages written. *)
HasRow(p) == {s \in Seqs(p) : row[p][s] # "none"}

(* Sequence numbers are given in order, one for each row. *)
RowsInOrder == \A p \in Party : HasRow(p) = 1..Cardinality(HasRow(p))

(* Whatever is sealed, listed or in a thread's hand is about a message on  *)
(* file, and what is about to be called delivered was stored at the other  *)
(* end.                                                                    *)
PumpHolds(p) ==
    /\ Range(pump[p].todo) \subseteq HasRow(p)
    /\ pump[p].pc \in {"seal", "resend", "moved"} => pump[p].todo # <<>>
    /\ pump[p].pc = "promote" => pump[p].seq \in Rows(Peer(p))

UiHolds(p) ==
    \A t \in UiThread : ui[p][t].pc \in {"send", "move"} => ui[p][t].seq \in HasRow(p)

OnFile ==
    \A p \in Party :
        /\ \A f \in Bodies(p) : f.kind = "chat" => f.seq \in HasRow(p)
        /\ Rows(p) \subseteq HasRow(Peer(p))
        /\ PumpHolds(p) /\ UiHolds(p)

ChatInv ==
    /\ TypeOK
    /\ RowsInOrder /\ OnFile
    /\ InboxMatchesRows /\ AckMeansStored /\ NumbersUsedOnce

-----------------------------------------------------------------------------
(* The sealed bodies, by where they are. *)
InSeals(p) == {Frame("chat", s, seal[p][s]) : s \in {k \in Seqs(p) : seal[p][k] # 0}}
InUi(p) == {Frame("chat", ui[p][t].seq, ui[p][t].no) :
               t \in {u \in UiThread : ui[p][u].pc = "send"}}
InPump(p) ==
    (IF pump[p].pc = "resend"
     THEN {Frame("chat", Head(pump[p].todo), pump[p].no)} ELSE {})
    \cup (IF pump[p].pc = "ack" THEN {Frame("ack", pump[p].seq, pump[p].no)} ELSE {})
    \cup (IF pump[p].pc = "open" THEN {Frame("opening", 0, pump[p].no)} ELSE {})
InAir(p) == {f \in Range(arriving[Peer(p)]) : f.kind \in {"chat", "ack", "opening"}}

(* A sealed body is kept as a seal, or held by a thread of the interface   *)
(* or by the pump, or on its way.                                          *)
LEMMA BodiesByPlace ==
  \A p : Bodies(p) = InSeals(p) \cup InUi(p) \cup InPump(p) \cup InAir(p)
<1> TAKE p
<1>1. CASE pump[p].pc = "resend"
  BY <1>1, Zenon DEF Bodies, InSeals, InUi, InPump, InAir, Range
<1>2. CASE pump[p].pc = "ack"
  BY <1>2, Zenon DEF Bodies, InSeals, InUi, InPump, InAir, Range
<1>3. CASE pump[p].pc = "open"
  BY <1>3, Zenon DEF Bodies, InSeals, InUi, InPump, InAir, Range
<1>4. CASE pump[p].pc \notin {"resend", "ack", "open"}
  BY <1>4, Zenon DEF Bodies, InSeals, InUi, InPump, InAir, Range
<1> QED BY <1>1, <1>2, <1>3, <1>4

(* The same after a step.                                                  *)
LEMMA BodiesByPlaceThen ==
  \A p : Bodies(p)' = InSeals(p)' \cup InUi(p)' \cup InPump(p)' \cup InAir(p)'
<1>1. (\A p : Bodies(p) = InSeals(p) \cup InUi(p) \cup InPump(p) \cup InAir(p))'
  BY BodiesByPlace, PTL
<1> QED BY <1>1

(* What a step does to the bodies of p: none is new, or one is, under the  *)
(* next number and about something on file.                                *)
BodiesGrow(p) ==
    \/ Bodies(p)' \subseteq Bodies(p) /\ sealed[p] <= sealed'[p]
    \/ \E f : /\ Bodies(p)' \subseteq Bodies(p) \cup {f}
              /\ f.no = sealed[p] + 1 /\ sealed'[p] = sealed[p] + 1
              /\ f.kind = "chat" => f.seq \in HasRow(p)'
              /\ f.kind = "ack" => f.seq \in Rows(p)'

StepOK ==
    /\ TypeOK' /\ RowsInOrder' /\ InboxMatchesRows'
    /\ \A p \in Party :
          /\ HasRow(p) \subseteq HasRow(p)' /\ Rows(p) \subseteq Rows(p)'
          /\ Rows(p)' \subseteq HasRow(Peer(p))'
          /\ PumpHolds(p)' /\ UiHolds(p)'
          /\ BodiesGrow(p)

(* A step that keeps the types and the order of the rows, and makes at     *)
(* most one body, under the next number of the ratchet, keeps the          *)
(* invariant.                                                              *)
LEMMA StepKeepsInv ==
  ASSUME ChatInv, StepOK
  PROVE  ChatInv'
<1>1. ASSUME NEW p \in Party
      PROVE  /\ \A f, g \in Bodies(p)' : f.no = g.no => f = g
             /\ \A f \in Bodies(p)' : f.no \in 1..sealed'[p]
             /\ \A f \in Bodies(p)' : f.kind = "ack" => f.seq \in Rows(p)'
             /\ \A f \in Bodies(p)' : f.kind = "chat" => f.seq \in HasRow(p)'
  <2>1. /\ \A f, g \in Bodies(p) : f.no = g.no => f = g
        /\ \A f \in Bodies(p) : f.no \in 1..sealed[p]
        /\ \A f \in Bodies(p) : f.kind = "ack" => f.seq \in Rows(p)
        /\ \A f \in Bodies(p) : f.kind = "chat" => f.seq \in HasRow(p)
    BY DEF ChatInv, NumbersUsedOnce, AckMeansStored, OnFile
  <2>2. HasRow(p) \subseteq HasRow(p)' /\ Rows(p) \subseteq Rows(p)'
    BY DEF StepOK
  <2>3. sealed[p] \in Nat /\ sealed'[p] \in Nat
    BY DEF ChatInv, StepOK, TypeOK, StoreOK
  <2>4. CASE Bodies(p)' \subseteq Bodies(p) /\ sealed[p] <= sealed'[p]
    <3>1. 1..sealed[p] \subseteq 1..sealed'[p]
      BY <2>3, <2>4
    <3> QED BY <2>1, <2>2, <2>4, <3>1
  <2>5. ASSUME NEW f, Bodies(p)' \subseteq Bodies(p) \cup {f},
               f.no = sealed[p] + 1, sealed'[p] = sealed[p] + 1,
               f.kind = "chat" => f.seq \in HasRow(p)',
               f.kind = "ack" => f.seq \in Rows(p)'
        PROVE  <1>1!2
    <3>1. \A g \in Bodies(p) : g.no \in 1..sealed'[p] /\ g.no # f.no
      BY <2>1, <2>3, <2>5
    <3>2. f.no \in 1..sealed'[p]
      BY <2>3, <2>5
    <3> QED BY <2>1, <2>2, <2>5, <3>1, <3>2
  <2>6. BodiesGrow(p)
    BY DEF StepOK
  <2> QED BY <2>4, <2>5, <2>6 DEF BodiesGrow
<1>2. NumbersUsedOnce'
  BY <1>1 DEF NumbersUsedOnce
<1>3. AckMeansStored'
  BY <1>1 DEF AckMeansStored
<1>4. OnFile'
  BY <1>1 DEF OnFile, StepOK
<1> QED BY <1>2, <1>3, <1>4 DEF ChatInv, StepOK

-----------------------------------------------------------------------------
(* Steps that leave the rows, the seals and the counter alone.             *)
Quiet == UNCHANGED <<row, seal, sealed, stored, inbox>>

(* What only the store determines is as it was when the store is.          *)
LEMMA QuietStore ==
  ASSUME ChatInv, Quiet
  PROVE  /\ \A p : HasRow(p)' = HasRow(p) /\ Rows(p)' = Rows(p)
                   /\ InSeals(p)' = InSeals(p)
         /\ RowsInOrder' /\ InboxMatchesRows'
         /\ spent' \in [Party -> SUBSET Nat] => StoreOK'
<1>1. \A p : HasRow(p)' = HasRow(p) /\ Rows(p)' = Rows(p) /\ InSeals(p)' = InSeals(p)
  BY DEF Quiet, HasRow, Rows, InSeals
<1>2. RowsInOrder'
  BY <1>1 DEF ChatInv, RowsInOrder
<1>3. InboxMatchesRows'
  BY <1>1 DEF ChatInv, InboxMatchesRows, Quiet
<1>4. spent' \in [Party -> SUBSET Nat] => StoreOK'
  BY DEF Quiet, ChatInv, TypeOK, StoreOK
<1> QED BY <1>1, <1>2, <1>3, <1>4

(* A step that leaves the store alone but for opened bodies, and makes no  *)
(* body, keeps the invariant.                                              *)
LEMMA QuietStep ==
  ASSUME ChatInv, Quiet, spent' \in [Party -> SUBSET Nat], ThreadsOK', NetworkOK',
         \A p \in Party :
            /\ InUi(p)' \subseteq Bodies(p) /\ InPump(p)' \subseteq Bodies(p)
            /\ InAir(p)' \subseteq Bodies(p)
            /\ PumpHolds(p)' /\ UiHolds(p)'
  PROVE  ChatInv'
<1>1. TypeOK'
  BY QuietStore DEF TypeOK
<1>2. ASSUME NEW p \in Party PROVE BodiesGrow(p)
  <2>1. Bodies(p)' = InSeals(p)' \cup InUi(p)' \cup InPump(p)' \cup InAir(p)'
    BY BodiesByPlaceThen
  <2>2. InSeals(p)' \subseteq Bodies(p)
    BY QuietStore, BodiesByPlace
  <2>3. sealed[p] <= sealed'[p]
    BY DEF Quiet, ChatInv, TypeOK, StoreOK
  <2> QED BY <2>1, <2>2, <2>3 DEF BodiesGrow
<1>3. \A p \in Party : Rows(p)' \subseteq HasRow(Peer(p))'
  BY QuietStore DEF ChatInv, OnFile
<1>4. StepOK
  BY <1>1, <1>2, <1>3, QuietStore DEF StepOK
<1> QED BY <1>4, StepKeepsInv

(* A thread of the interface that is not about to send holds no body.      *)
LEMMA UiAway ==
  ASSUME ThreadsOK, NEW p \in Party, NEW t \in UiThread, NEW after \in UiType,
         ui' = [ui EXCEPT ![p][t] = after]
  PROVE  /\ ui' \in [Party -> [UiThread -> UiType]]
         /\ \A q \in Party \ {p} : InUi(q)' = InUi(q)
         /\ \A q \in Party \ {p} :
               UiHolds(q) /\ HasRow(q) \subseteq HasRow(q)' => UiHolds(q)'
         /\ InUi(p)' \subseteq InUi(p) \cup
               (IF after.pc = "send" THEN {Frame("chat", after.seq, after.no)} ELSE {})
         /\ after.pc \in {"idle", "found"} \/ after.seq \in HasRow(p)'
               => (UiHolds(p) /\ HasRow(p) \subseteq HasRow(p)' => UiHolds(p)')
<1>1. ui' \in [Party -> [UiThread -> UiType]]
  BY DEF ThreadsOK
<1>2. /\ ui'[p] = [ui[p] EXCEPT ![t] = after]
      /\ \A q \in Party \ {p} : ui'[q] = ui[q]
  BY DEF ThreadsOK
<1>3. /\ ui'[p][t] = after
      /\ \A u \in UiThread \ {t} : ui'[p][u] = ui[p][u]
  BY <1>2 DEF ThreadsOK
<1>4. \A q \in Party \ {p} : InUi(q)' = InUi(q)
  BY <1>2 DEF InUi
<1>5. ASSUME NEW f \in InUi(p)'
      PROVE  f \in InUi(p) \cup
               (IF after.pc = "send" THEN {Frame("chat", after.seq, after.no)} ELSE {})
  <2>1. PICK u \in UiThread : ui'[p][u].pc = "send"
                              /\ f = Frame("chat", ui'[p][u].seq, ui'[p][u].no)
    BY DEF InUi
  <2>2. CASE u = t
    BY <1>3, <2>1, <2>2
  <2>3. CASE u # t
    BY <1>3, <2>1, <2>3 DEF InUi
  <2> QED BY <2>2, <2>3
<1>6. ASSUME NEW q \in Party \ {p}, UiHolds(q), HasRow(q) \subseteq HasRow(q)'
      PROVE  UiHolds(q)'
  BY <1>2, <1>6 DEF UiHolds
<1>7. ASSUME after.pc \in {"idle", "found"} \/ after.seq \in HasRow(p)',
             UiHolds(p), HasRow(p) \subseteq HasRow(p)'
      PROVE  UiHolds(p)'
  BY <1>3, <1>7 DEF UiHolds
<1> QED BY <1>1, <1>4, <1>5, <1>6, <1>7

(* A pump thread that moves leaves the other engine's where it stands.     *)
LEMMA PumpTo ==
  ASSUME ThreadsOK, NEW p \in Party, NEW after \in PumpType,
         pump' = [pump EXCEPT ![p] = after]
  PROVE  /\ pump' \in [Party -> PumpType]
         /\ pump'[p] = after
         /\ \A q \in Party \ {p} : InPump(q)' = InPump(q)
         /\ \A q \in Party \ {p} :
               /\ PumpHolds(q)
               /\ HasRow(q) \subseteq HasRow(q)'
               /\ Rows(Peer(q)) \subseteq Rows(Peer(q))'
               => PumpHolds(q)'
<1>1. pump' \in [Party -> PumpType] /\ pump'[p] = after
  BY DEF ThreadsOK
<1>2. \A q \in Party \ {p} : pump'[q] = pump[q]
  BY DEF ThreadsOK
<1>3. \A q \in Party \ {p} : InPump(q)' = InPump(q)
  BY <1>2 DEF InPump
<1>4. ASSUME NEW q \in Party \ {p}, PumpHolds(q), HasRow(q) \subseteq HasRow(q)',
             Rows(Peer(q)) \subseteq Rows(Peer(q))'
      PROVE  PumpHolds(q)'
  BY <1>2, <1>4 DEF PumpHolds
<1> QED BY <1>1, <1>3, <1>4

(* The threads at rest hold nothing.                                       *)
LEMMA IdleTypes ==
  /\ UiIdle \in UiType /\ UiIdle.pc = "idle"
  /\ PumpIdle \in PumpType /\ PumpIdle.pc = "idle" /\ PumpIdle.todo = <<>>
  /\ Range(<<>>) = {}
<1>1. <<>> \in Seq(Nat)
  BY EmptySeq
<1>2. DOMAIN <<>> = {}
  OBVIOUS
<1> QED BY <1>1, <1>2 DEF UiIdle, UiType, PumpIdle, PumpType, Range

(* An event taken off the queue was on it, and a body taken is one of the  *)
(* other engine's.                                                         *)
LEMMA TakesFields ==
  ASSUME NetworkOK, NEW p \in Party, NEW kind, Takes(p, kind)
  PROVE  /\ pump[p].pc = "idle"
         /\ Head(arriving[p]) \in FrameType /\ Head(arriving[p]).kind = kind
         /\ arriving' \in [Party -> Seq(FrameType)]
         /\ \A q \in Party : InAir(q)' \subseteq InAir(q)
         /\ kind \in {"chat", "ack", "opening"}
               => Head(arriving[p]) \in Bodies(Peer(p))
<1>1. arriving[p] \in Seq(FrameType) /\ arriving[p] # <<>>
  BY DEF NetworkOK, Takes
<1>2. /\ Head(arriving[p]) \in FrameType /\ Head(arriving[p]) \in Range(arriving[p])
      /\ Tail(arriving[p]) \in Seq(FrameType)
      /\ Range(Tail(arriving[p])) \subseteq Range(arriving[p])
  BY <1>1, RangeOfTail
<1>3. /\ arriving' \in [Party -> Seq(FrameType)]
      /\ arriving'[p] = Tail(arriving[p])
      /\ \A q \in Party \ {p} : arriving'[q] = arriving[q]
  BY <1>2 DEF NetworkOK, Takes
<1>4. \A q \in Party : Range(arriving'[q]) \subseteq Range(arriving[q])
  BY <1>2, <1>3
<1>5. \A q \in Party : InAir(q)' \subseteq InAir(q)
  BY <1>4, PeerFacts DEF InAir
<1>6. Head(arriving[p]).kind = kind /\ pump[p].pc = "idle"
  BY DEF Takes
<1>7. kind \in {"chat", "ack", "opening"} => Head(arriving[p]) \in InAir(Peer(p))
  BY <1>2, <1>6, PeerFacts DEF InAir
<1> QED BY <1>2, <1>3, <1>5, <1>6, <1>7, BodiesByPlace

(* What joins the peer's queue is on the way to the peer only, and a body  *)
(* only if it was one.                                                     *)
LEMMA JoinsFields ==
  ASSUME NetworkOK, NEW p \in Party, NEW frame \in FrameType, Joins(p, frame)
  PROVE  /\ arriving' \in [Party -> Seq(FrameType)]
         /\ InAir(p)' \subseteq InAir(p) \cup {frame}
         /\ frame.kind = "garbled" => InAir(p)' \subseteq InAir(p)
         /\ \A q \in Party \ {p} : InAir(q)' = InAir(q)
<1> DEFINE longer == Append(arriving[Peer(p)], frame)
<1>1. arriving[Peer(p)] \in Seq(FrameType)
  BY PeerFacts DEF NetworkOK
<1>2. longer \in Seq(FrameType) /\ Range(longer) = Range(arriving[Peer(p)]) \cup {frame}
  BY <1>1, RangeOfAppend
<1>3. /\ arriving' \in [Party -> Seq(FrameType)]
      /\ arriving'[Peer(p)] = longer
      /\ \A q \in Party : q # Peer(p) => arriving'[q] = arriving[q]
  <2>1. arriving' = [arriving EXCEPT ![Peer(p)] = longer]
    BY DEF Joins
  <2> HIDE DEF longer
  <2> QED BY <2>1, <1>2, PeerFacts DEF NetworkOK
<1>4. /\ InAir(p)' \subseteq InAir(p) \cup {frame}
      /\ frame.kind = "garbled" => InAir(p)' \subseteq InAir(p)
  BY <1>2, <1>3 DEF InAir
<1>5. ASSUME NEW q \in Party \ {p} PROVE InAir(q)' = InAir(q)
  <2>1. Peer(q) # Peer(p) /\ Peer(q) \in Party
    BY PeerFacts
  <2> QED BY <1>3, <2>1 DEF InAir
<1> QED BY <1>3, <1>4, <1>5

(* A frame sent is at most on its way, and on the way to the peer only.    *)
LEMMA SendsFields ==
  ASSUME NetworkOK, NEW p \in Party, NEW frame \in FrameType,
         Sends(p, frame) \/ FailsToSend(p)
  PROVE  /\ arriving' \in [Party -> Seq(FrameType)]
         /\ spoilt' \in [Party -> Nat]
         /\ InAir(p)' \subseteq InAir(p) \cup {frame}
         /\ \A q \in Party \ {p} : InAir(q)' = InAir(q)
<1>1. spoilt' \in [Party -> Nat]
  <2>1. UNCHANGED spoilt \/ spoilt' = [spoilt EXCEPT ![p] = link]
    BY DEF Sends, InTurn, OutOfTurn, Vanishes, FailsToSend, Spoil
  <2> QED BY <2>1 DEF NetworkOK
<1>2. UNCHANGED arriving \/ Joins(p, frame) \/ Joins(p, Unreadable)
  BY DEF Sends, InTurn, OutOfTurn, Vanishes, FailsToSend
<1>3. CASE UNCHANGED arriving
  BY <1>1, <1>3 DEF NetworkOK, InAir
<1>4. CASE Joins(p, frame)
  BY <1>1, <1>4, JoinsFields
<1>5. CASE Joins(p, Unreadable)
  <2>1. Unreadable \in FrameType /\ Unreadable.kind = "garbled"
    BY DEF Unreadable, Frame, FrameType
  <2> QED BY <1>1, <1>5, <2>1, JoinsFields
<1> QED BY <1>2, <1>3, <1>4, <1>5

-----------------------------------------------------------------------------
(* The interface looks for the device, or finds nothing to write: no more  *)
(* than a thread moves.                                                    *)
LEMMA LookOrRefuseKeepsInv ==
  ASSUME ChatInv, NEW p \in Party, NEW t \in UiThread,
         RefuseWrite(p, t) \/ \E seen \in Sightings : LookForDevice(p, t, seen)
  PROVE  ChatInv'
<1>1. PICK after \in UiType : ui' = [ui EXCEPT ![p][t] = after]
                              /\ after.pc \in {"idle", "found"}
  <2>1. CASE RefuseWrite(p, t)
    BY <2>1, IdleTypes DEF RefuseWrite
  <2>2. ASSUME NEW seen \in Sightings, LookForDevice(p, t, seen)
        PROVE  \E after \in UiType : ui' = [ui EXCEPT ![p][t] = after]
                                     /\ after.pc \in {"idle", "found"}
    <3> DEFINE after == [UiIdle EXCEPT !.pc = "found", !.seen = seen]
    <3>1. seen \in BOOLEAN
      BY ConstantsAssumption
    <3>2. after \in UiType /\ after.pc = "found"
      BY <3>1, IdleTypes DEF UiType
    <3> QED BY <2>2, <3>2 DEF LookForDevice
  <2> QED BY <2>1, <2>2
<1>2. UNCHANGED <<store, pump, network>>
  BY DEF RefuseWrite, LookForDevice
<1>3. Quiet /\ UNCHANGED spent /\ UNCHANGED pump /\ NetworkOK'
  BY <1>2 DEF store, network, Quiet, ChatInv, TypeOK, NetworkOK
<1>4. ThreadsOK' /\ spent' \in [Party -> SUBSET Nat]
  BY <1>1, <1>3, UiAway DEF ChatInv, TypeOK, ThreadsOK, StoreOK
<1>5. ASSUME NEW q \in Party
      PROVE  /\ InUi(q)' \subseteq Bodies(q) /\ InPump(q)' \subseteq Bodies(q)
             /\ InAir(q)' \subseteq Bodies(q)
             /\ PumpHolds(q)' /\ UiHolds(q)'
  <2>1. InUi(q)' \subseteq InUi(q) /\ UiHolds(q)'
    BY <1>1, <1>3, UiAway, QuietStore DEF ChatInv, TypeOK, OnFile
  <2>2. InPump(q)' = InPump(q) /\ InAir(q)' = InAir(q)
    BY <1>2 DEF network, InPump, InAir
  <2>3. PumpHolds(q)'
    BY <1>3, QuietStore DEF ChatInv, OnFile, PumpHolds
  <2> QED BY <2>1, <2>2, <2>3, BodiesByPlace
<1> QED BY <1>3, <1>4, <1>5, QuietStep

(* A step of one pump that makes no body and leaves the store alone keeps  *)
(* the invariant.                                                          *)
LEMMA QuietPumpStep ==
  ASSUME ChatInv, Quiet, spent' \in [Party -> SUBSET Nat], UNCHANGED ui, NetworkOK',
         NEW p \in Party, NEW after \in PumpType,
         pump' = [pump EXCEPT ![p] = after],
         InPump(p)' \subseteq Bodies(p), PumpHolds(p)',
         \A q \in Party : InAir(q)' \subseteq Bodies(q)
  PROVE  ChatInv'
<1>1. ThreadsOK /\ \A q \in Party : PumpHolds(q) /\ UiHolds(q)
  BY DEF ChatInv, TypeOK, OnFile
<1>2. ThreadsOK'
  BY <1>1, PumpTo DEF ThreadsOK
<1>3. ASSUME NEW q \in Party
      PROVE  /\ InUi(q)' \subseteq Bodies(q) /\ InPump(q)' \subseteq Bodies(q)
             /\ InAir(q)' \subseteq Bodies(q)
             /\ PumpHolds(q)' /\ UiHolds(q)'
  <2>1. InUi(q)' = InUi(q) /\ UiHolds(q)'
    BY <1>1, QuietStore DEF InUi, UiHolds
  <2>2. InPump(q)' \subseteq Bodies(q) /\ PumpHolds(q)'
    BY <1>1, PumpTo, QuietStore, BodiesByPlace
  <2> QED BY <2>1, <2>2, BodiesByPlace
<1> QED BY <1>2, <1>3, QuietStep

(* A pump that is not about to send holds no body. *)
LEMMA PumpEmptyHanded ==
  ASSUME ThreadsOK, NEW p \in Party, NEW after \in PumpType,
         pump' = [pump EXCEPT ![p] = after], after.pc \in {"idle", "list", "offer"},
         after.todo = <<>>
  PROVE  InPump(p)' = {} /\ PumpHolds(p)'
<1>1. pump'[p] = after
  BY PumpTo
<1> QED BY <1>1, IdleTypes DEF InPump, PumpHolds

(* A body the interface wrote is sent, or lost with its link. *)
LEMMA SendWrittenKeepsInv ==
  ASSUME ChatInv, NEW p \in Party, NEW t \in UiThread, SendWritten(p, t)
  PROVE  ChatInv'
<1> DEFINE frame == Frame("chat", ui[p][t].seq, ui[p][t].no)
<1>1. ThreadsOK /\ NetworkOK /\ ui[p][t] \in UiType /\ \A q \in Party : UiHolds(q)
  BY DEF ChatInv, TypeOK, ThreadsOK, OnFile
<1>2. frame \in FrameType /\ frame \in InUi(p)
  BY <1>1 DEF SendWritten, Frame, FrameType, UiType, InUi
<1>3. /\ Quiet /\ UNCHANGED <<spent, pump, session, link, links, crashes>>
      /\ Sends(p, frame) \/ FailsToSend(p)
  BY DEF SendWritten, store, Quiet
<1>4. PICK after \in UiType :
         /\ ui' = [ui EXCEPT ![p][t] = after]
         /\ after = UiIdle \/ (after.pc = "move" /\ after.seq = ui[p][t].seq)
  <2>1. CASE ui' = [ui EXCEPT ![p][t] = UiIdle]
    BY <2>1, IdleTypes
  <2>2. CASE ui' = [ui EXCEPT ![p][t].pc = "move"]
    <3> DEFINE after == [ui[p][t] EXCEPT !.pc = "move"]
    <3>1. after \in UiType /\ after.pc = "move" /\ after.seq = ui[p][t].seq
      BY <1>1 DEF UiType
    <3>2. ui' = [ui EXCEPT ![p][t] = after]
      BY <2>2
    <3> QED BY <3>1, <3>2
  <2> QED BY <2>1, <2>2 DEF SendWritten
<1>5. /\ arriving' \in [Party -> Seq(FrameType)] /\ spoilt' \in [Party -> Nat]
      /\ InAir(p)' \subseteq InAir(p) \cup {frame}
      /\ \A q \in Party \ {p} : InAir(q)' = InAir(q)
  BY <1>1, <1>2, <1>3, SendsFields
<1>6. ui' \in [Party -> [UiThread -> UiType]]
  BY <1>1, <1>4, UiAway
<1>7. spent' \in [Party -> SUBSET Nat] /\ ThreadsOK' /\ NetworkOK'
  BY <1>3, <1>5, <1>6 DEF ChatInv, TypeOK, StoreOK, ThreadsOK, NetworkOK
<1>8. after.pc # "send" /\ (after.pc = "idle" \/ after.seq \in HasRow(p)')
  <2>1. ui[p][t].seq \in HasRow(p)
    BY <1>1 DEF UiHolds, SendWritten
  <2> QED BY <1>3, <1>4, <2>1, IdleTypes, QuietStore
<1>9. ASSUME NEW q \in Party
      PROVE  /\ InUi(q)' \subseteq Bodies(q) /\ InPump(q)' \subseteq Bodies(q)
             /\ InAir(q)' \subseteq Bodies(q)
             /\ PumpHolds(q)' /\ UiHolds(q)'
  <2>1. InUi(q)' \subseteq InUi(q) /\ UiHolds(q)'
    BY <1>1, <1>3, <1>4, <1>8, UiAway, QuietStore
  <2>2. InPump(q)' = InPump(q)
    BY <1>3 DEF InPump
  <2>3. PumpHolds(q)'
    BY <1>3, QuietStore DEF ChatInv, OnFile, PumpHolds
  <2>4. InAir(q)' \subseteq Bodies(q)
    BY <1>2, <1>5, BodiesByPlace
  <2> QED BY <2>1, <2>2, <2>3, <2>4, BodiesByPlace
<1> QED BY <1>3, <1>7, <1>9, QuietStep

(* The pump about to list what is queued holds nothing.                    *)
LEMMA ListTypes ==
  /\ [PumpIdle EXCEPT !.pc = "list", !.offers = TRUE] \in PumpType
  /\ [PumpIdle EXCEPT !.pc = "list", !.offers = TRUE].pc = "list"
  /\ [PumpIdle EXCEPT !.pc = "list", !.offers = TRUE].todo = <<>>
  /\ [PumpIdle EXCEPT !.pc = "list"] \in PumpType
  /\ [PumpIdle EXCEPT !.pc = "list"].pc = "list"
  /\ [PumpIdle EXCEPT !.pc = "list"].todo = <<>>
<1>1. <<>> \in Seq(Nat)
  BY EmptySeq
<1> QED BY <1>1 DEF PumpIdle, PumpType

(* Opening a body records its number.                                      *)
LEMMA SpendType ==
  ASSUME spent \in [Party -> SUBSET Nat], NEW p \in Party, NEW no \in Nat, Spend(p, no)
  PROVE  spent' \in [Party -> SUBSET Nat]
  BY DEF Spend

(* An event is taken off the queue, and nothing is left in hand. *)
LEMMA TakeKeepsInv ==
  ASSUME ChatInv, NEW p \in Party,
         \/ SessionOpened(p) \/ SessionClosed(p) \/ DropUnreadable(p) \/ DropReplayed(p)
         \/ KeepTurnOnly(p) \/ TakeAnOpening(p)
  PROVE  ChatInv'
<1>1. ThreadsOK /\ NetworkOK /\ \A q \in Party : PumpHolds(q)
  BY DEF ChatInv, TypeOK, OnFile
<1>2. PICK kind : Takes(p, kind)
  BY Zenon DEF SessionOpened, SessionClosed, DropUnreadable, DropReplayed, KeepTurnOnly, TakeAnOpening
<1>3. /\ Quiet /\ UNCHANGED <<ui, spoilt, link, links, crashes>>
      /\ spent' = spent \/ Spend(p, Head(arriving[p]).no)
      /\ session' = session \/ \E n \in Nat : session' = [session EXCEPT ![p] = n]
  <2>1. Head(arriving[p]).no \in Nat
    BY <1>1, <1>2, TakesFields DEF FrameType
  <2>2. CASE SessionOpened(p)
    BY <2>1, <2>2 DEF SessionOpened, store, Quiet
  <2>3. CASE SessionClosed(p)
    <3>1. session[p] \in Nat
      BY <1>1 DEF NetworkOK
    <3> QED BY <2>3, <3>1 DEF SessionClosed, store, Quiet
  <2>5. CASE DropUnreadable(p)
    BY <2>5 DEF DropUnreadable, store, Quiet
  <2>4. CASE DropReplayed(p) \/ KeepTurnOnly(p) \/ TakeAnOpening(p)
    BY <2>4 DEF DropReplayed, KeepTurnOnly, TakeAnOpening, store, Quiet
  <2> QED BY <2>2, <2>3, <2>4, <2>5
<1>4. Head(arriving[p]).no \in Nat /\ pump[p].pc = "idle"
  BY <1>1, <1>2, TakesFields DEF FrameType
<1>5. spent' \in [Party -> SUBSET Nat]
  <2>1. spent \in [Party -> SUBSET Nat]
    BY DEF ChatInv, TypeOK, StoreOK
  <2>2. CASE spent' = spent
    BY <2>1, <2>2
  <2>3. CASE Spend(p, Head(arriving[p]).no)
    BY <2>1, <2>3, <1>4, SpendType
  <2> QED BY <1>3, <2>2, <2>3
<1>6. NetworkOK'
  <2>1. arriving' \in [Party -> Seq(FrameType)]
    BY <1>1, <1>2, TakesFields
  <2>2. session' \in [Party -> Nat]
    BY <1>1, <1>3 DEF NetworkOK
  <2> QED BY <1>1, <1>3, <2>1, <2>2 DEF NetworkOK
<1>7. \A q \in Party : InAir(q)' \subseteq Bodies(q)
  BY <1>1, <1>2, TakesFields, BodiesByPlace
<1>8. PICK after \in PumpType :
         /\ pump' = [pump EXCEPT ![p] = after]
         /\ after = pump[p] \/ (after.pc = "list" /\ after.todo = <<>>)
  <2>1. CASE UNCHANGED pump
    <3>1. pump \in [Party -> PumpType]
      BY <1>1 DEF ThreadsOK
    <3>2. pump' = [pump EXCEPT ![p] = pump[p]] /\ pump[p] \in PumpType
      BY <2>1, <3>1
    <3> QED BY <3>2
  <2>2. ASSUME NEW after, pump' = [pump EXCEPT ![p] = after],
               after \in PumpType, after.pc = "list", after.todo = <<>>
        PROVE  \E hand \in PumpType :
                  /\ pump' = [pump EXCEPT ![p] = hand]
                  /\ hand = pump[p] \/ (hand.pc = "list" /\ hand.todo = <<>>)
    BY <2>2, Zenon
  <2>3. CASE SessionOpened(p)
    BY <2>3, <2>2, ListTypes DEF SessionOpened
  <2>4. CASE TakeAnOpening(p)
    BY <2>4, <2>2, ListTypes DEF TakeAnOpening
  <2>5. CASE \/ SessionClosed(p) \/ DropUnreadable(p)
           \/ DropReplayed(p) \/ KeepTurnOnly(p)
    <3>1. UNCHANGED pump
      BY <2>5, Zenon DEF SessionClosed, DropUnreadable, DropReplayed, KeepTurnOnly
    <3> QED BY <3>1, <2>1
  <2> QED BY <2>3, <2>4, <2>5
<1>9. InPump(p)' \subseteq Bodies(p) /\ PumpHolds(p)'
  <2>1. CASE after = pump[p]
    <3>1. pump'[p] = pump[p]
      BY <1>1, <1>8, <2>1, PumpTo
    <3>2. InPump(p)' = InPump(p)
      BY <3>1 DEF InPump
    <3>3. PumpHolds(p)'
      BY <1>1, <1>3, <3>1, QuietStore DEF PumpHolds
    <3> QED BY <3>2, <3>3, BodiesByPlace
  <2>2. CASE after.pc = "list" /\ after.todo = <<>>
    BY <1>1, <1>8, <2>2, PumpEmptyHanded
  <2> QED BY <1>8, <2>1, <2>2
<1> QED BY <1>3, <1>5, <1>6, <1>7, <1>8, <1>9, QuietPumpStep

(* The pump sends the body it holds, or finds its link gone. *)
LEMMA SendFromHand ==
  ASSUME ChatInv, NEW p \in Party, NEW frame \in FrameType, frame \in InPump(p),
         Sends(p, frame) \/ FailsToSend(p),
         UNCHANGED <<store, ui, session, link, links, crashes>>,
         NEW after \in PumpType, pump' = [pump EXCEPT ![p] = after],
         InPump(p)' \subseteq Bodies(p), PumpHolds(p)'
  PROVE  ChatInv'
<1>1. NetworkOK /\ spent \in [Party -> SUBSET Nat]
  BY DEF ChatInv, TypeOK, StoreOK
<1>2. /\ arriving' \in [Party -> Seq(FrameType)] /\ spoilt' \in [Party -> Nat]
      /\ InAir(p)' \subseteq InAir(p) \cup {frame}
      /\ \A q \in Party \ {p} : InAir(q)' = InAir(q)
  BY <1>1, SendsFields
<1>3. Quiet /\ UNCHANGED spent
  BY DEF store, Quiet
<1>4. NetworkOK' /\ spent' \in [Party -> SUBSET Nat]
  BY <1>1, <1>2, <1>3 DEF NetworkOK
<1>5. \A q \in Party : InAir(q)' \subseteq Bodies(q)
  BY <1>2, BodiesByPlace
<1> QED BY <1>3, <1>4, <1>5, QuietPumpStep

(* The acknowledgement in hand is sent, or lost with its link.             *)
LEMMA SendAckKeepsInv ==
  ASSUME ChatInv, NEW p \in Party, SendAck(p)
  PROVE  ChatInv'
<1> DEFINE frame == Frame("ack", pump[p].seq, pump[p].no)
<1>1. ThreadsOK /\ pump[p] \in PumpType
  BY DEF ChatInv, TypeOK, ThreadsOK
<1>2. frame \in FrameType
  BY <1>1 DEF Frame, FrameType, PumpType
<1>3. pump[p].pc = "ack" /\ pump' = [pump EXCEPT ![p] = PumpIdle]
  BY DEF SendAck
<1>4. frame \in InPump(p)
  BY <1>3 DEF InPump
<1>5. InPump(p)' = {} /\ PumpHolds(p)'
  BY <1>1, <1>3, IdleTypes, PumpEmptyHanded
<1>6. /\ Sends(p, frame) \/ FailsToSend(p)
      /\ UNCHANGED <<store, ui, session, link, links, crashes>>
  BY DEF SendAck
<1> QED BY <1>2, <1>3, <1>4, <1>5, <1>6, IdleTypes, SendFromHand

(* The opening in hand is sent, or lost with its link.                     *)
LEMMA SendAnOpeningKeepsInv ==
  ASSUME ChatInv, NEW p \in Party, SendAnOpening(p)
  PROVE  ChatInv'
<1> DEFINE frame == Frame("opening", 0, pump[p].no)
<1>1. ThreadsOK /\ pump[p] \in PumpType
  BY DEF ChatInv, TypeOK, ThreadsOK
<1>2. frame \in FrameType
  BY <1>1 DEF Frame, FrameType, PumpType
<1>3. pump[p].pc = "open" /\ pump' = [pump EXCEPT ![p] = PumpIdle]
  BY DEF SendAnOpening
<1>4. frame \in InPump(p)
  BY <1>3 DEF InPump
<1>5. InPump(p)' = {} /\ PumpHolds(p)'
  BY <1>1, <1>3, IdleTypes, PumpEmptyHanded
<1>6. /\ Sends(p, frame) \/ FailsToSend(p)
      /\ UNCHANGED <<store, ui, session, link, links, crashes>>
  BY DEF SendAnOpening
<1> QED BY <1>2, <1>3, <1>4, <1>5, <1>6, IdleTypes, SendFromHand

(* The pump with a list in hand and no body yet. *)
LEMMA AfterResendFields ==
  ASSUME NEW p
  PROVE  /\ AfterResend(p) \in PumpType /\ AfterResend(p).todo = <<>>
         /\ AfterResend(p).pc \in {"idle", "offer"}
<1>1. <<>> \in Seq(Nat)
  BY EmptySeq
<1> QED BY <1>1 DEF AfterResend, PumpIdle, PumpType

(* The pump going on with a list has the list, or is done with it.         *)
LEMMA ResendingFields ==
  ASSUME ThreadsOK, NEW p \in Party, NEW todo \in Seq(Nat)
  PROVE  /\ Resending(p, todo) \in PumpType
         /\ Resending(p, todo).pc \in {"idle", "offer", "seal"}
         /\ Range(Resending(p, todo).todo) \subseteq Range(todo)
         /\ Resending(p, todo).pc = "seal" => Resending(p, todo).todo # <<>>
<1>1. pump[p] \in PumpType
  BY DEF ThreadsOK
<1>2. CASE todo = <<>>
  BY <1>2, AfterResendFields, IdleTypes DEF Resending
<1>3. CASE todo # <<>>
  <2> DEFINE after == [pump[p] EXCEPT !.pc = "seal", !.todo = todo]
  <2>1. after \in PumpType /\ after.pc = "seal" /\ after.todo = todo
    BY <1>1 DEF PumpType
  <2>2. Resending(p, todo) = after
    BY <1>3 DEF Resending
  <2> HIDE DEF after
  <2> QED BY <1>3, <2>1, <2>2
<1> QED BY <1>2, <1>3

(* A pump going on with a list of messages on file holds no body, and      *)
(* lists messages on file only.                                            *)
LEMMA ResendingHolds ==
  ASSUME ThreadsOK, NEW p \in Party, NEW todo \in Seq(Nat),
         Range(todo) \subseteq HasRow(p)',
         pump' = [pump EXCEPT ![p] = Resending(p, todo)]
  PROVE  InPump(p)' = {} /\ PumpHolds(p)'
<1> DEFINE after == Resending(p, todo)
<1>1. /\ after \in PumpType /\ after.pc \in {"idle", "offer", "seal"}
      /\ Range(after.todo) \subseteq Range(todo)
      /\ after.pc = "seal" => after.todo # <<>>
  BY ResendingFields
<1> HIDE DEF after
<1>2. pump' = [pump EXCEPT ![p] = after]
  BY DEF after
<1>3. pump'[p] = after
  BY <1>1, <1>2, PumpTo
<1> QED BY <1>1, <1>3 DEF InPump, PumpHolds

(* resend_queued lists messages on file and changes nothing else.          *)
LEMMA ListQueuedKeepsInv ==
  ASSUME ChatInv, NEW p \in Party, ListQueued(p)
  PROVE  ChatInv'
<1> DEFINE queued == Lowest(InState(p, "Queued"), MaxUnacked)
           todo == Ascending(queued)
<1>1. ThreadsOK /\ NetworkOK /\ spent \in [Party -> SUBSET Nat]
  BY DEF ChatInv, TypeOK, StoreOK
<1>2. queued \in SUBSET Seqs(p) /\ queued \subseteq HasRow(p)
  BY DEF Lowest, InState, HasRow
<1>3. queued \in SUBSET Nat /\ IsFiniteSet(queued)
  BY <1>2, SeqsAreFinite, FS_Subset
<1> HIDE DEF queued
<1>4. todo \in Seq(queued) /\ Range(todo) \subseteq queued
  BY <1>3, AscendingLists
<1> HIDE DEF todo
<1>5. todo \in Seq(Nat) /\ Range(todo) \subseteq HasRow(p)
  <2>1. todo \in [1..Len(todo) -> queued] /\ Len(todo) \in Nat
    BY <1>4, LenProperties
  <2>2. todo \in [1..Len(todo) -> Nat]
    BY <1>3, <2>1
  <2> QED BY <1>2, <1>4, <2>1, <2>2
<1>6. pump' = [pump EXCEPT ![p] = Resending(p, todo)]
  BY DEF ListQueued, queued, todo
<1>7. /\ Quiet /\ UNCHANGED <<spent, ui, session, spoilt, link, links, arriving, crashes>>
  BY DEF ListQueued, store, network, Quiet
<1>8. Range(todo) \subseteq HasRow(p)'
  BY <1>5, <1>7, QuietStore
<1>9. InPump(p)' = {} /\ PumpHolds(p)' /\ Resending(p, todo) \in PumpType
  BY <1>1, <1>5, <1>6, <1>8, ResendingHolds, ResendingFields
<1>10. NetworkOK' /\ spent' \in [Party -> SUBSET Nat]
  BY <1>1, <1>7 DEF NetworkOK
<1>11. \A q \in Party : InAir(q)' \subseteq Bodies(q)
  <2>1. \A q \in Party : InAir(q)' = InAir(q)
    BY <1>7 DEF InAir
  <2> QED BY <2>1, BodiesByPlace
<1> QED BY <1>6, <1>7, <1>9, <1>10, <1>11, QuietPumpStep

(* A queued body is resent under the number it was sealed with, or lost    *)
(* with its link.                                                          *)
LEMMA ResendKeepsInv ==
  ASSUME ChatInv, NEW p \in Party, Resend(p)
  PROVE  ChatInv'
<1> DEFINE frame == Frame("chat", Head(pump[p].todo), pump[p].no)
<1>1. ThreadsOK /\ pump[p] \in PumpType /\ PumpHolds(p)
  BY DEF ChatInv, TypeOK, ThreadsOK, OnFile
<1>2. pump[p].pc = "resend" /\ pump[p].todo \in Seq(Nat) /\ pump[p].todo # <<>>
  BY <1>1 DEF Resend, PumpHolds, PumpType
<1>3. Head(pump[p].todo) \in Nat
  BY <1>2, RangeOfTail
<1>4. frame \in FrameType
  BY <1>1, <1>3 DEF Frame, FrameType, PumpType
<1>5. frame \in InPump(p)
  BY <1>2 DEF InPump
<1>6. /\ Sends(p, frame) \/ FailsToSend(p)
      /\ UNCHANGED <<store, ui, session, link, links, crashes>>
  BY DEF Resend
<1>7. Quiet
  BY <1>6 DEF store, Quiet
<1> HIDE DEF frame
<1>8. CASE pump' = [pump EXCEPT ![p].pc = "moved"]
  <2> DEFINE after == [pump[p] EXCEPT !.pc = "moved"]
  <2>1. after \in PumpType /\ after.pc = "moved" /\ after.todo = pump[p].todo
    BY <1>1 DEF PumpType
  <2>2. pump' = [pump EXCEPT ![p] = after]
    BY <1>8
  <2> HIDE DEF after
  <2>3. pump'[p] = after
    BY <1>1, <2>1, <2>2, PumpTo
  <2>4. InPump(p)' = {}
    BY <2>1, <2>3 DEF InPump
  <2>5. PumpHolds(p)'
    BY <1>1, <1>2, <1>7, <2>1, <2>3, QuietStore DEF PumpHolds
  <2> QED BY <1>4, <1>5, <1>6, <2>1, <2>2, <2>4, <2>5, SendFromHand
<1>9. CASE pump' = [pump EXCEPT ![p] = AfterResend(p)]
  <2> DEFINE after == AfterResend(p)
  <2>1. after \in PumpType /\ after.pc \in {"idle", "list", "offer"} /\ after.todo = <<>>
    BY AfterResendFields
  <2> HIDE DEF after
  <2>2. pump' = [pump EXCEPT ![p] = after]
    BY <1>9 DEF after
  <2>3. InPump(p)' = {} /\ PumpHolds(p)'
    BY <1>1, <2>1, <2>2, PumpEmptyHanded
  <2> QED BY <1>4, <1>5, <1>6, <2>1, <2>2, <2>3, SendFromHand
<1> QED BY <1>8, <1>9 DEF Resend

(* An acknowledgement is read against a message on file, which the other   *)
(* end has stored.                                                         *)
LEMMA MarkDeliveredKeepsInv ==
  ASSUME ChatInv, NEW p \in Party, MarkDelivered(p)
  PROVE  ChatInv'
<1> DEFINE m == Head(arriving[p])
           promoting == [PumpIdle EXCEPT !.pc = "promote", !.seq = m.seq]
<1>1. ThreadsOK /\ NetworkOK /\ spent \in [Party -> SUBSET Nat]
  BY DEF ChatInv, TypeOK, StoreOK
<1>2. Takes(p, "ack") /\ Spend(p, m.no)
  BY DEF MarkDelivered
<1>3. /\ m \in FrameType /\ m.kind = "ack"
      /\ arriving' \in [Party -> Seq(FrameType)]
      /\ \A q \in Party : InAir(q)' \subseteq InAir(q)
      /\ m \in Bodies(Peer(p))
  BY <1>1, <1>2, TakesFields
<1>4. m.seq \in Rows(Peer(p)) /\ m.seq \in Nat /\ m.no \in Nat
  BY <1>3, PeerFacts DEF ChatInv, AckMeansStored, FrameType
<1>5. spent' \in [Party -> SUBSET Nat]
  BY <1>1, <1>2, <1>4, SpendType
<1>6. Quiet /\ UNCHANGED <<ui, session, spoilt, link, links, crashes>>
  BY DEF MarkDelivered, Quiet
<1>7. NetworkOK'
  BY <1>1, <1>3, <1>6 DEF NetworkOK
<1>8. \A q \in Party : InAir(q)' \subseteq Bodies(q)
  BY <1>3, BodiesByPlace
<1>9. CASE pump' = [pump EXCEPT ![p] = PumpIdle]
  <2>1. InPump(p)' = {} /\ PumpHolds(p)'
    BY <1>1, <1>9, IdleTypes, PumpEmptyHanded
  <2> QED BY <1>5, <1>6, <1>7, <1>8, <1>9, <2>1, IdleTypes, QuietPumpStep
<1>10. CASE pump' = [pump EXCEPT ![p] = promoting]
  <2>1. /\ promoting \in PumpType /\ promoting.pc = "promote"
        /\ promoting.seq = m.seq /\ promoting.todo = <<>>
    <3>1. <<>> \in Seq(Nat)
      BY EmptySeq
    <3> QED BY <1>4, <3>1 DEF PumpIdle, PumpType
  <2>2. m.seq \in Rows(Peer(p))'
    BY <1>4, <1>6, QuietStore
  <2> HIDE DEF promoting, m
  <2>3. pump'[p] = promoting
    BY <1>1, <1>10, <2>1, PumpTo
  <2>4. InPump(p)' = {}
    BY <2>1, <2>3 DEF InPump
  <2>5. PumpHolds(p)'
    BY <2>1, <2>2, <2>3, IdleTypes DEF PumpHolds
  <2> QED BY <1>5, <1>6, <1>7, <1>8, <1>10, <2>1, <2>4, <2>5, QuietPumpStep
<1> QED BY <1>9, <1>10 DEF MarkDelivered

-----------------------------------------------------------------------------
(* The link. *)
LEMMA AirShrinks ==
  ASSUME \A q \in Party : \A f \in Range(arriving'[q]) :
            f \in Range(arriving[q]) \/ f.kind \in {"opened", "gone"}
  PROVE  \A q \in Party : InAir(q)' \subseteq InAir(q)
<1> TAKE q \in Party
<1>1. Peer(q) \in Party
  BY PeerFacts
<1>2. \A f \in Range(arriving'[Peer(q)]) :
          f \in Range(arriving[Peer(q)]) \/ f.kind \in {"opened", "gone"}
  BY <1>1
<1>3. ASSUME NEW f, f \in InAir(q)' PROVE f \in InAir(q)
  <2>1. f \in Range(arriving'[Peer(q)]) /\ f.kind \in {"chat", "ack", "opening"}
    BY <1>3 DEF InAir
  <2>2. f \in Range(arriving[Peer(q)])
    BY <1>2, <2>1
  <2> QED BY <2>1, <2>2 DEF InAir
<1> QED BY <1>3

(* Only what runs and what travels changes, and no body is new. *)
LEMMA NetworkStep ==
  ASSUME ChatInv, UNCHANGED store, ThreadsOK', NetworkOK',
         \A q \in Party : \A f \in Range(arriving'[q]) :
            f \in Range(arriving[q]) \/ f.kind \in {"opened", "gone"},
         \A q \in Party : InUi(q)' \subseteq InUi(q) /\ InPump(q)' \subseteq InPump(q),
         \A q \in Party : PumpHolds(q)' /\ UiHolds(q)'
  PROVE  ChatInv'
<1>1. Quiet /\ spent' \in [Party -> SUBSET Nat]
  BY DEF store, Quiet, ChatInv, TypeOK, StoreOK
<1>2. \A q \in Party : /\ InUi(q)' \subseteq Bodies(q) /\ InPump(q)' \subseteq Bodies(q)
                       /\ InAir(q)' \subseteq Bodies(q)
  BY AirShrinks, BodiesByPlace
<1> QED BY <1>1, <1>2, QuietStep

(* Threads that do not move go on holding what they held.                  *)
LEMMA ThreadsStay ==
  ASSUME ChatInv, UNCHANGED <<store, ui, pump>>
  PROVE  /\ ThreadsOK'
         /\ \A q \in Party : InUi(q)' \subseteq InUi(q) /\ InPump(q)' \subseteq InPump(q)
         /\ \A q \in Party : PumpHolds(q)' /\ UiHolds(q)'
<1>1. ThreadsOK' /\ Quiet
  BY DEF ChatInv, TypeOK, ThreadsOK, store, Quiet
<1>2. \A q \in Party : InUi(q)' \subseteq InUi(q) /\ InPump(q)' \subseteq InPump(q)
  BY DEF InUi, InPump
<1>3. ASSUME NEW q \in Party PROVE PumpHolds(q)' /\ UiHolds(q)'
  <2>1. PumpHolds(q) /\ UiHolds(q)
    BY DEF ChatInv, OnFile
  <2> QED BY <1>1, <2>1, QuietStore DEF PumpHolds, UiHolds
<1> QED BY <1>1, <1>2, <1>3

(* A handshake that completes tells both ends and carries no body.         *)
LEMMA LinkUpKeepsInv ==
  ASSUME ChatInv, LinkUp
  PROVE  ChatInv'
<1> DEFINE opened == Frame("opened", 0, links + 1)
<1>1. NetworkOK
  BY DEF ChatInv, TypeOK
<1>2. opened \in FrameType /\ opened.kind = "opened"
  BY <1>1 DEF Frame, FrameType, NetworkOK
<1>3. arriving' = [q \in Party |-> Append(arriving[q], opened)]
  BY DEF LinkUp
<1> HIDE DEF opened
<1>4. ASSUME NEW q \in Party
      PROVE  /\ arriving'[q] \in Seq(FrameType)
             /\ Range(arriving'[q]) = Range(arriving[q]) \cup {opened}
  <2>1. arriving[q] \in Seq(FrameType) /\ arriving'[q] = Append(arriving[q], opened)
    BY <1>1, <1>3 DEF NetworkOK
  <2> QED BY <1>2, <2>1, RangeOfAppend
<1>5. arriving' \in [Party -> Seq(FrameType)]
  BY <1>3, <1>4
<1>6. NetworkOK'
  BY <1>1, <1>5 DEF NetworkOK, LinkUp
<1>7. UNCHANGED <<store, ui, pump>>
  BY DEF LinkUp
<1> QED BY <1>2, <1>4, <1>6, <1>7, ThreadsStay, NetworkStep

(* What a link that breaks leaves in a queue was in it, but for the news   *)
(* of the break.                                                           *)
LEMMA CutFields ==
  ASSUME NetworkOK, NEW q \in Party, NEW kept \in Cuttable(arriving[q])
  PROVE  /\ Cut(arriving[q], kept) \in Seq(FrameType)
         /\ \A f \in Range(Cut(arriving[q], kept)) :
               f \in Range(arriving[q]) \/ f.kind \in {"opened", "gone"}
<1> DEFINE gone == Frame("gone", 0, link)
           left == SubSeq(arriving[q], 1, kept)
<1>1. gone \in FrameType /\ gone.kind = "gone" /\ arriving[q] \in Seq(FrameType)
  BY DEF Frame, FrameType, NetworkOK
<1>2. kept \in 0..Len(arriving[q])
  BY DEF Cuttable
<1>3. left \in Seq(FrameType) /\ Range(left) \subseteq Range(arriving[q])
  BY <1>1, <1>2, RangeOfPrefix
<1> HIDE DEF gone, left
<1>4. Append(left, gone) \in Seq(FrameType) /\ Range(Append(left, gone)) = Range(left) \cup {gone}
  BY <1>1, <1>3, RangeOfAppend
<1>5. Cut(arriving[q], kept) = Append(left, gone)
  BY DEF Cut, left, gone
<1> QED BY <1>1, <1>3, <1>4, <1>5

(* A link that breaks loses bodies and makes none.                         *)
LEMMA LinkDownKeepsInv ==
  ASSUME ChatInv, LinkDown
  PROVE  ChatInv'
<1>1. NetworkOK
  BY DEF ChatInv, TypeOK
<1>2. PICK a \in Cuttable(arriving[0]), b \in Cuttable(arriving[1]) :
         arriving' = [p \in Party |-> Cut(arriving[p], IF p = 0 THEN a ELSE b)]
  BY DEF LinkDown
<1>3. ASSUME NEW q \in Party
      PROVE  /\ arriving'[q] \in Seq(FrameType)
             /\ \A f \in Range(arriving'[q]) :
                   f \in Range(arriving[q]) \/ f.kind \in {"opened", "gone"}
  <2>1. CASE q = 0
    <3>1. arriving'[q] = Cut(arriving[q], a) /\ a \in Cuttable(arriving[q])
      BY <1>2, <2>1
    <3> QED BY <1>1, <3>1, CutFields
  <2>2. CASE q = 1
    <3>1. arriving'[q] = Cut(arriving[q], b) /\ b \in Cuttable(arriving[q])
      BY <1>2, <2>2
    <3> QED BY <1>1, <3>1, CutFields
  <2> QED BY <2>1, <2>2, PeerFacts
<1>4. arriving' \in [Party -> Seq(FrameType)]
  BY <1>2, <1>3
<1>5. NetworkOK'
  BY <1>1, <1>4 DEF NetworkOK, LinkDown
<1>6. UNCHANGED <<store, ui, pump>>
  BY DEF LinkDown
<1> QED BY <1>3, <1>5, <1>6, ThreadsStay, NetworkStep

(* A killed engine keeps its store, and holds nothing in hand. *)
LEMMA CrashKeepsInv ==
  ASSUME ChatInv, NEW p \in Party, Crash(p)
  PROVE  ChatInv'
<1>1. ThreadsOK /\ NetworkOK /\ \A q \in Party : PumpHolds(q) /\ UiHolds(q)
  BY DEF ChatInv, TypeOK, OnFile
<1>2. PICK kept \in Cuttable(arriving[Peer(p)]) :
         arriving' = [q \in Party |->
               IF q = p THEN <<>>
               ELSE IF link = 0 THEN arriving[q] ELSE Cut(arriving[q], kept)]
  BY DEF Crash
<1>3. ASSUME NEW q \in Party
      PROVE  /\ arriving'[q] \in Seq(FrameType)
             /\ \A f \in Range(arriving'[q]) :
                   f \in Range(arriving[q]) \/ f.kind \in {"opened", "gone"}
  <2>1. CASE q = p
    <3>1. arriving'[q] = <<>> /\ <<>> \in Seq(FrameType)
      BY <1>2, <2>1, EmptySeq
    <3> QED BY <3>1, IdleTypes
  <2>2. CASE q # p /\ link = 0
    <3>1. arriving'[q] = arriving[q]
      BY <1>2, <2>2
    <3> QED BY <1>1, <3>1 DEF NetworkOK
  <2>3. CASE q # p /\ link # 0
    <3>1. q = Peer(p)
      BY <2>3, PeerFacts
    <3>2. arriving'[q] = Cut(arriving[q], kept) /\ kept \in Cuttable(arriving[q])
      BY <1>2, <2>3, <3>1
    <3> QED BY <1>1, <3>2, CutFields
  <2> QED BY <2>1, <2>2, <2>3
<1>4. arriving' \in [Party -> Seq(FrameType)]
  BY <1>2, <1>3
<1>5. NetworkOK'
  <2>1. /\ session' \in [Party -> Nat] /\ spoilt' \in [Party -> Nat]
        /\ link' \in Nat /\ links' \in Nat /\ crashes' \in Nat
    BY <1>1 DEF NetworkOK, Crash
  <2> QED BY <1>4, <2>1 DEF NetworkOK
<1>6. UNCHANGED store /\ Quiet
  BY DEF Crash, store, Quiet
<1>7. pump' = [pump EXCEPT ![p] = PumpIdle]
  BY DEF Crash
<1>8. ui' \in [Party -> [UiThread -> UiType]]
  <2> DEFINE away == [t \in UiThread |-> UiIdle]
  <2>1. away \in [UiThread -> UiType]
    BY IdleTypes
  <2>2. ui' = [ui EXCEPT ![p] = away]
    BY DEF Crash
  <2> HIDE DEF away
  <2> QED BY <1>1, <2>1, <2>2 DEF ThreadsOK
<1>9. ThreadsOK'
  BY <1>1, <1>7, <1>8, IdleTypes, PumpTo DEF ThreadsOK
<1>10. ASSUME NEW q \in Party
       PROVE  /\ InUi(q)' \subseteq InUi(q) /\ InPump(q)' \subseteq InPump(q)
              /\ PumpHolds(q)' /\ UiHolds(q)'
  <2>1. InPump(q)' \subseteq InPump(q) /\ PumpHolds(q)'
    <3>1. CASE q = p
      BY <1>1, <1>7, <3>1, IdleTypes, PumpEmptyHanded
    <3>2. CASE q # p
      BY <1>1, <1>6, <1>7, <3>2, IdleTypes, PumpTo, QuietStore
    <3> QED BY <3>1, <3>2
  <2>2. CASE q = p
    <3>1. \A t \in UiThread : ui'[q][t] = UiIdle
      BY <1>1, <2>2 DEF Crash, ThreadsOK
    <3>2. InUi(q)' = {} /\ UiHolds(q)'
      BY <3>1, IdleTypes DEF InUi, UiHolds
    <3> QED BY <2>1, <3>2
  <2>3. CASE q # p
    <3>1. ui'[q] = ui[q]
      BY <1>1, <2>3 DEF Crash, ThreadsOK
    <3>2. InUi(q)' = InUi(q) /\ UiHolds(q)'
      BY <1>1, <1>6, <3>1, QuietStore DEF InUi, UiHolds
    <3> QED BY <2>1, <3>2
  <2> QED BY <2>2, <2>3
<1> QED BY <1>3, <1>5, <1>6, <1>9, <1>10, NetworkStep

-----------------------------------------------------------------------------
(* A message on file changes its state: none is lost, and its seal at most *)
(* goes.                                                                   *)
LEMMA MoveFacts ==
  ASSUME ChatInv, NEW p \in Party, NEW s \in HasRow(p), NEW state \in {"Sent", "Delivered"},
         SetMessageState(p, s, state)
  PROVE  /\ StoreOK' /\ UNCHANGED <<sealed, spent, stored, inbox>>
         /\ \A q \in Party : HasRow(q)' = HasRow(q) /\ InSeals(q)' \subseteq InSeals(q)
<1>1. StoreOK /\ s \in Seqs(p)
  BY DEF ChatInv, TypeOK, HasRow
<1>2. /\ row' = [row EXCEPT ![p][s] = state]
      /\ seal' = [seal EXCEPT ![p][s] = 0]
      /\ UNCHANGED <<sealed, spent, stored, inbox>>
  BY DEF SetMessageState
<1>3. /\ DOMAIN row' = Party /\ DOMAIN seal' = Party
      /\ row'[p] = [row[p] EXCEPT ![s] = state]
      /\ seal'[p] = [seal[p] EXCEPT ![s] = 0]
      /\ \A q \in Party \ {p} : row'[q] = row[q] /\ seal'[q] = seal[q]
  BY <1>1, <1>2 DEF StoreOK
<1>4. /\ row'[p] \in [Seqs(p) -> {"none", "Queued", "Sent", "Delivered"}]
      /\ seal'[p] \in [Seqs(p) -> Nat]
      /\ row[p] \in [Seqs(p) -> {"none", "Queued", "Sent", "Delivered"}]
      /\ seal[p] \in [Seqs(p) -> Nat]
  BY <1>1, <1>3 DEF StoreOK
<1>5. StoreOK'
  <2>1. \A q \in Party :
           /\ row'[q] \in [Seqs(q) -> {"none", "Queued", "Sent", "Delivered"}]
           /\ seal'[q] \in [Seqs(q) -> Nat]
    BY <1>1, <1>3, <1>4 DEF StoreOK
  <2> QED BY <1>1, <1>2, <1>3, <2>1 DEF StoreOK
<1>6. ASSUME NEW q \in Party
      PROVE  HasRow(q)' = HasRow(q) /\ InSeals(q)' \subseteq InSeals(q)
  <2>1. CASE q = p
    <3>1. \A k \in Seqs(p) : row'[p][k] = IF k = s THEN state ELSE row[p][k]
      BY <1>3, <1>4
    <3>2. \A k \in Seqs(p) : seal'[p][k] = IF k = s THEN 0 ELSE seal[p][k]
      BY <1>3, <1>4
    <3>3. HasRow(p)' = HasRow(p)
      BY <3>1 DEF HasRow
    <3>4. InSeals(p)' \subseteq InSeals(p)
      BY <3>2 DEF InSeals
    <3> QED BY <2>1, <3>3, <3>4
  <2>2. CASE q # p
    BY <1>3, <2>2 DEF HasRow, InSeals
  <2> QED BY <2>1, <2>2
<1> QED BY <1>2, <1>5, <1>6

(* The inbox matches the rows as long as neither is written.               *)
LEMMA RowsStay ==
  ASSUME ChatInv, UNCHANGED <<stored, inbox>>
  PROVE  InboxMatchesRows' /\ \A q : Rows(q)' = Rows(q)
  BY DEF ChatInv, InboxMatchesRows, Rows

(* A change of state of a message on file keeps the invariant.             *)
LEMMA MovedStep ==
  ASSUME ChatInv, NEW p \in Party, NEW s \in HasRow(p), NEW state \in {"Sent", "Delivered"},
         SetMessageState(p, s, state), UNCHANGED network, ThreadsOK',
         \A q \in Party : InUi(q)' \subseteq InUi(q) /\ InPump(q)' \subseteq InPump(q),
         \A q \in Party : PumpHolds(q)' /\ UiHolds(q)'
  PROVE  ChatInv'
<1>1. /\ StoreOK' /\ UNCHANGED <<sealed, spent, stored, inbox>>
      /\ \A q \in Party : HasRow(q)' = HasRow(q) /\ InSeals(q)' \subseteq InSeals(q)
  BY MoveFacts
<1>2. TypeOK' /\ \A q : InAir(q)' = InAir(q)
  BY <1>1 DEF ChatInv, TypeOK, NetworkOK, network, InAir
<1>3. InboxMatchesRows' /\ \A q : Rows(q)' = Rows(q)
  BY <1>1, RowsStay
<1>4. RowsInOrder'
  BY <1>1 DEF ChatInv, RowsInOrder
<1>5. ASSUME NEW q \in Party
      PROVE  Rows(q)' \subseteq HasRow(Peer(q))' /\ BodiesGrow(q)
  <2>1. Rows(q)' \subseteq HasRow(Peer(q))'
    BY <1>1, <1>3, PeerFacts DEF ChatInv, OnFile
  <2>2. Bodies(q)' \subseteq Bodies(q)
    BY <1>1, <1>2, BodiesByPlace, BodiesByPlaceThen
  <2>3. sealed[q] <= sealed'[q]
    BY <1>1 DEF ChatInv, TypeOK, StoreOK
  <2> QED BY <2>1, <2>2, <2>3 DEF BodiesGrow
<1>6. StepOK
  BY <1>1, <1>2, <1>3, <1>4, <1>5 DEF StepOK
<1> QED BY <1>6, StepKeepsInv

(* The interface marks as sent a message that is on file.                  *)
LEMMA MoveWrittenKeepsInv ==
  ASSUME ChatInv, NEW p \in Party, NEW t \in UiThread, MoveWritten(p, t)
  PROVE  ChatInv'
<1> DEFINE s == ui[p][t].seq
<1>1. ThreadsOK /\ \A q \in Party : PumpHolds(q) /\ UiHolds(q)
  BY DEF ChatInv, TypeOK, OnFile
<1>2. s \in HasRow(p) /\ SetMessageState(p, s, "Sent") /\ UNCHANGED <<pump, network>>
  BY <1>1 DEF MoveWritten, UiHolds
<1>3. ui' = [ui EXCEPT ![p][t] = UiIdle]
  BY DEF MoveWritten
<1> HIDE DEF s
<1>4. /\ UNCHANGED <<stored, inbox>>
      /\ \A q \in Party : HasRow(q)' = HasRow(q)
  BY <1>2, MoveFacts
<1>5. \A q : Rows(q)' = Rows(q)
  BY <1>4, RowsStay
<1>6. ThreadsOK'
  BY <1>1, <1>2, <1>3, IdleTypes, UiAway DEF ThreadsOK
<1>7. ASSUME NEW q \in Party
      PROVE  InUi(q)' \subseteq InUi(q) /\ UiHolds(q)'
  BY <1>1, <1>3, <1>4, IdleTypes, UiAway
<1>8. ASSUME NEW q \in Party
      PROVE  InPump(q)' \subseteq InPump(q) /\ PumpHolds(q)'
  BY <1>1, <1>2, <1>4, <1>5 DEF InPump, PumpHolds
<1> QED BY <1>2, <1>6, <1>7, <1>8, MovedStep

(* The threads of the interface that do not move go on holding messages on *)
(* file.                                                                   *)
LEMMA UiStays ==
  ASSUME UNCHANGED ui, \A q \in Party : UiHolds(q) /\ HasRow(q) \subseteq HasRow(q)'
  PROVE  \A q \in Party : InUi(q)' = InUi(q) /\ UiHolds(q)'
  BY DEF InUi, UiHolds

(* The pump's change of state of a message on file keeps the invariant.    *)
LEMMA PumpMoved ==
  ASSUME ChatInv, NEW p \in Party, NEW s \in HasRow(p), NEW state \in {"Sent", "Delivered"},
         SetMessageState(p, s, state), UNCHANGED <<ui, network>>,
         NEW after \in PumpType, pump' = [pump EXCEPT ![p] = after],
         InPump(p)' = {} /\ PumpHolds(p)'
  PROVE  ChatInv'
<1>1. ThreadsOK /\ \A q \in Party : PumpHolds(q) /\ UiHolds(q)
  BY DEF ChatInv, TypeOK, OnFile
<1>2. /\ UNCHANGED <<stored, inbox>>
      /\ \A q \in Party : HasRow(q)' = HasRow(q)
  BY MoveFacts
<1>3. \A q : Rows(q)' = Rows(q)
  BY <1>2, RowsStay
<1>4. ThreadsOK'
  BY <1>1, PumpTo DEF ThreadsOK
<1>5. ASSUME NEW q \in Party
      PROVE  /\ InUi(q)' \subseteq InUi(q) /\ UiHolds(q)'
             /\ InPump(q)' \subseteq InPump(q) /\ PumpHolds(q)'
  <2>1. InUi(q)' \subseteq InUi(q) /\ UiHolds(q)'
    BY <1>1, <1>2, UiStays
  <2>2. CASE q # p
    BY <1>1, <1>2, <1>3, <2>1, <2>2, PumpTo
  <2> QED BY <2>1, <2>2
<1> QED BY <1>4, <1>5, MovedStep

(* What an acknowledgement promotes is on file, since the other end stored *)
(* it.                                                                     *)
LEMMA PromoteKeepsInv ==
  ASSUME ChatInv, NEW p \in Party, Promote(p)
  PROVE  ChatInv'
<1> DEFINE s == pump[p].seq
<1>1. ThreadsOK /\ PumpHolds(p)
  BY DEF ChatInv, TypeOK, OnFile
<1>2. /\ SetMessageState(p, s, "Delivered") /\ UNCHANGED <<ui, network>>
      /\ pump' = [pump EXCEPT ![p] = PumpIdle]
  BY DEF Promote
<1>3. s \in HasRow(p)
  <2>1. s \in Rows(Peer(p))
    BY <1>1 DEF Promote, PumpHolds
  <2>2. Rows(Peer(p)) \subseteq HasRow(Peer(Peer(p)))
    BY PeerFacts DEF ChatInv, OnFile
  <2> QED BY <2>1, <2>2, PeerFacts
<1>4. InPump(p)' = {} /\ PumpHolds(p)'
  BY <1>1, <1>2, IdleTypes, PumpEmptyHanded
<1> QED BY <1>2, <1>3, <1>4, IdleTypes, PumpMoved

(* The message the resend is about is on file, and so is the rest of its   *)
(* list.                                                                   *)
LEMMA TodoFields ==
  ASSUME ChatInv, NEW p \in Party, pump[p].pc \in {"seal", "resend", "moved"}
  PROVE  /\ pump[p].todo \in Seq(Nat) /\ Head(pump[p].todo) \in HasRow(p)
         /\ Tail(pump[p].todo) \in Seq(Nat)
         /\ Range(Tail(pump[p].todo)) \subseteq HasRow(p)
<1> DEFINE todo == pump[p].todo
<1>1. todo \in Seq(Nat)
  BY DEF ChatInv, TypeOK, ThreadsOK, PumpType
<1>2. todo # <<>> /\ Range(todo) \subseteq HasRow(p)
  BY DEF ChatInv, OnFile, PumpHolds
<1> HIDE DEF todo
<1>3. /\ Head(todo) \in Range(todo) /\ Tail(todo) \in Seq(Nat)
      /\ Range(Tail(todo)) \subseteq Range(todo)
  BY <1>1, <1>2, RangeOfTail
<1> QED BY <1>1, <1>2, <1>3 DEF todo

(* The resend marks as sent a message that is on file.                     *)
LEMMA MoveResentKeepsInv ==
  ASSUME ChatInv, NEW p \in Party, MoveResent(p)
  PROVE  ChatInv'
<1> DEFINE s == Head(pump[p].todo)
           rest == Tail(pump[p].todo)
<1>1. ThreadsOK
  BY DEF ChatInv, TypeOK
<1>2. /\ s \in HasRow(p) /\ rest \in Seq(Nat) /\ Range(rest) \subseteq HasRow(p)
  BY TodoFields DEF MoveResent
<1>3. SetMessageState(p, s, "Sent") /\ UNCHANGED <<ui, network>>
  BY DEF MoveResent
<1>4. pump' = [pump EXCEPT ![p] = Resending(p, rest)]
  BY <1>1 DEF MoveResent, ThreadsOK
<1> HIDE DEF s, rest
<1>5. Range(rest) \subseteq HasRow(p)'
  BY <1>2, <1>3, MoveFacts
<1>6. /\ InPump(p)' = {} /\ PumpHolds(p)' /\ Resending(p, rest) \in PumpType
  BY <1>1, <1>2, <1>4, <1>5, ResendingHolds, ResendingFields
<1> QED BY <1>2, <1>3, <1>4, <1>6, PumpMoved

-----------------------------------------------------------------------------
(* Sealing. *)
LEMMA NothingNew ==
  ASSUME NEW q, sealed[q] <= sealed'[q],
         InSeals(q)' \subseteq InSeals(q), InUi(q)' \subseteq InUi(q),
         InPump(q)' \subseteq InPump(q), InAir(q)' \subseteq InAir(q)
  PROVE  BodiesGrow(q)
<1>1. Bodies(q)' \subseteq Bodies(q)
  BY BodiesByPlace, BodiesByPlaceThen
<1> QED BY <1>1 DEF BodiesGrow

(* A party whose places gain the one body just sealed has one new body.    *)
LEMMA OneNew ==
  ASSUME NEW q, NEW f, f.no = sealed[q] + 1, sealed'[q] = sealed[q] + 1,
         f.kind = "chat" => f.seq \in HasRow(q)',
         f.kind = "ack" => f.seq \in Rows(q)',
         InSeals(q)' \subseteq InSeals(q) \cup {f}, InUi(q)' \subseteq InUi(q) \cup {f},
         InPump(q)' \subseteq InPump(q) \cup {f}, InAir(q)' \subseteq InAir(q)
  PROVE  BodiesGrow(q)
<1>1. Bodies(q)' \subseteq Bodies(q) \cup {f}
  BY BodiesByPlace, BodiesByPlaceThen
<1> QED BY <1>1 DEF BodiesGrow

(* A sealing takes the next number and counts it.                          *)
LEMMA RatchetKept ==
  ASSUME StoreOK, NEW p \in Party, KeepRatchet(p)
  PROVE  /\ sealed' \in [Party -> Nat] /\ sealed'[p] = sealed[p] + 1
         /\ \A q \in Party \ {p} : sealed'[q] = sealed[q]
         /\ NextNumber(p) \in Nat \ {0} /\ NextNumber(p) = sealed[p] + 1
         /\ \A q \in Party : sealed[q] <= sealed'[q]
<1>1. sealed \in [Party -> Nat] /\ sealed' = [sealed EXCEPT ![p] = sealed[p] + 1]
  BY DEF StoreOK, KeepRatchet
<1>2. sealed'[p] = sealed[p] + 1 /\ \A q \in Party \ {p} : sealed'[q] = sealed[q]
  BY <1>1
<1>3. \A q \in Party : sealed[q] \in Nat
  BY <1>1
<1> QED BY <1>1, <1>2, <1>3 DEF NextNumber

(* write_seal keeps the first seal of a message, and adds at most the one  *)
(* given.                                                                  *)
LEMMA SealWritten ==
  ASSUME StoreOK, NEW p \in Party, NEW s \in Seqs(p), NEW no \in Nat, WriteSeal(p, s, no)
  PROVE  /\ DOMAIN seal' = Party /\ \A q \in Party : seal'[q] \in [Seqs(q) -> Nat]
         /\ \A q \in Party \ {p} : InSeals(q)' = InSeals(q)
         /\ InSeals(p)' \subseteq InSeals(p) \cup {Frame("chat", s, no)}
         /\ no = 0 => InSeals(p)' \subseteq InSeals(p)
<1> DEFINE after == IF seal[p][s] = 0 THEN no ELSE seal[p][s]
<1>1. DOMAIN seal = Party /\ \A q \in Party : seal[q] \in [Seqs(q) -> Nat]
  BY DEF StoreOK
<1>2. after \in Nat
  BY <1>1
<1>3. seal' = [seal EXCEPT ![p][s] = after]
  BY DEF WriteSeal
<1>4. /\ seal'[p] = [seal[p] EXCEPT ![s] = after]
      /\ DOMAIN seal' = Party
      /\ \A q \in Party \ {p} : seal'[q] = seal[q]
  BY <1>1, <1>3
<1> HIDE DEF after
<1>5. /\ seal'[p] \in [Seqs(p) -> Nat]
      /\ \A k \in Seqs(p) : seal'[p][k] = IF k = s THEN after ELSE seal[p][k]
  BY <1>1, <1>2, <1>4
<1>6. \A q \in Party : seal'[q] \in [Seqs(q) -> Nat]
  BY <1>1, <1>4, <1>5
<1>7. \A q \in Party \ {p} : InSeals(q)' = InSeals(q)
  BY <1>4 DEF InSeals
<1>8. ASSUME NEW f \in InSeals(p)'
      PROVE  /\ f \in InSeals(p) \cup {Frame("chat", s, no)}
             /\ no = 0 => f \in InSeals(p)
  <2>1. PICK k \in Seqs(p) : seal'[p][k] # 0 /\ f = Frame("chat", k, seal'[p][k])
    BY DEF InSeals
  <2>2. CASE seal[p][k] # 0
    <3>1. seal'[p][k] = seal[p][k]
      BY <1>5, <2>2 DEF after
    <3> QED BY <2>1, <2>2, <3>1 DEF InSeals
  <2>3. CASE seal[p][k] = 0
    <3>1. k = s /\ seal'[p][k] = no
      BY <1>5, <2>1, <2>3 DEF after
    <3> QED BY <2>1, <3>1
  <2> QED BY <2>2, <2>3
<1> QED BY <1>4, <1>6, <1>7, <1>8

(* An opening is sealed under the next number and held in hand. *)
LEMMA SealAnOpeningKeepsInv ==
  ASSUME ChatInv, NEW p \in Party, SealAnOpening(p)
  PROVE  ChatInv'
<1>1. StoreOK /\ ThreadsOK /\ NetworkOK /\ \A q \in Party : PumpHolds(q) /\ UiHolds(q)
  BY DEF ChatInv, TypeOK, OnFile
<1>2. UNCHANGED <<row, seal, spent, stored, inbox, ui, session, spoilt, link, links, arriving, crashes>>
  BY DEF SealAnOpening, network
<1>3. NetworkOK' /\ spent' \in [Party -> SUBSET Nat]
  BY <1>1, <1>2 DEF NetworkOK, StoreOK
<1>4. CASE OwesAnOpening(p)
  <2> DEFINE after == [PumpIdle EXCEPT !.pc = "open", !.no = NextNumber(p)]
             f == Frame("opening", 0, NextNumber(p))
  <2>1. /\ sealed' \in [Party -> Nat] /\ sealed'[p] = sealed[p] + 1
        /\ NextNumber(p) \in Nat /\ NextNumber(p) = sealed[p] + 1
        /\ \A q \in Party : sealed[q] <= sealed'[q]
    BY <1>1, <1>4, RatchetKept DEF SealAnOpening
  <2>2. /\ after \in PumpType /\ after.pc = "open" /\ after.todo = <<>>
        /\ after.no = NextNumber(p)
    <3>1. <<>> \in Seq(Nat)
      BY EmptySeq
    <3> HIDE DEF NextNumber
    <3> QED BY <2>1, <3>1 DEF PumpIdle, PumpType
  <2>3. pump' = [pump EXCEPT ![p] = after]
    BY <1>4 DEF SealAnOpening
  <2>4. f.no = NextNumber(p) /\ f.kind = "opening"
    BY DEF Frame
  <2> HIDE DEF after
  <2>5. pump'[p] = after
    BY <1>1, <2>2, <2>3, PumpTo
  <2>6. InPump(p)' \subseteq {f} /\ PumpHolds(p)'
    BY <2>2, <2>5, IdleTypes DEF InPump, PumpHolds
  <2> HIDE DEF f
  <2>7. InboxMatchesRows' /\ \A q : Rows(q)' = Rows(q)
    BY <1>2, RowsStay
  <2>8. \A q : HasRow(q)' = HasRow(q) /\ InSeals(q)' = InSeals(q)
               /\ InAir(q)' = InAir(q) /\ InUi(q)' = InUi(q)
    BY <1>2 DEF HasRow, InSeals, InAir, InUi
  <2>9. TypeOK'
    <3>1. StoreOK'
      BY <1>1, <1>2, <2>1 DEF StoreOK
    <3>2. ThreadsOK'
      BY <1>1, <1>2, <2>2, <2>3, PumpTo DEF ThreadsOK
    <3> QED BY <1>3, <3>1, <3>2 DEF TypeOK
  <2>10. RowsInOrder'
    BY <2>8 DEF ChatInv, RowsInOrder
  <2>11. ASSUME NEW q \in Party
         PROVE  /\ Rows(q)' \subseteq HasRow(Peer(q))'
                /\ PumpHolds(q)' /\ UiHolds(q)' /\ BodiesGrow(q)
    <3>1. Rows(q)' \subseteq HasRow(Peer(q))'
      BY <2>7, <2>8 DEF ChatInv, OnFile
    <3>2. UiHolds(q)'
      BY <1>1, <1>2, <2>8, UiStays
    <3>3. CASE q = p
      <4>1. BodiesGrow(q)
        BY <2>1, <2>4, <2>6, <2>8, <3>3, OneNew
      <4> QED BY <2>6, <3>1, <3>2, <3>3, <4>1
    <3>4. CASE q # p
      <4>1. InPump(q)' = InPump(q) /\ PumpHolds(q)'
        BY <1>1, <2>2, <2>3, <2>7, <2>8, <3>4, PumpTo
      <4>2. BodiesGrow(q)
        BY <2>1, <2>8, <4>1, NothingNew
      <4> QED BY <3>1, <3>2, <4>1, <4>2
    <3> QED BY <3>3, <3>4
  <2>12. StepOK
    BY <2>7, <2>8, <2>9, <2>10, <2>11 DEF StepOK
  <2> QED BY <2>12, StepKeepsInv
<1>5. CASE ~OwesAnOpening(p)
  <2>1. UNCHANGED sealed /\ pump' = [pump EXCEPT ![p] = PumpIdle]
    BY <1>5 DEF SealAnOpening
  <2>2. Quiet
    BY <1>2, <2>1 DEF Quiet
  <2>3. InPump(p)' = {} /\ PumpHolds(p)'
    BY <1>1, <2>1, IdleTypes, PumpEmptyHanded
  <2>4. \A q \in Party : InAir(q)' \subseteq Bodies(q)
    <3>1. \A q \in Party : InAir(q)' = InAir(q)
      BY <1>2 DEF InAir
    <3> QED BY <3>1, BodiesByPlace
  <2> QED BY <1>2, <1>3, <2>1, <2>2, <2>3, <2>4, IdleTypes, QuietPumpStep
<1> QED BY <1>4, <1>5

(* A queued message is resent under the seal it was given, or sealed now   *)
(* under the next number.                                                  *)
LEMMA SealForResendKeepsInv ==
  ASSUME ChatInv, NEW p \in Party, SealForResend(p)
  PROVE  ChatInv'
<1> DEFINE s == Head(pump[p].todo)
           rest == Tail(pump[p].todo)
<1>1. StoreOK /\ ThreadsOK /\ NetworkOK /\ \A q \in Party : PumpHolds(q) /\ UiHolds(q)
  BY DEF ChatInv, TypeOK, OnFile
<1>2. UNCHANGED <<row, spent, stored, inbox, ui, session, spoilt, link, links, arriving, crashes>>
  BY DEF SealForResend, network
<1>3. NetworkOK' /\ spent' \in [Party -> SUBSET Nat]
  BY <1>1, <1>2 DEF NetworkOK, StoreOK
<1>4. pump[p].pc = "seal" /\ pump[p] \in PumpType
  BY <1>1 DEF SealForResend, ThreadsOK
<1>5. /\ s \in HasRow(p) /\ s \in Seqs(p) /\ rest \in Seq(Nat)
      /\ Range(rest) \subseteq HasRow(p)
      /\ Range(pump[p].todo) \subseteq HasRow(p) /\ pump[p].todo # <<>>
  BY <1>1, <1>4, TodoFields DEF HasRow, PumpHolds
<1>6. /\ InboxMatchesRows' /\ \A q : Rows(q)' = Rows(q)
      /\ \A q : HasRow(q)' = HasRow(q) /\ InAir(q)' = InAir(q) /\ InUi(q)' = InUi(q)
  <2>1. \A q : HasRow(q)' = HasRow(q) /\ InAir(q)' = InAir(q) /\ InUi(q)' = InUi(q)
    BY <1>2 DEF HasRow, InAir, InUi
  <2> QED BY <1>2, <2>1, RowsStay
<1>7. ASSUME NEW no \in Nat, pump' = [pump EXCEPT ![p].pc = "resend", ![p].no = no]
      PROVE  \E after \in PumpType :
                /\ pump' = [pump EXCEPT ![p] = after]
                /\ InPump(p)' = {Frame("chat", s, no)} /\ PumpHolds(p)'
  <2> DEFINE after == [pump[p] EXCEPT !.pc = "resend", !.no = no]
  <2>1. /\ after \in PumpType /\ after.pc = "resend" /\ after.no = no
        /\ after.todo = pump[p].todo
    BY <1>4 DEF PumpType
  <2>2. pump' = [pump EXCEPT ![p] = after]
    BY <1>7
  <2> HIDE DEF after
  <2>3. pump'[p] = after
    BY <1>1, <2>1, <2>2, PumpTo
  <2>4. InPump(p)' = {Frame("chat", s, no)}
    BY <2>1, <2>3 DEF InPump
  <2>5. PumpHolds(p)'
    BY <1>5, <1>6, <2>1, <2>3 DEF PumpHolds
  <2> QED BY <2>1, <2>2, <2>4, <2>5
<1> HIDE DEF rest
<1>8. CASE seal[p][s] # 0 /\ UNCHANGED <<seal, sealed>>
            /\ pump' = [pump EXCEPT ![p].pc = "resend", ![p].no = seal[p][s]]
  <2>1. seal[p][s] \in Nat
    BY <1>1, <1>5 DEF StoreOK
  <2>2. PICK after \in PumpType :
                /\ pump' = [pump EXCEPT ![p] = after]
                /\ InPump(p)' = {Frame("chat", s, seal[p][s])} /\ PumpHolds(p)'
    BY <1>7, <1>8, <2>1
  <2>3. Frame("chat", s, seal[p][s]) \in InSeals(p)
    BY <1>5, <1>8 DEF InSeals
  <2>4. InPump(p)' \subseteq Bodies(p) /\ \A q \in Party : InAir(q)' \subseteq Bodies(q)
    BY <1>6, <2>2, <2>3, BodiesByPlace
  <2>5. Quiet
    BY <1>2, <1>8 DEF Quiet
  <2> QED BY <1>2, <1>3, <2>2, <2>4, <2>5, QuietPumpStep
<1>9. CASE SealQueued(p, s)
            /\ pump' = [pump EXCEPT ![p].pc = "resend", ![p].no = NextNumber(p)]
  <2> DEFINE f == Frame("chat", s, NextNumber(p))
  <2>1. /\ sealed' \in [Party -> Nat] /\ sealed'[p] = sealed[p] + 1
        /\ \A q \in Party : sealed[q] <= sealed'[q]
        /\ NextNumber(p) \in Nat /\ NextNumber(p) = sealed[p] + 1
    BY <1>1, <1>9, RatchetKept DEF SealQueued
  <2>2. /\ DOMAIN seal' = Party /\ \A q \in Party : seal'[q] \in [Seqs(q) -> Nat]
        /\ \A q \in Party \ {p} : InSeals(q)' = InSeals(q)
        /\ InSeals(p)' \subseteq InSeals(p) \cup {f}
    BY <1>1, <1>5, <1>9, <2>1, SealWritten DEF SealQueued
  <2>3. f.no = NextNumber(p) /\ f.seq = s /\ f.kind = "chat"
    BY DEF Frame
  <2>4. PICK after \in PumpType :
                /\ pump' = [pump EXCEPT ![p] = after]
                /\ InPump(p)' = {f} /\ PumpHolds(p)'
    BY <1>7, <1>9, <2>1
  <2> HIDE DEF f
  <2>5. TypeOK'
    <3>1. StoreOK'
      BY <1>1, <1>2, <2>1, <2>2 DEF StoreOK
    <3>2. ThreadsOK'
      BY <1>1, <1>2, <2>4, PumpTo DEF ThreadsOK
    <3> QED BY <1>3, <3>1, <3>2 DEF TypeOK
  <2>6. RowsInOrder'
    BY <1>6 DEF ChatInv, RowsInOrder
  <2>7. ASSUME NEW q \in Party
        PROVE  /\ Rows(q)' \subseteq HasRow(Peer(q))'
               /\ PumpHolds(q)' /\ UiHolds(q)' /\ BodiesGrow(q)
    <3>1. Rows(q)' \subseteq HasRow(Peer(q))'
      BY <1>6 DEF ChatInv, OnFile
    <3>2. UiHolds(q)'
      BY <1>1, <1>2, <1>6, UiStays
    <3>3. CASE q = p
      <4>1. f.seq \in HasRow(p)'
        BY <1>5, <1>6, <2>3
      <4>2. BodiesGrow(q)
        BY <1>6, <2>1, <2>2, <2>3, <2>4, <3>3, <4>1, OneNew
      <4> QED BY <2>4, <3>1, <3>2, <3>3, <4>2
    <3>4. CASE q # p
      <4>1. InPump(q)' = InPump(q) /\ PumpHolds(q)'
        BY <1>1, <1>6, <2>4, <3>4, PumpTo
      <4>2. BodiesGrow(q)
        BY <1>6, <2>1, <2>2, <3>4, <4>1, NothingNew
      <4> QED BY <3>1, <3>2, <4>1, <4>2
    <3> QED BY <3>3, <3>4
  <2>8. StepOK
    BY <1>6, <2>5, <2>6, <2>7 DEF StepOK
  <2> QED BY <2>8, StepKeepsInv
<1>10. CASE UNCHANGED <<seal, sealed>> /\ pump' = [pump EXCEPT ![p] = Resending(p, rest)]
  <2>1. Range(rest) \subseteq HasRow(p)'
    BY <1>5, <1>6
  <2>2. InPump(p)' = {} /\ PumpHolds(p)' /\ Resending(p, rest) \in PumpType
    BY <1>1, <1>5, <1>10, <2>1, ResendingHolds, ResendingFields
  <2>3. Quiet
    BY <1>2, <1>10 DEF Quiet
  <2>4. \A q \in Party : InAir(q)' \subseteq Bodies(q)
    BY <1>6, BodiesByPlace
  <2> QED BY <1>2, <1>3, <1>10, <2>2, <2>3, <2>4, QuietPumpStep
<1>11. pump' = [pump EXCEPT ![p] = Resending(p, Tail(@.todo))]
          => pump' = [pump EXCEPT ![p] = Resending(p, rest)]
  BY <1>1 DEF ThreadsOK, rest
<1> QED BY <1>8, <1>9, <1>10, <1>11 DEF SealForResend, SealFor

(* A message written takes the next sequence number, and its body, if there*)
(* is a chain to seal it with, the next number of the ratchet.             *)
LEMMA WriteMessageKeepsInv ==
  ASSUME ChatInv, NEW p \in Party, NEW t \in UiThread, WriteMessage(p, t)
  PROVE  ChatInv'
<1> DEFINE s == NextSeq(p)
           no == IF CanSend(p) THEN NextNumber(p) ELSE 0
           f == Frame("chat", s, no)
           after == IF no = 0 \/ ~ui[p][t].seen THEN UiIdle
                    ELSE [ui[p][t] EXCEPT !.pc = "send", !.seq = s, !.no = no]
<1>1. StoreOK /\ ThreadsOK /\ NetworkOK /\ \A q \in Party : PumpHolds(q) /\ UiHolds(q)
  BY DEF ChatInv, TypeOK, OnFile
<1>2. /\ CommitSent(p, s, no) /\ s \in Seqs(p)
      /\ UNCHANGED <<spent, stored, inbox, pump, network>>
  BY DEF WriteMessage
<1>3. ui' = [ui EXCEPT ![p][t] = after]
  BY <1>1 DEF WriteMessage, ThreadsOK
<1>4. /\ sealed' \in [Party -> Nat] /\ no \in Nat
      /\ \A q \in Party : sealed[q] <= sealed'[q]
      /\ no # 0 => no = sealed[p] + 1 /\ sealed'[p] = sealed[p] + 1
  <2>1. CASE no = 0
    <3>1. UNCHANGED sealed /\ sealed \in [Party -> Nat]
      BY <1>1, <1>2, <2>1 DEF CommitSent, StoreOK
    <3>2. \A q \in Party : sealed[q] <= sealed'[q]
      BY <3>1
    <3> QED BY <2>1, <3>1, <3>2
  <2>2. CASE no # 0
    <3>1. KeepRatchet(p) /\ no = NextNumber(p)
      BY <1>2, <2>2 DEF CommitSent
    <3> QED BY <1>1, <3>1, RatchetKept
  <2> QED BY <2>1, <2>2
<1>5. f.no = no /\ f.seq = s /\ f.kind = "chat"
  BY DEF Frame
<1> HIDE DEF no
<1>6. /\ HasRow(p) \subseteq Nat /\ IsFiniteSet(HasRow(p))
      /\ HasRow(p) = 1..Cardinality(HasRow(p)) /\ Cardinality(HasRow(p)) \in Nat
      /\ s = Cardinality(HasRow(p)) + 1 /\ s \in Nat
  <2>1. HasRow(p) \in SUBSET Seqs(p)
    BY DEF HasRow
  <2>2. HasRow(p) \subseteq Nat /\ IsFiniteSet(HasRow(p))
    BY <2>1, SeqsAreFinite, FS_Subset
  <2>3. Cardinality(HasRow(p)) \in Nat
    BY <2>2, FS_CardinalityType
  <2>4. HasRow(p) = 1..Cardinality(HasRow(p))
    BY DEF ChatInv, RowsInOrder
  <2>5. s = Cardinality(HasRow(p)) + 1
    BY DEF NextSeq, HasRow
  <2> QED BY <2>2, <2>3, <2>4, <2>5
<1> HIDE DEF s, f
<1>7. /\ after \in UiType
      /\ after.pc \in {"idle", "send"}
      /\ after.pc = "send" => no # 0 /\ after.seq = s /\ after.no = no
  <2>1. CASE no = 0 \/ ~ui[p][t].seen
    BY <2>1, IdleTypes
  <2>2. CASE ~(no = 0 \/ ~ui[p][t].seen)
    <3>1. after = [ui[p][t] EXCEPT !.pc = "send", !.seq = s, !.no = no]
      BY <2>2
    <3>2. ui[p][t] \in UiType
      BY <1>1 DEF ThreadsOK
    <3> QED BY <1>4, <1>6, <2>2, <3>1, <3>2 DEF UiType
  <2> QED BY <2>1, <2>2
<1> HIDE DEF after
<1>8. /\ row' = [row EXCEPT ![p][s] = "Queued"] /\ WriteSeal(p, s, no)
  BY <1>2 DEF CommitSent
<1>9. /\ DOMAIN row' = Party
      /\ row'[p] \in [Seqs(p) -> {"none", "Queued", "Sent", "Delivered"}]
      /\ \A k \in Seqs(p) : row'[p][k] = IF k = s THEN "Queued" ELSE row[p][k]
      /\ \A q \in Party \ {p} : row'[q] = row[q]
  <2>1. /\ DOMAIN row' = Party /\ row'[p] = [row[p] EXCEPT ![s] = "Queued"]
        /\ \A q \in Party \ {p} : row'[q] = row[q]
    BY <1>1, <1>8 DEF StoreOK
  <2>2. row[p] \in [Seqs(p) -> {"none", "Queued", "Sent", "Delivered"}]
    BY <1>1 DEF StoreOK
  <2> QED BY <1>2, <2>1, <2>2
<1>10. /\ HasRow(p)' = HasRow(p) \cup {s}
       /\ \A q \in Party \ {p} : HasRow(q)' = HasRow(q)
  BY <1>2, <1>9 DEF HasRow
<1>11. RowsInOrder'
  <2>1. s \notin HasRow(p)
    BY <1>6
  <2>2. Cardinality(HasRow(p)') = s
    <3> DEFINE H == HasRow(p)
    <3>1. IsFiniteSet(H) /\ s \notin H /\ s = Cardinality(H) + 1
      BY <1>6, <2>1
    <3> HIDE DEF H
    <3>2. Cardinality(H \cup {s}) = s
      BY <3>1, FS_AddElement
    <3> QED BY <1>10, <3>2 DEF H
  <2>3. HasRow(p)' = 1..s
    BY <1>6, <1>10
  <2> QED BY <1>10, <2>2, <2>3 DEF RowsInOrder, ChatInv
<1>12. /\ DOMAIN seal' = Party /\ \A q \in Party : seal'[q] \in [Seqs(q) -> Nat]
       /\ \A q \in Party \ {p} : InSeals(q)' = InSeals(q)
       /\ InSeals(p)' \subseteq InSeals(p) \cup {f}
       /\ no = 0 => InSeals(p)' \subseteq InSeals(p)
  BY <1>1, <1>2, <1>4, <1>8, SealWritten DEF f
<1>13. /\ InboxMatchesRows' /\ \A q : Rows(q)' = Rows(q)
       /\ \A q : InAir(q)' = InAir(q) /\ InPump(q)' = InPump(q)
  <2>1. \A q : InAir(q)' = InAir(q) /\ InPump(q)' = InPump(q)
    BY <1>2 DEF network, InAir, InPump
  <2> QED BY <1>2, <2>1, RowsStay
<1>14. /\ ui' \in [Party -> [UiThread -> UiType]]
       /\ \A q \in Party : UiHolds(q)'
       /\ \A q \in Party \ {p} : InUi(q)' = InUi(q)
       /\ InUi(p)' \subseteq InUi(p) \cup {f}
       /\ no = 0 => InUi(p)' \subseteq InUi(p)
  <2>1. after.pc \in {"idle", "found"} \/ after.seq \in HasRow(p)'
    BY <1>7, <1>10
  <2>2. /\ ui' \in [Party -> [UiThread -> UiType]]
        /\ \A q \in Party \ {p} : InUi(q)' = InUi(q)
        /\ \A q \in Party \ {p} :
               UiHolds(q) /\ HasRow(q) \subseteq HasRow(q)' => UiHolds(q)'
        /\ InUi(p)' \subseteq InUi(p) \cup
               (IF after.pc = "send" THEN {Frame("chat", after.seq, after.no)} ELSE {})
        /\ UiHolds(p) /\ HasRow(p) \subseteq HasRow(p)' => UiHolds(p)'
    BY <1>1, <1>3, <1>7, <2>1, UiAway
  <2>3. \A q \in Party : UiHolds(q)'
    BY <1>1, <1>10, <2>2
  <2>4. CASE after.pc = "send"
    <3>1. Frame("chat", after.seq, after.no) = f /\ no # 0
      BY <1>7, <2>4 DEF f
    <3> QED BY <2>2, <2>3, <2>4, <3>1
  <2>5. CASE after.pc # "send"
    BY <2>2, <2>3, <2>5
  <2> QED BY <2>4, <2>5
<1>15. TypeOK'
  <2>1. \A q \in Party : row'[q] \in [Seqs(q) -> {"none", "Queued", "Sent", "Delivered"}]
    BY <1>1, <1>9 DEF StoreOK
  <2>2. StoreOK'
    BY <1>1, <1>2, <1>4, <1>9, <1>12, <2>1 DEF StoreOK
  <2>3. ThreadsOK' /\ NetworkOK'
    BY <1>1, <1>2, <1>14 DEF ThreadsOK, NetworkOK, network
  <2> QED BY <2>2, <2>3 DEF TypeOK
<1>16. ASSUME NEW q \in Party
       PROVE  /\ HasRow(q) \subseteq HasRow(q)'
              /\ Rows(q)' \subseteq HasRow(Peer(q))'
              /\ PumpHolds(q)' /\ BodiesGrow(q)
  <2>1. \A k \in Party : HasRow(k) \subseteq HasRow(k)'
    BY <1>10
  <2>2. Rows(q)' \subseteq HasRow(Peer(q))'
    BY <1>13, <2>1, PeerFacts DEF ChatInv, OnFile
  <2>3. PumpHolds(q)'
    BY <1>1, <1>2, <1>13, <2>1 DEF PumpHolds
  <2>4. CASE q # p \/ no = 0
    <3>1. BodiesGrow(q)
      BY <1>4, <1>12, <1>13, <1>14, <2>4, NothingNew
    <3> QED BY <2>1, <2>2, <2>3, <3>1
  <2>5. CASE q = p /\ no # 0
    <3>1. f.seq \in HasRow(p)'
      BY <1>5, <1>10
    <3>2. BodiesGrow(q)
      BY <1>4, <1>5, <1>12, <1>13, <1>14, <2>5, <3>1, OneNew
    <3> QED BY <2>1, <2>2, <2>3, <3>2
  <2> QED BY <2>4, <2>5
<1>17. StepOK
  BY <1>11, <1>13, <1>14, <1>15, <1>16 DEF StepOK
<1> QED BY <1>17, StepKeepsInv

(* Inbox::receive on an accepted number leaves the window as it must be.   *)
LEMMA InboxTakes ==
  ASSUME ChatInv, NEW p \in Party, NEW s \in Nat, s \notin {0}, Accepted(p, s),
         WriteInbox(p, Received(inbox[p], s)),
         Rows(p)' = Rows(p) \cup {s}, \A q \in Party \ {p} : Rows(q)' = Rows(q)
  PROVE  /\ inbox' \in [Party -> [through : Nat, ahead : SUBSET Nat]]
         /\ InboxMatchesRows'
<1> DEFINE through == inbox[p].through
           ahead == inbox[p].ahead
           box == Received([through |-> through, ahead |-> ahead], s)
           top == through + MaxAhead
<1>1. /\ inbox \in [Party -> [through : Nat, ahead : SUBSET Nat]]
      /\ inbox[p] = [through |-> through, ahead |-> ahead]
      /\ through \in Nat /\ ahead \in SUBSET Nat
  BY DEF ChatInv, TypeOK, StoreOK
<1>2. /\ Rows(p) = (1..through) \cup ahead
      /\ \A n \in ahead : through + 1 < n /\ n <= top
  BY DEF ChatInv, InboxMatchesRows
<1>3. s > through /\ s <= top
  BY <1>1, ConstantsAssumption DEF Accepted, Duplicate, TooFarAhead
<1>4. inbox' = [inbox EXCEPT ![p] = box]
  BY <1>1 DEF WriteInbox
<1> HIDE DEF through, ahead
<1>5. top \in Nat /\ \A n \in ahead : n <= top
  BY <1>1, <1>2, ConstantsAssumption
<1>6. IsFiniteSet(ahead)
  <2>1. ahead \in SUBSET (0..top)
    BY <1>1, <1>5
  <2>2. IsFiniteSet(0..top)
    BY <1>5, FS_Interval
  <2> QED BY <2>1, <2>2, FS_Subset
<1> HIDE DEF top
<1>7. /\ box = [through |-> box.through, ahead |-> box.ahead]
      /\ box.through \in Nat /\ box.through >= through
      /\ box.ahead \subseteq ahead \cup {s}
      /\ \A n \in box.ahead : box.through + 1 < n
      /\ (1..box.through) \cup box.ahead = (1..through) \cup ahead \cup {s}
  <2>1. /\ through \in Nat /\ ahead \in SUBSET Nat /\ IsFiniteSet(ahead) /\ top \in Nat
        /\ s \in Nat /\ s > through /\ s <= top
    BY <1>1, <1>3, <1>5, <1>6
  <2>2. \A n \in ahead : through + 1 < n /\ n <= top
    BY <1>2, <1>5
  <2> QED BY <2>1, <2>2, ReceivedFields
<1> HIDE DEF box
<1>8. \A n \in box.ahead : n <= top
  BY <1>3, <1>5, <1>7
<1>9. \A n \in box.ahead : n \in Nat /\ n <= box.through + MaxAhead
  BY <1>1, <1>7, <1>8, ConstantsAssumption DEF top
<1>10. box \in [through : Nat, ahead : SUBSET Nat]
  BY <1>1, <1>7, <1>9
<1>11. inbox' \in [Party -> [through : Nat, ahead : SUBSET Nat]]
  BY <1>1, <1>4, <1>10
<1>12. inbox'[p] = box /\ \A q \in Party \ {p} : inbox'[q] = inbox[q]
  BY <1>1, <1>4
<1>13. Rows(p)' = (1..box.through) \cup box.ahead
  BY <1>2, <1>7
<1>14. ASSUME NEW q \in Party
       PROVE  /\ Rows(q)' = (1..inbox'[q].through) \cup inbox'[q].ahead
              /\ \A n \in inbox'[q].ahead :
                    inbox'[q].through + 1 < n /\ n <= inbox'[q].through + MaxAhead
  <2>1. CASE q = p
    BY <1>7, <1>9, <1>12, <1>13, <2>1
  <2>2. CASE q # p
    <3>1. inbox'[q] = inbox[q] /\ Rows(q)' = Rows(q)
      BY <1>12, <2>2
    <3> QED BY <3>1 DEF ChatInv, InboxMatchesRows
  <2> QED BY <2>1, <2>2
<1>15. InboxMatchesRows'
  BY <1>14 DEF InboxMatchesRows
<1> QED BY <1>11, <1>15

(* A message accepted is on file, the inbox knows it, and its answer is    *)
(* sealed: one commit, and the answer in hand.                             *)
LEMMA StoreIncomingChatKeepsInv ==
  ASSUME ChatInv, NEW p \in Party, StoreIncomingChat(p)
  PROVE  ChatInv'
<1> DEFINE m == Head(arriving[p])
           after == Landed(m.seq, NextNumber(p))
           f == Frame("ack", m.seq, NextNumber(p))
<1>1. StoreOK /\ ThreadsOK /\ NetworkOK /\ \A q \in Party : PumpHolds(q) /\ UiHolds(q)
  BY DEF ChatInv, TypeOK, OnFile
<1>2. /\ Takes(p, "chat") /\ Accepted(p, m.seq) /\ Spend(p, m.no)
      /\ WriteInbox(p, Received(inbox[p], m.seq))
      /\ stored' = [stored EXCEPT ![p] = Append(stored[p], m.seq)]
      /\ KeepRatchet(p) /\ pump' = [pump EXCEPT ![p] = after]
      /\ UNCHANGED <<row, seal, ui, session, spoilt, link, links, crashes>>
  <2>1. stored' = [stored EXCEPT ![p] = Append(@, m.seq)]
    BY DEF StoreIncomingChat, CommitReceived
  <2>2. stored' = [stored EXCEPT ![p] = Append(stored[p], m.seq)]
    BY <1>1, <2>1 DEF StoreOK
  <2> QED BY <2>2 DEF StoreIncomingChat, CommitReceived, SealAck
<1>3. /\ m \in FrameType /\ m.kind = "chat" /\ m \in Bodies(Peer(p))
      /\ arriving' \in [Party -> Seq(FrameType)]
      /\ \A q \in Party : InAir(q)' \subseteq InAir(q)
  BY <1>1, <1>2, TakesFields
<1>4. m.seq \in HasRow(Peer(p)) /\ m.seq \in Nat /\ m.seq # 0 /\ m.no \in Nat
  <2>1. m.seq \in HasRow(Peer(p)) /\ m.no \in Nat
    BY <1>3, PeerFacts DEF ChatInv, OnFile, FrameType
  <2> QED BY <2>1, SeqsAreFinite, PeerFacts DEF HasRow
<1> HIDE DEF m
<1>5. /\ sealed' \in [Party -> Nat] /\ sealed'[p] = sealed[p] + 1
      /\ NextNumber(p) \in Nat /\ NextNumber(p) = sealed[p] + 1
      /\ \A q \in Party : sealed[q] <= sealed'[q]
  BY <1>1, <1>2, RatchetKept
<1>6. spent' \in [Party -> SUBSET Nat]
  <2>1. spent \in [Party -> SUBSET Nat]
    BY <1>1 DEF StoreOK
  <2> QED BY <1>2, <1>4, <2>1, SpendType
<1>7. /\ after \in PumpType /\ after.pc = "ack" /\ after.seq = m.seq
      /\ after.no = NextNumber(p) /\ after.todo = <<>>
  <2>1. <<>> \in Seq(Nat)
    BY EmptySeq
  <2> HIDE DEF NextNumber
  <2> QED BY <1>4, <1>5, <2>1 DEF Landed, PumpIdle, PumpType
<1>8. f.kind = "ack" /\ f.seq = m.seq /\ f.no = NextNumber(p)
  BY DEF Frame
<1> HIDE DEF after
<1>9. pump'[p] = after
  BY <1>1, <1>2, <1>7, PumpTo
<1>10. InPump(p)' = {f} /\ PumpHolds(p)'
  BY <1>7, <1>9, IdleTypes DEF InPump, PumpHolds
<1> HIDE DEF f
<1>11. /\ stored' \in [Party -> Seq(Nat)]
       /\ Rows(p)' = Rows(p) \cup {m.seq}
       /\ \A q \in Party \ {p} : Rows(q)' = Rows(q)
  <2> DEFINE longer == Append(stored[p], m.seq)
  <2>1. stored \in [Party -> Seq(Nat)]
    BY <1>1 DEF StoreOK
  <2>2. longer \in Seq(Nat) /\ Range(longer) = Range(stored[p]) \cup {m.seq}
    BY <1>4, <2>1, RangeOfAppend
  <2>3. stored' = [stored EXCEPT ![p] = longer]
    BY <1>2
  <2> HIDE DEF longer
  <2>4. /\ stored' \in [Party -> Seq(Nat)]
        /\ stored'[p] = longer /\ \A q \in Party \ {p} : stored'[q] = stored[q]
    BY <2>1, <2>2, <2>3
  <2>5. Rows(p)' = Range(longer) /\ Rows(p) = Range(stored[p])
    BY <2>4 DEF Rows, Range
  <2>6. \A q \in Party \ {p} : Rows(q)' = Rows(q)
    BY <2>4 DEF Rows
  <2> QED BY <2>2, <2>4, <2>5, <2>6
<1>12. /\ inbox' \in [Party -> [through : Nat, ahead : SUBSET Nat]]
       /\ InboxMatchesRows'
  BY <1>2, <1>4, <1>11, InboxTakes
<1>13. \A q : HasRow(q)' = HasRow(q) /\ InSeals(q)' = InSeals(q) /\ InUi(q)' = InUi(q)
  BY <1>2 DEF HasRow, InSeals, InUi
<1>14. TypeOK'
  <2>1. StoreOK'
    BY <1>1, <1>2, <1>5, <1>6, <1>11, <1>12 DEF StoreOK
  <2>2. ThreadsOK'
    BY <1>1, <1>2, <1>7, PumpTo DEF ThreadsOK
  <2>3. NetworkOK'
    BY <1>1, <1>2, <1>3 DEF NetworkOK
  <2> QED BY <2>1, <2>2, <2>3 DEF TypeOK
<1>15. RowsInOrder'
  BY <1>13 DEF ChatInv, RowsInOrder
<1>16. ASSUME NEW q \in Party
       PROVE  /\ Rows(q) \subseteq Rows(q)' /\ Rows(q)' \subseteq HasRow(Peer(q))'
              /\ PumpHolds(q)' /\ UiHolds(q)' /\ BodiesGrow(q)
  <2>1. \A k \in Party : Rows(k) \subseteq Rows(k)'
    BY <1>11
  <2>2. Rows(q)' \subseteq HasRow(Peer(q))'
    BY <1>4, <1>11, <1>13 DEF ChatInv, OnFile
  <2>3. UiHolds(q)'
    BY <1>1, <1>2, <1>13, UiStays
  <2>4. CASE q = p
    <3>1. m.seq \in Rows(p)'
      BY <1>11
    <3>2. BodiesGrow(q)
      BY <1>3, <1>5, <1>8, <1>10, <1>13, <2>4, <3>1, OneNew
    <3> QED BY <1>10, <2>1, <2>2, <2>3, <2>4, <3>2
  <2>5. CASE q # p
    <3>1. InPump(q)' = InPump(q)
      BY <1>1, <1>2, <1>7, <2>5, PumpTo
    <3>2. PumpHolds(q)'
      <4>1. Peer(q) \in Party
        BY PeerFacts
      <4> QED BY <1>1, <1>2, <1>7, <1>13, <2>1, <2>5, <4>1, PumpTo
    <3>3. BodiesGrow(q)
      BY <1>3, <1>5, <1>13, <3>1, NothingNew
    <3> QED BY <2>1, <2>2, <2>3, <3>2, <3>3
  <2> QED BY <2>4, <2>5
<1>17. StepOK
  BY <1>12, <1>13, <1>14, <1>15, <1>16 DEF StepOK
<1> QED BY <1>17, StepKeepsInv

-----------------------------------------------------------------------------
(* Two fresh engines satisfy the invariant.                                *)
LEMMA InitHolds == Init => ChatInv
<1> SUFFICES ASSUME Init PROVE ChatInv
  OBVIOUS
<1>1. StoreOK
  <2>1. \A p \in Party : /\ row[p] = [s \in Seqs(p) |-> "none"]
                         /\ seal[p] = [s \in Seqs(p) |-> 0]
    BY DEF Init
  <2>2. <<>> \in Seq(Nat)
    BY EmptySeq
  <2>3. stored \in [Party -> Seq(Nat)]
    BY <2>2 DEF Init
  <2> QED BY <2>1, <2>3 DEF Init, StoreOK
<1>2. \A p \in Party : pump[p] = PumpIdle /\ ui[p] = [t \in UiThread |-> UiIdle]
  BY DEF Init
<1>3. ThreadsOK
  <2>1. [t \in UiThread |-> UiIdle] \in [UiThread -> UiType]
    BY IdleTypes
  <2> QED BY <2>1, IdleTypes DEF Init, ThreadsOK
<1>4. NetworkOK
  <2>1. <<>> \in Seq(FrameType)
    BY EmptySeq
  <2> QED BY <2>1 DEF Init, NetworkOK
<1>5. ASSUME NEW p \in Party
      PROVE  /\ HasRow(p) = {} /\ Rows(p) = {} /\ Bodies(p) = {}
             /\ PumpHolds(p) /\ UiHolds(p)
  <2>1. HasRow(p) = {} /\ InSeals(p) = {}
    BY DEF Init, HasRow, InSeals
  <2>2. Rows(p) = {}
    <3>1. DOMAIN stored[p] = {}
      BY DEF Init
    <3> QED BY <3>1 DEF Rows
  <2>3. PumpHolds(p) /\ InPump(p) = {}
    BY <1>2, IdleTypes DEF PumpHolds, InPump
  <2>4. UiHolds(p) /\ InUi(p) = {}
    BY <1>2, IdleTypes DEF UiHolds, InUi
  <2>5. InAir(p) = {}
    <3>1. arriving[Peer(p)] = <<>>
      BY PeerFacts DEF Init
    <3> QED BY <3>1, IdleTypes DEF InAir
  <2> QED BY <2>1, <2>2, <2>3, <2>4, <2>5, BodiesByPlace
<1>6. RowsInOrder
  <2>1. Cardinality({}) = 0
    BY FS_EmptySet
  <2> QED BY <1>5, <2>1 DEF RowsInOrder
<1>7. InboxMatchesRows
  <2>1. \A p \in Party : inbox[p].through = 0 /\ inbox[p].ahead = {}
    BY DEF Init
  <2> QED BY <1>5, <2>1 DEF InboxMatchesRows
<1>8. OnFile /\ AckMeansStored /\ NumbersUsedOnce
  BY <1>5 DEF OnFile, AckMeansStored, NumbersUsedOnce
<1> QED BY <1>1, <1>3, <1>4, <1>6, <1>7, <1>8 DEF ChatInv, TypeOK

(* So does a state in which nothing changed.                               *)
LEMMA StutterKeepsInv == ChatInv /\ UNCHANGED vars => ChatInv'
<1> SUFFICES ASSUME ChatInv, UNCHANGED vars PROVE ChatInv'
  OBVIOUS
<1>1. UNCHANGED <<store, ui, pump>> /\ UNCHANGED network
  BY DEF vars
<1>2. NetworkOK' /\ arriving' = arriving
  BY <1>1 DEF network, ChatInv, TypeOK, NetworkOK
<1> QED BY <1>1, <1>2, ThreadsStay, NetworkStep

(* Every step of the two engines keeps the invariant.                      *)
LEMMA NextKeepsInv == ChatInv /\ Next => ChatInv'
<1> SUFFICES ASSUME ChatInv, Next PROVE ChatInv'
  OBVIOUS
<1>1. ASSUME NEW p \in Party, NEW t \in UiThread, UiStep(p, t) PROVE ChatInv'
  BY <1>1, WriteMessageKeepsInv, LookOrRefuseKeepsInv, SendWrittenKeepsInv,
     MoveWrittenKeepsInv DEF UiStep
<1>2. ASSUME NEW p \in Party, PumpStep(p) PROVE ChatInv'
  BY <1>2, TakeKeepsInv, StoreIncomingChatKeepsInv, SendAckKeepsInv, MarkDeliveredKeepsInv,
     PromoteKeepsInv, ListQueuedKeepsInv, SealForResendKeepsInv, ResendKeepsInv,
     MoveResentKeepsInv, SealAnOpeningKeepsInv, SendAnOpeningKeepsInv DEF PumpStep
<1>3. ASSUME NEW p \in Party, NEW t \in UiThread, NEW seen \in Sightings,
             LookForDevice(p, t, seen)
      PROVE  ChatInv'
  BY <1>3, LookOrRefuseKeepsInv
<1> QED BY <1>1, <1>2, <1>3, CrashKeepsInv, LinkUpKeepsInv, LinkDownKeepsInv DEF Next

(* The conversation invariant holds in every state the two engines reach,  *)
(* whatever the bounds: every step of every thread, link and crash.        *)
THEOREM ChatInvHolds == Spec => []ChatInv
<1>1. ChatInv /\ [Next]_vars => ChatInv'
  BY NextKeepsInv, StutterKeepsInv
<1> QED BY <1>1, InitHolds, PTL DEF Spec

(* Whatever is written, lost, repeated or killed, Inbox says exactly which *)
(* rows are on file, is drained, and stays inside its window: no message   *)
(* vanishes as a duplicate, and none is stored twice.                      *)
THEOREM InboxMatchesRowsHolds == Spec => []InboxMatchesRows
<1>1. ChatInv => InboxMatchesRows
  BY DEF ChatInv
<1> QED BY <1>1, ChatInvHolds, PTL

(* Whatever happens, an acknowledgement that exists anywhere is for a      *)
(* message on file: what the receiver dropped is never acknowledged.       *)
THEOREM AckMeansStoredHolds == Spec => []AckMeansStored
<1>1. ChatInv => AckMeansStored
  BY DEF ChatInv
<1> QED BY <1>1, ChatInvHolds, PTL

(* Whatever happens, no number of the ratchet seals two bodies, and none   *)
(* is in the world that the store has not counted: the counter does not    *)
(* rewind.                                                                 *)
THEOREM NumbersUsedOnceHolds == Spec => []NumbersUsedOnce
<1>1. ChatInv => NumbersUsedOnce
  BY DEF ChatInv
<1> QED BY <1>1, ChatInvHolds, PTL

-----------------------------------------------------------------------------
(* The refinement: what a person sees, as the promise has it.              *)
Told == [p \in Party |-> Cardinality(HasRow(p))]
Confirmed == [p \in Party |-> InState(p, "Delivered")]

(* The state of the promise, in the terms of the conversation.             *)
LEMMA PromiseState ==
  /\ Promise!Side = Party /\ \A p : Promise!Other(p) = Peer(p)
  /\ \A p : Promise!Seen(p) = Rows(p)
  /\ Promise!vars = <<Told, stored, Confirmed>>
  BY DEF Promise!Side, Party, Promise!Other, Peer, Promise!Seen, Rows, Promise!vars,
         Told, HasRow, Confirmed

(* The steps of the promise, in the terms of the conversation.             *)
LEMMA PromiseSteps ==
  /\ \A p : Promise!Write(p) <=>
        /\ Told' = [Told EXCEPT ![p] = @ + 1]
        /\ UNCHANGED <<stored, Confirmed>>
  /\ \A p, s : Promise!Show(p, s) <=>
        /\ s \in 1..Told[Peer(p)] /\ s \notin Rows(p)
        /\ s <= MaxAhead \/ 1..(s - MaxAhead) \subseteq Rows(p)
        /\ stored' = [stored EXCEPT ![p] = Append(@, s)]
        /\ UNCHANGED <<Told, Confirmed>>
  /\ \A p, s : Promise!Confirm(p, s) <=>
        /\ s \in Rows(Peer(p)) \ Confirmed[p]
        /\ Confirmed' = [Confirmed EXCEPT ![p] = @ \cup {s}]
        /\ UNCHANGED <<Told, stored>>
  /\ \A p, s : Promise!Doubt(p, s) <=>
        /\ s \in Confirmed[p]
        /\ Confirmed' = [Confirmed EXCEPT ![p] = @ \ {s}]
        /\ UNCHANGED <<Told, stored>>
  /\ \A p \in Party :
        \/ Promise!Write(p)
        \/ \E s \in 1..Told[Peer(p)] : Promise!Show(p, s)
        \/ \E s \in 1..Told[p] : Promise!Confirm(p, s) \/ Promise!Doubt(p, s)
        => Promise!Next \/ UNCHANGED Promise!vars
<1>1. \A p : Promise!Write(p) <=>
        /\ Told' = [Told EXCEPT ![p] = @ + 1]
        /\ UNCHANGED <<stored, Confirmed>>
  BY Zenon DEF Promise!Write, Told, HasRow, Confirmed
<1>2. \A p, s : Promise!Show(p, s) <=>
        /\ s \in 1..Told[Peer(p)] /\ s \notin Rows(p)
        /\ s <= MaxAhead \/ 1..(s - MaxAhead) \subseteq Rows(p)
        /\ stored' = [stored EXCEPT ![p] = Append(@, s)]
        /\ UNCHANGED <<Told, Confirmed>>
  BY Zenon, PromiseState DEF Promise!Show, Told, HasRow, Confirmed
<1>3. \A p, s : Promise!Confirm(p, s) <=>
        /\ s \in Rows(Peer(p)) \ Confirmed[p]
        /\ Confirmed' = [Confirmed EXCEPT ![p] = @ \cup {s}]
        /\ UNCHANGED <<Told, stored>>
  BY Zenon, PromiseState DEF Promise!Confirm, Told, HasRow, Confirmed
<1>4. \A p, s : Promise!Doubt(p, s) <=>
        /\ s \in Confirmed[p]
        /\ Confirmed' = [Confirmed EXCEPT ![p] = @ \ {s}]
        /\ UNCHANGED <<Told, stored>>
  BY Zenon DEF Promise!Doubt, Told, HasRow, Confirmed
<1>5. ASSUME NEW p \in Party,
             \/ Promise!Write(p)
             \/ \E s \in 1..Told[Peer(p)] : Promise!Show(p, s)
             \/ \E s \in 1..Told[p] : Promise!Confirm(p, s) \/ Promise!Doubt(p, s)
      PROVE  Promise!Next \/ UNCHANGED Promise!vars
  <2>1. CASE UNCHANGED <<stored, Confirmed, Told>>
    BY <2>1, Zenon DEF Promise!vars, Told, HasRow, Confirmed
  <2>2. CASE stored' # stored \/ Confirmed' # Confirmed \/ Told' # Told
    BY <1>5, <2>2, Zenon, PromiseState DEF Promise!Next, Told, HasRow, Confirmed
  <2> QED BY <2>1, <2>2
<1> QED BY <1>1, <1>2, <1>3, <1>4, <1>5

(* Nothing is written, shown or confirmed at first.                        *)
LEMMA InitPromises == Init => Promise!Init
<1> SUFFICES ASSUME Init PROVE Promise!Init
  OBVIOUS
<1>1. \A p \in Party : HasRow(p) = {} /\ InState(p, "Delivered") = {}
  BY DEF Init, HasRow, InState
<1>2. Told = [p \in Party |-> 0] /\ Confirmed = [p \in Party |-> {}]
  BY <1>1, FS_EmptySet DEF Told, Confirmed
<1>3. stored = [p \in Party |-> <<>>]
  BY DEF Init
<1> QED BY <1>2, <1>3, PromiseState, Zenon DEF Promise!Init, Told, HasRow, Confirmed

(* A step that writes neither a row nor an incoming message shows nobody   *)
(* anything.                                                               *)
LEMMA Unseen ==
  ASSUME UNCHANGED <<row, stored>>
  PROVE  UNCHANGED Promise!vars
<1>1. UNCHANGED <<Told, stored, Confirmed>>
  BY DEF Told, HasRow, Confirmed, InState
<1> QED BY <1>1, Zenon DEF Promise!vars, Told, HasRow, Confirmed

(* A write is one more message written. *)
LEMMA WriteTells ==
  ASSUME ChatInv, NEW p \in Party, NEW t \in UiThread, WriteMessage(p, t)
  PROVE  Promise!Next \/ UNCHANGED Promise!vars
<1> DEFINE s == NextSeq(p)
           H == HasRow(p)
<1>1. StoreOK /\ s \in Seqs(p) /\ row' = [row EXCEPT ![p][s] = "Queued"] /\ UNCHANGED stored
  BY DEF ChatInv, TypeOK, WriteMessage, CommitSent
<1>2. IsFiniteSet(H) /\ Cardinality(H) \in Nat /\ H = 1..Cardinality(H)
  <2>1. H \in SUBSET Seqs(p)
    BY DEF HasRow
  <2>2. IsFiniteSet(H)
    BY <2>1, SeqsAreFinite, FS_Subset
  <2> QED BY <2>2, FS_CardinalityType DEF ChatInv, RowsInOrder
<1>3. s = Cardinality(H) + 1
  BY DEF NextSeq, HasRow
<1> HIDE DEF s
<1>4. s \notin H
  BY <1>2, <1>3
<1>5. row[p][s] = "none"
  BY <1>1, <1>4 DEF HasRow
<1>6. /\ \A k \in Seqs(p) : row'[p][k] = IF k = s THEN "Queued" ELSE row[p][k]
      /\ \A q \in Party \ {p} : row'[q] = row[q]
  <2>1. /\ row'[p] = [row[p] EXCEPT ![s] = "Queued"]
        /\ \A q \in Party \ {p} : row'[q] = row[q]
    BY <1>1 DEF StoreOK
  <2>2. row[p] \in [Seqs(p) -> {"none", "Queued", "Sent", "Delivered"}]
    BY <1>1 DEF StoreOK
  <2> QED BY <1>1, <2>1, <2>2
<1>7. /\ HasRow(p)' = H \cup {s} /\ InState(p, "Delivered")' = InState(p, "Delivered")
      /\ \A q \in Party \ {p} : /\ HasRow(q)' = HasRow(q)
                                /\ InState(q, "Delivered")' = InState(q, "Delivered")
  BY <1>1, <1>5, <1>6 DEF HasRow, InState
<1>8. UNCHANGED Confirmed
  BY <1>7 DEF Confirmed
<1>9. Told' = [Told EXCEPT ![p] = @ + 1]
  <2> HIDE DEF H
  <2>1. Cardinality(H \cup {s}) = Cardinality(H) + 1
    BY <1>2, <1>4, FS_AddElement
  <2>2. /\ Cardinality(HasRow(p)') = Cardinality(H) + 1
        /\ \A q \in Party \ {p} : Cardinality(HasRow(q)') = Cardinality(HasRow(q))
    BY <1>7, <2>1
  <2>3. Told[p] = Cardinality(H)
    BY DEF Told, H
  <2>4. Told' = [q \in Party |-> Cardinality(HasRow(q)')]
    BY DEF Told
  <2>5. Told = [q \in Party |-> Cardinality(HasRow(q))]
    BY DEF Told
  <2> QED BY <2>2, <2>3, <2>4, <2>5
<1> QED BY <1>1, <1>8, <1>9, PromiseSteps

(* A message stored is one shown for the first time, inside the window.    *)
LEMMA StoreShows ==
  ASSUME ChatInv, NEW p \in Party, StoreIncomingChat(p)
  PROVE  Promise!Next \/ UNCHANGED Promise!vars
<1> DEFINE s == Head(arriving[p]).seq
<1>1. /\ Takes(p, "chat") /\ Accepted(p, s) /\ UNCHANGED row
      /\ stored' = [stored EXCEPT ![p] = Append(@, s)]
  BY DEF StoreIncomingChat, CommitReceived
<1>2. s \in HasRow(Peer(p))
  <2>1. /\ Head(arriving[p]).kind = "chat"
        /\ Head(arriving[p]) \in Bodies(Peer(p))
    BY <1>1, TakesFields DEF ChatInv, TypeOK
  <2> QED BY <2>1, PeerFacts DEF ChatInv, OnFile
<1> HIDE DEF s
<1>3. s \in 1..Told[Peer(p)] /\ s \in Nat
  <2>1. HasRow(Peer(p)) = 1..Told[Peer(p)]
    BY PeerFacts DEF ChatInv, RowsInOrder, Told
  <2>2. s \in Nat
    BY <1>2, SeqsAreFinite, PeerFacts DEF HasRow
  <2> QED BY <1>2, <2>1, <2>2
<1>4. /\ inbox[p].through \in Nat /\ Rows(p) = (1..inbox[p].through) \cup inbox[p].ahead
  BY DEF ChatInv, TypeOK, StoreOK, InboxMatchesRows
<1>5. s \notin Rows(p)
  BY <1>1, <1>3, <1>4 DEF Accepted, Duplicate
<1>6. 1..(s - MaxAhead) \subseteq Rows(p)
  <2>1. s <= inbox[p].through + MaxAhead
    BY <1>1, <1>3, <1>4, ConstantsAssumption DEF Accepted, TooFarAhead
  <2>2. s - MaxAhead <= inbox[p].through
    BY <1>3, <1>4, <2>1, ConstantsAssumption
  <2>3. 1..(s - MaxAhead) \subseteq 1..inbox[p].through
    BY <1>3, <1>4, <2>2, ConstantsAssumption
  <2> QED BY <1>4, <2>3
<1>7. UNCHANGED <<Told, Confirmed>>
  BY <1>1 DEF Told, HasRow, Confirmed, InState
<1>8. Promise!Show(p, s)
  BY <1>1, <1>3, <1>5, <1>6, <1>7, PromiseSteps
<1> QED BY <1>3, <1>8, PromiseSteps

(* A change of state confirms a message, doubts one, or is not seen.       *)
LEMMA MoveSeen ==
  ASSUME ChatInv, NEW p \in Party, NEW s \in HasRow(p), NEW state \in {"Sent", "Delivered"},
         SetMessageState(p, s, state)
  PROVE  /\ UNCHANGED <<Told, stored>> /\ s \in 1..Told[p]
         /\ Confirmed' = [Confirmed EXCEPT ![p] =
               IF state = "Sent" THEN Confirmed[p] \ {s} ELSE Confirmed[p] \cup {s}]
<1>1. StoreOK /\ s \in Seqs(p) /\ row' = [row EXCEPT ![p][s] = state] /\ UNCHANGED stored
  BY DEF ChatInv, TypeOK, HasRow, SetMessageState
<1>2. \A q \in Party : HasRow(q)' = HasRow(q)
  BY MoveFacts
<1>3. UNCHANGED Told
  BY <1>2 DEF Told
<1>4. s \in 1..Told[p]
  BY DEF ChatInv, RowsInOrder, Told
<1>5. /\ \A k \in Seqs(p) : row'[p][k] = IF k = s THEN state ELSE row[p][k]
      /\ \A q \in Party \ {p} : row'[q] = row[q]
  <2>1. /\ row'[p] = [row[p] EXCEPT ![s] = state]
        /\ \A q \in Party \ {p} : row'[q] = row[q]
    BY <1>1 DEF StoreOK
  <2>2. row[p] \in [Seqs(p) -> {"none", "Queued", "Sent", "Delivered"}]
    BY <1>1 DEF StoreOK
  <2> QED BY <1>1, <2>1, <2>2
<1>6. InState(p, "Delivered")' = IF state = "Sent" THEN InState(p, "Delivered") \ {s}
                                 ELSE InState(p, "Delivered") \cup {s}
  BY <1>1, <1>5 DEF InState
<1>7. \A q \in Party \ {p} : InState(q, "Delivered")' = InState(q, "Delivered")
  BY <1>5 DEF InState
<1>8. Confirmed' = [Confirmed EXCEPT ![p] =
               IF state = "Sent" THEN Confirmed[p] \ {s} ELSE Confirmed[p] \cup {s}]
  BY <1>6, <1>7 DEF Confirmed
<1> QED BY <1>1, <1>3, <1>4, <1>8

(* Marking a message as sent doubts it if it was confirmed, and is not     *)
(* seen otherwise.                                                         *)
LEMMA SentIsSeen ==
  ASSUME ChatInv, NEW p \in Party, NEW s \in HasRow(p), SetMessageState(p, s, "Sent")
  PROVE  Promise!Next \/ UNCHANGED Promise!vars
<1>1. /\ UNCHANGED <<Told, stored>> /\ s \in 1..Told[p]
      /\ Confirmed' = [Confirmed EXCEPT ![p] = Confirmed[p] \ {s}]
  BY MoveSeen
<1>2. CASE s \in Confirmed[p]
  <2>1. Promise!Doubt(p, s)
    BY <1>1, <1>2, PromiseSteps
  <2> QED BY <1>1, <2>1, PromiseSteps
<1>3. CASE s \notin Confirmed[p]
  <2>1. Confirmed[p] \ {s} = Confirmed[p]
    BY <1>3
  <2>2. UNCHANGED Confirmed
    BY <1>1, <2>1 DEF Confirmed
  <2> QED BY <1>1, <2>2, Zenon DEF Promise!vars, Told, HasRow, Confirmed
<1> QED BY <1>2, <1>3

(* A promotion confirms a message the other end has stored.                *)
LEMMA DeliveredIsSeen ==
  ASSUME ChatInv, NEW p \in Party, Promote(p)
  PROVE  Promise!Next \/ UNCHANGED Promise!vars
<1> DEFINE s == pump[p].seq
<1>1. s \in Rows(Peer(p)) /\ SetMessageState(p, s, "Delivered")
  BY DEF Promote, ChatInv, OnFile, PumpHolds
<1>2. s \in HasRow(p)
  BY <1>1, PeerFacts DEF ChatInv, OnFile
<1> HIDE DEF s
<1>3. /\ UNCHANGED <<Told, stored>> /\ s \in 1..Told[p]
      /\ Confirmed' = [Confirmed EXCEPT ![p] = Confirmed[p] \cup {s}]
  BY <1>1, <1>2, MoveSeen
<1>4. CASE s \notin Confirmed[p]
  <2>1. Promise!Confirm(p, s)
    BY <1>1, <1>3, <1>4, PromiseSteps
  <2> QED BY <1>3, <2>1, PromiseSteps
<1>5. CASE s \in Confirmed[p]
  <2>1. Confirmed[p] \cup {s} = Confirmed[p]
    BY <1>5
  <2>2. UNCHANGED Confirmed
    BY <1>3, <2>1 DEF Confirmed
  <2> QED BY <1>3, <2>2, Zenon DEF Promise!vars, Told, HasRow, Confirmed
<1> QED BY <1>4, <1>5

(* Every step of the two engines is a step of the promise or is not seen.  *)
LEMMA NextPromises ==
  ChatInv /\ [Next]_vars => [Promise!Next]_(Promise!vars)
<1> SUFFICES ASSUME ChatInv, [Next]_vars
             PROVE  Promise!Next \/ UNCHANGED Promise!vars
  OBVIOUS
<1>1. CASE UNCHANGED <<row, stored>>
  BY <1>1, Unseen
<1>2. ASSUME NEW p \in Party, NEW t \in UiThread, UiStep(p, t)
      PROVE  Promise!Next \/ UNCHANGED Promise!vars
  <2>1. CASE RefuseWrite(p, t) \/ SendWritten(p, t)
    BY <1>1, <2>1 DEF RefuseWrite, SendWritten, store
  <2>2. CASE MoveWritten(p, t)
    <3>1. /\ SetMessageState(p, ui[p][t].seq, "Sent")
          /\ ui[p][t].seq \in HasRow(p)
      BY <2>2 DEF MoveWritten, ChatInv, OnFile, UiHolds
    <3> QED BY <3>1, SentIsSeen
  <2> QED BY <1>2, <2>1, <2>2, WriteTells DEF UiStep
<1>3. ASSUME NEW p \in Party, PumpStep(p)
      PROVE  Promise!Next \/ UNCHANGED Promise!vars
  <2>1. CASE \/ SessionOpened(p) \/ SessionClosed(p) \/ DropUnreadable(p) \/ DropReplayed(p)
             \/ SendAck(p) \/ ListQueued(p) \/ Resend(p) \/ SendAnOpening(p)
    BY <1>1, <2>1 DEF SessionOpened, SessionClosed, DropUnreadable, DropReplayed, SendAck, ListQueued,
                      Resend, SendAnOpening, store
  <2>2. CASE \/ KeepTurnOnly(p) \/ MarkDelivered(p) \/ TakeAnOpening(p)
             \/ SealForResend(p) \/ SealAnOpening(p)
    BY <1>1, <2>2 DEF KeepTurnOnly, MarkDelivered, TakeAnOpening, SealForResend,
                      SealAnOpening
  <2>3. CASE MoveResent(p)
    <3>1. /\ SetMessageState(p, Head(pump[p].todo), "Sent")
          /\ Head(pump[p].todo) \in HasRow(p)
      BY <2>3, TodoFields DEF MoveResent
    <3> QED BY <3>1, SentIsSeen
  <2> QED BY <1>3, <2>1, <2>2, <2>3, DeliveredIsSeen, StoreShows DEF PumpStep
<1>4. ASSUME NEW p \in Party, NEW t \in UiThread, NEW seen \in Sightings,
             LookForDevice(p, t, seen)
      PROVE  Promise!Next \/ UNCHANGED Promise!vars
  BY <1>1, <1>4 DEF LookForDevice, store
<1>5. ASSUME NEW p \in Party, Crash(p) PROVE UNCHANGED <<row, stored>>
  BY <1>5 DEF Crash, store
<1>6. CASE LinkUp \/ LinkDown \/ UNCHANGED vars
  BY <1>1, <1>6 DEF LinkUp, LinkDown, vars, store
<1> QED BY <1>1, <1>2, <1>3, <1>4, <1>5, <1>6 DEF Next

(* The two engines keep the promise of a conversation: every step, of any  *)
(* thread, link or crash, writes, shows once, confirms what was shown,     *)
(* doubts, or is not seen.                                                 *)
THEOREM ImplementsPromise == Spec => KeepsPromise
<1> QED BY InitPromises, NextPromises, ChatInvHolds, PTL DEF Spec, KeepsPromise, Promise!Spec

(* What ChatPromiseProofs proves of whoever keeps the promise.             *)
Kept == INSTANCE ChatPromiseProofs WITH
    Window    <- MaxAhead,
    written   <- Told,
    shown     <- stored,
    confirmed <- Confirmed

(* The promise as ChatDelivery refers to it is the one the facts below are *)
(* about.                                                                  *)
LEMMA SamePromise ==
  /\ Promise!Init => Kept!Init
  /\ [Promise!Next]_(Promise!vars) => [Kept!Next]_(Kept!vars)
<1>1. Promise!Init => Kept!Init
  BY Zenon DEF Promise!Init, Kept!Init, Promise!Side, Kept!Side, Told, HasRow, Confirmed
<1>2. UNCHANGED Promise!vars => UNCHANGED Kept!vars
  BY Zenon DEF Promise!vars, Kept!vars, Told, HasRow, Confirmed
<1>3. Promise!Next => Kept!Next
  BY Zenon DEF Promise!Next, Kept!Next, Promise!Side, Kept!Side, Promise!Other, Kept!Other,
     Promise!Write, Kept!Write, Promise!Show, Kept!Show, Promise!Confirm, Kept!Confirm,
     Promise!Doubt, Kept!Doubt, Promise!Seen, Kept!Seen, Told, HasRow, Confirmed
<1> QED BY <1>1, <1>2, <1>3

(* In a conversation of the two engines no message is stored twice, none   *)
(* is stored that was not written, none is called delivered that the other *)
(* end has not stored, and none is stored a window past the first missing. *)
THEOREM ConversationIsSound ==
  Spec => [](Kept!ShownOnce /\ Kept!ShownWasWritten
             /\ Kept!ConfirmedWasShown /\ Kept!WithinWindow)
<1>1. Kept!Spec => [](Kept!ShownOnce /\ Kept!ShownWasWritten
             /\ Kept!ConfirmedWasShown /\ Kept!WithinWindow)
  BY Kept!PromiseHolds
<1>2. Spec => Kept!Spec
  BY ImplementsPromise, SamePromise, PTL DEF KeepsPromise, Promise!Spec, Kept!Spec
<1> QED BY <1>1, <1>2, PTL
=============================================================================
