----------------------------- MODULE LanProofs -----------------------------
(***************************************************************************)
(* The stream a LAN sink hears, for every set of phones and names, every   *)
(* plan of the environment and every interleaving of the phones' threads:  *)
(* bytes come only on a pipe the sink was told is open, and nothing comes  *)
(* at all once shutdown has returned.                                      *)
(*                                                                         *)
(* The first is about what the sink has heard, the second about what it is *)
(* being told: neither mentions the queue between the table of pipes and   *)
(* the sink, where an event is decided under the table's lock and          *)
(* delivered when its turn comes.  StreamOK looks at that queue: after any *)
(* part of it the sink believes something of each peer, and what it will   *)
(* believe at the end covers every pipe the table holds.                   *)
(***************************************************************************)
EXTENDS LanRung, SequenceTheorems, TLAPS

Closed(i) == Event("closed", i)
Opened(i) == Event("opened", i)

(* What a sink that was told of "open" thinks of i after n more events.    *)
Believed(open, events, n, i) ==
    \/ i \in open /\ \A k \in 1..n : events[k] # Closed(i)
    \/ \E j \in 1..n : events[j] = Opened(i) /\ \A k \in (j + 1)..n : events[k] # Closed(i)

Peers == Id \cup {0}
Words == {"nothing", "opened", "closed", "received", "found", "lost", "failed"}
EventType == [what : Words, peer : Peers]
Lives == {"up", "closing", "drained", "revoked", "returned"}
Stages == {"dialled", "backlog", "hello", "open", "done"}
Conn == [from : Phone, to : Phone, hello : Id, target : Id, at : [Phone -> Stages],
         closed : SUBSET Phone, cut : BOOLEAN, bytes : [Phone -> Nat], lost : BOOLEAN]
Steps == {"idle", "announce", "dial", "adopt", "write", "tear", "rename"}
TaskType == [at : Steps, peer : Peers, ref : Nat]

SinkTyped ==
    /\ queue \in [Phone -> Seq(EventType)] /\ busy \in [Phone -> EventType]
    /\ life \in [Phone -> Lives] /\ inside \in [Phone -> BOOLEAN]
    /\ heard \in [Phone -> SUBSET Peers]

TableTyped ==
    /\ name \in [Phone -> Id] /\ socks \in Seq(Conn)
    /\ pipe \in [Phone -> [Id -> {0} \cup DOMAIN socks]]

(* A thread in the middle of a call knows whom it is about, and which      *)
(* connection it took out of the table or dialled.                         *)
TaskOK ==
    /\ task \in [Phone -> [Threads -> TaskType]]
    /\ \A p \in Phone, t \in Threads :
          /\ task[p][t].at # "idle" => task[p][t].peer \in Id
          /\ task[p][t].at \in {"adopt", "write", "tear"} => task[p][t].ref \in DOMAIN socks

(* Until shutdown revokes the sink, what it will have heard by the end of  *)
(* the queue covers the table, and no bytes are queued ahead of the word   *)
(* that their pipe is open or behind the word that it is closed.           *)
StreamOK ==
    \A p \in Phone : ~Revoked(p) =>
        /\ \A i \in Id : pipe[p][i] # 0 =>
              Believed(heard[p], queue[p], Len(queue[p]), i)
        /\ \A n \in 1..Len(queue[p]) : queue[p][n].what = "received" =>
              Believed(heard[p], queue[p], n - 1, queue[p][n].peer)

LanInv ==
    /\ SinkTyped /\ TableTyped /\ TaskOK
    /\ StreamOK /\ BytesOnlyOnOpenPipe /\ SilentAfterShutdown

(* What a sink will believe depends only on the events up to there.        *)
LEMMA SameEvents ==
    ASSUME NEW open, NEW s, NEW t, NEW n \in Nat, NEW i,
           \A k \in 1..n : s[k] = t[k],
           Believed(open, s, n, i)
    PROVE  Believed(open, t, n, i)
<1>1. CASE i \in open /\ \A k \in 1..n : s[k] # Closed(i)
  BY <1>1 DEF Believed
<1>2. CASE \E j \in 1..n : s[j] = Opened(i) /\ \A k \in (j + 1)..n : s[k] # Closed(i)
  <2>1. PICK j \in 1..n : s[j] = Opened(i) /\ \A k \in (j + 1)..n : s[k] # Closed(i)
    BY <1>2
  <2>2. \A k \in (j + 1)..n : k \in 1..n
    OBVIOUS
  <2>3. t[j] = Opened(i) /\ \A k \in (j + 1)..n : t[k] # Closed(i)
    BY <2>1, <2>2
  <2> QED
    BY <2>3 DEF Believed
<1> QED
  BY <1>1, <1>2 DEF Believed

(* One more event ends a belief only by being the "closed" of that peer.   *)
LEMMA OneMoreEvent ==
    ASSUME NEW open, NEW s, NEW n \in Nat, NEW i,
           \/ Believed(open, s, n, i) /\ s[n + 1] # Closed(i)
           \/ s[n + 1] = Opened(i)
    PROVE  Believed(open, s, n + 1, i)
<1>1. n + 1 \in 1..(n + 1) /\ (\A k \in 1..(n + 1) : k \in 1..n \/ k = n + 1) /\ ((n + 1) + 1)..(n + 1) = {}
  OBVIOUS
<1>2. CASE s[n + 1] = Opened(i)
  BY <1>1, <1>2 DEF Believed
<1>3. CASE s[n + 1] # Closed(i) /\ i \in open /\ \A k \in 1..n : s[k] # Closed(i)
  BY <1>1, <1>3 DEF Believed
<1>4. CASE s[n + 1] # Closed(i) /\ \E j \in 1..n : s[j] = Opened(i) /\ \A k \in (j + 1)..n : s[k] # Closed(i)
  <2>1. PICK j \in 1..n : s[j] = Opened(i) /\ \A k \in (j + 1)..n : s[k] # Closed(i)
    BY <1>4
  <2>2. j \in 1..(n + 1) /\ \A k \in (j + 1)..(n + 1) : k \in (j + 1)..n \/ k = n + 1
    OBVIOUS
  <2>3. \A k \in (j + 1)..(n + 1) : s[k] # Closed(i)
    BY <1>4, <2>1, <2>2
  <2> QED
    BY <2>1, <2>2, <2>3 DEF Believed
<1> QED
  BY <1>2, <1>3, <1>4 DEF Believed

(* When the first event is delivered, the rest of the queue leads to the   *)
(* same belief.                                                            *)
LEMMA FirstEventHeard ==
    ASSUME NEW open, NEW s \in Seq(EventType), s # <<>>, NEW n \in 1..Len(s), NEW i,
           Believed(open, s, n, i)
    PROVE  Believed(Told(open, Head(s)), Tail(s), n - 1, i)
<1> DEFINE rest == Tail(s)
           now == Told(open, Head(s))
<1>1. /\ Len(s) \in Nat /\ Len(s) >= 1
      /\ Head(s) = s[1] /\ Head(s) \in EventType
      /\ \A k \in 1..(Len(s) - 1) : rest[k] = s[k + 1]
  BY HeadTailProperties, LenProperties, EmptySeq
<1>2. n \in Nat /\ n >= 1 /\ n <= Len(s)
  BY <1>1
<1>3. \A k \in 1..(n - 1) : rest[k] = s[k + 1] /\ k + 1 \in 1..n
  BY <1>1, <1>2
<1>4. i \in open /\ s[1] # Closed(i) => i \in now
  BY <1>1 DEF Told, Closed, Event, EventType
<1>5. s[1] = Opened(i) => i \in now
  BY <1>1 DEF Told, Opened, Event
<1> HIDE DEF rest, now
<1>6. CASE i \in open /\ \A k \in 1..n : s[k] # Closed(i)
  <2>1. 1 \in 1..n
    BY <1>2
  <2> QED
    BY <1>3, <1>4, <1>6, <2>1 DEF Believed, rest, now
<1>7. CASE \E j \in 1..n : s[j] = Opened(i) /\ \A k \in (j + 1)..n : s[k] # Closed(i)
  <2>1. PICK j \in 1..n : s[j] = Opened(i) /\ \A k \in (j + 1)..n : s[k] # Closed(i)
    BY <1>7
  <2>2. CASE j = 1
    <3>1. \A k \in 1..(n - 1) : k + 1 \in (j + 1)..n
      BY <1>2, <2>2
    <3>2. \A k \in 1..(n - 1) : rest[k] # Closed(i)
      BY <1>3, <2>1, <3>1
    <3> QED
      BY <1>5, <2>1, <2>2, <3>2 DEF Believed, rest, now
  <2>3. CASE j # 1
    <3>1. j - 1 \in 1..(n - 1) /\ (j - 1) + 1 = j
      BY <1>2, <2>3
    <3>2. \A k \in ((j - 1) + 1)..(n - 1) : k \in 1..(n - 1) /\ k + 1 \in (j + 1)..n
      BY <1>2, <2>3
    <3>3. rest[j - 1] = Opened(i) /\ \A k \in ((j - 1) + 1)..(n - 1) : rest[k] # Closed(i)
      BY <1>3, <2>1, <3>1, <3>2
    <3> QED
      BY <3>1, <3>3 DEF Believed, rest
  <2> QED
    BY <2>2, <2>3
<1> QED
  BY <1>6, <1>7 DEF Believed

(* An event is a word and a peer.                                          *)
LEMMA EventIsTyped ==
    ASSUME NEW what \in Words, NEW i \in Peers
    PROVE  Event(what, i) \in EventType /\ Event(what, i).what = what /\ Event(what, i).peer = i
BY DEF Event, EventType

(* Nothing is queued: the table may only have lost pipes. *)
LEMMA UnheardKeeps ==
    ASSUME LanInv, UNCHANGED sinkVars,
           \A p \in Phone, i \in Id : pipe'[p][i] # 0 => pipe[p][i] # 0
    PROVE  SinkTyped' /\ StreamOK' /\ BytesOnlyOnOpenPipe' /\ SilentAfterShutdown'
<1>1. UNCHANGED <<queue, busy, life, inside, heard>>
  BY DEF sinkVars
<1>2. SinkTyped' /\ BytesOnlyOnOpenPipe' /\ SilentAfterShutdown'
  BY <1>1 DEF LanInv, SinkTyped, BytesOnlyOnOpenPipe, SilentAfterShutdown
<1>3. ASSUME NEW p \in Phone, ~Revoked(p)'
      PROVE  /\ \A i \in Id : pipe'[p][i] # 0 => Believed(heard[p], queue[p], Len(queue[p]), i)
             /\ \A n \in 1..Len(queue[p]) : queue[p][n].what = "received" =>
                   Believed(heard[p], queue[p], n - 1, queue[p][n].peer)
  <2>1. ~Revoked(p)
    BY <1>1, <1>3 DEF Revoked
  <2> QED
    BY <2>1 DEF LanInv, StreamOK
<1>4. StreamOK'
  BY <1>1, <1>3 DEF StreamOK
<1> QED
  BY <1>2, <1>4

(* One event is queued: it says what was done to the table. *)
LEMMA EmitKeeps ==
    ASSUME LanInv,
           NEW p \in Phone, NEW e \in EventType, Emit(p, <<e>>),
           \A q \in Phone \ {p}, i \in Id : pipe'[q][i] # 0 => pipe[q][i] # 0,
           \A i \in Id : pipe'[p][i] # 0 =>
              \/ Up(p) /\ e = Opened(i)
              \/ pipe[p][i] # 0 /\ e # Closed(i),
           e.what = "received" => e.peer \in Id /\ pipe[p][e.peer] # 0
    PROVE  SinkTyped' /\ StreamOK' /\ BytesOnlyOnOpenPipe' /\ SilentAfterShutdown'
<1>1. UNCHANGED <<busy, life, inside, heard>>
  BY DEF Emit
<1>2. CASE ~Up(p)
  <2>1. UNCHANGED sinkVars
    BY <1>1, <1>2 DEF Emit, sinkVars
  <2>2. \A q \in Phone, i \in Id : pipe'[q][i] # 0 => pipe[q][i] # 0
    BY <1>2
  <2> QED
    BY <2>1, <2>2, UnheardKeeps
<1>3. CASE Up(p)
  <2> DEFINE n == Len(queue[p])
             s == queue[p]
             t == queue'[p]
  <2>1. queue \in [Phone -> Seq(EventType)] /\ s \in Seq(EventType)
    BY DEF LanInv, SinkTyped
  <2>2. queue' = [queue EXCEPT ![p] = s \o <<e>>]
    BY <1>3 DEF Emit
  <2>3. <<e>> \in Seq(EventType) /\ Len(<<e>>) = 1 /\ <<e>>[1] = e
    OBVIOUS
  <2>4. s \o <<e>> \in Seq(EventType)
    BY <2>1, <2>3, ConcatProperties
  <2>5. queue' \in [Phone -> Seq(EventType)] /\ t = s \o <<e>>
        /\ \A q \in Phone \ {p} : queue'[q] = queue[q]
    BY <2>1, <2>2, <2>4
  <2>6. n \in Nat /\ Len(t) = n + 1 /\ t[n + 1] = e /\ \A k \in 1..n : t[k] = s[k]
    <3>1. n \in Nat
      BY <2>1, LenProperties
    <3>2. Len(t) = n + 1 /\ \A k \in 1..(n + 1) : t[k] = IF k <= n THEN s[k] ELSE <<e>>[k - n]
      BY <2>1, <2>3, <2>5, ConcatProperties
    <3> QED
      BY <2>3, <3>1, <3>2
  <2>7. SinkTyped' /\ BytesOnlyOnOpenPipe' /\ SilentAfterShutdown'
    BY <1>1, <2>5 DEF LanInv, SinkTyped, BytesOnlyOnOpenPipe, SilentAfterShutdown
  <2>8. ASSUME NEW q \in Phone \ {p}, ~Revoked(q)'
        PROVE  /\ \A i \in Id : pipe'[q][i] # 0 => Believed(heard[q], queue'[q], Len(queue'[q]), i)
               /\ \A k \in 1..Len(queue'[q]) : queue'[q][k].what = "received" =>
                     Believed(heard[q], queue'[q], k - 1, queue'[q][k].peer)
    <3>1. ~Revoked(q) /\ queue'[q] = queue[q]
      BY <1>1, <2>5, <2>8 DEF Revoked
    <3> QED
      BY <3>1 DEF LanInv, StreamOK
  <2>9. ASSUME ~Revoked(p)'
        PROVE  /\ \A i \in Id : pipe'[p][i] # 0 => Believed(heard[p], t, Len(t), i)
               /\ \A k \in 1..Len(t) : t[k].what = "received" =>
                     Believed(heard[p], t, k - 1, t[k].peer)
    <3>1. ~Revoked(p)
      BY <1>1, <2>9 DEF Revoked
    <3>2. \A i \in Id : pipe[p][i] # 0 => Believed(heard[p], s, n, i)
      BY <3>1 DEF LanInv, StreamOK
    <3>3. \A k \in 1..n : s[k].what = "received" => Believed(heard[p], s, k - 1, s[k].peer)
      BY <3>1 DEF LanInv, StreamOK
    <3> HIDE DEF n, s, t
    <3>4. \A i \in Id : pipe[p][i] # 0 => Believed(heard[p], t, n, i)
      BY <2>6, <3>2, SameEvents
    <3>5. ASSUME NEW i \in Id, pipe'[p][i] # 0 PROVE Believed(heard[p], t, n + 1, i)
      <4>1. CASE e = Opened(i)
        BY <2>6, <4>1, OneMoreEvent
      <4>2. CASE pipe[p][i] # 0 /\ e # Closed(i)
        BY <2>6, <3>4, <4>2, OneMoreEvent
      <4> QED
        BY <3>5, <4>1, <4>2
    <3>6. ASSUME NEW k \in 1..(n + 1), t[k].what = "received"
          PROVE  Believed(heard[p], t, k - 1, t[k].peer)
      <4>1. CASE k = n + 1
        <5>1. k - 1 = n /\ t[k] = e
          BY <2>6, <4>1
        <5> QED
          BY <3>4, <3>6, <5>1
      <4>2. CASE k # n + 1
        <5>1. k \in 1..n /\ k - 1 \in Nat /\ t[k] = s[k] /\ \A m \in 1..(k - 1) : m \in 1..n
          BY <2>6, <4>2
        <5>2. Believed(heard[p], s, k - 1, t[k].peer)
          BY <3>3, <3>6, <5>1
        <5>3. \A m \in 1..(k - 1) : s[m] = t[m]
          BY <2>6, <5>1
        <5> QED
          BY <5>1, <5>2, <5>3, SameEvents
      <4> QED
        BY <4>1, <4>2
    <3> QED
      BY <2>6, <3>5, <3>6
  <2>10. StreamOK'
    BY <1>1, <2>8, <2>9 DEF StreamOK
  <2> QED
    BY <2>7, <2>10
<1> QED
  BY <1>2, <1>3

(* What happens between the queue and the sink, but for taking an event. *)
LEMMA SilenceKeeps ==
    ASSUME LanInv,
           NEW p \in Phone, FinishEvent(p) \/ Down(p) \/ Drained(p) \/ Revoke(p) \/ Return(p),
           \A q \in Phone, i \in Id : pipe'[q][i] # 0 => pipe[q][i] # 0
    PROVE  SinkTyped' /\ StreamOK' /\ BytesOnlyOnOpenPipe' /\ SilentAfterShutdown'
<1>1. UNCHANGED <<queue, heard>>
  BY DEF FinishEvent, Down, Drained, Revoke, Return
<1>2. /\ \/ life' = life
         \/ life[p] = "up" /\ life' = [life EXCEPT ![p] = "closing"]
         \/ life[p] = "closing" /\ life' = [life EXCEPT ![p] = "drained"]
         \/ life[p] = "drained" /\ life' = [life EXCEPT ![p] = "revoked"]
         \/ life[p] = "revoked" /\ life' = [life EXCEPT ![p] = "returned"]
      /\ busy' = busy \/ busy' = [busy EXCEPT ![p] = Nothing]
  BY DEF FinishEvent, Down, Drained, Revoke, Return, Up
<1>3. inside' \in [Phone -> BOOLEAN] /\ \A q \in Phone \ {p} : inside'[q] = inside[q]
  <2>1. \E b \in BOOLEAN : inside' = inside \/ inside' = [inside EXCEPT ![p] = b]
    <3>1. (busy[p] # Nothing) \in BOOLEAN
      OBVIOUS
    <3> QED
      BY <3>1, Zenon DEF FinishEvent, Down, Drained, Revoke, Return
  <2> QED
    BY <2>1 DEF LanInv, SinkTyped
<1>4. Nothing \in EventType /\ Nothing.what = "nothing"
  <2>1. PICK none : none = 0
    OBVIOUS
  <2>2. none \in Peers /\ Nothing = [what |-> "nothing", peer |-> none]
    BY <2>1, Zenon DEF Peers, Nothing, Event
  <2> QED
    BY <2>2 DEF EventType, Words
<1>5. life' \in [Phone -> Lives] /\ busy' \in [Phone -> EventType]
  BY <1>2, <1>4 DEF LanInv, SinkTyped, Lives
<1>6. SinkTyped'
  BY <1>1, <1>3, <1>5 DEF LanInv, SinkTyped
<1>7. \A q \in Phone : Revoked(q) => Revoked(q)'
  BY <1>2 DEF LanInv, SinkTyped, Revoked
<1>8. ASSUME NEW q \in Phone, ~Revoked(q)'
      PROVE  /\ \A i \in Id : pipe'[q][i] # 0 => Believed(heard[q], queue[q], Len(queue[q]), i)
             /\ \A n \in 1..Len(queue[q]) : queue[q][n].what = "received" =>
                   Believed(heard[q], queue[q], n - 1, queue[q][n].peer)
  <2>1. ~Revoked(q)
    BY <1>7, <1>8
  <2> QED
    BY <2>1 DEF LanInv, StreamOK
<1>9. StreamOK'
  BY <1>1, <1>8 DEF StreamOK
<1>10. BytesOnlyOnOpenPipe'
  BY <1>1, <1>2, <1>4 DEF LanInv, SinkTyped, BytesOnlyOnOpenPipe
<1>11. SilentAfterShutdown'
  <2>1. ASSUME NEW q \in Phone, life'[q] = "returned", ~inside'[q] PROVE busy'[q] = Nothing
    <3>1. CASE q # p
      <4>1. life'[q] = life[q] /\ busy'[q] = busy[q] /\ inside'[q] = inside[q]
        BY <1>2, <1>3, <3>1 DEF LanInv, SinkTyped
      <4> QED
        BY <2>1, <4>1 DEF LanInv, SilentAfterShutdown
    <3>2. CASE q = p
      <4>1. CASE busy' = [busy EXCEPT ![p] = Nothing]
        BY <3>2, <4>1 DEF LanInv, SinkTyped
      <4>2. CASE busy' = busy /\ life' = life
        <5>1. inside'[p] = inside[p] \/ busy[p] = Nothing
          BY <1>4, <2>1, <3>2, <4>2 DEF FinishEvent, Down, Drained, Revoke, Return, Up, LanInv, SinkTyped
        <5> QED
          BY <2>1, <3>2, <4>2, <5>1 DEF LanInv, SilentAfterShutdown
      <4>3. CASE busy' = busy /\ life' # life
        <5>1. Return(p)
          BY <1>2, <2>1, <3>2, <4>3 DEF LanInv, SinkTyped, FinishEvent, Down, Drained, Revoke, Up
        <5> QED
          BY <2>1, <3>2, <4>3, <5>1 DEF Return
      <4> QED
        BY <1>2, <4>1, <4>2, <4>3
    <3> QED
      BY <3>1, <3>2
  <2> QED
    BY <2>1 DEF SilentAfterShutdown
<1> QED
  BY <1>6, <1>9, <1>10, <1>11

(* The event loop hands the first event of the queue to the sink: what it  *)
(* was going to believe of each peer stays the same, and if the event is   *)
(* bytes, it believes in their pipe already.                               *)
LEMMA TakeEventKeeps ==
    ASSUME LanInv, NEW p \in Phone, TakeEvent(p), UNCHANGED pipe
    PROVE  SinkTyped' /\ StreamOK' /\ BytesOnlyOnOpenPipe' /\ SilentAfterShutdown'
<1> DEFINE s == queue[p]
<1>1. /\ s # <<>> /\ UNCHANGED <<life, inside>>
      /\ queue' = [queue EXCEPT ![p] = Tail(s)]
  BY DEF TakeEvent
<1>2. s \in Seq(EventType) /\ Head(s) \in EventType /\ Tail(s) \in Seq(EventType)
      /\ Len(s) \in Nat /\ Len(s) >= 1 /\ Len(Tail(s)) = Len(s) - 1
  BY <1>1, HeadTailProperties, LenProperties, EmptySeq DEF LanInv, SinkTyped
<1>3. queue' \in [Phone -> Seq(EventType)] /\ queue'[p] = Tail(s)
      /\ \A q \in Phone \ {p} : queue'[q] = queue[q]
  BY <1>1, <1>2 DEF LanInv, SinkTyped
<1>4. CASE Revoked(p)
  <2>1. UNCHANGED <<busy, heard>>
    BY <1>4 DEF TakeEvent
  <2>2. SinkTyped' /\ BytesOnlyOnOpenPipe' /\ SilentAfterShutdown'
    BY <1>1, <1>3, <2>1 DEF LanInv, SinkTyped, BytesOnlyOnOpenPipe, SilentAfterShutdown
  <2>3. \A q \in Phone : ~Revoked(q)' => ~Revoked(q) /\ queue'[q] = queue[q]
    BY <1>1, <1>3, <1>4 DEF Revoked
  <2>4. StreamOK'
    BY <1>1, <2>1, <2>3 DEF LanInv, StreamOK
  <2> QED
    BY <2>2, <2>4
<1>5. CASE ~Revoked(p)
  <2>1. /\ busy' = [busy EXCEPT ![p] = Head(s)]
        /\ heard' = [heard EXCEPT ![p] = Told(heard[p], Head(s))]
    BY <1>5 DEF TakeEvent
  <2>2. heard[p] \in SUBSET Peers /\ Told(heard[p], Head(s)) \in SUBSET Peers
    BY <1>2 DEF LanInv, SinkTyped, Told, EventType
  <2>3. /\ busy' \in [Phone -> EventType] /\ heard' \in [Phone -> SUBSET Peers]
        /\ busy'[p] = Head(s) /\ heard'[p] = Told(heard[p], Head(s))
        /\ \A q \in Phone \ {p} : busy'[q] = busy[q] /\ heard'[q] = heard[q]
    BY <1>2, <2>1, <2>2 DEF LanInv, SinkTyped
  <2>4. SinkTyped'
    BY <1>1, <1>3, <2>3 DEF LanInv, SinkTyped
  <2>5. /\ \A i \in Id : pipe[p][i] # 0 => Believed(heard[p], s, Len(s), i)
        /\ \A n \in 1..Len(s) : s[n].what = "received" => Believed(heard[p], s, n - 1, s[n].peer)
    BY <1>5 DEF LanInv, StreamOK
  <2>6. BytesOnlyOnOpenPipe'
    <3>1. ASSUME Head(s).what = "received" PROVE Head(s).peer \in Told(heard[p], Head(s))
      <4>1. s[1] = Head(s) /\ 1 \in 1..Len(s) /\ 1 - 1 = 0 /\ 1..0 = {}
        BY <1>2
      <4>2. Believed(heard[p], s, 0, Head(s).peer)
        BY <2>5, <3>1, <4>1
      <4>3. Head(s).peer \in heard[p]
        BY <4>1, <4>2 DEF Believed
      <4> QED
        BY <3>1, <4>3 DEF Told
    <3> QED
      BY <2>3, <3>1 DEF LanInv, BytesOnlyOnOpenPipe
  <2>7. SilentAfterShutdown'
    BY <1>1, <1>5, <2>3 DEF LanInv, SilentAfterShutdown, Revoked
  <2>8. /\ \A i \in Id : pipe[p][i] # 0 => Believed(heard'[p], queue'[p], Len(queue'[p]), i)
        /\ \A n \in 1..Len(queue'[p]) : queue'[p][n].what = "received" =>
              Believed(heard'[p], queue'[p], n - 1, queue'[p][n].peer)
    <3>1. \A n \in 1..Len(Tail(s)) : /\ n + 1 \in 1..Len(s) /\ Tail(s)[n] = s[n + 1]
                                     /\ (n + 1) - 1 = n /\ n \in 1..Len(s)
      BY <1>1, <1>2, HeadTailProperties
    <3>2. Len(s) \in 1..Len(s)
      BY <1>2
    <3>3. ASSUME NEW i \in Id, pipe[p][i] # 0
          PROVE  Believed(Told(heard[p], Head(s)), Tail(s), Len(s) - 1, i)
      BY <1>1, <1>2, <2>5, <3>2, <3>3, FirstEventHeard
    <3>4. ASSUME NEW n \in 1..Len(Tail(s)), Tail(s)[n].what = "received"
          PROVE  Believed(Told(heard[p], Head(s)), Tail(s), n - 1, Tail(s)[n].peer)
      <4>1. Believed(heard[p], s, n, Tail(s)[n].peer)
        BY <2>5, <3>1, <3>4
      <4> QED
        BY <1>1, <1>2, <3>1, <4>1, FirstEventHeard
    <3> QED
      BY <1>2, <1>3, <2>3, <3>3, <3>4
  <2>9. \A q \in Phone \ {p} : ~Revoked(q)' =>
          /\ ~Revoked(q) /\ queue'[q] = queue[q] /\ heard'[q] = heard[q]
    BY <1>1, <1>3, <2>3 DEF Revoked
  <2>10. StreamOK'
    BY <1>1, <2>8, <2>9 DEF LanInv, StreamOK
  <2> QED
    BY <2>4, <2>6, <2>7, <2>10
<1> QED
  BY <1>4, <1>5

(* A connection, once made, keeps its place; none is ever forgotten.       *)
Kept(conns) == conns \in Seq(Conn) /\ DOMAIN socks \subseteq DOMAIN conns

(* A table of connections of the same length is one.                       *)
LEMMA ConnsTyped ==
    ASSUME socks \in Seq(Conn), NEW conns,
           conns = [s \in DOMAIN socks |-> conns[s]],
           \A s \in DOMAIN socks : conns[s] \in Conn
    PROVE  Kept(conns) /\ DOMAIN conns = DOMAIN socks
<1>1. DOMAIN socks = 1..Len(socks) /\ Len(socks) \in Nat
  BY LenProperties
<1>2. conns \in [1..Len(socks) -> Conn]
  BY <1>1
<1> QED
  BY <1>1, <1>2 DEF Kept

(* Whom a connection joins, seen from either end.                          *)
LEMMA ConnsAre ==
    ASSUME LanInv
    PROVE  /\ socks \in Seq(Conn) /\ DOMAIN socks \subseteq Nat \ {0}
           /\ \A s \in DOMAIN socks : socks[s] \in Conn
           /\ \A s \in DOMAIN socks, p \in Phone : Peer(p, s) \in Id /\ Other(p, s) \in Phone
<1>1. socks \in Seq(Conn)
  BY DEF LanInv, TableTyped
<1>2. /\ DOMAIN socks = 1..Len(socks) /\ Len(socks) \in Nat
      /\ \A s \in DOMAIN socks : socks[s] \in Conn
  BY <1>1, LenProperties, ElementOfSeq
<1>3. DOMAIN socks \subseteq Nat \ {0}
  BY <1>2
<1>4. ASSUME NEW s \in DOMAIN socks, NEW p \in Phone PROVE Peer(p, s) \in Id /\ Other(p, s) \in Phone
  <2>1. socks[s] \in Conn
    BY <1>2
  <2> QED
    BY <2>1 DEF Conn, Peer, Other
<1> QED
  BY <1>1, <1>2, <1>3, <1>4

(* A connection closed at one end, and what its reader goes on to.         *)
LEMMA CloseTyped ==
    ASSUME LanInv, NEW p \in Phone, NEW s \in DOMAIN socks, NEW stage \in Stages, NEW lost \in BOOLEAN
    PROVE  Kept(Close(p, s, stage, lost)) /\ DOMAIN Close(p, s, stage, lost) = DOMAIN socks
<1> DEFINE conns == Close(p, s, stage, lost)
<1>1. PICK c : c = [socks[s] EXCEPT !.closed = @ \cup {p}, !.at[p] = stage, !.lost = @ \/ lost]
  OBVIOUS
<1>2. socks[s] \in Conn
  BY ConnsAre
<1>3. c \in Conn
  BY <1>1, <1>2 DEF Conn
<1>4. conns = [r \in DOMAIN socks |-> IF r = s THEN c ELSE socks[r]]
  BY <1>1 DEF Close
<1> QED
  BY <1>2, <1>3, <1>4, ConnsAre, ConnsTyped

(* A thread that goes on, ends its call or stays knows whom it is about,   *)
(* as long as no connection is forgotten.                                  *)
LEMMA TaskGoesOn ==
    ASSUME TaskOK, DOMAIN socks \subseteq DOMAIN socks', DOMAIN socks' \subseteq Nat,
           \/ UNCHANGED task
           \/ \E p \in Phone, t \in Threads : Finish(p, t)
           \/ \E p \in Phone, t \in Threads, step \in Steps, i \in Id, n \in Nat :
                 /\ Goto(p, t, step, i, n)
                 /\ step \in {"adopt", "write", "tear"} => n \in DOMAIN socks'
    PROVE  TaskOK'
<1>1. CASE UNCHANGED task
  BY <1>1 DEF TaskOK
<1>2. CASE \E p \in Phone, t \in Threads : Finish(p, t)
  <2>1. PICK p \in Phone, t \in Threads : task' = [task EXCEPT ![p][t] = Idle]
    BY <1>2 DEF Finish
  <2>2. Idle \in TaskType /\ Idle.at = "idle"
    <3>1. PICK none : none = 0
      OBVIOUS
    <3>2. none \in Peers /\ Idle = [at |-> "idle", peer |-> none, ref |-> 0]
      BY <3>1, Zenon DEF Peers, Idle
    <3> QED
      BY <3>2 DEF TaskType, Steps
  <2> QED
    BY <2>1, <2>2 DEF TaskOK
<1>3. CASE \E p \in Phone, t \in Threads, step \in Steps, i \in Id, n \in Nat :
              /\ Goto(p, t, step, i, n)
              /\ step \in {"adopt", "write", "tear"} => n \in DOMAIN socks'
  <2>1. PICK p \in Phone, t \in Threads, step \in Steps, i \in Id, n \in Nat :
              /\ Goto(p, t, step, i, n)
              /\ step \in {"adopt", "write", "tear"} => n \in DOMAIN socks'
    BY <1>3
  <2>2. PICK work : work = [at |-> step, peer |-> i, ref |-> n]
    OBVIOUS
  <2>3. work \in TaskType /\ work.at = step /\ work.peer = i /\ work.ref = n
    BY <2>2 DEF TaskType, Peers
  <2>4. task' = [task EXCEPT ![p][t] = work]
    BY <2>1, <2>2 DEF Goto
  <2>5. task' \in [Phone -> [Threads -> TaskType]]
    BY <2>3, <2>4 DEF TaskOK
  <2>6. ASSUME NEW q \in Phone, NEW u \in Threads
        PROVE  /\ task'[q][u].at # "idle" => task'[q][u].peer \in Id
               /\ task'[q][u].at \in {"adopt", "write", "tear"} => task'[q][u].ref \in DOMAIN socks'
    <3>1. (q = p /\ u = t /\ task'[q][u] = work) \/ task'[q][u] = task[q][u]
      BY <2>4 DEF TaskOK
    <3> QED
      BY <2>1, <2>3, <3>1 DEF TaskOK
  <2> QED
    BY <2>5, <2>6 DEF TaskOK
<1> QED
  BY <1>1, <1>2, <1>3

(* The table may lose a pipe, gain one on a connection there is, or be     *)
(* cleared.                                                                *)
LEMMA TableGoesOn ==
    ASSUME LanInv, Kept(socks'),
           \/ UNCHANGED name
           \/ \E p \in Phone, i \in Id : name' = [name EXCEPT ![p] = i],
           \/ UNCHANGED pipe
           \/ \E p \in Phone : pipe' = [pipe EXCEPT ![p] = [i \in Id |-> 0]]
           \/ \E p \in Phone, i \in Id, s \in {0} \cup DOMAIN socks' : pipe' = [pipe EXCEPT ![p][i] = s]
    PROVE  TableTyped' /\ DOMAIN socks \subseteq DOMAIN socks' /\ DOMAIN socks' \subseteq Nat
<1>1. /\ socks' \in Seq(Conn) /\ DOMAIN socks \subseteq DOMAIN socks'
      /\ DOMAIN socks' \subseteq Nat
  BY LenProperties DEF Kept
<1>2. name' \in [Phone -> Id]
  BY DEF LanInv, TableTyped
<1>3. pipe \in [Phone -> [Id -> {0} \cup DOMAIN socks']]
  <2>1. pipe \in [Phone -> [Id -> {0} \cup DOMAIN socks]]
    BY DEF LanInv, TableTyped
  <2> QED
    BY <1>1, <2>1
<1>4. pipe' \in [Phone -> [Id -> {0} \cup DOMAIN socks']]
  <2> DEFINE Conns == {0} \cup DOMAIN socks'
  <2>1. 0 \in Conns
    OBVIOUS
  <2> HIDE DEF Conns
  <2>2. pipe \in [Phone -> [Id -> Conns]]
    BY <1>3 DEF Conns
  <2>3. CASE \E p \in Phone : pipe' = [pipe EXCEPT ![p] = [i \in Id |-> 0]]
    BY <2>1, <2>2, <2>3 DEF Conns
  <2>4. CASE \E p \in Phone, i \in Id, s \in Conns : pipe' = [pipe EXCEPT ![p][i] = s]
    BY <2>2, <2>4 DEF Conns
  <2> QED
    BY <1>3, <2>3, <2>4 DEF Conns
<1> QED
  BY <1>1, <1>2, <1>4 DEF TableTyped

(* adopt puts a pipe in the table and queues "opened" for it in one hold   *)
(* of the lock, or refuses the connection and closes it.                   *)
LEMMA AdoptKeeps ==
    ASSUME LanInv, NEW p \in Phone, NEW s \in DOMAIN socks, NEW dialled, Adopt(p, s, dialled),
           UNCHANGED name
    PROVE  /\ SinkTyped' /\ StreamOK' /\ BytesOnlyOnOpenPipe' /\ SilentAfterShutdown'
           /\ TableTyped' /\ DOMAIN socks \subseteq DOMAIN socks' /\ DOMAIN socks' \subseteq Nat
<1>1. PICK i \in Id : i = Peer(p, s)
  BY ConnsAre
<1>2. /\ socks \in Seq(Conn) /\ pipe \in [Phone -> [Id -> {0} \cup DOMAIN socks]]
      /\ \A r \in DOMAIN socks : socks[r] \in Conn
      /\ s # 0
  BY ConnsAre DEF LanInv, TableTyped
<1>3. CASE /\ socks' = Close(p, s, "done", ~Up(p))
           /\ UNCHANGED <<sinkVars, pipe>>
  <2>1. PICK lost \in BOOLEAN : lost = (~Up(p))
    OBVIOUS
  <2>2. Kept(socks')
    BY <1>3, <2>1, CloseTyped DEF Stages
  <2>3. TableTyped' /\ DOMAIN socks \subseteq DOMAIN socks' /\ DOMAIN socks' \subseteq Nat
    BY <1>3, <2>2, TableGoesOn
  <2> QED
    BY <1>3, <2>3, UnheardKeeps
<1>4. CASE /\ Up(p)
           /\ pipe' = [pipe EXCEPT ![p][i] = s]
           /\ socks' = IF pipe[p][i] = 0 THEN [socks EXCEPT ![s].at[p] = "open"]
                       ELSE [socks EXCEPT ![s].at[p] = "open",
                                          ![pipe[p][i]].closed = @ \union {p}]
           /\ Emit(p, <<Event("opened", i)>>)
  <2>1. Kept(socks') /\ DOMAIN socks' = DOMAIN socks
    <3>1. DOMAIN socks' = DOMAIN socks /\ socks' = [r \in DOMAIN socks |-> socks'[r]]
      BY <1>4
    <3>2. ASSUME NEW r \in DOMAIN socks PROVE socks'[r] \in Conn
      <4>1. socks[r] \in Conn
        BY <1>2
      <4>2. PICK one : one = [socks[r] EXCEPT !.at[p] = "open"]
        OBVIOUS
      <4>3. one \in Conn
        BY <4>1, <4>2 DEF Conn, Stages
      <4>4. PICK two : two = [socks[r] EXCEPT !.closed = @ \union {p}]
        OBVIOUS
      <4>5. two \in Conn
        BY <4>1, <4>4 DEF Conn
      <4>6. PICK three : three = [one EXCEPT !.closed = @ \union {p}]
        OBVIOUS
      <4>7. three \in Conn
        BY <4>3, <4>6 DEF Conn
      <4>8. socks'[r] \in {socks[r], one, two, three}
        BY <1>4, <4>2, <4>4, <4>6
      <4> QED
        BY <4>1, <4>3, <4>5, <4>7, <4>8
    <3> QED
      BY <1>2, <3>1, <3>2, ConnsTyped
  <2>2. TableTyped' /\ DOMAIN socks \subseteq DOMAIN socks' /\ DOMAIN socks' \subseteq Nat
    BY <1>4, <2>1, TableGoesOn
  <2>3. /\ Event("opened", i) \in EventType /\ Event("opened", i).what = "opened"
        /\ Event("opened", i) = Opened(i)
    BY EventIsTyped DEF Words, Peers, Opened
  <2>4. \A q \in Phone \ {p}, j \in Id : pipe'[q][j] = pipe[q][j]
    BY <1>2, <1>4
  <2>5. \A j \in Id : j = i \/ pipe'[p][j] = pipe[p][j]
    BY <1>2, <1>4
  <2>6. \A j \in Id : Event("opened", i) # Closed(j)
    BY <2>3 DEF Closed, Event
  <2> QED
    BY <1>4, <2>2, <2>3, <2>4, <2>5, <2>6, EmitKeeps
<1> QED
  BY <1>1, <1>3, <1>4 DEF Adopt

(* An event that says nothing of bytes or of a pipe's end is harmless,     *)
(* even an "opened" with no pipe behind it.                                *)
LEMMA NoticeKeeps ==
    ASSUME LanInv, UNCHANGED <<socks, pipe>>,
           \/ UNCHANGED name
           \/ \E p \in Phone, i \in Id : name' = [name EXCEPT ![p] = i],
           \/ UNCHANGED sinkVars
           \/ \E p \in Phone, what \in {"found", "lost", "failed", "opened"}, i \in Id :
                 Emit(p, <<Event(what, i)>>)
    PROVE  /\ SinkTyped' /\ StreamOK' /\ BytesOnlyOnOpenPipe' /\ SilentAfterShutdown'
           /\ TableTyped' /\ DOMAIN socks \subseteq DOMAIN socks' /\ DOMAIN socks' \subseteq Nat
<1>1. Kept(socks')
  BY ConnsAre DEF Kept
<1>2. TableTyped' /\ DOMAIN socks \subseteq DOMAIN socks' /\ DOMAIN socks' \subseteq Nat
  BY <1>1, TableGoesOn
<1>3. CASE UNCHANGED sinkVars
  BY <1>2, <1>3, UnheardKeeps
<1>4. CASE \E p \in Phone, what \in {"found", "lost", "failed", "opened"}, i \in Id :
              Emit(p, <<Event(what, i)>>)
  <2>1. PICK p \in Phone, what \in {"found", "lost", "failed", "opened"}, i \in Id :
              Emit(p, <<Event(what, i)>>)
    BY <1>4
  <2>2. PICK e : e = Event(what, i)
    OBVIOUS
  <2>3. e \in EventType /\ e.what # "received" /\ \A j \in Id : e # Closed(j)
    BY <2>2, EventIsTyped DEF Words, Peers, Closed, Event
  <2> QED
    BY <1>2, <2>1, <2>2, <2>3, EmitKeeps
<1> QED
  BY <1>2, <1>3, <1>4

(* A connection changes at one end, whatever that is, and stays what it is. *)
LEMMA ConnChanges ==
    ASSUME LanInv, NEW s \in DOMAIN socks, NEW c \in Conn,
           socks' = [r \in DOMAIN socks |-> IF r = s THEN c ELSE socks[r]]
    PROVE  Kept(socks')
BY ConnsAre, ConnsTyped

(* A connection is taken out of the table, and announced as closed. *)
LEMMA ClosedKeeps ==
    ASSUME LanInv, Kept(socks'), UNCHANGED name,
           NEW p \in Phone, NEW i \in Id,
           pipe' = [pipe EXCEPT ![p][i] = 0],
           Emit(p, <<Event("closed", i)>>)
    PROVE  /\ SinkTyped' /\ StreamOK' /\ BytesOnlyOnOpenPipe' /\ SilentAfterShutdown'
           /\ TableTyped' /\ DOMAIN socks \subseteq DOMAIN socks' /\ DOMAIN socks' \subseteq Nat
<1>1. TableTyped' /\ DOMAIN socks \subseteq DOMAIN socks' /\ DOMAIN socks' \subseteq Nat
  BY TableGoesOn
<1>2. PICK e : e = Event("closed", i)
  OBVIOUS
<1>3. e \in EventType /\ e.what # "received" /\ \A j \in Id : j = i \/ e # Closed(j)
  BY <1>2, EventIsTyped DEF Words, Peers, Closed, Event
<1>4. /\ \A q \in Phone \ {p}, j \in Id : pipe'[q][j] = pipe[q][j]
      /\ \A j \in Id : IF j = i THEN pipe'[p][j] = 0 ELSE pipe'[p][j] = pipe[p][j]
  BY DEF LanInv, TableTyped
<1>5. Emit(p, <<e>>)
  BY <1>2
<1> QED
  BY <1>1, <1>3, <1>4, <1>5, EmitKeeps

(* A pipe goes out of the table and its "closed" is queued in one hold of  *)
(* the lock.                                                               *)
LEMMA HangUpKeeps ==
    ASSUME LanInv, NEW p \in Phone, NEW i \in Id, HangUp(p, i), UNCHANGED name
    PROVE  /\ SinkTyped' /\ StreamOK' /\ BytesOnlyOnOpenPipe' /\ SilentAfterShutdown'
           /\ TableTyped' /\ DOMAIN socks \subseteq DOMAIN socks' /\ DOMAIN socks' \subseteq Nat
<1>1. CASE pipe[p][i] = 0
  BY <1>1, NoticeKeeps DEF HangUp
<1>2. CASE pipe[p][i] # 0
  <2>1. PICK s \in DOMAIN socks : s = pipe[p][i]
    BY <1>2 DEF LanInv, TableTyped
  <2>2. PICK c : c = [socks[s] EXCEPT !.closed = @ \cup {p}, !.lost = TRUE]
    OBVIOUS
  <2>3. c \in Conn
    BY <2>2, ConnsAre DEF Conn
  <2>4. socks' = [r \in DOMAIN socks |-> IF r = s THEN c ELSE socks[r]]
    BY <1>2, <2>1, <2>2 DEF HangUp
  <2>5. Kept(socks')
    BY <2>3, <2>4, ConnChanges
  <2> QED
    BY <1>2, <2>5, ClosedKeeps DEF HangUp
<1> QED
  BY <1>1, <1>2

(* What a thread in a call knows, in the words of the model.               *)
LEMMA WorkIsTyped ==
    ASSUME LanInv, NEW p \in Phone, Work(p).at # "idle"
    PROVE  /\ Work(p).peer \in Id /\ Work(p).ref \in Nat
           /\ Work(p).at \in {"adopt", "write", "tear"} => Work(p).ref \in DOMAIN socks
BY DEF LanInv, TaskOK, TaskType, Work, Threads

(* The four calls that speak of a peer.                                    *)
LEMMA CallsKeep ==
    ASSUME LanInv, NEW p \in Phone, NEW i \in Id,
           Connect(p, i) \/ Send(p, i) \/ Disconnect(p, i) \/ AskToRename(p, i)
    PROVE  LanInv'
<1>1. CASE Connect(p, i)
  <2>1. /\ UNCHANGED <<name, socks, pipe>>
        /\ UNCHANGED sinkVars \/ Emit(p, <<Event("failed", i)>>)
        /\ UNCHANGED task \/ Goto(p, "user", "announce", i, 0) \/ Goto(p, "user", "dial", i, 0)
    BY <1>1 DEF Connect
  <2>2. /\ SinkTyped' /\ StreamOK' /\ BytesOnlyOnOpenPipe' /\ SilentAfterShutdown'
        /\ TableTyped' /\ DOMAIN socks \subseteq DOMAIN socks' /\ DOMAIN socks' \subseteq Nat
    BY <2>1, NoticeKeeps
  <2>3. TaskOK'
    BY <2>1, <2>2, TaskGoesOn DEF LanInv, Threads, Steps
  <2> QED
    BY <2>2, <2>3 DEF LanInv
<1>2. CASE Send(p, i)
  <2>1. /\ UNCHANGED <<name, socks, pipe, sinkVars>>
        /\ pipe[p][i] # 0 /\ Goto(p, "user", "write", i, pipe[p][i])
    BY <1>2 DEF Send
  <2>2. /\ SinkTyped' /\ StreamOK' /\ BytesOnlyOnOpenPipe' /\ SilentAfterShutdown'
        /\ TableTyped' /\ DOMAIN socks \subseteq DOMAIN socks' /\ DOMAIN socks' \subseteq Nat
    BY <2>1, NoticeKeeps
  <2>3. pipe[p][i] \in Nat /\ pipe[p][i] \in DOMAIN socks'
    BY <2>1, <2>2 DEF LanInv, TableTyped
  <2>4. TaskOK'
    BY <2>1, <2>2, <2>3, TaskGoesOn DEF LanInv, Threads, Steps
  <2> QED
    BY <2>2, <2>4 DEF LanInv
<1>3. CASE Disconnect(p, i)
  <2>1. /\ SinkTyped' /\ StreamOK' /\ BytesOnlyOnOpenPipe' /\ SilentAfterShutdown'
        /\ TableTyped' /\ DOMAIN socks \subseteq DOMAIN socks' /\ DOMAIN socks' \subseteq Nat
    BY <1>3, HangUpKeeps DEF Disconnect
  <2>2. TaskOK'
    BY <1>3, <2>1, TaskGoesOn DEF LanInv, Disconnect
  <2> QED
    BY <2>1, <2>2 DEF LanInv
<1>4. CASE AskToRename(p, i)
  <2>1. /\ UNCHANGED <<name, socks, pipe, sinkVars>>
        /\ Goto(p, "clock", "rename", i, 0)
    BY <1>4 DEF AskToRename
  <2>2. /\ SinkTyped' /\ StreamOK' /\ BytesOnlyOnOpenPipe' /\ SilentAfterShutdown'
        /\ TableTyped' /\ DOMAIN socks \subseteq DOMAIN socks' /\ DOMAIN socks' \subseteq Nat
    BY <2>1, NoticeKeeps
  <2>3. TaskOK'
    BY <2>1, <2>2, TaskGoesOn DEF LanInv, Threads, Steps
  <2> QED
    BY <2>2, <2>3 DEF LanInv
<1> QED
  BY <1>1, <1>2, <1>3, <1>4

(* The steps of a call that only speak to the sink and the table.          *)
LEMMA TasksKeep ==
    ASSUME LanInv, NEW p \in Phone,
           Announce(p) \/ AdoptDialled(p) \/ TearDown(p) \/ Rename(p)
    PROVE  LanInv'
<1>1. CASE Announce(p)
  <2>1. Work(p).at = "announce" /\ Work(p).peer \in Id
    BY <1>1, WorkIsTyped DEF Announce, At, Work
  <2>2. /\ SinkTyped' /\ StreamOK' /\ BytesOnlyOnOpenPipe' /\ SilentAfterShutdown'
        /\ TableTyped' /\ DOMAIN socks \subseteq DOMAIN socks' /\ DOMAIN socks' \subseteq Nat
    BY <1>1, <2>1, NoticeKeeps DEF Announce
  <2>3. TaskOK'
    BY <1>1, <2>2, TaskGoesOn DEF LanInv, Announce, Threads
  <2> QED
    BY <2>2, <2>3 DEF LanInv
<1>2. CASE AdoptDialled(p)
  <2>1. Work(p).at = "adopt" /\ Work(p).ref \in DOMAIN socks
    BY <1>2, WorkIsTyped DEF AdoptDialled, At, Work
  <2>2. /\ SinkTyped' /\ StreamOK' /\ BytesOnlyOnOpenPipe' /\ SilentAfterShutdown'
        /\ TableTyped' /\ DOMAIN socks \subseteq DOMAIN socks' /\ DOMAIN socks' \subseteq Nat
    BY <1>2, <2>1, AdoptKeeps DEF AdoptDialled
  <2>3. TaskOK'
    BY <1>2, <2>2, TaskGoesOn DEF LanInv, AdoptDialled, Threads
  <2> QED
    BY <2>2, <2>3 DEF LanInv
<1>3. CASE TearDown(p)
  <2>1. Work(p).at = "tear" /\ Work(p).peer \in Id
    BY <1>3, WorkIsTyped DEF TearDown, At, Work
  <2>2. /\ SinkTyped' /\ StreamOK' /\ BytesOnlyOnOpenPipe' /\ SilentAfterShutdown'
        /\ TableTyped' /\ DOMAIN socks \subseteq DOMAIN socks' /\ DOMAIN socks' \subseteq Nat
    BY <1>3, <2>1, HangUpKeeps, NoticeKeeps DEF TearDown
  <2>3. TaskOK'
    BY <1>3, <2>2, TaskGoesOn DEF LanInv, TearDown, Threads
  <2> QED
    BY <2>2, <2>3 DEF LanInv
<1>4. CASE Rename(p)
  <2>1. task[p]["clock"].peer \in Id
    BY <1>4 DEF Rename, At, LanInv, TaskOK, Threads
  <2>2. /\ name' = [name EXCEPT ![p] = task[p]["clock"].peer]
        /\ UNCHANGED <<socks, pipe, sinkVars>> /\ Finish(p, "clock")
    BY <1>4 DEF Rename
  <2>3. /\ SinkTyped' /\ StreamOK' /\ BytesOnlyOnOpenPipe' /\ SilentAfterShutdown'
        /\ TableTyped' /\ DOMAIN socks \subseteq DOMAIN socks' /\ DOMAIN socks' \subseteq Nat
    BY <2>1, <2>2, NoticeKeeps
  <2>4. TaskOK'
    BY <2>2, <2>3, TaskGoesOn DEF LanInv, Threads
  <2> QED
    BY <2>3, <2>4 DEF LanInv
<1> QED
  BY <1>1, <1>2, <1>3, <1>4

(* A dial makes a connection, or fails and says so.                        *)
LEMMA DialKeeps ==
    ASSUME LanInv, NEW p \in Phone, Dial(p)
    PROVE  LanInv'
<1>1. Work(p).at = "dial" /\ Work(p).peer \in Id /\ UNCHANGED <<name, pipe>>
  BY WorkIsTyped DEF Dial, At, Work
<1>2. PICK i \in Id : i = Work(p).peer
  BY <1>1
<1>3. CASE /\ socks' = Append(socks, Dialled(p, i))
           /\ Goto(p, "user", "adopt", i, Len(socks) + 1)
           /\ UNCHANGED sinkVars
  <2>1. PICK c : c = Dialled(p, i)
    OBVIOUS
  <2>2. Owner[i] \in Phone /\ name[p] \in Id
    BY IdsAreOwned DEF LanInv, TableTyped
  <2>3. /\ [q \in Phone |-> IF q = p THEN "dialled" ELSE "backlog"] \in [Phone -> Stages]
        /\ [q \in Phone |-> 0] \in [Phone -> Nat] /\ {} \in SUBSET Phone
    BY DEF Stages
  <2>4. c \in Conn
    BY <2>1, <2>2, <2>3 DEF Dialled, Conn
  <2>5. /\ socks' \in Seq(Conn) /\ Len(socks) \in Nat /\ DOMAIN socks = 1..Len(socks)
        /\ DOMAIN socks' = 1..(Len(socks) + 1)
    BY <1>3, <2>1, <2>4, ConnsAre, AppendProperties, LenProperties
  <2>6. Kept(socks') /\ Len(socks) + 1 \in DOMAIN socks' /\ Len(socks) + 1 \in Nat
    BY <2>5 DEF Kept
  <2>7. TableTyped' /\ DOMAIN socks \subseteq DOMAIN socks' /\ DOMAIN socks' \subseteq Nat
    BY <1>1, <2>6, TableGoesOn
  <2>8. SinkTyped' /\ StreamOK' /\ BytesOnlyOnOpenPipe' /\ SilentAfterShutdown'
    BY <1>1, <1>3, UnheardKeeps
  <2>9. TaskOK'
    BY <1>3, <2>6, <2>7, TaskGoesOn DEF LanInv, Threads, Steps
  <2> QED
    BY <2>7, <2>8, <2>9 DEF LanInv
<1>4. CASE Emit(p, <<Event("failed", i)>>) /\ Finish(p, "user") /\ UNCHANGED socks
  <2>1. /\ SinkTyped' /\ StreamOK' /\ BytesOnlyOnOpenPipe' /\ SilentAfterShutdown'
        /\ TableTyped' /\ DOMAIN socks \subseteq DOMAIN socks' /\ DOMAIN socks' \subseteq Nat
    BY <1>1, <1>4, NoticeKeeps
  <2>2. TaskOK'
    BY <1>4, <2>1, TaskGoesOn DEF LanInv, Threads
  <2> QED
    BY <2>1, <2>2 DEF LanInv
<1> QED
  BY <1>2, <1>3, <1>4 DEF Dial

(* Bytes are written to a connection and to nothing else.                  *)
LEMMA WriteKeeps ==
    ASSUME LanInv, NEW p \in Phone, Write(p)
    PROVE  LanInv'
<1>1. /\ Work(p).at = "write" /\ Work(p).ref \in DOMAIN socks /\ Work(p).peer \in Id
      /\ Work(p).ref \in Nat /\ UNCHANGED <<name, pipe, sinkVars>>
  BY WorkIsTyped DEF Write, At, Work
<1>2. PICK s \in DOMAIN socks : s = Work(p).ref
  BY <1>1
<1>3. Kept(socks')
  <2>1. CASE socks' = [socks EXCEPT ![s].bytes[Other(p, s)] = @ + 1]
    <3>1. PICK o \in Phone : o = Other(p, s)
      BY ConnsAre
    <3>2. PICK c : c = [socks[s] EXCEPT !.bytes[o] = @ + 1]
      OBVIOUS
    <3>3. socks[s] \in Conn
      BY ConnsAre
    <3>4. c \in Conn
      BY <3>2, <3>3 DEF Conn
    <3>5. socks' = [r \in DOMAIN socks |-> IF r = s THEN c ELSE socks[r]]
      BY <2>1, <3>1, <3>2
    <3> QED
      BY <3>4, <3>5, ConnChanges
  <2>2. CASE UNCHANGED socks
    BY <2>2, ConnsAre DEF Kept
  <2> QED
    BY <1>2, <2>1, <2>2 DEF Write
<1>4. TableTyped' /\ DOMAIN socks \subseteq DOMAIN socks' /\ DOMAIN socks' \subseteq Nat
  BY <1>1, <1>3, TableGoesOn
<1>5. SinkTyped' /\ StreamOK' /\ BytesOnlyOnOpenPipe' /\ SilentAfterShutdown'
  BY <1>1, UnheardKeeps
<1>6. Finish(p, "user") \/ Goto(p, "user", "tear", Work(p).peer, Work(p).ref)
  BY DEF Write
<1>7. Work(p).ref \in DOMAIN socks'
  BY <1>1, <1>4
<1>8. TaskOK'
  BY <1>1, <1>4, <1>6, <1>7, TaskGoesOn DEF LanInv, Threads, Steps
<1> QED
  BY <1>4, <1>5, <1>8 DEF LanInv

(* The thread of a connection: it accepts, reads the hello and adopts the  *)
(* pipe, reads bytes under the lock that shows the pipe still in the       *)
(* table, and at the end takes it out.                                     *)
LEMMA ConnsKeep ==
    ASSUME LanInv, NEW p \in Phone, NEW s \in DOMAIN socks,
           Accept(p, s) \/ ReadHello(p, s) \/ ReadBytes(p, s) \/ ReadEnd(p, s)
    PROVE  LanInv'
<1>1. UNCHANGED <<name, task>>
  BY DEF Accept, ReadHello, ReadBytes, ReadEnd
<1>2. socks[s] \in Conn /\ Peer(p, s) \in Id
  BY ConnsAre
<1>3. SUFFICES /\ SinkTyped' /\ StreamOK' /\ BytesOnlyOnOpenPipe' /\ SilentAfterShutdown'
               /\ TableTyped' /\ DOMAIN socks \subseteq DOMAIN socks' /\ DOMAIN socks' \subseteq Nat
  BY <1>1, TaskGoesOn DEF LanInv
<1>4. CASE Accept(p, s)
  <2>1. Kept(socks')
    <3>1. CASE socks' = Close(p, s, "done", TRUE)
      BY <3>1, CloseTyped DEF Stages
    <3>2. CASE socks' = [socks EXCEPT ![s].at[p] = "hello"]
      <4>1. PICK c : c = [socks[s] EXCEPT !.at[p] = "hello"]
        OBVIOUS
      <4>2. c \in Conn
        BY <1>2, <4>1 DEF Conn, Stages
      <4>3. socks' = [r \in DOMAIN socks |-> IF r = s THEN c ELSE socks[r]]
        BY <3>2, <4>1
      <4> QED
        BY <4>2, <4>3, ConnChanges
    <3> QED
      BY <1>4, <3>1, <3>2 DEF Accept
  <2>2. UNCHANGED <<sinkVars, pipe>>
    BY <1>4 DEF Accept
  <2>3. TableTyped' /\ DOMAIN socks \subseteq DOMAIN socks' /\ DOMAIN socks' \subseteq Nat
    BY <1>1, <2>1, <2>2, TableGoesOn
  <2> QED
    BY <2>2, <2>3, UnheardKeeps
<1>5. CASE ReadHello(p, s)
  <2>1. CASE Adopt(p, s, FALSE)
    BY <1>1, <2>1, AdoptKeeps
  <2>2. CASE socks' = Close(p, s, "done", TRUE) /\ UNCHANGED <<sinkVars, pipe>>
    <3>1. Kept(socks')
      BY <2>2, CloseTyped DEF Stages
    <3>2. TableTyped' /\ DOMAIN socks \subseteq DOMAIN socks' /\ DOMAIN socks' \subseteq Nat
      BY <1>1, <2>2, <3>1, TableGoesOn
    <3> QED
      BY <2>2, <3>2, UnheardKeeps
  <2> QED
    BY <1>5, <2>1, <2>2 DEF ReadHello
<1>6. CASE ReadBytes(p, s)
  <2>1. /\ socks[s].bytes[p] > 0 /\ UNCHANGED pipe
        /\ \/ /\ Current(p, s) /\ socks' = [socks EXCEPT ![s].bytes[p] = @ - 1]
              /\ Emit(p, <<Event("received", Peer(p, s))>>)
           \/ /\ socks' = [socks EXCEPT ![s].bytes[p] = @ - 1, ![s].at[p] = "done"]
              /\ UNCHANGED sinkVars
    BY <1>6 DEF ReadBytes
  <2>2. socks[s].bytes \in [Phone -> Nat] /\ socks[s].bytes[p] - 1 \in Nat
    BY <1>2, <2>1 DEF Conn
  <2>3. PICK n \in Nat : n = socks[s].bytes[p] - 1
    BY <2>2
  <2>4. PICK c : c = [socks[s] EXCEPT !.bytes[p] = n]
    OBVIOUS
  <2>5. c \in Conn
    BY <1>2, <2>4 DEF Conn
  <2>6. PICK d : d = [c EXCEPT !.at[p] = "done"]
    OBVIOUS
  <2>7. d \in Conn
    BY <2>5, <2>6 DEF Conn, Stages
  <2>8. Kept(socks')
    <3>1. CASE socks' = [socks EXCEPT ![s].bytes[p] = @ - 1]
      <4>1. socks' = [r \in DOMAIN socks |-> IF r = s THEN c ELSE socks[r]]
        BY <2>3, <2>4, <3>1
      <4> QED
        BY <2>5, <4>1, ConnChanges
    <3>2. CASE socks' = [socks EXCEPT ![s].bytes[p] = @ - 1, ![s].at[p] = "done"]
      <4>1. socks' = [r \in DOMAIN socks |-> IF r = s THEN d ELSE socks[r]]
        BY <2>3, <2>4, <2>6, <3>2
      <4> QED
        BY <2>7, <4>1, ConnChanges
    <3> QED
      BY <2>1, <3>1, <3>2
  <2>9. TableTyped' /\ DOMAIN socks \subseteq DOMAIN socks' /\ DOMAIN socks' \subseteq Nat
    BY <1>1, <2>1, <2>8, TableGoesOn
  <2>10. CASE UNCHANGED sinkVars
    BY <2>1, <2>9, <2>10, UnheardKeeps
  <2>11. CASE Current(p, s) /\ Emit(p, <<Event("received", Peer(p, s))>>)
    <3>1. PICK e : e = Event("received", Peer(p, s))
      OBVIOUS
    <3>2. /\ e \in EventType /\ e.peer = Peer(p, s)
          /\ \A j \in Id : e # Closed(j)
      BY <1>2, <3>1, EventIsTyped DEF Words, Peers, Closed, Event
    <3>3. pipe[p][Peer(p, s)] = s /\ s # 0
      BY <2>11, ConnsAre DEF Current
    <3> QED
      BY <1>2, <2>1, <2>9, <2>11, <3>1, <3>2, <3>3, EmitKeeps
  <2> QED
    BY <2>1, <2>10, <2>11
<1>7. CASE ReadEnd(p, s)
  <2>1. socks[s].cut \in BOOLEAN
    BY <1>2 DEF Conn
  <2>2. Kept(socks')
    BY <1>7, <2>1, CloseTyped DEF ReadEnd, Stages
  <2>3. CASE Current(p, s)
    BY <1>1, <1>2, <1>7, <2>2, <2>3, ClosedKeeps DEF ReadEnd
  <2>4. CASE ~Current(p, s)
    <3>1. UNCHANGED <<sinkVars, pipe>>
      BY <1>7, <2>4 DEF ReadEnd
    <3>2. TableTyped' /\ DOMAIN socks \subseteq DOMAIN socks' /\ DOMAIN socks' \subseteq Nat
      BY <1>1, <2>2, <3>1, TableGoesOn
    <3> QED
      BY <3>1, <3>2, UnheardKeeps
  <2> QED
    BY <2>3, <2>4
<1> QED
  BY <1>4, <1>5, <1>6, <1>7

(* The event loop, and shutdown: it clears the table while the queue is    *)
(* still to drain, and when it revokes the sink the queue is of no         *)
(* consequence.                                                            *)
LEMMA DeliveryKeeps ==
    ASSUME LanInv, NEW p \in Phone, Deliver(p) \/ Silence(p) \/ Drain(p) \/ StartShutdown(p)
    PROVE  LanInv'
<1>1. UNCHANGED <<name, task>>
  BY DEF Deliver, Silence, Drain, StartShutdown, lanVars
<1>2. CASE Drain(p)
  <2>1. /\ Drained(p) /\ pipe' = [pipe EXCEPT ![p] = [i \in Id |-> 0]]
        /\ socks' = [s \in DOMAIN socks |->
              IF s \in Held(p)
              THEN [socks[s] EXCEPT !.closed = @ \union {p}, !.lost = TRUE] ELSE socks[s]]
    BY <1>2 DEF Drain
  <2>2. ASSUME NEW s \in DOMAIN socks PROVE socks'[s] \in Conn
    <3>1. socks[s] \in Conn
      BY ConnsAre
    <3>2. PICK c : c = [socks[s] EXCEPT !.closed = @ \union {p}, !.lost = TRUE]
      OBVIOUS
    <3>3. c \in Conn
      BY <3>1, <3>2 DEF Conn
    <3>4. socks'[s] = c \/ socks'[s] = socks[s]
      BY <2>1, <3>2, Zenon
    <3> QED
      BY <3>1, <3>3, <3>4
  <2>3. socks' = [s \in DOMAIN socks |-> socks'[s]]
    BY <2>1
  <2>4. Kept(socks')
    BY <2>2, <2>3, ConnsAre, ConnsTyped
  <2>5. TableTyped' /\ DOMAIN socks \subseteq DOMAIN socks' /\ DOMAIN socks' \subseteq Nat
    BY <1>1, <2>1, <2>4, TableGoesOn
  <2>6. \A q \in Phone, i \in Id : pipe'[q][i] # 0 => pipe[q][i] # 0
    BY <2>1 DEF LanInv, TableTyped
  <2>7. SinkTyped' /\ StreamOK' /\ BytesOnlyOnOpenPipe' /\ SilentAfterShutdown'
    BY <2>1, <2>6, SilenceKeeps
  <2>8. TaskOK'
    BY <1>1, <2>5, TaskGoesOn DEF LanInv
  <2> QED
    BY <2>5, <2>7, <2>8 DEF LanInv
<1>3. CASE Deliver(p) \/ Silence(p) \/ StartShutdown(p)
  <2>1. /\ UNCHANGED <<socks, pipe>>
        /\ TakeEvent(p) \/ FinishEvent(p) \/ Revoke(p) \/ Return(p) \/ Down(p)
    BY <1>3 DEF Deliver, Silence, StartShutdown, lanVars
  <2>2. SinkTyped' /\ StreamOK' /\ BytesOnlyOnOpenPipe' /\ SilentAfterShutdown'
    BY <2>1, SilenceKeeps, TakeEventKeeps
  <2>3. Kept(socks')
    BY <2>1, ConnsAre DEF Kept
  <2>4. TableTyped' /\ DOMAIN socks \subseteq DOMAIN socks' /\ DOMAIN socks' \subseteq Nat
    BY <1>1, <2>1, <2>3, TableGoesOn
  <2>5. TaskOK'
    BY <1>1, <2>4, TaskGoesOn DEF LanInv
  <2> QED
    BY <2>2, <2>4, <2>5 DEF LanInv
<1> QED
  BY <1>2, <1>3

(* Advertising, scanning and what the radio finds change no pipe.          *)
LEMMA AirKeeps ==
    ASSUME LanInv,
           \/ \E p \in Phone : StartAdvertising(p) \/ StopAdvertising(p) \/ SetScanning(p)
           \/ \E p \in Phone, i \in Id : Resolve(p, i) \/ Remove(p, i)
           \/ UNCHANGED <<sinkVars, lanVars>>
    PROVE  LanInv'
<1>1. /\ UNCHANGED <<name, socks, pipe, task>>
      /\ \/ UNCHANGED sinkVars
         \/ \E p \in Phone, what \in {"found", "lost", "failed", "opened"}, i \in Id :
               Emit(p, <<Event(what, i)>>)
  BY DEF StartAdvertising, StopAdvertising, SetScanning, Resolve, Remove, lanVars
<1>2. /\ SinkTyped' /\ StreamOK' /\ BytesOnlyOnOpenPipe' /\ SilentAfterShutdown'
      /\ TableTyped' /\ DOMAIN socks \subseteq DOMAIN socks' /\ DOMAIN socks' \subseteq Nat
  BY <1>1, NoticeKeeps
<1>3. TaskOK'
  BY <1>1, <1>2, TaskGoesOn DEF LanInv
<1> QED
  BY <1>2, <1>3 DEF LanInv

(* The network cuts a connection: neither end's table knows yet.           *)
LEMMA CutKeeps ==
    ASSUME LanInv, NEW s \in DOMAIN socks, Cut(s)
    PROVE  LanInv'
<1>1. /\ socks' = [socks EXCEPT ![s].cut = TRUE, ![s].lost = TRUE]
      /\ UNCHANGED <<sinkVars, name, pipe, task>>
  BY DEF Cut
<1>2. PICK c : c = [socks[s] EXCEPT !.cut = TRUE, !.lost = TRUE]
  OBVIOUS
<1>3. c \in Conn
  BY <1>2, ConnsAre DEF Conn
<1>4. socks' = [r \in DOMAIN socks |-> IF r = s THEN c ELSE socks[r]]
  BY <1>1, <1>2
<1>5. Kept(socks')
  BY <1>3, <1>4, ConnChanges
<1>6. TableTyped' /\ DOMAIN socks \subseteq DOMAIN socks' /\ DOMAIN socks' \subseteq Nat
  BY <1>1, <1>5, TableGoesOn
<1>7. SinkTyped' /\ StreamOK' /\ BytesOnlyOnOpenPipe' /\ SilentAfterShutdown'
  BY <1>1, UnheardKeeps
<1>8. TaskOK'
  BY <1>1, <1>6, TaskGoesOn DEF LanInv
<1> QED
  BY <1>6, <1>7, <1>8 DEF LanInv

(* Nothing was queued, dialled or heard.                                   *)
LEMMA LanInitInv == LanInit => LanInv
<1> SUFFICES ASSUME LanInit PROVE LanInv
  OBVIOUS
<1>1. /\ queue = [p \in Phone |-> <<>>] /\ busy = [p \in Phone |-> Nothing]
      /\ life = [p \in Phone |-> "up"] /\ inside = [p \in Phone |-> FALSE]
      /\ heard = [p \in Phone |-> {}]
      /\ task = [p \in Phone |-> [t \in Threads |-> Idle]]
      /\ name \in [Phone -> Id] /\ socks = <<>>
      /\ pipe = [p \in Phone |-> [i \in Id |-> 0]]
  BY DEF LanInit, SinkInit
<1>2. Nothing \in EventType /\ Nothing.what = "nothing"
  <2>1. PICK none : none = 0
    OBVIOUS
  <2>2. none \in Peers /\ Nothing = [what |-> "nothing", peer |-> none]
    BY <2>1, Zenon DEF Peers, Nothing, Event
  <2> QED
    BY <2>2 DEF EventType, Words
<1>3. Idle \in TaskType /\ Idle.at = "idle"
  <2>1. PICK none : none = 0
    OBVIOUS
  <2>2. none \in Peers /\ Idle = [at |-> "idle", peer |-> none, ref |-> 0]
    BY <2>1, Zenon DEF Peers, Idle
  <2> QED
    BY <2>2 DEF TaskType, Steps
<1>4. SinkTyped
  BY <1>1, <1>2 DEF SinkTyped, Lives
<1>5. TableTyped
  <2>1. <<>> \in Seq(Conn)
    OBVIOUS
  <2> QED
    BY <1>1, <2>1 DEF TableTyped
<1>6. TaskOK
  BY <1>1, <1>3 DEF TaskOK
<1>7. StreamOK
  <2>1. Len(<<>>) = 0 /\ 1..0 = {}
    OBVIOUS
  <2> QED
    BY <1>1, <2>1 DEF StreamOK
<1>8. BytesOnlyOnOpenPipe /\ SilentAfterShutdown
  BY <1>1, <1>2 DEF BytesOnlyOnOpenPipe, SilentAfterShutdown
<1> QED
  BY <1>4, <1>5, <1>6, <1>7, <1>8 DEF LanInv

(* Every step of every phone, and of the network, keeps the invariant.     *)
LEMMA LanNextKeepsInv ==
    ASSUME LanInv, [LanNext]_<<sinkVars, lanVars>>
    PROVE  LanInv'
<1>1. ASSUME NEW p \in Phone, Working(p) PROVE LanInv'
  <2>1. CASE Announce(p) \/ AdoptDialled(p) \/ TearDown(p) \/ Rename(p)
    BY <2>1, TasksKeep
  <2>2. CASE Dial(p)
    BY <2>2, DialKeeps
  <2>3. CASE Write(p)
    BY <2>3, WriteKeeps
  <2>4. CASE \E s \in DOMAIN socks : Accept(p, s) \/ ReadHello(p, s) \/ ReadBytes(p, s) \/ ReadEnd(p, s)
    BY <2>4, ConnsKeep
  <2>5. CASE Deliver(p) \/ Drain(p) \/ Silence(p)
    BY <2>5, DeliveryKeeps
  <2> QED
    BY <1>1, <2>1, <2>2, <2>3, <2>4, <2>5 DEF Working
<1>2. ASSUME NEW p \in Phone, Calling(p) PROVE LanInv'
  <2>1. CASE \E i \in Id : Connect(p, i) \/ Send(p, i) \/ Disconnect(p, i) \/ AskToRename(p, i)
    BY <2>1, CallsKeep
  <2>2. CASE StartAdvertising(p) \/ StopAdvertising(p) \/ SetScanning(p)
    BY <2>2, AirKeeps
  <2>3. CASE StartShutdown(p)
    BY <2>3, DeliveryKeeps
  <2> QED
    BY <1>2, <2>1, <2>2, <2>3 DEF Calling
<1>3. CASE Outside
  BY <1>3, AirKeeps, CutKeeps DEF Outside
<1>4. CASE UNCHANGED <<sinkVars, lanVars>>
  BY <1>4, AirKeeps
<1> QED
  BY <1>1, <1>2, <1>3, <1>4 DEF LanNext

(* The queue between the table and the sink stays consistent with both, in *)
(* every behaviour.                                                        *)
THEOREM LanInvHolds == LanSpec => []LanInv
<1>1. LanInit => LanInv
  BY LanInitInv
<1>2. LanInv /\ [LanNext]_<<sinkVars, lanVars>> => LanInv'
  BY LanNextKeepsInv
<1> QED
  BY <1>1, <1>2, PTL DEF LanSpec

(* The sink is handed bytes from a peer only between that peer's "opened"  *)
(* and its "closed" (the contract of transport/mod.rs, kept by             *)
(* LanTransport).                                                          *)
THEOREM BytesOnlyOnOpenPipeHolds == LanSpec => []BytesOnlyOnOpenPipe
<1>1. LanInv => BytesOnlyOnOpenPipe
  BY DEF LanInv
<1> QED
  BY <1>1, LanInvHolds, PTL

(* Once shutdown has returned, no event is being handed to the sink or     *)
(* ever is again (LanTransport::shutdown revokes the sink and waits for    *)
(* the delivery under way).                                                *)
THEOREM SilentAfterShutdownHolds == LanSpec => []SilentAfterShutdown
<1>1. LanInv => SilentAfterShutdown
  BY DEF LanInv
<1> QED
  BY <1>1, LanInvHolds, PTL
=============================================================================
