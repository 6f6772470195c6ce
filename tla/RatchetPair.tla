----------------------------- MODULE RatchetPair -----------------------------
(***************************************************************************)
(* The two ratchets of one conversation, and a network that loses, repeats *)
(* and reorders: a sealed message may be opened at any time after it was   *)
(* sealed, any number of times, or never.  Party 0 is the initiator of     *)
(* Ratchet::initiator, party 1 the responder.                              *)
(*                                                                         *)
(* A decrypt that fails returns before it assigns anything                 *)
(* (ratchet.rs:359-418), so it is a stuttering step here.                  *)
(***************************************************************************)
EXTENDS Ratchet

CONSTANTS
    MaxSeals          \* bound: messages each side seals

VARIABLES
    ratchet,          \* each side's Ratchet
    wire,             \* every message sealed so far
    generated,        \* how many key pairs each side has generated
    \* history, read by no action's guard:
    seals,            \* how many messages each side has sealed
    opened,           \* the messages each side has opened
    evicted           \* the slots each side let go at MaxSkippedKeys

vars == <<ratchet, wire, generated, seals, opened, evicted>>

Message ==
    [from : Party, header : Header, key : Chain, body : Nat]

Init ==
    /\ ratchet = [p \in Party |-> IF p = 0 THEN Initiator(<<0, 0>>, <<1, 0>>)
                                           ELSE Responder(<<1, 0>>)]
    /\ wire = {}
    /\ generated = [p \in Party |-> 1]
    /\ seals = [p \in Party |-> 0]
    /\ opened = [p \in Party |-> {}]
    /\ evicted = [p \in Party |-> {}]

(* encrypt, and the bytes it returns put on the network. *)
Encrypt(p) ==
    /\ CanEncrypt(ratchet[p])
    /\ seals[p] < MaxSeals
    /\ wire' = wire \cup {[from |-> p, header |-> HeaderOf(ratchet[p]),
                           key |-> ratchet[p].sending, body |-> seals[p]]}
    /\ ratchet' = [ratchet EXCEPT ![p] = AfterEncrypt(@)]
    /\ seals' = [seals EXCEPT ![p] = @ + 1]
    /\ UNCHANGED <<generated, opened, evicted>>

Arrived(p, m) == m.from = Peer(p) /\ Opens(ratchet[p], m)

(* The slots let go in a step: held before or just walked, more than there *)
(* is room for, and held no more.                                          *)
LetGo(p, walked) ==
    LET had == DOMAIN ratchet[p].skipped \cup walked
    IN IF Cardinality(had) > MaxSkippedKeys
       THEN had \ DOMAIN ratchet'[p].skipped ELSE {}

(* decrypt, by a key kept when a later message arrived first. *)
DecryptKept(p, m) ==
    /\ Arrived(p, m)
    /\ Kept(ratchet[p], m.header)
    /\ ratchet' = [ratchet EXCEPT ![p] = AfterKept(@, m.header)]
    /\ opened' = [opened EXCEPT ![p] = @ \cup {m}]
    /\ UNCHANGED <<wire, generated, seals, evicted>>

(* decrypt, on the chain in hand. *)
DecryptOnChain(p, m) ==
    /\ Arrived(p, m)
    /\ OnChain(ratchet[p], m.header)
    /\ ratchet' = [ratchet EXCEPT ![p] = AfterOnChain(@, m.header)]
    /\ opened' = [opened EXCEPT ![p] = @ \cup {m}]
    /\ evicted' = [evicted EXCEPT ![p] = @ \cup LetGo(p,
           {m.header.dh} \X (ratchet[p].received..(m.header.number - 1)))]
    /\ UNCHANGED <<wire, generated, seals>>

(* decrypt, turning the ratchet: the peer's key is one not seen before. *)
DecryptTurning(p, m) ==
    LET fresh == <<p, generated[p]>> IN
    /\ Arrived(p, m)
    /\ NeedsTurn(ratchet[p], m.header)
    /\ ratchet' = [ratchet EXCEPT ![p] = AfterTurn(@, m.header, fresh)]
    /\ generated' = [generated EXCEPT ![p] = @ + 1]
    /\ opened' = [opened EXCEPT ![p] = @ \cup {m}]
    /\ evicted' = [evicted EXCEPT ![p] = @ \cup LetGo(p,
           ({m.header.dh} \X (0..(m.header.number - 1)))
           \cup IF ratchet[p].receiving = None THEN {}
                ELSE {ratchet[p].theirs} \X
                     (ratchet[p].received..(m.header.previous_chain_len - 1)))]
    /\ UNCHANGED <<wire, seals>>

Next ==
    \E p \in Party :
        \/ Encrypt(p)
        \/ \E m \in wire : \/ DecryptKept(p, m)
                           \/ DecryptOnChain(p, m)
                           \/ DecryptTurning(p, m)

Spec == Init /\ [][Next]_vars

-----------------------------------------------------------------------------
(* The types of the variables. *)
TypeOK ==
    /\ ratchet = [p \in Party |-> ratchet[p]]
    /\ \A p \in Party : IsRatchet(ratchet[p])
    /\ wire \subseteq Message
    /\ generated \in [Party -> Nat]
    /\ seals \in [Party -> Nat]
    /\ opened \in [Party -> SUBSET wire]
    /\ evicted \in [Party -> SUBSET Slot]

SlotsAgree(r) ==
    /\ Held(r.skipped_order) = DOMAIN r.skipped
    /\ \A i, j \in DOMAIN r.skipped_order :
           r.skipped_order[i] = r.skipped_order[j] => i = j
    /\ Len(r.skipped_order) <= MaxSkippedKeys

(* skipped_order lists the slots of skipped, each once, and no more of     *)
(* them than MAX_SKIPPED_KEYS.  to_state panics on a listed slot the map   *)
(* does not hold (ratchet.rs:524), remember_skipped evicts by the order    *)
(* alone, and from_state refuses a longer list: a ratchet for which this   *)
(* fails cannot be saved, leaks keys, or cannot be loaded back.            *)
StoresAgree == \A p \in Party : SlotsAgree(ratchet[p])

(* No two messages are ever sealed under one message key, by either side:  *)
(* the nonce is the message number (nonce_for), so a key used twice would  *)
(* be a nonce used twice.                                                  *)
KeysUsedOnce ==
    \A m, w \in wire : m.key = w.key => m = w

(* A message opened once never opens again, whatever was received since:   *)
(* decrypt is the only replay protection under the inbox.                  *)
OpenedOnce ==
    \A p \in Party : \A m \in opened[p] : ~Opens(ratchet[p], m)

(* The message keys that can be computed from a ratchet's present state. *)
Derives(r, key) ==
    \/ key \in {r.skipped[s] : s \in DOMAIN r.skipped}
    \/ \E chain \in {r.sending, r.receiving} \ {None} :
           chain.seed = key.seed /\ chain.step <= key.step

(* Forward secrecy: neither the side that sealed a message nor the side    *)
(* that opened it still holds anything its key could be computed from.     *)
SpentKeysAreGone ==
    \A p \in Party : \A m \in wire :
        m.from = p \/ m \in opened[p] => ~Derives(ratchet[p], m.key)

TooFar(r, header) ==
    \/ ~WithinSkip(ReadFrom(r, header), header.number)
    \/ /\ NeedsTurn(r, header) /\ r.receiving # None
       /\ ~WithinSkip(r.received, header.previous_chain_len)

(* Every genuine message still opens, in whatever order and after whatever *)
(* losses, until it has been opened: the only exceptions are a gap over    *)
(* MAX_SKIP and a key evicted at MAX_SKIPPED_KEYS.                         *)
NothingLost ==
    \A p \in Party : \A m \in wire :
        m.from = Peer(p) /\ m \notin opened[p] =>
            \/ Opens(ratchet[p], m)
            \/ TooFar(ratchet[p], m.header)
            \/ SlotOf(m.header) \in evicted[p]

-----------------------------------------------------------------------------
(* session/ratchet.rs:58, MAX_SKIP is "how many skipped message keys a     *)
(* chain may hold"; the code bounds one gap (README, Disagreements).     *)
ChainHoldsAtMostMaxSkip ==
    \A p \in Party : \A dh \in {s[1] : s \in DOMAIN ratchet[p].skipped} :
        Cardinality({s \in DOMAIN ratchet[p].skipped : s[1] = dh}) <= MaxSkip

-----------------------------------------------------------------------------
(* Why the properties above hold, as an inductive invariant.  The turns of *)
(* the two sides alternate, so the length of a chain's seed says whose     *)
(* chain it is; and a side's key, once it has sealed with it, names one    *)
(* chain for good.                                                         *)

Owns(p, seed) == Len(seed) % 2 = 1 - p

SealsWith(p, dh, seed) ==
    /\ dh \in PublicKey /\ dh[1] = p /\ dh[2] < generated[p]
    /\ seed \in Root
    /\ IF dh = ratchet[p].ours
       THEN ratchet[p].sending # None /\ seed = ratchet[p].sending.seed
       ELSE Len(seed) < Len(ratchet[p].root)
    /\ \A m \in wire : m.from = p /\ m.header.dh = dh => m.key.seed = seed

SendingInv(p) ==
    LET r == ratchet[p] IN
    /\ r.ours[1] = p /\ r.ours[2] < generated[p]
    /\ Owns(p, r.root)
    /\ r.sending # None => r.sending = [seed |-> r.root, step |-> r.sent]

ReceivingInv(p) ==
    LET r == ratchet[p] IN
    IF r.receiving = None
    THEN DOMAIN r.skipped = {} /\ opened[p] = {}
    ELSE /\ r.theirs # None
         /\ r.receiving.step = r.received
         /\ Len(r.receiving.seed) + 1 = Len(r.root)
         /\ SealsWith(Peer(p), r.theirs, r.receiving.seed)

SkippedInv(p) ==
    LET r == ratchet[p] IN
    \A s \in DOMAIN r.skipped :
        /\ r.skipped[s].step = s[2]
        /\ Owns(Peer(p), r.skipped[s].seed)
        /\ SealsWith(Peer(p), s[1], r.skipped[s].seed)
        /\ IF s[1] = r.theirs
           THEN r.skipped[s].seed = r.receiving.seed /\ s[2] < r.received
           ELSE Len(r.skipped[s].seed) < Len(r.receiving.seed)
        /\ \A t \in DOMAIN r.skipped :
               r.skipped[t].seed = r.skipped[s].seed => t[1] = s[1]

WireInv(m) ==
    /\ SealsWith(m.from, m.header.dh, m.key.seed)
    /\ Owns(m.from, m.key.seed)
    /\ m.key.step = m.header.number
    /\ m.header.dh = ratchet[m.from].ours => m.header.number < ratchet[m.from].sent

OpenedInv(p) ==
    LET r == ratchet[p] IN
    \A m \in opened[p] :
        /\ m.from = Peer(p)
        /\ m.key \notin {r.skipped[s] : s \in DOMAIN r.skipped}
        /\ \/ Len(m.key.seed) < Len(r.receiving.seed)
           \/ m.key.seed = r.receiving.seed /\ m.key.step < r.received

(* A side's chains, its kept keys and what it has opened fit together: what *)
(* SpentKeysAreGone, OpenedOnce, StoresAgree and KeysUsedOnce follow from. *)
IInv ==
    /\ TypeOK
    /\ StoresAgree
    /\ KeysUsedOnce
    /\ \A m \in wire : WireInv(m)
    /\ \A p \in Party : /\ SendingInv(p) /\ ReceivingInv(p)
                        /\ SkippedInv(p) /\ OpenedInv(p)

-----------------------------------------------------------------------------
(* Why NothingLost holds: what each side has read, kept or let go, against *)
(* what the other has sealed.                                              *)

(* The two sides' turns alternate: one root is a turn ahead of the other,  *)
(* and made of what both sides know.                                       *)
Leads(q, p) ==
    ratchet[q].root =
        Append(ratchet[p].root, DiffieHellman(ratchet[p].ours, ratchet[q].ours))

TurnsInv == \E p \in Party : Leads(Peer(p), p)

(* Before a side has read anything it stands where the pairing left it;    *)
(* and nothing is sealed under what the pairing gave the responder.        *)
StartInv(p) ==
    LET r == ratchet[p] IN
    /\ generated[p] > 0
    /\ r.receiving = None => Len(r.root) = 1 - p /\ r.theirs \in {None, <<1, 0>>}
    /\ r.sending # None => r.root # <<>> /\ r.ours # <<1, 0>>

(* What a message says of the chain before its own covers it, and all of a *)
(* side's messages on chains of one length are on one chain.               *)
HeaderInv(m) ==
    /\ m.header.number < MaxNumber
    /\ m.key.seed # <<>> /\ m.header.dh # <<1, 0>>
    /\ \A w \in wire : w.from = m.from =>
          /\ Len(w.key.seed) = Len(m.key.seed) => w.header.dh = m.header.dh
          /\ Len(w.key.seed) + 2 = Len(m.key.seed) =>
                w.header.number < m.header.previous_chain_len

ChainLenInv(p) ==
    \A w \in wire : w.from = p /\ Len(w.key.seed) + 2 = Len(ratchet[p].root) =>
        w.header.number < ratchet[p].previous_chain_len

(* A side has read no further than a message it has.                       *)
LastRead(p) ==
    LET r == ratchet[p] IN
    r.receiving # None =>
        \E w \in wire : /\ w.from = Peer(p) /\ w.header.dh = r.theirs
                        /\ r.received <= w.header.number + 1

(* A message is yet to be reached, or opened, or its key is kept, or was   *)
(* let go.                                                                 *)
Ahead(r, m) ==
    \/ r.receiving = None
    \/ Len(m.key.seed) > Len(r.receiving.seed)
    \/ m.header.dh = r.theirs /\ m.header.number >= r.received

Accounted(p) ==
    \A m \in wire : m.from = Peer(p) =>
        \/ m \in opened[p]
        \/ SlotOf(m.header) \in DOMAIN ratchet[p].skipped \cup evicted[p]
        \/ Ahead(ratchet[p], m)

(* Every message of the peer's is accounted for, and the chain a side left *)
(* behind ends where the next header says: what NothingLost follows from.  *)
LossInv ==
    /\ IInv
    /\ TurnsInv
    /\ \A m \in wire : HeaderInv(m)
    /\ \A p \in Party : StartInv(p) /\ ChainLenInv(p) /\ LastRead(p) /\ Accounted(p)
=============================================================================
