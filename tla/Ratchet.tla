------------------------------- MODULE Ratchet -------------------------------
(***************************************************************************)
(* The double ratchet of src/rust/src/session/ratchet.rs as a data         *)
(* structure: what a Ratchet holds, and what each of its operations does   *)
(* to it.  RatchetPair puts two of them on a network.                      *)
(*                                                                         *)
(* Key material is symbolic.  A Diffie-Hellman output is the set of the    *)
(* two public keys that made it; a root key is the sequence of the outputs *)
(* folded into it since the pairing; a chain is the root key it was split  *)
(* from together with how many times it was stepped, and the message key   *)
(* drawn from a chain is named by the chain it was drawn from.  Two keys   *)
(* are equal exactly when the two ends computed them from equal inputs.    *)
(***************************************************************************)
EXTENDS Integers, Sequences, FiniteSets

CONSTANTS
    MaxSkip,          \* MAX_SKIP: the longest gap one walk may step over
    MaxSkippedKeys,   \* MAX_SKIPPED_KEYS: skipped keys held over all chains
    MaxNumber,        \* u32::MAX, where checked_add gives up
    None              \* Option::None

Party == {0, 1}
Peer(p) == 1 - p
PublicKey == Party \X Nat
Root == Seq(SUBSET PublicKey)
Chain == [seed : Root, step : Nat]
Slot == PublicKey \X Nat

Header == [dh : PublicKey, previous_chain_len : Nat, number : Nat]

(* A value of struct Ratchet; skipped is a map from slots to keys. *)
IsRatchet(r) ==
    /\ DOMAIN r = {"root", "ours", "theirs", "sending", "receiving", "sent",
                   "received", "previous_chain_len", "skipped", "skipped_order"}
    /\ r.root \in Root /\ r.ours \in PublicKey
    /\ r.theirs \in PublicKey \cup {None}
    /\ r.sending \in Chain \cup {None} /\ r.receiving \in Chain \cup {None}
    /\ r.sent \in Nat /\ r.received \in Nat /\ r.previous_chain_len \in Nat
    /\ DOMAIN r.skipped \subseteq Slot
    /\ \A s \in DOMAIN r.skipped : r.skipped[s] \in Chain
    /\ r.skipped_order \in Seq(Slot)

ASSUME LimitsAssumption ==
    /\ MaxSkip \in Nat
    /\ MaxSkippedKeys \in Nat
    /\ MaxNumber \in Nat

ASSUME NoneAssumption == None \notin Chain /\ None \notin PublicKey

-----------------------------------------------------------------------------
(* The key schedule. *)

DiffieHellman(mine, other) == {mine, other}

KdfRoot(root, shared) == Append(root, shared)

ChainFrom(root) == [seed |-> root, step |-> 0]

KdfChain(chain) == [chain EXCEPT !.step = @ + 1]

-----------------------------------------------------------------------------
(* Construction, sending. *)

Initiator(ours, their_public) ==
    LET root == KdfRoot(<<>>, DiffieHellman(ours, their_public)) IN
    [root |-> root, ours |-> ours, theirs |-> their_public,
     sending |-> ChainFrom(root), receiving |-> None,
     sent |-> 0, received |-> 0, previous_chain_len |-> 0,
     skipped |-> <<>>, skipped_order |-> <<>>]

Responder(ours) ==
    [root |-> <<>>, ours |-> ours, theirs |-> None,
     sending |-> None, receiving |-> None,
     sent |-> 0, received |-> 0, previous_chain_len |-> 0,
     skipped |-> <<>>, skipped_order |-> <<>>]

CanSend(r) == r.sending # None

CanEncrypt(r) == CanSend(r) /\ r.sent + 1 <= MaxNumber

(* Mutant: a number that starts from one. *)
HeaderFromOne(r) ==
    [dh |-> r.ours, previous_chain_len |-> r.previous_chain_len,
     number |-> r.sent + 1]

HeaderOf(r) ==
    [dh |-> r.ours, previous_chain_len |-> r.previous_chain_len,
     number |-> r.sent]

(* Mutant: the sending chain is not stepped. *)
CountOnly(r) == [r EXCEPT !.sent = @ + 1]

AfterEncrypt(r) ==
    [r EXCEPT !.sending = KdfChain(@), !.sent = @ + 1]

-----------------------------------------------------------------------------
(* Walking a chain up to a number: the slots stepped over, and their keys. *)

WithinSkip(from, until) == until - from <= MaxSkip

StepsTo(from, until) == IF until > from THEN until - from ELSE 0

WalkedSlots(theirs, from, until) ==
    [i \in 1..StepsTo(from, until) |-> <<theirs, from + i - 1>>]

WalkedKeys(chain, theirs, from, until) ==
    [s \in {theirs} \X (from..(until - 1)) |->
        [chain EXCEPT !.step = @ + (s[2] - from)]]

WalkedChain(chain, from, until) ==
    [chain EXCEPT !.step = @ + StepsTo(from, until)]

-----------------------------------------------------------------------------
(* Keeping the keys of a walk: each new slot is pushed, and past the bound *)
(* the oldest goes, so what stays is the newest MaxSkippedKeys.  A walked  *)
(* slot is never already held (RatchetPair!StoresAgree), so the insertion  *)
(* never overwrites.                                                       *)

Newest(order) ==
    SubSeq(order,
           (IF Len(order) > MaxSkippedKeys THEN Len(order) - MaxSkippedKeys
                                           ELSE 0) + 1,
           Len(order))

Held(order) == {order[i] : i \in DOMAIN order}

RememberSkipped(r, slots, keys) ==
    LET order == Newest(r.skipped_order \o slots) IN
    [r EXCEPT !.skipped_order = order,
              !.skipped = [s \in Held(order) |->
                              IF s \in DOMAIN keys THEN keys[s]
                                                   ELSE r.skipped[s]]]

(* Mutant: the slot stays in the order. *)
ForgetKeyOnly(r, slot) ==
    [r EXCEPT !.skipped = [s \in DOMAIN r.skipped \ {slot} |-> r.skipped[s]]]

ForgetSkipped(r, slot) ==
    LET order == r.skipped_order
        at    == CHOOSE i \in DOMAIN order : order[i] = slot
    IN [r EXCEPT !.skipped = [s \in DOMAIN r.skipped \ {slot} |-> r.skipped[s]],
                 !.skipped_order = [i \in 1..(Len(order) - 1) |->
                                       order[IF i < at THEN i ELSE i + 1]]]

-----------------------------------------------------------------------------
(* Receiving: a key kept earlier, the chain in hand, or a turn. *)

SlotOf(header) == <<header.dh, header.number>>

Kept(r, header) == SlotOf(header) \in DOMAIN r.skipped

OnChain(r, header) == ~Kept(r, header) /\ r.theirs = header.dh

NeedsTurn(r, header) == ~Kept(r, header) /\ r.theirs # header.dh

TurnReceiving(r, theirs) == KdfRoot(r.root, DiffieHellman(r.ours, theirs))

(* Mutant: the next header does not say how long the old chain was. *)
TurnKeepingTheLength(r, theirs, fresh) ==
    LET receiving == TurnReceiving(r, theirs)
        sending   == KdfRoot(receiving, DiffieHellman(fresh, theirs))
    IN [r EXCEPT !.sent = 0,
                 !.received = 0,
                 !.theirs = theirs,
                 !.root = sending,
                 !.receiving = ChainFrom(receiving),
                 !.sending = ChainFrom(sending),
                 !.ours = fresh]

CommitTurn(r, theirs, fresh) ==
    LET receiving == TurnReceiving(r, theirs)
        sending   == KdfRoot(receiving, DiffieHellman(fresh, theirs))
    IN [r EXCEPT !.previous_chain_len = r.sent,
                 !.sent = 0,
                 !.received = 0,
                 !.theirs = theirs,
                 !.root = sending,
                 !.receiving = ChainFrom(receiving),
                 !.sending = ChainFrom(sending),
                 !.ours = fresh]

(* The chain the message is looked for on, and where that chain stands. *)
ReadChain(r, header) ==
    IF OnChain(r, header) THEN r.receiving
                          ELSE ChainFrom(TurnReceiving(r, header.dh))

ReadFrom(r, header) == IF OnChain(r, header) THEN r.received ELSE 0

(* The key decrypt tries on the message. *)
TriedKey(r, header) ==
    IF Kept(r, header)
    THEN r.skipped[SlotOf(header)]
    ELSE WalkedChain(ReadChain(r, header), ReadFrom(r, header), header.number)

(* Every early return of decrypt before the message is opened. *)
MayTry(r, header) ==
    \/ Kept(r, header)
    \/ /\ OnChain(r, header) => r.receiving # None
       /\ NeedsTurn(r, header) /\ r.receiving # None
              => WithinSkip(r.received, header.previous_chain_len)
       /\ WithinSkip(ReadFrom(r, header), header.number)
       /\ ReadFrom(r, header) + StepsTo(ReadFrom(r, header), header.number) + 1
              <= MaxNumber

(* decrypt returns the plaintext: the key tried is the key it was sealed   *)
(* with.  Anything else is an error, and leaves the ratchet as it was.     *)
Opens(r, m) == MayTry(r, m.header) /\ TriedKey(r, m.header) = m.key

(* Mutant: a key read from the store is left in it. *)
KeptForever(r, header) == r

AfterKept(r, header) == ForgetSkipped(r, SlotOf(header))

(* Mutant: the chain is left at the key that was used. *)
UnsteppedChain(r, header) ==
    [RememberSkipped(r,
         WalkedSlots(header.dh, r.received, header.number),
         WalkedKeys(r.receiving, header.dh, r.received, header.number))
     EXCEPT !.receiving = WalkedChain(@, r.received, header.number),
            !.received = @ + StepsTo(r.received, header.number) + 1]

AfterOnChain(r, header) ==
    [RememberSkipped(r,
         WalkedSlots(header.dh, r.received, header.number),
         WalkedKeys(r.receiving, header.dh, r.received, header.number))
     EXCEPT !.receiving = KdfChain(WalkedChain(@, r.received, header.number)),
            !.received = @ + StepsTo(r.received, header.number) + 1]

(* Mutant: the rest of the chain a turn leaves behind is not kept. *)
TurnForgettingTheOldChain(r, header, fresh) ==
    LET turned == CommitTurn(r, header.dh, fresh)
        keptNew ==
            RememberSkipped(turned,
                WalkedSlots(header.dh, 0, header.number),
                WalkedKeys(turned.receiving, header.dh, 0, header.number))
    IN [keptNew EXCEPT
            !.receiving = KdfChain(WalkedChain(@, 0, header.number)),
            !.received = header.number + 1]

AfterTurn(r, header, fresh) ==
    LET turned == CommitTurn(r, header.dh, fresh)
        keptOld ==
            IF r.receiving = None THEN turned
            ELSE RememberSkipped(turned,
                     WalkedSlots(r.theirs, r.received, header.previous_chain_len),
                     WalkedKeys(r.receiving, r.theirs, r.received,
                                header.previous_chain_len))
        keptNew ==
            RememberSkipped(keptOld,
                WalkedSlots(header.dh, 0, header.number),
                WalkedKeys(turned.receiving, header.dh, 0, header.number))
    IN [keptNew EXCEPT
            !.receiving = KdfChain(WalkedChain(@, 0, header.number)),
            !.received = header.number + 1]
=============================================================================
