------------------------------- MODULE Invite -------------------------------
(***************************************************************************)
(* The code a pairing starts from (pairing/invite.rs): how an invite is    *)
(* written into a QR code and what is made of whatever a camera reads.     *)
(*                                                                         *)
(* A base32 digit is its value, upper and lower case being one digit to    *)
(* the decoder; Foreign is any other character.  The protobuf in between   *)
(* is a library's: what it writes it reads, and it reads nothing else.     *)
(***************************************************************************)
EXTENDS Integers, Sequences, SequencesExt, FiniteSetsExt

CONSTANTS KeyLen, NonceLen, \* the lengths of a Layer-2 key and of a nonce
          MaxHint,          \* the most bytes of a hint a reader takes
          MaxUri,           \* the most characters a reader looks at
          Byte,             \* the bytes that keys and nonces are made of
          Letter            \* the characters of a hint, each the bytes of it

ASSUME LengthsAreNumbers == {KeyLen, NonceLen, MaxHint, MaxUri} \subseteq Nat

InviteVersion == 1
PrefixLen == 15             \* HOPPLER://PAIR/
Foreign == 32

Fields(lengths, elements) == UNION {[1..n -> elements] : n \in lengths}

----------------------------------------------------------------------------
(* base32.  The buffer is 16 bits wide and is never emptied: the bits used  *)
(* are shifted up and out of it.                                            *)
Shifted(buffer, width, value) == (buffer * 2^width + value) % 2^16
Group(buffer, shift, width) == (buffer \div 2^shift) % 2^width

Empty == [buffer |-> 0, bits |-> 0, out |-> <<>>]

\* One more value of `from` bits, and every whole group of `to` bits it ends.
Taken(st, value, from, to) ==
    LET buffer == Shifted(st.buffer, from, value)
        bits   == st.bits + from
        groups == bits \div to
    IN [buffer |-> buffer, bits |-> bits - groups * to,
        out |-> st.out \o [i \in 1..groups |-> Group(buffer, bits - i * to, to)]]

\* A trailing partial group is left-aligned and zero-filled.
Base32Encode(bytes) ==
    LET st == FoldLeft(LAMBDA s, byte : Taken(s, byte, 8, 5), Empty, bytes)
    IN IF st.bits = 0 THEN st.out
       ELSE Append(st.out, (st.buffer * 2^(5 - st.bits)) % 32)

(* Mutant: the bits that fall off the end may be anything. *)
AnyTail(st) == st.bits < 5

\* No character to spare, and nothing in the bits that fall off the end.
NothingLeft(st) == st.bits < 5 /\ st.buffer % 2^st.bits = 0

\* The bytes a text spells, in a set: none if it spells none.
Base32Decode(text) ==
    IF Foreign \in {text[i] : i \in DOMAIN text} THEN {}
    ELSE LET st == FoldLeft(LAMBDA s, digit : Taken(s, digit, 5, 8), Empty, text)
         IN IF NothingLeft(st) THEN {st.out} ELSE {}

----------------------------------------------------------------------------
(* PairingInvite, the protobuf message; a field left empty is not written. *)
Payload ==
    [l2    : Fields(0..KeyLen, Byte),
     hint  : Fields(0..(MaxHint + 1), Letter),
     nonce : Fields(0..(NonceLen + 1), Byte)]

Field(tag, bytes) == IF bytes = <<>> THEN <<>> ELSE <<tag, Len(bytes)>> \o bytes
Encoded(payload) ==
    Field(10, payload.l2) \o Field(18, FlattenSeq(payload.hint))
                          \o Field(26, payload.nonce)
Decoded(bytes) == {payload \in Payload : Encoded(payload) = bytes}

----------------------------------------------------------------------------
HintLen(hint) == Len(FlattenSeq(hint))

\* truncate_hint: whole characters, as many as a reader takes.
TruncateHint(hint) ==
    LET fits == {n \in 0..Len(hint) : HintLen(SubSeq(hint, 1, n)) <= MaxHint}
    IN SubSeq(hint, 1, Max(fits))

FromParts(l2, hint, nonce) == [l2 |-> l2, hint |-> TruncateHint(hint), nonce |-> nonce]

\* to_uri.  A text is ours if it begins with our prefix.
ToUri(invite) ==
    [ours |-> TRUE, body |-> Base32Encode(<<InviteVersion>> \o Encoded(invite))]

Refused(why) == [error |-> why, invite |-> {}]

HasItsLengths(payload) ==
    /\ HintLen(payload.hint) <= MaxHint
    /\ Len(payload.l2) = KeyLen /\ Len(payload.nonce) = NonceLen

\* Invite::parse: length, then prefix, then version, then content.
ParseUri(uri) ==
    LET bytes    == Base32Decode(uri.body)
        versions == {b[1] : b \in bytes \ {<<>>}}
        payloads == UNION {Decoded(Tail(b)) : b \in bytes \ {<<>>}}
    IN CASE PrefixLen + Len(uri.body) > MaxUri -> Refused("TooLong")
         [] ~uri.ours                          -> Refused("NotAnInvite")
         [] versions = {}                      -> Refused("Malformed")
         [] versions # {InviteVersion}               -> Refused("UnsupportedVersion")
         [] \E p \in payloads : HasItsLengths(p)  -> [error |-> "", invite |-> payloads]
         [] OTHER                              -> Refused("Malformed")

----------------------------------------------------------------------------
(* What a phone may show, and what a camera may make of the code: the code  *)
(* itself, one cut short, or one with a character misread.                  *)
Invites ==
    {FromParts(l2, hint, nonce) : l2 \in [1..KeyLen -> Byte],
        hint \in Fields(0..(MaxHint + 1), Letter), nonce \in [1..NonceLen -> Byte]}

Cut(uri) == {[uri EXCEPT !.body = SubSeq(@, 1, n)] : n \in 0..(Len(uri.body) - 1)}

Misread(uri) ==
    {[uri EXCEPT !.body[i] = digit] : i \in DOMAIN uri.body, digit \in {0, 1, 31, Foreign}}

Readings(uri) == {uri} \union Cut(uri) \union Misread(uri)

\* What the code of an invite, and whatever was read of it, come to.
ReadsBack(invite, uri) ==
    /\ uri = ToUri(invite) => ParseUri(uri) = [error |-> "", invite |-> {invite}]
    /\ uri \in Cut(ToUri(invite)) => ParseUri(uri).error # ""
    /\ \A bytes \in Base32Decode(uri.body) : Base32Encode(bytes) = uri.body
=============================================================================
