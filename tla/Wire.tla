-------------------------------- MODULE Wire --------------------------------
(***************************************************************************)
(* The bytes of one direction of a pipe (engine/pipe.rs, session/frame.rs, *)
(* and the seal and open of session/table.rs): what one phone writes is    *)
(* framed, sealed, prefixed and framed again, and the other takes it apart *)
(* in whatever chunks the rung makes of it.  The writer's threads, the     *)
(* interface and the pump, seal under one lock and write after it.  The    *)
(* pipe may be lost in the middle of a frame and found again under the     *)
(* same peer id, and either end may not be told of the loss: a LAN rung    *)
(* that replaces a connection says PipeOpened and nothing else.            *)
(*                                                                         *)
(* A byte is a cell: in the clear, or one of the ciphertext that key and   *)
(* nonce make of it.  A length takes one cell for the code's two.  The     *)
(* reader is the side that offers the handshake; the block gates are       *)
(* Blocking's.                                                             *)
(***************************************************************************)
EXTENDS Naturals, Sequences, SequencesExt, FiniteSets

CONSTANTS Writer,           \* the threads of the writing phone
          MaxPayload,       \* the most a pipe frame carries
          MaxFramePayload,  \* the most a session frame carries
          MaxWrites, MaxPipes, MaxRefused

ASSUME BoundsAreNumbers ==
    {MaxPayload, MaxFramePayload, MaxWrites, MaxPipes, MaxRefused} \subseteq Nat

VARIABLES
    pipe,       \* which pipe is up, 0 when none is; they are numbered
    pipes,      \* how many there have been
    air,        \* the bytes written on it and not yet arrived
    offer,      \* the reader's offer on its way to the writer, 0 if none
    out,        \* the writer's session: its key, and the frames sealed under it
    hand,       \* what each thread of the writer has sealed and not written
    reader,     \* readers: the bytes of pipe frames not whole yet
    pending,    \* the offer the reader waits for the reply to, 0 if none
    in,         \* the reader's session: its key, frames opened, bytes not whole
    said,       \* what was sealed, and what the rung took in the clear, in order
    heard,      \* what the reader has handed up, in order
    turn,       \* how many frames were written in turn under the writer's key
    fresh,      \* whether the reader was told of the end of the pipe before
    crossed,    \* whether a frame or a reply missed its turn on this pipe
    hungUp,     \* whether the reader has ended the pipe, or the session on it
    spent       \* the writes, and those the rung refused

link == <<pipe, pipes, air, offer>>
ends == <<reader, pending, in>>
story == <<said, heard, turn, fresh, crossed, hungUp>>
vars == <<link, out, hand, ends, story, spent>>

NoSession == [key |-> 0, nonce |-> 0, inbound |-> <<>>]
NoKey == [key |-> 0, nonce |-> 0]
NothingInHand == [key |-> 0, nonce |-> 0, kind |-> 0, payload |-> <<>>]

----------------------------------------------------------------------------
(* Bytes. *)
Clear(value) == [key |-> 0, nonce |-> 0, of |-> 0, value |-> value]
AsClear(values) == [i \in DOMAIN values |-> Clear(values[i])]
Values(bytes) == [i \in DOMAIN bytes |-> bytes[i].value]
Tag == 99

(* Noise: a plaintext under a key and a nonce, and the tag that vouches for *)
(* every byte of it: no part of it opens without the rest.                  *)
Encrypt(key, nonce, plain) ==
    LET covered == Append(Values(plain), Tag)
    IN  [i \in DOMAIN covered |->
            [key |-> key, nonce |-> nonce, of |-> Len(covered), value |-> covered[i]]]

Decrypts(key, nonce, message) ==
    /\ \A i \in DOMAIN message :
           /\ message[i].key = key /\ message[i].nonce = nonce
           /\ message[i].of = Len(message)
    /\ message[Len(message)].value = Tag

Decrypt(message) == AsClear(Values(Front(message)))

(* A length read off a ciphertext is any number at all, `wild'; the reader *)
(* comes to that only behind half a frame of a pipe it was not told of.     *)
Length(cell, wild) == IF cell.key = 0 THEN cell.value ELSE wild

----------------------------------------------------------------------------
(* pipe.rs: a channel, a length and the payload. *)
Discovery == 0
Session == 1
Unheard == 2        \* the channel of a build newer than the reader's

PipeHeader == 2

Encodable(payload) == Len(payload) \in 1..MaxPayload
EncodePipe(channel, payload) ==
    <<Clear(channel), Clear(Len(payload))>> \o payload

(* The payload's length, which a zero makes an error and never a frame. *)
PipeBroken(bytes, wild) == Len(bytes) >= PipeHeader /\ Length(bytes[2], wild) = 0
PipeWhole(bytes, wild) ==
    /\ Len(bytes) >= PipeHeader /\ ~PipeBroken(bytes, wild)
    /\ Len(bytes) >= PipeHeader + Length(bytes[2], wild)
PipeFrame(bytes, wild) ==
    [channel |-> bytes[1].value,
     payload |-> SubSeq(bytes, PipeHeader + 1, PipeHeader + Length(bytes[2], wild))]
PipeRest(bytes, wild) ==
    SubSeq(bytes, PipeHeader + Length(bytes[2], wild) + 1, Len(bytes))

(* Every frame that is whole, what is left over, and whether that is broken. *)
RECURSIVE TakeFrames(_, _)
TakeFrames(bytes, wild) ==
    IF ~PipeWhole(bytes, wild)
    THEN [frames |-> <<>>, rest |-> bytes, broken |-> PipeBroken(bytes, wild)]
    ELSE LET later == TakeFrames(PipeRest(bytes, wild), wild)
         IN  [later EXCEPT !.frames = <<PipeFrame(bytes, wild)>> \o @]

----------------------------------------------------------------------------
(* frame.rs: a kind, a length and the payload, in one Noise message; and the *)
(* length that goes ahead of the message, sealed.                            *)
Chat == 2
Novel == 9          \* the kind of a build newer than the reader's
FrameHeader == 2

EncodeFrame(kind, payload) == AsClear(<<kind, Len(payload)>> \o payload)

TooLarge(payload) == Len(payload) > MaxFramePayload
WellFormed(plain) ==
    /\ Len(plain) >= FrameHeader
    /\ plain[2].value <= MaxFramePayload
    /\ Len(plain) = FrameHeader + plain[2].value
KindIsKnown(plain) == plain[1].value = Chat
FramePayload(plain) == Values(SubSeq(plain, FrameHeader + 1, Len(plain)))

Prefix(message) == <<Clear(Len(message))>> \o message
MessageBroken(bytes, wild) == bytes # <<>> /\ Length(bytes[1], wild) = 0
MessageWhole(bytes, wild) ==
    /\ bytes # <<>> /\ ~MessageBroken(bytes, wild)
    /\ Len(bytes) >= 1 + Length(bytes[1], wild)
Message(bytes, wild) == SubSeq(bytes, 2, 1 + Length(bytes[1], wild))
MessageRest(bytes, wild) == SubSeq(bytes, 2 + Length(bytes[1], wild), Len(bytes))

----------------------------------------------------------------------------
(* What was said and heard: on a channel, under a session's key or in the    *)
(* clear of a pipe.                                                          *)
Words(channel, on, payload) == [channel |-> channel, on |-> on, payload |-> payload]

(* The reader: what it makes of one more frame.  It is a record of its       *)
(* session, the reply it waits for, what it has handed up and whether the    *)
(* session was ended.                                                        *)
Reading(wild) == [session |-> in, pending |-> pending, heard |-> heard,
                  ended |-> FALSE, wild |-> wild]

Ended(reading) == [reading EXCEPT !.session = NoSession, !.ended = TRUE]

(* open_frames: every whole message, in turn; one that does not open, or     *)
(* opens into no frame, is the end of the session.                           *)
HandOne(reading, plain) ==
    [reading EXCEPT !.heard =
        Append(@, Words(Session, reading.session.key, FramePayload(plain)))]

(* Mutant: a frame of a kind this build has not heard of ends it too. *)
NovelIsFatal(reading, plain) ==
    IF KindIsKnown(plain) THEN HandOne(reading, plain) ELSE Ended(reading)

HandUp(reading, plain) ==
    IF KindIsKnown(plain) THEN HandOne(reading, plain) ELSE reading

Opened(reading) ==
    [reading EXCEPT !.session.nonce = @ + 1,
                    !.session.inbound = MessageRest(@, reading.wild)]

RECURSIVE OpenFrames(_)
OpenFrames(reading) ==
    LET s == reading.session
        message == Message(s.inbound, reading.wild)
        plain == Decrypt(message)
    IN  CASE MessageBroken(s.inbound, reading.wild) -> Ended(reading)
          [] /\ ~MessageBroken(s.inbound, reading.wild)
             /\ ~MessageWhole(s.inbound, reading.wild) -> reading
          [] OTHER ->
                IF Decrypts(s.key, s.nonce, message) /\ WellFormed(plain)
                THEN LET next == HandUp(Opened(reading), plain)
                     IN  IF next.ended THEN next ELSE OpenFrames(next)
                ELSE Ended(reading)

(* The answer to the reader's offer, under which it opens the session. *)
ReplyByte == 77
Reply(key) == <<[key |-> key, nonce |-> 0, of |-> 1, value |-> ReplyByte]>>

(* on_session: an open session has the bytes, and frames opened beside one  *)
(* that does not open are not handed up; else the handshake in hand; with   *)
(* neither they are an offer that does not parse.                           *)
OnSession(reading, bytes) ==
    CASE reading.session.key # 0 ->
            LET after == OpenFrames([reading EXCEPT !.session.inbound = @ \o bytes])
            IN  IF after.ended THEN Ended(reading) ELSE after
      [] reading.session.key = 0 /\ reading.pending # 0 ->
            IF bytes = Reply(reading.pending)
            THEN [reading EXCEPT !.pending = 0,
                                 !.session = [NoSession EXCEPT !.key = reading.pending]]
            ELSE [reading EXCEPT !.pending = 0, !.ended = TRUE]
      [] OTHER -> reading

(* on_stream: by channel, and a channel nobody knows is nobody's. *)
OnFrame(reading, frame) ==
    CASE frame.channel = Discovery ->
            [reading EXCEPT !.heard =
                Append(@, Words(Discovery, pipe, Values(frame.payload)))]
      [] frame.channel = Session -> OnSession(reading, frame.payload)
      [] OTHER -> reading

----------------------------------------------------------------------------
(* The pipe.  One comes up, and goes; or one takes the place of another, of  *)
(* which either end may hear no more than that it is open.                   *)

(* on_pipe_opened of the reader: a session or a handshake in hand, and it    *)
(* does nothing; else it makes an offer.                                     *)
Offers(session, waiting, number) ==
    IF session.key # 0 \/ waiting # 0
    THEN pending' = waiting /\ offer' = 0
    ELSE pending' = number /\ offer' = number

(* on_pipe_gone: the session, the handshake and what was half read go. *)

(* Mutant: what was half read is kept for when the peer is back. *)
KeepHalf(half) == half

Forgotten(half) == <<>>

ReaderForgets == reader' = Forgotten(reader) /\ in' = NoSession
WriterForgets == out' = NoKey /\ turn' = 0

Connect ==
    /\ pipe = 0 /\ pipes < MaxPipes
    /\ pipes' = pipes + 1 /\ pipe' = pipes' /\ air' = <<>>
    /\ Offers(in, pending, pipes')
    /\ fresh' = TRUE /\ crossed' = FALSE /\ hungUp' = FALSE
    /\ UNCHANGED <<out, hand, reader, in, said, heard, turn, spent>>

(* adopt (lan.rs): the newcomer takes the place of a connection; an end that *)
(* still had the old one on its table tells its sink nothing of its end.     *)
Replace ==
    /\ pipe # 0 /\ pipes < MaxPipes
    /\ pipes' = pipes + 1 /\ pipe' = pipes' /\ air' = <<>>
    /\ \/ ReaderForgets /\ fresh' = TRUE /\ Offers(NoSession, 0, pipes')
       \/ UNCHANGED <<reader, in>> /\ fresh' = FALSE /\ Offers(in, pending, pipes')
    /\ WriterForgets \/ UNCHANGED <<out, turn>>
    /\ crossed' = FALSE /\ hungUp' = FALSE
    /\ UNCHANGED <<hand, said, heard, spent>>

Sever ==
    /\ pipe # 0
    /\ pipe' = 0 /\ air' = <<>> /\ offer' = 0 /\ pending' = 0
    /\ ReaderForgets /\ WriterForgets
    /\ UNCHANGED <<pipes, hand, said, heard, fresh, crossed, hungUp, spent>>

----------------------------------------------------------------------------
(* The rung takes a write whole or not at all.  A full pipe refuses, and    *)
(* stays.                                                                   *)
Accepted(channel, payload) ==
    /\ Encodable(payload)
    /\ air' = air \o EncodePipe(channel, payload)

WouldBlock ==
    /\ spent.refused < MaxRefused
    /\ spent' = [spent EXCEPT !.refused = @ + 1]
    /\ UNCHANGED air

(* The writer has the offer: it replies, and its session is open.  With one *)
(* open it has the bytes, which end it or fall short of a message.          *)
Answer ==
    /\ pipe # 0 /\ offer # 0 /\ offer' = 0
    /\ \/ /\ out.key = 0
          /\ out' = [key |-> offer, nonce |-> 0] /\ turn' = 0
          /\ \/ Accepted(Session, Reply(offer)) /\ UNCHANGED <<crossed, spent>>
             \/ WouldBlock /\ crossed' = TRUE
       \/ /\ out.key # 0
          /\ WriterForgets \/ UNCHANGED <<out, turn>>
          /\ UNCHANGED <<air, crossed, spent>>
    /\ UNCHANGED <<pipe, pipes, hand, ends, said, heard, fresh, hungUp>>

CountWrite == spent' = [spent EXCEPT !.writes = @ + 1]
Payloads(sizes) == {[i \in 1..n |-> spent.writes + 1] : n \in sizes}

\* What there is to send: a message, or whatever a newer build has no words for.
ToSend == [kind : {Chat}, payload : Payloads(1..MaxFramePayload + 1)]
              \union [kind : {Novel}, payload : Payloads({0})]

(* A persona, or whatever a newer build has a channel for. *)
WriteClear ==
    /\ pipe # 0 /\ spent.writes < MaxWrites
    /\ \E channel \in {Discovery, Unheard}, payload \in Payloads({0, 1}) :
        \/ /\ Accepted(channel, AsClear(payload))
           /\ said' = IF channel = Discovery
                      THEN Append(said, Words(Discovery, pipe, payload)) ELSE said
        \/ ~Encodable(AsClear(payload)) /\ UNCHANGED <<air, said>>
    /\ CountWrite
    /\ UNCHANGED <<pipe, pipes, offer, out, hand, ends, heard, turn, fresh, crossed,
                   hungUp>>

(* send_frame, under the table's lock.  A payload too large is refused      *)
(* before anything is sealed.                                               *)
SealFrame(w) ==
    /\ out.key # 0 /\ hand[w] = NothingInHand /\ spent.writes < MaxWrites
    /\ CountWrite
    /\ \E frame \in ToSend :
        IF TooLarge(frame.payload) THEN UNCHANGED <<out, hand, said>>
        ELSE /\ out' = [out EXCEPT !.nonce = @ + 1]
             /\ hand' = [hand EXCEPT ![w] = [key |-> out.key, nonce |-> out.nonce,
                             kind |-> frame.kind, payload |-> frame.payload]]
             /\ said' = IF frame.kind = Chat
                        THEN Append(said, Words(Session, out.key, frame.payload))
                        ELSE said
    /\ UNCHANGED <<link, ends, heard, turn, fresh, crossed, hungUp>>

InTurn(frame) == frame.key = pipe /\ frame.key = out.key /\ frame.nonce = turn

(* send_frame, after it: onto whatever pipe there is by then. *)
WriteFrame(w) ==
    /\ hand[w] # NothingInHand
    /\ hand' = [hand EXCEPT ![w] = NothingInHand]
    /\ LET f == hand[w]
           sealed == Prefix(Encrypt(f.key, f.nonce, EncodeFrame(f.kind, f.payload)))
       IN  \/ /\ pipe # 0 /\ Accepted(Session, sealed)
              /\ turn' = (IF InTurn(f) THEN turn + 1 ELSE turn)
              /\ crossed' = (crossed \/ ~InTurn(f))
              /\ UNCHANGED spent
           \/ pipe # 0 /\ WouldBlock /\ UNCHANGED <<turn, crossed>>
           \/ pipe = 0 /\ UNCHANGED <<air, turn, crossed, spent>>
    /\ UNCHANGED <<pipe, pipes, offer, out, ends, said, heard, fresh, hungUp>>

----------------------------------------------------------------------------
(* Some of the bytes arrive, and everything that is whole is handled; a     *)
(* stream that cannot be read is the end of the pipe.                       *)
Receive ==
    /\ pipe # 0
    /\ \E n \in 1..Len(air), wild \in IF fresh THEN {0} ELSE {0, 1, MaxPayload} :
        LET taken == TakeFrames(reader \o SubSeq(air, 1, n), wild)
            reading == FoldLeft(OnFrame, Reading(wild), taken.frames)
        IN  IF taken.broken
            THEN /\ pipe' = 0 /\ air' = <<>> /\ offer' = 0
                 /\ reader' = <<>> /\ pending' = 0 /\ in' = NoSession
                 /\ WriterForgets
                 /\ hungUp' = TRUE
                 /\ UNCHANGED heard
            ELSE /\ air' = SubSeq(air, n + 1, Len(air))
                 /\ reader' = taken.rest
                 /\ pending' = reading.pending
                 /\ in' = reading.session
                 /\ heard' = reading.heard
                 /\ hungUp' = (hungUp \/ reading.ended)
                 /\ UNCHANGED <<pipe, offer, out, turn>>
    /\ UNCHANGED <<pipes, hand, said, fresh, crossed, spent>>

----------------------------------------------------------------------------
Init ==
    /\ pipe = 0 /\ pipes = 0 /\ air = <<>> /\ offer = 0
    /\ out = NoKey /\ hand = [w \in Writer |-> NothingInHand]
    /\ reader = <<>> /\ pending = 0 /\ in = NoSession
    /\ said = <<>> /\ heard = <<>> /\ turn = 0
    /\ fresh = TRUE /\ crossed = FALSE /\ hungUp = FALSE
    /\ spent = [writes |-> 0, refused |-> 0]

Next ==
    \/ Connect \/ Replace \/ Sever
    \/ Answer \/ WriteClear \/ Receive
    \/ \E w \in Writer : SealFrame(w) \/ WriteFrame(w)

Spec == Init /\ [][Next]_vars

----------------------------------------------------------------------------
(* Properties *)

On(channel, number, words) ==
    SelectSeq(words, LAMBDA m : m.channel = channel /\ m.on = number)

(* What a session hands up is what was sealed under its key and in that      *)
(* order, none altered, left out or twice: however the stream is cut up,     *)
(* whichever thread writes first, whatever the rung refuses, and behind half *)
(* a frame of a connection replaced in silence.                              *)
HeardAsSealed ==
    \A key \in 1..pipes :
        IsPrefix(On(Session, key, heard), On(Session, key, said))

(* The bytes in the clear have only the pipe to vouch for them: they are as  *)
(* they were written where the reader was told of the end of the last one.   *)
ClearAsWritten ==
    fresh => IsPrefix(On(Discovery, pipe, heard), On(Discovery, pipe, said))

(* Nothing whole waits there for more to arrive behind it: once every byte   *)
(* is in, none is held, and what was written in turn has been handed up (the *)
(* loops of on_stream and open_frames).                                      *)
NothingHeldBack ==
    pipe # 0 /\ fresh /\ air = <<>> =>
        /\ reader = <<>> /\ in.inbound = <<>>
        /\ ~hungUp =>
               /\ On(Discovery, pipe, heard) = On(Discovery, pipe, said)
               /\ in.key = out.key /\ turn = out.nonce =>
                      On(Session, in.key, heard) = On(Session, in.key, said)

(* What is written is heard, as it was written and as soon as it is in. *)
WrittenIsHeard == HeardAsSealed /\ ClearAsWritten /\ NothingHeldBack

(* A peer ends neither the pipe nor the session by what it writes in good    *)
(* faith, on a newer build or too much at once, whatever the chunks: only by *)
(* a reply the rung refused, by a frame out of turn - of two threads, or     *)
(* behind one refused, or kept in hand from an earlier pipe - or behind a    *)
(* connection replaced in silence (frame.rs UnknownKind, table.rs seal,      *)
(* net.rs on_stream and send_frame).                                         *)
GoodFaithIsEnough == hungUp => crossed \/ ~fresh

(* Violated.  A full pipe asks for the write to be made again later, the     *)
(* session still there to make it in (transport/mod.rs WouldBlock).          *)
RefusedIsRetried == ~hungUp
=============================================================================
