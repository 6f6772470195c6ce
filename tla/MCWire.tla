------------------------------- MODULE MCWire -------------------------------
(* Wire for TLC, and beside it the other thing that one phone writes and    *)
(* another reads, the code on a screen.  They share nothing: a behaviour is *)
(* one of the pipe, or one of a camera.                                     *)
EXTENDS Wire, Invite

VARIABLES shown,    \* the invite on the screen, in a set; none if there is no screen
          text      \* what the camera has read of it

\* A character of one byte, and one of two.
Letters == {<<97>>, <<195, 169>>}

WireInit == Init /\ shown = {} /\ text = {}
WireStep == shown = {} /\ Next /\ UNCHANGED <<shown, text>>

CodeInit == Init /\ text = {} /\ \E invite \in Invites : shown = {invite}
ReadCode ==
    /\ text = {} /\ \E invite \in shown : \E uri \in Readings(ToUri(invite)) : text' = {uri}
    /\ UNCHANGED <<vars, shown>>

MCInit == WireInit \/ CodeInit
MCNext == WireStep \/ ReadCode
MCSpec == MCInit /\ [][MCNext]_<<vars, shown, text>>

(* A code this phone shows is read as the invite it was made from, however  *)
(* long the id it advertises under; cut short anywhere it is refused, and   *)
(* never taken for a shorter one; and a text that is read is the only       *)
(* spelling of its bytes, which go on to be the prologue of a handshake     *)
(* (invite.rs, to_uri, parse, base32_decode).                               *)
CodesReadBack == \A invite \in shown, uri \in text : ReadsBack(invite, uri)
=============================================================================
