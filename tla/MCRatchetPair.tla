---------------------------- MODULE MCRatchetPair ----------------------------
(* RatchetPair for TLC: None is a model value, the limits are small enough  *)
(* to be met within a few messages.  What the store would keep of each      *)
(* ratchet is read back in every state.                                     *)
EXTENDS RatchetPair, RatchetState

(* Whatever a conversation has come to, the state that would be stored of   *)
(* each side loads as the ratchet it was, the next key to be evicted        *)
(* included; and one cut short or added to does not load (ratchet.rs        *)
(* to_state, from_state).                                                   *)
StoredReadsBack == \A p \in Party : ReadsBack(ratchet[p])
=============================================================================
