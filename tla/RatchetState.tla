---------------------------- MODULE RatchetState ----------------------------
(***************************************************************************)
(* A ratchet as the store keeps it: to_state, which lays its fields out in *)
(* a row, and from_state, which reads them back and refuses whatever       *)
(* to_state does not write (session/ratchet.rs).  The unit is the field:   *)
(* what a field holds, and how many bytes it takes.                        *)
(***************************************************************************)
EXTENDS Ratchet

StateVersion == 1
Zeros == 0      \* an absent field's 32 bytes

Field(size, value) == [size |-> size, value |-> value]
Byte(value) == Field(1, value)
Array32(value) == Field(32, value)
U32(value) == Field(4, value)

(* push_optional: a flag, and as many bytes whether it is there or not. *)
Flag(value) == Byte(IF value = None THEN 0 ELSE 1)
Filled(value) == Array32(IF value = None THEN Zeros ELSE value)

(* Version, root, our secret, three optional fields, three counters and    *)
(* how many skipped keys follow.                                           *)
Prefix(r) ==
    <<Byte(StateVersion), Array32(r.root), Array32(r.ours),
      Flag(r.theirs), Filled(r.theirs), Flag(r.sending), Filled(r.sending),
      Flag(r.receiving), Filled(r.receiving),
      U32(r.sent), U32(r.received), U32(r.previous_chain_len),
      U32(Len(r.skipped_order))>>

PrefixFields == 13
EntryFields == 3

(* The slots in the order they are written: that in which they are to go.  *)
(* Mutant: the newest first.                                               *)
NewestFirst(r) ==
    [i \in DOMAIN r.skipped_order |->
        r.skipped_order[Len(r.skipped_order) + 1 - i]]

WrittenOrder(r) == r.skipped_order

Skipped(r) ==
    LET order == WrittenOrder(r)
        slot(i) == order[(i - 1) \div EntryFields + 1]
    IN  [i \in 1..(EntryFields * Len(order)) |->
            CASE i % EntryFields = 1 -> Array32(slot(i)[1])
              [] i % EntryFields = 2 -> U32(slot(i)[2])
              [] OTHER -> Array32(r.skipped[slot(i)])]

ToState(r) == Prefix(r) \o Skipped(r)

-----------------------------------------------------------------------------
(* The reader takes each field at its size, and runs off the end of what   *)
(* is shorter.                                                             *)
Sizes(count) ==
    <<1, 32, 32, 1, 32, 1, 32, 1, 32, 4, 4, 4, 4>>
    \o [i \in 1..(EntryFields * count) |-> IF i % EntryFields = 2 THEN 4 ELSE 32]

OptionalAt(state, i) == IF state[i].value = 0 THEN None ELSE state[i + 1].value
Flags == {4, 6, 8}
CountAt == 13

ExactlyAsLong(state) == Len(state) = PrefixFields + EntryFields * state[CountAt].value

Readable(state) ==
    /\ Len(state) >= PrefixFields
    /\ state[1].value = StateVersion
    /\ \A i \in Flags : state[i].value \in {0, 1}
    /\ state[CountAt].value <= MaxSkippedKeys
    /\ ExactlyAsLong(state)
    /\ LET sizes == Sizes(state[CountAt].value)
       IN  \A i \in DOMAIN sizes : state[i].size = sizes[i]

SlotAt(state, i) ==
    LET at == PrefixFields + EntryFields * (i - 1) + 1
    IN  <<state[at].value, state[at + 1].value>>
KeyAt(state, i) == state[PrefixFields + EntryFields * i].value

(* A slot listed twice has its last key, and its first place. *)
FromState(state) ==
    LET entries == 1..state[CountAt].value
        firsts == {i \in entries : \A j \in 1..(i - 1) : SlotAt(state, j) # SlotAt(state, i)}
        place(i) == Cardinality({j \in firsts : j <= i})
    IN  [root |-> state[2].value, ours |-> state[3].value,
         theirs |-> OptionalAt(state, 4), sending |-> OptionalAt(state, 6),
         receiving |-> OptionalAt(state, 8),
         sent |-> state[10].value, received |-> state[11].value,
         previous_chain_len |-> state[12].value,
         skipped |-> [s \in {SlotAt(state, i) : i \in entries} |->
             KeyAt(state, CHOOSE i \in entries :
                 /\ SlotAt(state, i) = s
                 /\ \A j \in entries : SlotAt(state, j) = s => j <= i)],
         skipped_order |-> [n \in 1..Cardinality(firsts) |->
             SlotAt(state, CHOOSE i \in firsts : place(i) = n)]]

-----------------------------------------------------------------------------
(* A state cut short after any field, or with anything after it. *)
Damaged(state) ==
    {SubSeq(state, 1, n) : n \in 0..(Len(state) - 1)}
    \cup {Append(state, more) : more \in {Byte(0), U32(0), Array32(Zeros)}}

ReadsBack(r) ==
    /\ Readable(ToState(r))
    /\ FromState(ToState(r)) = r
    /\ \A state \in Damaged(ToState(r)) : ~Readable(state)
=============================================================================
