-------------------------------- MODULE Slices --------------------------------
(***************************************************************************)
(* Go slices over a heap of backing arrays, as far as this repository uses *)
(* them: append, which writes into the spare slots of the backing array    *)
(* whoever else looks at it, and append(s[:i], s[i+1:]...), which shifts   *)
(* the array in place.                                                     *)
(*                                                                         *)
(* A heap is a sequence of arrays, an array a sequence of slots (as long   *)
(* as its capacity), a slice the address of its array and a length: every  *)
(* slice modelled here starts at the first slot of its array.              *)
(***************************************************************************)
EXTENDS Integers, Sequences

Contents(heap, s) == SubSeq(heap[s.at], 1, s.len)
Capacity(heap, s) == Len(heap[s.at])

\* Mutant: in place, the slice grows and the slots behind it stay as they were.
AppendBlank(heap, s, vals, spare) ==
  LET n == s.len + Len(vals) IN
  IF n <= Capacity(heap, s)
  THEN [heap |-> heap, slice |-> [at |-> s.at, len |-> n]]
  ELSE [heap  |-> Append(heap, Contents(heap, s) \o vals \o spare),
        slice |-> [at |-> Len(heap) + 1, len |-> n]]

\* append(s, vals...): in place when the capacity suffices, or else in a new
\* array with the given spare slots.
AppendTo(heap, s, vals, spare) ==
  LET n == s.len + Len(vals) IN
  IF n <= Capacity(heap, s)
  THEN [heap  |-> [heap EXCEPT ![s.at] =
                     [i \in DOMAIN @ |-> IF s.len < i /\ i <= n THEN vals[i - s.len] ELSE @[i]]],
        slice |-> [at |-> s.at, len |-> n]]
  ELSE [heap  |-> Append(heap, Contents(heap, s) \o vals \o spare),
        slice |-> [at |-> Len(heap) + 1, len |-> n]]

\* append(s[:i], s[i+1:]...): the slots behind i move up, the last one keeps
\* its value.
DeleteAt(heap, s, i) ==
  [heap  |-> [heap EXCEPT ![s.at] =
                [j \in DOMAIN @ |-> IF i <= j /\ j < s.len THEN @[j + 1] ELSE @[j]]],
   slice |-> [at |-> s.at, len |-> s.len - 1]]
=============================================================================
