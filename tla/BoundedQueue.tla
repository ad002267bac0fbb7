---------------------------- MODULE BoundedQueue ----------------------------
(***************************************************************************)
(* What a pending queue promises a scheduler: it holds at most so many     *)
(* items, gives each of them out once, and in the order of the puts.       *)
(***************************************************************************)
EXTENDS Naturals, Sequences

CONSTANTS Items, Capacity

VARIABLES
    contents,         (* the items in the queue, oldest first                *)
    taken             (* the items given out                                 *)

Put(x) ==
    /\ Len(contents) < Capacity
    /\ contents' = Append(contents, x)
    /\ UNCHANGED taken

Take ==
    /\ contents # <<>>
    /\ Head(contents) \notin taken
    /\ taken' = taken \cup {Head(contents)}
    /\ contents' = Tail(contents)

Init == contents = <<>> /\ taken = {}

Next == Take \/ \E x \in Items : Put(x)

Spec == Init /\ [][Next]_<<contents, taken>>
=============================================================================
