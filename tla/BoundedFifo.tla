---------- MODULE BoundedFifo ----------
(***************************************************************************)
(* What a ring buffer promises its users: a queue of at most Capacity      *)
(* bytes that takes as much of a chunk as fits and gives bytes back in the *)
(* order in which they came.  The chunk on offer is the users' variable;   *)
(* taken is what the queue answered to the last offer.                     *)
(***************************************************************************)
EXTENDS Integers, Sequences

CONSTANT Capacity

VARIABLES count, items, offer, taken

Lesser(a, b) == IF a <= b THEN a ELSE b

FifoInit == count = 0 /\ items = [i \in 1..0 |-> 0] /\ taken = 0

FifoPut(s) ==
    LET fits == Lesser(Len(s), Capacity - count)
        n    == count + fits
    IN
    /\ taken' = fits
    /\ count' = n
    /\ items' = [i \in 1..n |-> IF i <= count THEN items[i] ELSE s[i - count]]

FifoRemove(k) ==
    /\ count' = count - k
    /\ items' = [i \in 1 .. count - k |-> items[i + k]]
    /\ UNCHANGED taken

FifoNext == FifoPut(offer) \/ \E k \in 0..count : FifoRemove(k)

FifoSpec == FifoInit /\ [][FifoNext]_<<count, items, taken>>
====================
