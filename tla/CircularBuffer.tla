---------------------------- MODULE CircularBuffer ----------------------------
(***************************************************************************)
(* The circular buffer and the bitmap of utils: the buffer keeps           *)
(* cumulative values, doubles its size until it has its maximal size, and  *)
(* from then on overwrites its oldest value.                               *)
(***************************************************************************)
EXTENDS Integers

CONSTANT InitialSize    \* 32 in the code

\* the slice has the indices 0..(size - 1)
addToIndex(b, i) == (b.index + i + b.size) % b.size

NewCircularBuffer(maxSize) ==
    [size |-> InitialSize, values |-> [i \in 0..(InitialSize - 1) |-> 0], index |-> 0, max |-> maxSize]

isFull(b) == b.index + 1 = b.size \/ b.values[addToIndex(b, 1)] # 0

grow(b) ==
    LET size == IF 2 * b.size < b.max THEN 2 * b.size ELSE b.max
        zero == b.values[addToIndex(b, 1)]
    IN  [b EXCEPT !.size = size,
                  !.index = b.size - 1,
                  !.values = [i \in 0..(size - 1) |->
                                 IF i < b.size THEN b.values[addToIndex(b, 1 + i)] - zero ELSE 0]]

shrink(b) ==
    [b EXCEPT !.size = b.max,
              !.index = b.max - 1,
              !.values = [i \in 0..(b.max - 1) |-> b.values[addToIndex(b, -(b.max - 1 - i))]]]

Fitted(b) == IF b.size > b.max THEN shrink(b) ELSE b
Grown(b) == IF isFull(b) /\ b.size < b.max THEN grow(b) ELSE b

Add(b, value) ==
    LET ready == Grown(Fitted(b))
        next == addToIndex(ready, 1)
    IN  [ready EXCEPT !.index = next, !.values[next] = ready.values[ready.index] + value]

\* mutant: a window of the size of the buffer is taken to be inside it
Count_OffByOne(b, window) ==
    IF window > b.size
    THEN b.values[b.index] - b.values[addToIndex(b, 1)]
    ELSE b.values[b.index] - b.values[addToIndex(b, -window)]

\* of the last window values; the caller keeps the window below the maximal size
Count(b, window) ==
    IF window >= b.size
    THEN b.values[b.index] - b.values[addToIndex(b, 1)]
    ELSE b.values[b.index] - b.values[addToIndex(b, -window)]

SetMaxSize(b, size) == Fitted([b EXCEPT !.max = size])
=============================================================================
