------------------------------ MODULE ByteQueue ------------------------------
(***************************************************************************)
(* What a c_FIFO (COMMON/c_FIFO.h) promises its users: a bounded queue of   *)
(* elements.  A Write appends a whole block, a Read takes a whole block     *)
(* from the front, Flush empties the queue.  Each of them is one step.      *)
(*                                                                          *)
(* The elements written are numbered modulo Modulus.  A queue that never    *)
(* holds Modulus elements delivers the numbers in order exactly when it     *)
(* loses, repeats and reorders nothing.                                     *)
(***************************************************************************)
EXTENDS Naturals, Sequences

CONSTANTS
  Length,    \* the greatest number of elements the queue holds
  Chunks,    \* the block lengths the users ask for
  Modulus    \* the elements are numbered 0 .. Modulus-1

VARIABLES
  queue,     \* the elements written and not yet read
  next,      \* the number of the next element to be written
  delivered  \* the block the last Read returned

\* The number n positions after p in a cycle of m numbers (n <= m).
Forward(p, n, m) == IF p + n < m THEN p + n ELSE p + n - m

\* n consecutive elements, the first of which is v.
Block(v, n) == [i \in 1 .. n |-> Forward(v, i - 1, Modulus)]

Init == /\ queue = << >>
        /\ next = 0
        /\ delivered = << >>

Put(n) == /\ Len(queue) + n <= Length
          /\ queue' = queue \o Block(next, n)
          /\ next' = Forward(next, n, Modulus)
          /\ UNCHANGED delivered

Take(n) == /\ n <= Len(queue)
           /\ delivered' = SubSeq(queue, 1, n)
           /\ queue' = SubSeq(queue, n + 1, Len(queue))
           /\ UNCHANGED next

Clear == /\ queue' = << >>
         /\ UNCHANGED <<next, delivered>>

Next == \/ \E n \in Chunks : Put(n) \/ Take(n)
        \/ Clear

Spec == Init /\ [][Next]_<<queue, next, delivered>>
==============================================================================
