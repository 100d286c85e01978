-------------------------------- MODULE CFifo --------------------------------
(***************************************************************************)
(* c_FIFO (COMMON/c_FIFO.h): a ring buffer that threads share without any   *)
(* lock of the operating system.  Three bools are meant as locks; taking    *)
(* one is a test in a loop followed by an assignment, two steps that other  *)
(* threads can come between.  A thread is a program counter over the loops, *)
(* evaluations, copies and stores of the member function it is in.  As the  *)
(* comment of line 21 asks, accesses are atomic (and sequentially           *)
(* consistent); an expression over both pointers is one step, which is      *)
(* exact as long as other threads move at most one of them.                 *)
(***************************************************************************)
EXTENDS Integers, Sequences, FiniteSets

CONSTANTS
  Writers, Readers, Flushers, \* the threads that call Write, Read, Flush (may overlap)
  Length,         \* the argument of the constructor
  Chunks,         \* the values of DataLength
  Modulus,        \* elements are numbered modulo this, see ByteQueue
  UIntRange,      \* the number of values of an unsigned int
  ElemSize,       \* sizeof(NT)
  ReloadCounters, \* TRUE: the build loads the pointers anew in every expression
  MayTerminate,   \* TRUE: somebody calls TerminateWait and EnableWaitBack
  None            \* the content of a slot that holds no whole element

ASSUME ConstantsAssumption ==
  /\ Length \in Nat \ {0}
  /\ Chunks \subseteq Nat \ {0}
  /\ Modulus \in Nat /\ Modulus > Length + 1 /\ \A n \in Chunks : Modulus > n
  /\ UIntRange \in Nat /\ UIntRange > 2 * (Length + 1)
  /\ ElemSize \in Nat \ {0}
  /\ ReloadCounters \in BOOLEAN /\ MayTerminate \in BOOLEAN
  /\ None \notin 0 .. Modulus - 1

Threads == Writers \cup Readers \cup Flushers
m_Size == Length + 1

VARIABLES
  m_Array, WritePointer, ReadPointer,
  PossibleUseCounters, PossibleRead, PossibleWrite, ThisTerminating,
  pc,        \* where each thread is
  op,        \* the member function it is in
  len,       \* its argument DataLength
  avail,     \* what GetCounter or GetCounterFree returned to it
  base,      \* the pointer it copies from or to
  copied,    \* how many elements its memcpy has dealt with
  buffer,    \* its array Data, when it reads
  next,      \* the number of the next element written
  delivered  \* the Data of the last Read that returned

ring == <<m_Array, WritePointer, ReadPointer>>
flags == <<PossibleUseCounters, PossibleRead, PossibleWrite>>
call == <<op, len>>
copy == <<base, copied, buffer>>
stream == <<next, delivered>>
vars == <<ring, flags, ThisTerminating, pc, call, avail, copy, stream>>

\* The position n after p in a ring of m; the sum stays below 2*m.
Forward(p, n, m) == IF p + n < m THEN p + n ELSE p + n - m
\* Subtraction of unsigned ints.
Minus(a, b) == IF b <= a THEN a - b ELSE a - b + UIntRange
\* The number of elements between two positions of the ring.
Distance(r, w) == IF r <= w THEN w - r ELSE (m_Size - r) + w
Count == Distance(ReadPointer, WritePointer)
Contents == [i \in 1 .. Count |-> m_Array[Forward(ReadPointer, i - 1, m_Size)]]

Init ==
  /\ m_Array = [s \in 0 .. m_Size - 1 |-> None]
  /\ WritePointer = 0 /\ ReadPointer = 0
  /\ PossibleUseCounters = TRUE /\ PossibleRead = TRUE /\ PossibleWrite = TRUE
  /\ ThisTerminating = FALSE
  /\ pc = [t \in Threads |-> "idle"] /\ op = [t \in Threads |-> "none"]
  /\ len = [t \in Threads |-> 0] /\ avail = [t \in Threads |-> 0]
  /\ base = [t \in Threads |-> 0] /\ copied = [t \in Threads |-> 0]
  /\ buffer = [t \in Threads |-> << >>]
  /\ next = 0 /\ delivered = << >>

Move(t, from, to) == pc[t] = from /\ pc' = [pc EXCEPT ![t] = to]

------------------------------------------------------------------------------
\* Write, Read, Flush, TerminateWait and EnableWaitBack are called.

Begin(t, f, n, at) ==
  /\ Move(t, "idle", at)
  /\ op' = [op EXCEPT ![t] = f]
  /\ len' = [len EXCEPT ![t] = n]
  /\ UNCHANGED <<ring, flags, ThisTerminating, avail, copy, stream>>

StartWrite(t, n) == t \in Writers /\ Begin(t, "Write", n, "free")
StartRead(t, n) == t \in Readers /\ Begin(t, "Read", n, "count")
StartFlush(t) == t \in Flushers /\ Begin(t, "Flush", 0, "flush_counters")

TerminateWait ==
  /\ MayTerminate /\ ThisTerminating' = TRUE
  /\ UNCHANGED <<ring, flags, pc, call, avail, copy, stream>>

EnableWaitBack ==
  /\ MayTerminate /\ ThisTerminating' = FALSE
  /\ UNCHANGED <<ring, flags, pc, call, avail, copy, stream>>

------------------------------------------------------------------------------
\* GetCounterFree and GetCounter: the condition of the first loop of Write and of Read.

\* Mutant of Result: the slot that stays free is counted as free space.
ResultWholeArray(t, c) == IF op[t] = "Write" THEN Minus(m_Size, c) ELSE c
\* Mutant of Result: two slots stay free.
ResultTwoFree(t, c) == IF op[t] = "Write" THEN Minus(m_Size - 2, c) ELSE c
\* What the caller sees when GetCounter returns c.
Result(t, c) == IF op[t] = "Write" THEN Minus(m_Size - 1, c) ELSE c
Return(t, c) == avail' = [avail EXCEPT ![t] = Result(t, c)]

\* GetCounterFree waits for PossibleUseCounters, GetCounter does so again; so does Flush.
AwaitCounters(t) ==
  /\ PossibleUseCounters
  /\ \/ Move(t, "free", "count")
     \/ Move(t, "count", "lock_counters")
     \/ Move(t, "flush_counters", "flush_lock")
  /\ UNCHANGED <<ring, flags, ThisTerminating, call, avail, copy, stream>>

\* The wait gives up: each of the two functions returns 0 to its caller.
CountersTerminated(t) ==
  /\ ~PossibleUseCounters /\ ThisTerminating
  /\ \/ Move(t, "free", "compare") /\ avail' = [avail EXCEPT ![t] = 0]
     \/ Move(t, "count", "compare") /\ Return(t, 0)
     \/ Move(t, "flush_counters", "idle") /\ UNCHANGED avail
  /\ UNCHANGED <<ring, flags, ThisTerminating, call, copy, stream>>

LockCounters(t) ==
  /\ Move(t, "lock_counters", "equal") \/ Move(t, "flush_lock", "flush_read")
  /\ PossibleUseCounters' = FALSE
  /\ UNCHANGED <<ring, PossibleRead, PossibleWrite, ThisTerminating, call, avail, copy, stream>>

\* The chain of ifs over ReadPointer and WritePointer.  A build that keeps the two
\* values in registers computes the rest from what the first condition loaded.
CompareEqual(t) ==
  /\ \/ /\ ReloadCounters /\ ReadPointer # WritePointer
        /\ Move(t, "equal", "less") /\ UNCHANGED avail
     \/ /\ ~ReloadCounters \/ ReadPointer = WritePointer
        /\ Move(t, "equal", "unlock_counters") /\ Return(t, Count)
  /\ UNCHANGED <<ring, flags, ThisTerminating, call, copy, stream>>

\* The second condition and the difference, over pointers loaded anew.
ComputeCounter(t) ==
  /\ \/ /\ Move(t, "less", IF ReadPointer < WritePointer THEN "value" ELSE "wrapped")
        /\ UNCHANGED avail
     \/ /\ Move(t, "value", "unlock_counters")
        /\ Return(t, Minus(WritePointer, ReadPointer))
     \/ /\ Move(t, "wrapped", "unlock_counters")
        /\ Return(t, (m_Size - ReadPointer) + WritePointer)
  /\ UNCHANGED <<ring, flags, ThisTerminating, call, copy, stream>>

\* Mutant of UnlockCounters: the flag is not given back.
UnlockForgotten(t) ==
  /\ Move(t, "unlock_counters", "compare")
  /\ UNCHANGED <<ring, flags, ThisTerminating, call, avail, copy, stream>>

UnlockCounters(t) ==
  /\ Move(t, "unlock_counters", "compare")
  /\ PossibleUseCounters' = TRUE
  /\ UNCHANGED <<ring, PossibleRead, PossibleWrite, ThisTerminating, call, avail, copy, stream>>

\* Mutant of Compare: the loop does not look at ThisTerminating.
CompareDeaf(t) ==
  /\ \/ avail[t] >= len[t] /\ Move(t, "compare", "acquire")
     \/ /\ avail[t] < len[t]
        /\ Move(t, "compare", IF op[t] = "Write" THEN "free" ELSE "count")
  /\ avail' = [avail EXCEPT ![t] = 0]
  /\ UNCHANGED <<ring, flags, ThisTerminating, call, copy, stream>>

\* while(GetCounter...()<DataLength): go on, give up, or sleep and ask again.
Compare(t) ==
  /\ \/ avail[t] >= len[t] /\ Move(t, "compare", "acquire")
     \/ avail[t] < len[t] /\ ThisTerminating /\ Move(t, "compare", "idle")
     \/ /\ avail[t] < len[t] /\ ~ThisTerminating
        /\ Move(t, "compare", IF op[t] = "Write" THEN "free" ELSE "count")
  /\ avail' = [avail EXCEPT ![t] = 0]
  /\ UNCHANGED <<ring, flags, ThisTerminating, call, copy, stream>>

------------------------------------------------------------------------------
\* The copy, guarded by PossibleWrite in Write and by PossibleRead in Read.

SetPossible(t, value) ==
  /\ UNCHANGED PossibleUseCounters
  /\ \/ op[t] = "Write" /\ PossibleWrite' = value /\ UNCHANGED PossibleRead
     \/ op[t] = "Read" /\ PossibleRead' = value /\ UNCHANGED PossibleWrite

Acquire(t) ==
  /\ LET possible == IF op[t] = "Write" THEN PossibleWrite ELSE PossibleRead
     IN \/ possible /\ Move(t, "acquire", "take")
        \/ ~possible /\ ThisTerminating /\ Move(t, "acquire", "idle")
  /\ UNCHANGED <<ring, flags, ThisTerminating, call, avail, copy, stream>>

TakeLock(t) ==
  /\ Move(t, "take", "copy")
  /\ SetPossible(t, FALSE)
  /\ base' = [base EXCEPT ![t] = IF op[t] = "Write" THEN WritePointer ELSE ReadPointer]
  /\ UNCHANGED <<ring, ThisTerminating, call, avail, copied, buffer, stream>>

\* Mutant of Fits: <= for <.
FitsExactly(t) == base[t] + len[t] <= m_Size
Fits(t) == base[t] + len[t] < m_Size
\* The slots that the calls of memcpy address.
Region(t) == {Forward(base[t], i, m_Size) : i \in 0 .. len[t] - 1}

\* memcpy is given a number of elements and counts bytes.  What it makes of the k-th
\* element of t's block, where old was in its place: a whole, a torn or no new element.
Memcpy(t, k, old, new) ==
  LET Size1 == IF Fits(t) THEN len[t] ELSE m_Size - base[t]
      pos == IF k < Size1 THEN k ELSE k - Size1
      n == IF k < Size1 THEN Size1 ELSE len[t] - Size1
  IN IF (pos + 1) * ElemSize <= n THEN new
     ELSE IF pos * ElemSize < n THEN None ELSE old

CopyElement(t) ==
  /\ pc[t] = "copy" /\ copied[t] < len[t]
  /\ LET k == copied[t]
         slot == Forward(base[t], k, m_Size)
     IN \/ /\ op[t] = "Write" /\ UNCHANGED buffer
           /\ m_Array' = [m_Array EXCEPT ![slot] = Memcpy(t, k, @, Forward(next, k, Modulus))]
        \/ /\ op[t] = "Read" /\ UNCHANGED m_Array
           /\ buffer' = [buffer EXCEPT ![t] = Append(@, Memcpy(t, k, None, m_Array[slot]))]
  /\ copied' = [copied EXCEPT ![t] = @ + 1]
  /\ UNCHANGED <<WritePointer, ReadPointer, flags, ThisTerminating, pc, call, avail, base, stream>>

\* Mutant of Moved: the wrapped part is one too long.
MovedLong(t, pointer) == IF Fits(t) THEN pointer + len[t] ELSE len[t] - (m_Size - 1 - base[t])
\* Pointer+=DataLength, or Pointer=Size2 after a copy that was split.
Moved(t, pointer) == IF Fits(t) THEN pointer + len[t] ELSE len[t] - (m_Size - base[t])

Advance(t) ==
  /\ copied[t] = len[t]
  /\ Move(t, "copy", "release")
  /\ \/ /\ op[t] = "Write"
        /\ WritePointer' = Moved(t, WritePointer)
        /\ next' = Forward(next, len[t], Modulus)
        /\ UNCHANGED <<ReadPointer, delivered>>
     \/ /\ op[t] = "Read"
        /\ ReadPointer' = Moved(t, ReadPointer)
        /\ delivered' = buffer[t]
        /\ UNCHANGED <<WritePointer, next>>
  /\ base' = [base EXCEPT ![t] = 0]
  /\ copied' = [copied EXCEPT ![t] = 0]
  /\ buffer' = [buffer EXCEPT ![t] = << >>]
  /\ UNCHANGED <<m_Array, flags, ThisTerminating, call, avail>>

\* Mutant of Release: the flag is not given back.
ReleaseForgotten(t) ==
  /\ Move(t, "release", "idle")
  /\ UNCHANGED <<ring, flags, ThisTerminating, call, avail, copy, stream>>

Release(t) ==
  /\ Move(t, "release", "idle")
  /\ SetPossible(t, TRUE)
  /\ UNCHANGED <<ring, ThisTerminating, call, avail, copy, stream>>

------------------------------------------------------------------------------
\* Flush, once it has PossibleUseCounters.  It waits for PossibleRead without taking it.

FlushAwait(t) ==
  /\ \/ ThisTerminating /\ (Move(t, "flush_read", "idle") \/ Move(t, "flush_write", "idle"))
     \/ ~ThisTerminating /\ PossibleRead /\ Move(t, "flush_read", "flush_write")
     \/ ~ThisTerminating /\ PossibleWrite /\ Move(t, "flush_write", "flush_take")
  /\ UNCHANGED <<ring, flags, ThisTerminating, call, avail, copy, stream>>

FlushTake(t) ==
  /\ Move(t, "flush_take", "flush_r")
  /\ PossibleWrite' = FALSE
  /\ UNCHANGED <<ring, PossibleUseCounters, PossibleRead, ThisTerminating, call, avail, copy, stream>>

\* WritePointer=ReadPointer=0, from the right.
FlushReset(t) ==
  /\ \/ Move(t, "flush_r", "flush_w") /\ ReadPointer' = 0 /\ UNCHANGED WritePointer
     \/ Move(t, "flush_w", "flush_release") /\ WritePointer' = 0 /\ UNCHANGED ReadPointer
  /\ UNCHANGED <<m_Array, flags, ThisTerminating, call, avail, copy, stream>>

\* Mutant of FlushRelease: the counters stay locked.
FlushReleaseForgotten(t) ==
  /\ Move(t, "flush_release", "idle")
  /\ PossibleWrite' = TRUE /\ PossibleRead' = TRUE
  /\ UNCHANGED <<ring, PossibleUseCounters, ThisTerminating, call, avail, copy, stream>>

FlushRelease(t) ==
  /\ Move(t, "flush_release", "idle")
  /\ PossibleUseCounters' = TRUE /\ PossibleWrite' = TRUE /\ PossibleRead' = TRUE
  /\ UNCHANGED <<ring, ThisTerminating, call, avail, copy, stream>>

------------------------------------------------------------------------------
Counting(t) == \/ AwaitCounters(t) \/ CountersTerminated(t) \/ LockCounters(t)
               \/ CompareEqual(t) \/ ComputeCounter(t) \/ UnlockCounters(t) \/ Compare(t)
Copying(t) == Acquire(t) \/ TakeLock(t) \/ CopyElement(t) \/ Advance(t) \/ Release(t)
Flushing(t) == FlushAwait(t) \/ FlushTake(t) \/ FlushReset(t) \/ FlushRelease(t)
\* A step of a call in progress.
Step(t) == Counting(t) \/ Copying(t) \/ Flushing(t)
Call(t) == (\E n \in Chunks : StartWrite(t, n) \/ StartRead(t, n)) \/ StartFlush(t)

Next == \/ \E t \in Threads : Call(t) \/ Step(t)
        \/ TerminateWait
        \/ EnableWaitBack

Spec == Init /\ [][Next]_vars

\* A thread inside a call is never descheduled for ever.
FairSpec == Spec /\ \A t \in Threads : WF_vars(Step(t))

\* The polls are a millisecond apart, so a thread does not for ever look at a flag
\* only while another holds it; and the users go on calling.
LiveSpec == Spec /\ \A t \in Threads : SF_vars(Step(t)) /\ WF_vars(Call(t))
==============================================================================
