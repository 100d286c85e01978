---------------------------- MODULE CFifoProofs -----------------------------
(***************************************************************************)
(* With at most one writer and at most one other thread that reads, a       *)
(* c_FIFO whose build loads each pointer once per evaluation is a correct   *)
(* queue: proved for every length, every set of block lengths and every     *)
(* pair of threads.  The bools taken by test and assignment play no part in *)
(* the argument.  What carries it is that only the writer moves             *)
(* WritePointer and only the reader moves ReadPointer, so that the free     *)
(* space a writer has seen and the data a reader has seen can only grow     *)
(* before it uses them.                                                     *)
(***************************************************************************)
EXTENDS CFifoProperties, SequenceTheorems, TLAPS

OneWriterOneReader ==
  /\ \A s, t \in Writers : s = t
  /\ \A s, t \in Readers : s = t
  /\ Writers \cap Readers = {}
  /\ Flushers = {}
  /\ ~ReloadCounters
  /\ ~MayTerminate

CallPCs == {"count", "lock_counters", "equal", "unlock_counters", "compare",
            "acquire", "take", "copy", "release"}

\* A thread in a call is the one writer in Write or the one reader in Read.
Roles ==
  \A t \in Threads :
    \/ pc[t] = "idle"
    \/ t \in Writers /\ op[t] = "Write" /\ pc[t] \in CallPCs \cup {"free"} /\ len[t] \in Chunks
    \/ t \in Readers /\ op[t] = "Read" /\ pc[t] \in CallPCs /\ len[t] \in Chunks

\* What a thread has computed but not yet compared is sound.
Promise ==
  \A t \in Threads :
    pc[t] \in {"unlock_counters", "compare"} =>
      /\ op[t] = "Write" => avail[t] <= Length - Count
      /\ op[t] = "Read" => avail[t] <= Count

\* A thread that got past the comparison has room for its block, up to the Advance.
Room ==
  \A t \in Threads :
    pc[t] \in {"acquire", "take", "copy"} =>
      /\ op[t] = "Write" => len[t] <= Length - Count
      /\ op[t] = "Read" => len[t] <= Count

\* The copy starts at the pointer that it will advance, with nothing copied yet.
AtPointer ==
  \A t \in Threads :
    /\ pc[t] = "copy" => /\ copied[t] <= len[t]
                         /\ op[t] = "Write" => base[t] = WritePointer
                         /\ op[t] = "Read" => base[t] = ReadPointer
    /\ pc[t] # "copy" => copied[t] = 0

IInv == TypeOK /\ ~ThisTerminating /\ Roles /\ Promise /\ Room /\ AtPointer

------------------------------------------------------------------------------
\* The distance between two positions of the ring is at most Length.
LEMMA DistanceRange ==
  ASSUME NEW r \in 0 .. m_Size - 1, NEW x \in 0 .. m_Size - 1
  PROVE  Distance(r, x) \in 0 .. Length
BY ConstantsAssumption DEF Distance, m_Size

\* Moving the writer's end by n within the free space adds n elements.
LEMMA DistanceAfterWrite ==
  ASSUME NEW r \in 0 .. m_Size - 1, NEW x \in 0 .. m_Size - 1,
         NEW n \in Nat, n <= Length - Distance(r, x)
  PROVE  /\ Forward(x, n, m_Size) \in 0 .. m_Size - 1
         /\ Distance(r, Forward(x, n, m_Size)) = Distance(r, x) + n
BY ConstantsAssumption DEF Distance, m_Size, Forward

\* Moving the reader's end by n within the data removes n elements.
LEMMA DistanceAfterRead ==
  ASSUME NEW r \in 0 .. m_Size - 1, NEW x \in 0 .. m_Size - 1,
         NEW n \in Nat, n <= Distance(r, x)
  PROVE  /\ Forward(r, n, m_Size) \in 0 .. m_Size - 1
         /\ Distance(Forward(r, n, m_Size), x) = Distance(r, x) - n
BY ConstantsAssumption DEF Distance, m_Size, Forward

\* Both branches after the copy compute the same: len positions forward from base.
LEMMA MovedIsForward ==
  ASSUME NEW t, base[t] \in 0 .. m_Size - 1, len[t] \in Nat
  PROVE  Moved(t, base[t]) = Forward(base[t], len[t], m_Size)
BY ConstantsAssumption DEF Moved, Fits, Forward, m_Size

------------------------------------------------------------------------------
\* The initial states satisfy the invariant.
LEMMA InitIInv == Init => IInv
<1> SUFFICES ASSUME Init PROVE IInv
  OBVIOUS
<1>1. m_Array \in [0 .. m_Size - 1 -> Elements]
  BY DEF Init, Elements
<1>2. << >> \in Seq(Elements)
  OBVIOUS
<1>3. buffer \in [Threads -> Seq(Elements)] /\ delivered \in Seq(Elements)
  BY <1>2 DEF Init
<1>4. /\ pc \in [Threads -> PCs]
      /\ op \in [Threads -> {"none", "Write", "Read", "Flush"}]
      /\ len \in [Threads -> Chunks \cup {0}]
  BY DEF Init, PCs
<1>5. /\ avail \in [Threads -> 0 .. UIntRange - 1]
      /\ base \in [Threads -> 0 .. m_Size - 1]
      /\ copied \in [Threads -> Nat]
      /\ WritePointer \in 0 .. m_Size - 1 /\ ReadPointer \in 0 .. m_Size - 1
      /\ next \in 0 .. Modulus - 1
  BY ConstantsAssumption DEF Init, m_Size
<1>6. TypeOK
  BY <1>1, <1>3, <1>4, <1>5 DEF Init, TypeOK
<1>7. QED
  BY <1>6 DEF Init, IInv, Roles, Promise, Room, AtPointer

------------------------------------------------------------------------------
\* The ring never holds more than Length elements.
LEMMA CountRange == TypeOK => Count \in 0 .. Length
BY DistanceRange DEF TypeOK, Count

\* The numbers of a call are natural numbers.
LEMMA NumbersAreNaturals ==
  ASSUME TypeOK, NEW t \in Threads
  PROVE  /\ avail[t] \in Nat /\ len[t] \in Nat /\ base[t] \in Nat /\ copied[t] \in Nat
         /\ Count \in Nat /\ Length \in Nat /\ m_Size \in Nat
<1>1. len[t] \in Nat
  <2>1. len[t] \in Chunks \cup {0}
    BY DEF TypeOK
  <2>2. \A n \in Chunks : n \in Nat
    BY ConstantsAssumption
  <2>3. QED
    BY <2>1, <2>2
<1>2. avail[t] \in 0 .. UIntRange - 1 /\ base[t] \in 0 .. m_Size - 1 /\ copied[t] \in Nat
  BY DEF TypeOK
<1>3. UIntRange \in Nat /\ m_Size \in Nat /\ Length \in Nat
  BY ConstantsAssumption DEF m_Size
<1>4. QED
  BY <1>1, <1>2, <1>3, CountRange

\* A chunk is shorter than the numbering, so one step back is enough.
LEMMA NextInRange ==
  ASSUME NEW x \in 0 .. Modulus - 1, NEW n \in Chunks
  PROVE  Forward(x, n, Modulus) \in 0 .. Modulus - 1
<1>1. Modulus \in Nat /\ n \in Nat /\ n < Modulus
  BY ConstantsAssumption
<1>2. QED
  BY <1>1 DEF Forward

\* Steps that leave the pointers and the array of the caller alone.
LEMMA CallKeepsIInv ==
  ASSUME OneWriterOneReader, IInv, NEW t \in Threads, Call(t)
  PROVE  IInv'
<1> USE DEF IInv, Move, ring, flags, copy, stream
<1>1. PICK n \in Chunks : StartWrite(t, n) \/ StartRead(t, n)
  BY DEF Call, StartFlush, OneWriterOneReader
<1>2. UNCHANGED <<Count, ThisTerminating>>
  BY <1>1 DEF StartWrite, StartRead, Begin, Count
<1>3. PICK f \in {"Write", "Read"}, at \in {"free", "count"} :
        /\ pc[t] = "idle" /\ pc' = [pc EXCEPT ![t] = at]
        /\ op' = [op EXCEPT ![t] = f] /\ len' = [len EXCEPT ![t] = n]
        /\ f = "Write" => t \in Writers
        /\ f = "Read" => t \in Readers /\ at = "count"
        /\ UNCHANGED <<ring, flags, ThisTerminating, avail, copy, stream>>
  BY <1>1 DEF StartWrite, StartRead, Begin
<1>4. TypeOK'
  BY <1>3 DEF TypeOK, PCs
<1>5. Roles'
  BY <1>3 DEF TypeOK, Roles, CallPCs
<1>6. Promise' /\ Room' /\ AtPointer'
  BY <1>2, <1>3 DEF TypeOK, Promise, Room, AtPointer
<1>7. QED
  BY <1>2, <1>4, <1>5, <1>6

\* The steps of GetCounter and GetCounterFree keep the invariant.
LEMMA CountingKeepsIInv ==
  ASSUME OneWriterOneReader, IInv, NEW t \in Threads, Counting(t)
  PROVE  IInv'
<1> USE DEF IInv, Move, ring, flags, call, copy, stream
<1>1. UNCHANGED <<Count, ThisTerminating>>
  BY DEF Counting, AwaitCounters, CountersTerminated, LockCounters, CompareEqual,
     ComputeCounter, UnlockCounters, Compare, Count
<1>2. CASE AwaitCounters(t)
  <2>1. TypeOK'
    BY <1>2 DEF AwaitCounters, TypeOK, PCs
  <2>2. Roles'
    BY <1>2 DEF AwaitCounters, TypeOK, Roles, CallPCs
  <2>3. Promise' /\ Room' /\ AtPointer'
    BY <1>1, <1>2 DEF AwaitCounters, TypeOK, Promise, Room, AtPointer
  <2>4. QED
    BY <1>1, <2>1, <2>2, <2>3
<1>3. CASE CountersTerminated(t)
  BY <1>3 DEF CountersTerminated
<1>4. CASE LockCounters(t)
  <2>1. TypeOK'
    BY <1>4 DEF LockCounters, TypeOK, PCs
  <2>2. Roles'
    BY <1>4 DEF LockCounters, TypeOK, Roles, CallPCs
  <2>3. Promise' /\ Room' /\ AtPointer'
    BY <1>1, <1>4 DEF LockCounters, TypeOK, Promise, Room, AtPointer
  <2>4. QED
    BY <1>1, <2>1, <2>2, <2>3
<1>5. CASE CompareEqual(t)
  <2>1. /\ pc[t] = "equal" /\ pc' = [pc EXCEPT ![t] = "unlock_counters"]
        /\ avail' = [avail EXCEPT ![t] = Result(t, Count)]
    BY <1>5 DEF CompareEqual, Return, OneWriterOneReader
  <2>2. /\ op[t] = "Write" => Result(t, Count) = Length - Count
        /\ op[t] = "Read" => Result(t, Count) = Count
        /\ Result(t, Count) \in 0 .. UIntRange - 1
    BY CountRange, ConstantsAssumption DEF Result, Minus, m_Size
  <2>3. TypeOK'
    BY <1>5, <2>1, <2>2 DEF CompareEqual, TypeOK, PCs
  <2>4. Roles'
    BY <1>5, <2>1 DEF CompareEqual, TypeOK, Roles, CallPCs
  <2>5. Promise'
    <3>1. SUFFICES ASSUME NEW s \in Threads, pc'[s] \in {"unlock_counters", "compare"}
                   PROVE  /\ op[s] = "Write" => avail'[s] <= Length - Count
                          /\ op[s] = "Read" => avail'[s] <= Count
      BY <1>1, <1>5 DEF CompareEqual, Promise
    <3>2. CASE s = t
      BY <2>1, <2>2, <3>2, NumbersAreNaturals DEF TypeOK
    <3>3. CASE s # t
      BY <2>1, <3>1, <3>3 DEF TypeOK, Promise
    <3>4. QED
      BY <3>2, <3>3
  <2>6. Room' /\ AtPointer'
    BY <1>1, <1>5, <2>1 DEF CompareEqual, TypeOK, Room, AtPointer
  <2>7. QED
    BY <1>1, <2>3, <2>4, <2>5, <2>6
<1>6. CASE ComputeCounter(t)
  BY <1>6 DEF ComputeCounter, Roles, CallPCs
<1>7. CASE UnlockCounters(t)
  <2>1. TypeOK'
    BY <1>7 DEF UnlockCounters, TypeOK, PCs
  <2>2. Roles'
    BY <1>7 DEF UnlockCounters, TypeOK, Roles, CallPCs
  <2>3. Promise' /\ Room' /\ AtPointer'
    BY <1>1, <1>7 DEF UnlockCounters, TypeOK, Promise, Room, AtPointer
  <2>4. QED
    BY <1>1, <2>1, <2>2, <2>3
<1>8. CASE Compare(t)
  <2>1. PICK to \in {"acquire", "free", "count"} :
          /\ pc[t] = "compare" /\ pc' = [pc EXCEPT ![t] = to]
          /\ to = "acquire" => avail[t] >= len[t]
          /\ to = "free" => op[t] = "Write"
    BY <1>8 DEF Compare
  <2>2. TypeOK'
    BY <1>8, <2>1, ConstantsAssumption DEF Compare, TypeOK, PCs
  <2>3. Roles'
    BY <1>8, <2>1 DEF Compare, TypeOK, Roles, CallPCs
  <2>4. Room'
    <3>1. SUFFICES ASSUME NEW s \in Threads, pc'[s] \in {"acquire", "take", "copy"}
                   PROVE  /\ op[s] = "Write" => len[s] <= Length - Count
                          /\ op[s] = "Read" => len[s] <= Count
      BY <1>1, <1>8 DEF Compare, Room
    <3>2. CASE s = t
      <4>1. avail[t] >= len[t]
        BY <2>1, <3>1, <3>2 DEF TypeOK
      <4>2. avail[t] \in Nat /\ len[t] \in Nat /\ Count \in Nat /\ Length \in Nat
        BY NumbersAreNaturals
      <4>3. /\ op[t] = "Write" => avail[t] <= Length - Count
            /\ op[t] = "Read" => avail[t] <= Count
        BY <2>1 DEF Promise
      <4>4. QED
        BY <3>2, <4>1, <4>2, <4>3
    <3>3. CASE s # t
      BY <2>1, <3>1, <3>3 DEF TypeOK, Room
    <3>4. QED
      BY <3>2, <3>3
  <2>5. Promise' /\ AtPointer'
    BY <1>1, <1>8, <2>1 DEF Compare, TypeOK, Promise, AtPointer
  <2>6. QED
    BY <1>1, <2>2, <2>3, <2>4, <2>5
<1>9. QED
  BY <1>2, <1>3, <1>4, <1>5, <1>6, <1>7, <1>8 DEF Counting

\* Acquire and Release do not touch the ring; TakeLock and CopyElement not the pointers.
LEMMA LockingKeepsIInv ==
  ASSUME OneWriterOneReader, IInv, NEW t \in Threads,
         Acquire(t) \/ TakeLock(t) \/ CopyElement(t) \/ Release(t)
  PROVE  IInv'
<1> USE DEF IInv, Move, ring, flags, call, copy, stream
<1>1. UNCHANGED <<Count, ThisTerminating>>
  BY DEF Acquire, TakeLock, CopyElement, Release, Count
<1>2. CASE Acquire(t)
  <2>1. pc[t] = "acquire" /\ pc' = [pc EXCEPT ![t] = "take"]
    BY <1>2 DEF Acquire
  <2>2. TypeOK'
    BY <1>2, <2>1 DEF Acquire, TypeOK, PCs
  <2>3. QED
    BY <1>1, <1>2, <2>1, <2>2 DEF Acquire, TypeOK, Roles, Promise, Room, AtPointer, CallPCs, PCs
<1>3. CASE TakeLock(t)
  <2>1. TypeOK'
    BY <1>3 DEF TakeLock, SetPossible, TypeOK, PCs
  <2>2. Roles' /\ Promise' /\ Room'
    BY <1>1, <1>3 DEF TakeLock, TypeOK, Roles, Promise, Room, CallPCs
  <2>3. copied[t] = 0 /\ copied' = copied
    BY <1>3 DEF TakeLock, AtPointer
  <2>4. AtPointer'
    BY <1>3, <2>3, NumbersAreNaturals, SMTT(30) DEF TakeLock, TypeOK, AtPointer
  <2>5. QED
    BY <1>1, <2>1, <2>2, <2>4
<1>4. CASE CopyElement(t)
  <2> DEFINE k == copied[t]
             slot == Forward(base[t], k, m_Size)
  <2>1. pc[t] = "copy" /\ k < len[t] /\ copied' = [copied EXCEPT ![t] = k + 1]
    BY <1>4 DEF CopyElement
  <2>2. (op[t] = "Write" \/ op[t] = "Read") /\ len[t] \in Chunks
    BY <2>1 DEF Roles
  <2>3. k \in Nat /\ len[t] \in Nat /\ k + 1 <= len[t] /\ len[t] <= Length /\ k <= Modulus
    BY <2>1, <2>2, NumbersAreNaturals, CountRange, ConstantsAssumption DEF Room
  <2>4. slot \in 0 .. m_Size - 1
    <3>1. base[t] \in 0 .. m_Size - 1 /\ m_Size = Length + 1 /\ Length \in Nat
      BY ConstantsAssumption DEF TypeOK, m_Size
    <3>2. QED
      BY <2>3, <3>1 DEF Forward
  <2>5. Forward(next, k, Modulus) \in Elements
    BY <2>3, ConstantsAssumption, SMTT(30) DEF TypeOK, Forward, Elements
  <2>6. ASSUME NEW old \in Elements, NEW new \in Elements
        PROVE  Memcpy(t, k, old, new) \in Elements
    BY <2>6 DEF Memcpy, Elements
  <2>7. m_Array' \in [0 .. m_Size - 1 -> Elements]
    BY <1>4, <2>4, <2>5, <2>6 DEF CopyElement, TypeOK
  <2>8. buffer' \in [Threads -> Seq(Elements)]
    <3>1. Memcpy(t, k, None, m_Array[slot]) \in Elements
      BY <2>4, <2>6 DEF TypeOK, Elements
    <3>2. Append(buffer[t], Memcpy(t, k, None, m_Array[slot])) \in Seq(Elements)
      BY <3>1 DEF TypeOK
    <3>3. QED
      BY <1>4, <3>2 DEF CopyElement, TypeOK
  <2>9. copied' \in [Threads -> Nat]
    BY <2>1, <2>3 DEF TypeOK
  <2>10. TypeOK'
    BY <1>4, <2>7, <2>8, <2>9 DEF CopyElement, TypeOK
  <2>11. AtPointer'
    BY <1>4, <2>1, <2>3 DEF CopyElement, TypeOK, AtPointer
  <2>12. Roles' /\ Promise' /\ Room'
    BY <1>1, <1>4 DEF CopyElement, Roles, Promise, Room
  <2>13. QED
    BY <1>1, <2>10, <2>11, <2>12
<1>5. CASE Release(t)
  <2>1. TypeOK'
    BY <1>5 DEF Release, SetPossible, TypeOK, PCs
  <2>2. QED
    BY <1>1, <1>5, <2>1 DEF Release, TypeOK, Roles, Promise, Room, AtPointer, CallPCs
<1>6. QED
  BY <1>2, <1>3, <1>4, <1>5

\* The one step that moves a pointer, and what it leaves true for the other thread.
LEMMA AdvanceKeepsIInv ==
  ASSUME OneWriterOneReader, IInv, NEW t \in Threads, Advance(t)
  PROVE  IInv'
<1> USE DEF IInv, Move, ring, flags, call, copy, stream
<1> DEFINE n == len[t]
<1>1. /\ pc[t] = "copy" /\ pc' = [pc EXCEPT ![t] = "release"]
      /\ copied' = [copied EXCEPT ![t] = 0]
      /\ UNCHANGED <<op, len, avail, ThisTerminating>>
  BY DEF Advance
<1>2. n \in Nat /\ n \in Chunks
  BY <1>1, NumbersAreNaturals DEF Roles
<1>3. CASE op[t] = "Write"
  <2>1. n <= Length - Count /\ base[t] = WritePointer
    BY <1>1, <1>3 DEF Room, AtPointer
  <2>2. /\ WritePointer' = Forward(WritePointer, n, m_Size)
        /\ UNCHANGED <<ReadPointer, delivered>>
        /\ next' = Forward(next, n, Modulus)
    BY <1>2, <1>3, <2>1, MovedIsForward DEF Advance, TypeOK
  <2>3. WritePointer' \in 0 .. m_Size - 1 /\ Count' = Count + n
    BY <1>2, <2>1, <2>2, DistanceAfterWrite DEF TypeOK, Count
  <2>4. next' \in 0 .. Modulus - 1
    <3>1. next \in 0 .. Modulus - 1
      BY DEF TypeOK
    <3>2. QED
      BY <1>2, <2>2, <3>1, NextInRange
  <2>5. TypeOK'
    BY <1>1, <2>2, <2>3, <2>4, ConstantsAssumption, SMTT(30) DEF Advance, TypeOK, PCs, m_Size
  <2>6. Roles'
    BY <1>1 DEF Roles, CallPCs, TypeOK
  <2>7. \A s \in Threads : s # t /\ pc[s] # "idle" => op[s] = "Read"
    BY <1>1, <1>3 DEF Roles, OneWriterOneReader
  <2>8. Promise' /\ Room'
    <3>1. SUFFICES ASSUME NEW s \in Threads, s # t, pc[s] # "idle"
                   PROVE  /\ pc[s] \in {"unlock_counters", "compare"} => avail[s] <= Count'
                          /\ pc[s] \in {"acquire", "take", "copy"} => len[s] <= Count'
      BY <1>1, <2>7 DEF Promise, Room, TypeOK
    <3>2. op[s] = "Read"
      BY <2>7, <3>1
    <3>3. avail[s] \in Nat /\ len[s] \in Nat /\ Count \in Nat
      BY NumbersAreNaturals
    <3>4. QED
      BY <1>2, <2>3, <3>2, <3>3 DEF Promise, Room
  <2>9. AtPointer'
    BY <1>1, <2>2, <2>7 DEF Advance, AtPointer, TypeOK
  <2>10. QED
    BY <1>1, <2>5, <2>6, <2>8, <2>9
<1>4. CASE op[t] = "Read"
  <2>1. n <= Count /\ base[t] = ReadPointer
    BY <1>1, <1>4 DEF Room, AtPointer
  <2>2. /\ ReadPointer' = Forward(ReadPointer, n, m_Size)
        /\ UNCHANGED <<WritePointer, next>>
        /\ delivered' = buffer[t]
    BY <1>2, <1>4, <2>1, MovedIsForward DEF Advance, TypeOK
  <2>3. ReadPointer' \in 0 .. m_Size - 1 /\ Count' = Count - n
    BY <1>2, <2>1, <2>2, DistanceAfterRead DEF TypeOK, Count
  <2>4. TypeOK'
    BY <1>1, <2>2, <2>3, ConstantsAssumption, SMTT(30) DEF Advance, TypeOK, PCs, m_Size
  <2>5. Roles'
    BY <1>1 DEF Roles, CallPCs, TypeOK
  <2>6. \A s \in Threads : s # t /\ pc[s] # "idle" => op[s] = "Write"
    BY <1>1, <1>4 DEF Roles, OneWriterOneReader
  <2>7. Promise' /\ Room'
    <3>1. SUFFICES ASSUME NEW s \in Threads, s # t, pc[s] # "idle"
                   PROVE  /\ pc[s] \in {"unlock_counters", "compare"} => avail[s] <= Length - Count'
                          /\ pc[s] \in {"acquire", "take", "copy"} => len[s] <= Length - Count'
      BY <1>1, <2>6 DEF Promise, Room, TypeOK
    <3>2. op[s] = "Write"
      BY <2>6, <3>1
    <3>3. avail[s] \in Nat /\ len[s] \in Nat /\ Count \in Nat /\ Length \in Nat
      BY NumbersAreNaturals
    <3>4. QED
      BY <1>2, <2>3, <3>2, <3>3 DEF Promise, Room
  <2>8. AtPointer'
    BY <1>1, <2>2, <2>6 DEF Advance, AtPointer, TypeOK
  <2>9. QED
    BY <1>1, <2>4, <2>5, <2>7, <2>8
<1>5. QED
  BY <1>3, <1>4 DEF Advance

------------------------------------------------------------------------------
\* Every step keeps it.
LEMMA NextKeepsIInv ==
  ASSUME OneWriterOneReader, IInv, [Next]_vars
  PROVE  IInv'
<1>1. CASE UNCHANGED vars
  BY <1>1 DEF IInv, TypeOK, Roles, Promise, Room, AtPointer, Count,
     vars, ring, flags, call, copy, stream
<1>2. CASE TerminateWait \/ EnableWaitBack
  BY <1>2 DEF TerminateWait, EnableWaitBack, OneWriterOneReader
<1>3. ASSUME NEW t \in Threads, Call(t) \/ Counting(t) \/ Copying(t)
      PROVE  IInv'
  BY <1>3, CallKeepsIInv, CountingKeepsIInv, LockingKeepsIInv, AdvanceKeepsIInv DEF Copying
<1>4. ASSUME NEW t \in Threads, Flushing(t)
      PROVE  IInv'
  BY <1>4
     DEF Flushing, FlushAwait, FlushTake, FlushReset, FlushRelease, Move, IInv, Roles, CallPCs
<1>5. QED
  BY <1>1, <1>2, <1>3, <1>4 DEF Next, Step

\* The free space and the data that the threads have seen is really there.
LEMMA InductiveInvariant == ASSUME OneWriterOneReader PROVE Spec => []IInv
<1>1. Init => IInv
  BY InitIInv
<1>2. IInv /\ [Next]_vars => IInv'
  BY NextKeepsIInv
<1>3. QED
  BY <1>1, <1>2, PTL DEF Spec

\* Every index and every value stays in its range (c_FIFO::Write and Read never address
\* a slot outside m_Array).
THEOREM TypeCorrect == ASSUME OneWriterOneReader PROVE Spec => []TypeOK
<1>1. IInv => TypeOK
  BY DEF IInv
<1>2. QED
  BY <1>1, InductiveInvariant, PTL

\* GetCounter and GetCounterFree never promise the caller more than there is, although
\* they read the two pointers while the other thread moves one of them.
THEOREM CounterIsSound == ASSUME OneWriterOneReader PROVE Spec => []CounterSound
<1>1. IInv => CounterSound
  BY DEF IInv, Promise, CounterSound
<1>2. QED
  BY <1>1, InductiveInvariant, PTL

\* The memcpy of a Write and the memcpy of a Read that run at the same time touch
\* different slots.
THEOREM CopiesNeverOverlap == ASSUME OneWriterOneReader PROVE Spec => []NoOverlap
<1>1. ASSUME IInv PROVE NoOverlap
  <2>1. SUFFICES ASSUME NEW w \in Threads, NEW r \in Threads,
                        pc[w] = "copy", op[w] = "Write", pc[r] = "copy", op[r] = "Read",
                        NEW i \in 0 .. len[w] - 1, NEW j \in 0 .. len[r] - 1
                 PROVE  Forward(base[w], i, m_Size) # Forward(base[r], j, m_Size)
    BY DEF NoOverlap, Region
  <2>2. /\ base[w] = WritePointer /\ len[w] <= Length - Count
        /\ base[r] = ReadPointer /\ len[r] <= Count
    BY <1>1, <2>1 DEF IInv, Room, AtPointer
  <2>3. len[w] \in Nat /\ len[r] \in Nat /\ Count \in Nat
    BY <1>1, NumbersAreNaturals DEF IInv
  <2>4. WritePointer \in 0 .. m_Size - 1 /\ ReadPointer \in 0 .. m_Size - 1
    BY <1>1 DEF IInv, TypeOK
  <2>5. QED
    BY <2>2, <2>3, <2>4, ConstantsAssumption DEF Forward, Count, Distance, m_Size
<1>2. QED
  BY <1>1, InductiveInvariant, PTL

------------------------------------------------------------------------------
\* The flags, for any number of threads.

\* No Flush waits beside a TerminateWait, which makes it return with the flags it has taken.
FlushUndisturbed == Flushers = {} \/ ~MayTerminate

\* Where a thread has the three flags.
HasCounters == {"equal", "less", "value", "wrapped", "unlock_counters", "flush_read",
                "flush_write", "flush_take", "flush_r", "flush_w", "flush_release"}
Copies == {"copy", "release"}
Resets == {"flush_r", "flush_w", "flush_release"}
Flushes ==
  Resets \cup {"flush_counters", "flush_lock", "flush_read", "flush_write", "flush_take"}

\* A flag that is taken is in the hands of some thread, which will give it back.  Two may
\* have it at a time (the first to leave gives it back for both), none never.
FlagsHeld ==
  /\ ~PossibleUseCounters => \E t \in Threads : pc[t] \in HasCounters
  /\ ~PossibleRead => \E t \in Threads : pc[t] \in Copies /\ op[t] = "Read"
  /\ ~PossibleWrite =>
       \E t \in Threads : pc[t] \in Resets \/ (pc[t] \in Copies /\ op[t] = "Write")
FlagsInv ==
  /\ pc \in [Threads -> PCs] /\ op \in [Threads -> {"none", "Write", "Read", "Flush"}]
  /\ PossibleUseCounters \in BOOLEAN /\ PossibleRead \in BOOLEAN /\ PossibleWrite \in BOOLEAN
  /\ ThisTerminating => \A t \in Threads : pc[t] \notin Flushes
  /\ ThisTerminating => MayTerminate
  /\ \A t \in Threads : pc[t] \in Flushes => Flushers # {}
  /\ FlagsHeld

\* At the start nobody has a flag, and none is taken.
LEMMA InitFlags == Init => FlagsInv
BY DEF Init, FlagsInv, FlagsHeld, PCs, Flushes, Resets

\* A step of t from one place to the next keeps FlagsHeld if t is at a place that goes with
\* a flag that is taken, unless it was taken before and t was not at such a place.
LEMMA FlagsKeptBy ==
  ASSUME FlagsInv, NEW t \in Threads, NEW q \in PCs,
         NEW f \in {"none", "Write", "Read", "Flush"},
         pc' = [pc EXCEPT ![t] = q], op' = [op EXCEPT ![t] = f],
         PossibleUseCounters' \/ q \in HasCounters
           \/ (~PossibleUseCounters /\ pc[t] \notin HasCounters),
         PossibleRead' \/ (q \in Copies /\ f = "Read")
           \/ (~PossibleRead /\ ~(pc[t] \in Copies /\ op[t] = "Read")),
         PossibleWrite' \/ q \in Resets \/ (q \in Copies /\ f = "Write")
           \/ (~PossibleWrite /\ pc[t] \notin Resets /\ ~(pc[t] \in Copies /\ op[t] = "Write"))
  PROVE  /\ FlagsHeld' /\ pc' \in [Threads -> PCs]
         /\ op' \in [Threads -> {"none", "Write", "Read", "Flush"}]
<1>1. /\ pc' \in [Threads -> PCs] /\ op' \in [Threads -> {"none", "Write", "Read", "Flush"}]
      /\ pc'[t] = q /\ op'[t] = f /\ \A s \in Threads \ {t} : pc'[s] = pc[s] /\ op'[s] = op[s]
  BY DEF FlagsInv
<1>2. ~PossibleUseCounters' => \E s \in Threads : pc'[s] \in HasCounters
  BY <1>1 DEF FlagsInv, FlagsHeld
<1>3. ~PossibleRead' => \E s \in Threads : pc'[s] \in Copies /\ op'[s] = "Read"
  BY <1>1 DEF FlagsInv, FlagsHeld
<1>4. ~PossibleWrite' =>
        \E s \in Threads : pc'[s] \in Resets \/ (pc'[s] \in Copies /\ op'[s] = "Write")
  BY <1>1 DEF FlagsInv, FlagsHeld
<1> QED BY <1>1, <1>2, <1>3, <1>4 DEF FlagsHeld

\* A call begins without any flag.
LEMMA CallKeepsFlags ==
  ASSUME FlushUndisturbed, FlagsInv, NEW t \in Threads, Call(t) PROVE FlagsInv'
<1>1. PICK f \in {"Write", "Read", "Flush"}, q \in {"free", "count", "flush_counters"} :
        /\ pc[t] = "idle" /\ pc' = [pc EXCEPT ![t] = q] /\ op' = [op EXCEPT ![t] = f]
        /\ UNCHANGED <<flags, ThisTerminating>>
        /\ q = "flush_counters" => Flushers # {}
  BY DEF Call, StartWrite, StartRead, StartFlush, Begin, Move
<1>2. /\ FlagsHeld' /\ pc' \in [Threads -> PCs]
      /\ op' \in [Threads -> {"none", "Write", "Read", "Flush"}]
  BY <1>1, FlagsKeptBy DEF flags, PCs, HasCounters, Copies, Resets
<1> QED
  BY <1>1, <1>2 DEF FlushUndisturbed, FlagsInv, flags, Flushes, Resets

\* Of GetCounter and GetCounterFree, LockCounters and UnlockCounters take and give back a flag.
LEMMA CountingKeepsFlags ==
  ASSUME FlushUndisturbed, FlagsInv, NEW t \in Threads, Counting(t) PROVE FlagsInv'
<1>1. /\ UNCHANGED <<ThisTerminating, op>>
      /\ PossibleUseCounters' \in BOOLEAN
      /\ PossibleRead' \in BOOLEAN /\ PossibleWrite' \in BOOLEAN
  BY DEF FlagsInv, Counting, AwaitCounters, CountersTerminated, LockCounters, CompareEqual,
         ComputeCounter, UnlockCounters, Compare, flags, call
<1>2. PICK p \in PCs :
        /\ pc' = [pc EXCEPT ![t] = p]
        /\ p \in Flushes => pc[t] \in Flushes
        /\ PossibleUseCounters' \/ p \in HasCounters
             \/ (~PossibleUseCounters /\ pc[t] \notin HasCounters)
        /\ PossibleRead' \/ (p \in Copies /\ op[t] = "Read")
             \/ (~PossibleRead /\ ~(pc[t] \in Copies /\ op[t] = "Read"))
        /\ PossibleWrite' \/ p \in Resets \/ (p \in Copies /\ op[t] = "Write")
             \/ (~PossibleWrite /\ pc[t] \notin Resets /\ ~(pc[t] \in Copies /\ op[t] = "Write"))
  BY DEF FlagsInv, Counting, AwaitCounters, CountersTerminated, LockCounters, CompareEqual,
         ComputeCounter, UnlockCounters, Compare, Move, flags, PCs, Flushes, Resets,
         HasCounters, Copies
<1>3. op[t] \in {"none", "Write", "Read", "Flush"} /\ op' = [op EXCEPT ![t] = op[t]]
  BY <1>1 DEF FlagsInv
<1>4. /\ FlagsHeld' /\ pc' \in [Threads -> PCs]
      /\ op' \in [Threads -> {"none", "Write", "Read", "Flush"}]
  BY <1>1, <1>2, <1>3, FlagsKeptBy
<1>5. \A s \in Threads : pc'[s] \in Flushes => pc[s] \in Flushes
  BY <1>2 DEF FlagsInv
<1> QED
  BY <1>1, <1>4, <1>5 DEF FlagsInv

\* PossibleRead and PossibleWrite are held from TakeLock to Release.
LEMMA CopyingKeepsFlags ==
  ASSUME FlushUndisturbed, FlagsInv, NEW t \in Threads, Copying(t) PROVE FlagsInv'
<1>1. /\ UNCHANGED <<ThisTerminating, op>>
      /\ PossibleUseCounters' \in BOOLEAN
      /\ PossibleRead' \in BOOLEAN /\ PossibleWrite' \in BOOLEAN
  BY DEF FlagsInv, Copying, Acquire, TakeLock, CopyElement, Advance, Release, SetPossible,
         flags, call
<1>2. PICK p \in PCs :
        /\ pc' = [pc EXCEPT ![t] = p]
        /\ p \in Flushes => pc[t] \in Flushes
        /\ PossibleUseCounters' \/ p \in HasCounters
             \/ (~PossibleUseCounters /\ pc[t] \notin HasCounters)
        /\ PossibleRead' \/ (p \in Copies /\ op[t] = "Read")
             \/ (~PossibleRead /\ ~(pc[t] \in Copies /\ op[t] = "Read"))
        /\ PossibleWrite' \/ p \in Resets \/ (p \in Copies /\ op[t] = "Write")
             \/ (~PossibleWrite /\ pc[t] \notin Resets /\ ~(pc[t] \in Copies /\ op[t] = "Write"))
  BY DEF FlagsInv, Copying, Acquire, TakeLock, CopyElement, Advance, Release, SetPossible, Move,
         flags, PCs, Flushes, Resets, HasCounters, Copies
<1>3. op[t] \in {"none", "Write", "Read", "Flush"} /\ op' = [op EXCEPT ![t] = op[t]]
  BY <1>1 DEF FlagsInv
<1>4. /\ FlagsHeld' /\ pc' \in [Threads -> PCs]
      /\ op' \in [Threads -> {"none", "Write", "Read", "Flush"}]
  BY <1>1, <1>2, <1>3, FlagsKeptBy
<1>5. \A s \in Threads : pc'[s] \in Flushes => pc[s] \in Flushes
  BY <1>2 DEF FlagsInv
<1> QED
  BY <1>1, <1>4, <1>5 DEF FlagsInv

\* A Flush that nobody terminates gives back all it took.
LEMMA FlushingKeepsFlags ==
  ASSUME FlushUndisturbed, FlagsInv, NEW t \in Threads, Flushing(t) PROVE FlagsInv'
<1>1. /\ UNCHANGED <<ThisTerminating, op>>
      /\ PossibleUseCounters' \in BOOLEAN
      /\ PossibleRead' \in BOOLEAN /\ PossibleWrite' \in BOOLEAN
  BY DEF FlagsInv, FlushUndisturbed, Flushing, FlushAwait, FlushTake, FlushReset, FlushRelease,
         flags, call
<1>2. PICK p \in PCs :
        /\ pc' = [pc EXCEPT ![t] = p]
        /\ p \in Flushes => pc[t] \in Flushes
        /\ PossibleUseCounters' \/ p \in HasCounters
             \/ (~PossibleUseCounters /\ pc[t] \notin HasCounters)
        /\ PossibleRead' \/ (p \in Copies /\ op[t] = "Read")
             \/ (~PossibleRead /\ ~(pc[t] \in Copies /\ op[t] = "Read"))
        /\ PossibleWrite' \/ p \in Resets \/ (p \in Copies /\ op[t] = "Write")
             \/ (~PossibleWrite /\ pc[t] \notin Resets /\ ~(pc[t] \in Copies /\ op[t] = "Write"))
  BY DEF FlagsInv, FlushUndisturbed, Flushing, FlushAwait, FlushTake, FlushReset, FlushRelease,
         Move, flags, PCs, Flushes, Resets, HasCounters, Copies
<1>3. op[t] \in {"none", "Write", "Read", "Flush"} /\ op' = [op EXCEPT ![t] = op[t]]
  BY <1>1 DEF FlagsInv
<1>4. /\ FlagsHeld' /\ pc' \in [Threads -> PCs]
      /\ op' \in [Threads -> {"none", "Write", "Read", "Flush"}]
  BY <1>1, <1>2, <1>3, FlagsKeptBy
<1>5. \A s \in Threads : pc'[s] \in Flushes => pc[s] \in Flushes
  BY <1>2 DEF FlagsInv
<1> QED
  BY <1>1, <1>4, <1>5 DEF FlagsInv

\* For any number of writers, readers and flushers, in every build and with a terminator at
\* work: when every call has returned, no flag stays taken, so that the next calls do not
\* wait for ever.
THEOREM FlagsAreRestored == ASSUME FlushUndisturbed PROVE Spec => []FlagsRestored
<1>1. FlagsInv /\ [Next]_vars => FlagsInv'
  <2> SUFFICES ASSUME FlagsInv, [Next]_vars PROVE FlagsInv'
    OBVIOUS
  <2>1. CASE UNCHANGED vars
    BY <2>1 DEF vars, flags, call, FlagsInv, FlagsHeld
  <2>2. CASE TerminateWait \/ EnableWaitBack
    BY <2>2 DEF TerminateWait, EnableWaitBack, flags, call, FlagsInv, FlagsHeld, FlushUndisturbed
  <2>3. ASSUME NEW t \in Threads, Call(t) \/ Step(t) PROVE FlagsInv'
    BY <2>3, CallKeepsFlags, CountingKeepsFlags, CopyingKeepsFlags, FlushingKeepsFlags DEF Step
  <2> QED BY <2>1, <2>2, <2>3 DEF Next
<1>2. FlagsInv => FlagsRestored
  BY DEF FlagsInv, FlagsHeld, FlagsRestored, HasCounters, Copies, Resets
<1> QED BY <1>1, <1>2, InitFlags, PTL DEF Spec

------------------------------------------------------------------------------
(***************************************************************************)
(* The ring buffer implements ByteQueue, for elements of one byte.  A Write *)
(* appends its block when it moves WritePointer, a Read takes its block     *)
(* when it moves ReadPointer; every other step leaves the queue as it is.   *)
(***************************************************************************)

ByteElements == OneWriterOneReader /\ ElemSize = 1

\* What the writer has copied so far lies behind WritePointer, in order.
Stored ==
  \A t \in Threads :
    pc[t] = "copy" /\ op[t] = "Write" =>
      \A k \in 0 .. copied[t] - 1 :
        m_Array[Forward(WritePointer, k, m_Size)] = Forward(next, k, Modulus)

\* What the reader has copied so far is the front of the queue.
Fetched ==
  \A t \in Threads :
    IF pc[t] = "copy" /\ op[t] = "Read"
    THEN /\ Len(buffer[t]) = copied[t]
         /\ \A k \in 0 .. copied[t] - 1 :
              buffer[t][k + 1] = m_Array[Forward(ReadPointer, k, m_Size)]
    ELSE buffer[t] = << >>

RInv == IInv /\ Stored /\ Fetched

------------------------------------------------------------------------------
\* The ring is a line of Count occupied and Length - Count free positions.
LEMMA ForwardAgain ==
  ASSUME NEW r \in 0 .. m_Size - 1, NEW x \in 0 .. m_Size - 1,
         NEW k \in Nat, k <= Length - Distance(r, x)
  PROVE  Forward(x, k, m_Size) = Forward(r, Distance(r, x) + k, m_Size)
BY ConstantsAssumption DEF Forward, Distance, m_Size

\* Two places of one walk round the ring are different.
LEMMA ForwardInjective ==
  ASSUME NEW r \in 0 .. m_Size - 1, NEW i \in 0 .. Length, NEW j \in 0 .. Length,
         Forward(r, i, m_Size) = Forward(r, j, m_Size)
  PROVE  i = j
BY ConstantsAssumption DEF Forward, m_Size

\* Two walks forward are one.
LEMMA ForwardTwice ==
  ASSUME NEW r \in 0 .. m_Size - 1, NEW i \in Nat, NEW j \in Nat, i + j <= Length
  PROVE  Forward(Forward(r, i, m_Size), j, m_Size) = Forward(r, i + j, m_Size)
BY ConstantsAssumption DEF Forward, m_Size

\* A walk forward ends in the array.
LEMMA ForwardRange ==
  ASSUME NEW r \in 0 .. m_Size - 1, NEW i \in 0 .. Length
  PROVE  Forward(r, i, m_Size) \in 0 .. m_Size - 1
BY ConstantsAssumption DEF Forward, m_Size

\* With elements of one byte memcpy moves every element whole.
LEMMA MemcpyMoves ==
  ASSUME ElemSize = 1, TypeOK, NEW t \in Threads, NEW k \in Nat, k < len[t],
         len[t] <= Length, NEW old, NEW new
  PROVE  Memcpy(t, k, old, new) = new
<1>1. len[t] \in Nat /\ base[t] \in 0 .. m_Size - 1 /\ m_Size = Length + 1 /\ Length \in Nat
  BY NumbersAreNaturals, ConstantsAssumption DEF TypeOK, m_Size
<1>2. QED
  BY <1>1 DEF Memcpy, Fits

\* The elements of an array between two positions: Contents, for any array and positions.
Slice(a, r, x) == [i \in 1 .. Distance(r, x) |-> a[Forward(r, i - 1, m_Size)]]

\* What lies between two pointers is a sequence.
LEMMA SliceIsSeq ==
  ASSUME NEW a \in [0 .. m_Size - 1 -> Elements],
         NEW r \in 0 .. m_Size - 1, NEW x \in 0 .. m_Size - 1
  PROVE  /\ Slice(a, r, x) \in Seq(Elements)
         /\ Len(Slice(a, r, x)) = Distance(r, x)
         /\ \A i \in 1 .. Distance(r, x) : Slice(a, r, x)[i] = a[Forward(r, i - 1, m_Size)]
<1>1. Distance(r, x) \in 0 .. Length /\ Length \in Nat
  BY DistanceRange, ConstantsAssumption
<1>2. ASSUME NEW i \in 1 .. Distance(r, x)
      PROVE  a[Forward(r, i - 1, m_Size)] \in Elements
  <2>1. i - 1 \in 0 .. Length
    BY <1>1
  <2>2. QED
    BY <2>1, ForwardRange
<1>3. QED
  BY <1>1, <1>2 DEF Slice

\* A block that lies behind the end is appended by moving the end.
LEMMA SliceGrows ==
  ASSUME NEW a \in [0 .. m_Size - 1 -> Elements],
         NEW r \in 0 .. m_Size - 1, NEW x \in 0 .. m_Size - 1,
         NEW n \in Nat, n <= Length - Distance(r, x),
         NEW b \in Seq(Elements), Len(b) = n,
         \A k \in 0 .. n - 1 : a[Forward(x, k, m_Size)] = b[k + 1]
  PROVE  Slice(a, r, Forward(x, n, m_Size)) = Slice(a, r, x) \o b
<1>1. PICK c \in Nat : c = Distance(r, x) /\ c <= Length
  BY DistanceRange, ConstantsAssumption
<1>2. PICK y \in 0 .. m_Size - 1 : y = Forward(x, n, m_Size) /\ Distance(r, y) = c + n
  BY <1>1, DistanceAfterWrite
<1>3. PICK s : s = Slice(a, r, x)
  OBVIOUS
<1>4. PICK q : q = Slice(a, r, y)
  OBVIOUS
<1>5. /\ s \in Seq(Elements) /\ Len(s) = c
      /\ \A i \in 1 .. c : s[i] = a[Forward(r, i - 1, m_Size)]
  BY <1>1, <1>3, SliceIsSeq
<1>6. /\ q \in Seq(Elements) /\ Len(q) = c + n
      /\ \A i \in 1 .. c + n : q[i] = a[Forward(r, i - 1, m_Size)]
  <2>1. /\ q \in Seq(Elements) /\ Len(q) = Distance(r, y)
        /\ \A i \in 1 .. Distance(r, y) : q[i] = a[Forward(r, i - 1, m_Size)]
    BY <1>4, SliceIsSeq
  <2>2. QED
    BY <1>2, <2>1
<1>7. /\ s \o b \in Seq(Elements) /\ Len(s \o b) = c + n
      /\ \A i \in 1 .. c + n : (s \o b)[i] = IF i <= c THEN s[i] ELSE b[i - c]
  BY <1>5, ConcatProperties
<1>8. ASSUME NEW i \in 1 .. c + n
      PROVE  q[i] = (s \o b)[i]
  <2>1. CASE i <= c
    <3>1. i \in 1 .. c
      BY <1>1, <2>1
    <3>2. s[i] = a[Forward(r, i - 1, m_Size)]
      BY <1>5, <3>1
    <3>3. QED
      BY <1>6, <1>7, <2>1, <3>2
  <2>2. CASE i > c
    <3>1. PICK k \in 0 .. n - 1 : i - 1 = c + k /\ i - c = k + 1
      <4>1. i - c - 1 \in 0 .. n - 1 /\ i - 1 = c + (i - c - 1) /\ i - c = (i - c - 1) + 1
        BY <1>1, <2>2
      <4>2. QED
        BY <4>1
    <3>2. Forward(x, k, m_Size) = Forward(r, c + k, m_Size)
      BY <1>1, ForwardAgain, ConstantsAssumption, SMTT(30)
    <3>3. q[i] = a[Forward(r, c + k, m_Size)] /\ (s \o b)[i] = b[k + 1]
      <4>1. ~(i <= c)
        BY <1>1, <2>2
      <4>2. QED
        BY <1>6, <1>7, <3>1, <4>1
    <3>4. QED
      BY <3>2, <3>3
  <2>3. i <= c \/ i > c
    BY <1>1
  <2>4. QED
    BY <2>1, <2>2, <2>3
<1>9. q = s \o b
  BY <1>6, <1>7, <1>8, SeqEqual
<1>10. QED
  BY <1>2, <1>3, <1>4, <1>9

\* Moving the front cuts the first elements off.
LEMMA SliceShrinks ==
  ASSUME NEW a \in [0 .. m_Size - 1 -> Elements],
         NEW r \in 0 .. m_Size - 1, NEW x \in 0 .. m_Size - 1,
         NEW n \in Nat, n <= Distance(r, x),
         NEW b \in Seq(Elements), Len(b) = n,
         \A k \in 0 .. n - 1 : b[k + 1] = a[Forward(r, k, m_Size)]
  PROVE  /\ b = SubSeq(Slice(a, r, x), 1, n)
         /\ Slice(a, Forward(r, n, m_Size), x)
              = SubSeq(Slice(a, r, x), n + 1, Len(Slice(a, r, x)))
<1>1. PICK c \in Nat : c = Distance(r, x) /\ c <= Length
  BY DistanceRange, ConstantsAssumption
<1>2. PICK y \in 0 .. m_Size - 1 : y = Forward(r, n, m_Size) /\ Distance(y, x) = c - n
  BY <1>1, DistanceAfterRead
<1>3. PICK s : s = Slice(a, r, x)
  OBVIOUS
<1>4. PICK q : q = Slice(a, y, x)
  OBVIOUS
<1>5. /\ s \in Seq(Elements) /\ Len(s) = c
      /\ \A i \in 1 .. c : s[i] = a[Forward(r, i - 1, m_Size)] /\ s[i] \in Elements
  BY <1>1, <1>3, SliceIsSeq, ElementOfSeq
<1>6. /\ q \in Seq(Elements) /\ Len(q) = c - n
      /\ \A i \in 1 .. c - n : q[i] = a[Forward(y, i - 1, m_Size)]
  <2>1. /\ q \in Seq(Elements) /\ Len(q) = Distance(y, x)
        /\ \A i \in 1 .. Distance(y, x) : q[i] = a[Forward(y, i - 1, m_Size)]
    BY <1>4, SliceIsSeq
  <2>2. QED
    BY <1>2, <2>1
<1>7. b = SubSeq(s, 1, n)
  <2>1. \A i \in 1 .. n : s[i] \in Elements
    BY <1>1, <1>5
  <2>2. /\ SubSeq(s, 1, n) \in Seq(Elements) /\ Len(SubSeq(s, 1, n)) = n
        /\ \A i \in 1 .. n - 1 + 1 : SubSeq(s, 1, n)[i] = s[1 + i - 1]
    BY <2>1, SubSeqProperties
  <2>3. ASSUME NEW i \in 1 .. n
        PROVE  b[i] = SubSeq(s, 1, n)[i]
    <3>1. PICK k \in 0 .. n - 1 : i = k + 1 /\ k = i - 1
      OBVIOUS
    <3>2. SubSeq(s, 1, n)[i] = s[i] /\ s[i] = a[Forward(r, k, m_Size)]
      BY <1>1, <1>5, <2>2, <3>1
    <3>3. QED
      BY <3>1, <3>2
  <2>4. QED
    BY <2>2, <2>3, SeqEqual
<1>8. q = SubSeq(s, n + 1, c)
  <2>1. \A i \in n + 1 .. c : s[i] \in Elements
    BY <1>1, <1>5
  <2>2. /\ SubSeq(s, n + 1, c) \in Seq(Elements)
        /\ Len(SubSeq(s, n + 1, c)) = IF n + 1 <= c THEN c - (n + 1) + 1 ELSE 0
        /\ \A i \in 1 .. c - (n + 1) + 1 : SubSeq(s, n + 1, c)[i] = s[(n + 1) + i - 1]
    BY <2>1, SubSeqProperties
  <2>3. Len(SubSeq(s, n + 1, c)) = c - n /\ c - (n + 1) + 1 = c - n
    BY <1>1, <2>2
  <2>4. ASSUME NEW i \in 1 .. c - n
        PROVE  q[i] = SubSeq(s, n + 1, c)[i]
    <3>1. PICK k \in Nat : k = i - 1 /\ i = k + 1 /\ n + k <= Length
      BY <1>1, ConstantsAssumption
    <3>2. Forward(y, k, m_Size) = Forward(r, n + k, m_Size)
      BY <1>2, <3>1, ForwardTwice
    <3>3. /\ n + i \in 1 .. c /\ (n + 1) + i - 1 = n + i /\ (n + i) - 1 = n + k
      BY <1>1, <3>1
    <3>4. s[n + i] = a[Forward(r, n + k, m_Size)]
      BY <1>5, <3>3
    <3>5. SubSeq(s, n + 1, c)[i] = s[n + i]
      BY <2>2, <2>3, <3>3
    <3>6. QED
      BY <1>6, <3>1, <3>2, <3>4, <3>5
  <2>5. QED
    BY <1>6, <2>2, <2>3, <2>4, SeqEqual
<1>9. QED
  BY <1>2, <1>3, <1>4, <1>5, <1>7, <1>8

\* And so is what the ring holds.
LEMMA ContentsIsSeq ==
  ASSUME TypeOK
  PROVE  Contents = Slice(m_Array, ReadPointer, WritePointer) /\ Len(Contents) = Count
BY SliceIsSeq DEF TypeOK, Contents, Count, Slice

------------------------------------------------------------------------------
\* The initial states satisfy the invariant of the refinement.
LEMMA InitRInv == Init => RInv
BY InitIInv DEF Init, RInv, Stored, Fetched

\* Every step but a copy and an advance leaves the ring, the numbering and the copies alone.
LEMMA OtherStepsKeepCopies ==
  ASSUME ByteElements, RInv, [Next]_vars,
         \A t \in Threads : ~CopyElement(t) /\ ~Advance(t)
  PROVE  RInv' /\ UNCHANGED <<ring, stream>>
<1> USE DEF Move, ring, flags, call, copy, stream, RInv
<1>1. IInv'
  BY NextKeepsIInv DEF ByteElements
<1>2. CASE UNCHANGED vars
  BY <1>1, <1>2 DEF vars, Stored, Fetched
<1>3. CASE TerminateWait \/ EnableWaitBack
  BY <1>3 DEF TerminateWait, EnableWaitBack, ByteElements, OneWriterOneReader
<1>4. ASSUME NEW t \in Threads, Call(t) \/ Counting(t) \/ Acquire(t) \/ TakeLock(t) \/ Release(t)
      PROVE  RInv' /\ UNCHANGED <<ring, stream>>
  <2>1. PICK to \in PCs : pc' = [pc EXCEPT ![t] = to] /\ pc[t] # "copy"
    BY <1>4 DEF Call, StartWrite, StartRead, StartFlush, Begin, Counting, AwaitCounters,
       CountersTerminated, LockCounters, CompareEqual, ComputeCounter, UnlockCounters, Compare,
       Acquire, TakeLock, Release, PCs
  <2>2. UNCHANGED <<ring, stream, copied, buffer>>
    BY <1>4 DEF Call, StartWrite, StartRead, StartFlush, Begin, Counting, AwaitCounters,
       CountersTerminated, LockCounters, CompareEqual, ComputeCounter, UnlockCounters, Compare,
       Acquire, TakeLock, Release
  <2>3. (\A s \in Threads : s # t => op'[s] = op[s]) /\ (to = "copy" => op' = op)
    BY <1>4, <2>1 DEF Call, StartWrite, StartRead, StartFlush, Begin, Counting, AwaitCounters,
       CountersTerminated, LockCounters, CompareEqual, ComputeCounter, UnlockCounters, Compare,
       Acquire, TakeLock, Release, IInv, TypeOK
  <2>4. copied[t] = 0 /\ buffer[t] = << >>
    BY <2>1 DEF IInv, AtPointer, Fetched
  <2>5. Stored'
    BY <2>1, <2>2, <2>3, <2>4 DEF Stored, IInv, TypeOK
  <2>6. Fetched'
    BY <2>1, <2>2, <2>3, <2>4, SMTT(30) DEF Fetched, IInv, TypeOK
  <2>7. QED
    BY <1>1, <2>2, <2>5, <2>6
<1>5. ASSUME NEW t \in Threads, Flushing(t)
      PROVE  FALSE
  BY <1>5 DEF Flushing, FlushAwait, FlushTake, FlushReset, FlushRelease, IInv, Roles, CallPCs
<1>6. QED
  BY <1>2, <1>3, <1>4, <1>5 DEF Next, Step, Copying

\* The slot the writer fills holds no element of the queue.
LEMMA CopyKeepsRInv ==
  ASSUME ByteElements, RInv, NEW t \in Threads, CopyElement(t)
  PROVE  RInv' /\ UNCHANGED <<Contents, stream>>
<1> USE DEF RInv
<1> DEFINE k == copied[t]
           slot == Forward(base[t], k, m_Size)
<1>1. IInv'
  BY NextKeepsIInv DEF ByteElements, Next, Step, Copying
<1>2. TypeOK /\ TypeOK'
  BY <1>1 DEF IInv
<1>3. /\ pc[t] = "copy" /\ k < len[t] /\ pc' = pc /\ op' = op /\ len' = len
      /\ copied' = [copied EXCEPT ![t] = k + 1]
      /\ UNCHANGED <<WritePointer, ReadPointer, stream>>
  BY DEF CopyElement, stream, call
<1>4. /\ k \in Nat /\ len[t] \in Nat /\ Count \in Nat /\ Length \in Nat /\ Count <= Length
      /\ op[t] = "Write" => len[t] <= Length - Count
      /\ op[t] = "Read" => len[t] <= Count
  BY <1>2, <1>3, NumbersAreNaturals, CountRange DEF IInv, Room
<1>5. WritePointer \in 0 .. m_Size - 1 /\ ReadPointer \in 0 .. m_Size - 1
  BY <1>2 DEF TypeOK
<1>6. CASE op[t] = "Write"
  <2>1. base[t] = WritePointer /\ buffer' = buffer
    BY <1>3, <1>6 DEF CopyElement, IInv, AtPointer
  <2>2. m_Array' = [m_Array EXCEPT ![slot] = Forward(next, k, Modulus)]
    <3>1. Memcpy(t, k, m_Array[slot], Forward(next, k, Modulus)) = Forward(next, k, Modulus)
      BY <1>2, <1>3, <1>4, <1>6, MemcpyMoves DEF ByteElements
    <3>2. QED
      BY <1>6, <3>1 DEF CopyElement
  <2>3. slot = Forward(ReadPointer, Count + k, m_Size) /\ slot \in 0 .. m_Size - 1
    <3>1. Forward(WritePointer, k, m_Size) = Forward(ReadPointer, Count + k, m_Size)
      BY <1>3, <1>4, <1>5, <1>6, ForwardAgain DEF Count
    <3>2. Count + k \in 0 .. Length
      BY <1>3, <1>4, <1>6
    <3>3. QED
      BY <1>5, <2>1, <3>1, <3>2, ForwardRange
  <2>4. ASSUME NEW j \in Nat, j < Count
        PROVE  m_Array'[Forward(ReadPointer, j, m_Size)] = m_Array[Forward(ReadPointer, j, m_Size)]
    <3>1. j \in 0 .. Length /\ Count + k \in 0 .. Length /\ j # Count + k
      BY <1>3, <1>4, <1>6, <2>4
    <3>2. Forward(ReadPointer, j, m_Size) # slot
      BY <1>5, <2>3, <3>1, ForwardInjective
    <3>3. Forward(ReadPointer, j, m_Size) \in 0 .. m_Size - 1
      BY <1>5, <3>1, ForwardRange
    <3>4. QED
      BY <1>2, <2>2, <3>2, <3>3 DEF TypeOK
  <2>5. Contents' = Contents
    <3>1. Count' = Count
      BY <1>3 DEF Count
    <3>2. \A i \in 1 .. Count : i - 1 \in Nat /\ i - 1 < Count
      BY <1>4
    <3>3. \A i \in 1 .. Count : m_Array'[Forward(ReadPointer, i - 1, m_Size)]
                               = m_Array[Forward(ReadPointer, i - 1, m_Size)]
      BY <2>4, <3>2
    <3>4. QED
      BY <1>3, <3>1, <3>3 DEF Contents
  <2>6. Stored'
    <3>1. SUFFICES ASSUME NEW s \in Threads, pc[s] = "copy", op[s] = "Write",
                          NEW j \in 0 .. copied'[s] - 1
                   PROVE  m_Array'[Forward(WritePointer, j, m_Size)] = Forward(next, j, Modulus)
      BY <1>3 DEF Stored, stream
    <3>2. s = t
      BY <1>3, <1>6, <3>1 DEF IInv, Roles, ByteElements, OneWriterOneReader
    <3>3. j \in 0 .. k
      BY <1>2, <1>3, <1>4, <3>2 DEF TypeOK
    <3>4. CASE j = k
      BY <1>2, <2>1, <2>2, <2>3, <3>4 DEF TypeOK
    <3>5. CASE j # k
      <4>1. j \in Nat /\ j < k /\ j \in 0 .. Length /\ k \in 0 .. Length
        BY <1>3, <1>4, <1>6, <3>3, <3>5
      <4>2. Forward(WritePointer, j, m_Size) # slot
        BY <1>5, <2>1, <4>1, ForwardInjective
      <4>3. m_Array[Forward(WritePointer, j, m_Size)] = Forward(next, j, Modulus)
        BY <1>3, <1>4, <1>6, <4>1 DEF Stored
      <4>4. Forward(WritePointer, j, m_Size) \in 0 .. m_Size - 1
        BY <1>5, <4>1, ForwardRange
      <4>5. QED
        BY <1>2, <2>2, <4>2, <4>3, <4>4 DEF TypeOK
    <3>6. QED
      BY <3>4, <3>5
  <2>7. Fetched'
    <3>1. SUFFICES ASSUME NEW s \in Threads, pc[s] = "copy", op[s] = "Read",
                          NEW j \in 0 .. copied[s] - 1
                   PROVE  m_Array'[Forward(ReadPointer, j, m_Size)]
                            = m_Array[Forward(ReadPointer, j, m_Size)]
      <4>1. \A s \in Threads : pc[s] = "copy" /\ op[s] = "Read" => copied'[s] = copied[s]
        BY <1>2, <1>3, <1>6 DEF TypeOK
      <4>2. QED
        BY <1>3, <2>1, <3>1, <4>1 DEF Fetched
    <3>2. len[s] <= Count /\ copied[s] <= len[s] /\ copied[s] \in Nat /\ len[s] \in Nat
      BY <1>2, <3>1, NumbersAreNaturals DEF IInv, Room, AtPointer
    <3>3. j \in Nat /\ j < Count
      BY <1>4, <3>2
    <3>4. QED
      BY <2>4, <3>3
  <2>8. QED
    BY <1>1, <1>3, <2>5, <2>6, <2>7
<1>7. CASE op[t] = "Read"
  <2>1. base[t] = ReadPointer /\ m_Array' = m_Array
    BY <1>3, <1>7 DEF CopyElement, IInv, AtPointer
  <2>2. slot \in 0 .. m_Size - 1
    BY <1>3, <1>4, <1>5, <1>7, <2>1, ForwardRange
  <2>3. buffer' = [buffer EXCEPT ![t] = Append(buffer[t], m_Array[slot])]
    <3>1. Memcpy(t, k, None, m_Array[slot]) = m_Array[slot]
      BY <1>2, <1>3, <1>4, <1>7, MemcpyMoves DEF ByteElements
    <3>2. QED
      BY <1>7, <3>1 DEF CopyElement
  <2>4. Contents' = Contents
    BY <1>3, <2>1 DEF Contents, Count
  <2>5. Stored'
    BY <1>2, <1>3, <1>7, <2>1 DEF Stored, stream, TypeOK
  <2>6. Fetched'
    <3>1. buffer[t] \in Seq(Elements) /\ m_Array[slot] \in Elements /\ Len(buffer[t]) = k
          /\ buffer'[t] = Append(buffer[t], m_Array[slot]) /\ copied'[t] = k + 1
      BY <1>2, <1>3, <1>7, <2>2, <2>3 DEF TypeOK, Fetched
    <3>2. /\ Len(buffer'[t]) = k + 1
          /\ \A i \in 1 .. k : buffer'[t][i] = buffer[t][i]
          /\ buffer'[t][k + 1] = m_Array[slot]
      BY <3>1, AppendProperties
    <3>3. \A j \in 0 .. k : buffer'[t][j + 1] = m_Array[Forward(ReadPointer, j, m_Size)]
      <4>1. \A j \in 0 .. k - 1 : buffer[t][j + 1] = m_Array[Forward(ReadPointer, j, m_Size)]
        BY <1>3, <1>7 DEF Fetched
      <4>2. \A j \in 0 .. k - 1 : j + 1 \in 1 .. k
        BY <1>4
      <4>3. QED
        BY <1>4, <2>1, <3>2, <4>1, <4>2
    <3>4. \A s \in Threads : s # t => buffer'[s] = buffer[s] /\ copied'[s] = copied[s]
      BY <1>2, <1>3, <2>3 DEF TypeOK
    <3>5. \A s \in Threads : s # t => ~(pc[s] = "copy" /\ op[s] = "Read")
      BY <1>3, <1>7 DEF IInv, Roles, ByteElements, OneWriterOneReader
    <3>6. ReadPointer' = ReadPointer /\ pc' = pc /\ op' = op /\ (k + 1) - 1 = k
      BY <1>3, <1>4
    <3>7. SUFFICES ASSUME NEW s \in Threads
                   PROVE  IF pc[s] = "copy" /\ op[s] = "Read"
                          THEN /\ Len(buffer'[s]) = copied'[s]
                               /\ \A j \in 0 .. copied'[s] - 1 :
                                    buffer'[s][j + 1] = m_Array[Forward(ReadPointer, j, m_Size)]
                          ELSE buffer'[s] = << >>
      BY <2>1, <3>6 DEF Fetched
    <3>8. CASE s = t
      BY <1>3, <1>7, <3>1, <3>2, <3>3, <3>6, <3>8
    <3>9. CASE s # t
      BY <3>4, <3>5, <3>9 DEF Fetched
    <3>10. QED
      BY <3>8, <3>9
  <2>7. QED
    BY <1>1, <1>3, <2>4, <2>5, <2>6
<1>8. QED
  BY <1>6, <1>7 DEF CopyElement

------------------------------------------------------------------------------
\* In Write, the Advance is the Put.
LEMMA AdvanceIsPut ==
  ASSUME ByteElements, RInv, NEW t \in Threads, Advance(t), op[t] = "Write"
  PROVE  RInv' /\ Queue!Put(len[t])
<1> USE DEF RInv
<1> DEFINE n == len[t]
<1>1. IInv'
  BY NextKeepsIInv DEF ByteElements, Next, Step, Copying
<1>2. TypeOK /\ TypeOK'
  BY <1>1 DEF IInv
<1>3. /\ pc[t] = "copy" /\ copied[t] = n /\ n \in Chunks /\ base[t] = WritePointer
      /\ pc' = [pc EXCEPT ![t] = "release"] /\ op' = op
      /\ copied' = [copied EXCEPT ![t] = 0]
      /\ buffer' = [buffer EXCEPT ![t] = << >>]
      /\ UNCHANGED <<m_Array, ReadPointer, delivered>>
      /\ next' = Forward(next, n, Modulus)
      /\ WritePointer' = Moved(t, WritePointer)
  BY DEF Advance, Move, call, IInv, Roles, AtPointer
<1>4. /\ n \in Nat /\ Count \in Nat /\ Length \in Nat /\ Count <= Length
      /\ n <= Length - Count
      /\ WritePointer \in 0 .. m_Size - 1 /\ ReadPointer \in 0 .. m_Size - 1
  <2>1. n \in Nat /\ Count \in Nat /\ Length \in Nat /\ Count <= Length
    BY <1>2, NumbersAreNaturals, CountRange
  <2>2. n <= Length - Count
    BY <1>3 DEF IInv, Room
  <2>3. QED
    BY <1>2, <2>1, <2>2 DEF TypeOK
<1>5. WritePointer' = Forward(WritePointer, n, m_Size)
  BY <1>3, <1>4, MovedIsForward
<1>6. Count' = Count + n
  BY <1>3, <1>4, <1>5, DistanceAfterWrite DEF Count
<1>7. \A s \in Threads : pc[s] = "copy" /\ op[s] = "Write" => s = t
  BY <1>3 DEF IInv, Roles, ByteElements, OneWriterOneReader
<1>8. Stored'
  BY <1>2, <1>3, <1>7 DEF Stored, TypeOK
<1>9. Fetched'
  BY <1>2, <1>3 DEF Fetched, TypeOK
<1>10. Contents' = Contents \o Queue!Block(next, n)
  <2>1. PICK b : b = Queue!Block(next, n)
    OBVIOUS
  <2>2. b \in Seq(Elements) /\ Len(b) = n /\ \A i \in 1 .. n : b[i] = Forward(next, i - 1, Modulus)
    <3>1. n < Modulus /\ Modulus \in Nat
      BY <1>3, ConstantsAssumption
    <3>2. \A i \in 1 .. n : Forward(next, i - 1, Modulus) \in Elements
      BY <1>2, <1>4, <3>1, SMTT(30) DEF TypeOK, Forward, Elements
    <3>3. b = [i \in 1 .. n |-> Forward(next, i - 1, Modulus)]
      BY <2>1 DEF Queue!Block, Queue!Forward, Forward
    <3>4. QED
      BY <1>4, <3>2, <3>3, SMTT(30)
  <2>3. \A k \in 0 .. n - 1 : m_Array[Forward(WritePointer, k, m_Size)] = b[k + 1]
    <3>1. \A k \in 0 .. n - 1 : k + 1 \in 1 .. n /\ (k + 1) - 1 = k
      BY <1>4
    <3>2. \A k \in 0 .. n - 1 : m_Array[Forward(WritePointer, k, m_Size)] = Forward(next, k, Modulus)
      BY <1>3 DEF Stored
    <3>3. QED
      BY <2>2, <3>1, <3>2
  <2>4. Slice(m_Array, ReadPointer, WritePointer')
          = Slice(m_Array, ReadPointer, WritePointer) \o b
    <3>1. /\ m_Array \in [0 .. m_Size - 1 -> Elements]
          /\ n <= Length - Distance(ReadPointer, WritePointer)
      BY <1>2, <1>4 DEF TypeOK, Count
    <3>2. QED
      BY <1>4, <1>5, <2>2, <2>3, <3>1, SliceGrows, ZenonT(30)
  <2>5. Contents' = Slice(m_Array, ReadPointer, WritePointer')
    BY <1>3 DEF Contents, Count, Slice
  <2>6. QED
    BY <1>2, <2>1, <2>4, <2>5, ContentsIsSeq
<1>11. \A s \in Threads : pc[s] # "flush_w" /\ pc'[s] # "flush_w"
  BY <1>1 DEF IInv, Roles, CallPCs
<1>12. Len(Contents) + n <= Length
  BY <1>2, <1>4, ContentsIsSeq
<1>13. QED
  BY <1>1, <1>3, <1>8, <1>9, <1>10, <1>11, <1>12 DEF Queue!Put, Queue!Forward, Forward

\* In Read, the Advance is the Take.
LEMMA AdvanceIsTake ==
  ASSUME ByteElements, RInv, NEW t \in Threads, Advance(t), op[t] = "Read"
  PROVE  RInv' /\ Queue!Take(len[t])
<1> USE DEF RInv
<1> DEFINE n == len[t]
<1>1. IInv'
  BY NextKeepsIInv DEF ByteElements, Next, Step, Copying
<1>2. TypeOK /\ TypeOK'
  BY <1>1 DEF IInv
<1>3. /\ pc[t] = "copy" /\ copied[t] = n /\ base[t] = ReadPointer
      /\ pc' = [pc EXCEPT ![t] = "release"] /\ op' = op
      /\ copied' = [copied EXCEPT ![t] = 0]
      /\ buffer' = [buffer EXCEPT ![t] = << >>]
      /\ UNCHANGED <<m_Array, WritePointer, next>>
      /\ delivered' = buffer[t]
      /\ ReadPointer' = Moved(t, ReadPointer)
  BY DEF Advance, Move, call, IInv, AtPointer
<1>4. /\ n \in Nat /\ n <= Count
      /\ WritePointer \in 0 .. m_Size - 1 /\ ReadPointer \in 0 .. m_Size - 1
      /\ m_Array \in [0 .. m_Size - 1 -> Elements]
  <2>1. n \in Nat
    BY <1>2, NumbersAreNaturals
  <2>2. n <= Count
    BY <1>3 DEF IInv, Room
  <2>3. QED
    BY <1>2, <2>1, <2>2 DEF TypeOK
<1>5. ReadPointer' = Forward(ReadPointer, n, m_Size)
  BY <1>3, <1>4, MovedIsForward
<1>6. Stored'
  BY <1>2, <1>3 DEF Stored, TypeOK
<1>7. \A s \in Threads : pc[s] = "copy" /\ op[s] = "Read" => s = t
  BY <1>3 DEF IInv, Roles, ByteElements, OneWriterOneReader
<1>8. Fetched'
  BY <1>2, <1>3, <1>7 DEF Fetched, TypeOK
<1>9. PICK b : b = buffer[t]
  OBVIOUS
<1>10. /\ b \in Seq(Elements) /\ Len(b) = n
       /\ \A k \in 0 .. n - 1 : b[k + 1] = m_Array[Forward(ReadPointer, k, m_Size)]
  BY <1>2, <1>3, <1>9 DEF TypeOK, Fetched
<1>11. /\ b = SubSeq(Contents, 1, n)
       /\ Slice(m_Array, ReadPointer', WritePointer) = SubSeq(Contents, n + 1, Len(Contents))
  <2>1. n <= Distance(ReadPointer, WritePointer)
    BY <1>4 DEF Count
  <2>2. Contents = Slice(m_Array, ReadPointer, WritePointer)
    BY <1>2, ContentsIsSeq
  <2>3. QED
    BY <1>4, <1>5, <1>10, <2>1, <2>2, SliceShrinks
<1>12. Contents' = SubSeq(Contents, n + 1, Len(Contents))
  BY <1>3, <1>11 DEF Contents, Count, Slice
<1>13. \A s \in Threads : pc[s] # "flush_w" /\ pc'[s] # "flush_w"
  BY <1>1 DEF IInv, Roles, CallPCs
<1>14. n <= Len(Contents)
  BY <1>2, <1>4, ContentsIsSeq
<1>15. QED
  BY <1>1, <1>3, <1>6, <1>8, <1>9, <1>11, <1>12, <1>13, <1>14 DEF Queue!Take

------------------------------------------------------------------------------
\* c_FIFO implements the queue: whatever a Read delivers is what was written, in order,
\* once each, and no Write is lost.
THEOREM FifoImplementsQueue == ASSUME ByteElements PROVE Spec => ImplementsQueue
<1>1. Init => RInv /\ Queue!Init
  <2>1. ASSUME Init PROVE Queue!Init
    <3>1. Contents = << >>
      BY <2>1, ConstantsAssumption DEF Init, Contents, Count, Distance, m_Size
    <3>2. QED
      BY <2>1, <3>1 DEF Init, Queue!Init
  <2>2. QED
    BY <2>1, InitRInv
<1>2. ASSUME RInv, [Next]_vars
      PROVE  RInv' /\ [Queue!Next]_<<IF \E t \in Threads : pc[t] = "flush_w" THEN << >> ELSE Contents,
                                     next, delivered>>
  <2>1. (\A t \in Threads : pc[t] # "flush_w") /\ (RInv' => \A t \in Threads : pc'[t] # "flush_w")
    BY <1>2 DEF RInv, IInv, Roles, CallPCs
  <2>2. CASE \A t \in Threads : ~CopyElement(t) /\ ~Advance(t)
    BY <1>2, <2>1, <2>2, OtherStepsKeepCopies DEF ring, stream, Contents, Count
  <2>3. ASSUME NEW t \in Threads, CopyElement(t)
        PROVE  RInv' /\ UNCHANGED <<Contents, next, delivered>>
    BY <1>2, <2>3, CopyKeepsRInv DEF stream
  <2>4. ASSUME NEW t \in Threads, Advance(t)
        PROVE  RInv' /\ Queue!Next
    <3>1. op[t] = "Write" \/ op[t] = "Read"
      BY <2>4 DEF Advance
    <3>2. len[t] \in Chunks
      BY <1>2, <2>4 DEF RInv, IInv, Roles, Advance, Move
    <3>3. RInv' /\ (Queue!Put(len[t]) \/ Queue!Take(len[t]))
      BY <1>2, <2>4, <3>1, AdvanceIsPut, AdvanceIsTake
    <3>4. QED
      BY <3>2, <3>3 DEF Queue!Next, Queue!Put, Queue!Take
  <2>5. QED
    BY <2>1, <2>2, <2>3, <2>4
<1>3. QED
  BY <1>1, <1>2, PTL DEF Spec, ImplementsQueue, Queue!Spec
==============================================================================
