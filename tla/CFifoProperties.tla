-------------------------- MODULE CFifoProperties ---------------------------
\* What c_FIFO promises: one thread that writes and one that reads, unless said otherwise.
EXTENDS CFifo

PCs == {"idle", "free", "count", "lock_counters", "equal", "less", "value", "wrapped",
        "unlock_counters", "compare", "acquire", "take", "copy", "release",
        "flush_counters", "flush_lock", "flush_read", "flush_write", "flush_take",
        "flush_r", "flush_w", "flush_release"}

Elements == (0 .. Modulus - 1) \cup {None}

\* Types and ranges.  With the ranges of the two pointers no index leaves m_Array.
TypeOK ==
  /\ m_Array \in [0 .. m_Size - 1 -> Elements]
  /\ WritePointer \in 0 .. m_Size - 1
  /\ ReadPointer \in 0 .. m_Size - 1
  /\ PossibleUseCounters \in BOOLEAN /\ PossibleRead \in BOOLEAN /\ PossibleWrite \in BOOLEAN
  /\ ThisTerminating \in BOOLEAN
  /\ pc \in [Threads -> PCs]
  /\ op \in [Threads -> {"none", "Write", "Read", "Flush"}]
  /\ len \in [Threads -> Chunks \cup {0}]
  /\ avail \in [Threads -> 0 .. UIntRange - 1]
  /\ base \in [Threads -> 0 .. m_Size - 1]
  /\ copied \in [Threads -> Nat]
  /\ buffer \in [Threads -> Seq(Elements)]
  /\ next \in 0 .. Modulus - 1
  /\ delivered \in Seq(Elements)

\* What a thread got from GetCounter or GetCounterFree may be stale when it compares
\* it with DataLength and when it copies, but it never promises too much: there are at
\* least that many elements to read, or that much free space.
CounterSound ==
  \A t \in Threads :
    pc[t] = "compare" =>
      /\ op[t] = "Write" => avail[t] <= Length - Count
      /\ op[t] = "Read" => avail[t] <= Count

\* A block that is being copied in and a block that is being copied out share no slot:
\* no element is overwritten before it is read and none is read before it is written.
NoOverlap ==
  \A w, r \in Threads :
    /\ pc[w] = "copy" /\ op[w] = "Write"
    /\ pc[r] = "copy" /\ op[r] = "Read"
    => Region(w) \cap Region(r) = {}

\* When every call has returned, the three flags can be taken again.
FlagsRestored ==
  (\A t \in Threads : pc[t] = "idle") =>
    PossibleUseCounters /\ PossibleRead /\ PossibleWrite

\* The ring implements the queue.
Queue == INSTANCE ByteQueue WITH
  queue <- IF \E t \in Threads : pc[t] = "flush_w" THEN << >> ELSE Contents
ImplementsQueue == Queue!Spec

\* Every call returns, if the polls do not miss the flags for ever and the users go on.
CallsReturn == \A t \in Threads : pc[t] # "idle" ~> pc[t] = "idle"

\* After TerminateWait every call that waits returns, whatever the other threads do,
\* unless EnableWaitBack comes first.
TerminationReleases ==
  \A t \in Threads : ThisTerminating /\ pc[t] # "idle" ~> pc[t] = "idle" \/ ~ThisTerminating
==============================================================================
