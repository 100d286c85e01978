------------------------------ MODULE FifoBulk ------------------------------
(***************************************************************************)
(* One half of TFIFO_BULK (DEVS/USB/WINDOWS/FIFO_Bulk.cpp): a thread keeps  *)
(* a queue of overlapped requests going on a USB bulk pipe and moves what   *)
(* they transfer from or to a c_FIFO; the user reads or writes the c_FIFO   *)
(* and starts, flushes and stops the whole.  The two halves run the same    *)
(* way and share nothing, so dir says which of them is looked at.           *)
(*                                                                          *)
(* The parts are taken at the level their own modules establish: a call of  *)
(* c_FIFO is one step on a sequence (ByteQueue; one thread writes and one   *)
(* reads), and Stop, WaitFor and Start of c_thread are one step each        *)
(* (CThread, the build with _WIN32).  The bytes of the stream come in       *)
(* units, numbered modulo Modulus; Packet of them are BULK_ENDPOINT_SIZE.   *)
(***************************************************************************)
EXTENDS Naturals, Sequences

CONSTANTS
  QueueNumber,  \* ReadQueueNumber, WriteQueueNumber
  QueueSize,    \* ReadQueueSize, WriteQueueSize
  FifoSize,     \* the Length of the c_FIFO
  Packet,       \* BULK_ENDPOINT_SIZE
  Lengths,      \* the values of DataLength
  Modulus

ASSUME BulkAssumption ==
  /\ {QueueNumber, QueueSize, FifoSize, Packet} \subseteq Nat \ {0}
  /\ QueueSize <= FifoSize
  /\ Lengths \subseteq Nat \ {0}
  /\ Modulus \in Nat /\ Modulus > FifoSize + (QueueNumber + 1) * QueueSize

VARIABLES
  dir,      \* "read" or "write"
  Stopped,
  worker,   \* where the thread is in Execute
  Index,
  slot,     \* the request of each index and its buffer
  event,    \* hEvent of each request
  chunk,    \* what the thread has taken from a request or from the FIFO
  size,     \* its Size or SizeWrite
  fifo,     \* FifoRead or FifoWrite
  source,   \* the number of the next unit the device sends or the user writes
  last,     \* the last unit that left the other end, if any since the last Flush
  agenda,   \* what the user's call has still to do
  want,     \* its DataLength, of what is left to do
  counter,  \* what GetCounter or GetCounterFree told it
  killed    \* Start has terminated a thread

requests == <<slot, event>>
local == <<Index, chunk, size>>
user == <<agenda, want, counter>>
vars == <<dir, Stopped, worker, local, requests, fifo, source, last, user, killed>>

Slots == 0 .. QueueNumber - 1
Request(status, data) == [status |-> status, data |-> data]
\* n units, the first of which is numbered v.
Units(v, n) == [i \in 1 .. n |-> (v + i - 1) % Modulus]
Smaller(a, b) == IF a <= b THEN a ELSE b
Final(s) == IF s = << >> THEN << >> ELSE <<s[Len(s)]>>

Init ==
  /\ dir \in {"read", "write"}
  /\ Stopped = TRUE /\ worker = "none"
  /\ Index = 0 /\ chunk = << >> /\ size = 0
  /\ slot = [i \in Slots |-> Request("idle", << >>)]
  /\ event = [i \in Slots |-> FALSE]
  /\ fifo = << >> /\ source = 0 /\ last = << >>
  /\ agenda = << >> /\ want = 0 /\ counter = 0
  /\ killed = FALSE

------------------------------------------------------------------------------
\* Execute.

Go(from, to) == worker = from /\ worker' = to

\* Mutant of Enter: the events are created unsignalled.
EnterUnsignalled ==
  /\ Go("start", IF Stopped THEN "exited" ELSE "loop")
  /\ Index' = 0
  /\ slot' = [i \in Slots |-> Request("idle", << >>)]
  /\ event' = [i \in Slots |-> FALSE]
  /\ UNCHANGED <<dir, Stopped, chunk, size, fifo, source, last, user, killed>>

\* StaticThreadRun looks at Stopped; the events are created signalled, the OVERLAPPEDs zero.
Enter ==
  /\ Go("start", IF Stopped THEN "exited" ELSE "loop")
  /\ Index' = 0
  /\ slot' = [i \in Slots |-> Request("idle", << >>)]
  /\ event' = [i \in Slots |-> TRUE]
  /\ UNCHANGED <<dir, Stopped, chunk, size, fifo, source, last, user, killed>>

\* Mutant of Loop: it does not look at Stopped.
LoopDeaf ==
  /\ Go("loop", "wait")
  /\ UNCHANGED <<dir, Stopped, local, requests, fifo, source, last, user, killed>>

Loop ==
  /\ Go("loop", IF Stopped THEN "cancel" ELSE "wait")
  /\ UNCHANGED <<dir, Stopped, local, requests, fifo, source, last, user, killed>>

\* WaitForSingleObject; the events reset themselves.
Wait ==
  /\ \/ event[Index] /\ Go("wait", "result") /\ event' = [event EXCEPT ![Index] = FALSE]
     \/ ~event[Index] /\ Go("wait", "loop") /\ UNCHANGED event
  /\ UNCHANGED <<dir, Stopped, local, slot, fifo, source, last, user, killed>>

\* Mutant of GetResult: an error does not stop the thread.
GetResultForgiving ==
  /\ Go("result", "move")
  /\ chunk' = IF dir = "read" THEN slot[Index].data ELSE << >>
  /\ size' = Len(chunk')
  /\ slot' = [slot EXCEPT ![Index] = Request("idle", << >>)]
  /\ UNCHANGED <<dir, Stopped, Index, event, fifo, source, last, user, killed>>

\* GetOverlappedResult; of a request not yet made it reports success and size 0.
GetResult ==
  /\ Go("result", "move")
  /\ Stopped' = (Stopped \/ slot[Index].status = "failed")
  /\ chunk' = IF dir = "read" THEN slot[Index].data ELSE << >>
  /\ size' = Len(chunk')
  /\ slot' = [slot EXCEPT ![Index] = Request("idle", << >>)]
  /\ UNCHANGED <<dir, Index, event, fifo, source, last, user, killed>>

\* Mutant of AwaitRoom: the free slot of the ring is counted as room.
AwaitRoomTooMuch ==
  /\ dir = "read"
  /\ \/ Go("move", "submit") /\ (size = 0 \/ Stopped)
     \/ Go("move", "put") /\ size > 0 /\ ~Stopped /\ FifoSize + 1 - Len(fifo) >= size
  /\ UNCHANGED <<dir, Stopped, local, requests, fifo, source, last, user, killed>>

\* The inner loop of the read thread: wait until the FIFO has room, unless stopped.
AwaitRoom ==
  /\ dir = "read"
  /\ \/ Go("move", "submit") /\ (size = 0 \/ Stopped)
     \/ Go("move", "put") /\ size > 0 /\ ~Stopped /\ FifoSize - Len(fifo) >= size
  /\ UNCHANGED <<dir, Stopped, local, requests, fifo, source, last, user, killed>>

Put ==
  /\ Go("put", "submit")
  /\ fifo' = fifo \o chunk
  /\ chunk' = << >> /\ size' = 0
  /\ UNCHANGED <<dir, Stopped, Index, requests, source, last, user, killed>>

\* The inner loop of the write thread: wait for a packet; whole packets are sent.
AwaitPacket ==
  /\ dir = "write"
  /\ \/ Go("move", "loop") /\ Stopped /\ UNCHANGED size
     \/ /\ Go("move", "take") /\ ~Stopped /\ Len(fifo) >= Packet
        /\ size' = (Smaller(QueueSize, Len(fifo)) \div Packet) * Packet
  /\ UNCHANGED <<dir, Stopped, Index, chunk, requests, fifo, source, last, user, killed>>

Take ==
  /\ Go("take", "submit")
  /\ chunk' = SubSeq(fifo, 1, size)
  /\ fifo' = SubSeq(fifo, size + 1, Len(fifo))
  /\ UNCHANGED <<dir, Stopped, Index, size, requests, source, last, user, killed>>

\* ReadFile or WriteFile: the request is pending, or is refused and the thread stops.
Submit ==
  /\ Go("submit", "loop")
  /\ event' = [event EXCEPT ![Index] = FALSE]
  /\ \/ slot' = [slot EXCEPT ![Index] = Request("pending", IF dir = "write" THEN chunk ELSE << >>)]
        /\ UNCHANGED Stopped
     \/ Stopped' = TRUE /\ UNCHANGED slot
  /\ Index' = (Index + 1) % QueueNumber
  /\ chunk' = << >> /\ size' = 0
  /\ UNCHANGED <<dir, fifo, source, last, user, killed>>

\* CancelIo; Windows lets a thread end only when its requests have.
Cancel ==
  /\ Go("cancel", "exited")
  /\ slot' = [i \in Slots |-> Request("idle", << >>)]
  /\ event' = [i \in Slots |-> FALSE]
  /\ UNCHANGED <<dir, Stopped, local, fifo, source, last, user, killed>>

------------------------------------------------------------------------------
\* The device serves the requests of a pipe in the order they were made in.

Age(i) == (i + QueueNumber - Index) % QueueNumber
Oldest(i) == /\ slot[i].status = "pending"
             /\ \A j \in Slots : slot[j].status = "pending" => Age(i) <= Age(j)

\* It transfers what it can, and reports an error or none.
Complete(i) ==
  /\ Oldest(i)
  /\ event' = [event EXCEPT ![i] = TRUE]
  /\ \E status \in {"done", "failed"} :
       \/ /\ dir = "read"
          /\ \E n \in 0 .. QueueSize :
               /\ slot' = [slot EXCEPT ![i] =
                            Request(status, IF status = "done" THEN Units(source, n) ELSE << >>)]
               /\ source' = (source + n) % Modulus
          /\ UNCHANGED last
       \/ /\ dir = "write"
          /\ slot' = [slot EXCEPT ![i] = Request(status, << >>)]
          /\ last' = IF status = "done" THEN Final(slot[i].data) ELSE last
          /\ UNCHANGED source
  /\ UNCHANGED <<dir, Stopped, worker, local, fifo, user, killed>>

------------------------------------------------------------------------------
\* The user.

\* Mutant of StopFIFO: it does not wait for the thread.
StopFIFOImpatient == <<"stop">>
StopFIFO == <<"stop", "wait">>
StartFIFO == StopFIFO \o <<"flush", "start">>
Flush == IF Stopped THEN <<"flush">> ELSE <<"stop", "wait", "flush", "start">>

Call(body, n) ==
  /\ agenda = << >> /\ agenda' = body
  /\ want' = n /\ counter' = 0
  /\ UNCHANGED <<dir, Stopped, worker, local, requests, fifo, source, last, killed>>

Control == Call(StartFIFO, 0) \/ Call(StopFIFO, 0) \/ Call(Flush, 0)
\* ReadBulkFIFO or WriteBulkFIFO.
Transfer == \E n \in Lengths : Call(<<"count">>, n)

Do(step, more) ==
  /\ agenda # << >> /\ Head(agenda) = step
  /\ agenda' = more \o Tail(agenda)

ThreadStop ==
  /\ Do("stop", << >>) /\ Stopped' = TRUE
  /\ UNCHANGED <<dir, worker, local, requests, fifo, source, last, want, counter, killed>>

ThreadWaitFor ==
  /\ Do("wait", << >>)
  /\ worker \in {"none", "exited"} /\ worker' = "none"
  /\ UNCHANGED <<dir, Stopped, local, requests, fifo, source, last, want, counter, killed>>

FifoFlush ==
  /\ Do("flush", << >>)
  /\ fifo' = << >> /\ last' = << >>
  /\ UNCHANGED <<dir, Stopped, worker, local, requests, source, want, counter, killed>>

\* Start terminates a thread that has not ended; its result is not looked at.
ThreadStart ==
  /\ Do("start", << >>) /\ Stopped' = FALSE
  /\ worker' \in {"start", "none"}
  /\ killed' = (killed \/ worker \notin {"none", "exited"})
  /\ UNCHANGED <<dir, local, requests, fifo, source, last, want, counter>>

\* One round of the loop of ReadBulkFIFO or WriteBulkFIFO: how much can be moved?
CountFifo ==
  /\ counter' = IF dir = "read" THEN Len(fifo) ELSE FifoSize - Len(fifo)
  /\ \/ counter' > 0 /\ Do("count", <<"transfer">>)
     \/ counter' = 0 /\ Stopped /\ Do("count", << >>)
     \/ counter' = 0 /\ ~Stopped /\ Do("count", <<"count">>)
  /\ UNCHANGED <<dir, Stopped, worker, local, requests, fifo, source, last, want, killed>>

MoveData ==
  /\ LET n == Smaller(counter, want)
     IN /\ Do("transfer", IF want = n THEN << >> ELSE <<"count">>)
        /\ want' = want - n
        /\ \/ /\ dir = "read"
              /\ last' = Final(SubSeq(fifo, 1, n))
              /\ fifo' = SubSeq(fifo, n + 1, Len(fifo))
              /\ UNCHANGED source
           \/ /\ dir = "write"
              /\ fifo' = fifo \o Units(source, n)
              /\ source' = (source + n) % Modulus
              /\ UNCHANGED last
  /\ counter' = 0
  /\ UNCHANGED <<dir, Stopped, worker, local, requests, killed>>

\* GetTickCount reaches tend.
TimeOut ==
  /\ Do("count", << >>)
  /\ UNCHANGED <<dir, Stopped, worker, local, requests, fifo, source, last, want, counter, killed>>

------------------------------------------------------------------------------
Execute == \/ Enter \/ Loop \/ Wait \/ GetResult \/ AwaitRoom \/ Put
           \/ AwaitPacket \/ Take \/ Submit \/ Cancel
UserStep == ThreadStop \/ ThreadWaitFor \/ FifoFlush \/ ThreadStart \/ CountFifo \/ MoveData

Next == \/ Execute
        \/ \E i \in Slots : Complete(i)
        \/ Control \/ Transfer \/ UserStep \/ TimeOut

Spec == Init /\ [][Next]_vars

\* Both threads are scheduled and time goes on; the device may never answer.
FairSpec == Spec /\ WF_vars(Execute) /\ WF_vars(UserStep) /\ WF_vars(TimeOut)
==============================================================================
