---------------------------- MODULE FifoBulkProofs ----------------------------
(***************************************************************************)
(* Proofs about one half of TFIFO_BULK, for every number and size of the   *)
(* requests, size of the FIFO and of a packet: a flush is alone, no thread *)
(* is killed, no wait is in vain, and the stream is unbroken.              *)
(***************************************************************************)
EXTENDS FifoBulkProperties, SequenceTheorems, WellFoundedInduction, TLAPS

\* What the user's call may have to do.
Agendas == {<< >>, <<"stop", "wait">>, <<"wait">>,
            <<"stop", "wait", "flush", "start">>, <<"wait", "flush", "start">>,
            <<"flush", "start">>, <<"start">>, <<"flush">>, <<"count">>, <<"transfer">>}
WaitsForThread == agenda \in {<<"wait">>, <<"wait", "flush", "start">>}
ThreadIsGone == agenda \in {<<"flush", "start">>, <<"start">>}

\* The user flushes and starts only when it has waited for the thread it stopped; the
\* thread touches the FIFO when it is stopped only while the user waits for it.
UserInv ==
  /\ agenda \in Agendas
  /\ WaitsForThread \/ ThreadIsGone \/ agenda = <<"flush">> => Stopped
  /\ ThreadIsGone => worker = "none"
  /\ Stopped /\ worker \in {"put", "take"} => WaitsForThread
  /\ ~killed

\* What the two threads have counted stays there until they move it.
CountedInv ==
  /\ worker = "put" => dir = "read" /\ size > 0 /\ Len(fifo) + size <= FifoSize
  /\ worker = "take" => dir = "write" /\ size <= Len(fifo)
  /\ \A i \in Slots : Len(slot[i].data) <= QueueSize
  /\ dir = "read" => size = Len(chunk)
  /\ dir = "write" /\ worker # "submit" => chunk = << >>
  /\ agenda \in {<<"count">>, <<"transfer">>} => want > 0
  /\ agenda = <<"transfer">> =>
       /\ counter > 0
       /\ counter <= (IF dir = "read" THEN Len(fifo) ELSE FifoSize - Len(fifo))

\* An event is set unless its request is pending or being moved.
EventInv ==
  ~Stopped /\ worker \notin {"none", "start", "exited"} =>
    \A i \in Slots : slot[i].status # "pending" =>
      event[i] \/ (i = Index /\ worker \in {"result", "move", "put", "take", "submit"})

\* The inductive invariant of a half.
IInv == TypeOK /\ UserInv /\ CountedInv /\ EventInv

------------------------------------------------------------------------------
\* The initial states satisfy the invariant.
LEMMA InitIInv == Init => IInv
<1> SUFFICES ASSUME Init PROVE IInv
  OBVIOUS
<1>1. 0 \in Slots /\ 0 \in Unit /\ << >> \in Seq(Unit) /\ << >> \in Agendas
  BY BulkAssumption DEF Slots, Unit, Agendas
<1>2. TypeOK
  <2>1. slot \in [Slots -> [status : {"idle", "pending", "done", "failed"}, data : Seq(Unit)]]
    BY <1>1 DEF Init, Request
  <2> QED BY <1>1, <2>1, BulkAssumption, SMTT(30) DEF Init, TypeOK
<1>3. UserInv /\ CountedInv /\ EventInv
  BY <1>1, BulkAssumption
     DEF Init, UserInv, CountedInv, EventInv, WaitsForThread, ThreadIsGone, Request
<1> QED BY <1>2, <1>3 DEF IInv

\* Units are a sequence of units, and the last unit is one.
LEMMA UnitsTyped ==
  ASSUME NEW v \in Unit, NEW n \in Nat
  PROVE  /\ Units(v, n) \in Seq(Unit) /\ Len(Units(v, n)) = n
         /\ (v + n) % Modulus \in Unit
BY BulkAssumption DEF Units, Unit

\* What is left of a sequence to remember is one unit at most.
LEMMA FinalTyped ==
  ASSUME NEW s \in Seq(Unit)
  PROVE  Final(s) \in Seq(Unit) /\ Len(Final(s)) <= 1
BY DEF Final

\* Whole packets of what there is.
LEMMA Packets ==
  ASSUME NEW n \in Nat
  PROVE  (n \div Packet) * Packet \in 0 .. n
BY BulkAssumption

\* Execute, statement by statement.
LEMMA EnterKeeps == IInv /\ Enter => IInv'
<1> SUFFICES ASSUME IInv, Enter PROVE IInv'
  OBVIOUS
<1>1. UNCHANGED <<dir, agenda, want, counter, killed, source, last>>
  BY DEF Enter, user
<1>2. TypeOK'
  BY <1>1, BulkAssumption, SMTT(30)
     DEF Enter, Go, IInv, TypeOK, CountedInv, Slots, Unit, Request, local, requests, user
<1>3. UserInv'
  BY <1>1 DEF Enter, Go, IInv, UserInv, WaitsForThread, ThreadIsGone, local, requests
<1>6. \A i \in Slots : Len(slot'[i].data) <= QueueSize
  BY BulkAssumption DEF Enter, Request, IInv, TypeOK, CountedInv
<1>4. CountedInv'
  BY <1>1, <1>6, BulkAssumption DEF Enter, Go, IInv, TypeOK, UserInv, CountedInv, local, requests
<1>5. EventInv'
  BY <1>1 DEF Enter, Go, IInv, TypeOK, EventInv, Request, local, requests
<1> QED BY <1>2, <1>3, <1>4, <1>5 DEF IInv

\* The head of Execute's loop touches nothing but the place the thread is at.
LEMMA LoopKeeps == IInv /\ Loop => IInv'
<1> SUFFICES ASSUME IInv, Loop PROVE IInv'
  OBVIOUS
<1>1. UNCHANGED <<dir, agenda, want, counter, killed, source, last>>
  BY DEF Loop, user
<1>2. TypeOK'
  BY <1>1, BulkAssumption
     DEF Loop, Go, IInv, TypeOK, CountedInv, Slots, Unit, Request, local, requests, user
<1>3. UserInv'
  BY <1>1 DEF Loop, Go, IInv, UserInv, WaitsForThread, ThreadIsGone, local, requests
<1>4. CountedInv'
  BY <1>1, BulkAssumption DEF Loop, Go, IInv, TypeOK, UserInv, CountedInv, local, requests
<1>5. EventInv'
  BY <1>1 DEF Loop, Go, IInv, TypeOK, EventInv, Request, local, requests
<1> QED BY <1>2, <1>3, <1>4, <1>5 DEF IInv

\* Execute waits only for a request that was submitted, so its event comes.
LEMMA WaitKeeps == IInv /\ Wait => IInv'
<1> SUFFICES ASSUME IInv, Wait PROVE IInv'
  OBVIOUS
<1>1. UNCHANGED <<dir, agenda, want, counter, killed, source, last>>
  BY DEF Wait, user
<1>2. TypeOK'
  BY <1>1, BulkAssumption
     DEF Wait, Go, IInv, TypeOK, CountedInv, Slots, Unit, Request, local, requests, user
<1>3. UserInv'
  BY <1>1 DEF Wait, Go, IInv, UserInv, WaitsForThread, ThreadIsGone, local, requests
<1>4. CountedInv'
  BY <1>1, BulkAssumption DEF Wait, Go, IInv, TypeOK, UserInv, CountedInv, local, requests
<1>5. EventInv'
  BY <1>1 DEF Wait, Go, IInv, TypeOK, EventInv, Request, local, requests
<1> QED BY <1>2, <1>3, <1>4, <1>5 DEF IInv

\* The result of the oldest request is taken, or the thread leaves its loop.
LEMMA GetResultKeeps == IInv /\ GetResult => IInv'
<1> SUFFICES ASSUME IInv, GetResult PROVE IInv'
  OBVIOUS
<1>1. UNCHANGED <<dir, agenda, want, counter, killed, source, last>>
  BY DEF GetResult, user
<1>2. TypeOK'
  <2>1. slot[Index].data \in Seq(Unit) /\ Len(slot[Index].data) <= QueueSize
    BY DEF IInv, TypeOK, CountedInv
  <2>2. chunk' \in Seq(Unit) /\ Len(chunk') <= QueueSize /\ size' = Len(chunk')
    BY <2>1, BulkAssumption DEF GetResult
  <2>3. Stopped' \in BOOLEAN
    BY DEF GetResult
  <2>4. slot' \in [Slots -> [status : {"idle", "pending", "done", "failed"}, data : Seq(Unit)]]
    BY DEF GetResult, Request, IInv, TypeOK
  <2> QED BY <1>1, <2>2, <2>3, <2>4, BulkAssumption, SMTT(30) DEF GetResult, Go, IInv, TypeOK
<1>3. UserInv'
  <2>1. Stopped => Stopped'
    BY DEF GetResult
  <2> QED BY <1>1, <2>1 DEF GetResult, Go, IInv, UserInv, WaitsForThread, ThreadIsGone
<1>6. \A i \in Slots : Len(slot'[i].data) <= QueueSize
  BY BulkAssumption DEF GetResult, Request, IInv, TypeOK, CountedInv
<1>4. CountedInv'
  BY <1>1, <1>6, BulkAssumption
     DEF GetResult, Go, IInv, TypeOK, UserInv, CountedInv, local, requests
<1>5. EventInv'
  BY <1>1 DEF GetResult, Go, IInv, TypeOK, EventInv, Request, local, requests
<1> QED BY <1>2, <1>3, <1>4, <1>5 DEF IInv

\* The reader sees room for what it has, and nobody else can take that room away.
LEMMA AwaitRoomKeeps == IInv /\ AwaitRoom => IInv'
<1> SUFFICES ASSUME IInv, AwaitRoom PROVE IInv'
  OBVIOUS
<1>1. UNCHANGED <<dir, agenda, want, counter, killed, source, last>>
  BY DEF AwaitRoom, user
<1>2. TypeOK'
  BY <1>1, BulkAssumption
     DEF AwaitRoom, Go, IInv, TypeOK, CountedInv, Slots, Unit, Request, local, requests, user
<1>3. UserInv'
  BY <1>1 DEF AwaitRoom, Go, IInv, UserInv, WaitsForThread, ThreadIsGone, local, requests
<1>4. CountedInv'
  BY <1>1, BulkAssumption, SMTT(30)
     DEF AwaitRoom, Go, IInv, TypeOK, UserInv, CountedInv, local, requests
<1>5. EventInv'
  BY <1>1 DEF AwaitRoom, Go, IInv, TypeOK, EventInv, Request, local, requests
<1> QED BY <1>2, <1>3, <1>4, <1>5 DEF IInv

\* FifoRead->Write stores into the room that AwaitRoom saw.
LEMMA PutKeeps == IInv /\ Put => IInv'
<1> SUFFICES ASSUME IInv, Put PROVE IInv'
  OBVIOUS
<1>1. UNCHANGED <<dir, agenda, want, counter, killed, source, last>>
  BY DEF Put, user
<1>2. TypeOK'
  <2>1. /\ fifo' \in Seq(Unit) /\ Len(fifo') <= FifoSize
        /\ chunk' \in Seq(Unit) /\ Len(chunk') = 0 /\ size' = 0
    BY BulkAssumption DEF Put, Go, IInv, TypeOK, CountedInv
  <2> QED BY <1>1, <2>1, BulkAssumption, SMTT(30) DEF Put, Go, IInv, TypeOK, requests
<1>3. UserInv'
  BY <1>1 DEF Put, Go, IInv, UserInv, WaitsForThread, ThreadIsGone, local, requests
<1>4. CountedInv'
  BY <1>1, BulkAssumption DEF Put, Go, IInv, TypeOK, UserInv, CountedInv, local, requests
<1>5. EventInv'
  BY <1>1 DEF Put, Go, IInv, TypeOK, EventInv, Request, local, requests
<1> QED BY <1>2, <1>3, <1>4, <1>5 DEF IInv

\* The writer's chunk is of whole packets and no longer than the FIFO's contents.
LEMMA AwaitPacketKeeps == IInv /\ AwaitPacket => IInv'
<1> SUFFICES ASSUME IInv, AwaitPacket PROVE IInv'
  OBVIOUS
<1>1. UNCHANGED <<dir, agenda, want, counter, killed, source, last>>
  BY DEF AwaitPacket, user
<1>6. size' \in 0 .. QueueSize /\ (worker' = "take" => size' <= Len(fifo))
  <2>1. Smaller(QueueSize, Len(fifo)) \in Nat
        /\ Smaller(QueueSize, Len(fifo)) <= QueueSize /\ Smaller(QueueSize, Len(fifo)) <= Len(fifo)
    BY BulkAssumption, SMTT(30) DEF Smaller, IInv, TypeOK
  <2>2. (Smaller(QueueSize, Len(fifo)) \div Packet) * Packet \in 0 .. Smaller(QueueSize, Len(fifo))
    BY <2>1, Packets
  <2>3. PICK n \in 0 .. Smaller(QueueSize, Len(fifo)) :
          n = (Smaller(QueueSize, Len(fifo)) \div Packet) * Packet
    BY <2>2
  <2>4. n \in Nat /\ n <= QueueSize /\ n <= Len(fifo)
    <3> DEFINE s == Smaller(QueueSize, Len(fifo))
    <3>1. s \in Nat /\ s <= QueueSize /\ s <= Len(fifo) /\ n \in 0 .. s
      BY <2>1
    <3>2. QueueSize \in Nat /\ Len(fifo) \in Nat
      BY BulkAssumption DEF IInv, TypeOK
    <3> HIDE DEF s
    <3> QED BY <3>1, <3>2
  <2>5. (size' = size /\ worker' = "loop") \/ size' = n
    BY <2>3 DEF AwaitPacket, Go
  <2>6. size \in 0 .. QueueSize /\ QueueSize \in Nat
    BY BulkAssumption DEF IInv, TypeOK
  <2> QED BY <2>4, <2>5, <2>6
<1>2. TypeOK'
  BY <1>1, <1>6 DEF AwaitPacket, Go, IInv, TypeOK, requests
<1>3. UserInv'
  BY <1>1 DEF AwaitPacket, Go, IInv, UserInv, WaitsForThread, ThreadIsGone, local, requests
<1>4. CountedInv'
  BY <1>1, <1>6, BulkAssumption
     DEF AwaitPacket, Go, IInv, TypeOK, UserInv, CountedInv, local, requests
<1>5. EventInv'
  BY <1>1 DEF AwaitPacket, Go, IInv, TypeOK, EventInv, Request, local, requests
<1> QED BY <1>2, <1>3, <1>4, <1>5 DEF IInv

\* FifoWrite->Read takes what AwaitPacket saw.
LEMMA TakeKeeps == IInv /\ Take => IInv'
<1> SUFFICES ASSUME IInv, Take PROVE IInv'
  OBVIOUS
<1>1. UNCHANGED <<dir, agenda, want, counter, killed, source, last>>
  BY DEF Take, user
<1>2. TypeOK'
  <2>1. /\ fifo' \in Seq(Unit) /\ Len(fifo') = Len(fifo) - size
        /\ chunk' \in Seq(Unit) /\ Len(chunk') = size
    BY DEF Take, Go, IInv, TypeOK, CountedInv
  <2>2. Len(fifo') <= FifoSize /\ Len(chunk') <= QueueSize
    BY <2>1, BulkAssumption DEF IInv, TypeOK
  <2>3. /\ UNCHANGED <<Stopped, Index, slot, event, size>>
        /\ worker' = "submit"
    BY DEF Take, Go, requests
  <2> QED BY <1>1, <2>1, <2>2, <2>3 DEF IInv, TypeOK
<1>3. UserInv'
  BY <1>1 DEF Take, Go, IInv, UserInv, WaitsForThread, ThreadIsGone, local, requests
<1>4. CountedInv'
  <2>1. Len(fifo') = Len(fifo) - size
    BY DEF Take, Go, IInv, TypeOK, CountedInv
  <2>2. /\ UNCHANGED <<slot, size>> /\ worker = "take" /\ worker' = "submit" /\ dir = "write"
        /\ agenda = <<"transfer">> => counter > 0 /\ counter <= FifoSize - Len(fifo)
    BY DEF Take, Go, requests, IInv, CountedInv
  <2>3. agenda = <<"transfer">> => counter <= FifoSize - Len(fifo')
    <3>1. size \in Nat /\ counter \in Nat /\ FifoSize \in Nat /\ Len(fifo) \in Nat
      BY BulkAssumption DEF IInv, TypeOK
    <3> QED BY <2>1, <2>2, <3>1
  <2> QED BY <1>1, <2>2, <2>3 DEF IInv, CountedInv
<1>5. EventInv'
  BY <1>1 DEF Take, Go, IInv, TypeOK, EventInv, Request, local, requests
<1> QED BY <1>2, <1>3, <1>4, <1>5 DEF IInv

\* A request is submitted in the slot of Index, and Index goes round.
LEMMA SubmitKeeps == IInv /\ Submit => IInv'
<1> SUFFICES ASSUME IInv, Submit PROVE IInv'
  OBVIOUS
<1>1. /\ UNCHANGED <<dir, agenda, want, counter, killed, source, last, fifo>>
      /\ worker = "submit" /\ worker' = "loop" /\ chunk' = << >> /\ size' = 0
      /\ event' = [event EXCEPT ![Index] = FALSE]
      /\ Stopped' = Stopped \/ Stopped' = TRUE
  BY DEF Submit, Go, user
<1> DEFINE r == Request("pending", IF dir = "write" THEN chunk ELSE << >>)
<1>2. \/ slot' = slot /\ Stopped' = TRUE
      \/ slot' = [slot EXCEPT ![Index] = r]
  BY DEF Submit
<1>3. /\ r \in [status : {"idle", "pending", "done", "failed"}, data : Seq(Unit)]
      /\ r.status = "pending" /\ Len(r.data) <= QueueSize
  BY BulkAssumption DEF Request, IInv, TypeOK
<1> HIDE DEF r
<1>4. Index \in Slots /\ Index' \in Slots
  <2>1. Index \in Slots /\ Index' = (Index + 1) % QueueNumber
    BY DEF Submit, IInv, TypeOK
  <2> QED BY <2>1, BulkAssumption DEF Slots
<1>5. TypeOK'
  <2>1. slot' \in [Slots -> [status : {"idle", "pending", "done", "failed"}, data : Seq(Unit)]]
    BY <1>2, <1>3, <1>4 DEF IInv, TypeOK
  <2>2. event' \in [Slots -> BOOLEAN] /\ Stopped' \in BOOLEAN
    BY <1>1 DEF IInv, TypeOK
  <2>3. << >> \in Seq(Unit) /\ Len(<< >>) = 0 /\ 0 \in 0 .. QueueSize /\ 0 <= QueueSize
    BY BulkAssumption
  <2> QED BY <1>1, <1>4, <2>1, <2>2, <2>3 DEF IInv, TypeOK
<1>6. UserInv'
  BY <1>1 DEF IInv, UserInv, WaitsForThread, ThreadIsGone
<1>7. CountedInv'
  <2>1. \A i \in Slots : Len(slot'[i].data) <= QueueSize
    BY <1>2, <1>3, <1>4 DEF IInv, TypeOK, CountedInv
  <2> QED BY <1>1, <2>1 DEF IInv, CountedInv
<1>8. EventInv'
  BY <1>1, <1>2, <1>3, <1>4 DEF IInv, TypeOK, EventInv
<1> QED BY <1>5, <1>6, <1>7, <1>8 DEF IInv

\* Every request is cancelled when the thread leaves.
LEMMA CancelKeeps == IInv /\ Cancel => IInv'
<1> SUFFICES ASSUME IInv, Cancel PROVE IInv'
  OBVIOUS
<1>1. UNCHANGED <<dir, agenda, want, counter, killed, source, last>>
  BY DEF Cancel, user
<1>2. TypeOK'
  BY <1>1, BulkAssumption
     DEF Cancel, Go, IInv, TypeOK, CountedInv, Slots, Unit, Request, local, requests, user
<1>3. UserInv'
  BY <1>1 DEF Cancel, Go, IInv, UserInv, WaitsForThread, ThreadIsGone, local, requests
<1>6. \A i \in Slots : Len(slot'[i].data) <= QueueSize
  BY BulkAssumption DEF Cancel, Request, IInv, TypeOK, CountedInv
<1>4. CountedInv'
  BY <1>1, <1>6, BulkAssumption
     DEF Cancel, Go, IInv, TypeOK, UserInv, CountedInv, local, requests
<1>5. EventInv'
  BY <1>1 DEF Cancel, Go, IInv, TypeOK, EventInv, Request, local, requests
<1> QED BY <1>2, <1>3, <1>4, <1>5 DEF IInv

\* The device.
LEMMA CompleteKeeps == ASSUME NEW i \in Slots, IInv, Complete(i) PROVE IInv'
<1>1. /\ UNCHANGED <<dir, Stopped, worker, agenda, want, counter, killed, fifo, Index, chunk, size>>
      /\ event' = [event EXCEPT ![i] = TRUE]
  BY DEF Complete, local, user
<1>2. PICK status \in {"done", "failed"}, data \in Seq(Unit) :
        /\ slot' = [slot EXCEPT ![i] = Request(status, data)]
        /\ Len(data) <= QueueSize
        /\ source' \in Unit /\ last' \in Seq(Unit) /\ Len(last') <= 1
  <2>1. PICK status \in {"done", "failed"} :
          \/ /\ dir = "read"
             /\ \E n \in 0 .. QueueSize :
                  /\ slot' = [slot EXCEPT ![i] =
                               Request(status, IF status = "done" THEN Units(source, n) ELSE << >>)]
                  /\ source' = (source + n) % Modulus
             /\ UNCHANGED last
          \/ /\ dir = "write"
             /\ slot' = [slot EXCEPT ![i] = Request(status, << >>)]
             /\ last' = IF status = "done" THEN Final(slot[i].data) ELSE last
             /\ UNCHANGED source
    BY DEF Complete
  <2>2. << >> \in Seq(Unit) /\ Len(<< >>) <= QueueSize
    BY BulkAssumption
  <2>3. ASSUME NEW n \in 0 .. QueueSize
        PROVE  /\ Units(source, n) \in Seq(Unit) /\ Len(Units(source, n)) = n
               /\ (source + n) % Modulus \in Unit
    BY UnitsTyped, BulkAssumption DEF IInv, TypeOK
  <2>4. Final(slot[i].data) \in Seq(Unit) /\ Len(Final(slot[i].data)) <= 1
    BY FinalTyped DEF IInv, TypeOK
  <2>5. source \in Unit /\ last \in Seq(Unit) /\ Len(last) <= 1 /\ QueueSize \in Nat
    BY BulkAssumption DEF IInv, TypeOK
  <2>6. CASE dir = "read"
    <3>1. PICK n \in 0 .. QueueSize :
            /\ slot' = [slot EXCEPT ![i] =
                         Request(status, IF status = "done" THEN Units(source, n) ELSE << >>)]
            /\ source' = (source + n) % Modulus /\ last' = last
      BY <2>1, <2>6
    <3>2. Units(source, n) \in Seq(Unit) /\ Len(Units(source, n)) = n /\ n <= QueueSize
          /\ source' \in Unit
      BY <2>3, <2>5, <3>1
    <3> QED BY <2>2, <2>5, <3>1, <3>2
  <2>7. CASE dir = "write"
    BY <2>1, <2>2, <2>4, <2>5, <2>7
  <2> QED BY <2>1, <2>6, <2>7
<1>3. TypeOK'
  <2>1. slot' \in [Slots -> [status : {"idle", "pending", "done", "failed"}, data : Seq(Unit)]]
    BY <1>2 DEF Request, IInv, TypeOK
  <2>2. event' \in [Slots -> BOOLEAN]
    BY <1>1 DEF IInv, TypeOK
  <2> QED BY <1>1, <1>2, <2>1, <2>2 DEF IInv, TypeOK
<1>4. UserInv'
  BY <1>1 DEF IInv, UserInv, WaitsForThread, ThreadIsGone
<1>5. CountedInv'
  <2>1. \A j \in Slots : Len(slot'[j].data) <= QueueSize
    BY <1>2 DEF Request, IInv, TypeOK, CountedInv
  <2> QED BY <1>1, <2>1 DEF IInv, CountedInv
<1>6. EventInv'
  BY <1>1, <1>2 DEF Request, IInv, TypeOK, EventInv
<1> QED BY <1>3, <1>4, <1>5, <1>6 DEF IInv

\* What the bodies of the user's calls are.
LEMMA Bodies ==
  /\ StopFIFO = <<"stop", "wait">>
  /\ StartFIFO = <<"stop", "wait", "flush", "start">>
  /\ Flush \in {<<"flush">>, <<"stop", "wait", "flush", "start">>}
  /\ Flush = <<"flush">> => Stopped
<1> DEFINE S == {"stop", "wait", "flush", "start"}
           s == <<"stop", "wait">> \o <<"flush", "start">>
           t == <<"stop", "wait", "flush", "start">>
<1>1. s \in Seq(S) /\ Len(s) = 4 /\ t \in Seq(S) /\ Len(t) = 4
  OBVIOUS
<1>2. \A i \in 1 .. 4 : s[i] = t[i]
  OBVIOUS
<1>3. s = t
  BY <1>1, <1>2, SeqEqual
<1>4. <<"flush">> # t
  OBVIOUS
<1> QED BY <1>3, <1>4 DEF StopFIFO, StartFIFO, Flush

\* Every agenda is a sequence of steps, and no two are the same.
LEMMA AgendasTyped == Agendas \subseteq Seq({"stop", "wait", "flush", "start", "count", "transfer"})
<1> DEFINE S == {"stop", "wait", "flush", "start", "count", "transfer"}
<1>1. << >> \in Seq(S) /\ <<"stop", "wait">> \in Seq(S) /\ <<"wait">> \in Seq(S)
  OBVIOUS
<1>2. <<"stop", "wait", "flush", "start">> \in Seq(S) /\ <<"wait", "flush", "start">> \in Seq(S)
  OBVIOUS
<1>3. <<"flush", "start">> \in Seq(S) /\ <<"start">> \in Seq(S) /\ <<"flush">> \in Seq(S)
  OBVIOUS
<1>4. <<"count">> \in Seq(S) /\ <<"transfer">> \in Seq(S)
  OBVIOUS
<1> QED BY <1>1, <1>2, <1>3, <1>4 DEF Agendas

\* What is left of an agenda when its first step is done.
LEMMA Shapes == ASSUME NEW a \in Agendas, a # << >> PROVE
  /\ Head(a) = "stop" => Tail(a) \in {<<"wait">>, <<"wait", "flush", "start">>}
  /\ Head(a) = "wait" => \/ a = <<"wait">> /\ Tail(a) = << >>
                         \/ a = <<"wait", "flush", "start">> /\ Tail(a) = <<"flush", "start">>
  /\ Head(a) = "flush" => \/ a = <<"flush">> /\ Tail(a) = << >>
                          \/ a = <<"flush", "start">> /\ Tail(a) = <<"start">>
  /\ Head(a) = "start" => a = <<"start">> /\ Tail(a) = << >>
  /\ Head(a) = "count" => a = <<"count">> /\ Tail(a) = << >>
  /\ Head(a) = "transfer" => a = <<"transfer">> /\ Tail(a) = << >>
<1>1. CASE a = <<"stop", "wait">>
  <2>1. Head(a) = "stop" /\ Tail(a) = <<"wait">>
    BY <1>1
  <2> QED BY <1>1, <2>1
<1>2. CASE a = <<"wait">>
  <2>1. Head(a) = "wait" /\ Tail(a) = << >>
    BY <1>2
  <2> QED BY <1>2, <2>1
<1>3. CASE a = <<"stop", "wait", "flush", "start">>
  <2>1. Head(a) = "stop" /\ Tail(a) = <<"wait", "flush", "start">>
    BY <1>3
  <2> QED BY <1>3, <2>1
<1>4. CASE a = <<"wait", "flush", "start">>
  <2>1. Head(a) = "wait" /\ Tail(a) = <<"flush", "start">>
    BY <1>4
  <2> QED BY <1>4, <2>1
<1>5. CASE a = <<"flush", "start">>
  <2>1. Head(a) = "flush" /\ Tail(a) = <<"start">>
    BY <1>5
  <2> QED BY <1>5, <2>1
<1>6. CASE a = <<"start">>
  <2>1. Head(a) = "start" /\ Tail(a) = << >>
    BY <1>6
  <2> QED BY <1>6, <2>1
<1>7. CASE a = <<"flush">>
  <2>1. Head(a) = "flush" /\ Tail(a) = << >>
    BY <1>7
  <2> QED BY <1>7, <2>1
<1>8. CASE a = <<"count">>
  <2>1. Head(a) = "count" /\ Tail(a) = << >>
    BY <1>8
  <2> QED BY <1>8, <2>1
<1>9. CASE a = <<"transfer">>
  <2>1. Head(a) = "transfer" /\ Tail(a) = << >>
    BY <1>9
  <2> QED BY <1>9, <2>1
<1> QED BY <1>1, <1>2, <1>3, <1>4, <1>5, <1>6, <1>7, <1>8, <1>9 DEF Agendas

\* The user.
Unstarted == {<<"wait">>, <<"wait", "flush", "start">>, <<"flush", "start">>, <<"start">>}
\* A call begins with an agenda that fits the state of the thread.
LEMMA CallKeeps == IInv /\ (Control \/ Transfer) => IInv'
<1> SUFFICES ASSUME IInv, Control \/ Transfer PROVE IInv'
  OBVIOUS
<1>1. PICK body \in Agendas, n \in Nat :
        /\ Call(body, n) /\ body # <<"transfer">>
        /\ body \notin Unstarted
        /\ body = <<"flush">> => Stopped
        /\ body = <<"count">> => n > 0
  <2>1. CASE Control
    <3>1. PICK body \in {StartFIFO, StopFIFO, Flush} : Call(body, 0)
      BY <2>1 DEF Control
    <3>2. body \in {<<"stop", "wait">>, <<"stop", "wait", "flush", "start">>, <<"flush">>}
          /\ (body = <<"flush">> => Stopped)
      BY <3>1, Bodies
    <3>3. /\ <<"stop", "wait">> \notin Agendas \ {<<"stop", "wait">>}
          /\ <<"stop", "wait", "flush", "start">>
                \notin Agendas \ {<<"stop", "wait", "flush", "start">>}
          /\ <<"flush">> \notin Agendas \ {<<"flush">>}
      BY DEF Agendas
    <3>4. body \in Agendas \ Unstarted
      BY <3>2, <3>3 DEF Agendas, Unstarted
    <3>5. body # <<"count">> /\ body # <<"transfer">>
      BY <3>2
    <3>6. 0 \in Nat
      OBVIOUS
    <3> QED BY <3>1, <3>2, <3>4, <3>5, <3>6, Zenon
  <2>2. CASE Transfer
    <3>1. PICK n \in Lengths : Call(<<"count">>, n)
      BY <2>2 DEF Transfer
    <3>2. <<"count">> \notin Unstarted /\ <<"count">> # <<"flush">> /\ <<"count">> # <<"transfer">>
      BY DEF Unstarted
    <3>3. n \in Nat /\ n > 0
      BY BulkAssumption
    <3>4. <<"count">> \in Agendas
      BY DEF Agendas
    <3> QED BY <3>1, <3>2, <3>3, <3>4, Zenon
  <2> QED BY <2>1, <2>2
<1>2. /\ UNCHANGED <<dir, Stopped, worker, Index, chunk, size, slot, event, fifo, source,
                   last, killed>>
      /\ agenda = << >> /\ agenda' = body /\ want' = n /\ counter' = 0
  BY <1>1 DEF Call, local, requests
<1>3. body \in Seq({"stop", "wait", "flush", "start", "count", "transfer"})
  BY <1>1, AgendasTyped
<1>4. TypeOK'
  BY <1>1, <1>2, <1>3, BulkAssumption, SMTT(30) DEF IInv, TypeOK
<1>5. UserInv'
  BY <1>1, <1>2 DEF IInv, UserInv, WaitsForThread, ThreadIsGone, Unstarted
<1>6. CountedInv'
  BY <1>1, <1>2 DEF IInv, CountedInv
<1>7. EventInv'
  BY <1>2 DEF IInv, EventInv
<1> QED BY <1>4, <1>5, <1>6, <1>7 DEF IInv


\* The user's steps.  Each does the first step of the agenda.
LEMMA ThreadStopKeeps == IInv /\ ThreadStop => IInv'
<1> SUFFICES ASSUME IInv, ThreadStop PROVE IInv'
  OBVIOUS
<1>1. /\ UNCHANGED <<dir, worker, Index, chunk, size, slot, event, fifo>>
      /\ UNCHANGED <<source, last, want, counter, killed>>
      /\ Stopped' = TRUE /\ agenda # << >> /\ Head(agenda) = "stop"
      /\ agenda' = << >> \o Tail(agenda)
  BY DEF ThreadStop, Do, local, requests
<1>2. agenda' \in {<<"wait">>, <<"wait", "flush", "start">>}
  BY <1>1, Shapes, AgendasTyped DEF IInv, UserInv
<1>3. agenda' \in Agendas /\ agenda' \notin {<<"count">>, <<"transfer">>}
  BY <1>2 DEF Agendas
<1>4. agenda' \notin {<<"flush", "start">>, <<"start">>}
  BY <1>2
<1>5. TypeOK'
  BY <1>1, <1>3, AgendasTyped DEF IInv, TypeOK
<1>6. UserInv'
  BY <1>1, <1>2, <1>3, <1>4 DEF IInv, UserInv, WaitsForThread, ThreadIsGone
<1>7. CountedInv'
  BY <1>1, <1>3 DEF IInv, CountedInv
<1>8. EventInv'
  BY <1>1 DEF EventInv
<1> QED BY <1>5, <1>6, <1>7, <1>8 DEF IInv

\* WaitFor ends with the thread gone.
LEMMA ThreadWaitForKeeps == IInv /\ ThreadWaitFor => IInv'
<1> SUFFICES ASSUME IInv, ThreadWaitFor PROVE IInv'
  OBVIOUS
<1>1. /\ UNCHANGED <<dir, Stopped, Index, chunk, size, slot, event, fifo>>
      /\ UNCHANGED <<source, last, want, counter, killed>>
      /\ worker \in {"none", "exited"} /\ worker' = "none"
      /\ agenda # << >> /\ Head(agenda) = "wait"
      /\ agenda' = << >> \o Tail(agenda)
  BY DEF ThreadWaitFor, Do, local, requests
<1>2. WaitsForThread /\ agenda' \in {<< >>, <<"flush", "start">>}
  BY <1>1, Shapes, AgendasTyped DEF IInv, UserInv, WaitsForThread
<1>3. agenda' \in Agendas /\ agenda' \notin {<<"count">>, <<"transfer">>}
  BY <1>2 DEF Agendas
<1>4. agenda' \notin {<<"wait">>, <<"wait", "flush", "start">>, <<"flush">>}
  BY <1>2
<1>5. TypeOK'
  BY <1>1, <1>3, AgendasTyped DEF IInv, TypeOK
<1>6. UserInv'
  BY <1>1, <1>2, <1>3, <1>4 DEF IInv, UserInv, WaitsForThread, ThreadIsGone
<1>7. CountedInv'
  BY <1>1, <1>3 DEF IInv, CountedInv
<1>8. EventInv'
  BY <1>1 DEF EventInv
<1> QED BY <1>5, <1>6, <1>7, <1>8 DEF IInv

\* The FIFO is flushed, which only ever happens without a thread.
LEMMA FifoFlushKeeps == IInv /\ FifoFlush => IInv'
<1> SUFFICES ASSUME IInv, FifoFlush PROVE IInv'
  OBVIOUS
<1>1. /\ UNCHANGED <<dir, Stopped, worker, Index, chunk, size, slot, event>>
      /\ UNCHANGED <<source, want, counter, killed>>
      /\ fifo' = << >> /\ last' = << >>
      /\ agenda # << >> /\ Head(agenda) = "flush"
      /\ agenda' = << >> \o Tail(agenda)
  BY DEF FifoFlush, Do, local, requests
<1>2. \/ agenda = <<"flush">> /\ agenda' = << >>
      \/ agenda = <<"flush", "start">> /\ agenda' = <<"start">>
  BY <1>1, Shapes, AgendasTyped DEF IInv, UserInv
<1>3. agenda' \in Agendas /\ agenda' \notin {<<"count">>, <<"transfer">>}
  BY <1>2 DEF Agendas
<1>4. agenda' \notin {<<"wait">>, <<"wait", "flush", "start">>, <<"flush">>, <<"flush", "start">>}
  BY <1>2
<1>5. Stopped /\ worker \notin {"put", "take"} /\ (agenda' = <<"start">> => worker = "none")
  <2>1. ~WaitsForThread /\ (agenda = <<"flush">> => agenda' # <<"start">>)
    BY <1>2 DEF WaitsForThread
  <2> QED BY <2>1, <1>2 DEF IInv, UserInv, ThreadIsGone
<1>6. TypeOK'
  <2>1. << >> \in Seq(Unit) /\ Len(<< >>) <= FifoSize /\ Len(<< >>) <= 1
    BY BulkAssumption
  <2> QED BY <1>1, <1>3, <2>1, AgendasTyped DEF IInv, TypeOK
<1>7. UserInv'
  BY <1>1, <1>3, <1>4, <1>5 DEF IInv, UserInv, WaitsForThread, ThreadIsGone
<1>8. CountedInv'
  BY <1>1, <1>3, <1>5 DEF IInv, CountedInv
<1>9. EventInv'
  BY <1>1, <1>5 DEF EventInv
<1> QED BY <1>6, <1>7, <1>8, <1>9 DEF IInv

\* Start finds no thread and makes one.
LEMMA ThreadStartKeeps == IInv /\ ThreadStart => IInv'
<1> SUFFICES ASSUME IInv, ThreadStart PROVE IInv'
  OBVIOUS
<1>1. /\ UNCHANGED <<dir, Index, chunk, size, slot, event, fifo>>
      /\ UNCHANGED <<source, last, want, counter>>
      /\ Stopped' = FALSE /\ worker' \in {"start", "none"}
      /\ killed' = (killed \/ worker \notin {"none", "exited"})
      /\ agenda # << >> /\ Head(agenda) = "start"
      /\ agenda' = << >> \o Tail(agenda)
  BY DEF ThreadStart, Do, local, requests
<1>2. agenda = <<"start">> /\ agenda' = << >>
  BY <1>1, Shapes, AgendasTyped DEF IInv, UserInv
<1>3. agenda' \in Agendas /\ agenda' \notin {<<"count">>, <<"transfer">>}
  BY <1>2 DEF Agendas
<1>4. agenda' \notin {<<"wait">>, <<"wait", "flush", "start">>, <<"flush", "start">>}
      /\ agenda' \notin {<<"flush">>, <<"start">>}
  BY <1>2
<1>5. worker = "none"
  BY <1>2 DEF IInv, UserInv, ThreadIsGone
<1>6. TypeOK'
  BY <1>1, <1>3, AgendasTyped DEF IInv, TypeOK
<1>7. UserInv'
  BY <1>1, <1>3, <1>4, <1>5 DEF IInv, UserInv, WaitsForThread, ThreadIsGone
<1>8. CountedInv'
  BY <1>1, <1>3, <1>5 DEF IInv, CountedInv
<1>9. EventInv'
  BY <1>1 DEF EventInv
<1> QED BY <1>6, <1>7, <1>8, <1>9 DEF IInv

\* The user counts what the FIFO holds, or the room in it, before it transfers.
LEMMA CountFifoKeeps == IInv /\ CountFifo => IInv'
<1> SUFFICES ASSUME IInv, CountFifo PROVE IInv'
  OBVIOUS
<1>1. /\ UNCHANGED <<dir, Stopped, worker, Index, chunk, size, slot, event>>
      /\ UNCHANGED <<fifo, source, last, want, killed>>
      /\ counter' = IF dir = "read" THEN Len(fifo) ELSE FifoSize - Len(fifo)
  BY DEF CountFifo, local, requests
<1>2. /\ agenda = <<"count">>
      /\ \/ agenda' = <<"transfer">> /\ counter' > 0
         \/ agenda' \in {<< >>, <<"count">>}
  <2>1. /\ agenda # << >> /\ Head(agenda) = "count"
        /\ \/ agenda' = <<"transfer">> \o Tail(agenda) /\ counter' > 0
           \/ agenda' = << >> \o Tail(agenda)
           \/ agenda' = <<"count">> \o Tail(agenda)
    BY DEF CountFifo, Do
  <2>2. agenda = <<"count">> /\ Tail(agenda) = << >>
    BY <2>1, Shapes DEF IInv, UserInv
  <2>3. /\ <<"transfer">> \o << >> = <<"transfer">> /\ <<"count">> \o << >> = <<"count">>
        /\ << >> \o << >> = << >>
    OBVIOUS
  <2> QED BY <2>1, <2>2, <2>3
<1>3. agenda' \in Agendas /\ (agenda' = <<"transfer">> => counter' > 0)
  <2>1. <<"transfer">> # << >> /\ <<"transfer">> # <<"count">>
    OBVIOUS
  <2> QED BY <1>2, <2>1 DEF Agendas
<1>4. agenda' \notin {<<"wait">>, <<"wait", "flush", "start">>, <<"flush", "start">>}
      /\ agenda' \notin {<<"flush">>, <<"start">>}
  BY <1>2
<1>5. ~WaitsForThread /\ counter' \in 0 .. FifoSize
  <2>1. ~WaitsForThread
    BY <1>2 DEF WaitsForThread
  <2>2. Len(fifo) \in Nat /\ Len(fifo) <= FifoSize
    BY DEF IInv, TypeOK
  <2> QED BY <2>1, <2>2, <1>1, BulkAssumption
<1>6. TypeOK'
  BY <1>1, <1>3, <1>5, AgendasTyped DEF IInv, TypeOK
<1>7. UserInv'
  BY <1>1, <1>3, <1>4, <1>5 DEF IInv, UserInv, WaitsForThread, ThreadIsGone
<1>8. CountedInv'
  <2>1. want > 0
    BY <1>2 DEF IInv, CountedInv
  <2>2. counter' <= (IF dir = "read" THEN Len(fifo) ELSE FifoSize - Len(fifo))
    BY <1>1, <1>5, BulkAssumption DEF IInv, TypeOK
  <2> QED BY <1>1, <1>3, <2>1, <2>2 DEF IInv, CountedInv
<1>9. EventInv'
  BY <1>1 DEF IInv, EventInv
<1> QED BY <1>6, <1>7, <1>8, <1>9 DEF IInv

\* The user gives up a transfer and forgets what it wanted.
LEMMA TimeOutKeeps == IInv /\ TimeOut => IInv'
<1> SUFFICES ASSUME IInv, TimeOut PROVE IInv'
  OBVIOUS
<1>1. /\ UNCHANGED <<dir, Stopped, worker, Index, chunk, size, slot, event>>
      /\ UNCHANGED <<fifo, source, last, want, counter, killed>>
      /\ agenda # << >> /\ Head(agenda) = "count"
      /\ agenda' = << >> \o Tail(agenda)
  BY DEF TimeOut, Do, local, requests
<1>2. agenda = <<"count">> /\ agenda' = << >>
  BY <1>1, Shapes, AgendasTyped DEF IInv, UserInv
<1>3. agenda' \in Agendas /\ agenda' \notin {<<"count">>, <<"transfer">>}
  BY <1>2 DEF Agendas
<1>4. agenda' \notin {<<"wait">>, <<"wait", "flush", "start">>, <<"flush", "start">>}
      /\ agenda' \notin {<<"flush">>, <<"start">>} /\ ~WaitsForThread
  BY <1>2 DEF WaitsForThread
<1>5. TypeOK'
  BY <1>1, <1>3, AgendasTyped DEF IInv, TypeOK
<1>6. UserInv'
  BY <1>1, <1>3, <1>4 DEF IInv, UserInv, WaitsForThread, ThreadIsGone
<1>7. CountedInv'
  BY <1>1, <1>3 DEF IInv, CountedInv
<1>8. EventInv'
  BY <1>1 DEF IInv, EventInv
<1> QED BY <1>5, <1>6, <1>7, <1>8 DEF IInv

\* What the user moves is there, or has room, whatever the thread did since CountFifo.
LEMMA MoveDataFits ==
  ASSUME IInv, MoveData
  PROVE  LET n == Smaller(counter, want)
         IN  /\ n \in Nat /\ n > 0 /\ n <= want /\ want - n \in Nat
             /\ n <= (IF dir = "read" THEN Len(fifo) ELSE FifoSize - Len(fifo))
<1>1. agenda = <<"transfer">>
  BY Shapes DEF IInv, UserInv, MoveData, Do
<1>2. /\ counter > 0 /\ want > 0 /\ want \in Nat /\ counter \in Nat
      /\ counter <= (IF dir = "read" THEN Len(fifo) ELSE FifoSize - Len(fifo))
  BY <1>1, BulkAssumption DEF IInv, TypeOK, CountedInv
<1>3. Len(fifo) \in Nat /\ FifoSize \in Nat
  BY BulkAssumption DEF IInv, TypeOK
<1> QED BY <1>2, <1>3 DEF Smaller

\* The user moves no more than it counted.
LEMMA MoveDataKeeps == IInv /\ MoveData => IInv'
<1> SUFFICES ASSUME IInv, MoveData PROVE IInv'
  OBVIOUS
<1> DEFINE n == Smaller(counter, want)
<1>1. /\ UNCHANGED <<dir, Stopped, worker, Index, chunk, size, slot, event, killed>>
      /\ want' = want - n /\ counter' = 0
      /\ agenda # << >> /\ Head(agenda) = "transfer"
      /\ agenda' = (IF want = n THEN << >> ELSE <<"count">>) \o Tail(agenda)
      /\ \/ /\ dir = "read" /\ last' = Final(SubSeq(fifo, 1, n))
            /\ fifo' = SubSeq(fifo, n + 1, Len(fifo)) /\ UNCHANGED source
         \/ /\ dir = "write" /\ fifo' = fifo \o Units(source, n)
            /\ source' = (source + n) % Modulus /\ UNCHANGED last
  BY DEF MoveData, Do, local, requests
<1>2. agenda = <<"transfer">> /\ Tail(agenda) = << >>
  BY <1>1, Shapes DEF IInv, UserInv
<1>3. /\ agenda' \in {<< >>, <<"count">>} /\ (agenda' = <<"count">> => want # n)
  <2>1. << >> \o << >> = << >> /\ <<"count">> \o << >> = <<"count">> /\ <<"count">> # << >>
    OBVIOUS
  <2> QED BY <1>1, <1>2, <2>1
<1>4. /\ agenda' \in Agendas /\ agenda' # <<"transfer">> /\ ~WaitsForThread
      /\ agenda' \notin {<<"wait">>, <<"wait", "flush", "start">>, <<"flush", "start">>}
      /\ agenda' \notin {<<"flush">>, <<"start">>}
  BY <1>2, <1>3 DEF Agendas, WaitsForThread
<1>5. /\ n \in Nat /\ n > 0 /\ n <= want /\ want - n \in Nat
      /\ n <= (IF dir = "read" THEN Len(fifo) ELSE FifoSize - Len(fifo))
  BY MoveDataFits
<1> HIDE DEF n
<1>6. /\ fifo' \in Seq(Unit) /\ last' \in Seq(Unit) /\ source' \in Unit
      /\ Len(fifo') <= FifoSize /\ Len(last') <= 1
      /\ dir = "read" => Len(fifo') <= Len(fifo)
      /\ dir = "write" => Len(fifo') >= Len(fifo)
  <2>1. CASE dir = "read"
    <3>1. SubSeq(fifo, 1, n) \in Seq(Unit)
      BY <1>5, <2>1 DEF IInv, TypeOK
    <3>2. /\ SubSeq(fifo, n + 1, Len(fifo)) \in Seq(Unit)
          /\ Len(SubSeq(fifo, n + 1, Len(fifo))) = Len(fifo) - n
      BY <1>5, <2>1 DEF IInv, TypeOK
    <3>3. source' = source /\ last' = Final(SubSeq(fifo, 1, n))
          /\ fifo' = SubSeq(fifo, n + 1, Len(fifo))
      BY <1>1, <2>1
    <3>4. last' \in Seq(Unit) /\ Len(last') <= 1
      BY <3>1, <3>3, FinalTyped
    <3>5. fifo' \in Seq(Unit) /\ Len(fifo') = Len(fifo) - n
      BY <3>2, <3>3
    <3>6. Len(fifo) \in Nat /\ Len(fifo) <= FifoSize /\ source \in Unit
      BY DEF IInv, TypeOK
    <3>7. source' \in Unit /\ Len(fifo') <= Len(fifo) /\ Len(fifo') <= FifoSize
      BY <1>5, <3>3, <3>5, <3>6, BulkAssumption
    <3> QED BY <2>1, <3>4, <3>5, <3>7
  <2>2. CASE dir = "write"
    <3> DEFINE u == Units(source, n)
    <3>1. u \in Seq(Unit) /\ Len(u) = n /\ (source + n) % Modulus \in Unit
      BY <1>5, UnitsTyped DEF IInv, TypeOK
    <3>2. last' = last /\ fifo' = fifo \o u /\ source' = (source + n) % Modulus
      BY <1>1, <2>2
    <3> HIDE DEF u
    <3>3. fifo' \in Seq(Unit) /\ Len(fifo') = Len(fifo) + n
      <4>1. fifo \in Seq(Unit)
        BY DEF IInv, TypeOK
      <4> QED BY <1>5, <3>1, <3>2, <4>1, ConcatProperties
    <3>4. source' \in Unit /\ last' \in Seq(Unit) /\ Len(last') <= 1
      BY <3>1, <3>2 DEF IInv, TypeOK
    <3>5. Len(fifo) \in Nat /\ Len(fifo) + n <= FifoSize
      BY <1>5, <2>2, BulkAssumption, SMTT(30) DEF IInv, TypeOK
    <3> QED BY <1>5, <2>2, <3>3, <3>4, <3>5
  <2> QED BY <2>1, <2>2 DEF IInv, TypeOK
<1>7. TypeOK'
  <2>1. 0 \in 0 .. FifoSize
    BY BulkAssumption
  <2> QED BY <1>1, <1>4, <1>5, <1>6, <2>1, AgendasTyped DEF IInv, TypeOK
<1>8. UserInv'
  BY <1>1, <1>4 DEF IInv, UserInv, WaitsForThread, ThreadIsGone
<1>9. CountedInv'
  <2>1. agenda' = <<"count">> => want' > 0
    <3>1. want \in Nat /\ want' = want - n /\ (agenda' = <<"count">> => want # n)
      BY <1>1, <1>3 DEF IInv, TypeOK
    <3> QED BY <3>1, <1>5
  <2>2. worker = "put" => Len(fifo') + size <= FifoSize
    BY <1>6, BulkAssumption DEF IInv, TypeOK, CountedInv
  <2>3. worker = "take" => size <= Len(fifo')
    BY <1>6, BulkAssumption DEF IInv, TypeOK, CountedInv
  <2> QED BY <1>1, <1>4, <2>1, <2>2, <2>3 DEF IInv, CountedInv
<1>10. EventInv'
  BY <1>1 DEF IInv, EventInv
<1> QED BY <1>7, <1>8, <1>9, <1>10 DEF IInv

\* Every step keeps the invariant.
LEMMA StepKeeps == IInv /\ [Next]_vars => IInv'
<1> SUFFICES ASSUME IInv, [Next]_vars PROVE IInv'
  OBVIOUS
<1>1. CASE Execute
  BY <1>1, EnterKeeps, LoopKeeps, WaitKeeps, GetResultKeeps, AwaitRoomKeeps, PutKeeps,
     AwaitPacketKeeps, TakeKeeps, SubmitKeeps, CancelKeeps DEF Execute
<1>2. CASE \E i \in Slots : Complete(i)
  BY <1>2, CompleteKeeps
<1>3. CASE Control \/ Transfer
  BY <1>3, CallKeeps
<1>4. CASE UserStep \/ TimeOut
  BY <1>4, ThreadStopKeeps, ThreadWaitForKeeps, FifoFlushKeeps, ThreadStartKeeps,
     CountFifoKeeps, MoveDataKeeps, TimeOutKeeps DEF UserStep
<1>5. CASE UNCHANGED vars
  <2>1. /\ UNCHANGED <<dir, Stopped, worker, Index, chunk, size, slot, event, fifo>>
        /\ UNCHANGED <<source, last, agenda, want, counter, killed>>
    BY <1>5 DEF vars, local, requests, user
  <2>2. TypeOK' /\ UserInv'
    BY <2>1 DEF IInv, TypeOK, UserInv, WaitsForThread, ThreadIsGone
  <2>3. CountedInv' /\ EventInv'
    BY <2>1 DEF IInv, CountedInv, EventInv
  <2> QED BY <2>2, <2>3 DEF IInv
<1> QED BY <1>1, <1>2, <1>3, <1>4, <1>5 DEF Next

------------------------------------------------------------------------------
\* In every state of TFIFO_BULK the user and the thread keep out of each other's way,
\* what was counted is there, and every event that nobody will set is set.
THEOREM BulkInvariant == Spec => []IInv
<1>1. Init => IInv
  BY InitIInv
<1>2. IInv /\ [Next]_vars => IInv'
  BY StepKeeps
<1> QED BY <1>1, <1>2, PTL DEF Spec

\* The variables of Execute and of the user's calls have their types, no index leaves its
\* range and no FIFO holds more than its length.
THEOREM BulkTyped == Spec => []TypeOK
<1>1. IInv => TypeOK
  BY DEF IInv
<1> QED BY <1>1, BulkInvariant, PTL

\* The FIFO is never flushed beside a Read or a Write of the thread, for any number and
\* size of requests.
THEOREM FlushIsAlone == Spec => []FlushesAlone
<1>1. IInv => FlushesAlone
  <2> SUFFICES ASSUME IInv, agenda # << >>, Head(agenda) = "flush"
               PROVE  \/ worker \in {"none", "exited"}
                      \/ Stopped /\ worker \notin {"put", "take"}
    BY DEF FlushesAlone
  <2>1. agenda = <<"flush">> \/ agenda = <<"flush", "start">>
    BY Shapes DEF IInv, UserInv
  <2>2. ~WaitsForThread
    BY <2>1 DEF WaitsForThread
  <2> QED BY <2>1, <2>2 DEF IInv, UserInv, ThreadIsGone
<1> QED BY <1>1, BulkInvariant, PTL

\* Start of the thread never finds one to terminate.
THEOREM ThreadNeverKilled == Spec => []NeverKilled
<1>1. IInv => NeverKilled
  BY DEF IInv, UserInv, NeverKilled
<1> QED BY <1>1, BulkInvariant, PTL

\* Whatever fails, the thread waits only for an event that is set or will be.
THEOREM WaitsEnd == Spec => []NeverWaitsInVain
<1>1. IInv => NeverWaitsInVain
  BY DEF IInv, TypeOK, EventInv, NeverWaitsInVain
<1> QED BY <1>1, BulkInvariant, PTL

------------------------------------------------------------------------------
(***************************************************************************)
(* The stream of one half of TFIFO_BULK.  The units are numbered; every    *)
(* place that holds some of them, from the source to the sink, begins at   *)
(* the number where the one before it ends.                                *)
(***************************************************************************)
\* s is the units from p on, and q comes next.
Spans(p, s, q) == s = Units(p, Len(s)) /\ q = (p + Len(s)) % Modulus

------------------------------------------------------------------------------
\* Numbers modulo Modulus and QueueNumber.
LEMMA ModOnce ==
  ASSUME NEW M \in Nat \ {0}, NEW x \in Nat, x < 2 * M
  PROVE  x % M = IF x < M THEN x ELSE x - M
OBVIOUS

\* A remainder taken inside a sum changes nothing.
LEMMA ModTwice ==
  ASSUME NEW p \in Unit, NEW m \in Nat, NEW n \in Nat, m + n < Modulus
  PROVE  (((p + m) % Modulus) + n) % Modulus = (p + (m + n)) % Modulus
<1>1. Modulus \in Nat \ {0} /\ p \in Nat /\ p < Modulus
  BY BulkAssumption DEF Unit
<1> DEFINE q == (p + m) % Modulus
<1>7. /\ p + m \in Nat /\ p + m < 2 * Modulus
      /\ p + (m + n) \in Nat /\ p + (m + n) < 2 * Modulus
  BY <1>1
<1>2. q = IF p + m < Modulus THEN p + m ELSE p + m - Modulus
  BY <1>1, <1>7
<1>3. (p + (m + n)) % Modulus
        = IF p + (m + n) < Modulus THEN p + (m + n) ELSE p + (m + n) - Modulus
  BY <1>1, <1>7
<1> HIDE DEF q
<1>4. q \in Nat /\ q + n \in Nat /\ q + n < 2 * Modulus
  BY <1>1, <1>2
<1>5. (q + n) % Modulus = IF q + n < Modulus THEN q + n ELSE q + n - Modulus
  <2>1. q + n < Modulus => (q + n) % Modulus = q + n
    BY <1>1, <1>4
  <2>2. ~(q + n < Modulus) => (q + n) % Modulus = q + n - Modulus
    BY <1>1, <1>4
  <2> QED BY <2>1, <2>2
<1>6. (q + n) % Modulus = (p + (m + n)) % Modulus
  BY <1>1, <1>2, <1>3, <1>5
<1> QED BY <1>6 DEF q

\* A unit is its own remainder.
LEMMA UnitMod == ASSUME NEW p \in Unit PROVE p \in Nat /\ p % Modulus = p
BY BulkAssumption DEF Unit

\* The units of the source are counted up, modulo Modulus.
LEMMA UnitsAt ==
  ASSUME NEW p \in Unit, NEW n \in Nat
  PROVE  /\ Units(p, n) \in Seq(Unit) /\ Len(Units(p, n)) = n
         /\ \A i \in 1 .. n : Units(p, n)[i] = (p + (i - 1)) % Modulus
BY BulkAssumption DEF Units, Unit

\* Nothing spans nothing.
LEMMA SpansEmpty ==
  ASSUME NEW p \in Unit, NEW q \in Unit
  PROVE  Spans(p, << >>, q) <=> p = q
<1>1. p % Modulus = p
  BY UnitMod
<1>2. Units(p, 0) = << >> /\ p + 0 = p
  BY BulkAssumption DEF Units, Unit
<1> QED BY <1>1, <1>2 DEF Spans

\* What the source gives spans the numbers from where it begins.
LEMMA SpansUnits ==
  ASSUME NEW p \in Unit, NEW n \in Nat
  PROVE  Spans(p, Units(p, n), (p + n) % Modulus)
BY UnitsAt DEF Spans

\* Two sequences that follow each other make one.
LEMMA SpansConcat ==
  ASSUME NEW p \in Unit, NEW q \in Unit, NEW r \in Unit,
         NEW s \in Seq(Unit), NEW t \in Seq(Unit),
         Len(s) + Len(t) < Modulus, Spans(p, s, q), Spans(q, t, r)
  PROVE  Spans(p, s \o t, r)
<1> DEFINE m == Len(s)  n == Len(t)  u == Units(p, m + n)
<1>1. m \in Nat /\ n \in Nat /\ m + n \in Nat /\ m + n < Modulus /\ Modulus \in Nat
  BY BulkAssumption
<1>2. s \o t \in Seq(Unit) /\ Len(s \o t) = m + n
  OBVIOUS
<1>3. u \in Seq(Unit) /\ Len(u) = m + n
  BY <1>1, UnitsAt
<1>4. ASSUME NEW i \in 1 .. m + n PROVE (s \o t)[i] = u[i]
  <2>1. u[i] = (p + (i - 1)) % Modulus
    BY <1>1, UnitsAt
  <2>2. CASE i <= m
    <3>1. (s \o t)[i] = s[i] /\ i \in 1 .. m
      BY <1>1, <2>2
    <3>2. s = Units(p, m) /\ Units(p, m)[i] = (p + (i - 1)) % Modulus
      BY <1>1, <3>1, UnitsAt DEF Spans
    <3> QED BY <2>1, <3>1, <3>2
  <2>3. CASE i > m
    <3> DEFINE j == i - m
    <3>1. (s \o t)[i] = t[j] /\ j \in 1 .. n
      BY <1>1, <2>3
    <3>2. t = Units(q, n) /\ Units(q, n)[j] = (q + (j - 1)) % Modulus
      BY <1>1, <3>1, UnitsAt DEF Spans
    <3>3. j - 1 \in Nat /\ m + (j - 1) < Modulus /\ m + (j - 1) = i - 1
      <4> HIDE DEF m, n
      <4> QED BY <1>1, <3>1
    <3>4. q = (p + m) % Modulus
      BY DEF Spans
    <3>5. (q + (j - 1)) % Modulus = (p + (m + (j - 1))) % Modulus
      BY <1>1, <3>3, <3>4, ModTwice, ZenonT(30)
    <3> QED BY <2>1, <3>1, <3>2, <3>3, <3>5
  <2> QED BY <1>1, <2>2, <2>3
<1>5. s \o t = u
  BY <1>1, <1>2, <1>3, <1>4, SeqEqual
<1>6. r = (p + (m + n)) % Modulus
  BY <1>1, ModTwice DEF Spans
<1> QED BY <1>2, <1>5, <1>6 DEF Spans

\* A sequence cut in two makes two that follow each other.
LEMMA SpansSplit ==
  ASSUME NEW p \in Unit, NEW r \in Unit, NEW s \in Seq(Unit), NEW n \in 0 .. Len(s),
         Len(s) < Modulus, Spans(p, s, r)
  PROVE  /\ (p + n) % Modulus \in Unit
         /\ Spans(p, SubSeq(s, 1, n), (p + n) % Modulus)
         /\ Spans((p + n) % Modulus, SubSeq(s, n + 1, Len(s)), r)
<1> DEFINE q == (p + n) % Modulus  m == Len(s) - n
           h == SubSeq(s, 1, n)  t == SubSeq(s, n + 1, Len(s))
<1>1. /\ n \in Nat /\ m \in Nat /\ n + m = Len(s) /\ n + m < Modulus
      /\ Modulus \in Nat /\ Len(s) \in Nat
  BY BulkAssumption
<1>2. q \in Unit
  BY <1>1, UnitsTyped
<1>3. h \in Seq(Unit) /\ Len(h) = n /\ \A i \in 1 .. n : h[i] = s[i]
  BY <1>1
<1>4. t \in Seq(Unit) /\ Len(t) = m /\ \A i \in 1 .. m : t[i] = s[n + i]
  <2>1. n + 1 \in 1 .. Len(s) + 1 /\ Len(s) \in n .. Len(s)
    BY <1>1
  <2>2. t \in Seq(Unit) /\ Len(t) = m
    <3>1. \A i \in n + 1 .. Len(s) : s[i] \in Unit
      BY <1>1
    <3>2. t \in Seq(Unit)
      BY <1>1, <3>1, SubSeqProperties
    <3>3. CASE n + 1 <= Len(s)
      <4>1. Len(t) = Len(s) - (n + 1) + 1
        BY <1>1, <3>1, <3>3, SubSeqProperties
      <4>2. Len(s) - (n + 1) + 1 = Len(s) - n
        BY <1>1
      <4> QED BY <3>2, <4>1, <4>2
    <3>4. CASE n = Len(s)
      <4>1. Len(t) = 0
        BY <1>1, <3>1, <3>4, SubSeqProperties
      <4> QED BY <1>1, <3>2, <3>4, <4>1
    <3>5. n + 1 <= Len(s) \/ n = Len(s)
      OBVIOUS
    <3> QED BY <3>3, <3>4, <3>5
  <2>3. ASSUME NEW i \in 1 .. m PROVE t[i] = s[n + i]
    BY <1>1
  <2> QED BY <2>2, <2>3
<1>5. \A i \in 1 .. Len(s) : s[i] = (p + (i - 1)) % Modulus
  BY UnitsAt DEF Spans
<1>9. /\ \A i \in 1 .. m : t[i] = (p + (n + (i - 1))) % Modulus
      /\ \A i \in 1 .. m : i - 1 \in Nat /\ n + (i - 1) < Modulus
  <2>1. ASSUME NEW i \in 1 .. m
        PROVE  n + i \in 1 .. Len(s) /\ n + i - 1 = n + (i - 1) /\ i - 1 \in Nat
               /\ n + (i - 1) < Modulus
    <3> HIDE DEF m
    <3> QED BY <1>1
  <2>2. ASSUME NEW i \in 1 .. m PROVE t[i] = (p + (n + (i - 1))) % Modulus
    <3>1. t[i] = s[n + i] /\ s[n + i] = (p + (n + i - 1)) % Modulus
      BY <1>4, <1>5, <2>1
    <3> QED BY <3>1, <2>1
  <2> QED BY <2>1, <2>2
<1>6. h = Units(p, n)
  <2>1. \A i \in 1 .. n : h[i] = Units(p, n)[i]
    BY <1>1, <1>3, <1>5, UnitsAt
  <2> QED BY <1>1, <1>3, <2>1, UnitsAt, SeqEqual
<1>7. t = Units(q, m)
  <2>1. ASSUME NEW i \in 1 .. m PROVE t[i] = Units(q, m)[i]
    <3>1. (q + (i - 1)) % Modulus = (p + (n + (i - 1))) % Modulus
      BY <1>1, <1>9, ModTwice
    <3>2. Units(q, m)[i] = (q + (i - 1)) % Modulus
      BY <1>1, <1>2, UnitsAt
    <3> HIDE DEF q, m, t
    <3>3. t[i] = (p + (n + (i - 1))) % Modulus
      BY <1>9
    <3> QED BY <3>1, <3>2, <3>3, Zenon
  <2>2. Units(q, m) \in Seq(Unit) /\ Len(Units(q, m)) = m
    BY <1>1, <1>2, UnitsAt
  <2> HIDE DEF q, m, t
  <2> QED BY <1>4, <2>1, <2>2, SeqEqual
<1>8. r = (q + m) % Modulus
  <2>1. r = (p + (n + m)) % Modulus
    BY <1>1 DEF Spans
  <2> HIDE DEF m
  <2> QED BY <1>1, <2>1, ModTwice
<1> QED BY <1>2, <1>3, <1>4, <1>6, <1>7, <1>8 DEF Spans

\* The last unit of a sequence comes before what follows the sequence.
LEMMA SpansFinal ==
  ASSUME NEW p \in Unit, NEW q \in Unit, NEW s \in Seq(Unit),
         Len(s) < Modulus, Spans(p, s, q)
  PROVE  \E l \in Unit : Spans(l, Final(s), q)
<1>1. CASE s = << >>
  BY <1>1, SpansEmpty DEF Final
<1>2. CASE s # << >>
  <2> DEFINE n == Len(s) - 1  l == (p + n) % Modulus
  <2>1. n \in 0 .. Len(s) /\ n + 1 = Len(s)
    BY <1>2
  <2>2. l \in Unit /\ Spans(l, SubSeq(s, n + 1, Len(s)), q)
    BY <2>1, SpansSplit
  <2>3. SubSeq(s, n + 1, Len(s)) = <<s[Len(s)]>>
    <3> DEFINE t == SubSeq(s, Len(s), Len(s))
    <3>1. Len(s) \in 1 .. Len(s) /\ s[Len(s)] \in Unit
      BY <1>2
    <3>2. t \in Seq(Unit) /\ Len(t) = 1 /\ t[1] = s[Len(s)]
      BY <3>1
    <3>3. t = <<s[Len(s)]>>
      <4> HIDE DEF t
      <4>1. <<s[Len(s)]>> \in Seq(Unit) /\ Len(<<s[Len(s)]>>) = 1
        BY <3>1
      <4> QED BY <3>1, <3>2, <4>1, SeqEqual
    <3> QED BY <2>1, <3>3
  <2>4. Final(s) = <<s[Len(s)]>>
    BY <1>2 DEF Final
  <2> QED BY <2>2, <2>3, <2>4
<1> QED BY <1>1, <1>2

------------------------------------------------------------------------------
\* The ring of the requests.
After(i) == (i + 1) % QueueNumber
AgeFrom(i, x) == (i + QueueNumber - x) % QueueNumber

\* The slot after another, and the distance between two, without remainders.
LEMMA Ring ==
  ASSUME NEW i \in Slots, NEW x \in Slots
  PROVE  /\ After(i) \in Slots /\ AgeFrom(i, x) \in 0 .. QueueNumber - 1
         /\ After(i) = IF i = QueueNumber - 1 THEN 0 ELSE i + 1
         /\ AgeFrom(i, x) = IF x <= i THEN i - x ELSE i + QueueNumber - x
<1>1. QueueNumber \in Nat \ {0} /\ i \in 0 .. QueueNumber - 1 /\ x \in 0 .. QueueNumber - 1
  BY BulkAssumption DEF Slots
<1>2. After(i) = IF i = QueueNumber - 1 THEN 0 ELSE i + 1
  BY <1>1 DEF After
<1>3. AgeFrom(i, x) = IF x <= i THEN i - x ELSE i + QueueNumber - x
  <2>1. i + QueueNumber - x \in Nat /\ i + QueueNumber - x < 2 * QueueNumber
    BY <1>1
  <2>2. CASE x <= i
    <3>1. i - x \in 0 .. QueueNumber - 1 /\ i + QueueNumber - x = (i - x) + QueueNumber
      BY <1>1, <2>2
    <3>2. ((i - x) + QueueNumber) % QueueNumber = i - x
      BY <1>1, <3>1
    <3> QED BY <2>2, <3>1, <3>2 DEF AgeFrom
  <2>3. CASE x > i
    <3>1. i + QueueNumber - x \in 0 .. QueueNumber - 1
      BY <1>1, <2>3
    <3>2. (i + QueueNumber - x) % QueueNumber = i + QueueNumber - x
      BY <1>1, <3>1
    <3> QED BY <1>1, <2>3, <3>2 DEF AgeFrom
  <2> QED BY <1>1, <2>2, <2>3
<1> QED BY <1>1, <1>2, <1>3 DEF Slots

\* An age is a number below QueueNumber.
LEMMA AgeTyped ==
  ASSUME NEW i \in Slots, NEW x \in Slots
  PROVE  AgeFrom(i, x) \in Nat /\ AgeFrom(i, x) <= QueueNumber - 1
<1>1. AgeFrom(i, x) \in 0 .. QueueNumber - 1 /\ QueueNumber \in Nat \ {0}
  BY Ring, BulkAssumption
<1> QED BY <1>1

\* No two requests are of one age; the oldest is that of Index.
LEMMA Ages ==
  ASSUME NEW i \in Slots, NEW j \in Slots, NEW x \in Slots
  PROVE  /\ AgeFrom(i, x) = AgeFrom(j, x) => i = j
         /\ AgeFrom(x, x) = 0
         /\ AgeFrom(i, After(x)) = IF i = x THEN QueueNumber - 1 ELSE AgeFrom(i, x) - 1
         /\ After(i) # x => AgeFrom(After(i), x) = AgeFrom(i, x) + 1
         /\ After(i) = x => AgeFrom(i, x) = QueueNumber - 1
<1>1. QueueNumber \in Nat \ {0} /\ i \in 0 .. QueueNumber - 1 /\ j \in 0 .. QueueNumber - 1
      /\ x \in 0 .. QueueNumber - 1
  BY BulkAssumption DEF Slots
<1>2. After(i) \in Slots /\ After(x) \in Slots
  BY Ring
<1>3. After(i) = IF i = QueueNumber - 1 THEN 0 ELSE i + 1
  BY Ring
<1>4. After(x) = IF x = QueueNumber - 1 THEN 0 ELSE x + 1
  BY Ring
<1>5. /\ AgeFrom(i, x) = IF x <= i THEN i - x ELSE i + QueueNumber - x
      /\ AgeFrom(j, x) = IF x <= j THEN j - x ELSE j + QueueNumber - x
      /\ AgeFrom(x, x) = IF x <= x THEN x - x ELSE x + QueueNumber - x
  BY Ring
<1>6. AgeFrom(i, After(x)) = IF After(x) <= i THEN i - After(x) ELSE i + QueueNumber - After(x)
  BY <1>2, Ring
<1>7. AgeFrom(After(i), x) = IF x <= After(i) THEN After(i) - x ELSE After(i) + QueueNumber - x
  BY <1>2, Ring
<1>8. AgeFrom(i, x) = AgeFrom(j, x) => i = j
  BY <1>1, <1>5
<1>9. AgeFrom(x, x) = 0
  BY <1>1, <1>5
<1>10. AgeFrom(i, After(x)) = IF i = x THEN QueueNumber - 1 ELSE AgeFrom(i, x) - 1
  BY <1>1, <1>4, <1>5, <1>6
<1>11. After(i) # x => AgeFrom(After(i), x) = AgeFrom(i, x) + 1
  BY <1>1, <1>3, <1>5, <1>7
<1>12. After(i) = x => AgeFrom(i, x) = QueueNumber - 1
  BY <1>1, <1>3, <1>5
<1> QED BY <1>8, <1>9, <1>10, <1>11, <1>12

------------------------------------------------------------------------------
\* What a request holds in which state, and that the device answers in order: what is
\* younger than a pending request is pending.
RequestInv ==
  /\ \A i \in Slots : slot[i].status # (IF dir = "read" THEN "done" ELSE "pending")
                        => slot[i].data = << >>
  /\ \A i \in Slots : slot[i].status = "pending" => ~event[i]
  /\ ~Stopped => \A i, j \in Slots :
       slot[i].status = "pending" /\ AgeFrom(i, Index) <= AgeFrom(j, Index)
         => slot[j].status = "pending"
  /\ worker \in {"none", "start", "exited"} => \A i \in Slots : slot[i].status = "idle"
  /\ worker \in {"move", "put", "take", "submit"} => slot[Index].status = "idle"
  /\ worker = "result" => slot[Index].status # "pending"
  /\ worker \in {"cancel", "exited"} => Stopped
  /\ dir = "read" => /\ worker \notin {"move", "put", "submit"} => chunk = << >>
                     /\ worker = "submit" /\ ~Stopped => chunk = << >>
  /\ agenda = <<"start">> => fifo = << >> /\ last = << >>

\* At the start every slot is idle.
LEMMA InitRequestInv == Init => RequestInv
BY DEF Init, RequestInv, Request

\* Only a Flush comes right before the Start of the thread.
LEMMA StartAfterFlush ==
  ASSUME IInv, \/ Control \/ Transfer \/ ThreadStop \/ ThreadWaitFor
               \/ ThreadStart \/ CountFifo \/ MoveData \/ TimeOut
  PROVE  agenda' # <<"start">>
<1> DEFINE start == <<"start">>
<1>1. /\ start # <<"stop", "wait">> /\ start # <<"stop", "wait", "flush", "start">>
      /\ start # <<"flush">> /\ start # <<"count">> /\ start # << >>
  OBVIOUS
<1>2. start # <<"wait">> /\ start # <<"wait", "flush", "start">> /\ start # <<"flush", "start">>
      /\ start # <<"transfer">>
  OBVIOUS
<1>3. CASE Control \/ Transfer
  BY <1>1, <1>3, Bodies DEF Control, Transfer, Call
<1>4. CASE ThreadStop \/ ThreadWaitFor \/ ThreadStart \/ TimeOut
  <2>1. /\ agenda # << >> /\ Head(agenda) \in {"stop", "wait", "start", "count"}
        /\ agenda' = << >> \o Tail(agenda)
    BY <1>4 DEF ThreadStop, ThreadWaitFor, ThreadStart, TimeOut, Do
  <2>2. Tail(agenda) \in {<<"wait">>, <<"wait", "flush", "start">>, << >>, <<"flush", "start">>}
    BY <2>1, Shapes DEF IInv, UserInv
  <2>3. << >> \o Tail(agenda) = Tail(agenda)
    <3>1. << >> \o <<"wait">> = <<"wait">> /\ << >> \o << >> = << >>
      OBVIOUS
    <3>2. << >> \o <<"wait", "flush", "start">> = <<"wait", "flush", "start">>
      OBVIOUS
    <3>3. << >> \o <<"flush", "start">> = <<"flush", "start">>
      OBVIOUS
    <3> QED BY <2>2, <3>1, <3>2, <3>3
  <2> QED BY <1>1, <1>2, <2>1, <2>2, <2>3
<1>5. CASE CountFifo \/ MoveData
  <2>1. /\ agenda # << >> /\ Head(agenda) \in {"count", "transfer"}
        /\ \/ agenda' = <<"transfer">> \o Tail(agenda)
           \/ agenda' = << >> \o Tail(agenda)
           \/ agenda' = <<"count">> \o Tail(agenda)
    BY <1>5 DEF CountFifo, MoveData, Do
  <2>2. Tail(agenda) = << >>
    BY <2>1, Shapes DEF IInv, UserInv
  <2>3. /\ <<"transfer">> \o << >> = <<"transfer">> /\ <<"count">> \o << >> = <<"count">>
        /\ << >> \o << >> = << >>
    OBVIOUS
  <2> QED BY <1>1, <1>2, <2>1, <2>2, <2>3
<1> QED BY <1>3, <1>4, <1>5

\* What Start and Flush find.
LEMMA StartFinds ==
  ASSUME IInv, ThreadStart
  PROVE  agenda = <<"start">> /\ worker = "none" /\ Stopped
BY Shapes DEF IInv, UserInv, ThreadIsGone, ThreadStart, Do

\* A Flush finds the thread stopped, and with no chunk in its hands.
LEMMA FlushFinds ==
  ASSUME IInv, FifoFlush
  PROVE  Stopped /\ worker \notin {"put", "take"}
<1>1. agenda = <<"flush">> \/ agenda = <<"flush", "start">>
  BY Shapes DEF IInv, UserInv, FifoFlush, Do
<1>2. ~WaitsForThread
  BY <1>1 DEF WaitsForThread
<1> QED BY <1>1, <1>2 DEF IInv, UserInv, ThreadIsGone

\* agenda = <<"start">> rules the thread out.
LEMMA StartAlone == ASSUME IInv, agenda = <<"start">> PROVE worker = "none" /\ Stopped
BY DEF IInv, UserInv, ThreadIsGone

\* Execute and the device keep RequestInv.
LEMMA QuietKeepsRequests ==
  IInv /\ RequestInv /\ (Loop \/ Wait \/ AwaitRoom \/ AwaitPacket) => RequestInv'
<1> SUFFICES ASSUME IInv, RequestInv, Loop \/ Wait \/ AwaitRoom \/ AwaitPacket PROVE RequestInv'
  OBVIOUS
<1>1. UNCHANGED <<dir, Stopped, Index, slot, chunk, agenda, fifo, last>>
  BY DEF Loop, Wait, AwaitRoom, AwaitPacket, local, requests, user
<1>2. \A i \in Slots : slot[i].status = "pending" => ~event'[i]
  BY DEF Loop, Wait, AwaitRoom, AwaitPacket, requests, IInv, TypeOK, RequestInv
<1>3. /\ worker' \in {"loop", "cancel", "wait", "result", "submit", "put", "take"}
      /\ worker' \in {"submit", "put", "take"} => slot[Index].status = "idle"
      /\ worker' = "result" => slot[Index].status # "pending"
      /\ worker' = "cancel" => Stopped
  BY DEF Loop, Wait, AwaitRoom, AwaitPacket, Go, IInv, TypeOK, RequestInv
<1>4. dir = "read" => /\ worker' \notin {"move", "put", "submit"} => chunk = << >>
                      /\ worker' = "submit" /\ ~Stopped => chunk = << >>
  <2>1. dir = "read" => size = Len(chunk) /\ chunk \in Seq(Unit)
    BY DEF IInv, TypeOK, CountedInv
  <2> QED BY <2>1 DEF Loop, Wait, AwaitRoom, AwaitPacket, Go, RequestInv
<1> QED BY <1>1, <1>2, <1>3, <1>4 DEF RequestInv

\* Each slot of a thread that begins is empty.
LEMMA EnterKeepsRequests == IInv /\ RequestInv /\ Enter => RequestInv'
<1> SUFFICES ASSUME IInv, RequestInv, Enter PROVE RequestInv'
  OBVIOUS
<1>1. /\ UNCHANGED <<dir, Stopped, chunk, agenda, fifo, last>>
      /\ worker = "start" /\ worker' = IF Stopped THEN "exited" ELSE "loop"
      /\ \A i \in Slots : slot'[i].status = "idle" /\ slot'[i].data = << >>
  BY DEF Enter, Go, user, Request
<1> QED BY <1>1 DEF RequestInv

\* After the thread has left no request is out.
LEMMA CancelKeepsRequests == IInv /\ RequestInv /\ Cancel => RequestInv'
<1> SUFFICES ASSUME IInv, RequestInv, Cancel PROVE RequestInv'
  OBVIOUS
<1>1. /\ UNCHANGED <<dir, Stopped, chunk, agenda, fifo, last>>
      /\ worker = "cancel" /\ worker' = "exited"
      /\ \A i \in Slots : slot'[i].status = "idle" /\ slot'[i].data = << >>
  BY DEF Cancel, Go, user, local, Request
<1> QED BY <1>1 DEF RequestInv

\* The slot that was served is the one of Index.
LEMMA GetResultKeepsRequests == IInv /\ RequestInv /\ GetResult => RequestInv'
<1> SUFFICES ASSUME IInv, RequestInv, GetResult PROVE RequestInv'
  OBVIOUS
<1>1. /\ UNCHANGED <<dir, Index, event, agenda, fifo, last>>
      /\ worker = "result" /\ worker' = "move" /\ (~Stopped' => ~Stopped)
  BY DEF GetResult, Go, user
<1>2. /\ Index \in Slots /\ slot'[Index].status = "idle" /\ slot'[Index].data = << >>
      /\ slot[Index].status # "pending"
      /\ \A i \in Slots : i # Index => slot'[i] = slot[i]
  BY <1>1 DEF GetResult, Request, IInv, TypeOK, RequestInv
<1> QED BY <1>1, <1>2 DEF RequestInv

\* A chunk handed on leaves its slot free.
LEMMA PutKeepsRequests == IInv /\ RequestInv /\ (Put \/ Take) => RequestInv'
<1> SUFFICES ASSUME IInv, RequestInv, Put \/ Take PROVE RequestInv'
  OBVIOUS
<1>1. /\ UNCHANGED <<dir, Stopped, Index, slot, event, agenda, last>>
      /\ worker \in {"put", "take"} /\ worker' = "submit" /\ (worker = "put" => chunk' = << >>)
      /\ worker = "put" <=> dir = "read"
  BY DEF Put, Take, Go, user, requests, IInv, CountedInv
<1>2. agenda # <<"start">>
  BY <1>1, StartAlone
<1> QED BY <1>1, <1>2 DEF RequestInv

\* A slot filled anew becomes the youngest one.
LEMMA SubmitKeepsRequests == IInv /\ RequestInv /\ Submit => RequestInv'
<1> SUFFICES ASSUME IInv, RequestInv, Submit PROVE RequestInv'
  OBVIOUS
<1>1. /\ UNCHANGED <<dir, agenda, fifo, last>>
      /\ worker = "submit" /\ worker' = "loop" /\ chunk' = << >> /\ (~Stopped' => ~Stopped)
      /\ Index' = After(Index) /\ event' = [event EXCEPT ![Index] = FALSE]
  BY DEF Submit, Go, user, After
<1>2. /\ Index \in Slots /\ slot[Index].status = "idle"
      /\ \A i \in Slots : i # Index => slot'[i] = slot[i]
      /\ \/ slot' = slot /\ Stopped'
         \/ /\ slot'[Index].status = "pending"
            /\ slot'[Index].data = IF dir = "write" THEN chunk ELSE << >>
  BY <1>1 DEF Submit, Request, IInv, TypeOK, RequestInv
<1>3. \A i \in Slots : slot'[i].status # (IF dir = "read" THEN "done" ELSE "pending")
                         => slot'[i].data = << >>
  BY <1>2 DEF IInv, TypeOK, RequestInv
<1>4. \A i \in Slots : slot'[i].status = "pending" => ~event'[i]
  BY <1>1, <1>2 DEF IInv, TypeOK, RequestInv
<1>5. ASSUME ~Stopped', NEW i \in Slots, NEW j \in Slots, slot'[i].status = "pending",
             AgeFrom(i, Index') <= AgeFrom(j, Index')
      PROVE  slot'[j].status = "pending"
  <2>1. slot'[Index].status = "pending"
    BY <1>2, <1>5
  <2>2. CASE j # Index
    <3>1. /\ QueueNumber \in Nat /\ AgeFrom(i, Index) \in Nat /\ AgeFrom(j, Index) \in Nat
          /\ AgeFrom(j, Index) <= QueueNumber - 1
      BY <1>2, AgeTyped, BulkAssumption
    <3>2. AgeFrom(j, Index') = AgeFrom(j, Index) - 1
          /\ AgeFrom(i, Index') = IF i = Index THEN QueueNumber - 1 ELSE AgeFrom(i, Index) - 1
      BY <1>1, <1>2, <2>2, Ages
    <3>3. i # Index /\ AgeFrom(i, Index) <= AgeFrom(j, Index)
      BY <1>5, <3>1, <3>2
    <3> QED BY <1>1, <1>2, <1>5, <2>2, <3>3 DEF RequestInv
  <2> QED BY <2>1, <2>2
<1> QED BY <1>1, <1>3, <1>4, <1>5 DEF RequestInv

\* The device finishes only the oldest pending request, so those that are done are older still.
LEMMA CompleteKeepsRequests ==
  ASSUME NEW i \in Slots, IInv, RequestInv, Complete(i) PROVE RequestInv'
<1>1. /\ UNCHANGED <<dir, Stopped, worker, Index, chunk, agenda, fifo>>
      /\ event' = [event EXCEPT ![i] = TRUE]
  BY DEF Complete, local, user
<1>2. /\ slot[i].status = "pending" /\ Index \in Slots
      /\ \A j \in Slots : slot[j].status = "pending" => AgeFrom(i, Index) <= AgeFrom(j, Index)
  BY DEF Complete, Oldest, Age, AgeFrom, IInv, TypeOK
<1>3. /\ slot'[i].status \in {"done", "failed"}
      /\ dir = "write" \/ slot'[i].status = "failed" => slot'[i].data = << >>
      /\ \A j \in Slots : j # i => slot'[j] = slot[j]
  <2>1. PICK status \in {"done", "failed"} :
          \/ /\ dir = "read"
             /\ \E n \in 0 .. QueueSize :
                  slot' = [slot EXCEPT ![i] =
                            Request(status, IF status = "done" THEN Units(source, n) ELSE << >>)]
          \/ dir = "write" /\ slot' = [slot EXCEPT ![i] = Request(status, << >>)]
    BY DEF Complete
  <2> QED BY <2>1 DEF Request, IInv, TypeOK
<1>4. worker \notin {"none", "exited"} /\ agenda # <<"start">>
  BY <1>2, StartAlone DEF RequestInv
<1>5. /\ worker # "start"
      /\ worker \in {"move", "put", "take", "submit", "result"} => i # Index
  BY <1>2 DEF RequestInv
<1>6. \A j \in Slots : slot'[j].status # (IF dir = "read" THEN "done" ELSE "pending")
                         => slot'[j].data = << >>
  <2>1. dir \in {"read", "write"}
    BY DEF IInv, TypeOK
  <2>2. slot'[i].status # (IF dir = "read" THEN "done" ELSE "pending") => slot'[i].data = << >>
    BY <1>3, <2>1
  <2>3. ASSUME NEW j \in Slots, j # i
        PROVE  slot'[j].status # (IF dir = "read" THEN "done" ELSE "pending")
                 => slot'[j].data = << >>
    <3>1. slot'[j] = slot[j]
      BY <1>3, <2>3
    <3> QED BY <3>1 DEF RequestInv
  <2> QED BY <2>2, <2>3
<1>7. \A j \in Slots : slot'[j].status = "pending" => ~event'[j]
  BY <1>1, <1>3 DEF IInv, TypeOK, RequestInv
<1>8. ASSUME ~Stopped, NEW j \in Slots, NEW k \in Slots, slot'[j].status = "pending",
             AgeFrom(j, Index) <= AgeFrom(k, Index)
      PROVE  slot'[k].status = "pending"
  <2>1. j # i /\ slot[j].status = "pending" /\ slot[k].status = "pending"
    BY <1>3, <1>8 DEF RequestInv
  <2>2. AgeFrom(i, Index) <= AgeFrom(j, Index) /\ AgeFrom(i, Index) # AgeFrom(j, Index)
    BY <1>2, <2>1, Ages
  <2>3. AgeFrom(i, Index) \in Nat /\ AgeFrom(j, Index) \in Nat /\ AgeFrom(k, Index) \in Nat
    BY <1>2, AgeTyped
  <2>4. AgeFrom(i, Index) # AgeFrom(k, Index)
    BY <1>8, <2>2, <2>3
  <2>5. k # i
    BY <2>4
  <2>6. slot'[k] = slot[k]
    BY <1>3, <2>5
  <2> QED BY <2>1, <2>6
<1>9. worker \in {"move", "put", "take", "submit", "result"} => slot'[Index] = slot[Index]
  BY <1>2, <1>3, <1>5
<1> QED BY <1>1, <1>4, <1>5, <1>6, <1>7, <1>8, <1>9 DEF RequestInv

\* So does the user.
LEMMA UserKeepsRequests ==
  IInv /\ RequestInv /\ (Control \/ Transfer \/ UserStep \/ TimeOut) => RequestInv'
<1> SUFFICES ASSUME IInv, RequestInv, Control \/ Transfer \/ UserStep \/ TimeOut
             PROVE  RequestInv'
  OBVIOUS
<1>1. UNCHANGED <<dir, Index, slot, event, chunk>>
  BY DEF Control, Transfer, Call, UserStep, ThreadStop, ThreadWaitFor, FifoFlush,
         ThreadStart, CountFifo, MoveData, TimeOut, local, requests
<1>2. CASE ThreadStart
  <2>1. worker = "none" /\ worker' \in {"start", "none"} /\ agenda' # <<"start">>
    BY <1>2, StartFinds, StartAfterFlush DEF ThreadStart
  <2> QED BY <1>1, <2>1 DEF RequestInv
<1>3. CASE FifoFlush
  <2>1. UNCHANGED <<Stopped, worker>> /\ fifo' = << >> /\ last' = << >>
    BY <1>3 DEF FifoFlush
  <2> QED BY <1>1, <2>1 DEF RequestInv
<1>4. CASE Control \/ Transfer \/ ThreadStop \/ ThreadWaitFor \/ CountFifo \/ MoveData \/ TimeOut
  <2>1. agenda' # <<"start">>
    BY <1>4, StartAfterFlush
  <2>2. /\ Stopped' = Stopped \/ Stopped'
        /\ worker' = worker \/ (worker \in {"none", "exited"} /\ worker' = "none")
    BY <1>4 DEF Control, Transfer, Call, ThreadStop, ThreadWaitFor, CountFifo, MoveData, TimeOut
  <2> QED BY <1>1, <2>1, <2>2 DEF RequestInv
<1> QED BY <1>2, <1>3, <1>4 DEF UserStep

------------------------------------------------------------------------------
(***************************************************************************)
(* The stream.  Numbers mark where the units of each place begin: l those   *)
(* of last, f of the FIFO, c of the chunk, at[i] of request i.  What a place *)
(* holds spans from its number to the number of the next place, and behind  *)
(* the last place comes source.  When the thread is stopped, or behind a    *)
(* request that failed, only what the user still gets is in order.          *)
(***************************************************************************)
End(at, c, i) ==
  IF After(i) # Index THEN at[After(i)] ELSE IF dir = "read" THEN source ELSE c

ReadChain(at, l, f, c) ==
  /\ Spans(l, last, f) /\ Spans(f, fifo, c)
  /\ ~Stopped \/ worker = "put" => Spans(c, chunk, at[Index])
  /\ ~Stopped => \A i \in Slots : slot[i].status = "pending" => at[i] = source

WriteChain(at, l, f, c) ==
  /\ Spans(f, fifo, source)
  /\ ~Stopped => Spans(l, last, at[Index]) /\ Spans(c, chunk, f)

Chained(at, l, f, c) ==
  /\ dir = "read" => ReadChain(at, l, f, c)
  /\ dir = "write" => WriteChain(at, l, f, c)
  /\ ~Stopped => \A i \in Slots :
       slot[i].status # "failed" => Spans(at[i], slot[i].data, End(at, c, i))
  /\ ~Stopped /\ worker \in {"none", "start"} =>
       \A i \in Slots : at[i] = IF dir = "read" THEN source ELSE c

Linked == \E at \in [Slots -> Unit], l, f, c \in Unit : Chained(at, l, f, c)

SInv == IInv /\ RequestInv /\ Linked

\* At the start every place is empty and at the stream's beginning.
LEMMA InitLinked == Init => Linked
<1> SUFFICES ASSUME Init PROVE Linked
  OBVIOUS
<1> DEFINE at == [i \in Slots |-> 0]
<1>1. 0 \in Unit /\ Spans(0, << >>, 0) /\ at \in [Slots -> Unit]
  <2>1. 0 \in Unit
    BY BulkAssumption DEF Unit
  <2> QED BY <2>1, SpansEmpty
<1>2. /\ fifo = << >> /\ last = << >> /\ chunk = << >> /\ source = 0 /\ Stopped /\ worker = "none"
  BY DEF Init
<1>3. Chained(at, 0, 0, 0)
  BY <1>1, <1>2 DEF Chained, ReadChain, WriteChain
<1> HIDE DEF at
<1> QED BY <1>1, <1>3, Zenon DEF Linked

\* There is room for a round of the numbers.
LEMMA Room == FifoSize + 1 < Modulus
<1>1. /\ QueueNumber \in Nat \ {0} /\ QueueSize \in Nat \ {0} /\ FifoSize \in Nat
      /\ Modulus \in Nat /\ Modulus > FifoSize + (QueueNumber + 1) * QueueSize
  BY BulkAssumption
<1>2. (QueueNumber + 1) * QueueSize >= 2
  <2>1. \A a, b \in Nat : a >= 1 /\ b >= 1 => (a + 1) * b >= 2
    OBVIOUS
  <2> QED BY <1>1, <2>1
<1> QED BY <1>1, <1>2

\* The types of what the proofs below use.
LEMMA StreamTyped ==
  ASSUME IInv
  PROVE  /\ Index \in Slots /\ source \in Unit /\ dir \in {"read", "write"}
         /\ last \in Seq(Unit) /\ fifo \in Seq(Unit) /\ chunk \in Seq(Unit)
         /\ Len(last) < Modulus /\ Len(fifo) < Modulus /\ Len(chunk) < Modulus
         /\ \A i \in Slots : slot[i].data \in Seq(Unit) /\ Len(slot[i].data) < Modulus
<1>1. /\ Index \in Slots /\ source \in Unit /\ dir \in {"read", "write"}
      /\ last \in Seq(Unit) /\ fifo \in Seq(Unit) /\ chunk \in Seq(Unit)
      /\ \A i \in Slots : slot[i].data \in Seq(Unit)
  BY DEF IInv, TypeOK
<1>2. /\ Len(last) <= 1 /\ Len(fifo) <= FifoSize /\ Len(chunk) <= QueueSize
      /\ \A i \in Slots : Len(slot[i].data) <= QueueSize
  BY DEF IInv, TypeOK, CountedInv
<1>3. /\ FifoSize \in Nat /\ QueueSize \in Nat /\ Modulus \in Nat
      /\ QueueSize <= FifoSize /\ FifoSize + 1 < Modulus
  BY Room, BulkAssumption
<1>4. \A s \in Seq(Unit), n \in Nat : Len(s) <= n /\ n < Modulus => Len(s) < Modulus
  BY <1>3
<1>5. 1 < Modulus /\ FifoSize < Modulus /\ QueueSize < Modulus
  BY <1>3
<1> QED BY <1>1, <1>2, <1>3, <1>4, <1>5

\* The number at which a slot of the ring ends is a unit.
LEMMA EndTyped ==
  ASSUME IInv, NEW at \in [Slots -> Unit], NEW c \in Unit, NEW i \in Slots
  PROVE  End(at, c, i) \in Unit
BY StreamTyped, Ring DEF End

\* A step that touches no unit that still counts leaves the numbers alone.
LEMMA SameChain ==
  ASSUME NEW at \in [Slots -> Unit], NEW l, NEW f, NEW c, Chained(at, l, f, c),
         UNCHANGED <<dir, fifo, source, last>>,
         ~Stopped' \/ worker' = "put" =>
           UNCHANGED <<chunk, Index>> /\ (~Stopped \/ worker = "put"),
         ~Stopped' => UNCHANGED slot /\ ~Stopped,
         ~Stopped' /\ worker' \in {"none", "start"} => worker \in {"none", "start"}
  PROVE  Chained(at, l, f, c)'
<1>1. dir = "read" => ReadChain(at, l, f, c)'
  BY DEF Chained, ReadChain
<1>2. dir = "write" => WriteChain(at, l, f, c)'
  BY DEF Chained, WriteChain
<1>3. ~Stopped' => \A i \in Slots : End(at, c, i)' = End(at, c, i)
  BY DEF End
<1> QED BY <1>1, <1>2, <1>3 DEF Chained

\* Linked holds in the next state as soon as numbers for the places are shown.
LEMMA LinkedBy ==
  ASSUME NEW at \in [Slots -> Unit], NEW l \in Unit, NEW f \in Unit, NEW c \in Unit,
         Chained(at, l, f, c)'
  PROVE  Linked'
BY Zenon DEF Linked

------------------------------------------------------------------------------
\* The steps that leave the numbers alone.
LEMMA QuietKeepsLinked ==
  SInv /\ (Loop \/ Wait \/ AwaitRoom \/ AwaitPacket \/ Cancel) => Linked'
<1> SUFFICES ASSUME SInv, Loop \/ Wait \/ AwaitRoom \/ AwaitPacket \/ Cancel PROVE Linked'
  OBVIOUS
<1>1. PICK at \in [Slots -> Unit], l \in Unit, f \in Unit, c \in Unit : Chained(at, l, f, c)
  BY DEF SInv, Linked
<1>2. UNCHANGED <<dir, Stopped, Index, chunk, fifo, source, last>>
  BY DEF Loop, Wait, AwaitRoom, AwaitPacket, Cancel, local
<1>3. /\ ~Stopped => UNCHANGED slot
      /\ worker' = "put" => ~Stopped
      /\ worker' \notin {"none", "start"}
  BY DEF Loop, Wait, AwaitRoom, AwaitPacket, Cancel, Go, requests, SInv, RequestInv
<1>4. Chained(at, l, f, c)'
  BY <1>1, <1>2, <1>3, SameChain
<1> QED BY <1>4, LinkedBy

\* A call of the user moves no unit.
LEMMA CallKeepsLinked ==
  SInv /\ (Control \/ Transfer \/ ThreadStop \/ ThreadWaitFor \/ CountFifo \/ TimeOut) => Linked'
<1> SUFFICES ASSUME SInv,
                    Control \/ Transfer \/ ThreadStop \/ ThreadWaitFor \/ CountFifo \/ TimeOut
             PROVE  Linked'
  OBVIOUS
<1>1. PICK at \in [Slots -> Unit], l \in Unit, f \in Unit, c \in Unit : Chained(at, l, f, c)
  BY DEF SInv, Linked
<1>2. UNCHANGED <<dir, Index, slot, chunk, fifo, source, last>>
  BY DEF Control, Transfer, Call, ThreadStop, ThreadWaitFor, CountFifo, TimeOut, local, requests
<1>3. /\ ~Stopped' => ~Stopped
      /\ worker' = worker \/ (worker \in {"none", "exited"} /\ worker' = "none")
  BY DEF Control, Transfer, Call, ThreadStop, ThreadWaitFor, CountFifo, TimeOut
<1>4. worker = "exited" => Stopped
  BY DEF SInv, RequestInv
<1>5. Chained(at, l, f, c)'
  BY <1>1, <1>2, <1>3, <1>4, SameChain
<1> QED BY <1>5, LinkedBy

\* A thread that begins puts the ring of its requests behind what the FIFO holds.
LEMMA EnterKeepsLinked == SInv /\ Enter => Linked'
<1> SUFFICES ASSUME SInv, Enter PROVE Linked'
  OBVIOUS
<1>1. PICK at \in [Slots -> Unit], l \in Unit, f \in Unit, c \in Unit : Chained(at, l, f, c)
  BY DEF SInv, Linked
<1>2. /\ UNCHANGED <<dir, Stopped, chunk, fifo, source, last>>
      /\ worker = "start" /\ worker' \in {"exited", "loop"} /\ Index' = 0
      /\ \A i \in Slots : slot'[i].status = "idle" /\ slot'[i].data = << >>
  BY DEF Enter, Go, Request
<1>3. CASE Stopped
  <2>1. Chained(at, l, f, c)'
    BY <1>1, <1>2, <1>3, SameChain
  <2> QED BY <2>1, LinkedBy
<1>4. CASE ~Stopped
  <2>1. /\ 0 \in Slots /\ Index \in Slots /\ source \in Unit
        /\ \A i \in Slots : After(i) \in Slots
    BY Ring, StreamTyped, BulkAssumption, SMTT(30) DEF SInv, Slots
  <2>2. \A i \in Slots : at[i] = IF dir = "read" THEN source ELSE c
    BY <1>1, <1>2, <1>4 DEF Chained
  <2>3. \A i \in Slots : End(at, c, i)' = at[i]
    BY <1>2, <2>1, <2>2 DEF End
  <2>4. \A i \in Slots : Spans(at[i], << >>, at[i])
    BY SpansEmpty
  <2>5. dir = "read" => ReadChain(at, l, f, c)'
    BY <1>1, <1>2, <1>4, <2>1, <2>2 DEF Chained, ReadChain
  <2>6. dir = "write" => WriteChain(at, l, f, c)'
    BY <1>1, <1>2, <1>4, <2>1, <2>2 DEF Chained, WriteChain
  <2>7. Chained(at, l, f, c)'
    BY <1>2, <2>3, <2>4, <2>5, <2>6 DEF Chained
  <2> QED BY <2>7, LinkedBy
<1> QED BY <1>3, <1>4

\* A flush and a start drop what is in flight; the stream begins anew.
LEMMA StartKeepsLinked == SInv /\ (ThreadStart \/ FifoFlush) => Linked'
<1> SUFFICES ASSUME SInv, ThreadStart \/ FifoFlush PROVE Linked'
  OBVIOUS
<1>0. PICK z \in Unit, at \in [Slots -> Unit] : z = source /\ at = [i \in Slots |-> z]
  BY StreamTyped DEF SInv
<1>1. /\ z = source /\ Index \in Slots /\ Spans(z, << >>, z)
      /\ \A i \in Slots : at[i] = z /\ After(i) \in Slots
  BY <1>0, StreamTyped, SpansEmpty, Ring DEF SInv
<1>2. UNCHANGED <<dir, Index, slot, chunk, source>>
  BY DEF ThreadStart, FifoFlush, local, requests
<1>3. fifo' = << >> /\ last' = << >>
  BY StartFinds DEF ThreadStart, FifoFlush, SInv, RequestInv
<1>4. CASE FifoFlush
  <2>1. Stopped' /\ worker' # "put"
    BY <1>4, FlushFinds DEF FifoFlush, SInv
  <2>2. Chained(at, z, z, z)'
    BY <1>1, <1>2, <1>3, <2>1 DEF Chained, ReadChain, WriteChain
  <2> QED BY <1>1, <2>2, LinkedBy
<1>5. CASE ThreadStart
  <2>1. worker = "none"
    BY <1>5, StartFinds DEF SInv
  <2>2. chunk = << >> /\ \A i \in Slots : slot[i].status = "idle" /\ slot[i].data = << >>
    BY <2>1, StreamTyped DEF SInv, IInv, CountedInv, RequestInv
  <2>3. \A i \in Slots : End(at, z, i)' = z
    BY <1>1, <1>2 DEF End
  <2>4. ReadChain(at, z, z, z)' /\ WriteChain(at, z, z, z)'
    BY <1>1, <1>2, <1>3, <2>2 DEF ReadChain, WriteChain
  <2>5. Chained(at, z, z, z)'
    BY <1>1, <1>2, <2>2, <2>3, <2>4 DEF Chained
  <2> QED BY <1>1, <2>5, LinkedBy
<1> QED BY <1>4, <1>5

\* The user takes the first units of the FIFO, or appends the next of the source.
LEMMA MoveDataKeepsLinked == SInv /\ MoveData => Linked'
<1> SUFFICES ASSUME SInv, MoveData PROVE Linked'
  OBVIOUS
<1>1. PICK at \in [Slots -> Unit], l \in Unit, f \in Unit, c \in Unit : Chained(at, l, f, c)
  BY DEF SInv, Linked
<1> DEFINE n == Smaller(counter, want)
<1>2. /\ n \in Nat /\ n <= (IF dir = "read" THEN Len(fifo) ELSE FifoSize - Len(fifo))
  BY MoveDataFits DEF SInv
<1>3. /\ UNCHANGED <<dir, Stopped, worker, Index, slot, chunk>>
      /\ \/ /\ dir = "read" /\ last' = Final(SubSeq(fifo, 1, n))
            /\ fifo' = SubSeq(fifo, n + 1, Len(fifo)) /\ UNCHANGED source
         \/ /\ dir = "write" /\ fifo' = fifo \o Units(source, n)
            /\ source' = (source + n) % Modulus /\ UNCHANGED last
  BY DEF MoveData, local, requests
<1> HIDE DEF n
<1>4. CASE dir = "read"
  <2>1. /\ n \in 0 .. Len(fifo) /\ fifo \in Seq(Unit) /\ Len(fifo) < Modulus
        /\ source' = source /\ last' = Final(SubSeq(fifo, 1, n))
        /\ fifo' = SubSeq(fifo, n + 1, Len(fifo))
    BY <1>2, <1>3, <1>4, StreamTyped DEF SInv
  <2>2. Spans(f, fifo, c)
    BY <1>1, <1>4 DEF Chained, ReadChain
  <2>3. PICK q \in Unit : Spans(f, SubSeq(fifo, 1, n), q) /\ Spans(q, fifo', c)
    BY <2>1, <2>2, SpansSplit
  <2>4. SubSeq(fifo, 1, n) \in Seq(Unit) /\ Len(SubSeq(fifo, 1, n)) < Modulus
    <3>1. SubSeq(fifo, 1, n) \in Seq(Unit) /\ Len(SubSeq(fifo, 1, n)) = n
      BY <2>1
    <3>2. n <= Len(fifo) /\ Len(fifo) \in Nat /\ Modulus \in Nat
      BY <2>1, BulkAssumption
    <3> QED BY <1>2, <2>1, <3>1, <3>2
  <2>5. PICK k \in Unit : Spans(k, last', q)
    BY <2>1, <2>3, <2>4, SpansFinal
  <2>6. Chained(at, k, q, c)'
    <3>1. ReadChain(at, k, q, c)'
      BY <1>1, <1>3, <1>4, <2>1, <2>3, <2>5 DEF Chained, ReadChain
    <3>2. \A i \in Slots : End(at, c, i)' = End(at, c, i)
      BY <1>3, <2>1 DEF End
    <3> QED BY <1>1, <1>3, <1>4, <2>1, <3>1, <3>2 DEF Chained
  <2> QED BY <2>6, LinkedBy
<1>5. CASE dir = "write"
  <2> DEFINE u == Units(source, n)  q == (source + n) % Modulus
  <2>1. u \in Seq(Unit) /\ Len(u) = n /\ q \in Unit /\ source \in Unit
    BY <1>2, UnitsTyped, StreamTyped DEF SInv
  <2>2. Spans(source, u, q)
    BY <1>2, <2>1, SpansUnits
  <2>3. source' = q /\ last' = last /\ fifo' = fifo \o u
    BY <1>3, <1>5
  <2>4. fifo \in Seq(Unit) /\ Len(fifo) + Len(u) < Modulus
    <3>1. Len(fifo) \in Nat /\ Modulus \in Nat /\ FifoSize \in Nat /\ fifo \in Seq(Unit)
      BY BulkAssumption, StreamTyped DEF SInv
    <3>2. Len(fifo) + n <= FifoSize /\ FifoSize + 1 < Modulus
      BY <1>2, <1>5, <3>1, Room
    <3> HIDE DEF u
    <3> QED BY <1>2, <2>1, <3>1, <3>2
  <2> HIDE DEF u, q
  <2>5. Spans(f, fifo, source)
    BY <1>1, <1>5 DEF Chained, WriteChain
  <2>6. Spans(f, fifo', q)
    BY <2>1, <2>2, <2>3, <2>4, <2>5, SpansConcat
  <2>7. Chained(at, l, f, c)'
    <3>1. WriteChain(at, l, f, c)'
      BY <1>1, <1>3, <1>5, <2>3, <2>6 DEF Chained, WriteChain
    <3>2. \A i \in Slots : End(at, c, i)' = End(at, c, i)
      BY <1>3, <1>5 DEF End
    <3> QED BY <1>1, <1>3, <1>5, <3>1, <3>2 DEF Chained
  <2> QED BY <2>7, LinkedBy
<1> QED BY <1>4, <1>5, StreamTyped DEF SInv

\* The reader's chunk goes to the end of the FIFO.
LEMMA PutKeepsLinked == SInv /\ Put => Linked'
<1> SUFFICES ASSUME SInv, Put PROVE Linked'
  OBVIOUS
<1>1. PICK at \in [Slots -> Unit], l \in Unit, f \in Unit, c \in Unit : Chained(at, l, f, c)
  BY DEF SInv, Linked
<1>2. /\ UNCHANGED <<dir, Stopped, Index, slot, source, last>>
      /\ worker = "put" /\ worker' = "submit" /\ fifo' = fifo \o chunk /\ chunk' = << >>
      /\ dir = "read"
  BY DEF Put, Go, requests, SInv, IInv, CountedInv
<1>3. /\ fifo \in Seq(Unit) /\ chunk \in Seq(Unit) /\ Len(fifo) + Len(chunk) < Modulus
  <2>1. /\ fifo \in Seq(Unit) /\ chunk \in Seq(Unit)
        /\ Len(fifo) + Len(chunk) <= FifoSize
    BY <1>2, StreamTyped DEF SInv, IInv, CountedInv
  <2>2. FifoSize + 1 < Modulus /\ FifoSize \in Nat /\ Modulus \in Nat
    BY Room, BulkAssumption
  <2> QED BY <2>1, <2>2
<1>4. PICK q \in Unit : q = at[Index] /\ Spans(f, fifo, c) /\ Spans(c, chunk, q)
  <2>1. at[Index] \in Unit
    BY StreamTyped DEF SInv
  <2> QED BY <1>1, <1>2, <2>1 DEF Chained, ReadChain
<1>5. Spans(f, fifo', q) /\ Spans(q, chunk', q)
  BY <1>2, <1>3, <1>4, SpansConcat, SpansEmpty
<1>6. Chained(at, l, f, q)'
  <2>1. ReadChain(at, l, f, q)'
    BY <1>1, <1>2, <1>4, <1>5 DEF Chained, ReadChain
  <2>2. \A i \in Slots : End(at, q, i)' = End(at, c, i)
    BY <1>2 DEF End
  <2> QED BY <1>1, <1>2, <2>1, <2>2 DEF Chained
<1> QED BY <1>6, LinkedBy

\* The writer's chunk comes from the head of the FIFO.
LEMMA TakeKeepsLinked == SInv /\ Take => Linked'
<1> SUFFICES ASSUME SInv, Take PROVE Linked'
  OBVIOUS
<1>1. PICK at \in [Slots -> Unit], l \in Unit, f \in Unit, c \in Unit : Chained(at, l, f, c)
  BY DEF SInv, Linked
<1>2. /\ UNCHANGED <<dir, Stopped, Index, slot, source, last>>
      /\ worker = "take" /\ worker' = "submit" /\ chunk' = SubSeq(fifo, 1, size)
      /\ fifo' = SubSeq(fifo, size + 1, Len(fifo)) /\ dir = "write" /\ chunk = << >>
  BY DEF Take, Go, requests, SInv, IInv, CountedInv
<1>3. /\ fifo \in Seq(Unit) /\ Len(fifo) < Modulus /\ size \in 0 .. Len(fifo)
      /\ source \in Unit
  <2>1. fifo \in Seq(Unit) /\ Len(fifo) < Modulus /\ source \in Unit
    BY StreamTyped DEF SInv
  <2>2. size \in Nat /\ size <= Len(fifo)
    BY <1>2, BulkAssumption DEF SInv, IInv, TypeOK, CountedInv
  <2> QED BY <2>1, <2>2
<1>4. PICK q \in Unit : Spans(f, chunk', q) /\ Spans(q, fifo', source)
  BY <1>1, <1>2, <1>3, SpansSplit DEF Chained, WriteChain
<1>5. ~Stopped => c = f
  BY <1>1, <1>2, SpansEmpty DEF Chained, WriteChain
<1>6. Chained(at, l, q, c)'
  <2>1. WriteChain(at, l, q, c)'
    BY <1>1, <1>2, <1>4, <1>5 DEF Chained, WriteChain
  <2>2. \A i \in Slots : End(at, c, i)' = End(at, c, i)
    BY <1>2 DEF End
  <2> QED BY <1>1, <1>2, <2>1, <2>2 DEF Chained
<1> QED BY <1>6, LinkedBy

\* The thread takes the oldest request out of the ring.
LEMMA GetResultKeepsLinked == SInv /\ GetResult => Linked'
<1> SUFFICES ASSUME SInv, GetResult PROVE Linked'
  OBVIOUS
<1>1. PICK at \in [Slots -> Unit], l \in Unit, f \in Unit, c \in Unit : Chained(at, l, f, c)
  BY DEF SInv, Linked
<1>2. /\ UNCHANGED <<dir, Index, fifo, source, last>>
      /\ worker = "result" /\ worker' = "move"
      /\ Stopped' = (Stopped \/ slot[Index].status = "failed")
      /\ chunk' = (IF dir = "read" THEN slot[Index].data ELSE << >>)
  BY DEF GetResult, Go
<1>3. /\ Index \in Slots /\ After(Index) \in Slots /\ dir \in {"read", "write"}
      /\ slot'[Index].status = "idle" /\ slot'[Index].data = << >>
      /\ \A i \in Slots : i # Index => slot'[i] = slot[i]
      /\ chunk = << >> /\ slot[Index].status # "pending"
  BY <1>2, StreamTyped, Ring
     DEF SInv, GetResult, Request, IInv, TypeOK, CountedInv, RequestInv
<1>4. CASE Stopped'
  <2>1. Chained(at, l, f, c)'
    BY <1>1, <1>2, <1>4, SameChain
  <2> QED BY <2>1, LinkedBy
<1>5. CASE ~Stopped' /\ dir = "read"
  <2>1. PICK e \in Unit : e = End(at, c, Index) /\ Spans(at[Index], slot[Index].data, e)
    BY <1>1, <1>2, <1>3, <1>5, EndTyped DEF SInv, Chained
  <2>2. PICK bt \in [Slots -> Unit] :
          bt[Index] = e /\ \A i \in Slots : i # Index => bt[i] = at[i]
    <3> DEFINE b == [at EXCEPT ![Index] = e]
    <3>1. b \in [Slots -> Unit] /\ b[Index] = e /\ \A i \in Slots : i # Index => b[i] = at[i]
      BY <1>3
    <3> QED BY <3>1
  <2>3. c = at[Index]
    BY <1>1, <1>2, <1>3, <1>5, SpansEmpty DEF Chained, ReadChain
  <2>4. ReadChain(bt, l, f, c)'
    <3>1. Spans(c, chunk', bt[Index'])
      BY <1>2, <1>5, <2>1, <2>2, <2>3
    <3>2. \A i \in Slots : slot'[i].status = "pending" => bt[i] = source'
      BY <1>1, <1>2, <1>3, <1>5, <2>2 DEF Chained, ReadChain
    <3> QED BY <1>1, <1>2, <1>5, <3>1, <3>2 DEF Chained, ReadChain
  <2>5. ASSUME NEW i \in Slots, slot'[i].status # "failed"
        PROVE  Spans(bt[i], slot'[i].data, End(bt, c, i)')
    <3>1. After(i) \in Slots
      BY Ring
    <3>2. CASE i = Index
      <4>1. End(bt, c, i)' = e
        BY <1>2, <1>5, <2>1, <2>2, <3>1, <3>2 DEF End
      <4> QED BY <1>3, <2>2, <3>2, <4>1, SpansEmpty
    <3>3. CASE i # Index
      <4>1. End(bt, c, i)' = End(at, c, i)
        BY <1>2, <1>5, <2>2, <3>1 DEF End
      <4> QED BY <1>1, <1>2, <1>3, <1>5, <2>2, <2>5, <3>3, <4>1 DEF Chained
    <3> QED BY <3>2, <3>3
  <2>6. Chained(bt, l, f, c)'
    BY <1>2, <1>5, <2>4, <2>5 DEF Chained
  <2> QED BY <2>6, LinkedBy
<1>6. CASE ~Stopped' /\ dir = "write"
  <2>1. slot[Index].data = << >>
    BY <1>3, <1>6 DEF SInv, RequestInv
  <2>2. \A i \in Slots : slot'[i].data = slot[i].data
    BY <1>3, <2>1
  <2>3. \A i \in Slots : slot'[i].status # "failed" => slot[i].status # "failed"
    BY <1>2, <1>3, <1>6
  <2>4. \A i \in Slots : End(at, c, i)' = End(at, c, i)
    BY <1>2, <1>6 DEF End
  <2>5. WriteChain(at, l, f, c)'
    BY <1>1, <1>2, <1>3, <1>6 DEF Chained, WriteChain
  <2>6. Chained(at, l, f, c)'
    BY <1>1, <1>2, <1>6, <2>2, <2>3, <2>4, <2>5 DEF Chained
  <2> QED BY <2>6, LinkedBy
<1> QED BY <1>3, <1>4, <1>5, <1>6

\* The thread makes the oldest place of the ring the youngest.
LEMMA SubmitKeepsLinked == SInv /\ Submit => Linked'
<1> SUFFICES ASSUME SInv, Submit PROVE Linked'
  OBVIOUS
<1>1. PICK at \in [Slots -> Unit], l \in Unit, f \in Unit, c \in Unit : Chained(at, l, f, c)
  BY DEF SInv, Linked
<1>2. /\ UNCHANGED <<dir, fifo, source, last>>
      /\ worker = "submit" /\ worker' = "loop" /\ chunk' = << >>
      /\ Index' = After(Index)
  BY DEF Submit, Go, After
<1>3. /\ Index \in Slots /\ Index' \in Slots /\ dir \in {"read", "write"} /\ source \in Unit
      /\ slot[Index].status = "idle" /\ slot[Index].data = << >>
  BY <1>2, StreamTyped, Ring DEF SInv, RequestInv
<1>4. CASE Stopped'
  <2>1. Chained(at, l, f, c)'
    BY <1>1, <1>2, <1>4, SameChain
  <2> QED BY <2>1, LinkedBy
<1>5. CASE ~Stopped'
  <2>1. /\ ~Stopped
        /\ slot'[Index].status = "pending"
        /\ slot'[Index].data = IF dir = "write" THEN chunk ELSE << >>
        /\ \A i \in Slots : i # Index => slot'[i] = slot[i]
    BY <1>3, <1>5 DEF Submit, Request, SInv, IInv, TypeOK
  <2>2. PICK z \in Unit : z = IF dir = "read" THEN source ELSE c
    BY <1>3
  <2>3. PICK bt \in [Slots -> Unit] :
          bt[Index] = z /\ \A i \in Slots : i # Index => bt[i] = at[i]
    <3> DEFINE b == [at EXCEPT ![Index] = z]
    <3>1. b \in [Slots -> Unit] /\ b[Index] = z /\ \A i \in Slots : i # Index => b[i] = at[i]
      BY <1>3
    <3> QED BY <3>1
  <2>4. at[Index] = bt[Index']
    <3>1. Spans(at[Index], << >>, End(at, c, Index)) /\ End(at, c, Index) \in Unit
      BY <1>1, <1>3, <2>1, EndTyped DEF SInv, Chained
    <3>2. at[Index] = End(at, c, Index)
      BY <1>3, <3>1, SpansEmpty
    <3>3. CASE Index' = Index
      BY <1>2, <2>2, <2>3, <3>2, <3>3 DEF End
    <3>4. CASE Index' # Index
      BY <1>2, <1>3, <2>3, <3>2, <3>4 DEF End
    <3> QED BY <3>3, <3>4
  <2>5. ASSUME NEW i \in Slots, i # Index
        PROVE  After(i) # Index' /\ After(i) \in Slots
    <3>1. /\ After(i) = IF i = QueueNumber - 1 THEN 0 ELSE i + 1
          /\ After(Index) = IF Index = QueueNumber - 1 THEN 0 ELSE Index + 1
          /\ After(i) \in Slots
      BY <1>3, Ring
    <3>2. i \in Nat /\ Index \in Nat
      BY <1>3 DEF Slots
    <3> QED BY <1>2, <2>5, <3>1, <3>2
  <2>6. ASSUME NEW i \in Slots, i # Index, NEW k
        PROVE  End(bt, k, i)' = End(at, c, i)
    BY <1>2, <1>3, <2>2, <2>3, <2>5, <2>6 DEF End
  <2>8. CASE dir = "read"
    <3>1. chunk = << >>
      BY <1>2, <2>1, <2>8 DEF SInv, RequestInv
    <3>2. c = at[Index]
      BY <1>1, <1>3, <2>1, <2>8, <3>1, SpansEmpty DEF Chained, ReadChain
    <3>3. Spans(c, chunk', bt[Index'])
      BY <1>2, <2>4, <3>2, SpansEmpty
    <3>4. \A i \in Slots : slot'[i].status = "pending" => bt[i] = source'
      BY <1>1, <1>2, <2>1, <2>2, <2>3, <2>8 DEF Chained, ReadChain
    <3>5. ReadChain(bt, l, f, c)'
      BY <1>1, <1>2, <2>8, <3>3, <3>4 DEF Chained, ReadChain
    <3>6. ASSUME NEW i \in Slots, slot'[i].status # "failed"
          PROVE  Spans(bt[i], slot'[i].data, End(bt, c, i)')
      <4>1. CASE i = Index
        <5>1. End(bt, c, i)' = source
          BY <1>2, <2>8, <4>1 DEF End
        <5> QED BY <1>3, <2>1, <2>2, <2>3, <2>8, <4>1, <5>1, SpansEmpty
      <4>2. CASE i # Index
        BY <1>1, <2>1, <2>3, <2>6, <3>6, <4>2 DEF Chained
      <4> QED BY <4>1, <4>2
    <3>7. Chained(bt, l, f, c)'
      BY <1>2, <2>8, <3>5, <3>6 DEF Chained
    <3> QED BY <3>7, LinkedBy
  <2>9. CASE dir = "write"
    <3>1. Spans(l, last, bt[Index']) /\ Spans(c, chunk, f)
      BY <1>1, <2>1, <2>4, <2>9 DEF Chained, WriteChain
    <3>2. WriteChain(bt, l, f, f)'
      BY <1>1, <1>2, <2>9, <3>1, SpansEmpty DEF Chained, WriteChain
    <3>3. ASSUME NEW i \in Slots, slot'[i].status # "failed"
          PROVE  Spans(bt[i], slot'[i].data, End(bt, f, i)')
      <4>1. CASE i = Index
        <5>1. End(bt, f, i)' = f
          BY <1>2, <2>9, <4>1 DEF End
        <5> QED BY <2>1, <2>2, <2>3, <2>9, <3>1, <4>1, <5>1
      <4>2. CASE i # Index
        BY <1>1, <2>1, <2>3, <2>6, <3>3, <4>2 DEF Chained
      <4> QED BY <4>1, <4>2
    <3>4. Chained(bt, l, f, f)'
      BY <1>2, <2>9, <3>2, <3>3 DEF Chained
    <3> QED BY <3>4, LinkedBy
  <2> QED BY <1>3, <2>8, <2>9
<1> QED BY <1>4, <1>5

\* The device answers the oldest pending request: what is older holds nothing when the
\* pipe writes, and what is younger is pending.
LEMMA CompleteKeepsLinked == ASSUME NEW i \in Slots, SInv, Complete(i) PROVE Linked'
<1>1. PICK at \in [Slots -> Unit], l \in Unit, f \in Unit, c \in Unit : Chained(at, l, f, c)
  BY DEF SInv, Linked
<1>2. UNCHANGED <<dir, Stopped, worker, Index, chunk, fifo>>
  BY DEF Complete, local
<1>3. /\ slot[i].status = "pending" /\ Index \in Slots /\ dir \in {"read", "write"}
      /\ \A j \in Slots : slot[j].status = "pending" => AgeFrom(i, Index) <= AgeFrom(j, Index)
      /\ worker \notin {"none", "start", "exited"}
  BY StreamTyped DEF Complete, Oldest, Age, AgeFrom, SInv, RequestInv
<1>4. PICK status \in {"done", "failed"} :
        \/ /\ dir = "read"
           /\ \E n \in 0 .. QueueSize :
                /\ slot' = [slot EXCEPT ![i] =
                             Request(status, IF status = "done" THEN Units(source, n) ELSE << >>)]
                /\ source' = (source + n) % Modulus
           /\ UNCHANGED last
        \/ /\ dir = "write"
           /\ slot' = [slot EXCEPT ![i] = Request(status, << >>)]
           /\ last' = IF status = "done" THEN Final(slot[i].data) ELSE last
           /\ UNCHANGED source
  BY DEF Complete
<1>5. /\ slot'[i].status = status
      /\ \A j \in Slots : j # i => slot'[j] = slot[j]
  BY <1>4 DEF Request, SInv, IInv, TypeOK
\* Ages as numbers.
<1>6. \A j \in Slots : AgeFrom(j, Index) \in Nat /\ AgeFrom(j, Index) <= QueueNumber - 1
                       /\ After(j) \in Slots
  BY <1>3, AgeTyped, Ring
<1>7. \A j \in Slots : AgeFrom(j, Index) = AgeFrom(i, Index) => j = i
  BY <1>3, Ages
<1>8. \A j \in Slots : IF After(j) = Index THEN AgeFrom(j, Index) = QueueNumber - 1
                       ELSE AgeFrom(After(j), Index) = AgeFrom(j, Index) + 1
  BY <1>3, Ages
<1>9. AgeFrom(Index, Index) = 0
  BY <1>3, Ages
<1>10. CASE dir = "read" /\ Stopped
  <2>1. UNCHANGED last
    BY <1>4, <1>10
  <2>2. ReadChain(at, l, f, c)'
    BY <1>1, <1>2, <1>10, <2>1 DEF Chained, ReadChain
  <2>3. Chained(at, l, f, c)'
    BY <1>2, <1>10, <2>2 DEF Chained
  <2> QED BY <2>3, LinkedBy
<1>11. CASE dir = "write" /\ Stopped
  <2>1. UNCHANGED source
    BY <1>4, <1>11
  <2>2. WriteChain(at, l, f, c)'
    BY <1>1, <1>2, <1>11, <2>1 DEF Chained, WriteChain
  <2>3. Chained(at, l, f, c)'
    BY <1>2, <1>11, <2>2 DEF Chained
  <2> QED BY <2>3, LinkedBy
<1>12. CASE dir = "read" /\ ~Stopped
  <2>1. PICK n \in 0 .. QueueSize :
          /\ slot'[i].data = IF status = "done" THEN Units(source, n) ELSE << >>
          /\ source' = (source + n) % Modulus
    BY <1>4, <1>12 DEF Request, SInv, IInv, TypeOK
  <2>2. PICK z \in Unit, y \in Unit :
          /\ y = source /\ z = source' /\ UNCHANGED last
          /\ slot'[i].status = "done" => Spans(y, slot'[i].data, z)
    <3>1. n \in Nat /\ source \in Unit
      BY StreamTyped, BulkAssumption DEF SInv
    <3>2. source' \in Unit /\ Spans(source, Units(source, n), source')
      BY <2>1, <3>1, UnitsTyped, SpansUnits
    <3>3. UNCHANGED last
      BY <1>4, <1>12
    <3> QED BY <1>5, <2>1, <3>1, <3>2, <3>3
  <2>3. PICK bt \in [Slots -> Unit] :
          \A j \in Slots : bt[j] = IF slot[j].status = "pending" /\ j # i THEN z ELSE at[j]
    <3> DEFINE b == [j \in Slots |-> IF slot[j].status = "pending" /\ j # i THEN z ELSE at[j]]
    <3>1. b \in [Slots -> Unit]
      OBVIOUS
    <3> QED BY <3>1
  <2>4. \A j, k \in Slots : slot[j].status = "pending" /\ AgeFrom(j, Index) <= AgeFrom(k, Index)
                              => slot[k].status = "pending"
    BY <1>12 DEF SInv, RequestInv
  <2>5. \A j \in Slots : slot[j].status = "pending" => at[j] = y /\ slot[j].data = << >>
    BY <1>1, <1>12, <2>2 DEF Chained, ReadChain, SInv, RequestInv
  <2>6. bt[Index] = at[Index]
    <3>1. slot[Index].status = "pending" => AgeFrom(i, Index) = AgeFrom(Index, Index)
      BY <1>3, <1>6, <1>9
    <3>2. slot[Index].status = "pending" => Index = i
      BY <1>3, <1>7, <3>1
    <3> QED BY <1>3, <2>3, <3>2
  <2>7. ReadChain(bt, l, f, c)'
    <3>1. \A j \in Slots : slot'[j].status = "pending" => bt[j] = source'
      BY <1>5, <2>2, <2>3
    <3> QED BY <1>1, <1>2, <1>12, <2>2, <2>6, <3>1 DEF Chained, ReadChain
  <2>8. ASSUME NEW j \in Slots, slot'[j].status # "failed"
        PROVE  Spans(bt[j], slot'[j].data, End(bt, c, j)')
    <3>1. CASE slot[j].status = "pending"
      <4>1. After(j) # Index => slot[After(j)].status = "pending" /\ After(j) # i
        <5>1. AgeFrom(i, Index) <= AgeFrom(j, Index)
          BY <1>3, <3>1
        <5>2. After(j) # Index => AgeFrom(j, Index) <= AgeFrom(After(j), Index)
                                  /\ AgeFrom(After(j), Index) # AgeFrom(i, Index)
          BY <1>6, <1>8, <5>1
        <5> QED BY <1>6, <2>4, <3>1, <5>2
      <4>2. End(bt, c, j)' = z
        BY <1>2, <1>6, <1>12, <2>2, <2>3, <4>1 DEF End
      <4>3. CASE j = i
        BY <1>3, <1>5, <2>2, <2>3, <2>5, <2>8, <4>2, <4>3
      <4>4. CASE j # i
        BY <1>5, <2>3, <2>5, <3>1, <4>2, <4>4, SpansEmpty
      <4> QED BY <4>3, <4>4
    <3>2. CASE slot[j].status # "pending"
      <4>1. j # i /\ AgeFrom(j, Index) < AgeFrom(i, Index)
        <5>1. ~(AgeFrom(i, Index) <= AgeFrom(j, Index))
          BY <1>3, <2>4, <3>2
        <5> QED BY <1>3, <1>6, <3>2, <5>1
      <4>2. /\ After(j) # Index
            /\ slot[After(j)].status = "pending" => After(j) = i
        <5>1. After(j) # Index
          BY <1>6, <1>8, <4>1, BulkAssumption
        <5>2. AgeFrom(After(j), Index) <= AgeFrom(i, Index)
          BY <1>6, <1>8, <4>1, <5>1
        <5>3. slot[After(j)].status = "pending"
                => AgeFrom(After(j), Index) = AgeFrom(i, Index)
          BY <1>3, <1>6, <5>2
        <5> QED BY <1>6, <1>7, <5>1, <5>3
      <4>3. End(bt, c, j)' = End(at, c, j)
        BY <1>2, <1>6, <2>3, <4>2 DEF End
      <4> QED BY <1>1, <1>5, <1>12, <2>3, <2>8, <3>2, <4>1, <4>3 DEF Chained
    <3> QED BY <3>1, <3>2
  <2>9. Chained(bt, l, f, c)'
    BY <1>2, <1>3, <1>12, <2>7, <2>8 DEF Chained
  <2> QED BY <2>9, LinkedBy
<1>13. CASE dir = "write" /\ ~Stopped
  <2>1. /\ UNCHANGED source /\ slot'[i].data = << >>
        /\ last' = IF status = "done" THEN Final(slot[i].data) ELSE last
    BY <1>4, <1>13 DEF Request, SInv, IInv, TypeOK
  <2>2. CASE status = "failed"
    <3>1. UNCHANGED last
      BY <2>1, <2>2
    <3>2. WriteChain(at, l, f, c)'
      BY <1>1, <1>2, <1>13, <2>1, <3>1 DEF Chained, WriteChain
    <3>3. \A j \in Slots : End(at, c, j)' = End(at, c, j)
      BY <1>2, <1>13 DEF End
    <3>4. Chained(at, l, f, c)'
      BY <1>1, <1>2, <1>3, <1>5, <1>13, <2>2, <3>2, <3>3 DEF Chained
    <3> QED BY <3>4, LinkedBy
  <2>3. CASE status = "done"
    <3>1. PICK q \in Unit : q = End(at, c, i) /\ Spans(at[i], slot[i].data, q)
      BY <1>1, <1>3, <1>13, EndTyped DEF SInv, Chained
    <3>2. PICK k \in Unit : Spans(k, last', q)
      BY <2>1, <2>3, <3>1, StreamTyped, SpansFinal DEF SInv
    <3>3. PICK bt \in [Slots -> Unit] :
            \A j \in Slots : bt[j] = IF AgeFrom(j, Index) <= AgeFrom(i, Index) THEN q ELSE at[j]
      <4> DEFINE b == [j \in Slots |-> IF AgeFrom(j, Index) <= AgeFrom(i, Index) THEN q ELSE at[j]]
      <4>1. b \in [Slots -> Unit]
        OBVIOUS
      <4> QED BY <4>1
    <3>4. bt[Index] = q
      BY <1>3, <1>6, <1>9, <3>3
    <3>5. WriteChain(bt, k, f, c)'
      BY <1>1, <1>2, <1>13, <2>1, <3>2, <3>4 DEF Chained, WriteChain
    <3>6. ASSUME NEW j \in Slots, slot'[j].status # "failed"
          PROVE  Spans(bt[j], slot'[j].data, End(bt, c, j)')
      <4>1. CASE AgeFrom(j, Index) <= AgeFrom(i, Index)
        <5>1. slot'[j].data = << >>
          <6>1. CASE j = i
            BY <2>1, <6>1
          <6>2. CASE j # i
            <7>1. AgeFrom(j, Index) # AgeFrom(i, Index)
              BY <1>7, <6>2
            <7>2. ~(AgeFrom(i, Index) <= AgeFrom(j, Index))
              BY <1>6, <4>1, <7>1
            <7>3. slot[j].status # "pending"
              BY <1>3, <7>2
            <7> QED BY <1>5, <1>13, <6>2, <7>3 DEF SInv, RequestInv
          <6> QED BY <6>1, <6>2
        <5>2. End(bt, c, j)' = q
          <6>1. CASE j = i /\ After(i) = Index
            BY <1>2, <1>13, <3>1, <6>1 DEF End
          <6>2. CASE j = i /\ After(i) # Index
            <7>1. ~(AgeFrom(After(i), Index) <= AgeFrom(i, Index)) /\ After(i) \in Slots
              BY <1>6, <1>8, <6>2
            <7>2. bt[After(i)] = q
              BY <3>1, <3>3, <6>2, <7>1 DEF End
            <7> QED BY <1>2, <6>2, <7>2 DEF End
          <6>3. CASE j # i
            <7>1. AgeFrom(j, Index) # AgeFrom(i, Index)
              BY <1>7, <6>3
            <7>2. After(j) # Index /\ After(j) \in Slots
                  /\ AgeFrom(After(j), Index) <= AgeFrom(i, Index)
              BY <1>6, <1>8, <4>1, <7>1, BulkAssumption
            <7> QED BY <1>2, <3>3, <7>2 DEF End
          <6> QED BY <6>1, <6>2, <6>3
        <5> QED BY <3>3, <4>1, <5>1, <5>2, SpansEmpty
      <4>2. CASE ~(AgeFrom(j, Index) <= AgeFrom(i, Index))
        <5>1. j # i
          BY <1>6, <4>2
        <5>2. After(j) # Index => ~(AgeFrom(After(j), Index) <= AgeFrom(i, Index))
          BY <1>6, <1>8, <4>2
        <5>3. End(bt, c, j)' = End(at, c, j)
          BY <1>2, <1>6, <1>13, <3>3, <5>2 DEF End
        <5> QED BY <1>1, <1>5, <1>13, <3>3, <3>6, <4>2, <5>1, <5>3 DEF Chained
      <4> QED BY <4>1, <4>2
    <3>7. Chained(bt, k, f, c)'
      BY <1>2, <1>3, <1>13, <3>5, <3>6 DEF Chained
    <3> QED BY <3>7, LinkedBy
  <2> QED BY <2>2, <2>3
<1> QED BY <1>3, <1>10, <1>11, <1>12, <1>13

\* Every step keeps the strengthened invariant.
LEMMA StepKeepsStream == SInv /\ [Next]_vars => SInv'
<1> SUFFICES ASSUME SInv, [Next]_vars PROVE SInv'
  OBVIOUS
<1>1. IInv'
  BY StepKeeps DEF SInv
<1>2. CASE Execute
  <2>1. RequestInv'
    BY <1>2, QuietKeepsRequests, EnterKeepsRequests, CancelKeepsRequests,
       GetResultKeepsRequests, PutKeepsRequests, SubmitKeepsRequests DEF Execute, SInv
  <2>2. Linked'
    BY <1>2, QuietKeepsLinked, EnterKeepsLinked, GetResultKeepsLinked, PutKeepsLinked,
       TakeKeepsLinked, SubmitKeepsLinked DEF Execute
  <2> QED BY <1>1, <2>1, <2>2 DEF SInv
<1>3. CASE \E i \in Slots : Complete(i)
  BY <1>1, <1>3, CompleteKeepsRequests, CompleteKeepsLinked DEF SInv
<1>4. CASE Control \/ Transfer \/ UserStep \/ TimeOut
  <2>1. RequestInv'
    BY <1>4, UserKeepsRequests DEF SInv
  <2>2. Linked'
    BY <1>4, CallKeepsLinked, StartKeepsLinked, MoveDataKeepsLinked DEF UserStep
  <2> QED BY <1>1, <2>1, <2>2 DEF SInv
<1>5. CASE UNCHANGED vars
  <2>1. /\ UNCHANGED <<dir, Stopped, worker, Index, chunk>>
        /\ UNCHANGED <<slot, event, fifo, source, last, agenda>>
    BY <1>5 DEF vars, local, requests, user
  <2>2. RequestInv'
    BY <2>1 DEF SInv, RequestInv
  <2>3. PICK at \in [Slots -> Unit], l \in Unit, f \in Unit, c \in Unit : Chained(at, l, f, c)
    BY DEF SInv, Linked
  <2>4. Chained(at, l, f, c)'
    BY <2>1, <2>3, SameChain
  <2> QED BY <1>1, <2>2, <2>4, LinkedBy DEF SInv
<1> QED BY <1>2, <1>3, <1>4, <1>5 DEF Next

\* In every state the numbers of the units on their way follow each other.
THEOREM StreamInvariant == Spec => []SInv
<1>1. Init => SInv
  BY InitIInv, InitRequestInv, InitLinked DEF SInv
<1>2. SInv /\ [Next]_vars => SInv'
  BY StepKeepsStream
<1> QED BY <1>1, <1>2, PTL DEF Spec

------------------------------------------------------------------------------
\* From the numbers to the property.
LEMMA SpansConsecutive ==
  ASSUME NEW p \in Unit, NEW q \in Unit, NEW s \in Seq(Unit), Len(s) < Modulus, Spans(p, s, q)
  PROVE  /\ Consecutive(s)
         /\ s # << >> => s[1] = p /\ q = (s[Len(s)] + 1) % Modulus
<1>1. \A i \in 1 .. Len(s) : s[i] = (p + (i - 1)) % Modulus
  <2>1. s = Units(p, Len(s)) /\ Len(s) \in Nat
    BY DEF Spans
  <2>2. \A i \in 1 .. Len(s) : Units(p, Len(s))[i] = (p + (i - 1)) % Modulus
    BY <2>1, UnitsAt
  <2> QED BY <2>1, <2>2
<1>2. Len(s) \in Nat /\ Modulus \in Nat
  BY BulkAssumption
<1>3. ASSUME NEW i \in Nat, i >= 1, i <= Len(s)
      PROVE  (s[i] + 1) % Modulus = (p + i) % Modulus
  <2>1. s[i] = (p + (i - 1)) % Modulus
    BY <1>1, <1>3, <1>2
  <2>2. i - 1 \in Nat /\ (i - 1) + 1 < Modulus + 1 /\ (i - 1) + 1 = i
    BY <1>2, <1>3
  <2>3. (((p + (i - 1)) % Modulus) + 1) % Modulus = (p + ((i - 1) + 1)) % Modulus
    BY <1>2, <1>3, <2>2, ModTwice
  <2> QED BY <2>1, <2>2, <2>3
<1>4. Consecutive(s)
  <2>1. ASSUME NEW i \in 1 .. Len(s) - 1 PROVE s[i + 1] = (s[i] + 1) % Modulus
    <3>1. i \in Nat /\ i >= 1 /\ i <= Len(s) /\ i + 1 \in 1 .. Len(s) /\ (i + 1) - 1 = i
      BY <1>2
    <3>2. s[i + 1] = (p + ((i + 1) - 1)) % Modulus
      BY <1>1, <3>1
    <3> QED BY <1>3, <3>1, <3>2
  <2> QED BY <2>1 DEF Consecutive
<1>5. ASSUME s # << >> PROVE s[1] = p /\ q = (s[Len(s)] + 1) % Modulus
  <2>1. Len(s) \in Nat /\ Len(s) >= 1 /\ 1 \in 1 .. Len(s)
    BY <1>2, <1>5
  <2>2. s[1] = p
    <3>1. s[1] = (p + (1 - 1)) % Modulus
      BY <1>1, <2>1
    <3>2. p \in Nat /\ p % Modulus = p
      BY UnitMod
    <3>3. p + (1 - 1) = p
      BY <3>2
    <3> QED BY <3>1, <3>2, <3>3
  <2>3. q = (p + Len(s)) % Modulus
    BY DEF Spans
  <2> QED BY <1>3, <2>1, <2>2, <2>3
<1> QED BY <1>4, <1>5

\* Every set of natural numbers that has a member has a least one.
LEMMA Least ==
  ASSUME NEW T, T \subseteq Nat, T # {}
  PROVE  \E m \in T : \A k \in T : m <= k
<1> DEFINE R == {p \in Nat \X Nat : p[1] < p[2]}
<1>1. IsWellFoundedOn(R, Nat)
  BY NatLessThanWellFounded DEF OpToRel
<1>2. PICK m \in T : \A k \in T : ~ (<<k, m>> \in R)
  <2> HIDE DEF R
  <2> QED BY <1>1, WFMin
<1>3. ASSUME NEW k \in T PROVE m <= k
  <2>1. k \in Nat /\ m \in Nat
    OBVIOUS
  <2>2. k < m => <<k, m>> \in R
    BY <2>1
  <2> QED BY <1>2, <2>1, <2>2
<1> QED BY <1>3

\* Over places that hold nothing the number stays the same.
LEMMA EmptyPlaces ==
  ASSUME NEW pos \in [Places -> Unit], NEW a \in Places, NEW b \in Places, a < b,
         \A k \in a + 1 .. b - 1 : Spans(pos[k], << >>, pos[k + 1])
  PROVE  pos[a + 1] = pos[b]
<1> DEFINE T == {k \in a + 1 .. b : pos[k] # pos[a + 1]}
<1>1. a \in Nat /\ b \in Nat /\ QueueNumber \in Nat /\ b <= QueueNumber + 3
  BY BulkAssumption DEF Places
<1>2. T = {}
  <2> SUFFICES ASSUME T # {} PROVE FALSE
    OBVIOUS
  <2>1. T \subseteq Nat
    BY <1>1
  <2>2. PICK m \in T : \A k \in T : m <= k
    <3> HIDE DEF T
    <3> QED BY <2>1, Least
  <2>3. m \in a + 1 .. b /\ m # a + 1 /\ pos[m] # pos[a + 1]
    OBVIOUS
  <2>4. m - 1 \in a + 1 .. b - 1 /\ (m - 1) + 1 = m /\ m - 1 < m
    BY <1>1, <2>3
  <2>5. pos[m - 1] = pos[a + 1]
    <3>1. m - 1 \notin T
      <4> HIDE DEF T
      <4>1. m \in Nat /\ m - 1 \in Nat
        BY <1>1, <2>1, <2>4
      <4> QED BY <2>2, <2>4, <4>1
    <3>2. m - 1 \in a + 1 .. b
      BY <1>1, <2>4
    <3> QED BY <3>1, <3>2
  <2>6. pos[m - 1] \in Unit /\ pos[m] \in Unit
    <3>1. m \in Places /\ m - 1 \in Places
      BY <1>1, <2>3, <2>4 DEF Places
    <3> QED BY <3>1
  <2>7. Spans(pos[m - 1], << >>, pos[m])
    BY <2>4
  <2> QED BY <2>3, <2>5, <2>6, <2>7, SpansEmpty
<1>3. b \in a + 1 .. b
  BY <1>1
<1> QED BY <1>2, <1>3

\* The k-th oldest request and the one behind it.
LEMMA HeldAt ==
  ASSUME NEW x \in Slots, NEW k \in 0 .. QueueNumber - 1
  PROVE  /\ (x + k) % QueueNumber \in Slots
         /\ k = 0 => (x + k) % QueueNumber = x
         /\ k = QueueNumber - 1 => After((x + k) % QueueNumber) = x
         /\ k < QueueNumber - 1 => /\ After((x + k) % QueueNumber) # x
                                   /\ After((x + k) % QueueNumber) = (x + (k + 1)) % QueueNumber
<1>1. QueueNumber \in Nat \ {0} /\ x \in 0 .. QueueNumber - 1
  BY BulkAssumption DEF Slots
<1>2. \A n \in 0 .. QueueNumber :
        (x + n) % QueueNumber = IF x + n < QueueNumber THEN x + n ELSE x + n - QueueNumber
  <2> SUFFICES ASSUME NEW n \in 0 .. QueueNumber
               PROVE  (x + n) % QueueNumber
                        = IF x + n < QueueNumber THEN x + n ELSE x + n - QueueNumber
    OBVIOUS
  <2>1. x + n \in Nat /\ x + n < 2 * QueueNumber
    BY <1>1
  <2> QED BY <1>1, <2>1
<1>3. PICK y : y = (x + k) % QueueNumber
  OBVIOUS
<1>4. y = IF x + k < QueueNumber THEN x + k ELSE x + k - QueueNumber
  BY <1>1, <1>2, <1>3
<1>5. y \in Slots /\ y \in 0 .. QueueNumber - 1
  BY <1>1, <1>4 DEF Slots
<1>6. After(y) = IF y = QueueNumber - 1 THEN 0 ELSE y + 1
  BY <1>5, Ring
<1>7. k = 0 => y = x
  BY <1>1, <1>4
<1>8. k = QueueNumber - 1 => After(y) = x
  BY <1>1, <1>4, <1>6
<1>9. ASSUME k < QueueNumber - 1
      PROVE  After(y) # x /\ After(y) = (x + (k + 1)) % QueueNumber
  <2>1. k + 1 \in 0 .. QueueNumber
    BY <1>1, <1>9
  <2>2. (x + (k + 1)) % QueueNumber
          = IF x + (k + 1) < QueueNumber THEN x + (k + 1) ELSE x + (k + 1) - QueueNumber
    BY <1>2, <2>1
  <2> QED BY <1>1, <1>4, <1>6, <1>9, <2>2
<1> QED BY <1>3, <1>5, <1>7, <1>8, <1>9

\* While the thread runs and nothing has failed, the numbers run through all places.
LEMMA PlacesSpan ==
  ASSUME SInv, ~Stopped, \A i \in Slots : slot[i].status # "failed"
  PROVE  \E pos \in [Places -> Unit] :
           /\ \A a \in Places : Place(a) \in Seq(Unit) /\ Len(Place(a)) < Modulus
           /\ \A a \in Places :
                a # QueueNumber + 3 => Spans(pos[a], Place(a), pos[a + 1])
           /\ Place(QueueNumber + 3) = <<pos[QueueNumber + 3]>>
<1>1. PICK at \in [Slots -> Unit], l \in Unit, f \in Unit, c \in Unit : Chained(at, l, f, c)
  BY DEF SInv, Linked
<1>2. /\ Index \in Slots /\ source \in Unit /\ dir \in {"read", "write"}
      /\ last \in Seq(Unit) /\ fifo \in Seq(Unit) /\ chunk \in Seq(Unit)
      /\ Len(last) < Modulus /\ Len(fifo) < Modulus /\ Len(chunk) < Modulus
      /\ \A i \in Slots : slot[i].data \in Seq(Unit) /\ Len(slot[i].data) < Modulus
  BY StreamTyped DEF SInv
<1>3. QueueNumber \in Nat \ {0} /\ Modulus \in Nat /\ 1 < Modulus
  BY BulkAssumption, Room
<1>4. <<source>> \in Seq(Unit) /\ Len(<<source>>) < Modulus
  BY <1>2, <1>3
<1>5. \A k \in 0 .. QueueNumber - 1 :
        LET i == (Index + k) % QueueNumber
        IN  /\ i \in Slots /\ Held(k) \in Seq(Unit) /\ Len(Held(k)) < Modulus
            /\ Spans(at[i], Held(k), End(at, c, i))
  BY <1>1, <1>2, HeldAt DEF Held, Chained
<1>6. CASE dir = "read"
  <2> DEFINE first(a) == CASE a = 0 -> l
                           [] a = QueueNumber + 3 -> source
                           [] a = 1 -> f
                           [] a = 2 -> c
                           [] OTHER -> at[(Index + (a - 3)) % QueueNumber]
             pos == [a \in Places |-> first(a)]
  <2>1. /\ Place(0) = last /\ Place(1) = fifo /\ Place(2) = chunk
        /\ Place(QueueNumber + 3) = <<source>>
        /\ \A a \in 3 .. QueueNumber + 2 : Place(a) = Held(a - 3)
    BY <1>3, <1>6 DEF Place
  <2>2. /\ first(0) = l /\ first(1) = f /\ first(2) = c /\ first(QueueNumber + 3) = source
        /\ \A a \in 3 .. QueueNumber + 2 : first(a) = at[(Index + (a - 3)) % QueueNumber]
    BY <1>3
  <2> HIDE DEF first
  <2>3. \A a \in Places : a \in {0, 1, 2, QueueNumber + 3} \/ a \in 3 .. QueueNumber + 2
    BY <1>3 DEF Places
  <2>4. \A a \in 3 .. QueueNumber + 2 : a - 3 \in 0 .. QueueNumber - 1
    BY <1>3
  <2>5. pos \in [Places -> Unit] /\ \A a \in Places : pos[a] = first(a)
    BY <1>2, <1>5, <2>2, <2>3, <2>4
  <2> HIDE DEF pos
  <2>6. Spans(l, last, f) /\ Spans(f, fifo, c) /\ Spans(c, chunk, at[Index])
    BY <1>1, <1>6 DEF Chained, ReadChain
  <2>7. first(3) = at[Index]
    <3>1. 3 \in 3 .. QueueNumber + 2 /\ 3 - 3 = 0 /\ 0 \in 0 .. QueueNumber - 1
      BY <1>3
    <3>2. (Index + (3 - 3)) % QueueNumber = Index
      BY <1>2, <3>1, HeldAt
    <3> QED BY <2>2, <3>1, <3>2
  <2>8. ASSUME NEW a \in 3 .. QueueNumber + 2
        PROVE  Spans(first(a), Place(a), first(a + 1))
    <3>1. PICK k \in 0 .. QueueNumber - 1 : k = a - 3
      BY <2>4
    <3>2. PICK i \in Slots : i = (Index + k) % QueueNumber
      BY <1>5
    <3>3. Place(a) = Held(k) /\ first(a) = at[i] /\ Spans(at[i], Held(k), End(at, c, i))
      BY <1>5, <2>1, <2>2, <3>1, <3>2
    <3>4. CASE k = QueueNumber - 1
      <4>1. After(i) = Index
        BY <1>2, <3>2, <3>4, HeldAt
      <4>2. a + 1 = QueueNumber + 3
        BY <1>3, <3>1, <3>4
      <4> QED BY <1>6, <2>2, <3>3, <4>1, <4>2 DEF End
    <3>5. CASE k < QueueNumber - 1
      <4>1. After(i) # Index /\ After(i) = (Index + (k + 1)) % QueueNumber
        BY <1>2, <3>2, <3>5, HeldAt
      <4>2. a + 1 \in 3 .. QueueNumber + 2 /\ (a + 1) - 3 = k + 1
        BY <1>3, <3>1, <3>5
      <4>3. first(a + 1) = at[(Index + (k + 1)) % QueueNumber]
        BY <2>2, <4>2
      <4> QED BY <3>3, <4>1, <4>3 DEF End
    <3> QED BY <1>3, <3>4, <3>5
  <2>9. ASSUME NEW a \in Places
        PROVE  /\ Place(a) \in Seq(Unit) /\ Len(Place(a)) < Modulus
               /\ a # QueueNumber + 3 => Spans(pos[a], Place(a), pos[a + 1])
    <3>1. a # QueueNumber + 3 => a + 1 \in Places
      BY <1>3 DEF Places
    <3>2. CASE a = 0
      BY <1>2, <2>1, <2>2, <2>5, <2>6, <3>1, <3>2
    <3>3. CASE a = 1
      <4>1. a + 1 = 2 /\ a # QueueNumber + 3
        BY <1>3, <3>3
      <4> QED BY <1>2, <2>1, <2>2, <2>5, <2>6, <3>1, <3>3, <4>1
    <3>4. CASE a = 2
      <4>1. a + 1 = 3 /\ a # QueueNumber + 3
        BY <1>3, <3>4
      <4> QED BY <1>2, <2>1, <2>2, <2>5, <2>6, <2>7, <3>1, <3>4, <4>1
    <3>5. CASE a \in 3 .. QueueNumber + 2
      <4>1. Place(a) \in Seq(Unit) /\ Len(Place(a)) < Modulus
        BY <1>5, <2>1, <2>4, <3>5
      <4> QED BY <2>5, <2>8, <3>1, <3>5, <4>1
    <3>6. CASE a = QueueNumber + 3
      BY <1>4, <2>1, <3>6
    <3> QED BY <2>3, <3>2, <3>3, <3>4, <3>5, <3>6
  <2>10. QueueNumber + 3 \in Places /\ Place(QueueNumber + 3) = <<pos[QueueNumber + 3]>>
    <3>1. QueueNumber + 3 \in Places
      BY <1>3 DEF Places
    <3> QED BY <2>1, <2>2, <2>5, <3>1
  <2> QED BY <2>5, <2>9, <2>10
<1>7. CASE dir = "write"
  <2> DEFINE first(a) == CASE a = 0 -> l
                           [] a = QueueNumber + 3 -> source
                           [] a = QueueNumber + 2 -> f
                           [] a = QueueNumber + 1 -> c
                           [] OTHER -> at[(Index + (a - 1)) % QueueNumber]
             pos == [a \in Places |-> first(a)]
  <2>1. /\ Place(0) = last /\ Place(QueueNumber + 2) = fifo /\ Place(QueueNumber + 1) = chunk
        /\ Place(QueueNumber + 3) = <<source>>
        /\ \A a \in 1 .. QueueNumber : Place(a) = Held(a - 1)
    BY <1>3, <1>7 DEF Place
  <2>2. /\ first(0) = l /\ first(QueueNumber + 2) = f /\ first(QueueNumber + 1) = c
        /\ first(QueueNumber + 3) = source
        /\ \A a \in 1 .. QueueNumber : first(a) = at[(Index + (a - 1)) % QueueNumber]
    BY <1>3
  <2> HIDE DEF first
  <2>3. \A a \in Places : \/ a \in {0, QueueNumber + 1, QueueNumber + 2, QueueNumber + 3}
                          \/ a \in 1 .. QueueNumber
    BY <1>3 DEF Places
  <2>4. \A a \in 1 .. QueueNumber : a - 1 \in 0 .. QueueNumber - 1
    BY <1>3
  <2>5. pos \in [Places -> Unit] /\ \A a \in Places : pos[a] = first(a)
    BY <1>2, <1>5, <2>2, <2>3, <2>4
  <2> HIDE DEF pos
  <2>6. Spans(l, last, at[Index]) /\ Spans(c, chunk, f) /\ Spans(f, fifo, source)
    BY <1>1, <1>7 DEF Chained, WriteChain
  <2>7. first(1) = at[Index]
    <3>1. 1 \in 1 .. QueueNumber /\ 1 - 1 = 0 /\ 0 \in 0 .. QueueNumber - 1
      BY <1>3
    <3>2. (Index + (1 - 1)) % QueueNumber = Index
      BY <1>2, <3>1, HeldAt
    <3> QED BY <2>2, <3>1, <3>2
  <2>8. ASSUME NEW a \in 1 .. QueueNumber
        PROVE  Spans(first(a), Place(a), first(a + 1))
    <3>1. PICK k \in 0 .. QueueNumber - 1 : k = a - 1
      BY <2>4
    <3>2. PICK i \in Slots : i = (Index + k) % QueueNumber
      BY <1>5
    <3>3. Place(a) = Held(k) /\ first(a) = at[i] /\ Spans(at[i], Held(k), End(at, c, i))
      BY <1>5, <2>1, <2>2, <3>1, <3>2
    <3>4. CASE k = QueueNumber - 1
      <4>1. After(i) = Index
        BY <1>2, <3>2, <3>4, HeldAt
      <4>2. a + 1 = QueueNumber + 1
        BY <1>3, <3>1, <3>4
      <4> QED BY <1>7, <2>2, <3>3, <4>1, <4>2 DEF End
    <3>5. CASE k < QueueNumber - 1
      <4>1. After(i) # Index /\ After(i) = (Index + (k + 1)) % QueueNumber
        BY <1>2, <3>2, <3>5, HeldAt
      <4>2. a + 1 \in 1 .. QueueNumber /\ (a + 1) - 1 = k + 1
        BY <1>3, <3>1, <3>5
      <4>3. first(a + 1) = at[(Index + (k + 1)) % QueueNumber]
        BY <2>2, <4>2
      <4> QED BY <3>3, <4>1, <4>3 DEF End
    <3> QED BY <1>3, <3>4, <3>5
  <2>9. ASSUME NEW a \in Places
        PROVE  /\ Place(a) \in Seq(Unit) /\ Len(Place(a)) < Modulus
               /\ a # QueueNumber + 3 => Spans(pos[a], Place(a), pos[a + 1])
    <3>1. a # QueueNumber + 3 => a + 1 \in Places
      BY <1>3 DEF Places
    <3>2. CASE a = 0
      BY <1>2, <2>1, <2>2, <2>5, <2>6, <2>7, <3>1, <3>2
    <3>3. CASE a = QueueNumber + 1
      <4>1. a + 1 = QueueNumber + 2 /\ a # QueueNumber + 3
        BY <1>3, <3>3
      <4> QED BY <1>2, <2>1, <2>2, <2>5, <2>6, <3>1, <3>3, <4>1
    <3>4. CASE a = QueueNumber + 2
      <4>1. a + 1 = QueueNumber + 3 /\ a # QueueNumber + 3
        BY <1>3, <3>4
      <4> QED BY <1>2, <2>1, <2>2, <2>5, <2>6, <3>1, <3>4, <4>1
    <3>5. CASE a \in 1 .. QueueNumber
      <4>1. Place(a) \in Seq(Unit) /\ Len(Place(a)) < Modulus
        BY <1>5, <2>1, <2>4, <3>5
      <4> QED BY <2>5, <2>8, <3>1, <3>5, <4>1
    <3>6. CASE a = QueueNumber + 3
      BY <1>4, <2>1, <3>6
    <3> QED BY <2>3, <3>2, <3>3, <3>4, <3>5, <3>6
  <2>10. QueueNumber + 3 \in Places /\ Place(QueueNumber + 3) = <<pos[QueueNumber + 3]>>
    <3>1. QueueNumber + 3 \in Places
      BY <1>3 DEF Places
    <3> QED BY <2>1, <2>2, <2>5, <3>1
  <2> QED BY <2>5, <2>9, <2>10
<1> QED BY <1>2, <1>6, <1>7

\* The chain of places holds one stream, without a gap between any two that hold units.
LEMMA Unbroken == SInv => PipelineUnbroken
<1> SUFFICES ASSUME SInv, ~Stopped, \A i \in Slots : slot[i].status # "failed"
             PROVE  /\ \A a \in Places : Consecutive(Place(a))
                    /\ \A a, b \in Places :
                         NextHeld(a, b) => Place(b)[1] = (Place(a)[Len(Place(a))] + 1) % Modulus
  BY DEF PipelineUnbroken
<1>1. PICK pos \in [Places -> Unit] :
        /\ \A a \in Places : Place(a) \in Seq(Unit) /\ Len(Place(a)) < Modulus
        /\ \A a \in Places : a # QueueNumber + 3 => Spans(pos[a], Place(a), pos[a + 1])
        /\ Place(QueueNumber + 3) = <<pos[QueueNumber + 3]>>
  BY PlacesSpan
<1>2. \A a \in Places : a # QueueNumber + 3 => a + 1 \in Places
  BY BulkAssumption DEF Places
<1>3. \A a \in Places : pos[a] \in Unit
  OBVIOUS
<1>4. ASSUME NEW a \in Places, a # QueueNumber + 3
      PROVE  /\ Consecutive(Place(a))
             /\ Place(a) # << >> => /\ Place(a)[1] = pos[a]
                                    /\ pos[a + 1] = (Place(a)[Len(Place(a))] + 1) % Modulus
  BY <1>1, <1>2, <1>3, <1>4, SpansConsecutive
<1>5. Consecutive(Place(QueueNumber + 3)) /\ Place(QueueNumber + 3)[1] = pos[QueueNumber + 3]
  <2> DEFINE s == <<pos[QueueNumber + 3]>>
  <2>1. Len(s) = 1 /\ s[1] = pos[QueueNumber + 3]
    OBVIOUS
  <2>2. Consecutive(s)
    BY <2>1 DEF Consecutive
  <2> QED BY <1>1, <2>1, <2>2
<1>6. ASSUME NEW a \in Places, NEW b \in Places, NextHeld(a, b)
      PROVE  Place(b)[1] = (Place(a)[Len(Place(a))] + 1) % Modulus
  <2>1. /\ a < b /\ Place(a) # << >> /\ Place(b) # << >>
        /\ \A k \in a + 1 .. b - 1 : Place(k) = << >>
    BY <1>6 DEF NextHeld
  <2>2. /\ a # QueueNumber + 3
        /\ \A k \in a + 1 .. b - 1 : k \in Places /\ k # QueueNumber + 3
    BY <2>1, BulkAssumption DEF Places
  <2>3. \A k \in a + 1 .. b - 1 : Spans(pos[k], << >>, pos[k + 1])
    BY <1>1, <2>1, <2>2
  <2>4. pos[a + 1] = pos[b]
    BY <2>1, <2>3, EmptyPlaces
  <2>5. Place(b)[1] = pos[b]
    BY <1>4, <1>5, <2>1
  <2> QED BY <1>4, <2>1, <2>2, <2>4, <2>5
<1> QED BY <1>4, <1>5, <1>6

\* The FIFO itself holds units that follow each other.
LEMMA FifoInOrder == SInv => FifoUnbroken
<1> SUFFICES ASSUME SInv PROVE Consecutive(IF dir = "read" THEN last \o fifo ELSE fifo)
  BY DEF FifoUnbroken
<1>1. PICK at \in [Slots -> Unit], l \in Unit, f \in Unit, c \in Unit : Chained(at, l, f, c)
  BY DEF SInv, Linked
<1>2. /\ source \in Unit /\ dir \in {"read", "write"}
      /\ last \in Seq(Unit) /\ fifo \in Seq(Unit) /\ Len(fifo) < Modulus
  BY StreamTyped DEF SInv
<1>3. CASE dir = "read"
  <2>1. Spans(l, last, f) /\ Spans(f, fifo, c)
    BY <1>1, <1>3 DEF Chained, ReadChain
  <2>2. Len(last) + Len(fifo) < Modulus
    <3>1. /\ Len(last) <= 1 /\ Len(fifo) <= FifoSize /\ Len(last) \in Nat /\ Len(fifo) \in Nat
      BY <1>2 DEF SInv, IInv, TypeOK
    <3>2. FifoSize \in Nat /\ Modulus \in Nat /\ FifoSize + 1 < Modulus
      BY BulkAssumption, Room
    <3> QED BY <3>1, <3>2
  <2>3. /\ last \o fifo \in Seq(Unit) /\ Len(last \o fifo) < Modulus
        /\ Spans(l, last \o fifo, c)
    <3>1. last \o fifo \in Seq(Unit) /\ Len(last \o fifo) = Len(last) + Len(fifo)
      BY <1>2
    <3> QED BY <1>2, <2>1, <2>2, <3>1, SpansConcat
  <2> QED BY <1>3, <2>3, SpansConsecutive
<1>4. CASE dir = "write"
  <2>1. Spans(f, fifo, source)
    BY <1>1, <1>4 DEF Chained, WriteChain
  <2> QED BY <1>2, <1>4, <2>1, SpansConsecutive
<1> QED BY <1>2, <1>3, <1>4

\* The stream of a bulk pipe has no gap, for any number and size of requests and any
\* length of the FIFO.
THEOREM StreamIsUnbroken == Spec => []StreamUnbroken
<1>1. SInv => StreamUnbroken
  BY Unbroken, FifoInOrder DEF StreamUnbroken
<1> QED BY <1>1, StreamInvariant, PTL
==============================================================================
