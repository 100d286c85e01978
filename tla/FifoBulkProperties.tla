------------------------- MODULE FifoBulkProperties -------------------------
\* What TFIFO_BULK promises the one thread that uses it.
EXTENDS FifoBulk

Unit == 0 .. Modulus - 1

\* Types and ranges.
TypeOK ==
  /\ dir \in {"read", "write"}
  /\ Stopped \in BOOLEAN /\ killed \in BOOLEAN
  /\ worker \in {"none", "start", "loop", "wait", "result", "move", "put", "take",
                 "submit", "cancel", "exited"}
  /\ Index \in Slots /\ size \in 0 .. QueueSize
  /\ slot \in [Slots -> [status : {"idle", "pending", "done", "failed"}, data : Seq(Unit)]]
  /\ event \in [Slots -> BOOLEAN]
  /\ chunk \in Seq(Unit) /\ fifo \in Seq(Unit) /\ last \in Seq(Unit)
  /\ Len(chunk) <= QueueSize /\ Len(fifo) <= FifoSize /\ Len(last) <= 1
  /\ source \in Unit /\ want \in Nat /\ counter \in 0 .. FifoSize
  /\ agenda \in Seq({"stop", "wait", "flush", "start", "count", "transfer"})

Consecutive(s) == \A i \in 1 .. Len(s) - 1 : s[i + 1] = (s[i] + 1) % Modulus

\* The places a unit passes, from the last unit that came out to the next that goes in;
\* between them the FIFO, the chunk of the thread and the requests by age.
Places == 0 .. QueueNumber + 3
Held(k) == slot[(Index + k) % QueueNumber].data
Place(a) ==
  CASE a = 0 -> last
    [] a = QueueNumber + 3 -> <<source>>
    [] dir = "read" /\ a = 1 -> fifo
    [] dir = "read" /\ a = 2 -> chunk
    [] dir = "read" /\ a \in 3 .. QueueNumber + 2 -> Held(a - 3)
    [] dir = "write" /\ a \in 1 .. QueueNumber -> Held(a - 1)
    [] dir = "write" /\ a = QueueNumber + 1 -> chunk
    [] dir = "write" /\ a = QueueNumber + 2 -> fifo

\* b is the next place behind a that holds anything.
NextHeld(a, b) ==
  /\ a < b /\ Place(a) # << >> /\ Place(b) # << >>
  /\ \A c \in a + 1 .. b - 1 : Place(c) = << >>

\* While the thread runs and no request has failed, every unit that went in at one end
\* is on its way or came out at the other: none is lost, repeated or overtaken.
PipelineUnbroken ==
  ~Stopped /\ (\A i \in Slots : slot[i].status # "failed") =>
    /\ \A a \in Places : Consecutive(Place(a))
    /\ \A a, b \in Places :
         NextHeld(a, b) => Place(b)[1] = (Place(a)[Len(Place(a))] + 1) % Modulus

\* What the user reads has no gap, whatever request failed and whenever the thread
\* stopped: what follows a gap never reaches the FIFO before a Flush.
FifoUnbroken ==
  Consecutive(IF dir = "read" THEN last \o fifo ELSE fifo)

\* The stream of a pipe has no gap: not between device and user while all goes well, and
\* never in what the user is given.
StreamUnbroken == PipelineUnbroken /\ FifoUnbroken

\* The FIFO is flushed only while the thread will not touch it: c_FIFO does not survive
\* a Flush beside a Read or a Write.
FlushesAlone ==
  agenda # << >> /\ Head(agenda) = "flush" =>
    \/ worker \in {"none", "exited"}
    \/ Stopped /\ worker \notin {"put", "take"}

\* Start never finds a live thread, which ForceStop would terminate wherever it is, with
\* the flags of the FIFO taken.
NeverKilled == ~killed

\* The thread never waits for an event that nobody will set.
NeverWaitsInVain ==
  worker = "wait" /\ ~Stopped /\ slot[Index].status # "pending" => event[Index]

\* Every call of the user returns, whether the device answers or not.
CallsReturn == agenda # << >> ~> agenda = << >>
==============================================================================
