-------------------------------- MODULE Ping --------------------------------
(***************************************************************************)
(* PingHost (IP/c_ping.cpp): one echo request, then whatever comes to the   *)
(* raw socket until a reply with the process's id, a packet that is too     *)
(* short, or the end of the time.  Each recv_ping is an overlapped          *)
(* WSARecvFrom into the same recv_buf; one whose wait ran out is left to    *)
(* the system and takes the next packet.                                    *)
(***************************************************************************)
EXTENDS Integers, Sequences, SequencesExt

CONSTANTS
  PingWorlds,    \* the uses: [small, kinds, fails]
  PingTimeout,   \* Timeout, in ticks of GetTickCount
  PingPackets    \* bound on the packets that come
ASSUME PingAssumption == PingTimeout \in Nat

VARIABLES
  pingWorld,   \* small: PacketSize leaves no room for the least reply; kinds: the packets
               \* that come; fails: a call of the system may fail
  ping,        \* where PingHost is, the time, when it began, when its wait ends, how many
               \* requests were abandoned, what is in recv_buf and whether this call has
               \* received it, the result
  icmp         \* the packets not yet received, those that came and when
pingVars == <<pingWorld, ping, icmp>>

PacketKinds == {"echo", "other", "unreach", "options"}
NoPacket == [kind |-> "none", seq |-> 0, at |-> 0]
PingInitIn(worlds) ==
  /\ pingWorld \in worlds
  /\ ping = [pc |-> "idle", now |-> 0, begin |-> 0, until |-> 0, abandoned |-> 0,
             buf |-> NoPacket, received |-> FALSE, res |-> 0]
  /\ icmp = [queue |-> << >>, came |-> << >>]
PingInit == PingInitIn(PingWorlds)

PingAt(pc) == ping.pc = pc
PingReturns(res) == ping' = [ping EXCEPT !.pc = "done", !.res = res]

\* setup_for_ping, allocate_buffers, init_ping_packet; new leaves recv_buf as it finds it:
\* anything may be in it, an answer to an earlier PingHost too.
PingHost ==
  /\ PingAt("idle")
  /\ \/ pingWorld.fails /\ PingReturns(-1)
     \/ \E kind \in PacketKinds, seq \in {0, 1} :
          ping' = [ping EXCEPT !.pc = "send", !.buf = [kind |-> kind, seq |-> seq, at |-> 0]]
  /\ UNCHANGED <<pingWorld, icmp>>

send_ping ==
  /\ PingAt("send")
  /\ \/ pingWorld.fails /\ PingReturns(-1)
     \/ ping' = [ping EXCEPT !.pc = "look", !.begin = ping.now]
  /\ UNCHANGED <<pingWorld, icmp>>

\* The head of the loop.
PingLooksAtClock ==
  /\ PingAt("look")
  /\ IF ping.now - ping.begin > PingTimeout THEN PingReturns(-1)
     ELSE ping' = [ping EXCEPT !.pc = "receive", !.until = ping.now + PingTimeout]
  /\ UNCHANGED <<pingWorld, icmp>>

-----------------------------------------------------------------------------
\* decode_reply: 0 for an answer, -1 for a packet that is too short, else go on waiting.

\* Mutant of IsReply: the id is not looked at.
IsReplyToAnyone(packet) == packet.kind \in {"echo", "other"}
IsReply(packet) == packet.kind = "echo"
\* The length is that of the request, not that of the packet.
TooShort(packet) == pingWorld.small \/ packet.kind = "options"
decode_reply(packet) == IF TooShort(packet) THEN -1 ELSE IF IsReply(packet) THEN 0 ELSE -2

\* The oldest request is the one that ends, in the state p: only when none is abandoned is it
\* the one waited for, and what is in recv_buf is decoded.
ReceiveEnds(p) ==
  IF p.abandoned # 0 THEN ping' = [p EXCEPT !.abandoned = @ - 1]
  ELSE IF decode_reply(p.buf) = -2 THEN ping' = [p EXCEPT !.pc = "look"]
  ELSE ping' = [p EXCEPT !.pc = "done", !.res = decode_reply(p.buf)]

recv_ping ==
  /\ PingAt("receive") /\ icmp.queue # << >>
  /\ ReceiveEnds([ping EXCEPT !.buf = Head(icmp.queue), !.received = TRUE])
  /\ icmp' = [icmp EXCEPT !.queue = Tail(@)]
  /\ UNCHANGED pingWorld

\* A pending request fails.  The result of WSAGetOverlappedResult is not looked at: recv_ping
\* returns 0, and what was in recv_buf before is decoded.
recv_ping_broken ==
  /\ PingAt("receive") /\ pingWorld.fails
  /\ ReceiveEnds(ping)
  /\ UNCHANGED <<pingWorld, icmp>>

\* The wait is over, or WSARecvFrom fails at once: the loop goes on if recv_buf, whatever is
\* in it, has another sequence number.
recv_ping_fails ==
  /\ PingAt("receive")
  /\ \E left \in {0, 1} :
       /\ IF left = 1 THEN icmp.queue = << >> /\ ping.now >= ping.until ELSE pingWorld.fails
       /\ IF ping.buf.seq = 0 THEN PingReturns(-1)
          ELSE ping' = [ping EXCEPT !.pc = "look", !.abandoned = @ + left]
  /\ UNCHANGED <<pingWorld, icmp>>

-----------------------------------------------------------------------------
\* GetTickCount goes on while nothing is to be done; it is not let past the end of a wait
\* before that is noticed.
PingTick ==
  /\ \/ PingAt("send") /\ ping.now < PingTimeout
     \/ /\ icmp.queue = << >> \/ pingWorld.fails
        /\ \/ PingAt("look") /\ ping.now <= ping.begin + PingTimeout
           \/ PingAt("receive") /\ ping.now < ping.until
  /\ ping' = [ping EXCEPT !.now = @ + 1]
  /\ UNCHANGED <<pingWorld, icmp>>

\* A packet comes: "echo" an answer with our id, "other" one with another id, "unreach" any
\* other message, "options" one with a longer IP header.
PacketComes ==
  /\ ping.pc \in {"look", "receive"} /\ Len(icmp.came) < PingPackets
  /\ \E kind \in pingWorld.kinds, seq \in {0, 1} :
       LET packet == [kind |-> kind, seq |-> seq, at |-> ping.now]
       IN  /\ kind = "echo" => seq = 0
           /\ icmp' = [queue |-> Append(icmp.queue, packet), came |-> Append(icmp.came, packet)]
  /\ UNCHANGED <<pingWorld, ping>>

PingSteps ==
  \/ send_ping \/ PingLooksAtClock \/ recv_ping \/ recv_ping_broken \/ recv_ping_fails
  \/ PingTick
PingNext == PingHost \/ PingSteps \/ PacketComes
PingFairness == WF_pingVars(PingSteps) /\ WF_pingVars(PingTick)
PingSettled == ping.pc \in {"idle", "done"}
=============================================================================
