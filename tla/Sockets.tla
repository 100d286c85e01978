------------------------------- MODULE Sockets -------------------------------
(***************************************************************************)
(* The socket classes (IP): c_sock_base, over the blocking calls of the     *)
(* system; c_sock_over, over overlapped ones; c_sock_compl, a pair of them, *)
(* one that connects or is bound and one that accepts.  One thread opens    *)
(* and closes the sockets while others receive and one sends through the    *)
(* connection.  The program opens a socket again only when those are done   *)
(* with it (the README says what the code does if it does not wait).        *)
(***************************************************************************)
EXTENDS Integers, Sequences, SequencesExt, FiniteSets

CONSTANTS
  SockWorlds,   \* the uses: [over, nonBlocking, server, users, timed, fails]
  SockBytes,    \* bound on the bytes that go each way
  SockSizes,    \* the sizes that are asked for
  SockOpens     \* bound on the calls of Create
ASSUME SockAssumption ==
  /\ SockSizes \subseteq Nat
  /\ SockWorlds \subseteq [over : BOOLEAN, nonBlocking : BOOLEAN, server : BOOLEAN,
                           users : SUBSET {"r1", "r2", "writer"}, timed : BOOLEAN,
                           fails : BOOLEAN]

VARIABLES
  sockWorld,  \* over: the sockets are of c_sock_over; nonBlocking: NonBlockingConn; server: it
              \* accepts; users: the threads that transfer data; timed: transfers have a
              \* timeout; fails: calls of the system may fail
  socks,      \* the two objects: sock, Initialized, Socket_Status, LocalError, ReadInUse,
              \* WriteInUse, nonBlocking
  calls,      \* of every thread: its call, where it is, what it asked and what it got
  ov,         \* the overlapped requests of the connection, ovr and ovw
  net         \* the connection: whether it was made and not closed, the bytes that have come and
              \* are not taken yet, those taken, how many went out, and told: how many the calls
              \* have reported
sockVars == <<sockWorld, socks, calls, ov, net>>

Owner == "owner"
Writer == "writer"
SockThreads == {Owner} \cup sockWorld.users
Readers == sockWorld.users \ {Writer}
NewSocket == [sock |-> FALSE, Initialized |-> FALSE, status |-> {}, error |-> "none",
              ReadInUse |-> FALSE, WriteInUse |-> FALSE, nonBlocking |-> FALSE]
\* then: where it goes on after a Close; got: bytes moved by the call; of the owner, opens:
\* how often it has called Create, ready: whether the object was Initialized at the call.
NoSockCall == [pc |-> "idle", op |-> "none", x |-> "conn", then |-> "idle", size |-> 0,
               got |-> 0, res |-> 0, opens |-> 0, ready |-> FALSE]
NoRequest == [state |-> "free", event |-> FALSE, n |-> 0]
NoNet == [made |-> FALSE, peer |-> "none", inbox |-> << >>, sent |-> 0, heard |-> << >>,
          out |-> 0, told |-> [d \in {"r", "w"} |-> 0]]

SockInitIn(worlds) ==
  /\ sockWorld \in worlds
  /\ socks = [x \in {"conn", "acc"} |-> NewSocket]
  /\ calls = [t \in SockThreads |-> NoSockCall]
  /\ ov = [d \in {"r", "w"} |-> NoRequest]
  /\ net = NoNet
SockInit == SockInitIn(SockWorlds)

\* The socket with the connection.
Link == IF sockWorld.server THEN "acc" ELSE "conn"
SockAt(t, pc) == calls[t].pc = pc
SockGo(t, pc) == calls' = [calls EXCEPT ![t].pc = pc]
SockClose(t, next) == calls' = [calls EXCEPT ![t].pc = "close", ![t].then = next]
SockReturn(t, res) ==
  calls' = [calls EXCEPT ![t].pc = "idle", ![t].then = "idle", ![t].res = res]
\* SetError: the first one stays.
SetError(s, e) == [s EXCEPT !.error = IF @ = "none" THEN e ELSE @]
SockFails(x, e) == socks' = [socks EXCEPT ![x] = SetError(@, e)]

-----------------------------------------------------------------------------
\* Close.  closesocket ends what is pending; c_sock_over::Close then sets and resets the
\* events of both requests, whoever is waiting for them.

Closed(s) == [NewSocket EXCEPT !.error = s.error]
Aborted(r) == IF r.state = "pending" THEN [r EXCEPT !.state = "failed", !.event = TRUE] ELSE r
SockCloses(t) ==
  /\ SockAt(t, "close")
  /\ LET x == calls[t].x
     IN  /\ socks' = [socks EXCEPT ![x] = Closed(@)]
         /\ IF x = Link /\ socks[x].sock
            THEN /\ ov' = [d \in DOMAIN ov |-> Aborted(ov[d])]
                 /\ net' = [net EXCEPT !.made = FALSE, !.peer = "none", !.inbox = << >>]
            ELSE UNCHANGED <<ov, net>>
  /\ SockGo(t, IF sockWorld.over THEN "reset" ELSE calls[t].then)
  /\ UNCHANGED sockWorld
SockResets(t) ==
  /\ SockAt(t, "reset")
  /\ ov' = IF calls[t].x # Link THEN ov
           ELSE [d \in DOMAIN ov |-> [ov[d] EXCEPT !.event = FALSE]]
  /\ SockGo(t, calls[t].then)
  /\ UNCHANGED <<sockWorld, socks, net>>

-----------------------------------------------------------------------------
\* The owner.

SockIdle == \A t \in SockThreads : SockAt(t, "idle")
OwnerCalls(op, x, pc, next) ==
  LET opens == calls[Owner].opens + IF op = "Create" THEN 1 ELSE 0
  IN  calls' = [calls EXCEPT ![Owner] = [@ EXCEPT !.op = op, !.x = x, !.pc = pc, !.then = next,
                                                  !.opens = opens,
                                                  !.ready = socks["conn"].Initialized]]
\* c_sock_compl::Accept_s asks that the status has no other bits than these two.
MayAccept == socks["conn"].sock /\ socks["conn"].status \subseteq {"Bind", "Listen"}
CallOwner ==
  /\ SockAt(Owner, "idle")
  /\ \/ /\ SockIdle /\ calls[Owner].opens < SockOpens
        /\ OwnerCalls("Create", "conn", "close", "create")
     \/ SockIdle /\ ~sockWorld.server /\ OwnerCalls("Connect_s", "conn", "try", "idle")
     \/ \E op \in {"Bind_s", "Listen_s"} :
          SockIdle /\ sockWorld.server /\ OwnerCalls(op, "conn", "try", "idle")
     \/ /\ SockIdle /\ sockWorld.server /\ MayAccept
        /\ OwnerCalls("Accept_s", "acc", "close", "accept")
     \/ (\E x \in DOMAIN socks : socks[x].sock) /\ OwnerCalls("Close", "conn", "close", "both")
  /\ UNCHANGED <<sockWorld, socks, ov, net>>

\* The name may not be found, the socket not be had, or not be made non-blocking: then it
\* stays open, and c_sock_over sets no error.
CreateError(open) == IF open /\ sockWorld.over THEN "none" ELSE "CREATE"
Create ==
  /\ SockAt(Owner, "create")
  /\ \/ /\ sockWorld.fails
        /\ \E open \in {FALSE, sockWorld.nonBlocking} :
             socks' = [socks EXCEPT !["conn"] =
                         [NewSocket EXCEPT !.error = CreateError(open), !.sock = open,
                                           !.nonBlocking = open]]
        /\ SockReturn(Owner, 0)
     \/ /\ socks' = [socks EXCEPT !["conn"] =
                       [NewSocket EXCEPT !.sock = TRUE, !.Initialized = TRUE,
                                         !.nonBlocking = sockWorld.nonBlocking]]
        /\ SockReturn(Owner, 1)
  /\ UNCHANGED <<sockWorld, ov, net>>

OwnerFails(x, e) == SockFails(x, e) /\ SockClose(Owner, "fail") /\ UNCHANGED net
Connected == [NoNet EXCEPT !.made = TRUE, !.peer = "up"]

\* One try of Connect_s.  A non-blocking socket waits, once; the event that c_sock_over waits
\* for is set by a refusal as well.  Else a host that refuses is tried again, as is a system
\* without buffers by a non-blocking socket, until the time is over.
\* Mutant of TakenFor: the end of the time is taken for the end of the trying.
TakenForAnyEnd(outcome) ==
  IF outcome \in {"made", "slow"} THEN "connection"
  ELSE IF outcome = "refused" THEN "again" ELSE "failure"
TakenFor(outcome) ==
  LET late == socks["conn"].nonBlocking
  IN  CASE outcome = "made" -> "connection"
        [] outcome = "refused" -> IF ~late THEN "again"
                                  ELSE IF sockWorld.over THEN "connection" ELSE "failure"
        [] outcome = "noBuffers" -> IF late THEN "again" ELSE "failure"
        [] outcome \in {"slow", "error"} -> "failure"
Connect_s ==
  /\ SockAt(Owner, "try") /\ calls[Owner].op = "Connect_s"
  /\ IF ~socks["conn"].Initialized THEN SockReturn(Owner, 0) /\ UNCHANGED <<socks, net>>
     ELSE \E outcome \in {"made", "refused", "noBuffers", "slow", "error"},
             timeLeft \in BOOLEAN :
          /\ net.peer # "none" => outcome = "error"
          /\ CASE TakenFor(outcome) = "connection" ->
                   /\ socks' = [socks EXCEPT !["conn"].status = @ \cup {"Connect"},
                                             !["conn"].nonBlocking = @ /\ sockWorld.over]
                   /\ net' = IF outcome = "made" THEN Connected ELSE NoNet
                   /\ SockReturn(Owner, 1)
              [] TakenFor(outcome) = "again" /\ timeLeft -> UNCHANGED <<socks, calls, net>>
              [] OTHER -> OwnerFails("conn", "CONNECT")
  /\ UNCHANGED <<sockWorld, ov>>

\* bind is tried until the time is over, at least once.
Bind_s ==
  /\ SockAt(Owner, "try") /\ calls[Owner].op = "Bind_s"
  /\ IF ~socks["conn"].Initialized THEN SockReturn(Owner, 0) /\ UNCHANGED <<socks, net>>
     ELSE \/ /\ socks' = [socks EXCEPT !["conn"].status = @ \cup {"Bind"},
                                       !["conn"].nonBlocking = FALSE]
             /\ SockReturn(Owner, 1) /\ UNCHANGED net
          \/ OwnerFails("conn", "BIND")
  /\ UNCHANGED <<sockWorld, ov>>
\* listen fails for a socket that is not bound.
Listen_s ==
  /\ SockAt(Owner, "try") /\ calls[Owner].op = "Listen_s"
  /\ IF ~socks["conn"].sock THEN SockReturn(Owner, 0) /\ UNCHANGED socks
     ELSE IF "Bind" \in socks["conn"].status
          THEN /\ socks' = [socks EXCEPT !["conn"].status = @ \cup {"Listen"}]
               /\ SockReturn(Owner, 1)
          ELSE SockFails("conn", "LISTEN") /\ SockReturn(Owner, 0)
  /\ UNCHANGED <<sockWorld, ov, net>>
\* accept waits for a client; it fails for a socket that does not listen.
Accept_s ==
  /\ SockAt(Owner, "accept")
  /\ \/ /\ "Listen" \in socks["conn"].status
        /\ socks' = [socks EXCEPT !["acc"].sock = TRUE, !["acc"].status = @ \cup {"Accept"}]
        /\ net' = Connected /\ SockReturn(Owner, 1)
     \/ /\ sockWorld.fails \/ "Listen" \notin socks["conn"].status
        /\ OwnerFails("acc", "ACCEPT")
  /\ UNCHANGED <<sockWorld, ov>>

\* After the closing: a call that failed ends; c_sock_compl::Close goes on with the other one.
OwnerGoesOn ==
  /\ \/ SockAt(Owner, "fail") /\ SockReturn(Owner, 0)
     \/ /\ SockAt(Owner, "both")
        /\ calls' = [calls EXCEPT ![Owner].x = "acc", ![Owner].pc = "close",
                                  ![Owner].then = "end"]
     \/ SockAt(Owner, "end") /\ SockReturn(Owner, 1)
  /\ UNCHANGED <<sockWorld, socks, ov, net>>

-----------------------------------------------------------------------------
\* Receiving and sending: RecvAny, Recv and Send.

InUse(t) == IF t = Writer THEN socks[Link].WriteInUse ELSE socks[Link].ReadInUse
Using(s, t, inUse) ==
  IF t = Writer THEN [s EXCEPT !.WriteInUse = inUse] ELSE [s EXCEPT !.ReadInUse = inUse]
Request(t) == IF t = Writer THEN "w" ELSE "r"
\* The users stop at the first error.
CallTransfer(t, op, size) ==
  /\ SockAt(t, "idle") /\ socks[Link].error = "none"
  /\ (SockAt(Owner, "idle") \/ calls[Owner].op = "Close")
  /\ IF socks[Link].sock
     THEN /\ calls' = [calls EXCEPT ![t] = [@ EXCEPT !.op = op, !.x = Link, !.pc = "turn",
                                                     !.size = size, !.got = 0]]
          /\ UNCHANGED socks
     ELSE /\ SockFails(Link, "PARAM")
          /\ UNCHANGED calls   \* it returns -1
  /\ UNCHANGED <<sockWorld, ov, net>>
\* while(ReadInUse) Sleep(5), and then ReadInUse=true.
SeesTurn(t) ==
  /\ SockAt(t, "turn") /\ ~InUse(t)
  /\ SockGo(t, "take") /\ UNCHANGED <<sockWorld, socks, ov, net>>
TakesTurn(t) ==
  /\ SockAt(t, "take")
  /\ socks' = [socks EXCEPT ![Link] = Using(@, t, TRUE)]
  /\ SockGo(t, "move") /\ UNCHANGED <<sockWorld, ov, net>>
TransferEnds(t) ==
  /\ SockAt(t, "done")
  /\ socks' = [socks EXCEPT ![Link] = Using(@, t, FALSE)]
  /\ calls' = [calls EXCEPT ![t] = NoSockCall]   \* it returns got
  /\ net' = [net EXCEPT !.told[Request(t)] = @ + calls[t].got]
  /\ UNCHANGED <<sockWorld, ov>>
TransferFails(t) == SockFails(Link, "TRANSFER") /\ SockClose(t, "done")

\* What the connection gives or takes at once: bytes that have come, as many as are asked for.
Available(size) == IF Len(net.inbox) < size THEN Len(net.inbox) ELSE size
TakenBytes(n) ==
  [net EXCEPT !.heard = @ \o SubSeq(net.inbox, 1, n), !.inbox = SubSeq(@, n + 1, Len(@))]
\* Recv goes on until it has all or the time is over.
GoesOn(call, n) == call.op = "Recv" /\ n < call.size - call.got
Moved(t, n, more) ==
  calls' = [calls EXCEPT ![t].got = @ + n, ![t].pc = IF more THEN "move" ELSE "done"]
MovedSome(t, n) ==
  \E late \in {FALSE, sockWorld.timed} : Moved(t, n, GoesOn(calls[t], n) /\ ~late)

\* c_sock_base: recv waits for a byte, or the end; it fails for a socket that is closed.
RecvBlocking(t) ==
  /\ t # Writer /\ ~sockWorld.over /\ SockAt(t, "move")
  /\ IF ~socks[Link].sock \/ net.peer \in {"none", "reset"}
     THEN TransferFails(t) /\ UNCHANGED net
     ELSE IF net.inbox # << >>
     THEN /\ net' = TakenBytes(Available(calls[t].size - calls[t].got))
          /\ MovedSome(t, Available(calls[t].size - calls[t].got)) /\ UNCHANGED socks
     ELSE /\ net.peer = "over"
          /\ SockFails(Link, "END") /\ SockGo(t, "done") /\ UNCHANGED net
  /\ UNCHANGED <<sockWorld, ov>>
\* WaitForWriteData sets an error when its time is over, and send is called all the same; it
\* takes a part, or all.
SendBlocking ==
  /\ Writer \in sockWorld.users /\ ~sockWorld.over /\ SockAt(Writer, "move")
  /\ IF ~socks[Link].sock \/ net.peer # "up" THEN TransferFails(Writer) /\ UNCHANGED net
     ELSE /\ \E n \in 1 .. calls[Writer].size :
               net' = [net EXCEPT !.out = @ + n] /\ Moved(Writer, n, FALSE)
          /\ \/ UNCHANGED socks
             \/ sockWorld.timed /\ SockFails(Link, "TIMEOUT")
  /\ UNCHANGED <<sockWorld, ov>>

\* c_sock_over: WSARecv and WSASend end at once, or are pending.
RecvOverlapped(t) ==
  /\ t # Writer /\ sockWorld.over /\ SockAt(t, "move")
  /\ IF ~socks[Link].sock \/ net.peer \in {"none", "reset"}
     THEN TransferFails(t) /\ UNCHANGED <<ov, net>>
     ELSE IF net.inbox # << >>
     THEN /\ net' = TakenBytes(Available(calls[t].size - calls[t].got))
          /\ MovedSome(t, Available(calls[t].size - calls[t].got)) /\ UNCHANGED <<socks, ov>>
     ELSE IF net.peer = "over"
     THEN /\ IF calls[t].op = "Recv" THEN TransferFails(t)
             ELSE SockGo(t, "done") /\ UNCHANGED socks
          /\ UNCHANGED <<ov, net>>
     ELSE /\ ov' = [ov EXCEPT !["r"] = [NoRequest EXCEPT !.state = "pending"]]
          /\ SockGo(t, "wait") /\ UNCHANGED <<socks, net>>
  /\ UNCHANGED sockWorld
SendOverlapped ==
  /\ Writer \in sockWorld.users /\ sockWorld.over /\ SockAt(Writer, "move")
  /\ IF ~socks[Link].sock \/ net.peer # "up" THEN TransferFails(Writer) /\ UNCHANGED <<ov, net>>
     ELSE \/ /\ net' = [net EXCEPT !.out = @ + calls[Writer].size]
             /\ Moved(Writer, calls[Writer].size, FALSE) /\ UNCHANGED <<socks, ov>>
          \/ /\ ov' = [ov EXCEPT !["w"] = [NoRequest EXCEPT !.state = "pending"]]
             /\ SockGo(Writer, "wait") /\ UNCHANGED <<socks, net>>
  /\ UNCHANGED sockWorld

\* The event is set: WSAGetOverlappedResult fails for a socket that is closed by now.
Awakes(t) ==
  /\ SockAt(t, "wait") /\ ov[Request(t)].event
  /\ IF socks[Link].sock /\ ov[Request(t)].state = "done"
     THEN MovedSome(t, ov[Request(t)].n) /\ UNCHANGED socks
     ELSE TransferFails(t)
  /\ ov' = [ov EXCEPT ![Request(t)] = NoRequest]
  /\ UNCHANGED <<sockWorld, net>>
\* The time is over: CancelIo, and what the request has moved all the same is counted.
\* Mutant of Cancelled: what it has moved is forgotten.
CancelledEmpty(r) == 0
Cancelled(r) == IF r.state = "done" THEN r.n ELSE 0
WaitEnds(t) ==
  /\ SockAt(t, "wait") /\ sockWorld.timed /\ calls[t].op # "RecvAny"
  /\ ov' = [ov EXCEPT ![Request(t)] = NoRequest]
  /\ Moved(t, IF socks[Link].sock THEN Cancelled(ov[Request(t)]) ELSE 0, FALSE)
  /\ UNCHANGED <<sockWorld, socks, net>>

-----------------------------------------------------------------------------
\* The system and the other end.

RecvCompletes ==
  /\ ov["r"].state = "pending" /\ (net.inbox # << >> \/ net.peer # "up")
  /\ \E t \in Readers :
       /\ SockAt(t, "wait")
       /\ LET n == Available(calls[t].size - calls[t].got)
              state == IF net.peer = "reset" THEN "failed" ELSE "done"
          IN  /\ ov' = [ov EXCEPT !["r"] = [state |-> state, event |-> TRUE, n |-> n]]
              /\ net' = TakenBytes(n)
  /\ UNCHANGED <<sockWorld, socks, calls>>
SendCompletes ==
  /\ Writer \in sockWorld.users /\ ov["w"].state = "pending" /\ SockAt(Writer, "wait")
  /\ IF net.peer = "up"
     THEN /\ ov' = [ov EXCEPT !["w"] = [state |-> "done", event |-> TRUE,
                                        n |-> calls[Writer].size]]
          /\ net' = [net EXCEPT !.out = @ + calls[Writer].size]
     ELSE ov' = [ov EXCEPT !["w"] = Aborted(@)] /\ UNCHANGED net
  /\ UNCHANGED <<sockWorld, socks, calls>>

PeerSends ==
  /\ net.peer = "up" /\ net.sent < SockBytes
  /\ net' = [net EXCEPT !.sent = @ + 1, !.inbox = Append(@, net.sent + 1)]
  /\ UNCHANGED <<sockWorld, socks, calls, ov>>
PeerEnds ==
  /\ net.peer = "up"
  /\ \E how \in {"over"} \cup (IF sockWorld.fails THEN {"reset"} ELSE {}) :
       net' = [net EXCEPT !.peer = how, !.inbox = IF how = "reset" THEN << >> ELSE @]
  /\ UNCHANGED <<sockWorld, socks, calls, ov>>

-----------------------------------------------------------------------------
SockUsers ==
  \/ CallOwner
  \/ \E t \in Readers, op \in {"Recv", "RecvAny"}, n \in SockSizes : CallTransfer(t, op, n)
  \/ /\ Writer \in sockWorld.users /\ net.out < SockBytes
     /\ \E n \in SockSizes : CallTransfer(Writer, "Send", n)
OwnerSteps == Create \/ Connect_s \/ Bind_s \/ Listen_s \/ Accept_s \/ OwnerGoesOn
TransferSteps(t) ==
  \/ SeesTurn(t) \/ TakesTurn(t) \/ TransferEnds(t) \/ RecvBlocking(t) \/ RecvOverlapped(t)
  \/ Awakes(t) \/ WaitEnds(t) \/ SockCloses(t) \/ SockResets(t)
SockSteps ==
  \/ OwnerSteps \/ SockCloses(Owner) \/ SockResets(Owner)
  \/ (\E t \in sockWorld.users : TransferSteps(t)) \/ SendBlocking \/ SendOverlapped
SockSystem == RecvCompletes \/ SendCompletes
SockNext == SockUsers \/ SockSteps \/ SockSystem \/ PeerSends \/ PeerEnds
SockFairness ==
  /\ WF_sockVars(OwnerSteps) /\ WF_sockVars(SockCloses(Owner) \/ SockResets(Owner))
  /\ \A t \in {"r1", "r2", Writer} : WF_sockVars(t \in SockThreads /\ TransferSteps(t))
  /\ WF_sockVars(SendBlocking \/ SendOverlapped)
  /\ WF_sockVars(SockSystem)
=============================================================================
