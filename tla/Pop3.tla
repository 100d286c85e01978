-------------------------------- MODULE Pop3 --------------------------------
(***************************************************************************)
(* c_pop3 (IP/c_pop3.cpp): the client of a mailbox.  A reply is all that    *)
(* was received up to the place where, after the first "+OK", the string    *)
(* that is waited for stands; a refusal has neither, so it is waited out.   *)
(* What is received is taken as a sequence of marks: "+OK", the rest of its *)
(* line, the lines of a mail, the line with the dot, "-ERR".                *)
(***************************************************************************)
EXTENDS Integers, Sequences, SequencesExt

CONSTANTS
  PopWorlds,   \* the uses: [calls, late, refuses, hangs]
  PopCalls,    \* bound on the calls
  PopLines,    \* the lines of the mails: Mails' numbers are those of its domain
  PopRoom      \* how many marks the user's buffer takes
ASSUME PopAssumption == PopLines \in Seq(Nat) /\ PopRoom \in Nat /\ PopCalls \in Nat

VARIABLES
  popWorld,    \* calls: those the user makes; late: an answer may come after the timeout;
               \* refuses: a command may be refused; hangs: the connection may break
  pop,         \* the client: where it is in which call, what it has received, LastErrorPOP3,
               \* MessagesOnServer, what the last call gave
  box          \* the connection and the server
popVars == <<popWorld, pop, box>>

OK == <<"+OK", 0>>
ERR == <<"-ERR", 0>>
Dot == <<".", 0>>
Rest(n) == <<"rest", n>>           \* of the line of "+OK", with the number n in it
PopMails == DOMAIN PopLines
MailLines(m) == [i \in 1 .. PopLines[m] |-> <<"line", 10 * m + i>>]

PopInitIn(worlds) ==
  /\ popWorld \in worlds
  /\ pop = [pc |-> "idle", op |-> "none", m |-> 0, script |-> << >>, buf |-> << >>,
            sock |-> FALSE, error |-> "none", onServer |-> 0, res |-> FALSE, got |-> << >>,
            fresh |-> TRUE, left |-> PopCalls]
  /\ box = [up |-> FALSE, wire |-> << >>, out |-> << >>, inbox |-> << >>, deleted |-> {},
            own |-> FALSE]
PopInit == PopInitIn(PopWorlds)

-----------------------------------------------------------------------------
\* What is sent, what is waited for, and the room there is for it.

BigEnough == 100
PopAsk(c, m, response, room) == << [say |-> <<c, m>>, want |-> response, room |-> room] >>
Greeting == << [say |-> << >>, want |-> OK, room |-> BigEnough] >>
POP3Login == PopAsk("USER", 0, OK, BigEnough) \o PopAsk("PASS", 0, OK, BigEnough)
PopScript(op, m) ==
  CASE op = "ConnectClient" -> Greeting
    [] op = "ConnectEClient" -> Greeting \o POP3Login
    [] op = "POP3Login" -> POP3Login
    [] op = "POP3Logout" -> PopAsk("QUIT", 0, OK, BigEnough)
    [] op = "POP3RSet" -> PopAsk("RSET", 0, OK, BigEnough)
    [] op = "POP3Delete" -> PopAsk("DELE", m, OK, BigEnough)
    [] op = "POP3List" -> PopAsk("LIST", 0, Dot, PopRoom)
    [] op = "POP3Top" -> PopAsk("TOP", m, Dot, PopRoom)
    [] op = "POP3Retr" -> PopAsk("RETR", m, Dot, PopRoom)

PopAt(pc) == pop.pc = pc
PopError(e) == IF pop.error = "none" THEN e ELSE pop.error
PopDone(c, res) ==
  pop' = [c EXCEPT !.pc = "idle", !.script = << >>, !.buf = << >>, !.res = res,
                   !.sock = @ /\ pop.op # "POP3Logout"]
PopFails(e) == PopDone([pop EXCEPT !.error = PopError(e), !.got = << >>], FALSE)

\* No answer of an earlier command is still to come: at most the rest of a line.
Fresh ==
  /\ box.wire = << >>
  /\ \A mark \in Range(box.inbox \o box.out) : mark[1] # "+OK" /\ mark[1] # "-ERR"

PopConnect(op) ==
  /\ PopAt("idle") /\ pop.left > 0 /\ op \in popWorld.calls
  /\ LET c == [pop EXCEPT !.op = op, !.error = "none", !.onServer = 0,
                          !.left = @ - 1, !.fresh = TRUE]
     IN  \/ /\ pop' = [c EXCEPT !.pc = "say", !.script = PopScript(op, 0),
                                !.sock = TRUE]
            /\ box' = [box EXCEPT !.up = TRUE, !.wire = << >>, !.out = <<OK, Rest(0)>>,
                                  !.inbox = << >>, !.deleted = {}]
         \/ /\ popWorld.hangs
            /\ pop' = [c EXCEPT !.sock = FALSE, !.res = FALSE, !.error = "CONN"]
            /\ box' = [box EXCEPT !.up = FALSE, !.wire = << >>, !.out = << >>]
  /\ UNCHANGED popWorld

CallPop(op, m) ==
  /\ PopAt("idle") /\ pop.left > 0 /\ op \in popWorld.calls
  /\ pop' = [pop EXCEPT !.pc = "say", !.op = op, !.m = m, !.script = PopScript(op, m),
                        !.onServer = IF op = "POP3Login" THEN 0 ELSE @,
                        !.left = @ - 1, !.fresh = Fresh]
  /\ UNCHANGED <<popWorld, box>>

PopSay ==
  /\ PopAt("say")
  /\ LET c == Head(pop.script).say
     IN  IF c = << >> \/ (pop.sock /\ box.up)
         THEN /\ box' = IF c = << >> THEN box ELSE [box EXCEPT !.wire = Append(@, c)]
              /\ pop' = [pop EXCEPT !.pc = "hear"]
         ELSE PopDone([pop EXCEPT !.sock = FALSE], FALSE) /\ UNCHANGED box
  /\ UNCHANGED popWorld

-----------------------------------------------------------------------------
\* RecvResponse.

At(s, mark) == {i \in DOMAIN s : s[i] = mark}
From(s, i) == SubSeq(s, i, Len(s))

\* Mutant of AfterOK: the string is looked for in all that was received.
AfterOKAnywhere(buf) == buf
\* GetStrPos: what stands from the first "+OK" on.
AfterOK(buf) == IF At(buf, OK) = {} THEN << >> ELSE From(buf, Min(At(buf, OK)))

\* The end of the reply, when it has come.
Ended(buf) == At(AfterOK(buf), Head(pop.script).want)

\* POP3Login: the first number in the reply; POP3Retr: what stands between "+OK" and the
\* line with the dot.
NumberIn(buf) ==
  LET n == {i \in DOMAIN buf : buf[i][1] = "rest"} IN IF n = {} THEN 0 ELSE buf[Min(n)][2]
PopRetrieved(buf) == SubSeq(AfterOK(buf), 1, Min(At(AfterOK(buf), Dot)) - 1)
Succeeds(buf) ==
  PopDone([pop EXCEPT !.onServer = IF pop.op \in {"POP3Login", "ConnectEClient"} THEN NumberIn(buf) ELSE @,
                      !.got = IF Head(pop.script).want = Dot THEN PopRetrieved(buf) ELSE << >>],
          TRUE)

\* RecvAny takes what has arrived, as far as there is room.
PopHears ==
  /\ PopAt("hear") /\ box.inbox # << >>
  /\ LET n == Min({Head(pop.script).room - Len(pop.buf), Len(box.inbox)})
         buf == pop.buf \o SubSeq(box.inbox, 1, n)
     IN  /\ box' = [box EXCEPT !.inbox = From(@, n + 1)]
         /\ IF Ended(buf) # {}
            THEN IF Len(pop.script) = 1 THEN Succeeds(buf)
                 ELSE pop' = [pop EXCEPT !.pc = "say", !.script = Tail(@), !.buf = << >>]
            ELSE IF Len(buf) = Head(pop.script).room THEN PopFails("BUFOVER")
            ELSE pop' = [pop EXCEPT !.buf = buf]
  /\ UNCHANGED popWorld

PopTimesOut ==
  /\ PopAt("hear") /\ box.inbox = << >> /\ box.up
  /\ popWorld.late \/ (box.wire = << >> /\ box.out = << >>)
  /\ PopFails("REQ_TIMEOUT")
  /\ UNCHANGED <<popWorld, box>>

PopHearsEnd ==
  /\ PopAt("hear") /\ box.inbox = << >> /\ ~box.up
  /\ \/ PopFails("DISCONNECTED")
     \/ PopDone([pop EXCEPT !.sock = FALSE, !.error = PopError("RECEIVE"), !.got = << >>], FALSE)
  /\ UNCHANGED <<popWorld, box>>

-----------------------------------------------------------------------------
\* The server: RFC 1939.

PopReply(c, m) ==
  CASE c \in {"RETR", "TOP"} -> <<OK, Rest(m)>> \o MailLines(m) \o <<Dot>>
    [] c = "LIST" -> <<OK, Rest(0)>> \o [i \in 1 .. Len(PopLines) |-> <<"size", i>>] \o <<Dot>>
    [] c = "PASS" -> <<OK, Rest(Len(PopLines))>>
    [] OTHER -> <<OK, Rest(0)>>

\* own: whether the last command was done.
BoxTakes ==
  /\ box.up /\ box.wire # << >> /\ box.out = << >>
  /\ LET c == Head(box.wire)[1]
         m == Head(box.wire)[2]
         gone == m \in box.deleted
     IN  \/ /\ ~gone
            /\ box' = [box EXCEPT !.wire = Tail(@), !.out = PopReply(c, m), !.own = TRUE,
                         !.deleted = IF c = "DELE" THEN @ \cup {m}
                                     ELSE IF c = "RSET" THEN {} ELSE @]
         \/ /\ gone \/ popWorld.refuses
            /\ box' = [box EXCEPT !.wire = Tail(@), !.out = <<ERR>>, !.own = FALSE]
  /\ UNCHANGED <<popWorld, pop>>

\* The network delivers it in pieces of any size, here mark by mark or all at once.
BoxSays ==
  /\ box.up /\ box.out # << >>
  /\ \E n \in {1, Len(box.out)} :
       box' = [box EXCEPT !.inbox = @ \o SubSeq(box.out, 1, n), !.out = From(@, n + 1)]
  /\ UNCHANGED <<popWorld, pop>>

BoxHangsUp ==
  /\ box.up /\ (popWorld.hangs \/ ~pop.sock)
  /\ box' = [box EXCEPT !.up = FALSE, !.wire = << >>, !.out = << >>]
  /\ UNCHANGED <<popWorld, pop>>

-----------------------------------------------------------------------------
PopConnects == \E op \in {"ConnectClient", "ConnectEClient"} : PopConnect(op)
PopCommands ==
  \/ \E op \in {"POP3Login", "POP3Logout", "POP3RSet", "POP3List"} : CallPop(op, 0)
  \/ \E op \in {"POP3Retr", "POP3Top", "POP3Delete"}, m \in PopMails : CallPop(op, m)
PopClient == PopSay \/ PopHears \/ PopTimesOut \/ PopHearsEnd
PopServer == BoxTakes \/ BoxSays
PopNext == PopConnects \/ PopCommands \/ PopClient \/ PopServer \/ BoxHangsUp
PopFairness == WF_popVars(PopClient) /\ WF_popVars(PopServer)

-----------------------------------------------------------------------------
\* The reader of POP3List: the number of mails, their sizes and the sum of these, out of the
\* answer to LIST.  It goes through the characters once, in one of five states.

\* The characters it tells apart: the digits 0..9, and these.
O == 10
K == 11
Space == 12
CR == 13
LF == 14
Other == 15
IsDigit(c) == c <= 9

NewReading(n) ==
  [state |-> "OK", skip |-> 0, number |-> 0, index |-> 0, count |-> -1, total |-> 0,
   sizes |-> << >> \o [i \in 1 .. n |-> -1]]
\* memcmp with two characters, not at the very end.
Stands(reply, i, c, d) == i + 1 < Len(reply) /\ reply[i] = c /\ reply[i + 1] = d
\* The digits are gathered, and read by atoi when something else comes.
Gather(r, c) == [r EXCEPT !.number = 10 * @ + c]
\* The size of a mail of which the array has no place is only added.
Sized(r) ==
  [r EXCEPT !.total = @ + r.number, !.number = 0, !.state = "index", !.skip = 1,
            !.sizes = IF r.index \in DOMAIN @ THEN [@ EXCEPT ![r.index] = r.number] ELSE @]

\* Mutant of AtLineEnd: the line feed is left to be read.
AtLineEndOnly(r) == [r EXCEPT !.number = 0, !.state = "index"]
AtLineEnd(r) == [r EXCEPT !.number = 0, !.state = "index", !.skip = 1]
\* After "OK" three characters are passed over: the space, and the first digit of the number.
ReadOne(reply, r, i, c) ==
  CASE r.skip > 0 -> [r EXCEPT !.skip = @ - 1]
    [] r.state = "OK" ->
         IF Stands(reply, i, O, K) THEN [r EXCEPT !.state = "count", !.skip = 3] ELSE r
    [] r.state = "count" ->
         IF IsDigit(c) THEN Gather(r, c)
         ELSE IF c = Space THEN r ELSE [r EXCEPT !.count = r.number, !.state = "line"]
    [] r.state = "line" -> IF Stands(reply, i, CR, LF) THEN AtLineEnd(r) ELSE r
    [] r.state = "index" ->
         IF IsDigit(c) THEN Gather(r, c)
         ELSE IF c = Space THEN [r EXCEPT !.index = r.number, !.number = 0, !.state = "size"]
         ELSE [r EXCEPT !.state = "end"]
    [] r.state = "size" ->
         IF IsDigit(c) THEN Gather(r, c)
         ELSE IF Stands(reply, i, CR, LF) THEN Sized(r) ELSE r
    [] OTHER -> r
POP3List(reply, n) ==
  FoldLeft(LAMBDA r, i : ReadOne(reply, r, i, reply[i]), NewReading(n),
           [i \in 1 .. Len(reply) |-> i])
=============================================================================
