-------------------------- MODULE FtpClientProofs --------------------------
(***************************************************************************)
(* Proofs about c_ftp_client: PORT names a port the client listens on, what *)
(* RecvResponse takes for the answer to a command answers it, and transfers *)
(* that report success are whole.                                           *)
(***************************************************************************)
EXTENDS FtpClientProperties, TLAPS, WellFoundedInduction, SequenceTheorems

\* Users who call FTPActiveSet before every active transfer, or give a connection up after
\* its first transfer.
Rearming(w) == w.rearms \/ (w.renews /\ ~w.checks)
Rearmed == \A w \in Worlds : Rearming(w)
\* Answers come in time, or the user closes the connection after a timeout; and transfers
\* run to their end, and no reply has the code of another in its text, or a connection is
\* given up after its first transfer.
Careful(w) ==
  /\ w.patient \/ w.checks
  /\ w.completes \/ (w.renews /\ ~w.checks)
  /\ w.plain \/ ~w.completes

Commands == DOMAIN Expected
Transfers == {"download", "upload"}
Steps == {"send", "recv", "close", "connect", "listen", "accept", "read", "write", "dial"}
AgendaSteps == Steps \X (Commands \cup {""})
Agendas == Seq(AgendaSteps)

\* The step after one that sends a command or connects.
Awaits(x, y) == y[1] = "recv" /\ y[2] = IF x[1] = "dial" THEN "CONNECT" ELSE x[2]

\* The steps of a call, told by which may follow which.  PORT follows the step that begins
\* to listen if the users call FTPActiveSet as often as they should.
StepFits(a, i, op) ==
  /\ a[i][1] \in {"send", "recv"} => a[i][2] \in Commands
  /\ a[i][1] = "dial" => i = 1
  /\ a[i][1] \in {"send", "dial"} => i < Len(a) /\ Awaits(a[i], a[i + 1])
  /\ a[i][1] = "recv" /\ i > 1 => a[i - 1][1] \in {"send", "dial"}
  /\ a[i] \in {<<"send", "PORT">>, <<"send", "RETR">>, <<"send", "STOR">>} => op \in Transfers
  /\ a[i] \in {<<"send", "RETR">>, <<"send", "STOR">>} =>
       \A j \in DOMAIN a : j > i => a[j][1] # "send"
  /\ Rearmed /\ a[i] = <<"send", "PORT">> /\ i > 1 => a[i - 1] = <<"listen", "PORT">>
  /\ a[i][1] = "listen" => op \in Transfers /\ a[i][2] = "PORT"
WellFormed(a, op) == a \in Agendas /\ \A i \in DOMAIN a : StepFits(a, i, op)

\* A port is told to the server while the client listens on it.
PortInv ==
  /\ world \in Worlds /\ WellFormed(agenda, call.op)
  /\ At("send") /\ Command = "PORT" => bind_sock = [as |-> "listening", port |-> port_buf]
  /\ ~world.rearms /\ DataPortListening => At("dial") \/ call.op \in Transfers

\* A timeout after which nothing but CheckError is called.
GivenUp ==
  /\ world.checks /\ failed /\ cntrl_error
  /\ \A i \in DOMAIN agenda : agenda[i][1] = "close"

Doings == IF task = NoTask THEN 0 ELSE 1
Ahead == \E i \in DOMAIN agenda : agenda[i][1] = "send"
Requested == \E i \in DOMAIN requests : requests[i].cmd \in {"RETR", "STOR"}

\* P holds the values that no decision depends on: ports, files, phases and blocks.
Requests(P) == [cmd : Commands, fresh : BOOLEAN, port : P, file : P]
Replies(P) == [code : Nat, fresh : BOOLEAN, port : P]
Tasks(P) == [kind : {"RETR", "STOR"}, file : P, port : P, fresh : BOOLEAN,
             phase : P, blocks : P]
Typed(P) ==
  /\ requests \in Seq(Requests(P)) /\ task \in Tasks(P) \cup {NoTask}
  /\ replies \in Seq(Replies(P)) /\ reply_buf \in Seq(Replies(P))

\* No reply of an earlier command is there but the 226 that ends a transfer.
StaleIs226(s) == \A i \in DOMAIN s : ~s[i].fresh => s[i].code = 226

\* What RecvResponse still waits for: nothing decides before the answer, and behind the
\* answer only the end of its transfer comes.
Undecided == reply_buf # << >> => Judge(reply_buf, Expected[Command], 0) = "more"
Unanswered ==
  requests # << >> =>
    /\ Len(replies) + Doings <= 1 /\ (task # NoTask => ~task.fresh)
    /\ \A j \in DOMAIN replies : replies[j].code = 226
Answered ==
  requests = << >> =>
    \A j \in DOMAIN replies : replies[j].code # 226 =>
      /\ Len(replies) - j + Doings <= 1
      /\ world.completes => \A k \in DOMAIN replies : k > j => replies[k].code = 226
Waiting ==
  /\ StaleIs226(reply_buf) /\ control # "closed" /\ Undecided
  /\ control = "open" => Unanswered /\ Answered

\* Between commands.
Idle ==
  control = "open" =>
    /\ requests = << >> /\ Len(replies) + Doings <= 1
    /\ world.completes => \A j \in DOMAIN replies : replies[j].code = 226

\* Where a server may break off a transfer, each connection has one, after which no command
\* is sent.
OneTransfer ==
  ~world.completes =>
    /\ task # NoTask => task.fresh
    /\ ~At("dial") /\ (Ahead \/ call.op \notin Transfers) =>
         /\ task = NoTask /\ ~Requested
         /\ Len(requests) + Len(replies) <= IF At("recv") THEN 1 ELSE 0

Ended ==
  /\ control = "closed" => requests = << >> /\ replies = << >> /\ task = NoTask
  /\ control = "hungup" => requests = << >> /\ task = NoTask

InOrder ==
  /\ \A i \in DOMAIN requests : requests[i].fresh
  /\ StaleIs226(replies)
  /\ IF At("recv") THEN Waiting ELSE Idle
  /\ OneTransfer

MatchInv ==
  /\ world \in Worlds /\ control \in {"closed", "open", "hungup"}
  /\ heard /\ WellFormed(agenda, call.op)
  /\ \E P : Typed(P)
  /\ Len(requests) <= 1 /\ Ended /\ (GivenUp \/ InOrder)

\* A reply that RecvResponse need not look behind, when it awaits the answer to c.
Decides(r, c) ==
  r.code >= 400 \/ r.code \in {110, 120, 125, 202, 225, 332} \/ r.code = Expected[c]

\* Where the text of a reply may hold any code, the first reply to come decides, so that no
\* text is searched.
TextInv ==
  ~world.plain /\ At("recv") =>
    /\ reply_buf = << >>
    /\ \A i \in DOMAIN requests : requests[i].cmd = Command
    /\ requests # << >> => replies = << >>
    /\ replies = << >> => task = NoTask
    /\ replies # << >> => Decides(replies[1], Command)

------------------------------------------------------------------------------
\* The agenda.

\* Sequences, their heads and their tails.
LEMMA SeqParts ==
  ASSUME NEW S, NEW s \in Seq(S)
  PROVE  /\ Len(s) \in Nat /\ DOMAIN s = 1 .. Len(s)
         /\ s # << >> => /\ 1 \in DOMAIN s /\ Head(s) = s[1]
                         /\ Tail(s) \in Seq(S) /\ Len(Tail(s)) = Len(s) - 1
                         /\ DOMAIN Tail(s) = 1 .. Len(s) - 1
                         /\ \A i \in DOMAIN Tail(s) : i + 1 \in DOMAIN s /\ Tail(s)[i] = s[i + 1]
OBVIOUS

\* Steps and short sequences.
LEMMA StepParts == \A x, y : << x, y >>[1] = x /\ << x, y >>[2] = y
OBVIOUS
\* A pair is what its parts are.
LEMMA PairValue == ASSUME NEW S, NEW T, NEW x \in S \X T PROVE x = << x[1], x[2] >>
OBVIOUS
\* So is a step.
LEMMA StepValue ==
  ASSUME NEW x \in AgendaSteps
  PROVE  x = << x[1], x[2] >>
BY PairValue DEF AgendaSteps
\* A sequence of one.
LEMMA OneStep ==
  ASSUME NEW S, NEW x \in S
  PROVE  /\ << x >> \in Seq(S) /\ Len(<< x >>) = 1 /\ DOMAIN << x >> = {1} /\ << x >>[1] = x
         /\ << x >> # << >>
OBVIOUS
\* A sequence of two.
LEMMA TwoSteps ==
  ASSUME NEW S, NEW x \in S, NEW y \in S
  PROVE  /\ << x, y >> \in Seq(S) /\ Len(<< x, y >>) = 2 /\ DOMAIN << x, y >> = {1, 2}
         /\ << x, y >>[1] = x /\ << x, y >>[2] = y
OBVIOUS

\* What is left of a call is told by the same rules.
LEMMA WellTail ==
  ASSUME NEW a, NEW op, WellFormed(a, op), a # << >>
  PROVE  WellFormed(Tail(a), op)
<1>1. /\ a \in Agendas /\ Len(a) \in Nat /\ DOMAIN a = 1 .. Len(a)
      /\ Tail(a) \in Agendas /\ Len(Tail(a)) = Len(a) - 1 /\ DOMAIN Tail(a) = 1 .. Len(a) - 1
      /\ \A i \in DOMAIN Tail(a) : i + 1 \in DOMAIN a /\ Tail(a)[i] = a[i + 1]
  BY SeqParts DEF WellFormed, StepFits, Agendas
<1> DEFINE t == Tail(a)
<1> HIDE DEF t
<1>2. /\ t \in Agendas /\ Len(t) = Len(a) - 1 /\ DOMAIN t = 1 .. Len(a) - 1
      /\ \A i \in DOMAIN t : i + 1 \in DOMAIN a /\ t[i] = a[i + 1]
  BY <1>1 DEF t
<1>3. SUFFICES ASSUME NEW i \in DOMAIN t
      PROVE  StepFits(t, i, op)
  BY <1>2 DEF WellFormed, t
<1>4. /\ i + 1 \in DOMAIN a /\ t[i] = a[i + 1] /\ i + 1 > 1 /\ i \in Nat
      /\ i > 1 => i - 1 \in DOMAIN t /\ t[i - 1] = a[i]
      /\ i < Len(t) => i + 1 \in DOMAIN t /\ t[i + 1] = a[i + 2]
  BY <1>1, <1>2
<1>5. /\ t[i][1] \in {"send", "recv"} => t[i][2] \in Commands
      /\ t[i][1] # "dial"
      /\ t[i] \in {<<"send", "PORT">>, <<"send", "RETR">>, <<"send", "STOR">>} =>
           op \in Transfers
      /\ t[i][1] = "listen" => op \in Transfers /\ t[i][2] = "PORT"
  BY <1>4 DEF WellFormed, StepFits
<1>6. t[i][1] \in {"send", "dial"} => i < Len(t) /\ Awaits(t[i], t[i + 1])
  <2>1. a[i + 1][1] \in {"send", "dial"} => i + 1 < Len(a) /\ Awaits(a[i + 1], a[(i + 1) + 1])
    BY <1>4 DEF WellFormed, StepFits
  <2> QED BY <1>1, <1>2, <1>4, <2>1
<1>7. /\ t[i][1] = "recv" /\ i > 1 => t[i - 1][1] \in {"send", "dial"}
      /\ Rearmed /\ t[i] = <<"send", "PORT">> /\ i > 1 => t[i - 1] = <<"listen", "PORT">>
  <2>1. /\ a[i + 1][1] = "recv" => a[(i + 1) - 1][1] \in {"send", "dial"}
        /\ Rearmed /\ a[i + 1] = <<"send", "PORT">> => a[(i + 1) - 1] = <<"listen", "PORT">>
    BY <1>4 DEF WellFormed, StepFits
  <2> QED BY <1>4, <2>1
<1>8. ASSUME t[i] \in {<<"send", "RETR">>, <<"send", "STOR">>}, NEW j \in DOMAIN t, j > i
      PROVE  t[j][1] # "send"
  <2>1. j + 1 \in DOMAIN a /\ j + 1 > i + 1 /\ t[j] = a[j + 1]
    BY <1>2, <1>4, <1>8
  <2> QED BY <1>4, <1>8, <2>1 DEF WellFormed, StepFits
<1> QED BY <1>5, <1>6, <1>7, <1>8 DEF StepFits

\* A failed call has at most CloseDataPort left.
LEMMA WellClosed ==
  ASSUME NEW op
  PROVE  /\ WellFormed(<< >>, op)
         /\ WellFormed(CloseDataPort, op)
         /\ Len(CloseDataPort) = 1 /\ DOMAIN CloseDataPort = {1}
         /\ CloseDataPort[1][1] = "close" /\ CloseDataPort # << >>
<1>1. << >> \in Agendas /\ DOMAIN << >> = {}
  BY DEF Agendas
<1>2. WellFormed(<< >>, op)
  BY <1>1 DEF WellFormed, StepFits
<1>3. <<"close", "">> \in AgendaSteps
  BY DEF AgendaSteps, Steps
<1>4. /\ CloseDataPort \in Agendas /\ Len(CloseDataPort) = 1 /\ DOMAIN CloseDataPort = {1}
      /\ CloseDataPort[1] = <<"close", "">> /\ CloseDataPort # << >>
  BY <1>3, OneStep, Zenon DEF CloseDataPort, Agendas
<1>5. CloseDataPort[1][1] = "close"
  BY <1>4, StepParts, Zenon
<1> DEFINE c == CloseDataPort
<1> HIDE DEF c
<1>6. c \in Agendas /\ DOMAIN c = {1} /\ c[1][1] = "close"
  BY <1>4, <1>5 DEF c
<1>7. c[1] # <<"send", "PORT">> /\ c[1] # <<"send", "RETR">> /\ c[1] # <<"send", "STOR">>
  BY <1>6, StepParts
<1>8. WellFormed(c, op)
  BY <1>6, <1>7 DEF WellFormed, StepFits
<1> QED BY <1>2, <1>4, <1>5, <1>8 DEF c

\* A command that is sent, and its answer.
LEMMA WellCommand ==
  ASSUME NEW op, NEW c \in Commands, c \in {"PORT", "RETR", "STOR"} => op \in Transfers
  PROVE  /\ WellFormed(SendCommand(c), op)
         /\ Len(SendCommand(c)) = 2 /\ DOMAIN SendCommand(c) = {1, 2}
         /\ SendCommand(c)[1] = <<"send", c>> /\ SendCommand(c)[2] = <<"recv", c>>
<1>1. <<"send", c>> \in AgendaSteps /\ <<"recv", c>> \in AgendaSteps
  BY DEF AgendaSteps, Steps
<1>2. /\ SendCommand(c) \in Agendas /\ Len(SendCommand(c)) = 2 /\ DOMAIN SendCommand(c) = {1, 2}
      /\ SendCommand(c)[1] = <<"send", c>> /\ SendCommand(c)[2] = <<"recv", c>>
  <2>1. PICK x, y : x = <<"send", c>> /\ y = <<"recv", c>>
    OBVIOUS
  <2>2. SendCommand(c) = << x, y >>
    BY <2>1, Zenon DEF SendCommand
  <2>3. x \in AgendaSteps /\ y \in AgendaSteps
    BY <1>1, <2>1
  <2>4. << x, y >> \in Agendas /\ Len(<< x, y >>) = 2 /\ DOMAIN << x, y >> = {1, 2}
        /\ << x, y >>[1] = x /\ << x, y >>[2] = y
    BY <2>3, TwoSteps DEF Agendas
  <2> QED BY <2>1, <2>2, <2>4
<1> DEFINE s == SendCommand(c)
<1> HIDE DEF s
<1>3. /\ s[1][1] = "send" /\ s[1][2] = c /\ s[2][1] = "recv" /\ s[2][2] = c
  <2>1. s[1] = <<"send", c>> /\ s[2] = <<"recv", c>>
    BY <1>2 DEF s
  <2>2. /\ <<"send", c>>[1] = "send" /\ <<"send", c>>[2] = c
        /\ <<"recv", c>>[1] = "recv" /\ <<"recv", c>>[2] = c
    BY StepParts
  <2> QED BY <2>1, <2>2, Zenon
<1>4. WellFormed(s, op)
  BY <1>2, <1>3 DEF WellFormed, StepFits, Awaits, s
<1> QED BY <1>2, <1>4 DEF s

\* Parts of a call: what they begin with, and that they ask for no file.
Begins(a) == a # << >> /\ a[1][1] \notin {"recv", "dial"}
Tells(a) == a[1] = <<"send", "PORT">>
Listens(a) == a[Len(a)] = <<"listen", "PORT">>
AsksNothing(a) == \A i \in DOMAIN a : a[i] \notin {<<"send", "RETR">>, <<"send", "STOR">>}
NoDial(a) == \A i \in DOMAIN a : a[i][1] # "dial"
NoSend(a) == \A i \in DOMAIN a : a[i][1] # "send"

\* What one part of a call must be to come after another, and what they are together.
Follows(b, a) ==
  /\ b # << >> /\ b[1][1] # "recv"
  /\ Rearmed /\ b[1] = <<"send", "PORT">> => a # << >> /\ a[Len(a)] = <<"listen", "PORT">>
Chained(a, b, c) ==
  /\ Len(c) = Len(a) + Len(b) /\ DOMAIN c = 1 .. Len(a) + Len(b)
  /\ \A i \in DOMAIN a : c[i] = a[i]
  /\ \A i \in DOMAIN b : c[Len(a) + i] = b[i]

\* One part of a call after another.
LEMMA WellJoin ==
  ASSUME NEW op, NEW a, NEW b, WellFormed(a, op), WellFormed(b, op), Follows(b, a), NoDial(b),
         AsksNothing(a) \/ NoSend(b)
  PROVE  WellFormed(a \o b, op) /\ Chained(a, b, a \o b)
<1> DEFINE c == a \o b
           n == Len(a)
<1>1. /\ a \in Agendas /\ n \in Nat /\ DOMAIN a = 1 .. n
      /\ b \in Agendas /\ Len(b) \in Nat /\ DOMAIN b = 1 .. Len(b)
  BY SeqParts DEF WellFormed, StepFits, Agendas
<1>2. /\ c \in Agendas /\ Len(c) = n + Len(b) /\ DOMAIN c = 1 .. n + Len(b)
      /\ \A i \in DOMAIN a : c[i] = a[i]
      /\ \A i \in DOMAIN b : c[n + i] = b[i]
  BY <1>1 DEF Agendas
<1> HIDE DEF c, n
<1>3. \A i \in DOMAIN c : i \in DOMAIN a \/ \E j \in DOMAIN b : i = n + j
  <2> TAKE i \in DOMAIN c
  <2>1. i \in 1 .. n \/ i - n \in 1 .. Len(b)
    BY <1>1, <1>2
  <2>2. CASE i - n \in 1 .. Len(b)
    <3>1. i - n \in DOMAIN b /\ i = n + (i - n)
      BY <1>1, <1>2, <2>2
    <3> QED BY <3>1
  <2> QED BY <1>1, <2>1, <2>2
<1>4. b[1] \in AgendaSteps /\ 1 \in DOMAIN b
  <2>1. Len(b) # 0
    BY <1>1 DEF Agendas, Follows
  <2> QED BY <1>1, <2>1 DEF Agendas
<1>5. ASSUME NEW i \in DOMAIN a
      PROVE  StepFits(c, i, op)
  <2>1. /\ c[i] = a[i] /\ i \in Nat
        /\ i > 1 => c[i - 1] = a[i - 1]
        /\ i < n => c[i + 1] = a[i + 1]
    BY <1>1, <1>2
  <2>2. /\ c[i][1] \in {"send", "recv"} => c[i][2] \in Commands
        /\ c[i][1] = "dial" => i = 1
        /\ c[i] \in {<<"send", "PORT">>, <<"send", "RETR">>, <<"send", "STOR">>} =>
             op \in Transfers
        /\ c[i][1] = "listen" => op \in Transfers /\ c[i][2] = "PORT"
    BY <2>1 DEF WellFormed, StepFits
  <2>3. c[i][1] \in {"send", "dial"} => i < Len(c) /\ Awaits(c[i], c[i + 1])
    <3>1. a[i][1] \in {"send", "dial"} => i < n /\ Awaits(a[i], a[i + 1])
      BY DEF WellFormed, StepFits, n
    <3> QED BY <1>1, <1>2, <2>1, <3>1
  <2>4. c[i][1] = "recv" /\ i > 1 => c[i - 1][1] \in {"send", "dial"}
    <3>1. a[i][1] = "recv" /\ i > 1 => a[i - 1][1] \in {"send", "dial"}
      BY DEF WellFormed, StepFits
    <3> QED BY <2>1, <3>1
  <2>5. Rearmed /\ c[i] = <<"send", "PORT">> /\ i > 1 => c[i - 1] = <<"listen", "PORT">>
    <3>1. Rearmed /\ a[i] = <<"send", "PORT">> /\ i > 1 => a[i - 1] = <<"listen", "PORT">>
      BY DEF WellFormed, StepFits
    <3> QED BY <2>1, <3>1
  <2>6. ASSUME c[i] \in {<<"send", "RETR">>, <<"send", "STOR">>}, NEW j \in DOMAIN c, j > i
        PROVE  c[j][1] # "send"
    <3>1. CASE j \in DOMAIN a
      <4>1. a[i] \in {<<"send", "RETR">>, <<"send", "STOR">>} /\ c[j] = a[j]
        BY <1>2, <2>1, <2>6, <3>1
      <4>2. a[j][1] # "send"
        BY <2>6, <3>1, <4>1 DEF WellFormed, StepFits
      <4> QED BY <4>1, <4>2
    <3>2. ASSUME NEW k \in DOMAIN b, j = n + k
          PROVE  c[j][1] # "send"
      <4>1. a[i] \in {<<"send", "RETR">>, <<"send", "STOR">>} /\ c[j] = b[k]
        BY <1>2, <2>1, <2>6, <3>2
      <4>2. b[k][1] # "send"
        BY <4>1 DEF AsksNothing, NoSend
      <4> QED BY <4>1, <4>2
    <3> QED BY <1>3, <3>1, <3>2
  <2> QED BY <2>2, <2>3, <2>4, <2>5, <2>6 DEF StepFits
<1>6. ASSUME NEW k \in DOMAIN b, NEW i, i = n + k
      PROVE  StepFits(c, i, op)
  <2>1. /\ c[i] = b[k] /\ k \in Nat /\ k >= 1 /\ i \in Nat
        /\ k > 1 => k - 1 \in DOMAIN b /\ c[i - 1] = b[k - 1]
        /\ k < Len(b) => k + 1 \in DOMAIN b /\ c[i + 1] = b[k + 1]
    <3>1. k > 1 => k - 1 \in DOMAIN b /\ i - 1 = n + (k - 1)
      BY <1>1, <1>6
    <3>2. k < Len(b) => k + 1 \in DOMAIN b /\ i + 1 = n + (k + 1)
      BY <1>1, <1>6
    <3>3. k \in Nat /\ k >= 1 /\ i \in Nat
      BY <1>1, <1>6
    <3>4. k > 1 => c[i - 1] = b[k - 1]
      BY <1>2, <3>1
    <3>5. k < Len(b) => c[i + 1] = b[k + 1]
      BY <1>2, <3>2
    <3> QED BY <1>2, <1>6, <3>1, <3>2, <3>3, <3>4, <3>5
  <2>2. /\ c[i][1] \in {"send", "recv"} => c[i][2] \in Commands
        /\ c[i][1] # "dial"
        /\ c[i] \in {<<"send", "PORT">>, <<"send", "RETR">>, <<"send", "STOR">>} =>
             op \in Transfers
        /\ c[i][1] = "listen" => op \in Transfers /\ c[i][2] = "PORT"
    BY <2>1 DEF WellFormed, StepFits, NoDial
  <2>3. c[i][1] \in {"send", "dial"} => i < Len(c) /\ Awaits(c[i], c[i + 1])
    <3>1. b[k][1] \in {"send", "dial"} => k < Len(b) /\ Awaits(b[k], b[k + 1])
      BY DEF WellFormed, StepFits
    <3>2. k < Len(b) => i < Len(c)
      BY <1>1, <1>2, <1>6, <2>1
    <3> QED BY <2>1, <3>1, <3>2
  <2>4. c[i][1] = "recv" /\ i > 1 => c[i - 1][1] \in {"send", "dial"}
    <3>1. b[k][1] = "recv" /\ k > 1 => b[k - 1][1] \in {"send", "dial"}
      BY DEF WellFormed, StepFits
    <3>2. k > 1 \/ k = 1
      BY <2>1
    <3> QED BY <2>1, <3>1, <3>2 DEF Follows
  <2>5. Rearmed /\ c[i] = <<"send", "PORT">> /\ i > 1 => c[i - 1] = <<"listen", "PORT">>
    <3>1. Rearmed /\ b[k] = <<"send", "PORT">> /\ k > 1 => b[k - 1] = <<"listen", "PORT">>
      BY DEF WellFormed, StepFits
    <3>2. CASE k = 1
      <4>1. Rearmed /\ b[1] = <<"send", "PORT">> =>
              n \in DOMAIN a /\ i - 1 = n /\ a[n] = <<"listen", "PORT">>
        <5>1. a # << >> => n # 0
          BY <1>1 DEF Agendas, n
        <5> QED BY <1>1, <1>6, <3>2, <5>1 DEF n, Follows
      <4> QED BY <1>2, <2>1, <3>2, <4>1
    <3>3. k > 1 \/ k = 1
      BY <2>1
    <3> QED BY <2>1, <3>1, <3>2, <3>3
  <2>6. ASSUME c[i] \in {<<"send", "RETR">>, <<"send", "STOR">>}, NEW j \in DOMAIN c, j > i
        PROVE  c[j][1] # "send"
    <3>1. j - n \in DOMAIN b /\ j - n > k /\ j = n + (j - n)
      BY <1>1, <1>2, <1>6, <2>6
    <3>2. b[j - n][1] # "send"
      BY <2>1, <2>6, <3>1 DEF WellFormed, StepFits
    <3>3. c[j] = b[j - n]
      BY <1>2, <3>1
    <3> QED BY <3>2, <3>3
  <2> QED BY <2>2, <2>3, <2>4, <2>5, <2>6 DEF StepFits
<1>7. WellFormed(c, op)
  BY <1>2, <1>3, <1>5, <1>6 DEF WellFormed
<1> QED BY <1>2, <1>7 DEF c, n, Chained

\* One step by itself.
LEMMA WellOne ==
  ASSUME NEW op, NEW k \in Steps \ {"send", "recv", "dial"}, NEW c \in Commands \cup {""},
         k = "listen" => op \in Transfers /\ c = "PORT"
  PROVE  /\ WellFormed(<< <<k, c>> >>, op) /\ Begins(<< <<k, c>> >>)
         /\ << <<k, c>> >>[1] = <<k, c>>
         /\ AsksNothing(<< <<k, c>> >>) /\ NoDial(<< <<k, c>> >>) /\ NoSend(<< <<k, c>> >>)
         /\ Len(<< <<k, c>> >>) = 1 /\ ~Tells(<< <<k, c>> >>)
<1>1. PICK x : x = <<k, c>>
  OBVIOUS
<1>2. x[1] = k /\ x[2] = c /\ x \in AgendaSteps
  BY <1>1 DEF AgendaSteps
<1>3. PICK a : a = << x >>
  OBVIOUS
<1>4. a \in Agendas /\ Len(a) = 1 /\ DOMAIN a = {1} /\ a[1] = x /\ a # << >>
  BY <1>2, <1>3, OneStep DEF Agendas
<1>5. a[1][1] = k /\ a[1][2] = c
  BY <1>2, <1>4
<1>6. a[1] # <<"send", "PORT">> /\ a[1] # <<"send", "RETR">> /\ a[1] # <<"send", "STOR">>
  <2>1. /\ <<"send", "PORT">>[1] = "send" /\ <<"send", "RETR">>[1] = "send"
        /\ <<"send", "STOR">>[1] = "send"
    OBVIOUS
  <2>2. a[1][1] # "send"
    BY <1>5
  <2> QED BY <2>1, <2>2, Zenon
<1>7. WellFormed(a, op)
  BY <1>4, <1>5, <1>6 DEF WellFormed, StepFits
<1>8. Begins(a) /\ AsksNothing(a) /\ NoDial(a) /\ NoSend(a) /\ ~Tells(a)
  BY <1>2, <1>4, <1>5, <1>6 DEF Begins, AsksNothing, NoDial, NoSend, Tells
<1> QED BY <1>1, <1>3, <1>4, <1>7, <1>8

\* A command by itself.
LEMMA CommandPart ==
  ASSUME NEW op, NEW c \in Commands, c \in {"PORT", "RETR", "STOR"} => op \in Transfers
  PROVE  /\ WellFormed(SendCommand(c), op) /\ Begins(SendCommand(c))
         /\ NoDial(SendCommand(c)) /\ Len(SendCommand(c)) = 2
         /\ SendCommand(c)[1] = <<"send", c>>
         /\ c # "PORT" => ~Tells(SendCommand(c))
         /\ c \notin {"RETR", "STOR"} => AsksNothing(SendCommand(c))
<1>1. PICK a : a = SendCommand(c)
  OBVIOUS
<1>2. /\ WellFormed(a, op) /\ Len(a) = 2 /\ DOMAIN a = {1, 2}
      /\ a[1] = <<"send", c>> /\ a[2] = <<"recv", c>>
  BY <1>1, WellCommand
<1>3. /\ a[1][1] = "send" /\ a[1][2] = c /\ a[2][1] = "recv" /\ a # << >>
      /\ <<"send", c>>[1] = "send"
  <2>1. /\ <<"send", c>>[1] = "send" /\ <<"send", c>>[2] = c /\ <<"recv", c>>[1] = "recv"
    BY StepParts
  <2>2. a # << >>
    BY <1>2
  <2> QED BY <1>2, <2>1, <2>2, Zenon
<1>4. Begins(a) /\ NoDial(a)
  BY <1>2, <1>3 DEF Begins, NoDial
<1>5. c # "PORT" => ~Tells(a)
  BY <1>2, StepParts DEF Tells
<1>6. ASSUME c \notin {"RETR", "STOR"}
      PROVE  AsksNothing(a)
  <2>1. /\ a[1] # <<"send", "RETR">> /\ a[1] # <<"send", "STOR">>
        /\ a[2] # <<"send", "RETR">> /\ a[2] # <<"send", "STOR">>
    BY <1>3, <1>6, StepParts
  <2> QED BY <1>2, <2>1 DEF AsksNothing
<1> QED BY <1>1, <1>2, <1>4, <1>6, <1>5

\* Parts of a call after each other.
LEMMA PartsJoin ==
  ASSUME NEW op, NEW a, NEW b, WellFormed(a, op), WellFormed(b, op), a # << >>, Begins(b),
         NoDial(b), Rearmed => Listens(a) \/ ~Tells(b), AsksNothing(a) \/ NoSend(b)
  PROVE  /\ WellFormed(a \o b, op) /\ a \o b # << >> /\ (a \o b)[1] = a[1]
         /\ Begins(a) => Begins(a \o b)
         /\ NoDial(a) => NoDial(a \o b)
         /\ AsksNothing(a) /\ AsksNothing(b) => AsksNothing(a \o b)
<1>1. WellFormed(a \o b, op) /\ Chained(a, b, a \o b)
  <2>1. Follows(b, a)
    BY DEF Begins, Follows, Tells, Listens
  <2> QED BY <2>1, WellJoin
<1> DEFINE c == a \o b
<1> HIDE DEF c
<1>2. /\ Len(a) \in Nat /\ Len(b) \in Nat /\ DOMAIN a = 1 .. Len(a) /\ DOMAIN b = 1 .. Len(b)
      /\ 1 \in DOMAIN a
  BY SeqParts DEF WellFormed, Agendas, Begins
<1>3. /\ DOMAIN c = 1 .. Len(a) + Len(b) /\ Len(c) = Len(a) + Len(b)
      /\ \A i \in DOMAIN a : c[i] = a[i]
      /\ \A i \in DOMAIN b : c[Len(a) + i] = b[i]
  BY <1>1 DEF c, Chained
<1>4. c # << >> /\ c[1] = a[1]
  <2>1. 1 \in DOMAIN c
    BY <1>2, <1>3
  <2> QED BY <1>2, <1>3, <2>1
<1>5. \A i \in DOMAIN c : (i \in DOMAIN a /\ c[i] = a[i]) \/ \E j \in DOMAIN b : c[i] = b[j]
  <2> TAKE i \in DOMAIN c
  <2>1. i \in DOMAIN a \/ (i - Len(a) \in DOMAIN b /\ i = Len(a) + (i - Len(a)))
    BY <1>2, <1>3
  <2> QED BY <1>3, <2>1
<1>6. NoDial(a) => NoDial(c)
  BY <1>5 DEF NoDial
<1>7. AsksNothing(a) /\ AsksNothing(b) => AsksNothing(c)
  BY <1>5 DEF AsksNothing
<1>8. Begins(a) => Begins(c)
  BY <1>4 DEF Begins
<1> QED BY <1>1, <1>4, <1>6, <1>7, <1>8 DEF c

\* The commands, and that the end of a transfer answers none of them.
LEMMA CommandFacts ==
  /\ {"CONNECT", "USER", "PASS", "CWD", "RNFR", "RNTO", "PASV", "PORT", "RETR", "STOR"}
       \subseteq Commands
  /\ Simple \subseteq Commands \ {"PORT", "RETR", "STOR"}
  /\ \A c \in Commands : Expected[c] \in Nat /\ Expected[c] # 226
<1>1. Commands = {"CONNECT", "USER", "PASS", "QUIT", "TYPE", "CWD", "PWD", "STAT", "MKD", "RMD",
                  "SIZE", "DELE", "RNFR", "RNTO", "PASV", "PORT", "RETR", "STOR"}
  BY DEF Commands, Expected
<1>2. \A c \in Commands : Expected[c] \in Nat /\ Expected[c] # 226
  BY <1>1 DEF Expected
<1> QED BY <1>1, <1>2, SimpleAssumption

\* A call can begin with this.
Body(a, op) ==
  /\ WellFormed(a, op) /\ a # << >> /\ a[1][1] \in {"close", "send", "dial"}
  /\ a[1] # <<"send", "PORT">> /\ (a[1][1] = "dial" => op \notin Transfers)

\* ConnectHost and ConnectLoginDir dial first.
LEMMA ConnectBody ==
  ASSUME NEW op, op \notin Transfers, NEW cd \in BOOLEAN
  PROVE  /\ Body(ConnectHost, op) /\ ConnectHost[1][1] = "dial"
         /\ Body(ConnectLoginDir(cd), op) /\ ConnectLoginDir(cd)[1][1] = "dial"
<1> DEFINE d == <<"dial", "">>
           r == <<"recv", "CONNECT">>
<1>1. /\ d[1] = "dial" /\ r[1] = "recv" /\ r[2] = "CONNECT" /\ d # <<"send", "PORT">>
      /\ d \in AgendaSteps /\ r \in AgendaSteps
  BY CommandFacts DEF AgendaSteps, Steps
<1> HIDE DEF d, r
<1>2. ConnectHost = << d, r >>
  BY DEF ConnectHost, d, r
<1>3. PICK h : h = << d, r >>
  OBVIOUS
<1>4. h \in Agendas /\ Len(h) = 2 /\ DOMAIN h = {1, 2} /\ h[1] = d /\ h[2] = r
  BY <1>1, <1>3, TwoSteps DEF Agendas
<1>5. h[1] # <<"send", "PORT">> /\ h[1][1] = "dial" /\ h[2][1] = "recv" /\ h[2][2] = "CONNECT"
  BY <1>1, <1>4
<1>6. \A i \in DOMAIN h : h[i][1] # "send"
  BY <1>4, <1>5
<1>7. AsksNothing(h) /\ \A i \in DOMAIN h : h[i] # <<"send", "PORT">>
  <2>1. /\ <<"send", "RETR">>[1] = "send" /\ <<"send", "STOR">>[1] = "send"
        /\ <<"send", "PORT">>[1] = "send"
    OBVIOUS
  <2> QED BY <1>6, <2>1 DEF AsksNothing
<1>8. WellFormed(h, op)
  BY <1>4, <1>5, <1>6, <1>7, CommandFacts DEF WellFormed, StepFits, Awaits, AsksNothing
<1>9. h # << >>
  BY <1>4
<1>10. /\ WellFormed(FTPLogin, op) /\ Begins(FTPLogin) /\ ~Tells(FTPLogin)
       /\ NoDial(FTPLogin) /\ AsksNothing(FTPLogin)
  <2>1. "USER" \in Commands /\ "PASS" \in Commands
    BY CommandFacts
  <2>2. PICK a, b : a = SendCommand("USER") /\ b = SendCommand("PASS")
    OBVIOUS
  <2>3. /\ WellFormed(a, op) /\ Begins(a) /\ ~Tells(a) /\ NoDial(a) /\ AsksNothing(a)
        /\ a # << >>
        /\ WellFormed(b, op) /\ Begins(b) /\ ~Tells(b) /\ NoDial(b) /\ AsksNothing(b)
    BY <2>1, <2>2, CommandPart DEF Begins
  <2>4. /\ WellFormed(a \o b, op) /\ Begins(a \o b) /\ (a \o b)[1] = a[1]
        /\ NoDial(a \o b) /\ AsksNothing(a \o b)
    BY <2>3, PartsJoin
  <2> QED BY <2>2, <2>3, <2>4 DEF FTPLogin, Tells
<1>11. PICK l : l = FTPLogin
  OBVIOUS
<1>12. WellFormed(h \o l, op) /\ h \o l # << >> /\ (h \o l)[1] = d /\ AsksNothing(h \o l)
  BY <1>4, <1>7, <1>8, <1>9, <1>10, <1>11, PartsJoin
<1>13. PICK a : a = h \o l
  OBVIOUS
<1>14. PICK c : c = SendCommand("CWD")
  OBVIOUS
<1>15. WellFormed(a \o c, op) /\ a \o c # << >> /\ (a \o c)[1] = d
  <2>1. WellFormed(c, op) /\ Begins(c) /\ ~Tells(c) /\ NoDial(c) /\ AsksNothing(c)
    BY <1>14, CommandFacts, CommandPart
  <2> QED BY <1>12, <1>13, <2>1, PartsJoin
<1>16. ConnectLoginDir(cd) = IF cd THEN a \o c ELSE a
  <2>1. ConnectLoginDir(cd) = a \o (IF cd THEN c ELSE << >>)
    BY <1>2, <1>3, <1>11, <1>13, <1>14 DEF ConnectLoginDir
  <2>2. a \o << >> = a
    BY <1>12, <1>13 DEF WellFormed, Agendas
  <2> QED BY <2>1, <2>2
<1> QED BY <1>1, <1>2, <1>3, <1>4, <1>5, <1>8, <1>9, <1>12, <1>13, <1>15, <1>16 DEF Body

\* The calls that only send commands.
LEMMA CommandBody ==
  ASSUME NEW op
  PROVE  Body(FTPMove, op) /\ \A c \in Simple : Body(SendCommand(c), op)
<1>1. ASSUME NEW x \in Commands \ {"PORT", "RETR", "STOR"}
      PROVE  /\ WellFormed(SendCommand(x), op) /\ Begins(SendCommand(x))
             /\ ~Tells(SendCommand(x)) /\ NoDial(SendCommand(x)) /\ AsksNothing(SendCommand(x))
             /\ SendCommand(x)[1][1] = "send"
  <2>1. PICK a : a = SendCommand(x)
    OBVIOUS
  <2>2. /\ WellFormed(a, op) /\ Begins(a) /\ ~Tells(a) /\ NoDial(a) /\ AsksNothing(a)
        /\ a[1] = <<"send", x>>
    BY <2>1, CommandPart
  <2>3. a[1][1] = "send"
    BY <2>2
  <2> QED BY <2>1, <2>2, <2>3
<1>2. \A c \in Simple : Body(SendCommand(c), op)
  BY <1>1, CommandFacts DEF Body, Begins, Tells
<1>3. PICK a, b : a = SendCommand("RNFR") /\ b = SendCommand("RNTO")
  OBVIOUS
<1>4. Body(a \o b, op)
  <2>1. /\ WellFormed(a, op) /\ Begins(a) /\ ~Tells(a) /\ AsksNothing(a) /\ a[1][1] = "send"
        /\ WellFormed(b, op) /\ Begins(b) /\ ~Tells(b) /\ NoDial(b) /\ AsksNothing(b)
    BY <1>1, <1>3, CommandFacts
  <2>2. WellFormed(a \o b, op) /\ Begins(a \o b) /\ (a \o b)[1] = a[1]
    BY <2>1, PartsJoin DEF Begins
  <2> QED BY <2>1, <2>2 DEF Body, Begins, Tells
<1> QED BY <1>2, <1>3, <1>4 DEF FTPMove

\* OpenDataPort tells the server a port only after it has begun to listen.
LEMMA OpenPart ==
  ASSUME NEW op \in Transfers, Rearmed => passive_mode \/ ~DataPortListening
  PROVE  /\ WellFormed(OpenDataPort, op) /\ OpenDataPort # << >>
         /\ OpenDataPort[1] = <<"close", "">> /\ AsksNothing(OpenDataPort)
<1>1. PICK c : c = CloseDataPort
  OBVIOUS
<1>2. /\ WellFormed(c, op) /\ c # << >> /\ c[1] = <<"close", "">> /\ AsksNothing(c)
  <2>1. "close" \in Steps \ {"send", "recv", "dial"} /\ "close" # "listen"
    BY DEF Steps
  <2> QED BY <1>1, <2>1, WellOne DEF CloseDataPort, Begins
<1>3. CASE passive_mode
  <2>1. PICK a, b : a = SendCommand("PASV") /\ b = << <<"connect", "PASV">> >>
    OBVIOUS
  <2>2. /\ WellFormed(a, op) /\ Begins(a) /\ ~Tells(a) /\ NoDial(a) /\ AsksNothing(a)
    BY <2>1, CommandFacts, CommandPart
  <2>3. /\ WellFormed(b, op) /\ Begins(b) /\ ~Tells(b) /\ NoDial(b) /\ AsksNothing(b)
    <3>1. "connect" \in Steps \ {"send", "recv", "dial"} /\ "PASV" \in Commands \cup {""}
      BY CommandFacts DEF Steps
    <3> QED BY <2>1, <3>1, WellOne
  <2>4. /\ WellFormed(a \o b, op) /\ Begins(a \o b) /\ (a \o b)[1] = a[1]
        /\ NoDial(a \o b) /\ AsksNothing(a \o b)
    BY <2>2, <2>3, PartsJoin DEF Begins
  <2>5. PICK d : d = a \o b
    OBVIOUS
  <2>6. /\ WellFormed(c \o d, op) /\ c \o d # << >> /\ (c \o d)[1] = c[1] /\ AsksNothing(c \o d)
    BY <1>2, <2>2, <2>4, <2>5, PartsJoin DEF Tells
  <2>7. OpenDataPort = c \o d
    BY <1>1, <1>3, <2>1, <2>5 DEF OpenDataPort
  <2> QED BY <1>2, <2>6, <2>7
<1>4. CASE ~passive_mode /\ DataPortListening
  <2>1. PICK b : b = SendCommand("PORT")
    OBVIOUS
  <2>2. WellFormed(b, op) /\ Begins(b) /\ NoDial(b) /\ AsksNothing(b)
    BY <2>1, CommandFacts, CommandPart
  <2>3. WellFormed(c \o b, op) /\ c \o b # << >> /\ (c \o b)[1] = c[1] /\ AsksNothing(c \o b)
    BY <1>2, <1>4, <2>2, PartsJoin
  <2>4. OpenDataPort = c \o b
    <3>1. << >> \o b = b
      BY <2>2 DEF WellFormed, Agendas
    <3> QED BY <1>1, <1>4, <2>1, <3>1 DEF OpenDataPort
  <2> QED BY <1>2, <2>3, <2>4
<1>5. CASE ~passive_mode /\ ~DataPortListening
  <2>1. PICK a, b : a = << <<"listen", "PORT">> >> /\ b = SendCommand("PORT")
    OBVIOUS
  <2>2. /\ WellFormed(a, op) /\ Begins(a) /\ ~Tells(a) /\ NoDial(a) /\ AsksNothing(a)
        /\ Listens(a)
    <3>1. "listen" \in Steps \ {"send", "recv", "dial"} /\ "PORT" \in Commands \cup {""}
      BY CommandFacts DEF Steps
    <3>2. /\ WellFormed(a, op) /\ Begins(a) /\ ~Tells(a) /\ NoDial(a) /\ AsksNothing(a)
          /\ Len(a) = 1 /\ a[1] = <<"listen", "PORT">>
      BY <2>1, <3>1, WellOne
    <3> QED BY <3>2 DEF Listens
  <2>3. /\ WellFormed(b, op) /\ Begins(b) /\ NoDial(b) /\ AsksNothing(b)
    BY <2>1, CommandFacts, CommandPart
  <2>4. /\ WellFormed(a \o b, op) /\ Begins(a \o b) /\ (a \o b)[1] = a[1]
        /\ NoDial(a \o b) /\ AsksNothing(a \o b)
    BY <2>2, <2>3, PartsJoin DEF Begins
  <2>5. PICK d : d = a \o b
    OBVIOUS
  <2>6. /\ WellFormed(c \o d, op) /\ c \o d # << >> /\ (c \o d)[1] = c[1] /\ AsksNothing(c \o d)
    BY <1>2, <2>2, <2>4, <2>5, PartsJoin DEF Tells
  <2>7. OpenDataPort = c \o d
    BY <1>1, <1>5, <2>1, <2>5 DEF OpenDataPort
  <2> QED BY <1>2, <2>6, <2>7
<1> QED BY <1>3, <1>4, <1>5

\* And so does a transfer, which sends nothing after it has asked for the file.
LEMMA TransferBody ==
  ASSUME NEW op \in Transfers, Rearmed => passive_mode \/ ~DataPortListening,
         NEW cmd \in {"RETR", "STOR"}, NEW move \in {"read", "write"}
  PROVE  Body(Transfer(cmd, move), op) /\ Transfer(cmd, move)[1][1] = "close"
<1>1. PICK a, b, c, m, e : /\ a = OpenDataPort /\ b = SendCommand(cmd)
                           /\ c = << <<"accept", cmd>> >> /\ m = << <<move, "">> >>
                           /\ e = CloseDataPort
  OBVIOUS
<1>2. /\ WellFormed(a, op) /\ a # << >> /\ a[1] = <<"close", "">> /\ AsksNothing(a)
  BY <1>1, OpenPart
<1>3. /\ WellFormed(b, op) /\ Begins(b) /\ ~Tells(b) /\ NoDial(b)
  <2>1. cmd \in Commands /\ cmd # "PORT" /\ op \in Transfers
    BY CommandFacts
  <2> QED BY <1>1, <2>1, CommandPart
<1>4. \A k \in {"accept", move, "close"} : k \in Steps \ {"send", "recv", "dial"} /\ k # "listen"
  BY DEF Steps
<1>5. cmd \in Commands \cup {""} /\ "" \in Commands \cup {""}
  BY CommandFacts
<1>6. WellFormed(c, op) /\ Begins(c) /\ ~Tells(c) /\ NoDial(c) /\ NoSend(c)
  BY <1>1, <1>4, <1>5, WellOne
<1>7. WellFormed(m, op) /\ Begins(m) /\ ~Tells(m) /\ NoDial(m) /\ NoSend(m)
  BY <1>1, <1>4, <1>5, WellOne
<1>8. WellFormed(e, op) /\ Begins(e) /\ ~Tells(e) /\ NoDial(e) /\ NoSend(e)
  BY <1>1, <1>4, <1>5, WellOne DEF CloseDataPort
<1>9. PICK s : s = a \o b
  OBVIOUS
<1>10. WellFormed(s, op) /\ s # << >> /\ s[1] = a[1]
  BY <1>2, <1>3, <1>9, PartsJoin
<1>11. PICK t : t = s \o (IF passive_mode THEN << >> ELSE c)
  OBVIOUS
<1>12. WellFormed(t, op) /\ t # << >> /\ t[1] = a[1]
  <2>1. WellFormed(s \o c, op) /\ s \o c # << >> /\ (s \o c)[1] = s[1]
    BY <1>6, <1>10, PartsJoin
  <2>2. s \o << >> = s
    BY <1>10 DEF WellFormed, Agendas
  <2> QED BY <1>10, <1>11, <2>1, <2>2
<1>13. PICK u : u = t \o m
  OBVIOUS
<1>14. WellFormed(u, op) /\ u # << >> /\ u[1] = a[1]
  BY <1>7, <1>12, <1>13, PartsJoin
<1>15. WellFormed(u \o e, op) /\ u \o e # << >> /\ (u \o e)[1] = a[1]
  BY <1>8, <1>14, PartsJoin
<1>16. Transfer(cmd, move) = u \o e
  BY <1>1, <1>9, <1>11, <1>13 DEF Transfer
<1>17. <<"close", "">>[1] = "close" /\ <<"close", "">> # <<"send", "PORT">>
  OBVIOUS
<1> QED BY <1>2, <1>15, <1>16, <1>17 DEF Body

------------------------------------------------------------------------------
\* What a step does to the agenda.
GoesOn ==
  /\ agenda # << >> /\ agenda' \in {agenda, Tail(agenda), << >>, CloseDataPort}
  /\ call' = call

\* A step that fails leaves at most CloseDataPort.
LEMMA Failing ==
  ASSUME Fail, agenda # << >>
  PROVE  GoesOn /\ failed' /\ agenda' \in {<< >>, CloseDataPort}
BY DEF Fail, GoesOn

\* The steps of a call only shorten it.
LEMMA ClientGoesOn == ASSUME ClientNext \/ Mishap PROVE GoesOn
<1> USE DEF At, Done, user, GoesOn
<1>1. CASE Dial
  BY <1>1 DEF Dial
<1>2. CASE Send
  BY <1>2, Failing DEF Send
<1>3. CASE RecvResponse
  <2>1. agenda # << >>
    BY <1>3 DEF RecvResponse
  <2>2. Done \/ Fail \/ UNCHANGED <<agenda, user>>
    BY <1>3 DEF RecvResponse, Received
  <2> QED BY <2>1, <2>2, Failing
<1>4. CASE TimeOut
  BY <1>4, Failing DEF TimeOut
<1>5. CASE Disconnected
  BY <1>5, Failing DEF Disconnected
<1>6. CASE Connect
  BY <1>6, Failing DEF Connect
<1>7. CASE Listen
  BY <1>7, Failing DEF Listen
<1>8. CASE Accept
  BY <1>8 DEF Accept
<1>9. CASE ReadBlock
  BY <1>9 DEF ReadBlock
<1>10. CASE ReadEnd
  BY <1>10 DEF ReadEnd
<1>11. CASE WriteBlock
  BY <1>11 DEF WriteBlock, GoOn
<1>12. CASE WriteFails
  BY <1>12 DEF WriteFails, GoOn
<1>13. CASE CloseData
  BY <1>13 DEF CloseData
<1>14. CASE AcceptFails
  BY <1>14, Failing DEF AcceptFails
<1>15. CASE ReadFails \/ ReadFileFails
  BY <1>15 DEF ReadFails, ReadFileFails
<1> QED BY <1>1, <1>2, <1>3, <1>4, <1>5, <1>6, <1>7, <1>8, <1>9, <1>10, <1>11, <1>12, <1>13,
           <1>14, <1>15 DEF ClientNext, Mishap

\* What it may go on with.
LEMMA GoingOn ==
  ASSUME WellFormed(agenda, call.op), GoesOn
  PROVE  /\ WellFormed(agenda', call'.op)
         /\ agenda' = agenda \/ ~At("dial")'
         /\ At("recv")' =>
              agenda' = agenda \/ (agenda' = Tail(agenda) /\ (At("send") \/ At("dial")))
         /\ Rearmed /\ At("send")' /\ Command' = "PORT" =>
              agenda' = agenda \/ (agenda' = Tail(agenda) /\ At("listen"))
         /\ \A i \in DOMAIN agenda' :
              (\E j \in DOMAIN agenda : agenda'[i] = agenda[j]) \/ agenda'[i][1] = "close"
<1>1. /\ Len(agenda) \in Nat /\ DOMAIN agenda = 1 .. Len(agenda) /\ 1 \in DOMAIN agenda
      /\ Head(agenda) = agenda[1]
      /\ Tail(agenda) \in Agendas /\ DOMAIN Tail(agenda) = 1 .. Len(agenda) - 1
      /\ \A i \in DOMAIN Tail(agenda) :
           i + 1 \in DOMAIN agenda /\ Tail(agenda)[i] = agenda[i + 1]
  BY SeqParts DEF WellFormed, Agendas, GoesOn
<1>2. CASE agenda' = agenda
  BY <1>2 DEF GoesOn
<1>3. CASE agenda' = Tail(agenda)
  <2>1. WellFormed(Tail(agenda), call.op)
    BY WellTail DEF GoesOn
  <2> DEFINE t == Tail(agenda)
  <2>2. \A i \in DOMAIN agenda' : \E j \in DOMAIN agenda : agenda'[i] = agenda[j]
    BY <1>1, <1>3
  <2>3. ASSUME t # << >>
        PROVE  /\ Head(t) = agenda[2] /\ 2 \in DOMAIN agenda
               /\ agenda[2][1] # "dial"
               /\ agenda[2][1] = "recv" => agenda[1][1] \in {"send", "dial"}
               /\ Rearmed /\ agenda[2] = <<"send", "PORT">> => agenda[1] = <<"listen", "PORT">>
    <3>1. 1 \in DOMAIN t /\ Head(t) = t[1]
      BY <1>1, <2>3, SeqParts DEF Agendas
    <3>2. 2 \in DOMAIN agenda /\ t[1] = agenda[2]
      BY <1>1, <3>1
    <3>3. StepFits(agenda, 2, call.op)
      BY <3>2 DEF WellFormed
    <3> QED BY <3>1, <3>2, <3>3 DEF StepFits
  <2>4. ASSUME Rearmed, At("send")', Command' = "PORT"
        PROVE  At("listen")
    <3>1. agenda[2] \in AgendaSteps /\ agenda[2][1] = "send" /\ agenda[2][2] = "PORT"
      BY <1>3, <2>3, <2>4 DEF At, Command, WellFormed, Agendas
    <3>2. agenda[2] = <<"send", "PORT">>
      <4>1. agenda[2] = <<agenda[2][1], agenda[2][2]>>
        BY <3>1, StepValue
      <4> QED BY <3>1, <4>1, Zenon
    <3>3. agenda[1] = <<"listen", "PORT">>
      BY <1>3, <2>3, <2>4, <3>2 DEF At
    <3>4. <<"listen", "PORT">>[1] = "listen"
      OBVIOUS
    <3> QED BY <1>1, <3>3, <3>4 DEF At, GoesOn
  <2>5. ~At("dial")'
    BY <1>3, <2>3 DEF At
  <2>6. At("recv")' => At("send") \/ At("dial")
    BY <1>1, <1>3, <2>3 DEF At, GoesOn
  <2> QED BY <1>3, <2>1, <2>2, <2>4, <2>5, <2>6 DEF GoesOn
<1>4. CASE agenda' = << >>
  BY <1>4, WellClosed DEF GoesOn, At
<1>5. CASE agenda' = CloseDataPort
  <2>1. Head(CloseDataPort) = CloseDataPort[1]
    BY WellClosed, SeqParts DEF WellFormed, Agendas
  <2> QED BY <1>5, <2>1, WellClosed DEF GoesOn, At
<1> QED BY <1>2, <1>3, <1>4, <1>5 DEF GoesOn

------------------------------------------------------------------------------
\* PORT names a port the client listens on.

\* At first nothing is sent.
LEMMA PortInitially == Init => PortInv
<1> SUFFICES ASSUME Init PROVE PortInv
  OBVIOUS
<1>1. WellFormed(<< >>, call.op)
  BY WellClosed
<1> QED BY <1>1 DEF Init, PortInv, At

\* The calls of a user who arms the client before it transfers.
LEMMA CallsAreBodies ==
  ASSUME Rearmed => PortInv,
         CallConnect \/ CallSimple \/ CallMove \/ CallDownload \/ CallUpload
  PROVE  /\ Body(agenda', call'.op) /\ agenda = << >>
         /\ agenda'[1][1] = "dial" \/ (world.renews => call.op \notin Transfers)
<1>1. Rearmed => Rearming(world)
  BY DEF PortInv, Rearmed
<1>2. CASE CallConnect
  <2>1. "connect" \notin Transfers
    BY DEF Transfers
  <2>2. PICK op : op = "connect"
    OBVIOUS
  <2>3. /\ agenda' = ConnectHost \/ \E cd \in BOOLEAN : agenda' = ConnectLoginDir(cd)
        /\ agenda = << >> /\ call'.op = op
    BY <1>2, <2>2 DEF CallConnect, Call
  <2>4. \A cd \in BOOLEAN : /\ Body(ConnectHost, op) /\ ConnectHost[1][1] = "dial"
                           /\ Body(ConnectLoginDir(cd), op)
                           /\ ConnectLoginDir(cd)[1][1] = "dial"
    BY <2>1, <2>2, ConnectBody
  <2> QED BY <2>3, <2>4
<1>3. CASE CallSimple
  BY <1>3, CommandBody DEF CallSimple, Call, MayGoOn, Transfers
<1>4. CASE CallMove
  BY <1>4, CommandBody DEF CallMove, Call, MayGoOn, Transfers
<1>5. ASSUME CallDownload \/ CallUpload
      PROVE  Rearmed => passive_mode \/ ~DataPortListening
  BY <1>1, <1>5 DEF CallDownload, CallUpload, MayGoOn, Armed, Rearming, PortInv, At, Transfers,
     Call
<1>6. ASSUME NEW op \in Transfers, NEW cmd \in {"RETR", "STOR"}, NEW move \in {"read", "write"},
             NEW f, Call(op, f, Transfer(cmd, move)), MayGoOn,
             Rearmed => passive_mode \/ ~DataPortListening
      PROVE  /\ Body(agenda', call'.op) /\ agenda = << >>
             /\ world.renews => call.op \notin Transfers
  <2>1. Body(Transfer(cmd, move), op)
    BY <1>6, TransferBody
  <2>2. agenda' = Transfer(cmd, move) /\ call'.op = op /\ agenda = << >>
    BY <1>6 DEF Call
  <2> QED BY <1>6, <2>1, <2>2 DEF MayGoOn, Transfers
<1>7. CASE CallDownload
  <2>1. "download" \in Transfers
    BY DEF Transfers
  <2> QED BY <1>5, <1>6, <1>7, <2>1 DEF CallDownload
<1>8. CASE CallUpload
  <2>1. "upload" \in Transfers
    BY DEF Transfers
  <2> QED BY <1>5, <1>6, <1>8, <2>1 DEF CallUpload
<1> QED BY <1>2, <1>3, <1>4, <1>7, <1>8

\* Every step keeps it.
LEMMA PortKept ==
  ASSUME PortInv, Rearmed, Next
  PROVE  PortInv'
<1>1. Rearming(world) /\ world \in Worlds
  BY DEF PortInv, Rearmed
<1>2. ASSUME CallConnect \/ CallSimple \/ CallMove \/ CallDownload \/ CallUpload
      PROVE  PortInv'
  <2>1. /\ Body(agenda', call'.op) /\ agenda = << >>
        /\ agenda'[1][1] = "dial" \/ (world.renews => call.op \notin Transfers)
    BY <1>2, CallsAreBodies
  <2>2. world' = world /\ UNCHANGED <<DataPortListening, bind_sock, port_buf>>
    BY <1>2 DEF CallConnect, CallSimple, CallMove, CallDownload, CallUpload, Call, datasock
  <2>3. Head(agenda') = agenda'[1] /\ agenda'[1] \in AgendaSteps /\ WellFormed(agenda', call'.op)
    BY <2>1, SeqParts DEF Body, WellFormed, Agendas
  <2>4. agenda'[1] = <<agenda'[1][1], agenda'[1][2]>>
    BY <2>3, StepValue
  <2>5. At("send")' => Command' # "PORT"
    BY <2>1, <2>3, <2>4, Zenon DEF At, Command, Body
  <2>6. ~world.rearms /\ DataPortListening => At("dial")'
    BY <1>1, <2>1, <2>3 DEF Body, Rearming, PortInv, At
  <2> QED BY <1>1, <2>2, <2>3, <2>5, <2>6 DEF PortInv
<1>3. ASSUME NEW passive \in BOOLEAN, FTPModeSet(passive)
      PROVE  PortInv'
  BY <1>1, <1>3 DEF FTPModeSet, PortInv, user, At, Command
<1>4. ASSUME agenda = << >>, UNCHANGED <<world, agenda>>, ~world.rearms => ~DataPortListening'
      PROVE  PortInv'
  <2>1. WellFormed(agenda', call'.op)
    BY <1>4, WellClosed
  <2>2. ~At("send")'
    BY <1>4 DEF At
  <2> QED BY <1>1, <1>4, <2>1, <2>2 DEF PortInv
<1>5. CASE CallClose
  BY <1>4, <1>5 DEF CallClose, Close, EndSession
<1>6. CASE CheckError
  <2>1. agenda = << >> /\ UNCHANGED <<world, agenda>> /\ world.checks
    BY <1>6 DEF CheckError
  <2> QED BY <1>1, <1>4, <2>1 DEF Rearming
<1>7. ASSUME ClientNext \/ Mishap
      PROVE  PortInv'
  <2>1. GoesOn
    BY <1>7, ClientGoesOn
  <2>2. /\ WellFormed(agenda', call'.op)
        /\ agenda' = agenda \/ ~At("dial")'
        /\ At("send")' /\ Command' = "PORT" =>
             agenda' = agenda \/ (agenda' = Tail(agenda) /\ At("listen"))
    BY <2>1, GoingOn DEF PortInv
  <2>3. world' = world
    BY <1>7 DEF ClientNext, Mishap, Dial, Send, RecvResponse, TimeOut, Disconnected, Connect,
       Listen, Accept, ReadBlock, ReadEnd, WriteBlock, WriteFails, CloseData, AcceptFails,
       ReadFails, ReadFileFails
  <2>4. At("send") /\ agenda' = agenda => UNCHANGED <<bind_sock, port_buf>>
    BY <1>7 DEF ClientNext, Mishap, Dial, Send, RecvResponse, TimeOut, Disconnected, Connect,
       Listen, Accept, ReadBlock, ReadEnd, WriteBlock, WriteFails, CloseData, AcceptFails,
       ReadFails, ReadFileFails, At, datasock
  <2>5. At("listen") /\ agenda' # << >> =>
          bind_sock' = [as |-> "listening", port |-> port_buf']
    <3>1. At("listen") => Command = "PORT"
      <4>1. At("listen") => /\ 1 \in DOMAIN agenda /\ agenda[1][1] = "listen"
                            /\ Command = agenda[1][2]
        BY SeqParts DEF At, PortInv, WellFormed, Agendas, Command
      <4> QED BY <4>1 DEF PortInv, WellFormed, StepFits
    <3> QED BY <1>7, <3>1 DEF ClientNext, Mishap, Dial, Send, RecvResponse, TimeOut,
       Disconnected, Connect, Listen, Accept, ReadBlock, ReadEnd, WriteBlock, WriteFails,
       CloseData, AcceptFails, ReadFails, ReadFileFails, At, datasock, Fail
  <2>6. DataPortListening' => (DataPortListening /\ ~At("dial")) \/ At("listen")
    BY <1>7 DEF ClientNext, Mishap, Dial, EndSession, Send, RecvResponse, TimeOut, Disconnected,
       Connect, Listen, Accept, ReadBlock, ReadEnd, WriteBlock, WriteFails, CloseData,
       AcceptFails, ReadFails, ReadFileFails, At, datasock
  <2>7. At("listen") => call.op \in Transfers
    <3>1. At("listen") => 1 \in DOMAIN agenda /\ agenda[1][1] = "listen"
      BY SeqParts DEF At, PortInv, WellFormed, Agendas
    <3> QED BY <3>1 DEF PortInv, WellFormed, StepFits
  <2>8. At("send")' /\ Command' = "PORT" => bind_sock' = [as |-> "listening", port |-> port_buf']
    <3>1. At("send")' => agenda' # << >>
      BY DEF At
    <3> QED BY <2>2, <2>4, <2>5, <3>1 DEF PortInv, At, Command
  <2>9. ~world.rearms /\ DataPortListening' => call.op \in Transfers
    BY <2>6, <2>7 DEF PortInv
  <2> QED BY <1>1, <2>1, <2>2, <2>3, <2>8, <2>9 DEF PortInv, GoesOn
<1>8. CASE ServerNext
  <2>1. UNCHANGED client
    BY <1>8 DEF ServerNext, ServeSimple, ServeQuit, ServePasv, ServePort, ServeTransfer,
       OpenData, MoveData, FinishData, AbortData, EndTask
  <2> QED BY <2>1 DEF client, datasock, user, PortInv, At, Command
<1> QED BY <1>2, <1>3, <1>5, <1>6, <1>7, <1>8 DEF Next, UserNext

\* PORT names a port the client listens on (c_ftp_client.cpp:428-491), as long as users call
\* FTPActiveSet before every active transfer, or give a connection up after its first.
THEOREM PortStaysOpen ==
  ASSUME \A w \in Worlds : Rearming(w)
  PROVE  Spec => []PortIsOpen
<1>1. Init => PortInv
  BY PortInitially
<1>2. PortInv /\ [Next]_vars => PortInv'
  <2>1. PortInv /\ Next => PortInv'
    BY PortKept DEF Rearmed
  <2>2. PortInv /\ UNCHANGED vars => PortInv'
    BY DEF vars, datasock, user, PortInv, At, Command
  <2> QED BY <2>1, <2>2
<1>3. PortInv => PortIsOpen
  BY DEF PortInv, PortIsOpen
<1> QED BY <1>1, <1>2, <1>3, PTL DEF Spec
------------------------------------------------------------------------------
\* Replies and what RecvResponse makes of them.

\* Sequences that grow and that are read from their head.
LEMMA Appending ==
  ASSUME NEW S, NEW s \in Seq(S), NEW x \in S
  PROVE  /\ Append(s, x) \in Seq(S) /\ Len(Append(s, x)) = Len(s) + 1 /\ Len(s) \in Nat
         /\ DOMAIN s = 1 .. Len(s) /\ DOMAIN Append(s, x) = 1 .. Len(s) + 1
         /\ \A i \in DOMAIN s : Append(s, x)[i] = s[i]
         /\ Append(s, x)[Len(s) + 1] = x
OBVIOUS
\* What is read of a sequence, and what is left.
LEMMA Reading ==
  ASSUME NEW S, NEW s \in Seq(S), NEW n \in 1 .. Len(s)
  PROVE  /\ SubSeq(s, 1, n) \in Seq(S) /\ SubSeq(s, 1, n) # << >>
         /\ DOMAIN SubSeq(s, 1, n) = 1 .. n
         /\ \A i \in 1 .. n : i \in DOMAIN s /\ SubSeq(s, 1, n)[i] = s[i]
         /\ SubSeq(s, n + 1, Len(s)) \in Seq(S)
         /\ Len(SubSeq(s, n + 1, Len(s))) = Len(s) - n
         /\ DOMAIN SubSeq(s, n + 1, Len(s)) = 1 .. Len(s) - n
         /\ \A i \in 1 .. Len(s) - n :
              n + i \in DOMAIN s /\ SubSeq(s, n + 1, Len(s))[i] = s[n + i]
OBVIOUS

\* Replies that have become stale.
LEMMA StaleParts ==
  ASSUME NEW P, NEW s \in Seq(Replies(P))
  PROVE  /\ Stale(s) \in Seq(Replies(P)) /\ Len(Stale(s)) = Len(s) /\ DOMAIN Stale(s) = DOMAIN s
         /\ \A i \in DOMAIN s : Stale(s)[i].code = s[i].code /\ Stale(s)[i].port = s[i].port
<1>1. Len(s) \in Nat /\ DOMAIN s = 1 .. Len(s) /\ \A i \in DOMAIN s : s[i] \in Replies(P)
  OBVIOUS
<1>2. \A r \in Replies(P) :
        /\ [r EXCEPT !.fresh = FALSE] \in Replies(P)
        /\ [r EXCEPT !.fresh = FALSE].code = r.code /\ [r EXCEPT !.fresh = FALSE].port = r.port
  BY DEF Replies
<1>3. \A i \in 1 .. Len(s) : /\ [s[i] EXCEPT !.fresh = FALSE] \in Replies(P)
                            /\ [s[i] EXCEPT !.fresh = FALSE].code = s[i].code
                            /\ [s[i] EXCEPT !.fresh = FALSE].port = s[i].port
  BY <1>1, <1>2
<1>4. /\ DOMAIN Stale(s) = 1 .. Len(s)
      /\ \A i \in 1 .. Len(s) : Stale(s)[i] = [s[i] EXCEPT !.fresh = FALSE]
  BY <1>1 DEF Stale
<1>5. Stale(s) \in Seq(Replies(P))
  <2> DEFINE t == [i \in 1 .. Len(s) |-> [s[i] EXCEPT !.fresh = FALSE]]
  <2>1. t \in [1 .. Len(s) -> Replies(P)]
    BY <1>3
  <2> HIDE DEF t
  <2>2. t \in Seq(Replies(P))
    BY <1>1, <2>1
  <2> QED BY <2>2 DEF Stale, t
<1>6. Len(Stale(s)) = Len(s)
  BY <1>1, <1>4, <1>5
<1> QED BY <1>1, <1>3, <1>4, <1>5, <1>6

\* A set of numbers has a least one.
LEMMA LeastOf ==
  ASSUME NEW T, T \subseteq Nat, T # {}
  PROVE  \E x \in T : \A y \in T : x <= y
<1>1. \E x \in T : \A y \in T : ~(<<y, x>> \in OpToRel(<, Nat))
  BY NatLessThanWellFounded, WFMin, Zenon
<1>2. PICK x \in T : \A y \in T : ~(<<y, x>> \in {ss \in Nat \X Nat : ss[1] < ss[2]})
  BY <1>1, Zenon DEF OpToRel
<1>3. \A y \in T : ~(y < x)
  BY <1>2
<1> QED BY <1>3

\* What decides is no end of a transfer.
LEMMA Deciding ==
  ASSUME NEW P, NEW buf \in Seq(Replies(P)), buf # << >>, NEW c \in Commands,
         Judge(buf, Expected[c], 0) # "more"
  PROVE  \E i \in DOMAIN buf : buf[i].code # 226 /\ Decisive(buf, Expected[c], 0) = buf[i]
<1> DEFINE want == Expected[c]
           hits == {i \in 1 .. Len(buf) : buf[i].code = want \/ i = 0}
<1>1. want \in Nat /\ want # 226
  BY CommandFacts
<1>2. /\ DOMAIN buf = 1 .. Len(buf) /\ Len(buf) \in Nat /\ 1 \in DOMAIN buf
      /\ \A i \in DOMAIN buf : buf[i].code \in Nat
  <2>1. \A r \in Replies(P) : r.code \in Nat
    BY DEF Replies
  <2>2. \A i \in DOMAIN buf : buf[i] \in Replies(P)
    OBVIOUS
  <2> QED BY <2>1, <2>2
<1>3. CASE buf[1].code >= 400 \/ buf[1].code \in {110, 120, 125, 202, 225, 332}
  <2>1. Decisive(buf, want, 0) = buf[1]
    BY <1>3 DEF Decisive
  <2>2. buf[1].code # 226
    BY <1>3
  <2> QED BY <1>2, <2>1, <2>2
<1>4. CASE ~(buf[1].code >= 400 \/ buf[1].code \in {110, 120, 125, 202, 225, 332})
  <2>1. \E i \in 1 .. Len(buf) : buf[i].code = want
    BY <1>4 DEF Judge
  <2>2. hits # {} /\ hits \subseteq Nat
    BY <1>2, <2>1
  <2>3. PICK m : m = CHOOSE i \in hits : \A j \in hits : i <= j
    OBVIOUS
  <2>4. m \in hits
    <3>1. \E i \in hits : \A j \in hits : i <= j
      BY <2>2, LeastOf
    <3> QED BY <2>3, <3>1, Zenon
  <2>5. Decisive(buf, want, 0) = buf[m]
    BY <1>4, <2>2, <2>3 DEF Decisive
  <2> QED BY <1>1, <1>2, <2>4, <2>5
<1> QED BY <1>3, <1>4

\* new decides, and the replies before it did not.
DecidedBy(old, new, c) ==
  /\ old = << >> \/ Judge(old, Expected[c], 0) = "more"
  /\ Judge(old \o new, Expected[c], 0) # "more"
\* Then one of the replies just read is no end of a transfer.
LEMMA NewDecides ==
  ASSUME NEW P, NEW old \in Seq(Replies(P)), NEW new \in Seq(Replies(P)), new # << >>,
         NEW c \in Commands, DecidedBy(old, new, c)
  PROVE  \E j \in DOMAIN new : new[j].code # 226
<1>1. PICK buf : buf = old \o new
  OBVIOUS
<1>2. Judge(buf, Expected[c], 0) # "more"
  BY <1>1 DEF DecidedBy
<1>3. /\ buf \in Seq(Replies(P)) /\ buf # << >> /\ Len(old) \in Nat /\ Len(new) \in Nat
      /\ DOMAIN buf = 1 .. Len(old) + Len(new) /\ Len(buf) = Len(old) + Len(new)
      /\ DOMAIN old = 1 .. Len(old) /\ DOMAIN new = 1 .. Len(new)
      /\ \A i \in DOMAIN old : buf[i] = old[i]
      /\ \A i \in DOMAIN new : buf[Len(old) + i] = new[i]
  BY <1>1
<1>4. \A i \in DOMAIN buf : (i \in DOMAIN old /\ buf[i] = old[i]) \/
                            \E j \in DOMAIN new : buf[i] = new[j]
  <2> TAKE i \in DOMAIN buf
  <2>1. i \in DOMAIN old \/ (i - Len(old) \in DOMAIN new /\ i = Len(old) + (i - Len(old)))
    BY <1>3
  <2> QED BY <1>3, <2>1
<1>5. CASE old = << >>
  <2>1. \E i \in DOMAIN buf : buf[i].code # 226
    <3>2. \E i \in DOMAIN buf : buf[i].code # 226 /\ Decisive(buf, Expected[c], 0) = buf[i]
      BY <1>3, <1>2, Deciding
    <3> QED BY <3>2
  <2> QED BY <1>4, <1>5, <2>1
<1>6. CASE old # << >>
  <2>1. 1 \in DOMAIN old /\ buf[1] = old[1]
    BY <1>3, <1>6
  <2>2. /\ ~(old[1].code >= 400 \/ old[1].code \in {110, 120, 202, 332})
        /\ old[1].code \notin {125, 225}
        /\ ~\E i \in 1 .. Len(old) : old[i].code = Expected[c]
    BY <1>6 DEF Judge, DecidedBy
  <2>3. \E i \in 1 .. Len(buf) : buf[i].code = Expected[c]
    BY <1>2, <2>1, <2>2 DEF Judge
  <2>4. PICK i \in DOMAIN buf : buf[i].code = Expected[c]
    BY <1>3, <2>3
  <2>5. ~(i \in DOMAIN old /\ buf[i] = old[i])
    BY <1>3, <2>2, <2>4
  <2>6. \E j \in DOMAIN new : new[j].code = Expected[c]
    BY <1>4, <2>4, <2>5
  <2> QED BY <2>6, CommandFacts
<1> QED BY <1>5, <1>6

------------------------------------------------------------------------------
\* The replies that are left.

\* More values do no harm.
LEMMA Wider ==
  ASSUME NEW P, NEW Q, P \subseteq Q
  PROVE  /\ \A r \in Requests(P) : r \in Requests(Q)
         /\ \A r \in Replies(P) : r \in Replies(Q)
         /\ \A t \in Tasks(P) : t \in Tasks(Q)
         /\ Typed(P) => Typed(Q)
<1>1. \A r \in Requests(P) : r \in Requests(Q)
  BY DEF Requests
<1>2. \A r \in Replies(P) : r \in Replies(Q)
  BY DEF Replies
<1>3. \A t \in Tasks(P) : t \in Tasks(Q)
  BY DEF Tasks
<1>4. Typed(P) => Typed(Q)
  BY <1>1, <1>2, <1>3 DEF Typed
<1> QED BY <1>1, <1>2, <1>3, <1>4

\* The values stay when nothing is sent.
LEMMA TypedKept ==
  ASSUME NEW P, Typed(P), requests' \in {requests, << >>}, replies' \in {replies, << >>},
         reply_buf' \in {reply_buf, << >>}, task' \in {task, NoTask}
  PROVE  Typed(P)'
<1>1. << >> \in Seq(Requests(P)) /\ << >> \in Seq(Replies(P))
  OBVIOUS
<1> QED BY <1>1 DEF Typed

\* A transfer is not none.
LEMMA TaskIsSome == ASSUME NEW P PROVE NoTask \notin Tasks(P)
<1>1. NoTask.kind = "none" /\ \A t \in Tasks(P) : t.kind \in {"RETR", "STOR"}
  BY DEF NoTask, Tasks
<1> QED BY <1>1

\* A call that failed sends and receives no more.
LEMMA FailingCloses ==
  ASSUME Fail, agenda # << >>, WellFormed(agenda, call.op)
  PROVE  /\ WellFormed(agenda', call'.op) /\ GoesOn /\ failed' /\ ~At("recv")' /\ ~Ahead'
         /\ \A i \in DOMAIN agenda' : agenda'[i][1] = "close"
<1>1. GoesOn /\ failed' /\ agenda' \in {<< >>, CloseDataPort}
  BY Failing
<1>2. WellFormed(agenda', call'.op)
  BY <1>1, GoingOn
<1>3. \A i \in DOMAIN agenda' : agenda'[i][1] = "close"
  BY <1>1, WellClosed
<1>4. agenda' # << >> => 1 \in DOMAIN agenda' /\ Head(agenda') = agenda'[1]
  BY <1>2, SeqParts DEF WellFormed, Agendas
<1> QED BY <1>1, <1>2, <1>3, <1>4 DEF At, Ahead

\* Who has given up has only sockets to close.
LEMMA GivenUpCloses ==
  ASSUME MatchInv, GivenUp
  PROVE  agenda = << >> \/ At("close")
<1>1. agenda # << >> => 1 \in DOMAIN agenda /\ Head(agenda) = agenda[1]
  BY SeqParts DEF MatchInv, WellFormed, Agendas
<1> QED BY <1>1 DEF GivenUp, At

\* Nothing changes that the replies depend on.
LEMMA SameKept ==
  ASSUME MatchInv, UNCHANGED <<world, session, reply_buf, agenda, user, heard, channel, task>>
  PROVE  MatchInv'
BY DEF MatchInv, Typed, GivenUp, InOrder, Waiting, Idle, OneTransfer, Ended, Undecided,
   Unanswered, Answered, Doings, Ahead, Requested, At, Command, session, user, channel

\* The client does something else than send and receive.
LEMMA QuietKept ==
  ASSUME MatchInv, GoesOn, ~At("send"), ~At("recv"), ~At("dial"), GivenUp => GivenUp',
         UNCHANGED <<world, control, channel, task, heard>>, reply_buf' \in {reply_buf, << >>}
  PROVE  MatchInv'
<1>1. /\ WellFormed(agenda', call'.op) /\ ~At("recv")' /\ call' = call
      /\ Ahead' => Ahead
  BY GoingOn DEF MatchInv, Ahead, GoesOn, At
<1>2. UNCHANGED <<world, control, requests, replies, task, heard>>
  BY DEF channel
<1>3. \E P : Typed(P)'
  BY <1>2, TypedKept DEF MatchInv
<1>4. ASSUME InOrder
      PROVE  InOrder'
  <2>1. Idle'
    BY <1>2, <1>4 DEF InOrder, Idle, Doings
  <2>2. OneTransfer'
    <3>1. Requested' <=> Requested
      BY <1>2 DEF Requested
    <3> QED BY <1>1, <1>2, <1>4, <3>1 DEF InOrder, OneTransfer
  <2> QED BY <1>1, <1>2, <1>4, <2>1, <2>2 DEF InOrder
<1>5. Ended' /\ Len(requests') <= 1
  BY <1>2 DEF MatchInv, Ended
<1>6. GivenUp' \/ InOrder'
  BY <1>4 DEF MatchInv
<1> QED BY <1>1, <1>2, <1>3, <1>5, <1>6 DEF MatchInv

\* Nothing is left on the way.
LEMMA EmptyKept ==
  ASSUME MatchInv, WellFormed(agenda', call'.op), ~At("recv")', UNCHANGED <<world, heard>>,
         control' \in {"closed", "open", "hungup"}, reply_buf' \in {reply_buf, << >>},
         requests' = << >>, replies' = << >>, task' = NoTask
  PROVE  MatchInv'
<1>1. \E P : Typed(P)'
  BY TypedKept DEF MatchInv
<1>2. Len(<< >>) = 0 /\ DOMAIN << >> = {}
  OBVIOUS
<1>3. InOrder'
  BY <1>2 DEF InOrder, Idle, OneTransfer, Doings, Requested, StaleIs226
<1> QED BY <1>1, <1>2, <1>3 DEF MatchInv, Ended

\* The user calls.
LEMMA CallKept ==
  ASSUME MatchInv, Rearmed => PortInv, \A w \in Worlds : Careful(w),
         CallConnect \/ CallSimple \/ CallMove \/ CallDownload \/ CallUpload
  PROVE  MatchInv'
<1>1. /\ Body(agenda', call'.op) /\ agenda = << >>
      /\ agenda'[1][1] = "dial" \/ (world.renews => call.op \notin Transfers)
  BY CallsAreBodies
<1>2. /\ UNCHANGED <<world, session, reply_buf, heard, channel, task>>
      /\ world.checks => ~failed
  BY DEF CallConnect, CallSimple, CallMove, CallDownload, CallUpload, Call, server
<1>3. Head(agenda') = agenda'[1] /\ agenda' # << >>
  BY <1>1, SeqParts DEF Body, WellFormed, Agendas
<1>4. ~At("recv") /\ ~At("recv")' /\ ~At("dial") /\ (agenda'[1][1] = "dial" => At("dial")')
  BY <1>1, <1>3 DEF Body, At
<1>5. InOrder /\ Careful(world)
  BY <1>2 DEF MatchInv, GivenUp
<1>6. PICK P : Typed(P)
  BY DEF MatchInv
<1>7. Typed(P)'
  BY <1>2, <1>6 DEF Typed, channel
<1>8. OneTransfer'
  <2>1. SUFFICES ASSUME ~world.completes
        PROVE  OneTransfer'
    BY <1>2 DEF OneTransfer
  <2>2. At("dial")' \/ call.op \notin Transfers
    BY <1>1, <1>4, <1>5, <2>1 DEF Careful
  <2> QED BY <1>2, <1>4, <1>5, <2>1, <2>2 DEF InOrder, OneTransfer, Requested, channel
<1>9. InOrder'
  <2>1. UNCHANGED <<world, control, requests, replies, task>>
    BY <1>2 DEF session, channel
  <2>2. Idle'
    BY <1>4, <1>5, <2>1 DEF InOrder, Idle, Doings
  <2> QED BY <1>4, <1>5, <1>8, <2>1, <2>2 DEF InOrder
<1> QED BY <1>1, <1>2, <1>7, <1>9 DEF MatchInv, Ended, Body, session, channel

\* The user closes the connection or asks for errors.
LEMMA CloseKept ==
  ASSUME MatchInv, \A w \in Worlds : Careful(w), CallClose \/ CheckError
  PROVE  MatchInv'
<1>1. agenda = << >> /\ UNCHANGED <<world, heard, reply_buf, agenda>>
  BY DEF CallClose, CheckError
<1>2. ~At("recv")' /\ WellFormed(agenda', call'.op)
  BY <1>1, WellClosed DEF At
<1>3. CASE Close
  BY <1>1, <1>2, <1>3, EmptyKept DEF Close, EndSession
<1>4. ASSUME CheckError, ~cntrl_error
      PROVE  MatchInv'
  <2>1. /\ UNCHANGED <<control, channel, task>> /\ world.completes
        /\ InOrder
    BY <1>4 DEF CheckError, session, server, MatchInv, Careful, GivenUp
  <2>2. PICK P : Typed(P)
    BY DEF MatchInv
  <2>3. Typed(P)'
    BY <1>1, <2>1, <2>2 DEF Typed, channel
  <2>4. ~At("recv")
    BY <1>1 DEF At
  <2>5. InOrder'
    BY <1>1, <1>2, <2>1, <2>4 DEF InOrder, Idle, OneTransfer, Doings, channel
  <2> QED BY <1>1, <1>2, <2>1, <2>3, <2>5 DEF MatchInv, Ended, channel
<1> QED BY <1>3, <1>4 DEF CallClose, CheckError

\* A sent command and a connection are waited for.
LEMMA SendIsAnswered ==
  ASSUME WellFormed(agenda, call.op), At("send") \/ At("dial"),
         agenda' = Tail(agenda), call' = call
  PROVE  /\ WellFormed(agenda', call'.op) /\ At("recv")' /\ Command' \in Commands
         /\ Command' = IF At("dial") THEN "CONNECT" ELSE Command
         /\ At("send") => /\ Command \in Commands
                          /\ Command \in {"RETR", "STOR"} => call.op \in Transfers /\ ~Ahead'
<1>1. /\ agenda \in Agendas /\ agenda # << >> /\ Head(agenda) = agenda[1] /\ 1 \in DOMAIN agenda
      /\ Tail(agenda) \in Agendas /\ DOMAIN Tail(agenda) = 1 .. Len(agenda) - 1
      /\ \A i \in DOMAIN Tail(agenda) :
           i + 1 \in DOMAIN agenda /\ Tail(agenda)[i] = agenda[i + 1]
      /\ Len(agenda) \in Nat /\ DOMAIN agenda = 1 .. Len(agenda)
  BY SeqParts DEF WellFormed, Agendas, At
<1>2. WellFormed(agenda', call'.op)
  BY <1>1, WellTail
<1>3. StepFits(agenda, 1, call.op) /\ agenda[1][1] \in {"send", "dial"}
  BY <1>1 DEF WellFormed, At
<1>4. /\ 1 < Len(agenda) /\ agenda[2][1] = "recv"
      /\ agenda[2][2] = IF agenda[1][1] = "dial" THEN "CONNECT" ELSE agenda[1][2]
  BY <1>3 DEF StepFits, Awaits
<1>5. 1 \in DOMAIN Tail(agenda) /\ Tail(agenda)[1] = agenda[2] /\ 2 \in DOMAIN agenda
  BY <1>1, <1>4
<1>6. Head(agenda') = agenda[2] /\ agenda' # << >>
  <2>1. Tail(agenda) # << >>
    BY <1>5
  <2>2. Head(Tail(agenda)) = Tail(agenda)[1]
    BY <1>1, <2>1, SeqParts DEF Agendas
  <2> QED BY <1>5, <2>1, <2>2
<1>7. agenda[2][2] \in Commands
  BY <1>4, <1>5 DEF WellFormed, StepFits
<1>8. ASSUME At("send")
      PROVE  /\ Command \in Commands
             /\ Command \in {"RETR", "STOR"} => call.op \in Transfers /\ ~Ahead'
  <2>1. agenda[1][1] = "send" /\ Command = agenda[1][2] /\ agenda[1] \in AgendaSteps
    BY <1>1, <1>8 DEF At, Command, Agendas
  <2>2. agenda[1] = <<"send", Command>>
    BY <2>1, StepValue
  <2>3. Command \in {"RETR", "STOR"} => agenda[1] \in {<<"send", "RETR">>, <<"send", "STOR">>}
    BY <2>2
  <2>4. Command \in {"RETR", "STOR"} =>
          call.op \in Transfers /\ \A j \in DOMAIN agenda : j > 1 => agenda[j][1] # "send"
    BY <1>3, <2>3 DEF StepFits
  <2>5. Command \in {"RETR", "STOR"} => ~Ahead'
    BY <1>1, <2>4 DEF Ahead
  <2> QED BY <1>3, <2>1, <2>4, <2>5 DEF StepFits
<1>9. Command' = IF At("dial") THEN "CONNECT" ELSE Command
  BY <1>1, <1>4, <1>6 DEF At, Command
<1> QED BY <1>2, <1>4, <1>6, <1>7, <1>8, <1>9 DEF At, Command

\* ConnectHost.
LEMMA DialKept ==
  ASSUME MatchInv, Dial
  PROVE  MatchInv'
<1>1. /\ requests' = << >> /\ task' = NoTask /\ reply_buf' = << >> /\ UNCHANGED <<world, heard>>
      /\ At("dial")
  BY DEF Dial, EndSession
<1>2. ASSUME NEW n \in {220, 421}, Done, control' \in {"open", "hungup"},
             replies' = << [code |-> n, fresh |-> TRUE, port |-> NoPort] >>
      PROVE  MatchInv'
  <2>1. WellFormed(agenda', call'.op) /\ At("recv")'
    BY <1>1, <1>2, SendIsAnswered DEF MatchInv, Done, user
  <2> DEFINE r == [code |-> n, fresh |-> TRUE, port |-> NoPort]
  <2>2. r \in Replies({NoPort}) /\ r.fresh
    BY <1>2 DEF Replies
  <2>3. replies' = << r >>
    BY <1>2
  <2> HIDE DEF r
  <2>4. /\ << r >> \in Seq(Replies({NoPort})) /\ Len(<< r >>) = 1 /\ DOMAIN << r >> = {1}
        /\ << r >>[1] = r
    BY <2>2, OneStep
  <2>5. Typed({NoPort})'
    BY <1>1, <2>2, <2>3, <2>4 DEF Typed
  <2>6. Len(<< >>) = 0 /\ DOMAIN << >> = {}
    OBVIOUS
  <2>7. InOrder'
    BY <1>1, <1>2, <2>1, <2>2, <2>3, <2>4, <2>6 DEF InOrder, Waiting, OneTransfer, Undecided,
       Unanswered, Answered, Doings, Requested, StaleIs226
  <2> QED BY <1>1, <1>2, <2>1, <2>5, <2>6, <2>7 DEF MatchInv, Ended
<1>3. ASSUME control' = "closed", replies' = << >>, agenda' = << >>
      PROVE  MatchInv'
  <2>1. WellFormed(agenda', call'.op) /\ ~At("recv")'
    BY <1>3, WellClosed DEF At
  <2> QED BY <1>1, <1>3, <2>1, EmptyKept
<1> QED BY <1>2, <1>3 DEF Dial

\* SendCommand up to RecvResponse.
LEMMA SendKept ==
  ASSUME MatchInv, Send
  PROVE  MatchInv'
<1>1. /\ At("send") /\ reply_buf' = << >> /\ UNCHANGED <<world, heard>>
      /\ ~At("recv") /\ ~At("dial") /\ ~At("close") /\ agenda # << >>
  BY DEF Send, At
<1>2. InOrder
  BY <1>1, GivenUpCloses DEF MatchInv
<1>3. Ahead
  <2>1. 1 \in DOMAIN agenda /\ Head(agenda) = agenda[1]
    BY <1>1, SeqParts DEF MatchInv, WellFormed, Agendas
  <2> QED BY <1>1, <2>1 DEF Ahead, At
<1>4. CASE control = "closed"
  <2>1. Fail /\ control' = control /\ UNCHANGED <<channel, task>>
    BY <1>4 DEF Send
  <2>2. WellFormed(agenda', call'.op) /\ ~At("recv")'
    BY <1>1, <2>1, FailingCloses DEF MatchInv
  <2>3. requests' = << >> /\ replies' = << >> /\ task' = NoTask
    BY <1>4, <2>1 DEF MatchInv, Ended, channel
  <2> QED BY <1>1, <1>4, <2>1, <2>2, <2>3, EmptyKept
<1>5. CASE control = "hungup"
  <2>1. Done /\ UNCHANGED <<control, channel, task>>
    BY <1>5 DEF Send, session
  <2>2. WellFormed(agenda', call'.op) /\ At("recv")' /\ call' = call
    BY <1>1, <2>1, SendIsAnswered DEF MatchInv, Done, user
  <2>3. requests' = << >> /\ requests = << >> /\ task' = NoTask /\ replies' = replies
    BY <1>5, <2>1 DEF MatchInv, Ended, channel
  <2>4. PICK P : Typed(P)
    BY DEF MatchInv
  <2>5. Typed(P)'
    BY <1>1, <2>2, <2>3, <2>4 DEF Typed
  <2>6. Len(<< >>) = 0 /\ DOMAIN << >> = {} /\ Len(replies) \in Nat
    BY <2>4 DEF Typed
  <2>7. InOrder'
    BY <1>1, <1>2, <1>3, <1>5, <2>1, <2>2, <2>3, <2>6
    DEF InOrder, Waiting, OneTransfer, Undecided,
       Requested, StaleIs226
  <2> QED BY <1>1, <1>5, <2>1, <2>2, <2>3, <2>5, <2>6, <2>7 DEF MatchInv, Ended
<1>6. CASE control = "open"
  <2>1. Idle
    BY <1>1, <1>2 DEF InOrder
  <2>2. PICK P : Typed(P)
    BY DEF MatchInv
  <2>3. PICK r, Q :
          /\ r = [cmd |-> Command, fresh |-> TRUE, port |-> port_buf, file |-> call.file]
          /\ Q = P \cup {port_buf, call.file}
    OBVIOUS
  <2>4. /\ Done /\ control' = "open" /\ requests' = Append(Stale(requests), r)
        /\ replies' = Stale(replies)
        /\ task' = IF task = NoTask THEN task ELSE [task EXCEPT !.fresh = FALSE]
    BY <1>6, <2>3 DEF Send, session
  <2>5. /\ WellFormed(agenda', call'.op) /\ At("recv")' /\ call' = call /\ Command \in Commands
        /\ Command \in {"RETR", "STOR"} => call.op \in Transfers /\ ~Ahead'
    BY <1>1, <2>4, SendIsAnswered DEF MatchInv, Done, user
  <2>6. r \in Requests(Q) /\ r.fresh /\ r.cmd = Command
    BY <2>3, <2>5 DEF Requests
  <2>7. requests = << >> /\ Stale(requests) = << >>
    BY <1>6, <2>1 DEF Idle, Stale
  <2>8. requests' = << r >>
    <3>1. Append(<< >>, r) = << r >>
      OBVIOUS
    <3> QED BY <2>4, <2>7, <3>1
  <2>9. /\ << r >> \in Seq(Requests(Q)) /\ Len(<< r >>) = 1 /\ DOMAIN << r >> = {1}
        /\ << r >>[1] = r /\ << r >> # << >>
    BY <2>6, OneStep
  <2>10. /\ Stale(replies) \in Seq(Replies(P)) /\ Len(Stale(replies)) = Len(replies)
         /\ DOMAIN Stale(replies) = DOMAIN replies /\ Len(replies) \in Nat
         /\ DOMAIN replies = 1 .. Len(replies)
         /\ \A i \in DOMAIN replies : Stale(replies)[i].code = replies[i].code
    BY <2>2, StaleParts DEF Typed
  <2>11. /\ task' \in Tasks(P) \cup {NoTask} /\ (task' = NoTask <=> task = NoTask)
         /\ task' # NoTask => ~task'.fresh
    <3>1. \A t \in Tasks(P) : /\ [t EXCEPT !.fresh = FALSE] \in Tasks(P)
                              /\ ~[t EXCEPT !.fresh = FALSE].fresh
      BY DEF Tasks
    <3>2. NoTask \notin Tasks(P)
      BY TaskIsSome
    <3> QED BY <2>2, <2>4, <3>1, <3>2 DEF Typed
  <2>12. Typed(Q)'
    <3>2. Stale(replies) \in Seq(Replies(Q))
      <4>1. \A x \in Replies(P) : x \in Replies(Q)
        BY <2>3, Wider
      <4> QED BY <2>10, <4>1
    <3>3. task' \in Tasks(Q) \cup {NoTask}
      BY <2>11, <2>3, Wider
    <3>4. requests' \in Seq(Requests(Q))
      BY <2>8, <2>9
    <3>5. reply_buf' \in Seq(Replies(Q))
      BY <1>1
    <3> QED BY <2>4, <3>2, <3>3, <3>4, <3>5 DEF Typed
  <2>13. \A i \in DOMAIN replies : replies[i].code = 226
    BY <1>1, <1>2, <1>3, <1>6, <2>1, <2>10 DEF Idle, InOrder, OneTransfer
  <2>14. Waiting'
    <3>1. Unanswered' /\ Answered'
      BY <1>6, <2>1, <2>4, <2>8, <2>9, <2>10, <2>11, <2>13 DEF Unanswered, Answered, Idle, Doings
    <3> QED BY <1>1, <2>4, <3>1 DEF Waiting, Undecided, StaleIs226
  <2>15. OneTransfer'
    <3>1. ASSUME ~world.completes
          PROVE  task = NoTask /\ Len(replies) = 0
      BY <1>1, <1>2, <1>3, <2>10, <3>1, <2>7 DEF InOrder, OneTransfer
    <3>2. Ahead' \/ call'.op \notin Transfers => ~Requested'
      BY <2>5, <2>6, <2>8, <2>9 DEF Requested
    <3> QED BY <1>1, <2>4, <2>5, <2>8, <2>9, <2>10, <2>11, <3>1, <3>2 DEF OneTransfer
  <2>16. InOrder'
    BY <2>4, <2>5, <2>6, <2>8, <2>9, <2>10, <2>13, <2>14, <2>15 DEF InOrder, StaleIs226
  <2> QED BY <1>1, <2>4, <2>5, <2>8, <2>9, <2>12, <2>16 DEF MatchInv, Ended
<1> QED BY <1>4, <1>5, <1>6 DEF MatchInv

\* A first reply that decides leaves the texts unread.
LEMMA TextUnread ==
  ASSUME NEW buf, Len(buf) \in Nat, Len(buf) >= 1, NEW c, Decides(buf[1], c), NEW told \in Nat
  PROVE  /\ Judge(buf, Expected[c], told) = Judge(buf, Expected[c], 0)
         /\ Decisive(buf, Expected[c], told) = Decisive(buf, Expected[c], 0)
<1> DEFINE want == Expected[c]
<1> HIDE DEF want
<1>1. 1 \in 1 .. Len(buf)
  OBVIOUS
<1>2. Decides(buf[1], c) <=> \/ buf[1].code >= 400 \/ buf[1].code \in {110, 120, 125, 202, 225, 332}
                             \/ buf[1].code = want
  BY DEF Decides, want
<1>3. Judge(buf, want, told) = Judge(buf, want, 0)
  BY <1>1, <1>2 DEF Judge
<1>4. CASE buf[1].code >= 400 \/ buf[1].code \in {110, 120, 125, 202, 225, 332}
  <2>1. \A k : Decisive(buf, want, k) = buf[1]
    BY <1>4 DEF Decisive
  <2> QED BY <1>3, <2>1 DEF want
<1>5. CASE buf[1].code = want
  <2>1. ASSUME NEW k \in Nat
        PROVE  Decisive(buf, want, k) = buf[1]
    <3> DEFINE hits == {i \in 1 .. Len(buf) : buf[i].code = want \/ i = k}
    <3>1. 1 \in hits /\ \A i \in hits : i \in Nat /\ 1 <= i
      BY <1>1, <1>5
    <3>2. \A i \in hits : (\A j \in hits : i <= j) <=> i = 1
      BY <3>1
    <3> HIDE DEF hits
    <3>3. (CHOOSE i \in hits : \A j \in hits : i <= j) = 1
      BY <3>1, <3>2
    <3>4. hits # {}
      BY <3>1
    <3> USE DEF hits
    <3> QED BY <3>3, <3>4 DEF Decisive
  <2>2. Decisive(buf, want, told) = buf[1] /\ Decisive(buf, want, 0) = buf[1]
    BY <2>1
  <2> QED BY <1>3, <2>2 DEF want
<1> QED BY <1>2, <1>4, <1>5

\* What RecvResponse reads is judged by the codes of the replies.
LEMMA CodesDecide ==
  ASSUME MatchInv, TextInv, RecvResponse
  PROVE  \E n \in 1 .. Len(replies) : Received(n, 0)
<1>1. PICK n \in 1 .. Len(replies), told \in 0 .. Len(reply_buf) + Len(replies) :
        Received(n, told)
  BY DEF RecvResponse
<1>2. PICK P : Typed(P)
  BY DEF MatchInv
<1>3. /\ replies \in Seq(Replies(P)) /\ reply_buf \in Seq(Replies(P))
      /\ Len(replies) \in Nat /\ Len(reply_buf) \in Nat
  BY <1>2 DEF Typed
<1>4. PICK buf : buf = reply_buf \o SubSeq(replies, 1, n)
  OBVIOUS
<1>5. told \in Nat /\ told \in Told(buf) /\ 0 \in Told(buf)
  <2>1. told \in Told(buf)
    BY <1>1, <1>4, Zenon DEF Received
  <2> QED BY <1>3, <2>1 DEF Told
<1>6. \/ told = 0
      \/ /\ Judge(buf, Expected[Command], told) = Judge(buf, Expected[Command], 0)
         /\ Decisive(buf, Expected[Command], told) = Decisive(buf, Expected[Command], 0)
  <2>1. CASE world.plain
    BY <1>5, <2>1 DEF Told
  <2>2. CASE ~world.plain
    <3>1. At("recv")
      BY DEF RecvResponse
    <3>2. n \in 1 .. Len(replies) /\ replies # << >>
      BY <1>3
    <3>3. reply_buf = << >> /\ Decides(replies[1], Command)
      BY <2>2, <3>1, <3>2 DEF TextInv
    <3>4. /\ SubSeq(replies, 1, n) \in Seq(Replies(P)) /\ DOMAIN SubSeq(replies, 1, n) = 1 .. n
          /\ \A i \in 1 .. n : SubSeq(replies, 1, n)[i] = replies[i]
      <4>1. replies \in Seq(Replies(P)) /\ n \in 1 .. Len(replies)
        BY <1>3, <3>2
      <4>2. /\ SubSeq(replies, 1, n) \in Seq(Replies(P)) /\ SubSeq(replies, 1, n) # << >>
            /\ DOMAIN SubSeq(replies, 1, n) = 1 .. n
            /\ \A i \in 1 .. n : i \in DOMAIN replies /\ SubSeq(replies, 1, n)[i] = replies[i]
        <5>1. \A s \in Seq(Replies(P)) : \A m \in 1 .. Len(s) :
                /\ SubSeq(s, 1, m) \in Seq(Replies(P)) /\ SubSeq(s, 1, m) # << >>
                /\ DOMAIN SubSeq(s, 1, m) = 1 .. m
                /\ \A i \in 1 .. m : i \in DOMAIN s /\ SubSeq(s, 1, m)[i] = s[i]
          OBVIOUS
        <5> QED BY <4>1, <5>1, Zenon
      <4> QED BY <4>2, Zenon
    <3>5. buf = SubSeq(replies, 1, n)
      <4>1. \A s \in Seq(Replies(P)) : << >> \o s = s
        OBVIOUS
      <4> QED BY <1>4, <3>3, <3>4, <4>1
    <3>6. Len(buf) \in Nat /\ Len(buf) >= 1 /\ buf[1] = replies[1]
      <4>1. buf \in Seq(Replies(P)) /\ DOMAIN buf = 1 .. n /\ 1 \in 1 .. n
        BY <1>3, <3>2, <3>4, <3>5
      <4>2. Len(buf) = n
        BY <3>2, <4>1
      <4> QED BY <1>3, <3>2, <3>4, <3>5, <4>1, <4>2
    <3>7. Decides(buf[1], Command)
      BY <3>3, <3>6
    <3> QED BY <1>5, <3>6, <3>7, TextUnread
  <2> QED BY <2>1, <2>2
<1>7. CASE told = 0
  BY <1>1, <1>7
<1>8. CASE /\ Judge(buf, Expected[Command], told) = Judge(buf, Expected[Command], 0)
           /\ Decisive(buf, Expected[Command], told) = Decisive(buf, Expected[Command], 0)
  BY <1>1, <1>4, <1>5, <1>8, Zenon DEF Received
<1> QED BY <1>6, <1>7, <1>8

\* RecvResponse.
LEMMA RecvKept ==
  ASSUME MatchInv, TextInv, RecvResponse
  PROVE  MatchInv'
<1>1. /\ At("recv") /\ ~At("send") /\ ~At("dial") /\ ~At("close") /\ agenda # << >>
      /\ UNCHANGED <<world, control, requests, task>>
  BY DEF RecvResponse, At, session, server
<1>2. InOrder /\ Waiting
  BY <1>1, GivenUpCloses DEF MatchInv, InOrder
<1>3. PICK P : Typed(P)
  BY DEF MatchInv
<1>4. Command \in Commands
  <2>1. 1 \in DOMAIN agenda /\ Head(agenda) = agenda[1]
    BY <1>1, SeqParts DEF MatchInv, WellFormed, Agendas
  <2>2. StepFits(agenda, 1, call.op)
    BY <2>1 DEF MatchInv, WellFormed
  <2> QED BY <1>1, <2>1, <2>2 DEF At, Command, StepFits
<1>5. PICK n \in 1 .. Len(replies) :
        LET buf == reply_buf \o SubSeq(replies, 1, n)
            want == Expected[Command]
        IN /\ reply_buf' = IF Judge(buf, want, 0) = "more" \/ Command = "PASV" THEN buf ELSE << >>
           /\ replies' = SubSeq(replies, n + 1, Len(replies))
           /\ \/ Judge(buf, want, 0) = "accepted" /\ Done
              \/ Judge(buf, want, 0) = "refused" /\ Fail
              \/ Judge(buf, want, 0) = "more" /\ UNCHANGED <<agenda, user>>
           /\ heard' = (Judge(buf, want, 0) = "more" \/ Decisive(buf, want, 0).fresh)
  BY CodesDecide DEF Received
<1>6. PICK new, rest : new = SubSeq(replies, 1, n) /\ rest = SubSeq(replies, n + 1, Len(replies))
  OBVIOUS
<1>7. PICK buf : buf = reply_buf \o new
  OBVIOUS
<1> DEFINE verdict == Judge(buf, Expected[Command], 0)
<1>8. /\ reply_buf' \in {buf, << >>} /\ (verdict = "more" => reply_buf' = buf)
       /\ replies' = rest
       /\ \/ verdict # "more" /\ (Done \/ Fail)
          \/ verdict = "more" /\ UNCHANGED <<agenda, user>>
       /\ heard' = (verdict = "more" \/ Decisive(buf, Expected[Command], 0).fresh)
  BY <1>5, <1>6, <1>7
<1> HIDE DEF verdict
<1>9. /\ new \in Seq(Replies(P)) /\ new # << >> /\ DOMAIN new = 1 .. n
      /\ \A i \in 1 .. n : i \in DOMAIN replies /\ new[i] = replies[i]
      /\ rest \in Seq(Replies(P)) /\ Len(rest) = Len(replies) - n
      /\ DOMAIN rest = 1 .. Len(replies) - n
      /\ \A i \in 1 .. Len(replies) - n : n + i \in DOMAIN replies /\ rest[i] = replies[n + i]
      /\ DOMAIN replies = 1 .. Len(replies) /\ Len(replies) \in Nat /\ n \in Nat /\ n >= 1
  <2>1. replies \in Seq(Replies(P))
    BY <1>3 DEF Typed
  <2>2. n \in 1 .. Len(replies)
    OBVIOUS
  <2>3. DOMAIN replies = 1 .. Len(replies) /\ Len(replies) \in Nat
    BY <2>1
  <2>4. /\ SubSeq(replies, 1, n) \in Seq(Replies(P)) /\ SubSeq(replies, 1, n) # << >>
        /\ DOMAIN SubSeq(replies, 1, n) = 1 .. n
        /\ \A i \in 1 .. n : i \in DOMAIN replies /\ SubSeq(replies, 1, n)[i] = replies[i]
        /\ SubSeq(replies, n + 1, Len(replies)) \in Seq(Replies(P))
        /\ Len(SubSeq(replies, n + 1, Len(replies))) = Len(replies) - n
        /\ DOMAIN SubSeq(replies, n + 1, Len(replies)) = 1 .. Len(replies) - n
        /\ \A i \in 1 .. Len(replies) - n :
             n + i \in DOMAIN replies /\ SubSeq(replies, n + 1, Len(replies))[i] = replies[n + i]
    BY <2>1, <2>2, Reading, Zenon
  <2>5. n \in Nat /\ n >= 1
    BY <2>2, <2>3
  <2> QED BY <1>6, <2>3, <2>4, <2>5, Zenon
<1>10. /\ reply_buf \in Seq(Replies(P)) /\ buf \in Seq(Replies(P)) /\ buf # << >>
      /\ \A i \in DOMAIN buf : (\E j \in DOMAIN reply_buf : buf[i] = reply_buf[j]) \/
                               (\E j \in DOMAIN new : buf[i] = new[j])
  <2>1. /\ reply_buf \in Seq(Replies(P)) /\ Len(reply_buf) \in Nat /\ Len(new) \in Nat
        /\ DOMAIN reply_buf = 1 .. Len(reply_buf) /\ DOMAIN new = 1 .. Len(new)
    BY <1>3, <1>9, SeqParts DEF Typed
  <2>2. /\ buf \in Seq(Replies(P)) /\ buf # << >> /\ DOMAIN buf = 1 .. Len(reply_buf) + Len(new)
        /\ \A i \in DOMAIN reply_buf : buf[i] = reply_buf[i]
        /\ \A i \in DOMAIN new : buf[Len(reply_buf) + i] = new[i]
    BY <1>9, <1>7, <2>1
  <2>3. ASSUME NEW i \in DOMAIN buf
        PROVE  i \in DOMAIN reply_buf \/ (i - Len(reply_buf) \in DOMAIN new
                                          /\ i = Len(reply_buf) + (i - Len(reply_buf)))
    BY <2>1, <2>2
  <2> QED BY <2>1, <2>2, <2>3
<1>11. StaleIs226(buf) /\ StaleIs226(rest)
  <2>1. StaleIs226(reply_buf) /\ StaleIs226(replies)
    BY <1>2 DEF InOrder, Waiting
  <2>2. StaleIs226(new) /\ StaleIs226(rest)
    <3>1. \A i \in DOMAIN new : \E j \in DOMAIN replies : new[i] = replies[j]
      BY <1>9
    <3>2. \A i \in DOMAIN rest : \E j \in DOMAIN replies : rest[i] = replies[j]
      BY <1>9
    <3> QED BY <2>1, <3>1, <3>2 DEF StaleIs226
  <2> QED BY <1>10, <2>1, <2>2 DEF StaleIs226
<1>12. Typed(P)'
  <2>1. << >> \in Seq(Replies(P))
    OBVIOUS
  <2> QED BY <1>1, <1>3, <1>9, <1>10, <1>8, <2>1 DEF Typed
<1>13. heard'
  <2>1. CASE verdict = "more"
    BY <1>8, <2>1
  <2>2. CASE verdict # "more"
    <3>1. \E i \in DOMAIN buf :
            buf[i].code # 226 /\ Decisive(buf, Expected[Command], 0) = buf[i]
      BY <1>4, <1>10, <2>2, Deciding DEF verdict
    <3>2. Decisive(buf, Expected[Command], 0).fresh
      BY <1>11, <3>1 DEF StaleIs226
    <3> QED BY <1>8, <3>2
  <2> QED BY <2>1, <2>2
<1>14. Ended' /\ Len(requests') <= 1
  <2>1. replies # << >>
    BY <1>9
  <2> QED BY <1>1, <2>1 DEF MatchInv, Ended
<1>15. Requested' = Requested
  BY <1>1 DEF Requested
<1>16. CASE verdict = "more"
  <2>1. agenda' = agenda /\ call' = call /\ reply_buf' = buf /\ replies' = rest
    BY <1>16, <1>8 DEF user
  <2>2. At("recv")' /\ ~At("dial")' /\ Ahead' = Ahead /\ Command' = Command
    BY <1>1, <2>1 DEF At, Ahead, Command
  <2>3. Waiting'
    <3>1. Undecided'
      BY <1>16, <2>1, <2>2 DEF Undecided, verdict
    <3>2. control = "open" => Unanswered'
      BY <1>1, <1>2, <1>9, <2>1 DEF Waiting, Unanswered, Doings
    <3>3. control = "open" => Answered'
      <4>1. SUFFICES ASSUME control = "open", requests = << >>,
                            NEW j \in DOMAIN rest, rest[j].code # 226
            PROVE  /\ Len(rest) - j + Doings <= 1
                   /\ world.completes => \A k \in DOMAIN rest : k > j => rest[k].code = 226
        BY <1>1, <2>1 DEF Answered, Doings
      <4>2. n + j \in DOMAIN replies /\ replies[n + j].code # 226 /\ j \in Nat
        BY <1>9, <4>1
      <4>3. /\ Len(replies) - (n + j) + Doings <= 1
            /\ world.completes => \A k \in DOMAIN replies : k > n + j => replies[k].code = 226
        BY <1>2, <4>1, <4>2 DEF Waiting, Answered
      <4>4. Doings \in {0, 1}
        BY DEF Doings
      <4>5. Len(rest) - j + Doings <= 1
        BY <1>9, <4>2, <4>3, <4>4
      <4>6. ASSUME world.completes, NEW k \in DOMAIN rest, k > j
            PROVE  rest[k].code = 226
        <5>1. n + k \in DOMAIN replies /\ rest[k] = replies[n + k] /\ n + k > n + j
          BY <1>9, <4>2, <4>6
        <5> QED BY <4>3, <4>6, <5>1
      <4> QED BY <4>5, <4>6
    <3> QED BY <1>1, <1>2, <1>11, <2>1, <3>1, <3>2, <3>3 DEF Waiting
  <2>4. OneTransfer'
    BY <1>1, <1>2, <1>9, <1>15, <2>1, <2>2 DEF InOrder, OneTransfer
  <2>5. InOrder'
    BY <1>1, <1>2, <1>11, <2>1, <2>2, <2>3, <2>4 DEF InOrder
  <2> QED BY <1>1, <1>12, <1>13, <1>14, <2>1, <2>5 DEF MatchInv
<1>17. CASE verdict # "more"
  <2>1. GoesOn /\ replies' = rest /\ agenda' # agenda
    <3>1. CASE Done
      <4>1. agenda' = Tail(agenda) /\ call' = call
        BY <3>1 DEF Done, user
      <4>2. Len(Tail(agenda)) = Len(agenda) - 1 /\ Len(agenda) \in Nat
        BY <1>1, SeqParts DEF MatchInv, WellFormed, Agendas
      <4>3. agenda' # agenda
        BY <4>1, <4>2
      <4> QED BY <1>1, <1>8, <4>1, <4>3 DEF GoesOn
    <3>2. CASE Fail
      <4>1. agenda[1][1] = "recv" /\ 1 \in DOMAIN agenda
        BY <1>1, SeqParts DEF MatchInv, WellFormed, Agendas, At
      <4>2. \A i \in DOMAIN agenda' : agenda'[i][1] = "close"
        BY <1>1, <3>2, FailingCloses DEF MatchInv
      <4>3. agenda' # agenda
        BY <4>1, <4>2
      <4> QED BY <1>1, <1>8, <3>2, <4>3, Failing
    <3> QED BY <1>17, <1>8, <3>1, <3>2
  <2>2. /\ WellFormed(agenda', call'.op) /\ ~At("recv")' /\ call' = call
        /\ Ahead' => Ahead
    BY <1>1, <2>1, GoingOn DEF MatchInv, Ahead, GoesOn
  <2>3. PICK j \in 1 .. n : j \in DOMAIN replies /\ replies[j].code # 226
    <3>1. reply_buf # << >> => Judge(reply_buf, Expected[Command], 0) = "more"
      BY <1>2 DEF Waiting, Undecided
    <3>2. Judge(buf, Expected[Command], 0) # "more"
      BY <1>17 DEF verdict
    <3>3. \E j \in DOMAIN new : new[j].code # 226
      <4>1. DecidedBy(reply_buf, new, Command)
        BY <1>7, <3>1, <3>2 DEF DecidedBy
      <4>2. new # << >> /\ new \in Seq(Replies(P)) /\ reply_buf \in Seq(Replies(P))
        BY <1>9, <1>10
      <4> QED BY <1>4, <4>1, <4>2, NewDecides
    <3> QED BY <1>9, <3>3
  <2>4. ASSUME control = "open"
        PROVE  /\ requests = << >> /\ Len(rest) + Doings <= 1
               /\ world.completes => \A k \in DOMAIN rest : rest[k].code = 226
    <3>1. requests = << >>
      BY <1>2, <2>3, <2>4 DEF Waiting, Unanswered
    <3>2. /\ Len(replies) - j + Doings <= 1
          /\ world.completes => \A k \in DOMAIN replies : k > j => replies[k].code = 226
      BY <1>2, <2>3, <2>4, <3>1 DEF Waiting, Answered
    <3>3. Doings \in {0, 1}
      BY DEF Doings
    <3> QED BY <1>9, <3>1, <3>2, <3>3
  <2>5. Idle'
    BY <1>1, <2>1, <2>4 DEF Idle, Doings
  <2>6. OneTransfer'
    <3>1. ASSUME ~world.completes, Ahead \/ call.op \notin Transfers
          PROVE  task = NoTask /\ ~Requested /\ Len(requests) + Len(rest) <= 0
      <4>1. task = NoTask /\ ~Requested /\ Len(requests) + Len(replies) <= 1
        BY <1>1, <1>2, <3>1 DEF InOrder, OneTransfer
      <4>2. Len(requests) \in Nat /\ n >= 1
        BY <1>3 DEF Typed
      <4> QED BY <1>9, <4>1, <4>2
    <3> QED BY <1>1, <1>2, <1>15, <2>1, <2>2, <3>1 DEF InOrder, OneTransfer
  <2>7. InOrder'
    BY <1>1, <1>2, <1>11, <2>1, <2>2, <2>5, <2>6 DEF InOrder
  <2> QED BY <1>1, <1>12, <1>13, <1>14, <2>2, <2>7 DEF MatchInv
<1> QED BY <1>16, <1>17

\* RecvResponse without a reply.
LEMMA NoReplyKept ==
  ASSUME MatchInv, \A w \in Worlds : Careful(w), TimeOut \/ Disconnected
  PROVE  MatchInv'
<1>1. /\ At("recv") /\ Fail /\ cntrl_error' /\ reply_buf' = << >> /\ agenda # << >>
      /\ UNCHANGED <<world, control, heard, requests, replies, task>>
  BY DEF TimeOut, Disconnected, At, channel, server
<1>2. /\ WellFormed(agenda', call'.op) /\ failed' /\ ~At("recv")'
      /\ \A i \in DOMAIN agenda' : agenda'[i][1] = "close"
  BY <1>1, FailingCloses DEF MatchInv
<1>3. CASE requests = << >> /\ replies = << >> /\ task = NoTask
  BY <1>1, <1>2, <1>3, EmptyKept DEF MatchInv
<1>4. CASE world.checks
  <2>1. GivenUp'
    BY <1>1, <1>2, <1>4 DEF GivenUp
  <2>2. \E P : Typed(P)'
    BY <1>1, TypedKept DEF MatchInv
  <2>3. Ended'
    BY <1>1 DEF MatchInv, Ended
  <2> QED BY <1>1, <1>2, <2>1, <2>2, <2>3 DEF MatchInv
<1>5. (requests = << >> /\ replies = << >> /\ task = NoTask) \/ world.checks
  BY DEF TimeOut, Disconnected, Quiet, MatchInv, Ended, Careful
<1> QED BY <1>3, <1>4, <1>5

\* What a step of the server leaves alone.
LEMMA ServerLeaves ==
  ASSUME UNCHANGED client
  PROVE  /\ UNCHANGED <<world, reply_buf, agenda, call, heard, failed, cntrl_error>>
         /\ At("recv")' = At("recv") /\ At("dial")' = At("dial") /\ Command' = Command
         /\ Ahead' = Ahead /\ GivenUp' = GivenUp /\ Undecided' = Undecided
BY DEF client, user, At, Command, Ahead, GivenUp, Undecided

\* A command is served while its answer is waited for, after all others.
LEMMA ServedFacts ==
  ASSUME MatchInv, NEW P, Typed(P), NEW cmds, Serving(cmds)
  PROVE  /\ control = "open" /\ task = NoTask /\ requests' = << >> /\ requests # << >>
         /\ Len(requests) = 1 /\ DOMAIN requests = {1} /\ Head(requests) = requests[1]
         /\ Head(requests).cmd \in cmds /\ Head(requests) \in Requests(P)
         /\ InOrder => /\ At("recv") /\ Head(requests).fresh /\ Len(replies) <= 1
                       /\ \A j \in DOMAIN replies : replies[j].code = 226
<1>1. requests \in Seq(Requests(P)) /\ Len(replies) \in Nat
  BY DEF Typed
<1>2. /\ control = "open" /\ task = NoTask /\ requests # << >>
      /\ requests' = Tail(requests) /\ Head(requests).cmd \in cmds
  BY DEF Serving
<1>3. /\ Len(requests) \in Nat /\ DOMAIN requests = 1 .. Len(requests) /\ 1 \in DOMAIN requests
      /\ Head(requests) = requests[1] /\ Tail(requests) \in Seq(Requests(P))
      /\ Len(Tail(requests)) = Len(requests) - 1 /\ requests[1] \in Requests(P)
  BY <1>1, <1>2, SeqParts
<1>4. Len(requests) = 1
  BY <1>3 DEF MatchInv
<1>5. Tail(requests) = << >>
  <2>1. PICK t : t = Tail(requests)
    OBVIOUS
  <2>2. t \in Seq(Requests(P)) /\ Len(t) = 0
    BY <1>3, <1>4, <2>1
  <2> QED BY <2>1, <2>2
<1>6. ASSUME InOrder
      PROVE  /\ At("recv") /\ Head(requests).fresh /\ Len(replies) <= 1
             /\ \A j \in DOMAIN replies : replies[j].code = 226
  <2>1. At("recv")
    BY <1>2, <1>6 DEF InOrder, Idle
  <2>2. Unanswered
    BY <1>2, <1>6, <2>1 DEF InOrder, Waiting
  <2>3. Doings = 0 /\ Len(replies) \in Nat
    BY <1>1, <1>2 DEF Doings
  <2>4. Head(requests).fresh
    BY <1>3, <1>6 DEF InOrder
  <2> QED BY <1>2, <2>1, <2>2, <2>3, <2>4 DEF Unanswered
<1> QED BY <1>2, <1>3, <1>4, <1>5, <1>6

\* An answer goes behind the other replies.
LEMMA AnswerParts ==
  ASSUME NEW Q, Typed(Q), NEW code \in Nat, NEW fresh \in BOOLEAN, NEW p \in Q,
         Answer(code, fresh, p)
  PROVE  /\ replies' \in Seq(Replies(Q)) /\ Len(replies') = Len(replies) + 1
         /\ Len(replies) \in Nat /\ DOMAIN replies = 1 .. Len(replies)
         /\ DOMAIN replies' = 1 .. Len(replies) + 1
         /\ \A i \in DOMAIN replies : replies'[i] = replies[i]
         /\ replies'[Len(replies) + 1].code = code /\ replies'[Len(replies) + 1].fresh = fresh
<1>1. PICK r : r = [code |-> code, fresh |-> fresh, port |-> p]
  OBVIOUS
<1>2. r \in Replies(Q) /\ r.code = code /\ r.fresh = fresh
  BY <1>1 DEF Replies
<1>3. replies \in Seq(Replies(Q))
  BY DEF Typed
<1>4. replies' = Append(replies, r)
  BY <1>1 DEF Answer
<1> QED BY <1>2, <1>3, <1>4, Appending

\* A command is answered.
LEMMA AnsweredKept ==
  ASSUME MatchInv, NEW cmds, Serving(cmds), NEW code \in Nat, NEW p,
         Answer(code, Head(requests).fresh, p), UNCHANGED <<client, task>>,
         control' \in {"open", "hungup"}
  PROVE  MatchInv'
<1>1. PICK P, Q : Typed(P) /\ Q = P \cup {p}
  BY DEF MatchInv
<1>2. /\ control = "open" /\ task = NoTask /\ requests' = << >> /\ Len(requests) = 1
      /\ DOMAIN requests = {1} /\ Head(requests) = requests[1]
      /\ Head(requests) \in Requests(P)
      /\ InOrder => /\ At("recv") /\ Head(requests).fresh /\ Len(replies) <= 1
                    /\ \A j \in DOMAIN replies : replies[j].code = 226
  BY <1>1, ServedFacts
<1>3. Head(requests).fresh \in BOOLEAN /\ Typed(Q) /\ p \in Q
  BY <1>1, <1>2, Wider DEF Requests
<1>4. /\ replies' \in Seq(Replies(Q)) /\ Len(replies') = Len(replies) + 1
      /\ Len(replies) \in Nat /\ DOMAIN replies = 1 .. Len(replies)
      /\ DOMAIN replies' = 1 .. Len(replies) + 1
      /\ \A i \in DOMAIN replies : replies'[i] = replies[i]
      /\ replies'[Len(replies) + 1].fresh = Head(requests).fresh
  BY <1>1, <1>3, AnswerParts
<1>5. /\ UNCHANGED <<world, reply_buf, agenda, call, heard>>
      /\ At("recv")' = At("recv") /\ At("dial")' = At("dial")
      /\ Ahead' = Ahead /\ GivenUp' = GivenUp /\ Undecided' = Undecided
  BY ServerLeaves
<1>6. Typed(Q)'
  <2>1. << >> \in Seq(Requests(Q))
    OBVIOUS
  <2> QED BY <1>3, <1>2, <1>4, <1>5, <2>1 DEF Typed
<1>7. Len(<< >>) = 0 /\ DOMAIN << >> = {}
  OBVIOUS
<1>8. ASSUME InOrder
      PROVE  InOrder'
  <2>1. /\ At("recv") /\ Head(requests).fresh /\ Len(replies) <= 1
        /\ \A j \in DOMAIN replies : replies'[j].code = 226
    BY <1>2, <1>4, <1>8
  <2>2. StaleIs226(replies')
    BY <1>4, <2>1 DEF StaleIs226
  <2>3. Answered'
    <3>1. \A j \in DOMAIN replies' : replies'[j].code # 226 => j = Len(replies')
      BY <1>4, <2>1
    <3>2. Doings' = 0 /\ \A k \in DOMAIN replies' : ~(k > Len(replies'))
      BY <1>2, <1>4 DEF Doings
    <3>3. Len(replies') - Len(replies') + 0 <= 1
      BY <1>4
    <3> QED BY <3>1, <3>2, <3>3 DEF Answered
  <2>4. Waiting'
    BY <1>2, <1>5, <1>8, <2>1, <2>3 DEF InOrder, Waiting, Unanswered
  <2>5. OneTransfer'
    BY <1>2, <1>4, <1>5, <1>7, <1>8, <2>1 DEF InOrder, OneTransfer, Requested
  <2> QED BY <1>2, <1>5, <1>7, <2>1, <2>2, <2>4, <2>5 DEF InOrder
<1> QED BY <1>2, <1>5, <1>6, <1>7, <1>8 DEF MatchInv, Ended

\* RETR and STOR begin a transfer.
LEMMA BegunKept ==
  ASSUME MatchInv, Serving({"RETR", "STOR"}), NEW code \in Nat, NEW port,
         Answer(code, Head(requests).fresh, NoPort), UNCHANGED <<client, control>>,
         task' = [kind |-> Head(requests).cmd, file |-> Head(requests).file, port |-> port,
                  fresh |-> Head(requests).fresh, phase |-> "open", blocks |-> << >>]
  PROVE  MatchInv'
<1>1. PICK P, Q : Typed(P) /\ Q = P \cup {port, NoPort, "open", << >>}
  BY DEF MatchInv
<1>2. /\ control = "open" /\ task = NoTask /\ requests' = << >> /\ Len(requests) = 1
      /\ DOMAIN requests = {1} /\ Head(requests) = requests[1]
      /\ Head(requests) \in Requests(P)
      /\ Head(requests).cmd \in {"RETR", "STOR"}
      /\ InOrder => /\ At("recv") /\ Head(requests).fresh /\ Len(replies) <= 1
                    /\ \A j \in DOMAIN replies : replies[j].code = 226
  BY <1>1, ServedFacts
<1>3. /\ Head(requests).fresh \in BOOLEAN /\ Head(requests).file \in P
      /\ Typed(Q) /\ NoPort \in Q
  BY <1>1, <1>2, Wider DEF Requests
<1>4. /\ replies' \in Seq(Replies(Q)) /\ Len(replies') = Len(replies) + 1
      /\ Len(replies) \in Nat /\ DOMAIN replies = 1 .. Len(replies)
      /\ DOMAIN replies' = 1 .. Len(replies) + 1
      /\ \A i \in DOMAIN replies : replies'[i] = replies[i]
      /\ replies'[Len(replies) + 1].fresh = Head(requests).fresh
  BY <1>1, <1>3, AnswerParts
<1>5. /\ UNCHANGED <<world, reply_buf, agenda, call, heard>>
      /\ At("recv")' = At("recv") /\ At("dial")' = At("dial")
      /\ Ahead' = Ahead /\ GivenUp' = GivenUp /\ Undecided' = Undecided
  BY ServerLeaves
<1>6. task' \in Tasks(Q) /\ task' # NoTask /\ task'.fresh = Head(requests).fresh
  <2>1. task' \in Tasks(Q)
    BY <1>1, <1>2, <1>3 DEF Tasks
  <2> QED BY <2>1, TaskIsSome
<1>7. Typed(Q)'
  <2>1. << >> \in Seq(Requests(Q))
    OBVIOUS
  <2> QED BY <1>3, <1>2, <1>4, <1>5, <1>6, <2>1 DEF Typed
<1>8. Len(<< >>) = 0 /\ DOMAIN << >> = {}
  OBVIOUS
<1>9. ASSUME InOrder
      PROVE  InOrder'
  <2>1. /\ At("recv") /\ Head(requests).fresh /\ Len(replies) <= 1
        /\ \A j \in DOMAIN replies : replies'[j].code = 226
    BY <1>2, <1>4, <1>9
  <2>2. StaleIs226(replies')
    BY <1>4, <2>1 DEF StaleIs226
  <2>3. Answered'
    <3>1. \A j \in DOMAIN replies' : replies'[j].code # 226 => j = Len(replies')
      BY <1>4, <2>1
    <3>2. Doings' = 1 /\ \A k \in DOMAIN replies' : ~(k > Len(replies'))
      BY <1>4, <1>6 DEF Doings
    <3>3. Len(replies') - Len(replies') + 1 <= 1
      BY <1>4
    <3> QED BY <3>1, <3>2, <3>3 DEF Answered
  <2>4. Waiting'
    BY <1>2, <1>5, <1>9, <2>1, <2>3 DEF InOrder, Waiting, Unanswered
  <2>5. OneTransfer'
    <3>1. Requested
      BY <1>2 DEF Requested
    <3> QED BY <1>5, <1>6, <1>9, <2>1, <3>1 DEF InOrder, OneTransfer
  <2> QED BY <1>5, <1>2, <1>8, <2>1, <2>2, <2>4, <2>5 DEF InOrder
<1> QED BY <1>2, <1>5, <1>7, <1>8, <1>9 DEF MatchInv, Ended

\* A transfer goes on.
LEMMA GoneOnKept ==
  ASSUME MatchInv, task # NoTask, UNCHANGED <<client, control, channel>>,
         NEW phase, NEW blocks,
         task' = [task EXCEPT !.phase = phase] \/ task' = [task EXCEPT !.blocks = blocks]
  PROVE  MatchInv'
<1>1. PICK P, Q : Typed(P) /\ Q = P \cup {phase, blocks}
  BY DEF MatchInv
<1>2. task \in Tasks(Q)
  BY <1>1, Wider DEF Typed
<1>3. task' \in Tasks(Q) /\ task' # NoTask /\ task'.fresh = task.fresh
  <2>1. task' \in Tasks(Q) /\ task'.fresh = task.fresh
    BY <1>1, <1>2 DEF Tasks
  <2> QED BY <2>1, TaskIsSome
<1>4. /\ UNCHANGED <<world, reply_buf, agenda, call, heard, control, requests, replies>>
      /\ At("recv")' = At("recv") /\ At("dial")' = At("dial")
      /\ Ahead' = Ahead /\ GivenUp' = GivenUp /\ Undecided' = Undecided
  BY ServerLeaves DEF channel
<1>5. Typed(Q)'
  <2>1. Typed(Q)
    BY <1>1, <1>3, Wider
  <2> QED BY <1>3, <1>4, <2>1 DEF Typed
<1>6. Doings' = Doings /\ Requested' = Requested
  BY <1>3, <1>4 DEF Doings, Requested
<1>7. ASSUME InOrder
      PROVE  InOrder'
  <2>1. At("recv") => Waiting'
    <3>1. Unanswered => Unanswered'
      BY <1>3, <1>4, <1>6 DEF Unanswered
    <3>2. Answered => Answered'
      BY <1>4, <1>6 DEF Answered
    <3> QED BY <1>4, <1>7, <3>1, <3>2 DEF InOrder, Waiting
  <2>2. ~At("recv") => Idle'
    BY <1>4, <1>6, <1>7 DEF InOrder, Idle
  <2>3. OneTransfer'
    BY <1>3, <1>4, <1>6, <1>7 DEF InOrder, OneTransfer
  <2> QED BY <1>4, <1>7, <2>1, <2>2, <2>3 DEF InOrder
<1> QED BY <1>3, <1>4, <1>5, <1>7 DEF MatchInv, Ended

\* A transfer ends; where it breaks off it is the last of its connection.
LEMMA EndKept ==
  ASSUME MatchInv, task # NoTask, NEW code \in Nat, EndTask(code),
         code # 226 => ~world.completes
  PROVE  MatchInv'
<1>1. PICK P, Q : Typed(P) /\ Q = P \cup {NoPort}
  BY DEF MatchInv
<1>2. task \in Tasks(P)
  BY <1>1 DEF Typed
<1>3. task.fresh \in BOOLEAN /\ Typed(Q) /\ NoPort \in Q
  BY <1>1, <1>2, Wider DEF Tasks
<1>4. /\ Answer(code, task.fresh, NoPort) /\ task' = NoTask
      /\ UNCHANGED <<client, control, requests>>
  BY DEF EndTask
<1>5. /\ replies' \in Seq(Replies(Q)) /\ Len(replies') = Len(replies) + 1
      /\ Len(replies) \in Nat /\ DOMAIN replies = 1 .. Len(replies)
      /\ DOMAIN replies' = 1 .. Len(replies) + 1
      /\ \A i \in DOMAIN replies : replies'[i] = replies[i]
      /\ replies'[Len(replies) + 1].code = code
      /\ replies'[Len(replies) + 1].fresh = task.fresh
  BY <1>1, <1>3, <1>4, AnswerParts
<1>6. /\ UNCHANGED <<world, reply_buf, agenda, call, heard>>
      /\ At("recv")' = At("recv") /\ At("dial")' = At("dial")
      /\ Ahead' = Ahead /\ GivenUp' = GivenUp /\ Undecided' = Undecided
  BY <1>4, ServerLeaves
<1>7. Typed(Q)'
  BY <1>3, <1>4, <1>5, <1>6 DEF Typed
<1>8. control = "open"
  BY DEF MatchInv, Ended
<1>9. Doings = 1 /\ Doings' = 0 /\ Requested' = Requested
  BY <1>4 DEF Doings, Requested
<1>10. ASSUME InOrder
       PROVE  InOrder'
  <2>1. code # 226 => task.fresh
    BY <1>10 DEF InOrder, OneTransfer
  <2>2. StaleIs226(replies')
    BY <1>5, <1>10, <2>1 DEF InOrder, StaleIs226
  <2>3. OneTransfer'
    BY <1>4, <1>6, <1>9, <1>10 DEF InOrder, OneTransfer
  <2>4. ~At("recv") => Idle'
    <3>1. ASSUME ~At("recv")
          PROVE  /\ requests = << >> /\ Len(replies) + 1 <= 1
                 /\ world.completes => \A j \in DOMAIN replies : replies[j].code = 226
      BY <1>8, <1>9, <1>10, <3>1 DEF InOrder, Idle
    <3>2. ASSUME ~At("recv"), world.completes, NEW j \in DOMAIN replies'
          PROVE  replies'[j].code = 226
      BY <1>5, <3>1, <3>2
    <3> QED BY <1>4, <1>5, <1>6, <1>9, <3>1, <3>2 DEF Idle
  <2>5. ASSUME At("recv")
        PROVE  Waiting'
    <3>1. Waiting
      BY <1>10, <2>5 DEF InOrder
    <3>2. Unanswered'
      <4>1. ASSUME requests # << >>
            PROVE  Len(replies) + 1 <= 1 /\ ~task.fresh
        BY <1>8, <1>9, <3>1, <4>1 DEF Waiting, Unanswered
      <4>2. ASSUME requests # << >>, NEW j \in DOMAIN replies'
            PROVE  replies'[j].code = 226
        BY <1>5, <2>1, <4>1, <4>2
      <4> QED BY <1>4, <1>5, <1>9, <4>1, <4>2 DEF Unanswered
    <3>3. Answered'
      <4>1. SUFFICES ASSUME requests = << >>, NEW j \in DOMAIN replies', replies'[j].code # 226
            PROVE  /\ Len(replies') - j + 0 <= 1
                   /\ world.completes =>
                        \A k \in DOMAIN replies' : k > j => replies'[k].code = 226
        BY <1>4, <1>6, <1>9 DEF Answered
      <4>2. CASE j = Len(replies) + 1
        BY <1>5, <4>2
      <4>3. CASE j \in DOMAIN replies
        <5>1. /\ Len(replies) - j + 1 <= 1
              /\ world.completes => \A k \in DOMAIN replies : k > j => replies[k].code = 226
          BY <1>5, <1>8, <1>9, <3>1, <4>1, <4>3 DEF Waiting, Answered
        <5>2. Len(replies') - j + 0 <= 1
          BY <1>5, <4>3, <5>1
        <5>3. ASSUME world.completes, NEW k \in DOMAIN replies', k > j
              PROVE  replies'[k].code = 226
          BY <1>5, <5>1, <5>3
        <5> QED BY <5>2, <5>3
      <4> QED BY <1>5, <4>2, <4>3
    <3> QED BY <1>6, <1>4, <3>1, <3>2, <3>3 DEF Waiting
  <2> QED BY <1>4, <1>6, <1>10, <2>2, <2>3, <2>4, <2>5 DEF InOrder
<1> QED BY <1>4, <1>6, <1>7, <1>8, <1>10 DEF MatchInv, Ended

\* The server.
LEMMA ServerKept ==
  ASSUME MatchInv, ServerNext
  PROVE  MatchInv'
<1>1. control \in {"closed", "open", "hungup"}
  BY DEF MatchInv
<1>2. CASE ServeSimple
  <2>1. PICK code : /\ code \in {Expected[Head(requests).cmd], 550}
                    /\ Answer(code, Head(requests).fresh, NoPort)
    BY <1>2 DEF ServeSimple
  <2>2. Serving(DOMAIN Expected \ {"QUIT", "PASV", "PORT", "RETR", "STOR"})
    BY <1>2 DEF ServeSimple
  <2>3. code \in Nat
    <3>1. Head(requests).cmd \in Commands
      BY <2>2 DEF Serving, Commands
    <3> QED BY <2>1, <3>1, CommandFacts
  <2>4. UNCHANGED <<client, task, control>> /\ control = "open"
    BY <1>2 DEF ServeSimple, Serving, server
  <2> QED BY <2>1, <2>2, <2>3, <2>4, AnsweredKept
<1>3. CASE ServeQuit
  BY <1>3, AnsweredKept DEF ServeQuit, server
<1>4. CASE ServePasv
  <2>1. /\ Serving({"PASV"}) /\ UNCHANGED <<client, task, control>> /\ control = "open"
        /\ \/ Answer(227, Head(requests).fresh, NewPort)
           \/ Answer(502, Head(requests).fresh, NoPort)
    BY <1>4 DEF ServePasv, Serving
  <2> QED BY <2>1, AnsweredKept
<1>5. CASE ServePort
  <2>1. /\ Serving({"PORT"}) /\ UNCHANGED <<client, task, control>> /\ control = "open"
        /\ \/ Answer(200, Head(requests).fresh, NoPort)
           \/ Answer(501, Head(requests).fresh, NoPort)
    BY <1>5 DEF ServePort, Serving
  <2> QED BY <2>1, AnsweredKept
<1>6. CASE ServeTransfer
  <2>1. Serving({"RETR", "STOR"}) /\ UNCHANGED <<client, control>> /\ control = "open"
    BY <1>6 DEF ServeTransfer, Serving
  <2>2. CASE Answer(550, Head(requests).fresh, NoPort) /\ UNCHANGED task
    BY <2>1, <2>2, AnsweredKept
  <2>3. ASSUME NEW code \in {125, 150}, NEW port, Answer(code, Head(requests).fresh, NoPort),
               task' = [kind |-> Head(requests).cmd, file |-> Head(requests).file, port |-> port,
                        fresh |-> Head(requests).fresh, phase |-> "open", blocks |-> << >>]
        PROVE  MatchInv'
    BY <2>1, <2>3, BegunKept
  <2> QED BY <1>6, <2>2, <2>3 DEF ServeTransfer
<1>7. CASE OpenData
  BY <1>7, GoneOnKept DEF OpenData, Doing
<1>8. CASE MoveData
  <2>1. task # NoTask /\ UNCHANGED <<client, control, channel>>
    BY <1>8 DEF MoveData, Doing
  <2>2. \E blocks : task' = [task EXCEPT !.blocks = blocks]
    BY <1>8 DEF MoveData
  <2> QED BY <2>1, <2>2, GoneOnKept
<1>9. CASE FinishData
  BY <1>9, EndKept DEF FinishData, Doing
<1>10. CASE AbortData
  BY <1>10, EndKept DEF AbortData, Doing
<1> QED BY <1>2, <1>3, <1>4, <1>5, <1>6, <1>7, <1>8, <1>9, <1>10 DEF ServerNext

\* Where texts hold codes, no server breaks its word and no answer is late.
LEMMA TextWorld ==
  ASSUME MatchInv, \A w \in Worlds : Careful(w), ~world.plain
  PROVE  ~world.completes /\ ~world.checks /\ world.patient /\ InOrder
BY DEF MatchInv, Careful, GivenUp

\* A command and a connection are answered by what comes after them.
LEMMA TextSent ==
  ASSUME MatchInv, \A w \in Worlds : Careful(w), ~world.plain, Dial \/ Send, At("recv")'
  PROVE  TextInv'
<1>1. ~world.completes /\ InOrder
  BY TextWorld
<1>2. CASE Dial
  <2>1. At("dial") /\ requests' = << >> /\ reply_buf' = << >> /\ task' = NoTask
    BY <1>2 DEF Dial, EndSession
  <2>2. PICK code \in {220, 421} :
          /\ Done /\ replies' = << [code |-> code, fresh |-> TRUE, port |-> NoPort] >>
    <3>1. agenda' # << >>
      BY DEF At
    <3> QED BY <1>2, <3>1 DEF Dial
  <2>3. Command' = "CONNECT"
    BY <2>1, <2>2, SendIsAnswered DEF MatchInv, Done, user
  <2>4. replies'[1].code = code /\ replies' # << >>
    <3> DEFINE r == [code |-> code, fresh |-> TRUE, port |-> NoPort]
    <3>1. r.code = code
      OBVIOUS
    <3>2. replies' = << r >>
      BY <2>2
    <3> HIDE DEF r
    <3>3. << r >>[1] = r /\ << r >> # << >>
      OBVIOUS
    <3> QED BY <3>1, <3>2, <3>3
  <2>5. Decides(replies'[1], "CONNECT")
    BY <2>4 DEF Decides, Expected
  <2>6. DOMAIN << >> = {}
    OBVIOUS
  <2> QED BY <2>1, <2>3, <2>4, <2>5, <2>6 DEF TextInv
<1>3. CASE Send
  <2>1. /\ At("send") /\ ~At("dial") /\ ~At("recv") /\ agenda # << >> /\ reply_buf' = << >>
    BY <1>3 DEF Send, At
  <2>2. Ahead
    <3>1. 1 \in DOMAIN agenda /\ Head(agenda) = agenda[1]
      BY <2>1, SeqParts DEF MatchInv, WellFormed, Agendas
    <3> QED BY <2>1, <3>1 DEF Ahead, At
  <2>3. requests = << >> /\ replies = << >> /\ task = NoTask
    <3>1. task = NoTask /\ Len(requests) + Len(replies) <= 0
      BY <1>1, <2>1, <2>2 DEF InOrder, OneTransfer
    <3>2. PICK P : requests \in Seq(Requests(P)) /\ replies \in Seq(Replies(P))
      BY DEF MatchInv, Typed
    <3>3. Len(requests) = 0 /\ Len(replies) = 0
      BY <3>1, <3>2
    <3> QED BY <3>1, <3>2, <3>3
  <2>4. CASE control = "closed"
    <3>1. Fail
      BY <1>3, <2>4 DEF Send
    <3> QED BY <2>1, <3>1, FailingCloses DEF MatchInv
  <2>5. CASE Done /\ UNCHANGED <<channel, task>>
    <3>1. requests' = << >> /\ replies' = << >> /\ task' = NoTask
      BY <2>3, <2>5 DEF channel
    <3>2. DOMAIN << >> = {}
      OBVIOUS
    <3> QED BY <2>1, <3>1, <3>2 DEF TextInv
  <2>6. ASSUME NEW r, Done, requests' = Append(Stale(requests), r), r.cmd = Command,
               replies' = Stale(replies), task' = NoTask
        PROVE  TextInv'
    <3>1. Command' = Command
      BY <2>1, <2>6, SendIsAnswered DEF MatchInv, Done, user
    <3>2. Stale(<< >>) = << >> /\ Append(<< >>, r) = << r >>
      BY DEF Stale
    <3>3. requests' = << r >> /\ replies' = << >>
      BY <2>3, <2>6, <3>2
    <3>4. DOMAIN << r >> = {1} /\ << r >>[1] = r
      OBVIOUS
    <3>5. \A i \in DOMAIN requests' : requests'[i].cmd = Command'
      BY <2>6, <3>1, <3>3, <3>4
    <3> QED BY <2>1, <2>6, <3>3, <3>5 DEF TextInv
  <2>7. CASE control = "open"
    <3>1. PICK r : r = [cmd |-> Command, fresh |-> TRUE, port |-> port_buf, file |-> call.file]
      OBVIOUS
    <3>2. /\ Done /\ requests' = Append(Stale(requests), r) /\ replies' = Stale(replies)
          /\ task' = NoTask
      BY <1>3, <2>3, <2>7, <3>1 DEF Send
    <3>3. r.cmd = Command
      BY <3>1
    <3> QED BY <2>6, <3>2, <3>3
  <2> QED BY <1>3, <2>4, <2>5, <2>7 DEF Send
<1> QED BY <1>2, <1>3

\* An answer that decides comes when nothing else is there; what comes later goes behind it.
LEMMA TextAnswered ==
  ASSUME MatchInv, TextInv, \A w \in Worlds : Careful(w), ~world.plain, At("recv"),
         UNCHANGED client, NEW cmds, Serving(cmds), NEW code \in Nat, NEW p,
         Answer(code, Head(requests).fresh, p),
         \/ code >= 400 \/ code \in {110, 120, 125, 202, 225, 332}
         \/ code = Expected[Head(requests).cmd]
  PROVE  TextInv'
<1>1. PICK P : Typed(P)
  BY DEF MatchInv
<1>2. /\ requests' = << >> /\ requests # << >> /\ DOMAIN requests = {1}
      /\ Head(requests) = requests[1] /\ Head(requests) \in Requests(P)
  BY <1>1, ServedFacts
<1>3. replies = << >> /\ Head(requests).cmd = Command /\ reply_buf = << >>
  BY <1>2 DEF TextInv
<1>4. PICK r : r = [code |-> code, fresh |-> Head(requests).fresh, port |-> p]
  OBVIOUS
<1>5. replies' = << r >> /\ r.code = code
  <2>1. replies' = Append(<< >>, r)
    BY <1>3, <1>4 DEF Answer
  <2> QED BY <1>4, <2>1
<1>6. << r >>[1] = r /\ << r >> # << >> /\ DOMAIN << >> = {}
  OBVIOUS
<1>7. Command' = Command /\ reply_buf' = reply_buf
  BY ServerLeaves
<1>8. Decides(r, Command)
  BY <1>3, <1>5 DEF Decides
<1>9. replies'[1] = r /\ replies' # << >>
  BY <1>5, <1>6
<1> QED BY <1>2, <1>3, <1>6, <1>7, <1>8, <1>9 DEF TextInv

\* The server.
LEMMA TextServed ==
  ASSUME MatchInv, TextInv, \A w \in Worlds : Careful(w), ~world.plain, At("recv"), ServerNext
  PROVE  TextInv'
<1>1. PICK P : Typed(P)
  BY DEF MatchInv
<1>2. CASE ServeSimple
  <2>1. PICK code : /\ code \in {Expected[Head(requests).cmd], 550}
                    /\ Answer(code, Head(requests).fresh, NoPort)
    BY <1>2 DEF ServeSimple
  <2>2. Serving(DOMAIN Expected \ {"QUIT", "PASV", "PORT", "RETR", "STOR"}) /\ UNCHANGED client
    BY <1>2 DEF ServeSimple
  <2>3. code \in Nat
    <3>1. Head(requests).cmd \in Commands
      BY <2>2 DEF Serving, Commands
    <3> QED BY <2>1, <3>1, CommandFacts
  <2>4. code >= 400 \/ code = Expected[Head(requests).cmd]
    BY <2>1
  <2> QED BY <2>1, <2>2, <2>3, <2>4, TextAnswered
<1>3. CASE ServeQuit \/ ServePasv \/ ServePort \/ ServeTransfer
  <2>1. UNCHANGED client
    BY <1>3 DEF ServeQuit, ServePasv, ServePort, ServeTransfer
  <2>2. ASSUME NEW cmds, Serving(cmds), NEW code \in Nat, NEW p,
               Answer(code, Head(requests).fresh, p),
               code >= 400 \/ code = 125 \/ \A cmd \in cmds : code = Expected[cmd]
        PROVE  TextInv'
    <3>1. Head(requests).cmd \in cmds
      BY <2>2 DEF Serving
    <3>2. \/ code >= 400 \/ code \in {110, 120, 125, 202, 225, 332}
          \/ code = Expected[Head(requests).cmd]
      BY <2>2, <3>1
    <3> QED BY <2>1, <2>2, <3>2, TextAnswered
  <2>3. /\ Expected["QUIT"] = 221 /\ Expected["PASV"] = 227 /\ Expected["PORT"] = 200
        /\ Expected["RETR"] = 150 /\ Expected["STOR"] = 150
    BY DEF Expected
  <2>4. CASE ServeQuit
    <3>1. Serving({"QUIT"}) /\ Answer(221, Head(requests).fresh, NoPort)
      BY <2>4 DEF ServeQuit
    <3> QED BY <2>2, <2>3, <3>1
  <2>5. CASE ServePasv
    <3>1. /\ Serving({"PASV"})
          /\ \/ Answer(227, Head(requests).fresh, NewPort)
             \/ Answer(502, Head(requests).fresh, NoPort)
      BY <2>5 DEF ServePasv
    <3> QED BY <2>2, <2>3, <3>1
  <2>6. CASE ServePort
    <3>1. /\ Serving({"PORT"})
          /\ \/ Answer(200, Head(requests).fresh, NoPort)
             \/ Answer(501, Head(requests).fresh, NoPort)
      BY <2>6 DEF ServePort
    <3> QED BY <2>2, <2>3, <3>1
  <2>7. CASE ServeTransfer
    <3>1. /\ Serving({"RETR", "STOR"})
          /\ \E code \in {125, 150, 550} : Answer(code, Head(requests).fresh, NoPort)
      BY <2>7 DEF ServeTransfer
    <3> QED BY <2>2, <2>3, <3>1
  <2> QED BY <1>3, <2>4, <2>5, <2>6, <2>7
<1>4. CASE OpenData \/ MoveData
  <2>1. UNCHANGED client /\ UNCHANGED channel /\ task # NoTask
    BY <1>4 DEF OpenData, MoveData, Doing
  <2> QED BY <2>1, ServerLeaves DEF TextInv, channel
<1>5. CASE FinishData \/ AbortData
  <2>1. PICK code \in {226, 425, 426} : EndTask(code) /\ task # NoTask
    BY <1>5 DEF FinishData, AbortData, Doing
  <2>2. /\ UNCHANGED client /\ requests' = requests /\ task' = NoTask
        /\ Answer(code, task.fresh, NoPort)
    BY <2>1 DEF EndTask
  <2>3. replies # << >> /\ Decides(replies[1], Command)
    BY <2>1 DEF TextInv
  <2>4. replies' # << >> /\ replies'[1] = replies[1]
    <3>1. replies \in Seq(Replies(P))
      BY <1>1 DEF Typed
    <3>2. \A r : Append(replies, r) # << >> /\ Append(replies, r)[1] = replies[1]
      BY <2>3, <3>1
    <3> QED BY <2>2, <3>2 DEF Answer
  <2> QED BY <2>2, <2>3, <2>4, ServerLeaves DEF TextInv
<1> QED BY <1>2, <1>3, <1>4, <1>5 DEF ServerNext

\* Every step leaves the texts unread.
LEMMA TextKept ==
  ASSUME MatchInv, TextInv, Rearmed => PortInv, \A w \in Worlds : Careful(w), Next
  PROVE  TextInv'
<1>1. world' = world
  BY DEF Next, UserNext, ClientNext, Mishap, ServerNext, CallConnect, CallSimple, CallMove,
     CallDownload, CallUpload, Call, CallClose, CheckError, FTPModeSet, Dial, Send, RecvResponse,
     TimeOut, Disconnected, Connect, Listen, Accept, ReadBlock, ReadEnd, WriteBlock, WriteFails,
     CloseData, AcceptFails, ReadFails, ReadFileFails, ServeSimple, ServeQuit, ServePasv,
     ServePort, ServeTransfer, OpenData, MoveData, FinishData, AbortData, EndTask, client
<1>2. SUFFICES ASSUME ~world.plain, At("recv")' PROVE TextInv'
  BY <1>1 DEF TextInv
<1>3. CASE CallConnect \/ CallSimple \/ CallMove \/ CallDownload \/ CallUpload
  <2>1. Body(agenda', call'.op)
    BY <1>3, CallsAreBodies
  <2>2. Head(agenda') = agenda'[1]
    BY <2>1, SeqParts DEF Body, WellFormed, Agendas
  <2> QED BY <1>2, <2>1, <2>2 DEF Body, At
<1>4. CASE CallClose \/ CheckError \/ \E passive \in BOOLEAN : FTPModeSet(passive)
  BY <1>2, <1>4 DEF CallClose, CheckError, FTPModeSet, At
<1>5. CASE Dial \/ Send
  BY <1>2, <1>5, TextSent
<1>6. ASSUME ClientNext \/ Mishap, ~Dial, ~Send
      PROVE  FALSE
  <2>1. GoesOn
    BY <1>6, ClientGoesOn
  <2>2. agenda' = agenda \/ (agenda' = Tail(agenda) /\ (At("send") \/ At("dial")))
    BY <1>2, <2>1, GoingOn DEF MatchInv
  <2>3. CASE RecvResponse
    <3>1. At("recv") /\ ~At("send") /\ ~At("dial") /\ agenda # << >>
      BY <2>3 DEF RecvResponse, At
    <3>2. PICK n \in 1 .. Len(replies) : Received(n, 0)
      BY <2>3, CodesDecide
    <3>3. PICK P : Typed(P)
      BY DEF MatchInv
    <3>4. /\ replies \in Seq(Replies(P)) /\ replies # << >> /\ n \in 1 .. Len(replies)
          /\ reply_buf = << >> /\ Decides(replies[1], Command)
      <4>1. replies \in Seq(Replies(P)) /\ n \in 1 .. Len(replies)
        BY <3>3 DEF Typed
      <4>2. replies # << >>
        BY <4>1
      <4> QED BY <1>2, <3>1, <4>1, <4>2 DEF TextInv
    <3>5. PICK buf : buf = SubSeq(replies, 1, n)
      OBVIOUS
    <3>6. buf = reply_buf \o SubSeq(replies, 1, n)
      <4>1. SubSeq(replies, 1, n) \in Seq(Replies(P))
        BY <3>4, Reading
      <4>2. \A s \in Seq(Replies(P)) : << >> \o s = s
        OBVIOUS
      <4> QED BY <3>4, <3>5, <4>1, <4>2
    <3>7. Len(buf) \in Nat /\ Len(buf) >= 1 /\ buf[1] = replies[1]
      <4>1. /\ buf \in Seq(Replies(P)) /\ DOMAIN buf = 1 .. n
            /\ \A i \in 1 .. n : buf[i] = replies[i]
        BY <3>4, <3>5, Reading
      <4>2. n \in Nat /\ n >= 1
        BY <3>4
      <4> QED BY <4>1, <4>2
    <3>8. Judge(buf, Expected[Command], 0) # "more"
      <4>1. Decides(buf[1], Command) /\ 1 \in 1 .. Len(buf)
        BY <3>4, <3>7
      <4> QED BY <4>1 DEF Decides, Judge
    <3>9. Done \/ Fail
      BY <3>2, <3>6, <3>8, Zenon DEF Received
    <3>10. ~Fail
      BY <1>2, <3>1, FailingCloses DEF MatchInv
    <3>11. agenda' = Tail(agenda) /\ Len(Tail(agenda)) = Len(agenda) - 1 /\ Len(agenda) \in Nat
      BY <3>1, <3>9, <3>10, SeqParts DEF Done, MatchInv, WellFormed, Agendas
    <3>12. agenda' # agenda
      BY <3>11
    <3> QED BY <2>2, <3>1, <3>12
  <2>4. CASE TimeOut \/ Disconnected
    <3>1. Fail /\ agenda # << >>
      BY <2>4 DEF TimeOut, Disconnected, At
    <3> QED BY <1>2, <3>1, FailingCloses DEF MatchInv
  <2>5. CASE \/ Connect \/ Listen \/ Accept \/ ReadBlock \/ ReadEnd \/ WriteBlock \/ WriteFails
             \/ CloseData \/ AcceptFails \/ ReadFails \/ ReadFileFails
    <3>1. ~At("send") /\ ~At("recv") /\ ~At("dial")
      BY <2>5 DEF Connect, Listen, Accept, ReadBlock, ReadEnd, WriteBlock, WriteFails, CloseData,
         AcceptFails, ReadFails, ReadFileFails, At
    <3> QED BY <1>2, <2>2, <3>1 DEF At
  <2> QED BY <1>6, <2>3, <2>4, <2>5 DEF ClientNext, Mishap
<1>7. CASE ServerNext
  <2>1. At("recv")
    <3>1. UNCHANGED client
      BY <1>7 DEF ServerNext, ServeSimple, ServeQuit, ServePasv, ServePort, ServeTransfer,
         OpenData, MoveData, FinishData, AbortData, EndTask
    <3> QED BY <1>2, <3>1, ServerLeaves
  <2> QED BY <1>2, <1>7, <2>1, TextServed
<1> QED BY <1>3, <1>4, <1>5, <1>6, <1>7 DEF Next, UserNext

\* Every step keeps what is left in order.
LEMMA MatchKept ==
  ASSUME MatchInv, TextInv, Rearmed => PortInv, \A w \in Worlds : Careful(w), Next
  PROVE  MatchInv'
<1>1. CASE CallConnect \/ CallSimple \/ CallMove \/ CallDownload \/ CallUpload
  BY <1>1, CallKept
<1>2. CASE CallClose \/ CheckError
  BY <1>2, CloseKept
<1>3. ASSUME NEW passive \in BOOLEAN, FTPModeSet(passive)
      PROVE  MatchInv'
  BY <1>3, SameKept DEF FTPModeSet, server
<1>4. CASE Dial
  BY <1>4, DialKept
<1>5. CASE Send
  BY <1>5, SendKept
<1>6. CASE RecvResponse
  BY <1>6, RecvKept
<1>7. CASE TimeOut \/ Disconnected
  BY <1>7, NoReplyKept
<1>8. ASSUME \/ Connect \/ Listen \/ Accept \/ ReadBlock \/ ReadEnd \/ WriteBlock \/ WriteFails
             \/ CloseData \/ AcceptFails \/ ReadFails \/ ReadFileFails
      PROVE  MatchInv'
  <2>1. GoesOn
    BY <1>8, ClientGoesOn DEF ClientNext, Mishap
  <2>2. /\ UNCHANGED <<world, control, channel, task, heard, cntrl_error>>
        /\ reply_buf' \in {reply_buf, << >>}
    BY <1>8 DEF Connect, Listen, Accept, ReadBlock, ReadEnd, WriteBlock, WriteFails, CloseData,
       AcceptFails, ReadFails, ReadFileFails, session, server
  <2>3. ~At("send") /\ ~At("recv") /\ ~At("dial")
    BY <1>8 DEF Connect, Listen, Accept, ReadBlock, ReadEnd, WriteBlock, WriteFails, CloseData,
       AcceptFails, ReadFails, ReadFileFails, At
  <2>4. ASSUME GivenUp
        PROVE  GivenUp'
    <3>1. At("close")
      BY <2>1, <2>4, GivenUpCloses DEF GoesOn
    <3>2. failed' = failed
      BY <1>8, <3>1 DEF Connect, Listen, Accept, ReadBlock, ReadEnd, WriteBlock, WriteFails,
         CloseData, AcceptFails, ReadFails, ReadFileFails, At, Done, user
    <3>3. \A i \in DOMAIN agenda' :
            (\E j \in DOMAIN agenda : agenda'[i] = agenda[j]) \/ agenda'[i][1] = "close"
      BY <2>1, GoingOn DEF MatchInv
    <3> QED BY <2>2, <2>4, <3>2, <3>3 DEF GivenUp
  <2> QED BY <2>1, <2>2, <2>3, <2>4, QuietKept
<1>9. CASE ServerNext
  BY <1>9, ServerKept
<1> QED BY <1>1, <1>2, <1>3, <1>4, <1>5, <1>6, <1>7, <1>8, <1>9
        DEF Next, UserNext, ClientNext, Mishap

\* At first there is nothing to answer.
LEMMA MatchInitially == Init => MatchInv
<1> SUFFICES ASSUME Init PROVE MatchInv
  OBVIOUS
<1>1. WellFormed(agenda, call.op) /\ ~At("recv")
  BY WellClosed DEF Init, At
<1>2. /\ << >> \in Seq(Requests({})) /\ << >> \in Seq(Replies({}))
      /\ Len(<< >>) = 0 /\ DOMAIN << >> = {}
  OBVIOUS
<1>3. Typed({})
  BY <1>2 DEF Init, Typed
<1>4. InOrder
  BY <1>1, <1>2 DEF Init, InOrder, OneTransfer, Idle, Requested, StaleIs226
<1> QED BY <1>1, <1>2, <1>3, <1>4 DEF Init, MatchInv, Ended
\* No reply either.
LEMMA TextInitially == Init => TextInv
BY DEF Init, TextInv, At
\* A step that changes nothing that the replies depend on.
LEMMA TextSame ==
  ASSUME TextInv, UNCHANGED <<world, reply_buf, agenda, channel, task>>
  PROVE  TextInv'
BY DEF TextInv, channel, At, Command

\* RecvResponse takes no reply for the answer to a command it does not answer, although it
\* takes replies off as they come and FTPList, DownloadFile and UploadFile never wait for the
\* last one and although the code it awaits is looked for in all that was received
\* (c_ftp_client.cpp:537-613): as long as users close a connection on which an answer was
\* late, give one up on which a transfer was broken off, and no text holds a code that is
\* looked for or each connection is given up after its first transfer.
THEOREM RepliesAreMatched ==
  ASSUME \A w \in Worlds : Careful(w)
  PROVE  Spec => []RepliesMatched
<1> DEFINE Inv == MatchInv /\ TextInv /\ (Rearmed => PortInv)
<1>1. Init => Inv
  BY MatchInitially, TextInitially, PortInitially
<1>2. Inv /\ [Next]_vars => Inv'
  <2>1. Inv /\ Next => Inv'
    BY MatchKept, TextKept, PortKept DEF Rearmed
  <2>2. Inv /\ UNCHANGED vars => Inv'
    <3>1. UNCHANGED vars => /\ UNCHANGED <<world, session, reply_buf, agenda, user, heard>>
                            /\ UNCHANGED <<channel, task>>
                            /\ UNCHANGED <<DataPortListening, port_buf, bind_sock>>
      BY DEF vars, datasock, server
    <3>2. PortInv /\ UNCHANGED vars => PortInv'
      BY <3>1 DEF user, PortInv, At, Command
    <3> QED BY <3>1, <3>2, SameKept, TextSame DEF Rearmed
  <2> QED BY <2>1, <2>2
<1>3. Inv => RepliesMatched
  <2>1. SUFFICES ASSUME MatchInv PROVE RepliesMatched
    OBVIOUS
  <2>2. ASSUME At("send"), control = "open"
        PROVE  /\ requests = << >> /\ Len(replies) + Doings <= 1
               /\ \A i \in DOMAIN replies : replies[i].code = 226
    <3>1. ~At("close") /\ ~At("recv") /\ ~At("dial") /\ agenda # << >>
      BY <2>2 DEF At
    <3>2. InOrder
      BY <2>1, <3>1, GivenUpCloses DEF MatchInv
    <3>3. Ahead
      <4>1. 1 \in DOMAIN agenda /\ Head(agenda) = agenda[1]
        BY <2>1, <3>1, SeqParts DEF MatchInv, WellFormed, Agendas
      <4> QED BY <2>2, <4>1 DEF Ahead, At
    <3>4. Len(replies) \in Nat /\ DOMAIN replies = 1 .. Len(replies)
      BY <2>1, SeqParts DEF MatchInv, Typed
    <3>5. ~world.completes => Len(requests) + Len(replies) <= 0
      BY <3>1, <3>2, <3>3 DEF InOrder, OneTransfer
    <3>6. Idle
      BY <3>1, <3>2 DEF InOrder
    <3>7. requests = << >> => Len(requests) = 0
      OBVIOUS
    <3> QED BY <2>2, <3>4, <3>5, <3>6, <3>7 DEF Idle
  <2>3. DOMAIN replies = 1 .. Len(replies)
    BY <2>1, SeqParts DEF MatchInv, Typed
  <2> QED BY <2>1, <2>2, <2>3 DEF MatchInv, RepliesMatched, InStep, AnswersOwnCommand, Doings
<1> QED BY <1>1, <1>2, <1>3, PTL DEF Spec

------------------------------------------------------------------------------
(***************************************************************************)
(* Transfers that report success are whole, and those that fail leave the   *)
(* server the beginning of a file.                                          *)
(*                                                                          *)
(* MatchInv says which replies are on their way; TransferInv says what the  *)
(* two ends know of a transfer.  Scripted: what a call has still to do is   *)
(* the rest of one script, so a step knows the step that follows it.        *)
(* ServerInv: what the server's port, its transfer and its files have to do *)
(* with each other.  RequestInv and HungInv: what the server will find in a *)
(* command.  ClientInv: what the client knows at each step of the script,   *)
(* and that is carried by the replies; Said holds until a reply is read,    *)
(* Started from then on.  ResultInv: what is left of it when the call is    *)
(* over, which is the property.                                             *)
(***************************************************************************)

\* A port is left beside the one the server has and the one the client has.
EnoughPorts == \A a, b : \E p \in Ports : p # a /\ p # b

AnyPort == Ports \cup {NoPort}
FileNames == Files \cup {"none"}
Request == [cmd : Commands, fresh : BOOLEAN, port : AnyPort, file : FileNames]
Reply == [code : Nat, fresh : BOOLEAN, port : AnyPort]
Task == [kind : {"RETR", "STOR"}, file : Files, port : Ports, fresh : BOOLEAN,
         phase : {"open", "move"}, blocks : Seq(Block)]

SocketTypes ==
  /\ bind_sock \in Socket /\ accept_sock \in AnyPort /\ port_buf \in AnyPort
  /\ passive_mode \in BOOLEAN
CallTypes ==
  /\ failed \in BOOLEAN /\ got \in Seq(Block) /\ wrote \in Nat
  /\ call.file \in FileNames /\ (call.op \in Transfers => call.file \in Files)
ReplyTypes ==
  /\ requests \in Seq(Request) /\ replies \in Seq(Reply) /\ reply_buf \in Seq(Reply)
  /\ \A i \in DOMAIN replies : /\ replies[i].code # 225
                               /\ replies[i].code # 227 => replies[i].port = NoPort
ServerTypes ==
  /\ spas \in AnyPort /\ sport \in AnyPort
  /\ remote \in [Ports -> {"closed", "listening", "reached", "connected", "done"}]
  /\ data \in [Ports -> Seq(Block)] /\ disk \in [Files -> Seq(Block)]
  /\ task \in Task \cup {NoTask}
TransferTypes == SocketTypes /\ CallTypes /\ ReplyTypes /\ ServerTypes

\* What a transfer does, step by step, in a client that is armed.
AskedBy(op) == IF op = "download" THEN "RETR" ELSE "STOR"
MoverOf(op) == IF op = "download" THEN "read" ELSE "write"
Script(passive, op) ==
  IF passive
  THEN << <<"close", "">>, <<"send", "PASV">>, <<"recv", "PASV">>, <<"connect", "PASV">>,
          <<"send", AskedBy(op)>>, <<"recv", AskedBy(op)>>, <<MoverOf(op), "">>,
          <<"close", "">> >>
  ELSE << <<"close", "">>, <<"listen", "PORT">>, <<"send", "PORT">>, <<"recv", "PORT">>,
          <<"send", AskedBy(op)>>, <<"recv", AskedBy(op)>>, <<"accept", AskedBy(op)>>,
          <<MoverOf(op), "">>, <<"close", "">> >>
Length(passive) == IF passive THEN 8 ELSE 9
Rest(s, k) == SubSeq(s, k, Len(s))
\* The other calls use no data connection.
PlainStep(a, i) ==
  /\ a[i][1] \in {"send", "recv", "dial", "close"}
  /\ a[i][2] \notin {"PASV", "PORT", "RETR", "STOR"}
  /\ a[i][1] = "send" => i < Len(a) /\ a[i + 1][2] = a[i][2]
Plain(a) == \A i \in DOMAIN a : PlainStep(a, i)
InScript(a, passive, op) ==
  IF op \in Transfers
  THEN \E k \in 1 .. Length(passive) + 1 : a = Rest(Script(passive, op), k)
  ELSE Plain(a)
Scripted == InScript(agenda, passive_mode, call.op)
Finished == {<< >>, CloseDataPort}
Over == agenda \in Finished
Asked == AskedBy(call.op)
Mover == MoverOf(call.op)

\* The server's port, and what the server's end of each port is.
PortOf == IF spas = NoPort THEN sport ELSE spas
Untouched == IF spas = NoPort THEN "closed" ELSE "reached"
PortsInv ==
  /\ spas = NoPort \/ sport = NoPort
  /\ task # NoTask => task.port = PortOf
  /\ task = NoTask /\ PortOf # NoPort => data[PortOf] = << >>
  /\ \A p \in Ports :
       /\ remote[p] = "listening" => p = spas /\ task = NoTask
       /\ remote[p] = "reached" => p = spas
       /\ remote[p] = "connected" => task # NoTask /\ p = task.port

\* What the server is doing, and what it has done.
TaskInv ==
  task # NoTask =>
    /\ task.phase = "open" => task.blocks = << >> /\ remote[task.port] = Untouched
    /\ task.phase = "move" => remote[task.port] = "connected"
    /\ task.kind = "RETR" => \E n \in 0 .. Blocks : task.blocks = Prefix(task.file, n)
    /\ task.kind = "STOR" =>
         \E n \in 0 .. Blocks : task.blocks \o data[task.port] = Prefix(task.file, n)
DiskInv == \A f \in Files : \E n \in 0 .. Blocks : disk[f] = Prefix(f, n)

\* What the server has been asked.
ServerReady == task = NoTask /\ PortOf # NoPort /\ remote[PortOf] = Untouched
Free(p) == p \in Ports /\ p \notin {spas, sport} /\ data[p] = << >> /\ remote[p] = "closed"
NoData == bind_sock = Closed /\ accept_sock = NoPort
RequestInv ==
  requests # << >> =>
    /\ requests[1].cmd = "PASV" => NoData
    /\ requests[1].cmd = "PORT" => Free(requests[1].port)
    /\ requests[1].cmd \in {"RETR", "STOR"} =>
         requests[1].file \in Files /\ (PortOf # NoPort => ServerReady)
    /\ \A i \in DOMAIN replies : replies[i].code = 226
    /\ ~GivenUp => /\ At("recv") /\ requests[1].cmd = Command
                   /\ requests[1].file = call.file /\ requests[1].port = port_buf
HungInv ==
  control = "hungup" /\ ~GivenUp /\ replies # << >> =>
    /\ At("recv") /\ call.op \notin Transfers
    /\ \A i \in DOMAIN replies : i < Len(replies) => replies[i].code = 226

\* The port of this transfer, and what becomes of it.
Peer == IF passive_mode THEN bind_sock.port ELSE port_buf
Holds ==
  /\ Peer \in Ports
  /\ bind_sock = [as |-> IF passive_mode THEN "connected" ELSE "listening", port |-> Peer]
Ready == Holds /\ ServerReady /\ Peer = PortOf /\ (passive_mode <=> spas # NoPort)
Said(codes) == \E j \in DOMAIN replies : replies[j].code \in codes
Started ==
  IF task = NoTask
  THEN /\ remote[Peer] = "done"
       /\ world.completes /\ Asked = "RETR" => got \o data[Peer] = Whole(call.file)
  ELSE /\ task.kind = Asked /\ task.file = call.file /\ task.port = Peer
       /\ passive_mode => remote[Peer] \in {"reached", "connected"}
       /\ world.completes /\ Asked = "RETR" => got \o data[Peer] = task.blocks
       /\ Asked = "STOR" => task.blocks \o data[Peer] = Prefix(call.file, wrote)
Moving == /\ Holds /\ Started /\ DataEnd = Peer
          /\ remote[Peer] \in {"reached", "connected", "done"}

\* Where the client is in a transfer.
Is(step, cmd) == At(step) /\ Command = cmd
TellingPort ==
  /\ Holds /\ ~Said({125}) /\ (requests # << >> => Free(Peer))
  /\ Said({200}) => requests = << >> /\ Ready
Asking ==
  /\ Holds /\ (requests # << >> => Ready)
  /\ Said({125, 150}) => requests = << >> /\ Started
ClientInv ==
  call.op \in Transfers =>
    /\ ~At(Mover) /\ ~Over => got = << >> /\ wrote = 0
    /\ Is("listen", "PORT") => NoData
    /\ Is("send", "PASV") => NoData
    /\ Is("connect", "PASV") => reply_buf # << >>
    /\ Is("send", "PORT") => Holds /\ Free(Peer)
    /\ Is("recv", "PORT") => TellingPort
    /\ Is("send", Asked) => Ready
    /\ Is("recv", Asked) => Asking
    /\ Is("accept", Asked) => Holds /\ Started
    /\ At("read") => Moving
    /\ At("write") => wrote < Blocks /\ (DataEnd # NoPort => Moving)
ResultInv ==
  call.op \in Transfers /\ Over /\ ~failed /\ world.completes =>
    /\ call.op = "download" => got = Whole(call.file)
    /\ call.op = "upload" /\ ~world.overlapped /\ control = "open" =>
         IF task = NoTask THEN disk[call.file] = Whole(call.file)
         ELSE /\ task.kind = "STOR" /\ task.file = call.file
              /\ task.blocks \o data[task.port] = Whole(call.file)

ServerInv == PortsInv /\ TaskInv /\ DiskInv
TransferInv ==
  /\ Scripted /\ TransferTypes /\ ServerInv /\ RequestInv /\ HungInv
  /\ ClientInv /\ ResultInv

------------------------------------------------------------------------------
\* The agenda.

\* Sequences and their lengths.
LEMMA SeqLength ==
  ASSUME NEW S, NEW s \in Seq(S)
  PROVE  Len(s) \in Nat /\ DOMAIN s = 1 .. Len(s) /\ (s = << >> <=> Len(s) = 0)
BY EmptySeq

\* What is left of a sequence.
LEMMA SuffixParts ==
  ASSUME NEW S, NEW s \in Seq(S), NEW k \in 1 .. Len(s) + 1, NEW a, a = Rest(s, k)
  PROVE  /\ a \in Seq(S) /\ Len(s) \in Nat /\ k \in Nat
         /\ Len(a) = Len(s) - k + 1 /\ DOMAIN a = 1 .. Len(s) - k + 1
         /\ \A i \in 1 .. Len(s) - k + 1 : a[i] = s[k + i - 1]
         /\ (a = << >>) <=> (k = Len(s) + 1)
<1>1. /\ k \in Int /\ Len(s) \in Int /\ k \in Nat /\ Len(s) \in Nat
      /\ \A i \in k .. Len(s) : s[i] \in S
  OBVIOUS
<1>2. /\ a \in Seq(S) /\ Len(a) = IF k <= Len(s) THEN Len(s) - k + 1 ELSE 0
      /\ \A i \in 1 .. Len(s) - k + 1 : a[i] = s[k + i - 1]
  BY <1>1, SubSeqProperties DEF Rest
<1>3. Len(a) = Len(s) - k + 1
  BY <1>1, <1>2
<1>4. DOMAIN a = 1 .. Len(a) /\ (a = << >> <=> Len(a) = 0)
  BY <1>2, SeqLength, Zenon
<1>5. (a = << >>) <=> (k = Len(s) + 1)
  BY <1>1, <1>3, <1>4
<1> QED BY <1>1, <1>2, <1>3, <1>4, <1>5

\* Its head and its tail.
LEMMA SuffixStep ==
  ASSUME NEW S, NEW s \in Seq(S), NEW k \in 1 .. Len(s), NEW a, a = Rest(s, k)
  PROVE  /\ a # << >> /\ Head(a) = s[k] /\ k + 1 \in 1 .. Len(s) + 1
         /\ Tail(a) = Rest(s, k + 1)
<1>1. /\ Len(s) \in Nat /\ k \in Nat /\ k \in 1 .. Len(s) + 1 /\ k + 1 \in 1 .. Len(s) + 1
      /\ k # Len(s) + 1 /\ Len(s) \in k .. Len(s)
  OBVIOUS
<1>2. a # << >>
  BY <1>1, SuffixParts
<1> QED BY <1>1, <1>2, HeadTailOfSubSeq DEF Rest

Codes == {"", "PASV", "PORT", "RETR", "STOR"}

\* The steps of a transfer.
NoCmd == ""
Has(s, k, step, cmd) == s[k] = <<step, cmd>>
ScriptIs(s, n, p, asked, mover) ==
  /\ s \in Seq(Steps \X Codes) /\ Len(s) = n
  /\ asked \in {"RETR", "STOR"} /\ mover \in {"read", "write"}
  /\ p => /\ n = 8 /\ Has(s, 1, "close", NoCmd)
          /\ Has(s, 2, "send", "PASV") /\ Has(s, 3, "recv", "PASV")
          /\ Has(s, 4, "connect", "PASV")
          /\ Has(s, 5, "send", asked) /\ Has(s, 6, "recv", asked)
          /\ Has(s, 7, mover, NoCmd) /\ Has(s, 8, "close", NoCmd)
  /\ ~p => /\ n = 9 /\ Has(s, 1, "close", NoCmd)
           /\ Has(s, 2, "listen", "PORT")
           /\ Has(s, 3, "send", "PORT") /\ Has(s, 4, "recv", "PORT")
           /\ Has(s, 5, "send", asked) /\ Has(s, 6, "recv", asked)
           /\ Has(s, 7, "accept", asked)
           /\ Has(s, 8, mover, NoCmd) /\ Has(s, 9, "close", NoCmd)
LEMMA ScriptParts ==
  ASSUME NEW p \in BOOLEAN, NEW op
  PROVE  ScriptIs(Script(p, op), Length(p), p, AskedBy(op), MoverOf(op))
<1> SUFFICES ASSUME NEW s, s = Script(p, op), NEW asked, asked = AskedBy(op),
                    NEW mover, mover = MoverOf(op), NEW n, n = Length(p)
             PROVE  ScriptIs(s, n, p, asked, mover)
  OBVIOUS
<1> USE DEF ScriptIs, Has, NoCmd
<1>1. asked \in {"RETR", "STOR"} /\ mover \in {"read", "write"}
  BY DEF AskedBy, MoverOf
<1>2. PICK c, m, sa, ra, ac : /\ c = <<"close", "">> /\ m = <<mover, "">>
                              /\ sa = <<"send", asked>> /\ ra = <<"recv", asked>>
                              /\ ac = <<"accept", asked>>
  OBVIOUS
<1>3. /\ c \in Steps \X Codes /\ m \in Steps \X Codes /\ sa \in Steps \X Codes
      /\ ra \in Steps \X Codes /\ ac \in Steps \X Codes
  BY <1>1, <1>2 DEF Steps, Codes
<1>4. CASE p
  <2>1. PICK x, y, z : /\ x = <<"send", "PASV">> /\ y = <<"recv", "PASV">>
                       /\ z = <<"connect", "PASV">>
    OBVIOUS
  <2>2. x \in Steps \X Codes /\ y \in Steps \X Codes /\ z \in Steps \X Codes
    BY <2>1 DEF Steps, Codes
  <2>3. PICK q : q = << c, x, y, z, sa, ra, m, c >>
    OBVIOUS
  <2>4. /\ q \in Seq(Steps \X Codes) /\ Len(q) = 8 /\ q[1] = c /\ q[2] = x /\ q[3] = y
        /\ q[4] = z /\ q[5] = sa /\ q[6] = ra /\ q[7] = m /\ q[8] = c
    BY <1>3, <2>2, <2>3
  <2>5. s = q
    BY <1>2, <1>4, <2>1, <2>3, Zenon DEF Script
  <2>6. n = 8
    BY <1>4 DEF Length
  <2> QED BY <1>1, <1>2, <1>4, <2>1, <2>4, <2>5, <2>6, Zenon
<1>5. CASE ~p
  <2>1. PICK x, y, z : /\ x = <<"listen", "PORT">> /\ y = <<"send", "PORT">>
                       /\ z = <<"recv", "PORT">>
    OBVIOUS
  <2>2. x \in Steps \X Codes /\ y \in Steps \X Codes /\ z \in Steps \X Codes
    BY <2>1 DEF Steps, Codes
  <2>3. PICK q : q = << c, x, y, z, sa, ra, ac, m, c >>
    OBVIOUS
  <2>4. /\ q \in Seq(Steps \X Codes) /\ Len(q) = 9 /\ q[1] = c /\ q[2] = x /\ q[3] = y
        /\ q[4] = z /\ q[5] = sa /\ q[6] = ra /\ q[7] = ac /\ q[8] = m /\ q[9] = c
    BY <1>3, <2>2, <2>3
  <2>5. s = q
    BY <1>2, <1>5, <2>1, <2>3, Zenon DEF Script
  <2>6. n = 9
    BY <1>5 DEF Length
  <2> QED BY <1>1, <1>2, <1>5, <2>1, <2>4, <2>5, <2>6, Zenon
<1> QED BY <1>4, <1>5

\* CloseDataPort and nothing are what is left at the end.
LEMMA ScriptAt ==
  ASSUME NEW p \in BOOLEAN, NEW op, NEW s, s = Script(p, op), NEW n, n = Length(p),
         NEW k \in 1 .. n + 1, NEW a, a = Rest(s, k)
  PROVE  /\ n \in {8, 9} /\ (a \in Finished <=> k >= n)
         /\ k <= n => /\ a # << >> /\ Head(a) = s[k] /\ k + 1 \in 1 .. n + 1
                      /\ Tail(a) = Rest(s, k + 1)
         /\ k = n => a = CloseDataPort
         /\ k = n + 1 => a = << >>
<1>0. PICK asked, mover : ScriptIs(s, n, p, asked, mover)
  BY ScriptParts
<1>1. n \in {8, 9} /\ s \in Seq(Steps \X Codes) /\ Len(s) = n
  BY <1>0 DEF ScriptIs, Has, NoCmd
<1>2. s[n] = <<"close", "">>
  BY <1>0 DEF ScriptIs, Has, NoCmd
<1>3. k \in Nat /\ k <= n + 1 /\ k \in 1 .. Len(s) + 1
  BY <1>1
<1>4. /\ a \in Seq(Steps \X Codes) /\ Len(a) = n - k + 1
      /\ \A i \in 1 .. n - k + 1 : a[i] = s[k + i - 1]
      /\ (a = << >>) <=> (k = n + 1)
  <2>1. /\ a \in Seq(Steps \X Codes) /\ Len(a) = Len(s) - k + 1
        /\ \A i \in 1 .. Len(s) - k + 1 : a[i] = s[k + i - 1]
        /\ (a = << >>) <=> (k = Len(s) + 1)
    <3>1. PICK q, b : q = s /\ b = a
      OBVIOUS
    <3>2. q \in Seq(Steps \X Codes) /\ k \in 1 .. Len(q) + 1 /\ b = Rest(q, k)
      BY <1>1, <1>3, <3>1
    <3>3. /\ b \in Seq(Steps \X Codes) /\ Len(b) = Len(q) - k + 1
          /\ \A i \in 1 .. Len(q) - k + 1 : b[i] = q[k + i - 1]
          /\ (b = << >>) <=> (k = Len(q) + 1)
      BY <3>2, SuffixParts
    <3> QED BY <3>1, <3>3
  <2> QED BY <1>1, <2>1
<1>5. PICK c : c = <<"close", "">>
  OBVIOUS
<1>6. c \in Steps \X Codes
  BY <1>5 DEF Steps, Codes
<1>7. PICK d : d = << c >>
  OBVIOUS
<1>8. CloseDataPort = d /\ d \in Seq(Steps \X Codes) /\ Len(d) = 1 /\ d[1] = c /\ d # << >>
  BY <1>5, <1>6, <1>7, OneStep, Zenon DEF CloseDataPort
<1>9. ASSUME k = n PROVE a = d
  <2>1. Len(a) = 1 /\ a[1] = c
    <3>1. 1 \in 1 .. n - k + 1 /\ k + 1 - 1 = k /\ n - k + 1 = 1
      BY <1>1, <1>9
    <3>2. a[1] = s[k] /\ Len(a) = 1
      BY <1>4, <3>1
    <3> QED BY <1>2, <1>5, <1>9, <3>2
  <2> QED BY <1>4, <1>8, <2>1
<1>10. ASSUME k < n PROVE a # d
  <2>1. Len(a) # 1
    BY <1>1, <1>3, <1>4, <1>10
  <2> QED BY <1>8, <2>1
<1>11. ASSUME k <= n
       PROVE  a # << >> /\ Head(a) = s[k] /\ k + 1 \in 1 .. n + 1 /\ Tail(a) = Rest(s, k + 1)
  <2>1. k \in 1 .. Len(s)
    BY <1>1, <1>3, <1>11
  <2> QED BY <1>1, <2>1, SuffixStep
<1>12. a \in Finished <=> (a = << >> \/ a = d)
  BY <1>8, Zenon DEF Finished
<1>13. a \in Finished <=> k >= n
  BY <1>1, <1>3, <1>4, <1>9, <1>10, <1>12
<1> QED BY <1>1, <1>4, <1>8, <1>9, <1>11, <1>13

\* The step a transfer is at before it is over.
Stage(a, step, cmd) == a \notin Finished /\ Head(a)[1] = step /\ Head(a)[2] = cmd

\* a and t are what is left before and after a step of a transfer.
PassiveStage(a, t, asked, mover) ==
  \/ Stage(a, "close", NoCmd) /\ Stage(t, "send", "PASV")
  \/ Stage(a, "send", "PASV") /\ Stage(t, "recv", "PASV")
  \/ Stage(a, "recv", "PASV") /\ Stage(t, "connect", "PASV")
  \/ Stage(a, "connect", "PASV") /\ Stage(t, "send", asked)
  \/ Stage(a, "send", asked) /\ Stage(t, "recv", asked)
  \/ Stage(a, "recv", asked) /\ Stage(t, mover, NoCmd)
  \/ Stage(a, mover, NoCmd) /\ t \in Finished
ActiveStage(a, t, asked, mover) ==
  \/ Stage(a, "close", NoCmd) /\ Stage(t, "listen", "PORT")
  \/ Stage(a, "listen", "PORT") /\ Stage(t, "send", "PORT")
  \/ Stage(a, "send", "PORT") /\ Stage(t, "recv", "PORT")
  \/ Stage(a, "recv", "PORT") /\ Stage(t, "send", asked)
  \/ Stage(a, "send", asked) /\ Stage(t, "recv", asked)
  \/ Stage(a, "recv", asked) /\ Stage(t, "accept", asked)
  \/ Stage(a, "accept", asked) /\ Stage(t, mover, NoCmd)
  \/ Stage(a, mover, NoCmd) /\ t \in Finished

\* A place in the script is a stage.
LEMMA StageIs ==
  ASSUME NEW p \in BOOLEAN, NEW op, NEW k \in 1 .. Length(p), k # Length(p),
         NEW a, a = Rest(Script(p, op), k), NEW x, NEW c, Has(Script(p, op), k, x, c)
  PROVE  Stage(a, x, c)
<1>1. Length(p) \in Nat
  BY DEF Length
<1>2. k \in 1 .. Length(p) + 1 /\ k <= Length(p) /\ ~(k >= Length(p))
  BY <1>1
<1>3. a \notin Finished /\ Head(a) = <<x, c>>
  BY <1>2, ScriptAt DEF Has
<1> QED BY <1>3, StepParts DEF Stage

\* Names for what a transfer does.
Named(p, op, s, n, asked, mover) ==
  s = Script(p, op) /\ n = Length(p) /\ asked = AskedBy(op) /\ mover = MoverOf(op)

\* The stages of a transfer.
LEMMA Stages ==
  ASSUME NEW p \in BOOLEAN, NEW op \in Transfers, NEW a, InScript(a, p, op), a \notin Finished,
         NEW t, t = Tail(a)
  PROVE  /\ InScript(t, p, op)
         /\ p => PassiveStage(a, t, AskedBy(op), MoverOf(op))
         /\ ~p => ActiveStage(a, t, AskedBy(op), MoverOf(op))
<1>1. PICK s, n, asked, mover :
        Named(p, op, s, n, asked, mover) /\ ScriptIs(s, n, p, asked, mover)
  BY ScriptParts DEF Named
<1>2. PICK k \in 1 .. n + 1 : a = Rest(s, k)
  BY <1>1 DEF InScript, Named
<1>3. /\ n \in {8, 9} /\ ~(k >= n)
  BY <1>1, <1>2, ScriptAt DEF Named
<1>4. k \in 1 .. n /\ k # n /\ k + 1 \in 1 .. n + 1 /\ k <= n /\ k \in Nat
  BY <1>2, <1>3
<1>5. t = Rest(s, k + 1)
  BY <1>1, <1>2, <1>4, ScriptAt DEF Named
<1>6. InScript(t, p, op)
  BY <1>1, <1>4, <1>5 DEF InScript, Named
<1>7. ASSUME NEW x, NEW c, Has(s, k, x, c)
      PROVE  Stage(a, x, c)
  BY <1>1, <1>2, <1>4, <1>7, StageIs DEF Named
<1>8. ASSUME NEW x, NEW c, Has(s, k + 1, x, c), k + 1 # n
      PROVE  Stage(t, x, c)
  <2>1. k + 1 \in 1 .. n
    BY <1>3, <1>4
  <2> QED BY <1>1, <1>5, <1>8, <2>1, StageIs DEF Named
<1>9. k + 1 = n => t \in Finished
  <2>1. PICK j, b : j \in 1 .. n + 1 /\ j = k + 1 /\ b = t
    BY <1>4
  <2>2. b = Rest(s, j)
    BY <1>5, <2>1
  <2>3. j = n => b = CloseDataPort
    BY <1>1, <2>2, ScriptAt DEF Named
  <2> QED BY <2>1, <2>3 DEF Finished
<1>10. CASE p
  <2>1. /\ n = 8 /\ Has(s, 1, "close", NoCmd)
        /\ Has(s, 2, "send", "PASV") /\ Has(s, 3, "recv", "PASV")
        /\ Has(s, 4, "connect", "PASV")
        /\ Has(s, 5, "send", asked) /\ Has(s, 6, "recv", asked)
        /\ Has(s, 7, mover, NoCmd)
    BY <1>1, <1>10 DEF ScriptIs
  <2>2. k \in {1, 2, 3, 4, 5, 6, 7}
    BY <1>4, <2>1
  <2>3. PassiveStage(a, t, asked, mover)
    <3>2. CASE k = 1
      <4>1. Has(s, k, "close", NoCmd) /\ Has(s, k + 1, "send", "PASV") /\ k + 1 # n
        BY <2>1, <3>2
      <4>2. Stage(a, "close", NoCmd) /\ Stage(t, "send", "PASV")
        BY <1>7, <1>8, <4>1
      <4> QED BY <4>2 DEF PassiveStage
    <3>3. CASE k = 2
      <4>1. Has(s, k, "send", "PASV") /\ Has(s, k + 1, "recv", "PASV") /\ k + 1 # n
        BY <2>1, <3>3
      <4>2. Stage(a, "send", "PASV") /\ Stage(t, "recv", "PASV")
        BY <1>7, <1>8, <4>1
      <4> QED BY <4>2 DEF PassiveStage
    <3>4. CASE k = 3
      <4>1. Has(s, k, "recv", "PASV") /\ Has(s, k + 1, "connect", "PASV") /\ k + 1 # n
        BY <2>1, <3>4
      <4>2. Stage(a, "recv", "PASV") /\ Stage(t, "connect", "PASV")
        BY <1>7, <1>8, <4>1
      <4> QED BY <4>2 DEF PassiveStage
    <3>5. CASE k = 4
      <4>1. Has(s, k, "connect", "PASV") /\ Has(s, k + 1, "send", asked) /\ k + 1 # n
        BY <2>1, <3>5
      <4>2. Stage(a, "connect", "PASV") /\ Stage(t, "send", asked)
        BY <1>7, <1>8, <4>1
      <4> QED BY <4>2 DEF PassiveStage
    <3>6. CASE k = 5
      <4>1. Has(s, k, "send", asked) /\ Has(s, k + 1, "recv", asked) /\ k + 1 # n
        BY <2>1, <3>6
      <4>2. Stage(a, "send", asked) /\ Stage(t, "recv", asked)
        BY <1>7, <1>8, <4>1
      <4> QED BY <4>2 DEF PassiveStage
    <3>7. CASE k = 6
      <4>1. Has(s, k, "recv", asked) /\ Has(s, k + 1, mover, NoCmd) /\ k + 1 # n
        BY <2>1, <3>7
      <4>2. Stage(a, "recv", asked) /\ Stage(t, mover, NoCmd)
        BY <1>7, <1>8, <4>1
      <4> QED BY <4>2 DEF PassiveStage
    <3>8. CASE k = 7
      <4>1. Has(s, k, mover, NoCmd) /\ k + 1 = n
        BY <2>1, <3>8
      <4> QED BY <1>7, <1>9, <4>1 DEF PassiveStage
    <3> QED BY <2>2, <3>2, <3>3, <3>4, <3>5, <3>6, <3>7, <3>8
  <2> QED BY <1>1, <1>6, <1>10, <2>3 DEF Named
<1>11. CASE ~p
  <2>1. /\ n = 9 /\ Has(s, 1, "close", NoCmd)
        /\ Has(s, 2, "listen", "PORT")
        /\ Has(s, 3, "send", "PORT") /\ Has(s, 4, "recv", "PORT")
        /\ Has(s, 5, "send", asked) /\ Has(s, 6, "recv", asked)
        /\ Has(s, 7, "accept", asked)
        /\ Has(s, 8, mover, NoCmd)
    BY <1>1, <1>11 DEF ScriptIs
  <2>2. k \in {1, 2, 3, 4, 5, 6, 7, 8}
    BY <1>4, <2>1
  <2>3. ActiveStage(a, t, asked, mover)
    <3>2. CASE k = 1
      <4>1. Has(s, k, "close", NoCmd) /\ Has(s, k + 1, "listen", "PORT") /\ k + 1 # n
        BY <2>1, <3>2
      <4>2. Stage(a, "close", NoCmd) /\ Stage(t, "listen", "PORT")
        BY <1>7, <1>8, <4>1
      <4> QED BY <4>2 DEF ActiveStage
    <3>3. CASE k = 2
      <4>1. Has(s, k, "listen", "PORT") /\ Has(s, k + 1, "send", "PORT") /\ k + 1 # n
        BY <2>1, <3>3
      <4>2. Stage(a, "listen", "PORT") /\ Stage(t, "send", "PORT")
        BY <1>7, <1>8, <4>1
      <4> QED BY <4>2 DEF ActiveStage
    <3>4. CASE k = 3
      <4>1. Has(s, k, "send", "PORT") /\ Has(s, k + 1, "recv", "PORT") /\ k + 1 # n
        BY <2>1, <3>4
      <4>2. Stage(a, "send", "PORT") /\ Stage(t, "recv", "PORT")
        BY <1>7, <1>8, <4>1
      <4> QED BY <4>2 DEF ActiveStage
    <3>5. CASE k = 4
      <4>1. Has(s, k, "recv", "PORT") /\ Has(s, k + 1, "send", asked) /\ k + 1 # n
        BY <2>1, <3>5
      <4>2. Stage(a, "recv", "PORT") /\ Stage(t, "send", asked)
        BY <1>7, <1>8, <4>1
      <4> QED BY <4>2 DEF ActiveStage
    <3>6. CASE k = 5
      <4>1. Has(s, k, "send", asked) /\ Has(s, k + 1, "recv", asked) /\ k + 1 # n
        BY <2>1, <3>6
      <4>2. Stage(a, "send", asked) /\ Stage(t, "recv", asked)
        BY <1>7, <1>8, <4>1
      <4> QED BY <4>2 DEF ActiveStage
    <3>7. CASE k = 6
      <4>1. Has(s, k, "recv", asked) /\ Has(s, k + 1, "accept", asked) /\ k + 1 # n
        BY <2>1, <3>7
      <4>2. Stage(a, "recv", asked) /\ Stage(t, "accept", asked)
        BY <1>7, <1>8, <4>1
      <4> QED BY <4>2 DEF ActiveStage
    <3>8. CASE k = 7
      <4>1. Has(s, k, "accept", asked) /\ Has(s, k + 1, mover, NoCmd) /\ k + 1 # n
        BY <2>1, <3>8
      <4>2. Stage(a, "accept", asked) /\ Stage(t, mover, NoCmd)
        BY <1>7, <1>8, <4>1
      <4> QED BY <4>2 DEF ActiveStage
    <3>9. CASE k = 8
      <4>1. Has(s, k, mover, NoCmd) /\ k + 1 = n
        BY <2>1, <3>9
      <4> QED BY <1>7, <1>9, <4>1 DEF ActiveStage
    <3> QED BY <2>2, <3>2, <3>3, <3>4, <3>5, <3>6, <3>7, <3>8, <3>9
  <2> QED BY <1>1, <1>6, <1>11, <2>3 DEF Named
<1> QED BY <1>10, <1>11

\* A call that is over is one of each kind.
LEMMA FinishedFits ==
  ASSUME NEW p \in BOOLEAN, NEW op, NEW a \in Finished
  PROVE  InScript(a, p, op)
<1>1. PICK s, n : s = Script(p, op) /\ n = Length(p) /\ n \in {8, 9}
  BY DEF Length
<1>2. CASE op \in Transfers
  <2>1. PICK x, y : x = Rest(s, n) /\ y = Rest(s, n + 1)
    OBVIOUS
  <2>2. n \in 1 .. n + 1 /\ n + 1 \in 1 .. n + 1
    BY <1>1
  <2>3. x = CloseDataPort /\ y = << >>
    BY <1>1, <2>1, <2>2, ScriptAt
  <2> QED BY <1>1, <1>2, <2>1, <2>2, <2>3 DEF InScript, Finished
<1>3. CASE op \notin Transfers
  <2>1. DOMAIN << >> = {}
    OBVIOUS
  <2>2. PICK c : c = CloseDataPort
    OBVIOUS
  <2>3. DOMAIN c = {1} /\ c[1] = <<"close", NoCmd>> /\ NoCmd \notin Commands
    <3>1. <<"close", NoCmd>> \in Steps \X Codes
      BY Zenon DEF Steps, Codes, NoCmd
    <3>2. c = << <<"close", NoCmd>> >>
      BY <2>2, Zenon DEF CloseDataPort, NoCmd
    <3>3. NoCmd \notin Commands
      BY Zenon DEF NoCmd, Commands, Expected
    <3> QED BY <3>1, <3>2, <3>3, OneStep, Zenon
  <2>4. Plain(c)
    <3>1. c[1][1] = "close" /\ c[1][2] = NoCmd
      <4>1. <<"close", NoCmd>>[1] = "close" /\ <<"close", NoCmd>>[2] = NoCmd
        BY StepParts
      <4> QED BY <2>3, <4>1, Zenon
    <3> QED BY <2>3, <3>1, CommandFacts DEF Plain, PlainStep
  <2>5. Plain(<< >>)
    BY <2>1 DEF Plain
  <2> QED BY <1>3, <2>2, <2>4, <2>5 DEF InScript, Finished
<1> QED BY <1>2, <1>3

\* What is left of a call is in its script.
LEMMA TailFits ==
  ASSUME NEW p \in BOOLEAN, NEW op, NEW a \in Agendas, InScript(a, p, op), a # << >>
  PROVE  InScript(Tail(a), p, op)
<1>1. CASE op \in Transfers /\ a \notin Finished
  BY <1>1, Stages
<1>2. CASE op \in Transfers /\ a \in Finished
  <2>1. a = CloseDataPort
    BY <1>2 DEF Finished
  <2>2. Tail(a) = << >>
    <3>1. Len(a) = 1
      BY <2>1, WellClosed
    <3>2. Tail(a) \in Agendas /\ Len(Tail(a)) = 0
      BY <3>1, SeqParts DEF Agendas
    <3> QED BY <3>2, SeqLength DEF Agendas
  <2> QED BY <2>2, FinishedFits DEF Finished
<1>3. CASE op \notin Transfers
  <2>1. /\ Len(a) \in Nat /\ DOMAIN a = 1 .. Len(a) /\ Len(Tail(a)) = Len(a) - 1
        /\ DOMAIN Tail(a) = 1 .. Len(a) - 1
        /\ \A i \in DOMAIN Tail(a) : i + 1 \in DOMAIN a /\ Tail(a)[i] = a[i + 1]
    BY SeqParts DEF Agendas
  <2>2. Plain(a)
    BY <1>3 DEF InScript
  <2> DEFINE t == Tail(a)
  <2> HIDE DEF t
  <2>3. ASSUME NEW i \in DOMAIN t
        PROVE  PlainStep(t, i)
    <3>1. i + 1 \in DOMAIN a /\ t[i] = a[i + 1] /\ i \in Nat
      BY <2>1, <2>3 DEF t
    <3>2. PlainStep(a, i + 1)
      BY <2>2, <3>1 DEF Plain
    <3>3. ASSUME t[i][1] = "send" PROVE i < Len(t) /\ t[i + 1][2] = t[i][2]
      <4>1. i + 1 < Len(a) /\ a[(i + 1) + 1][2] = t[i][2]
        BY <3>1, <3>2, <3>3 DEF PlainStep
      <4>2. i < Len(t) /\ i + 1 \in DOMAIN t
        BY <2>1, <3>1, <4>1 DEF t
      <4>3. t[i + 1] = a[(i + 1) + 1]
        BY <2>1, <4>2 DEF t
      <4> QED BY <4>1, <4>2, <4>3
    <3> QED BY <3>1, <3>2, <3>3 DEF PlainStep
  <2>4. Plain(t)
    BY <2>3 DEF Plain
  <2> QED BY <1>3, <2>4 DEF InScript, t
<1> QED BY <1>1, <1>2, <1>3

\* One sequence after another.
LEMMA JoinIs ==
  ASSUME NEW S, NEW a \in Seq(S), NEW b \in Seq(S), NEW q \in Seq(S),
         Len(q) = Len(a) + Len(b),
         \A i \in 1 .. Len(q) : q[i] = IF i <= Len(a) THEN a[i] ELSE b[i - Len(a)]
  PROVE  a \o b = q
BY ConcatProperties, SeqEqual

\* Short sequences, one after the other.
PassiveJoin(c, x, y, z, u, v, m) ==
  (((<< c >> \o (<< x, y >> \o << z >>)) \o << u, v >> \o << >>) \o << m >>) \o << c >>
    = << c, x, y, z, u, v, m, c >>
ActiveJoin(c, x, y, z, u, v, w, m) ==
  (((<< c >> \o (<< x >> \o << y, z >>)) \o << u, v >> \o << w >>) \o << m >>) \o << c >>
    = << c, x, y, z, u, v, w, m, c >>
LEMMA Joins ==
  ASSUME NEW S, NEW c \in S, NEW x \in S, NEW y \in S, NEW z \in S, NEW u \in S, NEW v \in S,
         NEW w \in S, NEW m \in S
  PROVE  PassiveJoin(c, x, y, z, u, v, m) /\ ActiveJoin(c, x, y, z, u, v, w, m)
<1>1. << x, y >> \o << z >> = << x, y, z >>
  <2>1. PICK a, b, q : a = << x, y >> /\ b = << z >> /\ q = << x, y, z >>
    OBVIOUS
  <2>2. /\ a \in Seq(S) /\ b \in Seq(S) /\ q \in Seq(S)
        /\ Len(a) = 2 /\ Len(b) = 1 /\ Len(q) = 3
    BY <2>1
  <2>3. q[1] = a[1] /\ q[2] = a[2] /\ q[3] = b[1]
    BY <2>1
  <2>4. ASSUME NEW i \in 1 .. Len(q) PROVE q[i] = IF i <= Len(a) THEN a[i] ELSE b[i - Len(a)]
    <3>1. i = 1 \/ i = 2 \/ i = 3
      BY <2>2
    <3> QED BY <2>2, <2>3, <3>1
  <2>5. Len(q) = Len(a) + Len(b)
    BY <2>2
  <2>6. a \o b = q
    BY <2>2, <2>4, <2>5, JoinIs, Zenon
  <2> QED BY <2>1, <2>6
<1>2. << x >> \o << y, z >> = << x, y, z >>
  <2>1. PICK a, b, q : a = << x >> /\ b = << y, z >> /\ q = << x, y, z >>
    OBVIOUS
  <2>2. /\ a \in Seq(S) /\ b \in Seq(S) /\ q \in Seq(S)
        /\ Len(a) = 1 /\ Len(b) = 2 /\ Len(q) = 3
    BY <2>1
  <2>3. q[1] = a[1] /\ q[2] = b[1] /\ q[3] = b[2]
    BY <2>1
  <2>4. ASSUME NEW i \in 1 .. Len(q) PROVE q[i] = IF i <= Len(a) THEN a[i] ELSE b[i - Len(a)]
    <3>1. i = 1 \/ i = 2 \/ i = 3
      BY <2>2
    <3> QED BY <2>2, <2>3, <3>1
  <2>5. Len(q) = Len(a) + Len(b)
    BY <2>2
  <2>6. a \o b = q
    BY <2>2, <2>4, <2>5, JoinIs, Zenon
  <2> QED BY <2>1, <2>6
<1>3. << c >> \o << x, y, z >> = << c, x, y, z >>
  <2>1. PICK a, b, q : a = << c >> /\ b = << x, y, z >> /\ q = << c, x, y, z >>
    OBVIOUS
  <2>2. /\ a \in Seq(S) /\ b \in Seq(S) /\ q \in Seq(S)
        /\ Len(a) = 1 /\ Len(b) = 3 /\ Len(q) = 4
    BY <2>1
  <2>3. q[1] = a[1] /\ q[2] = b[1] /\ q[3] = b[2] /\ q[4] = b[3]
    BY <2>1
  <2>4. ASSUME NEW i \in 1 .. Len(q) PROVE q[i] = IF i <= Len(a) THEN a[i] ELSE b[i - Len(a)]
    <3>1. i = 1 \/ i = 2 \/ i = 3 \/ i = 4
      BY <2>2
    <3> QED BY <2>2, <2>3, <3>1
  <2>5. Len(q) = Len(a) + Len(b)
    BY <2>2
  <2>6. a \o b = q
    BY <2>2, <2>4, <2>5, JoinIs, Zenon
  <2> QED BY <2>1, <2>6
<1>4. << c, x, y, z >> \o << u, v >> = << c, x, y, z, u, v >>
  <2>1. PICK a, b, q : a = << c, x, y, z >> /\ b = << u, v >> /\ q = << c, x, y, z, u, v >>
    OBVIOUS
  <2>2. /\ a \in Seq(S) /\ b \in Seq(S) /\ q \in Seq(S)
        /\ Len(a) = 4 /\ Len(b) = 2 /\ Len(q) = 6
    BY <2>1
  <2>3. q[1] = a[1] /\ q[2] = a[2] /\ q[3] = a[3] /\ q[4] = a[4] /\ q[5] = b[1] /\ q[6] = b[2]
    BY <2>1
  <2>4. ASSUME NEW i \in 1 .. Len(q) PROVE q[i] = IF i <= Len(a) THEN a[i] ELSE b[i - Len(a)]
    <3>1. i = 1 \/ i = 2 \/ i = 3 \/ i = 4 \/ i = 5 \/ i = 6
      BY <2>2
    <3> QED BY <2>2, <2>3, <3>1
  <2>5. Len(q) = Len(a) + Len(b)
    BY <2>2
  <2>6. a \o b = q
    BY <2>2, <2>4, <2>5, JoinIs, Zenon
  <2> QED BY <2>1, <2>6
<1>5. << c, x, y, z, u, v >> \o << w >> = << c, x, y, z, u, v, w >>
  <2>1. PICK a, b, q : a = << c, x, y, z, u, v >> /\ b = << w >> /\ q = << c, x, y, z, u, v, w >>
    OBVIOUS
  <2>2. /\ a \in Seq(S) /\ b \in Seq(S) /\ q \in Seq(S)
        /\ Len(a) = 6 /\ Len(b) = 1 /\ Len(q) = 7
    BY <2>1
  <2>3. /\ q[1] = a[1] /\ q[2] = a[2] /\ q[3] = a[3] /\ q[4] = a[4] /\ q[5] = a[5]
        /\ q[6] = a[6] /\ q[7] = b[1]
    BY <2>1
  <2>4. ASSUME NEW i \in 1 .. Len(q) PROVE q[i] = IF i <= Len(a) THEN a[i] ELSE b[i - Len(a)]
    <3>1. i = 1 \/ i = 2 \/ i = 3 \/ i = 4 \/ i = 5 \/ i = 6 \/ i = 7
      BY <2>2
    <3> QED BY <2>2, <2>3, <3>1
  <2>5. Len(q) = Len(a) + Len(b)
    BY <2>2
  <2>6. a \o b = q
    BY <2>2, <2>4, <2>5, JoinIs, Zenon
  <2> QED BY <2>1, <2>6
<1>6. << c, x, y, z, u, v >> \o << m >> = << c, x, y, z, u, v, m >>
  <2>1. PICK a, b, q : a = << c, x, y, z, u, v >> /\ b = << m >> /\ q = << c, x, y, z, u, v, m >>
    OBVIOUS
  <2>2. /\ a \in Seq(S) /\ b \in Seq(S) /\ q \in Seq(S)
        /\ Len(a) = 6 /\ Len(b) = 1 /\ Len(q) = 7
    BY <2>1
  <2>3. /\ q[1] = a[1] /\ q[2] = a[2] /\ q[3] = a[3] /\ q[4] = a[4] /\ q[5] = a[5]
        /\ q[6] = a[6] /\ q[7] = b[1]
    BY <2>1
  <2>4. ASSUME NEW i \in 1 .. Len(q) PROVE q[i] = IF i <= Len(a) THEN a[i] ELSE b[i - Len(a)]
    <3>1. i = 1 \/ i = 2 \/ i = 3 \/ i = 4 \/ i = 5 \/ i = 6 \/ i = 7
      BY <2>2
    <3> QED BY <2>2, <2>3, <3>1
  <2>5. Len(q) = Len(a) + Len(b)
    BY <2>2
  <2>6. a \o b = q
    BY <2>2, <2>4, <2>5, JoinIs, Zenon
  <2> QED BY <2>1, <2>6
<1>7. << c, x, y, z, u, v, w >> \o << m >> = << c, x, y, z, u, v, w, m >>
  <2>1. PICK a, b, q : /\ a = << c, x, y, z, u, v, w >>
                       /\ b = << m >>
                       /\ q = << c, x, y, z, u, v, w, m >>
    OBVIOUS
  <2>2. /\ a \in Seq(S) /\ b \in Seq(S) /\ q \in Seq(S)
        /\ Len(a) = 7 /\ Len(b) = 1 /\ Len(q) = 8
    BY <2>1
  <2>3. /\ q[1] = a[1] /\ q[2] = a[2] /\ q[3] = a[3] /\ q[4] = a[4] /\ q[5] = a[5]
        /\ q[6] = a[6] /\ q[7] = a[7] /\ q[8] = b[1]
    BY <2>1
  <2>4. ASSUME NEW i \in 1 .. Len(q) PROVE q[i] = IF i <= Len(a) THEN a[i] ELSE b[i - Len(a)]
    <3>1. i = 1 \/ i = 2 \/ i = 3 \/ i = 4 \/ i = 5 \/ i = 6 \/ i = 7 \/ i = 8
      BY <2>2
    <3> QED BY <2>2, <2>3, <3>1
  <2>5. Len(q) = Len(a) + Len(b)
    BY <2>2
  <2>6. a \o b = q
    BY <2>2, <2>4, <2>5, JoinIs, Zenon
  <2> QED BY <2>1, <2>6
<1>8. << c, x, y, z, u, v, m >> \o << c >> = << c, x, y, z, u, v, m, c >>
  <2>1. PICK a, b, q : /\ a = << c, x, y, z, u, v, m >>
                       /\ b = << c >>
                       /\ q = << c, x, y, z, u, v, m, c >>
    OBVIOUS
  <2>2. /\ a \in Seq(S) /\ b \in Seq(S) /\ q \in Seq(S)
        /\ Len(a) = 7 /\ Len(b) = 1 /\ Len(q) = 8
    BY <2>1
  <2>3. /\ q[1] = a[1] /\ q[2] = a[2] /\ q[3] = a[3] /\ q[4] = a[4] /\ q[5] = a[5]
        /\ q[6] = a[6] /\ q[7] = a[7] /\ q[8] = b[1]
    BY <2>1
  <2>4. ASSUME NEW i \in 1 .. Len(q) PROVE q[i] = IF i <= Len(a) THEN a[i] ELSE b[i - Len(a)]
    <3>1. i = 1 \/ i = 2 \/ i = 3 \/ i = 4 \/ i = 5 \/ i = 6 \/ i = 7 \/ i = 8
      BY <2>2
    <3> QED BY <2>2, <2>3, <3>1
  <2>5. Len(q) = Len(a) + Len(b)
    BY <2>2
  <2>6. a \o b = q
    BY <2>2, <2>4, <2>5, JoinIs, Zenon
  <2> QED BY <2>1, <2>6
<1>9. << c, x, y, z, u, v, w, m >> \o << c >> = << c, x, y, z, u, v, w, m, c >>
  <2>1. PICK a, b, q : /\ a = << c, x, y, z, u, v, w, m >>
                       /\ b = << c >>
                       /\ q = << c, x, y, z, u, v, w, m, c >>
    OBVIOUS
  <2>2. /\ a \in Seq(S) /\ b \in Seq(S) /\ q \in Seq(S)
        /\ Len(a) = 8 /\ Len(b) = 1 /\ Len(q) = 9
    BY <2>1
  <2>3. /\ q[1] = a[1] /\ q[2] = a[2] /\ q[3] = a[3] /\ q[4] = a[4] /\ q[5] = a[5]
        /\ q[6] = a[6] /\ q[7] = a[7] /\ q[8] = a[8] /\ q[9] = b[1]
    BY <2>1
  <2>4. ASSUME NEW i \in 1 .. Len(q) PROVE q[i] = IF i <= Len(a) THEN a[i] ELSE b[i - Len(a)]
    <3>1. i = 1 \/ i = 2 \/ i = 3 \/ i = 4 \/ i = 5 \/ i = 6 \/ i = 7 \/ i = 8 \/ i = 9
      BY <2>2
    <3> QED BY <2>2, <2>3, <3>1
  <2>5. Len(q) = Len(a) + Len(b)
    BY <2>2
  <2>6. a \o b = q
    BY <2>2, <2>4, <2>5, JoinIs, Zenon
  <2> QED BY <2>1, <2>6
<1>10. << c, x, y, z, u, v >> \o << >> = << c, x, y, z, u, v >>
  <2>1. << c, x, y, z, u, v >> \in Seq(S)
    OBVIOUS
  <2> QED BY <2>1, ConcatEmptySeq
<1> QED BY <1>1, <1>2, <1>3, <1>4, <1>5, <1>6, <1>7, <1>8, <1>9, <1>10, Zenon
        DEF PassiveJoin, ActiveJoin

\* All of a sequence.
LEMMA RestIsAll ==
  ASSUME NEW S, NEW s \in Seq(S)
  PROVE  Rest(s, 1) = s
BY SubSeqFull DEF Rest

\* A transfer of an armed client follows the script.
LEMMA TransferFits ==
  ASSUME passive_mode \in BOOLEAN, passive_mode \/ ~DataPortListening, NEW op \in Transfers
  PROVE  /\ Transfer(AskedBy(op), MoverOf(op)) \notin Finished
         /\ InScript(Transfer(AskedBy(op), MoverOf(op)), passive_mode, op)
         /\ Stage(Transfer(AskedBy(op), MoverOf(op)), "close", NoCmd)
<1>1. PICK p \in BOOLEAN : p = passive_mode
  OBVIOUS
<1>2. ScriptIs(Script(p, op), Length(p), p, AskedBy(op), MoverOf(op))
  BY ScriptParts
<1>3. /\ Script(p, op) \in Seq(Steps \X Codes) /\ Len(Script(p, op)) = Length(p)
      /\ Length(p) \in {8, 9} /\ AskedBy(op) \in {"RETR", "STOR"}
      /\ MoverOf(op) \in {"read", "write"}
  BY <1>2 DEF ScriptIs
<1>4. Rest(Script(p, op), 1) = Script(p, op)
  BY <1>3, RestIsAll
<1>5. 1 \in 1 .. Length(p) + 1 /\ ~(1 >= Length(p))
  BY <1>3
<1>6. /\ Script(p, op) \notin Finished /\ InScript(Script(p, op), p, op)
      /\ Stage(Script(p, op), "close", NoCmd)
  <2>1. PICK a : a = Rest(Script(p, op), 1)
    OBVIOUS
  <2>2. a \notin Finished
    BY <1>5, <2>1, ScriptAt
  <2>3. Stage(a, "close", NoCmd)
    <3>1. Has(Script(p, op), 1, "close", NoCmd) /\ 1 \in 1 .. Length(p) /\ 1 # Length(p)
      BY <1>2, <1>3 DEF ScriptIs
    <3> QED BY <2>1, <3>1, StageIs
  <2> QED BY <1>4, <1>5, <2>1, <2>2, <2>3 DEF InScript
<1>7. PICK c, m, u, v, w : /\ c = <<"close", "">> /\ m = <<MoverOf(op), "">>
                           /\ u = <<"send", AskedBy(op)>> /\ v = <<"recv", AskedBy(op)>>
                           /\ w = <<"accept", AskedBy(op)>>
  OBVIOUS
<1>8. PICK x, y, z, f, g, h : /\ x = <<"send", "PASV">> /\ y = <<"recv", "PASV">>
                              /\ z = <<"connect", "PASV">> /\ f = <<"listen", "PORT">>
                              /\ g = <<"send", "PORT">> /\ h = <<"recv", "PORT">>
  OBVIOUS
<1>9. /\ SendCommand("PASV") = << x, y >> /\ SendCommand("PORT") = << g, h >>
      /\ SendCommand(AskedBy(op)) = << u, v >> /\ CloseDataPort = << c >>
  BY <1>7, <1>8, Zenon DEF SendCommand, CloseDataPort
<1>10. CASE passive_mode
  <2>1. OpenDataPort = << c >> \o (<< x, y >> \o << z >>)
    BY <1>8, <1>9, <1>10, Zenon DEF OpenDataPort
  <2>2. Transfer(AskedBy(op), MoverOf(op))
          = (((<< c >> \o (<< x, y >> \o << z >>)) \o << u, v >> \o << >>) \o << m >>) \o << c >>
    BY <1>7, <1>9, <1>10, <2>1, Zenon DEF Transfer
  <2>3. Script(p, op) = << c, x, y, z, u, v, m, c >>
    BY <1>1, <1>7, <1>8, <1>10, Zenon DEF Script
  <2>4. << c, x, y, z, u, v, m, c >> = Transfer(AskedBy(op), MoverOf(op))
    <3>1. PICK S : /\ c \in S /\ x \in S /\ y \in S /\ z \in S /\ u \in S /\ v \in S
                   /\ w \in S /\ m \in S
      <4>1. \E S : S = {c, x, y, z, u, v, w, m}
        OBVIOUS
      <4> QED BY <4>1
    <3>2. PassiveJoin(c, x, y, z, u, v, m)
      BY <3>1, Joins
    <3> QED BY <2>2, <3>2, Zenon DEF PassiveJoin
  <2> QED BY <1>1, <1>6, <2>3, <2>4
<1>11. CASE ~passive_mode
  <2>1. OpenDataPort = << c >> \o (<< f >> \o << g, h >>)
    BY <1>8, <1>9, <1>11, Zenon DEF OpenDataPort
  <2>2. Transfer(AskedBy(op), MoverOf(op))
          = (((<< c >> \o (<< f >> \o << g, h >>)) \o << u, v >> \o << w >>) \o << m >>) \o << c >>
    BY <1>7, <1>9, <1>11, <2>1, Zenon DEF Transfer
  <2>3. Script(p, op) = << c, f, g, h, u, v, w, m, c >>
    BY <1>1, <1>7, <1>8, <1>11, Zenon DEF Script
  <2>4. << c, f, g, h, u, v, w, m, c >> = Transfer(AskedBy(op), MoverOf(op))
    <3>1. PICK S : /\ c \in S /\ f \in S /\ g \in S /\ h \in S /\ u \in S /\ v \in S
                   /\ w \in S /\ m \in S
      <4>1. \E S : S = {c, f, g, h, u, v, w, m}
        OBVIOUS
      <4> QED BY <4>1
    <3>2. ActiveJoin(c, f, g, h, u, v, w, m)
      BY <3>1, Joins
    <3> QED BY <2>2, <3>2, Zenon DEF ActiveJoin
  <2> QED BY <1>1, <1>6, <2>3, <2>4
<1> QED BY <1>10, <1>11

\* One plain call after another.
LEMMA PlainJoin ==
  ASSUME NEW a \in Agendas, NEW b \in Agendas, Plain(a), Plain(b)
  PROVE  a \o b \in Agendas /\ Plain(a \o b)
<1> DEFINE c == a \o b
           n == Len(a)
<1>1. /\ n \in Nat /\ DOMAIN a = 1 .. n /\ Len(b) \in Nat /\ DOMAIN b = 1 .. Len(b)
      /\ c \in Agendas /\ Len(c) = n + Len(b) /\ DOMAIN c = 1 .. n + Len(b)
      /\ \A i \in DOMAIN a : c[i] = a[i]
      /\ \A i \in DOMAIN b : c[n + i] = b[i]
  BY SeqParts DEF Agendas
<1> HIDE DEF c
<1>2. ASSUME NEW i \in DOMAIN a PROVE PlainStep(c, i)
  <2>1. PlainStep(a, i) /\ c[i] = a[i] /\ i \in Nat /\ i <= n
    BY <1>1, <1>2 DEF Plain
  <2>2. i < n => i + 1 \in DOMAIN a /\ c[i + 1] = a[i + 1] /\ i < Len(c)
    BY <1>1, <2>1
  <2> QED BY <2>1, <2>2 DEF PlainStep
<1>3. ASSUME NEW j \in DOMAIN b, NEW i, i = n + j PROVE PlainStep(c, i)
  <2>1. PlainStep(b, j) /\ c[i] = b[j] /\ j \in Nat /\ i \in Nat
    BY <1>1, <1>3 DEF Plain
  <2>2. j < Len(b) => j + 1 \in DOMAIN b /\ i + 1 = n + (j + 1) /\ i < Len(c)
    BY <1>1, <1>3, <2>1
  <2>3. j < Len(b) => c[i + 1] = b[j + 1] /\ i < Len(c)
    BY <1>1, <2>2
  <2> QED BY <2>1, <2>3 DEF PlainStep
<1>4. \A i \in DOMAIN c : i \in DOMAIN a \/ \E j \in DOMAIN b : i = n + j
  <2> TAKE i \in DOMAIN c
  <2>1. i \in 1 .. n \/ (i - n \in 1 .. Len(b) /\ i = n + (i - n))
    BY <1>1
  <2> QED BY <1>1, <2>1
<1> QED BY <1>1, <1>2, <1>3, <1>4 DEF Plain, c

\* A command, and what ConnectHost does first.
LEMMA PlainPair ==
  ASSUME NEW x \in {"send", "dial"}, NEW c, NEW d \in Commands \ {"PASV", "PORT", "RETR", "STOR"},
         c = d \/ (x = "dial" /\ c = NoCmd), NEW s, s = << <<x, c>>, <<"recv", d>> >>
  PROVE  s \in Agendas /\ Plain(s) /\ Len(s) = 2 /\ s[1] = <<x, c>>
<1>1. PICK u, v : u = <<x, c>> /\ v = <<"recv", d>>
  OBVIOUS
<1>2. NoCmd \in Commands \cup {""} /\ NoCmd \notin {"PASV", "PORT", "RETR", "STOR"}
  BY Zenon DEF NoCmd
<1>3. c \in Commands \cup {""}
  BY <1>2, Zenon
<1>10. c \notin {"PASV", "PORT", "RETR", "STOR"} /\ (x = "send" => c = d)
  <2>1. NoCmd \notin {"PASV", "PORT", "RETR", "STOR"}
    BY <1>2
  <2> QED BY <2>1
<1>4. u \in AgendaSteps /\ v \in AgendaSteps
  <2>1. x \in Steps /\ "recv" \in Steps /\ d \in Commands \cup {""}
    BY Zenon DEF Steps
  <2> QED BY <1>1, <1>3, <2>1, Zenon DEF AgendaSteps
<1>5. s = << u, v >>
  BY <1>1, Zenon
<1>6. s \in Agendas /\ Len(s) = 2 /\ DOMAIN s = {1, 2} /\ s[1] = u /\ s[2] = v
  <2>1. PICK q : q = << u, v >>
    OBVIOUS
  <2>2. q \in Seq(AgendaSteps) /\ Len(q) = 2 /\ DOMAIN q = {1, 2} /\ q[1] = u /\ q[2] = v
    BY <1>4, <2>1, TwoSteps
  <2> QED BY <1>5, <2>1, <2>2, Zenon DEF Agendas
<1>7. u[1] = x /\ u[2] = c /\ v[1] = "recv" /\ v[2] = d
  BY <1>1, StepParts, Zenon
<1>8. PlainStep(s, 1)
  BY <1>10, <1>6, <1>7 DEF PlainStep
<1>9. PlainStep(s, 2)
  BY <1>6, <1>7 DEF PlainStep
<1> QED BY <1>1, <1>6, <1>8, <1>9 DEF Plain

\* The calls that are no transfers use no data connection.
LEMMA PlainBodies ==
  /\ Plain(ConnectHost) /\ \A cd \in BOOLEAN : Plain(ConnectLoginDir(cd))
  /\ Plain(FTPMove) /\ \A c \in Simple : Plain(SendCommand(c))
  /\ Simple \cap Transfers = {}
<1>1. ASSUME NEW c \in Commands \ {"PASV", "PORT", "RETR", "STOR"}
      PROVE  SendCommand(c) \in Agendas /\ Plain(SendCommand(c))
  <2>1. SendCommand(c) = << <<"send", c>>, <<"recv", c>> >>
    BY DEF SendCommand
  <2> QED BY <2>1, PlainPair
<1>2. Simple \subseteq Commands \ {"PASV", "PORT", "RETR", "STOR"} /\ Simple \cap Transfers = {}
  BY CommandFacts, SimpleAssumption DEF Transfers
<1>3. ConnectHost \in Agendas /\ Plain(ConnectHost)
  <2>1. ConnectHost = << <<"dial", NoCmd>>, <<"recv", "CONNECT">> >>
    BY Zenon DEF ConnectHost, NoCmd
  <2>2. "CONNECT" \in Commands
    BY CommandFacts
  <2> QED BY <2>1, <2>2, PlainPair
<1>4. FTPMove \in Agendas /\ Plain(FTPMove) /\ FTPLogin \in Agendas /\ Plain(FTPLogin)
  <2>1. {"RNFR", "RNTO", "USER", "PASS"} \subseteq Commands \ {"PASV", "PORT", "RETR", "STOR"}
    BY CommandFacts
  <2> QED BY <1>1, <2>1, PlainJoin DEF FTPMove, FTPLogin
<1>5. ASSUME NEW cd \in BOOLEAN PROVE Plain(ConnectLoginDir(cd))
  <2>1. PICK e : e = IF cd THEN SendCommand("CWD") ELSE << >>
    OBVIOUS
  <2>2. e \in Agendas /\ Plain(e)
    <3>1. "CWD" \in Commands \ {"PASV", "PORT", "RETR", "STOR"}
      BY CommandFacts
    <3>2. << >> \in Agendas /\ Plain(<< >>)
      BY DEF Agendas, Plain
    <3> QED BY <1>1, <2>1, <3>1, <3>2
  <2>3. ConnectHost \o FTPLogin \in Agendas /\ Plain(ConnectHost \o FTPLogin)
    BY <1>3, <1>4, PlainJoin
  <2>4. Plain((ConnectHost \o FTPLogin) \o e)
    BY <2>2, <2>3, PlainJoin
  <2> QED BY <2>1, <2>4 DEF ConnectLoginDir
<1> QED BY <1>1, <1>2, <1>3, <1>4, <1>5

------------------------------------------------------------------------------
\* What the invariants say together.

\* A transfer that is not over has more to do than to close.
LEMMA MoreThanClose ==
  ASSUME NEW p \in BOOLEAN, NEW op \in Transfers, NEW a \in Agendas, InScript(a, p, op),
         a \notin Finished
  PROVE  \E i \in DOMAIN a : a[i][1] # "close"
<1>1. PICK asked, mover : asked = AskedBy(op) /\ mover = MoverOf(op)
  OBVIOUS
<1>2. mover # "close"
  BY <1>1 DEF MoverOf
<1>3. PassiveStage(a, Tail(a), asked, mover) \/ ActiveStage(a, Tail(a), asked, mover)
  BY <1>1, Stages
<1>4. Head(a)[1] # "close" \/ (Tail(a) \notin Finished /\ Head(Tail(a))[1] # "close")
  BY <1>2, <1>3 DEF PassiveStage, ActiveStage, Stage
<1>5. a # << >>
  BY DEF Finished
<1>6. CASE Head(a)[1] # "close"
  BY <1>5, <1>6, SeqParts DEF Agendas
<1>7. CASE Tail(a) \notin Finished /\ Head(Tail(a))[1] # "close"
  <2>1. Tail(a) # << >> /\ Tail(a) \in Agendas
    BY <1>5, <1>7, SeqParts DEF Finished, Agendas
  <2>2. 1 \in DOMAIN Tail(a) /\ Head(Tail(a)) = Tail(a)[1]
    BY <2>1, SeqParts DEF Agendas
  <2>3. 1 + 1 \in DOMAIN a /\ Tail(a)[1] = a[1 + 1]
    BY <1>5, <2>2, SeqParts DEF Agendas
  <2> QED BY <1>7, <2>2, <2>3
<1> QED BY <1>4, <1>6, <1>7

\* Who has given up is done.
LEMMA GivenUpIsOver ==
  ASSUME MatchInv, Scripted, SocketTypes, GivenUp, call.op \in Transfers
  PROVE  Over /\ failed
<1>1. agenda \in Agendas
  BY DEF MatchInv, WellFormed
<1> QED BY <1>1, MoreThanClose DEF Scripted, SocketTypes, GivenUp, Over

\* Between a reply and the next command the server has nothing to do.
LEMMA Between ==
  ASSUME MatchInv, ~At("recv"), ~GivenUp
  PROVE  requests = << >>
BY DEF MatchInv, InOrder, Idle, Ended
LEMMA BetweenAfter ==
  ASSUME MatchInv', ~At("recv")', ~GivenUp'
  PROVE  requests' = << >>
BY DEF MatchInv, InOrder, Idle, Ended

\* A client with a step other than CloseDataPort to do has not given up.
LEMMA StillTrying ==
  ASSUME MatchInv, agenda # << >>, ~At("close")
  PROVE  ~GivenUp
BY GivenUpCloses

\* Before a command nothing is left to read but the end of a transfer.
LEMMA NoCommandYet ==
  ASSUME MatchInv, ReplyTypes, HungInv, Ahead, agenda # << >>, ~At("close"), ~At("recv"),
         ~At("dial")
  PROVE  \A i \in DOMAIN replies : replies[i].code = 226
<1>1. ~GivenUp /\ InOrder
  BY StillTrying DEF MatchInv
<1>2. DOMAIN replies = 1 .. Len(replies) /\ Len(replies) \in Nat /\ Len(requests) \in Nat
  BY SeqParts DEF ReplyTypes
<1>3. CASE control = "open"
  <2>1. CASE world.completes
    BY <1>1, <1>3, <2>1 DEF InOrder, Idle
  <2>2. CASE ~world.completes
    <3>1. Len(requests) + Len(replies) <= 0
      BY <1>1, <2>2 DEF InOrder, OneTransfer
    <3> QED BY <1>2, <3>1
  <2> QED BY <2>1, <2>2
<1>4. CASE control = "hungup"
  <2>1. replies = << >>
    BY <1>1, <1>4 DEF HungInv
  <2>2. DOMAIN << >> = {}
    OBVIOUS
  <2> QED BY <2>1, <2>2
<1>5. CASE control = "closed"
  <2>1. replies = << >>
    BY <1>5 DEF MatchInv, Ended
  <2>2. DOMAIN << >> = {}
    OBVIOUS
  <2> QED BY <2>1, <2>2
<1> QED BY <1>3, <1>4, <1>5 DEF MatchInv

\* What a client has at hand in the steps before a command.
LEMMA AheadFacts ==
  ASSUME MatchInv, ~At("recv"), ~At("close"), ~At("dial"), agenda # << >>,
         Tail(agenda) # << >>, Head(Tail(agenda))[1] = "send"
  PROVE  Ahead
<1>1. agenda \in Agendas /\ Tail(agenda) \in Agendas
  BY SeqParts DEF MatchInv, WellFormed, Agendas
<1>2. 1 \in DOMAIN Tail(agenda) /\ Head(Tail(agenda)) = Tail(agenda)[1]
  BY <1>1, SeqParts DEF Agendas
<1>3. 1 + 1 \in DOMAIN agenda /\ Tail(agenda)[1] = agenda[1 + 1]
  BY <1>1, <1>2, SeqParts DEF Agendas
<1> QED BY <1>2, <1>3 DEF Ahead

\* The server's port is told from the ports it does not use.
LEMMA PortFacts ==
  ASSUME ServerTypes, PortsInv
  PROVE  /\ PortOf \in AnyPort /\ NoPort \notin Ports
         /\ PortOf # NoPort => PortOf \in Ports /\ PortOf \in {spas, sport}
         /\ {spas, sport} = {NoPort, PortOf}
         /\ \A p \in Ports : p \in {spas, sport} <=> p = PortOf
         /\ task # NoTask => /\ task \in Task /\ task.port \in Ports /\ task.port = PortOf
                             /\ task.kind \in {"RETR", "STOR"} /\ task.file \in Files
                             /\ task.phase \in {"open", "move"} /\ task.blocks \in Seq(Block)
<1>1. NoPort \notin Ports
  BY FtpAssumption
<1>2. task # NoTask => /\ task \in Task /\ task.port \in Ports
                       /\ task.kind \in {"RETR", "STOR"} /\ task.file \in Files
                       /\ task.phase \in {"open", "move"} /\ task.blocks \in Seq(Block)
  BY DEF ServerTypes, Task
<1> QED BY <1>1, <1>2 DEF ServerTypes, PortsInv, PortOf, AnyPort

\* NoTask is none.
LEMMA NoTaskIsNone == NoTask \notin Task
BY DEF NoTask, Task

\* There is a port that nobody uses when the client and the server look for one.
LEMMA NewPortIs ==
  ASSUME EnoughPorts, ServerTypes, ReplyTypes, PortsInv, TaskInv, NoData,
         \A i \in DOMAIN replies : replies[i].code = 226,
         NEW p, p = NewPort
  PROVE  /\ p \in Ports /\ p \notin {spas, sport} /\ p # port_buf /\ p # PortOf
         /\ remote[p] \in {"closed", "done"} /\ (task # NoTask => task.port # p)
<1>1. /\ PortOf \in AnyPort /\ NoPort \notin Ports
      /\ PortOf # NoPort => PortOf \in Ports /\ PortOf \in {spas, sport}
      /\ \A q \in Ports : q \in {spas, sport} <=> q = PortOf
      /\ task # NoTask => task.port = PortOf
  BY PortFacts
<1>2. PICK q \in Ports : q # PortOf /\ q # port_buf
  BY DEF EnoughPorts
<1>3. q \notin {bind_sock.port, accept_sock, port_buf, spas, sport}
  BY <1>1, <1>2 DEF NoData, Closed
<1>4. task # NoTask => task.port # q
  BY <1>1, <1>2
<1>5. \A i \in 1 .. Len(replies) : replies[i].port # q
  <2>1. \A i \in DOMAIN replies : replies[i].port = NoPort
    BY DEF ReplyTypes
  <2>2. DOMAIN replies = 1 .. Len(replies)
    BY SeqParts DEF ReplyTypes
  <2> QED BY <1>1, <2>1, <2>2
<1>6. remote[q] \in {"closed", "done"}
  <2>1. remote[q] \notin {"listening", "reached", "connected"}
    BY <1>3, <1>4 DEF PortsInv
  <2>2. remote[q] \in {"closed", "listening", "reached", "connected", "done"}
    BY DEF ServerTypes
  <2> QED BY <2>1, <2>2
<1>7. /\ p \in Ports /\ remote[p] \in {"closed", "done"}
      /\ p \notin {bind_sock.port, accept_sock, port_buf, spas, sport}
      /\ task # NoTask => task.port # p
  BY <1>3, <1>4, <1>5, <1>6, Zenon DEF NewPort
<1> QED BY <1>1, <1>7

------------------------------------------------------------------------------
\* The calls.

\* The server's part stays.
LEMMA ServerStays ==
  ASSUME ServerInv, ServerTypes, UNCHANGED <<data, server>>
  PROVE  ServerInv' /\ ServerTypes'
<1>1. UNCHANGED <<data, remote, spas, sport, task, disk>>
  BY DEF server
<1>2. PortOf' = PortOf /\ Untouched' = Untouched
  BY <1>1 DEF PortOf, Untouched
<1>3. PortsInv'
  BY <1>1, <1>2 DEF ServerInv, PortsInv
<1>4. TaskInv' /\ DiskInv'
  BY <1>1, <1>2 DEF ServerInv, TaskInv, DiskInv
<1> QED BY <1>1, <1>3, <1>4 DEF ServerInv, ServerTypes

\* Nothing is sent or answered, and no answer is waited for.
LEMMA NothingAsked ==
  ASSUME MatchInv', RequestInv, HungInv, ServerInv, ServerTypes,
         UNCHANGED <<control, channel, data, server>>, ~At("recv")',
         (~At("recv") /\ (GivenUp => GivenUp')) \/ control = "open" \/ replies = << >>,
         requests = << >> \/ (NoData => NoData')
  PROVE  RequestInv' /\ HungInv' /\ ServerInv' /\ ServerTypes'
<1>1. ServerInv' /\ ServerTypes'
  BY ServerStays
<1>2. UNCHANGED <<requests, replies, data, remote, spas, sport, task, control>>
  BY DEF channel, server
<1>3. HungInv'
  BY <1>2 DEF HungInv
<1>4. RequestInv'
  <2>1. SUFFICES ASSUME requests' # << >> PROVE RequestInv'
    BY DEF RequestInv
  <2>2. GivenUp'
    BY <2>1, BetweenAfter
  <2>3. ServerReady' = ServerReady /\ PortOf' = PortOf
    BY <1>2 DEF ServerReady, PortOf, Untouched
  <2>4. Free(requests[1].port)' = Free(requests[1].port)
    BY <1>2 DEF Free
  <2>5. /\ requests[1].cmd = "PASV" => NoData'
        /\ requests[1].cmd = "PORT" => Free(requests[1].port)
        /\ requests[1].cmd \in {"RETR", "STOR"} =>
             requests[1].file \in Files /\ (PortOf # NoPort => ServerReady)
        /\ \A i \in DOMAIN replies : replies[i].code = 226
    BY <1>2, <2>1 DEF RequestInv
  <2> QED BY <1>2, <2>2, <2>3, <2>4, <2>5 DEF RequestInv
<1> QED BY <1>1, <1>3, <1>4

\* A call begins.
LEMMA CallBegins ==
  ASSUME MatchInv, MatchInv', TransferInv, NEW op, NEW f \in FileNames, NEW body, Call(op, f, body),
         InScript(body, passive_mode, op), body # << >>, body[1][1] \in {"close", "send", "dial"},
         body \in Agendas,
         op \in Transfers => f \in Files /\ body \notin Finished /\ Head(body)[1] = "close"
  PROVE  TransferInv'
<1>1. /\ agenda = << >> /\ (world.checks => ~failed) /\ agenda' = body
      /\ call' = [op |-> op, file |-> f] /\ failed' = FALSE /\ got' = << >> /\ wrote' = 0
      /\ UNCHANGED <<world, control, passive_mode, port_buf, bind_sock, accept_sock, reply_buf>>
      /\ UNCHANGED <<control, channel, data, server>>
  BY DEF Call, session, datasock
<1>2. call'.op = op /\ call'.file = f
  BY <1>1
<1>3. ~At("recv") /\ ~At("recv")' /\ ~GivenUp
  <2>1. Head(body) = body[1]
    BY SeqParts DEF Agendas
  <2> QED BY <1>1, <2>1 DEF At, GivenUp
<1>4. NoData => NoData'
  BY <1>1 DEF NoData
<1>5. RequestInv' /\ HungInv' /\ ServerInv' /\ ServerTypes'
  BY <1>1, <1>3, <1>4, NothingAsked DEF TransferInv, TransferTypes
<1>6. Scripted'
  BY <1>1, <1>2 DEF Scripted
<1>7. SocketTypes' /\ ReplyTypes'
  BY <1>1 DEF TransferInv, TransferTypes, SocketTypes, ReplyTypes, channel
<1>8. CallTypes'
  <2>1. << >> \in Seq(Block)
    OBVIOUS
  <2> QED BY <1>1, <1>2, <2>1 DEF CallTypes
<1>9. ClientInv' /\ ResultInv'
  <2>1. SUFFICES ASSUME op \in Transfers PROVE ClientInv' /\ ResultInv'
    BY <1>2 DEF ClientInv, ResultInv
  <2>2. /\ ~Over' /\ At("close")'
    BY <1>1, <2>1 DEF Over, At
  <2>3. ResultInv'
    BY <2>2 DEF ResultInv
  <2>4. \A x : x # "close" => ~At(x)'
    BY <2>2 DEF At
  <2> QED BY <1>1, <2>3, <2>4 DEF ClientInv, Is
<1> QED BY <1>5, <1>6, <1>7, <1>8, <1>9 DEF TransferInv, TransferTypes

\* The calls begin as they should.
LEMMA CallsFit ==
  ASSUME MatchInv, MatchInv', TransferInv, PortInv, Rearming(world),
         CallConnect \/ CallSimple \/ CallMove \/ CallDownload \/ CallUpload
  PROVE  TransferInv'
<1>1. /\ Body(agenda', call'.op) /\ agenda = << >>
  BY CallsAreBodies
<1>2. agenda' \in Agendas /\ agenda' # << >> /\ agenda'[1][1] \in {"close", "send", "dial"}
  BY <1>1 DEF Body, WellFormed
<1>3. "none" \in FileNames /\ \A f \in Files : f \in FileNames
  BY DEF FileNames
<1>4. ASSUME NEW op, op \notin Transfers, NEW body, Plain(body), Call(op, "none", body)
      PROVE  TransferInv'
  <2>1. agenda' = body
    BY <1>4 DEF Call
  <2>2. InScript(body, passive_mode, op)
    BY <1>4 DEF InScript
  <2> QED BY <1>2, <1>3, <1>4, <2>1, <2>2, CallBegins
<1>5. ASSUME NEW op \in Transfers, NEW f \in Files, MayGoOn, Armed,
             Call(op, f, Transfer(AskedBy(op), MoverOf(op)))
      PROVE  TransferInv'
  <2>1. passive_mode \/ ~DataPortListening
    BY <1>1, <1>5 DEF Armed, MayGoOn, Rearming, PortInv, At, Transfers
  <2>2. PICK body : body = Transfer(AskedBy(op), MoverOf(op))
    OBVIOUS
  <2>3. body \notin Finished /\ InScript(body, passive_mode, op) /\ Stage(body, "close", NoCmd)
    BY <2>1, <2>2, TransferFits DEF TransferInv, TransferTypes, SocketTypes
  <2>4. agenda' = body /\ Call(op, f, body)
    BY <1>5, <2>2 DEF Call
  <2>5. Head(body)[1] = "close"
    BY <2>3 DEF Stage
  <2> QED BY <1>2, <1>3, <1>5, <2>3, <2>4, <2>5, CallBegins
<1>6. CASE CallConnect
  <2>1. "connect" \notin Transfers
    BY DEF Transfers
  <2> QED BY <1>4, <1>6, <2>1, PlainBodies DEF CallConnect
<1>7. CASE CallSimple
  BY <1>4, <1>7, PlainBodies DEF CallSimple
<1>8. CASE CallMove
  <2>1. "move" \notin Transfers
    BY DEF Transfers
  <2> QED BY <1>4, <1>8, <2>1, PlainBodies DEF CallMove
<1>9. CASE CallDownload
  <2>1. "download" \in Transfers /\ AskedBy("download") = "RETR" /\ MoverOf("download") = "read"
    BY DEF Transfers, AskedBy, MoverOf
  <2>2. MayGoOn /\ Armed /\ \E f \in Files : Call("download", f, Transfer("RETR", "read"))
    BY <1>9 DEF CallDownload
  <2> QED BY <1>5, <2>1, <2>2
<1>10. CASE CallUpload
  <2>1. "upload" \in Transfers /\ AskedBy("upload") = "STOR" /\ MoverOf("upload") = "write"
    BY DEF Transfers, AskedBy, MoverOf
  <2>2. MayGoOn /\ Armed /\ \E f \in Files : Call("upload", f, Transfer("STOR", "write"))
    BY <1>10 DEF CallUpload
  <2> QED BY <1>5, <2>1, <2>2
<1> QED BY <1>6, <1>7, <1>8, <1>9, <1>10

\* The session ends with the control connection.
LEMMA SessionEnds ==
  ASSUME EndSession, DiskInv, ServerTypes, disk' = disk
  PROVE  ServerInv' /\ ServerTypes' /\ RequestInv' /\ NoData'
<1>1. /\ NoData' /\ requests' = << >> /\ data' = [p \in Ports |-> << >>]
      /\ remote' = [p \in Ports |-> "closed"] /\ spas' = NoPort /\ sport' = NoPort
      /\ task' = NoTask
  BY DEF EndSession, CloseDataSock, NoData
<1>2. << >> \in Seq(Block)
  OBVIOUS
<1>3. ServerTypes'
  BY <1>1, <1>2 DEF ServerTypes, AnyPort
<1>4. PortOf' = NoPort
  BY <1>1 DEF PortOf
<1>5. PortsInv'
  BY <1>1, <1>4 DEF PortsInv
<1>6. TaskInv' /\ DiskInv'
  BY <1>1 DEF TaskInv, DiskInv
<1> QED BY <1>1, <1>3, <1>5, <1>6 DEF ServerInv, RequestInv

\* A closed data connection has no socket.
LEMMA NoDataTypes ==
  ASSUME SocketTypes, NoData', port_buf' = port_buf, passive_mode' \in BOOLEAN
  PROVE  SocketTypes'
<1>1. Closed \in Socket /\ NoPort \in AnyPort
  BY DEF Closed, Socket, AnyPort
<1> QED BY <1>1 DEF SocketTypes, NoData

\* Nothing is on its way.
LEMMA NoReplies ==
  ASSUME ReplyTypes, requests' = << >>, replies' = << >>, reply_buf' \in {reply_buf, << >>}
  PROVE  ReplyTypes'
<1>1. << >> \in Seq(Request) /\ << >> \in Seq(Reply) /\ DOMAIN << >> = {}
  OBVIOUS
<1> QED BY <1>1 DEF ReplyTypes

\* Close, called by the user and by CheckError.
LEMMA CloseIsWhole ==
  ASSUME TransferInv, Close, agenda = << >>, UNCHANGED <<passive_mode, reply_buf, agenda,
         progress>>,
         failed' = FALSE, NEW op, op \notin Transfers, call' = [op |-> op, file |-> "none"]
  PROVE  TransferInv'
<1>1. control' = "closed" /\ replies' = << >> /\ EndSession /\ UNCHANGED <<port_buf, disk>>
  BY DEF Close
<1>2. call'.op = op /\ call'.file = "none" /\ "none" \in FileNames
  BY DEF FileNames
<1>3. ServerInv' /\ ServerTypes' /\ RequestInv' /\ NoData'
  BY <1>1, SessionEnds DEF TransferInv, TransferTypes, ServerInv
<1>4. SocketTypes'
  BY <1>1, <1>3, NoDataTypes DEF TransferInv, TransferTypes, SocketTypes
<1>5. ReplyTypes'
  <2>1. requests' = << >>
    BY <1>1 DEF EndSession
  <2> QED BY <1>1, <2>1, NoReplies DEF TransferInv, TransferTypes
<1>6. CallTypes'
  BY <1>2 DEF TransferInv, TransferTypes, CallTypes, progress
<1>7. Scripted'
  <2>1. agenda' \in Finished
    BY DEF Finished
  <2> QED BY <1>4, <2>1, FinishedFits DEF Scripted, SocketTypes
<1>8. HungInv' /\ ClientInv' /\ ResultInv'
  BY <1>1, <1>2 DEF HungInv, ClientInv, ResultInv
<1> QED BY <1>3, <1>4, <1>5, <1>6, <1>7, <1>8 DEF TransferInv, TransferTypes

\* What else the user calls.
LEMMA UserKeeps ==
  ASSUME MatchInv', TransferInv,
         CallClose \/ CheckError \/ \E passive \in BOOLEAN : FTPModeSet(passive)
  PROVE  TransferInv'
<1>1. "close" \notin Transfers /\ "check" \notin Transfers
  BY DEF Transfers
<1>2. CASE CallClose
  BY <1>1, <1>2, CloseIsWhole DEF CallClose
<1>3. CASE CheckError /\ Close
  BY <1>1, <1>3, CloseIsWhole DEF CheckError
<1>4. CASE CheckError /\ ~Close
  <2>1. /\ agenda = << >> /\ failed' = FALSE /\ call' = [op |-> "check", file |-> "none"]
        /\ ~cntrl_error
        /\ UNCHANGED <<control, channel, data, server, passive_mode, reply_buf, agenda, got, wrote>>
        /\ UNCHANGED <<port_buf, bind_sock, accept_sock>>
    BY <1>4 DEF CheckError, session, datasock, progress
  <2>2. call'.op = "check" /\ call'.file = "none" /\ "none" \in FileNames
    BY <2>1 DEF FileNames
  <2>3. ~At("recv") /\ ~At("recv")' /\ ~GivenUp
    BY <2>1 DEF At, GivenUp
  <2>4. NoData => NoData'
    BY <2>1 DEF NoData
  <2>5. RequestInv' /\ HungInv' /\ ServerInv' /\ ServerTypes'
    BY <2>1, <2>3, <2>4, NothingAsked DEF TransferInv, TransferTypes
  <2>6. SocketTypes' /\ ReplyTypes'
    BY <2>1 DEF TransferInv, TransferTypes, SocketTypes, ReplyTypes, channel
  <2>7. CallTypes'
    BY <1>1, <2>1, <2>2 DEF TransferInv, TransferTypes, CallTypes
  <2>8. Scripted'
    <3>1. agenda' \in Finished
      BY <2>1 DEF Finished
    <3> QED BY <2>6, <3>1, FinishedFits DEF Scripted, SocketTypes
  <2>9. ClientInv' /\ ResultInv'
    BY <1>1, <2>2 DEF ClientInv, ResultInv
  <2> QED BY <2>5, <2>6, <2>7, <2>8, <2>9 DEF TransferInv, TransferTypes
<1>5. ASSUME NEW passive \in BOOLEAN, FTPModeSet(passive)
      PROVE  TransferInv'
  <2>1. /\ agenda = << >> /\ passive_mode' = passive /\ NoData'
        /\ UNCHANGED <<world, control, cntrl_error, port_buf, reply_buf, agenda, call, failed, got,
                       wrote>>
        /\ UNCHANGED <<control, channel, data, server>>
    BY <1>5 DEF FTPModeSet, CloseDataSock, NoData, session, user, progress
  <2>2. ~At("recv") /\ ~At("recv")' /\ (GivenUp => GivenUp')
    BY <2>1 DEF At, GivenUp
  <2>3. RequestInv' /\ HungInv' /\ ServerInv' /\ ServerTypes'
    BY <2>1, <2>2, NothingAsked DEF TransferInv, TransferTypes
  <2>4. SocketTypes'
    BY <2>1, NoDataTypes DEF TransferInv, TransferTypes
  <2>5. ReplyTypes' /\ CallTypes'
    BY <2>1 DEF TransferInv, TransferTypes, ReplyTypes, CallTypes, channel
  <2>6. Scripted' /\ Over'
    <3>1. agenda' \in Finished
      BY <2>1 DEF Finished
    <3> QED BY <2>4, <3>1, FinishedFits DEF Scripted, SocketTypes, Over
  <2>7. ClientInv'
    <3>1. \A x : ~At(x)'
      BY <2>1 DEF At
    <3> QED BY <2>6, <3>1 DEF ClientInv, Is
  <2>8. ResultInv'
    <3>1. Over
      BY <2>1 DEF Over, Finished
    <3>2. UNCHANGED <<task, disk, data>>
      BY <2>1 DEF server
    <3> QED BY <2>1, <3>1, <3>2 DEF TransferInv, ResultInv
  <2> QED BY <2>3, <2>4, <2>5, <2>6, <2>7, <2>8 DEF TransferInv, TransferTypes
<1> QED BY <1>2, <1>3, <1>4, <1>5

\* ConnectHost.
LEMMA DialKeeps ==
  ASSUME MatchInv, TransferInv, Dial
  PROVE  TransferInv'
<1>1. /\ At("dial") /\ EndSession /\ reply_buf' = << >> /\ agenda # << >>
      /\ UNCHANGED <<passive_mode, port_buf, got, wrote, disk, call>>
      /\ \/ /\ agenda' = Tail(agenda) /\ failed' = failed
            /\ \/ /\ control' = "open"
                  /\ replies' = << [code |-> 220, fresh |-> TRUE, port |-> NoPort] >>
               \/ /\ control' = "hungup"
                  /\ replies' = << [code |-> 421, fresh |-> TRUE, port |-> NoPort] >>
         \/ control' = "closed" /\ replies' = << >> /\ failed' = TRUE /\ agenda' = << >>
  BY DEF Dial, Done, user, At, progress
<1>2. call.op \notin Transfers
  <2>1. SUFFICES ASSUME call.op \in Transfers PROVE FALSE
    OBVIOUS
  <2>2. ~Over
    <3>1. agenda = CloseDataPort => ~At("dial")
      <4>1. CloseDataPort[1][1] = "close" /\ CloseDataPort \in Agendas /\ CloseDataPort # << >>
        BY WellClosed DEF WellFormed
      <4>2. Head(CloseDataPort) = CloseDataPort[1]
        BY <4>1, SeqParts DEF Agendas
      <4> QED BY <4>1, <4>2 DEF At
    <3> QED BY <1>1, <3>1 DEF Over, Finished
  <2>3. PassiveStage(agenda, Tail(agenda), Asked, Mover) \/ ActiveStage(agenda, Tail(agenda), Asked, Mover)
    BY <2>1, <2>2, Stages DEF TransferInv, TransferTypes, SocketTypes, Scripted, Over, Asked, Mover
  <2>4. Mover \in {"read", "write"}
    BY DEF Mover, MoverOf
  <2> QED BY <1>1, <2>3, <2>4 DEF PassiveStage, ActiveStage, Stage, At
<1>3. ServerInv' /\ ServerTypes' /\ RequestInv' /\ NoData'
  BY <1>1, SessionEnds DEF TransferInv, TransferTypes, ServerInv
<1>4. SocketTypes'
  BY <1>1, <1>3, NoDataTypes DEF TransferInv, TransferTypes, SocketTypes
<1>5. PICK x, y : /\ x \in Reply /\ y \in Reply
                  /\ x = [code |-> 220, fresh |-> TRUE, port |-> NoPort]
                  /\ y = [code |-> 421, fresh |-> TRUE, port |-> NoPort]
  <2>1. [code |-> 220, fresh |-> TRUE, port |-> NoPort] \in Reply
    BY DEF Reply, AnyPort
  <2>2. [code |-> 421, fresh |-> TRUE, port |-> NoPort] \in Reply
    BY DEF Reply, AnyPort
  <2> QED BY <2>1, <2>2
<1>13. x.code = 220 /\ y.code = 421 /\ x.port = NoPort /\ y.port = NoPort /\ x \in Reply /\ y \in Reply
  BY <1>5
<1>6. /\ << x >> \in Seq(Reply) /\ Len(<< x >>) = 1 /\ DOMAIN << x >> = {1} /\ << x >>[1] = x
      /\ << y >> \in Seq(Reply) /\ Len(<< y >>) = 1 /\ DOMAIN << y >> = {1} /\ << y >>[1] = y
      /\ << >> \in Seq(Reply) /\ Len(<< >>) = 0 /\ DOMAIN << >> = {} /\ << >> \in Seq(Request)
  BY <1>13
<1>7. replies' \in {<< x >>, << y >>, << >>} /\ requests' = << >>
  BY <1>1, <1>5 DEF EndSession
<1>8. ReplyTypes'
  <2>1. reply_buf' = << >>
    BY <1>1
  <2>2. \A i \in DOMAIN replies' : replies'[i].code \in {220, 421} /\ replies'[i].port = NoPort
    BY <1>6, <1>7, <1>13
  <2>3. replies' \in Seq(Reply) /\ requests' \in Seq(Request) /\ reply_buf' \in Seq(Reply)
    BY <1>6, <1>7, <2>1
  <2> QED BY <2>2, <2>3 DEF ReplyTypes
<1>9. CallTypes'
  BY <1>1 DEF TransferInv, TransferTypes, CallTypes
<1>10. Scripted'
  <2>1. InScript(Tail(agenda), passive_mode, call.op)
    BY <1>1, TailFits
       DEF TransferInv, TransferTypes, SocketTypes, Scripted, MatchInv, WellFormed
  <2>2. InScript(<< >>, passive_mode, call.op)
    BY FinishedFits DEF TransferInv, TransferTypes, SocketTypes, Finished
  <2> QED BY <1>1, <2>1, <2>2 DEF Scripted
<1>11. HungInv'
  <2>1. SUFFICES ASSUME control' = "hungup" PROVE HungInv'
    BY DEF HungInv
  <2>2. At("recv")' /\ replies' = << y >>
    BY <1>1, <1>5, <2>1, SendIsAnswered DEF MatchInv
  <2> QED BY <1>1, <1>2, <1>6, <2>2 DEF HungInv
<1>12. ClientInv' /\ ResultInv'
  BY <1>1, <1>2 DEF ClientInv, ResultInv
<1> QED BY <1>3, <1>4, <1>8, <1>9, <1>10, <1>11, <1>12 DEF TransferInv, TransferTypes

------------------------------------------------------------------------------
\* The client's steps.

\* What is left at the end is at most to close.
LEMMA FinishedCloses ==
  ASSUME NEW a \in Finished, a # << >>
  PROVE  Head(a)[1] = "close"
<1>1. /\ CloseDataPort[1][1] = "close" /\ CloseDataPort \in Agendas /\ CloseDataPort # << >>
  BY WellClosed DEF WellFormed
<1>2. Head(CloseDataPort) = CloseDataPort[1]
  BY <1>1, SeqParts DEF Agendas
<1> QED BY <1>1, <1>2 DEF Finished

\* A call that is over.
LEMMA OverIsQuiet ==
  ASSUME Over', passive_mode' \in BOOLEAN
  PROVE  Scripted' /\ ClientInv' /\ \A x : x # "close" => ~At(x)'
<1>1. Scripted'
  BY FinishedFits DEF Over, Scripted
<1>2. \A x : x # "close" => ~At(x)'
  BY FinishedCloses DEF Over, At
<1>3. Mover' # "close"
  BY DEF Mover, MoverOf
<1> QED BY <1>1, <1>2, <1>3 DEF ClientInv, Is

\* The call fails.
LEMMA FailEnds ==
  ASSUME Fail, agenda # << >>, SocketTypes, passive_mode' = passive_mode
  PROVE  /\ Scripted' /\ ClientInv' /\ ResultInv' /\ ~At("recv")'
         /\ Over' /\ failed' = TRUE /\ call' = call
<1>1. Over' /\ failed' = TRUE /\ call' = call
  BY Failing DEF GoesOn, Over, Finished, Fail
<1>2. ResultInv'
  BY <1>1 DEF ResultInv
<1> QED BY <1>1, <1>2, OverIsQuiet DEF SocketTypes

\* Where a transfer is.
LEMMA StageNow ==
  ASSUME MatchInv, TransferInv, agenda # << >>, ~At("close"), call.op \in Transfers
  PROVE  /\ ~Over /\ Asked \in {"RETR", "STOR"} /\ Mover \in {"read", "write"}
         /\ passive_mode => PassiveStage(agenda, Tail(agenda), Asked, Mover)
         /\ ~passive_mode => ActiveStage(agenda, Tail(agenda), Asked, Mover)
<1>1. ~Over
  BY FinishedCloses DEF Over, At
<1> QED BY <1>1, Stages DEF TransferInv, TransferTypes, SocketTypes, Scripted, Over, Asked, Mover,
           AskedBy, MoverOf

\* The steps on a data connection are those of transfers.
LEMMA InTransfer ==
  ASSUME MatchInv, TransferInv, agenda # << >>,
         ~At("send"), ~At("recv"), ~At("dial"), ~At("close")
  PROVE  call.op \in Transfers
<1>1. 1 \in DOMAIN agenda /\ Head(agenda) = agenda[1]
  BY SeqParts DEF MatchInv, WellFormed, Agendas
<1> QED BY <1>1 DEF TransferInv, Scripted, InScript, Plain, PlainStep, At

\* The next step is in the script.
LEMMA NextFits ==
  ASSUME MatchInv, TransferInv, agenda # << >>, agenda' = Tail(agenda), call' = call,
         passive_mode' = passive_mode
  PROVE  Scripted'
BY TailFits DEF MatchInv, WellFormed, TransferInv, TransferTypes, SocketTypes, Scripted

\* A step of the client alone.
LEMMA Silent ==
  ASSUME MatchInv, MatchInv', TransferInv, agenda # << >>, ~At("recv"), ~At("recv")',
         GivenUp => GivenUp', ~At("close") \/ NoData',
         UNCHANGED <<control, channel, data, server>>, reply_buf' \in {reply_buf, << >>},
         SocketTypes', CallTypes', Scripted', ClientInv', ResultInv'
  PROVE  TransferInv'
<1>1. requests = << >> \/ NoData'
  BY Between, StillTrying
<1>2. RequestInv' /\ HungInv' /\ ServerInv' /\ ServerTypes'
  BY <1>1, NothingAsked DEF TransferInv, TransferTypes
<1>3. ReplyTypes'
  <2>1. << >> \in Seq(Reply)
    OBVIOUS
  <2>2. UNCHANGED <<requests, replies>> /\ ReplyTypes
    BY DEF channel, TransferInv, TransferTypes
  <2>3. reply_buf' \in Seq(Reply)
    BY <2>1, <2>2 DEF ReplyTypes
  <2> QED BY <2>2, <2>3 DEF ReplyTypes
<1> QED BY <1>2, <1>3 DEF TransferInv, TransferTypes

\* What has been started stays as it is.
LEMMA StartedSame ==
  ASSUME UNCHANGED <<world, passive_mode, bind_sock, port_buf, call, got, wrote, data, server>>
  PROVE  /\ Peer' = Peer /\ Holds' = Holds /\ Started' = Started /\ Ready' = Ready
         /\ Free(Peer)' = Free(Peer)
<1>1. UNCHANGED <<remote, spas, sport, task, data>>
  BY DEF server
<1>2. Peer' = Peer /\ Holds' = Holds /\ Asked' = Asked
  BY DEF Peer, Holds, Asked
<1>3. Started' = Started
  BY <1>1, <1>2 DEF Started
<1>4. PortOf' = PortOf /\ ServerReady' = ServerReady
  BY <1>1 DEF ServerReady, PortOf, Untouched
<1> QED BY <1>1, <1>2, <1>3, <1>4 DEF Ready, Free

\* Accept, and its failure.
LEMMA AcceptKeeps ==
  ASSUME MatchInv, MatchInv', TransferInv, Accept \/ AcceptFails
  PROVE  TransferInv'
<1>1. At("accept") /\ agenda # << >> /\ ~At("recv") /\ ~At("close") /\ ~At("send") /\ ~At("dial")
  BY DEF Accept, AcceptFails, At
<1>2. /\ UNCHANGED <<world, control, channel, data, server, got, wrote>>
      /\ UNCHANGED <<reply_buf, port_buf, bind_sock, passive_mode>>
  BY DEF Accept, AcceptFails, session, datasock, progress
<1>3. ~GivenUp /\ call.op \in Transfers
  BY <1>1, StillTrying, InTransfer
<1>4. CASE AcceptFails
  <2>1. Fail /\ UNCHANGED accept_sock
    BY <1>4 DEF AcceptFails, datasock
  <2>2. Scripted' /\ ClientInv' /\ ResultInv' /\ ~At("recv")' /\ failed' = TRUE /\ call' = call
    BY <1>1, <1>2, <2>1, FailEnds DEF TransferInv, TransferTypes
  <2>3. SocketTypes' /\ CallTypes'
    BY <1>2, <2>1, <2>2 DEF TransferInv, TransferTypes, SocketTypes, CallTypes
  <2> QED BY <1>1, <1>2, <1>3, <2>2, <2>3, Silent
<1>5. CASE Accept
  <2>1. /\ bind_sock.as = "listening" /\ remote[bind_sock.port] \in {"connected", "done"}
        /\ accept_sock' = bind_sock.port /\ agenda' = Tail(agenda) /\ UNCHANGED <<call, failed>>
    BY <1>5 DEF Accept, Done, user
  <2>2. /\ ~passive_mode /\ Is("accept", Asked) /\ Stage(agenda', Mover, NoCmd) /\ ~Over
        /\ Mover \in {"read", "write"}
    <3>1. /\ ~Over /\ Asked \in {"RETR", "STOR"} /\ Mover \in {"read", "write"}
          /\ passive_mode => PassiveStage(agenda, Tail(agenda), Asked, Mover)
          /\ ~passive_mode => ActiveStage(agenda, Tail(agenda), Asked, Mover)
      BY <1>1, <1>3, StageNow
    <3>2. ~PassiveStage(agenda, Tail(agenda), Asked, Mover)
      BY <1>1, <3>1 DEF PassiveStage, Stage, At
    <3> QED BY <1>1, <2>1, <3>1, <3>2 DEF ActiveStage, Stage, At, Is, Command
  <2>3. ~Over' /\ At(Mover)' /\ Mover' = Mover /\ \A x : x # Mover => ~At(x)'
    BY <2>1, <2>2 DEF Stage, Over, At, Mover, Finished
  <2>4. Holds /\ Started /\ got = << >> /\ wrote = 0
    <3>1. ~At(Mover)
      BY <1>1, <2>2 DEF At
    <3> QED BY <1>3, <2>2, <3>1 DEF TransferInv, ClientInv
  <2>5. Peer' = Peer /\ Holds' /\ Started' /\ Peer = bind_sock.port
    BY <1>2, <2>1, <2>2, <2>4, StartedSame DEF Holds
  <2>6. Moving'
    <3>1. DataEnd' = Peer'
      BY <1>2, <2>1, <2>2, <2>5 DEF DataEnd
    <3>2. remote'[Peer'] \in {"reached", "connected", "done"}
      BY <1>2, <2>1, <2>5 DEF server
    <3> QED BY <2>5, <3>1, <3>2 DEF Moving
  <2>7. wrote' < Blocks
    BY <1>2, <2>4, FtpAssumption
  <2>8. ClientInv'
    BY <2>2, <2>3, <2>6, <2>7 DEF ClientInv, Is
  <2>9. ResultInv'
    BY <2>3 DEF ResultInv
  <2>10. Scripted'
    BY <1>1, <1>2, <2>1, NextFits
  <2>11. SocketTypes' /\ CallTypes'
    <3>1. accept_sock' \in AnyPort
      BY <2>1 DEF TransferInv, TransferTypes, SocketTypes, Socket, AnyPort
    <3> QED BY <1>2, <2>1, <3>1 DEF TransferInv, TransferTypes, SocketTypes, CallTypes
  <2>12. ~At("recv")'
    BY <2>2, <2>3
  <2> QED BY <1>1, <1>2, <1>3, <2>8, <2>9, <2>10, <2>11, <2>12, Silent
<1> QED BY <1>4, <1>5

\* Where there is only CloseDataPort to do, nothing is left after it.
LEMMA ClosingEnds ==
  ASSUME NEW a \in Finished, a # << >>
  PROVE  Tail(a) = << >>
<1>1. PICK x : x = << "close", NoCmd >>
  OBVIOUS
<1>2. CloseDataPort = << x >>
  BY <1>1, Zenon DEF CloseDataPort, NoCmd
<1>3. Tail(<< x >>) = << >>
  OBVIOUS
<1> QED BY <1>2, <1>3 DEF Finished

\* What the client has been sent stays.
LEMMA RepliesStay ==
  ASSUME ReplyTypes, UNCHANGED channel, reply_buf' \in {reply_buf, << >>}
  PROVE  ReplyTypes'
<1>1. << >> \in Seq(Reply)
  OBVIOUS
<1>2. UNCHANGED <<requests, replies>>
  BY DEF channel
<1>3. reply_buf' \in Seq(Reply)
  BY <1>1 DEF ReplyTypes
<1> QED BY <1>2, <1>3 DEF ReplyTypes

\* RecvResponse without a reply.
LEMMA NoReplyKeeps ==
  ASSUME MatchInv', TransferInv, TimeOut \/ Disconnected
  PROVE  TransferInv'
<1>1. /\ agenda # << >> /\ Fail /\ reply_buf' = << >> /\ (control = "open" \/ replies = << >>)
      /\ UNCHANGED <<control, channel, data, server>>
      /\ UNCHANGED <<passive_mode, port_buf, bind_sock, accept_sock, got, wrote>>
  BY DEF TimeOut, Disconnected, At, session, datasock, progress
<1>2. /\ Scripted' /\ ClientInv' /\ ResultInv' /\ ~At("recv")' /\ failed' = TRUE
      /\ call' = call
  BY <1>1, FailEnds DEF TransferInv, TransferTypes
<1>3. NoData => NoData'
  BY <1>1 DEF NoData
<1>4. RequestInv' /\ HungInv' /\ ServerInv' /\ ServerTypes'
  BY <1>1, <1>2, <1>3, NothingAsked DEF TransferInv, TransferTypes
<1>5. ReplyTypes'
  BY <1>1, RepliesStay DEF TransferInv, TransferTypes
<1>6. SocketTypes' /\ CallTypes'
  BY <1>1, <1>2 DEF TransferInv, TransferTypes, SocketTypes, CallTypes
<1> QED BY <1>2, <1>4, <1>5, <1>6 DEF TransferInv, TransferTypes

\* Where the file is moved.
LEMMA AtMover ==
  ASSUME MatchInv, TransferInv, At("read") \/ At("write")
  PROVE  /\ call.op \in Transfers /\ At(Mover) /\ Mover \in {"read", "write"}
         /\ (At("read") <=> call.op = "download") /\ (At("write") <=> call.op = "upload")
         /\ agenda # << >> /\ ~Over /\ ~GivenUp /\ Tail(agenda) \in Finished
         /\ ~At("send") /\ ~At("recv") /\ ~At("dial") /\ ~At("close") /\ ~At("accept")
<1>1. /\ agenda # << >> /\ ~At("send") /\ ~At("recv") /\ ~At("dial") /\ ~At("close")
      /\ ~At("accept")
  BY DEF At
<1>2. call.op \in Transfers /\ ~GivenUp
  BY <1>1, InTransfer, StillTrying
<1>3. /\ ~Over /\ Asked \in {"RETR", "STOR"} /\ Mover \in {"read", "write"}
      /\ passive_mode => PassiveStage(agenda, Tail(agenda), Asked, Mover)
      /\ ~passive_mode => ActiveStage(agenda, Tail(agenda), Asked, Mover)
  BY <1>1, <1>2, StageNow
<1>4. passive_mode \in BOOLEAN
  BY DEF TransferInv, TransferTypes, SocketTypes
<1>5. Stage(agenda, Mover, NoCmd) /\ Tail(agenda) \in Finished
  BY <1>1, <1>3, <1>4 DEF PassiveStage, ActiveStage, Stage, At
<1>6. At(Mover)
  BY <1>1, <1>5 DEF Stage, At
<1>7. (At("read") <=> call.op = "download") /\ (At("write") <=> call.op = "upload")
  BY <1>1, <1>2, <1>6 DEF Mover, MoverOf, Transfers, At
<1> QED BY <1>1, <1>2, <1>3, <1>5, <1>6, <1>7

\* The end of a download, and its failure.
LEMMA ReadEnds ==
  ASSUME MatchInv, MatchInv', TransferInv, ReadEnd \/ ReadFails
  PROVE  TransferInv'
<1>1. At("read") /\ agenda' = Tail(agenda) /\ call' = call /\ failed' \in BOOLEAN
  BY DEF ReadEnd, ReadFails, Done, user, TransferInv, TransferTypes, CallTypes
<1>2. /\ UNCHANGED <<control, channel, data, server>>
      /\ UNCHANGED <<world, passive_mode, port_buf, bind_sock, accept_sock, reply_buf, got, wrote>>
  BY DEF ReadEnd, ReadFails, session, datasock, progress
<1>3. /\ call.op = "download" /\ agenda # << >> /\ ~GivenUp /\ Tail(agenda) \in Finished
      /\ ~At("recv") /\ ~At("close") /\ call.op \in Transfers /\ ~Over
  BY <1>1, AtMover
<1>4. Over' /\ passive_mode' \in BOOLEAN
  BY <1>1, <1>2, <1>3 DEF Over, TransferInv, TransferTypes, SocketTypes
<1>5. Scripted' /\ ClientInv' /\ ~At("recv")'
  BY <1>4, OverIsQuiet
<1>6. SocketTypes' /\ CallTypes'
  BY <1>1, <1>2 DEF TransferInv, TransferTypes, SocketTypes, CallTypes
<1>7. ResultInv'
  <2>1. SUFFICES ASSUME world.completes PROVE got = Whole(call.file)
    BY <1>1, <1>2, <1>3 DEF ResultInv
  <2>2. /\ DataEnd # NoPort /\ data[DataEnd] = << >> /\ remote[DataEnd] \in {"closed", "done"}
    BY <2>1 DEF ReadEnd, ReadFails
  <2>3. Moving
    BY <1>1, <1>3 DEF TransferInv, ClientInv
  <2>4. Peer \in Ports /\ remote[Peer] = "done" /\ data[Peer] = << >>
    BY <2>2, <2>3 DEF Moving, Holds
  <2>5. Asked = "RETR"
    BY <1>3 DEF Asked, AskedBy
  <2>6. task = NoTask
    <3>1. SUFFICES ASSUME task # NoTask PROVE FALSE
      OBVIOUS
    <3>2. task.port = Peer /\ task.phase \in {"open", "move"}
      BY <2>3, <3>1 DEF Moving, Started, TransferInv, TransferTypes, ServerTypes, Task
    <3>3. remote[Peer] \in {Untouched, "connected"}
      BY <3>1, <3>2 DEF TransferInv, ServerInv, TaskInv
    <3> QED BY <2>4, <3>3 DEF Untouched
  <2>7. got \o << >> = Whole(call.file)
    BY <2>1, <2>3, <2>4, <2>5, <2>6 DEF Moving, Started
  <2>8. got \in Seq(Block)
    BY DEF TransferInv, TransferTypes, CallTypes
  <2>9. got \o << >> = got
    BY <2>8
  <2> QED BY <2>7, <2>9
<1> QED BY <1>2, <1>3, <1>5, <1>6, <1>7, Silent

\* The local file cannot be read.
LEMMA ReadFileFailsKeeps ==
  ASSUME MatchInv, MatchInv', TransferInv, ReadFileFails
  PROVE  TransferInv'
<1>1. At("write") /\ agenda' = Tail(agenda) /\ call' = call /\ failed' = TRUE
  BY DEF ReadFileFails
<1>2. /\ UNCHANGED <<control, channel, data, server>>
      /\ UNCHANGED <<world, passive_mode, port_buf, bind_sock, accept_sock, reply_buf, got, wrote>>
  BY DEF ReadFileFails, session, datasock, progress
<1>3. /\ agenda # << >> /\ ~GivenUp /\ Tail(agenda) \in Finished
      /\ ~At("recv") /\ ~At("close") /\ call.op \in Transfers
  BY <1>1, AtMover
<1>4. Over' /\ passive_mode' \in BOOLEAN
  BY <1>1, <1>2, <1>3 DEF Over, TransferInv, TransferTypes, SocketTypes
<1>5. Scripted' /\ ClientInv' /\ ~At("recv")'
  BY <1>4, OverIsQuiet
<1>6. SocketTypes' /\ CallTypes'
  BY <1>1, <1>2 DEF TransferInv, TransferTypes, SocketTypes, CallTypes
<1>7. ResultInv'
  BY <1>1 DEF ResultInv
<1> QED BY <1>2, <1>3, <1>5, <1>6, <1>7, Silent

\* A failed Send leaves the rest of the cache out.
LEMMA CacheParts ==
  ASSUME NEW n \in Nat
  PROVE  (n \div Cache + 1) * Cache \in Nat
<1>1. Cache \in Nat /\ Cache > 0
  BY FtpAssumption
<1>2. n \div Cache \in Nat
  BY <1>1
<1>3. \A x, y \in Nat : x * y \in Nat
  OBVIOUS
<1> QED BY <1>1, <1>2, <1>3

\* The failure of an upload.
LEMMA WriteFailsKeeps ==
  ASSUME MatchInv, MatchInv', TransferInv, WriteFails
  PROVE  TransferInv'
<1>1. /\ At("write") /\ DropDataEnd /\ call' = call
      /\ UNCHANGED <<control, channel, data, server>>
      /\ UNCHANGED <<world, passive_mode, port_buf, reply_buf, got>>
      /\ IF wrote' < Blocks THEN agenda' = agenda ELSE agenda' = Tail(agenda)
  BY DEF WriteFails, session, GoOn
<1>2. /\ call.op = "upload" /\ agenda # << >> /\ ~GivenUp /\ Tail(agenda) \in Finished
      /\ ~At("recv") /\ ~At("close") /\ call.op \in Transfers /\ ~Over
  BY <1>1, AtMover
<1>3. wrote' \in Nat /\ failed' \in BOOLEAN /\ (failed' = TRUE \/ world.overlapped)
  <2>1. wrote \in Nat /\ failed \in BOOLEAN
    BY DEF TransferInv, TransferTypes, CallTypes
  <2>2. wrote' \in {Step(wrote), (wrote \div Cache + 1) * Cache}
    BY DEF WriteFails
  <2>3. Step(wrote) \in Nat /\ (wrote \div Cache + 1) * Cache \in Nat
    BY <2>1, CacheParts DEF Step
  <2>4. failed' \in BOOLEAN /\ (failed' = TRUE \/ world.overlapped)
    BY <2>1 DEF WriteFails
  <2> QED BY <2>2, <2>3, <2>4
<1>4. DataEnd' = NoPort
  BY <1>1 DEF DropDataEnd, DataEnd, Closed
<1>5. SocketTypes' /\ CallTypes'
  <2>1. Closed \in Socket /\ NoPort \in AnyPort
    BY DEF Closed, Socket, AnyPort
  <2> QED BY <1>1, <1>3, <2>1
          DEF TransferInv, TransferTypes, SocketTypes, CallTypes, DropDataEnd
<1>6. ResultInv'
  BY <1>1, <1>2, <1>3 DEF ResultInv
<1>7. CASE wrote' < Blocks
  <2>1. agenda' = agenda
    BY <1>1, <1>7
  <2>2. At("write")' /\ \A x : x # "write" => ~At(x)'
    BY <1>1, <2>1 DEF At
  <2>3. Mover' = "write"
    BY <1>1, <1>2 DEF Mover, MoverOf
  <2>4. ClientInv'
    BY <1>4, <1>7, <2>2, <2>3 DEF ClientInv, Is
  <2>5. Scripted'
    BY <1>1, <2>1 DEF TransferInv, Scripted
  <2>6. ~At("recv")'
    BY <2>2
  <2> QED BY <1>1, <1>2, <1>5, <1>6, <2>4, <2>5, <2>6, Silent
<1>8. CASE ~(wrote' < Blocks)
  <2>1. Over' /\ passive_mode' \in BOOLEAN
    BY <1>1, <1>2, <1>8 DEF Over, TransferInv, TransferTypes, SocketTypes
  <2>2. Scripted' /\ ClientInv' /\ ~At("recv")'
    BY <2>1, OverIsQuiet
  <2> QED BY <1>1, <1>2, <1>5, <1>6, <2>2, Silent
<1> QED BY <1>7, <1>8

\* The next step of a transfer.
LEMMA NextStage ==
  ASSUME NEW x, NEW c, Stage(agenda', x, c)
  PROVE  ~Over' /\ At(x)' /\ Command' = c /\ \A y : y # x => ~At(y)'
BY DEF Stage, Over, At, Command, Finished

\* CloseDataPort.
LEMMA CloseDataKeeps ==
  ASSUME MatchInv, MatchInv', TransferInv, CloseData
  PROVE  TransferInv'
<1>1. /\ At("close") /\ NoData' /\ agenda # << >> /\ agenda' = Tail(agenda)
      /\ call' = call /\ failed' = failed
      /\ UNCHANGED <<control, channel, data, server>>
      /\ UNCHANGED <<world, cntrl_error, passive_mode, port_buf, reply_buf, got, wrote>>
      /\ ~At("send") /\ ~At("recv") /\ ~At("dial")
  BY DEF CloseData, CloseDataSock, NoData, At, Done, user, session, progress
<1>2. ~At("recv")'
  BY <1>1, GoingOn DEF MatchInv, GoesOn
<1>3. GivenUp => GivenUp'
  <2>1. \A i \in DOMAIN agenda' : i + 1 \in DOMAIN agenda /\ agenda'[i] = agenda[i + 1]
    BY <1>1, SeqParts DEF MatchInv, WellFormed, Agendas
  <2> QED BY <1>1, <2>1 DEF GivenUp
<1>4. SocketTypes' /\ CallTypes'
  <2>1. passive_mode' \in BOOLEAN
    BY <1>1 DEF TransferInv, TransferTypes, SocketTypes
  <2>2. SocketTypes'
    BY <1>1, <2>1, NoDataTypes DEF TransferInv, TransferTypes
  <2> QED BY <1>1, <2>2 DEF TransferInv, TransferTypes, CallTypes
<1>5. Scripted'
  BY <1>1, NextFits
<1>6. CASE call.op \notin Transfers
  <2>1. ClientInv' /\ ResultInv'
    BY <1>1, <1>6 DEF ClientInv, ResultInv
  <2> QED BY <1>1, <1>2, <1>3, <1>4, <1>5, <2>1, Silent
<1>7. CASE Over
  <2>1. Over'
    BY <1>1, <1>7, ClosingEnds DEF Over, Finished
  <2>2. ClientInv'
    BY <1>4, <2>1, OverIsQuiet DEF SocketTypes
  <2>3. UNCHANGED <<task, disk, data>>
    BY <1>1 DEF server
  <2>4. ResultInv'
    BY <1>1, <1>7, <2>3 DEF TransferInv, ResultInv
  <2> QED BY <1>1, <1>2, <1>3, <1>4, <1>5, <2>2, <2>4, Silent
<1>8. CASE call.op \in Transfers /\ ~Over
  <2>1. /\ Asked \in {"RETR", "STOR"} /\ Mover \in {"read", "write"}
        /\ passive_mode => PassiveStage(agenda, agenda', Asked, Mover)
        /\ ~passive_mode => ActiveStage(agenda, agenda', Asked, Mover)
    BY <1>1, <1>8, Stages DEF TransferInv, TransferTypes, SocketTypes, Scripted, Over, Asked,
       Mover, AskedBy, MoverOf
  <2>2. Stage(agenda', "send", "PASV") \/ Stage(agenda', "listen", "PORT")
    BY <1>1, <2>1 DEF PassiveStage, ActiveStage, Stage, At
  <2>3. /\ ~Over' /\ \A y : At(y)' => y \in {"send", "listen"}
        /\ At("send")' => Command' = "PASV"
    BY <2>2, NextStage
  <2>4. got = << >> /\ wrote = 0
    <3>1. ~At(Mover)
      BY <1>1, <2>1 DEF At
    <3> QED BY <1>8, <3>1 DEF TransferInv, ClientInv
  <2>5. Mover' = Mover /\ Asked' = Asked
    BY <1>1 DEF Mover, Asked
  <2>6. ClientInv'
    BY <1>1, <2>1, <2>3, <2>4, <2>5 DEF ClientInv, Is
  <2>7. ResultInv'
    BY <2>3 DEF ResultInv
  <2> QED BY <1>1, <1>2, <1>3, <1>4, <1>5, <2>6, <2>7, Silent
<1> QED BY <1>6, <1>7, <1>8

\* A reply names a port or none.
LEMMA PasvPortIs ==
  ASSUME reply_buf \in Seq(Reply), reply_buf # << >>
  PROVE  PasvPort \in AnyPort
<1>1. /\ 1 \in DOMAIN reply_buf /\ Tail(reply_buf) \in Seq(Reply)
      /\ \A i \in DOMAIN reply_buf : reply_buf[i] \in Reply
  BY SeqParts
<1>2. PICK buf : buf = IF reply_buf[1].code = 226 THEN Tail(reply_buf) ELSE reply_buf
  OBVIOUS
<1>3. buf \in Seq(Reply)
  BY <1>1, <1>2
<1>4. buf # << >> => 1 \in DOMAIN buf /\ buf[1] \in Reply
  BY <1>3, SeqParts
<1>5. \A r \in Reply : r.port \in AnyPort
  BY DEF Reply
<1>6. PasvPort = IF buf # << >> /\ buf[1].code = 227 THEN buf[1].port ELSE NoPort
  BY <1>2 DEF PasvPort
<1> QED BY <1>4, <1>5, <1>6 DEF AnyPort

\* The client gets on between its commands.
LEMMA HungStays ==
  ASSUME HungInv, ~At("recv"), ~GivenUp, UNCHANGED <<control, replies>>
  PROVE  HungInv'
BY DEF HungInv

\* Connect after PASV.
LEMMA ConnectKeeps ==
  ASSUME MatchInv, MatchInv', TransferInv, Connect
  PROVE  TransferInv'
<1>1. /\ At("connect") /\ agenda # << >> /\ ~At("send") /\ ~At("recv") /\ ~At("dial") /\ ~At("close")
      /\ reply_buf' = << >>
      /\ UNCHANGED <<control, channel, data, spas, sport, task, disk>>
      /\ UNCHANGED <<world, passive_mode, port_buf, accept_sock, got, wrote>>
  BY DEF Connect, At, session, progress
<1>2. ~GivenUp /\ call.op \in Transfers
  BY <1>1, StillTrying, InTransfer
<1>3. CASE Fail /\ UNCHANGED <<bind_sock, remote>>
  <2>1. /\ Scripted' /\ ClientInv' /\ ResultInv' /\ ~At("recv")' /\ failed' = TRUE
        /\ call' = call
    BY <1>1, <1>3, FailEnds DEF TransferInv, TransferTypes
  <2>2. SocketTypes' /\ CallTypes'
    BY <1>1, <1>3, <2>1 DEF TransferInv, TransferTypes, SocketTypes, CallTypes
  <2>3. UNCHANGED server
    BY <1>1, <1>3 DEF server
  <2> QED BY <1>1, <1>2, <2>1, <2>2, <2>3, Silent
<1>4. CASE ~(Fail /\ UNCHANGED <<bind_sock, remote>>)
  <2>1. PICK p : /\ p = PasvPort /\ p # NoPort /\ remote[p] = "listening"
                 /\ remote' = [remote EXCEPT ![p] = "reached"]
                 /\ bind_sock' = [as |-> "connected", port |-> p]
                 /\ agenda' = Tail(agenda) /\ UNCHANGED <<call, failed>>
    BY <1>4 DEF Connect, Done, user
  <2>2. /\ Asked \in {"RETR", "STOR"} /\ Mover \in {"read", "write"} /\ passive_mode = TRUE
        /\ Is("connect", "PASV") /\ Stage(agenda', "send", Asked) /\ ~Over
    <3>1. /\ ~Over /\ Asked \in {"RETR", "STOR"} /\ Mover \in {"read", "write"}
          /\ passive_mode => PassiveStage(agenda, Tail(agenda), Asked, Mover)
          /\ ~passive_mode => ActiveStage(agenda, Tail(agenda), Asked, Mover)
      BY <1>1, <1>2, StageNow
    <3>2. ~ActiveStage(agenda, Tail(agenda), Asked, Mover)
      BY <1>1, <3>1 DEF ActiveStage, Stage, At
    <3>3. passive_mode \in BOOLEAN
      BY DEF TransferInv, TransferTypes, SocketTypes
    <3> QED BY <1>1, <2>1, <3>1, <3>2, <3>3 DEF PassiveStage, Stage, At, Is, Command
  <2>3. p \in Ports
    <3>1. reply_buf # << >>
      BY <1>2, <2>2 DEF TransferInv, ClientInv
    <3> QED BY <2>1, <3>1, PasvPortIs DEF TransferInv, TransferTypes, ReplyTypes, AnyPort
  <2>4. p = spas /\ task = NoTask /\ PortOf = p /\ PortOf' = p /\ Untouched' = "reached"
        /\ sport = NoPort
    BY <1>1, <2>1, <2>3 DEF TransferInv, ServerInv, PortsInv, PortOf, Untouched
  <2>5. /\ remote' \in [Ports -> {"closed", "listening", "reached", "connected", "done"}]
        /\ remote'[p] = "reached" /\ \A q \in Ports : q # p => remote'[q] = remote[q]
    BY <2>1, <2>3 DEF TransferInv, TransferTypes, ServerTypes
  <2>6. ServerTypes'
    BY <1>1, <2>5 DEF TransferInv, TransferTypes, ServerTypes
  <2>7. PortsInv'
    BY <1>1, <2>4, <2>5 DEF TransferInv, ServerInv, PortsInv
  <2>8. ServerInv'
    BY <1>1, <2>4, <2>7 DEF TransferInv, ServerInv, TaskInv, DiskInv
  <2>9. UNCHANGED <<requests, replies>>
    BY <1>1 DEF channel
  <2>10. RequestInv' /\ HungInv'
    <3>1. requests' = << >>
      BY <1>1, <1>2, <2>9, Between
    <3> QED BY <1>1, <1>2, <2>9, <3>1, HungStays DEF TransferInv, RequestInv
  <2>11. SocketTypes' /\ CallTypes' /\ ReplyTypes'
    <3>1. [as |-> "connected", port |-> p] \in Socket
      BY <2>3 DEF Socket
    <3>2. ReplyTypes'
      BY <1>1, RepliesStay DEF TransferInv, TransferTypes
    <3> QED BY <1>1, <2>1, <3>1, <3>2 DEF TransferInv, TransferTypes, SocketTypes, CallTypes
  <2>12. Scripted'
    BY <1>1, <2>1, NextFits
  <2>13. ~Over' /\ At("send")' /\ Command' = Asked /\ \A y : y # "send" => ~At(y)'
    BY <2>2, NextStage
  <2>14. Ready'
    <3>1. bind_sock'.port = p
      BY <2>1
    <3>2. Peer' = p
      BY <1>1, <2>2, <3>1 DEF Peer
    <3>3. Holds'
      BY <1>1, <2>1, <2>2, <2>3, <3>2 DEF Holds
    <3>4. ServerReady'
      BY <1>1, <2>1, <2>4, <2>5 DEF ServerReady
    <3> QED BY <1>1, <2>1, <2>2, <2>4, <3>2, <3>3, <3>4 DEF Ready
  <2>15. got = << >> /\ wrote = 0
    <3>1. ~At(Mover)
      BY <1>1, <2>2 DEF At
    <3> QED BY <1>2, <2>2, <3>1 DEF TransferInv, ClientInv
  <2>16. Asked' = Asked /\ Mover' = Mover
    BY <2>1 DEF Asked, Mover
  <2>17. ClientInv' /\ ResultInv'
    BY <1>1, <2>2, <2>13, <2>14, <2>15, <2>16 DEF ClientInv, ResultInv, Is
  <2> QED BY <2>6, <2>8, <2>10, <2>11, <2>12, <2>17 DEF TransferInv, TransferTypes
<1> QED BY <1>3, <1>4

\* OpenDataPort listens.
LEMMA ListenKeeps ==
  ASSUME EnoughPorts, MatchInv, MatchInv', TransferInv, Listen
  PROVE  TransferInv'
<1>1. /\ At("listen") /\ agenda # << >> /\ ~At("send") /\ ~At("recv") /\ ~At("dial") /\ ~At("close")
      /\ UNCHANGED <<control, channel, spas, sport, task, disk>>
      /\ UNCHANGED <<world, passive_mode, accept_sock, reply_buf, got, wrote>>
  BY DEF Listen, At, session, progress
<1>2. ~GivenUp /\ call.op \in Transfers
  BY <1>1, StillTrying, InTransfer
<1>3. /\ Asked \in {"RETR", "STOR"} /\ Mover \in {"read", "write"} /\ passive_mode = FALSE
      /\ Is("listen", "PORT") /\ Stage(Tail(agenda), "send", "PORT") /\ ~Over
  <2>1. /\ ~Over /\ Asked \in {"RETR", "STOR"} /\ Mover \in {"read", "write"}
        /\ passive_mode => PassiveStage(agenda, Tail(agenda), Asked, Mover)
        /\ ~passive_mode => ActiveStage(agenda, Tail(agenda), Asked, Mover)
    BY <1>1, <1>2, StageNow
  <2>2. ~PassiveStage(agenda, Tail(agenda), Asked, Mover)
    BY <1>1, <2>1 DEF PassiveStage, Stage, At
  <2>3. passive_mode \in BOOLEAN
    BY DEF TransferInv, TransferTypes, SocketTypes
  <2> QED BY <1>1, <2>1, <2>2, <2>3 DEF ActiveStage, Stage, At, Is, Command
<1>4. NoData
  BY <1>2, <1>3 DEF TransferInv, ClientInv
<1>5. PICK p : p = NewPort
  OBVIOUS
<1>6. /\ p \in Ports /\ p \notin {spas, sport} /\ p # PortOf
      /\ remote[p] \in {"closed", "done"} /\ (task # NoTask => task.port # p)
  <2>1. Ahead
    BY <1>1, <1>3, AheadFacts DEF Stage, Finished
  <2>2. \A i \in DOMAIN replies : replies[i].code = 226
    BY <1>1, <2>1, NoCommandYet DEF TransferInv, TransferTypes
  <2> QED BY <1>4, <1>5, <2>2, NewPortIs DEF TransferInv, TransferTypes, ServerInv
<1>7. [as |-> "listening", port |-> p] \in Socket /\ Closed \in Socket
  BY <1>6 DEF Socket, Closed
<1>8. CASE /\ bind_sock' \in {Closed, [as |-> "listening", port |-> p]} /\ Fail
           /\ UNCHANGED <<port_buf, data, remote>>
  <2>1. /\ Scripted' /\ ClientInv' /\ ResultInv' /\ ~At("recv")' /\ failed' = TRUE
        /\ call' = call
    BY <1>1, <1>8, FailEnds DEF TransferInv, TransferTypes
  <2>2. SocketTypes' /\ CallTypes'
    BY <1>1, <1>7, <1>8, <2>1 DEF TransferInv, TransferTypes, SocketTypes, CallTypes
  <2>3. UNCHANGED <<data, server>>
    BY <1>1, <1>8 DEF server
  <2> QED BY <1>1, <1>2, <1>8, <2>1, <2>2, <2>3, Silent
<1>9. CASE /\ bind_sock' = [as |-> "listening", port |-> p] /\ port_buf' = p
           /\ data' = [data EXCEPT ![p] = << >>] /\ remote' = [remote EXCEPT ![p] = "closed"]
           /\ agenda' = Tail(agenda) /\ UNCHANGED <<call, failed>>
  <2>1. /\ remote' \in [Ports -> {"closed", "listening", "reached", "connected", "done"}]
        /\ remote'[p] = "closed" /\ \A q \in Ports : q # p => remote'[q] = remote[q]
        /\ data' \in [Ports -> Seq(Block)]
        /\ data'[p] = << >> /\ \A q \in Ports : q # p => data'[q] = data[q]
    <3>1. << >> \in Seq(Block)
      OBVIOUS
    <3> QED BY <1>6, <1>9, <3>1 DEF TransferInv, TransferTypes, ServerTypes
  <2>2. ServerTypes'
    BY <1>1, <2>1 DEF TransferInv, TransferTypes, ServerTypes
  <2>3. /\ PortOf' = PortOf /\ Untouched' = Untouched /\ PortOf \in AnyPort
        /\ task # NoTask => task.port \in Ports
    <3>1. ServerTypes /\ PortsInv
      BY DEF TransferInv, TransferTypes, ServerInv
    <3> QED BY <1>1, <3>1, PortFacts DEF PortOf, Untouched
  <2>4. PortsInv'
    BY <1>1, <1>6, <2>1, <2>3 DEF TransferInv, ServerInv, PortsInv, AnyPort
  <2>5. TaskInv' /\ DiskInv'
    <3>1. task # NoTask => remote'[task.port] = remote[task.port] /\ data'[task.port] = data[task.port]
      BY <1>6, <2>1, <2>3
    <3> QED BY <1>1, <2>3, <3>1 DEF TransferInv, ServerInv, TaskInv, DiskInv
  <2>6. UNCHANGED <<requests, replies>>
    BY <1>1 DEF channel
  <2>7. RequestInv' /\ HungInv'
    <3>1. requests' = << >>
      BY <1>1, <1>2, <2>6, Between
    <3> QED BY <1>1, <1>2, <2>6, <3>1, HungStays DEF TransferInv, RequestInv
  <2>8. SocketTypes' /\ CallTypes' /\ ReplyTypes'
    <3>1. ReplyTypes'
      BY <1>1, RepliesStay DEF TransferInv, TransferTypes
    <3> QED BY <1>1, <1>6, <1>7, <1>9, <3>1
            DEF TransferInv, TransferTypes, SocketTypes, CallTypes, AnyPort
  <2>9. Scripted'
    BY <1>1, <1>9, NextFits
  <2>10. ~Over' /\ At("send")' /\ Command' = "PORT" /\ \A y : y # "send" => ~At(y)'
    BY <1>3, <1>9, NextStage
  <2>11. Holds' /\ Free(Peer)'
    <3>1. Peer' = p
      BY <1>1, <1>3, <1>9 DEF Peer
    <3>2. Holds'
      BY <1>1, <1>3, <1>6, <1>9, <3>1 DEF Holds
    <3>3. Free(Peer)'
      BY <1>1, <1>6, <2>1, <3>1 DEF Free
    <3> QED BY <3>2, <3>3
  <2>12. got = << >> /\ wrote = 0
    <3>1. ~At(Mover)
      BY <1>1, <1>3 DEF At
    <3> QED BY <1>2, <1>3, <3>1 DEF TransferInv, ClientInv
  <2>13. Asked' = Asked /\ Mover' = Mover
    BY <1>9 DEF Asked, Mover
  <2>14. ClientInv' /\ ResultInv'
    BY <1>1, <1>3, <2>10, <2>11, <2>12, <2>13 DEF ClientInv, ResultInv, Is
  <2> QED BY <2>2, <2>4, <2>5, <2>7, <2>8, <2>9, <2>14 DEF TransferInv, TransferTypes, ServerInv
<1>10. \/ /\ bind_sock' \in {Closed, [as |-> "listening", port |-> p]} /\ Fail
          /\ UNCHANGED <<port_buf, data, remote>>
       \/ /\ bind_sock' = [as |-> "listening", port |-> p] /\ port_buf' = p
          /\ data' = [data EXCEPT ![p] = << >>] /\ remote' = [remote EXCEPT ![p] = "closed"]
          /\ agenda' = Tail(agenda) /\ UNCHANGED <<call, failed>>
  BY <1>5, Zenon DEF Listen, Done, user
<1> QED BY <1>8, <1>9, <1>10

------------------------------------------------------------------------------
\* Blocks.

\* The next block is moved from one sequence to the other.
LEMMA HeadMoves ==
  ASSUME NEW S, NEW s \in Seq(S), NEW t \in Seq(S), t # << >>
  PROVE  /\ Head(t) \in S /\ Append(s, Head(t)) \in Seq(S) /\ Tail(t) \in Seq(S)
         /\ Append(s, Head(t)) \o Tail(t) = s \o t
OBVIOUS

\* A block is added at the end.
LEMMA EndGrows ==
  ASSUME NEW S, NEW s \in Seq(S), NEW t \in Seq(S), NEW x \in S
  PROVE  Append(t, x) \in Seq(S) /\ s \o Append(t, x) = Append(s \o t, x)
OBVIOUS

\* The beginnings of a file.
LEMMA PrefixParts ==
  ASSUME NEW f \in Files, NEW n \in 0 .. Blocks
  PROVE  /\ Prefix(f, n) \in Seq(Block) /\ Len(Prefix(f, n)) = n
         /\ n < Blocks => /\ <<f, n + 1>> \in Block /\ n + 1 \in 0 .. Blocks
                          /\ Append(Prefix(f, n), <<f, n + 1>>) = Prefix(f, n + 1)
<1>1. Blocks \in Nat /\ n \in Nat /\ n <= Blocks
  BY FtpAssumption
<1>2. \A i \in 1 .. n : <<f, i>> \in Block
  BY <1>1 DEF Block
<1>3. Prefix(f, n) \in [1 .. n -> Block]
  BY <1>2 DEF Prefix
<1>4. Prefix(f, n) \in Seq(Block) /\ Len(Prefix(f, n)) = n
  BY <1>1, <1>3
<1>5. ASSUME n < Blocks
      PROVE  /\ <<f, n + 1>> \in Block /\ n + 1 \in 0 .. Blocks
             /\ Append(Prefix(f, n), <<f, n + 1>>) = Prefix(f, n + 1)
  <2>1. n + 1 \in 0 .. Blocks /\ n + 1 \in Nat /\ n + 1 \in 1 .. Blocks
    BY <1>1, <1>5
  <2>2. <<f, n + 1>> \in Block
    BY <2>1 DEF Block
  <2>3. PICK x : x = <<f, n + 1>>
    OBVIOUS
  <2>4. PICK s : s = Prefix(f, n)
    OBVIOUS
  <2>5. /\ Append(s, x) \in Seq(Block) /\ Len(Append(s, x)) = n + 1
        /\ \A i \in 1 .. n : Append(s, x)[i] = s[i]
        /\ Append(s, x)[n + 1] = x
    BY <1>1, <1>4, <2>2, <2>3, <2>4
  <2>6. \A i \in 1 .. n : s[i] = <<f, i>>
    BY <2>4 DEF Prefix
  <2>7. Append(s, x) = [i \in 1 .. n + 1 |-> Append(s, x)[i]]
    <3>1. \A u \in Seq(Block) : u = [i \in 1 .. Len(u) |-> u[i]]
      OBVIOUS
    <3> QED BY <2>5, <3>1
  <2>8. \A i \in 1 .. n + 1 : Append(s, x)[i] = <<f, i>>
    <3> TAKE i \in 1 .. n + 1
    <3>1. i \in 1 .. n \/ i = n + 1
      BY <1>1
    <3> QED BY <2>3, <2>5, <2>6, <3>1
  <2>9. Append(s, x) = [i \in 1 .. n + 1 |-> <<f, i>>]
    BY <2>7, <2>8
  <2> QED BY <2>1, <2>2, <2>3, <2>4, <2>9 DEF Prefix
<1> QED BY <1>4, <1>5

\* A block is received.
LEMMA ReadBlockKeeps ==
  ASSUME MatchInv, TransferInv, ReadBlock
  PROVE  TransferInv'
<1>1. PICK q, t : q = DataEnd /\ t = data[q]
  OBVIOUS
<1>2. /\ At("read") /\ q # NoPort /\ t # << >>
      /\ got' = Append(got, Head(t)) /\ data' = [data EXCEPT ![q] = Tail(t)]
      /\ UNCHANGED <<control, channel, server>>
      /\ UNCHANGED <<remote, spas, sport, task, disk, requests, replies>>
      /\ UNCHANGED <<world, passive_mode, port_buf, bind_sock, accept_sock, reply_buf, wrote>>
      /\ UNCHANGED <<agenda, call, failed, cntrl_error>>
  BY <1>1 DEF ReadBlock, session, datasock, user, channel, server
<1>3. /\ call.op \in Transfers /\ call.op = "download" /\ ~Over /\ ~GivenUp
      /\ ~At("recv") /\ ~At("write") /\ ~At("send") /\ ~At("accept")
  BY <1>2, AtMover
<1>4. /\ Moving /\ Started /\ q = Peer /\ q \in Ports /\ Asked = "RETR"
  BY <1>1, <1>2, <1>3 DEF TransferInv, ClientInv, Moving, Holds, Asked, AskedBy
<1>5. got \in Seq(Block) /\ t \in Seq(Block) /\ data \in [Ports -> Seq(Block)]
  BY <1>1, <1>4 DEF TransferInv, TransferTypes, CallTypes, ServerTypes
<1>6. got' \in Seq(Block) /\ Tail(t) \in Seq(Block) /\ got' \o Tail(t) = got \o t
  BY <1>2, <1>5, HeadMoves
<1>7. /\ data' \in [Ports -> Seq(Block)] /\ data'[q] = Tail(t)
      /\ \A p \in Ports : p # q => data'[p] = data[p]
  BY <1>2, <1>4, <1>5, <1>6
<1>8. ServerTypes' /\ SocketTypes' /\ CallTypes' /\ ReplyTypes'
  <2>1. ReplyTypes'
    BY <1>2, RepliesStay DEF TransferInv, TransferTypes
  <2> QED BY <1>2, <1>6, <1>7, <2>1 DEF TransferInv, TransferTypes, ServerTypes, SocketTypes, CallTypes
<1>9. PortOf' = PortOf /\ Untouched' = Untouched /\ PortOf \in AnyPort
  <2>1. ServerTypes /\ PortsInv
    BY DEF TransferInv, TransferTypes, ServerInv
  <2> QED BY <1>2, <2>1, PortFacts DEF PortOf, Untouched
<1>10. PortsInv'
  <2>1. task = NoTask /\ PortOf # NoPort => PortOf # q /\ PortOf \in Ports
    BY <1>1, <1>2, <1>9 DEF TransferInv, ServerInv, PortsInv, AnyPort
  <2> QED BY <1>2, <1>7, <1>9, <2>1 DEF TransferInv, ServerInv, PortsInv
<1>11. TaskInv' /\ DiskInv'
  <2>1. task # NoTask => task.kind # "STOR"
    BY <1>4 DEF Started
  <2> QED BY <1>2, <1>9, <2>1 DEF TransferInv, ServerInv, TaskInv, DiskInv
<1>12. RequestInv' /\ HungInv'
  <2>1. requests' = << >>
    BY <1>2, <1>3, Between
  <2> QED BY <1>2, <1>3, <2>1, HungStays DEF TransferInv, RequestInv
<1>13. Scripted'
  BY <1>2 DEF TransferInv, Scripted
<1>14. Moving'
  <2>1. Peer' = Peer /\ Asked' = Asked /\ DataEnd' = DataEnd /\ Holds' = Holds
    BY <1>2 DEF Peer, Asked, DataEnd, Holds
  <2>2. got' \o data'[Peer] = got \o data[Peer]
    BY <1>1, <1>4, <1>6, <1>7
  <2>3. Started'
    BY <1>2, <1>4, <2>1, <2>2 DEF Started
  <2> QED BY <1>2, <1>4, <2>1, <2>3 DEF Moving
<1>15. ClientInv'
  <2>1. \A x : x # "read" => ~At(x)'
    BY <1>2 DEF At
  <2>2. Mover' = "read" /\ At("read")'
    BY <1>2, <1>3 DEF Mover, MoverOf, At
  <2> QED BY <1>14, <2>1, <2>2 DEF ClientInv, Is
<1>16. ResultInv'
  BY <1>2, <1>3 DEF ResultInv, Over
<1> QED BY <1>8, <1>10, <1>11, <1>12, <1>13, <1>15, <1>16 DEF TransferInv, TransferTypes, ServerInv

\* A block is sent.
LEMMA WriteBlockKeeps ==
  ASSUME MatchInv, TransferInv, WriteBlock
  PROVE  TransferInv'
<1>1. PICK q, t, x : q = DataEnd /\ t = data[q] /\ x = <<call.file, wrote + 1>>
  OBVIOUS
<1>2. /\ At("write") /\ q # NoPort /\ remote[q] \in {"reached", "connected"}
      /\ data' = [data EXCEPT ![q] = Append(t, x)] /\ wrote' = wrote + 1
      /\ IF wrote' < Blocks THEN agenda' = agenda ELSE agenda' = Tail(agenda)
      /\ UNCHANGED <<control, channel, server>>
      /\ UNCHANGED <<remote, spas, sport, task, disk, requests, replies>>
      /\ UNCHANGED <<world, passive_mode, port_buf, bind_sock, accept_sock, reply_buf, got>>
      /\ UNCHANGED <<call, failed, cntrl_error>>
  BY <1>1 DEF WriteBlock, session, datasock, user, channel, server, Step, GoOn
<1>3. /\ call.op \in Transfers /\ call.op = "upload" /\ ~Over /\ ~GivenUp /\ Tail(agenda) \in Finished
      /\ agenda # << >> /\ ~At("recv") /\ ~At("read") /\ ~At("send") /\ ~At("accept")
  <2>1. ~At("read")
    BY <1>2 DEF At
  <2> QED BY <1>2, <2>1, AtMover
<1>4. /\ Moving /\ Started /\ q = Peer /\ q \in Ports /\ Asked = "STOR" /\ wrote < Blocks
  BY <1>1, <1>2, <1>3 DEF TransferInv, ClientInv, Moving, Holds, Asked, AskedBy
<1>5. /\ task # NoTask /\ task.kind = "STOR" /\ task.file = call.file /\ task.port = q
      /\ task.blocks \o t = Prefix(call.file, wrote)
  BY <1>1, <1>2, <1>4 DEF Started
<1>6. /\ wrote \in 0 .. Blocks /\ wrote \in Nat /\ call.file \in Files
      /\ data \in [Ports -> Seq(Block)] /\ t \in Seq(Block) /\ task.blocks \in Seq(Block)
  <2>1. wrote \in Nat /\ call.file \in Files /\ data \in [Ports -> Seq(Block)]
    BY <1>3 DEF TransferInv, TransferTypes, CallTypes, ServerTypes
  <2>2. task.blocks \in Seq(Block)
    BY <1>5 DEF TransferInv, TransferTypes, ServerTypes, Task
  <2> QED BY <1>1, <1>4, <2>1, <2>2, FtpAssumption
<1>7. x \in Block /\ wrote' \in 0 .. Blocks
      /\ Append(Prefix(call.file, wrote), x) = Prefix(call.file, wrote')
  BY <1>1, <1>2, <1>4, <1>6, PrefixParts
<1>8. Append(t, x) \in Seq(Block) /\ task.blocks \o Append(t, x) = Prefix(call.file, wrote')
  <2>1. Append(t, x) \in Seq(Block) /\ task.blocks \o Append(t, x) = Append(task.blocks \o t, x)
    <3>1. \A b, d \in Seq(Block) : \A y \in Block :
            Append(d, y) \in Seq(Block) /\ b \o Append(d, y) = Append(b \o d, y)
      BY EndGrows
    <3> QED BY <1>6, <1>7, <3>1
  <2> QED BY <1>5, <1>7, <2>1, Zenon
<1>9. /\ data' \in [Ports -> Seq(Block)] /\ data'[q] = Append(t, x)
      /\ \A p \in Ports : p # q => data'[p] = data[p]
  BY <1>2, <1>4, <1>6, <1>8
<1>10. ServerTypes' /\ SocketTypes' /\ CallTypes' /\ ReplyTypes'
  <2>1. ReplyTypes'
    BY <1>2, RepliesStay DEF TransferInv, TransferTypes
  <2>2. wrote' \in Nat
    BY <1>2, <1>6
  <2> QED BY <1>2, <1>9, <2>1, <2>2
          DEF TransferInv, TransferTypes, ServerTypes, SocketTypes, CallTypes
<1>11. PortOf' = PortOf /\ Untouched' = Untouched
  BY <1>2 DEF PortOf, Untouched
<1>12. PortsInv'
  BY <1>2, <1>5, <1>11 DEF TransferInv, ServerInv, PortsInv
<1>13. TaskInv' /\ DiskInv'
  BY <1>2, <1>5, <1>7, <1>8, <1>9, <1>11 DEF TransferInv, ServerInv, TaskInv, DiskInv
<1>14. RequestInv' /\ HungInv'
  <2>1. requests' = << >>
    BY <1>2, <1>3, Between
  <2> QED BY <1>2, <1>3, <2>1, HungStays DEF TransferInv, RequestInv
<1>15. Moving'
  <2>1. Peer' = Peer /\ Asked' = Asked /\ DataEnd' = DataEnd /\ Holds' = Holds
    BY <1>2 DEF Peer, Asked, DataEnd, Holds
  <2>2. Started'
    BY <1>2, <1>4, <1>5, <1>8, <1>9, <2>1 DEF Started
  <2> QED BY <1>2, <1>4, <2>1, <2>2 DEF Moving
<1>16. CASE wrote' < Blocks
  <2>1. agenda' = agenda
    BY <1>2, <1>16
  <2>2. (\A y : y # "write" => ~At(y)') /\ Mover' = "write" /\ At("write")'
    BY <1>2, <1>3, <2>1 DEF At, Mover, MoverOf
  <2>3. ClientInv'
    BY <1>15, <1>16, <2>2 DEF ClientInv, Is
  <2>4. ResultInv' /\ Scripted'
    BY <1>2, <1>3, <2>1 DEF ResultInv, Over, TransferInv, Scripted
  <2> QED BY <1>10, <1>12, <1>13, <1>14, <2>3, <2>4 DEF TransferInv, TransferTypes, ServerInv
<1>17. CASE ~(wrote' < Blocks)
  <2>1. Over'
    BY <1>2, <1>3, <1>17 DEF Over
  <2>2. Scripted' /\ ClientInv'
    BY <1>10, <2>1, OverIsQuiet DEF SocketTypes
  <2>3. wrote' = Blocks
    BY <1>6, <1>7, <1>17, FtpAssumption
  <2>4. task'.blocks \o data'[task'.port] = Whole(call'.file)
    BY <1>2, <1>5, <1>8, <1>9, <2>3 DEF Whole, Prefix
  <2>5. ResultInv'
    BY <1>2, <1>3, <1>5, <2>4 DEF ResultInv
  <2> QED BY <1>10, <1>12, <1>13, <1>14, <2>2, <2>5 DEF TransferInv, TransferTypes, ServerInv
<1> QED BY <1>16, <1>17

------------------------------------------------------------------------------
\* Commands and replies.

\* A command is sent that the next step waits for.
LEMMA SendNext ==
  ASSUME MatchInv, TransferInv, At("send"), agenda' = Tail(agenda)
  PROVE  /\ At("recv")' /\ Command' = Command /\ Command \in Commands /\ Ahead /\ agenda # << >>
         /\ call.op \notin Transfers => Command \notin {"PASV", "PORT", "RETR", "STOR"}
<1>1. /\ agenda # << >> /\ 1 \in DOMAIN agenda /\ Head(agenda) = agenda[1] /\ Tail(agenda) \in Agendas
      /\ Len(agenda) \in Nat /\ Len(Tail(agenda)) = Len(agenda) - 1
      /\ \A i \in DOMAIN Tail(agenda) : Tail(agenda)[i] = agenda[i + 1]
  BY SeqParts DEF MatchInv, WellFormed, Agendas, At
<1>2. StepFits(agenda, 1, call.op)
  BY <1>1 DEF MatchInv, WellFormed
<1>3. Command \in Commands /\ Ahead /\ 1 < Len(agenda) /\ agenda[1 + 1][1] = "recv"
  BY <1>1, <1>2 DEF StepFits, Awaits, At, Command, Ahead
<1>4. Tail(agenda) # << >>
  <2>1. Len(<< >>) = 0 /\ Len(Tail(agenda)) # 0
    BY <1>1, <1>3
  <2> QED BY <2>1, Zenon
<1>5. 1 \in DOMAIN Tail(agenda) /\ Head(Tail(agenda)) = agenda[1 + 1]
  BY <1>1, <1>4, SeqParts DEF Agendas
<1>6. At("recv")'
  BY <1>3, <1>4, <1>5 DEF At
<1>7. CASE call.op \notin Transfers
  <2>1. PlainStep(agenda, 1)
    BY <1>1, <1>7 DEF TransferInv, Scripted, InScript, Plain
  <2>2. Command \notin {"PASV", "PORT", "RETR", "STOR"} /\ agenda[1 + 1][2] = agenda[1][2]
    BY <1>1, <2>1 DEF PlainStep, At, Command
  <2> QED BY <1>1, <1>3, <1>5, <1>6, <2>2 DEF Command
<1>8. CASE call.op \in Transfers
  <2>1. /\ Mover \in {"read", "write"}
        /\ passive_mode => PassiveStage(agenda, Tail(agenda), Asked, Mover)
        /\ ~passive_mode => ActiveStage(agenda, Tail(agenda), Asked, Mover)
    BY <1>1, <1>8, StageNow DEF At
  <2>2. Head(Tail(agenda))[2] = Head(agenda)[2]
    BY <1>1, <2>1 DEF PassiveStage, ActiveStage, Stage, At
  <2> QED BY <1>1, <1>3, <1>6, <1>8, <2>2 DEF Command
<1> QED BY <1>7, <1>8

\* A client that has its server's attention.
LEMMA SendStage ==
  ASSUME MatchInv, TransferInv, At("send"), call.op \in Transfers, agenda' = Tail(agenda)
  PROVE  /\ ~Over /\ Asked \in {"RETR", "STOR"} /\ Mover \in {"read", "write"}
         /\ Command \in {"PASV", "PORT", Asked} /\ Stage(agenda', "recv", Command)
         /\ Command = "PASV" => NoData
         /\ Command = "PORT" => passive_mode = FALSE /\ Holds /\ Free(Peer)
         /\ Command = Asked => Ready
         /\ got = << >> /\ wrote = 0
<1>1. /\ agenda # << >> /\ ~At("close") /\ ~At("read") /\ ~At("write")
      /\ passive_mode \in BOOLEAN
  BY DEF At, TransferInv, TransferTypes, SocketTypes
<1>2. /\ ~Over /\ Asked \in {"RETR", "STOR"} /\ Mover \in {"read", "write"}
      /\ passive_mode => PassiveStage(agenda, Tail(agenda), Asked, Mover)
      /\ ~passive_mode => ActiveStage(agenda, Tail(agenda), Asked, Mover)
  BY <1>1, StageNow
<1>3. Command \in {"PASV", "PORT", Asked} /\ Stage(agenda', "recv", Command)
  BY <1>1, <1>2 DEF PassiveStage, ActiveStage, Stage, At, Command
<1>4. Command = "PORT" => passive_mode = FALSE
  BY <1>1, <1>2 DEF PassiveStage, Stage, At, Command
<1>5. /\ Command = "PASV" => NoData
      /\ Command = "PORT" => Holds /\ Free(Peer)
      /\ Command = Asked => Ready
      /\ got = << >> /\ wrote = 0
  <2>1. ~At(Mover)
    BY <1>1, <1>2
  <2> QED BY <1>2, <2>1 DEF TransferInv, ClientInv, Is
<1> QED BY <1>2, <1>3, <1>4, <1>5

\* SendCommand up to RecvResponse, on a connection that is no more.
LEMMA SendsNothing ==
  ASSUME MatchInv, MatchInv', TransferInv, Send, control # "open"
  PROVE  TransferInv'
<1>1. /\ At("send") /\ reply_buf' = << >> /\ agenda # << >> /\ ~At("recv") /\ ~At("close")
      /\ ~At("dial")
      /\ UNCHANGED <<control, channel, data, remote, spas, sport, task, disk>>
      /\ UNCHANGED <<world, passive_mode, port_buf, bind_sock, accept_sock, got, wrote>>
      /\ Done \/ Fail
  BY DEF Send, At, session, datasock, progress
<1>2. ~GivenUp /\ UNCHANGED server
  BY <1>1, StillTrying DEF server
<1>3. CASE Fail
  <2>1. /\ Scripted' /\ ClientInv' /\ ResultInv' /\ ~At("recv")' /\ failed' = TRUE
        /\ call' = call
    BY <1>1, <1>3, FailEnds DEF TransferInv, TransferTypes
  <2>2. SocketTypes' /\ CallTypes'
    BY <1>1, <2>1 DEF TransferInv, TransferTypes, SocketTypes, CallTypes
  <2> QED BY <1>1, <1>2, <2>1, <2>2, Silent
<1>4. CASE Done
  <2>1. agenda' = Tail(agenda) /\ call' = call /\ failed' = failed
    BY <1>4 DEF Done, user
  <2>2. UNCHANGED <<requests, replies>> /\ requests' = << >> /\ replies' = << >>
    <3>1. UNCHANGED <<requests, replies>>
      BY <1>1 DEF channel
    <3>2. requests = << >>
      BY <1>1, <1>2, Between
    <3>3. replies = << >>
      BY <1>1, <1>2 DEF TransferInv, HungInv, MatchInv, Ended
    <3> QED BY <3>1, <3>2, <3>3
  <2>3. /\ ServerInv' /\ ServerTypes' /\ RequestInv' /\ HungInv'
    BY <1>1, <1>2, <2>2, ServerStays DEF TransferInv, TransferTypes, RequestInv, HungInv
  <2>4. ReplyTypes' /\ SocketTypes' /\ CallTypes'
    <3>1. ReplyTypes'
      BY <1>1, RepliesStay DEF TransferInv, TransferTypes
    <3> QED BY <1>1, <2>1, <3>1 DEF TransferInv, TransferTypes, SocketTypes, CallTypes
  <2>5. Scripted'
    BY <1>1, <2>1, NextFits
  <2>6. CASE call.op \notin Transfers
    <3>1. ClientInv' /\ ResultInv'
      BY <2>1, <2>6 DEF ClientInv, ResultInv
    <3> QED BY <2>3, <2>4, <2>5, <3>1 DEF TransferInv, TransferTypes
  <2>7. CASE call.op \in Transfers
    <3>1. /\ ~Over /\ Asked \in {"RETR", "STOR"} /\ Mover \in {"read", "write"}
          /\ Command \in {"PASV", "PORT", Asked} /\ Stage(agenda', "recv", Command)
          /\ Command = "PORT" => Holds /\ Free(Peer)
          /\ Command = Asked => Ready
          /\ got = << >> /\ wrote = 0
      BY <1>1, <2>1, <2>7, SendStage
    <3>2. ~Over' /\ At("recv")' /\ Command' = Command /\ \A y : y # "recv" => ~At(y)'
      BY <3>1, NextStage
    <3>3. /\ Peer' = Peer /\ Holds' = Holds /\ Started' = Started /\ Ready' = Ready
          /\ Asked' = Asked /\ Mover' = Mover
      BY <1>1, <1>2, <2>1, StartedSame DEF Asked, Mover
    <3>4. \A codes : ~Said(codes)'
      BY <2>2 DEF Said
    <3>5. Is("recv", "PORT")' => TellingPort'
      BY <2>2, <3>1, <3>2, <3>3, <3>4 DEF TellingPort, Is
    <3>6. Is("recv", Asked)' => Asking'
      BY <2>2, <3>1, <3>2, <3>3, <3>4 DEF Asking, Is, Ready
    <3>7. ClientInv' /\ ResultInv'
      BY <1>1, <3>1, <3>2, <3>3, <3>5, <3>6 DEF ClientInv, ResultInv, Is
    <3> QED BY <2>3, <2>4, <2>5, <3>7 DEF TransferInv, TransferTypes
  <2> QED BY <2>6, <2>7
<1> QED BY <1>1, <1>3, <1>4

\* A command goes to the server.
LEMMA CommandSent ==
  ASSUME MatchInv, TransferInv, Send, control = "open",
         NEW r, r = [cmd |-> Command, fresh |-> TRUE, port |-> port_buf, file |-> call.file]
  PROVE  /\ agenda' = Tail(agenda) /\ call' = call /\ failed' = failed /\ control' = "open"
         /\ UNCHANGED <<cntrl_error, data, remote, spas, sport, disk>>
         /\ UNCHANGED <<world, passive_mode, port_buf, bind_sock, accept_sock, got, wrote>>
         /\ requests' = << r >> /\ r.cmd = Command /\ r.port = port_buf /\ r.file = call.file
         /\ \A i \in DOMAIN replies' : replies'[i].code = 226
         /\ ReplyTypes' /\ ServerTypes' /\ ServerInv'
         /\ (task' = NoTask <=> task = NoTask)
<1>1. /\ At("send") /\ reply_buf' = << >> /\ agenda # << >> /\ ~At("recv") /\ ~At("close")
      /\ ~At("dial")
      /\ agenda' = Tail(agenda) /\ call' = call /\ failed' = failed /\ control' = "open"
      /\ UNCHANGED <<cntrl_error, data, remote, spas, sport, disk>>
      /\ UNCHANGED <<world, passive_mode, port_buf, bind_sock, accept_sock, got, wrote>>
      /\ requests' = Append(Stale(requests), r) /\ replies' = Stale(replies)
      /\ task' = IF task = NoTask THEN task ELSE [task EXCEPT !.fresh = FALSE]
  BY DEF Send, At, session, datasock, progress, Done, user
<1>2. ~GivenUp
  BY <1>1, StillTrying
<1>3. Ahead /\ Command \in Commands
  BY <1>1, SendNext
<1>4. r \in Request /\ r.cmd = Command /\ r.port = port_buf /\ r.file = call.file
  BY <1>3 DEF Request, TransferInv, TransferTypes, SocketTypes, CallTypes
<1>5. requests' = << r >>
  <2>1. requests = << >>
    BY <1>1, <1>2, Between
  <2>2. Stale(requests) = << >>
    BY <2>1 DEF Stale
  <2>3. Append(<< >>, r) = << r >>
    OBVIOUS
  <2> QED BY <1>1, <2>2, <2>3
<1>6. \A i \in DOMAIN replies : replies[i].code = 226
  BY <1>1, <1>3, NoCommandYet DEF TransferInv, TransferTypes
<1>7. /\ replies \in Seq(Replies(AnyPort)) /\ Reply = Replies(AnyPort)
      /\ \A i \in DOMAIN replies : replies[i].code # 227 => replies[i].port = NoPort
  BY DEF TransferInv, TransferTypes, ReplyTypes, Reply, Replies
<1>8. /\ replies' \in Seq(Reply) /\ DOMAIN replies' = DOMAIN replies
      /\ \A i \in DOMAIN replies : /\ replies'[i].code = replies[i].code
                                   /\ replies'[i].port = replies[i].port
  BY <1>1, <1>7, StaleParts
<1>9. ReplyTypes'
  <2>1. << r >> \in Seq(Request) /\ << >> \in Seq(Reply)
    BY <1>4
  <2>2. \A i \in DOMAIN replies' : replies'[i].code = 226 /\ replies'[i].port = NoPort
    BY <1>6, <1>7, <1>8
  <2>3. requests' \in Seq(Request) /\ reply_buf' \in Seq(Reply)
    BY <1>1, <1>5, <2>1
  <2> QED BY <1>8, <2>2, <2>3 DEF ReplyTypes
<1>10. PICK b : b = task
  OBVIOUS
<1>11. /\ task' \in Task \cup {NoTask} /\ (task' = NoTask <=> task = NoTask)
       /\ task # NoTask => /\ task'.kind = task.kind /\ task'.file = task.file
                           /\ task'.port = task.port /\ task'.phase = task.phase
                           /\ task'.blocks = task.blocks
  <2>1. \A t \in Task : /\ [t EXCEPT !.fresh = FALSE] \in Task
                        /\ [t EXCEPT !.fresh = FALSE].kind = t.kind
                        /\ [t EXCEPT !.fresh = FALSE].file = t.file
                        /\ [t EXCEPT !.fresh = FALSE].port = t.port
                        /\ [t EXCEPT !.fresh = FALSE].phase = t.phase
                        /\ [t EXCEPT !.fresh = FALSE].blocks = t.blocks
    BY DEF Task
  <2>2. task \in Task \cup {NoTask}
    BY DEF TransferInv, TransferTypes, ServerTypes
  <2> QED BY <1>1, <2>1, <2>2, NoTaskIsNone
<1>12. ServerTypes'
  BY <1>1, <1>11 DEF TransferInv, TransferTypes, ServerTypes
<1>13. PortOf' = PortOf /\ Untouched' = Untouched
  BY <1>1 DEF PortOf, Untouched
<1>14. PortsInv'
  BY <1>1, <1>11, <1>13 DEF TransferInv, ServerInv, PortsInv
<1>15. TaskInv' /\ DiskInv'
  BY <1>1, <1>11, <1>13 DEF TransferInv, ServerInv, TaskInv, DiskInv
<1>16. \A i \in DOMAIN replies' : replies'[i].code = 226
  BY <1>6, <1>8
<1>17. ServerInv'
  BY <1>14, <1>15 DEF ServerInv
<1> QED BY <1>1, <1>4, <1>5, <1>9, <1>11, <1>12, <1>16, <1>17, Zenon

\* SendCommand up to RecvResponse.
LEMMA SendKeeps ==
  ASSUME MatchInv, MatchInv', TransferInv, Send
  PROVE  TransferInv'
<1>1. SUFFICES ASSUME control = "open" PROVE TransferInv'
  BY SendsNothing
<1>2. PICK r : r = [cmd |-> Command, fresh |-> TRUE, port |-> port_buf, file |-> call.file]
  OBVIOUS
<1>3. /\ agenda' = Tail(agenda) /\ call' = call /\ failed' = failed /\ control' = "open"
      /\ UNCHANGED <<data, remote, spas, sport, disk>>
      /\ UNCHANGED <<world, passive_mode, port_buf, bind_sock, accept_sock, got, wrote>>
      /\ requests' = << r >> /\ r.cmd = Command /\ r.port = port_buf /\ r.file = call.file
      /\ \A i \in DOMAIN replies' : replies'[i].code = 226
      /\ ReplyTypes' /\ ServerTypes' /\ ServerInv'
      /\ (task' = NoTask <=> task = NoTask)
  BY <1>1, <1>2, CommandSent
<1>4. /\ At("send") /\ At("recv")' /\ Command' = Command /\ agenda # << >>
      /\ call.op \notin Transfers => Command \notin {"PASV", "PORT", "RETR", "STOR"}
  BY <1>3, SendNext DEF Send
<1>5. call.op \in Transfers =>
        /\ ~Over /\ Asked \in {"RETR", "STOR"} /\ Mover \in {"read", "write"}
        /\ Command \in {"PASV", "PORT", Asked} /\ Stage(agenda', "recv", Command)
        /\ Command = "PASV" => NoData
        /\ Command = "PORT" => passive_mode = FALSE /\ Holds /\ Free(Peer)
        /\ Command = Asked => Ready
        /\ got = << >> /\ wrote = 0
  BY <1>3, <1>4, SendStage
<1>6. NoData' = NoData /\ Peer' = Peer /\ Holds' = Holds /\ Asked' = Asked /\ Mover' = Mover
  BY <1>3 DEF NoData, Peer, Holds, Asked, Mover
<1>7. \A p : Free(p)' = Free(p)
  BY <1>3 DEF Free
<1>8. PortOf' = PortOf /\ ServerReady' = ServerReady /\ Ready' = Ready
  BY <1>3, <1>6 DEF PortOf, ServerReady, Untouched, Ready
<1>9. requests'[1] = r /\ requests' # << >>
  BY <1>3
<1>10. RequestInv'
  <2>1. r.cmd = "PASV" => NoData'
    BY <1>3, <1>4, <1>5, <1>6
  <2>2. r.cmd = "PORT" => Free(r.port)'
    BY <1>3, <1>4, <1>5, <1>7 DEF Peer
  <2>3. r.cmd \in {"RETR", "STOR"} => r.file \in Files /\ ServerReady'
    BY <1>3, <1>4, <1>5, <1>8 DEF Ready, TransferInv, TransferTypes, CallTypes
  <2> QED BY <1>3, <1>4, <1>9, <2>1, <2>2, <2>3 DEF RequestInv
<1>11. HungInv'
  BY <1>3 DEF HungInv
<1>12. SocketTypes' /\ CallTypes'
  BY <1>3 DEF TransferInv, TransferTypes, SocketTypes, CallTypes
<1>13. Scripted'
  BY <1>3, <1>4, NextFits
<1>14. ClientInv' /\ ResultInv'
  <2>1. SUFFICES ASSUME call.op \in Transfers PROVE ClientInv' /\ ResultInv'
    BY <1>3 DEF ClientInv, ResultInv
  <2>2. ~Over' /\ \A y : y # "recv" => ~At(y)'
    BY <1>5, <2>1, NextStage
  <2>3. ~Said({125})' /\ ~Said({200})' /\ ~Said({125, 150})'
    BY <1>3 DEF Said
  <2>4. Is("recv", "PORT")' => TellingPort'
    BY <1>4, <1>5, <1>6, <1>7, <2>1, <2>3 DEF TellingPort, Is
  <2>5. Is("recv", Asked)' => Asking'
    BY <1>4, <1>5, <1>6, <1>8, <2>1, <2>3 DEF Asking, Is, Ready
  <2> QED BY <1>3, <1>4, <1>5, <1>6, <2>1, <2>2, <2>4, <2>5 DEF ClientInv, ResultInv, Is
<1> QED BY <1>3, <1>10, <1>11, <1>12, <1>13, <1>14 DEF TransferInv, TransferTypes

\* What is accepted has been said by one of the replies just read.
LEMMA Accepting ==
  ASSUME NEW P, NEW old \in Seq(Replies(P)), NEW new \in Seq(Replies(P)), new # << >>,
         NEW c, DecidedBy(old, new, c), Judge(old \o new, Expected[c], 0) = "accepted"
  PROVE  \E j \in DOMAIN new : new[j].code \in {125, 225, Expected[c]}
<1>1. PICK buf, want : buf = old \o new /\ want = Expected[c]
  OBVIOUS
<1>2. Judge(buf, want, 0) = "accepted"
  BY <1>1
<1>3. /\ Len(old) \in Nat /\ Len(new) \in Nat /\ DOMAIN old = 1 .. Len(old)
      /\ DOMAIN new = 1 .. Len(new) /\ Len(buf) = Len(old) + Len(new)
      /\ \A i \in DOMAIN old : buf[i] = old[i]
      /\ \A i \in DOMAIN new : buf[Len(old) + i] = new[i]
  BY <1>1
<1>4. \A i \in 1 .. Len(buf) : (i \in DOMAIN old /\ buf[i] = old[i]) \/
                               \E j \in DOMAIN new : buf[i] = new[j]
  <2> TAKE i \in 1 .. Len(buf)
  <2>1. i \in DOMAIN old \/ (i - Len(old) \in DOMAIN new /\ i = Len(old) + (i - Len(old)))
    BY <1>3
  <2> QED BY <1>3, <2>1
<1>5. 1 \in 1 .. Len(buf)
  <2>1. Len(new) # 0
    BY SeqParts
  <2> QED BY <1>3, <2>1
<1>6. \E i \in 1 .. Len(buf) : (buf[i].code \in {125, 225} /\ i = 1) \/ buf[i].code = want
  BY <1>2, <1>5 DEF Judge
<1>7. PICK i \in 1 .. Len(buf) : (buf[i].code \in {125, 225} /\ i = 1) \/ buf[i].code = want
  BY <1>6
<1>8. ~(i \in DOMAIN old /\ buf[i] = old[i])
  <2>1. SUFFICES ASSUME i \in DOMAIN old, buf[i] = old[i] PROVE FALSE
    OBVIOUS
  <2>2. Judge(old, want, 0) = "more"
    <3>1. old # << >>
      BY <1>3, <2>1
    <3> QED BY <1>1, <3>1 DEF DecidedBy
  <2>3. old[1].code \notin {125, 225} /\ ~\E k \in 1 .. Len(old) : old[k].code = want
    BY <2>2 DEF Judge
  <2> QED BY <1>3, <1>7, <2>1, <2>3
<1> QED BY <1>1, <1>4, <1>7, <1>8

\* What RecvResponse reads, and what it makes of it.
ReadSo(n, verdict) ==
  /\ n \in 1 .. Len(replies) /\ replies' \in Seq(Reply)
  /\ Len(replies) \in Nat /\ Len(replies') = Len(replies) - n
  /\ DOMAIN replies = 1 .. Len(replies) /\ DOMAIN replies' = 1 .. Len(replies) - n
  /\ \A i \in DOMAIN replies' : n + i \in DOMAIN replies /\ replies'[i] = replies[n + i]
  /\ reply_buf' \in Seq(Reply)
  /\ \/ verdict = "more" /\ UNCHANGED <<agenda, call, failed>>
     \/ /\ verdict = "refused" /\ Fail
        /\ \E j \in 1 .. n : j \in DOMAIN replies /\ replies[j].code # 226
     \/ /\ verdict = "accepted" /\ agenda' = Tail(agenda) /\ UNCHANGED <<call, failed>>
        /\ Command = "PASV" => reply_buf' # << >>
        /\ \E j \in 1 .. n : j \in DOMAIN replies /\ replies[j].code # 226
        /\ \E j \in 1 .. n : /\ j \in DOMAIN replies
                             /\ replies[j].code \in {125, 225, Expected[Command]}
LEMMA Receiving ==
  ASSUME MatchInv, TextInv, ReplyTypes, RecvResponse
  PROVE  \E n, verdict : ReadSo(n, verdict)
<1>1. At("recv") /\ ~At("send") /\ ~At("dial") /\ ~At("close") /\ agenda # << >>
  BY DEF RecvResponse, At
<1>2. InOrder /\ Waiting
  BY <1>1, GivenUpCloses DEF MatchInv, InOrder
<1>3. Command \in Commands
  <2>1. 1 \in DOMAIN agenda /\ Head(agenda) = agenda[1]
    BY <1>1, SeqParts DEF MatchInv, WellFormed, Agendas
  <2>2. StepFits(agenda, 1, call.op)
    BY <2>1 DEF MatchInv, WellFormed
  <2> QED BY <1>1, <2>1, <2>2 DEF At, Command, StepFits
<1>4. PICK n \in 1 .. Len(replies) :
        LET buf == reply_buf \o SubSeq(replies, 1, n)
            want == Expected[Command]
        IN /\ reply_buf' = IF Judge(buf, want, 0) = "more" \/ Command = "PASV" THEN buf ELSE << >>
           /\ replies' = SubSeq(replies, n + 1, Len(replies))
           /\ \/ Judge(buf, want, 0) = "accepted" /\ Done
              \/ Judge(buf, want, 0) = "refused" /\ Fail
              \/ Judge(buf, want, 0) = "more" /\ UNCHANGED <<agenda, user>>
           /\ heard' = (Judge(buf, want, 0) = "more" \/ Decisive(buf, want, 0).fresh)
  BY CodesDecide DEF Received
<1>5. PICK new, rest : new = SubSeq(replies, 1, n) /\ rest = SubSeq(replies, n + 1, Len(replies))
  OBVIOUS
<1>6. PICK buf : buf = reply_buf \o new
  OBVIOUS
<1>7. PICK verdict : verdict = Judge(buf, Expected[Command], 0)
  OBVIOUS
<1>8. /\ reply_buf' \in {buf, << >>} /\ (Command = "PASV" => reply_buf' = buf)
      /\ replies' = rest
      /\ \/ verdict = "accepted" /\ agenda' = Tail(agenda) /\ UNCHANGED <<call, failed>>
         \/ verdict = "refused" /\ Fail
         \/ verdict = "more" /\ UNCHANGED <<agenda, call, failed>>
  BY <1>4, <1>5, <1>6, <1>7 DEF Done, user
<1>9. Reply = Replies(AnyPort) /\ replies \in Seq(Reply) /\ reply_buf \in Seq(Reply)
  BY DEF Reply, Replies, ReplyTypes
<1>10. /\ new \in Seq(Reply) /\ new # << >> /\ DOMAIN new = 1 .. n
       /\ \A i \in 1 .. n : i \in DOMAIN replies /\ new[i] = replies[i]
       /\ rest \in Seq(Reply) /\ Len(rest) = Len(replies) - n
       /\ DOMAIN rest = 1 .. Len(replies) - n
       /\ \A i \in 1 .. Len(replies) - n : n + i \in DOMAIN replies /\ rest[i] = replies[n + i]
  <2>1. n \in 1 .. Len(replies) /\ replies \in Seq(Reply)
    BY <1>9
  <2>2. /\ SubSeq(replies, 1, n) \in Seq(Reply) /\ SubSeq(replies, 1, n) # << >>
        /\ DOMAIN SubSeq(replies, 1, n) = 1 .. n
        /\ \A i \in 1 .. n : i \in DOMAIN replies /\ SubSeq(replies, 1, n)[i] = replies[i]
        /\ SubSeq(replies, n + 1, Len(replies)) \in Seq(Reply)
        /\ Len(SubSeq(replies, n + 1, Len(replies))) = Len(replies) - n
        /\ DOMAIN SubSeq(replies, n + 1, Len(replies)) = 1 .. Len(replies) - n
        /\ \A i \in 1 .. Len(replies) - n :
             n + i \in DOMAIN replies /\ SubSeq(replies, n + 1, Len(replies))[i] = replies[n + i]
    BY <2>1, Reading, Zenon
  <2> QED BY <1>5, <2>2, Zenon
<1>11. /\ Len(replies) \in Nat /\ DOMAIN replies = 1 .. Len(replies)
       /\ buf \in Seq(Reply) /\ buf # << >>
  <2>1. \A s, t \in Seq(Reply) : t # << >> => s \o t \in Seq(Reply) /\ s \o t # << >>
    OBVIOUS
  <2> QED BY <1>6, <1>9, <1>10, <2>1
<1>12. reply_buf' \in Seq(Reply) /\ (Command = "PASV" => reply_buf' # << >>)
  <2>1. << >> \in Seq(Reply)
    OBVIOUS
  <2> QED BY <1>8, <1>11, <2>1
<1>13. verdict # "more" => DecidedBy(reply_buf, new, Command)
  BY <1>2, <1>6, <1>7 DEF DecidedBy, Waiting, Undecided
<1>14. verdict # "more" => \E j \in 1 .. n : j \in DOMAIN replies /\ replies[j].code # 226
  <2>1. SUFFICES ASSUME verdict # "more"
        PROVE  \E j \in 1 .. n : j \in DOMAIN replies /\ replies[j].code # 226
    OBVIOUS
  <2>2. \E j \in DOMAIN new : new[j].code # 226
    <3>1. DecidedBy(reply_buf, new, Command)
      BY <1>13, <2>1
    <3>2. \A old, s \in Seq(Replies(AnyPort)) : \A c \in Commands :
            s # << >> /\ DecidedBy(old, s, c) => \E j \in DOMAIN s : s[j].code # 226
      BY NewDecides
    <3> QED BY <1>3, <1>9, <1>10, <3>1, <3>2
  <2> QED BY <1>10, <2>2
<1>15. verdict = "accepted" =>
         \E j \in 1 .. n : j \in DOMAIN replies /\ replies[j].code \in {125, 225, Expected[Command]}
  <2>1. SUFFICES ASSUME verdict = "accepted"
        PROVE  \E j \in 1 .. n : /\ j \in DOMAIN replies
                                 /\ replies[j].code \in {125, 225, Expected[Command]}
    OBVIOUS
  <2>2. \E j \in DOMAIN new : new[j].code \in {125, 225, Expected[Command]}
    <3>1. DecidedBy(reply_buf, new, Command) /\ Judge(reply_buf \o new, Expected[Command], 0) = "accepted"
      BY <1>6, <1>7, <1>13, <2>1
    <3>2. \A old, s \in Seq(Replies(AnyPort)) : \A c :
            s # << >> /\ DecidedBy(old, s, c) /\ Judge(old \o s, Expected[c], 0) = "accepted"
              => \E j \in DOMAIN s : s[j].code \in {125, 225, Expected[c]}
      BY Accepting
    <3> QED BY <1>9, <1>10, <3>1, <3>2
  <2> QED BY <1>10, <2>2
<1>16. ReadSo(n, verdict)
  BY <1>8, <1>10, <1>11, <1>12, <1>14, <1>15 DEF ReadSo
<1> QED BY <1>16

\* What RecvResponse leaves as it was.
LEMMA RecvLeaves ==
  ASSUME MatchInv, TransferInv, RecvResponse, NEW n, NEW verdict, ReadSo(n, verdict)
  PROVE  /\ At("recv") /\ agenda # << >> /\ ~GivenUp /\ ~At("send") /\ ~At("close") /\ ~At("dial")
         /\ ~At("read") /\ ~At("write") /\ ~At("accept") /\ ~At("connect") /\ ~At("listen")
         /\ UNCHANGED <<control, requests, data, server>>
         /\ UNCHANGED <<remote, spas, sport, task, disk>>
         /\ UNCHANGED <<world, passive_mode, port_buf, bind_sock, accept_sock, got, wrote>>
         /\ SocketTypes' /\ ReplyTypes' /\ ServerTypes' /\ ServerInv'
         /\ \A i \in DOMAIN replies' : \E j \in DOMAIN replies : replies'[i] = replies[j]
<1>1. /\ At("recv") /\ agenda # << >> /\ ~At("send") /\ ~At("close") /\ ~At("dial")
      /\ ~At("read") /\ ~At("write") /\ ~At("accept") /\ ~At("connect") /\ ~At("listen")
      /\ UNCHANGED <<control, requests, data, server>>
      /\ UNCHANGED <<remote, spas, sport, task, disk>>
      /\ UNCHANGED <<world, passive_mode, port_buf, bind_sock, accept_sock, got, wrote>>
  BY DEF RecvResponse, At, session, datasock, progress, server
<1>2. ~GivenUp
  BY <1>1, StillTrying
<1>3. \A i \in DOMAIN replies' : \E j \in DOMAIN replies : replies'[i] = replies[j]
  BY DEF ReadSo
<1>4. ServerInv' /\ ServerTypes' /\ SocketTypes'
  BY <1>1, ServerStays DEF TransferInv, TransferTypes, SocketTypes
<1>5. ReplyTypes'
  <2>1. replies' \in Seq(Reply) /\ reply_buf' \in Seq(Reply)
    BY DEF ReadSo
  <2>2. ReplyTypes
    BY DEF TransferInv, TransferTypes
  <2> QED BY <1>1, <1>3, <2>1, <2>2 DEF ReplyTypes
<1> QED BY <1>1, <1>2, <1>3, <1>4, <1>5

\* Nothing has been decided yet.
LEMMA RecvMore ==
  ASSUME MatchInv, TransferInv, RecvResponse, NEW n, ReadSo(n, "more")
  PROVE  TransferInv'
<1>1. /\ At("recv") /\ agenda # << >> /\ ~GivenUp /\ ~At("send") /\ ~At("close") /\ ~At("dial")
      /\ ~At("read") /\ ~At("write") /\ ~At("accept") /\ ~At("connect") /\ ~At("listen")
      /\ UNCHANGED <<control, requests, data, server>>
      /\ UNCHANGED <<remote, spas, sport, task, disk>>
      /\ UNCHANGED <<world, passive_mode, port_buf, bind_sock, accept_sock, got, wrote>>
      /\ SocketTypes' /\ ReplyTypes' /\ ServerTypes' /\ ServerInv'
      /\ \A i \in DOMAIN replies' : \E j \in DOMAIN replies : replies'[i] = replies[j]
  BY RecvLeaves
<1>2. UNCHANGED <<agenda, call, failed>>
  BY DEF ReadSo
<1>3. /\ At("recv")' /\ ~At("send")' /\ ~At("close")' /\ ~At("dial")' /\ ~At("read")'
      /\ ~At("write")' /\ ~At("accept")' /\ ~At("connect")' /\ ~At("listen")'
      /\ Command' = Command /\ Over' = Over
  BY <1>1, <1>2 DEF At, Command, Over
<1>4. RequestInv'
  <2>1. /\ NoData' = NoData /\ ServerReady' = ServerReady /\ PortOf' = PortOf
        /\ Free(requests[1].port)' = Free(requests[1].port)
    BY <1>1 DEF NoData, ServerReady, PortOf, Untouched, Free
  <2> QED BY <1>1, <1>2, <1>3, <2>1 DEF TransferInv, RequestInv
<1>5. HungInv'
  <2>1. SUFFICES ASSUME control' = "hungup", replies' # << >> PROVE HungInv'
    BY DEF HungInv
  <2>2. replies # << >>
    BY <2>1, SeqParts DEF ReadSo
  <2>3. /\ call.op \notin Transfers
        /\ \A i \in DOMAIN replies : i < Len(replies) => replies[i].code = 226
    BY <1>1, <2>1, <2>2 DEF TransferInv, HungInv
  <2>4. \A i \in DOMAIN replies' : i < Len(replies') => replies'[i].code = 226
    <3> TAKE i \in DOMAIN replies'
    <3>1. HAVE i < Len(replies')
    <3>2. n + i \in DOMAIN replies /\ n + i < Len(replies) /\ replies'[i] = replies[n + i]
      BY <3>1 DEF ReadSo
    <3> QED BY <2>3, <3>2
  <2> QED BY <1>2, <1>3, <2>3, <2>4 DEF HungInv
<1>6. \A codes : Said(codes)' => Said(codes)
  BY <1>1 DEF Said
<1>7. /\ Peer' = Peer /\ Holds' = Holds /\ Started' = Started /\ Ready' = Ready
      /\ Free(Peer)' = Free(Peer) /\ Asked' = Asked /\ Mover' = Mover
  BY <1>1, <1>2, StartedSame DEF Asked, Mover
<1>8. ClientInv'
  <2>1. TellingPort => TellingPort'
    BY <1>1, <1>6, <1>7 DEF TellingPort
  <2>2. Asking => Asking'
    BY <1>1, <1>6, <1>7 DEF Asking
  <2>3. Mover \in {"read", "write"}
    BY DEF Mover, MoverOf
  <2> QED BY <1>1, <1>2, <1>3, <1>7, <2>1, <2>2, <2>3 DEF TransferInv, ClientInv, Is
<1>9. ResultInv'
  BY <1>1, <1>3, FinishedCloses DEF ResultInv, Over, At
<1>10. Scripted' /\ CallTypes'
  BY <1>1, <1>2 DEF TransferInv, TransferTypes, Scripted, CallTypes
<1> QED BY <1>1, <1>4, <1>5, <1>8, <1>9, <1>10 DEF TransferInv, TransferTypes

\* A decision leaves nothing to answer.
LEMMA RecvDecides ==
  ASSUME MatchInv, TransferInv, RecvResponse, NEW n, NEW verdict, ReadSo(n, verdict),
         verdict # "more", ~At("recv")'
  PROVE  requests = << >> /\ requests' = << >> /\ RequestInv' /\ HungInv'
<1>1. At("recv") /\ ~GivenUp /\ UNCHANGED <<control, requests>>
  BY RecvLeaves
<1>2. PICK j \in 1 .. n : j \in DOMAIN replies /\ replies[j].code # 226
  BY DEF ReadSo
<1>3. Waiting
  BY <1>1 DEF MatchInv, InOrder
<1>4. requests = << >>
  BY <1>2, <1>3 DEF Waiting, Unanswered, MatchInv, Ended
<1>5. HungInv'
  <2>1. SUFFICES ASSUME control = "hungup" PROVE replies' = << >>
    BY <1>1 DEF HungInv
  <2>2. replies # << >>
    <3>1. DOMAIN << >> = {}
      OBVIOUS
    <3> QED BY <1>2, <3>1
  <2>3. j = Len(replies)
    BY <1>1, <1>2, <2>1, <2>2 DEF TransferInv, HungInv, ReadSo
  <2>4. Len(replies') = 0 /\ replies' \in Seq(Reply)
    BY <2>3 DEF ReadSo
  <2> QED BY <2>4
<1> QED BY <1>1, <1>4, <1>5 DEF RequestInv

\* The client goes on as it was told.
LEMMA RecvAccepts ==
  ASSUME MatchInv, TransferInv, RecvResponse, NEW n, ReadSo(n, "accepted"),
         call.op \in Transfers
  PROVE  ClientInv' /\ ResultInv'
<1>1. /\ At("recv") /\ agenda # << >> /\ ~GivenUp /\ ~At("send") /\ ~At("close") /\ ~At("dial")
      /\ ~At("read") /\ ~At("write") /\ ~At("accept") /\ ~At("connect") /\ ~At("listen")
      /\ UNCHANGED <<control, requests, data, server>>
      /\ UNCHANGED <<remote, spas, sport, task, disk>>
      /\ UNCHANGED <<world, passive_mode, port_buf, bind_sock, accept_sock, got, wrote>>
  BY RecvLeaves
<1>2. agenda' = Tail(agenda) /\ UNCHANGED <<call, failed>> /\ (Command = "PASV" => reply_buf' # << >>)
  BY DEF ReadSo
<1>3. PICK j \in DOMAIN replies : replies[j].code \in {125, 225, Expected[Command]}
  BY DEF ReadSo
<1>4. replies[j].code \in {125, Expected[Command]}
  BY <1>3 DEF TransferInv, TransferTypes, ReplyTypes
<1>5. /\ ~Over /\ Asked \in {"RETR", "STOR"} /\ Mover \in {"read", "write"}
      /\ passive_mode => PassiveStage(agenda, Tail(agenda), Asked, Mover)
      /\ ~passive_mode => ActiveStage(agenda, Tail(agenda), Asked, Mover)
      /\ passive_mode \in BOOLEAN
  BY <1>1, StageNow DEF TransferInv, TransferTypes, SocketTypes
<1>6. got = << >> /\ wrote = 0
  BY <1>1, <1>5 DEF TransferInv, ClientInv
<1>7. /\ Peer' = Peer /\ Holds' = Holds /\ Started' = Started /\ Ready' = Ready
      /\ Free(Peer)' = Free(Peer) /\ Asked' = Asked /\ Mover' = Mover
  BY <1>1, <1>2, StartedSame DEF Asked, Mover
<1>8. \/ Command = "PASV" /\ Stage(agenda', "connect", "PASV")
      \/ Command = "PORT" /\ Stage(agenda', "send", Asked)
      \/ Command = Asked /\ passive_mode = TRUE /\ Stage(agenda', Mover, NoCmd)
      \/ Command = Asked /\ passive_mode = FALSE /\ Stage(agenda', "accept", Asked)
  BY <1>1, <1>2, <1>5 DEF PassiveStage, ActiveStage, Stage, At, Command
<1>9. CASE Command = "PASV" /\ Stage(agenda', "connect", "PASV")
  <2>1. ~Over' /\ At("connect")' /\ Command' = "PASV" /\ \A y : y # "connect" => ~At(y)'
    BY <1>9, NextStage
  <2> QED BY <1>1, <1>2, <1>5, <1>6, <1>7, <1>9, <2>1 DEF ClientInv, ResultInv, Is
<1>10. CASE Command = "PORT" /\ Stage(agenda', "send", Asked)
  <2>1. ~Over' /\ At("send")' /\ Command' = Asked /\ \A y : y # "send" => ~At(y)'
    BY <1>10, NextStage
  <2>2. TellingPort
    BY <1>1, <1>10 DEF TransferInv, ClientInv, Is
  <2>3. Said({200})
    <3>1. ~Said({125}) /\ Expected["PORT"] = 200
      BY <2>2 DEF TellingPort, Expected
    <3> QED BY <1>4, <1>10, <3>1 DEF Said
  <2>4. Ready'
    BY <1>7, <2>2, <2>3 DEF TellingPort
  <2> QED BY <1>1, <1>2, <1>5, <1>6, <1>7, <2>1, <2>4 DEF ClientInv, ResultInv, Is
<1>11. CASE Command = Asked
  <2>1. Asking
    BY <1>1, <1>11 DEF TransferInv, ClientInv, Is
  <2>2. Said({125, 150})
    <3>1. Expected[Asked] = 150
      BY <1>5 DEF Expected
    <3> QED BY <1>4, <1>11, <3>1 DEF Said
  <2>3. Holds /\ Started
    BY <2>1, <2>2 DEF Asking
  <2>4. CASE passive_mode = TRUE /\ Stage(agenda', Mover, NoCmd)
    <3>1. ~Over' /\ At(Mover)' /\ \A y : y # Mover' => ~At(y)'
      <4>1. PICK m : m = Mover
        OBVIOUS
      <4>2. ~Over' /\ At(m)' /\ \A y : y # m => ~At(y)'
        BY <2>4, <4>1, NextStage
      <4>3. Mover' = m
        BY <1>7, <4>1
      <4> QED BY <4>2, <4>3 DEF At
    <3>2. Moving'
      <4>1. DataEnd' = Peer'
        BY <1>1, <2>4 DEF DataEnd, Peer
      <4>2. remote'[Peer'] \in {"reached", "connected", "done"}
        BY <1>1, <1>7, <2>3, <2>4 DEF Started
      <4> QED BY <1>7, <2>3, <4>1, <4>2 DEF Moving
    <3>3. wrote' < Blocks
      BY <1>1, <1>6, FtpAssumption
    <3> QED BY <1>1, <1>2, <1>5, <1>6, <1>7, <3>1, <3>2, <3>3 DEF ClientInv, ResultInv, Is
  <2>5. CASE passive_mode = FALSE /\ Stage(agenda', "accept", Asked)
    <3>1. ~Over' /\ At("accept")' /\ Command' = Asked /\ \A y : y # "accept" => ~At(y)'
      BY <2>5, NextStage
    <3> QED BY <1>1, <1>2, <1>5, <1>6, <1>7, <2>3, <3>1 DEF ClientInv, ResultInv, Is
  <2>6. Asked \notin {"PASV", "PORT"}
    BY <1>5
  <2> QED BY <1>8, <1>11, <2>4, <2>5, <2>6
<1> QED BY <1>8, <1>9, <1>10, <1>11

\* RecvResponse.
LEMMA RecvKeeps ==
  ASSUME MatchInv, MatchInv', TextInv, TransferInv, RecvResponse
  PROVE  TransferInv'
<1>1. PICK n, verdict : ReadSo(n, verdict)
  BY Receiving DEF TransferInv, TransferTypes
<1>2. CASE verdict = "more"
  BY <1>1, <1>2, RecvMore
<1>3. CASE verdict # "more"
  <2>1. /\ At("recv") /\ agenda # << >> /\ ~GivenUp /\ ~At("send") /\ ~At("dial")
        /\ UNCHANGED <<world, passive_mode, got, wrote>>
        /\ SocketTypes' /\ ReplyTypes' /\ ServerTypes' /\ ServerInv'
    BY <1>1, RecvLeaves
  <2>2. CASE verdict = "refused"
    <3>1. Fail
      BY <1>1, <2>2 DEF ReadSo
    <3>2. /\ Scripted' /\ ClientInv' /\ ResultInv' /\ ~At("recv")' /\ failed' = TRUE
          /\ call' = call
      BY <2>1, <3>1, FailEnds DEF TransferInv, TransferTypes
    <3>3. RequestInv' /\ HungInv'
      BY <1>1, <1>3, <3>2, RecvDecides
    <3>4. CallTypes'
      BY <2>1, <3>2 DEF TransferInv, TransferTypes, CallTypes
    <3> QED BY <2>1, <3>2, <3>3, <3>4 DEF TransferInv, TransferTypes
  <2>3. CASE verdict = "accepted"
    <3>1. agenda' = Tail(agenda) /\ call' = call /\ failed' = failed
      BY <1>1, <2>3 DEF ReadSo
    <3>2. Scripted' /\ CallTypes'
      BY <2>1, <3>1, NextFits DEF TransferInv, TransferTypes, CallTypes
    <3>3. ~At("recv")'
      <4>1. GoesOn
        BY <2>1, <3>1 DEF GoesOn
      <4>2. agenda' # agenda
        <5>1. Len(Tail(agenda)) = Len(agenda) - 1 /\ Len(agenda) \in Nat
          BY <2>1, SeqParts DEF MatchInv, WellFormed, Agendas
        <5> QED BY <3>1, <5>1
      <4> QED BY <2>1, <4>1, <4>2, GoingOn DEF MatchInv
    <3>4. RequestInv' /\ HungInv'
      BY <1>1, <1>3, <3>3, RecvDecides
    <3>5. ClientInv' /\ ResultInv'
      <4>1. CASE call.op \in Transfers
        BY <1>1, <2>3, <4>1, RecvAccepts
      <4>2. CASE call.op \notin Transfers
        BY <3>1, <4>2 DEF ClientInv, ResultInv
      <4> QED BY <4>1, <4>2
    <3> QED BY <2>1, <3>2, <3>4, <3>5 DEF TransferInv, TransferTypes
  <2> QED BY <1>1, <1>3, <2>2, <2>3 DEF ReadSo
<1> QED BY <1>2, <1>3

------------------------------------------------------------------------------
\* The server.

\* What a step of the server leaves of the client.
LEMMA ClientStays ==
  ASSUME TransferInv, UNCHANGED client
  PROVE  /\ SocketTypes' /\ CallTypes' /\ Scripted'
         /\ UNCHANGED <<world, passive_mode, port_buf, bind_sock, accept_sock, got, wrote>>
         /\ UNCHANGED <<agenda, call, failed, reply_buf, cntrl_error>>
         /\ Command' = Command /\ Over' = Over /\ GivenUp' = GivenUp
         /\ Asked' = Asked /\ Mover' = Mover /\ Peer' = Peer /\ Holds' = Holds
         /\ NoData' = NoData /\ DataEnd' = DataEnd
         /\ \A x : At(x)' = At(x)
<1>1. /\ UNCHANGED <<world, passive_mode, port_buf, bind_sock, accept_sock, got, wrote>>
      /\ UNCHANGED <<agenda, call, failed, reply_buf, cntrl_error>>
  BY DEF client, datasock, user, progress
<1>2. /\ Command' = Command /\ Over' = Over /\ GivenUp' = GivenUp
      /\ \A x : At(x)' = At(x)
  BY <1>1 DEF Command, Over, GivenUp, At
<1>3. /\ Asked' = Asked /\ Mover' = Mover /\ Peer' = Peer /\ Holds' = Holds
      /\ NoData' = NoData /\ DataEnd' = DataEnd
  BY <1>1 DEF Asked, Mover, Peer, Holds, NoData, DataEnd
<1>4. SocketTypes' /\ CallTypes' /\ Scripted'
  BY <1>1 DEF TransferInv, TransferTypes, SocketTypes, CallTypes, Scripted
<1> QED BY <1>1, <1>2, <1>3, <1>4

\* The server answers.
LEMMA Answering ==
  ASSUME ReplyTypes, requests' \in {requests, << >>}, reply_buf' = reply_buf,
         NEW code \in Nat, NEW fresh \in BOOLEAN, NEW port \in AnyPort,
         code # 225, code # 227 => port = NoPort, Answer(code, fresh, port)
  PROVE  /\ ReplyTypes'
         /\ \A codes : Said(codes)' => Said(codes) \/ code \in codes
         /\ (\A i \in DOMAIN replies : replies[i].code = 226) =>
              \A i \in DOMAIN replies' : i < Len(replies') => replies'[i].code = 226
         /\ (\A i \in DOMAIN replies : replies[i].code = 226) /\ code = 226 =>
              \A i \in DOMAIN replies' : replies'[i].code = 226
<1>1. PICK r \in Reply : /\ r = [code |-> code, fresh |-> fresh, port |-> port]
                         /\ r.code = code /\ r.port = port
  <2>1. [code |-> code, fresh |-> fresh, port |-> port] \in Reply
    BY DEF Reply
  <2> QED BY <2>1
<1>2. replies' = Append(replies, r)
  BY <1>1 DEF Answer
<1>3. replies \in Seq(Reply) /\ Len(replies) \in Nat
  BY SeqParts DEF ReplyTypes
<1>4. /\ replies' \in Seq(Reply) /\ Len(replies') = Len(replies) + 1
      /\ DOMAIN replies = 1 .. Len(replies) /\ DOMAIN replies' = 1 .. Len(replies) + 1
      /\ \A i \in DOMAIN replies : replies'[i] = replies[i]
      /\ replies'[Len(replies) + 1] = r
  BY <1>1, <1>2, <1>3, Appending
<1>5. \A i \in DOMAIN replies' :
        (i \in DOMAIN replies /\ replies'[i] = replies[i]) \/ (i = Len(replies) + 1 /\ replies'[i] = r)
  BY <1>3, <1>4
<1>6. << >> \in Seq(Request)
  OBVIOUS
<1>7. ReplyTypes'
  <2>1. \A i \in DOMAIN replies : /\ replies[i].code # 225
                                  /\ replies[i].code # 227 => replies[i].port = NoPort
    BY DEF ReplyTypes
  <2>2. \A i \in DOMAIN replies' : /\ replies'[i].code # 225
                                   /\ replies'[i].code # 227 => replies'[i].port = NoPort
    BY <1>1, <1>5, <2>1
  <2>3. requests' \in Seq(Request) /\ reply_buf' \in Seq(Reply)
    BY <1>6 DEF ReplyTypes
  <2> QED BY <1>4, <2>2, <2>3 DEF ReplyTypes
<1>8. \A codes : Said(codes)' => Said(codes) \/ code \in codes
  BY <1>1, <1>5 DEF Said
<1> QED BY <1>1, <1>3, <1>4, <1>5, <1>7, <1>8

\* A command is served.
LEMMA ServesOne ==
  ASSUME MatchInv, TransferInv, NEW cmds, Serving(cmds)
  PROVE  /\ control = "open" /\ task = NoTask /\ requests # << >> /\ requests' = << >>
         /\ Head(requests) = requests[1] /\ requests[1] \in Request /\ requests[1].cmd \in cmds
         /\ requests[1].fresh \in BOOLEAN /\ requests[1].port \in AnyPort
         /\ requests[1].file \in FileNames
         /\ \A i \in DOMAIN replies : replies[i].code = 226
<1>1. /\ control = "open" /\ task = NoTask /\ requests # << >> /\ Head(requests).cmd \in cmds
      /\ requests' = Tail(requests)
  BY DEF Serving
<1>2. /\ requests \in Seq(Request) /\ Len(requests) <= 1
  BY DEF TransferInv, TransferTypes, ReplyTypes, MatchInv
<1>3. /\ 1 \in DOMAIN requests /\ Head(requests) = requests[1] /\ Tail(requests) \in Seq(Request)
      /\ Len(Tail(requests)) = Len(requests) - 1 /\ Len(requests) \in Nat
  BY <1>1, <1>2, SeqParts
<1>4. requests' = << >>
  <2>1. Len(Tail(requests)) = 0
    BY <1>2, <1>3
  <2>2. \A s \in Seq(Request) : Len(s) = 0 => s = << >>
    OBVIOUS
  <2> QED BY <1>1, <1>3, <2>1, <2>2
<1>5. requests[1] \in Request
  BY <1>2, <1>3
<1>6. /\ requests[1].fresh \in BOOLEAN /\ requests[1].port \in AnyPort
      /\ requests[1].file \in FileNames
  BY <1>5 DEF Request
<1>7. \A i \in DOMAIN replies : replies[i].code = 226
  BY <1>1 DEF TransferInv, RequestInv
<1> QED BY <1>1, <1>3, <1>4, <1>5, <1>6, <1>7

\* The client when its command has been served.
LEMMA ServedClient ==
  ASSUME MatchInv, TransferInv, UNCHANGED client, requests # << >>,
         ~GivenUp /\ call.op \in Transfers /\ requests[1].cmd = "PORT" /\ Is("recv", "PORT")
           => TellingPort',
         ~GivenUp /\ call.op \in Transfers /\ requests[1].cmd = Asked /\ Is("recv", Asked)
           => Asking'
  PROVE  ClientInv' /\ ResultInv'
<1>1. /\ UNCHANGED <<world, passive_mode, port_buf, bind_sock, accept_sock, got, wrote>>
      /\ UNCHANGED <<agenda, call, failed, reply_buf, cntrl_error>>
      /\ Command' = Command /\ Over' = Over /\ Asked' = Asked /\ Mover' = Mover
      /\ \A x : At(x)' = At(x)
      /\ passive_mode' \in BOOLEAN
  BY ClientStays DEF SocketTypes
<1>2. SUFFICES ASSUME call.op \in Transfers PROVE ClientInv' /\ ResultInv'
  BY <1>1 DEF ClientInv, ResultInv
<1>3. CASE GivenUp
  <2>1. Over' /\ failed'
    BY <1>1, <1>2, <1>3, GivenUpIsOver DEF TransferInv, TransferTypes
  <2>2. ClientInv'
    BY <1>1, <2>1, OverIsQuiet
  <2> QED BY <2>1, <2>2 DEF ResultInv
<1>4. CASE ~GivenUp
  <2>1. At("recv") /\ requests[1].cmd = Command
    BY <1>4 DEF TransferInv, RequestInv
  <2>2. /\ ~At("send") /\ ~At("read") /\ ~At("write") /\ ~At("accept") /\ ~At("connect")
        /\ ~At("listen") /\ ~Over
    <3>1. ~Over
      BY <2>1, FinishedCloses DEF Over, At
    <3> QED BY <2>1, <3>1 DEF At
  <2>3. Is("recv", "PORT") => TellingPort'
    BY <1>2, <1>4, <2>1 DEF Is
  <2>4. Is("recv", Asked) => Asking'
    BY <1>2, <1>4, <2>1 DEF Is
  <2>5. Mover \in {"read", "write"}
    BY DEF Mover, MoverOf
  <2>6. got = << >> /\ wrote = 0
    BY <1>2, <2>2, <2>5 DEF TransferInv, ClientInv
  <2> QED BY <1>1, <2>2, <2>3, <2>4, <2>5, <2>6 DEF ClientInv, ResultInv, Is
<1> QED BY <1>3, <1>4

\* A command that the data connection has nothing to do with.
LEMMA ServeSimpleKeeps ==
  ASSUME MatchInv, TransferInv, ServeSimple \/ ServeQuit
  PROVE  TransferInv'
<1>1. PICK cmds : /\ Serving(cmds) /\ cmds \cap {"PASV", "PORT", "RETR", "STOR"} = {}
                  /\ ServeQuit => cmds = {"QUIT"}
  BY DEF ServeSimple, ServeQuit
<1>2. /\ control = "open" /\ task = NoTask /\ requests # << >> /\ requests' = << >>
      /\ Head(requests) = requests[1] /\ requests[1] \in Request /\ requests[1].cmd \in cmds
      /\ requests[1].fresh \in BOOLEAN
      /\ \A i \in DOMAIN replies : replies[i].code = 226
  BY <1>1, ServesOne
<1>3. UNCHANGED <<client, data, server>> /\ (control' = "open" \/ (ServeQuit /\ control' = "hungup"))
  BY <1>2 DEF ServeSimple, ServeQuit
<1>4. PICK code \in Nat : /\ code \notin {225, 227}
                          /\ Answer(code, Head(requests).fresh, NoPort)
  <2>1. CASE ServeQuit
    BY <2>1 DEF ServeQuit
  <2>2. CASE ServeSimple
    <3>1. PICK code \in {Expected[Head(requests).cmd], 550} :
            Answer(code, Head(requests).fresh, NoPort)
      BY <2>2 DEF ServeSimple
    <3>2. Head(requests).cmd \in Commands \ {"QUIT", "PASV", "PORT", "RETR", "STOR"}
      BY <2>2 DEF ServeSimple, Serving, Commands
    <3>3. code \in Nat /\ code \notin {225, 227}
      BY <3>1, <3>2 DEF Expected, Commands
    <3> QED BY <3>1, <3>3
  <2> QED BY <2>1, <2>2
<1>5. /\ SocketTypes' /\ CallTypes' /\ Scripted' /\ call' = call /\ reply_buf' = reply_buf
      /\ GivenUp' = GivenUp /\ At("recv")' = At("recv")
  BY <1>3, ClientStays
<1>6. /\ ReplyTypes'
      /\ \A i \in DOMAIN replies' : i < Len(replies') => replies'[i].code = 226
  BY <1>2, <1>4, <1>5, Answering DEF TransferInv, TransferTypes, AnyPort
<1>7. ServerInv' /\ ServerTypes'
  BY <1>3, ServerStays DEF TransferInv, TransferTypes
<1>8. requests[1].cmd \notin {"PASV", "PORT", "RETR", "STOR"}
  BY <1>1, <1>2
<1>9. ClientInv' /\ ResultInv'
  <2>1. Asked \in {"RETR", "STOR"}
    BY DEF Asked, AskedBy
  <2> QED BY <1>2, <1>3, <1>8, <2>1, ServedClient
<1>10. RequestInv'
  BY <1>2 DEF RequestInv
<1>11. HungInv'
  <2>1. SUFFICES ASSUME ServeQuit, ~GivenUp, control' = "hungup" PROVE HungInv'
    BY <1>3, <1>5 DEF HungInv
  <2>2. At("recv") /\ Command = requests[1].cmd
    BY <1>2, <2>1 DEF TransferInv, RequestInv
  <2>3. call.op \notin Transfers
    <3>1. SUFFICES ASSUME call.op \in Transfers PROVE FALSE
      OBVIOUS
    <3>2. agenda # << >> /\ ~At("close")
      BY <2>2 DEF At
    <3>3. /\ Asked \in {"RETR", "STOR"} /\ Mover \in {"read", "write"}
          /\ passive_mode => PassiveStage(agenda, Tail(agenda), Asked, Mover)
          /\ ~passive_mode => ActiveStage(agenda, Tail(agenda), Asked, Mover)
      BY <3>1, <3>2, StageNow
    <3>4. Command \in {"PASV", "PORT", Asked}
      BY <2>2, <3>3 DEF PassiveStage, ActiveStage, Stage, At, Command
    <3> QED BY <1>8, <2>2, <3>3, <3>4
  <2> QED BY <1>5, <1>6, <2>2, <2>3 DEF HungInv
<1> QED BY <1>5, <1>6, <1>7, <1>9, <1>10, <1>11 DEF TransferInv, TransferTypes

\* PASV.
LEMMA ServePasvKeeps ==
  ASSUME EnoughPorts, MatchInv, TransferInv, ServePasv
  PROVE  TransferInv'
<1>1. Serving({"PASV"}) /\ UNCHANGED <<client, control, task, disk>>
  BY DEF ServePasv
<1>2. /\ control = "open" /\ task = NoTask /\ requests # << >> /\ requests' = << >>
      /\ Head(requests) = requests[1] /\ requests[1].cmd \in {"PASV"}
      /\ requests[1].fresh \in BOOLEAN
      /\ \A i \in DOMAIN replies : replies[i].code = 226
  BY <1>1, ServesOne
<1>3. SocketTypes' /\ CallTypes' /\ Scripted' /\ call' = call /\ reply_buf' = reply_buf
  BY <1>1, ClientStays
<1>4. ClientInv' /\ ResultInv'
  <2>1. Asked \in {"RETR", "STOR"}
    BY DEF Asked, AskedBy
  <2> QED BY <1>1, <1>2, <2>1, ServedClient
<1>5. RequestInv' /\ HungInv'
  BY <1>1, <1>2 DEF RequestInv, HungInv
<1>6. PICK p : p = NewPort
  OBVIOUS
<1>7. p \in Ports /\ p \notin {spas, sport} /\ p \in AnyPort
  <2>1. NoData
    BY <1>2 DEF TransferInv, RequestInv
  <2> QED BY <1>2, <1>6, <2>1, NewPortIs DEF TransferInv, TransferTypes, ServerInv, AnyPort
<1>8. CASE /\ Answer(502, Head(requests).fresh, NoPort)
           /\ UNCHANGED <<spas, sport, remote, data>>
  <2>1. UNCHANGED <<data, server>>
    BY <1>1, <1>8 DEF server
  <2>2. ServerInv' /\ ServerTypes'
    BY <2>1, ServerStays DEF TransferInv, TransferTypes
  <2>3. ReplyTypes' /\ \A codes : Said(codes)' => Said(codes) \/ 502 \in codes
    BY <1>2, <1>3, <1>8, Answering DEF TransferInv, TransferTypes, AnyPort
  <2> QED BY <1>3, <1>4, <1>5, <2>2, <2>3 DEF TransferInv, TransferTypes
<1>9. CASE /\ Answer(227, Head(requests).fresh, p) /\ spas' = p /\ sport' = NoPort
           /\ remote' = [q \in Ports |-> IF q = p THEN "listening"
                                         ELSE IF q = spas THEN "closed" ELSE remote[q]]
           /\ data' = [data EXCEPT ![p] = << >>]
  <2>1. ReplyTypes' /\ \A codes : Said(codes)' => Said(codes) \/ 227 \in codes
    BY <1>2, <1>3, <1>7, <1>9, Answering DEF TransferInv, TransferTypes
  <2>2. /\ data' \in [Ports -> Seq(Block)] /\ data'[p] = << >>
    <3>1. << >> \in Seq(Block)
      OBVIOUS
    <3> QED BY <1>7, <1>9, <3>1 DEF TransferInv, TransferTypes, ServerTypes
  <2>3. /\ remote' \in [Ports -> {"closed", "listening", "reached", "connected", "done"}]
        /\ \A q \in Ports : remote'[q] = IF q = p THEN "listening"
                                         ELSE IF q = spas THEN "closed" ELSE remote[q]
    BY <1>9 DEF TransferInv, TransferTypes, ServerTypes
  <2>4. ServerTypes'
    BY <1>1, <1>7, <1>9, <2>2, <2>3 DEF TransferInv, TransferTypes, ServerTypes, AnyPort
  <2>5. PortOf' = p
    BY <1>7, <1>9, FtpAssumption DEF PortOf
  <2>6. PortsInv'
    BY <1>1, <1>2, <1>7, <1>9, <2>2, <2>3, <2>5 DEF TransferInv, ServerInv, PortsInv
  <2>7. TaskInv' /\ DiskInv'
    BY <1>1, <1>2 DEF TransferInv, ServerInv, TaskInv, DiskInv
  <2> QED BY <1>3, <1>4, <1>5, <2>1, <2>4, <2>6, <2>7 DEF TransferInv, TransferTypes, ServerInv
<1>10. \/ /\ Answer(502, Head(requests).fresh, NoPort)
          /\ UNCHANGED <<spas, sport, remote, data>>
       \/ /\ Answer(227, Head(requests).fresh, p) /\ spas' = p /\ sport' = NoPort
          /\ remote' = [q \in Ports |-> IF q = p THEN "listening"
                                        ELSE IF q = spas THEN "closed" ELSE remote[q]]
          /\ data' = [data EXCEPT ![p] = << >>]
  BY <1>6, Zenon DEF ServePasv
<1> QED BY <1>8, <1>9, <1>10

\* PORT.
LEMMA ServePortKeeps ==
  ASSUME MatchInv, TransferInv, ServePort
  PROVE  TransferInv'
<1>1. Serving({"PORT"}) /\ UNCHANGED <<client, control, data, task, disk>>
  BY DEF ServePort
<1>2. /\ control = "open" /\ task = NoTask /\ requests # << >> /\ requests' = << >>
      /\ Head(requests) = requests[1] /\ requests[1].cmd \in {"PORT"}
      /\ requests[1].fresh \in BOOLEAN
      /\ \A i \in DOMAIN replies : replies[i].code = 226
  BY <1>1, ServesOne
<1>3. /\ SocketTypes' /\ CallTypes' /\ Scripted' /\ call' = call /\ reply_buf' = reply_buf
      /\ Peer' = Peer /\ Holds' = Holds /\ passive_mode' = passive_mode
  BY <1>1, ClientStays
<1>4. RequestInv' /\ HungInv'
  BY <1>1, <1>2 DEF RequestInv, HungInv
<1>5. PICK q : q = Head(requests).port
  OBVIOUS
<1>6. Free(q) /\ q \in Ports /\ q \in AnyPort
  BY <1>2, <1>5 DEF TransferInv, RequestInv, Free, AnyPort
<1>7. ~Said({125}) /\ ~Said({200})
  BY <1>2 DEF Said
<1>8. Asked \in {"RETR", "STOR"}
  BY DEF Asked, AskedBy
<1>9. CASE Answer(501, Head(requests).fresh, NoPort) /\ UNCHANGED <<spas, sport, remote>>
  <2>1. UNCHANGED <<data, server>>
    BY <1>1, <1>9 DEF server
  <2>2. ServerInv' /\ ServerTypes'
    BY <2>1, ServerStays DEF TransferInv, TransferTypes
  <2>3. ReplyTypes' /\ \A codes : Said(codes)' => Said(codes) \/ 501 \in codes
    BY <1>2, <1>3, <1>9, Answering DEF TransferInv, TransferTypes, AnyPort
  <2>4. ~Said({125})' /\ ~Said({200})'
    BY <1>7, <2>3
  <2>5. ClientInv' /\ ResultInv'
    <3>1. call.op \in Transfers /\ Is("recv", "PORT") => TellingPort'
      BY <1>2, <1>3, <2>4 DEF TransferInv, ClientInv, TellingPort
    <3> QED BY <1>1, <1>2, <1>8, <3>1, ServedClient
  <2> QED BY <1>3, <1>4, <2>2, <2>3, <2>5 DEF TransferInv, TransferTypes
<1>10. CASE /\ Answer(200, Head(requests).fresh, NoPort) /\ sport' = q /\ spas' = NoPort
            /\ remote' = [p \in Ports |-> IF p = spas THEN "closed" ELSE remote[p]]
  <2>1. ReplyTypes' /\ \A codes : Said(codes)' => Said(codes) \/ 200 \in codes
    BY <1>2, <1>3, <1>10, Answering DEF TransferInv, TransferTypes, AnyPort
  <2>2. ~Said({125})'
    BY <1>7, <2>1
  <2>3. /\ remote' \in [Ports -> {"closed", "listening", "reached", "connected", "done"}]
        /\ \A p \in Ports : remote'[p] = IF p = spas THEN "closed" ELSE remote[p]
    BY <1>10 DEF TransferInv, TransferTypes, ServerTypes
  <2>4. ServerTypes'
    BY <1>1, <1>6, <1>10, <2>3 DEF TransferInv, TransferTypes, ServerTypes, AnyPort
  <2>5. PortOf' = q /\ Untouched' = "closed"
    BY <1>10 DEF PortOf, Untouched
  <2>6. PortsInv'
    BY <1>1, <1>2, <1>6, <1>10, <2>3, <2>5 DEF TransferInv, ServerInv, PortsInv, Free
  <2>7. TaskInv' /\ DiskInv'
    BY <1>1, <1>2 DEF TransferInv, ServerInv, TaskInv, DiskInv
  <2>8. ClientInv' /\ ResultInv'
    <3>1. ASSUME ~GivenUp, call.op \in Transfers, Is("recv", "PORT")
          PROVE  TellingPort'
      <4>1. Holds /\ requests[1].port = port_buf
        BY <1>2, <3>1 DEF TransferInv, ClientInv, TellingPort, RequestInv
      <4>2. passive_mode = FALSE
        <5>1. agenda # << >> /\ ~At("close") /\ passive_mode \in BOOLEAN
          BY <3>1 DEF Is, At, TransferInv, TransferTypes, SocketTypes
        <5>2. Mover \in {"read", "write"} /\ (passive_mode => PassiveStage(agenda, Tail(agenda), Asked, Mover))
          BY <3>1, <5>1, StageNow
        <5> QED BY <1>8, <3>1, <5>1, <5>2 DEF PassiveStage, Stage, Is, At, Command
      <4>3. Peer' = q
        BY <1>2, <1>3, <1>5, <4>1, <4>2 DEF Peer
      <4>4. ServerReady'
        BY <1>1, <1>2, <1>6, <2>3, <2>5, FtpAssumption DEF ServerReady, Free
      <4>5. Ready'
        BY <1>3, <1>10, <2>5, <4>1, <4>2, <4>3, <4>4 DEF Ready
      <4> QED BY <1>2, <1>3, <2>2, <4>1, <4>5 DEF TellingPort
    <3> QED BY <1>1, <1>2, <1>8, <3>1, ServedClient
  <2> QED BY <1>3, <1>4, <2>1, <2>4, <2>6, <2>7, <2>8 DEF TransferInv, TransferTypes, ServerInv
<1>11. \/ Answer(501, Head(requests).fresh, NoPort) /\ UNCHANGED <<spas, sport, remote>>
       \/ /\ Answer(200, Head(requests).fresh, NoPort) /\ sport' = q /\ spas' = NoPort
          /\ remote' = [p \in Ports |-> IF p = spas THEN "closed" ELSE remote[p]]
  BY <1>5, Zenon DEF ServePort
<1> QED BY <1>9, <1>10, <1>11

\* RETR and STOR.
LEMMA ServeTransferKeeps ==
  ASSUME MatchInv, TransferInv, ServeTransfer
  PROVE  TransferInv'
<1>1. /\ Serving({"RETR", "STOR"})
      /\ UNCHANGED <<client, control, data, remote, spas, sport, disk>>
  BY DEF ServeTransfer
<1>2. /\ control = "open" /\ task = NoTask /\ requests # << >> /\ requests' = << >>
      /\ Head(requests) = requests[1] /\ requests[1].cmd \in {"RETR", "STOR"}
      /\ requests[1].fresh \in BOOLEAN
      /\ \A i \in DOMAIN replies : replies[i].code = 226
  BY <1>1, ServesOne
<1>3. /\ SocketTypes' /\ CallTypes' /\ Scripted' /\ call' = call /\ reply_buf' = reply_buf
      /\ Peer' = Peer /\ Holds' = Holds /\ passive_mode' = passive_mode /\ Asked' = Asked
      /\ got' = got /\ wrote' = wrote /\ world' = world
  BY <1>1, ClientStays
<1>4. RequestInv' /\ HungInv'
  BY <1>1, <1>2 DEF RequestInv, HungInv
<1>5. ~Said({125, 150})
  BY <1>2 DEF Said
<1>6. /\ PortOf \in AnyPort /\ NoPort \notin Ports /\ {spas, sport} = {NoPort, PortOf}
      /\ PortOf' = PortOf /\ Untouched' = Untouched
  <2>1. ServerTypes /\ PortsInv
    BY DEF TransferInv, TransferTypes, ServerInv
  <2> QED BY <1>1, <2>1, PortFacts DEF PortOf, Untouched
<1>7. requests[1].file \in Files /\ (PortOf # NoPort => ServerReady)
  BY <1>2 DEF TransferInv, RequestInv
<1>8. CASE Answer(550, Head(requests).fresh, NoPort) /\ UNCHANGED task
  <2>1. UNCHANGED <<data, server>>
    BY <1>1, <1>8 DEF server
  <2>2. ServerInv' /\ ServerTypes'
    BY <2>1, ServerStays DEF TransferInv, TransferTypes
  <2>3. ReplyTypes' /\ \A codes : Said(codes)' => Said(codes) \/ 550 \in codes
    BY <1>2, <1>3, <1>8, Answering DEF TransferInv, TransferTypes, AnyPort
  <2>4. ~Said({125, 150})'
    BY <1>5, <2>3
  <2>5. ClientInv' /\ ResultInv'
    <3>1. call.op \in Transfers /\ Is("recv", Asked) => Asking'
      BY <1>2, <1>3, <2>4 DEF TransferInv, ClientInv, Asking
    <3> QED BY <1>1, <1>2, <3>1, ServedClient
  <2> QED BY <1>3, <1>4, <2>2, <2>3, <2>5 DEF TransferInv, TransferTypes
<1>9. PICK h, q : h = Head(requests) /\ q = IF spas = NoPort THEN sport ELSE spas
  OBVIOUS
<1>10. PICK b : b = [kind |-> h.cmd, file |-> h.file, port |-> q,
                     fresh |-> h.fresh, phase |-> "open", blocks |-> << >>]
  OBVIOUS
<1>11. /\ b.kind = h.cmd /\ b.file = h.file /\ b.port = q /\ b.phase = "open"
       /\ b.blocks = << >>
  BY <1>10
<1>12. /\ b.kind = requests[1].cmd /\ b.file = requests[1].file /\ b.port = PortOf
       /\ b.phase = "open" /\ b.blocks = << >>
  BY <1>2, <1>9, <1>11, Zenon DEF PortOf
<1>13. CASE /\ {spas, sport} # {NoPort} /\ task' = b
            /\ \E code \in {125, 150} : Answer(code, Head(requests).fresh, NoPort)
  <2>1. PortOf # NoPort /\ PortOf \in Ports
    BY <1>6, <1>13 DEF AnyPort
  <2>2. ServerReady /\ remote[PortOf] = Untouched
    BY <1>7, <2>1 DEF ServerReady
  <2>3. task' \in Task /\ task' # NoTask
    <3>1. << >> \in Seq(Block)
      OBVIOUS
    <3>2. [kind |-> Head(requests).cmd, file |-> Head(requests).file,
           port |-> IF spas = NoPort THEN sport ELSE spas,
           fresh |-> Head(requests).fresh, phase |-> "open", blocks |-> << >>] \in Task
      BY <1>2, <1>7, <2>1, <3>1 DEF Task, PortOf
    <3>3. b \in Task
      BY <1>9, <1>10, <3>2, Zenon DEF PortOf
    <3> QED BY <1>13, <3>3, NoTaskIsNone
  <2>4. ServerTypes'
    BY <1>1, <2>3 DEF TransferInv, TransferTypes, ServerTypes
  <2>5. \A p \in Ports : remote[p] \notin {"listening", "connected"}
    <3> SUFFICES ASSUME NEW p \in Ports, remote[p] \in {"listening", "connected"} PROVE FALSE
      OBVIOUS
    <3>1. remote[p] = "listening" /\ p = spas
      BY <1>2 DEF TransferInv, ServerInv, PortsInv
    <3>2. PortOf = p
      BY <1>6, <3>1 DEF PortOf
    <3> QED BY <2>2, <3>1, <3>2 DEF Untouched
  <2>6. PortsInv'
    BY <1>1, <1>6, <1>12, <1>13, <2>3, <2>5 DEF TransferInv, ServerInv, PortsInv
  <2>7. data[PortOf] = << >>
    BY <1>2, <2>1 DEF TransferInv, ServerInv, PortsInv
  <2>8. Prefix(b.file, 0) = << >> /\ 0 \in 0 .. Blocks /\ << >> \o << >> = << >>
    <3>1. [i \in 1 .. 0 |-> <<b.file, i>>] = << >>
      OBVIOUS
    <3>2. 0 \in 0 .. Blocks /\ << >> \o << >> = << >>
      BY FtpAssumption
    <3> QED BY <3>1, <3>2 DEF Prefix
  <2>9. TaskInv' /\ DiskInv'
    <3>1. /\ task'.blocks = << >> /\ Prefix(task'.file, 0) = << >> /\ task'.phase = "open"
          /\ task'.port = PortOf'
      BY <1>6, <1>13, <1>12, <2>8
    <3>2. task'.blocks \o data'[task'.port] = << >> /\ remote'[task'.port] = Untouched'
      BY <1>1, <1>6, <2>2, <2>7, <2>8, <3>1
    <3>3. TaskInv'
      BY <2>8, <3>1, <3>2 DEF TaskInv
    <3>4. DiskInv'
      BY <1>1 DEF TransferInv, ServerInv, DiskInv
    <3> QED BY <3>3, <3>4
  <2>10. ReplyTypes'
    <3>1. PICK code \in {125, 150} : Answer(code, Head(requests).fresh, NoPort)
      BY <1>13
    <3>2. code \in Nat /\ code # 225 /\ code # 227
      BY <3>1
    <3>3. ReplyTypes' /\ \A codes : Said(codes)' => Said(codes) \/ code \in codes
      BY <1>2, <1>3, <3>1, <3>2, Answering DEF TransferInv, TransferTypes, AnyPort
    <3> QED BY <3>3
  <2>11. ClientInv' /\ ResultInv'
    <3>1. ASSUME ~GivenUp, call.op \in Transfers, requests[1].cmd = Asked, Is("recv", Asked)
          PROVE  Asking'
      <4>1. Holds /\ Ready
        BY <1>2, <3>1 DEF TransferInv, ClientInv, Asking
      <4>2. Peer = PortOf /\ (passive_mode <=> spas # NoPort)
        BY <4>1 DEF Ready
      <4>3. requests[1].file = call.file
        BY <1>2, <3>1 DEF TransferInv, RequestInv
      <4>4. got = << >> /\ wrote = 0
        <5>1. ~At("read") /\ ~At("write") /\ ~Over
          BY <3>1, FinishedCloses DEF Is, At, Over
        <5> QED BY <3>1, <5>1 DEF TransferInv, ClientInv, Mover, MoverOf
      <4>5. passive_mode => remote[Peer] = "reached"
        BY <2>2, <4>2 DEF Untouched
      <4>6. /\ task'.kind = Asked' /\ task'.file = call'.file /\ task'.port = Peer'
            /\ task'.blocks = << >> /\ Prefix(call'.file, 0) = << >>
        BY <1>3, <1>13, <1>12, <2>8, <3>1, <4>2, <4>3
      <4>7. /\ got' \o data'[Peer'] = << >> /\ task'.blocks \o data'[Peer'] = << >>
            /\ wrote' = 0
        BY <1>1, <1>3, <2>7, <2>8, <4>2, <4>4, <4>6
      <4>8. passive_mode' => remote'[Peer'] \in {"reached", "connected"}
        BY <1>1, <1>3, <4>5
      <4>9. Started'
        BY <2>3, <4>6, <4>7, <4>8 DEF Started
      <4> QED BY <1>2, <1>3, <4>1, <4>9 DEF Asking
    <3> QED BY <1>1, <1>2, <3>1, ServedClient
  <2> QED BY <1>3, <1>4, <2>4, <2>6, <2>9, <2>10, <2>11 DEF TransferInv, TransferTypes, ServerInv
<1>14. \/ Answer(550, Head(requests).fresh, NoPort) /\ UNCHANGED task
       \/ /\ {spas, sport} # {NoPort} /\ task' = b
          /\ \E code \in {125, 150} : Answer(code, Head(requests).fresh, NoPort)
  BY <1>9, <1>10, Zenon DEF ServeTransfer
<1> QED BY <1>8, <1>13, <1>14

\* A transfer is under way.
LEMMA Busy ==
  ASSUME MatchInv, TransferInv, task # NoTask
  PROVE  /\ control = "open" /\ task \in Task /\ task.port \in Ports /\ task.port = PortOf
         /\ task.port \in {spas, sport} /\ task.file \in Files /\ task.blocks \in Seq(Block)
         /\ task.kind \in {"RETR", "STOR"} /\ task.phase \in {"open", "move"}
         /\ ~Ready /\ (requests # << >> => requests[1].cmd \notin {"RETR", "STOR"})
         /\ data \in [Ports -> Seq(Block)] /\ data[task.port] \in Seq(Block)
         /\ remote \in [Ports -> {"closed", "listening", "reached", "connected", "done"}]
         /\ NoPort \notin Ports
<1>1. ServerTypes /\ PortsInv
  BY DEF TransferInv, TransferTypes, ServerInv
<1>2. /\ task \in Task /\ task.port \in Ports /\ task.port = PortOf /\ task.file \in Files
      /\ task.kind \in {"RETR", "STOR"} /\ task.phase \in {"open", "move"}
      /\ task.blocks \in Seq(Block) /\ NoPort \notin Ports
      /\ (PortOf # NoPort => PortOf \in {spas, sport})
  BY <1>1, PortFacts
<1>3. task.port \in {spas, sport} /\ PortOf # NoPort
  BY <1>2
<1>4. ~ServerReady
  BY DEF ServerReady
<1>5. control = "open"
  BY DEF MatchInv, Ended
<1>6. ~Ready /\ (requests # << >> => requests[1].cmd \notin {"RETR", "STOR"})
  BY <1>3, <1>4 DEF Ready, TransferInv, RequestInv
<1>7. /\ data \in [Ports -> Seq(Block)]
      /\ remote \in [Ports -> {"closed", "listening", "reached", "connected", "done"}]
  BY <1>1 DEF ServerTypes
<1> QED BY <1>2, <1>3, <1>5, <1>6, <1>7

\* The server moves on, and the client is where it was.
LEMMA BusyRequests ==
  ASSUME MatchInv, MatchInv', TransferInv, task # NoTask,
         UNCHANGED <<client, control, requests>>, \A p : Free(p) => Free(p)',
         GivenUp /\ (\A i \in DOMAIN replies : replies[i].code = 226) =>
           \A i \in DOMAIN replies' : replies'[i].code = 226
  PROVE  RequestInv' /\ HungInv'
<1>1. /\ control = "open" /\ (requests # << >> => requests[1].cmd \notin {"RETR", "STOR"})
  BY Busy
<1>2. /\ NoData' = NoData /\ GivenUp' = GivenUp /\ Command' = Command /\ At("recv")' = At("recv")
      /\ UNCHANGED <<call, port_buf>>
  BY ClientStays
<1>3. HungInv'
  BY <1>1 DEF HungInv
<1>4. ASSUME requests # << >>
      PROVE  \A i \in DOMAIN replies' : replies'[i].code = 226
  <2>1. CASE GivenUp
    BY <1>4, <2>1 DEF TransferInv, RequestInv
  <2>2. CASE ~GivenUp
    <3>1. At("recv")' /\ InOrder' /\ requests' # << >> /\ control' = "open"
      BY <1>1, <1>2, <1>4, <2>2 DEF TransferInv, RequestInv, MatchInv
    <3>2. Unanswered'
      BY <3>1 DEF InOrder, Waiting
    <3> QED BY <3>1, <3>2 DEF Unanswered
  <2> QED BY <2>1, <2>2
<1>5. RequestInv'
  <2>1. SUFFICES ASSUME requests' # << >> PROVE RequestInv'
    BY DEF RequestInv
  <2>2. /\ requests # << >> /\ requests' = requests
        /\ requests[1].cmd \notin {"RETR", "STOR"}
        /\ requests[1].cmd = "PORT" => Free(requests[1].port)'
    BY <1>1, <2>1 DEF TransferInv, RequestInv
  <2> QED BY <1>2, <1>4, <2>2 DEF TransferInv, RequestInv
<1> QED BY <1>3, <1>5

\* What the server has told the client holds when it moves on.
LEMMA BusyClient ==
  ASSUME MatchInv, TransferInv, task # NoTask,
         UNCHANGED <<client, control, requests>>, \A p : Free(p) => Free(p)',
         call.op \in Transfers /\ Holds /\ Started => Started',
         call.op \in Transfers /\ Moving => remote'[Peer'] \in {"reached", "connected", "done"},
         \A codes \in {{125}, {200}, {125, 150}} : Said(codes)' => Said(codes)
  PROVE  ClientInv'
<1>1. ~Ready
  BY Busy
<1>2. /\ UNCHANGED <<world, passive_mode, port_buf, bind_sock, accept_sock, got, wrote>>
      /\ UNCHANGED <<call, reply_buf>>
      /\ Command' = Command /\ Over' = Over /\ Asked' = Asked /\ Mover' = Mover /\ Peer' = Peer
      /\ Holds' = Holds /\ NoData' = NoData /\ DataEnd' = DataEnd
      /\ \A x : At(x)' = At(x)
  BY ClientStays
<1>3. SUFFICES ASSUME call.op \in Transfers PROVE ClientInv'
  BY <1>2 DEF ClientInv
<1>4. Holds /\ Started => Started'
  BY <1>3
<1>5. Moving => Moving'
  <2>1. Moving => Holds /\ Started /\ DataEnd = Peer
    BY DEF Moving
  <2>2. Moving => remote'[Peer'] \in {"reached", "connected", "done"}
    BY <1>3
  <2> QED BY <1>2, <1>4, <2>1, <2>2, Zenon DEF Moving
<1>6. Free(Peer) => Free(Peer)'
  <2>1. PICK p : p = Peer
    OBVIOUS
  <2>2. Free(p) => Free(p)'
    OBVIOUS
  <2>3. Peer' = p
    BY <1>2, <2>1
  <2> QED BY <2>1, <2>2, <2>3 DEF Free
<1>7. TellingPort => TellingPort'
  BY <1>1, <1>2, <1>6 DEF TellingPort
<1>8. Asking => Asking'
  BY <1>1, <1>2, <1>4 DEF Asking
<1> QED BY <1>1, <1>2, <1>3, <1>4, <1>5, <1>6, <1>7, <1>8 DEF TransferInv, ClientInv, Is

\* A transfer goes on, and loses no block.
LEMMA TaskGoesOn ==
  ASSUME MatchInv, MatchInv', TransferInv, task # NoTask,
         UNCHANGED <<client, control, channel, spas, sport, disk>>, ServerTypes', TaskInv',
         task' \in Task, task'.kind = task.kind, task'.file = task.file, task'.port = task.port,
         remote'[task.port] = "connected",
         \A p \in Ports : p # task.port => remote'[p] = remote[p] /\ data'[p] = data[p],
         task.kind = "RETR" => \A s \in Seq(Block) :
           s \o data[task.port] = task.blocks => s \o data'[task.port] = task'.blocks,
         task.kind = "STOR" =>
           task'.blocks \o data'[task.port] = task.blocks \o data[task.port]
  PROVE  TransferInv'
<1>1. /\ task.port \in Ports /\ task.port = PortOf /\ task.port \in {spas, sport}
      /\ task.kind \in {"RETR", "STOR"} /\ task' # NoTask
  BY Busy, NoTaskIsNone
<1>2. /\ SocketTypes' /\ CallTypes' /\ Scripted' /\ UNCHANGED <<world, passive_mode, call, got, wrote>>
      /\ UNCHANGED <<replies, requests, reply_buf, control, failed>>
      /\ Asked' = Asked /\ Peer' = Peer /\ Over' = Over
  BY ClientStays DEF channel
<1>3. ReplyTypes'
  BY <1>2, RepliesStay DEF TransferInv, TransferTypes
<1>4. \A p : Free(p) => Free(p)'
  BY <1>1 DEF Free
<1>5. PortsInv' /\ DiskInv'
  <2>1. PortOf' = PortOf
    BY DEF PortOf
  <2>2. PortsInv /\ DiskInv
    BY DEF TransferInv, ServerInv
  <2>3. DiskInv'
    BY <2>2 DEF DiskInv
  <2>4. \A p \in Ports : /\ remote'[p] # "listening" /\ (remote'[p] = "reached" => p = spas)
                         /\ (remote'[p] = "connected" => p = task.port)
    BY <2>2 DEF PortsInv
  <2> QED BY <1>1, <2>1, <2>2, <2>3, <2>4 DEF PortsInv
<1>6. RequestInv' /\ HungInv'
  BY <1>2, <1>4, BusyRequests
<1>7. got \in Seq(Block)
  BY DEF TransferInv, TransferTypes, CallTypes
<1>8. Started => Started'
  <2>1. SUFFICES ASSUME Started PROVE Started'
    OBVIOUS
  <2>2. /\ task.kind = Asked /\ task.file = call.file /\ task.port = Peer
        /\ world.completes /\ Asked = "RETR" => got \o data[Peer] = task.blocks
        /\ Asked = "STOR" => task.blocks \o data[Peer] = Prefix(call.file, wrote)
    BY <2>1 DEF Started
  <2>3. /\ world.completes /\ Asked = "RETR" => got \o data'[Peer] = task'.blocks
        /\ Asked = "STOR" => task'.blocks \o data'[Peer] = Prefix(call.file, wrote)
    BY <1>7, <2>2
  <2> QED BY <1>1, <1>2, <2>2, <2>3 DEF Started
<1>9. Moving => remote'[Peer'] \in {"reached", "connected", "done"}
  BY <1>2 DEF Moving, Started
<1>10. ClientInv'
  BY <1>2, <1>4, <1>8, <1>9, BusyClient DEF Said
<1>11. ResultInv'
  BY <1>1, <1>2 DEF TransferInv, ResultInv
<1> QED BY <1>2, <1>3, <1>5, <1>6, <1>10, <1>11 DEF TransferInv, TransferTypes, ServerInv

\* The data connection is there.
LEMMA OpenDataKeeps ==
  ASSUME MatchInv, MatchInv', TransferInv, OpenData
  PROVE  TransferInv'
<1>1. /\ task # NoTask /\ task.phase = "open" /\ task' = [task EXCEPT !.phase = "move"]
      /\ remote' = [remote EXCEPT ![task.port] = "connected"]
      /\ UNCHANGED <<client, control, channel, data, spas, sport, disk>>
  BY DEF OpenData, Doing
<1>2. /\ task \in Task /\ task.port \in Ports
      /\ remote \in [Ports -> {"closed", "listening", "reached", "connected", "done"}]
  BY <1>1, Busy
<1>3. /\ task'.kind = task.kind /\ task'.file = task.file /\ task'.port = task.port
      /\ task'.phase = "move" /\ task'.blocks = task.blocks /\ task' \in Task
  BY <1>1, <1>2 DEF Task
<1>4. /\ remote'[task.port] = "connected" /\ \A p \in Ports : p # task.port => remote'[p] = remote[p]
      /\ remote' \in [Ports -> {"closed", "listening", "reached", "connected", "done"}]
  BY <1>1, <1>2
<1>5. ServerTypes' /\ TaskInv'
  <2>1. ServerTypes /\ TaskInv
    BY DEF TransferInv, TransferTypes, ServerInv
  <2>2. ServerTypes'
    BY <1>1, <1>3, <1>4, <2>1 DEF ServerTypes
  <2>3. /\ task.kind = "RETR" => \E n \in 0 .. Blocks : task.blocks = Prefix(task.file, n)
        /\ task.kind = "STOR" =>
             \E n \in 0 .. Blocks : task.blocks \o data[task.port] = Prefix(task.file, n)
        /\ data' = data
    BY <1>1, <2>1 DEF TaskInv
  <2>4. TaskInv'
    BY <1>3, <1>4, <2>3 DEF TaskInv
  <2> QED BY <2>2, <2>4
<1> QED BY <1>1, <1>3, <1>4, <1>5, TaskGoesOn

\* A block is sent, or received.
LEMMA MoveDataKeeps ==
  ASSUME MatchInv, MatchInv', TransferInv, MoveData
  PROVE  TransferInv'
<1>1. /\ task # NoTask /\ task.phase = "move"
      /\ UNCHANGED <<client, control, channel, remote, spas, sport, disk>>
  BY DEF MoveData, Doing
<1>2. /\ task \in Task /\ task.port \in Ports /\ task.file \in Files /\ task.blocks \in Seq(Block)
      /\ data \in [Ports -> Seq(Block)] /\ data[task.port] \in Seq(Block)
  BY <1>1, Busy
<1>3. ServerTypes /\ TaskInv
  BY DEF TransferInv, TransferTypes, ServerInv
<1>4. remote'[task.port] = "connected"
  BY <1>1, <1>3 DEF TaskInv
<1>5. ASSUME NEW to \in Seq(Block), NEW through \in Seq(Block),
             task' = [task EXCEPT !.blocks = to], data' = [data EXCEPT ![task.port] = through],
             task.kind = "RETR" =>
               /\ \E n \in 0 .. Blocks : to = Prefix(task.file, n)
               /\ \A s \in Seq(Block) : s \o data[task.port] = task.blocks => s \o through = to,
             task.kind = "STOR" => to \o through = task.blocks \o data[task.port]
      PROVE  TransferInv'
  <2>1. /\ task'.kind = task.kind /\ task'.file = task.file /\ task'.port = task.port
        /\ task'.phase = "move" /\ task'.blocks = to /\ task' \in Task
    BY <1>1, <1>2, <1>5 DEF Task
  <2>2. /\ data'[task.port] = through /\ data' \in [Ports -> Seq(Block)]
        /\ \A p \in Ports : p # task.port => data'[p] = data[p]
    BY <1>2, <1>5
  <2>3. ServerTypes'
    BY <1>1, <1>3, <2>1, <2>2 DEF ServerTypes
  <2>4. TaskInv'
    <3>1. task.kind = "STOR" =>
            \E n \in 0 .. Blocks : task.blocks \o data[task.port] = Prefix(task.file, n)
      BY <1>1, <1>3 DEF TaskInv
    <3>2. task.kind = "STOR" => \E n \in 0 .. Blocks : to \o through = Prefix(task.file, n)
      BY <1>5, <3>1
    <3> QED BY <1>4, <1>5, <2>1, <2>2, <3>2 DEF TaskInv
  <2> QED BY <1>1, <1>4, <1>5, <2>1, <2>2, <2>3, <2>4, TaskGoesOn
<1>6. CASE Doing({"RETR"}, "move") /\ Len(task.blocks) < Blocks
  <2>1. task.kind = "RETR"
    BY <1>6 DEF Doing
  <2>2. PICK n \in 0 .. Blocks : task.blocks = Prefix(task.file, n)
    BY <1>1, <1>3, <2>1 DEF TaskInv
  <2>3. Len(Prefix(task.file, n)) = n /\ Len(task.blocks) = n
    BY <1>2, <2>2, PrefixParts
  <2>4. PICK b : b = <<task.file, n + 1>>
    OBVIOUS
  <2>5. /\ b \in Block /\ n + 1 \in 0 .. Blocks
        /\ Append(Prefix(task.file, n), b) = Prefix(task.file, n + 1)
    BY <1>2, <1>6, <2>3, <2>4, PrefixParts
  <2>6. PICK to, through : to = Append(task.blocks, b) /\ through = Append(data[task.port], b)
    OBVIOUS
  <2>7. to = Prefix(task.file, n + 1) /\ to \in Seq(Block) /\ through \in Seq(Block)
    BY <1>2, <2>2, <2>5, <2>6, EndGrows
  <2>8. task' = [task EXCEPT !.blocks = to] /\ data' = [data EXCEPT ![task.port] = through]
    <3>1. CASE Doing({"STOR"}, "move")
      BY <2>1, <3>1 DEF Doing
    <3>2. CASE LET block == <<task.file, Len(task.blocks) + 1>>
               IN /\ data' = [data EXCEPT ![task.port] = Append(@, block)]
                  /\ task' = [task EXCEPT !.blocks = Append(@, block)]
      BY <2>3, <2>4, <2>6, <3>2
    <3> QED BY <3>1, <3>2 DEF MoveData
  <2>9. \A s \in Seq(Block) : s \o Append(data[task.port], b) = Append(s \o data[task.port], b)
    BY <1>2, <2>5, EndGrows
  <2>10. \A s \in Seq(Block) : s \o data[task.port] = task.blocks => s \o through = to
    BY <2>6, <2>9
  <2> QED BY <1>5, <2>1, <2>5, <2>7, <2>8, <2>10
<1>7. CASE Doing({"STOR"}, "move") /\ data[task.port] # << >>
  <2>1. task.kind = "STOR"
    BY <1>7 DEF Doing
  <2>2. PICK to, through : /\ to = Append(task.blocks, Head(data[task.port]))
                           /\ through = Tail(data[task.port])
    OBVIOUS
  <2>3. /\ to \in Seq(Block) /\ through \in Seq(Block)
        /\ to \o through = task.blocks \o data[task.port]
    <3>1. \A s, t \in Seq(Block) : t # << >> =>
            /\ Append(s, Head(t)) \in Seq(Block) /\ Tail(t) \in Seq(Block)
            /\ Append(s, Head(t)) \o Tail(t) = s \o t
      BY HeadMoves
    <3>2. /\ Append(task.blocks, Head(data[task.port])) \in Seq(Block)
          /\ Tail(data[task.port]) \in Seq(Block)
          /\ Append(task.blocks, Head(data[task.port])) \o Tail(data[task.port])
               = task.blocks \o data[task.port]
      BY <1>2, <1>7, <3>1
    <3> QED BY <2>2, <3>2, Zenon
  <2>4. task' = [task EXCEPT !.blocks = to] /\ data' = [data EXCEPT ![task.port] = through]
    <3>1. CASE Doing({"RETR"}, "move")
      BY <2>1, <3>1 DEF Doing
    <3>2. CASE /\ data' = [data EXCEPT ![task.port] = Tail(@)]
               /\ task' = [task EXCEPT !.blocks = Append(@, Head(data[task.port]))]
      BY <2>2, <3>2
    <3> QED BY <3>1, <3>2 DEF MoveData
  <2> QED BY <1>5, <2>1, <2>3, <2>4
<1> QED BY <1>6, <1>7 DEF MoveData

\* The blocks of a port that has none left.
LEMMA NothingMore ==
  ASSUME NEW S, NEW s \in Seq(S)
  PROVE  s \o << >> = s
OBVIOUS

\* A transfer ends, and where servers complete what they begin it is whole.
LEMMA TaskEnds ==
  ASSUME MatchInv, MatchInv', TransferInv, task # NoTask, NEW code \in {226, 425, 426},
         EndTask(code), code = 226 \/ ~world.checks,
         disk' \in [Files -> Seq(Block)], DiskInv',
         world.completes /\ task.kind = "RETR" => task.blocks = Whole(task.file),
         world.completes /\ task.kind = "STOR" =>
           data[task.port] = << >> /\ disk'[task.file] = task.blocks
  PROVE  TransferInv'
<1>1. /\ Answer(code, task.fresh, NoPort)
      /\ remote' = [remote EXCEPT ![task.port] = "done"]
      /\ spas' = NoPort /\ sport' = NoPort /\ task' = NoTask
      /\ UNCHANGED <<client, control, requests, data>>
  BY DEF EndTask
<1>2. /\ task.port \in Ports /\ task.port = PortOf /\ task.port \in {spas, sport}
      /\ task \in Task /\ task.kind \in {"RETR", "STOR"} /\ task.blocks \in Seq(Block)
      /\ remote \in [Ports -> {"closed", "listening", "reached", "connected", "done"}]
      /\ NoPort \notin Ports
  BY Busy
<1>3. /\ SocketTypes' /\ CallTypes' /\ Scripted' /\ UNCHANGED <<world, passive_mode, call, got, wrote>>
      /\ UNCHANGED <<reply_buf, failed>>
      /\ Asked' = Asked /\ Peer' = Peer /\ Over' = Over
  BY <1>1, ClientStays
<1>4. /\ remote'[task.port] = "done" /\ \A p \in Ports : p # task.port => remote'[p] = remote[p]
      /\ remote' \in [Ports -> {"closed", "listening", "reached", "connected", "done"}]
  BY <1>1, <1>2
<1>5. /\ ReplyTypes' /\ \A codes : Said(codes)' => Said(codes) \/ code \in codes
      /\ (\A i \in DOMAIN replies : replies[i].code = 226) /\ code = 226 =>
           \A i \in DOMAIN replies' : replies'[i].code = 226
  <2>1. task.fresh \in BOOLEAN /\ code \in Nat /\ NoPort \in AnyPort /\ code # 225 /\ code # 227
    BY <1>2 DEF Task, AnyPort
  <2>2. ReplyTypes /\ requests' \in {requests, << >>} /\ reply_buf' = reply_buf
    BY <1>1, <1>3 DEF TransferInv, TransferTypes
  <2> QED BY <1>1, <2>1, <2>2, Answering
<1>6. \A p : Free(p) => Free(p)'
  BY <1>1, <1>2, <1>4 DEF Free
<1>7. ServerTypes'
  BY <1>1, <1>4 DEF TransferInv, TransferTypes, ServerTypes, AnyPort
<1>8. PortsInv' /\ TaskInv'
  <2>1. PortsInv
    BY DEF TransferInv, ServerInv
  <2>2. PortOf' = NoPort
    BY <1>1 DEF PortOf
  <2>3. \A p \in Ports : p = spas => p = task.port
    BY <1>2 DEF PortOf
  <2>4. \A p \in Ports : remote'[p] \notin {"listening", "reached", "connected"}
    BY <1>4, <2>1, <2>3 DEF PortsInv
  <2>5. TaskInv'
    BY <1>1 DEF TaskInv
  <2> QED BY <1>1, <2>2, <2>4, <2>5 DEF PortsInv
<1>9. RequestInv' /\ HungInv'
  <2>1. GivenUp /\ (\A i \in DOMAIN replies : replies[i].code = 226) =>
          \A i \in DOMAIN replies' : replies'[i].code = 226
    BY <1>5 DEF GivenUp
  <2>2. UNCHANGED <<client, control, requests>>
    BY <1>1
  <2> QED BY <1>6, <2>1, <2>2, BusyRequests
<1>10. Started => Started'
  <2>1. SUFFICES ASSUME Started PROVE Started'
    OBVIOUS
  <2>2. /\ task.kind = Asked /\ task.file = call.file /\ task.port = Peer
        /\ world.completes /\ Asked = "RETR" => got \o data[Peer] = task.blocks
    BY <2>1 DEF Started
  <2>3. world.completes /\ Asked = "RETR" => got \o data'[Peer] = Whole(call.file)
    BY <1>1, <2>2
  <2> QED BY <1>1, <1>3, <1>4, <2>2, <2>3 DEF Started
<1>11. Moving => remote'[Peer'] \in {"reached", "connected", "done"}
  BY <1>3, <1>4 DEF Moving, Started
<1>12. ClientInv'
  <2>1. \A codes \in {{125}, {200}, {125, 150}} : Said(codes)' => Said(codes)
    BY <1>5
  <2>2. UNCHANGED <<client, control, requests>>
    BY <1>1
  <2> QED BY <1>6, <1>10, <1>11, <2>1, <2>2, BusyClient
<1>13. ResultInv'
  <2>1. ASSUME call.op \in Transfers, Over, ~failed, world.completes, call.op = "upload",
               ~world.overlapped, control = "open"
        PROVE  disk'[call.file] = Whole(call.file)
    <3>1. /\ task.kind = "STOR" /\ task.file = call.file
          /\ task.blocks \o data[task.port] = Whole(call.file)
      BY <2>1 DEF TransferInv, ResultInv
    <3>2. task.blocks \o << >> = task.blocks
      BY <1>2, NothingMore
    <3>3. data[task.port] = << >> /\ disk'[task.file] = task.blocks
      BY <2>1, <3>1
    <3> QED BY <3>1, <3>2, <3>3, Zenon
  <2>2. UNCHANGED <<control, world, failed>>
    BY <1>1, <1>3
  <2>3. call.op \in Transfers /\ Over /\ ~failed /\ world.completes =>
          (call.op = "download" => got = Whole(call.file))
    BY DEF TransferInv, ResultInv
  <2>4. SUFFICES ASSUME call'.op \in Transfers, Over', ~failed', world'.completes
                 PROVE  ResultInv'
    BY DEF ResultInv
  <2>5. call.op \in Transfers /\ Over /\ ~failed /\ world.completes
    BY <1>3, <2>2, <2>4
  <2>6. call'.op = "download" => got' = Whole(call'.file)
    BY <1>3, <2>3, <2>5
  <2>7. call'.op = "upload" /\ ~world'.overlapped /\ control' = "open" =>
          disk'[call'.file] = Whole(call'.file)
    BY <1>3, <2>1, <2>2, <2>5
  <2> QED BY <1>1, <2>6, <2>7 DEF ResultInv
<1> QED BY <1>3, <1>5, <1>7, <1>8, <1>9, <1>12, <1>13 DEF TransferInv, TransferTypes, ServerInv

\* All is sent, or all is received.
LEMMA FinishDataKeeps ==
  ASSUME MatchInv, MatchInv', TransferInv, FinishData
  PROVE  TransferInv'
<1>1. task # NoTask /\ task.phase = "move" /\ EndTask(226)
  BY DEF FinishData, Doing
<1>2. ServerTypes /\ TaskInv /\ DiskInv
  BY DEF TransferInv, TransferTypes, ServerInv
<1>3. /\ task.file \in Files /\ task.blocks \in Seq(Block) /\ task.kind \in {"RETR", "STOR"}
      /\ disk \in [Files -> Seq(Block)]
  BY <1>1, <1>2, Busy DEF ServerTypes
<1>4. CASE Doing({"RETR"}, "move") /\ Len(task.blocks) = Blocks /\ UNCHANGED disk
  <2>1. task.kind = "RETR"
    BY <1>4 DEF Doing
  <2>2. PICK n \in 0 .. Blocks : task.blocks = Prefix(task.file, n)
    BY <1>1, <1>2, <2>1 DEF TaskInv
  <2>3. n = Blocks
    BY <1>3, <1>4, <2>2, PrefixParts
  <2>4. task.blocks = Whole(task.file)
    BY <2>2, <2>3 DEF Prefix, Whole
  <2>5. disk' \in [Files -> Seq(Block)] /\ DiskInv'
    BY <1>2, <1>3, <1>4 DEF DiskInv
  <2> QED BY <1>1, <2>1, <2>4, <2>5, TaskEnds
<1>5. CASE /\ Doing({"STOR"}, "move") /\ data[task.port] = << >>
           /\ disk' = [disk EXCEPT ![task.file] = task.blocks]
  <2>1. task.kind = "STOR"
    BY <1>5 DEF Doing
  <2>2. task.blocks \o << >> = task.blocks
    BY <1>3, NothingMore
  <2>3. \E n \in 0 .. Blocks : task.blocks = Prefix(task.file, n)
    BY <1>1, <1>2, <1>5, <2>1, <2>2 DEF TaskInv
  <2>4. disk' \in [Files -> Seq(Block)] /\ DiskInv' /\ disk'[task.file] = task.blocks
    BY <1>2, <1>3, <1>5, <2>3 DEF DiskInv
  <2> QED BY <1>1, <1>5, <2>1, <2>4, TaskEnds
<1> QED BY <1>4, <1>5 DEF FinishData

\* No connection, or one that broke.
LEMMA AbortDataKeeps ==
  ASSUME MatchInv, MatchInv', TransferInv, \A w \in Worlds : Careful(w), AbortData
  PROVE  TransferInv'
<1>1. /\ task # NoTask /\ ~world.completes /\ disk' = disk
      /\ \E code \in {425, 426} : EndTask(code)
  BY DEF AbortData, Doing
<1>2. PICK code \in {425, 426} : EndTask(code)
  BY <1>1
<1>3. ~world.checks
  BY <1>1 DEF MatchInv, Careful
<1>4. disk' \in [Files -> Seq(Block)] /\ DiskInv'
  BY <1>1 DEF TransferInv, TransferTypes, ServerTypes, ServerInv, DiskInv
<1> QED BY <1>1, <1>2, <1>3, <1>4, TaskEnds

------------------------------------------------------------------------------
\* The invariant.

\* At first nothing is asked, and nothing is stored.
LEMMA TransferInitially ==
  ASSUME Init
  PROVE  TransferInv
<1>1. << >> \in Seq(Block) /\ << >> \in Seq(Request) /\ << >> \in Seq(Reply) /\ DOMAIN << >> = {}
  OBVIOUS
<1>2. SocketTypes /\ CallTypes
  BY <1>1 DEF Init, SocketTypes, CallTypes, Closed, Socket, AnyPort, FileNames, Transfers
<1>3. ReplyTypes /\ ServerTypes
  BY <1>1 DEF Init, ReplyTypes, ServerTypes, AnyPort
<1>4. Scripted /\ ClientInv /\ ResultInv
  <2>1. call.op \notin Transfers
    BY DEF Init, Transfers
  <2>2. Plain(agenda)
    BY <1>1 DEF Init, Plain
  <2> QED BY <2>1, <2>2 DEF Scripted, InScript, ClientInv, ResultInv
<1>5. PortsInv /\ TaskInv /\ RequestInv /\ HungInv
  BY FtpAssumption DEF Init, PortsInv, PortOf, TaskInv, RequestInv, HungInv
<1>6. DiskInv
  <2>1. \A f : [i \in 1 .. 0 |-> <<f, i>>] = << >>
    OBVIOUS
  <2>2. 0 \in 0 .. Blocks
    BY FtpAssumption
  <2> QED BY <2>1, <2>2 DEF Init, DiskInv, Prefix
<1> QED BY <1>2, <1>3, <1>4, <1>5, <1>6 DEF TransferInv, TransferTypes, ServerInv

\* Every step of the server keeps the invariant.
LEMMA ServerKeeps ==
  ASSUME EnoughPorts, \A w \in Worlds : Careful(w), MatchInv, MatchInv', TransferInv, ServerNext
  PROVE  TransferInv'
BY ServeSimpleKeeps, ServePasvKeeps, ServePortKeeps, ServeTransferKeeps, OpenDataKeeps,
   MoveDataKeeps, FinishDataKeeps, AbortDataKeeps DEF ServerNext

\* Every step keeps the invariant.
LEMMA TransferKept ==
  ASSUME EnoughPorts, \A w \in Worlds : Careful(w), Rearmed,
         MatchInv, MatchInv', TextInv, PortInv, TransferInv, Next
  PROVE  TransferInv'
<1>1. CASE CallConnect \/ CallSimple \/ CallMove \/ CallDownload \/ CallUpload
  <2>1. Rearming(world)
    BY DEF MatchInv, Rearmed
  <2> QED BY <1>1, <2>1, CallsFit
<1>2. CASE CallClose \/ CheckError \/ \E passive \in BOOLEAN : FTPModeSet(passive)
  BY <1>2, UserKeeps
<1>3. CASE Dial \/ Send \/ RecvResponse \/ TimeOut \/ Disconnected
  BY <1>3, DialKeeps, SendKeeps, RecvKeeps, NoReplyKeeps
<1>4. CASE Connect \/ Listen \/ Accept \/ AcceptFails
  BY <1>4, ConnectKeeps, ListenKeeps, AcceptKeeps
<1>5. CASE \/ ReadBlock \/ ReadEnd \/ ReadFails
             \/ WriteBlock \/ WriteFails \/ ReadFileFails \/ CloseData
  BY <1>5, ReadBlockKeeps, ReadEnds, WriteBlockKeeps, WriteFailsKeeps, ReadFileFailsKeeps,
     CloseDataKeeps
<1>6. CASE ServerNext
  BY <1>6, ServerKeeps
<1> QED BY <1>1, <1>2, <1>3, <1>4, <1>5, <1>6 DEF Next, UserNext, ClientNext, Mishap

\* A step that changes nothing keeps it.
LEMMA TransferStays ==
  ASSUME TransferInv, UNCHANGED vars
  PROVE  TransferInv'
<1>1. /\ UNCHANGED <<world, control, cntrl_error, passive_mode, DataPortListening, port_buf>>
      /\ UNCHANGED <<bind_sock, accept_sock, reply_buf, agenda, call, failed, heard, got, wrote>>
      /\ UNCHANGED <<requests, replies, data, remote, spas, sport, task, disk>>
  BY DEF vars, session, datasock, user, progress, channel, server
<1>2. UNCHANGED client
  BY <1>1 DEF client, datasock, user, progress
<1>3. /\ SocketTypes' /\ CallTypes' /\ Scripted' /\ Command' = Command /\ Over' = Over
      /\ GivenUp' = GivenUp /\ Asked' = Asked /\ Mover' = Mover /\ NoData' = NoData
      /\ DataEnd' = DataEnd /\ \A x : At(x)' = At(x)
  BY <1>2, ClientStays
<1>4. /\ Peer' = Peer /\ Holds' = Holds /\ Started' = Started /\ Ready' = Ready
      /\ Free(Peer)' = Free(Peer) /\ \A p : Free(p)' = Free(p)
  <2>1. UNCHANGED <<world, passive_mode, bind_sock, port_buf, call, got, wrote, data, server>>
    BY <1>1 DEF server
  <2>2. \A p : Free(p)' = Free(p)
    BY <1>1 DEF Free
  <2> QED BY <2>1, <2>2, StartedSame
<1>5. ServerInv' /\ ServerTypes'
  <2>1. UNCHANGED <<data, server>>
    BY <1>1 DEF server
  <2> QED BY <2>1, ServerStays DEF TransferInv, TransferTypes
<1>6. ReplyTypes'
  BY <1>1 DEF TransferInv, TransferTypes, ReplyTypes
<1>7. HungInv' /\ RequestInv'
  <2>1. ServerReady' = ServerReady /\ PortOf' = PortOf
    BY <1>1 DEF ServerReady, PortOf, Untouched
  <2> QED BY <1>1, <1>3, <1>4, <2>1 DEF TransferInv, HungInv, RequestInv
<1>8. ClientInv'
  <2>1. TellingPort' = TellingPort /\ Asking' = Asking /\ Moving' = Moving
    BY <1>1, <1>3, <1>4 DEF TellingPort, Asking, Moving, Said
  <2> QED BY <1>1, <1>3, <1>4, <2>1 DEF TransferInv, ClientInv, Is
<1>9. ResultInv'
  BY <1>1, <1>3 DEF TransferInv, ResultInv
<1> QED BY <1>3, <1>5, <1>6, <1>7, <1>8, <1>9 DEF TransferInv, TransferTypes

\* The invariant says that what was moved is whole.
LEMMA InvMeansWhole ==
  ASSUME TransferInv, world.completes => ~world.overlapped
  PROVE  TransfersWhole
<1>1. DownloadWhole /\ UploadWhole
  <2>1. agenda = << >> => Over
    BY DEF Over, Finished
  <2> QED BY <2>1 DEF TransferInv, ResultInv, DownloadWhole, UploadWhole, Transfers
<1>2. UploadHasNoHole
  <2>1. SUFFICES ASSUME NEW f \in Files PROVE IsPrefix(disk[f], Whole(f))
    BY DEF UploadHasNoHole
  <2>2. PICK n \in 0 .. Blocks : disk[f] = Prefix(f, n)
    BY DEF TransferInv, ServerInv, DiskInv
  <2>3. /\ Prefix(f, n) \in Seq(Block) /\ Len(Prefix(f, n)) = n
        /\ Whole(f) \in Seq(Block) /\ Len(Whole(f)) = Blocks /\ Blocks \in Nat
    <3>1. Whole(f) = Prefix(f, Blocks) /\ Blocks \in 0 .. Blocks /\ Blocks \in Nat
      BY FtpAssumption DEF Whole, Prefix
    <3> QED BY <3>1, PrefixParts
  <2>4. \A i \in 1 .. n : Prefix(f, n)[i] = Whole(f)[i]
    BY <2>3 DEF Prefix, Whole
  <2> QED BY <2>2, <2>3, <2>4 DEF IsPrefix
<1> QED BY <1>1, <1>2 DEF TransfersWhole

\* The worlds that the run explores are such.
LEMMA SoundWorldsFit ==
  \A w \in SoundWorlds : Careful(w) /\ Rearming(w) /\ (w.completes => ~w.overlapped)
BY DEF SoundWorlds, World, Careful, Rearming

\* A transfer that reports success is whole at the end it goes to, and one that fails leaves
\* the server the beginning of the file, whatever FTPList, DownloadFile and UploadFile left
\* unread and UploadFile's loop went on with (c_ftp_client.cpp:711-736, 813-857): as long as
\* FTPActiveSet is called before every active transfer, users close a connection on which an
\* answer was late and give one up on which a transfer was broken off, no text holds a code
\* that is looked for or each connection is given up after its first transfer, and no upload
\* whose failure counts is over a c_sock_over.
THEOREM TransfersAreWhole ==
  ASSUME EnoughPorts,
         \A w \in Worlds : Careful(w) /\ Rearming(w) /\ (w.completes => ~w.overlapped)
  PROVE  Spec => []TransfersWhole
<1> DEFINE Inv == MatchInv /\ TextInv /\ PortInv /\ TransferInv
<1>1. Init => Inv
  BY MatchInitially, TextInitially, PortInitially, TransferInitially
<1>2. Inv /\ [Next]_vars => Inv'
  <2>1. Rearmed
    BY DEF Rearmed
  <2>2. Inv /\ Next => Inv'
    <3>1. SUFFICES ASSUME Inv, Next PROVE Inv'
      OBVIOUS
    <3>2. MatchInv' /\ TextInv' /\ PortInv'
      BY <2>1, <3>1, MatchKept, TextKept, PortKept
    <3> QED BY <2>1, <3>1, <3>2, TransferKept
  <2>3. Inv /\ UNCHANGED vars => Inv'
    <3>1. UNCHANGED vars => /\ UNCHANGED <<world, session, reply_buf, agenda, user, heard>>
                            /\ UNCHANGED <<channel, task>>
                            /\ UNCHANGED <<DataPortListening, port_buf, bind_sock>>
      BY DEF vars, datasock, server
    <3>2. PortInv /\ UNCHANGED vars => PortInv'
      BY <3>1 DEF user, PortInv, At, Command
    <3> QED BY <3>1, <3>2, SameKept, TextSame, TransferStays
  <2> QED BY <2>2, <2>3
<1>3. Inv => TransfersWhole
  BY InvMeansWhole DEF PortInv
<1> QED BY <1>1, <1>2, <1>3, PTL DEF Spec
=============================================================================
