-------------------------------- MODULE Smtp --------------------------------
(***************************************************************************)
(* c_smtp (IP/c_smtp.cpp): the client of a mail server.  A call is a script *)
(* of sends and replies.  RecvResponse takes all that has arrived, up to a  *)
(* line end, as one reply, so that a reply may be late for its own command  *)
(* or be taken apart; nothing but its code ties it to a command.  The relay *)
(* is a server as RFC 5321 describes one.                                   *)
(***************************************************************************)
EXTENDS Integers, Sequences, FiniteSets, SequencesExt

CONSTANTS
  SmtpWorlds,   \* the uses: [calls, lines, cuts, late, refuses, hangs]
  SmtpCalls,    \* bound on the calls
  Mails         \* what is sent
ASSUME SmtpAssumption ==
  /\ Mails \subseteq Nat /\ SmtpCalls \in Nat
  /\ \A w \in SmtpWorlds : w.lines \in Nat \ {0}

VARIABLES
  smtpWorld,    \* calls: those the user makes; lines: of the answer to EHLO; cuts: a line may
                \* come in two pieces; late: an answer may come after the timeout; refuses:
                \* a command may be refused; hangs: the connection may break
  smtp,         \* the client: where it is in which call, what is left of its script, what
                \* was received of a reply, LastErrorSMTP, the result of the last call
  relay         \* the connection and the server: what is on its way to it and from it, its
                \* mode, the mail it is being given, the mails it has accepted
smtpVars == <<smtpWorld, smtp, relay>>

NoMail == [from |-> 0, to |-> 0, text |-> << >>]
NewRelay(accepted) ==
  [up |-> TRUE, wire |-> << >>, mode |-> "command", mail |-> NoMail,
   out |-> << [code |-> 220, nl |-> TRUE] >>, inbox |-> << >>, accepted |-> accepted]
SmtpInitIn(worlds) ==
  /\ smtpWorld \in worlds
  /\ smtp = [pc |-> "idle", op |-> "none", m |-> 0, script |-> << >>, buf |-> << >>,
             sock |-> FALSE, error |-> "none", res |-> FALSE, late |-> 0, left |-> SmtpCalls]
  /\ relay = [NewRelay(<< >>) EXCEPT !.up = FALSE, !.out = << >>]
SmtpInit == SmtpInitIn(SmtpWorlds)

-----------------------------------------------------------------------------
\* The scripts of the calls: what is sent, and the code that is waited for.

SmtpCommand(c, m, code) == << [say |-> << <<c, m>> >>, want |-> code] >>
ConnectClient == << [say |-> << >>, want |-> 220] >>
SMTPLogin == SmtpCommand("HELO", 0, 250)
ESMTPAuthLogin ==
  SmtpCommand("AUTH", 0, 334) \o SmtpCommand("user", 0, 334) \o SmtpCommand("password", 0, 235)
SMTPRSet == SmtpCommand("RSET", 0, 250)
SMTPMailFrom(m) == SmtpCommand("MAIL", m, 250)
SMTPRcptTo(m) == SmtpCommand("RCPT", m, 250)

\* Mutant of MailText: the text is sent without waiting for the leave to.
MailTextEager(parts) ==
  << [say |-> << <<"DATA", 0>> >> \o parts \o << <<".", 0>> >>, want |-> 354] >>
MailText(parts) ==
  SmtpCommand("DATA", 0, 354) \o << [say |-> parts \o << <<".", 0>> >>, want |-> 250] >>

SmtpScript(op, m) ==
  CASE op = "ConnectClient" -> ConnectClient
    [] op = "ConnectEClient" -> ConnectClient \o SMTPLogin \o ESMTPAuthLogin
    [] op = "SMTPLogin" -> SMTPLogin
    [] op = "ESMTPLogin" -> SmtpCommand("EHLO", 0, 250)
    [] op = "ESMTPAuthLogin" -> ESMTPAuthLogin
    [] op = "SMTPLogout" -> SmtpCommand("QUIT", 0, 221)
    [] op = "SMTPRSet" -> SMTPRSet
    [] op = "SMTPMailFrom" -> SMTPMailFrom(m)
    [] op = "SMTPRcptTo" -> SMTPRcptTo(m)
    [] op = "SMTPData" -> MailText(<< <<"body", m>> >>)
    [] op = "SMTPSendMessage" ->
         SMTPRSet \o SMTPMailFrom(m) \o SMTPRcptTo(m) \o
           MailText(<< <<"header", m>>, <<"body", m>> >>)

-----------------------------------------------------------------------------
\* The client.

SmtpAt(pc) == smtp.pc = pc
\* The first error stays until the next connection.
SmtpError(e) == IF smtp.error = "none" THEN e ELSE smtp.error
SmtpDone(c, res) ==
  smtp' = [c EXCEPT !.pc = "idle", !.script = << >>, !.buf = << >>, !.res = res,
                    !.sock = @ /\ smtp.op # "SMTPLogout"]
SmtpFails(e) == SmtpDone([smtp EXCEPT !.error = SmtpError(e)], FALSE)

\* The lines that answer an item.
AnswerLines(item) == IF item[1] = "EHLO" THEN smtpWorld.lines ELSE 1
\* The replies that are still to be read.
StillToRead ==
  Len(relay.inbox) + Len(relay.out) + Len(relay.wire)
    + (smtpWorld.lines - 1)
        * Cardinality({i \in DOMAIN relay.wire : relay.wire[i][1] = "EHLO"})

\* Create closes the old socket; Connect_s succeeds or not.
CallConnect(op) ==
  /\ SmtpAt("idle") /\ smtp.left > 0 /\ op \in smtpWorld.calls
  /\ LET c == [smtp EXCEPT !.op = op, !.error = "none", !.left = @ - 1, !.late = 0]
     IN  \/ /\ smtp' = [c EXCEPT !.pc = "say", !.script = SmtpScript(op, 0), !.sock = TRUE]
            /\ relay' = NewRelay(relay.accepted)
         \/ /\ smtpWorld.hangs
            /\ smtp' = [c EXCEPT !.sock = FALSE, !.res = FALSE, !.error = "CONN"]
            /\ relay' = [relay EXCEPT !.up = FALSE, !.wire = << >>, !.out = << >>]
  /\ UNCHANGED smtpWorld

CallSmtp(op, m) ==
  /\ SmtpAt("idle") /\ smtp.left > 0 /\ op \in smtpWorld.calls
  /\ smtp' = [smtp EXCEPT !.pc = "say", !.op = op, !.m = m, !.script = SmtpScript(op, m),
                          !.left = @ - 1, !.late = StillToRead]
  /\ UNCHANGED <<smtpWorld, relay>>

\* The next Send of the call; on a closed or broken connection it fails, and closes.
SmtpSay ==
  /\ SmtpAt("say") /\ Head(smtp.script).say # << >>
  /\ IF smtp.sock /\ relay.up
     THEN /\ relay' = [relay EXCEPT !.wire = Append(@, Head(Head(smtp.script).say))]
          /\ smtp' = [smtp EXCEPT !.script[1].say = Tail(@)]
     ELSE SmtpDone([smtp EXCEPT !.sock = FALSE], FALSE) /\ UNCHANGED relay
  /\ UNCHANGED smtpWorld
SmtpListens ==
  /\ SmtpAt("say") /\ Head(smtp.script).say = << >>
  /\ smtp' = [smtp EXCEPT !.pc = "hear"]
  /\ UNCHANGED <<smtpWorld, relay>>

\* Mutant of RightCode: any reply that is not a refusal will do.
RightCodeLoose(buf) == Head(buf).code < 400
\* strncmp(response, buf, 3)
RightCode(buf) == Head(buf).code = Head(smtp.script).want

\* RecvAny takes all that has arrived; the reply is complete when it ends with a line end.
SmtpHears ==
  /\ SmtpAt("hear") /\ relay.inbox # << >>
  /\ LET buf == smtp.buf \o relay.inbox
     IN  IF ~Last(buf).nl THEN smtp' = [smtp EXCEPT !.buf = buf]
         ELSE IF ~RightCode(buf) THEN SmtpFails("SMTP")
         ELSE IF Len(smtp.script) = 1 THEN SmtpDone(smtp, TRUE)
         ELSE smtp' = [smtp EXCEPT !.pc = "say", !.script = Tail(@), !.buf = << >>]
  /\ relay' = [relay EXCEPT !.inbox = << >>]
  /\ UNCHANGED smtpWorld

\* WaitForRecieveData: nothing comes, or comes late.
SmtpTimesOut ==
  /\ SmtpAt("hear") /\ relay.inbox = << >> /\ relay.up
  /\ smtpWorld.late \/ (relay.wire = << >> /\ relay.out = << >>)
  /\ SmtpFails("REQ_TIMEOUT")
  /\ UNCHANGED <<smtpWorld, relay>>

\* RecvAny returns 0 for a connection that was closed, and less for one that broke.
SmtpHearsEnd ==
  /\ SmtpAt("hear") /\ relay.inbox = << >> /\ ~relay.up
  /\ \/ SmtpFails("DISCONNECTED")
     \/ SmtpDone([smtp EXCEPT !.sock = FALSE, !.error = SmtpError("RECEIVE")], FALSE)
  /\ UNCHANGED <<smtpWorld, relay>>

-----------------------------------------------------------------------------
\* The server.

\* The mode it is in after an item, the mail then, and its answer.
TakenAs(mode, mail, code) == [mode |-> mode, mail |-> mail, code |-> code]
Take(item) ==
  LET c == item[1]
      mail == relay.mail
      command(new, code) == TakenAs("command", new, code)
  IN  IF relay.mode = "user" THEN TakenAs("password", mail, 334)
      ELSE IF relay.mode = "password" THEN command(mail, 235)
      ELSE CASE c \in {"HELO", "EHLO", "RSET"} -> command(NoMail, 250)
             [] c = "AUTH" -> TakenAs("user", mail, 334)
             [] c = "MAIL" /\ mail.from = 0 -> command([mail EXCEPT !.from = item[2]], 250)
             [] c = "RCPT" /\ mail.from # 0 -> command([mail EXCEPT !.to = item[2]], 250)
             [] c = "DATA" /\ mail.to # 0 -> TakenAs("text", mail, 354)
             [] c = "QUIT" -> TakenAs("quit", mail, 221)
             [] OTHER -> command(mail, 503)

Line(code, nl) == [code |-> code, nl |-> nl]
\* The answer to an item, line by line, or its only line in two pieces.
Answers(item, code) ==
  {[i \in 1 .. AnswerLines(item) |-> Line(code, TRUE)]}
    \cup (IF smtpWorld.cuts THEN {<<Line(code, FALSE), Line(0, TRUE)>>} ELSE {})
RelayAnswers(item, t) ==
  \E out \in Answers(item, t.code) :
    relay' = [relay EXCEPT !.wire = Tail(@), !.out = out, !.mode = t.mode, !.mail = t.mail]

RelayReady == relay.up /\ relay.wire # << >> /\ relay.out = << >>
RelayCommand ==
  /\ RelayReady /\ relay.mode \notin {"text", "quit"}
  /\ LET item == Head(relay.wire)
     IN  \/ RelayAnswers(item, Take(item))
         \/ smtpWorld.refuses /\ RelayAnswers(item, TakenAs("command", relay.mail, 550))
  /\ UNCHANGED <<smtpWorld, smtp>>

\* Whatever comes is text, until the line with the dot.
RelayText ==
  /\ RelayReady /\ relay.mode = "text"
  /\ LET item == Head(relay.wire)
     IN  IF item[1] # "."
         THEN relay' = [relay EXCEPT !.wire = Tail(@), !.mail.text = Append(@, item)]
         ELSE \/ \E out \in Answers(item, 250) :
                   relay' = [relay EXCEPT !.wire = Tail(@), !.out = out, !.mode = "command",
                                          !.accepted = Append(@, relay.mail), !.mail = NoMail]
              \/ smtpWorld.refuses /\ RelayAnswers(item, TakenAs("command", NoMail, 554))
  /\ UNCHANGED <<smtpWorld, smtp>>

RelaySays ==
  /\ relay.up /\ relay.out # << >>
  /\ relay' = [relay EXCEPT !.inbox = Append(@, Head(relay.out)), !.out = Tail(@)]
  /\ UNCHANGED <<smtpWorld, smtp>>

RelayHangsUp ==
  /\ relay.up
  /\ smtpWorld.hangs \/ (relay.mode = "quit" /\ relay.out = << >>) \/ ~smtp.sock
  /\ relay' = [relay EXCEPT !.up = FALSE, !.wire = << >>, !.out = << >>]
  /\ UNCHANGED <<smtpWorld, smtp>>

-----------------------------------------------------------------------------
SmtpConnects == \E op \in {"ConnectClient", "ConnectEClient"} : CallConnect(op)
SmtpLogs ==
  \E op \in {"SMTPLogin", "ESMTPLogin", "ESMTPAuthLogin", "SMTPLogout", "SMTPRSet"} :
    CallSmtp(op, 0)
SmtpSends ==
  \E op \in {"SMTPMailFrom", "SMTPRcptTo", "SMTPData", "SMTPSendMessage"}, m \in Mails :
    CallSmtp(op, m)
SmtpClient == SmtpSay \/ SmtpListens \/ SmtpHears \/ SmtpTimesOut \/ SmtpHearsEnd
SmtpServer == RelayCommand \/ RelayText \/ RelaySays
SmtpNext == SmtpConnects \/ SmtpLogs \/ SmtpSends \/ SmtpClient \/ SmtpServer \/ RelayHangsUp

\* The client runs on, time passes, and a server that is connected answers.
SmtpFairness == WF_smtpVars(SmtpClient) /\ WF_smtpVars(SmtpServer)
=============================================================================
