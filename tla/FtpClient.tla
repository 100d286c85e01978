------------------------------ MODULE FtpClient ------------------------------
(***************************************************************************)
(* c_ftp_client (IP/c_ftp_client.cpp) over a control connection and data    *)
(* connections, and a server as RFC 959 has it.  The client is one thread:  *)
(* what its call has still to do is its agenda, and a step that fails       *)
(* leaves of the agenda only what the code still does then.                 *)
(*                                                                          *)
(* SendCommand does not wait for the one reply to its command: it takes     *)
(* replies off the connection, whichever command they answer, until one has *)
(* the code it looks for.  A reply is fresh while its command is the last   *)
(* one sent; the code cannot see that.  A reply is its code, and a text     *)
(* that may hold the code looked for: the code searches for it anywhere in  *)
(* what it has received.  Replies come whole.  Those of several lines are   *)
(* left out, and so are FTPList's own buffer (a listing is retrieved like a *)
(* file), the wrappers that open local files and LastErrorFTP, which no     *)
(* code reads.                                                              *)
(***************************************************************************)
EXTENDS Naturals, Sequences, FiniteSets

CONSTANTS
  Files,        \* files to store and retrieve
  Blocks,       \* the blocks of a file, each moved by one Send or RecvAny
  Cache,        \* the blocks that fit into FileIODataCache
  Ports, NoPort,
  Simple,       \* the commands sent by calls that send just one
  Worlds,       \* the networks, servers and users explored, see world
  MaxRequests   \* bound: requests on their way to the server

ASSUME FtpAssumption ==
  /\ Blocks \in Nat \ {0} /\ Cache \in Nat \ {0} /\ MaxRequests \in Nat \ {0}
  /\ NoPort \notin Ports
  /\ Worlds \subseteq
       [patient : BOOLEAN,    \* a reply that is coming comes before time_out_ms
        completes : BOOLEAN,  \* a transfer that was begun runs to its end
        checks : BOOLEAN,     \* after a failure the user calls CheckError(true)
        rearms : BOOLEAN,     \* FTPActiveSet is called before every active transfer
        renews : BOOLEAN,     \* a connection is given up after its first transfer
        overlapped : BOOLEAN, \* the sockets are c_sock_over
        plain : BOOLEAN]      \* the text of no reply holds a code the client looks for

VARIABLES
  world,
  \* the client
  control,            \* cntrl_sock: "closed", "open", or "hungup" by the server
  cntrl_error,        \* cntrl_sock has an error
  passive_mode, DataPortListening,
  port_buf,           \* the port that the PORT command names
  bind_sock,          \* conn_bind_sock, which listens or is connected
  accept_sock,        \* the port whose connection accept_sock is
  reply_buf,          \* the replies of this RecvResponse
  agenda, call,
  failed,             \* the call has failed, and the user has not dealt with it
  heard,              \* the reply that decided the last RecvResponse was fresh
  got,                \* the blocks this call has received
  wrote,              \* how many blocks this call is past
  \* the connections
  requests, replies,
  data,               \* the blocks on their way, by port
  \* the server
  remote,             \* the server's end of the data connection, by port
  spas, sport,        \* the port it listens on, the port it was told
  task,               \* the transfer it is doing
  disk                \* what it has stored

session == <<control, cntrl_error>>
datasock == <<DataPortListening, port_buf, bind_sock, accept_sock>>
progress == <<got, wrote>>
user == <<call, failed>>
channel == <<requests, replies>>
server == <<remote, spas, sport, task, disk>>
vars == <<world, session, passive_mode, datasock, reply_buf, agenda, user, heard,
          progress, channel, data, server>>

\* The code that each command is answered with, and that the client looks for.
Expected ==
  [CONNECT |-> 220, USER |-> 331, PASS |-> 230, QUIT |-> 221, TYPE |-> 200, CWD |-> 250,
   PWD |-> 257, STAT |-> 211, MKD |-> 257, RMD |-> 250, SIZE |-> 213, DELE |-> 250,
   RNFR |-> 350, RNTO |-> 250, PASV |-> 227, PORT |-> 200, RETR |-> 150, STOR |-> 150]

ASSUME SimpleAssumption ==
  Simple \subseteq {"QUIT", "TYPE", "CWD", "PWD", "STAT", "MKD", "RMD", "SIZE", "DELE"}

Closed == [as |-> "closed", port |-> NoPort]
NoTask == [kind |-> "none"]
Whole(f) == [i \in 1 .. Blocks |-> <<f, i>>]
Prefix(f, n) == [i \in 1 .. n |-> <<f, i>>]

Init ==
  /\ world \in Worlds
  /\ control = "closed" /\ cntrl_error = FALSE
  /\ passive_mode = FALSE /\ DataPortListening = FALSE /\ port_buf = NoPort
  /\ bind_sock = Closed /\ accept_sock = NoPort /\ reply_buf = << >>
  /\ agenda = << >> /\ call = [op |-> "none", file |-> "none"]
  /\ failed = FALSE /\ heard = TRUE /\ got = << >> /\ wrote = 0
  /\ requests = << >> /\ replies = << >> /\ data = [p \in Ports |-> << >>]
  /\ remote = [p \in Ports |-> "closed"] /\ spas = NoPort /\ sport = NoPort
  /\ task = NoTask /\ disk = [f \in Files |-> << >>]

\* A port that nobody uses and no reply names.
NewPort ==
  CHOOSE p \in Ports :
    /\ remote[p] \in {"closed", "done"}
    /\ p \notin {bind_sock.port, accept_sock, port_buf, spas, sport}
    /\ \A i \in 1 .. Len(replies) : replies[i].port # p
    /\ task # NoTask => task.port # p

Stale(s) == [i \in 1 .. Len(s) |-> [s[i] EXCEPT !.fresh = FALSE]]

------------------------------------------------------------------------------
\* The bodies of the calls.

SendCommand(cmd) == << <<"send", cmd>>, <<"recv", cmd>> >>
CloseDataPort == << <<"close", "">> >>

OpenDataPort ==
  CloseDataPort \o
  IF passive_mode THEN SendCommand("PASV") \o << <<"connect", "PASV">> >>
  ELSE (IF DataPortListening THEN << >> ELSE << <<"listen", "PORT">> >>) \o SendCommand("PORT")

\* Mutant of Transfer: it waits for the server before it asks for the file.
TransferEager(cmd, move) ==
  OpenDataPort \o (IF passive_mode THEN << >> ELSE << <<"accept", cmd>> >>)
    \o SendCommand(cmd) \o << <<move, "">> >> \o CloseDataPort
\* FTPList, DownloadFile, UploadFile
Transfer(cmd, move) ==
  OpenDataPort \o SendCommand(cmd) \o (IF passive_mode THEN << >> ELSE << <<"accept", cmd>> >>)
    \o << <<move, "">> >> \o CloseDataPort

\* Mutant of FTPMove: both commands are sent before a reply is read.
FTPMoveEager == << <<"send", "RNFR">> >> \o SendCommand("RNTO") \o << <<"recv", "RNFR">> >>
FTPMove == SendCommand("RNFR") \o SendCommand("RNTO")
FTPLogin == SendCommand("USER") \o SendCommand("PASS")
ConnectHost == << <<"dial", "">>, <<"recv", "CONNECT">> >>
ConnectLoginDir(cd) == ConnectHost \o FTPLogin \o IF cd THEN SendCommand("CWD") ELSE << >>

At(step) == agenda # << >> /\ Head(agenda)[1] = step
Command == Head(agenda)[2]
Done == agenda' = Tail(agenda) /\ UNCHANGED user

\* The call fails here: all that is left is CloseDataPort, if the code calls it on this
\* path, and that is from RETR and STOR on.
Fail ==
  /\ failed' = TRUE /\ UNCHANGED call
  /\ agenda' = IF /\ Command \notin {"PASV", "PORT"}
                  /\ \E i \in 2 .. Len(agenda) : agenda[i][1] = "close"
               THEN CloseDataPort ELSE << >>

------------------------------------------------------------------------------
\* The user calls.

Call(op, f, body) ==
  /\ agenda = << >> /\ (world.checks => ~failed)
  /\ agenda' = body /\ call' = [op |-> op, file |-> f] /\ failed' = FALSE
  /\ got' = << >> /\ wrote' = 0
  /\ UNCHANGED <<world, session, passive_mode, datasock, reply_buf, heard, channel, data, server>>

\* What users do.
MayGoOn == world.renews => call.op \notin {"download", "upload"}
Armed == world.rearms => passive_mode \/ ~DataPortListening

CallConnect ==
  \/ Call("connect", "none", ConnectHost)
  \/ \E cd \in BOOLEAN : Call("connect", "none", ConnectLoginDir(cd))
CallSimple == MayGoOn /\ \E cmd \in Simple : Call(cmd, "none", SendCommand(cmd))
CallMove == MayGoOn /\ Call("move", "none", FTPMove)
CallDownload ==
  MayGoOn /\ Armed /\ \E f \in Files : Call("download", f, Transfer("RETR", "read"))
CallUpload ==
  MayGoOn /\ Armed /\ \E f \in Files : Call("upload", f, Transfer("STOR", "write"))

\* data_sock->Close(): both sockets.
CloseDataSock == bind_sock' = Closed /\ accept_sock' = NoPort

FTPModeSet(passive) ==
  /\ agenda = << >> /\ passive_mode' = passive /\ DataPortListening' = FALSE
  /\ CloseDataSock
  /\ UNCHANGED <<world, session, port_buf, reply_buf, agenda, user, heard, progress, channel,
                 data, server>>

\* What the server has of this session goes with the control connection.
\* Mutant of EndSession: it leaves DataPortListening.
EndSessionKeeps ==
  /\ CloseDataSock /\ UNCHANGED DataPortListening
  /\ requests' = << >>
  /\ data' = [p \in Ports |-> << >>] /\ remote' = [p \in Ports |-> "closed"]
  /\ spas' = NoPort /\ sport' = NoPort /\ task' = NoTask
EndSession ==
  /\ DataPortListening' = FALSE /\ CloseDataSock
  /\ requests' = << >>
  /\ data' = [p \in Ports |-> << >>] /\ remote' = [p \in Ports |-> "closed"]
  /\ spas' = NoPort /\ sport' = NoPort /\ task' = NoTask

Close ==
  /\ control' = "closed" /\ replies' = << >> /\ EndSession
  /\ UNCHANGED <<cntrl_error, port_buf, disk>>

CallClose ==
  /\ agenda = << >> /\ control # "closed" /\ Close
  /\ failed' = FALSE /\ call' = [op |-> "close", file |-> "none"]
  /\ UNCHANGED <<world, passive_mode, reply_buf, agenda, heard, progress>>

\* Mutant of CheckError: it only reports.
CheckErrorReports ==
  /\ world.checks /\ agenda = << >> /\ failed /\ failed' = FALSE
  /\ call' = [op |-> "check", file |-> "none"]
  /\ UNCHANGED <<world, session, passive_mode, datasock, reply_buf, agenda, heard, progress,
                 channel, data, server>>
\* CheckError(true)
CheckError ==
  /\ world.checks /\ agenda = << >> /\ failed /\ failed' = FALSE
  /\ call' = [op |-> "check", file |-> "none"]
  /\ \/ cntrl_error /\ Close
     \/ ~cntrl_error /\ UNCHANGED <<session, datasock, channel, data, server>>
  /\ UNCHANGED <<world, passive_mode, reply_buf, agenda, heard, progress>>

------------------------------------------------------------------------------
\* The control connection.

\* ConnectHost up to Connect_s; the server greets or refuses the user.
Dial ==
  /\ At("dial") /\ EndSession /\ reply_buf' = << >> /\ cntrl_error' = FALSE
  /\ \/ /\ control' = "open" /\ Done
        /\ replies' = << [code |-> 220, fresh |-> TRUE, port |-> NoPort] >>
     \/ /\ control' = "hungup" /\ Done
        /\ replies' = << [code |-> 421, fresh |-> TRUE, port |-> NoPort] >>
     \/ /\ control' = "closed" /\ replies' = << >> /\ failed' = TRUE
        /\ agenda' = << >> /\ UNCHANGED call
  /\ UNCHANGED <<world, passive_mode, port_buf, heard, progress, disk>>

\* Send fails on a closed socket; c_sock_over::Send says 0 then for a failure of its own,
\* which is no failure to SendCommand.
Send ==
  /\ At("send") /\ reply_buf' = << >>
  /\ \/ /\ control = "open" /\ Len(requests) < MaxRequests /\ Done
        /\ requests' = Append(Stale(requests),
             [cmd |-> Command, fresh |-> TRUE, port |-> port_buf, file |-> call.file])
        /\ replies' = Stale(replies)
        /\ task' = IF task = NoTask THEN task ELSE [task EXCEPT !.fresh = FALSE]
        /\ UNCHANGED session
     \/ control = "hungup" /\ Done /\ UNCHANGED <<session, channel, task>>
     \/ control = "closed" /\ Fail /\ cntrl_error' = TRUE /\ UNCHANGED <<control, channel, task>>
  /\ UNCHANGED <<world, passive_mode, datasock, heard, progress, data, remote, spas, sport, disk>>

\* RecvResponse has read some of the replies that are there.  Once it has decided, only
\* PASV needs them.  told is the reply whose text holds the code that is awaited: it is one
\* of those just read, as it would have been found before; 0 is none.
Told(buf) == {0} \cup IF world.plain THEN {} ELSE Len(reply_buf) + 1 .. Len(buf)
\* Mutant of Judge: a reply below 400 will do.
JudgeLenient(buf, want, told) == IF buf[1].code >= 400 THEN "refused" ELSE "accepted"
Judge(buf, want, told) ==
  CASE buf[1].code >= 400 \/ buf[1].code \in {110, 120, 202, 332} -> "refused"
    [] buf[1].code \in {125, 225} -> "accepted"
    [] OTHER -> IF told # 0 \/ \E i \in 1 .. Len(buf) : buf[i].code = want
                THEN "accepted" ELSE "more"

\* The reply that Judge went by.
Decisive(buf, want, told) ==
  LET hits == {i \in 1 .. Len(buf) : buf[i].code = want \/ i = told}
  IN IF buf[1].code >= 400 \/ buf[1].code \in {110, 120, 125, 202, 225, 332} \/ hits = {}
     THEN buf[1] ELSE buf[CHOOSE i \in hits : \A j \in hits : i <= j]

Received(n, told) ==
  LET buf == reply_buf \o SubSeq(replies, 1, n)
      want == Expected[Command]
  IN /\ told \in Told(buf)
     /\ reply_buf' = IF Judge(buf, want, told) = "more" \/ Command = "PASV" THEN buf ELSE << >>
     /\ replies' = SubSeq(replies, n + 1, Len(replies))
     /\ \/ Judge(buf, want, told) = "accepted" /\ Done
        \/ Judge(buf, want, told) = "refused" /\ Fail
        \/ Judge(buf, want, told) = "more" /\ UNCHANGED <<agenda, user>>
     /\ heard' = (Judge(buf, want, told) = "more" \/ Decisive(buf, want, told).fresh)
RecvResponse ==
  /\ At("recv")
  /\ \E n \in 1 .. Len(replies), told \in 0 .. Len(reply_buf) + Len(replies) : Received(n, told)
  /\ UNCHANGED <<world, session, passive_mode, datasock, progress, requests, data, server>>

Quiet == replies = << >> /\ requests = << >> /\ task = NoTask

\* WaitForRecieveData times out.
TimeOut ==
  /\ At("recv") /\ control = "open"
  /\ world.patient => Quiet
  /\ cntrl_error' = TRUE /\ reply_buf' = << >> /\ Fail
  /\ UNCHANGED <<world, control, passive_mode, datasock, heard, progress, channel,
                 data, server>>

\* RecvAny returns 0.
Disconnected ==
  /\ At("recv") /\ control = "hungup" /\ replies = << >>
  /\ cntrl_error' = TRUE /\ reply_buf' = << >> /\ Fail
  /\ UNCHANGED <<world, control, passive_mode, datasock, heard, progress, channel,
                 data, server>>

------------------------------------------------------------------------------
\* The data connection.

\* After PASV: drop a leading 226, look for the port, connect.
PasvPort ==
  LET buf == IF reply_buf[1].code = 226 THEN Tail(reply_buf) ELSE reply_buf
  IN IF buf # << >> /\ buf[1].code = 227 THEN buf[1].port ELSE NoPort

Connect ==
  /\ At("connect")
  /\ \/ /\ PasvPort # NoPort /\ remote[PasvPort] = "listening"
        /\ remote' = [remote EXCEPT ![PasvPort] = "reached"]
        /\ bind_sock' = [as |-> "connected", port |-> PasvPort] /\ Done
     \/ Fail /\ UNCHANGED <<bind_sock, remote>>
  /\ reply_buf' = << >>
  /\ UNCHANGED <<world, session, passive_mode, DataPortListening, port_buf, accept_sock,
                 heard, progress, channel, data, spas, sport, task, disk>>

\* Create, Bind_s and Listen_s may fail; so may GetHostInformation, with the socket open.
Listen ==
  /\ At("listen")
  /\ \/ /\ bind_sock' = [as |-> "listening", port |-> NewPort]
        /\ port_buf' = NewPort /\ DataPortListening' = TRUE
        /\ data' = [data EXCEPT ![NewPort] = << >>]
        /\ remote' = [remote EXCEPT ![NewPort] = "closed"]
        /\ Done
     \/ /\ bind_sock' \in {Closed, [as |-> "listening", port |-> NewPort]} /\ Fail
        /\ UNCHANGED <<DataPortListening, port_buf, data, remote>>
  /\ UNCHANGED <<world, session, passive_mode, accept_sock, reply_buf, heard, progress, channel,
                 spas, sport, task, disk>>

\* accept() on a listening socket waits for the server, however long.
Accept ==
  /\ At("accept")
  /\ bind_sock.as = "listening" /\ remote[bind_sock.port] \in {"connected", "done"}
  /\ accept_sock' = bind_sock.port /\ Done
  /\ UNCHANGED <<world, session, passive_mode, DataPortListening, port_buf, bind_sock,
                 reply_buf, heard, progress, channel, data, server>>

\* It fails at once on a closed socket, and for reasons of the system.
AcceptFails ==
  /\ At("accept") /\ (bind_sock.as = "closed" \/ ~world.completes) /\ Fail
  /\ UNCHANGED <<world, session, passive_mode, datasock, reply_buf, heard, progress, channel,
                 data, server>>

DataEnd == IF passive_mode THEN bind_sock.port ELSE accept_sock

\* The socket of the data connection closes itself when it fails.
\* Mutant of DropDataEnd: it stays open.
DropDataEndNot == UNCHANGED <<bind_sock, accept_sock>>
DropDataEnd ==
  IF passive_mode THEN bind_sock' = Closed /\ UNCHANGED accept_sock
                  ELSE accept_sock' = NoPort /\ UNCHANGED bind_sock

ReadBlock ==
  /\ At("read") /\ DataEnd # NoPort /\ data[DataEnd] # << >>
  /\ got' = Append(got, Head(data[DataEnd]))
  /\ data' = [data EXCEPT ![DataEnd] = Tail(@)]
  /\ UNCHANGED <<world, session, passive_mode, datasock, reply_buf, agenda, user, heard, wrote,
                 channel, server>>

\* Mutant of ReadEnd: no data for the moment is the end.
ReadEndEarly ==
  /\ At("read") /\ DataEnd # NoPort /\ data[DataEnd] = << >> /\ Done
  /\ UNCHANGED <<world, session, passive_mode, datasock, reply_buf, heard, progress, channel,
                 data, server>>
\* RecvAny returns 0: this is the end of the file.
ReadEnd ==
  /\ At("read") /\ DataEnd # NoPort /\ data[DataEnd] = << >>
  /\ remote[DataEnd] \in {"closed", "done"} /\ Done
  /\ UNCHANGED <<world, session, passive_mode, datasock, reply_buf, heard, progress, channel,
                 data, server>>

\* RecvAny or WriteFile fails, or FTPList's buffer is full.  A c_sock_over reports a
\* failed RecvAny as 0.
ReadFails ==
  /\ At("read") /\ ~world.completes
  /\ agenda' = Tail(agenda) /\ UNCHANGED call
  /\ failed' \in IF world.overlapped THEN BOOLEAN ELSE {TRUE}
  /\ UNCHANGED <<world, session, passive_mode, datasock, reply_buf, heard, progress, channel,
                 data, server>>

\* Whether the upload goes on past block n.
GoOn(n) == IF n < Blocks THEN UNCHANGED agenda ELSE agenda' = Tail(agenda)

\* Mutant of Step: it leaves a block out.
StepTooFar(n) == n + 2
Step(n) == n + 1

WriteBlock ==
  /\ At("write") /\ DataEnd # NoPort /\ remote[DataEnd] \in {"reached", "connected"}
  /\ data' = [data EXCEPT ![DataEnd] = Append(@, <<call.file, wrote + 1>>)]
  /\ wrote' = Step(wrote) /\ GoOn(wrote')
  /\ UNCHANGED <<world, session, passive_mode, datasock, reply_buf, user, heard, got, channel,
                 server>>

\* Send fails: the rest of FileIODataCache is left out, and the next part of the file is
\* read and sent.  c_sock_over::Send reports its own failure as 0, so the block counts as
\* sent.
WriteFails ==
  /\ At("write") /\ DropDataEnd
  /\ IF world.overlapped /\ DataEnd # NoPort
     THEN wrote' = Step(wrote) /\ UNCHANGED failed
     ELSE wrote' = (wrote \div Cache + 1) * Cache /\ failed' = TRUE
  /\ GoOn(wrote')
  /\ UNCHANGED <<world, session, passive_mode, DataPortListening, port_buf, reply_buf, call,
                 heard, got, channel, data, server>>

\* ReadFile fails, and the upload ends.
ReadFileFails ==
  /\ At("write") /\ ~world.completes
  /\ agenda' = Tail(agenda) /\ failed' = TRUE /\ UNCHANGED call
  /\ UNCHANGED <<world, session, passive_mode, datasock, reply_buf, heard, progress, channel,
                 data, server>>

CloseData ==
  /\ At("close") /\ CloseDataSock /\ Done
  /\ UNCHANGED <<world, session, passive_mode, DataPortListening, port_buf, reply_buf, heard,
                 progress, channel, data, server>>

------------------------------------------------------------------------------
\* The server: one command at a time, in the order they come.

client == <<world, cntrl_error, passive_mode, datasock, reply_buf, agenda, user, heard, progress>>

Answer(code, fresh, p) ==
  replies' = Append(replies, [code |-> code, fresh |-> fresh, port |-> p])

\* The server takes its next command.
Serving(cmds) ==
  /\ control = "open" /\ task = NoTask /\ requests # << >> /\ Head(requests).cmd \in cmds
  /\ requests' = Tail(requests)

ServeSimple ==
  /\ Serving(DOMAIN Expected \ {"QUIT", "PASV", "PORT", "RETR", "STOR"})
  /\ \E code \in {Expected[Head(requests).cmd], 550} : Answer(code, Head(requests).fresh, NoPort)
  /\ UNCHANGED <<client, control, data, server>>

ServeQuit ==
  /\ Serving({"QUIT"})
  /\ Answer(221, Head(requests).fresh, NoPort) /\ control' = "hungup"
  /\ UNCHANGED <<client, data, server>>

\* A new PASV ends the one before.
ServePasv ==
  /\ Serving({"PASV"})
  /\ \/ /\ Answer(227, Head(requests).fresh, NewPort)
        /\ spas' = NewPort /\ sport' = NoPort
        /\ remote' = [p \in Ports |-> IF p = NewPort THEN "listening"
                                      ELSE IF p = spas THEN "closed" ELSE remote[p]]
        /\ data' = [data EXCEPT ![NewPort] = << >>]
     \/ Answer(502, Head(requests).fresh, NoPort) /\ UNCHANGED <<spas, sport, remote, data>>
  /\ UNCHANGED <<client, control, task, disk>>

ServePort ==
  /\ Serving({"PORT"})
  /\ \/ /\ Answer(200, Head(requests).fresh, NoPort)
        /\ sport' = Head(requests).port /\ spas' = NoPort
        /\ remote' = [p \in Ports |-> IF p = spas THEN "closed" ELSE remote[p]]
     \/ Answer(501, Head(requests).fresh, NoPort) /\ UNCHANGED <<spas, sport, remote>>
  /\ UNCHANGED <<client, control, data, task, disk>>

\* Some servers answer 125 for 150.
ServeTransfer ==
  /\ Serving({"RETR", "STOR"})
  /\ \/ /\ {spas, sport} # {NoPort}
        /\ \E code \in {125, 150} : Answer(code, Head(requests).fresh, NoPort)
        /\ task' = [kind |-> Head(requests).cmd, file |-> Head(requests).file,
                    port |-> IF spas = NoPort THEN sport ELSE spas,
                    fresh |-> Head(requests).fresh, phase |-> "open", blocks |-> << >>]
     \/ Answer(550, Head(requests).fresh, NoPort) /\ UNCHANGED task
  /\ UNCHANGED <<client, control, data, remote, spas, sport, disk>>

Doing(kind, phase) ==
  /\ task # NoTask /\ task.kind \in kind /\ task.phase = phase

OpenData ==
  /\ Doing({"RETR", "STOR"}, "open")
  /\ \/ remote[task.port] = "reached"
     \/ sport # NoPort /\ bind_sock = [as |-> "listening", port |-> task.port]
  /\ task' = [task EXCEPT !.phase = "move"]
  /\ remote' = [remote EXCEPT ![task.port] = "connected"]
  /\ UNCHANGED <<client, control, channel, data, spas, sport, disk>>

MoveData ==
  /\ \/ /\ Doing({"RETR"}, "move") /\ Len(task.blocks) < Blocks
        /\ LET block == <<task.file, Len(task.blocks) + 1>>
           IN /\ data' = [data EXCEPT ![task.port] = Append(@, block)]
              /\ task' = [task EXCEPT !.blocks = Append(@, block)]
     \/ /\ Doing({"STOR"}, "move") /\ data[task.port] # << >>
        /\ data' = [data EXCEPT ![task.port] = Tail(@)]
        /\ task' = [task EXCEPT !.blocks = Append(@, Head(data[task.port]))]
  /\ UNCHANGED <<client, control, channel, remote, spas, sport, disk>>

\* The transfer ends, and its port with it.
EndTask(code) ==
  /\ Answer(code, task.fresh, NoPort)
  /\ remote' = [remote EXCEPT ![task.port] = "done"]
  /\ spas' = NoPort /\ sport' = NoPort /\ task' = NoTask
  /\ UNCHANGED <<client, control, requests, data>>

\* All is sent, or the client has closed its end.
FinishData ==
  /\ \/ /\ Doing({"RETR"}, "move") /\ Len(task.blocks) = Blocks /\ UNCHANGED disk
     \/ /\ Doing({"STOR"}, "move") /\ data[task.port] = << >>
        /\ task.port \notin {bind_sock.port, accept_sock}
        /\ disk' = [disk EXCEPT ![task.file] = task.blocks]
  /\ EndTask(226)

\* No connection, or one that broke.
AbortData ==
  /\ Doing({"RETR", "STOR"}, "open") \/ Doing({"RETR", "STOR"}, "move")
  /\ ~world.completes
  /\ \E code \in {425, 426} : EndTask(code)
  /\ UNCHANGED disk

------------------------------------------------------------------------------
UserNext == \/ CallConnect \/ CallSimple \/ CallMove \/ CallDownload \/ CallUpload
            \/ CallClose \/ CheckError \/ \E passive \in BOOLEAN : FTPModeSet(passive)
ClientNext == \/ Dial \/ Send \/ RecvResponse \/ TimeOut \/ Disconnected
              \/ Connect \/ Listen \/ Accept \/ ReadBlock \/ ReadEnd
              \/ WriteBlock \/ WriteFails \/ CloseData
ServerNext == \/ ServeSimple \/ ServeQuit \/ ServePasv \/ ServePort \/ ServeTransfer
              \/ OpenData \/ MoveData \/ FinishData \/ AbortData

\* What need not happen.
Mishap == AcceptFails \/ ReadFails \/ ReadFileFails

Next == UserNext \/ ClientNext \/ Mishap \/ ServerNext
Spec == Init /\ [][Next]_vars
\* The client's thread is scheduled, and the server goes on with what it was told.
LiveSpec ==
  /\ Spec /\ WF_vars(ServerNext)
  /\ WF_vars(ClientNext \/ (bind_sock.as = "closed" /\ AcceptFails))
==============================================================================
