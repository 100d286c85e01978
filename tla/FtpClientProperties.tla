------------------------- MODULE FtpClientProperties -------------------------
\* What c_ftp_client promises its user.
EXTENDS FtpClient, SequencesExt

Socket == [as : {"closed", "listening", "connected"}, port : Ports \cup {NoPort}]
Block == Files \X (1 .. Blocks)

\* Types and ranges: no connection carries more than a file, and the server has no more
\* than one command and one reply to come in hand.
TypeOK ==
  /\ control \in {"closed", "open", "hungup"} /\ cntrl_error \in BOOLEAN
  /\ passive_mode \in BOOLEAN /\ DataPortListening \in BOOLEAN
  /\ port_buf \in Ports \cup {NoPort} /\ bind_sock \in Socket
  /\ accept_sock \in Ports \cup {NoPort}
  /\ failed \in BOOLEAN /\ heard \in BOOLEAN
  /\ got \in Seq(Block) /\ wrote \in 0 .. Blocks + Cache - 1
  /\ Len(requests) <= 1 /\ Len(replies) <= 2
  /\ \A p \in Ports : data[p] \in Seq(Block) /\ Len(data[p]) <= Blocks
  /\ remote \in [Ports -> {"closed", "listening", "reached", "connected", "done"}]
  /\ disk \in [Files -> Seq(Block)]

\* When a command is sent, all that the client has not read of the replies to the commands
\* before it is the 226 that ends its last transfer and that it never waits for.
InStep ==
  At("send") /\ control = "open" =>
    /\ requests = << >>
    /\ Len(replies) + (IF task = NoTask THEN 0 ELSE 1) <= 1
    /\ \A i \in 1 .. Len(replies) : replies[i].code = 226

\* What RecvResponse takes for the answer to a command, good or bad, answers that command.
\* It looks for the code in the text of what it has received as well, so this needs worlds
\* in which no text holds another command's code, or no earlier reply is left to be searched.
AnswersOwnCommand == heard

\* No reply is taken for the answer to a command it does not answer, because none is left
\* behind but that 226.
RepliesMatched == InStep /\ AnswersOwnCommand

\* PORT names a port the client listens on.
PortIsOpen ==
  At("send") /\ Command = "PORT" => bind_sock = [as |-> "listening", port |-> port_buf]

\* A download that reports success has received all of the file it asked for, and nothing
\* else, although the final reply is never read: as long as servers complete what they
\* begin.
DownloadWhole ==
  world.completes /\ call.op = "download" /\ agenda = << >> /\ ~failed => got = Whole(call.file)

\* After an upload that reported success the server ends up with all of the file, although
\* the final reply is never read: as long as servers complete what they begin.
UploadWhole ==
  /\ world.completes /\ task = NoTask /\ control = "open"
  /\ call.op = "upload" /\ agenda = << >> /\ ~failed
  => disk[call.file] = Whole(call.file)

\* An upload that failed leaves the server with the beginning of the file: the loop that
\* goes on after a failed Send makes no hole.
UploadHasNoHole ==
  \A f \in Files : IsPrefix(disk[f], Whole(f))

\* Transfers that report success are whole, and those that fail leave no hole.
TransfersWhole == DownloadWhole /\ UploadWhole /\ UploadHasNoHole

\* Every call returns, except one that waits in accept() for a server that has given up.
CallsReturn ==
  agenda # << >> ~> agenda = << >> \/ (At("accept") /\ ~world.completes)

------------------------------------------------------------------------------
\* The networks, servers and users of c_ftp_client that TLC explores.
World(patient, completes, checks, rearms, renews, overlapped, plain) ==
  [patient |-> patient, completes |-> completes, checks |-> checks, rearms |-> rearms,
   renews |-> renews, overlapped |-> overlapped, plain |-> plain]

\* Worlds every promise is kept in: FTPActiveSet is called before every active transfer;
\* replies come in time, or the user closes the connection after a timeout; transfers run
\* to their end; no reply has the code of another in its text.  In the last one transfers may
\* break off and replies say what they like, and each transfer has its own connection.
SoundWorlds ==
  {World(TRUE, TRUE, FALSE, TRUE, FALSE, FALSE, TRUE),
   World(FALSE, TRUE, TRUE, TRUE, FALSE, FALSE, TRUE),
   World(TRUE, FALSE, FALSE, FALSE, TRUE, TRUE, FALSE)}

\* The server may break off a transfer.
BreakingWorlds == {World(TRUE, FALSE, FALSE, TRUE, FALSE, FALSE, TRUE)}
==============================================================================
