-------------------------- MODULE DevicesProperties --------------------------
(***************************************************************************)
(* What the devices and the protocols promise.                              *)
(***************************************************************************)
EXTENDS AudioOut, AudioIn, Generator, WaveFile, Lusb, SerialPort, Flash, Smtp, Pop3, Ping,
  Sockets, SequencesExt

------------------------------------------------------------------------------
\* What c_audio_out promises to the thread that uses it.
OutPCs == {"idle", "stop", "drain", "flush", "flushing", "close", "open", "prepare", "write"}
Errors == {"none", "device", "overrun"}

\* Types and ranges.
OutTypeOK ==
  /\ out \in [hDevice : BOOLEAN, DeviceStopping : BOOLEAN, Paused : BOOLEAN,
              CurrAudioBufferWriteIndex : Headers, LastError : Errors]
  /\ outDone \in [0 .. NumHeaders -> BOOLEAN]
  /\ outData \in [0 .. NumHeaders -> Seq(0 .. MaxUnits - 1)]
  /\ speaker \in [open : 0 .. MaxHandles, paused : BOOLEAN, queue : Seq(0 .. NumHeaders),
                  notices : Nat, failed : BOOLEAN]
  /\ outCall \in [pc : OutPCs, op : {"none", "Start", "Stop", "WriteData"},
                  len : Nat, flag : BOOLEAN]
  /\ heard \in [played : Seq(0 .. MaxUnits - 1), dropped : SUBSET (0 .. MaxUnits - 1),
                next : 0 .. MaxUnits]

\* Units that go up, within a block and from one block to another.
Rising(s) == \A i, j \in DOMAIN s : i < j => s[i] < s[j]
Before(s, t) == \A i \in DOMAIN s, j \in DOMAIN t : s[i] < t[j]

\* The sound is what was written: the units that have been played and those that the
\* device still holds come in order and none twice, and every unit written before is
\* either played, still queued, or was thrown away by a reset.  So no buffer is filled
\* again while the device has it.
SoundInOrder ==
  LET q == speaker.queue
  IN /\ Rising(heard.played)
     /\ \A i \in DOMAIN q : Rising(outData[q[i]]) /\ Before(heard.played, outData[q[i]])
     /\ \A i, j \in DOMAIN q : i < j => Before(outData[q[i]], outData[q[j]])
     /\ Range(heard.played) \cup QueuedUnits(q) \cup heard.dropped = 0 .. heard.next - 1

\* Only a reset the user asked for (Reset, Stop(TRUE)) or a write that failed throws data
\* away: Stop(FALSE), and the Stop in Start, let everything play to the end.
StopKeepsSound ==
  [][heard'.dropped # heard.dropped =>
       OutAt("idle") \/ OutAt("close") \/ NotWaitBuffers \/ speaker'.failed]_outVars

\* A Start and a Stop leave the device as they promise: a handle is open exactly while the
\* object thinks so, unless the device had refused a header (Stop then does nothing).
HandleClosed ==
  OutAt("idle") /\ ~speaker.failed =>
    out.hDevice = ~out.DeviceStopping /\ speaker.open = IF out.hDevice THEN 1 ELSE 0

\* When the device has run dry while the object is working (it has been written to since
\* Start: the index has moved), the error says so.
DryReported ==
  /\ out.hDevice /\ ~out.DeviceStopping /\ speaker.queue = << >> /\ speaker.notices = 0
  /\ out.CurrAudioBufferWriteIndex # 0
  => out.LastError # "none"

\* A call can wait for ever only for a header that a paused device holds, and in
\* FlushAudioDevice for a header the device has refused.
OutWaits == \/ OutAt("drain") /\ speaker.paused
            \/ OutAt("write") /\ speaker.paused /\ ~outCall.flag
            \/ OutAt("flushing") /\ speaker.failed
OutSettled == OutAt("idle") \/ OutWaits
OutCallsReturn == []<>OutSettled

------------------------------------------------------------------------------
\* What c_audio_in promises to the thread that uses it.
\* Types and ranges.
InTypeOK ==
  /\ in \in [hDevice : BOOLEAN, DeviceStopping : BOOLEAN, Paused : BOOLEAN,
             CurrAudioBufferReadIndex : Headers,
             CurrAuioBufferRemainDataForRead : 0 .. BufferSize,
             LastError : {"none", "device", "overrun"}]
  /\ inDone \in [Headers -> BOOLEAN]
  /\ inData \in [Headers -> Seq(0 .. MaxUnits - 1)]
  /\ mic \in [open : 0 .. MaxHandles, paused : BOOLEAN, queue : Seq(Headers),
              notices : Nat, failed : BOOLEAN]
  /\ inCall \in [pc : {"idle", "stop", "drain", "open", "prepare", "queue", "read", "requeue"},
                 op : {"none", "Start", "Stop", "ReadData"}, len : Nat]
  /\ got \in [upto : 0 .. MaxUnits, lost : SUBSET (0 .. MaxUnits - 1),
              next : 0 .. MaxUnits]

\* What the headers hold that is still to be read, in the order of the ring from the one
\* that is read next.
RingAt(i) == (in.CurrAudioBufferReadIndex + i - 1) % NumHeaders
HeldAt(i) ==
  IF ~inDone[RingAt(i)] \/ (i = 1 /\ InAt("requeue")) THEN << >>
  ELSE IF i = 1 THEN CopyData(RingAt(i), Remaining(RingAt(i)))
  ELSE inData[RingAt(i)]
UnreadUnits == UNION {Range(HeldAt(i)) : i \in 1 .. NumHeaders}

\* What ReadData gives is the recording: what is still to be read comes in order after
\* what has been read, no unit twice, and nothing is missing but what came while the
\* device had no header.
RecordInOrder ==
  in.hDevice /\ ~in.DeviceStopping /\ ~mic.failed =>
    /\ \A i \in 1 .. NumHeaders : Rising(HeldAt(i))
    /\ \A i, j \in 1 .. NumHeaders : i < j => Before(HeldAt(i), HeldAt(j))
    /\ UnreadUnits \cup {u \in got.lost : u >= got.upto} = got.upto .. got.next - 1

\* A call waits for ever only in ReadData, for a device that does not run (or whose
\* recording is over), or for a header that waveInAddBuffer has refused.
InWaits == \/ InAt("read") /\ (mic.paused \/ got.next + BufferSize > MaxUnits)
           \/ mic.failed
InSettled == InAt("idle") \/ InWaits
InCallsReturn == []<>InSettled

------------------------------------------------------------------------------
\* What c_aud_generator promises to its owner.
\* Types and ranges.
GenTypeOK ==
  /\ gen \in [Stopped : BOOLEAN, Paused : BOOLEAN, timed : BOOLEAN]
  /\ genWorker \in {"none", "open", "time", "stopped", "paused", "write", "close"}
  /\ genAfter \in 0 .. MaxAfter

\* After a Stop at most the block is written that the thread had already begun.
GenStopsSoon == genAfter <= 1

\* The audio output's object tells the truth about the device; the generator stops soon.
OutTruthful == HandleClosed /\ DryReported /\ GenStopsSoon

\* A thread that has been told to stop ends, unless it is paused: the pause does not look
\* at Stopped.
GenSettled == gen.Stopped => genWorker = "none" \/ gen.Paused
GenCallsReturn == []<>GenSettled

------------------------------------------------------------------------------
\* What c_wave and c_file promise to the program that uses them.
\* Types and ranges.
WavTypeOK ==
  /\ wavWorld \in WavWorlds
  /\ cfile \in [opened : BOOLEAN, fileOpenForRead : BOOLEAN, fileOpenForWrite : BOOLEAN,
                FilePos : Nat, at : Nat]
  /\ wave \in [TotalWaveFileSize : 0 .. Dwords - 1, CurrChunkSize : 0 .. Dwords - 1]
  /\ wavCall.pc \in {"idle", "load", "play", "record", "stop", "end"}
  /\ wavCall.left \in 0 .. WavCalls /\ wavCall.res \in BOOLEAN
  /\ Len(wavFile) <= Max({wavWorld.room, Len(wavWorld.file)})
  /\ wavUser.mode \in {"none", "load", "save", "saved", "reading", "writing"}

\* A file of sound as its format is written down: it says its length first, and chunks of
\* other kinds may stand beside those of sound.
ChunkOf(chunk, from) ==
  Item(chunk.id, chunk.size, 8)
    \o (IF chunk.id = "data" THEN Sound(from, chunk.size) ELSE Item("other", 0, chunk.size))
ChunksOf(chunks) ==
  FoldLeft(LAMBDA s, chunk : [bytes |-> s.bytes \o ChunkOf(chunk, s.from),
                              from |-> s.from + IF chunk.id = "data" THEN chunk.size ELSE 0],
           [bytes |-> << >>, from |-> 0], chunks).bytes
WaveOf(extra, chunks) ==
  LET body == Item("fmt ", 16 + extra, 24) \o Item("extra", 0, extra) \o ChunksOf(chunks)
  IN  Item("RIFF", 4 + Len(body), 12) \o body
SoundOf(bytes) == SelectSeq(bytes, LAMBDA b : b[1] = "sound")
SaysItsLength(bytes) == bytes[1][2] = Len(bytes) - 8

\* What is loaded is the sound of the file, in order, with nothing of the other chunks,
\* whatever sizes are asked for and whatever reads fail; from a file that says its length
\* all of it is loaded before a call gives less than was asked for, and if no read fails
\* every call succeeds.
SoundLoaded ==
  wavUser.mode = "load" =>
    /\ IsPrefix(wavUser.given, SoundOf(wavFile))
    /\ WavIdle /\ wavCall.op = "LoadDataDirectFromFile" /\ SaysItsLength(wavFile) =>
         /\ wavCall.res /\ Len(wavCall.got) < wavCall.asked => wavUser.given = SoundOf(wavFile)
         /\ ~wavCall.res => wavWorld.fails

\* Play succeeds only when the device was given all the sound of the file (if it says its
\* length).
PlayTruthful ==
  WavIdle /\ wavCall.op = "Play" /\ wavCall.res /\ SaysItsLength(wavFile) =>
    wavUser.given = SoundOf(wavFile)

\* A file that was saved without a failure, with as much sound as was said first, and one
\* that Record has reported, is a file of that sound.
SavedSound ==
  /\ WavIdle /\ wavUser.mode = "saved" /\ wavUser.whole
  /\ wavCall.op = "Record" => wavCall.res
  /\ wavCall.op = "EndSave" => wavUser.put = wavUser.due
  => wavFile = WaveOf(0, <<[id |-> "data", size |-> wavUser.due]>>)

\* The lines that were written, here or by others with CR LF, are those that are read, and
\* all of them, if the disk took them, but for a last one that ends in CR (README); and GetPos
\* tells the place in the file, until a line is read (README).
LinesKept ==
  /\ wavUser.mode = "reading" /\ wavUser.whole /\ wavCall.op = "ReadLine" =>
       IF wavCall.res THEN wavCall.got = wavUser.given[wavUser.read]
       ELSE wavUser.read = Len(wavUser.given) - IF EndsInCR(wavFile) THEN 1 ELSE 0
  /\ wavUser.mode # "reading" => cfile.FilePos = cfile.at
WaveSound == SoundLoaded /\ PlayTruthful /\ SavedSound /\ LinesKept

WavSettled == WavIdle

------------------------------------------------------------------------------
\* What TLUSB_BASE promises to the threads that use it.
UsbErrors == {"OK", "CLOSE", "CANCEL", "CLOSED", "OPEN", "DATA", "TIMEOUT", "ASYNC", "LENGTH",
              "WARNING"}

\* Types and ranges.
UsbTypeOK ==
  /\ usbWorld \in UsbWorlds
  /\ lusb \in [hDevice : BOOLEAN, LastErrorNumber : UsbErrors]
  /\ usbPipe \in [Pipes -> [holder : usbWorld.callers \cup {Nobody},
                            status : {"none", "pending", "done", "failed"}, count : Nat,
                            event : BOOLEAN, current : BOOLEAN, stale : 0 .. MaxStale]]
  /\ usbCall \in [usbWorld.callers ->
                   [pc : {"idle", "try", "loop", "acquire", "submit", "wait", "result",
                          "length", "release", "return"},
                    op : {"none", "OpenLDeviceAny", "Transfer", "Control"}, pipe : Pipes,
                    len : Nat, total : Nat, sent : Nat, bytes : Nat, moved : Nat,
                    late : BOOLEAN, tried : 0 .. Slots - 1]]

Alone == Cardinality(usbWorld.callers) = 1
Undisturbed(p) == usbPipe[p].stale = 0 /\ ~usbWorld.timeouts

\* A call whose pipe no timeout has left a request on reports the count of its own
\* request, whoever else uses the object; and if nobody else does, ControlLDevice and
\* WriteBulk return true exactly when the device has taken or given everything.
UsbOutcome ==
  \A c \in usbWorld.callers :
    LET call == usbCall[c]
    IN UsbAt(c, "return") /\ Undisturbed(call.pipe) =>
         /\ call.bytes = call.moved
         /\ Alone /\ call.pipe # "read" => (Succeeded(call.pipe) <=> call.moved = call.len)

\* ReadControl and WriteControl stay inside the buffer, if its length is not more than
\* one transfer or a multiple of one.
UsbWithinBuffer ==
  \A c \in usbWorld.callers :
    LET call == usbCall[c]
    IN call.op = "Control" /\ (call.total <= MaxTransfer \/ call.total % MaxTransfer = 0)
       /\ ~UsbAt(c, "loop") /\ ~UsbAt(c, "return")
       => call.sent + call.len <= call.total

\* A single user's calls return, with Timeout even if the device is mute; only the search
\* for a device that is nowhere goes on for ever.
UsbSettled ==
  Alone => \A c \in usbWorld.callers :
             UsbAt(c, "idle") \/ (UsbAt(c, "try") /\ usbWorld.present = {})
UsbCallsReturn == []<>UsbSettled

------------------------------------------------------------------------------
\* What CSerial promises to those who use it one call at a time.
DCBs == [BaudRate : {9600, 19200}, ByteSize : {7, 8}, fParity : BOOLEAN,
         Parity : {"None", "Odd"}, StopBits : {1, 2}, EvtChar : EventChars,
         fDtrControl : {"DISABLE", "HANDSHAKE"}, fRtsControl : {"DISABLE", "HANDSHAKE"},
         fOutX : BOOLEAN, fInX : BOOLEAN]
Masks == SUBSET {"Recv", "RcvEv"}

\* Types and ranges.
SerTypeOK ==
  /\ serWorld \in SerialWorlds
  /\ ser \in [hFile : BOOLEAN, hevtOverlapped : BOOLEAN, dwEventMask : Masks,
              lLastError : {"SUCCESS", "INVALID_HANDLE", "ALREADY_INITIALIZED", "OPEN", "DEVICE",
                            "INVALID_FUNCTION", "TIMEOUT"}]
  /\ [x \in DOMAIN comm \ {"told"} |-> comm[x]] \in
              [dcb : DCBs, mask : Masks, blocking : BOOLEAN, event : BOOLEAN,
               own : {"none", "pending", "done", "failed"}, stale : 0 .. MaxAbandoned,
               user : BOOLEAN, masked : BOOLEAN]
  /\ serCall.pc \in {"idle", "get", "change", "mask", "set", "check", "submit", "wait", "return"}
  /\ serCall.dcb \in DCBs /\ serCall.count \in {0, 1} /\ serCall.moved \in {0, 1}

\* Each setting is the one that was last accepted, whatever other setting was changed
\* since: the getters report it, and the mask that SetEventChar builds on is the device's
\* (unless SetMask has failed in Open, whose error Open forgets).
SettingsKept ==
  /\ Settings(comm.dcb) = comm.told
  /\ ser.hFile /\ comm.masked => GetEventMask = comm.mask

\* A transfer without an OVERLAPPED of the caller's succeeds only when its own request is
\* complete, with that request's count, and leaves the OVERLAPPED on its stack with the
\* driver only after a timeout; unless an earlier timeout has left one.
SerialOutcome ==
  SerAt("return") /\ serCall.op \in {"Read", "Write"} /\ ser.hevtOverlapped /\ ~serCall.arg[1]
  /\ ~serWorld.timeouts
  => /\ serCall.count = serCall.moved
     /\ comm.own = "none" /\ comm.stale = 0

\* A transfer over USB reports what the device has moved, and stays inside its buffer; the
\* serial port's settings are the last accepted, and its transfers report their own results.
PortsSound == UsbOutcome /\ UsbWithinBuffer /\ SettingsKept /\ SerialOutcome

\* A call returns: with dwTimeout even if the device is mute.
SerSettled == SerAt("idle")
SerCallsReturn == []<>SerSettled

------------------------------------------------------------------------------
\* What CAT45DB161Flash promises to its user: a byte array.
Bytes == (0 .. MaxWrites) \X (0 .. PageSize * NumPages)

\* Types and ranges.
FlashTypeOK ==
  /\ chip \in [mem : [Addresses -> Bytes], buffer1 : [0 .. PageSize - 1 -> Bytes],
               writes : 0 .. MaxWrites]
  /\ flashCall \in
       [pc : {"idle", "read", "write", "program", "next", "return"},
        Address : 0 .. PageSize * NumPages, Data : Nat, NumData : Nat, n : 0 .. PageSize,
        res : BOOLEAN, start : Nat, all : Nat, before : [Addresses -> Bytes] \cup {<< >>}]

\* The flash as an array of bytes in which a prefix of k bytes of the data is written.
Overwritten(k) ==
  [a \in Addresses |-> IF a \in flashCall.start .. flashCall.start + k - 1
                       THEN DataByte(a - flashCall.start) ELSE flashCall.before[a]]

\* Whatever fails, the memory is what it was with some first part of the data written over
\* it: no byte outside the data changes although whole pages are erased and programmed;
\* and when ProgrammFlash returns TRUE all of the data is there.
FlashIsArray ==
  ~FlashAt("idle") =>
    /\ \E k \in 0 .. flashCall.all : chip.mem = Overwritten(k)
    /\ FlashAt("return") /\ flashCall.res => chip.mem = Overwritten(flashCall.all)

\* The wire carries every byte: the chip samples its bits in order, most significant
\* first, while the chip select stays as it is; and a byte read is the byte sent.
WireCarries(width) ==
  \A data \in 0 .. 2^width - 1, cs \in {0, 1} :
    LET list == WriteSPIByte(data, width, cs)
        bits == [i \in 1 .. width |-> Bit(data, width - i)]
    IN /\ Sampled(list) = bits
       /\ \A k \in DOMAIN list : list[k].CS = cs
       /\ ReadSPIByte([i \in 1 .. width |-> 1 - bits[i]], width) = data

FlashSettled == FlashAt("idle")
FlashCallsReturn == []<>FlashSettled

------------------------------------------------------------------------------
\* What c_smtp promises to the program that sends mail.
\* Types and ranges.
SmtpTypeOK ==
  /\ smtp.pc \in {"idle", "say", "hear"} /\ smtp.sock \in BOOLEAN /\ smtp.res \in BOOLEAN
  /\ smtp.error \in {"none", "CONN", "SMTP", "REQ_TIMEOUT", "DISCONNECTED", "RECEIVE"}
  /\ smtp.left \in 0 .. SmtpCalls /\ smtp.late \in Nat
  /\ relay.up \in BOOLEAN
  /\ relay.mode \in {"command", "user", "password", "text", "quit"}
  /\ \A i \in DOMAIN relay.inbox : relay.inbox[i].code \in Nat
  /\ (smtp.pc = "idle") = (smtp.script = << >>)

WholeMail(m) == [from |-> m, to |-> m, text |-> << <<"header", m>>, <<"body", m>> >>]
Reported(op) == smtp.pc = "idle" /\ smtp.op = op /\ smtp.res

\* SMTPSendMessage reports success only when the server has accepted just this mail, whole
\* and with no line of another call in it, whatever was refused, cut, late or broken off
\* before; one answer may still be to come when it begins (README: with two the refusals of
\* its RSET and MAIL may go unseen, and it continues the mail of an earlier call).
MailAccepted ==
  Reported("SMTPSendMessage") /\ smtp.late <= 1 =>
    relay.accepted # << >> /\ Last(relay.accepted) = WholeMail(smtp.m)

\* SMTPData reports success only for a text that was accepted, if it began with no answer
\* still to come (README: else its DATA may have become a line of the text).
TextAccepted ==
  Reported("SMTPData") /\ smtp.late = 0 =>
    relay.accepted # << >> /\ Last(relay.accepted).text = << <<"body", smtp.m>> >>
SmtpSound == MailAccepted /\ TextAccepted

SmtpSettled == SmtpAt("idle")

------------------------------------------------------------------------------
\* What c_pop3 promises to the program that fetches mail.
\* Types and ranges.
PopTypeOK ==
  /\ pop.pc \in {"idle", "say", "hear"} /\ pop.sock \in BOOLEAN /\ pop.res \in BOOLEAN
  /\ pop.error \in {"none", "CONN", "REQ_TIMEOUT", "DISCONNECTED", "RECEIVE", "BUFOVER"}
  /\ pop.left \in 0 .. PopCalls /\ pop.onServer \in {0, Len(PopLines)}
  /\ Len(pop.buf) < BigEnough /\ box.deleted \subseteq PopMails

\* A mail that POP3Retr or POP3Top reports is the one asked for, whole and with nothing of
\* another reply in it, however the reply was cut and whatever is left of earlier replies:
\* the rest of a line, or of a mail that did not fit the buffer.  Only an answer of an
\* earlier command that has not come by then is taken for it (README).
RetrievedWhole ==
  pop.pc = "idle" /\ pop.op \in {"POP3Retr", "POP3Top"} /\ pop.res /\ pop.fresh =>
    pop.got = <<OK, Rest(pop.m)>> \o MailLines(pop.m)

\* And a call that reports success was done by the server.
DoneByServer ==
  pop.pc = "idle" /\ pop.res /\ pop.fresh /\ pop.op # "ConnectClient" =>
    /\ box.own
    /\ pop.op = "POP3Delete" => pop.m \in box.deleted

\* POP3List tells the sizes of the mails and their sum, for a server that says first how many
\* there are and goes on in words (README: that number is misread, and without such a text
\* the first mail is missed).
Digits(n) == IF n < 10 THEN <<n>> ELSE <<n \div 10, n % 10>>
Listing(sizes, text) ==
  <<Other, O, K, Space>> \o Digits(Len(sizes)) \o text \o <<CR, LF>>
    \o FlattenSeq([i \in DOMAIN sizes |->
                     Digits(i) \o <<Space>> \o Digits(sizes[i]) \o <<CR, LF>>])
    \o <<Other, CR, LF>>
SizesTold ==
  \A n \in 0 .. 2, text \in {<<Space, Other>>, <<Space, Other, 3, Other>>} :
    \A sizes \in [1 .. n -> {7, 12, 40}] :
      LET r == POP3List(Listing(sizes, text), 2)
      IN  /\ r.total = FoldLeft(LAMBDA a, b : a + b, 0, sizes)
          /\ SubSeq(r.sizes, 1, n) = sizes
PopSound == (pop.left = PopCalls => SizesTold) /\ RetrievedWhole /\ DoneByServer

PopSettled == PopAt("idle")

------------------------------------------------------------------------------
\* What PingHost promises.
\* Types and ranges.
PingTypeOK ==
  /\ ping.pc \in {"idle", "send", "look", "receive", "done"} /\ ping.res \in {-1, 0}
  /\ ping.now \in 0 .. 3 * PingTimeout + 1 /\ ping.begin \in 0 .. PingTimeout
  /\ ping.until \in 0 .. 3 * PingTimeout /\ ping.abandoned \in Nat
  /\ Len(icmp.came) <= PingPackets

PingAnswer(packet) == packet.kind = "echo" /\ ~pingWorld.small
\* A host that PingHost calls alive has sent an answer with the process's id to this socket,
\* whatever other packets came, whichever of the requests took them and whatever receive failed:
\* once recv_buf has been filled.  Before, a receive that fails while it is pending has decoded
\* what new left there, and nothing is promised (README).
AliveTruthful ==
  PingAt("done") /\ ping.res = 0 =>
    \/ \E i \in DOMAIN icmp.came : PingAnswer(icmp.came[i])
    \/ pingWorld.fails /\ ~ping.received

\* And an answer that comes in time is not missed, unless a call of the system fails or a
\* packet with IP options, for which PingHost gives up (README), comes before it.
AnswerNotMissed ==
  PingAt("done") /\ ping.res # 0 /\ ~pingWorld.fails =>
    \A i \in DOMAIN icmp.came :
      PingAnswer(icmp.came[i]) =>
        \/ icmp.came[i].at >= ping.begin + PingTimeout
        \/ \E j \in 1 .. i - 1 : icmp.came[j].kind = "options"
PingSound == AliveTruthful /\ AnswerNotMissed

------------------------------------------------------------------------------
\* What the socket classes promise.
\* Types and ranges.
SockTypeOK ==
  /\ \A x \in DOMAIN socks :
       /\ socks[x].sock \in BOOLEAN /\ socks[x].ReadInUse \in BOOLEAN
       /\ socks[x].status \subseteq {"Connect", "Bind", "Listen", "Accept"}
       /\ socks[x].status # {} => socks[x].sock
  /\ \A t \in SockThreads : calls[t].got \in 0 .. SockBytes /\ calls[t].res \in {0, 1}
  /\ \A d \in DOMAIN ov : ov[d].state \in {"free", "pending", "done", "failed"}
  /\ net.sent \in 0 .. SockBytes

\* While a connection is up nothing that the other end has sent is lost, repeated or out of
\* order, and when no call is in progress the calls have reported every byte that was taken
\* and every byte that went out: also when a wait ended just as the data came.
BytesAccounted ==
  socks[Link].sock /\ net.made =>
    /\ net.peer # "reset" => net.heard \o net.inbox = [i \in 1 .. net.sent |-> i]
    /\ (\A t \in Readers : SockAt(t, "idle")) => net.told["r"] = Len(net.heard)
    /\ Writer \in sockWorld.users /\ SockAt(Writer, "idle") => net.told["w"] = net.out

\* Connect_s and Accept_s report a connection only if it was made (but for c_sock_over's
\* non-blocking connect, see the README); Connect_s and Bind_s of an object that Create had
\* initialized, and Accept_s, leave no socket open and an error to show when they fail.
OpenedTruthfully ==
  SockAt(Owner, "idle") /\ calls[Owner].op \in {"Connect_s", "Accept_s", "Bind_s"} =>
    LET s == socks[calls[Owner].x]
    IN  IF calls[Owner].res = 1
        THEN s.sock /\ calls[Owner].op # "Bind_s" =>
               net.made \/ (sockWorld.over /\ sockWorld.nonBlocking)
        ELSE calls[Owner].ready \/ calls[Owner].op = "Accept_s" =>
               ~s.sock /\ s.error # "none"

\* A thread that is done leaves the flags to the others, whoever has closed the socket.
TurnsGivenBack ==
  /\ (\A t \in Readers : SockAt(t, "idle")) => ~socks[Link].ReadInUse
  /\ Writer \in sockWorld.users /\ SockAt(Writer, "idle") => ~socks[Link].WriteInUse
SocketsSound == BytesAccounted /\ OpenedTruthfully /\ TurnsGivenBack

\* Bytes go through a socket in order and all accounted for; a connection that is reported, and
\* a host that is called alive, were there.
NetworkSound == SocketsSound /\ PingSound

\* Every call comes to its end, but for a thread that receives from an other end that is
\* silent; one that waits for the flag of such a thread; and, with c_sock_over, one whose
\* wake-up was lost: the socket was closed between the request and the wait, and the event
\* reset again (README).
Silent(t) ==
  \/ SockAt(t, "move") /\ socks[Link].sock /\ net.peer = "up" /\ net.inbox = << >>
  \/ SockAt(t, "wait") /\ ov["r"].state = "pending" /\ net.peer = "up" /\ net.inbox = << >>
WakeUpLost(t) == SockAt(t, "wait") /\ ov[Request(t)].state # "pending" /\ ~ov[Request(t)].event
TurnTaken(t) == SockAt(t, "turn") /\ \E u \in Readers \ {t} : Silent(u)
SockSettled ==
  /\ SockAt(Owner, "idle")
  /\ \A t \in sockWorld.users : SockAt(t, "idle") \/ Silent(t) \/ WakeUpLost(t) \/ TurnTaken(t)
=============================================================================
