------------------------------ MODULE AudioOut ------------------------------
(***************************************************************************)
(* c_audio_out (DEVS/AUDIO/WINDOWS/c_audio_out.cpp), one thread that uses   *)
(* it and the output device.  As FlushAudioDevice and Start require,        *)
(* waveOutReset returns every queued header and leaves the device ready to  *)
(* play what is written next; the waits on AudioDataBufferDone are polls,   *)
(* since each gives up after 500 ms and looks at the headers again.         *)
(***************************************************************************)
EXTENDS WaveDevice

CONSTANT WriteSizes  \* the values of DataLen

ASSUME OutAssumption == WriteSizes \subseteq Nat

VARIABLES
  out,      \* the members of the object
  outDone,  \* WHDR_DONE of every header, and of the temporary one of FlushAudioDevice
  outData,  \* the contents of the buffers (forgotten when the device is done with them)
  speaker,  \* the device: its handle open, paused, queue, callbacks to come
  outCall,  \* the call in progress: where it is, which it is, what is left to write
  heard     \* what was played, what a reset threw away, how much was written, since the last close
outVars == <<out, outDone, outData, speaker, outCall, heard>>

Scrap == NumHeaders

NoCall == [pc |-> "idle", op |-> "none", len |-> 0, flag |-> FALSE]
NewStream == [played |-> << >>, dropped |-> {}, next |-> 0]

OutInit ==
  /\ out = [hDevice |-> FALSE, DeviceStopping |-> TRUE, Paused |-> FALSE,
            CurrAudioBufferWriteIndex |-> 0, LastError |-> "none"]
  /\ outDone = [h \in 0 .. NumHeaders |-> FALSE]
  /\ outData = [h \in 0 .. NumHeaders |-> << >>]
  /\ speaker = NoDevice
  /\ outCall = NoCall
  /\ heard = NewStream

OutAt(pc) == outCall.pc = pc
OutGo(pc) == outCall' = [outCall EXCEPT !.pc = pc]
OutReturn == outCall' = NoCall

\* The units in the buffers of a queue.
QueuedUnits(q) == UNION {{outData[q[i]][j] : j \in DOMAIN outData[q[i]]} : i \in DOMAIN q}

------------------------------------------------------------------------------
\* The calls of the user.

BeginOut(op, pc, len, flag) ==
  /\ OutAt("idle")
  /\ outCall' = [pc |-> pc, op |-> op, len |-> len, flag |-> flag]
  /\ UNCHANGED <<out, outDone, outData, speaker, heard>>

\* Start(PauseOnStart) begins with Stop(), whose NotWaitBuffers is FALSE.
StartOut(pause) == BeginOut("Start", "stop", 0, pause)
StopOut(notWait) == BeginOut("Stop", "stop", 0, notWait)
WriteOut(n, autoResume) ==
  heard.next + n <= MaxUnits /\ BeginOut("WriteData", "write", n, autoResume)
NotWaitBuffers == outCall.op = "Stop" /\ outCall.flag

\* waveOutReset: every header comes back, what it held is not played.
ResetSpeaker(failed) ==
  /\ speaker' = [speaker EXCEPT !.queue = << >>, !.paused = FALSE,
                                !.failed = @ \/ failed,
                                !.notices = @ + Len(speaker.queue)]
  /\ outDone' = [h \in 0 .. NumHeaders |->
                   outDone[h] \/ \E i \in DOMAIN speaker.queue : speaker.queue[i] = h]
  /\ heard' = [heard EXCEPT !.dropped = @ \cup QueuedUnits(speaker.queue)]
  /\ outData' = [h \in 0 .. NumHeaders |-> << >>]

\* Pause, Resume and Reset, called by the user; without a device each only reports.
PauseOut ==
  /\ OutAt("idle")
  /\ \/ /\ out.hDevice /\ out' = [out EXCEPT !.Paused = TRUE]
        /\ speaker' = [speaker EXCEPT !.paused = TRUE]
     \/ /\ ~out.hDevice /\ out' = [out EXCEPT !.LastError = FirstError(@, "device")]
        /\ UNCHANGED speaker
  /\ UNCHANGED <<outDone, outData, outCall, heard>>

ResumeOut ==
  /\ OutAt("idle") /\ out.hDevice
  /\ out' = [out EXCEPT !.Paused = FALSE]
  /\ speaker' = [speaker EXCEPT !.paused = FALSE]
  /\ UNCHANGED <<outDone, outData, outCall, heard>>

ResetOut ==
  /\ OutAt("idle") /\ out.hDevice
  /\ out' = [out EXCEPT !.Paused = TRUE]
  /\ ResetSpeaker(FALSE)
  /\ UNCHANGED outCall

------------------------------------------------------------------------------
\* Stop.

StopReturns == IF outCall.op = "Start" THEN OutGo("open") ELSE OutReturn

StopNothing ==
  /\ OutAt("stop") /\ (~out.hDevice \/ out.DeviceStopping)
  /\ StopReturns
  /\ UNCHANGED <<out, outDone, outData, speaker, heard>>

\* Mutant of StopBegins: the queue is reset whatever NotWaitBuffers says.
StopBeginsImpatient ==
  /\ OutAt("stop") /\ out.hDevice /\ ~out.DeviceStopping
  /\ out' = [out EXCEPT !.DeviceStopping = TRUE, !.Paused = TRUE]
  /\ ResetSpeaker(FALSE)
  /\ OutGo("drain")

StopBegins ==
  /\ OutAt("stop") /\ out.hDevice /\ ~out.DeviceStopping
  /\ out' = [out EXCEPT !.DeviceStopping = TRUE, !.Paused = @ \/ NotWaitBuffers]
  /\ IF NotWaitBuffers THEN ResetSpeaker(FALSE)
     ELSE UNCHANGED <<speaker, outDone, outData, heard>>
  /\ OutGo("drain")

\* All headers are done: Reset, or else FlushAudioDevice with a header of its own, which
\* is prepared or not.
Drained ==
  /\ OutAt("drain") /\ \A h \in Headers : outDone[h]
  /\ \/ /\ ~NotWaitBuffers /\ OutGo("close")
        /\ out' = [out EXCEPT !.Paused = TRUE] /\ ResetSpeaker(FALSE)
     \/ /\ NotWaitBuffers /\ OutGo("flush")
        /\ outDone' = [outDone EXCEPT ![Scrap] = FALSE]
        /\ UNCHANGED <<out, outData, speaker, heard>>
     \/ /\ NotWaitBuffers /\ OutGo("close")
        /\ out' = [out EXCEPT !.LastError = FirstError(@, "device")]
        /\ UNCHANGED <<outDone, outData, speaker, heard>>

\* PutHeaderToAudioDeviceQueue: a write that fails makes the object stopping and resets.
PutHeader(h) ==
  /\ speaker' = [speaker EXCEPT !.queue = Append(@, h)]
  /\ outDone' = [outDone EXCEPT ![h] = FALSE]
  /\ UNCHANGED <<out, outData, heard>>
PutHeaderFails ==
  /\ out' = [out EXCEPT !.DeviceStopping = TRUE, !.Paused = TRUE,
                        !.LastError = FirstError(@, "device")]
  /\ ResetSpeaker(TRUE)

\* The result of the put is not looked at.
FlushPuts ==
  /\ OutAt("flush") /\ OutGo("flushing")
  /\ PutHeader(Scrap) \/ PutHeaderFails

Flushed ==
  /\ OutAt("flushing") /\ outDone[Scrap] /\ OutGo("close")
  /\ UNCHANGED <<out, outDone, outData, speaker, heard>>

\* Mutant of CloseOut: the object keeps the handle.
CloseOutKeeping ==
  /\ OutAt("close") /\ speaker.notices = 0
  /\ out' = [out EXCEPT !.Paused = FALSE]
  /\ speaker' = [speaker EXCEPT !.open = @ - 1, !.paused = FALSE]
  /\ heard' = NewStream
  /\ StopReturns
  /\ UNCHANGED <<outDone, outData>>

\* waveOutClose: the callback thread is through with the headers before.
CloseOut ==
  /\ OutAt("close") /\ speaker.notices = 0
  /\ out' = [out EXCEPT !.hDevice = FALSE, !.Paused = FALSE]
  /\ speaker' = [speaker EXCEPT !.open = @ - 1, !.paused = FALSE]
  /\ heard' = NewStream
  /\ StopReturns
  /\ UNCHANGED <<outDone, outData>>

------------------------------------------------------------------------------
\* Start, after its Stop.

OpenOut ==
  /\ OutAt("open")
  /\ \/ /\ OutGo("prepare")
        /\ out' = [out EXCEPT !.hDevice = TRUE, !.Paused = TRUE,
                              !.CurrAudioBufferWriteIndex = 0]
        /\ speaker' = [speaker EXCEPT !.open = Smaller(@ + 1, MaxHandles),
                                      !.paused = outCall.flag]
     \/ /\ OutReturn
        /\ out' = [out EXCEPT !.Paused = FALSE, !.CurrAudioBufferWriteIndex = 0,
                              !.LastError = FirstError(@, "device")]
        /\ UNCHANGED speaker
  /\ UNCHANGED <<outDone, outData, heard>>

\* Every header is cleared, prepared and marked as empty; or one of them, k, cannot be.
PrepareOut ==
  /\ OutAt("prepare") /\ OutReturn
  /\ \/ /\ out' = [out EXCEPT !.DeviceStopping = FALSE]
        /\ outDone' = [h \in 0 .. NumHeaders |-> h # Scrap]
        /\ UNCHANGED speaker
     \/ \E k \in Headers :
          /\ out' = [out EXCEPT !.hDevice = FALSE, !.LastError = FirstError(@, "device")]
          /\ speaker' = [speaker EXCEPT !.open = @ - 1, !.paused = FALSE]
          /\ outDone' = [h \in 0 .. NumHeaders |-> h < k \/ (h > k /\ outDone[h])]
  /\ UNCHANGED <<outData, heard>>

------------------------------------------------------------------------------
\* WriteData.

WriteReturns ==
  /\ OutAt("write") /\ (outCall.len = 0 \/ out.DeviceStopping)
  /\ OutReturn
  /\ UNCHANGED <<out, outDone, outData, speaker, heard>>

\* The ring is full: a paused device is set going, if the caller allows it.
AutoResume ==
  /\ OutAt("write") /\ outCall.len > 0 /\ ~out.DeviceStopping
  /\ ~outDone[out.CurrAudioBufferWriteIndex]
  /\ outCall.flag /\ out.Paused /\ out.hDevice
  /\ out' = [out EXCEPT !.Paused = FALSE]
  /\ speaker' = [speaker EXCEPT !.paused = FALSE]
  /\ UNCHANGED <<outDone, outData, outCall, heard>>

\* Mutant of NextHeader: the ring is left.
NextHeaderPast(h) == h + 1
NextHeader(h) == (h + 1) % NumHeaders

\* Mutant of MayFill: the flag of the header is not looked at.
MayFillAlways(h) == outCall.len > 0 /\ ~out.DeviceStopping
\* The loops let the header be filled.
MayFill(h) == outCall.len > 0 /\ ~out.DeviceStopping /\ outDone[h]

\* memcpy, waveOutWrite and, if that succeeds, the next header.
FillHeader ==
  LET h == out.CurrAudioBufferWriteIndex
      n == Smaller(outCall.len, BufferSize)
  IN /\ OutAt("write") /\ MayFill(h)
     /\ \/ /\ outData' = [outData EXCEPT ![h] = Block(heard.next, n)]
           /\ speaker' = [speaker EXCEPT !.queue = Append(@, h)]
           /\ outDone' = [outDone EXCEPT ![h] = FALSE]
           /\ heard' = [heard EXCEPT !.next = @ + n]
           /\ out' = [out EXCEPT !.CurrAudioBufferWriteIndex = NextHeader(@)]
           /\ outCall' = [outCall EXCEPT !.len = @ - n]
        \/ PutHeaderFails /\ OutReturn

------------------------------------------------------------------------------
\* The device finishes the oldest header, and its thread calls waveOutProc.

PlayHeader ==
  /\ ~speaker.paused /\ speaker.queue # << >>
  /\ LET h == Head(speaker.queue)
     IN /\ outDone' = [outDone EXCEPT ![h] = TRUE]
        /\ heard' = [heard EXCEPT !.played = @ \o outData[h]]
        /\ outData' = [outData EXCEPT ![h] = << >>]
  /\ speaker' = [speaker EXCEPT !.queue = Tail(@), !.notices = @ + 1]
  /\ UNCHANGED <<out, outCall>>

\* Mutant of ProcessHeader: one header more than there are would have to be done.
ProcessHeaderTooStrict ==
  /\ speaker.notices > 0
  /\ speaker' = [speaker EXCEPT !.notices = @ - 1]
  /\ UNCHANGED <<out, outDone, outData, outCall, heard>>

\* ProcessHeader: the event, and an error when no header is with the device.
ProcessHeader ==
  /\ speaker.notices > 0
  /\ speaker' = [speaker EXCEPT !.notices = @ - 1]
  /\ out' = IF ~out.DeviceStopping /\ \A h \in Headers : outDone[h]
            THEN [out EXCEPT !.LastError = FirstError(@, "overrun")] ELSE out
  /\ UNCHANGED <<outDone, outData, outCall, heard>>

------------------------------------------------------------------------------
OutUser ==
  \/ \E flag \in BOOLEAN :
       StartOut(flag) \/ StopOut(flag) \/ \E n \in WriteSizes : WriteOut(n, flag)
  \/ PauseOut \/ ResumeOut \/ ResetOut
OutStep == \/ StopNothing \/ StopBegins \/ Drained \/ FlushPuts \/ Flushed \/ CloseOut
           \/ OpenOut \/ PrepareOut
           \/ WriteReturns \/ AutoResume \/ FillHeader
OutNext == OutUser \/ OutStep \/ PlayHeader \/ ProcessHeader
OutSpec == OutInit /\ [][OutNext]_outVars

\* A call goes on, the device plays what it is given unless it is paused.
OutFairness == WF_outVars(OutStep) /\ WF_outVars(PlayHeader) /\ WF_outVars(ProcessHeader)
==============================================================================
