------------------------------- MODULE AudioIn -------------------------------
(***************************************************************************)
(* c_audio_in (DEVS/AUDIO/WINDOWS/c_audio_in.cpp), one thread that uses it  *)
(* and the input device, which fills its queue of headers while it runs.    *)
(* waveInStop gives back the header that is being filled, waveInReset all   *)
(* of them, and both stop the recording; waveInClose refuses while headers  *)
(* are queued.                                                              *)
(***************************************************************************)
EXTENDS WaveDevice

CONSTANT ReadSizes  \* the values of DataLen

ASSUME InAssumption == ReadSizes \subseteq Nat

VARIABLES
  in,       \* the members of the object
  inDone,   \* WHDR_DONE of every header
  inData,   \* what has been recorded in it: dwBytesRecorded is the length
  mic,      \* the device
  inCall,   \* the call in progress: where it is, which it is, what is left to read
  got       \* one past the last unit read, what found no header, how much was recorded
inVars == <<in, inDone, inData, mic, inCall, got>>

NoInCall == [pc |-> "idle", op |-> "none", len |-> 0]
NewRecord == [upto |-> 0, lost |-> {}, next |-> 0]

\* Bound: so many callbacks may be due when the user pauses or resets.
MaxNotices == NumHeaders

InInit ==
  /\ in = [hDevice |-> FALSE, DeviceStopping |-> TRUE, Paused |-> FALSE,
           CurrAudioBufferReadIndex |-> 0, CurrAuioBufferRemainDataForRead |-> 0,
           LastError |-> "none"]
  /\ inDone = [h \in Headers |-> FALSE]
  /\ inData = [h \in Headers |-> << >>]
  /\ mic = NoDevice
  /\ inCall = NoInCall
  /\ got = NewRecord

InAt(pc) == inCall.pc = pc
InGo(pc) == inCall' = [inCall EXCEPT !.pc = pc]
InReturn == inCall' = NoInCall

\* The device gives back the first n headers of its queue, the first with k units.
GiveBack(n, k) ==
  LET back == {mic.queue[i] : i \in 1 .. n}
  IN /\ inDone' = [h \in Headers |-> inDone[h] \/ h \in back]
     /\ inData' = [h \in Headers |->
                     IF h \notin back THEN inData[h]
                     ELSE IF h = Head(mic.queue) THEN Block(got.next, k) ELSE << >>]
     /\ got' = [got EXCEPT !.next = @ + k]

\* How much a header that is given back early may hold.
Partial == {k \in 0 .. BufferSize - 1 : got.next + k <= MaxUnits /\ (mic.paused => k = 0)}

\* waveInReset; a failure of waveInAddBuffer is remembered.
ResetMic(failed) ==
  \E k \in IF mic.queue = << >> THEN {0} ELSE Partial :
    /\ GiveBack(Len(mic.queue), k)
    /\ mic' = [mic EXCEPT !.queue = << >>, !.paused = TRUE, !.failed = @ \/ failed,
                          !.notices = @ + Len(mic.queue)]

------------------------------------------------------------------------------
\* The calls of the user; the model ends the use of an object whose device has refused a
\* header: Stop does nothing from then on, the device is never closed.

BeginIn(op, pc, len) ==
  /\ InAt("idle") /\ ~mic.failed
  /\ inCall' = [pc |-> pc, op |-> op, len |-> len]
  /\ UNCHANGED <<in, inDone, inData, mic, got>>
StartIn == BeginIn("Start", "stop", 0)
StopIn == BeginIn("Stop", "stop", 0)
ReadIn(n) == BeginIn("ReadData", "read", n)

PauseIn ==
  /\ InAt("idle") /\ in.hDevice /\ mic.notices < MaxNotices
  /\ in' = [in EXCEPT !.Paused = TRUE]
  /\ \/ /\ mic.queue # << >> /\ ~mic.paused
        /\ \E k \in Partial : GiveBack(1, k)
        /\ mic' = [mic EXCEPT !.queue = Tail(@), !.paused = TRUE, !.notices = @ + 1]
     \/ /\ mic.queue = << >> \/ mic.paused
        /\ mic' = [mic EXCEPT !.paused = TRUE]
        /\ UNCHANGED <<inDone, inData, got>>
  /\ UNCHANGED inCall

ResumeIn ==
  /\ InAt("idle") /\ in.hDevice
  /\ in' = [in EXCEPT !.Paused = FALSE]
  /\ mic' = [mic EXCEPT !.paused = FALSE]
  /\ UNCHANGED <<inDone, inData, inCall, got>>

ResetIn ==
  /\ InAt("idle") /\ in.hDevice /\ mic.notices + Len(mic.queue) <= MaxNotices
  /\ in' = [in EXCEPT !.Paused = FALSE]
  /\ ResetMic(FALSE)
  /\ UNCHANGED inCall

\* Pause, Resume or Reset without a device only report.
ReportIn ==
  /\ InAt("idle") /\ ~in.hDevice
  /\ in' = [in EXCEPT !.LastError = FirstError(@, "device")]
  /\ UNCHANGED <<inDone, inData, mic, inCall, got>>

------------------------------------------------------------------------------
\* Stop, and the Stop in Start.

StopInReturns == IF inCall.op = "Start" THEN InGo("open") ELSE InReturn

StopInNothing ==
  /\ InAt("stop") /\ (~in.hDevice \/ in.DeviceStopping)
  /\ StopInReturns
  /\ UNCHANGED <<in, inDone, inData, mic, got>>

\* Mutant of StopInBegins: the device is not reset.
StopInBeginsQuietly ==
  /\ InAt("stop") /\ in.hDevice /\ ~in.DeviceStopping
  /\ in' = [in EXCEPT !.DeviceStopping = TRUE, !.Paused = FALSE]
  /\ InGo("drain")
  /\ UNCHANGED <<inDone, inData, mic, got>>

StopInBegins ==
  /\ InAt("stop") /\ in.hDevice /\ ~in.DeviceStopping
  /\ in' = [in EXCEPT !.DeviceStopping = TRUE, !.Paused = FALSE]
  /\ ResetMic(FALSE)
  /\ InGo("drain")

\* All headers are done; waveInClose ends after the callbacks.
CloseIn ==
  /\ InAt("drain") /\ \A h \in Headers : inDone[h] /\ mic.notices = 0
  /\ in' = [in EXCEPT !.hDevice = FALSE, !.Paused = FALSE]
  /\ mic' = [mic EXCEPT !.open = @ - 1, !.paused = FALSE]
  /\ got' = NewRecord
  /\ StopInReturns
  /\ UNCHANGED <<inDone, inData>>

------------------------------------------------------------------------------
\* Start.

OpenIn ==
  /\ InAt("open")
  /\ \/ /\ in' = [in EXCEPT !.hDevice = TRUE, !.Paused = FALSE, !.CurrAudioBufferReadIndex = 0,
                            !.CurrAuioBufferRemainDataForRead = 0]
        /\ mic' = [mic EXCEPT !.open = Smaller(@ + 1, MaxHandles), !.queue = << >>,
                              !.paused = TRUE]
        /\ inCall' = [inCall EXCEPT !.pc = "prepare", !.len = 0]
     \/ /\ in' = [in EXCEPT !.CurrAudioBufferReadIndex = 0, !.LastError = FirstError(@, "device"),
                            !.CurrAuioBufferRemainDataForRead = 0]
        /\ InReturn /\ UNCHANGED mic
  /\ UNCHANGED <<inDone, inData, got>>

\* The header inCall.len is cleared and prepared, or it cannot be: then the headers that
\* are queued already keep the device open, and hDevice is not reset either way.
PrepareIn ==
  LET h == inCall.len
  IN /\ InAt("prepare") /\ h < NumHeaders
     /\ inDone' = [inDone EXCEPT ![h] = FALSE]
     /\ inData' = [inData EXCEPT ![h] = << >>]
     /\ \/ /\ InGo("queue") /\ UNCHANGED <<in, mic>>
        \/ /\ in' = [in EXCEPT !.LastError = FirstError(@, "device")]
           /\ mic' = IF mic.queue = << >> THEN [mic EXCEPT !.open = @ - 1]
                     ELSE [mic EXCEPT !.failed = TRUE]
           /\ InReturn
     /\ UNCHANGED got

\* PutHeaderToAudioDeviceQueue.
QueueHeader(h) ==
  /\ mic' = [mic EXCEPT !.queue = Append(@, h)]
  /\ inDone' = [inDone EXCEPT ![h] = FALSE]
  /\ inData' = [inData EXCEPT ![h] = << >>]
  /\ UNCHANGED <<in, got>>
QueueHeaderFails ==
  /\ in' = [in EXCEPT !.DeviceStopping = TRUE, !.Paused = FALSE,
                      !.LastError = FirstError(@, "device")]
  /\ ResetMic(TRUE)

\* Its result is not looked at by Start.
StartQueues ==
  /\ InAt("queue")
  /\ QueueHeader(inCall.len) \/ QueueHeaderFails
  /\ inCall' = [inCall EXCEPT !.pc = "prepare", !.len = @ + 1]

Started ==
  /\ InAt("prepare") /\ inCall.len = NumHeaders
  /\ in' = [in EXCEPT !.DeviceStopping = FALSE, !.Paused = FALSE]
  /\ mic' = [mic EXCEPT !.paused = FALSE]
  /\ InReturn
  /\ UNCHANGED <<inDone, inData, got>>

------------------------------------------------------------------------------
\* ReadData.

ReadReturns ==
  /\ InAt("read") /\ (inCall.len = 0 \/ in.DeviceStopping)
  /\ InReturn
  /\ UNCHANGED <<in, inDone, inData, mic, got>>

\* What is left of the header that is read next.
Remaining(h) == IF in.CurrAuioBufferRemainDataForRead > 0
                THEN in.CurrAuioBufferRemainDataForRead ELSE Len(inData[h])

\* Mutant of CopyData: what remains is taken from the front of the buffer.
CopyDataFromFront(h, n) == SubSeq(inData[h], 1, n)
\* The n units that are copied: from where the last read stopped.
CopyData(h, n) ==
  LET from == Len(inData[h]) - Remaining(h) IN SubSeq(inData[h], from + 1, from + n)

\* Once the header is done, or had been begun before.
TakeData ==
  LET h == in.CurrAudioBufferReadIndex
      n == Smaller(inCall.len, Remaining(h))
  IN /\ InAt("read") /\ inCall.len > 0 /\ ~in.DeviceStopping
     /\ in.CurrAuioBufferRemainDataForRead > 0 \/ inDone[h]
     /\ got' = IF n = 0 THEN got
               ELSE LET upto == CopyData(h, n)[n] + 1
                    IN [got EXCEPT !.upto = upto, !.lost = {u \in @ : u >= upto}]
     /\ in' = [in EXCEPT !.CurrAuioBufferRemainDataForRead = Remaining(h) - n]
     /\ inCall' = [inCall EXCEPT !.len = @ - n,
                                 !.pc = IF n = Remaining(h) THEN "requeue" ELSE "read"]
     /\ UNCHANGED <<inDone, inData, mic>>

\* A header that has been read goes back to the device.
Requeue ==
  /\ InAt("requeue")
  /\ \/ /\ mic' = [mic EXCEPT !.queue = Append(@, in.CurrAudioBufferReadIndex)]
        /\ inDone' = [inDone EXCEPT ![in.CurrAudioBufferReadIndex] = FALSE]
        /\ inData' = [inData EXCEPT ![in.CurrAudioBufferReadIndex] = << >>]
        /\ in' = [in EXCEPT !.CurrAudioBufferReadIndex = (@ + 1) % NumHeaders]
        /\ InGo("read")
        /\ UNCHANGED got
     \/ QueueHeaderFails /\ InReturn

------------------------------------------------------------------------------
\* The device.

FillMicHeader ==
  /\ ~mic.paused /\ mic.queue # << >> /\ got.next + BufferSize <= MaxUnits
  /\ GiveBack(1, BufferSize)
  /\ mic' = [mic EXCEPT !.queue = Tail(@), !.notices = @ + 1]
  /\ UNCHANGED <<in, inCall>>

\* It runs and has no header: what it hears is lost.
LoseSound ==
  /\ ~mic.paused /\ mic.open > 0 /\ mic.queue = << >> /\ got.next < MaxUnits
  /\ got' = [got EXCEPT !.lost = @ \cup {got.next}, !.next = @ + 1]
  /\ UNCHANGED <<in, inDone, inData, mic, inCall>>

MicProcessHeader ==
  /\ mic.notices > 0
  /\ mic' = [mic EXCEPT !.notices = @ - 1]
  /\ in' = IF ~in.DeviceStopping /\ \A h \in Headers : inDone[h]
           THEN [in EXCEPT !.LastError = FirstError(@, "overrun")] ELSE in
  /\ UNCHANGED <<inDone, inData, inCall, got>>

------------------------------------------------------------------------------
InUser == \/ StartIn \/ StopIn \/ PauseIn \/ ResumeIn \/ ResetIn \/ ReportIn
          \/ \E n \in ReadSizes : ReadIn(n)
InStep == \/ StopInNothing \/ StopInBegins \/ CloseIn
          \/ OpenIn \/ PrepareIn \/ StartQueues \/ Started
          \/ ReadReturns \/ TakeData \/ Requeue
InNext == InUser \/ InStep \/ FillMicHeader \/ LoseSound \/ MicProcessHeader
InSpec == InInit /\ [][InNext]_inVars
InFairness == WF_inVars(InStep) /\ WF_inVars(FillMicHeader) /\ WF_inVars(MicProcessHeader)
==============================================================================
