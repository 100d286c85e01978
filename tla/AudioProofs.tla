---------------------------- MODULE AudioProofs ----------------------------
(***************************************************************************)
(* Proofs about sound, for every number and size of the headers, amount of *)
(* sound and set of sizes: that c_audio_out plays its sound in order and   *)
(* tells its user the truth, that the generator stops soon after it is     *)
(* told to, and that ReadData of c_audio_in gives what was recorded, in    *)
(* order and without a gap but for what came while no header was queued.   *)
(***************************************************************************)
EXTENDS DevicesProofs

------------------------------------------------------------------------------

\* The steps of Stop of an open device.
Draining == {"drain", "flush", "flushing", "close"}

\* What the object has lent to the device: a queued header is not done, is queued once, and
\* only it holds data; the header of FlushAudioDevice is queued only by it.
Lent ==
  LET q == speaker.queue
  IN /\ \A i \in DOMAIN q : ~outDone[q[i]] /\ (q[i] = Scrap => OutAt("flushing"))
     /\ \A i, j \in DOMAIN q : q[i] = q[j] => i = j
     /\ \A h \in 0 .. NumHeaders : (\A i \in DOMAIN q : q[i] # h) => outData[h] = << >>

\* When the device has nothing.
NothingQueued ==
  /\ ~out.hDevice \/ out.DeviceStopping =>
       OutAt("drain") \/ OutAt("flushing") \/ speaker.queue = << >>
  /\ OutAt("flushing") => \A i \in DOMAIN speaker.queue : speaker.queue[i] = Scrap

\* How far a call has come with the handle.
Handle ==
  /\ ~out.hDevice => out.DeviceStopping
  /\ outCall.pc \in Draining \cup {"open", "prepare"} => out.DeviceStopping
  /\ outCall.pc \in Draining \cup {"prepare"} => out.hDevice
  /\ out.hDevice => speaker.open # 0
  /\ ~speaker.failed =>
       /\ speaker.open = IF out.hDevice THEN 1 ELSE 0
       /\ OutAt("open") => ~out.hDevice
       /\ outCall.pc \in {"idle", "stop", "write"} => (out.hDevice <=> ~out.DeviceStopping)

\* While the object works.
Working ==
  LET q == speaker.queue
  IN /\ OutAt("write") => heard.next + outCall.len <= MaxUnits
     /\ OutAt("prepare") => out.CurrAudioBufferWriteIndex = 0
     /\ ~out.DeviceStopping =>
          /\ \A h \in Headers : outDone[h] \/ \E i \in DOMAIN q : q[i] = h
          /\ q = << >> /\ out.CurrAudioBufferWriteIndex # 0 =>
               out.LastError # "none" \/ speaker.notices # 0

\* The inductive invariant of the audio output.
OutInv == OutTypeOK /\ Lent /\ NothingQueued /\ Handle /\ Working /\ SoundInOrder

\* What a sequence over a set is.
LEMMA SeqFacts ==
  ASSUME NEW S, NEW s \in Seq(S)
  PROVE  Len(s) \in Nat /\ DOMAIN s = 1 .. Len(s) /\ \A j \in DOMAIN s : s[j] \in S
BY LenProperties, ElementOfSeq

\* The types of the queue of the device and of the data in the headers.
LEMMA OutShape ==
  ASSUME OutTypeOK
  PROVE  /\ speaker.queue \in Seq(0 .. NumHeaders)
         /\ Len(speaker.queue) \in Nat
         /\ DOMAIN speaker.queue = 1 .. Len(speaker.queue)
         /\ \A i \in DOMAIN speaker.queue : speaker.queue[i] \in 0 .. NumHeaders
         /\ \A h \in 0 .. NumHeaders :
              /\ outData[h] \in Seq(0 .. MaxUnits - 1)
              /\ Len(outData[h]) \in Nat
              /\ DOMAIN outData[h] = 1 .. Len(outData[h])
              /\ \A j \in DOMAIN outData[h] : outData[h][j] \in 0 .. MaxUnits - 1
<1>1. speaker.queue \in Seq(0 .. NumHeaders) /\ \A h \in 0 .. NumHeaders :
        outData[h] \in Seq(0 .. MaxUnits - 1)
  BY DEF OutTypeOK
<1> QED BY <1>1, SeqFacts

\* The order of the sound depends on nothing but the data, the queue and what was heard.
LEMMA SoundKept ==
  ASSUME SoundInOrder, outData' = outData, speaker'.queue = speaker.queue, heard' = heard
  PROVE  SoundInOrder'
BY DEF SoundInOrder, QueuedUnits

\* The parts of the type invariant, each a set.
Speakers == [open : 0 .. MaxHandles, paused : BOOLEAN, queue : Seq(0 .. NumHeaders),
             notices : Nat, failed : BOOLEAN]
Outs == [hDevice : BOOLEAN, DeviceStopping : BOOLEAN, Paused : BOOLEAN,
              CurrAudioBufferWriteIndex : Headers, LastError : Errors]
OutCalls == [pc : OutPCs, op : {"none", "Start", "Stop", "WriteData"},
                  len : Nat, flag : BOOLEAN]
Sounds == [played : Seq(0 .. MaxUnits - 1), dropped : SUBSET (0 .. MaxUnits - 1),
                next : 0 .. MaxUnits]
Datas == [0 .. NumHeaders -> Seq(0 .. MaxUnits - 1)]
Dones == [0 .. NumHeaders -> BOOLEAN]

\* The type invariant by its parts.
LEMMA OutTypes == OutTypeOK
   <=> out \in Outs /\ outDone \in Dones /\ outData \in Datas /\ speaker \in Speakers
      /\ outCall \in OutCalls /\ heard \in Sounds
BY DEF OutTypeOK, Outs, Dones, Datas, Speakers, OutCalls, Sounds

\* What waveOutReset does, said header by header.
Reset(failed) ==
         /\ speaker' = [speaker EXCEPT !.queue = << >>, !.paused = FALSE,
                          !.failed = speaker.failed \/ failed,
                          !.notices = speaker.notices + Len(speaker.queue)]
         /\ \A h \in 0 .. NumHeaders :
              outDone'[h] <=> outDone[h] \/ \E i \in DOMAIN speaker.queue : speaker.queue[i] = h
         /\ \A h \in 0 .. NumHeaders : outData'[h] = << >>
         /\ heard' = [heard EXCEPT !.dropped = heard.dropped \cup QueuedUnits(speaker.queue)]

\* The type of a device of which some fields were set.
LEMMA SpeakerSet ==
 ASSUME NEW s \in Speakers, NEW n \in Nat, NEW f \in BOOLEAN, NEW p \in BOOLEAN,
        NEW q \in Seq(0 .. NumHeaders)
 PROVE [s EXCEPT !.queue = q, !.paused = p, !.failed = f, !.notices = n] \in Speakers
BY DEF Speakers

\* waveOutReset gives every queued header back, empty, and what they held is dropped.
LEMMA ResetClears ==
  ASSUME OutTypeOK, NEW failed \in BOOLEAN, ResetSpeaker(failed)
  PROVE  /\ speaker' \in Speakers /\ outDone' \in Dones /\ outData' \in Datas
         /\ heard' \in Sounds
         /\ Reset(failed)
<1>1. speaker \in Speakers /\ heard \in Sounds
  BY OutTypes
<1>2. speaker' = [speaker EXCEPT !.queue = << >>, !.paused = FALSE,
                          !.failed = speaker.failed \/ failed,
                          !.notices = speaker.notices + Len(speaker.queue)]
  BY <1>1 DEF ResetSpeaker, Speakers
<1>3. speaker' \in Speakers
  <2>1. << >> \in Seq(0 .. NumHeaders) /\ (speaker.failed \/ failed) \in BOOLEAN
    BY <1>1 DEF Speakers
  <2>2. speaker.notices + Len(speaker.queue) \in Nat
    BY <1>1, OutShape DEF Speakers
  <2>3. PICK f \in BOOLEAN, n \in Nat :
          f = (speaker.failed \/ failed) /\ n = speaker.notices + Len(speaker.queue)
    BY <2>1, <2>2
  <2>4. speaker' = [speaker EXCEPT !.queue = << >>, !.paused = FALSE, !.failed = f,
                    !.notices = n]
    BY <1>2, <2>3
  <2>5. FALSE \in BOOLEAN /\ << >> \in Seq(0 .. NumHeaders)
    BY <2>1
  <2>6. [speaker EXCEPT !.queue = << >>, !.paused = FALSE, !.failed = f,
         !.notices = n] \in Speakers
    BY <1>1, <2>5, SpeakerSet
  <2> QED BY <2>4, <2>6
<1>4. QueuedUnits(speaker.queue) \subseteq 0 .. MaxUnits - 1
  BY OutShape DEF QueuedUnits
<1>5. heard' = [heard EXCEPT !.dropped = heard.dropped \cup QueuedUnits(speaker.queue)]
  BY <1>1 DEF ResetSpeaker, Sounds
<1>6. outDone' = [h \in 0 .. NumHeaders |->
                   outDone[h] \/ \E i \in DOMAIN speaker.queue : speaker.queue[i] = h]
      /\ outData' = [h \in 0 .. NumHeaders |-> << >>]
  BY DEF ResetSpeaker
<1>7. outData' \in Datas
  <2>1. << >> \in Seq(0 .. MaxUnits - 1)
    OBVIOUS
  <2> QED BY <1>6, <2>1 DEF Datas
<1>8. outDone' \in Dones /\ \A h \in 0 .. NumHeaders :
        outDone'[h] <=> outDone[h] \/ \E i \in DOMAIN speaker.queue : speaker.queue[i] = h
  BY <1>6 DEF Dones
<1>9. heard' \in Sounds
  BY <1>1, <1>4, <1>5 DEF Sounds
<1> QED BY <1>2, <1>3, <1>5, <1>6, <1>7, <1>8, <1>9 DEF Reset

\* After waveOutReset nothing is queued and the sound is in order.
LEMMA ResetKeeps ==
  ASSUME OutTypeOK, SoundInOrder, NEW failed \in BOOLEAN, ResetSpeaker(failed)
  PROVE  Lent' /\ NothingQueued' /\ SoundInOrder'
<1>1. speaker'.queue = << >> /\ heard'.played = heard.played /\ heard'.next = heard.next
         /\ heard'.dropped = heard.dropped \cup QueuedUnits(speaker.queue)
         /\ \A h \in 0 .. NumHeaders : outData'[h] = << >>
  BY ResetClears, OutTypes, ZenonT(30) DEF Sounds, Speakers, Reset
<1>2. DOMAIN speaker'.queue = {} 
  BY <1>1
<1>3. QueuedUnits(speaker.queue)' = {}
  BY <1>2 DEF QueuedUnits
<1>6. (Range(heard.played) \cup QueuedUnits(speaker.queue) \cup heard.dropped
         = 0 .. heard.next - 1)'
  BY <1>1, <1>3 DEF SoundInOrder
<1>7. SoundInOrder'
  BY <1>1, <1>2, <1>6 DEF SoundInOrder
<1> QED BY <1>1, <1>2, <1>7 DEF Lent, NothingQueued

\* Lent depends on nothing but the headers and the queue.
LEMMA LentKept ==
  ASSUME Lent, outDone' = outDone, outData' = outData, speaker'.queue = speaker.queue,
         OutAt("flushing") => OutAt("flushing")'
  PROVE  Lent'
BY DEF Lent

\* The calls Start and Stop begin.
LEMMA BeginKeeps ==
  ASSUME OutInv, NEW o \in {"Start", "Stop"}, NEW flag \in BOOLEAN, BeginOut(o, "stop", 0, flag)
  PROVE  OutInv'
<1>1. outCall' = [pc |-> "stop", op |-> o, len |-> 0, flag |-> flag] /\ OutAt("idle")
      /\ UNCHANGED <<out, outDone, outData, speaker, heard>>
  BY DEF BeginOut
<1>2. OutTypeOK'
  BY <1>1, OutTypes DEF OutInv, OutTypeOK, OutPCs
<1>3. Lent' /\ SoundInOrder'
  BY <1>1, LentKept, SoundKept DEF OutInv, OutAt
<1>4. NothingQueued' /\ Handle' /\ Working'
  BY <1>1 DEF OutInv, NothingQueued, Handle, Working, OutAt, Draining
<1> QED BY <1>2, <1>3, <1>4 DEF OutInv

\* The call WriteData begins.
LEMMA BeginWriteKeeps ==
  ASSUME OutInv, NEW n \in WriteSizes, NEW flag \in BOOLEAN, WriteOut(n, flag)
  PROVE  OutInv'
<1>1. outCall' = [pc |-> "write", op |-> "WriteData", len |-> n, flag |-> flag] /\ OutAt("idle")
      /\ UNCHANGED <<out, outDone, outData, speaker, heard>> /\ heard.next + n <= MaxUnits
  BY DEF BeginOut, WriteOut
<1>2. OutTypeOK'
  BY <1>1, OutAssumption DEF OutInv, OutTypeOK, OutPCs
<1>3. Lent' /\ SoundInOrder'
  BY <1>1, LentKept, SoundKept DEF OutInv, OutAt
<1>4. NothingQueued' /\ Handle' /\ Working'
  BY <1>1 DEF OutInv, NothingQueued, Handle, Working, OutAt, Draining
<1> QED BY <1>2, <1>3, <1>4 DEF OutInv

\* SetLastError keeps the first error.
LEMMA ErrorTypes ==
  ASSUME NEW e \in Errors, NEW f \in Errors
  PROVE  FirstError(e, f) \in Errors /\ (f # "none" => FirstError(e, f) # "none")
BY DEF FirstError

\* Pause, Resume and the Resume that WriteData does.
LEMMA PausedKeeps ==
  ASSUME OutInv, PauseOut \/ ResumeOut \/ AutoResume
  PROVE  OutInv'
<1>1. PICK p, sp \in BOOLEAN, e \in Errors :
         /\ out' = [out EXCEPT !.Paused = p, !.LastError = e]
         /\ e = out.LastError \/ e # "none"
         /\ speaker' = [speaker EXCEPT !.paused = sp]
         /\ UNCHANGED <<outDone, outData, outCall, heard>>
  <2>1. /\ out \in Outs /\ speaker \in Speakers
        /\ FirstError(out.LastError, "device") \in Errors \ {"none"} /\ out.LastError \in Errors
    BY OutTypes, ErrorTypes DEF Outs, OutInv, Errors
  <2>2. CASE out' = [out EXCEPT !.Paused = TRUE] /\ speaker' = [speaker EXCEPT !.paused = TRUE]
             /\ UNCHANGED <<outDone, outData, outCall, heard>>
    <3>1. out' = [out EXCEPT !.Paused = TRUE, !.LastError = out.LastError]
      BY <2>1, <2>2 DEF Outs
    <3> QED BY <2>1, <2>2, <3>1
  <2>3. CASE out' = [out EXCEPT !.LastError = FirstError(@, "device")] /\ UNCHANGED speaker
             /\ UNCHANGED <<outDone, outData, outCall, heard>>
    <3>1. out' = [out EXCEPT !.Paused = out.Paused,
                  !.LastError = FirstError(out.LastError, "device")]
          /\ out.Paused \in BOOLEAN /\ speaker.paused \in BOOLEAN
          /\ speaker' = [speaker EXCEPT !.paused = speaker.paused]
      BY <2>1, <2>3 DEF Outs, Speakers
    <3> QED BY <2>1, <2>3, <3>1
  <2>4. CASE out' = [out EXCEPT !.Paused = FALSE] /\ speaker' = [speaker EXCEPT !.paused = FALSE]
             /\ UNCHANGED <<outDone, outData, outCall, heard>>
    <3>1. out' = [out EXCEPT !.Paused = FALSE, !.LastError = out.LastError]
      BY <2>1, <2>4 DEF Outs
    <3> QED BY <2>1, <2>4, <3>1
  <2> QED BY <2>2, <2>3, <2>4 DEF PauseOut, ResumeOut, AutoResume
<1>2. out \in Outs /\ speaker \in Speakers /\ out' \in Outs /\ speaker' \in Speakers
  BY <1>1, OutTypes DEF Outs, Speakers, OutInv
<1>3. OutTypeOK'
  BY <1>1, <1>2 DEF OutInv, OutTypeOK, Outs, Speakers
<1>4. /\ speaker'.queue = speaker.queue /\ speaker'.notices = speaker.notices
      /\ speaker'.open = speaker.open /\ speaker'.failed = speaker.failed
      /\ out'.hDevice = out.hDevice /\ out'.DeviceStopping = out.DeviceStopping
      /\ out'.CurrAudioBufferWriteIndex = out.CurrAudioBufferWriteIndex
      /\ out'.LastError = out.LastError \/ out'.LastError # "none"
  BY <1>1, <1>2 DEF Outs, Speakers
<1>5. Lent' /\ SoundInOrder'
  BY <1>1, <1>4, LentKept, SoundKept DEF OutInv, OutAt
<1>6. NothingQueued' /\ Handle' /\ Working'
  BY <1>1, <1>4 DEF OutInv, NothingQueued, Handle, Working, OutAt, Draining
<1> QED BY <1>3, <1>5, <1>6 DEF OutInv

\* Reset by the user.
LEMMA ResetOutKeeps ==
  ASSUME OutInv, ResetOut PROVE OutInv'
<1>1. /\ OutAt("idle") /\ out.hDevice /\ out' = [out EXCEPT !.Paused = TRUE]
      /\ ResetSpeaker(FALSE) /\ UNCHANGED outCall
  BY DEF ResetOut
<1>2. /\ speaker' \in Speakers /\ outDone' \in Dones /\ outData' \in Datas /\ heard' \in Sounds
      /\ Reset(FALSE)
      /\ Lent' /\ NothingQueued' /\ SoundInOrder'
  BY <1>1, ResetClears, ResetKeeps DEF OutInv
<1>3. out \in Outs /\ out' \in Outs /\ outCall' \in OutCalls /\ speaker \in Speakers
  BY <1>1, OutTypes DEF OutInv, Outs
<1>4. OutTypeOK'
  BY <1>2, <1>3 DEF OutTypeOK, Outs, Dones, Datas, Speakers, OutCalls, Sounds
<1>5. /\ speaker'.open = speaker.open /\ speaker'.failed = speaker.failed
      /\ speaker'.notices = speaker.notices + Len(speaker.queue)
      /\ out'.hDevice = out.hDevice /\ out'.DeviceStopping = out.DeviceStopping
      /\ out'.CurrAudioBufferWriteIndex = out.CurrAudioBufferWriteIndex
      /\ out'.LastError = out.LastError
  BY <1>1, <1>2, <1>3 DEF Outs, Speakers, Reset
<1>6. Handle'
  BY <1>1, <1>5 DEF OutInv, Handle, OutAt, Draining
<1>7. speaker.queue = << >> \/ speaker'.notices # 0
  BY <1>3, <1>5, OutShape, EmptySeq DEF OutInv, Speakers
<1>8. ~out.DeviceStopping => \A h \in Headers : outDone'[h]
  BY <1>2, WaveAssumption DEF Reset, OutInv, Working, Headers
<1>9. Working'
  <2>1. outCall.pc = "idle" /\ outCall'.pc = "idle" /\ Working
    BY <1>1 DEF OutAt, OutInv
  <2>2. ~out'.DeviceStopping /\ speaker'.queue = << >> /\ out'.CurrAudioBufferWriteIndex # 0 =>
               out'.LastError # "none" \/ speaker'.notices # 0
    <3>1. CASE speaker.queue = << >>
      <4>1. speaker'.notices = speaker.notices
        BY <1>3, <1>5, <3>1, EmptySeq DEF Speakers
      <4> QED BY <1>5, <2>1, <3>1, <4>1 DEF Working
    <3> QED BY <1>7, <3>1
  <2> QED BY <1>5, <1>8, <2>1, <2>2 DEF Working, OutAt
<1> QED BY <1>2, <1>4, <1>6, <1>9 DEF OutInv

\* Steps that leave the object and the device as they are.
LEMMA MovesKeep ==
  ASSUME OutInv, StopNothing \/ WriteReturns \/ Flushed PROVE OutInv'
<1>1. PICK q \in OutPCs :
        outCall' = [outCall EXCEPT !.pc = q] \/ (q = "idle" /\ outCall' = NoCall)
  BY OutTypes DEF StopNothing, StopReturns, WriteReturns, Flushed, OutGo, OutReturn, OutPCs
<1>2. outCall \in OutCalls /\ outCall' \in OutCalls /\ outCall'.pc = q
  <2>1. outCall \in OutCalls
    BY OutTypes DEF OutInv
  <2>2. NoCall \in OutCalls /\ NoCall.pc = "idle"
    BY DEF OutCalls, NoCall, OutPCs
  <2>3. [outCall EXCEPT !.pc = q] \in OutCalls /\ [outCall EXCEPT !.pc = q].pc = q
    BY <2>1 DEF OutCalls
  <2> QED BY <1>1, <2>1, <2>2, <2>3
<1>3. OutTypeOK'
  BY <1>2 DEF OutInv, OutTypeOK, OutCalls, StopNothing, WriteReturns, Flushed
<1>4. UNCHANGED <<out, outDone, outData, speaker, heard>>
  BY DEF StopNothing, WriteReturns, Flushed
<1>5. SoundInOrder'
  BY <1>4, SoundKept DEF OutInv
<1>6. CASE StopNothing
  <2>1. q \in {"idle", "open"} /\ outCall.pc = "stop" /\ (~out.hDevice \/ out.DeviceStopping)
    BY <1>2, <1>6 DEF StopNothing, StopReturns, OutGo, OutReturn, NoCall, OutAt, OutCalls
  <2> QED BY <1>2, <1>3, <1>4, <1>5, <2>1
          DEF OutInv, Lent, NothingQueued, Handle, Working, OutAt, Draining
<1>7. CASE WriteReturns
  <2>1. q = "idle" /\ outCall.pc = "write"
    BY <1>2, <1>7 DEF WriteReturns, OutReturn, NoCall, OutAt, OutCalls
  <2> QED BY <1>2, <1>3, <1>4, <1>5, <2>1
          DEF OutInv, Lent, NothingQueued, Handle, Working, OutAt, Draining
<1>8. CASE Flushed
  <2>1. q = "close" /\ outCall.pc = "flushing" /\ outDone[Scrap]
    BY <1>2, <1>8 DEF Flushed, OutGo, OutReturn, NoCall, OutAt, OutCalls
  <2>2. \A i \in DOMAIN speaker.queue : FALSE
    BY <2>1 DEF OutInv, NothingQueued, Lent, OutAt
  <2>3. speaker.queue = << >>
    BY <2>2, OutShape, EmptySeq DEF OutInv
  <2> QED BY <1>2, <1>3, <1>4, <1>5, <2>1, <2>3
          DEF OutInv, Lent, NothingQueued, Handle, Working, OutAt, Draining
<1> QED BY <1>6, <1>7, <1>8

\* Stop of a device that works.
LEMMA StopBeginsKeeps ==
  ASSUME OutInv, StopBegins PROVE OutInv'
<1>1. /\ outCall.pc = "stop" /\ out.hDevice /\ ~out.DeviceStopping
      /\ outCall' = [outCall EXCEPT !.pc = "drain"]
  BY DEF StopBegins, OutAt, OutGo
<1>2. outCall' \in OutCalls /\ outCall'.pc = "drain"
  BY <1>1, OutTypes DEF OutInv, OutCalls, OutPCs
<1>3. PICK p \in BOOLEAN : out' = [out EXCEPT !.DeviceStopping = TRUE, !.Paused = p]
  <2>1. out.Paused \in BOOLEAN /\ out \in Outs
    BY OutTypes DEF OutInv, Outs
  <2> QED BY <2>1 DEF StopBegins, Outs
<1>4. /\ out' \in Outs /\ out'.DeviceStopping /\ out'.hDevice = out.hDevice
      /\ out'.CurrAudioBufferWriteIndex = out.CurrAudioBufferWriteIndex
  BY <1>3, OutTypes DEF OutInv, Outs
<1>5. CASE NotWaitBuffers
  <2>1. ResetSpeaker(FALSE)
    BY <1>5 DEF StopBegins
  <2>2. /\ speaker' \in Speakers /\ outDone' \in Dones /\ outData' \in Datas /\ heard' \in Sounds
        /\ Reset(FALSE)
      /\ Lent' /\ NothingQueued' /\ SoundInOrder'
    BY <2>1, ResetClears, ResetKeeps DEF OutInv
  <2>3. speaker'.open = speaker.open /\ speaker'.failed = speaker.failed
    BY <2>2, OutTypes DEF OutInv, Reset, Speakers
  <2>4. OutTypeOK'
    BY <1>2, <1>4, <2>2 DEF OutTypeOK, Outs, Dones, Datas, Speakers, OutCalls, Sounds
  <2>5. Handle' /\ Working'
    BY <1>1, <1>2, <1>4, <2>3 DEF OutInv, Handle, Working, OutAt, Draining
  <2> QED BY <2>2, <2>4, <2>5 DEF OutInv
<1>6. CASE ~NotWaitBuffers
  <2>1. UNCHANGED <<speaker, outDone, outData, heard>>
    BY <1>6 DEF StopBegins
  <2>2. OutTypeOK'
    BY <1>2, <1>4, <2>1 DEF OutInv, OutTypeOK, Outs, OutCalls
  <2>3. Lent' /\ SoundInOrder'
    BY <1>1, <2>1, LentKept, SoundKept DEF OutInv, OutAt
  <2>4. NothingQueued' /\ Handle' /\ Working'
    BY <1>1, <1>2, <1>4, <2>1 DEF OutInv, NothingQueued, Handle, Working, OutAt, Draining
  <2> QED BY <2>2, <2>3, <2>4 DEF OutInv
<1> QED BY <1>5, <1>6

\* A reset that goes with a step of the object.
LEMMA AfterReset ==
  ASSUME OutInv, NEW failed \in BOOLEAN, ResetSpeaker(failed),
         out' \in Outs, outCall' \in OutCalls,
         out'.hDevice
            = out.hDevice, out'.DeviceStopping, ~OutAt("write")', ~OutAt("open")',
              ~OutAt("prepare")',
         outCall'.pc \in Draining => out.hDevice,
         ~failed => ~OutAt("idle")' /\ ~OutAt("stop")'
  PROVE  OutInv'
<1>1. /\ speaker' \in Speakers /\ outDone' \in Dones /\ outData' \in Datas /\ heard' \in Sounds
      /\ Reset(failed)
      /\ Lent' /\ NothingQueued' /\ SoundInOrder'
  BY ResetClears, ResetKeeps DEF OutInv
<1>2. OutTypeOK'
  BY <1>1 DEF OutTypeOK, Outs, Dones, Datas, Speakers, OutCalls, Sounds
<1>3. speaker'.open = speaker.open /\ speaker'.failed = (speaker.failed \/ failed)
  BY <1>1, OutTypes DEF OutInv, Reset, Speakers
<1>4. Handle'
  BY <1>3 DEF OutInv, Handle, OutAt, Draining
<1>5. Working'
  BY DEF Working, OutAt
<1> QED BY <1>1, <1>2, <1>4, <1>5 DEF OutInv

\* When every header is done nothing is queued but the header of the flush.
LEMMA AllDone ==
  ASSUME OutInv, \A h \in Headers : outDone[h], ~OutAt("flushing")
  PROVE  speaker.queue = << >>
<1>1. \A i \in DOMAIN speaker.queue : speaker.queue[i] \in Headers
  BY OutShape, WaveAssumption, SMTT(30) DEF OutInv, Lent, Headers, Scrap
<1>2. \A i \in DOMAIN speaker.queue : FALSE
  BY <1>1 DEF OutInv, Lent
<1> QED BY <1>2, OutShape, EmptySeq DEF OutInv

\* A call that goes on.
LEMMA OutCallMoves ==
  ASSUME outCall \in OutCalls, NEW q \in OutPCs, outCall' = [outCall EXCEPT !.pc = q]
  PROVE  outCall' \in OutCalls /\ outCall'.pc = q /\ outCall'.len = outCall.len
BY DEF OutCalls

\* A call that returns.
LEMMA OutCallEnds ==
  ASSUME outCall' = NoCall PROVE outCall' \in OutCalls /\ outCall'.pc = "idle"
<1>1. NoCall \in OutCalls /\ NoCall.pc = "idle"
  BY DEF OutCalls, NoCall, OutPCs
<1> QED BY <1>1

\* The loop of Stop finds every header done: Reset, or FlushAudioDevice when Stop does not wait.
LEMMA DrainedKeeps ==
  ASSUME OutInv, Drained PROVE OutInv'
<1>1. /\ outCall.pc = "drain" /\ speaker.queue = << >> /\ outCall \in OutCalls /\ out \in Outs
      /\ out.hDevice /\ out.DeviceStopping
      /\ outDone \in Dones
  BY AllDone, OutTypes DEF Drained, OutAt, OutInv, Handle, Draining
<1>2. {"close", "flush"} \subseteq OutPCs
  BY DEF OutPCs
<1>3. CASE ~NotWaitBuffers
  <2>1. /\ out' = [out EXCEPT !.Paused = TRUE] /\ ResetSpeaker(FALSE)
        /\ outCall' = [outCall EXCEPT !.pc = "close"]
    BY <1>3 DEF Drained, OutGo
  <2>2. /\ out' \in Outs /\ out'.hDevice = out.hDevice /\ out'.DeviceStopping
        /\ outCall' \in OutCalls /\ outCall'.pc = "close"
    BY <1>1, <1>2, <2>1, OutCallMoves DEF Outs
  <2> QED BY <1>1, <2>1, <2>2, AfterReset DEF OutAt, Draining
<1>4. CASE NotWaitBuffers
  <2>1. PICK q \in {"flush", "close"}, e \in Errors :
          /\ outCall' = [outCall EXCEPT !.pc = q]
          /\ out' = [out EXCEPT !.LastError = e]
          /\ outDone' = outDone \/ outDone' = [outDone EXCEPT ![Scrap] = FALSE]
    <3>1. out = [out EXCEPT !.LastError = out.LastError] /\ out.LastError \in Errors
      BY <1>1 DEF Outs
    <3>2. FirstError(out.LastError, "device") \in Errors
      BY <3>1, ErrorTypes DEF Errors
    <3> QED BY <1>4, <3>1, <3>2 DEF Drained, OutGo
  <2>2. UNCHANGED <<outData, speaker, heard>>
    BY <1>4 DEF Drained
  <2>3. /\ out' \in Outs /\ out'.hDevice = out.hDevice
        /\ out'.DeviceStopping = out.DeviceStopping /\ outCall' \in OutCalls /\ outCall'.pc = q
    BY <1>1, <1>2, <2>1, OutCallMoves DEF Outs
  <2>4. outDone' \in Dones
    BY <1>1, <2>1 DEF Dones
  <2>5. OutTypeOK'
    BY <2>2, <2>3, <2>4, OutTypes DEF OutInv, OutTypeOK, Outs, Dones, OutCalls
  <2>6. SoundInOrder'
    BY <2>2, SoundKept DEF OutInv
  <2>7. Lent'
    BY <1>1, <2>2 DEF OutInv, Lent
  <2>8. NothingQueued' /\ Handle' /\ Working'
    BY <1>1, <2>1, <2>2, <2>3 DEF OutInv, NothingQueued, Handle, Working, OutAt, Draining
  <2> QED BY <2>5, <2>6, <2>7, <2>8 DEF OutInv
<1> QED BY <1>3, <1>4

\* waveOutClose.
LEMMA CloseOutKeeps ==
  ASSUME OutInv, CloseOut PROVE OutInv'
<1>1. /\ outCall.pc = "close" /\ speaker.queue = << >> /\ outCall \in OutCalls /\ out \in Outs
      /\ speaker \in Speakers
      /\ out.hDevice /\ out.DeviceStopping /\ speaker.open # 0
      /\ ~speaker.failed => speaker.open = 1
  BY OutTypes DEF CloseOut, OutAt, OutInv, Handle, Draining, NothingQueued
<1>2. /\ out' = [out EXCEPT !.hDevice = FALSE, !.Paused = FALSE]
      /\ speaker' = [speaker EXCEPT !.open = speaker.open - 1, !.paused = FALSE]
      /\ heard' = NewStream
      /\ UNCHANGED <<outDone, outData>>
  BY <1>1 DEF CloseOut, Speakers
<1>3. PICK q \in {"open", "idle"} : outCall' \in OutCalls /\ outCall'.pc = q
  BY <1>1, OutCallMoves, OutCallEnds DEF CloseOut, StopReturns, OutGo, OutReturn, OutPCs
<1>4. out' \in Outs /\ ~out'.hDevice /\ out'.DeviceStopping
  BY <1>1, <1>2 DEF Outs
<1>5. speaker.open - 1 \in 0 .. MaxHandles
  BY <1>1 DEF Speakers, MaxHandles
<1>6. /\ speaker' \in Speakers /\ speaker'.open = speaker.open - 1 /\ speaker'.queue = << >>
      /\ speaker'.failed = speaker.failed
  BY <1>1, <1>2, <1>5 DEF Speakers
<1>7. heard' \in Sounds /\ heard'.played = << >> /\ heard'.dropped = {} /\ heard'.next = 0
  BY <1>2, WaveAssumption, EmptySeq DEF Sounds, NewStream
<1>8. OutTypeOK'
  BY <1>2, <1>3, <1>4, <1>6, <1>7 DEF OutInv, OutTypeOK, Outs, Speakers, OutCalls, Sounds
<1>9. Lent'
  BY <1>1, <1>2, <1>6 DEF OutInv, Lent
<1>10. NothingQueued' /\ Handle' /\ Working'
  BY <1>1, <1>3, <1>4, <1>6 DEF NothingQueued, Handle, Working, OutAt, Draining
<1>11. SoundInOrder'
  BY <1>6, <1>7 DEF SoundInOrder, Rising, Before, Range, QueuedUnits
<1> QED BY <1>8, <1>9, <1>10, <1>11 DEF OutInv

\* waveOutOpen.
LEMMA OpenOutKeeps ==
  ASSUME OutInv, OpenOut PROVE OutInv'
<1>1. /\ outCall.pc = "open" /\ speaker.queue = << >> /\ outCall \in OutCalls /\ out \in Outs
      /\ speaker \in Speakers
      /\ out.DeviceStopping /\ (~speaker.failed => ~out.hDevice /\ speaker.open = 0)
      /\ speaker.open \in 0 .. MaxHandles
  BY OutTypes DEF OpenOut, OutAt, OutInv, Handle, Draining, NothingQueued, Speakers
<1>2. UNCHANGED <<outDone, outData, heard>>
  BY DEF OpenOut
<1>3. 0 \in Headers
  BY WaveAssumption DEF Headers
<1>4. CASE outCall' = [outCall EXCEPT !.pc = "prepare"]
        /\ out' = [out EXCEPT !.hDevice = TRUE, !.Paused = TRUE, !.CurrAudioBufferWriteIndex = 0]
        /\ speaker' = [speaker EXCEPT !.open = Smaller(@ + 1, MaxHandles),
                       !.paused = outCall.flag]
  <2>1. /\ out' \in Outs /\ out'.hDevice /\ out'.DeviceStopping
        /\ out'.CurrAudioBufferWriteIndex = 0
    BY <1>1, <1>3, <1>4 DEF Outs
  <2>2. PICK o \in 0 .. MaxHandles, f \in BOOLEAN :
          /\ o = Smaller(speaker.open + 1, MaxHandles) /\ f = outCall.flag /\ o # 0
          /\ (speaker.open = 0 => o = 1)
    BY <1>1 DEF Smaller, MaxHandles, OutCalls
  <2>3. speaker' = [speaker EXCEPT !.open = o, !.paused = f]
    BY <1>1, <1>4, <2>2 DEF Speakers
  <2>4. /\ speaker' \in Speakers /\ speaker'.open = o /\ speaker'.queue = << >>
        /\ speaker'.failed = speaker.failed
    BY <1>1, <2>2, <2>3 DEF Speakers
  <2>5. outCall' \in OutCalls /\ outCall'.pc = "prepare"
    BY <1>1, <1>4, OutCallMoves DEF OutPCs
  <2>6. OutTypeOK'
    BY <1>2, <2>1, <2>4, <2>5 DEF OutInv, OutTypeOK, Outs, Speakers, OutCalls
  <2>7. Lent' /\ SoundInOrder'
    BY <1>1, <1>2, <2>4, SoundKept DEF OutInv, Lent
  <2>8. NothingQueued' /\ Handle' /\ Working'
    BY <1>1, <2>1, <2>2, <2>4, <2>5 DEF NothingQueued, Handle, Working, OutAt, Draining
  <2> QED BY <2>6, <2>7, <2>8 DEF OutInv
<1>5. CASE outCall' = NoCall /\ UNCHANGED speaker
        /\ out' = [out EXCEPT !.Paused = FALSE, !.CurrAudioBufferWriteIndex = 0,
                   !.LastError = FirstError(@, "device")]
  <2>1. FirstError(out.LastError, "device") \in Errors
    BY <1>1, ErrorTypes DEF Errors, Outs
  <2>2. out' \in Outs /\ out'.hDevice = out.hDevice /\ out'.DeviceStopping
    BY <1>1, <1>3, <1>5, <2>1 DEF Outs
  <2>3. outCall' \in OutCalls /\ outCall'.pc = "idle"
    BY <1>5, OutCallEnds
  <2>4. OutTypeOK'
    BY <1>2, <1>5, <2>2, <2>3 DEF OutInv, OutTypeOK, Outs, OutCalls
  <2>5. Lent' /\ SoundInOrder'
    BY <1>1, <1>2, <1>5, SoundKept DEF OutInv, Lent
  <2>6. NothingQueued' /\ Handle' /\ Working'
    BY <1>1, <1>5, <2>2, <2>3 DEF OutInv, NothingQueued, Handle, Working, OutAt, Draining
  <2> QED BY <2>4, <2>5, <2>6 DEF OutInv
<1> QED BY <1>4, <1>5 DEF OpenOut, OutGo, OutReturn

\* waveOutPrepareHeader of every header, of which one may fail.
LEMMA PrepareOutKeeps ==
  ASSUME OutInv, PrepareOut PROVE OutInv'
<1>1. /\ outCall.pc = "prepare" /\ speaker.queue = << >> /\ out \in Outs /\ speaker \in Speakers
      /\ outDone \in Dones
      /\ out.hDevice /\ out.DeviceStopping /\ speaker.open # 0
      /\ speaker.open \in 0 .. MaxHandles
      /\ out.CurrAudioBufferWriteIndex = 0
      /\ ~speaker.failed => speaker.open = 1
  BY OutTypes DEF PrepareOut, OutAt, OutInv, Handle, Working, Draining, NothingQueued, Speakers
<1>2. outCall' \in OutCalls /\ outCall'.pc = "idle" /\ UNCHANGED <<outData, heard>>
  BY OutCallEnds DEF PrepareOut, OutReturn
<1>3. CASE /\ out' = [out EXCEPT !.DeviceStopping = FALSE]
           /\ outDone' = [h \in 0 .. NumHeaders |-> h # Scrap]
           /\ UNCHANGED speaker
  <2>1. /\ out' \in Outs /\ out'.hDevice /\ ~out'.DeviceStopping
        /\ out'.CurrAudioBufferWriteIndex = 0
    BY <1>1, <1>3 DEF Outs
  <2>2. outDone' \in Dones /\ \A h \in Headers : outDone'[h]
    <3>1. \A h \in Headers : h \in 0 .. NumHeaders /\ h # Scrap
      BY WaveAssumption DEF Headers, Scrap
    <3> QED BY <1>3, <3>1 DEF Dones
  <2>3. OutTypeOK'
    BY <1>2, <1>3, <2>1, <2>2 DEF OutInv, OutTypeOK, Outs, OutCalls, Dones
  <2>4. Lent' /\ SoundInOrder'
    BY <1>1, <1>2, <1>3, SoundKept DEF OutInv, Lent
  <2>5. NothingQueued' /\ Handle' /\ Working'
    BY <1>1, <1>2, <1>3, <2>1, <2>2 DEF NothingQueued, Handle, Working, OutAt, Draining
  <2> QED BY <2>3, <2>4, <2>5 DEF OutInv
<1>4. ASSUME NEW k \in Headers,
             out' = [out EXCEPT !.hDevice = FALSE, !.LastError = FirstError(@, "device")],
             speaker' = [speaker EXCEPT !.open = @ - 1, !.paused = FALSE],
             outDone' = [h \in 0 .. NumHeaders |-> h < k \/ (h > k /\ outDone[h])]
      PROVE  OutInv'
  <2>1. FirstError(out.LastError, "device") \in Errors
    BY <1>1, ErrorTypes DEF Errors, Outs
  <2>2. out' \in Outs /\ ~out'.hDevice /\ out'.DeviceStopping
    BY <1>1, <1>4, <2>1 DEF Outs
  <2>3. speaker.open - 1 \in 0 .. MaxHandles
    BY <1>1 DEF MaxHandles
  <2>4. /\ speaker' \in Speakers /\ speaker'.open = speaker.open - 1 /\ speaker'.queue = << >>
        /\ speaker'.failed = speaker.failed
    BY <1>1, <1>4, <2>3 DEF Speakers
  <2>5. outDone' \in Dones
    BY <1>1, <1>4 DEF Dones
  <2>6. OutTypeOK'
    BY <1>2, <2>2, <2>4, <2>5 DEF OutInv, OutTypeOK, Outs, Speakers, OutCalls, Dones
  <2>7. Lent' /\ SoundInOrder'
    BY <1>1, <1>2, <2>4, SoundKept DEF OutInv, Lent
  <2>8. NothingQueued' /\ Handle' /\ Working'
    BY <1>1, <1>2, <2>2, <2>4 DEF NothingQueued, Handle, Working, OutAt, Draining
  <2> QED BY <2>6, <2>7, <2>8 DEF OutInv
<1> QED BY <1>3, <1>4 DEF PrepareOut

\* A sequence and one element more.
LEMMA AppendFacts ==
  ASSUME NEW S, NEW s \in Seq(S), NEW e \in S
  PROVE  /\ Append(s, e) \in Seq(S) /\ Append(s, e) # << >>
         /\ DOMAIN Append(s, e) = DOMAIN s \cup {Len(s) + 1}
         /\ \A i \in DOMAIN s : Append(s, e)[i] = s[i]
         /\ Append(s, e)[Len(s) + 1] = e
<1>1. Append(s, e) \in Seq(S) /\ Len(Append(s, e)) = Len(s) + 1
      /\ \A i \in 1 .. Len(s) : Append(s, e)[i] = s[i]
      /\ Append(s, e)[Len(s) + 1] = e
  BY AppendProperties
<1> QED BY <1>1, SeqFacts, EmptySeq

\* Nothing is in order, before anything and after anything.
LEMMA NothingRises == Rising(<< >>) /\ \A s : Before(s, << >>) /\ Before(<< >>, s)
<1>1. DOMAIN << >> = {}
  OBVIOUS
<1> QED BY <1>1 DEF Rising, Before

\* FlushAudioDevice gives its header to the device.
LEMMA FlushPutsKeeps ==
  ASSUME OutInv, FlushPuts PROVE OutInv'
<1>1. /\ outCall.pc = "flush" /\ speaker.queue = << >> /\ out \in Outs /\ speaker \in Speakers
      /\ outDone \in Dones /\ outCall \in OutCalls
      /\ out.hDevice /\ out.DeviceStopping
  BY OutTypes DEF FlushPuts, OutAt, OutInv, Handle, Working, Draining, NothingQueued, Speakers
<1>2. outCall' \in OutCalls /\ outCall'.pc = "flushing"
  BY <1>1, OutCallMoves DEF FlushPuts, OutGo, OutPCs
<1>3. CASE PutHeaderFails
  <2>1. /\ ResetSpeaker(TRUE)
        /\ out' = [out EXCEPT !.DeviceStopping = TRUE, !.Paused = TRUE,
                   !.LastError = FirstError(out.LastError, "device")]
    BY <1>1, <1>3 DEF PutHeaderFails, Outs
  <2>2. FirstError(out.LastError, "device") \in Errors
    BY <1>1, ErrorTypes DEF Errors, Outs
  <2>3. out' \in Outs /\ out'.hDevice = out.hDevice /\ out'.DeviceStopping
    BY <1>1, <2>1, <2>2 DEF Outs
  <2> QED BY <1>1, <1>2, <2>1, <2>3, AfterReset DEF OutAt, Draining
<1>4. CASE PutHeader(Scrap)
  <2>1. Scrap \in 0 .. NumHeaders
    BY WaveAssumption DEF Scrap
  <2>2. /\ speaker' = [speaker EXCEPT !.queue = Append(speaker.queue, Scrap)]
        /\ outDone' = [outDone EXCEPT ![Scrap] = FALSE]
        /\ UNCHANGED <<out, outData, heard>>
    BY <1>1, <1>4 DEF PutHeader, Speakers
  <2>3. PICK q \in Seq(0 .. NumHeaders) : q = Append(speaker.queue, Scrap)
    BY <1>1, <2>1, AppendFacts DEF Speakers
  <2>4. /\ speaker' \in Speakers /\ speaker'.queue = q /\ speaker'.open = speaker.open
        /\ speaker'.failed = speaker.failed
    BY <1>1, <2>2, <2>3 DEF Speakers
  <2>5. DOMAIN q = {1} /\ q[1] = Scrap
    BY <1>1, <2>1, <2>3, EmptySeq
  <2>6. outDone' \in Dones /\ ~outDone'[Scrap]
    BY <1>1, <2>1, <2>2 DEF Dones
  <2>7. OutTypeOK'
    BY <1>2, <2>2, <2>4, <2>6 DEF OutInv, OutTypeOK, Speakers, OutCalls, Dones
  <2>8. outData[Scrap] = << >> /\ \A h \in 0 .. NumHeaders : outData[h] = << >>
    BY <1>1, <2>1 DEF OutInv, Lent
  <2>9. Lent'
    BY <1>2, <2>2, <2>4, <2>5, <2>6, <2>8 DEF Lent, OutAt
  <2>10. NothingQueued' /\ Handle' /\ Working'
    BY <1>1, <1>2, <2>2, <2>4, <2>5 DEF OutInv, NothingQueued, Handle, Working, OutAt, Draining
  <2>11. QueuedUnits(speaker.queue)' = {} /\ QueuedUnits(speaker.queue) = {}
    BY <1>1, <2>2, <2>4, <2>5, <2>8 DEF QueuedUnits
  <2>12. \A i \in DOMAIN q : outData[q[i]] = << >>
    BY <2>5, <2>8
  <2>13. SoundInOrder'
    BY <2>2, <2>4, <2>5, <2>11, <2>12, NothingRises DEF OutInv, SoundInOrder
  <2> QED BY <2>7, <2>9, <2>10, <2>13 DEF OutInv
<1> QED BY <1>3, <1>4 DEF FlushPuts

\* ProcessAudioHeader hears of a header that is done.
LEMMA ProcessHeaderKeeps ==
  ASSUME OutInv, ProcessHeader PROVE OutInv'
<1>1. /\ out \in Outs /\ speaker \in Speakers /\ speaker.notices \in Nat /\ speaker.notices > 0
      /\ speaker' = [speaker EXCEPT !.notices = speaker.notices - 1]
      /\ UNCHANGED <<outDone, outData, outCall, heard>>
  BY OutTypes DEF OutInv, ProcessHeader, Speakers
<1>2. speaker.notices - 1 \in Nat
  BY <1>1
<1>3. /\ speaker' \in Speakers /\ speaker'.queue = speaker.queue /\ speaker'.open = speaker.open
      /\ speaker'.failed = speaker.failed
  BY <1>1, <1>2 DEF Speakers
<1>4. PICK e \in Errors : /\ out' = [out EXCEPT !.LastError = e]
                          /\ e = out.LastError \/ e # "none"
                          /\ ~out.DeviceStopping /\ (\A h \in Headers : outDone[h]) => e # "none"
  <2>1. out = [out EXCEPT !.LastError = out.LastError] /\ out.LastError \in Errors
    BY <1>1 DEF Outs
  <2>2. /\ FirstError(out.LastError, "overrun") \in Errors
        /\ FirstError(out.LastError, "overrun") # "none"
    BY <2>1, ErrorTypes DEF Errors
  <2>3. CASE ~out.DeviceStopping /\ \A h \in Headers : outDone[h]
    BY <1>1, <2>2, <2>3 DEF ProcessHeader, Outs
  <2>4. CASE ~(~out.DeviceStopping /\ \A h \in Headers : outDone[h])
    BY <2>1, <2>4 DEF ProcessHeader
  <2> QED BY <2>3, <2>4
<1>5. /\ out' \in Outs /\ out'.hDevice = out.hDevice /\ out'.DeviceStopping = out.DeviceStopping
      /\ out'.LastError = e
      /\ out'.CurrAudioBufferWriteIndex = out.CurrAudioBufferWriteIndex
  BY <1>1, <1>4 DEF Outs
<1>6. OutTypeOK'
  BY <1>1, <1>3, <1>5 DEF OutInv, OutTypeOK, Outs, Speakers
<1>7. Lent' /\ SoundInOrder'
  BY <1>1, <1>3, LentKept, SoundKept DEF OutInv, OutAt
<1>8. NothingQueued' /\ Handle'
  BY <1>1, <1>3, <1>5 DEF OutInv, NothingQueued, Handle, OutAt
<1>9. Working'
  <2>1. ~out.DeviceStopping /\ speaker.queue = << >> => e # "none"
    BY <1>4, EmptySeq DEF OutInv, Working
  <2> QED BY <1>1, <1>3, <1>5, <2>1 DEF OutInv, Working, OutAt
<1> QED BY <1>6, <1>7, <1>8, <1>9 DEF OutInv

\* Two sequences in order, the one before the other, make one in order.
LEMMA Joined ==
  ASSUME NEW s \in Seq(Int), NEW t \in Seq(Int), Rising(s), Rising(t), Before(s, t)
  PROVE  /\ Rising(s \o t)
         /\ Range(s \o t) = Range(s) \cup Range(t)
         /\ \A u : Before(s, u) /\ Before(t, u) => Before(s \o t, u)
<1>1. /\ Len(s) \in Nat /\ DOMAIN s = 1 .. Len(s) /\ \A i \in DOMAIN s : s[i] \in Int
      /\ Len(t) \in Nat /\ DOMAIN t = 1 .. Len(t) /\ \A i \in DOMAIN t : t[i] \in Int
  BY SeqFacts
<1>2. /\ DOMAIN (s \o t) = 1 .. Len(s) + Len(t)
      /\ \A i \in 1 .. Len(s) + Len(t) :
           (s \o t)[i] = IF i <= Len(s) THEN s[i] ELSE t[i - Len(s)]
  BY ConcatProperties, SeqFacts
<1>3. Range(s \o t) = Range(s) \cup Range(t)
  <2>1. ASSUME NEW x \in Range(s \o t) PROVE x \in Range(s) \cup Range(t)
    <3>1. PICK i \in 1 .. Len(s) + Len(t) : x = (s \o t)[i]
      BY <1>2 DEF Range
    <3>2. CASE i <= Len(s)
      <4>1. i \in DOMAIN s /\ x = s[i]
        BY <1>1, <1>2, <3>1, <3>2
      <4> QED BY <4>1 DEF Range
    <3>3. CASE i > Len(s)
      <4>1. i - Len(s) \in DOMAIN t /\ x = t[i - Len(s)]
        BY <1>1, <1>2, <3>1, <3>3
      <4> QED BY <4>1 DEF Range
    <3> QED BY <1>1, <3>2, <3>3
  <2>2. ASSUME NEW i \in DOMAIN s PROVE s[i] \in Range(s \o t)
    <3>1. i \in 1 .. Len(s) + Len(t) /\ (s \o t)[i] = s[i]
      BY <1>1, <1>2
    <3> QED BY <1>2, <3>1 DEF Range
  <2>3. ASSUME NEW i \in DOMAIN t PROVE t[i] \in Range(s \o t)
    <3>1. i + Len(s) \in 1 .. Len(s) + Len(t) /\ (s \o t)[i + Len(s)] = t[i]
      BY <1>1, <1>2
    <3> QED BY <1>2, <3>1 DEF Range
  <2> QED BY <2>1, <2>2, <2>3 DEF Range
<1>4. Rising(s \o t)
  <2> SUFFICES ASSUME NEW i \in 1 .. Len(s) + Len(t), NEW j \in 1 .. Len(s) + Len(t), i < j
               PROVE  (s \o t)[i] < (s \o t)[j]
    BY <1>2 DEF Rising
  <2>1. CASE j <= Len(s)
    <3>1. i \in DOMAIN s /\ j \in DOMAIN s /\ (s \o t)[i] = s[i] /\ (s \o t)[j] = s[j]
      BY <1>1, <1>2, <2>1
    <3> QED BY <3>1 DEF Rising
  <2>2. CASE i <= Len(s) /\ j > Len(s)
    <3>1. /\ i \in DOMAIN s /\ j - Len(s) \in DOMAIN t /\ (s \o t)[i] = s[i]
          /\ (s \o t)[j] = t[j - Len(s)]
      BY <1>1, <1>2, <2>2
    <3> QED BY <3>1 DEF Before
  <2>3. CASE i > Len(s)
    <3>1. /\ i - Len(s) \in DOMAIN t /\ j - Len(s) \in DOMAIN t /\ i - Len(s) < j - Len(s)
          /\ (s \o t)[i] = t[i - Len(s)] /\ (s \o t)[j] = t[j - Len(s)]
      BY <1>1, <1>2, <2>3
    <3> QED BY <3>1 DEF Rising
  <2> QED BY <1>1, <2>1, <2>2, <2>3
<1>5. ASSUME NEW u, Before(s, u), Before(t, u) PROVE Before(s \o t, u)
  <2> SUFFICES ASSUME NEW i \in 1 .. Len(s) + Len(t), NEW j \in DOMAIN u PROVE (s \o t)[i] < u[j]
    BY <1>2 DEF Before
  <2>1. CASE i <= Len(s)
    <3>1. i \in DOMAIN s /\ (s \o t)[i] = s[i]
      BY <1>1, <1>2, <2>1
    <3> QED BY <1>5, <3>1 DEF Before
  <2>2. CASE i > Len(s)
    <3>1. i - Len(s) \in DOMAIN t /\ (s \o t)[i] = t[i - Len(s)]
      BY <1>1, <1>2, <2>2
    <3> QED BY <1>5, <3>1 DEF Before
  <2> QED BY <1>1, <2>1, <2>2
<1> QED BY <1>3, <1>4, <1>5

\* The units of a block: the next ones, in order.
LEMMA BlockFacts ==
  ASSUME NEW n \in Nat, NEW k \in Nat
  PROVE  /\ DOMAIN Block(n, k) = 1 .. k /\ Rising(Block(n, k))
         /\ Range(Block(n, k)) = n .. n + k - 1
         /\ \A j \in DOMAIN Block(n, k) : Block(n, k)[j] \in n .. n + k - 1
<1>1. DOMAIN Block(n, k) = 1 .. k /\ \A j \in 1 .. k : Block(n, k)[j] = n + j - 1
  BY DEF Block
<1>2. ASSUME NEW x \in n .. n + k - 1 PROVE x \in Range(Block(n, k))
  <2>1. x - n + 1 \in 1 .. k /\ Block(n, k)[x - n + 1] = x
    BY <1>1
  <2> QED BY <1>1, <2>1 DEF Range
<1>3. \A j \in DOMAIN Block(n, k) : Block(n, k)[j] \in n .. n + k - 1
  BY <1>1
<1>4. Range(Block(n, k)) = n .. n + k - 1
  BY <1>2, <1>3 DEF Range
<1> QED BY <1>1, <1>3, <1>4 DEF Rising

\* A block is a sequence of units.
LEMMA BlockIsSeq ==
  ASSUME NEW n \in Nat, NEW k \in Nat, n + k <= MaxUnits
  PROVE  Block(n, k) \in Seq(0 .. MaxUnits - 1)
BY WaveAssumption DEF Block

\* Every unit heard or queued was written.
LEMMA UnitsBelow ==
  ASSUME OutTypeOK, SoundInOrder
  PROVE  /\ \A i \in DOMAIN heard.played : heard.played[i] \in 0 .. heard.next - 1
         /\ \A i \in DOMAIN speaker.queue : \A j \in DOMAIN outData[speaker.queue[i]] :
              outData[speaker.queue[i]][j] \in 0 .. heard.next - 1
BY DEF SoundInOrder, Range, QueuedUnits

\* The header after the last is the first.
LEMMA RingStays == ASSUME NEW h \in Headers PROVE NextHeader(h) \in Headers
<1>1. h + 1 \in Nat /\ NumHeaders \in Nat \ {0}
  BY WaveAssumption DEF Headers
<1>2. (h + 1) % NumHeaders \in 0 .. NumHeaders - 1
  BY <1>1
<1> QED BY <1>2 DEF NextHeader, Headers

\* WriteData fills a header and gives it to the device, which may refuse it.
LEMMA FillHeaderKeeps ==
  ASSUME OutInv, FillHeader PROVE OutInv'
<1> DEFINE h == out.CurrAudioBufferWriteIndex
           n == Smaller(outCall.len, BufferSize)
<1>1. /\ outCall.pc = "write" /\ out \in Outs /\ speaker \in Speakers /\ outDone \in Dones
      /\ outCall \in OutCalls
      /\ heard \in Sounds /\ outData \in Datas /\ speaker.queue \in Seq(0 .. NumHeaders)
      /\ h \in Headers /\ h \in 0 .. NumHeaders /\ h # Scrap /\ outDone[h] /\ ~out.DeviceStopping
      /\ outCall.len > 0 /\ out.hDevice
      /\ heard.next + outCall.len <= MaxUnits /\ heard.next \in Nat /\ outCall.len \in Nat
  <2>1. /\ out \in Outs /\ speaker \in Speakers /\ outDone \in Dones /\ outCall \in OutCalls
        /\ heard \in Sounds /\ outData \in Datas
    BY OutTypes DEF OutInv
  <2>2. /\ outCall.pc = "write" /\ outDone[h] /\ ~out.DeviceStopping /\ outCall.len > 0
        /\ out.hDevice /\ heard.next + outCall.len <= MaxUnits
    BY DEF FillHeader, MayFill, OutAt, OutInv, Handle, Working
  <2>3. /\ h \in Headers /\ speaker.queue \in Seq(0 .. NumHeaders) /\ heard.next \in Nat
        /\ outCall.len \in Nat
    BY <2>1 DEF Outs, Speakers, OutCalls, Sounds
  <2>4. h \in 0 .. NumHeaders /\ h # Scrap
    BY <2>3, WaveAssumption DEF Headers, Scrap
  <2> QED BY <2>1, <2>2, <2>3, <2>4
<1>2. n \in Nat /\ n > 0 /\ n <= outCall.len
  BY <1>1, WaveAssumption DEF Smaller
<1> HIDE DEF n, h
<1>3. CASE PutHeaderFails /\ OutReturn
  <2>1. /\ ResetSpeaker(TRUE)
        /\ out' = [out EXCEPT !.DeviceStopping = TRUE, !.Paused = TRUE,
                   !.LastError = FirstError(out.LastError, "device")]
    BY <1>1, <1>3 DEF PutHeaderFails, Outs
  <2>2. FirstError(out.LastError, "device") \in Errors
    BY <1>1, ErrorTypes DEF Errors, Outs
  <2>3. out' \in Outs /\ out'.hDevice = out.hDevice /\ out'.DeviceStopping
    BY <1>1, <2>1, <2>2 DEF Outs
  <2>4. outCall' \in OutCalls /\ outCall'.pc = "idle"
    BY <1>3, OutCallEnds DEF OutReturn
  <2> QED BY <1>1, <2>1, <2>3, <2>4, AfterReset DEF OutAt, Draining
<1>4. CASE /\ outData' = [outData EXCEPT ![h] = Block(heard.next, n)]
           /\ speaker' = [speaker EXCEPT !.queue = Append(@, h)]
           /\ outDone' = [outDone EXCEPT ![h] = FALSE]
           /\ heard' = [heard EXCEPT !.next = @ + n]
           /\ out' = [out EXCEPT !.CurrAudioBufferWriteIndex = NextHeader(@)]
           /\ outCall' = [outCall EXCEPT !.len = @ - n]
  <2>1. PICK q \in Seq(0 .. NumHeaders) : q = Append(speaker.queue, h)
    BY <1>1, AppendFacts
  <2>2. /\ Len(speaker.queue) \in Nat /\ DOMAIN speaker.queue = 1 .. Len(speaker.queue)
        /\ DOMAIN q = DOMAIN speaker.queue \cup {Len(speaker.queue) + 1}
        /\ \A i \in DOMAIN speaker.queue :
             q[i] = speaker.queue[i] /\ speaker.queue[i] # h
                /\ speaker.queue[i] \in 0 .. NumHeaders
        /\ q[Len(speaker.queue) + 1] = h /\ q # << >>
    <3>1. \A i \in DOMAIN speaker.queue :
            speaker.queue[i] # h /\ speaker.queue[i] \in 0 .. NumHeaders
      BY <1>1, OutShape DEF OutInv, Lent
    <3> QED BY <1>1, <2>1, <3>1, AppendFacts, SeqFacts
  <2>3. /\ speaker' \in Speakers /\ speaker'.queue = q /\ speaker'.open = speaker.open
        /\ speaker'.failed = speaker.failed
    <3>1. speaker' = [speaker EXCEPT !.queue = q]
      BY <1>1, <1>4, <2>1 DEF Speakers
    <3> QED BY <1>1, <3>1 DEF Speakers
  <2>4. outDone' \in Dones /\ ~outDone'[h] /\ \A g \in 0 .. NumHeaders :
          g # h => outDone'[g] = outDone[g]
    BY <1>1, <1>4 DEF Dones
  <2>5. PICK b \in Seq(0 .. MaxUnits - 1) : b = Block(heard.next, n)
    <3>1. heard.next + n <= MaxUnits
      BY <1>1, <1>2, WaveAssumption
    <3> QED BY <1>1, <1>2, <3>1, BlockIsSeq
  <2>6. outData' \in Datas /\ outData'[h] = b /\ \A g \in 0 .. NumHeaders :
          g # h => outData'[g] = outData[g]
    BY <1>1, <1>4, <2>5 DEF Datas
  <2>7. /\ heard' \in Sounds /\ heard'.next = heard.next + n /\ heard'.played = heard.played
        /\ heard'.dropped = heard.dropped
    <3>1. PICK k \in 0 .. MaxUnits : k = heard.next + n
      BY <1>1, <1>2, WaveAssumption
    <3>2. heard' = [heard EXCEPT !.next = k]
      BY <1>1, <1>4, <3>1 DEF Sounds
    <3> QED BY <1>1, <3>1, <3>2 DEF Sounds
  <2>8. outCall' \in OutCalls /\ outCall'.pc = "write" /\ outCall'.len = outCall.len - n
    <3>1. PICK k \in Nat : k = outCall.len - n
      BY <1>1, <1>2
    <3>2. outCall' = [outCall EXCEPT !.len = k]
      BY <1>1, <1>4, <3>1 DEF OutCalls
    <3> QED BY <1>1, <3>1, <3>2 DEF OutCalls
  <2>9. out' \in Outs /\ out'.hDevice = out.hDevice /\ out'.DeviceStopping = out.DeviceStopping
    <3>1. PICK g \in Headers : g = NextHeader(h)
      BY <1>1, RingStays
    <3>2. out' = [out EXCEPT !.CurrAudioBufferWriteIndex = g]
      BY <1>1, <1>4, <3>1 DEF Outs, h
    <3> QED BY <1>1, <3>1, <3>2 DEF Outs
  <2>10. OutTypeOK'
    BY <2>3, <2>4, <2>6, <2>7, <2>8, <2>9
    DEF OutTypeOK, Outs, Dones, Datas, Speakers, OutCalls, Sounds
  <2>11. Lent'
    <3>1. \A i \in DOMAIN q : ~outDone'[q[i]] /\ q[i] # Scrap
      BY <1>1, <2>2, <2>4 DEF OutInv, Lent, OutAt
    <3>2. \A i, j \in DOMAIN q : q[i] = q[j] => i = j
      BY <1>1, <2>2 DEF OutInv, Lent
    <3>3. ASSUME NEW g \in 0 .. NumHeaders, \A i \in DOMAIN q : q[i] # g
          PROVE  outData'[g] = << >>
      <4>1. g # h /\ \A i \in DOMAIN speaker.queue : speaker.queue[i] # g
        BY <2>2, <3>3
      <4> QED BY <2>6, <4>1 DEF OutInv, Lent
    <3> QED BY <2>3, <3>1, <3>2, <3>3 DEF Lent
  <2>12. NothingQueued' /\ Handle'
    BY <1>1, <2>3, <2>8, <2>9 DEF OutInv, NothingQueued, Handle, OutAt, Draining
  <2>13. Working'
    <3>1. ASSUME NEW g \in Headers PROVE outDone'[g] \/ \E i \in DOMAIN q : q[i] = g
      <4>1. g \in 0 .. NumHeaders
        BY WaveAssumption DEF Headers
      <4>2. CASE g = h
        BY <2>2, <4>2
      <4>3. CASE g # h
        BY <1>1, <2>2, <2>4, <4>1, <4>3, SMTT(30) DEF OutInv, Working
      <4> QED BY <4>2, <4>3
    <3>2. heard'.next + outCall'.len <= MaxUnits
      BY <1>1, <1>2, <2>7, <2>8
    <3> QED BY <2>2, <2>3, <2>8, <3>1, <3>2 DEF Working, OutAt
  <2>14. SoundInOrder'
    <3>1. /\ DOMAIN b = 1 .. n /\ Rising(b) /\ Range(b) = heard.next .. heard.next + n - 1
          /\ \A j \in DOMAIN b : b[j] \in heard.next .. heard.next + n - 1
      BY <1>1, <1>2, <2>5, BlockFacts
    <3>2. \A i \in DOMAIN speaker.queue : outData'[q[i]] = outData[speaker.queue[i]]
      BY <2>2, <2>6
    <3>3. outData'[q[Len(speaker.queue) + 1]] = b
      BY <2>2, <2>6
    <3>4. Before(heard.played, b) /\ \A i \in DOMAIN speaker.queue :
            Before(outData[speaker.queue[i]], b)
      <4>1. \A x \in 0 .. heard.next - 1, j \in DOMAIN b : x < b[j]
        BY <1>1, <1>2, <3>1
      <4> QED BY <4>1, UnitsBelow DEF OutInv, Before
    <3>5. \A i \in DOMAIN q : Rising(outData'[q[i]]) /\ Before(heard.played, outData'[q[i]])
      BY <2>2, <3>1, <3>2, <3>3, <3>4 DEF OutInv, SoundInOrder
    <3>6. \A i, j \in DOMAIN q : i < j => Before(outData'[q[i]], outData'[q[j]])
      BY <2>2, <3>2, <3>3, <3>4 DEF OutInv, SoundInOrder
    <3>7. QueuedUnits(speaker.queue)' = QueuedUnits(speaker.queue) \cup Range(b)
      <4>1. QueuedUnits(speaker.queue)
               = UNION {Range(outData[speaker.queue[i]]) : i \in DOMAIN speaker.queue}
        BY DEF QueuedUnits, Range
      <4>2. QueuedUnits(speaker.queue)' = UNION {Range(outData'[q[i]]) : i \in DOMAIN q}
        BY <2>3 DEF QueuedUnits, Range
      <4> QED BY <2>2, <3>2, <3>3, <4>1, <4>2
    <3>8. Range(heard.played) \cup (QueuedUnits(speaker.queue) \cup Range(b)) \cup heard.dropped
             = 0 .. heard.next + n - 1
      <4>1. Range(heard.played) \cup QueuedUnits(speaker.queue) \cup heard.dropped
               = 0 .. heard.next - 1
        BY DEF OutInv, SoundInOrder
      <4>2. (0 .. heard.next - 1) \cup (heard.next .. heard.next + n - 1)
               = 0 .. heard.next + n - 1
        BY <1>1, <1>2
      <4> QED BY <3>1, <4>1, <4>2
    <3>9. Rising(heard.played)
      BY DEF OutInv, SoundInOrder
    <3>10. (Range(heard.played) \cup QueuedUnits(speaker.queue) \cup heard.dropped
              = 0 .. heard.next - 1)'
      <4>1. Range(heard'.played) = Range(heard.played)
        BY <2>7
      <4>2. heard'.dropped = heard.dropped /\ heard'.next - 1 = heard.next + n - 1
        BY <1>1, <1>2, <2>7
      <4> QED BY <3>7, <3>8, <4>1, <4>2
    <3> QED BY <2>3, <2>7, <3>5, <3>6, <3>9, <3>10 DEF SoundInOrder
  <2> QED BY <2>10, <2>11, <2>12, <2>13, <2>14 DEF OutInv
<1> QED BY <1>3, <1>4 DEF FillHeader, h, n

\* A sequence without its head.
LEMMA TailFacts ==
  ASSUME NEW S, NEW s \in Seq(S), s # << >>
  PROVE  /\ Tail(s) \in Seq(S) /\ Head(s) = s[1] /\ 1 \in DOMAIN s
         /\ DOMAIN Tail(s) = 1 .. Len(s) - 1
         /\ \A i \in DOMAIN Tail(s) : Tail(s)[i] = s[i + 1] /\ i + 1 \in DOMAIN s
<1>1. Len(s) \in Nat \ {0} /\ DOMAIN s = 1 .. Len(s)
  BY EmptySeq, SeqFacts
<1> QED BY <1>1, HeadTailProperties, SeqFacts

\* The device plays a header to its end.
LEMMA PlayHeaderKeeps ==
  ASSUME OutInv, PlayHeader PROVE OutInv'
<1> DEFINE h == Head(speaker.queue)
<1>1. /\ speaker \in Speakers /\ outDone \in Dones /\ heard \in Sounds /\ outData \in Datas
      /\ speaker.queue \in Seq(0 .. NumHeaders) /\ speaker.queue # << >>
      /\ speaker.notices \in Nat
  BY OutTypes DEF OutInv, PlayHeader, Speakers
<1>2. /\ h = speaker.queue[1] /\ 1 \in DOMAIN speaker.queue /\ h \in 0 .. NumHeaders
      /\ DOMAIN speaker.queue = 1 .. Len(speaker.queue) /\ Len(speaker.queue) \in Nat
  <2>1. h = speaker.queue[1] /\ 1 \in DOMAIN speaker.queue
    BY <1>1, TailFacts
  <2>2. /\ DOMAIN speaker.queue = 1 .. Len(speaker.queue) /\ Len(speaker.queue) \in Nat
        /\ \A i \in DOMAIN speaker.queue : speaker.queue[i] \in 0 .. NumHeaders
    BY <1>1, SeqFacts
  <2> QED BY <2>1, <2>2
<1>3. PICK q \in Seq(0 .. NumHeaders) : q = Tail(speaker.queue)
  BY <1>1, TailFacts
<1>4. /\ DOMAIN q = 1 .. Len(speaker.queue) - 1
      /\ \A i \in DOMAIN q :
           q[i] = speaker.queue[i + 1] /\ i + 1 \in DOMAIN speaker.queue /\ q[i] # h
              /\ q[i] \in 0 .. NumHeaders
  <2>1. /\ DOMAIN q = 1 .. Len(speaker.queue) - 1
        /\ \A i \in DOMAIN q : q[i] = speaker.queue[i + 1] /\ i + 1 \in DOMAIN speaker.queue
    BY <1>1, <1>3, TailFacts
  <2>2. \A i \in DOMAIN q : i + 1 # 1
    BY <2>1
  <2>3. \A i \in DOMAIN q : q[i] \in 0 .. NumHeaders
    BY <1>3, SeqFacts
  <2> HIDE DEF h
  <2> QED BY <1>2, <2>1, <2>2, <2>3 DEF OutInv, Lent
<1>5. PICK k \in Nat : k = speaker.notices + 1
  BY <1>1
<1>6. UNCHANGED <<out, outCall>> /\ speaker' = [speaker EXCEPT !.queue = q, !.notices = k]
      /\ outDone' = [outDone EXCEPT ![h] = TRUE] /\ outData' = [outData EXCEPT ![h] = << >>]
      /\ heard' = [heard EXCEPT !.played = heard.played \o outData[h]]
  BY <1>1, <1>3, <1>5 DEF PlayHeader, Speakers, Sounds
<1> HIDE DEF h
<1>7. /\ speaker' \in Speakers /\ speaker'.queue = q /\ speaker'.notices = k
      /\ speaker'.open = speaker.open /\ speaker'.failed = speaker.failed
  BY <1>1, <1>6 DEF Speakers
<1>8. outDone' \in Dones /\ outDone'[h] /\ \A g \in 0 .. NumHeaders :
        g # h => outDone'[g] = outDone[g]
  BY <1>1, <1>2, <1>6 DEF Dones
<1>9. outData' \in Datas /\ outData'[h] = << >> /\ \A g \in 0 .. NumHeaders :
        g # h => outData'[g] = outData[g]
  BY <1>1, <1>2, <1>6, EmptySeq DEF Datas
<1>10. heard.played \in Seq(0 .. MaxUnits - 1) /\ outData[h] \in Seq(0 .. MaxUnits - 1)
  BY <1>1, <1>2 DEF Sounds, Datas
<1>11. PICK p \in Seq(0 .. MaxUnits - 1) : p = heard.played \o outData[h]
  BY <1>10, ConcatProperties
<1>12. /\ heard' \in Sounds /\ heard'.played = p /\ heard'.next = heard.next
       /\ heard'.dropped = heard.dropped
  BY <1>1, <1>6, <1>11 DEF Sounds
<1>13. OutTypeOK'
  BY <1>6, <1>7, <1>8, <1>9, <1>12 DEF OutInv, OutTypeOK, Dones, Datas, Speakers, Sounds
<1>14. Lent'
  <2>1. \A i \in DOMAIN q : ~outDone'[q[i]] /\ (q[i] = Scrap => OutAt("flushing"))
    BY <1>4, <1>8 DEF OutInv, Lent
  <2>2. \A i, j \in DOMAIN q : q[i] = q[j] => i = j
    <3> SUFFICES ASSUME NEW i \in DOMAIN q, NEW j \in DOMAIN q, q[i] = q[j] PROVE i = j
      OBVIOUS
    <3>1. i + 1 = j + 1
      BY <1>4 DEF OutInv, Lent
    <3> QED BY <1>2, <1>4, <3>1
  <2>3. ASSUME NEW g \in 0 .. NumHeaders, \A i \in DOMAIN q : q[i] # g, g # h
        PROVE  outData[g] = << >>
    <3>1. ASSUME NEW i \in DOMAIN speaker.queue PROVE speaker.queue[i] # g
      <4>1. CASE i = 1
        BY <1>2, <2>3, <4>1
      <4>2. CASE i # 1
        <5>1. i - 1 \in DOMAIN q /\ (i - 1) + 1 = i
          BY <1>2, <1>4, <4>2, SMTT(30)
        <5>2. q[i - 1] = speaker.queue[i]
          BY <1>4, <5>1
        <5> QED BY <2>3, <5>1, <5>2
      <4> QED BY <4>1, <4>2
    <3> QED BY <3>1 DEF OutInv, Lent
  <2>4. \A g \in 0 .. NumHeaders : (\A i \in DOMAIN q : q[i] # g) => outData'[g] = << >>
    BY <1>9, <2>3
  <2> QED BY <1>6, <1>7, <2>1, <2>2, <2>4 DEF Lent, OutAt
<1>15. NothingQueued' /\ Handle'
  <2>1. out.hDevice /\ (out.DeviceStopping => OutAt("drain") \/ OutAt("flushing"))
    BY <1>1 DEF OutInv, NothingQueued, Handle, Draining, OutAt
  <2> QED BY <1>4, <1>6, <1>7, <2>1 DEF OutInv, NothingQueued, Handle, OutAt
<1>16. Working'
  <2>1. ASSUME ~out.DeviceStopping, NEW g \in Headers
        PROVE  outDone'[g] \/ \E i \in DOMAIN q : q[i] = g
    <3>1. g \in 0 .. NumHeaders
      BY WaveAssumption DEF Headers
    <3>2. CASE g = h
      BY <1>8, <3>2
    <3>3. ASSUME g # h, NEW i \in DOMAIN speaker.queue, speaker.queue[i] = g
          PROVE  \E j \in DOMAIN q : q[j] = g
      <4>1. i # 1
        BY <1>2, <3>3
      <4>2. i - 1 \in DOMAIN q /\ (i - 1) + 1 = i
        BY <1>2, <1>4, <4>1, SMTT(30)
      <4>3. q[i - 1] = g
        BY <1>4, <3>3, <4>2
      <4> QED BY <4>2, <4>3
    <3> QED BY <1>8, <2>1, <3>1, <3>2, <3>3 DEF OutInv, Working
  <2>2. speaker'.notices # 0
    BY <1>1, <1>5, <1>7
  <2> QED BY <1>6, <1>7, <1>12, <2>1, <2>2 DEF OutInv, Working, OutAt
<1>17. SoundInOrder'
  <2>1. \A i \in DOMAIN q : outData'[q[i]] = outData[speaker.queue[i + 1]]
    BY <1>4, <1>9
  <2>2. 0 .. MaxUnits - 1 \subseteq Int
    OBVIOUS
  <2>3. heard.played \in Seq(Int) /\ outData[h] \in Seq(Int)
    BY <1>10, <2>2, SeqMonotonic
  <2>4. Rising(heard.played) /\ Rising(outData[h]) /\ Before(heard.played, outData[h])
    BY <1>2 DEF OutInv, SoundInOrder
  <2>5. Rising(p) /\ Range(p) = Range(heard.played) \cup Range(outData[h])
        /\ \A u : Before(heard.played, u) /\ Before(outData[h], u) => Before(p, u)
    BY <1>11, <2>3, <2>4, Joined
  <2>6. ASSUME NEW i \in DOMAIN q PROVE Rising(outData'[q[i]]) /\ Before(p, outData'[q[i]])
    <3>1. i + 1 \in DOMAIN speaker.queue /\ 1 < i + 1
      BY <1>4
    <3>2. /\ Before(outData[h], outData[speaker.queue[i + 1]])
          /\ Before(heard.played, outData[speaker.queue[i + 1]])
          /\ Rising(outData[speaker.queue[i + 1]])
      BY <1>2, <3>1 DEF OutInv, SoundInOrder
    <3> QED BY <2>1, <2>5, <3>2
  <2>7. ASSUME NEW i \in DOMAIN q, NEW j \in DOMAIN q, i < j
        PROVE  Before(outData'[q[i]], outData'[q[j]])
    <3>1. i + 1 \in DOMAIN speaker.queue /\ j + 1 \in DOMAIN speaker.queue /\ i + 1 < j + 1
      BY <1>2, <1>4, <2>7
    <3> QED BY <2>1, <3>1 DEF OutInv, SoundInOrder
  <2>8. QueuedUnits(speaker.queue) = QueuedUnits(speaker.queue)' \cup Range(outData[h])
    <3>1. ASSUME NEW i \in DOMAIN speaker.queue
          PROVE  i = 1 \/ (i - 1 \in DOMAIN q /\ outData'[q[i - 1]] = outData[speaker.queue[i]])
      <4>1. CASE i # 1
        <5>1. i - 1 \in DOMAIN q /\ (i - 1) + 1 = i
          BY <1>2, <1>4, <4>1
        <5> QED BY <2>1, <5>1
      <4> QED BY <4>1
    <3>2. QueuedUnits(speaker.queue)
             = UNION {Range(outData[speaker.queue[i]]) : i \in DOMAIN speaker.queue}
      BY DEF QueuedUnits, Range
    <3>3. QueuedUnits(speaker.queue)' = UNION {Range(outData'[q[i]]) : i \in DOMAIN q}
      BY <1>7 DEF QueuedUnits, Range
    <3>4. \A i \in DOMAIN q : i + 1 \in DOMAIN speaker.queue
      BY <1>4
    <3>5. \A i \in DOMAIN q : Range(outData'[q[i]]) = Range(outData[speaker.queue[i + 1]])
      BY <2>1
    <3>6. \A i \in DOMAIN speaker.queue :
            \/ i = 1
            \/ i - 1 \in DOMAIN q /\ Range(outData'[q[i - 1]]) = Range(outData[speaker.queue[i]])
      BY <3>1
    <3>7. outData[speaker.queue[1]] = outData[h] /\ 1 \in DOMAIN speaker.queue
      BY <1>2
    <3>8. ASSUME NEW x
          PROVE  x \in QueuedUnits(speaker.queue)
                    <=> x \in QueuedUnits(speaker.queue)' \cup Range(outData[h])
      <4>1. ASSUME x \in QueuedUnits(speaker.queue)
            PROVE  x \in QueuedUnits(speaker.queue)' \cup Range(outData[h])
        <5>1. PICK i \in DOMAIN speaker.queue : x \in Range(outData[speaker.queue[i]])
          BY <3>2, <4>1
        <5>2. CASE i = 1
          BY <3>7, <5>1, <5>2
        <5>3. CASE i # 1
          BY <3>3, <3>6, <5>1, <5>3
        <5> QED BY <5>2, <5>3
      <4>2. ASSUME x \in QueuedUnits(speaker.queue)' PROVE x \in QueuedUnits(speaker.queue)
        BY <3>2, <3>3, <3>4, <3>5, <4>2
      <4>3. ASSUME x \in Range(outData[h]) PROVE x \in QueuedUnits(speaker.queue)
        BY <3>2, <3>7, <4>3
      <4> QED BY <4>1, <4>2, <4>3
    <3> QED BY <3>8
  <2>9. Range(p) \cup QueuedUnits(speaker.queue)' \cup heard.dropped = 0 .. heard.next - 1
    BY <2>5, <2>8 DEF OutInv, SoundInOrder
  <2> QED BY <1>7, <1>12, <2>5, <2>6, <2>7, <2>9 DEF SoundInOrder
<1> QED BY <1>13, <1>14, <1>15, <1>16, <1>17 DEF OutInv

\* The invariant holds at the start.
LEMMA OutInitInv == OutInit => OutInv
<1> SUFFICES ASSUME OutInit PROVE OutInv
  OBVIOUS
<1>1. out \in Outs /\ outDone \in Dones
  BY WaveAssumption DEF OutInit, Outs, Headers, Errors, Dones
<1>2. outData \in Datas /\ \A h \in 0 .. NumHeaders : outData[h] = << >>
  BY EmptySeq DEF OutInit, Datas
<1>3. speaker \in Speakers /\ speaker.queue = << >> /\ speaker.open = 0
  BY EmptySeq DEF OutInit, Speakers, NoDevice, MaxHandles
<1>4. outCall \in OutCalls /\ outCall.pc = "idle"
  BY DEF OutInit, OutCalls, NoCall, OutPCs
<1>5. heard \in Sounds /\ heard.played = << >> /\ heard.dropped = {} /\ heard.next = 0
  BY WaveAssumption, EmptySeq DEF OutInit, Sounds, NewStream
<1>6. OutTypeOK
  BY <1>1, <1>2, <1>3, <1>4, <1>5, OutTypes
<1>7. DOMAIN << >> = {}
  OBVIOUS
<1>8. SoundInOrder
  BY <1>3, <1>5, <1>7 DEF SoundInOrder, QueuedUnits, Rising, Range
<1>9. Lent /\ NothingQueued /\ Handle /\ Working
  BY <1>2, <1>3, <1>4, <1>7 DEF OutInit, Lent, NothingQueued, Handle, Working, OutAt, Draining
<1> QED BY <1>6, <1>8, <1>9 DEF OutInv

\* Every step of the object, its user and the device keeps the invariant.
LEMMA OutNextInv == OutInv /\ [OutNext]_outVars => OutInv'
<1> SUFFICES ASSUME OutInv, [OutNext]_outVars PROVE OutInv'
  OBVIOUS
<1>1. ASSUME NEW flag \in BOOLEAN, StartOut(flag) \/ StopOut(flag) PROVE OutInv'
  BY <1>1, BeginKeeps DEF StartOut, StopOut
<1>2. ASSUME NEW flag \in BOOLEAN, NEW n \in WriteSizes, WriteOut(n, flag) PROVE OutInv'
  BY <1>2, BeginWriteKeeps
<1>3. CASE OutUser
  BY <1>1, <1>2, <1>3, PausedKeeps, ResetOutKeeps DEF OutUser
<1>4. CASE OutStep
  BY <1>4, MovesKeep, StopBeginsKeeps, DrainedKeeps, FlushPutsKeeps, CloseOutKeeps, OpenOutKeeps,
     PrepareOutKeeps, PausedKeeps, FillHeaderKeeps DEF OutStep
<1>5. CASE UNCHANGED outVars
  <2>1. SoundInOrder' /\ Lent'
    BY <1>5, SoundKept, LentKept DEF OutInv, outVars, OutAt
  <2> QED BY <1>5, <2>1 DEF OutInv, outVars, OutTypeOK, NothingQueued, Handle, Working, OutAt
<1> QED BY <1>3, <1>4, <1>5, PlayHeaderKeeps, ProcessHeaderKeeps DEF OutNext

\* The invariant holds throughout, for every number and size of the headers, amount of
\* sound and set of sizes the user writes.
THEOREM OutInvariant == OutSpec => []OutInv
BY OutInitInv, OutNextInv, PTL DEF OutSpec

\* c_audio_out plays what WriteData was given in the order it was given, each unit once,
\* and every unit is played, queued or dropped (c_audio_out.cpp:141-172, 329-350).
THEOREM SoundIsInOrder == OutSpec => []SoundInOrder
<1>1. OutInv => SoundInOrder
  BY DEF OutInv
<1> QED BY <1>1, OutInvariant, PTL

\* The invariant says what the object tells its user.
LEMMA OutIsTruthful == OutInv => HandleClosed /\ DryReported
<1> SUFFICES ASSUME OutInv PROVE HandleClosed /\ DryReported
  OBVIOUS
<1>1. HandleClosed
  BY OutTypes DEF OutInv, Handle, HandleClosed, OutAt, Outs
<1>2. DryReported
  BY DEF OutInv, Working, DryReported
<1> QED BY <1>1, <1>2

------------------------------------------------------------------------------

\* Once a block was written after the Stop the thread does not come to write another.
GenInv ==
  /\ genAfter \in 0 .. 1
  /\ genAfter # 0 => gen.Stopped = TRUE /\ genWorker \in {"none", "time", "stopped", "close"}
  /\ gen \in [Stopped : BOOLEAN, Paused : BOOLEAN, timed : BOOLEAN]

\* Throughout, the generator thread writes at most one block after Stop.
LEMMA GenInvariant == GenSpec => []GenInv
<1>1. GenInit => GenInv
  BY DEF GenInit, GenInv
<1>2. ASSUME GenInv, [GenNext]_genVars PROVE GenInv'
  <2>1. ASSUME NEW b \in BOOLEAN, StartGen(b) \/ PauseGen(b) PROVE GenInv'
    <3>1. CASE StartGen(b)
      BY <3>1 DEF StartGen, GenInv
    <3>2. CASE PauseGen(b)
      BY <1>2, <3>2 DEF PauseGen, GenInv
    <3> QED BY <2>1, <3>1, <3>2
  <2>2. CASE StopGen
    BY <1>2, <2>2 DEF StopGen, GenInv
  <2>3. CASE OpenOutput \/ LookAtTime \/ LookAtStopped \/ LookAtPaused \/ CloseOutput
    BY <1>2, <2>3
    DEF OpenOutput, LookAtTime, LookAtStopped, LookAtPaused, CloseOutput, GenGo, GenInv
  <2>4. CASE WriteSound
    BY <1>2, <2>4 DEF WriteSound, GenGo, GenInv, MaxAfter
  <2>5. CASE UNCHANGED genVars
    BY <1>2, <2>5 DEF genVars, GenInv
  <2> QED BY <1>2, <2>1, <2>2, <2>3, <2>4, <2>5 DEF GenNext, GenUser, GenStep
<1> QED BY <1>1, <1>2, PTL DEF GenSpec

\* IsStarted and the handle agree, a device that ran dry is reported by the error or by a
\* notice still on its way, and c_aud_generator stops within one block of Stop.
THEOREM TellsTheTruth == OutSpec /\ GenSpec => []OutTruthful
<1>1. OutInv /\ GenInv => OutTruthful
  BY OutIsTruthful DEF OutTruthful, GenInv, GenStopsSoon
<1> QED BY <1>1, OutInvariant, GenInvariant, PTL

\* No step but a Reset by the user, the close, a Stop that need not wait and a failure of the
\* device drops sound (c_audio_out.cpp:275-313).
THEOREM StopKeepsTheSound == OutSpec => StopKeepsSound
<1> DEFINE Kept == heard'.dropped # heard.dropped =>
              OutAt("idle") \/ OutAt("close") \/ NotWaitBuffers \/ speaker'.failed
<1>1. ASSUME OutInv, [OutNext]_outVars PROVE [Kept]_outVars
  <2> SUFFICES ASSUME OutNext, heard'.dropped # heard.dropped, ~OutAt("idle"), ~OutAt("close"),
    ~NotWaitBuffers
               PROVE  speaker'.failed
    BY <1>1
  <2>1. speaker \in Speakers /\ heard \in Sounds
    BY <1>1, OutTypes DEF OutInv
  <2>2. CASE OutUser
    BY <2>2 DEF OutUser, StartOut, StopOut, WriteOut, BeginOut, PauseOut, ResumeOut, ResetOut
  <2>3. CASE StopNothing \/ StopBegins \/ Flushed \/ OpenOut \/ PrepareOut \/ WriteReturns
           \/ AutoResume
    BY <2>3 DEF StopNothing, StopBegins, Flushed, OpenOut, PrepareOut, WriteReturns, AutoResume
  <2>4. CASE CloseOut
    BY <2>4 DEF CloseOut
  <2>5. CASE Drained
    <3>1. ResetSpeaker(FALSE) /\ speaker.queue = << >>
      BY <1>1, <2>5, AllDone DEF Drained, OutAt
    <3>2. heard'.dropped = heard.dropped \cup QueuedUnits(speaker.queue)
      BY <1>1, <3>1, ResetClears, <2>1 DEF Reset, OutInv, Sounds
    <3>3. QueuedUnits(speaker.queue) = {}
      BY <3>1 DEF QueuedUnits
    <3> QED BY <3>2, <3>3
  <2>6. ASSUME PutHeaderFails PROVE speaker'.failed
    <3>1. Reset(TRUE)
      BY <1>1, <2>6, ResetClears DEF PutHeaderFails, OutInv
    <3> QED BY <2>1, <3>1 DEF Reset, Speakers
  <2>7. CASE FlushPuts
    BY <2>6, <2>7 DEF FlushPuts, PutHeader
  <2>8. CASE FillHeader
    BY <2>1, <2>6, <2>8 DEF FillHeader, Sounds
  <2>9. CASE PlayHeader \/ ProcessHeader
    BY <2>1, <2>9 DEF PlayHeader, ProcessHeader, Sounds
  <2> QED BY <2>2, <2>3, <2>4, <2>5, <2>7, <2>8, <2>9 DEF OutNext, OutStep
<1> QED BY <1>1, OutInvariant, PTL DEF OutSpec, StopKeepsSound

------------------------------------------------------------------------------
\* How far a call has come with the handle; once a header was refused no other call begins.
InHandle ==
  /\ ~in.DeviceStopping => in.hDevice /\ mic.open # 0
  /\ inCall.pc \in {"drain", "prepare", "queue"} =>
       in.hDevice /\ in.DeviceStopping /\ mic.open # 0 /\ mic.paused
  /\ InAt("open") => in.DeviceStopping
  /\ InAt("requeue") => ~in.DeviceStopping
  /\ InAt("prepare") => inCall.len <= NumHeaders
  /\ InAt("queue") => inCall.len < NumHeaders
  /\ mic.failed => inCall.pc \in {"idle", "prepare", "queue"}

\* While nothing is recorded.
InStopped ==
  /\ mic.open = IF inCall.pc \in {"drain", "prepare", "queue"} THEN 1 ELSE 0
  /\ ~InAt("drain") => got = NewRecord
  /\ inCall.pc \notin {"prepare", "queue"} => mic.queue = << >>
  /\ inCall.pc \in {"prepare", "queue"} =>
       /\ Len(mic.queue) = inCall.len
       /\ \A j \in DOMAIN mic.queue : mic.queue[j] = j - 1 /\ ~inDone[mic.queue[j]]
       /\ in.CurrAudioBufferReadIndex = 0 /\ in.CurrAuioBufferRemainDataForRead = 0

\* The ring while the device records: first the headers that are done, then those queued.
FullHeaders == NumHeaders - Len(mic.queue)
InRing ==
  LET remains == in.CurrAuioBufferRemainDataForRead
  IN /\ FullHeaders \in Nat /\ mic.open = 1 /\ got.upto <= got.next
     /\ \A j \in DOMAIN mic.queue : mic.queue[j] = RingAt(FullHeaders + j)
     /\ \A i \in 1 .. NumHeaders : (inDone[RingAt(i)] <=> i <= FullHeaders)
     /\ remains # 0 => FullHeaders # 0 /\ remains <= Len(inData[RingAt(1)])
     /\ InAt("requeue") => FullHeaders # 0 /\ remains = 0

\* What the property says while the object records.
RecordedInOrder ==
    /\ \A i \in 1 .. NumHeaders : Rising(HeldAt(i))
    /\ \A i, j \in 1 .. NumHeaders : i < j => Before(HeldAt(i), HeldAt(j))
    /\ UnreadUnits \cup {u \in got.lost : u >= got.upto} = got.upto .. got.next - 1

\* The inductive invariant of the audio input.
InInv ==
  /\ InTypeOK
  /\ \A h \in Headers : Len(inData[h]) <= BufferSize
  /\ InHandle
  /\ ~mic.failed => IF in.DeviceStopping THEN InStopped ELSE InRing /\ RecordedInOrder

\* The parts of the type invariant, each a set.
Ins == [hDevice : BOOLEAN, DeviceStopping : BOOLEAN, Paused : BOOLEAN,
        CurrAudioBufferReadIndex : Headers, CurrAuioBufferRemainDataForRead : 0 .. BufferSize,
        LastError : {"none", "device", "overrun"}]
InDones == [Headers -> BOOLEAN]
InDatas == [Headers -> Seq(0 .. MaxUnits - 1)]
Mics == [open : 0 .. MaxHandles, paused : BOOLEAN, queue : Seq(Headers), notices : Nat,
         failed : BOOLEAN]
InPCs == {"idle", "stop", "drain", "open", "prepare", "queue", "read", "requeue"}
InCalls == [pc : InPCs, op : {"none", "Start", "Stop", "ReadData"}, len : Nat]
Records == [upto : 0 .. MaxUnits, lost : SUBSET (0 .. MaxUnits - 1), next : 0 .. MaxUnits]

\* The type invariant by its parts.
LEMMA InTypes == InTypeOK
   <=> in \in Ins /\ inDone \in InDones /\ inData \in InDatas /\ mic \in Mics
      /\ inCall \in InCalls /\ got \in Records
BY DEF InTypeOK, Ins, InDones, InDatas, Mics, InPCs, InCalls, Records

\* The types of the queue of the device and of the data in the headers.
LEMMA InShape ==
  ASSUME InTypeOK
  PROVE  /\ mic.queue \in Seq(Headers) /\ Len(mic.queue) \in Nat
         /\ DOMAIN mic.queue = 1 .. Len(mic.queue)
         /\ \A j \in DOMAIN mic.queue : mic.queue[j] \in Headers
         /\ \A h \in Headers :
              /\ inData[h] \in Seq(0 .. MaxUnits - 1) /\ Len(inData[h]) \in Nat
              /\ DOMAIN inData[h] = 1 .. Len(inData[h])
         /\ got.upto \in Nat /\ got.next \in Nat /\ got.lost \in SUBSET Nat
<1>1. mic.queue \in Seq(Headers) /\ \A h \in Headers : inData[h] \in Seq(0 .. MaxUnits - 1)
  BY DEF InTypeOK
<1>2. got.upto \in 0 .. MaxUnits /\ got.next \in 0 .. MaxUnits
      /\ got.lost \in SUBSET (0 .. MaxUnits - 1)
  BY DEF InTypeOK
<1> QED BY <1>1, <1>2, SeqFacts

------------------------------------------------------------------------------
\* What the ring H holds is in order, after what was read up to upto, and complete up to next
\* but for what is lost: RecordInOrder said unit by unit.
Recordings == [1 .. NumHeaders -> Seq(0 .. MaxUnits - 1)]
Ordered(H, upto, lost, next) ==
  /\ \A i \in 1 .. NumHeaders : Rising(H[i])
  /\ \A i, j \in 1 .. NumHeaders : i < j => Before(H[i], H[j])
  /\ \A i \in 1 .. NumHeaders : \A j \in DOMAIN H[i] : H[i][j] \in upto .. next - 1
  /\ \A u \in lost : u >= upto => u < next
  /\ \A u \in upto .. next - 1 :
       u \in lost \/ \E i \in 1 .. NumHeaders : \E j \in DOMAIN H[i] : H[i][j] = u

\* What a ring of recordings holds.
LEMMA RecordingFacts ==
  ASSUME NEW H \in Recordings, NEW i \in 1 .. NumHeaders
  PROVE  /\ H[i] \in Seq(0 .. MaxUnits - 1) /\ Len(H[i]) \in Nat /\ DOMAIN H[i] = 1 .. Len(H[i])
         /\ \A j \in DOMAIN H[i] : H[i][j] \in 0 .. MaxUnits - 1
<1>1. H[i] \in Seq(0 .. MaxUnits - 1)
  BY DEF Recordings
<1> QED BY <1>1, SeqFacts

\* A header that the device gives back holds the next units, and those behind it hold none.
LEMMA OrderedAppends ==
  ASSUME NEW H \in Recordings, NEW G \in Recordings, NEW p \in 1 .. NumHeaders,
         NEW upto \in Nat, NEW next \in Nat, NEW k \in Nat, NEW lost \in SUBSET Nat,
         upto <= next, Ordered(H, upto, lost, next),
         \A i \in 1 .. NumHeaders : i >= p => H[i] = << >>,
         \A i \in 1 .. NumHeaders : G[i] = IF i = p THEN Block(next, k) ELSE H[i]
  PROVE  Ordered(G, upto, lost, next + k)
<1>1. /\ DOMAIN G[p] = 1 .. k /\ Rising(G[p])
      /\ Range(G[p]) = next .. next + k - 1
      /\ \A j \in DOMAIN G[p] : G[p][j] \in next .. next + k - 1
  <2>1. PICK B : B = Block(next, k)
    OBVIOUS
  <2>2. /\ DOMAIN B = 1 .. k /\ Rising(B) /\ Range(B) = next .. next + k - 1
        /\ \A j \in DOMAIN B : B[j] \in next .. next + k - 1
    BY <2>1, BlockFacts
  <2>3. G[p] = B
    BY <2>1
  <2> QED BY <2>2, <2>3, Zenon
<1>2. \A i \in 1 .. NumHeaders : i # p => G[i] = H[i]
  OBVIOUS
<1>3. \A i \in 1 .. NumHeaders : i > p => G[i] = << >>
  OBVIOUS
<1>4. \A i \in 1 .. NumHeaders : Rising(G[i])
  BY <1>1, <1>2 DEF Ordered
<1>5. ASSUME NEW i \in 1 .. NumHeaders, NEW j \in 1 .. NumHeaders, i < j
      PROVE  Before(G[i], G[j])
  <2>1. CASE j > p
    BY <1>3, <2>1, NothingRises
  <2>2. CASE j < p
    BY <1>2, <1>5, <2>2 DEF Ordered
  <2>3. CASE j = p
    <3>1. \A a \in DOMAIN G[i] : G[i][a] \in upto .. next - 1
      BY <1>2, <1>5, <2>3 DEF Ordered
    <3> QED BY <1>1, <2>3, <3>1, SMTT(30) DEF Before
  <2> QED BY <2>1, <2>2, <2>3
<1>6. ASSUME NEW i \in 1 .. NumHeaders, NEW j \in DOMAIN G[i]
      PROVE  G[i][j] \in upto .. next + k - 1
  <2>1. CASE i = p
    <3>1. G[i][j] \in next .. next + k - 1
      BY <1>1, <1>6, <2>1
    <3> QED BY <3>1
  <2>2. CASE i # p
    <3>1. G[i][j] \in upto .. next - 1
      BY <1>2, <1>6, <2>2 DEF Ordered
    <3> QED BY <3>1
  <2> QED BY <2>1, <2>2
<1>7. ASSUME NEW u \in lost, u >= upto PROVE u < next + k
  <2>1. u \in Nat /\ u < next
    BY <1>7 DEF Ordered
  <2> QED BY <2>1
<1>8. ASSUME NEW u \in upto .. next + k - 1
      PROVE  u \in lost \/ \E i \in 1 .. NumHeaders : \E j \in DOMAIN G[i] : G[i][j] = u
  <2>1. CASE u < next
    <3>1. u \in lost \/ \E i \in 1 .. NumHeaders : \E j \in DOMAIN H[i] : H[i][j] = u
      BY <2>1 DEF Ordered
    <3>2. ASSUME NEW i \in 1 .. NumHeaders, NEW j \in DOMAIN H[i] PROVE i # p
      <4>1. SUFFICES ASSUME i = p PROVE FALSE
        OBVIOUS
      <4>2. H[i] = << >>
        BY <4>1
      <4> QED BY <4>2
    <3> QED BY <1>2, <3>1, <3>2
  <2>2. CASE u >= next
    <3>1. u \in Range(G[p])
      BY <1>1, <2>2
    <3>2. \E j \in DOMAIN G[p] : G[p][j] = u
      BY <3>1 DEF Range
    <3> QED BY <3>2
  <2> QED BY <2>1, <2>2
<1> QED BY <1>4, <1>5, <1>6, <1>7, <1>8 DEF Ordered

\* A unit that finds no header is lost.
LEMMA OrderedLoses ==
  ASSUME NEW H \in Recordings, NEW upto \in Nat, NEW next \in Nat, NEW lost \in SUBSET Nat,
         upto <= next, Ordered(H, upto, lost, next)
  PROVE  Ordered(H, upto, lost \cup {next}, next + 1)
BY DEF Ordered

\* What is left of a recording of which the last r units are still to be read.
LastOf(d, r) == SubSeq(d, Len(d) - r + 1, Len(d))

\* Its units.
LEMMA LastFacts ==
  ASSUME NEW d \in Seq(0 .. MaxUnits - 1), NEW r \in Nat, r <= Len(d)
  PROVE  /\ LastOf(d, r) \in Seq(0 .. MaxUnits - 1) /\ Len(LastOf(d, r)) = r
         /\ DOMAIN LastOf(d, r) = 1 .. r
         /\ \A j \in 1 .. r : LastOf(d, r)[j] = d[Len(d) - r + j]
<1>1. Len(d) \in Nat
  BY SeqFacts
<1>2. ASSUME NEW j \in (Len(d) - r + 1) .. Len(d) PROVE d[j] \in 0 .. MaxUnits - 1
  <2>1. j \in 1 .. Len(d)
    BY <1>1
  <2> QED BY <2>1, SeqFacts
<1> QED BY <1>1, <1>2, SubSeqProperties DEF LastOf

\* All of it is left when none was read, and nothing when all was.
LEMMA LastWhole ==
  ASSUME NEW d \in Seq(0 .. MaxUnits - 1)
  PROVE  LastOf(d, Len(d)) = d /\ LastOf(d, 0) = << >>
<1>1. Len(d) \in Nat /\ DOMAIN d = 1 .. Len(d)
  BY SeqFacts
<1>2. LastOf(d, Len(d)) \in Seq(0 .. MaxUnits - 1) /\ Len(LastOf(d, Len(d))) = Len(d)
      /\ \A j \in 1 .. Len(d) : LastOf(d, Len(d))[j] = d[j]
  <2>1. PICK r \in Nat : r = Len(d) /\ r <= Len(d)
    <3>1. Len(d) \in Nat /\ Len(d) <= Len(d)
      BY <1>1
    <3> QED BY <3>1, Zenon
  <2>2. /\ LastOf(d, r) \in Seq(0 .. MaxUnits - 1) /\ Len(LastOf(d, r)) = r
        /\ \A j \in 1 .. r : LastOf(d, r)[j] = d[Len(d) - r + j]
    BY <2>1, LastFacts
  <2>3. \A j \in 1 .. r : Len(d) - r + j = j
    BY <2>1
  <2> QED BY <2>1, <2>2, <2>3
<1>3. LastOf(d, Len(d)) = d
  BY <1>1, <1>2, SeqEqual
<1>4. LastOf(d, 0) \in Seq(0 .. MaxUnits - 1) /\ Len(LastOf(d, 0)) = 0
  BY <1>1, LastFacts
<1> QED BY <1>3, <1>4, EmptySeq

\* ReadData takes n units from the front of the ring.
LEMMA OrderedTakes ==
  ASSUME NEW H \in Recordings, NEW G \in Recordings, NEW n \in Nat \ {0},
         NEW upto \in Nat, NEW next \in Nat, NEW lost \in SUBSET Nat,
         Ordered(H, upto, lost, next), n <= Len(H[1]),
         \A i \in 1 .. NumHeaders : G[i] = IF i = 1 THEN LastOf(H[1], Len(H[1]) - n) ELSE H[i]
  PROVE  Ordered(G, H[1][n] + 1, {u \in lost : u >= H[1][n] + 1}, next)
<1>1. 1 \in 1 .. NumHeaders
  BY WaveAssumption
<1>2. /\ Len(H[1]) \in Nat /\ DOMAIN H[1] = 1 .. Len(H[1]) /\ H[1] \in Seq(0 .. MaxUnits - 1)
      /\ \A j \in DOMAIN H[1] : H[1][j] \in 0 .. MaxUnits - 1
  BY <1>1, RecordingFacts
<1>3. n \in DOMAIN H[1]
  BY <1>2
<1>4. PICK last \in Nat : last = H[1][n]
  BY <1>2, <1>3
<1>5. /\ DOMAIN G[1] = 1 .. Len(H[1]) - n
      /\ \A j \in DOMAIN G[1] : G[1][j] = H[1][n + j] /\ n + j \in DOMAIN H[1]
  <2>1. PICK r \in Nat : r = Len(H[1]) - n
    <3>1. Len(H[1]) - n \in Nat
      BY <1>2
    <3> QED BY <3>1, Zenon
  <2>2. G[1] = LastOf(H[1], r) /\ r <= Len(H[1]) /\ H[1] \in Seq(0 .. MaxUnits - 1)
    BY <1>1, <1>2, <2>1
  <2>3. DOMAIN G[1] = 1 .. r /\ \A j \in 1 .. r : G[1][j] = H[1][Len(H[1]) - r + j]
    <3>1. PICK d \in Seq(0 .. MaxUnits - 1) : d = H[1]
      BY <2>2
    <3>2. DOMAIN LastOf(d, r) = 1 .. r /\ \A j \in 1 .. r : LastOf(d, r)[j] = d[Len(d) - r + j]
      BY <3>1, <2>2, LastFacts
    <3> QED BY <3>1, <3>2, <2>2
  <2>4. \A j \in 1 .. r : Len(H[1]) - r + j = n + j /\ n + j \in 1 .. Len(H[1])
    BY <1>2, <2>1
  <2> QED BY <1>2, <2>1, <2>3, <2>4
<1>6. \A i \in 1 .. NumHeaders : i # 1 => G[i] = H[i]
  OBVIOUS
<1>7. Rising(H[1])
  BY <1>1 DEF Ordered
<1>8. ASSUME NEW i \in DOMAIN G[1], NEW j \in DOMAIN G[1], i < j PROVE G[1][i] < G[1][j]
  <2>1. n + i \in DOMAIN H[1] /\ n + j \in DOMAIN H[1] /\ n + i < n + j
    BY <1>2, <1>5, <1>8
  <2> QED BY <2>1, <1>5, <1>7 DEF Rising
<1>9. ASSUME NEW j \in DOMAIN G[1] PROVE G[1][j] > last
  <2>1. n + j \in DOMAIN H[1] /\ n < n + j
    BY <1>2, <1>5
  <2>2. H[1][n] < H[1][n + j] /\ H[1][n + j] \in 0 .. MaxUnits - 1
    BY <2>1, <1>2, <1>3, <1>7 DEF Rising
  <2> QED BY <2>2, <1>5, <1>4
<1>10. ASSUME NEW i \in 1 .. NumHeaders, i # 1, NEW j \in DOMAIN G[i] PROVE G[i][j] > last
  <2>1. Before(H[1], H[i])
    BY <1>10, <1>1 DEF Ordered
  <2> QED BY <1>10, <2>1, <1>3, <1>4, <1>6, RecordingFacts DEF Before
<1>11. \A i \in 1 .. NumHeaders : Rising(G[i])
  BY <1>6, <1>8 DEF Ordered, Rising
<1>12. ASSUME NEW i \in 1 .. NumHeaders, NEW j \in 1 .. NumHeaders, i < j
       PROVE  Before(G[i], G[j])
  <2>1. Before(H[i], H[j]) /\ j # 1
    BY <1>12 DEF Ordered
  <2>2. CASE i = 1
    BY <2>1, <2>2, <1>5, <1>6 DEF Before
  <2>3. CASE i # 1
    BY <2>1, <2>3, <1>6
  <2> QED BY <2>2, <2>3
<1>13. \A i \in 1 .. NumHeaders : \A j \in DOMAIN H[i] : H[i][j] \in upto .. next - 1
  BY DEF Ordered
<1>14. ASSUME NEW i \in 1 .. NumHeaders, NEW j \in DOMAIN G[i]
       PROVE  G[i][j] \in last + 1 .. next - 1
  <2>1. G[i][j] \in upto .. next - 1
    BY <1>13, <1>5, <1>6
  <2>2. G[i][j] > last
    BY <1>9, <1>10
  <2> QED BY <2>1, <2>2
<1>15. upto <= last
  BY <1>13, <1>1, <1>3, <1>4
<1>16. ASSUME NEW u \in last + 1 .. next - 1, u \notin lost
       PROVE  \E i \in 1 .. NumHeaders : \E j \in DOMAIN G[i] : G[i][j] = u
  <2>1. u \in upto .. next - 1
    BY <1>15
  <2>2. PICK i \in 1 .. NumHeaders : \E j \in DOMAIN H[i] : H[i][j] = u
    BY <1>16, <2>1 DEF Ordered
  <2>3. PICK j \in DOMAIN H[i] : H[i][j] = u
    BY <2>2
  <2>4. CASE i # 1
    <3>1. G[i] = H[i]
      BY <2>4, <1>6
    <3> QED BY <3>1, <2>3
  <2>5. CASE i = 1
    <3>1. j > n
      <4>1. SUFFICES ASSUME j <= n PROVE FALSE
        BY <2>5, <1>2
      <4>2. H[1][j] <= H[1][n]
        BY <4>1, <2>5, <1>2, <1>3, <1>7 DEF Rising
      <4> QED BY <4>2, <2>3, <2>5, <1>4, SMTT(30)
    <3>2. j - n \in DOMAIN G[1] /\ n + (j - n) = j
      BY <3>1, <2>5, <1>2, <1>5
    <3>3. G[1][j - n] = u
      BY <3>2, <1>5, <2>3, <2>5
    <3> QED BY <3>2, <3>3, <1>1
  <2> QED BY <2>4, <2>5
<1>17. \A u \in last + 1 .. next - 1 : u \in {v \in lost : v >= last + 1}
         \/ \E i \in 1 .. NumHeaders : \E j \in DOMAIN G[i] : G[i][j] = u
  BY <1>16
<1>18. \A u \in {v \in lost : v >= last + 1} : u >= last + 1 => u < next
  BY <1>15 DEF Ordered
<1>19. Ordered(G, last + 1, {v \in lost : v >= last + 1}, next)
  BY <1>11, <1>12, <1>14, <1>17, <1>18 DEF Ordered
<1> QED BY <1>19, <1>4

\* A header that was read to its end goes behind the others, empty.
LEMMA OrderedTurns ==
  ASSUME NEW H \in Recordings, NEW G \in Recordings,
         NEW upto \in Nat, NEW next \in Nat, NEW lost \in SUBSET Nat,
         Ordered(H, upto, lost, next), H[1] = << >>, G[NumHeaders] = << >>,
         \A i \in 1 .. NumHeaders - 1 : G[i] = H[i + 1]
  PROVE  Ordered(G, upto, lost, next)
<1>1. NumHeaders \in Nat \ {0} /\ 1 \in 1 .. NumHeaders
  BY WaveAssumption
<1>2. \A i \in 1 .. NumHeaders :
        i = NumHeaders \/ (i \in 1 .. NumHeaders - 1 /\ i + 1 \in 1 .. NumHeaders)
  BY <1>1
<1>3. \A i \in 1 .. NumHeaders : Rising(G[i])
  BY <1>2, NothingRises DEF Ordered
<1>4. ASSUME NEW i \in 1 .. NumHeaders, NEW j \in 1 .. NumHeaders, i < j
      PROVE  Before(G[i], G[j])
  <2>1. CASE j = NumHeaders
    BY <2>1, NothingRises
  <2>2. CASE j # NumHeaders
    <3>1. i \in 1 .. NumHeaders - 1 /\ j \in 1 .. NumHeaders - 1
          /\ i + 1 \in 1 .. NumHeaders /\ j + 1 \in 1 .. NumHeaders /\ i + 1 < j + 1
      BY <1>1, <1>4, <2>2
    <3> QED BY <3>1 DEF Ordered
  <2> QED BY <2>1, <2>2
<1>5. \A j : j \notin DOMAIN G[NumHeaders]
  OBVIOUS
<1>6. \A i \in 1 .. NumHeaders : \A j \in DOMAIN G[i] : G[i][j] \in upto .. next - 1
  BY <1>2, <1>5 DEF Ordered
<1>7. ASSUME NEW u \in upto .. next - 1, u \notin lost
      PROVE  \E i \in 1 .. NumHeaders : \E j \in DOMAIN G[i] : G[i][j] = u
  <2>1. PICK i \in 1 .. NumHeaders : \E j \in DOMAIN H[i] : H[i][j] = u
    BY <1>7 DEF Ordered
  <2>2. i # 1
    <3>1. DOMAIN H[1] = {}
      OBVIOUS
    <3> QED BY <2>1, <3>1
  <2>3. i - 1 \in 1 .. NumHeaders - 1 /\ i - 1 \in 1 .. NumHeaders /\ i - 1 + 1 = i
    BY <2>2, <1>1
  <2>4. G[i - 1] = H[i]
    BY <2>3
  <2> QED BY <2>1, <2>3, <2>4
<1> QED BY <1>3, <1>4, <1>6, <1>7 DEF Ordered

\* A ring without data, before anything was recorded.
LEMMA OrderedEmpty ==
  ASSUME NEW H, \A i \in 1 .. NumHeaders : H[i] = << >> PROVE Ordered(H, 0, {}, 0)
<1>1. DOMAIN << >> = {}
  OBVIOUS
<1> QED BY <1>1 DEF Ordered, Rising, Before

------------------------------------------------------------------------------
\* The i-th header of the ring that begins at r.
RingPos(r, i) == (r + i - 1) % NumHeaders

\* The ring begins at r and comes back to its begin after the last header.
LEMMA RingWraps ==
  ASSUME NEW r \in Headers, NEW i \in 1 .. NumHeaders
  PROVE  /\ \/ r + i - 1 < NumHeaders /\ RingPos(r, i) = r + i - 1
            \/ r + i - 1 >= NumHeaders /\ RingPos(r, i) = r + i - 1 - NumHeaders
         /\ RingPos(r, i) \in Headers
<1>1. NumHeaders \in Nat \ {0} /\ r \in 0 .. NumHeaders - 1
  BY WaveAssumption DEF Headers
<1>2. CASE r + i - 1 < NumHeaders
  <2>1. PICK x \in 0 .. NumHeaders - 1 : x = r + i - 1
    <3>1. r + i - 1 \in 0 .. NumHeaders - 1
      BY <1>1, <1>2
    <3> QED BY <3>1, Zenon
  <2>2. (NumHeaders * 0 + x) % NumHeaders = x
    BY <1>1, RemainderUnique
  <2>3. NumHeaders * 0 + x = r + i - 1
    BY <1>1, <2>1
  <2> QED BY <1>2, <2>1, <2>2, <2>3 DEF RingPos, Headers
<1>3. CASE r + i - 1 >= NumHeaders
  <2>1. PICK x \in 0 .. NumHeaders - 1 : x = r + i - 1 - NumHeaders
    <3>1. r + i - 1 - NumHeaders \in 0 .. NumHeaders - 1
      BY <1>1, <1>3
    <3> QED BY <3>1, Zenon
  <2>2. (NumHeaders * 1 + x) % NumHeaders = x
    BY <1>1, RemainderUnique
  <2>3. NumHeaders * 1 + x = r + i - 1
    BY <1>1, <2>1
  <2> QED BY <1>1, <1>3, <2>1, <2>2, <2>3 DEF RingPos, Headers
<1> QED BY <1>1, <1>2, <1>3

\* No header comes twice.
LEMMA RingInjective ==
  ASSUME NEW r \in Headers, NEW i \in 1 .. NumHeaders, NEW j \in 1 .. NumHeaders,
         RingPos(r, i) = RingPos(r, j)
  PROVE  i = j
<1>1. NumHeaders \in Nat \ {0} /\ r \in 0 .. NumHeaders - 1
  BY WaveAssumption DEF Headers
<1>2. \/ r + i - 1 < NumHeaders /\ RingPos(r, i) = r + i - 1
      \/ r + i - 1 >= NumHeaders /\ RingPos(r, i) = r + i - 1 - NumHeaders
  BY RingWraps
<1>3. \/ r + j - 1 < NumHeaders /\ RingPos(r, j) = r + j - 1
      \/ r + j - 1 >= NumHeaders /\ RingPos(r, j) = r + j - 1 - NumHeaders
  BY RingWraps
<1> QED BY <1>1, <1>2, <1>3

\* The first header of the ring, and the ring once its first header has become the last.
LEMMA RingTurns ==
  ASSUME NEW r \in Headers
  PROVE  /\ RingPos(r, 1) = r /\ (r + 1) % NumHeaders \in Headers
         /\ \A i \in 1 .. NumHeaders - 1 :
              RingPos((r + 1) % NumHeaders, i) = RingPos(r, i + 1)
         /\ RingPos((r + 1) % NumHeaders, NumHeaders) = r
<1>1. NumHeaders \in Nat \ {0} /\ r \in 0 .. NumHeaders - 1 /\ 1 \in 1 .. NumHeaders
      /\ NumHeaders \in 1 .. NumHeaders
  BY WaveAssumption DEF Headers
<1>2. RingPos(r, 1) = r
  BY <1>1, RingWraps
<1>3. PICK s \in Headers : s = (r + 1) % NumHeaders
                          /\ s = IF r + 1 < NumHeaders THEN r + 1 ELSE r + 1 - NumHeaders
  <2>1. CASE NumHeaders = 1
    <3>1. r = 0 /\ (NumHeaders * 1 + 0) % NumHeaders = 0
      BY <1>1, <2>1, RemainderUnique
    <3>2. (r + 1) % NumHeaders = 0 /\ 0 \in Headers
      BY <1>1, <2>1, <3>1 DEF Headers
    <3> QED BY <1>1, <2>1, <3>1, <3>2
  <2>2. CASE NumHeaders # 1
    <3>1. 2 \in 1 .. NumHeaders /\ r + 2 - 1 = r + 1
      BY <1>1, <2>2
    <3> QED BY <1>1, <3>1, RingWraps DEF RingPos
  <2> QED BY <2>1, <2>2
<1>4. ASSUME NEW i \in 1 .. NumHeaders - 1 PROVE RingPos(s, i) = RingPos(r, i + 1)
  <2>1. i \in 1 .. NumHeaders /\ i + 1 \in 1 .. NumHeaders
    BY <1>1
  <2>2. PICK k \in 1 .. NumHeaders : k = i + 1
    BY <2>1
  <2>3. \/ r + k - 1 < NumHeaders /\ RingPos(r, k) = r + k - 1
        \/ r + k - 1 >= NumHeaders /\ RingPos(r, k) = r + k - 1 - NumHeaders
    BY RingWraps
  <2>4. \/ s + i - 1 < NumHeaders /\ RingPos(s, i) = s + i - 1
        \/ s + i - 1 >= NumHeaders /\ RingPos(s, i) = s + i - 1 - NumHeaders
    BY <2>1, RingWraps
  <2>5. s \in 0 .. NumHeaders - 1
    BY DEF Headers
  <2>6. RingPos(s, i) = RingPos(r, k)
    BY <1>1, <1>3, <2>1, <2>2, <2>3, <2>4, <2>5
  <2> QED BY <2>2, <2>6
<1>5. RingPos(s, NumHeaders) = r
  <2>1. \/ /\ s + NumHeaders - 1 < NumHeaders
           /\ RingPos(s, NumHeaders) = s + NumHeaders - 1
        \/ /\ s + NumHeaders - 1 >= NumHeaders
           /\ RingPos(s, NumHeaders) = s + NumHeaders - 1 - NumHeaders
    BY <1>1, RingWraps
  <2>2. s \in 0 .. NumHeaders - 1
    BY DEF Headers
  <2> QED BY <1>1, <1>3, <2>1, <2>2
<1> QED BY <1>2, <1>3, <1>4, <1>5

\* A ring that begins at the first header.
LEMMA RingFromStart ==
  ASSUME NEW i \in 1 .. NumHeaders PROVE 0 \in Headers /\ RingPos(0, i) = i - 1
<1>1. NumHeaders \in Nat \ {0} /\ 0 \in Headers
  BY WaveAssumption DEF Headers
<1> QED BY <1>1, RingWraps

\* The set of what the ring H holds, and of what was lost since upto.
Holds(H, U) == \A u : u \in U <=> \E i \in 1 .. NumHeaders : \E j \in DOMAIN H[i] : H[i][j] = u
LostSince(lost, upto, L) == \A u : u \in L <=> u \in lost /\ u >= upto
Sorted(H, upto, next, U, L) ==
  /\ \A i \in 1 .. NumHeaders : Rising(H[i])
  /\ \A i, j \in 1 .. NumHeaders : i < j => Before(H[i], H[j])
  /\ U \cup L = upto .. next - 1

\* RecordInOrder said of the ring's recordings.
LEMMA OrderedMeans ==
  ASSUME NEW H, NEW upto \in Nat, NEW next \in Nat, NEW lost \in SUBSET Nat, NEW U, NEW L,
         Holds(H, U), LostSince(lost, upto, L)
  PROVE  Ordered(H, upto, lost, next) <=> Sorted(H, upto, next, U, L)
<1>1. /\ \A u : u \in U <=> \E i \in 1 .. NumHeaders : \E j \in DOMAIN H[i] : H[i][j] = u
      /\ \A u : u \in L <=> u \in lost /\ u >= upto
  BY DEF Holds, LostSince
<1>2. (\A i \in 1 .. NumHeaders : \A j \in DOMAIN H[i] : H[i][j] \in upto .. next - 1)
         <=> \A u \in U : u \in upto .. next - 1
  BY <1>1
<1>4. (\A u \in lost : u >= upto => u < next) <=> \A u \in L : u \in upto .. next - 1
  <2>1. \A u : u \in L <=> u \in Nat /\ u \in lost /\ u >= upto
    BY <1>1
  <2>2. ASSUME \A u \in lost : u >= upto => u < next, NEW u \in L
        PROVE  u \in upto .. next - 1
    BY <2>1, <2>2
  <2>3. ASSUME \A u \in L : u \in upto .. next - 1, NEW u \in lost, u >= upto
        PROVE  u < next
    <3>1. u \in upto .. next - 1
      BY <2>1, <2>3
    <3> QED BY <3>1
  <2> QED BY <2>2, <2>3
<1>5. \A u \in upto .. next - 1 : u \in L <=> u \in lost
  BY <1>1
<1>6. Ordered(H, upto, lost, next) <=>
           /\ \A i \in 1 .. NumHeaders : Rising(H[i])
           /\ \A i, j \in 1 .. NumHeaders : i < j => Before(H[i], H[j])
           /\ \A u \in U : u \in upto .. next - 1
           /\ \A u \in L : u \in upto .. next - 1
           /\ \A u \in upto .. next - 1 : u \in L \/ u \in U
  BY <1>1, <1>2, <1>4, <1>5 DEF Ordered
<1>7. U \cup L = upto .. next - 1 <=>
        /\ \A u \in U : u \in upto .. next - 1
        /\ \A u \in L : u \in upto .. next - 1
        /\ \A u \in upto .. next - 1 : u \in L \/ u \in U
  <2>1. PICK R : R = upto .. next - 1
    OBVIOUS
  <2>2. U \cup L = R <=> (\A u \in U : u \in R) /\ (\A u \in L : u \in R)
                          /\ \A u \in R : u \in L \/ u \in U
    OBVIOUS
  <2> QED BY <2>1, <2>2
<1> QED BY <1>6, <1>7 DEF Sorted

\* What the i-th header of the ring still holds that is to be read: r is the header that is
\* read next, left what remains of it once it was begun, again whether it has been read.
HeldIn(done, data, r, left, again, i) ==
  LET d == data[RingPos(r, i)]
  IN IF ~done[RingPos(r, i)] \/ (i = 1 /\ again) THEN << >>
     ELSE IF i = 1 THEN LastOf(d, IF left > 0 THEN left ELSE Len(d))
     ELSE d

\* The same, of the object.
HeldRule ==
  InTypeOK => \A i \in 1 .. NumHeaders :
    /\ RingAt(i) = RingPos(in.CurrAudioBufferReadIndex, i) /\ RingAt(i) \in Headers
    /\ HeldAt(i) = HeldIn(inDone, inData, in.CurrAudioBufferReadIndex,
                          in.CurrAuioBufferRemainDataForRead, InAt("requeue"), i)
\* The ring that the property looks at is that of these recordings.
LEMMA HeldMeans == HeldRule
<1> SUFFICES ASSUME InTypeOK, NEW i \in 1 .. NumHeaders
    PROVE  /\ RingAt(i) = RingPos(in.CurrAudioBufferReadIndex, i) /\ RingAt(i) \in Headers
           /\ HeldAt(i) = HeldIn(inDone, inData, in.CurrAudioBufferReadIndex,
                          in.CurrAuioBufferRemainDataForRead, InAt("requeue"), i)
  BY DEF HeldRule
<1>1. in.CurrAudioBufferReadIndex \in Headers /\ in.CurrAuioBufferRemainDataForRead \in Nat
  BY WaveAssumption DEF InTypeOK
<1>2. RingAt(i) = RingPos(in.CurrAudioBufferReadIndex, i) /\ RingAt(i) \in Headers
  BY <1>1, RingWraps DEF RingAt, RingPos
<1>3. PICK d : d = inData[RingAt(i)]
  OBVIOUS
<1>4. d \in Seq(0 .. MaxUnits - 1) /\ Len(d) \in Nat
  BY <1>2, <1>3, InShape
<1>5. PICK R \in Nat : R = Remaining(RingAt(i))
                       /\ R = IF in.CurrAuioBufferRemainDataForRead > 0
                              THEN in.CurrAuioBufferRemainDataForRead ELSE Len(d)
  BY <1>1, <1>3, <1>4 DEF Remaining
<1>6. CopyData(RingAt(i), R) = SubSeq(d, Len(d) - R + 1, Len(d) - R + R)
  BY <1>3, <1>5 DEF CopyData
<1>7. Len(d) - R + R = Len(d)
  BY <1>4, <1>5
<1>8. CopyData(RingAt(i), Remaining(RingAt(i))) = LastOf(d, R)
  BY <1>5, <1>6, <1>7 DEF LastOf
<1> QED BY <1>2, <1>3, <1>5, <1>8, Zenon DEF HeldAt, HeldIn

\* What the property says is what Ordered says of the ring.
RecordRule ==
  InTypeOK => \A H : (\A i \in 1 .. NumHeaders : H[i] = HeldAt(i)) =>
    (RecordedInOrder <=> Ordered(H, got.upto, got.lost, got.next))
\* RecordInOrder is read unit by unit.
LEMMA RecordMeans == RecordRule
<1> SUFFICES ASSUME InTypeOK, NEW H, \A i \in 1 .. NumHeaders : H[i] = HeldAt(i)
    PROVE  RecordedInOrder <=> Ordered(H, got.upto, got.lost, got.next)
  BY DEF RecordRule
<1>1. PICK upto \in Nat, next \in Nat, lost \in SUBSET Nat :
        upto = got.upto /\ next = got.next /\ lost = got.lost
  <2>1. got.upto \in Nat /\ got.next \in Nat /\ got.lost \in SUBSET Nat
    BY InShape
  <2> QED BY <2>1, Zenon
<1>2. PICK U : U = UnreadUnits
  OBVIOUS
<1>3. PICK L : L = {u \in got.lost : u >= got.upto}
  OBVIOUS
<1>4. Holds(H, U)
  BY <1>2 DEF UnreadUnits, Range, Holds
<1>5. LostSince(lost, upto, L)
  BY <1>1, <1>3 DEF LostSince
<1>6. Ordered(H, upto, lost, next) <=> Sorted(H, upto, next, U, L)
  BY <1>4, <1>5, OrderedMeans
<1>7. RecordedInOrder <=>
           /\ \A i \in 1 .. NumHeaders : Rising(H[i])
           /\ \A i, j \in 1 .. NumHeaders : i < j => Before(H[i], H[j])
           /\ U \cup L = got.upto .. got.next - 1
  <2>1. (\A i \in 1 .. NumHeaders : Rising(HeldAt(i)))
          <=> \A i \in 1 .. NumHeaders : Rising(H[i])
    OBVIOUS
  <2>2. (\A i, j \in 1 .. NumHeaders : i < j => Before(HeldAt(i), HeldAt(j)))
          <=> \A i, j \in 1 .. NumHeaders : i < j => Before(H[i], H[j])
    OBVIOUS
  <2>3. U \cup L = UnreadUnits \cup {u \in got.lost : u >= got.upto}
    BY <1>2, <1>3
  <2> QED BY <2>1, <2>2, <2>3 DEF RecordedInOrder
<1> QED BY <1>1, <1>6, <1>7 DEF Sorted

\* The same after a step.
LEMMA HeldMeansNext == HeldRule'
BY HeldMeans, PTL
\* And what the property says is what Ordered says, after a step.
LEMMA RecordMeansNext == RecordRule'
BY RecordMeans, PTL

\* What a header holds is a sequence of units.
LEMMA HeldTyped ==
  ASSUME NEW done, NEW data \in InDatas, NEW r \in Headers, NEW left \in Nat, NEW again,
         left <= Len(data[RingPos(r, 1)]), NEW i \in 1 .. NumHeaders
  PROVE  HeldIn(done, data, r, left, again, i) \in Seq(0 .. MaxUnits - 1)
<1>1. PICK d \in Seq(0 .. MaxUnits - 1) : d = data[RingPos(r, i)]
  BY RingWraps DEF InDatas
<1>2. Len(d) \in Nat /\ << >> \in Seq(0 .. MaxUnits - 1)
  BY SeqFacts
<1>3. ASSUME i = 1
      PROVE LastOf(d, IF left > 0 THEN left ELSE Len(d)) \in Seq(0 .. MaxUnits - 1)
  <2>1. left <= Len(d) /\ Len(d) <= Len(d)
    BY <1>1, <1>2, <1>3
  <2> QED BY <1>2, <2>1, LastFacts
<1> QED BY <1>1, <1>2, <1>3 DEF HeldIn

\* What the device gives back is typed and no longer than a buffer.
LEMMA GiveBackTypes ==
  ASSUME InTypeOK, \A h \in Headers : Len(inData[h]) <= BufferSize,
         NEW n \in Nat, n <= Len(mic.queue), NEW k \in Nat, k <= BufferSize,
         got.next + k <= MaxUnits, GiveBack(n, k)
  PROVE  /\ inDone' \in InDones /\ inData' \in InDatas /\ got' \in Records
         /\ \A h \in Headers : Len(inData'[h]) <= BufferSize
         /\ got' = [got EXCEPT !.next = got.next + k]
<1> DEFINE back == {mic.queue[i] : i \in 1 .. n}
<1>1. inDone' \in InDones
  BY DEF GiveBack, InDones
<1>2. << >> \in Seq(0 .. MaxUnits - 1) /\ Block(got.next, k) \in Seq(0 .. MaxUnits - 1)
  BY InShape, BlockIsSeq
<1>3. Len(Block(got.next, k)) = k /\ Len(<< >>) = 0
  BY InShape DEF Block
<1>4. inData' = [h \in Headers |-> IF h \notin back THEN inData[h]
                   ELSE IF h = Head(mic.queue) THEN Block(got.next, k) ELSE << >>]
  BY DEF GiveBack
<1> HIDE DEF back
<1>5. inData' \in InDatas
  BY <1>2, <1>4, InShape DEF InDatas
<1>6. \A h \in Headers : Len(inData'[h]) <= BufferSize
  BY <1>3, <1>4, WaveAssumption
<1>7. got' = [got EXCEPT !.next = got.next + k] /\ got \in Records
  BY InTypes DEF GiveBack, Records
<1>8. got.next + k \in 0 .. MaxUnits
  BY InShape
<1>9. got' \in Records
  BY <1>7, <1>8 DEF Records
<1> QED BY <1>1, <1>5, <1>6, <1>7, <1>9

\* The headers the device gives back while it records become the next to read.
LEMMA GiveBackKeeps ==
  ASSUME InTypeOK, InTypeOK', \A h \in Headers : Len(inData[h]) <= BufferSize,
         InRing, RecordedInOrder,
         NEW n \in Nat, n <= Len(mic.queue), NEW k \in Nat, k <= BufferSize, n = 0 => k = 0,
         got.next + k <= MaxUnits, GiveBack(n, k),
         Len(mic'.queue) = Len(mic.queue) - n, mic'.open = mic.open,
         \A j \in DOMAIN mic'.queue : mic'.queue[j] = mic.queue[j + n],
         in'.CurrAudioBufferReadIndex = in.CurrAudioBufferReadIndex,
         in'.CurrAuioBufferRemainDataForRead = in.CurrAuioBufferRemainDataForRead,
         InAt("requeue")' = InAt("requeue")
  PROVE  InRing' /\ RecordedInOrder'
<1>1. PICK r \in Headers : r = in.CurrAudioBufferReadIndex
  BY InTypes DEF Ins
<1>2. PICK f \in Nat : f = FullHeaders
  BY DEF InRing
<1>3. PICK q \in Seq(Headers) : q = mic.queue
  BY InShape
<1>4. /\ Len(q) \in Nat /\ DOMAIN q = 1 .. Len(q) /\ f = NumHeaders - Len(q) /\ n <= Len(q)
      /\ \A j \in 1 .. Len(q) : q[j] = RingPos(r, f + j) /\ f + j \in 1 .. NumHeaders
  <2>1. Len(q) \in Nat /\ DOMAIN q = 1 .. Len(q) /\ f = NumHeaders - Len(q) /\ n <= Len(q)
    BY <1>2, <1>3, SeqFacts DEF FullHeaders
  <2>2. \A j \in 1 .. Len(q) : f + j \in 1 .. NumHeaders
    BY <2>1, WaveAssumption
  <2>3. \A j \in 1 .. Len(q) : q[j] = RingAt(f + j)
    BY <1>2, <1>3, <2>1 DEF InRing
  <2> QED BY <1>1, <2>1, <2>2, <2>3, HeldMeans DEF HeldRule
<1>5. \A i \in 1 .. NumHeaders : RingAt(i) = RingPos(r, i) /\ RingAt(i)' = RingPos(r, i)
        /\ RingPos(r, i) \in Headers
  BY <1>1, HeldMeans, HeldMeansNext DEF HeldRule
<1>6. \A h \in Headers : (inDone'[h] <=> inDone[h] \/ \E j \in 1 .. n : q[j] = h)
  BY <1>3 DEF GiveBack
<1>7. \A h \in Headers : inData'[h] = IF ~\E j \in 1 .. n : q[j] = h THEN inData[h]
                           ELSE IF h = Head(q) THEN Block(got.next, k) ELSE << >>
  BY <1>3 DEF GiveBack
<1>8. ASSUME NEW i \in 1 .. NumHeaders
      PROVE  (\E j \in 1 .. n : q[j] = RingPos(r, i)) <=> (f < i /\ i <= f + n)
  <2>1. ASSUME NEW j \in 1 .. n, q[j] = RingPos(r, i) PROVE f < i /\ i <= f + n
    <3>1. j \in 1 .. Len(q)
      BY <1>4
    <3>2. PICK m \in 1 .. NumHeaders : m = f + j
      BY <1>4, <3>1
    <3>3. RingPos(r, m) = RingPos(r, i)
      BY <1>4, <2>1, <3>1, <3>2
    <3>4. m = i
      BY <3>3, RingInjective
    <3> QED BY <3>2, <3>4
  <2>2. ASSUME f < i, i <= f + n PROVE \E j \in 1 .. n : q[j] = RingPos(r, i)
    <3>1. i - f \in 1 .. n /\ i - f \in 1 .. Len(q) /\ f + (i - f) = i
      BY <1>4, <2>2
    <3>2. q[i - f] = RingPos(r, i)
      BY <1>4, <3>1
    <3> QED BY <3>1, <3>2
  <2> QED BY <2>1, <2>2
<1>9. \A i \in 1 .. NumHeaders : (inDone[RingPos(r, i)] <=> i <= f)
  BY <1>2, <1>5 DEF InRing
<1>10. ASSUME NEW i \in 1 .. NumHeaders PROVE (inDone'[RingPos(r, i)] <=> i <= f + n)
  <2>1. inDone'[RingPos(r, i)] <=> (i <= f \/ (f < i /\ i <= f + n))
    BY <1>5, <1>6, <1>8, <1>9
  <2> QED BY <2>1, <1>4
<1>11. FullHeaders' = f + n /\ f + n \in Nat /\ f + n <= NumHeaders
  BY <1>3, <1>4, WaveAssumption DEF FullHeaders
<1>12. \A i \in 1 .. NumHeaders : i <= f => inData'[RingPos(r, i)] = inData[RingPos(r, i)]
  BY <1>5, <1>7, <1>8
<1>13. mic'.queue \in Seq(Headers) /\ DOMAIN mic'.queue = 1 .. Len(q) - n
  <2>1. mic'.queue \in Seq(Headers)
    BY DEF InTypeOK
  <2> QED BY <1>3, <2>1, SeqFacts
<1>14. InRing'
  <2>1. ASSUME NEW j \in 1 .. Len(q) - n PROVE mic'.queue[j] = RingAt(f + n + j)'
    <3>1. j + n \in 1 .. Len(q) /\ f + (j + n) = f + n + j
      BY <1>4
    <3>2. mic'.queue[j] = RingPos(r, f + n + j) /\ f + n + j \in 1 .. NumHeaders
      BY <1>3, <1>4, <1>13, <3>1
    <3> QED BY <3>2, <1>5
  <2>2. \A i \in 1 .. NumHeaders : (inDone'[RingAt(i)'] <=> i <= f + n)
    BY <1>5, <1>10
  <2>3. got'.upto = got.upto /\ got'.next = got.next + k
    BY InTypes DEF GiveBack, Records
  <2>4. got'.upto <= got'.next
    BY <2>3, InShape DEF InRing
  <2>5. in.CurrAuioBufferRemainDataForRead # 0 =>
          f + n # 0 /\ in.CurrAuioBufferRemainDataForRead <= Len(inData'[RingAt(1)'])
    <3>1. 1 \in 1 .. NumHeaders
      BY WaveAssumption
    <3>2. SUFFICES ASSUME in.CurrAuioBufferRemainDataForRead # 0
          PROVE f + n # 0 /\ in.CurrAuioBufferRemainDataForRead <= Len(inData'[RingAt(1)'])
      OBVIOUS
    <3>3. f # 0 /\ in.CurrAuioBufferRemainDataForRead <= Len(inData[RingAt(1)])
      BY <3>2, <1>2 DEF InRing
    <3>4. 1 <= f
      BY <3>3
    <3> QED BY <3>1, <3>3, <3>4, <1>5, <1>12
  <2>6. InAt("requeue")' => f + n # 0 /\ in.CurrAuioBufferRemainDataForRead = 0
    BY <1>2 DEF InRing
  <2>7. mic'.open = 1
    BY DEF InRing
  <2> QED BY <1>11, <1>13, <2>1, <2>2, <2>4, <2>5, <2>6, <2>7 DEF InRing
<1>15. RecordedInOrder'
  <2>1. PICK H : H = [i \in 1 .. NumHeaders |-> HeldAt(i)]
    OBVIOUS
  <2>2. PICK G : G = [i \in 1 .. NumHeaders |-> HeldAt(i)']
    OBVIOUS
  <2>3. PICK left : left = in.CurrAuioBufferRemainDataForRead
    OBVIOUS
  <2>4. PICK again : again = InAt("requeue")
    OBVIOUS
  <2>5. \A i \in 1 .. NumHeaders : H[i] = HeldIn(inDone, inData, r, left, again, i)
                                /\ G[i] = HeldIn(inDone', inData', r, left, again, i)
    BY <1>1, <2>1, <2>2, <2>3, <2>4, HeldMeans, HeldMeansNext DEF HeldRule
  <2>6. Ordered(H, got.upto, got.lost, got.next)
    BY <2>1, RecordMeans DEF RecordRule
  <2>7. ASSUME NEW i \in 1 .. NumHeaders, i > f PROVE H[i] = << >>
    <3>1. ~inDone[RingPos(r, i)]
      BY <2>7, <1>9
    <3> QED BY <2>5, <3>1 DEF HeldIn
  <2>8. \A i \in 1 .. NumHeaders : i <= f => G[i] = H[i]
    BY <1>9, <1>10, <1>12, <2>5, SMTT(30) DEF HeldIn
  <2>9. ASSUME NEW i \in 1 .. NumHeaders, i > f + n PROVE G[i] = << >>
    <3>1. ~inDone'[RingPos(r, i)]
      BY <2>9, <1>10
    <3> QED BY <2>5, <3>1 DEF HeldIn
  <2>10. H \in Recordings /\ G \in Recordings
    <3>1. 1 \in 1 .. NumHeaders
      BY WaveAssumption
    <3>2. left \in Nat /\ inData \in InDatas /\ inData' \in InDatas
      <4>1. left \in 0 .. BufferSize
        BY <2>3, InTypes DEF Ins
      <4>2. left \in Nat
        BY <4>1, WaveAssumption
      <4> QED BY <4>2 DEF InTypeOK, InDatas
    <3>3. left <= Len(inData[RingPos(r, 1)]) /\ left <= Len(inData'[RingPos(r, 1)])
      <4>1. RingPos(r, 1) = RingAt(1) /\ RingPos(r, 1) = RingAt(1)' /\ RingPos(r, 1) \in Headers
        BY <1>5, <3>1
      <4>2. Len(inData[RingPos(r, 1)]) \in Nat /\ Len(inData'[RingPos(r, 1)]) \in Nat
        BY <3>2, <4>1, SeqFacts DEF InDatas
      <4>3. left # 0 => left <= Len(inData[RingPos(r, 1)]) /\ left <= Len(inData'[RingPos(r, 1)])
        BY <1>14, <2>3, <4>1 DEF InRing
      <4> QED BY <3>2, <4>2, <4>3
    <3>4. \A i \in 1 .. NumHeaders :
            HeldIn(inDone, inData, r, left, again, i) \in Seq(0 .. MaxUnits - 1)
      BY <3>2, <3>3, HeldTyped
    <3>5. \A i \in 1 .. NumHeaders :
            HeldIn(inDone', inData', r, left, again, i) \in Seq(0 .. MaxUnits - 1)
      BY <3>2, <3>3, HeldTyped
    <3> QED BY <2>1, <2>2, <2>5, <3>4, <3>5 DEF Recordings
  <2>11. got'.upto = got.upto /\ got'.lost = got.lost /\ got'.next = got.next + k
    BY InTypes DEF GiveBack, Records
  <2>12. Ordered(G, got.upto, got.lost, got.next + k)
    <3>1. CASE n = 0
      <4>1. \A i \in 1 .. NumHeaders : G[i] = H[i]
        <5>1. \A i \in 1 .. NumHeaders : i <= f \/ (i > f /\ i > f + n)
          BY <3>1
        <5> QED BY <2>7, <2>8, <2>9, <5>1
      <4>2. G = H /\ k = 0 /\ got.next + k = got.next
        BY <2>1, <2>2, <3>1, <4>1, InShape
      <4> QED BY <2>6, <4>2
    <3>2. CASE n # 0
      <4>1. PICK p \in 1 .. NumHeaders : p = f + 1
        <5>1. f + 1 \in 1 .. NumHeaders
          BY <1>4, <3>2
        <5> QED BY <5>1, Zenon
      <4>2. ASSUME NEW i \in 1 .. NumHeaders
            PROVE  G[i] = IF i = p THEN Block(got.next, k) ELSE H[i]
        <5>1. CASE i <= f
          BY <2>8, <4>1, <5>1
        <5>2. CASE i > f + n
          BY <2>7, <2>9, <3>2, <4>1, <5>2
        <5>3. CASE f + 1 < i /\ i <= f + n
          <6>1. 1 \in 1 .. n /\ q # << >> /\ Head(q) = RingPos(r, p)
            BY <3>2, <1>4, <4>1, TailFacts, EmptySeq
          <6>2. RingPos(r, i) # Head(q) /\ i # 1 /\ i # p /\ i > f
            BY <4>1, <5>3, <6>1, RingInjective
          <6>3. inData'[RingPos(r, i)] = << >>
            BY <1>5, <1>7, <1>8, <5>3, <6>2
          <6>4. G[i] = << >>
            BY <2>5, <6>2, <6>3 DEF HeldIn
          <6> QED BY <2>7, <6>2, <6>4
        <5>4. CASE i = p
          <6>1. 1 \in 1 .. n /\ q # << >> /\ Head(q) = RingPos(r, p)
            BY <3>2, <1>4, <4>1, TailFacts, EmptySeq
          <6>2. i > f /\ i <= f + n
            BY <3>2, <4>1, <5>4
          <6>3. inData'[RingPos(r, i)] = Block(got.next, k)
            BY <1>5, <1>7, <1>8, <5>4, <6>1, <6>2
          <6>4. i = 1 => ~again /\ left = 0
            <7>1. i = 1 => f = 0
              BY <4>1, <5>4
            <7> QED BY <7>1, <1>2, <2>3, <2>4 DEF InRing
          <6>5. LastOf(Block(got.next, k), Len(Block(got.next, k))) = Block(got.next, k)
            BY InShape, BlockIsSeq, LastWhole
          <6>6. inDone'[RingPos(r, i)]
            BY <1>10, <6>2
          <6>7. ~(0 > 0)
            OBVIOUS
          <6>8. G[i] = Block(got.next, k)
            BY <2>5, <5>4, <6>3, <6>4, <6>5, <6>6, <6>7 DEF HeldIn
          <6> QED BY <5>4, <6>8
        <5> QED BY <4>1, <5>1, <5>2, <5>3, <5>4
      <4>3. \A i \in 1 .. NumHeaders : i >= p => H[i] = << >>
        BY <2>7, <4>1
      <4>4. /\ got.upto \in Nat /\ got.next \in Nat /\ got.lost \in SUBSET Nat
            /\ got.upto <= got.next
        BY InShape DEF InRing
      <4> QED BY <2>6, <2>10, <4>2, <4>3, <4>4, OrderedAppends
    <3> QED BY <3>1, <3>2
  <2> QED BY <2>2, <2>11, <2>12, RecordMeansNext DEF RecordRule
<1> QED BY <1>14, <1>15

------------------------------------------------------------------------------
\* It is the property, and more.
LEMMA InInvOrdered == InInv => RecordInOrder
BY DEF InInv, RecordInOrder, RecordedInOrder

\* What is recorded depends on nothing but the headers, the ring and what was read.
LEMMA RingKept ==
  ASSUME InRing, RecordedInOrder, inDone' = inDone, inData' = inData, got' = got,
         mic'.queue = mic.queue, mic'.open = mic.open, InAt("requeue")' <=> InAt("requeue"),
         in'.CurrAudioBufferReadIndex = in.CurrAudioBufferReadIndex,
         in'.CurrAuioBufferRemainDataForRead = in.CurrAuioBufferRemainDataForRead
  PROVE  InRing' /\ RecordedInOrder'
<1>1. InRing'
  BY DEF InRing, RingAt, FullHeaders
<1>2. \A h : Remaining(h)' = Remaining(h)
  BY DEF Remaining
<1>3. \A h, n : CopyData(h, n)' = CopyData(h, n)
  BY <1>2 DEF CopyData
<1>4. \A i : RingAt(i)' = RingAt(i)
  BY DEF RingAt
<1>5. \A i : HeldAt(i)' = HeldAt(i)
  BY <1>2, <1>3, <1>4 DEF HeldAt
<1>6. UnreadUnits' = UnreadUnits
  BY <1>5 DEF UnreadUnits
<1>7. RecordedInOrder'
  BY <1>5, <1>6 DEF RecordedInOrder
<1> QED BY <1>1, <1>7

\* Steps that only move the call between its quiet places, pause the device or note an error.
LEMMA QuietKeeps ==
  ASSUME InInv, in' \in Ins, mic' \in Mics, inCall' \in InCalls,
         inDone' = inDone, inData' = inData, got' = got,
         mic'.queue = mic.queue, mic'.open = mic.open, mic'.failed = mic.failed,
         in'.hDevice = in.hDevice, in'.DeviceStopping = in.DeviceStopping,
         in'.CurrAudioBufferReadIndex = in.CurrAudioBufferReadIndex,
         in'.CurrAuioBufferRemainDataForRead = in.CurrAuioBufferRemainDataForRead,
         \/ inCall' = inCall /\ (mic'.paused = mic.paused \/ InAt("idle"))
         \/ /\ inCall.pc \in {"idle", "stop", "read"}
            /\ inCall'.pc \in {"idle", "stop", "read", "open"}
            /\ inCall'.pc = "open" => in.DeviceStopping
            /\ inCall'.pc # "idle" => ~mic.failed
  PROVE  InInv'
<1>1. InTypeOK'
  BY InTypes DEF InInv, InTypeOK, Ins, Mics, InCalls, InPCs
<1>2. InAt("requeue")' <=> InAt("requeue")
  BY DEF InAt
<1>3. InHandle'
  BY DEF InInv, InHandle, InAt
<1>4. ASSUME ~mic.failed, in.DeviceStopping PROVE InStopped'
  BY <1>4 DEF InInv, InStopped, InAt
<1>5. ASSUME ~mic.failed, ~in.DeviceStopping PROVE InRing' /\ RecordedInOrder'
  BY <1>2, <1>5, RingKept DEF InInv
<1> QED BY <1>1, <1>3, <1>4, <1>5 DEF InInv

\* An error that is noted.
LEMMA InErrorTypes ==
  ASSUME in \in Ins, NEW e \in {"device", "overrun"}
  PROVE  /\ FirstError(in.LastError, e) \in {"none", "device", "overrun"}
         /\ [in EXCEPT !.LastError = FirstError(@, e)] \in Ins
BY DEF Ins, FirstError

\* The calls of the user, and the ends of Stop and ReadData that do nothing.
LEMMA CallsKeep ==
  InInv /\ (\/ StartIn \/ StopIn \/ (\E n \in ReadSizes : ReadIn(n))
            \/ StopInNothing \/ ReadReturns)
    => InInv'
<1> SUFFICES ASSUME InInv,
             \/ StartIn \/ StopIn \/ (\E n \in ReadSizes : ReadIn(n))
             \/ StopInNothing \/ ReadReturns
    PROVE InInv'
  OBVIOUS
<1>1. in \in Ins /\ mic \in Mics /\ inCall \in InCalls
  BY InTypes DEF InInv
<1>2. ASSUME NEW p \in {"stop", "read"}, NEW o \in {"Start", "Stop", "ReadData"}, NEW n \in Nat,
             BeginIn(o, p, n)
      PROVE  InInv'
  <2>1. inCall' = [pc |-> p, op |-> o, len |-> n] /\ inCall.pc = "idle" /\ ~mic.failed
        /\ UNCHANGED <<in, inDone, inData, mic, got>>
    BY <1>2 DEF BeginIn, InAt
  <2>2. inCall' \in InCalls /\ inCall'.pc \in {"stop", "read"}
    BY <2>1 DEF InCalls, InPCs
  <2> QED BY <1>1, <2>1, <2>2, QuietKeeps
<1>3. ASSUME NEW n \in ReadSizes, ReadIn(n) PROVE InInv'
  BY <1>2, <1>3, InAssumption DEF ReadIn
<1>4. CASE StartIn
  BY <1>2, <1>4 DEF StartIn
<1>5. CASE StopIn
  BY <1>2, <1>5 DEF StopIn
<1>6. NoInCall \in InCalls /\ NoInCall.pc = "idle"
  BY DEF NoInCall, InCalls, InPCs
<1>7. CASE StopInNothing
  <2>1. in.DeviceStopping /\ InAt("stop") /\ UNCHANGED <<in, inDone, inData, mic, got>>
    BY <1>7 DEF StopInNothing, InInv, InHandle
  <2>2. ~mic.failed
    BY <2>1 DEF InInv, InHandle, InAt
  <2>3. inCall' = [inCall EXCEPT !.pc = "open"] \/ inCall' = NoInCall
    BY <1>7 DEF StopInNothing, StopInReturns, InGo, InReturn
  <2>4. inCall' \in InCalls /\ inCall'.pc \in {"idle", "open"}
    BY <1>1, <1>6, <2>3 DEF InCalls, InPCs
  <2> QED BY <1>1, <2>1, <2>2, <2>4, QuietKeeps DEF InAt
<1>8. CASE ReadReturns
  <2>1. inCall' = NoInCall /\ InAt("read") /\ UNCHANGED <<in, inDone, inData, mic, got>>
    BY <1>8 DEF ReadReturns, InReturn
  <2> QED BY <1>1, <1>6, <2>1, QuietKeeps DEF InAt
<1> QED BY <1>3, <1>4, <1>5, <1>7, <1>8

\* Resume, a call without a device, and the callbacks.
LEMMA ReportsKeep == InInv /\ (ResumeIn \/ ReportIn \/ MicProcessHeader) => InInv'
<1> SUFFICES ASSUME InInv, ResumeIn \/ ReportIn \/ MicProcessHeader PROVE InInv'
  OBVIOUS
<1>1. in \in Ins /\ mic \in Mics /\ inCall \in InCalls
  BY InTypes DEF InInv
<1>2. CASE ResumeIn
  <2>1. /\ in' = [in EXCEPT !.Paused = FALSE] /\ mic' = [mic EXCEPT !.paused = FALSE]
        /\ InAt("idle") /\ UNCHANGED <<inDone, inData, inCall, got>>
    BY <1>2 DEF ResumeIn
  <2>2. in' \in Ins /\ mic' \in Mics
    BY <1>1, <2>1 DEF Ins, Mics
  <2>3. /\ mic'.queue = mic.queue /\ mic'.open = mic.open /\ mic'.failed = mic.failed
        /\ in'.hDevice = in.hDevice /\ in'.DeviceStopping = in.DeviceStopping
        /\ in'.CurrAudioBufferReadIndex = in.CurrAudioBufferReadIndex
        /\ in'.CurrAuioBufferRemainDataForRead = in.CurrAuioBufferRemainDataForRead
    BY <1>1, <2>1 DEF Ins, Mics
  <2> QED BY <1>1, <2>1, <2>2, <2>3, QuietKeeps
<1>3. ASSUME NEW e \in {"device", "overrun"}, in' = [in EXCEPT !.LastError = FirstError(@, e)]
      PROVE  /\ in' \in Ins
             /\ in'.hDevice = in.hDevice /\ in'.DeviceStopping = in.DeviceStopping
             /\ in'.CurrAudioBufferReadIndex = in.CurrAudioBufferReadIndex
             /\ in'.CurrAuioBufferRemainDataForRead = in.CurrAuioBufferRemainDataForRead
  BY <1>1, <1>3, InErrorTypes DEF Ins
<1>4. CASE ReportIn
  <2>1. UNCHANGED <<inDone, inData, mic, inCall, got>>
        /\ in' = [in EXCEPT !.LastError = FirstError(@, "device")]
    BY <1>4 DEF ReportIn
  <2> QED BY <1>1, <1>3, <2>1, QuietKeeps
<1>5. CASE MicProcessHeader
  <2>1. /\ mic.notices > 0 /\ mic' = [mic EXCEPT !.notices = mic.notices - 1]
        /\ in' = in \/ in' = [in EXCEPT !.LastError = FirstError(@, "overrun")]
        /\ UNCHANGED <<inDone, inData, inCall, got>>
    BY <1>5 DEF MicProcessHeader
  <2>2. mic.notices - 1 \in Nat
    BY <1>1, <2>1 DEF Mics
  <2>3. mic' \in Mics /\ mic'.paused = mic.paused
        /\ mic'.queue = mic.queue /\ mic'.open = mic.open /\ mic'.failed = mic.failed
    BY <1>1, <2>1, <2>2 DEF Mics
  <2> QED BY <1>1, <1>3, <2>1, <2>3, QuietKeeps
<1> QED BY <1>2, <1>4, <1>5

\* What the headers of the ring hold are sequences of units.
LEMMA HeldIsSeq ==
  ASSUME InTypeOK, InRing, NEW i \in 1 .. NumHeaders
  PROVE  HeldAt(i) \in Seq(0 .. MaxUnits - 1)
<1>1. PICK r \in Headers, left \in Nat :
        r = in.CurrAudioBufferReadIndex /\ left = in.CurrAuioBufferRemainDataForRead
  <2>1. in.CurrAudioBufferReadIndex \in Headers /\ in.CurrAuioBufferRemainDataForRead \in Nat
    BY WaveAssumption DEF InTypeOK
  <2> QED BY <2>1, Zenon
<1>2. 1 \in 1 .. NumHeaders
  BY WaveAssumption
<1>3. RingAt(1) = RingPos(r, 1) /\ RingPos(r, 1) \in Headers
  BY <1>1, <1>2, HeldMeans DEF HeldRule
<1>4. inData \in InDatas /\ Len(inData[RingPos(r, 1)]) \in Nat
  BY <1>3, InShape, InTypes
<1>5. left <= Len(inData[RingPos(r, 1)])
  <2>1. left # 0 => left <= Len(inData[RingPos(r, 1)])
    BY <1>1, <1>3 DEF InRing
  <2> QED BY <1>4, <2>1
<1>6. HeldIn(inDone, inData, r, left, InAt("requeue"), i) \in Seq(0 .. MaxUnits - 1)
  BY <1>4, <1>5, HeldTyped
<1> QED BY <1>1, <1>6, HeldMeans DEF HeldRule

\* waveInReset gives every queued header back.
LEMMA ResetGives ==
  ASSUME InInv, NEW failed \in BOOLEAN, ResetMic(failed)
  PROVE  /\ mic' \in Mics /\ inDone' \in InDones /\ inData' \in InDatas /\ got' \in Records
         /\ \A h \in Headers : Len(inData'[h]) <= BufferSize
         /\ mic'.queue = << >> /\ mic'.open = mic.open /\ mic'.paused
         /\ mic'.failed = (mic.failed \/ failed)
         /\ mic.queue = << >> => got' = got
         /\ \E k \in 0 .. BufferSize :
              /\ GiveBack(Len(mic.queue), k) /\ got.next + k <= MaxUnits
              /\ Len(mic.queue) = 0 => k = 0
<1>1. mic \in Mics /\ got \in Records /\ mic.queue \in Seq(Headers) /\ Len(mic.queue) \in Nat
  BY InTypes, InShape DEF InInv
<1>2. PICK n \in Nat : n = Len(mic.queue)
  BY <1>1
<1>3. PICK k \in 0 .. BufferSize : GiveBack(n, k) /\ (mic.queue = << >> => k = 0)
                                   /\ got.next + k <= MaxUnits
                                   /\ mic' = [mic EXCEPT !.queue = << >>, !.paused = TRUE,
                                              !.failed = mic.failed \/ failed,
                                              !.notices = mic.notices + n]
  <2>1. got.next + 0 <= MaxUnits /\ 0 \in 0 .. BufferSize
    BY <1>1, WaveAssumption DEF Records
  <2>2. \A k \in Partial : k \in 0 .. BufferSize /\ got.next + k <= MaxUnits
    BY WaveAssumption DEF Partial
  <2> QED BY <1>1, <1>2, <2>1, <2>2 DEF ResetMic
<1>4. k \in Nat /\ k <= BufferSize /\ n <= Len(mic.queue)
  BY <1>1, <1>2, WaveAssumption
<1>5. /\ inDone' \in InDones /\ inData' \in InDatas /\ got' \in Records
      /\ \A h \in Headers : Len(inData'[h]) <= BufferSize
      /\ got' = [got EXCEPT !.next = got.next + k]
  BY <1>3, <1>4, GiveBackTypes DEF InInv
<1>6. (mic.failed \/ failed) \in BOOLEAN /\ mic.notices + n \in Nat /\ << >> \in Seq(Headers)
  BY <1>1 DEF Mics
<1>7. /\ mic' \in Mics /\ mic'.queue = << >> /\ mic'.open = mic.open /\ mic'.paused
      /\ mic'.failed = (mic.failed \/ failed)
  BY <1>1, <1>3, <1>6 DEF Mics
<1>8. mic.queue = << >> => got' = got
  <2>1. got.next + 0 = got.next
    BY <1>1 DEF Records
  <2> QED BY <1>1, <1>3, <1>5, <2>1 DEF Records
<1>9. Len(mic.queue) = 0 => mic.queue = << >>
  BY <1>1, EmptySeq
<1> QED BY <1>2, <1>3, <1>5, <1>7, <1>8, <1>9

\* The object records on after a reset or a pause, or its header is filled.
LEMMA RecordsOn ==
  ASSUME InInv, NEW n \in Nat, n <= Len(mic.queue), NEW k \in 0 .. BufferSize, n = 0 => k = 0,
         got.next + k <= MaxUnits, GiveBack(n, k), mic' \in Mics, in' \in Ins,
         Len(mic'.queue) = Len(mic.queue) - n, mic'.open = mic.open, mic'.failed = mic.failed,
         \A j \in DOMAIN mic'.queue : mic'.queue[j] = mic.queue[j + n],
         in'.hDevice = in.hDevice, in'.DeviceStopping = in.DeviceStopping,
         in'.CurrAudioBufferReadIndex = in.CurrAudioBufferReadIndex,
         in'.CurrAuioBufferRemainDataForRead = in.CurrAuioBufferRemainDataForRead,
         inCall' = inCall, InAt("idle") \/ mic'.paused = mic.paused,
         ~mic.failed /\ in.DeviceStopping =>
           mic.queue = << >> /\ mic'.queue = << >> /\ got' = got /\ InAt("idle")
  PROVE  InInv'
<1>1. k \in Nat /\ k <= BufferSize
  BY WaveAssumption
<1>2. /\ inDone' \in InDones /\ inData' \in InDatas /\ got' \in Records
      /\ \A h \in Headers : Len(inData'[h]) <= BufferSize
  BY <1>1, GiveBackTypes DEF InInv
<1>3. InTypeOK'
  BY <1>2, InTypes DEF InInv, InTypeOK, Ins, InDones, InDatas, Mics, InCalls, InPCs, Records
<1>4. InHandle'
  BY DEF InInv, InHandle, InAt
<1>5. ASSUME ~mic.failed, in.DeviceStopping PROVE InStopped'
  BY <1>5 DEF InInv, InStopped, InAt
<1>6. ASSUME ~mic.failed, ~in.DeviceStopping PROVE InRing' /\ RecordedInOrder'
  <2>1. InAt("requeue")' = InAt("requeue")
    BY DEF InAt
  <2> QED BY <1>1, <1>3, <1>6, <2>1, GiveBackKeeps DEF InInv
<1> QED BY <1>2, <1>3, <1>4, <1>5, <1>6 DEF InInv

\* Pause, which gives the header back that is being filled.
LEMMA PauseKeeps == InInv /\ PauseIn => InInv'
<1> SUFFICES ASSUME InInv, PauseIn PROVE InInv'
  OBVIOUS
<1>1. in \in Ins /\ mic \in Mics /\ inCall \in InCalls /\ mic.queue \in Seq(Headers)
  BY InTypes, InShape DEF InInv
<1>2. /\ in' \in Ins /\ in'.hDevice = in.hDevice /\ in'.DeviceStopping = in.DeviceStopping
      /\ in'.CurrAudioBufferReadIndex = in.CurrAudioBufferReadIndex
      /\ in'.CurrAuioBufferRemainDataForRead = in.CurrAuioBufferRemainDataForRead
      /\ InAt("idle") /\ inCall' = inCall
  BY <1>1 DEF PauseIn, Ins
<1>3. ASSUME mic.queue # << >>, NEW k \in Partial, GiveBack(1, k),
             mic' = [mic EXCEPT !.queue = Tail(@), !.paused = TRUE, !.notices = @ + 1]
      PROVE  InInv'
  <2>1. /\ Tail(mic.queue) \in Seq(Headers) /\ Len(Tail(mic.queue)) = Len(mic.queue) - 1
        /\ \A j \in DOMAIN Tail(mic.queue) : Tail(mic.queue)[j] = mic.queue[j + 1]
        /\ 1 <= Len(mic.queue)
    BY <1>1, <1>3, TailFacts, SeqFacts, LenProperties
  <2>2. mic.notices + 1 \in Nat
    BY <1>1 DEF Mics
  <2>3. mic' \in Mics /\ mic'.queue = Tail(mic.queue) /\ mic'.open = mic.open
        /\ mic'.failed = mic.failed
    BY <1>1, <1>3, <2>1, <2>2 DEF Mics
  <2>4. k \in 0 .. BufferSize /\ got.next + k <= MaxUnits
    BY WaveAssumption DEF Partial
  <2>5. ~(~mic.failed /\ in.DeviceStopping)
    BY <1>2, <1>3 DEF InInv, InStopped, InAt
  <2>6. Len(mic'.queue) = Len(mic.queue) - 1
        /\ \A j \in DOMAIN mic'.queue : mic'.queue[j] = mic.queue[j + 1]
    BY <2>1, <2>3
  <2>7. GiveBack(1, k) /\ 1 \in Nat /\ (1 = 0 => k = 0)
    BY <1>3
  <2> QED BY <1>2, <2>1, <2>3, <2>4, <2>5, <2>6, <2>7, RecordsOn
<1>4. ASSUME mic' = [mic EXCEPT !.paused = TRUE], UNCHANGED <<inDone, inData, got>>
      PROVE  InInv'
  <2>1. mic' \in Mics /\ mic'.queue = mic.queue /\ mic'.open = mic.open
        /\ mic'.failed = mic.failed
    BY <1>1, <1>4 DEF Mics
  <2> QED BY <1>1, <1>2, <1>4, <2>1, QuietKeeps
<1> QED BY <1>3, <1>4 DEF PauseIn

\* Reset.
LEMMA ResetInKeeps == InInv /\ ResetIn => InInv'
<1> SUFFICES ASSUME InInv, ResetIn PROVE InInv'
  OBVIOUS
<1>1. in \in Ins /\ mic \in Mics /\ inCall \in InCalls /\ mic.queue \in Seq(Headers)
  BY InTypes, InShape DEF InInv
<1>2. /\ in' \in Ins /\ in'.hDevice = in.hDevice /\ in'.DeviceStopping = in.DeviceStopping
      /\ in'.CurrAudioBufferReadIndex = in.CurrAudioBufferReadIndex
      /\ in'.CurrAuioBufferRemainDataForRead = in.CurrAuioBufferRemainDataForRead
      /\ InAt("idle") /\ inCall' = inCall
  BY <1>1 DEF ResetIn, Ins
<1>3. ResetMic(FALSE)
  BY DEF ResetIn
<1>4. /\ mic' \in Mics /\ mic'.queue = << >> /\ mic'.open = mic.open
      /\ mic'.failed = mic.failed /\ (mic.queue = << >> => got' = got)
      /\ \E k \in 0 .. BufferSize :
              /\ GiveBack(Len(mic.queue), k) /\ got.next + k <= MaxUnits
              /\ Len(mic.queue) = 0 => k = 0
  BY <1>1, <1>3, ResetGives DEF Mics
<1>5. PICK k \in 0 .. BufferSize :
              /\ GiveBack(Len(mic.queue), k) /\ got.next + k <= MaxUnits
              /\ Len(mic.queue) = 0 => k = 0
  BY <1>4
<1>6. PICK n \in Nat : n = Len(mic.queue)
  BY <1>1, SeqFacts
<1>7. /\ n <= Len(mic.queue) /\ Len(mic'.queue) = Len(mic.queue) - n
      /\ \A j \in DOMAIN mic'.queue : mic'.queue[j] = mic.queue[j + n]
  BY <1>4, <1>6
<1>8. ~mic.failed /\ in.DeviceStopping => mic.queue = << >>
  BY <1>2 DEF InInv, InStopped, InAt
<1> QED BY <1>2, <1>4, <1>5, <1>6, <1>7, <1>8, RecordsOn

\* The device fills the header at the front of its queue.
LEMMA FillMicKeeps == InInv /\ FillMicHeader => InInv'
<1> SUFFICES ASSUME InInv, FillMicHeader PROVE InInv'
  OBVIOUS
<1>1. in \in Ins /\ mic \in Mics /\ inCall \in InCalls /\ mic.queue \in Seq(Headers)
  BY InTypes, InShape DEF InInv
<1>2. /\ ~mic.paused /\ mic.queue # << >> /\ got.next + BufferSize <= MaxUnits
      /\ GiveBack(1, BufferSize) /\ in' = in /\ inCall' = inCall
      /\ mic' = [mic EXCEPT !.queue = Tail(mic.queue), !.notices = mic.notices + 1]
  BY DEF FillMicHeader
<1>3. /\ Tail(mic.queue) \in Seq(Headers) /\ Len(Tail(mic.queue)) = Len(mic.queue) - 1
      /\ \A j \in DOMAIN Tail(mic.queue) : Tail(mic.queue)[j] = mic.queue[j + 1]
      /\ 1 <= Len(mic.queue)
  BY <1>1, <1>2, TailFacts, SeqFacts, LenProperties
<1>4. mic.notices + 1 \in Nat /\ BufferSize \in 0 .. BufferSize
  BY <1>1, WaveAssumption DEF Mics
<1>5. mic' \in Mics /\ mic'.queue = Tail(mic.queue) /\ mic'.open = mic.open
      /\ mic'.failed = mic.failed /\ mic'.paused = mic.paused
  BY <1>1, <1>2, <1>3, <1>4 DEF Mics
<1>6. ~(~mic.failed /\ in.DeviceStopping)
  BY <1>2 DEF InInv, InStopped, InHandle, InAt
<1> QED BY <1>1, <1>2, <1>3, <1>4, <1>5, <1>6, RecordsOn

\* What comes while no header is queued is lost.
LEMMA LoseKeeps == InInv /\ LoseSound => InInv'
<1> SUFFICES ASSUME InInv, LoseSound PROVE InInv'
  OBVIOUS
<1>1. got \in Records /\ got.next \in Nat /\ got.next < MaxUnits
      /\ got' = [got EXCEPT !.lost = got.lost \cup {got.next}, !.next = got.next + 1]
      /\ ~mic.paused /\ mic.open > 0 /\ UNCHANGED <<in, inDone, inData, mic, inCall>>
  BY InTypes DEF InInv, LoseSound, Records
<1>2. got.lost \cup {got.next} \in SUBSET (0 .. MaxUnits - 1) /\ got.next + 1 \in 0 .. MaxUnits
  BY <1>1, WaveAssumption DEF Records
<1>3. got' \in Records /\ got'.upto = got.upto /\ got'.lost = got.lost \cup {got.next}
      /\ got'.next = got.next + 1
  BY <1>1, <1>2 DEF Records
<1>4. InTypeOK'
  BY <1>1, <1>3 DEF InInv, InTypeOK, Records
<1>5. InHandle'
  BY <1>1 DEF InInv, InHandle, InAt
<1>6. mic.open \in Nat /\ mic.open # 0
  <2>1. mic.open \in 0 .. MaxHandles
    BY InTypes DEF InInv, Mics
  <2> QED BY <1>1, <2>1 DEF MaxHandles
<1>7. ~(~mic.failed /\ in.DeviceStopping)
  BY <1>1, <1>6 DEF InInv, InStopped, InHandle, InAt
<1>8. ASSUME ~mic.failed PROVE InRing' /\ RecordedInOrder'
  <2>1. InRing /\ RecordedInOrder /\ InTypeOK
    BY <1>7, <1>8 DEF InInv
  <2>2. InRing'
    BY <1>1, <1>3, <2>1, InShape DEF InRing, RingAt, FullHeaders, InAt
  <2>3. PICK H : H = [i \in 1 .. NumHeaders |-> HeldAt(i)]
    OBVIOUS
  <2>4. Ordered(H, got.upto, got.lost, got.next)
    BY <2>1, <2>3, RecordMeans DEF RecordRule
  <2>5. \A i \in 1 .. NumHeaders : H[i] = HeldAt(i)'
    BY <1>1, <2>3 DEF HeldAt, RingAt, CopyData, Remaining, InAt
  <2>6. H \in Recordings
    <3>1. \A i \in 1 .. NumHeaders : HeldAt(i) \in Seq(0 .. MaxUnits - 1)
      BY <2>1, HeldIsSeq
    <3> QED BY <2>3, <3>1 DEF Recordings
  <2>7. got.upto \in Nat /\ got.lost \in SUBSET Nat /\ got.upto <= got.next
    BY <2>1, InShape DEF InRing
  <2>8. Ordered(H, got.upto, got.lost \cup {got.next}, got.next + 1)
    BY <1>1, <2>4, <2>6, <2>7, OrderedLoses
  <2> QED BY <1>3, <1>4, <2>2, <2>5, <2>8, RecordMeansNext DEF RecordRule
<1> QED BY <1>1, <1>4, <1>5, <1>7, <1>8 DEF InInv

\* The typed state, and what InTypes gives of it.
LEMMA InParts ==
  ASSUME InInv
  PROVE  /\ in \in Ins /\ inDone \in InDones /\ inData \in InDatas /\ mic \in Mics
         /\ inCall \in InCalls /\ got \in Records
         /\ mic.queue \in Seq(Headers) /\ Len(mic.queue) \in Nat
BY InTypes, InShape DEF InInv

\* A call that goes on or returns.
LEMMA InCallMoves ==
  ASSUME inCall \in InCalls
  PROVE  /\ \A p \in InPCs : [inCall EXCEPT !.pc = p] \in InCalls
              /\ [inCall EXCEPT !.pc = p].pc = p /\ [inCall EXCEPT !.pc = p].len = inCall.len
         /\ NoInCall \in InCalls /\ NoInCall.pc = "idle"
BY DEF InCalls, NoInCall, InPCs

\* Stop marks the object and resets the device.
LEMMA StopInBeginsKeeps == InInv /\ StopInBegins => InInv'
<1> SUFFICES ASSUME InInv, StopInBegins PROVE InInv'
  OBVIOUS
<1>1. in \in Ins /\ inCall \in InCalls
  BY InParts
<1>2. /\ InAt("stop") /\ in.hDevice /\ ~in.DeviceStopping /\ ResetMic(FALSE)
      /\ in' = [in EXCEPT !.DeviceStopping = TRUE, !.Paused = FALSE]
      /\ inCall' = [inCall EXCEPT !.pc = "drain"]
  BY DEF StopInBegins, InGo
<1>3. /\ mic' \in Mics /\ inDone' \in InDones /\ inData' \in InDatas /\ got' \in Records
      /\ \A h \in Headers : Len(inData'[h]) <= BufferSize
      /\ mic'.queue = << >> /\ mic'.open = mic.open /\ mic'.paused
      /\ mic'.failed = (mic.failed \/ FALSE)
  BY <1>2, ResetGives
<1>4. in' \in Ins /\ in'.hDevice /\ in'.DeviceStopping
  BY <1>1, <1>2 DEF Ins
<1>5. inCall' \in InCalls /\ inCall'.pc = "drain"
  BY <1>1, <1>2, InCallMoves DEF InPCs
<1>6. InTypeOK'
  BY <1>3, <1>4, <1>5 DEF InTypeOK, Ins, InDones, InDatas, Mics, InCalls, InPCs, Records
<1>7. ~mic.failed /\ mic.open # 0
  BY <1>2 DEF InInv, InHandle, InAt
<1>8. mic.open = 1
  BY <1>2, <1>7 DEF InInv, InRing
<1>9. InHandle'
  BY <1>3, <1>4, <1>5, <1>7 DEF InHandle, InAt
<1>10. InStopped'
  BY <1>3, <1>5, <1>8 DEF InStopped, InAt
<1> QED BY <1>3, <1>4, <1>6, <1>9, <1>10 DEF InInv

\* waveInClose.
LEMMA CloseInKeeps == InInv /\ CloseIn => InInv'
<1> SUFFICES ASSUME InInv, CloseIn PROVE InInv'
  OBVIOUS
<1>1. in \in Ins /\ mic \in Mics /\ inCall \in InCalls
  BY InParts
<1>2. /\ InAt("drain") /\ in' = [in EXCEPT !.hDevice = FALSE, !.Paused = FALSE]
      /\ mic' = [mic EXCEPT !.open = mic.open - 1, !.paused = FALSE]
      /\ got' = NewRecord /\ UNCHANGED <<inDone, inData>>
      /\ inCall' = [inCall EXCEPT !.pc = "open"] \/ inCall' = NoInCall
  BY DEF CloseIn, StopInReturns, InGo, InReturn
<1>3. in.DeviceStopping /\ ~mic.failed /\ mic.open = 1 /\ mic.queue = << >>
  BY <1>2 DEF InInv, InHandle, InStopped, InAt
<1>4. 0 \in 0 .. MaxHandles /\ 1 - 1 = 0
  BY DEF MaxHandles
<1>5. mic' \in Mics /\ mic'.open = 0 /\ mic'.queue = << >> /\ mic'.failed = mic.failed
  BY <1>1, <1>2, <1>3, <1>4 DEF Mics
<1>6. in' \in Ins /\ in'.DeviceStopping
  BY <1>1, <1>2, <1>3 DEF Ins
<1>7. inCall' \in InCalls /\ inCall'.pc \in {"open", "idle"}
  BY <1>1, <1>2, InCallMoves DEF InPCs
<1>8. NewRecord \in Records
  BY WaveAssumption DEF NewRecord, Records
<1>9. InTypeOK'
  BY <1>2, <1>5, <1>6, <1>7, <1>8
     DEF InInv, InTypeOK, Ins, Mics, InCalls, InPCs, Records
<1>10. InHandle' /\ InStopped'
  BY <1>2, <1>3, <1>5, <1>6, <1>7 DEF InHandle, InStopped, InAt
<1> QED BY <1>2, <1>3, <1>5, <1>6, <1>9, <1>10 DEF InInv

\* waveInOpen.
LEMMA OpenInKeeps == InInv /\ OpenIn => InInv'
<1> SUFFICES ASSUME InInv, OpenIn PROVE InInv'
  OBVIOUS
<1>1. in \in Ins /\ mic \in Mics /\ inCall \in InCalls
  BY InParts
<1>2. InAt("open") /\ UNCHANGED <<inDone, inData, got>>
  BY DEF OpenIn
<1>3. /\ in.DeviceStopping /\ ~mic.failed /\ mic.open = 0 /\ mic.queue = << >>
      /\ got = NewRecord
  BY <1>2 DEF InInv, InHandle, InStopped, InAt
<1>4. 0 \in Headers /\ 0 \in 0 .. BufferSize /\ << >> \in Seq(Headers)
  BY WaveAssumption DEF Headers
<1>5. ASSUME in' = [in EXCEPT !.hDevice = TRUE, !.Paused = FALSE, !.CurrAudioBufferReadIndex = 0,
                              !.CurrAuioBufferRemainDataForRead = 0],
             mic' = [mic EXCEPT !.open = Smaller(mic.open + 1, MaxHandles), !.queue = << >>,
                                !.paused = TRUE],
             inCall' = [inCall EXCEPT !.pc = "prepare", !.len = 0]
      PROVE  InInv'
  <2>1. Smaller(mic.open + 1, MaxHandles) = 1 /\ 1 \in 0 .. MaxHandles
    BY <1>3 DEF Smaller, MaxHandles
  <2>2. mic' \in Mics /\ mic'.open = 1 /\ mic'.queue = << >> /\ mic'.failed = mic.failed
        /\ mic'.paused
    BY <1>1, <1>4, <1>5, <2>1 DEF Mics
  <2>3. in' \in Ins /\ in'.DeviceStopping /\ in'.hDevice
        /\ in'.CurrAudioBufferReadIndex = 0 /\ in'.CurrAuioBufferRemainDataForRead = 0
    BY <1>1, <1>3, <1>4, <1>5 DEF Ins
  <2>4. inCall' \in InCalls /\ inCall'.pc = "prepare" /\ inCall'.len = 0
    BY <1>1, <1>5 DEF InCalls, InPCs
  <2>5. InTypeOK'
    BY <1>2, <2>2, <2>3, <2>4 DEF InInv, InTypeOK, Ins, Mics, InCalls, InPCs
  <2>6. InHandle'
    BY <1>3, <2>2, <2>3, <2>4, WaveAssumption DEF InHandle, InAt
  <2>7. InStopped'
    BY <1>2, <1>3, <2>2, <2>3, <2>4 DEF InStopped, InAt
  <2> QED BY <1>2, <1>3, <2>2, <2>3, <2>5, <2>6, <2>7 DEF InInv
<1>6. ASSUME in' = [in EXCEPT !.CurrAudioBufferReadIndex = 0,
                              !.LastError = FirstError(@, "device"),
                              !.CurrAuioBufferRemainDataForRead = 0],
             inCall' = NoInCall, mic' = mic
      PROVE  InInv'
  <2>1. FirstError(in.LastError, "device") \in {"none", "device", "overrun"}
    BY <1>1, InErrorTypes
  <2>2. in' \in Ins /\ in'.DeviceStopping
    BY <1>1, <1>3, <1>4, <1>6, <2>1 DEF Ins
  <2>3. inCall' \in InCalls /\ inCall'.pc = "idle"
    BY <1>1, <1>6, InCallMoves
  <2>4. InTypeOK'
    BY <1>2, <1>6, <2>2, <2>3 DEF InInv, InTypeOK, Ins, InCalls, InPCs
  <2>5. InHandle' /\ InStopped'
    BY <1>2, <1>3, <1>6, <2>2, <2>3 DEF InHandle, InStopped, InAt
  <2> QED BY <1>2, <1>3, <1>6, <2>2, <2>4, <2>5 DEF InInv
<1> QED BY <1>5, <1>6 DEF OpenIn, InReturn

\* A header is cleared.
LEMMA ClearTypes ==
  ASSUME InInv, NEW h \in Headers,
         inDone' = [inDone EXCEPT ![h] = FALSE], inData' = [inData EXCEPT ![h] = << >>]
  PROVE  /\ inDone' \in InDones /\ inData' \in InDatas
         /\ \A g \in Headers : Len(inData'[g]) <= BufferSize
         /\ ~inDone'[h] /\ inData'[h] = << >>
         /\ \A g \in Headers : g # h => inDone'[g] = inDone[g] /\ inData'[g] = inData[g]
<1>1. inDone \in InDones /\ inData \in InDatas /\ << >> \in Seq(0 .. MaxUnits - 1)
  BY InParts, EmptySeq
<1>2. inDone' \in InDones /\ inData' \in InDatas
  BY <1>1 DEF InDones, InDatas
<1>3. /\ ~inDone'[h] /\ inData'[h] = << >>
      /\ \A g \in Headers : g # h => inDone'[g] = inDone[g] /\ inData'[g] = inData[g]
  BY <1>1 DEF InDones, InDatas
<1>4. Len(<< >>) = 0 /\ 0 <= BufferSize
  BY WaveAssumption
<1> QED BY <1>2, <1>3, <1>4 DEF InInv

\* Start clears a header and prepares it.
LEMMA PrepareInKeeps == InInv /\ PrepareIn => InInv'
<1> SUFFICES ASSUME InInv, PrepareIn PROVE InInv'
  OBVIOUS
<1>1. in \in Ins /\ mic \in Mics /\ inCall \in InCalls /\ mic.queue \in Seq(Headers)
  BY InParts
<1>2. PICK h \in Nat : h = inCall.len
  BY <1>1 DEF InCalls
<1>3. /\ InAt("prepare") /\ h < NumHeaders /\ got' = got
      /\ inDone' = [inDone EXCEPT ![h] = FALSE] /\ inData' = [inData EXCEPT ![h] = << >>]
  BY <1>2 DEF PrepareIn
<1>4. h \in Headers
  BY <1>3, WaveAssumption DEF Headers
<1>5. /\ inDone' \in InDones /\ inData' \in InDatas
      /\ \A g \in Headers : Len(inData'[g]) <= BufferSize
      /\ ~inDone'[h]
      /\ \A g \in Headers : g # h => inDone'[g] = inDone[g]
  BY <1>3, <1>4, ClearTypes
<1>6. in.hDevice /\ in.DeviceStopping /\ mic.open # 0 /\ mic.paused
  BY <1>3 DEF InInv, InHandle, InAt
<1>7. ASSUME inCall' = [inCall EXCEPT !.pc = "queue"], in' = in, mic' = mic PROVE InInv'
  <2>1. inCall' \in InCalls /\ inCall'.pc = "queue" /\ inCall'.len = h
    BY <1>1, <1>2, <1>7, InCallMoves DEF InPCs
  <2>2. InTypeOK'
    BY <1>3, <1>5, <1>7, <2>1 DEF InInv, InTypeOK, InDones, InDatas, InCalls, InPCs
  <2>3. InHandle'
    BY <1>3, <1>6, <1>7, <2>1 DEF InInv, InHandle, InAt
  <2>4. ASSUME ~mic.failed PROVE InStopped'
    <3>1. /\ mic.open = 1 /\ got = NewRecord /\ Len(mic.queue) = h
          /\ \A j \in DOMAIN mic.queue : mic.queue[j] = j - 1 /\ ~inDone[mic.queue[j]]
          /\ in.CurrAudioBufferReadIndex = 0 /\ in.CurrAuioBufferRemainDataForRead = 0
      BY <1>2, <1>3, <1>6, <2>4 DEF InInv, InStopped, InAt
    <3>2. \A j \in DOMAIN mic.queue : mic.queue[j] \in Headers
      BY InShape DEF InInv
    <3>3. \A j \in DOMAIN mic.queue : ~inDone'[mic.queue[j]]
      BY <1>5, <3>1, <3>2
    <3> QED BY <1>3, <1>7, <2>1, <3>1, <3>3 DEF InStopped, InAt
  <2> QED BY <1>5, <1>6, <1>7, <2>2, <2>3, <2>4 DEF InInv
<1>8. ASSUME in' = [in EXCEPT !.LastError = FirstError(@, "device")], inCall' = NoInCall,
             mic' = IF mic.queue = << >> THEN [mic EXCEPT !.open = @ - 1]
                     ELSE [mic EXCEPT !.failed = TRUE]
      PROVE  InInv'
  <2>1. in' \in Ins /\ in'.hDevice /\ in'.DeviceStopping
    BY <1>1, <1>6, <1>8, InErrorTypes DEF Ins
  <2>2. inCall' \in InCalls /\ inCall'.pc = "idle"
    BY <1>1, <1>8, InCallMoves
  <2>3. mic.open - 1 \in 0 .. MaxHandles
    <3>1. mic.open \in 0 .. MaxHandles
      BY <1>1 DEF Mics
    <3> QED BY <1>6, <3>1 DEF MaxHandles
  <2>4. /\ mic' \in Mics /\ mic'.queue = mic.queue
        /\ mic'.failed = (mic.failed \/ mic.queue # << >>)
        /\ mic.queue = << >> => mic'.open = mic.open - 1
    BY <1>1, <1>8, <2>3 DEF Mics
  <2>5. InTypeOK'
    BY <1>3, <1>5, <2>1, <2>2, <2>4
       DEF InInv, InTypeOK, Ins, InDones, InDatas, Mics, InCalls, InPCs
  <2>6. InHandle'
    BY <2>1, <2>2 DEF InHandle, InAt
  <2>7. ASSUME ~mic'.failed PROVE InStopped'
    <3>1. mic.queue = << >> /\ ~mic.failed
      BY <2>4, <2>7
    <3>2. mic.open = 1 /\ got = NewRecord
      BY <1>3, <1>6, <3>1 DEF InInv, InStopped, InAt
    <3> QED BY <1>3, <2>2, <2>4, <3>1, <3>2 DEF InStopped, InAt
  <2> QED BY <1>5, <2>1, <2>5, <2>6, <2>7 DEF InInv
<1> QED BY <1>7, <1>8 DEF PrepareIn, InGo, InReturn

\* The device refuses a header: it gives the others back, and the object stops.
LEMMA RefusedTypes ==
  ASSUME InInv, QueueHeaderFails
  PROVE  /\ in' \in Ins /\ in'.hDevice = in.hDevice /\ in'.DeviceStopping
         /\ mic' \in Mics /\ inDone' \in InDones /\ inData' \in InDatas /\ got' \in Records
         /\ \A h \in Headers : Len(inData'[h]) <= BufferSize
         /\ mic'.open = mic.open /\ mic'.paused /\ mic'.failed
<1>1. in \in Ins
  BY InParts
<1>2. ResetMic(TRUE) /\ in' = [in EXCEPT !.DeviceStopping = TRUE, !.Paused = FALSE,
                                         !.LastError = FirstError(@, "device")]
  BY DEF QueueHeaderFails
<1>3. FirstError(in.LastError, "device") \in {"none", "device", "overrun"}
  BY <1>1, InErrorTypes
<1>4. in' \in Ins /\ in'.hDevice = in.hDevice /\ in'.DeviceStopping
  BY <1>1, <1>2, <1>3 DEF Ins
<1>5. /\ mic' \in Mics /\ inDone' \in InDones /\ inData' \in InDatas /\ got' \in Records
      /\ \A h \in Headers : Len(inData'[h]) <= BufferSize
      /\ mic'.open = mic.open /\ mic'.paused /\ mic'.failed = (mic.failed \/ TRUE)
  BY <1>2, ResetGives
<1> QED BY <1>4, <1>5

\* The device takes a header.
LEMMA QueueTypes ==
  ASSUME InInv, NEW h \in Headers, mic' = [mic EXCEPT !.queue = Append(@, h)]
  PROVE  /\ mic' \in Mics /\ mic'.open = mic.open /\ mic'.paused = mic.paused
         /\ mic'.failed = mic.failed
         /\ Len(mic'.queue) = Len(mic.queue) + 1
         /\ DOMAIN mic'.queue = 1 .. Len(mic.queue) + 1
         /\ \A j \in 1 .. Len(mic.queue) : mic'.queue[j] = mic.queue[j]
         /\ mic'.queue[Len(mic.queue) + 1] = h
<1>1. mic \in Mics /\ mic.queue \in Seq(Headers) /\ Len(mic.queue) \in Nat
      /\ DOMAIN mic.queue = 1 .. Len(mic.queue)
  BY InParts, SeqFacts
<1>2. PICK q \in Seq(Headers) : q = Append(mic.queue, h)
  BY <1>1, AppendFacts
<1>3. /\ Len(q) = Len(mic.queue) + 1 /\ DOMAIN q = 1 .. Len(mic.queue) + 1
      /\ \A j \in 1 .. Len(mic.queue) : q[j] = mic.queue[j]
      /\ q[Len(mic.queue) + 1] = h
  BY <1>1, <1>2, AppendProperties, SeqFacts
<1>4. mic' \in Mics /\ mic'.open = mic.open /\ mic'.paused = mic.paused
      /\ mic'.failed = mic.failed /\ mic'.queue = q
  BY <1>1, <1>2 DEF Mics
<1> QED BY <1>3, <1>4

\* Start gives a header to the device.
LEMMA StartQueuesKeeps == InInv /\ StartQueues => InInv'
<1> SUFFICES ASSUME InInv, StartQueues PROVE InInv'
  OBVIOUS
<1>1. in \in Ins /\ mic \in Mics /\ inCall \in InCalls /\ mic.queue \in Seq(Headers)
      /\ Len(mic.queue) \in Nat
  BY InParts
<1>2. PICK h \in Nat : h = inCall.len
  BY <1>1 DEF InCalls
<1>3. InAt("queue") /\ inCall' = [inCall EXCEPT !.pc = "prepare", !.len = h + 1]
  BY <1>1, <1>2 DEF StartQueues
<1>4. h < NumHeaders /\ in.hDevice /\ in.DeviceStopping /\ mic.open # 0 /\ mic.paused
  BY <1>2, <1>3 DEF InInv, InHandle, InAt
<1>5. h \in Headers /\ h + 1 <= NumHeaders
  BY <1>4, WaveAssumption DEF Headers
<1>6. inCall' \in InCalls /\ inCall'.pc = "prepare" /\ inCall'.len = h + 1
  <2>1. h + 1 \in Nat
    OBVIOUS
  <2> QED BY <1>1, <1>3, <2>1 DEF InCalls, InPCs
<1>7. CASE QueueHeader(h)
  <2>1. /\ mic' = [mic EXCEPT !.queue = Append(@, h)] /\ in' = in /\ got' = got
        /\ inDone' = [inDone EXCEPT ![h] = FALSE] /\ inData' = [inData EXCEPT ![h] = << >>]
    BY <1>7 DEF QueueHeader
  <2>2. /\ inDone' \in InDones /\ inData' \in InDatas
        /\ \A g \in Headers : Len(inData'[g]) <= BufferSize
        /\ ~inDone'[h]
        /\ \A g \in Headers : g # h => inDone'[g] = inDone[g]
    BY <1>5, <2>1, ClearTypes
  <2>3. /\ mic' \in Mics /\ mic'.open = mic.open /\ mic'.paused = mic.paused
        /\ mic'.failed = mic.failed
        /\ Len(mic'.queue) = Len(mic.queue) + 1
        /\ DOMAIN mic'.queue = 1 .. Len(mic.queue) + 1
        /\ \A j \in 1 .. Len(mic.queue) : mic'.queue[j] = mic.queue[j]
        /\ mic'.queue[Len(mic.queue) + 1] = h
    BY <1>5, <2>1, QueueTypes
  <2>4. InTypeOK'
    BY <1>6, <2>1, <2>2, <2>3 DEF InInv, InTypeOK, InDones, InDatas, Mics, InCalls, InPCs
  <2>5. InHandle'
    BY <1>4, <1>5, <1>6, <2>1, <2>3 DEF InHandle, InAt
  <2>6. ASSUME ~mic.failed PROVE InStopped'
    <3>1. /\ mic.open = 1 /\ got = NewRecord /\ Len(mic.queue) = h
          /\ \A j \in DOMAIN mic.queue : mic.queue[j] = j - 1 /\ ~inDone[mic.queue[j]]
          /\ in.CurrAudioBufferReadIndex = 0 /\ in.CurrAuioBufferRemainDataForRead = 0
      BY <1>2, <1>3, <1>4, <2>6 DEF InInv, InStopped, InAt
    <3>2. \A j \in 1 .. h : mic.queue[j] \in Headers /\ mic.queue[j] = j - 1
                            /\ ~inDone[mic.queue[j]]
      BY <3>1, InShape DEF InInv
    <3>3. ASSUME NEW j \in 1 .. h + 1
          PROVE mic'.queue[j] = j - 1 /\ ~inDone'[mic'.queue[j]]
      <4>1. CASE j = h + 1
        BY <2>2, <2>3, <3>1, <4>1
      <4>2. CASE j \in 1 .. h
        BY <2>2, <2>3, <3>1, <3>2, <4>2
      <4> QED BY <4>1, <4>2
    <3> QED BY <1>6, <2>1, <2>3, <3>1, <3>3 DEF InStopped, InAt
  <2> QED BY <1>4, <2>1, <2>2, <2>3, <2>4, <2>5, <2>6 DEF InInv
<1>8. CASE QueueHeaderFails
  <2>1. /\ in' \in Ins /\ in'.hDevice /\ in'.DeviceStopping
        /\ mic' \in Mics /\ inDone' \in InDones /\ inData' \in InDatas /\ got' \in Records
        /\ \A g \in Headers : Len(inData'[g]) <= BufferSize
        /\ mic'.open = mic.open /\ mic'.paused /\ mic'.failed
    BY <1>4, <1>8, RefusedTypes
  <2>2. InTypeOK'
    BY <1>6, <2>1 DEF InTypeOK, Ins, InDones, InDatas, Mics, InCalls, InPCs, Records
  <2>3. InHandle'
    BY <1>4, <1>5, <1>6, <2>1 DEF InHandle, InAt
  <2> QED BY <2>1, <2>2, <2>3 DEF InInv
<1> QED BY <1>2, <1>7, <1>8 DEF StartQueues

\* All headers are with the device, which starts to record.
LEMMA StartedKeeps == InInv /\ Started => InInv'
<1> SUFFICES ASSUME InInv, Started PROVE InInv'
  OBVIOUS
<1>1. in \in Ins /\ mic \in Mics /\ inCall \in InCalls /\ mic.queue \in Seq(Headers)
      /\ DOMAIN mic.queue = 1 .. Len(mic.queue)
  BY InParts, SeqFacts
<1>2. /\ InAt("prepare") /\ inCall.len = NumHeaders
      /\ in' = [in EXCEPT !.DeviceStopping = FALSE, !.Paused = FALSE]
      /\ mic' = [mic EXCEPT !.paused = FALSE] /\ inCall' = NoInCall
      /\ UNCHANGED <<inDone, inData, got>>
  BY DEF Started, InReturn
<1>3. in.hDevice /\ in.DeviceStopping /\ mic.open # 0
  BY <1>2 DEF InInv, InHandle, InAt
<1>4. /\ in' \in Ins /\ in'.hDevice /\ ~in'.DeviceStopping
      /\ in'.CurrAudioBufferReadIndex = in.CurrAudioBufferReadIndex
      /\ in'.CurrAuioBufferRemainDataForRead = in.CurrAuioBufferRemainDataForRead
  BY <1>1, <1>2, <1>3 DEF Ins
<1>5. mic' \in Mics /\ mic'.queue = mic.queue /\ mic'.open = mic.open /\ mic'.failed = mic.failed
  BY <1>1, <1>2 DEF Mics
<1>6. inCall' \in InCalls /\ inCall'.pc = "idle"
  BY <1>1, <1>2, InCallMoves
<1>7. InTypeOK'
  BY <1>2, <1>4, <1>5, <1>6 DEF InInv, InTypeOK, Ins, Mics, InCalls, InPCs
<1>8. InHandle'
  BY <1>3, <1>4, <1>5, <1>6 DEF InHandle, InAt
<1>9. ASSUME ~mic.failed PROVE InRing' /\ RecordedInOrder'
  <2>1. /\ mic.open = 1 /\ got = NewRecord /\ Len(mic.queue) = NumHeaders
        /\ \A j \in 1 .. NumHeaders : mic.queue[j] = j - 1 /\ ~inDone[mic.queue[j]]
        /\ in.CurrAudioBufferReadIndex = 0 /\ in.CurrAuioBufferRemainDataForRead = 0
    BY <1>1, <1>2, <1>3, <1>9 DEF InInv, InStopped, InAt
  <2>2. got.upto = 0 /\ got.next = 0 /\ got.lost = {}
    BY <2>1 DEF NewRecord
  <2>3. \A i \in 1 .. NumHeaders : RingPos(0, i) = i - 1 /\ ~inDone[RingPos(0, i)]
    BY <2>1, RingFromStart
  <2>4. \A i \in 1 .. NumHeaders : RingAt(i)' = RingPos(0, i)
        /\ HeldAt(i)' = HeldIn(inDone', inData', 0, 0, InAt("requeue")', i)
    BY <1>4, <1>7, <2>1, HeldMeansNext DEF HeldRule
  <2>5. FullHeaders' = 0
    BY <1>5, <2>1, WaveAssumption DEF FullHeaders
  <2>6. \A i \in 1 .. NumHeaders : (inDone'[RingAt(i)'] <=> i <= 0)
    BY <1>2, <2>3, <2>4
  <2>7. \A j \in 1 .. NumHeaders : mic'.queue[j] = RingAt(0 + j)'
    BY <1>5, <2>1, <2>3, <2>4
  <2>8. InRing'
    BY <1>1, <1>2, <1>4, <1>5, <1>6, <2>1, <2>2, <2>5, <2>6, <2>7 DEF InRing, InAt
  <2>9. \A i \in 1 .. NumHeaders : HeldAt(i)' = << >>
    BY <1>2, <2>3, <2>4 DEF HeldIn
  <2>10. PICK H : H = [i \in 1 .. NumHeaders |-> << >>]
    OBVIOUS
  <2>11. Ordered(H, 0, {}, 0)
    BY <2>10, OrderedEmpty
  <2>12. Ordered(H, got'.upto, got'.lost, got'.next)
    BY <1>2, <2>2, <2>11
  <2>13. \A i \in 1 .. NumHeaders : H[i] = HeldAt(i)'
    BY <2>9, <2>10
  <2>14. RecordedInOrder'
    BY <1>7, <2>12, <2>13, RecordMeansNext DEF RecordRule
  <2> QED BY <2>8, <2>14
<1> QED BY <1>2, <1>4, <1>5, <1>7, <1>8, <1>9 DEF InInv

\* A header that was read goes back to the device.
LEMMA RequeueKeeps == InInv /\ Requeue => InInv'
<1> SUFFICES ASSUME InInv, Requeue PROVE InInv'
  OBVIOUS
<1>1. in \in Ins /\ mic \in Mics /\ inCall \in InCalls /\ mic.queue \in Seq(Headers)
      /\ Len(mic.queue) \in Nat /\ DOMAIN mic.queue = 1 .. Len(mic.queue)
  BY InParts, SeqFacts
<1>2. InAt("requeue") /\ ~in.DeviceStopping /\ in.hDevice /\ mic.open # 0 /\ ~mic.failed
  BY DEF Requeue, InInv, InHandle, InAt
<1>3. CASE QueueHeaderFails /\ inCall' = NoInCall
  <2>1. /\ in' \in Ins /\ in'.hDevice /\ in'.DeviceStopping
        /\ mic' \in Mics /\ inDone' \in InDones /\ inData' \in InDatas /\ got' \in Records
        /\ \A g \in Headers : Len(inData'[g]) <= BufferSize
        /\ mic'.open = mic.open /\ mic'.paused /\ mic'.failed
    BY <1>2, <1>3, RefusedTypes
  <2>2. inCall' \in InCalls /\ inCall'.pc = "idle"
    BY <1>1, <1>3, InCallMoves
  <2>3. InTypeOK'
    BY <2>1, <2>2 DEF InTypeOK, Ins, InDones, InDatas, Mics, InCalls, InPCs, Records
  <2>4. InHandle'
    BY <1>2, <2>1, <2>2 DEF InHandle, InAt
  <2> QED BY <2>1, <2>3, <2>4 DEF InInv
<1>4. PICK r \in Headers : r = in.CurrAudioBufferReadIndex
  BY <1>1 DEF Ins
<1>5. PICK s \in Headers : s = (r + 1) % NumHeaders
  BY RingTurns
<1>6. ASSUME mic' = [mic EXCEPT !.queue = Append(@, r)],
             inDone' = [inDone EXCEPT ![r] = FALSE], inData' = [inData EXCEPT ![r] = << >>],
             in' = [in EXCEPT !.CurrAudioBufferReadIndex = s],
             inCall' = [inCall EXCEPT !.pc = "read"], got' = got
      PROVE  InInv'
  <2>1. /\ inDone' \in InDones /\ inData' \in InDatas
        /\ \A g \in Headers : Len(inData'[g]) <= BufferSize
        /\ ~inDone'[r]
        /\ \A g \in Headers : g # r => inDone'[g] = inDone[g] /\ inData'[g] = inData[g]
    BY <1>6, ClearTypes
  <2>2. /\ mic' \in Mics /\ mic'.open = mic.open /\ mic'.paused = mic.paused
        /\ mic'.failed = mic.failed
        /\ Len(mic'.queue) = Len(mic.queue) + 1
        /\ DOMAIN mic'.queue = 1 .. Len(mic.queue) + 1
        /\ \A j \in 1 .. Len(mic.queue) : mic'.queue[j] = mic.queue[j]
        /\ mic'.queue[Len(mic.queue) + 1] = r
    BY <1>6, QueueTypes
  <2>3. /\ in' \in Ins /\ in'.hDevice = in.hDevice /\ in'.DeviceStopping = in.DeviceStopping
        /\ in'.CurrAudioBufferReadIndex = s
        /\ in'.CurrAuioBufferRemainDataForRead = in.CurrAuioBufferRemainDataForRead
    BY <1>1, <1>6 DEF Ins
  <2>4. inCall' \in InCalls /\ inCall'.pc = "read"
    BY <1>1, <1>6, InCallMoves DEF InPCs
  <2>5. InTypeOK'
    BY <1>6, <2>1, <2>2, <2>3, <2>4
       DEF InInv, InTypeOK, Ins, InDones, InDatas, Mics, InCalls, InPCs
  <2>6. InHandle'
    BY <1>2, <2>2, <2>3, <2>4 DEF InHandle, InAt
  <2>7. InRing /\ RecordedInOrder /\ InTypeOK
    BY <1>2 DEF InInv
  <2>8. PICK f \in Nat : f = FullHeaders
    BY <2>7 DEF InRing
  <2>9. /\ f # 0 /\ in.CurrAuioBufferRemainDataForRead = 0
        /\ f = NumHeaders - Len(mic.queue)
        /\ mic.open = 1 /\ got.upto <= got.next
    BY <1>2, <2>7, <2>8 DEF InRing, FullHeaders
  <2>10. /\ NumHeaders \in Nat \ {0} /\ 1 \in 1 .. NumHeaders /\ NumHeaders \in 1 .. NumHeaders
         /\ f - 1 \in Nat /\ FullHeaders' = f - 1
    BY <1>1, <2>2, <2>8, <2>9, WaveAssumption DEF FullHeaders
  <2>11. /\ RingPos(r, 1) = r
         /\ \A i \in 1 .. NumHeaders - 1 : RingPos(s, i) = RingPos(r, i + 1)
         /\ RingPos(s, NumHeaders) = r
    BY <1>5, RingTurns
  <2>12. /\ \A i \in 1 .. NumHeaders : RingAt(i) = RingPos(r, i) /\ RingPos(r, i) \in Headers
         /\ \A i \in 1 .. NumHeaders : RingAt(i)' = RingPos(s, i)
    BY <1>4, <2>3, <2>5, <2>7, HeldMeans, HeldMeansNext DEF HeldRule
  <2>13. \A i \in 1 .. NumHeaders : (inDone[RingPos(r, i)] <=> i <= f)
    BY <2>7, <2>8, <2>12 DEF InRing
  <2>14. ASSUME NEW i \in 1 .. NumHeaders - 1
         PROVE  /\ i + 1 \in 1 .. NumHeaders /\ RingPos(s, i) # r /\ RingPos(s, i) \in Headers
                /\ RingPos(s, i) = RingPos(r, i + 1)
                /\ inDone'[RingPos(s, i)] = inDone[RingPos(r, i + 1)]
                /\ inData'[RingPos(s, i)] = inData[RingPos(r, i + 1)]
    <3>1. PICK k \in 1 .. NumHeaders : k = i + 1 /\ k # 1
      <4>1. i + 1 \in 1 .. NumHeaders /\ i + 1 # 1
        BY <2>10
      <4> QED BY <4>1, Zenon
    <3>2. RingPos(r, k) # r
      BY <2>10, <2>11, <3>1, RingInjective
    <3>3. RingPos(s, i) = RingPos(r, k)
      BY <2>11, <3>1
    <3> QED BY <2>1, <2>12, <3>1, <3>2, <3>3
  <2>15. ASSUME NEW i \in 1 .. NumHeaders PROVE inDone'[RingPos(s, i)] <=> i <= f - 1
    <3>1. CASE i = NumHeaders
      <4>1. ~(NumHeaders <= f - 1)
        <5>1. PICK L \in Nat : L = Len(mic.queue)
          BY <1>1
        <5>2. f = NumHeaders - L
          BY <2>9, <5>1
        <5> QED BY <2>10, <5>2
      <4> QED BY <2>1, <2>11, <3>1, <4>1
    <3>2. CASE i # NumHeaders
      <4>1. i \in 1 .. NumHeaders - 1
        BY <2>10, <3>2
      <4>2. inDone'[RingPos(s, i)] <=> i + 1 <= f
        BY <2>13, <2>14, <4>1
      <4> QED BY <4>2
    <3> QED BY <3>1, <3>2
  <2>16. ASSUME NEW j \in 1 .. Len(mic.queue) + 1 PROVE mic'.queue[j] = RingAt((f - 1) + j)'
    <3>1. CASE j = Len(mic.queue) + 1
      <4>1. (f - 1) + j = NumHeaders
        <5>1. PICK L \in Nat : L = Len(mic.queue)
          BY <1>1
        <5>2. f = NumHeaders - L /\ j = L + 1
          BY <2>9, <3>1, <5>1
        <5> QED BY <2>10, <5>2
      <4> QED BY <2>2, <2>10, <2>11, <2>12, <3>1, <4>1
    <3>2. CASE j # Len(mic.queue) + 1
      <4>1. j \in 1 .. Len(mic.queue)
        BY <1>1, <3>2
      <4>2. PICK i \in 1 .. NumHeaders - 1 : i = (f - 1) + j
        <5>1. (f - 1) + j \in 1 .. NumHeaders - 1
          BY <1>1, <2>9, <2>10, <4>1
        <5> QED BY <5>1, Zenon
      <4>3. f + j = i + 1
        BY <4>2, <4>1, <1>1
      <4>4. mic.queue[j] = RingAt(f + j)
        BY <1>1, <2>7, <2>8, <4>1 DEF InRing
      <4>5. i \in 1 .. NumHeaders
        BY <2>10
      <4> QED BY <2>2, <2>12, <2>14, <4>1, <4>2, <4>3, <4>4, <4>5
    <3> QED BY <3>1, <3>2
  <2>17. InRing'
    <3>1. \A i \in 1 .. NumHeaders : (inDone'[RingAt(i)'] <=> i <= f - 1)
      BY <2>12, <2>15
    <3> QED BY <1>6, <2>2, <2>3, <2>4, <2>9, <2>10, <2>16, <3>1, SMTT(30) DEF InRing, InAt
  <2>18. PICK H : H = [i \in 1 .. NumHeaders |-> HeldAt(i)]
    OBVIOUS
  <2>19. PICK G : G = [i \in 1 .. NumHeaders |-> HeldAt(i)']
    OBVIOUS
  <2>20. /\ \A i \in 1 .. NumHeaders : H[i] = HeldIn(inDone, inData, r, 0, TRUE, i)
         /\ \A i \in 1 .. NumHeaders : G[i] = HeldIn(inDone', inData', s, 0, FALSE, i)
    <3>1. InAt("requeue") = TRUE /\ InAt("requeue")' = FALSE
      BY <1>2, <2>4 DEF InAt
    <3> QED BY <1>4, <2>3, <2>5, <2>7, <2>9, <2>18, <2>19, <3>1, HeldMeans, HeldMeansNext
            DEF HeldRule
  <2>21. H \in Recordings
    <3>1. \A i \in 1 .. NumHeaders : HeldAt(i) \in Seq(0 .. MaxUnits - 1)
      BY <2>7, HeldIsSeq
    <3> QED BY <2>18, <3>1 DEF Recordings
  <2>22. H[1] = << >>
    BY <2>10, <2>20 DEF HeldIn
  <2>23. G[NumHeaders] = << >>
    BY <2>1, <2>10, <2>11, <2>20 DEF HeldIn
  <2>24. ASSUME NEW i \in 1 .. NumHeaders - 1 PROVE G[i] = H[i + 1]
    <3>1. PICK k \in 1 .. NumHeaders : k = i + 1 /\ k # 1
      <4>1. i + 1 \in 1 .. NumHeaders /\ i + 1 # 1
        BY <2>10
      <4> QED BY <4>1, Zenon
    <3>2. PICK d \in Seq(0 .. MaxUnits - 1) : d = inData[RingPos(r, k)]
      BY <2>7, <2>12, InShape
    <3>3. /\ RingPos(s, i) = RingPos(r, k) /\ inDone'[RingPos(r, k)] = inDone[RingPos(r, k)]
          /\ inData'[RingPos(r, k)] = d /\ i \in 1 .. NumHeaders
      BY <2>10, <2>14, <3>1, <3>2
    <3>4. LastOf(d, Len(d)) = d /\ ~(0 > 0)
      BY LastWhole
    <3>5. H[k] = IF inDone[RingPos(r, k)] THEN d ELSE << >>
      BY <2>20, <3>1, <3>2 DEF HeldIn
    <3>6. i = 1 => RingPos(s, 1) = RingPos(r, k)
      BY <3>3
    <3>7. G[i] = IF inDone[RingPos(r, k)] THEN d ELSE << >>
      BY <2>20, <3>3, <3>4, <3>6 DEF HeldIn
    <3> QED BY <3>1, <3>5, <3>7
  <2>25. G \in Recordings
    <3>1. \A i \in 1 .. NumHeaders : HeldAt(i)' \in Seq(0 .. MaxUnits - 1)
      <4>1. ASSUME NEW i \in 1 .. NumHeaders PROVE G[i] \in Seq(0 .. MaxUnits - 1)
        <5>1. CASE i = NumHeaders
          BY <2>23, <5>1, EmptySeq
        <5>2. CASE i # NumHeaders
          <6>1. i \in 1 .. NumHeaders - 1 /\ i + 1 \in 1 .. NumHeaders
            BY <2>10, <5>2
          <6> QED BY <2>21, <2>24, <6>1 DEF Recordings
        <5> QED BY <5>1, <5>2
      <4> QED BY <2>19, <4>1
    <3> QED BY <2>19, <3>1 DEF Recordings
  <2>26. Ordered(H, got.upto, got.lost, got.next)
    BY <2>7, <2>18, RecordMeans DEF RecordRule
  <2>27. got.upto \in Nat /\ got.next \in Nat /\ got.lost \in SUBSET Nat
    BY <2>7, InShape
  <2>28. Ordered(G, got.upto, got.lost, got.next)
    BY <2>21, <2>22, <2>23, <2>24, <2>25, <2>26, <2>27, OrderedTurns
  <2>29. RecordedInOrder'
    BY <1>6, <2>5, <2>19, <2>28, RecordMeansNext DEF RecordRule
  <2> QED BY <1>2, <2>1, <2>2, <2>3, <2>5, <2>6, <2>17, <2>29 DEF InInv
<1> QED BY <1>3, <1>4, <1>5, <1>6 DEF Requeue, InReturn, InGo

\* What is left of what is left.
LEMMA LastAgain ==
  ASSUME NEW d \in Seq(0 .. MaxUnits - 1), NEW a \in Nat, a <= Len(d), NEW b \in Nat, b <= a
  PROVE  LastOf(LastOf(d, a), b) = LastOf(d, b)
<1>1. PICK e \in Seq(0 .. MaxUnits - 1) : e = LastOf(d, a)
  BY LastFacts
<1>2. Len(e) = a /\ \A j \in 1 .. a : e[j] = d[Len(d) - a + j]
  BY <1>1, LastFacts
<1>3. Len(d) \in Nat /\ b <= Len(d) /\ b <= Len(e)
  BY <1>2, SeqFacts
<1>4. /\ LastOf(d, b) \in Seq(0 .. MaxUnits - 1) /\ Len(LastOf(d, b)) = b
      /\ \A j \in 1 .. b : LastOf(d, b)[j] = d[Len(d) - b + j]
  BY <1>3, LastFacts
<1>5. /\ LastOf(e, b) \in Seq(0 .. MaxUnits - 1) /\ Len(LastOf(e, b)) = b
      /\ \A j \in 1 .. b : LastOf(e, b)[j] = e[Len(e) - b + j]
  BY <1>3, LastFacts
<1>6. ASSUME NEW j \in 1 .. b PROVE LastOf(e, b)[j] = LastOf(d, b)[j]
  <2>1. PICK m \in 1 .. a : m = Len(e) - b + j
    <3>1. a - b + j \in 1 .. a
      OBVIOUS
    <3> QED BY <1>2, <3>1, Zenon
  <2>2. Len(d) - a + m = Len(d) - b + j
    BY <1>2, <1>3, <2>1
  <2> QED BY <1>2, <1>4, <1>5, <2>1, <2>2
<1>7. LastOf(e, b) = LastOf(d, b)
  BY <1>4, <1>5, <1>6, SeqEqual
<1> QED BY <1>1, <1>7

\* ReadData copies from the header that is read next.
LEMMA TakeKeeps == InInv /\ TakeData => InInv'
<1> SUFFICES ASSUME InInv, TakeData PROVE InInv'
  OBVIOUS
<1>1. in \in Ins /\ mic \in Mics /\ inCall \in InCalls /\ inDone \in InDones
      /\ inData \in InDatas /\ got \in Records
  BY InParts
<1>2. /\ InAt("read") /\ inCall.len > 0 /\ ~in.DeviceStopping /\ ~mic.failed
      /\ in.hDevice /\ mic.open # 0 /\ UNCHANGED <<inDone, inData, mic>>
      /\ InRing /\ RecordedInOrder /\ InTypeOK
  BY DEF TakeData, InInv, InHandle, InAt
<1>3. PICK r \in Headers, left \in Nat, len \in Nat :
        /\ r = in.CurrAudioBufferReadIndex /\ left = in.CurrAuioBufferRemainDataForRead
        /\ len = inCall.len /\ left <= BufferSize
  <2>1. in.CurrAudioBufferReadIndex \in Headers /\ inCall.len \in Nat
        /\ in.CurrAuioBufferRemainDataForRead \in 0 .. BufferSize
    BY <1>1 DEF Ins, InCalls
  <2>2. in.CurrAuioBufferRemainDataForRead \in Nat
        /\ in.CurrAuioBufferRemainDataForRead <= BufferSize
    BY <2>1, WaveAssumption
  <2> QED BY <2>1, <2>2, Zenon
<1>4. PICK d \in Seq(0 .. MaxUnits - 1) : d = inData[r] /\ Len(d) <= BufferSize
  BY <1>1, <1>3 DEF InDatas, InInv
<1>5. Len(d) \in Nat /\ DOMAIN d = 1 .. Len(d) /\ 1 \in 1 .. NumHeaders
      /\ \A j \in DOMAIN d : d[j] \in 0 .. MaxUnits - 1
  BY <1>4, SeqFacts, WaveAssumption
<1>6. RingAt(1) = r
  BY <1>2, <1>3, <1>5, HeldMeans, RingTurns DEF HeldRule
<1>7. (left # 0 => left <= Len(d)) /\ (left # 0 => inDone[r])
  <2>1. FullHeaders \in Nat /\ (left # 0 => FullHeaders # 0)
    BY <1>2, <1>3 DEF InRing
  <2>2. inDone[r] <=> 1 <= FullHeaders
    BY <1>2, <1>5, <1>6 DEF InRing
  <2>3. left # 0 => 1 <= FullHeaders
    BY <2>1
  <2> QED BY <1>2, <1>3, <1>4, <1>6, <2>2, <2>3 DEF InRing
<1>8. inDone[r]
  BY <1>3, <1>7 DEF TakeData
<1>9. PICK R \in Nat : R = Remaining(r) /\ R = IF left > 0 THEN left ELSE Len(d)
  BY <1>3, <1>4, <1>5 DEF Remaining
<1>10. R <= Len(d) /\ R <= BufferSize
  BY <1>3, <1>4, <1>5, <1>7, <1>9
<1>11. PICK n \in Nat : n = Smaller(len, R) /\ n <= len /\ n <= R /\ (n = R \/ n = len)
  BY DEF Smaller
<1>12. /\ got' = IF n = 0 THEN got
               ELSE [got EXCEPT !.upto = CopyData(r, n)[n] + 1,
                                !.lost = {u \in got.lost : u >= CopyData(r, n)[n] + 1}]
       /\ in' = [in EXCEPT !.CurrAuioBufferRemainDataForRead = R - n]
       /\ inCall' = [inCall EXCEPT !.len = len - n, !.pc = IF n = R THEN "requeue" ELSE "read"]
  BY <1>3, <1>9, <1>11 DEF TakeData
<1>13. R - n \in Nat /\ R - n \in 0 .. BufferSize /\ len - n \in Nat
  BY <1>10, <1>11, WaveAssumption
<1>14. /\ in' \in Ins /\ in'.hDevice = in.hDevice /\ in'.DeviceStopping = in.DeviceStopping
       /\ in'.CurrAudioBufferReadIndex = r /\ in'.CurrAuioBufferRemainDataForRead = R - n
  BY <1>1, <1>3, <1>12, <1>13 DEF Ins
<1>15. inCall' \in InCalls /\ inCall'.pc = IF n = R THEN "requeue" ELSE "read"
  <2>1. PICK p \in InPCs : p = IF n = R THEN "requeue" ELSE "read"
    BY DEF InPCs
  <2>2. inCall' = [inCall EXCEPT !.len = len - n, !.pc = p]
    BY <1>12, <2>1
  <2>3. inCall' \in InCalls /\ inCall'.pc = p
    BY <1>1, <1>13, <2>2 DEF InCalls
  <2> QED BY <2>1, <2>3
<1>16. PICK H : H = [i \in 1 .. NumHeaders |-> HeldAt(i)]
  OBVIOUS
<1>17. H \in Recordings /\ H[1] = LastOf(d, R) /\ Len(H[1]) = R
  <2>1. \A i \in 1 .. NumHeaders : HeldAt(i) \in Seq(0 .. MaxUnits - 1)
    BY <1>2, HeldIsSeq
  <2>2. H \in Recordings
    BY <1>16, <2>1 DEF Recordings
  <2>3. ~InAt("requeue")
    BY <1>2 DEF InAt
  <2>4. HeldAt(1) = HeldIn(inDone, inData, r, left, InAt("requeue"), 1)
    BY <1>2, <1>3, <1>5, HeldMeans DEF HeldRule
  <2>5. RingPos(r, 1) = r
    BY RingTurns
  <2>6. HeldAt(1) = LastOf(d, R)
    BY <1>4, <1>8, <1>9, <2>3, <2>4, <2>5 DEF HeldIn
  <2> QED BY <1>5, <1>10, <1>16, <2>2, <2>6, LastFacts
<1>18. n # 0 => CopyData(r, n)[n] = H[1][n] /\ H[1][n] \in 0 .. MaxUnits - 1
  <2> SUFFICES ASSUME n # 0
      PROVE CopyData(r, n)[n] = H[1][n] /\ H[1][n] \in 0 .. MaxUnits - 1
    OBVIOUS
  <2>1. CopyData(r, n) = SubSeq(d, Len(d) - R + 1, Len(d) - R + n)
    BY <1>4, <1>9 DEF CopyData
  <2>2. PICK a \in Nat, b \in Nat : a = Len(d) - R + 1 /\ b = Len(d) - R + n
    <3>1. Len(d) - R + 1 \in Nat /\ Len(d) - R + n \in Nat
      BY <1>5, <1>10
    <3> QED BY <3>1, Zenon
  <2>3. 1 <= a /\ b <= Len(d) /\ a <= b /\ b - a + 1 = n /\ a + n - 1 = b
    BY <1>5, <1>10, <1>11, <2>2, SMTT(30)
  <2>4. \A i \in a .. b : d[i] \in 0 .. MaxUnits - 1
    BY <1>5, <2>3
  <2>5. SubSeq(d, a, b)[n] = d[b]
    BY <2>3, <2>4, SubSeqProperties
  <2>6. H[1][n] = d[b]
    <3>1. n \in 1 .. R
      BY <1>11
    <3>2. LastOf(d, R)[n] = d[Len(d) - R + n]
      BY <1>10, <3>1, LastFacts
    <3> QED BY <1>17, <2>2, <3>2
  <2>7. b \in DOMAIN d
    BY <1>5, <2>3
  <2> QED BY <1>5, <2>1, <2>2, <2>5, <2>6, <2>7
<1>19. got' \in Records
  <2>1. CASE n = 0
    BY <1>1, <1>12, <2>1
  <2>2. CASE n # 0
    <3>1. PICK last \in 0 .. MaxUnits - 1 : last = H[1][n]
      BY <1>18, <2>2
    <3>2. got' = [got EXCEPT !.upto = last + 1, !.lost = {u \in got.lost : u >= last + 1}]
      BY <1>12, <1>18, <2>2, <3>1
    <3>3. last + 1 \in 0 .. MaxUnits
      BY WaveAssumption
    <3>4. {u \in got.lost : u >= last + 1} \in SUBSET (0 .. MaxUnits - 1)
      BY <1>1 DEF Records
    <3> QED BY <1>1, <3>2, <3>3, <3>4 DEF Records
  <2> QED BY <2>1, <2>2
<1>20. InTypeOK'
  BY <1>2, <1>14, <1>15, <1>19 DEF InInv, InTypeOK, Ins, InCalls, InPCs, Records
<1>21. InHandle'
  BY <1>2, <1>14, <1>15 DEF InHandle, InAt
<1>22. PICK G : G = [i \in 1 .. NumHeaders |-> HeldAt(i)']
  OBVIOUS
<1>23. G[1] = LastOf(H[1], Len(H[1]) - n)
  <2>1. HeldAt(1)' = HeldIn(inDone, inData, r, R - n, InAt("requeue")', 1)
    BY <1>2, <1>5, <1>14, <1>20, HeldMeansNext DEF HeldRule
  <2>2. RingPos(r, 1) = r
    BY RingTurns
  <2>3. CASE n = R
    <3>1. InAt("requeue")' /\ R - n = 0
      BY <1>15, <2>3 DEF InAt
    <3>2. G[1] = << >>
      BY <1>5, <1>22, <2>1, <3>1 DEF HeldIn
    <3>3. LastOf(H[1], 0) = << >>
      <4>1. H[1] \in Seq(0 .. MaxUnits - 1)
        BY <1>5, <1>17 DEF Recordings
      <4> QED BY <4>1, LastWhole
    <3> QED BY <1>17, <3>1, <3>2, <3>3
  <2>4. CASE n # R
    <3>1. ~InAt("requeue")' /\ R - n > 0 /\ R - n <= R
      BY <1>11, <1>15, <2>4 DEF InAt
    <3>2. G[1] = LastOf(d, R - n)
      BY <1>4, <1>5, <1>8, <1>22, <2>1, <2>2, <3>1 DEF HeldIn
    <3>3. LastOf(LastOf(d, R), R - n) = LastOf(d, R - n)
      BY <1>10, <1>13, <3>1, LastAgain
    <3> QED BY <1>17, <3>2, <3>3
  <2> QED BY <2>3, <2>4
<1>24. \A i \in 1 .. NumHeaders : i # 1 => G[i] = H[i]
  <2>1. \A i \in 1 .. NumHeaders :
          HeldAt(i)' = HeldIn(inDone, inData, r, R - n, InAt("requeue")', i)
    BY <1>2, <1>14, <1>20, HeldMeansNext DEF HeldRule
  <2>2. \A i \in 1 .. NumHeaders :
          HeldAt(i) = HeldIn(inDone, inData, r, left, InAt("requeue"), i)
    BY <1>2, <1>3, HeldMeans DEF HeldRule
  <2> QED BY <1>16, <1>22, <2>1, <2>2 DEF HeldIn
<1>25. G \in Recordings
  <2>1. LastOf(H[1], Len(H[1]) - n) \in Seq(0 .. MaxUnits - 1)
    <3>1. H[1] \in Seq(0 .. MaxUnits - 1) /\ R - n <= Len(H[1])
      BY <1>5, <1>11, <1>13, <1>17 DEF Recordings
    <3> QED BY <1>13, <1>17, <3>1, LastFacts
  <2>2. \A i \in 1 .. NumHeaders : G[i] \in Seq(0 .. MaxUnits - 1)
    BY <1>17, <1>23, <1>24, <2>1 DEF Recordings
  <2>3. \A i \in 1 .. NumHeaders : HeldAt(i)' \in Seq(0 .. MaxUnits - 1)
    BY <1>22, <2>2
  <2> QED BY <1>22, <2>3 DEF Recordings
<1>26. PICK upto \in Nat, next \in Nat, lost \in SUBSET Nat :
         upto = got.upto /\ next = got.next /\ lost = got.lost
  <2>1. got.upto \in Nat /\ got.next \in Nat /\ got.lost \in SUBSET Nat
    BY <1>2, InShape
  <2> QED BY <2>1, Zenon
<1>27. Ordered(H, upto, lost, next) /\ upto <= next
  BY <1>2, <1>16, <1>26, RecordMeans DEF RecordRule, InRing
<1>28. Ordered(G, got'.upto, got'.lost, got'.next) /\ got'.upto <= got'.next
  <2>1. CASE n = 0
    <3>1. LastOf(H[1], Len(H[1]) - n) = H[1]
      <4>1. H[1] \in Seq(0 .. MaxUnits - 1) /\ Len(H[1]) - n = Len(H[1])
        BY <1>5, <1>17, <2>1 DEF Recordings
      <4> QED BY <4>1, LastWhole
    <3>2. \A i \in 1 .. NumHeaders : G[i] = H[i]
      BY <1>23, <1>24, <3>1
    <3>3. G = H
      <4>1. \A i \in 1 .. NumHeaders : HeldAt(i)' = HeldAt(i)
        BY <1>16, <1>22, <3>2
      <4> QED BY <1>16, <1>22, <4>1
    <3> QED BY <1>12, <1>26, <1>27, <2>1, <3>3
  <2>2. CASE n # 0
    <3>1. n \in Nat \ {0} /\ n <= Len(H[1])
      BY <1>11, <1>17, <2>2
    <3>2. \A i \in 1 .. NumHeaders : G[i] = IF i = 1 THEN LastOf(H[1], Len(H[1]) - n) ELSE H[i]
      BY <1>23, <1>24
    <3>3. Ordered(G, H[1][n] + 1, {u \in lost : u >= H[1][n] + 1}, next)
      BY <1>17, <1>25, <1>27, <3>1, <3>2, OrderedTakes
    <3>4. got'.upto = H[1][n] + 1 /\ got'.lost = {u \in lost : u >= H[1][n] + 1}
          /\ got'.next = next
      BY <1>1, <1>12, <1>18, <1>26, <2>2 DEF Records
    <3>5. H[1][n] \in upto .. next - 1
      <4>1. n \in DOMAIN H[1]
        BY <1>5, <1>17, <3>1, RecordingFacts
      <4> QED BY <1>5, <1>27, <4>1 DEF Ordered
    <3> QED BY <3>3, <3>4, <3>5
  <2> QED BY <2>1, <2>2
<1>29. RecordedInOrder'
  BY <1>20, <1>22, <1>28, RecordMeansNext DEF RecordRule
<1>30. InRing'
  <2>1. \A i : RingAt(i)' = RingAt(i)
    BY <1>3, <1>14 DEF RingAt
  <2>2. FullHeaders' = FullHeaders /\ FullHeaders \in Nat
    BY <1>2 DEF FullHeaders, InRing
  <2>3. FullHeaders # 0 /\ R - n <= Len(inData[RingAt(1)])
    <3>1. 1 <= FullHeaders
      BY <1>2, <1>5, <1>6, <1>8 DEF InRing
    <3>2. R - n <= Len(d)
      BY <1>5, <1>10, <1>11
    <3> QED BY <1>4, <1>6, <2>2, <3>1, <3>2
  <2>4. InAt("requeue")' => R - n = 0
    BY <1>15 DEF InAt
  <2> QED BY <1>2, <1>14, <1>28, <2>1, <2>2, <2>3, <2>4 DEF InRing
<1> QED BY <1>2, <1>14, <1>20, <1>21, <1>29, <1>30 DEF InInv

\* The invariant holds at first.
LEMMA InInitInv == InInit => InInv
<1> SUFFICES ASSUME InInit PROVE InInv
  OBVIOUS
<1>1. 0 \in Headers /\ 0 \in 0 .. BufferSize /\ 0 \in 0 .. MaxUnits /\ 0 \in 0 .. MaxHandles
  BY WaveAssumption DEF Headers, MaxHandles
<1>2. in \in Ins /\ in.DeviceStopping /\ ~in.hDevice
  BY <1>1 DEF InInit, Ins
<1>3. inDone \in InDones /\ inData \in InDatas /\ \A h \in Headers : inData[h] = << >>
  BY EmptySeq DEF InInit, InDones, InDatas
<1>4. mic \in Mics /\ mic.queue = << >> /\ mic.open = 0 /\ ~mic.failed
  BY <1>1, EmptySeq DEF InInit, Mics, NoDevice
<1>5. inCall \in InCalls /\ inCall.pc = "idle"
  BY DEF InInit, InCalls, InPCs, NoInCall
<1>6. got \in Records /\ got = NewRecord
  BY <1>1 DEF InInit, Records, NewRecord
<1>7. InTypeOK
  BY <1>2, <1>3, <1>4, <1>5, <1>6, InTypes
<1>8. \A h \in Headers : Len(inData[h]) <= BufferSize
  <2>1. Len(<< >>) = 0 /\ 0 <= BufferSize
    BY WaveAssumption
  <2> QED BY <1>3, <2>1
<1>9. InHandle /\ InStopped
  BY <1>2, <1>4, <1>5, <1>6 DEF InHandle, InStopped, InAt
<1> QED BY <1>2, <1>7, <1>8, <1>9 DEF InInv

\* Every step of the object, its user and the device keeps it.
LEMMA InNextInv == InInv /\ [InNext]_inVars => InInv'
<1> SUFFICES ASSUME InInv, [InNext]_inVars PROVE InInv'
  OBVIOUS
<1>1. CASE InUser
  BY <1>1, CallsKeep, PauseKeeps, ReportsKeep, ResetInKeeps DEF InUser
<1>2. CASE InStep
  BY <1>2, CallsKeep, StopInBeginsKeeps, CloseInKeeps, OpenInKeeps, PrepareInKeeps,
     StartQueuesKeeps, StartedKeeps, TakeKeeps, RequeueKeeps DEF InStep
<1>3. CASE UNCHANGED inVars
  <2>1. in' = in /\ inDone' = inDone /\ inData' = inData /\ mic' = mic /\ inCall' = inCall
        /\ got' = got
    BY <1>3 DEF inVars
  <2>2. in' \in Ins /\ mic' \in Mics /\ inCall' \in InCalls
    BY <2>1, InParts
  <2> QED BY <2>1, <2>2, QuietKeeps
<1> QED BY <1>1, <1>2, <1>3, FillMicKeeps, LoseKeeps, ReportsKeep DEF InNext

\* The invariant holds throughout, for every number and size of the headers, amount of
\* sound and set of sizes the user reads.
THEOREM InInvariant == InSpec => []InInv
BY InInitInv, InNextInv, PTL DEF InSpec

\* What ReadData gives is the recording: in order, no unit twice, and nothing missing but
\* what came while no header was queued (c_audio_in.cpp).
THEOREM RecordIsInOrder == InSpec => []RecordInOrder
BY InInvariant, InInvOrdered, PTL
==============================================================================
