----------------------------- MODULE SerialPort -----------------------------
(***************************************************************************)
(* CSerial (DEVS/PORT/SERIAL/WINDOWS/Serial.cpp, with overlapped requests). *)
(* It takes no lock: DeviceInUse is public for its users, who hold it here  *)
(* around every call.  Each setting is a read, a change and a write of the  *)
(* device's control block; each transfer without an OVERLAPPED of the       *)
(* caller's uses one on its stack and the one event of the object, and is   *)
(* cancelled but not waited for when it times out.                          *)
(***************************************************************************)
EXTENDS Integers

CONSTANT SerialWorlds  \* the uses that are looked at: [settings, timeouts, mute]

Handshakes == {"Off", "Hardware", "Software"}
\* Setup's arguments: eBaudrate, eDataBits, eParity, eStopBits.
SetupArguments == {<<9600, 8, "None", 1>>, <<9600, 7, "Odd", 1>>, <<19200, 8, "Odd", 2>>}
EventChars == {0, 1}
DefaultMask == {"Recv"}  \* EEventBreak|EEventError|EEventRecv

VARIABLES
  serWorld,  \* settings: the user changes settings (or else transfers data); timeouts: dwTimeout
             \* is finite; mute: nothing arrives, nothing is sent
  ser,       \* hFile, hevtOverlapped, dwEventMask, lLastError
  comm,      \* the device: its control block, event mask, whether reads block, its event
             \* object, the requests it has: the call's own, abandoned ones, a caller's; and
             \* the settings it has accepted
  serCall    \* the call in progress and its locals
serVars == <<serWorld, ser, comm, serCall>>

\* The fields of a DCB that CSerial writes.
DefaultDCB == [BaudRate |-> 9600, ByteSize |-> 8, fParity |-> FALSE, Parity |-> "None",
               StopBits |-> 1, EvtChar |-> 0, fDtrControl |-> "DISABLE",
               fRtsControl |-> "DISABLE", fOutX |-> FALSE, fInX |-> FALSE]
\* What the getters make of a control block.
GetBaudrate(dcb) == dcb.BaudRate
GetDataBits(dcb) == dcb.ByteSize
GetStopBits(dcb) == dcb.StopBits
GetParity(dcb) == IF dcb.fParity THEN dcb.Parity ELSE "None"
GetEventChar(dcb) == dcb.EvtChar
GetHandshaking(dcb) ==
  IF dcb.fDtrControl = "HANDSHAKE" /\ dcb.fRtsControl = "HANDSHAKE" THEN "Hardware"
  ELSE IF dcb.fOutX /\ dcb.fInX THEN "Software" ELSE "Off"
Settings(dcb) ==
  [line |-> <<GetBaudrate(dcb), GetDataBits(dcb), GetParity(dcb), GetStopBits(dcb)>>,
   EvtChar |-> GetEventChar(dcb), handshake |-> GetHandshaking(dcb)]

NoComm == [dcb |-> DefaultDCB, mask |-> {}, blocking |-> TRUE, event |-> FALSE,
           own |-> "none", stale |-> 0, user |-> FALSE, told |-> Settings(DefaultDCB), masked |-> TRUE]
NoSerCall == [pc |-> "idle", op |-> "none", arg |-> << >>, dcb |-> DefaultDCB,
              count |-> 0, moved |-> 0]

\* Bound: the requests that are abandoned at a time.
MaxAbandoned == 1

SerInitIn(worlds) ==
  /\ serWorld \in worlds
  /\ ser = [hFile |-> FALSE, hevtOverlapped |-> FALSE, dwEventMask |-> {}, lLastError |-> "SUCCESS"]
  /\ comm = NoComm
  /\ serCall = NoSerCall
SerInit == SerInitIn(SerialWorlds)

SerAt(pc) == serCall.pc = pc
SerGo(pc) == serCall' = [serCall EXCEPT !.pc = pc]
LastError(e) == ser' = [ser EXCEPT !.lLastError = e]
Quit(e) == LastError(e) /\ SerGo("return") /\ UNCHANGED comm

\* Every member function resets the error and reports a port that is not open.
Begin(op, pc, arg) ==
  /\ SerAt("idle")
  /\ serCall' = [NoSerCall EXCEPT !.op = op, !.arg = arg, !.pc = IF ser.hFile THEN pc ELSE "return"]
  /\ LastError(IF ser.hFile THEN "SUCCESS" ELSE "INVALID_HANDLE")
  /\ UNCHANGED <<serWorld, comm>>

SerReturn ==
  /\ SerAt("return") /\ serCall' = NoSerCall
  /\ UNCHANGED <<serWorld, ser, comm>>

------------------------------------------------------------------------------
\* Open and Close.

OpenAgain ==
  /\ SerAt("idle") /\ ser.hFile
  /\ LastError("ALREADY_INITIALIZED")
  /\ UNCHANGED <<serWorld, comm, serCall>>

\* CreateFile, CreateEvent and SetupComm: any may fail, and leaves the port closed.
OpenFails ==
  /\ SerAt("idle") /\ ~ser.hFile
  /\ LastError("OPEN")
  /\ UNCHANGED <<serWorld, comm, serCall>>

\* SetMask, SetupReadTimeouts (whose result is the one Open returns: an error of SetMask is
\* forgotten, one of its own leaves the port open), the default configuration.
OpenSerial(fOverlapped) ==
  /\ SerAt("idle") /\ ~ser.hFile
  /\ \E masked, nonblocking \in BOOLEAN, configured \in {DefaultDCB, comm.dcb} :
       /\ ser' = [hFile |-> TRUE, hevtOverlapped |-> fOverlapped,
                  dwEventMask |-> IF masked THEN DefaultMask ELSE ser.dwEventMask,
                  lLastError |-> IF nonblocking THEN "SUCCESS" ELSE "DEVICE"]
       /\ comm' = [comm EXCEPT !.mask = IF masked THEN DefaultMask ELSE {},
                     !.masked = masked, !.blocking = ~nonblocking, !.event = FALSE,
                     !.dcb = configured, !.told = Settings(configured)]
  /\ UNCHANGED <<serWorld, serCall>>

\* The event goes first, then the device, which gives up what it had.
CloseSerial ==
  /\ SerAt("idle")
  /\ ser' = [ser EXCEPT !.hFile = FALSE, !.hevtOverlapped = FALSE, !.lLastError = "SUCCESS"]
  /\ comm' = [comm EXCEPT !.own = "none", !.stale = 0, !.user = FALSE, !.event = FALSE]
  /\ UNCHANGED <<serWorld, serCall>>

------------------------------------------------------------------------------
\* Setup, SetEventChar, SetupHandshaking: GetCommState, the change, SetCommState.

BeginSetting ==
  \/ \E line \in SetupArguments : Begin("Setup", "get", line)
  \/ \E c \in EventChars, adjust \in BOOLEAN : Begin("SetEventChar", "get", <<c, adjust>>)
  \/ \E h \in Handshakes : Begin("SetupHandshaking", "get", <<h>>)

GetCommState ==
  /\ SerAt("get")
  /\ \/ /\ serCall' = [serCall EXCEPT !.dcb = comm.dcb, !.pc = "change"]
        /\ UNCHANGED <<ser, comm>>
     \/ Quit("DEVICE")
  /\ UNCHANGED serWorld

\* Mutant of SettingOf: the handshaking of software leaves the hardware lines as they are.
SettingOfPartly(dcb, op, arg) ==
  CASE op = "Setup" -> [dcb EXCEPT !.BaudRate = arg[1], !.ByteSize = arg[2], !.Parity = arg[3],
                                   !.StopBits = arg[4], !.fParity = (arg[3] # "None")]
    [] op = "SetEventChar" -> [dcb EXCEPT !.EvtChar = arg[1]]
    [] op = "SetupHandshaking" ->
         LET x == arg[1] = "Software"
         IN [dcb EXCEPT !.fOutX = x, !.fInX = x,
                        !.fDtrControl = IF x THEN @ ELSE IF arg[1] = "Off" THEN "DISABLE"
                                        ELSE "HANDSHAKE",
                        !.fRtsControl = IF x THEN @ ELSE IF arg[1] = "Off" THEN "DISABLE"
                                        ELSE "HANDSHAKE"]

\* The control block with the new setting in it.
SettingOf(dcb, op, arg) ==
  CASE op = "Setup" -> [dcb EXCEPT !.BaudRate = arg[1], !.ByteSize = arg[2], !.Parity = arg[3],
                                   !.StopBits = arg[4], !.fParity = (arg[3] # "None")]
    [] op = "SetEventChar" -> [dcb EXCEPT !.EvtChar = arg[1]]
    [] op = "SetupHandshaking" ->
         LET line == IF arg[1] = "Hardware" THEN "HANDSHAKE" ELSE "DISABLE"
         IN [dcb EXCEPT !.fOutX = (arg[1] = "Software"), !.fInX = (arg[1] = "Software"),
                        !.fDtrControl = line, !.fRtsControl = line]

ChangeDCB ==
  /\ SerAt("change")
  /\ serCall' = [serCall EXCEPT !.dcb = SettingOf(@, serCall.op, serCall.arg),
                   !.pc = IF serCall.op = "SetEventChar" /\ serCall.arg[2] THEN "mask" ELSE "set"]
  /\ UNCHANGED <<serWorld, ser, comm>>

\* Mutant of SetCommMask: the mask is saved though the device has refused it.
SetCommMaskUnseen(mask) ==
  \/ /\ ser' = [ser EXCEPT !.dwEventMask = mask, !.lLastError = "SUCCESS"]
     /\ comm' = [comm EXCEPT !.mask = mask, !.masked = TRUE]
  \/ /\ ser' = [ser EXCEPT !.dwEventMask = mask, !.lLastError = "DEVICE"]
     /\ UNCHANGED comm

GetEventMask == ser.dwEventMask

\* SetMask; the new mask is saved when the device has taken it.
SetCommMask(mask) ==
  \/ /\ ser' = [ser EXCEPT !.dwEventMask = mask, !.lLastError = "SUCCESS"]
     /\ comm' = [comm EXCEPT !.mask = mask, !.masked = TRUE]
  \/ LastError("DEVICE") /\ UNCHANGED comm

AdjustMask ==
  /\ SerAt("mask") /\ SerGo("set")
  /\ SetCommMask(GetEventMask \cup {"RcvEv"})
  /\ UNCHANGED serWorld

SetMask(mask) ==
  /\ SerAt("idle") /\ ser.hFile
  /\ SetCommMask(mask)
  /\ UNCHANGED <<serWorld, serCall>>

\* The settings that the device has accepted, one by one.
Accepted(told, op, arg) ==
  CASE op = "Setup" -> [told EXCEPT !.line = arg]
    [] op = "SetEventChar" -> [told EXCEPT !.EvtChar = arg[1]]
    [] op = "SetupHandshaking" -> [told EXCEPT !.handshake = arg[1]]

SetCommState ==
  /\ SerAt("set")
  /\ \/ /\ comm' = [comm EXCEPT !.dcb = serCall.dcb,
                                !.told = Accepted(@, serCall.op, serCall.arg)]
        /\ UNCHANGED ser
     \/ LastError("DEVICE") /\ UNCHANGED comm
  /\ serCall' = [serCall EXCEPT !.pc = "return", !.dcb = DefaultDCB]
  /\ UNCHANGED serWorld

SetupReadTimeouts(blocking) ==
  /\ SerAt("idle") /\ ser.hFile
  /\ \/ LastError("SUCCESS") /\ comm' = [comm EXCEPT !.blocking = blocking]
     \/ LastError("DEVICE") /\ UNCHANGED comm
  /\ UNCHANGED <<serWorld, serCall>>

\* Getters, Purge, Break, GetError: they tell of a closed port or pass on an error.
Ask ==
  /\ SerAt("idle")
  /\ \E e \in IF ser.hFile THEN {"SUCCESS", "DEVICE"} ELSE {"INVALID_HANDLE"} : LastError(e)
  /\ UNCHANGED <<serWorld, comm, serCall>>

------------------------------------------------------------------------------
\* WaitEvent, Write, Read; given: with an OVERLAPPED of the caller's.

BeginTransfer(op, given) == Begin(op, "check", <<given>>)

CheckTransfer ==
  /\ SerAt("check")
  /\ IF ~ser.hevtOverlapped /\ (serCall.arg[1] \/ serWorld.timeouts)
     THEN Quit("INVALID_FUNCTION")
     ELSE SerGo("submit") /\ UNCHANGED <<ser, comm>>
  /\ UNCHANGED serWorld

\* Mutant of Took: the event stays as the last request has left it.
TookUncleared(c) == [c EXCEPT !.own = "pending"]
\* The device takes a request that uses the event of the object, and clears it.
Took(c) == [c EXCEPT !.own = "pending", !.event = FALSE]

\* At once (then the event is set), refused, or pending: on the stack's OVERLAPPED, or on
\* the caller's, and then the call is over.  A port without overlapped requests blocks.
SubmitSerial ==
  /\ SerAt("submit")
  /\ \/ \E n \in IF serWorld.mute /\ comm.blocking THEN {} ELSE {0, 1} :
          /\ serCall' = [serCall EXCEPT !.pc = "return", !.count = n, !.moved = n]
          /\ comm' = [comm EXCEPT !.event = @ \/ ~serCall.arg[1]]
          /\ UNCHANGED ser
     \/ Quit("DEVICE")
     \/ /\ ser.hevtOverlapped /\ serCall.arg[1] /\ ~comm.user
        /\ comm' = [comm EXCEPT !.user = TRUE]
        /\ SerGo("return") /\ UNCHANGED ser
     \/ /\ ser.hevtOverlapped /\ ~serCall.arg[1]
        /\ comm' = Took(comm)
        /\ SerGo("wait") /\ UNCHANGED ser
  /\ UNCHANGED serWorld

\* WAIT_OBJECT_0 and GetOverlappedResult without waiting; WaitEvent does not ask for the
\* result.
WaitSerial ==
  /\ SerAt("wait") /\ comm.event
  /\ \/ /\ serCall.op = "WaitEvent" \/ comm.own = "done"
        /\ serCall' = [serCall EXCEPT !.pc = "return", !.count = serCall.moved]
        /\ comm' = [comm EXCEPT !.own = "none"]
        /\ UNCHANGED ser
     \/ /\ serCall.op # "WaitEvent" /\ comm.own # "done"
        /\ LastError("DEVICE") /\ SerGo("return")
        /\ comm' = [comm EXCEPT !.own = "none", !.stale = IF comm.own = "pending" THEN @ + 1 ELSE @]
  /\ UNCHANGED serWorld

\* WAIT_TIMEOUT: CancelIo, which the driver may still be busy with when Read returns; it
\* takes back all the requests of this thread.
SerialTimeout ==
  /\ SerAt("wait") /\ serWorld.timeouts /\ ~comm.event /\ comm.stale < MaxAbandoned
  /\ LastError("TIMEOUT") /\ SerGo("return")
  /\ comm' = [comm EXCEPT !.own = "none", !.stale = @ + 1]
  /\ UNCHANGED serWorld

------------------------------------------------------------------------------
\* The driver.

DriverAnswers ==
  /\ comm.own = "pending" /\ ~serWorld.mute
  /\ \/ \E n \in {0, 1} : /\ serCall' = [serCall EXCEPT !.moved = n]
                          /\ comm' = [comm EXCEPT !.own = "done", !.event = TRUE]
     \/ comm' = [comm EXCEPT !.own = "failed", !.event = TRUE] /\ UNCHANGED serCall
  /\ UNCHANGED <<serWorld, ser>>

\* An abandoned request completes and sets the event of the object; or a caller's.
DriverAnswersLate ==
  /\ \/ comm.stale > 0 /\ comm' = [comm EXCEPT !.stale = @ - 1, !.event = TRUE]
     \/ comm.user /\ comm' = [comm EXCEPT !.user = FALSE]
  /\ UNCHANGED <<serWorld, ser, serCall>>

------------------------------------------------------------------------------
SerUser ==
  \/ OpenAgain \/ OpenFails \/ (\E o \in BOOLEAN : OpenSerial(o)) \/ CloseSerial
  \/ Ask
  \/ serWorld.settings /\ (BeginSetting \/ SetMask(DefaultMask))
  \/ ~serWorld.settings /\
       \/ \E blocking \in BOOLEAN : SetupReadTimeouts(blocking)
       \/ \E op \in {"WaitEvent", "Write", "Read"}, given \in BOOLEAN : BeginTransfer(op, given)
SerStep == \/ GetCommState \/ ChangeDCB \/ AdjustMask \/ SetCommState
           \/ CheckTransfer \/ SubmitSerial \/ WaitSerial \/ SerialTimeout \/ SerReturn
SerDriver == DriverAnswers \/ DriverAnswersLate
SerNext == SerUser \/ SerStep \/ SerDriver
SerSpec == SerInit /\ [][SerNext]_serVars
SerFairness == WF_serVars(SerStep) /\ WF_serVars(SerDriver)
==============================================================================
