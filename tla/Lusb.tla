-------------------------------- MODULE Lusb --------------------------------
(***************************************************************************)
(* TLUSB_BASE (DEVS/USB/WINDOWS/lusb.cpp): a device handle, three pipes     *)
(* with a mutex and an OVERLAPPED each, and one LastErrorNumber that every  *)
(* call clears, sets and tests whatever mutex it holds.  A request whose    *)
(* call timed out is cancelled but not waited for: it stays with the driver *)
(* and completes into the OVERLAPPED that the next call uses.  The driver   *)
(* clears the event of an OVERLAPPED when it takes a request.               *)
(***************************************************************************)
EXTENDS Integers, FiniteSets

CONSTANTS
  UsbWorlds,        \* the uses that are looked at: [callers, loops, timeouts, mute, present]
  UsbLengths,       \* the values of DataBufferLength
  MaxTransfer,      \* MAX_CONTROL_TRANSFER_SIZE
  Slots             \* 256: how many values the BYTE that counts the slots has

ASSUME UsbAssumption ==
  MaxTransfer \in Nat \ {0} /\ Slots \in Nat \ {0} /\ UsbLengths \subseteq Nat \ {0}

Pipes == {"control", "write", "read"}

VARIABLES
  usbWorld,   \* callers: its threads; loops: they call what loops over other calls;
              \* timeouts: Timeout is finite; mute: the device never answers;
              \* present: the slots that have a device
  lusb,       \* hDevice (open or not) and LastErrorNumber
  usbPipe,    \* of every pipe: the holder of its mutex, the state of its OVERLAPPED with
              \* the count in it, its event, the requests abandoned to the driver
  usbCall     \* of every caller: where it is in which call, and that call's locals
usbVars == <<usbWorld, lusb, usbPipe, usbCall>>

Nobody == "nobody"
ASSUME UsbCallersAssumption ==
  \A w \in UsbWorlds : IsFiniteSet(w.callers) /\ Nobody \notin w.callers
NoUsbCall == [pc |-> "idle", op |-> "none", pipe |-> "control", len |-> 0, total |-> 0,
              sent |-> 0, bytes |-> 0, moved |-> 0, late |-> FALSE, tried |-> 0]
NewPipe == [holder |-> Nobody, status |-> "none", count |-> 0, event |-> FALSE,
            current |-> FALSE, stale |-> 0]

\* Bound: the requests of one pipe that are abandoned at a time.
MaxStale == 1

UsbInitIn(worlds) ==
  /\ usbWorld \in worlds
  /\ lusb = [hDevice |-> FALSE, LastErrorNumber |-> "OK"]
  /\ usbPipe = [p \in Pipes |-> NewPipe]
  /\ usbCall = [c \in usbWorld.callers |-> NoUsbCall]
UsbInit == UsbInitIn(UsbWorlds)

UsbAt(c, pc) == usbCall[c].pc = pc
UsbSet(c, call) == usbCall' = [usbCall EXCEPT ![c] = call]
UsbGo(c, pc) == UsbSet(c, [usbCall[c] EXCEPT !.pc = pc])
UsbReturn(c) == UsbSet(c, NoUsbCall)
Error(e) == lusb' = [lusb EXCEPT !.LastErrorNumber = e]

------------------------------------------------------------------------------
\* Opening and closing.

\* CloseLDevice, CancelIo and OpenLDeviceByName begin with LastErrorNumber=LUSB_OK;
\* CloseHandle and CreateFile succeed or not.
CloseLDevice(c) ==
  /\ UsbAt(c, "idle")
  /\ \E e \in IF lusb.hDevice THEN {"OK", "CLOSE"} ELSE {"OK"} :
       lusb' = [hDevice |-> FALSE, LastErrorNumber |-> e]
  /\ UNCHANGED <<usbWorld, usbPipe, usbCall>>

UserCancelIo(c) ==
  /\ UsbAt(c, "idle")
  /\ \E e \in IF lusb.hDevice THEN {"OK", "CANCEL"} ELSE {"CLOSED"} : Error(e)
  /\ UNCHANGED <<usbWorld, usbPipe, usbCall>>

\* CloseHandle may fail on the device that was open; the new one is opened all the same.
OpenLDeviceByName(slot) ==
  \E e \in IF lusb.hDevice THEN {"OK", "CLOSE"} ELSE {"OK"} :
    lusb' = IF slot \in usbWorld.present THEN [hDevice |-> TRUE, LastErrorNumber |-> e]
            ELSE [hDevice |-> FALSE, LastErrorNumber |-> "OPEN"]

\* OpenLDevice closes the device first, and gives up if that fails.
OpenLDevice(c) ==
  /\ UsbAt(c, "idle")
  /\ \/ \E slot \in 0 .. Slots - 1 :
          lusb' = IF slot \in usbWorld.present THEN [hDevice |-> TRUE, LastErrorNumber |-> "OK"]
                  ELSE [hDevice |-> FALSE, LastErrorNumber |-> "OPEN"]
     \/ lusb.hDevice /\ lusb' = [hDevice |-> FALSE, LastErrorNumber |-> "CLOSE"]
  /\ UNCHANGED <<usbWorld, usbPipe, usbCall>>

OpenLDeviceAny(c) ==
  /\ UsbAt(c, "idle")
  /\ UsbSet(c, [NoUsbCall EXCEPT !.pc = "try", !.op = "OpenLDeviceAny"])
  /\ UNCHANGED <<usbWorld, lusb, usbPipe>>

\* Mutant of TrySlot: the slot that has been tried is tried again.
TrySlotAgain(c) ==
  /\ UsbAt(c, "try")
  /\ OpenLDeviceByName(usbCall[c].tried)
  /\ IF lusb'.LastErrorNumber = "OK" THEN UsbReturn(c) ELSE UNCHANGED usbCall
  /\ UNCHANGED <<usbWorld, usbPipe>>

\* The counter is a BYTE: it never reaches 256 but starts again.
TrySlot(c) ==
  LET slot == usbCall[c].tried
  IN /\ UsbAt(c, "try")
     /\ OpenLDeviceByName(slot)
     /\ IF lusb'.LastErrorNumber = "OK" THEN UsbReturn(c)
        ELSE UsbSet(c, [usbCall[c] EXCEPT !.tried = (slot + 1) % Slots])
     /\ UNCHANGED <<usbWorld, usbPipe>>

------------------------------------------------------------------------------
\* ControlLDevice, WriteBulk, ReadBulk, and the loops of ReadControl and WriteControl.

Transfer(c, p) ==
  /\ UsbAt(c, "idle")
  /\ UsbSet(c, [NoUsbCall EXCEPT !.pc = "acquire", !.op = "Transfer", !.pipe = p, !.len = 1])
  /\ UNCHANGED <<usbWorld, lusb, usbPipe>>

ControlLoop(c, n) ==
  /\ UsbAt(c, "idle") /\ Error("OK")
  /\ UsbSet(c, [NoUsbCall EXCEPT !.pc = "loop", !.op = "Control", !.total = n])
  /\ UNCHANGED <<usbWorld, usbPipe>>

\* Mutant of ControlSize: every piece is as long as a transfer may be.
ControlSizeMax(total) == MaxTransfer
\* std::min<DWORD>(DataBufferLength, MAX_CONTROL_TRANSFER_SIZE): not of what is left.
ControlSize(total) == IF total < MaxTransfer THEN total ELSE MaxTransfer

LoopOn(c) ==
  LET call == usbCall[c]
  IN /\ UsbAt(c, "loop")
     /\ IF lusb.LastErrorNumber = "OK" /\ call.sent < call.total
        THEN UsbSet(c, [call EXCEPT !.pc = "acquire", !.len = ControlSize(call.total),
                                    !.bytes = 0, !.moved = 0, !.late = FALSE])
        ELSE UsbReturn(c)
     /\ UNCHANGED <<usbWorld, lusb, usbPipe>>

\* Mutant of Acquire: the mutex is not waited for.
AcquireAnyway(c) ==
  /\ UsbAt(c, "acquire") /\ UsbGo(c, "submit") /\ Error("OK")
  /\ usbPipe' = [usbPipe EXCEPT ![usbCall[c].pipe].holder = c]
  /\ UNCHANGED usbWorld

\* The mutex of the pipe, LastErrorNumber=LUSB_OK.
Acquire(c) ==
  LET p == usbCall[c].pipe
  IN /\ UsbAt(c, "acquire") /\ usbPipe[p].holder = Nobody
     /\ usbPipe' = [usbPipe EXCEPT ![p].holder = c]
     /\ Error("OK")
     /\ UsbGo(c, "submit")
     /\ UNCHANGED usbWorld

NotOpen(c) ==
  /\ UsbAt(c, "submit") /\ ~lusb.hDevice
  /\ Error("CLOSED") /\ UsbGo(c, "release")
  /\ UNCHANGED <<usbWorld, usbPipe>>

\* The driver does it at once, refuses it, or keeps it.
Submit(c) ==
  LET call == usbCall[c]
      p == call.pipe
  IN /\ UsbAt(c, "submit") /\ lusb.hDevice
     /\ \/ \E n \in IF usbWorld.mute THEN {} ELSE {call.len - 1, call.len} :
             /\ usbPipe' = [usbPipe EXCEPT ![p].status = "done", ![p].count = n]
             /\ UsbSet(c, [call EXCEPT !.pc = "length", !.bytes = n, !.moved = n])
             /\ UNCHANGED lusb
        \/ Error("DATA") /\ UsbGo(c, "length") /\ UNCHANGED usbPipe
        \/ /\ usbPipe' = [usbPipe EXCEPT ![p].status = "pending", ![p].current = TRUE,
                                         ![p].event = FALSE]
           /\ UsbGo(c, "wait") /\ UNCHANGED lusb
     /\ UNCHANGED usbWorld

\* The event, which WaitForSingleObject clears.
Answered(c) ==
  LET p == usbCall[c].pipe
  IN /\ UsbAt(c, "wait") /\ usbPipe[p].event
     /\ usbPipe' = [usbPipe EXCEPT ![p].event = FALSE]
     /\ UsbGo(c, "result")
     /\ UNCHANGED <<usbWorld, lusb>>

TimedOut(c) ==
  /\ UsbAt(c, "wait") /\ usbWorld.timeouts /\ ~usbPipe[usbCall[c].pipe].event
  /\ usbPipe[usbCall[c].pipe].stale < MaxStale
  /\ Error("TIMEOUT")
  /\ UsbSet(c, [usbCall[c] EXCEPT !.pc = "result", !.late = TRUE])
  /\ UNCHANGED <<usbWorld, usbPipe>>

\* It does not wait: FALSE for a request that is not complete.
GetOverlappedResult(p) == usbPipe[p].status = "done"

Result(c) ==
  LET call == usbCall[c]
      p == call.pipe
  IN /\ UsbAt(c, "result")
     /\ IF GetOverlappedResult(p)
        THEN UsbSet(c, [call EXCEPT !.pc = "length", !.bytes = usbPipe[p].count])
             /\ UNCHANGED lusb
        ELSE Error("ASYNC") /\ UsbGo(c, "length")
     /\ UNCHANGED <<usbWorld, usbPipe>>

\* The three tests of the length: ControlLDevice keeps an earlier error, WriteBulk writes
\* over it, and ReadBulk turns it into a warning.
LengthError(p, e) ==
  CASE p = "control" -> IF e = "OK" THEN "LENGTH" ELSE e
    [] p = "write"   -> "LENGTH"
    [] p = "read"    -> "WARNING"

TestLength(c) ==
  LET call == usbCall[c]
  IN /\ UsbAt(c, "length")
     /\ IF call.bytes # call.len THEN Error(LengthError(call.pipe, lusb.LastErrorNumber))
        ELSE UNCHANGED lusb
     /\ UsbGo(c, "release")
     /\ UNCHANGED <<usbWorld, usbPipe>>

\* The mutex is given back; a request that is still with the driver is abandoned.  Nobody
\* looks at the OVERLAPPED until the driver clears it for the next request.
Release(c) ==
  LET p == usbCall[c].pipe
  IN /\ UsbAt(c, "release")
     /\ usbPipe' = [usbPipe EXCEPT ![p] =
                      [NewPipe EXCEPT !.stale = usbPipe[p].stale
                                                + IF usbPipe[p].current THEN 1 ELSE 0]]
     /\ UsbGo(c, "return")
     /\ UNCHANGED <<usbWorld, lusb>>

\* The value of the call is read from LastErrorNumber without the mutex.
Succeeded(p) == lusb.LastErrorNumber = "OK" \/ (p = "read" /\ lusb.LastErrorNumber = "WARNING")

Returns(c) ==
  LET call == usbCall[c]
  IN /\ UsbAt(c, "return")
     /\ IF call.op = "Transfer" THEN UsbReturn(c)
        ELSE UsbSet(c, [call EXCEPT !.pc = "loop",
                          !.sent = IF Succeeded(call.pipe) THEN @ + call.len ELSE @])
     /\ UNCHANGED <<usbWorld, lusb, usbPipe>>

------------------------------------------------------------------------------
\* The driver: the request of the call in progress, or one that was abandoned.

CallOn(p) == {c \in usbWorld.callers :
                usbCall[c].pipe = p /\ usbCall[c].pc \in {"wait", "result", "length", "release"}}

Answer(p) ==
  /\ usbPipe[p].current /\ ~usbWorld.mute
  /\ \E c \in CallOn(p) :
       \/ \E n \in {usbCall[c].len - 1, usbCall[c].len} :
            /\ usbPipe' = [usbPipe EXCEPT ![p].status = "done", ![p].count = n,
                                          ![p].event = TRUE, ![p].current = FALSE]
            /\ UsbSet(c, [usbCall[c] EXCEPT !.moved = n])
       \/ /\ usbPipe' = [usbPipe EXCEPT ![p].status = "failed", ![p].event = TRUE,
                                        ![p].current = FALSE]
          /\ UNCHANGED usbCall
  /\ UNCHANGED <<usbWorld, lusb>>

\* What was abandoned completes into the same OVERLAPPED: aborted, or with data after all.
LateAnswer(p) ==
  /\ usbPipe[p].stale > 0
  /\ \E s \in {"done", "failed"} :
       usbPipe' = [usbPipe EXCEPT ![p].stale = @ - 1,
                     ![p].status = IF usbPipe[p].current THEN s ELSE @,
                     ![p].event = @ \/ usbPipe[p].current]
  /\ UNCHANGED <<usbWorld, lusb, usbCall>>

------------------------------------------------------------------------------
UsbUser(c) ==
  \/ CloseLDevice(c) \/ UserCancelIo(c) \/ OpenLDevice(c)
  \/ \E p \in Pipes : Transfer(c, p)
  \/ usbWorld.loops /\ (OpenLDeviceAny(c) \/ \E n \in UsbLengths : ControlLoop(c, n))
UsbStep(c) ==
  \/ TrySlot(c) \/ LoopOn(c) \/ Acquire(c) \/ NotOpen(c) \/ Submit(c)
  \/ Answered(c) \/ TimedOut(c) \/ Result(c) \/ TestLength(c) \/ Release(c) \/ Returns(c)
UsbDriver == \E p \in Pipes : Answer(p) \/ LateAnswer(p)
UsbNext == (\E c \in usbWorld.callers : UsbUser(c) \/ UsbStep(c)) \/ UsbDriver
UsbSpec == UsbInit /\ [][UsbNext]_usbVars

\* A thread goes on; a driver that is not mute answers.
UsbFairness ==
  /\ WF_usbVars(\E c \in usbWorld.callers : UsbStep(c))
  /\ WF_usbVars(UsbDriver)
==============================================================================
