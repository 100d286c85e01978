------------------------------ MODULE MCDevices ------------------------------
(***************************************************************************)
(* The classes for devices and for the network share nothing, so one run    *)
(* checks them side by side: device chooses the one that is used, the       *)
(* others stay as they are.                                                 *)
(***************************************************************************)
EXTENDS DevicesProperties

VARIABLE device
audioVars == <<outVars, inVars, genVars, wavVars>>
portVars == <<usbVars, serVars, flashVars>>
netVars == <<smtpVars, popVars, pingVars, sockVars>>
vars == <<device, audioVars, portVars, netVars>>

Chunk(id, size) == [id |-> id, size |-> size]
WavFiles ==
  LET mixed == WaveOf(2, <<Chunk("LIST", 2), Chunk("data", 2), Chunk("LIST", 4),
                           Chunk("data", 3)>>)
      plain == WaveOf(0, <<Chunk("data", 4)>>)
      gaps == WaveOf(0, <<Chunk("data", 1), Chunk("data", 0), Chunk("data", 2),
                          Chunk("LIST", 0)>>)
  IN  {mixed, plain, gaps, SubSeq(mixed, 1, Len(mixed) - 1), SubSeq(mixed, 1, 30),
       Item("RIFF", 0, 12) \o SubSeq(plain, 13, Len(plain)),
       SubSeq(plain, 13, Len(plain)), NoFile}
WavWorld(commands, file, room, fails) ==
  [calls |-> commands, file |-> file, room |-> room, fails |-> fails]
WavWorldsDef ==
  {WavWorld({"BeginLoad", "LoadDataDirectFromFile", "EndLoad", "Play"}, file, 0, fails) :
     file \in WavFiles, fails \in BOOLEAN}
    \cup {WavWorld({"BeginSave", "SaveDataDirectIntoFile", "EndSave", "Record",
                    "BeginLoad", "LoadDataDirectFromFile", "Play"}, NoFile, room, room = 50) :
            room \in {30, 46, 50}}
    \cup {WavWorld({"OpenLines", "WriteLine", "ReadLine"}, NoFile, room, FALSE) :
            room \in {6, 20}}
    \cup {WavWorld({"OpenLines", "ReadLine"},
                   MadeLine(1, 1) \o <<LineCR, LineLF>> \o MadeLine(2, 1) \o <<LineCR>>, 0, FALSE)}

UsbWorld(callers, timeouts, mute, present) ==
  [callers |-> callers, loops |-> callers = {"a"}, timeouts |-> timeouts, mute |-> mute,
   present |-> present]
UsbWorldsDef ==
  {UsbWorld({"a"}, FALSE, FALSE, {1}), UsbWorld({"a"}, TRUE, FALSE, {1}),
   UsbWorld({"a"}, TRUE, TRUE, {1}), UsbWorld({"a"}, FALSE, FALSE, {}),
   UsbWorld({"a", "b"}, FALSE, FALSE, {1})}
SerialWorldsDef ==
  [settings : {FALSE}, timeouts : BOOLEAN, mute : {FALSE}]
    \cup [settings : {FALSE}, timeouts : {TRUE}, mute : {TRUE}]
    \cup [settings : {TRUE}, timeouts : {FALSE}, mute : {FALSE}]

SmtpWorld(commands, lines, cuts, late, refuses, hangs) ==
  [calls |-> commands, lines |-> lines, cuts |-> cuts, late |-> late, refuses |-> refuses,
   hangs |-> hangs]
SmtpWorldsDef ==
  {SmtpWorld({"ConnectEClient", "ESMTPLogin", "SMTPSendMessage", "SMTPLogout"}, 4,
             FALSE, FALSE, FALSE, FALSE),
   SmtpWorld({"ConnectClient", "SMTPLogin", "ESMTPAuthLogin", "SMTPSendMessage"}, 1,
             TRUE, FALSE, TRUE, TRUE),
   SmtpWorld({"ConnectClient", "SMTPRSet", "SMTPMailFrom", "SMTPRcptTo", "SMTPData"}, 1,
             FALSE, TRUE, TRUE, FALSE),
   SmtpWorld({"ConnectClient", "SMTPMailFrom", "SMTPSendMessage"}, 1,
             FALSE, TRUE, TRUE, FALSE)}
PopWorld(commands, late, refuses, hangs) ==
  [calls |-> commands, late |-> late, refuses |-> refuses, hangs |-> hangs]
PopWorldsDef ==
  {PopWorld({"ConnectEClient", "POP3List", "POP3Top", "POP3Logout"}, FALSE, FALSE, TRUE),
   PopWorld({"ConnectClient", "POP3Login", "POP3Retr", "POP3Delete", "POP3RSet"},
            FALSE, TRUE, FALSE),
   PopWorld({"ConnectClient", "POP3Retr", "POP3Delete"}, TRUE, FALSE, FALSE)}
PopLinesDef == <<1, 3>>
PingWorldsDef ==
  [small : BOOLEAN, kinds : {{"echo", "other", "unreach"}}, fails : {FALSE}]
    \cup [small : {FALSE}, kinds : {{"echo", "options"}}, fails : BOOLEAN]
SockWorld(over, nonBlocking, server, users, timed, fails) ==
  [over |-> over, nonBlocking |-> nonBlocking, server |-> server, users |-> users,
   timed |-> timed, fails |-> fails]
SockWorldsDef ==
  {SockWorld(FALSE, TRUE, FALSE, {"writer"}, TRUE, TRUE),
   SockWorld(TRUE, TRUE, FALSE, {"r1"}, TRUE, TRUE),
   SockWorld(TRUE, FALSE, FALSE, {"writer"}, TRUE, FALSE),
   SockWorld(TRUE, FALSE, FALSE, {"r1", "writer"}, FALSE, FALSE),
   SockWorld(FALSE, FALSE, TRUE, {"r1"}, FALSE, FALSE),
   SockWorld(FALSE, FALSE, FALSE, {"r1", "r2"}, FALSE, FALSE)}
\* What the theorem about the sockets asks of the worlds.
ASSUME SockWorldsFit ==
  \A w \in SockWorldsDef : w.over => ~({"r1", "r2"} \subseteq w.users)

\* A class that is not used has one world.
Used(d, worlds) == IF device = d THEN worlds ELSE {CHOOSE w \in worlds : TRUE}
Init ==
  /\ device \in {"out", "in", "generator", "wave", "usb", "serial", "flash",
                 "smtp", "pop", "ping", "sock"}
  /\ OutInit /\ InInit /\ GenInit /\ FlashInit /\ WavInitIn(Used("wave", WavWorlds))
  /\ UsbInitIn(Used("usb", UsbWorlds)) /\ SerInitIn(Used("serial", SerialWorlds))
  /\ SmtpInitIn(Used("smtp", SmtpWorlds)) /\ PopInitIn(Used("pop", PopWorlds))
  /\ PingInitIn(Used("ping", PingWorlds)) /\ SockInitIn(Used("sock", SockWorlds))

AudioNext ==
  /\ UNCHANGED <<device, portVars, netVars>>
  /\ \/ device = "out" /\ OutNext /\ UNCHANGED <<inVars, genVars, wavVars>>
     \/ device = "in" /\ InNext /\ UNCHANGED <<outVars, genVars, wavVars>>
     \/ device = "generator" /\ GenNext /\ UNCHANGED <<outVars, inVars, wavVars>>
     \/ device = "wave" /\ WavNext /\ UNCHANGED <<outVars, inVars, genVars>>
PortNext ==
  /\ UNCHANGED <<device, audioVars, netVars>>
  /\ \/ device = "usb" /\ UsbNext /\ UNCHANGED <<serVars, flashVars>>
     \/ device = "serial" /\ SerNext /\ UNCHANGED <<usbVars, flashVars>>
     \/ device = "flash" /\ FlashNext /\ UNCHANGED <<usbVars, serVars>>
NetNext ==
  /\ UNCHANGED <<device, audioVars, portVars>>
  /\ \/ device = "smtp" /\ SmtpNext /\ UNCHANGED <<popVars, pingVars, sockVars>>
     \/ device = "pop" /\ PopNext /\ UNCHANGED <<smtpVars, pingVars, sockVars>>
     \/ device = "ping" /\ PingNext /\ UNCHANGED <<smtpVars, popVars, sockVars>>
     \/ device = "sock" /\ SockNext /\ UNCHANGED <<smtpVars, popVars, pingVars>>
Next == AudioNext \/ PortNext \/ NetNext
Spec == /\ Init /\ [][Next]_vars
        /\ OutFairness /\ InFairness /\ GenFairness /\ WavFairness
        /\ UsbFairness /\ SerFairness /\ FlashFairness
        /\ SmtpFairness /\ PopFairness /\ PingFairness /\ SockFairness

\* The type invariants of the modules.
TypeOK ==
  CASE device = "out" -> OutTypeOK
    [] device = "in" -> InTypeOK
    [] device = "usb" -> UsbTypeOK
    [] device = "serial" -> SerTypeOK
    [] device = "flash" -> FlashTypeOK
    [] device = "generator" -> GenTypeOK
    [] device = "wave" -> WavTypeOK
    [] device = "smtp" -> SmtpTypeOK
    [] device = "pop" -> PopTypeOK
    [] device = "ping" -> PingTypeOK
    [] device = "sock" -> SockTypeOK

\* Sound files, and files of lines, are loaded and saved whole and in order; the parallel
\* port's wire carries every byte, here of 4 bits (which no state changes: it is looked at
\* once); a mail that is reported as sent, or as fetched, or as deleted, was.
BytesCarried ==
  /\ device = "wave" => WaveSound
  /\ device = "flash" /\ FlashAt("idle") /\ chip.writes = 0 => WireCarries(4)
  /\ SmtpSound /\ PopSound

\* Every call of the classes returns, but for the waits their modules name.
DeviceCallsReturn ==
  []<>(/\ OutSettled /\ InSettled /\ GenSettled /\ WavSettled /\ UsbSettled /\ SerSettled
       /\ FlashSettled /\ SmtpSettled /\ PopSettled /\ PingSettled /\ SockSettled)
==============================================================================
