------------------------------- MODULE Flash -------------------------------
(***************************************************************************)
(* CAT45DB161Flash (EMBEDDED/AT45DB161Flash.cpp) over CAlteraByteBlaster:   *)
(* data goes into the flash page by page through a buffer of the chip, in   *)
(* several commands of which each may fail: the chip is not selected, the   *)
(* command or its data is not sent, or the chip is still busy after 5 s.    *)
(* Deselecting the chip, whose result the code ignores, is taken to work.   *)
(***************************************************************************)
EXTENDS Integers, Sequences

CONSTANTS
  PageSize,    \* FLASH_PAGE_SIZE
  NumPages,    \* the pages of the chip
  MaxWrites    \* bound: the calls of ProgrammFlash

ASSUME FlashAssumption == PageSize \in Nat \ {0} /\ NumPages \in Nat \ {0} /\ MaxWrites \in Nat

VARIABLES
  chip,      \* the main memory, buffer 1, the number of writes begun
  flashCall  \* ProgrammFlash in progress: where it is, Address, Data, NumData, res
flashVars == <<chip, flashCall>>

Addresses == 0 .. PageSize * NumPages - 1
PageMask(a) == a % PageSize
PageOf(a) == a - PageMask(a)
NoFlashCall == [pc |-> "idle", Address |-> 0, Data |-> 0, NumData |-> 0, n |-> 0, res |-> TRUE,
                start |-> 0, all |-> 0, before |-> << >>]
Smaller2(a, b) == IF a < b THEN a ELSE b

FlashInit ==
  /\ chip = [mem |-> [a \in Addresses |-> <<0, 0>>], buffer1 |-> [i \in 0 .. PageSize - 1 |-> <<0, 0>>],
             writes |-> 0]
  /\ flashCall = NoFlashCall

FlashAt(pc) == flashCall.pc = pc
Fails == flashCall' = [flashCall EXCEPT !.pc = "return", !.res = FALSE]

\* The i-th byte of the data of this call.
DataByte(i) == <<chip.writes, i>>

\* ProgrammFlash: all of the data is inside the chip.
ProgrammFlash(address, n) ==
  /\ FlashAt("idle") /\ chip.writes < MaxWrites
  /\ chip' = [chip EXCEPT !.writes = @ + 1]
  /\ flashCall' = [NoFlashCall EXCEPT !.pc = IF PageMask(address) # 0 THEN "read" ELSE "next",
                     !.Address = address, !.NumData = n, !.start = address, !.all = n,
                     !.n = Smaller2(PageSize - PageMask(address), n), !.before = chip.mem]

\* A part of a page is written over what the page holds: ReadFlashPageIntoBufer1, which
\* waits for the chip.
ReadPage ==
  /\ FlashAt("read")
  /\ \/ UNCHANGED chip /\ Fails
     \/ /\ chip' = [chip EXCEPT !.buffer1 =
                      [i \in 0 .. PageSize - 1 |-> chip.mem[PageOf(flashCall.Address) + i]]]
        /\ Fails \/ flashCall' = [flashCall EXCEPT !.pc = "write"]

\* Mutant of WriteBuffer: the data is put at the start of the buffer.
WriteBufferAtStart ==
  /\ FlashAt("write")
  /\ \/ /\ chip' = [chip EXCEPT !.buffer1 = [i \in 0 .. PageSize - 1 |->
               IF i < flashCall.n THEN DataByte(flashCall.Data + i) ELSE @[i]]]
        /\ flashCall' = [flashCall EXCEPT !.pc = "program"]
     \/ UNCHANGED chip /\ Fails

\* WriteFlashBuffer1: what was sent before a failure is in the buffer.
WriteBuffer ==
  LET from == PageMask(flashCall.Address)
      Sent(k) == [chip EXCEPT !.buffer1 = [i \in 0 .. PageSize - 1 |->
                    IF i \in from .. from + k - 1 THEN DataByte(flashCall.Data + i - from) ELSE @[i]]]
  IN /\ FlashAt("write")
     /\ \/ /\ chip' = Sent(flashCall.n)
           /\ flashCall' = [flashCall EXCEPT !.pc = "program"]
        \/ \E k \in 0 .. flashCall.n : chip' = Sent(k) /\ Fails

\* ProgrammBuffer1_WithErase and WaitFlashReady, after which the counters go on even if
\* the chip is still busy.
ProgramPage ==
  LET page == PageOf(flashCall.Address)
      call == [flashCall EXCEPT !.Address = @ + flashCall.n, !.Data = @ + flashCall.n,
                                !.NumData = @ - flashCall.n]
  IN /\ FlashAt("program")
     /\ \/ UNCHANGED chip /\ Fails
        \/ /\ chip' = [chip EXCEPT !.mem = [a \in Addresses |->
                         IF PageOf(a) = page THEN chip.buffer1[a - page] ELSE @[a]]]
           /\ \E ready \in BOOLEAN :
                flashCall' = [call EXCEPT !.res = ready, !.pc = IF ready THEN "next" ELSE "return"]

\* Mutant of NextPage: the last, shorter part is not read back first.
NextPageUnread ==
  /\ FlashAt("next")
  /\ flashCall' = [flashCall EXCEPT !.n = Smaller2(PageSize, flashCall.NumData),
                     !.pc = IF flashCall.NumData = 0 THEN "return" ELSE "write"]
  /\ UNCHANGED chip

\* Whole pages are written without reading; the rest is written over what is there.
NextPage ==
  /\ FlashAt("next")
  /\ flashCall' = [flashCall EXCEPT !.n = Smaller2(PageSize, flashCall.NumData),
                     !.pc = IF flashCall.NumData >= PageSize THEN "write"
                            ELSE IF flashCall.NumData > 0 THEN "read" ELSE "return"]
  /\ UNCHANGED chip

FlashReturns == FlashAt("return") /\ flashCall' = NoFlashCall /\ UNCHANGED chip

FlashUser == \E a \in Addresses : \E n \in 0 .. PageSize * NumPages - a : ProgrammFlash(a, n)
FlashStep == ReadPage \/ WriteBuffer \/ ProgramPage \/ NextPage \/ FlashReturns
FlashNext == FlashUser \/ FlashStep
FlashSpec == FlashInit /\ [][FlashNext]_flashVars
FlashFairness == WF_flashVars(FlashStep)

------------------------------------------------------------------------------
\* The wire: CAlteraByteBlaster clocks a byte of Width bits out on OUT_PIN, most
\* significant bit first, and reads one on the inverted IN_PIN.  CS_PIN is in PortFlags.

Bit(data, j) == (data \div 2^j) % 2

\* WriteSPIData: the port writes of one byte.
WriteSPIByte(data, width, cs) ==
  [k \in 1 .. 2 * width |->
     [OUT |-> Bit(data, width - 1 - (k - 1) \div 2), CLK |-> 1 - (k % 2), CS |-> cs]]

\* The chip samples OUT when CLK rises and puts its own next bit on IN.
Sampled(list) ==
  LET rising == SelectSeq([k \in 1 .. Len(list) |->
                             <<k > 1 /\ list[k].CLK = 1 /\ list[k - 1].CLK = 0, list[k].OUT>>],
                          LAMBDA e : e[1])
  IN [i \in 1 .. Len(rising) |-> rising[i][2]]

\* ReadSPIData: every third command of the list reads the port; IN is inverted.
ReadSPIByte(pins, width) ==
  LET value[j \in 0 .. width] ==
        IF j = 0 THEN 0 ELSE 2 * value[j - 1] + (IF pins[j] = 0 THEN 1 ELSE 0)
  IN value[width]
==============================================================================
