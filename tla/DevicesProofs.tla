------------------------------- MODULE DevicesProofs -------------------------------
(***************************************************************************)
(* Proofs about the devices and the network, for every value of the        *)
(* constants: that the flash is an array of bytes whatever command of the  *)
(* chip fails, that a transfer of TLUSB_BASE reports what its own request  *)
(* has moved and stays inside its buffer, that CSerial keeps every setting *)
(* the device has accepted and reports its transfers truthfully, that the  *)
(* sockets lose, repeat and reorder nothing and account for every byte,    *)
(* and that PingHost calls alive what has answered.                        *)
(***************************************************************************)
EXTENDS DevicesProperties, SequenceTheorems, FiniteSetTheorems, TLAPS

------------------------------------------------------------------------------

\* The bytes of the chip.
FlashSize == PageSize * NumPages

\* A multiple of n that is between -n and n is zero.
LEMMA SmallMultiple ==
  ASSUME NEW n \in Nat \ {0}, NEW e \in Int, n * e < n, n * e > 0 - n
  PROVE  e = 0
<1>1. CASE e >= 1
  <2>1. n * e >= n * 1
    BY <1>1
  <2> QED BY <2>1
<1>2. CASE e <= -1
  <2>1. n * e <= n * (-1)
    BY <1>2
  <2> QED BY <2>1
<1> QED BY <1>1, <1>2

\* Division with a remainder.
LEMMA Division ==
  ASSUME NEW n \in Nat \ {0}, NEW a \in Int
  PROVE  a % n \in 0 .. n - 1 /\ a \div n \in Int /\ a = n * (a \div n) + (a % n)
OBVIOUS

\* The remainder of a division is the only one.
LEMMA RemainderUnique ==
  ASSUME NEW n \in Nat \ {0}, NEW d \in Int, NEW i \in 0 .. n - 1
  PROVE  (n * d + i) % n = i
<1> DEFINE a == n * d + i
<1>1. n * d \in Int /\ a \in Int
  OBVIOUS
<1>2. PICK k \in Int, r \in 0 .. n - 1 : a = n * k + r /\ r = a % n
  BY <1>1, Division
<1>3. n * d + i = n * k + r
  BY <1>2
<1>4. n * (d - k) = n * d - n * k
  OBVIOUS
<1>5. n * k \in Int /\ d - k \in Int
  OBVIOUS
<1>6. n * (d - k) = r - i
  BY <1>1, <1>3, <1>4, <1>5
<1>7. d - k = 0
  BY <1>5, <1>6, SmallMultiple
<1>8. r = i
  BY <1>5, <1>6, <1>7
<1> QED BY <1>2, <1>8

\* An address at the start of a page is a multiple of the page size.
LEMMA PageIsMultiple ==
  ASSUME NEW p \in Nat, PageMask(p) = 0
  PROVE  \E d \in Int : p = PageSize * d
<1>1. p \div PageSize \in Int /\ p = PageSize * (p \div PageSize) + (p % PageSize)
  BY FlashAssumption, Division
<1>2. PageSize * (p \div PageSize) \in Int /\ p % PageSize = 0
  BY <1>1, FlashAssumption DEF PageMask
<1> QED BY <1>1, <1>2

\* An address is the start of a page and an offset in it.
LEMMA PageSplit ==
  ASSUME NEW a \in Nat
  PROVE  /\ PageMask(a) \in 0 .. PageSize - 1 /\ PageOf(a) \in Nat
         /\ a = PageOf(a) + PageMask(a)
         /\ PageMask(PageOf(a)) = 0
BY FlashAssumption DEF PageMask, PageOf

\* The offset of an address, counted from the start of its page.
LEMMA PageOffset ==
  ASSUME NEW p \in Nat, PageMask(p) = 0, NEW i \in 0 .. PageSize - 1
  PROVE  PageMask(p + i) = i
<1>1. PICK d \in Int : p = PageSize * d
  BY PageIsMultiple
<1> QED BY <1>1, FlashAssumption, RemainderUnique DEF PageMask

\* After a page comes a page.
LEMMA NextPageStarts ==
  ASSUME NEW p \in Nat, PageMask(p) = 0
  PROVE  PageMask(p + PageSize) = 0
<1>1. PICK d \in Int : p = PageSize * d
  BY PageIsMultiple
<1>2. PICK e \in Int : e = d + 1
  BY <1>1
<1>3. p + PageSize = PageSize * e + 0
  BY <1>1, <1>2, FlashAssumption
<1>4. (PageSize * e + 0) % PageSize = 0
  BY FlashAssumption, RemainderUnique
<1> QED BY <1>3, <1>4 DEF PageMask

\* The size is a number.
LEMMA SizeNat ==
  FlashSize \in Nat
BY FlashAssumption DEF FlashSize

\* A page that starts inside the chip ends inside it.
LEMMA PageFits ==
  ASSUME NEW p \in Nat, PageMask(p) = 0, p < FlashSize
  PROVE  p + PageSize <= FlashSize
<1>1. PICK d \in Int : p = PageSize * d
  BY PageIsMultiple
<1>2. d < NumPages
  <2> SUFFICES ASSUME d >= NumPages PROVE FALSE
    BY <1>1, FlashAssumption
  <2>1. PageSize * d >= PageSize * NumPages
    BY FlashAssumption
  <2> QED BY <1>1, <2>1, SizeNat DEF FlashSize
<1>3. PageSize * (d + 1) <= PageSize * NumPages
  BY <1>2, FlashAssumption
<1>4. PageSize * (d + 1) = PageSize * d + PageSize
  BY FlashAssumption
<1> QED BY <1>1, <1>3, <1>4 DEF FlashSize

\* How far ProgrammFlash is: the memory holds a prefix of the data, the counters agree with
\* it, the buffer of the chip holds what the page will hold, and a part of a page lies in it.
Progress ==
  LET c == flashCall
      page == PageOf(c.Address)
      from == PageMask(c.Address)
      to == from + c.n
  IN /\ ~FlashAt("idle") =>
          /\ c.start + c.all <= FlashSize /\ c.before \in [Addresses -> Bytes] 
     /\ c.pc \in {"read", "write", "program", "next"} =>
          /\ c.Address = c.start + c.Data /\ c.NumData = c.all - c.Data /\ c.Data <= c.all
          /\ chip.mem = Overwritten(c.Data)
     /\ c.pc \in {"read", "write", "program"} =>
          /\ c.n <= c.NumData /\ to <= PageSize /\ page + PageSize <= FlashSize
          /\ to = PageSize \/ c.n = c.NumData
     /\ FlashAt("next") => c.NumData = 0 \/ from = 0
     /\ FlashAt("write") =>
          \A i \in 0 .. PageSize - 1 :
            i \in from .. to - 1 \/ chip.buffer1[i] = chip.mem[page + i]
     /\ FlashAt("program") =>
          \A i \in 0 .. PageSize - 1 :
            chip.buffer1[i] = IF i \in from .. to - 1 THEN DataByte(c.Data + i - from)
               ELSE chip.mem[page + i]
     /\ FlashAt("return") =>
          \E k \in 0 .. c.all : chip.mem = Overwritten(k) /\ (c.res => k = c.all)

\* The inductive invariant of the flash.
FlashInv == FlashTypeOK /\ Progress

\* The parts of the type invariant, each a set.
Chips == [mem : [Addresses -> Bytes], buffer1 : [0 .. PageSize - 1 -> Bytes],
          writes : 0 .. MaxWrites]
FlashCalls ==
       [pc : {"idle", "read", "write", "program", "next", "return"},
        Address : 0 .. FlashSize, Data : Nat, NumData : Nat, n : 0 .. PageSize,
        res : BOOLEAN, start : Nat, all : Nat, before : [Addresses -> Bytes] \cup {<< >>}]

\* The type invariant by its parts.
LEMMA FlashTypes == FlashTypeOK <=> chip \in Chips /\ flashCall \in FlashCalls
BY DEF FlashTypeOK, Chips, FlashCalls, FlashSize

\* What the memory should hold does not change while the same call runs.
LEMMA OverwrittenKept ==
  ASSUME flashCall'.start
     = flashCall.start, flashCall'.before = flashCall.before, chip'.writes = chip.writes
  PROVE  \A k : Overwritten(k)' = Overwritten(k)
BY DEF Overwritten, DataByte

\* A byte of the data is one.
LEMMA DataBytes ==
  ASSUME FlashTypeOK, NEW i \in 0 .. FlashSize
  PROVE  DataByte(i) \in Bytes
BY FlashTypes DEF DataByte, Bytes, FlashSize, Chips

\* The invariant holds at the start.
LEMMA FlashInitInv == FlashInit => FlashInv
<1> SUFFICES ASSUME FlashInit PROVE FlashInv
  OBVIOUS
<1>1. 0 \in 0 .. MaxWrites /\ 0 \in 0 .. FlashSize /\ <<0, 0>> \in Bytes /\ 0 \in 0 .. PageSize
  BY FlashAssumption, SizeNat DEF Bytes, FlashSize
<1>2. chip \in Chips
  BY <1>1 DEF FlashInit, Chips
<1>3. flashCall \in FlashCalls /\ flashCall.pc = "idle"
  BY <1>1 DEF FlashInit, FlashCalls, NoFlashCall
<1> QED BY <1>2, <1>3, FlashTypes DEF FlashInv, Progress, FlashAt

\* A command fails before the page is programmed.
LEMMA FailsKeeps ==
  ASSUME FlashInv, flashCall.pc \in {"read", "write", "program"}, Fails,
         chip' \in Chips, chip'.mem = chip.mem, chip'.writes = chip.writes
  PROVE  FlashInv'
<1>1. flashCall \in FlashCalls
  BY FlashTypes DEF FlashInv
<1>2. flashCall' = [flashCall EXCEPT !.pc = "return", !.res = FALSE]
  BY DEF Fails
<1>3. /\ flashCall' \in FlashCalls /\ flashCall'.pc = "return" /\ ~flashCall'.res
      /\ flashCall'.start = flashCall.start /\ flashCall'.all = flashCall.all
      /\ flashCall'.before = flashCall.before
  BY <1>1, <1>2 DEF FlashCalls
<1>4. FlashTypeOK'
  BY <1>3 DEF FlashTypeOK, Chips, FlashCalls, FlashSize
<1>5. flashCall.Data \in 0 .. flashCall.all /\ chip.mem = Overwritten(flashCall.Data)
  BY <1>1 DEF FlashInv, Progress, FlashCalls
<1>6. PICK k \in 0 .. flashCall.all : k = flashCall.Data
  BY <1>5
<1>7. chip'.mem = Overwritten(k)'
  BY <1>3, <1>5, <1>6, OverwrittenKept
<1>8. Progress'
  BY <1>3, <1>7 DEF FlashInv, Progress, FlashAt
<1> QED BY <1>4, <1>8 DEF FlashInv

\* A call of ProgrammFlash begins.
LEMMA ProgrammFlashKeeps ==
  ASSUME FlashInv, NEW a \in Addresses, NEW m \in 0 .. FlashSize - a, ProgrammFlash(a, m)
  PROVE  FlashInv'
<1>1. /\ chip \in Chips /\ flashCall \in FlashCalls /\ FlashSize \in Nat
      /\ PageSize \in Nat \ {0} /\ a \in Nat /\ m \in Nat /\ a < FlashSize /\ a + m <= FlashSize
      /\ chip.mem \in [Addresses -> Bytes]
  BY FlashTypes, SizeNat, FlashAssumption DEF FlashInv, Addresses, FlashSize, Chips
<1>2. /\ PageMask(a) \in 0 .. PageSize - 1 /\ PageOf(a) \in Nat /\ a = PageOf(a) + PageMask(a)
      /\ PageMask(PageOf(a)) = 0
  BY <1>1, PageSplit
<1>3. PICK k \in 0 .. PageSize :
        k = Smaller2(PageSize - PageMask(a), m) /\ k <= m /\ PageMask(a) + k <= PageSize
           /\ (PageMask(a) + k = PageSize \/ k = m)
  BY <1>1, <1>2 DEF Smaller2
<1>4. PICK pc \in {"read", "next"} : pc = IF PageMask(a) # 0 THEN "read" ELSE "next"
  OBVIOUS
<1>5. /\ chip' = [chip EXCEPT !.writes = chip.writes + 1] /\ chip.writes + 1 \in 0 .. MaxWrites
      /\ flashCall' = [pc |-> pc, Address |-> a, Data |-> 0, NumData |-> m, n |-> k,
                       res |-> TRUE,
                       start |-> a, all |-> m, before |-> chip.mem]
  <2>1. chip' = [chip EXCEPT !.writes = chip.writes + 1] /\ chip.writes + 1 \in 0 .. MaxWrites
    BY <1>1, FlashAssumption DEF ProgrammFlash, Chips
  <2>2. flashCall' = [NoFlashCall EXCEPT !.pc = pc, !.Address = a, !.NumData = m, !.start = a,
                      !.all = m,
                                         !.n = k, !.before = chip.mem]
    BY <1>3, <1>4 DEF ProgrammFlash
  <2> QED BY <2>1, <2>2 DEF NoFlashCall
<1>6. chip' \in Chips /\ chip'.mem = chip.mem
  BY <1>1, <1>5 DEF Chips
<1>7. flashCall' \in FlashCalls
  BY <1>1, <1>5 DEF FlashCalls
<1>8. FlashTypeOK'
  BY <1>6, <1>7 DEF FlashTypeOK, Chips, FlashCalls, FlashSize
<1>9. chip'.mem = Overwritten(0)'
  <2>1. \A x \in Addresses : x \notin a .. a + 0 - 1
    BY <1>1
  <2>2. Overwritten(0)' = [x \in Addresses |-> chip.mem[x]]
    BY <1>5, <2>1 DEF Overwritten
  <2> QED BY <1>1, <1>6, <2>2
<1>10. PageOf(a) + PageSize <= FlashSize
  BY <1>1, <1>2, PageFits
<1>11. Progress'
  BY <1>1, <1>2, <1>3, <1>4, <1>5, <1>9, <1>10 DEF Progress, FlashAt
<1> QED BY <1>8, <1>11 DEF FlashInv

\* What the provers need of a state in which a call is at work.
LEMMA AtWork ==
  ASSUME FlashInv, flashCall.pc \in {"read", "write", "program", "next"}
  PROVE  LET c == flashCall
             page == PageOf(c.Address)
             from == PageMask(c.Address)
         IN /\ chip \in Chips /\ c \in FlashCalls /\ FlashSize \in Nat /\ PageSize \in Nat \ {0}
            /\ c.Address \in Nat /\ c.Data \in Nat /\ c.NumData \in Nat /\ c.n \in Nat
            /\ c.start \in Nat /\ c.all \in Nat
            /\ from \in 0 .. PageSize - 1 /\ page \in Nat /\ c.Address = page + from
            /\ PageMask(page) = 0
            /\ c.start + c.all <= FlashSize /\ c.before \in [Addresses -> Bytes]
            /\ c.Address = c.start + c.Data /\ c.NumData = c.all - c.Data /\ c.Data <= c.all
            /\ chip.mem = Overwritten(c.Data)
            /\ c.pc # "next" =>
                 /\ c.n <= c.NumData /\ from + c.n <= PageSize /\ page + PageSize <= FlashSize
                 /\ from + c.n = PageSize \/ c.n = c.NumData
<1>1. chip \in Chips /\ flashCall \in FlashCalls /\ FlashSize \in Nat /\ PageSize \in Nat \ {0}
  BY FlashTypes, SizeNat, FlashAssumption DEF FlashInv
<1>2. /\ flashCall.Address \in Nat /\ flashCall.Data \in Nat /\ flashCall.NumData \in Nat
      /\ flashCall.n \in Nat
      /\ flashCall.start \in Nat /\ flashCall.all \in Nat
  BY <1>1 DEF FlashCalls
<1>3. /\ PageMask(flashCall.Address) \in 0 .. PageSize - 1 /\ PageOf(flashCall.Address) \in Nat
      /\ flashCall.Address = PageOf(flashCall.Address) + PageMask(flashCall.Address)
      /\ PageMask(PageOf(flashCall.Address)) = 0
  BY <1>2, PageSplit
<1> QED BY <1>1, <1>2, <1>3 DEF FlashInv, Progress, FlashAt

\* The page is read into the buffer.
LEMMA ReadPageKeeps ==
  ASSUME FlashInv, ReadPage PROVE FlashInv'
<1> DEFINE page == PageOf(flashCall.Address)
<1>1. flashCall.pc = "read"
  BY DEF ReadPage, FlashAt
<1>2. /\ chip \in Chips /\ flashCall \in FlashCalls /\ page \in Nat
      /\ page + PageSize <= FlashSize /\ PageSize \in Nat \ {0} /\ FlashSize \in Nat
  BY <1>1, AtWork
<1>3. CASE UNCHANGED chip /\ Fails
  BY <1>1, <1>2, <1>3, FailsKeeps
<1>4. CASE chip' = [chip EXCEPT !.buffer1 = [i \in 0 .. PageSize - 1 |-> chip.mem[page + i]]]
  <2>1. \A i \in 0 .. PageSize - 1 : page + i \in Addresses
    BY <1>2 DEF Addresses, FlashSize
  <2>2. PICK b \in [0 .. PageSize - 1 -> Bytes] :
          b = [i \in 0 .. PageSize - 1 |-> chip.mem[page + i]]
    BY <1>2, <2>1 DEF Chips
  <2>3. /\ chip' \in Chips /\ chip'.mem = chip.mem /\ chip'.writes = chip.writes
        /\ chip'.buffer1 = b
    BY <1>2, <1>4, <2>2 DEF Chips
  <2>4. CASE Fails
    BY <1>1, <2>3, <2>4, FailsKeeps
  <2>5. CASE flashCall' = [flashCall EXCEPT !.pc = "write"]
    <3>1. /\ flashCall' \in FlashCalls /\ flashCall'.pc = "write"
          /\ flashCall'.Address = flashCall.Address /\ flashCall'.Data = flashCall.Data
          /\ flashCall'.NumData = flashCall.NumData
          /\ flashCall'.n = flashCall.n /\ flashCall'.start = flashCall.start
          /\ flashCall'.all = flashCall.all
          /\ flashCall'.before = flashCall.before
      BY <1>2, <2>5 DEF FlashCalls
    <3>2. FlashTypeOK'
      BY <2>3, <3>1 DEF FlashTypeOK, Chips, FlashCalls, FlashSize
    <3>3. chip'.mem = Overwritten(flashCall.Data)'
      <4>1. PICK k : k = flashCall.Data
        OBVIOUS
      <4>2. Overwritten(k)' = Overwritten(k) /\ chip.mem = Overwritten(k)
        BY <1>1, <2>3, <3>1, <4>1, OverwrittenKept, AtWork
      <4> QED BY <2>3, <3>1, <4>1, <4>2
    <3>4. \A i \in 0 .. PageSize - 1 : chip'.buffer1[i] = chip'.mem[page + i]
      BY <2>2, <2>3
    <3>5. Progress'
      BY <1>1, <3>1, <3>3, <3>4, AtWork DEF Progress, FlashAt
    <3> QED BY <3>2, <3>5 DEF FlashInv
  <2> QED BY <1>4, <2>4, <2>5 DEF ReadPage
<1> QED BY <1>3, <1>4 DEF ReadPage

\* The data is put into the buffer, all of it or what was sent before a failure.
LEMMA WriteBufferKeeps ==
  ASSUME FlashInv, WriteBuffer PROVE FlashInv'
<1>1. flashCall.pc = "write"
  BY DEF WriteBuffer, FlashAt
<1>2. PICK page \in Nat, from \in Nat, n \in Nat, data \in Nat :
        /\ page = PageOf(flashCall.Address) /\ from = PageMask(flashCall.Address)
        /\ n = flashCall.n /\ data = flashCall.Data
  BY <1>1, AtWork
<1>3. /\ chip \in Chips /\ flashCall \in FlashCalls /\ PageSize \in Nat \ {0}
      /\ FlashSize \in Nat
      /\ data + n <= FlashSize /\ chip.mem = Overwritten(data)
  BY <1>1, <1>2, AtWork
<1>4. PICK k \in 0 .. n :
        /\ chip' = [chip EXCEPT !.buffer1 = [i \in 0 .. PageSize - 1 |->
                      IF i \in from .. from + k - 1 THEN DataByte(data + i - from)
                         ELSE chip.buffer1[i]]]
        /\ Fails \/ (k = n /\ flashCall' = [flashCall EXCEPT !.pc = "program"])
  <2>1. n \in 0 .. n
    BY <1>2
  <2> QED BY <1>2, <1>3, <2>1 DEF WriteBuffer, Chips
<1>5. PICK b \in [0 .. PageSize - 1 -> Bytes] :
        b = [i \in 0 .. PageSize - 1 |->
               IF i \in from .. from + k - 1 THEN DataByte(data + i - from) ELSE chip.buffer1[i]]
  <2>1. ASSUME NEW i \in 0 .. PageSize - 1, i \in from .. from + k - 1
        PROVE  DataByte(data + i - from) \in Bytes
    <3>1. data + i - from \in 0 .. FlashSize
      BY <1>2, <1>3, <2>1
    <3> QED BY <3>1, DataBytes DEF FlashInv
  <2>2. \A i \in 0 .. PageSize - 1 : chip.buffer1[i] \in Bytes
    BY <1>3 DEF Chips
  <2> QED BY <2>1, <2>2
<1>6. chip' \in Chips /\ chip'.mem = chip.mem /\ chip'.writes = chip.writes /\ chip'.buffer1 = b
  BY <1>3, <1>4, <1>5 DEF Chips
<1>7. CASE Fails
  BY <1>1, <1>6, <1>7, FailsKeeps
<1>8. CASE k = n /\ flashCall' = [flashCall EXCEPT !.pc = "program"]
  <2>1. /\ flashCall' \in FlashCalls /\ flashCall'.pc = "program"
        /\ flashCall'.Address = flashCall.Address /\ flashCall'.Data = data
        /\ flashCall'.NumData = flashCall.NumData
        /\ flashCall'.n = n /\ flashCall'.start = flashCall.start
        /\ flashCall'.all = flashCall.all
        /\ flashCall'.before = flashCall.before
    BY <1>2, <1>3, <1>8 DEF FlashCalls
  <2>2. FlashTypeOK'
    BY <1>6, <2>1 DEF FlashTypeOK, Chips, FlashCalls, FlashSize
  <2>3. chip'.mem = Overwritten(data)'
    BY <1>3, <1>6, <2>1, OverwrittenKept
  <2>4. \A i \in 0 .. PageSize - 1 :
          i \in from .. (from + n) - 1 \/ chip.buffer1[i] = chip.mem[page + i]
    BY <1>1, <1>2 DEF FlashInv, Progress, FlashAt
  <2>5. \A i \in 0 .. PageSize - 1 :
          chip'.buffer1[i] = IF i \in from .. (from + n) - 1
             THEN <<chip'.writes, data + i - from>> ELSE chip'.mem[page + i]
    BY <1>5, <1>6, <1>8, <2>4 DEF DataByte
  <2>6. page = PageOf(flashCall'.Address) /\ from = PageMask(flashCall'.Address)
    BY <1>2, <2>1
  <2>7. (\A i \in 0 .. PageSize - 1 :
           chip.buffer1[i] = IF i \in from .. (from + flashCall.n) - 1
              THEN DataByte(flashCall.Data + i - from) ELSE chip.mem[page + i])'
    BY <2>1, <2>5 DEF DataByte
  <2>8. (\A i \in 0 .. PageSize - 1 :
           chip.buffer1[i]
              = IF i \in PageMask(flashCall.Address) ..
                          (PageMask(flashCall.Address) + flashCall.n) - 1
                             THEN DataByte(flashCall.Data + i - PageMask(flashCall.Address))
                             ELSE chip.mem[PageOf(flashCall.Address) + i])'
    BY <2>6, <2>7
  <2>9. Progress'
    BY <1>1, <1>2, <2>1, <2>3, <2>8, AtWork DEF Progress, FlashAt
  <2> QED BY <2>2, <2>9 DEF FlashInv
<1> QED BY <1>4, <1>7, <1>8

\* The loop goes to the next page.
LEMMA NextPageKeeps ==
  ASSUME FlashInv, NextPage PROVE FlashInv'
<1> DEFINE c == flashCall
<1>1. c.pc = "next"
  BY DEF NextPage, FlashAt
<1>2. /\ chip \in Chips /\ c \in FlashCalls /\ FlashSize \in Nat /\ PageSize \in Nat \ {0}
      /\ c.Address \in Nat /\ c.Data \in Nat /\ c.NumData \in Nat /\ c.start \in Nat
      /\ c.all \in Nat
      /\ c.Address = PageOf(c.Address) + PageMask(c.Address)
      /\ c.start + c.all <= FlashSize /\ c.before \in [Addresses -> Bytes]
      /\ c.Address = c.start + c.Data /\ c.NumData = c.all - c.Data /\ c.Data <= c.all
      /\ chip.mem = Overwritten(c.Data) /\ (c.NumData = 0 \/ PageMask(c.Address) = 0)
  <2>1. c.NumData = 0 \/ PageMask(c.Address) = 0
    BY <1>1 DEF FlashInv, Progress, FlashAt
  <2> QED BY <1>1, <2>1, AtWork
<1>3. PICK k \in 0 .. PageSize, pc \in {"write", "read", "return"} :
        /\ k = Smaller2(PageSize, c.NumData)
        /\ pc = IF c.NumData >= PageSize THEN "write" ELSE IF c.NumData > 0 THEN "read"
              ELSE "return"
        /\ flashCall' = [flashCall EXCEPT !.n = k, !.pc = pc] /\ chip' = chip
  <2>1. Smaller2(PageSize, c.NumData) \in 0 .. PageSize
    BY <1>2 DEF Smaller2
  <2> QED BY <2>1 DEF NextPage
<1>4. /\ flashCall' \in FlashCalls /\ flashCall'.pc = pc
      /\ flashCall'.Address = flashCall.Address /\ flashCall'.Data = flashCall.Data
      /\ flashCall'.NumData = flashCall.NumData
      /\ flashCall'.n = k /\ flashCall'.start = flashCall.start /\ flashCall'.all = flashCall.all
      /\ flashCall'.before = flashCall.before
  BY <1>2, <1>3 DEF FlashCalls
<1>5. FlashTypeOK'
  BY <1>2, <1>3, <1>4 DEF FlashTypeOK, Chips, FlashCalls, FlashSize
<1> HIDE DEF c
<1>6. PICK d \in Nat : d = c.Data
  BY <1>2
<1>10. chip'.mem = Overwritten(d)'
  <2>2. Overwritten(d)' = Overwritten(d) /\ chip.mem = Overwritten(d)
    BY <1>2, <1>3, <1>4, <1>6, OverwrittenKept
  <2> QED BY <1>3, <2>2
<1>7. CASE pc = "return"
  <2>1. c.NumData = 0 /\ d = c.all /\ d \in 0 .. c.all
    BY <1>2, <1>3, <1>6, <1>7
  <2>2. Progress'
    BY <1>2, <1>4, <1>7, <1>10, <2>1 DEF Progress, FlashAt, c
  <2> QED BY <1>5, <2>2 DEF FlashInv
<1>8. CASE pc # "return"
  <2>1. /\ c.NumData > 0 /\ PageMask(c.Address) = 0 /\ k <= c.NumData
        /\ PageOf(c.Address) = c.Address /\ (k = PageSize \/ k = c.NumData)
        /\ (pc = "write" => k = PageSize)
    <3>1. c.NumData > 0
      BY <1>2, <1>3, <1>8
    <3>2. PageMask(c.Address) = 0 /\ PageOf(c.Address) = c.Address
      BY <1>2, <3>1 DEF PageOf
    <3>3. /\ k <= c.NumData /\ (k = PageSize \/ k = c.NumData)
          /\ (c.NumData >= PageSize => k = PageSize)
      BY <1>2, <1>3 DEF Smaller2
    <3> QED BY <1>3, <3>1, <3>2, <3>3
  <2>2. c.Address + PageSize <= FlashSize
    BY <1>2, <2>1, PageFits
  <2>3. \A i \in 0 .. PageSize - 1 : pc = "write" => i \in 0 .. 0 + k - 1
    BY <2>1
  <2>4. Progress'
    <3>1. (chip.mem = Overwritten(flashCall.Data))'
      BY <1>4, <1>6, <1>10 DEF c
    <3> QED BY <1>2, <1>4, <1>8, <2>1, <2>2, <2>3, <3>1 DEF Progress, FlashAt, c
  <2> QED BY <1>5, <2>4 DEF FlashInv
<1> QED BY <1>7, <1>8

\* The buffer b is the page p of old, with the n bytes of the data from d on put at f.
Filled(b, old, p, f, n, d, w) ==
  \A i \in 0 .. PageSize - 1 :
    b[i] = IF i \in f .. (f + n) - 1 THEN <<w, d + i - f>> ELSE old[p + i]

\* n bytes of the data from d on, which lie at the place f of the page p.
Piece(p, f, n, d, s) ==
  /\ p \in Nat /\ f \in Nat /\ n \in Nat /\ d \in Nat /\ s \in Nat
  /\ PageMask(p) = 0 /\ p + f = s + d /\ f + n <= PageSize

\* The cell a holds x when d bytes of the data, from s on, were written over before.
Written(x, a, s, d, w, before) == x = IF a \in s .. (s + d) - 1 THEN <<w, a - s>> ELSE before[a]

\* An address after a page was programmed from the buffer: n bytes of the data more.
LEMMA PageProgrammed ==
  ASSUME NEW p, NEW f, NEW n, NEW d, NEW s, NEW w, NEW b, NEW before, NEW old,
         NEW a \in Addresses,
         Piece(p, f, n, d, s), Filled(b, old, p, f, n, d, w),
         Written(old[a], a, s, d, w, before)
  PROVE  Written(IF PageOf(a) = p THEN b[a - p] ELSE old[a], a, s, d + n, w, before)
<1> USE DEF Piece, Written
<1>1. a \in Nat /\ PageSize \in Nat \ {0}
  BY FlashAssumption DEF Addresses, FlashSize
<1>2. PageMask(a) \in 0 .. PageSize - 1 /\ PageOf(a) \in Nat /\ a = PageOf(a) + PageMask(a)
  BY <1>1, PageSplit
<1>3. CASE PageOf(a) = p
  <2>1. PICK i \in 0 .. PageSize - 1 : i = PageMask(a) /\ a = p + i /\ a - p = i
    BY <1>1, <1>2, <1>3
  <2>2. b[i] = IF i \in f .. (f + n) - 1 THEN <<w, d + i - f>> ELSE old[a]
    BY <2>1 DEF Filled
  <2>3. (i \in f .. (f + n) - 1) = (a \in (s + d) .. (s + (d + n)) - 1) /\ d + i - f = a - s
    BY <1>1, <2>1
  <2>4. (a \in s .. (s + (d + n)) - 1)
           = (a \in s .. (s + d) - 1 \/ a \in (s + d) .. (s + (d + n)) - 1)
    BY <1>1
  <2> QED BY <1>3, <2>1, <2>2, <2>3, <2>4
<1>4. CASE PageOf(a) # p
  <2>1. ASSUME a \in (s + d) .. (s + (d + n)) - 1 PROVE FALSE
    <3>1. PICK i \in 0 .. PageSize - 1 : i = a - p /\ a = p + i
      BY <1>1, <2>1
    <3>2. PageMask(a) = i
      BY <3>1, PageOffset
    <3>3. i \in Nat /\ a - i = p
      BY <1>1, <3>1
    <3>4. PICK q \in Nat : q = PageOf(a) /\ a = q + i
      BY <1>2, <3>2
    <3>5. q = p
      BY <3>1, <3>3, <3>4
    <3> QED BY <1>4, <3>4, <3>5
  <2>2. (a \in s .. (s + (d + n)) - 1) = (a \in s .. (s + d) - 1)
    BY <1>1, <2>1
  <2> QED BY <1>4, <2>2
<1> QED BY <1>3, <1>4

\* The page is programmed from the buffer.
LEMMA ProgramPageKeeps ==
  ASSUME FlashInv, ProgramPage PROVE FlashInv'
<1>1. flashCall.pc = "program"
  BY DEF ProgramPage, FlashAt
<1>2. PICK p \in Nat, f \in Nat, n \in Nat, d \in Nat, s \in Nat, all \in Nat :
        /\ p = PageOf(flashCall.Address) /\ f = PageMask(flashCall.Address) /\ n = flashCall.n
        /\ d = flashCall.Data
        /\ s = flashCall.start /\ all = flashCall.all
  <2>1. /\ PageOf(flashCall.Address) \in Nat /\ PageMask(flashCall.Address) \in Nat
        /\ flashCall.n \in Nat
        /\ flashCall.Data \in Nat /\ flashCall.start \in Nat /\ flashCall.all \in Nat
    BY <1>1, AtWork
  <2> QED BY <2>1, Zenon
<1>3. /\ chip \in Chips /\ flashCall \in FlashCalls /\ PageSize \in Nat \ {0}
      /\ FlashSize \in Nat
      /\ flashCall.Address = p + f /\ p + f = s + d /\ PageMask(p) = 0 /\ f + n <= PageSize
      /\ s + all <= FlashSize
      /\ flashCall.NumData = all - d /\ n <= all - d /\ (f + n = PageSize \/ n = all - d)
      /\ chip.mem = Overwritten(d) /\ flashCall.before \in [Addresses -> Bytes]
  BY <1>1, <1>2, AtWork
<1>4. CASE UNCHANGED chip /\ Fails
  BY <1>1, <1>3, <1>4, FailsKeeps
<1>5. CASE /\ chip'
         = [chip EXCEPT !.mem =
               [a \in Addresses |-> IF PageOf(a) = p THEN chip.buffer1[a - p] ELSE chip.mem[a]]]
           /\ \E ready \in BOOLEAN :
                flashCall' = [flashCall EXCEPT !.Address = p + f + n, !.Data = d + n,
                              !.NumData = (all - d) - n,
                                               !.res = ready, !.pc = IF ready THEN "next"
                                                  ELSE "return"]
  <2>1. \A i \in 0 .. PageSize - 1 :
          chip.buffer1[i] = IF i \in f .. (f + n) - 1 THEN DataByte(d + i - f)
             ELSE chip.mem[p + i]
    BY <1>1, <1>2 DEF FlashInv, Progress, FlashAt
  <2>2. PICK w : w = chip.writes
    OBVIOUS
  <2>3. PICK before \in [Addresses -> Bytes] : before = flashCall.before
    BY <1>3
  <2>4. \A a \in Addresses :
          chip.mem[a] = IF a \in s .. (s + d) - 1 THEN <<w, a - s>> ELSE before[a]
    BY <1>2, <1>3, <2>2, <2>3 DEF Overwritten, DataByte
  <2>5. \A i \in 0 .. PageSize - 1 :
          chip.buffer1[i] = IF i \in f .. (f + n) - 1 THEN <<w, d + i - f>> ELSE chip.mem[p + i]
    BY <2>1, <2>2 DEF DataByte
  <2>6. \A a \in Addresses : (IF PageOf(a) = p THEN chip.buffer1[a - p] ELSE chip.mem[a])
           = IF a \in s .. (s + (d + n)) - 1 THEN <<w, a - s>> ELSE before[a]
    <3> SUFFICES ASSUME NEW a \in Addresses
                 PROVE  (IF PageOf(a) = p THEN chip.buffer1[a - p] ELSE chip.mem[a])
                          = IF a \in s .. (s + (d + n)) - 1 THEN <<w, a - s>> ELSE before[a]
      OBVIOUS
    <3>1. PICK b, old : b = chip.buffer1 /\ old = chip.mem
      OBVIOUS
    <3>2. Filled(b, old, p, f, n, d, w)
      BY <2>5, <3>1 DEF Filled
    <3>3. Written(old[a], a, s, d, w, before)
      BY <2>4, <3>1 DEF Written
    <3>4. Piece(p, f, n, d, s)
      BY <1>2, <1>3 DEF Piece
    <3>5. Written(IF PageOf(a) = p THEN b[a - p] ELSE old[a], a, s, d + n, w, before)
      BY <3>2, <3>3, <3>4, PageProgrammed
    <3> QED BY <3>1, <3>5 DEF Written
  <2>7. \A a \in Addresses :
          (IF PageOf(a) = p THEN chip.buffer1[a - p] ELSE chip.mem[a]) \in Bytes
    <3> SUFFICES ASSUME NEW a \in Addresses
                 PROVE  (IF PageOf(a) = p THEN chip.buffer1[a - p] ELSE chip.mem[a]) \in Bytes
      OBVIOUS
    <3>1. a \in Nat
      BY <1>3 DEF Addresses, FlashSize
    <3>2. ASSUME PageOf(a) = p PROVE a - p \in 0 .. PageSize - 1
      BY <3>1, <3>2, PageSplit
    <3>3. chip.mem[a] \in Bytes /\ \A i \in 0 .. PageSize - 1 : chip.buffer1[i] \in Bytes
      BY <1>3 DEF Chips
    <3> QED BY <3>2, <3>3
  <2>8. PICK mem \in [Addresses -> Bytes] :
          mem = [a \in Addresses |->
                   IF a \in s .. (s + (d + n)) - 1 THEN <<w, a - s>> ELSE before[a]]
    BY <2>6, <2>7
  <2>9. chip' = [chip EXCEPT !.mem = mem]
    BY <1>5, <2>6, <2>8, ZenonT(30)
  <2>10. chip' \in Chips /\ chip'.mem = mem /\ chip'.writes = w
    BY <1>3, <2>2, <2>9 DEF Chips
  <2>11. PICK ready \in BOOLEAN, pc \in {"next", "return"} :
           /\ pc = IF ready THEN "next" ELSE "return"
           /\ flashCall' = [flashCall EXCEPT !.Address = p + f + n, !.Data = d + n,
                            !.NumData = (all - d) - n,
                                             !.res = ready, !.pc = pc]
    BY <1>5
  <2>12. /\ p + f + n \in 0 .. FlashSize /\ d + n \in Nat /\ (all - d) - n \in Nat
         /\ d + n \in 0 .. all
    BY <1>3
  <2>13. /\ flashCall' \in FlashCalls /\ flashCall'.pc = pc /\ flashCall'.res = ready
         /\ flashCall'.Address = p + f + n /\ flashCall'.Data = d + n
         /\ flashCall'.NumData = (all - d) - n
         /\ flashCall'.start = s /\ flashCall'.all = all /\ flashCall'.before = before
    <3>1. PICK address \in 0 .. FlashSize, data \in Nat, num \in Nat :
            address = p + f + n /\ data = d + n /\ num = (all - d) - n
      BY <2>12
    <3>2. flashCall' = [flashCall EXCEPT !.Address = address, !.Data = data, !.NumData = num,
                        !.res = ready, !.pc = pc]
      BY <2>11, <3>1
    <3>3. /\ flashCall' \in FlashCalls /\ flashCall'.pc = pc /\ flashCall'.res = ready
          /\ flashCall'.Address = address /\ flashCall'.Data = data /\ flashCall'.NumData = num
          /\ flashCall'.start = flashCall.start /\ flashCall'.all = flashCall.all
          /\ flashCall'.before = flashCall.before
      BY <1>3, <3>2 DEF FlashCalls
    <3> QED BY <1>2, <2>3, <3>1, <3>3
  <2>14. FlashTypeOK'
    BY <2>10, <2>13 DEF FlashTypeOK, Chips, FlashCalls, FlashSize
  <2>15. PICK k \in 0 .. all : k = d + n
    BY <2>12
  <2>16. chip'.mem = Overwritten(k)'
    BY <2>8, <2>10, <2>13, <2>15 DEF Overwritten, DataByte
  <2>17. ASSUME f + n = PageSize PROVE PageMask(p + f + n) = 0
    <3>1. p + f + n = p + PageSize
      BY <2>17, <1>3
    <3> QED BY <1>3, <3>1, NextPageStarts
  <2>18. CASE ready
    <3>1. flashCall'.pc = "next"
      BY <2>11, <2>13, <2>18
    <3>2. /\ flashCall'.Address = flashCall'.start + flashCall'.Data
          /\ flashCall'.NumData = flashCall'.all - flashCall'.Data
          /\ flashCall'.Data <= flashCall'.all
          /\ flashCall'.start + flashCall'.all <= FlashSize
          /\ flashCall'.before \in [Addresses -> Bytes]
      BY <1>3, <2>12, <2>13
    <3>3. chip'.mem = Overwritten(flashCall.Data)'
      BY <2>13, <2>15, <2>16
    <3>4. flashCall'.NumData = 0 \/ PageMask(flashCall'.Address) = 0
      BY <1>3, <2>13, <2>17
    <3>5. Progress'
      BY <3>1, <3>2, <3>3, <3>4 DEF Progress, FlashAt
    <3> QED BY <2>14, <3>5 DEF FlashInv
  <2>19. CASE ~ready
    <3>1. flashCall'.pc = "return" /\ ~flashCall'.res
      BY <2>11, <2>13, <2>19
    <3>2. /\ flashCall'.start + flashCall'.all <= FlashSize
          /\ flashCall'.before \in [Addresses -> Bytes]
      BY <1>3, <2>13
    <3>3. Progress'
      BY <2>13, <2>16, <3>1, <3>2 DEF Progress, FlashAt
    <3> QED BY <2>14, <3>3 DEF FlashInv
  <2> QED BY <2>18, <2>19
<1> QED
  <2>1. chip.mem \in [Addresses -> Bytes]
    BY <1>3 DEF Chips
  <2> QED BY <1>2, <1>3, <1>4, <1>5, <2>1 DEF ProgramPage

\* ProgrammFlash returns.
LEMMA FlashReturnsKeeps ==
  ASSUME FlashInv, FlashReturns PROVE FlashInv'
<1>1. chip \in Chips /\ chip' = chip /\ flashCall' = NoFlashCall
  BY FlashTypes DEF FlashInv, FlashReturns
<1>2. 0 \in 0 .. FlashSize /\ 0 \in 0 .. PageSize
  BY FlashAssumption, SizeNat
<1>3. flashCall' \in FlashCalls /\ flashCall'.pc = "idle"
  BY <1>1, <1>2 DEF FlashCalls, NoFlashCall
<1>4. FlashTypeOK'
  BY <1>1, <1>3 DEF FlashTypeOK, Chips, FlashCalls, FlashSize
<1>5. Progress'
  BY <1>3 DEF Progress, FlashAt
<1> QED BY <1>4, <1>5 DEF FlashInv

\* Nothing happens.
LEMMA FlashIdles ==
  ASSUME FlashInv, UNCHANGED flashVars PROVE FlashInv'
BY DEF FlashInv, FlashTypeOK, Progress, FlashAt, Overwritten, DataByte, flashVars

\* Every step keeps the invariant.
LEMMA FlashNextKeeps ==
  ASSUME FlashInv, [FlashNext]_flashVars PROVE FlashInv'
<1>1. ASSUME NEW a \in Addresses, NEW n \in 0 .. PageSize * NumPages - a, ProgrammFlash(a, n)
      PROVE  FlashInv'
  BY <1>1, ProgrammFlashKeeps DEF FlashSize
<1> QED
  BY <1>1, ReadPageKeeps, WriteBufferKeeps, ProgramPageKeeps, NextPageKeeps, FlashReturnsKeeps,
     FlashIdles
  DEF FlashNext, FlashUser, FlashStep

\* The invariant says that the flash is an array.
LEMMA FlashInvIsArray == FlashInv => FlashIsArray
<1> SUFFICES ASSUME FlashInv, ~FlashAt("idle") PROVE FlashIsArray
  BY DEF FlashIsArray
<1>1. flashCall \in FlashCalls
  BY FlashTypes DEF FlashInv
<1>2. CASE flashCall.pc = "return"
  <2>1. PICK k \in 0 .. flashCall.all :
          chip.mem = Overwritten(k) /\ (flashCall.res => k = flashCall.all)
    BY <1>2 DEF FlashInv, Progress, FlashAt
  <2> QED BY <2>1 DEF FlashIsArray
<1>3. CASE flashCall.pc # "return"
  <2>1. flashCall.pc \in {"read", "write", "program", "next"}
    BY <1>1, <1>3 DEF FlashAt, FlashCalls
  <2>2. flashCall.Data \in 0 .. flashCall.all /\ chip.mem = Overwritten(flashCall.Data)
    BY <2>1, AtWork
  <2> QED BY <1>3, <2>2 DEF FlashIsArray, FlashAt
<1> QED BY <1>2, <1>3

\* For every page size, number of pages, address and length: whatever command fails, the memory
\* is what it was with a prefix of the data written over it, all of the data when ProgrammFlash
\* returns TRUE (AT45DB161Flash.cpp:126-149).
THEOREM FlashIsAnArray == FlashSpec => []FlashIsArray
<1>1. FlashInv /\ [FlashNext]_flashVars => FlashInv'
  BY FlashNextKeeps
<1> QED BY <1>1, FlashInitInv, FlashInvIsArray, PTL DEF FlashSpec

------------------------------------------------------------------------------
\* CSerial.

SettingOps == {"Setup", "SetEventChar", "SetupHandshaking"}
TransferOps == {"WaitEvent", "Write", "Read"}
SerArgs == SetupArguments \cup (EventChars \X BOOLEAN) \cup {<<h>> : h \in Handshakes}
             \cup {<<b>> : b \in BOOLEAN} \cup {<< >>}
\* The arguments that fit a setting.
Fits(op, arg) ==
  \/ op = "Setup" /\ arg \in SetupArguments
  \/ op = "SetEventChar" /\ arg \in EventChars \X BOOLEAN
  \/ op = "SetupHandshaking" /\ \E h \in Handshakes : arg = <<h>>

\* Types and ranges.
SerObjects == [hFile : BOOLEAN, hevtOverlapped : BOOLEAN, dwEventMask : Masks,
               lLastError : {"SUCCESS", "INVALID_HANDLE", "ALREADY_INITIALIZED", "OPEN", "DEVICE",
                             "INVALID_FUNCTION", "TIMEOUT"}]
Comms == [dcb : DCBs, mask : Masks, blocking : BOOLEAN, event : BOOLEAN,
          own : {"none", "pending", "done", "failed"}, stale : Nat, user : BOOLEAN,
          told : {Settings(d) : d \in DCBs}, masked : BOOLEAN]
SerCalls == [pc : {"idle", "get", "change", "mask", "set", "check", "submit", "wait", "return"},
             op : {"none"} \cup SettingOps \cup TransferOps, arg : SerArgs, dcb : DCBs,
             count : {0, 1}, moved : {0, 1}]
SerTyped == ser \in SerObjects /\ comm \in Comms /\ serCall \in SerCalls

\* How far the change of a setting has come: the control block in the call is the device's,
\* and then that of the device once it has accepted the change.
Changing ==
  /\ serCall.pc \in {"get", "change", "mask", "set"} => Fits(serCall.op, serCall.arg)
  /\ SerAt("change") => serCall.dcb = comm.dcb
  /\ serCall.pc \in {"mask", "set"} =>
       Settings(serCall.dcb) = Accepted(comm.told, serCall.op, serCall.arg)

\* How far a transfer has come, if no request is ever abandoned.
Transferring ==
  ~serWorld.timeouts =>
    /\ comm.stale = 0
    /\ IF SerAt("wait")
       THEN /\ comm.own # "none" /\ serCall.count = 0
            /\ comm.own = "pending" => ~comm.event
            /\ comm.own # "done" => serCall.moved = 0
       ELSE comm.own = "none" /\ serCall.count = serCall.moved
    /\ serCall.pc \in {"check", "submit"} => serCall.moved = 0

\* The inductive invariant of the serial port.
SerInv == SerTyped /\ Changing /\ SettingsKept /\ Transferring

\* The assignments of Setup one after the other, and what its parity comes to.
LEMMA OneByOne ==
  ASSUME NEW d, NEW b, NEW z, NEW p, NEW s, NEW y
  PROVE  [d EXCEPT !.BaudRate = b, !.ByteSize = z, !.Parity = p, !.StopBits = s, !.fParity = y]
           = [[[[[d EXCEPT !.BaudRate = b] EXCEPT !.ByteSize = z] EXCEPT !.Parity = p]
                EXCEPT !.StopBits = s] EXCEPT !.fParity = y]
BY Zenon

\* A parity sets the flag for it,
LEMMA WithParity ==
  ASSUME NEW d, NEW b, NEW z, NEW p, NEW s, NEW e, p # "None",
         e = [d EXCEPT !.BaudRate = b, !.ByteSize = z, !.Parity = p, !.StopBits = s,
                       !.fParity = (p # "None")]
  PROVE  e = [d EXCEPT !.BaudRate = b, !.ByteSize = z, !.Parity = p, !.StopBits = s,
                       !.fParity = TRUE]
BY Zenon

\* ... and no parity clears it.
LEMMA WithoutParity ==
  ASSUME NEW d, NEW b, NEW z, NEW p, NEW s, NEW e, p = "None",
         e = [d EXCEPT !.BaudRate = b, !.ByteSize = z, !.Parity = p, !.StopBits = s,
                       !.fParity = (p # "None")]
  PROVE  e = [d EXCEPT !.BaudRate = b, !.ByteSize = z, !.Parity = p, !.StopBits = s,
                       !.fParity = FALSE]
BY Zenon

\* What the fields of a line may be.
LineFits(b, z, p, s) == b \in {9600, 19200} /\ z \in {7, 8} /\ p \in {"None", "Odd"} /\ s \in {1, 2}

ParityFits(y, p) == y \in BOOLEAN /\ (y = TRUE <=> p # "None")
IsLine(e, d, b, z, p, s, y) ==
  e = [d EXCEPT !.BaudRate = b, !.ByteSize = z, !.Parity = p, !.StopBits = s, !.fParity = y]
LineSet(e, d, b, z, p, s) ==
  e \in DCBs /\ Settings(e) = [Settings(d) EXCEPT !.line = <<b, z, p, s>>]

\* The line that Setup sets, and what the getters make of it.
LEMMA LineIsSet ==
  ASSUME NEW d \in DCBs, NEW b, NEW z, NEW p, NEW s, LineFits(b, z, p, s), NEW y,
         ParityFits(y, p), NEW e, IsLine(e, d, b, z, p, s, y)
  PROVE  LineSet(e, d, b, z, p, s)
<1>0. e = [[[[[d EXCEPT !.BaudRate = b] EXCEPT !.ByteSize = z] EXCEPT !.Parity = p]
                EXCEPT !.StopBits = s] EXCEPT !.fParity = y]
  <2>1. e = [d EXCEPT !.BaudRate = b, !.ByteSize = z, !.Parity = p, !.StopBits = s, !.fParity = y]
    BY DEF IsLine
  <2> QED BY ONLY <2>1, OneByOne, Zenon
<1> DEFINE g1 == [d EXCEPT !.BaudRate = b]
<1>1. g1 \in DCBs
  BY DEF DCBs, LineFits, ParityFits
<1> DEFINE g2 == [g1 EXCEPT !.ByteSize = z]
<1>2. ASSUME NEW g \in DCBs PROVE [g EXCEPT !.ByteSize = z] \in DCBs
  BY DEF DCBs, LineFits, ParityFits
<1> DEFINE g3 == [g2 EXCEPT !.Parity = p]
<1>3. ASSUME NEW g \in DCBs PROVE [g EXCEPT !.Parity = p] \in DCBs
  BY DEF DCBs, LineFits, ParityFits
<1> DEFINE g4 == [g3 EXCEPT !.StopBits = s]
<1>4. ASSUME NEW g \in DCBs PROVE [g EXCEPT !.StopBits = s] \in DCBs
  BY DEF DCBs, LineFits, ParityFits
<1>5. ASSUME NEW g \in DCBs PROVE [g EXCEPT !.fParity = y] \in DCBs
  BY DEF DCBs, LineFits, ParityFits
<1>6. e = [g4 EXCEPT !.fParity = y]
  BY ONLY <1>0, Zenon DEF g1, g2, g3, g4
<1> HIDE DEF g1, g2, g3, g4
<1>7. g2 \in DCBs
  BY <1>1, <1>2 DEF g2
<1>8. g3 \in DCBs
  BY <1>7, <1>3 DEF g3
<1>9. g4 \in DCBs
  BY <1>8, <1>4 DEF g4
<1>10. e \in DCBs
  BY <1>9, <1>5, <1>6
<1>11. /\ e.fParity = y /\ e.Parity = p /\ e.BaudRate = b /\ e.ByteSize = z /\ e.StopBits = s
       /\ e.EvtChar = d.EvtChar /\ e.fOutX = d.fOutX /\ e.fInX = d.fInX
       /\ e.fDtrControl = d.fDtrControl /\ e.fRtsControl = d.fRtsControl
  <2>1. e = [d EXCEPT !.BaudRate = b, !.ByteSize = z, !.Parity = p, !.StopBits = s, !.fParity = y]
    BY DEF IsLine
  <2>2. e.fParity = y
    BY <2>1 DEF DCBs
  <2>3. e.Parity = p /\ e.BaudRate = b /\ e.ByteSize = z /\ e.StopBits = s
    BY <2>1 DEF DCBs
  <2>4. e.EvtChar = d.EvtChar /\ e.fOutX = d.fOutX /\ e.fInX = d.fInX
    BY <2>1 DEF DCBs
  <2>5. e.fDtrControl = d.fDtrControl /\ e.fRtsControl = d.fRtsControl
    BY <2>1 DEF DCBs
  <2> QED BY <2>2, <2>3, <2>4, <2>5
<1>12. Settings(e) = [Settings(d) EXCEPT !.line = <<b, z, p, s>>]
  <2> SUFFICES ASSUME NEW c, c = e PROVE Settings(c) = [Settings(d) EXCEPT !.line = <<b, z, p, s>>]
    OBVIOUS
  <2> HIDE DEF DCBs
  <2> QED BY <1>10, <1>11 DEF ParityFits, Settings, GetBaudrate, GetDataBits, GetParity, GetStopBits,
      GetEventChar, GetHandshaking
<1> QED BY <1>10, <1>12, Zenon DEF LineSet

\* A change of a setting keeps the others, and the getters find it.
LEMMA SettingIsKept ==
  ASSUME NEW d \in DCBs, NEW op, NEW arg, Fits(op, arg)
  PROVE  /\ SettingOf(d, op, arg) \in DCBs
         /\ Settings(SettingOf(d, op, arg)) = Accepted(Settings(d), op, arg)
<1> DEFINE e == SettingOf(d, op, arg)
<1>1. CASE op = "Setup" /\ arg \in SetupArguments
  <2>1. PICK b, z, p, s : arg = <<b, z, p, s>> /\ LineFits(b, z, p, s)
    <3>1. CASE arg = <<9600, 8, "None", 1>>
      BY <3>1 DEF LineFits
    <3>2. CASE arg = <<9600, 7, "Odd", 1>>
      BY <3>2 DEF LineFits
    <3>3. CASE arg = <<19200, 8, "Odd", 2>>
      BY <3>3 DEF LineFits
    <3> QED BY <1>1, <3>1, <3>2, <3>3 DEF SetupArguments
  <2>2. e = [d EXCEPT !.BaudRate = b, !.ByteSize = z, !.Parity = p, !.StopBits = s,
                      !.fParity = (p # "None")]
    BY <1>1, <2>1 DEF SettingOf
  <2>3. PICK c : c = e
    OBVIOUS
  <2> HIDE DEF e
  <2>7. LineFits(b, z, p, s)
    BY <2>1
  <2>6. LineSet(c, d, b, z, p, s)
    <3>1. CASE p = "None"
      <4>1. c = [d EXCEPT !.BaudRate = b, !.ByteSize = z, !.Parity = p, !.StopBits = s,
                          !.fParity = FALSE]
        BY ONLY <2>2, <2>3, <3>1, WithoutParity
      <4>2. IsLine(c, d, b, z, p, s, FALSE)
        BY <4>1, Zenon DEF IsLine
      <4>3. ParityFits(FALSE, p)
        BY <3>1 DEF ParityFits
      <4>4. PICK y : ParityFits(y, p) /\ IsLine(c, d, b, z, p, s, y)
        BY <4>2, <4>3
      <4> QED BY <2>7, <4>4, LineIsSet
    <3>2. CASE p # "None"
      <4>1. c = [d EXCEPT !.BaudRate = b, !.ByteSize = z, !.Parity = p, !.StopBits = s,
                          !.fParity = TRUE]
        BY ONLY <2>2, <2>3, <3>2, WithParity
      <4>2. IsLine(c, d, b, z, p, s, TRUE)
        BY <4>1, Zenon DEF IsLine
      <4>3. ParityFits(TRUE, p)
        BY <3>2 DEF ParityFits
      <4>4. PICK y : ParityFits(y, p) /\ IsLine(c, d, b, z, p, s, y)
        BY <4>2, <4>3
      <4> QED BY <2>7, <4>4, LineIsSet
    <3> QED BY <3>1, <3>2
  <2>4. c \in DCBs /\ Settings(c) = [Settings(d) EXCEPT !.line = <<b, z, p, s>>]
    BY <2>6, Zenon DEF LineSet
  <2>5. Accepted(Settings(d), op, arg) = [Settings(d) EXCEPT !.line = <<b, z, p, s>>]
    BY <1>1, <2>1 DEF Accepted
  <2> QED BY <2>3, <2>4, <2>5 DEF e
<1>2. CASE op = "SetEventChar" /\ arg \in EventChars \X BOOLEAN
  <2>1. PICK c \in EventChars : arg[1] = c
    BY <1>2
  <2>2. e = [d EXCEPT !.EvtChar = c]
    BY <1>2, <2>1 DEF SettingOf
  <2>3. e \in DCBs
    BY <2>2 DEF DCBs
  <2>4. Settings(e) = [Settings(d) EXCEPT !.EvtChar = c]
    BY <2>2 DEF DCBs, Settings, GetBaudrate, GetDataBits, GetParity, GetStopBits,
      GetEventChar, GetHandshaking
  <2> QED BY <1>2, <2>1, <2>3, <2>4 DEF Accepted
<1>3. CASE op = "SetupHandshaking" /\ \E h \in Handshakes : arg = <<h>>
  <2>1. PICK h \in Handshakes : arg[1] = h
    BY <1>3
  <2>2. PICK line \in {"DISABLE", "HANDSHAKE"} : line = IF h = "Hardware" THEN "HANDSHAKE" ELSE "DISABLE"
    OBVIOUS
  <2>6. PICK x \in BOOLEAN : x = (h = "Software")
    BY Zenon
  <2> DEFINE f == [d EXCEPT !.fOutX = x, !.fInX = x,
                            !.fDtrControl = line, !.fRtsControl = line]
  <2>3. e = f
    <3>1. e = [d EXCEPT !.fOutX = (h = "Software"), !.fInX = (h = "Software"),
                        !.fDtrControl = line, !.fRtsControl = line]
      BY <1>3, <2>1, <2>2 DEF SettingOf
    <3> QED BY <2>6, <3>1, Zenon
  <2>4. e \in DCBs /\ e.fOutX = x /\ e.fInX = x
        /\ e.fDtrControl = line /\ e.fRtsControl = line /\ e.fParity = d.fParity
        /\ e.Parity = d.Parity /\ e.BaudRate = d.BaudRate /\ e.ByteSize = d.ByteSize
        /\ e.StopBits = d.StopBits /\ e.EvtChar = d.EvtChar
    <3>2. f \in DCBs
      <4> DEFINE g1 == [d EXCEPT !.fOutX = x]
      <4>1. g1 \in DCBs
        BY DEF DCBs
      <4> HIDE DEF g1
      <4> DEFINE g2 == [g1 EXCEPT !.fInX = x]
      <4>2. g2 \in DCBs
        BY <4>1 DEF DCBs
      <4> HIDE DEF g2
      <4> DEFINE g3 == [g2 EXCEPT !.fDtrControl = line]
      <4>3. g3 \in DCBs
        BY <4>2 DEF DCBs
      <4> HIDE DEF g3
      <4> DEFINE g4 == [g3 EXCEPT !.fRtsControl = line]
      <4>4. g4 \in DCBs
        BY <4>3 DEF DCBs
      <4> HIDE DEF g4
      <4> QED BY <4>4, Zenon DEF g1, g2, g3, g4
    <3>1. f.fOutX = x /\ f.fInX = x
        /\ f.fDtrControl = line /\ f.fRtsControl = line /\ f.fParity = d.fParity
        /\ f.Parity = d.Parity /\ f.BaudRate = d.BaudRate /\ f.ByteSize = d.ByteSize
        /\ f.StopBits = d.StopBits /\ f.EvtChar = d.EvtChar
      BY DEF DCBs
    <3> QED BY <2>3, <3>1, <3>2
  <2> HIDE DEF e
  <2>5. Settings(e) = [Settings(d) EXCEPT !.handshake = h]
    BY <2>2, <2>4, <2>6 DEF DCBs, Settings, GetBaudrate, GetDataBits, GetParity, GetStopBits,
      GetEventChar, GetHandshaking, Handshakes
  <2> QED BY <1>3, <2>1, <2>4, <2>5 DEF Accepted, e
<1> QED BY <1>1, <1>2, <1>3 DEF Fits

\* What the port starts with is possible.
LEMMA SerDefaults ==
  /\ DefaultDCB \in DCBs /\ {} \in Masks /\ DefaultMask \in Masks
  /\ Settings(DefaultDCB) \in {Settings(d) : d \in DCBs}
  /\ NoSerCall \in SerCalls
  /\ \A m \in Masks : m \cup {"RcvEv"} \in Masks
<1>1. DefaultDCB \in DCBs
  BY DEF DefaultDCB, DCBs, EventChars
<1>2. {} \in Masks /\ DefaultMask \in Masks /\ \A m \in Masks : m \cup {"RcvEv"} \in Masks
  BY DEF Masks, DefaultMask
<1>3. NoSerCall \in SerCalls
  BY <1>1 DEF NoSerCall, SerCalls, SerArgs
<1> QED BY <1>1, <1>2, <1>3

\* A port that was just made satisfies the invariant.
LEMMA SerInitInv == SerInit => SerInv
<1> SUFFICES ASSUME SerInit PROVE SerInv
  OBVIOUS
<1>1. ser \in SerObjects
  BY SerDefaults DEF SerInit, SerInitIn, SerObjects
<1>2. comm \in Comms
  BY SerDefaults DEF SerInit, SerInitIn, NoComm, Comms
<1>3. serCall = NoSerCall /\ comm = NoComm
  BY DEF SerInit, SerInitIn
<1>4. Changing /\ Transferring
  BY <1>3 DEF Changing, Transferring, SerAt, NoSerCall, NoComm
<1>5. SettingsKept
  BY DEF SerInit, SerInitIn, NoComm, SettingsKept
<1> QED BY <1>1, <1>2, <1>3, <1>4, <1>5, SerDefaults DEF SerInv, SerTyped

\* The beginning of a call.
LEMMA SerialBegins ==
  ASSUME SerInv, NEW op \in SettingOps \cup TransferOps, NEW arg \in SerArgs, NEW pc,
         Begin(op, pc, arg), (pc = "get" /\ Fits(op, arg)) \/ (pc = "check" /\ op \in TransferOps)
  PROVE  SerInv'
<1>1. /\ serWorld' = serWorld /\ comm' = comm /\ comm.own = comm.own
      /\ serCall' = [NoSerCall EXCEPT !.op = op, !.arg = arg,
                                      !.pc = IF ser.hFile THEN pc ELSE "return"]
      /\ ser' = [ser EXCEPT !.lLastError = IF ser.hFile THEN "SUCCESS" ELSE "INVALID_HANDLE"]
  BY DEF Begin, LastError
<1>2. /\ serCall' \in SerCalls /\ serCall'.op = op /\ serCall'.arg = arg
      /\ serCall'.pc = IF ser.hFile THEN pc ELSE "return"
      /\ serCall'.count = 0 /\ serCall'.moved = 0
  BY <1>1, SerDefaults DEF NoSerCall, SerCalls
<1>3. ser' \in SerObjects /\ ser'.hFile = ser.hFile /\ ser'.dwEventMask = ser.dwEventMask
  BY <1>1 DEF SerInv, SerTyped, SerObjects
<1>4. Changing'
  BY <1>1, <1>2 DEF Changing, SerAt
<1>5. Transferring'
  BY <1>1, <1>2 DEF SerInv, Transferring, SerAt, Begin
<1>6. SettingsKept'
  BY <1>1, <1>3 DEF SerInv, SettingsKept, GetEventMask
<1> QED BY <1>1, <1>2, <1>3, <1>4, <1>5, <1>6 DEF SerInv, SerTyped

\* What opens and closes the port, and what only asks.
LEMMA OutsideKeeps ==
  ASSUME SerInv,
         \/ OpenAgain \/ OpenFails \/ (\E o \in BOOLEAN : OpenSerial(o)) \/ CloseSerial \/ Ask
         \/ SetMask(DefaultMask) \/ \E blocking \in BOOLEAN : SetupReadTimeouts(blocking)
  PROVE  SerInv'
<1>1. SerAt("idle") /\ serCall' = serCall /\ serWorld' = serWorld
  BY DEF OpenAgain, OpenFails, OpenSerial, CloseSerial, Ask, SetMask, SetupReadTimeouts
<1>2. Changing'
  BY <1>1 DEF Changing, SerAt
<1>3. ser \in SerObjects /\ comm \in Comms /\ serCall \in SerCalls /\ SettingsKept /\ Transferring
  BY DEF SerInv, SerTyped
<1> SUFFICES /\ ser' \in SerObjects /\ comm' \in Comms /\ SettingsKept'
             /\ comm'.own = comm.own /\ comm'.stale \in {0, comm.stale}
    \/ /\ ser' \in SerObjects /\ comm' \in Comms /\ SettingsKept'
       /\ comm'.own = "none" /\ comm'.stale \in {0, comm.stale}
  BY <1>1, <1>2, <1>3 DEF SerInv, SerTyped, Transferring, SerAt
<1>4. CASE OpenAgain
  <2>1. ser' = [ser EXCEPT !.lLastError = "ALREADY_INITIALIZED"] /\ comm' = comm
    BY <1>4 DEF OpenAgain, LastError
  <2> QED BY <2>1, <1>3 DEF SerObjects, SettingsKept, GetEventMask
<1>5. CASE OpenFails
  <2>1. ser' = [ser EXCEPT !.lLastError = "OPEN"] /\ comm' = comm
    BY <1>5 DEF OpenFails, LastError
  <2> QED BY <2>1, <1>3 DEF SerObjects, SettingsKept, GetEventMask
<1>6. ASSUME NEW o \in BOOLEAN, OpenSerial(o)
      PROVE  /\ ser' \in SerObjects /\ comm' \in Comms /\ SettingsKept'
             /\ comm'.own = comm.own /\ comm'.stale \in {0, comm.stale}
  <2>1. PICK masked \in BOOLEAN, nonblocking \in BOOLEAN, configured \in {DefaultDCB, comm.dcb} :
          /\ ser' = [hFile |-> TRUE, hevtOverlapped |-> o,
                     dwEventMask |-> IF masked THEN DefaultMask ELSE ser.dwEventMask,
                     lLastError |-> IF nonblocking THEN "SUCCESS" ELSE "DEVICE"]
          /\ comm' = [comm EXCEPT !.mask = IF masked THEN DefaultMask ELSE {},
                       !.masked = masked, !.blocking = ~nonblocking, !.event = FALSE,
                       !.dcb = configured, !.told = Settings(configured)]
    BY <1>6 DEF OpenSerial
  <2>2. configured \in DCBs /\ Settings(configured) \in {Settings(d) : d \in DCBs}
    BY <1>3, SerDefaults DEF Comms
  <2>3. PICK m \in Masks : m = IF masked THEN DefaultMask ELSE {}
    BY SerDefaults
  <2>4. PICK t \in {Settings(d) : d \in DCBs} : t = Settings(configured)
    BY <2>2
  <2>5. PICK b \in BOOLEAN : b = ~nonblocking
    BY Zenon
  <2>6. comm' = [comm EXCEPT !.mask = m, !.masked = masked, !.blocking = b, !.event = FALSE,
                             !.dcb = configured, !.told = t]
    BY <2>1, <2>3, <2>4, <2>5
  <2>7. /\ comm' \in Comms /\ comm'.dcb = configured /\ comm'.told = t /\ comm'.mask = m
        /\ comm'.masked = masked /\ comm'.own = comm.own /\ comm'.stale = comm.stale
    BY <1>3, <2>2, <2>6 DEF Comms
  <2>8. ser' \in SerObjects /\ ser'.dwEventMask = IF masked THEN DefaultMask ELSE ser.dwEventMask
    BY <2>1, <1>3, SerDefaults DEF SerObjects
  <2> QED BY <2>3, <2>4, <2>7, <2>8 DEF SettingsKept, GetEventMask
<1>7. CASE CloseSerial
  <2>1. /\ ser' = [ser EXCEPT !.hFile = FALSE, !.hevtOverlapped = FALSE, !.lLastError = "SUCCESS"]
        /\ comm' = [comm EXCEPT !.own = "none", !.stale = 0, !.user = FALSE, !.event = FALSE]
    BY <1>7 DEF CloseSerial
  <2>2. /\ comm' \in Comms /\ comm'.dcb = comm.dcb /\ comm'.told = comm.told
        /\ comm'.own = "none" /\ comm'.stale = 0
    BY <2>1, <1>3 DEF Comms
  <2>3. ser' \in SerObjects /\ ~ser'.hFile
    BY <2>1, <1>3 DEF SerObjects
  <2> QED BY <1>3, <2>2, <2>3 DEF SettingsKept
<1>8. CASE Ask
  <2>1. PICK e \in {"SUCCESS", "DEVICE", "INVALID_HANDLE"} :
          ser' = [ser EXCEPT !.lLastError = e] /\ comm' = comm
    BY <1>8 DEF Ask, LastError
  <2> QED BY <2>1, <1>3 DEF SerObjects, SettingsKept, GetEventMask
<1>9. CASE SetMask(DefaultMask)
  <2>1. CASE ser' = [ser EXCEPT !.dwEventMask = DefaultMask, !.lLastError = "SUCCESS"]
             /\ comm' = [comm EXCEPT !.mask = DefaultMask, !.masked = TRUE]
    <3>1. /\ ser' \in SerObjects /\ ser'.dwEventMask = DefaultMask
      BY <2>1, <1>3, SerDefaults DEF SerObjects
    <3>2. /\ comm' \in Comms /\ comm'.mask = DefaultMask /\ comm'.dcb = comm.dcb
          /\ comm'.told = comm.told /\ comm'.own = comm.own /\ comm'.stale = comm.stale
      BY <2>1, <1>3, SerDefaults DEF Comms
    <3> QED BY <1>3, <3>1, <3>2 DEF SettingsKept, GetEventMask
  <2>2. CASE ser' = [ser EXCEPT !.lLastError = "DEVICE"] /\ comm' = comm
    BY <2>2, <1>3 DEF SerObjects, SettingsKept, GetEventMask
  <2> QED BY <1>9, <2>1, <2>2 DEF SetMask, SetCommMask, LastError
<1>10. ASSUME NEW b \in BOOLEAN, SetupReadTimeouts(b)
       PROVE  /\ ser' \in SerObjects /\ comm' \in Comms /\ SettingsKept'
              /\ comm'.own = comm.own /\ comm'.stale \in {0, comm.stale}
  <2>1. PICK e \in {"SUCCESS", "DEVICE"} : ser' = [ser EXCEPT !.lLastError = e]
    BY <1>10 DEF SetupReadTimeouts, LastError
  <2>2. comm' = comm \/ comm' = [comm EXCEPT !.blocking = b]
    BY <1>10 DEF SetupReadTimeouts
  <2>3. ser' \in SerObjects /\ ser'.dwEventMask = ser.dwEventMask /\ ser'.hFile = ser.hFile
    BY <2>1, <1>3 DEF SerObjects
  <2>4. /\ comm' \in Comms /\ comm'.mask = comm.mask /\ comm'.dcb = comm.dcb
        /\ comm'.told = comm.told /\ comm'.own = comm.own /\ comm'.stale = comm.stale
        /\ comm'.masked = comm.masked
    BY <2>2, <1>3 DEF Comms
  <2> QED BY <1>3, <2>3, <2>4 DEF SettingsKept, GetEventMask
<1> QED BY <1>4, <1>5, <1>6, <1>7, <1>8, <1>9, <1>10

\* The change of a setting, from the reading of the control block to its writing.
LEMMA SettingKeeps ==
  ASSUME SerInv, GetCommState \/ ChangeDCB \/ AdjustMask \/ SetCommState
  PROVE  SerInv'
<1>1. /\ ser \in SerObjects /\ comm \in Comms /\ serCall \in SerCalls
      /\ SettingsKept /\ Transferring /\ Changing
  BY DEF SerInv, SerTyped
<1>2. serWorld' = serWorld
  BY DEF GetCommState, ChangeDCB, AdjustMask, SetCommState
<1>3. serCall.pc \in {"get", "change", "mask", "set"} /\ Fits(serCall.op, serCall.arg)
  BY <1>1 DEF GetCommState, ChangeDCB, AdjustMask, SetCommState, SerAt, Changing
<1> DEFINE Kept == /\ ser' \in SerObjects /\ comm' \in Comms /\ serCall' \in SerCalls
                   /\ SettingsKept' /\ comm'.own = comm.own /\ comm'.stale = comm.stale
                   /\ serCall'.op = serCall.op /\ serCall'.arg = serCall.arg
                   /\ serCall'.count = serCall.count /\ serCall'.moved = serCall.moved
                   /\ serCall'.pc \in {"change", "mask", "set", "return"}
<1> SUFFICES Kept /\ Changing'
  BY <1>1, <1>2, <1>3 DEF SerInv, SerTyped, Transferring, SerAt
<1>4. CASE GetCommState
  <2>1. CASE /\ serCall' = [serCall EXCEPT !.dcb = comm.dcb, !.pc = "change"]
             /\ UNCHANGED <<ser, comm>>
    <3>1. comm.dcb \in DCBs
      BY <1>1 DEF Comms
    <3>2. /\ serCall' \in SerCalls /\ serCall'.op = serCall.op /\ serCall'.arg = serCall.arg
          /\ serCall'.count = serCall.count /\ serCall'.moved = serCall.moved
          /\ serCall'.pc = "change" /\ serCall'.dcb = comm.dcb
      BY <2>1, <3>1, <1>1 DEF SerCalls
    <3> QED BY <1>1, <1>3, <2>1, <3>2 DEF Changing, SerAt, SettingsKept, GetEventMask
  <2>2. CASE Quit("DEVICE")
    <3>1. ser' = [ser EXCEPT !.lLastError = "DEVICE"] /\ comm' = comm
          /\ serCall' = [serCall EXCEPT !.pc = "return"]
      BY <2>2 DEF Quit, LastError, SerGo
    <3>2. /\ serCall' \in SerCalls /\ serCall'.op = serCall.op /\ serCall'.arg = serCall.arg
          /\ serCall'.count = serCall.count /\ serCall'.moved = serCall.moved
          /\ serCall'.pc = "return"
      BY <3>1, <1>1 DEF SerCalls
    <3>3. ser' \in SerObjects /\ ser'.hFile = ser.hFile /\ ser'.dwEventMask = ser.dwEventMask
      BY <3>1, <1>1 DEF SerObjects
    <3> QED BY <1>1, <3>1, <3>2, <3>3 DEF Changing, SerAt, SettingsKept, GetEventMask
  <2> QED BY <1>4, <2>1, <2>2 DEF GetCommState
<1>5. CASE ChangeDCB
  <2>1. PICK c : c = SettingOf(serCall.dcb, serCall.op, serCall.arg)
    OBVIOUS
  <2>2. PICK pc \in {"mask", "set"} :
          serCall' = [serCall EXCEPT !.dcb = c, !.pc = pc] /\ UNCHANGED <<ser, comm>>
    BY <1>5, <2>1 DEF ChangeDCB
  <2>3. serCall.dcb = comm.dcb /\ comm.dcb \in DCBs /\ comm.told = Settings(comm.dcb)
    BY <1>1, <1>5 DEF ChangeDCB, Changing, Comms, SettingsKept
  <2>4. c \in DCBs /\ Settings(c) = Accepted(comm.told, serCall.op, serCall.arg)
    BY <1>3, <2>1, <2>3, SettingIsKept
  <2>5. /\ serCall' \in SerCalls /\ serCall'.op = serCall.op /\ serCall'.arg = serCall.arg
        /\ serCall'.count = serCall.count /\ serCall'.moved = serCall.moved
        /\ serCall'.pc = pc /\ serCall'.dcb = c
    BY <2>2, <2>4, <1>1 DEF SerCalls
  <2> QED BY <1>1, <1>3, <2>2, <2>4, <2>5 DEF Changing, SerAt, SettingsKept, GetEventMask
<1>6. CASE AdjustMask
  <2>1. PICK m \in Masks : m = ser.dwEventMask \cup {"RcvEv"}
    BY <1>1, SerDefaults DEF SerObjects
  <2>2. /\ serCall' = [serCall EXCEPT !.pc = "set"] /\ serCall.pc = "mask"
        /\ \/ /\ ser' = [ser EXCEPT !.dwEventMask = m, !.lLastError = "SUCCESS"]
              /\ comm' = [comm EXCEPT !.mask = m, !.masked = TRUE]
           \/ ser' = [ser EXCEPT !.lLastError = "DEVICE"] /\ comm' = comm
    BY <1>6, <2>1 DEF AdjustMask, SetCommMask, LastError, SerGo, GetEventMask, SerAt
  <2>3. /\ serCall' \in SerCalls /\ serCall'.op = serCall.op /\ serCall'.arg = serCall.arg
        /\ serCall'.count = serCall.count /\ serCall'.moved = serCall.moved
        /\ serCall'.pc = "set" /\ serCall'.dcb = serCall.dcb
    BY <2>2, <1>1 DEF SerCalls
  <2>4. CASE /\ ser' = [ser EXCEPT !.dwEventMask = m, !.lLastError = "SUCCESS"]
             /\ comm' = [comm EXCEPT !.mask = m, !.masked = TRUE]
    <3>1. ser' \in SerObjects /\ ser'.dwEventMask = m
      BY <2>4, <1>1 DEF SerObjects
    <3>2. /\ comm' \in Comms /\ comm'.mask = m /\ comm'.dcb = comm.dcb
          /\ comm'.told = comm.told /\ comm'.own = comm.own /\ comm'.stale = comm.stale
      BY <2>4, <1>1 DEF Comms
    <3> QED BY <1>1, <1>3, <2>2, <2>3, <3>1, <3>2 DEF Changing, SerAt, SettingsKept, GetEventMask
  <2>5. CASE ser' = [ser EXCEPT !.lLastError = "DEVICE"] /\ comm' = comm
    <3>1. ser' \in SerObjects /\ ser'.hFile = ser.hFile /\ ser'.dwEventMask = ser.dwEventMask
      BY <2>5, <1>1 DEF SerObjects
    <3> QED BY <1>1, <1>3, <2>2, <2>3, <2>5, <3>1 DEF Changing, SerAt, SettingsKept, GetEventMask
  <2> QED BY <2>2, <2>4, <2>5
<1>7. CASE SetCommState
  <2>1. serCall' = [serCall EXCEPT !.pc = "return", !.dcb = DefaultDCB] /\ serCall.pc = "set"
    BY <1>7 DEF SetCommState, SerAt
  <2>2. /\ serCall' \in SerCalls /\ serCall'.op = serCall.op /\ serCall'.arg = serCall.arg
        /\ serCall'.count = serCall.count /\ serCall'.moved = serCall.moved
        /\ serCall'.pc = "return"
    BY <2>1, <1>1, SerDefaults DEF SerCalls
  <2>3. Changing'
    BY <2>2 DEF Changing, SerAt
  <2>4. CASE /\ comm' = [comm EXCEPT !.dcb = serCall.dcb,
                                     !.told = Accepted(comm.told, serCall.op, serCall.arg)]
             /\ ser' = ser
    <3>1. PICK t : t = Accepted(comm.told, serCall.op, serCall.arg)
      OBVIOUS
    <3>2. serCall.dcb \in DCBs /\ t = Settings(serCall.dcb)
      BY <1>1, <2>1, <3>1 DEF SerCalls, Changing
    <3>3. t \in {Settings(d) : d \in DCBs}
      BY <3>2
    <3>4. comm' = [comm EXCEPT !.dcb = serCall.dcb, !.told = t]
      BY <2>4, <3>1, Zenon
    <3>5. /\ comm' \in Comms /\ comm'.mask = comm.mask /\ comm'.dcb = serCall.dcb
          /\ comm'.told = t /\ comm'.own = comm.own /\ comm'.stale = comm.stale
          /\ comm'.masked = comm.masked
      BY <3>2, <3>3, <3>4, <1>1 DEF Comms
    <3> QED BY <1>1, <2>2, <2>3, <2>4, <3>2, <3>5 DEF SettingsKept, GetEventMask
  <2>5. CASE ser' = [ser EXCEPT !.lLastError = "DEVICE"] /\ comm' = comm
    <3>1. ser' \in SerObjects /\ ser'.hFile = ser.hFile /\ ser'.dwEventMask = ser.dwEventMask
      BY <2>5, <1>1 DEF SerObjects
    <3> QED BY <1>1, <2>2, <2>3, <2>5, <3>1 DEF SettingsKept, GetEventMask
  <2> QED BY <1>7, <2>4, <2>5 DEF SetCommState, LastError
<1> QED BY <1>4, <1>5, <1>6, <1>7

\* The transfer of data, the return and the driver.
LEMMA TransferKeeps ==
  ASSUME SerInv, CheckTransfer \/ SubmitSerial \/ WaitSerial \/ SerialTimeout \/ SerReturn \/ SerDriver
  PROVE  SerInv'
<1>1. /\ ser \in SerObjects /\ comm \in Comms /\ serCall \in SerCalls
      /\ SettingsKept /\ Transferring /\ Changing
  BY DEF SerInv, SerTyped
<1>2. serWorld' = serWorld
  BY DEF CheckTransfer, SubmitSerial, WaitSerial, SerialTimeout, SerReturn, SerDriver,
    DriverAnswers, DriverAnswersLate
<1> DEFINE Obj(e) == ser' = [ser EXCEPT !.lLastError = e]
           Pc(p) == serCall' = [serCall EXCEPT !.pc = p]
           Same == /\ ser' \in SerObjects /\ comm' \in Comms /\ serCall' \in SerCalls
                   /\ ser'.hFile = ser.hFile /\ ser'.dwEventMask = ser.dwEventMask
                   /\ comm'.dcb = comm.dcb /\ comm'.told = comm.told /\ comm'.mask = comm.mask
                   /\ comm'.masked = comm.masked
<1>3. ASSUME NEW e \in {"INVALID_FUNCTION", "DEVICE", "TIMEOUT"}, Obj(e)
      PROVE  ser' \in SerObjects /\ ser'.hFile = ser.hFile /\ ser'.dwEventMask = ser.dwEventMask
  BY <1>3, <1>1 DEF SerObjects
<1>4. ASSUME NEW p \in {"submit", "return", "wait"}, Pc(p)
      PROVE  /\ serCall' \in SerCalls /\ serCall'.pc = p /\ serCall'.op = serCall.op
             /\ serCall'.arg = serCall.arg /\ serCall'.count = serCall.count
             /\ serCall'.moved = serCall.moved
  BY <1>4, <1>1 DEF SerCalls
<1>5. ASSUME Same, serCall'.pc \in {"submit", "return", "wait", "idle"}, Transferring' PROVE SerInv'
  <2>1. Changing'
    BY <1>5 DEF Changing, SerAt
  <2>2. SettingsKept'
    BY <1>5, <1>1 DEF SettingsKept, GetEventMask
  <2> QED BY <1>5, <2>1, <2>2 DEF SerInv, SerTyped
<1>6. CASE CheckTransfer
  <2>1. comm' = comm /\ SerAt("check")
    BY <1>6 DEF CheckTransfer, Quit
  <2>2. CASE Quit("INVALID_FUNCTION")
    <3>1. Obj("INVALID_FUNCTION") /\ Pc("return")
      BY <2>2 DEF Quit, LastError, SerGo
    <3>2. Same /\ serCall'.pc = "return" /\ Transferring'
      BY <1>1, <1>2, <1>3, <1>4, <2>1, <3>1 DEF Transferring, SerAt
    <3> QED BY <1>5, <3>2
  <2>3. CASE SerGo("submit") /\ ser' = ser
    <3>1. Pc("submit")
      BY <2>3 DEF SerGo
    <3>2. Same /\ serCall'.pc = "submit" /\ Transferring'
      BY <1>1, <1>2, <1>4, <2>1, <2>3, <3>1 DEF Transferring, SerAt
    <3> QED BY <1>5, <3>2
  <2> QED BY <1>6, <2>2, <2>3 DEF CheckTransfer
<1>7. CASE SubmitSerial
  <2>0. SerAt("submit")
    BY <1>7 DEF SubmitSerial
  <2>1. ASSUME NEW n \in {0, 1}, ser' = ser,
               serCall' = [serCall EXCEPT !.pc = "return", !.count = n, !.moved = n],
               NEW b \in BOOLEAN, comm' = [comm EXCEPT !.event = b]
        PROVE  SerInv'
    <3>1. /\ serCall' \in SerCalls /\ serCall'.pc = "return" /\ serCall'.count = n
          /\ serCall'.moved = n
      BY <2>1, <1>1 DEF SerCalls
    <3>2. /\ comm' \in Comms /\ comm'.dcb = comm.dcb /\ comm'.told = comm.told
          /\ comm'.mask = comm.mask /\ comm'.masked = comm.masked /\ comm'.own = comm.own
          /\ comm'.stale = comm.stale
      BY <2>1, <1>1 DEF Comms
    <3>3. Same /\ Transferring'
      BY <1>1, <1>2, <2>0, <2>1, <3>1, <3>2 DEF Transferring, SerAt
    <3> QED BY <1>5, <3>1, <3>3
  <2>2. CASE Quit("DEVICE")
    <3>1. Obj("DEVICE") /\ Pc("return") /\ comm' = comm
      BY <2>2 DEF Quit, LastError, SerGo
    <3>2. Same /\ serCall'.pc = "return" /\ Transferring'
      BY <1>1, <1>2, <1>3, <1>4, <2>0, <3>1 DEF Transferring, SerAt
    <3> QED BY <1>5, <3>2
  <2>3. CASE comm' = [comm EXCEPT !.user = TRUE] /\ SerGo("return") /\ ser' = ser
    <3>1. /\ comm' \in Comms /\ comm'.dcb = comm.dcb /\ comm'.told = comm.told
          /\ comm'.mask = comm.mask /\ comm'.masked = comm.masked /\ comm'.own = comm.own
          /\ comm'.stale = comm.stale
      BY <2>3, <1>1 DEF Comms
    <3>2. Pc("return")
      BY <2>3 DEF SerGo
    <3>3. Same /\ serCall'.pc = "return" /\ Transferring'
      BY <1>1, <1>2, <1>4, <2>0, <2>3, <3>1, <3>2 DEF Transferring, SerAt
    <3> QED BY <1>5, <3>3
  <2>4. CASE comm' = Took(comm) /\ SerGo("wait") /\ ser' = ser
    <3>1. /\ comm' \in Comms /\ comm'.dcb = comm.dcb /\ comm'.told = comm.told
          /\ comm'.mask = comm.mask /\ comm'.masked = comm.masked /\ comm'.own = "pending"
          /\ comm'.stale = comm.stale /\ comm'.event = FALSE
      BY <2>4, <1>1 DEF Comms, Took
    <3>2. Pc("wait")
      BY <2>4 DEF SerGo
    <3>5. ~serWorld.timeouts => serCall.count = 0 /\ serCall.moved = 0
      BY <1>1, <2>0 DEF Transferring, SerAt
    <3>3. Same /\ serCall'.pc = "wait" /\ Transferring'
      BY <1>1, <1>2, <1>4, <2>0, <2>4, <3>1, <3>2, <3>5 DEF Transferring, SerAt
    <3> QED BY <1>5, <3>3
  <2>5. \E b \in BOOLEAN : b = (comm.event \/ ~serCall.arg[1])
    BY Zenon
  <2> QED BY <1>7, <2>1, <2>2, <2>3, <2>4, <2>5 DEF SubmitSerial
<1>8. CASE WaitSerial
  <2>0. SerAt("wait") /\ comm.event
    BY <1>8 DEF WaitSerial
  <2>1. CASE /\ serCall' = [serCall EXCEPT !.pc = "return", !.count = serCall.moved]
             /\ comm' = [comm EXCEPT !.own = "none"] /\ ser' = ser
    <3>1. /\ serCall' \in SerCalls /\ serCall'.pc = "return" /\ serCall'.count = serCall.moved
          /\ serCall'.moved = serCall.moved
      BY <2>1, <1>1 DEF SerCalls
    <3>2. /\ comm' \in Comms /\ comm'.dcb = comm.dcb /\ comm'.told = comm.told
          /\ comm'.mask = comm.mask /\ comm'.masked = comm.masked /\ comm'.own = "none"
          /\ comm'.stale = comm.stale
      BY <2>1, <1>1 DEF Comms
    <3>3. Same /\ Transferring'
      BY <1>1, <1>2, <2>0, <2>1, <3>1, <3>2 DEF Transferring, SerAt
    <3> QED BY <1>5, <3>1, <3>3
  <2>2. CASE /\ comm.own # "done" /\ LastError("DEVICE") /\ SerGo("return")
             /\ comm' = [comm EXCEPT !.own = "none",
                                     !.stale = IF comm.own = "pending" THEN @ + 1 ELSE @]
    <3>1. PICK k \in Nat : k = IF comm.own = "pending" THEN comm.stale + 1 ELSE comm.stale
      BY <1>1 DEF Comms
    <3>2. comm' = [comm EXCEPT !.own = "none", !.stale = k]
      BY <2>2, <3>1
    <3>3. /\ comm' \in Comms /\ comm'.dcb = comm.dcb /\ comm'.told = comm.told
          /\ comm'.mask = comm.mask /\ comm'.masked = comm.masked /\ comm'.own = "none"
          /\ comm'.stale = k
      BY <3>2, <1>1 DEF Comms
    <3>4. Obj("DEVICE") /\ Pc("return")
      BY <2>2 DEF LastError, SerGo
    <3>5. ~serWorld.timeouts => k = comm.stale /\ serCall.moved = 0 /\ serCall.count = 0
      BY <1>1, <2>0, <2>2, <3>1 DEF Transferring
    <3>6. Same /\ serCall'.pc = "return" /\ Transferring'
      BY <1>1, <1>2, <1>3, <1>4, <2>0, <3>3, <3>4, <3>5 DEF Transferring, SerAt
    <3> QED BY <1>5, <3>6
  <2> QED BY <1>8, <2>1, <2>2 DEF WaitSerial
<1>9. CASE SerialTimeout
  <2>1. /\ serWorld.timeouts /\ Obj("TIMEOUT") /\ Pc("return")
        /\ comm' = [comm EXCEPT !.own = "none", !.stale = comm.stale + 1]
    BY <1>9 DEF SerialTimeout, LastError, SerGo
  <2>2. PICK k \in Nat : k = comm.stale + 1
    BY <1>1 DEF Comms
  <2>3. /\ comm' \in Comms /\ comm'.dcb = comm.dcb /\ comm'.told = comm.told
        /\ comm'.mask = comm.mask /\ comm'.masked = comm.masked
    BY <2>1, <2>2, <1>1 DEF Comms
  <2>4. Same /\ serCall'.pc = "return" /\ Transferring'
    BY <1>2, <1>3, <1>4, <2>1, <2>3 DEF Transferring
  <2> QED BY <1>5, <2>4
<1>10. CASE SerReturn
  <2>1. SerAt("return") /\ serCall' = NoSerCall /\ ser' = ser /\ comm' = comm
    BY <1>10 DEF SerReturn
  <2>2. serCall' \in SerCalls /\ serCall'.pc = "idle" /\ serCall'.count = 0 /\ serCall'.moved = 0
    BY <2>1, SerDefaults DEF NoSerCall
  <2>3. Same /\ Transferring'
    BY <1>1, <1>2, <2>1, <2>2 DEF Transferring, SerAt
  <2> QED BY <1>5, <2>2, <2>3
<1>11. CASE DriverAnswers
  <2>1. comm.own = "pending" /\ ser' = ser
    BY <1>11 DEF DriverAnswers
  <2>2. CASE comm' = [comm EXCEPT !.own = "failed", !.event = TRUE] /\ serCall' = serCall
    <3>1. /\ comm' \in Comms /\ comm'.dcb = comm.dcb /\ comm'.told = comm.told
          /\ comm'.mask = comm.mask /\ comm'.masked = comm.masked /\ comm'.own = "failed"
          /\ comm'.stale = comm.stale
      BY <2>2, <1>1 DEF Comms
    <3>2. Transferring'
      BY <1>1, <1>2, <2>1, <2>2, <3>1 DEF Transferring, SerAt
    <3>3. Changing' /\ SettingsKept'
      BY <1>1, <2>1, <2>2, <3>1 DEF Changing, SerAt, SettingsKept, GetEventMask
    <3> QED BY <1>1, <2>1, <2>2, <3>1, <3>2, <3>3 DEF SerInv, SerTyped
  <2>3. ASSUME NEW n \in {0, 1}, serCall' = [serCall EXCEPT !.moved = n],
               comm' = [comm EXCEPT !.own = "done", !.event = TRUE]
        PROVE  SerInv'
    <3>1. /\ comm' \in Comms /\ comm'.dcb = comm.dcb /\ comm'.told = comm.told
          /\ comm'.mask = comm.mask /\ comm'.masked = comm.masked /\ comm'.own = "done"
          /\ comm'.stale = comm.stale
      BY <2>3, <1>1 DEF Comms
    <3>2. /\ serCall' \in SerCalls /\ serCall'.pc = serCall.pc /\ serCall'.op = serCall.op
          /\ serCall'.arg = serCall.arg /\ serCall'.dcb = serCall.dcb
          /\ serCall'.count = serCall.count
      BY <2>3, <1>1 DEF SerCalls
    <3>3. Transferring'
      BY <1>1, <1>2, <2>1, <3>1, <3>2 DEF Transferring, SerAt
    <3>4. Changing' /\ SettingsKept'
      BY <1>1, <2>1, <3>1, <3>2 DEF Changing, SerAt, SettingsKept, GetEventMask
    <3> QED BY <1>1, <2>1, <3>1, <3>2, <3>3, <3>4 DEF SerInv, SerTyped
  <2> QED BY <1>11, <2>2, <2>3 DEF DriverAnswers
<1>12. CASE DriverAnswersLate
  <2>1. ser' = ser /\ serCall' = serCall
    BY <1>12 DEF DriverAnswersLate
  <2>2. /\ comm' \in Comms /\ comm'.dcb = comm.dcb /\ comm'.told = comm.told
        /\ comm'.mask = comm.mask /\ comm'.masked = comm.masked /\ comm'.own = comm.own
        /\ comm.stale = 0 => comm'.stale = 0 /\ comm'.event = comm.event
    <3>1. CASE comm.stale > 0 /\ comm' = [comm EXCEPT !.stale = comm.stale - 1, !.event = TRUE]
      <4>1. PICK k \in Nat : k = comm.stale - 1
        BY <3>1, <1>1 DEF Comms
      <4>2. comm' = [comm EXCEPT !.stale = k, !.event = TRUE]
        BY <3>1, <4>1
      <4>3. comm.stale # 0
        BY <3>1
      <4> QED BY <4>2, <4>3, <1>1 DEF Comms
    <3>2. CASE comm' = [comm EXCEPT !.user = FALSE]
      BY <3>2, <1>1 DEF Comms
    <3> QED BY <1>12, <3>1, <3>2 DEF DriverAnswersLate
  <2>3. Transferring'
    BY <1>1, <1>2, <2>1, <2>2 DEF Transferring, SerAt
  <2>4. Changing' /\ SettingsKept'
    BY <1>1, <2>1, <2>2 DEF Changing, SerAt, SettingsKept, GetEventMask
  <2> QED BY <1>1, <2>1, <2>2, <2>3, <2>4 DEF SerInv, SerTyped
<1> QED BY <1>6, <1>7, <1>8, <1>9, <1>10, <1>11, <1>12 DEF SerDriver

\* Every step of the caller and of the driver keeps the invariant.
LEMMA SerNextInv == SerInv /\ [SerNext]_serVars => SerInv'
<1> SUFFICES ASSUME SerInv, [SerNext]_serVars PROVE SerInv'
  OBVIOUS
<1>1. CASE BeginSetting
  <2>1. ASSUME NEW line \in SetupArguments, Begin("Setup", "get", line) PROVE SerInv'
    BY <2>1, SerialBegins DEF SettingOps, SerArgs, Fits
  <2>2. ASSUME NEW c \in EventChars, NEW adjust \in BOOLEAN,
               Begin("SetEventChar", "get", <<c, adjust>>)
        PROVE  SerInv'
    BY <2>2, SerialBegins DEF SettingOps, SerArgs, Fits
  <2>3. ASSUME NEW h \in Handshakes, Begin("SetupHandshaking", "get", <<h>>) PROVE SerInv'
    BY <2>3, SerialBegins DEF SettingOps, SerArgs, Fits
  <2> QED BY <1>1, <2>1, <2>2, <2>3 DEF BeginSetting
<1>2. ASSUME NEW op \in {"WaitEvent", "Write", "Read"}, NEW given \in BOOLEAN,
             BeginTransfer(op, given)
      PROVE  SerInv'
  BY <1>2, SerialBegins DEF BeginTransfer, TransferOps, SerArgs
<1>3. CASE UNCHANGED serVars
  BY <1>3 DEF serVars, SerInv, SerTyped, Changing, Transferring, SerAt, SettingsKept, GetEventMask
<1> QED BY <1>1, <1>2, <1>3, OutsideKeeps, SettingKeeps, TransferKeeps DEF SerNext, SerUser, SerStep

\* The invariant holds throughout, whatever the uses of the port.
THEOREM SerialInvariant == SerSpec => []SerInv
BY SerInitInv, SerNextInv, PTL DEF SerSpec

\* What the invariant says to the user of the port.
LEMMA SerialSound == SerInv => SettingsKept /\ SerialOutcome
<1> SUFFICES ASSUME SerInv PROVE SettingsKept /\ SerialOutcome
  OBVIOUS
<1>1. SerialOutcome
  BY DEF SerInv, Transferring, SerAt, SerialOutcome
<1> QED BY <1>1 DEF SerInv

------------------------------------------------------------------------------
\* TLUSB_BASE.

UsbPCs == {"idle", "try", "loop", "acquire", "submit", "wait", "result", "length", "release",
           "return"}
\* From the mutex to its release.
Inside == {"submit", "wait", "result", "length", "release"}

\* Types and ranges.
UsbPipes == [holder : usbWorld.callers \cup {Nobody},
             status : {"none", "pending", "done", "failed"}, count : Nat,
             event : BOOLEAN, current : BOOLEAN, stale : Nat]
UsbCalls == [pc : UsbPCs, op : {"none", "OpenLDeviceAny", "Transfer", "Control"}, pipe : Pipes,
             len : Nat, total : Nat, sent : Nat, bytes : Nat, moved : Nat, late : BOOLEAN,
             tried : Nat]
UsbTyped ==
  /\ usbWorld \in UsbWorlds
  /\ lusb \in [hDevice : BOOLEAN, LastErrorNumber : UsbErrors]
  /\ usbPipe \in [Pipes -> UsbPipes]
  /\ usbCall \in [usbWorld.callers -> UsbCalls]

\* The mutex of a pipe: who is between its taking and its release holds it.
MutexHeld(call, pipe, c) ==
  /\ call[c].pc \in Inside => pipe[call[c].pipe].holder = c
  /\ \A p \in Pipes : pipe[p].holder = c => call[c].pc \in Inside /\ call[c].pipe = p

\* How far the request of the call has come with the driver, if none is ever abandoned.
RequestOf(k, p) ==
  /\ k.pc = "submit" => ~p.current
  /\ k.pc = "wait" => IF p.current THEN ~p.event /\ p.status = "pending"
                      ELSE p.status \in {"done", "failed"}
  /\ k.pc = "result" => ~p.current /\ p.status \in {"done", "failed"}
  /\ k.pc \in {"length", "release"} => ~p.current
  /\ k.pc \in {"acquire", "submit"} => k.moved = 0
  /\ k.pc \in {"acquire", "submit", "wait", "result"} => k.bytes = 0
  /\ k.pc \in {"wait", "result"} => k.moved = IF p.status = "done" THEN p.count ELSE 0
  /\ k.pc \in {"length", "release", "return"} => k.bytes = k.moved
RequestsGoOn ==
  ~usbWorld.timeouts =>
    /\ \A p \in Pipes : usbPipe[p].stale = 0
    /\ \A p \in Pipes : usbPipe[p].holder = Nobody => ~usbPipe[p].current
    /\ \A c \in usbWorld.callers : RequestOf(usbCall[c], usbPipe[usbCall[c].pipe])

\* The lengths, and how far ReadControl and WriteControl have come in their buffer.
MultipleOf(n, size) == \E q \in Nat : n = q * size
PieceOf(k) == k.len = ControlSize(k.total)
Pieces(k) == k.total <= MaxTransfer \/ k.total % MaxTransfer = 0
WithinBuffer(k) ==
  /\ k.pc \in Inside \cup {"acquire", "return"} => k.len # 0 /\ k.op \in {"Transfer", "Control"}
  /\ k.pc = "loop" => k.op = "Control"
  /\ k.op = "Control" =>
       /\ k.total # 0
       /\ k.pc \in Inside \cup {"acquire", "return", "loop"}
       /\ k.pc # "loop" => PieceOf(k)
       /\ Pieces(k) => /\ MultipleOf(k.sent, ControlSize(k.total))
                       /\ k.pc # "loop" => k.sent + ControlSize(k.total) <= k.total

\* What LastErrorNumber says if nobody else uses the object.
ErrorTold(k, e) ==
  /\ k.pc \in {"submit", "wait", "result"} => e = "OK"
  /\ k.pc = "length" => (k.bytes = k.len => e = "OK")
  /\ k.pc \in {"release", "return"} /\ k.pipe # "read" => (e = "OK" <=> k.bytes = k.len)
ErrorsTold ==
  Alone /\ ~usbWorld.timeouts =>
    \A c \in usbWorld.callers : ErrorTold(usbCall[c], lusb.LastErrorNumber)

\* The inductive invariant of the USB object.
UsbInv ==
  /\ UsbTyped
  /\ \A c \in usbWorld.callers : MutexHeld(usbCall, usbPipe, c)
  /\ RequestsGoOn
  /\ \A c \in usbWorld.callers : WithinBuffer(usbCall[c])
  /\ ErrorsTold

\* A caller that is alone.
LEMMA AloneIs ==
  ASSUME usbWorld \in UsbWorlds, Alone, NEW c \in usbWorld.callers
  PROVE  usbWorld.callers = {c}
<1>1. IsFiniteSet(usbWorld.callers)
  BY UsbCallersAssumption
<1>2. PICK x : usbWorld.callers = {x}
  BY <1>1, FS_Singleton DEF Alone
<1> QED BY <1>2

\* What the pieces of a buffer come to: another one fits.
LEMMA ControlSizes ==
  ASSUME NEW total \in Nat, total # 0
  PROVE  ControlSize(total) \in Nat /\ ControlSize(total) # 0 /\ ControlSize(total) <= total
BY UsbAssumption DEF ControlSize

\* What is left of a buffer of whole pieces holds another piece.
LEMMA PieceFits ==
  ASSUME NEW total \in Nat, total # 0, NEW sent \in Nat, sent < total,
         total <= MaxTransfer \/ total % MaxTransfer = 0, MultipleOf(sent, ControlSize(total))
  PROVE  sent + ControlSize(total) <= total
<1>1. PICK q \in Nat : sent = q * ControlSize(total)
  BY DEF MultipleOf
<1>2. MaxTransfer \in Nat /\ MaxTransfer # 0
  BY UsbAssumption
<1>3. CASE total <= MaxTransfer
  <2>1. ControlSize(total) = total
    BY <1>2, <1>3 DEF ControlSize
  <2>2. q = 0
    <3>1. SUFFICES ASSUME q # 0 PROVE FALSE
      OBVIOUS
    <3>2. PICK r \in Nat : q = r + 1
      <4>1. q - 1 \in Nat /\ q = (q - 1) + 1
        BY <3>1
      <4> QED BY <4>1
    <3>3. sent = r * total + total /\ r * total \in Nat
      BY <1>1, <2>1, <3>2
    <3> QED BY <3>3
  <2> QED BY <1>1, <2>1, <2>2
<1>4. CASE ~(total <= MaxTransfer) /\ total % MaxTransfer = 0
  <2>1. ControlSize(total) = MaxTransfer
    BY <1>2, <1>4 DEF ControlSize
  <2>2. PICK m \in Nat : total = m * MaxTransfer
    <3>1. total \div MaxTransfer \in Nat
          /\ total = MaxTransfer * (total \div MaxTransfer) + (total % MaxTransfer)
      BY <1>2
    <3>2. total = (total \div MaxTransfer) * MaxTransfer
      BY <1>2, <1>4, <3>1
    <3> QED BY <3>1, <3>2
  <2>3. q + 1 <= m
    <3>1. SUFFICES ASSUME ~(q + 1 <= m) PROVE FALSE
      OBVIOUS
    <3>2. PICK r \in Nat : q = m + r
      <4>1. q - m \in Nat /\ q = m + (q - m)
        BY <3>1
      <4> QED BY <4>1
    <3>3. sent = m * MaxTransfer + r * MaxTransfer /\ r * MaxTransfer \in Nat
      BY <1>1, <1>2, <2>1, <3>2
    <3> QED BY <2>2, <3>3
  <2>4. PICK r \in Nat : m = (q + 1) + r
    <3>1. m - (q + 1) \in Nat /\ m = (q + 1) + (m - (q + 1))
      BY <2>3
    <3> QED BY <3>1
  <2>5. total = q * MaxTransfer + MaxTransfer + r * MaxTransfer /\ r * MaxTransfer \in Nat
    BY <1>2, <2>2, <2>4
  <2> QED BY <1>1, <1>2, <2>1, <2>5
<1> QED BY <1>3, <1>4

\* ... and when it was sent, whole pieces are left.
LEMMA PieceSent ==
  ASSUME NEW size \in Nat, NEW sent \in Nat, MultipleOf(sent, size)
  PROVE  MultipleOf(sent + size, size)
<1>1. PICK q \in Nat : sent = q * size
  BY DEF MultipleOf
<1>2. q + 1 \in Nat /\ sent + size = (q + 1) * size
  BY <1>1
<1> QED BY <1>2 DEF MultipleOf

\* What the invariant says of one caller and its pipe.
LEMMA UsbTypes ==
  ASSUME UsbInv, NEW c \in usbWorld.callers
  PROVE  /\ usbWorld \in UsbWorlds /\ c # Nobody
         /\ lusb \in [hDevice : BOOLEAN, LastErrorNumber : UsbErrors]
         /\ usbCall \in [usbWorld.callers -> UsbCalls] /\ usbPipe \in [Pipes -> UsbPipes]
         /\ usbCall[c] \in UsbCalls /\ usbCall[c].pipe \in Pipes
         /\ usbPipe[usbCall[c].pipe] \in UsbPipes
<1>1. usbCall[c] \in UsbCalls
  BY DEF UsbInv, UsbTyped
<1>2. usbCall[c].pipe \in Pipes
  BY <1>1 DEF UsbCalls
<1> QED BY <1>1, <1>2, UsbCallersAssumption DEF UsbInv, UsbTyped

\* A step of a caller that is outside of the mutex and stays there.
OutsideStep(c, k, e) ==
  /\ usbWorld' = usbWorld /\ usbPipe' = usbPipe
  /\ lusb' \in [hDevice : BOOLEAN, LastErrorNumber : UsbErrors] /\ lusb'.LastErrorNumber = e
  /\ usbCall' = [usbCall EXCEPT ![c] = k] /\ k \in UsbCalls
  /\ usbCall[c].pc \notin Inside /\ k.pc \notin Inside
  /\ WithinBuffer(k)
  /\ ~usbWorld.timeouts => RequestOf(k, usbPipe[k.pipe])
  /\ Alone /\ ~usbWorld.timeouts => ErrorTold(k, e)

\* A step of a caller that holds no mutex, neither before nor after.
LEMMA OutsideStepKeeps ==
  ASSUME UsbInv, NEW c \in usbWorld.callers, NEW k, NEW e, OutsideStep(c, k, e)
  PROVE  UsbInv'
<1>1. UsbTyped'
  <2>1. usbWorld' = usbWorld /\ UsbPipes' = UsbPipes
    BY DEF OutsideStep, UsbPipes
  <2>2. usbCall' \in [usbWorld.callers -> UsbCalls]
    BY UsbTypes DEF OutsideStep
  <2> QED BY <2>1, <2>2, UsbTypes DEF OutsideStep, UsbTyped
<1>2. ASSUME NEW d \in usbWorld.callers PROVE usbCall'[d] = IF d = c THEN k ELSE usbCall[d]
  BY UsbTypes DEF OutsideStep
<1>3. usbWorld' = usbWorld /\ usbPipe' = usbPipe /\ k \in UsbCalls /\ lusb'.LastErrorNumber = e
  BY DEF OutsideStep
<1>4. ASSUME NEW d \in usbWorld.callers PROVE MutexHeld(usbCall', usbPipe', d)
  <2>1. MutexHeld(usbCall, usbPipe, d)
    BY DEF UsbInv
  <2> QED BY <1>2, <1>3, <2>1 DEF MutexHeld, OutsideStep
<1>5. RequestsGoOn'
  BY <1>2, <1>3 DEF UsbInv, RequestsGoOn, OutsideStep
<1>6. \A d \in usbWorld.callers : WithinBuffer(usbCall'[d])
  BY <1>2 DEF UsbInv, OutsideStep
<1>7. ErrorsTold'
  <2> SUFFICES ASSUME Alone, ~usbWorld.timeouts, NEW d \in usbWorld.callers
               PROVE  ErrorTold(usbCall'[d], e)
    BY <1>3 DEF ErrorsTold, Alone
  <2>1. d = c
    BY AloneIs, UsbTypes
  <2> QED BY <1>2, <2>1 DEF OutsideStep
<1> QED BY <1>1, <1>3, <1>4, <1>5, <1>6, <1>7 DEF UsbInv

\* A step of a caller with a pipe: it has the mutex, or takes it.
InsideStep(c, k, q, e) ==
  /\ usbWorld' = usbWorld
  /\ lusb' \in [hDevice : BOOLEAN, LastErrorNumber : UsbErrors] /\ lusb'.LastErrorNumber = e
  /\ usbCall' = [usbCall EXCEPT ![c] = k] /\ k \in UsbCalls /\ k.pipe = usbCall[c].pipe
  /\ usbPipe' = [usbPipe EXCEPT ![k.pipe] = q] /\ q \in UsbPipes
  /\ usbPipe[k.pipe].holder \in {c, Nobody}
  /\ q.holder = IF k.pc \in Inside THEN c ELSE Nobody
  /\ WithinBuffer(k)
  /\ ~usbWorld.timeouts =>
       /\ q.stale = 0 /\ (q.holder = Nobody => ~q.current)
       /\ RequestOf(k, q)
  /\ Alone /\ ~usbWorld.timeouts => ErrorTold(k, e)

\* A step of the caller that holds the mutex of its pipe.
LEMMA InsideStepKeeps ==
  ASSUME UsbInv, NEW c \in usbWorld.callers, NEW k, NEW q, NEW e, InsideStep(c, k, q, e)
  PROVE  UsbInv'
<1>0. k.pipe \in Pipes /\ c # Nobody /\ usbPipe \in [Pipes -> UsbPipes]
  BY UsbTypes DEF InsideStep
<1>1. UsbTyped'
  <2>1. usbWorld' = usbWorld /\ UsbPipes' = UsbPipes
    BY DEF InsideStep, UsbPipes
  <2>2. usbCall' \in [usbWorld.callers -> UsbCalls]
    BY UsbTypes DEF InsideStep
  <2>3. usbPipe' \in [Pipes -> UsbPipes]
    BY <1>0 DEF InsideStep
  <2> QED BY <2>1, <2>2, <2>3, UsbTypes DEF InsideStep, UsbTyped
<1>2. ASSUME NEW d \in usbWorld.callers PROVE usbCall'[d] = IF d = c THEN k ELSE usbCall[d]
  BY UsbTypes DEF InsideStep
<1>3. ASSUME NEW p \in Pipes PROVE usbPipe'[p] = IF p = k.pipe THEN q ELSE usbPipe[p]
  BY <1>0 DEF InsideStep
<1>4. usbWorld' = usbWorld /\ k \in UsbCalls /\ lusb'.LastErrorNumber = e
  BY DEF InsideStep
<1>5. ASSUME NEW d \in usbWorld.callers PROVE MutexHeld(usbCall, usbPipe, d) /\ d # Nobody
  BY UsbTypes DEF UsbInv
<1>6. ASSUME NEW d \in usbWorld.callers, d # c, usbCall[d].pc \in Inside
      PROVE  usbCall[d].pipe # k.pipe
  BY <1>0, <1>5, <1>6 DEF MutexHeld, InsideStep
<1>7. ASSUME NEW d \in usbWorld.callers PROVE MutexHeld(usbCall', usbPipe', d)
  <2>1. CASE d = c
    <3>1. \A p \in Pipes \ {k.pipe} : usbPipe[p].holder # c
      BY <1>5 DEF MutexHeld, InsideStep
    <3> QED BY <1>0, <1>2, <1>3, <2>1, <3>1 DEF MutexHeld, InsideStep
  <2>2. CASE d # c
    <3>1. usbCall'[d] = usbCall[d] /\ usbCall[d].pipe \in Pipes
      BY <1>2, <2>2, UsbTypes
    <3>2. q.holder # d /\ usbPipe[k.pipe].holder # d
      BY <1>5, <2>2 DEF InsideStep
    <3> QED BY <1>0, <1>3, <1>5, <1>6, <2>2, <3>1, <3>2 DEF MutexHeld
  <2> QED BY <2>1, <2>2
<1>8. RequestsGoOn'
  <2> SUFFICES ASSUME ~usbWorld.timeouts
               PROVE  /\ \A p \in Pipes : usbPipe'[p].stale = 0
                      /\ \A p \in Pipes : usbPipe'[p].holder = Nobody => ~usbPipe'[p].current
                      /\ \A d \in usbWorld.callers : RequestOf(usbCall'[d], usbPipe'[usbCall'[d].pipe])
    BY <1>4 DEF RequestsGoOn
  <2>1. ASSUME NEW p \in Pipes
        PROVE  usbPipe'[p].stale = 0 /\ (usbPipe'[p].holder = Nobody => ~usbPipe'[p].current)
    BY <1>3 DEF UsbInv, RequestsGoOn, InsideStep
  <2>2. ASSUME NEW d \in usbWorld.callers PROVE RequestOf(usbCall'[d], usbPipe'[usbCall'[d].pipe])
    <3>1. CASE d = c
      BY <1>0, <1>2, <1>3, <3>1 DEF InsideStep
    <3>2. CASE d # c
      <4>1. usbCall'[d] = usbCall[d] /\ usbCall[d].pipe \in Pipes
        BY <1>2, <3>2, UsbTypes
      <4>2. RequestOf(usbCall[d], usbPipe[usbCall[d].pipe])
        BY DEF UsbInv, RequestsGoOn
      <4>3. CASE usbCall[d].pipe = k.pipe
        <5>1. usbCall[d].pc \notin Inside
          BY <1>6, <3>2, <4>3
        <5> QED BY <4>1, <4>2, <5>1 DEF RequestOf, Inside
      <4>4. CASE usbCall[d].pipe # k.pipe
        BY <1>3, <4>1, <4>2, <4>4
      <4> QED BY <4>3, <4>4
    <3> QED BY <3>1, <3>2
  <2> QED BY <2>1, <2>2
<1>9. \A d \in usbWorld.callers : WithinBuffer(usbCall'[d])
  BY <1>2 DEF UsbInv, InsideStep
<1>10. ErrorsTold'
  <2> SUFFICES ASSUME Alone, ~usbWorld.timeouts, NEW d \in usbWorld.callers
               PROVE  ErrorTold(usbCall'[d], e)
    BY <1>4 DEF ErrorsTold, Alone
  <2>1. d = c
    BY AloneIs, UsbTypes
  <2> QED BY <1>2, <2>1 DEF InsideStep
<1> QED BY <1>1, <1>4, <1>7, <1>8, <1>9, <1>10 DEF UsbInv

\* The steps outside of the mutex.
LEMMA ErrorsAre ==
  /\ \A e \in {"OK", "CLOSE", "CANCEL", "CLOSED", "OPEN", "DATA", "TIMEOUT", "ASYNC", "LENGTH",
               "WARNING"} : e \in UsbErrors
  /\ NoUsbCall \in UsbCalls
<1>1. NoUsbCall \in UsbCalls
  BY DEF NoUsbCall, UsbCalls, UsbPCs, Pipes
<1> QED BY <1>1 DEF UsbErrors

\* A caller that is idle, after any step that does not concern a pipe.
LEMMA IdleKeeps ==
  ASSUME UsbInv, NEW c \in usbWorld.callers, usbCall[c].pc \notin Inside,
         usbWorld' = usbWorld, usbPipe' = usbPipe,
         lusb' \in [hDevice : BOOLEAN, LastErrorNumber : UsbErrors],
         usbCall' = [usbCall EXCEPT ![c] = NoUsbCall] \/ (usbCall[c].pc = "idle" /\ usbCall' = usbCall)
  PROVE  UsbInv'
<1>1. PICK e : lusb'.LastErrorNumber = e
  OBVIOUS
<1>2. CASE usbCall' = [usbCall EXCEPT ![c] = NoUsbCall]
  <2>1. NoUsbCall \in UsbCalls /\ NoUsbCall.pc = "idle" /\ NoUsbCall.op = "none"
    BY ErrorsAre DEF NoUsbCall
  <2>2. WithinBuffer(NoUsbCall) /\ ErrorTold(NoUsbCall, e)
    BY <2>1 DEF WithinBuffer, ErrorTold, Inside
  <2>3. \A p : RequestOf(NoUsbCall, p)
    BY <2>1 DEF RequestOf
  <2>4. OutsideStep(c, NoUsbCall, e)
    BY <1>1, <1>2, <2>1, <2>2, <2>3 DEF OutsideStep, Inside
  <2> QED BY <2>4, OutsideStepKeeps
<1>3. CASE usbCall[c].pc = "idle" /\ usbCall' = usbCall
  <2>1. usbCall' = [usbCall EXCEPT ![c] = usbCall[c]]
    BY <1>3, UsbTypes
  <2>2. WithinBuffer(usbCall[c]) /\ ErrorTold(usbCall[c], e)
    BY <1>3 DEF UsbInv, ErrorTold
  <2>3. \A p : RequestOf(usbCall[c], p)
    BY <1>3 DEF RequestOf
  <2>4. OutsideStep(c, usbCall[c], e)
    BY <1>1, <1>3, <2>1, <2>2, <2>3, UsbTypes DEF OutsideStep
  <2> QED BY <2>4, OutsideStepKeeps
<1> QED BY <1>2, <1>3

\* A caller opens or closes a device, cancels, or calls.
LEMMA UserKeeps ==
  ASSUME UsbInv, NEW c \in usbWorld.callers, UsbUser(c)
  PROVE  UsbInv'
<1> USE UsbTypes
<1>0. UsbAt(c, "idle") /\ usbCall[c].pc = "idle" /\ usbWorld' = usbWorld /\ usbPipe' = usbPipe
  BY DEF UsbUser, CloseLDevice, UserCancelIo, OpenLDevice, Transfer, OpenLDeviceAny, ControlLoop, UsbAt
<1>1. PICK e : e = lusb'.LastErrorNumber
  OBVIOUS
<1>2. CASE CloseLDevice(c) \/ UserCancelIo(c) \/ OpenLDevice(c)
  <2>1. usbCall' = usbCall
    BY <1>2 DEF CloseLDevice, UserCancelIo, OpenLDevice
  <2>2. lusb' \in [hDevice : BOOLEAN, LastErrorNumber : UsbErrors]
    <3>1. CASE CloseLDevice(c)
      BY <3>1, ErrorsAre DEF CloseLDevice
    <3>2. CASE UserCancelIo(c)
      BY <3>2, ErrorsAre DEF UserCancelIo, Error
    <3>3. CASE OpenLDevice(c)
      <4>1. \A b \in BOOLEAN, err \in UsbErrors :
              [hDevice |-> b, LastErrorNumber |-> err] \in [hDevice : BOOLEAN, LastErrorNumber : UsbErrors]
        OBVIOUS
      <4>2. "OK" \in UsbErrors /\ "OPEN" \in UsbErrors /\ "CLOSE" \in UsbErrors
        BY ErrorsAre
      <4>3. \/ lusb' = [hDevice |-> TRUE, LastErrorNumber |-> "OK"]
            \/ lusb' = [hDevice |-> FALSE, LastErrorNumber |-> "OPEN"]
            \/ lusb' = [hDevice |-> FALSE, LastErrorNumber |-> "CLOSE"]
        BY <3>3 DEF OpenLDevice
      <4> QED BY <4>1, <4>2, <4>3
    <3> QED BY <1>2, <3>1, <3>2, <3>3
  <2> QED BY <1>0, <2>1, <2>2, IdleKeeps DEF Inside
<1>3. ASSUME NEW p \in Pipes, Transfer(c, p) PROVE UsbInv'
  <2> DEFINE k == [NoUsbCall EXCEPT !.pc = "acquire", !.op = "Transfer", !.pipe = p, !.len = 1]
  <2>1. /\ k \in UsbCalls /\ k.pc = "acquire" /\ k.op = "Transfer" /\ k.pipe = p /\ k.len = 1
        /\ k.moved = 0 /\ k.bytes = 0
    BY ErrorsAre DEF NoUsbCall, UsbCalls, UsbPCs
  <2>2. usbCall' = [usbCall EXCEPT ![c] = k] /\ lusb' = lusb
    BY <1>3 DEF Transfer, UsbSet
  <2> HIDE DEF k
  <2>3. WithinBuffer(k) /\ ErrorTold(k, e) /\ RequestOf(k, usbPipe[k.pipe])
    BY <2>1 DEF WithinBuffer, ErrorTold, RequestOf, Inside
  <2>4. OutsideStep(c, k, e)
    BY <1>0, <1>1, <2>1, <2>2, <2>3 DEF OutsideStep, Inside
  <2> QED BY <2>4, OutsideStepKeeps
<1>4. CASE OpenLDeviceAny(c)
  <2> DEFINE k == [NoUsbCall EXCEPT !.pc = "try", !.op = "OpenLDeviceAny"]
  <2>1. k \in UsbCalls /\ k.pc = "try" /\ k.op = "OpenLDeviceAny"
    BY ErrorsAre DEF NoUsbCall, UsbCalls, UsbPCs
  <2>2. usbCall' = [usbCall EXCEPT ![c] = k] /\ lusb' = lusb
    BY <1>4 DEF OpenLDeviceAny, UsbSet
  <2> HIDE DEF k
  <2>3. WithinBuffer(k) /\ ErrorTold(k, e) /\ RequestOf(k, usbPipe[k.pipe])
    BY <2>1 DEF WithinBuffer, ErrorTold, RequestOf, Inside
  <2>4. OutsideStep(c, k, e)
    BY <1>0, <1>1, <2>1, <2>2, <2>3 DEF OutsideStep, Inside
  <2> QED BY <2>4, OutsideStepKeeps
<1>5. ASSUME NEW n \in UsbLengths, ControlLoop(c, n) PROVE UsbInv'
  <2> DEFINE k == [NoUsbCall EXCEPT !.pc = "loop", !.op = "Control", !.total = n]
  <2>0. n \in Nat /\ n # 0
    BY UsbAssumption
  <2>1. k \in UsbCalls /\ k.pc = "loop" /\ k.op = "Control" /\ k.total = n /\ k.sent = 0
    BY <2>0, ErrorsAre DEF NoUsbCall, UsbCalls, UsbPCs
  <2>2. usbCall' = [usbCall EXCEPT ![c] = k]
        /\ lusb' = [lusb EXCEPT !.LastErrorNumber = "OK"]
    BY <1>5 DEF ControlLoop, UsbSet, Error
  <2>3. lusb' \in [hDevice : BOOLEAN, LastErrorNumber : UsbErrors]
    BY <2>2, ErrorsAre
  <2> HIDE DEF k
  <2>5. MultipleOf(0, ControlSize(n))
    <3>1. ControlSize(n) \in Nat /\ 0 = 0 * ControlSize(n)
      BY <2>0, ControlSizes
    <3> QED BY <3>1 DEF MultipleOf
  <2>4. WithinBuffer(k) /\ ErrorTold(k, e) /\ RequestOf(k, usbPipe[k.pipe])
    BY <2>0, <2>1, <2>5 DEF WithinBuffer, ErrorTold, RequestOf, Inside
  <2>6. OutsideStep(c, k, e)
    BY <1>0, <1>1, <2>1, <2>2, <2>3, <2>4 DEF OutsideStep, Inside
  <2> QED BY <2>6, OutsideStepKeeps
<1> QED BY <1>2, <1>3, <1>4, <1>5 DEF UsbUser

\* OpenLDeviceAny tries the next device.
LEMMA TrySlotKeeps ==
  ASSUME UsbInv, NEW c \in usbWorld.callers, TrySlot(c)
  PROVE  UsbInv'
<1> USE UsbTypes
<1>0. usbCall[c].pc = "try" /\ usbWorld' = usbWorld /\ usbPipe' = usbPipe /\ usbCall[c].op # "Control"
  BY DEF TrySlot, UsbAt, UsbInv, WithinBuffer, Inside
<1>1. lusb' \in [hDevice : BOOLEAN, LastErrorNumber : UsbErrors]
  BY ErrorsAre DEF TrySlot, OpenLDeviceByName
<1>2. CASE usbCall' = [usbCall EXCEPT ![c] = NoUsbCall]
  BY <1>0, <1>1, <1>2, IdleKeeps DEF Inside
<1>3. CASE UsbSet(c, [usbCall[c] EXCEPT !.tried = (usbCall[c].tried + 1) % Slots])
  <2>1. PICK n \in Nat : n = (usbCall[c].tried + 1) % Slots
    BY UsbAssumption DEF UsbCalls
  <2> DEFINE k == [usbCall[c] EXCEPT !.tried = n]
  <2>2. k \in UsbCalls /\ k.pc = "try" /\ k.op # "Control"
    BY <1>0, <2>1 DEF UsbCalls
  <2>3. usbCall' = [usbCall EXCEPT ![c] = k]
    BY <1>3, <2>1 DEF UsbSet
  <2>4. PICK e : e = lusb'.LastErrorNumber
    OBVIOUS
  <2> HIDE DEF k
  <2>5. WithinBuffer(k) /\ ErrorTold(k, e) /\ RequestOf(k, usbPipe[k.pipe])
    BY <2>2 DEF WithinBuffer, ErrorTold, RequestOf, Inside
  <2>6. OutsideStep(c, k, e)
    BY <1>0, <1>1, <2>2, <2>3, <2>4, <2>5 DEF OutsideStep, Inside
  <2> QED BY <2>6, OutsideStepKeeps
<1> QED BY <1>2, <1>3 DEF TrySlot, UsbReturn, UsbSet

\* The loop of ReadControl and WriteControl: the next piece fits.
LEMMA LoopOnKeeps ==
  ASSUME UsbInv, NEW c \in usbWorld.callers, LoopOn(c)
  PROVE  UsbInv'
<1> USE UsbTypes
<1>0. usbCall[c].pc = "loop" /\ usbWorld' = usbWorld /\ usbPipe' = usbPipe /\ lusb' = lusb
      /\ usbCall[c].op = "Control" /\ usbCall[c].total # 0
  BY DEF LoopOn, UsbAt, UsbInv, WithinBuffer
<1>2. CASE usbCall' = [usbCall EXCEPT ![c] = NoUsbCall]
  BY <1>0, <1>2, IdleKeeps DEF Inside
<1>3. CASE usbCall[c].sent < usbCall[c].total
           /\ UsbSet(c, [usbCall[c] EXCEPT !.pc = "acquire", !.len = ControlSize(usbCall[c].total),
                                    !.bytes = 0, !.moved = 0, !.late = FALSE])
  <2>0. PICK total \in Nat : total = usbCall[c].total
    BY DEF UsbCalls
  <2>1. PICK n \in Nat : n = ControlSize(total) /\ n # 0
    BY <1>0, <2>0, ControlSizes
  <2> DEFINE k == [usbCall[c] EXCEPT !.pc = "acquire", !.len = n, !.bytes = 0, !.moved = 0,
                                     !.late = FALSE]
  <2>2. /\ k \in UsbCalls /\ k.pc = "acquire" /\ k.op = "Control" /\ k.len = n /\ k.total = total
        /\ k.sent = usbCall[c].sent /\ k.bytes = 0 /\ k.moved = 0
    BY <1>0, <2>0, <2>1 DEF UsbCalls, UsbPCs
  <2>3. usbCall' = [usbCall EXCEPT ![c] = k]
    BY <1>3, <2>0, <2>1 DEF UsbSet
  <2>4. PICK e : e = lusb'.LastErrorNumber
    OBVIOUS
  <2>7. Pieces(k) => /\ MultipleOf(k.sent, ControlSize(total))
                     /\ k.sent + ControlSize(total) <= total
    <3>1. SUFFICES ASSUME Pieces(k)
                   PROVE  /\ MultipleOf(k.sent, ControlSize(total))
                          /\ k.sent + ControlSize(total) <= total
      OBVIOUS
    <3>2. Pieces(usbCall[c]) /\ (total <= MaxTransfer \/ total % MaxTransfer = 0)
      BY <2>0, <2>2, <3>1 DEF Pieces
    <3>3. WithinBuffer(usbCall[c])
      BY DEF UsbInv
    <3>4. MultipleOf(usbCall[c].sent, ControlSize(total)) /\ usbCall[c].sent \in Nat
      BY <1>0, <2>0, <3>2, <3>3 DEF WithinBuffer, UsbCalls
    <3> QED BY <1>0, <1>3, <2>0, <2>2, <3>2, <3>4, PieceFits
  <2> HIDE DEF k
  <2>5. WithinBuffer(k) /\ ErrorTold(k, e) /\ RequestOf(k, usbPipe[k.pipe])
    BY <1>0, <2>0, <2>1, <2>2, <2>7 DEF WithinBuffer, ErrorTold, RequestOf, Inside, PieceOf
  <2>6. OutsideStep(c, k, e)
    BY <1>0, <2>2, <2>3, <2>4, <2>5 DEF OutsideStep, Inside
  <2> QED BY <2>6, OutsideStepKeeps
<1> QED BY <1>2, <1>3 DEF LoopOn, UsbReturn, UsbSet

\* The call returns.
LEMMA ReturnsKeeps ==
  ASSUME UsbInv, NEW c \in usbWorld.callers, Returns(c)
  PROVE  UsbInv'
<1> USE UsbTypes
<1>0. usbCall[c].pc = "return" /\ usbWorld' = usbWorld /\ usbPipe' = usbPipe /\ lusb' = lusb
      /\ WithinBuffer(usbCall[c])
  BY DEF Returns, UsbAt, UsbInv
<1>1. usbCall[c].op \in {"Transfer", "Control"}
  BY <1>0 DEF WithinBuffer, Inside
<1>2. CASE usbCall' = [usbCall EXCEPT ![c] = NoUsbCall]
  BY <1>0, <1>2, IdleKeeps DEF Inside
<1>3. CASE usbCall[c].op = "Control"
           /\ UsbSet(c, [usbCall[c] EXCEPT !.pc = "loop",
                      !.sent = IF Succeeded(usbCall[c].pipe) THEN @ + usbCall[c].len ELSE @])
  <2>0. PICK sent \in Nat, size \in Nat, total \in Nat :
          sent = usbCall[c].sent /\ size = usbCall[c].len /\ total = usbCall[c].total
    BY DEF UsbCalls
  <2>1. PICK n \in Nat : n = IF Succeeded(usbCall[c].pipe) THEN sent + size ELSE sent
    OBVIOUS
  <2> DEFINE k == [usbCall[c] EXCEPT !.pc = "loop", !.sent = n]
  <2>2. k \in UsbCalls /\ k.pc = "loop" /\ k.op = "Control" /\ k.total = total /\ k.sent = n
    BY <1>3, <2>0, <2>1 DEF UsbCalls, UsbPCs
  <2>3. usbCall' = [usbCall EXCEPT ![c] = k]
    BY <1>3, <2>0, <2>1 DEF UsbSet
  <2>4. PICK e : e = lusb'.LastErrorNumber
    OBVIOUS
  <2>7. total # 0 /\ (Pieces(k) => MultipleOf(n, ControlSize(total)))
    <3>1. size = ControlSize(total) /\ total # 0
      BY <1>0, <1>3, <2>0 DEF WithinBuffer, PieceOf
    <3>2. SUFFICES ASSUME Pieces(k) PROVE MultipleOf(n, ControlSize(total))
      BY <3>1
    <3>3. MultipleOf(sent, size)
      BY <1>0, <1>3, <2>0, <2>2, <3>1, <3>2 DEF WithinBuffer, Pieces
    <3> QED BY <2>1, <3>1, <3>3, PieceSent
  <2> HIDE DEF k
  <2>5. WithinBuffer(k) /\ ErrorTold(k, e) /\ RequestOf(k, usbPipe[k.pipe])
    BY <2>2, <2>7 DEF WithinBuffer, ErrorTold, RequestOf, Inside
  <2>6. OutsideStep(c, k, e)
    BY <1>0, <2>2, <2>3, <2>4, <2>5 DEF OutsideStep, Inside
  <2> QED BY <2>6, OutsideStepKeeps
<1> QED BY <1>1, <1>2, <1>3 DEF Returns, UsbReturn, UsbSet


\* The steps with the mutex.
Piped == Inside \cup {"acquire", "return"}

\* What is known of a caller inside the mutex.
LEMMA InsideFacts ==
  ASSUME UsbInv, NEW c \in usbWorld.callers
  PROVE  /\ usbCall[c].pc \in Inside => usbPipe[usbCall[c].pipe].holder = c
         /\ WithinBuffer(usbCall[c])
         /\ ~usbWorld.timeouts => /\ RequestOf(usbCall[c], usbPipe[usbCall[c].pipe])
                                  /\ usbPipe[usbCall[c].pipe].stale = 0
         /\ Alone /\ ~usbWorld.timeouts => ErrorTold(usbCall[c], lusb.LastErrorNumber)
BY UsbTypes DEF UsbInv, MutexHeld, RequestsGoOn, ErrorsTold

\* A step that leaves the piece alone.
LEMMA BufferKept ==
  ASSUME UsbInv, NEW c \in usbWorld.callers, usbCall[c].pc \in Piped,
         NEW k, k.pc \in Piped, k.op = usbCall[c].op, k.len = usbCall[c].len,
         k.total = usbCall[c].total, k.sent = usbCall[c].sent
  PROVE  WithinBuffer(k) /\ k.len # 0
<1>1. WithinBuffer(usbCall[c])
  BY DEF UsbInv
<1>2. usbCall[c].pc # "loop" /\ k.pc # "loop" /\ PieceOf(k) = PieceOf(usbCall[c])
      /\ Pieces(k) = Pieces(usbCall[c])
  BY DEF Piped, Inside, PieceOf, Pieces
<1> QED BY <1>1, <1>2 DEF WithinBuffer, Piped, Inside

\* The mutex is taken.
LEMMA AcquireKeeps ==
  ASSUME UsbInv, NEW c \in usbWorld.callers, Acquire(c)
  PROVE  UsbInv'
<1> USE UsbTypes
<1>1. PICK p \in Pipes : p = usbCall[c].pipe
  OBVIOUS
<1>2. /\ usbCall[c].pc = "acquire" /\ usbWorld' = usbWorld /\ usbPipe[p].holder = Nobody
      /\ lusb' = [lusb EXCEPT !.LastErrorNumber = "OK"]
      /\ usbPipe' = [usbPipe EXCEPT ![p].holder = c]
      /\ usbCall' = [usbCall EXCEPT ![c] = [usbCall[c] EXCEPT !.pc = "submit"]]
  BY <1>1 DEF Acquire, UsbAt, UsbGo, UsbSet, Error
<1> DEFINE k == [usbCall[c] EXCEPT !.pc = "submit"]
           q == [usbPipe[p] EXCEPT !.holder = c]
<1>3. /\ k \in UsbCalls /\ k.pc = "submit" /\ k.op = usbCall[c].op /\ k.len = usbCall[c].len
      /\ k.total = usbCall[c].total /\ k.sent = usbCall[c].sent /\ k.pipe = p
      /\ k.bytes = usbCall[c].bytes /\ k.moved = usbCall[c].moved
  BY <1>1 DEF UsbCalls, UsbPCs
<1>4. /\ q \in UsbPipes /\ q.holder = c /\ q.stale = usbPipe[p].stale
      /\ q.current = usbPipe[p].current /\ usbPipe' = [usbPipe EXCEPT ![p] = q]
  BY <1>1, <1>2 DEF UsbPipes
<1>5. usbCall' = [usbCall EXCEPT ![c] = k]
  BY <1>2
<1> HIDE DEF k, q
<1>6. WithinBuffer(k)
  BY <1>2, <1>3, BufferKept DEF Piped, Inside
<1>7. ASSUME ~usbWorld.timeouts PROVE q.stale = 0 /\ ~q.current /\ RequestOf(k, q)
  <2>1. usbPipe[p].stale = 0 /\ ~usbPipe[p].current /\ RequestOf(usbCall[c], usbPipe[p])
    BY <1>1, <1>2, <1>7 DEF UsbInv, RequestsGoOn
  <2> QED BY <1>2, <1>3, <1>4, <2>1 DEF RequestOf
<1>8. lusb' \in [hDevice : BOOLEAN, LastErrorNumber : UsbErrors] /\ lusb'.LastErrorNumber = "OK"
  BY <1>2, ErrorsAre
<1>9. InsideStep(c, k, q, "OK")
  BY <1>1, <1>2, <1>3, <1>4, <1>5, <1>6, <1>7, <1>8 DEF InsideStep, Inside, ErrorTold
<1> QED BY <1>9, InsideStepKeeps

\* A step with the mutex that leaves the OVERLAPPED alone, or what of it the next step needs.
HolderStep(c, k, q, e) ==
  /\ usbWorld' = usbWorld
  /\ lusb' \in [hDevice : BOOLEAN, LastErrorNumber : UsbErrors] /\ lusb'.LastErrorNumber = e
  /\ usbCall' = [usbCall EXCEPT ![c] = k] /\ k \in UsbCalls
  /\ k.pipe = usbCall[c].pipe /\ k.op = usbCall[c].op /\ k.len = usbCall[c].len
  /\ k.total = usbCall[c].total /\ k.sent = usbCall[c].sent
  /\ usbPipe' = [usbPipe EXCEPT ![k.pipe] = q] /\ q \in UsbPipes /\ q.holder = c
  /\ usbCall[c].pc \in Inside /\ k.pc \in Inside
  /\ ~usbWorld.timeouts => q.stale = 0 /\ RequestOf(k, q)
  /\ Alone /\ ~usbWorld.timeouts => ErrorTold(k, e)

\* A step of the holder that leaves the pipe alone.
LEMMA HolderStepKeeps ==
  ASSUME UsbInv, NEW c \in usbWorld.callers, NEW k, NEW q, NEW e, HolderStep(c, k, q, e)
  PROVE  UsbInv'
<1>1. WithinBuffer(k)
  BY BufferKept DEF HolderStep, Piped
<1>2. usbPipe[k.pipe].holder = c /\ c # Nobody
  BY InsideFacts, UsbTypes DEF HolderStep
<1>3. InsideStep(c, k, q, e)
  BY <1>1, <1>2 DEF HolderStep, InsideStep
<1> QED BY <1>3, InsideStepKeeps

\* The device is not open.
LEMMA NotOpenKeeps ==
  ASSUME UsbInv, NEW c \in usbWorld.callers, NotOpen(c)
  PROVE  UsbInv'
<1> USE UsbTypes
<1>1. PICK p \in Pipes : p = usbCall[c].pipe
  OBVIOUS
<1>2. /\ usbCall[c].pc = "submit" /\ usbWorld' = usbWorld /\ usbPipe' = usbPipe
      /\ lusb' = [lusb EXCEPT !.LastErrorNumber = "CLOSED"]
      /\ usbCall' = [usbCall EXCEPT ![c] = [usbCall[c] EXCEPT !.pc = "release"]]
  BY DEF NotOpen, UsbAt, UsbGo, UsbSet, Error
<1> DEFINE k == [usbCall[c] EXCEPT !.pc = "release"]
<1>3. /\ k \in UsbCalls /\ k.pc = "release" /\ k.op = usbCall[c].op /\ k.len = usbCall[c].len
      /\ k.total = usbCall[c].total /\ k.sent = usbCall[c].sent /\ k.pipe = p
      /\ k.bytes = usbCall[c].bytes /\ k.moved = usbCall[c].moved
  BY <1>1 DEF UsbCalls, UsbPCs
<1>4. usbPipe' = [usbPipe EXCEPT ![p] = usbPipe[p]]
  BY <1>1, <1>2
<1>5. usbCall' = [usbCall EXCEPT ![c] = k]
  BY <1>2
<1> HIDE DEF k
<1>6. k.len # 0
  BY <1>2, <1>3, BufferKept DEF Piped, Inside
<1>7. ASSUME ~usbWorld.timeouts
      PROVE  usbPipe[p].stale = 0 /\ k.bytes = 0 /\ RequestOf(k, usbPipe[p])
  BY <1>1, <1>2, <1>3, <1>7, InsideFacts DEF RequestOf
<1>8. lusb' \in [hDevice : BOOLEAN, LastErrorNumber : UsbErrors]
      /\ lusb'.LastErrorNumber = "CLOSED"
  BY <1>2, ErrorsAre
<1>9. HolderStep(c, k, usbPipe[p], "CLOSED")
  <2>1. usbPipe[p].holder = c /\ usbPipe[p] \in UsbPipes
    BY <1>1, <1>2, InsideFacts DEF Inside
  <2> QED BY <1>1, <1>2, <1>3, <1>4, <1>5, <1>6, <1>7, <1>8, <2>1
          DEF HolderStep, Inside, ErrorTold
<1> QED BY <1>9, HolderStepKeeps

\* The request goes to the driver, or is refused.
LEMMA SubmitKeeps ==
  ASSUME UsbInv, NEW c \in usbWorld.callers, Submit(c)
  PROVE  UsbInv'
<1> USE UsbTypes
<1>1. PICK p \in Pipes : p = usbCall[c].pipe
  OBVIOUS
<1>2. usbCall[c].pc = "submit" /\ usbWorld' = usbWorld
  BY DEF Submit, UsbAt
<1>3. usbCall[c].len \in Nat /\ usbCall[c].len # 0
  BY <1>2, BufferKept DEF Piped, Inside, UsbCalls
<1>4. usbPipe[p].holder = c /\ usbPipe[p] \in UsbPipes
  BY <1>1, <1>2, InsideFacts DEF Inside
<1>5. ASSUME ~usbWorld.timeouts
      PROVE  usbPipe[p].stale = 0 /\ ~usbPipe[p].current /\ usbCall[c].bytes = 0 /\ usbCall[c].moved = 0
  BY <1>1, <1>2, <1>5, InsideFacts DEF RequestOf
<1>6. ASSUME Alone, ~usbWorld.timeouts PROVE lusb.LastErrorNumber = "OK"
  BY <1>2, <1>6, InsideFacts DEF ErrorTold
<1>7. PICK e : e = lusb'.LastErrorNumber
  OBVIOUS
<1>8. ASSUME NEW n \in {usbCall[c].len - 1, usbCall[c].len},
             usbPipe' = [usbPipe EXCEPT ![p].status = "done", ![p].count = n],
             UsbSet(c, [usbCall[c] EXCEPT !.pc = "length", !.bytes = n, !.moved = n]),
             lusb' = lusb
      PROVE  UsbInv'
  <2>0. PICK m \in Nat : m = n
    BY <1>3
  <2> DEFINE k == [usbCall[c] EXCEPT !.pc = "length", !.bytes = m, !.moved = m]
             q == [usbPipe[p] EXCEPT !.status = "done", !.count = m]
  <2>1. /\ k \in UsbCalls /\ k.pc = "length" /\ k.op = usbCall[c].op /\ k.len = usbCall[c].len
        /\ k.total = usbCall[c].total /\ k.sent = usbCall[c].sent /\ k.pipe = p
        /\ k.bytes = m /\ k.moved = m
    BY <1>1 DEF UsbCalls, UsbPCs
  <2>2. /\ q \in UsbPipes /\ q.holder = c /\ q.stale = usbPipe[p].stale
        /\ q.current = usbPipe[p].current /\ usbPipe' = [usbPipe EXCEPT ![p] = q]
    BY <1>1, <1>4, <1>8, <2>0 DEF UsbPipes
  <2>3. usbCall' = [usbCall EXCEPT ![c] = k]
    BY <1>8, <2>0 DEF UsbSet
  <2> HIDE DEF k, q
  <2>4. ~usbWorld.timeouts => q.stale = 0 /\ RequestOf(k, q)
    BY <1>5, <2>1, <2>2 DEF RequestOf
  <2>5. HolderStep(c, k, q, e)
    BY <1>1, <1>2, <1>6, <1>7, <1>8, <2>1, <2>2, <2>3, <2>4 DEF HolderStep, Inside, ErrorTold
  <2> QED BY <2>5, HolderStepKeeps
<1>9. ASSUME lusb' = [lusb EXCEPT !.LastErrorNumber = "DATA"],
             UsbSet(c, [usbCall[c] EXCEPT !.pc = "length"]), usbPipe' = usbPipe
      PROVE  UsbInv'
  <2> DEFINE k == [usbCall[c] EXCEPT !.pc = "length"]
  <2>1. /\ k \in UsbCalls /\ k.pc = "length" /\ k.op = usbCall[c].op /\ k.len = usbCall[c].len
        /\ k.total = usbCall[c].total /\ k.sent = usbCall[c].sent /\ k.pipe = p
        /\ k.bytes = usbCall[c].bytes /\ k.moved = usbCall[c].moved
    BY <1>1 DEF UsbCalls, UsbPCs
  <2>2. usbPipe' = [usbPipe EXCEPT ![p] = usbPipe[p]]
    BY <1>1, <1>9
  <2>3. usbCall' = [usbCall EXCEPT ![c] = k]
    BY <1>9 DEF UsbSet
  <2> HIDE DEF k
  <2>4. ~usbWorld.timeouts => usbPipe[p].stale = 0 /\ RequestOf(k, usbPipe[p])
    BY <1>5, <2>1 DEF RequestOf
  <2>5. lusb' \in [hDevice : BOOLEAN, LastErrorNumber : UsbErrors]
    BY <1>9, ErrorsAre
  <2>6. Alone /\ ~usbWorld.timeouts => ErrorTold(k, e)
    BY <1>3, <1>5, <2>1 DEF ErrorTold
  <2>7. HolderStep(c, k, usbPipe[p], e)
    BY <1>1, <1>2, <1>4, <1>7, <2>1, <2>2, <2>3, <2>4, <2>5, <2>6 DEF HolderStep, Inside
  <2> QED BY <2>7, HolderStepKeeps
<1>10. ASSUME usbPipe' = [usbPipe EXCEPT ![p].status = "pending", ![p].current = TRUE,
                                         ![p].event = FALSE],
              UsbSet(c, [usbCall[c] EXCEPT !.pc = "wait"]), lusb' = lusb
       PROVE  UsbInv'
  <2>0. PICK yes \in BOOLEAN, no \in BOOLEAN : yes = TRUE /\ no = FALSE
    OBVIOUS
  <2> DEFINE k == [usbCall[c] EXCEPT !.pc = "wait"]
             q == [usbPipe[p] EXCEPT !.status = "pending", !.current = yes, !.event = no]
  <2>1. /\ k \in UsbCalls /\ k.pc = "wait" /\ k.op = usbCall[c].op /\ k.len = usbCall[c].len
        /\ k.total = usbCall[c].total /\ k.sent = usbCall[c].sent /\ k.pipe = p
        /\ k.bytes = usbCall[c].bytes /\ k.moved = usbCall[c].moved
    BY <1>1 DEF UsbCalls, UsbPCs
  <2>2. /\ q \in UsbPipes /\ q.holder = c /\ q.stale = usbPipe[p].stale
        /\ q.current = yes /\ q.event = no /\ q.status = "pending"
    BY <1>1, <1>4, <2>0 DEF UsbPipes
  <2>3. usbPipe' = [usbPipe EXCEPT ![p] = q]
    BY <1>1, <1>4, <1>10, <2>0 DEF UsbPipes
  <2>4. usbCall' = [usbCall EXCEPT ![c] = k]
    BY <1>10 DEF UsbSet
  <2> HIDE DEF k, q
  <2>5. ~usbWorld.timeouts => q.stale = 0 /\ RequestOf(k, q)
    BY <1>5, <2>0, <2>1, <2>2 DEF RequestOf
  <2>6. HolderStep(c, k, q, e)
    BY <1>1, <1>2, <1>6, <1>7, <1>10, <2>1, <2>2, <2>3, <2>4, <2>5 DEF HolderStep, Inside, ErrorTold
  <2> QED BY <2>6, HolderStepKeeps
<1> QED
  <2>1. \/ \E n \in {usbCall[c].len - 1, usbCall[c].len} :
             /\ usbPipe' = [usbPipe EXCEPT ![p].status = "done", ![p].count = n]
             /\ UsbSet(c, [usbCall[c] EXCEPT !.pc = "length", !.bytes = n, !.moved = n])
             /\ lusb' = lusb
        \/ /\ lusb' = [lusb EXCEPT !.LastErrorNumber = "DATA"]
           /\ UsbSet(c, [usbCall[c] EXCEPT !.pc = "length"]) /\ usbPipe' = usbPipe
        \/ /\ usbPipe' = [usbPipe EXCEPT ![p].status = "pending", ![p].current = TRUE,
                                         ![p].event = FALSE]
           /\ UsbSet(c, [usbCall[c] EXCEPT !.pc = "wait"]) /\ lusb' = lusb
    BY <1>1 DEF Submit, UsbGo, Error
  <2> QED BY <1>8, <1>9, <1>10, <2>1

\* The wait ends with an answer.
LEMMA AnsweredKeeps ==
  ASSUME UsbInv, NEW c \in usbWorld.callers, Answered(c)
  PROVE  UsbInv'
<1> USE UsbTypes
<1>1. PICK p \in Pipes : p = usbCall[c].pipe
  OBVIOUS
<1>2. /\ usbCall[c].pc = "wait" /\ usbWorld' = usbWorld /\ lusb' = lusb /\ usbPipe[p].event
      /\ usbPipe' = [usbPipe EXCEPT ![p].event = FALSE]
      /\ usbCall' = [usbCall EXCEPT ![c] = [usbCall[c] EXCEPT !.pc = "result"]]
  BY <1>1 DEF Answered, UsbAt, UsbGo, UsbSet
<1>3. usbPipe[p].holder = c /\ usbPipe[p] \in UsbPipes
  BY <1>1, <1>2, InsideFacts DEF Inside
<1>4. PICK no \in BOOLEAN : no = FALSE
  OBVIOUS
<1> DEFINE k == [usbCall[c] EXCEPT !.pc = "result"]
           q == [usbPipe[p] EXCEPT !.event = no]
<1>5. /\ k \in UsbCalls /\ k.pc = "result" /\ k.op = usbCall[c].op /\ k.len = usbCall[c].len
      /\ k.total = usbCall[c].total /\ k.sent = usbCall[c].sent /\ k.pipe = p
      /\ k.bytes = usbCall[c].bytes /\ k.moved = usbCall[c].moved
  BY <1>1 DEF UsbCalls, UsbPCs
<1>6. /\ q \in UsbPipes /\ q.holder = c /\ q.stale = usbPipe[p].stale
      /\ q.current = usbPipe[p].current /\ q.status = usbPipe[p].status
      /\ q.count = usbPipe[p].count
  BY <1>3 DEF UsbPipes
<1>7. usbPipe' = [usbPipe EXCEPT ![p] = q]
  BY <1>1, <1>2, <1>3, <1>4 DEF UsbPipes
<1>8. usbCall' = [usbCall EXCEPT ![c] = k]
  BY <1>2
<1> HIDE DEF k, q
<1>9. ~usbWorld.timeouts => q.stale = 0 /\ RequestOf(k, q)
  BY <1>1, <1>2, <1>5, <1>6, InsideFacts DEF RequestOf
<1>10. PICK e : e = lusb.LastErrorNumber
  OBVIOUS
<1>11. Alone /\ ~usbWorld.timeouts => ErrorTold(k, e)
  BY <1>2, <1>5, <1>10, InsideFacts DEF ErrorTold
<1>12. HolderStep(c, k, q, e)
  BY <1>1, <1>2, <1>5, <1>6, <1>7, <1>8, <1>9, <1>10, <1>11 DEF HolderStep, Inside
<1> QED BY <1>12, HolderStepKeeps

\* The wait ends without one.
LEMMA TimedOutKeeps ==
  ASSUME UsbInv, NEW c \in usbWorld.callers, TimedOut(c)
  PROVE  UsbInv'
<1> USE UsbTypes
<1>1. PICK p \in Pipes : p = usbCall[c].pipe
  OBVIOUS
<1>4. PICK yes \in BOOLEAN : yes = TRUE
  OBVIOUS
<1>2. /\ usbCall[c].pc = "wait" /\ usbWorld' = usbWorld /\ usbPipe' = usbPipe
      /\ usbWorld.timeouts /\ lusb' = [lusb EXCEPT !.LastErrorNumber = "TIMEOUT"]
      /\ usbCall' = [usbCall EXCEPT ![c] = [usbCall[c] EXCEPT !.pc = "result", !.late = yes]]
  BY <1>4 DEF TimedOut, UsbAt, UsbGo, UsbSet, Error
<1>3. usbPipe[p].holder = c /\ usbPipe[p] \in UsbPipes
  BY <1>1, <1>2, InsideFacts DEF Inside
<1> DEFINE k == [usbCall[c] EXCEPT !.pc = "result", !.late = yes]
<1>5. /\ k \in UsbCalls /\ k.pc = "result" /\ k.op = usbCall[c].op /\ k.len = usbCall[c].len
      /\ k.total = usbCall[c].total /\ k.sent = usbCall[c].sent /\ k.pipe = p
  BY <1>1 DEF UsbCalls, UsbPCs
<1>7. usbPipe' = [usbPipe EXCEPT ![p] = usbPipe[p]]
  BY <1>1, <1>2
<1>8. usbCall' = [usbCall EXCEPT ![c] = k]
  BY <1>2
<1> HIDE DEF k
<1>9. lusb' \in [hDevice : BOOLEAN, LastErrorNumber : UsbErrors]
      /\ lusb'.LastErrorNumber = "TIMEOUT"
  BY <1>2, ErrorsAre
<1>12. HolderStep(c, k, usbPipe[p], "TIMEOUT")
  BY <1>1, <1>2, <1>3, <1>5, <1>7, <1>8, <1>9 DEF HolderStep, Inside
<1> QED BY <1>12, HolderStepKeeps

\* The count of the request is read.
LEMMA ResultKeeps ==
  ASSUME UsbInv, NEW c \in usbWorld.callers, Result(c)
  PROVE  UsbInv'
<1> USE UsbTypes
<1>1. PICK p \in Pipes : p = usbCall[c].pipe
  OBVIOUS
<1>2. usbCall[c].pc = "result" /\ usbWorld' = usbWorld /\ usbPipe' = usbPipe
  BY DEF Result, UsbAt
<1>3. usbPipe[p].holder = c /\ usbPipe[p] \in UsbPipes /\ usbPipe[p].count \in Nat
  BY <1>1, <1>2, InsideFacts DEF Inside, UsbPipes
<1>4. usbCall[c].len # 0 /\ usbCall[c].len \in Nat
  BY <1>2, BufferKept DEF Piped, Inside, UsbCalls
<1>5. PICK n : n = IF usbPipe[p].status = "done" THEN usbPipe[p].count ELSE usbCall[c].bytes
  OBVIOUS
<1> DEFINE k == [usbCall[c] EXCEPT !.pc = "length", !.bytes = n]
<1>6. /\ k \in UsbCalls /\ k.pc = "length" /\ k.op = usbCall[c].op /\ k.len = usbCall[c].len
      /\ k.total = usbCall[c].total /\ k.sent = usbCall[c].sent /\ k.pipe = p
      /\ k.bytes = n /\ k.moved = usbCall[c].moved
  BY <1>1, <1>3, <1>5 DEF UsbCalls, UsbPCs
<1>7. usbPipe' = [usbPipe EXCEPT ![p] = usbPipe[p]]
  BY <1>1, <1>2
<1>8. usbCall' = [usbCall EXCEPT ![c] = k]
      /\ IF usbPipe[p].status = "done" THEN lusb' = lusb
         ELSE lusb' = [lusb EXCEPT !.LastErrorNumber = "ASYNC"]
  <2>1. CASE usbPipe[p].status = "done"
    BY <1>1, <1>5, <2>1 DEF Result, GetOverlappedResult, UsbSet
  <2>2. CASE usbPipe[p].status # "done"
    <3>1. usbCall' = [usbCall EXCEPT ![c] = [usbCall[c] EXCEPT !.pc = "length"]]
          /\ lusb' = [lusb EXCEPT !.LastErrorNumber = "ASYNC"]
      BY <1>1, <2>2 DEF Result, GetOverlappedResult, UsbSet, UsbGo, Error
    <3>2. [usbCall[c] EXCEPT !.pc = "length"] = k
      BY <1>5, <2>2 DEF UsbCalls
    <3> QED BY <2>2, <3>1, <3>2
  <2> QED BY <2>1, <2>2
<1> HIDE DEF k
<1>9. ASSUME ~usbWorld.timeouts
      PROVE  /\ usbPipe[p].stale = 0 /\ ~usbPipe[p].current /\ usbCall[c].bytes = 0
             /\ usbCall[c].moved = IF usbPipe[p].status = "done" THEN usbPipe[p].count ELSE 0
  BY <1>1, <1>2, <1>9, InsideFacts DEF RequestOf
<1>10. ~usbWorld.timeouts => usbPipe[p].stale = 0 /\ RequestOf(k, usbPipe[p])
  <2>1. ASSUME ~usbWorld.timeouts PROVE k.bytes = k.moved
    BY <1>5, <1>6, <1>9, <2>1
  <2> QED BY <1>6, <1>9, <2>1 DEF RequestOf
<1>11. PICK e : e = lusb'.LastErrorNumber
  OBVIOUS
<1>12. lusb' \in [hDevice : BOOLEAN, LastErrorNumber : UsbErrors]
  BY <1>8, ErrorsAre
<1>13. Alone /\ ~usbWorld.timeouts => ErrorTold(k, e)
  <2>1. SUFFICES ASSUME Alone, ~usbWorld.timeouts, k.bytes = k.len PROVE e = "OK"
    BY <1>6 DEF ErrorTold
  <2>2. lusb.LastErrorNumber = "OK"
    BY <1>2, <2>1, InsideFacts DEF ErrorTold
  <2>3. usbPipe[p].status = "done"
    BY <1>4, <1>5, <1>6, <1>9, <2>1
  <2> QED BY <1>8, <1>11, <2>2, <2>3
<1>14. HolderStep(c, k, usbPipe[p], e)
  BY <1>1, <1>2, <1>3, <1>6, <1>7, <1>8, <1>10, <1>11, <1>12, <1>13 DEF HolderStep, Inside
<1> QED BY <1>14, HolderStepKeeps

\* The count is compared with the length.
LEMMA TestLengthKeeps ==
  ASSUME UsbInv, NEW c \in usbWorld.callers, TestLength(c)
  PROVE  UsbInv'
<1> USE UsbTypes
<1>1. PICK p \in Pipes : p = usbCall[c].pipe
  OBVIOUS
<1>2. /\ usbCall[c].pc = "length" /\ usbWorld' = usbWorld /\ usbPipe' = usbPipe
      /\ usbCall' = [usbCall EXCEPT ![c] = [usbCall[c] EXCEPT !.pc = "release"]]
  BY DEF TestLength, UsbAt, UsbGo, UsbSet
<1>3. usbPipe[p].holder = c /\ usbPipe[p] \in UsbPipes
  BY <1>1, <1>2, InsideFacts DEF Inside
<1> DEFINE k == [usbCall[c] EXCEPT !.pc = "release"]
<1>5. /\ k \in UsbCalls /\ k.pc = "release" /\ k.op = usbCall[c].op /\ k.len = usbCall[c].len
      /\ k.total = usbCall[c].total /\ k.sent = usbCall[c].sent /\ k.pipe = p
      /\ k.bytes = usbCall[c].bytes /\ k.moved = usbCall[c].moved
  BY <1>1 DEF UsbCalls, UsbPCs
<1>7. usbPipe' = [usbPipe EXCEPT ![p] = usbPipe[p]]
  BY <1>1, <1>2
<1>8. usbCall' = [usbCall EXCEPT ![c] = k]
  BY <1>2
<1> HIDE DEF k
<1>9. ~usbWorld.timeouts => usbPipe[p].stale = 0 /\ RequestOf(k, usbPipe[p])
  BY <1>1, <1>2, <1>5, InsideFacts DEF RequestOf
<1>10. PICK old \in UsbErrors : old = lusb.LastErrorNumber
  OBVIOUS
<1>11. LengthError(p, old) \in UsbErrors /\ (p # "read" => LengthError(p, old) # "OK")
  BY <1>10, ErrorsAre DEF LengthError, Pipes
<1>12. PICK e \in UsbErrors : e = IF k.bytes # k.len THEN LengthError(p, old) ELSE old
  BY <1>10, <1>11
<1>13. lusb' = [lusb EXCEPT !.LastErrorNumber = e]
  <2>1. IF usbCall[c].bytes # usbCall[c].len
        THEN lusb' = [lusb EXCEPT !.LastErrorNumber = LengthError(p, old)]
        ELSE lusb' = lusb
    BY <1>1, <1>10 DEF TestLength, Error
  <2>2. CASE k.bytes # k.len
    BY <1>5, <1>12, <2>1, <2>2
  <2>3. CASE k.bytes = k.len
    BY <1>5, <1>10, <1>12, <2>1, <2>3
  <2> QED BY <2>2, <2>3
<1>14. lusb' \in [hDevice : BOOLEAN, LastErrorNumber : UsbErrors] /\ lusb'.LastErrorNumber = e
  BY <1>13
<1>15. Alone /\ ~usbWorld.timeouts => ErrorTold(k, e)
  <2>1. SUFFICES ASSUME Alone, ~usbWorld.timeouts, p # "read" PROVE e = "OK" <=> k.bytes = k.len
    BY <1>5 DEF ErrorTold
  <2>2. k.bytes = k.len => old = "OK"
    BY <1>2, <1>5, <1>10, <2>1, InsideFacts DEF ErrorTold
  <2> QED BY <1>11, <1>12, <2>1, <2>2
<1>16. HolderStep(c, k, usbPipe[p], e)
  BY <1>1, <1>2, <1>3, <1>5, <1>7, <1>8, <1>9, <1>14, <1>15 DEF HolderStep, Inside
<1> QED BY <1>16, HolderStepKeeps

\* The mutex is given back.
LEMMA ReleaseKeeps ==
  ASSUME UsbInv, NEW c \in usbWorld.callers, Release(c)
  PROVE  UsbInv'
<1> USE UsbTypes
<1>1. PICK p \in Pipes : p = usbCall[c].pipe
  OBVIOUS
<1>3. usbPipe[p] \in UsbPipes /\ usbPipe[p].stale \in Nat
  BY <1>1 DEF UsbPipes
<1>4. PICK n \in Nat : n = usbPipe[p].stale + IF usbPipe[p].current THEN 1 ELSE 0
  BY <1>3
<1>2. /\ usbCall[c].pc = "release" /\ usbWorld' = usbWorld /\ lusb' = lusb
      /\ usbPipe' = [usbPipe EXCEPT ![p] = [NewPipe EXCEPT !.stale = n]]
      /\ usbCall' = [usbCall EXCEPT ![c] = [usbCall[c] EXCEPT !.pc = "return"]]
  BY <1>1, <1>4 DEF Release, UsbAt, UsbGo, UsbSet
<1> DEFINE k == [usbCall[c] EXCEPT !.pc = "return"]
           q == [NewPipe EXCEPT !.stale = n]
<1>5. /\ k \in UsbCalls /\ k.pc = "return" /\ k.op = usbCall[c].op /\ k.len = usbCall[c].len
      /\ k.total = usbCall[c].total /\ k.sent = usbCall[c].sent /\ k.pipe = p
      /\ k.bytes = usbCall[c].bytes /\ k.moved = usbCall[c].moved
  BY <1>1 DEF UsbCalls, UsbPCs
<1>6. q \in UsbPipes /\ q.holder = Nobody /\ ~q.current /\ q.stale = n
  BY <1>4 DEF UsbPipes, NewPipe
<1>7. usbPipe[p].holder = c /\ usbCall' = [usbCall EXCEPT ![c] = k]
      /\ usbPipe' = [usbPipe EXCEPT ![p] = q]
  BY <1>1, <1>2, InsideFacts DEF Inside
<1> HIDE DEF k, q
<1>8. WithinBuffer(k)
  BY <1>2, <1>5, BufferKept DEF Piped, Inside
<1>9. ~usbWorld.timeouts => q.stale = 0 /\ RequestOf(k, q)
  <2>1. SUFFICES ASSUME ~usbWorld.timeouts PROVE n = 0 /\ k.bytes = k.moved
    BY <1>5, <1>6 DEF RequestOf
  <2>2. RequestOf(usbCall[c], usbPipe[p]) /\ usbPipe[p].stale = 0
    BY <1>1, <2>1, InsideFacts
  <2> QED BY <1>2, <1>4, <1>5, <2>2 DEF RequestOf
<1>10. PICK e : e = lusb.LastErrorNumber
  OBVIOUS
<1>11. Alone /\ ~usbWorld.timeouts => ErrorTold(k, e)
  <2>1. SUFFICES ASSUME Alone, ~usbWorld.timeouts PROVE ErrorTold(k, e)
    OBVIOUS
  <2>2. ErrorTold(usbCall[c], e)
    BY <1>10, <2>1, InsideFacts
  <2> QED BY <1>1, <1>2, <1>5, <2>2 DEF ErrorTold
<1>12. InsideStep(c, k, q, e)
  <2>1. k.pc \notin Inside
    BY <1>5 DEF Inside
  <2> QED BY <1>1, <1>2, <1>5, <1>6, <1>7, <1>8, <1>9, <1>10, <1>11, <2>1 DEF InsideStep
<1> QED BY <1>12, InsideStepKeeps

\* The driver.
LEMMA AnswerKeeps ==
  ASSUME UsbInv, NEW p \in Pipes, Answer(p)
  PROVE  UsbInv'
<1>1. PICK c \in CallOn(p) :
        \/ \E n \in {usbCall[c].len - 1, usbCall[c].len} :
             /\ usbPipe' = [usbPipe EXCEPT ![p].status = "done", ![p].count = n,
                                           ![p].event = TRUE, ![p].current = FALSE]
             /\ UsbSet(c, [usbCall[c] EXCEPT !.moved = n])
        \/ /\ usbPipe' = [usbPipe EXCEPT ![p].status = "failed", ![p].event = TRUE,
                                         ![p].current = FALSE]
           /\ usbCall' = usbCall
  BY DEF Answer
<1>2. /\ c \in usbWorld.callers /\ usbCall[c].pipe = p /\ usbCall[c].pc \in Inside
      /\ usbWorld' = usbWorld /\ lusb' = lusb /\ usbPipe[p].current
  BY <1>1 DEF Answer, CallOn, Inside
<1> USE UsbTypes
<1>3. usbPipe[p].holder = c /\ usbPipe[p] \in UsbPipes
  BY <1>2, InsideFacts
<1>4. usbCall[c].len # 0 /\ usbCall[c].len \in Nat
  BY <1>2, BufferKept DEF Piped, UsbCalls
<1>5. ASSUME ~usbWorld.timeouts
      PROVE  /\ usbPipe[p].stale = 0 /\ usbCall[c].pc = "wait" /\ usbCall[c].bytes = 0
             /\ usbCall[c].moved = 0
  <2>1. RequestOf(usbCall[c], usbPipe[p]) /\ usbPipe[p].stale = 0
    BY <1>2, <1>5, InsideFacts
  <2>2. usbCall[c].pc = "wait"
    BY <1>2, <2>1 DEF RequestOf, Inside
  <2> QED BY <1>2, <2>1, <2>2 DEF RequestOf
<1>6. PICK e : e = lusb.LastErrorNumber
  OBVIOUS
<1>7. PICK yes \in BOOLEAN, no \in BOOLEAN : yes = TRUE /\ no = FALSE
  OBVIOUS
<1>8. ASSUME NEW n \in {usbCall[c].len - 1, usbCall[c].len},
             usbPipe' = [usbPipe EXCEPT ![p].status = "done", ![p].count = n,
                                        ![p].event = TRUE, ![p].current = FALSE],
             UsbSet(c, [usbCall[c] EXCEPT !.moved = n])
      PROVE  UsbInv'
  <2>0. PICK m \in Nat : m = n
    BY <1>4
  <2> DEFINE k == [usbCall[c] EXCEPT !.moved = m]
             q == [usbPipe[p] EXCEPT !.status = "done", !.count = m, !.event = yes, !.current = no]
  <2>1. /\ k \in UsbCalls /\ k.pc = usbCall[c].pc /\ k.op = usbCall[c].op /\ k.len = usbCall[c].len
        /\ k.total = usbCall[c].total /\ k.sent = usbCall[c].sent /\ k.pipe = p
        /\ k.bytes = usbCall[c].bytes /\ k.moved = m
    BY <1>2 DEF UsbCalls, UsbPCs
  <2>2. /\ q \in UsbPipes /\ q.holder = c /\ q.stale = usbPipe[p].stale /\ q.current = no
        /\ q.status = "done" /\ q.count = m
    BY <1>3 DEF UsbPipes
  <2>3. usbPipe' = [usbPipe EXCEPT ![p] = q]
    BY <1>2, <1>3, <1>7, <1>8, <2>0 DEF UsbPipes
  <2>4. usbCall' = [usbCall EXCEPT ![c] = k]
    BY <1>8, <2>0 DEF UsbSet
  <2> HIDE DEF k, q
  <2>5. ~usbWorld.timeouts => q.stale = 0 /\ RequestOf(k, q)
    BY <1>5, <1>7, <2>1, <2>2 DEF RequestOf
  <2>6. Alone /\ ~usbWorld.timeouts => ErrorTold(k, e)
    BY <1>2, <1>6, <2>1, InsideFacts DEF ErrorTold
  <2>7. HolderStep(c, k, q, e)
    BY <1>2, <1>6, <2>1, <2>2, <2>3, <2>4, <2>5, <2>6 DEF HolderStep
  <2> QED BY <1>2, <2>7, HolderStepKeeps
<1>9. ASSUME usbPipe' = [usbPipe EXCEPT ![p].status = "failed", ![p].event = TRUE,
                                        ![p].current = FALSE],
             usbCall' = usbCall
      PROVE  UsbInv'
  <2> DEFINE q == [usbPipe[p] EXCEPT !.status = "failed", !.event = yes, !.current = no]
  <2>2. /\ q \in UsbPipes /\ q.holder = c /\ q.stale = usbPipe[p].stale /\ q.current = no
        /\ q.status = "failed"
    BY <1>3 DEF UsbPipes
  <2>3. usbPipe' = [usbPipe EXCEPT ![p] = q]
    BY <1>2, <1>3, <1>7, <1>9 DEF UsbPipes
  <2>4. usbCall' = [usbCall EXCEPT ![c] = usbCall[c]]
    BY <1>2, <1>9
  <2> HIDE DEF q
  <2>5. ~usbWorld.timeouts => q.stale = 0 /\ RequestOf(usbCall[c], q)
    BY <1>5, <1>7, <2>2 DEF RequestOf
  <2>6. Alone /\ ~usbWorld.timeouts => ErrorTold(usbCall[c], e)
    BY <1>2, <1>6, InsideFacts
  <2>7. HolderStep(c, usbCall[c], q, e)
    BY <1>2, <1>6, <2>2, <2>3, <2>4, <2>5, <2>6 DEF HolderStep
  <2> QED BY <1>2, <2>7, HolderStepKeeps
<1> QED BY <1>1, <1>8, <1>9

\* The driver answers a request that nobody waits for any more.
LEMMA LateAnswerKeeps ==
  ASSUME UsbInv, NEW p \in Pipes, LateAnswer(p)
  PROVE  UsbInv'
<1>1. usbWorld' = usbWorld /\ lusb' = lusb /\ usbCall' = usbCall /\ usbPipe[p].stale > 0
  BY DEF LateAnswer
<1>2. usbWorld.timeouts
  BY <1>1 DEF UsbInv, RequestsGoOn
<1>3. usbPipe \in [Pipes -> UsbPipes] /\ usbPipe[p] \in UsbPipes
  BY DEF UsbInv, UsbTyped
<1>4. PICK q \in UsbPipes : usbPipe' = [usbPipe EXCEPT ![p] = q] /\ q.holder = usbPipe[p].holder
  <2>1. PICK s \in {"done", "failed"} :
          usbPipe' = [usbPipe EXCEPT ![p].stale = @ - 1,
                        ![p].status = IF usbPipe[p].current THEN s ELSE @,
                        ![p].event = @ \/ usbPipe[p].current]
    BY DEF LateAnswer
  <2>2. PICK t \in {"none", "pending", "done", "failed"} :
          t = IF usbPipe[p].current THEN s ELSE usbPipe[p].status
    BY <1>3 DEF UsbPipes
  <2>3. PICK b \in BOOLEAN : b = (usbPipe[p].event \/ usbPipe[p].current)
    OBVIOUS
  <2>4. PICK n \in Nat : n = usbPipe[p].stale - 1
    BY <1>1, <1>3 DEF UsbPipes
  <2> DEFINE q == [usbPipe[p] EXCEPT !.stale = n, !.status = t, !.event = b]
  <2>5. usbPipe' = [usbPipe EXCEPT ![p] = q]
    <3>1. usbPipe' = [usbPipe EXCEPT ![p] =
                        [usbPipe[p] EXCEPT !.stale = usbPipe[p].stale - 1,
                           !.status = IF usbPipe[p].current THEN s ELSE usbPipe[p].status,
                           !.event = usbPipe[p].event \/ usbPipe[p].current]]
      BY <1>3, <2>1, Zenon DEF UsbPipes
    <3> QED BY <2>2, <2>3, <2>4, <3>1, Zenon
  <2>6. q \in UsbPipes /\ q.holder = usbPipe[p].holder
    BY <1>3 DEF UsbPipes
  <2> QED BY <2>5, <2>6
<1>5. ASSUME NEW o \in Pipes
      PROVE  usbPipe'[o].holder = usbPipe[o].holder
  BY <1>3, <1>4
<1>6. UsbTyped'
  <2>1. UsbPipes' = UsbPipes
    BY <1>1 DEF UsbPipes
  <2>2. usbPipe' \in [Pipes -> UsbPipes]
    BY <1>3, <1>4
  <2> QED BY <1>1, <2>1, <2>2 DEF UsbInv, UsbTyped
<1>7. ASSUME NEW c \in usbWorld.callers PROVE MutexHeld(usbCall', usbPipe', c)
  <2>1. MutexHeld(usbCall, usbPipe, c) /\ usbCall[c].pipe \in Pipes
    BY UsbTypes DEF UsbInv
  <2> QED BY <1>1, <1>5, <2>1 DEF MutexHeld
<1>8. RequestsGoOn' /\ ErrorsTold'
  BY <1>1, <1>2 DEF RequestsGoOn, ErrorsTold
<1> QED BY <1>1, <1>6, <1>7, <1>8 DEF UsbInv

\* Before the first call the invariant holds.
LEMMA UsbInitInv == UsbInit => UsbInv
<1> SUFFICES ASSUME UsbInit PROVE UsbInv
  OBVIOUS
<1>1. /\ usbWorld \in UsbWorlds /\ lusb = [hDevice |-> FALSE, LastErrorNumber |-> "OK"]
      /\ usbPipe = [p \in Pipes |-> NewPipe]
      /\ usbCall = [c \in usbWorld.callers |-> NoUsbCall]
  BY DEF UsbInit, UsbInitIn
<1>2. NoUsbCall \in UsbCalls /\ NoUsbCall.pc = "idle" /\ NoUsbCall.op = "none"
  BY ErrorsAre DEF NoUsbCall
<1>3. NewPipe \in UsbPipes /\ NewPipe.holder = Nobody /\ ~NewPipe.current /\ NewPipe.stale = 0
  BY DEF NewPipe, UsbPipes
<1>4. UsbTyped
  BY <1>1, <1>2, <1>3, ErrorsAre DEF UsbTyped
<1>5. \A c \in usbWorld.callers : usbCall[c] = NoUsbCall /\ c # Nobody
  BY <1>1, UsbCallersAssumption
<1>6. \A p \in Pipes : usbPipe[p] = NewPipe
  BY <1>1
<1>7. ASSUME NEW c \in usbWorld.callers PROVE MutexHeld(usbCall, usbPipe, c)
  BY <1>2, <1>3, <1>5, <1>6 DEF MutexHeld, Inside
<1>8. RequestOf(NoUsbCall, usbPipe[NoUsbCall.pipe]) /\ WithinBuffer(NoUsbCall)
      /\ ErrorTold(NoUsbCall, lusb.LastErrorNumber)
  BY <1>2 DEF RequestOf, WithinBuffer, ErrorTold, Inside
<1> QED BY <1>3, <1>4, <1>5, <1>6, <1>7, <1>8 DEF UsbInv, RequestsGoOn, ErrorsTold

\* Every step of a caller and of the driver keeps the invariant.
LEMMA UsbNextInv == UsbInv /\ [UsbNext]_usbVars => UsbInv'
<1> SUFFICES ASSUME UsbInv, [UsbNext]_usbVars PROVE UsbInv'
  OBVIOUS
<1>1. CASE UNCHANGED usbVars
  <2>1. usbWorld' = usbWorld /\ lusb' = lusb /\ usbPipe' = usbPipe /\ usbCall' = usbCall
    BY <1>1 DEF usbVars
  <2> QED BY <2>1 DEF UsbInv, UsbTyped, UsbPipes, MutexHeld, RequestsGoOn, ErrorsTold, Alone
<1>2. ASSUME NEW c \in usbWorld.callers, UsbUser(c) PROVE UsbInv'
  BY <1>2, UserKeeps
<1>3. ASSUME NEW c \in usbWorld.callers, UsbStep(c) PROVE UsbInv'
  BY <1>3, TrySlotKeeps, LoopOnKeeps, AcquireKeeps, NotOpenKeeps, SubmitKeeps, AnsweredKeeps,
     TimedOutKeeps, ResultKeeps, TestLengthKeeps, ReleaseKeeps, ReturnsKeeps DEF UsbStep
<1>4. CASE UsbDriver
  BY <1>4, AnswerKeeps, LateAnswerKeeps DEF UsbDriver
<1> QED BY <1>1, <1>2, <1>3, <1>4 DEF UsbNext

\* The mutex of a pipe, what its OVERLAPPED and the call agree on, how far a buffer has been
\* moved and what LastErrorNumber says to a single user.
THEOREM UsbInvariant == UsbSpec => []UsbInv
BY UsbInitInv, UsbNextInv, PTL DEF UsbSpec

\* The invariant gives what TLUSB_BASE promises.
LEMMA UsbSound == UsbInv => UsbOutcome /\ UsbWithinBuffer
<1> SUFFICES ASSUME UsbInv PROVE UsbOutcome /\ UsbWithinBuffer
  OBVIOUS
<1>1. UsbOutcome
  <2>1. SUFFICES ASSUME NEW c \in usbWorld.callers, usbCall[c].pc = "return", ~usbWorld.timeouts
                 PROVE  /\ usbCall[c].bytes = usbCall[c].moved
                        /\ Alone /\ usbCall[c].pipe # "read" =>
                             (Succeeded(usbCall[c].pipe) <=> usbCall[c].moved = usbCall[c].len)
    BY DEF UsbOutcome, UsbAt, Undisturbed
  <2>2. usbCall[c].bytes = usbCall[c].moved
    BY <2>1, InsideFacts DEF RequestOf
  <2>3. ASSUME Alone, usbCall[c].pipe # "read"
        PROVE  Succeeded(usbCall[c].pipe) <=> usbCall[c].moved = usbCall[c].len
    <3>1. ErrorTold(usbCall[c], lusb.LastErrorNumber)
      BY <2>1, <2>3, InsideFacts
    <3>2. lusb.LastErrorNumber = "OK" <=> usbCall[c].bytes = usbCall[c].len
      BY <2>1, <2>3, <3>1 DEF ErrorTold
    <3> QED BY <2>2, <2>3, <3>2 DEF Succeeded
  <2> QED BY <2>2, <2>3
<1>2. UsbWithinBuffer
  <2>1. SUFFICES ASSUME NEW c \in usbWorld.callers, usbCall[c].op = "Control", Pieces(usbCall[c]),
                        usbCall[c].pc # "loop", usbCall[c].pc # "return"
                 PROVE  usbCall[c].sent + usbCall[c].len <= usbCall[c].total
    BY DEF UsbWithinBuffer, UsbAt, Pieces
  <2>2. WithinBuffer(usbCall[c])
    BY DEF UsbInv
  <2> QED BY <2>1, <2>2 DEF WithinBuffer, PieceOf
<1> QED BY <1>1, <1>2

\* TLUSB_BASE and CSerial together, whatever their callers, their devices and the lengths of
\* the buffers: a transfer over USB that no timeout disturbs reports what its own request has
\* moved, and says so exactly if its user is alone; no piece goes past the end of a buffer of
\* one piece or of whole pieces; every setting of the serial port is the last one accepted,
\* and a transfer that returns there without a timeout reports its own result and leaves
\* nothing with the driver.
THEOREM PortsAreSound == UsbSpec /\ SerSpec => []PortsSound
<1>1. UsbInv /\ SerInv => PortsSound
  BY UsbSound, SerialSound DEF PortsSound
<1> QED BY <1>1, UsbInvariant, SerialInvariant, PTL

------------------------------------------------------------------------------
PingSpec == PingInit /\ [][PingNext]_pingVars

\* What may come to the raw socket.
Echoes == [kind : pingWorld.kinds, seq : {0, 1}, at : Nat]
PingBuf == [kind : PacketKinds \cup pingWorld.kinds \cup {"none"}, seq : {0, 1}, at : Nat]
PingRecord ==
  [pc : {"idle", "send", "look", "receive", "done"}, now : Nat, begin : Nat, until : Nat,
   abandoned : Nat, buf : PingBuf, received : BOOLEAN, res : {-1, 0}]
PingTyped ==
  /\ ping \in PingRecord
  /\ icmp \in [queue : Seq(Echoes), came : Seq(Echoes)]

\* How many of the packets that came were taken from the socket; the others wait in order.
TakenPackets == Len(icmp.came) - Len(icmp.queue)
PacketsInOrder ==
  /\ Len(icmp.queue) <= Len(icmp.came)
  /\ \A i \in 1 .. Len(icmp.queue) : icmp.queue[i] = icmp.came[TakenPackets + i]

\* A request is given up only after the whole time, counted from the sending.
Late(t) == t >= ping.begin + PingTimeout
PingClock ==
  /\ ping.pc \in {"idle", "send"} => icmp.came = << >> /\ ping.abandoned = 0
  /\ ping.pc \in {"look", "receive"} => ping.begin <= ping.now
  /\ PingAt("receive") => Late(ping.until)
  /\ ping.pc \in {"look", "receive"} /\ ping.abandoned # 0 => Late(ping.now)

\* What was taken without ending the wait was no answer, or came too late; what was not
\* taken yet has only just come.
PassedOver ==
  ping.pc \in {"look", "receive"} /\ ~pingWorld.fails =>
    /\ \A i \in 1 .. TakenPackets : PingAnswer(icmp.came[i]) => Late(icmp.came[i].at)
    /\ \A i \in 1 .. Len(icmp.queue) : icmp.queue[i].at = ping.now

\* What this call has received is one of the packets that came.
BufferTruthful ==
  /\ ping.received => \E i \in 1 .. Len(icmp.came) : icmp.came[i] = ping.buf
  /\ ping.pc \in {"idle", "send"} => ~ping.received
  /\ ping.received => ping.buf \in Echoes

PingInv ==
  PingTyped /\ PacketsInOrder /\ PingClock /\ PassedOver /\ BufferTruthful /\ PingSound

\* Before PingHost is called nothing has come and nothing is waited for.
LEMMA PingInitInv == PingInit => PingInv
<1> SUFFICES ASSUME PingInit PROVE PingInv
  OBVIOUS
<1>1. /\ ping = [pc |-> "idle", now |-> 0, begin |-> 0, until |-> 0, abandoned |-> 0,
                 buf |-> NoPacket, received |-> FALSE, res |-> 0]
      /\ icmp = [queue |-> << >>, came |-> << >>]
  BY DEF PingInit, PingInitIn
<1>2. PingTyped
  BY <1>1 DEF PingTyped, PingRecord, PingBuf, NoPacket
<1>3. PacketsInOrder /\ PingClock /\ PassedOver /\ BufferTruthful /\ PingSound
  BY <1>1 DEF PacketsInOrder, PingClock, PassedOver, BufferTruthful, PingSound, AliveTruthful,
              AnswerNotMissed, PingAt, TakenPackets
<1> QED BY <1>2, <1>3 DEF PingInv

\* The fields of a call of PingHost.
PingFields(p, pc, now, begin, until, abandoned, buf, received, res) ==
  /\ p \in PingRecord /\ p.pc = pc /\ p.now = now /\ p.begin = begin /\ p.until = until
  /\ p.abandoned = abandoned /\ p.buf = buf /\ p.received = received /\ p.res = res

\* A step sets one or two of them,
LEMMA PingEnds ==
  ASSUME NEW p \in PingRecord, NEW res \in {-1, 0}
  PROVE  PingFields([p EXCEPT !.pc = "done", !.res = res],
                    "done", p.now, p.begin, p.until, p.abandoned, p.buf, p.received, res)
BY DEF PingFields, PingRecord

\* ... with a time or a count among them,
LEMMA PingTimes ==
  ASSUME NEW p \in PingRecord, NEW m \in Nat
  PROVE  /\ PingFields([p EXCEPT !.pc = "look", !.begin = m],
                       "look", p.now, m, p.until, p.abandoned, p.buf, p.received, p.res)
         /\ PingFields([p EXCEPT !.pc = "receive", !.until = m],
                       "receive", p.now, p.begin, m, p.abandoned, p.buf, p.received, p.res)
         /\ PingFields([p EXCEPT !.pc = "look", !.abandoned = m],
                       "look", p.now, p.begin, p.until, m, p.buf, p.received, p.res)
         /\ PingFields([p EXCEPT !.abandoned = m],
                       p.pc, p.now, p.begin, p.until, m, p.buf, p.received, p.res)
         /\ PingFields([p EXCEPT !.now = m],
                       p.pc, m, p.begin, p.until, p.abandoned, p.buf, p.received, p.res)
BY DEF PingFields, PingRecord

\* ... or with what is in the buffer.
LEMMA PingBufs ==
  ASSUME NEW p \in PingRecord, NEW b \in PingBuf
  PROVE  /\ PingFields([p EXCEPT !.pc = "send", !.buf = b],
                       "send", p.now, p.begin, p.until, p.abandoned, b, p.received, p.res)
         /\ PingFields([p EXCEPT !.buf = b, !.received = TRUE],
                       p.pc, p.now, p.begin, p.until, p.abandoned, b, TRUE, p.res)
         /\ PingFields([p EXCEPT !.pc = "look"],
                       "look", p.now, p.begin, p.until, p.abandoned, p.buf, p.received, p.res)
BY DEF PingFields, PingRecord

\* A request that ends: an abandoned one, or the one that is waited for.
LEMMA EndedIs ==
  ASSUME NEW p \in PingRecord, ReceiveEnds(p)
  PROVE  \/ /\ p.abandoned # 0
            /\ PingFields(ping', p.pc, p.now, p.begin, p.until, p.abandoned - 1, p.buf,
                          p.received, p.res)
         \/ /\ p.abandoned = 0 /\ decode_reply(p.buf) = -2
            /\ PingFields(ping', "look", p.now, p.begin, p.until, 0, p.buf, p.received, p.res)
         \/ /\ p.abandoned = 0 /\ decode_reply(p.buf) \in {-1, 0}
            /\ PingFields(ping', "done", p.now, p.begin, p.until, 0, p.buf, p.received,
                          decode_reply(p.buf))
<1>1. p.abandoned \in Nat /\ decode_reply(p.buf) \in {-2, -1, 0}
  BY DEF PingRecord, decode_reply
<1>2. CASE p.abandoned # 0
  <2> DEFINE m == p.abandoned - 1
  <2>1. m \in Nat
    BY <1>1, <1>2
  <2>2. ping' = [p EXCEPT !.abandoned = m]
    BY <1>2 DEF ReceiveEnds
  <2>3. PingFields(ping', p.pc, p.now, p.begin, p.until, m, p.buf, p.received, p.res)
    <3> HIDE DEF m
    <3> QED BY <2>1, <2>2, PingTimes
  <2> QED BY <1>2, <2>3
<1>3. CASE p.abandoned = 0 /\ decode_reply(p.buf) = -2
  <2>1. ping' = [p EXCEPT !.pc = "look"]
    BY <1>3 DEF ReceiveEnds
  <2>2. ASSUME NEW b \in PingBuf PROVE PingFields(ping', "look", p.now, p.begin, p.until,
                                                  p.abandoned, p.buf, p.received, p.res)
    BY <2>1, PingBufs
  <2>3. p.buf \in PingBuf
    BY DEF PingRecord
  <2> QED BY <1>3, <2>2, <2>3
<1>4. CASE p.abandoned = 0 /\ decode_reply(p.buf) # -2
  <2> DEFINE res == decode_reply(p.buf)
  <2>1. ping' = [p EXCEPT !.pc = "done", !.res = res] /\ res \in {-1, 0}
    BY <1>1, <1>4 DEF ReceiveEnds
  <2> HIDE DEF res
  <2>2. PingFields(ping', "done", p.now, p.begin, p.until, p.abandoned, p.buf, p.received, res)
    BY <2>1, PingEnds
  <2> QED BY <1>4, <2>1, <2>2 DEF res
<1> QED BY <1>2, <1>3, <1>4

\* What the packets have to do with a step that only returns, or goes on, or lets time pass.
LEMMA PingGoesOn ==
  ASSUME PingInv, UNCHANGED <<pingWorld, icmp>>,
         PingHost \/ send_ping \/ PingLooksAtClock \/ recv_ping_fails \/ PingTick
  PROVE  PingInv'
<1>t. /\ ping \in PingRecord
      /\ icmp.queue \in Seq(Echoes) /\ icmp.came \in Seq(Echoes)
      /\ PingTimeout \in Nat
  BY PingAssumption DEF PingInv, PingTyped
<1>u. \A i \in 1 .. Len(icmp.came) : icmp.came[i].at \in Nat
  <2>1. \A i \in 1 .. Len(icmp.came) : icmp.came[i] \in Echoes
    BY <1>t
  <2> QED BY <2>1 DEF Echoes
<1>o. PacketsInOrder
  BY DEF PingInv
<1>l. /\ Len(icmp.queue) \in Nat /\ Len(icmp.came) \in Nat /\ Len(icmp.queue) <= Len(icmp.came)
      /\ TakenPackets \in Nat /\ Len(icmp.came) = TakenPackets + Len(icmp.queue)
  <2>1. \A q, c \in Nat : q <= c => c - q \in Nat /\ c = (c - q) + q
    OBVIOUS
  <2>2. Len(icmp.queue) \in Nat /\ Len(icmp.came) \in Nat
    BY <1>t
  <2>3. Len(icmp.queue) <= Len(icmp.came)
    BY <1>o DEF PacketsInOrder
  <2>4. TakenPackets = Len(icmp.came) - Len(icmp.queue)
    BY DEF TakenPackets
  <2> QED BY <2>1, <2>2, <2>3, <2>4
<1>p. TakenPackets' = TakenPackets /\ PacketsInOrder'
  BY <1>o DEF PacketsInOrder, TakenPackets
<1>1. ping.pc # "done"
  BY DEF PingHost, send_ping, PingLooksAtClock, recv_ping_fails, PingTick, PingAt
<1>n. ping.now \in Nat /\ ping.begin \in Nat /\ ping.until \in Nat /\ ping.abandoned \in Nat
      /\ ping.buf \in PingBuf
  BY <1>t DEF PingRecord
<1> DEFINE Gone == PingFields(ping', "done", ping.now, ping.begin, ping.until, ping.abandoned,
                              ping.buf, ping.received, -1)
<1>g. PingReturns(-1) => Gone
  BY <1>t, <1>n, PingEnds DEF PingReturns
<1>h. PingHost => \/ Gone
                  \/ \E b \in PingBuf :
                       PingFields(ping', "send", ping.now, ping.begin, ping.until,
                                  ping.abandoned, b, ping.received, ping.res)
  <2> SUFFICES ASSUME PingHost, ~PingReturns(-1)
               PROVE  \E b \in PingBuf :
                        PingFields(ping', "send", ping.now, ping.begin, ping.until,
                                   ping.abandoned, b, ping.received, ping.res)
    BY <1>g
  <2>1. PICK kind \in PacketKinds, seq \in {0, 1} :
          ping' = [ping EXCEPT !.pc = "send", !.buf = [kind |-> kind, seq |-> seq, at |-> 0]]
    BY <1>t DEF PingHost
  <2>2. [kind |-> kind, seq |-> seq, at |-> 0] \in PingBuf
    BY DEF PingBuf
  <2> QED BY <2>1, <2>2, <1>t, <1>n, PingBufs
<1>s. send_ping => \/ Gone
                   \/ PingFields(ping', "look", ping.now, ping.now, ping.until,
                                 ping.abandoned, ping.buf, ping.received, ping.res)
  BY <1>g, <1>t, <1>n, PingTimes DEF send_ping
<1>c. PingLooksAtClock =>
        \/ Gone /\ ping.now - ping.begin > PingTimeout
        \/ PingFields(ping', "receive", ping.now, ping.begin, ping.now + PingTimeout,
                      ping.abandoned, ping.buf, ping.received, ping.res)
  <2>1. ping.now + PingTimeout \in Nat
    BY <1>n, <1>t
  <2> QED BY <2>1, <1>g, <1>t, <1>n, PingTimes DEF PingLooksAtClock
<1>r. recv_ping_fails =>
        \/ Gone
        \/ \E m \in Nat :
             /\ PingFields(ping', "look", ping.now, ping.begin, ping.until, m, ping.buf,
                           ping.received, ping.res)
             /\ m = ping.abandoned \/ (ping.now >= ping.until)
  <2> SUFFICES ASSUME recv_ping_fails, ~PingReturns(-1)
               PROVE  \E m \in Nat :
             /\ PingFields(ping', "look", ping.now, ping.begin, ping.until, m, ping.buf,
                           ping.received, ping.res)
             /\ m = ping.abandoned \/ (ping.now >= ping.until)
    BY <1>g
  <2>1. PICK left \in {0, 1} :
          /\ left = 1 => ping.now >= ping.until
          /\ ping' = [ping EXCEPT !.pc = "look", !.abandoned = ping.abandoned + left]
    BY DEF recv_ping_fails
  <2> DEFINE m == ping.abandoned + left
  <2>2. m \in Nat /\ (m = ping.abandoned \/ (ping.now >= ping.until))
    BY <2>1, <1>n
  <2>3. ping' = [ping EXCEPT !.pc = "look", !.abandoned = m]
    BY <2>1
  <2> HIDE DEF m
  <2> QED BY <2>2, <2>3, <1>t, <1>n, PingTimes
<1>k. PingTick => PingFields(ping', ping.pc, ping.now + 1, ping.begin, ping.until,
                             ping.abandoned, ping.buf, ping.received, ping.res)
  <2>1. ping.now + 1 \in Nat
    BY <1>n
  <2> QED BY <2>1, <1>t, <1>n, PingTimes DEF PingTick
<1>2. PingTyped'
  <2>1. ping' \in PingRecord
    BY <1>h, <1>s, <1>c, <1>r, <1>k DEF PingFields
  <2> QED BY <2>1 DEF PingInv, PingTyped, PingRecord, PingBuf, Echoes
<1>z. PingClock
  BY DEF PingInv
<1>3. PingClock'
  <2>1. CASE Gone
    BY <2>1 DEF PingFields, PingClock, PingAt
  <2>2. CASE PingHost /\ ~Gone
    BY <1>h, <1>z, <2>2 DEF PingHost, PingFields, PingClock, PingAt
  <2>3. CASE send_ping /\ ~Gone
    BY <1>s, <1>z, <1>n, <2>3 DEF send_ping, PingFields, PingClock, PingAt
  <2>4. CASE PingLooksAtClock /\ ~Gone
    BY <1>c, <1>z, <1>n, <1>t, <2>4 DEF PingLooksAtClock, PingFields, PingClock, PingAt, Late
  <2>5. CASE recv_ping_fails /\ ~Gone
    <3>1. PICK m \in Nat :
             /\ PingFields(ping', "look", ping.now, ping.begin, ping.until, m, ping.buf,
                           ping.received, ping.res)
             /\ m = ping.abandoned \/ (ping.now >= ping.until)
      BY <1>r, <2>5
    <3>2. ping.pc = "receive"
      BY <2>5 DEF recv_ping_fails, PingAt
    <3>3. ping.begin <= ping.now /\ Late(ping.until) /\ (ping.abandoned # 0 => Late(ping.now))
      BY <1>z, <3>2 DEF PingClock, PingAt
    <3>4. m # 0 => Late(ping.now)
      <4>1. ping.now >= ping.until => Late(ping.now)
        BY <3>3, <1>n, <1>t DEF Late
      <4> QED BY <4>1, <3>1, <3>3
    <3> QED BY <3>1, <3>3, <3>4 DEF PingFields, PingClock, PingAt, Late
  <2>6. CASE PingTick
    BY <1>k, <1>z, <1>n, <1>t, <2>6 DEF PingTick, PingFields, PingClock, PingAt, Late
  <2> QED BY <2>1, <2>2, <2>3, <2>4, <2>5, <2>6
<1>4. PassedOver'
  <2> SUFFICES ASSUME ping'.pc \in {"look", "receive"}, ~pingWorld.fails
               PROVE  /\ \A i \in 1 .. TakenPackets :
                           PingAnswer(icmp.came[i]) => Late(icmp.came[i].at)'
                      /\ \A i \in 1 .. Len(icmp.queue) : icmp.queue[i].at = ping'.now
    BY <1>p DEF PassedOver, PingAnswer
  <2>1. CASE PingHost
    BY <1>h, <2>1 DEF PingFields
  <2>2. CASE send_ping
    <3>1. icmp.came = << >>
      BY <2>2 DEF send_ping, PingInv, PingClock, PingAt
    <3>2. Len(icmp.came) = 0
      BY <3>1
    <3> QED BY <3>2, <1>l
  <2>3. CASE PingLooksAtClock \/ recv_ping_fails
    <3>1. ping'.begin = ping.begin /\ ping'.now = ping.now /\ ping.pc \in {"look", "receive"}
      BY <1>c, <1>r, <2>3 DEF PingLooksAtClock, recv_ping_fails, PingFields, PingAt
    <3> QED BY <3>1 DEF PingInv, PassedOver, Late
  <2>4. CASE PingTick
    <3>1. ping'.begin = ping.begin /\ ping'.pc = ping.pc
      BY <1>k, <2>4 DEF PingFields
    <3>2. icmp.queue = << >>
      BY <2>4, <3>1 DEF PingTick, PingAt
    <3> QED BY <3>1, <3>2 DEF PingInv, PassedOver, Late
  <2> QED BY <2>1, <2>2, <2>3, <2>4
<1>5. PingSound'
  <2> SUFFICES ASSUME ping'.pc = "done"
               PROVE  ping'.res # 0 /\ (~pingWorld.fails =>
                        \A i \in DOMAIN icmp.came :
                          PingAnswer(icmp.came[i]) => Late(icmp.came[i].at)')
    BY DEF PingSound, AliveTruthful, AnswerNotMissed, PingAt, PingAnswer, Late
  <2>1. Gone /\ ~PingTick
    BY <1>1, <1>h, <1>s, <1>c, <1>r, <1>k DEF PingFields
  <2>2. ping'.res # 0 /\ ping'.begin = ping.begin
    BY <2>1 DEF PingFields
  <2> SUFFICES ASSUME ~pingWorld.fails, NEW i \in 1 .. Len(icmp.came), PingAnswer(icmp.came[i])
               PROVE  Late(icmp.came[i].at)
    BY <1>t, <2>2 DEF Late
  <2>3. ping.pc \in {"look", "receive"} /\ Late(ping.now)
    <3>1. CASE PingHost \/ send_ping
      <4>1. ASSUME NEW b \in PingBuf, ping' = [ping EXCEPT !.pc = "send", !.buf = b] PROVE FALSE
        BY <4>1, <1>t, PingBufs DEF PingFields
      <4>2. ASSUME ping' = [ping EXCEPT !.pc = "look", !.begin = ping.now] PROVE FALSE
        BY <4>2, <1>n, <1>t, PingTimes DEF PingFields
      <4>3. \A kind \in PacketKinds, seq \in {0, 1} :
              [kind |-> kind, seq |-> seq, at |-> 0] \in PingBuf
        BY DEF PingBuf
      <4>4. CASE PingHost
        BY <4>1, <4>3, <4>4, <1>t DEF PingHost
      <4>5. CASE send_ping
        BY <4>2, <4>5 DEF send_ping
      <4> QED BY <3>1, <4>4, <4>5
    <3>2. CASE PingLooksAtClock
      <4>1. ping.pc = "look"
        BY <3>2 DEF PingLooksAtClock, PingAt
      <4>2. ping.now - ping.begin > PingTimeout
        BY <1>c, <3>2 DEF PingFields
      <4> QED BY <4>1, <4>2, <1>n, <1>t DEF Late
    <3>3. CASE recv_ping_fails
      <4>1. ping.pc = "receive" /\ ping.now >= ping.until
        BY <3>3 DEF recv_ping_fails, PingAt
      <4>2. Late(ping.until)
        BY <4>1, <1>z DEF PingClock, PingAt
      <4> QED BY <4>1, <4>2, <1>n, <1>t DEF Late
    <3> QED BY <2>1, <3>1, <3>2, <3>3
  <2>4. CASE i <= TakenPackets
    <3>1. i \in 1 .. TakenPackets
      BY <2>4, <1>l
    <3> QED BY <3>1, <2>3 DEF PingInv, PassedOver
  <2>5. CASE i > TakenPackets
    <3>1. i - TakenPackets \in 1 .. Len(icmp.queue) /\ TakenPackets + (i - TakenPackets) = i
      BY <2>5, <1>l
    <3>2. icmp.came[i].at = ping.now
      BY <3>1, <2>3, <1>o DEF PingInv, PassedOver, PacketsInOrder
    <3> QED BY <3>2, <2>3
  <2> QED BY <2>4, <2>5, <1>l
<1>6. BufferTruthful'
  <2>0. BufferTruthful
    BY DEF PingInv
  <2>1. CASE PingHost /\ ~Gone
    <3>1. ~ping.received
      BY <2>0, <2>1 DEF PingHost, PingAt, BufferTruthful
    <3> QED BY <3>1, <2>1, <1>h DEF PingFields, BufferTruthful
  <2>2. ~PingHost \/ Gone => /\ ping'.received = ping.received /\ ping'.buf = ping.buf
                             /\ ping'.pc \in {"idle", "send"} => ping.pc \in {"idle", "send"}
    BY <1>s, <1>c, <1>r, <1>k DEF PingFields, send_ping
  <2>3. Echoes' = Echoes
    BY DEF Echoes
  <2> QED BY <2>0, <2>1, <2>2, <2>3 DEF BufferTruthful
<1> QED BY <1>2, <1>3, <1>4, <1>5, <1>6, <1>p DEF PingInv

\* A packet is taken: by the request that is waited for, or by one that was given up.
LEMMA recv_pingKeeps ==
  ASSUME PingInv, recv_ping
  PROVE  PingInv'
<1>t. /\ ping \in PingRecord
      /\ icmp \in [queue : Seq(Echoes), came : Seq(Echoes)]
      /\ icmp.queue \in Seq(Echoes) /\ icmp.came \in Seq(Echoes)
      /\ PingTimeout \in Nat
  BY PingAssumption DEF PingInv, PingTyped
<1>o. PacketsInOrder
  BY DEF PingInv
<1>l. /\ Len(icmp.queue) \in Nat /\ Len(icmp.came) \in Nat /\ Len(icmp.queue) <= Len(icmp.came)
      /\ TakenPackets \in Nat /\ Len(icmp.came) = TakenPackets + Len(icmp.queue)
  <2>1. \A q, c \in Nat : q <= c => c - q \in Nat /\ c = (c - q) + q
    OBVIOUS
  <2>2. Len(icmp.queue) \in Nat /\ Len(icmp.came) \in Nat
    BY <1>t
  <2>3. Len(icmp.queue) <= Len(icmp.came)
    BY <1>o DEF PacketsInOrder
  <2>4. TakenPackets = Len(icmp.came) - Len(icmp.queue)
    BY DEF TakenPackets
  <2> QED BY <2>1, <2>2, <2>3, <2>4
<1>n. /\ ping.now \in Nat /\ ping.begin \in Nat /\ ping.until \in Nat
      /\ ping.abandoned \in Nat /\ ping.buf \in PingBuf
  BY <1>t DEF PingRecord
<1>1. /\ ping.pc = "receive" /\ icmp.queue # << >> /\ pingWorld' = pingWorld
      /\ icmp' = [icmp EXCEPT !.queue = Tail(@)]
  BY DEF recv_ping, PingAt
<1> DEFINE packet == Head(icmp.queue)
           n == TakenPackets + 1
<1>2. icmp'.came = icmp.came /\ icmp'.queue = Tail(icmp.queue)
  BY <1>1, <1>t
<1>3. /\ Len(icmp.queue) >= 1 /\ packet = icmp.queue[1] /\ packet \in Echoes
      /\ Tail(icmp.queue) \in Seq(Echoes) /\ Len(Tail(icmp.queue)) = Len(icmp.queue) - 1
      /\ \A i \in 1 .. Len(Tail(icmp.queue)) : Tail(icmp.queue)[i] = icmp.queue[i + 1]
  <2>1. Len(icmp.queue) # 0
    BY <1>1, <1>t, EmptySeq
  <2>2. /\ Head(icmp.queue) \in Echoes /\ Tail(icmp.queue) \in Seq(Echoes)
        /\ Len(Tail(icmp.queue)) = Len(icmp.queue) - 1
        /\ \A i \in 1 .. Len(Tail(icmp.queue)) : Tail(icmp.queue)[i] = icmp.queue[i + 1]
    BY <1>1, <1>t, HeadTailProperties
  <2> QED BY <2>1, <2>2, <1>l, <1>t
<1>4. TakenPackets' = n /\ n \in 1 .. Len(icmp.came) /\ packet = icmp.came[n]
  <2>1. packet = icmp.came[TakenPackets + 1]
    BY <1>3, <1>l, <1>o DEF PacketsInOrder
  <2>2. TakenPackets' = TakenPackets + 1
    <3>1. TakenPackets' = Len(icmp.came) - (Len(icmp.queue) - 1)
      BY <1>2, <1>3 DEF TakenPackets
    <3>2. \A q, c, k \in Nat : c = k + q => c - (q - 1) = k + 1
      OBVIOUS
    <3> QED BY <3>1, <3>2, <1>l
  <2>3. TakenPackets + 1 \in 1 .. Len(icmp.came)
    BY <1>3, <1>l
  <2> QED BY <2>1, <2>2, <2>3
<1>5. PacketsInOrder'
  <2>1. Len(icmp'.queue) <= Len(icmp'.came)
    BY <1>2, <1>3, <1>l
  <2>2. ASSUME NEW i \in 1 .. Len(Tail(icmp.queue))
        PROVE  Tail(icmp.queue)[i] = icmp.came[n + i]
    <3>1. i + 1 \in 1 .. Len(icmp.queue)
      BY <1>3, <1>l
    <3>2. icmp.queue[i + 1] = icmp.came[TakenPackets + (i + 1)]
      BY <3>1, <1>o DEF PacketsInOrder
    <3>3. TakenPackets + (i + 1) = n + i
      BY <1>l
    <3> QED BY <3>2, <3>3, <1>3
  <2> HIDE DEF n
  <2> QED BY <2>1, <2>2, <1>2, <1>4 DEF PacketsInOrder
<1> DEFINE filled == [ping EXCEPT !.buf = packet, !.received = TRUE]
<1>d. /\ filled \in PingRecord /\ filled.pc = ping.pc /\ filled.now = ping.now
      /\ filled.begin = ping.begin /\ filled.until = ping.until
      /\ filled.abandoned = ping.abandoned /\ filled.buf = packet /\ filled.received = TRUE
      /\ filled.res = ping.res /\ ReceiveEnds(filled)
  <2>1. packet \in PingBuf
    BY <1>3 DEF Echoes, PingBuf
  <2>2. ReceiveEnds(filled)
    BY DEF recv_ping
  <2> HIDE DEF packet
  <2>3. PingFields(filled, ping.pc, ping.now, ping.begin, ping.until, ping.abandoned, packet,
                   TRUE, ping.res)
    BY <2>1, <1>t, PingBufs
  <2> QED BY <2>2, <2>3 DEF PingFields
<1> HIDE DEF filled
<1>e. \/ /\ ping.abandoned # 0 /\ ping'.pc = "receive"
         /\ ping' \in PingRecord /\ ping'.buf = packet /\ ping'.received = TRUE
      \/ /\ ping.abandoned = 0 /\ decode_reply(packet) = -2 /\ ping'.pc = "look"
         /\ ping' \in PingRecord /\ ping'.buf = packet /\ ping'.received = TRUE
         /\ ping'.abandoned = 0
      \/ /\ ping.abandoned = 0 /\ decode_reply(packet) \in {-1, 0} /\ ping'.pc = "done"
         /\ ping'.res = decode_reply(packet) /\ ping'.abandoned = 0
         /\ ping' \in PingRecord /\ ping'.buf = packet /\ ping'.received = TRUE
  <2> HIDE DEF packet
  <2> QED BY <1>d, <1>1, EndedIs DEF PingFields
<1>f. ping'.now = ping.now /\ ping'.begin = ping.begin /\ ping'.until = ping.until
  <2> HIDE DEF packet
  <2> QED BY <1>d, EndedIs DEF PingFields
<1>8. PingTyped'
  <2>1. icmp' \in [queue : Seq(Echoes), came : Seq(Echoes)]
    BY <1>1, <1>3, <1>t
  <2> QED BY <2>1, <1>e, <1>1 DEF PingTyped, PingRecord, PingBuf, Echoes
<1>9. BufferTruthful'
  <2>1. packet \in Echoes /\ Echoes' = Echoes
    BY <1>1, <1>3 DEF Echoes
  <2> HIDE DEF packet, n
  <2> QED BY <2>1, <1>e, <1>2, <1>4 DEF BufferTruthful
<1>6. CASE ping.abandoned = 0
  <2>4. CASE decode_reply(packet) = -2
    <3>1. ping'.pc = "look"
      BY <1>6, <1>e, <2>4
    <3>2. ~PingAnswer(packet)
      BY <2>4 DEF decode_reply, PingAnswer, IsReply, TooShort
    <3>3. PingClock'
      BY <3>1, <1>f, <1>6, <1>e, <1>1, <1>n, <1>t DEF PingInv, PingClock, PingAt, Late
    <3>4. PassedOver'
      <4> SUFFICES ASSUME ~pingWorld.fails
                   PROVE  /\ \A i \in 1 .. n : PingAnswer(icmp.came[i]) => Late(icmp.came[i].at)
                          /\ \A i \in 1 .. Len(Tail(icmp.queue)) :
                               Tail(icmp.queue)[i].at = ping.now
        <5> HIDE DEF n
        <5> QED BY <1>1, <1>2, <1>4, <1>f DEF PassedOver, PingAnswer, Late
      <4>1. /\ \A i \in 1 .. TakenPackets : PingAnswer(icmp.came[i]) => Late(icmp.came[i].at)
            /\ \A i \in 1 .. Len(icmp.queue) : icmp.queue[i].at = ping.now
        BY <1>1 DEF PingInv, PassedOver
      <4>2. \A i \in 1 .. n : i = n \/ i \in 1 .. TakenPackets
        BY <1>l
      <4>3. \A i \in 1 .. n : PingAnswer(icmp.came[i]) => Late(icmp.came[i].at)
        BY <4>1, <4>2, <3>2, <1>4
      <4>4. \A i \in 1 .. Len(Tail(icmp.queue)) : i + 1 \in 1 .. Len(icmp.queue)
        BY <1>3, <1>l
      <4> QED BY <4>1, <4>3, <4>4, <1>3
    <3>5. PingSound'
      BY <3>1 DEF PingSound, AliveTruthful, AnswerNotMissed, PingAt
    <3> QED BY <1>8, <1>9, <1>5, <3>3, <3>4, <3>5 DEF PingInv
  <2>5. CASE decode_reply(packet) # -2
    <3>1. ping'.pc = "done" /\ ping'.res = decode_reply(packet)
      BY <1>6, <1>e, <2>5
    <3>2. PingClock' /\ PassedOver'
      BY <3>1 DEF PingClock, PassedOver, PingAt
    <3>3. AliveTruthful'
      <4> SUFFICES ASSUME decode_reply(packet) = 0
                   PROVE  \E i \in 1 .. Len(icmp.came) : PingAnswer(icmp.came[i])'
        BY <3>1, <1>2, <1>t DEF AliveTruthful
      <4>1. PingAnswer(packet)
        BY DEF decode_reply, PingAnswer, IsReply, TooShort
      <4>2. PingAnswer(icmp.came[n])
        BY <4>1, <1>4
      <4> QED BY <4>2, <1>4, <1>1 DEF PingAnswer
    <3>4. AnswerNotMissed'
      <4>f. /\ icmp'.came = icmp.came /\ ping'.begin = ping.begin /\ pingWorld' = pingWorld
            /\ DOMAIN icmp.came = 1 .. Len(icmp.came) /\ ping'.res = decode_reply(packet)
        BY <3>1, <1>1, <1>2, <1>t, <1>f
      <4> SUFFICES ASSUME decode_reply(packet) # 0, ~pingWorld.fails
                   PROVE  \A i \in 1 .. Len(icmp.came) : PingAnswer(icmp.came[i]) =>
                            \/ Late(icmp.came[i].at)
                            \/ \E j \in 1 .. i - 1 : icmp.came[j].kind = "options"
        <5> HIDE DEF packet
        <5> QED BY <4>f DEF AnswerNotMissed, PingAnswer, Late
      <4> SUFFICES ASSUME NEW i \in 1 .. Len(icmp.came), PingAnswer(icmp.came[i])
                   PROVE  \/ Late(icmp.came[i].at)
                          \/ \E j \in 1 .. i - 1 : icmp.came[j].kind = "options"
        OBVIOUS
      <4>1. packet.kind = "options"
        BY <2>5 DEF decode_reply, TooShort, PingAnswer
      <4>2. i # n
        BY <4>1, <1>4 DEF PingAnswer
      <4>3. CASE i < n
        <5>1. i \in 1 .. TakenPackets
          BY <4>3, <1>l
        <5> QED BY <5>1, <1>1 DEF PingInv, PassedOver
      <4>4. CASE i > n
        <5>1. n \in 1 .. i - 1
          BY <4>4, <1>4, <1>l
        <5> QED BY <5>1, <4>1, <1>4
      <4> QED BY <4>2, <4>3, <4>4, <1>4, <1>l
    <3> QED BY <1>8, <1>9, <1>5, <3>2, <3>3, <3>4 DEF PingInv, PingSound
  <2> QED BY <2>4, <2>5
<1>7. CASE ping.abandoned # 0
  <2>2. ping'.pc = "receive"
    BY <1>7, <1>e
  <2>4. Late(ping.now)
    BY <1>1, <1>7 DEF PingInv, PingClock
  <2>5. PingClock'
    BY <2>2, <1>f, <2>4, <1>1, <1>n, <1>t DEF PingInv, PingClock, PingAt, Late
  <2>6. PassedOver'
    <4> SUFFICES ASSUME ~pingWorld.fails
                 PROVE  /\ \A i \in 1 .. n : PingAnswer(icmp.came[i]) => Late(icmp.came[i].at)
                        /\ \A i \in 1 .. Len(Tail(icmp.queue)) :
                             Tail(icmp.queue)[i].at = ping.now
      <5> HIDE DEF n
      <5> QED BY <1>1, <1>2, <1>4, <1>f DEF PassedOver, PingAnswer, Late
    <4>1. /\ \A i \in 1 .. TakenPackets : PingAnswer(icmp.came[i]) => Late(icmp.came[i].at)
          /\ \A i \in 1 .. Len(icmp.queue) : icmp.queue[i].at = ping.now
      BY <1>1 DEF PingInv, PassedOver
    <4>2. \A i \in 1 .. n : i = n \/ i \in 1 .. TakenPackets
      BY <1>l
    <4>3. 1 \in 1 .. Len(icmp.queue)
      BY <1>3, <1>l
    <4>4. Late(icmp.came[n].at)
      BY <4>1, <4>3, <2>4, <1>4, <1>3
    <4>5. \A i \in 1 .. n : PingAnswer(icmp.came[i]) => Late(icmp.came[i].at)
      BY <4>1, <4>2, <4>4
    <4>6. \A i \in 1 .. Len(Tail(icmp.queue)) : i + 1 \in 1 .. Len(icmp.queue)
      BY <1>3, <1>l
    <4> QED BY <4>1, <4>5, <4>6, <1>3
  <2>7. PingSound'
    BY <2>2 DEF PingSound, AliveTruthful, AnswerNotMissed, PingAt
  <2> QED BY <1>8, <1>9, <1>5, <2>5, <2>6, <2>7 DEF PingInv
<1> QED BY <1>6, <1>7

\* A pending request fails: what is in the buffer is taken for what it has received.
LEMMA recv_ping_brokenKeeps ==
  ASSUME PingInv, recv_ping_broken
  PROVE  PingInv'
<1>t. /\ ping \in PingRecord /\ icmp.came \in Seq(Echoes)
      /\ ping.now \in Nat /\ ping.begin \in Nat
      /\ ping.until \in Nat /\ ping.abandoned \in Nat /\ PingTimeout \in Nat
  BY PingAssumption DEF PingInv, PingTyped, PingRecord
<1>1. ping.pc = "receive" /\ pingWorld.fails /\ UNCHANGED <<pingWorld, icmp>> /\ ReceiveEnds(ping)
  BY DEF recv_ping_broken, PingAt
<1>2. /\ ping' \in PingRecord /\ ping'.now = ping.now /\ ping'.begin = ping.begin
      /\ ping'.until = ping.until /\ ping'.buf = ping.buf /\ ping'.received = ping.received
      /\ ping'.pc \in {"receive", "look", "done"}
      /\ ping'.abandoned # 0 => ping.abandoned # 0
      /\ ping'.pc = "done" => ping'.res = decode_reply(ping.buf)
  BY <1>1, <1>t, EndedIs DEF PingFields
<1>3. PingTyped'
  BY <1>1, <1>2 DEF PingInv, PingTyped, PingRecord, PingBuf, Echoes
<1>4. PacketsInOrder' /\ PassedOver'
  BY <1>1 DEF PingInv, PacketsInOrder, TakenPackets, PassedOver
<1>5. PingClock'
  BY <1>1, <1>2 DEF PingInv, PingClock, PingAt, Late
<1>6. BufferTruthful'
  BY <1>1, <1>2 DEF PingInv, BufferTruthful, Echoes
<1>7. AliveTruthful'
  <2> SUFFICES ASSUME decode_reply(ping.buf) = 0, ping.received
               PROVE  \E i \in 1 .. Len(icmp.came) : PingAnswer(icmp.came[i])
    BY <1>1, <1>2, <1>t DEF AliveTruthful, PingAt, PingAnswer
  <2>1. PICK i \in 1 .. Len(icmp.came) : icmp.came[i] = ping.buf
    BY DEF PingInv, BufferTruthful
  <2>2. PingAnswer(ping.buf)
    BY DEF decode_reply, PingAnswer, IsReply, TooShort
  <2> QED BY <2>1, <2>2
<1>8. AnswerNotMissed'
  BY <1>1 DEF AnswerNotMissed
<1> QED BY <1>3, <1>4, <1>5, <1>6, <1>7, <1>8 DEF PingInv, PingSound

\* A packet comes: it is the last that waits, and it comes now.
LEMMA PacketComesKeeps ==
  ASSUME PingInv, PacketComes
  PROVE  PingInv'
<1>t. /\ icmp.queue \in Seq(Echoes) /\ icmp.came \in Seq(Echoes) /\ ping.now \in Nat
      /\ PingTimeout \in Nat
  BY PingAssumption DEF PingInv, PingTyped, PingRecord
<1>o. PacketsInOrder
  BY DEF PingInv
<1>l. /\ Len(icmp.queue) \in Nat /\ Len(icmp.came) \in Nat /\ Len(icmp.queue) <= Len(icmp.came)
      /\ TakenPackets \in Nat /\ Len(icmp.came) = TakenPackets + Len(icmp.queue)
  <2>1. \A q, c \in Nat : q <= c => c - q \in Nat /\ c = (c - q) + q
    OBVIOUS
  <2>2. Len(icmp.queue) \in Nat /\ Len(icmp.came) \in Nat
    BY <1>t
  <2>3. Len(icmp.queue) <= Len(icmp.came)
    BY <1>o DEF PacketsInOrder
  <2>4. TakenPackets = Len(icmp.came) - Len(icmp.queue)
    BY DEF TakenPackets
  <2> QED BY <2>1, <2>2, <2>3, <2>4
<1>m. DOMAIN icmp.came = 1 .. Len(icmp.came)
  BY <1>t
<1>1. PICK kind \in pingWorld.kinds, seq \in {0, 1} :
        icmp' = [queue |-> Append(icmp.queue, [kind |-> kind, seq |-> seq, at |-> ping.now]),
                 came |-> Append(icmp.came, [kind |-> kind, seq |-> seq, at |-> ping.now])]
  BY DEF PacketComes
<1> DEFINE packet == [kind |-> kind, seq |-> seq, at |-> ping.now]
<1>2. packet \in Echoes /\ packet.at = ping.now
  BY <1>t DEF Echoes
<1>3. /\ icmp'.queue = Append(icmp.queue, packet) /\ icmp'.came = Append(icmp.came, packet)
      /\ icmp' = [queue |-> Append(icmp.queue, packet), came |-> Append(icmp.came, packet)]
      /\ pingWorld' = pingWorld /\ ping' = ping /\ ping.pc \in {"look", "receive"}
  BY <1>1 DEF PacketComes
<1> HIDE DEF packet
<1>4. /\ icmp'.queue \in Seq(Echoes) /\ icmp'.came \in Seq(Echoes)
      /\ Len(icmp'.queue) = Len(icmp.queue) + 1 /\ Len(icmp'.came) = Len(icmp.came) + 1
      /\ \A i \in 1 .. Len(icmp.queue) : icmp'.queue[i] = icmp.queue[i]
      /\ \A i \in 1 .. Len(icmp.came) : icmp'.came[i] = icmp.came[i]
      /\ icmp'.queue[Len(icmp.queue) + 1] = packet /\ icmp'.came[Len(icmp.came) + 1] = packet
  BY <1>t, <1>2, <1>3, AppendProperties
<1>5. TakenPackets' = TakenPackets /\ TakenPackets \in 0 .. Len(icmp.came)
  <2>1. TakenPackets' = (Len(icmp.came) + 1) - (Len(icmp.queue) + 1)
    BY <1>4 DEF TakenPackets
  <2>2. \A q, c, k \in Nat : c = k + q => (c + 1) - (q + 1) = k
    OBVIOUS
  <2>3. TakenPackets' = TakenPackets
    BY <2>1, <2>2, <1>l
  <2> QED BY <2>3, <1>l
<1>6. PingTyped'
  BY <1>3, <1>4 DEF PingInv, PingTyped, PingRecord, PingBuf, Echoes
<1>7. PacketsInOrder'
  <2>1. ASSUME NEW i \in 1 .. Len(icmp.queue) + 1
        PROVE  icmp'.queue[i] = icmp'.came[TakenPackets + i]
    <3>1. CASE i = Len(icmp.queue) + 1
      <4>1. TakenPackets + i = Len(icmp.came) + 1
        BY <3>1, <1>l
      <4> QED BY <4>1, <3>1, <1>4
    <3>2. CASE i # Len(icmp.queue) + 1
      <4>1. i \in 1 .. Len(icmp.queue) /\ TakenPackets + i \in 1 .. Len(icmp.came)
        BY <3>2, <1>l
      <4> QED BY <4>1, <1>4 DEF PingInv, PacketsInOrder
    <3> QED BY <3>1, <3>2
  <2>2. Len(icmp'.queue) <= Len(icmp'.came)
    BY <1>4, <1>l
  <2> QED BY <2>1, <2>2, <1>4, <1>5 DEF PacketsInOrder
<1>8. PingClock'
  BY <1>3 DEF PingInv, PingClock, PingAt, Late
<1>9. PassedOver'
  <2> SUFFICES ASSUME ~pingWorld.fails
               PROVE  /\ \A i \in 1 .. TakenPackets :
                           PingAnswer(icmp'.came[i]) => Late(icmp'.came[i].at)
                      /\ \A i \in 1 .. Len(icmp.queue) + 1 : icmp'.queue[i].at = ping.now
    BY <1>3, <1>4, <1>5 DEF PassedOver, PingAnswer, Late
  <2>1. /\ \A i \in 1 .. TakenPackets : PingAnswer(icmp.came[i]) => Late(icmp.came[i].at)
        /\ \A i \in 1 .. Len(icmp.queue) : icmp.queue[i].at = ping.now
    BY <1>3 DEF PingInv, PassedOver
  <2>2. \A i \in 1 .. TakenPackets : i \in 1 .. Len(icmp.came)
    BY <1>5, <1>l
  <2>3. \A i \in 1 .. Len(icmp.queue) + 1 : i = Len(icmp.queue) + 1 \/ i \in 1 .. Len(icmp.queue)
    BY <1>l
  <2> QED BY <2>1, <2>2, <2>3, <1>2, <1>4
<1>10. PingSound'
  BY <1>3 DEF PingSound, AliveTruthful, AnswerNotMissed, PingAt
<1>11. BufferTruthful'
  <2>1. BufferTruthful
    BY DEF PingInv
  <2>2. Echoes' = Echoes /\ \A i \in 1 .. Len(icmp.came) : i \in 1 .. Len(icmp'.came)
    BY <1>3, <1>4, <1>l DEF Echoes
  <2> QED BY <2>1, <2>2, <1>3, <1>4 DEF BufferTruthful
<1> QED BY <1>6, <1>7, <1>8, <1>9, <1>10, <1>11 DEF PingInv

\* Every step of PingHost, of the clock and of the network keeps the invariant.
LEMMA PingNextInv == PingInv /\ [PingNext]_pingVars => PingInv'
<1> SUFFICES ASSUME PingInv, [PingNext]_pingVars PROVE PingInv'
  OBVIOUS
<1>1. CASE UNCHANGED pingVars
  BY <1>1 DEF pingVars, PingInv, PingTyped, PingRecord, PingBuf, Echoes, PacketsInOrder,
              TakenPackets, PingClock, Late,
              PassedOver, PingAnswer, BufferTruthful, PingSound, AliveTruthful, AnswerNotMissed,
              PingAt
<1>2. CASE PingHost \/ send_ping \/ PingLooksAtClock \/ recv_ping_fails \/ PingTick
  <2>1. UNCHANGED <<pingWorld, icmp>>
    BY <1>2 DEF PingHost, send_ping, PingLooksAtClock, recv_ping_fails, PingTick
  <2> QED BY <1>2, <2>1, PingGoesOn
<1>3. CASE recv_ping
  BY <1>3, recv_pingKeeps
<1>4. CASE PacketComes
  BY <1>4, PacketComesKeeps
<1>5. CASE recv_ping_broken
  BY <1>5, recv_ping_brokenKeeps
<1> QED BY <1>1, <1>2, <1>3, <1>4, <1>5 DEF PingNext, PingSteps

\* PingHost of c_ping, whatever packets come and in whatever order, whatever receive fails, and
\* whatever the timeout is: a host is called alive only if an answer with the process's id came
\* (or, before anything was received, a pending receive failed), and an answer that came in
\* time is not missed, but for a failing receive and for a packet with IP options before it.
THEOREM PingInvariant == PingSpec => []PingSound
<1>1. PingInv => PingSound
  BY DEF PingInv
<1> QED BY <1>1, PingInitInv, PingNextInv, PTL DEF PingSpec

------------------------------------------------------------------------------
SockSpec == SockInit /\ [][SockNext]_sockVars

Both == {"conn", "acc"}
Directions == {"r", "w"}
\* The names of the steps, the calls, the errors and the states.
SockNames ==
  {"idle", "turn", "take", "move", "wait", "done", "close", "reset", "create", "accept",
   "fail", "both", "end", "try", "none", "Create", "Connect_s", "Bind_s", "Listen_s",
   "Accept_s", "Close", "Recv", "RecvAny", "Send", "PARAM", "CREATE", "CONNECT", "BIND",
   "LISTEN", "ACCEPT", "TRANSFER", "END", "TIMEOUT", "Connect", "Bind", "Listen", "Accept", "up",
   "over", "free", "pending", "failed"}
SockObject ==
  [sock : BOOLEAN, Initialized : BOOLEAN, status : SUBSET SockNames, error : SockNames,
   ReadInUse : BOOLEAN, WriteInUse : BOOLEAN, nonBlocking : BOOLEAN]
SockCall ==
  [pc : SockNames, op : SockNames, x : Both, then : SockNames, size : Nat, got : Nat, res : {0, 1},
   opens : Nat, ready : BOOLEAN]
SockRequest == [state : SockNames, event : BOOLEAN, n : Nat]
Connection ==
  [made : BOOLEAN, peer : SockNames, inbox : Seq(Nat), sent : Nat, heard : Seq(Nat), out : Nat,
   told : [Directions -> Nat]]
SockTyped ==
  /\ sockWorld \in SockWorlds
  /\ socks \in [Both -> SockObject] /\ calls \in [SockThreads -> SockCall]
  /\ ov \in [Directions -> SockRequest] /\ net \in Connection

\* Two readers of c_sock_over would share one request (README).
OneReader == sockWorld.over => ~({"r1", "r2"} \subseteq sockWorld.users)

\* A call that transfers data: where it closes its socket it comes back to its end; only
\* c_sock_over waits; it has not got more than it asks for while it goes on.
UserCall(c) ==
  /\ IF c.pc = "idle" THEN c.got = 0 ELSE c.x = Link
  /\ c.pc \in {"close", "reset"} => c.then = "done"
  /\ c.pc = "wait" => sockWorld.over
  /\ c.pc \in {"turn", "take", "move", "wait"} => c.got <= c.size
UserCalls == \A t \in sockWorld.users : UserCall(calls[t])

\* The call of the owner: which socket it is for, which it has closed by then, with an error
\* if it fails, and that it is still ready if it was.
Ahead(c, pc) == c.pc = pc \/ (c.pc \in {"close", "reset"} /\ c.then = pc)
OwnerCall(c, s) ==
  /\ c.op = "Connect_s" => c.x = "conn" /\ ~sockWorld.server
  /\ c.op = "Bind_s" => c.x = "conn" /\ sockWorld.server
  /\ c.op = "Accept_s" => c.x = "acc" /\ sockWorld.server
  /\ Ahead(c, "create") => c.op = "Create" /\ c.x = "conn"
  /\ Ahead(c, "accept") => c.op = "Accept_s"
  /\ Ahead(c, "both") \/ Ahead(c, "end") => c.op = "Close"
  /\ c.pc \in {"close", "reset"} => c.then \in {"create", "accept", "fail", "both", "end"}
  /\ c.pc \in {"create", "accept", "fail", "reset"} => ~s[c.x].sock
  /\ Ahead(c, "fail") => s[c.x].error # "none"
  /\ c.pc = "try" => c.op # "Close" /\ c.ready = s["conn"].Initialized
OwnerFree == calls[Owner].pc = "idle" \/ calls[Owner].op = "Close"
OwnerAlone == OwnerFree \/ \A t \in sockWorld.users : calls[t].pc = "idle"

\* The sockets and the connection.
SocketsHeld ==
  /\ \A x \in Both : socks[x].Initialized => socks[x].sock
  /\ \A x \in Both : socks[x].nonBlocking => sockWorld.nonBlocking
  /\ net.made => socks[Link].sock
  /\ net.peer = "reset" => net.inbox = << >>

\* A flag is set only while a thread is at work.
FlagsHeld ==
  /\ socks[Link].ReadInUse => \E t \in Readers : calls[t].pc # "idle"
  /\ socks[Link].WriteInUse => Writer \in sockWorld.users /\ calls[Writer].pc # "idle"
\* A request that is done has a thread that waits for it.
DoneAwaited ==
  \A d \in Directions : ov[d].state = "done" =>
    \E t \in sockWorld.users : Request(t) = d /\ calls[t].pc = "wait"

\* The account of the bytes: reported, moved by the calls in progress, and moved by a request
\* whose thread does not know it yet.
GotBy(t) == IF t \in sockWorld.users THEN calls[t].got ELSE 0
Balance(n, o, d) ==
  n.told[d] + Cancelled(o[d]) - IF d = "r" THEN Len(n.heard) ELSE n.out
ReadAccount == net.made => Balance(net, ov, "r") + GotBy("r1") + GotBy("r2") = 0
WriteAccount == net.made => Balance(net, ov, "w") + GotBy(Writer) = 0
UpTo(n) == [i \in 1 .. n |-> i]
InStream == net.made /\ net.peer # "reset" => net.heard \o net.inbox = UpTo(net.sent)

SockInv ==
  /\ SockTyped /\ OneReader /\ UserCalls /\ OwnerCall(calls[Owner], socks) /\ OwnerAlone
  /\ SocketsHeld /\ FlagsHeld /\ DoneAwaited /\ ReadAccount /\ WriteAccount /\ InStream
  /\ OpenedTruthfully

------------------------------------------------------------------------------
\* Each of them is one (cited instead of the set, which is too long for the provers).
LEMMA NamesAre ==
  /\ "idle" \in SockNames /\ "turn" \in SockNames /\ "take" \in SockNames
  /\ "move" \in SockNames /\ "wait" \in SockNames /\ "done" \in SockNames
  /\ "close" \in SockNames /\ "reset" \in SockNames /\ "create" \in SockNames
  /\ "accept" \in SockNames /\ "fail" \in SockNames /\ "both" \in SockNames
  /\ "end" \in SockNames /\ "try" \in SockNames /\ "none" \in SockNames
  /\ "Create" \in SockNames /\ "Connect_s" \in SockNames /\ "Bind_s" \in SockNames
  /\ "Listen_s" \in SockNames /\ "Accept_s" \in SockNames /\ "Close" \in SockNames
  /\ "Recv" \in SockNames /\ "RecvAny" \in SockNames /\ "Send" \in SockNames
  /\ "PARAM" \in SockNames /\ "CREATE" \in SockNames /\ "CONNECT" \in SockNames
  /\ "BIND" \in SockNames /\ "LISTEN" \in SockNames /\ "ACCEPT" \in SockNames
  /\ "TRANSFER" \in SockNames /\ "END" \in SockNames /\ "TIMEOUT" \in SockNames
  /\ "Connect" \in SockNames
  /\ "Bind" \in SockNames /\ "Listen" \in SockNames /\ "Accept" \in SockNames
  /\ "up" \in SockNames /\ "over" \in SockNames /\ "free" \in SockNames
  /\ "pending" \in SockNames /\ "failed" \in SockNames
BY DEF SockNames

\* A stream that is taken from at the front and added to at the end.
LEMMA TakenInOrder ==
  ASSUME NEW s \in Seq(Nat), NEW q \in Seq(Nat), NEW n \in 0 .. Len(q)
  PROVE  /\ SubSeq(q, 1, n) \in Seq(Nat) /\ SubSeq(q, n + 1, Len(q)) \in Seq(Nat)
         /\ Len(s \o SubSeq(q, 1, n)) = Len(s) + n
         /\ (s \o SubSeq(q, 1, n)) \o SubSeq(q, n + 1, Len(q)) = s \o q
<1>1. Len(q) \in Nat /\ Len(s) \in Nat /\ DOMAIN q = 1 .. Len(q)
  OBVIOUS
<1>2. \A i \in 1 .. Len(q) : q[i] \in Nat
  OBVIOUS
<1>3. /\ SubSeq(q, 1, n) \in Seq(Nat) /\ Len(SubSeq(q, 1, n)) = n
      /\ \A i \in 1 .. n : SubSeq(q, 1, n)[i] = q[i]
  <2>1. \A i \in 1 .. n : q[i] \in Nat
    BY <1>1, <1>2
  <2>2. /\ SubSeq(q, 1, n) \in Seq(Nat)
        /\ Len(SubSeq(q, 1, n)) = IF 1 <= n THEN n - 1 + 1 ELSE 0
        /\ \A i \in 1 .. n - 1 + 1 : SubSeq(q, 1, n)[i] = q[1 + i - 1]
    BY <2>1, SubSeqProperties
  <2> QED BY <2>2
<1>4. /\ SubSeq(q, n + 1, Len(q)) \in Seq(Nat) /\ Len(SubSeq(q, n + 1, Len(q))) = Len(q) - n
      /\ \A i \in 1 .. Len(q) - n : SubSeq(q, n + 1, Len(q))[i] = q[n + i]
  <2>1. \A i \in n + 1 .. Len(q) : q[i] \in Nat
    BY <1>1, <1>2
  <2>2. n + 1 \in Int /\ Len(q) \in Int
    BY <1>1
  <2>3. /\ SubSeq(q, n + 1, Len(q)) \in Seq(Nat)
        /\ Len(SubSeq(q, n + 1, Len(q))) = IF n + 1 <= Len(q) THEN Len(q) - (n + 1) + 1 ELSE 0
        /\ \A i \in 1 .. Len(q) - (n + 1) + 1 :
             SubSeq(q, n + 1, Len(q))[i] = q[(n + 1) + i - 1]
    BY <2>1, <2>2, SubSeqProperties
  <2>4. Len(SubSeq(q, n + 1, Len(q))) = Len(q) - n
    BY <2>3, <1>1
  <2>5. ASSUME NEW i \in 1 .. Len(q) - n PROVE SubSeq(q, n + 1, Len(q))[i] = q[n + i]
    <3>1. i \in 1 .. Len(q) - (n + 1) + 1 /\ (n + 1) + i - 1 = n + i
      BY <1>1
    <3> QED BY <3>1, <2>3
  <2> QED BY <2>3, <2>4, <2>5
<1> DEFINE a == SubSeq(q, 1, n)
           b == SubSeq(q, n + 1, Len(q))
<1>5. a \o b = q
  <2>1. a \in Seq(Nat) /\ b \in Seq(Nat) /\ Len(a) = n /\ Len(b) = Len(q) - n
    BY <1>3, <1>4
  <2>2. /\ a \o b \in Seq(Nat) /\ Len(a \o b) = Len(a) + Len(b)
        /\ \A i \in 1 .. Len(a) + Len(b) :
             (a \o b)[i] = IF i <= Len(a) THEN a[i] ELSE b[i - Len(a)]
    <3> HIDE DEF a, b
    <3> QED BY <2>1, ConcatProperties
  <2>3. \A i \in 1 .. n : a[i] = q[i]
    BY <1>3
  <2>4. \A i \in 1 .. Len(q) - n : b[i] = q[n + i]
    BY <1>4
  <2> HIDE DEF a, b
  <2>5. Len(a \o b) = Len(q)
    BY <2>1, <2>2, <1>1
  <2>6. ASSUME NEW i \in 1 .. Len(a \o b) PROVE (a \o b)[i] = q[i]
    <3>0. i \in 1 .. Len(q) /\ i \in 1 .. Len(a) + Len(b)
      BY <2>5, <2>2
    <3>1. CASE i <= n
      BY <3>0, <3>1, <2>1, <2>2, <2>3
    <3>2. CASE i > n
      <4>1. i - n \in 1 .. Len(q) - n /\ n + (i - n) = i
        BY <3>0, <3>2, <1>1
      <4>2. (a \o b)[i] = b[i - n]
        BY <3>0, <3>2, <2>1, <2>2
      <4> QED BY <4>1, <4>2, <2>4
    <3> QED BY <3>0, <3>1, <3>2, <1>1
  <2> QED BY <2>2, <2>5, <2>6, SeqEqual
<1>6. (s \o a) \o b = s \o (a \o b)
  <2>1. a \in Seq(Nat) /\ b \in Seq(Nat)
    BY <1>3, <1>4
  <2> HIDE DEF a, b
  <2> QED BY <2>1, ConcatAssociative
<1>7. Len(s \o a) = Len(s) + n
  <2>1. a \in Seq(Nat) /\ Len(a) = n
    BY <1>3
  <2> HIDE DEF a, b
  <2> QED BY <2>1, ConcatProperties
<1> QED BY <1>3, <1>4, <1>5, <1>6, <1>7

\* What a sequence becomes when one element is added to it.
LEMMA AppendedTo ==
  ASSUME NEW s \in Seq(Nat), NEW q \in Seq(Nat), NEW x \in Nat
  PROVE  Append(q, x) \in Seq(Nat) /\ s \o Append(q, x) = Append(s \o q, x)
<1> DEFINE e == <<x>>
<1>1. e \in Seq(Nat)
  OBVIOUS
<1>2. Append(q, x) \in Seq(Nat) /\ Append(q, x) = q \o e
  BY AppendProperties, AppendIsConcat
<1>3. s \o q \in Seq(Nat)
  BY ConcatProperties
<1>4. Append(s \o q, x) = (s \o q) \o e
  BY <1>3, AppendIsConcat
<1>5. (s \o q) \o e = s \o (q \o e)
  <2>1. \A s1, t1, u1 \in Seq(Nat) : (s1 \o t1) \o u1 = s1 \o (t1 \o u1)
    BY ConcatAssociative, SMTT(30)
  <2> HIDE DEF e
  <2> QED BY <2>1, <1>1
<1> QED BY <1>2, <1>4, <1>5

\* ... and when the next number is added.
LEMMA AddedInOrder ==
  ASSUME NEW s \in Seq(Nat), NEW q \in Seq(Nat), NEW n \in Nat, s \o q = UpTo(n)
  PROVE  Append(q, n + 1) \in Seq(Nat) /\ s \o Append(q, n + 1) = UpTo(n + 1)
<1> DEFINE u == UpTo(n)
           v == UpTo(n + 1)
<1>1. n + 1 \in Nat
  OBVIOUS
<1>2. Append(q, n + 1) \in Seq(Nat) /\ s \o Append(q, n + 1) = Append(s \o q, n + 1)
  BY <1>1, AppendedTo
<1>4. u \in Seq(Nat) /\ Len(u) = n /\ v \in Seq(Nat) /\ Len(v) = n + 1
      /\ (\A i \in 1 .. n : u[i] = i) /\ (\A i \in 1 .. n + 1 : v[i] = i)
  BY DEF UpTo
<1>6. Append(u, n + 1) = v
  <2> HIDE DEF u, v
  <2>1. /\ Append(u, n + 1) \in Seq(Nat) /\ Len(Append(u, n + 1)) = n + 1
        /\ \A i \in 1 .. n : Append(u, n + 1)[i] = u[i]
        /\ Append(u, n + 1)[n + 1] = n + 1
    BY <1>1, <1>4, AppendProperties
  <2>2. \A i \in 1 .. n + 1 : i = n + 1 \/ i \in 1 .. n
    OBVIOUS
  <2>3. \A i \in 1 .. Len(Append(u, n + 1)) : Append(u, n + 1)[i] = v[i]
    BY <2>1, <2>2, <1>4
  <2> QED BY <2>1, <2>3, <1>4, SeqEqual
<1> QED BY <1>2, <1>6

------------------------------------------------------------------------------
\* The threads of a world, and the request that each of them has in c_sock_over.
LEMMA SockTypes ==
  ASSUME SockInv
  PROVE  /\ sockWorld.users \subseteq {"r1", "r2", "writer"} /\ Link \in Both
         /\ Owner \in SockThreads /\ Owner \notin sockWorld.users
         /\ \A t \in sockWorld.users : t \in SockThreads /\ t # Owner /\ Request(t) \in Directions
         /\ Readers \subseteq {"r1", "r2"}
<1>1. sockWorld.users \subseteq {"r1", "r2", "writer"}
  BY SockAssumption DEF SockInv, SockTyped
<1> QED BY <1>1 DEF Link, Both, Owner, SockThreads, Request, Directions, Readers, Writer

\* The account of a direction is a number, and what is in it are numbers.
LEMMA BalanceIs ==
  ASSUME NEW n \in Connection, NEW o \in [Directions -> SockRequest], NEW d \in Directions
  PROVE  /\ Balance(n, o, d) \in Int /\ Cancelled(o[d]) \in Nat
         /\ n.told[d] \in Nat /\ Len(n.heard) \in Nat /\ n.out \in Nat
<1>1. /\ n.told \in [Directions -> Nat] /\ n.heard \in Seq(Nat) /\ n.out \in Nat
      /\ o[d] \in SockRequest
  BY DEF Connection
<1>2. n.told[d] \in Nat /\ Len(n.heard) \in Nat
  BY <1>1
<1>3. Cancelled(o[d]) \in Nat
  BY <1>1 DEF Cancelled, SockRequest
<1> QED BY <1>1, <1>2, <1>3 DEF Balance

\* A thread that is not waiting has no request that is done.
LEMMA NotDone ==
  ASSUME SockInv, NEW t \in sockWorld.users, calls[t].pc # "wait"
  PROVE  ov[Request(t)].state # "done"
<1> SUFFICES ASSUME ov[Request(t)].state = "done" PROVE FALSE
  OBVIOUS
<1>1. PICK u \in sockWorld.users : Request(u) = Request(t) /\ calls[u].pc = "wait"
  BY SockTypes DEF SockInv, DoneAwaited
<1>2. u # t /\ sockWorld.over
  BY <1>1 DEF SockInv, UserCalls, UserCall
<1>3. {u, t} \subseteq {"r1", "r2", "writer"} /\ (u = Writer <=> t = Writer)
  BY <1>1, SockTypes DEF Request
<1>4. {"r1", "r2"} \subseteq sockWorld.users
  BY <1>2, <1>3 DEF Writer
<1> QED BY <1>2, <1>4 DEF SockInv, OneReader

\* The part of the connection and of the sockets that a step of a thread leaves alone.
SameSockets(s) ==
  \A x \in Both : /\ s[x].sock = socks[x].sock /\ s[x].Initialized = socks[x].Initialized
                  /\ s[x].nonBlocking = socks[x].nonBlocking
                  /\ socks[x].error # "none" => s[x].error # "none"
SameStream(n) ==
  /\ n.made = net.made /\ n.peer = net.peer /\ n.sent = net.sent
  /\ n.heard \o n.inbox = net.heard \o net.inbox
  /\ net.peer = "reset" => n.inbox = << >>
FlagsMoved(t, s) ==
  /\ t # Writer => s[Link].WriteInUse = socks[Link].WriteInUse
  /\ t = Writer => s[Link].ReadInUse = socks[Link].ReadInUse
FlagOf(t, s) == IF t = Writer THEN s[Link].WriteInUse ELSE s[Link].ReadInUse

\* A step of a thread that transfers data, if it is careful with its flag and its request
\* and its account is right.
LEMMA UserStepKeeps ==
  ASSUME SockInv, sockWorld' = sockWorld,
         NEW t \in sockWorld.users, NEW c \in SockCall, UserCall(c),
         calls' = [calls EXCEPT ![t] = c], calls[t].pc # "idle" \/ OwnerFree,
         socks' \in [Both -> SockObject], SameSockets(socks'), FlagsMoved(t, socks'),
         c.pc = "idle" => \/ ~FlagOf(t, socks')
                          \/ calls[t].pc = "idle" /\ FlagOf(t, socks') = FlagOf(t, socks),
         ov' \in [Directions -> SockRequest],
         \A d \in Directions : ov'[d].state = "done" => d # Request(t) /\ ov[d].state = "done",
         net' \in Connection, SameStream(net'),
         \A d \in Directions :
           net.made => IF d = Request(t)
                       THEN Balance(net', ov', d) + c.got = Balance(net, ov, d) + calls[t].got
                       ELSE Balance(net', ov', d) = Balance(net, ov, d)
  PROVE  SockInv'
<1>t. SockTyped /\ calls \in [SockThreads -> SockCall] /\ t \in SockThreads /\ t # Owner
      /\ Owner \in SockThreads /\ Link \in Both
  BY SockTypes DEF SockInv, SockTyped
<1>u. sockWorld.users \subseteq {"r1", "r2", "writer"} /\ Readers \subseteq sockWorld.users
  BY SockTypes DEF Readers
<1>s. SockThreads' = SockThreads /\ Link' = Link /\ Readers' = Readers
  BY DEF SockThreads, Link, Readers
<1>1. SockTyped'
  BY <1>t, <1>s DEF SockTyped
<1>2. calls'[t] = c /\ \A u \in SockThreads : u # t => calls'[u] = calls[u]
  BY <1>t
<1>3. calls'[Owner] = calls[Owner]
  BY <1>2, <1>t
<1>4. \A u \in sockWorld.users : u # t => calls'[u] = calls[u]
  BY <1>2 DEF SockThreads
<1>5. UserCalls'
  <2>1. \A u \in sockWorld.users : UserCall(calls'[u])
    BY <1>2, <1>4 DEF SockInv, UserCalls
  <2> QED BY <2>1, <1>s DEF UserCalls, UserCall
<1>6. OwnerCall(calls[Owner], socks)' /\ OneReader'
  <2>1. calls[Owner].x \in Both
    BY <1>t DEF SockCall
  <2>2. /\ socks'[calls[Owner].x].sock = socks[calls[Owner].x].sock
        /\ socks[calls[Owner].x].error # "none" => socks'[calls[Owner].x].error # "none"
        /\ socks'["conn"].Initialized = socks["conn"].Initialized
    BY <2>1 DEF SameSockets, Both
  <2>3. OwnerCall(calls[Owner], socks) /\ OneReader
    BY DEF SockInv
  <2>4. OwnerCall(calls[Owner], socks')
    BY <2>2, <2>3 DEF OwnerCall
  <2> QED BY <2>3, <2>4, <1>3 DEF OwnerCall, OneReader
<1>7. OwnerAlone'
  <2>1. OwnerFree
    BY DEF SockInv, OwnerAlone
  <2> QED BY <2>1, <1>3 DEF OwnerAlone, OwnerFree
<1>8. SocketsHeld'
  BY <1>s, <1>t DEF SockInv, SocketsHeld, SameSockets, SameStream
<1>9. FlagsHeld'
  <2>1. FlagsHeld
    BY DEF SockInv
  <2>2. ASSUME socks'[Link].ReadInUse PROVE \E u \in Readers : calls'[u].pc # "idle"
    <3>1. CASE t # Writer /\ c.pc # "idle"
      <4>1. t \in Readers
        BY <3>1 DEF Readers
      <4> QED BY <4>1, <3>1, <1>2
    <3>2. CASE t # Writer /\ c.pc = "idle"
      <4>1. calls[t].pc = "idle" /\ socks[Link].ReadInUse
        BY <3>2, <2>2 DEF FlagOf
      <4>2. PICK u \in Readers : calls[u].pc # "idle"
        BY <4>1, <2>1 DEF FlagsHeld
      <4> QED BY <4>1, <4>2, <1>4, <1>u
    <3>3. CASE t = Writer
      <4>1. PICK u \in Readers : calls[u].pc # "idle"
        BY <3>3, <2>1, <2>2 DEF FlagsHeld, FlagsMoved
      <4>2. u # t
        BY <3>3 DEF Readers
      <4> QED BY <4>1, <4>2, <1>4, <1>u
    <3> QED BY <3>1, <3>2, <3>3
  <2>3. ASSUME socks'[Link].WriteInUse
        PROVE  Writer \in sockWorld.users /\ calls'[Writer].pc # "idle"
    <3>1. CASE t = Writer
      BY <3>1, <2>1, <2>3, <1>2 DEF FlagOf, FlagsHeld
    <3>2. CASE t # Writer
      BY <3>2, <2>1, <2>3, <1>4 DEF FlagsHeld, FlagsMoved
    <3> QED BY <3>1, <3>2
  <2> QED BY <2>2, <2>3, <1>s DEF FlagsHeld
<1>10. DoneAwaited'
  <2>1. ASSUME NEW d \in Directions, ov'[d].state = "done"
        PROVE  \E u \in sockWorld.users : Request(u) = d /\ calls'[u].pc = "wait"
    <3>1. PICK u \in sockWorld.users : Request(u) = d /\ calls[u].pc = "wait"
      BY <2>1 DEF SockInv, DoneAwaited
    <3>2. u # t
      BY <2>1, <3>1
    <3> QED BY <3>1, <3>2, <1>4
  <2> QED BY <2>1 DEF DoneAwaited, Request
<1>g. \A u \in sockWorld.users : calls[u].got \in Nat
  BY <1>t DEF SockThreads, SockCall
<1>b. \A d \in Directions : Balance(net, ov, d) \in Int /\ Balance(net', ov', d) \in Int
  BY <1>t, BalanceIs DEF SockTyped
<1>n. net'.made = net.made
  BY DEF SameStream
<1>h. \A u \in {"r1", "r2", "writer"} :
        /\ GotBy(u)' = (IF u = t THEN c.got ELSE GotBy(u)) /\ GotBy(u) \in Nat
        /\ u = t => GotBy(u) = calls[t].got
  BY <1>2, <1>4, <1>g DEF GotBy
<1>11. ReadAccount'
  <2> SUFFICES ASSUME net.made
               PROVE  Balance(net', ov', "r") + GotBy("r1")' + GotBy("r2")' = 0
    BY <1>n DEF ReadAccount
  <2>1. Balance(net, ov, "r") + GotBy("r1") + GotBy("r2") = 0
    BY DEF SockInv, ReadAccount
  <2>2. CASE t = Writer
    <3>1. Balance(net', ov', "r") = Balance(net, ov, "r")
      BY <2>2 DEF Request, Directions
    <3> QED BY <3>1, <2>1, <2>2, <1>h DEF Writer
  <2>3. CASE t # Writer
    <3>1. Balance(net', ov', "r") + c.got = Balance(net, ov, "r") + calls[t].got
      BY <2>3 DEF Request, Directions
    <3>2. t = "r1" \/ t = "r2"
      BY <2>3, <1>u DEF Writer
    <3>3. c.got \in Nat /\ calls[t].got \in Nat
      BY <1>g DEF SockCall
    <3>4. Balance(net', ov', "r") \in Int /\ Balance(net, ov, "r") \in Int
      BY <1>b DEF Directions
    <3>5. GotBy("r1") \in Nat /\ GotBy("r2") \in Nat
      BY <1>h
    <3>6. CASE t = "r1"
      <4>1. GotBy("r1")' = c.got /\ GotBy("r1") = calls[t].got /\ GotBy("r2")' = GotBy("r2")
        BY <3>6, <1>h
      <4> QED BY <4>1, <3>1, <3>3, <3>4, <3>5, <2>1
    <3>7. CASE t = "r2"
      <4>1. GotBy("r2")' = c.got /\ GotBy("r2") = calls[t].got /\ GotBy("r1")' = GotBy("r1")
        BY <3>7, <1>h
      <4> QED BY <4>1, <3>1, <3>3, <3>4, <3>5, <2>1
    <3> QED BY <3>2, <3>6, <3>7
  <2> QED BY <2>2, <2>3
<1>12. WriteAccount'
  <2> SUFFICES ASSUME net.made PROVE Balance(net', ov', "w") + GotBy(Writer)' = 0
    BY <1>n DEF WriteAccount, Writer
  <2>1. Balance(net, ov, "w") + GotBy(Writer) = 0
    BY DEF SockInv, WriteAccount
  <2>2. CASE t # Writer
    <3>1. Balance(net', ov', "w") = Balance(net, ov, "w")
      BY <2>2 DEF Request, Directions
    <3>2. GotBy(Writer)' = GotBy(Writer)
      BY <2>2, <1>h DEF Writer
    <3> QED BY <3>1, <3>2, <2>1
  <2>3. CASE t = Writer
    <3>1. Balance(net', ov', "w") + c.got = Balance(net, ov, "w") + calls[t].got
      BY <2>3 DEF Request, Directions
    <3>2. GotBy(Writer)' = c.got /\ GotBy(Writer) = calls[t].got
      BY <2>3, <1>h DEF Writer
    <3> QED BY <3>1, <3>2, <2>1
  <2> QED BY <2>2, <2>3
<1>13. InStream'
  BY DEF SockInv, InStream, SameStream
<1>14. OpenedTruthfully'
  <2>1. calls[Owner].x \in Both
    BY <1>t DEF SockCall
  <2>2. /\ socks'[calls[Owner].x].sock = socks[calls[Owner].x].sock
        /\ socks[calls[Owner].x].error # "none" => socks'[calls[Owner].x].error # "none"
    BY <2>1 DEF SameSockets
  <2> QED BY <2>2, <1>3, <1>n DEF SockInv, OpenedTruthfully, SockAt
<1> QED BY <1>1, <1>5, <1>6, <1>7, <1>8, <1>9, <1>10, <1>11, <1>12, <1>13, <1>14 DEF SockInv

------------------------------------------------------------------------------
\* What is known of the connection and of a thread that transfers data.
LEMMA UserFacts ==
  ASSUME SockInv, NEW t \in sockWorld.users
  PROVE  /\ calls[t] \in SockCall /\ UserCall(calls[t]) /\ calls[t].size \in Nat
         /\ calls[t].got \in Nat
         /\ socks \in [Both -> SockObject] /\ ov \in [Directions -> SockRequest]
         /\ net \in Connection /\ calls \in [SockThreads -> SockCall] /\ t \in SockThreads
         /\ SameSockets(socks) /\ FlagsMoved(t, socks) /\ SameStream(net)
         /\ Link \in Both /\ Request(t) \in Directions
<1>1. calls[t] \in SockCall /\ UserCall(calls[t])
  BY SockTypes DEF SockInv, SockTyped, UserCalls
<1>2. SocketsHeld /\ SockTyped
  BY DEF SockInv
<1> QED BY <1>1, <1>2, SockTypes DEF SockTyped, SockCall, SameSockets, FlagsMoved, SameStream,
                                      SocketsHeld

\* SetError touches nothing but the error.
LEMMA SetErrorIs ==
  ASSUME NEW x \in Both, NEW e \in SockNames, socks \in [Both -> SockObject], SockFails(x, e)
  PROVE  /\ socks' \in [Both -> SockObject] /\ SameSockets(socks')
         /\ \A t : FlagsMoved(t, socks')
         /\ e # "none" => socks'[x].error # "none"
<1>1. SetError(socks[x], e) \in SockObject
  BY DEF SetError, SockObject
<1>2. /\ SetError(socks[x], e).sock = socks[x].sock
      /\ SetError(socks[x], e).Initialized = socks[x].Initialized
      /\ SetError(socks[x], e).nonBlocking = socks[x].nonBlocking
      /\ SetError(socks[x], e).ReadInUse = socks[x].ReadInUse
      /\ SetError(socks[x], e).WriteInUse = socks[x].WriteInUse
      /\ socks[x].error # "none" => SetError(socks[x], e).error # "none"
      /\ e # "none" => SetError(socks[x], e).error # "none"
  BY DEF SetError, SockObject
<1>3. socks' = [socks EXCEPT ![x] = SetError(socks[x], e)]
  BY DEF SockFails
<1> HIDE DEF SetError
<1>4. socks'[x] = SetError(socks[x], e) /\ \A y \in Both : y # x => socks'[y] = socks[y]
  BY <1>3
<1>5. socks' \in [Both -> SockObject]
  BY <1>1, <1>3
<1>6. \A y \in Both : /\ socks'[y].sock = socks[y].sock
                      /\ socks'[y].Initialized = socks[y].Initialized
                      /\ socks'[y].nonBlocking = socks[y].nonBlocking
                      /\ socks'[y].ReadInUse = socks[y].ReadInUse
                      /\ socks'[y].WriteInUse = socks[y].WriteInUse
                      /\ socks[y].error # "none" => socks'[y].error # "none"
  BY <1>2, <1>4
<1>7. Link \in Both
  BY DEF Link, Both
<1> QED BY <1>2, <1>4, <1>5, <1>6, <1>7 DEF SameSockets, FlagsMoved

\* A step that moves nothing: the thread goes on, perhaps with an error, and with no request
\* or with a new one.
LEMMA UserGoesOn ==
  ASSUME SockInv, sockWorld' = sockWorld, net' = net,
         NEW t \in sockWorld.users, NEW c \in SockCall, UserCall(c),
         c.pc # "idle" \/ (calls[t].pc = "idle" /\ FlagOf(t, socks') = FlagOf(t, socks)),
         c.got = calls[t].got, calls' = [calls EXCEPT ![t] = c],
         calls[t].pc # "idle" \/ OwnerFree, calls[t].pc # "wait",
         socks' \in [Both -> SockObject], SameSockets(socks'), FlagsMoved(t, socks'),
         ov' \in [Directions -> SockRequest],
         \A d \in Directions : d # Request(t) => ov'[d] = ov[d],
         ov'[Request(t)].state # "done"
  PROVE  SockInv'
<1>0. SameStream(net) /\ net \in Connection
  BY UserFacts
<1>1. ov[Request(t)].state # "done"
  BY NotDone
<1>2. \A d \in Directions : Cancelled(ov'[d]) = Cancelled(ov[d])
  BY <1>1 DEF Cancelled
<1>3. \A d \in Directions : Balance(net', ov', d) = Balance(net, ov, d)
  BY <1>2 DEF Balance
<1>4. \A d \in Directions : ov'[d].state = "done" => d # Request(t) /\ ov[d].state = "done"
  OBVIOUS
<1> QED BY <1>0, <1>3, <1>4, UserStepKeeps

\* A thread that calls, and waits for its turn.
LEMMA CallTransferKeeps ==
  ASSUME SockInv, NEW t \in sockWorld.users, NEW op \in SockNames, NEW size \in Nat,
         CallTransfer(t, op, size)
  PROVE  SockInv'
<1>0. /\ calls[t] \in SockCall /\ UserCall(calls[t]) /\ calls[t].got \in Nat
      /\ socks \in [Both -> SockObject] /\ ov \in [Directions -> SockRequest]
      /\ calls \in [SockThreads -> SockCall] /\ t \in SockThreads
      /\ SameSockets(socks) /\ FlagsMoved(t, socks) /\ Link \in Both
  BY UserFacts
<1>1. /\ calls[t].pc = "idle" /\ OwnerFree /\ sockWorld' = sockWorld /\ ov' = ov /\ net' = net
  BY DEF CallTransfer, SockAt, OwnerFree
<1>2. calls[t].got = 0 /\ ov[Request(t)].state # "done"
  BY <1>0, <1>1, NotDone DEF UserCall
<1>3. CASE socks[Link].sock
  <2> DEFINE c == [calls[t] EXCEPT !.op = op, !.x = Link, !.pc = "turn", !.size = size, !.got = 0]
  <2>1. calls' = [calls EXCEPT ![t] = c] /\ socks' = socks
    BY <1>3 DEF CallTransfer
  <2>2. c \in SockCall /\ c.pc = "turn" /\ c.got = 0 /\ c.size = size /\ c.x = Link
    BY NamesAre, <1>0 DEF SockCall
  <2>3. UserCall(c)
    BY <2>2 DEF UserCall
  <2> HIDE DEF c
  <2> QED BY <1>0, <1>1, <1>2, <2>1, <2>2, <2>3, UserGoesOn
<1>4. CASE ~socks[Link].sock
  <2>1. SockFails(Link, "PARAM") /\ calls' = calls
    BY <1>4 DEF CallTransfer
  <2>2. socks' \in [Both -> SockObject] /\ SameSockets(socks') /\ FlagsMoved(t, socks')
    BY NamesAre, <2>1, <1>0, SetErrorIs
  <2>3. FlagOf(t, socks') = FlagOf(t, socks)
    BY <2>1, <1>0 DEF SockFails, SetError, FlagOf, SockObject
  <2>4. calls' = [calls EXCEPT ![t] = calls[t]]
    BY <2>1, <1>0
  <2> QED BY <1>0, <1>1, <1>2, <2>2, <2>3, <2>4, UserGoesOn
<1> QED BY <1>3, <1>4

\* A thread looks at the flag, or sets it.
LEMMA TurnKeeps ==
  ASSUME SockInv, NEW t \in sockWorld.users, SeesTurn(t) \/ TakesTurn(t)
  PROVE  SockInv'
<1>0. /\ calls[t] \in SockCall /\ UserCall(calls[t]) /\ calls[t].got \in Nat
      /\ socks \in [Both -> SockObject] /\ ov \in [Directions -> SockRequest]
      /\ calls \in [SockThreads -> SockCall] /\ t \in SockThreads
      /\ SameSockets(socks) /\ FlagsMoved(t, socks) /\ Link \in Both
  BY UserFacts
<1>1. /\ calls[t].pc \in {"turn", "take"} /\ sockWorld' = sockWorld /\ ov' = ov /\ net' = net
  BY DEF SeesTurn, TakesTurn, SockAt
<1>2. ov[Request(t)].state # "done"
  BY <1>1, NotDone
<1> DEFINE next == IF calls[t].pc = "turn" THEN "take" ELSE "move"
           c == [calls[t] EXCEPT !.pc = next]
<1>3. calls' = [calls EXCEPT ![t] = c]
  <2>1. CASE SeesTurn(t)
    <3>1. calls' = [calls EXCEPT ![t] = [calls[t] EXCEPT !.pc = "take"]]
      BY <2>1, <1>0 DEF SeesTurn, SockGo, SockAt
    <3> QED BY <2>1, <3>1 DEF SeesTurn, SockAt
  <2>2. CASE TakesTurn(t)
    <3>1. calls' = [calls EXCEPT ![t] = [calls[t] EXCEPT !.pc = "move"]]
      BY <2>2, <1>0 DEF TakesTurn, SockGo, SockAt
    <3> QED BY <2>2, <3>1 DEF TakesTurn, SockAt
  <2> QED BY <2>1, <2>2
<1>4. /\ c \in SockCall /\ c.pc \in {"take", "move"} /\ c.got = calls[t].got
      /\ c.size = calls[t].size /\ c.x = calls[t].x
  BY NamesAre, <1>0 DEF SockCall
<1>5. UserCall(c)
  <2> HIDE DEF c
  <2> QED BY <1>0, <1>1, <1>4 DEF UserCall
<1>6. socks' \in [Both -> SockObject] /\ SameSockets(socks') /\ FlagsMoved(t, socks')
  <2>1. CASE SeesTurn(t)
    BY <2>1, <1>0 DEF SeesTurn
  <2>2. CASE TakesTurn(t)
    <3>1. socks' = [socks EXCEPT ![Link] = Using(socks[Link], t, TRUE)]
      BY <2>2 DEF TakesTurn
    <3>2. /\ Using(socks[Link], t, TRUE) \in SockObject
          /\ Using(socks[Link], t, TRUE).sock = socks[Link].sock
          /\ Using(socks[Link], t, TRUE).Initialized = socks[Link].Initialized
          /\ Using(socks[Link], t, TRUE).nonBlocking = socks[Link].nonBlocking
          /\ Using(socks[Link], t, TRUE).error = socks[Link].error
          /\ t # Writer => Using(socks[Link], t, TRUE).WriteInUse = socks[Link].WriteInUse
          /\ t = Writer => Using(socks[Link], t, TRUE).ReadInUse = socks[Link].ReadInUse
      BY <1>0 DEF Using, SockObject
    <3> QED BY <3>1, <3>2, <1>0 DEF SameSockets, FlagsMoved
  <2> QED BY <2>1, <2>2
<1> HIDE DEF c
<1> QED BY <1>0, <1>1, <1>2, <1>3, <1>4, <1>5, <1>6, UserGoesOn

\* A transfer that ends is reported.
LEMMA TransferEndsKeeps ==
  ASSUME SockInv, NEW t \in sockWorld.users, TransferEnds(t)
  PROVE  SockInv'
<1>0. /\ calls[t] \in SockCall /\ UserCall(calls[t]) /\ calls[t].got \in Nat
      /\ socks \in [Both -> SockObject] /\ ov \in [Directions -> SockRequest]
      /\ net \in Connection /\ SameStream(net) /\ Request(t) \in Directions
      /\ calls \in [SockThreads -> SockCall] /\ t \in SockThreads
      /\ SameSockets(socks) /\ FlagsMoved(t, socks) /\ Link \in Both
  BY UserFacts
<1>1. /\ calls[t].pc = "done" /\ sockWorld' = sockWorld /\ ov' = ov
      /\ calls' = [calls EXCEPT ![t] = NoSockCall]
      /\ socks' = [socks EXCEPT ![Link] = Using(socks[Link], t, FALSE)]
      /\ net' = [net EXCEPT !.told = [net.told EXCEPT ![Request(t)] = @ + calls[t].got]]
  BY DEF TransferEnds, SockAt
<1>2. ov[Request(t)].state # "done"
  BY <1>1, NotDone
<1>3. NoSockCall \in SockCall /\ UserCall(NoSockCall) /\ NoSockCall.got = 0
      /\ NoSockCall.pc = "idle"
  BY NamesAre DEF NoSockCall, SockCall, Both, UserCall
<1>4. socks' \in [Both -> SockObject] /\ SameSockets(socks') /\ FlagsMoved(t, socks')
      /\ ~FlagOf(t, socks')
  <2>1. /\ Using(socks[Link], t, FALSE) \in SockObject
        /\ Using(socks[Link], t, FALSE).sock = socks[Link].sock
        /\ Using(socks[Link], t, FALSE).Initialized = socks[Link].Initialized
        /\ Using(socks[Link], t, FALSE).nonBlocking = socks[Link].nonBlocking
        /\ Using(socks[Link], t, FALSE).error = socks[Link].error
        /\ IF t = Writer
           THEN /\ Using(socks[Link], t, FALSE).ReadInUse = socks[Link].ReadInUse
                /\ ~Using(socks[Link], t, FALSE).WriteInUse
           ELSE /\ Using(socks[Link], t, FALSE).WriteInUse = socks[Link].WriteInUse
                /\ ~Using(socks[Link], t, FALSE).ReadInUse
    BY <1>0 DEF Using, SockObject
  <2> QED BY <2>1, <1>0, <1>1 DEF SameSockets, FlagsMoved, FlagOf
<1>5. /\ net.told \in [Directions -> Nat]
      /\ [net.told EXCEPT ![Request(t)] = @ + calls[t].got] \in [Directions -> Nat]
  BY <1>0 DEF Connection
<1>6. /\ net' \in Connection /\ net'.told = [net.told EXCEPT ![Request(t)] = @ + calls[t].got]
      /\ net'.heard = net.heard /\ net'.out = net.out /\ net'.made = net.made
      /\ net'.peer = net.peer /\ net'.sent = net.sent /\ net'.inbox = net.inbox
  BY <1>0, <1>1, <1>5 DEF Connection
<1>7. SameStream(net')
  BY <1>0, <1>6 DEF SameStream
<1>8. ASSUME NEW d \in Directions
      PROVE  IF d = Request(t) THEN Balance(net', ov', d) + 0 = Balance(net, ov, d) + calls[t].got
             ELSE Balance(net', ov', d) = Balance(net, ov, d)
  <2>1. net'.told[d] = IF d = Request(t) THEN net.told[d] + calls[t].got ELSE net.told[d]
    BY <1>5, <1>6
  <2>2. Cancelled(ov[d]) \in Nat /\ net.told[d] \in Nat /\ Len(net.heard) \in Nat /\ net.out \in Nat
    BY <1>0, BalanceIs
  <2> QED BY <2>1, <2>2, <1>0, <1>1, <1>6 DEF Balance
<1>9. \A d \in Directions : ov'[d].state = "done" => d # Request(t) /\ ov[d].state = "done"
  BY <1>1, <1>2
<1> QED BY <1>0, <1>1, <1>3, <1>4, <1>6, <1>7, <1>8, <1>9, UserStepKeeps

------------------------------------------------------------------------------
\* Whatever a thread does next, it has what it had.
LEMMA GoesTo ==
  ASSUME NEW c \in SockCall, UserCall(c), c.pc # "idle", NEW pc \in SockNames,
         pc \in {"close", "done"} \/ (pc = "wait" /\ sockWorld.over /\ c.pc = "move")
  PROVE  /\ [c EXCEPT !.pc = pc, !.then = "done"] \in SockCall
         /\ UserCall([c EXCEPT !.pc = pc, !.then = "done"])
         /\ [c EXCEPT !.pc = pc, !.then = "done"].got = c.got
         /\ [c EXCEPT !.pc = pc, !.then = "done"].pc = pc
         /\ pc # "close" => [c EXCEPT !.pc = pc] \in SockCall /\ UserCall([c EXCEPT !.pc = pc])
         /\ [c EXCEPT !.pc = pc].got = c.got /\ [c EXCEPT !.pc = pc].pc = pc
<1>1. c.got \in Nat /\ c.size \in Nat
  BY DEF SockCall
<1> QED BY NamesAre, <1>1 DEF SockCall, UserCall

\* A transfer that fails closes the socket; what its request has moved is lost only when the
\* socket is closed already.
LEMMA FailKeeps ==
  ASSUME SockInv, sockWorld' = sockWorld, net' = net,
         NEW t \in sockWorld.users, calls[t].pc # "idle", TransferFails(t),
         \/ calls[t].pc # "wait" /\ ov' = ov
         \/ /\ ~(socks[Link].sock /\ ov[Request(t)].state = "done")
            /\ ov' = [ov EXCEPT ![Request(t)] = NoRequest]
  PROVE  SockInv'
<1>0. /\ calls[t] \in SockCall /\ UserCall(calls[t]) /\ calls[t].got \in Nat
      /\ calls[t].size \in Nat /\ Request(t) \in Directions
      /\ socks \in [Both -> SockObject] /\ ov \in [Directions -> SockRequest]
      /\ net \in Connection /\ SameStream(net)
      /\ calls \in [SockThreads -> SockCall] /\ t \in SockThreads
      /\ SameSockets(socks) /\ FlagsMoved(t, socks) /\ Link \in Both
  BY UserFacts
<1>1. SockFails(Link, "TRANSFER")
  BY DEF TransferFails
<1>2. socks' \in [Both -> SockObject] /\ SameSockets(socks') /\ FlagsMoved(t, socks')
  BY NamesAre, <1>0, <1>1, SetErrorIs
<1> DEFINE c == [calls[t] EXCEPT !.pc = "close", !.then = "done"]
<1>3. calls' = [calls EXCEPT ![t] = c]
  BY DEF TransferFails, SockClose
<1>4. c \in SockCall /\ UserCall(c) /\ c.pc = "close" /\ c.got = calls[t].got
  <2>1. "close" \in SockNames
    BY NamesAre
  <2> QED BY <2>1, <1>0, GoesTo
<1> HIDE DEF c
<1>5. CASE calls[t].pc # "wait" /\ ov' = ov
  <2>1. ov[Request(t)].state # "done"
    BY <1>5, NotDone
  <2> QED BY <2>1, <1>5, <1>0, <1>2, <1>3, <1>4, UserGoesOn
<1>6. CASE ~(socks[Link].sock /\ ov[Request(t)].state = "done")
           /\ ov' = [ov EXCEPT ![Request(t)] = NoRequest]
  <2>1. NoRequest \in SockRequest /\ NoRequest.state = "free" /\ Cancelled(NoRequest) = 0
    BY NamesAre DEF NoRequest, SockRequest, Cancelled
  <2>2. ov' \in [Directions -> SockRequest] /\ ov'[Request(t)] = NoRequest
        /\ \A d \in Directions : d # Request(t) => ov'[d] = ov[d]
    BY <2>1, <1>0, <1>6
  <2>3. net.made => Cancelled(ov[Request(t)]) = 0
    BY <1>6 DEF SockInv, SocketsHeld, Cancelled
  <2>4. \A d \in Directions : net.made => Cancelled(ov'[d]) = Cancelled(ov[d])
    BY <2>1, <2>2, <2>3
  <2>5. \A d \in Directions : net.made => Balance(net', ov', d) = Balance(net, ov, d)
    BY <2>4 DEF Balance
  <2>6. \A d \in Directions : ov'[d].state = "done" => d # Request(t) /\ ov[d].state = "done"
    BY <2>1, <2>2
  <2> QED BY <2>2, <2>5, <2>6, <1>0, <1>2, <1>3, <1>4, UserStepKeeps
<1> QED BY <1>5, <1>6

\* Bytes are moved: the account of the thread grows by what the connection has given or
\* taken, or by what its request had moved.
LEMMA MovedKeeps ==
  ASSUME SockInv, sockWorld' = sockWorld, NEW t \in sockWorld.users,
         socks' = socks \/ SockFails(Link, "TIMEOUT"),
         calls[t].pc # "idle", NEW n \in Nat, NEW more \in BOOLEAN,
         Moved(t, n, more), more => n < calls[t].size - calls[t].got,
         ov' \in [Directions -> SockRequest],
         \A d \in Directions : ov'[d].state = "done" => d # Request(t) /\ ov[d].state = "done",
         net' \in Connection, SameStream(net'),
         \A d \in Directions :
           net.made => Balance(net', ov', d) + (IF d = Request(t) THEN n ELSE 0)
                         = Balance(net, ov, d)
  PROVE  SockInv'
<1>0. /\ calls[t] \in SockCall /\ UserCall(calls[t]) /\ calls[t].got \in Nat
      /\ calls[t].size \in Nat /\ Request(t) \in Directions
      /\ socks \in [Both -> SockObject] /\ ov \in [Directions -> SockRequest]
      /\ net \in Connection /\ SameStream(net)
      /\ calls \in [SockThreads -> SockCall] /\ t \in SockThreads
      /\ SameSockets(socks) /\ FlagsMoved(t, socks) /\ Link \in Both
  BY UserFacts
<1> DEFINE c == [calls[t] EXCEPT !.got = @ + n, !.pc = IF more THEN "move" ELSE "done"]
<1>1. calls' = [calls EXCEPT ![t] = c]
  BY DEF Moved
<1>2. /\ c \in SockCall /\ c.got = calls[t].got + n /\ c.size = calls[t].size
      /\ c.x = calls[t].x /\ c.pc = IF more THEN "move" ELSE "done"
  <2> DEFINE next == IF more THEN "move" ELSE "done"
             sum == calls[t].got + n
  <2>1. next \in SockNames /\ sum \in Nat
    BY NamesAre, <1>0
  <2>2. c = [calls[t] EXCEPT !.got = sum, !.pc = next]
    OBVIOUS
  <2>3. [calls[t] EXCEPT !.got = sum, !.pc = next] \in SockCall
        /\ [calls[t] EXCEPT !.got = sum, !.pc = next].got = sum
        /\ [calls[t] EXCEPT !.got = sum, !.pc = next].pc = next
        /\ [calls[t] EXCEPT !.got = sum, !.pc = next].size = calls[t].size
        /\ [calls[t] EXCEPT !.got = sum, !.pc = next].x = calls[t].x
    <3> HIDE DEF next, sum
    <3> QED BY <2>1, <1>0 DEF SockCall
  <2> QED BY <2>3
<1> HIDE DEF c
<1>3. UserCall(c)
  <2>1. more => c.got <= c.size
    BY <1>0, <1>2
  <2> QED BY <2>1, <1>0, <1>2 DEF UserCall
<1>4. c.pc # "idle"
  BY <1>2
<1>5. ASSUME NEW d \in Directions, net.made
      PROVE  IF d = Request(t)
             THEN Balance(net', ov', d) + c.got = Balance(net, ov, d) + calls[t].got
             ELSE Balance(net', ov', d) = Balance(net, ov, d)
  <2>1. Balance(net', ov', d) \in Int /\ Balance(net, ov, d) \in Int
    BY <1>0, BalanceIs
  <2>2. Balance(net', ov', d) + (IF d = Request(t) THEN n ELSE 0) = Balance(net, ov, d)
    BY <1>5
  <2>3. CASE d = Request(t)
    BY <2>1, <2>2, <2>3, <1>0, <1>2
  <2>4. CASE d # Request(t)
    BY <2>1, <2>2, <2>4
  <2> QED BY <2>3, <2>4
<1>6. socks' \in [Both -> SockObject] /\ SameSockets(socks') /\ FlagsMoved(t, socks')
  <2>1. CASE socks' = socks
    BY <2>1, <1>0
  <2>2. CASE SockFails(Link, "TIMEOUT")
    BY NamesAre, <2>2, <1>0, SetErrorIs
  <2> QED BY <2>1, <2>2
<1> QED BY <1>0, <1>1, <1>2, <1>3, <1>4, <1>5, <1>6, UserStepKeeps

\* recv and WSARecv give no more than there is, and no more than was asked for.
LEMMA AvailableIs ==
  ASSUME net \in Connection, NEW size \in Nat
  PROVE  Available(size) \in 0 .. Len(net.inbox) /\ net.inbox \in Seq(Nat)
<1>1. net.inbox \in Seq(Nat) /\ Len(net.inbox) \in Nat
  BY DEF Connection
<1> QED BY <1>1 DEF Available

\* What is taken from the connection goes to what was heard.
LEMMA TakenIs ==
  ASSUME SockInv, NEW n \in 0 .. Len(net.inbox), net' = TakenBytes(n)
  PROVE  /\ net' \in Connection /\ SameStream(net') /\ Len(net'.heard) = Len(net.heard) + n
         /\ net'.told = net.told /\ net'.out = net.out
<1>1. /\ net \in Connection /\ net.inbox \in Seq(Nat) /\ net.heard \in Seq(Nat)
      /\ Len(net.inbox) \in Nat
  BY DEF SockInv, SockTyped, Connection
<1> DEFINE taken == net.heard \o SubSeq(net.inbox, 1, n)
           left == SubSeq(net.inbox, n + 1, Len(net.inbox))
<1>2. taken \in Seq(Nat) /\ left \in Seq(Nat) /\ Len(taken) = Len(net.heard) + n
      /\ taken \o left = net.heard \o net.inbox
  <2>1. SubSeq(net.inbox, 1, n) \in Seq(Nat)
    BY <1>1, TakenInOrder
  <2>2. taken \in Seq(Nat)
    BY <2>1, <1>1, ConcatProperties
  <2> QED BY <2>2, <1>1, TakenInOrder
<1>3. net' = [net EXCEPT !.heard = taken, !.inbox = left]
  BY DEF TakenBytes
<1>4. net.inbox = << >> => left = << >>
  <2> SUFFICES ASSUME net.inbox = << >> PROVE left = << >>
    OBVIOUS
  <2>1. Len(net.inbox) = 0 /\ n = 0
    BY <1>1
  <2> QED BY <2>1, SubSeqEmpty
<1> HIDE DEF taken, left
<1>5. /\ net' \in Connection /\ net'.heard = taken /\ net'.inbox = left
      /\ net'.told = net.told /\ net'.out = net.out /\ net'.made = net.made
      /\ net'.peer = net.peer /\ net'.sent = net.sent
  BY <1>1, <1>2, <1>3 DEF Connection
<1>6. net.peer = "reset" => net.inbox = << >>
  BY DEF SockInv, SocketsHeld
<1> QED BY <1>2, <1>4, <1>5, <1>6 DEF SameStream

\* RecvAny and Recv of what has come.
LEMMA TakesKeeps ==
  ASSUME SockInv, sockWorld' = sockWorld, socks' = socks, ov' = ov,
         NEW t \in Readers, calls[t].pc = "move",
         LET n == Available(calls[t].size - calls[t].got)
         IN  net' = TakenBytes(n) /\ MovedSome(t, n)
  PROVE  SockInv'
<1>r. t \in sockWorld.users /\ Request(t) = "r"
  BY DEF Readers, Request
<1>0. /\ calls[t] \in SockCall /\ UserCall(calls[t]) /\ calls[t].got \in Nat
      /\ calls[t].size \in Nat /\ Request(t) \in Directions
      /\ socks \in [Both -> SockObject] /\ ov \in [Directions -> SockRequest]
      /\ net \in Connection /\ SameStream(net)
      /\ calls \in [SockThreads -> SockCall] /\ t \in SockThreads
      /\ SameSockets(socks) /\ FlagsMoved(t, socks) /\ Link \in Both
  BY <1>r, UserFacts
<1> DEFINE n == Available(calls[t].size - calls[t].got)
<1>1. calls[t].size - calls[t].got \in Nat
  BY <1>0 DEF UserCall
<1>2. n \in 0 .. Len(net.inbox) /\ n \in Nat
  <2>1. n \in 0 .. Len(net.inbox) /\ net.inbox \in Seq(Nat)
    BY <1>0, <1>1, AvailableIs
  <2> HIDE DEF n
  <2> QED BY <2>1
<1>3. PICK late \in {FALSE, sockWorld.timed} : Moved(t, n, GoesOn(calls[t], n) /\ ~late)
  BY DEF MovedSome
<1>4. net' = TakenBytes(n)
  OBVIOUS
<1> HIDE DEF n
<1>5. /\ net' \in Connection /\ SameStream(net') /\ Len(net'.heard) = Len(net.heard) + n
      /\ net'.told = net.told /\ net'.out = net.out
  BY <1>2, <1>4, TakenIs
<1>6. ov[Request(t)].state # "done"
  BY <1>r, NotDone
<1>7. ASSUME NEW d \in Directions
      PROVE  Balance(net', ov', d) + (IF d = Request(t) THEN n ELSE 0) = Balance(net, ov, d)
  <2>1. /\ net.told[d] \in Nat /\ Cancelled(ov[d]) \in Nat /\ Len(net.heard) \in Nat
        /\ net.out \in Nat
    BY <1>0, BalanceIs
  <2>2. net'.told[d] = net.told[d] /\ Cancelled(ov'[d]) = Cancelled(ov[d]) /\ n \in Nat
    BY <1>2, <1>5
  <2>3. CASE d = "r"
    <3>1. d = Request(t)
      BY <2>3, <1>r
    <3>2. Balance(net', ov', d) = net.told[d] + Cancelled(ov[d]) - (Len(net.heard) + n)
      BY <2>2, <2>3, <1>5 DEF Balance
    <3>3. Balance(net, ov, d) = net.told[d] + Cancelled(ov[d]) - Len(net.heard)
      BY <2>3 DEF Balance
    <3> QED BY <2>1, <2>2, <3>1, <3>2, <3>3
  <2>4. CASE d # "r"
    BY <2>1, <2>2, <2>4, <1>5, <1>r DEF Balance
  <2> QED BY <2>3, <2>4
<1>8. GoesOn(calls[t], n) => n < calls[t].size - calls[t].got
  BY DEF GoesOn
<1> DEFINE more == GoesOn(calls[t], n) /\ ~late
<1>9. more \in BOOLEAN /\ Moved(t, n, more) /\ (more => n < calls[t].size - calls[t].got)
  BY <1>3, <1>8
<1>10. \A d \in Directions : ov'[d].state = "done" => d # Request(t) /\ ov[d].state = "done"
  BY <1>6
<1>11. ov' \in [Directions -> SockRequest] /\ calls[t].pc # "idle"
  BY <1>0
<1> HIDE DEF more
<1> QED BY <1>r, <1>2, <1>5, <1>7, <1>9, <1>10, <1>11, MovedKeeps

\* The bytes that are sent go out.
LEMMA SentIs ==
  ASSUME SockInv, NEW n \in Nat, net' = [net EXCEPT !.out = @ + n]
  PROVE  /\ net' \in Connection /\ SameStream(net') /\ net'.out = net.out + n
         /\ net'.told = net.told /\ net'.heard = net.heard
<1>1. net \in Connection /\ SocketsHeld
  BY DEF SockInv, SockTyped
<1>2. net.out \in Nat
  BY <1>1 DEF Connection
<1>3. ASSUME NEW m \in Nat, net' = [net EXCEPT !.out = m]
      PROVE  /\ net' \in Connection /\ net'.heard = net.heard /\ net'.inbox = net.inbox
             /\ net'.told = net.told /\ net'.out = m /\ net'.made = net.made
             /\ net'.peer = net.peer /\ net'.sent = net.sent
  BY <1>1, <1>3 DEF Connection
<1>4. net.out + n \in Nat
  BY <1>2
<1> QED BY <1>1, <1>3, <1>4 DEF SameStream, SocketsHeld

\* The writer sends, and counts what went out; its wait may have ended with an error.
LEMMA SentKeeps ==
  ASSUME SockInv, sockWorld' = sockWorld, ov' = ov,
         socks' = socks \/ SockFails(Link, "TIMEOUT"),
         Writer \in sockWorld.users, calls[Writer].pc = "move", NEW n \in Nat,
         net' = [net EXCEPT !.out = @ + n], Moved(Writer, n, FALSE)
  PROVE  SockInv'
<1> DEFINE t == Writer
<1>r. t \in sockWorld.users /\ Request(t) = "w"
  BY DEF Request
<1>0. /\ calls[t] \in SockCall /\ UserCall(calls[t]) /\ calls[t].got \in Nat
      /\ calls[t].size \in Nat /\ Request(t) \in Directions
      /\ socks \in [Both -> SockObject] /\ ov \in [Directions -> SockRequest]
      /\ net \in Connection /\ SameStream(net)
      /\ calls \in [SockThreads -> SockCall] /\ t \in SockThreads
      /\ SameSockets(socks) /\ FlagsMoved(t, socks) /\ Link \in Both
  BY <1>r, UserFacts
<1>5. /\ net' \in Connection /\ SameStream(net') /\ net'.out = net.out + n
      /\ net'.told = net.told /\ net'.heard = net.heard
  BY SentIs
<1>6. ov[Request(t)].state # "done"
  BY <1>r, NotDone
<1>7. ASSUME NEW d \in Directions
      PROVE  Balance(net', ov', d) + (IF d = Request(t) THEN n ELSE 0) = Balance(net, ov, d)
  <2>1. /\ net.told[d] \in Nat /\ Cancelled(ov[d]) \in Nat /\ Len(net.heard) \in Nat
        /\ net.out \in Nat
    BY <1>0, BalanceIs
  <2>2. CASE d = "r"
    BY <2>1, <2>2, <1>5, <1>r DEF Balance
  <2>3. CASE d = "w"
    BY <2>1, <2>3, <1>5, <1>r DEF Balance
  <2> QED BY <2>2, <2>3 DEF Directions
<1>10. \A d \in Directions : ov'[d].state = "done" => d # Request(t) /\ ov[d].state = "done"
  BY <1>6
<1>11. ov' \in [Directions -> SockRequest] /\ calls[t].pc # "idle"
  BY <1>0
<1> QED BY <1>r, <1>5, <1>7, <1>10, <1>11, MovedKeeps

\* A thread that ends without having moved more, or begins to wait for a request.
LEMMA MovesOnKeeps ==
  ASSUME SockInv, sockWorld' = sockWorld, net' = net, NEW t \in sockWorld.users,
         calls[t].pc = "move", NEW pc \in SockNames, SockGo(t, pc),
         \/ pc = "done" /\ ov' = ov /\ (socks' = socks \/ SockFails(Link, "END"))
         \/ /\ pc = "wait" /\ sockWorld.over /\ socks' = socks
            /\ ov' = [ov EXCEPT ![Request(t)] = [NoRequest EXCEPT !.state = "pending"]]
  PROVE  SockInv'
<1>0. /\ calls[t] \in SockCall /\ UserCall(calls[t]) /\ calls[t].got \in Nat
      /\ calls[t].size \in Nat /\ Request(t) \in Directions
      /\ socks \in [Both -> SockObject] /\ ov \in [Directions -> SockRequest]
      /\ net \in Connection /\ SameStream(net)
      /\ calls \in [SockThreads -> SockCall] /\ t \in SockThreads
      /\ SameSockets(socks) /\ FlagsMoved(t, socks) /\ Link \in Both
  BY UserFacts
<1> DEFINE c == [calls[t] EXCEPT !.pc = pc]
<1>1. calls' = [calls EXCEPT ![t] = c]
  BY DEF SockGo
<1>2. c \in SockCall /\ UserCall(c) /\ c.pc = pc /\ c.got = calls[t].got /\ pc # "idle"
  BY <1>0, GoesTo
<1> HIDE DEF c
<1>3. socks' \in [Both -> SockObject] /\ SameSockets(socks') /\ FlagsMoved(t, socks')
  <2>1. CASE socks' = socks
    BY <2>1, <1>0
  <2>2. CASE SockFails(Link, "END")
    BY NamesAre, <2>2, <1>0, SetErrorIs
  <2> QED BY <2>1, <2>2
<1>4. ov[Request(t)].state # "done"
  BY NotDone
<1>5. /\ ov' \in [Directions -> SockRequest] /\ ov'[Request(t)].state # "done"
      /\ \A d \in Directions : d # Request(t) => ov'[d] = ov[d]
  <2>1. CASE ov' = ov
    BY <2>1, <1>0, <1>4
  <2>2. CASE ov' = [ov EXCEPT ![Request(t)] = [NoRequest EXCEPT !.state = "pending"]]
    <3>1. /\ [NoRequest EXCEPT !.state = "pending"] \in SockRequest
          /\ [NoRequest EXCEPT !.state = "pending"].state = "pending"
      BY NamesAre DEF NoRequest, SockRequest
    <3> QED BY <3>1, <2>2, <1>0
  <2> QED BY <2>1, <2>2
<1> QED BY <1>0, <1>1, <1>2, <1>3, <1>5, UserGoesOn

\* Recv, blocking or overlapped: it takes what has come, waits, ends, or fails.
LEMMA RecvKeeps ==
  ASSUME SockInv, NEW t \in sockWorld.users, RecvBlocking(t) \/ RecvOverlapped(t)
  PROVE  SockInv'
<1>1. t \in Readers /\ calls[t].pc = "move" /\ sockWorld' = sockWorld /\ Request(t) = "r"
  BY DEF RecvBlocking, RecvOverlapped, Readers, SockAt, Request
<1> DEFINE n == Available(calls[t].size - calls[t].got)
<1>2. CASE RecvBlocking(t)
  <2>0. ov' = ov
    BY <1>2 DEF RecvBlocking
  <2>1. \/ TransferFails(t) /\ net' = net
        \/ net' = TakenBytes(n) /\ MovedSome(t, n) /\ socks' = socks
        \/ SockFails(Link, "END") /\ SockGo(t, "done") /\ net' = net
    BY <1>2 DEF RecvBlocking
  <2>2. CASE TransferFails(t) /\ net' = net
    BY <2>0, <2>2, <1>1, FailKeeps
  <2>3. CASE net' = TakenBytes(n) /\ MovedSome(t, n) /\ socks' = socks
    BY <2>0, <2>3, <1>1, TakesKeeps
  <2>4. CASE SockFails(Link, "END") /\ SockGo(t, "done") /\ net' = net
    BY NamesAre, <2>0, <2>4, <1>1, MovesOnKeeps
  <2> QED BY <2>1, <2>2, <2>3, <2>4
<1>3. CASE RecvOverlapped(t)
  <2>0. sockWorld.over
    BY <1>3 DEF RecvOverlapped
  <2>1. \/ TransferFails(t) /\ net' = net /\ ov' = ov
        \/ net' = TakenBytes(n) /\ MovedSome(t, n) /\ socks' = socks /\ ov' = ov
        \/ SockGo(t, "done") /\ socks' = socks /\ ov' = ov /\ net' = net
        \/ /\ ov' = [ov EXCEPT ![Request(t)] = [NoRequest EXCEPT !.state = "pending"]]
           /\ SockGo(t, "wait") /\ socks' = socks /\ net' = net
    BY <1>3, <1>1 DEF RecvOverlapped
  <2>2. CASE TransferFails(t) /\ net' = net /\ ov' = ov
    BY <2>2, <1>1, FailKeeps
  <2>3. CASE net' = TakenBytes(n) /\ MovedSome(t, n) /\ socks' = socks /\ ov' = ov
    BY <2>3, <1>1, TakesKeeps
  <2>4. CASE SockGo(t, "done") /\ socks' = socks /\ ov' = ov /\ net' = net
    BY NamesAre, <2>4, <1>1, MovesOnKeeps
  <2>5. CASE /\ ov' = [ov EXCEPT ![Request(t)] = [NoRequest EXCEPT !.state = "pending"]]
             /\ SockGo(t, "wait") /\ socks' = socks /\ net' = net
    BY NamesAre, <2>0, <2>5, <1>1, MovesOnKeeps
  <2> QED BY <2>1, <2>2, <2>3, <2>4, <2>5
<1> QED BY <1>2, <1>3

\* Send, blocking or overlapped: it sends some, waits, or fails.
LEMMA SendKeeps ==
  ASSUME SockInv, SendBlocking \/ SendOverlapped
  PROVE  SockInv'
<1>1. /\ Writer \in sockWorld.users /\ calls[Writer].pc = "move" /\ sockWorld' = sockWorld
      /\ Request(Writer) = "w" /\ calls[Writer].size \in Nat
  BY UserFacts DEF SendBlocking, SendOverlapped, SockAt, Request
<1>2. \/ TransferFails(Writer) /\ net' = net /\ ov' = ov
      \/ \E n \in Nat : net' = [net EXCEPT !.out = @ + n] /\ Moved(Writer, n, FALSE)
                       /\ (socks' = socks \/ SockFails(Link, "TIMEOUT")) /\ ov' = ov
      \/ /\ ov' = [ov EXCEPT ![Request(Writer)] = [NoRequest EXCEPT !.state = "pending"]]
         /\ SockGo(Writer, "wait") /\ socks' = socks /\ net' = net /\ sockWorld.over
  <2>1. CASE SendBlocking
    <3>1. CASE ~socks[Link].sock \/ net.peer # "up"
      BY <2>1, <3>1 DEF SendBlocking
    <3>2. CASE ~(~socks[Link].sock \/ net.peer # "up")
      <4>1. PICK n \in 1 .. calls[Writer].size :
              net' = [net EXCEPT !.out = @ + n] /\ Moved(Writer, n, FALSE)
        BY <2>1, <3>2 DEF SendBlocking
      <4>2. n \in Nat
        BY <1>1
      <4> QED BY <2>1, <3>2, <4>1, <4>2 DEF SendBlocking
    <3> QED BY <3>1, <3>2
  <2>2. CASE SendOverlapped
    BY <2>2, <1>1 DEF SendOverlapped
  <2> QED BY <2>1, <2>2
<1>3. CASE TransferFails(Writer) /\ net' = net /\ ov' = ov
  BY <1>3, <1>1, FailKeeps
<1>4. CASE \E n \in Nat : net' = [net EXCEPT !.out = @ + n] /\ Moved(Writer, n, FALSE)
                         /\ (socks' = socks \/ SockFails(Link, "TIMEOUT")) /\ ov' = ov
  BY <1>4, <1>1, SentKeeps
<1>5. CASE /\ ov' = [ov EXCEPT ![Request(Writer)] = [NoRequest EXCEPT !.state = "pending"]]
           /\ SockGo(Writer, "wait") /\ socks' = socks /\ net' = net /\ sockWorld.over
  BY NamesAre, <1>5, <1>1, MovesOnKeeps
<1> QED BY <1>2, <1>3, <1>4, <1>5

\* The request is looked at, or given up: what it has moved is counted now.
LEMMA RequestEnds ==
  ASSUME SockInv, sockWorld' = sockWorld, socks' = socks, net' = net,
         NEW t \in sockWorld.users, calls[t].pc # "idle", NEW n \in Nat, NEW more \in BOOLEAN,
         Moved(t, n, more), more => n < calls[t].size - calls[t].got,
         ov' = [ov EXCEPT ![Request(t)] = NoRequest],
         net.made => n = Cancelled(ov[Request(t)])
  PROVE  SockInv'
<1>0. /\ calls[t] \in SockCall /\ UserCall(calls[t]) /\ calls[t].got \in Nat
      /\ calls[t].size \in Nat /\ Request(t) \in Directions
      /\ socks \in [Both -> SockObject] /\ ov \in [Directions -> SockRequest]
      /\ net \in Connection /\ SameStream(net)
      /\ calls \in [SockThreads -> SockCall] /\ t \in SockThreads
      /\ SameSockets(socks) /\ FlagsMoved(t, socks) /\ Link \in Both
  BY UserFacts
<1>1. NoRequest \in SockRequest /\ NoRequest.state = "free" /\ Cancelled(NoRequest) = 0
  BY NamesAre DEF NoRequest, SockRequest, Cancelled
<1>2. ov' \in [Directions -> SockRequest] /\ ov'[Request(t)] = NoRequest
      /\ \A d \in Directions : d # Request(t) => ov'[d] = ov[d]
  BY <1>0, <1>1
<1>3. \A d \in Directions : ov'[d].state = "done" => d # Request(t) /\ ov[d].state = "done"
  BY <1>1, <1>2
<1>4. ASSUME NEW d \in Directions, net.made
      PROVE  Balance(net', ov', d) + (IF d = Request(t) THEN n ELSE 0) = Balance(net, ov, d)
  <2>1. /\ net.told[d] \in Nat /\ Cancelled(ov[d]) \in Nat /\ Len(net.heard) \in Nat
        /\ net.out \in Nat
    BY <1>0, BalanceIs
  <2>2. Cancelled(ov'[d]) = IF d = Request(t) THEN 0 ELSE Cancelled(ov[d])
    BY <1>1, <1>2
  <2>3. d = Request(t) => n = Cancelled(ov[d])
    BY <1>4
  <2> QED BY <2>1, <2>2, <2>3 DEF Balance
<1> QED BY <1>0, <1>2, <1>3, <1>4, MovedKeeps

\* A thread is woken, or gives up: it counts what its request has moved, or its socket fails.
LEMMA WaitKeeps ==
  ASSUME SockInv, NEW t \in sockWorld.users, Awakes(t) \/ WaitEnds(t)
  PROVE  SockInv'
<1>0. /\ calls[t] \in SockCall /\ UserCall(calls[t]) /\ calls[t].got \in Nat
      /\ calls[t].size \in Nat /\ Request(t) \in Directions
      /\ socks \in [Both -> SockObject] /\ ov \in [Directions -> SockRequest]
      /\ net \in Connection /\ SameStream(net)
      /\ calls \in [SockThreads -> SockCall] /\ t \in SockThreads
      /\ SameSockets(socks) /\ FlagsMoved(t, socks) /\ Link \in Both
  BY UserFacts
<1>1. /\ calls[t].pc = "wait" /\ sockWorld' = sockWorld /\ net' = net
      /\ ov' = [ov EXCEPT ![Request(t)] = NoRequest]
  BY DEF Awakes, WaitEnds, SockAt
<1>2. net.made => socks[Link].sock
  BY DEF SockInv, SocketsHeld
<1>3. ov[Request(t)].n \in Nat /\ Cancelled(ov[Request(t)]) \in Nat
  BY <1>0, BalanceIs DEF SockRequest
<1>4. CASE WaitEnds(t)
  <2> DEFINE n == IF socks[Link].sock THEN Cancelled(ov[Request(t)]) ELSE 0
  <2>1. Moved(t, n, FALSE) /\ socks' = socks
    BY <1>4 DEF WaitEnds
  <2>2. n \in Nat /\ (net.made => n = Cancelled(ov[Request(t)]))
    BY <1>2, <1>3
  <2> HIDE DEF n
  <2> QED BY <2>1, <2>2, <1>1, RequestEnds
<1>5. CASE Awakes(t) /\ socks[Link].sock /\ ov[Request(t)].state = "done"
  <2> DEFINE n == ov[Request(t)].n
  <2>1. MovedSome(t, n) /\ socks' = socks
    BY <1>5 DEF Awakes
  <2>2. PICK late \in {FALSE, sockWorld.timed} : Moved(t, n, GoesOn(calls[t], n) /\ ~late)
    BY <2>1 DEF MovedSome
  <2>3. n \in Nat /\ n = Cancelled(ov[Request(t)])
    BY <1>3, <1>5 DEF Cancelled
  <2>4. GoesOn(calls[t], n) => n < calls[t].size - calls[t].got
    BY DEF GoesOn
  <2> DEFINE more == GoesOn(calls[t], n) /\ ~late
  <2>5. more \in BOOLEAN /\ Moved(t, n, more) /\ (more => n < calls[t].size - calls[t].got)
    BY <2>2, <2>4
  <2> HIDE DEF n, more
  <2> QED BY <2>1, <2>3, <2>5, <1>1, RequestEnds
<1>6. CASE Awakes(t) /\ ~(socks[Link].sock /\ ov[Request(t)].state = "done")
  <2>1. TransferFails(t)
    BY <1>6 DEF Awakes
  <2> QED BY <2>1, <1>1, <1>6, FailKeeps
<1> QED BY <1>4, <1>5, <1>6

\* The system completes a request for the thread that waits, and the other end goes on.
LEMMA SystemKeeps ==
  ASSUME SockInv, UNCHANGED <<sockWorld, socks, calls>>, ov' \in [Directions -> SockRequest],
         \A d \in Directions : ov'[d].state = "done" =>
           ov[d].state = "done" \/ \E t \in sockWorld.users : Request(t) = d /\ calls[t].pc = "wait",
         net' \in Connection, net'.made = net.made,
         net'.peer = "reset" => net'.inbox = << >>,
         InStream', \A d \in Directions : net.made => Balance(net', ov', d) = Balance(net, ov, d)
  PROVE  SockInv'
<1>s. SockThreads' = SockThreads /\ Link' = Link /\ Readers' = Readers
  BY DEF SockThreads, Link, Readers
<1>1. SockTyped' /\ OneReader' /\ UserCalls' /\ OwnerCall(calls[Owner], socks)' /\ OwnerAlone'
  BY <1>s DEF SockInv, SockTyped, OneReader, UserCalls, UserCall, OwnerCall, OwnerAlone, OwnerFree
<1>2. SocketsHeld'
  BY <1>s DEF SockInv, SocketsHeld
<1>3. FlagsHeld'
  BY <1>s DEF SockInv, FlagsHeld
<1>4. DoneAwaited'
  BY DEF SockInv, DoneAwaited, Request
<1>5. \A t : GotBy(t)' = GotBy(t)
  BY DEF GotBy
<1>6. ReadAccount' /\ WriteAccount'
  <2>1. /\ net.made => Balance(net', ov', "r") = Balance(net, ov, "r")
        /\ net.made => Balance(net', ov', "w") = Balance(net, ov, "w")
    BY DEF Directions
  <2>2. ReadAccount /\ WriteAccount
    BY DEF SockInv
  <2> QED BY <2>1, <2>2, <1>5 DEF ReadAccount, WriteAccount, Writer
<1>7. OpenedTruthfully'
  BY DEF SockInv, OpenedTruthfully, SockAt
<1> QED BY <1>1, <1>2, <1>3, <1>4, <1>6, <1>7 DEF SockInv

\* The system completes a receive for the reader that waits.
LEMMA RecvCompletesKeeps ==
  ASSUME SockInv, RecvCompletes
  PROVE  SockInv'
<1>1. /\ ov \in [Directions -> SockRequest] /\ net \in Connection /\ SocketsHeld /\ InStream
  BY DEF SockInv, SockTyped
<1>2. PICK t \in Readers :
        /\ calls[t].pc = "wait"
        /\ LET n == Available(calls[t].size - calls[t].got)
               state == IF net.peer = "reset" THEN "failed" ELSE "done"
           IN  /\ ov' = [ov EXCEPT !["r"] = [state |-> state, event |-> TRUE, n |-> n]]
               /\ net' = TakenBytes(n)
  BY DEF RecvCompletes, SockAt
<1>3. t \in sockWorld.users /\ Request(t) = "r"
  BY DEF Readers, Request
<1> DEFINE n == Available(calls[t].size - calls[t].got)
           state == IF net.peer = "reset" THEN "failed" ELSE "done"
           r == [state |-> state, event |-> TRUE, n |-> n]
<1>4. n \in 0 .. Len(net.inbox) /\ n \in Nat /\ (net.inbox = << >> => n = 0)
  <2>1. calls[t].size \in Nat /\ calls[t].got \in Nat /\ calls[t].got <= calls[t].size
    BY <1>2, <1>3, UserFacts DEF UserCall
  <2>2. calls[t].size - calls[t].got \in Nat
    BY <2>1
  <2>3. n \in 0 .. Len(net.inbox) /\ net.inbox \in Seq(Nat)
    BY <1>1, <2>2, AvailableIs
  <2> QED BY <2>3
<1>5. ov' = [ov EXCEPT !["r"] = r] /\ net' = TakenBytes(n)
  BY <1>2
<1>6. r \in SockRequest /\ r.state = state /\ Cancelled(r) = n
  <2>1. net.peer = "reset" => n = 0
    BY <1>1, <1>4 DEF SocketsHeld
  <2>2. r \in SockRequest
    BY NamesAre, <1>4 DEF SockRequest
  <2> QED BY <2>1, <2>2 DEF Cancelled
<1>7. /\ net' \in Connection /\ SameStream(net') /\ Len(net'.heard) = Len(net.heard) + n
      /\ net'.told = net.told /\ net'.out = net.out
  BY <1>4, <1>5, TakenIs
<1> HIDE DEF r, n, state
<1>8. ov' \in [Directions -> SockRequest] /\ ov'["r"] = r /\ ov'["w"] = ov["w"]
  BY <1>1, <1>5, <1>6 DEF Directions
<1>9. ov["r"].state = "pending" /\ sockWorld' = sockWorld /\ socks' = socks /\ calls' = calls
  BY DEF RecvCompletes
<1>10. \A d \in Directions : Balance(net', ov', d) = Balance(net, ov, d)
  <2>1. /\ net.told["r"] \in Nat /\ Len(net.heard) \in Nat
    BY <1>1 DEF Connection, Directions
  <2>2. Cancelled(ov["r"]) = 0
    BY <1>9 DEF Cancelled
  <2>3. Balance(net', ov', "r") = Balance(net, ov, "r")
    BY <2>1, <2>2, <1>4, <1>6, <1>7, <1>8 DEF Balance
  <2>4. Balance(net', ov', "w") = Balance(net, ov, "w")
    BY <1>7, <1>8 DEF Balance
  <2> QED BY <2>3, <2>4 DEF Directions
<1>11. \A d \in Directions : ov'[d].state = "done" =>
         ov[d].state = "done" \/ \E u \in sockWorld.users : Request(u) = d /\ calls[u].pc = "wait"
  BY <1>2, <1>3, <1>8 DEF Directions
<1>12. InStream'
  BY <1>1, <1>7 DEF InStream, SameStream
<1>13. net'.made = net.made /\ (net'.peer = "reset" => net'.inbox = << >>)
  BY <1>7 DEF SameStream
<1> QED BY <1>7, <1>8, <1>9, <1>10, <1>11, <1>12, <1>13, SystemKeeps

\* The system completes a send for the writer that waits.
LEMMA SendCompletesKeeps ==
  ASSUME SockInv, SendCompletes
  PROVE  SockInv'
<1>1. /\ ov \in [Directions -> SockRequest] /\ net \in Connection /\ SocketsHeld /\ InStream
  BY DEF SockInv, SockTyped
<1>2. /\ Writer \in sockWorld.users /\ calls[Writer].pc = "wait" /\ Request(Writer) = "w"
      /\ ov["w"].state = "pending" /\ sockWorld' = sockWorld /\ socks' = socks /\ calls' = calls
      /\ calls[Writer].size \in Nat
  BY UserFacts DEF SendCompletes, SockAt, Request
<1>3. Cancelled(ov["w"]) = 0 /\ ov["w"] \in SockRequest
  BY <1>1, <1>2 DEF Cancelled, Directions
<1>d. "r" \in Directions /\ "w" \in Directions
  BY DEF Directions
<1>4. CASE net.peer = "up"
  <2> DEFINE n == calls[Writer].size
             r == [state |-> "done", event |-> TRUE, n |-> n]
  <2>1. ov' = [ov EXCEPT !["w"] = r] /\ net' = [net EXCEPT !.out = @ + n]
    BY <1>4 DEF SendCompletes
  <2>2. r \in SockRequest /\ Cancelled(r) = n
    BY NamesAre, <1>2 DEF SockRequest, Cancelled
  <2>3. /\ net' \in Connection /\ SameStream(net') /\ net'.out = net.out + n
        /\ net'.told = net.told /\ net'.heard = net.heard
    BY <1>2, <2>1, SentIs
  <2> HIDE DEF r, n
  <2>4. ov' \in [Directions -> SockRequest] /\ ov'["w"] = r /\ ov'["r"] = ov["r"]
    BY <1>1, <2>1, <2>2, <1>d
  <2>5. \A d \in Directions : Balance(net', ov', d) = Balance(net, ov, d)
    <3>1. net.told["w"] \in Nat /\ net.out \in Nat /\ n \in Nat
      BY <1>1, <1>2, <1>d DEF Connection, n
    <3>3. Balance(net', ov', "w") = Balance(net, ov, "w")
      BY <3>1, <1>3, <2>2, <2>3, <2>4 DEF Balance
    <3>4. Balance(net', ov', "r") = Balance(net, ov, "r")
      BY <2>3, <2>4 DEF Balance
    <3> QED BY <3>3, <3>4 DEF Directions
  <2>6. \A d \in Directions : ov'[d].state = "done" =>
          ov[d].state = "done" \/ \E u \in sockWorld.users : Request(u) = d /\ calls[u].pc = "wait"
    BY <1>2, <2>4 DEF Directions
  <2>7. InStream'
    BY <1>1, <2>3 DEF InStream, SameStream
  <2>8. net'.made = net.made /\ (net'.peer = "reset" => net'.inbox = << >>)
    BY <2>3 DEF SameStream
  <2> QED BY <1>2, <2>3, <2>4, <2>5, <2>6, <2>7, <2>8, SystemKeeps
<1>5. CASE net.peer # "up"
  <2>1. ov' = [ov EXCEPT !["w"] = Aborted(ov["w"])] /\ net' = net
    BY <1>5 DEF SendCompletes
  <2>2. Aborted(ov["w"]) \in SockRequest /\ Aborted(ov["w"]).state = "failed"
    BY NamesAre, <1>2, <1>3 DEF Aborted, SockRequest
  <2>3. Cancelled(Aborted(ov["w"])) = 0
    BY <2>2 DEF Cancelled
  <2>4. /\ ov' \in [Directions -> SockRequest] /\ ov'["w"] = Aborted(ov["w"])
        /\ ov'["r"] = ov["r"]
    BY <1>1, <2>1, <2>2, <1>d
  <2>5. \A d \in Directions : Balance(net', ov', d) = Balance(net, ov, d)
    BY <1>3, <2>1, <2>3, <2>4 DEF Balance, Directions
  <2>6. \A d \in Directions : ov'[d].state = "done" => ov[d].state = "done"
    BY <2>2, <2>4 DEF Directions
  <2>7. InStream' /\ (net'.peer = "reset" => net'.inbox = << >>)
    BY <1>1, <2>1 DEF InStream, SocketsHeld
  <2> QED BY <1>1, <1>2, <2>1, <2>4, <2>5, <2>6, <2>7, SystemKeeps
<1> QED BY <1>4, <1>5

\* The other end sends, shuts down, or resets the connection.
LEMMA PeerKeeps ==
  ASSUME SockInv, PeerSends \/ PeerEnds
  PROVE  SockInv'
<1>1. /\ ov \in [Directions -> SockRequest] /\ net \in Connection /\ SocketsHeld /\ InStream
  BY DEF SockInv, SockTyped
<1>2. net.peer = "up" /\ sockWorld' = sockWorld /\ socks' = socks /\ calls' = calls /\ ov' = ov
  BY DEF PeerSends, PeerEnds
<1>3. net.inbox \in Seq(Nat) /\ net.heard \in Seq(Nat) /\ net.sent \in Nat
  BY <1>1 DEF Connection
<1>4. /\ net' \in Connection /\ net'.made = net.made /\ net'.told = net.told
      /\ net'.heard = net.heard /\ net'.out = net.out
      /\ (net'.peer = "reset" => net'.inbox = << >>) /\ InStream'
  <2>1. CASE PeerSends
    <3> DEFINE more == Append(net.inbox, net.sent + 1)
    <3>1. net' = [net EXCEPT !.sent = net.sent + 1, !.inbox = more]
      BY <2>1 DEF PeerSends
    <3>2. more \in Seq(Nat)
      BY <1>3
    <3> HIDE DEF more
    <3>3. /\ net' \in Connection /\ net'.made = net.made /\ net'.told = net.told
          /\ net'.heard = net.heard /\ net'.out = net.out /\ net'.peer = net.peer
          /\ net'.inbox = more /\ net'.sent = net.sent + 1
      <4>1. ASSUME NEW m \in Nat, net' = [net EXCEPT !.sent = m, !.inbox = more]
            PROVE  /\ net' \in Connection /\ net'.made = net.made /\ net'.told = net.told
                   /\ net'.heard = net.heard /\ net'.out = net.out /\ net'.peer = net.peer
                   /\ net'.inbox = more /\ net'.sent = m
        BY <1>1, <3>2, <4>1 DEF Connection
      <4>2. net.sent + 1 \in Nat
        BY <1>3
      <4> QED BY <3>1, <4>1, <4>2
    <3>4. ASSUME net.made PROVE net.heard \o more = UpTo(net.sent + 1)
      <4>1. net.heard \o net.inbox = UpTo(net.sent)
        BY <1>1, <1>2, <3>4 DEF InStream
      <4> QED BY <4>1, <1>3, AddedInOrder DEF more
    <3>5. InStream'
      BY <3>3, <3>4 DEF InStream
    <3> QED BY <3>3, <3>5, <1>2
  <2>2. CASE PeerEnds
    <3>1. PICK how \in {"over"} \cup (IF sockWorld.fails THEN {"reset"} ELSE {}) :
            net' = [net EXCEPT !.peer = how, !.inbox = IF how = "reset" THEN << >> ELSE @]
      BY <2>2 DEF PeerEnds
    <3>2. how = "over" \/ how = "reset"
      BY <3>1
    <3>3. CASE how = "over"
      <4>1. net' = [net EXCEPT !.peer = "over"]
        BY <3>1, <3>3, <1>1 DEF Connection
      <4>2. /\ net' \in Connection /\ net'.made = net.made /\ net'.told = net.told
            /\ net'.heard = net.heard /\ net'.out = net.out /\ net'.peer = "over"
            /\ net'.inbox = net.inbox /\ net'.sent = net.sent
        BY NamesAre, <4>1, <1>1 DEF Connection
      <4> QED BY <4>2, <1>1, <1>2 DEF InStream
    <3>4. CASE how = "reset"
      <4>1. net' = [net EXCEPT !.peer = "reset", !.inbox = << >>]
        BY <3>1, <3>4
      <4>2. << >> \in Seq(Nat)
        OBVIOUS
      <4>3. /\ net' \in Connection /\ net'.made = net.made /\ net'.told = net.told
            /\ net'.heard = net.heard /\ net'.out = net.out /\ net'.peer = "reset"
            /\ net'.inbox = << >>
        BY NamesAre, <4>1, <4>2, <1>1 DEF Connection
      <4> QED BY <4>3 DEF InStream
    <3> QED BY <3>2, <3>3, <3>4
  <2> QED BY <2>1, <2>2
<1>5. \A d \in Directions : Balance(net', ov', d) = Balance(net, ov, d)
  BY <1>2, <1>4 DEF Balance
<1> QED BY <1>1, <1>2, <1>4, <1>5, SystemKeeps

------------------------------------------------------------------------------
\* Close: whoever closes the connection ends it.
LEMMA ClosedIs ==
  ASSUME NEW x \in Both, socks \in [Both -> SockObject],
         socks' = [socks EXCEPT ![x] = Closed(socks[x])]
  PROVE  /\ socks' \in [Both -> SockObject]
         /\ ~socks'[x].sock /\ ~socks'[x].Initialized /\ ~socks'[x].nonBlocking
         /\ ~socks'[x].ReadInUse /\ ~socks'[x].WriteInUse /\ socks'[x].error = socks[x].error
         /\ \A y \in Both : y # x => socks'[y] = socks[y]
<1>1. /\ Closed(socks[x]) \in SockObject
      /\ ~Closed(socks[x]).sock /\ ~Closed(socks[x]).Initialized /\ ~Closed(socks[x]).nonBlocking
      /\ ~Closed(socks[x]).ReadInUse /\ ~Closed(socks[x]).WriteInUse
      /\ Closed(socks[x]).error = socks[x].error
  BY DEF Closed, NewSocket, SockObject
<1> QED BY <1>1

\* A socket is closed, by its owner or by the thread whose transfer failed: a request that
\* was under way is cancelled, and what it had moved stays in the account.
LEMMA SockClosesKeeps ==
  ASSUME SockInv, NEW t \in SockThreads, SockCloses(t)
  PROVE  SockInv'
<1>0. /\ SockTyped /\ OneReader /\ UserCalls /\ OwnerCall(calls[Owner], socks) /\ OwnerAlone
      /\ SocketsHeld /\ FlagsHeld /\ DoneAwaited /\ ReadAccount /\ WriteAccount /\ InStream
      /\ OpenedTruthfully
  BY DEF SockInv
<1>t. /\ socks \in [Both -> SockObject] /\ ov \in [Directions -> SockRequest]
      /\ net \in Connection /\ calls \in [SockThreads -> SockCall] /\ Link \in Both
      /\ calls[t] \in SockCall /\ calls[Owner] \in SockCall /\ Owner \in SockThreads
      /\ Owner \notin sockWorld.users
  BY <1>0, SockTypes DEF SockTyped
<1>s. SockThreads' = SockThreads /\ Link' = Link /\ Readers' = Readers /\ sockWorld' = sockWorld
  BY DEF SockCloses, SockThreads, Link, Readers
<1> DEFINE x == calls[t].x
           next == IF sockWorld.over THEN "reset" ELSE calls[t].then
           c == [calls[t] EXCEPT !.pc = next]
<1>1. calls[t].pc = "close" /\ x \in Both /\ next \in SockNames
  BY NamesAre, <1>t DEF SockCloses, SockAt, SockCall
<1>2. calls' = [calls EXCEPT ![t] = c]
  BY DEF SockCloses, SockGo
<1>3. /\ c \in SockCall /\ c.pc = next /\ c.got = calls[t].got /\ c.x = x /\ c.op = calls[t].op
      /\ c.then = calls[t].then /\ c.res = calls[t].res
  BY <1>t, <1>1 DEF SockCall
<1>4. /\ socks' \in [Both -> SockObject]
      /\ ~socks'[x].sock /\ ~socks'[x].Initialized /\ ~socks'[x].nonBlocking
      /\ ~socks'[x].ReadInUse /\ ~socks'[x].WriteInUse /\ socks'[x].error = socks[x].error
      /\ \A y \in Both : y # x => socks'[y] = socks[y]
  <2>1. socks' = [socks EXCEPT ![x] = Closed(socks[x])]
    BY DEF SockCloses
  <2> QED BY <2>1, <1>1, <1>t, ClosedIs
<1>5. IF x = Link /\ socks[x].sock
      THEN /\ ov' = [d \in Directions |-> Aborted(ov[d])]
           /\ net' = [net EXCEPT !.made = FALSE, !.peer = "none", !.inbox = << >>]
      ELSE ov' = ov /\ net' = net
  <2>1. DOMAIN ov = Directions
    BY <1>t
  <2> QED BY <2>1 DEF SockCloses
<1> HIDE DEF c, x
<1>6. calls'[t] = c /\ \A u \in SockThreads : u # t => calls'[u] = calls[u]
  BY <1>2, <1>t
<1>7. /\ ov' \in [Directions -> SockRequest] /\ net' \in Connection
      /\ \A d \in Directions : ov'[d].state = "done" => ov[d].state = "done"
      /\ net'.made => net' = net /\ ov' = ov /\ (x # Link \/ ~socks[Link].sock)
      /\ net'.peer = "reset" => net'.inbox = << >>
  <2>1. CASE x = Link /\ socks[x].sock
    <3>1. ov' = [d \in Directions |-> Aborted(ov[d])]
      BY <1>5, <2>1
    <3>2. \A d \in Directions : Aborted(ov[d]) \in SockRequest
                               /\ (Aborted(ov[d]).state = "done" => ov[d].state = "done")
      BY NamesAre, <1>t DEF Aborted, SockRequest
    <3>3. << >> \in Seq(Nat)
      OBVIOUS
    <3>4. net' \in Connection /\ ~net'.made /\ net'.peer = "none"
      BY NamesAre, <1>5, <2>1, <3>3, <1>t DEF Connection
    <3> QED BY <3>1, <3>2, <3>4
  <2>2. CASE ~(x = Link /\ socks[x].sock)
    BY <1>5, <2>2, <1>t, <1>0 DEF SocketsHeld
  <2> QED BY <2>1, <2>2
<1>8. SockTyped' /\ OneReader'
  BY <1>0, <1>2, <1>3, <1>4, <1>7, <1>s, <1>t DEF SockTyped, OneReader
<1>9. t \in sockWorld.users => x = Link /\ calls[t].then = "done"
  BY <1>0, <1>1 DEF UserCalls, UserCall, x
<1>10. UserCalls'
  <2>1. ASSUME NEW u \in sockWorld.users PROVE UserCall(calls'[u])
    <3>1. CASE u = t
      BY <3>1, <1>6, <1>3, <1>9 DEF UserCall
    <3>2. CASE u # t
      BY <3>2, <1>6, <1>0 DEF UserCalls, SockThreads
    <3> QED BY <3>1, <3>2
  <2> QED BY <2>1, <1>s DEF UserCalls, UserCall
<1>11. \A y \in Both : /\ socks'[y].sock => socks[y].sock /\ y # x
                       /\ socks'[y].Initialized => socks[y].Initialized
                       /\ socks'[y].nonBlocking => socks[y].nonBlocking
                       /\ socks'[y].error = socks[y].error
  BY <1>4
<1>12. OwnerCall(calls[Owner], socks)'
  <2>1. CASE t = Owner
    <3>1. c.x \in Both /\ ~socks'[c.x].sock
      BY <1>3, <1>1, <1>4
    <3>2. calls[Owner].then \in {"create", "accept", "fail", "both", "end"}
      BY <2>1, <1>0, <1>1 DEF OwnerCall
    <3>3. \A pc \in {"create", "accept", "fail", "both", "end"} :
            Ahead(c, pc) => Ahead(calls[Owner], pc)
      BY <2>1, <1>1, <1>3 DEF Ahead
    <3>4. calls[Owner].op = c.op /\ calls[Owner].x = c.x /\ calls[Owner].then = c.then
      BY <2>1, <1>3 DEF x
    <3>6. c.pc # "try" /\ socks'[c.x].error = socks[calls[Owner].x].error
      BY <3>1, <3>2, <3>4, <2>1, <1>3, <1>11
    <3>5. OwnerCall(c, socks')
      BY <3>1, <3>2, <3>3, <3>4, <3>6, <1>0 DEF OwnerCall
    <3> QED BY <2>1, <3>5, <1>6, <1>s DEF OwnerCall, Ahead
  <2>2. CASE t # Owner
    <3>1. calls'[Owner] = calls[Owner] /\ calls[Owner].x \in Both
      BY <2>2, <1>6, <1>t DEF SockCall
    <3>2. /\ socks'[calls[Owner].x].sock => socks[calls[Owner].x].sock
          /\ socks'[calls[Owner].x].error = socks[calls[Owner].x].error
      BY <3>1, <1>11
    <3>4. calls[Owner].pc # "try"
      <4>1. t \in sockWorld.users /\ calls[t].pc # "idle"
        BY <2>2, <1>1 DEF SockThreads
      <4>2. OwnerFree
        BY <4>1, <1>0 DEF OwnerAlone
      <4> QED BY <4>2, <1>0 DEF OwnerFree, OwnerCall
    <3>3. OwnerCall(calls[Owner], socks')
      BY <3>2, <3>4, <1>0 DEF OwnerCall
    <3> QED BY <3>1, <3>3, <1>s DEF OwnerCall
  <2> QED BY <2>1, <2>2
<1>13. OwnerAlone'
  <2>1. CASE t = Owner
    <3>1. \A u \in sockWorld.users : calls'[u] = calls[u]
      BY <2>1, <1>6, <1>t DEF SockThreads
    <3>2. calls'[Owner].op = calls[Owner].op
      BY <2>1, <1>6, <1>3
    <3> QED BY <2>1, <3>1, <3>2, <1>0, <1>1, <1>s DEF OwnerAlone, OwnerFree
  <2>2. CASE t # Owner
    <3>1. t \in sockWorld.users /\ calls'[Owner] = calls[Owner]
      BY <2>2, <1>6, <1>t DEF SockThreads
    <3>2. OwnerFree
      BY <3>1, <1>0, <1>1 DEF OwnerAlone
    <3> QED BY <3>1, <3>2 DEF OwnerAlone, OwnerFree
  <2> QED BY <2>1, <2>2
<1>14. SocketsHeld'
  <2>1. \A y \in Both : socks'[y].Initialized => socks'[y].sock
    BY <1>4, <1>0 DEF SocketsHeld
  <2>2. \A y \in Both : socks'[y].nonBlocking => sockWorld.nonBlocking
    BY <1>11, <1>0 DEF SocketsHeld
  <2>3. net'.made => socks'[Link].sock
    BY <1>7, <1>4, <1>0, <1>t DEF SocketsHeld
  <2> QED BY <2>1, <2>2, <2>3, <1>7, <1>s DEF SocketsHeld
<1>15. FlagsHeld'
  <2>1. CASE x = Link
    BY <2>1, <1>4, <1>s DEF FlagsHeld
  <2>2. CASE x # Link
    <3>1. t = Owner
      BY <2>2, <1>9 DEF SockThreads
    <3>2. \A u \in sockWorld.users : calls'[u] = calls[u]
      BY <3>1, <1>6, <1>t DEF SockThreads
    <3>3. socks'[Link] = socks[Link]
      BY <2>2, <1>4, <1>t
    <3>4. \A u \in Readers : calls'[u] = calls[u]
      BY <3>2 DEF Readers
    <3>5. Writer \in sockWorld.users => calls'[Writer] = calls[Writer]
      BY <3>2
    <3> QED BY <3>3, <3>4, <3>5, <1>0, <1>s DEF FlagsHeld
  <2> QED BY <2>1, <2>2
<1>16. DoneAwaited'
  <2>1. ASSUME NEW d \in Directions, ov'[d].state = "done"
        PROVE  \E u \in sockWorld.users : Request(u) = d /\ calls'[u].pc = "wait"
    <3>1. PICK u \in sockWorld.users : Request(u) = d /\ calls[u].pc = "wait"
      BY <2>1, <1>0, <1>7 DEF DoneAwaited
    <3>2. u # t /\ u \in SockThreads
      BY <3>1, <1>1 DEF SockThreads
    <3> QED BY <3>1, <3>2, <1>6
  <2> QED BY <2>1, <1>s DEF DoneAwaited, Request
<1>17. \A u \in sockWorld.users : calls'[u].got = calls[u].got
  BY <1>3, <1>6 DEF SockThreads
<1>18. ReadAccount' /\ WriteAccount' /\ InStream'
  <2>1. CASE ~net'.made
    BY <2>1 DEF ReadAccount, WriteAccount, InStream
  <2>2. CASE net'.made
    <3>1. net' = net /\ ov' = ov
      BY <2>2, <1>7
    <3>2. \A u \in {"r1", "r2", Writer} : GotBy(u)' = GotBy(u)
      BY <1>17, <1>s DEF GotBy
    <3> QED BY <3>1, <3>2, <1>0 DEF ReadAccount, WriteAccount, InStream, Writer
  <2> QED BY <2>1, <2>2
<1>19. OpenedTruthfully'
  <2>1. CASE t = Owner
    <3>1. c.pc # "idle"
      BY <2>1, <1>0, <1>1, <1>3 DEF OwnerCall
    <3> QED BY <2>1, <3>1, <1>6 DEF OpenedTruthfully, SockAt
  <2>2. CASE t # Owner
    <3>1. calls'[Owner] = calls[Owner] /\ t \in sockWorld.users
      BY <2>2, <1>6, <1>t DEF SockThreads
    <3>2. x = Link
      BY <3>1, <1>9
    <3> SUFFICES ASSUME calls[Owner].pc = "idle",
                        calls[Owner].op \in {"Connect_s", "Accept_s", "Bind_s"}
                 PROVE  IF calls[Owner].res = 1
                        THEN socks'[calls[Owner].x].sock /\ calls[Owner].op # "Bind_s" =>
                               net'.made \/ (sockWorld.over /\ sockWorld.nonBlocking)
                        ELSE calls[Owner].ready \/ calls[Owner].op = "Accept_s" =>
                               /\ ~socks'[calls[Owner].x].sock
                               /\ socks'[calls[Owner].x].error # "none"
      BY <3>1, <1>s DEF OpenedTruthfully, SockAt
    <3>3. calls[Owner].x \in Both
      BY <1>t DEF SockCall
    <3>4. calls[Owner].op # "Bind_s" => calls[Owner].x = Link
      BY <1>0 DEF OwnerCall, Link
    <3>5. calls[Owner].op # "Bind_s" => ~socks'[calls[Owner].x].sock
      BY <3>2, <3>4, <1>4
    <3>6. /\ socks'[calls[Owner].x].sock => socks[calls[Owner].x].sock
          /\ socks'[calls[Owner].x].error = socks[calls[Owner].x].error
      BY <3>3, <1>11
    <3>7. CASE calls[Owner].res = 1
      BY <3>5, <3>7
    <3>8. CASE calls[Owner].res # 1
      BY <3>6, <3>8, <1>0 DEF OpenedTruthfully, SockAt
    <3> QED BY <3>7, <3>8
  <2> QED BY <2>1, <2>2
<1> QED BY <1>8, <1>10, <1>12, <1>13, <1>14, <1>15, <1>16, <1>18, <1>19 DEF SockInv

\* A thread that has closed its socket resets the events, and ends.
LEMMA UserResetsKeeps ==
  ASSUME SockInv, NEW t \in sockWorld.users, SockResets(t)
  PROVE  SockInv'
<1>0. /\ calls[t] \in SockCall /\ UserCall(calls[t]) /\ calls[t].got \in Nat
      /\ calls[t].size \in Nat /\ Request(t) \in Directions
      /\ socks \in [Both -> SockObject] /\ ov \in [Directions -> SockRequest]
      /\ net \in Connection /\ SameStream(net)
      /\ calls \in [SockThreads -> SockCall] /\ t \in SockThreads
      /\ SameSockets(socks) /\ FlagsMoved(t, socks) /\ Link \in Both
  BY UserFacts
<1> DEFINE c == [calls[t] EXCEPT !.pc = "done"]
<1>1. /\ calls[t].pc = "reset" /\ sockWorld' = sockWorld /\ socks' = socks /\ net' = net
      /\ calls[t].then = "done" /\ calls' = [calls EXCEPT ![t] = c]
  BY <1>0 DEF SockResets, SockAt, SockGo, UserCall
<1>2. c \in SockCall /\ UserCall(c) /\ c.pc = "done" /\ c.got = calls[t].got
  <2>1. "done" \in SockNames /\ calls[t].pc # "idle"
    BY NamesAre, <1>1
  <2> QED BY <2>1, <1>0, GoesTo
<1> HIDE DEF c
<1>3. ov' \in [Directions -> SockRequest]
      /\ \A d \in Directions : ov'[d].state = ov[d].state /\ ov'[d].n = ov[d].n
  <2>1. CASE ov' = ov
    BY <2>1, <1>0
  <2>2. CASE ov' = [d \in DOMAIN ov |-> [ov[d] EXCEPT !.event = FALSE]]
    <3>1. \A d \in Directions : /\ [ov[d] EXCEPT !.event = FALSE] \in SockRequest
                               /\ [ov[d] EXCEPT !.event = FALSE].state = ov[d].state
                               /\ [ov[d] EXCEPT !.event = FALSE].n = ov[d].n
      BY <1>0 DEF SockRequest
    <3>2. DOMAIN ov = Directions
      BY <1>0
    <3> QED BY <2>2, <3>1, <3>2
  <2> QED BY <2>1, <2>2 DEF SockResets
<1>4. \A d \in Directions : Balance(net', ov', d) = Balance(net, ov, d)
  BY <1>1, <1>3 DEF Balance, Cancelled
<1>5. ov[Request(t)].state # "done"
  BY <1>1, NotDone
<1>6. \A d \in Directions : ov'[d].state = "done" => d # Request(t) /\ ov[d].state = "done"
  BY <1>3, <1>5
<1> QED BY <1>0, <1>1, <1>2, <1>3, <1>4, <1>6, UserStepKeeps

------------------------------------------------------------------------------
\* A step of the owner that leaves the connection alone.
LEMMA OwnerStepKeeps ==
  ASSUME SockInv, sockWorld' = sockWorld, net' = net,
         NEW c \in SockCall, calls' = [calls EXCEPT ![Owner] = c], OwnerCall(c, socks'),
         c.pc = "idle" \/ c.op = "Close" \/ \A u \in sockWorld.users : calls[u].pc = "idle",
         socks' \in [Both -> SockObject],
         \A y \in Both : socks'[y].Initialized => socks'[y].sock,
         \A y \in Both : socks'[y].nonBlocking => sockWorld.nonBlocking,
         net.made => socks'[Link].sock,
         socks'[Link].ReadInUse => socks[Link].ReadInUse,
         socks'[Link].WriteInUse => socks[Link].WriteInUse,
         ov' \in [Directions -> SockRequest],
         \A d \in Directions : ov'[d].state = ov[d].state /\ ov'[d].n = ov[d].n,
         OpenedTruthfully'
  PROVE  SockInv'
<1>0. /\ SockTyped /\ OneReader /\ UserCalls /\ OwnerAlone
      /\ SocketsHeld /\ FlagsHeld /\ DoneAwaited /\ ReadAccount /\ WriteAccount /\ InStream
  BY DEF SockInv
<1>t. /\ calls \in [SockThreads -> SockCall] /\ Link \in Both /\ Owner \in SockThreads
      /\ Owner \notin sockWorld.users
  BY <1>0, SockTypes DEF SockTyped
<1>s. SockThreads' = SockThreads /\ Link' = Link /\ Readers' = Readers
  BY DEF SockThreads, Link, Readers
<1>1. calls'[Owner] = c /\ \A u \in sockWorld.users : calls'[u] = calls[u]
  BY <1>t DEF SockThreads
<1>2. SockTyped' /\ OneReader'
  BY <1>0, <1>s, <1>t DEF SockTyped, OneReader
<1>3. UserCalls'
  BY <1>0, <1>1, <1>s DEF UserCalls, UserCall
<1>4. OwnerCall(calls[Owner], socks)'
  BY <1>1, <1>s DEF OwnerCall
<1>5. OwnerAlone'
  BY <1>1 DEF OwnerAlone, OwnerFree
<1>6. SocketsHeld'
  BY <1>0, <1>s DEF SocketsHeld
<1>7. FlagsHeld'
  <2>1. \A u \in Readers : calls'[u] = calls[u]
    BY <1>1 DEF Readers
  <2>2. Writer \in sockWorld.users => calls'[Writer] = calls[Writer]
    BY <1>1
  <2> QED BY <2>1, <2>2, <1>0, <1>s DEF FlagsHeld
<1>8. DoneAwaited'
  <2>1. ASSUME NEW d \in Directions, ov'[d].state = "done"
        PROVE  \E u \in sockWorld.users : Request(u) = d /\ calls'[u].pc = "wait"
    BY <2>1, <1>0, <1>1 DEF DoneAwaited
  <2> QED BY <2>1, <1>s DEF DoneAwaited, Request
<1>9. ReadAccount' /\ WriteAccount' /\ InStream'
  <2>1. \A d \in Directions : Balance(net', ov', d) = Balance(net, ov, d)
    BY DEF Balance, Cancelled
  <2>2. \A u \in {"r1", "r2", Writer} : GotBy(u)' = GotBy(u)
    BY <1>1, <1>s DEF GotBy
  <2>3. "r" \in Directions /\ "w" \in Directions
    BY DEF Directions
  <2> QED BY <2>1, <2>2, <2>3, <1>0 DEF ReadAccount, WriteAccount, InStream, Writer
<1> QED BY <1>2, <1>3, <1>4, <1>5, <1>6, <1>7, <1>8, <1>9 DEF SockInv

------------------------------------------------------------------------------
\* What is known of the owner.
LEMMA OwnerFacts ==
  ASSUME SockInv
  PROVE  /\ calls[Owner] \in SockCall /\ OwnerCall(calls[Owner], socks) /\ OwnerAlone
         /\ socks \in [Both -> SockObject] /\ ov \in [Directions -> SockRequest]
         /\ net \in Connection /\ calls \in [SockThreads -> SockCall] /\ Owner \in SockThreads
         /\ Link \in Both /\ SocketsHeld /\ OpenedTruthfully
         /\ calls[Owner].x \in Both
         /\ \A t \in sockWorld.users : t \in SockThreads
         /\ \A d \in Directions : ov[d].state = ov[d].state /\ ov[d].n = ov[d].n
<1>1. calls[Owner] \in SockCall
  BY SockTypes DEF SockInv, SockTyped
<1> QED BY <1>1, SockTypes DEF SockInv, SockTyped, SockCall

\* The call of the owner that returns.
Returned(c, res) == [c EXCEPT !.pc = "idle", !.then = "idle", !.res = res]

\* ... has the call's socket and nothing ahead of it.
LEMMA ReturnedIs ==
  ASSUME SockInv, NEW res \in {0, 1}, SockReturn(Owner, res)
  PROVE  LET c == Returned(calls[Owner], res)
         IN  /\ c \in SockCall /\ calls' = [calls EXCEPT ![Owner] = c] /\ calls'[Owner] = c
             /\ c.pc = "idle" /\ c.op = calls[Owner].op /\ c.x = calls[Owner].x /\ c.res = res
             /\ c.ready = calls[Owner].ready
             /\ \A s : OwnerCall(c, s)
<1> DEFINE c == Returned(calls[Owner], res)
<1>0. /\ calls[Owner] \in SockCall /\ OwnerCall(calls[Owner], socks)
      /\ calls \in [SockThreads -> SockCall] /\ Owner \in SockThreads
  BY OwnerFacts
<1>1. "idle" \in SockNames
  BY NamesAre
<1>2. /\ c \in SockCall /\ c.pc = "idle" /\ c.op = calls[Owner].op /\ c.x = calls[Owner].x
      /\ c.res = res /\ c.ready = calls[Owner].ready
  BY <1>0, <1>1 DEF Returned, SockCall
<1>3. calls' = [calls EXCEPT ![Owner] = c]
  BY DEF SockReturn, Returned
<1> HIDE DEF c
<1>4. calls'[Owner] = c
  BY <1>0, <1>3
<1>5. \A s : OwnerCall(c, s)
  BY <1>0, <1>2 DEF OwnerCall, Ahead
<1> QED BY <1>2, <1>3, <1>4, <1>5 DEF c

\* The owner returns, having left the connection alone.
LEMMA OwnerReturns ==
  ASSUME SockInv, sockWorld' = sockWorld, net' = net, ov' = ov,
         NEW res \in {0, 1}, SockReturn(Owner, res),
         socks' \in [Both -> SockObject],
         \A y \in Both : socks'[y].Initialized => socks'[y].sock,
         \A y \in Both : socks'[y].nonBlocking => sockWorld.nonBlocking,
         net.made => socks'[Link].sock,
         socks'[Link].ReadInUse => socks[Link].ReadInUse,
         socks'[Link].WriteInUse => socks[Link].WriteInUse,
         \/ calls[Owner].op \notin {"Connect_s", "Accept_s", "Bind_s"}
         \/ res = 1 /\ calls[Owner].op = "Bind_s"
         \/ res = 0 /\ calls[Owner].op # "Accept_s" /\ ~calls[Owner].ready
         \/ res = 0 /\ ~socks'[calls[Owner].x].sock /\ socks'[calls[Owner].x].error # "none"
  PROVE  SockInv'
<1> DEFINE c == Returned(calls[Owner], res)
<1>1. /\ c \in SockCall /\ calls' = [calls EXCEPT ![Owner] = c] /\ calls'[Owner] = c
      /\ c.pc = "idle" /\ c.op = calls[Owner].op /\ c.x = calls[Owner].x /\ c.res = res
      /\ c.ready = calls[Owner].ready
      /\ \A s : OwnerCall(c, s)
  BY ReturnedIs
<1> HIDE DEF c
<1>2. OpenedTruthfully'
  BY <1>1 DEF OpenedTruthfully, SockAt
<1>3. ov \in [Directions -> SockRequest]
      /\ \A d \in Directions : ov'[d].state = ov[d].state /\ ov'[d].n = ov[d].n
  BY OwnerFacts
<1>4. OwnerCall(c, socks')
  BY <1>1
<1> QED BY <1>1, <1>2, <1>3, <1>4, OwnerStepKeeps

\* The owner goes on, having left the connection alone.
LEMMA OwnerContinues ==
  ASSUME SockInv, sockWorld' = sockWorld, net' = net, socks' \in [Both -> SockObject],
         SameSockets(socks'), \A t : FlagsMoved(t, socks'),
         NEW c \in SockCall, calls' = [calls EXCEPT ![Owner] = c], OwnerCall(c, socks'),
         c.op = "Close" \/ \A u \in sockWorld.users : calls[u].pc = "idle", c.pc # "idle",
         ov' \in [Directions -> SockRequest],
         \A d \in Directions : ov'[d].state = ov[d].state /\ ov'[d].n = ov[d].n
  PROVE  SockInv'
<1>0. /\ SocketsHeld /\ Link \in Both /\ calls \in [SockThreads -> SockCall]
      /\ Owner \in SockThreads
  BY OwnerFacts
<1>1. OpenedTruthfully'
  BY <1>0 DEF OpenedTruthfully, SockAt
<1>2. \A y \in Both : /\ socks'[y].Initialized => socks'[y].sock
                      /\ socks'[y].nonBlocking => sockWorld.nonBlocking
  BY <1>0 DEF SocketsHeld, SameSockets
<1>3. net.made => socks'[Link].sock
  BY <1>0 DEF SocketsHeld, SameSockets
<1>4. "r1" # Writer
  BY DEF Writer
<1>5. socks'[Link].ReadInUse = socks[Link].ReadInUse /\ socks'[Link].WriteInUse = socks[Link].WriteInUse
  BY <1>4 DEF FlagsMoved
<1> QED BY <1>1, <1>2, <1>3, <1>5, OwnerStepKeeps

\* A call of the owner begins.
LEMMA OwnerBegins ==
  ASSUME SockInv, UNCHANGED <<sockWorld, socks, ov, net>>, NEW op \in SockNames, NEW x \in Both,
         NEW pc \in {"close", "try"}, NEW next \in SockNames, OwnerCalls(op, x, pc, next),
         op = "Close" \/ SockIdle,
         op = "Connect_s" => x = "conn" /\ ~sockWorld.server,
         op = "Bind_s" => x = "conn" /\ sockWorld.server,
         op = "Accept_s" => x = "acc" /\ sockWorld.server,
         pc = "close" => \/ next = "create" /\ op = "Create" /\ x = "conn"
                         \/ next = "accept" /\ op = "Accept_s"
                         \/ next = "both" /\ op = "Close",
         pc = "try" => op # "Close"
  PROVE  SockInv'
<1>0. /\ calls[Owner] \in SockCall /\ socks \in [Both -> SockObject] /\ SocketsHeld
      /\ ov \in [Directions -> SockRequest] /\ \A t \in sockWorld.users : t \in SockThreads
  BY OwnerFacts
<1> DEFINE opens == calls[Owner].opens + IF op = "Create" THEN 1 ELSE 0
           c == [calls[Owner] EXCEPT !.op = op, !.x = x, !.pc = pc, !.then = next,
                                     !.opens = opens, !.ready = socks["conn"].Initialized]
<1>1. calls' = [calls EXCEPT ![Owner] = c]
  BY DEF OwnerCalls
<1>2. pc \in SockNames
  BY NamesAre
<1>3. opens \in Nat
  BY <1>0 DEF SockCall
<1> HIDE DEF opens
<1>10. socks["conn"].Initialized \in BOOLEAN
  BY <1>0 DEF SockObject, Both
<1>4. /\ c \in SockCall /\ c.op = op /\ c.x = x /\ c.pc = pc /\ c.then = next
      /\ c.ready = socks["conn"].Initialized
  BY <1>0, <1>2, <1>3, <1>10 DEF SockCall
<1> HIDE DEF c
<1>5. OwnerCall(c, socks')
  BY <1>4 DEF OwnerCall, Ahead
<1>6. SameSockets(socks') /\ \A t : FlagsMoved(t, socks')
  BY DEF SameSockets, FlagsMoved
<1>7. c.op = "Close" \/ \A u \in sockWorld.users : calls[u].pc = "idle"
  BY <1>0, <1>4 DEF SockIdle, SockAt
<1>8. \A d \in Directions : ov'[d].state = ov[d].state /\ ov'[d].n = ov[d].n
  OBVIOUS
<1>9. c.pc # "idle"
  BY <1>4
<1> QED BY <1>0, <1>1, <1>4, <1>5, <1>6, <1>7, <1>8, <1>9, OwnerContinues

\* The owner calls Create, Connect_s, Bind_s, Listen_s, Accept_s or Close.
LEMMA CallOwnerKeeps ==
  ASSUME SockInv, CallOwner
  PROVE  SockInv'
<1>1. UNCHANGED <<sockWorld, socks, ov, net>>
  BY DEF CallOwner
<1>x. "conn" \in Both /\ "acc" \in Both
  BY DEF Both
<1>n. /\ "Create" \in SockNames /\ "Connect_s" \in SockNames /\ "Bind_s" \in SockNames
      /\ "Listen_s" \in SockNames /\ "Accept_s" \in SockNames /\ "Close" \in SockNames
      /\ "create" \in SockNames /\ "idle" \in SockNames /\ "accept" \in SockNames
      /\ "both" \in SockNames
  BY NamesAre
<1>2. CASE SockIdle /\ OwnerCalls("Create", "conn", "close", "create")
  BY <1>1, <1>2, <1>x, <1>n, OwnerBegins
<1>3. CASE SockIdle /\ ~sockWorld.server /\ OwnerCalls("Connect_s", "conn", "try", "idle")
  BY <1>1, <1>3, <1>x, <1>n, OwnerBegins
<1>4. CASE SockIdle /\ sockWorld.server /\ OwnerCalls("Bind_s", "conn", "try", "idle")
  BY <1>1, <1>4, <1>x, <1>n, OwnerBegins
<1>5. CASE SockIdle /\ sockWorld.server /\ OwnerCalls("Listen_s", "conn", "try", "idle")
  BY <1>1, <1>5, <1>x, <1>n, OwnerBegins
<1>6. CASE SockIdle /\ sockWorld.server /\ OwnerCalls("Accept_s", "acc", "close", "accept")
  BY <1>1, <1>6, <1>x, <1>n, OwnerBegins
<1>7. CASE OwnerCalls("Close", "conn", "close", "both")
  BY <1>1, <1>7, <1>x, <1>n, OwnerBegins
<1> QED BY <1>2, <1>3, <1>4, <1>5, <1>6, <1>7 DEF CallOwner

------------------------------------------------------------------------------
\* Create makes a new socket, or fails; it has no thread that would use it.
LEMMA CreateKeeps ==
  ASSUME SockInv, Create
  PROVE  SockInv'
<1>0. /\ calls[Owner] \in SockCall /\ OwnerCall(calls[Owner], socks)
      /\ socks \in [Both -> SockObject] /\ SocketsHeld /\ Link \in Both
  BY OwnerFacts
<1>1. /\ calls[Owner].pc = "create" /\ sockWorld' = sockWorld /\ ov' = ov /\ net' = net
  BY DEF Create, SockAt
<1>2. calls[Owner].op = "Create" /\ ~socks["conn"].sock
  BY <1>0, <1>1 DEF OwnerCall, Ahead
<1>3. PICK res \in {0, 1}, s \in SockObject :
        /\ SockReturn(Owner, res) /\ socks' = [socks EXCEPT !["conn"] = s]
        /\ s.Initialized => s.sock
        /\ s.nonBlocking => sockWorld.nonBlocking
        /\ ~s.ReadInUse /\ ~s.WriteInUse
  <2>n. "none" \in SockNames /\ \A open : CreateError(open) \in SockNames
    BY NamesAre DEF CreateError
  <2>0. sockWorld.nonBlocking \in BOOLEAN
    BY SockAssumption DEF SockInv, SockTyped
  <2>1. CASE /\ \E open \in {FALSE, sockWorld.nonBlocking} :
                  socks' = [socks EXCEPT !["conn"] =
                              [NewSocket EXCEPT !.error = CreateError(open), !.sock = open,
                                                !.nonBlocking = open]]
             /\ SockReturn(Owner, 0)
    <3>1. PICK open \in {FALSE, sockWorld.nonBlocking} :
            socks' = [socks EXCEPT !["conn"] =
                        [NewSocket EXCEPT !.error = CreateError(open), !.sock = open,
                                          !.nonBlocking = open]]
      BY <2>1
    <3> DEFINE e == CreateError(open)
               s == [NewSocket EXCEPT !.error = e, !.sock = open, !.nonBlocking = open]
    <3>5. e \in SockNames
      BY <2>n
    <3>2. open \in BOOLEAN /\ (open => sockWorld.nonBlocking)
      BY <2>0
    <3>3. /\ s \in SockObject /\ (s.Initialized => s.sock) /\ ~s.ReadInUse /\ ~s.WriteInUse
          /\ s.nonBlocking = open
      <4> HIDE DEF e
      <4> QED BY <2>n, <3>2, <3>5 DEF NewSocket, SockObject
    <3>4. socks' = [socks EXCEPT !["conn"] = s]
      BY <3>1
    <3> HIDE DEF s
    <3> QED BY <2>1, <3>2, <3>3, <3>4
  <2>2. CASE /\ socks' = [socks EXCEPT !["conn"] =
                            [NewSocket EXCEPT !.sock = TRUE, !.Initialized = TRUE,
                                              !.nonBlocking = sockWorld.nonBlocking]]
             /\ SockReturn(Owner, 1)
    <3> DEFINE s == [NewSocket EXCEPT !.sock = TRUE, !.Initialized = TRUE,
                                      !.nonBlocking = sockWorld.nonBlocking]
    <3>3. /\ s \in SockObject /\ (s.Initialized => s.sock) /\ ~s.ReadInUse /\ ~s.WriteInUse
          /\ (s.nonBlocking => sockWorld.nonBlocking)
      BY <2>n, <2>0 DEF NewSocket, SockObject
    <3>4. socks' = [socks EXCEPT !["conn"] = s]
      BY <2>2
    <3> HIDE DEF s
    <3> QED BY <2>2, <3>3, <3>4
  <2> QED BY <2>1, <2>2 DEF Create
<1>4. /\ socks' \in [Both -> SockObject] /\ socks'["conn"] = s
      /\ \A y \in Both : y # "conn" => socks'[y] = socks[y]
  BY <1>0, <1>3 DEF Both
<1>5. \A y \in Both : /\ socks'[y].Initialized => socks'[y].sock
                      /\ socks'[y].nonBlocking => sockWorld.nonBlocking
  BY <1>0, <1>3, <1>4 DEF SocketsHeld
<1>6. /\ net.made => socks'[Link].sock
      /\ socks'[Link].ReadInUse => socks[Link].ReadInUse
      /\ socks'[Link].WriteInUse => socks[Link].WriteInUse
  BY <1>0, <1>2, <1>3, <1>4 DEF SocketsHeld
<1>7. calls[Owner].op \notin {"Connect_s", "Accept_s", "Bind_s"}
  BY <1>2
<1> QED BY <1>1, <1>3, <1>4, <1>5, <1>6, <1>7, OwnerReturns

\* A call that fails closes its socket.
LEMMA OwnerFailsKeeps ==
  ASSUME SockInv, sockWorld' = sockWorld, ov' = ov, NEW x \in Both, x = calls[Owner].x,
         NEW e \in SockNames, e # "none", OwnerFails(x, e), ~OwnerFree,
         calls[Owner].pc \in {"try", "accept"}
  PROVE  SockInv'
<1>0. /\ calls[Owner] \in SockCall /\ OwnerCall(calls[Owner], socks) /\ OwnerAlone
      /\ socks \in [Both -> SockObject] /\ ov \in [Directions -> SockRequest]
      /\ \A d \in Directions : ov[d].state = ov[d].state /\ ov[d].n = ov[d].n
  BY OwnerFacts
<1> DEFINE c == [calls[Owner] EXCEPT !.pc = "close", !.then = "fail"]
<1>1. SockFails(x, e) /\ net' = net /\ calls' = [calls EXCEPT ![Owner] = c]
  BY DEF OwnerFails, SockClose
<1>2. /\ socks' \in [Both -> SockObject] /\ SameSockets(socks') /\ \A t : FlagsMoved(t, socks')
      /\ socks'[x].error # "none"
  BY <1>0, <1>1, SetErrorIs
<1>n. "close" \in SockNames /\ "fail" \in SockNames
  BY NamesAre
<1>3. /\ c \in SockCall /\ c.pc = "close" /\ c.then = "fail" /\ c.op = calls[Owner].op
      /\ c.x = calls[Owner].x
  BY <1>n, <1>0 DEF SockCall
<1> HIDE DEF c
<1>4. OwnerCall(c, socks')
  BY <1>0, <1>2, <1>3 DEF OwnerCall, Ahead
<1>5. \A u \in sockWorld.users : calls[u].pc = "idle"
  BY <1>0 DEF OwnerAlone
<1>6. c.pc # "idle"
  BY <1>3
<1> QED BY <1>0, <1>1, <1>2, <1>3, <1>4, <1>5, <1>6, OwnerContinues

\* The socket's status is set, its Initialized and its flags are left.
LEMMA StatusIs ==
  ASSUME SockInv, NEW x \in Both, NEW s \in SockObject, socks' = [socks EXCEPT ![x] = s],
         s.Initialized = socks[x].Initialized, s.sock \/ s.sock = socks[x].sock,
         s.nonBlocking => socks[x].nonBlocking,
         s.ReadInUse = socks[x].ReadInUse, s.WriteInUse = socks[x].WriteInUse
  PROVE  /\ socks' \in [Both -> SockObject] /\ socks'[x] = s
         /\ \A y \in Both : /\ socks'[y].Initialized => socks'[y].sock
                            /\ socks'[y].nonBlocking => sockWorld.nonBlocking
                            /\ socks[y].sock => socks'[y].sock
         /\ net.made => socks'[Link].sock
         /\ socks'[Link].ReadInUse => socks[Link].ReadInUse
         /\ socks'[Link].WriteInUse => socks[Link].WriteInUse
<1>0. socks \in [Both -> SockObject] /\ SocketsHeld /\ Link \in Both
  BY OwnerFacts
<1>1. /\ socks' \in [Both -> SockObject] /\ socks'[x] = s
      /\ \A y \in Both : y # x => socks'[y] = socks[y]
  BY <1>0
<1> QED BY <1>0, <1>1 DEF SocketsHeld

\* Nothing changes, as when a refused connection is tried again.
LEMMA SockStutters ==
  ASSUME SockInv, UNCHANGED <<sockWorld, socks, calls, ov, net>>
  PROVE  SockInv'
<1>1. SockThreads' = SockThreads /\ Link' = Link /\ Readers' = Readers
  BY DEF SockThreads, Link, Readers
<1>2. SockTyped' /\ OneReader' /\ UserCalls' /\ OwnerCall(calls[Owner], socks)' /\ OwnerAlone'
  BY <1>1 DEF SockInv, SockTyped, OneReader, UserCalls, UserCall, OwnerCall, OwnerAlone, OwnerFree
<1>3. SocketsHeld' /\ FlagsHeld' /\ DoneAwaited'
  BY <1>1 DEF SockInv, SocketsHeld, FlagsHeld, DoneAwaited, Request
<1>4. ReadAccount' /\ WriteAccount' /\ InStream'
  BY <1>1 DEF SockInv, ReadAccount, WriteAccount, InStream, GotBy
<1>5. OpenedTruthfully'
  BY DEF SockInv, OpenedTruthfully, SockAt
<1> QED BY <1>2, <1>3, <1>4, <1>5 DEF SockInv

\* A connection is made, or, by c_sock_over's non-blocking connect, taken for made: it begins
\* anew, and so do the accounts.
LEMMA OwnerConnects ==
  ASSUME SockInv, sockWorld' = sockWorld, ov' = ov, NEW x \in Both, x = calls[Owner].x,
         NEW s \in SockObject, socks' = [socks EXCEPT ![x] = s], s.sock,
         s.Initialized = socks[x].Initialized, s.nonBlocking => socks[x].nonBlocking,
         s.ReadInUse = socks[x].ReadInUse, s.WriteInUse = socks[x].WriteInUse,
         SockReturn(Owner, 1), calls[Owner].op \in {"Connect_s", "Accept_s"}, ~OwnerFree,
         x = Link, NEW made \in BOOLEAN, net' = IF made THEN Connected ELSE NoNet,
         made \/ (sockWorld.over /\ sockWorld.nonBlocking)
  PROVE  SockInv'
<1>0. /\ OwnerAlone /\ socks \in [Both -> SockObject] /\ SocketsHeld /\ Link \in Both
      /\ calls \in [SockThreads -> SockCall] /\ Owner \in SockThreads
      /\ ov \in [Directions -> SockRequest] /\ SockTyped
      /\ OneReader /\ UserCalls /\ FlagsHeld /\ DoneAwaited /\ Owner \notin sockWorld.users
      /\ Readers \subseteq sockWorld.users
  BY OwnerFacts, SockTypes DEF SockInv, Readers
<1>s. SockThreads' = SockThreads /\ Link' = Link /\ Readers' = Readers
  BY DEF SockThreads, Link, Readers
<1>1. \A u \in sockWorld.users : calls[u].pc = "idle"
  BY <1>0 DEF OwnerAlone
<1> DEFINE c == Returned(calls[Owner], 1)
<1>2. /\ c \in SockCall /\ calls' = [calls EXCEPT ![Owner] = c] /\ calls'[Owner] = c
      /\ c.pc = "idle" /\ c.op = calls[Owner].op /\ c.x = calls[Owner].x /\ c.res = 1
      /\ \A o : OwnerCall(c, o)
  BY ReturnedIs
<1> HIDE DEF c
<1>3. \A u \in sockWorld.users : calls'[u] = calls[u]
  BY <1>0, <1>2 DEF SockThreads
<1>4. /\ socks' \in [Both -> SockObject] /\ socks'[x] = s
      /\ \A y \in Both : /\ socks'[y].Initialized => socks'[y].sock
                         /\ socks'[y].nonBlocking => sockWorld.nonBlocking
                         /\ socks[y].sock => socks'[y].sock
      /\ socks'[Link].ReadInUse => socks[Link].ReadInUse
      /\ socks'[Link].WriteInUse => socks[Link].WriteInUse
  BY StatusIs
<1>5. /\ net' \in Connection /\ net'.made = made /\ net'.peer # "reset"
      /\ net'.inbox = << >> /\ net'.heard = << >> /\ net'.sent = 0 /\ net'.out = 0
      /\ net'.told["r"] = 0 /\ net'.told["w"] = 0
  <2>1. << >> \in Seq(Nat)
    OBVIOUS
  <2>2. "none" \in SockNames /\ "up" \in SockNames
    BY NamesAre
  <2> DEFINE zero == [d \in {"r", "w"} |-> 0]
  <2>3. zero \in [Directions -> Nat] /\ zero["r"] = 0 /\ zero["w"] = 0
    BY DEF Directions
  <2>4. NoNet = [made |-> FALSE, peer |-> "none", inbox |-> << >>, sent |-> 0,
                 heard |-> << >>, out |-> 0, told |-> zero]
    BY DEF NoNet
  <2> HIDE DEF zero
  <2>5. /\ NoNet \in Connection /\ NoNet.made = FALSE /\ NoNet.peer = "none" /\ NoNet.inbox = << >>
        /\ NoNet.sent = 0 /\ NoNet.heard = << >> /\ NoNet.out = 0 /\ NoNet.told = zero
    BY <2>1, <2>2, <2>3, <2>4 DEF Connection
  <2>6. /\ Connected \in Connection /\ Connected.made /\ Connected.peer = "up"
        /\ Connected.inbox = << >> /\ Connected.sent = 0 /\ Connected.heard = << >>
        /\ Connected.out = 0 /\ Connected.told = zero
    BY <2>2, <2>5 DEF Connected, Connection
  <2>7. CASE made
    <3>1. net' = Connected
      BY <2>7
    <3> QED BY <3>1, <2>3, <2>6, <2>7
  <2>8. CASE ~made
    <3>1. net' = NoNet
      BY <2>8
    <3>2. /\ NoNet.told["r"] = 0 /\ NoNet.told["w"] = 0 /\ NoNet.made = made
          /\ NoNet.peer # "reset"
      <4>1. made = FALSE
        BY <2>8
      <4> QED BY <4>1, <2>3, <2>5
    <3> HIDE DEF zero
    <3> QED BY <3>1, <3>2, <2>5, Zenon
  <2> QED BY <2>7, <2>8
<1>6. SockTyped' /\ OneReader'
  BY <1>0, <1>2, <1>4, <1>5, <1>s DEF SockTyped, OneReader
<1>7. UserCalls'
  BY <1>0, <1>3, <1>s DEF UserCalls, UserCall
<1>8. OwnerCall(calls[Owner], socks)'
  BY <1>2, <1>s DEF OwnerCall
<1>9. OwnerAlone'
  BY <1>2 DEF OwnerAlone, OwnerFree
<1>10. SocketsHeld'
  BY <1>0, <1>4, <1>5, <1>s DEF SocketsHeld
<1>11. FlagsHeld'
  BY <1>0, <1>1, <1>4, <1>s DEF FlagsHeld
<1>12. \A d \in Directions : ov'[d].state # "done"
  BY <1>0, <1>1 DEF DoneAwaited
<1>13. \A u \in {"r1", "r2", Writer} : GotBy(u)' = 0
  <2>1. \A u \in sockWorld.users : calls[u].got = 0
    BY <1>0, <1>1 DEF UserCalls, UserCall
  <2> QED BY <2>1, <1>3, <1>s DEF GotBy
<1>14. Balance(net', ov', "r") = 0 /\ Balance(net', ov', "w") = 0
  <2>1. Cancelled(ov'["r"]) = 0 /\ Cancelled(ov'["w"]) = 0
    BY <1>12 DEF Cancelled, Directions
  <2>2. Len(<< >>) = 0
    OBVIOUS
  <2>3. Len(net'.heard) = 0
    BY <2>2, <1>5
  <2>0. \A i, j, k : i = 0 /\ j = 0 /\ k = 0 => i + j - k = 0
    OBVIOUS
  <2>4. Balance(net', ov', "r") = net'.told["r"] + Cancelled(ov'["r"]) - Len(net'.heard)
    BY DEF Balance
  <2>5. Balance(net', ov', "w") = net'.told["w"] + Cancelled(ov'["w"]) - net'.out
    BY DEF Balance
  <2>6. net'.told["r"] = 0 /\ net'.told["w"] = 0 /\ net'.out = 0
    BY <1>5
  <2> QED BY <2>0, <2>1, <2>3, <2>4, <2>5, <2>6, Zenon
<1>15. ReadAccount' /\ WriteAccount'
  BY <1>13, <1>14 DEF ReadAccount, WriteAccount, Writer
<1>16. InStream'
  <2>1. << >> \o << >> = UpTo(0)
    BY DEF UpTo
  <2> QED BY <2>1, <1>5 DEF InStream
<1>17. OpenedTruthfully'
  BY <1>2, <1>5 DEF OpenedTruthfully, SockAt
<1> QED BY <1>6, <1>7, <1>8, <1>9, <1>10, <1>11, <1>12, <1>15, <1>16, <1>17
    DEF SockInv, DoneAwaited

\* Connect_s: the connection is made, or taken for made, refused, tried again, or given up.
LEMMA Connect_sKeeps ==
  ASSUME SockInv, Connect_s
  PROVE  SockInv'
<1>0. /\ calls[Owner] \in SockCall /\ OwnerCall(calls[Owner], socks)
      /\ socks \in [Both -> SockObject] /\ SocketsHeld /\ Link \in Both
  BY OwnerFacts
<1>1. /\ calls[Owner].pc = "try" /\ calls[Owner].op = "Connect_s" /\ sockWorld' = sockWorld
      /\ ov' = ov /\ calls[Owner].x = "conn" /\ Link = "conn" /\ ~OwnerFree /\ "conn" \in Both
  BY <1>0 DEF Connect_s, SockAt, OwnerCall, Link, OwnerFree, Both
<1>2. CASE ~socks["conn"].Initialized
  <2>1. SockReturn(Owner, 0) /\ socks' = socks /\ net' = net
    BY <1>2 DEF Connect_s
  <2>2. ~calls[Owner].ready
    BY <1>0, <1>1, <1>2 DEF OwnerCall
  <2> QED BY <2>1, <2>2, <1>0, <1>1, OwnerReturns DEF SocketsHeld
<1>3. CASE socks["conn"].Initialized
  <2>1. PICK outcome \in {"made", "refused", "noBuffers", "slow", "error"} :
          \/ /\ TakenFor(outcome) = "connection"
             /\ socks' = [socks EXCEPT !["conn"].status = @ \cup {"Connect"},
                                       !["conn"].nonBlocking = @ /\ sockWorld.over]
             /\ net' = IF outcome = "made" THEN Connected ELSE NoNet
             /\ SockReturn(Owner, 1)
          \/ UNCHANGED <<socks, calls, net>>
          \/ OwnerFails("conn", "CONNECT")
    BY <1>3 DEF Connect_s
  <2>2. CASE /\ TakenFor(outcome) = "connection"
             /\ socks' = [socks EXCEPT !["conn"].status = @ \cup {"Connect"},
                                       !["conn"].nonBlocking = @ /\ sockWorld.over]
             /\ net' = IF outcome = "made" THEN Connected ELSE NoNet
             /\ SockReturn(Owner, 1)
    <3> DEFINE s == [socks["conn"] EXCEPT !.status = @ \cup {"Connect"},
                                          !.nonBlocking = @ /\ sockWorld.over]
               made == outcome = "made"
    <3>1. socks' = [socks EXCEPT !["conn"] = s]
      BY <2>2, <1>0
    <3>2. /\ s \in SockObject /\ s.sock = socks["conn"].sock
          /\ s.Initialized = socks["conn"].Initialized
          /\ (s.nonBlocking => socks["conn"].nonBlocking)
          /\ s.ReadInUse = socks["conn"].ReadInUse /\ s.WriteInUse = socks["conn"].WriteInUse
      <4>1. socks["conn"].status \cup {"Connect"} \in SUBSET SockNames
        BY NamesAre, <1>0, <1>1 DEF SockObject
      <4>2. (socks["conn"].nonBlocking /\ sockWorld.over) \in BOOLEAN
        OBVIOUS
      <4> QED BY <4>1, <4>2, <1>0, <1>1 DEF SockObject
    <3>3. s.sock
      BY <3>2, <1>0, <1>1, <1>3 DEF SocketsHeld
    <3>4. made \/ (sockWorld.over /\ sockWorld.nonBlocking)
      <4>1. made \/ (socks["conn"].nonBlocking /\ sockWorld.over)
        BY <2>1, <2>2 DEF TakenFor
      <4> QED BY <4>1, <1>0, <1>1 DEF SocketsHeld
    <3>5. made \in BOOLEAN /\ net' = IF made THEN Connected ELSE NoNet
      BY <2>2
    <3> HIDE DEF s, made
    <3> QED BY <2>2, <3>1, <3>2, <3>3, <3>4, <3>5, <1>1, OwnerConnects
  <2>3. CASE UNCHANGED <<socks, calls, net>>
    BY <2>3, <1>1, SockStutters
  <2>4. CASE OwnerFails("conn", "CONNECT")
    <3>1. "CONNECT" \in SockNames
      BY NamesAre
    <3> QED BY <3>1, <2>4, <1>1, OwnerFailsKeeps
  <2> QED BY <2>1, <2>2, <2>3, <2>4
<1> QED BY <1>2, <1>3

\* Bind_s sets the status, or closes the socket.
LEMMA Bind_sKeeps ==
  ASSUME SockInv, Bind_s
  PROVE  SockInv'
<1>0. /\ calls[Owner] \in SockCall /\ OwnerCall(calls[Owner], socks)
      /\ socks \in [Both -> SockObject] /\ SocketsHeld /\ Link \in Both
  BY OwnerFacts
<1>1. /\ calls[Owner].pc = "try" /\ calls[Owner].op = "Bind_s" /\ sockWorld' = sockWorld
      /\ ov' = ov /\ calls[Owner].x = "conn" /\ ~OwnerFree /\ "conn" \in Both
  BY <1>0 DEF Bind_s, SockAt, OwnerCall, OwnerFree, Both
<1>2. CASE ~socks["conn"].Initialized
  <2>1. SockReturn(Owner, 0) /\ socks' = socks /\ net' = net
    BY <1>2 DEF Bind_s
  <2>2. ~calls[Owner].ready
    BY <1>0, <1>1, <1>2 DEF OwnerCall
  <2> QED BY <2>1, <2>2, <1>0, <1>1, OwnerReturns DEF SocketsHeld
<1>3. CASE /\ socks' = [socks EXCEPT !["conn"].status = @ \cup {"Bind"},
                                     !["conn"].nonBlocking = FALSE]
           /\ SockReturn(Owner, 1) /\ net' = net
  <2> DEFINE s == [socks["conn"] EXCEPT !.status = @ \cup {"Bind"}, !.nonBlocking = FALSE]
  <2>1. socks' = [socks EXCEPT !["conn"] = s]
    BY <1>3, <1>0
  <2>2. /\ s \in SockObject /\ s.sock = socks["conn"].sock
        /\ s.Initialized = socks["conn"].Initialized /\ ~s.nonBlocking
        /\ s.ReadInUse = socks["conn"].ReadInUse /\ s.WriteInUse = socks["conn"].WriteInUse
    <3>1. socks["conn"].status \cup {"Bind"} \in SUBSET SockNames
      BY NamesAre, <1>0, <1>1 DEF SockObject
    <3> QED BY <3>1, <1>0, <1>1 DEF SockObject
  <2> HIDE DEF s
  <2>3. /\ socks' \in [Both -> SockObject]
        /\ \A y \in Both : /\ socks'[y].Initialized => socks'[y].sock
                           /\ socks'[y].nonBlocking => sockWorld.nonBlocking
        /\ net.made => socks'[Link].sock
        /\ socks'[Link].ReadInUse => socks[Link].ReadInUse
        /\ socks'[Link].WriteInUse => socks[Link].WriteInUse
    BY <2>1, <2>2, <1>1, StatusIs
  <2> QED BY <2>3, <1>1, <1>3, OwnerReturns
<1>4. CASE OwnerFails("conn", "BIND")
  <2>1. "BIND" \in SockNames
    BY NamesAre
  <2> QED BY <2>1, <1>4, <1>1, OwnerFailsKeeps
<1> QED BY <1>2, <1>3, <1>4 DEF Bind_s

\* Listen_s sets the status, or reports the error.
LEMMA Listen_sKeeps ==
  ASSUME SockInv, Listen_s
  PROVE  SockInv'
<1>0. /\ calls[Owner] \in SockCall /\ OwnerCall(calls[Owner], socks)
      /\ socks \in [Both -> SockObject] /\ SocketsHeld /\ Link \in Both
  BY OwnerFacts
<1>1. /\ calls[Owner].op = "Listen_s" /\ sockWorld' = sockWorld
      /\ ov' = ov /\ net' = net /\ "conn" \in Both
  BY DEF Listen_s, Both
<1>2. PICK res \in {0, 1} : SockReturn(Owner, res)
  BY DEF Listen_s
<1>3. CASE socks' = socks
  BY <1>0, <1>1, <1>2, <1>3, OwnerReturns DEF SocketsHeld
<1>4. CASE socks' = [socks EXCEPT !["conn"].status = @ \cup {"Listen"}]
  <2> DEFINE s == [socks["conn"] EXCEPT !.status = @ \cup {"Listen"}]
  <2>1. socks' = [socks EXCEPT !["conn"] = s]
    BY <1>4, <1>0
  <2>2. /\ s \in SockObject /\ s.sock = socks["conn"].sock
        /\ s.Initialized = socks["conn"].Initialized
        /\ s.nonBlocking = socks["conn"].nonBlocking
        /\ s.ReadInUse = socks["conn"].ReadInUse /\ s.WriteInUse = socks["conn"].WriteInUse
    <3>1. socks["conn"].status \cup {"Listen"} \in SUBSET SockNames
      BY NamesAre, <1>0, <1>1 DEF SockObject
    <3> QED BY <3>1, <1>0, <1>1 DEF SockObject
  <2> HIDE DEF s
  <2>3. /\ socks' \in [Both -> SockObject]
        /\ \A y \in Both : /\ socks'[y].Initialized => socks'[y].sock
                           /\ socks'[y].nonBlocking => sockWorld.nonBlocking
        /\ net.made => socks'[Link].sock
        /\ socks'[Link].ReadInUse => socks[Link].ReadInUse
        /\ socks'[Link].WriteInUse => socks[Link].WriteInUse
    BY <2>1, <2>2, <1>1, StatusIs
  <2> QED BY <2>3, <1>1, <1>2, OwnerReturns
<1>5. CASE SockFails("conn", "LISTEN")
  <2>1. "LISTEN" \in SockNames
    BY NamesAre
  <2>2. socks' \in [Both -> SockObject] /\ SameSockets(socks') /\ \A t : FlagsMoved(t, socks')
    BY <2>1, <1>0, <1>1, <1>5, SetErrorIs
  <2>3. \A y \in Both : /\ socks'[y].Initialized => socks'[y].sock
                        /\ socks'[y].nonBlocking => sockWorld.nonBlocking
    BY <2>2, <1>0 DEF SocketsHeld, SameSockets
  <2>4. net.made => socks'[Link].sock
    BY <2>2, <1>0 DEF SocketsHeld, SameSockets
  <2>5. "r1" # Writer
    BY DEF Writer
  <2>6. /\ socks'[Link].ReadInUse = socks[Link].ReadInUse
        /\ socks'[Link].WriteInUse = socks[Link].WriteInUse
    BY <2>2, <2>5 DEF FlagsMoved
  <2> QED BY <2>2, <2>3, <2>4, <2>6, <1>1, <1>2, OwnerReturns
<1> QED BY <1>3, <1>4, <1>5 DEF Listen_s

\* Accept_s has the connection in the second socket, or closes it.
LEMMA Accept_sKeeps ==
  ASSUME SockInv, Accept_s
  PROVE  SockInv'
<1>0. /\ calls[Owner] \in SockCall /\ OwnerCall(calls[Owner], socks)
      /\ socks \in [Both -> SockObject] /\ SocketsHeld /\ Link \in Both
  BY OwnerFacts
<1>1. /\ calls[Owner].pc = "accept" /\ calls[Owner].op = "Accept_s" /\ sockWorld' = sockWorld
      /\ ov' = ov /\ calls[Owner].x = "acc" /\ Link = "acc" /\ ~OwnerFree /\ "acc" \in Both
  BY <1>0 DEF Accept_s, SockAt, OwnerCall, Ahead, Link, OwnerFree, Both
<1>2. CASE /\ socks' = [socks EXCEPT !["acc"].sock = TRUE, !["acc"].status = @ \cup {"Accept"}]
           /\ net' = Connected /\ SockReturn(Owner, 1)
  <2> DEFINE s == [socks["acc"] EXCEPT !.sock = TRUE, !.status = @ \cup {"Accept"}]
             made == TRUE
  <2>1. socks' = [socks EXCEPT !["acc"] = s]
    BY <1>2, <1>0
  <2>2. /\ s \in SockObject /\ s.sock
        /\ s.Initialized = socks["acc"].Initialized
        /\ (s.nonBlocking => socks["acc"].nonBlocking)
        /\ s.ReadInUse = socks["acc"].ReadInUse /\ s.WriteInUse = socks["acc"].WriteInUse
    <3>1. socks["acc"].status \cup {"Accept"} \in SUBSET SockNames
      BY NamesAre, <1>0, <1>1 DEF SockObject
    <3> QED BY <3>1, <1>0, <1>1 DEF SockObject
  <2>3. made /\ made \in BOOLEAN /\ net' = IF made THEN Connected ELSE NoNet
    BY <1>2
  <2> HIDE DEF s, made
  <2> QED BY <2>1, <2>2, <2>3, <1>1, <1>2, OwnerConnects
<1>3. CASE OwnerFails("acc", "ACCEPT")
  <2>1. "ACCEPT" \in SockNames
    BY NamesAre
  <2> QED BY <2>1, <1>3, <1>1, OwnerFailsKeeps
<1> QED BY <1>2, <1>3 DEF Accept_s

\* After the closing.
LEMMA OwnerGoesOnKeeps ==
  ASSUME SockInv, OwnerGoesOn
  PROVE  SockInv'
<1>0. /\ calls[Owner] \in SockCall /\ OwnerCall(calls[Owner], socks)
      /\ socks \in [Both -> SockObject] /\ SocketsHeld /\ Link \in Both
      /\ ov \in [Directions -> SockRequest]
      /\ \A d \in Directions : ov[d].state = ov[d].state /\ ov[d].n = ov[d].n
  BY OwnerFacts
<1>1. sockWorld' = sockWorld /\ ov' = ov /\ net' = net /\ socks' = socks
  BY DEF OwnerGoesOn
<1>2. CASE SockAt(Owner, "fail") /\ SockReturn(Owner, 0)
  <2>1. ~socks[calls[Owner].x].sock /\ socks[calls[Owner].x].error # "none"
    BY <1>0, <1>2 DEF OwnerCall, SockAt, Ahead
  <2> QED BY <2>1, <1>0, <1>1, <1>2, OwnerReturns DEF SocketsHeld
<1>3. CASE SockAt(Owner, "end") /\ SockReturn(Owner, 1)
  <2>1. calls[Owner].op = "Close"
    BY <1>0, <1>3 DEF OwnerCall, SockAt, Ahead
  <2> QED BY <2>1, <1>0, <1>1, <1>3, OwnerReturns DEF SocketsHeld
<1>4. CASE /\ SockAt(Owner, "both")
           /\ calls' = [calls EXCEPT ![Owner].x = "acc", ![Owner].pc = "close",
                                     ![Owner].then = "end"]
  <2> DEFINE c == [calls[Owner] EXCEPT !.x = "acc", !.pc = "close", !.then = "end"]
  <2>1. calls' = [calls EXCEPT ![Owner] = c]
    BY <1>4, OwnerFacts
  <2>2. calls[Owner].op = "Close"
    BY <1>0, <1>4 DEF OwnerCall, SockAt, Ahead
  <2>3. c \in SockCall /\ c.op = "Close" /\ c.pc = "close" /\ c.then = "end"
    <3>1. "close" \in SockNames /\ "end" \in SockNames /\ "acc" \in Both
      BY NamesAre DEF Both
    <3> QED BY <3>1, <2>2, <1>0 DEF SockCall
  <2> HIDE DEF c
  <2>4. OwnerCall(c, socks') /\ c.pc # "idle"
    BY <2>3 DEF OwnerCall, Ahead
  <2>5. SameSockets(socks') /\ \A t : FlagsMoved(t, socks')
    BY <1>1 DEF SameSockets, FlagsMoved
  <2> QED BY <2>1, <2>3, <2>4, <2>5, <1>0, <1>1, OwnerContinues
<1> QED BY <1>2, <1>3, <1>4 DEF OwnerGoesOn

\* The owner resets the events of the requests, of c_sock_over.
LEMMA OwnerResetsKeeps ==
  ASSUME SockInv, SockResets(Owner)
  PROVE  SockInv'
<1>0. /\ calls[Owner] \in SockCall /\ OwnerCall(calls[Owner], socks) /\ OwnerAlone
      /\ socks \in [Both -> SockObject] /\ ov \in [Directions -> SockRequest]
  BY OwnerFacts
<1> DEFINE next == calls[Owner].then
           c == [calls[Owner] EXCEPT !.pc = next]
<1>1. /\ calls[Owner].pc = "reset" /\ sockWorld' = sockWorld /\ socks' = socks /\ net' = net
      /\ calls' = [calls EXCEPT ![Owner] = c]
  BY DEF SockResets, SockAt, SockGo
<1>2. next \in SockNames /\ next \in {"create", "accept", "fail", "both", "end"}
  BY <1>0, <1>1 DEF OwnerCall, SockCall
<1>3. /\ c \in SockCall /\ c.pc = next /\ c.op = calls[Owner].op /\ c.x = calls[Owner].x
      /\ c.then = next
  BY <1>0, <1>2 DEF SockCall
<1> HIDE DEF c, next
<1>4. ov' \in [Directions -> SockRequest]
      /\ \A d \in Directions : ov'[d].state = ov[d].state /\ ov'[d].n = ov[d].n
  <2>1. CASE ov' = ov
    BY <2>1, <1>0
  <2>2. CASE ov' = [d \in DOMAIN ov |-> [ov[d] EXCEPT !.event = FALSE]]
    <3>1. \A d \in Directions : /\ [ov[d] EXCEPT !.event = FALSE] \in SockRequest
                               /\ [ov[d] EXCEPT !.event = FALSE].state = ov[d].state
                               /\ [ov[d] EXCEPT !.event = FALSE].n = ov[d].n
      BY <1>0 DEF SockRequest
    <3>2. DOMAIN ov = Directions
      BY <1>0
    <3> QED BY <2>2, <3>1, <3>2
  <2> QED BY <2>1, <2>2 DEF SockResets
<1>5. OwnerCall(c, socks')
  <2>1. \A pc \in {"create", "accept", "fail", "both", "end"} :
          Ahead(c, pc) => Ahead(calls[Owner], pc)
    BY <1>1, <1>2, <1>3 DEF Ahead, next
  <2>2. ~socks'[c.x].sock
    BY <1>0, <1>1, <1>3 DEF OwnerCall
  <2>3. c.pc # "try" /\ socks' = socks
    BY <1>1, <1>2, <1>3
  <2> QED BY <2>1, <2>2, <2>3, <1>0, <1>2, <1>3 DEF OwnerCall
<1>6. SameSockets(socks') /\ \A t : FlagsMoved(t, socks')
  BY <1>1 DEF SameSockets, FlagsMoved
<1>7. c.op = "Close" \/ \A u \in sockWorld.users : calls[u].pc = "idle"
  BY <1>0, <1>1, <1>3 DEF OwnerAlone, OwnerFree
<1>8. c.pc # "idle"
  BY <1>2, <1>3
<1>9. socks' \in [Both -> SockObject]
  BY <1>0, <1>1
<1> QED BY <1>1, <1>3, <1>4, <1>5, <1>6, <1>7, <1>8, <1>9, OwnerContinues

------------------------------------------------------------------------------
\* A pair of new sockets satisfies the invariant if no two readers share a request.
LEMMA SockInitInv ==
  ASSUME SockInit, \A w \in SockWorlds : w.over => ~({"r1", "r2"} \subseteq w.users)
  PROVE  SockInv
<1>1. /\ sockWorld \in SockWorlds /\ socks = [x \in {"conn", "acc"} |-> NewSocket]
      /\ calls = [t \in SockThreads |-> NoSockCall] /\ ov = [d \in {"r", "w"} |-> NoRequest]
      /\ net = NoNet
  BY DEF SockInit, SockInitIn
<1>2. OneReader
  BY <1>1 DEF OneReader
<1>x. "conn" \in Both
  BY DEF Both
<1>3. /\ NewSocket \in SockObject /\ NoSockCall \in SockCall /\ NoRequest \in SockRequest
  <2>1. "none" \in SockNames /\ "idle" \in SockNames /\ "free" \in SockNames
    BY NamesAre
  <2> QED BY <2>1, <1>x DEF NewSocket, NoSockCall, NoRequest, SockObject, SockCall, SockRequest
<1>4. net \in Connection /\ ~net.made /\ net.peer = "none"
  <2>1. << >> \in Seq(Nat)
    OBVIOUS
  <2>2. "none" \in SockNames
    BY NamesAre
  <2> DEFINE zero == [d \in {"r", "w"} |-> 0]
  <2>3. zero \in [Directions -> Nat]
    BY DEF Directions
  <2>4. NoNet = [made |-> FALSE, peer |-> "none", inbox |-> << >>, sent |-> 0,
                 heard |-> << >>, out |-> 0, told |-> zero]
    BY DEF NoNet
  <2> HIDE DEF zero
  <2> QED BY <2>1, <2>2, <2>3, <2>4, <1>1 DEF Connection
<1>5. SockTyped
  BY <1>1, <1>3, <1>4 DEF SockTyped, Both, Directions
<1>6. \A t \in SockThreads : calls[t] = NoSockCall
  BY <1>1
<1>7. Owner \in SockThreads /\ Link \in Both /\ \A t \in sockWorld.users : t \in SockThreads
  BY DEF SockThreads, Link, Both
<1>8. \A y \in Both : socks[y] = NewSocket
  BY <1>1 DEF Both
<1>9. \A d \in Directions : ov[d] = NoRequest
  BY <1>1 DEF Directions
<1>10. UserCalls
  BY <1>6, <1>7 DEF UserCalls, UserCall, NoSockCall
<1>11. OwnerCall(calls[Owner], socks) /\ OwnerAlone
  BY <1>6, <1>7 DEF OwnerCall, OwnerAlone, OwnerFree, NoSockCall, Ahead
<1>12. SocketsHeld /\ FlagsHeld
  BY <1>4, <1>7, <1>8 DEF SocketsHeld, FlagsHeld, NewSocket
<1>13. DoneAwaited
  BY <1>9 DEF DoneAwaited, NoRequest
<1>14. ReadAccount /\ WriteAccount /\ InStream
  BY <1>4 DEF ReadAccount, WriteAccount, InStream
<1>15. OpenedTruthfully
  BY <1>6, <1>7 DEF OpenedTruthfully, NoSockCall
<1> QED BY <1>2, <1>5, <1>10, <1>11, <1>12, <1>13, <1>14, <1>15 DEF SockInv

\* Every step of a thread, of the system and of the other end keeps the invariant.
LEMMA SockNextInv ==
  ASSUME SockInv, [SockNext]_sockVars
  PROVE  SockInv'
<1>1. CASE UNCHANGED sockVars
  BY <1>1, SockStutters DEF sockVars
<1>2. CASE CallOwner
  BY <1>2, CallOwnerKeeps
<1>3. ASSUME NEW t \in sockWorld.users, NEW op \in {"Recv", "RecvAny", "Send"},
             NEW n \in SockSizes, CallTransfer(t, op, n)
      PROVE  SockInv'
  <2>1. op \in SockNames
    BY NamesAre
  <2>2. n \in Nat
    BY SockAssumption
  <2> QED BY <1>3, <2>1, <2>2, CallTransferKeeps
<1>4. CASE SockUsers
  <2>1. Readers \subseteq sockWorld.users
    BY DEF Readers
  <2>2. CASE \E t \in Readers, op \in {"Recv", "RecvAny"}, n \in SockSizes : CallTransfer(t, op, n)
    BY <2>1, <2>2, <1>3
  <2>3. CASE Writer \in sockWorld.users /\ \E n \in SockSizes : CallTransfer(Writer, "Send", n)
    BY <2>3, <1>3
  <2> QED BY <1>2, <1>4, <2>2, <2>3 DEF SockUsers
<1>5. CASE OwnerSteps
  BY <1>5, CreateKeeps, Connect_sKeeps, Bind_sKeeps, Listen_sKeeps, Accept_sKeeps,
     OwnerGoesOnKeeps DEF OwnerSteps
<1>6. CASE SockCloses(Owner) \/ SockResets(Owner)
  BY <1>6, OwnerFacts, SockClosesKeeps, OwnerResetsKeeps
<1>7. ASSUME NEW t \in sockWorld.users, TransferSteps(t) PROVE SockInv'
  <2>1. t \in SockThreads
    BY DEF SockThreads
  <2> QED BY <1>7, <2>1, TurnKeeps, TransferEndsKeeps, RecvKeeps, WaitKeeps, SockClosesKeeps,
             UserResetsKeeps DEF TransferSteps
<1>8. CASE SendBlocking \/ SendOverlapped
  BY <1>8, SendKeeps
<1>9. CASE SockSystem
  BY <1>9, RecvCompletesKeeps, SendCompletesKeeps DEF SockSystem
<1>10. CASE PeerSends \/ PeerEnds
  BY <1>10, PeerKeeps
<1> QED BY <1>1, <1>4, <1>5, <1>6, <1>7, <1>8, <1>9, <1>10 DEF SockNext, SockSteps

\* The invariant gives what the socket classes promise.
LEMMA SocketsAreSound ==
  ASSUME SockInv
  PROVE  SocketsSound
<1>1. /\ net \in Connection /\ ov \in [Directions -> SockRequest] /\ UserCalls /\ DoneAwaited
      /\ FlagsHeld /\ ReadAccount /\ WriteAccount /\ InStream /\ OpenedTruthfully
      /\ sockWorld.users \subseteq {"r1", "r2", "writer"}
  BY SockTypes DEF SockInv, SockTyped
<1>d. "r" \in Directions /\ "w" \in Directions
  BY DEF Directions
<1>2. net.told["r"] \in Nat /\ net.told["w"] \in Nat /\ Len(net.heard) \in Nat /\ net.out \in Nat
  BY <1>1, <1>d, BalanceIs
<1>3. ASSUME net.made, \A t \in Readers : SockAt(t, "idle") PROVE net.told["r"] = Len(net.heard)
  <2>1. ASSUME NEW u \in {"r1", "r2"} PROVE GotBy(u) = 0
    <3>1. u \in sockWorld.users => calls[u].pc = "idle"
      BY <1>3 DEF Readers, SockAt, Writer
    <3> QED BY <3>1, <1>1 DEF GotBy, UserCalls, UserCall
  <2>2. ov["r"].state # "done"
    <3> SUFFICES ASSUME ov["r"].state = "done" PROVE FALSE
      OBVIOUS
    <3>1. PICK u \in sockWorld.users : Request(u) = "r" /\ calls[u].pc = "wait"
      BY <1>1, <1>d DEF DoneAwaited
    <3>2. u \in Readers
      BY <3>1 DEF Readers, Request
    <3> QED BY <3>1, <3>2, <1>3 DEF SockAt
  <2>3. Cancelled(ov["r"]) = 0
    BY <2>2 DEF Cancelled
  <2>4. Balance(net, ov, "r") + GotBy("r1") + GotBy("r2") = 0
    BY <1>1, <1>3 DEF ReadAccount
  <2> QED BY <2>1, <2>3, <2>4, <1>2 DEF Balance
<1>4. ASSUME net.made, Writer \in sockWorld.users, SockAt(Writer, "idle")
      PROVE  net.told["w"] = net.out
  <2>1. GotBy(Writer) = 0
    BY <1>1, <1>4 DEF GotBy, UserCalls, UserCall, SockAt
  <2>2. ov["w"].state # "done"
    <3> SUFFICES ASSUME ov["w"].state = "done" PROVE FALSE
      OBVIOUS
    <3>1. PICK u \in sockWorld.users : Request(u) = "w" /\ calls[u].pc = "wait"
      BY <1>1, <1>d DEF DoneAwaited
    <3>2. u = Writer
      BY <3>1 DEF Request
    <3> QED BY <3>1, <3>2, <1>4 DEF SockAt
  <2>3. Cancelled(ov["w"]) = 0
    BY <2>2 DEF Cancelled
  <2>4. Balance(net, ov, "w") + GotBy(Writer) = 0
    BY <1>1, <1>4 DEF WriteAccount
  <2> QED BY <2>1, <2>3, <2>4, <1>2 DEF Balance
<1>5. BytesAccounted
  BY <1>1, <1>3, <1>4 DEF BytesAccounted, InStream, UpTo
<1>6. TurnsGivenBack
  BY <1>1 DEF TurnsGivenBack, FlagsHeld, SockAt
<1> QED BY <1>1, <1>5, <1>6 DEF SocketsSound

\* c_sock_compl with c_sock_base or c_sock_over, blocking or not, whatever its threads, the other
\* end and the network do, however often the sockets are opened again: bytes go through in
\* order and all accounted for, a connection that is reported was made, a call that fails leaves
\* the socket closed and an error, and no thread keeps a flag. Two readers of one c_sock_over
\* are left out: ReadInUse is taken by test and assignment, and both would wait with the one
\* OVERLAPPED of the object.
THEOREM SockInvariant ==
  ASSUME \A w \in SockWorlds : w.over => ~({"r1", "r2"} \subseteq w.users)
  PROVE  SockSpec => []SocketsSound
<1>1. SockInit => SockInv
  BY SockInitInv
<1>2. SockInv /\ [SockNext]_sockVars => SockInv'
  BY SockNextInv
<1>3. SockInv => SocketsSound
  BY SocketsAreSound
<1> QED BY <1>1, <1>2, <1>3, PTL DEF SockSpec

------------------------------------------------------------------------------
\* The sockets and the ping together: as SockInvariant and PingInvariant say.
THEOREM NetworkIsSound ==
  ASSUME \A w \in SockWorlds : w.over => ~({"r1", "r2"} \subseteq w.users)
  PROVE  SockSpec /\ PingSpec => []NetworkSound
<1>1. SocketsSound /\ PingSound => NetworkSound
  BY DEF NetworkSound
<1>2. SockSpec => []SocketsSound
  BY SockInvariant
<1> QED BY <1>1, <1>2, PingInvariant, PTL
==============================================================================
