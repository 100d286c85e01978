------------------------------ MODULE WaveFile ------------------------------
(***************************************************************************)
(* c_file (COMMON/c_file.cpp, on Windows) and c_wave over it                *)
(* (DEVS/AUDIO/c_wave.cpp), used by one thread: sound is read from and      *)
(* written to a file piece by piece, and lines are.  A byte says which one  *)
(* of what it is, and the bytes of a header what its size field holds.      *)
(***************************************************************************)
EXTENDS Integers, Sequences, FiniteSetsExt

CONSTANTS
  WavWorlds,   \* the uses: [calls, file, room, fails]
  WavSizes,    \* the values of DataLen
  WavBlock,    \* the buffer of Play and Record, of 512 bytes
  WavCalls,    \* bound on the calls
  Dwords,      \* how many values a DWORD has
  LineRoom     \* BufLen of ReadLine

VARIABLES
  wavWorld,    \* calls: those the user makes; file: what is on the disk at first; room: how
               \* many bytes the disk takes; fails: reads and the sound device may fail
  wavFile,     \* the bytes of the file, which may not exist
  cfile,       \* the members of c_file, and at: where the system is in the file
  wave,        \* TotalWaveFileSize, CurrChunkSize
  wavCall,     \* the call in progress, or the last one: where it is, its arguments and result
  wavUser      \* what the user has put into the file and got out of it since it was opened
wavVars == <<wavWorld, wavFile, cfile, wave, wavCall, wavUser>>

NoFile == <<"none">>
LineCR == <<"CR">>
LineLF == <<"LF">>
Item(tag, size, n) == << >> \o [k \in 1 .. n |-> <<tag, size, k>>]
Sound(from, n) == << >> \o [k \in 1 .. n |-> <<"sound", from + k>>]
DescrBytes == 12
FormatBytes == 24
ChunkBytes == 8

-----------------------------------------------------------------------------
\* c_file.

FileClosed(c) == [c EXCEPT !.opened = FALSE, !.FilePos = 0, !.at = 0]

FileAsked(c, write, read) ==
  [FileClosed(c) EXCEPT !.fileOpenForRead = read, !.fileOpenForWrite = write]

\* The dispositions are or'ed: OPEN_EXISTING with OPEN_ALWAYS is none that exists.
FileOpens(write, read, create) == create \/ (~(read /\ write) /\ (read => wavFile # NoFile))
FileOpen(c, write, read, create) ==
  IF FileOpens(write, read, create)
  THEN [FileAsked(c, write, read) EXCEPT !.opened = TRUE] ELSE FileAsked(c, write, read)
Created(create) == IF create \/ wavFile = NoFile THEN << >> ELSE wavFile

FileMoved(c, n) == [c EXCEPT !.FilePos = @ + n, !.at = @ + n]
\* What Read of n bytes finds.
FileRead(c, n) ==
  IF c.opened /\ c.fileOpenForRead THEN SubSeq(wavFile, c.at + 1, Min({c.at + n, Len(wavFile)}))
  ELSE << >>
\* How many bytes Write takes, and the file after it.
FileWrites(c, n) ==
  IF c.opened /\ c.fileOpenForWrite
  THEN Min({n, Max({0, wavWorld.room - c.at})}) ELSE 0
FileWritten(c, bytes) ==
  LET n == FileWrites(c, Len(bytes))
  IN  SubSeq(wavFile, 1, c.at) \o SubSeq(bytes, 1, n)
        \o SubSeq(wavFile, c.at + n + 1, Len(wavFile))

\* SetPos from the place where the file is, and from the end.
FileSeek(c, n) == [c EXCEPT !.FilePos = c.at + n, !.at = c.at + n]
FileSeekEnd(c) == [c EXCEPT !.FilePos = Len(Created(FALSE)), !.at = Len(Created(FALSE))]

\* ReadLine reads byte by byte until it has read LF or nothing, BufLen - 1 bytes at most;
\* Read has counted every byte when ReadLine counts it again.  At the end of the file TempBuf
\* still has the last byte, and after a CR the loop goes on and finds no end.
EndsInCR(bytes) == bytes # << >> /\ bytes[Len(bytes)] = LineCR
LineEndsAt(c, j) ==
  LET b == FileRead(FileMoved(c, j - 1), 1)
  IN  b = <<LineLF>> \/ (b = << >> /\ ~EndsInCR(wavFile))
\* Mutant of LineEnds: BufLen - 1 is not read.
LineEndsEarly(c) == {j \in 1 .. LineRoom - 2 : LineEndsAt(c, j)}
LineEnds(c) == {j \in 1 .. LineRoom - 1 : LineEndsAt(c, j)}
ReadLine(c) ==
  LET whole == LineEnds(c) # {} /\ FileRead(c, 1) # << >>
      taken == FileRead(c, IF whole THEN Min(LineEnds(c)) ELSE LineRoom - 1)
  IN  [res |-> whole, line |-> SelectSeq(taken, LAMBDA b : b \notin {LineCR, LineLF}),
       c |-> [FileMoved(c, Len(taken)) EXCEPT !.FilePos = @ + Len(taken)]]

-----------------------------------------------------------------------------
\* c_wave: the headers.

\* GetWaveFileDescr, GetWaveFileFormat and GetWaveDataHeader for n bytes of data.
\* Mutant of GetWaveFileDescr: the header of the data is not counted.
GetWaveFileDescrShort(n) == Item("RIFF", 4 + (8 + 16) + n, DescrBytes)
GetWaveFileDescr(n) == Item("RIFF", 4 + (8 + 16) + (8 + n), DescrBytes)
WaveHeader(n) ==
  GetWaveFileDescr(n) \o Item("fmt ", 16, FormatBytes) \o Item("data", n, ChunkBytes)

IsItem(bytes, tag, n) == Len(bytes) = n /\ bytes = Item(tag, bytes[1][2], n)
Size(bytes) == bytes[1][2]

WavIdle == wavCall.pc = "idle"
Calling(name) ==
  /\ WavIdle /\ name \in wavWorld.calls /\ wavCall.left > 0
WavDone(name, res) ==
  wavCall' = [wavCall EXCEPT !.pc = "idle", !.op = name, !.res = res, !.left = @ - 1]
MayFail(step) == wavWorld.fails /\ step
Uses(mode) ==
  [mode |-> mode, given |-> << >>, put |-> 0, due |-> 0, whole |-> TRUE, read |-> 0]

-----------------------------------------------------------------------------
\* Loading.

\* BeginLoad: the two headers are read, and what the second has more is passed over.
LoadStart(c) ==
  LET descr == FileRead(c, DescrBytes)
      format == FileRead(FileMoved(c, DescrBytes), FormatBytes)
  IN  IF c.opened /\ IsItem(descr, "RIFF", DescrBytes) /\ IsItem(format, "fmt ", FormatBytes)
      THEN [res |-> TRUE,
            c |-> FileSeek(FileMoved(c, DescrBytes + FormatBytes), Size(format) - 16),
            total |-> (Size(descr) - (4 + (8 + Size(format)))) % Dwords]
      ELSE [res |-> FALSE, c |-> FileClosed(c), total |-> 0]
Began(start) ==
  /\ cfile' = start.c
  /\ wave' = [TotalWaveFileSize |-> start.total, CurrChunkSize |-> 0]
  /\ wavUser' = Uses(IF start.res THEN "load" ELSE "none")
BeginLoad ==
  /\ Calling("BeginLoad")
  /\ LET start == LoadStart(FileOpen(cfile, FALSE, TRUE, FALSE))
     IN  Began(start) /\ WavDone("BeginLoad", start.res)
  /\ UNCHANGED <<wavWorld, wavFile>>

\* LoadDataDirectFromFile, which the user and Play call, in turns of its loops.
LoadDataDirectFromFile ==
  /\ Calling("LoadDataDirectFromFile") /\ wavUser.mode = "load"
  /\ \E n \in WavSizes :
       wavCall' = [wavCall EXCEPT !.pc = "load", !.op = "LoadDataDirectFromFile",
                                  !.len = n, !.got = << >>, !.asked = n]
  /\ UNCHANGED <<wavWorld, wavFile, cfile, wave, wavUser>>

Loading == wavCall.pc = "load"
LoadReturns(res) ==
  IF wavCall.op = "Play"
  THEN wavCall' = [wavCall EXCEPT !.pc = IF res THEN "play" ELSE "stop", !.res = res]
  ELSE WavDone(wavCall.op, res)
Finished == wavCall.len = 0 \/ (wave.CurrChunkSize = 0 /\ wave.TotalWaveFileSize = 0)

\* Mutant of AfterChunk: what is not data is not passed over.
AfterChunkAtOnce(c, chunk) == FileMoved(c, ChunkBytes)
AfterChunk(c, chunk) ==
  LET moved == FileMoved(c, ChunkBytes)
  IN  IF IsItem(chunk, "data", ChunkBytes) THEN moved ELSE FileSeek(moved, Size(chunk))

\* The next chunk; one that is not data is passed over.
LoadChunk ==
  /\ Loading /\ ~Finished /\ wave.CurrChunkSize = 0
  /\ LET chunk == FileRead(cfile, ChunkBytes)
         size == Size(chunk)
     IN  /\ Len(chunk) = ChunkBytes
         /\ wave' = [TotalWaveFileSize |-> (wave.TotalWaveFileSize - (size + 8)) % Dwords,
                     CurrChunkSize |-> IF IsItem(chunk, "data", ChunkBytes) THEN size ELSE 0]
         /\ cfile' = AfterChunk(cfile, chunk)
  /\ UNCHANGED <<wavWorld, wavFile, wavCall, wavUser>>

LoadPiece ==
  /\ Loading /\ ~Finished /\ wave.CurrChunkSize # 0
  /\ LET n == Min({wavCall.len, wave.CurrChunkSize})
         piece == FileRead(cfile, n)
     IN  /\ Len(piece) = n
         /\ cfile' = FileMoved(cfile, n)
         /\ wave' = [wave EXCEPT !.CurrChunkSize = @ - n]
         /\ wavCall' = [wavCall EXCEPT !.len = @ - n, !.got = @ \o piece]
         /\ wavUser' = [wavUser EXCEPT !.given = IF wavCall.op = "Play" THEN @ ELSE @ \o piece]
  /\ UNCHANGED <<wavWorld, wavFile>>

\* A read that gives less: at the end of the file, where it takes what is left, or a failure.
LoadBreaks ==
  /\ Loading /\ ~Finished
  /\ LET n == IF wave.CurrChunkSize = 0 THEN ChunkBytes
              ELSE Min({wavCall.len, wave.CurrChunkSize})
         piece == FileRead(cfile, n)
     IN  \/ Len(piece) < n /\ cfile' = FileMoved(cfile, Len(piece))
         \/ MayFail(Len(piece) = n) /\ UNCHANGED cfile
  /\ LoadReturns(FALSE) /\ UNCHANGED <<wavWorld, wavFile, wave, wavUser>>
LoadEnds ==
  /\ Loading /\ Finished
  /\ LoadReturns(TRUE) /\ UNCHANGED <<wavWorld, wavFile, cfile, wave, wavUser>>

\* EndLoad and EndSave.
EndLoad ==
  /\ Calling("EndLoad") /\ wavUser.mode = "load"
  /\ cfile' = FileClosed(cfile) /\ wavUser' = [wavUser EXCEPT !.mode = "none"]
  /\ WavDone("EndLoad", TRUE)
  /\ UNCHANGED <<wavWorld, wavFile, wave>>

-----------------------------------------------------------------------------
\* Saving.

\* Write, by the user or by Record.
Puts(c, bytes) ==
  /\ wavFile' = FileWritten(c, bytes)
  /\ cfile' = FileMoved(c, FileWrites(c, Len(bytes)))
AllWritten(c, bytes) == FileWrites(c, Len(bytes)) = Len(bytes)

\* BeginSave leaves the file open when its headers do not fit.
SaveStart(n) ==
  LET c == FileOpen(cfile, TRUE, TRUE, TRUE)
  IN  /\ wavFile' = SubSeq(WaveHeader(n), 1, FileWrites(c, Len(WaveHeader(n))))
      /\ cfile' = FileMoved(c, FileWrites(c, Len(WaveHeader(n))))
      /\ wavUser' = [Uses(IF AllWritten(c, WaveHeader(n)) THEN "save" ELSE "none")
                     EXCEPT !.due = n]
SaveFits(n) == AllWritten(FileOpen(cfile, TRUE, TRUE, TRUE), WaveHeader(n))

BeginSave ==
  /\ Calling("BeginSave")
  /\ \E n \in WavSizes : SaveStart(n) /\ WavDone("BeginSave", SaveFits(n))
  /\ UNCHANGED <<wavWorld, wave>>

\* SaveDataDirectIntoFile of n bytes, which are numbered on.
SavePiece(n) ==
  /\ Puts(cfile, Sound(wavUser.put, n))
  /\ wavUser' = [wavUser EXCEPT !.put = @ + n, !.whole = @ /\ AllWritten(cfile, Sound(0, n))]
SaveDataDirectIntoFile ==
  /\ Calling("SaveDataDirectIntoFile") /\ wavUser.mode = "save"
  /\ \E n \in WavSizes :
       SavePiece(n) /\ WavDone("SaveDataDirectIntoFile", AllWritten(cfile, Sound(0, n)))
  /\ UNCHANGED <<wavWorld, wave>>
EndSave ==
  /\ Calling("EndSave") /\ wavUser.mode = "save"
  /\ cfile' = FileClosed(cfile) /\ wavUser' = [wavUser EXCEPT !.mode = "saved"]
  /\ WavDone("EndSave", TRUE)
  /\ UNCHANGED <<wavWorld, wavFile, wave>>

-----------------------------------------------------------------------------
\* Play and Record, through an audio output and input of their own.

Play ==
  /\ Calling("Play")
  /\ LET start == LoadStart(FileOpen(cfile, FALSE, TRUE, FALSE))
     IN  /\ Began(start)
         /\ IF start.res
            THEN \E res \in {TRUE} \cup {r \in {FALSE} : wavWorld.fails} :
                   wavCall' = [wavCall EXCEPT !.pc = IF res THEN "load" ELSE "end",
                                              !.op = "Play", !.len = WavBlock,
                                              !.got = << >>, !.res = res]
            ELSE WavDone("Play", FALSE)
  /\ UNCHANGED <<wavWorld, wavFile>>
\* WriteData of what was read, and another turn if there was any.
PlayBlock ==
  /\ wavCall.pc = "play"
  /\ \/ /\ wavUser' = [wavUser EXCEPT !.given = @ \o wavCall.got]
        /\ wavCall' = [wavCall EXCEPT !.pc = IF wavCall.got = << >> THEN "stop" ELSE "load",
                                      !.len = WavBlock, !.got = << >>]
     \/ /\ MayFail(TRUE) /\ wavCall' = [wavCall EXCEPT !.pc = "stop", !.res = FALSE]
        /\ UNCHANGED wavUser
  /\ UNCHANGED <<wavWorld, wavFile, cfile, wave>>

\* Record says in the header how much will come.
Record ==
  /\ Calling("Record")
  /\ \E n \in WavSizes :
       /\ SaveStart(n)
       /\ IF SaveFits(n)
          THEN \E res \in {TRUE} \cup {r \in {FALSE} : wavWorld.fails} :
                 wavCall' = [wavCall EXCEPT !.pc = IF res THEN "record" ELSE "end",
                                            !.op = "Record", !.len = n, !.res = res]
          ELSE WavDone("Record", FALSE)
  /\ UNCHANGED <<wavWorld, wave>>
\* ReadData and SaveDataDirectIntoFile; it counts down also when they fail.
RecordBlock ==
  /\ wavCall.pc = "record" /\ wavCall.len > 0 /\ wavCall.res
  /\ LET n == Min({wavCall.len, WavBlock})
     IN  \/ /\ SavePiece(n)
            /\ wavCall' = [wavCall EXCEPT !.len = @ - n, !.res = AllWritten(cfile, Sound(0, n))]
         \/ /\ MayFail(TRUE)
            /\ wavCall' = [wavCall EXCEPT !.len = @ - n, !.res = FALSE]
            /\ UNCHANGED <<wavFile, cfile, wavUser>>
  /\ UNCHANGED <<wavWorld, wave>>
RecordEnds ==
  /\ wavCall.pc = "record" /\ (wavCall.len = 0 \/ ~wavCall.res)
  /\ wavCall' = [wavCall EXCEPT !.pc = "stop"]
  /\ UNCHANGED <<wavWorld, wavFile, cfile, wave, wavUser>>

\* Stop of the sound device, and EndLoad or EndSave.
DeviceStops ==
  /\ wavCall.pc = "stop"
  /\ \E res \in {wavCall.res} \cup {r \in {FALSE} : wavWorld.fails} :
       wavCall' = [wavCall EXCEPT !.pc = "end", !.res = res]
  /\ UNCHANGED <<wavWorld, wavFile, cfile, wave, wavUser>>
CallEnds ==
  /\ wavCall.pc = "end"
  /\ cfile' = FileClosed(cfile)
  /\ wavUser' = [wavUser EXCEPT !.mode = IF wavCall.op = "Record" THEN "saved" ELSE "none"]
  /\ WavDone(wavCall.op, wavCall.res)
  /\ UNCHANGED <<wavWorld, wavFile, wave>>

-----------------------------------------------------------------------------
\* Lines, in a file that is made anew, added to at its end, or read.

\* What the user writes as line k, and the lines of a file.
MadeLine(k, n) == << >> \o [i \in 1 .. n |-> <<"line", k, i>>]
LinesOf(bytes) ==
  LET lines == {i \in DOMAIN bytes : bytes[i][1] = "line"}
  IN  << >> \o [k \in 1 .. Max({0} \cup {bytes[i][2] : i \in lines}) |->
                  SelectSeq(bytes, LAMBDA b : b[1] = "line" /\ b[2] = k)]

OpenLines ==
  /\ Calling("OpenLines")
  /\ \E how \in {"create", "append", "read"} :
       LET c == FileOpen(cfile, how # "read", how = "read", how = "create")
           mode == IF how = "read" THEN "reading" ELSE "writing"
       IN  /\ cfile' = IF how = "append" THEN FileSeekEnd(c) ELSE c
           /\ wavFile' = IF how = "read" THEN wavFile ELSE Created(how = "create")
           /\ wavUser' = [wavUser EXCEPT !.mode = IF c.opened THEN mode ELSE "none",
                                         !.given = IF how = "create" THEN << >> ELSE @,
                                         !.whole = how = "create" \/ @, !.read = 0]
           /\ WavDone("OpenLines", c.opened)
  /\ UNCHANGED <<wavWorld, wave>>

\* A line that is empty has no byte to write, which WriteLine takes for a failure.
WriteLine ==
  /\ Calling("WriteLine") /\ wavUser.mode = "writing"
  /\ \E n \in {0} \cup WavSizes :
       LET line == MadeLine(Len(wavUser.given) + 1, n)
           first == FileWrites(cfile, n)
           bytes == IF first = 0 THEN << >> ELSE line \o <<LineLF>>
       IN  /\ Puts(cfile, bytes)
           /\ wavUser' = [wavUser EXCEPT
                            !.given = IF bytes # << >> /\ AllWritten(cfile, bytes)
                                      THEN Append(@, line) ELSE @,
                            !.whole = @ /\ AllWritten(cfile, bytes) /\ (first = 0 => n = 0)]
           /\ WavDone("WriteLine", bytes # << >> /\ AllWritten(cfile, bytes))
  /\ UNCHANGED <<wavWorld, wave>>

ReadsLine ==
  /\ Calling("ReadLine") /\ wavUser.mode = "reading"
  /\ LET r == ReadLine(cfile)
     IN  /\ cfile' = r.c
         /\ wavUser' = [wavUser EXCEPT !.read = IF r.res THEN @ + 1 ELSE @]
         /\ wavCall' = [wavCall EXCEPT !.op = "ReadLine", !.res = r.res, !.got = r.line,
                                    !.left = @ - 1]
  /\ UNCHANGED <<wavWorld, wavFile, wave>>

-----------------------------------------------------------------------------
WavInitIn(worlds) ==
  /\ wavWorld \in worlds
  /\ wavFile = wavWorld.file
  /\ cfile = [opened |-> FALSE, fileOpenForRead |-> FALSE, fileOpenForWrite |-> FALSE,
              FilePos |-> 0, at |-> 0]
  /\ wave = [TotalWaveFileSize |-> 0, CurrChunkSize |-> 0]
  /\ wavCall = [pc |-> "idle", op |-> "none", len |-> 0, asked |-> 0, got |-> << >>,
                res |-> TRUE, left |-> WavCalls]
  /\ wavUser = [Uses("none") EXCEPT
                  !.given = IF wavFile = NoFile THEN << >> ELSE LinesOf(wavFile)]
WavUsers ==
  \/ BeginLoad \/ LoadDataDirectFromFile \/ EndLoad \/ BeginSave \/ SaveDataDirectIntoFile
  \/ EndSave \/ Play \/ Record \/ OpenLines \/ WriteLine \/ ReadsLine
WavSteps ==
  \/ LoadChunk \/ LoadPiece \/ LoadBreaks \/ LoadEnds \/ PlayBlock \/ RecordBlock \/ RecordEnds
  \/ DeviceStops \/ CallEnds
WavNext == WavUsers \/ WavSteps
WavFairness == WF_wavVars(WavSteps)
=============================================================================
