# A formal model of Common_C_CPP

Common_C_CPP is a C++ library of building blocks: a ring buffer, a thread class, events, sockets,
FTP, mail and ping clients, USB, serial and audio devices, a flash programmer, containers, files,
codecs, cryptography and signal processing. There is no program around them. What can go wrong in
the concurrent and the protocol parts is a matter of order: who moves which pointer first, which
reply answers which command, what a destructor still finds running. Those parts are modelled here
in TLA+ and checked with TLC; the safety of the ring buffer, the threads, the USB pipes and the
device below them, the serial port, the audio devices, the sound generator, the flash, the sockets,
the ping and the FTP and mail clients is also proved with TLAPS.

Paths are relative to the repository.

## 1. Inventory

### The parts and how they meet

```
   TFIFO_BULK ──── c_FIFO (data between the user's thread and the transfer thread)
       │  └─────── c_thread ── c_event ── c_mutex
       └── TLUSB_BASE (device handle)
   c_aud_generator ── c_thread, c_audio_out (winmm callback, header array)
   c_ftp_client, c_pop3, c_smtp ── c_sock_compl or c_sock_over ── c_sock_base
   CAT45DB161Flash ── AlteraByteBlaster ── parallel port
   c_wave ── c_file, c_audio_out, c_audio_in
   CSerial, c_ping, c_List, c_log, ... stand alone
```

| Component | State it keeps | Operations | Hard behaviours | What makes it correct |
|---|---|---|---|---|
| `c_FIFO` (COMMON/c_FIFO.h) | array, two pointers, three `bool` locks, a terminate flag | Write, Read, GetCounter(Free), Flush, TerminateWait, EnableWaitBack | no OS lock: test and set in two steps, pointers read while moved, polling | a bounded FIFO queue; copies never share a slot; locks are given back; calls return |
| `c_thread` (COMMON/c_thread.*) | handle, Stopped, Suspended, Finished, two events (POSIX) | Start, Resume, Stop, WaitFor, ForceStop, StopAndWait, ctor, dtor, StaticThreadRun | unlocked flags between owner and worker, stale events, virtual call during construction and destruction | one thread per object, suspended means suspended, a stop request sticks, shutdown returns |
| `c_event`, `c_mutex`, `c_semaphore` | a condition, a mutex | Set, Reset, WaitFor; Lock, Unlock | lost and left-over signals | auto-reset semantics |
| `TFIFO_BULK` (DEVS/USB/WINDOWS/FIFO_Bulk.*) | a FIFO, a thread, a ring of overlapped requests per direction | Start/StopFIFO, Flush, Read/WriteBulkFIFO, Execute | several requests in flight, requests failing in the middle, Flush beside the thread | order and completeness of the stream; no wait for an event nobody sets; no thread killed inside the FIFO |
| `c_ftp_client` (IP/c_ftp_client.*) | control and data socket, reply buffer, passive mode, listening flag | connect, login, single commands, move, list, download, upload, close, CheckError | a code is looked for anywhere in what was received, final replies unread, timeouts, servers that give up | an answer belongs to its command; a file that is reported whole is whole |
| sockets (IP/c_sock_*) | a socket, overlapped requests, status, error | Create, Connect, Bind, Listen, Accept, Send, Recv, WaitFor... | blocking accept, errors reported as 0, sockets that close themselves | what the clients assume of them |
| `c_pop3`, `c_smtp` | control socket, reply buffer | login, list, retrieve; connect, send message | replies split over packets or spread over lines | an answer belongs to its command |
| `c_ping`, `DownloadPage` | raw socket, overlapped requests | ping, trace; download a page | requests abandoned on timeout | a reply belongs to its request |
| `c_audio_out`, `c_audio_in` (DEVS/AUDIO/WINDOWS) | device handle, array of headers, write index, Paused, DeviceStopping | Start, Pause, Resume, Reset, WriteData, Stop; callback | headers owned alternately by user and device; waits while paused | a header is touched only when done; what was written is played; Stop returns |
| `c_aud_generator` | parameters read by the thread | Start, Execute | destructor against thread, pause against stop | as c_thread |
| `c_wave` (DEVS/AUDIO/c_wave.*) over `c_file` | a file and its position, what is left of it and of its chunk | begin, load or save in pieces, end; Play, Record; lines | pieces that end inside a chunk, chunks that are not sound, files cut off, disks full | what is loaded is the sound of the file; what is saved is a file of that sound |
| `TLUSB_BASE` (DEVS/USB/WINDOWS/lusb.*) | handle, three mutexes and requests, one error number | Open, Close, ControlLDevice, ReadBulk, WriteBulk | one error number under three mutexes, cancel on timeout | each call reports its own result |
| `CSerial`, parallel port | handle, event mask, one overlapped event | Open, Setup, Read, Write, WaitEvent, Close | timeouts with requests on the stack | no request outlives its buffer |
| `TChannel`, `TPChannel` (IP) | as the sockets, deprecated; TPChannel through a proxy | as the sockets | as the sockets | as the sockets |
| `CAT45DB161Flash`, `AlteraByteBlaster` (EMBEDDED) | flash pages and buffer | ProgrammFlash, ContiniousReadFlash, page commands | read-modify-write of partial pages, failures in the middle | a byte array |
| `c_List`, `c_ListPtr`, `c_log`, registry | nodes, count; message list | add, delete, get | boundary indices | a sequence |
| hashes (CRYPT/HASH) | a context: buffered bytes, a two-word length, a state | starts, update, finish, of files, HMAC | pieces of any length, the carry of the length, a padding of two blocks | the digests of the standards |
| large numbers (CRYPT/COMMON/bignum.*) | a sign and limbs | arithmetic, powers and inverses modulo a number, primes, text | carries past the end, a result over its operands | the results of the integers |
| ciphers (CRYPT/CIPHER) | round keys, tables, an IV and an offset in it | key schedules, blocks, modes | text in place, pieces that end inside a block | the standards; decryption undoes encryption |
| public keys (CRYPT/PUBLIC_KEY) | the numbers of a key, R^2 kept for each modulus | key generation, the two halves of a key, padding, Diffie-Hellman | contexts that are used again, a loop over random numbers | one half undoes the other; both sides get one secret |
| codecs, CRC, havege, DSP, archives | none, or buffers | pure functions | arithmetic | their definitions |

`PROJECT.json` lists every part with its files and, under `hazards`, what is hard to test in
each, at the line where it bites.

### What is modelled

* The concurrent building blocks: `c_FIFO`, `c_thread` with its events, and `TFIFO_BULK` on top
  of both.
* The devices: audio output and input, the sound generator, files of sound and of lines, USB, the
  serial port, the flash.
* The network: the sockets, and the FTP, SMTP, POP3 and ping clients.
* What only computes: hashes, large numbers, ciphers and public keys.

The first three groups were chosen because their correctness depends on order and on failures;
the last because it is the largest part of the library with a definition of its own to be held
against. The repository's tests (TEST, Common_C_CPP_test) hardly touch the former and try the
latter with a few vectors.

## 2. Modules

| Module | What it is |
|---|---|
| `ByteQueue` | what a `c_FIFO` promises: a bounded queue of numbered elements |
| `CFifo` | `c_FIFO`, one action per load, comparison, poll, copy and store |
| `CFifoProperties` | its invariants and liveness, and the refinement of `ByteQueue` |
| `CFifoProofs` | proofs of its safety, of its flags and of the refinement |
| `CThread`, `CThreadProperties` | `c_thread` and `StaticThreadRun` in both builds; what they promise |
| `CThreadProofs` | proofs of all their safety |
| `FifoBulk`, `FifoBulkProperties` | one half of `TFIFO_BULK` with its device; what it promises |
| `FifoBulkProofs` | proofs of its safety, and of the stream being whole and in order |
| `FtpClient`, `FtpClientProperties` | `c_ftp_client` with connections and a server; what it promises |
| `FtpClientProofs` | proofs about its replies, its ports and what it transfers |
| `WaveDevice` | the ring of headers that audio output and input share |
| `AudioOut`, `AudioIn`, `Generator` | `c_audio_out`, `c_audio_in`, `c_aud_generator` |
| `WaveFile` | `c_file`, and `c_wave` that loads, saves, plays and records through it |
| `Lusb`, `SerialPort`, `Flash` | `TLUSB_BASE`, `CSerial`, `CAT45DB161Flash` over the ByteBlaster |
| `Sockets` | `c_sock_base`, `c_sock_over` and the pair of them in `c_sock_compl` |
| `Smtp`, `Pop3`, `Ping` | `c_smtp`, `c_pop3`, `PingHost`, each with the other end |
| `DevicesProperties` | what the devices and the protocols promise |
| `AudioProofs`, `DevicesProofs` | proofs about audio output and input and the generator; flash, USB device, serial port, sockets and ping |
| `MailProofs` | proofs about the two mail clients |
| `BlockHash`, `Hmac`, `Hashes` | how the six hashes take a message, with a block's effect as a symbol |
| `HashRounds` | what each hash makes of a block, on real words |
| `Bignum`, `BignumMod`, `Numbers` | `mpi`: arithmetic; modular arithmetic, primes, text; a program that uses them |
| `Words`, `Aes`, `Des`, `OtherCiphers` | key schedules and block functions of the ciphers |
| `CipherStandards` | AES, DES and Camellia as their standards write them |
| `Ciphers` | a program that encrypts blocks, and texts in pieces in every mode |
| `PublicKeys` | RSA, its padding, and the Diffie-Hellman exchange, over `BignumMod` |
| `DataProperties` | what the modules that only compute promise |
| `MCDevices`, `MCData` | what TLC explores (the other `...Properties` modules need nothing but a cfg) |

`FifoBulk` composes: a call of `c_FIFO` is one step on a sequence, which is what
`CFifoProofs` proves of it for one reader and one writer, and the calls of `c_thread` are
steps whose meaning `CThread` establishes. Its invariants `FlushesAlone` and `NeverKilled` are
the obligations this imposes on `TFIFO_BULK`: a Flush beside a Read or Write, or a thread killed
inside one, would take the FIFO out of the case that is proved. `Generator` leaves the start and
the end of its thread to `CThread` in the same way, and `PublicKeys` calls the operations of
`BignumMod` that `Numbers` checks. The devices share nothing with each other, nor do the parts
that compute, so `MCDevices` and `MCData` choose one in `Init` and check them side by side.

### CFifo

A thread is a program counter (`pc`) over the statements of the member function it is in (`op`);
`len` is `DataLength`, `avail` what `GetCounter` or `GetCounterFree` returned, `base` and
`copied` the state of its `memcpy`. The three flags are ordinary variables: `AwaitCounters` is
the loop that tests `PossibleUseCounters` and `LockCounters` the assignment after it, so two
threads may both pass. `ReloadCounters` tells two builds apart. When the compiler keeps the
pointers in registers, the condition and the difference in `GetCounter` work on one pair of
values (`CompareEqual` alone); when it loads them in every expression another thread can move one
between them (`CompareEqual`, then `ComputeCounter`). The members are neither `volatile` nor
atomic, so both builds are allowed. `Modulus` numbers the elements so that loss, repetition and
reordering show. `ElemSize` is `sizeof(NT)`: `memcpy` gets a number of elements for a number of
bytes (c_FIFO.h:97), so with elements longer than a byte part of each block is not copied; the
runs and the theorem have elements of one byte.

### CThread

The owner's calls nest (`Start` calls `ForceStop`, which calls `Stop` and `WaitFor`, which call
`Resume`), so what the owner still has to do is a sequence, `agenda`; the worker is a program
counter. `world` is chosen in `Init` and never changes: POSIX or Windows, and what the user of
the class does. `StopItself` is `Stop` called from `Execute`. Creating a thread may fail. The
NULL of a failed `CreateThread` is folded into `INVALID`. The branch of `ForceStop` that cancels
a POSIX thread is unreachable while only the owner calls it, because `WaitFor` joins whatever its
timeout; for an `Execute` that does not return it waits for ever. `SetPriority` is left out.

### FifoBulk

`Execute` of both transfer threads is one program over `worker`; `slot[i]` and `event[i]` are
request and event `i`, served by the device in order (`Complete`) with any number of units and
with success or failure. The user's calls use an agenda as in `CThread`. The classes declare
`Execute(void)` (FIFO_Bulk.h:19 and 39), which does not override `Execute(void *)` of `c_thread`
(c_thread.h:42); they are modelled as the override they are meant to be.

### FtpClient

The client's call is an agenda again; a step that fails removes what the code skips (`Fail`).
`SendCommand` sends and then takes replies off the connection until it finds a code it looks for.
The code is searched in all that has been received (c_ftp_client.cpp:585-598), so it is found in
the text of a reply as well: a reply is its code and a text, and the text may hold the code that
is awaited (`Told`), unless the world is `plain`.
The server is external, RFC 959: it serves one command at a time and ends a transfer with 226, or
425 or 426. A reply carries, invisibly to the code, whether the command it answers is still the
last one sent (`fresh`); `heard` records whether the reply that decided the last `RecvResponse`
was. Data travels in blocks, one for each `Send` or `RecvAny`. `world` says whether replies come
in time, whether transfers complete, whether users call `CheckError(true)` after a failure, call
`FTPActiveSet` before every active transfer, or give a connection up after its first transfer,
whether the sockets are overlapped, and whether replies are plain.

A reply comes whole. Replies of several lines, `FTPList`'s own buffer (a listing is
retrieved like a file), the wrappers that open local files, `LastErrorFTP` and
`SetMaxFileCacheSize` are left out.

### Audio

`out` and `in` are the members of the objects, `outDone` and `inDone` the `WHDR_DONE` flags,
`speaker` and `mic` the device with its queue of headers and the callbacks (`notices`) it has
still to make. The device finishes a header in two steps, as the system does: it sets the flag,
and later calls `ProcessHeader` from another thread. Data are numbered units, so the properties
compare what was played (`heard`) or read (`got`) with what was written or recorded. Every call
of the device may fail. The wave format is one value. The generator is the loop of
`Generate_internal`; its thread is `CThread`'s subject. `Execute(void)` of the generator hides
`c_thread`'s `Execute(void *)` as in `TFIFO_BULK` and is modelled as the override.

### WaveFile

A byte is a tuple that says what it is: the k-th of a header with a size in it, the k-th of the
sound, of a line, CR or LF. `wavFile` is the file on the disk, `cfile` the members of `c_file`
with the place where the system is in it (`at`), `wave` the two counters that `c_wave` keeps from
one call to the next. Calls that loop (LoadDataDirectFromFile, Play, Record) take a step for each
turn; Play loads through the same steps as the user. Reads and the sound device may fail
(`wavWorld.fails`), and the disk has room for so much (`room`). `FileOpens` is the Windows build:
dispositions are or'ed, and OPEN_EXISTING with OPEN_ALWAYS is a number that no disposition has. A
character of a line is one byte. The format of the sound is one value and is PCM. The sound that
`c_wave` keeps in memory is left out (section 7).

### Lusb, SerialPort and Flash

A request of `TLUSB_BASE` that timed out is cancelled and not waited for: it stays with the
driver (`stale`) and completes into the OVERLAPPED that the next call uses. One or two callers
share `LastErrorNumber`, whatever mutex each holds. Device descriptors are read as one transfer.
`CSerial` takes no lock (`DeviceInUse` is for its users), so its world has one call at a time;
`dcb` is the control block of the device, `comm.told` (seen by no code) what was last accepted.
Of the flash, whole pages are programmed through the chip's buffer in commands of which each may
fail; `WriteSPIByte` and `ReadSPIByte` give the list of pin values that clocks a byte out.

### Sockets

One thread opens and closes, up to two receive and one sends, through the blocking calls of
`c_sock_base` or the overlapped requests of `c_sock_over` (`ov[d]`, one for each direction).
`ReadInUse` and `WriteInUse` are members that a call waits for and then takes. A socket is closed
under the calls of the others; data may come at the moment a wait ends. A request that is cancelled
ends at once, though `CancelIo` only asks for it. `Send` of `c_sock_base` sets an error when the
time to write is over and sends all the same. `Create` sets an error when it fails, but for a
`c_sock_over` whose event cannot be made or selected (c_sock_over.cpp:114-119): the socket stays
open there and no error is set, and a caller of `Connect_s` on such an object sees just FALSE.
`net` is the other end: up, closed or reset, silent or not.

### Smtp, Pop3 and Ping

A call of a mail client is a script of sends and replies. `RecvResponse` takes what has arrived,
so a reply may be cut, late, or taken for the next command's. `relay` and `box` are servers as
the RFCs describe them. What the POP3 client receives is a sequence of marks ("+OK", the rest of
its line, lines of a mail, the line with the dot, "-ERR"). The reader of `POP3List` is a machine
of five states over characters and is checked by itself. A `recv_ping` whose wait ran out leaves
its request to the system, which takes the next packet. One whose pending request fails does not
look at the result of WSAGetOverlappedResult (c_ping.cpp:249-252) and has what is in `recv_buf`
decoded: a packet that was received before, or, if there was none, what `new` left there, which
may be an answer to an earlier `PingHost`.

### Hashes

`BlockHash` is the buffering that MD4, MD5, SHA-1, SHA-2 and SHA-4 repeat with other sizes; MD2
has its own. There `Process` appends the block to the state, so the state says which bytes were
processed in which order, and the digest is compared with the padded message of the standard, for
pieces about the sizes of a block and for lengths at the carry of the length's low word. `Hmac`
is compared with RFC 2104. What a block really does is in `HashRounds`, on words of 16-bit
halves; `Ciphers` runs it on the messages of the self-tests and compares with the published
digests. The constants of SHA-2 are the first halves of SHA-4's, and are not written twice.

### Numbers

An `mpi` is a sign and a sequence of limbs of 8 bits, for the 32 or 64 of the builds; every loop
over limbs, every carry and every place where a result may lie over an operand is kept, and the
results are compared with TLA+'s integers. Both ways to estimate a digit of a quotient are there,
with a number of twice the width (`HaveLongLong`, which bignum.h:47-50 defines for one compiler)
and with halves of limbs. The second overflows for some divisors and gives a digit that is too low
(section 7); so of a division `ArithmeticExact` promises always that A = Q * B + R, and that Q and
R are those of the integers for the divisors whose products fit (`HalvesFit`). Allocation does not
fail. The assembler products of
`bn_mul.h` are left out; the two in C are modelled.

### Ciphers

`block` is a cipher with its real tables, key schedule and rounds on a sample. It is compared
with the standard as `CipherStandards` writes it, which shares nothing with the code but
Camellia's S-box, and with published answers. `chain` is a text fed to a mode in pieces: a byte
is the set of what it is the exclusive or of, E and D are opaque, so what holds there holds for
every key and text. A length that is not a multiple of a block is refused and changes nothing,
and so are keys of other sizes. `unsigned long` is taken as 32 bits, as on Windows.
`aes_init_done` is set after the tables are made; two threads that make them write the same
values.

### PublicKeys

`rsaKey` is a context through `rsa_gen_key`, `rsa_check_*`, `rsa_public`, `rsa_private` and
`rsa_free`; a turn of the loop over random primes is an action of its own (`DrawPrimes`).
`exchange` is two contexts of `dhm.cpp` that exchange secrets, again and again. `seal` is the
padding of `rsa_pkcs1_*` on blocks of full length; there a key is a permutation that only its
other half undoes, the same half giving a block of its own. Random padding is one nonzero value.

## 3. Runs

Passing runs:

| Run | Shows | Instance |
|---|---|---|
| `fifo_spsc` | One writer, one reader, pointers in registers: ranges, sound counters, no overlap, the queue is implemented, calls return | ring of 3 (4 slots), blocks of 1 and 2: every wrap position, split and unsplit copies, full and empty ring |
| `fifo_alone` | One thread does everything, Flush included, in a build that loads the pointers every time: still a queue | ring of 2, blocks of 1 and 2 |
| `fifo_terminate` | After TerminateWait every waiting call returns and the flags are free, whatever the other thread does | ring of 2, blocks of 2, TerminateWait and EnableWaitBack at any time |
| `thread_sound` | Owner and worker of every sound use in both builds: ownership, suspension, Finished, whole objects, stop requests, shutdown | two thread ids, 12 worlds |
| `bulk` | The USB stream is whole and in order, no flush beside the thread, no killed thread, no vain wait, calls return | two requests of two units, FIFO of two, transfers of one and three units, packets of two, both directions |
| `ftp_sound` | Replies are matched to commands, PORT names an open port, reported transfers are whole, calls return | one file of two blocks, cache of one, three ports, three worlds: answers in time; answers late and connections given up; transfers that break off, on sockets of both kinds and with texts that hold any code, one to a connection |
| `devices` | Sound and recordings in order and whole, also through files; lines are read as they were written; USB and serial transfers report their own results; the flash is a byte array; mail is reported only when accepted, fetched or deleted; bytes on a socket are accounted for; a living host answered; calls return but for the waits that are named | two headers of two units; eight files of sound, six calls; transfers of one and four with pieces of two; three pages of two bytes; up to four calls of a mail client; two packets; one to three threads on a connection of two bytes |
| `data` | Hashes and ciphers are those of the standards, numbers those of the integers, texts in pieces are chained right, keys and exchanges work, paddings open | pieces about a block; numbers of one to four limbs; three blocks; keys of 15 and 17 bits; see the bounds |

Runs that show where the code differs from its documentation:

| Run | Shows |
|---|---|
| `fifo_v_reload` | With pointers loaded in every expression the difference in `GetCounter` wraps when the other thread moves a pointer by more than one between the loads, and a block is read while it is written. Atomic ints, all that c_FIFO.h:21 asks for, are not enough. |
| `thread_v_suspend` | A `Resume` too many leaves the event set, and the next suspended thread runs at once (POSIX). |
| `ftp_v_reply` | The final reply of a transfer is not read; a 426 left there is taken for the refusal of the next command. |
| `data_v_product` | With numbers of twice the width the high half of a product is taken by a shift of a limb by its own width, which on x86 leaves the low half. |

What each property says is in the comment before it; `devices` and `data` join the properties of
their parts in the conjunctions at the end of `MCDevices` and `MCData`.

### Bounds, and why they are enough

* `CFifo`: the steps depend on the pointers only through comparisons and through sums modulo the
  length, so a ring of 3 with blocks of 1 and 2 has every case (block before the end, up to the
  end, over the end; ring full, empty, wrapped or not). `Modulus` exceeds the ring, so any loss
  or repetition within a ringful is visible. What TLC cannot settle, the length, the proofs do.
* `CThread`: an object has one thread at a time; two ids let an earlier thread and its successor
  be distinguished, and `OwnsItsThread` shows that a third would never be used.
* `FifoBulk`: with two requests one is in flight while the other is being handled, and each is
  reused; a FIFO of one request's size is the tightest the code allows. `Modulus` exceeds what
  the pipeline holds.
* `FtpClient`: `MaxRequests` bounds the queue to the server; `TypeOK` shows that in the sound
  worlds there is never more than one. Three ports suffice because at most two are in use (the
  connection at hand and a listening socket left from before). Two blocks and a cache of one tell
  "the rest of the cache is skipped" from "the rest of the file is skipped".
* Audio: two headers are the fewest of which one plays while another is filled; buffers of two
  units are filled in part, to the end, and over the end (`WriteSizes`, `ReadSizes` of one and
  three); four units (`MaxUnits`) go round the ring. `MaxHandles`, the devices that are open at
  once, would show a handle that is lost; `MaxAfter` counts blocks after a stop.
* `WaveFile`: six calls (`WavCalls`) of one and three bytes (`WavSizes`) end inside chunks of one
  to four bytes, at their end and past it; `WavBlock` is 2 for 512. The files have two chunks of
  sound with others beside them and more in the format's header; chunks of one byte and of none; a
  cut in the sound and one in a header; a length of 0; no RIFF; or are missing. The disk's `room`
  ends in the headers, in the sound, or after it. A file of lines that was not written here has a
  line that ends in CR LF and a last one that ends in CR. `Dwords` exceeds every length, for the
  2^32 of a DWORD, and is met where a counter goes below zero. With `LineRoom` 5 a line of three
  bytes just fits.
* `Lusb`: a transfer of four in pieces of two has a first and a last piece. `MaxStale` bounds the
  requests that are left with the driver, `MaxAbandoned` does in `SerialPort`. `Slots` is 2 for
  the 256 a BYTE counts: what matters is that the count wraps.
* `Flash`: three pages have a first, a whole and a last one; two writes (`MaxWrites`) put new
  data beside old.
* `Sockets`: two receivers, so that one waits for the other's turn; two bytes, so that a transfer
  can be partial; two openings (`SockOpens`), so that a socket is opened again, which the program
  does only when its calls are done.
* Mail and ping: four calls of SMTP, so that an EHLO of four lines (`lines`) is followed by a mail
  and another, and answers that are late or refuse by a whole mail; three of POP3; mails of one and
  of three lines, of which the longer does not fit the user's buffer (`PopRoom`); two packets
  (`PingPackets`), so that one that came for an abandoned request is followed by another.
* Hashes: pieces of nothing, one byte, one less than what leaves room for the length, a block,
  and two blocks and a bit, three (`MaxPieces`) to a context, take every branch of update and
  finish.
* Numbers: the limbs of one call (`Loads`, `Exponents`, `Randoms`) have zero, the greatest limb,
  leading zero limbs, both signs and carries over two limbs, and 18432 with 79, whose quotient the
half limbs estimate too low. Results are put over either operand.
  `MaxCalls` is one, because the results of a call are numbers like those loaded. `ProductBits`
  keeps results inside TLC's integers. `SmallPrimes` stands for the list up to 997.
* Ciphers: the standards are compared on the published vectors and one more key of each size;
  three blocks of 4 or 2 bytes (`WideBlock`, `NarrowBlock`, `ChainBlocks`) are enough for a block
  to depend on the one before while the text is overwritten, in pieces of any length.
* Keys: N of 15 and 17 bits (`KeyBits`; `MinBits` is 15 for the code's 128, 14 is refused), from
  three starts, of which the loop meets equal primes, a product one bit too long, and an exponent
  that has no inverse before it ends. An even exponent never lets it end and is not given. The
  texts are 0, 1, 2, 200, P, Q, 2Q, N-1 and N. `MaxKeys` two keys in a context, with `rsa_free`
  between; `MaxExchanges` two exchanges on the same contexts, with groups of one and two limbs,
  secrets that are longer than P, and parameters that are cut or too long. `KeyLengths` and
  `DataLengths` are those about the limits of the padding: a DigestInfo of each length fits, just
  fits, or does not.

`CHECK_DEADLOCK FALSE` is given where the system may really stop: in `fifo_alone` a thread that
reads an empty ring waits for itself; in the FTP and the devices' runs a call waits for ever for
another end that has given up, or the bounded uses are over; in `data` the uses are over.

`fifo_spsc` and the other two-thread runs need block lengths for which a waiting writer and a
waiting reader cannot block each other: the longest write and the longest read together exceed
the ring by at most one.

## 4. Fairness

* `CFifo`, `fifo_spsc` (`LiveSpec`): strong fairness of each thread's steps. A thread that waits
  for a flag looks at it every millisecond, and the holder gives it back within a few
  instructions; strong fairness says that the waiter does not for ever look exactly then. The
  users call again (weak fairness of `Call`), without which a reader waits for data that nobody
  writes.
* `CFifo`, `fifo_terminate` (`FairSpec`): only that a thread inside a call is not descheduled for
  ever. The other thread may stop, and TerminateWait may be followed by EnableWaitBack.
* `CThread`: owner and worker are scheduled. `LiveSpec` adds that `Execute` returns once
  `Stopped` is set, because each `Execute` of the repository tests it in its loop.
* `FifoBulk`: both threads are scheduled and time goes on. Nothing is assumed of the device: it
  may never answer.
* `FtpClient`: the client is scheduled and the server goes on with what it was told. That
  `accept()` or a read fails for reasons of the system is not assumed (`Mishap`).
* `MCDevices`: a thread inside a call is scheduled (`OutStep`, `GenStep`, `WavSteps`, `UsbStep`,
  `SockSteps` and so on; no call is ever made because of fairness). A device that is running
  plays, records and calls back (`PlayHeader`, `ProcessHeader`, `FillMicHeader`,
  `MicProcessHeader`), for that is what a sound device does; a paused one does not, and
  `OutWaits` and `InWaits` name the calls that then wait. The driver ends what it has begun
  (`UsbDriver`, `SerDriver`), unless the world is `mute`: then only the timeout does. Time goes
  on (`PingTick`), a mail server goes on with what it was told, and the system delivers what was
  sent (`SockSystem`). That the other end of a socket says anything is not assumed: `Silent`
  names the calls that wait for it.

`MCData` has no liveness: each call is one step, but for the random loop of `rsa_gen_key`, which
ends with probability one and not under any fairness.

## 5. What is proved

The proofs are for all values of the constants that the named assumptions admit
(`ConstantsAssumption`, `ThreadAssumption`, `BulkAssumption`, `WaveAssumption`, `OutAssumption`,
`InAssumption`, `FlashAssumption`, `UsbAssumption`, `UsbCallersAssumption`,
`FtpAssumption`, `SimpleAssumption`, `SockAssumption`, `PingAssumption`, `SmtpAssumption`,
`PopAssumption`: sizes are natural numbers,
those of rings, blocks and pages not zero, the numbering of units is longer than what can be
under way, and the single commands of the FTP client are those it has). Each rests on an
inductive invariant that TLC had checked on the small instance first. The last column names a
hypothesis of the theorem beyond these assumptions.

| Module | Theorem | Says | Under |
|---|---|---|---|
| `CFifoProofs` | `TypeCorrect` | every variable stays in its range; no index leaves the array | `OneWriterOneReader` |
| | `CounterIsSound` | what GetCounter and GetCounterFree return is never too much when it is compared | `OneWriterOneReader` |
| | `CopiesNeverOverlap` | a block being written and a block being read share no slot | `OneWriterOneReader` |
| | `FifoImplementsQueue` | the ring implements `ByteQueue` | `ByteElements` |
| | `FlagsAreRestored` | when every call has returned no flag is taken | `FlushUndisturbed` |
| `CThreadProofs` | `TypeCorrect`, `OneThread` | at most one thread of an object is alive, and the object holds its handle | |
| | `WholeObject` | Execute runs on an object that is not complete only in a constructor asked to start the thread, or in a destructor before which nobody waited for it | |
| | `StopIsKept` | Stopped goes back to false only where no thread is left to see it | |
| | `HeldUntilResumed` | a thread created suspended does not run before a Resume | `SoundUsers` |
| | `FinishedIsTrue` | Finished tells the truth about the thread | `SoundUsers` |
| `FifoBulkProofs` | `BulkTyped`, `FlushIsAlone`, `ThreadNeverKilled` | the obligations of section 2 | |
| | `WaitsEnd` | the thread does not wait for an event that nobody sets | |
| | `StreamIsUnbroken` | from the source to the sink no unit is missing, doubled or out of order | |
| `AudioProofs` | `SoundIsInOrder` | what was written is played in order, queued, or was thrown away by a reset | |
| | `TellsTheTruth` | the output's object agrees with the device, running dry is reported, the generator stops soon | |
| | `StopKeepsTheSound` | no step throws sound away but those that may | |
| | `RecordIsInOrder` | ReadData gives the recording, in order and without a gap that is not accounted for | |
| `DevicesProofs` | `FlashIsAnArray` | ProgrammFlash writes its data and nothing else, whatever command fails | |
| | `PortsAreSound` | USB transfers report what their own request moved, inside the buffer; serial settings are the last accepted, serial transfers complete | |
| | `NetworkIsSound` | a socket carries every byte in order and accounts for it, connections and hosts that are reported were there (a host: once something was received), and opening an initialized object leaves, when it fails, an error and no socket | no two readers of a `c_sock_over` |
| `FtpClientProofs` | `PortStaysOpen` | PORT names a port the client listens on | `Rearming` |
| | `RepliesAreMatched` | what is taken for the answer to a command answers it | `Careful` |
| | `TransfersAreWhole` | a transfer reported as whole is whole, and no upload leaves a hole | `Careful`, `Rearming`, `EnoughPorts` |
| `MailProofs` | `MailIsSound` | a mail that is reported as sent was accepted whole, one that is reported as fetched is the one asked for, and what POP3 reports as done was done | |

**The ring.** `OneWriterOneReader` is: at most one writer and at most one other thread that
reads, nobody flushes, pointers kept in registers, nobody terminates; `ByteElements` adds
that an element is a byte. The argument does not rest on the flags. `Roles`: a thread in a call
is the one writer in Write or the one reader in Read. `Promise`: an `avail` that was computed and
not yet compared is at most what there is, because only the other thread moves the other pointer,
and it moves it in the favourable direction. `Room`: from the comparison to the advance of the
pointer there is room for the whole block; this is what keeps the regions apart, and it is not
implied by `CounterSound`, which speaks only of the moment of comparison. `AtPointer`: a copy
starts at the pointer it will advance. `IInv` is their conjunction with `TypeOK`. For the
refinement, `Stored` adds that what has been copied so far is in the array and numbered on from
`next`, and `Fetched` that what has been read so far is the front of the queue; each step then
maps to a Put, a Get or a stutter of `ByteQueue`. `DistanceAfterWrite`, `DistanceAfterRead` and
`MovedIsForward` carry the modular arithmetic. The flags are another matter, and are proved for
any number of threads in any roles and both builds: a flag that is taken is in the hands of a
thread that will give it back (`FlagsHeld`; two may have it at once, the first to leave gives it
back for both, none never). `FlushUndisturbed` excludes only a TerminateWait beside a Flush,
which does leave flags taken (c_FIFO.h:206-213 and section 7).

**The thread.** The owner's agenda is described by which step may follow which (`Linked`) and by
which steps belong to which call (`InCall`), so the invariant needs no list of agendas. With them
`GoneBefore` (no thread is created, and the object not destroyed, before the earlier thread is
gone), `NoneOutside` (a constructor that starts no thread has none, and neither has a destructor
whose derived part has waited) and `NothingLeft` make `OwnsItsThread` inductive, in every world of
both builds. `OwnerInvariant` is these together; they say nothing of flags and events.
`WholeObject` follows from `NoneOutside`: the two places it leaves, a start in the constructor and
a derived class that does not wait, are those where Execute does meet an incomplete object. What
the flags and events say needs `SInv`: where the owner has resumed the thread (`ResumedFirst`),
where no event is left over (`NoEventLeft`), what the flags say of each thread
(`FlagsTruthful`), and that one created suspended is held back (`HeldBack`). It holds of
`SoundUsers`, who do not both restart and suspend in the POSIX build: for the others
`thread_v_suspend` shows it false.

**The USB pipes.** `UserInv` says where a call of the user stands while the thread lives,
`CountedInv` that what either side has counted in the FIFO stays there until it moves it,
`EventInv` that an event is set unless its request is pending or being moved; with `TypeOK` they
are `IInv`. For the stream, `RequestInv` says what a request holds in each state and that what is
younger than a pending request is pending; and `Linked` gives every place that holds units (what
the user last got, the FIFO, the chunk, each request) the number of its first unit, such that
each place ends where the next in the order of Index begins and the last ends at the source.
Every action moves a piece from one place to its neighbour and changes one number. The chain
passes through empty places, `StreamUnbroken` speaks of those that are not empty and next to each
other; that the one gives the other is the only induction, by the least place of a nonempty set
(`Least`).

**Audio output.** `OutInv` is: `Lent` (a header in the device's queue is not done, is there once,
and only it holds data), `NothingQueued` and `Handle` (what the device has, and whether it is
open, at each point of a call), `Working` (while the object works a header is done or queued, and
a device that ran dry has been noticed) and the property itself. After a header was refused
`Handle` promises less, because Stop then does nothing.

**Audio input.** `InInv` is: `InHandle` and `InStopped` (how far a call has come, and that
nothing is recorded meanwhile), `InRing` (from the header that is read next the ring has first
those that are done, then those queued, in the order of the queue) and `RecordedInOrder`. The
ring is taken as a function from 1 .. NumHeaders to sequences, about which four lemmas say what
an action does to it: a header that comes back appends (`OrderedAppends`), one that finds none is
lost (`OrderedLoses`), ReadData takes from the front (`OrderedTakes`), and gives the first header
back to the end (`OrderedTurns`); the arithmetic of the ring is `RingWraps`, `RingInjective` and
`RingTurns`. Once waveInAddBuffer has refused a header nothing is promised, as in the property.

**The FTP client.** `Rearming` is: users call FTPActiveSet before every active transfer, or give
give a connection up after its first; `Careful`: answers come in time or the user closes the
connection after a timeout, and either transfers run to their end and no text holds a code that is
looked for, or a connection is given up after its first transfer. Without the first the port of a
closed socket is sent (c_ftp_client.cpp:505), without the second `ftp_v_reply` is what happens, and
with arbitrary texts on a connection that is used for several transfers the 226 of one, left
unread, whose text holds 250 ("2500 bytes"), answers the next CWD: TLC then finds `RepliesMatched`,
`TransfersWhole` and `PortIsOpen` violated (`World(TRUE, TRUE, FALSE, TRUE, FALSE, FALSE, FALSE)`).
The agenda is described as in `CThread`, by which step may follow which (`StepFits`, `WellFormed`);
in particular PORT follows the step that begins to listen, and nothing is sent after RETR or STOR.
`PortInv` needs no more. `MatchInv` says that the connection is given up, or is in one of three
states (`InOrder`): between commands (`Idle`), where nothing is on its way but the 226 of a
transfer; in `RecvResponse` with the answer to come (`Waiting`: `Undecided` says that nothing read
so far decides, `Unanswered` and `Answered` what is behind the answer); or past its only transfer,
in a world where transfers may break off (`OneTransfer`). The code decides by the first reply of
the buffer that is a refusal or the one it looks for, and the step that matters is that this reply
is never a 226 of an earlier transfer (`StaleIs226` and the codes `SendCommand` looks for). Where
texts are arbitrary and a connection has one transfer, `TextInv` says that the reply at hand
answers the command and decides by its own code, so no text is searched. How much of the replies
`RecvAny` takes at a time is arbitrary; that there is a first that decides is the least-number
principle, which `LeastOf` draws from `WFMin`.

**The transfers.** `TransferInv` needs `MatchInv` and `PortInv` and is about the data. A call that
transfers is the rest of one script of eight or nine steps (`Scripted`), so each step knows the
next. The server has one port at most, and what its end of a port is follows from it (`PortsInv`);
what it has sent or received of a file, with what is still on the connection, is the beginning of
that file (`TaskInv`), and so is what it has stored (`DiskInv`). What the client may conclude comes
through replies: 200 means that the server has the port it listens on (`TellingPort`), 125 or 150
that this file is on its way to or from this port (`Asking`, `Started`), and nobody knows less
until the call is over (`Moving`). Because UploadFile's loop goes on after a failed Send, what it
has got past (`wrote`) is tied to what the server has only while the connection is open; a socket
that failed is closed (`DropDataEnd`), and that is why no hole is left. The final reply that
DownloadFile and UploadFile do not read tells nothing that is not known already where servers
complete what they begin: `ResultInv` is what is known without it. Beyond `Careful` and `Rearming`
it is assumed that no upload goes over a `c_sock_over` there, which takes an error for a block that
was sent, and that there are three ports (`EnoughPorts`): one the server has, one that the client
has, and a new one. `SoundWorldsFit` says that the worlds of the run are such.

**USB device and serial port.** `UsbInv` is: `MutexHeld` (who is between the taking and the
release of a pipe's mutex holds it, and nobody else), `RequestsGoOn` (how far the request of a
call has come with the driver at each point of the call, if no call times out), `WithinBuffer`
(what has been moved of a buffer is a multiple of the piece) and `ErrorsTold` (what
`LastErrorNumber` says at each point if the user is alone). An action changes one call and at most
one pipe, so two frame lemmas, `OutsideStepKeeps` and `InsideStepKeeps`, carry what the other
callers know, and each action is left with what its own caller knows afterwards. A timeout is
not excluded: the invariant says less of a world that has them, as the property does. `SerInv` is
`SettingsKept` with `Changing` (the control block in hand is the device's with the change in it,
between its reading and its writing) and `Transferring` (the same for a transfer and its
OVERLAPPED).

**Sockets and ping.** What `SocketsSound` says of the bytes holds when no call is in progress; what
is true all the time is an account (`ReadAccount`, `WriteAccount`): for each direction, what was
reported, what the calls in progress have got, and what a request has moved whose thread does not
know it yet (`Cancelled`) add up to what went through. A request that is done has a thread that
waits for it (`DoneAwaited`), so nothing is left over when the threads are idle; this is where a
timeout that meets the arrival of the data would lose bytes. `InStream` is the order: what was
taken and what still waits are 1, 2, 3 up to what was sent. `OwnerCall` says which socket a call
of the owner is for and which it has closed by then, `OwnerAlone` that it opens while nobody
transfers. A step of a user touches one call, one flag and one request, a step of the owner none
of those, a step of the system one request; one frame lemma for each (`UserStepKeeps`,
`OwnerStepKeeps`, `SystemKeeps`) leaves each action with its own entry of the account. Two
readers of one `c_sock_over` that pass the test of `ReadInUse` together would hand the same
OVERLAPPED to the system twice. The model has one request for a direction and does not say what
the system makes of that, so these worlds are excluded (`SockWorldsFit` checks it of the run's).
`PingInv` keeps that the packets in the queue are the last that came (`PacketsInOrder`), that a
request is given up only after the whole timeout (`PingClock`), and that what was taken without
ending the wait was no answer or was late (`PassedOver`), also where an abandoned request took it.
What is in `recv_buf`, once a packet has been received there, is the last packet taken, so a
request that fails has an old packet decoded but never one that did not come; before the first it
is anything, and `AliveTruthful` says so.

**Mail.** `PopInv` says what is on its way from the server, as one sequence of marks: before a
command is sent what is left of earlier replies, in which nothing begins a reply (`Leftover`);
after it as much of the reply to it as has come, behind what was left (`ReplyComes`), with the
mailbox as that reply says (`DoneFor`). Cutting, joining and delaying leave that sequence as it
is, so what RecvResponse takes up to the end it waits for is the reply. All this is for calls that
began with no answer to come (`fresh`), as the property. `SmtpInv` takes the five steps of
SMTPSendMessage one by one (`AtStep`): what of this call is on its way to the server, which answers
are on their way back, and what the server then knows of the mail. The answer that may still be
due when the call begins shifts each answer by one; it can hide a refusal of RSET, and
then that of RSET stands for MAIL's, but a 354 comes only for a DATA that was accepted with this
call's sender (`MailClean`, `MailIsOurs`), and only then is the text sent. `MailTaken` is what a
250 for the text means.

**Generator and flash.** `GenInv` ties the blocks written after a Stop to the place of the loop.
`FlashInv` is `FlashTypeOK` and `Progress`: at each command the memory holds a prefix of the data
over what was there, the counters agree with the prefix, and the chip's buffer holds what the
page will hold. `PageSplit`, `PageOffset` and `NextPageStarts` carry the arithmetic of pages.

## 6. What is only model-checked

* Liveness under fairness, and whatever needs ENABLED, is out of the prover's reach:
  `CallsReturn`, `ShutdownReturns`, `TerminationReleases` and `DeviceCallsReturn`.
* Facts that need induction over data are too, which is nearly all of `data`: the library's
  induction theorems cannot be instantiated here. What a fold or a recursive function computes is
  compared with its definition by TLC on the instances of section 3.
* Not proved: of `BytesCarried`, what is about files of sound and of lines and about the parser of
  POP3List (`SizesTold`). What is loaded of a file is compared with what SelectSeq finds in it, and
  the parser is a fold over its text: both go by induction over data. Nor the ranges in `TypeOK` of
  `FtpClientProperties`, `MCDevices` and `MCData`, for which the runs' bounds matter; what the
  proofs want of types is part of their invariants (`UsbTyped`, `SockTyped`, `PingTyped`).
* Of `CFifo`, that one thread with Flush has a queue (`fifo_alone`).

## 7. What is not modelled, and known limits

* Memory ordering: accesses are sequentially consistent. c_FIFO.h:21 asks only that int
  operations be atomic, and the code has no barrier, so a machine with weaker ordering may do
  more than the model.
* Two writers or two readers on one `c_FIFO` are unsafe: `PossibleWrite` is taken by test and
  assignment. The constants allow them, but no run covers them. Nor is a Flush beside a Write
  safe: it takes `PossibleWrite` by test (c_FIFO.h:213) and assignment, `PossibleRead` not at
  all, and resets the pointers one after the other (221, 223). A `TerminateWait` beside a `Flush`
  can leave the counters locked.
* The wording of replies, but for a code in a text of the FTP server, and the wrappers named in
  section 2.
* The sound that `c_wave` keeps in memory, and LoadFull and SaveFull that are built on it.
  `AddData` copies behind the block it has just enlarged and counts the length twice
  (c_wave.cpp:88-90), so LoadFull never has the sound of a file, and there is nothing to check.
  Of `c_file` the POSIX build, the wrappers for single numbers, and the names and sizes.
* `c_List` and `c_ListPtr`, CRC, base64 and the encodings, `c_bzip2`: sequential code over data.
  `c_ListPtr::Insert` and `Remove` move what the entries point to and not the entries
  (c_ListPtr.cpp:65). What `havege` delivers depends on the processor's clock; where it is used,
  it is any value of a small set. The Fourier transforms are generated floating-point arithmetic.
  Logging and the registry are input and output. `TChannel`, `TPChannel` and `DownloadPage` are
  deprecated, or in no build. zlib, bzip2, minizip and the like are vendored.
* AES with the PadLock instructions, AES and Camellia with tables that are only read, and the
  assembler products: other builds of functions that are modelled.

### What the models leave to the user

The properties of `devices` and `data` hold under conditions that their text or the worlds state,
because the code does not keep them otherwise. The cases met:

Audio
* `Stop(FALSE)`, and the Stop in Start, wait for headers that a paused device holds
  (c_audio_out.cpp:286); FlushAudioDevice waits for a header that was refused (257); after a
  refused write Stop does nothing and the handle is lost (277).
* The generator's thread does not look at `Stopped` while it is paused, and the destructor does
  not stop it (c_aud_generator.h:93). Start with a duration passes the address of its own
  parameter to the thread (101-104).

Files of sound and of lines
* `c_file::Open` for reading and writing without making the file anew always fails on Windows
  (c_file.cpp:54-56). `ReadLine` counts every byte twice (176), so GetPos is wrong after it; an
  empty line is not written and WriteLine reports FALSE (202); a longer line than BufLen - 2 is
  broken up and reported as FALSE. A last line that ends in CR is reported as FALSE, because the
  loop finds the CR again when nothing more is read (182).
* A chunk of odd length is followed by a byte that the code does not pass over; a header with
  length 0, which programs that write into a pipe leave, makes loading end with FALSE after the
  last chunk (`SaysItsLength`). A read that fails in the middle of a call loses what the call had
  read, and Play drops its last block so. BeginSave that has no room leaves the file open. Record
  writes the length it was asked for into the header, whatever came.
* `ReadData` and `readsome` refuse the last byte of the sound in memory (c_wave.cpp:96, 103).

USB, serial
* With two callers `LastErrorNumber` is shared: `UsbOutcome` promises the outcome to a single
  user only, and counts to all. After a timeout a late request is counted as the next one's. The
  last piece of a long control transfer has the size of a whole one. With no device the search
  for one never ends, because a BYTE counts to 256.
* A transfer of the serial port that timed out leaves an OVERLAPPED on a stack frame that is
  gone.

FTP
* A code is looked for in all that was received, texts included (c_ftp_client.cpp:585-598), and the
  final reply of a transfer stays unread: with servers that write numbers into their texts a
  connection is safe for one transfer only (section 5).

Sockets
* `c_sock_over::Create` that fails to make or select its event returns FALSE with no error and
  leaves the socket open (c_sock_over.cpp:114-119). `OpenedTruthfully` therefore speaks of calls on
  an object that Create had initialized (`ready`).
* `c_sock_over`'s non-blocking connect reports a refused connection as made, because FD_CONNECT
  is set for failures too.
* `c_sock_over::Close` sets the events and resets them: a thread between its request and its
  infinite wait is not woken. A reader that is woken by Close closes the socket once more, so it
  must be back before the socket is opened again (`SockIdle`). `ReadInUse` is taken by test and
  assignment, and two readers that take it together share one OVERLAPPED.
* `c_sock_base::Recv` with a timeout may still block in `recv`; the timeout in milliseconds is
  put into `tv_usec`. `c_sock_over`'s Send and RecvAny report errors as 0, where the clients test
  for less than 0. `Connected()` and its like use
  `|` where `&` is meant, so they are always true. `c_sock_compl::Accept_s` admits an unbound
  socket. `Create_Internal` drops an address without a name. A failed non-blocking Create leaves
  the socket open.

Mail
* SMTP: an answer is told by its code alone, and of all that has arrived by the first code. With
  two answers still to come (two timeouts, or an EHLO answer of three lines in pieces) the
  refusals of a later call's RSET and MAIL can go unseen, and its text is then sent and reported
  with the sender of an earlier call (`MailAccepted` has at most one still to come). A DATA
  that is repeated after a timeout becomes a line of the text (`TextAccepted`). Lines that begin
  with a dot are not doubled. `LastErrorSMTP` is not set by the constructor.
* POP3: "-ERR" is waited out as a timeout (c_pop3.cpp:479). A late answer is taken for the next
  command's (`fresh`). The reader of POP3List skips the first digit of the number of mails, and
  without words after that number it misses the first mail. For more than 50 mails it uses the
  smaller of two buffers. `Retr` looks for the end of a mail past the end of what was received.

Ping
* A pending receive that fails is taken for a packet, because recv_ping returns 0 whatever
  WSAGetOverlappedResult says (c_ping.cpp:249-252; the comment at 219 says "On failure, returns
  < 0"). What is decoded is the last packet of this call or, when it has received none, the memory
  `new` gave, so a host may be reported alive that never answered: `AliveTruthful` excepts just
  that.
* Any echo reply with the process's id is an answer, whoever sent it; the sequence number is
  always 0. A PacketSize of 12 to 27, or a packet with IP options, is "too few bytes", and
  PingHost gives up. The request that was abandoned writes to an OVERLAPPED on a stack frame that
  is gone. `(ttl<=0)&&(ttl>=255)` is never true.

Numbers (`ArithmeticExact`, `ModularExact` and `TextExact` name these calls)
* `mpi_cmp_mpi` with X > 0 and a longer Y < 0; `mpi_add_abs` with X, A and B one number loses the
  carry; `mpi_div_mpi` with the quotient over A or B, or the remainder over A, loses signs, and
  with the quotient over A and |A| < |B| the remainder too; `mpi_mod_mpi` with the result over B,
  and `mpi_inv_mod` modulo 1, never end; `mpi_gcd(A, 0)` is 0; `mpi_exp_mod` ignores the sign of
  its base; `mpi_write_string` leaves no room for the sign in radix 16 and `mpi_read_file` loses
  it; `mpi_is_prime` takes -1 for a prime and leaves its argument positive on early returns;
  `mpi_gen_prime` may give one bit more than it was asked for.

* In the build without `t_udbl` the quotient of `mpi_div_mpi` can be too low. The divisor is shifted
  to biL - 1 bits, its highest bit stays clear, and the product of its low half with half a limb of
  the estimate (bignum.cpp:1086) can overflow; the corrections after it (1113-1134) only lower the
  digit. With limbs of 8 bits 18432 by 79 gives 29 and leaves 16141, for 233 and 25. It is so
  exactly for the divisors whose leading biL - 1 bits d have ((d - 1) \div high half of d) * low
  half of d >= 2^biL. A = Q * B + R holds all the same, and `mpi_mod_mpi` still gives the right
  rest, because it subtracts B until the rest is less (1201), which may then be very often.

Public keys
* A RAW hash of 34 bytes never verifies (rsa.cpp:561). A key of 11 to 15 bytes encrypts what it
  cannot decrypt (341). Decryption does not ask for eight bytes of padding. `rsa_gen_key` over a
  used context, and a new P in a used Diffie-Hellman context, work with the R^2 of the old
  number: rsa.h:182 asks for `rsa_init` first, and the model frees between.

Elsewhere, met while reading: `c_List::GetNode` steps one node too far in the second half
(c_List.h:95); `c_log::GetMessages` works without the mutex (c_log.cpp:97); `SetMaxFileCacheSize`
takes the smaller of two sizes where the larger is meant (c_ftp_client.cpp:628); the POSIX
semaphore starts with 1 whatever its maximum is (c_semaphore.h:35).

## 8. Plan

1. Modelled, checked and proved: `c_FIFO` with `ByteQueue`, `c_thread`, `TFIFO_BULK`, the FTP
   client, audio output and input, the generator, the flash, the USB device, the serial port, the
   sockets, the ping and the mail clients. Modelled and checked: all that section 2 lists.
2. Proofs that are left: that one thread's `c_FIFO` with Flush implements `ByteQueue`;
   `SavedSound`, and `LinesKept` of lines that were written here, which need no induction; the
   ranges of the FTP client.
3. Small modules for the containers, as operators against sequences.
