------------------------------ MODULE HashRounds ------------------------------
(***************************************************************************)
(* What the hashes make of a block: the process functions of md2.cpp,       *)
(* md4.cpp, md5.cpp, sha1.cpp, sha2.cpp and sha4.cpp.  The macros that      *)
(* rename the registers from step to step are a rotation of the registers   *)
(* here, and the words of SHA-1 and SHA-2 to come are a window of sixteen.  *)
(***************************************************************************)
EXTENDS Words

UpTo(n) == << >> \o [i \in 1 .. n |-> i]

\* Words of two or of four halves, the high one first.
XorLong(x, y) == << >> \o [h \in DOMAIN x |-> Xor16(x[h], y[h])]
AndLong(x, y) == << >> \o [h \in DOMAIN x |-> (x[h] + y[h] - Xor16(x[h], y[h])) \div 2]
OrLong(x, y) == << >> \o [h \in DOMAIN x |-> (x[h] + y[h] + Xor16(x[h], y[h])) \div 2]
NotLong(x) == << >> \o [h \in DOMAIN x |-> 65535 - x[h]]
AddHalf(low, a, b) == <<(a + b + low[1]) \div Half, (a + b + low[1]) % Half>> \o Tail(low)
AddLong(x, y) ==
  Tail(FoldLeft(LAMBDA low, k : AddHalf(low, x[Len(x) + 1 - k], y[Len(x) + 1 - k]), <<0>>,
                UpTo(Len(x))))
AddAll(first, words) == FoldLeft(AddLong, first, words)
\* Half h of a word, with noughts before the first.
HalfOf(x, h) == IF h < 1 THEN 0 ELSE x[h]
SHR(x, n) ==
  << >> \o [h \in DOMAIN x |->
     HalfOf(x, h - n \div 16) \div 2 ^ (n % 16)
       + (HalfOf(x, h - n \div 16 - 1) % 2 ^ (n % 16)) * 2 ^ (16 - (n % 16))]
Around(x, h) == x[((h - 1) % Len(x)) + 1]
ROTR(x, n) ==
  << >> \o [h \in DOMAIN x |->
     Around(x, h - n \div 16) \div 2 ^ (n % 16)
       + (Around(x, h - n \div 16 - 1) % 2 ^ (n % 16)) * 2 ^ (16 - (n % 16))]
S(x, n) == ROTR(x, 16 * Len(x) - n)

Choice(x, y, z) == XorLong(z, AndLong(x, XorLong(y, z)))
Majority(x, y, z) == OrLong(AndLong(x, y), AndLong(z, OrLong(x, y)))
Parity(x, y, z) == XorLong(XorLong(x, y), z)
LongWords == Seq(Seq(0 .. 65535))
AddStates(a, b) == << >> \o [i \in DOMAIN a |-> AddLong(a[i], b[i])]

-----------------------------------------------------------------------------
\* MD4 and MD5: v is A, B, C, D in the order of the next step, of which row r has sixteen.

Md4Places ==
  << <<0, 1, 2, 3, 4, 5, 6, 7, 8, 9, 10, 11, 12, 13, 14, 15>>,
     <<0, 4, 8, 12, 1, 5, 9, 13, 2, 6, 10, 14, 3, 7, 11, 15>>,
     <<0, 8, 4, 12, 2, 10, 6, 14, 1, 9, 5, 13, 3, 11, 7, 15>> >>
Md4Turns == << <<3, 7, 11, 19>>, <<3, 5, 9, 13>>, <<3, 9, 11, 15>> >>
Md4Adds == << <<0, 0>>, <<23170, 31129>>, <<28377, 60321>> >>
Md4F(r, x, y, z) ==
  CASE r = 1 -> OrLong(AndLong(x, y), AndLong(NotLong(x), z))
    [] r = 2 -> OrLong(AndLong(x, y), OrLong(AndLong(x, z), AndLong(y, z)))
    [] r = 3 -> Parity(x, y, z)
Md4Step[v \in LongWords, X \in LongWords, r \in 1 .. 3, i \in 1 .. 16] ==
  <<v[4],
    S(AddAll(v[1], <<Md4F(r, v[2], v[3], v[4]), X[Md4Places[r][i] + 1], Md4Adds[r]>>),
      Md4Turns[r][((i - 1) % 4) + 1]),
    v[2], v[3]>>
Md4Row[v \in LongWords, X \in LongWords, r \in 1 .. 3] ==
  FoldLeft(LAMBDA w, i : Md4Step[w, X, r, i], v, UpTo(16))
md4_process(state, data) ==
  LET X == << >> \o [i \in 1 .. 16 |-> GetLE(data, 4 * (i - 1))]
  IN  AddStates(state, FoldLeft(LAMBDA v, r : Md4Row[v, X, r], state, UpTo(3)))

T ==
 <<<<55146, 42104>>, <<59591, 46934>>, <<9248, 28891>>, <<49597, 52974>>, <<62844, 4015>>,
   <<18311, 50730>>, <<43056, 17939>>, <<64838, 38145>>, <<27008, 39128>>, <<35652, 63407>>,
   <<65535, 23473>>, <<35164, 55230>>, <<27536, 4386>>, <<64920, 29075>>, <<42617, 17294>>,
   <<18868, 2081>>, <<63006, 9570>>, <<49216, 45888>>, <<9822, 23121>>, <<59830, 51114>>,
   <<54831, 4189>>, <<580, 5203>>, <<55457, 59009>>, <<59347, 64456>>, <<8673, 52710>>,
   <<49975, 2006>>, <<62677, 3463>>, <<17754, 5357>>, <<43491, 59653>>, <<64751, 41976>>,
   <<26479, 729>>, <<36138, 19594>>, <<65530, 14658>>, <<34673, 63105>>, <<28061, 24866>>,
   <<64997, 14348>>, <<42174, 59972>>, <<19422, 53161>>, <<63163, 19296>>, <<48831, 48240>>,
   <<10395, 32454>>, <<60065, 10234>>, <<54511, 12421>>, <<1160, 7429>>, <<55764, 53305>>,
   <<59099, 39397>>, <<8098, 31992>>, <<50348, 22117>>, <<62505, 8772>>, <<17194, 65431>>,
   <<43924, 9127>>, <<64659, 41017>>, <<25947, 22979>>, <<36620, 52370>>, <<65519, 62589>>,
   <<34180, 24017>>, <<28584, 32335>>, <<65068, 59104>>, <<41729, 17172>>, <<19976, 4513>>,
   <<63315, 32386>>, <<48442, 62005>>, <<10967, 53947>>, <<60294, 54161>>>>
Md5Place(r, i) ==
  CASE r = 1 -> i - 1
    [] r = 2 -> (5 * (i - 1) + 1) % 16
    [] r = 3 -> (3 * (i - 1) + 5) % 16
    [] r = 4 -> (7 * (i - 1)) % 16
Md5Turns == << <<7, 12, 17, 22>>, <<5, 9, 14, 20>>, <<4, 11, 16, 23>>, <<6, 10, 15, 21>> >>
Md5F(r, x, y, z) ==
  CASE r = 1 -> Choice(x, y, z)
    [] r = 2 -> Choice(z, x, y)
    [] r = 3 -> Parity(x, y, z)
    [] r = 4 -> XorLong(y, OrLong(x, NotLong(z)))
Md5Step[v \in LongWords, X \in LongWords, r \in 1 .. 4, i \in 1 .. 16] ==
  <<v[4],
    AddLong(S(AddAll(v[1], <<Md5F(r, v[2], v[3], v[4]), X[Md5Place(r, i) + 1],
                             T[16 * r - 16 + i]>>),
              Md5Turns[r][((i - 1) % 4) + 1]), v[2]),
    v[2], v[3]>>
Md5Row[v \in LongWords, X \in LongWords, r \in 1 .. 4] ==
  FoldLeft(LAMBDA w, i : Md5Step[w, X, r, i], v, UpTo(16))
md5_process(state, data) ==
  LET X == << >> \o [i \in 1 .. 16 |-> GetLE(data, 4 * (i - 1))]
  IN  AddStates(state, FoldLeft(LAMBDA v, r : Md5Row[v, X, r], state, UpTo(4)))

-----------------------------------------------------------------------------
\* SHA-1: s is its registers and the next sixteen words, a row has twenty steps.

Sha1Adds == << <<23170, 31129>>, <<28377, 60321>>, <<36635, 48348>>, <<51810, 49622>> >>
Sha1F(r, x, y, z) ==
  CASE r = 1 -> Choice(x, y, z)
    [] r = 3 -> Majority(x, y, z)
    [] r \in {2, 4} -> Parity(x, y, z)
Sha1Word(w) == S(Parity(XorLong(w[14], w[9]), w[3], w[1]), 1)
Steps == [v : LongWords, w : LongWords]
Sha1Step[s \in Steps, r \in 1 .. 4] ==
  LET v == s.v
  IN  [v |-> <<AddAll(v[5], <<S(v[1], 5), Sha1F(r, v[2], v[3], v[4]), Sha1Adds[r], s.w[1]>>),
               v[1], S(v[2], 30), v[3], v[4]>>,
       w |-> Append(Tail(s.w), Sha1Word(s.w))]
Sha1Row[s \in Steps, r \in 1 .. 4] == FoldLeft(LAMBDA t, i : Sha1Step[t, r], s, UpTo(20))
sha1_process(state, data) ==
  AddStates(state,
            FoldLeft(LAMBDA s, r : Sha1Row[s, r],
                     [v |-> state, w |-> << >> \o [i \in 1 .. 16 |-> GetBE(data, 4 * (i - 1))]],
                     UpTo(4)).v)

\* SHA-2 and SHA-4 differ in their turns; the constants of SHA-2 are the first halves of the
\* first of SHA-4's.
K ==
 <<<<17034, 12184, 55080, 44578>>, <<28983, 17553, 9199, 26061>>,
   <<46528, 64463, 60493, 15151>>, <<59829, 56229, 33161, 56252>>,
   <<14678, 49755, 62280, 46392>>, <<23025, 4593, 46597, 53273>>,
   <<37439, 33444, 44825, 20379>>, <<43804, 24277, 55917, 33048>>,
   <<55303, 43672, 41731, 578>>, <<4739, 23297, 17776, 28606>>,
   <<9265, 34238, 20196, 45708>>, <<21772, 32195, 54783, 46306>>,
   <<29374, 23924, 62075, 35183>>, <<32990, 45566, 15126, 38577>>,
   <<39900, 1703, 9671, 4661>>, <<49563, 61812, 53097, 9876>>,
   <<58523, 27073, 40689, 19154>>, <<61374, 18310, 14415, 9699>>,
   <<4033, 40390, 35724, 54709>>, <<9228, 41420, 30636, 40037>>,
   <<11753, 11375, 22827, 629>>, <<19060, 33962, 28326, 58499>>,
   <<23728, 43484, 48449, 64468>>, <<30457, 35034, 33553, 21429>>,
   <<38974, 20818, 61030, 57259>>, <<43057, 50797, 11700, 12816>>,
   <<45059, 10184, 39163, 8511>>, <<48985, 32711, 48879, 3812>>,
   <<50912, 3059, 15784, 36802>>, <<54695, 37191, 37642, 42789>>,
   <<1738, 25425, 57347, 33391>>, <<5161, 10599, 2574, 28272>>,
   <<10167, 2693, 18130, 12284>>, <<11803, 8504, 23590, 51494>>,
   <<19756, 28156, 23236, 10989>>, <<21304, 3347, 40341, 46047>>,
   <<25866, 29524, 35759, 25566>>, <<30314, 2747, 15479, 45736>>,
   <<33218, 51502, 18413, 44774>>, <<37490, 11397, 5250, 13627>>,
   <<41663, 59553, 19697, 868>>, <<43034, 26187, 48194, 12289>>,
   <<49739, 35696, 53496, 38801>>, <<51052, 20899, 1620, 48688>>,
   <<53650, 59417, 55023, 21016>>, <<54937, 1572, 21861, 43280>>,
   <<62478, 13701, 22385, 8234>>, <<4202, 41072, 12987, 53688>>,
   <<6564, 49430, 47314, 53448>>, <<7735, 27656, 20801, 43859>>,
   <<10056, 30540, 57230, 60313>>, <<13488, 48309, 57755, 18600>>,
   <<14620, 3251, 50633, 23139>>, <<20184, 43594, 58177, 35531>>,
   <<23452, 51791, 30563, 58227>>, <<26670, 28659, 54962, 47267>>,
   <<29839, 33518, 24047, 45820>>, <<30885, 25455, 17175, 12128>>,
   <<33992, 30740, 41456, 43890>>, <<36039, 520, 6756, 14828>>, <<37054, 65530, 9059, 7720>>,
   <<42064, 27883, 56962, 48617>>, <<48889, 41975, 45766, 30997>>,
   <<50801, 30962, 58226, 21291>>, <<51751, 16078, 59942, 24988>>,
   <<53638, 47303, 8640, 49671>>, <<60122, 32214, 52704, 60190>>,
   <<62845, 20351, 61038, 53624>>, <<1776, 26538, 29207, 28602>>,
   <<2659, 32197, 41672, 39078>>, <<4415, 38916, 48889, 3502>>, <<7025, 2869, 4892, 18203>>,
   <<10459, 30709, 8964, 32132>>, <<13002, 43899, 16583, 9363>>,
   <<15518, 48650, 5577, 48828>>, <<17181, 26564, 39952, 3404>>,
   <<19653, 54462, 52030, 17078>>, <<22911, 10652, 64613, 32298>>,
   <<24523, 28587, 15062, 64236>>, <<27716, 6540, 19015, 22551>>>>
Turns32 == [S0 |-> <<7, 18, 3>>, S1 |-> <<17, 19, 10>>, S2 |-> <<2, 13, 22>>, S3 |-> <<6, 11, 25>>]
Turns64 == [S0 |-> <<1, 8, 7>>, S1 |-> <<19, 61, 6>>, S2 |-> <<28, 34, 39>>, S3 |-> <<14, 18, 41>>]
Small(x, n) == Parity(ROTR(x, n[1]), ROTR(x, n[2]), SHR(x, n[3]))
Big(x, n) == Parity(ROTR(x, n[1]), ROTR(x, n[2]), ROTR(x, n[3]))
\* Mutant of ShaWord: the last word counts, not the one before.
ShaWordLast(w, turns) == AddAll(Small(w[16], turns.S1), <<w[10], Small(w[2], turns.S0), w[1]>>)
ShaWord(w, turns) == AddAll(Small(w[15], turns.S1), <<w[10], Small(w[2], turns.S0), w[1]>>)
Temp1(v, x, k, turns) == AddAll(v[8], <<Big(v[5], turns.S3), Choice(v[5], v[6], v[7]), k, x>>)
Temp2(v, turns) == AddLong(Big(v[1], turns.S2), Majority(v[1], v[2], v[3]))
ShaMixed(v, temp1, temp2) ==
  <<AddLong(temp1, temp2), v[1], v[2], v[3], AddLong(v[4], temp1), v[5], v[6], v[7]>>
ShaStep[s \in Steps, k \in Seq(0 .. 65535), turns \in {Turns32, Turns64}] ==
  [v |-> ShaMixed(s.v, Temp1(s.v, s.w[1], k, turns), Temp2(s.v, turns)),
   w |-> Append(Tail(s.w), ShaWord(s.w, turns))]
ShaRow[s \in Steps, r \in 1 .. 5, turns \in {Turns32, Turns64}, halves \in {2, 4}] ==
  FoldLeft(LAMBDA t, i : ShaStep[t, SubSeq(K[16 * r - 16 + i], 1, halves), turns], s, UpTo(16))
ShaRows(state, words, rows, turns, halves) ==
  AddStates(state,
            FoldLeft(LAMBDA s, r : ShaRow[s, r, turns, halves],
                     [v |-> state, w |-> words], UpTo(rows)).v)
sha2_process(state, data) ==
  ShaRows(state, << >> \o [i \in 1 .. 16 |-> GetBE(data, 4 * (i - 1))], 4, Turns32, 2)
Get64(b, i) == GetBE(b, i) \o GetBE(b, i + 4)
sha4_process(state, data) ==
  ShaRows(state, << >> \o [i \in 1 .. 16 |-> Get64(data, 8 * (i - 1))], 5, Turns64, 4)

-----------------------------------------------------------------------------
\* MD2: the byte before, changed by the table, changes the next; m is the 48 bytes.

PI_SUBST ==
 <<41, 46, 67, 201, 162, 216, 124, 1, 61, 54, 84, 161, 236, 240, 6, 19, 98, 167, 5, 243, 192,
   199, 115, 140, 152, 147, 43, 217, 188, 76, 130, 202, 30, 155, 87, 60, 253, 212, 224, 22,
   103, 66, 111, 24, 138, 23, 229, 18, 190, 78, 196, 214, 218, 158, 222, 73, 160, 251, 245,
   142, 187, 47, 238, 122, 169, 104, 121, 145, 21, 178, 7, 63, 148, 194, 16, 137, 11, 34, 95,
   33, 128, 127, 93, 154, 90, 144, 50, 39, 53, 62, 204, 231, 191, 247, 151, 3, 255, 25, 48,
   179, 72, 165, 181, 209, 215, 94, 146, 42, 172, 86, 170, 198, 79, 184, 56, 210, 150, 164,
   125, 182, 118, 252, 107, 226, 156, 116, 4, 241, 69, 157, 112, 89, 100, 113, 135, 32, 134,
   91, 207, 101, 230, 45, 168, 2, 27, 96, 37, 173, 174, 176, 185, 246, 28, 70, 97, 105, 52,
   64, 126, 15, 85, 71, 163, 35, 221, 81, 175, 58, 195, 92, 249, 206, 186, 197, 234, 38, 44,
   83, 13, 110, 133, 40, 132, 9, 211, 223, 205, 244, 65, 129, 77, 82, 106, 220, 55, 200, 108,
   193, 171, 250, 36, 225, 123, 8, 12, 189, 177, 74, 120, 136, 149, 139, 227, 99, 232, 109,
   233, 203, 213, 254, 59, 0, 29, 57, 242, 239, 183, 14, 102, 88, 208, 228, 166, 119, 114,
   248, 235, 117, 75, 10, 49, 68, 80, 180, 143, 237, 31, 26, 219, 153, 141, 51, 159, 17, 131,
   20>>
Md2States == [t : 0 .. 255, m : Seq(0 .. 255)]
Md2Byte[s \in Md2States, j \in 1 .. 48] ==
  LET b == XorByte(s.m[j], PI_SUBST[s.t + 1]) IN [t |-> b, m |-> [s.m EXCEPT ![j] = b]]
Md2Row[s \in Md2States, row \in 1 .. 3] ==
  FoldLeft(LAMBDA u, j : Md2Byte[u, 16 * row - 16 + j], s, UpTo(16))
Md2Pass[s \in Md2States, i \in 1 .. 18] ==
  [FoldLeft(LAMBDA u, row : Md2Row[u, row], s, UpTo(3)) EXCEPT !.t = (@ + i - 1) % 256]
Md2Checksum(cksum, data) ==
  FoldLeft(LAMBDA s, j :
             LET b == XorByte(cksum[j], PI_SUBST[XorByte(data[j], s.t) + 1])
             IN  [t |-> b, c |-> Append(s.c, b)],
           [t |-> cksum[16], c |-> << >>], UpTo(16)).c
md2_process(state, data) ==
  [m |-> FoldLeft(LAMBDA s, i : Md2Pass[s, i],
                 [t |-> 0, m |-> SubSeq(state.m, 1, 16) \o data
                                   \o XorBytes(data, SubSeq(state.m, 1, 16))],
                 UpTo(18)).m,
   cksum |-> Md2Checksum(state.cksum, data)]

-----------------------------------------------------------------------------
\* The states they start with, and a message that is padded already, block by block.

StartMd ==
 <<<<26437, 8961>>, <<61389, 43913>>, <<39098, 56574>>, <<4146, 21622>>>>
Start512 ==
 <<<<27145, 58983, 62396, 51464>>, <<47975, 44677, 33994, 42811>>,
   <<15470, 62322, 65172, 63531>>, <<42319, 62778, 24349, 14065>>,
   <<20750, 21119, 44518, 33489>>, <<39685, 26764, 11070, 27679>>,
   <<8067, 55723, 64321, 48491>>, <<23520, 52505, 4990, 8569>>>>
Start384 ==
 <<<<52155, 40285, 49413, 40664>>, <<25242, 10538, 13948, 54535>>,
   <<37209, 346, 12400, 56599>>, <<5423, 60632, 63246, 22841>>, <<26419, 9831, 65472, 2865>>,
   <<36532, 19079, 26712, 5393>>, <<56076, 11789, 25849, 36775>>,
   <<18357, 18461, 48890, 20388>>>>
FirstHalf(words) == << >> \o [i \in 1 .. 8 |-> SubSeq(words[i], 1, 2)]
SecondHalf(words) == << >> \o [i \in 1 .. 8 |-> SubSeq(words[i], 3, 4)]
Zeros == << >> \o [i \in 1 .. 16 |-> 0]
Start(alg, size) ==
  CASE alg \in {"MD4", "MD5"} -> StartMd
    [] alg = "SHA1" -> Append(StartMd, <<50130, 57840>>)
    [] alg = "SHA2" -> IF size = 256 THEN FirstHalf(Start512) ELSE SecondHalf(Start384)
    [] alg = "SHA4" -> IF size = 512 THEN Start512 ELSE Start384
    [] alg = "MD2" -> [m |-> Zeros, cksum |-> Zeros]
Process(alg, state, data) ==
  CASE alg = "MD4" -> md4_process(state, data)
    [] alg = "MD5" -> md5_process(state, data)
    [] alg = "SHA1" -> sha1_process(state, data)
    [] alg = "SHA2" -> sha2_process(state, data)
    [] alg = "SHA4" -> sha4_process(state, data)
    [] alg = "MD2" -> md2_process(state, data)
BlockSize(alg) == CASE alg = "MD2" -> 16 [] alg = "SHA4" -> 128 [] OTHER -> 64
\* The digest; that of MD2 takes the checksum for one more block.
Digest(alg, state, size) ==
  CASE alg = "MD2" -> SubSeq(md2_process(state, state.cksum).m, 1, 16)
    [] alg \in {"MD4", "MD5"} -> PutLE(state)
    [] alg \in {"SHA1", "SHA2"} -> SubSeq(PutBE(state), 1, size \div 8)
    [] alg = "SHA4" ->
         SubSeq(PutBE(FlattenSeq([i \in 1 .. 8 |->
                              <<SubSeq(state[i], 1, 2), SubSeq(state[i], 3, 4)>>])),
                1, size \div 8)
==============================================================================
