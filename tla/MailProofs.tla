----------------------------- MODULE MailProofs -----------------------------
(***************************************************************************)
(* Proofs about mail, for every server, number of lines and of calls: that  *)
(* what c_pop3 reports as fetched or deleted was, and that what c_smtp      *)
(* reports as sent was accepted whole, whatever was cut, late or left over. *)
(* The invariants say what of which answer is on its way at each step of a  *)
(* call: PopInv for the mailbox; SmtpInv for the relay, where AtStep takes  *)
(* the steps of SMTPSendMessage one by one.                                 *)
(***************************************************************************)
EXTENDS DevicesProofs

------------------------------------------------------------------------------
PopSpec == PopInit /\ [][PopNext]_popVars

\* What is sent and what is received.
PopSayings ==
  {<<c, m>> : c \in {"RETR", "TOP", "DELE"}, m \in PopMails}
    \cup {<<c, 0>> : c \in {"USER", "PASS", "QUIT", "RSET", "LIST"}}
Marks == {<<c, n>> : c \in {"+OK", "-ERR", ".", "rest", "line", "size"}, n \in Nat}
PopOps ==
  {"none", "ConnectClient", "ConnectEClient", "POP3Login", "POP3Logout", "POP3RSet",
   "POP3List", "POP3Top", "POP3Retr", "POP3Delete"}
PopAsks == [say : PopSayings \cup {<< >>}, want : {OK, Dot}, room : Nat]
PopErrors == {"none", "CONN", "REQ_TIMEOUT", "DISCONNECTED", "RECEIVE", "BUFOVER"}
PopRecord ==
  [pc : {"idle", "say", "hear"}, op : PopOps, m : Nat, script : Seq(PopAsks), buf : Seq(Marks),
   sock : BOOLEAN, error : PopErrors, onServer : Nat, res : BOOLEAN, got : Seq(Marks),
   fresh : BOOLEAN, left : Int]
Mailbox ==
  [up : BOOLEAN, wire : Seq(PopSayings), out : Seq(Marks), inbox : Seq(Marks),
   deleted : SUBSET Nat, own : BOOLEAN]
PopTyped == pop \in PopRecord /\ box \in Mailbox

\* A script ends as its call's does; only a connection begins with the server's greeting.
LastAsk(op, m, a) ==
  /\ op = "POP3Delete" => a.say = <<"DELE", m>> /\ a.want = OK /\ m \in PopMails
  /\ op = "POP3Retr" => a.say = <<"RETR", m>> /\ a.want = Dot /\ m \in PopMails
  /\ op = "POP3Top" => a.say = <<"TOP", m>> /\ a.want = Dot /\ m \in PopMails
  /\ op # "ConnectClient" => a.say # << >>
PopScripted(p) ==
  /\ p.pc # "idle" => p.script # << >> /\ LastAsk(p.op, p.m, p.script[Len(p.script)])
  /\ \A i \in 2 .. Len(p.script) : p.script[i].say # << >>
  /\ p.pc \in {"idle", "say"} => p.buf = << >>
  /\ p.pc # "idle" => Len(p.buf) <= p.script[1].room

\* What is on its way from the server, and which of it begins a reply.
PopStream == (pop.buf \o box.inbox) \o box.out
Begins(mark) == mark[1] = "+OK" \/ mark[1] = "-ERR"
Leftover(s) == \A i \in 1 .. Len(s) : ~Begins(s[i])
\* After what is left of earlier replies comes as much of this one as has come yet.
ReplyFrom(s, k, r) ==
  /\ Len(s) - k <= Len(r)
  /\ \A i \in 1 .. k : ~Begins(s[i])
  /\ \A i \in 1 .. Len(s) - k : s[k + i] = r[i]
ReplyComes(s, r) == \E k \in 0 .. Len(s) : ReplyFrom(s, k, r)
ReplyTo(say) == IF say = << >> THEN <<OK, Rest(0)>> ELSE PopReply(say[1], say[2])
DoneFor(say, b) == b.own /\ (say[1] = "DELE" => say[2] \in b.deleted)

PopAsking ==
  pop.pc = "say" /\ pop.fresh =>
    /\ box.wire = << >>
    /\ IF Head(pop.script).say = << >> THEN ReplyComes(PopStream, ReplyTo(<< >>))
       ELSE Leftover(PopStream)
PopWaiting ==
  pop.pc = "hear" /\ pop.fresh =>
    LET say == Head(pop.script).say
    IN  \/ say # << >> /\ box.wire = <<say>> /\ Leftover(PopStream)
        \/ box.wire = << >> /\ ReplyComes(PopStream, <<ERR>>)
        \/ /\ box.wire = << >> /\ ReplyComes(PopStream, ReplyTo(say))
           /\ say # << >> => DoneFor(say, box)
PopReported ==
  pop.pc = "idle" /\ pop.res /\ pop.fresh /\ pop.op # "ConnectClient" =>
    /\ box.wire = << >> /\ box.own
    /\ pop.op = "POP3Delete" => pop.m \in box.deleted
    /\ pop.op \in {"POP3Retr", "POP3Top"} => pop.got = <<OK, Rest(pop.m)>> \o MailLines(pop.m)
PopInv == PopTyped /\ PopScripted(pop) /\ PopAsking /\ PopWaiting /\ PopReported

------------------------------------------------------------------------------
\* Which marks begin a reply.
LEMMA MarksAre ==
  /\ OK \in Marks /\ ERR \in Marks /\ Dot \in Marks
  /\ Begins(OK) /\ Begins(ERR) /\ ~Begins(Dot) /\ OK # ERR /\ OK # Dot
  /\ \A n \in Nat : Rest(n) \in Marks /\ ~Begins(Rest(n)) /\ Rest(n) # Dot
  /\ \A n \in Nat : <<"line", n>> \in Marks /\ ~Begins(<<"line", n>>) /\ <<"line", n>> # Dot
  /\ \A n \in Nat : <<"size", n>> \in Marks /\ ~Begins(<<"size", n>>)
BY DEF OK, ERR, Dot, Rest, Marks, Begins

\* What came first comes first.
LEMMA MarksJoined ==
  ASSUME NEW s \in Seq(Marks), NEW t \in Seq(Marks)
  PROVE  /\ s \o t \in Seq(Marks) /\ Len(s \o t) = Len(s) + Len(t)
         /\ \A i \in 1 .. Len(s) : (s \o t)[i] = s[i]
         /\ \A i \in 1 .. Len(t) : (s \o t)[Len(s) + i] = t[i]
<1>1. Len(s) \in Nat /\ Len(t) \in Nat
  OBVIOUS
<1>2. /\ s \o t \in Seq(Marks) /\ Len(s \o t) = Len(s) + Len(t)
      /\ \A i \in 1 .. Len(s) + Len(t) :
           (s \o t)[i] = IF i <= Len(s) THEN s[i] ELSE t[i - Len(s)]
  BY ConcatProperties
<1>3. \A i \in 1 .. Len(t) : (s \o t)[Len(s) + i] = t[i]
  <2> SUFFICES ASSUME NEW i \in 1 .. Len(t) PROVE (s \o t)[Len(s) + i] = t[i]
    OBVIOUS
  <2>1. Len(s) + i \in 1 .. Len(s) + Len(t) /\ ~(Len(s) + i <= Len(s))
        /\ (Len(s) + i) - Len(s) = i
    BY <1>1
  <2> QED BY <2>1, <1>2
<1>4. \A i \in 1 .. Len(s) : (s \o t)[i] = s[i]
  BY <1>1, <1>2
<1> QED BY <1>2, <1>3, <1>4

\* The reply to a command begins with "+OK" and has no other beginning.
LEMMA ReplyIs ==
  ASSUME NEW say \in PopSayings \cup {<< >>}
  PROVE  LET r == ReplyTo(say)
         IN  /\ r \in Seq(Marks) /\ Len(r) >= 1 /\ r[1] = OK
             /\ \A i \in 2 .. Len(r) : ~Begins(r[i])
<1> DEFINE r == ReplyTo(say)
<1>0. \A s, t \in Seq(Marks) :
        /\ s \o t \in Seq(Marks) /\ Len(s \o t) = Len(s) + Len(t)
        /\ \A i \in 1 .. Len(s) : (s \o t)[i] = s[i]
        /\ \A i \in 1 .. Len(t) : (s \o t)[Len(s) + i] = t[i]
  BY MarksJoined
<1>1. \A n \in Nat : /\ <<OK, Rest(n)>> \in Seq(Marks) /\ Len(<<OK, Rest(n)>>) = 2
                     /\ <<OK, Rest(n)>>[1] = OK /\ <<OK, Rest(n)>>[2] = Rest(n)
  BY MarksAre
<1>2. <<Dot>> \in Seq(Marks) /\ Len(<<Dot>>) = 1 /\ <<Dot>>[1] = Dot
  BY MarksAre
<1>3. ASSUME NEW n \in Nat, r = <<OK, Rest(n)>>
      PROVE  /\ r \in Seq(Marks) /\ Len(r) >= 1 /\ r[1] = OK
             /\ \A i \in 2 .. Len(r) : ~Begins(r[i])
  BY <1>1, <1>3, MarksAre
<1>4. ASSUME NEW n \in Nat, NEW lines \in Seq(Marks), r = (<<OK, Rest(n)>> \o lines) \o <<Dot>>,
             \A i \in 1 .. Len(lines) : ~Begins(lines[i])
      PROVE  /\ r \in Seq(Marks) /\ Len(r) >= 1 /\ r[1] = OK
             /\ \A i \in 2 .. Len(r) : ~Begins(r[i])
  <2> DEFINE h == <<OK, Rest(n)>>
             d == <<Dot>>
  <2>1. h \in Seq(Marks) /\ d \in Seq(Marks) /\ Len(h) = 2 /\ Len(d) = 1 /\ h[1] = OK
        /\ h[2] = Rest(n) /\ d[1] = Dot
    BY <1>1, <1>2
  <2>2. r = (h \o lines) \o d
    BY <1>4
  <2> HIDE DEF h, d, r
  <2>3. /\ h \o lines \in Seq(Marks) /\ Len(h \o lines) = Len(h) + Len(lines)
        /\ \A i \in 1 .. Len(h) : (h \o lines)[i] = h[i]
        /\ \A i \in 1 .. Len(lines) : (h \o lines)[Len(h) + i] = lines[i]
    <3>1. h \in Seq(Marks) /\ lines \in Seq(Marks)
      BY <2>1
    <3> QED BY <3>1, <1>0, Zenon
  <2> DEFINE a == h \o lines
  <2> HIDE DEF a
  <2>4. /\ r \in Seq(Marks) /\ Len(r) = Len(a) + Len(d)
        /\ \A i \in 1 .. Len(a) : r[i] = a[i]
        /\ \A i \in 1 .. Len(d) : r[Len(a) + i] = d[i]
    <3>1. a \in Seq(Marks) /\ d \in Seq(Marks) /\ r = a \o d
      BY <2>1, <2>2, <2>3 DEF a
    <3> QED BY <3>1, <1>0, Zenon
  <2>5. Len(lines) \in Nat /\ Len(a) = 2 + Len(lines) /\ Len(r) = Len(a) + 1
    BY <2>1, <2>3, <2>4 DEF a
  <2>6. a[1] = OK /\ a[2] = Rest(n)
    BY <2>3, <2>1 DEF a
  <2>7. \A i \in 3 .. Len(a) : ~Begins(a[i])
    <3> SUFFICES ASSUME NEW i \in 3 .. Len(a) PROVE ~Begins(a[i])
      OBVIOUS
    <3>1. i - 2 \in 1 .. Len(lines) /\ Len(h) + (i - 2) = i
      BY <2>5, <2>1
    <3> QED BY <3>1, <2>3, <1>4 DEF a
  <2>8. r[Len(a) + 1] = Dot /\ r[1] = OK
    BY <2>4, <2>1, <2>5, <2>6
  <2>9. ASSUME NEW i \in 2 .. Len(r) PROVE ~Begins(r[i])
    <3>1. CASE i = 2
      <4>1. r[i] = Rest(n)
        BY <3>1, <2>4, <2>5, <2>6
      <4> QED BY <4>1, MarksAre
    <3>2. CASE i = Len(a) + 1
      BY <3>2, <2>8, MarksAre
    <3>3. CASE i # 2 /\ i # Len(a) + 1
      <4>1. i \in 3 .. Len(a) /\ i \in 1 .. Len(a)
        BY <3>3, <2>5
      <4> QED BY <4>1, <2>4, <2>7
    <3> QED BY <3>1, <3>2, <3>3
  <2> QED BY <2>4, <2>5, <2>8, <2>9
<1>5. CASE say = << >>
  <2>1. r = <<OK, Rest(0)>>
    BY <1>5 DEF ReplyTo
  <2> QED BY <2>1, <1>3
<1>6. ASSUME NEW c, NEW m, say = <<c, m>>, c \in {"RETR", "TOP"}, m \in PopMails
      PROVE  /\ r \in Seq(Marks) /\ Len(r) >= 1 /\ r[1] = OK
             /\ \A i \in 2 .. Len(r) : ~Begins(r[i])
  <2>1. PopLines[m] \in Nat /\ m \in Nat
    BY <1>6, PopAssumption DEF PopMails
  <2>2. MailLines(m) \in Seq(Marks) /\ Len(MailLines(m)) = PopLines[m]
        /\ \A i \in 1 .. Len(MailLines(m)) : ~Begins(MailLines(m)[i])
    BY <2>1, MarksAre DEF MailLines
  <2>3. r = (<<OK, Rest(m)>> \o MailLines(m)) \o <<Dot>>
    BY <1>6 DEF ReplyTo, PopReply
  <2> QED BY <2>1, <2>2, <2>3, <1>4
<1>7. CASE say = <<"LIST", 0>>
  <2> DEFINE lines == [i \in 1 .. Len(PopLines) |-> <<"size", i>>]
  <2>1. lines \in Seq(Marks) /\ Len(lines) = Len(PopLines)
        /\ \A i \in 1 .. Len(lines) : ~Begins(lines[i])
    BY PopAssumption, MarksAre
  <2>2. r = (<<OK, Rest(0)>> \o lines) \o <<Dot>>
    BY <1>7 DEF ReplyTo, PopReply
  <2>3. 0 \in Nat
    OBVIOUS
  <2> HIDE DEF lines, r
  <2>4. /\ r \in Seq(Marks) /\ Len(r) >= 1 /\ r[1] = OK
        /\ \A i \in 2 .. Len(r) : ~Begins(r[i])
    BY <2>1, <2>2, <2>3, <1>4
  <2> QED BY <2>4 DEF r
<1>8. CASE say = <<"PASS", 0>>
  <2>1. r = <<OK, Rest(Len(PopLines))>> /\ Len(PopLines) \in Nat
    BY <1>8, PopAssumption DEF ReplyTo, PopReply
  <2> QED BY <2>1, <1>3
<1>9. CASE say \in {<<c, 0>> : c \in {"USER", "QUIT", "RSET"}} \cup {<<"DELE", m>> : m \in PopMails}
  <2>1. r = <<OK, Rest(0)>>
    BY <1>9 DEF ReplyTo, PopReply
  <2> QED BY <2>1, <1>3
<1> QED BY <1>5, <1>6, <1>7, <1>8, <1>9 DEF PopSayings

\* A sequence that is cut in two, and its two parts.
LEMMA MarksCut ==
  ASSUME NEW s \in Seq(Marks), NEW n \in 0 .. Len(s)
  PROVE  /\ SubSeq(s, 1, n) \in Seq(Marks) /\ From(s, n + 1) \in Seq(Marks)
         /\ Len(SubSeq(s, 1, n)) = n /\ n + Len(From(s, n + 1)) = Len(s)
         /\ \A i \in 1 .. n : SubSeq(s, 1, n)[i] = s[i]
         /\ \A i \in 1 .. Len(From(s, n + 1)) : From(s, n + 1)[i] = s[n + i]
         /\ SubSeq(s, 1, n) \o From(s, n + 1) = s
<1> DEFINE a == SubSeq(s, 1, n)
           b == SubSeq(s, n + 1, Len(s))
<1>1. Len(s) \in Nat /\ DOMAIN s = 1 .. Len(s) /\ \A i \in 1 .. Len(s) : s[i] \in Marks
  OBVIOUS
<1>2. a \in Seq(Marks) /\ Len(a) = n /\ \A i \in 1 .. n : a[i] = s[i]
  <2>1. \A i \in 1 .. n : s[i] \in Marks
    BY <1>1
  <2>2. /\ a \in Seq(Marks)
        /\ Len(a) = IF 1 <= n THEN n - 1 + 1 ELSE 0
        /\ \A i \in 1 .. n - 1 + 1 : a[i] = s[1 + i - 1]
    BY <2>1, SubSeqProperties
  <2> QED BY <2>2
<1>3. b \in Seq(Marks) /\ Len(b) = Len(s) - n /\ \A i \in 1 .. Len(s) - n : b[i] = s[n + i]
  <2>1. \A i \in n + 1 .. Len(s) : s[i] \in Marks
    BY <1>1
  <2>2. n + 1 \in Int /\ Len(s) \in Int
    BY <1>1
  <2>3. /\ b \in Seq(Marks)
        /\ Len(b) = IF n + 1 <= Len(s) THEN Len(s) - (n + 1) + 1 ELSE 0
        /\ \A i \in 1 .. Len(s) - (n + 1) + 1 : b[i] = s[(n + 1) + i - 1]
    BY <2>1, <2>2, SubSeqProperties
  <2>4. Len(b) = Len(s) - n
    <3>1. Len(s) \in Nat /\ n \in 0 .. Len(s)
      BY <1>1
    <3> HIDE DEF b
    <3> QED BY <2>3, <3>1
  <2>5. ASSUME NEW i \in 1 .. Len(s) - n PROVE b[i] = s[n + i]
    <3>1. i \in 1 .. Len(s) - (n + 1) + 1 /\ (n + 1) + i - 1 = n + i
      BY <1>1
    <3> QED BY <3>1, <2>3
  <2> QED BY <2>3, <2>4, <2>5
<1> HIDE DEF a, b
<1>4. a \o b = s
  <2>1. /\ a \o b \in Seq(Marks) /\ Len(a \o b) = Len(a) + Len(b)
        /\ \A i \in 1 .. Len(a) : (a \o b)[i] = a[i]
        /\ \A i \in 1 .. Len(b) : (a \o b)[Len(a) + i] = b[i]
    BY <1>2, <1>3, MarksJoined
  <2>2. Len(a \o b) = Len(s)
    BY <2>1, <1>1, <1>2, <1>3
  <2>3. ASSUME NEW i \in 1 .. Len(a \o b) PROVE (a \o b)[i] = s[i]
    <3>1. CASE i <= n
      BY <3>1, <2>1, <1>2
    <3>2. CASE i > n
      <4>1. i - n \in 1 .. Len(s) - n /\ n + (i - n) = i /\ Len(b) = Len(s) - n /\ Len(a) = n
        BY <3>2, <2>2, <1>1, <1>2, <1>3
      <4> QED BY <4>1, <2>1, <1>3
    <3> QED BY <3>1, <3>2, <1>1, <2>2
  <2> QED BY <2>1, <2>2, <2>3, SeqEqual
<1>5. n + Len(b) = Len(s) /\ \A i \in 1 .. Len(b) : b[i] = s[n + i]
  BY <1>1, <1>3
<1>6. a = SubSeq(s, 1, n) /\ b = From(s, n + 1)
  BY DEF a, b, From
<1> QED BY <1>2, <1>3, <1>4, <1>5, <1>6

\* A set of numbers has a least one.
LEMMA MinIs ==
  ASSUME NEW T, T \subseteq Nat, T # {}
  PROVE  Min(T) \in T /\ \A y \in T : Min(T) <= y
<1>1. \E x \in T : \A y \in T : ~(<<y, x>> \in OpToRel(<, Nat))
  BY NatLessThanWellFounded, WFMin, Zenon
<1>2. PICK x \in T : \A y \in T : ~(<<y, x>> \in {ss \in Nat \X Nat : ss[1] < ss[2]})
  BY <1>1, Zenon DEF OpToRel
<1>3. \A y \in T : ~(y < x)
  BY <1>2
<1>4. \A y \in T : x <= y
  BY <1>3
<1> QED BY <1>4 DEF Min

\* Where the reply begins, and what AfterOK makes of it.
LEMMA AfterOKIs ==
  ASSUME NEW b \in Seq(Marks), NEW want, At(AfterOK(b), want) # {}
  PROVE  \E j \in 1 .. Len(b) :
           /\ b[j] = OK /\ \A i \in 1 .. Len(b) : b[i] = OK => j <= i
           /\ AfterOK(b) = From(b, j)
<1>1. Len(b) \in Nat /\ DOMAIN b = 1 .. Len(b)
  OBVIOUS
<1>2. At(b, OK) # {}
  <2> SUFFICES ASSUME At(b, OK) = {} PROVE FALSE
    OBVIOUS
  <2>1. AfterOK(b) = << >>
    BY DEF AfterOK
  <2>2. DOMAIN << >> = {}
    OBVIOUS
  <2> QED BY <2>1, <2>2 DEF At
<1>3. At(b, OK) \subseteq Nat
  BY <1>1 DEF At
<1>4. Min(At(b, OK)) \in At(b, OK) /\ \A y \in At(b, OK) : Min(At(b, OK)) <= y
  BY <1>2, <1>3, MinIs
<1>5. AfterOK(b) = From(b, Min(At(b, OK)))
  BY <1>2 DEF AfterOK
<1>6. \A i : i \in At(b, OK) <=> i \in 1 .. Len(b) /\ b[i] = OK
  BY <1>1 DEF At
<1> QED BY <1>4, <1>5, <1>6

\* What was received up to the end of a reply is not left of an earlier one, nor a refusal, and
\* it holds all of the reply but for what stands after the end that was waited for.
LEMMA HeardReply ==
  ASSUME NEW b \in Seq(Marks), NEW rest \in Seq(Marks), NEW want, At(AfterOK(b), want) # {}
  PROVE  /\ ~Leftover(b \o rest)
         /\ ~ReplyComes(b \o rest, <<ERR>>)
         /\ \A r \in Seq(Marks) :
              r[1] = OK /\ (\A i \in 2 .. Len(r) : ~Begins(r[i])) /\ ReplyComes(b \o rest, r) =>
                /\ Leftover(rest)
                /\ want = Dot /\ (\A i \in 1 .. Len(r) : r[i] = Dot <=> i = Len(r)) =>
                     PopRetrieved(b) = SubSeq(r, 1, Len(r) - 1)
<1> DEFINE s == b \o rest
<1>1. /\ s \in Seq(Marks) /\ Len(s) = Len(b) + Len(rest)
      /\ \A i \in 1 .. Len(b) : s[i] = b[i]
      /\ \A i \in 1 .. Len(rest) : s[Len(b) + i] = rest[i]
  BY MarksJoined
<1>2. Len(b) \in Nat /\ Len(rest) \in Nat
  OBVIOUS
<1>3. PICK j \in 1 .. Len(b) :
        /\ b[j] = OK /\ \A i \in 1 .. Len(b) : b[i] = OK => j <= i
        /\ AfterOK(b) = From(b, j)
  BY AfterOKIs
<1>4. j \in 1 .. Len(s) /\ s[j] = OK /\ Begins(s[j])
  BY <1>1, <1>2, <1>3, MarksAre
<1> HIDE DEF s
<1>5. ~Leftover(s)
  BY <1>4 DEF Leftover
<1>6. ~ReplyComes(s, <<ERR>>)
  <2> SUFFICES ASSUME NEW k \in 0 .. Len(s), ReplyFrom(s, k, <<ERR>>) PROVE FALSE
    BY DEF ReplyComes
  <2>1. /\ Len(s) - k <= 1 /\ \A i \in 1 .. k : ~Begins(s[i])
        /\ \A i \in 1 .. Len(s) - k : s[k + i] = <<ERR>>[i]
    BY DEF ReplyFrom
  <2>2. Len(s) \in Nat
    BY <1>1
  <2>3. j = k + 1 /\ 1 \in 1 .. Len(s) - k
    BY <2>1, <2>2, <1>4
  <2>4. s[k + 1] = ERR
    BY <2>1, <2>3
  <2> QED BY <2>3, <2>4, <1>4, MarksAre
<1>7. ASSUME NEW r \in Seq(Marks), r[1] = OK, \A i \in 2 .. Len(r) : ~Begins(r[i]),
             ReplyComes(s, r)
      PROVE  /\ Leftover(rest)
             /\ want = Dot /\ (\A i \in 1 .. Len(r) : r[i] = Dot <=> i = Len(r)) =>
                  PopRetrieved(b) = SubSeq(r, 1, Len(r) - 1)
  <2>1. PICK k \in 0 .. Len(s) : ReplyFrom(s, k, r)
    BY <1>7 DEF ReplyComes
  <2>2. /\ Len(s) - k <= Len(r) /\ \A i \in 1 .. k : ~Begins(s[i])
        /\ \A i \in 1 .. Len(s) - k : s[k + i] = r[i]
    BY <2>1 DEF ReplyFrom
  <2>3. Len(s) \in Nat /\ Len(r) \in Nat
    BY <1>1
  <2>4. j = k + 1
    <3>1. j > k
      BY <2>2, <2>3, <1>4
    <3>2. j - k \in 1 .. Len(s) - k /\ k + (j - k) = j
      BY <3>1, <2>3, <1>4
    <3>3. Begins(r[j - k])
      BY <3>2, <2>2, <1>4
    <3>4. j - k \in 1 .. Len(r)
      BY <3>2, <2>2, <2>3
    <3> QED BY <3>3, <3>4, <1>7, <2>3
  <2>5. Leftover(rest)
    <3> SUFFICES ASSUME NEW i \in 1 .. Len(rest) PROVE ~Begins(rest[i])
      BY DEF Leftover
    <3> DEFINE n == (Len(b) + i) - k
    <3>1. n \in 1 .. Len(s) - k /\ n \in 2 .. Len(r) /\ k + n = Len(b) + i
      BY <2>2, <2>3, <2>4, <1>1, <1>2, <1>3
    <3>2. s[k + n] = r[n] /\ s[Len(b) + i] = rest[i]
      BY <3>1, <2>2, <1>1
    <3> QED BY <3>1, <3>2, <1>7
  <2>6. ASSUME want = Dot, \A i \in 1 .. Len(r) : r[i] = Dot <=> i = Len(r)
        PROVE  PopRetrieved(b) = SubSeq(r, 1, Len(r) - 1)
    <3> DEFINE a == AfterOK(b)
    <3>1. k \in 0 .. Len(b) /\ a = From(b, k + 1)
      BY <2>3, <2>4, <1>2, <1>3
    <3> HIDE DEF a
    <3>2. /\ a \in Seq(Marks) /\ k + Len(a) = Len(b)
          /\ \A i \in 1 .. Len(a) : a[i] = b[k + i]
      <4> DEFINE c == From(b, k + 1)
      <4>1. /\ c \in Seq(Marks) /\ k + Len(c) = Len(b)
            /\ \A i \in 1 .. Len(c) : c[i] = b[k + i]
        BY <3>1, MarksCut
      <4>2. a = c
        BY <3>1
      <4> HIDE DEF c
      <4> QED BY <4>1, <4>2
    <3>3. Len(a) \in Nat /\ DOMAIN a = 1 .. Len(a)
      BY <3>2
    <3>4. \A i \in 1 .. Len(a) : a[i] = r[i] /\ i \in 1 .. Len(r)
      <4> SUFFICES ASSUME NEW i \in 1 .. Len(a) PROVE a[i] = r[i] /\ i \in 1 .. Len(r)
        OBVIOUS
      <4>1. i \in 1 .. Len(s) - k /\ k + i \in 1 .. Len(b) /\ i \in 1 .. Len(r)
        BY <3>1, <3>2, <3>3, <2>2, <2>3, <1>1, <1>2
      <4> QED BY <4>1, <3>2, <2>2, <1>1
    <3>5. At(a, Dot) # {} /\ At(a, Dot) = {i \in 1 .. Len(a) : a[i] = Dot}
      BY <2>6, <3>3 DEF At, a
    <3>6. Min(At(a, Dot)) \in At(a, Dot)
      <4>1. At(a, Dot) \subseteq Nat
        BY <3>5, <3>3
      <4> QED BY <4>1, <3>5, MinIs
    <3>7. Min(At(a, Dot)) = Len(r) /\ Len(r) \in 1 .. Len(a)
      BY <3>4, <3>5, <3>6, <2>6
    <3>8. Len(a) = Len(r)
      BY <3>1, <3>2, <3>3, <3>7, <2>2, <2>3, <1>1, <1>2
    <3>9. a = r
      BY <3>2, <3>4, <3>8, SeqEqual
    <3> QED BY <3>7, <3>9 DEF PopRetrieved, a
  <2> QED BY <2>5, <2>6
<1> QED BY <1>5, <1>6, <1>7 DEF s

\* A prefix of what is left of earlier replies is just that, and so is one of a reply.
LEMMA PrefixOf ==
  ASSUME NEW a \in Seq(Marks), NEW b \in Seq(Marks)
  PROVE  /\ Leftover(a \o b) => Leftover(a)
         /\ \A r \in Seq(Marks) : ReplyComes(a \o b, r) => ReplyComes(a, r)
         /\ \A r \in Seq(Marks) : Leftover(a) => ReplyComes(a, r)
         /\ Leftover(a) => \A r \in Seq(Marks) : ReplyComes(a \o r, r)
<1> DEFINE s == a \o b
<1>1. /\ s \in Seq(Marks) /\ Len(s) = Len(a) + Len(b)
      /\ \A i \in 1 .. Len(a) : s[i] = a[i]
  BY MarksJoined
<1>2. Len(a) \in Nat /\ Len(b) \in Nat
  OBVIOUS
<1> HIDE DEF s
<1>3. Leftover(s) => Leftover(a)
  BY <1>1, <1>2 DEF Leftover
<1>4. ASSUME NEW r \in Seq(Marks), ReplyComes(s, r) PROVE ReplyComes(a, r)
  <2>1. PICK k \in 0 .. Len(s) : ReplyFrom(s, k, r)
    BY <1>4 DEF ReplyComes
  <2>2. /\ Len(s) - k <= Len(r) /\ \A i \in 1 .. k : ~Begins(s[i])
        /\ \A i \in 1 .. Len(s) - k : s[k + i] = r[i]
    BY <2>1 DEF ReplyFrom
  <2>3. Len(s) \in Nat /\ Len(r) \in Nat
    BY <1>1
  <2>4. CASE k <= Len(a)
    <3>1. Len(a) - k <= Len(r) /\ \A i \in 1 .. k : ~Begins(a[i])
      BY <2>2, <2>3, <2>4, <1>1, <1>2
    <3>2. \A i \in 1 .. Len(a) - k : a[k + i] = r[i]
      <4> SUFFICES ASSUME NEW i \in 1 .. Len(a) - k PROVE a[k + i] = r[i]
        OBVIOUS
      <4>1. i \in 1 .. Len(s) - k /\ k + i \in 1 .. Len(a)
        BY <1>1, <1>2, <2>3, <2>4
      <4> QED BY <4>1, <1>1, <2>2
    <3>3. k \in 0 .. Len(a)
      BY <2>4, <1>2
    <3> QED BY <3>1, <3>2, <3>3 DEF ReplyComes, ReplyFrom
  <2>5. CASE k > Len(a)
    <3>1. \A i \in 1 .. Len(a) : ~Begins(a[i])
      BY <2>2, <2>3, <2>5, <1>1, <1>2
    <3>2. Len(a) \in 0 .. Len(a) /\ Len(a) - Len(a) <= Len(r)
      BY <1>2, <2>3
    <3>3. \A i \in 1 .. Len(a) - Len(a) : FALSE
      BY <1>2
    <3>4. ReplyFrom(a, Len(a), r)
      BY <3>1, <3>2, <3>3 DEF ReplyFrom
    <3> QED BY <3>2, <3>4 DEF ReplyComes
  <2> QED BY <2>3, <2>4, <2>5, <1>2
<1>5. ASSUME NEW r \in Seq(Marks), Leftover(a) PROVE ReplyComes(a, r)
  <2>1. Len(a) \in 0 .. Len(a) /\ Len(a) - Len(a) <= Len(r)
    BY <1>2
  <2>2. \A i \in 1 .. Len(a) - Len(a) : FALSE
    BY <1>2
  <2>3. ReplyFrom(a, Len(a), r)
    BY <1>5, <2>1, <2>2 DEF ReplyFrom, Leftover
  <2> QED BY <2>1, <2>3 DEF ReplyComes
<1>6. ASSUME NEW r \in Seq(Marks), Leftover(a) PROVE ReplyComes(a \o r, r)
  <2> DEFINE t == a \o r
  <2>1. /\ t \in Seq(Marks) /\ Len(t) = Len(a) + Len(r)
        /\ \A i \in 1 .. Len(a) : t[i] = a[i]
        /\ \A i \in 1 .. Len(r) : t[Len(a) + i] = r[i]
    BY MarksJoined
  <2> HIDE DEF t
  <2>2. Len(a) \in 0 .. Len(t) /\ Len(t) - Len(a) = Len(r)
    BY <2>1, <1>2
  <2>3. ReplyFrom(t, Len(a), r)
    BY <1>6, <2>1, <2>2 DEF ReplyFrom, Leftover
  <2> QED BY <2>2, <2>3 DEF ReplyComes, t
<1> QED BY <1>3, <1>4, <1>5, <1>6 DEF s

\* What a script of one command, or of a command after another, is.
LEMMA AskIs ==
  ASSUME NEW a \in PopAsks, NEW b \in PopAsks, NEW c \in PopAsks
  PROVE  /\ <<a>> \in Seq(PopAsks) /\ Len(<<a>>) = 1 /\ <<a>>[1] = a
         /\ <<a>> \o <<b>> = <<a, b>> /\ <<a>> \o (<<b>> \o <<c>>) = <<a, b, c>>
         /\ <<a, b>> \in Seq(PopAsks) /\ Len(<<a, b>>) = 2
         /\ <<a, b>>[1] = a /\ <<a, b>>[2] = b
         /\ <<a, b, c>> \in Seq(PopAsks) /\ Len(<<a, b, c>>) = 3
         /\ <<a, b, c>>[1] = a /\ <<a, b, c>>[2] = b /\ <<a, b, c>>[3] = c
<1>1. /\ <<a>> \in Seq(PopAsks) /\ Len(<<a>>) = 1 /\ <<a>>[1] = a
      /\ <<a, b>> \in Seq(PopAsks) /\ Len(<<a, b>>) = 2
      /\ <<a, b>>[1] = a /\ <<a, b>>[2] = b
      /\ <<a, b, c>> \in Seq(PopAsks) /\ Len(<<a, b, c>>) = 3
      /\ <<a, b, c>>[1] = a /\ <<a, b, c>>[2] = b /\ <<a, b, c>>[3] = c
  OBVIOUS
<1>2. \A s, t \in Seq(PopAsks) :
        /\ s \o t \in Seq(PopAsks) /\ Len(s \o t) = Len(s) + Len(t)
        /\ \A i \in 1 .. Len(s) + Len(t) :
             (s \o t)[i] = IF i <= Len(s) THEN s[i] ELSE t[i - Len(s)]
  BY ConcatProperties
<1>3. \A s, t \in Seq(PopAsks) :
        Len(s) = Len(t) /\ (\A i \in 1 .. Len(s) : s[i] = t[i]) => s = t
  BY SeqEqual
<1>4. <<b>> \in Seq(PopAsks) /\ <<c>> \in Seq(PopAsks) /\ <<b, c>> \in Seq(PopAsks)
      /\ Len(<<b>>) = 1 /\ Len(<<c>>) = 1 /\ Len(<<b, c>>) = 2 /\ <<b>>[1] = b
      /\ <<c>>[1] = c /\ <<b, c>>[1] = b /\ <<b, c>>[2] = c
  OBVIOUS
<1> DEFINE ab == <<a>> \o <<b>>
           bc == <<b>> \o <<c>>
           abc == <<a>> \o <<b, c>>
<1>5. ab = <<a, b>>
  <2>1. /\ ab \in Seq(PopAsks) /\ Len(ab) = 2 /\ ab[1] = a /\ ab[2] = b
    BY <1>1, <1>2, <1>4
  <2> HIDE DEF ab
  <2>2. \A i \in 1 .. 2 : ab[i] = <<a, b>>[i]
    BY <2>1, <1>1
  <2> QED BY <2>1, <2>2, <1>1, <1>3
<1>6. bc = <<b, c>>
  <2>1. /\ bc \in Seq(PopAsks) /\ Len(bc) = 2 /\ bc[1] = b /\ bc[2] = c
    BY <1>2, <1>4
  <2> HIDE DEF bc
  <2>2. \A i \in 1 .. 2 : bc[i] = <<b, c>>[i]
    BY <2>1, <1>4
  <2> QED BY <2>1, <2>2, <1>4, <1>3
<1>7. abc = <<a, b, c>>
  <2>1. /\ abc \in Seq(PopAsks) /\ Len(abc) = 3 /\ abc[1] = a /\ abc[2] = b /\ abc[3] = c
    BY <1>1, <1>2, <1>4
  <2> HIDE DEF abc
  <2>2. \A i \in 1 .. 3 : abc[i] = <<a, b, c>>[i]
    BY <2>1, <1>1
  <2> QED BY <2>1, <2>2, <1>1, <1>3
<1> QED BY <1>1, <1>5, <1>6, <1>7

\* The script of a call.
Scripted(op, m, script) ==
  /\ script \in Seq(PopAsks) /\ Len(script) >= 1
  /\ LastAsk(op, m, script[Len(script)])
  /\ \A i \in 2 .. Len(script) : script[i].say # << >>
\* Every call's script ends with its own command, and all but the first ask begin with one.
LEMMA ScriptIs ==
  ASSUME NEW op \in PopOps \ {"none"}, NEW m \in Nat,
         op \in {"POP3Retr", "POP3Top", "POP3Delete"} => m \in PopMails
  PROVE  /\ Scripted(op, m, PopScript(op, m))
         /\ PopScript(op, m)[1].say = << >> <=> op \in {"ConnectClient", "ConnectEClient"}
<1> DEFINE ask(c, n, response, room) == [say |-> <<c, n>>, want |-> response, room |-> room]
           greeting == [say |-> << >>, want |-> OK, room |-> BigEnough]
<1>1. greeting \in PopAsks /\ greeting.say = << >>
  BY MarksAre DEF PopAsks, BigEnough
<1>2. ASSUME NEW c \in {"USER", "PASS", "QUIT", "RSET"}
      PROVE  ask(c, 0, OK, BigEnough) \in PopAsks /\ ask(c, 0, OK, BigEnough).say # << >>
  BY MarksAre DEF PopAsks, BigEnough, PopSayings
<1>3. ask("LIST", 0, Dot, PopRoom) \in PopAsks /\ ask("LIST", 0, Dot, PopRoom).say # << >>
  BY PopAssumption DEF PopAsks, PopSayings
<1>4. ASSUME NEW c \in {"RETR", "TOP"}, m \in PopMails
      PROVE  ask(c, m, Dot, PopRoom) \in PopAsks /\ ask(c, m, Dot, PopRoom).say # << >>
  BY <1>4, PopAssumption DEF PopAsks, PopSayings
<1>5. ASSUME m \in PopMails
      PROVE  ask("DELE", m, OK, BigEnough) \in PopAsks
             /\ ask("DELE", m, OK, BigEnough).say # << >>
  BY <1>5 DEF PopAsks, BigEnough, PopSayings
<1>6. ASSUME NEW a \in PopAsks, a.say # << >>, LastAsk(op, m, a)
      PROVE  /\ Scripted(op, m, <<a>>) /\ <<a>>[1].say # << >>
             /\ \A b \in PopAsks : Scripted(op, m, <<b, a>>) /\ <<b, a>>[1] = b
             /\ \A b \in PopAsks, c \in PopAsks :
                  b.say # << >> => Scripted(op, m, <<c, b, a>>) /\ <<c, b, a>>[1] = c
  <2>1. Scripted(op, m, <<a>>) /\ <<a>>[1].say # << >>
    BY <1>6 DEF Scripted
  <2>2. ASSUME NEW b \in PopAsks PROVE Scripted(op, m, <<b, a>>) /\ <<b, a>>[1] = b
    BY <1>6 DEF Scripted
  <2>3. ASSUME NEW b \in PopAsks, NEW c \in PopAsks, b.say # << >>
        PROVE  Scripted(op, m, <<c, b, a>>) /\ <<c, b, a>>[1] = c
    <3>1. \A i \in 2 .. 3 : <<c, b, a>>[i].say # << >>
      BY <1>6, <2>3
    <3> QED BY <3>1, <1>6 DEF Scripted
  <2> QED BY <2>1, <2>2, <2>3
<1>7. CASE op = "ConnectClient"
  <2>1. PopScript(op, m) = <<greeting>>
    BY <1>7 DEF PopScript, Greeting
  <2>2. Scripted(op, m, <<greeting>>)
    BY <1>1, <1>7 DEF Scripted, LastAsk
  <2> QED BY <2>1, <2>2, <1>1, <1>7
<1> HIDE DEF greeting
<1>8. CASE op \in {"ConnectEClient", "POP3Login"}
  <2> DEFINE user == ask("USER", 0, OK, BigEnough)
             pass == ask("PASS", 0, OK, BigEnough)
  <2>1. user \in PopAsks /\ pass \in PopAsks /\ user.say # << >> /\ pass.say # << >>
    BY <1>2
  <2>2. LastAsk(op, m, pass)
    BY <1>8, <2>1 DEF LastAsk
  <2>3. POP3Login = <<user>> \o <<pass>>
    BY DEF POP3Login, PopAsk
  <2>4. CASE op = "POP3Login"
    <3>1. PopScript(op, m) = <<user>> \o <<pass>>
      BY <2>3, <2>4 DEF PopScript
    <3> HIDE DEF user, pass
    <3>5. \A a, b \in PopAsks : <<a>> \o <<b>> = <<a, b>>
      BY AskIs
    <3>4. <<user>> \o <<pass>> = <<user, pass>>
      BY <2>1, <3>5, Zenon
    <3>2. PopScript(op, m) = <<user, pass>>
      BY <3>1, <3>4, Zenon
    <3>3. Scripted(op, m, <<user, pass>>) /\ <<user, pass>>[1] = user
      BY <2>1, <2>2, <1>6, Zenon
    <3> QED BY <3>2, <3>3, <2>1, <2>4
  <2>5. CASE op = "ConnectEClient"
    <3>1. PopScript(op, m) = <<greeting>> \o (<<user>> \o <<pass>>)
      BY <2>3, <2>5 DEF PopScript, Greeting, greeting
    <3> HIDE DEF user, pass
    <3>2. PopScript(op, m) = <<greeting, user, pass>>
      BY <3>1, <2>1, <1>1, AskIs
    <3>3. Scripted(op, m, <<greeting, user, pass>>) /\ <<greeting, user, pass>>[1] = greeting
      BY <2>1, <2>2, <1>1, <1>6, Zenon
    <3> QED BY <3>2, <3>3, <2>5, <1>1
  <2> QED BY <2>4, <2>5, <1>8
<1>9. ASSUME NEW a \in PopAsks, a.say # << >>, LastAsk(op, m, a), PopScript(op, m) = <<a>>,
             op \notin {"ConnectClient", "ConnectEClient"}
      PROVE  /\ Scripted(op, m, PopScript(op, m))
             /\ PopScript(op, m)[1].say = << >> <=> op \in {"ConnectClient", "ConnectEClient"}
  BY <1>6, <1>9
<1>10. CASE op = "POP3Logout"
  <2> DEFINE a == ask("QUIT", 0, OK, BigEnough)
  <2>1. a \in PopAsks /\ a.say # << >> /\ PopScript(op, m) = <<a>> /\ LastAsk(op, m, a)
    BY <1>2, <1>10 DEF PopScript, PopAsk, LastAsk
  <2> HIDE DEF a
  <2> QED BY <2>1, <1>9, <1>10
<1>11. CASE op = "POP3RSet"
  <2> DEFINE a == ask("RSET", 0, OK, BigEnough)
  <2>1. a \in PopAsks /\ a.say # << >> /\ PopScript(op, m) = <<a>> /\ LastAsk(op, m, a)
    BY <1>2, <1>11 DEF PopScript, PopAsk, LastAsk
  <2> HIDE DEF a
  <2> QED BY <2>1, <1>9, <1>11
<1>12. CASE op = "POP3Delete"
  <2> DEFINE a == ask("DELE", m, OK, BigEnough)
  <2>1. a \in PopAsks /\ a.say # << >> /\ PopScript(op, m) = <<a>> /\ LastAsk(op, m, a)
    BY <1>5, <1>12 DEF PopScript, PopAsk, LastAsk
  <2> HIDE DEF a
  <2> QED BY <2>1, <1>9, <1>12
<1>13. CASE op = "POP3List"
  <2> DEFINE a == ask("LIST", 0, Dot, PopRoom)
  <2>1. a \in PopAsks /\ a.say # << >> /\ PopScript(op, m) = <<a>> /\ LastAsk(op, m, a)
    BY <1>3, <1>13 DEF PopScript, PopAsk, LastAsk
  <2> HIDE DEF a
  <2> QED BY <2>1, <1>9, <1>13
<1>14. CASE op = "POP3Top"
  <2> DEFINE a == ask("TOP", m, Dot, PopRoom)
  <2>1. a \in PopAsks /\ a.say # << >> /\ PopScript(op, m) = <<a>> /\ LastAsk(op, m, a)
    BY <1>4, <1>14 DEF PopScript, PopAsk, LastAsk
  <2> HIDE DEF a
  <2> QED BY <2>1, <1>9, <1>14
<1>15. CASE op = "POP3Retr"
  <2> DEFINE a == ask("RETR", m, Dot, PopRoom)
  <2>1. a \in PopAsks /\ a.say # << >> /\ PopScript(op, m) = <<a>> /\ LastAsk(op, m, a)
    BY <1>4, <1>15 DEF PopScript, PopAsk, LastAsk
  <2> HIDE DEF a
  <2> QED BY <2>1, <1>9, <1>15
<1> QED BY <1>7, <1>8, <1>10, <1>11, <1>12, <1>13, <1>14, <1>15 DEF PopOps

\* Sequences one after another.
LEMMA MarksInARow == \A s, t, u \in Seq(Marks) : (s \o t) \o u = s \o (t \o u)
BY ConcatAssociative, SMTT(30)

\* Nothing before or after changes nothing.
LEMMA MarksAssociate ==
  /\ \A s, t, u \in Seq(Marks) : (s \o t) \o u = s \o (t \o u)
  /\ \A s \in Seq(Marks) : s \o << >> = s /\ << >> \o s = s
  /\ << >> \in Seq(Marks)
  /\ \A s, t \in Seq(Marks) : s \o t \in Seq(Marks)
<1>1. \A s, t, u \in Seq(Marks) : (s \o t) \o u = s \o (t \o u)
  BY ConcatAssociative, SMTT(30)
<1>2. \A s \in Seq(Marks) : s \o << >> = s /\ << >> \o s = s
  BY ConcatEmptySeq, SMTT(30)
<1> QED BY <1>1, <1>2, MarksJoined

\* The parts of the state, and that what is on its way is a sequence of marks.
LEMMA PopParts ==
  ASSUME PopTyped
  PROVE  /\ pop.buf \in Seq(Marks) /\ box.inbox \in Seq(Marks) /\ box.out \in Seq(Marks)
         /\ pop.buf \o box.inbox \in Seq(Marks) /\ PopStream \in Seq(Marks)
         /\ pop.script \in Seq(PopAsks) /\ pop.op \in PopOps /\ pop.m \in Nat
         /\ pop.pc \in {"idle", "say", "hear"}
<1>1. /\ pop.buf \in Seq(Marks) /\ box.inbox \in Seq(Marks) /\ box.out \in Seq(Marks)
      /\ pop.script \in Seq(PopAsks) /\ pop.op \in PopOps /\ pop.m \in Nat
      /\ pop.pc \in {"idle", "say", "hear"}
  BY DEF PopTyped, PopRecord, Mailbox
<1> QED BY <1>1, MarksAssociate DEF PopStream

\* An action that ends a call.
LEMMA PopIdles ==
  ASSUME PopTyped, NEW c \in PopRecord, NEW res \in BOOLEAN, PopDone(c, res)
  PROVE  /\ pop' \in PopRecord /\ PopScripted(pop')
         /\ pop'.pc = "idle" /\ pop'.script = << >> /\ pop'.buf = << >> /\ pop'.res = res
         /\ pop'.op = c.op /\ pop'.m = c.m /\ pop'.got = c.got /\ pop'.fresh = c.fresh
<1> DEFINE sock == c.sock /\ pop.op # "POP3Logout"
<1>1. sock \in BOOLEAN
  BY DEF PopRecord
<1>2. pop' = [c EXCEPT !.pc = "idle", !.script = << >>, !.buf = << >>, !.res = res,
                       !.sock = sock]
  BY DEF PopDone
<1> HIDE DEF sock
<1>3. << >> \in Seq(Marks) /\ << >> \in Seq(PopAsks) /\ Len(<< >>) = 0
  BY MarksAssociate
<1>4. /\ pop' \in PopRecord
      /\ pop'.pc = "idle" /\ pop'.script = << >> /\ pop'.buf = << >> /\ pop'.res = res
      /\ pop'.op = c.op /\ pop'.m = c.m /\ pop'.got = c.got /\ pop'.fresh = c.fresh
  BY <1>1, <1>2, <1>3 DEF PopRecord
<1>5. PopScripted(pop')
  BY <1>4, <1>3 DEF PopScripted
<1> QED BY <1>4, <1>5

\* A failed call reports nothing.
LEMMA PopFailsKeeps ==
  ASSUME PopInv, NEW c \in PopRecord, PopDone(c, FALSE), UNCHANGED box
  PROVE  PopInv'
<1>1. /\ pop' \in PopRecord /\ PopScripted(pop')
      /\ pop'.pc = "idle" /\ pop'.res = FALSE
  BY PopIdles DEF PopInv
<1>2. PopTyped'
  BY <1>1 DEF PopInv, PopTyped
<1>3. PopAsking' /\ PopWaiting' /\ PopReported'
  BY <1>1 DEF PopAsking, PopWaiting, PopReported
<1> QED BY <1>1, <1>2, <1>3 DEF PopInv

\* Nothing is asked yet.
LEMMA PopInitInv == PopInit => PopInv
<1> SUFFICES ASSUME PopInit PROVE PopInv
  OBVIOUS
<1>1. << >> \in Seq(Marks) /\ << >> \in Seq(PopAsks) /\ << >> \in Seq(PopSayings)
      /\ Len(<< >>) = 0
  BY MarksAssociate
<1>2. pop.pc = "idle" /\ pop.script = << >> /\ pop.buf = << >> /\ pop.res = FALSE
  BY DEF PopInit, PopInitIn
<1>3. PopCalls \in Int
  BY PopAssumption
<1>4. pop \in PopRecord
  BY <1>1, <1>3 DEF PopInit, PopInitIn, PopRecord, PopOps, PopErrors
<1>5. box \in Mailbox
  BY <1>1 DEF PopInit, PopInitIn, Mailbox
<1>6. PopScripted(pop)
  BY <1>1, <1>2 DEF PopScripted
<1>7. PopAsking /\ PopWaiting /\ PopReported
  BY <1>2 DEF PopAsking, PopWaiting, PopReported
<1> QED BY <1>4, <1>5, <1>6, <1>7 DEF PopInv, PopTyped

\* The first of a script.
LEMMA ScriptBegins ==
  ASSUME NEW script \in Seq(PopAsks), Len(script) >= 1
  PROVE  /\ script # << >> /\ Head(script) = script[1] /\ script[1] \in PopAsks
         /\ script[1].room \in Nat
<1>1. Len(<< >>) = 0
  OBVIOUS
<1>2. script # << >>
  BY <1>1
<1>3. Head(script) = script[1] /\ script[1] \in PopAsks
  BY <1>2
<1> QED BY <1>2, <1>3 DEF PopAsks

\* A connection begins with the greeting of the server.
LEMMA PopConnectKeeps ==
  ASSUME PopInv, NEW op \in {"ConnectClient", "ConnectEClient"}, PopConnect(op)
  PROVE  PopInv'
<1> DEFINE left == pop.left - 1
           c == [pop EXCEPT !.op = op, !.error = "none", !.onServer = 0, !.left = left,
                            !.fresh = TRUE]
           script == PopScript(op, 0)
<1>1. left \in Int
  BY DEF PopInv, PopTyped, PopRecord
<1>2. \/ /\ pop' = [c EXCEPT !.pc = "say", !.script = script, !.sock = TRUE]
         /\ box' = [box EXCEPT !.up = TRUE, !.wire = << >>, !.out = <<OK, Rest(0)>>,
                               !.inbox = << >>, !.deleted = {}]
      \/ /\ pop' = [c EXCEPT !.sock = FALSE, !.res = FALSE, !.error = "CONN"]
         /\ box' = [box EXCEPT !.up = FALSE, !.wire = << >>, !.out = << >>]
  BY Zenon DEF PopConnect
<1>3. pop.pc = "idle"
  BY DEF PopConnect, PopAt
<1> HIDE DEF left
<1>4. << >> \in Seq(Marks) /\ << >> \in Seq(PopAsks) /\ << >> \in Seq(PopSayings)
      /\ Len(<< >>) = 0
  BY MarksAssociate
<1>5. c \in PopRecord /\ c.pc = "idle" /\ c.op = op /\ c.m = pop.m /\ c.buf = << >>
      /\ c.script = pop.script
  BY <1>1, <1>3 DEF PopInv, PopTyped, PopRecord, PopErrors, PopOps, PopScripted
<1> HIDE DEF c
<1>6. CASE /\ pop' = [c EXCEPT !.pc = "say", !.script = script, !.sock = TRUE]
           /\ box' = [box EXCEPT !.up = TRUE, !.wire = << >>, !.out = <<OK, Rest(0)>>,
                                 !.inbox = << >>, !.deleted = {}]
  <2>1. Scripted(op, 0, script) /\ script[1].say = << >>
    BY ScriptIs DEF PopOps
  <2> HIDE DEF script
  <2>2. /\ script \in Seq(PopAsks) /\ Len(script) >= 1
        /\ LastAsk(op, 0, script[Len(script)])
        /\ \A i \in 2 .. Len(script) : script[i].say # << >>
    BY <2>1 DEF Scripted
  <2>3. /\ pop' \in PopRecord /\ pop'.pc = "say" /\ pop'.script = script /\ pop'.buf = << >>
        /\ pop'.op = op
    BY <1>5, <1>6, <2>2 DEF PopRecord
  <2>4. ReplyTo(<< >>) = <<OK, Rest(0)>> /\ <<OK, Rest(0)>> \in Seq(Marks)
    BY MarksAre DEF ReplyTo
  <2>5. /\ box' \in Mailbox /\ box'.wire = << >> /\ box'.inbox = << >>
        /\ box'.out = ReplyTo(<< >>)
    BY <1>4, <1>6, <2>4 DEF PopInv, PopTyped, Mailbox
  <2>6. LastAsk(op, pop'.m, script[Len(script)])
    BY <2>2 DEF LastAsk
  <2>7. script # << >> /\ script[1].room \in Nat /\ Head(script) = script[1]
    BY <2>2, ScriptBegins
  <2>8. PopScripted(pop')
    BY <2>2, <2>3, <2>6, <2>7, <1>4 DEF PopScripted
  <2>9. PopAsking'
    <3>1. PopStream' = (<< >> \o << >>) \o ReplyTo(<< >>)
      BY <2>3, <2>5 DEF PopStream
    <3>2. ReplyTo(<< >>) \in Seq(Marks) /\ Leftover(<< >>)
      <4>1. Leftover(<< >>)
        BY <1>4 DEF Leftover
      <4>2. ReplyTo(<< >>) \in Seq(Marks)
        BY <2>4
      <4> QED BY <4>1, <4>2
    <3>3. PopStream' = << >> \o ReplyTo(<< >>)
      BY <3>1, MarksAssociate
    <3>4. ReplyComes(<< >> \o ReplyTo(<< >>), ReplyTo(<< >>))
      BY <3>2, <1>4, PrefixOf
    <3> QED BY <3>3, <3>4, <2>1, <2>3, <2>5, <2>7 DEF PopAsking
  <2>10. PopWaiting' /\ PopReported'
    BY <2>3 DEF PopWaiting, PopReported
  <2> QED BY <2>3, <2>5, <2>8, <2>9, <2>10 DEF PopInv, PopTyped
<1>7. CASE /\ pop' = [c EXCEPT !.sock = FALSE, !.res = FALSE, !.error = "CONN"]
           /\ box' = [box EXCEPT !.up = FALSE, !.wire = << >>, !.out = << >>]
  <2>1. /\ pop' \in PopRecord /\ pop'.pc = "idle" /\ pop'.res = FALSE
        /\ pop'.buf = << >> /\ pop'.script = pop.script
    BY <1>5, <1>7 DEF PopRecord, PopErrors
  <2>2. box' \in Mailbox
    BY <1>4, <1>7 DEF PopInv, PopTyped, Mailbox
  <2>3. PopScripted(pop')
    BY <2>1, <1>3, <1>4 DEF PopScripted, PopInv
  <2>4. PopAsking' /\ PopWaiting' /\ PopReported'
    BY <2>1 DEF PopAsking, PopWaiting, PopReported
  <2> QED BY <2>1, <2>2, <2>3, <2>4 DEF PopInv, PopTyped
<1> QED BY <1>2, <1>6, <1>7

\* A call begins: if no answer is still to come, only what is left of the last can be on its way.
LEMMA CallPopKeeps ==
  ASSUME PopInv, NEW op \in PopOps \ {"none", "ConnectClient", "ConnectEClient"}, NEW m \in Nat,
         op \in {"POP3Retr", "POP3Top", "POP3Delete"} => m \in PopMails, CallPop(op, m)
  PROVE  PopInv'
<1> DEFINE left == pop.left - 1
           script == PopScript(op, m)
           server == IF op = "POP3Login" THEN 0 ELSE pop.onServer
           fresh == Fresh
<1>1. left \in Int /\ server \in Nat
  BY DEF PopInv, PopTyped, PopRecord
<1>2. /\ pop' = [pop EXCEPT !.pc = "say", !.op = op, !.m = m, !.script = script,
                            !.onServer = server, !.left = left, !.fresh = fresh]
      /\ UNCHANGED box /\ pop.pc = "idle"
  BY Zenon DEF CallPop, PopAt
<1>3. fresh \in BOOLEAN
  BY DEF Fresh
<1>4. Scripted(op, m, script) /\ script[1].say # << >>
  BY ScriptIs
<1> HIDE DEF left, server, script, fresh
<1>5. << >> \in Seq(Marks) /\ << >> \in Seq(PopAsks) /\ Len(<< >>) = 0
  BY MarksAssociate
<1>6. /\ script \in Seq(PopAsks) /\ Len(script) >= 1
      /\ LastAsk(op, m, script[Len(script)])
      /\ \A i \in 2 .. Len(script) : script[i].say # << >>
  BY <1>4 DEF Scripted
<1>7. /\ pop' \in PopRecord /\ pop'.pc = "say" /\ pop'.script = script
      /\ pop'.buf = pop.buf /\ pop.buf = << >> /\ pop'.op = op /\ pop'.m = m
      /\ pop'.fresh = fresh
  BY <1>1, <1>2, <1>3, <1>6 DEF PopInv, PopTyped, PopRecord, PopScripted
<1>8. script # << >> /\ script[1].room \in Nat /\ Head(script) = script[1]
  BY <1>6, ScriptBegins
<1>9. PopScripted(pop')
  BY <1>5, <1>6, <1>7, <1>8 DEF PopScripted
<1>10. fresh => box.wire = << >> /\ Leftover(PopStream)
  <2> SUFFICES ASSUME fresh PROVE box.wire = << >> /\ Leftover(PopStream)
    OBVIOUS
  <2> DEFINE s == box.inbox \o box.out
  <2>1. box.wire = << >> /\ \A mark \in Range(s) : mark[1] # "+OK" /\ mark[1] # "-ERR"
    BY DEF Fresh, fresh
  <2>2. s \in Seq(Marks) /\ PopStream = s
    BY <1>7, PopParts, MarksAssociate DEF PopStream, PopInv
  <2>3. DOMAIN s = 1 .. Len(s)
    BY <2>2
  <2>4. \A i \in 1 .. Len(s) : s[i] \in Range(s)
    BY <2>3 DEF Range
  <2> HIDE DEF s
  <2> QED BY <2>1, <2>2, <2>4 DEF Leftover, Begins
<1>11. PopAsking'
  <2>1. PopStream' = PopStream /\ box'.wire = box.wire
    BY <1>2, <1>7 DEF PopStream
  <2>2. Leftover(PopStream) => Leftover(PopStream')
    BY <2>1
  <2> QED BY <2>1, <2>2, <1>4, <1>7, <1>8, <1>10 DEF PopAsking
<1>12. PopWaiting' /\ PopReported'
  BY <1>7 DEF PopWaiting, PopReported
<1> QED BY <1>2, <1>7, <1>9, <1>11, <1>12 DEF PopInv, PopTyped

\* The command is on its way, behind no other.
LEMMA PopSayKeeps ==
  ASSUME PopInv, PopSay
  PROVE  PopInv'
<1> DEFINE c == Head(pop.script).say
<1>1. pop.pc = "say" /\ pop.script # << >> /\ pop.script \in Seq(PopAsks)
      /\ Head(pop.script) = pop.script[1] /\ Head(pop.script) \in PopAsks
  BY DEF PopSay, PopAt, PopInv, PopScripted, PopTyped, PopRecord
<1>4. c # << >> => c \in PopSayings
  BY <1>1 DEF PopAsks
<1>2. CASE /\ box' = IF c = << >> THEN box ELSE [box EXCEPT !.wire = Append(@, c)]
           /\ pop' = [pop EXCEPT !.pc = "hear"]
  <2>1. /\ pop' \in PopRecord /\ pop'.pc = "hear" /\ pop'.script = pop.script
        /\ pop'.buf = pop.buf /\ pop'.op = pop.op /\ pop'.m = pop.m /\ pop'.fresh = pop.fresh
    BY <1>2 DEF PopInv, PopTyped, PopRecord
  <2>2. PopScripted(pop')
    <3>1. PopScripted(pop)
      BY DEF PopInv
    <3>2. pop.pc # "idle" /\ Len(pop.buf) <= pop.script[1].room
      BY <3>1, <1>1 DEF PopScripted
    <3> QED BY <3>1, <3>2, <2>1 DEF PopScripted
  <2>3. /\ box' \in Mailbox /\ box'.inbox = box.inbox /\ box'.out = box.out
        /\ c = << >> => box'.wire = box.wire
        /\ c # << >> /\ box.wire = << >> => box'.wire = <<c>>
    <3> HIDE DEF c
    <3>1. Append(<< >>, c) = <<c>>
      OBVIOUS
    <3>2. CASE c = << >>
      BY <1>2, <3>2 DEF PopInv, PopTyped, Mailbox
    <3>3. CASE c # << >>
      <4>1. c \in PopSayings /\ box' = [box EXCEPT !.wire = Append(box.wire, c)]
        BY <1>4, <1>2, <3>3
      <4> DEFINE w == Append(box.wire, c)
      <4>3. box.wire \in Seq(PopSayings) /\ box \in Mailbox
        BY DEF PopInv, PopTyped, Mailbox
      <4>4. w \in Seq(PopSayings) /\ box' = [box EXCEPT !.wire = w]
        BY <4>1, <4>3
      <4>5. box.wire = << >> => w = <<c>>
        BY <3>1
      <4> HIDE DEF w
      <4>6. box' \in Mailbox /\ box'.inbox = box.inbox /\ box'.out = box.out /\ box'.wire = w
        BY <4>3, <4>4 DEF Mailbox
      <4> QED BY <4>5, <4>6, <3>3
    <3> QED BY <3>2, <3>3
  <2>4. PopStream' = PopStream
    BY <2>1, <2>3 DEF PopStream
  <2>5. PopWaiting'
    <3> SUFFICES ASSUME pop.fresh
                 PROVE  \/ c # << >> /\ box'.wire = <<c>> /\ Leftover(PopStream')
                        \/ /\ box'.wire = << >> /\ ReplyComes(PopStream', ReplyTo(c))
                           /\ c = << >>
      BY <2>1 DEF PopWaiting
    <3>1. box.wire = << >>
          /\ IF c = << >> THEN ReplyComes(PopStream, ReplyTo(<< >>)) ELSE Leftover(PopStream)
      <4>1. pop.pc = "say"
        BY <1>1
      <4> QED BY <4>1 DEF PopInv, PopAsking
    <3>2. CASE c = << >>
      <4>1. ReplyComes(PopStream, ReplyTo(c)) /\ box'.wire = << >>
        BY <3>1, <3>2, <2>3
      <4> QED BY <4>1, <3>2, <2>4
    <3>3. CASE c # << >>
      BY <3>1, <3>3, <2>3, <2>4
    <3> QED BY <3>2, <3>3
  <2>6. PopAsking' /\ PopReported'
    BY <2>1 DEF PopAsking, PopReported
  <2> QED BY <2>1, <2>2, <2>3, <2>5, <2>6 DEF PopInv, PopTyped
<1>3. CASE PopDone([pop EXCEPT !.sock = FALSE], FALSE) /\ UNCHANGED box
  <2>1. [pop EXCEPT !.sock = FALSE] \in PopRecord
    BY DEF PopInv, PopTyped, PopRecord
  <2> QED BY <2>1, <1>3, PopFailsKeeps
<1> QED BY <1>2, <1>3 DEF PopSay

\* What is read out of a reply.
LEMMA ReadOut ==
  ASSUME NEW b \in Seq(Marks)
  PROVE  /\ NumberIn(b) \in Nat
         /\ At(AfterOK(b), Dot) # {} => PopRetrieved(b) \in Seq(Marks)
<1>1. DOMAIN b = 1 .. Len(b) /\ Len(b) \in Nat /\ \A i \in 1 .. Len(b) : b[i] \in Marks
  OBVIOUS
<1>2. NumberIn(b) \in Nat
  <2> DEFINE T == {i \in DOMAIN b : b[i][1] = "rest"}
  <2>1. CASE T = {}
    BY <2>1 DEF NumberIn
  <2>2. CASE T # {}
    <3>1. T \subseteq Nat /\ T \subseteq 1 .. Len(b)
      BY <1>1
    <3>2. NumberIn(b) = b[Min(T)][2]
      BY <2>2 DEF NumberIn
    <3> HIDE DEF T
    <3>3. Min(T) \in T
      BY <2>2, <3>1, MinIs
    <3>4. b[Min(T)] \in Marks
      BY <1>1, <3>1, <3>3
    <3>5. \A mark \in Marks : mark[2] \in Nat
      BY DEF Marks
    <3> QED BY <3>2, <3>4, <3>5
  <2> QED BY <2>1, <2>2
<1>3. ASSUME At(AfterOK(b), Dot) # {} PROVE PopRetrieved(b) \in Seq(Marks)
  <2> DEFINE a == AfterOK(b)
  <2>1. PICK j \in 1 .. Len(b) : a = From(b, j)
    BY <1>3, AfterOKIs
  <2>2. j - 1 \in 0 .. Len(b) /\ (j - 1) + 1 = j
    BY <1>1
  <2>3. From(b, (j - 1) + 1) \in Seq(Marks)
    BY <2>2, MarksCut
  <2>4. a \in Seq(Marks)
    BY <2>1, <2>2, <2>3
  <2> HIDE DEF a
  <2>5. At(a, Dot) \subseteq 1 .. Len(a) /\ Len(a) \in Nat
    BY <2>4 DEF At
  <2>6. At(a, Dot) # {} /\ At(a, Dot) \subseteq Nat
    BY <2>5, <1>3 DEF a
  <2>7. Min(At(a, Dot)) \in 1 .. Len(a)
    BY <2>5, <2>6, MinIs
  <2>8. Min(At(a, Dot)) - 1 \in 0 .. Len(a)
    BY <2>5, <2>7
  <2>9. SubSeq(a, 1, Min(At(a, Dot)) - 1) \in Seq(Marks)
    BY <2>4, <2>8, MarksCut
  <2> QED BY <2>9 DEF PopRetrieved, a
<1> QED BY <1>2, <1>3

\* The reply to RETR and TOP ends with the line with the dot, and has no other.
LEMMA MailReply ==
  ASSUME NEW c \in {"RETR", "TOP"}, NEW m \in PopMails
  PROVE  LET r == ReplyTo(<<c, m>>)
         IN  /\ \A i \in 1 .. Len(r) : r[i] = Dot <=> i = Len(r)
             /\ SubSeq(r, 1, Len(r) - 1) = <<OK, Rest(m)>> \o MailLines(m)
<1> DEFINE h == <<OK, Rest(m)>>
           a == h \o MailLines(m)
           d == <<Dot>>
           r == ReplyTo(<<c, m>>)
<1>1. PopLines[m] \in Nat /\ m \in Nat
  BY PopAssumption DEF PopMails
<1>2. h \in Seq(Marks) /\ Len(h) = 2 /\ h[1] # Dot /\ h[2] # Dot
  BY <1>1, MarksAre
<1>3. MailLines(m) \in Seq(Marks) /\ \A i \in 1 .. Len(MailLines(m)) : MailLines(m)[i] # Dot
  BY <1>1, MarksAre DEF MailLines
<1>4. d \in Seq(Marks) /\ Len(d) = 1 /\ d[1] = Dot
  BY MarksAre
<1>5. r = a \o d
  BY DEF ReplyTo, PopReply
<1> DEFINE l == MailLines(m)
<1> HIDE DEF h, d, r, l
<1>6. /\ a \in Seq(Marks) /\ Len(a) = Len(h) + Len(l)
      /\ \A i \in 1 .. Len(h) : a[i] = h[i]
      /\ \A i \in 1 .. Len(l) : a[Len(h) + i] = l[i]
  <2>1. h \in Seq(Marks) /\ l \in Seq(Marks)
    BY <1>2, <1>3 DEF l
  <2>2. a = h \o l
    BY DEF l
  <2> QED BY <2>1, <2>2, MarksJoined
<1>7. Len(l) \in Nat /\ \A i \in 1 .. Len(l) : l[i] # Dot
  BY <1>3 DEF l
<1> HIDE DEF a
<1>8. /\ r \in Seq(Marks) /\ Len(r) = Len(a) + Len(d)
      /\ \A i \in 1 .. Len(a) : r[i] = a[i]
      /\ \A i \in 1 .. Len(d) : r[Len(a) + i] = d[i]
  BY <1>4, <1>5, <1>6, MarksJoined
<1>9. Len(a) \in Nat /\ Len(a) = 2 + Len(l) /\ Len(r) = Len(a) + 1
  BY <1>2, <1>4, <1>6, <1>7, <1>8
<1>10. \A i \in 1 .. Len(a) : r[i] # Dot /\ r[i] = a[i]
  <2> SUFFICES ASSUME NEW i \in 1 .. Len(a) PROVE r[i] # Dot /\ r[i] = a[i]
    OBVIOUS
  <2>1. r[i] = a[i]
    BY <1>8
  <2>2. CASE i \in 1 .. 2
    BY <2>1, <2>2, <1>2, <1>6
  <2>3. CASE i > 2
    <3>1. i - 2 \in 1 .. Len(l) /\ Len(h) + (i - 2) = i
      BY <2>3, <1>2, <1>9
    <3>2. a[i] = l[i - 2]
      BY <3>1, <1>6
    <3> QED BY <2>1, <3>1, <3>2, <1>7
  <2> QED BY <2>1, <2>2, <2>3, <1>9
<1>11. r[Len(r)] = Dot
  BY <1>4, <1>8, <1>9
<1>12. SubSeq(r, 1, Len(r) - 1) = a
  <2>1. Len(a) \in 0 .. Len(r) /\ Len(r) - 1 = Len(a)
    BY <1>9
  <2>2. /\ SubSeq(r, 1, Len(a)) \in Seq(Marks) /\ Len(SubSeq(r, 1, Len(a))) = Len(a)
        /\ \A i \in 1 .. Len(a) : SubSeq(r, 1, Len(a))[i] = r[i]
    BY <1>8, <2>1, MarksCut
  <2>3. SubSeq(r, 1, Len(a)) = a
    <3> DEFINE b == SubSeq(r, 1, Len(a))
    <3>1. b \in Seq(Marks) /\ Len(b) = Len(a) /\ \A i \in 1 .. Len(b) : b[i] = a[i]
      BY <2>2, <1>10
    <3> HIDE DEF b
    <3>2. b = a
      BY <3>1, <1>6, SeqEqual
    <3> QED BY <3>2 DEF b
  <2> QED BY <2>1, <2>3
<1>13. \A i \in 1 .. Len(r) : r[i] = Dot <=> i = Len(r)
  BY <1>9, <1>10, <1>11
<1> QED BY <1>12, <1>13 DEF a, h, r

\* What is taken into the buffer is only moved.
LEMMA HeardStream ==
  ASSUME PopTyped, NEW n \in 0 .. Len(box.inbox)
  PROVE  LET b == pop.buf \o SubSeq(box.inbox, 1, n)
             rest == From(box.inbox, n + 1)
         IN  /\ b \in Seq(Marks) /\ rest \in Seq(Marks) /\ rest \o box.out \in Seq(Marks)
             /\ (b \o rest) \o box.out = PopStream
             /\ b \o (rest \o box.out) = PopStream
             /\ (<< >> \o rest) \o box.out = rest \o box.out
             /\ Len(b) = Len(pop.buf) + n
<1> DEFINE a == SubSeq(box.inbox, 1, n)
           rest == From(box.inbox, n + 1)
           b == pop.buf \o a
<1>1. pop.buf \in Seq(Marks) /\ box.inbox \in Seq(Marks) /\ box.out \in Seq(Marks)
  BY PopParts
<1>2. a \in Seq(Marks) /\ rest \in Seq(Marks) /\ Len(a) = n /\ a \o rest = box.inbox
  BY <1>1, MarksCut
<1> HIDE DEF a, rest
<1>3. b \in Seq(Marks) /\ Len(b) = Len(pop.buf) + Len(a)
  BY <1>1, <1>2, MarksJoined
<1>4. b \o rest = pop.buf \o (a \o rest)
  <2>1. pop.buf \in Seq(Marks) /\ a \in Seq(Marks) /\ rest \in Seq(Marks)
    BY <1>1, <1>2
  <2> QED BY <2>1, MarksInARow, Zenon
<1>5. (b \o rest) \o box.out = PopStream
  BY <1>2, <1>4 DEF PopStream
<1> HIDE DEF b
<1>6. b \o (rest \o box.out) = (b \o rest) \o box.out
  <2>1. b \in Seq(Marks) /\ rest \in Seq(Marks) /\ box.out \in Seq(Marks)
    BY <1>1, <1>2, <1>3
  <2>2. (b \o rest) \o box.out = b \o (rest \o box.out)
    BY <2>1, MarksInARow, Zenon
  <2> QED BY <2>2
<1>7. << >> \o rest = rest /\ rest \o box.out \in Seq(Marks)
  BY <1>1, <1>2, MarksAssociate
<1> QED BY <1>2, <1>3, <1>5, <1>6, <1>7 DEF a, b, rest

\* A reply that is taken is the command's own, and what comes after it begins no other.
LEMMA PopHearsKeeps ==
  ASSUME PopInv, PopHears
  PROVE  PopInv'
<1> DEFINE ask == Head(pop.script)
           n == Min({ask.room - Len(pop.buf), Len(box.inbox)})
           b == pop.buf \o SubSeq(box.inbox, 1, n)
           rest == From(box.inbox, n + 1)
<1>1. /\ pop.pc = "hear" /\ pop.script # << >> /\ pop.script \in Seq(PopAsks)
      /\ Len(pop.script) >= 1 /\ ask = pop.script[1] /\ ask \in PopAsks
      /\ Len(pop.buf) <= ask.room /\ ask.room \in Nat
  <2>1. pop.pc = "hear" /\ pop.script # << >> /\ pop.script \in Seq(PopAsks)
        /\ Len(pop.buf) <= pop.script[1].room
    BY DEF PopHears, PopAt, PopInv, PopScripted, PopTyped, PopRecord
  <2>2. Len(pop.script) >= 1
    BY <2>1
  <2> QED BY <2>1, <2>2, ScriptBegins
<1>2. PopTyped /\ Len(pop.buf) \in Nat /\ Len(box.inbox) \in Nat
  BY PopParts DEF PopInv
<1>3. n \in 0 .. Len(box.inbox) /\ Len(pop.buf) + n <= ask.room
  <2> DEFINE x == ask.room - Len(pop.buf)
             y == Len(box.inbox)
  <2>1. x \in Nat /\ y \in Nat
    BY <1>1, <1>2
  <2>2. n = Min({x, y})
    OBVIOUS
  <2>3. x + Len(pop.buf) = ask.room
    BY <1>1, <1>2
  <2> HIDE DEF x, y, n
  <2>4. {x, y} \subseteq Nat /\ {x, y} # {}
    BY <2>1
  <2>5. n \in {x, y} /\ n <= x /\ n <= y
    BY <2>2, <2>4, MinIs
  <2> QED BY <2>1, <2>3, <2>5, <1>1, <1>2 DEF y
<1>4. /\ box' = [box EXCEPT !.inbox = rest]
      /\ IF Ended(b) # {}
         THEN IF Len(pop.script) = 1 THEN Succeeds(b)
              ELSE pop' = [pop EXCEPT !.pc = "say", !.script = Tail(@), !.buf = << >>]
         ELSE IF Len(b) = ask.room THEN PopFails("BUFOVER")
         ELSE pop' = [pop EXCEPT !.buf = b]
  BY Zenon DEF PopHears
<1> HIDE DEF n
<1>5. /\ b \in Seq(Marks) /\ rest \in Seq(Marks) /\ rest \o box.out \in Seq(Marks)
      /\ (b \o rest) \o box.out = PopStream
      /\ b \o (rest \o box.out) = PopStream
      /\ (<< >> \o rest) \o box.out = rest \o box.out
      /\ Len(b) = Len(pop.buf) + n
  BY <1>2, <1>3, HeardStream
<1> HIDE DEF b, rest
<1>6. /\ box' \in Mailbox /\ box'.inbox = rest /\ box'.wire = box.wire /\ box'.out = box.out
      /\ box'.own = box.own /\ box'.deleted = box.deleted
  BY <1>2, <1>4, <1>5 DEF PopTyped, Mailbox
<1>7. ASSUME Ended(b) # {}, pop.fresh
      PROVE  /\ box.wire = << >> /\ Leftover(rest \o box.out)
             /\ ask.say # << >> => DoneFor(ask.say, box)
             /\ \A c \in {"RETR", "TOP"}, m \in PopMails :
                  ask.want = Dot /\ ask.say = <<c, m>> =>
                    PopRetrieved(b) = <<OK, Rest(m)>> \o MailLines(m)
  <2> DEFINE r == ReplyTo(ask.say)
  <2>1. At(AfterOK(b), ask.want) # {}
    BY <1>7 DEF Ended
  <2>2. /\ ~Leftover(PopStream)
        /\ ~ReplyComes(PopStream, <<ERR>>)
        /\ \A q \in Seq(Marks) :
             q[1] = OK /\ (\A i \in 2 .. Len(q) : ~Begins(q[i])) /\ ReplyComes(PopStream, q) =>
               /\ Leftover(rest \o box.out)
               /\ ask.want = Dot /\ (\A i \in 1 .. Len(q) : q[i] = Dot <=> i = Len(q)) =>
                    PopRetrieved(b) = SubSeq(q, 1, Len(q) - 1)
    <3> DEFINE u == rest \o box.out
               want == ask.want
    <3>1. b \in Seq(Marks) /\ u \in Seq(Marks) /\ At(AfterOK(b), want) # {} /\ b \o u = PopStream
      BY <1>5, <2>1
    <3> HIDE DEF u, want
    <3>2. /\ ~Leftover(b \o u)
          /\ ~ReplyComes(b \o u, <<ERR>>)
          /\ \A q \in Seq(Marks) :
               q[1] = OK /\ (\A i \in 2 .. Len(q) : ~Begins(q[i])) /\ ReplyComes(b \o u, q) =>
                 /\ Leftover(u)
                 /\ want = Dot /\ (\A i \in 1 .. Len(q) : q[i] = Dot <=> i = Len(q)) =>
                      PopRetrieved(b) = SubSeq(q, 1, Len(q) - 1)
      BY <3>1, HeardReply
    <3> QED BY <3>1, <3>2 DEF u, want
  <2>3. /\ box.wire = << >> /\ ReplyComes(PopStream, r)
        /\ ask.say # << >> => DoneFor(ask.say, box)
    BY <2>2, <1>1, <1>7 DEF PopInv, PopWaiting
  <2>4. ask.say \in PopSayings \cup {<< >>}
    BY <1>1 DEF PopAsks
  <2>5. /\ r \in Seq(Marks) /\ Len(r) >= 1 /\ r[1] = OK
        /\ \A i \in 2 .. Len(r) : ~Begins(r[i])
    BY <2>4, ReplyIs
  <2> HIDE DEF r
  <2>6. /\ Leftover(rest \o box.out)
        /\ ask.want = Dot /\ (\A i \in 1 .. Len(r) : r[i] = Dot <=> i = Len(r)) =>
             PopRetrieved(b) = SubSeq(r, 1, Len(r) - 1)
    BY <2>2, <2>3, <2>5
  <2>7. ASSUME ask.want = Dot, NEW c \in {"RETR", "TOP"}, NEW m \in PopMails, ask.say = <<c, m>>
        PROVE  PopRetrieved(b) = <<OK, Rest(m)>> \o MailLines(m)
    <3>1. r = ReplyTo(<<c, m>>)
      BY <2>7 DEF r
    <3>2. /\ \A i \in 1 .. Len(r) : r[i] = Dot <=> i = Len(r)
          /\ SubSeq(r, 1, Len(r) - 1) = <<OK, Rest(m)>> \o MailLines(m)
      BY <3>1, MailReply
    <3> QED BY <3>2, <2>6, <2>7
  <2> QED BY <2>3, <2>6, <2>7
<1>8. CASE Ended(b) # {} /\ Len(pop.script) = 1
  <2> DEFINE server == IF pop.op \in {"POP3Login", "ConnectEClient"} THEN NumberIn(b) ELSE pop.onServer
             gotten == IF ask.want = Dot THEN PopRetrieved(b) ELSE << >>
             c == [pop EXCEPT !.onServer = server, !.got = gotten]
  <2>1. server \in Nat /\ gotten \in Seq(Marks)
    <3>1. pop.onServer \in Nat /\ << >> \in Seq(Marks)
      BY <1>2, MarksAssociate DEF PopTyped, PopRecord
    <3>2. ask.want = Dot => PopRetrieved(b) \in Seq(Marks)
      BY <1>5, <1>8, ReadOut DEF Ended
    <3>3. NumberIn(b) \in Nat
      BY <1>5, ReadOut
    <3> QED BY <3>1, <3>2, <3>3
  <2>2. PopDone(c, TRUE)
    BY <1>4, <1>8, Zenon DEF Succeeds
  <2>3. ask.want = Dot => gotten = PopRetrieved(b)
    OBVIOUS
  <2> HIDE DEF server, gotten
  <2>4. c \in PopRecord /\ c.op = pop.op /\ c.m = pop.m /\ c.fresh = pop.fresh /\ c.got = gotten
    BY <1>2, <2>1 DEF PopTyped, PopRecord
  <2> HIDE DEF c
  <2>5. /\ pop' \in PopRecord /\ PopScripted(pop')
        /\ pop'.pc = "idle" /\ pop'.op = pop.op /\ pop'.m = pop.m /\ pop'.got = gotten
        /\ pop'.fresh = pop.fresh
    BY <1>2, <2>2, <2>4, PopIdles
  <2>6. LastAsk(pop.op, pop.m, ask)
    BY <1>1, <1>8 DEF PopInv, PopScripted
  <2>7. ASSUME pop.fresh, pop.op # "ConnectClient"
        PROVE  /\ box'.wire = << >> /\ box'.own
               /\ pop.op = "POP3Delete" => pop.m \in box'.deleted
               /\ pop.op \in {"POP3Retr", "POP3Top"} => gotten = <<OK, Rest(pop.m)>> \o MailLines(pop.m)
    <3>1. ask.say # << >>
      BY <2>6, <2>7 DEF LastAsk
    <3>2. box.wire = << >> /\ box.own /\ (ask.say[1] = "DELE" => ask.say[2] \in box.deleted)
      BY <3>1, <1>7, <1>8, <2>7 DEF DoneFor
    <3>3. pop.op = "POP3Delete" => pop.m \in box.deleted
      BY <3>2, <2>6 DEF LastAsk
    <3>4. ASSUME pop.op \in {"POP3Retr", "POP3Top"}
          PROVE  gotten = <<OK, Rest(pop.m)>> \o MailLines(pop.m)
      <4>1. CASE pop.op = "POP3Retr"
        <5>1. ask.say = <<"RETR", pop.m>> /\ pop.m \in PopMails /\ ask.want = Dot
          BY <2>6, <4>1 DEF LastAsk
        <5> QED BY <5>1, <1>7, <1>8, <2>3, <2>7
      <4>2. CASE pop.op = "POP3Top"
        <5>1. ask.say = <<"TOP", pop.m>> /\ pop.m \in PopMails /\ ask.want = Dot
          BY <2>6, <4>2 DEF LastAsk
        <5> QED BY <5>1, <1>7, <1>8, <2>3, <2>7
      <4> QED BY <3>4, <4>1, <4>2
    <3> QED BY <3>2, <3>3, <3>4, <1>6
  <2>8. PopReported'
    BY <2>5, <2>7 DEF PopReported
  <2>9. PopAsking' /\ PopWaiting'
    BY <2>5 DEF PopAsking, PopWaiting
  <2> QED BY <1>6, <2>5, <2>8, <2>9 DEF PopInv, PopTyped
<1>9. CASE Ended(b) # {} /\ Len(pop.script) # 1
  <2> DEFINE script == Tail(pop.script)
  <2>1. pop' = [pop EXCEPT !.pc = "say", !.script = script, !.buf = << >>]
    BY <1>4, <1>9
  <2>2. /\ script \in Seq(PopAsks) /\ Len(script) + 1 = Len(pop.script) /\ Len(script) >= 1
        /\ \A i \in 1 .. Len(script) : script[i] = pop.script[i + 1]
    <3>1. script \in Seq(PopAsks) /\ Len(script) = Len(pop.script) - 1
          /\ \A i \in 1 .. Len(script) : script[i] = pop.script[i + 1]
      BY <1>1, HeadTailProperties
    <3>2. Len(pop.script) \in Nat /\ Len(pop.script) >= 1 /\ Len(pop.script) # 1
      BY <1>1, <1>9
    <3> HIDE DEF script
    <3>3. Len(script) \in Nat
      BY <3>1
    <3>4. Len(script) + 1 = Len(pop.script)
      BY <3>1, <3>2, <3>3
    <3>5. Len(script) >= 1
      <4>1. ASSUME NEW x \in Nat, NEW y \in Nat, x + 1 = y, y # 1 PROVE x >= 1
        BY <4>1
      <4> QED BY <3>2, <3>3, <3>4, <4>1
    <3> QED BY <3>1, <3>4, <3>5
  <2> HIDE DEF script
  <2>3. /\ pop' \in PopRecord /\ pop'.pc = "say" /\ pop'.script = script /\ pop'.buf = << >>
        /\ pop'.op = pop.op /\ pop'.m = pop.m /\ pop'.fresh = pop.fresh
    BY <1>2, <2>1, <2>2, MarksAssociate DEF PopTyped, PopRecord
  <2>4. /\ script # << >> /\ Head(script) = script[1] /\ script[1] \in PopAsks
        /\ script[1].room \in Nat
    BY <2>2, ScriptBegins
  <2>5. /\ LastAsk(pop.op, pop.m, script[Len(script)])
        /\ \A i \in 1 .. Len(script) : script[i].say # << >>
    <3>1. /\ LastAsk(pop.op, pop.m, pop.script[Len(pop.script)])
          /\ \A i \in 2 .. Len(pop.script) : pop.script[i].say # << >>
      BY <1>1 DEF PopInv, PopScripted
    <3>2. Len(script) \in Nat /\ script[Len(script)] = pop.script[Len(pop.script)]
      BY <2>2
    <3>3. \A i \in 1 .. Len(script) : i + 1 \in 2 .. Len(pop.script)
      BY <2>2, <3>2
    <3> QED BY <3>1, <3>2, <3>3, <2>2
  <2>6. PopScripted(pop')
    <3>1. Len(<< >>) = 0
      OBVIOUS
    <3>2. \A i \in 2 .. Len(script) : script[i].say # << >>
      BY <2>5
    <3> QED BY <3>1, <3>2, <2>3, <2>4, <2>5 DEF PopScripted
  <2>7. PopAsking'
    <3>1. PopStream' = rest \o box.out
      BY <1>5, <1>6, <2>3 DEF PopStream
    <3>2. pop.fresh => box'.wire = << >> /\ Leftover(PopStream')
      BY <3>1, <1>6, <1>7, <1>9
    <3>3. Head(pop'.script).say # << >>
      BY <2>2, <2>3, <2>4, <2>5
    <3> QED BY <3>2, <3>3, <2>3 DEF PopAsking
  <2>8. PopWaiting' /\ PopReported'
    BY <2>3 DEF PopWaiting, PopReported
  <2> QED BY <1>6, <2>3, <2>6, <2>7, <2>8 DEF PopInv, PopTyped
<1>10. CASE Ended(b) = {} /\ Len(b) = ask.room
  <2> DEFINE error == PopError("BUFOVER")
             c == [pop EXCEPT !.error = error, !.got = << >>]
  <2>1. error \in PopErrors
    BY <1>2 DEF PopError, PopTyped, PopRecord, PopErrors
  <2>2. PopDone(c, FALSE)
    BY <1>4, <1>10 DEF PopFails
  <2> HIDE DEF error
  <2>3. c \in PopRecord
    BY <1>2, <2>1, MarksAssociate DEF PopTyped, PopRecord
  <2>4. pop' \in PopRecord /\ PopScripted(pop') /\ pop'.pc = "idle" /\ pop'.res = FALSE
    BY <1>2, <2>2, <2>3, PopIdles
  <2>5. PopAsking' /\ PopWaiting' /\ PopReported'
    BY <2>4 DEF PopAsking, PopWaiting, PopReported
  <2> QED BY <1>6, <2>4, <2>5 DEF PopInv, PopTyped
<1>11. CASE Ended(b) = {} /\ Len(b) # ask.room
  <2>1. pop' = [pop EXCEPT !.buf = b]
    BY <1>4, <1>11
  <2>2. /\ pop' \in PopRecord /\ pop'.pc = "hear" /\ pop'.script = pop.script /\ pop'.buf = b
        /\ pop'.op = pop.op /\ pop'.m = pop.m /\ pop'.fresh = pop.fresh
    BY <1>1, <1>2, <1>5, <2>1 DEF PopTyped, PopRecord
  <2>3. PopScripted(pop')
    <3>1. Len(b) <= pop.script[1].room
      BY <1>1, <1>3, <1>5
    <3>2. PopScripted(pop) /\ pop.pc # "idle"
      BY <1>1 DEF PopInv
    <3> QED BY <3>1, <3>2, <2>2 DEF PopScripted
  <2>4. PopStream' = PopStream
    BY <1>5, <1>6, <2>2 DEF PopStream
  <2>5. PopWaiting'
    <3> DEFINE say == ask.say
    <3> SUFFICES ASSUME pop.fresh
                 PROVE  \/ say # << >> /\ box'.wire = <<say>> /\ Leftover(PopStream')
                        \/ box'.wire = << >> /\ ReplyComes(PopStream', <<ERR>>)
                        \/ /\ box'.wire = << >> /\ ReplyComes(PopStream', ReplyTo(say))
                           /\ say # << >> => DoneFor(say, box')
      BY <2>2 DEF PopWaiting
    <3>1. DoneFor(say, box) => DoneFor(say, box')
      BY <1>6 DEF DoneFor
    <3>2. \/ say # << >> /\ box.wire = <<say>> /\ Leftover(PopStream)
          \/ box.wire = << >> /\ ReplyComes(PopStream, <<ERR>>)
          \/ /\ box.wire = << >> /\ ReplyComes(PopStream, ReplyTo(say))
             /\ say # << >> => DoneFor(say, box)
      <4>1. pop.pc = "hear"
        BY <1>1
      <4> QED BY <4>1 DEF PopInv, PopWaiting
    <3> HIDE DEF say
    <3> QED BY <3>1, <3>2, <2>4, <1>6
  <2>6. PopAsking' /\ PopReported'
    BY <2>2 DEF PopAsking, PopReported
  <2> QED BY <1>6, <2>2, <2>3, <2>5, <2>6 DEF PopInv, PopTyped
<1> QED BY <1>8, <1>9, <1>10, <1>11

\* A call that gives up fails.
LEMMA PopGivesUpKeeps ==
  ASSUME PopInv, PopTimesOut \/ PopHearsEnd
  PROVE  PopInv'
<1>1. pop \in PopRecord /\ << >> \in Seq(Marks)
  BY MarksAssociate DEF PopInv, PopTyped
<1>2. \A e \in PopErrors : PopError(e) \in PopErrors
  BY <1>1 DEF PopError, PopRecord
<1>3. ASSUME NEW e \in PopErrors, PopFails(e), UNCHANGED box
      PROVE  PopInv'
  <2> DEFINE error == PopError(e)
             c == [pop EXCEPT !.error = error, !.got = << >>]
  <2>1. error \in PopErrors
    BY <1>2
  <2>2. PopDone(c, FALSE)
    BY <1>3 DEF PopFails
  <2> HIDE DEF error
  <2>3. c \in PopRecord
    BY <1>1, <2>1 DEF PopRecord
  <2> QED BY <1>3, <2>2, <2>3, PopFailsKeeps
<1>4. CASE PopTimesOut
  <2>1. PopFails("REQ_TIMEOUT") /\ UNCHANGED box
    BY <1>4 DEF PopTimesOut
  <2> QED BY <2>1, <1>3 DEF PopErrors
<1>5. CASE PopHearsEnd
  <2>1. CASE PopFails("DISCONNECTED") /\ UNCHANGED box
    BY <2>1, <1>3 DEF PopErrors
  <2>2. CASE PopDone([pop EXCEPT !.sock = FALSE, !.error = PopError("RECEIVE"), !.got = << >>],
                     FALSE) /\ UNCHANGED box
    <3> DEFINE error == PopError("RECEIVE")
               c == [pop EXCEPT !.sock = FALSE, !.error = error, !.got = << >>]
    <3>1. error \in PopErrors
      BY <1>2 DEF PopErrors
    <3>2. PopDone(c, FALSE)
      BY <2>2
    <3> HIDE DEF error
    <3>3. c \in PopRecord
      BY <1>1, <3>1 DEF PopRecord
    <3> QED BY <2>2, <3>2, <3>3, PopFailsKeeps
  <2> QED BY <1>5, <2>1, <2>2 DEF PopHearsEnd
<1> QED BY <1>4, <1>5

\* The client's part of the invariant, when only the connection changes.
LEMMA BoxKeeps ==
  ASSUME PopInv, UNCHANGED pop, box' \in Mailbox,
         pop.pc = "say" /\ pop.fresh =>
           /\ box'.wire = << >>
           /\ Leftover(PopStream) => Leftover(PopStream')
           /\ ReplyComes(PopStream, ReplyTo(<< >>)) => ReplyComes(PopStream', ReplyTo(<< >>)),
         pop.pc = "hear" /\ pop.fresh => PopWaiting',
         pop.pc = "idle" /\ box.wire = << >> /\ box.own =>
           box'.wire = << >> /\ box'.own /\ box'.deleted = box.deleted
  PROVE  PopInv'
<1>1. PopTyped' /\ PopScripted(pop')
  BY DEF PopInv, PopTyped
<1>2. PopAsking'
  BY DEF PopInv, PopAsking
<1>3. PopWaiting'
  <2>1. CASE pop.pc = "hear" /\ pop.fresh
    BY <2>1
  <2>2. CASE ~(pop.pc = "hear" /\ pop.fresh)
    BY <2>2 DEF PopWaiting
  <2> QED BY <2>1, <2>2
<1>4. PopReported'
  BY DEF PopInv, PopReported
<1> QED BY <1>1, <1>2, <1>3, <1>4 DEF PopInv

\* The replies are marks.
LEMMA RepliesAre ==
  ASSUME NEW say \in PopSayings
  PROVE  /\ PopReply(say[1], say[2]) = ReplyTo(say) /\ ReplyTo(say) \in Seq(Marks)
         /\ say # << >> /\ say[2] \in Nat
<1>1. say # << >> /\ say[2] \in Nat
  BY PopAssumption DEF PopSayings, PopMails
<1> QED BY <1>1, ReplyIs DEF ReplyTo

\* The server answers the one command that is on its way.
LEMMA BoxTakesKeeps ==
  ASSUME PopInv, BoxTakes
  PROVE  PopInv'
<1> DEFINE say == Head(box.wire)
           r == PopReply(say[1], say[2])
           wire == Tail(box.wire)
           deleted == IF say[1] = "DELE" THEN box.deleted \cup {say[2]}
                      ELSE IF say[1] = "RSET" THEN {} ELSE box.deleted
<1>1. /\ box \in Mailbox /\ box.wire # << >> /\ box.out = << >> /\ UNCHANGED pop
      /\ \/ box' = [box EXCEPT !.wire = wire, !.out = r, !.own = TRUE, !.deleted = deleted]
         \/ box' = [box EXCEPT !.wire = wire, !.out = <<ERR>>, !.own = FALSE]
  BY DEF BoxTakes, PopInv, PopTyped
<1>2. box.wire \in Seq(PopSayings) /\ box.deleted \subseteq Nat
  BY <1>1 DEF Mailbox
<1>3. say \in PopSayings /\ wire \in Seq(PopSayings)
  BY <1>1, <1>2
<1>4. r = ReplyTo(say) /\ r \in Seq(Marks) /\ say # << >> /\ say[2] \in Nat
  BY <1>3, RepliesAre
<1>5. deleted \subseteq Nat /\ (say[1] = "DELE" => say[2] \in deleted)
  BY <1>2, <1>4
<1>6. <<ERR>> \in Seq(Marks)
  BY MarksAre
<1> HIDE DEF say, r, wire, deleted
<1>7. /\ box' \in Mailbox /\ box'.wire = wire /\ box'.inbox = box.inbox
      /\ \/ box'.out = r /\ box'.own /\ box'.deleted = deleted
         \/ box'.out = <<ERR>>
  BY <1>1, <1>2, <1>3, <1>4, <1>5, <1>6 DEF Mailbox
<1>8. PopStream \in Seq(Marks) /\ PopStream' = PopStream \o box'.out
  <2>1. pop.buf \o box.inbox \in Seq(Marks) /\ PopStream = (pop.buf \o box.inbox) \o << >>
    BY <1>1, PopParts DEF PopInv, PopStream
  <2>2. PopStream = pop.buf \o box.inbox
    BY <2>1, MarksAssociate
  <2> QED BY <1>1, <1>7, <2>1, <2>2 DEF PopStream
<1>9. ASSUME pop.pc = "hear", pop.fresh PROVE PopWaiting'
  <2> DEFINE c == Head(pop.script).say
  <2>1. c # << >> /\ box.wire = <<c>> /\ Leftover(PopStream)
    BY <1>1, <1>9 DEF PopInv, PopWaiting
  <2>2. c = say /\ wire = << >>
    BY <2>1 DEF say, wire
  <2>3. CASE box'.out = r /\ box'.own /\ box'.deleted = deleted
    <3>1. ReplyComes(PopStream \o r, r)
      BY <1>4, <1>8, <2>1, MarksAssociate, PrefixOf
    <3>2. ReplyComes(PopStream', ReplyTo(say))
      BY <3>1, <2>3, <1>4, <1>8
    <3>3. DoneFor(say, box')
      BY <2>3, <1>5 DEF DoneFor
    <3> QED BY <3>2, <3>3, <2>2, <1>1, <1>7 DEF PopWaiting
  <2>4. CASE box'.out = <<ERR>>
    <3>1. ReplyComes(PopStream \o <<ERR>>, <<ERR>>)
      BY <1>6, <1>8, <2>1, MarksAssociate, PrefixOf
    <3>2. ReplyComes(PopStream', <<ERR>>)
      BY <3>1, <2>4, <1>8
    <3> QED BY <3>2, <2>2, <1>1, <1>7 DEF PopWaiting
  <2> QED BY <2>3, <2>4, <1>7
<1>10. ~(pop.pc = "say" /\ pop.fresh)
  BY <1>1 DEF PopInv, PopAsking
<1> QED BY <1>1, <1>7, <1>9, <1>10, BoxKeeps

\* What the server has said is moved, and some of what it says may be lost with the connection.
LEMMA StreamKept ==
  ASSUME PopInv, UNCHANGED pop, box' \in Mailbox, PopStream' \in Seq(Marks),
         NEW lost \in Seq(Marks), PopStream' \o lost = PopStream,
         box'.own = box.own, box'.deleted = box.deleted,
         box'.wire = box.wire \/ box'.wire = << >>
  PROVE  PopInv'
<1>1. /\ Leftover(PopStream) => Leftover(PopStream')
      /\ \A r \in Seq(Marks) : ReplyComes(PopStream, r) => ReplyComes(PopStream', r)
      /\ \A r \in Seq(Marks) : Leftover(PopStream') => ReplyComes(PopStream', r)
  <2> DEFINE a == PopStream'
  <2>1. a \in Seq(Marks) /\ a \o lost = PopStream
    OBVIOUS
  <2> HIDE DEF a
  <2>2. /\ Leftover(a \o lost) => Leftover(a)
        /\ \A r \in Seq(Marks) : ReplyComes(a \o lost, r) => ReplyComes(a, r)
        /\ \A r \in Seq(Marks) : Leftover(a) => ReplyComes(a, r)
    BY <2>1, PrefixOf
  <2> QED BY <2>1, <2>2 DEF a
<1>2. ReplyTo(<< >>) \in Seq(Marks) /\ <<ERR>> \in Seq(Marks)
  BY ReplyIs, MarksAre
<1>3. ASSUME pop.pc = "say", pop.fresh
      PROVE  /\ box'.wire = << >>
             /\ Leftover(PopStream) => Leftover(PopStream')
             /\ ReplyComes(PopStream, ReplyTo(<< >>)) => ReplyComes(PopStream', ReplyTo(<< >>))
  BY <1>1, <1>2, <1>3 DEF PopInv, PopAsking
<1>4. ASSUME pop.pc = "hear", pop.fresh
      PROVE  PopWaiting'
  <2> DEFINE say == Head(pop.script).say
  <2>1. pop.script \in Seq(PopAsks) /\ Len(pop.script) >= 1
    BY <1>4 DEF PopInv, PopTyped, PopRecord, PopScripted
  <2>2. say \in PopSayings \cup {<< >>}
    BY <2>1, ScriptBegins DEF PopAsks
  <2>3. ReplyTo(say) \in Seq(Marks)
    BY <2>2, ReplyIs
  <2>4. \/ say # << >> /\ box.wire = <<say>> /\ Leftover(PopStream)
        \/ box.wire = << >> /\ ReplyComes(PopStream, <<ERR>>)
        \/ /\ box.wire = << >> /\ ReplyComes(PopStream, ReplyTo(say))
           /\ say # << >> => DoneFor(say, box)
    BY <1>4 DEF PopInv, PopWaiting
  <2>5. DoneFor(say, box) => DoneFor(say, box')
    BY DEF DoneFor
  <2> SUFFICES \/ say # << >> /\ box'.wire = <<say>> /\ Leftover(PopStream')
               \/ box'.wire = << >> /\ ReplyComes(PopStream', <<ERR>>)
               \/ /\ box'.wire = << >> /\ ReplyComes(PopStream', ReplyTo(say))
                  /\ say # << >> => DoneFor(say, box')
    BY DEF PopWaiting
  <2> HIDE DEF say
  <2> QED BY <1>1, <1>2, <2>3, <2>4, <2>5
<1> QED BY <1>3, <1>4, BoxKeeps

\* A mark that arrives was the first of those on the way: the stream is the same.
LEMMA BoxSaysKeeps ==
  ASSUME PopInv, BoxSays
  PROVE  PopInv'
<1>1. box \in Mailbox /\ box.out # << >> /\ UNCHANGED pop
  BY DEF BoxSays, PopInv, PopTyped
<1>2. PICK n \in {1, Len(box.out)} :
        box' = [box EXCEPT !.inbox = box.inbox \o SubSeq(box.out, 1, n),
                           !.out = From(box.out, n + 1)]
  BY DEF BoxSays
<1>3. /\ pop.buf \in Seq(Marks) /\ box.inbox \in Seq(Marks) /\ box.out \in Seq(Marks)
      /\ PopStream \in Seq(Marks)
  BY PopParts DEF PopInv
<1>4. n \in 0 .. Len(box.out)
  BY <1>1, <1>2, <1>3
<1> DEFINE a == SubSeq(box.out, 1, n)
           b == From(box.out, n + 1)
           inbox == box.inbox \o a
<1>5. a \in Seq(Marks) /\ b \in Seq(Marks) /\ a \o b = box.out
  BY <1>3, <1>4, MarksCut
<1>6. box' = [box EXCEPT !.inbox = inbox, !.out = b]
  BY <1>2
<1> HIDE DEF a, b
<1>7. inbox \in Seq(Marks)
  BY <1>3, <1>5, MarksAssociate
<1> HIDE DEF inbox
<1>8. /\ box' \in Mailbox /\ box'.inbox = inbox /\ box'.out = b /\ box'.wire = box.wire
      /\ box'.own = box.own /\ box'.deleted = box.deleted
  BY <1>1, <1>5, <1>6, <1>7 DEF Mailbox
<1>9. PopStream' = PopStream
  <2>1. PopStream' = (pop.buf \o inbox) \o b
    BY <1>1, <1>8 DEF PopStream
  <2>2. pop.buf \o (box.inbox \o a) = (pop.buf \o box.inbox) \o a
    <3>1. pop.buf \in Seq(Marks) /\ box.inbox \in Seq(Marks) /\ a \in Seq(Marks)
      BY <1>3, <1>5
    <3>2. (pop.buf \o box.inbox) \o a = pop.buf \o (box.inbox \o a)
      BY <3>1, MarksInARow, Zenon
    <3> QED BY <3>2
  <2>3. ((pop.buf \o box.inbox) \o a) \o b = (pop.buf \o box.inbox) \o (a \o b)
    <3>1. pop.buf \o box.inbox \in Seq(Marks) /\ a \in Seq(Marks) /\ b \in Seq(Marks)
      BY <1>3, <1>5, MarksAssociate
    <3> QED BY <3>1, MarksInARow, Zenon
  <2> QED BY <2>1, <2>2, <2>3, <1>5 DEF PopStream, inbox
<1>10. << >> \in Seq(Marks) /\ PopStream' \o << >> = PopStream
  BY <1>3, <1>9, MarksAssociate
<1> QED BY <1>1, <1>3, <1>8, <1>9, <1>10, StreamKept

\* A connection that breaks loses what was on its way: the stream is cut.
LEMMA BoxHangsUpKeeps ==
  ASSUME PopInv, BoxHangsUp
  PROVE  PopInv'
<1>1. /\ box \in Mailbox /\ UNCHANGED pop
      /\ box' = [box EXCEPT !.up = FALSE, !.wire = << >>, !.out = << >>]
  BY DEF BoxHangsUp, PopInv, PopTyped
<1>2. << >> \in Seq(Marks) /\ << >> \in Seq(PopSayings)
  OBVIOUS
<1>3. /\ box' \in Mailbox /\ box'.wire = << >> /\ box'.out = << >> /\ box'.inbox = box.inbox
      /\ box'.own = box.own /\ box'.deleted = box.deleted
  BY <1>1, <1>2 DEF Mailbox
<1>4. /\ box.out \in Seq(Marks) /\ pop.buf \o box.inbox \in Seq(Marks)
  BY PopParts DEF PopInv
<1>5. PopStream' = (pop.buf \o box.inbox) \o << >>
  BY <1>1, <1>3 DEF PopStream
<1>6. PopStream' = pop.buf \o box.inbox
  BY <1>4, <1>5, MarksAssociate
<1>7. PopStream' \o box.out = PopStream
  BY <1>6 DEF PopStream
<1> QED BY <1>1, <1>3, <1>4, <1>6, <1>7, StreamKept

\* Every step keeps the invariant.
LEMMA PopNextInv == PopInv /\ [PopNext]_popVars => PopInv'
<1> SUFFICES ASSUME PopInv, [PopNext]_popVars PROVE PopInv'
  OBVIOUS
<1>1. CASE PopConnects
  BY <1>1, PopConnectKeeps DEF PopConnects
<1>2. ASSUME NEW op \in {"POP3Login", "POP3Logout", "POP3RSet", "POP3List"}, CallPop(op, 0)
      PROVE  PopInv'
  <2>1. op \in PopOps \ {"none", "ConnectClient", "ConnectEClient"} /\ 0 \in Nat
        /\ (op \in {"POP3Retr", "POP3Top", "POP3Delete"} => 0 \in PopMails)
    BY DEF PopOps
  <2> QED BY <1>2, <2>1, CallPopKeeps
<1>3. ASSUME NEW op \in {"POP3Retr", "POP3Top", "POP3Delete"}, NEW m \in PopMails, CallPop(op, m)
      PROVE  PopInv'
  <2>1. op \in PopOps \ {"none", "ConnectClient", "ConnectEClient"} /\ m \in Nat
    BY PopAssumption DEF PopOps, PopMails
  <2> QED BY <1>3, <2>1, CallPopKeeps
<1>4. CASE PopClient
  BY <1>4, PopSayKeeps, PopHearsKeeps, PopGivesUpKeeps DEF PopClient
<1>5. CASE PopServer
  BY <1>5, BoxTakesKeeps, BoxSaysKeeps DEF PopServer
<1>6. CASE UNCHANGED popVars
  <2>1. pop' = pop /\ box' = box
    BY <1>6 DEF popVars
  <2> QED BY <2>1 DEF PopInv, PopTyped, PopScripted, PopAsking, PopWaiting, PopReported, PopStream
<1> QED BY <1>1, <1>2, <1>3, <1>4, <1>5, <1>6, BoxHangsUpKeeps DEF PopNext, PopCommands

\* What c_pop3 reports as fetched is the mail that was asked for, whole, and a call that it
\* reports as done was done by the server, unless an answer of an earlier command may still come.
THEOREM PopInvariant == PopSpec => [](RetrievedWhole /\ DoneByServer)
<1>1. PopInv => RetrievedWhole /\ DoneByServer
  BY DEF PopInv, PopReported, RetrievedWhole, DoneByServer
<1>2. PopSpec => []PopInv
  BY PopInitInv, PopNextInv, PTL DEF PopSpec
<1> QED BY <1>1, <1>2, PTL

------------------------------------------------------------------------------
\* c_smtp.
SmtpSpec == SmtpInit /\ [][SmtpNext]_smtpVars

\* What is said and what is received.
SmtpWords ==
  {"HELO", "EHLO", "AUTH", "user", "password", "RSET", "MAIL", "RCPT", "DATA", "QUIT",
   "header", "body", "."}
SmtpItems == SmtpWords \X Nat
SmtpLines == [code : Nat, nl : BOOLEAN]
SmtpAsks == [say : Seq(SmtpItems), want : Nat]
SmtpOps ==
  {"none", "ConnectClient", "ConnectEClient", "SMTPLogin", "ESMTPLogin", "ESMTPAuthLogin",
   "SMTPLogout", "SMTPRSet", "SMTPMailFrom", "SMTPRcptTo", "SMTPData", "SMTPSendMessage"}
SmtpErrors == {"none", "CONN", "SMTP", "REQ_TIMEOUT", "DISCONNECTED", "RECEIVE"}
SmtpRecord ==
  [pc : {"idle", "say", "hear"}, op : SmtpOps, m : Nat, script : Seq(SmtpAsks),
   buf : Seq(SmtpLines), sock : BOOLEAN, error : SmtpErrors, res : BOOLEAN, late : Int,
   left : Int]
MailRecord == [from : Nat, to : Nat, text : Seq(SmtpItems)]
RelayRecord ==
  [up : BOOLEAN, wire : Seq(SmtpItems), mode : {"command", "user", "password", "text", "quit"},
   mail : MailRecord, out : Seq(SmtpLines), inbox : Seq(SmtpLines), accepted : Seq(MailRecord)]

\* What holds of the server r whatever the client does.
MailInMaking(r) ==
  /\ r.mode # "text" => r.mail.text = << >>
  /\ r.mail.from = 0 => r.mail.to = 0

\* The five steps of SMTPSendMessage; SMTPData has the last two.
TextOf(op, m) ==
  IF op = "SMTPData" THEN << <<"body", m>> >> ELSE << <<"header", m>>, <<"body", m>> >>
StepOf(op, m, k) ==
  CASE k = 1 -> [say |-> << <<"RSET", 0>> >>, want |-> 250]
    [] k = 2 -> [say |-> << <<"MAIL", m>> >>, want |-> 250]
    [] k = 3 -> [say |-> << <<"RCPT", m>> >>, want |-> 250]
    [] k = 4 -> [say |-> << <<"DATA", 0>> >>, want |-> 354]
    [] k = 5 -> [say |-> TextOf(op, m) \o << <<".", 0>> >>, want |-> 250]

\* The calls of a client c that the promise is about, and the step that such a call is at.
LateBorne(c) ==
  (c.op = "SMTPSendMessage" /\ c.late <= 1) \/ (c.op = "SMTPData" /\ c.late = 0)
Place(c) == 6 - Len(c.script)
ToSay(c) == c.script[1].say
InSteps(c) ==
  /\ Place(c) \in 1 .. 5 /\ (c.op = "SMTPData" => Place(c) >= 4)
  /\ c.script[1].want = StepOf(c.op, c.m, Place(c)).want
  /\ \A i \in 2 .. Len(c.script) : c.script[i] = StepOf(c.op, c.m, Place(c) + i - 1)
  /\ Place(c) < 5 => ToSay(c) \in {StepOf(c.op, c.m, Place(c)).say, << >>}
  /\ c.pc = "hear" => ToSay(c) = << >>

\* The answers of the server: h of them has come, o is still to come; the code that will be
\* taken for the next one.
Heard(c, r) == c.buf \o r.inbox
NothingComes(h, o) == h = << >> /\ o = << >>
FirstCode(h, o) == IF h # << >> THEN h[1].code ELSE o[1].code
No354(s) == \A i \in 1 .. Len(s) : s[i].code # 354
\* The lines of one answer, and those of one that have not come yet when others have.
WholeAnswer(o) == Len(o) = 1 \/ (Len(o) = 2 /\ ~o[1].nl)
OneAnswer(h, o) ==
  \/ o = << >>
  \/ Len(o) = 1 /\ (h # << >> => ~h[Len(h)].nl)
  \/ WholeAnswer(o) /\ h = << >>

\* The mail that the server is being given is this call's, as far as it has a sender.
MailClean(c, mail) ==
  c.op = "SMTPSendMessage" => mail.from \in {0, c.m} /\ mail.to \in {0, c.m}
MailIsOurs(c, mail) == c.op = "SMTPSendMessage" => mail.from = c.m /\ mail.to = c.m
Ours(c, wire, n) ==
  \A i \in 1 .. n : wire[i] \in {<<"RSET", 0>>, <<"MAIL", c.m>>, <<"RCPT", c.m>>}

\* The steps of a call.  At the first the one answer that was still to come may come; at the
\* second, that of the first; then the mail is clean, and 354 is the answer to DATA.
OneLine(item, lines) == item[1] = "EHLO" => lines = 1
AtRset(say, wire, h, o, c, mail, lines) ==
  \/ say # << >> /\ wire = << >> /\ OneAnswer(h, o)
  \/ say # << >> /\ Len(wire) = 1 /\ OneLine(wire[1], lines) /\ NothingComes(h, o)
  \/ /\ say = << >> /\ Len(wire) = 2 /\ wire[2] = <<"RSET", 0>>
     /\ OneLine(wire[1], lines) /\ NothingComes(h, o)
  \/ say = << >> /\ wire \in {<< <<"RSET", 0>> >>, << >>} /\ OneAnswer(h, o)
  \/ /\ say = << >> /\ wire = << >> /\ WholeAnswer(o) /\ No354(o)
     /\ o[1].code = 250 => MailClean(c, mail)
MailSaid(say, wire, c) ==
  \/ wire = << >>
  \/ say = << >> /\ wire = << <<"MAIL", c.m>> >>
AtMail(say, wire, h, o, c, mail) ==
  \/ NothingComes(h, o) /\ MailSaid(say, wire, c)
  \/ NothingComes(h, o) /\ say # << >> /\ wire = << <<"RSET", 0>> >>
  \/ NothingComes(h, o) /\ say = << >> /\ wire = << <<"RSET", 0>>, <<"MAIL", c.m>> >>
  \/ /\ ~NothingComes(h, o) /\ MailSaid(say, wire, c) /\ No354(h) /\ No354(o)
     /\ FirstCode(h, o) = 250 => MailClean(c, mail)
AtRcpt(wire, h, o, c, mail) ==
  MailClean(c, mail) /\ No354(h) /\ No354(o) /\ Ours(c, wire, Len(wire))
AtData(say, wire, h, o, c, r) ==
  \/ say # << >> /\ AtRcpt(wire, h, o, c, r.mail)
  \/ /\ say = << >> /\ MailClean(c, r.mail) /\ No354(h) /\ No354(o)
     /\ wire # << >> /\ wire[Len(wire)] = <<"DATA", 0>> /\ Ours(c, wire, Len(wire) - 1)
  \/ /\ say = << >> /\ wire = << >> /\ ~NothingComes(h, o) /\ FirstCode(h, o) = 354
     /\ OneAnswer(h, o) /\ r.mode = "text" /\ r.mail.text = << >> /\ MailIsOurs(c, r.mail)
  \/ say = << >> /\ wire = << >> /\ (NothingComes(h, o) \/ FirstCode(h, o) # 354)
\* What was taken, what is on its way and what is to be said are the text, and the dot.
InText(text, wire, say, all) ==
  /\ Len(text) + Len(wire) + Len(say) = Len(all)
  /\ \A i \in 1 .. Len(text) : text[i] = all[i]
  /\ \A i \in 1 .. Len(wire) : wire[i] = all[Len(text) + i]
  /\ \A i \in 1 .. Len(say) : say[i] = all[Len(text) + Len(wire) + i]
MailTaken(c, r) ==
  /\ r.accepted # << >>
  /\ LET mail == r.accepted[Len(r.accepted)]
     IN  mail.text = TextOf(c.op, c.m) /\ MailIsOurs(c, mail)
AtText(say, wire, h, o, c, r) ==
  \/ /\ NothingComes(h, o) /\ r.mode = "text" /\ MailIsOurs(c, r.mail)
     /\ InText(r.mail.text, wire, say, StepOf(c.op, c.m, 5).say)
  \/ NothingComes(h, o) /\ ~r.up
  \/ say = << >> /\ wire = << >> /\ ~NothingComes(h, o) /\ (FirstCode(h, o) = 250 => MailTaken(c, r))

AtStep(c, r, lines) ==
  LET h == Heard(c, r)
      say == ToSay(c)
  IN  /\ Place(c) = 1 => AtRset(say, r.wire, h, r.out, c, r.mail, lines)
      /\ Place(c) = 2 => AtMail(say, r.wire, h, r.out, c, r.mail)
      /\ Place(c) = 3 => AtRcpt(r.wire, h, r.out, c, r.mail)
      /\ Place(c) = 4 => AtData(say, r.wire, h, r.out, c, r)
      /\ Place(c) = 5 => AtText(say, r.wire, h, r.out, c, r)
SmtpInCall == smtp.pc # "idle" /\ LateBorne(smtp) => InSteps(smtp) /\ AtStep(smtp, relay, smtpWorld.lines)
SmtpReported ==
  smtp.pc = "idle" /\ smtp.res /\ LateBorne(smtp) => relay.wire = << >> /\ MailTaken(smtp, relay)
SmtpScripted(c) ==
  /\ c.pc # "idle" => c.script # << >>
  /\ c.pc # "hear" => c.buf = << >>
SmtpTyped ==
  /\ smtp \in SmtpRecord /\ relay \in RelayRecord /\ smtpWorld.lines \in Nat \ {0}
  /\ SmtpScripted(smtp) /\ MailInMaking(relay)
SmtpInv == SmtpTyped /\ SmtpInCall /\ SmtpReported

------------------------------------------------------------------------------
\* Sequences one after another.
LEMMA AsksJoined ==
  /\ \A s, t \in Seq(SmtpAsks) :
       /\ s \o t \in Seq(SmtpAsks) /\ Len(s \o t) = Len(s) + Len(t)
       /\ \A i \in 1 .. Len(s) + Len(t) :
            (s \o t)[i] = IF i <= Len(s) THEN s[i] ELSE t[i - Len(s)]
  /\ \A a \in SmtpAsks : <<a>> \in Seq(SmtpAsks) /\ Len(<<a>>) = 1 /\ <<a>>[1] = a
<1>1. \A s, t \in Seq(SmtpAsks) :
        /\ s \o t \in Seq(SmtpAsks) /\ Len(s \o t) = Len(s) + Len(t)
        /\ \A i \in 1 .. Len(s) + Len(t) :
             (s \o t)[i] = IF i <= Len(s) THEN s[i] ELSE t[i - Len(s)]
  BY ConcatProperties
<1> QED BY <1>1

\* What is said is made of items.
LEMMA ItemsAre ==
  /\ \A c \in SmtpWords, n \in Nat : <<c, n>> \in SmtpItems /\ << <<c, n>> >> \in Seq(SmtpItems)
  /\ \A s \in Seq(SmtpItems), x \in SmtpItems :
       /\ Append(s, x) \in Seq(SmtpItems) /\ Len(Append(s, x)) = Len(s) + 1
       /\ Append(s, x)[Len(s) + 1] = x /\ \A i \in 1 .. Len(s) : Append(s, x)[i] = s[i]
       /\ s \o <<x>> = Append(s, x)
  /\ \A s \in Seq(SmtpItems) :
       s # << >> =>
         /\ Head(s) = s[1] /\ Head(s) \in SmtpItems /\ Len(s) >= 1
         /\ Tail(s) \in Seq(SmtpItems) /\ Len(Tail(s)) + 1 = Len(s)
         /\ \A i \in 1 .. Len(Tail(s)) : Tail(s)[i] = s[i + 1]
  /\ << >> \in Seq(SmtpItems) /\ Len(<< >>) = 0
<1>1. \A c \in SmtpWords, n \in Nat : <<c, n>> \in SmtpItems /\ << <<c, n>> >> \in Seq(SmtpItems)
  BY DEF SmtpItems
<1>2. ASSUME NEW s \in Seq(SmtpItems), NEW x \in SmtpItems
      PROVE  /\ Append(s, x) \in Seq(SmtpItems) /\ Len(Append(s, x)) = Len(s) + 1
             /\ Append(s, x)[Len(s) + 1] = x /\ \A i \in 1 .. Len(s) : Append(s, x)[i] = s[i]
             /\ s \o <<x>> = Append(s, x)
  <2>1. s \o <<x>> = Append(s, x)
    BY AppendIsConcat
  <2>2. /\ Append(s, x) \in Seq(SmtpItems) /\ Len(Append(s, x)) = Len(s) + 1
        /\ Append(s, x)[Len(s) + 1] = x /\ \A i \in 1 .. Len(s) : Append(s, x)[i] = s[i]
    OBVIOUS
  <2> QED BY <2>1, <2>2
<1>3. ASSUME NEW s \in Seq(SmtpItems), s # << >>
      PROVE  /\ Head(s) = s[1] /\ Head(s) \in SmtpItems /\ Len(s) >= 1
             /\ Tail(s) \in Seq(SmtpItems) /\ Len(Tail(s)) + 1 = Len(s)
             /\ \A i \in 1 .. Len(Tail(s)) : Tail(s)[i] = s[i + 1]
  <2>1. Head(s) = s[1] /\ Head(s) \in SmtpItems /\ Len(s) >= 1 /\ Len(s) \in Nat
    BY <1>3
  <2>2. /\ Tail(s) \in Seq(SmtpItems) /\ Len(Tail(s)) = Len(s) - 1
        /\ \A i \in 1 .. Len(Tail(s)) : Tail(s)[i] = s[i + 1]
    BY <1>3, HeadTailProperties
  <2>3. Len(Tail(s)) \in Nat
    BY <2>2
  <2> QED BY <2>1, <2>2, <2>3
<1> QED BY <1>1, <1>2, <1>3

\* The steps are commands with the codes that are waited for, and the text with its dot.
LEMMA StepsAre ==
  ASSUME NEW op, NEW m \in Nat
  PROVE  /\ \A k \in 1 .. 5 : StepOf(op, m, k) \in SmtpAsks /\ StepOf(op, m, k).say # << >>
         /\ StepOf(op, m, 1) = [say |-> << <<"RSET", 0>> >>, want |-> 250]
         /\ StepOf(op, m, 2) = [say |-> << <<"MAIL", m>> >>, want |-> 250]
         /\ StepOf(op, m, 3) = [say |-> << <<"RCPT", m>> >>, want |-> 250]
         /\ StepOf(op, m, 4) = [say |-> << <<"DATA", 0>> >>, want |-> 354]
         /\ StepOf(op, m, 5) = [say |-> Append(TextOf(op, m), <<".", 0>>), want |-> 250]
         /\ TextOf(op, m) \in Seq(SmtpItems)
         /\ Len(TextOf(op, m)) = IF op = "SMTPData" THEN 1 ELSE 2
         /\ \A i \in 1 .. Len(TextOf(op, m)) : TextOf(op, m)[i][1] # "."
<1>1. /\ TextOf(op, m) \in Seq(SmtpItems)
      /\ Len(TextOf(op, m)) = IF op = "SMTPData" THEN 1 ELSE 2
      /\ \A i \in 1 .. Len(TextOf(op, m)) : TextOf(op, m)[i][1] # "."
  <2>1. <<"header", m>> \in SmtpItems /\ <<"body", m>> \in SmtpItems
    BY ItemsAre DEF SmtpWords
  <2>2. CASE op = "SMTPData"
    BY <2>1, <2>2 DEF TextOf
  <2>3. CASE op # "SMTPData"
    <3>1. TextOf(op, m) = << <<"header", m>>, <<"body", m>> >>
      BY <2>3 DEF TextOf
    <3> QED BY <2>1, <2>3, <3>1
  <2> QED BY <2>2, <2>3
<1>2. <<".", 0>> \in SmtpItems
  BY ItemsAre DEF SmtpWords
<1>3. /\ TextOf(op, m) \o << <<".", 0>> >> = Append(TextOf(op, m), <<".", 0>>)
      /\ Append(TextOf(op, m), <<".", 0>>) \in Seq(SmtpItems)
      /\ Append(TextOf(op, m), <<".", 0>>) # << >>
  <2> DEFINE t == TextOf(op, m)
             d == <<".", 0>>
  <2>1. t \in Seq(SmtpItems) /\ d \in SmtpItems
    BY <1>1, <1>2
  <2> HIDE DEF t, d
  <2>2. t \o <<d>> = Append(t, d) /\ Append(t, d) \in Seq(SmtpItems) /\ Append(t, d) # << >>
    BY <2>1, ItemsAre
  <2> QED BY <2>2 DEF t, d
<1>4. /\ StepOf(op, m, 1) = [say |-> << <<"RSET", 0>> >>, want |-> 250]
      /\ StepOf(op, m, 2) = [say |-> << <<"MAIL", m>> >>, want |-> 250]
      /\ StepOf(op, m, 3) = [say |-> << <<"RCPT", m>> >>, want |-> 250]
      /\ StepOf(op, m, 4) = [say |-> << <<"DATA", 0>> >>, want |-> 354]
  BY DEF StepOf
<1>5. StepOf(op, m, 5) = [say |-> Append(TextOf(op, m), <<".", 0>>), want |-> 250]
  <2>1. StepOf(op, m, 5) = [say |-> TextOf(op, m) \o << <<".", 0>> >>, want |-> 250]
    BY DEF StepOf
  <2> QED BY <1>3, <2>1, Zenon
<1>6. /\ << <<"RSET", 0>> >> \in Seq(SmtpItems) /\ << <<"MAIL", m>> >> \in Seq(SmtpItems)
      /\ << <<"RCPT", m>> >> \in Seq(SmtpItems) /\ << <<"DATA", 0>> >> \in Seq(SmtpItems)
  BY ItemsAre DEF SmtpWords
<1>7. ASSUME NEW k \in 1 .. 5
      PROVE  StepOf(op, m, k) \in SmtpAsks /\ StepOf(op, m, k).say # << >>
  <2>1. CASE k = 5
    <3> DEFINE t == Append(TextOf(op, m), <<".", 0>>)
    <3>1. t \in Seq(SmtpItems) /\ t # << >> /\ StepOf(op, m, 5) = [say |-> t, want |-> 250]
      BY <1>3, <1>5
    <3> HIDE DEF t
    <3>2. [say |-> t, want |-> 250] \in SmtpAsks
      BY <3>1 DEF SmtpAsks
    <3> QED BY <2>1, <3>1, <3>2
  <2>2. CASE k # 5
    <3>1. ASSUME NEW t \in Seq(SmtpItems), NEW w \in Nat PROVE [say |-> t, want |-> w] \in SmtpAsks
      BY DEF SmtpAsks
    <3>2. /\ StepOf(op, m, 1) \in SmtpAsks /\ StepOf(op, m, 2) \in SmtpAsks
          /\ StepOf(op, m, 3) \in SmtpAsks /\ StepOf(op, m, 4) \in SmtpAsks
      <4>1. /\ [say |-> << <<"RSET", 0>> >>, want |-> 250] \in SmtpAsks
            /\ [say |-> << <<"MAIL", m>> >>, want |-> 250] \in SmtpAsks
            /\ [say |-> << <<"RCPT", m>> >>, want |-> 250] \in SmtpAsks
            /\ [say |-> << <<"DATA", 0>> >>, want |-> 354] \in SmtpAsks
        <5>1. 250 \in Nat /\ 354 \in Nat
          OBVIOUS
        <5> QED BY <1>6, <3>1, <5>1, Zenon
      <4>2. StepOf(op, m, 1) \in SmtpAsks
        BY <1>4, <4>1
      <4>3. StepOf(op, m, 2) \in SmtpAsks
        BY <1>4, <4>1
      <4>4. StepOf(op, m, 3) \in SmtpAsks
        BY <1>4, <4>1
      <4>5. StepOf(op, m, 4) \in SmtpAsks
        BY <1>4, <4>1
      <4> QED BY <4>2, <4>3, <4>4, <4>5
    <3>3. /\ StepOf(op, m, 1).say # << >> /\ StepOf(op, m, 2).say # << >>
          /\ StepOf(op, m, 3).say # << >> /\ StepOf(op, m, 4).say # << >>
      BY <1>4
    <3>4. k \in {1, 2, 3, 4}
      BY <2>2
    <3> QED BY <3>2, <3>3, <3>4
  <2> QED BY <2>1, <2>2
<1> QED BY <1>1, <1>4, <1>5, <1>7

\* The scripts of the two calls are their steps.
LEMMA ScriptOf ==
  ASSUME NEW op \in {"SMTPData", "SMTPSendMessage"}, NEW m \in Nat
  PROVE  LET s == SmtpScript(op, m)
         IN  /\ s \in Seq(SmtpAsks) /\ Len(s) = IF op = "SMTPData" THEN 2 ELSE 5
             /\ \A i \in 1 .. Len(s) : s[i] = StepOf(op, m, (5 - Len(s)) + i)
<1> DEFINE a1 == StepOf(op, m, 1)
           a2 == StepOf(op, m, 2)
           a3 == StepOf(op, m, 3)
           a4 == StepOf(op, m, 4)
           a5 == StepOf(op, m, 5)
<1>1. a1 \in SmtpAsks /\ a2 \in SmtpAsks /\ a3 \in SmtpAsks /\ a4 \in SmtpAsks /\ a5 \in SmtpAsks
  BY StepsAre
<1>2. /\ SMTPRSet = <<a1>> /\ SMTPMailFrom(m) = <<a2>> /\ SMTPRcptTo(m) = <<a3>>
      /\ SmtpCommand("DATA", 0, 354) = <<a4>>
  BY DEF SMTPRSet, SMTPMailFrom, SMTPRcptTo, SmtpCommand, StepOf
<1>3. MailText(TextOf(op, m)) = <<a4>> \o <<a5>>
  <2>1. a5 = [say |-> TextOf(op, m) \o << <<".", 0>> >>, want |-> 250]
    BY DEF StepOf
  <2> QED BY <1>2, <2>1, Zenon DEF MailText
<1>4. SmtpScript(op, m) =
        IF op = "SMTPData" THEN <<a4>> \o <<a5>>
        ELSE ((<<a1>> \o <<a2>>) \o <<a3>>) \o (<<a4>> \o <<a5>>)
  <2>1. CASE op = "SMTPData"
    <3>1. SmtpScript(op, m) = MailText(TextOf(op, m))
      BY <2>1 DEF SmtpScript, TextOf
    <3> QED BY <3>1, <1>3, <2>1
  <2>2. CASE op = "SMTPSendMessage"
    <3>1. SmtpScript(op, m) =
            ((SMTPRSet \o SMTPMailFrom(m)) \o SMTPRcptTo(m)) \o MailText(TextOf(op, m))
      BY <2>2 DEF SmtpScript, TextOf
    <3> QED BY <3>1, <1>2, <1>3, <2>2
  <2> QED BY <2>1, <2>2
<1> DEFINE s == SmtpScript(op, m)
<1> HIDE DEF a1, a2, a3, a4, a5, s
<1>5. /\ <<a4>> \o <<a5>> \in Seq(SmtpAsks) /\ Len(<<a4>> \o <<a5>>) = 2
      /\ (<<a4>> \o <<a5>>)[1] = a4 /\ (<<a4>> \o <<a5>>)[2] = a5
  BY <1>1, AsksJoined
<1>6. CASE op = "SMTPData"
  <2>1. s \in Seq(SmtpAsks) /\ Len(s) = 2 /\ s[1] = a4 /\ s[2] = a5
    BY <1>4, <1>5, <1>6 DEF s
  <2>2. \A i \in 1 .. 2 : s[i] = StepOf(op, m, 3 + i)
    BY <2>1 DEF a4, a5
  <2>3. \A i \in 1 .. Len(s) : s[i] = StepOf(op, m, (5 - Len(s)) + i)
    BY <2>1, <2>2
  <2> QED BY <2>1, <2>3, <1>6 DEF s
<1>7. CASE op = "SMTPSendMessage"
  <2>1. /\ <<a1>> \o <<a2>> \in Seq(SmtpAsks) /\ Len(<<a1>> \o <<a2>>) = 2
        /\ (<<a1>> \o <<a2>>)[1] = a1 /\ (<<a1>> \o <<a2>>)[2] = a2
    BY <1>1, AsksJoined
  <2> DEFINE b == (<<a1>> \o <<a2>>) \o <<a3>>
  <2>2. b \in Seq(SmtpAsks) /\ Len(b) = 3 /\ b[1] = a1 /\ b[2] = a2 /\ b[3] = a3
    BY <1>1, <2>1, AsksJoined
  <2>3. s = b \o (<<a4>> \o <<a5>>)
    BY <1>4, <1>7 DEF s
  <2> HIDE DEF b
  <2> DEFINE t == <<a4>> \o <<a5>>
  <2>8. t \in Seq(SmtpAsks) /\ Len(t) = 2 /\ t[1] = a4 /\ t[2] = a5
    BY <1>5
  <2>9. s = b \o t
    BY <2>3
  <2>7. s = b \o t /\ t \in Seq(SmtpAsks) /\ Len(t) = 2 /\ t[1] = a4 /\ t[2] = a5
    BY <2>8, <2>9, Zenon
  <2> HIDE DEF t
  <2>4. /\ s \in Seq(SmtpAsks) /\ Len(s) = 5
        /\ s[1] = a1 /\ s[2] = a2 /\ s[3] = a3 /\ s[4] = a4 /\ s[5] = a5
    <3>1. /\ b \o t \in Seq(SmtpAsks) /\ Len(b \o t) = 5
          /\ \A i \in 1 .. 5 : (b \o t)[i] = IF i <= 3 THEN b[i] ELSE t[i - 3]
      <4>1. /\ b \o t \in Seq(SmtpAsks) /\ Len(b \o t) = Len(b) + Len(t)
            /\ \A i \in 1 .. Len(b) + Len(t) :
                 (b \o t)[i] = IF i <= Len(b) THEN b[i] ELSE t[i - Len(b)]
        BY <2>2, <2>8, AsksJoined, Zenon
      <4>2. Len(b) + Len(t) = 5 /\ Len(b) = 3
        BY <2>2, <2>8
      <4> QED BY <4>1, <4>2
    <3>2. /\ (b \o t)[1] = b[1] /\ (b \o t)[2] = b[2] /\ (b \o t)[3] = b[3]
          /\ (b \o t)[4] = t[1] /\ (b \o t)[5] = t[2]
      BY <3>1
    <3> QED BY <2>2, <2>7, <3>1, <3>2
  <2>5. \A i \in 1 .. 5 : s[i] = StepOf(op, m, i)
    BY <2>4 DEF a1, a2, a3, a4, a5
  <2>6. \A i \in 1 .. Len(s) : s[i] = StepOf(op, m, (5 - Len(s)) + i)
    BY <2>4, <2>5
  <2> QED BY <2>4, <2>6, <1>7 DEF s
<1> QED BY <1>6, <1>7

\* Every call has a script.
LEMMA SmtpScriptsAre ==
  ASSUME NEW op \in SmtpOps \ {"none"}, NEW m \in Nat
  PROVE  SmtpScript(op, m) \in Seq(SmtpAsks) /\ SmtpScript(op, m) # << >>
<1> DEFINE P(s) == s \in Seq(SmtpAsks) /\ s # << >>
<1>1. ASSUME NEW a \in SmtpAsks PROVE P(<<a>>)
  BY <1>1
<1>2. ASSUME NEW s, NEW t, P(s), P(t) PROVE P(s \o t)
  <2>1. s \o t \in Seq(SmtpAsks) /\ Len(s \o t) = Len(s) + Len(t) /\ Len(s) >= 1 /\ Len(t) >= 1
        /\ Len(<< >>) = 0
    BY <1>2, AsksJoined
  <2> QED BY <2>1
<1>3. ASSUME NEW t \in Seq(SmtpItems), NEW w \in Nat
      PROVE  P(<< [say |-> t, want |-> w] >>)
  <2>1. [say |-> t, want |-> w] \in SmtpAsks
    BY <1>3 DEF SmtpAsks
  <2> QED BY <2>1, <1>1
<1>4. ASSUME NEW c \in SmtpWords, NEW n \in Nat, NEW w \in Nat PROVE P(SmtpCommand(c, n, w))
  <2>1. << <<c, n>> >> \in Seq(SmtpItems)
    BY ItemsAre
  <2> QED BY <2>1, <1>3 DEF SmtpCommand
<1> HIDE DEF P
<1>5. /\ "HELO" \in SmtpWords /\ "EHLO" \in SmtpWords /\ "AUTH" \in SmtpWords
      /\ "user" \in SmtpWords /\ "password" \in SmtpWords /\ "RSET" \in SmtpWords
      /\ "MAIL" \in SmtpWords /\ "RCPT" \in SmtpWords /\ "QUIT" \in SmtpWords
      /\ 0 \in Nat /\ 250 \in Nat /\ 334 \in Nat /\ 235 \in Nat /\ 221 \in Nat /\ 220 \in Nat
  BY DEF SmtpWords
<1>6. /\ P(SmtpCommand("AUTH", 0, 334)) /\ P(SmtpCommand("user", 0, 334))
      /\ P(SmtpCommand("password", 0, 235)) /\ P(SMTPLogin)
      /\ P(SmtpCommand("EHLO", 0, 250)) /\ P(SmtpCommand("QUIT", 0, 221))
      /\ P(SMTPRSet) /\ P(SMTPMailFrom(m)) /\ P(SMTPRcptTo(m))
  BY <1>4, <1>5 DEF SMTPLogin, SMTPRSet, SMTPMailFrom, SMTPRcptTo
<1>7. P(ConnectClient)
  <2>1. << >> \in Seq(SmtpItems)
    OBVIOUS
  <2> QED BY <2>1, <1>3, <1>5 DEF ConnectClient
<1>8. P(ESMTPAuthLogin)
  BY <1>2, <1>6 DEF ESMTPAuthLogin
<1>9. P(ConnectClient \o SMTPLogin \o ESMTPAuthLogin)
  BY <1>2, <1>6, <1>7, <1>8
<1>10. CASE op \in {"SMTPData", "SMTPSendMessage"}
  <2> DEFINE s == SmtpScript(op, m)
  <2>1. s \in Seq(SmtpAsks) /\ Len(s) >= 1
    <3>1. s \in Seq(SmtpAsks) /\ Len(s) = IF op = "SMTPData" THEN 2 ELSE 5
      BY <1>10, ScriptOf, Zenon
    <3> HIDE DEF s
    <3> QED BY <3>1
  <2> HIDE DEF s
  <2>2. s # << >>
    BY <2>1
  <2> QED BY <2>1, <2>2 DEF s
<1>11. CASE op \notin {"SMTPData", "SMTPSendMessage"}
  <2>1. P(SmtpScript(op, m))
    <3>1. CASE op = "ConnectClient"
      BY <3>1, <1>7 DEF SmtpScript
    <3>2. CASE op = "ConnectEClient"
      BY <3>2, <1>9 DEF SmtpScript
    <3>3. CASE op = "SMTPLogin"
      BY <3>3, <1>6 DEF SmtpScript
    <3>4. CASE op = "ESMTPLogin"
      BY <3>4, <1>6 DEF SmtpScript
    <3>5. CASE op = "ESMTPAuthLogin"
      BY <3>5, <1>8 DEF SmtpScript
    <3>6. CASE op = "SMTPLogout"
      BY <3>6, <1>6 DEF SmtpScript
    <3>7. CASE op = "SMTPRSet"
      BY <3>7, <1>6 DEF SmtpScript
    <3>8. CASE op = "SMTPMailFrom"
      BY <3>8, <1>6 DEF SmtpScript
    <3>9. CASE op = "SMTPRcptTo"
      BY <3>9, <1>6 DEF SmtpScript
    <3> QED BY <3>1, <3>2, <3>3, <3>4, <3>5, <3>6, <3>7, <3>8, <3>9, <1>11 DEF SmtpOps
  <2> QED BY <2>1 DEF P
<1> QED BY <1>10, <1>11

\* Lines one after another.
LEMMA LinesAre ==
  /\ \A s \in Seq(SmtpLines) :
       s # << >> =>
         /\ Len(s) >= 1 /\ Head(s) = s[1] /\ s[1] \in SmtpLines /\ Tail(s) \in Seq(SmtpLines)
         /\ Len(Tail(s)) + 1 = Len(s) /\ \A i \in 1 .. Len(Tail(s)) : Tail(s)[i] = s[i + 1]
         /\ Len(s) = 1 <=> Tail(s) = << >>
  /\ \A s \in Seq(SmtpLines), x \in SmtpLines :
       /\ Append(s, x) \in Seq(SmtpLines) /\ Len(Append(s, x)) = Len(s) + 1
       /\ Append(s, x)[Len(s) + 1] = x /\ \A i \in 1 .. Len(s) : Append(s, x)[i] = s[i]
       /\ Append(s, x) # << >>
  /\ \A s, t \in Seq(SmtpLines) : s \o t \in Seq(SmtpLines)
  /\ \A s, t \in Seq(SmtpLines), x \in SmtpLines : s \o Append(t, x) = Append(s \o t, x)
  /\ \A s \in Seq(SmtpLines) : s \o << >> = s /\ << >> \o s = s
  /\ \A s \in Seq(SmtpLines) : Len(s) \in Nat /\ (Len(s) = 0 <=> s = << >>)
  /\ << >> \in Seq(SmtpLines) /\ Len(<< >>) = 0
<1>1. ASSUME NEW s \in Seq(SmtpLines), s # << >>
      PROVE  /\ Len(s) >= 1 /\ Head(s) = s[1] /\ s[1] \in SmtpLines /\ Tail(s) \in Seq(SmtpLines)
             /\ Len(Tail(s)) + 1 = Len(s) /\ \A i \in 1 .. Len(Tail(s)) : Tail(s)[i] = s[i + 1]
             /\ Len(s) = 1 <=> Tail(s) = << >>
  <2>1. Len(s) >= 1 /\ Head(s) = s[1] /\ s[1] \in SmtpLines /\ Len(s) \in Nat
    BY <1>1
  <2>2. /\ Tail(s) \in Seq(SmtpLines) /\ Len(Tail(s)) = Len(s) - 1
        /\ \A i \in 1 .. Len(Tail(s)) : Tail(s)[i] = s[i + 1]
    BY <1>1, HeadTailProperties
  <2> DEFINE t == Tail(s)
  <2>3. t \in Seq(SmtpLines) /\ Len(t) = Len(s) - 1
    BY <2>2
  <2> HIDE DEF t
  <2>4. Len(t) + 1 = Len(s) /\ (Len(s) = 1 <=> t = << >>)
    BY <2>1, <2>3
  <2> QED BY <2>1, <2>2, <2>4 DEF t
<1>2. ASSUME NEW s \in Seq(SmtpLines), NEW x \in SmtpLines
      PROVE  /\ Append(s, x) \in Seq(SmtpLines) /\ Len(Append(s, x)) = Len(s) + 1
             /\ Append(s, x)[Len(s) + 1] = x /\ \A i \in 1 .. Len(s) : Append(s, x)[i] = s[i]
             /\ Append(s, x) # << >>
  <2>1. /\ Append(s, x) \in Seq(SmtpLines) /\ Len(Append(s, x)) = Len(s) + 1
        /\ Append(s, x)[Len(s) + 1] = x /\ \A i \in 1 .. Len(s) : Append(s, x)[i] = s[i]
    OBVIOUS
  <2>2. Len(s) \in Nat /\ Len(<< >>) = 0
    OBVIOUS
  <2> QED BY <2>1, <2>2
<1>3. \A s, t \in Seq(SmtpLines) : s \o t \in Seq(SmtpLines)
  BY ConcatProperties
<1>4. ASSUME NEW s \in Seq(SmtpLines), NEW t \in Seq(SmtpLines), NEW x \in SmtpLines
      PROVE  s \o Append(t, x) = Append(s \o t, x)
  <2>1. <<x>> \in Seq(SmtpLines)
    OBVIOUS
  <2>2. Append(t, x) = t \o <<x>> /\ Append(s \o t, x) = (s \o t) \o <<x>>
    BY <1>3, AppendIsConcat
  <2>3. \A a, b, d \in Seq(SmtpLines) : (a \o b) \o d = a \o (b \o d)
    BY ConcatAssociative, SMTT(30)
  <2>4. (s \o t) \o <<x>> = s \o (t \o <<x>>)
    BY <2>1, <2>3, Zenon
  <2> QED BY <2>2, <2>4
<1>5. \A s \in Seq(SmtpLines) : s \o << >> = s /\ << >> \o s = s
  BY ConcatEmptySeq, SMTT(30)
<1>6. \A s \in Seq(SmtpLines) : Len(s) \in Nat /\ (Len(s) = 0 <=> s = << >>)
  OBVIOUS
<1>7. << >> \in Seq(SmtpLines) /\ Len(<< >>) = 0
  OBVIOUS
<1> QED BY <1>1, <1>2, <1>3, <1>4, <1>5, <1>6, <1>7

\* What is left on the wire when one item was taken.
LEMMA WireTaken ==
  ASSUME NEW w \in Seq(SmtpItems), w # << >>
  PROVE  /\ w[1] \in SmtpItems /\ Tail(w) \in Seq(SmtpItems) /\ Len(w) \in Nat /\ Len(w) >= 1
         /\ Len(Tail(w)) + 1 = Len(w) /\ Len(Tail(w)) \in Nat
         /\ \A i \in 1 .. Len(Tail(w)) : Tail(w)[i] = w[i + 1]
         /\ Len(w) = 1 <=> Tail(w) = << >>
         /\ Len(w) = 2 => Tail(w) = <<w[2]>>
         /\ Len(w) >= 2 => Tail(w)[Len(Tail(w))] = w[Len(w)]
         /\ \A x : w = <<x>> => Len(w) = 1 /\ w[1] = x
         /\ \A x, y : w = <<x, y>> => Len(w) = 2 /\ w[1] = x /\ w[2] = y
<1> DEFINE t == Tail(w)
<1>1. /\ w[1] \in SmtpItems /\ t \in Seq(SmtpItems) /\ Len(w) \in Nat /\ Len(w) >= 1
      /\ Len(t) + 1 = Len(w) /\ Len(t) \in Nat
      /\ \A i \in 1 .. Len(t) : t[i] = w[i + 1]
  BY ItemsAre
<1> HIDE DEF t
<1>2. Len(w) = 1 <=> t = << >>
  BY <1>1
<1>3. Len(w) = 2 => t = <<w[2]>>
  <2> SUFFICES ASSUME Len(w) = 2 PROVE t = <<w[2]>>
    OBVIOUS
  <2>1. Len(t) = 1 /\ t[1] = w[2]
    <3>1. Len(t) = 1
      <4>1. \A x, y \in Nat : x + 1 = y /\ y = 2 => x = 1
        OBVIOUS
      <4> QED BY <4>1, <1>1, Zenon
    <3>2. 1 \in 1 .. Len(t) /\ 1 + 1 = 2
      BY <3>1
    <3>3. t[1] = w[1 + 1]
      BY <1>1, <3>2, Zenon
    <3> QED BY <3>1, <3>2, <3>3
  <2> QED BY <1>1, <2>1
<1>4. Len(w) >= 2 => t[Len(t)] = w[Len(w)]
  BY <1>1
<1>5. \A x : w = <<x>> => Len(w) = 1 /\ w[1] = x
  OBVIOUS
<1>6. \A x, y : w = <<x, y>> => Len(w) = 2 /\ w[1] = x /\ w[2] = y
  OBVIOUS
<1> QED BY <1>1, <1>2, <1>3, <1>4, <1>5, <1>6 DEF t

\* The parts of the state of a call.
LEMMA PartsOfCall ==
  ASSUME NEW c \in SmtpRecord, NEW r \in RelayRecord
  PROVE  /\ r.wire \in Seq(SmtpItems) /\ r.out \in Seq(SmtpLines) /\ r.inbox \in Seq(SmtpLines)
         /\ c.buf \in Seq(SmtpLines) /\ Heard(c, r) \in Seq(SmtpLines)
         /\ c.script \in Seq(SmtpAsks) /\ c.m \in Nat /\ Len(c.script) \in Nat
         /\ r.mail \in MailRecord /\ r.mail.text \in Seq(SmtpItems)
         /\ c.script # << >> => c.script[1] \in SmtpAsks /\ ToSay(c) \in Seq(SmtpItems)
<1>1. /\ r.wire \in Seq(SmtpItems) /\ r.out \in Seq(SmtpLines) /\ r.inbox \in Seq(SmtpLines)
      /\ c.buf \in Seq(SmtpLines) /\ c.script \in Seq(SmtpAsks) /\ c.m \in Nat
      /\ r.mail \in MailRecord
  BY DEF SmtpRecord, RelayRecord
<1>2. r.mail.text \in Seq(SmtpItems)
  BY <1>1 DEF MailRecord
<1>3. Len(c.script) \in Nat
  BY <1>1
<1>4. c.script # << >> => c.script[1] \in SmtpAsks
  BY <1>1
<1>5. c.script # << >> => ToSay(c) \in Seq(SmtpItems)
  BY <1>4 DEF SmtpAsks, ToSay
<1> QED BY <1>1, <1>2, <1>3, <1>4, <1>5, LinesAre DEF Heard

\* A call whose step, answers and mail are as they were is where it was.
LEMMA SameStep ==
  ASSUME NEW c, NEW r, NEW d, NEW q, NEW lines, AtStep(c, r, lines),
         d.op = c.op, d.m = c.m, d.script = c.script, Heard(d, q) = Heard(c, r),
         q.wire = r.wire, q.out = r.out, q.mail = r.mail, q.mode = r.mode, q.up = r.up,
         q.accepted = r.accepted
  PROVE  AtStep(d, q, lines)
<1>1. Place(d) = Place(c) /\ ToSay(d) = ToSay(c)
  BY DEF Place, ToSay
<1>2. \A mail : /\ MailClean(d, mail) <=> MailClean(c, mail)
                /\ MailIsOurs(d, mail) <=> MailIsOurs(c, mail)
  BY DEF MailClean, MailIsOurs
<1>3. \A wire, n : Ours(d, wire, n) <=> Ours(c, wire, n)
  BY DEF Ours
<1>4. \A say, wire : MailSaid(say, wire, d) <=> MailSaid(say, wire, c)
  BY DEF MailSaid
<1>5. MailTaken(d, q) <=> MailTaken(c, r)
  BY <1>2 DEF MailTaken
<1> DEFINE h == Heard(c, r)
           say == ToSay(c)
<1>6. Place(c) = 1 => AtRset(say, q.wire, h, q.out, d, q.mail, lines)
  BY <1>2 DEF AtStep, AtRset
<1>7. Place(c) = 2 => AtMail(say, q.wire, h, q.out, d, q.mail)
  BY <1>2, <1>4 DEF AtStep, AtMail
<1>8. Place(c) = 3 => AtRcpt(q.wire, h, q.out, d, q.mail)
  BY <1>2, <1>3 DEF AtStep, AtRcpt
<1>9. Place(c) = 4 => AtData(say, q.wire, h, q.out, d, q)
  BY <1>2, <1>3 DEF AtStep, AtData, AtRcpt
<1>10. Place(c) = 5 => AtText(say, q.wire, h, q.out, d, q)
  BY <1>2, <1>5 DEF AtStep, AtText
<1> QED BY <1>1, <1>6, <1>7, <1>8, <1>9, <1>10 DEF AtStep

\* What one command does: its answer is one, and what it leaves of a mail.
CommandTaken(item, r, q, lines) ==
  /\ r.mode # "text" /\ q.out # << >>
  /\ OneLine(item, lines) => WholeAnswer(q.out)
  /\ q.out[1].code # 354 => No354(q.out)
  /\ q.out[1].code = 250 /\ item = <<"RSET", 0>> => q.mail = NoMail
  /\ q.out[1].code = 250 /\ item[1] = "MAIL" => q.mail.from = item[2] /\ q.mail.to = 0
  /\ q.out[1].code = 354 =>
       item[1] = "DATA" /\ q.mode = "text" /\ q.mail = r.mail /\ r.mail.to # 0
  /\ q.mail.from \in {0, r.mail.from, item[2]} /\ q.mail.to \in {0, r.mail.to, item[2]}

\* A command of the call leaves its mail clean, and is not answered by 354 but for DATA.
LEMMA OursTaken ==
  ASSUME NEW c, NEW r, NEW q, NEW item, NEW lines, CommandTaken(item, r, q, lines),
         item \in {<<"RSET", 0>>, <<"MAIL", c.m>>, <<"RCPT", c.m>>, <<"DATA", 0>>},
         MailClean(c, r.mail)
  PROVE  /\ MailClean(c, q.mail) /\ WholeAnswer(q.out)
         /\ item # <<"DATA", 0>> => No354(q.out)
         /\ q.out[1].code = 354 /\ MailInMaking(r) =>
              q.mode = "text" /\ q.mail.text = << >> /\ MailIsOurs(c, q.mail)
<1>1. item[2] \in {0, c.m} /\ item[1] # "EHLO" /\ (item # <<"DATA", 0>> => item[1] # "DATA")
  OBVIOUS
<1>2. MailClean(c, q.mail)
  BY <1>1 DEF CommandTaken, MailClean
<1>3. WholeAnswer(q.out)
  BY <1>1 DEF CommandTaken, OneLine
<1>4. item # <<"DATA", 0>> => No354(q.out)
  BY <1>1 DEF CommandTaken
<1>5. q.out[1].code = 354 /\ MailInMaking(r) =>
        q.mode = "text" /\ q.mail.text = << >> /\ MailIsOurs(c, q.mail)
  <2> SUFFICES ASSUME q.out[1].code = 354, MailInMaking(r)
               PROVE  q.mode = "text" /\ q.mail.text = << >> /\ MailIsOurs(c, q.mail)
    OBVIOUS
  <2>1. q.mode = "text" /\ q.mail = r.mail /\ r.mail.to # 0 /\ r.mode # "text"
    BY DEF CommandTaken
  <2>2. r.mail.text = << >> /\ r.mail.from # 0
    BY <2>1 DEF MailInMaking
  <2>3. MailIsOurs(c, r.mail)
    BY <2>1, <2>2 DEF MailIsOurs, MailClean
  <2> QED BY <2>1, <2>2, <2>3
<1> QED BY <1>2, <1>3, <1>4, <1>5

\* The relay takes a command while a call is at its step.
LEMMA CommandAtStep ==
  ASSUME NEW c \in SmtpRecord, NEW r \in RelayRecord, NEW q \in RelayRecord, NEW lines,
         Place(c) \in 1 .. 5, MailInMaking(r), AtStep(c, r, lines), r.up, r.wire # << >>,
         r.out = << >>, q.wire = Tail(r.wire), q.inbox = r.inbox,
         CommandTaken(r.wire[1], r, q, lines)
  PROVE  AtStep(c, q, lines)
<1> DEFINE h == Heard(c, r)
           say == ToSay(c)
           w == r.wire
           v == Tail(r.wire)
           o == q.out
           item == r.wire[1]
<1>1. Heard(c, q) = h
  BY DEF Heard
<1>2. h \in Seq(SmtpLines) /\ w \in Seq(SmtpItems) /\ o \in Seq(SmtpLines)
  BY PartsOfCall
<1>3. o # << >> /\ ~NothingComes(h, o) /\ Len(<< >>) = 0
  BY DEF CommandTaken, NothingComes
<1>4. /\ v \in Seq(SmtpItems) /\ Len(w) \in Nat /\ Len(w) >= 1 /\ Len(v) + 1 = Len(w)
      /\ Len(v) \in Nat /\ \A i \in 1 .. Len(v) : v[i] = w[i + 1]
      /\ Len(w) = 1 <=> v = << >>
      /\ Len(w) = 2 => v = <<w[2]>>
      /\ Len(w) >= 2 => v[Len(v)] = w[Len(w)]
      /\ \A x : w = <<x>> => Len(w) = 1 /\ item = x
      /\ \A x, y : w = <<x, y>> => Len(w) = 2 /\ item = x /\ w[2] = y
  BY <1>2, WireTaken
<1>5. FirstCode(h, o) = IF h = << >> THEN o[1].code ELSE FirstCode(h, r.out)
  BY DEF FirstCode
<1>6. WholeAnswer(o) /\ h = << >> => OneAnswer(h, o)
  BY DEF OneAnswer
<1>7. No354(r.out)
  BY <1>3 DEF No354
<1>8. NothingComes(h, r.out) <=> h = << >>
  BY DEF NothingComes
<1>9. CommandTaken(item, r, q, lines)
  OBVIOUS
<1> HIDE DEF h, say, w, v, o, item
<1>10. ASSUME Place(c) = 1 PROVE AtRset(say, v, h, o, c, q.mail, lines)
  <2>1. AtRset(say, w, h, r.out, c, r.mail, lines)
    BY <1>10 DEF AtStep, h, say, w
  <2>2. ~(w = << >>)
    BY <1>3, <1>4
  <2>3. CASE say # << >> /\ Len(w) = 1 /\ OneLine(w[1], lines) /\ NothingComes(h, r.out)
    <3>1. WholeAnswer(o)
      BY <2>3, <1>9 DEF CommandTaken, item, w, o
    <3> QED BY <2>3, <3>1, <1>4, <1>6, <1>8 DEF AtRset
  <2>4. CASE /\ say = << >> /\ Len(w) = 2 /\ w[2] = <<"RSET", 0>>
             /\ OneLine(w[1], lines) /\ NothingComes(h, r.out)
    <3>1. WholeAnswer(o)
      BY <2>4, <1>9 DEF CommandTaken, item, w, o
    <3>2. v = << <<"RSET", 0>> >>
      BY <2>4, <1>4
    <3> QED BY <2>4, <3>1, <3>2, <1>6, <1>8 DEF AtRset
  <2>5. CASE say = << >> /\ w = << <<"RSET", 0>> >>
    <3>1. item = <<"RSET", 0>> /\ v = << >>
      BY <2>5, <1>4
    <3>2. WholeAnswer(o) /\ (o[1].code # 354 => No354(o)) /\ (o[1].code = 250 => q.mail = NoMail)
          /\ o[1].code # 354
      BY <3>1, <1>9 DEF CommandTaken, OneLine, o
    <3>3. MailClean(c, NoMail)
      BY DEF MailClean, NoMail
    <3> QED BY <2>5, <3>1, <3>2, <3>3 DEF AtRset
  <2> QED BY <2>1, <2>2, <2>3, <2>4, <2>5 DEF AtRset
<1>11. ASSUME Place(c) = 2 PROVE AtMail(say, v, h, o, c, q.mail)
  <2>1. AtMail(say, w, h, r.out, c, r.mail)
    BY <1>11 DEF AtStep, h, say, w
  <2>2. ~(w = << >>)
    BY <1>3, <1>4
  <2>3. CASE w = << <<"MAIL", c.m>> >> /\ say = << >>
    <3>1. item = <<"MAIL", c.m>> /\ v = << >> /\ item[1] = "MAIL" /\ item[2] = c.m
      BY <2>3, <1>4
    <3>2. No354(o) /\ (o[1].code = 250 => q.mail.from = c.m /\ q.mail.to = 0)
      BY <3>1, <1>9 DEF CommandTaken, o
    <3>3. CASE h = << >>
      <4>1. FirstCode(h, o) = o[1].code
        BY <3>3, <1>5
      <4>2. o[1].code = 250 => MailClean(c, q.mail)
        BY <3>2 DEF MailClean
      <4>3. No354(h)
        BY <3>3, <1>3 DEF No354
      <4> QED BY <3>1, <3>2, <4>1, <4>2, <4>3, <1>3 DEF AtMail, MailSaid
    <3>4. CASE h # << >>
      <4>1. No354(h) /\ (FirstCode(h, r.out) = 250 => MailClean(c, r.mail))
        BY <2>1, <3>4, <1>8 DEF AtMail
      <4>2. FirstCode(h, o) = FirstCode(h, r.out)
        BY <3>4, <1>5
      <4>3. MailClean(c, r.mail) => MailClean(c, q.mail)
        BY <3>1, <1>9, OursTaken
      <4> QED BY <3>1, <3>2, <4>1, <4>2, <4>3, <1>3 DEF AtMail, MailSaid
    <3> QED BY <3>3, <3>4
  <2>4. CASE /\ NothingComes(h, r.out)
             /\ \/ w = << <<"RSET", 0>> >>
                \/ say = << >> /\ w = << <<"RSET", 0>>, <<"MAIL", c.m>> >>
    <3>1. item = <<"RSET", 0>> /\ MailSaid(say, v, c)
      BY <2>4, <1>4 DEF MailSaid
    <3>2. No354(o) /\ (o[1].code = 250 => q.mail = NoMail)
      BY <3>1, <1>9 DEF CommandTaken, o
    <3>3. h = << >> /\ No354(h)
      BY <2>4, <1>3, <1>8 DEF No354
    <3>4. FirstCode(h, o) = o[1].code
      BY <3>3, <1>5
    <3>5. MailClean(c, NoMail)
      BY DEF MailClean, NoMail
    <3> QED BY <3>1, <3>2, <3>3, <3>4, <3>5, <1>3 DEF AtMail
  <2> QED BY <2>1, <2>2, <2>3, <2>4 DEF AtMail, MailSaid
<1>12. ASSUME AtRcpt(w, h, r.out, c, r.mail) PROVE AtRcpt(v, h, o, c, q.mail)
  <2>1. MailClean(c, r.mail) /\ No354(h) /\ Ours(c, w, Len(w))
    BY <1>12 DEF AtRcpt
  <2>2. item \in {<<"RSET", 0>>, <<"MAIL", c.m>>, <<"RCPT", c.m>>}
    <3>1. 1 \in 1 .. Len(w)
      BY <1>4
    <3> QED BY <2>1, <3>1 DEF Ours, item, w
  <2>3. MailClean(c, q.mail) /\ No354(o)
    BY <2>1, <2>2, <1>9, OursTaken DEF o
  <2>4. Ours(c, v, Len(v))
    BY <2>1, <1>4 DEF Ours
  <2> QED BY <2>1, <2>3, <2>4 DEF AtRcpt
<1>13. ASSUME Place(c) = 3 PROVE AtRcpt(v, h, o, c, q.mail)
  <2>1. AtRcpt(w, h, r.out, c, r.mail)
    BY <1>13 DEF AtStep, h, w
  <2> QED BY <2>1, <1>12
<1>14. ASSUME Place(c) = 4 PROVE AtData(say, v, h, o, c, q)
  <2>1. AtData(say, w, h, r.out, c, r)
    BY <1>14 DEF AtStep, h, say, w
  <2>2. ~(w = << >>)
    BY <1>3, <1>4
  <2>3. CASE say # << >> /\ AtRcpt(w, h, r.out, c, r.mail)
    BY <2>3, <1>12 DEF AtData
  <2>4. CASE /\ say = << >> /\ MailClean(c, r.mail) /\ No354(h)
             /\ w[Len(w)] = <<"DATA", 0>> /\ Ours(c, w, Len(w) - 1)
    <3>1. CASE Len(w) = 1
      <4>1. item = <<"DATA", 0>> /\ v = << >>
        BY <2>4, <3>1, <1>4 DEF item, w
      <4>2. /\ WholeAnswer(o)
            /\ o[1].code = 354 => q.mode = "text" /\ q.mail.text = << >> /\ MailIsOurs(c, q.mail)
        BY <2>4, <4>1, <1>9, OursTaken DEF o
      <4>3. CASE h = << >> /\ o[1].code = 354
        BY <2>4, <4>1, <4>2, <4>3, <1>3, <1>5, <1>6 DEF AtData
      <4>4. CASE h = << >> /\ o[1].code # 354
        BY <2>4, <4>1, <4>4, <1>5 DEF AtData
      <4>5. CASE h # << >>
        <5>1. Len(h) \in Nat /\ Len(h) >= 1
          BY <4>5, <1>2, LinesAre
        <5>2. h[1].code # 354
          BY <2>4, <5>1 DEF No354
        <5>3. FirstCode(h, o) # 354
          BY <4>5, <5>2 DEF FirstCode
        <5> QED BY <2>4, <4>1, <5>3 DEF AtData
      <4> QED BY <4>3, <4>4, <4>5
    <3>2. CASE Len(w) # 1
      <4>1. Len(w) >= 2 /\ 1 \in 1 .. Len(w) - 1
        BY <3>2, <1>4
      <4>2. item \in {<<"RSET", 0>>, <<"MAIL", c.m>>, <<"RCPT", c.m>>}
        BY <2>4, <4>1 DEF Ours, item, w
      <4>3. MailClean(c, q.mail) /\ No354(o)
        <5>1. item # <<"DATA", 0>>
          BY <4>2
        <5> QED BY <2>4, <4>2, <5>1, <1>9, OursTaken DEF o
      <4>4. Ours(c, v, Len(v) - 1) /\ v[Len(v)] = <<"DATA", 0>> /\ v # << >>
        BY <2>4, <4>1, <1>4 DEF Ours
      <4> QED BY <2>4, <4>3, <4>4 DEF AtData
    <3> QED BY <3>1, <3>2
  <2> QED BY <2>1, <2>2, <2>3, <2>4 DEF AtData
<1>15. ASSUME Place(c) = 5 PROVE AtText(say, v, h, o, c, q)
  <2>1. AtText(say, w, h, r.out, c, r)
    BY <1>15 DEF AtStep, h, say, w
  <2>2. ~(w = << >>) /\ r.mode # "text" /\ r.up
    BY <1>3, <1>4, <1>9 DEF CommandTaken
  <2> QED BY <2>1, <2>2 DEF AtText
<1> QED BY <1>1, <1>10, <1>11, <1>13, <1>14, <1>15 DEF AtStep, h, say, v, o

\* What one line of a text does: the line with the dot ends it, and is answered.
TextTaken(item, r, q) ==
  /\ r.mode = "text"
  /\ item[1] # "." =>
       /\ q.out = << >> /\ q.mode = "text" /\ q.mail.text = Append(r.mail.text, item)
       /\ q.mail.from = r.mail.from /\ q.mail.to = r.mail.to
  /\ item[1] = "." =>
       /\ q.out # << >> /\ WholeAnswer(q.out)
       /\ q.out[1].code = 250 => q.accepted = Append(r.accepted, r.mail)

\* A text that has come up to its dot is whole.
LEMMA TextWhole ==
  ASSUME NEW op, NEW m \in Nat, NEW text \in Seq(SmtpItems), NEW wire \in Seq(SmtpItems),
         NEW say \in Seq(SmtpItems), wire # << >>, InText(text, wire, say, StepOf(op, m, 5).say)
  PROVE  /\ wire[1][1] = "." => text = TextOf(op, m) /\ Tail(wire) = << >> /\ say = << >>
         /\ wire[1][1] # "." =>
              InText(Append(text, wire[1]), Tail(wire), say, StepOf(op, m, 5).say)
<1> DEFINE t == TextOf(op, m)
           all == Append(t, <<".", 0>>)
           v == Tail(wire)
<1>1. StepOf(op, m, 5).say = all
  BY StepsAre
<1>2. t \in Seq(SmtpItems) /\ \A i \in 1 .. Len(t) : t[i][1] # "."
  BY StepsAre
<1> HIDE DEF t
<1>3. <<".", 0>> \in SmtpItems
  BY ItemsAre DEF SmtpWords
<1>4. /\ all \in Seq(SmtpItems) /\ Len(all) = Len(t) + 1 /\ all[Len(t) + 1] = <<".", 0>>
      /\ \A i \in 1 .. Len(t) : all[i] = t[i]
  BY <1>2, <1>3, ItemsAre
<1>5. /\ v \in Seq(SmtpItems) /\ Len(wire) \in Nat /\ Len(wire) >= 1 /\ Len(v) + 1 = Len(wire)
      /\ Len(v) \in Nat /\ (\A i \in 1 .. Len(v) : v[i] = wire[i + 1])
      /\ (Len(wire) = 1 <=> v = << >>) /\ wire[1] \in SmtpItems
  BY WireTaken
<1>6. Len(text) \in Nat /\ Len(say) \in Nat /\ Len(t) \in Nat /\ (Len(say) = 0 <=> say = << >>)
  BY <1>2
<1> HIDE DEF all, v
<1>7. /\ Len(text) + Len(wire) + Len(say) = Len(t) + 1
      /\ \A i \in 1 .. Len(text) : text[i] = all[i]
      /\ \A i \in 1 .. Len(wire) : wire[i] = all[Len(text) + i]
      /\ \A i \in 1 .. Len(say) : say[i] = all[Len(text) + Len(wire) + i]
  BY <1>1, <1>4 DEF InText
<1>8. wire[1] = all[Len(text) + 1]
  BY <1>5, <1>7
<1>9. ASSUME wire[1][1] = "." PROVE text = t /\ v = << >> /\ say = << >>
  <2>1. Len(text) <= Len(t)
    BY <1>5, <1>6, <1>7
  <2>2. Len(text) = Len(t)
    <3> SUFFICES ASSUME Len(text) # Len(t) PROVE FALSE
      OBVIOUS
    <3>1. Len(text) + 1 \in 1 .. Len(t)
      BY <2>1, <1>6
    <3>2. wire[1] = t[Len(text) + 1]
      BY <3>1, <1>4, <1>8
    <3> QED BY <3>1, <3>2, <1>2, <1>9
  <2>3. \A i \in 1 .. Len(t) : text[i] = t[i]
    BY <2>2, <1>4, <1>7
  <2>4. Len(wire) = 1 /\ Len(say) = 0
    BY <2>2, <1>5, <1>6, <1>7
  <2>5. text = t
    BY <2>2, <2>3, <1>2
  <2> QED BY <2>4, <2>5, <1>5, <1>6
<1>10. ASSUME wire[1][1] # "." PROVE InText(Append(text, wire[1]), v, say, all)
  <2> DEFINE u == Append(text, wire[1])
  <2>1. /\ u \in Seq(SmtpItems) /\ Len(u) = Len(text) + 1 /\ u[Len(text) + 1] = wire[1]
        /\ \A i \in 1 .. Len(text) : u[i] = text[i]
    BY <1>5, ItemsAre
  <2> HIDE DEF u
  <2>2. \A i \in 1 .. Len(u) : u[i] = all[i]
    <3> SUFFICES ASSUME NEW i \in 1 .. Len(u) PROVE u[i] = all[i]
      OBVIOUS
    <3>1. CASE i = Len(text) + 1
      BY <3>1, <2>1, <1>8
    <3>2. CASE i # Len(text) + 1
      <4>1. i \in 1 .. Len(text)
        BY <3>2, <2>1, <1>6
      <4> QED BY <4>1, <2>1, <1>7
    <3> QED BY <3>1, <3>2
  <2>3. \A i \in 1 .. Len(v) : v[i] = all[Len(u) + i]
    <3> SUFFICES ASSUME NEW i \in 1 .. Len(v) PROVE v[i] = all[Len(u) + i]
      OBVIOUS
    <3>1. i + 1 \in 1 .. Len(wire) /\ Len(text) + (i + 1) = Len(u) + i
      BY <2>1, <1>5, <1>6
    <3>2. wire[i + 1] = all[Len(text) + (i + 1)]
      BY <3>1, <1>7
    <3> QED BY <3>1, <3>2, <1>5
  <2>4. Len(u) + Len(v) = Len(text) + Len(wire)
    <3>1. \A b, d \in Nat : (b + 1) + d = b + (d + 1)
      OBVIOUS
    <3>2. (Len(text) + 1) + Len(v) = Len(text) + (Len(v) + 1)
      BY <3>1, <1>5, <1>6
    <3>3. Len(u) = Len(text) + 1 /\ Len(v) + 1 = Len(wire)
      BY <2>1, <1>5
    <3> QED BY <3>2, <3>3, Zenon
  <2>5. \A i \in 1 .. Len(say) : say[i] = all[Len(u) + Len(v) + i]
    BY <2>4, <1>7
  <2>6. Len(u) + Len(v) + Len(say) = Len(all)
    BY <2>4, <1>4, <1>7
  <2> QED BY <2>2, <2>3, <2>5, <2>6 DEF InText, u
<1> QED BY <1>1, <1>9, <1>10 DEF t, v

\* The relay takes a line of a text while a call is at its step.
LEMMA TextAtStep ==
  ASSUME NEW c \in SmtpRecord, NEW r \in RelayRecord, NEW q \in RelayRecord, NEW lines,
         Place(c) \in 1 .. 5, AtStep(c, r, lines), r.up, r.wire # << >>, c.script # << >>,
         r.out = << >>, q.wire = Tail(r.wire), q.inbox = r.inbox, TextTaken(r.wire[1], r, q)
  PROVE  AtStep(c, q, lines)
<1> DEFINE h == Heard(c, r)
           say == ToSay(c)
           w == r.wire
           v == Tail(r.wire)
           o == q.out
           item == r.wire[1]
<1>1. Heard(c, q) = h
  BY DEF Heard
<1>2. /\ h \in Seq(SmtpLines) /\ w \in Seq(SmtpItems) /\ o \in Seq(SmtpLines)
      /\ say \in Seq(SmtpItems) /\ r.mail.text \in Seq(SmtpItems) /\ c.m \in Nat
  BY PartsOfCall
<1>3. Len(<< >>) = 0
  OBVIOUS
<1>4. /\ v \in Seq(SmtpItems) /\ Len(w) \in Nat /\ Len(w) >= 1 /\ Len(v) + 1 = Len(w)
      /\ Len(v) \in Nat /\ \A i \in 1 .. Len(v) : v[i] = w[i + 1]
      /\ Len(w) = 1 <=> v = << >>
      /\ Len(w) = 2 => v = <<w[2]>>
      /\ Len(w) >= 2 => v[Len(v)] = w[Len(w)]
      /\ \A x : w = <<x>> => Len(w) = 1 /\ item = x
      /\ \A x, y : w = <<x, y>> => Len(w) = 2 /\ item = x /\ w[2] = y
  BY <1>2, WireTaken
<1>5. NothingComes(h, r.out) <=> h = << >>
  BY DEF NothingComes
<1>6. OneAnswer(h, << >>) /\ (h = << >> /\ WholeAnswer(o) => OneAnswer(h, o))
  BY DEF OneAnswer
<1>7. TextTaken(item, r, q) /\ r.out = << >>
  OBVIOUS
<1>8. item[1] # "." =>
        /\ o = r.out /\ q.mode = "text" /\ q.mail.text = Append(r.mail.text, item)
        /\ q.mail.from = r.mail.from /\ q.mail.to = r.mail.to
  BY <1>7 DEF TextTaken, o
<1>9. item[1] # "." =>
        /\ MailClean(c, r.mail) => MailClean(c, q.mail)
        /\ MailIsOurs(c, r.mail) => MailIsOurs(c, q.mail)
  BY <1>8 DEF MailClean, MailIsOurs
<1>10. h = << >> => OneAnswer(h, o)
  BY <1>6, <1>7, <1>8 DEF TextTaken, o
<1> HIDE DEF h, say, w, v, o, item
<1>11. ASSUME Place(c) = 1 PROVE AtRset(say, v, h, o, c, q.mail, lines)
  <2>1. AtRset(say, w, h, r.out, c, r.mail, lines)
    BY <1>11 DEF AtStep, h, say, w
  <2>2. ~(w = << >>)
    BY <1>3, <1>4
  <2>3. CASE say # << >> /\ Len(w) = 1 /\ NothingComes(h, r.out)
    BY <2>3, <1>4, <1>5, <1>10 DEF AtRset
  <2>4. CASE say = << >> /\ Len(w) = 2 /\ w[2] = <<"RSET", 0>> /\ NothingComes(h, r.out)
    <3>1. v = << <<"RSET", 0>> >>
      BY <2>4, <1>4
    <3> QED BY <2>4, <3>1, <1>5, <1>10 DEF AtRset
  <2>5. CASE say = << >> /\ w = << <<"RSET", 0>> >>
    <3>1. item = <<"RSET", 0>> /\ v = << >>
      BY <2>5, <1>4
    <3>2. item[1] # "."
      BY <3>1
    <3>3. o = << >>
      BY <3>2, <1>7, <1>8
    <3> QED BY <2>5, <3>1, <3>3, <1>6 DEF AtRset
  <2> QED BY <2>1, <2>2, <2>3, <2>4, <2>5 DEF AtRset
<1>12. ASSUME Place(c) = 2 PROVE AtMail(say, v, h, o, c, q.mail)
  <2>1. AtMail(say, w, h, r.out, c, r.mail)
    BY <1>12 DEF AtStep, h, say, w
  <2>2. ~(w = << >>)
    BY <1>3, <1>4
  <2>3. item \in {<<"RSET", 0>>, <<"MAIL", c.m>>} /\ MailSaid(say, v, c)
    <3>1. CASE w = << <<"MAIL", c.m>> >>
      <4>1. item = <<"MAIL", c.m>> /\ v = << >>
        BY <3>1, <1>4
      <4> QED BY <4>1 DEF MailSaid
    <3>2. CASE w = << <<"RSET", 0>> >>
      <4>1. item = <<"RSET", 0>> /\ v = << >>
        BY <3>2, <1>4
      <4> QED BY <4>1 DEF MailSaid
    <3>3. CASE say = << >> /\ w = << <<"RSET", 0>>, <<"MAIL", c.m>> >>
      <4>1. item = <<"RSET", 0>> /\ v = << <<"MAIL", c.m>> >>
        BY <3>3, <1>4
      <4> QED BY <3>3, <4>1 DEF MailSaid
    <3> QED BY <2>1, <2>2, <3>1, <3>2, <3>3 DEF AtMail, MailSaid
  <2>4. item[1] # "."
    BY <2>3
  <2>5. o = r.out /\ (MailClean(c, r.mail) => MailClean(c, q.mail))
    BY <2>4, <1>8, <1>9
  <2>6. CASE NothingComes(h, r.out)
    BY <2>3, <2>5, <2>6 DEF AtMail
  <2>7. CASE ~NothingComes(h, r.out)
    BY <2>1, <2>3, <2>5, <2>7 DEF AtMail
  <2> QED BY <2>6, <2>7
<1>13. ASSUME AtRcpt(w, h, r.out, c, r.mail) PROVE AtRcpt(v, h, o, c, q.mail)
  <2>1. MailClean(c, r.mail) /\ No354(h) /\ Ours(c, w, Len(w)) /\ No354(r.out)
    BY <1>13 DEF AtRcpt
  <2>2. item \in {<<"RSET", 0>>, <<"MAIL", c.m>>, <<"RCPT", c.m>>}
    <3>1. 1 \in 1 .. Len(w)
      BY <1>4
    <3> QED BY <2>1, <3>1 DEF Ours, item, w
  <2>3. item[1] # "."
    BY <2>2
  <2>4. Ours(c, v, Len(v))
    BY <2>1, <1>4 DEF Ours
  <2> QED BY <2>1, <2>3, <2>4, <1>8, <1>9 DEF AtRcpt
<1>14. ASSUME Place(c) = 3 PROVE AtRcpt(v, h, o, c, q.mail)
  <2>1. AtRcpt(w, h, r.out, c, r.mail)
    BY <1>14 DEF AtStep, h, w
  <2> QED BY <2>1, <1>13
<1>15. ASSUME Place(c) = 4 PROVE AtData(say, v, h, o, c, q)
  <2>1. AtData(say, w, h, r.out, c, r)
    BY <1>15 DEF AtStep, h, say, w
  <2>2. ~(w = << >>)
    BY <1>3, <1>4
  <2>3. CASE say # << >> /\ AtRcpt(w, h, r.out, c, r.mail)
    BY <2>3, <1>13 DEF AtData
  <2>4. CASE /\ say = << >> /\ MailClean(c, r.mail) /\ No354(h) /\ No354(r.out)
             /\ w[Len(w)] = <<"DATA", 0>> /\ Ours(c, w, Len(w) - 1)
    <3>1. CASE Len(w) = 1
      <4>1. item = <<"DATA", 0>> /\ v = << >>
        BY <2>4, <3>1, <1>4 DEF item, w
      <4>2. item[1] # "."
        BY <4>1
      <4>3. o = r.out
        BY <4>2, <1>8
      <4>4. NothingComes(h, o) \/ FirstCode(h, o) # 354
        <5>1. CASE h = << >>
          BY <5>1, <4>3, <1>5
        <5>2. CASE h # << >>
          <6>1. Len(h) \in Nat /\ Len(h) >= 1
            BY <5>2, <1>2, LinesAre
          <6>2. h[1].code # 354
            BY <2>4, <6>1 DEF No354
          <6> QED BY <5>2, <6>2 DEF FirstCode
        <5> QED BY <5>1, <5>2
      <4> QED BY <2>4, <4>1, <4>4 DEF AtData
    <3>2. CASE Len(w) # 1
      <4>1. Len(w) >= 2 /\ 1 \in 1 .. Len(w) - 1
        BY <3>2, <1>4
      <4>2. item \in {<<"RSET", 0>>, <<"MAIL", c.m>>, <<"RCPT", c.m>>}
        BY <2>4, <4>1 DEF Ours, item, w
      <4>3. item[1] # "."
        BY <4>2
      <4>4. Ours(c, v, Len(v) - 1) /\ v[Len(v)] = <<"DATA", 0>> /\ v # << >>
        BY <2>4, <4>1, <1>4 DEF Ours
      <4> QED BY <2>4, <4>3, <4>4, <1>8, <1>9 DEF AtData
    <3> QED BY <3>1, <3>2
  <2> QED BY <2>1, <2>2, <2>3, <2>4 DEF AtData
<1>16. ASSUME Place(c) = 5 PROVE AtText(say, v, h, o, c, q)
  <2> DEFINE all == StepOf(c.op, c.m, 5).say
  <2>1. AtText(say, w, h, r.out, c, r)
    BY <1>16 DEF AtStep, h, say, w
  <2>2. w # << >>
    BY <1>3, <1>4
  <2>3. h = << >> /\ MailIsOurs(c, r.mail) /\ InText(r.mail.text, w, say, all)
    BY <2>1, <2>2, <1>5 DEF AtText
  <2>4. /\ w[1][1] = "." => r.mail.text = TextOf(c.op, c.m) /\ Tail(w) = << >> /\ say = << >>
        /\ w[1][1] # "." => InText(Append(r.mail.text, w[1]), Tail(w), say, all)
    BY <2>2, <2>3, <1>2, TextWhole
  <2>5. w[1] = item /\ Tail(w) = v
    BY DEF w, item, v
  <2>6. CASE item[1] # "."
    <3>1. InText(q.mail.text, v, say, all) /\ NothingComes(h, o) /\ MailIsOurs(c, q.mail)
          /\ q.mode = "text"
      BY <2>3, <2>4, <2>5, <2>6, <1>5, <1>8, <1>9
    <3> QED BY <3>1 DEF AtText
  <2>7. CASE item[1] = "."
    <3>1. r.mail.text = TextOf(c.op, c.m) /\ v = << >> /\ say = << >>
      BY <2>4, <2>5, <2>7
    <3>2. o # << >> /\ (o[1].code = 250 => q.accepted = Append(r.accepted, r.mail))
      BY <1>7, <2>7 DEF TextTaken, o
    <3>3. ~NothingComes(h, o) /\ FirstCode(h, o) = o[1].code
      BY <2>3, <3>2 DEF NothingComes, FirstCode
    <3>4. q.accepted = Append(r.accepted, r.mail) => MailTaken(c, q)
      <4> SUFFICES ASSUME q.accepted = Append(r.accepted, r.mail) PROVE MailTaken(c, q)
        OBVIOUS
      <4> DEFINE a == Append(r.accepted, r.mail)
      <4>1. r.accepted \in Seq(MailRecord) /\ r.mail \in MailRecord
        BY DEF RelayRecord
      <4>2. a # << >> /\ a[Len(a)] = r.mail
        <5>1. Len(a) = Len(r.accepted) + 1 /\ a[Len(r.accepted) + 1] = r.mail
              /\ Len(r.accepted) \in Nat
          BY <4>1
        <5>2. Len(a) # 0
          BY <5>1
        <5> QED BY <5>1, <5>2, <1>3
      <4>3. q.accepted = a
        OBVIOUS
      <4> HIDE DEF a
      <4> QED BY <4>2, <4>3, <3>1, <2>3 DEF MailTaken
    <3> QED BY <3>1, <3>2, <3>3, <3>4 DEF AtText
  <2> QED BY <2>6, <2>7
<1> QED BY <1>1, <1>11, <1>12, <1>14, <1>15, <1>16 DEF AtStep, h, say, v, o

\* A line comes while a call is at its step.
LEMMA SaidAtStep ==
  ASSUME NEW c \in SmtpRecord, NEW r \in RelayRecord, NEW q \in RelayRecord, NEW lines,
         AtStep(c, r, lines), r.out # << >>, q.wire = r.wire, q.mail = r.mail, q.mode = r.mode,
         q.accepted = r.accepted, q.inbox = Append(r.inbox, Head(r.out)), q.out = Tail(r.out)
  PROVE  AtStep(c, q, lines)
<1> DEFINE g == Heard(c, r)
           h == Heard(c, q)
           say == ToSay(c)
           p == r.out
           o == q.out
<1>1. /\ g \in Seq(SmtpLines) /\ p \in Seq(SmtpLines) /\ o \in Seq(SmtpLines)
      /\ p # << >> /\ r.inbox \in Seq(SmtpLines) /\ c.buf \in Seq(SmtpLines)
  BY PartsOfCall
<1>2. /\ Len(p) >= 1 /\ Head(p) = p[1] /\ p[1] \in SmtpLines /\ Len(o) + 1 = Len(p)
      /\ (\A i \in 1 .. Len(o) : o[i] = p[i + 1]) /\ (Len(p) = 1 <=> o = << >>)
      /\ Len(p) \in Nat /\ Len(o) \in Nat
  <2>1. o = Tail(p)
    OBVIOUS
  <2> HIDE DEF o, p
  <2>2. /\ Len(p) >= 1 /\ Head(p) = p[1] /\ p[1] \in SmtpLines /\ Len(Tail(p)) + 1 = Len(p)
        /\ (\A i \in 1 .. Len(Tail(p)) : Tail(p)[i] = p[i + 1])
        /\ (Len(p) = 1 <=> Tail(p) = << >>)
    BY <1>1, LinesAre, Zenon
  <2>3. Len(p) \in Nat /\ Len(o) \in Nat
    BY <1>1
  <2> QED BY <2>1, <2>2, <2>3, Zenon
<1>3. h = Append(g, p[1])
  <2>1. h = c.buf \o Append(r.inbox, p[1])
    BY <1>2 DEF Heard
  <2>2. c.buf \o Append(r.inbox, p[1]) = Append(c.buf \o r.inbox, p[1])
    <3>1. r.inbox \in Seq(SmtpLines) /\ c.buf \in Seq(SmtpLines) /\ p[1] \in SmtpLines
      BY <1>1, <1>2
    <3>2. \A s, t \in Seq(SmtpLines), x \in SmtpLines :
            s \o Append(t, x) = Append(s \o t, x)
      BY LinesAre
    <3>3. c.buf \o Append(r.inbox, p[1]) = Append(c.buf \o r.inbox, p[1])
      BY <3>1, <3>2, Zenon
    <3> QED BY <3>3
  <2> QED BY <2>1, <2>2 DEF Heard
<1> HIDE DEF g, h, say, p, o
<1>4. /\ h \in Seq(SmtpLines) /\ Len(h) = Len(g) + 1 /\ h[Len(g) + 1] = p[1]
      /\ (\A i \in 1 .. Len(g) : h[i] = g[i]) /\ h # << >> /\ Len(g) \in Nat
      /\ (Len(g) = 0 <=> g = << >>) /\ h[Len(h)] = p[1]
  BY <1>1, <1>2, <1>3, LinesAre
<1>5. ~NothingComes(g, p) /\ ~NothingComes(h, o)
  BY <1>1, <1>4 DEF NothingComes
<1>6. FirstCode(h, o) = FirstCode(g, p)
  <2>1. CASE g = << >>
    <3>1. h[1] = p[1]
      BY <2>1, <1>4
    <3> QED BY <2>1, <3>1, <1>4 DEF FirstCode
  <2>2. CASE g # << >>
    <3>1. 1 \in 1 .. Len(g)
      BY <2>2, <1>4
    <3>2. h[1] = g[1]
      BY <3>1, <1>4
    <3> QED BY <2>2, <3>2, <1>4 DEF FirstCode
  <2> QED BY <2>1, <2>2
<1>7. No354(p) => No354(o) /\ p[1].code # 354
  BY <1>2 DEF No354
<1>8. No354(g) /\ No354(p) => No354(h) /\ No354(o)
  <2> SUFFICES ASSUME No354(g), No354(p) PROVE No354(h)
    BY <1>7
  <2> SUFFICES ASSUME NEW i \in 1 .. Len(h) PROVE h[i].code # 354
    BY DEF No354
  <2>1. CASE i = Len(g) + 1
    BY <2>1, <1>4, <1>7
  <2>2. CASE i # Len(g) + 1
    <3>1. i \in 1 .. Len(g)
      BY <2>2, <1>4
    <3> QED BY <3>1, <1>4 DEF No354
  <2> QED BY <2>1, <2>2
<1>9. WholeAnswer(p) => OneAnswer(h, o)
  <2>1. CASE Len(p) = 1
    BY <2>1, <1>2 DEF OneAnswer
  <2>2. CASE Len(p) = 2 /\ ~p[1].nl
    <3>1. Len(o) = 1
      <4>1. \A x, y \in Nat : x + 1 = y /\ y = 2 => x = 1
        OBVIOUS
      <4>2. Len(o) \in Nat /\ Len(p) \in Nat /\ Len(o) + 1 = Len(p)
        BY <1>2
      <4> QED BY <4>1, <4>2, <2>2, Zenon
    <3> QED BY <2>2, <3>1, <1>4 DEF OneAnswer
  <2> QED BY <2>1, <2>2 DEF WholeAnswer
<1>10. OneAnswer(g, p) => OneAnswer(h, o)
  <2>1. CASE Len(p) = 1
    BY <2>1, <1>2 DEF OneAnswer
  <2>2. CASE WholeAnswer(p)
    BY <2>2, <1>9
  <2> QED BY <2>1, <2>2, <1>1 DEF OneAnswer
<1>11. ASSUME Place(c) = 1 PROVE AtRset(say, r.wire, h, o, c, r.mail, lines)
  <2>1. AtRset(say, r.wire, g, p, c, r.mail, lines)
    BY <1>11 DEF AtStep, g, say, p
  <2>2. CASE OneAnswer(g, p) /\ say # << >> /\ r.wire = << >>
    BY <2>2, <1>10 DEF AtRset
  <2>3. CASE say = << >> /\ r.wire \in {<< <<"RSET", 0>> >>, << >>} /\ OneAnswer(g, p)
    BY <2>3, <1>10 DEF AtRset
  <2>4. CASE say = << >> /\ r.wire = << >> /\ WholeAnswer(p)
    BY <2>4, <1>9 DEF AtRset
  <2> QED BY <2>1, <2>2, <2>3, <2>4, <1>5 DEF AtRset
<1>12. ASSUME Place(c) = 2 PROVE AtMail(say, r.wire, h, o, c, r.mail)
  <2>1. AtMail(say, r.wire, g, p, c, r.mail)
    BY <1>12 DEF AtStep, g, say, p
  <2> QED BY <2>1, <1>5, <1>6, <1>8 DEF AtMail
<1>13. ASSUME Place(c) = 3 PROVE AtRcpt(r.wire, h, o, c, r.mail)
  <2>1. AtRcpt(r.wire, g, p, c, r.mail)
    BY <1>13 DEF AtStep, g, p
  <2> QED BY <2>1, <1>8 DEF AtRcpt
<1>14. ASSUME Place(c) = 4 PROVE AtData(say, r.wire, h, o, c, q)
  <2>1. AtData(say, r.wire, g, p, c, r)
    BY <1>14 DEF AtStep, g, say, p
  <2> QED BY <2>1, <1>5, <1>6, <1>8, <1>10 DEF AtData, AtRcpt
<1>15. ASSUME Place(c) = 5 PROVE AtText(say, r.wire, h, o, c, q)
  <2>1. AtText(say, r.wire, g, p, c, r)
    BY <1>15 DEF AtStep, g, say, p
  <2>2. MailTaken(c, r) => MailTaken(c, q)
    BY DEF MailTaken
  <2> QED BY <2>1, <2>2, <1>5, <1>6 DEF AtText
<1> QED BY <1>11, <1>12, <1>13, <1>14, <1>15 DEF AtStep, h, say, o

\* The connection breaks while a call is at its step.
LEMMA BrokenAtStep ==
  ASSUME NEW c \in SmtpRecord, NEW r \in RelayRecord, NEW q \in RelayRecord, NEW lines,
         AtStep(c, r, lines), r.up, ~q.up, q.wire = << >>, q.mail = r.mail, q.mode = r.mode,
         q.accepted = r.accepted, q.inbox = r.inbox, q.out = << >>
  PROVE  AtStep(c, q, lines)
<1> DEFINE h == Heard(c, r)
           say == ToSay(c)
           p == r.out
<1>1. Heard(c, q) = h
  BY DEF Heard
<1>2. h \in Seq(SmtpLines) /\ p \in Seq(SmtpLines) /\ Len(<< >>) = 0
  BY PartsOfCall
<1>3. OneAnswer(h, << >>) /\ No354(<< >>) /\ Ours(c, << >>, Len(<< >>))
  BY <1>2 DEF OneAnswer, No354, Ours
<1> HIDE DEF h, say, p
<1>4. h = << >> => NothingComes(h, << >>)
  BY DEF NothingComes
<1>5. h # << >> => /\ FirstCode(h, << >>) = FirstCode(h, p)
                   /\ ~NothingComes(h, << >>) /\ ~NothingComes(h, p)
  BY DEF FirstCode, NothingComes
<1>6. ASSUME Place(c) = 1 PROVE AtRset(say, << >>, h, << >>, c, r.mail, lines)
  BY <1>3 DEF AtRset
<1>7. ASSUME Place(c) = 2 PROVE AtMail(say, << >>, h, << >>, c, r.mail)
  <2>1. AtMail(say, r.wire, h, p, c, r.mail)
    BY <1>7 DEF AtStep, h, say, p
  <2>2. CASE h = << >>
    BY <2>2, <1>4 DEF AtMail, MailSaid
  <2>3. CASE h # << >>
    BY <2>1, <2>3, <1>3, <1>5 DEF AtMail, MailSaid
  <2> QED BY <2>2, <2>3
<1>8. ASSUME Place(c) = 3 PROVE AtRcpt(<< >>, h, << >>, c, r.mail)
  <2>1. AtRcpt(r.wire, h, p, c, r.mail)
    BY <1>8 DEF AtStep, h, p
  <2> QED BY <2>1, <1>3 DEF AtRcpt
<1>9. ASSUME Place(c) = 4 PROVE AtData(say, << >>, h, << >>, c, q)
  <2>1. AtData(say, r.wire, h, p, c, r)
    BY <1>9 DEF AtStep, h, say, p
  <2>2. CASE say # << >>
    BY <2>1, <2>2, <1>3 DEF AtData, AtRcpt
  <2>3. CASE say = << >> /\ h = << >>
    BY <2>3, <1>4 DEF AtData
  <2>4. CASE say = << >> /\ h # << >> /\ No354(h)
    <3>1. Len(h) \in Nat /\ Len(h) >= 1
      BY <2>4, <1>2, LinesAre
    <3>2. FirstCode(h, << >>) # 354
      BY <2>4, <3>1 DEF FirstCode, No354
    <3> QED BY <2>4, <3>2 DEF AtData
  <2>5. CASE say = << >> /\ h # << >> /\ ~No354(h)
    <3>1. FirstCode(h, << >>) = FirstCode(h, p) /\ ~NothingComes(h, << >>)
          /\ ~NothingComes(h, p)
      BY <2>5, <1>5
    <3> QED BY <2>1, <2>5, <3>1, <1>3 DEF AtData
  <2> QED BY <2>2, <2>3, <2>4, <2>5
<1>10. ASSUME Place(c) = 5 PROVE AtText(say, << >>, h, << >>, c, q)
  <2>1. AtText(say, r.wire, h, p, c, r)
    BY <1>10 DEF AtStep, h, say, p
  <2>2. CASE h = << >>
    BY <2>2, <1>4 DEF AtText
  <2>3. CASE h # << >>
    <3>1. MailTaken(c, r) => MailTaken(c, q)
      BY DEF MailTaken
    <3> QED BY <2>1, <2>3, <3>1, <1>5 DEF AtText
  <2> QED BY <2>2, <2>3
<1> QED BY <1>1, <1>6, <1>7, <1>8, <1>9, <1>10 DEF AtStep, h, say

\* The client says the next item of a step.
LEMMA SayAtStep ==
  ASSUME NEW c \in SmtpRecord, NEW d \in SmtpRecord, NEW r \in RelayRecord,
         NEW q \in RelayRecord, NEW lines, c.script # << >>, InSteps(c), AtStep(c, r, lines),
         ToSay(c) # << >>, r.up, d.op = c.op, d.m = c.m, d.buf = c.buf, Place(d) = Place(c),
         ToSay(d) = Tail(ToSay(c)), q.wire = Append(r.wire, Head(ToSay(c))), q.mail = r.mail,
         q.mode = r.mode, q.accepted = r.accepted, q.inbox = r.inbox, q.out = r.out,
         q.up = r.up
  PROVE  /\ AtStep(d, q, lines)
         /\ Place(c) < 5 => ToSay(d) = << >>
<1> DEFINE h == Heard(c, r)
           say == ToSay(c)
           rest == Tail(say)
           w == r.wire
           v == Append(r.wire, Head(say))
<1>1. Heard(d, q) = h
  BY DEF Heard
<1>2. h \in Seq(SmtpLines) /\ w \in Seq(SmtpItems) /\ say \in Seq(SmtpItems) /\ say # << >>
      /\ c.m \in Nat
  BY PartsOfCall
<1>3. /\ Head(say) = say[1] /\ Head(say) \in SmtpItems /\ Len(say) >= 1
      /\ rest \in Seq(SmtpItems) /\ Len(rest) + 1 = Len(say)
      /\ \A i \in 1 .. Len(rest) : rest[i] = say[i + 1]
  BY <1>2, ItemsAre
<1>4. /\ v \in Seq(SmtpItems) /\ Len(v) = Len(w) + 1 /\ v[Len(w) + 1] = say[1]
      /\ \A i \in 1 .. Len(w) : v[i] = w[i]
  BY <1>2, <1>3, ItemsAre
<1>5. Place(c) < 5 => say = StepOf(c.op, c.m, Place(c)).say
  BY DEF InSteps
<1>6. /\ Place(c) = 1 => say = << <<"RSET", 0>> >>
      /\ Place(c) = 2 => say = << <<"MAIL", c.m>> >>
      /\ Place(c) = 3 => say = << <<"RCPT", c.m>> >>
      /\ Place(c) = 4 => say = << <<"DATA", 0>> >>
  <2> HIDE DEF say
  <2>1. Place(c) = 1 => say = << <<"RSET", 0>> >>
    <3>1. Place(c) = 1 => say = StepOf(c.op, c.m, 1).say
      BY <1>5
    <3>2. StepOf(c.op, c.m, 1).say = << <<"RSET", 0>> >>
      BY DEF StepOf
    <3> QED BY <3>1, <3>2, Zenon
  <2>2. Place(c) = 2 => say = << <<"MAIL", c.m>> >>
    <3>1. Place(c) = 2 => say = StepOf(c.op, c.m, 2).say
      BY <1>5
    <3>2. StepOf(c.op, c.m, 2).say = << <<"MAIL", c.m>> >>
      BY DEF StepOf
    <3> QED BY <3>1, <3>2, Zenon
  <2>3. Place(c) = 3 => say = << <<"RCPT", c.m>> >>
    <3>1. Place(c) = 3 => say = StepOf(c.op, c.m, 3).say
      BY <1>5
    <3>2. StepOf(c.op, c.m, 3).say = << <<"RCPT", c.m>> >>
      BY DEF StepOf
    <3> QED BY <3>1, <3>2, Zenon
  <2>4. Place(c) = 4 => say = << <<"DATA", 0>> >>
    <3>1. Place(c) = 4 => say = StepOf(c.op, c.m, 4).say
      BY <1>5
    <3>2. StepOf(c.op, c.m, 4).say = << <<"DATA", 0>> >>
      BY DEF StepOf
    <3> QED BY <3>1, <3>2, Zenon
  <2> QED BY <2>1, <2>2, <2>3, <2>4
<1>7. Place(c) \in 1 .. 5
  BY DEF InSteps
<1>8. \A mail : /\ MailClean(d, mail) <=> MailClean(c, mail)
                /\ MailIsOurs(d, mail) <=> MailIsOurs(c, mail)
  BY DEF MailClean, MailIsOurs
<1>9. \A wire, n : Ours(d, wire, n) <=> Ours(c, wire, n)
  BY DEF Ours
<1>10. Len(w) \in Nat /\ Len(rest) \in Nat /\ Len(say) \in Nat /\ Len(<< >>) = 0
       /\ (Len(rest) = 0 <=> rest = << >>) /\ (Len(w) = 0 <=> w = << >>)
  <2>1. rest \in Seq(SmtpItems) /\ w \in Seq(SmtpItems) /\ say \in Seq(SmtpItems)
    BY <1>2, <1>3
  <2> HIDE DEF rest, w, say
  <2> QED BY <2>1
<1>11. /\ \A x : say = <<x>> => rest = << >> /\ say[1] = x
       /\ w = << >> => v = <<say[1]>>
  <2>1. ASSUME NEW x, say = <<x>> PROVE rest = << >> /\ say[1] = x
    <3>1. Len(say) = 1 /\ say[1] = x
      BY <2>1
    <3> QED BY <3>1, <1>3, <1>10
  <2>2. w = << >> => v = <<say[1]>>
    BY <1>3
  <2> QED BY <2>1, <2>2
<1>12. AtStep(c, r, lines)
  OBVIOUS
<1> HIDE DEF h, say, rest, w, v
<1>13. ASSUME Place(c) = 1 PROVE AtRset(rest, v, h, r.out, d, r.mail, lines) /\ rest = << >>
  <2>1. AtRset(say, w, h, r.out, c, r.mail, lines)
    BY <1>13, <1>12 DEF AtStep, h, say, w
  <2>2. say = << <<"RSET", 0>> >>
    BY <1>13, <1>6
  <2>3. rest = << >> /\ say[1] = <<"RSET", 0>>
    BY <2>2, <1>11
  <2>4. CASE w = << >> /\ OneAnswer(h, r.out)
    BY <2>3, <2>4, <1>11 DEF AtRset
  <2>5. CASE Len(w) = 1 /\ OneLine(w[1], lines) /\ NothingComes(h, r.out)
    <3>1. Len(v) = 2 /\ v[2] = <<"RSET", 0>> /\ v[1] = w[1]
      BY <2>3, <2>5, <1>4
    <3> QED BY <2>3, <2>5, <3>1 DEF AtRset
  <2> QED BY <2>1, <2>3, <2>4, <2>5, <1>2 DEF AtRset
<1>14. ASSUME Place(c) = 2 PROVE AtMail(rest, v, h, r.out, d, r.mail) /\ rest = << >>
  <2>1. AtMail(say, w, h, r.out, c, r.mail)
    BY <1>14, <1>12 DEF AtStep, h, say, w
  <2>2. say = << <<"MAIL", c.m>> >>
    BY <1>14, <1>6
  <2>3. rest = << >> /\ say[1] = <<"MAIL", c.m>>
    BY <2>2, <1>11
  <2>4. CASE w = << >>
    <3>1. MailSaid(rest, v, d)
      BY <2>3, <2>4, <1>11 DEF MailSaid
    <3>2. CASE NothingComes(h, r.out)
      BY <2>3, <3>1, <3>2 DEF AtMail
    <3>3. CASE ~NothingComes(h, r.out)
      BY <2>1, <2>3, <3>1, <3>3, <1>2, <1>8 DEF AtMail
    <3> QED BY <3>2, <3>3
  <2>5. CASE NothingComes(h, r.out) /\ w = << <<"RSET", 0>> >>
    <3>1. Len(w) = 1 /\ w[1] = <<"RSET", 0>>
      BY <2>5
    <3>2. Len(v) = 2 /\ v[1] = <<"RSET", 0>> /\ v[2] = <<"MAIL", c.m>>
      BY <2>3, <3>1, <1>4
    <3>3. v = << <<"RSET", 0>>, <<"MAIL", c.m>> >>
      <4>1. \A s \in Seq(SmtpItems) : Len(s) = 2 => s = <<s[1], s[2]>>
        OBVIOUS
      <4>2. v = <<v[1], v[2]>>
        BY <4>1, <3>2, <1>4
      <4> QED BY <3>2, <4>2, Zenon
    <3> QED BY <2>3, <2>5, <3>3 DEF AtMail
  <2> QED BY <2>1, <2>4, <2>5, <1>2 DEF AtMail, MailSaid
<1>15. ASSUME Place(c) = 3 PROVE AtRcpt(v, h, r.out, d, r.mail) /\ rest = << >>
  <2>1. AtRcpt(w, h, r.out, c, r.mail)
    BY <1>15, <1>12 DEF AtStep, h, w
  <2>2. say = << <<"RCPT", c.m>> >>
    BY <1>15, <1>6
  <2>3. rest = << >> /\ say[1] = <<"RCPT", c.m>>
    BY <2>2, <1>11
  <2>4. Ours(c, v, Len(v))
    <3> SUFFICES ASSUME NEW i \in 1 .. Len(v)
                 PROVE  v[i] \in {<<"RSET", 0>>, <<"MAIL", c.m>>, <<"RCPT", c.m>>}
      BY DEF Ours
    <3>1. CASE i = Len(w) + 1
      BY <2>3, <3>1, <1>4
    <3>2. CASE i # Len(w) + 1
      <4>1. i \in 1 .. Len(w)
        BY <3>2, <1>4, <1>10
      <4>2. v[i] = w[i]
        BY <4>1, <1>4
      <4> QED BY <2>1, <4>1, <4>2 DEF AtRcpt, Ours
    <3> QED BY <3>1, <3>2
  <2> QED BY <2>1, <2>3, <2>4, <1>8, <1>9 DEF AtRcpt
<1>16. ASSUME Place(c) = 4 PROVE AtData(rest, v, h, r.out, d, q) /\ rest = << >>
  <2>1. AtRcpt(w, h, r.out, c, r.mail)
    <3>1. AtData(say, w, h, r.out, c, r)
      BY <1>16, <1>12 DEF AtStep, h, say, w
    <3> QED BY <3>1, <1>2 DEF AtData
  <2>2. say = << <<"DATA", 0>> >>
    BY <1>16, <1>6
  <2>3. rest = << >> /\ say[1] = <<"DATA", 0>>
    BY <2>2, <1>11
  <2>4. v # << >> /\ v[Len(v)] = <<"DATA", 0>> /\ Len(v) - 1 = Len(w)
    BY <2>3, <1>4, <1>10
  <2>5. Ours(c, v, Len(w))
    BY <2>1, <1>4 DEF AtRcpt, Ours
  <2>6. Ours(d, v, Len(v) - 1)
    BY <2>4, <2>5, <1>9
  <2> QED BY <2>1, <2>3, <2>4, <2>6, <1>8 DEF AtRcpt, AtData
<1>17. ASSUME Place(c) = 5 PROVE AtText(rest, v, h, r.out, d, q)
  <2> DEFINE all == StepOf(c.op, c.m, 5).say
             text == r.mail.text
  <2>1. AtText(say, w, h, r.out, c, r)
    BY <1>17, <1>12 DEF AtStep, h, say, w
  <2>2. /\ NothingComes(h, r.out) /\ r.mode = "text" /\ MailIsOurs(c, r.mail)
        /\ InText(text, w, say, all)
    BY <2>1, <1>2 DEF AtText
  <2>3. text \in Seq(SmtpItems)
    BY PartsOfCall
  <2> HIDE DEF all, text
  <2>4. Len(text) \in Nat
    BY <2>3
  <2>5. /\ Len(text) + Len(w) + Len(say) = Len(all)
        /\ \A i \in 1 .. Len(text) : text[i] = all[i]
        /\ \A i \in 1 .. Len(w) : w[i] = all[Len(text) + i]
        /\ \A i \in 1 .. Len(say) : say[i] = all[Len(text) + Len(w) + i]
    BY <2>2 DEF InText
  <2>6. \A i \in 1 .. Len(v) : v[i] = all[Len(text) + i]
    <3> SUFFICES ASSUME NEW i \in 1 .. Len(v) PROVE v[i] = all[Len(text) + i]
      OBVIOUS
    <3>1. CASE i = Len(w) + 1
      <4>1. say[1] = all[Len(text) + Len(w) + 1] /\ Len(text) + Len(w) + 1 = Len(text) + i
        BY <3>1, <2>4, <2>5, <1>3, <1>10
      <4> QED BY <3>1, <4>1, <1>4
    <3>2. CASE i # Len(w) + 1
      <4>1. i \in 1 .. Len(w)
        BY <3>2, <1>4, <1>10
      <4> QED BY <4>1, <1>4, <2>5
    <3> QED BY <3>1, <3>2
  <2>7. \A i \in 1 .. Len(rest) : rest[i] = all[Len(text) + Len(v) + i]
    <3> SUFFICES ASSUME NEW i \in 1 .. Len(rest) PROVE rest[i] = all[Len(text) + Len(v) + i]
      OBVIOUS
    <3>1. i + 1 \in 1 .. Len(say)
      BY <1>3, <1>10
    <3>2. \A a, b \in Nat : a + b + (i + 1) = a + (b + 1) + i
      OBVIOUS
    <3>3. say[i + 1] = all[Len(text) + Len(w) + (i + 1)]
      BY <3>1, <2>5
    <3>4. Len(text) + Len(w) + (i + 1) = Len(text) + (Len(w) + 1) + i
      BY <3>2, <2>4, <1>10
    <3>5. Len(text) + Len(w) + (i + 1) = Len(text) + Len(v) + i
      BY <3>4, <1>4, Zenon
    <3> QED BY <3>3, <3>5, <1>3
  <2>8. Len(text) + Len(v) + Len(rest) = Len(all)
    <3>1. \A a, b, e \in Nat : a + (b + 1) + e = a + b + (e + 1)
      OBVIOUS
    <3>2. Len(text) + (Len(w) + 1) + Len(rest) = Len(text) + Len(w) + (Len(rest) + 1)
      BY <3>1, <2>4, <1>10
    <3>3. Len(v) = Len(w) + 1 /\ Len(rest) + 1 = Len(say)
      BY <1>3, <1>4
    <3> QED BY <3>2, <3>3, <2>5, Zenon
  <2>9. InText(text, v, rest, all)
    BY <2>5, <2>6, <2>7, <2>8 DEF InText
  <2>10. StepOf(d.op, d.m, 5).say = all /\ q.mail.text = text
    BY DEF all, text
  <2> QED BY <2>2, <2>9, <2>10, <1>8 DEF AtText
<1>18. Place(d) = Place(c) /\ ToSay(d) = rest /\ q.wire = v
  BY DEF rest, v, say
<1>19. AtStep(d, q, lines)
  <2>1. Heard(d, q) = h /\ q.out = r.out /\ q.mail = r.mail
    BY <1>1
  <2> QED BY <2>1, <1>13, <1>14, <1>15, <1>16, <1>17, <1>18 DEF AtStep
<1>20. Place(c) < 5 => rest = << >>
  BY <1>7, <1>13, <1>14, <1>15, <1>16
<1> QED BY <1>18, <1>19, <1>20

\* The code that is waited for was taken for the answer: the call goes on to its next step.
LEMMA NextStep ==
  ASSUME NEW c \in SmtpRecord, NEW d \in SmtpRecord, NEW r \in RelayRecord,
         NEW q \in RelayRecord, NEW lines, c.script # << >>, Len(c.script) # 1, InSteps(c),
         AtStep(c, r, lines), c.pc = "hear", Heard(c, r) # << >>,
         Heard(c, r)[Len(Heard(c, r))].nl, Heard(c, r)[1].code = c.script[1].want,
         d.pc = "say", d.op = c.op, d.m = c.m, d.script = Tail(c.script), d.buf = << >>,
         q.inbox = << >>, q.out = r.out, q.wire = r.wire, q.mail = r.mail, q.mode = r.mode,
         q.accepted = r.accepted, q.up = r.up
  PROVE  InSteps(d) /\ AtStep(d, q, lines)
<1> DEFINE h == Heard(c, r)
           say == ToSay(d)
           o == r.out
           w == r.wire
           s == c.script
           t == Tail(c.script)
           step(k) == StepOf(c.op, c.m, k)
<1>1. /\ h \in Seq(SmtpLines) /\ o \in Seq(SmtpLines) /\ w \in Seq(SmtpItems) /\ c.m \in Nat
      /\ s \in Seq(SmtpAsks) /\ Len(s) \in Nat
  BY PartsOfCall
<1>2. /\ t \in Seq(SmtpAsks) /\ Len(t) = Len(s) - 1 /\ \A i \in 1 .. Len(t) : t[i] = s[i + 1]
  BY <1>1, HeadTailProperties
<1> DEFINE k == Place(c)
<1>3. /\ k \in 1 .. 5 /\ (c.op = "SMTPData" => k >= 4) /\ s[1].want = step(k).want
      /\ \A i \in 2 .. Len(s) : s[i] = step(k + i - 1)
      /\ k + Len(s) = 6
  <2>1. k + Len(s) = 6
    BY <1>1 DEF Place
  <2>2. /\ k \in 1 .. 5 /\ (c.op = "SMTPData" => k >= 4) /\ s[1].want = step(k).want
        /\ \A i \in 2 .. Len(s) : s[i] = step(k + i - 1)
    <3> HIDE DEF k
    <3> QED BY Zenon DEF InSteps, k
  <2> QED BY <2>1, <2>2
<1>4. ToSay(c) = << >>
  BY DEF InSteps
<1> HIDE DEF s, t
<1>5. Len(s) >= 2 /\ k \in 1 .. 4 /\ Place(d) = k + 1
  <2>1. Len(s) # 1 /\ Len(s) <= 5
    BY <1>1, <1>3 DEF s
  <2>2. s # << >>
    BY DEF s
  <2>3. Len(s) >= 2
    <3>1. Len(s) # 0
      BY <1>1, <2>2
    <3>2. \A n \in Nat : n # 0 /\ n # 1 => n >= 2
      OBVIOUS
    <3> QED BY <3>1, <3>2, <1>1, <2>1, Zenon
  <2>4. Place(d) = 6 - Len(t)
    BY DEF Place, t
  <2>5. Place(d) = k + 1
    BY <1>1, <1>2, <1>3, <2>4
  <2> QED BY <1>1, <1>3, <2>3, <2>5
<1> HIDE DEF k, step
<1>6. d.script[1] = step(k + 1) /\ say = step(k + 1).say /\ say # << >> /\ Len(<< >>) = 0
  <2>1. 1 \in 1 .. Len(t) /\ 2 \in 2 .. Len(s) /\ k + 2 - 1 = k + 1 /\ k + 1 \in 1 .. 5
    BY <1>2, <1>5
  <2>2. t[1] = s[1 + 1] /\ s[2] = step(k + 2 - 1)
    BY <2>1, <1>2, <1>3
  <2>3. t[1] = step(k + 1)
    BY <2>1, <2>2
  <2>4. d.script = t
    BY DEF t
  <2>5. step(k + 1).say # << >>
    BY <2>1, <1>1, StepsAre DEF step
  <2> QED BY <2>3, <2>4, <2>5 DEF ToSay
<1>7. InSteps(d)
  <2>1. \A i \in 2 .. Len(t) : t[i] = step(Place(d) + i - 1)
    <3> SUFFICES ASSUME NEW i \in 2 .. Len(t) PROVE t[i] = step(Place(d) + i - 1)
      OBVIOUS
    <3>1. i \in 1 .. Len(t) /\ i + 1 \in 2 .. Len(s) /\ Place(d) + i - 1 = k + (i + 1) - 1
      BY <1>1, <1>2, <1>5
    <3> QED BY <3>1, <1>2, <1>3
  <2>2. d.script = t /\ d.pc = "say" /\ d.op = c.op /\ d.m = c.m
    BY DEF t
  <2>3. Place(d) \in 1 .. 5 /\ (d.op = "SMTPData" => Place(d) >= 4)
    BY <1>3, <1>5
  <2>4. d.script[1].want = StepOf(d.op, d.m, Place(d)).want
    BY <1>5, <1>6, <2>2 DEF step
  <2>5. ToSay(d) = StepOf(d.op, d.m, Place(d)).say
    BY <1>5, <1>6, <2>2 DEF step, say
  <2>6. \A i \in 2 .. Len(d.script) : d.script[i] = StepOf(d.op, d.m, Place(d) + i - 1)
    BY <2>1, <2>2 DEF step
  <2> QED BY <2>2, <2>3, <2>4, <2>5, <2>6 DEF InSteps
<1>8. Heard(d, q) = << >>
  BY LinesAre DEF Heard
<1>9. \A mail : /\ MailClean(d, mail) <=> MailClean(c, mail)
                /\ MailIsOurs(d, mail) <=> MailIsOurs(c, mail)
  BY DEF MailClean, MailIsOurs
<1>10. \A wire, n : Ours(d, wire, n) <=> Ours(c, wire, n)
  BY DEF Ours
<1>11. /\ h # << >> /\ h[Len(h)].nl /\ h[1].code = step(k).want
       /\ Len(h) \in Nat /\ Len(h) >= 1 /\ AtStep(c, r, lines)
  BY <1>1, <1>3, LinesAre DEF s
<1>12. /\ k = 1 => step(k).want = 250
       /\ k = 2 => step(k).want = 250
       /\ k = 4 => step(k).want = 354
  <2>1. step(1).want = 250 /\ step(2).want = 250
    BY DEF StepOf, step
  <2>2. step(4).want = 354
    BY DEF StepOf, step
  <2>3. k = 1 => step(k).want = 250
    BY <2>1
  <2>4. k = 2 => step(k).want = 250
    BY <2>1
  <2>5. k = 4 => step(k).want = 354
    BY <2>2
  <2> QED BY <2>3, <2>4, <2>5
<1>13. FirstCode(h, o) = h[1].code /\ ~NothingComes(h, o)
  BY <1>11 DEF FirstCode, NothingComes
<1>14. OneAnswer(h, o) => o = << >>
  BY <1>11 DEF OneAnswer
<1>15. /\ NothingComes(<< >>, << >>) /\ No354(<< >>) /\ FirstCode(<< >>, o) = o[1].code
       /\ NothingComes(<< >>, o) <=> o = << >>
  BY <1>6 DEF NothingComes, No354, FirstCode
<1> HIDE DEF h, say, o, w
<1>16. ASSUME k = 1 PROVE AtMail(say, w, << >>, o, d, r.mail)
  <2>1. AtRset(<< >>, w, h, o, c, r.mail, lines) /\ h[1].code = 250
    BY <1>4, <1>11, <1>12, <1>16 DEF AtStep, h, o, w, k
  <2>2. CASE w \in {<< <<"RSET", 0>> >>, << >>} /\ OneAnswer(h, o)
    <3>1. o = << >>
      BY <2>2, <1>14
    <3> QED BY <2>2, <3>1, <1>6, <1>15 DEF AtMail, MailSaid
  <2>3. CASE w = << >> /\ WholeAnswer(o) /\ No354(o) /\ (o[1].code = 250 => MailClean(c, r.mail))
    <3>1. o # << >>
      BY <2>3, <1>6 DEF WholeAnswer
    <3> QED BY <2>3, <3>1, <1>9, <1>15 DEF AtMail, MailSaid
  <2> QED BY <2>1, <2>2, <2>3, <1>13 DEF AtRset, NothingComes
<1>17. ASSUME k = 2 PROVE AtRcpt(w, << >>, o, d, r.mail)
  <2>1. AtMail(<< >>, w, h, o, c, r.mail) /\ h[1].code = 250
    BY <1>4, <1>11, <1>12, <1>17 DEF AtStep, h, o, w, k
  <2>2. MailSaid(<< >>, w, c) /\ No354(o) /\ MailClean(c, r.mail)
    BY <2>1, <1>13 DEF AtMail
  <2>3. Ours(c, w, Len(w))
    <3>1. CASE w = << >>
      BY <3>1, <1>6 DEF Ours
    <3>2. CASE w = << <<"MAIL", c.m>> >>
      <4>1. Len(w) = 1 /\ w[1] = <<"MAIL", c.m>>
        BY <3>2
      <4>2. \A i \in 1 .. Len(w) : w[i] = <<"MAIL", c.m>>
        BY <4>1
      <4> HIDE DEF w
      <4> QED BY <4>2, Zenon DEF Ours
    <3> QED BY <2>2, <3>1, <3>2 DEF MailSaid
  <2> QED BY <2>2, <2>3, <1>9, <1>10, <1>15 DEF AtRcpt
<1>18. ASSUME k = 3 PROVE AtData(say, w, << >>, o, d, q)
  <2>1. AtRcpt(w, h, o, c, r.mail)
    BY <1>11, <1>18 DEF AtStep, h, o, w, k
  <2> QED BY <2>1, <1>6, <1>9, <1>10, <1>15 DEF AtRcpt, AtData
<1>19. ASSUME k = 4 PROVE AtText(say, w, << >>, o, d, q)
  <2>1. AtData(<< >>, w, h, o, c, r) /\ h[1].code = 354
    BY <1>4, <1>11, <1>12, <1>19 DEF AtStep, h, o, w, k
  <2>2. ~No354(h)
    BY <2>1, <1>11 DEF No354
  <2>3. /\ w = << >> /\ OneAnswer(h, o) /\ r.mode = "text" /\ r.mail.text = << >>
        /\ MailIsOurs(c, r.mail)
    BY <2>1, <2>2, <1>13 DEF AtData
  <2>4. o = << >>
    BY <2>3, <1>14
  <2>5. say = StepOf(d.op, d.m, 5).say /\ say \in Seq(SmtpItems)
    <3>1. say = step(5).say
      BY <1>6, <1>19
    <3>2. d.script # << >> => ToSay(d) \in Seq(SmtpItems)
      BY PartsOfCall
    <3>3. d.script # << >>
      <4>1. d.script = t /\ Len(t) >= 1
        BY <1>2, <1>5 DEF t
      <4>2. ~(0 >= 1)
        OBVIOUS
      <4> QED BY <4>1, <4>2, <1>6
    <3> QED BY <3>1, <3>2, <3>3 DEF step, say
  <2>6. InText(<< >>, << >>, say, StepOf(d.op, d.m, 5).say)
    <3> DEFINE all == StepOf(d.op, d.m, 5).say
    <3>1. all = say
      BY <2>5
    <3> HIDE DEF all
    <3>2. InText(<< >>, << >>, say, say)
      BY <2>5, <1>6 DEF InText
    <3> QED BY <3>1, <3>2 DEF all
  <2> QED BY <2>3, <2>4, <2>6, <1>9, <1>15 DEF AtText
<1>20. q.wire = w /\ q.out = o /\ ToSay(d) = say
  BY DEF w, o, say
<1>21. AtStep(d, q, lines)
  BY <1>5, <1>8, <1>16, <1>17, <1>18, <1>19, <1>20 DEF AtStep
<1> QED BY <1>7, <1>21

\* It was the last step's: the mail was taken.
LEMMA CallDone ==
  ASSUME NEW c \in SmtpRecord, NEW r \in RelayRecord, NEW lines, Len(c.script) = 1, InSteps(c),
         AtStep(c, r, lines), Heard(c, r) # << >>, Heard(c, r)[1].code = c.script[1].want
  PROVE  r.wire = << >> /\ MailTaken(c, r)
<1> DEFINE h == Heard(c, r)
<1>1. Place(c) = 5
  BY DEF Place
<1>2. StepOf(c.op, c.m, 5).want = 250
  BY DEF StepOf
<1>3. c.script[1].want = 250
  BY <1>1, <1>2 DEF InSteps
<1>4. ~NothingComes(h, r.out) /\ FirstCode(h, r.out) = 250
  BY <1>3 DEF NothingComes, FirstCode
<1>5. AtText(ToSay(c), r.wire, h, r.out, c, r)
  BY <1>1 DEF AtStep
<1> QED BY <1>4, <1>5 DEF AtText

\* Every answer has the code of its command, and but for EHLO it is one line, or one in two.
LEMMA AnswersAre ==
  ASSUME smtpWorld.lines \in Nat \ {0}, NEW item, NEW code \in Nat, NEW reply \in Answers(item, code)
  PROVE  /\ reply \in Seq(SmtpLines) /\ reply # << >> /\ reply[1].code = code
         /\ OneLine(item, smtpWorld.lines) => WholeAnswer(reply)
         /\ code # 354 => No354(reply)
<1> DEFINE n == AnswerLines(item)
           a == Line(code, TRUE)
           whole == [i \in 1 .. n |-> a]
           cut == <<Line(code, FALSE), Line(0, TRUE)>>
<1>1. n \in Nat \ {0} /\ (OneLine(item, smtpWorld.lines) => n = 1)
  BY DEF AnswerLines, OneLine
<1>2. a \in SmtpLines /\ a.code = code
  BY DEF Line, SmtpLines
<1>3. reply = whole \/ reply = cut
  BY DEF Answers
<1>4. CASE reply = whole
  <2> HIDE DEF n, a
  <2>1. /\ whole \in Seq(SmtpLines) /\ Len(whole) = n
        /\ \A i \in 1 .. n : whole[i] = a
    BY <1>1, <1>2
  <2> HIDE DEF whole
  <2>2. whole # << >> /\ whole[1] = a
    BY <1>1, <2>1
  <2>3. n = 1 => WholeAnswer(whole)
    BY <2>1 DEF WholeAnswer
  <2>4. code # 354 => No354(whole)
    BY <1>2, <2>1 DEF No354
  <2> QED BY <1>1, <1>2, <1>4, <2>1, <2>2, <2>3, <2>4
<1>5. CASE reply = cut
  <2>1. /\ Line(code, FALSE) \in SmtpLines /\ Line(0, TRUE) \in SmtpLines
        /\ Line(code, FALSE).code = code /\ Line(code, FALSE).nl = FALSE /\ Line(0, TRUE).code = 0
    BY DEF Line, SmtpLines
  <2> DEFINE x == Line(code, FALSE)
             y == Line(0, TRUE)
  <2> HIDE DEF x, y
  <2>2. /\ x \in SmtpLines /\ y \in SmtpLines /\ x.code = code /\ x.nl = FALSE /\ y.code = 0
        /\ cut = <<x, y>>
    BY <2>1 DEF x, y
  <2> HIDE DEF cut
  <2>3. /\ cut \in Seq(SmtpLines) /\ Len(cut) = 2 /\ cut[1] = x /\ cut[2] = y /\ cut # << >>
    <3>1. /\ <<x, y>> \in Seq(SmtpLines) /\ Len(<<x, y>>) = 2 /\ <<x, y>>[1] = x
          /\ <<x, y>>[2] = y /\ <<x, y>> # << >>
      BY <2>2
    <3> QED BY <2>2, <3>1, Zenon
  <2>4. WholeAnswer(cut)
    BY <2>2, <2>3 DEF WholeAnswer
  <2>5. code # 354 => No354(cut)
    <3>1. \A i \in 1 .. 2 : i = 1 \/ i = 2
      OBVIOUS
    <3> QED BY <2>2, <2>3, <3>1 DEF No354
  <2> QED BY <1>5, <2>2, <2>3, <2>4, <2>5
<1> QED BY <1>3, <1>4, <1>5

\* What a command makes of the mode and of the mail, and the code of its answer.
TakenFrom(item, r, t) ==
  /\ t.mode \in {"command", "user", "password", "text", "quit"} /\ t.mail \in MailRecord
  /\ t.code \in Nat
  /\ t.mode # "text" => t.mail.text = << >>
  /\ t.mail.from = 0 => t.mail.to = 0
  /\ t.code = 250 /\ item = <<"RSET", 0>> => t.mail = NoMail
  /\ t.code = 250 /\ item[1] = "MAIL" => t.mail.from = item[2] /\ t.mail.to = 0
  /\ t.code = 354 => item[1] = "DATA" /\ t.mode = "text" /\ t.mail = r.mail /\ r.mail.to # 0
  /\ t.mail.from \in {0, r.mail.from, item[2]} /\ t.mail.to \in {0, r.mail.to, item[2]}

\* So it is with what the server does, and with a refusal.
LEMMA TakeIs ==
  ASSUME relay \in RelayRecord, MailInMaking(relay), relay.mode \notin {"text", "quit"},
         NEW item \in SmtpItems
  PROVE  /\ TakenFrom(item, relay, Take(item))
         /\ TakenFrom(item, relay, TakenAs("command", relay.mail, 550))
<1> DEFINE mail == relay.mail
           n == item[2]
           c == item[1]
<1>1. mail \in MailRecord /\ mail.text = << >> /\ (mail.from = 0 => mail.to = 0) /\ n \in Nat
  BY DEF RelayRecord, MailInMaking, SmtpItems
<1>2. mail.from \in Nat /\ mail.to \in Nat /\ << >> \in Seq(SmtpItems)
  BY <1>1 DEF MailRecord
<1>3. /\ NoMail \in MailRecord /\ NoMail.text = << >> /\ NoMail.from = 0 /\ NoMail.to = 0
  BY <1>2 DEF NoMail, MailRecord
<1>4. ASSUME NEW mode \in {"command", "user", "password", "quit"}, NEW code \in Nat,
             code \notin {250, 354}
      PROVE  TakenFrom(item, relay, TakenAs(mode, mail, code))
  <2> DEFINE t == TakenAs(mode, mail, code)
  <2>1. t.mode = mode /\ t.mail = mail /\ t.code = code
    BY DEF TakenAs
  <2> HIDE DEF t
  <2>2. /\ t.mode \in {"command", "user", "password", "text", "quit"} /\ t.mail \in MailRecord
        /\ t.code \in Nat /\ t.mail.text = << >> /\ (t.mail.from = 0 => t.mail.to = 0)
        /\ t.code # 250 /\ t.code # 354
    BY <2>1, <1>1, <1>4
  <2>3. t.mail.from \in {0, relay.mail.from, item[2]} /\ t.mail.to \in {0, relay.mail.to, item[2]}
    BY <2>1
  <2>4. TakenFrom(item, relay, t)
    BY <2>2, <2>3 DEF TakenFrom
  <2> QED BY <2>4 DEF t
<1>5. CASE relay.mode = "user"
  <2>1. Take(item) = TakenAs("password", mail, 334)
    BY <1>5 DEF Take
  <2> QED BY <2>1, <1>4
<1>6. CASE relay.mode = "password"
  <2>1. Take(item) = TakenAs("command", mail, 235)
    BY <1>6 DEF Take
  <2> QED BY <2>1, <1>4
<1>7. CASE relay.mode \notin {"user", "password"}
  <2>1. CASE c \in {"HELO", "EHLO", "RSET"}
    <3> DEFINE t == TakenAs("command", NoMail, 250)
    <3>1. Take(item) = t
      BY <1>7, <2>1 DEF Take
    <3>2. t.mode = "command" /\ t.mail = NoMail /\ t.code = 250
      BY DEF TakenAs
    <3>3. c # "MAIL"
      BY <2>1
    <3> HIDE DEF t
    <3>4. TakenFrom(item, relay, t)
      BY <3>2, <3>3, <1>3 DEF TakenFrom
    <3> QED BY <3>1, <3>4, <1>4
  <2>2. CASE c = "AUTH"
    <3>1. Take(item) = TakenAs("user", mail, 334)
      BY <1>7, <2>2 DEF Take
    <3> QED BY <3>1, <1>4
  <2>3. CASE c = "MAIL" /\ mail.from = 0
    <3> DEFINE new == [mail EXCEPT !.from = n]
               t == TakenAs("command", new, 250)
    <3>1. Take(item) = t
      BY <1>7, <2>3 DEF Take
    <3>2. t.mode = "command" /\ t.mail = new /\ t.code = 250
      BY DEF TakenAs
    <3>3. /\ new \in MailRecord /\ new.from = n /\ new.to = mail.to /\ new.text = mail.text
      BY <1>1 DEF MailRecord
    <3>4. c # "RSET" /\ c # "DATA" /\ mail.to = 0 /\ item # <<"RSET", 0>>
      BY <2>3, <1>1
    <3> HIDE DEF t, new
    <3>5. TakenFrom(item, relay, t)
      BY <3>2, <3>3, <3>4, <1>1, <1>2 DEF TakenFrom
    <3> QED BY <3>1, <3>5, <1>4
  <2>4. CASE c = "RCPT" /\ mail.from # 0
    <3> DEFINE new == [mail EXCEPT !.to = n]
               t == TakenAs("command", new, 250)
    <3>1. Take(item) = t
      BY <1>7, <2>4 DEF Take
    <3>2. t.mode = "command" /\ t.mail = new /\ t.code = 250
      BY DEF TakenAs
    <3>3. /\ new \in MailRecord /\ new.from = mail.from /\ new.to = n /\ new.text = mail.text
      BY <1>1 DEF MailRecord
    <3>4. c # "RSET" /\ c # "DATA" /\ c # "MAIL" /\ item # <<"RSET", 0>>
      BY <2>4, <1>1
    <3> HIDE DEF t, new
    <3>5. TakenFrom(item, relay, t)
      BY <2>4, <3>2, <3>3, <3>4, <1>1, <1>2 DEF TakenFrom
    <3> QED BY <3>1, <3>5, <1>4
  <2>5. CASE c = "DATA" /\ mail.to # 0
    <3> DEFINE t == TakenAs("text", mail, 354)
    <3>1. Take(item) = t
      BY <1>7, <2>5 DEF Take
    <3>2. t.mode = "text" /\ t.mail = mail /\ t.code = 354
      BY DEF TakenAs
    <3> HIDE DEF t
    <3>3. TakenFrom(item, relay, t)
      BY <2>5, <3>2, <1>1, <1>2 DEF TakenFrom
    <3> QED BY <3>1, <3>3, <1>4
  <2>6. CASE c = "QUIT"
    <3>1. Take(item) = TakenAs("quit", mail, 221)
      BY <1>7, <2>6 DEF Take
    <3> QED BY <3>1, <1>4
  <2>7. CASE /\ c \notin {"HELO", "EHLO", "RSET", "AUTH", "QUIT"}
             /\ ~(c = "MAIL" /\ mail.from = 0) /\ ~(c = "RCPT" /\ mail.from # 0)
             /\ ~(c = "DATA" /\ mail.to # 0)
    <3>1. Take(item) = TakenAs("command", mail, 503)
      BY <1>7, <2>7 DEF Take
    <3> QED BY <3>1, <1>4
  <2> QED BY <2>1, <2>2, <2>3, <2>4, <2>5, <2>6, <2>7
<1> QED BY <1>5, <1>6, <1>7

\* What the answer to a command leaves.
LEMMA AnsweredCommand ==
  ASSUME smtpWorld.lines \in Nat \ {0}, relay \in RelayRecord, MailInMaking(relay),
         relay.wire # << >>, relay.mode # "text", NEW t, TakenFrom(relay.wire[1], relay, t),
         RelayAnswers(relay.wire[1], t)
  PROVE  /\ relay' \in RelayRecord /\ MailInMaking(relay')
         /\ relay'.wire = Tail(relay.wire) /\ relay'.inbox = relay.inbox
         /\ CommandTaken(relay.wire[1], relay, relay', smtpWorld.lines)
<1> DEFINE item == relay.wire[1]
           v == Tail(relay.wire)
<1>1. PICK reply \in Answers(item, t.code) :
        relay' = [relay EXCEPT !.wire = v, !.out = reply, !.mode = t.mode, !.mail = t.mail]
  BY DEF RelayAnswers
<1>2. TakenFrom(item, relay, t)
  OBVIOUS
<1>3. t.code \in Nat /\ t.mail \in MailRecord
      /\ t.mode \in {"command", "user", "password", "text", "quit"}
  BY <1>2 DEF TakenFrom
<1>4. relay.wire \in Seq(SmtpItems)
  BY DEF RelayRecord
<1>5. v \in Seq(SmtpItems)
  BY <1>4
<1>6. /\ reply \in Seq(SmtpLines) /\ reply # << >> /\ reply[1].code = t.code
      /\ OneLine(item, smtpWorld.lines) => WholeAnswer(reply)
      /\ t.code # 354 => No354(reply)
  BY <1>3, AnswersAre
<1> HIDE DEF v, item
<1>7. /\ relay' \in RelayRecord /\ relay'.wire = v /\ relay'.inbox = relay.inbox
      /\ relay'.out = reply /\ relay'.mode = t.mode /\ relay'.mail = t.mail
  BY <1>1, <1>3, <1>5, <1>6 DEF RelayRecord
<1>8. MailInMaking(relay')
  BY <1>2, <1>7 DEF MailInMaking, TakenFrom
<1>9. CommandTaken(item, relay, relay', smtpWorld.lines)
  BY <1>2, <1>6, <1>7 DEF CommandTaken, TakenFrom
<1> QED BY <1>7, <1>8, <1>9 DEF v, item

\* The server's steps leave the client as it is.
LEMMA RelayKeeps ==
  ASSUME SmtpInv, UNCHANGED <<smtpWorld, smtp>>, relay' \in RelayRecord, MailInMaking(relay'),
         smtp.script # << >> /\ Place(smtp) \in 1 .. 5 /\ AtStep(smtp, relay, smtpWorld.lines) =>
           AtStep(smtp, relay', smtpWorld.lines),
         relay.wire = << >> => relay'.wire = << >> /\ relay'.accepted = relay.accepted
  PROVE  SmtpInv'
<1>1. smtp' = smtp /\ smtpWorld' = smtpWorld
  OBVIOUS
<1>2. SmtpTyped'
  BY <1>1 DEF SmtpInv, SmtpTyped
<1>3. SmtpInCall'
  <2> SUFFICES ASSUME smtp.pc # "idle", LateBorne(smtp)
               PROVE  InSteps(smtp) /\ AtStep(smtp, relay', smtpWorld.lines)
    BY <1>1 DEF SmtpInCall
  <2>1. InSteps(smtp) /\ AtStep(smtp, relay, smtpWorld.lines) /\ smtp.script # << >>
    BY DEF SmtpInv, SmtpInCall, SmtpTyped, SmtpScripted
  <2>2. Place(smtp) \in 1 .. 5
    BY <2>1 DEF InSteps
  <2> QED BY <2>1, <2>2
<1>4. SmtpReported'
  <2> SUFFICES ASSUME smtp.pc = "idle", smtp.res, LateBorne(smtp)
               PROVE  relay'.wire = << >> /\ MailTaken(smtp, relay')
    BY <1>1 DEF SmtpReported
  <2>1. relay.wire = << >> /\ MailTaken(smtp, relay)
    BY DEF SmtpInv, SmtpReported
  <2> QED BY <2>1 DEF MailTaken
<1> QED BY <1>2, <1>3, <1>4 DEF SmtpInv

\* What is first on the wire.
LEMMA FirstOnWire ==
  ASSUME relay \in RelayRecord, relay.wire # << >>
  PROVE  Head(relay.wire) = relay.wire[1] /\ relay.wire[1] \in SmtpItems
         /\ Tail(relay.wire) \in Seq(SmtpItems)
<1>1. relay.wire \in Seq(SmtpItems)
  BY DEF RelayRecord
<1> QED BY <1>1, ItemsAre

\* The server takes a command.
LEMMA RelayCommandKeeps ==
  ASSUME SmtpInv, RelayCommand
  PROVE  SmtpInv'
<1> DEFINE item == relay.wire[1]
<1>1. /\ smtp \in SmtpRecord /\ relay \in RelayRecord /\ smtpWorld.lines \in Nat \ {0}
      /\ MailInMaking(relay)
  BY DEF SmtpInv, SmtpTyped
<1>2. /\ relay.up /\ relay.wire # << >> /\ relay.out = << >> /\ relay.mode \notin {"text", "quit"}
      /\ UNCHANGED <<smtpWorld, smtp>>
  BY DEF RelayCommand, RelayReady
<1>3. Head(relay.wire) = item /\ item \in SmtpItems
  BY <1>1, <1>2, FirstOnWire
<1>4. \/ RelayAnswers(item, Take(item))
      \/ RelayAnswers(item, TakenAs("command", relay.mail, 550))
  BY <1>3 DEF RelayCommand
<1>5. /\ relay' \in RelayRecord /\ MailInMaking(relay')
      /\ relay'.wire = Tail(relay.wire) /\ relay'.inbox = relay.inbox
      /\ CommandTaken(item, relay, relay', smtpWorld.lines)
  <2>1. /\ TakenFrom(item, relay, Take(item))
        /\ TakenFrom(item, relay, TakenAs("command", relay.mail, 550))
    BY <1>1, <1>2, <1>3, TakeIs
  <2>2. relay.mode # "text"
    BY <1>2
  <2>3. CASE RelayAnswers(item, Take(item))
    BY <1>1, <1>2, <2>1, <2>2, <2>3, AnsweredCommand
  <2>4. CASE RelayAnswers(item, TakenAs("command", relay.mail, 550))
    BY <1>1, <1>2, <2>1, <2>2, <2>4, AnsweredCommand
  <2> QED BY <1>4, <2>3, <2>4
<1>6. Place(smtp) \in 1 .. 5 /\ AtStep(smtp, relay, smtpWorld.lines) =>
        AtStep(smtp, relay', smtpWorld.lines)
  BY <1>1, <1>2, <1>5, CommandAtStep
<1> QED BY <1>2, <1>5, <1>6, RelayKeeps

\* The server takes a line of a text.
LEMMA RelayTextKeeps ==
  ASSUME SmtpInv, RelayText
  PROVE  SmtpInv'
<1> DEFINE item == relay.wire[1]
           v == Tail(relay.wire)
<1>1. /\ smtp \in SmtpRecord /\ relay \in RelayRecord /\ smtpWorld.lines \in Nat \ {0}
      /\ MailInMaking(relay)
  BY DEF SmtpInv, SmtpTyped
<1>2. /\ relay.up /\ relay.wire # << >> /\ relay.out = << >> /\ relay.mode = "text"
      /\ UNCHANGED <<smtpWorld, smtp>>
  BY DEF RelayText, RelayReady
<1>3. Head(relay.wire) = item /\ item \in SmtpItems /\ v \in Seq(SmtpItems)
  BY <1>1, <1>2, FirstOnWire
<1>4. /\ relay.mail \in MailRecord /\ relay.accepted \in Seq(MailRecord)
      /\ relay.mail.text \in Seq(SmtpItems) /\ << >> \in Seq(SmtpItems)
  BY <1>1 DEF RelayRecord, MailRecord
<1>5. NoMail \in MailRecord /\ NoMail.text = << >> /\ NoMail.from = 0 /\ NoMail.to = 0
  BY <1>4 DEF NoMail, MailRecord
<1>6. /\ relay' \in RelayRecord /\ MailInMaking(relay')
      /\ relay'.wire = v /\ relay'.inbox = relay.inbox /\ TextTaken(item, relay, relay')
  <2>1. CASE item[1] # "."
    <3> DEFINE text == Append(relay.mail.text, item)
               mail == [relay.mail EXCEPT !.text = text]
    <3>1. relay' = [relay EXCEPT !.wire = v, !.mail.text = text]
      BY <1>3, <2>1 DEF RelayText
    <3>2. relay' = [relay EXCEPT !.wire = v, !.mail = mail]
      BY <3>1
    <3>3. text \in Seq(SmtpItems)
      BY <1>3, <1>4
    <3> HIDE DEF text
    <3>4. /\ mail \in MailRecord /\ mail.text = text /\ mail.from = relay.mail.from
          /\ mail.to = relay.mail.to
      BY <1>4, <3>3 DEF MailRecord
    <3> HIDE DEF mail, v, item
    <3>5. /\ relay' \in RelayRecord /\ relay'.wire = v /\ relay'.inbox = relay.inbox
          /\ relay'.mail = mail /\ relay'.out = relay.out /\ relay'.mode = relay.mode
      BY <1>1, <1>3, <3>2, <3>4 DEF RelayRecord
    <3>6. MailInMaking(relay')
      BY <1>1, <1>2, <3>4, <3>5 DEF MailInMaking
    <3>7. TextTaken(item, relay, relay')
      BY <1>2, <2>1, <3>4, <3>5 DEF TextTaken, text
    <3> QED BY <3>5, <3>6, <3>7
  <2>2. CASE item[1] = "."
    <3>1. item[1] # "EHLO" /\ OneLine(item, smtpWorld.lines)
      BY <2>2 DEF OneLine
    <3>2. \/ \E reply \in Answers(item, 250) :
               relay' = [relay EXCEPT !.wire = v, !.out = reply, !.mode = "command",
                                      !.accepted = Append(relay.accepted, relay.mail),
                                      !.mail = NoMail]
          \/ RelayAnswers(item, TakenAs("command", NoMail, 554))
      BY <1>3, <2>2 DEF RelayText
    <3>3. CASE \E reply \in Answers(item, 250) :
                 relay' = [relay EXCEPT !.wire = v, !.out = reply, !.mode = "command",
                                        !.accepted = Append(relay.accepted, relay.mail),
                                        !.mail = NoMail]
      <4> DEFINE accepted == Append(relay.accepted, relay.mail)
      <4>1. PICK reply \in Answers(item, 250) :
              relay' = [relay EXCEPT !.wire = v, !.out = reply, !.mode = "command",
                                     !.accepted = accepted, !.mail = NoMail]
        BY <3>3
      <4>2. accepted \in Seq(MailRecord)
        BY <1>4
      <4>3. reply \in Seq(SmtpLines) /\ reply # << >> /\ WholeAnswer(reply)
        BY <1>1, <3>1, AnswersAre
      <4> HIDE DEF accepted, v, item
      <4>4. /\ relay' \in RelayRecord /\ relay'.wire = v /\ relay'.inbox = relay.inbox
            /\ relay'.mail = NoMail /\ relay'.out = reply /\ relay'.mode = "command"
            /\ relay'.accepted = accepted
        BY <1>1, <1>3, <1>5, <4>1, <4>2, <4>3 DEF RelayRecord
      <4>5. MailInMaking(relay')
        BY <1>5, <4>4 DEF MailInMaking
      <4>6. TextTaken(item, relay, relay')
        BY <1>2, <2>2, <4>3, <4>4 DEF TextTaken, accepted
      <4> QED BY <4>4, <4>5, <4>6
    <3>4. CASE RelayAnswers(item, TakenAs("command", NoMail, 554))
      <4> DEFINE t == TakenAs("command", NoMail, 554)
      <4>1. t.mode = "command" /\ t.mail = NoMail /\ t.code = 554
        BY DEF TakenAs
      <4>2. PICK reply \in Answers(item, 554) :
              relay' = [relay EXCEPT !.wire = v, !.out = reply, !.mode = "command",
                                     !.mail = NoMail]
        <5> HIDE DEF t
        <5>1. RelayAnswers(item, t)
          BY <3>4, Zenon DEF t
        <5>2. PICK reply \in Answers(item, t.code) :
                relay' = [relay EXCEPT !.wire = v, !.out = reply, !.mode = t.mode,
                                       !.mail = t.mail]
          BY <5>1 DEF RelayAnswers
        <5> QED BY <4>1, <5>2
      <4>3. reply \in Seq(SmtpLines) /\ reply # << >> /\ WholeAnswer(reply) /\ reply[1].code = 554
        BY <1>1, <3>1, AnswersAre
      <4> HIDE DEF v, item
      <4>4. /\ relay' \in RelayRecord /\ relay'.wire = v /\ relay'.inbox = relay.inbox
            /\ relay'.mail = NoMail /\ relay'.out = reply /\ relay'.mode = "command"
        <5> DEFINE none == NoMail
        <5>1. none \in MailRecord
          BY <1>5
        <5>2. NoMail = none
          OBVIOUS
        <5> HIDE DEF none
        <5>3. relay' = [relay EXCEPT !.wire = v, !.out = reply, !.mode = "command",
                                     !.mail = none]
          BY <4>2, <5>2
        <5>4. v \in Seq(SmtpItems)
          BY <1>3
        <5>5. relay' \in RelayRecord
          BY <1>1, <4>3, <5>1, <5>3, <5>4 DEF RelayRecord
        <5>6. /\ relay'.wire = v /\ relay'.inbox = relay.inbox
              /\ relay'.mail = none /\ relay'.out = reply /\ relay'.mode = "command"
          BY <1>1, <5>3 DEF RelayRecord
        <5> QED BY <5>2, <5>5, <5>6
      <4>5. MailInMaking(relay')
        BY <1>5, <4>4 DEF MailInMaking
      <4>6. TextTaken(item, relay, relay')
        BY <1>2, <2>2, <4>3, <4>4 DEF TextTaken
      <4> QED BY <4>4, <4>5, <4>6
    <3> QED BY <3>2, <3>3, <3>4
  <2> QED BY <2>1, <2>2
<1>7. smtp.script # << >> /\ Place(smtp) \in 1 .. 5 /\ AtStep(smtp, relay, smtpWorld.lines) =>
        AtStep(smtp, relay', smtpWorld.lines)
  BY <1>1, <1>2, <1>6, TextAtStep
<1> QED BY <1>2, <1>6, <1>7, RelayKeeps

\* The server sends a line of its answer.
LEMMA RelaySaysKeeps ==
  ASSUME SmtpInv, RelaySays
  PROVE  SmtpInv'
<1> DEFINE inbox == Append(relay.inbox, Head(relay.out))
           reply == Tail(relay.out)
<1>1. /\ smtp \in SmtpRecord /\ relay \in RelayRecord /\ MailInMaking(relay)
  BY DEF SmtpInv, SmtpTyped
<1>2. /\ relay.out # << >> /\ UNCHANGED <<smtpWorld, smtp>>
      /\ relay' = [relay EXCEPT !.inbox = inbox, !.out = reply]
  BY DEF RelaySays
<1>3. relay.inbox \in Seq(SmtpLines) /\ relay.out \in Seq(SmtpLines)
  BY <1>1 DEF RelayRecord
<1>4. inbox \in Seq(SmtpLines) /\ reply \in Seq(SmtpLines)
  BY <1>2, <1>3, LinesAre
<1> HIDE DEF inbox, reply
<1>5. /\ relay' \in RelayRecord /\ relay'.inbox = inbox /\ relay'.out = reply
      /\ relay'.wire = relay.wire /\ relay'.mail = relay.mail /\ relay'.mode = relay.mode
      /\ relay'.accepted = relay.accepted
  BY <1>1, <1>2, <1>4 DEF RelayRecord
<1>6. MailInMaking(relay')
  BY <1>1, <1>5 DEF MailInMaking
<1>7. AtStep(smtp, relay, smtpWorld.lines) => AtStep(smtp, relay', smtpWorld.lines)
  BY <1>1, <1>2, <1>5, SaidAtStep DEF inbox, reply
<1> QED BY <1>2, <1>5, <1>6, <1>7, RelayKeeps

\* The connection breaks.
LEMMA RelayHangsUpKeeps ==
  ASSUME SmtpInv, RelayHangsUp
  PROVE  SmtpInv'
<1>1. /\ smtp \in SmtpRecord /\ relay \in RelayRecord /\ MailInMaking(relay)
  BY DEF SmtpInv, SmtpTyped
<1>2. /\ relay.up /\ UNCHANGED <<smtpWorld, smtp>>
      /\ relay' = [relay EXCEPT !.up = FALSE, !.wire = << >>, !.out = << >>]
  BY DEF RelayHangsUp
<1>3. << >> \in Seq(SmtpLines) /\ << >> \in Seq(SmtpItems)
  OBVIOUS
<1>4. /\ relay' \in RelayRecord /\ relay'.inbox = relay.inbox /\ relay'.out = << >>
      /\ relay'.wire = << >> /\ relay'.mail = relay.mail /\ relay'.mode = relay.mode
      /\ relay'.accepted = relay.accepted /\ ~relay'.up
  BY <1>1, <1>2, <1>3 DEF RelayRecord
<1>5. MailInMaking(relay')
  BY <1>1, <1>4 DEF MailInMaking
<1>6. AtStep(smtp, relay, smtpWorld.lines) => AtStep(smtp, relay', smtpWorld.lines)
  BY <1>1, <1>2, <1>4, BrokenAtStep
<1> QED BY <1>2, <1>4, <1>5, <1>6, RelayKeeps

\* An action that ends a call.
LEMMA SmtpIdles ==
  ASSUME smtp \in SmtpRecord, NEW c \in SmtpRecord, NEW res \in BOOLEAN, SmtpDone(c, res)
  PROVE  /\ smtp' \in SmtpRecord /\ SmtpScripted(smtp')
         /\ smtp'.pc = "idle" /\ smtp'.res = res
         /\ smtp'.op = c.op /\ smtp'.m = c.m /\ smtp'.late = c.late
<1> DEFINE sock == c.sock /\ smtp.op # "SMTPLogout"
<1>1. sock \in BOOLEAN
  BY DEF SmtpRecord
<1>2. smtp' = [c EXCEPT !.pc = "idle", !.script = << >>, !.buf = << >>, !.res = res,
                        !.sock = sock]
  BY DEF SmtpDone
<1> HIDE DEF sock
<1>3. << >> \in Seq(SmtpLines) /\ << >> \in Seq(SmtpAsks)
  OBVIOUS
<1>4. /\ smtp' \in SmtpRecord /\ smtp'.pc = "idle" /\ smtp'.res = res /\ smtp'.buf = << >>
      /\ smtp'.op = c.op /\ smtp'.m = c.m /\ smtp'.late = c.late
  BY <1>1, <1>2, <1>3 DEF SmtpRecord
<1>5. SmtpScripted(smtp')
  BY <1>4 DEF SmtpScripted
<1> QED BY <1>4, <1>5

\* A failed call reports nothing.
LEMMA SmtpFailsKeeps ==
  ASSUME SmtpInv, NEW c \in SmtpRecord, SmtpDone(c, FALSE), relay' \in RelayRecord,
         MailInMaking(relay'), smtpWorld' = smtpWorld
  PROVE  SmtpInv'
<1>1. smtp' \in SmtpRecord /\ SmtpScripted(smtp') /\ smtp'.pc = "idle" /\ smtp'.res = FALSE
  BY SmtpIdles DEF SmtpInv, SmtpTyped
<1>2. SmtpTyped'
  BY <1>1 DEF SmtpInv, SmtpTyped
<1>3. SmtpInCall' /\ SmtpReported'
  BY <1>1 DEF SmtpInCall, SmtpReported
<1> QED BY <1>2, <1>3 DEF SmtpInv

\* The new connection's server.
LEMMA NewRelayIs ==
  ASSUME NEW accepted \in Seq(MailRecord)
  PROVE  NewRelay(accepted) \in RelayRecord /\ MailInMaking(NewRelay(accepted))
<1>1. /\ << >> \in Seq(SmtpItems) /\ << >> \in Seq(SmtpLines)
      /\ [code |-> 220, nl |-> TRUE] \in SmtpLines
  BY DEF SmtpLines
<1>2. << [code |-> 220, nl |-> TRUE] >> \in Seq(SmtpLines)
  BY <1>1
<1>3. NoMail \in MailRecord /\ NoMail.text = << >> /\ NoMail.from = 0 /\ NoMail.to = 0
  BY <1>1 DEF NoMail, MailRecord
<1> HIDE DEF NoMail
<1>4. NewRelay(accepted) \in RelayRecord
  BY <1>1, <1>2, <1>3 DEF NewRelay, RelayRecord
<1>5. NewRelay(accepted).mail = NoMail
  BY DEF NewRelay
<1>6. MailInMaking(NewRelay(accepted))
  BY <1>3, <1>5 DEF MailInMaking
<1> QED BY <1>4, <1>6

\* Nothing is said yet.
LEMMA SmtpInitInv == SmtpInit => SmtpInv
<1> SUFFICES ASSUME SmtpInit PROVE SmtpInv
  OBVIOUS
<1>1. << >> \in Seq(SmtpLines) /\ << >> \in Seq(SmtpAsks) /\ << >> \in Seq(SmtpItems)
      /\ << >> \in Seq(MailRecord)
  OBVIOUS
<1>2. SmtpCalls \in Int
  BY SmtpAssumption
<1>3. smtp \in SmtpRecord
  BY <1>1, <1>2 DEF SmtpInit, SmtpInitIn, SmtpRecord, SmtpOps, SmtpErrors
<1>4. smtp.pc = "idle" /\ smtp.res = FALSE /\ smtp.buf = << >>
  BY DEF SmtpInit, SmtpInitIn
<1> DEFINE new == NewRelay(<< >>)
<1>5. new \in RelayRecord /\ MailInMaking(new)
  BY <1>1, NewRelayIs
<1>6. relay = [new EXCEPT !.up = FALSE, !.out = << >>]
  BY DEF SmtpInit, SmtpInitIn
<1> HIDE DEF new
<1>7. relay \in RelayRecord /\ relay.mode = new.mode /\ relay.mail = new.mail
  BY <1>1, <1>5, <1>6 DEF RelayRecord
<1>8. MailInMaking(relay)
  BY <1>5, <1>7 DEF MailInMaking
<1>9. smtpWorld.lines \in Nat \ {0}
  BY SmtpAssumption DEF SmtpInit, SmtpInitIn
<1>10. SmtpScripted(smtp) /\ SmtpInCall /\ SmtpReported
  BY <1>4 DEF SmtpScripted, SmtpInCall, SmtpReported
<1> QED BY <1>3, <1>7, <1>8, <1>9, <1>10 DEF SmtpInv, SmtpTyped

\* A connection begins with nothing of an old one on its way.
LEMMA CallConnectKeeps ==
  ASSUME SmtpInv, NEW op \in {"ConnectClient", "ConnectEClient"}, CallConnect(op)
  PROVE  SmtpInv'
<1> DEFINE left == smtp.left - 1
           c == [smtp EXCEPT !.op = op, !.error = "none", !.left = left, !.late = 0]
           script == SmtpScript(op, 0)
<1>1. left \in Int /\ smtp \in SmtpRecord /\ relay \in RelayRecord /\ MailInMaking(relay)
      /\ smtpWorld.lines \in Nat \ {0}
  BY DEF SmtpInv, SmtpTyped, SmtpRecord
<1>2. /\ \/ /\ smtp' = [c EXCEPT !.pc = "say", !.script = script, !.sock = TRUE]
            /\ relay' = NewRelay(relay.accepted)
         \/ /\ smtp' = [c EXCEPT !.sock = FALSE, !.res = FALSE, !.error = "CONN"]
            /\ relay' = [relay EXCEPT !.up = FALSE, !.wire = << >>, !.out = << >>]
      /\ smtp.pc = "idle" /\ smtpWorld' = smtpWorld
  BY Zenon DEF CallConnect, SmtpAt
<1> HIDE DEF left
<1>3. << >> \in Seq(SmtpLines) /\ << >> \in Seq(SmtpItems)
  OBVIOUS
<1>4. script \in Seq(SmtpAsks) /\ script # << >>
  BY SmtpScriptsAre DEF SmtpOps
<1>5. smtp.buf = << >> /\ smtp.pc = "idle" /\ op \in SmtpOps /\ op # "SMTPData"
      /\ op # "SMTPSendMessage"
  BY <1>2 DEF SmtpInv, SmtpTyped, SmtpScripted, SmtpOps
<1>6. c \in SmtpRecord /\ c.pc = "idle" /\ c.op = op /\ c.buf = << >>
  <2>1. 0 \in Int /\ op \in SmtpOps /\ "none" \in SmtpErrors
    BY <1>5 DEF SmtpErrors
  <2>2. c \in SmtpRecord
    BY <1>1, <2>1 DEF SmtpRecord
  <2>3. c.pc = smtp.pc /\ c.op = op /\ c.buf = smtp.buf
    BY <1>1 DEF SmtpRecord
  <2> QED BY <1>5, <2>2, <2>3
<1> HIDE DEF c, script
<1>7. relay.accepted \in Seq(MailRecord)
  BY <1>1 DEF RelayRecord
<1>8. /\ smtp' \in SmtpRecord /\ smtp'.op = op /\ smtp'.buf = << >>
      /\ smtp'.pc # "idle" => smtp'.script # << >>
      /\ relay' \in RelayRecord /\ MailInMaking(relay')
  <2>1. CASE /\ smtp' = [c EXCEPT !.pc = "say", !.script = script, !.sock = TRUE]
             /\ relay' = NewRelay(relay.accepted)
    <3>1. smtp' \in SmtpRecord /\ smtp'.op = op /\ smtp'.buf = << >> /\ smtp'.script = script
      BY <1>4, <1>6, <2>1 DEF SmtpRecord
    <3>2. relay' \in RelayRecord /\ MailInMaking(relay')
      BY <1>7, <2>1, NewRelayIs
    <3> QED BY <1>4, <3>1, <3>2
  <2>2. CASE /\ smtp' = [c EXCEPT !.sock = FALSE, !.res = FALSE, !.error = "CONN"]
             /\ relay' = [relay EXCEPT !.up = FALSE, !.wire = << >>, !.out = << >>]
    <3>1. smtp' \in SmtpRecord /\ smtp'.op = op /\ smtp'.buf = << >> /\ smtp'.pc = "idle"
      BY <1>6, <2>2 DEF SmtpRecord, SmtpErrors
    <3>2. relay' \in RelayRecord /\ relay'.mode = relay.mode /\ relay'.mail = relay.mail
      BY <1>1, <1>3, <2>2 DEF RelayRecord
    <3>3. MailInMaking(relay')
      BY <1>1, <3>2 DEF MailInMaking
    <3> QED BY <3>1, <3>2, <3>3
  <2> QED BY <1>2, <2>1, <2>2
<1>9. ~LateBorne(smtp')
  BY <1>5, <1>8 DEF LateBorne
<1>10. SmtpTyped'
  BY <1>1, <1>2, <1>8 DEF SmtpTyped, SmtpScripted
<1>11. SmtpInCall' /\ SmtpReported'
  BY <1>9 DEF SmtpInCall, SmtpReported
<1> QED BY <1>10, <1>11 DEF SmtpInv

\* What is counted as still to come when a call begins: at most one answer is at most one line
\* that has come or is coming, or one item that is answered by one line.
LEMMA StillToReadIs ==
  ASSUME relay \in RelayRecord, smtpWorld.lines \in Nat \ {0}
  PROVE  /\ StillToRead \in Int
         /\ StillToRead <= 1 =>
              \/ relay.wire = << >> /\ relay.out = << >> /\ Len(relay.inbox) <= 1
              \/ relay.wire = << >> /\ Len(relay.out) = 1 /\ relay.inbox = << >>
              \/ /\ Len(relay.wire) = 1 /\ OneLine(relay.wire[1], smtpWorld.lines)
                 /\ relay.out = << >> /\ relay.inbox = << >>
         /\ StillToRead = 0 => relay.wire = << >> /\ relay.out = << >> /\ relay.inbox = << >>
<1> DEFINE w == relay.wire
           S == {i \in DOMAIN w : w[i][1] = "EHLO"}
           n == Cardinality(S)
           k == smtpWorld.lines - 1
           p == k * n
<1>1. w \in Seq(SmtpItems) /\ relay.out \in Seq(SmtpLines) /\ relay.inbox \in Seq(SmtpLines)
  BY DEF RelayRecord
<1>2. /\ Len(w) \in Nat /\ Len(relay.out) \in Nat /\ Len(relay.inbox) \in Nat
      /\ (Len(w) = 0 <=> w = << >>) /\ (Len(relay.out) = 0 <=> relay.out = << >>)
      /\ (Len(relay.inbox) = 0 <=> relay.inbox = << >>)
  BY <1>1
<1>3. DOMAIN w = 1 .. Len(w) /\ IsFiniteSet(1 .. Len(w))
  <2>1. DOMAIN w = 1 .. Len(w)
    BY <1>1
  <2>2. 1 \in Int /\ Len(w) \in Int
    BY <1>2
  <2>3. IsFiniteSet(1 .. Len(w))
    BY <2>2, FS_Interval
  <2> QED BY <2>1, <2>3
<1>4. S \subseteq 1 .. Len(w)
  BY <1>3
<1>5. n \in Nat
  BY <1>3, <1>4, FS_Subset, FS_CardinalityType
<1>6. k \in Nat
  OBVIOUS
<1>7. Len(w) = 1 /\ w[1][1] = "EHLO" => n = 1
  <2> SUFFICES ASSUME Len(w) = 1, w[1][1] = "EHLO" PROVE n = 1
    OBVIOUS
  <2>1. S = {1}
    BY <1>3
  <2> QED BY <2>1, FS_Singleton
<1>8. StillToRead = Len(relay.inbox) + Len(relay.out) + Len(w) + p
  BY DEF StillToRead
<1> HIDE DEF w, S, n, k
<1>9. p \in Nat /\ (n = 1 => p = k)
  BY <1>5, <1>6
<1> HIDE DEF p
<1>10. StillToRead \in Int
  BY <1>2, <1>8, <1>9
<1> DEFINE a == Len(relay.inbox)
           b == Len(relay.out)
           d == Len(w)
<1>11. a \in Nat /\ b \in Nat /\ d \in Nat /\ StillToRead = a + b + d + p
  BY <1>2, <1>8
<1> HIDE DEF a, b, d
<1>12. /\ StillToRead <= 1 =>
             \/ d = 0 /\ b = 0 /\ a <= 1
             \/ d = 0 /\ b = 1 /\ a = 0
             \/ d = 1 /\ b = 0 /\ a = 0 /\ p = 0
       /\ StillToRead = 0 => d = 0 /\ b = 0 /\ a = 0
  BY <1>9, <1>11
<1>13. StillToRead <= 1 =>
         \/ w = << >> /\ relay.out = << >> /\ Len(relay.inbox) <= 1
         \/ w = << >> /\ Len(relay.out) = 1 /\ relay.inbox = << >>
         \/ Len(w) = 1 /\ relay.out = << >> /\ relay.inbox = << >> /\ p = 0
  BY <1>2, <1>12, Zenon DEF a, b, d
<1>14. Len(w) = 1 /\ p = 0 => OneLine(w[1], smtpWorld.lines)
  BY <1>6, <1>7, <1>9 DEF OneLine, k
<1>15. StillToRead = 0 => w = << >> /\ relay.out = << >> /\ relay.inbox = << >>
  BY <1>2, <1>12, Zenon DEF a, b, d
<1> QED BY <1>10, <1>13, <1>14, <1>15 DEF w

\* A call begins.
LEMMA CallSmtpKeeps ==
  ASSUME SmtpInv, NEW op \in SmtpOps \ {"none", "ConnectClient", "ConnectEClient"},
         NEW m \in Nat, CallSmtp(op, m)
  PROVE  SmtpInv'
<1> DEFINE left == smtp.left - 1
           late == StillToRead
           script == SmtpScript(op, m)
<1>1. left \in Int /\ smtp \in SmtpRecord /\ relay \in RelayRecord /\ MailInMaking(relay)
      /\ smtpWorld.lines \in Nat \ {0}
  BY DEF SmtpInv, SmtpTyped, SmtpRecord
<1>2. /\ smtp' = [smtp EXCEPT !.pc = "say", !.op = op, !.m = m, !.script = script,
                              !.left = left, !.late = late]
      /\ smtp.pc = "idle" /\ relay' = relay /\ smtpWorld' = smtpWorld
  BY Zenon DEF CallSmtp, SmtpAt
<1>3. late \in Int
  BY <1>1, StillToReadIs
<1>4. script \in Seq(SmtpAsks) /\ script # << >>
  BY SmtpScriptsAre
<1>5. smtp.buf = << >>
  BY <1>2 DEF SmtpInv, SmtpTyped, SmtpScripted
<1> HIDE DEF left, late, script
<1>6. /\ smtp' \in SmtpRecord /\ smtp'.op = op /\ smtp'.m = m /\ smtp'.buf = << >>
      /\ smtp'.pc = "say" /\ smtp'.script = script /\ smtp'.late = late
  BY <1>1, <1>2, <1>3, <1>4, <1>5 DEF SmtpRecord
<1>7. SmtpTyped'
  BY <1>1, <1>2, <1>4, <1>6 DEF SmtpTyped, SmtpScripted
<1>8. SmtpInCall'
  <2> DEFINE c == smtp'
             lines == smtpWorld.lines
  <2> SUFFICES ASSUME LateBorne(c) PROVE InSteps(c) /\ AtStep(c, relay, lines)
    BY <1>2 DEF SmtpInCall
  <2>1. \/ op = "SMTPSendMessage" /\ late <= 1
        \/ op = "SMTPData" /\ late = 0
    BY <1>6 DEF LateBorne
  <2>2. /\ Len(script) = IF op = "SMTPData" THEN 2 ELSE 5
        /\ \A i \in 1 .. Len(script) : script[i] = StepOf(op, m, (5 - Len(script)) + i)
    BY <2>1, ScriptOf DEF script
  <2>3. Place(c) = IF op = "SMTPData" THEN 4 ELSE 1
    BY <1>6, <2>2 DEF Place
  <2>4. \A i \in 1 .. Len(script) : script[i] = StepOf(op, m, Place(c) + i - 1)
    <3> SUFFICES ASSUME NEW i \in 1 .. Len(script)
                 PROVE  script[i] = StepOf(op, m, Place(c) + i - 1)
      OBVIOUS
    <3>1. (5 - Len(script)) + i = Place(c) + i - 1
      BY <2>2, <2>3
    <3> QED BY <2>2, <3>1
  <2>5. script[1] = StepOf(op, m, Place(c)) /\ Place(c) \in 1 .. 5
    <3>1. 1 \in 1 .. Len(script) /\ Place(c) + 1 - 1 = Place(c)
      BY <2>2, <2>3
    <3> QED BY <2>3, <2>4, <3>1
  <2>6. ToSay(c) = StepOf(op, m, Place(c)).say /\ ToSay(c) # << >>
    <3>1. ToSay(c) = StepOf(op, m, Place(c)).say
      BY <1>6, <2>5 DEF ToSay
    <3>2. StepOf(op, m, Place(c)).say # << >>
      BY <2>5, StepsAre
    <3> QED BY <3>1, <3>2
  <2>7. InSteps(c)
    <3>1. \A i \in 2 .. Len(script) : script[i] = StepOf(op, m, Place(c) + i - 1)
      BY <2>2, <2>4
    <3>2. op = "SMTPData" => Place(c) >= 4
      BY <2>3
    <3> QED BY <1>6, <2>5, <2>6, <3>1, <3>2 DEF InSteps
  <2>8. Heard(c, relay) = relay.inbox
    <3>1. relay.inbox \in Seq(SmtpLines)
      BY <1>1 DEF RelayRecord
    <3> QED BY <1>6, <3>1, LinesAre DEF Heard
  <2>9. CASE op = "SMTPSendMessage" /\ late <= 1
    <3> DEFINE w == relay.wire
               o == relay.out
               h == relay.inbox
    <3>1. \/ w = << >> /\ o = << >> /\ Len(h) <= 1
          \/ w = << >> /\ Len(o) = 1 /\ h = << >>
          \/ Len(w) = 1 /\ OneLine(w[1], lines) /\ o = << >> /\ h = << >>
      BY <1>1, <2>9, StillToReadIs DEF late
    <3>2. AtRset(ToSay(c), w, h, o, c, relay.mail, lines)
      BY <2>6, <3>1 DEF AtRset, OneAnswer, NothingComes
    <3> QED BY <2>3, <2>7, <2>8, <2>9, <3>2 DEF AtStep
  <2>10. CASE op = "SMTPData" /\ late = 0
    <3>1. relay.wire = << >> /\ relay.out = << >> /\ relay.inbox = << >>
      BY <1>1, <2>10, StillToReadIs DEF late
    <3>2. No354(<< >>) /\ Ours(c, << >>, Len(<< >>))
      <4>1. Len(<< >>) = 0
        OBVIOUS
      <4> QED BY <4>1 DEF No354, Ours
    <3>3. MailClean(c, relay.mail)
      BY <1>6, <2>10 DEF MailClean
    <3>4. AtData(ToSay(c), << >>, << >>, << >>, c, relay)
      BY <2>6, <3>2, <3>3 DEF AtData, AtRcpt
    <3> QED BY <2>3, <2>7, <2>8, <2>10, <3>1, <3>4 DEF AtStep
  <2> QED BY <2>1, <2>9, <2>10
<1>9. SmtpReported'
  BY <1>6 DEF SmtpReported
<1> QED BY <1>7, <1>8, <1>9 DEF SmtpInv

\* The steps of a call in which one more item was said.
LEMMA StillInSteps ==
  ASSUME NEW c \in SmtpRecord, NEW d, InSteps(c), ToSay(d) = << >> \/ Place(c) = 5,
         d.op = c.op, d.m = c.m, d.pc # "hear" \/ ToSay(d) = << >>,
         Len(d.script) = Len(c.script), d.script[1].want = c.script[1].want,
         \A i \in 2 .. Len(c.script) : d.script[i] = c.script[i]
  PROVE  InSteps(d)
<1>1. Place(d) = Place(c)
  BY DEF Place
<1> QED BY <1>1 DEF InSteps

\* What is first in the script.
LEMMA FirstAsk ==
  ASSUME smtp \in SmtpRecord, smtp.script # << >>
  PROVE  /\ smtp.script \in Seq(SmtpAsks) /\ Len(smtp.script) \in Nat /\ Len(smtp.script) >= 1
         /\ Head(smtp.script) = smtp.script[1] /\ smtp.script[1] \in SmtpAsks
         /\ smtp.script[1].say \in Seq(SmtpItems) /\ smtp.script[1].want \in Nat
<1>1. smtp.script \in Seq(SmtpAsks)
  BY DEF SmtpRecord
<1>2. /\ Len(smtp.script) \in Nat /\ Len(smtp.script) >= 1
      /\ Head(smtp.script) = smtp.script[1] /\ smtp.script[1] \in SmtpAsks
  BY <1>1
<1>3. smtp.script[1].say \in Seq(SmtpItems) /\ smtp.script[1].want \in Nat
  BY <1>2 DEF SmtpAsks
<1> QED BY <1>1, <1>2, <1>3

\* An item is said.
LEMMA SmtpSayKeeps ==
  ASSUME SmtpInv, SmtpSay
  PROVE  SmtpInv'
<1>1. /\ smtp \in SmtpRecord /\ relay \in RelayRecord /\ MailInMaking(relay)
      /\ smtpWorld.lines \in Nat \ {0}
  BY DEF SmtpInv, SmtpTyped
<1>2. smtp.pc = "say" /\ Head(smtp.script).say # << >> /\ smtpWorld' = smtpWorld
  BY DEF SmtpSay, SmtpAt
<1>3. smtp.script # << >> /\ smtp.buf = << >>
  BY <1>2 DEF SmtpInv, SmtpTyped, SmtpScripted
<1>4. CASE /\ relay.up
           /\ relay' = [relay EXCEPT !.wire = Append(@, Head(Head(smtp.script).say))]
           /\ smtp' = [smtp EXCEPT !.script[1].say = Tail(@)]
  <2> DEFINE say == smtp.script[1].say
             rest == Tail(say)
             first == [smtp.script[1] EXCEPT !.say = rest]
             script == [smtp.script EXCEPT ![1] = first]
             wire == Append(relay.wire, Head(say))
  <2>1. say \in Seq(SmtpItems) /\ say # << >>
    BY <1>1, <1>2, <1>3, FirstAsk
  <2>2. rest \in Seq(SmtpItems) /\ Head(say) \in SmtpItems
    BY <2>1, ItemsAre
  <2>3. relay.wire \in Seq(SmtpItems)
    BY <1>1 DEF RelayRecord
  <2>4. wire \in Seq(SmtpItems)
    BY <2>2, <2>3, ItemsAre
  <2>5. smtp' = [smtp EXCEPT !.script = script]
    BY <1>4
  <2>6. relay' = [relay EXCEPT !.wire = wire]
    BY <1>1, <1>3, <1>4, FirstAsk
  <2> HIDE DEF rest
  <2>7. first \in SmtpAsks /\ first.say = rest /\ first.want = smtp.script[1].want
    BY <1>1, <1>3, <2>2, FirstAsk DEF SmtpAsks
  <2> HIDE DEF first
  <2>8. /\ script \in Seq(SmtpAsks) /\ Len(script) = Len(smtp.script) /\ script[1] = first
        /\ \A i \in 2 .. Len(smtp.script) : script[i] = smtp.script[i]
        /\ script # << >>
    <3>1. smtp.script \in Seq(SmtpAsks) /\ Len(smtp.script) >= 1 /\ Len(smtp.script) \in Nat
      BY <1>1, <1>3, FirstAsk
    <3>2. script \in Seq(SmtpAsks) /\ Len(script) = Len(smtp.script)
      BY <2>7, <3>1
    <3>3. script[1] = first /\ \A i \in 2 .. Len(smtp.script) : script[i] = smtp.script[i]
      BY <3>1
    <3> QED BY <3>1, <3>2, <3>3
  <2> HIDE DEF script, wire
  <2>9. /\ smtp' \in SmtpRecord /\ smtp'.script = script /\ smtp'.op = smtp.op
        /\ smtp'.m = smtp.m /\ smtp'.buf = smtp.buf /\ smtp'.pc = "say" /\ smtp'.late = smtp.late
    BY <1>1, <1>2, <2>5, <2>8 DEF SmtpRecord
  <2>10. /\ relay' \in RelayRecord /\ relay'.wire = wire /\ relay'.mail = relay.mail
         /\ relay'.mode = relay.mode /\ relay'.accepted = relay.accepted
         /\ relay'.inbox = relay.inbox /\ relay'.out = relay.out /\ relay'.up = relay.up
    BY <1>1, <2>4, <2>6 DEF RelayRecord
  <2>11. SmtpTyped'
    <3>1. SmtpScripted(smtp')
      BY <1>3, <2>8, <2>9 DEF SmtpScripted
    <3>2. MailInMaking(relay')
      BY <1>1, <2>10 DEF MailInMaking
    <3> QED BY <1>1, <1>2, <2>9, <2>10, <3>1, <3>2 DEF SmtpTyped
  <2>12. SmtpInCall'
    <3> SUFFICES ASSUME LateBorne(smtp')
                 PROVE  InSteps(smtp') /\ AtStep(smtp', relay', smtpWorld.lines)
      BY <1>2 DEF SmtpInCall
    <3>1. LateBorne(smtp)
      BY <2>9 DEF LateBorne
    <3>2. InSteps(smtp) /\ AtStep(smtp, relay, smtpWorld.lines)
      BY <1>2, <3>1 DEF SmtpInv, SmtpInCall
    <3>3. ToSay(smtp) = say /\ ToSay(smtp') = rest /\ Place(smtp') = Place(smtp)
      BY <2>7, <2>8, <2>9 DEF ToSay, Place
    <3>4. ToSay(smtp') = Tail(ToSay(smtp)) /\ ToSay(smtp) # << >>
          /\ relay'.wire = Append(relay.wire, Head(ToSay(smtp)))
      BY <2>1, <2>10, <3>3 DEF rest, wire
    <3>5. /\ AtStep(smtp', relay', smtpWorld.lines)
          /\ Place(smtp) < 5 => ToSay(smtp') = << >>
      BY <1>1, <1>3, <1>4, <2>9, <2>10, <3>2, <3>3, <3>4, SayAtStep
    <3>6. ToSay(smtp') = << >> \/ Place(smtp) = 5
      BY <3>2, <3>5 DEF InSteps
    <3>7. /\ smtp'.pc # "hear" /\ Len(smtp'.script) = Len(smtp.script)
          /\ smtp'.script[1].want = smtp.script[1].want
          /\ \A i \in 2 .. Len(smtp.script) : smtp'.script[i] = smtp.script[i]
      BY <2>7, <2>8, <2>9
    <3>8. InSteps(smtp')
      BY <1>1, <2>9, <3>2, <3>6, <3>7, StillInSteps
    <3> QED BY <3>5, <3>8
  <2>13. SmtpReported'
    BY <2>9 DEF SmtpReported
  <2> QED BY <2>11, <2>12, <2>13 DEF SmtpInv
<1>5. CASE SmtpDone([smtp EXCEPT !.sock = FALSE], FALSE) /\ UNCHANGED relay
  <2>1. [smtp EXCEPT !.sock = FALSE] \in SmtpRecord
    BY <1>1 DEF SmtpRecord
  <2>2. relay' \in RelayRecord /\ MailInMaking(relay')
    BY <1>1, <1>5
  <2> QED BY <1>2, <1>5, <2>1, <2>2, SmtpFailsKeeps
<1> QED BY <1>4, <1>5 DEF SmtpSay

\* All is said, and the reply is waited for.
LEMMA SmtpListensKeeps ==
  ASSUME SmtpInv, SmtpListens
  PROVE  SmtpInv'
<1>1. /\ smtp \in SmtpRecord /\ relay \in RelayRecord /\ MailInMaking(relay)
      /\ smtpWorld.lines \in Nat \ {0}
  BY DEF SmtpInv, SmtpTyped
<1>2. /\ smtp.pc = "say" /\ Head(smtp.script).say = << >> /\ smtpWorld' = smtpWorld
      /\ relay' = relay /\ smtp' = [smtp EXCEPT !.pc = "hear"]
  BY DEF SmtpListens, SmtpAt
<1>3. smtp.script # << >> /\ smtp.buf = << >>
  BY <1>2 DEF SmtpInv, SmtpTyped, SmtpScripted
<1>4. /\ smtp' \in SmtpRecord /\ smtp'.script = smtp.script /\ smtp'.op = smtp.op
      /\ smtp'.m = smtp.m /\ smtp'.buf = smtp.buf /\ smtp'.pc = "hear" /\ smtp'.late = smtp.late
  BY <1>1, <1>2 DEF SmtpRecord
<1>5. SmtpTyped'
  BY <1>1, <1>2, <1>3, <1>4 DEF SmtpTyped, SmtpScripted
<1>6. SmtpInCall'
  <2> SUFFICES ASSUME LateBorne(smtp')
               PROVE  InSteps(smtp') /\ AtStep(smtp', relay, smtpWorld.lines)
    BY <1>2 DEF SmtpInCall
  <2>1. LateBorne(smtp)
    BY <1>4 DEF LateBorne
  <2>2. InSteps(smtp) /\ AtStep(smtp, relay, smtpWorld.lines)
    BY <1>2, <2>1 DEF SmtpInv, SmtpInCall
  <2>3. ToSay(smtp') = << >>
    BY <1>1, <1>2, <1>3, <1>4, FirstAsk DEF ToSay
  <2>4. InSteps(smtp')
    BY <1>1, <1>4, <2>2, <2>3, StillInSteps
  <2>5. Heard(smtp', relay) = Heard(smtp, relay)
    BY <1>4 DEF Heard
  <2>6. AtStep(smtp', relay, smtpWorld.lines)
    BY <1>4, <2>2, <2>5, SameStep
  <2> QED BY <2>4, <2>6
<1>7. SmtpReported'
  BY <1>4 DEF SmtpReported
<1> QED BY <1>5, <1>6, <1>7 DEF SmtpInv

\* The client as a failure leaves it.
LEMMA FailedIs ==
  ASSUME smtp \in SmtpRecord, NEW e \in SmtpErrors
  PROVE  /\ [smtp EXCEPT !.error = SmtpError(e)] \in SmtpRecord
         /\ [smtp EXCEPT !.sock = FALSE, !.error = SmtpError(e)] \in SmtpRecord
<1> DEFINE f == SmtpError(e)
<1>1. f \in SmtpErrors
  BY DEF SmtpError, SmtpRecord
<1> HIDE DEF f
<1>2. /\ [smtp EXCEPT !.error = f] \in SmtpRecord
      /\ [smtp EXCEPT !.sock = FALSE, !.error = f] \in SmtpRecord
  BY <1>1 DEF SmtpRecord
<1> QED BY <1>2 DEF f

\* The reply is read: it is not whole, or of the wrong code, or the right one.
LEMMA SmtpHearsKeeps ==
  ASSUME SmtpInv, SmtpHears
  PROVE  SmtpInv'
<1> DEFINE buf == smtp.buf \o relay.inbox
<1>1. /\ smtp \in SmtpRecord /\ relay \in RelayRecord /\ MailInMaking(relay)
      /\ smtpWorld.lines \in Nat \ {0}
  BY DEF SmtpInv, SmtpTyped
<1>2. /\ smtp.pc = "hear" /\ relay.inbox # << >> /\ smtpWorld' = smtpWorld
      /\ relay' = [relay EXCEPT !.inbox = << >>]
  BY DEF SmtpHears, SmtpAt
<1>3. /\ smtp.script # << >> /\ Head(smtp.script) = smtp.script[1] /\ smtp.script \in Seq(SmtpAsks)
      /\ Len(smtp.script) \in Nat /\ Len(smtp.script) >= 1
  BY <1>1, <1>2, FirstAsk DEF SmtpInv, SmtpTyped, SmtpScripted
<1>4. buf \in Seq(SmtpLines) /\ buf = Heard(smtp, relay) /\ << >> \in Seq(SmtpLines)
  BY <1>1, PartsOfCall DEF Heard
<1>5. buf # << >>
  <2>1. smtp.buf \in Seq(SmtpLines) /\ relay.inbox \in Seq(SmtpLines)
    BY <1>1, PartsOfCall
  <2>2. Len(buf) = Len(smtp.buf) + Len(relay.inbox)
    BY <2>1, ConcatProperties
  <2>3. Len(relay.inbox) \in Nat /\ Len(relay.inbox) > 0 /\ Len(smtp.buf) \in Nat
    BY <1>2, <2>1
  <2>4. \A n, k \in Nat : k > 0 => n + k # 0
    OBVIOUS
  <2>5. Len(buf) # 0
    BY <2>2, <2>3, <2>4, Zenon
  <2> QED BY <1>4, <2>5, LinesAre
<1>6. /\ relay' \in RelayRecord /\ relay'.inbox = << >> /\ relay'.out = relay.out
      /\ relay'.wire = relay.wire /\ relay'.mail = relay.mail /\ relay'.mode = relay.mode
      /\ relay'.accepted = relay.accepted /\ relay'.up = relay.up
  BY <1>1, <1>2, <1>4 DEF RelayRecord
<1>7. MailInMaking(relay')
  BY <1>1, <1>6 DEF MailInMaking
<1>8. LateBorne(smtp) => InSteps(smtp) /\ AtStep(smtp, relay, smtpWorld.lines)
  BY <1>2 DEF SmtpInv, SmtpInCall
<1>9. CASE smtp' = [smtp EXCEPT !.buf = buf]
  <2> HIDE DEF buf
  <2>1. /\ smtp' \in SmtpRecord /\ smtp'.script = smtp.script /\ smtp'.op = smtp.op
        /\ smtp'.m = smtp.m /\ smtp'.buf = buf /\ smtp'.pc = "hear" /\ smtp'.late = smtp.late
    BY <1>1, <1>2, <1>4, <1>9 DEF SmtpRecord
  <2>2. SmtpTyped'
    BY <1>1, <1>2, <1>3, <1>6, <1>7, <2>1 DEF SmtpTyped, SmtpScripted
  <2>3. SmtpInCall'
    <3> SUFFICES ASSUME LateBorne(smtp')
                 PROVE  InSteps(smtp') /\ AtStep(smtp', relay', smtpWorld.lines)
      BY <1>2 DEF SmtpInCall
    <3>1. LateBorne(smtp)
      BY <2>1 DEF LateBorne
    <3>2. Heard(smtp', relay') = Heard(smtp, relay)
      BY <1>4, <1>6, <2>1, LinesAre DEF Heard
    <3>3. AtStep(smtp', relay', smtpWorld.lines)
      BY <1>6, <1>8, <2>1, <3>1, <3>2, SameStep
    <3>4. InSteps(smtp')
      <4>1. InSteps(smtp) /\ ToSay(smtp) = << >> /\ ToSay(smtp') = ToSay(smtp)
        BY <1>2, <1>8, <2>1, <3>1 DEF InSteps, ToSay
      <4> QED BY <1>1, <2>1, <4>1, StillInSteps
    <3> QED BY <3>3, <3>4
  <2>4. SmtpReported'
    BY <2>1 DEF SmtpReported
  <2> QED BY <2>2, <2>3, <2>4 DEF SmtpInv
<1>10. CASE SmtpFails("SMTP")
  <2>1. SmtpDone([smtp EXCEPT !.error = SmtpError("SMTP")], FALSE)
    BY <1>10 DEF SmtpFails
  <2>2. [smtp EXCEPT !.error = SmtpError("SMTP")] \in SmtpRecord
    BY <1>1, FailedIs DEF SmtpErrors
  <2> QED BY <1>2, <1>6, <1>7, <2>1, <2>2, SmtpFailsKeeps
<1>11. CASE /\ RightCode(buf) /\ Len(smtp.script) = 1 /\ SmtpDone(smtp, TRUE)
  <2>1. /\ smtp' \in SmtpRecord /\ SmtpScripted(smtp') /\ smtp'.pc = "idle"
        /\ smtp'.op = smtp.op /\ smtp'.m = smtp.m /\ smtp'.late = smtp.late
    BY <1>1, <1>11, SmtpIdles
  <2>2. SmtpTyped'
    BY <1>1, <1>2, <1>6, <1>7, <2>1 DEF SmtpTyped
  <2>3. SmtpInCall'
    BY <2>1 DEF SmtpInCall
  <2>4. SmtpReported'
    <3> SUFFICES ASSUME LateBorne(smtp') PROVE relay'.wire = << >> /\ MailTaken(smtp', relay')
      BY DEF SmtpReported
    <3>1. LateBorne(smtp)
      BY <2>1 DEF LateBorne
    <3>2. buf[1].code = smtp.script[1].want
      BY <1>3, <1>4, <1>5, <1>11, LinesAre DEF RightCode
    <3>3. relay.wire = << >> /\ MailTaken(smtp, relay)
      BY <1>1, <1>4, <1>5, <1>8, <1>11, <3>1, <3>2, CallDone
    <3> QED BY <1>6, <2>1, <3>3 DEF MailTaken, MailIsOurs
  <2> QED BY <2>2, <2>3, <2>4 DEF SmtpInv
<1>12. CASE /\ Last(buf).nl /\ RightCode(buf) /\ Len(smtp.script) # 1
            /\ smtp' = [smtp EXCEPT !.pc = "say", !.script = Tail(@), !.buf = << >>]
  <2> DEFINE script == Tail(smtp.script)
  <2>1. script \in Seq(SmtpAsks) /\ script # << >>
    <3>1. \A n \in Nat : n # 1 => n - 1 # 0
      OBVIOUS
    <3>2. script \in Seq(SmtpAsks) /\ Len(script) = Len(smtp.script) - 1
      BY <1>3, HeadTailProperties
    <3>3. Len(script) # 0
      BY <1>3, <1>12, <3>1, <3>2, Zenon
    <3>4. Len(<< >>) = 0
      OBVIOUS
    <3> QED BY <3>2, <3>3, <3>4, Zenon
  <2>2. smtp' = [smtp EXCEPT !.pc = "say", !.script = script, !.buf = << >>]
    BY <1>12
  <2> HIDE DEF script, buf
  <2>3. /\ smtp' \in SmtpRecord /\ smtp'.script = script /\ smtp'.op = smtp.op
        /\ smtp'.m = smtp.m /\ smtp'.buf = << >> /\ smtp'.pc = "say" /\ smtp'.late = smtp.late
    BY <1>1, <1>4, <2>1, <2>2 DEF SmtpRecord
  <2>4. SmtpTyped'
    BY <1>1, <1>2, <1>6, <1>7, <2>1, <2>3 DEF SmtpTyped, SmtpScripted
  <2>5. SmtpInCall'
    <3> SUFFICES ASSUME LateBorne(smtp')
                 PROVE  InSteps(smtp') /\ AtStep(smtp', relay', smtpWorld.lines)
      BY <1>2 DEF SmtpInCall
    <3>1. LateBorne(smtp)
      BY <2>3 DEF LateBorne
    <3>2. buf[1].code = smtp.script[1].want
      BY <1>3, <1>4, <1>5, <1>12, LinesAre DEF RightCode
    <3>3. buf[Len(buf)].nl
      BY <1>12 DEF Last
    <3> QED BY <1>1, <1>2, <1>3, <1>4, <1>5, <1>6, <1>8, <1>12, <2>3, <3>1, <3>2, <3>3,
               NextStep DEF script
  <2>6. SmtpReported'
    BY <2>3 DEF SmtpReported
  <2> QED BY <2>4, <2>5, <2>6 DEF SmtpInv
<1> QED BY <1>9, <1>10, <1>11, <1>12 DEF SmtpHears

\* A client that gives up waiting, or hears that the connection is closed, reports nothing.
LEMMA SmtpGivesUpKeeps ==
  ASSUME SmtpInv, SmtpTimesOut \/ SmtpHearsEnd
  PROVE  SmtpInv'
<1>1. /\ smtp \in SmtpRecord /\ relay' = relay /\ smtpWorld' = smtpWorld
      /\ relay' \in RelayRecord /\ MailInMaking(relay')
  BY DEF SmtpInv, SmtpTyped, SmtpTimesOut, SmtpHearsEnd
<1>2. ASSUME NEW e \in SmtpErrors, SmtpFails(e) PROVE SmtpInv'
  BY <1>1, <1>2, FailedIs, SmtpFailsKeeps DEF SmtpFails
<1>3. CASE SmtpDone([smtp EXCEPT !.sock = FALSE, !.error = SmtpError("RECEIVE")], FALSE)
  <2>1. "RECEIVE" \in SmtpErrors
    BY DEF SmtpErrors
  <2>2. [smtp EXCEPT !.sock = FALSE, !.error = SmtpError("RECEIVE")] \in SmtpRecord
    BY <1>1, <2>1, FailedIs
  <2> QED BY <1>1, <1>3, <2>2, SmtpFailsKeeps
<1>4. "REQ_TIMEOUT" \in SmtpErrors /\ "DISCONNECTED" \in SmtpErrors
  BY DEF SmtpErrors
<1> QED BY <1>2, <1>3, <1>4 DEF SmtpTimesOut, SmtpHearsEnd

\* Every step keeps the invariant.
LEMMA SmtpNextInv == SmtpInv /\ [SmtpNext]_smtpVars => SmtpInv'
<1> SUFFICES ASSUME SmtpInv, [SmtpNext]_smtpVars PROVE SmtpInv'
  OBVIOUS
<1>1. CASE SmtpConnects
  BY <1>1, CallConnectKeeps DEF SmtpConnects
<1>2. ASSUME NEW op \in {"SMTPLogin", "ESMTPLogin", "ESMTPAuthLogin", "SMTPLogout", "SMTPRSet"},
             CallSmtp(op, 0)
      PROVE  SmtpInv'
  <2>1. op \in SmtpOps \ {"none", "ConnectClient", "ConnectEClient"} /\ 0 \in Nat
    BY DEF SmtpOps
  <2> QED BY <1>2, <2>1, CallSmtpKeeps
<1>3. ASSUME NEW op \in {"SMTPMailFrom", "SMTPRcptTo", "SMTPData", "SMTPSendMessage"},
             NEW m \in Mails, CallSmtp(op, m)
      PROVE  SmtpInv'
  <2>1. op \in SmtpOps \ {"none", "ConnectClient", "ConnectEClient"} /\ m \in Nat
    BY SmtpAssumption DEF SmtpOps
  <2> QED BY <1>3, <2>1, CallSmtpKeeps
<1>4. CASE SmtpClient
  BY <1>4, SmtpSayKeeps, SmtpListensKeeps, SmtpHearsKeeps, SmtpGivesUpKeeps DEF SmtpClient
<1>5. CASE SmtpServer
  BY <1>5, RelayCommandKeeps, RelayTextKeeps, RelaySaysKeeps DEF SmtpServer
<1>6. CASE UNCHANGED smtpVars
  <2>1. smtp' = smtp /\ relay' = relay /\ smtpWorld' = smtpWorld
    BY <1>6 DEF smtpVars
  <2> QED BY <2>1 DEF SmtpInv, SmtpTyped, SmtpInCall, SmtpReported
<1> QED BY <1>1, <1>2, <1>3, <1>4, <1>5, <1>6, RelayHangsUpKeeps
       DEF SmtpNext, SmtpLogs, SmtpSends

\* A mail that SMTPSendMessage or SMTPData reported as sent is the last that the server has
\* accepted, and is whole, when at most one answer, and for SMTPData none, was still to come at
\* the call's beginning.
THEOREM SmtpInvariant == SmtpSpec => []SmtpSound
<1>1. SmtpInv => SmtpSound
  <2> SUFFICES ASSUME SmtpInv PROVE SmtpSound
    OBVIOUS
  <2>1. ASSUME Reported("SMTPSendMessage"), smtp.late <= 1
        PROVE  relay.accepted # << >> /\ Last(relay.accepted) = WholeMail(smtp.m)
    <3>1. MailTaken(smtp, relay)
      BY <2>1 DEF Reported, LateBorne, SmtpInv, SmtpReported
    <3> DEFINE mail == relay.accepted[Len(relay.accepted)]
    <3>2. /\ relay.accepted # << >> /\ smtp.op = "SMTPSendMessage"
          /\ mail.text = << <<"header", smtp.m>>, <<"body", smtp.m>> >>
          /\ mail.from = smtp.m /\ mail.to = smtp.m
      BY <2>1, <3>1 DEF Reported, MailTaken, MailIsOurs, TextOf
    <3>3. mail \in MailRecord
      <4>1. relay.accepted \in Seq(MailRecord)
        BY DEF SmtpInv, SmtpTyped, RelayRecord
      <4> QED BY <3>2, <4>1
    <3>4. Last(relay.accepted) = mail
      BY DEF Last
    <3> HIDE DEF mail
    <3>5. mail = WholeMail(smtp.m)
      BY <3>2, <3>3 DEF MailRecord, WholeMail
    <3> QED BY <3>2, <3>4, <3>5
  <2>2. ASSUME Reported("SMTPData"), smtp.late = 0
        PROVE  relay.accepted # << >> /\ Last(relay.accepted).text = << <<"body", smtp.m>> >>
    BY <2>2 DEF Reported, LateBorne, SmtpInv, SmtpReported, MailTaken, TextOf, Last
  <2> QED BY <2>1, <2>2 DEF SmtpSound, MailAccepted, TextAccepted
<1>2. SmtpSpec => []SmtpInv
  BY SmtpInitInv, SmtpNextInv, PTL DEF SmtpSpec
<1> QED BY <1>1, <1>2, PTL

------------------------------------------------------------------------------
\* The mail that a client sends and the mail that it retrieves, as the two theorems say.
THEOREM MailIsSound == SmtpSpec /\ PopSpec => [](SmtpSound /\ RetrievedWhole /\ DoneByServer)
  BY SmtpInvariant, PopInvariant, PTL
==============================================================================
