---------------------------- MODULE CThreadProofs ----------------------------
(***************************************************************************)
(* c_thread keeps its promises in every build, for every user its           *)
(* properties name and for any number of thread ids.  The owner's agenda is *)
(* described by which step may follow which (Linked) and by which steps     *)
(* belong to which call (InCall); from that follows what the object looks   *)
(* like when a step is at the front of it.                                  *)
(***************************************************************************)
EXTENDS CThreadProperties, TLAPS

Waiting == {"wait", "wait_0", "await_work_event", "join", "join_0"}
Resuming == {"resume_finished", "resume_suspended", "resume_event"}
Starting == {"start", "start_suspended", "start_running", "create", "create_suspended"}
Before == {"begin", "suspended"}
Running == {"check", "execute", "finish"}
Ended == {"signal", "exited"}

\* The step b may come after the step a on the owner's agenda.
Follows(a, b) ==
  \/ a = "stop" /\ b = "resume_if_suspended"
  \/ a \in {"resume_if_suspended", "resume_event"} /\ b \in Waiting
  \/ a = "resume_finished" /\ b = "resume_suspended"
  \/ a = "resume_suspended" /\ b = "resume_event"
  \/ a = "await_work_event" /\ b = "join"
  \/ a \in Waiting \ {"await_work_event"} /\ b = "force"
  \/ a = "force" /\ b \in {"start", "derived_gone", "gone"}
  \/ a = "start" /\ b \in {"start_suspended", "start_running"}
  \/ a = "start_suspended" /\ b = "create_suspended"
  \/ a = "start_running" /\ b = "create"
  \/ a \in {"create", "create_suspended"} /\ b = "constructed"
  \/ a = "derived_gone" /\ b = "stop"
Linked(s) == \A k \in 1 .. Len(s) - 1 : Follows(s[k], s[k + 1])

\* The steps on s; whether steps of S are still to come; whether one of them is next.
On(s) == {s[k] : k \in 1 .. Len(s)}
Pending(S) == On(agenda) \cap S # {}
At(S) == agenda # << >> /\ agenda[1] \in S

\* Which steps a call has.
InCall ==
  /\ Pending(Starting) => call \in {"Construct", "Start"}
  /\ Pending({"constructed"}) => call = "Construct"
  /\ Pending({"derived_gone", "gone"}) => call = "Destroy"
  /\ Pending({"create", "start_running"}) => created # "suspended"
  /\ Pending({"create_suspended", "start_suspended"}) => created = "suspended"

\* What is there before the constructor and after the destructor.
NothingLeft ==
  life = "none" => /\ agenda = << >> /\ ThreadHandle = INVALID
                   /\ ~Suspended /\ ~suspend_event

\* No thread is created before the earlier one is gone, and none is terminated that
\* WaitFor has seen end.
GoneBefore ==
  /\ At(Starting \cup {"gone"}) => ThreadHandle = INVALID
  /\ At({"force"}) /\ waited => ThreadHandle = INVALID

\* The object lacks its derived part only in the constructor and the destructor.  There is no
\* thread then in a constructor that starts none, nor after a derived destructor that waits.
NoneOutside ==
  /\ life = "base" => call \in {"Construct", "Destroy"}
  /\ life = "base" /\ call = "Construct" /\ ~world.startOnCreate =>
       ThreadHandle = INVALID /\ ~Pending(Starting)
  /\ world.derivedWaits /\ call = "Destroy" =>
       (life = "base" \/ At({"derived_gone"}) => ThreadHandle = INVALID)

OwnerInv == Linked(agenda) /\ InCall /\ NothingLeft /\ GoneBefore /\ OwnsItsThread /\ NoneOutside
IInv == TypeOK /\ OwnerInv

\* Where the owner has resumed the thread, and where it is about to create one suspended.
ResumedFirst ==
  /\ At({"resume_event", "await_work_event", "join", "join_0", "force", "start",
         "start_suspended", "start_running", "create"}) => ~Suspended
  /\ At({"wait", "wait_0"}) /\ Len(agenda) > 1 => ~Suspended
  /\ At({"create_suspended"}) => Suspended
  /\ At({"create"}) => ~Finished

\* A user that never suspends.
NeverSuspended ==
  ~world.suspends => /\ ~Suspended /\ created # "suspended"
                     /\ ~Pending({"start_suspended", "create_suspended"})

\* Where an object is started once, no event is left when a thread is created suspended.
NoEventLeft ==
  world.posix /\ ~world.restarts =>
    /\ created = "no" \/ Pending({"start_suspended"}) =>
         ~Suspended /\ ~suspend_event /\ ~Pending(Resuming)
    /\ Pending({"create_suspended"}) => ~suspend_event /\ ~Pending(Resuming)

\* What the flags say of the thread.
FlagsTruthful ==
  \A i \in Ids :
    /\ worker[i] \in Running \cup Ended => ~Suspended
    /\ worker[i] \in Before \cup Running /\ ~Suspended => ~Finished
    /\ worker[i] \in Ended => Finished
    /\ world.posix /\ worker[i] \in Before /\ suspend_event => ~Suspended
    /\ At({"resume_suspended"}) /\ Suspended /\ worker[i] # "none" => ~Finished

\* A thread that was created suspended and not resumed yet.
HeldBack ==
  held => /\ ~Pending(Steps \ {"constructed"})
          /\ \A i \in Ids : worker[i] # "none" =>
               worker[i] \in Before /\ Suspended /\ (world.posix => ~suspend_event)

SInv == ResumedFirst /\ NeverSuspended /\ NoEventLeft /\ FlagsTruthful /\ HeldBack
------------------------------------------------------------------------------
\* The agenda as a sequence.

\* Linked sequences whose ends fit make a linked sequence.
LEMMA Concat ==
  ASSUME NEW s \in Seq(Steps), NEW t \in Seq(Steps), Linked(s), Linked(t),
         s # << >> /\ t # << >> => Follows(s[Len(s)], t[1])
  PROVE  /\ s \o t \in Seq(Steps) /\ Linked(s \o t)
         /\ On(s \o t) = On(s) \cup On(t)
         /\ s # << >> => s \o t # << >> /\ (s \o t)[1] = s[1]
         /\ t # << >> => s \o t # << >> /\ (s \o t)[Len(s \o t)] = t[Len(t)]
<1> DEFINE u == s \o t
<1>1. /\ u \in Seq(Steps) /\ Len(u) = Len(s) + Len(t)
      /\ \A k \in 1 .. Len(u) : u[k] = IF k <= Len(s) THEN s[k] ELSE t[k - Len(s)]
  OBVIOUS
<1>2. Linked(u)
  <2>1. SUFFICES ASSUME NEW k \in 1 .. Len(u) - 1 PROVE Follows(u[k], u[k + 1])
    BY DEF Linked
  <2>2. CASE k + 1 <= Len(s)
    <3>1. u[k] = s[k] /\ u[k + 1] = s[k + 1] /\ k \in 1 .. Len(s) - 1
      BY <1>1, <2>2
    <3> QED BY <3>1 DEF Linked
  <2>3. CASE k = Len(s)
    <3>1. u[k] = s[Len(s)] /\ u[k + 1] = t[1] /\ s # << >> /\ t # << >>
      BY <1>1, <2>3
    <3> QED BY <3>1
  <2>4. CASE k > Len(s)
    <3> DEFINE j == k - Len(s)
    <3>1. u[k] = t[j] /\ u[k + 1] = t[j + 1] /\ j \in 1 .. Len(t) - 1
      BY <1>1, <2>4
    <3> HIDE DEF j
    <3> QED BY <3>1 DEF Linked
  <2> QED BY <2>2, <2>3, <2>4, <1>1
<1>3. On(u) = On(s) \cup On(t)
  <2>1. ASSUME NEW x \in On(u) PROVE x \in On(s) \cup On(t)
    BY <1>1, <2>1 DEF On
  <2>2. ASSUME NEW x \in On(s) PROVE x \in On(u)
    BY <1>1, <2>2 DEF On
  <2>3. ASSUME NEW x \in On(t) PROVE x \in On(u)
    <3>1. PICK k \in 1 .. Len(t) : x = t[k]
      BY <2>3 DEF On
    <3>2. k + Len(s) \in 1 .. Len(u) /\ u[k + Len(s)] = x
      BY <1>1, <3>1
    <3> QED BY <3>2 DEF On
  <2> QED BY <2>1, <2>2, <2>3
<1>4. /\ s # << >> => u # << >> /\ u[1] = s[1]
      /\ t # << >> => u # << >> /\ u[Len(u)] = t[Len(t)]
  BY <1>1
<1> QED BY <1>1, <1>2, <1>3, <1>4

\* What is left of a linked sequence without its first step.
LEMMA Rest ==
  ASSUME NEW s \in Seq(Steps), Linked(s), s # << >>
  PROVE  /\ Head(s) = s[1] /\ s[1] \in On(s)
         /\ Tail(s) \in Seq(Steps) /\ Linked(Tail(s)) /\ On(Tail(s)) \subseteq On(s)
         /\ Tail(s) # << >> => Follows(s[1], Tail(s)[1])
<1>1. /\ Tail(s) \in Seq(Steps) /\ Len(Tail(s)) = Len(s) - 1 /\ Len(s) \in Nat \ {0}
      /\ \A k \in 1 .. Len(Tail(s)) : Tail(s)[k] = s[k + 1]
  OBVIOUS
<1>2. Linked(Tail(s))
  BY <1>1 DEF Linked
<1>3. On(Tail(s)) \subseteq On(s) /\ s[1] \in On(s)
  BY <1>1 DEF On
<1>4. Tail(s) # << >> => Follows(s[1], Tail(s)[1])
  BY <1>1 DEF Linked
<1> QED BY <1>1, <1>2, <1>3, <1>4

\* A step that calls nothing.
LEMMA Done ==
  ASSUME agenda \in Seq(Steps), Linked(agenda), NEW step, Do(step, << >>)
  PROVE  /\ agenda # << >> /\ agenda[1] = step /\ step \in On(agenda) /\ agenda' = Tail(agenda)
         /\ agenda' \in Seq(Steps) /\ Linked(agenda') /\ On(agenda') \subseteq On(agenda)
         /\ agenda' # << >> => Follows(step, agenda'[1])
<1>1. agenda' = Tail(agenda) /\ agenda # << >> /\ Head(agenda) = step
  BY DEF Do
<1> QED BY <1>1, Rest

\* A step that calls more.
LEMMA Calls ==
  ASSUME agenda \in Seq(Steps), Linked(agenda), NEW step,
         NEW more \in Seq(Steps), more # << >>, Linked(more), Do(step, more),
         \A b \in Steps : Follows(step, b) => Follows(more[Len(more)], b)
  PROVE  /\ agenda # << >> /\ agenda[1] = step /\ step \in On(agenda)
         /\ agenda' \in Seq(Steps) /\ Linked(agenda')
         /\ On(agenda') \subseteq On(agenda) \cup On(more)
         /\ agenda' # << >> /\ agenda'[1] = more[1]
<1>1. agenda' = more \o Tail(agenda) /\ agenda # << >> /\ Head(agenda) = step
  BY DEF Do
<1>2. /\ Tail(agenda) \in Seq(Steps) /\ Linked(Tail(agenda)) /\ agenda[1] = step
      /\ On(Tail(agenda)) \subseteq On(agenda) /\ step \in On(agenda)
      /\ Tail(agenda) # << >> => Follows(step, Tail(agenda)[1])
  BY <1>1, Rest
<1> DEFINE t == Tail(agenda)
<1>3. t # << >> => Follows(more[Len(more)], t[1])
  <2>1. t # << >> => t[1] \in Steps
    BY <1>2
  <2> QED BY <1>2, <2>1
<1> HIDE DEF t
<1>4. /\ more \o t \in Seq(Steps) /\ Linked(more \o t)
      /\ On(more \o t) = On(more) \cup On(t)
      /\ more \o t # << >> /\ (more \o t)[1] = more[1]
  BY <1>2, <1>3, Concat DEF t
<1> QED BY <1>1, <1>2, <1>4 DEF t

\* b is what a function does: steps of A, from first to last.
IsBody(b, A, first, last) ==
  /\ b \in Seq(Steps) /\ Linked(b) /\ On(b) = A
  /\ b # << >> /\ b[1] = first /\ b[Len(b)] = last

\* One body after the other.
LEMMA BodyThenBody ==
  ASSUME NEW s, NEW t, NEW A, NEW B, NEW a, NEW b, NEW c, NEW d,
         IsBody(s, A, a, b), IsBody(t, B, c, d), Follows(b, c)
  PROVE  IsBody(s \o t, A \cup B, a, d)
BY Concat DEF IsBody

\* Bodies of one, two and three steps.
LEMMA Tuples ==
  ASSUME NEW a \in Steps, NEW b \in Steps, NEW c \in Steps
  PROVE  /\ IsBody(<<a>>, {a}, a, a)
         /\ Follows(a, b) => IsBody(<<a, b>>, {a, b}, a, b)
         /\ Follows(a, b) /\ Follows(b, c) => IsBody(<<a, b, c>>, {a, b, c}, a, c)
<1>1. IsBody(<<a>>, {a}, a, a)
  BY DEF IsBody, On, Linked
<1>2. Follows(a, b) => IsBody(<<a, b>>, {a, b}, a, b)
  BY DEF IsBody, On, Linked
<1>3. Follows(a, b) /\ Follows(b, c) => IsBody(<<a, b, c>>, {a, b, c}, a, c)
  BY DEF IsBody, On, Linked
<1> QED BY <1>1, <1>2, <1>3

\* The names of the steps, and which follow which.
LEMMA Names ==
  /\ {"resume_finished", "resume_suspended", "resume_event", "stop",
      "resume_if_suspended", "wait", "wait_0", "force", "start", "start_suspended",
      "start_running", "create", "create_suspended", "constructed", "derived_gone",
      "gone", "await_work_event", "join", "join_0"} \subseteq Steps
  /\ Follows("resume_finished", "resume_suspended")
  /\ Follows("resume_suspended", "resume_event")
  /\ Follows("stop", "resume_if_suspended")
  /\ Follows("resume_if_suspended", "wait") /\ Follows("resume_if_suspended", "wait_0")
  /\ Follows("wait", "force") /\ Follows("wait_0", "force")
  /\ Follows("force", "start") /\ Follows("force", "derived_gone") /\ Follows("force", "gone")
  /\ Follows("start", "start_suspended") /\ Follows("start_suspended", "create_suspended")
  /\ Follows("start", "start_running") /\ Follows("start_running", "create")
  /\ Follows("create_suspended", "constructed") /\ Follows("create", "constructed")
  /\ Follows("derived_gone", "stop")
BY DEF Steps, Follows, Waiting

ForceStopSteps == {"stop", "resume_if_suspended", "wait_0", "force"}
StartSteps(suspended) ==
  ForceStopSteps \cup (IF suspended THEN {"start", "start_suspended", "create_suspended"}
                                    ELSE {"start", "start_running", "create"})

\* The bodies of the member functions.
LEMMA Bodies ==
  /\ IsBody(Resume, Resuming, "resume_finished", "resume_event")
  /\ IsBody(Stop, {"stop", "resume_if_suspended"}, "stop", "resume_if_suspended")
  /\ IsBody(WaitFor(TRUE), {"wait_0"}, "wait_0", "wait_0")
  /\ IsBody(WaitFor(FALSE), {"wait"}, "wait", "wait")
  /\ IsBody(ForceStop, ForceStopSteps, "stop", "force")
  /\ IsBody(Stop \o WaitFor(FALSE), {"stop", "resume_if_suspended", "wait"}, "stop", "wait")
  /\ IsBody(Start(TRUE), StartSteps(TRUE), "stop", "create_suspended")
  /\ IsBody(Start(FALSE), StartSteps(FALSE), "stop", "create")
<1>1. IsBody(Resume, Resuming, "resume_finished", "resume_event")
  BY Tuples, Names DEF Resume, Resuming
<1>2. IsBody(Stop, {"stop", "resume_if_suspended"}, "stop", "resume_if_suspended")
  BY Tuples, Names DEF Stop
<1>3. /\ IsBody(WaitFor(TRUE), {"wait_0"}, "wait_0", "wait_0")
      /\ IsBody(WaitFor(FALSE), {"wait"}, "wait", "wait")
      /\ IsBody(<<"force">>, {"force"}, "force", "force")
  BY Tuples, Names DEF WaitFor
<1>5. IsBody(Stop \o WaitFor(FALSE), {"stop", "resume_if_suspended", "wait"}, "stop", "wait")
  <2>1. IsBody(Stop \o WaitFor(FALSE), {"stop", "resume_if_suspended"} \cup {"wait"},
               "stop", "wait")
    BY <1>2, <1>3, Names, BodyThenBody
  <2>2. {"stop", "resume_if_suspended"} \cup {"wait"} = {"stop", "resume_if_suspended", "wait"}
    OBVIOUS
  <2> QED BY <2>1, <2>2
<1>6. IsBody(ForceStop, ForceStopSteps, "stop", "force")
  <2>1. IsBody(Stop \o WaitFor(TRUE), {"stop", "resume_if_suspended"} \cup {"wait_0"},
               "stop", "wait_0")
    BY <1>2, <1>3, Names, BodyThenBody
  <2>2. IsBody((Stop \o WaitFor(TRUE)) \o <<"force">>,
               ({"stop", "resume_if_suspended"} \cup {"wait_0"}) \cup {"force"},
               "stop", "force")
    BY <2>1, <1>3, Names, BodyThenBody
  <2>3. ({"stop", "resume_if_suspended"} \cup {"wait_0"}) \cup {"force"} = ForceStopSteps
    BY DEF ForceStopSteps
  <2> QED BY <2>2, <2>3 DEF ForceStop
<1>7. IsBody(Start(TRUE), StartSteps(TRUE), "stop", "create_suspended")
  <2>1. IsBody(<<"start", "start_suspended", "create_suspended">>,
               {"start", "start_suspended", "create_suspended"}, "start", "create_suspended")
    BY Tuples, Names
  <2> QED BY <1>6, <2>1, Names, BodyThenBody DEF Start, StartSteps
<1>8. IsBody(Start(FALSE), StartSteps(FALSE), "stop", "create")
  <2>1. IsBody(<<"start", "start_running", "create">>,
               {"start", "start_running", "create"}, "start", "create")
    BY Tuples, Names
  <2> QED BY <1>6, <2>1, Names, BodyThenBody DEF Start, StartSteps
<1> QED BY <1>1, <1>2, <1>3, <1>5, <1>6, <1>7, <1>8

\* What the constructor calls.
LEMMA ConstructBodies ==
  /\ IsBody(<<"constructed">>, {"constructed"}, "constructed", "constructed")
  /\ IsBody(Start(TRUE) \o <<"constructed">>, StartSteps(TRUE) \cup {"constructed"},
            "stop", "constructed")
  /\ IsBody(Start(FALSE) \o <<"constructed">>, StartSteps(FALSE) \cup {"constructed"},
            "stop", "constructed")
<1>1. IsBody(<<"constructed">>, {"constructed"}, "constructed", "constructed")
  BY Tuples, Names
<1> QED BY <1>1, Names, Bodies, BodyThenBody

\* What the destructors do.
LEMMA DestroyBody ==
  \E A : /\ A \subseteq ForceStopSteps \cup {"wait", "derived_gone", "gone"}
         /\ IsBody(Destroy, A, IF world.derivedWaits THEN "stop" ELSE "derived_gone", "gone")
<1> DEFINE first == IF world.derivedWaits THEN "stop" ELSE "derived_gone"
           d == (IF world.derivedWaits THEN Stop \o WaitFor(FALSE) \o <<"force">> ELSE << >>)
                  \o <<"derived_gone">>
           D == IF world.derivedWaits
                THEN ({"stop", "resume_if_suspended", "wait"} \cup {"force"})
                       \cup {"derived_gone"}
                ELSE {"derived_gone"}
<1>1. /\ IsBody(<<"derived_gone">>, {"derived_gone"}, "derived_gone", "derived_gone")
      /\ IsBody(<<"gone">>, {"gone"}, "gone", "gone")
      /\ IsBody(<<"force">>, {"force"}, "force", "force")
  BY Tuples, Names
<1>2. IsBody(d, D, first, "derived_gone")
  <2>1. CASE world.derivedWaits
    <3>1. IsBody(Stop \o WaitFor(FALSE) \o <<"force">>,
                 {"stop", "resume_if_suspended", "wait"} \cup {"force"}, "stop", "force")
      BY <1>1, Names, Bodies, BodyThenBody
    <3> QED BY <2>1, <3>1, <1>1, Names, BodyThenBody
  <2>2. CASE ~world.derivedWaits
    <3>1. << >> \o <<"derived_gone">> = <<"derived_gone">>
      OBVIOUS
    <3> QED BY <2>2, <3>1, <1>1
  <2> QED BY <2>1, <2>2
<1> HIDE DEF first
<1>3. IsBody(Destroy, (D \cup ForceStopSteps) \cup {"gone"}, first, "gone")
  <2> HIDE DEF d, D
  <2>1. IsBody(d \o ForceStop, D \cup ForceStopSteps, first, "force")
    BY <1>2, Names, Bodies, BodyThenBody
  <2>2. IsBody((d \o ForceStop) \o <<"gone">>, (D \cup ForceStopSteps) \cup {"gone"},
               first, "gone")
    BY <2>1, <1>1, Names, BodyThenBody
  <2>3. Destroy = (d \o ForceStop) \o <<"gone">>
    BY DEF Destroy, d
  <2> QED BY <2>2, <2>3
<1>4. (D \cup ForceStopSteps) \cup {"gone"} \subseteq
        ForceStopSteps \cup {"wait", "derived_gone", "gone"}
  BY DEF ForceStopSteps
<1> QED BY <1>3, <1>4 DEF first

------------------------------------------------------------------------------
\* What is true of every object, however it is used.

Calling == {"none", "Construct", "Start", "Resume", "Stop", "StopAndWait", "WaitFor",
            "ForceStop", "Destroy"}

\* The initial states satisfy the invariant.
LEMMA InitIInv == Init => IInv
<1> SUFFICES ASSUME Init PROVE IInv
  OBVIOUS
<1>1. TypeOK
  <2>1. << >> \in Seq(Steps)
    OBVIOUS
  <2> QED BY <2>1 DEF Init, TypeOK
<1>2. agenda = << >> /\ Len(agenda) = 0 /\ On(agenda) = {}
  BY DEF Init, On
<1>3. Linked(agenda) /\ InCall /\ GoneBefore /\ NoneOutside
  BY <1>2 DEF Init, Linked, InCall, Pending, GoneBefore, At, NoneOutside
<1>4. NothingLeft /\ OwnsItsThread
  BY DEF Init, NothingLeft, OwnsItsThread
<1> QED BY <1>1, <1>3, <1>4 DEF IInv, OwnerInv

\* A call of a function with a suitable body.
LEMMA CallKeeps ==
  ASSUME IInv, NEW name \in Calling, NEW body, NEW A, NEW first, NEW last,
         IsBody(body, A, first, last), Call(name, body),
         life' \in {"base", "derived"}, created' \in {"no", "running", "suspended"},
         first \notin Starting \cup {"gone", "force"},
         A \cap Starting # {} => name \in {"Construct", "Start"},
         A \cap {"constructed"} # {} => name = "Construct",
         A \cap {"derived_gone", "gone"} # {} => name = "Destroy",
         A \cap {"create", "start_running"} # {} => created' # "suspended",
         A \cap {"create_suspended", "start_suspended"} # {} => created' = "suspended",
         life' = "base" => name = "Construct",
         life' = "base" /\ ~world.startOnCreate =>
           ThreadHandle = INVALID /\ A \cap Starting = {},
         world.derivedWaits /\ name = "Destroy" => first # "derived_gone"
  PROVE  IInv'
<1>1. /\ agenda' = body /\ call' = name /\ held' = FALSE
      /\ UNCHANGED <<world, object, events, worker, waited>>
  BY DEF Call
<1>2. /\ agenda' \in Seq(Steps) /\ Linked(agenda') /\ On(agenda') = A
      /\ agenda' # << >> /\ agenda'[1] = first
  BY <1>1 DEF IsBody
<1>3. TypeOK'
  BY <1>1, <1>2 DEF IInv, TypeOK, object, events, Calling
<1>4. InCall'
  BY <1>1, <1>2 DEF InCall, Pending
<1>5. NothingLeft' /\ OwnsItsThread'
  BY <1>1 DEF IInv, OwnerInv, NothingLeft, OwnsItsThread, object
<1>6. GoneBefore' /\ NoneOutside'
  BY <1>1, <1>2 DEF GoneBefore, NoneOutside, At, Pending, object
<1> QED BY <1>2, <1>3, <1>4, <1>5, <1>6 DEF IInv, OwnerInv

\* The calls of the owner.
LEMMA OwnerCallsKeep == IInv /\ OwnerCalls => IInv'
<1> SUFFICES ASSUME IInv, OwnerCalls PROVE IInv'
  OBVIOUS
<1>1. /\ life = "none" => ThreadHandle = INVALID
      /\ world.suspends \in BOOLEAN
  BY ThreadAssumption DEF IInv, TypeOK, OwnerInv, NothingLeft
<1> DEFINE C(s) == StartSteps(s) \cup {"constructed"}
<1>2. /\ C(TRUE) \cap {"derived_gone", "gone"} = {} /\ C(FALSE) \cap {"derived_gone", "gone"} = {}
      /\ C(TRUE) \cap {"create", "start_running"} = {}
      /\ C(FALSE) \cap {"create_suspended", "start_suspended"} = {}
  BY DEF StartSteps, ForceStopSteps
<1> HIDE DEF C
<1>3. /\ IsBody(Start(TRUE) \o <<"constructed">>, C(TRUE), "stop", "constructed")
      /\ IsBody(Start(FALSE) \o <<"constructed">>, C(FALSE), "stop", "constructed")
  BY ConstructBodies DEF C
<1>4. /\ StartSteps(TRUE) \cap {"derived_gone", "gone", "constructed"} = {}
      /\ StartSteps(FALSE) \cap {"derived_gone", "gone", "constructed"} = {}
      /\ StartSteps(TRUE) \cap {"create", "start_running"} = {}
      /\ StartSteps(FALSE) \cap {"create_suspended", "start_suspended"} = {}
  BY DEF StartSteps, ForceStopSteps
<1>5. /\ "stop" \notin Starting \cup {"gone", "force"}
      /\ "resume_finished" \notin Starting \cup {"gone", "force"}
      /\ "wait" \notin Starting \cup {"gone", "force"}
      /\ "wait_0" \notin Starting \cup {"gone", "force"}
      /\ "derived_gone" \notin Starting \cup {"gone", "force"}
      /\ "constructed" \notin Starting \cup {"gone", "force"}
  BY DEF Starting
<1>6. CASE CallConstructor
  <2>1. CASE Call("Construct", <<"constructed">>) /\ created' = "no"
    <3>1. {"constructed"} \cap Starting = {}
      BY DEF Starting
    <3> QED BY <1>1, <1>5, <1>6, <2>1, <3>1, ConstructBodies, CallKeeps
             DEF CallConstructor, Calling
  <2>2. ASSUME world.startOnCreate, Call("Construct", Start(TRUE) \o <<"constructed">>),
               created' = "suspended"
        PROVE  IInv'
    BY <1>5, <1>6, <1>2, <1>3, <2>2, CallKeeps DEF CallConstructor, Calling
  <2>3. ASSUME world.startOnCreate, Call("Construct", Start(FALSE) \o <<"constructed">>),
               created' = "running"
        PROVE  IInv'
    BY <1>5, <1>6, <1>2, <1>3, <2>3, CallKeeps DEF CallConstructor, Calling
  <2>4. ASSUME world.startOnCreate, NEW s \in BOOLEAN,
               Call("Construct", Start(s) \o <<"constructed">>),
               created' = IF s THEN "suspended" ELSE "running"
        PROVE  IInv'
    <3>1. CASE s = TRUE
      BY <2>2, <2>4, <3>1
    <3>2. CASE s = FALSE
      BY <2>3, <2>4, <3>2
    <3> QED BY <2>4, <3>1, <3>2
  <2> QED BY <1>1, <1>6, <2>1, <2>4 DEF CallConstructor
<1>7. CASE CallStart
  <2>1. ASSUME Call("Start", Start(TRUE)), created' = "suspended" PROVE IInv'
    BY <1>4, <1>5, <1>7, <2>1, Bodies, CallKeeps DEF CallStart, Calling
  <2>2. ASSUME Call("Start", Start(FALSE)), created' = "running" PROVE IInv'
    BY <1>4, <1>5, <1>7, <2>2, Bodies, CallKeeps DEF CallStart, Calling
  <2>3. ASSUME NEW s \in BOOLEAN, Call("Start", Start(s)),
               created' = IF s THEN "suspended" ELSE "running"
        PROVE  IInv'
    <3>1. CASE s = TRUE
      BY <2>1, <2>3, <3>1
    <3>2. CASE s = FALSE
      BY <2>2, <2>3, <3>2
    <3> QED BY <2>3, <3>1, <3>2
  <2> QED BY <1>1, <1>7, <2>3 DEF CallStart
<1>8. CASE CallResume
  <2>1. Resuming \cap (Starting \cup {"constructed", "derived_gone", "gone"}) = {}
    BY DEF Resuming, Starting
  <2> QED BY <1>5, <1>8, <2>1, Bodies, CallKeeps DEF CallResume, Calling, Starting
<1>9. CASE CallOther
  <2> DEFINE Q == {"stop", "resume_if_suspended", "wait", "wait_0", "force"}
  <2>1. Q \cap (Starting \cup {"constructed", "derived_gone", "gone"}) = {}
    BY DEF Starting
  <2>2. life = "derived" /\ life' = life /\ created' = created
        /\ created \in {"no", "running", "suspended"}
    BY <1>9 DEF CallOther, IInv, TypeOK
  <2>3. ASSUME NEW name \in Calling, NEW body, NEW A, NEW first, NEW last,
               IsBody(body, A, first, last), A \subseteq Q,
               first \in {"stop", "wait", "wait_0"}, Call(name, body)
        PROVE  IInv'
    <3>1. A \cap Starting = {} /\ A \cap {"constructed", "derived_gone", "gone"} = {}
          /\ A \cap {"create", "start_running"} = {}
          /\ A \cap {"create_suspended", "start_suspended"} = {}
      BY <2>1, <2>3 DEF Starting
    <3> QED BY <1>5, <2>2, <2>3, <3>1, CallKeeps
  <2>4. CASE Call("Stop", Stop)
    BY <2>3, <2>4, Bodies DEF Calling
  <2>5. CASE Call("StopAndWait", Stop \o WaitFor(FALSE))
    BY <2>3, <2>5, Bodies DEF Calling
  <2>6. CASE \E timeout \in BOOLEAN : Call("WaitFor", WaitFor(timeout))
    <3>1. CASE Call("WaitFor", WaitFor(TRUE))
      BY <2>3, <3>1, Bodies DEF Calling
    <3>2. CASE Call("WaitFor", WaitFor(FALSE))
      BY <2>3, <3>2, Bodies DEF Calling
    <3> QED BY <2>6, <3>1, <3>2
  <2>7. CASE Call("ForceStop", ForceStop)
    BY <2>3, <2>7, Bodies DEF Calling, ForceStopSteps
  <2>8. CASE Call("Destroy", Destroy)
    <3>1. PICK A : /\ A \subseteq ForceStopSteps \cup {"wait", "derived_gone", "gone"}
                   /\ IsBody(Destroy, A,
                             IF world.derivedWaits THEN "stop" ELSE "derived_gone", "gone")
      BY DestroyBody
    <3>2. A \cap Starting = {} /\ A \cap {"constructed"} = {}
          /\ A \cap {"create", "start_running"} = {}
          /\ A \cap {"create_suspended", "start_suspended"} = {}
      BY <3>1 DEF ForceStopSteps, Starting
    <3> QED BY <1>5, <2>2, <2>8, <3>1, <3>2, CallKeeps DEF Calling
  <2> QED BY <1>9, <2>4, <2>5, <2>6, <2>7, <2>8 DEF CallOther
<1> QED BY <1>6, <1>7, <1>8, <1>9 DEF OwnerCalls

\* The steps a call may add while it runs: none that the other parts of the invariant name.
Quiet == Resuming \cup Waiting \cup {"stop", "resume_if_suspended"}

\* The owner's steps within a call leave the call and its kind as they are.
LEMMA InCallKept ==
  ASSUME InCall, call' = call, created' = created, On(agenda') \subseteq On(agenda) \cup Quiet
  PROVE  InCall'
BY DEF InCall, Pending, Quiet, Resuming, Waiting, Starting

\* What the front of the agenda says before a step.
LEMMA AtStep ==
  ASSUME IInv, NEW step \in Steps, NEW more, Do(step, more)
  PROVE  /\ agenda \in Seq(Steps) /\ Linked(agenda) /\ InCall /\ life # "none"
         /\ agenda # << >> /\ agenda[1] = step /\ step \in On(agenda)
<1>1. agenda \in Seq(Steps) /\ Linked(agenda) /\ InCall /\ agenda # << >> /\ Head(agenda) = step
  BY DEF IInv, TypeOK, OwnerInv, Do
<1>2. life # "none"
  BY <1>1 DEF IInv, OwnerInv, NothingLeft
<1> QED BY <1>1, <1>2, Rest

\* A step of the owner that does not touch the handle, the threads or what is constructed.
LEMMA PlainStepKeeps ==
  ASSUME IInv, TypeOK', life # "none", Linked(agenda'), On(agenda') \subseteq On(agenda) \cup Quiet,
         agenda' # << >> => agenda'[1] \in Quiet \/ (At(Starting) /\ agenda'[1] \in Starting),
         \A i \in Ids : worker'[i] # "none" => worker[i] # "none",
         UNCHANGED <<world, ThreadHandle, call, life, created>>
  PROVE  IInv'
<1>1. InCall'
  BY InCallKept DEF IInv, OwnerInv
<1>2. NothingLeft' /\ OwnsItsThread'
  BY DEF IInv, OwnerInv, NothingLeft, OwnsItsThread
<1>3. GoneBefore'
  BY DEF IInv, OwnerInv, GoneBefore, At, Quiet, Resuming, Waiting, Starting
<1>4. NoneOutside'
  <2>1. Pending(Starting)' => Pending(Starting)
    BY DEF Pending, Quiet, Resuming, Waiting, Starting
  <2>2. ~At({"derived_gone"})'
    BY DEF At, Quiet, Resuming, Waiting, Starting
  <2> QED BY <2>1, <2>2 DEF IInv, OwnerInv, NoneOutside
<1> QED BY <1>1, <1>2, <1>3, <1>4 DEF IInv, OwnerInv

\* Start, Resume and Stop.
LEMMA StartStepKeeps == IInv /\ StartStep => IInv'
<1> SUFFICES ASSUME IInv, StartStep PROVE IInv'
  OBVIOUS
<1>1. ASSUME NEW step \in {"start", "start_suspended", "start_running"}, Do(step, << >>)
      PROVE  IInv'
  <2>1. step \in Steps /\ step \in Starting
    BY <1>1 DEF Steps, Starting
  <2>2. /\ agenda # << >> /\ agenda[1] = step /\ life # "none" /\ Linked(agenda')
        /\ agenda' \in Seq(Steps) /\ On(agenda') \subseteq On(agenda)
        /\ agenda' # << >> => Follows(step, agenda'[1])
    BY <1>1, <2>1, AtStep, Done
  <2>3. agenda' # << >> => agenda'[1] \in Starting
    BY <1>1, <2>2 DEF Follows, Starting, Waiting
  <2>4. TypeOK'
    BY <1>1, <2>2 DEF StartStep, IInv, TypeOK, Do, ghost, events
  <2>5. UNCHANGED <<world, ThreadHandle, worker, call, life, created>>
    BY <1>1 DEF StartStep, Do, ghost
  <2> QED BY <2>1, <2>2, <2>3, <2>4, <2>5, PlainStepKeeps DEF At
<1> QED BY <1>1 DEF StartStep

\* A step of Resume.
LEMMA ResumeStepKeeps == IInv /\ ResumeStep => IInv'
<1> SUFFICES ASSUME IInv, ResumeStep PROVE IInv'
  OBVIOUS
<1>1. PICK step \in Resuming : Do(step, << >>)
  BY DEF ResumeStep, Resuming
<1>2. step \in Steps
  BY <1>1 DEF Steps, Resuming
<1>3. /\ agenda # << >> /\ agenda[1] = step /\ life # "none" /\ Linked(agenda')
      /\ agenda' \in Seq(Steps) /\ On(agenda') \subseteq On(agenda)
      /\ agenda' # << >> => Follows(step, agenda'[1])
  BY <1>1, <1>2, AtStep, Done
<1>4. agenda' # << >> => agenda'[1] \in Quiet
  BY <1>1, <1>3 DEF Follows, Resuming, Waiting, Quiet
<1>5. /\ UNCHANGED <<world, ThreadHandle, Stopped, work_event, waited, call, life, created, held>>
      /\ {Suspended', Finished', suspend_event'} \subseteq BOOLEAN
  BY <1>1 DEF ResumeStep, Do, ghost, IInv, TypeOK
<1>6. \/ worker' = worker
      \/ worker' = [i \in Ids |-> IF i = ThreadHandle /\ worker[i] = "suspended"
                                  THEN "check" ELSE worker[i]]
  BY DEF ResumeStep
<1>7. TypeOK'
  BY <1>3, <1>5, <1>6 DEF IInv, TypeOK
<1>8. \A i \in Ids : worker'[i] # "none" => worker[i] # "none"
  BY <1>6
<1>9. UNCHANGED <<world, ThreadHandle, call, life, created>>
  BY <1>5
<1> QED BY <1>3, <1>4, <1>7, <1>8, <1>9, PlainStepKeeps

\* A step of Stop.
LEMMA StopStepKeeps == IInv /\ StopStep => IInv'
<1> SUFFICES ASSUME IInv, StopStep PROVE IInv'
  OBVIOUS
<1>1. /\ agenda # << >> /\ life # "none" /\ Linked(agenda')
      /\ agenda' \in Seq(Steps) /\ On(agenda') \subseteq On(agenda) \cup Quiet
      /\ agenda' # << >> => agenda'[1] \in Quiet
  <2>1. CASE Do("stop", << >>)
    <3>1. /\ agenda # << >> /\ life # "none" /\ Linked(agenda')
          /\ agenda' \in Seq(Steps) /\ On(agenda') \subseteq On(agenda)
          /\ agenda' # << >> => Follows("stop", agenda'[1])
      BY <2>1, AtStep, Done, Names
    <3> QED BY <3>1 DEF Follows, Waiting, Quiet
  <2>2. CASE Do("resume_if_suspended", << >>)
    <3>1. /\ agenda # << >> /\ life # "none" /\ Linked(agenda')
          /\ agenda' \in Seq(Steps) /\ On(agenda') \subseteq On(agenda)
          /\ agenda' # << >> => Follows("resume_if_suspended", agenda'[1])
      BY <2>2, AtStep, Done, Names
    <3> QED BY <3>1 DEF Follows, Waiting, Quiet
  <2>3. CASE Do("resume_if_suspended", Resume)
    <3>1. \A b \in Steps : Follows("resume_if_suspended", b) => Follows("resume_event", b)
      BY DEF Follows, Waiting
    <3>2. /\ agenda # << >> /\ life # "none" /\ Linked(agenda')
          /\ agenda' \in Seq(Steps) /\ On(agenda') \subseteq On(agenda) \cup Resuming
          /\ agenda' # << >> /\ agenda'[1] = "resume_finished"
      BY <2>3, <3>1, AtStep, Calls, Names, Bodies DEF IsBody
    <3> QED BY <3>2 DEF Quiet, Resuming
  <2> QED BY <2>1, <2>2, <2>3 DEF StopStep
<1>2. /\ UNCHANGED <<world, ThreadHandle, Suspended, Finished, events, worker, waited, call, ghost>>
      /\ Stopped' \in BOOLEAN
  BY DEF StopStep, Do, IInv, TypeOK
<1>3. TypeOK'
  BY <1>1, <1>2 DEF IInv, TypeOK, ghost, events
<1>4. /\ UNCHANGED <<world, ThreadHandle, call, life, created>>
      /\ \A i \in Ids : worker'[i] # "none" => worker[i] # "none"
  BY <1>2 DEF ghost
<1> QED BY <1>1, <1>3, <1>4, PlainStepKeeps

\* WaitFor.
LEMMA AwaitWorkEventKeeps == IInv /\ AwaitWorkEvent => IInv'
<1> SUFFICES ASSUME IInv, AwaitWorkEvent PROVE IInv'
  OBVIOUS
<1>1. /\ agenda # << >> /\ life # "none" /\ Linked(agenda')
      /\ agenda' \in Seq(Steps) /\ On(agenda') \subseteq On(agenda)
      /\ agenda' # << >> => Follows("await_work_event", agenda'[1])
  BY AtStep, Done, Names DEF AwaitWorkEvent
<1>2. agenda' # << >> => agenda'[1] \in Quiet
  BY <1>1 DEF Follows, Waiting, Quiet
<1>3. UNCHANGED <<world, object, suspend_event, worker, waited, ghost, call>> /\ work_event' = FALSE
  BY DEF AwaitWorkEvent, Do
<1>4. /\ UNCHANGED <<world, ThreadHandle, call, life, created>>
      /\ \A i \in Ids : worker'[i] # "none" => worker[i] # "none"
  BY <1>3 DEF ghost, object
<1>5. TypeOK'
  BY <1>1, <1>3 DEF IInv, TypeOK, ghost, object
<1> QED BY <1>1, <1>2, <1>4, <1>5, PlainStepKeeps

\* A step of WaitFor or ForceStop after which the handle is gone or no longer needed.
LEMMA WaitForKeeps ==
  ASSUME IInv, TypeOK', life # "none", Linked(agenda'), On(agenda') \subseteq On(agenda) \cup Quiet,
         agenda' # << >> => agenda'[1] \in Quiet \cup {"force"} \/ ThreadHandle' = INVALID,
         waited' => ThreadHandle' = INVALID \/ agenda' = << >> \/ agenda'[1] # "force",
         ThreadHandle' \in {ThreadHandle, INVALID},
         \A i \in Ids : worker'[i] # "none" => worker[i] # "none" /\ ThreadHandle' = ThreadHandle,
         UNCHANGED <<world, call, life, created>>
  PROVE  IInv'
<1>1. InCall'
  BY InCallKept DEF IInv, OwnerInv
<1>2. NothingLeft' /\ OwnsItsThread'
  BY DEF IInv, OwnerInv, NothingLeft, OwnsItsThread
<1>3. GoneBefore'
  BY DEF IInv, OwnerInv, GoneBefore, At, Quiet, Resuming, Waiting, Starting
<1>4. NoneOutside'
  <2>1. Pending(Starting)' => Pending(Starting)
    BY DEF Pending, Quiet, Resuming, Waiting, Starting
  <2>2. At({"derived_gone"})' => ThreadHandle' = INVALID
    BY DEF At, Quiet, Resuming, Waiting, Starting
  <2> QED BY <2>1, <2>2 DEF IInv, OwnerInv, NoneOutside
<1> QED BY <1>1, <1>2, <1>3, <1>4 DEF IInv, OwnerInv

\* What WaitFor does with a thread, from the front of the agenda on.
WaitSteps == Waiting \cup {"resume_if_suspended"}
WaitBody(step, more) ==
  IF step = "wait"
  THEN more = <<"resume_if_suspended">> \o
              IF world.posix THEN <<"await_work_event", "join">> ELSE <<"join">>
  ELSE more = <<"resume_if_suspended", IF world.posix THEN "join" ELSE "join_0">>
\* The ways a step of WaitFor can go.
LEMMA WaitBodies ==
  ASSUME NEW step \in {"wait", "wait_0"}, NEW more, WaitBody(step, more)
  PROVE  \E A, last : /\ A \subseteq WaitSteps
                      /\ \A b \in Steps : Follows(step, b) => Follows(last, b)
                      /\ IsBody(more, A, "resume_if_suspended", last)
<1>1. \A b \in {"join", "join_0", "await_work_event"} : Follows("resume_if_suspended", b)
  BY DEF Follows, Waiting
<1>2. Follows("await_work_event", "join")
  BY DEF Follows
<1>3. /\ IsBody(<<"resume_if_suspended">>, {"resume_if_suspended"},
                "resume_if_suspended", "resume_if_suspended")
      /\ IsBody(<<"join">>, {"join"}, "join", "join")
      /\ IsBody(<<"await_work_event", "join">>, {"await_work_event", "join"},
                "await_work_event", "join")
      /\ \A b \in {"join", "join_0"} :
           IsBody(<<"resume_if_suspended", b>>, {"resume_if_suspended", b},
                  "resume_if_suspended", b)
  BY <1>1, <1>2, Tuples, Names
<1>4. /\ IsBody(<<"resume_if_suspended">> \o <<"join">>, {"resume_if_suspended"} \cup {"join"},
                "resume_if_suspended", "join")
      /\ IsBody(<<"resume_if_suspended">> \o <<"await_work_event", "join">>,
                {"resume_if_suspended"} \cup {"await_work_event", "join"},
                "resume_if_suspended", "join")
  BY <1>1, <1>3, BodyThenBody
<1>5. more \in {<<"resume_if_suspended", "join">>, <<"resume_if_suspended", "join_0">>,
                <<"resume_if_suspended">> \o <<"join">>,
                <<"resume_if_suspended">> \o <<"await_work_event", "join">>}
  BY DEF WaitBody
<1>6. /\ {"resume_if_suspended"} \cup {"await_work_event", "join"} \subseteq WaitSteps
      /\ {"resume_if_suspended"} \cup {"join"} \subseteq WaitSteps
      /\ {"resume_if_suspended", "join"} \subseteq WaitSteps
      /\ {"resume_if_suspended", "join_0"} \subseteq WaitSteps
  BY DEF WaitSteps, Waiting
<1>7. \A b \in Steps : Follows(step, b) => Follows("join", b) /\ Follows("join_0", b)
  BY DEF Follows, Waiting
<1> QED BY <1>3, <1>4, <1>5, <1>6, <1>7

\* A step of WaitFor.
LEMMA WaitStepKeeps == IInv /\ WaitStep => IInv'
<1> SUFFICES ASSUME IInv, WaitStep PROVE IInv'
  OBVIOUS
<1>1. CASE ThreadHandle = INVALID /\ (Do("wait", << >>) \/ Do("wait_0", << >>)) /\ waited' = TRUE
  <2>1. /\ life # "none" /\ Linked(agenda')
        /\ agenda' \in Seq(Steps) /\ On(agenda') \subseteq On(agenda)
    BY <1>1, AtStep, Done, Names
  <2>2. /\ UNCHANGED <<world, call, life, created>> /\ UNCHANGED <<worker, ThreadHandle>>
        /\ UNCHANGED <<Stopped, Suspended, Finished, suspend_event, work_event, held>>
    BY <1>1 DEF WaitStep, Do, object, events, ghost
  <2>3. TypeOK'
    BY <1>1, <2>1, <2>2 DEF IInv, TypeOK
  <2> QED BY <1>1, <2>1, <2>2, <2>3, WaitForKeeps
<1>2. ASSUME NEW step \in {"wait", "wait_0"}, NEW more, Do(step, more), waited' = waited,
             WaitBody(step, more)
      PROVE  IInv'
  <2>1. PICK A, last : /\ A \subseteq WaitSteps
                       /\ \A b \in Steps : Follows(step, b) => Follows(last, b)
                       /\ IsBody(more, A, "resume_if_suspended", last)
    BY <1>2, WaitBodies
  <2>2. /\ life # "none" /\ Linked(agenda') /\ agenda' \in Seq(Steps)
        /\ On(agenda') \subseteq On(agenda) \cup A
        /\ agenda' # << >> /\ agenda'[1] = "resume_if_suspended"
    BY <1>2, <2>1, AtStep, Calls, Names DEF IsBody
  <2>3. /\ UNCHANGED <<world, call, life, created>> /\ UNCHANGED <<worker, ThreadHandle>>
        /\ UNCHANGED <<Stopped, Suspended, Finished, suspend_event, work_event, held>>
    BY <1>2 DEF WaitStep, Do, object, events, ghost
  <2>4. TypeOK'
    BY <1>2, <2>2, <2>3 DEF IInv, TypeOK
  <2>5. On(agenda') \subseteq On(agenda) \cup Quiet /\ agenda'[1] \in Quiet
    BY <2>1, <2>2 DEF Quiet, WaitSteps
  <2> QED BY <2>2, <2>3, <2>4, <2>5, WaitForKeeps
<1> QED BY <1>1, <1>2 DEF WaitStep, WaitBody

\* A step that waits for the end of the thread, gives up waiting or terminates it.
LEMMA JoinKeeps == IInv /\ (Join \/ TimeOut \/ Terminate) => IInv'
<1> SUFFICES ASSUME IInv, Join \/ TimeOut \/ Terminate PROVE IInv'
  OBVIOUS
<1>1. PICK step \in {"join", "join_0", "force"} : Do(step, << >>) /\ (Terminate => step = "force")
  BY DEF Join, TimeOut, Terminate
<1>2. /\ life # "none" /\ Linked(agenda') /\ agenda # << >> /\ agenda[1] = step
      /\ agenda' \in Seq(Steps) /\ On(agenda') \subseteq On(agenda)
      /\ agenda' # << >> => Follows(step, agenda'[1])
  BY <1>1, AtStep, Done, Names
<1>3. /\ UNCHANGED <<world, call, life, created>>
      /\ UNCHANGED <<Stopped, Suspended, Finished, suspend_event, work_event, held>>
  BY <1>1 DEF Join, TimeOut, Terminate, Do, object, events, ghost
<1>4. waited' \in BOOLEAN
  BY DEF Join, TimeOut, Terminate, IInv, TypeOK
<1>5. \/ UNCHANGED <<ThreadHandle, worker>>
      \/ /\ worker' = [worker EXCEPT ![ThreadHandle] = "none"] /\ ThreadHandle' = INVALID
  BY DEF Join, TimeOut, Terminate, NoThread, object
<1>6. TypeOK'
  BY <1>2, <1>3, <1>4, <1>5 DEF IInv, TypeOK
<1>7. \A i \in Ids : worker'[i] # "none" => worker[i] # "none" /\ ThreadHandle' = ThreadHandle
  BY <1>5 DEF IInv, OwnerInv, OwnsItsThread, TypeOK
<1>8. agenda' # << >> => agenda'[1] \in Quiet \cup {"force"} \/ ThreadHandle' = INVALID
  <2>1. CASE Terminate
    BY <1>1, <1>2, <2>1 DEF Terminate, NoThread, IInv, OwnerInv, GoneBefore, At
  <2>2. CASE ~Terminate
    <3>1. Join => ThreadHandle' = INVALID
      BY DEF Join, NoThread
    <3>2. CASE TimeOut
      BY <1>2, <3>2, AtStep, Names DEF TimeOut, Follows, Waiting
    <3> QED BY <2>2, <3>1, <3>2
  <2> QED BY <2>1, <2>2
<1>9. waited' => ThreadHandle' = INVALID \/ agenda' = << >> \/ agenda'[1] # "force"
  <2>1. CASE Terminate
    BY <1>1, <1>2, <2>1 DEF Follows, Waiting
  <2>2. CASE Join \/ TimeOut
    BY <2>2 DEF Join, TimeOut, NoThread
  <2> QED BY <2>1, <2>2
<1> QED BY <1>2, <1>3, <1>5, <1>6, <1>7, <1>8, <1>9, WaitForKeeps

\* What is constructed and what is gone.
LEMMA LifeStepKeeps == IInv /\ LifeStep => IInv'
<1> SUFFICES ASSUME IInv, LifeStep PROVE IInv'
  OBVIOUS
<1>1. PICK step \in {"constructed", "derived_gone", "gone"} : Do(step, << >>)
  BY DEF LifeStep
<1>2. /\ life # "none" /\ Linked(agenda') /\ agenda # << >> /\ agenda[1] = step
      /\ agenda' \in Seq(Steps) /\ On(agenda') \subseteq On(agenda) /\ step \in On(agenda)
      /\ agenda' # << >> => Follows(step, agenda'[1])
  BY <1>1, AtStep, Done, Names
<1>3. agenda' # << >> => step = "derived_gone" /\ agenda'[1] = "stop"
  BY <1>2 DEF Follows, Waiting
<1>4. UNCHANGED <<world, worker, waited, created, held, call>>
  BY <1>1 DEF LifeStep, Do
<1>5. \/ step = "constructed" /\ life' = "derived" /\ UNCHANGED <<object, events>>
      \/ step = "derived_gone" /\ life' = "base" /\ UNCHANGED <<object, events>>
      \/ /\ step = "gone" /\ life' = "none" /\ ThreadHandle' = INVALID /\ Stopped' = TRUE
         /\ Suspended' = FALSE /\ Finished' = FALSE
         /\ suspend_event' = FALSE /\ work_event' = FALSE
  BY <1>1, <1>2 DEF LifeStep, Do
<1>6. TypeOK'
  BY <1>2, <1>4, <1>5 DEF IInv, TypeOK, object, events
<1>7. InCall'
  BY <1>2, <1>4, InCallKept DEF IInv, OwnerInv
<1>8. step = "gone" => ThreadHandle = INVALID
  BY <1>2 DEF IInv, OwnerInv, GoneBefore, At
<1>9. NothingLeft'
  BY <1>3, <1>5 DEF NothingLeft
<1>10. OwnsItsThread'
  BY <1>4, <1>5, <1>8, ThreadAssumption DEF IInv, OwnerInv, OwnsItsThread, object
<1>11. GoneBefore'
  BY <1>3 DEF GoneBefore, At, Starting
<1>12. NoneOutside'
  <2>1. ~At({"derived_gone"})'
    BY <1>3 DEF At
  <2>2. CASE step = "derived_gone"
    <3>1. call = "Destroy" /\ At({"derived_gone"}) /\ ThreadHandle' = ThreadHandle
      BY <1>2, <1>5, <2>2 DEF IInv, OwnerInv, InCall, Pending, At, object
    <3> QED BY <1>4, <2>1, <3>1 DEF IInv, OwnerInv, NoneOutside
  <2>3. CASE step = "constructed" \/ step = "gone"
    <3>1. life' # "base"
      BY <1>5, <2>3
    <3> QED BY <2>1, <3>1 DEF NoneOutside
  <2> QED BY <1>1, <2>2, <2>3
<1> QED BY <1>2, <1>6, <1>7, <1>9, <1>10, <1>11, <1>12 DEF IInv, OwnerInv

\* A thread is created where there is none.
LEMMA CreateKeeps == IInv /\ Create => IInv'
<1> SUFFICES ASSUME IInv, Create PROVE IInv'
  OBVIOUS
<1>1. PICK step \in {"create", "create_suspended"} : Do(step, << >>)
  BY DEF Create
<1>2. /\ life # "none" /\ Linked(agenda') /\ agenda # << >> /\ agenda[1] = step
      /\ agenda' \in Seq(Steps) /\ On(agenda') \subseteq On(agenda) /\ step \in On(agenda)
      /\ agenda' # << >> => Follows(step, agenda'[1])
  BY <1>1, AtStep, Done, Names
<1>3. agenda' # << >> => agenda'[1] = "constructed"
  BY <1>2 DEF Follows, Waiting
<1>4. UNCHANGED <<world, Stopped, Suspended, Finished, suspend_event, work_event, waited, life,
                  created, call>>
  BY DEF Create, Do, events
<1>5. /\ ThreadHandle = INVALID
      /\ \A i \in Ids : worker[i] = "none"
  <2>1. ThreadHandle = INVALID
    BY <1>2 DEF IInv, OwnerInv, GoneBefore, At, Starting
  <2> QED BY <2>1, ThreadAssumption DEF IInv, OwnerInv, OwnsItsThread
<1>6. /\ ThreadHandle' \in Ids \cup {INVALID} /\ held' \in BOOLEAN
      /\ worker' \in [Ids -> {"none", "begin", "suspended", "check", "execute", "finish",
                              "signal", "exited"}]
      /\ \A i \in Ids : worker'[i] # "none" => ThreadHandle' = i
  <2>1. CASE ThreadHandle' = INVALID /\ UNCHANGED <<worker, held>>
    BY <1>5, <2>1 DEF IInv, TypeOK
  <2>2. CASE \E i \in Ids, s \in {"begin", "suspended", "check"} :
               /\ ThreadHandle' = i /\ worker' = [worker EXCEPT ![i] = s]
               /\ held' = (created = "suspended")
    BY <1>5, <2>2 DEF IInv, TypeOK
  <2> QED BY <2>1, <2>2 DEF Create, NoThread
<1>7. TypeOK'
  BY <1>2, <1>4, <1>6 DEF IInv, TypeOK
<1>8. InCall'
  BY <1>2, <1>4, InCallKept DEF IInv, OwnerInv
<1>9. NothingLeft' /\ OwnsItsThread'
  BY <1>2, <1>4, <1>6 DEF NothingLeft, OwnsItsThread
<1>10. GoneBefore'
  BY <1>3 DEF GoneBefore, At, Starting
<1>11. NoneOutside'
  <2>1. Pending(Starting)
    BY <1>2 DEF Pending, Starting
  <2>2. call \in {"Construct", "Start"}
    BY <2>1 DEF IInv, OwnerInv, InCall
  <2>3. life = "base" => call = "Construct" /\ world.startOnCreate
    BY <2>1, <2>2 DEF IInv, OwnerInv, NoneOutside
  <2> QED BY <1>4, <2>2, <2>3 DEF NoneOutside
<1> QED BY <1>2, <1>7, <1>8, <1>9, <1>10, <1>11 DEF IInv, OwnerInv

\* The worker changes no part of the object that the owner's calls rely on.
LEMMA WorkerKeeps ==
  ASSUME NEW i \in Ids, IInv, WorkerStep(i) \/ StopItself(i) \/ ExecuteReturns(i)
  PROVE  IInv'
<1> DEFINE WorkerPCs == {"none", "begin", "suspended", "check", "execute", "finish", "signal",
                         "exited"}
<1>1. /\ worker[i] # "none"
      /\ \E p \in WorkerPCs : worker' = [worker EXCEPT ![i] = p]
  <2>1. StopItself(i) => worker' = [worker EXCEPT ![i] = "execute"]
    BY DEF StopItself, IInv, TypeOK
  <2> QED BY <2>1 DEF WorkerStep, StopItself, ExecuteReturns, Begin, Released, CheckStopped,
                      Finish, Signal, Go
<1>2. /\ UNCHANGED <<world, ThreadHandle, agenda, call, waited, life, created, held>>
      /\ {Stopped', Suspended', Finished', suspend_event', work_event'} \subseteq BOOLEAN
  BY DEF WorkerStep, StopItself, ExecuteReturns, Begin, Released, CheckStopped, Finish, Signal,
         IInv, TypeOK, object, events, owner, ghost
<1>3. TypeOK'
  BY <1>1, <1>2 DEF IInv, TypeOK
<1>4. life # "none"
  BY <1>1 DEF IInv, OwnerInv, OwnsItsThread
<1>5. OwnsItsThread'
  BY <1>1, <1>2, <1>4 DEF IInv, TypeOK, OwnerInv, OwnsItsThread
<1>6. Linked(agenda') /\ InCall' /\ NothingLeft' /\ GoneBefore' /\ NoneOutside'
  BY <1>2, <1>4 DEF IInv, OwnerInv, InCall, NothingLeft, GoneBefore, NoneOutside, Pending, At
<1> QED BY <1>3, <1>5, <1>6 DEF IInv, OwnerInv

\* In every reachable state the object and its threads agree: one thread at most, of which the
\* object has the handle; the calls of the owner, taken apart into steps, are where they can be;
\* and no thread is there where one is created, or where the object is destroyed.
THEOREM OwnerInvariant == Spec => []IInv
<1>1. IInv /\ [Next]_vars => IInv'
  <2> SUFFICES ASSUME IInv, [Next]_vars PROVE IInv'
    OBVIOUS
  <2>1. CASE OwnerCalls
    BY <2>1, OwnerCallsKeep
  <2>2. CASE OwnerStep
    BY <2>2, LifeStepKeeps, StartStepKeeps, CreateKeeps, ResumeStepKeeps, StopStepKeeps,
       WaitStepKeeps, AwaitWorkEventKeeps, JoinKeeps DEF OwnerStep
  <2>3. CASE \E i \in Ids : WorkerStep(i) \/ StopItself(i) \/ ExecuteReturns(i)
    BY <2>3, WorkerKeeps
  <2>4. CASE UNCHANGED vars
    <3>1. /\ UNCHANGED <<world, ThreadHandle, Stopped, Suspended, Finished>>
          /\ UNCHANGED <<suspend_event, work_event, worker, agenda>>
          /\ UNCHANGED <<call, waited, life, created, held>>
      BY <2>4 DEF vars, object, events, owner, ghost
    <3>2. TypeOK'
      BY <3>1 DEF IInv, TypeOK
    <3>3. Linked(agenda') /\ InCall' /\ NothingLeft' /\ GoneBefore' /\ OwnsItsThread' /\ NoneOutside'
      BY <3>1 DEF IInv, OwnerInv, InCall, Pending, NothingLeft, GoneBefore, At, OwnsItsThread,
                  NoneOutside
    <3> QED BY <3>2, <3>3 DEF IInv, OwnerInv
  <2> QED BY <2>1, <2>2, <2>3, <2>4 DEF Next
<1> QED BY <1>1, InitIInv, PTL DEF Spec

\* The type invariant.
THEOREM TypeCorrect == Spec => []TypeOK
BY OwnerInvariant, PTL DEF IInv

\* A thread that exists is the one the object has the handle of, and the object exists.
THEOREM OneThread == Spec => []OwnsItsThread
BY OwnerInvariant, PTL DEF IInv, OwnerInv

\* Execute runs on an object that is not complete only in a constructor that was asked to start
\* the thread and in a destructor before which nobody waited for it.
THEOREM WholeObject == Spec => []ExecutesOnWholeObject
<1>1. IInv => ExecutesOnWholeObject
  BY ThreadAssumption DEF IInv, TypeOK, OwnerInv, NoneOutside, OwnsItsThread,
                          ExecutesOnWholeObject
<1> QED BY <1>1, OwnerInvariant, PTL

\* Only Start takes a request to stop back, and there is no thread then.
THEOREM StopIsKept == Spec => StopSticks
<1> DEFINE Kept == \A i \in Ids : Stopped /\ worker[i] \notin {"none", "exited"} /\ worker'[i] # "none"
                                    => Stopped'
<1>1. IInv /\ [Next]_vars => [Kept]_vars
  <2> SUFFICES ASSUME IInv, Next PROVE Kept
    OBVIOUS
  <2>1. SUFFICES ASSUME Stopped, Stopped' # TRUE, NEW i \in Ids, worker[i] # "none" PROVE FALSE
    BY DEF IInv, TypeOK
  <2>2. Stopped = TRUE
    BY <2>1 DEF IInv, TypeOK
  <2>3. Do("start", << >>)
    <3>1. ~OwnerCalls
      BY <2>1, <2>2
         DEF OwnerCalls, CallConstructor, CallStart, CallResume, CallOther, Call, object
    <3>2. OwnerStep => Do("start", << >>)
      BY <2>1, <2>2 DEF OwnerStep, LifeStep, StartStep, Create, ResumeStep, StopStep, WaitStep,
                        AwaitWorkEvent, Join, TimeOut, Terminate, object
    <3>3. \A j \in Ids : ~WorkerStep(j) /\ ~StopItself(j) /\ ~ExecuteReturns(j)
      BY <2>1, <2>2 DEF WorkerStep, StopItself, ExecuteReturns, Begin, Released, CheckStopped,
                        Finish, Signal, object
    <3> QED BY <3>1, <3>2, <3>3 DEF Next
  <2>4. At(Starting)
    BY <2>3, AtStep, Names DEF At, Starting
  <2>5. ThreadHandle = INVALID
    BY <2>4 DEF IInv, OwnerInv, GoneBefore, At
  <2> QED BY <2>1, <2>5, ThreadAssumption DEF IInv, OwnerInv, OwnsItsThread
<1> QED BY <1>1, OwnerInvariant, PTL DEF Spec, StopSticks

------------------------------------------------------------------------------
\* What is true where a POSIX build's thread is not suspended in a second life.

\* The events are made and reset where the object is, not where the thread is created: in
\* the POSIX build a thread that is created suspended once more may find suspend_event set.
SoundUsers == \A w \in Worlds : w.posix => ~(w.restarts /\ w.suspends)

\* The initial states satisfy the second invariant.
LEMMA InitSInv == Init => SInv
<1> SUFFICES ASSUME Init PROVE SInv
  OBVIOUS
<1>1. agenda = << >> /\ On(agenda) = {}
  BY DEF Init, On
<1>2. /\ ResumedFirst /\ NeverSuspended /\ NoEventLeft
  BY <1>1 DEF Init, ResumedFirst, NeverSuspended, NoEventLeft, At, Pending
<1>3. FlagsTruthful /\ HeldBack
  BY <1>1 DEF Init, FlagsTruthful, HeldBack, At, Running, Ended, Before
<1> QED BY <1>2, <1>3 DEF SInv

\* What is on the agenda beside and after the steps that create a thread.
LEMMA AroundCreate ==
  ASSUME NEW s \in Seq(Steps), Linked(s), s # << >>
  PROVE  /\ "create_suspended" \in On(s) => s[1] = "create_suspended" \/ "start_suspended" \in On(s)
         /\ s[1] = "start_suspended" => On(Tail(s)) \subseteq {"create_suspended", "constructed"}
         /\ s[1] \in {"create", "create_suspended"} => On(Tail(s)) \subseteq {"constructed"}
<1>1. ASSUME "create_suspended" \in On(s), s[1] # "create_suspended"
      PROVE  "start_suspended" \in On(s)
  <2>1. PICK k \in 1 .. Len(s) : s[k] = "create_suspended"
    BY <1>1 DEF On
  <2>2. k - 1 \in 1 .. Len(s) - 1 /\ k - 1 \in 1 .. Len(s)
    BY <1>1, <2>1
  <2> DEFINE j == k - 1
  <2>3. Follows(s[j], s[j + 1]) /\ s[j + 1] = "create_suspended"
    BY <2>1, <2>2 DEF Linked
  <2> HIDE DEF j
  <2>4. s[j] = "start_suspended"
    BY <2>3 DEF Follows, Waiting
  <2> QED BY <2>2, <2>4 DEF On, j
<1>2. Len(Tail(s)) = Len(s) - 1 /\ \A k \in 1 .. Len(Tail(s)) : Tail(s)[k] = s[k + 1]
  OBVIOUS
<1>3. \A k \in 1 .. Len(s) - 1 : s[k] # "constructed"
  BY DEF Linked, Follows, Waiting
<1>4. \A k \in 1 .. Len(s) - 1 :
        /\ s[k] \in {"create", "create_suspended"} => s[k + 1] = "constructed"
        /\ s[k] = "start_suspended" => s[k + 1] = "create_suspended"
  BY DEF Linked, Follows, Waiting
<1>5. ASSUME s[1] \in {"create", "create_suspended"}
      PROVE  On(Tail(s)) \subseteq {"constructed"}
  <2>1. Len(s) <= 2
    <3>1. SUFFICES ASSUME Len(s) > 2 PROVE FALSE
      OBVIOUS
    <3>2. 1 \in 1 .. Len(s) - 1 /\ 2 \in 1 .. Len(s) - 1
      BY <3>1
    <3> QED BY <1>3, <1>4, <1>5, <3>2
  <2>2. Len(s) = 2 => s[2] = "constructed"
    BY <1>4, <1>5
  <2> QED BY <1>2, <2>1, <2>2 DEF On
<1>6. ASSUME s[1] = "start_suspended"
      PROVE  On(Tail(s)) \subseteq {"create_suspended", "constructed"}
  <2>1. Len(s) >= 2 => s[2] = "create_suspended"
    BY <1>4, <1>6
  <2>2. Len(s) >= 3 => s[3] = "constructed"
    BY <1>4, <2>1
  <2>3. Len(s) <= 3
    BY <1>3, <2>2
  <2>4. \A k \in 1 .. Len(Tail(s)) : Tail(s)[k] \in {"create_suspended", "constructed"}
    BY <1>2, <2>1, <2>2, <2>3
  <2> QED BY <2>4 DEF On
<1> QED BY <1>1, <1>5, <1>6

\* What a call of the owner does, as far as suspending goes.
Suspending == {"start_suspended", "create_suspended"}
CallShape ==
  /\ agenda = << >> /\ held' = FALSE /\ agenda' # << >>
  /\ UNCHANGED <<world, object, events, worker>>
  /\ \/ agenda'[1] \in {"stop", "resume_finished", "derived_gone", "constructed"}
     \/ agenda'[1] \in {"wait", "wait_0"} /\ Len(agenda') = 1
  /\ created' = "suspended" => created = "suspended" \/ world.suspends
  /\ On(agenda') \cap Suspending # {} => world.suspends
  /\ On(agenda') \cap Resuming # {} => created' # "no" /\ On(agenda') \cap Suspending = {}
  /\ created' = "no" \/ On(agenda') \cap Suspending # {} =>
       life = "none" \/ created = "no" \/ world.restarts

\* Every call has that shape.
LEMMA CallsHaveShape == IInv /\ OwnerCalls => CallShape
<1> SUFFICES ASSUME IInv, OwnerCalls PROVE CallShape
  OBVIOUS
<1> DEFINE Shape(A, first) ==
             /\ agenda = << >> /\ held' = FALSE /\ agenda' # << >>
             /\ UNCHANGED <<world, object, events, worker>>
             /\ agenda'[1] = first /\ On(agenda') = A
<1>1. ASSUME NEW name, NEW body, NEW A, NEW first, NEW last,
             IsBody(body, A, first, last), Call(name, body)
      PROVE  Shape(A, first)
  BY <1>1 DEF IsBody, Call
<1>2. world.suspends \in BOOLEAN
  BY ThreadAssumption DEF IInv, TypeOK
<1>3. \A s \in BOOLEAN :
        /\ \E last : IsBody(Start(s), StartSteps(s), "stop", last)
        /\ \E last : IsBody(Start(s) \o <<"constructed">>, StartSteps(s) \cup {"constructed"},
                            "stop", last)
  <2>1. ASSUME NEW s \in BOOLEAN
        PROVE  /\ \E last : IsBody(Start(s), StartSteps(s), "stop", last)
               /\ \E last : IsBody(Start(s) \o <<"constructed">>,
                                   StartSteps(s) \cup {"constructed"}, "stop", last)
    <3>1. CASE s = TRUE
      BY <3>1, Bodies, ConstructBodies
    <3>2. CASE s = FALSE
      BY <3>2, Bodies, ConstructBodies
    <3> QED BY <3>1, <3>2
  <2> QED BY <2>1
<1>4. \A s \in BOOLEAN :
        /\ (StartSteps(s) \cup {"constructed"}) \cap Resuming = {}
        /\ StartSteps(s) \cap Resuming = {}
        /\ ~s => /\ StartSteps(s) \cap Suspending = {}
                 /\ (StartSteps(s) \cup {"constructed"}) \cap Suspending = {}
  BY DEF StartSteps, ForceStopSteps, Resuming, Suspending
<1>5. ASSUME NEW A, NEW first, Shape(A, first), A \cap Suspending = {}, A \cap Resuming = {},
             UNCHANGED created,
             \/ first \in {"stop", "derived_gone"}
             \/ first \in {"wait", "wait_0"} /\ Len(agenda') = 1
      PROVE  CallShape
  BY <1>5 DEF CallShape
<1>6. ASSUME NEW A, NEW s \in {FALSE, world.suspends}, Shape(A, "stop"), A \cap Resuming = {},
             ~s => A \cap Suspending = {}, life = "none" \/ created = "no" \/ world.restarts,
             created' = IF s THEN "suspended" ELSE "running"
      PROVE  CallShape
  BY <1>2, <1>6 DEF CallShape
<1>7. CASE CallConstructor
  <2>1. CASE Call("Construct", <<"constructed">>) /\ created' = "no"
    <3>1. Shape({"constructed"}, "constructed") /\ life = "none"
      BY <1>1, <1>7, <2>1, ConstructBodies DEF CallConstructor
    <3>2. {"constructed"} \cap Resuming = {} /\ {"constructed"} \cap Suspending = {}
      BY DEF Resuming, Suspending
    <3> QED BY <2>1, <3>1, <3>2 DEF CallShape
  <2>2. ASSUME NEW s \in {FALSE, world.suspends},
               Call("Construct", Start(s) \o <<"constructed">>),
               created' = IF s THEN "suspended" ELSE "running"
        PROVE  CallShape
    <3>1. s \in BOOLEAN /\ life = "none"
      BY <1>2, <1>7 DEF CallConstructor
    <3>2. Shape(StartSteps(s) \cup {"constructed"}, "stop")
      BY <1>1, <1>3, <2>2, <3>1
    <3> HIDE DEF Shape
    <3> QED BY <1>4, <1>6, <2>2, <3>1, <3>2
  <2> QED BY <1>7, <2>1, <2>2 DEF CallConstructor
<1>8. CASE CallStart
  <2>1. PICK s \in {FALSE, world.suspends} :
          Call("Start", Start(s)) /\ created' = IF s THEN "suspended" ELSE "running"
    BY <1>8 DEF CallStart
  <2>2. s \in BOOLEAN /\ (created = "no" \/ world.restarts)
    BY <1>2, <1>8 DEF CallStart
  <2>3. Shape(StartSteps(s), "stop")
    BY <1>1, <1>3, <2>1, <2>2
  <2> HIDE DEF Shape
  <2> QED BY <1>4, <1>6, <2>1, <2>2, <2>3
<1>9. CASE CallResume
  <2>1. Shape(Resuming, "resume_finished") /\ created = "suspended" /\ created' = created
    BY <1>1, <1>9, Bodies DEF CallResume
  <2>2. Resuming \cap Suspending = {}
    BY DEF Resuming, Suspending
  <2> QED BY <2>1, <2>2 DEF CallShape
<1>10. CASE CallOther
  <2>1. created' = created
    BY <1>10 DEF CallOther
  <2>2. ASSUME NEW A, A \subseteq ForceStopSteps \cup {"wait", "derived_gone", "gone"}
        PROVE  A \cap Suspending = {} /\ A \cap Resuming = {}
    BY <2>2 DEF ForceStopSteps, Suspending, Resuming
  <2>3. ASSUME NEW name, NEW body, NEW A, NEW first, NEW last, IsBody(body, A, first, last),
               A \subseteq ForceStopSteps \cup {"wait", "derived_gone", "gone"},
               Call(name, body),
               \/ first \in {"stop", "derived_gone"}
               \/ first \in {"wait", "wait_0"} /\ Len(body) = 1
        PROVE  CallShape
    <3>1. Shape(A, first) /\ agenda' = body
      BY <1>1, <2>3 DEF Call
    <3> HIDE DEF Shape
    <3> QED BY <1>5, <2>1, <2>2, <2>3, <3>1
  <2>4. CASE Call("Stop", Stop)
    BY <2>3, <2>4, Bodies DEF ForceStopSteps
  <2>5. CASE Call("StopAndWait", Stop \o WaitFor(FALSE))
    BY <2>3, <2>5, Bodies DEF ForceStopSteps
  <2>6. CASE \E timeout \in BOOLEAN : Call("WaitFor", WaitFor(timeout))
    <3>1. Len(WaitFor(TRUE)) = 1 /\ Len(WaitFor(FALSE)) = 1
      BY DEF WaitFor
    <3>2. CASE Call("WaitFor", WaitFor(TRUE))
      BY <2>3, <3>1, <3>2, Bodies DEF ForceStopSteps
    <3>3. CASE Call("WaitFor", WaitFor(FALSE))
      BY <2>3, <3>1, <3>3, Bodies DEF ForceStopSteps
    <3> QED BY <2>6, <3>2, <3>3
  <2>7. CASE Call("ForceStop", ForceStop)
    BY <2>3, <2>7, Bodies DEF ForceStopSteps
  <2>8. CASE Call("Destroy", Destroy)
    BY <2>3, <2>8, DestroyBody
  <2> QED BY <1>10, <2>4, <2>5, <2>6, <2>7, <2>8 DEF CallOther
<1> QED BY <1>7, <1>8, <1>9, <1>10 DEF OwnerCalls

\* The calls keep the second invariant.
LEMMA OwnerCallsKeepS == IInv /\ SInv /\ SoundUsers /\ OwnerCalls => SInv'
<1> SUFFICES ASSUME IInv, SInv, SoundUsers, OwnerCalls PROVE SInv'
  OBVIOUS
<1>1. /\ agenda = << >> /\ On(agenda) = {} /\ CallShape
      /\ UNCHANGED <<world, ThreadHandle, Stopped, Suspended, Finished>>
      /\ UNCHANGED <<suspend_event, worker>>
  BY CallsHaveShape DEF CallShape, object, events, On
<1>2. ResumedFirst'
  BY <1>1 DEF CallShape, ResumedFirst, At
<1>3. NeverSuspended'
  BY <1>1 DEF CallShape, SInv, NeverSuspended, Pending, Suspending
<1>4. NoEventLeft'
  <2>1. Pending({"start_suspended"})' \/ Pending({"create_suspended"})' =>
          On(agenda') \cap Suspending # {}
    BY DEF Pending, Suspending
  <2>2. life = "none" => ~Suspended /\ ~suspend_event
    BY DEF IInv, OwnerInv, NothingLeft
  <2>3. Pending(Resuming)' => On(agenda') \cap Resuming # {}
    BY DEF Pending
  <2>4. world.posix /\ ~world.restarts /\ created = "no" => ~Suspended /\ ~suspend_event
    BY DEF SInv, NoEventLeft
  <2> QED BY <1>1, <2>1, <2>2, <2>3, <2>4 DEF CallShape, NoEventLeft
<1>5. FlagsTruthful' /\ HeldBack'
  BY <1>1 DEF CallShape, SInv, FlagsTruthful, HeldBack, At
<1> QED BY <1>2, <1>3, <1>4, <1>5 DEF SInv

\* A step of the owner that leaves the flags alone.
LEMMA QuietStepKeepsS ==
  ASSUME IInv, SInv, NEW step \in Steps \ {"create_suspended"}, agenda # << >>, agenda[1] = step,
         On(agenda') \subseteq On(agenda) \cup Quiet,
         ~Suspended => On(agenda') \cap Resuming \subseteq On(agenda),
         step = "constructed" => On(agenda') \subseteq On(agenda),
         ResumedFirst', ~At({"resume_suspended"})',
         UNCHANGED <<world, Suspended, Finished, suspend_event, created, held>>,
         \A i \in Ids : worker'[i] \in {worker[i], "none"}
  PROVE  SInv'
<1>1. agenda \in Seq(Steps) /\ Linked(agenda) /\ step \in On(agenda)
  BY Rest DEF IInv, TypeOK, OwnerInv
<1>2. NeverSuspended'
  BY DEF SInv, NeverSuspended, Pending, Quiet, Resuming, Waiting
<1>3. NoEventLeft'
  <2>1. SUFFICES ASSUME world.posix, ~world.restarts
                 PROVE  /\ created = "no" \/ Pending({"start_suspended"})' =>
                             ~Suspended /\ ~suspend_event /\ ~Pending(Resuming)'
                        /\ Pending({"create_suspended"})' => ~suspend_event /\ ~Pending(Resuming)'
    BY DEF NoEventLeft
  <2>2. /\ Pending({"start_suspended"})' => "start_suspended" \in On(agenda)
        /\ Pending({"create_suspended"})' => "create_suspended" \in On(agenda)
    BY DEF Pending, Quiet, Resuming, Waiting
  <2>3. "create_suspended" \in On(agenda) => "start_suspended" \in On(agenda)
    BY <1>1, AroundCreate
  <2>4. created = "no" \/ "start_suspended" \in On(agenda) =>
          ~Suspended /\ ~suspend_event /\ ~Pending(Resuming)
    BY <2>1 DEF SInv, NoEventLeft, Pending
  <2>5. ~Suspended /\ ~Pending(Resuming) => ~Pending(Resuming)'
    BY DEF Pending
  <2> QED BY <2>2, <2>3, <2>4, <2>5
<1>4. FlagsTruthful'
  BY DEF SInv, FlagsTruthful, At, Before, Running, Ended
<1>5. HeldBack'
  <2>1. SUFFICES ASSUME held PROVE HeldBack'
    BY DEF HeldBack
  <2>2. step = "constructed"
    BY <1>1, <2>1 DEF SInv, HeldBack, Pending
  <2>3. ~Pending(Steps \ {"constructed"})'
    BY <2>1, <2>2 DEF SInv, HeldBack, Pending
  <2> QED BY <2>1, <2>3 DEF SInv, HeldBack
<1> QED BY <1>2, <1>3, <1>4, <1>5 DEF SInv

\* The owner's steps that leave the flags alone.
LEMMA QuietStepsKeepS ==
  ASSUME IInv, SInv,
         \/ LifeStep /\ ~Do("gone", << >>)
         \/ StartStep /\ Do("start", << >>)
         \/ StopStep \/ WaitStep \/ AwaitWorkEvent \/ Join \/ TimeOut \/ Terminate
  PROVE  SInv'
<1>1. /\ UNCHANGED <<world, Suspended, Finished, suspend_event, created, held>>
      /\ \A i \in Ids : worker'[i] \in {worker[i], "none"}
  <2>1. /\ UNCHANGED <<world, Suspended, Finished, suspend_event>>
        /\ UNCHANGED <<created, held>>
    BY Names, AtStep DEF LifeStep, StartStep, StopStep, WaitStep, AwaitWorkEvent, Join, TimeOut,
       Terminate, object, events, ghost, Do
  <2>2. worker' = worker \/ worker' = [worker EXCEPT ![ThreadHandle] = "none"]
    BY DEF LifeStep, StartStep, StopStep, WaitStep, AwaitWorkEvent, Join, TimeOut, Terminate
  <2>3. worker \in [Ids -> {"none", "begin", "suspended", "check", "execute", "finish", "signal",
                            "exited"}]
    BY DEF IInv, TypeOK
  <2> QED BY <2>1, <2>2, <2>3
<1>2. ASSUME NEW step \in {"constructed", "derived_gone", "start", "stop", "wait", "wait_0",
                           "await_work_event", "join", "join_0", "force"}, Do(step, << >>)
      PROVE  SInv'
  <2>1. step \in Steps \ {"create_suspended"}
    BY Names
  <2>2. /\ agenda # << >> /\ agenda[1] = step /\ On(agenda') \subseteq On(agenda)
        /\ agenda' # << >> => Follows(step, agenda'[1]) /\ Len(agenda) > 1
    <3>1. agenda' = Tail(agenda) /\ agenda \in Seq(Steps)
      BY <1>2 DEF Do, IInv, TypeOK
    <3> QED BY <1>2, <2>1, <3>1, AtStep, Done
  <2>3. ResumedFirst' /\ ~At({"resume_suspended"})'
    BY <1>1, <1>2, <2>2 DEF SInv, ResumedFirst, At, Follows, Waiting
  <2> QED BY <1>1, <2>1, <2>2, <2>3, QuietStepKeepsS
<1>3. ASSUME Do("resume_if_suspended", << >>), ~Suspended PROVE SInv'
  <2>1. /\ agenda # << >> /\ agenda[1] = "resume_if_suspended" /\ On(agenda') \subseteq On(agenda)
        /\ agenda' # << >> => Follows("resume_if_suspended", agenda'[1])
    BY <1>3, AtStep, Done, Names
  <2>2. ResumedFirst' /\ ~At({"resume_suspended"})'
    BY <1>1, <1>3, <2>1 DEF ResumedFirst, At, Follows, Waiting
  <2> QED BY <1>1, <2>1, <2>2, Names, QuietStepKeepsS
<1>4. ASSUME Do("resume_if_suspended", Resume), Suspended PROVE SInv'
  <2>1. \A b \in Steps : Follows("resume_if_suspended", b) => Follows("resume_event", b)
    BY DEF Follows, Waiting
  <2>2. /\ agenda # << >> /\ agenda[1] = "resume_if_suspended"
        /\ On(agenda') \subseteq On(agenda) \cup Resuming
        /\ agenda' # << >> /\ agenda'[1] = "resume_finished"
    BY <1>4, <2>1, AtStep, Calls, Names, Bodies DEF IsBody
  <2>3. ResumedFirst' /\ ~At({"resume_suspended"})'
    BY <2>2 DEF ResumedFirst, At
  <2> QED BY <1>1, <1>4, <2>2, <2>3, Names, QuietStepKeepsS DEF Quiet
<1>5. ASSUME NEW step \in {"wait", "wait_0"}, NEW more, Do(step, more), WaitBody(step, more)
      PROVE  SInv'
  <2>1. PICK A, last : /\ A \subseteq WaitSteps
                       /\ \A b \in Steps : Follows(step, b) => Follows(last, b)
                       /\ IsBody(more, A, "resume_if_suspended", last)
    BY <1>5, WaitBodies
  <2>2. /\ agenda # << >> /\ agenda[1] = step /\ On(agenda') \subseteq On(agenda) \cup A
        /\ agenda' # << >> /\ agenda'[1] = "resume_if_suspended"
    BY <1>5, <2>1, AtStep, Calls, Names DEF IsBody
  <2>3. ResumedFirst' /\ ~At({"resume_suspended"})'
    BY <2>2 DEF ResumedFirst, At
  <2>4. A \cap Resuming = {} /\ A \subseteq Quiet
    BY <2>1 DEF WaitSteps, Waiting, Resuming, Quiet
  <2> QED BY <1>1, <1>5, <2>2, <2>3, <2>4, Names, QuietStepKeepsS
<1>6. WaitStep => \E step \in {"wait", "wait_0"} :
                    Do(step, << >>) \/ \E more : Do(step, more) /\ WaitBody(step, more)
  BY DEF WaitStep, WaitBody
<1> QED BY <1>2, <1>3, <1>4, <1>5, <1>6
        DEF LifeStep, StartStep, StopStep, AwaitWorkEvent, Join, TimeOut, Terminate

\* No thread is there while one is being started or the object ends.
LEMMA NoThreadAt ==
  ASSUME IInv, At(Starting \cup {"gone"})
  PROVE  \A i \in Ids : worker[i] = "none"
<1>1. ThreadHandle = INVALID
  BY DEF IInv, OwnerInv, GoneBefore, At
<1> QED BY <1>1, ThreadAssumption DEF IInv, OwnerInv, OwnsItsThread

\* The end of the object.
LEMMA GoneKeepsS == IInv /\ SInv /\ LifeStep /\ Do("gone", << >>) => SInv'
<1> SUFFICES ASSUME IInv, SInv, LifeStep, Do("gone", << >>) PROVE SInv'
  OBVIOUS
<1>1. /\ agenda # << >> /\ agenda[1] = "gone" /\ "gone" \in On(agenda)
      /\ agenda' # << >> => Follows("gone", agenda'[1])
  BY AtStep, Done, Names
<1>2. agenda' = << >> /\ On(agenda') = {}
  BY <1>1 DEF Follows, Waiting, On
<1>3. /\ UNCHANGED <<world, worker, created, held>> /\ Suspended' = FALSE
      /\ Finished' = FALSE /\ suspend_event' = FALSE
  BY <1>1 DEF LifeStep, Do
<1>4. \A i \in Ids : worker[i] = "none"
  BY <1>1, NoThreadAt DEF At
<1>5. ResumedFirst' /\ NeverSuspended' /\ NoEventLeft'
  BY <1>2, <1>3 DEF SInv, ResumedFirst, NeverSuspended, NoEventLeft, At, Pending
<1>6. FlagsTruthful' /\ HeldBack'
  BY <1>2, <1>3, <1>4 DEF FlagsTruthful, HeldBack, Pending, Running, Ended, Before, At
<1> QED BY <1>5, <1>6 DEF SInv

\* Start sets the flags of a thread that is not there yet.
LEMMA StartFlagsKeepS ==
  ASSUME IInv, SInv, StartStep, Do("start_suspended", << >>) \/ Do("start_running", << >>)
  PROVE  SInv'
<1>1. PICK step \in {"start_suspended", "start_running"} : Do(step, << >>)
  OBVIOUS
<1>2. /\ agenda # << >> /\ agenda[1] = step /\ step \in On(agenda)
      /\ agenda \in Seq(Steps) /\ Linked(agenda) /\ agenda' = Tail(agenda)
      /\ On(agenda') \subseteq On(agenda)
      /\ agenda' # << >> => Follows(step, agenda'[1])
  BY <1>1, AtStep, Done, Names
<1>3. /\ UNCHANGED <<world, worker, created, held, suspend_event>>
      /\ step = "start_suspended" => Suspended' = TRUE /\ Finished' = Finished
      /\ step = "start_running" => Finished' = FALSE /\ Suspended' = Suspended
  BY <1>1, <1>2 DEF StartStep, Do, events, ghost
<1>4. \A i \in Ids : worker[i] = "none"
  BY <1>2, NoThreadAt DEF At, Starting
<1>5. ResumedFirst'
  BY <1>2, <1>3 DEF SInv, ResumedFirst, At, Follows, Waiting
<1>6. NeverSuspended'
  <2>1. ~world.suspends => step # "start_suspended"
    BY <1>2 DEF SInv, NeverSuspended, Pending
  <2> QED BY <1>2, <1>3, <2>1 DEF SInv, NeverSuspended, Pending
<1>7. NoEventLeft'
  <2>1. CASE step = "start_running"
    BY <1>2, <1>3, <2>1 DEF SInv, NoEventLeft, Pending
  <2>2. CASE step = "start_suspended"
    <3>1. On(agenda') \subseteq {"create_suspended", "constructed"}
      BY <1>2, <2>2, AroundCreate
    <3>2. created # "no"
      BY <1>2, <2>2 DEF IInv, OwnerInv, InCall, Pending
    <3>3. world.posix /\ ~world.restarts => ~suspend_event
      BY <1>2, <2>2 DEF SInv, NoEventLeft, Pending
    <3> QED BY <1>3, <3>1, <3>2, <3>3 DEF NoEventLeft, Pending, Resuming
  <2> QED BY <2>1, <2>2
<1>8. FlagsTruthful' /\ HeldBack'
  <2>1. ~held
    BY <1>2, Names DEF SInv, HeldBack, Pending
  <2> QED BY <1>3, <1>4, <2>1 DEF FlagsTruthful, HeldBack, Running, Ended, Before
<1> QED BY <1>5, <1>6, <1>7, <1>8 DEF SInv

\* The thread finds the flags as Start left them and, created suspended, no event.
LEMMA CreateKeepsS == IInv /\ SInv /\ SoundUsers /\ Create => SInv'
<1> SUFFICES ASSUME IInv, SInv, SoundUsers, Create PROVE SInv'
  OBVIOUS
<1>1. PICK s \in BOOLEAN :
        /\ Do(IF s THEN "create_suspended" ELSE "create", << >>)
        /\ \/ UNCHANGED <<worker, held>>
           \/ \E i \in Ids :
                /\ worker' = [worker EXCEPT ![i] = IF world.posix THEN "begin"
                                                   ELSE IF s THEN "suspended" ELSE "check"]
                /\ held' = (created = "suspended")
  BY DEF Create
<1> DEFINE step == IF s THEN "create_suspended" ELSE "create"
<1>2. step \in {"create", "create_suspended"} /\ step \in Steps /\ (s <=> step = "create_suspended")
  BY <1>1, Names
<1> HIDE DEF step
<1>3. /\ agenda # << >> /\ agenda[1] = step /\ step \in On(agenda)
      /\ agenda \in Seq(Steps) /\ Linked(agenda) /\ agenda' = Tail(agenda)
      /\ On(agenda') \subseteq On(agenda)
      /\ agenda' # << >> => Follows(step, agenda'[1])
  BY <1>1, <1>2, AtStep, Done DEF step
<1>4. On(agenda') \subseteq {"constructed"} /\ (agenda' # << >> => agenda'[1] = "constructed")
  BY <1>2, <1>3, AroundCreate DEF Follows, Waiting
<1>5. UNCHANGED <<world, Suspended, Finished, suspend_event, created>>
  BY DEF Create, events
<1>6. \A i \in Ids : worker[i] = "none"
  BY <1>2, <1>3, NoThreadAt DEF At, Starting
<1>7. ~held
  BY <1>2, <1>3 DEF SInv, HeldBack, Pending
<1>8. ResumedFirst' /\ NeverSuspended'
  BY <1>3, <1>4, <1>5 DEF SInv, ResumedFirst, NeverSuspended, At, Pending
<1>9. NoEventLeft'
  BY <1>4, <1>5 DEF SInv, NoEventLeft, Pending, Resuming
<1>10. s => Suspended /\ (world.posix => ~suspend_event)
  <2>1. ASSUME s, world.posix PROVE ~suspend_event
    <3>1. Pending({"create_suspended"})
      BY <1>2, <1>3, <2>1 DEF Pending
    <3>2. world.suspends
      BY <3>1 DEF SInv, NeverSuspended, Pending
    <3>3. ~world.restarts
      BY <2>1, <3>2 DEF SoundUsers, IInv, TypeOK
    <3> QED BY <2>1, <3>1, <3>3 DEF SInv, NoEventLeft
  <2> QED BY <1>2, <1>3, <2>1 DEF SInv, ResumedFirst, At
<1>11. ~s => ~Suspended /\ ~Finished /\ created # "suspended"
  BY <1>2, <1>3 DEF SInv, ResumedFirst, At, IInv, OwnerInv, InCall, Pending
<1>12. /\ \A i \in Ids : worker'[i] \in {"none", IF world.posix THEN "begin"
                                                ELSE IF s THEN "suspended" ELSE "check"}
       /\ held' => s
  BY <1>1, <1>6, <1>7, <1>11 DEF IInv, TypeOK
<1>13. FlagsTruthful'
  BY <1>4, <1>5, <1>10, <1>11, <1>12 DEF FlagsTruthful, At, Running, Ended, Before
<1>14. HeldBack'
  BY <1>4, <1>5, <1>10, <1>12 DEF HeldBack, Pending, Before
<1> QED BY <1>8, <1>9, <1>13, <1>14 DEF SInv

\* Resume resets Finished only where it is about to let the thread run.
LEMMA ResumeKeepsS == IInv /\ SInv /\ ResumeStep => SInv'
<1> SUFFICES ASSUME IInv, SInv, ResumeStep PROVE SInv'
  OBVIOUS
<1>1. PICK step \in Resuming : Do(step, << >>)
  BY DEF ResumeStep, Resuming
<1>2. /\ step \in Steps /\ step \in {"resume_finished", "resume_suspended", "resume_event"}
      /\ step \notin Suspending
  BY <1>1 DEF Steps, Resuming, Suspending
<1>3. /\ agenda # << >> /\ agenda[1] = step /\ step \in On(agenda)
      /\ On(agenda') \subseteq On(agenda)
      /\ agenda' # << >> => Follows(step, agenda'[1])
  BY <1>1, <1>2, AtStep, Done
<1>4. /\ UNCHANGED <<world, created, held>>
      /\ \/ /\ step = "resume_finished" /\ Finished' = (Finished /\ ~Suspended)
            /\ UNCHANGED <<Suspended, suspend_event, worker>>
         \/ /\ step = "resume_suspended" /\ Suspended' = FALSE
            /\ UNCHANGED <<Finished, suspend_event, worker>>
         \/ /\ step = "resume_event" /\ UNCHANGED <<Suspended, Finished>>
            /\ \/ world.posix /\ suspend_event' = TRUE /\ UNCHANGED worker
               \/ /\ ~world.posix /\ UNCHANGED suspend_event
                  /\ worker' = [i \in Ids |-> IF i = ThreadHandle /\ worker[i] = "suspended"
                                              THEN "check" ELSE worker[i]]
  BY <1>1, <1>3 DEF ResumeStep, Do, ghost
<1>5. ~held
  BY <1>2, <1>3 DEF SInv, HeldBack, Pending
<1>6. Pending(Resuming)
  BY <1>1, <1>3 DEF Pending
<1>7. ResumedFirst'
  BY <1>2, <1>3, <1>4 DEF SInv, ResumedFirst, At, Follows, Waiting
<1>8. NeverSuspended' /\ NoEventLeft'
  BY <1>3, <1>4, <1>6 DEF SInv, NeverSuspended, NoEventLeft, Pending
<1>9. step = "resume_event" => ~Suspended
  BY <1>3 DEF SInv, ResumedFirst, At
<1>10. FlagsTruthful'
  <2>1. CASE step = "resume_finished"
    BY <1>2, <1>3, <1>4, <2>1 DEF SInv, FlagsTruthful, At, Running, Ended, Before
  <2>2. CASE step = "resume_suspended"
    BY <1>2, <1>3, <1>4, <2>2 DEF SInv, FlagsTruthful, At, Running, Ended, Before
  <2>3. CASE step = "resume_event"
    BY <1>2, <1>3, <1>4, <1>9, <2>3 DEF SInv, FlagsTruthful, At, Running, Ended, Before
  <2> QED BY <1>2, <2>1, <2>2, <2>3
<1>11. HeldBack'
  BY <1>4, <1>5 DEF HeldBack
<1> QED BY <1>7, <1>8, <1>10, <1>11 DEF SInv

\* The worker sees the flags it relies on.
LEMMA WorkerKeepsS ==
  ASSUME NEW i \in Ids, IInv, SInv, WorkerStep(i) \/ StopItself(i) \/ ExecuteReturns(i)
  PROVE  SInv'
<1>1. /\ UNCHANGED <<world, ThreadHandle, agenda, created, held>>
      /\ worker[i] # "none" /\ worker \in [Ids -> {"none", "begin", "suspended", "check", "execute",
                                                   "finish", "signal", "exited"}]
      /\ {Suspended, Finished, suspend_event, held} \subseteq BOOLEAN
  BY DEF WorkerStep, StopItself, ExecuteReturns, Begin, Released, CheckStopped, Finish, Signal,
         Go, IInv, TypeOK, object, events, owner, ghost
<1>2. \A j \in Ids : j # i => worker[j] = "none"
  BY <1>1 DEF IInv, OwnerInv, OwnsItsThread
<1>3. ~At(Starting)
  BY <1>1, NoThreadAt DEF At
<1>4. worker[i] \in Running => ~Suspended
  BY DEF SInv, FlagsTruthful
<1>5. \* where the worker is and what it changes
      \/ /\ worker[i] = "begin" /\ worker' = [worker EXCEPT ![i] = IF Suspended THEN "suspended"
                                                                  ELSE "check"]
         /\ UNCHANGED <<Suspended, Finished, suspend_event>>
      \/ /\ worker[i] = "suspended" /\ worker' = [worker EXCEPT ![i] = "check"]
         /\ world.posix /\ suspend_event /\ suspend_event' = FALSE
         /\ UNCHANGED <<Suspended, Finished>>
      \/ /\ worker[i] \in {"check", "execute"}
         /\ worker' = worker \/ \E p \in {"finish", "execute"} : worker' = [worker EXCEPT ![i] = p]
         /\ UNCHANGED <<Suspended, Finished, suspend_event>>
      \/ /\ worker[i] = "finish"
         /\ \E p \in Ended : worker' = [worker EXCEPT ![i] = p]
         /\ Finished' = TRUE /\ UNCHANGED <<Suspended, suspend_event>>
      \/ /\ worker[i] = "signal" /\ worker' = [worker EXCEPT ![i] = "exited"]
         /\ UNCHANGED <<Suspended, Finished, suspend_event>>
  BY <1>4 DEF WorkerStep, StopItself, ExecuteReturns, Begin, Released, CheckStopped, Finish,
              Signal, Go, Running, Ended, object, events, owner, ghost
<1>6. /\ UNCHANGED Suspended /\ (suspend_event' => suspend_event)
      /\ Finished' # Finished => worker[i] = "finish"
  BY <1>1, <1>5
<1>7. ResumedFirst'
  <2>1. At({"create"}) => At(Starting)
    BY DEF At, Starting
  <2> QED BY <1>1, <1>3, <1>6, <2>1 DEF SInv, ResumedFirst, At
<1>8. NeverSuspended' /\ NoEventLeft'
  BY <1>1, <1>6 DEF SInv, NeverSuspended, NoEventLeft, Pending
<1>9. FlagsTruthful'
  <2>1. /\ worker'[i] \in Running \cup Ended => ~Suspended'
        /\ worker'[i] \in Before \cup Running /\ ~Suspended' => ~Finished'
        /\ worker'[i] \in Ended => Finished'
        /\ world.posix /\ worker'[i] \in Before /\ suspend_event' => ~Suspended'
        /\ At({"resume_suspended"}) /\ Suspended' => ~Finished'
    BY <1>1, <1>4, <1>5, <1>6 DEF SInv, FlagsTruthful, Running, Ended, Before
  <2>2. \A j \in Ids : j # i => worker'[j] = "none"
    BY <1>1, <1>2, <1>5
  <2> QED BY <1>1, <2>1, <2>2 DEF FlagsTruthful, Running, Ended, Before, At
<1>10. HeldBack'
  <2>1. SUFFICES ASSUME held PROVE HeldBack'
    BY <1>1 DEF HeldBack
  <2>2. worker[i] \in Before /\ Suspended /\ (world.posix => ~suspend_event)
    BY <1>1, <2>1 DEF SInv, HeldBack
  <2>3. worker' = [worker EXCEPT ![i] = "suspended"]
    BY <1>5, <2>2 DEF Before
  <2>4. \A j \in Ids : worker'[j] # "none" => worker'[j] \in Before
    BY <1>1, <1>2, <2>3 DEF Before
  <2> QED BY <1>1, <1>6, <2>1, <2>2, <2>4 DEF SInv, HeldBack, Pending
<1> QED BY <1>7, <1>8, <1>9, <1>10 DEF SInv

\* The second invariant holds in every reachable state.
LEMMA FlagsInvariant ==
  ASSUME SoundUsers
  PROVE  Spec => [](IInv /\ SInv)
<1>1. IInv /\ SInv /\ [Next]_vars => SInv'
  <2> SUFFICES ASSUME IInv, SInv, [Next]_vars PROVE SInv'
    OBVIOUS
  <2>1. CASE OwnerCalls
    BY <2>1, OwnerCallsKeepS
  <2>2. CASE OwnerStep
    <3>1. CASE LifeStep
      BY <3>1, GoneKeepsS, QuietStepsKeepS
    <3>2. CASE StartStep
      BY <3>2, StartFlagsKeepS, QuietStepsKeepS DEF StartStep
    <3> QED BY <2>2, <3>1, <3>2, CreateKeepsS, ResumeKeepsS, QuietStepsKeepS DEF OwnerStep
  <2>3. CASE \E i \in Ids : WorkerStep(i) \/ StopItself(i) \/ ExecuteReturns(i)
    BY <2>3, WorkerKeepsS
  <2>4. CASE UNCHANGED vars
    <3>1. /\ UNCHANGED <<world, Suspended, Finished>>
          /\ UNCHANGED <<suspend_event, worker, agenda>>
          /\ UNCHANGED <<created, held>>
      BY <2>4 DEF vars, object, events, owner, ghost
    <3> QED BY <3>1 DEF SInv, ResumedFirst, NeverSuspended, NoEventLeft, FlagsTruthful, HeldBack,
                        At, Pending
  <2> QED BY <2>1, <2>2, <2>3, <2>4 DEF Next
<1> QED BY <1>1, InitSInv, OwnerInvariant, PTL DEF Spec

\* A thread created suspended does not run before a call resumes it.
THEOREM HeldUntilResumed ==
  ASSUME SoundUsers
  PROVE  Spec => []SuspendedUntilResumed
<1>1. IInv /\ SInv => SuspendedUntilResumed
  BY DEF SInv, HeldBack, SuspendedUntilResumed, Before
<1> QED BY <1>1, FlagsInvariant, PTL

\* Finished is false while Execute runs and true from the end of StaticThreadRun on.
THEOREM FinishedIsTrue ==
  ASSUME SoundUsers
  PROVE  Spec => []FinishedTruthful
<1>1. IInv /\ SInv => FinishedTruthful
  BY DEF SInv, FlagsTruthful, FinishedTruthful, Running, Ended
<1> QED BY <1>1, FlagsInvariant, PTL
==============================================================================
