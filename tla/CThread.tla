------------------------------- MODULE CThread -------------------------------
(***************************************************************************)
(* c_thread (COMMON/c_thread.cpp): an object that starts, suspends, resumes *)
(* and stops a thread of its own.  One thread, the owner, calls the member  *)
(* functions; the thread it started runs StaticThreadRun beside it, and its *)
(* Execute may call Stop.  Owner and worker meet in three bools without a   *)
(* lock and, in the POSIX build, in two events and pthread_join.            *)
(*                                                                          *)
(* The functions call each other, so what the owner has still to do is a    *)
(* sequence of steps, its agenda; calling a function puts its body in       *)
(* front.  An event (COMMON/c_event.h) is what its mutex makes of it: a     *)
(* bool that Set makes true and that a WaitFor without timeout waits for    *)
(* and clears; a WaitFor with timeout only looks at it.                     *)
(***************************************************************************)
EXTENDS Naturals, Sequences

CONSTANTS
  Ids,          \* what the system numbers its threads with
  INVALID,      \* INVALID_HANDLE_VALUE
  Worlds        \* the builds and users explored, see world

ASSUME ThreadAssumption ==
  /\ INVALID \notin Ids /\ Ids # {}
  /\ Worlds \subseteq [posix : BOOLEAN,         \* the build without _WIN32
                      startOnCreate : BOOLEAN, \* the constructor may start the thread
                      restarts : BOOLEAN,      \* Start is called again on the same object
                      suspends : BOOLEAN,      \* threads may be created suspended
                      derivedWaits : BOOLEAN]  \* the derived destructor stops the thread

VARIABLES
  world,    \* which build this is and what its users do; it never changes
  ThreadHandle, Stopped, Suspended, Finished,
  suspend_event, work_event,
  worker,   \* where each thread of the system is
  agenda,   \* what the owner has still to do before its call returns
  call,     \* the owner's last call
  waited,   \* what WaitFor returned last
  life,     \* which part of the object is constructed
  created,  \* how the last Start was asked to create its thread
  held      \* created suspended, and no call has resumed it yet

object == <<ThreadHandle, Stopped, Suspended, Finished>>
events == <<suspend_event, work_event>>
owner == <<agenda, call, waited>>
ghost == <<life, created, held>>
vars == <<world, object, events, worker, owner, ghost>>

Init ==
  /\ world \in Worlds
  /\ ThreadHandle = INVALID /\ Stopped = TRUE /\ Suspended = FALSE /\ Finished = FALSE
  /\ suspend_event = FALSE /\ work_event = FALSE
  /\ worker = [i \in Ids |-> "none"]
  /\ agenda = << >> /\ call = "none" /\ waited = TRUE
  /\ life = "none" /\ created = "no" /\ held = FALSE

------------------------------------------------------------------------------
\* The bodies of the member functions.

Resume == <<"resume_finished", "resume_suspended", "resume_event">>
Stop == <<"stop", "resume_if_suspended">>
WaitFor(timeout) == <<IF timeout THEN "wait_0" ELSE "wait">>
\* Mutant of ForceStop: it does not wait.
ForceStopImpatient == Stop
ForceStop == Stop \o WaitFor(TRUE) \o <<"force">>
\* Mutants of Start: Finished is reset when the thread is already there; Stopped
\* is reset before the earlier thread is gone.
StartFinishedLate(suspended) ==
  ForceStop \o IF suspended THEN <<"start", "start_suspended", "create_suspended">>
                            ELSE <<"start", "create", "start_running">>
StartStoppedEarly(suspended) ==
  <<"start">> \o ForceStop \o IF suspended THEN <<"start_suspended", "create_suspended">>
                                             ELSE <<"start_running", "create">>
Start(suspended) ==
  ForceStop \o IF suspended THEN <<"start", "start_suspended", "create_suspended">>
                            ELSE <<"start", "start_running", "create">>
\* Mutant of Destroy: the derived part is gone before the thread is stopped.
DestroyUnstopped == <<"derived_gone">> \o ForceStop \o <<"gone">>
\* ~c_thread, after what the derived destructor does.
Destroy ==
  (IF world.derivedWaits THEN Stop \o WaitFor(FALSE) \o <<"force">> ELSE << >>)
    \o <<"derived_gone">> \o ForceStop \o <<"gone">>

\* The owner does the first step of its agenda; more is what that step calls.
Do(step, more) ==
  /\ agenda # << >> /\ Head(agenda) = step
  /\ agenda' = more \o Tail(agenda)
  /\ UNCHANGED call

------------------------------------------------------------------------------
\* The owner calls a function.

Call(name, body) ==
  /\ agenda = << >> /\ agenda' = body /\ call' = name
  /\ held' = FALSE
  /\ UNCHANGED <<world, object, events, worker, waited>>

CallConstructor ==
  /\ life = "none" /\ life' = "base"
  /\ \/ Call("Construct", <<"constructed">>) /\ created' = "no"
     \/ /\ world.startOnCreate
        /\ \E s \in {FALSE, world.suspends} :
             /\ Call("Construct", Start(s) \o <<"constructed">>)
             /\ created' = IF s THEN "suspended" ELSE "running"

CallStart ==
  /\ life = "derived" /\ (world.restarts \/ created = "no")
  /\ \E s \in {FALSE, world.suspends} :
       Call("Start", Start(s)) /\ created' = IF s THEN "suspended" ELSE "running"
  /\ UNCHANGED life

\* Resume is for threads that were created suspended.
CallResume ==
  /\ life = "derived" /\ created = "suspended"
  /\ Call("Resume", Resume)
  /\ UNCHANGED <<life, created>>

CallOther ==
  /\ life = "derived"
  /\ \/ Call("Stop", Stop)
     \/ Call("StopAndWait", Stop \o WaitFor(FALSE))
     \/ \E timeout \in BOOLEAN : Call("WaitFor", WaitFor(timeout))
     \/ Call("ForceStop", ForceStop)
     \/ Call("Destroy", Destroy)
  /\ UNCHANGED <<life, created>>

------------------------------------------------------------------------------
\* Steps of the owner.

LifeStep ==
  /\ \/ Do("constructed", << >>) /\ life' = "derived" /\ UNCHANGED <<object, events>>
     \/ Do("derived_gone", << >>) /\ life' = "base" /\ UNCHANGED <<object, events>>
     \/ /\ Do("gone", << >>) /\ life' = "none"
        /\ ThreadHandle' = INVALID /\ Stopped' = TRUE
        /\ Suspended' = FALSE /\ Finished' = FALSE
        /\ suspend_event' = FALSE /\ work_event' = FALSE
  /\ UNCHANGED <<world, worker, waited, created, held>>

\* Start, after ForceStop.
StartStep ==
  /\ \/ Do("start", << >>) /\ Stopped' = FALSE /\ UNCHANGED <<Suspended, Finished>>
     \/ Do("start_suspended", << >>) /\ Suspended' = TRUE /\ UNCHANGED <<Stopped, Finished>>
     \/ Do("start_running", << >>) /\ Finished' = FALSE /\ UNCHANGED <<Stopped, Suspended>>
  /\ UNCHANGED <<world, ThreadHandle, events, worker, waited, ghost>>

\* ThreadHandle when there is no thread; here for the NULL of CreateThread too.
\* Mutant of NoThread: some other value.
NoThreadNull == 0
NoThread == INVALID

\* pthread_create or CreateThread, which may fail.
Create ==
  /\ \E suspended \in BOOLEAN :
       /\ Do(IF suspended THEN "create_suspended" ELSE "create", << >>)
       /\ \/ /\ ThreadHandle' = NoThread
             /\ UNCHANGED <<worker, held>>
          \/ \E i \in Ids :
               /\ worker[i] = "none" /\ ThreadHandle' = i
               /\ worker' = [worker EXCEPT ![i] =
                              IF world.posix THEN "begin"
                              ELSE IF suspended THEN "suspended" ELSE "check"]
               /\ held' = (created = "suspended")
  /\ UNCHANGED <<world, Stopped, Suspended, Finished, events, waited, life, created>>

\* Only the first statement of Resume is under its if.
ResumeStep ==
  /\ \/ /\ Do("resume_finished", << >>)
        /\ Finished' = (Finished /\ ~Suspended)
        /\ UNCHANGED <<Suspended, suspend_event, worker>>
     \/ /\ Do("resume_suspended", << >>)
        /\ Suspended' = FALSE
        /\ UNCHANGED <<Finished, suspend_event, worker>>
     \/ /\ Do("resume_event", << >>)
        /\ IF world.posix
           THEN suspend_event' = TRUE /\ UNCHANGED worker
           ELSE /\ worker' = [i \in Ids |-> IF i = ThreadHandle /\ worker[i] = "suspended"
                                            THEN "check" ELSE worker[i]]
                /\ UNCHANGED suspend_event
        /\ UNCHANGED <<Suspended, Finished>>
  /\ UNCHANGED <<world, ThreadHandle, Stopped, work_event, waited, ghost>>

StopStep ==
  /\ \/ Do("stop", << >>) /\ Stopped' = TRUE
     \/ Do("resume_if_suspended", IF Suspended THEN Resume ELSE << >>) /\ UNCHANGED Stopped
  /\ UNCHANGED <<world, ThreadHandle, Suspended, Finished, events, worker, waited, ghost>>

\* WaitFor: nothing to wait for, or resume the thread and wait for it.  With a timeout
\* the POSIX build only glances at work_event; pthread_join waits all the same.
WaitStep ==
  /\ \/ /\ ThreadHandle = INVALID
        /\ Do("wait", << >>) \/ Do("wait_0", << >>)
        /\ waited' = TRUE
     \/ /\ ThreadHandle # INVALID
        /\ \/ Do("wait", <<"resume_if_suspended">> \o
                         IF world.posix THEN <<"await_work_event", "join">> ELSE <<"join">>)
           \/ Do("wait_0", <<"resume_if_suspended", IF world.posix THEN "join" ELSE "join_0">>)
        /\ UNCHANGED waited
  /\ UNCHANGED <<world, object, events, worker, ghost>>

AwaitWorkEvent ==
  /\ Do("await_work_event", << >>)
  /\ work_event /\ work_event' = FALSE
  /\ UNCHANGED <<world, object, suspend_event, worker, waited, ghost>>

Join ==
  /\ Do("join", << >>) \/ Do("join_0", << >>)
  /\ worker[ThreadHandle] = "exited"
  /\ worker' = [worker EXCEPT ![ThreadHandle] = "none"]
  /\ ThreadHandle' = NoThread /\ waited' = TRUE
  /\ UNCHANGED <<world, Stopped, Suspended, Finished, events, ghost>>

\* WaitForSingleObject times out.
TimeOut ==
  /\ Do("join_0", << >>)
  /\ worker[ThreadHandle] # "exited" /\ waited' = FALSE
  /\ UNCHANGED <<world, object, events, worker, ghost>>

\* ForceStop terminates a thread that WaitFor(0) did not see finish.
Terminate ==
  /\ Do("force", << >>)
  /\ \/ waited /\ UNCHANGED <<ThreadHandle, worker>>
     \/ /\ ~waited /\ ThreadHandle' = NoThread
        /\ worker' = [worker EXCEPT ![ThreadHandle] = "none"]
  /\ UNCHANGED <<world, Stopped, Suspended, Finished, events, waited, ghost>>

------------------------------------------------------------------------------
\* StaticThreadRun.

Go(i, from, to) == worker[i] = from /\ worker' = [worker EXCEPT ![i] = to]

\* Mutant of Begin: Suspended is not looked at.
BeginAtOnce(i) ==
  /\ Go(i, "begin", "check")
  /\ UNCHANGED <<world, object, events, owner, ghost>>

Begin(i) ==
  /\ Go(i, "begin", IF Suspended THEN "suspended" ELSE "check")
  /\ UNCHANGED <<world, object, events, owner, ghost>>

\* suspend_event.WaitFor
Released(i) ==
  /\ world.posix /\ Go(i, "suspended", "check")
  /\ suspend_event /\ suspend_event' = FALSE
  /\ UNCHANGED <<world, object, work_event, owner, ghost>>

CheckStopped(i) ==
  /\ Go(i, "check", IF Stopped THEN "finish" ELSE "execute")
  /\ UNCHANGED <<world, object, events, owner, ghost>>

\* Execute calls Stop; the Resume in it is one step here.
StopItself(i) ==
  /\ worker[i] = "execute" /\ Stopped' = TRUE
  /\ IF Suspended
     THEN Suspended' = FALSE /\ Finished' = FALSE /\ suspend_event' = (suspend_event \/ world.posix)
     ELSE UNCHANGED <<Suspended, Finished, suspend_event>>
  /\ UNCHANGED <<world, ThreadHandle, work_event, worker, owner, ghost>>

ExecuteReturns(i) ==
  /\ Go(i, "execute", "finish")
  /\ UNCHANGED <<world, object, events, owner, ghost>>

Finish(i) ==
  /\ Go(i, "finish", IF world.posix THEN "signal" ELSE "exited")
  /\ Finished' = TRUE
  /\ UNCHANGED <<world, ThreadHandle, Stopped, Suspended, events, owner, ghost>>

\* Mutant of Signal: work_event is not set.
SignalForgotten(i) ==
  /\ Go(i, "signal", "exited")
  /\ UNCHANGED <<world, object, events, owner, ghost>>

Signal(i) ==
  /\ Go(i, "signal", "exited")
  /\ work_event' = TRUE
  /\ UNCHANGED <<world, object, suspend_event, owner, ghost>>

------------------------------------------------------------------------------
OwnerCalls == CallConstructor \/ CallStart \/ CallResume \/ CallOther
OwnerStep == \/ LifeStep \/ StartStep \/ Create \/ ResumeStep \/ StopStep
             \/ WaitStep \/ AwaitWorkEvent \/ Join \/ TimeOut \/ Terminate
\* What the worker does outside Execute.
WorkerStep(i) == Begin(i) \/ Released(i) \/ CheckStopped(i) \/ Finish(i) \/ Signal(i)

Next == \/ OwnerCalls \/ OwnerStep
        \/ \E i \in Ids : WorkerStep(i) \/ StopItself(i) \/ ExecuteReturns(i)

Spec == Init /\ [][Next]_vars

\* Both threads are scheduled; Execute may run for ever.
FairSpec == Spec /\ WF_vars(OwnerStep) /\ \A i \in Ids : WF_vars(WorkerStep(i))

\* Execute looks at Stopped in its loop, as every Execute of the repository does.
LiveSpec == FairSpec /\ \A i \in Ids : WF_vars(Stopped /\ ExecuteReturns(i))
==============================================================================
