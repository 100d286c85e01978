-------------------------- MODULE CThreadProperties --------------------------
\* What c_thread promises its owner.
EXTENDS CThread

Steps == {"resume_finished", "resume_suspended", "resume_event", "stop",
          "resume_if_suspended", "wait", "wait_0", "force", "start", "start_suspended",
          "start_running", "create", "create_suspended", "constructed", "derived_gone",
          "gone", "await_work_event", "join", "join_0"}

\* Types and ranges.
TypeOK ==
  /\ world \in Worlds
  /\ ThreadHandle \in Ids \cup {INVALID}
  /\ {Stopped, Suspended, Finished, suspend_event, work_event, waited, held} \subseteq BOOLEAN
  /\ worker \in [Ids -> {"none", "begin", "suspended", "check", "execute", "finish",
                         "signal", "exited"}]
  /\ agenda \in Seq(Steps)
  /\ call \in {"none", "Construct", "Start", "Resume", "Stop", "StopAndWait", "WaitFor",
               "ForceStop", "Destroy"}
  /\ life \in {"none", "base", "derived"}
  /\ created \in {"no", "running", "suspended"}

\* A thread that exists is the one the object has the handle of: Start never leaves an
\* earlier thread running or unjoined, and no thread outlives the object it works on.
OwnsItsThread ==
  \A i \in Ids : worker[i] # "none" => ThreadHandle = i /\ life # "none"

\* A request to stop is not taken back while the thread it was made to is running.
StopSticks ==
  [][\A i \in Ids : Stopped /\ worker[i] \notin {"none", "exited"} /\ worker'[i] # "none"
                      => Stopped']_vars

\* A thread created suspended does not run before a call resumes it.
SuspendedUntilResumed ==
  \A i \in Ids : held => worker[i] \notin {"check", "execute", "finish"}

\* Finished is false while Execute runs and true once StaticThreadRun is through with
\* it, so whoever polls it is neither told too early nor left polling.
FinishedTruthful ==
  \A i \in Ids : /\ worker[i] = "execute" => ~Finished
                 /\ worker[i] \in {"signal", "exited"} => Finished

\* Execute, a virtual function of the derived class, runs on an object that is not complete
\* only where the code leaves it to the derived class: in the constructor if that was asked to
\* start the thread (c_thread.cpp:25), and in the destructor if the derived one has not waited
\* for the thread (31).
ExecutesOnWholeObject ==
  \A i \in Ids : worker[i] = "execute" =>
    \/ life = "derived"
    \/ call = "Construct" /\ world.startOnCreate
    \/ call = "Destroy" /\ ~world.derivedWaits

\* A call made with Stopped set returns: no wake-up is lost and no event that an
\* earlier thread left behind confuses the next one.
ShutdownReturns == Stopped /\ agenda # << >> ~> agenda = << >>

------------------------------------------------------------------------------
\* The builds and the users of c_thread that TLC explores.
World(posix, startOnCreate, restarts, suspends, derivedWaits) ==
  [posix |-> posix, startOnCreate |-> startOnCreate, restarts |-> restarts,
   suspends |-> suspends, derivedWaits |-> derivedWaits]

\* Users every promise is kept for.  In the POSIX build an object that suspends its
\* threads is started only once; in the other build there is no such restriction.
SoundWorlds ==
  {World(TRUE, on, FALSE, TRUE, waits) : on \in BOOLEAN, waits \in BOOLEAN} \cup
  {World(TRUE, on, TRUE, FALSE, waits) : on \in BOOLEAN, waits \in BOOLEAN} \cup
  {World(FALSE, on, TRUE, TRUE, waits) : on \in BOOLEAN, waits \in BOOLEAN}

\* POSIX, suspended threads, Start called again.
SuspendingWorlds == {World(TRUE, FALSE, TRUE, TRUE, TRUE)}
==============================================================================
