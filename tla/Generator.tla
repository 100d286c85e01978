------------------------------ MODULE Generator ------------------------------
(***************************************************************************)
(* c_aud_generator (DEVS/AUDIO/c_aud_generator.h): a c_thread whose Execute *)
(* writes blocks of sound to an audio output of its own until it is told to *)
(* stop, the time is over or a write fails.  The owner sets Stopped (through*)
(* c_thread) and Paused, which the thread reads without a lock; when and    *)
(* how c_thread starts and waits for the thread is CThread's subject.       *)
(***************************************************************************)
EXTENDS Naturals

VARIABLES
  gen,        \* Stopped, Paused; timed: TimeToGenerate_ms is finite
  genWorker,  \* where the thread is in Generate_internal
  genAfter    \* the blocks written since Stop was called last
genVars == <<gen, genWorker, genAfter>>

\* Bound: the blocks that are counted after a Stop.
MaxAfter == 2

GenInit ==
  /\ gen = [Stopped |-> TRUE, Paused |-> FALSE, timed |-> FALSE]
  /\ genWorker = "none"
  /\ genAfter = 0

GenGo(from, to) == genWorker = from /\ genWorker' = to /\ UNCHANGED gen

------------------------------------------------------------------------------
\* The owner.

StartGen(timed) ==
  /\ genWorker = "none"
  /\ gen' = [Stopped |-> FALSE, Paused |-> FALSE, timed |-> timed]
  /\ genWorker' = "open" /\ genAfter' = 0

StopGen ==
  /\ gen.Stopped = FALSE /\ gen' = [gen EXCEPT !.Stopped = TRUE]
  /\ UNCHANGED <<genWorker, genAfter>>

PauseGen(on) ==
  /\ gen.Paused # on /\ gen' = [gen EXCEPT !.Paused = on]
  /\ UNCHANGED <<genWorker, genAfter>>

------------------------------------------------------------------------------
\* Generate_internal.

\* ChangingFreqToMax, the generator's parameters, the buffer (or no memory for it), Start.
OpenOutput ==
  /\ GenGo("open", "time") \/ GenGo("open", "none")
  /\ UNCHANGED genAfter

LookAtTime ==
  /\ GenGo("time", "stopped") \/ (gen.timed /\ GenGo("time", "close"))
  /\ UNCHANGED genAfter

\* Mutant of LookAtStopped: the pause is looked at first, and a stop only in it.
LookAtStoppedInPause ==
  /\ IF gen.Stopped /\ gen.Paused THEN GenGo("stopped", "close") ELSE GenGo("stopped", "paused")
  /\ UNCHANGED genAfter

LookAtStopped ==
  /\ IF gen.Stopped THEN GenGo("stopped", "close") ELSE GenGo("stopped", "paused")
  /\ UNCHANGED genAfter

\* while(Paused) Sleep(10): Stopped is not looked at.
LookAtPaused ==
  /\ ~gen.Paused /\ GenGo("paused", "write")
  /\ UNCHANGED genAfter

\* GetVals and WriteData, which may fail.
WriteSound ==
  /\ GenGo("write", "time") \/ GenGo("write", "close")
  /\ genAfter' = IF gen.Stopped /\ genAfter < MaxAfter THEN genAfter + 1 ELSE genAfter

\* Stop(TRUE), and the thread is over.
CloseOutput == GenGo("close", "none") /\ UNCHANGED genAfter

------------------------------------------------------------------------------
GenUser == (\E b \in BOOLEAN : StartGen(b) \/ PauseGen(b)) \/ StopGen
GenStep == \/ OpenOutput \/ LookAtTime \/ LookAtStopped \/ LookAtPaused
           \/ WriteSound \/ CloseOutput
GenNext == GenUser \/ GenStep
GenSpec == GenInit /\ [][GenNext]_genVars
GenFairness == WF_genVars(GenStep)
==============================================================================
