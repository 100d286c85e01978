----------------------------- MODULE WaveDevice -----------------------------
(***************************************************************************)
(* What c_audio_out and c_audio_in share: a ring of wave headers that is    *)
(* lent to the multimedia system buffer by buffer.  The flag WHDR_DONE of a *)
(* header says whose it is.  The device works through its queue by itself;  *)
(* when it has finished a header it sets WHDR_DONE and then calls           *)
(* ProcessHeader from a thread of its own, two steps.  Data is numbered in  *)
(* the order in which it is written or recorded.                            *)
(***************************************************************************)
EXTENDS Integers, Sequences, FiniteSets

CONSTANTS
  NumHeaders,  \* numAudioBuffers
  BufferSize,  \* audioBufferSizeBytes, counted in units of data
  MaxUnits     \* bound: how many units are written or recorded in all

ASSUME WaveAssumption ==
  NumHeaders \in Nat \ {0} /\ BufferSize \in Nat \ {0} /\ MaxUnits \in Nat

Headers == 0 .. NumHeaders - 1

\* SetLastError: the first error is kept.
FirstError(kept, e) == IF kept = "none" THEN e ELSE kept

\* The units n, n+1, ... of a block of k.
Block(n, k) == [i \in 1 .. k |-> n + i - 1]
Smaller(a, b) == IF a < b THEN a ELSE b

\* The device: how many handles are open (a handle that is forgotten stays open; counted
\* up to MaxHandles), whether it is paused, the headers queued, the callbacks that are to
\* come, and whether it has ever refused a header.
MaxHandles == 2
NoDevice == [open |-> 0, paused |-> FALSE, queue |-> << >>, notices |-> 0, failed |-> FALSE]
==============================================================================
