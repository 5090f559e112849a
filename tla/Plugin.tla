------------------------------- MODULE Plugin -------------------------------
(***************************************************************************)
(* The processor of the plugin whole (audio.rs): the control protocol of   *)
(* Reconcile and the corner convolver its sets are handed to, Corner, in   *)
(* one specification.  What Corner takes from anywhere comes from the      *)
(* worker here: a set arrives when it has been rendered, however late, and *)
(* the debounce spaces the requests, not the answers.                      *)
(*                                                                         *)
(* There is one corner.  Blocks are whole frames of the engine long, and   *)
(* Ungated is switched on for good.                                        *)
(***************************************************************************)
EXTENDS Integers, Sequences, FiniteSets

CONSTANTS
  (* of Reconcile *)
  NumCorners, Banks, Sizes, Tolerance, Debounce, BlockSizes, MaxChanges,
  (* of Corner *)
  MaxParts, Lengths, MaxFade, MaxSteps, RingSlots, RetiredSlots, GainFloor,
  Caps, Gates, QueuesPerDrain, AgeCap, Zero, Cur, Old, Empty, Fresh, Stale,
  (* of both *)
  None,
  QuietHalvings  (* halvings after which a voice is inaudible (54 dB: 9)    *)

VARIABLES
  (* of Reconcile *)
  banks, size, reload, disk, flipped, changes, alive, step, snapSize, synced,
  lastReload, dirtyLoad, loadGen, since, noticed, sent, toWorker, fromWorker,
  work, job, loadedGen, sources, next, installed, landed,
  (* of Corner *)
  h, activeK, pending, live, ringing, pool, retired, dropped, skipped, htail,
  queued, newest, freezeCap,
  due            (* frames the block still has to run                       *)

Protocol == INSTANCE Reconcile
Convolver == INSTANCE Corner

protocol == <<banks, size, reload, disk, flipped, changes, alive, step,
              snapSize, synced, lastReload, dirtyLoad, loadGen, since, noticed,
              sent, toWorker, fromWorker, work, job, loadedGen, sources, next,
              installed, landed>>
convolver == <<h, activeK, pending, live, ringing, pool, retired, dropped,
               skipped, htail, queued, newest, freezeCap>>
vars == <<protocol, convolver, due>>

Init == Protocol!Init /\ Convolver!Init /\ due = 0

-----------------------------------------------------------------------------
(***************************************************************************)
(* One call of process, from the parameters to the frames.                 *)
(***************************************************************************)

\* The frames of a block are run before process returns.
BeginBlock == due = 0 /\ Protocol!BeginBlock /\ UNCHANGED <<convolver, due>>

\* The Sync is sent, or not.
Sync == (Protocol!SendSync \/ Protocol!DeferSync) /\ UNCHANGED <<convolver, due>>

\* A set from the worker goes straight to the engine.
Accept ==
  /\ Protocol!Accept
  /\ \E k \in Lengths, cap \in Caps : Convolver!QueueUngated(k, cap)
  /\ UNCHANGED due

\* Spent sets are drained, then the engine is given the block.
EndBlock(frames) ==
  /\ Protocol!EndBlock(frames)
  /\ Convolver!Drain
  /\ due' = frames

RunFrame ==
  /\ due > 0 /\ due' = due - 1
  /\ Convolver!NextFrame
  /\ UNCHANGED protocol

\* The other threads: hosts and users, and the worker.
Others ==
  /\ Protocol!Environment \/ Protocol!Worker
  /\ UNCHANGED <<convolver, due>>

Process == \/ BeginBlock \/ Sync \/ Accept \/ RunFrame
           \/ \E frames \in BlockSizes : EndBlock(frames)

Next == Process \/ Others

Spec == Init /\ [][Next]_vars

-----------------------------------------------------------------------------

\* Switch as fast as you like, no room is cut while it is heard: a voice gives
\* way only after it has faded for QuietHalvings frames ("the oldest fades out
\* over ~50 ms to make room (never hard-cut)", PARAMS.md, Tails; "a hard
\* removal thus only touches voices that are 54 dB down or more", DSP.md, 9).
NeverHardCut ==
  [][\A i \in Convolver!Slots :
       ringing[i] # None /\ Convolver!FrozeInto(i)
       => ringing[i].halvings >= QuietHalvings]_vars
=============================================================================
