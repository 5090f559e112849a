--------------------------------- MODULE RtLog ---------------------------------
(***************************************************************************)
(* The log of the audio threads (wrac_log/src/rt.rs): a ring of fixed      *)
(* slots, written by any thread without waiting and drained by one worker  *)
(* to the regular log.  A slot is published by its sequence number, which  *)
(* the reader checks before and after it copies the fields.                *)
(*                                                                         *)
(* A field holds the number of the record it was written for.  Steps are   *)
(* sequentially consistent.                                                *)
(***************************************************************************)
EXTENDS Integers, Sequences, FiniteSetsExt

CONSTANTS
  Writers,    (* threads that log                                           *)
  Capacity,   (* RT_LOG_CAPACITY                                            *)
  MaxRecords  (* bound: records                                             *)

ASSUME RtLogAssumption == Capacity \in Nat \ {0} /\ MaxRecords \in Nat

VARIABLES
  nextSequence,  (* next_sequence                                           *)
  drainSequence, (* drain_sequence                                          *)
  dropped,
  slots,         (* [sequence, target, message]                             *)
  writing,       (* where each writer is                                    *)
  record,        (* the sequence each writer has claimed                    *)
  draining,      (* where the worker is                                     *)
  total, cursor, copy,
  logged,        (* what the worker has logged                              *)
  skipped,       (* records it has announced as skipped                     *)
  lapped         (* records written to a slot another writer was still in   *)

ring   == <<nextSequence, drainSequence, dropped, slots>>
writer == <<writing, record>>
drain  == <<draining, total, cursor, copy>>
told   == <<logged, skipped>>
vars   == <<ring, writer, drain, told, lapped>>

Slot(n) == n % Capacity

Init ==
  /\ nextSequence = 0 /\ drainSequence = 0 /\ dropped = 0
  /\ slots = [i \in 0 .. Capacity - 1 |-> [sequence |-> 0, target |-> 0, message |-> 0]]
  /\ writing = [w \in Writers |-> "idle"]
  /\ record = [w \in Writers |-> 0]
  /\ draining = "sleep" /\ total = 0 /\ cursor = 0
  /\ copy = [target |-> 0, message |-> 0]
  /\ logged = <<>> /\ skipped = 0
  /\ lapped = {}

-----------------------------------------------------------------------------
(***************************************************************************)
(* write_fmt and RtLogSlot::write.                                         *)
(***************************************************************************)

Step(w, from, to) ==
  /\ writing[w] = from
  /\ writing' = [writing EXCEPT ![w] = to]

\* Ghost: whoever is in the slot is lapped, and so is the record that laps.
Crowd(n) ==
  LET inside == {record[w] : w \in {u \in Writers :
                   writing[u] # "idle" /\ Slot(record[u]) = Slot(n)}}
  IN  IF inside = {} THEN {} ELSE inside \cup {n}

Claim(w) ==
  /\ nextSequence < MaxRecords
  /\ Step(w, "idle", "count")
  /\ record' = [record EXCEPT ![w] = nextSequence]
  /\ lapped' = lapped \cup Crowd(nextSequence)
  /\ nextSequence' = nextSequence + 1
  /\ UNCHANGED <<drainSequence, dropped, slots, drain, told>>

Count(w) ==
  /\ Step(w, "count", "clear")
  /\ dropped' = IF record[w] - drainSequence >= Capacity THEN dropped + 1 ELSE dropped
  /\ UNCHANGED <<nextSequence, drainSequence, slots, record, drain, told, lapped>>

\* Slip: the old sequence number stays while the fields change.
ClearNothing(w) ==
  /\ Step(w, "clear", "target")
  /\ UNCHANGED <<ring, record, drain, told, lapped>>

Clear(w) ==
  /\ Step(w, "clear", "target")
  /\ slots' = [slots EXCEPT ![Slot(record[w])].sequence = 0]
  /\ UNCHANGED <<nextSequence, drainSequence, dropped, record, drain, told, lapped>>

WriteTarget(w) ==
  /\ Step(w, "target", "message")
  /\ slots' = [slots EXCEPT ![Slot(record[w])].target = record[w]]
  /\ UNCHANGED <<nextSequence, drainSequence, dropped, record, drain, told, lapped>>

WriteMessage(w) ==
  /\ Step(w, "message", "publish")
  /\ slots' = [slots EXCEPT ![Slot(record[w])].message = record[w]]
  /\ UNCHANGED <<nextSequence, drainSequence, dropped, record, drain, told, lapped>>

\* Slip: the number of the record, not the one after it.
PublishOwn(w) ==
  /\ Step(w, "publish", "idle")
  /\ slots' = [slots EXCEPT ![Slot(record[w])].sequence = record[w]]
  /\ UNCHANGED <<nextSequence, drainSequence, dropped, record, drain, told, lapped>>

Publish(w) ==
  /\ Step(w, "publish", "idle")
  /\ slots' = [slots EXCEPT ![Slot(record[w])].sequence = record[w] + 1]
  /\ UNCHANGED <<nextSequence, drainSequence, dropped, record, drain, told, lapped>>

-----------------------------------------------------------------------------
(***************************************************************************)
(* drain_to_log, called by the one worker of init_rt_log_drain_once.       *)
(***************************************************************************)

Published == slots[Slot(cursor)].sequence = cursor + 1

\* What the ring has overwritten is skipped, and announced.
Wake ==
  /\ draining = "sleep"
  /\ total' = nextSequence
  /\ cursor' = Max({drainSequence, nextSequence - Capacity})
  /\ skipped' = skipped + cursor' - drainSequence
  /\ dropped' = 0
  /\ draining' = "check"
  /\ UNCHANGED <<nextSequence, drainSequence, slots, writer, copy, logged, lapped>>

Check ==
  /\ draining = "check"
  /\ draining' = IF cursor < total /\ Published THEN "target" ELSE "store"
  /\ UNCHANGED <<ring, writer, total, cursor, copy, told, lapped>>

ReadTarget ==
  /\ draining = "target"
  /\ copy' = [copy EXCEPT !.target = slots[Slot(cursor)].target]
  /\ draining' = "message"
  /\ UNCHANGED <<ring, writer, total, cursor, told, lapped>>

ReadMessage ==
  /\ draining = "message"
  /\ copy' = [copy EXCEPT !.message = slots[Slot(cursor)].message]
  /\ draining' = "recheck"
  /\ UNCHANGED <<ring, writer, total, cursor, told, lapped>>

Tell ==
  logged' = Append(logged, [sequence |-> cursor, target |-> copy.target,
                            message |-> copy.message])

\* Slip: a record that cannot be read is passed over.
RecheckPassing ==
  /\ draining = "recheck"
  /\ IF Published THEN Tell ELSE UNCHANGED logged
  /\ cursor' = cursor + 1 /\ draining' = "check"
  /\ UNCHANGED <<ring, writer, total, copy, skipped, lapped>>

\* The drain stops at the first record it cannot read.
Recheck ==
  /\ draining = "recheck"
  /\ \/ Published /\ Tell /\ cursor' = cursor + 1 /\ draining' = "check"
     \/ ~ Published /\ draining' = "store" /\ UNCHANGED <<logged, cursor>>
  /\ UNCHANGED <<ring, writer, total, copy, skipped, lapped>>

Store ==
  /\ draining = "store"
  /\ drainSequence' = cursor
  /\ draining' = "sleep"
  /\ UNCHANGED <<nextSequence, dropped, slots, writer, total, cursor, copy, told, lapped>>

-----------------------------------------------------------------------------
Write(w) ==
  Count(w) \/ Clear(w) \/ WriteTarget(w) \/ WriteMessage(w) \/ Publish(w)

Drain == Wake \/ Check \/ ReadTarget \/ ReadMessage \/ Recheck \/ Store

Next == Drain \/ \E w \in Writers : Claim(w) \/ Write(w)

\* A writer finishes its record; the worker wakes at every interval.
Fairness == WF_vars(Drain) /\ \A w \in Writers : WF_vars(Write(w))

Spec == Init /\ [][Next]_vars /\ Fairness

-----------------------------------------------------------------------------

(***************************************************************************)
(* The worker loses nothing silently: what it has gone past it has logged  *)
(* or announced ("[rt] dropped={} skipped={}").                            *)
(***************************************************************************)
NothingLostSilently == draining \in {"sleep", "store"} =>
  Len(logged) + skipped = (IF draining = "store" THEN cursor ELSE drainSequence)

(***************************************************************************)
(* A record is logged as one writer wrote it, however many writers         *)
(* overtake the worker while it reads; unless two writers were in its slot *)
(* at once, the one a whole ring behind the other.                         *)
(***************************************************************************)
IntactUnlessLapped ==
  \A i \in 1 .. Len(logged) :
    LET r == logged[i]
    IN  r.sequence \notin lapped => r.target = r.sequence /\ r.message = r.sequence

(***************************************************************************)
(* Every record is logged or announced as skipped in the end (rt.rs: a     *)
(* record published after this drain "is not skipped forever"), unless     *)
(* some record was lapped: one that publishes late leaves a number the     *)
(* worker waits behind until the ring has gone round.                      *)
(***************************************************************************)
RecordsArrive ==
  \A n \in 1 .. MaxRecords :
    (nextSequence >= n) ~> (drainSequence >= n \/ lapped # {})
=============================================================================
