------------------------------- MODULE Corner -------------------------------
(***************************************************************************)
(* One corner convolver of the engine (struct Branch in                    *)
(* rt/engine/src/lib.rs): the H bank with its streaming partition swap,    *)
(* the ungated epoch voices, the pool their tail buffers come from and the *)
(* parking lot for spent IR sets.                                          *)
(*                                                                         *)
(* Samples and spectra are abstracted to what the bookkeeping depends on.  *)
(* A partition of the H bank is Zero, exactly the newest set's (Cur), or   *)
(* anything else (Old: an earlier set's, or a blend).  A partition set is  *)
(* its length k >= 1.  A gain is the number of times it was halved.  An    *)
(* overlap-add tail is Empty, left by the last frame (Fresh) or by an      *)
(* earlier one (Stale).                                                    *)
(***************************************************************************)
EXTENDS Integers, FiniteSets

CONSTANTS
  MaxParts,       (* Engine::max_parts, partitions in the H bank            *)
  Lengths,        (* lengths of the sets the renderer makes, in partitions  *)
  MaxFade,        (* MAX_FADE, stages of the per-partition write fade       *)
  MaxSteps,       (* upper clamp of the morph parameter, partitions / frame *)
  RingSlots,      (* RING_SLOTS                                             *)
  RetiredSlots,   (* RETIRED_SLOTS                                          *)
  GainFloor,      (* halvings after which a gain is below 1e-4              *)
  Caps,           (* the values the ring parameter takes, after its clamp   *)
  Gates,          (* whether the corner weight may be audible / inaudible   *)
  QueuesPerDrain, (* bound: sets queued between two drains of `retired'     *)
  AgeCap,         (* bound: a live voice's age saturates here               *)
  None, Zero, Cur, Old, Empty, Fresh, Stale

Parts == 0 .. MaxParts - 1
Slots == 0 .. RingSlots - 1
Contents == {Zero, Cur, Old}
Tails == {Empty, Fresh, Stale}

Pending == [setK   : 0 .. MaxParts,   (* 0: no set, fade to silence *)
            cursor : 0 .. MaxParts,
            effK   : 0 .. MaxParts,
            hist   : [0 .. MaxFade -> 0 .. MaxParts]]

LiveVoice == [k : 1 .. MaxParts, age : 0 .. AgeCap, tail : Tails]

RingVoice == [k        : 1 .. MaxParts,
              age      : 1 .. MaxParts,
              epochLen : 0 .. AgeCap,
              halvings : 0 .. GainFloor,
              dying    : BOOLEAN,
              tail     : Tails]

ASSUME CornerAssumption ==
  /\ MaxParts \in Nat \ {0}
  /\ Lengths \subseteq 1 .. MaxParts
  /\ MaxFade \in Nat \ {0}
  /\ MaxSteps \in Nat \ {0}
  /\ RingSlots \in Nat \ {0}
  /\ RetiredSlots \in Nat
  /\ GainFloor \in Nat
  /\ Caps \subseteq 1 .. RingSlots
  /\ Gates \subseteq BOOLEAN
  /\ QueuesPerDrain \in Nat
  /\ AgeCap \in Nat /\ AgeCap >= MaxParts

ASSUME NoneAssumption ==
  /\ None \notin Pending
  /\ None \notin LiveVoice
  /\ None \notin RingVoice

ASSUME DistinctAssumption ==
  /\ Zero # Cur /\ Zero # Old /\ Cur # Old
  /\ Empty # Fresh /\ Empty # Stale /\ Fresh # Stale

VARIABLES
  h,          (* what each partition of the H bank holds                   *)
  activeK,    (* active_k                                                  *)
  pending,    (* the streaming swap in flight, or None                     *)
  live,       (* the live epoch voice, or None                             *)
  ringing,    (* the frozen voices, one per ring slot, or None             *)
  pool,       (* buffers in tail_pool                                      *)
  retired,    (* sets parked in `retired'                                  *)
  dropped,    (* a set was dropped on the audio thread (retired was full)  *)
  skipped,    (* the corner was weight-gated in the last frame             *)
  htail,      (* the H bank's overlap-add tail                             *)
  queued,     (* sets queued since the last drain                          *)
  newest,     (* length of the set last given to the H bank, 0: silence    *)
  freezeCap   (* the cap with which a live voice was last frozen           *)

vars == <<h, activeK, pending, live, ringing, pool, retired, dropped,
          skipped, htail, queued, newest, freezeCap>>

Min2(a, b) == IF a <= b THEN a ELSE b
Max2(a, b) == IF a >= b THEN a ELSE b

Init ==
  /\ h = [p \in Parts |-> Zero]
  /\ activeK = 0
  /\ pending = None
  /\ live = None
  /\ ringing = [i \in Slots |-> None]
  /\ pool = RingSlots + 1
  /\ retired = 0
  /\ dropped = FALSE
  /\ skipped = FALSE
  /\ htail = Empty
  /\ queued = 0
  /\ newest = 0
  /\ freezeCap = RingSlots

-----------------------------------------------------------------------------
(***************************************************************************)
(* Parking spent sets.                                                     *)
(***************************************************************************)

\* The number of sets each holder owns.
LiveSets == IF live = None THEN 0 ELSE 1
PendingSets == IF pending # None /\ pending.setK > 0 THEN 1 ELSE 0
Occupied == {i \in Slots : ringing[i] # None}

\* retire_push, n times: a set that finds every slot taken displaces another
\* one, which is dropped on the spot.
Retire(n) ==
  /\ retired' = Min2(retired + n, RetiredSlots)
  /\ dropped' = (dropped \/ retired + n > RetiredSlots)

-----------------------------------------------------------------------------
(***************************************************************************)
(* Freezing the live voice into a ring slot.                               *)
(***************************************************************************)

\* Slot i is the first free one below the cap.
FirstFree(i) ==
  /\ ringing[i] = None
  /\ \A j \in 0 .. i - 1 : ringing[j] # None

\* Slot i holds the quietest dying voice, the first of them in slot order.
QuietestDying(i, cap) ==
  /\ ringing[i].dying
  /\ \A j \in 0 .. cap - 1 :
       ringing[j].dying =>
         \/ ringing[j].halvings < ringing[i].halvings
         \/ ringing[j].halvings = ringing[i].halvings /\ i <= j

\* Slot i holds the oldest voice, the last of them in slot order.
Oldest(r, S, i) ==
  /\ i \in S
  /\ \A j \in S : r[j].age < r[i].age \/ (r[j].age = r[i].age /\ j <= i)

\* The slot freeze_live puts the voice in: a free one, else that of the
\* quietest dying voice, else that of the oldest.
Victim(i, cap) ==
  /\ i \in 0 .. cap - 1
  /\ \/ FirstFree(i)
     \/ /\ \A j \in 0 .. cap - 1 : ringing[j] # None
        /\ \/ QuietestDying(i, cap)
           \/ /\ \A j \in 0 .. cap - 1 : ~ ringing[j].dying
              /\ Oldest(ringing, 0 .. cap - 1, i)

FreezeInto(cap) ==
  IF live = None THEN {0} ELSE {i \in Slots : Victim(i, cap)}

\* Slip: the frozen voice still reads the frame after its freeze.
FrozenVoiceOverlapping ==
  [k |-> live.k, age |-> 0, epochLen |-> live.age, halvings |-> 0,
   dying |-> FALSE, tail |-> live.tail]

FrozenVoice ==
  [k |-> live.k, age |-> 1, epochLen |-> live.age, halvings |-> 0,
   dying |-> FALSE, tail |-> live.tail]

\* Slip: freezing does not start to fade anyone.
MarkNobody(r, cap) == r

\* With no slot left free, the oldest healthy voice that was not frozen just
\* now starts to fade, so that the next freeze finds a quiet victim.
MarkOldest(r, cap) ==
  LET healthy == {i \in 0 .. cap - 1 : ~ r[i].dying /\ r[i].age > 1}
  IN  IF \E i \in 0 .. cap - 1 : r[i] = None
      THEN r
      ELSE [i \in Slots |-> IF Oldest(r, healthy, i)
                            THEN [r[i] EXCEPT !.dying = TRUE]
                            ELSE r[i]]

\* The ring and the number of evicted voices after freezing into slot i.
Frozen(i, cap) ==
  IF live = None
  THEN ringing
  ELSE MarkOldest([ringing EXCEPT ![i] = FrozenVoice], cap)

\* Slip: the evicted voice is overwritten in place.
EvictedOverwritten(i) == 0

Evicted(i) == IF live # None /\ ringing[i] # None THEN 1 ELSE 0

\* The live voice, if any, is frozen into slot i.
Freeze(i, cap) ==
  /\ ringing' = Frozen(i, cap)
  /\ freezeCap' = IF live = None THEN freezeCap ELSE cap

-----------------------------------------------------------------------------
(***************************************************************************)
(* Handing a rendered set to the corner (queue_partition_set).  A set      *)
(* whose geometry does not match is handed back and changes nothing.       *)
(***************************************************************************)

CountQueued == queued < QueuesPerDrain /\ queued' = queued + 1

\* The swap that blends a set of length k (0: silence) into partitions 0..eff-1.
StartSwap(k, eff) ==
  [setK |-> k, cursor |-> 0, effK |-> eff, hist |-> [s \in 0 .. MaxFade |-> 0]]

\* A newer set takes over: what was the newest set's is now an older one's.
Superseded == [p \in Parts |-> IF h[p] = Zero THEN Zero ELSE Old]

\* Slip: a stream in flight is left alone instead of displaced.
FadeOutLater == IF activeK > 0 /\ pending = None
                THEN StartSwap(0, activeK)
                ELSE pending

\* The H bank gives way to an ungated voice: its stream is displaced and what
\* it holds fades to silence.
FadeOut == IF activeK > 0 THEN StartSwap(0, activeK) ELSE None

QueueUngated(k, cap) ==
  /\ \E i \in FreezeInto(cap) :
       /\ Freeze(i, cap)
       /\ pool' = pool + Evicted(i) - 1
       /\ Retire(PendingSets + Evicted(i))
  /\ pending' = FadeOut
  /\ h' = Superseded
  /\ live' = [k |-> k, age |-> 0, tail |-> Empty]
  /\ newest' = 0
  /\ CountQueued
  /\ UNCHANGED <<activeK, skipped, htail>>

\* Slip: the swap covers the new set only.
StreamInShorter(k) ==
  /\ live' = None
  /\ newest' = k
  /\ activeK' = k
  /\ pending' = StartSwap(k, k)
  /\ h' = Superseded
  /\ UNCHANGED <<skipped, htail>>

\* The gated path: the set streams into the H bank over whatever is there.
StreamIn(k) ==
  /\ live' = None
  /\ newest' = k
  /\ activeK' = Max2(k, activeK)
  /\ pending' = StartSwap(k, Max2(k, activeK))
  /\ h' = Superseded
  /\ UNCHANGED <<skipped, htail>>

QueueGated(k, cap) ==
  /\ \E i \in FreezeInto(cap) :
       /\ Freeze(i, cap)
       /\ pool' = pool + Evicted(i)
       /\ Retire(Evicted(i) + PendingSets)
  /\ StreamIn(k)
  /\ CountQueued

\* Slip: one set per drain.
DrainOne ==
  /\ retired' = Max2(retired - 1, 0)
  /\ queued' = 0
  /\ UNCHANGED <<h, activeK, pending, live, ringing, pool, dropped, skipped,
                 htail, newest, freezeCap>>

\* take_retired until None.
Drain ==
  /\ retired' = 0
  /\ queued' = 0
  /\ UNCHANGED <<h, activeK, pending, live, ringing, pool, dropped, skipped,
                 htail, newest, freezeCap>>

-----------------------------------------------------------------------------
(***************************************************************************)
(* One frame of process_frame, as this corner sees it: the streaming swap  *)
(* advances, the corner sounds or is weight-gated, the voices age and die. *)
(* A frame in which the whole zone is without state leaves it alone.       *)
(***************************************************************************)

\* What partition p becomes when the swap reaches it.
Target(p) == IF p < pending.setK THEN Cur ELSE Zero

\* Slip: no clamp at eff_k.
CursorUnclamped(steps) == pending.cursor + steps

CursorAfter(steps) == Min2(pending.cursor + steps, pending.effK)

\* Slip: the history is not shifted.
HistUnshifted(steps) ==
  [s \in 0 .. MaxFade |-> IF s = 0 THEN CursorAfter(steps) ELSE pending.hist[s]]

HistAfter(steps) ==
  [s \in 0 .. MaxFade |->
     IF s = 0 THEN CursorAfter(steps) ELSE pending.hist[s - 1]]

\* Partition p after the frame: each blend stage st covers the partitions
\* between two past cursor positions and is exact from stage `fade' on.
Blended(p, hist, fade) ==
  LET stages == {st \in 1 .. MaxFade : hist[st] <= p /\ p < hist[st - 1]}
  IN  IF stages = {} THEN h[p]
      ELSE IF h[p] = Target(p) \/ \E st \in stages : st >= fade
      THEN Target(p)
      ELSE Old

SwapDone(hist) == hist[0] >= pending.effK /\ hist[MaxFade] >= pending.effK

\* A swap that ends hands its set, if it has one, to `retired'.
SwapEnds(steps) == pending # None /\ SwapDone(HistAfter(steps))

AdvanceSwap(steps, fade) ==
  IF pending = None
  THEN UNCHANGED <<h, activeK, pending>>
  ELSE LET hist == HistAfter(steps)
       IN  /\ h' = [p \in Parts |-> Blended(p, hist, fade)]
           /\ IF SwapDone(hist)
              THEN activeK' = pending.setK /\ pending' = None
              ELSE /\ pending' = [pending EXCEPT !.cursor = hist[0], !.hist = hist]
                   /\ UNCHANGED activeK

\* Slip: tails are not cleared when the corner is gated.
TailKept(tail, audible, sounding) ==
  IF audible THEN (IF sounding THEN Fresh ELSE Empty)
             ELSE (IF tail = Fresh THEN Stale ELSE tail)

\* The overlap-add tail of a convolver that ran, or not, in this frame.
TailAfter(tail, audible, sounding) ==
  CASE audible -> (IF sounding THEN Fresh ELSE Empty)
    [] ~ audible /\ ~ skipped -> Empty
    [] ~ audible /\ skipped -> (IF tail = Fresh THEN Stale ELSE tail)

\* A frozen voice that has read its last lag, or has faded out.
Dead == {i \in Occupied : \/ ringing[i].age >= ringing[i].k
                          \/ ringing[i].halvings >= GainFloor}

\* Slip: the age is kept within the partitions of the set.
AgedWithin(i, cap, audible) ==
  LET v == ringing[i]
      dying == v.dying \/ i >= cap
  IN  [v EXCEPT !.age = Min2(@ + 1, v.k - 1),
                !.dying = dying,
                !.halvings = IF dying THEN @ + 1 ELSE @,
                !.tail = TailAfter(@, audible, v.epochLen > 0)]

\* A frozen voice reads lags age .. min(k, age + epochLen) - 1.
AgedVoice(i, cap, audible) ==
  LET v == ringing[i]
      dying == v.dying \/ i >= cap
  IN  [v EXCEPT !.age = @ + 1,
                !.dying = dying,
                !.halvings = IF dying THEN @ + 1 ELSE @,
                !.tail = TailAfter(@, audible, v.epochLen > 0)]

AgedRing(cap, audible) ==
  [i \in Slots |-> IF i \notin Occupied \/ i \in Dead
                   THEN None
                   ELSE AgedVoice(i, cap, audible)]

\* Slip: the live voice dies of age like a frozen one.
AgedLiveMortal(audible) ==
  IF live = None \/ live.age >= live.k
  THEN None
  ELSE [live EXCEPT !.age = Min2(@ + 1, AgeCap),
                    !.tail = TailAfter(@, audible, TRUE)]

AgedLive(audible) ==
  IF live = None
  THEN None
  ELSE [live EXCEPT !.age = Min2(@ + 1, AgeCap),
                    !.tail = TailAfter(@, audible, TRUE)]

Frame(steps, fade, cap, audible) ==
  /\ AdvanceSwap(steps, fade)
  /\ ringing' = AgedRing(cap, audible)
  /\ live' = AgedLive(audible)
  /\ pool' = pool + Cardinality(Dead)
  /\ Retire((IF SwapEnds(steps) THEN PendingSets ELSE 0) + Cardinality(Dead))
  /\ skipped' = ~ audible
  /\ htail' = TailAfter(htail, audible, TRUE)
  /\ UNCHANGED <<queued, newest, freezeCap>>

-----------------------------------------------------------------------------
(***************************************************************************)
(* The control path, for owners of the engine that call it between blocks. *)
(***************************************************************************)

\* set_source_ir_at on a corner without H partitions: direct install.
InstallSource(k) ==
  /\ activeK = 0 /\ pending = None
  /\ h' = [p \in Parts |-> IF p < k THEN Cur ELSE h[p]]
  /\ activeK' = k
  /\ newest' = k
  /\ UNCHANGED <<pending, live, ringing, pool, retired, dropped, skipped,
                 htail, queued, freezeCap>>

\* set_source_ir_at otherwise: the gated path with the default parameters,
\* then take_retired until None.
StreamSource(k) ==
  /\ ~ (activeK = 0 /\ pending = None)
  /\ \E i \in FreezeInto(RingSlots) :
       /\ Freeze(i, RingSlots)
       /\ pool' = pool + Evicted(i)
       /\ dropped' = (dropped \/ retired + Evicted(i) + PendingSets > RetiredSlots)
  /\ retired' = 0
  /\ StreamIn(k)
  /\ queued' = 0

\* reset: the swap in flight is finished at once, every voice is retired and
\* every tail is cleared.
Reset ==
  /\ IF pending = None
     THEN UNCHANGED <<h, activeK>>
     ELSE /\ h' = [p \in Parts |-> IF p < pending.effK THEN Target(p) ELSE h[p]]
          /\ activeK' = pending.setK
  /\ pending' = None
  /\ live' = None
  /\ ringing' = [i \in Slots |-> None]
  /\ pool' = pool + LiveSets + Cardinality(Occupied)
  /\ Retire(PendingSets + LiveSets + Cardinality(Occupied))
  /\ skipped' = FALSE
  /\ htail' = Empty
  /\ UNCHANGED <<queued, newest, freezeCap>>

-----------------------------------------------------------------------------

QueueSet == \E k \in Lengths, cap \in Caps :
              QueueUngated(k, cap) \/ QueueGated(k, cap)

NextFrame == \E steps \in 1 .. MaxSteps, fade \in 1 .. MaxFade,
                cap \in Caps, audible \in Gates : Frame(steps, fade, cap, audible)

\* What the plugin's audio thread does.
RtNext == QueueSet \/ NextFrame \/ Drain

\* What an owner of the engine may do besides.
ControlNext ==
  \/ \E k \in Lengths : InstallSource(k) \/ StreamSource(k)
  \/ Reset

Next == RtNext \/ ControlNext

Spec == Init /\ [][Next]_vars

\* The plugin: no control path, and a host that keeps calling process.
PluginSpec == Init /\ [][RtNext]_vars /\ WF_vars(NextFrame)

-----------------------------------------------------------------------------
(***************************************************************************)
(* Properties.                                                             *)
(***************************************************************************)

\* The fields of every variable but the pool's, which follows from counting.
StateOK ==
  /\ h \in [Parts -> Contents]
  /\ activeK \in 0 .. MaxParts
  /\ pending \in Pending \cup {None}
  /\ live \in LiveVoice \cup {None}
  /\ ringing \in [Slots -> RingVoice \cup {None}]
  /\ retired \in 0 .. RetiredSlots
  /\ dropped \in BOOLEAN
  /\ skipped \in BOOLEAN
  /\ htail \in Tails
  /\ queued \in 0 .. QueuesPerDrain
  /\ newest \in 0 .. MaxParts
  /\ freezeCap \in 1 .. RingSlots

\* Every variable has its type; the cursor, its history and every age stay
\* within the bank, and the pool within the buffers Engine::new_sized allots.
TypeOK == StateOK /\ pool \in 0 .. RingSlots + 1

\* Tail buffers are neither lost nor duplicated: one per live voice, one per
\* ringing voice, the rest in the pool.  So queue_partition_set always finds
\* one to pop ("tail pool sized for live+rings").
PoolConserved == pool + LiveSets + Cardinality(Occupied) = RingSlots + 1

\* However morph and fade_frames moved while it streamed and whatever it
\* displaced, a finished swap leaves exactly the set last given to the H bank
\* (or silence), at its own length: no partition below is skipped or half
\* blended, and none beyond keeps an old room ("zero beyond active_k").
SettledExact ==
  pending = None =>
    /\ activeK = newest
    /\ \A p \in Parts : h[p] = IF p < activeK THEN Cur ELSE Zero

\* While an ungated voice is live the H bank is silent or streams out to
\* silence: new input is heard through one IR only ("the H voice, if audible,
\* streams out to silence").
OneListener ==
  live # None => IF pending = None THEN activeK = 0 ELSE pending.setK = 0

\* The set handed over last is still there: live, streaming in or installed.
HasIR == live # None \/ PendingSets = 1 \/ (pending = None /\ activeK > 0)

\* A corner that was given an IR keeps one until the end: no step of any
\* interleaving of queued sets and frames leaves it mute.
NeverMute == [][HasIR => HasIR']_vars

\* The voices split the input exactly: no lag of the shared input ring is
\* heard by two voices.  A frozen voice reads lags age .. age + epochLen - 1,
\* the live voice 0 .. age (module documentation of LayerVoice).
EpochsDisjoint ==
  /\ \A i, j \in Occupied :
       i # j => \/ ringing[i].age + ringing[i].epochLen <= ringing[j].age
                \/ ringing[j].age + ringing[j].epochLen <= ringing[i].age
  /\ live # None => \A i \in Occupied : live.age < ringing[i].age

\* The audio thread never drops a set: `retired' always has a slot left for
\* the sets of every voice and swap that may end before the next drain.
NothingDropped == ~ dropped

OwnedSets == retired + PendingSets + LiveSets + Cardinality(Occupied)

\* No convolver adds the tail of a frame other than the previous one: a
\* corner that comes back from being weight-gated carries no stale remainder,
\* nor does a voice that reuses a pooled buffer.
NoStaleTail ==
  /\ htail # Stale
  /\ live # None => live.tail # Stale
  /\ \A i \in Occupied : ringing[i].tail # Stale

\* The step freezes the live voice into slot i.
FrozeInto(i) == /\ ringing'[i] # ringing[i]
                /\ ringing'[i] # None /\ ringing'[i].age = 1

\* The slots the last freeze could use hold voices of one age: they were
\* frozen in one frame, in which none of them may be marked.
FrozenTogether ==
  \A i, j \in 0 .. freezeCap - 1 : ringing[i].age = ringing[j].age

\* Voice i has been fading in every frame since the youngest was frozen.
FadedSinceFreeze(i) ==
  \E j \in 0 .. freezeCap - 1 : ringing[j].age <= ringing[i].halvings + 1

\* A freeze that must make room removes a voice which has been fading in every
\* frame since the freeze before, however few or many those were: a voice was
\* marked in time, and it is the one taken.  Excepted are a cap that has been
\* changed in between and a ring that one burst of sets has filled (a ring of
\* one voice, which is never marked, is always such a one).
EvictedHasFaded ==
  [][\A i \in Slots :
       /\ ringing[i] # None /\ FrozeInto(i)
       /\ freezeCap' = freezeCap /\ ~ FrozenTogether
       => FadedSinceFreeze(i)]_vars

\* A streaming swap ends, unless sets keep displacing each other for ever.
SwapSettles == []<>(pending = None) \/ []<><<QueueSet>>_vars

\* Frozen voices ring out and give their buffers back, unless sets keep being
\* queued for ever.
VoicesRingOut == []<>(Occupied = {}) \/ []<><<QueueSet>>_vars
=============================================================================
