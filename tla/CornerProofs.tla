---------------------------- MODULE CornerProofs ----------------------------
(***************************************************************************)
(* Theorems about Corner for every size of the bank, the ring and the      *)
(* retirement slots.                                                       *)
(***************************************************************************)
EXTENDS Corner, FiniteSetTheorems, WellFoundedInduction, TLAPS

LEMMA FreezeIntoSlots ==
  ASSUME NEW cap \in 1 .. RingSlots, NEW i \in FreezeInto(cap)
  PROVE  i \in Slots
BY CornerAssumption DEF FreezeInto, Slots

LEMMA FrozenType ==
  ASSUME StateOK, NEW cap \in 1 .. RingSlots, NEW i \in FreezeInto(cap)
  PROVE  Frozen(i, cap) \in [Slots -> RingVoice \cup {None}]
<1> DEFINE r == [ringing EXCEPT ![i] = FrozenVoice]
<1>1. i \in Slots
  BY FreezeIntoSlots
<1>2. CASE live = None
  BY <1>2 DEF Frozen, StateOK
<1>3. CASE live # None
  <2>1. FrozenVoice \in RingVoice
    BY <1>3, CornerAssumption DEF FrozenVoice, RingVoice, LiveVoice, StateOK
  <2>2. r \in [Slots -> RingVoice \cup {None}]
    BY <2>1 DEF StateOK
  <2>3. ASSUME NEW j \in Slots, \A m \in 0 .. cap - 1 : r[m] # None,
               NEW S \in SUBSET (0 .. cap - 1), Oldest(r, S, j)
        PROVE  [r[j] EXCEPT !.dying = TRUE] \in RingVoice
    <3>1. r[j] \in RingVoice
      BY <2>2, <2>3 DEF Oldest
    <3>2. QED
      BY <3>1 DEF RingVoice
  <2>4. MarkOldest(r, cap) \in [Slots -> RingVoice \cup {None}]
    <3> DEFINE healthy == {m \in 0 .. cap - 1 : ~ r[m].dying /\ r[m].age > 1}
    <3>1. CASE \E m \in 0 .. cap - 1 : r[m] = None
      BY <3>1, <2>2 DEF MarkOldest
    <3>2. CASE \A m \in 0 .. cap - 1 : r[m] # None
      <4>1. \A j \in Slots : Oldest(r, healthy, j) =>
                               [r[j] EXCEPT !.dying = TRUE] \in RingVoice
        BY <3>2, <2>3
      <4>2. MarkOldest(r, cap) =
              [j \in Slots |-> IF Oldest(r, healthy, j)
                               THEN [r[j] EXCEPT !.dying = TRUE] ELSE r[j]]
        BY <3>2 DEF MarkOldest
      <4> HIDE DEF healthy, r
      <4>3. QED
        BY <4>1, <4>2, <2>2
    <3>3. QED
      BY <3>1, <3>2
  <2>5. QED
    BY <2>4, <1>3 DEF Frozen
<1>4. QED
  BY <1>2, <1>3

LEMMA MinMaxType ==
  ASSUME NEW a \in Int, NEW b \in Int
  PROVE  /\ Min2(a, b) \in {a, b} /\ Min2(a, b) <= a /\ Min2(a, b) <= b
         /\ Max2(a, b) \in {a, b} /\ Max2(a, b) >= a /\ Max2(a, b) >= b
BY DEF Min2, Max2

LEMMA RetireType ==
  ASSUME StateOK, NEW n \in Nat, Retire(n)
  PROVE  /\ retired' \in 0 .. RetiredSlots
         /\ dropped' \in BOOLEAN
BY CornerAssumption DEF StateOK, Retire, Min2

LEMMA CountsType ==
  ASSUME StateOK
  PROVE  /\ LiveSets \in {0, 1} /\ PendingSets \in {0, 1}
         /\ \A i : Evicted(i) \in {0, 1}
         /\ Occupied \subseteq Slots /\ Dead \subseteq Occupied
         /\ IsFiniteSet(Slots) /\ Cardinality(Slots) = RingSlots
         /\ IsFiniteSet(Occupied) /\ Cardinality(Occupied) \in 0 .. RingSlots
         /\ IsFiniteSet(Dead) /\ Cardinality(Dead) \in 0 .. Cardinality(Occupied)
<1>1. Occupied \subseteq Slots /\ Dead \subseteq Occupied
  BY DEF Occupied, Dead
<1>2. IsFiniteSet(Slots) /\ Cardinality(Slots) = RingSlots
  BY FS_Interval, CornerAssumption DEF Slots
<1>3. IsFiniteSet(Occupied) /\ Cardinality(Occupied) \in 0 .. RingSlots
  BY <1>1, <1>2, FS_Subset, FS_CardinalityType, CornerAssumption
<1>4. IsFiniteSet(Dead) /\ Cardinality(Dead) \in 0 .. Cardinality(Occupied)
  BY <1>1, <1>3, FS_Subset, FS_CardinalityType
<1>5. QED
  BY <1>1, <1>2, <1>3, <1>4 DEF LiveSets, PendingSets, Evicted

LEMMA StartSwapType ==
  ASSUME NEW k \in 0 .. MaxParts, NEW eff \in 0 .. MaxParts
  PROVE  StartSwap(k, eff) \in Pending
BY CornerAssumption DEF StartSwap, Pending

LEMMA SupersededType ==
  StateOK => Superseded \in [Parts -> Contents]
BY DEF StateOK, Superseded, Contents

LEMMA InitStateOK == Init => StateOK
<1> SUFFICES ASSUME Init PROVE StateOK
  OBVIOUS
<1>1. /\ h \in [Parts -> Contents]
      /\ ringing \in [Slots -> RingVoice \cup {None}]
      /\ pending \in Pending \cup {None}
      /\ live \in LiveVoice \cup {None}
      /\ htail \in Tails
  BY DEF Init, Contents, Tails
<1>2. dropped \in BOOLEAN /\ skipped \in BOOLEAN
  BY DEF Init
<1>3. /\ activeK \in 0 .. MaxParts
      /\ retired \in 0 .. RetiredSlots
      /\ queued \in 0 .. QueuesPerDrain
      /\ newest \in 0 .. MaxParts
      /\ freezeCap \in 1 .. RingSlots
  BY CornerAssumption DEF Init
<1>4. QED
  BY <1>1, <1>2, <1>3 DEF StateOK

LEMMA QueueUngatedStateOK ==
  ASSUME StateOK, NEW k \in Lengths, NEW cap \in Caps, QueueUngated(k, cap)
  PROVE  StateOK'
<1>0. k \in 1 .. MaxParts /\ cap \in 1 .. RingSlots
  BY CornerAssumption
<1>1. h' \in [Parts -> Contents]
  BY SupersededType DEF QueueUngated
<1>2. pending' \in Pending \cup {None}
  BY StartSwapType, CornerAssumption DEF QueueUngated, FadeOut, StateOK
<1>3. live' \in LiveVoice \cup {None}
  BY <1>0, CornerAssumption DEF QueueUngated, LiveVoice, Tails
<1>4. PICK i \in FreezeInto(cap) :
        /\ ringing' = Frozen(i, cap)
        /\ freezeCap' \in {freezeCap, cap}
        /\ Retire(PendingSets + Evicted(i))
  BY DEF QueueUngated, Freeze
<1>5. ringing' \in [Slots -> RingVoice \cup {None}]
  BY <1>0, <1>4, FrozenType
<1>6. PendingSets + Evicted(i) \in Nat
  BY CountsType
<1>7. retired' \in 0 .. RetiredSlots /\ dropped' \in BOOLEAN
  BY <1>4, <1>6, RetireType
<1>8. /\ queued' \in 0 .. QueuesPerDrain
      /\ newest' \in 0 .. MaxParts /\ freezeCap' \in 1 .. RingSlots
  BY <1>0, <1>4, CornerAssumption DEF QueueUngated, CountQueued, StateOK
<1>9. QED
  BY <1>1, <1>2, <1>3, <1>5, <1>7, <1>8 DEF StateOK, QueueUngated

LEMMA StreamInStateOK ==
  ASSUME StateOK, NEW k \in Lengths, StreamIn(k)
  PROVE  /\ h' \in [Parts -> Contents]
         /\ activeK' \in 0 .. MaxParts
         /\ pending' \in Pending \cup {None}
         /\ live' \in LiveVoice \cup {None}
         /\ skipped' \in BOOLEAN
         /\ htail' \in Tails
         /\ newest' \in 0 .. MaxParts
<1>1. Max2(k, activeK) \in 0 .. MaxParts
  BY MinMaxType, CornerAssumption DEF StateOK, Max2
<1>2. StartSwap(k, Max2(k, activeK)) \in Pending
  BY <1>1, StartSwapType, CornerAssumption
<1>3. QED
  BY <1>1, <1>2, SupersededType, CornerAssumption DEF StreamIn, StateOK

LEMMA QueueGatedStateOK ==
  ASSUME StateOK, NEW k \in Lengths, NEW cap \in Caps, QueueGated(k, cap)
  PROVE  StateOK'
<1>0. cap \in 1 .. RingSlots
  BY CornerAssumption
<1>1. StreamIn(k)
  BY DEF QueueGated
<1>2. PICK i \in FreezeInto(cap) :
        /\ ringing' = Frozen(i, cap)
        /\ freezeCap' \in {freezeCap, cap}
        /\ Retire(Evicted(i) + PendingSets)
  BY DEF QueueGated, Freeze
<1>3. ringing' \in [Slots -> RingVoice \cup {None}]
  BY <1>0, <1>2, FrozenType
<1>4. Evicted(i) + PendingSets \in Nat
  BY CountsType
<1>5. retired' \in 0 .. RetiredSlots /\ dropped' \in BOOLEAN
  BY <1>2, <1>4, RetireType
<1>6. queued' \in 0 .. QueuesPerDrain /\ freezeCap' \in 1 .. RingSlots
  BY <1>0, <1>2, CornerAssumption DEF QueueGated, CountQueued, StateOK
<1>7. QED
  BY <1>1, <1>3, <1>5, <1>6, StreamInStateOK DEF StateOK

LEMMA StreamSourceStateOK ==
  ASSUME StateOK, NEW k \in Lengths, StreamSource(k)
  PROVE  StateOK'
<1>0. RingSlots \in 1 .. RingSlots
  BY CornerAssumption
<1>1. StreamIn(k)
  BY DEF StreamSource
<1>2. PICK i \in FreezeInto(RingSlots) :
        /\ ringing' = Frozen(i, RingSlots)
        /\ freezeCap' \in {freezeCap, RingSlots}
        /\ dropped' = (dropped \/ retired + Evicted(i) + PendingSets > RetiredSlots)
  BY DEF StreamSource, Freeze
<1>3. ringing' \in [Slots -> RingVoice \cup {None}]
  BY <1>0, <1>2, FrozenType
<1>4. /\ retired' \in 0 .. RetiredSlots /\ dropped' \in BOOLEAN
      /\ queued' \in 0 .. QueuesPerDrain /\ freezeCap' \in 1 .. RingSlots
  BY <1>0, <1>2, CornerAssumption DEF StreamSource, StateOK
<1>5. QED
  BY <1>1, <1>3, <1>4, StreamInStateOK DEF StateOK

LEMMA DrainStateOK ==
  ASSUME StateOK, Drain
  PROVE  StateOK'
BY CornerAssumption DEF StateOK, Drain

LEMMA InstallSourceStateOK ==
  ASSUME StateOK, NEW k \in Lengths, InstallSource(k)
  PROVE  StateOK'
<1>1. h' \in [Parts -> Contents]
  BY DEF InstallSource, StateOK, Contents
<1>2. activeK' \in 0 .. MaxParts /\ newest' \in 0 .. MaxParts
  BY CornerAssumption DEF InstallSource
<1>3. QED
  BY <1>1, <1>2 DEF InstallSource, StateOK

LEMMA TargetType == \A p : Target(p) \in Contents
BY DEF Target, Contents

LEMMA ResetStateOK ==
  ASSUME StateOK, Reset
  PROVE  StateOK'
<1>1. h' \in [Parts -> Contents]
  BY TargetType DEF Reset, StateOK
<1>2. activeK' \in 0 .. MaxParts
  BY DEF Reset, StateOK, Pending
<1>3. PendingSets + LiveSets + Cardinality(Occupied) \in Nat
  BY CountsType
<1>4. retired' \in 0 .. RetiredSlots /\ dropped' \in BOOLEAN
  BY <1>3, RetireType DEF Reset
<1>5. skipped' \in BOOLEAN
  BY DEF Reset
<1>6. /\ pending' \in Pending \cup {None}
      /\ live' \in LiveVoice \cup {None}
      /\ ringing' \in [Slots -> RingVoice \cup {None}]
      /\ htail' \in Tails
      /\ queued' \in 0 .. QueuesPerDrain
      /\ newest' \in 0 .. MaxParts /\ freezeCap' \in 1 .. RingSlots
  BY DEF Reset, StateOK, Tails
<1>7. QED
  BY <1>1, <1>2, <1>4, <1>5, <1>6 DEF StateOK

LEMMA TailAfterType ==
  ASSUME NEW t \in Tails, NEW a \in BOOLEAN, NEW s \in BOOLEAN, skipped \in BOOLEAN
  PROVE  TailAfter(t, a, s) \in Tails
BY DEF TailAfter, Tails

\* The frame's new history is a history of the same swap.
LEMMA HistType ==
  ASSUME StateOK, pending # None, NEW steps \in 1 .. MaxSteps
  PROVE  /\ HistAfter(steps) \in [0 .. MaxFade -> 0 .. MaxParts]
         /\ HistAfter(steps)[0] = CursorAfter(steps)
         /\ \A s \in 1 .. MaxFade : HistAfter(steps)[s] = pending.hist[s - 1]
         /\ CursorAfter(steps) \in 0 .. MaxParts
         /\ CursorAfter(steps) = IF pending.cursor + steps <= pending.effK
                                 THEN pending.cursor + steps
                                 ELSE pending.effK
<1>1. pending \in Pending
  BY DEF StateOK
<1>2. CursorAfter(steps) = IF pending.cursor + steps <= pending.effK
                           THEN pending.cursor + steps ELSE pending.effK
  BY DEF CursorAfter, Min2
<1>3. CursorAfter(steps) \in 0 .. MaxParts
  BY <1>1, <1>2, CornerAssumption DEF Pending
<1>4. \A s \in 1 .. MaxFade : s - 1 \in 0 .. MaxFade
  BY CornerAssumption
<1>5. HistAfter(steps) \in [0 .. MaxFade -> 0 .. MaxParts]
  BY <1>1, <1>3, <1>4, CornerAssumption DEF HistAfter, Pending
<1>6. QED
  BY <1>2, <1>3, <1>5, CornerAssumption DEF HistAfter

LEMMA BlendedType ==
  ASSUME StateOK, NEW p \in Parts, NEW hist, NEW fade
  PROVE  Blended(p, hist, fade) \in Contents
BY TargetType DEF Blended, StateOK, Contents

LEMMA AdvanceSwapType ==
  ASSUME StateOK, NEW steps \in 1 .. MaxSteps, NEW fade \in 1 .. MaxFade,
         AdvanceSwap(steps, fade)
  PROVE  /\ h' \in [Parts -> Contents]
         /\ activeK' \in 0 .. MaxParts
         /\ pending' \in Pending \cup {None}
<1>1. CASE pending = None
  BY <1>1 DEF AdvanceSwap, StateOK
<1>2. CASE pending # None
  <2> DEFINE hist == HistAfter(steps)
  <2>1. pending \in Pending
    BY <1>2 DEF StateOK
  <2>2. hist \in [0 .. MaxFade -> 0 .. MaxParts] /\ hist[0] \in 0 .. MaxParts
    BY <1>2, HistType, CornerAssumption
  <2> HIDE DEF hist
  <2>3. [pending EXCEPT !.cursor = hist[0], !.hist = hist] \in Pending
    BY <2>1, <2>2 DEF Pending
  <2>4. h' = [p \in Parts |-> Blended(p, hist, fade)]
    BY <1>2 DEF AdvanceSwap, hist
  <2>5. \/ activeK' = pending.setK /\ pending' = None
        \/ /\ pending' = [pending EXCEPT !.cursor = hist[0], !.hist = hist]
           /\ activeK' = activeK
    BY <1>2 DEF AdvanceSwap, hist
  <2>6. activeK' \in 0 .. MaxParts
    BY <2>1, <2>5 DEF StateOK, Pending
  <2>7. QED
    BY <2>3, <2>4, <2>5, <2>6, BlendedType
<1>3. QED
  BY <1>1, <1>2

LEMMA AgedVoiceType ==
  ASSUME StateOK, NEW i \in Occupied, i \notin Dead, NEW cap \in Caps,
         NEW audible \in BOOLEAN
  PROVE  AgedVoice(i, cap, audible) \in RingVoice
<1> DEFINE v == ringing[i]
           dying == v.dying \/ i >= cap
           tail == TailAfter(v.tail, audible, v.epochLen > 0)
<1>1. v \in RingVoice
  BY DEF StateOK, Occupied
<1>2. v.age < v.k /\ v.halvings < GainFloor
  BY <1>1, CornerAssumption DEF Dead, RingVoice
<1>3. tail \in Tails
  <2> DEFINE s == v.epochLen > 0
  <2>1. v.tail \in Tails /\ skipped \in BOOLEAN
    BY <1>1 DEF RingVoice, StateOK
  <2>2. s \in BOOLEAN
    OBVIOUS
  <2> HIDE DEF s, v
  <2>3. TailAfter(v.tail, audible, s) \in Tails
    BY <2>1, <2>2, TailAfterType
  <2>4. QED
    BY <2>3 DEF s
<1>4. dying \in BOOLEAN
  OBVIOUS
<1>5. AgedVoice(i, cap, audible) =
        [v EXCEPT !.age = v.age + 1, !.dying = dying,
                  !.halvings = IF dying THEN v.halvings + 1 ELSE v.halvings,
                  !.tail = tail]
  BY DEF AgedVoice
<1> HIDE DEF v, dying, tail
<1>6. v.age + 1 \in 1 .. MaxParts
  BY <1>1, <1>2, CornerAssumption DEF RingVoice
<1>7. (IF dying THEN v.halvings + 1 ELSE v.halvings) \in 0 .. GainFloor
  BY <1>1, <1>2, CornerAssumption DEF RingVoice
<1>8. QED
  BY <1>1, <1>3, <1>4, <1>5, <1>6, <1>7 DEF RingVoice

LEMMA FrameStateOK ==
  ASSUME StateOK, NEW steps \in 1 .. MaxSteps, NEW fade \in 1 .. MaxFade,
         NEW cap \in Caps, NEW audible \in Gates, Frame(steps, fade, cap, audible)
  PROVE  StateOK'
<1>0. audible \in BOOLEAN
  BY CornerAssumption
<1>1. /\ h' \in [Parts -> Contents]
      /\ activeK' \in 0 .. MaxParts
      /\ pending' \in Pending \cup {None}
  BY AdvanceSwapType DEF Frame
<1>2. ringing' \in [Slots -> RingVoice \cup {None}]
  BY <1>0, AgedVoiceType DEF Frame, AgedRing
<1>3. live' \in LiveVoice \cup {None}
  <2>1. CASE live = None
    BY <2>1 DEF Frame, AgedLive
  <2>2. CASE live # None
    <3>1. live \in LiveVoice
      BY <2>2 DEF StateOK
    <3>2. TailAfter(live.tail, audible, TRUE) \in Tails
      BY <3>1, <1>0, TailAfterType DEF LiveVoice, StateOK
    <3>3. Min2(live.age + 1, AgeCap) \in 0 .. AgeCap
      BY <3>1, CornerAssumption DEF LiveVoice, Min2
    <3>4. live' = [live EXCEPT !.age = Min2(live.age + 1, AgeCap),
                               !.tail = TailAfter(live.tail, audible, TRUE)]
      BY <2>2 DEF Frame, AgedLive
    <3>5. QED
      BY <3>1, <3>2, <3>3, <3>4 DEF LiveVoice
  <2>3. QED
    BY <2>1, <2>2
<1>4. (IF SwapEnds(steps) THEN PendingSets ELSE 0) + Cardinality(Dead) \in Nat
  BY CountsType
<1>5. retired' \in 0 .. RetiredSlots /\ dropped' \in BOOLEAN
  BY <1>4, RetireType DEF Frame
<1>6. skipped' \in BOOLEAN
  BY <1>0 DEF Frame
<1>7. htail' \in Tails
  BY <1>0, TailAfterType DEF Frame, StateOK
<1>8. /\ queued' \in 0 .. QueuesPerDrain
      /\ newest' \in 0 .. MaxParts /\ freezeCap' \in 1 .. RingSlots
  BY CornerAssumption DEF Frame, StateOK, Min2
<1>9. QED
  BY <1>1, <1>2, <1>3, <1>5, <1>6, <1>7, <1>8 DEF StateOK

LEMMA NextStateOK == StateOK /\ [Next]_vars => StateOK'
<1> SUFFICES ASSUME StateOK, [Next]_vars PROVE StateOK'
  OBVIOUS
<1>1. CASE QueueSet
  BY <1>1, QueueUngatedStateOK, QueueGatedStateOK DEF QueueSet
<1>2. CASE NextFrame
  BY <1>2, FrameStateOK DEF NextFrame
<1>3. CASE Drain
  BY <1>3, DrainStateOK
<1>4. CASE ControlNext
  BY <1>4, InstallSourceStateOK, StreamSourceStateOK, ResetStateOK DEF ControlNext
<1>5. CASE UNCHANGED vars
  BY <1>5 DEF vars, StateOK
<1>6. QED
  BY <1>1, <1>2, <1>3, <1>4, <1>5 DEF Next, RtNext

-----------------------------------------------------------------------------
(***************************************************************************)
(* Where the tail buffers and the sets are.  Freezing moves the live voice *)
(* into a slot, and hands back what was there; a frame and a reset empty   *)
(* slots.                                                                  *)
(***************************************************************************)

OccupiedIn(r) == {i \in Slots : r[i] # None}

\* After freezing, slot i is occupied, and no other slot changed hands.
LEMMA FrozenOccupied ==
  ASSUME StateOK, NEW cap \in 1 .. RingSlots, NEW i \in FreezeInto(cap)
  PROVE  OccupiedIn(Frozen(i, cap)) =
           IF live = None THEN Occupied ELSE Occupied \cup {i}
<1> DEFINE r == [ringing EXCEPT ![i] = FrozenVoice]
<1>1. i \in Slots
  BY FreezeIntoSlots
<1>2. CASE live = None
  BY <1>2 DEF Frozen, OccupiedIn, Occupied
<1>3. CASE live # None
  <2>0. FrozenVoice \in RingVoice
    BY <1>3, CornerAssumption DEF FrozenVoice, RingVoice, LiveVoice, StateOK
  <2>1. FrozenVoice \in RingVoice /\ FrozenVoice # None
    BY <2>0, NoneAssumption
  <2>2. r \in [Slots -> RingVoice \cup {None}]
    BY <2>1 DEF StateOK
  <2>3. OccupiedIn(r) = Occupied \cup {i}
    BY <1>1, <2>1 DEF OccupiedIn, Occupied, StateOK
  <2>4. \A j \in Slots : r[j] # None =>
          [r[j] EXCEPT !.dying = TRUE] \in RingVoice
    <3> SUFFICES ASSUME NEW v \in RingVoice
                 PROVE  [v EXCEPT !.dying = TRUE] \in RingVoice
      BY <2>2
    <3>1. QED
      BY DEF RingVoice
  <2>5. Frozen(i, cap) = MarkOldest(r, cap)
    BY <1>3 DEF Frozen
  <2>6. \A j \in Slots : MarkOldest(r, cap)[j] # None <=> r[j] # None
    <3> DEFINE healthy == {m \in 0 .. cap - 1 : ~ r[m].dying /\ r[m].age > 1}
    <3>1. CASE \E m \in 0 .. cap - 1 : r[m] = None
      BY <3>1 DEF MarkOldest
    <3>2. CASE \A m \in 0 .. cap - 1 : r[m] # None
      <4>1. \A j \in Slots : Oldest(r, healthy, j) => r[j] # None
        BY <3>2 DEF Oldest
      <4>2. MarkOldest(r, cap) =
              [j \in Slots |-> IF Oldest(r, healthy, j)
                               THEN [r[j] EXCEPT !.dying = TRUE] ELSE r[j]]
        BY <3>2 DEF MarkOldest
      <4> HIDE DEF healthy, r
      <4>3. QED
        BY <4>1, <4>2, <2>4, NoneAssumption
    <3>3. QED
      BY <3>1, <3>2
  <2>7. QED
    BY <1>3, <2>3, <2>5, <2>6 DEF OccupiedIn
<1>4. QED
  BY <1>2, <1>3

\* Freezing leaves one occupied slot more, unless it evicts; nothing without
\* a live voice.
LEMMA FrozenCount ==
  ASSUME StateOK, NEW cap \in 1 .. RingSlots, NEW i \in FreezeInto(cap)
  PROVE  Cardinality(OccupiedIn(Frozen(i, cap))) =
           Cardinality(Occupied) + LiveSets - Evicted(i)
<1>1. i \in Slots
  BY FreezeIntoSlots
<1>2. IsFiniteSet(Occupied) /\ Cardinality(Occupied) \in Nat
  BY CountsType
<1>3. CASE live = None
  BY <1>2, <1>3, FrozenOccupied DEF LiveSets, Evicted
<1>4. CASE live # None /\ i \in Occupied
  <2>1. Occupied \cup {i} = Occupied
    BY <1>4
  <2>2. QED
    BY <1>2, <1>4, <2>1, FrozenOccupied DEF LiveSets, Evicted, Occupied
<1>5. CASE live # None /\ i \notin Occupied
  <2>1. Cardinality(Occupied \cup {i}) = Cardinality(Occupied) + 1
    BY <1>2, <1>5, FS_AddElement
  <2>2. ringing[i] = None
    BY <1>1, <1>5 DEF Occupied
  <2>3. OccupiedIn(Frozen(i, cap)) = Occupied \cup {i}
    BY <1>5, FrozenOccupied
  <2>4. LiveSets = 1 /\ Evicted(i) = 0
    BY <1>5, <2>2 DEF LiveSets, Evicted
  <2>5. QED
    BY <1>2, <2>1, <2>3, <2>4
<1>6. QED
  BY <1>3, <1>4, <1>5

LEMMA EvictedBound ==
  ASSUME StateOK, NEW i \in Slots
  PROVE  Evicted(i) <= Cardinality(Occupied)
<1>1. CASE i \in Occupied
  <2>1. Occupied # {}
    BY <1>1
  <2>2. Cardinality(Occupied) # 0
    BY <2>1, CountsType, FS_EmptySet
  <2>3. QED
    BY <2>2, CountsType, CornerAssumption
<1>2. CASE i \notin Occupied
  <2>1. Evicted(i) = 0
    BY <1>2 DEF Evicted, Occupied
  <2>2. QED
    BY <2>1, CountsType
<1>3. QED
  BY <1>1, <1>2

\* A frame empties exactly the slots of the dead.
LEMMA AgedCount ==
  ASSUME StateOK, NEW cap \in Caps, NEW audible \in BOOLEAN
  PROVE  Cardinality(OccupiedIn(AgedRing(cap, audible))) =
           Cardinality(Occupied) - Cardinality(Dead)
<1>1. \A i \in Occupied \ Dead : AgedVoice(i, cap, audible) # None
  BY AgedVoiceType, NoneAssumption
<1>2. OccupiedIn(AgedRing(cap, audible)) = Occupied \ Dead
  BY <1>1 DEF OccupiedIn, AgedRing, Occupied
<1>3. Occupied \cap Dead = Dead
  BY CountsType
<1>4. Cardinality(Occupied \ Dead) =
        Cardinality(Occupied) - Cardinality(Occupied \cap Dead)
  BY CountsType, FS_Difference
<1>5. QED
  BY <1>2, <1>3, <1>4

\* The counts before and after each step that moves a set or a buffer.
LEMMA QueueUngatedCounts ==
  ASSUME StateOK, NEW k \in Lengths, NEW cap \in Caps, QueueUngated(k, cap)
  PROVE  \E e \in 0 .. Cardinality(Occupied) :
           /\ Retire(PendingSets + e)
           /\ pool' = pool + e - 1
           /\ LiveSets' = 1 /\ PendingSets' = 0
           /\ Cardinality(Occupied') = Cardinality(Occupied) + LiveSets - e
<1>1. PICK i \in FreezeInto(cap) :
        /\ ringing' = Frozen(i, cap)
        /\ pool' = pool + Evicted(i) - 1
        /\ Retire(PendingSets + Evicted(i))
  BY DEF QueueUngated, Freeze
<1>2. i \in Slots /\ cap \in 1 .. RingSlots
  BY FreezeIntoSlots, CornerAssumption
<1>3. live' # None
  <2>1. [k |-> k, age |-> 0, tail |-> Empty] \in LiveVoice
    BY CornerAssumption DEF LiveVoice, Tails
  <2>2. QED
    BY <2>1, NoneAssumption DEF QueueUngated
<1>4. LiveSets' = 1
  BY <1>3 DEF LiveSets
<1>5. PendingSets' = 0
  <2>1. pending' = FadeOut
    BY DEF QueueUngated
  <2>2. pending' = None \/ pending'.setK = 0
    BY <2>1 DEF FadeOut, StartSwap
  <2>3. QED
    BY <2>2 DEF PendingSets
<1>6. Cardinality(Occupied') = Cardinality(Occupied) + LiveSets - Evicted(i)
  <2>1. Occupied' = OccupiedIn(Frozen(i, cap))
    BY <1>1 DEF Occupied, OccupiedIn
  <2>2. QED
    BY <1>2, <2>1, FrozenCount
<1>7. Evicted(i) \in 0 .. Cardinality(Occupied)
  BY <1>2, EvictedBound, CountsType
<1>8. QED
  BY <1>1, <1>4, <1>5, <1>6, <1>7

LEMMA StreamInCounts ==
  ASSUME StateOK, NEW k \in Lengths, StreamIn(k),
         NEW cap \in 1 .. RingSlots, NEW i \in FreezeInto(cap),
         ringing' = Frozen(i, cap)
  PROVE  /\ LiveSets' = 0 /\ PendingSets' = 1
         /\ Evicted(i) \in 0 .. Cardinality(Occupied)
         /\ Cardinality(Occupied') = Cardinality(Occupied) + LiveSets - Evicted(i)
<1>1. LiveSets' = 0
  BY DEF StreamIn, LiveSets
<1>2. PendingSets' = 1
  <2>1. Max2(k, activeK) \in 0 .. MaxParts /\ k \in 1 .. MaxParts
    BY CornerAssumption DEF StateOK, Max2
  <2>2. StartSwap(k, Max2(k, activeK)) # None
    BY <2>1, StartSwapType, NoneAssumption
  <2>3. pending' # None /\ pending'.setK = k
    BY <2>2 DEF StreamIn, StartSwap
  <2>4. QED
    BY <2>1, <2>3 DEF PendingSets
<1>3. Occupied' = OccupiedIn(Frozen(i, cap))
  BY DEF Occupied, OccupiedIn
<1>4. Cardinality(Occupied') = Cardinality(Occupied) + LiveSets - Evicted(i)
  BY <1>3, FrozenCount
<1>5. Evicted(i) \in 0 .. Cardinality(Occupied)
  BY FreezeIntoSlots, EvictedBound, CountsType
<1>6. QED
  BY <1>1, <1>2, <1>4, <1>5

LEMMA FrameCounts ==
  ASSUME StateOK, NEW steps \in 1 .. MaxSteps, NEW fade \in 1 .. MaxFade,
         NEW cap \in Caps, NEW audible \in Gates, Frame(steps, fade, cap, audible)
  PROVE  /\ LiveSets' = LiveSets
         /\ PendingSets' = IF SwapEnds(steps) THEN 0 ELSE PendingSets
         /\ Cardinality(Occupied') = Cardinality(Occupied) - Cardinality(Dead)
<1>1. LiveSets' = LiveSets
  <2>1. CASE live = None
    BY <2>1 DEF Frame, AgedLive, LiveSets
  <2>2. CASE live # None
    <3>1. StateOK'
      BY FrameStateOK
    <3>2. live' = [live EXCEPT !.age = Min2(live.age + 1, AgeCap),
                               !.tail = TailAfter(live.tail, audible, TRUE)]
      BY <2>2 DEF Frame, AgedLive
    <3>3. live \in LiveVoice
      BY <2>2 DEF StateOK
    <3>4. live' # None
      <4>1. TailAfter(live.tail, audible, TRUE) \in Tails
        BY <3>3, CornerAssumption, TailAfterType DEF LiveVoice, StateOK
      <4>2. Min2(live.age + 1, AgeCap) \in 0 .. AgeCap
        BY <3>3, CornerAssumption DEF LiveVoice, Min2
      <4>3. live' \in LiveVoice
        BY <3>2, <3>3, <4>1, <4>2 DEF LiveVoice
      <4>4. QED
        BY <4>3, NoneAssumption
    <3>5. QED
      BY <2>2, <3>4 DEF LiveSets
  <2>3. QED
    BY <2>1, <2>2
<1>2. PendingSets' = IF SwapEnds(steps) THEN 0 ELSE PendingSets
  <2>1. CASE pending = None
    BY <2>1 DEF Frame, AdvanceSwap, PendingSets, SwapEnds
  <2>2. CASE pending # None /\ SwapEnds(steps)
    BY <2>2 DEF Frame, AdvanceSwap, PendingSets, SwapEnds
  <2>3. CASE pending # None /\ ~ SwapEnds(steps)
    <3> DEFINE hist == HistAfter(steps)
    <3>1. hist \in [0 .. MaxFade -> 0 .. MaxParts] /\ hist[0] \in 0 .. MaxParts
      BY <2>3, HistType, CornerAssumption
    <3>2. pending' = [pending EXCEPT !.cursor = hist[0], !.hist = hist]
      BY <2>3 DEF Frame, AdvanceSwap, SwapEnds
    <3>3. pending \in Pending
      BY <2>3 DEF StateOK
    <3> HIDE DEF hist
    <3>4. pending' \in Pending /\ pending'.setK = pending.setK
      BY <3>1, <3>2, <3>3 DEF Pending
    <3>5. pending' # None
      BY <3>4, NoneAssumption
    <3>6. QED
      BY <2>3, <3>4, <3>5 DEF PendingSets
  <2>4. QED
    BY <2>1, <2>2, <2>3
<1>3. Cardinality(Occupied') = Cardinality(Occupied) - Cardinality(Dead)
  <2>1. Occupied' = OccupiedIn(AgedRing(cap, audible))
    BY DEF Frame, Occupied, OccupiedIn
  <2>2. audible \in BOOLEAN
    BY CornerAssumption
  <2>3. QED
    BY <2>1, <2>2, AgedCount
<1>4. QED
  BY <1>1, <1>2, <1>3

LEMMA ResetCounts ==
  ASSUME Reset
  PROVE  LiveSets' = 0 /\ PendingSets' = 0 /\ Cardinality(Occupied') = 0
<1>1. Occupied' = {}
  BY DEF Reset, Occupied
<1>2. QED
  BY <1>1, FS_EmptySet DEF Reset, LiveSets, PendingSets

-----------------------------------------------------------------------------
(***************************************************************************)
(* Tail buffers.                                                           *)
(***************************************************************************)

PoolInv == TypeOK /\ PoolConserved

LEMMA PoolInit == Init => PoolInv
<1> SUFFICES ASSUME Init PROVE PoolInv
  OBVIOUS
<1>1. StateOK
  BY InitStateOK
<1>2. Occupied = {}
  BY DEF Init, Occupied
<1>3. LiveSets = 0 /\ Cardinality(Occupied) = 0
  BY <1>2, FS_EmptySet DEF Init, LiveSets
<1>4. pool = RingSlots + 1
  BY DEF Init
<1>5. QED
  BY <1>1, <1>3, <1>4, CornerAssumption DEF PoolInv, TypeOK, PoolConserved

\* Every step hands over as many buffers as it frees.
LEMMA PoolStep == PoolInv /\ [Next]_vars => PoolInv'
<1> SUFFICES ASSUME PoolInv, [Next]_vars PROVE PoolInv'
  OBVIOUS
<1>1. StateOK /\ StateOK' /\ pool \in Int
  BY NextStateOK DEF PoolInv, TypeOK
<1>2. pool + LiveSets + Cardinality(Occupied) = RingSlots + 1
  BY DEF PoolInv, PoolConserved
<1>3. /\ LiveSets \in {0, 1} /\ Cardinality(Occupied) \in Nat
      /\ Cardinality(Dead) \in Nat /\ RingSlots \in Nat
      /\ \A i : Evicted(i) \in {0, 1}
  BY <1>1, CountsType, CornerAssumption
<1> DEFINE occ == Cardinality(Occupied)
           occ1 == Cardinality(Occupied')
           Balanced == pool' \in Int /\ pool' + LiveSets' + occ1 = RingSlots + 1
<1>4. ASSUME NEW k \in Lengths, NEW cap \in Caps, QueueUngated(k, cap)
      PROVE  Balanced
  <2>1. PICK e \in 0 .. occ : /\ pool' = pool + e - 1
                              /\ LiveSets' = 1
                              /\ occ1 = occ + LiveSets - e
    BY <1>1, <1>4, QueueUngatedCounts
  <2> HIDE DEF occ, occ1
  <2>2. QED
    BY <1>1, <1>2, <1>3, <2>1 DEF occ
<1>5. ASSUME NEW k \in Lengths, NEW cap \in 1 .. RingSlots, StreamIn(k),
             NEW i \in FreezeInto(cap), ringing' = Frozen(i, cap),
             pool' = pool + Evicted(i)
      PROVE  Balanced
  <2>1. LiveSets' = 0 /\ occ1 = occ + LiveSets - Evicted(i)
    BY <1>1, <1>5, StreamInCounts
  <2> HIDE DEF occ, occ1
  <2>2. QED
    BY <1>1, <1>2, <1>3, <1>5, <2>1 DEF occ
<1>6. ASSUME NEW k \in Lengths, NEW cap \in Caps, QueueGated(k, cap)
      PROVE  Balanced
  BY <1>5, <1>6, CornerAssumption DEF QueueGated, Freeze
<1>7. ASSUME NEW k \in Lengths, StreamSource(k)
      PROVE  Balanced
  <2>1. RingSlots \in 1 .. RingSlots
    BY CornerAssumption
  <2>2. QED
    BY <1>5, <1>7, <2>1 DEF StreamSource, Freeze
<1>8. ASSUME NextFrame PROVE Balanced
  <2>1. PICK steps \in 1 .. MaxSteps, fade \in 1 .. MaxFade, cap \in Caps,
             audible \in Gates : Frame(steps, fade, cap, audible)
    BY <1>8 DEF NextFrame
  <2>2. LiveSets' = LiveSets /\ occ1 = occ - Cardinality(Dead)
    BY <1>1, <2>1, FrameCounts
  <2>3. pool' = pool + Cardinality(Dead)
    BY <2>1 DEF Frame
  <2> HIDE DEF occ, occ1
  <2>4. Balanced
    BY <1>1, <1>2, <1>3, <2>2, <2>3 DEF occ
  <2>5. QED
    BY <2>4
<1>9. ASSUME Reset PROVE Balanced
  <2>1. LiveSets' = 0 /\ occ1 = 0
    BY <1>9, ResetCounts
  <2>2. pool' = pool + LiveSets + occ
    BY <1>9 DEF Reset
  <2> HIDE DEF occ, occ1
  <2>3. QED
    BY <1>1, <1>2, <1>3, <2>1, <2>2 DEF occ
<1>10. ASSUME UNCHANGED <<live, ringing, pool>> PROVE Balanced
  <2>1. Occupied' = Occupied /\ LiveSets' = LiveSets
    BY <1>10 DEF Occupied, LiveSets
  <2>2. QED
    BY <1>1, <1>2, <1>10, <2>1
<1>11. Balanced
  BY <1>4, <1>6, <1>7, <1>8, <1>9, <1>10
  DEF Next, RtNext, ControlNext, QueueSet, NextFrame, Drain, InstallSource, vars
<1>12. Occupied' \subseteq Slots /\ LiveSets' \in {0, 1}
  BY DEF Occupied, LiveSets
<1>13. occ1 \in 0 .. RingSlots
  BY <1>1, <1>12, CountsType, FS_Subset, FS_CardinalityType, CornerAssumption
<1>14. pool' \in 0 .. RingSlots + 1
  <2>1. ASSUME NEW p \in Int, NEW l \in {0, 1}, NEW o \in 0 .. RingSlots,
               p + l + o = RingSlots + 1
        PROVE  p \in 0 .. RingSlots + 1
    BY <2>1, CornerAssumption
  <2>2. QED
    BY <2>1, <1>11, <1>12, <1>13
<1>15. QED
  BY <1>1, <1>11, <1>14 DEF PoolInv, TypeOK, PoolConserved, occ1

\* Every variable keeps its type under the engine's whole interface, control
\* path included: no cursor or history entry leaves the bank, no age its
\* voice, and tail_pool holds between none and all of its buffers.
THEOREM TypeCorrect == Spec => []TypeOK
<1>1. PoolInv => TypeOK
  BY DEF PoolInv
<1>2. QED
  BY <1>1, PoolInit, PoolStep, PTL DEF Spec

\* Tail buffers are conserved, for every ring size: queue_partition_set never
\* finds tail_pool empty and no buffer is owned twice.
THEOREM PoolConservation == Spec => []PoolConserved
<1>1. PoolInv => PoolConserved
  BY DEF PoolInv
<1>2. QED
  BY <1>1, PoolInit, PoolStep, PTL DEF Spec

-----------------------------------------------------------------------------
(***************************************************************************)
(* Spent sets.  Between two drains `retired' takes at most what the corner *)
(* held at the last drain and what was queued since: a slot per ring slot, *)
(* one for the live or streaming set (never both) and one per queued set.  *)
(***************************************************************************)

DropInv ==
  /\ StateOK
  /\ ~ dropped
  /\ LiveSets + PendingSets <= 1
  /\ OwnedSets <= RingSlots + 1 + queued

LEMMA DropInit == Init => DropInv
<1> SUFFICES ASSUME Init PROVE DropInv
  OBVIOUS
<1>1. StateOK
  BY InitStateOK
<1>2. Occupied = {}
  BY DEF Init, Occupied
<1>3. LiveSets = 0 /\ PendingSets = 0 /\ Cardinality(Occupied) = 0
  BY <1>2, FS_EmptySet DEF Init, LiveSets, PendingSets
<1>4. ~ dropped
  BY DEF Init
<1>5. retired = 0 /\ queued = 0
  BY DEF Init
<1>6. QED
  BY <1>1, <1>3, <1>4, <1>5, CornerAssumption DEF DropInv, OwnedSets

\* Parking n sets that fit drops none.
LEMMA RetireFits ==
  ASSUME StateOK, ~ dropped, NEW n \in Nat, retired + n <= RetiredSlots, Retire(n)
  PROVE  retired' = retired + n /\ ~ dropped'
<1>1. retired \in Nat /\ RetiredSlots \in Nat
  BY CornerAssumption DEF StateOK
<1>2. retired' = retired + n
  BY <1>1 DEF Retire, Min2
<1>3. ~ (retired + n > RetiredSlots)
  BY <1>1
<1>4. QED
  BY <1>2, <1>3 DEF Retire

LEMMA DropStep ==
  ASSUME RetiredSlots >= RingSlots + 1 + QueuesPerDrain
  PROVE  DropInv /\ [Next]_vars => DropInv'
<1> SUFFICES ASSUME DropInv, [Next]_vars PROVE DropInv'
  OBVIOUS
<1> DEFINE occ == Cardinality(Occupied)
           occ1 == Cardinality(Occupied')
           Fine == /\ ~ dropped'
                   /\ LiveSets' + PendingSets' <= 1
                   /\ retired' + PendingSets' + LiveSets' + occ1
                        <= RingSlots + 1 + queued'
<1>1. StateOK /\ StateOK' /\ ~ dropped
  BY NextStateOK DEF DropInv
<1>2. /\ LiveSets + PendingSets <= 1
      /\ retired + PendingSets + LiveSets + occ <= RingSlots + 1 + queued
  BY DEF DropInv, OwnedSets
<1>3. /\ LiveSets \in {0, 1} /\ PendingSets \in {0, 1} /\ occ \in 0 .. RingSlots
      /\ Cardinality(Dead) \in 0 .. occ
      /\ \A i : Evicted(i) \in {0, 1}
      /\ retired \in Nat /\ queued \in 0 .. QueuesPerDrain
      /\ RingSlots \in Nat /\ RetiredSlots \in Nat /\ QueuesPerDrain \in Nat
  BY <1>1, CountsType, CornerAssumption DEF StateOK
<1>4. occ1 \in 0 .. RingSlots
  <2>1. Occupied' \subseteq Slots
    BY DEF Occupied
  <2>2. QED
    BY <1>1, <2>1, CountsType, FS_Subset, FS_CardinalityType, CornerAssumption
<1>5. ASSUME NEW k \in Lengths, NEW cap \in Caps, QueueUngated(k, cap)
      PROVE  Fine
  <2>1. PICK e \in 0 .. occ : /\ Retire(PendingSets + e)
                              /\ LiveSets' = 1 /\ PendingSets' = 0
                              /\ occ1 = occ + LiveSets - e
    BY <1>1, <1>5, QueueUngatedCounts
  <2>2. queued' = queued + 1
    BY <1>5 DEF QueueUngated, CountQueued
  <2> HIDE DEF occ, occ1
  <2>3. PendingSets + e \in Nat /\ retired + (PendingSets + e) <= RetiredSlots
    BY <1>2, <1>3, <2>1
  <2>4. retired' = retired + (PendingSets + e) /\ ~ dropped'
    BY <1>1, <2>1, <2>3, RetireFits
  <2>5. /\ LiveSets' + PendingSets' <= 1
        /\ retired' + PendingSets' + LiveSets' + occ1 <= RingSlots + 1 + queued'
    BY <1>2, <1>3, <2>1, <2>2, <2>4
  <2>6. QED
    BY <2>4, <2>5
<1>6. ASSUME NEW k \in Lengths, NEW cap \in Caps, QueueGated(k, cap)
      PROVE  Fine
  <2>1. PICK i \in FreezeInto(cap) : /\ ringing' = Frozen(i, cap)
                                     /\ Retire(Evicted(i) + PendingSets)
    BY <1>6 DEF QueueGated, Freeze
  <2>2. /\ LiveSets' = 0 /\ PendingSets' = 1
        /\ Evicted(i) \in 0 .. occ
        /\ occ1 = occ + LiveSets - Evicted(i)
    BY <1>1, <1>6, <2>1, StreamInCounts, CornerAssumption DEF QueueGated
  <2>3. queued' = queued + 1
    BY <1>6 DEF QueueGated, CountQueued
  <2> DEFINE e == Evicted(i)
  <2> HIDE DEF occ, occ1, e
  <2>4. e + PendingSets \in Nat /\ retired + (e + PendingSets) <= RetiredSlots
    BY <1>2, <1>3, <2>2 DEF e
  <2>5. retired' = retired + (e + PendingSets) /\ ~ dropped'
    BY <1>1, <2>1, <2>4, RetireFits DEF e
  <2>6. /\ LiveSets' + PendingSets' <= 1
        /\ retired' + PendingSets' + LiveSets' + occ1 <= RingSlots + 1 + queued'
    BY <1>2, <1>3, <2>2, <2>3, <2>5 DEF e
  <2>7. QED
    BY <2>5, <2>6
<1>7. ASSUME NEW k \in Lengths, StreamSource(k)
      PROVE  Fine
  <2>1. PICK i \in FreezeInto(RingSlots) :
          /\ ringing' = Frozen(i, RingSlots)
          /\ dropped' = (dropped \/ retired + Evicted(i) + PendingSets > RetiredSlots)
    BY <1>7 DEF StreamSource, Freeze
  <2>2. /\ LiveSets' = 0 /\ PendingSets' = 1
        /\ Evicted(i) \in 0 .. occ
    BY <1>1, <1>7, <2>1, StreamInCounts, CornerAssumption DEF StreamSource
  <2>3. retired' = 0 /\ queued' = 0
    BY <1>7 DEF StreamSource
  <2> HIDE DEF occ, occ1
  <2>4. ~ (retired + Evicted(i) + PendingSets > RetiredSlots)
    BY <1>2, <1>3, <2>2
  <2>5. ~ dropped'
    BY <1>1, <2>1, <2>4
  <2>6. /\ LiveSets' + PendingSets' <= 1
        /\ retired' + PendingSets' + LiveSets' + occ1 <= RingSlots + 1 + queued'
    BY <1>3, <1>4, <2>2, <2>3
  <2>7. QED
    BY <2>5, <2>6
<1>8. ASSUME NextFrame PROVE Fine
  <2>1. PICK steps \in 1 .. MaxSteps, fade \in 1 .. MaxFade, cap \in Caps,
             audible \in Gates : Frame(steps, fade, cap, audible)
    BY <1>8 DEF NextFrame
  <2> DEFINE ended == IF SwapEnds(steps) THEN PendingSets ELSE 0
             dead == Cardinality(Dead)
  <2>2. /\ LiveSets' = LiveSets
        /\ PendingSets' = IF SwapEnds(steps) THEN 0 ELSE PendingSets
        /\ occ1 = occ - dead
    BY <1>1, <2>1, FrameCounts
  <2>3. Retire(ended + dead) /\ queued' = queued
    BY <2>1 DEF Frame
  <2>4. /\ ended \in {0, 1} /\ ended <= PendingSets
        /\ PendingSets' \in {0, 1} /\ PendingSets' = PendingSets - ended
    BY <1>3, <2>2
  <2>5. dead \in 0 .. occ
    BY <1>3
  <2> HIDE DEF occ, occ1, ended, dead
  <2>6. ended + dead \in Nat /\ retired + (ended + dead) <= RetiredSlots
    BY <1>2, <1>3, <2>4, <2>5
  <2>7. retired' = retired + (ended + dead) /\ ~ dropped'
    BY <1>1, <2>3, <2>6, RetireFits
  <2>8. LiveSets' + PendingSets' <= 1
    BY <1>2, <1>3, <2>2, <2>4
  <2>9. retired' + PendingSets' + LiveSets' + occ1 <= RingSlots + 1 + queued'
    BY <1>2, <1>3, <2>2, <2>3, <2>4, <2>5, <2>7
  <2>10. QED
    BY <2>7, <2>8, <2>9
<1>9. ASSUME Reset PROVE Fine
  <2>1. LiveSets' = 0 /\ PendingSets' = 0 /\ occ1 = 0
    BY <1>9, ResetCounts
  <2>2. Retire(PendingSets + LiveSets + occ) /\ queued' = queued
    BY <1>9 DEF Reset
  <2> HIDE DEF occ, occ1
  <2>3. /\ PendingSets + LiveSets + occ \in Nat
        /\ retired + (PendingSets + LiveSets + occ) <= RetiredSlots
    BY <1>2, <1>3
  <2>4. retired' = retired + (PendingSets + LiveSets + occ) /\ ~ dropped'
    BY <1>1, <2>2, <2>3, RetireFits
  <2>5. /\ LiveSets' + PendingSets' <= 1
        /\ retired' + PendingSets' + LiveSets' + occ1 <= RingSlots + 1 + queued'
    BY <1>2, <1>3, <2>1, <2>2, <2>4
  <2>6. QED
    BY <2>4, <2>5
<1>10. ASSUME UNCHANGED <<pending, live, ringing, dropped>>,
              \/ UNCHANGED <<retired, queued>>
              \/ retired' = 0 /\ queued' = 0
       PROVE  Fine
  <2>1. Occupied' = Occupied /\ LiveSets' = LiveSets /\ PendingSets' = PendingSets
    BY <1>10 DEF Occupied, LiveSets, PendingSets
  <2>2. ~ dropped'
    BY <1>1, <1>10
  <2>3. occ1 = occ
    BY <2>1
  <2> HIDE DEF occ, occ1
  <2>4. /\ LiveSets' + PendingSets' <= 1
        /\ retired' + PendingSets' + LiveSets' + occ1 <= RingSlots + 1 + queued'
    BY <1>2, <1>3, <1>10, <2>1, <2>3
  <2>5. QED
    BY <2>2, <2>4
<1>11. Fine
  <2>1. CASE QueueSet
    BY <1>5, <1>6, <2>1 DEF QueueSet
  <2>2. CASE Drain
    BY <1>10, <2>2 DEF Drain
  <2>3. CASE ControlNext
    BY <1>7, <1>9, <1>10, <2>3 DEF ControlNext, InstallSource
  <2>4. CASE UNCHANGED vars
    BY <1>10, <2>4 DEF vars
  <2>5. QED
    BY <1>8, <2>1, <2>2, <2>3, <2>4 DEF Next, RtNext
<1>12. QED
  BY <1>1, <1>11 DEF DropInv, OwnedSets

\* Whatever the owner of the engine does between two drains, the audio thread
\* drops no set, provided that `retired' has a slot per ring slot, one for the
\* live or streaming set and one per set queued since.  RETIRED_SLOTS = 12 is
\* exactly RING_SLOTS + 1 + 3.
THEOREM NeverDropped ==
  ASSUME RetiredSlots >= RingSlots + 1 + QueuesPerDrain
  PROVE  Spec => []NothingDropped
<1>1. DropInv => NothingDropped
  BY DEF DropInv, NothingDropped
<1>2. DropInv /\ [Next]_vars => DropInv'
  BY DropStep
<1>3. QED
  BY <1>1, <1>2, DropInit, PTL DEF Spec

-----------------------------------------------------------------------------
(***************************************************************************)
(* What a corner sounds: the H bank after a streaming swap, who hears new  *)
(* input, which lags the voices read, the overlap-add tails and the        *)
(* evictions.                                                              *)
(***************************************************************************)

\* StateOK is part of the type invariant.
LEMMA StateInvariance == Spec => []StateOK
<1>1. Spec => []TypeOK
  BY TypeCorrect
<1>2. TypeOK => StateOK
  BY DEF TypeOK
<1>3. QED
  BY <1>1, <1>2, PTL

-----------------------------------------------------------------------------
(***************************************************************************)
(* The streaming swap.                                                     *)
(***************************************************************************)

\* The past cursors descend, within what the swap covers; the partitions that
\* all stages but the last have passed are the new set's, for the last stage
\* is exact at every fade.
Streaming ==
  /\ pending.setK <= pending.effK
  /\ pending.cursor = pending.hist[0]
  /\ pending.hist[0] <= pending.effK
  /\ \A s, t \in 0 .. MaxFade : s <= t => pending.hist[t] <= pending.hist[s]
  /\ \A p \in Parts : p < pending.hist[MaxFade - 1] => h[p] = Target(p)

\* The swap in flight brings the newest set, over all that is there; beyond
\* active_k there is nothing.
Covering == pending.setK = newest /\ pending.effK = activeK
ZeroBeyond == \A p \in Parts : p >= activeK => h[p] = Zero

SwapInv ==
  /\ SettledExact
  /\ ZeroBeyond
  /\ pending # None => Streaming /\ Covering

\* A swap that starts has passed nothing.
LEMMA StartSwapInv ==
  ASSUME NEW k \in 0 .. MaxParts, NEW eff \in 0 .. MaxParts, k <= eff,
         pending' = StartSwap(k, eff), activeK' = eff, newest' = k, ZeroBeyond'
  PROVE  SwapInv'
<1>1. pending' # None
  BY StartSwapType, NoneAssumption
<1>2. /\ pending'.setK = k /\ pending'.effK = eff /\ pending'.cursor = 0
      /\ \A s \in 0 .. MaxFade : pending'.hist[s] = 0
  BY DEF StartSwap
<1>3. MaxFade - 1 \in 0 .. MaxFade /\ 0 \in 0 .. MaxFade
  BY CornerAssumption
<1>4. \A p \in Parts : ~ (p < 0)
  BY DEF Parts
<1>5. Streaming' /\ Covering'
  BY <1>2, <1>3, <1>4 DEF Streaming, Covering
<1>6. QED
  BY <1>1, <1>5 DEF SwapInv, SettledExact

\* What is superseded is zero where it was, and the swap that supersedes it
\* covers no less than before.
LEMMA SupersededBeyond ==
  ASSUME StateOK, ZeroBeyond, h' = Superseded, activeK' \in Nat, activeK' >= activeK
  PROVE  ZeroBeyond'
<1>1. activeK \in Nat
  BY DEF StateOK
<1>2. ASSUME NEW p \in Parts, p >= activeK' PROVE h'[p] = Zero
  <2>1. p >= activeK
    BY <1>1, <1>2 DEF Parts
  <2>2. QED
    BY <2>1 DEF ZeroBeyond, Superseded
<1>3. QED
  BY <1>2 DEF ZeroBeyond

LEMMA StreamInSwapInv ==
  ASSUME StateOK, SwapInv, NEW k \in Lengths, StreamIn(k)
  PROVE  SwapInv'
<1>1. activeK \in 0 .. MaxParts /\ k \in 0 .. MaxParts
  BY CornerAssumption DEF StateOK
<1>2. /\ Max2(k, activeK) \in 0 .. MaxParts
      /\ k <= Max2(k, activeK) /\ activeK <= Max2(k, activeK)
  BY <1>1, MinMaxType
<1>3. /\ activeK' = Max2(k, activeK) /\ newest' = k /\ h' = Superseded
      /\ pending' = StartSwap(k, Max2(k, activeK))
  BY DEF StreamIn
<1>4. ZeroBeyond'
  BY <1>2, <1>3, SupersededBeyond DEF SwapInv
<1>5. QED
  BY <1>1, <1>2, <1>3, <1>4, StartSwapInv

LEMMA FadeOutSwapInv ==
  ASSUME StateOK, SwapInv, pending' = FadeOut, activeK' = activeK, newest' = 0,
         h' = Superseded
  PROVE  SwapInv'
<1>1. activeK \in 0 .. MaxParts
  BY DEF StateOK
<1>2. ZeroBeyond'
  BY <1>1, SupersededBeyond DEF SwapInv
<1>3. CASE activeK > 0
  <2>1. 0 \in 0 .. MaxParts /\ 0 <= activeK
    BY <1>1, CornerAssumption
  <2>2. pending' = StartSwap(0, activeK)
    BY <1>3 DEF FadeOut
  <2>3. QED
    BY <1>1, <1>2, <2>1, <2>2, StartSwapInv
<1>4. CASE ~ (activeK > 0)
  <2>1. pending' = None /\ activeK' = 0
    BY <1>1, <1>4 DEF FadeOut
  <2>2. \A p \in Parts : p >= 0 /\ ~ (p < 0)
    BY DEF Parts
  <2>3. QED
    BY <1>2, <2>1, <2>2 DEF SwapInv, SettledExact, ZeroBeyond
<1>5. QED
  BY <1>3, <1>4

LEMMA FrameSwapInv ==
  ASSUME StateOK, SwapInv, NEW steps \in 1 .. MaxSteps, NEW fade \in 1 .. MaxFade,
         AdvanceSwap(steps, fade), newest' = newest
  PROVE  SwapInv'
<1>1. CASE pending = None
  BY <1>1 DEF AdvanceSwap, SwapInv, SettledExact, ZeroBeyond
<1>2. CASE pending # None
  <2> DEFINE old == pending.hist
             hist == HistAfter(steps)
  <2>1. /\ pending \in Pending /\ Streaming
        /\ pending.effK \in Nat /\ pending.setK \in Nat
        /\ pending.setK = newest /\ pending.effK = activeK
        /\ old \in [0 .. MaxFade -> 0 .. MaxParts]
    BY <1>2 DEF StateOK, SwapInv, Covering, Pending
  <2>2. /\ hist \in [0 .. MaxFade -> 0 .. MaxParts]
        /\ hist[0] = CursorAfter(steps)
        /\ \A s \in 1 .. MaxFade : hist[s] = old[s - 1]
    BY <1>2, HistType
  <2>3. hist[0] <= pending.effK /\ old[0] <= hist[0]
    <3>1. hist[0] = IF pending.cursor + steps <= pending.effK
                    THEN pending.cursor + steps ELSE pending.effK
      BY <1>2, <2>2, HistType
    <3>2. pending.cursor = old[0] /\ old[0] <= pending.effK /\ old[0] \in Nat
      BY <2>1, CornerAssumption DEF Streaming
    <3> HIDE DEF hist, old
    <3>3. QED
      BY <2>1, <3>1, <3>2
  <2>4. \A s, t \in 0 .. MaxFade : s <= t => hist[t] <= hist[s]
    <3>1. SUFFICES ASSUME NEW s \in 0 .. MaxFade, NEW t \in 0 .. MaxFade, s <= t
                   PROVE  hist[t] <= hist[s]
      OBVIOUS
    <3>2. CASE s = 0 /\ t = 0
      BY <2>2, <3>2
    <3>3. CASE s = 0 /\ t # 0
      <4>1. t - 1 \in 0 .. MaxFade /\ 0 \in 0 .. MaxFade /\ 0 <= t - 1 /\ t \in 1 .. MaxFade
        BY <3>3, CornerAssumption
      <4>2. hist[t] = old[t - 1] /\ old[t - 1] <= old[0]
        <5>1. hist[t] = old[t - 1]
          BY <2>2, <4>1
        <5>2. old[t - 1] <= old[0]
          BY <2>1, <4>1 DEF Streaming
        <5>3. QED
          BY <5>1, <5>2
      <4> HIDE DEF hist, old
      <4>3. \A u \in 0 .. MaxFade : old[u] \in Nat /\ hist[u] \in Nat
        <5>1. old \in [0 .. MaxFade -> 0 .. MaxParts]
          BY <2>1
        <5>2. hist \in [0 .. MaxFade -> 0 .. MaxParts]
          BY <2>2
        <5>3. QED
          BY <5>1, <5>2, CornerAssumption
      <4>4. QED
        BY <2>3, <3>3, <4>1, <4>2, <4>3
    <3>4. CASE s # 0
      <4>1. /\ s - 1 \in 0 .. MaxFade /\ t - 1 \in 0 .. MaxFade /\ s - 1 <= t - 1
            /\ s \in 1 .. MaxFade /\ t \in 1 .. MaxFade
        BY <3>1, <3>4, CornerAssumption
      <4>2. old[t - 1] <= old[s - 1]
        BY <2>1, <4>1 DEF Streaming
      <4>3. QED
        BY <2>2, <4>1, <4>2
    <3>5. QED
      BY <3>2, <3>3, <3>4
  <2>5. MaxFade \in 1 .. MaxFade /\ MaxFade - 1 \in 0 .. MaxFade /\ MaxFade \in 0 .. MaxFade
    BY CornerAssumption
  <2>6. hist[MaxFade] = old[MaxFade - 1]
    BY <2>2, <2>5
  <2>7. h' = [p \in Parts |-> Blended(p, hist, fade)]
    BY <1>2 DEF AdvanceSwap
  <2>8. ASSUME NEW p \in Parts, p < hist[MaxFade - 1]
        PROVE  h'[p] = Target(p)
    <3> DEFINE stages == {st \in 1 .. MaxFade : hist[st] <= p /\ p < hist[st - 1]}
    <3>1. p \in Nat /\ \A s \in 0 .. MaxFade : hist[s] \in Nat
      BY <2>2 DEF Parts
    <3>2. CASE p < hist[MaxFade]
      <4>1. h[p] = Target(p)
        BY <2>1, <2>6, <3>2 DEF Streaming
      <4>2. Blended(p, hist, fade) \in {h[p], Target(p)}
        BY <4>1 DEF Blended
      <4>3. QED
        BY <2>7, <4>1, <4>2
    <3>3. CASE ~ (p < hist[MaxFade])
      <4>1. MaxFade \in stages
        BY <2>5, <2>8, <3>1, <3>3
      <4>2. MaxFade >= fade
        BY CornerAssumption
      <4>3. Blended(p, hist, fade) = Target(p)
        BY <4>1, <4>2 DEF Blended
      <4>4. QED
        BY <2>7, <4>3
    <3>4. QED
      BY <3>2, <3>3
  <2>9. ASSUME NEW p \in Parts, p >= pending.effK
        PROVE  h'[p] = Zero
    <3>1. h[p] = Zero
      BY <2>1, <2>9 DEF SwapInv, ZeroBeyond
    <3>2. \A st \in 1 .. MaxFade : ~ (p < hist[st - 1])
      <4>1. SUFFICES ASSUME NEW st \in 1 .. MaxFade PROVE ~ (p < hist[st - 1])
        OBVIOUS
      <4>2. st - 1 \in 0 .. MaxFade /\ 0 \in 0 .. MaxFade /\ 0 <= st - 1
        BY CornerAssumption
      <4>3. hist[st - 1] <= hist[0] /\ hist[st - 1] \in Nat /\ hist[0] \in Nat
        BY <2>2, <2>4, <4>2
      <4> HIDE DEF hist
      <4>4. QED
        BY <2>1, <2>3, <2>9, <4>3 DEF Parts
    <3>3. Blended(p, hist, fade) = h[p]
      BY <3>2 DEF Blended
    <3>4. QED
      BY <2>7, <3>1, <3>3
  <2>10. CASE SwapDone(hist)
    <3>1. pending' = None /\ activeK' = pending.setK /\ newest' = activeK'
      BY <1>2, <2>1, <2>10 DEF AdvanceSwap
    <3>2. ASSUME NEW p \in Parts, p < pending.effK PROVE h'[p] = Target(p)
      <4>1. pending.effK <= hist[MaxFade]
        BY <2>10 DEF SwapDone
      <4>2. hist[MaxFade] <= hist[MaxFade - 1]
        BY <2>4, <2>5, CornerAssumption
      <4>3. p \in Nat /\ hist[MaxFade] \in Nat /\ hist[MaxFade - 1] \in Nat
        BY <2>2, <2>5 DEF Parts
      <4>4. p < hist[MaxFade - 1]
        <5> HIDE DEF hist
        <5>1. QED
          BY <2>1, <3>2, <4>1, <4>2, <4>3
      <4>5. QED
        BY <2>8, <4>4
    <3>3. ASSUME NEW p \in Parts
          PROVE  h'[p] = IF p < pending.setK THEN Cur ELSE Zero
      <4>1. pending.setK <= pending.effK /\ p \in Nat
        BY <2>1 DEF Streaming, Parts
      <4>2. CASE p < pending.effK
        BY <3>2, <4>2 DEF Target
      <4>3. CASE p >= pending.effK
        <5>1. ~ (p < pending.setK)
          BY <2>1, <4>1, <4>3
        <5>2. QED
          BY <2>9, <4>3, <5>1
      <4>4. QED
        BY <2>1, <4>1, <4>2, <4>3
    <3>4. ZeroBeyond'
      <4>1. ASSUME NEW p \in Parts, p >= pending.setK PROVE ~ (p < pending.setK)
        BY <2>1, <4>1 DEF Parts
      <4>2. QED
        BY <3>1, <3>3, <4>1 DEF ZeroBeyond
    <3>5. QED
      BY <3>1, <3>3, <3>4 DEF SwapInv, SettledExact
  <2>11. CASE ~ SwapDone(hist)
    <3>1. pending' = [pending EXCEPT !.cursor = hist[0], !.hist = hist] /\ activeK' = activeK
      BY <1>2, <2>11 DEF AdvanceSwap
    <3>2. /\ pending' \in Pending
          /\ pending'.setK = pending.setK /\ pending'.effK = pending.effK
          /\ pending'.cursor = hist[0] /\ pending'.hist = hist
      <4>1. hist[0] \in 0 .. MaxParts
        BY <2>2, CornerAssumption
      <4> HIDE DEF hist
      <4>2. QED
        BY <2>1, <2>2, <3>1, <4>1 DEF Pending
    <3>3. \A p : Target(p)' = Target(p)
      BY <3>2 DEF Target
    <3>4. Streaming' /\ Covering'
      <4> HIDE DEF hist
      <4>1. QED
        BY <2>1, <2>3, <2>4, <2>8, <3>1, <3>2, <3>3 DEF Streaming, Covering
    <3>5. ZeroBeyond'
      BY <2>1, <2>9, <3>1 DEF ZeroBeyond
    <3>6. QED
      BY <3>2, <3>4, <3>5, NoneAssumption DEF SwapInv, SettledExact
  <2>12. QED
    BY <2>10, <2>11
<1>3. QED
  BY <1>1, <1>2

LEMMA ResetSwapInv ==
  ASSUME StateOK, SwapInv, Reset
  PROVE  SwapInv'
<1>0. newest' = newest
  BY DEF Reset
<1>1. CASE pending = None
  BY <1>0, <1>1 DEF Reset, SwapInv, SettledExact, ZeroBeyond
<1>2. CASE pending # None
  <2>1. /\ pending' = None /\ activeK' = pending.setK
        /\ h' = [p \in Parts |-> IF p < pending.effK THEN Target(p) ELSE h[p]]
    BY <1>2 DEF Reset
  <2>2. /\ pending.setK <= pending.effK
        /\ pending.setK \in Nat /\ pending.effK \in Nat
        /\ pending.setK = newest /\ pending.effK = activeK
    BY <1>2 DEF SwapInv, Streaming, Covering, StateOK, Pending
  <2>3. ASSUME NEW p \in Parts
        PROVE  /\ h'[p] = IF p < pending.setK THEN Cur ELSE Zero
               /\ p >= pending.setK => ~ (p < pending.setK)
    <3>1. CASE p < pending.effK
      BY <2>1, <2>2, <3>1 DEF Target, Parts
    <3>2. CASE p >= pending.effK
      <4>1. h[p] = Zero
        BY <2>2, <3>2 DEF SwapInv, ZeroBeyond
      <4>2. ~ (p < pending.effK) /\ ~ (p < pending.setK)
        BY <2>2, <3>2 DEF Parts
      <4>3. QED
        BY <2>1, <4>1, <4>2
    <3>3. QED
      BY <2>2, <3>1, <3>2 DEF Parts
  <2>4. QED
    BY <1>0, <2>1, <2>2, <2>3 DEF SwapInv, SettledExact, ZeroBeyond
<1>3. QED
  BY <1>1, <1>2

LEMMA InstallSwapInv ==
  ASSUME StateOK, SwapInv, NEW k \in Lengths, InstallSource(k)
  PROVE  SwapInv'
<1>1. /\ activeK = 0 /\ pending' = None /\ activeK' = k /\ newest' = k
      /\ h' = [p \in Parts |-> IF p < k THEN Cur ELSE h[p]]
  BY DEF InstallSource
<1>2. k \in Nat
  BY CornerAssumption
<1>3. \A p \in Parts : h[p] = Zero
  BY <1>1 DEF SwapInv, ZeroBeyond, Parts
<1>4. \A p \in Parts : h'[p] = (IF p < k THEN Cur ELSE Zero) /\ (p >= k => ~ (p < k))
  BY <1>1, <1>2, <1>3 DEF Parts
<1>5. QED
  BY <1>1, <1>4 DEF SwapInv, SettledExact, ZeroBeyond

LEMMA SwapInit == Init => SwapInv
<1>1. ASSUME Init
      PROVE  /\ pending = None /\ activeK = 0 /\ newest = 0
             /\ \A p \in Parts : h[p] = Zero
  BY <1>1 DEF Init
<1>2. \A p \in Parts : ~ (p < 0)
  BY DEF Parts
<1>3. QED
  BY <1>1, <1>2 DEF SwapInv, SettledExact, ZeroBeyond

LEMMA SwapStep == StateOK /\ SwapInv /\ [Next]_vars => SwapInv'
<1> SUFFICES ASSUME StateOK, SwapInv, [Next]_vars PROVE SwapInv'
  OBVIOUS
<1>1. CASE QueueSet
  BY <1>1, FadeOutSwapInv, StreamInSwapInv DEF QueueSet, QueueUngated, QueueGated
<1>2. CASE NextFrame
  BY <1>2, FrameSwapInv DEF NextFrame, Frame
<1>3. CASE UNCHANGED <<h, activeK, pending, newest>>
  <2>1. \A p : Target(p)' = Target(p)
    BY <1>3 DEF Target
  <2>2. QED
    BY <1>3, <2>1 DEF SwapInv, SettledExact, ZeroBeyond, Covering, Streaming
<1>4. CASE Drain \/ UNCHANGED vars
  BY <1>3, <1>4 DEF Drain, vars
<1>5. CASE \E k \in Lengths : InstallSource(k)
  BY <1>5, InstallSwapInv
<1>6. CASE \E k \in Lengths : StreamSource(k)
  BY <1>6, StreamInSwapInv DEF StreamSource
<1>7. CASE Reset
  BY <1>7, ResetSwapInv
<1>8. QED
  BY <1>1, <1>2, <1>4, <1>5, <1>6, <1>7 DEF Next, RtNext, ControlNext

(***************************************************************************)
(* A finished swap leaves exactly the newest set in the H bank, at its     *)
(* length, and zero beyond, for every bank, fade and sequence of           *)
(* parameters and displaced swaps (process_frame's streaming swap, reset,  *)
(* set_source_ir_at).                                                      *)
(***************************************************************************)
THEOREM SwapsSettleExactly == Spec => []SettledExact
<1>1. SwapInv => SettledExact
  BY DEF SwapInv
<1>2. QED
  BY <1>1, SwapInit, SwapStep, StateInvariance, PTL DEF Spec

-----------------------------------------------------------------------------
(***************************************************************************)
(* Freezing and ageing, voice by voice.                                    *)
(***************************************************************************)

\* Voice j after freezing into slot i, but for who starts to fade.
VoiceAfter(i, j) == IF j = i THEN FrozenVoice ELSE ringing[j]

LEMMA FrozenFields ==
  ASSUME StateOK, live # None, NEW cap \in 1 .. RingSlots, NEW i \in FreezeInto(cap),
         NEW j \in Slots
  PROVE  /\ VoiceAfter(i, j) \in RingVoice \cup {None}
         /\ Frozen(i, cap)[j] # None <=> VoiceAfter(i, j) # None
         /\ VoiceAfter(i, j) # None =>
              /\ Frozen(i, cap)[j] \in RingVoice
              /\ Frozen(i, cap)[j].k = VoiceAfter(i, j).k
              /\ Frozen(i, cap)[j].age = VoiceAfter(i, j).age
              /\ Frozen(i, cap)[j].epochLen = VoiceAfter(i, j).epochLen
              /\ Frozen(i, cap)[j].halvings = VoiceAfter(i, j).halvings
              /\ Frozen(i, cap)[j].tail = VoiceAfter(i, j).tail
              /\ VoiceAfter(i, j).dying => Frozen(i, cap)[j].dying
<1> DEFINE r == [ringing EXCEPT ![i] = FrozenVoice]
           healthy == {m \in 0 .. cap - 1 : ~ r[m].dying /\ r[m].age > 1}
<1>1. FrozenVoice \in RingVoice /\ i \in Slots
  BY FreezeIntoSlots, CornerAssumption DEF FrozenVoice, RingVoice, LiveVoice, StateOK
<1>2. r[j] = VoiceAfter(i, j) /\ VoiceAfter(i, j) \in RingVoice \cup {None}
  BY <1>1 DEF VoiceAfter, StateOK
<1>3. ASSUME NEW v \in RingVoice
      PROVE  /\ [v EXCEPT !.dying = TRUE] \in RingVoice
             /\ [v EXCEPT !.dying = TRUE].k = v.k
             /\ [v EXCEPT !.dying = TRUE].age = v.age
             /\ [v EXCEPT !.dying = TRUE].epochLen = v.epochLen
             /\ [v EXCEPT !.dying = TRUE].halvings = v.halvings
             /\ [v EXCEPT !.dying = TRUE].tail = v.tail
             /\ [v EXCEPT !.dying = TRUE].dying
  BY DEF RingVoice
<1>4. \/ Frozen(i, cap)[j] = r[j]
      \/ r[j] # None /\ Frozen(i, cap)[j] = [r[j] EXCEPT !.dying = TRUE]
  <2>1. Frozen(i, cap) = MarkOldest(r, cap)
    BY DEF Frozen
  <2>2. CASE \E m \in 0 .. cap - 1 : r[m] = None
    BY <2>1, <2>2 DEF MarkOldest
  <2>3. CASE \A m \in 0 .. cap - 1 : r[m] # None
    <3>1. Oldest(r, healthy, j) => r[j] # None
      BY <2>3 DEF Oldest
    <3>2. MarkOldest(r, cap) =
            [m \in Slots |-> IF Oldest(r, healthy, m)
                             THEN [r[m] EXCEPT !.dying = TRUE] ELSE r[m]]
      BY <2>3 DEF MarkOldest
    <3> HIDE DEF healthy, r
    <3>3. QED
      BY <2>1, <3>1, <3>2
  <2>4. QED
    BY <2>2, <2>3
<1> HIDE DEF r
<1> DEFINE v == VoiceAfter(i, j)
           w == Frozen(i, cap)[j]
<1>5. CASE w = v
  BY <1>2, <1>5
<1>6. CASE v # None /\ w = [v EXCEPT !.dying = TRUE]
  <2> HIDE DEF v, w
  <2>1. v \in RingVoice
    BY <1>2, <1>6 DEF v
  <2>2. /\ w \in RingVoice /\ w # None
        /\ w.k = v.k /\ w.age = v.age /\ w.epochLen = v.epochLen
        /\ w.halvings = v.halvings /\ w.tail = v.tail /\ w.dying
    BY <1>3, <1>6, <2>1, NoneAssumption
  <2>3. QED
    BY <1>6, <2>1, <2>2 DEF v, w
<1>7. QED
  BY <1>2, <1>4, <1>5, <1>6

\* What a queued set does to the voices: the live one is frozen, or none is.
LEMMA FreezeVoices ==
  ASSUME StateOK, NEW cap \in 1 .. RingSlots, NEW i \in FreezeInto(cap),
         ringing' = Frozen(i, cap)
  PROVE  \/ live = None /\ ringing' = ringing
         \/ /\ live # None /\ i \in Slots
            /\ ringing' \in [Slots -> RingVoice \cup {None}]
            /\ Occupied' = Occupied \cup {i}
            /\ \A j \in Occupied' :
                 LET v == VoiceAfter(i, j)
                 IN  /\ v \in RingVoice /\ ringing'[j] \in RingVoice
                     /\ ringing'[j].k = v.k
                     /\ ringing'[j].age = v.age /\ ringing'[j].epochLen = v.epochLen
                     /\ ringing'[j].halvings = v.halvings /\ ringing'[j].tail = v.tail
                     /\ v.dying => ringing'[j].dying
<1>1. CASE live = None
  BY <1>1 DEF Frozen
<1>2. CASE live # None
  <2>1. i \in Slots /\ ringing' \in [Slots -> RingVoice \cup {None}]
    BY FreezeIntoSlots, FrozenType
  <2>2. Occupied' = Occupied \cup {i}
    BY <1>2, FrozenOccupied DEF Occupied, OccupiedIn
  <2>3. \A j \in Occupied' : j \in Slots /\ Frozen(i, cap)[j] # None
    BY DEF Occupied
  <2>4. QED
    BY <1>2, <2>1, <2>2, <2>3, FrozenFields
<1>3. QED
  BY <1>1, <1>2

\* What a frame does to a voice that survives it.
LEMMA AgedFields ==
  ASSUME StateOK, NEW cap \in Caps, NEW audible \in BOOLEAN,
         ringing' = AgedRing(cap, audible), NEW j \in Occupied'
  PROVE  /\ j \in Occupied /\ j \notin Dead
         /\ ringing[j] \in RingVoice
         /\ ringing'[j].k = ringing[j].k
         /\ ringing'[j].age = ringing[j].age + 1
         /\ ringing'[j].epochLen = ringing[j].epochLen
         /\ ringing'[j].tail = TailAfter(ringing[j].tail, audible, ringing[j].epochLen > 0)
         /\ ringing[j].dying =>
              ringing'[j].dying /\ ringing'[j].halvings = ringing[j].halvings + 1
<1> DEFINE v == ringing[j]
           dying == v.dying \/ j >= cap
           tail == TailAfter(v.tail, audible, v.epochLen > 0)
<1>1. j \in Slots /\ j \in Occupied /\ j \notin Dead /\ ringing'[j] = AgedVoice(j, cap, audible)
  BY DEF Occupied, AgedRing
<1>2. v \in RingVoice
  BY <1>1 DEF StateOK, Occupied
<1>3. AgedVoice(j, cap, audible) =
        [v EXCEPT !.age = v.age + 1, !.dying = dying,
                  !.halvings = IF dying THEN v.halvings + 1 ELSE v.halvings,
                  !.tail = tail]
  BY DEF AgedVoice
<1>4. v.dying => dying
  OBVIOUS
<1> HIDE DEF v, dying, tail
<1>5. /\ ringing'[j].k = v.k
      /\ ringing'[j].age = v.age + 1 /\ ringing'[j].epochLen = v.epochLen
      /\ ringing'[j].tail = tail
      /\ v.dying => ringing'[j].dying /\ ringing'[j].halvings = v.halvings + 1
  BY <1>1, <1>2, <1>3, <1>4 DEF RingVoice
<1>6. QED
  BY <1>1, <1>2, <1>5 DEF v, tail

LEMMA AgedLiveFields ==
  ASSUME StateOK, NEW audible \in BOOLEAN, live' = AgedLive(audible)
  PROVE  \/ live = None /\ live' = None
         \/ /\ live \in LiveVoice /\ live' \in LiveVoice
            /\ live'.age = Min2(live.age + 1, AgeCap)
            /\ live'.tail = TailAfter(live.tail, audible, TRUE)
<1>1. CASE live = None
  BY <1>1 DEF AgedLive
<1>2. CASE live # None
  <2> DEFINE age == Min2(live.age + 1, AgeCap)
             tail == TailAfter(live.tail, audible, TRUE)
  <2>1. live \in LiveVoice
    BY <1>2 DEF StateOK
  <2>2. age \in 0 .. AgeCap
    BY <2>1, CornerAssumption DEF LiveVoice, Min2
  <2>3. tail \in Tails
    BY <2>1, TailAfterType DEF LiveVoice, StateOK
  <2>4. live' = [live EXCEPT !.age = age, !.tail = tail]
    BY <1>2 DEF AgedLive
  <2> HIDE DEF age, tail
  <2>5. live' \in LiveVoice /\ live'.age = age /\ live'.tail = tail
    BY <2>1, <2>2, <2>3, <2>4 DEF LiveVoice
  <2>6. QED
    BY <2>1, <2>5 DEF age, tail
<1>3. QED
  BY <1>1, <1>2

-----------------------------------------------------------------------------
(***************************************************************************)
(* Overlap-add tails.                                                      *)
(***************************************************************************)

\* A corner that was gated in the last frame holds no tail at all.
Clean(tail) == tail # Stale /\ (skipped => tail = Empty)

TailInv ==
  /\ Clean(htail)
  /\ live # None => Clean(live.tail)
  /\ \A i \in Occupied : Clean(ringing[i].tail)

LEMMA TailAfterClean ==
  ASSUME NEW tail \in Tails, Clean(tail), NEW audible \in BOOLEAN,
         NEW sounding \in BOOLEAN, skipped \in BOOLEAN
  PROVE  /\ TailAfter(tail, audible, sounding) # Stale
         /\ ~ audible => TailAfter(tail, audible, sounding) = Empty
BY DistinctAssumption DEF TailAfter, Clean, Tails

LEMMA FrameTailInv ==
  ASSUME StateOK, TailInv, NEW steps \in 1 .. MaxSteps, NEW fade \in 1 .. MaxFade,
         NEW cap \in Caps, NEW audible \in Gates, Frame(steps, fade, cap, audible)
  PROVE  TailInv'
<1>1. audible \in BOOLEAN /\ skipped \in BOOLEAN /\ skipped' = ~ audible
  BY CornerAssumption DEF StateOK, Frame
<1>2. Clean(htail)'
  <2>1. htail' = TailAfter(htail, audible, TRUE) /\ htail \in Tails
    BY DEF Frame, StateOK
  <2>2. QED
    BY <1>1, <2>1, TailAfterClean DEF TailInv, Clean
<1>3. live' # None => Clean(live.tail)'
  <2>1. SUFFICES ASSUME live' # None PROVE Clean(live.tail)'
    OBVIOUS
  <2>2. /\ live \in LiveVoice /\ live'.tail = TailAfter(live.tail, audible, TRUE)
    BY <1>1, <2>1, AgedLiveFields DEF Frame
  <2>3. live.tail \in Tails /\ Clean(live.tail)
    BY <2>2, NoneAssumption DEF LiveVoice, TailInv
  <2>4. QED
    BY <1>1, <2>2, <2>3, TailAfterClean DEF Clean
<1>4. ASSUME NEW i \in Occupied' PROVE Clean(ringing[i].tail)'
  <2> DEFINE sounding == ringing[i].epochLen > 0
             tail == ringing[i].tail
  <2>1. /\ i \in Occupied /\ ringing[i] \in RingVoice
        /\ ringing'[i].tail = TailAfter(tail, audible, sounding)
    BY <1>1, AgedFields DEF Frame
  <2>2. tail \in Tails /\ Clean(tail) /\ sounding \in BOOLEAN
    BY <2>1 DEF RingVoice, TailInv
  <2> HIDE DEF sounding, tail
  <2>3. QED
    BY <1>1, <2>1, <2>2, TailAfterClean DEF Clean
<1>5. QED
  BY <1>2, <1>3, <1>4 DEF TailInv

LEMMA FreezeTailInv ==
  ASSUME StateOK, TailInv, NEW cap \in 1 .. RingSlots, NEW i \in FreezeInto(cap),
         ringing' = Frozen(i, cap), UNCHANGED <<skipped, htail>>,
         live' = None \/ live'.tail = Empty
  PROVE  TailInv'
<1>1. ASSUME NEW j \in Occupied' PROVE Clean(ringing[j].tail)'
  <2>1. CASE live = None /\ ringing' = ringing
    BY <2>1 DEF Occupied, TailInv, Clean
  <2>2. CASE live # None
    <3>1. /\ ringing'[j].tail = VoiceAfter(i, j).tail
          /\ Occupied' = Occupied \cup {i}
      BY <2>2, FreezeVoices
    <3>2. VoiceAfter(i, j).tail = IF j = i THEN live.tail ELSE ringing[j].tail
      BY DEF VoiceAfter, FrozenVoice
    <3>3. Clean(VoiceAfter(i, j).tail)
      BY <2>2, <3>1, <3>2 DEF TailInv
    <3>4. QED
      BY <3>1, <3>3 DEF Clean
  <2>3. QED
    BY <2>1, <2>2, FreezeVoices
<1>2. Clean(htail)' /\ (live' # None => Clean(live.tail)')
  BY DistinctAssumption DEF TailInv, Clean
<1>3. QED
  BY <1>1, <1>2 DEF TailInv

LEMMA TailStep == StateOK /\ TailInv /\ [Next]_vars => TailInv'
<1> SUFFICES ASSUME StateOK, TailInv, [Next]_vars PROVE TailInv'
  OBVIOUS
<1>1. CASE QueueSet
  <2>1. PICK k \in Lengths, cap \in Caps : QueueUngated(k, cap) \/ QueueGated(k, cap)
    BY <1>1 DEF QueueSet
  <2>2. cap \in 1 .. RingSlots
    BY CornerAssumption
  <2>3. PICK i \in FreezeInto(cap) : ringing' = Frozen(i, cap)
    BY <2>1 DEF QueueUngated, QueueGated, Freeze
  <2>4. UNCHANGED <<skipped, htail>> /\ (live' = None \/ live'.tail = Empty)
    BY <2>1 DEF QueueUngated, QueueGated, StreamIn
  <2>5. QED
    BY <2>2, <2>3, <2>4, FreezeTailInv
<1>2. CASE NextFrame
  BY <1>2, FrameTailInv DEF NextFrame
<1>3. CASE Drain \/ UNCHANGED vars \/ \E k \in Lengths : InstallSource(k)
  BY <1>3 DEF Drain, vars, InstallSource, TailInv, Clean, Occupied
<1>4. CASE \E k \in Lengths : StreamSource(k)
  <2>1. RingSlots \in 1 .. RingSlots
    BY CornerAssumption
  <2>2. PICK i \in FreezeInto(RingSlots) : ringing' = Frozen(i, RingSlots)
    BY <1>4 DEF StreamSource, Freeze
  <2>3. UNCHANGED <<skipped, htail>> /\ live' = None
    BY <1>4 DEF StreamSource, StreamIn
  <2>4. QED
    BY <2>1, <2>2, <2>3, FreezeTailInv
<1>5. CASE Reset
  BY <1>5, DistinctAssumption DEF Reset, TailInv, Clean, Occupied
<1>6. QED
  BY <1>1, <1>2, <1>3, <1>4, <1>5 DEF Next, RtNext, ControlNext

(***************************************************************************)
(* A corner that comes back from being gated, and a voice that takes a     *)
(* pooled buffer, adds no remainder of an earlier block (process_frame's   *)
(* was_skipped, freeze_live, reset).                                       *)
(***************************************************************************)
THEOREM TailsAreFresh == Spec => []NoStaleTail
<1>1. Init => TailInv
  BY DistinctAssumption DEF Init, TailInv, Clean, Occupied
<1>2. TailInv => NoStaleTail
  BY DEF TailInv, Clean, NoStaleTail
<1>3. QED
  BY <1>1, <1>2, TailStep, StateInvariance, PTL DEF Spec

-----------------------------------------------------------------------------
(***************************************************************************)
(* Which lags the voices read.  The live voice is younger than every       *)
(* frozen one, so that what it has read when it is frozen, lags 1 and up,  *)
(* ends where theirs begin.                                                *)
(***************************************************************************)

LEMMA FreezeEpochs ==
  ASSUME StateOK, EpochsDisjoint, NEW cap \in 1 .. RingSlots, NEW i \in FreezeInto(cap),
         ringing' = Frozen(i, cap), live' = None \/ live'.age = 0
  PROVE  EpochsDisjoint'
<1>1. \A j \in Slots : ringing[j] # None => ringing[j] \in RingVoice
  BY DEF StateOK
<1>2. CASE live = None
  <2>1. ringing' = ringing /\ Occupied' = Occupied
    BY <1>2, FreezeVoices DEF Occupied
  <2>2. \A j \in Occupied : 0 < ringing[j].age
    BY <1>1 DEF Occupied, RingVoice
  <2>3. QED
    BY <2>1, <2>2 DEF EpochsDisjoint
<1>3. CASE live # None
  <2> DEFINE v(j) == VoiceAfter(i, j)
  <2>1. /\ Occupied' = Occupied \cup {i}
        /\ \A j \in Occupied' : /\ v(j) \in RingVoice
                               /\ ringing'[j].age = v(j).age
                               /\ ringing'[j].epochLen = v(j).epochLen
    BY <1>3, FreezeVoices
  <2>2. v(i).age = 1 /\ v(i).epochLen = live.age /\ live.age \in Nat
    BY <1>3, CornerAssumption DEF VoiceAfter, FrozenVoice, StateOK, LiveVoice
  <2>3. \A j \in Occupied \ {i} : v(j) = ringing[j]
    BY DEF VoiceAfter
  <2> HIDE DEF v
  <2>4. \A j \in Occupied' : v(j).age \in Nat /\ v(j).epochLen \in Nat /\ 0 < v(j).age
    BY <2>1, CornerAssumption DEF RingVoice
  <2>5. \A j \in Occupied \ {i} : v(i).age + v(i).epochLen <= v(j).age
    <3>1. SUFFICES ASSUME NEW j \in Occupied \ {i} PROVE 1 + live.age <= v(j).age
      BY <2>2
    <3>2. live.age < v(j).age
      BY <1>3, <2>3 DEF EpochsDisjoint
    <3>3. v(j).age \in Nat
      BY <2>1, <2>4
    <3>4. QED
      BY <2>2, <3>2, <3>3
  <2>6. \A j, m \in Occupied \ {i} : j # m =>
          \/ v(j).age + v(j).epochLen <= v(m).age
          \/ v(m).age + v(m).epochLen <= v(j).age
    BY <2>3 DEF EpochsDisjoint
  <2>7. ASSUME NEW j \in Occupied', NEW m \in Occupied', j # m
        PROVE  \/ v(j).age + v(j).epochLen <= v(m).age
               \/ v(m).age + v(m).epochLen <= v(j).age
    BY <2>1, <2>5, <2>6, <2>7
  <2>8. QED
    BY <2>1, <2>4, <2>7 DEF EpochsDisjoint
<1>4. QED
  BY <1>2, <1>3

LEMMA FrameEpochs ==
  ASSUME StateOK, EpochsDisjoint, NEW cap \in Caps, NEW audible \in BOOLEAN,
         ringing' = AgedRing(cap, audible), live' = AgedLive(audible)
  PROVE  EpochsDisjoint'
<1>1. \A j \in Occupied' :
        /\ j \in Occupied
        /\ ringing[j].age \in Nat /\ ringing[j].epochLen \in Nat
        /\ ringing'[j].age = ringing[j].age + 1
        /\ ringing'[j].epochLen = ringing[j].epochLen
  <2>1. SUFFICES ASSUME NEW j \in Occupied'
                 PROVE  /\ j \in Occupied
                        /\ ringing[j].age \in Nat /\ ringing[j].epochLen \in Nat
                        /\ ringing'[j].age = ringing[j].age + 1
                        /\ ringing'[j].epochLen = ringing[j].epochLen
    OBVIOUS
  <2>2. ringing[j] \in RingVoice
    BY AgedFields
  <2>3. QED
    BY <2>2, AgedFields, CornerAssumption DEF RingVoice
<1>2. ASSUME NEW j \in Occupied', NEW m \in Occupied', j # m
      PROVE  \/ ringing'[j].age + ringing'[j].epochLen <= ringing'[m].age
             \/ ringing'[m].age + ringing'[m].epochLen <= ringing'[j].age
  <2>1. \/ ringing[j].age + ringing[j].epochLen <= ringing[m].age
        \/ ringing[m].age + ringing[m].epochLen <= ringing[j].age
    BY <1>1, <1>2 DEF EpochsDisjoint
  <2>2. QED
    BY <1>1, <2>1
<1>3. ASSUME live' # None, NEW j \in Occupied'
      PROVE  live'.age < ringing'[j].age
  <2> DEFINE a == live.age
             b == ringing[j].age
             c == Min2(a + 1, AgeCap)
  <2>1. live \in LiveVoice /\ live'.age = c
    BY <1>3, AgedLiveFields
  <2>2. a \in Nat /\ b \in Nat /\ a < b /\ ringing'[j].age = b + 1
    BY <1>1, <2>1, NoneAssumption, CornerAssumption DEF LiveVoice, EpochsDisjoint
  <2> HIDE DEF a, b
  <2>3. c \in {a + 1, AgeCap} /\ c <= a + 1
    BY <2>2, CornerAssumption DEF Min2
  <2> HIDE DEF c
  <2>4. c < b + 1
    BY <2>2, <2>3, CornerAssumption
  <2>5. QED
    BY <2>1, <2>2, <2>4
<1>4. QED
  BY <1>2, <1>3 DEF EpochsDisjoint

LEMMA EpochsStep == StateOK /\ EpochsDisjoint /\ [Next]_vars => EpochsDisjoint'
<1> SUFFICES ASSUME StateOK, EpochsDisjoint, [Next]_vars PROVE EpochsDisjoint'
  OBVIOUS
<1>1. CASE QueueSet
  <2>1. PICK k \in Lengths, cap \in Caps : QueueUngated(k, cap) \/ QueueGated(k, cap)
    BY <1>1 DEF QueueSet
  <2>2. cap \in 1 .. RingSlots
    BY CornerAssumption
  <2>3. PICK i \in FreezeInto(cap) : ringing' = Frozen(i, cap)
    BY <2>1 DEF QueueUngated, QueueGated, Freeze
  <2>4. live' = None \/ live'.age = 0
    BY <2>1 DEF QueueUngated, QueueGated, StreamIn
  <2>5. QED
    BY <2>2, <2>3, <2>4, FreezeEpochs
<1>2. CASE NextFrame
  BY <1>2, FrameEpochs, CornerAssumption DEF NextFrame, Frame
<1>3. CASE Drain \/ UNCHANGED vars \/ \E k \in Lengths : InstallSource(k)
  BY <1>3 DEF Drain, vars, InstallSource, EpochsDisjoint, Occupied
<1>4. CASE \E k \in Lengths : StreamSource(k)
  <2>1. RingSlots \in 1 .. RingSlots
    BY CornerAssumption
  <2>2. PICK i \in FreezeInto(RingSlots) : ringing' = Frozen(i, RingSlots)
    BY <1>4 DEF StreamSource, Freeze
  <2>3. live' = None
    BY <1>4 DEF StreamSource, StreamIn
  <2>4. QED
    BY <2>1, <2>2, <2>3, FreezeEpochs
<1>5. CASE Reset
  BY <1>5 DEF Reset, EpochsDisjoint, Occupied
<1>6. QED
  BY <1>1, <1>2, <1>3, <1>4, <1>5 DEF Next, RtNext, ControlNext

(***************************************************************************)
(* No two voices ever read the same lag of the shared input ring, under    *)
(* the engine's whole interface (LayerVoice, freeze_live).                 *)
(***************************************************************************)
THEOREM LagsAreSplit == Spec => []EpochsDisjoint
<1>1. Init => EpochsDisjoint
  BY DEF Init, EpochsDisjoint, Occupied
<1>2. QED
  BY <1>1, EpochsStep, StateInvariance, PTL DEF Spec

-----------------------------------------------------------------------------
(***************************************************************************)
(* The plugin's steps.  InstallSource would break OneListener: it is not   *)
(* one of them.                                                            *)
(***************************************************************************)

LEMMA PluginStateInvariance == PluginSpec => []StateOK
<1>1. StateOK /\ [RtNext]_vars => StateOK'
  BY NextStateOK DEF Next
<1>2. QED
  BY <1>1, InitStateOK, PTL DEF PluginSpec

\* What a swap in flight, or none, becomes in a frame.
LEMMA AdvanceSwapFields ==
  ASSUME StateOK, NEW steps \in 1 .. MaxSteps, NEW fade \in 1 .. MaxFade,
         AdvanceSwap(steps, fade)
  PROVE  \/ pending = None /\ pending' = None /\ activeK' = activeK
         \/ /\ pending \in Pending /\ pending' = None /\ activeK' = pending.setK
         \/ /\ pending \in Pending /\ pending' \in Pending /\ activeK' = activeK
            /\ pending'.setK = pending.setK
<1>1. CASE pending = None
  BY <1>1 DEF AdvanceSwap
<1>2. CASE pending # None
  <2> DEFINE hist == HistAfter(steps)
  <2>1. pending \in Pending
    BY <1>2 DEF StateOK
  <2>2. hist \in [0 .. MaxFade -> 0 .. MaxParts] /\ hist[0] \in 0 .. MaxParts
    BY <1>2, HistType, CornerAssumption
  <2>3. \/ activeK' = pending.setK /\ pending' = None
        \/ /\ pending' = [pending EXCEPT !.cursor = hist[0], !.hist = hist]
           /\ activeK' = activeK
    BY <1>2 DEF AdvanceSwap
  <2> HIDE DEF hist
  <2>4. /\ [pending EXCEPT !.cursor = hist[0], !.hist = hist] \in Pending
        /\ [pending EXCEPT !.cursor = hist[0], !.hist = hist].setK = pending.setK
    BY <2>1, <2>2 DEF Pending
  <2>5. QED
    BY <2>1, <2>3, <2>4
<1>3. QED
  BY <1>1, <1>2

\* What queueing a set leaves in the three places an IR may be.
LEMMA QueueFields ==
  ASSUME StateOK, NEW k \in Lengths, NEW cap \in Caps
  PROVE  /\ QueueUngated(k, cap) =>
              /\ live' # None /\ activeK' = activeK
              /\ IF activeK > 0 THEN pending' # None /\ pending'.setK = 0
                               ELSE pending' = None
         /\ QueueGated(k, cap) => live' = None /\ pending' # None /\ pending'.setK > 0
<1>1. activeK \in 0 .. MaxParts /\ k \in 1 .. MaxParts
  BY CornerAssumption DEF StateOK
<1>2. ASSUME QueueUngated(k, cap)
      PROVE  /\ live' # None /\ activeK' = activeK
             /\ IF activeK > 0 THEN pending' # None /\ pending'.setK = 0
                              ELSE pending' = None
  <2>1. live' \in LiveVoice
    BY <1>1, <1>2, CornerAssumption DEF QueueUngated, LiveVoice, Tails
  <2>2. StartSwap(0, activeK) \in Pending /\ StartSwap(0, activeK).setK = 0
    BY <1>1, StartSwapType, CornerAssumption DEF StartSwap
  <2>3. pending' = FadeOut /\ activeK' = activeK
    BY <1>2 DEF QueueUngated
  <2>4. QED
    BY <2>1, <2>2, <2>3, NoneAssumption DEF FadeOut
<1>3. ASSUME QueueGated(k, cap)
      PROVE  live' = None /\ pending' # None /\ pending'.setK > 0
  <2>1. Max2(k, activeK) \in 0 .. MaxParts
    BY <1>1, MinMaxType
  <2>2. /\ StartSwap(k, Max2(k, activeK)) \in Pending
        /\ StartSwap(k, Max2(k, activeK)).setK = k
    BY <1>1, <2>1, StartSwapType DEF StartSwap
  <2>3. live' = None /\ pending' = StartSwap(k, Max2(k, activeK))
    BY <1>3 DEF QueueGated, StreamIn
  <2>4. QED
    BY <1>1, <2>2, <2>3, NoneAssumption
<1>4. QED
  BY <1>2, <1>3

(***************************************************************************)
(* New input is heard through one IR: a live voice, or the H bank          *)
(* (queue_partition_set's ungated path, process_frame).                    *)
(***************************************************************************)
THEOREM NewInputHeardOnce == PluginSpec => []OneListener
<1>1. Init => OneListener
  BY DEF Init, OneListener
<1>2. StateOK /\ OneListener /\ [RtNext]_vars => OneListener'
  <2> SUFFICES ASSUME StateOK, OneListener, [RtNext]_vars PROVE OneListener'
    OBVIOUS
  <2>1. CASE QueueSet
    <3>1. PICK k \in Lengths, cap \in Caps : QueueUngated(k, cap) \/ QueueGated(k, cap)
      BY <2>1 DEF QueueSet
    <3>2. activeK \in Nat
      BY CornerAssumption DEF StateOK
    <3>3. QED
      BY <3>1, <3>2, QueueFields DEF OneListener
  <2>2. CASE NextFrame
    <3>1. PICK steps \in 1 .. MaxSteps, fade \in 1 .. MaxFade, audible \in Gates :
            AdvanceSwap(steps, fade) /\ live' = AgedLive(audible)
      BY <2>2 DEF NextFrame, Frame
    <3>2. live' # None => live # None
      BY <3>1 DEF AgedLive
    <3>3. QED
      BY <3>1, <3>2, AdvanceSwapFields, NoneAssumption DEF OneListener
  <2>3. CASE Drain \/ UNCHANGED vars
    BY <2>3 DEF Drain, vars, OneListener
  <2>4. QED
    BY <2>1, <2>2, <2>3 DEF RtNext
<1>3. QED
  BY <1>1, <1>2, PluginStateInvariance, PTL DEF PluginSpec

(***************************************************************************)
(* No step of the plugin leaves a corner that has an IR without one.       *)
(***************************************************************************)
THEOREM CornerStaysAudible == PluginSpec => NeverMute
<1>1. StateOK /\ [RtNext]_vars => [HasIR => HasIR']_vars
  <2> SUFFICES ASSUME StateOK, RtNext, HasIR PROVE HasIR'
    OBVIOUS
  <2>1. CASE QueueSet
    <3>1. PICK k \in Lengths, cap \in Caps : QueueUngated(k, cap) \/ QueueGated(k, cap)
      BY <2>1 DEF QueueSet
    <3>2. QED
      BY <3>1, QueueFields DEF HasIR, PendingSets
  <2>2. CASE NextFrame
    <3>1. PICK steps \in 1 .. MaxSteps, fade \in 1 .. MaxFade, audible \in Gates :
            AdvanceSwap(steps, fade) /\ live' = AgedLive(audible)
      BY <2>2 DEF NextFrame, Frame
    <3>2. live # None => live' # None
      BY <3>1, AgedLiveFields, NoneAssumption, CornerAssumption
    <3>3. QED
      BY <3>1, <3>2, AdvanceSwapFields, NoneAssumption DEF HasIR, PendingSets
  <2>3. CASE Drain
    BY <2>3 DEF Drain, HasIR, PendingSets
  <2>4. QED
    BY <2>1, <2>2, <2>3 DEF RtNext
<1>2. QED
  BY <1>1, PluginStateInvariance, PTL DEF PluginSpec, NeverMute

-----------------------------------------------------------------------------
(***************************************************************************)
(* Evictions.                                                              *)
(***************************************************************************)

LEMMA MaxExists ==
  ASSUME NEW n \in Nat, NEW S, S \subseteq 0 .. n, S # {}
  PROVE  \E m \in S : \A i \in S : i <= m
<1> DEFINE R == OpToRel(<, Nat)
           T == {n - i : i \in S}
<1>1. IsWellFoundedOn(R, Nat)
  BY NatLessThanWellFounded
<1>2. T \subseteq Nat /\ T # {}
  <2>1. \A i \in S : n - i \in Nat
    OBVIOUS
  <2>2. PICK i \in S : TRUE
    OBVIOUS
  <2>3. n - i \in T
    OBVIOUS
  <2>4. QED
    BY <2>1, <2>3
<1>3. \A x, y \in Nat : y < x => <<y, x>> \in R
  BY DEF OpToRel
<1> HIDE DEF R
<1>4. PICK x \in T : \A y \in T : ~ (<<y, x>> \in R)
  <2> HIDE DEF T
  <2>1. QED
    BY <1>1, <1>2, WFMin
<1>5. PICK m \in S : x = n - m
  BY <1>4
<1>6. ASSUME NEW i \in S PROVE i <= m
  <2>1. n - i \in T /\ n - i \in Nat /\ n - m \in Nat /\ i \in Int /\ m \in Int
    BY <1>5
  <2>2. ~ (n - i < n - m)
    BY <1>2, <1>3, <1>4, <1>5, <2>1
  <2>3. QED
    BY <2>1, <2>2
<1>7. QED
  BY <1>6

\* Among some voices there is an oldest one.
LEMMA OldestExists ==
  ASSUME NEW r, NEW S, S \subseteq Slots, S # {}, \A j \in S : r[j] \in RingVoice
  PROVE  \E i \in S : Oldest(r, S, i)
<1> DEFINE Ages == {r[j].age : j \in S}
<1>1. \A j \in S : r[j].age \in 0 .. MaxParts
  BY CornerAssumption DEF RingVoice
<1>2. Ages \subseteq 0 .. MaxParts /\ Ages # {}
  BY <1>1
<1> HIDE DEF Ages
<1>3. PICK a \in Ages : \A b \in Ages : b <= a
  BY <1>2, MaxExists, CornerAssumption
<1> DEFINE Eldest == {j \in S : r[j].age = a}
<1>4. Eldest \subseteq 0 .. RingSlots - 1 /\ Eldest # {} /\ RingSlots - 1 \in Nat
  <2>1. PICK j \in S : r[j].age = a
    BY <1>3 DEF Ages
  <2>2. j \in Eldest
    BY <2>1
  <2>3. RingSlots - 1 \in Nat
    BY CornerAssumption
  <2>4. QED
    BY <2>2, <2>3 DEF Slots
<1>5. PICK i \in Eldest : \A j \in Eldest : j <= i
  <2> HIDE DEF Eldest
  <2>1. QED
    BY <1>4, MaxExists
<1>6. ASSUME NEW j \in S
      PROVE  r[j].age < r[i].age \/ (r[j].age = r[i].age /\ j <= i)
  <2>1. r[j].age \in Ages /\ r[j].age <= a /\ a \in Int /\ r[j].age \in Int
    BY <1>1, <1>2, <1>3 DEF Ages
  <2>2. CASE r[j].age = a
    BY <1>5, <2>2
  <2>3. CASE r[j].age # a
    BY <1>5, <2>1, <2>3
  <2>4. QED
    BY <2>2, <2>3
<1>7. QED
  BY <1>5, <1>6 DEF Oldest

\* When all slots that the last freeze could use are taken, either they were
\* taken in one frame, or one of the voices has been fading ever since.
FadeInv ==
  (\A j \in 0 .. freezeCap - 1 : ringing[j] # None) =>
    \/ FrozenTogether
    \/ \E i \in 0 .. freezeCap - 1 : ringing[i].dying /\ FadedSinceFreeze(i)

LEMMA FrameFadeInv ==
  ASSUME StateOK, FadeInv, NEW cap \in Caps, NEW audible \in BOOLEAN,
         ringing' = AgedRing(cap, audible), freezeCap' = freezeCap
  PROVE  FadeInv'
<1> DEFINE c == freezeCap
<1>1. 0 .. c - 1 \subseteq Slots
  BY CornerAssumption DEF Slots, StateOK
<1>2. SUFFICES ASSUME \A j \in 0 .. c - 1 : ringing'[j] # None
               PROVE  \/ FrozenTogether'
                      \/ \E i \in 0 .. c - 1 : ringing'[i].dying /\ FadedSinceFreeze(i)'
  BY DEF FadeInv
<1>3. \A j \in 0 .. c - 1 : j \in Occupied'
  BY <1>1, <1>2 DEF Occupied
<1>4. \A j \in 0 .. c - 1 :
        /\ ringing[j] \in RingVoice /\ ringing[j] # None
        /\ ringing[j].age \in Nat /\ ringing[j].halvings \in Nat
        /\ ringing'[j].age = ringing[j].age + 1
        /\ ringing[j].dying =>
             ringing'[j].dying /\ ringing'[j].halvings = ringing[j].halvings + 1
  <2>1. SUFFICES ASSUME NEW j \in 0 .. c - 1
                 PROVE  /\ ringing[j] \in RingVoice /\ ringing[j] # None
                        /\ ringing[j].age \in Nat /\ ringing[j].halvings \in Nat
                        /\ ringing'[j].age = ringing[j].age + 1
                        /\ ringing[j].dying =>
                             ringing'[j].dying /\ ringing'[j].halvings = ringing[j].halvings + 1
    OBVIOUS
  <2>2. j \in Occupied'
    BY <1>3
  <2>3. /\ ringing[j] \in RingVoice
        /\ ringing'[j].age = ringing[j].age + 1
        /\ ringing[j].dying =>
             ringing'[j].dying /\ ringing'[j].halvings = ringing[j].halvings + 1
    BY <2>2, AgedFields
  <2>4. QED
    BY <2>3, NoneAssumption, CornerAssumption DEF RingVoice
<1>5. CASE FrozenTogether
  BY <1>4, <1>5 DEF FrozenTogether
<1>6. CASE \E i \in 0 .. c - 1 : ringing[i].dying /\ FadedSinceFreeze(i)
  <2>1. PICK i \in 0 .. c - 1, j \in 0 .. c - 1 :
          ringing[i].dying /\ ringing[j].age <= ringing[i].halvings + 1
    BY <1>6 DEF FadedSinceFreeze
  <2>2. ringing'[i].dying /\ ringing'[j].age <= ringing'[i].halvings + 1
    BY <1>4, <2>1
  <2>3. QED
    BY <2>2 DEF FadedSinceFreeze
<1>7. QED
  BY <1>4, <1>5, <1>6 DEF FadeInv

\* A freeze that fills the last slot, or evicts a voice, sets the oldest other
\* voice fading, if there is one that is not as young as the one just frozen.
LEMMA FreezeFadeInv ==
  ASSUME StateOK, FadeInv, NEW c \in 1 .. RingSlots,
         NEW i \in FreezeInto(c), Freeze(i, c)
  PROVE  FadeInv'
<1>0. c \in Nat /\ 0 .. c - 1 \subseteq Slots /\ ringing' = Frozen(i, c)
  BY CornerAssumption DEF Slots, Freeze
<1>1. CASE live = None
  <2>1. ringing' = ringing /\ freezeCap' = freezeCap
    BY <1>1 DEF Freeze, Frozen
  <2>2. QED
    BY <2>1 DEF FadeInv, FrozenTogether, FadedSinceFreeze
<1>2. CASE live # None
  <2> DEFINE r == [ringing EXCEPT ![i] = FrozenVoice]
             healthy == {m \in 0 .. c - 1 : ~ r[m].dying /\ r[m].age > 1}
  <2>1. /\ i \in Slots
        /\ \A j \in Occupied' :
             LET v == VoiceAfter(i, j)
             IN  /\ v \in RingVoice /\ ringing'[j] \in RingVoice
                 /\ ringing'[j].age = v.age /\ ringing'[j].halvings = v.halvings
                 /\ v.dying => ringing'[j].dying
    BY <1>0, <1>2, FreezeVoices
  <2>2. i \in 0 .. c - 1 /\ freezeCap' = c /\ ringing' = MarkOldest(r, c)
    BY <1>0, <1>2 DEF Freeze, FreezeInto, Victim, Frozen
  <2>3. SUFFICES ASSUME \A j \in 0 .. c - 1 : ringing'[j] # None
                 PROVE  \/ FrozenTogether'
                        \/ \E m \in 0 .. c - 1 : ringing'[m].dying /\ FadedSinceFreeze(m)'
    BY <2>2 DEF FadeInv
  <2>4. \A j \in 0 .. c - 1 :
          /\ r[j] = VoiceAfter(i, j) /\ r[j] \in RingVoice /\ r[j] # None
          /\ ringing'[j].age = r[j].age /\ r[j].age \in Nat /\ r[j].age >= 1
          /\ ringing'[j].halvings >= 0 /\ ringing'[j].halvings \in Nat
          /\ r[j].dying => ringing'[j].dying
    <3>1. SUFFICES ASSUME NEW j \in 0 .. c - 1
                   PROVE  /\ r[j] = VoiceAfter(i, j) /\ r[j] \in RingVoice /\ r[j] # None
                          /\ ringing'[j].age = r[j].age /\ r[j].age \in Nat /\ r[j].age >= 1
                          /\ ringing'[j].halvings >= 0 /\ ringing'[j].halvings \in Nat
                          /\ r[j].dying => ringing'[j].dying
      OBVIOUS
    <3>2. j \in Slots /\ j \in Occupied'
      BY <1>0, <2>3 DEF Occupied
    <3>3. r[j] = VoiceAfter(i, j)
      BY <2>1, <3>2 DEF VoiceAfter, StateOK
    <3> HIDE DEF r
    <3>4. /\ r[j] \in RingVoice /\ ringing'[j] \in RingVoice
          /\ ringing'[j].age = r[j].age
          /\ r[j].dying => ringing'[j].dying
      BY <2>1, <3>2, <3>3
    <3>5. QED
      BY <3>3, <3>4, NoneAssumption, CornerAssumption DEF RingVoice
  <2>5. ringing'[i].age = 1
    <3> HIDE DEF r
    <3>1. ringing'[i].age = VoiceAfter(i, i).age
      BY <2>2, <2>4
    <3>2. QED
      BY <3>1 DEF VoiceAfter, FrozenVoice
  <2>6. \A m \in 0 .. c - 1 : FadedSinceFreeze(m)'
    <3>1. \A m \in 0 .. c - 1 : ringing'[i].age <= ringing'[m].halvings + 1
      BY <2>4, <2>5
    <3>2. QED
      BY <2>2, <3>1 DEF FadedSinceFreeze
  <2>7. CASE \E m \in 0 .. c - 1 : r[m].dying
    BY <2>4, <2>6, <2>7
  <2>8. CASE healthy # {}
    <3>1. healthy \subseteq Slots /\ \A m \in healthy : r[m] \in RingVoice
      BY <1>0, <2>4
    <3>2. ringing' = [m \in Slots |-> IF Oldest(r, healthy, m)
                                      THEN [r[m] EXCEPT !.dying = TRUE] ELSE r[m]]
      BY <2>2, <2>4 DEF MarkOldest
    <3>3. \A m \in healthy : m \in 0 .. c - 1
      OBVIOUS
    <3> HIDE DEF healthy, r
    <3>4. PICK m \in healthy : Oldest(r, healthy, m)
      BY <2>8, <3>1, OldestExists
    <3>5. ringing'[m] = [r[m] EXCEPT !.dying = TRUE]
      BY <3>1, <3>2, <3>4
    <3>6. ringing'[m].dying
      BY <3>1, <3>5 DEF RingVoice
    <3>7. QED
      BY <2>6, <3>3, <3>6
  <2>9. CASE healthy = {} /\ \A m \in 0 .. c - 1 : ~ r[m].dying
    <3>1. \A m \in 0 .. c - 1 : ~ (r[m].age > 1)
      BY <2>9
    <3> HIDE DEF r, healthy
    <3>2. \A m \in 0 .. c - 1 : ringing'[m].age = 1
      BY <2>4, <3>1
    <3>3. QED
      BY <2>2, <3>2 DEF FrozenTogether
  <2>10. QED
    BY <2>7, <2>8, <2>9
<1>3. QED
  BY <1>1, <1>2

\* Every way to freeze a voice freezes it within the cap it was given.
LEMMA FadeStep == StateOK /\ FadeInv /\ [Next]_vars => FadeInv'
<1> SUFFICES ASSUME StateOK, FadeInv, [Next]_vars PROVE FadeInv'
  OBVIOUS
<1>1. CASE QueueSet
  <2>1. PICK k \in Lengths, cap \in Caps : QueueUngated(k, cap) \/ QueueGated(k, cap)
    BY <1>1 DEF QueueSet
  <2>2. PICK i \in FreezeInto(cap) : Freeze(i, cap)
    BY <2>1 DEF QueueUngated, QueueGated
  <2>3. cap \in 1 .. RingSlots
    BY CornerAssumption
  <2>4. QED
    BY <2>2, <2>3, FreezeFadeInv
<1>2. CASE NextFrame
  <2>1. PICK cap \in Caps, audible \in Gates :
          ringing' = AgedRing(cap, audible) /\ freezeCap' = freezeCap
    BY <1>2 DEF NextFrame, Frame
  <2>2. audible \in BOOLEAN
    BY CornerAssumption
  <2>3. QED
    BY <2>1, <2>2, FrameFadeInv
<1>3. CASE UNCHANGED <<ringing, freezeCap>>
  BY <1>3 DEF FadeInv, FrozenTogether, FadedSinceFreeze
<1>4. CASE Drain \/ (\E k \in Lengths : InstallSource(k)) \/ UNCHANGED vars
  BY <1>3, <1>4 DEF Drain, InstallSource, vars
<1>5. CASE \E k \in Lengths : StreamSource(k)
  <2>1. PICK i \in FreezeInto(RingSlots) : Freeze(i, RingSlots)
    BY <1>5 DEF StreamSource
  <2>2. RingSlots \in 1 .. RingSlots
    BY CornerAssumption
  <2>3. QED
    BY <2>1, <2>2, FreezeFadeInv
<1>6. CASE Reset
  <2>1. freezeCap' = freezeCap /\ freezeCap \in 1 .. RingSlots
    BY <1>6 DEF Reset, StateOK
  <2>2. 0 \in 0 .. freezeCap - 1
    BY <2>1, CornerAssumption
  <2>3. 0 \in Slots
    BY CornerAssumption DEF Slots
  <2>4. ringing'[0] = None
    BY <1>6, <2>3 DEF Reset
  <2>5. QED
    BY <2>1, <2>2, <2>4 DEF FadeInv
<1>7. QED
  BY <1>1, <1>2, <1>4, <1>5, <1>6 DEF Next, RtNext, ControlNext

\* Only the slot frozen into gets a voice of age one.
LEMMA OnlyVictimIsNew ==
  ASSUME StateOK, live # None, NEW c \in 1 .. RingSlots, NEW i \in FreezeInto(c),
         ringing' = Frozen(i, c), NEW j \in Slots, FrozeInto(j)
  PROVE  j = i
<1> DEFINE r == [ringing EXCEPT ![i] = FrozenVoice]
           healthy == {m \in 0 .. c - 1 : ~ r[m].dying /\ r[m].age > 1}
<1>1. SUFFICES ASSUME j # i PROVE FALSE
  OBVIOUS
<1>2. r[j] = ringing[j]
  BY <1>1 DEF StateOK
<1>3. ringing'[j].age = VoiceAfter(i, j).age
  BY FrozenFields DEF FrozeInto
<1>4. r[j].age = 1
  BY <1>1, <1>2, <1>3 DEF FrozeInto, VoiceAfter
<1>5. j \notin healthy
  BY <1>4
<1>6. ringing'[j] = r[j]
  <2>1. ringing' = MarkOldest(r, c)
    BY DEF Frozen
  <2>2. ~ Oldest(r, healthy, j)
    BY <1>5 DEF Oldest
  <2>3. j \in Slots /\ r \in [Slots -> {r[m] : m \in Slots}]
    BY DEF StateOK
  <2> HIDE DEF healthy
  <2>4. CASE \E m \in 0 .. c - 1 : r[m] = None
    BY <2>1, <2>4 DEF MarkOldest
  <2>5. CASE \A m \in 0 .. c - 1 : r[m] # None
    <3>1. ringing' = [m \in Slots |-> IF Oldest(r, healthy, m)
                                      THEN [r[m] EXCEPT !.dying = TRUE] ELSE r[m]]
      BY <2>1, <2>5 DEF MarkOldest, healthy
    <3> HIDE DEF r
    <3>2. QED
      BY <2>2, <3>1
  <2>6. QED
    BY <2>4, <2>5
<1>7. QED
  BY <1>2, <1>6 DEF FrozeInto

\* The voice frozen over is the quietest of those that fade.
LEMMA VictimHasFaded ==
  ASSUME StateOK, FadeInv, NEW c \in 1 .. RingSlots,
         NEW i \in FreezeInto(c), Freeze(i, c),
         NEW j \in Slots, ringing[j] # None, FrozeInto(j),
         freezeCap' = freezeCap, ~ FrozenTogether
  PROVE  FadedSinceFreeze(j)
<1>0. 0 .. c - 1 \subseteq Slots /\ ringing' = Frozen(i, c)
  BY CornerAssumption DEF Slots, Freeze
<1>1. live # None
  BY DEF Freeze, Frozen, FrozeInto
<1>2. c = freezeCap /\ j = i
  BY <1>0, <1>1, OnlyVictimIsNew DEF Freeze
<1>3. Victim(i, c)
  BY <1>1 DEF FreezeInto
<1>4. (\A m \in 0 .. c - 1 : ringing[m] # None) /\ ~ FirstFree(i)
  BY <1>2, <1>3 DEF Victim, FirstFree
<1>5. PICK m \in 0 .. c - 1 : ringing[m].dying /\ FadedSinceFreeze(m)
  BY <1>2, <1>4 DEF FadeInv
<1>6. QuietestDying(i, c)
  BY <1>3, <1>4, <1>5 DEF Victim
<1>7. \A n \in 0 .. c - 1 : /\ ringing[n].halvings \in Nat /\ ringing[n].age \in Nat
  <2>1. \A n \in 0 .. c - 1 : ringing[n] \in RingVoice
    BY <1>0, <1>4 DEF StateOK
  <2>2. QED
    BY <2>1, CornerAssumption DEF RingVoice
<1>8. i \in 0 .. c - 1
  BY <1>3 DEF Victim
<1>9. ringing[m].halvings <= ringing[i].halvings
  BY <1>5, <1>6, <1>7, <1>8 DEF QuietestDying
<1>10. PICK n \in 0 .. c - 1 : ringing[n].age <= ringing[m].halvings + 1
  BY <1>2, <1>5 DEF FadedSinceFreeze
<1>11. ringing[n].age <= ringing[i].halvings + 1
  BY <1>7, <1>8, <1>9, <1>10
<1>12. QED
  BY <1>2, <1>11 DEF FadedSinceFreeze

(***************************************************************************)
(* A voice that is frozen over has been fading in every frame since the    *)
(* freeze before, whatever the spacing of the sets, for any ring           *)
(* (freeze_live), on the control path too.                                 *)
(***************************************************************************)
THEOREM EvictionsAreFaded == Spec => EvictedHasFaded
<1>1. Init => FadeInv
  <2>1. ASSUME Init PROVE ringing[0] = None /\ 0 \in 0 .. freezeCap - 1
    BY <2>1, CornerAssumption DEF Init, Slots
  <2>2. QED
    BY <2>1 DEF FadeInv
<1>2. StateOK /\ FadeInv /\ [Next]_vars =>
        [\A i \in Slots :
           /\ ringing[i] # None /\ FrozeInto(i)
           /\ freezeCap' = freezeCap /\ ~ FrozenTogether
           => FadedSinceFreeze(i)]_vars
  <2> SUFFICES ASSUME StateOK, FadeInv, Next, NEW j \in Slots,
                      ringing[j] # None, FrozeInto(j),
                      freezeCap' = freezeCap, ~ FrozenTogether
               PROVE  FadedSinceFreeze(j)
    OBVIOUS
  <2>1. CASE QueueSet
    <3>1. PICK k \in Lengths, cap \in Caps : QueueUngated(k, cap) \/ QueueGated(k, cap)
      BY <2>1 DEF QueueSet
    <3>2. PICK i \in FreezeInto(cap) : Freeze(i, cap)
      BY <3>1 DEF QueueUngated, QueueGated
    <3>3. cap \in 1 .. RingSlots
      BY CornerAssumption
    <3>4. QED
      BY <3>2, <3>3, VictimHasFaded
  <2>2. CASE NextFrame
    <3>1. PICK cap \in Caps, audible \in Gates : ringing' = AgedRing(cap, audible)
      BY <2>2 DEF NextFrame, Frame
    <3>2. /\ j \in Occupied' /\ audible \in BOOLEAN
      BY CornerAssumption DEF Occupied, FrozeInto
    <3>3. ringing[j] \in RingVoice /\ ringing'[j].age = ringing[j].age + 1
      BY <3>1, <3>2, AgedFields
    <3>4. ringing[j].age \in Nat /\ ringing[j].age + 1 = 1 /\ ringing[j].age >= 1
      BY <3>3, CornerAssumption DEF RingVoice, FrozeInto
    <3>5. QED
      BY <3>4
  <2>3. CASE Drain \/ \E k \in Lengths : InstallSource(k)
    BY <2>3 DEF Drain, InstallSource, FrozeInto
  <2>4. CASE \E k \in Lengths : StreamSource(k)
    <3>1. PICK i \in FreezeInto(RingSlots) : Freeze(i, RingSlots)
      BY <2>4 DEF StreamSource
    <3>2. RingSlots \in 1 .. RingSlots
      BY CornerAssumption
    <3>3. QED
      BY <3>1, <3>2, VictimHasFaded
  <2>5. CASE Reset
    BY <2>5 DEF Reset, FrozeInto
  <2>6. QED
    BY <2>1, <2>2, <2>3, <2>4, <2>5 DEF Next, RtNext, ControlNext
<1>3. QED
  BY <1>1, <1>2, FadeStep, StateInvariance, PTL DEF Spec, EvictedHasFaded

-----------------------------------------------------------------------------
(***************************************************************************)
(* Deadlines: what SwapSettles and VoicesRingOut need besides fairness.    *)
(* Each is a number of frames that every frame counts down and that only a *)
(* set handed over sets back.                                              *)
(***************************************************************************)

\* A step that may displace a swap or freeze a voice.
HandedOver == QueueSet \/ \E k \in Lengths : StreamSource(k)

\* The youngest m cursors of the history have arrived.
Passed(m) == \A s \in 0 .. m - 1 : pending.hist[s] >= pending.effK

\* The swap in flight, if any, is over within n frames: those the cursor
\* still needs at one partition each, and then one for every older cursor.
SwapWithin(n) ==
  pending # None =>
    \E m \in 0 .. MaxFade + 1 :
      /\ Passed(m)
      /\ (pending.effK - pending.cursor) + (MaxFade + 1 - m) <= n

\* Every frozen voice is gone within n frames.
RingsWithin(n) == \A i \in Occupied : ringing[i].k - ringing[i].age < n

\* A frame counts both down; no other step sets them back but a set handed
\* over, whatever morph, fade, ring and the corner's weight do meanwhile.
SwapCountsDown ==
  [][\A n \in Nat :
       /\ NextFrame /\ SwapWithin(n + 1) => SwapWithin(n)'
       /\ SwapWithin(n) => SwapWithin(n)' \/ HandedOver]_vars

RingsCountDown ==
  [][\A n \in Nat :
       /\ NextFrame /\ RingsWithin(n + 1) => RingsWithin(n)'
       /\ RingsWithin(n) => RingsWithin(n)' \/ HandedOver]_vars

\* The longest either takes, and what 0 means.
SwapDeadline ==
  SwapWithin(MaxParts + MaxFade + 1) /\ (SwapWithin(0) => pending = None)

RingsDeadline ==
  RingsWithin(MaxParts) /\ (RingsWithin(0) => Occupied = {})

\* A swap that is over is taken out in the frame that ends it.
Unfinished == pending # None => ~ SwapDone(pending.hist)

LEMMA StartUnfinished ==
  ASSUME NEW k \in 0 .. MaxParts, NEW eff \in 1 .. MaxParts, pending' = StartSwap(k, eff)
  PROVE  Unfinished'
<1>1. pending'.hist[0] = 0 /\ pending'.effK = eff
  BY CornerAssumption DEF StartSwap
<1>2. ~ (0 >= eff)
  OBVIOUS
<1>3. QED
  BY <1>1, <1>2 DEF Unfinished, SwapDone

\* The fields of a swap that a frame has not ended.
LEMMA AdvancedSwap ==
  ASSUME StateOK, NEW steps \in 1 .. MaxSteps, NEW fade \in 1 .. MaxFade,
         AdvanceSwap(steps, fade), pending # None, pending' # None
  PROVE  /\ pending'.effK = pending.effK
         /\ pending'.cursor = CursorAfter(steps)
         /\ pending'.hist = HistAfter(steps)
         /\ ~ SwapDone(HistAfter(steps))
<1> DEFINE hist == HistAfter(steps)
<1>1. pending \in Pending
  BY DEF StateOK
<1>2. hist[0] = CursorAfter(steps)
  BY HistType
<1>3. /\ ~ SwapDone(hist)
      /\ pending' = [pending EXCEPT !.cursor = hist[0], !.hist = hist]
  BY DEF AdvanceSwap
<1> HIDE DEF hist
<1>4. pending'.effK = pending.effK /\ pending'.cursor = hist[0] /\ pending'.hist = hist
  BY <1>1, <1>3 DEF Pending
<1>5. QED
  BY <1>2, <1>3, <1>4 DEF hist

LEMMA UnfinishedStep == StateOK /\ Unfinished /\ [Next]_vars => Unfinished'
<1> SUFFICES ASSUME StateOK, Unfinished, [Next]_vars PROVE Unfinished'
  OBVIOUS
<1>1. ASSUME NEW k \in Lengths, StreamIn(k) PROVE Unfinished'
  <2>1. k \in 1 .. MaxParts /\ activeK \in 0 .. MaxParts
    BY CornerAssumption DEF StateOK
  <2>2. Max2(k, activeK) \in 1 .. MaxParts
    BY <2>1 DEF Max2
  <2>3. QED
    BY <1>1, <2>1, <2>2, StartUnfinished, CornerAssumption DEF StreamIn
<1>2. CASE QueueSet
  <2>1. PICK k \in Lengths, cap \in Caps : QueueUngated(k, cap) \/ QueueGated(k, cap)
    BY <1>2 DEF QueueSet
  <2>2. CASE QueueGated(k, cap)
    BY <1>1, <2>2 DEF QueueGated
  <2>3. CASE QueueUngated(k, cap) /\ activeK > 0
    <3>1. activeK \in 1 .. MaxParts /\ 0 \in 0 .. MaxParts
      BY <2>3, CornerAssumption DEF StateOK
    <3>2. pending' = StartSwap(0, activeK)
      BY <2>3 DEF QueueUngated, FadeOut
    <3>3. QED
      BY <3>1, <3>2, StartUnfinished
  <2>4. CASE QueueUngated(k, cap) /\ ~ (activeK > 0)
    BY <2>4 DEF QueueUngated, FadeOut, Unfinished
  <2>5. QED
    BY <2>1, <2>2, <2>3, <2>4
<1>3. CASE NextFrame
  <2>1. PICK steps \in 1 .. MaxSteps, fade \in 1 .. MaxFade : AdvanceSwap(steps, fade)
    BY <1>3 DEF NextFrame, Frame
  <2>2. CASE pending = None
    BY <2>1, <2>2 DEF AdvanceSwap, Unfinished
  <2>3. CASE pending # None
    <3>1. SUFFICES ASSUME pending' # None PROVE ~ SwapDone(pending.hist)'
      BY DEF Unfinished
    <3>2. QED
      BY <2>1, <2>3, <3>1, AdvancedSwap DEF SwapDone
  <2>4. QED
    BY <2>2, <2>3
<1>4. CASE UNCHANGED pending
  BY <1>4 DEF Unfinished, SwapDone
<1>5. CASE Drain \/ UNCHANGED vars \/ \E k \in Lengths : InstallSource(k)
  BY <1>4, <1>5 DEF Drain, InstallSource, vars
<1>6. CASE \E k \in Lengths : StreamSource(k)
  BY <1>1, <1>6 DEF StreamSource
<1>7. CASE Reset
  BY <1>7 DEF Reset, Unfinished
<1>8. QED
  BY <1>2, <1>3, <1>5, <1>6, <1>7 DEF Next, RtNext, ControlNext

\* A frame brings the end of the swap closer: the cursor moves, or it has
\* arrived and one more of the older ones has.
LEMMA FrameCountsSwap ==
  ASSUME StateOK, SwapInv, Unfinished, NEW steps \in 1 .. MaxSteps,
         NEW fade \in 1 .. MaxFade, AdvanceSwap(steps, fade),
         NEW n \in Nat, SwapWithin(n + 1)
  PROVE  SwapWithin(n)'
<1>1. SUFFICES ASSUME pending' # None
               PROVE  \E m \in 0 .. MaxFade + 1 :
                        /\ Passed(m)'
                        /\ (pending'.effK - pending'.cursor) + (MaxFade + 1 - m) <= n
  BY DEF SwapWithin
<1>2. pending # None
  BY <1>1 DEF AdvanceSwap
<1> DEFINE old == pending.hist
           hist == HistAfter(steps)
           eff == pending.effK
           cursor == pending.cursor
<1>3. /\ pending'.effK = eff /\ pending'.cursor = CursorAfter(steps) /\ pending'.hist = hist
      /\ ~ SwapDone(hist)
  BY <1>1, <1>2, AdvancedSwap
<1>4. /\ Streaming /\ eff \in Nat /\ cursor \in Nat
      /\ old \in [0 .. MaxFade -> 0 .. MaxParts] /\ ~ SwapDone(old)
  BY <1>2 DEF StateOK, SwapInv, Pending, Unfinished
<1>5. cursor = old[0] /\ cursor <= eff /\ MaxFade \in Nat
  BY <1>4, CornerAssumption DEF Streaming
<1>6. /\ hist[0] = CursorAfter(steps)
      /\ \A s \in 1 .. MaxFade : hist[s] = old[s - 1]
      /\ CursorAfter(steps) \in 0 .. MaxParts
      /\ CursorAfter(steps) = IF cursor + steps <= eff THEN cursor + steps ELSE eff
  BY <1>2, HistType
<1>7. PICK m \in 0 .. MaxFade + 1 :
        Passed(m) /\ (eff - cursor) + (MaxFade + 1 - m) <= n + 1
  BY <1>2 DEF SwapWithin
<1>8. \A s \in 0 .. m - 1 : old[s] >= eff
  BY <1>7 DEF Passed
<1> HIDE DEF old, hist, eff, cursor
<1>9. CASE cursor < eff
  <2>1. m = 0
    <3>1. m \in Nat /\ (m # 0 => 0 \in 0 .. m - 1)
      OBVIOUS
    <3>2. m # 0 => cursor >= eff
      BY <1>5, <1>8, <3>1
    <3>3. QED
      BY <1>4, <1>9, <3>2
  <2>2. CursorAfter(steps) >= cursor + 1
    BY <1>4, <1>6, <1>9
  <2>3. (eff - CursorAfter(steps)) + (MaxFade + 1 - 0) <= n
    <3> DEFINE next == CursorAfter(steps)
    <3>1. next \in Int /\ eff \in Int /\ cursor \in Int /\ MaxFade \in Int /\ n \in Int
      BY <1>4, <1>5, <1>6
    <3>2. next >= cursor + 1 /\ (eff - cursor) + (MaxFade + 1 - 0) <= n + 1
      BY <1>7, <2>1, <2>2
    <3> HIDE DEF next
    <3>3. (eff - next) + (MaxFade + 1 - 0) <= n
      BY <3>1, <3>2, SMT
    <3>4. QED
      BY <3>3 DEF next
  <2>4. Passed(0)'
    BY DEF Passed
  <2>5. 0 \in 0 .. MaxFade + 1
    BY <1>5
  <2>6. QED
    BY <1>3, <2>3, <2>4, <2>5
<1>10. CASE cursor = eff
  <2>1. CursorAfter(steps) = eff
    BY <1>4, <1>6, <1>10
  <2>2. m # MaxFade + 1
    <3>1. SUFFICES ASSUME m = MaxFade + 1 PROVE SwapDone(old)
      BY <1>4
    <3>2. 0 \in 0 .. m - 1 /\ MaxFade \in 0 .. m - 1
      BY <1>5, <3>1
    <3>3. QED
      BY <1>8, <3>2 DEF SwapDone, eff
  <2>3. m + 1 \in 0 .. MaxFade + 1
    BY <1>5, <2>2
  <2>4. ASSUME NEW s \in 0 .. m PROVE hist[s] >= eff
    <3>1. CASE s = 0
      BY <1>4, <1>6, <2>1, <3>1
    <3>2. CASE s # 0
      <4>1. s \in 1 .. MaxFade /\ s - 1 \in 0 .. m - 1
        BY <1>5, <2>3, <3>2
      <4>2. QED
        BY <1>6, <1>8, <4>1
    <3>3. QED
      BY <3>1, <3>2
  <2>5. Passed(m + 1)'
    <3>1. (m + 1) - 1 = m
      OBVIOUS
    <3>2. \A s \in 0 .. (m + 1) - 1 : pending'.hist[s] >= pending'.effK
      BY <1>3, <2>4, <3>1
    <3>3. QED
      BY <3>2 DEF Passed
  <2>6. (eff - CursorAfter(steps)) + (MaxFade + 1 - (m + 1)) <= n
    BY <1>4, <1>5, <1>7, <1>10, <2>1
  <2>7. QED
    BY <1>3, <2>3, <2>5, <2>6
<1>11. QED
  BY <1>4, <1>5, <1>9, <1>10

\* Who is over within n frames is over within more.
LEMMA SwapMonotone ==
  ASSUME NEW m \in Nat, NEW n \in Nat, n <= m, StateOK, SwapWithin(n)
  PROVE  SwapWithin(m)
<1>1. SUFFICES ASSUME pending # None
               PROVE  \E j \in 0 .. MaxFade + 1 :
                        Passed(j) /\ (pending.effK - pending.cursor) + (MaxFade + 1 - j) <= m
  BY DEF SwapWithin
<1>2. PICK j \in 0 .. MaxFade + 1 :
        Passed(j) /\ (pending.effK - pending.cursor) + (MaxFade + 1 - j) <= n
  BY <1>1 DEF SwapWithin
<1>3. pending.effK \in Int /\ pending.cursor \in Int /\ MaxFade \in Int
  BY <1>1, CornerAssumption DEF StateOK, Pending
<1>4. (pending.effK - pending.cursor) + (MaxFade + 1 - j) <= m
  BY <1>2, <1>3
<1>5. QED
  BY <1>2, <1>4

(***************************************************************************)
(* A streaming swap is over MaxParts + MaxFade + 1 frames after the last   *)
(* set was handed over, at any morph and fade (process_frame's streaming   *)
(* swap, reset): the cursor moves a partition a frame at least, and the    *)
(* history follows it out.                                                 *)
(***************************************************************************)
THEOREM SwapsMeetTheirDeadline == Spec => []SwapDeadline /\ SwapCountsDown
<1> DEFINE A == \A n \in Nat :
                  /\ NextFrame /\ SwapWithin(n + 1) => SwapWithin(n)'
                  /\ SwapWithin(n) => SwapWithin(n)' \/ HandedOver
<1>1. Init => SwapInv /\ Unfinished
  <2>1. Init => pending = None
    BY DEF Init
  <2>2. QED
    BY <2>1, SwapInit DEF Unfinished
<1>2. StateOK /\ SwapInv /\ Unfinished => SwapDeadline
  <2> SUFFICES ASSUME StateOK, SwapInv, Unfinished PROVE SwapDeadline
    OBVIOUS
  <2>1. SwapWithin(MaxParts + MaxFade + 1)
    <3>1. SUFFICES ASSUME pending # None
                   PROVE  \E m \in 0 .. MaxFade + 1 :
                            /\ Passed(m)
                            /\ (pending.effK - pending.cursor) + (MaxFade + 1 - m)
                                 <= MaxParts + MaxFade + 1
      BY DEF SwapWithin
    <3>2. pending.effK \in 0 .. MaxParts /\ pending.cursor \in 0 .. MaxParts
      BY <3>1 DEF StateOK, Pending
    <3>3. /\ 0 \in 0 .. MaxFade + 1 /\ Passed(0)
          /\ (pending.effK - pending.cursor) + (MaxFade + 1 - 0) <= MaxParts + MaxFade + 1
      BY <3>2, CornerAssumption DEF Passed
    <3>4. QED
      BY <3>3
  <2>2. ASSUME SwapWithin(0), pending # None PROVE FALSE
    <3>1. PICK m \in 0 .. MaxFade + 1 :
            Passed(m) /\ (pending.effK - pending.cursor) + (MaxFade + 1 - m) <= 0
      BY <2>2 DEF SwapWithin
    <3>2. /\ pending.effK \in Nat /\ pending.cursor \in Nat
          /\ pending.hist \in [0 .. MaxFade -> 0 .. MaxParts]
      BY <2>2 DEF StateOK, Pending
    <3>3. pending.cursor <= pending.effK
      BY <2>2 DEF SwapInv, Streaming
    <3>4. m = MaxFade + 1
      BY <3>1, <3>2, <3>3, CornerAssumption
    <3>5. 0 \in 0 .. m - 1 /\ MaxFade \in 0 .. m - 1
      BY <3>4, CornerAssumption
    <3>6. SwapDone(pending.hist)
      BY <3>1, <3>5 DEF Passed, SwapDone
    <3>7. QED
      BY <2>2, <3>6 DEF Unfinished
  <2>3. QED
    BY <2>1, <2>2 DEF SwapDeadline
<1>3. StateOK /\ SwapInv /\ Unfinished /\ [Next]_vars => [A]_vars
  <2> SUFFICES ASSUME StateOK, SwapInv, Unfinished, Next, NEW n \in Nat
               PROVE  /\ NextFrame /\ SwapWithin(n + 1) => SwapWithin(n)'
                      /\ SwapWithin(n) => SwapWithin(n)' \/ HandedOver
    OBVIOUS
  <2>1. ASSUME NextFrame, NEW l \in Nat, SwapWithin(l + 1) PROVE SwapWithin(l)'
    <3>1. PICK steps \in 1 .. MaxSteps, fade \in 1 .. MaxFade : AdvanceSwap(steps, fade)
      BY <2>1 DEF NextFrame, Frame
    <3>2. QED
      BY <2>1, <3>1, FrameCountsSwap
  <2>2. CASE NextFrame
    <3>1. n + 1 \in Nat /\ n <= n + 1
      OBVIOUS
    <3>2. SwapWithin(n) => SwapWithin(n + 1)
      BY <3>1, SwapMonotone
    <3>3. QED
      BY <2>1, <2>2, <3>2
  <2>3. CASE Drain \/ (\E k \in Lengths : InstallSource(k)) \/ Reset
    <3>1. pending' = pending \/ pending' = None
      BY <2>3 DEF Drain, InstallSource, Reset
    <3>2. SwapWithin(n) => SwapWithin(n)'
      BY <3>1 DEF SwapWithin, Passed
    <3>3. NextFrame /\ SwapWithin(n + 1) => SwapWithin(n)'
      BY <2>1
    <3>4. QED
      BY <3>2, <3>3
  <2>4. CASE HandedOver
    BY <2>1, <2>4
  <2>5. QED
    BY <2>2, <2>3, <2>4 DEF Next, RtNext, ControlNext, HandedOver
<1>4. StateOK /\ SwapInv /\ Unfinished /\ [Next]_vars => SwapInv' /\ Unfinished'
  BY SwapStep, UnfinishedStep
<1>5. Spec => []SwapDeadline
  BY <1>1, <1>2, <1>4, StateInvariance, PTL DEF Spec
<1>6. Spec => [][A]_vars
  BY <1>1, <1>3, <1>4, StateInvariance, PTL DEF Spec
<1>7. QED
  BY <1>5, <1>6 DEF SwapCountsDown

\* A voice in the ring has not outlived its set.
InTime == \A i \in Occupied : ringing[i].age <= ringing[i].k

LEMMA InTimeStep == StateOK /\ InTime /\ [Next]_vars => InTime'
<1> SUFFICES ASSUME StateOK, InTime, [Next]_vars PROVE InTime'
  OBVIOUS
<1>1. ASSUME NEW cap \in 1 .. RingSlots, NEW i \in FreezeInto(cap), ringing' = Frozen(i, cap)
      PROVE  InTime'
  <2>1. CASE live = None /\ ringing' = ringing
    BY <2>1 DEF InTime, Occupied
  <2>2. CASE ~ (live = None /\ ringing' = ringing)
    <3>1. SUFFICES ASSUME NEW j \in Occupied' PROVE ringing'[j].age <= ringing'[j].k
      BY DEF InTime
    <3>2. /\ live # None /\ Occupied' = Occupied \cup {i}
          /\ ringing'[j].k = VoiceAfter(i, j).k /\ ringing'[j].age = VoiceAfter(i, j).age
      BY <1>1, <2>2, <3>1, FreezeVoices
    <3>3. CASE j = i
      <4>1. FrozenVoice.age = 1 /\ FrozenVoice.k = live.k
        BY DEF FrozenVoice
      <4>2. live.k \in 1 .. MaxParts
        BY <3>2 DEF StateOK, LiveVoice
      <4>3. QED
        BY <3>2, <3>3, <4>1, <4>2 DEF VoiceAfter
    <3>4. CASE j # i
      BY <3>1, <3>2, <3>4 DEF VoiceAfter, InTime
    <3>5. QED
      BY <3>3, <3>4
  <2>3. QED
    BY <2>1, <2>2
<1>2. CASE QueueSet
  <2>1. PICK k \in Lengths, cap \in Caps : QueueUngated(k, cap) \/ QueueGated(k, cap)
    BY <1>2 DEF QueueSet
  <2>2. cap \in 1 .. RingSlots
    BY CornerAssumption
  <2>3. PICK i \in FreezeInto(cap) : ringing' = Frozen(i, cap)
    BY <2>1 DEF QueueUngated, QueueGated, Freeze
  <2>4. QED
    BY <1>1, <2>2, <2>3
<1>3. CASE NextFrame
  <2>1. PICK cap \in Caps, audible \in BOOLEAN : ringing' = AgedRing(cap, audible)
    BY <1>3, CornerAssumption DEF NextFrame, Frame
  <2>2. SUFFICES ASSUME NEW j \in Occupied' PROVE ringing'[j].age <= ringing'[j].k
    BY DEF InTime
  <2>3. /\ j \in Occupied /\ j \notin Dead /\ ringing[j] \in RingVoice
        /\ ringing'[j].k = ringing[j].k /\ ringing'[j].age = ringing[j].age + 1
    BY <2>1, AgedFields
  <2>4. ringing[j].k \in Int /\ ringing[j].age \in Int
    BY <2>3 DEF RingVoice
  <2>5. ~ (ringing[j].age >= ringing[j].k)
    BY <2>3 DEF Dead
  <2>6. QED
    BY <2>3, <2>4, <2>5
<1>4. CASE Drain \/ UNCHANGED vars \/ \E k \in Lengths : InstallSource(k)
  BY <1>4 DEF Drain, vars, InstallSource, InTime, Occupied
<1>5. CASE \E k \in Lengths : StreamSource(k)
  <2>1. RingSlots \in 1 .. RingSlots
    BY CornerAssumption
  <2>2. PICK i \in FreezeInto(RingSlots) : ringing' = Frozen(i, RingSlots)
    BY <1>5 DEF StreamSource, Freeze
  <2>3. QED
    BY <1>1, <2>1, <2>2
<1>6. CASE Reset
  BY <1>6 DEF Reset, InTime, Occupied
<1>7. QED
  BY <1>2, <1>3, <1>4, <1>5, <1>6 DEF Next, RtNext, ControlNext

(***************************************************************************)
(* A frozen voice is gone MaxParts frames after the last set was handed    *)
(* over: it ages whether it sounds or is gated, dying or healthy           *)
(* (LayerVoice, process_frame), and only freezing sets a voice's age.      *)
(***************************************************************************)
THEOREM VoicesMeetTheirDeadline == Spec => []RingsDeadline /\ RingsCountDown
<1> DEFINE A == \A n \in Nat :
                  /\ NextFrame /\ RingsWithin(n + 1) => RingsWithin(n)'
                  /\ RingsWithin(n) => RingsWithin(n)' \/ HandedOver
<1>1. Init => InTime
  BY DEF Init, InTime, Occupied
<1>2. StateOK /\ InTime => RingsDeadline
  <2> SUFFICES ASSUME StateOK, InTime PROVE RingsDeadline
    OBVIOUS
  <2>1. \A i \in Occupied : /\ ringing[i].k \in 1 .. MaxParts /\ ringing[i].age \in 1 .. MaxParts
                            /\ ringing[i].age <= ringing[i].k
    BY DEF StateOK, Occupied, RingVoice, InTime
  <2>2. \A i \in Occupied : /\ ringing[i].k - ringing[i].age < MaxParts
                            /\ ~ (ringing[i].k - ringing[i].age < 0)
    BY <2>1, CornerAssumption
  <2>3. QED
    BY <2>2 DEF RingsDeadline, RingsWithin
<1>3. StateOK /\ [Next]_vars => [A]_vars
  <2> SUFFICES ASSUME StateOK, Next, NEW n \in Nat
               PROVE  /\ NextFrame /\ RingsWithin(n + 1) => RingsWithin(n)'
                      /\ RingsWithin(n) => RingsWithin(n)' \/ HandedOver
    OBVIOUS
  <2>1. ASSUME NextFrame, NEW j \in Occupied'
        PROVE  /\ j \in Occupied /\ ringing[j].k \in Int /\ ringing[j].age \in Int
               /\ ringing'[j].k = ringing[j].k /\ ringing'[j].age = ringing[j].age + 1
    <3>1. PICK cap \in Caps, audible \in BOOLEAN : ringing' = AgedRing(cap, audible)
      BY <2>1, CornerAssumption DEF NextFrame, Frame
    <3>2. /\ j \in Occupied /\ ringing[j] \in RingVoice
          /\ ringing'[j].k = ringing[j].k /\ ringing'[j].age = ringing[j].age + 1
      BY <2>1, <3>1, AgedFields
    <3>3. QED
      BY <3>2 DEF RingVoice
  <2>2. ASSUME NextFrame, NEW l \in Nat, RingsWithin(l + 1) PROVE RingsWithin(l)'
    BY <2>1, <2>2 DEF RingsWithin
  <2>3. CASE NextFrame
    <3>1. RingsWithin(n) => RingsWithin(n)'
      BY <2>1, <2>3 DEF RingsWithin
    <3>2. QED
      BY <2>2, <2>3, <3>1
  <2>4. CASE Drain \/ (\E k \in Lengths : InstallSource(k)) \/ Reset
    <3>1. ringing' = ringing \/ Occupied' = {}
      BY <2>4 DEF Drain, InstallSource, Reset, Occupied
    <3>2. RingsWithin(n) => RingsWithin(n)'
      BY <3>1 DEF RingsWithin, Occupied
    <3>3. QED
      BY <2>2, <3>2
  <2>5. CASE HandedOver
    BY <2>2, <2>5
  <2>6. QED
    BY <2>3, <2>4, <2>5 DEF Next, RtNext, ControlNext, HandedOver
<1>4. Spec => []RingsDeadline
  BY <1>1, <1>2, InTimeStep, StateInvariance, PTL DEF Spec
<1>5. Spec => [][A]_vars
  BY <1>3, StateInvariance, PTL DEF Spec
<1>6. QED
  BY <1>4, <1>5 DEF RingsCountDown
=============================================================================
