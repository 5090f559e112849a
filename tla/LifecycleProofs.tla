-------------------------- MODULE LifecycleProofs --------------------------
(***************************************************************************)
(* Theorems about Lifecycle for every set of threads and layouts.          *)
(***************************************************************************)
EXTENDS Lifecycle, TLAPS

(***************************************************************************)
(* The inductive invariant.                                                *)
(***************************************************************************)

\* lifecycle_busy is set while somebody is in the lifecycle, and one at most is.
GuardHeld ==
  /\ \A t \in Threads : InLifecycle(t) => lifecycleBusy
  /\ \A t, u \in Threads : InLifecycle(t) /\ InLifecycle(u) => t = u

\* The same of processor_busy.
SlotHeld ==
  /\ \A t \in Threads : HoldsSlot(t) => processorBusy
  /\ \A t, u \in Threads : HoldsSlot(t) /\ HoldsSlot(u) => t = u

Cleanup == {"deactivate", "destroy"}

\* Which callbacks pass where.
RightPlace ==
  \A t \in Threads :
    /\ at[t] \in {"check", "look", "work"} => call[t] \in {"activate", "apply"}
    /\ at[t] \in {"put", "store"} => call[t] = "activate"
    /\ at[t] \in {"reclaim", "take", "teardown"} => call[t] \in Cleanup
    /\ at[t] = "free" => call[t] = "destroy"

\* Where the slot is known to be empty: what was seen there stays true, because
\* only the holder of lifecycle_busy fills it.
SlotEmpty ==
  \A t \in Threads :
    \/ at[t] \in {"work", "put", "store", "teardown"}
    \/ at[t] = "leave" /\ call[t] \in Cleanup
    => processor = None

\* One destroy is under way at most; from the moment it has emptied the slot,
\* others are inside only if they were then, and not past a flag.
Alone ==
  \A t, u \in Threads :
    call[t] = "destroy" /\ at[t] # "idle" /\ u # t =>
      /\ call[u] = "destroy" => at[u] = "idle"
      /\ at[t] \in {"teardown", "leave", "free"} => at[u] = "idle" \/ u \in unguarded

Inv ==
  /\ TypeOK /\ GuardHeld /\ SlotHeld /\ RightPlace /\ SlotEmpty
  /\ Alone /\ LayoutInForce /\ NobodyInside

LEMMA InvInit == Init => Inv
BY LifecycleAssumption
   DEF Init, Inv, TypeOK, GuardHeld, SlotHeld, RightPlace, SlotEmpty, Alone,
       LayoutInForce, NobodyInside, InLifecycle, HoldsSlot, Cleanup, Callbacks

LEMMA NextStep == Inv /\ Next => Inv'
<1> SUFFICES ASSUME Inv, NEW t \in Threads, Callback(t) \/ Proceed(t) \/ Win(t)
             PROVE  Inv'
  BY DEF Next
<1> USE DEF Inv, TypeOK, Step, flags, Callbacks
<1>1. CASE Callback(t)
  BY <1>1, LifecycleAssumption
     DEF Callback, Begin, MayBegin, GuardHeld, SlotHeld, RightPlace, SlotEmpty, Alone, LayoutInForce,
         NobodyInside, InLifecycle, HoldsSlot, Cleanup
<1>2. CASE Refuse(t)
  BY <1>2, LifecycleAssumption
     DEF Refuse, GuardHeld, SlotHeld, RightPlace, SlotEmpty, Alone, LayoutInForce,
         NobodyInside, InLifecycle, HoldsSlot, Cleanup
<1>3. CASE Borrow(t)
  BY <1>3, LifecycleAssumption
     DEF Borrow, GuardHeld, SlotHeld, RightPlace, SlotEmpty, Alone, LayoutInForce,
         NobodyInside, InLifecycle, HoldsSlot, Cleanup
<1>4. CASE GiveBack(t)
  <2> USE <1>4 DEF GiveBack
  <2>1. TypeOK'
    BY LifecycleAssumption
  <2>2. GuardHeld'
    BY DEF GuardHeld, InLifecycle
  <2>3. SlotHeld'
    BY DEF SlotHeld, HoldsSlot
  <2>4. RightPlace'
    BY DEF RightPlace, Cleanup
  <2>5. SlotEmpty'
    BY DEF SlotEmpty, GuardHeld, InLifecycle, RightPlace, Cleanup
  <2>6. Alone'
    BY DEF Alone, GuardHeld, SlotHeld, InLifecycle, HoldsSlot, RightPlace, Cleanup
  <2>7. LayoutInForce' /\ NobodyInside'
    BY DEF LayoutInForce, NobodyInside, Alone, GuardHeld, SlotEmpty, RightPlace,
           InLifecycle
  <2>8. QED
    BY <2>1, <2>2, <2>3, <2>4, <2>5, <2>6, <2>7
<1>5. CASE Answer(t)
  BY <1>5, LifecycleAssumption
     DEF Answer, GuardHeld, SlotHeld, RightPlace, SlotEmpty, Alone, LayoutInForce,
         NobodyInside, InLifecycle, HoldsSlot, Cleanup
<1>6. CASE Enter(t)
  BY <1>6, LifecycleAssumption
     DEF Enter, GuardHeld, SlotHeld, RightPlace, SlotEmpty, Alone, LayoutInForce,
         NobodyInside, InLifecycle, HoldsSlot, Cleanup
<1>7. CASE Check(t)
  <2> USE <1>7 DEF Check
  <2>1. TypeOK'
    BY LifecycleAssumption
  <2>2. GuardHeld'
    BY DEF GuardHeld, InLifecycle
  <2>3. SlotHeld'
    BY DEF SlotHeld, HoldsSlot
  <2>4. RightPlace'
    BY DEF RightPlace, Cleanup
  <2>5. SlotEmpty'
    BY DEF SlotEmpty, GuardHeld, InLifecycle, RightPlace, Cleanup
  <2>6. Alone'
    BY DEF Alone, GuardHeld, SlotHeld, InLifecycle, HoldsSlot, RightPlace, Cleanup
  <2>7. LayoutInForce' /\ NobodyInside'
    BY DEF LayoutInForce, NobodyInside, Alone, GuardHeld, SlotEmpty, RightPlace,
           InLifecycle
  <2>8. QED
    BY <2>1, <2>2, <2>3, <2>4, <2>5, <2>6, <2>7
<1>8. CASE Look(t)
  <2> USE <1>8 DEF Look
  <2>1. TypeOK'
    BY LifecycleAssumption
  <2>2. GuardHeld'
    BY DEF GuardHeld, InLifecycle
  <2>3. SlotHeld'
    BY DEF SlotHeld, HoldsSlot
  <2>4. RightPlace'
    BY DEF RightPlace, Cleanup
  <2>5. SlotEmpty'
    BY DEF SlotEmpty, GuardHeld, InLifecycle, RightPlace, Cleanup
  <2>6. Alone'
    BY DEF Alone, GuardHeld, SlotHeld, InLifecycle, HoldsSlot, RightPlace, Cleanup
  <2>7. LayoutInForce' /\ NobodyInside'
    BY DEF LayoutInForce, NobodyInside, Alone, GuardHeld, SlotEmpty, RightPlace,
           InLifecycle
  <2>8. QED
    BY <2>1, <2>2, <2>3, <2>4, <2>5, <2>6, <2>7
<1>9. CASE Configure(t)
  BY <1>9, LifecycleAssumption
     DEF Configure, GuardHeld, SlotHeld, RightPlace, SlotEmpty, Alone, LayoutInForce,
         NobodyInside, InLifecycle, HoldsSlot, Cleanup
<1>10. CASE Create(t)
  BY <1>10, LifecycleAssumption
     DEF Create, GuardHeld, SlotHeld, RightPlace, SlotEmpty, Alone, LayoutInForce,
         NobodyInside, InLifecycle, HoldsSlot, Cleanup
<1>11. CASE Put(t)
  BY <1>11, LifecycleAssumption
     DEF Put, GuardHeld, SlotHeld, RightPlace, SlotEmpty, Alone, LayoutInForce,
         NobodyInside, InLifecycle, HoldsSlot, Cleanup
<1>12. CASE Store(t)
  <2> USE <1>12 DEF Store
  <2>1. TypeOK'
    BY LifecycleAssumption
  <2>2. GuardHeld'
    BY DEF GuardHeld, InLifecycle
  <2>3. SlotHeld'
    BY DEF SlotHeld, HoldsSlot
  <2>4. RightPlace'
    BY DEF RightPlace, Cleanup
  <2>5. SlotEmpty'
    BY DEF SlotEmpty, GuardHeld, InLifecycle, RightPlace, Cleanup
  <2>6. Alone'
    BY DEF Alone, GuardHeld, SlotHeld, InLifecycle, HoldsSlot, RightPlace, Cleanup
  <2>7. LayoutInForce' /\ NobodyInside'
    BY DEF LayoutInForce, NobodyInside, Alone, GuardHeld, SlotEmpty, RightPlace,
           InLifecycle
  <2>8. QED
    BY <2>1, <2>2, <2>3, <2>4, <2>5, <2>6, <2>7
<1>13. CASE EnterBlocking(t)
  BY <1>13, LifecycleAssumption
     DEF EnterBlocking, GuardHeld, SlotHeld, RightPlace, SlotEmpty, Alone, LayoutInForce,
         NobodyInside, InLifecycle, HoldsSlot, Cleanup
<1>14. CASE Reclaim(t)
  BY <1>14, LifecycleAssumption
     DEF Reclaim, GuardHeld, SlotHeld, RightPlace, SlotEmpty, Alone, LayoutInForce,
         NobodyInside, InLifecycle, HoldsSlot, Cleanup
<1>15. CASE Take(t)
  <2> USE <1>15 DEF Take
  <2>1. TypeOK'
    BY LifecycleAssumption
  <2>2. GuardHeld'
    BY DEF GuardHeld, InLifecycle
  <2>3. SlotHeld'
    BY DEF SlotHeld, HoldsSlot
  <2>4. RightPlace'
    BY DEF RightPlace, Cleanup
  <2>5. SlotEmpty'
    BY DEF SlotEmpty, GuardHeld, InLifecycle, RightPlace, Cleanup
  <2>6. Alone'
    BY DEF Alone, GuardHeld, SlotHeld, InLifecycle, HoldsSlot, RightPlace, Cleanup
  <2>7. LayoutInForce' /\ NobodyInside'
    BY DEF LayoutInForce, NobodyInside, Alone, GuardHeld, SlotEmpty, RightPlace,
           InLifecycle
  <2>8. QED
    BY <2>1, <2>2, <2>3, <2>4, <2>5, <2>6, <2>7
<1>16. CASE Teardown(t)
  BY <1>16, LifecycleAssumption
     DEF Teardown, GuardHeld, SlotHeld, RightPlace, SlotEmpty, Alone, LayoutInForce,
         NobodyInside, InLifecycle, HoldsSlot, Cleanup
<1>17. CASE Leave(t)
  <2> USE <1>17 DEF Leave
  <2>1. TypeOK'
    BY LifecycleAssumption
  <2>2. GuardHeld'
    BY DEF GuardHeld, InLifecycle
  <2>3. SlotHeld'
    BY DEF SlotHeld, HoldsSlot
  <2>4. RightPlace'
    BY DEF RightPlace, Cleanup
  <2>5. SlotEmpty'
    BY DEF SlotEmpty, GuardHeld, InLifecycle, RightPlace, Cleanup
  <2>6. Alone'
    BY DEF Alone, GuardHeld, SlotHeld, InLifecycle, HoldsSlot, RightPlace, Cleanup
  <2>7. LayoutInForce' /\ NobodyInside'
    BY DEF LayoutInForce, NobodyInside, Alone, GuardHeld, SlotEmpty, RightPlace,
           InLifecycle
  <2>8. QED
    BY <2>1, <2>2, <2>3, <2>4, <2>5, <2>6, <2>7
<1>18. CASE Free(t)
  <2> USE <1>18 DEF Free
  <2>1. TypeOK'
    BY LifecycleAssumption
  <2>2. GuardHeld'
    BY DEF GuardHeld, InLifecycle
  <2>3. SlotHeld'
    BY DEF SlotHeld, HoldsSlot
  <2>4. RightPlace'
    BY DEF RightPlace, Cleanup
  <2>5. SlotEmpty'
    BY DEF SlotEmpty, GuardHeld, InLifecycle, RightPlace, Cleanup
  <2>6. Alone'
    BY DEF Alone, GuardHeld, SlotHeld, InLifecycle, HoldsSlot, RightPlace, Cleanup
  <2>7. LayoutInForce' /\ NobodyInside'
    BY DEF LayoutInForce, NobodyInside, Alone, GuardHeld, SlotEmpty, RightPlace,
           InLifecycle
  <2>8. QED
    BY <2>1, <2>2, <2>3, <2>4, <2>5, <2>6, <2>7
<1>19. QED
  BY <1>1, <1>2, <1>3, <1>4, <1>5, <1>6, <1>7, <1>8, <1>9, <1>10, <1>11,
     <1>12, <1>13, <1>14, <1>15, <1>16, <1>17, <1>18 DEF Proceed, Win

LEMMA InvStep == Inv /\ [Next]_vars => Inv'
<1> SUFFICES ASSUME Inv, [Next]_vars PROVE Inv'
  OBVIOUS
<1>1. CASE Next
  BY <1>1, NextStep
<1>2. CASE UNCHANGED vars
  BY <1>2 DEF Inv, vars, flags, TypeOK, GuardHeld, SlotHeld, RightPlace, SlotEmpty,
     Alone, LayoutInForce, NobodyInside, InLifecycle, HoldsSlot
<1>3. QED
  BY <1>1, <1>2

LEMMA Invariance == Spec => []Inv
<1>1. Init => Inv
  BY InvInit
<1>2. Inv /\ [Next]_vars => Inv'
  BY InvStep
<1>3. QED
  BY <1>1, <1>2, PTL DEF Spec

\* Every variable has its type, whatever the host's threads do.
THEOREM TypeCorrect == Spec => []TypeOK
<1>1. Inv => TypeOK
  BY DEF Inv
<1>2. QED
  BY <1>1, Invariance, PTL

\* with_processor_mut hands the processor to one callback at a time.
THEOREM SlotExclusion == Spec => []ExclusiveSlot
<1>1. Inv => ExclusiveSlot
  BY DEF Inv, SlotHeld, ExclusiveSlot
<1>2. QED
  BY <1>1, Invariance, PTL

\* activate never makes a second processor.
THEOREM SingleProcessor == Spec => []OneProcessor
<1>1. Inv => OneProcessor
  BY DEF Inv, TypeOK, GuardHeld, SlotEmpty, InLifecycle, OneProcessor
<1>2. QED
  BY <1>1, Invariance, PTL

\* A processor runs with the layout in the store.
THEOREM LayoutStable == Spec => []LayoutInForce
<1>1. Inv => LayoutInForce
  BY DEF Inv
<1>2. QED
  BY <1>1, Invariance, PTL

\* destroy frees the instance when every callback that had won its flag before
\* destroy took the processor has returned; the only ones it may free it under
\* are those that it found on the way to their flag, or past it.
THEOREM FreedAlone == Spec => []NobodyInside
<1>1. Inv => NobodyInside
  BY DEF Inv
<1>2. QED
  BY <1>1, Invariance, PTL

\* deactivate and destroy return with the processor gone.
THEOREM Reclaims == Spec => Reclaimed
<1> DEFINE A == \A t \in Threads :
       at[t] = "leave" /\ at'[t] # "leave" /\ call[t] \in {"deactivate", "destroy"}
         => processor' = None /\ \A u \in Threads : owned'[u] = None
<1>1. Inv /\ Inv' /\ [Next]_vars => [A]_vars
  <2> SUFFICES ASSUME Inv, Inv', Next,
                      NEW t \in Threads, at[t] = "leave", at'[t] # "leave",
                      call[t] \in {"deactivate", "destroy"}
               PROVE  processor' = None /\ \A u \in Threads : owned'[u] = None
    BY DEF vars
  <2>1. processor = None
    BY DEF Inv, SlotEmpty, Cleanup
  <2>2. \A u \in Threads : owned[u] = None
    BY DEF Inv, TypeOK, GuardHeld, InLifecycle
  <2>3. Leave(t)
    BY DEF Next, Inv, TypeOK, Callback, Proceed, Win, Refuse, Borrow, GiveBack, Answer,
       Enter, Check, Look, Configure, Create, Put, Store, EnterBlocking, Reclaim, Take,
       Teardown, Leave, Free, Begin, Step, MayBegin
  <2>4. QED
    BY <2>1, <2>2, <2>3 DEF Leave
<1>2. QED
  BY <1>1, Invariance, InvStep, PTL DEF Spec, Reclaimed

(***************************************************************************)
(* No flag leaks, and so nobody waits for ever on a flag nobody holds: what *)
(* CallbacksReturn needs besides fairness.                                 *)
(***************************************************************************)

\* A flag that is set has a holder: the guards of abi.rs clear it on every way
\* out, the early returns included.
FlagsReturned ==
  /\ lifecycleBusy => \E t \in Threads : InLifecycle(t)
  /\ processorBusy => \E t \in Threads : HoldsSlot(t)

\* The thread is inside a callback, and what it waits for, if anything, is free.
CanMove(t) ==
  /\ at[t] # "idle"
  /\ at[t] = "enter" /\ call[t] \in Cleanup => ~ lifecycleBusy
  /\ at[t] \in {"put", "reclaim"} => ~ processorBusy
  /\ at[t] = "work" => call[t] \in {"activate", "apply"}

\* While a callback is inside, one that is can move (until the instance is
\* freed): no two wait on each other, and none waits on a callback that has returned.
SomebodyMoves ==
  ~ gone /\ (\E t \in Threads : at[t] # "idle") => \E t \in Threads : CanMove(t)

LEMMA FlagsStep == Inv /\ FlagsReturned /\ Next => FlagsReturned'
<1> SUFFICES ASSUME Inv, FlagsReturned, NEW t \in Threads,
                    Callback(t) \/ Proceed(t) \/ Win(t)
             PROVE  FlagsReturned'
  BY DEF Next
<1>1. at \in [Threads -> {"idle", "enter", "borrow", "tail", "check", "look", "work",
                          "put", "store", "reclaim", "take", "teardown", "leave",
                          "free"}]
  BY DEF Inv, TypeOK
\* A step that takes a flag holds it; one that neither takes nor gives it back
\* leaves its holder where it was, or among the places that hold it.
<1>2. lifecycleBusy' => \E u \in Threads : InLifecycle(u)'
  <2> SUFFICES ASSUME lifecycleBusy' PROVE \E u \in Threads : InLifecycle(u)'
    OBVIOUS
  <2>1. InLifecycle(t)' \/ (lifecycleBusy /\ ~ InLifecycle(t) /\ \A u \in Threads \ {t} : at'[u] = at[u])
    BY <1>1 DEF Inv, GuardHeld, InLifecycle, Callback, Proceed, Win, Refuse, Borrow, GiveBack, Answer,
       Enter, Check, Look, Configure, Create, Put, Store, EnterBlocking, Reclaim, Take,
       Teardown, Leave, Free, Begin, Step, MayBegin, flags
  <2>2. QED
    BY <2>1 DEF FlagsReturned, InLifecycle
<1>3. processorBusy' => \E u \in Threads : HoldsSlot(u)'
  <2> SUFFICES ASSUME processorBusy' PROVE \E u \in Threads : HoldsSlot(u)'
    OBVIOUS
  <2>1. HoldsSlot(t)' \/ (processorBusy /\ ~ HoldsSlot(t) /\ \A u \in Threads \ {t} : at'[u] = at[u])
    BY <1>1 DEF Inv, SlotHeld, HoldsSlot, Callback, Proceed, Win, Refuse, Borrow, GiveBack, Answer,
       Enter, Check, Look, Configure, Create, Put, Store, EnterBlocking, Reclaim, Take,
       Teardown, Leave, Free, Begin, Step, MayBegin, flags
  <2>2. QED
    BY <2>1 DEF FlagsReturned, HoldsSlot
<1>4. QED
  BY <1>2, <1>3 DEF FlagsReturned

\* Both flags are given back on every way out of every callback.
THEOREM NoFlagLeaks == Spec => []FlagsReturned
<1>1. Init => FlagsReturned
  BY DEF Init, FlagsReturned
<1>2. Inv /\ FlagsReturned /\ [Next]_vars => FlagsReturned'
  <2>1. CASE UNCHANGED vars
    BY <2>1 DEF vars, flags, FlagsReturned, InLifecycle, HoldsSlot
  <2>2. QED
    BY <2>1, FlagsStep
<1>3. QED
  BY <1>1, <1>2, Invariance, PTL DEF Spec

\* The safety half of CallbacksReturn: the callbacks never all wait.
THEOREM NobodyDeadlocks == Spec => []SomebodyMoves
<1>1. Inv /\ FlagsReturned => SomebodyMoves
  <2> SUFFICES ASSUME Inv, FlagsReturned, NEW t \in Threads, at[t] # "idle", ~ gone
               PROVE  \E u \in Threads : CanMove(u)
    BY DEF SomebodyMoves
  <2>1. CASE processorBusy
    BY <2>1 DEF FlagsReturned, HoldsSlot, CanMove
  <2>2. CASE ~ processorBusy /\ lifecycleBusy
    BY <2>2 DEF FlagsReturned, InLifecycle, CanMove, Inv, RightPlace
  <2>3. CASE ~ processorBusy /\ ~ lifecycleBusy
    BY <2>3 DEF CanMove, Inv, RightPlace
  <2>4. QED
    BY <2>1, <2>2, <2>3
<1>2. QED
  BY <1>1, Invariance, NoFlagLeaks, PTL
=============================================================================
