------------------------------ MODULE Lifecycle ------------------------------
(***************************************************************************)
(* The synchronization boundary of a plugin instance (struct               *)
(* PluginInstance in wrac_clap_adapter/src/abi.rs).  Two atomic flags      *)
(* guard it: lifecycle_busy serializes the callbacks that create, take and *)
(* configure the processor; processor_busy makes the one that wins it the  *)
(* only user of the processor slot.  The audio path never waits; lifecycle *)
(* callbacks that must not fail spin.                                      *)
(*                                                                         *)
(* The host is hardly trusted: any thread may enter any callback at any    *)
(* time, but none begins once destroy has.  A callback has the instance    *)
(* from its entry on (from_plugin): on the way to its flag, and one of     *)
(* them also after it has given the flag back.  Once destroy has freed the *)
(* instance the model stops: what a callback still inside would do then,   *)
(* it does not say.  A processor is the channel count it was activated     *)
(* with.  The core lock is taken with lifecycle_busy held only, and so     *)
(* never contended.  Callbacks that touch neither flag, and the GUI, are   *)
(* left out.                                                               *)
(***************************************************************************)
CONSTANTS
  Threads,  (* host threads that call the instance                          *)
  Layouts,  (* channel counts                                               *)
  None

ASSUME LifecycleAssumption == None \notin Layouts

VARIABLES
  lifecycleBusy,  (* lifecycle_busy                                         *)
  processorBusy,  (* processor_busy                                         *)
  processor,      (* the slot: a processor or None                          *)
  channelCount,   (* AudioLayoutStore::channel_count                        *)
  call,           (* the callback each thread is in, or was in last         *)
  at,             (* where in it                                            *)
  owned,          (* the processor on each thread's stack, or None          *)
  gone,           (* destroy has freed the instance                         *)
  unguarded       (* the threads inside, but not past a flag, when destroy  *)
                  (* took the processor                                     *)

flags == <<lifecycleBusy, processorBusy>>
vars == <<flags, processor, channelCount, call, at, owned, gone, unguarded>>

Init ==
  /\ lifecycleBusy = FALSE /\ processorBusy = FALSE
  /\ processor = None
  /\ channelCount \in Layouts
  /\ call = [t \in Threads |-> "process"]
  /\ at = [t \in Threads |-> "idle"]
  /\ owned = [t \in Threads |-> None]
  /\ gone = FALSE
  /\ unguarded = {}

\* destroy is the last callback the host begins.
MayBegin(t) ==
  /\ at[t] = "idle" /\ ~ gone
  /\ \A u \in Threads : at[u] # "idle" => call[u] # "destroy"

Begin(t, name) ==
  /\ MayBegin(t)
  /\ call' = [call EXCEPT ![t] = name]
  /\ at' = [at EXCEPT ![t] = "enter"]
  /\ UNCHANGED <<flags, processor, channelCount, owned, gone, unguarded>>

Step(t, from, to) ==
  /\ at[t] = from /\ ~ gone
  /\ at' = [at EXCEPT ![t] = to]
  /\ UNCHANGED call

\* A callback that may fail does: on arguments it does not accept, or because
\* it finds the flag taken it needs.
Refuse(t) ==
  /\ \/ call[t] \in {"process", "apply"}
     \/ call[t] = "can_apply" /\ processorBusy
     \/ call[t] = "activate" /\ lifecycleBusy
  /\ Step(t, "enter", "idle")
  /\ UNCHANGED <<flags, processor, channelCount, owned, gone, unguarded>>

-----------------------------------------------------------------------------
(***************************************************************************)
(* Short uses of the slot: process, reset and start_processing ("process"  *)
(* here) and the query can_apply (with_processor_mut).                     *)
(***************************************************************************)

Borrow(t) ==
  /\ ~ processorBusy /\ call[t] \in {"process", "can_apply"}
  /\ Step(t, "enter", "borrow")
  /\ processorBusy' = TRUE
  /\ UNCHANGED <<lifecycleBusy, processor, channelCount, owned, gone, unguarded>>

\* can_apply goes on to the instance's ports if there is no processor.
GiveBack(t) ==
  /\ Step(t, "borrow",
          IF call[t] = "can_apply" /\ processor = None THEN "tail" ELSE "idle")
  /\ processorBusy' = FALSE
  /\ UNCHANGED <<lifecycleBusy, processor, channelCount, owned, gone, unguarded>>

Answer(t) ==
  /\ Step(t, "tail", "idle")
  /\ UNCHANGED <<flags, processor, channelCount, owned, gone, unguarded>>

-----------------------------------------------------------------------------
(***************************************************************************)
(* activate and apply_configuration, which fail when they would wait.      *)
(***************************************************************************)

\* Slip: nobody looks at lifecycle_busy.
EnterUnguarded(t) ==
  /\ call[t] \in {"activate", "apply"}
  /\ Step(t, "enter", "check")
  /\ lifecycleBusy' = TRUE
  /\ UNCHANGED <<processorBusy, processor, channelCount, owned, gone, unguarded>>

\* try_enter_lifecycle
Enter(t) ==
  /\ ~ lifecycleBusy /\ call[t] \in {"activate", "apply"}
  /\ Step(t, "enter", "check")
  /\ lifecycleBusy' = TRUE
  /\ UNCHANGED <<processorBusy, processor, channelCount, owned, gone, unguarded>>

\* Slip: the guard exists before the flag is won, and clears it on the way out.
CheckClearing(t) ==
  /\ \/ /\ processorBusy
        /\ Step(t, "check", "leave")
        /\ processorBusy' = FALSE
     \/ /\ ~ processorBusy
        /\ Step(t, "check", "look")
        /\ processorBusy' = TRUE
  /\ UNCHANGED <<lifecycleBusy, processor, channelCount, owned, gone, unguarded>>

\* has_processor_or_busy: a busy slot counts as a processor.
Check(t) ==
  /\ \/ /\ processorBusy
        /\ Step(t, "check", "leave")
        /\ UNCHANGED processorBusy
     \/ /\ ~ processorBusy
        /\ Step(t, "check", "look")
        /\ processorBusy' = TRUE
  /\ UNCHANGED <<lifecycleBusy, processor, channelCount, owned, gone, unguarded>>

\* Slip: apply does not repeat the check of can_apply.
LookTrusting(t) ==
  /\ Step(t, "look", IF processor = None \/ call[t] = "apply" THEN "work" ELSE "leave")
  /\ processorBusy' = FALSE
  /\ UNCHANGED <<lifecycleBusy, processor, channelCount, owned, gone, unguarded>>

\* Slip: the early return leaves the flag set.
LookKeeping(t) ==
  /\ Step(t, "look", IF processor = None THEN "work" ELSE "leave")
  /\ processorBusy' = (processor # None)
  /\ UNCHANGED <<lifecycleBusy, processor, channelCount, owned, gone, unguarded>>

Look(t) ==
  /\ Step(t, "look", IF processor = None THEN "work" ELSE "leave")
  /\ processorBusy' = FALSE
  /\ UNCHANGED <<lifecycleBusy, processor, channelCount, owned, gone, unguarded>>

\* apply_configuration takes the requested layout or refuses it.
Configure(t) ==
  /\ call[t] = "apply"
  /\ Step(t, "work", "leave")
  /\ channelCount' \in Layouts
  /\ UNCHANGED <<flags, processor, owned, gone, unguarded>>

\* PluginCore::activate reads the layout and makes a processor, or fails.
Create(t) ==
  /\ call[t] = "activate"
  /\ \/ Step(t, "work", "put") /\ owned' = [owned EXCEPT ![t] = channelCount]
     \/ Step(t, "work", "leave") /\ UNCHANGED owned
  /\ UNCHANGED <<flags, processor, channelCount, gone, unguarded>>

\* put_processor_blocking spins for the flag, stores and gives it back.
Put(t) ==
  /\ ~ processorBusy
  /\ Step(t, "put", "store")
  /\ processorBusy' = TRUE
  /\ UNCHANGED <<lifecycleBusy, processor, channelCount, owned, gone, unguarded>>

Store(t) ==
  /\ Step(t, "store", "leave")
  /\ processor' = owned[t]
  /\ owned' = [owned EXCEPT ![t] = None]
  /\ processorBusy' = FALSE
  /\ UNCHANGED <<lifecycleBusy, channelCount, gone, unguarded>>

-----------------------------------------------------------------------------
(***************************************************************************)
(* deactivate and destroy, which wait.                                     *)
(***************************************************************************)

\* Slip: destroy does not wait for the guard.
EnterRushed(t) ==
  /\ ~ lifecycleBusy \/ call[t] = "destroy"
  /\ call[t] \in {"deactivate", "destroy"}
  /\ Step(t, "enter", "reclaim")
  /\ lifecycleBusy' = TRUE
  /\ UNCHANGED <<processorBusy, processor, channelCount, owned, gone, unguarded>>

\* enter_lifecycle_blocking
EnterBlocking(t) ==
  /\ ~ lifecycleBusy /\ call[t] \in {"deactivate", "destroy"}
  /\ Step(t, "enter", "reclaim")
  /\ lifecycleBusy' = TRUE
  /\ UNCHANGED <<processorBusy, processor, channelCount, owned, gone, unguarded>>

\* Slip: one try, as on the audio thread.
ReclaimOnce(t) ==
  /\ \/ processorBusy /\ Step(t, "reclaim", "leave")
     \/ ~ processorBusy /\ Step(t, "reclaim", "take")
  /\ processorBusy' = TRUE
  /\ UNCHANGED <<lifecycleBusy, processor, channelCount, owned, gone, unguarded>>

\* take_processor_blocking spins for the flag, takes and gives it back.
Reclaim(t) ==
  /\ ~ processorBusy
  /\ Step(t, "reclaim", "take")
  /\ processorBusy' = TRUE
  /\ UNCHANGED <<lifecycleBusy, processor, channelCount, owned, gone, unguarded>>

\* Slip: the slot is emptied without looking whether it was.
TakeUnchecked(t) ==
  /\ Step(t, "take", "teardown")
  /\ owned' = [owned EXCEPT ![t] = processor]
  /\ processor' = None
  /\ processorBusy' = FALSE
  /\ UNCHANGED <<lifecycleBusy, channelCount, gone, unguarded>>

Take(t) ==
  /\ Step(t, "take", IF processor = None THEN "leave" ELSE "teardown")
  /\ owned' = [owned EXCEPT ![t] = processor]
  /\ processor' = None
  /\ processorBusy' = FALSE
  /\ unguarded' = IF call[t] = "destroy"
                  THEN {u \in Threads : at[u] \in {"enter", "tail"}}
                  ELSE unguarded
  /\ UNCHANGED <<lifecycleBusy, channelCount, gone>>

\* PluginCore::deactivate drops the processor.
Teardown(t) ==
  /\ Step(t, "teardown", "leave")
  /\ owned' = [owned EXCEPT ![t] = None]
  /\ UNCHANGED <<flags, processor, channelCount, gone, unguarded>>

-----------------------------------------------------------------------------

\* The guard is dropped; all but destroy return.
Leave(t) ==
  /\ Step(t, "leave", IF call[t] = "destroy" THEN "free" ELSE "idle")
  /\ lifecycleBusy' = FALSE
  /\ UNCHANGED <<processorBusy, processor, channelCount, owned, gone, unguarded>>

\* destroy frees the instance.
Free(t) ==
  /\ Step(t, "free", "idle")
  /\ gone' = TRUE
  /\ UNCHANGED <<flags, processor, channelCount, owned, unguarded>>

Callbacks == {"process", "can_apply", "activate", "apply", "deactivate", "destroy"}

\* What the host may begin.
Callback(t) == \E name \in Callbacks : Begin(t, name)

\* What a thread does within a callback, without waiting.
Proceed(t) ==
  \/ Refuse(t) \/ Borrow(t) \/ GiveBack(t) \/ Answer(t)
  \/ Enter(t) \/ Check(t) \/ Look(t) \/ Configure(t) \/ Create(t) \/ Store(t)
  \/ Take(t) \/ Teardown(t) \/ Leave(t) \/ Free(t)

\* What it does after waiting.
Win(t) == EnterBlocking(t) \/ Put(t) \/ Reclaim(t)

Next == \E t \in Threads : Callback(t) \/ Proceed(t) \/ Win(t)

\* Callbacks run on; a spinning thread gets the flag if it is free again and
\* again.
Spec == /\ Init /\ [][Next]_vars
        /\ \A t \in Threads : WF_vars(Proceed(t)) /\ SF_vars(Win(t))

-----------------------------------------------------------------------------
(***************************************************************************)
(* Properties.                                                             *)
(***************************************************************************)

InLifecycle(t) == at[t] \notin {"idle", "enter", "borrow", "tail", "free"}
HoldsSlot(t) == at[t] \in {"borrow", "look", "store", "take"}

\* Every variable has its type; a thread has a processor of its own exactly
\* where the code has one on the stack.
TypeOK ==
  /\ lifecycleBusy \in BOOLEAN /\ processorBusy \in BOOLEAN /\ gone \in BOOLEAN
  /\ processor \in Layouts \cup {None}
  /\ channelCount \in Layouts
  /\ call \in [Threads -> Callbacks]
  /\ at \in [Threads -> {"idle", "enter", "borrow", "tail", "check", "look", "work",
                         "put", "store", "reclaim", "take", "teardown", "leave",
                         "free"}]
  /\ unguarded \subseteq Threads
  /\ owned \in [Threads -> Layouts \cup {None}]
  /\ \A t \in Threads : owned[t] # None <=> at[t] \in {"put", "store", "teardown"}

\* The slot has one user at a time ("only a callback that wins the atomic
\* guard constructs a &mut to Processor"), whatever the host's threads do.
ExclusiveSlot ==
  \A t, u \in Threads : HoldsSlot(t) /\ HoldsSlot(u) => t = u

\* An instance has one processor at most: activate makes none while another
\* is in the slot or still being torn down, and never replaces one.
OneProcessor ==
  \A t \in Threads : owned[t] # None =>
    /\ processor = None
    /\ \A u \in Threads \ {t} : owned[u] = None

\* A processor runs with the layout the host is told of: nothing configures
\* the ports between activate's look at them and the end of the processor.
LayoutInForce ==
  /\ processor \in {channelCount, None}
  /\ \A t \in Threads : owned[t] \in {channelCount, None}

\* When deactivate or destroy give lifecycle_busy back, no processor is left,
\* also if audio callbacks raced them ("must reclaim the Processor before
\* returning").
Reclaimed ==
  [][\A t \in Threads :
       at[t] = "leave" /\ at'[t] # "leave" /\ call[t] \in {"deactivate", "destroy"}
         => processor' = None /\ \A u \in Threads : owned'[u] = None]_vars

\* The instance is not freed under a callback that had won its flag before
\* destroy took the processor: destroy waits for all of those ("never frees the
\* instance while process() holds a temporary Processor borrow").  It does not
\* wait for those which have entered and not come to their flag, nor for a
\* can_apply that has given it back; only they can still be inside.
NobodyInside == gone => \A t \in Threads : at[t] # "idle" => t \in unguarded

\* Every callback returns, also those that spin, unless the instance is freed
\* first.
CallbacksReturn == \A t \in Threads : at[t] # "idle" ~> at[t] = "idle" \/ gone
=============================================================================
