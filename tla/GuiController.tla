---------------------------- MODULE GuiController ----------------------------
(***************************************************************************)
(* The editor of a plugin instance (wrac_wxp_gui/src/controller.rs and     *)
(* runtime.rs).  The host's callbacks open and close sessions and give     *)
(* them a parent window; the runtime of a session (its WebView) is created *)
(* by a callback posted to the run loop of the GUI thread, one at a time,  *)
(* and may arrive when its session is long gone.                           *)
(*                                                                         *)
(* Host callbacks are serialized (gui_callback_busy).  set_parent needs    *)
(* the GUI thread; the others come on it too, or on another thread, and    *)
(* then run between the steps of the posted callback.  A step ends where   *)
(* the state's lock is released; RunLoop::call from another thread waits   *)
(* for the GUI thread.  Size and scale are left out.  A parent has its     *)
(* lease, so the leases are the parents and runtimes there are.            *)
(***************************************************************************)
EXTENDS Integers, Sequences, FiniteSets

CONSTANTS
  Parents,      (* native windows of the host                               *)
  HostThreads,  (* subset of {"gui", "other"}                               *)
  Forgets,      (* TRUE: a run loop whose last lease goes may forget posts  *)
  MaxCalls,     (* bound: host callbacks                                    *)
  MaxFailures,  (* bound: native calls and posts that fail                  *)
  None

ASSUME GuiAssumption ==
  /\ HostThreads \subseteq {"gui", "other"} /\ HostThreads # {}
  /\ Forgets \in BOOLEAN
  /\ MaxCalls \in Nat /\ MaxFailures \in Nat

Sessions == [generation : Nat, parent : Parents \cup {None}, handle : Nat \cup {None},
             visible : BOOLEAN]

ASSUME NoneAssumption == None \notin Nat /\ None \notin Parents /\ None \notin Sessions

VARIABLES
  (* GuiRuntimeState *)
  session,           (* GuiSession or None                                  *)
  generation,
  creating,          (* creating_generation; None: not is_creating_runtime  *)
  pending,           (* pending_creation_generation                         *)
  destroyRequested,  (* destroy_requested_while_creating                    *)
  (* the GUI thread *)
  runtimes,          (* GUI_RUNTIMES: id -> runtime                         *)
  made,              (* NEXT_GUI_ID                                         *)
  posted,            (* creations posted to the run loop                    *)
  task,              (* where the posted callback is                        *)
  request,           (* the creation it serves                              *)
  fresh,             (* the handle on its stack, or None                    *)
  (* the host *)
  on,                (* the thread of its callbacks                         *)
  host,              (* the callback it is in: where, and what it read      *)
  calls, failures

state == <<session, generation, creating, pending, destroyRequested>>
gui   == <<runtimes, made, posted, task, request, fresh>>
vars  == <<state, gui, on, host, calls, failures>>

Idle == [at |-> "idle", then |-> "idle", generation |-> 0, handle |-> None]

Init ==
  /\ session = None /\ generation = 0
  /\ creating = None /\ pending = None /\ destroyRequested = FALSE
  /\ runtimes = [id \in {} |-> None] /\ made = 0
  /\ posted = <<>> /\ task = "idle"
  /\ request = None /\ fresh = None
  /\ on \in HostThreads
  /\ host = Idle
  /\ calls = 0 /\ failures = 0

Drop(rs, ids) == [id \in DOMAIN rs \ ids |-> rs[id]]

\* A native call or a post that fails.
Fail == failures < MaxFailures /\ failures' = failures + 1

\* The run loop after some leases were dropped: with the last it may forget
\* what was posted.
Released(rs, s, q) ==
  IF Forgets /\ DOMAIN rs = {} /\ (s = None \/ s.parent = None) THEN {q, <<>>} ELSE {q}

-----------------------------------------------------------------------------
(***************************************************************************)
(* schedule_runtime_creation: Scheduled and Unscheduled are its successes, *)
(* Refused its failures, for the session s.                                *)
(***************************************************************************)

Busy == creating # None

\* The session s may have a runtime made for it.
Valid(s, gen) == s # None /\ s.generation = gen /\ s.parent # None

\* Another creation is under way, or the runtime is there.
Unscheduled(s, gen) ==
  /\ Busy \/ (Valid(s, gen) /\ s.handle # None)
  /\ pending' = IF Busy THEN gen ELSE pending
  /\ UNCHANGED <<creating, destroyRequested, posted, failures>>

Scheduled(s, gen) ==
  /\ ~ Busy /\ Valid(s, gen) /\ s.handle = None
  /\ creating' = gen /\ pending' = None /\ destroyRequested' = FALSE
  /\ posted' = Append(posted, [generation |-> gen, parent |-> s.parent])
  /\ UNCHANGED failures

\* Nothing to create for, or the post fails and the flag is cleared.
Refused(s, gen) ==
  \/ /\ ~ Busy /\ ~ Valid(s, gen)
     /\ UNCHANGED <<creating, pending, destroyRequested, posted, failures>>
  \/ /\ ~ Busy /\ Valid(s, gen) /\ s.handle = None
     /\ Fail
     /\ pending' = None /\ destroyRequested' = FALSE
     /\ UNCHANGED <<creating, posted>>

Schedule(s, gen) == Scheduled(s, gen) \/ Unscheduled(s, gen) \/ Refused(s, gen)

-----------------------------------------------------------------------------
(***************************************************************************)
(* The host's callbacks.                                                   *)
(***************************************************************************)

\* RunLoop::call: the GUI thread is free, or is the caller.
GuiFree == task = "idle"

Begin ==
  /\ host.at = "idle" /\ calls < MaxCalls
  /\ on = "gui" => GuiFree
  /\ calls' = calls + 1

\* drop_session has work to do for a session with a parent only.
Dropping(then) ==
  IF session = None \/ session.parent = None
  THEN [Idle EXCEPT !.at = then]
  ELSE [Idle EXCEPT !.at = "drop", !.then = then, !.handle = session.handle]

\* destroy, and create, which begins with it: while a runtime is being
\* created the session is taken and the callback told.
BeginDestroy(then) ==
  /\ Begin
  /\ IF creating # None
     THEN /\ host' = Dropping(then)
          /\ session' = None
          /\ generation' = generation + 1
          /\ destroyRequested' = TRUE
     ELSE /\ host' = [Idle EXCEPT !.at = "take", !.then = then]
          /\ UNCHANGED <<session, generation, destroyRequested>>
  /\ UNCHANGED <<creating, pending, gui, on, failures>>

TakeSession ==
  /\ host.at = "take"
  /\ host' = Dropping(host.then)
  /\ session' = None
  /\ UNCHANGED <<generation, creating, pending, destroyRequested, gui, on, calls, failures>>

\* drop_session: the runtime first, then the parent's lease.
DropSession ==
  /\ host.at = "drop" /\ GuiFree
  /\ runtimes' = Drop(runtimes, {host.handle})
  /\ posted' \in Released(runtimes', None, posted)
  /\ host' = [Idle EXCEPT !.at = host.then]
  /\ UNCHANGED <<state, made, task, request, fresh, on, calls, failures>>

Session(gen) ==
  [generation |-> gen, parent |-> None, handle |-> None, visible |-> TRUE]

\* The rest of create.
Open ==
  /\ host.at = "open"
  /\ generation' = generation + 1
  /\ session' = Session(generation')
  /\ host' = Idle
  /\ UNCHANGED <<creating, pending, destroyRequested, gui, on, calls, failures>>

\* On the GUI thread, so in one step: an old runtime is destroyed, the parent
\* stored and a creation scheduled.
SetParent(p) ==
  /\ Begin /\ GuiFree /\ session # None
  /\ LET s == [session EXCEPT !.parent = p, !.handle = None]
     IN  session' = s /\ Schedule(s, s.generation)
  /\ runtimes' = Drop(runtimes, {session.handle})
  /\ UNCHANGED <<generation, made, task, request, fresh, on, host>>

\* show and hide read the session; show without a runtime needs a parent.
BeginShow ==
  /\ Begin /\ session # None
  /\ session.handle # None \/ session.parent # None
  /\ host' = [at |-> IF session.handle = None THEN "schedule" ELSE "native",
              then |-> "show", generation |-> session.generation,
              handle |-> session.handle]
  /\ UNCHANGED <<state, gui, on, failures>>

BeginHide ==
  /\ Begin /\ session # None
  /\ host' = [at |-> IF session.handle = None THEN "mark" ELSE "native",
              then |-> "hide", generation |-> session.generation,
              handle |-> session.handle]
  /\ UNCHANGED <<state, gui, on, failures>>

\* The runtime is shown or hidden; if it is gone the callback fails.
ShowOrHide ==
  /\ host.at = "native" /\ GuiFree
  /\ IF host.handle \in DOMAIN runtimes
     THEN /\ runtimes' = [runtimes EXCEPT ![host.handle].shown = (host.then = "show")]
          /\ host' = [host EXCEPT !.at = "mark"]
     ELSE host' = Idle /\ UNCHANGED runtimes
  /\ UNCHANGED <<state, made, posted, task, request, fresh, on, calls, failures>>

ShowSchedules ==
  /\ host.at = "schedule"
  /\ \/ /\ Scheduled(session, host.generation) \/ Unscheduled(session, host.generation)
        /\ host' = [host EXCEPT !.at = "mark"]
     \/ Refused(session, host.generation) /\ host' = Idle
  /\ UNCHANGED <<session, generation, runtimes, made, task, request, fresh, on, calls>>

\* The session remembers what was asked for, if it is the same still.
Mark ==
  /\ host.at = "mark"
  /\ session' = IF session # None /\ session.generation = host.generation
                THEN [session EXCEPT !.visible = (host.then = "show")]
                ELSE session
  /\ host' = Idle
  /\ UNCHANGED <<generation, creating, pending, destroyRequested, gui, on, calls, failures>>

-----------------------------------------------------------------------------
(***************************************************************************)
(* The posted callback, on the GUI thread.                                 *)
(***************************************************************************)

\* Slip: any session will do.
SomeSession(r) == session # None

\* The session a creation was requested for is still there.
StillOpen(r) == session # None /\ session.generation = r.generation

Current == StillOpen(request)

\* The callback runs when the GUI thread is not in a host callback.  A stale
\* one ends before it creates anything.
Start ==
  /\ GuiFree /\ posted # <<>>
  /\ on = "gui" => host.at = "idle"
  /\ request' = Head(posted)
  /\ posted' = Tail(posted)
  /\ task' = IF StillOpen(Head(posted)) THEN "create" ELSE "after"
  /\ UNCHANGED <<state, runtimes, made, fresh, on, host, calls, failures>>

\* After a runtime was destroyed a quiet period is slept through first, and
\* the session looked at again.
FindStale ==
  /\ task = "create" /\ ~ Current /\ made > Cardinality(DOMAIN runtimes)
  /\ task' = "after"
  /\ UNCHANGED <<state, runtimes, made, posted, request, fresh, on, host, calls, failures>>

\* The parent's handle cannot be converted, or the factory fails; only the
\* factory's failure clears the flag.
CreateFails ==
  /\ task = "create" /\ Fail
  /\ \/ UNCHANGED state
     \/ /\ creating = request.generation
        /\ creating' = None /\ pending' = None /\ destroyRequested' = FALSE
        /\ UNCHANGED <<session, generation>>
  /\ task' = "after"
  /\ UNCHANGED <<runtimes, made, posted, request, fresh, on, host, calls>>

Create ==
  /\ task = "create"
  /\ made' = made + 1
  /\ fresh' = made'
  /\ runtimes' = [id \in DOMAIN runtimes \cup {made'} |->
                    IF id = made'
                    THEN [generation |-> request.generation,
                          parent |-> request.parent, shown |-> TRUE]
                    ELSE runtimes[id]]
  /\ task' = "finish"
  /\ UNCHANGED <<state, posted, request, on, host, calls, failures>>

\* The callback is done with the runtimes ids: they are destroyed.
Finished(ids) ==
  /\ runtimes' = Drop(runtimes, ids)
  /\ posted' \in Released(runtimes', session, posted)
  /\ fresh' = None
  /\ task' = "after"

\* finish_runtime_creation_requested_destroy
CreationOver ==
  IF creating = request.generation
  THEN /\ creating' = None /\ destroyRequested' = FALSE
       /\ pending' = IF ~ (destroyRequested \/ ~ Current) THEN pending
                     ELSE IF session = None THEN None ELSE session.generation
  ELSE UNCHANGED <<creating, pending, destroyRequested>>

\* Slip: the stale handle is let go of, which destroys nothing.
FinishLetsGo ==
  /\ task = "finish"
  /\ CreationOver
  /\ IF destroyRequested \/ ~ Current
     THEN Finished({})
     ELSE task' = "apply" /\ UNCHANGED <<runtimes, posted, fresh>>
  /\ UNCHANGED <<session, generation, made, request, on, host, calls, failures>>

Finish ==
  /\ task = "finish"
  /\ CreationOver
  /\ IF destroyRequested \/ ~ Current
     THEN Finished({fresh})
     ELSE task' = "apply" /\ UNCHANGED <<runtimes, posted, fresh>>
  /\ UNCHANGED <<session, generation, made, request, on, host, calls, failures>>

\* A runtime is visible when made, and hidden if the session is.
InitiallyShown(visible) == visible

\* The latest state is applied to the new runtime; what fails destroys it.
Apply ==
  /\ task = "apply"
  /\ \/ /\ Current
        /\ runtimes' = [runtimes EXCEPT ![fresh].shown = InitiallyShown(session.visible)]
        /\ task' = "store"
        /\ UNCHANGED <<posted, fresh, failures>>
     \/ ~ Current /\ Finished({fresh}) /\ UNCHANGED failures
     \/ Current /\ Fail /\ Finished({fresh})
  /\ UNCHANGED <<state, made, request, on, host, calls>>

\* Slip: the handle replaced is dropped, which destroys nothing.
NotReplaced == {}

Replaced == {session.handle} \ {None}

\* The handle goes to its session, if that is the same still, and destroys
\* the one it replaces; else it is destroyed itself.
Store ==
  /\ task = "store"
  /\ IF Current
     THEN /\ session' = [session EXCEPT !.handle = fresh]
          /\ pending' = IF session.handle = None /\ pending = request.generation
                        THEN None ELSE pending
          /\ Finished(Replaced)
     ELSE Finished({fresh}) /\ UNCHANGED <<session, pending>>
  /\ UNCHANGED <<generation, creating, destroyRequested, made, request, on, host, calls,
                 failures>>

\* schedule_pending_runtime_creation, in two steps.
TakePending ==
  /\ task = "after"
  /\ pending' = None
  /\ IF \/ pending = None
        \/ session # None /\ session.generation = pending /\ session.handle # None
     THEN task' = "idle" /\ request' = None
     ELSE task' = "again" /\ request' = [request EXCEPT !.generation = pending]
  /\ UNCHANGED <<session, generation, creating, destroyRequested, runtimes, made, posted,
                 fresh, on, host, calls, failures>>

Again ==
  /\ task = "again"
  /\ Schedule(session, request.generation)
  /\ task' = "idle" /\ request' = None
  /\ UNCHANGED <<session, generation, runtimes, made, fresh, on, host, calls>>

-----------------------------------------------------------------------------

HostBegins == \/ \E then \in {"idle", "open"} : BeginDestroy(then)
              \/ \E p \in Parents : SetParent(p)
              \/ BeginShow \/ BeginHide

HostGoesOn == \/ TakeSession \/ DropSession \/ Open
              \/ ShowOrHide \/ ShowSchedules \/ Mark

GuiThread == \/ Start \/ FindStale \/ CreateFails \/ Create \/ Finish \/ Apply
             \/ Store \/ TakePending \/ Again

Next == HostBegins \/ HostGoesOn \/ GuiThread

\* A host callback ends and the run loop runs; the host need not call.
Spec == Init /\ [][Next]_vars /\ WF_vars(HostGoesOn) /\ WF_vars(GuiThread)

-----------------------------------------------------------------------------
(***************************************************************************)
(* Properties.                                                             *)
(***************************************************************************)

SessionHandle == IF session = None THEN {} ELSE {session.handle} \ {None}

\* No WebView leaks and no session holds one that is gone: a runtime belongs to
\* the session, to the posted callback or to the callback that destroys it,
\* although handles destroy nothing when dropped.
AllOwned ==
  /\ DOMAIN runtimes \subseteq
       SessionHandle \cup {fresh} \cup (IF host.at = "drop" THEN {host.handle} ELSE {})
  /\ SessionHandle \subseteq DOMAIN runtimes

\* A delayed callback never attaches its runtime to another session ("detect a
\* stale session and tear down the half-created runtime").
OwnSession ==
  \A id \in SessionHandle : runtimes[id].generation = session.generation

\* A closed editor goes away, whatever was in flight when it was closed.
ClosedEditorGoes == []<>(session # None) \/ <>[](DOMAIN runtimes = {})

HasParent == session # None /\ session.parent # None

\* A session with a parent gets its runtime when nothing fails, also after an
\* earlier one was closed early ("let a subsequent show/set_parent reschedule
\* it").
EditorComes == HasParent ~> (~ HasParent \/ session.handle # None)

=============================================================================
