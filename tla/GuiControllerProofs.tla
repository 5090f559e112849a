-------------------------- MODULE GuiControllerProofs --------------------------
(***************************************************************************)
(* Theorems about GuiController for any windows, threads, calls and        *)
(* failures: who owns the WebViews.                                        *)
(***************************************************************************)
EXTENDS GuiController, SequenceTheorems, TLAPS

Creations == [generation : Nat, parent : Parents \cup {None}]
Runtimes == [generation : Nat, parent : Parents \cup {None}, shown : BOOLEAN]
Making == {"finish", "apply", "store"}
Places == {"idle", "take", "drop", "open", "native", "schedule", "mark", "show", "hide"}
Callbacks == [at : Places, then : Places, generation : Nat, handle : Nat \cup {None}]

TypeOK ==
  /\ session \in Sessions \cup {None} /\ generation \in Nat
  /\ pending \in Nat \cup {None}
  /\ made \in Nat /\ DOMAIN runtimes \subseteq 1 .. made
  /\ runtimes \in [DOMAIN runtimes -> Runtimes]
  /\ posted \in Seq(Creations)
  /\ task \in {"idle", "create", "after", "again"} \cup Making
  /\ request \in Creations \cup {None}
  /\ task # "idle" => request \in Creations
  /\ host \in Callbacks

\* The session is the youngest there was, and has a window if it has a WebView.
Youngest ==
  session # None => /\ session.generation <= generation
                    /\ session.handle # None => session.parent # None

\* A creation was scheduled for a session that had a window.
Known(r) ==
  /\ r.generation <= generation
  /\ session # None /\ session.generation = r.generation => session.parent # None

Scheduling ==
  /\ \A i \in DOMAIN posted : Known(posted[i])
  /\ task \in {"create"} \cup Making => Known(request)

\* The posted callback holds a runtime of its own, made for its request.
Holding ==
  /\ fresh # None <=> task \in Making
  /\ fresh # None => /\ fresh \in DOMAIN runtimes \ SessionHandle
                     /\ runtimes[fresh].generation = request.generation

\* A callback that drops a session, or opens another one, has taken the old one.
Taken ==
  /\ host.at \in {"drop", "open"} => session = None
  /\ host.at \in {"take", "drop"} => host.then \in {"idle", "open"}

Inv ==
  /\ TypeOK /\ Youngest /\ Scheduling /\ Holding /\ Taken
  /\ AllOwned /\ OwnSession

-----------------------------------------------------------------------------
\* What a callback of the host is in is a place, for every place.
LEMMA CallbackType ==
  ASSUME NEW a \in Places, NEW t \in Places, NEW g \in Nat, NEW h \in Nat \cup {None}
  PROVE  [at |-> a, then |-> t, generation |-> g, handle |-> h] \in Callbacks
BY DEF Callbacks

LEMMA IdleType == Idle \in Callbacks /\ Idle.at = "idle"
<1>1. "idle" \in Places /\ 0 \in Nat /\ None \in Nat \cup {None}
  BY DEF Places
<1>2. QED
  BY <1>1, CallbackType DEF Idle

\* The records a callback is started with.
LEMMA IdleAt ==
  ASSUME NEW a \in Places, NEW c, c = [Idle EXCEPT !.at = a]
  PROVE  c \in Callbacks /\ c.at = a
BY IdleType DEF Callbacks

LEMMA InitInv == Init => Inv
<1> SUFFICES ASSUME Init PROVE Inv
  OBVIOUS
<1>1. posted = <<>> /\ posted \in Seq(Creations) /\ DOMAIN posted = {}
  BY EmptySeq, LenProperties DEF Init
<1>2. DOMAIN runtimes = {} /\ runtimes \in [DOMAIN runtimes -> Runtimes]
  BY DEF Init
<1>3. host.at = "idle" /\ host \in Callbacks
  BY IdleType DEF Init
<1>4. /\ session = None /\ generation = 0 /\ pending = None /\ made = 0
      /\ task = "idle" /\ request = None /\ fresh = None
  BY DEF Init
<1>5. TypeOK
  BY <1>1, <1>2, <1>3, <1>4 DEF TypeOK
<1>6. Youngest /\ Scheduling /\ Holding /\ Taken
  BY <1>1, <1>3, <1>4 DEF Youngest, Scheduling, Holding, Taken, Making
<1>7. AllOwned /\ OwnSession
  BY <1>2, <1>4 DEF AllOwned, OwnSession, SessionHandle
<1>8. QED
  BY <1>5, <1>6, <1>7 DEF Inv

\* A creation is added to the run loop for a session with a window, or none is.
LEMMA ScheduleStep ==
  ASSUME NEW s \in Sessions \cup {None}, NEW gen \in Nat,
         posted \in Seq(Creations), pending \in Nat \cup {None},
         Schedule(s, gen)
  PROVE  /\ pending' \in Nat \cup {None} /\ posted' \in Seq(Creations)
         /\ \A i \in DOMAIN posted' :
              \/ i \in DOMAIN posted /\ posted'[i] = posted[i]
              \/ s # None /\ s.parent # None /\ posted'[i].generation = s.generation
<1>1. pending' \in Nat \cup {None}
  BY DEF Schedule, Scheduled, Unscheduled, Refused
<1>2. CASE posted' = posted
  BY <1>1, <1>2
<1>3. CASE Scheduled(s, gen)
  <2> DEFINE c == [generation |-> gen, parent |-> s.parent]
             n == Len(posted)
             q == Append(posted, c)
  <2>1. /\ s # None /\ s.generation = gen /\ s.parent # None /\ posted' = q
        /\ s \in Sessions
    BY <1>3 DEF Scheduled, Valid
  <2>2. c \in Creations /\ c.generation = s.generation
    BY <2>1 DEF Creations, Sessions
  <2> HIDE DEF c
  <2>3. /\ n \in Nat /\ DOMAIN posted = 1 .. n /\ q \in Seq(Creations) /\ Len(q) = n + 1
        /\ \A i \in 1 .. n : q[i] = posted[i]
        /\ q[n + 1] = c
    BY <2>2, LenProperties, AppendProperties
  <2>4. DOMAIN q = 1 .. n + 1
    BY <2>3, LenProperties
  <2> HIDE DEF q, n
  <2>5. \A i \in DOMAIN q : (i \in DOMAIN posted /\ q[i] = posted[i]) \/ q[i] = c
    BY <2>3, <2>4
  <2>6. QED
    BY <1>1, <2>1, <2>2, <2>3, <2>5
<1>4. QED
  BY <1>2, <1>3 DEF Schedule, Unscheduled, Refused

\* A run loop that loses its last lease keeps what was posted, or forgets it.
LEMMA ReleasedStep ==
  ASSUME NEW rs, NEW s, posted \in Seq(Creations), posted' \in Released(rs, s, posted)
  PROVE  /\ posted' \in Seq(Creations)
         /\ \A i \in DOMAIN posted' : i \in DOMAIN posted /\ posted'[i] = posted[i]
<1>1. posted' = posted \/ posted' = <<>>
  BY DEF Released
<1>2. DOMAIN <<>> = {} /\ <<>> \in Seq(Creations)
  BY EmptySeq
<1>3. QED
  BY <1>1, <1>2

LEMMA DropType ==
  ASSUME TypeOK, NEW ids
  PROVE  /\ DOMAIN Drop(runtimes, ids) = DOMAIN runtimes \ ids
         /\ Drop(runtimes, ids) \in [DOMAIN runtimes \ ids -> Runtimes]
         /\ \A id \in DOMAIN runtimes \ ids : Drop(runtimes, ids)[id] = runtimes[id]
BY DEF TypeOK, Drop

LEMMA DroppingType ==
  ASSUME Inv, NEW then \in {"idle", "open"}
  PROVE  /\ Dropping(then) \in Callbacks
         /\ \/ Dropping(then).at = then /\ SessionHandle = {}
            \/ /\ Dropping(then).at = "drop" /\ Dropping(then).then = then
               /\ SessionHandle \subseteq {Dropping(then).handle}
<1>1. session # None => session.handle \in Nat \cup {None}
  BY DEF Inv, TypeOK, Sessions
<1>2. CASE session = None \/ session.parent = None
  <2>1. Dropping(then) = [Idle EXCEPT !.at = then]
    BY <1>2 DEF Dropping
  <2>2. SessionHandle = {}
    BY <1>2 DEF Inv, Youngest, SessionHandle
  <2>3. then \in Places
    BY DEF Places
  <2>4. Dropping(then) \in Callbacks /\ Dropping(then).at = then
    BY <2>1, <2>3, IdleAt
  <2>5. QED
    BY <2>2, <2>4
<1>3. CASE session # None /\ session.parent # None
  <2>1. Dropping(then) = [Idle EXCEPT !.at = "drop", !.then = then, !.handle = session.handle]
    BY <1>3 DEF Dropping
  <2>2. SessionHandle \subseteq {session.handle}
    BY <1>3 DEF SessionHandle
  <2>3. "drop" \in Places /\ then \in Places
    BY DEF Places
  <2>4. /\ Dropping(then) \in Callbacks /\ Dropping(then).at = "drop"
        /\ Dropping(then).then = then /\ Dropping(then).handle = session.handle
    <3>1. Dropping(then) = [at |-> "drop", then |-> then, generation |-> 0,
                            handle |-> session.handle]
      BY <2>1 DEF Idle
    <3>2. session.handle \in Nat \cup {None}
      BY <1>1, <1>3
    <3>3. [at |-> "drop", then |-> then, generation |-> 0, handle |-> session.handle]
            \in Callbacks
      BY <2>3, <3>2, CallbackType
    <3>4. QED
      BY <3>1, <3>3
  <2>5. QED
    BY <2>2, <2>4
<1>4. QED
  BY <1>2, <1>3

\* Steps that take the session for a callback that is to drop it.
LEMMA TakenStep ==
  ASSUME Inv, NEW then \in {"idle", "open"}, host.at # "drop",
         session' = None, host' = Dropping(then),
         generation' = generation \/ generation' = generation + 1,
         UNCHANGED <<pending, gui>>
  PROVE  Inv'
<1>1. /\ host' \in Callbacks
      /\ \/ host'.at = then /\ SessionHandle = {}
         \/ /\ host'.at = "drop" /\ host'.then = then
            /\ SessionHandle \subseteq {host'.handle}
  BY DroppingType
<1>2. SessionHandle' = {}
  BY DEF SessionHandle
<1>3. UNCHANGED <<runtimes, made, posted, task, request, fresh>>
  BY DEF gui
<1>4. PICK g \in Nat : generation' = g /\ generation <= g
  <2>1. generation \in Nat
    BY DEF Inv, TypeOK
  <2>2. QED
    BY <2>1
<1>5. TypeOK'
  BY <1>1, <1>3, <1>4 DEF Inv, TypeOK
<1>6. Youngest' /\ Taken'
  BY <1>1 DEF Youngest, Taken
<1>7. Scheduling'
  <2>1. \A i \in DOMAIN posted : posted[i].generation <= g
    <3>1. \A i \in DOMAIN posted : posted[i] \in Creations
      BY LenProperties DEF Inv, TypeOK
    <3>2. \A i \in DOMAIN posted : posted[i].generation \in Nat /\ posted[i].generation <= generation
      BY <3>1 DEF Inv, Scheduling, Known, Creations
    <3>3. generation \in Nat
      BY DEF Inv, TypeOK
    <3>4. QED
      BY <1>4, <3>2, <3>3
  <2>2. task \in {"create"} \cup Making => request.generation <= g
    <3>1. SUFFICES ASSUME task \in {"create"} \cup Making PROVE request.generation <= g
      OBVIOUS
    <3>2. request.generation \in Nat /\ request.generation <= generation /\ generation \in Nat
      BY <3>1 DEF Inv, TypeOK, Scheduling, Known, Creations, Making
    <3>3. QED
      BY <1>4, <3>2
  <2>3. QED
    BY <1>3, <1>4, <2>1, <2>2 DEF Scheduling, Known
<1>8. Holding'
  BY <1>2, <1>3 DEF Inv, Holding
<1>9. AllOwned' /\ OwnSession'
  BY <1>1, <1>2, <1>3 DEF Inv, AllOwned, OwnSession
<1>10. QED
  BY <1>5, <1>6, <1>7, <1>8, <1>9 DEF Inv

LEMMA BeginDestroyStep ==
  ASSUME Inv, NEW then \in {"idle", "open"}, BeginDestroy(then)
  PROVE  Inv'
<1>1. host.at = "idle" /\ UNCHANGED <<pending, gui>>
  BY DEF BeginDestroy, Begin
<1>2. CASE creating # None
  <2>1. session' = None /\ host' = Dropping(then) /\ generation' = generation + 1
    BY <1>2 DEF BeginDestroy
  <2>2. QED
    BY <1>1, <2>1, TakenStep
<1>3. CASE creating = None
  <2>1. /\ host' = [Idle EXCEPT !.at = "take", !.then = then]
        /\ UNCHANGED <<session, generation, pending, runtimes, made, posted, task,
                       request, fresh>>
    BY <1>3 DEF BeginDestroy, gui
  <2>2. /\ host'.at = "take" /\ host'.then = then
        /\ host' \in Callbacks
    <3>1. "take" \in Places /\ then \in Places
      BY DEF Places
    <3>2. host' = [at |-> "take", then |-> then, generation |-> 0, handle |-> None]
      BY <2>1 DEF Idle
    <3>3. QED
      BY <3>1, <3>2, CallbackType
  <2>3. SessionHandle' = SessionHandle
    BY <2>1 DEF SessionHandle
  <2>4. TypeOK' /\ Youngest' /\ Taken'
    BY <2>1, <2>2 DEF Inv, TypeOK, Youngest, Taken
  <2>5. Scheduling' /\ Holding'
    BY <2>1, <2>3 DEF Inv, Scheduling, Known, Holding
  <2>6. AllOwned' /\ OwnSession'
    BY <1>1, <2>1, <2>2, <2>3 DEF Inv, AllOwned, OwnSession
  <2>7. QED
    BY <2>4, <2>5, <2>6 DEF Inv
<1>4. QED
  BY <1>2, <1>3

LEMMA TakeSessionStep ==
  ASSUME Inv, TakeSession
  PROVE  Inv'
<1>1. host.then \in {"idle", "open"} /\ host.at # "drop"
  BY DEF TakeSession, Inv, Taken
<1>2. session' = None /\ host' = Dropping(host.then) /\ UNCHANGED <<generation, pending, gui>>
  BY DEF TakeSession
<1>3. QED
  BY <1>1, <1>2, TakenStep

\* What is posted is known still when it was, or is for the session.
LEMMA StillKnown ==
  ASSUME Inv, UNCHANGED generation,
         session' = None <=> session = None,
         session # None => /\ session'.generation = session.generation
                           /\ session'.parent = session.parent,
         posted' \in Seq(Creations),
         \A i \in DOMAIN posted' :
           \/ i \in DOMAIN posted /\ posted'[i] = posted[i]
           \/ session # None /\ session.parent # None /\ posted'[i].generation = session.generation,
         task' \in {"create"} \cup Making => Known(request')
  PROVE  Scheduling'
<1>1. \A i \in DOMAIN posted' : Known(posted'[i])
  BY DEF Inv, Scheduling, Youngest, Known
<1>2. QED
  BY <1>1 DEF Scheduling, Known, Making

\* A step that keeps the session, but for its visibility, and what there is.
LEMMA GentleStep ==
  ASSUME Inv, UNCHANGED <<generation, made, fresh>>,
         host' \in Callbacks,
         host' = host \/ (host.at # "drop" /\ host'.at \notin {"take", "drop", "open"}),
         session' \in Sessions \cup {None},
         session' = None <=> session = None,
         session # None => /\ session'.generation = session.generation
                           /\ session'.parent = session.parent
                           /\ session'.handle = session.handle,
         DOMAIN runtimes' = DOMAIN runtimes,
         runtimes' \in [DOMAIN runtimes -> Runtimes],
         \A id \in DOMAIN runtimes : runtimes'[id].generation = runtimes[id].generation,
         pending' \in Nat \cup {None}, posted' \in Seq(Creations),
         \A i \in DOMAIN posted' :
           \/ i \in DOMAIN posted /\ posted'[i] = posted[i]
           \/ session # None /\ session.parent # None /\ posted'[i].generation = session.generation,
         task' \in {"idle", "create", "after", "again"} \cup Making,
         request' \in Creations \cup {None},
         task' # "idle" => request' \in Creations,
         task' \in Making <=> task \in Making,
         task \in Making => request' = request,
         task' \in {"create"} \cup Making => Known(request')
  PROVE  Inv'
<1>1. SessionHandle' = SessionHandle
  BY DEF SessionHandle
<1>2. TypeOK'
  BY DEF Inv, TypeOK
<1>3. Youngest' /\ Taken'
  BY DEF Inv, Youngest, Taken
<1>4. Scheduling'
  BY StillKnown
<1>5. Holding'
  BY <1>1 DEF Inv, Holding
<1>6. AllOwned'
  BY <1>1 DEF Inv, AllOwned
<1>7. OwnSession'
  <2>1. SessionHandle \subseteq DOMAIN runtimes
    BY DEF Inv, AllOwned
  <2>2. SessionHandle # {} => session # None
    BY DEF SessionHandle
  <2>3. QED
    BY <1>1, <2>1, <2>2 DEF Inv, OwnSession
<1>8. QED
  BY <1>2, <1>3, <1>4, <1>5, <1>6, <1>7 DEF Inv

\* The posted callback destroys the runtime it holds and is done.
LEMMA FinishedStep ==
  ASSUME Inv, task \in Making, Finished({fresh}),
         pending' \in Nat \cup {None},
         UNCHANGED <<session, generation, made, request, host>>
  PROVE  Inv'
<1>1. SessionHandle' = SessionHandle
  BY DEF SessionHandle
<1>2. /\ DOMAIN runtimes' = DOMAIN runtimes \ {fresh}
      /\ runtimes' \in [DOMAIN runtimes' -> Runtimes]
      /\ \A id \in DOMAIN runtimes \ {fresh} : runtimes'[id] = runtimes[id]
  BY DropType DEF Finished, Inv
<1>3. /\ posted' \in Seq(Creations)
      /\ \A i \in DOMAIN posted' : i \in DOMAIN posted /\ posted'[i] = posted[i]
  <2>1. posted \in Seq(Creations) /\ posted' \in Released(runtimes', session, posted)
    BY DEF Inv, TypeOK, Finished
  <2>2. QED
    BY <2>1, ReleasedStep
<1>4. fresh' = None /\ task' = "after" /\ request \in Creations
  BY DEF Finished, Inv, TypeOK, Making
<1>5. TypeOK'
  BY <1>2, <1>3, <1>4 DEF Inv, TypeOK
<1>6. Youngest' /\ Taken'
  BY DEF Inv, Youngest, Taken
<1>7. Scheduling'
  <2>1. task' \notin {"create"} \cup Making
    BY <1>4 DEF Making
  <2>2. QED
    BY <1>3, <2>1, StillKnown
<1>8. Holding'
  BY <1>4 DEF Holding, Making
<1>9. AllOwned' /\ OwnSession'
  <2>1. SessionHandle \subseteq DOMAIN runtimes \ {fresh}
    BY DEF Inv, AllOwned, Holding
  <2>2. QED
    BY <1>1, <1>2, <2>1 DEF Inv, AllOwned, OwnSession
<1>10. QED
  BY <1>5, <1>6, <1>7, <1>8, <1>9 DEF Inv

-----------------------------------------------------------------------------
LEMMA DropSessionStep ==
  ASSUME Inv, DropSession
  PROVE  Inv'
<1>1. /\ host.at = "drop" /\ task = "idle" /\ session = None /\ fresh = None
      /\ host.then \in {"idle", "open"}
  BY DEF DropSession, GuiFree, Inv, Taken, Holding, Making
<1>2. /\ UNCHANGED <<session, generation, pending, made, task, request, fresh>>
      /\ runtimes' = Drop(runtimes, {host.handle})
      /\ posted' \in Released(runtimes', None, posted)
      /\ host' = [Idle EXCEPT !.at = host.then]
  BY DEF DropSession, state
<1>3. host' \in Callbacks /\ host'.at = host.then
  <2>1. host.then \in Places
    BY <1>1 DEF Places
  <2>2. QED
    BY <1>2, <2>1, IdleAt
<1>4. /\ DOMAIN runtimes' = DOMAIN runtimes \ {host.handle}
      /\ runtimes' \in [DOMAIN runtimes' -> Runtimes]
  BY <1>2, DropType DEF Inv
<1>5. /\ posted' \in Seq(Creations)
      /\ \A i \in DOMAIN posted' : i \in DOMAIN posted /\ posted'[i] = posted[i]
  <2>1. posted \in Seq(Creations)
    BY DEF Inv, TypeOK
  <2>2. QED
    BY <1>2, <2>1, ReleasedStep
<1>6. TypeOK'
  BY <1>1, <1>2, <1>3, <1>4, <1>5 DEF Inv, TypeOK
<1>7. Youngest' /\ Taken' /\ Holding'
  BY <1>1, <1>2, <1>3 DEF Youngest, Taken, Holding, Making
<1>8. Scheduling'
  <2>1. task' \notin {"create"} \cup Making
    BY <1>1, <1>2 DEF Making
  <2>2. QED
    BY <1>1, <1>2, <1>5, <2>1, StillKnown
<1>9. AllOwned' /\ OwnSession'
  <2>1. SessionHandle = {} /\ SessionHandle' = {}
    BY <1>1, <1>2 DEF SessionHandle
  <2>2. QED
    BY <1>1, <1>2, <1>4, <2>1 DEF Inv, AllOwned, OwnSession
<1>10. QED
  BY <1>6, <1>7, <1>8, <1>9 DEF Inv

LEMMA OpenStep ==
  ASSUME Inv, Open
  PROVE  Inv'
<1>1. host.at = "open" /\ session = None
  BY DEF Open, Inv, Taken
<1>2. PICK g \in Nat : generation' = g /\ g > generation /\ generation \in Nat
  BY DEF Open, Inv, TypeOK
<1>3. /\ session' = Session(g) /\ host' = Idle
      /\ UNCHANGED <<pending, runtimes, made, posted, task, request, fresh>>
  BY <1>2 DEF Open, gui
<1>4. /\ session' # None /\ session'.generation = g /\ session'.handle = None
      /\ session' \in Sessions
  <2>1. Session(g) \in Sessions /\ Session(g).generation = g /\ Session(g).handle = None
    BY DEF Session, Sessions
  <2>2. QED
    BY <1>3, <2>1, NoneAssumption
<1>5. host' \in Callbacks /\ host'.at = "idle"
  BY <1>3, IdleType
<1>6. TypeOK'
  BY <1>2, <1>3, <1>4, <1>5 DEF Inv, TypeOK
<1>7. Youngest' /\ Taken'
  BY <1>2, <1>4, <1>5 DEF Youngest, Taken
<1>8. Scheduling'
  <2>1. \A r \in Creations : Known(r) => r.generation \in Nat /\ r.generation < g
    BY <1>2 DEF Known, Creations
  <2>2. \A r \in Creations : Known(r) => Known(r)'
    BY <1>2, <1>4, <2>1 DEF Known
  <2>3. \A i \in DOMAIN posted : posted[i] \in Creations
    BY LenProperties DEF Inv, TypeOK
  <2>4. \A i \in DOMAIN posted : Known(posted[i])'
    BY <1>3, <2>2, <2>3 DEF Inv, Scheduling, Known
  <2>5. task \in {"create"} \cup Making => Known(request)'
    BY <1>3, <2>2 DEF Inv, TypeOK, Scheduling, Known, Making
  <2>6. QED
    BY <1>3, <2>4, <2>5 DEF Scheduling, Known
<1>9. SessionHandle = {} /\ SessionHandle' = {}
  BY <1>1, <1>4 DEF SessionHandle
<1>10. Holding' /\ AllOwned' /\ OwnSession'
  BY <1>1, <1>3, <1>5, <1>9 DEF Inv, Holding, AllOwned, OwnSession
<1>11. QED
  BY <1>6, <1>7, <1>8, <1>10 DEF Inv

LEMMA SetParentStep ==
  ASSUME Inv, NEW p \in Parents, SetParent(p)
  PROVE  Inv'
<1> DEFINE s == [session EXCEPT !.parent = p, !.handle = None]
<1>1. /\ session # None /\ session \in Sessions /\ host.at = "idle" /\ task = "idle"
      /\ fresh = None /\ session.generation \in Nat /\ session.generation <= generation
  BY DEF SetParent, Begin, GuiFree, Inv, TypeOK, Youngest, Holding, Making, Sessions
<1>2. /\ session' = s /\ Schedule(s, s.generation)
      /\ runtimes' = Drop(runtimes, {session.handle})
      /\ UNCHANGED <<generation, made, task, request, fresh, on, host>>
  BY DEF SetParent
<1>3. /\ s \in Sessions /\ s # None /\ s.generation = session.generation
      /\ s.parent = p /\ s.handle = None /\ p # None
  BY <1>1, NoneAssumption DEF Sessions
<1> HIDE DEF s
<1>4. /\ DOMAIN runtimes' = DOMAIN runtimes \ {session.handle}
      /\ runtimes' \in [DOMAIN runtimes' -> Runtimes]
  BY <1>2, DropType DEF Inv
<1>5. /\ pending' \in Nat \cup {None} /\ posted' \in Seq(Creations)
      /\ \A i \in DOMAIN posted' :
           \/ i \in DOMAIN posted /\ posted'[i] = posted[i]
           \/ posted'[i].generation = s.generation
  <2>1. posted \in Seq(Creations) /\ pending \in Nat \cup {None}
    BY DEF Inv, TypeOK
  <2>2. s.generation \in Nat
    BY <1>1, <1>3
  <2>3. QED
    BY <1>2, <1>3, <2>1, <2>2, ScheduleStep
<1>6. TypeOK'
  BY <1>1, <1>2, <1>3, <1>4, <1>5 DEF Inv, TypeOK
<1>7. Youngest' /\ Taken'
  BY <1>1, <1>2, <1>3 DEF Youngest, Taken
<1>8. Scheduling'
  <2>1. \A i \in DOMAIN posted' : posted'[i].generation <= generation
    BY <1>1, <1>3, <1>5 DEF Inv, Scheduling, Known
  <2>2. QED
    BY <1>1, <1>2, <1>3, <2>1 DEF Scheduling, Known, Making
<1>9. Holding'
  BY <1>1, <1>2 DEF Holding, Making
<1>10. AllOwned' /\ OwnSession'
  <2>1. SessionHandle \subseteq {session.handle} /\ SessionHandle' = {}
    BY <1>2, <1>3 DEF SessionHandle
  <2>2. QED
    BY <1>1, <1>2, <1>4, <2>1 DEF Inv, AllOwned, OwnSession
<1>11. QED
  BY <1>6, <1>7, <1>8, <1>9, <1>10 DEF Inv

\* What GentleStep asks of the variables a step leaves alone.
LEMMA Still ==
  ASSUME Inv
  PROVE  /\ session \in Sessions \cup {None} /\ host \in Callbacks
         /\ runtimes \in [DOMAIN runtimes -> Runtimes]
         /\ pending \in Nat \cup {None} /\ posted \in Seq(Creations)
         /\ task \in {"idle", "create", "after", "again"} \cup Making
         /\ request \in Creations \cup {None}
         /\ task # "idle" => request \in Creations
         /\ task \in {"create"} \cup Making => Known(request)
BY DEF Inv, TypeOK, Scheduling

LEMMA BeginShowStep ==
  ASSUME Inv, BeginShow \/ BeginHide
  PROVE  Inv'
<1>1. /\ host.at = "idle" /\ session # None
      /\ UNCHANGED <<session, generation, pending, runtimes, made, posted, task, request,
                     fresh>>
  BY DEF BeginShow, BeginHide, Begin, state, gui
<1>2. PICK a \in {"schedule", "native", "mark"}, t \in {"show", "hide"} :
        host' = [at |-> a, then |-> t, generation |-> session.generation,
                 handle |-> session.handle]
  BY DEF BeginShow, BeginHide
<1>3. host' \in Callbacks /\ host'.at \notin {"take", "drop", "open"}
  <2>1. session.generation \in Nat /\ session.handle \in Nat \cup {None}
    BY <1>1, Still DEF Sessions
  <2>2. a \in Places /\ t \in Places
    BY DEF Places
  <2>3. host' \in Callbacks
    BY <1>2, <2>1, <2>2, CallbackType
  <2>4. QED
    BY <1>2, <2>3
<1>4. QED
  BY <1>1, <1>3, Still, GentleStep

LEMMA CallbackMoves ==
  ASSUME host \in Callbacks, host' = [host EXCEPT !.at = "mark"]
  PROVE  host' \in Callbacks /\ host'.at = "mark"
BY DEF Callbacks, Places

\* A runtime that is shown or hidden stays what it was made for.
LEMMA ShownType ==
  ASSUME NEW id \in DOMAIN runtimes, NEW v \in BOOLEAN,
         runtimes \in [DOMAIN runtimes -> Runtimes],
         runtimes' = [runtimes EXCEPT ![id].shown = v]
  PROVE  /\ DOMAIN runtimes' = DOMAIN runtimes
         /\ runtimes' \in [DOMAIN runtimes -> Runtimes]
         /\ \A i \in DOMAIN runtimes : runtimes'[i].generation = runtimes[i].generation
<1> DEFINE r == [runtimes[id] EXCEPT !.shown = v]
<1>1. r \in Runtimes /\ r.generation = runtimes[id].generation
  BY DEF Runtimes
<1>2. runtimes' = [runtimes EXCEPT ![id] = r]
  OBVIOUS
<1> HIDE DEF r
<1>3. QED
  BY <1>1, <1>2

LEMMA ShowOrHideStep ==
  ASSUME Inv, ShowOrHide
  PROVE  Inv'
<1>1. /\ host.at = "native"
      /\ UNCHANGED <<session, generation, pending, made, posted, task, request, fresh>>
  BY DEF ShowOrHide, state
<1>2. host' \in Callbacks /\ host'.at \in {"mark", "idle"}
  BY Still, CallbackMoves, IdleType DEF ShowOrHide
<1>3. /\ DOMAIN runtimes' = DOMAIN runtimes
      /\ runtimes' \in [DOMAIN runtimes -> Runtimes]
      /\ \A id \in DOMAIN runtimes : runtimes'[id].generation = runtimes[id].generation
  <2>1. CASE host.handle \in DOMAIN runtimes
    <3>1. PICK v \in BOOLEAN : v = (host.then = "show")
      OBVIOUS
    <3>2. runtimes' = [runtimes EXCEPT ![host.handle].shown = v]
      BY <2>1, <3>1, Zenon DEF ShowOrHide
    <3>3. QED
      BY <2>1, <3>2, Still, ShownType
  <2>2. CASE host.handle \notin DOMAIN runtimes
    BY <2>2, Still DEF ShowOrHide
  <2>3. QED
    BY <2>1, <2>2
<1>4. QED
  BY <1>1, <1>2, <1>3, Still, GentleStep

LEMMA ShowSchedulesStep ==
  ASSUME Inv, ShowSchedules
  PROVE  Inv'
<1>1. /\ host.at = "schedule" /\ Schedule(session, host.generation)
      /\ UNCHANGED <<session, generation, runtimes, made, task, request, fresh>>
  BY DEF ShowSchedules, Schedule
<1>2. host' \in Callbacks /\ host'.at \in {"mark", "idle"}
  BY Still, CallbackMoves, IdleType DEF ShowSchedules
<1>3. /\ pending' \in Nat \cup {None} /\ posted' \in Seq(Creations)
      /\ \A i \in DOMAIN posted' :
           \/ i \in DOMAIN posted /\ posted'[i] = posted[i]
           \/ session # None /\ session.parent # None /\ posted'[i].generation = session.generation
  <2>1. host.generation \in Nat
    BY Still DEF Callbacks
  <2>2. QED
    BY <1>1, <2>1, Still, ScheduleStep
<1>4. QED
  BY <1>1, <1>2, <1>3, Still, GentleStep

LEMMA MarkStep ==
  ASSUME Inv, Mark
  PROVE  Inv'
<1>1. /\ host.at = "mark" /\ host' = Idle
      /\ UNCHANGED <<generation, pending, runtimes, made, posted, task, request, fresh>>
  BY DEF Mark, gui
<1>2. host' \in Callbacks /\ host'.at = "idle"
  BY <1>1, IdleType
<1>3. session' = session \/ (session # None /\ \E v \in BOOLEAN :
                                session' = [session EXCEPT !.visible = v])
  BY DEF Mark
<1>4. /\ session' \in Sessions \cup {None}
      /\ session' = None <=> session = None
      /\ session # None => /\ session'.generation = session.generation
                           /\ session'.parent = session.parent
                           /\ session'.handle = session.handle
  BY <1>3, Still, NoneAssumption DEF Sessions
<1>5. QED
  BY <1>1, <1>2, <1>4, Still, GentleStep

-----------------------------------------------------------------------------
LEMMA StartStep ==
  ASSUME Inv, Start
  PROVE  Inv'
<1>1. /\ task = "idle" /\ posted # <<>> /\ request' = Head(posted) /\ posted' = Tail(posted)
      /\ task' \in {"create", "after"}
      /\ UNCHANGED <<session, generation, pending, runtimes, made, fresh, host>>
  BY DEF Start, GuiFree, state
<1> DEFINE n == Len(posted)
           q == Tail(posted)
<1>2. /\ n \in Nat /\ n > 0 /\ DOMAIN posted = 1 .. n
      /\ Head(posted) = posted[1]
      /\ q \in Seq(Creations) /\ Len(q) = n - 1
      /\ \A i \in 1 .. n - 1 : q[i] = posted[i + 1]
  BY <1>1, Still, LenProperties, HeadTailProperties, EmptySeq
<1>3. DOMAIN q = 1 .. n - 1
  BY <1>2, LenProperties
<1> HIDE DEF n, q
<1>4. posted[1] \in Creations /\ Known(posted[1])
  <2>1. 1 \in DOMAIN posted
    BY <1>2
  <2>2. posted[1] \in Creations
    BY <1>1, <1>2, Still, HeadTailProperties
  <2>3. QED
    BY <2>1, <2>2 DEF Inv, Scheduling
<1>5. \A i \in DOMAIN q : Known(q[i])
  <2>1. \A i \in 1 .. n : Known(posted[i])
    BY <1>2 DEF Inv, Scheduling
  <2>2. \A i \in 1 .. n - 1 : i + 1 \in 1 .. n /\ q[i] = posted[i + 1]
    BY <1>2
  <2>3. QED
    BY <1>3, <2>1, <2>2
<1>6. SessionHandle' = SessionHandle
  BY <1>1 DEF SessionHandle
<1>7. posted' = q /\ request' = posted[1]
  BY <1>1, <1>2 DEF q
<1>8. TypeOK'
  BY <1>1, <1>2, <1>4, <1>7 DEF Inv, TypeOK
<1>9. Youngest' /\ Taken' /\ Holding'
  BY <1>1 DEF Inv, Youngest, Taken, Holding, Making
<1>10. Scheduling'
  BY <1>1, <1>4, <1>5, <1>7 DEF Scheduling, Known
<1>11. AllOwned' /\ OwnSession'
  BY <1>1, <1>6 DEF Inv, AllOwned, OwnSession
<1>12. QED
  BY <1>8, <1>9, <1>10, <1>11 DEF Inv

LEMMA FindStaleStep ==
  ASSUME Inv, FindStale
  PROVE  Inv'
<1>1. /\ task = "create" /\ task' = "after"
      /\ UNCHANGED <<session, generation, pending, runtimes, made, posted, request, fresh,
                     host>>
  BY DEF FindStale, state
<1>2. request \in Creations
  BY <1>1, Still
<1>3. QED
  BY <1>1, <1>2, Still, GentleStep DEF Making

LEMMA CreateFailsStep ==
  ASSUME Inv, CreateFails
  PROVE  Inv'
<1>1. /\ task = "create" /\ task' = "after"
      /\ UNCHANGED <<session, generation, runtimes, made, posted, request, fresh, host>>
      /\ pending' \in {pending, None}
  BY DEF CreateFails, state
<1>2. request \in Creations /\ pending' \in Nat \cup {None}
  BY <1>1, Still
<1>3. QED
  BY <1>1, <1>2, Still, GentleStep DEF Making

LEMMA TakePendingStep ==
  ASSUME Inv, TakePending
  PROVE  Inv'
<1>1. /\ task = "after" /\ pending' = None
      /\ UNCHANGED <<session, generation, runtimes, made, posted, fresh, host>>
  BY DEF TakePending
<1>2. /\ task' \in {"idle", "again"} /\ request' \in Creations \cup {None}
      /\ task' # "idle" => request' \in Creations
  <2>1. request \in Creations
    BY <1>1, Still
  <2>2. CASE task' = "idle" /\ request' = None
    BY <2>2
  <2>3. CASE /\ pending # None /\ task' = "again"
             /\ request' = [request EXCEPT !.generation = pending]
    <3>1. pending \in Nat
      BY <2>3, Still
    <3>2. request' \in Creations
      BY <2>1, <2>3, <3>1 DEF Creations
    <3>3. QED
      BY <2>3, <3>2
  <2>4. QED
    BY <2>2, <2>3 DEF TakePending
<1>3. QED
  BY <1>1, <1>2, Still, GentleStep DEF Making

LEMMA AgainStep ==
  ASSUME Inv, Again
  PROVE  Inv'
<1>1. /\ task = "again" /\ task' = "idle" /\ request' = None
      /\ Schedule(session, request.generation)
      /\ UNCHANGED <<session, generation, runtimes, made, fresh, host>>
  BY DEF Again
<1>2. request.generation \in Nat
  BY <1>1, Still DEF Creations
<1>3. /\ pending' \in Nat \cup {None} /\ posted' \in Seq(Creations)
      /\ \A i \in DOMAIN posted' :
           \/ i \in DOMAIN posted /\ posted'[i] = posted[i]
           \/ session # None /\ session.parent # None /\ posted'[i].generation = session.generation
  BY <1>1, <1>2, Still, ScheduleStep
<1>4. QED
  BY <1>1, <1>3, Still, GentleStep DEF Making

LEMMA FinishStep ==
  ASSUME Inv, Finish
  PROVE  Inv'
<1>1. task = "finish" /\ task \in Making /\ UNCHANGED <<session, generation, made, request, host>>
  BY DEF Finish, Making
<1>2. pending' \in Nat \cup {None}
  BY Still DEF Finish, CreationOver, Sessions
<1>3. CASE Finished({fresh})
  BY <1>1, <1>2, <1>3, FinishedStep
<1>4. CASE task' = "apply" /\ UNCHANGED <<runtimes, posted, fresh>>
  <2>1. request \in Creations
    BY <1>1, Still
  <2>2. task' \in Making
    BY <1>4 DEF Making
  <2>3. QED
    BY <1>1, <1>2, <1>4, <2>1, <2>2, Still, GentleStep
<1>5. QED
  BY <1>3, <1>4 DEF Finish

LEMMA ApplyStep ==
  ASSUME Inv, Apply
  PROVE  Inv'
<1>1. /\ task = "apply" /\ task \in Making
      /\ UNCHANGED <<session, generation, pending, made, request, host>>
  BY DEF Apply, Making, state
<1>2. CASE Finished({fresh})
  BY <1>1, <1>2, Still, FinishedStep
<1>3. CASE /\ Current
           /\ runtimes' = [runtimes EXCEPT ![fresh].shown = InitiallyShown(session.visible)]
           /\ task' = "store"
           /\ UNCHANGED <<posted, fresh, failures>>
  <2>1. request \in Creations /\ fresh \in DOMAIN runtimes
    BY <1>1, Still DEF Inv, Holding
  <2>2. task' \in Making
    BY <1>3 DEF Making
  <2>3. session.visible \in BOOLEAN
    BY <1>3, Still DEF Current, StillOpen, Sessions
  <2>4. /\ DOMAIN runtimes' = DOMAIN runtimes
        /\ runtimes' \in [DOMAIN runtimes -> Runtimes]
        /\ \A id \in DOMAIN runtimes : runtimes'[id].generation = runtimes[id].generation
    BY <1>3, <2>1, <2>3, Still, ShownType DEF InitiallyShown
  <2>5. QED
    BY <1>1, <1>3, <2>1, <2>2, <2>4, Still, GentleStep
<1>4. QED
  BY <1>2, <1>3 DEF Apply

\* A new runtime has an id no runtime had.
LEMMA CreateStep ==
  ASSUME Inv, Create
  PROVE  Inv'
<1>1. /\ task = "create" /\ task' = "finish" /\ fresh = None /\ request \in Creations
      /\ UNCHANGED <<session, generation, pending, posted, request, host>>
  BY Still DEF Create, state, Inv, Holding, Making
<1>2. PICK m \in Nat : made' = m /\ m > made /\ made \in Nat /\ m \in 1 .. m
  <2>1. made \in Nat
    BY DEF Inv, TypeOK
  <2>2. made + 1 \in Nat /\ made + 1 > made /\ made + 1 \in 1 .. made + 1
    BY <2>1
  <2>3. QED
    BY <2>1, <2>2 DEF Create
<1> DEFINE r == [generation |-> request.generation, parent |-> request.parent, shown |-> TRUE]
<1>3. /\ fresh' = m
      /\ runtimes' = [id \in DOMAIN runtimes \cup {m} |-> IF id = m THEN r ELSE runtimes[id]]
  BY <1>2 DEF Create
<1>4. r \in Runtimes /\ r.generation = request.generation
  BY <1>1 DEF Runtimes, Creations
<1> HIDE DEF r
<1>5. DOMAIN runtimes \subseteq 1 .. made /\ None \notin DOMAIN runtimes
  BY <1>2, NoneAssumption DEF Inv, TypeOK
<1>6. /\ DOMAIN runtimes' = DOMAIN runtimes \cup {m} /\ m \notin DOMAIN runtimes
      /\ runtimes'[m] = r
      /\ \A id \in DOMAIN runtimes : runtimes'[id] = runtimes[id]
  BY <1>2, <1>3, <1>5
<1>7. runtimes' \in [DOMAIN runtimes' -> Runtimes]
  BY <1>3, <1>4, <1>6, Still
<1>8. DOMAIN runtimes' \subseteq 1 .. m
  BY <1>2, <1>5, <1>6
<1>9. SessionHandle' = SessionHandle /\ SessionHandle \subseteq DOMAIN runtimes
  BY <1>1 DEF SessionHandle, Inv, AllOwned
<1>10. TypeOK'
  BY <1>1, <1>2, <1>7, <1>8 DEF Inv, TypeOK, Making
<1>11. Youngest' /\ Taken'
  BY <1>1 DEF Inv, Youngest, Taken
<1>12. Scheduling'
  BY <1>1 DEF Inv, Scheduling, Known, Making
<1>13. Holding'
  <2>1. m # None
    BY NoneAssumption
  <2>2. m \in DOMAIN runtimes' \ SessionHandle'
    BY <1>6, <1>9
  <2>3. runtimes'[m].generation = request'.generation
    BY <1>1, <1>4, <1>6
  <2>4. QED
    BY <1>1, <1>3, <2>1, <2>2, <2>3 DEF Holding, Making
<1>14. AllOwned'
  BY <1>1, <1>3, <1>5, <1>6, <1>9 DEF Inv, AllOwned
<1>15. OwnSession'
  BY <1>1, <1>6, <1>9 DEF Inv, OwnSession
<1>16. QED
  BY <1>10, <1>11, <1>12, <1>13, <1>14, <1>15 DEF Inv

\* The session gets the runtime, and what it had is destroyed.
LEMMA StoreStep ==
  ASSUME Inv, Store
  PROVE  Inv'
<1>1. /\ task = "store" /\ task \in Making
      /\ UNCHANGED <<generation, made, request, host>>
  BY DEF Store, Making
<1>2. pending' \in Nat \cup {None}
  BY Still DEF Store
<1>3. CASE ~ Current
  <2>1. Finished({fresh}) /\ UNCHANGED session
    BY <1>3 DEF Store
  <2>2. QED
    BY <1>1, <1>2, <2>1, FinishedStep
<1>4. CASE Current
  <2>1. /\ session' = [session EXCEPT !.handle = fresh]
        /\ runtimes' = Drop(runtimes, Replaced)
        /\ posted' \in Released(runtimes', session, posted)
        /\ fresh' = None /\ task' = "after"
    BY <1>4 DEF Store, Finished
  <2>2. /\ session # None /\ session \in Sessions
        /\ session.generation = request.generation /\ session.parent # None
        /\ request \in Creations
    BY <1>1, <1>4, Still DEF Current, StillOpen, Known
  <2>3. /\ fresh # None /\ fresh \in DOMAIN runtimes \ SessionHandle
        /\ runtimes[fresh].generation = request.generation
    BY <1>1 DEF Inv, Holding
  <2>4. fresh \in Nat
    BY <2>3 DEF Inv, TypeOK
  <2>5. /\ session' \in Sessions /\ session' # None /\ session'.handle = fresh
        /\ session'.generation = session.generation /\ session'.parent = session.parent
    BY <2>1, <2>2, <2>4, NoneAssumption DEF Sessions
  <2>6. SessionHandle' = {fresh} /\ SessionHandle = Replaced
    BY <2>2, <2>3, <2>5 DEF SessionHandle, Replaced
  <2>7. /\ DOMAIN runtimes' = DOMAIN runtimes \ SessionHandle
        /\ runtimes' \in [DOMAIN runtimes' -> Runtimes]
        /\ \A id \in DOMAIN runtimes' : runtimes'[id] = runtimes[id]
    <3>1. runtimes' = Drop(runtimes, SessionHandle)
      BY <2>1, <2>6
    <3>2. runtimes \in [DOMAIN runtimes -> Runtimes]
      BY Still
    <3>3. QED
      BY <3>1, <3>2, DropType DEF Inv
  <2>8. /\ posted' \in Seq(Creations)
        /\ \A i \in DOMAIN posted' : i \in DOMAIN posted /\ posted'[i] = posted[i]
    BY <2>1, Still, ReleasedStep
  <2>9. TypeOK'
    BY <1>1, <1>2, <2>1, <2>2, <2>5, <2>7, <2>8 DEF Inv, TypeOK
  <2>10. Youngest' /\ Taken'
    BY <1>1, <2>2, <2>5 DEF Inv, Youngest, Taken
  <2>11. Scheduling'
    <3>1. task' \notin {"create"} \cup Making
      BY <2>1 DEF Making
    <3>2. QED
      BY <1>1, <2>2, <2>5, <2>8, <3>1, StillKnown
  <2>12. Holding'
    BY <2>1 DEF Holding, Making
  <2>13. AllOwned'
    BY <1>1, <2>3, <2>6, <2>7 DEF Inv, AllOwned
  <2>14. OwnSession'
    BY <2>2, <2>3, <2>5, <2>6, <2>7 DEF OwnSession
  <2>15. QED
    BY <2>9, <2>10, <2>11, <2>12, <2>13, <2>14 DEF Inv
<1>5. QED
  BY <1>3, <1>4

LEMMA StutterStep ==
  ASSUME Inv, UNCHANGED vars
  PROVE  Inv'
<1>1. UNCHANGED <<session, generation, pending, runtimes, made, posted, task, request, fresh,
                  host>>
  BY DEF vars, state, gui
<1>2. QED
  BY <1>1, Still, GentleStep

LEMMA NextInv == Inv /\ [Next]_vars => Inv'
<1> SUFFICES ASSUME Inv, [Next]_vars PROVE Inv'
  OBVIOUS
<1>1. CASE HostBegins
  BY <1>1, BeginDestroyStep, SetParentStep, BeginShowStep DEF HostBegins
<1>2. CASE HostGoesOn
  BY <1>2, TakeSessionStep, DropSessionStep, OpenStep, ShowOrHideStep, ShowSchedulesStep,
     MarkStep DEF HostGoesOn
<1>3. CASE GuiThread
  BY <1>3, StartStep, FindStaleStep, CreateFailsStep, CreateStep, FinishStep, ApplyStep,
     StoreStep, TakePendingStep, AgainStep DEF GuiThread
<1>4. CASE UNCHANGED vars
  BY <1>4, StutterStep
<1>5. QED
  BY <1>1, <1>2, <1>3, <1>4 DEF Next

LEMMA InvHolds == Spec => []Inv
  BY InitInv, NextInv, PTL DEF Spec

-----------------------------------------------------------------------------
\* Every WebView there is belongs to the session, to the posted callback or to
\* the callback that is about to destroy it, and the session's is there:
\* with any windows, on any threads, whatever fails (controller.rs: handles
\* destroy nothing when dropped, so each path has to).
THEOREM WebViewsAreOwned == Spec => []AllOwned
<1>1. Inv => AllOwned
  BY DEF Inv
<1>2. QED
  BY <1>1, InvHolds, PTL

\* A WebView is stored in the session it was made for, however long its
\* creation took and whatever the host opened since.
THEOREM RuntimesStayInTheirSession == Spec => []OwnSession
<1>1. Inv => OwnSession
  BY DEF Inv
<1>2. QED
  BY <1>1, InvHolds, PTL

\* A closed editor has no WebView, but for one that the posted callback or the
\* host's is in the middle of making or destroying.
ClosedIsGone ==
  session = None /\ task \notin Making /\ host.at # "drop" => DOMAIN runtimes = {}

\* Whatever was in flight when the editor was closed, nothing is left when the
\* callbacks under way have ended: the safety half of ClosedEditorGoes
\* (controller.rs: drop_session, runtime.rs: the stale session's runtime).
THEOREM ClosedEditorsLeaveNothing == Spec => []ClosedIsGone
<1>1. Inv => ClosedIsGone
  <2> SUFFICES ASSUME Inv, session = None, task \notin Making, host.at # "drop"
               PROVE  DOMAIN runtimes = {}
    BY DEF ClosedIsGone
  <2>1. fresh = None /\ SessionHandle = {}
    BY DEF Inv, Holding, SessionHandle
  <2>2. DOMAIN runtimes \subseteq {None}
    BY <2>1 DEF Inv, AllOwned
  <2>3. DOMAIN runtimes \subseteq Nat
    BY DEF Inv, TypeOK
  <2>4. QED
    BY <2>2, <2>3, NoneAssumption
<1>2. QED
  BY <1>1, InvHolds, PTL
=============================================================================
