----------------------------- MODULE ProcessProofs -----------------------------
(***************************************************************************)
(* Theorems about Process, for any processor, any buffers and any event    *)
(* lists the host may pass, and any number of edits and refusals.          *)
(***************************************************************************)
EXTENDS Process, SequenceTheorems, WellFoundedInduction, TLAPS

(***************************************************************************)
(* The inductive invariant of the edit queue.                              *)
(***************************************************************************)

TypeOK ==
  /\ pending \in Seq(Nat) /\ received \in Seq(Nat) /\ edited \in Nat
  /\ lock \in Callers \cup {"editor", None}
  /\ editor \in {"idle", "pushed", "notify"}
  /\ wanted \in BOOLEAN /\ refused \in BOOLEAN
  /\ place \in [Callers ->
       {"idle", "offer", "drain", "body", "heard", "gather", "scatter"}]

\* What the host has and what waits are the edits in order, cut in two.
Ordered ==
  /\ edited = Len(received) + Len(pending)
  /\ \A i \in 1 .. Len(received) : received[i] = i
  /\ \A i \in 1 .. Len(pending) : pending[i] = Len(received) + i

\* The lock says who is in the queue.
Locked ==
  /\ lock = "editor" <=> editor = "pushed"
  /\ \A t \in Callers : lock = t <=> place[t] = "drain"

\* An edit that waits is somebody's business.
Minded ==
  pending # <<>> =>
    \/ wanted \/ refused \/ editor # "idle"
    \/ \E t \in Callers : place[t] \in {"offer", "drain"}

QueueInv == TypeOK /\ Ordered /\ Locked /\ Minded

-----------------------------------------------------------------------------
LEMMA QueueInit == Init => QueueInv
<1> SUFFICES ASSUME Init PROVE QueueInv
  OBVIOUS
<1>1. TypeOK
  <2>1. <<>> \in Seq(Nat)
    BY EmptySeq
  <2>2. QED
    BY <2>1 DEF Init, TypeOK
<1>2. Ordered /\ Minded
  BY DEF Init, Ordered, Minded
<1>3. Locked
  <2>1. lock = None /\ editor = "idle" /\ \A t \in Callers : place[t] = "idle"
    BY DEF Init
  <2>2. None # "editor" /\ \A t \in Callers : None # t
    BY ProcessAssumption DEF Callers
  <2>3. QED
    BY <2>1, <2>2 DEF Locked
<1>4. QED
  BY <1>1, <1>2, <1>3 DEF QueueInv

LEMMA EditStep ==
  ASSUME QueueInv, Edit
  PROVE  QueueInv'
<1> USE DEF QueueInv
<1>1. /\ editor = "idle" /\ lock = None /\ lock' = "editor" /\ editor' = "pushed"
      /\ edited' = edited + 1 /\ pending' = Append(pending, edited + 1)
      /\ UNCHANGED <<received, wanted, refused, place>>
  BY DEF Edit
<1>2. edited + 1 \in Nat /\ pending \in Seq(Nat) /\ received \in Seq(Nat)
  BY DEF TypeOK
<1>3. /\ Append(pending, edited + 1) \in Seq(Nat)
      /\ Len(Append(pending, edited + 1)) = Len(pending) + 1
      /\ \A i \in 1 .. Len(pending) : Append(pending, edited + 1)[i] = pending[i]
      /\ Append(pending, edited + 1)[Len(pending) + 1] = edited + 1
  BY <1>2, AppendProperties
<1>4. TypeOK'
  BY <1>1, <1>2, <1>3 DEF TypeOK
<1>5. Ordered'
  <2>1. Len(pending) \in Nat /\ Len(received) \in Nat
    BY <1>2, LenProperties
  <2>2. SUFFICES ASSUME NEW i \in 1 .. Len(pending) + 1
                 PROVE  Append(pending, edited + 1)[i] = Len(received) + i
    BY <1>1, <1>3, <2>1 DEF Ordered
  <2>3. CASE i \in 1 .. Len(pending)
    BY <1>3, <2>3 DEF Ordered
  <2>4. CASE i = Len(pending) + 1
    BY <1>3, <2>1, <2>4 DEF Ordered
  <2>5. QED
    BY <2>1, <2>3, <2>4
<1>6. Locked'
  BY <1>1, ProcessAssumption DEF Locked, Callers
<1>7. Minded'
  BY <1>1 DEF Minded
<1>8. QED
  BY <1>4, <1>5, <1>6, <1>7

LEMMA EditorStep ==
  ASSUME QueueInv, Unlock \/ RequestFlush
  PROVE  QueueInv'
<1> USE DEF QueueInv
<1>1. UNCHANGED <<pending, received, edited, refused, place>>
  BY DEF Unlock, RequestFlush
<1>2. TypeOK' /\ Ordered' /\ Minded'
  BY <1>1 DEF Unlock, RequestFlush, TypeOK, Ordered, Minded
<1>3. Locked'
  BY <1>1, ProcessAssumption DEF Unlock, RequestFlush, Locked, Callers
<1>4. QED
  BY <1>2, <1>3

LEMMA OfferStep ==
  ASSUME QueueInv,
         BeginProcess \/ \E t \in Callers, list \in FlushLists : BeginFlush(t, list)
  PROVE  QueueInv'
<1> USE DEF QueueInv
<1>1. PICK t \in Callers : place[t] = "idle" /\ place' = [place EXCEPT ![t] = "offer"]
  BY DEF BeginProcess, BeginFlush, Go, Callers
<1>2. /\ wanted' = FALSE
      /\ UNCHANGED <<pending, received, edited, lock, editor, refused>>
  BY DEF BeginProcess, BeginFlush
<1>3. TypeOK' /\ Ordered'
  BY <1>1, <1>2 DEF TypeOK, Ordered
<1>4. Locked'
  BY <1>1, <1>2 DEF Locked, TypeOK
<1>5. Minded'
  <2>1. place'[t] = "offer"
    BY <1>1 DEF TypeOK
  <2>2. QED
    BY <2>1 DEF Minded
<1>6. QED
  BY <1>3, <1>4, <1>5

LEMMA TryLockStep ==
  ASSUME QueueInv, NEW t \in Callers, TryLock(t)
  PROVE  QueueInv'
<1> USE DEF QueueInv
<1>1. /\ place[t] = "offer"
      /\ UNCHANGED <<pending, received, edited, wanted, editor, refused>>
  BY DEF TryLock
<1>2. CASE lock = None
  <2>1. lock' = t /\ place' = [place EXCEPT ![t] = "drain"]
    BY <1>2 DEF TryLock, Go
  <2>2. TypeOK' /\ Ordered'
    BY <1>1, <2>1 DEF TypeOK, Ordered
  <2>3. Locked'
    <3>1. None # "editor" /\ t # "editor" /\ \A u \in Callers : None # u
      BY ProcessAssumption DEF Callers
    <3>2. QED
      BY <1>1, <1>2, <2>1, <3>1 DEF Locked, TypeOK
  <2>4. Minded'
    <3>1. place'[t] = "drain"
      BY <2>1 DEF TypeOK
    <3>2. QED
      BY <3>1 DEF Minded
  <2>5. QED
    BY <2>2, <2>3, <2>4
<1>3. CASE lock # None
  <2>1. /\ lock' = lock
        /\ \E p \in {"body", "idle"} : place' = [place EXCEPT ![t] = p]
    BY <1>3 DEF TryLock, Go, Drained
  <2>2. TypeOK' /\ Ordered'
    BY <1>1, <2>1 DEF TypeOK, Ordered
  <2>3. Locked'
    BY <1>1, <2>1 DEF Locked, TypeOK
  <2>4. editor = "pushed" \/ \E u \in Callers \ {t} : place[u] = "drain"
    BY <1>1, <1>3 DEF TypeOK, Locked
  <2>5. Minded'
    BY <1>1, <2>1, <2>4 DEF Minded, TypeOK
  <2>6. QED
    BY <2>2, <2>3, <2>5
<1>4. QED
  BY <1>2, <1>3

LEMMA AcceptStep ==
  ASSUME QueueInv, NEW t \in Callers, Accept(t)
  PROVE  QueueInv'
<1> USE DEF QueueInv
<1>1. /\ place[t] = "drain" /\ pending # <<>>
      /\ received' = Append(received, Head(pending)) /\ pending' = Tail(pending)
      /\ UNCHANGED <<edited, wanted, lock, editor, refused, place>>
  BY DEF Accept
<1>2. pending \in Seq(Nat) /\ received \in Seq(Nat)
  BY DEF TypeOK
<1>3. /\ Len(pending) \in Nat \ {0} /\ Len(received) \in Nat
      /\ Head(pending) = pending[1] /\ Head(pending) \in Nat
      /\ Tail(pending) \in Seq(Nat) /\ Len(Tail(pending)) = Len(pending) - 1
      /\ \A i \in 1 .. Len(pending) - 1 : Tail(pending)[i] = pending[i + 1]
  BY <1>1, <1>2, HeadTailProperties, EmptySeq, LenProperties
<1>4. /\ Append(received, Head(pending)) \in Seq(Nat)
      /\ Len(Append(received, Head(pending))) = Len(received) + 1
      /\ \A i \in 1 .. Len(received) : Append(received, Head(pending))[i] = received[i]
      /\ Append(received, Head(pending))[Len(received) + 1] = Head(pending)
  BY <1>2, <1>3, AppendProperties
<1>5. TypeOK'
  BY <1>1, <1>3, <1>4 DEF TypeOK
<1>6. pending[1] = Len(received) + 1
  BY <1>3 DEF Ordered
<1>7. Ordered'
  <2>1. edited' = Len(received') + Len(pending')
    BY <1>1, <1>3, <1>4 DEF Ordered
  <2>2. ASSUME NEW i \in 1 .. Len(received) + 1
        PROVE  Append(received, Head(pending))[i] = i
    <3>1. CASE i \in 1 .. Len(received)
      BY <1>4, <3>1 DEF Ordered
    <3>2. CASE i = Len(received) + 1
      BY <1>3, <1>4, <1>6, <3>2
    <3>3. QED
      BY <1>3, <3>1, <3>2
  <2>3. ASSUME NEW i \in 1 .. Len(pending) - 1
        PROVE  Tail(pending)[i] = Len(received) + 1 + i
    <3>1. i + 1 \in 1 .. Len(pending)
      BY <1>3
    <3>2. pending[i + 1] = Len(received) + (i + 1)
      BY <3>1 DEF Ordered
    <3>3. QED
      BY <1>3, <3>2
  <2>4. QED
    BY <1>1, <1>3, <1>4, <2>1, <2>2, <2>3 DEF Ordered
<1>8. Locked' /\ Minded'
  BY <1>1 DEF Locked, Minded
<1>9. QED
  BY <1>5, <1>7, <1>8

\* The thread that drains is the only one, and it leaves with the lock.
LEMMA LockReleased ==
  ASSUME QueueInv, NEW t \in Callers, place[t] = "drain", lock' = None,
         \E p \in {"body", "idle"} : place' = [place EXCEPT ![t] = p],
         UNCHANGED editor
  PROVE  Locked'
<1> USE DEF QueueInv
<1>1. lock = t
  BY DEF Locked
<1>2. None # "editor" /\ t # "editor" /\ \A u \in Callers : None # u
  BY ProcessAssumption DEF Callers
<1>3. editor # "pushed" /\ \A u \in Callers : u # t => place[u] # "drain"
  BY <1>1, <1>2 DEF Locked
<1>4. \A u \in Callers : place'[u] # "drain"
  BY <1>3 DEF TypeOK
<1>5. QED
  BY <1>2, <1>3, <1>4 DEF Locked

LEMMA HeadAndTail ==
  ASSUME NEW s \in Seq(Nat), s # <<>>
  PROVE  <<Head(s)>> \o Tail(s) = s
<1>1. /\ Head(s) \in Nat /\ Tail(s) \in Seq(Nat) /\ Len(Tail(s)) = Len(s) - 1
      /\ \A i \in 1 .. Len(Tail(s)) : Tail(s)[i] = s[i + 1]
      /\ Len(s) \in Nat \ {0} /\ Head(s) = s[1]
  BY HeadTailProperties, EmptySeq
<1>2. <<Head(s)>> \in Seq(Nat) /\ Len(<<Head(s)>>) = 1 /\ <<Head(s)>>[1] = Head(s)
  BY <1>1
<1> DEFINE h == <<Head(s)>>
<1> HIDE DEF h
<1>3. h \in Seq(Nat) /\ Len(h) = 1 /\ h[1] = s[1]
  BY <1>1, <1>2 DEF h
<1>4. /\ h \o Tail(s) \in Seq(Nat) /\ Len(h \o Tail(s)) = Len(s)
      /\ \A i \in 1 .. Len(s) :
           (h \o Tail(s))[i] = IF i <= 1 THEN h[i] ELSE Tail(s)[i - 1]
  <2>1. /\ h \o Tail(s) \in Seq(Nat) /\ Len(h \o Tail(s)) = Len(h) + Len(Tail(s))
        /\ \A i \in 1 .. Len(h) + Len(Tail(s)) :
             (h \o Tail(s))[i] = IF i <= Len(h) THEN h[i] ELSE Tail(s)[i - Len(h)]
    BY <1>1, <1>3, ConcatProperties
  <2>2. Len(h) + Len(Tail(s)) = Len(s)
    BY <1>1, <1>3
  <2>3. QED
    BY <1>3, <2>1, <2>2
<1>5. ASSUME NEW i \in 1 .. Len(s)
      PROVE  (h \o Tail(s))[i] = s[i]
  <2>1. CASE i = 1
    BY <1>3, <1>4, <2>1
  <2>2. CASE i # 1
    <3>1. i - 1 \in 1 .. Len(Tail(s)) /\ (i - 1) + 1 = i
      BY <1>1, <2>2
    <3>2. Tail(s)[i - 1] = s[(i - 1) + 1]
      BY <1>1, <3>1
    <3>3. QED
      BY <1>1, <1>4, <2>2, <3>1, <3>2
  <2>3. QED
    BY <2>1, <2>2
<1>6. h \o Tail(s) = s
  BY <1>4, <1>5, SeqEqual
<1>7. QED
  BY <1>6 DEF h

LEMMA RefuseStep ==
  ASSUME QueueInv, NEW t \in Callers, Refuse(t)
  PROVE  QueueInv'
<1> USE DEF QueueInv
<1>1. /\ place[t] = "drain" /\ pending # <<>>
      /\ pending' = <<Head(pending)>> \o Tail(pending)
      /\ refused' = TRUE /\ lock' = None
      /\ \E p \in {"body", "idle"} : place' = [place EXCEPT ![t] = p]
      /\ UNCHANGED <<received, edited, wanted, editor>>
  BY DEF Refuse, Drained, Go
<1>2. pending' = pending
  BY <1>1, HeadAndTail DEF TypeOK
<1>3. TypeOK' /\ Ordered' /\ Minded'
  BY <1>1, <1>2 DEF TypeOK, Ordered, Minded
<1>4. Locked'
  BY <1>1, LockReleased
<1>5. QED
  BY <1>3, <1>4

LEMMA ExhaustStep ==
  ASSUME QueueInv, NEW t \in Callers, Exhaust(t)
  PROVE  QueueInv'
<1> USE DEF QueueInv
<1>1. /\ place[t] = "drain" /\ pending = <<>> /\ lock' = None /\ refused' = FALSE
      /\ \E p \in {"body", "idle"} : place' = [place EXCEPT ![t] = p]
      /\ UNCHANGED <<pending, received, edited, wanted, editor>>
  BY DEF Exhaust, Drained, Go
<1>2. TypeOK' /\ Ordered' /\ Minded'
  BY <1>1 DEF TypeOK, Ordered, Minded
<1>3. Locked'
  BY <1>1, LockReleased
<1>4. QED
  BY <1>2, <1>3

LEMMA BlockStep ==
  ASSUME QueueInv, Leave \/ Play
  PROVE  QueueInv'
<1> USE DEF QueueInv
<1>1. /\ UNCHANGED queue
      /\ place["audio"] \in {"body", "heard", "gather", "scatter"}
      /\ \E p \in {"idle", "heard", "gather", "scatter"} :
           place' = [place EXCEPT !["audio"] = p]
  <2>1. place \in [Callers -> {"idle", "offer", "drain", "body", "heard", "gather", "scatter"}]
    BY DEF TypeOK
  <2>2. CASE Leave
    BY <2>2 DEF Leave, Sleep, Reject, Return, Go
  <2>3. CASE Snapshot \/ GiveUp \/ Engine \/ Finish
    BY <2>3 DEF Snapshot, GiveUp, Engine, Finish, Return, Go
  <2>4. CASE Gather \/ Scatter
    <3>1. place' = place /\ UNCHANGED queue /\ place["audio"] \in {"gather", "scatter"}
      BY <2>4 DEF Gather, Scatter
    <3>2. place' = [place EXCEPT !["audio"] = place["audio"]]
      BY <2>1, <3>1
    <3>3. QED
      BY <3>1, <3>2
  <2>5. CASE \E b \in Shapes : \E list \in EventLists : Hear(b, list)
    BY <2>5 DEF Hear, Go
  <2>6. QED
    BY <2>2, <2>3, <2>4, <2>5 DEF Play
<1>2. UNCHANGED <<pending, lock, editor, edited, received, wanted, refused>>
  BY <1>1 DEF queue
<1>3. "audio" \in Callers
  BY DEF Callers
<1>4. TypeOK' /\ Ordered' /\ Locked'
  BY <1>1, <1>2, <1>3 DEF TypeOK, Ordered, Locked
<1>5. Minded'
  BY <1>1, <1>2, <1>3 DEF Minded, TypeOK
<1>6. QED
  BY <1>4, <1>5

LEMMA QueueStep == QueueInv /\ [Next]_vars => QueueInv'
<1> SUFFICES ASSUME QueueInv, [Next]_vars PROVE QueueInv'
  OBVIOUS
<1>1. CASE UNCHANGED vars
  BY <1>1 DEF vars, queue, QueueInv, TypeOK, Ordered, Locked, Minded
<1>2. CASE Gui
  BY <1>2, EditStep, EditorStep DEF Gui
<1>3. CASE BeginProcess \/ \E t \in Callers, list \in FlushLists : BeginFlush(t, list)
  BY <1>3, OfferStep
<1>4. CASE \E t \in Callers : Drain(t)
  BY <1>4, TryLockStep, AcceptStep, RefuseStep, ExhaustStep DEF Drain
<1>5. CASE Leave \/ Play
  BY <1>5, BlockStep
<1>6. QED
  BY <1>1, <1>2, <1>3, <1>4, <1>5 DEF Next

LEMMA QueueInvariance == Spec => []QueueInv
BY QueueInit, QueueStep, PTL DEF Spec

(***************************************************************************)
(* Every edit is with the host or in the queue, once and in order          *)
(* (params.rs: enqueue_parameter_edit, drain_output_parameter_events).     *)
(***************************************************************************)
THEOREM EditsKept == Spec => []NoGestureLost
<1>1. QueueInv => NoGestureLost
  <2> SUFFICES ASSUME QueueInv PROVE NoGestureLost
    OBVIOUS
  <2>1. /\ received \in Seq(Nat) /\ pending \in Seq(Nat) /\ edited \in Nat
        /\ Len(received) \in Nat /\ Len(pending) \in Nat
        /\ edited = Len(received) + Len(pending)
    BY LenProperties DEF QueueInv, TypeOK, Ordered
  <2>2. /\ received \o pending \in Seq(Nat)
        /\ Len(received \o pending) = Len(received) + Len(pending)
        /\ \A i \in 1 .. Len(received) + Len(pending) :
             (received \o pending)[i] =
               IF i <= Len(received) THEN received[i] ELSE pending[i - Len(received)]
    BY <2>1, ConcatProperties
  <2>3. ASSUME NEW i \in 1 .. edited PROVE (received \o pending)[i] = i
    <3>1. CASE i <= Len(received)
      <4>1. i \in 1 .. Len(received)
        BY <2>1, <3>1
      <4>2. QED
        BY <2>1, <2>2, <3>1, <4>1 DEF QueueInv, Ordered
    <3>2. CASE ~ (i <= Len(received))
      <4>1. i - Len(received) \in 1 .. Len(pending)
        BY <2>1, <3>2
      <4>2. pending[i - Len(received)] = Len(received) + (i - Len(received))
        BY <4>1 DEF QueueInv, Ordered
      <4>3. Len(received) + (i - Len(received)) = i
        BY <2>1
      <4>4. QED
        BY <2>1, <2>2, <3>2, <4>2, <4>3
    <3>3. QED
      BY <3>1, <3>2
  <2>4. received \o pending \in [1 .. edited -> Nat]
    BY <2>1, <2>2, LenProperties
  <2>5. QED
    BY <2>3, <2>4 DEF NoGestureLost
<1>2. QED
  BY <1>1, QueueInvariance, PTL

(***************************************************************************)
(* A drain that gives up, or is refused, strands no edit: a host call is   *)
(* owed or the host has refused (params.rs: drain_output_parameter_events).*)
(***************************************************************************)
THEOREM EditsMinded == Spec => []NoneStranded
<1>1. QueueInv => NoneStranded
  BY DEF QueueInv, Minded, NoneStranded
<1>2. QED
  BY <1>1, QueueInvariance, PTL

\* A step of a drain takes the first edit out or gives the lock back.
Drains(t) ==
  \/ /\ place'[t] = "drain" /\ lock' = t /\ pending # <<>>
     /\ pending' = Tail(pending) /\ received' = Append(received, Head(pending))
  \/ place'[t] # "drain" /\ lock' = None /\ pending' = pending

\* While a drain is under way a step of anybody else leaves queue and lock alone.
DrainIsAlone ==
  [][\A t \in Callers : place[t] = "drain" =>
       \/ Drain(t) /\ Drains(t)
       \/ ~ Drain(t) /\ place'[t] = "drain" /\ UNCHANGED <<pending, received, lock>>]_vars

(***************************************************************************)
(* A drain that has the queue is over after as many steps as there were    *)
(* edits in it, and one: the user, who waits for the lock, adds none, and  *)
(* the other caller gives up (params.rs: drain_output_parameter_events).   *)
(* So the audio thread, which never waits for the queue, spends a bounded  *)
(* number of steps in it.                                                  *)
(***************************************************************************)
THEOREM DrainsAreShort == Spec => DrainIsAlone
<1> DEFINE A == \A t \in Callers : place[t] = "drain" =>
       \/ Drain(t) /\ Drains(t)
       \/ ~ Drain(t) /\ place'[t] = "drain" /\ UNCHANGED <<pending, received, lock>>
<1>1. QueueInv /\ [Next]_vars => [A]_vars
  <2> SUFFICES ASSUME QueueInv, Next, NEW t \in Callers, place[t] = "drain"
               PROVE  \/ Drain(t) /\ Drains(t)
                      \/ ~ Drain(t) /\ place'[t] = "drain" /\ UNCHANGED <<pending, received, lock>>
    OBVIOUS
  <2>1. /\ lock = t /\ lock # None /\ editor # "pushed"
        /\ \A u \in Callers \ {t} : place[u] # "drain"
        /\ place \in [Callers -> {"idle", "offer", "drain", "body", "heard", "gather", "scatter"}]
    BY ProcessAssumption DEF QueueInv, TypeOK, Locked, Callers
  <2>2. ASSUME Drain(t)
        PROVE  Drains(t)
    <3>1. CASE Accept(t)
      BY <2>1, <3>1 DEF Accept, Drains
    <3>2. CASE Refuse(t)
      <4>1. lock' = None /\ Drained(t)
        BY <3>2 DEF Refuse
      <4>2. place'[t] # "drain"
        BY <2>1, <4>1 DEF Drained, Go
      <4>3. pending' = pending
        BY <3>2, HeadAndTail DEF Refuse, QueueInv, TypeOK
      <4>4. QED
        BY <4>1, <4>2, <4>3 DEF Drains
    <3>3. CASE Exhaust(t)
      BY <2>1, <3>3 DEF Exhaust, Drained, Go, Drains
    <3>4. QED
      BY <2>2, <3>1, <3>2, <3>3 DEF Drain, TryLock
  <2>3. ASSUME ~ Drain(t)
        PROVE  place'[t] = "drain" /\ UNCHANGED <<pending, received, lock>>
    <3>1. CASE Gui
      BY <2>1, <3>1 DEF Gui, Edit, Unlock, RequestFlush
    <3>2. CASE BeginProcess
      BY <2>1, <3>2 DEF BeginProcess, Go, Callers
    <3>3. CASE \E u \in Callers, list \in FlushLists : BeginFlush(u, list)
      BY <2>1, <3>3 DEF BeginFlush, Go, block
    <3>4. ASSUME NEW u \in Callers, Drain(u)
          PROVE  place'[t] = "drain" /\ UNCHANGED <<pending, received, lock>>
      <4>1. u # t
        BY <2>3, <3>4
      <4>2. TryLock(u)
        BY <2>1, <3>4, <4>1 DEF Drain, Accept, Refuse, Exhaust
      <4>3. QED
        BY <2>1, <4>1, <4>2 DEF TryLock, Go, Drained
    <3>5. CASE Leave \/ Play
      <4>1. UNCHANGED queue
        BY <3>5 DEF Leave, Play, Sleep, Reject, Snapshot, GiveUp, Gather, Engine, Scatter,
           Finish, Hear
      <4>2. place'[t] = "drain"
        BY <2>1, <3>5 DEF Leave, Play, Sleep, Reject, Return, Snapshot, GiveUp, Gather, Engine,
           Scatter, Finish, Hear, Go
      <4>3. QED
        BY <4>1, <4>2 DEF queue
    <3>6. QED
      BY <3>1, <3>2, <3>3, <3>4, <3>5 DEF Next
  <2>4. QED
    BY <2>2, <2>3
<1>2. QED
  BY <1>1, QueueInvariance, PTL DEF Spec, DrainIsAlone

-----------------------------------------------------------------------------
(***************************************************************************)
(* Events.                                                                 *)
(***************************************************************************)

\* Max of FiniteSetsExt on a set of positions.
LEMMA MaxOfPositions ==
  ASSUME NEW n \in Nat, NEW S, S \subseteq 1 .. n, S # {}
  PROVE  Max(S) \in S /\ \A i \in S : i <= Max(S)
<1> DEFINE R == OpToRel(<, Nat)
           T == {n - i : i \in S}
<1>1. IsWellFoundedOn(R, Nat)
  BY NatLessThanWellFounded
<1>2. T \subseteq Nat /\ T # {}
  <2>1. \A i \in S : n - i \in Nat
    OBVIOUS
  <2>2. PICK i \in S : TRUE
    OBVIOUS
  <2>3. n - i \in T
    OBVIOUS
  <2>4. QED
    BY <2>1, <2>3
<1>3. \A x, y \in Nat : y < x => <<y, x>> \in R
  BY DEF OpToRel
<1> HIDE DEF R
<1>4. PICK x \in T : \A y \in T : ~ (<<y, x>> \in R)
  <2> HIDE DEF T
  <2>1. QED
    BY <1>1, <1>2, WFMin
<1>5. PICK m \in S : x = n - m
  BY <1>4
<1>6. ASSUME NEW i \in S PROVE i <= m
  <2>1. n - i \in T /\ n - i \in Nat /\ n - m \in Nat /\ i \in Int /\ m \in Int
    BY <1>5
  <2>2. ~ (n - i < n - m)
    BY <1>2, <1>3, <1>4, <1>5, <2>1
  <2>3. QED
    BY <2>1, <2>2
<1>7. \A i \in S : m >= i
  BY <1>6
<1>8. QED
  BY <1>7 DEF Max

\* What of a list counts, and that the last that counts is what applies.
LEMMA AppliedIsTheLast ==
  ASSUME NEW list \in Seq(STRING), NEW value
  PROVE  IF Heeded(list) = {} THEN Applied(list, value) = value
         ELSE \E i \in DOMAIN list :
                /\ list[i] = Applied(list, value)
                /\ \A j \in i + 1 .. Len(list) : list[j] \in {"lost", "other"}
<1>1. CASE Heeded(list) = {}
  BY <1>1 DEF Applied
<1>2. CASE Heeded(list) # {}
  <2> DEFINE m == Max(Heeded(list))
  <2>1. DOMAIN list = 1 .. Len(list) /\ Len(list) \in Nat
    BY LenProperties
  <2>2. Heeded(list) \subseteq 1 .. Len(list)
    BY <2>1 DEF Heeded
  <2>3. m \in Heeded(list) /\ \A i \in Heeded(list) : i <= m
    BY <1>2, <2>1, <2>2, MaxOfPositions
  <2>4. Applied(list, value) = list[m]
    BY <1>2 DEF Applied
  <2> HIDE DEF m
  <2>5. ASSUME NEW j \in m + 1 .. Len(list) PROVE list[j] \in {"lost", "other"}
    <3>1. j \in 1 .. Len(list) /\ ~ (j <= m)
      BY <2>1, <2>2, <2>3
    <3>2. j \notin Heeded(list)
      BY <2>3, <3>1
    <3>3. QED
      BY <2>1, <3>1, <3>2 DEF Heeded
  <2>6. QED
    BY <1>2, <2>1, <2>2, <2>3, <2>4, <2>5
<1>3. QED
  BY <1>1, <1>2

\* A value the host has sent: the last of the block, or one of a flush.
Sent(value) ==
  \/ \E i \in DOMAIN events :
       /\ events[i] = value
       /\ \A j \in i + 1 .. Len(events) : events[j] \in {"lost", "other"}
  \/ \E list \in FlushLists : \E i \in DOMAIN list : list[i] = value

\* Once the block's events are applied the parameter is a value of the host.
Automated ==
  (\E i \in DOMAIN events : events[i] \notin {"lost", "other"}) =>
    /\ place["audio"] = "heard" => Sent(parameter)
    /\ place["audio"] \in {"gather", "scatter"} => Sent(heard)

LEMMA AutomatedStep ==
  ASSUME QueueInv, Automated, [Next]_vars
  PROVE  Automated'
<1> DEFINE automates == \E i \in DOMAIN events : events[i] \notin {"lost", "other"}
<1>1. place \in [Callers ->
        {"idle", "offer", "drain", "body", "heard", "gather", "scatter"}]
      /\ "audio" \in Callers
  BY DEF QueueInv, TypeOK, Callers
<1>2. CASE UNCHANGED vars
  BY <1>2 DEF vars, block, Automated, Sent
<1>3. CASE Gui
  BY <1>3 DEF Gui, Edit, Unlock, RequestFlush, block, Automated, Sent
<1>4. CASE BeginProcess
  BY <1>1, <1>4 DEF BeginProcess, Go, Automated
<1>5. CASE \E t \in Callers, list \in FlushLists : BeginFlush(t, list)
  <2>1. PICK t \in Callers, list \in FlushLists : BeginFlush(t, list)
    BY <1>5
  <2>2. /\ UNCHANGED <<events, heard>> /\ parameter' = Applied(list, parameter)
        /\ place[t] = "idle" /\ place' = [place EXCEPT ![t] = "offer"]
    BY <2>1 DEF BeginFlush, Go, block
  <2>3. list \in Seq(STRING)
    BY ProcessAssumption
  <2>4. parameter' = parameter \/ Sent(parameter')
    BY <2>2, <2>3, AppliedIsTheLast DEF Sent
  <2>5. place'["audio"] # "offer" => place'["audio"] = place["audio"]
    BY <1>1, <2>2
  <2>6. Sent(parameter') => Sent(parameter)'
    BY <2>2 DEF Sent
  <2>7. Sent(heard) => Sent(heard)'
    BY <2>2 DEF Sent
  <2>8. Sent(parameter) /\ parameter' = parameter => Sent(parameter)'
    BY <2>2 DEF Sent
  <2>9. QED
    BY <2>2, <2>4, <2>5, <2>6, <2>7, <2>8 DEF Automated
<1>6. CASE \E t \in Callers : Drain(t)
  <2>1. PICK t \in Callers : Drain(t)
    BY <1>6
  <2>2. /\ UNCHANGED <<events, heard, parameter>>
        /\ place' = place \/ \E p \in {"drain", "body", "idle"} : place' = [place EXCEPT ![t] = p]
    BY <2>1 DEF Drain, TryLock, Accept, Refuse, Exhaust, Drained, Go, block
  <2>3. place'["audio"] \in {"heard", "gather", "scatter"} => place'["audio"] = place["audio"]
    BY <1>1, <2>2
  <2>4. QED
    BY <2>2, <2>3 DEF Automated, Sent
<1>7. CASE Leave \/ GiveUp \/ Finish
  <2>1. place' = [place EXCEPT !["audio"] = "idle"]
    BY <1>7 DEF Leave, Sleep, Reject, GiveUp, Finish, Return, Go
  <2>2. place'["audio"] = "idle"
    BY <1>1, <2>1
  <2>3. QED
    BY <2>2 DEF Automated
<1>8. CASE \E b \in Shapes : \E list \in EventLists : Hear(b, list)
  <2>1. PICK b \in Shapes, list \in EventLists : Hear(b, list)
    BY <1>8
  <2>2. /\ events' = list /\ parameter' = Applied(list, parameter)
        /\ place'["audio"] = "heard"
    BY <1>1, <2>1 DEF Hear, Go
  <2>3. list \in Seq(STRING)
    BY ProcessAssumption
  <2>4. (\E i \in DOMAIN list : list[i] \notin {"lost", "other"}) => Heeded(list) # {}
    BY DEF Heeded
  <2>5. QED
    BY <2>2, <2>3, <2>4, AppliedIsTheLast DEF Automated, Sent
<1>9. CASE Snapshot
  <2>1. /\ events' = events /\ heard' = parameter /\ place["audio"] = "heard"
        /\ place'["audio"] = "gather"
    BY <1>1, <1>9 DEF Snapshot, Go
  <2>2. QED
    BY <2>1 DEF Automated, Sent
<1>10. CASE Gather \/ Engine \/ Scatter
  <2>1. /\ UNCHANGED <<events, heard, parameter>>
        /\ place["audio"] \in {"gather", "scatter"}
        /\ place'["audio"] \in {"gather", "scatter"}
    BY <1>1, <1>10 DEF Gather, Engine, Scatter, Go
  <2>2. QED
    BY <2>1 DEF Automated, Sent
<1>11. QED
  BY <1>2, <1>3, <1>4, <1>5, <1>6, <1>7, <1>8, <1>9, <1>10 DEF Next, Play

(***************************************************************************)
(* A block runs with the last value the host automated in it, or one of a  *)
(* flush (audio.rs: process; events.rs: InputEventsIter).                  *)
(***************************************************************************)
THEOREM LastValueHeard == Spec => []AutomationHeard
<1>1. Init => Automated
  <2>1. Init => place["audio"] = "idle"
    BY DEF Init, Callers
  <2>2. QED
    BY <2>1 DEF Automated
<1>2. QueueInv /\ Automated /\ [Next]_vars => Automated'
  BY AutomatedStep
<1>3. Automated => AutomationHeard
  BY DEF Automated, Sent, AutomationHeard
<1>4. QED
  BY <1>1, <1>2, <1>3, QueueInvariance, PTL DEF Spec

-----------------------------------------------------------------------------
(***************************************************************************)
(* The block in hand.                                                      *)
(***************************************************************************)

Type == SampleType(buffers)

\* What the host passed is usable, and has a type once a channel is read.
Fit ==
  /\ DOMAIN scratch = 1 .. Channels
  /\ place["audio"] \in {"heard", "gather", "scatter"} =>
       buffers \in Shapes /\ Valid(buffers)
  /\ place["audio"] \in {"gather", "scatter"} => channel \in Nat \ {0}
  /\ place["audio"] = "gather" /\ channel > 1 => Type # None
  /\ place["audio"] = "scatter" => Type # None

\* Until the engine has run the memory is the host's.
Unwritten == place["audio"] \in {"heard", "gather"} => memory = Untouched(buffers)

\* The channels read so far are those of the input.
Read ==
  place["audio"] = "gather" =>
    \A ch \in 1 .. Channels : ch < channel /\ ch <= Width(buffers.input) =>
      \A i \in 1 .. Frames : scratch[ch][i] = Origin(Type, buffers.input.cells[ch], i)

\* The engine's answer to an input of at least its channels.
Answered ==
  place["audio"] = "scatter" /\ Width(buffers.input) >= Channels =>
    \A ch \in 1 .. Channels : \A i \in 1 .. Frames :
      scratch[ch][i] = Wet(ch, Origin(Type, buffers.input.cells[ch], i))

\* Channel ch of the output, of those done so far, is the cell.
Done(ch, cell) ==
  ch < channel /\ ch <= Width(buffers.output) /\ buffers.output.cells[ch] = cell

\* The channels written so far, and nothing else, are from scratch.
Written ==
  place["audio"] = "scatter" =>
    /\ DOMAIN memory = {"f32", "f64"}
    /\ \A type \in {"f32", "f64"} : DOMAIN memory[type] = Cells
    /\ \A type \in {"f32", "f64"}, cell \in Cells, i \in 1 .. buffers.frames :
         /\ \A ch \in Nat \ {0} : type = Type /\ i <= MaxFrames /\ Done(ch, cell) =>
              memory[type][cell][i] = scratch[Feed(ch)][i]
         /\ (type = Type /\ i <= MaxFrames => \A ch \in Nat \ {0} : ~ Done(ch, cell)) =>
              memory[type][cell][i] = Origin(type, cell, i)

BlockInv == Fit /\ Unwritten /\ Read /\ Answered /\ Written

\* Min of FiniteSetsExt, as Frames and Feed use it.
LEMMA MinOfTwo ==
  ASSUME NEW a \in Int, NEW b \in Int
  PROVE  Min({a, b}) \in {a, b} /\ Min({a, b}) <= a /\ Min({a, b}) <= b
BY DEF Min

LEMMA FramesOf ==
  ASSUME buffers \in Shapes
  PROVE  /\ Frames \in Nat
         /\ \A i : i \in 1 .. Frames <=> i \in 1 .. buffers.frames /\ i <= MaxFrames
<1> DEFINE n == buffers.frames
<1>1. n \in Nat /\ MaxFrames \in Nat
  BY ShapesAssumption, ProcessAssumption
<1>2. Frames = Min({n, MaxFrames})
  BY DEF Frames
<1> HIDE DEF n
<1>3. n \in Int /\ MaxFrames \in Int
  BY <1>1
<1>4. /\ Frames \in {n, MaxFrames}
      /\ Frames <= n /\ Frames <= MaxFrames
  BY <1>2, <1>3, MinOfTwo
<1>5. /\ Frames \in Nat
      /\ \A i : i \in 1 .. Frames <=> i \in 1 .. n /\ i <= MaxFrames
  BY <1>1, <1>4
<1>6. QED
  BY <1>5 DEF n

LEMMA FeedOf == \A ch \in Nat \ {0} : Feed(ch) \in 1 .. Channels
<1> SUFFICES ASSUME NEW ch \in Nat \ {0} PROVE Feed(ch) \in 1 .. Channels
  OBVIOUS
<1>1. ch \in Int /\ Channels \in Int /\ Channels >= 1
  BY ProcessAssumption
<1>2. /\ Feed(ch) \in {ch, Channels}
      /\ Feed(ch) <= Channels
  BY <1>1, MinOfTwo DEF Feed
<1>3. QED
  BY <1>1, <1>2

\* A port with channels is one, and its cells are cells.
LEMMA PortCells ==
  ASSUME NEW b \in Shapes, NEW port \in {b.input, b.output}
  PROVE  /\ Width(port) \in Nat
         /\ \A ch \in 1 .. Width(port) : port # None /\ port.cells[ch] \in Cells
                                       /\ ch \in DOMAIN port.cells
<1>1. CASE port = None
  BY <1>1 DEF Width
<1>2. CASE port # None
  <2>1. port.cells \in Seq(Cells)
    BY <1>2, ShapesAssumption
  <2> DEFINE cells == port.cells
  <2>2. cells \in Seq(Cells) /\ Width(port) = Len(cells)
    BY <1>2, <2>1 DEF Width
  <2> HIDE DEF cells
  <2>3. Len(cells) \in Nat /\ DOMAIN cells = 1 .. Len(cells) /\ cells \in [1 .. Len(cells) -> Cells]
    BY <2>2, LenProperties
  <2>4. QED
    BY <1>2, <2>2, <2>3 DEF cells
<1>3. QED
  BY <1>1, <1>2

LEMMA TypeOf == Type # None => Type \in {"f32", "f64"}
BY DEF Type, SampleType

LEMMA BlockInit == Init => BlockInv
<1>1. Init => place["audio"] = "idle" /\ DOMAIN scratch = 1 .. Channels
  BY DEF Init, Callers, Silent
<1>2. QED
  BY <1>1 DEF BlockInv, Fit, Unwritten, Read, Answered, Written

\* A step that leaves the block alone.
LEMMA ElsewhereStep ==
  ASSUME BlockInv,
         UNCHANGED <<buffers, memory, scratch, channel>>,
         place'["audio"] = place["audio"]
           \/ place'["audio"] \notin {"heard", "gather", "scatter"}
  PROVE  BlockInv'
<1>1. /\ Type' = Type /\ Frames' = Frames
  BY DEF Type, Frames
<1>2. Fit' /\ Unwritten' /\ Read' /\ Answered'
  BY <1>1 DEF BlockInv, Fit, Unwritten, Read, Answered
<1>3. \A ch, cell : Done(ch, cell)' <=> Done(ch, cell)
  BY DEF Done
<1>4. Written'
  BY <1>1, <1>3 DEF BlockInv, Written
<1>5. QED
  BY <1>2, <1>4 DEF BlockInv

LEMMA ReturnStep ==
  ASSUME QueueInv, Leave \/ GiveUp \/ Finish
  PROVE  BlockInv'
<1>1. place' = [place EXCEPT !["audio"] = "idle"] /\ scratch' = Silent
  BY DEF Leave, Sleep, Reject, GiveUp, Finish, Return, Go
<1>2. place'["audio"] = "idle"
  BY <1>1 DEF QueueInv, TypeOK, Callers
<1>3. DOMAIN scratch' = 1 .. Channels
  BY <1>1 DEF Silent
<1>4. QED
  BY <1>2, <1>3 DEF BlockInv, Fit, Unwritten, Read, Answered, Written

LEMMA HearStep ==
  ASSUME QueueInv, BlockInv, NEW b \in Shapes, NEW list \in EventLists, Hear(b, list)
  PROVE  BlockInv'
<1>1. place' = [place EXCEPT !["audio"] = "heard"]
      /\ Valid(b) /\ buffers' = b /\ memory' = Untouched(b) /\ scratch' = scratch
  BY DEF Hear, Go
<1>2. place'["audio"] = "heard"
  BY <1>1 DEF QueueInv, TypeOK, Callers
<1>3. QED
  BY <1>1, <1>2 DEF BlockInv, Fit, Unwritten, Read, Answered, Written

LEMMA SnapshotStep ==
  ASSUME QueueInv, BlockInv, Snapshot
  PROVE  BlockInv'
<1>1. place["audio"] = "heard" /\ place' = [place EXCEPT !["audio"] = "gather"]
      /\ channel' = 1 /\ UNCHANGED <<buffers, memory, scratch>>
  BY DEF Snapshot, Go
<1>2. place'["audio"] = "gather"
  BY <1>1 DEF QueueInv, TypeOK, Callers
<1>3. \A ch \in 1 .. Channels : ~ (ch < 1)
  BY ProcessAssumption
<1>4. Fit' /\ Unwritten' /\ Answered' /\ Written'
  BY <1>1, <1>2 DEF BlockInv, Fit, Unwritten, Answered, Written
<1>5. Read'
  BY <1>1, <1>3 DEF Read
<1>6. QED
  BY <1>4, <1>5 DEF BlockInv

LEMMA GatherStep ==
  ASSUME QueueInv, BlockInv, Gather
  PROVE  BlockInv'
<1> DEFINE width == Width(buffers.input)
<1>1. /\ place["audio"] = "gather" /\ place' = place
      /\ channel <= Channels /\ Type # None
      /\ scratch' = IF channel <= width
                    THEN [scratch EXCEPT ![channel] = Gathered(channel)] ELSE scratch
      /\ channel' = channel + 1 /\ UNCHANGED <<buffers, memory>>
  BY DEF Gather, Type
<1>2. /\ buffers \in Shapes /\ Valid(buffers) /\ channel \in 1 .. Channels
      /\ DOMAIN scratch = 1 .. Channels /\ memory = Untouched(buffers)
  BY <1>1, ProcessAssumption DEF BlockInv, Fit, Unwritten
<1>3. Type' = Type /\ Frames' = Frames
  BY <1>1 DEF Type, Frames
<1>4. Fit'
  <2>1. DOMAIN scratch' = 1 .. Channels
    BY <1>1, <1>2
  <2>2. channel + 1 \in Nat \ {0}
    BY <1>2, ProcessAssumption
  <2>3. QED
    BY <1>1, <1>2, <1>3, <2>1, <2>2 DEF Fit
<1>5. Unwritten' /\ Answered' /\ Written'
  BY <1>1, <1>2 DEF Unwritten, Answered, Written
<1>6. ASSUME NEW ch \in 1 .. Channels, ch < channel + 1, ch <= width,
             NEW i \in 1 .. Frames
      PROVE  scratch'[ch][i] = Origin(Type, buffers.input.cells[ch], i)
  <2>1. i \in 1 .. buffers.frames /\ i \in 1 .. MaxFrames /\ i <= Frames
    BY <1>2, FramesOf, ProcessAssumption, ShapesAssumption
  <2>2. width \in Nat /\ \A c \in 1 .. width : buffers.input.cells[c] \in Cells
    BY <1>2, PortCells
  <2> HIDE DEF width
  <2>3. CASE ch = channel
    <3>1. scratch'[ch] = Gathered(ch)
      BY <1>1, <1>2, <1>6, <2>3
    <3>2. Gathered(ch)[i] = memory[Type][buffers.input.cells[ch]][i]
      BY <2>1 DEF Gathered, Type
    <3>3. ch \in 1 .. width
      BY <1>6, <2>2, ProcessAssumption
    <3>4. buffers.input.cells[ch] \in Cells /\ Type \in {"f32", "f64"}
      BY <1>1, <2>2, <3>3, TypeOf
    <3>5. memory[Type][buffers.input.cells[ch]][i]
            = Origin(Type, buffers.input.cells[ch], i)
      BY <1>2, <2>1, <3>4 DEF Untouched
    <3>6. QED
      BY <3>1, <3>2, <3>5
  <2>4. CASE ch # channel
    <3>1. ch < channel /\ scratch'[ch] = scratch[ch]
      BY <1>1, <1>2, <1>6, <2>4, ProcessAssumption
    <3>2. QED
      BY <1>1, <1>6, <3>1 DEF BlockInv, Read, width
  <2>5. QED
    BY <2>3, <2>4
<1>7. Read'
  BY <1>1, <1>3, <1>6 DEF Read
<1>8. QED
  BY <1>4, <1>5, <1>7 DEF BlockInv

LEMMA EngineStep ==
  ASSUME QueueInv, BlockInv, Engine
  PROVE  BlockInv'
<1>1. /\ place["audio"] = "gather" /\ place' = [place EXCEPT !["audio"] = "scatter"]
      /\ channel = Channels + 1 /\ channel' = 1 /\ UNCHANGED <<buffers, memory>>
      /\ scratch' = [ch \in 1 .. Channels |->
                      [i \in 1 .. MaxFrames |->
                        IF i <= Frames THEN Wet(ch, scratch[ch][i]) ELSE scratch[ch][i]]]
  BY DEF Engine, Go
<1>2. place'["audio"] = "scatter"
  BY <1>1 DEF QueueInv, TypeOK, Callers
<1>3. Type' = Type /\ Frames' = Frames
  BY <1>1 DEF Type, Frames
<1>4. /\ buffers \in Shapes /\ Valid(buffers) /\ Type # None
      /\ memory = Untouched(buffers)
  BY <1>1, ProcessAssumption DEF BlockInv, Fit, Unwritten
<1>5. Fit' /\ Unwritten' /\ Read'
  BY <1>1, <1>2, <1>3, <1>4 DEF Fit, Unwritten, Read
<1>6. Answered'
  <2>1. SUFFICES ASSUME Width(buffers.input) >= Channels,
                        NEW ch \in 1 .. Channels, NEW i \in 1 .. Frames
                 PROVE  scratch'[ch][i] = Wet(ch, Origin(Type, buffers.input.cells[ch], i))
    BY <1>1, <1>3 DEF Answered
  <2>2. i \in 1 .. MaxFrames /\ i <= Frames
    BY <1>4, FramesOf, ProcessAssumption, ShapesAssumption
  <2>3. scratch'[ch][i] = Wet(ch, scratch[ch][i])
    BY <1>1, <2>2
  <2>4. Width(buffers.input) \in Nat
    BY <1>4, PortCells
  <2>5. ch < channel /\ ch <= Width(buffers.input)
    BY <1>1, <2>1, <2>4, ProcessAssumption
  <2>6. scratch[ch][i] = Origin(Type, buffers.input.cells[ch], i)
    BY <1>1, <2>5 DEF BlockInv, Read
  <2>7. QED
    BY <2>3, <2>6
<1>7. Written'
  <2>1. \A ch \in Nat \ {0} : \A cell : ~ Done(ch, cell)'
    BY <1>1 DEF Done
  <2>2. /\ DOMAIN memory = {"f32", "f64"}
        /\ \A type \in {"f32", "f64"} : DOMAIN memory[type] = Cells
        /\ \A type \in {"f32", "f64"}, cell \in Cells, i \in 1 .. buffers.frames :
             memory[type][cell][i] = Origin(type, cell, i)
    BY <1>4 DEF Untouched
  <2>3. QED
    BY <1>1, <2>1, <2>2 DEF Written
<1>8. QED
  BY <1>5, <1>6, <1>7 DEF BlockInv

LEMMA ScatterStep ==
  ASSUME QueueInv, BlockInv, Scatter
  PROVE  BlockInv'
<1> DEFINE cells == buffers.output.cells
           here == cells[channel]
           width == Width(buffers.output)
           column == [i \in 1 .. buffers.frames |->
                       IF i <= Frames THEN scratch[Feed(channel)][i]
                       ELSE memory[Type][here][i]]
<1>1. /\ place["audio"] = "scatter" /\ place' = place /\ channel <= width
      /\ channel' = channel + 1 /\ UNCHANGED <<buffers, scratch>>
      /\ memory' = [memory EXCEPT ![Type][here] = column]
  BY DEF Scatter, Type
<1>2. /\ buffers \in Shapes /\ Valid(buffers) /\ channel \in Nat \ {0}
      /\ Type \in {"f32", "f64"} /\ Type # None
  BY <1>1, TypeOf DEF BlockInv, Fit
<1>3. Type' = Type /\ Frames' = Frames
  BY <1>1 DEF Type, Frames
<1>4. width \in Nat /\ \A ch \in 1 .. width : buffers.output # None /\ cells[ch] \in Cells
                                            /\ ch \in DOMAIN cells
  BY <1>2, PortCells
<1>5. channel \in 1 .. width /\ here \in Cells
  BY <1>1, <1>2, <1>4
<1>6. /\ DOMAIN memory = {"f32", "f64"}
      /\ \A type \in {"f32", "f64"} : DOMAIN memory[type] = Cells
  BY <1>1 DEF BlockInv, Written
<1>7. Fit' /\ Unwritten' /\ Read' /\ Answered'
  <2>1. channel + 1 \in Nat \ {0}
    BY <1>2
  <2>2. QED
    BY <1>1, <1>2, <1>3, <2>1 DEF BlockInv, Fit, Unwritten, Read, Answered
<1> HIDE DEF column
<1>8. /\ DOMAIN memory' = {"f32", "f64"}
      /\ \A type \in {"f32", "f64"} : DOMAIN memory'[type] = Cells
      /\ memory'[Type][here] = column
      /\ \A type \in {"f32", "f64"}, cell \in Cells :
           type # Type \/ cell # here => memory'[type][cell] = memory[type][cell]
  <2> HIDE DEF here
  <2>1. QED
    BY <1>1, <1>2, <1>5, <1>6
<1>9. \A ch \in Nat \ {0} : \A cell :
        Done(ch, cell)' <=> (Done(ch, cell) \/ (ch = channel /\ here = cell))
  <2>1. SUFFICES ASSUME NEW ch \in Nat \ {0}, NEW cell
                 PROVE  Done(ch, cell)' <=> (Done(ch, cell) \/ (ch = channel /\ here = cell))
    OBVIOUS
  <2>2. ch < channel + 1 <=> ch < channel \/ ch = channel
    BY <1>2
  <2>3. Done(ch, cell)' <=> ch < channel + 1 /\ ch <= width /\ cells[ch] = cell
    BY <1>1 DEF Done
  <2>4. Done(ch, cell) <=> ch < channel /\ ch <= width /\ cells[ch] = cell
    BY DEF Done
  <2>5. QED
    BY <1>1, <2>2, <2>3, <2>4
<1>10. ASSUME NEW type \in {"f32", "f64"}, NEW cell \in Cells, NEW i \in 1 .. buffers.frames
       PROVE  /\ \A ch \in Nat \ {0} : type = Type /\ i <= MaxFrames /\ Done(ch, cell)' =>
                   memory'[type][cell][i] = scratch[Feed(ch)][i]
              /\ (type = Type /\ i <= MaxFrames => \A ch \in Nat \ {0} : ~ Done(ch, cell)') =>
                   memory'[type][cell][i] = Origin(type, cell, i)
  <2>1. /\ \A ch \in Nat \ {0} : type = Type /\ i <= MaxFrames /\ Done(ch, cell) =>
             memory[type][cell][i] = scratch[Feed(ch)][i]
        /\ (type = Type /\ i <= MaxFrames => \A ch \in Nat \ {0} : ~ Done(ch, cell)) =>
             memory[type][cell][i] = Origin(type, cell, i)
    BY <1>1 DEF BlockInv, Written
  <2>2. CASE type # Type \/ cell # here
    <3>1. memory'[type][cell] = memory[type][cell]
      BY <1>8, <2>2
    <3>2. type = Type => \A ch \in Nat \ {0} : Done(ch, cell)' <=> Done(ch, cell)
      <4>1. ASSUME NEW ch \in Nat \ {0}, type = Type
            PROVE  Done(ch, cell)' <=> Done(ch, cell)
        <5>1. Done(ch, cell)' <=> (Done(ch, cell) \/ (ch = channel /\ here = cell))
          BY <1>9
        <5>2. cell # here
          BY <2>2, <4>1
        <5>3. QED
          BY <5>1, <5>2
      <4>2. QED
        BY <4>1
    <3>3. QED
      BY <2>1, <3>1, <3>2
  <2>3. CASE type = Type /\ cell = here
    <3>1. memory'[type][cell][i] = IF i <= Frames THEN scratch[Feed(channel)][i]
                                  ELSE memory[type][cell][i]
      BY <1>8, <2>3 DEF column
    <3>2. i <= Frames <=> i <= MaxFrames
      <4>1. i \in 1 .. Frames <=> i <= MaxFrames
        BY <1>2, FramesOf
      <4>2. i \in 1 .. Frames <=> i <= Frames
        BY <1>2, FramesOf, ShapesAssumption
      <4>3. QED
        BY <4>1, <4>2
    <3>3. CASE i <= MaxFrames
      <4>1. ASSUME NEW ch \in Nat \ {0}, Done(ch, here) PROVE FALSE
        <5>1. ch < channel /\ ch <= width /\ cells[ch] = here
          BY <4>1 DEF Done
        <5>2. ch \in 1 .. width
          BY <1>4, <5>1
        <5>3. ch \in DOMAIN cells /\ channel \in DOMAIN cells /\ buffers.output # None
          BY <1>4, <1>5, <5>2
        <5>4. buffers.frames > 0
          BY <1>2, ShapesAssumption
        <5>5. \A j, k \in DOMAIN cells : j # k => cells[j] # cells[k]
          BY <1>2, <5>3, <5>4 DEF Valid
        <5>6. QED
          BY <1>2, <5>1, <5>3, <5>5
      <4>2. memory'[type][cell][i] = scratch[Feed(channel)][i]
        BY <3>1, <3>2, <3>3
      <4>3. \A ch \in Nat \ {0} : Done(ch, cell)' <=> ch = channel
        BY <1>9, <2>3, <4>1
      <4>4. QED
        BY <1>2, <2>3, <3>3, <4>2, <4>3
    <3>4. CASE ~ (i <= MaxFrames)
      <4>1. memory'[type][cell][i] = memory[type][cell][i]
        BY <3>1, <3>2, <3>4
      <4>2. QED
        BY <2>1, <3>4, <4>1
    <3>5. QED
      BY <3>3, <3>4
  <2>4. QED
    BY <2>2, <2>3
<1>11. Written'
  BY <1>1, <1>3, <1>8, <1>10 DEF Written
<1>12. QED
  BY <1>7, <1>11 DEF BlockInv

LEMMA BlockInvStep == QueueInv /\ BlockInv /\ [Next]_vars => BlockInv'
<1> SUFFICES ASSUME QueueInv, BlockInv, [Next]_vars PROVE BlockInv'
  OBVIOUS
<1>1. place \in [Callers ->
        {"idle", "offer", "drain", "body", "heard", "gather", "scatter"}]
      /\ "audio" \in Callers
  BY DEF QueueInv, TypeOK, Callers
<1>2. CASE UNCHANGED vars \/ Gui
  BY <1>2, ElsewhereStep DEF vars, block, Gui, Edit, Unlock, RequestFlush
<1>3. CASE BeginProcess
  <2>1. UNCHANGED <<buffers, memory, scratch, channel>> /\ place'["audio"] = "offer"
    BY <1>1, <1>3 DEF BeginProcess, Go
  <2>2. QED
    BY <2>1, ElsewhereStep
<1>4. CASE \E t \in Callers, list \in FlushLists : BeginFlush(t, list)
  <2>1. PICK t \in Callers : place' = [place EXCEPT ![t] = "offer"]
    BY <1>4 DEF BeginFlush, Go
  <2>2. UNCHANGED <<buffers, memory, scratch, channel>>
    BY <1>4 DEF BeginFlush, block
  <2>3. place'["audio"] = place["audio"] \/ place'["audio"] = "offer"
    BY <1>1, <2>1
  <2>4. QED
    BY <2>2, <2>3, ElsewhereStep
<1>5. CASE \E t \in Callers : Drain(t)
  <2>1. PICK t \in Callers : Drain(t)
    BY <1>5
  <2>2. /\ UNCHANGED <<buffers, memory, scratch, channel>>
        /\ place' = place \/ \E p \in {"drain", "body", "idle"} : place' = [place EXCEPT ![t] = p]
    BY <2>1 DEF Drain, TryLock, Accept, Refuse, Exhaust, Drained, Go, block
  <2>3. place'["audio"] = place["audio"] \/ place'["audio"] \in {"drain", "body", "idle"}
    BY <1>1, <2>2
  <2>4. QED
    BY <2>2, <2>3, ElsewhereStep
<1>6. CASE Leave \/ Play
  BY <1>6, ReturnStep, HearStep, SnapshotStep, GatherStep, EngineStep, ScatterStep
     DEF Play
<1>7. QED
  BY <1>2, <1>3, <1>4, <1>5, <1>6 DEF Next

(***************************************************************************)
(* When a block ends the output is the engine's answer to this block's     *)
(* input, however the two share memory, and nothing else is written        *)
(* (process_buffer.rs: process_block_common; audio.rs: process).           *)
(***************************************************************************)
THEOREM OutputIsOfThisBlock == Spec => []BlockIsThisBlocks
<1>1. BlockInv => BlockIsThisBlocks
  <2>1. SUFFICES ASSUME BlockInv, place["audio"] = "scatter",
                        channel = Width(buffers.output) + 1,
                        Width(buffers.input) >= Channels,
                        NEW type \in {"f32", "f64"}, NEW cell \in Cells,
                        NEW i \in 1 .. buffers.frames
                 PROVE  memory[type][cell][i] =
                          IF type = Type /\ i <= MaxFrames
                               /\ \E ch \in 1 .. Width(buffers.output) :
                                     buffers.output.cells[ch] = cell
                          THEN LET ch == CHOOSE ch \in 1 .. Width(buffers.output) :
                                           buffers.output.cells[ch] = cell
                               IN  Wet(Feed(ch), Origin(type, buffers.input.cells[Feed(ch)], i))
                          ELSE Origin(type, cell, i)
    BY DEF BlockIsThisBlocks, Type
  <2> DEFINE width == Width(buffers.output)
             given(ch) == buffers.output.cells[ch] = cell
  <2>2. buffers \in Shapes /\ width \in Nat
    BY <2>1, PortCells DEF BlockInv, Fit
  <2>3. \A ch \in 1 .. width : ch \in Nat \ {0} /\ (Done(ch, cell) <=> given(ch))
    BY <2>1, <2>2 DEF Done
  <2>4. \A ch \in Nat \ {0} : Done(ch, cell) => ch \in 1 .. width /\ given(ch)
    BY <2>2 DEF Done
  <2>5. /\ \A ch \in Nat \ {0} : type = Type /\ i <= MaxFrames /\ Done(ch, cell) =>
             memory[type][cell][i] = scratch[Feed(ch)][i]
        /\ (type = Type /\ i <= MaxFrames => \A ch \in Nat \ {0} : ~ Done(ch, cell)) =>
             memory[type][cell][i] = Origin(type, cell, i)
    BY <2>1 DEF BlockInv, Written
  <2>6. CASE type = Type /\ i <= MaxFrames /\ \E ch \in 1 .. width : given(ch)
    <3> DEFINE ch == CHOOSE ch \in 1 .. width : given(ch)
    <3>1. ch \in 1 .. width /\ given(ch)
      BY <2>6
    <3> HIDE DEF ch
    <3>2. ch \in Nat \ {0} /\ Done(ch, cell)
      BY <2>3, <3>1
    <3>3. memory[type][cell][i] = scratch[Feed(ch)][i]
      BY <2>5, <2>6, <3>2
    <3>4. Feed(ch) \in 1 .. Channels
      BY <3>2, FeedOf
    <3>5. i \in 1 .. Frames
      BY <2>2, <2>6, FramesOf
    <3>6. scratch[Feed(ch)][i] = Wet(Feed(ch), Origin(type, buffers.input.cells[Feed(ch)], i))
      BY <2>1, <2>6, <3>4, <3>5 DEF BlockInv, Answered
    <3>7. QED
      BY <2>6, <3>3, <3>6 DEF ch
  <2>7. CASE ~ (type = Type /\ i <= MaxFrames /\ \E ch \in 1 .. width : given(ch))
    <3>1. type = Type /\ i <= MaxFrames => \A ch \in Nat \ {0} : ~ Done(ch, cell)
      BY <2>4, <2>7
    <3>2. QED
      BY <2>5, <2>7, <3>1
  <2>8. QED
    BY <2>6, <2>7
<1>2. QED
  BY <1>1, BlockInit, BlockInvStep, QueueInvariance, PTL DEF Spec
=============================================================================
