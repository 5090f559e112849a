------------------------------ MODULE RtLogProofs ------------------------------
(***************************************************************************)
(* Theorems about RtLog, for any number of writers, any capacity and any   *)
(* number of records.                                                      *)
(***************************************************************************)
EXTENDS RtLog, TLAPS

(***************************************************************************)
(* The inductive invariant.                                                *)
(***************************************************************************)

Places == {"idle", "count", "clear", "target", "message", "publish"}
Fields == [target : Nat, message : Nat]
Record == [sequence : Nat, target : Nat, message : Nat]

TypeOK ==
  /\ nextSequence \in Nat /\ drainSequence \in Nat /\ dropped \in Nat
  /\ slots \in [0 .. Capacity - 1 -> Record]
  /\ writing \in [Writers -> Places]
  /\ record \in [Writers -> Nat]
  /\ draining \in {"sleep", "check", "target", "message", "recheck", "store"}
  /\ total \in Nat /\ cursor \in Nat /\ copy \in Fields
  /\ logged \in Seq(Record) /\ skipped \in Nat
  /\ lapped \subseteq Nat

\* Every record up to the worker's position is accounted for in every step.
Accounted ==
  Len(logged) + skipped = IF draining = "sleep" THEN drainSequence ELSE cursor

In(w) == writing[w] # "idle"

\* A sequence number is claimed once; two writers in one slot are lapped.
Claims ==
  /\ \A w \in Writers : In(w) => record[w] < nextSequence
  /\ \A w, v \in Writers : In(w) /\ In(v) /\ w # v =>
       /\ record[w] # record[v]
       /\ Slot(record[w]) = Slot(record[v]) => record[w] \in lapped

\* A published number is that of a record whose writer has left.
Publications ==
  \A n \in Nat : slots[Slot(n)].sequence = n + 1 =>
    /\ n < nextSequence
    /\ \A w \in Writers : In(w) => record[w] # n

\* What a slot holds while it is published: that record, and nobody is past
\* the place where the number is taken back.
Contents ==
  \A n \in Nat \ lapped : slots[Slot(n)].sequence = n + 1 =>
    /\ slots[Slot(n)].target = n /\ slots[Slot(n)].message = n
    /\ \A w \in Writers : In(w) /\ Slot(record[w]) = Slot(n) =>
         writing[w] \in {"count", "clear"}

\* How far a writer that is alone in its slot has come.
Progress ==
  \A w \in Writers : record[w] \notin lapped =>
    /\ writing[w] \in {"message", "publish"} =>
         slots[Slot(record[w])].target = record[w]
    /\ writing[w] = "publish" =>
         slots[Slot(record[w])].message = record[w]

\* What the worker has copied is the record, as long as the number stands.
Copied ==
  draining \in {"target", "message", "recheck"} =>
    /\ cursor < nextSequence
    /\ \A w \in Writers : In(w) => record[w] # cursor
    /\ Published /\ cursor \notin lapped =>
         /\ draining \in {"message", "recheck"} => copy.target = cursor
         /\ draining = "recheck" => copy.message = cursor

Inv ==
  /\ TypeOK /\ Accounted /\ Claims /\ Publications /\ Contents
  /\ Progress /\ Copied /\ IntactUnlessLapped

(***************************************************************************)
(* Lemmas.                                                                 *)
(***************************************************************************)

LEMMA SlotIn == \A n \in Nat : Slot(n) \in 0 .. Capacity - 1
BY RtLogAssumption DEF Slot

\* Max of FiniteSetsExt, as Wake uses it.
LEMMA MaxOfTwo ==
  ASSUME NEW a \in Int, NEW b \in Int
  PROVE  Max({a, b}) \in {a, b} /\ Max({a, b}) >= a /\ Max({a, b}) >= b
BY DEF Max

\* A record of the ring with one field written anew is a record.
LEMMA PutType ==
  ASSUME NEW s \in [0 .. Capacity - 1 -> Record], NEW i \in 0 .. Capacity - 1, NEW x \in Nat
  PROVE  /\ [s EXCEPT ![i].sequence = x] \in [0 .. Capacity - 1 -> Record]
         /\ [s EXCEPT ![i].target = x] \in [0 .. Capacity - 1 -> Record]
         /\ [s EXCEPT ![i].message = x] \in [0 .. Capacity - 1 -> Record]
<1>1. s[i] \in Record
  OBVIOUS
<1>2. /\ [s[i] EXCEPT !.sequence = x] \in Record
      /\ [s[i] EXCEPT !.target = x] \in Record
      /\ [s[i] EXCEPT !.message = x] \in Record
  BY <1>1 DEF Record
<1>3. QED
  BY <1>2

LEMMA InvInit == Init => Inv
<1> SUFFICES ASSUME Init PROVE Inv
  OBVIOUS
<1>1. TypeOK
  BY RtLogAssumption DEF Init, TypeOK, Record, Fields, Places
<1>2. Publications /\ Contents
  <2>1. \A i \in 0 .. Capacity - 1 : slots[i].sequence = 0
    BY DEF Init
  <2>2. \A n \in Nat : slots[Slot(n)].sequence # n + 1
    BY <2>1, SlotIn
  <2>3. QED
    BY <2>2 DEF Publications, Contents
<1>3. QED
  BY <1>1, <1>2 DEF Init, Inv, Accounted, Claims, Progress, Copied, IntactUnlessLapped, In

-----------------------------------------------------------------------------
(***************************************************************************)
(* The writers.                                                            *)
(***************************************************************************)

LEMMA ClaimStep ==
  ASSUME Inv, NEW w \in Writers, Claim(w)
  PROVE  Inv'
<1> USE DEF Inv
<1>1. /\ \A v \in Writers \ {w} : writing'[v] = writing[v] /\ record'[v] = record[v]
      /\ writing[w] = "idle" /\ writing'[w] = "count" /\ record'[w] = nextSequence
      /\ nextSequence' = nextSequence + 1 /\ lapped \subseteq lapped'
      /\ UNCHANGED <<drainSequence, dropped, slots, drain, told>>
  BY DEF Claim, Step, TypeOK
<1>2. lapped' \subseteq Nat
  BY DEF Claim, Crowd, TypeOK
<1>3. TypeOK'
  BY <1>1, <1>2 DEF Claim, Step, TypeOK, Places, drain, told
<1>4. Accounted'
  BY <1>1 DEF Accounted, drain, told
<1>5. \A v \in Writers : In(v) /\ Slot(record[v]) = Slot(nextSequence) =>
        record[v] \in lapped' /\ nextSequence \in lapped'
  <2> SUFFICES ASSUME NEW v \in Writers, In(v), Slot(record[v]) = Slot(nextSequence)
               PROVE  {record[v], nextSequence} \subseteq Crowd(nextSequence)
    BY DEF Claim
  <2>1. QED
    BY DEF Crowd, In
<1>6. Claims'
  <2>1. nextSequence \in Nat /\ record'[w] = nextSequence /\ nextSequence' = nextSequence + 1
    BY <1>1 DEF TypeOK
  <2>2. \A v \in Writers \ {w} : (In(v)' <=> In(v)) /\ record'[v] = record[v]
    BY <1>1 DEF In
  <2>3. \A v \in Writers : In(v) => record[v] \in Nat /\ record[v] < nextSequence
    BY DEF Claims, TypeOK
  <2>4. \A v \in Writers : In(v)' => record'[v] < nextSequence'
    BY <2>1, <2>2, <2>3
  <2>5. ASSUME NEW u \in Writers, NEW v \in Writers, In(u)', In(v)', u # v
        PROVE  /\ record'[u] # record'[v]
               /\ Slot(record'[u]) = Slot(record'[v]) => record'[u] \in lapped'
    <3>1. CASE u = w
      BY <1>5, <2>1, <2>2, <2>3, <2>5, <3>1
    <3>2. CASE v = w
      BY <1>5, <2>1, <2>2, <2>3, <2>5, <3>2
    <3>3. CASE u # w /\ v # w
      BY <1>1, <2>2, <2>5, <3>3 DEF Claims
    <3>4. QED
      BY <3>1, <3>2, <3>3
  <2>6. QED
    BY <2>4, <2>5 DEF Claims
<1>7. Publications'
  <2> SUFFICES ASSUME NEW n \in Nat, slots[Slot(n)].sequence = n + 1
               PROVE  n < nextSequence' /\ \A v \in Writers : In(v)' => record'[v] # n
    BY <1>1 DEF Publications
  <2>1. n < nextSequence /\ \A v \in Writers : In(v) => record[v] # n
    BY DEF Publications
  <2>2. \A v \in Writers \ {w} : In(v)' => record'[v] # n
    BY <1>1, <2>1 DEF In
  <2>3. QED
    BY <1>1, <2>1, <2>2 DEF TypeOK
<1>8. Contents'
  <2> SUFFICES ASSUME NEW n \in Nat \ lapped', slots[Slot(n)].sequence = n + 1
               PROVE  /\ slots[Slot(n)].target = n /\ slots[Slot(n)].message = n
                      /\ \A v \in Writers : In(v)' /\ Slot(record'[v]) = Slot(n) =>
                           writing'[v] \in {"count", "clear"}
    BY <1>1 DEF Contents
  <2>1. /\ slots[Slot(n)].target = n /\ slots[Slot(n)].message = n
        /\ \A v \in Writers : In(v) /\ Slot(record[v]) = Slot(n) =>
             writing[v] \in {"count", "clear"}
    BY <1>1 DEF Contents
  <2>2. QED
    BY <1>1, <2>1 DEF In
<1>9. Progress'
  BY <1>1 DEF Progress, TypeOK
<1>10. Copied'
  BY <1>1 DEF Copied, Published, In, TypeOK, drain
<1>11. IntactUnlessLapped'
  BY <1>1 DEF IntactUnlessLapped, told
<1>12. QED
  BY <1>3, <1>4, <1>6, <1>7, <1>8, <1>9, <1>10, <1>11

\* What the steps of a writer inside its record share: only its place, its slot
\* and the dropped count change.
LEMMA WriteStep ==
  ASSUME Inv, NEW w \in Writers, In(w),
         writing' \in [Writers -> Places],
         \A v \in Writers \ {w} : writing'[v] = writing[v],
         UNCHANGED <<nextSequence, drainSequence, record, drain, told, lapped>>,
         dropped' \in Nat, slots' \in [0 .. Capacity - 1 -> Record]
  PROVE  TypeOK' /\ Accounted' /\ Claims' /\ IntactUnlessLapped'
<1> USE DEF Inv
<1>1. TypeOK'
  BY DEF TypeOK, drain, told
<1>2. Accounted' /\ IntactUnlessLapped'
  BY DEF Accounted, IntactUnlessLapped, drain, told
<1>3. \A v \in Writers : In(v)' => In(v)
  BY DEF In
<1>4. Claims'
  BY <1>3 DEF Claims
<1>5. QED
  BY <1>1, <1>2, <1>4

LEMMA CountStep ==
  ASSUME Inv, NEW w \in Writers, Count(w)
  PROVE  Inv'
<1> USE DEF Inv
<1>1. In(w) /\ In(w)' /\ writing' = [writing EXCEPT ![w] = "clear"] /\ dropped' \in Nat
  BY DEF Count, Step, In, TypeOK
<1>2. TypeOK' /\ Accounted' /\ Claims' /\ IntactUnlessLapped'
  BY <1>1, WriteStep DEF Count, TypeOK, Places
<1>3. \A v \in Writers : In(v)' = In(v)
  BY <1>1 DEF In, TypeOK
<1>4. Publications'
  BY <1>3 DEF Count, Publications
<1>5. Contents'
  BY <1>1, <1>3 DEF Count, Contents, TypeOK
<1>6. Progress'
  BY <1>1 DEF Count, Progress, TypeOK
<1>7. Copied'
  BY <1>3 DEF Count, Copied, Published, drain
<1>8. QED
  BY <1>2, <1>4, <1>5, <1>6, <1>7

LEMMA ClearStep ==
  ASSUME Inv, NEW w \in Writers, Clear(w)
  PROVE  Inv'
<1> USE DEF Inv
<1> DEFINE i == Slot(record[w])
<1>1. /\ i \in 0 .. Capacity - 1 /\ record[w] \in Nat
      /\ In(w) /\ In(w)' /\ writing' = [writing EXCEPT ![w] = "target"]
      /\ slots' = [slots EXCEPT ![i].sequence = 0]
      /\ UNCHANGED <<nextSequence, drainSequence, dropped, record, drain, told, lapped>>
  BY SlotIn DEF Clear, Step, In, TypeOK
<1> HIDE DEF i
<1>2. slots' \in [0 .. Capacity - 1 -> Record]
  <2>1. slots \in [0 .. Capacity - 1 -> Record] /\ 0 \in Nat
    BY <1>1 DEF TypeOK
  <2>2. QED
    BY <1>1, <2>1, PutType
<1>3. TypeOK' /\ Accounted' /\ Claims' /\ IntactUnlessLapped'
  BY <1>1, <1>2, WriteStep DEF TypeOK, Places
<1>4. \A v \in Writers : In(v)' = In(v)
  BY <1>1 DEF In, TypeOK
<1>5. \A n \in Nat : slots'[Slot(n)].sequence = n + 1 => slots'[Slot(n)] = slots[Slot(n)]
  BY <1>1, SlotIn DEF TypeOK
<1>6. Publications'
  BY <1>1, <1>4, <1>5 DEF Publications
<1>7. Contents'
  <2> SUFFICES ASSUME NEW n \in Nat \ lapped, slots'[Slot(n)].sequence = n + 1
               PROVE  /\ slots'[Slot(n)].target = n /\ slots'[Slot(n)].message = n
                      /\ \A v \in Writers : In(v)' /\ Slot(record[v]) = Slot(n) =>
                           writing'[v] \in {"count", "clear"}
    BY <1>1 DEF Contents
  <2>1. Slot(n) # i
    BY <1>1, SlotIn DEF TypeOK
  <2>2. QED
    BY <1>1, <1>4, <1>5, <2>1 DEF Contents, i, TypeOK
<1>8. Progress'
  BY <1>1, SlotIn DEF Progress, TypeOK
<1>9. Copied'
  BY <1>1, <1>4, <1>5 DEF Copied, Published, TypeOK, drain
<1>10. QED
  BY <1>3, <1>6, <1>7, <1>8, <1>9

LEMMA TargetStep ==
  ASSUME Inv, NEW w \in Writers, WriteTarget(w)
  PROVE  Inv'
<1> USE DEF Inv
<1> DEFINE i == Slot(record[w])
<1>1. /\ i \in 0 .. Capacity - 1 /\ record[w] \in Nat
      /\ In(w) /\ In(w)' /\ writing[w] = "target"
      /\ writing' = [writing EXCEPT ![w] = "message"]
      /\ slots' = [slots EXCEPT ![i].target = record[w]]
      /\ UNCHANGED <<nextSequence, drainSequence, dropped, record, drain, told, lapped>>
  BY SlotIn DEF WriteTarget, Step, In, TypeOK
<1> HIDE DEF i
<1>2. slots' \in [0 .. Capacity - 1 -> Record]
  <2>1. slots \in [0 .. Capacity - 1 -> Record] /\ record[w] \in Nat
    BY <1>1 DEF TypeOK
  <2>2. QED
    BY <1>1, <2>1, PutType
<1>3. TypeOK' /\ Accounted' /\ Claims' /\ IntactUnlessLapped'
  BY <1>1, <1>2, WriteStep DEF TypeOK, Places
<1>4. \A v \in Writers : In(v)' = In(v)
  BY <1>1 DEF In, TypeOK
<1>5. \A n \in Nat : slots'[Slot(n)].sequence = slots[Slot(n)].sequence
  BY <1>1, SlotIn DEF TypeOK
<1>6. Publications'
  BY <1>1, <1>4, <1>5 DEF Publications
<1>7. Contents'
  <2> SUFFICES ASSUME NEW n \in Nat \ lapped, slots[Slot(n)].sequence = n + 1
               PROVE  /\ slots'[Slot(n)].target = n /\ slots'[Slot(n)].message = n
                      /\ \A v \in Writers : In(v) /\ Slot(record[v]) = Slot(n) =>
                           writing'[v] \in {"count", "clear"}
    BY <1>1, <1>4, <1>5 DEF Contents
  <2>1. /\ slots[Slot(n)].target = n /\ slots[Slot(n)].message = n
        /\ \A v \in Writers : In(v) /\ Slot(record[v]) = Slot(n) =>
             writing[v] \in {"count", "clear"}
    BY DEF Contents
  <2>2. Slot(n) # i
    BY <1>1, <2>1 DEF i
  <2>3. QED
    BY <1>1, <2>1, <2>2, SlotIn DEF TypeOK, i
<1>8. Progress'
  <2> SUFFICES ASSUME NEW v \in Writers, record[v] \notin lapped
               PROVE  /\ writing'[v] \in {"message", "publish"} =>
                           slots'[Slot(record[v])].target = record[v]
                      /\ writing'[v] = "publish" =>
                           slots'[Slot(record[v])].message = record[v]
    BY <1>1 DEF Progress
  <2>1. CASE v = w
    BY <1>1, <2>1 DEF Progress, TypeOK, i
  <2>2. CASE v # w
    <3>1. ~ In(v) \/ Slot(record[v]) # i
      BY <1>1, <2>2 DEF Claims, i
    <3>2. slots'[Slot(record[v])] = slots[Slot(record[v])] \/ ~ In(v)
      BY <1>1, <3>1, SlotIn DEF TypeOK
    <3>3. QED
      BY <1>1, <2>2, <3>2 DEF Progress, In, TypeOK
  <2>3. QED
    BY <2>1, <2>2
<1>9. Copied'
  BY <1>1, <1>4, <1>5 DEF Copied, Published, TypeOK, drain
<1>10. QED
  BY <1>3, <1>6, <1>7, <1>8, <1>9

LEMMA MessageStep ==
  ASSUME Inv, NEW w \in Writers, WriteMessage(w)
  PROVE  Inv'
<1> USE DEF Inv
<1> DEFINE i == Slot(record[w])
<1>1. /\ i \in 0 .. Capacity - 1 /\ record[w] \in Nat
      /\ In(w) /\ In(w)' /\ writing[w] = "message"
      /\ writing' = [writing EXCEPT ![w] = "publish"]
      /\ slots' = [slots EXCEPT ![i].message = record[w]]
      /\ UNCHANGED <<nextSequence, drainSequence, dropped, record, drain, told, lapped>>
  BY SlotIn DEF WriteMessage, Step, In, TypeOK
<1> HIDE DEF i
<1>2. slots' \in [0 .. Capacity - 1 -> Record]
  <2>1. slots \in [0 .. Capacity - 1 -> Record] /\ record[w] \in Nat
    BY <1>1 DEF TypeOK
  <2>2. QED
    BY <1>1, <2>1, PutType
<1>3. TypeOK' /\ Accounted' /\ Claims' /\ IntactUnlessLapped'
  BY <1>1, <1>2, WriteStep DEF TypeOK, Places
<1>4. \A v \in Writers : In(v)' = In(v)
  BY <1>1 DEF In, TypeOK
<1>5. \A n \in Nat : slots'[Slot(n)].sequence = slots[Slot(n)].sequence
  BY <1>1, SlotIn DEF TypeOK
<1>6. Publications'
  BY <1>1, <1>4, <1>5 DEF Publications
<1>7. Contents'
  <2> SUFFICES ASSUME NEW n \in Nat \ lapped, slots[Slot(n)].sequence = n + 1
               PROVE  /\ slots'[Slot(n)].target = n /\ slots'[Slot(n)].message = n
                      /\ \A v \in Writers : In(v) /\ Slot(record[v]) = Slot(n) =>
                           writing'[v] \in {"count", "clear"}
    BY <1>1, <1>4, <1>5 DEF Contents
  <2>1. /\ slots[Slot(n)].target = n /\ slots[Slot(n)].message = n
        /\ \A v \in Writers : In(v) /\ Slot(record[v]) = Slot(n) =>
             writing[v] \in {"count", "clear"}
    BY DEF Contents
  <2>2. Slot(n) # i
    BY <1>1, <2>1 DEF i
  <2>3. QED
    BY <1>1, <2>1, <2>2, SlotIn DEF TypeOK, i
<1>8. Progress'
  <2> SUFFICES ASSUME NEW v \in Writers, record[v] \notin lapped
               PROVE  /\ writing'[v] \in {"message", "publish"} =>
                           slots'[Slot(record[v])].target = record[v]
                      /\ writing'[v] = "publish" =>
                           slots'[Slot(record[v])].message = record[v]
    BY <1>1 DEF Progress
  <2>1. CASE v = w
    BY <1>1, <2>1 DEF Progress, TypeOK, i
  <2>2. CASE v # w
    <3>1. ~ In(v) \/ Slot(record[v]) # i
      BY <1>1, <2>2 DEF Claims, i
    <3>2. slots'[Slot(record[v])] = slots[Slot(record[v])] \/ ~ In(v)
      BY <1>1, <3>1, SlotIn DEF TypeOK
    <3>3. QED
      BY <1>1, <2>2, <3>2 DEF Progress, In, TypeOK
  <2>3. QED
    BY <2>1, <2>2
<1>9. Copied'
  BY <1>1, <1>4, <1>5 DEF Copied, Published, TypeOK, drain
<1>10. QED
  BY <1>3, <1>6, <1>7, <1>8, <1>9

LEMMA PublishStep ==
  ASSUME Inv, NEW w \in Writers, Publish(w)
  PROVE  Inv'
<1> USE DEF Inv
<1> DEFINE i == Slot(record[w])
<1>1. /\ i \in 0 .. Capacity - 1 /\ record[w] \in Nat
      /\ In(w) /\ ~ In(w)' /\ writing[w] = "publish"
      /\ writing' = [writing EXCEPT ![w] = "idle"]
      /\ slots' = [slots EXCEPT ![i].sequence = record[w] + 1]
      /\ UNCHANGED <<nextSequence, drainSequence, dropped, record, drain, told, lapped>>
  BY SlotIn DEF Publish, Step, In, TypeOK
<1> HIDE DEF i
<1>2. slots' \in [0 .. Capacity - 1 -> Record]
  <2>1. slots \in [0 .. Capacity - 1 -> Record] /\ record[w] + 1 \in Nat
    BY <1>1 DEF TypeOK
  <2>2. QED
    BY <1>1, <2>1, PutType
<1>3. TypeOK' /\ Accounted' /\ Claims' /\ IntactUnlessLapped'
  BY <1>1, <1>2, WriteStep DEF TypeOK, Places
<1>4. \A v \in Writers : In(v)' <=> In(v) /\ v # w
  BY <1>1 DEF In, TypeOK
<1>5. \A n \in Nat : \/ Slot(n) # i /\ slots'[Slot(n)] = slots[Slot(n)]
                     \/ /\ Slot(n) = i /\ slots'[Slot(n)].sequence = record[w] + 1
                        /\ slots'[Slot(n)].target = slots[Slot(n)].target
                        /\ slots'[Slot(n)].message = slots[Slot(n)].message
  BY <1>1, SlotIn DEF TypeOK, Record
<1>6. \A n \in Nat : Slot(n) = i /\ slots'[Slot(n)].sequence = n + 1 => n = record[w]
  BY <1>1, <1>5
<1>7. Publications'
  <2> SUFFICES ASSUME NEW n \in Nat, slots'[Slot(n)].sequence = n + 1
               PROVE  n < nextSequence /\ \A v \in Writers : In(v)' => record[v] # n
    BY <1>1 DEF Publications
  <2>1. CASE Slot(n) = i
    BY <1>1, <1>4, <1>6, <2>1 DEF Claims
  <2>2. CASE Slot(n) # i
    BY <1>4, <1>5, <2>2 DEF Publications
  <2>3. QED
    BY <2>1, <2>2
<1>8. Contents'
  <2> SUFFICES ASSUME NEW n \in Nat \ lapped, slots'[Slot(n)].sequence = n + 1
               PROVE  /\ slots'[Slot(n)].target = n /\ slots'[Slot(n)].message = n
                      /\ \A v \in Writers : In(v)' /\ Slot(record[v]) = Slot(n) =>
                           writing'[v] \in {"count", "clear"}
    BY <1>1 DEF Contents
  <2>1. CASE Slot(n) = i
    <3>1. n = record[w]
      BY <1>6, <2>1
    <3>2. \A v \in Writers : In(v) /\ v # w => Slot(record[v]) # i
      BY <1>1, <3>1 DEF Claims, i
    <3>3. QED
      BY <1>1, <1>4, <1>5, <2>1, <3>1, <3>2 DEF Progress, i
  <2>2. CASE Slot(n) # i
    BY <1>1, <1>4, <1>5, <2>2 DEF Contents, TypeOK
  <2>3. QED
    BY <2>1, <2>2
<1>9. Progress'
  BY <1>1, <1>5 DEF Progress, TypeOK
<1>10. Copied'
  <2>1. Published' => Published \/ draining \notin {"target", "message", "recheck"}
    BY <1>1, <1>5, <1>6 DEF Published, Copied, TypeOK, drain
  <2>2. QED
    BY <1>1, <1>4, <2>1 DEF Copied, drain
<1>11. QED
  BY <1>3, <1>7, <1>8, <1>9, <1>10

-----------------------------------------------------------------------------
(***************************************************************************)
(* The worker.                                                             *)
(***************************************************************************)

LEMMA DrainStep ==
  ASSUME Inv, Drain
  PROVE  Inv'
<1> USE DEF Inv
<1>1. UNCHANGED <<nextSequence, slots, writer, lapped>>
  BY DEF Drain, Wake, Check, ReadTarget, ReadMessage, Recheck, Store, ring
<1>2. Claims' /\ Publications' /\ Contents' /\ Progress'
  BY <1>1 DEF Claims, Publications, Contents, Progress, In, writer
<1>3. CASE Wake
  <2> DEFINE next == Max({drainSequence, nextSequence - Capacity})
  <2>1. /\ draining = "sleep" /\ draining' = "check" /\ total' = nextSequence
        /\ cursor' = next /\ skipped' = skipped + (next - drainSequence) /\ dropped' = 0
        /\ UNCHANGED <<nextSequence, drainSequence, slots, writing, record, copy,
                       logged, lapped>>
    BY <1>3 DEF Wake, writer
  <2>2. /\ skipped \in Nat /\ drainSequence \in Nat /\ nextSequence - Capacity \in Int
        /\ Len(logged) \in Nat
    BY RtLogAssumption DEF TypeOK
  <2>3. next \in Int /\ next >= drainSequence
    <3> DEFINE other == nextSequence - Capacity
    <3>1. drainSequence \in Int /\ other \in Int
      BY <2>2
    <3> HIDE DEF other
    <3>2. /\ Max({drainSequence, other}) \in {drainSequence, other}
          /\ Max({drainSequence, other}) >= drainSequence
      BY <3>1, MaxOfTwo
    <3>3. next \in {drainSequence, other} /\ next >= drainSequence
      BY <3>2 DEF other
    <3>4. QED
      BY <3>1, <3>3
  <2> HIDE DEF next
  <2>4. next \in Nat /\ skipped + (next - drainSequence) \in Nat
    <3>1. \A s, d \in Nat, n \in Int : n >= d => n \in Nat /\ s + (n - d) \in Nat
      OBVIOUS
    <3>2. QED
      BY <2>2, <2>3, <3>1
  <2>5. TypeOK'
    BY <2>1, <2>4 DEF TypeOK
  <2>6. Accounted'
    BY <2>1, <2>2, <2>3 DEF Accounted
  <2>7. Copied' /\ IntactUnlessLapped'
    BY <1>1, <1>3 DEF Wake, Copied, IntactUnlessLapped
  <2>8. QED
    BY <1>2, <2>5, <2>6, <2>7
<1>4. CASE Check
  <2>1. TypeOK' /\ Accounted' /\ IntactUnlessLapped'
    BY <1>4 DEF Check, TypeOK, Accounted, IntactUnlessLapped, ring, writer, told
  <2>2. Copied'
    BY <1>4 DEF Check, Copied, Published, Publications, In, TypeOK, ring, writer, told
  <2>3. QED
    BY <1>2, <2>1, <2>2
<1>5. CASE ReadTarget
  <2>1. slots[Slot(cursor)] \in Record
    BY SlotIn DEF TypeOK
  <2>2. TypeOK' /\ Accounted' /\ IntactUnlessLapped'
    BY <1>5, <2>1 DEF ReadTarget, TypeOK, Fields, Record, Accounted, IntactUnlessLapped,
       ring, writer, told
  <2>3. Copied'
    BY <1>5 DEF ReadTarget, Copied, Published, Contents, In, TypeOK, Fields, ring, writer, told
  <2>4. QED
    BY <1>2, <2>2, <2>3
<1>6. CASE ReadMessage
  <2>1. slots[Slot(cursor)] \in Record
    BY SlotIn DEF TypeOK
  <2>2. TypeOK' /\ Accounted' /\ IntactUnlessLapped'
    BY <1>6, <2>1 DEF ReadMessage, TypeOK, Fields, Record, Accounted, IntactUnlessLapped,
       ring, writer, told
  <2>3. Copied'
    BY <1>6 DEF ReadMessage, Copied, Published, Contents, In, TypeOK, Fields, ring, writer, told
  <2>4. QED
    BY <1>2, <2>2, <2>3
<1>7. CASE Recheck /\ Published
  <2> DEFINE r == [sequence |-> cursor, target |-> copy.target, message |-> copy.message]
  <2>1. r \in Record /\ logged' = Append(logged, r) /\ cursor' = cursor + 1
    BY <1>7 DEF Recheck, Tell, TypeOK, Fields, Record
  <2>2. /\ logged' \in Seq(Record) /\ Len(logged') = Len(logged) + 1
        /\ \A i \in 1 .. Len(logged') :
             logged'[i] = IF i <= Len(logged) THEN logged[i] ELSE r
    BY <2>1 DEF TypeOK
  <2>3. TypeOK' /\ Accounted'
    BY <1>7, <2>1, <2>2 DEF Recheck, TypeOK, Accounted, ring, writer
  <2>4. cursor \notin lapped => r.target = cursor /\ r.message = cursor
    BY <1>7 DEF Recheck, Copied
  <2>5. IntactUnlessLapped'
    BY <1>1, <2>2, <2>4 DEF IntactUnlessLapped, TypeOK
  <2>6. Copied'
    BY <1>7 DEF Recheck, Copied
  <2>7. QED
    BY <1>2, <2>3, <2>5, <2>6
<1>8. CASE Recheck /\ ~ Published
  BY <1>2, <1>8 DEF Recheck, TypeOK, Accounted, IntactUnlessLapped, Copied, ring, writer
<1>9. CASE Store
  BY <1>2, <1>9 DEF Store, TypeOK, Accounted, IntactUnlessLapped, Copied, writer, told
<1>10. QED
  BY <1>3, <1>4, <1>5, <1>6, <1>7, <1>8, <1>9 DEF Drain

-----------------------------------------------------------------------------
LEMMA Invariance == Spec => []Inv
<1>1. Inv /\ [Next]_vars => Inv'
  <2> SUFFICES ASSUME Inv, [Next]_vars PROVE Inv'
    OBVIOUS
  <2>1. CASE UNCHANGED vars
    BY <2>1 DEF vars, ring, writer, drain, told, Inv, TypeOK, Accounted, Claims,
       Publications, Contents, Progress, Copied, Published, IntactUnlessLapped, In
  <2>2. QED
    BY <2>1, ClaimStep, CountStep, ClearStep, TargetStep, MessageStep, PublishStep,
       DrainStep DEF Next, Write
<1>2. QED
  BY <1>1, InvInit, PTL DEF Spec

(***************************************************************************)
(* What the worker has gone past it has logged or announced as skipped,    *)
(* whoever overtakes it (drain_to_log, rt.rs:108-160).                     *)
(***************************************************************************)
THEOREM LossIsAnnounced == Spec => []NothingLostSilently
<1>1. Inv => NothingLostSilently
  BY DEF Inv, Accounted, NothingLostSilently
<1>2. QED
  BY <1>1, Invariance, PTL

(***************************************************************************)
(* A logged record is as one writer wrote it, unless two were in its slot. *)
(***************************************************************************)
THEOREM RecordsIntact == Spec => []IntactUnlessLapped
<1>1. Inv => IntactUnlessLapped
  BY DEF Inv
<1>2. QED
  BY <1>1, Invariance, PTL

-----------------------------------------------------------------------------
(***************************************************************************)
(* What RecordsArrive needs besides fairness: the worker never waits       *)
(* behind a record nobody is writing.                                      *)
(***************************************************************************)

\* A writer that is overtaken in its slot laps the record that overtakes it.
Overtaken ==
  \A w \in Writers : In(w) => \A n \in Nat :
    record[w] < n /\ n < nextSequence /\ Slot(n) = Slot(record[w]) => n \in lapped

\* A record the ring has not come round to can be read or is being written,
\* unless it was lapped.
RecordsStand ==
  \A n \in Nat \ lapped : n < nextSequence /\ n >= nextSequence - Capacity =>
    \/ slots[Slot(n)].sequence = n + 1
    \/ \E w \in Writers : In(w) /\ record[w] = n

\* Where the worker stands, if nothing was lapped and the ring has not come
\* round: the record is readable now, or the writer that holds it up will
\* publish it (rt.rs, drain_to_log: it stops "so a record published
\* immediately after this drain is not skipped forever").
WorkerNotStuck ==
  (/\ draining \in {"check", "store"} /\ cursor < nextSequence
   /\ cursor >= nextSequence - Capacity /\ cursor \notin lapped) =>
    \/ Published
    \/ \E w \in Writers : In(w) /\ record[w] = cursor

\* Two records less than a ring apart have different slots.
LEMMA SlotsDiffer ==
  ASSUME NEW n \in Nat, NEW r \in Nat, n < r, r < n + Capacity
  PROVE  Slot(n) # Slot(r)
<1>1. \A a \in Nat : a \div Capacity \in Int /\ a % Capacity = a - Capacity * (a \div Capacity)
  BY RtLogAssumption
<1>2. SUFFICES ASSUME n % Capacity = r % Capacity PROVE FALSE
  BY DEF Slot
<1> DEFINE d == (r \div Capacity) - (n \div Capacity)
<1>3. d \in Int /\ Capacity * d = r - n
  <2>1. PICK a \in Int, b \in Int : /\ a = n \div Capacity /\ b = r \div Capacity
                                    /\ n % Capacity = n - Capacity * a
                                    /\ r % Capacity = r - Capacity * b
    BY <1>1
  <2>2. Capacity * (b - a) = r - n
    BY <1>2, <2>1, RtLogAssumption
  <2>3. QED
    BY <2>1, <2>2
<1> HIDE DEF d
<1>4. CASE d <= 0
  <2>1. Capacity * d <= 0
    BY <1>3, <1>4, RtLogAssumption
  <2>2. QED
    BY <1>3, <2>1
<1>5. CASE d >= 1
  <2>1. Capacity * d >= Capacity
    BY <1>3, <1>5, RtLogAssumption
  <2>2. QED
    BY <1>3, <2>1, RtLogAssumption
<1>6. QED
  BY <1>3, <1>4, <1>5

\* A writer in the slot of a record that is neither lapped nor overrun is its
\* own.
LEMMA OwnWriter ==
  ASSUME Inv, Overtaken, NEW w \in Writers, In(w), NEW n \in Nat \ lapped,
         n < nextSequence, n >= nextSequence - Capacity, Slot(n) = Slot(record[w])
  PROVE  record[w] = n
<1>1. record[w] \in Nat /\ record[w] < nextSequence /\ nextSequence \in Nat
  BY DEF Inv, TypeOK, Claims
<1>2. ~ (record[w] < n)
  BY DEF Overtaken
<1>3. ~ (n < record[w])
  BY <1>1, SlotsDiffer, RtLogAssumption
<1>4. QED
  BY <1>1, <1>2, <1>3

LEMMA OvertakenStep == Inv /\ Overtaken /\ [Next]_vars => Overtaken'
<1> SUFFICES ASSUME Inv, Overtaken, [Next]_vars PROVE Overtaken'
  OBVIOUS
<1>1. /\ writing \in [Writers -> Places] /\ record \in [Writers -> Nat]
      /\ nextSequence \in Nat
  BY DEF Inv, TypeOK
<1>2. ASSUME NEW w \in Writers, Claim(w) PROVE Overtaken'
  <2>1. /\ \A v \in Writers \ {w} : writing'[v] = writing[v] /\ record'[v] = record[v]
        /\ record'[w] = nextSequence /\ nextSequence' = nextSequence + 1
        /\ lapped' = lapped \cup Crowd(nextSequence)
    BY <1>1, <1>2 DEF Claim, Step
  <2>2. SUFFICES ASSUME NEW v \in Writers, In(v)', NEW n \in Nat, record'[v] < n,
                        n < nextSequence + 1, Slot(n) = Slot(record'[v])
                 PROVE  n \in lapped'
    BY <2>1 DEF Overtaken
  <2>3. v # w
    BY <1>1, <2>1, <2>2
  <2>4. In(v) /\ record'[v] = record[v]
    BY <2>1, <2>2, <2>3 DEF In
  <2>5. CASE n < nextSequence
    BY <2>1, <2>2, <2>4, <2>5 DEF Overtaken
  <2>6. CASE n = nextSequence
    <3>1. n \in Crowd(n)
      BY <2>2, <2>4 DEF Crowd, In
    <3>2. QED
      BY <2>1, <2>6, <3>1
  <2>7. QED
    BY <1>1, <2>2, <2>5, <2>6
<1>3. ASSUME NEW w \in Writers, Write(w) PROVE Overtaken'
  <2>1. UNCHANGED <<record, nextSequence, lapped>> /\ \A v \in Writers : In(v)' => In(v)
    BY <1>1, <1>3 DEF Write, Count, Clear, WriteTarget, WriteMessage, Publish, Step, In
  <2>2. QED
    BY <2>1 DEF Overtaken
<1>4. CASE Drain \/ UNCHANGED vars
  BY <1>4 DEF Drain, Wake, Check, ReadTarget, ReadMessage, Recheck, Store, vars, ring, writer,
     Overtaken, In
<1>5. QED
  BY <1>2, <1>3, <1>4 DEF Next

\* RecordsStand' at one record, whose slot nobody but its writer touches.
LEMMA StandStep == Inv /\ Overtaken /\ RecordsStand /\ [Next]_vars => RecordsStand'
<1> SUFFICES ASSUME Inv, Overtaken, RecordsStand, [Next]_vars,
                    NEW n \in Nat, n \notin lapped',
                    n < nextSequence', n >= nextSequence' - Capacity
             PROVE  \/ slots'[Slot(n)].sequence = n + 1
                    \/ \E v \in Writers : In(v)' /\ record'[v] = n
  BY DEF RecordsStand
<1>1. /\ writing \in [Writers -> Places] /\ record \in [Writers -> Nat]
      /\ nextSequence \in Nat /\ slots \in [0 .. Capacity - 1 -> Record]
      /\ Slot(n) \in 0 .. Capacity - 1
  BY SlotIn DEF Inv, TypeOK
<1>2. ASSUME NEW w \in Writers, Claim(w)
      PROVE  \/ slots'[Slot(n)].sequence = n + 1
             \/ \E v \in Writers : In(v)' /\ record'[v] = n
  <2>1. /\ \A v \in Writers \ {w} : writing'[v] = writing[v] /\ record'[v] = record[v]
        /\ writing[w] = "idle" /\ In(w)' /\ record'[w] = nextSequence
        /\ nextSequence' = nextSequence + 1 /\ lapped \subseteq lapped' /\ slots' = slots
    BY <1>1, <1>2 DEF Claim, Step, In
  <2>2. CASE n = nextSequence
    BY <2>1, <2>2
  <2>3. CASE n # nextSequence
    <3>1. n < nextSequence /\ n >= nextSequence - Capacity
      BY <1>1, <2>1, <2>3, RtLogAssumption
    <3>2. slots[Slot(n)].sequence = n + 1 \/ \E v \in Writers : In(v) /\ record[v] = n
      BY <2>1, <3>1 DEF RecordsStand
    <3>3. QED
      BY <2>1, <3>2 DEF In
  <2>4. QED
    BY <2>2, <2>3
<1>3. ASSUME NEW w \in Writers, Write(w)
      PROVE  \/ slots'[Slot(n)].sequence = n + 1
             \/ \E v \in Writers : In(v)' /\ record'[v] = n
  <2>1. /\ UNCHANGED <<record, nextSequence, lapped>> /\ In(w)
        /\ \A v \in Writers \ {w} : In(v)' <=> In(v)
    BY <1>1, <1>3 DEF Write, Count, Clear, WriteTarget, WriteMessage, Publish, Step, In
  <2>2. slots[Slot(n)].sequence = n + 1 \/ \E v \in Writers : In(v) /\ record[v] = n
    BY <2>1 DEF RecordsStand
  <2>3. Slot(record[w]) = Slot(n) => record[w] = n
    BY <2>1, OwnWriter
  <2>4. CASE Publish(w)
    <3>1. slots' = [slots EXCEPT ![Slot(record[w])].sequence = record[w] + 1]
      BY <2>4 DEF Publish
    <3>2. CASE record[w] = n
      <4>1. slots[Slot(n)] \in Record
        BY <1>1
      <4>2. slots'[Slot(n)].sequence = n + 1
        BY <1>1, <3>1, <3>2, <4>1 DEF Record
      <4>3. QED
        BY <4>2
    <3>3. CASE record[w] # n
      <4>1. slots'[Slot(n)] = slots[Slot(n)]
        BY <1>1, <2>3, <3>1, <3>3
      <4>2. QED
        BY <2>1, <2>2, <3>3, <4>1
    <3>4. QED
      BY <3>2, <3>3
  <2>5. CASE ~ Publish(w)
    <3>1. In(w)'
      BY <1>1, <1>3, <2>5 DEF Write, Count, Clear, WriteTarget, WriteMessage, Step, In
    <3>2. CASE record[w] = n
      BY <2>1, <3>1, <3>2
    <3>3. CASE record[w] # n
      <4>1. slots'[Slot(n)] = slots[Slot(n)]
        BY <1>1, <1>3, <2>3, <2>5, <3>3 DEF Write, Count, Clear, WriteTarget, WriteMessage
      <4>2. QED
        BY <2>1, <2>2, <3>1, <4>1
    <3>4. QED
      BY <3>2, <3>3
  <2>6. QED
    BY <2>4, <2>5
<1>4. CASE Drain \/ UNCHANGED vars
  <2>1. UNCHANGED <<nextSequence, slots, writing, record, lapped>>
    BY <1>4 DEF Drain, Wake, Check, ReadTarget, ReadMessage, Recheck, Store, vars, ring, writer
  <2>2. QED
    BY <2>1 DEF RecordsStand, In
<1>5. QED
  BY <1>2, <1>3, <1>4 DEF Next

(***************************************************************************)
(* No record is orphaned: until the ring comes round to its slot, a record *)
(* can be read or has its writer, and so the worker that stops at one      *)
(* waits for a writer that runs (the safety half of RecordsArrive).        *)
(***************************************************************************)
THEOREM NoRecordOrphaned == Spec => [](RecordsStand /\ WorkerNotStuck)
<1>1. Init => Overtaken /\ RecordsStand
  BY DEF Init, Overtaken, RecordsStand, In
<1>2. Inv /\ Overtaken /\ RecordsStand /\ [Next]_vars => (Overtaken /\ RecordsStand)'
  BY OvertakenStep, StandStep
<1>3. Inv /\ RecordsStand => WorkerNotStuck
  BY DEF Inv, TypeOK, RecordsStand, WorkerNotStuck, Published
<1>4. QED
  BY <1>1, <1>2, <1>3, Invariance, PTL DEF Spec
=============================================================================
