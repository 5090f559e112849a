---------------------------- MODULE ReconcileProofs ----------------------------
(***************************************************************************)
(* Theorems about Reconcile for every number of corners, every window and  *)
(* every sequence of changes: what a set was made from, in which order     *)
(* the sets arrive, and how many of them in a block.                       *)
(***************************************************************************)
EXTENDS Reconcile, SequenceTheorems, FiniteSetTheorems, TLAPS

Requests == [banks : [Corners -> Banks], size : Sizes, gen : Nat, asked : Nat]

TypeOK ==
  /\ banks \in [Corners -> Banks] /\ size \in Sizes /\ disk \in Nat
  /\ snapSize \in Sizes
  /\ alive \in BOOLEAN /\ dirtyLoad \in BOOLEAN
  /\ synced \in [banks : [Corners -> Banks], size : Sizes]
  /\ loadGen \in Nat /\ noticed \in Nat
  /\ sent \in Seq(Requests) /\ sent # <<>>
  /\ toWorker \in Seq(Nat) /\ \A i \in DOMAIN toWorker : toWorker[i] \in 1 .. Len(sent)
  /\ fromWorker \in Seq(Sets)
  /\ work \in {"receive", "load", "render", "gone"}
  /\ job \in 1 .. Len(sent) /\ next \in Corners
  /\ loadedGen \in Nat \cup {None}
  /\ sources \in [Corners -> Sources \cup {None}]
  /\ installed \in [Corners -> Sets \cup {None}]
  /\ landed \in [Corners -> Nat]

-----------------------------------------------------------------------------
(***************************************************************************)
(* The inductive invariant.                                                *)
(***************************************************************************)

\* The audio thread remembers the last Sync; a load that came due since then
\* is remembered too.
Last == sent[Len(sent)]
Remembered ==
  /\ synced.banks = Last.banks /\ loadGen = Last.gen
  /\ dirtyLoad \/ noticed = Last.asked
  /\ noticed <= disk /\ \A i \in DOMAIN sent : sent[i].asked <= disk

\* The generations rise, and one generation asks for one thing.
Generations ==
  \A i, j \in DOMAIN sent : i <= j =>
    /\ sent[i].gen <= sent[j].gen
    /\ sent[i].gen = sent[j].gen =>
         sent[i].banks = sent[j].banks /\ sent[i].asked = sent[j].asked

\* The worker has read for corner c what Sync i asks for.
Answers(c, i) ==
  /\ sources[c] # None
  /\ sources[c].bank = sent[i].banks[c]
  /\ sources[c].disk >= sent[i].asked

\* What was read answers every Sync of the generation read, or under way.
Loaded ==
  /\ loadedGen # None => loadedGen <= loadGen
  /\ work # "load" => \A i \in DOMAIN sent : \A c \in Corners :
                        sent[i].gen = loadedGen => Answers(c, i)
  /\ work = "load" => \A c \in 0 .. next - 1 : Answers(c, job)
  /\ work = "render" => sent[job].gen = loadedGen

\* The worker has yet to make corner c's set of its Sync.
Due(c) == work = "load" \/ (work = "render" /\ c >= next)

\* What waits in the channel is newer than what the worker serves.
Newer == work \in {"load", "render"} => \A i \in DOMAIN toWorker : job < toWorker[i]

\* A set answers its Sync and is older than what the worker has yet to make.
Fits(s) ==
  /\ s.serial \in 1 .. job
  /\ s.bank = sent[s.serial].banks[s.corner]
  /\ s.size = sent[s.serial].size
  /\ s.disk >= sent[s.serial].asked
  /\ Due(s.corner) => s.serial < job
  /\ \A i \in DOMAIN toWorker : s.serial < toWorker[i]

Made ==
  /\ \A c \in Corners : installed[c] # None =>
                          installed[c].corner = c /\ Fits(installed[c])
  /\ \A i \in DOMAIN fromWorker : Fits(fromWorker[i])

\* The sets of a corner are installed and in flight in the order of their Syncs.
InOrder ==
  \A i \in DOMAIN fromWorker :
    /\ LET c == fromWorker[i].corner
       IN  installed[c] # None => installed[c].serial < fromWorker[i].serial
    /\ \A j \in DOMAIN fromWorker :
         i < j /\ fromWorker[i].corner = fromWorker[j].corner =>
           fromWorker[i].serial < fromWorker[j].serial

\* What may still be handed to a corner before the next drain: sets in
\* flight, the worker's next one, one for all that waits in the channel, one
\* for the Sync the block may still send.
Serials(c) == {s.serial : s \in {s \in InFlight : s.corner = c}}
Coming(c) == IF Due(c) THEN 1 ELSE 0
Waiting == IF toWorker = <<>> THEN 0 ELSE 1
Unsent == IF step \in {"idle", "sync"} THEN 1 ELSE 0

Bounded ==
  \A c \in Corners :
    /\ IsFiniteSet(Serials(c))
    /\ landed[c] + Cardinality(Serials(c)) + Coming(c) + Waiting + Unsent <= 3

Inv ==
  /\ TypeOK /\ Remembered /\ Generations /\ Loaded
  /\ Newer /\ Made /\ InOrder /\ Bounded

-----------------------------------------------------------------------------
(***************************************************************************)
(* Sequences of the channels.                                              *)
(***************************************************************************)

LEMMA Appended ==
  ASSUME NEW S, NEW q \in Seq(S), NEW e \in S
  PROVE  /\ Len(q) \in Nat /\ DOMAIN q = 1 .. Len(q)
         /\ Append(q, e) \in Seq(S) /\ Append(q, e) # <<>>
         /\ Len(Append(q, e)) = Len(q) + 1
         /\ DOMAIN Append(q, e) = 1 .. Len(q) + 1
         /\ \A i \in DOMAIN q : Append(q, e)[i] = q[i]
         /\ Append(q, e)[Len(q) + 1] = e
<1>1. Len(q) \in Nat /\ DOMAIN q = 1 .. Len(q)
  BY LenProperties
<1> DEFINE r == Append(q, e)
<1>2. /\ r \in Seq(S) /\ r # <<>> /\ Len(r) = Len(q) + 1
      /\ \A i \in 1 .. Len(q) : r[i] = q[i]
      /\ r[Len(q) + 1] = e
  BY AppendProperties
<1> HIDE DEF r
<1>3. DOMAIN r = 1 .. Len(q) + 1
  BY <1>2, LenProperties
<1>4. QED
  BY <1>1, <1>2, <1>3 DEF r

LEMMA SentProperties ==
  ASSUME TypeOK
  PROVE  /\ Len(sent) \in Nat \ {0} /\ DOMAIN sent = 1 .. Len(sent)
         /\ Len(sent) \in DOMAIN sent /\ Last \in Requests
         /\ \A i \in DOMAIN sent : sent[i] \in Requests
<1>1. Len(sent) \in Nat \ {0} /\ DOMAIN sent = 1 .. Len(sent)
      /\ sent \in [1 .. Len(sent) -> Requests]
  BY EmptySeq, LenProperties DEF TypeOK
<1>2. Len(sent) \in DOMAIN sent
  BY <1>1
<1>3. QED
  BY <1>1, <1>2 DEF Last

\* What is in flight when a set is sent, and when one is received.
LEMMA SetSent ==
  ASSUME TypeOK, NEW set \in Sets, fromWorker' = Append(fromWorker, set)
  PROVE  /\ fromWorker' \in Seq(Sets)
         /\ DOMAIN fromWorker' = DOMAIN fromWorker \cup {Len(fromWorker) + 1}
         /\ DOMAIN fromWorker = 1 .. Len(fromWorker) /\ Len(fromWorker) \in Nat
         /\ \A i \in DOMAIN fromWorker : fromWorker'[i] = fromWorker[i]
         /\ fromWorker'[Len(fromWorker) + 1] = set
         /\ InFlight' = InFlight \cup {set}
<1> DEFINE n == Len(fromWorker)
           q == Append(fromWorker, set)
<1>1. n \in Nat /\ DOMAIN fromWorker = 1 .. n
  BY LenProperties DEF TypeOK
<1>2. /\ q \in Seq(Sets) /\ Len(q) = n + 1
      /\ \A i \in 1 .. n : q[i] = fromWorker[i]
      /\ q[n + 1] = set
  BY AppendProperties DEF TypeOK
<1>3. DOMAIN q = 1 .. n + 1
  BY <1>2, LenProperties
<1> HIDE DEF n, q
<1>4. DOMAIN q = DOMAIN fromWorker \cup {n + 1}
  BY <1>1, <1>3
<1>5. {q[i] : i \in DOMAIN q} = {fromWorker[i] : i \in DOMAIN fromWorker} \cup {set}
  BY <1>1, <1>2, <1>4
<1>6. fromWorker' = q
  BY DEF q
<1>7. InFlight' = {q[i] : i \in DOMAIN q}
  BY <1>6 DEF InFlight
<1>8. QED
  BY <1>1, <1>2, <1>4, <1>5, <1>6, <1>7 DEF n, InFlight

LEMMA SetReceived ==
  ASSUME TypeOK, fromWorker # <<>>, fromWorker' = Tail(fromWorker)
  PROVE  /\ Head(fromWorker) \in Sets /\ fromWorker' \in Seq(Sets)
         /\ Head(fromWorker) = fromWorker[1] /\ 1 \in DOMAIN fromWorker
         /\ DOMAIN fromWorker' \subseteq Nat
         /\ \A i \in DOMAIN fromWorker' :
              i + 1 \in DOMAIN fromWorker /\ 1 < i + 1
              /\ fromWorker'[i] = fromWorker[i + 1]
         /\ InFlight = InFlight' \cup {Head(fromWorker)}
<1> DEFINE n == Len(fromWorker)
           q == Tail(fromWorker)
<1>1. /\ n \in Nat \ {0} /\ DOMAIN fromWorker = 1 .. n
      /\ Head(fromWorker) \in Sets /\ q \in Seq(Sets) /\ Len(q) = n - 1
      /\ \A i \in 1 .. Len(q) : q[i] = fromWorker[i + 1]
      /\ Head(fromWorker) = fromWorker[1]
  BY EmptySeq, LenProperties, HeadTailProperties DEF TypeOK
<1>2. DOMAIN q = 1 .. n - 1
  BY <1>1, LenProperties
<1> HIDE DEF n, q
<1>3. \A i \in DOMAIN q : i + 1 \in 1 .. n /\ 1 < i + 1 /\ q[i] = fromWorker[i + 1]
  BY <1>1, <1>2
<1>4. 1 \in 1 .. n /\ \A i \in 1 .. n : i = 1 \/ (i - 1 \in DOMAIN q /\ q[i - 1] = fromWorker[i])
  BY <1>1, <1>2
<1>5. {fromWorker[i] : i \in 1 .. n} = {q[i] : i \in DOMAIN q} \cup {fromWorker[1]}
  BY <1>3, <1>4
<1>6. fromWorker' = q
  BY DEF q
<1>7. InFlight' = {q[i] : i \in DOMAIN q}
  BY <1>6 DEF InFlight
<1>8. InFlight = {q[i] : i \in DOMAIN q} \cup {Head(fromWorker)}
  BY <1>1, <1>5 DEF InFlight
<1>9. DOMAIN q \subseteq Nat
  BY <1>1, <1>2
<1>10. /\ q \in Seq(Sets)
       /\ \A i \in DOMAIN q : i + 1 \in DOMAIN fromWorker /\ 1 < i + 1
                             /\ q[i] = fromWorker[i + 1]
  BY <1>1, <1>3
<1>11. Head(fromWorker) \in Sets /\ Head(fromWorker) = fromWorker[1] /\ 1 \in DOMAIN fromWorker
  BY <1>1, <1>4
<1>12. QED
  BY <1>6, <1>7, <1>8, <1>9, <1>10, <1>11

-----------------------------------------------------------------------------
(***************************************************************************)
(* The steps.                                                              *)
(***************************************************************************)

LEMMA InitInv == Init => Inv
<1> SUFFICES ASSUME Init PROVE Inv
  OBVIOUS
<1> DEFINE r == Request(banks, size, 0, 0)
<1>1. r \in Requests
  BY DEF Init, Request, Requests
<1>2. /\ sent = <<r>> /\ Len(sent) = 1 /\ sent[1] = r /\ sent \in Seq(Requests)
      /\ sent # <<>> /\ DOMAIN sent = {1} /\ 1 .. Len(sent) = {1}
  BY <1>1 DEF Init
<1>3. /\ toWorker = <<1>> /\ toWorker \in Seq(Nat) /\ DOMAIN toWorker = {1}
      /\ toWorker[1] = 1 /\ toWorker # <<>>
  BY DEF Init
<1>4. fromWorker = <<>> /\ fromWorker \in Seq(Sets) /\ DOMAIN fromWorker = {}
  BY EmptySeq, LenProperties DEF Init
<1>5. 0 \in Corners
  BY ReconcileAssumption DEF Corners
<1>6. TypeOK
  BY <1>2, <1>3, <1>4, <1>5 DEF Init, TypeOK
<1>7. r.banks = banks /\ r.gen = 0 /\ r.asked = 0 /\ Last = r
  BY <1>2 DEF Request, Last
<1>8. Remembered
  BY <1>2, <1>7 DEF Init, Remembered
<1>9. Generations
  BY <1>2, <1>7 DEF Generations
<1>10. Loaded
  <2>1. loadedGen = None /\ work = "receive"
    BY DEF Init
  <2>2. \A i \in DOMAIN sent : sent[i].gen # None
    BY <1>2, <1>7, NoneAssumption
  <2>3. QED
    BY <2>1, <2>2 DEF Loaded
<1>11. Newer /\ Made /\ InOrder
  BY <1>4 DEF Init, Newer, Made, InOrder
<1>12. Bounded
  <2>1. ASSUME NEW c \in Corners PROVE Serials(c) = {}
    BY <1>4 DEF Serials, InFlight
  <2>2. ASSUME NEW c \in Corners
        PROVE  landed[c] = 0 /\ Coming(c) = 0 /\ Waiting = 1 /\ Unsent = 1
    BY <1>3 DEF Init, Coming, Due, Waiting, Unsent
  <2>3. QED
    BY <2>1, <2>2, FS_EmptySet DEF Bounded
<1>13. QED
  BY <1>6, <1>8, <1>9, <1>10, <1>11, <1>12 DEF Inv

\* Steps that leave the Syncs, the channels and the worker alone.
LEMMA Elsewhere ==
  ASSUME Inv, UNCHANGED <<sent, toWorker, fromWorker, worker, installed, loadGen>>
  PROVE  (Generations /\ Loaded /\ Newer /\ Made /\ InOrder)'
<1>1. Generations'
  BY DEF Inv, Generations
<1>2. Loaded'
  BY DEF Inv, Loaded, Answers, worker
<1>3. Newer'
  BY DEF Inv, Newer, worker
<1>4. Made'
  BY DEF Inv, Made, Fits, Due, worker
<1>5. InOrder'
  BY DEF Inv, InOrder
<1>6. QED
  BY <1>1, <1>2, <1>3, <1>4, <1>5

LEMMA EnvironmentStep ==
  ASSUME Inv, Environment
  PROVE  Inv'
<1>1. UNCHANGED <<alive, audio, sent, toWorker, fromWorker, worker, engine>>
  BY DEF Environment, SetBank, SetSize, SwitchReload, WriteFolder, Change
<1>2. PICK d \in Nat : disk' = d /\ disk <= d
  <2>1. disk \in Nat
    BY DEF Inv, TypeOK
  <2>2. disk' \in {disk, disk + 1}
    BY DEF Environment, SetBank, SetSize, SwitchReload, WriteFolder
  <2>3. QED
    BY <2>1, <2>2
<1>3. banks' \in [Corners -> Banks] /\ size' \in Sizes
  <2>1. CASE \E c \in Corners, b \in Banks : SetBank(c, b)
    BY <2>1 DEF SetBank, Inv, TypeOK
  <2>2. CASE \E s \in Sizes : SetSize(s)
    BY <2>2 DEF SetSize, Inv, TypeOK
  <2>3. CASE SwitchReload \/ WriteFolder
    BY <2>3 DEF SwitchReload, WriteFolder, Inv, TypeOK
  <2>4. QED
    BY <2>1, <2>2, <2>3 DEF Environment
<1>4. TypeOK'
  BY <1>1, <1>2, <1>3 DEF Inv, TypeOK, audio, worker, engine
<1>5. Remembered'
  <2>1. /\ noticed \in Nat /\ noticed <= disk /\ disk \in Nat
        /\ \A i \in DOMAIN sent : sent[i].asked \in Nat /\ sent[i].asked <= disk
    BY SentProperties DEF Inv, TypeOK, Remembered, Requests
  <2>2. noticed <= d /\ \A i \in DOMAIN sent : sent[i].asked <= d
    BY <1>2, <2>1
  <2>3. QED
    BY <1>1, <1>2, <2>2 DEF Inv, Remembered, Last, audio
<1>6. Bounded'
  BY <1>1 DEF Inv, Bounded, Serials, InFlight, Coming, Due, Waiting, Unsent, audio,
              worker, engine
<1>7. (Generations /\ Loaded /\ Newer /\ Made /\ InOrder)'
  BY <1>1, Elsewhere DEF audio, engine
<1>8. QED
  BY <1>4, <1>5, <1>6, <1>7 DEF Inv

LEMMA BeginBlockStep ==
  ASSUME Inv, BeginBlock
  PROVE  Inv'
<1>1. /\ step = "idle" /\ step' = "sync" /\ snapSize' = size
      /\ UNCHANGED <<params, alive, synced, dirtyLoad, loadGen, noticed, sent, toWorker,
                     fromWorker, worker, engine>>
  BY DEF BeginBlock
<1>2. TypeOK'
  BY <1>1 DEF Inv, TypeOK, params, worker, engine
<1>3. Remembered'
  BY <1>1 DEF Inv, Remembered, Last, params
<1>4. Bounded'
  <2>1. Unsent = 1 /\ Unsent' = 1
    BY <1>1 DEF Unsent
  <2>2. Waiting' = Waiting /\ \A c : Serials(c)' = Serials(c) /\ Coming(c)' = Coming(c)
    BY <1>1 DEF Waiting, Serials, InFlight, Coming, Due, worker
  <2>3. QED
    BY <1>1, <2>1, <2>2 DEF Inv, Bounded, engine
<1>5. (Generations /\ Loaded /\ Newer /\ Made /\ InOrder)'
  BY <1>1, Elsewhere DEF engine
<1>6. QED
  BY <1>2, <1>3, <1>4, <1>5 DEF Inv

LEMMA CountsType ==
  ASSUME Inv, NEW c \in Corners
  PROVE  /\ landed[c] \in Nat /\ Cardinality(Serials(c)) \in Nat
         /\ Coming(c) \in {0, 1} /\ Waiting \in {0, 1} /\ Unsent \in {0, 1}
<1>1. IsFiniteSet(Serials(c))
  BY DEF Inv, Bounded
<1>2. QED
  BY <1>1, FS_CardinalityType DEF Inv, TypeOK, Coming, Waiting, Unsent

LEMMA DeferSyncStep ==
  ASSUME Inv, DeferSync
  PROVE  Inv'
<1>1. /\ step = "sync" /\ step' = "accept"
      /\ dirtyLoad' = LoadDue /\ noticed' = Asked
      /\ UNCHANGED <<params, alive, snapSize, synced, loadGen, sent, toWorker,
                     fromWorker, worker, engine>>
  BY DEF DeferSync
<1>2. Asked \in Nat /\ Asked <= disk /\ LoadDue \in BOOLEAN
  BY DEF Asked, LoadDue, Inv, TypeOK, Remembered
<1>3. TypeOK'
  BY <1>1, <1>2 DEF Inv, TypeOK, params, worker, engine
<1>4. Remembered'
  <2>1. LoadDue \/ Asked = Last.asked
    BY DEF LoadDue, Asked, Inv, Remembered
  <2>2. QED
    BY <1>1, <1>2, <2>1 DEF Inv, Remembered, Last, params
<1>5. Bounded'
  <2>1. Unsent = 1 /\ Unsent' = 0
    BY <1>1 DEF Unsent
  <2>2. Waiting' = Waiting /\ \A c : Serials(c)' = Serials(c) /\ Coming(c)' = Coming(c)
    BY <1>1 DEF Waiting, Serials, InFlight, Coming, Due, worker
  <2>3. ASSUME NEW c \in Corners
        PROVE  landed[c] + Cardinality(Serials(c)) + Coming(c) + Waiting + 0 <= 3
    BY <2>1, CountsType DEF Inv, Bounded
  <2>4. QED
    BY <1>1, <2>1, <2>2, <2>3 DEF Inv, Bounded, engine
<1>6. (Generations /\ Loaded /\ Newer /\ Made /\ InOrder)'
  BY <1>1, Elsewhere DEF engine
<1>7. QED
  BY <1>3, <1>4, <1>5, <1>6 DEF Inv

LEMMA SendSyncStep ==
  ASSUME Inv, SendSync
  PROVE  Inv'
<1> DEFINE g == IF LoadDue THEN loadGen + 1 ELSE loadGen
           r == Request(banks, snapSize, g, Asked)
           n == Len(sent) + 1
           ss == Append(sent, r)
           ws == Append(toWorker, n)
<1>1. /\ step = "sync" /\ step' = "accept" /\ dirtyLoad' = FALSE
      /\ synced' = [banks |-> banks, size |-> snapSize]
      /\ loadGen' = g /\ sent' = ss /\ noticed' = Asked
      /\ UNCHANGED <<params, alive, snapSize, fromWorker, worker, engine>>
  BY DEF SendSync
<1>2. Asked \in Nat /\ Asked <= disk
  BY DEF Asked, Inv, TypeOK, Remembered
<1>3. g \in Nat /\ loadGen <= g /\ loadGen \in Nat /\ (g = loadGen \/ loadGen < g)
  BY DEF Inv, TypeOK
<1>4. /\ r \in Requests /\ r.banks = banks /\ r.size = snapSize /\ r.gen = g
      /\ r.asked = Asked
  BY <1>2, <1>3 DEF Request, Requests, Inv, TypeOK
<1>5. g = loadGen => r.banks = Last.banks /\ r.asked = Last.asked
  BY <1>3, <1>4 DEF LoadDue, Asked, Inv, Remembered
<1> HIDE DEF g, r
<1>6. /\ n \in Nat /\ Len(sent) \in Nat \ {0} /\ DOMAIN sent = 1 .. Len(sent)
      /\ ss \in Seq(Requests) /\ Len(ss) = n /\ ss # <<>>
      /\ \A i \in DOMAIN sent : ss[i] = sent[i]
      /\ ss[n] = r
  <2>1. sent \in Seq(Requests)
    BY DEF Inv, TypeOK
  <2>2. Len(sent) \in Nat \ {0}
    BY SentProperties DEF Inv
  <2>3. QED
    BY <1>4, <2>1, <2>2, Appended
<1>7. DOMAIN ss = 1 .. n /\ DOMAIN ss = DOMAIN sent \cup {n} /\ n \notin DOMAIN sent
  BY <1>6, LenProperties
<1>8. toWorker' = ws
  BY <1>1, <1>6 DEF SendSync
<1>9. /\ Len(toWorker) \in Nat /\ DOMAIN toWorker = 1 .. Len(toWorker)
      /\ ws \in Seq(Nat) /\ ws # <<>> /\ Len(ws) = Len(toWorker) + 1
      /\ \A i \in DOMAIN toWorker : ws[i] = toWorker[i]
      /\ ws[Len(toWorker) + 1] = n
  <2>1. toWorker \in Seq(Nat)
    BY DEF Inv, TypeOK
  <2> HIDE DEF n
  <2>2. QED
    BY <1>6, <2>1, Appended
<1>10. DOMAIN ws = 1 .. Len(ws)
  BY <1>9, LenProperties
<1>11. \A i \in DOMAIN ws : (i \in DOMAIN toWorker /\ ws[i] = toWorker[i]) \/ ws[i] = n
  BY <1>9, <1>10
<1>12. \A m \in 1 .. Len(sent) : m \in DOMAIN sent /\ m \in 1 .. n /\ m < n
  BY <1>6
<1>13. \A i \in DOMAIN sent :
         /\ sent[i] \in Requests /\ sent[i].gen <= loadGen /\ sent[i].asked <= disk
         /\ sent[i].gen = loadGen => sent[i].banks = Last.banks /\ sent[i].asked = Last.asked
  <2>1. ASSUME NEW i \in DOMAIN sent PROVE i <= Len(sent)
    BY <1>6
  <2>2. QED
    BY <2>1, SentProperties DEF Inv, Generations, Remembered, Last
<1> HIDE DEF ss, ws, n
<1>14. TypeOK'
  <2>1. \A i \in DOMAIN ws : ws[i] \in 1 .. n
    <3>1. n \in 1 .. n
      BY <1>6 DEF n
    <3>2. \A i \in DOMAIN toWorker : toWorker[i] \in 1 .. n
      BY <1>12 DEF Inv, TypeOK
    <3>3. QED
      BY <1>11, <3>1, <3>2
  <2>2. /\ sent' \in Seq(Requests) /\ sent' # <<>>
        /\ toWorker' \in Seq(Nat) /\ \A i \in DOMAIN toWorker' : toWorker'[i] \in 1 .. Len(sent')
    BY <1>1, <1>6, <1>8, <1>9, <2>1
  <2>3. job' \in 1 .. Len(sent')
    BY <1>1, <1>6, <1>12 DEF Inv, TypeOK, worker
  <2>4. loadGen' \in Nat /\ noticed' \in Nat /\ dirtyLoad' \in BOOLEAN
        /\ synced' \in [banks : [Corners -> Banks], size : Sizes]
    BY <1>1, <1>2, <1>3 DEF Inv, TypeOK
  <2>5. QED
    BY <1>1, <2>2, <2>3, <2>4 DEF Inv, TypeOK, params, worker, engine
<1>15. Remembered'
  <2>1. Last' = r
    BY <1>1, <1>6 DEF Last
  <2>2. \A i \in DOMAIN ss : ss[i].asked <= disk
    BY <1>2, <1>4, <1>6, <1>7, <1>13
  <2>3. QED
    BY <1>1, <1>2, <1>4, <2>1, <2>2 DEF Remembered, params
<1>16. Generations'
  <2>1. ASSUME NEW i \in DOMAIN ss, NEW j \in DOMAIN ss, i <= j
        PROVE  /\ ss[i].gen <= ss[j].gen
               /\ ss[i].gen = ss[j].gen => ss[i].banks = ss[j].banks /\ ss[i].asked = ss[j].asked
    <3>1. CASE i \in DOMAIN sent /\ j \in DOMAIN sent
      BY <1>6, <2>1, <3>1 DEF Inv, Generations
    <3>2. CASE i \in DOMAIN sent /\ j = n
      <4>1. sent[i].gen \in Nat /\ sent[i].gen <= loadGen
        BY <1>13, <3>2 DEF Requests
      <4>2. sent[i].gen <= g
        BY <1>3, <4>1
      <4>3. sent[i].gen = g => g = loadGen /\ sent[i].gen = loadGen
        BY <1>3, <4>1
      <4>4. QED
        BY <1>4, <1>5, <1>6, <1>13, <3>2, <4>2, <4>3
    <3>3. CASE i = n
      <4>1. j = n
        BY <1>6, <1>7, <2>1, <3>3
      <4>2. QED
        BY <1>3, <1>4, <1>6, <3>3, <4>1
    <3>4. QED
      BY <1>7, <3>1, <3>2, <3>3
  <2>2. QED
    BY <1>1, <2>1 DEF Generations
<1>17. Loaded'
  <2>1. \A c : \A i \in DOMAIN sent : Answers(c, i)' <=> Answers(c, i)
    BY <1>1, <1>6 DEF Answers, worker
  <2>2. loadedGen # None => loadedGen \in Nat /\ loadedGen <= loadGen
    BY DEF Inv, TypeOK, Loaded
  <2>3. loadedGen # None => loadedGen <= g
    BY <1>3, <2>2
  <2>4. ASSUME work # "load", NEW i \in DOMAIN ss, NEW c \in Corners, ss[i].gen = loadedGen
        PROVE  Answers(c, i)'
    <3>1. CASE i \in DOMAIN sent
      BY <1>6, <2>1, <2>4, <3>1 DEF Inv, Loaded
    <3>2. CASE i = n
      <4>1. loadedGen = g
        BY <1>4, <1>6, <2>4, <3>2
      <4>2. g = loadGen
        BY <1>3, <2>2, <4>1, NoneAssumption
      <4>3. Len(sent) \in DOMAIN sent /\ sent[Len(sent)].gen = loadedGen
        BY <4>1, <4>2, SentProperties DEF Inv, Remembered, Last
      <4>4. Answers(c, Len(sent))
        BY <2>4, <4>3 DEF Inv, Loaded
      <4>5. QED
        BY <1>1, <1>5, <1>6, <3>2, <4>2, <4>4 DEF Answers, Last, worker
    <3>3. QED
      BY <1>7, <3>1, <3>2
  <2>5. job \in DOMAIN sent /\ ss[job] = sent[job]
    BY <1>6, <1>12 DEF Inv, TypeOK
  <2>6. work = "load" => \A c \in 0 .. next - 1 :
                           /\ sources[c] # None
                           /\ sources[c].bank = ss[job].banks[c]
                           /\ sources[c].disk >= ss[job].asked
    BY <2>5 DEF Inv, Loaded, Answers
  <2>7. work = "render" => ss[job].gen = loadedGen
    BY <2>5 DEF Inv, Loaded
  <2>8. UNCHANGED worker /\ sent' = ss /\ loadGen' = g
    BY <1>1
  <2>10. loadedGen' # None => loadedGen' <= loadGen'
    BY <2>3, <2>8 DEF worker
  <2>11. (work # "load" => \A i \in DOMAIN sent : \A c \in Corners :
                             sent[i].gen = loadedGen => Answers(c, i))'
    BY <2>4, <2>8 DEF worker
  <2>12. (work = "load" => \A c \in 0 .. next - 1 : Answers(c, job))'
    BY <2>6, <2>8 DEF worker, Answers
  <2>13. (work = "render" => sent[job].gen = loadedGen)'
    BY <2>7, <2>8 DEF worker
  <2>14. QED
    BY <2>10, <2>11, <2>12, <2>13 DEF Loaded
<1>18. Newer'
  <2>1. job < n
    BY <1>12 DEF Inv, TypeOK
  <2>2. work \in {"load", "render"} => \A i \in DOMAIN ws : job < ws[i]
    BY <1>11, <2>1 DEF Inv, Newer
  <2>3. QED
    BY <1>1, <1>8, <2>2 DEF Newer, worker
<1>19. ASSUME NEW s, s.serial \in 1 .. job, Fits(s)
       PROVE  Fits(s)'
  <2>1. s.serial \in 1 .. Len(sent)
    BY <1>19, <1>6 DEF Inv, TypeOK
  <2>2. s.serial < n /\ ss[s.serial] = sent[s.serial]
    BY <1>6, <1>12, <2>1
  <2>3. \A i \in DOMAIN ws : s.serial < ws[i]
    BY <1>11, <1>19, <2>2 DEF Fits
  <2>4. QED
    BY <1>1, <1>8, <1>19, <2>2, <2>3 DEF Fits, Due, worker
<1>20. Made'
  BY <1>1, <1>19 DEF Inv, Made, Fits, engine
<1>21. InOrder'
  BY <1>1 DEF Inv, InOrder, engine
<1>22. Bounded'
  <2>1. Unsent = 1 /\ Unsent' = 0 /\ Waiting' = 1
    BY <1>1, <1>8, <1>9 DEF Unsent, Waiting
  <2>2. \A c : Serials(c)' = Serials(c) /\ Coming(c)' = Coming(c)
    BY <1>1 DEF Serials, InFlight, Coming, Due, worker
  <2>3. ASSUME NEW c \in Corners
        PROVE  landed[c] + Cardinality(Serials(c)) + Coming(c) + 1 + 0 <= 3
    BY <2>1, CountsType DEF Inv, Bounded
  <2>4. QED
    BY <1>1, <2>1, <2>2, <2>3 DEF Inv, Bounded, engine
<1>23. QED
  BY <1>14, <1>15, <1>16, <1>17, <1>18, <1>20, <1>21, <1>22 DEF Inv

\* Steps of the channel from the worker and of the block leave the rest alone.
LEMMA ChannelStep ==
  ASSUME Inv, UNCHANGED <<params, synced, dirtyLoad, loadGen, noticed, sent, toWorker,
                          worker>>
  PROVE  /\ Remembered' /\ Generations' /\ Loaded' /\ Newer'
         /\ \A s : Fits(s)' <=> Fits(s)
         /\ Waiting' = Waiting /\ \A c : Coming(c)' = Coming(c)
<1>1. Remembered'
  BY DEF Inv, Remembered, Last, params
<1>2. Generations'
  BY DEF Inv, Generations
<1>3. Loaded'
  BY DEF Inv, Loaded, Answers, worker
<1>4. Newer'
  BY DEF Inv, Newer, worker
<1>5. \A s : Fits(s)' <=> Fits(s)
  BY DEF Fits, Due, worker
<1>6. Waiting' = Waiting /\ \A c : Coming(c)' = Coming(c)
  BY DEF Waiting, Coming, Due, worker
<1>7. QED
  BY <1>1, <1>2, <1>3, <1>4, <1>5, <1>6

LEMMA AcceptStep ==
  ASSUME Inv, Accept
  PROVE  Inv'
<1> DEFINE set == Head(fromWorker)
           q == Tail(fromWorker)
           c0 == set.corner
<1>1. /\ alive /\ step = "accept" /\ fromWorker # <<>> /\ fromWorker' = q
      /\ installed' = [installed EXCEPT ![c0] = set]
      /\ landed' = [landed EXCEPT ![c0] = landed[c0] + 1]
      /\ UNCHANGED <<params, alive, audio, sent, toWorker, worker>>
  BY DEF Accept
<1>2. /\ set \in Sets /\ fromWorker' \in Seq(Sets)
      /\ set = fromWorker[1] /\ 1 \in DOMAIN fromWorker
      /\ DOMAIN fromWorker' \subseteq Nat
      /\ \A i \in DOMAIN fromWorker' :
           i + 1 \in DOMAIN fromWorker /\ 1 < i + 1 /\ fromWorker'[i] = fromWorker[i + 1]
      /\ InFlight = InFlight' \cup {set}
  BY <1>1, SetReceived DEF Inv
<1>3. c0 \in Corners /\ set # None
  BY <1>2, NoneAssumption DEF Sets
<1> HIDE DEF set, q, c0
<1>4. TypeOK'
  <2>1. installed' \in [Corners -> Sets \cup {None}] /\ landed' \in [Corners -> Nat]
    BY <1>1, <1>2, <1>3 DEF Inv, TypeOK
  <2>2. QED
    BY <1>1, <1>2, <2>1 DEF Inv, TypeOK, params, audio, worker
<1>5. /\ Remembered' /\ Generations' /\ Loaded' /\ Newer'
      /\ \A s : Fits(s)' <=> Fits(s)
      /\ Waiting' = Waiting /\ \A c : Coming(c)' = Coming(c)
  BY <1>1, ChannelStep DEF audio
<1>6. \A c \in Corners : installed'[c] = IF c = c0 THEN set ELSE installed[c]
  BY <1>1, <1>3 DEF Inv, TypeOK
<1>7. Made'
  <2>1. Fits(set) /\ \A i \in DOMAIN fromWorker' : Fits(fromWorker'[i])
    BY <1>2 DEF Inv, Made
  <2>2. \A c \in Corners : installed'[c] # None =>
                             installed'[c].corner = c /\ Fits(installed'[c])
    BY <1>6, <2>1 DEF Inv, Made, c0
  <2>3. QED
    BY <1>5, <2>1, <2>2 DEF Made, Fits
<1>8. \A i \in DOMAIN fromWorker' :
        fromWorker'[i] \in Sets /\ fromWorker'[i].corner \in Corners
  <2>1. \A i \in DOMAIN fromWorker : fromWorker[i] \in Sets
    BY LenProperties DEF Inv, TypeOK
  <2>2. QED
    BY <1>2, <2>1 DEF Sets
<1>9. InOrder'
  <2>1. ASSUME NEW i \in DOMAIN fromWorker'
        PROVE  LET c == fromWorker'[i].corner
               IN  installed'[c] # None => installed'[c].serial < fromWorker'[i].serial
    <3>1. 1 < i + 1 /\ i + 1 \in DOMAIN fromWorker /\ fromWorker'[i] = fromWorker[i + 1]
      BY <1>2
    <3>2. CASE fromWorker[i + 1].corner = c0
      BY <1>2, <1>3, <1>6, <3>1, <3>2 DEF Inv, InOrder, c0
    <3>3. CASE fromWorker[i + 1].corner # c0
      BY <1>6, <1>8, <3>1, <3>3 DEF Inv, InOrder
    <3>4. QED
      BY <3>2, <3>3
  <2>2. ASSUME NEW i \in DOMAIN fromWorker', NEW j \in DOMAIN fromWorker', i < j,
               fromWorker'[i].corner = fromWorker'[j].corner
        PROVE  fromWorker'[i].serial < fromWorker'[j].serial
    <3>1. i + 1 < j + 1
      BY <1>2, <2>2
    <3>2. QED
      BY <1>2, <2>2, <3>1 DEF Inv, InOrder
  <2>3. QED
    BY <2>1, <2>2 DEF InOrder
<1>10. Bounded'
  <2>1. SUFFICES ASSUME NEW c \in Corners
                 PROVE  /\ IsFiniteSet(Serials(c)')
                        /\ landed'[c] + Cardinality(Serials(c)') + Coming(c)'
                             + Waiting' + Unsent' <= 3
    BY DEF Bounded
  <2> DEFINE F == {q[i] : i \in DOMAIN q}
             S == {s.serial : s \in {s \in F : s.corner = c}}
             n == Cardinality(S)
             m == Cardinality(Serials(c))
             k == landed[c]
             rest == Coming(c) + Waiting + Unsent
  <2>2. Serials(c)' = S /\ F = InFlight'
    BY <1>1 DEF Serials, InFlight
  <2>3. Unsent' = Unsent
    BY <1>1 DEF Unsent, audio
  <2>4. k + m + rest <= 3 /\ k \in Nat /\ m \in Nat /\ rest \in Nat /\ IsFiniteSet(Serials(c))
    BY CountsType DEF Inv, Bounded
  <2>5. F \subseteq InFlight /\ InFlight = F \cup {set}
    BY <1>2, <2>2
  <2>6. CASE c # c0
    <3>1. S = Serials(c)
      BY <2>5, <2>6 DEF Serials, c0
    <3>2. landed'[c] = k
      BY <1>1, <2>6 DEF Inv, TypeOK
    <3>3. landed'[c] + Cardinality(Serials(c)') + Coming(c)' + Waiting' + Unsent'
            = k + m + Coming(c) + Waiting + Unsent
      BY <1>5, <2>2, <2>3, <3>1, <3>2
    <3>4. k + m + Coming(c) + Waiting + Unsent <= 3
      BY DEF Inv, Bounded
    <3>5. QED
      BY <2>2, <2>4, <3>1, <3>3, <3>4
  <2>7. CASE c = c0
    <3>1. Serials(c) = S \cup {set.serial}
      BY <2>5, <2>7 DEF Serials, c0
    <3>2. set.serial \notin S
      <4>1. SUFFICES ASSUME NEW s \in F, s.corner = c, s.serial = set.serial PROVE FALSE
        OBVIOUS
      <4>2. PICK i \in DOMAIN q : s = q[i]
        OBVIOUS
      <4>3. s = fromWorker[i + 1] /\ 1 < i + 1 /\ i + 1 \in DOMAIN fromWorker
        BY <1>1, <1>2, <4>2
      <4>4. set.serial < s.serial
        BY <1>2, <2>7, <4>1, <4>3 DEF Inv, InOrder, c0
      <4>5. set.serial \in Nat
        BY <1>2 DEF Sets
      <4>6. QED
        BY <4>1, <4>4, <4>5
    <3> HIDE DEF S
    <3>3. IsFiniteSet(S)
      BY <2>4, <3>1, FS_Subset
    <3>4. m = n + 1 /\ n \in Nat
      BY <3>1, <3>2, <3>3, FS_AddElement, FS_CardinalityType
    <3>5. landed'[c] = k + 1
      BY <1>1, <1>3, <2>7 DEF Inv, TypeOK
    <3>6. landed'[c] + Cardinality(Serials(c)') + Coming(c)' + Waiting' + Unsent'
            = (k + 1) + n + Coming(c) + Waiting + Unsent
      BY <1>5, <2>2, <2>3, <3>5
    <3>7. (k + 1) + n + Coming(c) + Waiting + Unsent <= 3
      <4> HIDE DEF n, m, k
      <4>1. QED
        BY <2>4, <3>4, CountsType
    <3>8. QED
      BY <2>2, <3>3, <3>6, <3>7
  <2>8. QED
    BY <2>6, <2>7
<1>11. QED
  BY <1>4, <1>5, <1>7, <1>9, <1>10 DEF Inv

LEMMA EndBlockStep ==
  ASSUME Inv, NEW frames \in BlockSizes, EndBlock(frames)
  PROVE  Inv'
<1>1. /\ alive /\ step = "accept" /\ fromWorker = <<>> /\ step' = "idle"
      /\ landed' = [c \in Corners |-> 0]
      /\ UNCHANGED <<params, alive, snapSize, synced, dirtyLoad, loadGen, noticed, sent,
                     toWorker, fromWorker, worker, installed>>
  BY DEF EndBlock
<1>2. TypeOK'
  BY <1>1 DEF Inv, TypeOK, params, worker
<1>3. Remembered' /\ Generations' /\ Loaded' /\ Newer' /\ Waiting' = Waiting
      /\ \A c : Coming(c)' = Coming(c)
  BY <1>1, ChannelStep
<1>4. Made' /\ InOrder'
  BY <1>1, Elsewhere
<1>5. Bounded'
  <2>1. SUFFICES ASSUME NEW c \in Corners
                 PROVE  /\ IsFiniteSet(Serials(c)')
                        /\ landed'[c] + Cardinality(Serials(c)') + Coming(c)'
                             + Waiting' + Unsent' <= 3
    BY DEF Bounded
  <2>2. Serials(c)' = {}
    <3>1. DOMAIN fromWorker' = {}
      BY <1>1, EmptySeq, LenProperties
    <3>2. QED
      BY <3>1 DEF Serials, InFlight
  <2>3. landed'[c] = 0 /\ Unsent' = 1
    BY <1>1 DEF Unsent
  <2>4. 0 + 0 + Coming(c) + Waiting + 1 <= 3
    BY CountsType
  <2>5. QED
    BY <1>3, <2>2, <2>3, <2>4, FS_EmptySet
<1>6. QED
  BY <1>2, <1>3, <1>4, <1>5 DEF Inv

LEMMA DeactivateStep ==
  ASSUME Inv, Deactivate
  PROVE  Inv'
<1>1. /\ alive' = FALSE /\ fromWorker' = <<>>
      /\ UNCHANGED <<params, audio, sent, toWorker, worker, engine>>
  BY DEF Deactivate
<1>2. fromWorker' \in Seq(Sets) /\ DOMAIN fromWorker' = {}
  BY <1>1, EmptySeq, LenProperties
<1>3. TypeOK'
  BY <1>1, <1>2 DEF Inv, TypeOK, params, audio, worker, engine
<1>4. /\ Remembered' /\ Generations' /\ Loaded' /\ Newer'
      /\ Waiting' = Waiting /\ \A c : Coming(c)' = Coming(c)
  BY <1>1, ChannelStep DEF audio
<1>5. Made'
  BY <1>1, <1>2 DEF Inv, Made, Fits, Due, worker, engine
<1>6. InOrder'
  BY <1>2 DEF InOrder
<1>7. Bounded'
  <2>1. SUFFICES ASSUME NEW c \in Corners
                 PROVE  /\ IsFiniteSet(Serials(c)')
                        /\ landed'[c] + Cardinality(Serials(c)') + Coming(c)'
                             + Waiting' + Unsent' <= 3
    BY DEF Bounded
  <2>2. Serials(c)' = {}
    BY <1>2 DEF Serials, InFlight
  <2>3. landed'[c] = landed[c] /\ Unsent' = Unsent
    BY <1>1 DEF Unsent, audio, engine
  <2> DEFINE m == Cardinality(Serials(c))
  <2>4. m \in Nat
    BY CountsType
  <2>5. landed[c] + m + Coming(c) + Waiting + Unsent <= 3
    BY DEF Inv, Bounded
  <2> HIDE DEF m
  <2>6. landed[c] + 0 + Coming(c) + Waiting + Unsent <= 3
    BY <2>4, <2>5, CountsType
  <2>7. QED
    BY <1>4, <2>2, <2>3, <2>6, FS_EmptySet
<1>8. QED
  BY <1>3, <1>4, <1>5, <1>6, <1>7 DEF Inv

LEMMA ReceiveStep ==
  ASSUME Inv, Receive
  PROVE  Inv'
<1> DEFINE n == Len(toWorker)
           j == toWorker[n]
<1>1. /\ work = "receive" /\ toWorker # <<>> /\ toWorker' = <<>>
      /\ job' = j /\ next' = 0
      /\ work' = IF sent[j].gen # loadedGen THEN "load" ELSE "render"
      /\ UNCHANGED <<params, alive, audio, sent, fromWorker, loadedGen, sources, engine>>
  BY DEF Receive, Coalesced, MustLoad
<1>2. n \in DOMAIN toWorker /\ j \in 1 .. Len(sent) /\ Len(sent) \in Nat
  <2>1. toWorker \in Seq(Nat)
    BY DEF Inv, TypeOK
  <2>2. n \in Nat \ {0} /\ DOMAIN toWorker = 1 .. n
    BY <1>1, <2>1, EmptySeq, LenProperties
  <2> HIDE DEF n
  <2>3. n \in DOMAIN toWorker
    BY <2>2
  <2>4. QED
    BY <2>3, SentProperties DEF Inv, TypeOK
<1>3. toWorker' \in Seq(Nat) /\ DOMAIN toWorker' = {}
  BY <1>1, EmptySeq, LenProperties
<1>4. 0 \in Corners /\ \A c \in Corners : c >= 0
  BY ReconcileAssumption DEF Corners
<1>5. \A s : Fits(s) => s.serial < j
  BY <1>2 DEF Fits
<1> HIDE DEF j, n
<1>6. TypeOK'
  BY <1>1, <1>2, <1>3, <1>4 DEF Inv, TypeOK, params, audio, engine
<1>7. Remembered'
  BY <1>1 DEF Inv, Remembered, Last, params, audio
<1>8. Generations'
  BY <1>1 DEF Inv, Generations
<1>9. Loaded'
  <2>1. \A c : ~ (c \in 0 .. 0 - 1)
    OBVIOUS
  <2>2. (work # "load" => \A i \in DOMAIN sent : \A c \in Corners :
                            sent[i].gen = loadedGen => Answers(c, i))'
    BY <1>1 DEF Inv, Loaded, Answers
  <2>3. (work = "load" => \A c \in 0 .. next - 1 : Answers(c, job))'
    BY <1>1, <2>1
  <2>4. (loadedGen # None => loadedGen <= loadGen)'
    BY <1>1 DEF Inv, Loaded, audio
  <2>5. (work = "render" => sent[job].gen = loadedGen)'
    BY <1>1
  <2>6. QED
    BY <2>2, <2>3, <2>4, <2>5 DEF Loaded
<1>10. Newer'
  BY <1>3 DEF Newer
<1>11. \A s : Fits(s) => Fits(s)'
  <2>1. SUFFICES ASSUME NEW s, Fits(s) PROVE Fits(s)'
    OBVIOUS
  <2>2. s.serial \in 1 .. job /\ s.serial < j /\ job \in Nat
    BY <1>5, <2>1, SentProperties DEF Fits, Inv, TypeOK
  <2>3. s.serial \in 1 .. j
    BY <1>2, <2>2
  <2>4. QED
    BY <1>1, <1>3, <2>1, <2>2, <2>3 DEF Fits
<1>12. Made'
  BY <1>1, <1>11 DEF Inv, Made, engine, Fits
<1>13. InOrder'
  BY <1>1 DEF Inv, InOrder, engine
<1>14. Bounded'
  <2>1. Waiting = 1 /\ Waiting' = 0 /\ Unsent' = Unsent
    BY <1>1 DEF Waiting, Unsent, audio
  <2>2. ASSUME NEW c \in Corners PROVE Coming(c) = 0 /\ Coming(c)' = 1
    BY <1>1, <1>4 DEF Coming, Due
  <2>3. \A c : Serials(c)' = Serials(c)
    BY <1>1 DEF Serials, InFlight
  <2>4. ASSUME NEW c \in Corners
        PROVE  landed[c] + Cardinality(Serials(c)) + 1 + 0 + Unsent <= 3
    BY <2>1, <2>2, CountsType DEF Inv, Bounded
  <2>5. QED
    BY <1>1, <2>1, <2>2, <2>3, <2>4 DEF Inv, Bounded, engine
<1>15. QED
  BY <1>6, <1>7, <1>8, <1>9, <1>10, <1>12, <1>13, <1>14 DEF Inv

LEMMA LoadCornerStep ==
  ASSUME Inv, LoadCorner
  PROVE  Inv'
<1> DEFINE source == [bank |-> sent[job].banks[next], disk |-> disk]
<1>1. /\ work = "load"
      /\ sources' = [sources EXCEPT ![next] = source]
      /\ \/ /\ LastCorner /\ loadedGen' = sent[job].gen /\ work' = "render" /\ next' = 0
         \/ /\ ~ LastCorner /\ next' = next + 1 /\ UNCHANGED <<loadedGen, work>>
      /\ UNCHANGED <<params, alive, audio, sent, toWorker, fromWorker, job, engine>>
  BY DEF LoadCorner
<1>2. /\ job \in DOMAIN sent /\ sent[job] \in Requests /\ next \in Corners
      /\ sent[job].banks \in [Corners -> Banks] /\ sent[job].gen \in Nat
  BY SentProperties DEF Inv, TypeOK, Requests
<1>3. source \in Sources /\ source # None /\ source.disk >= sent[job].asked
  <2>1. source \in Sources
    BY <1>2 DEF Inv, TypeOK, Sources
  <2>2. sent[job].asked <= disk /\ sent[job].asked \in Nat /\ disk \in Nat
    BY <1>2 DEF Inv, TypeOK, Remembered, Requests
  <2>3. QED
    BY <2>1, <2>2, NoneAssumption
<1>4. /\ source.bank = sent[job].banks[next]
      /\ sources' \in [Corners -> Sources \cup {None}]
      /\ \A c \in Corners : sources'[c] = IF c = next THEN source ELSE sources[c]
  BY <1>1, <1>2, <1>3 DEF Inv, TypeOK
<1> HIDE DEF source
<1>5. \A c \in Corners : c \in 0 .. next => Answers(c, job) \/ c = next
  BY <1>1, <1>2 DEF Inv, Loaded, Corners
<1>6. ASSUME NEW c \in Corners, c \in 0 .. next
      PROVE  /\ sources'[c] # None
             /\ sources'[c].bank = sent[job].banks[c]
             /\ sources'[c].disk >= sent[job].asked
  BY <1>3, <1>4, <1>5, <1>6 DEF Answers
<1>7. /\ next \in Nat /\ 0 \in Corners /\ \A c \in Corners : c >= 0
      /\ LastCorner => \A c \in Corners : c \in 0 .. next
      /\ ~ LastCorner => next + 1 \in Corners
  BY <1>2, ReconcileAssumption DEF Corners, LastCorner
<1>8. TypeOK'
  <2>1. next' \in Corners /\ work' \in {"load", "render"} /\ loadedGen' \in Nat \cup {None}
    BY <1>1, <1>2, <1>7 DEF Inv, TypeOK
  <2>2. QED
    BY <1>1, <1>4, <2>1 DEF Inv, TypeOK, params, audio, engine
<1>9. Remembered'
  BY <1>1 DEF Inv, Remembered, Last, params, audio
<1>10. Generations'
  BY <1>1 DEF Inv, Generations
<1>11. Loaded'
  <2>1. CASE LastCorner
    <3>1. loadedGen' = sent[job].gen /\ work' = "render" /\ next' = 0
      BY <1>1, <2>1
    <3>2. sent[job].gen <= loadGen
      <4>1. job <= Len(sent) /\ Len(sent) \in DOMAIN sent
        BY SentProperties DEF Inv, TypeOK
      <4>2. QED
        BY <1>2, <4>1 DEF Inv, Generations, Remembered, Last
    <3>3. ASSUME NEW i \in DOMAIN sent, NEW c \in Corners, sent[i].gen = sent[job].gen
          PROVE  Answers(c, i)'
      <4>1. i <= job \/ job <= i
        BY <1>2, SentProperties
      <4>2. sent[i].banks = sent[job].banks /\ sent[i].asked = sent[job].asked
        BY <1>2, <3>3, <4>1 DEF Inv, Generations
      <4>3. c \in 0 .. next
        BY <1>7, <2>1
      <4>4. QED
        BY <1>1, <1>6, <4>2, <4>3 DEF Answers
    <3>4. QED
      BY <1>1, <3>1, <3>2, <3>3 DEF Loaded, audio
  <2>2. CASE ~ LastCorner
    <3>1. next' = next + 1 /\ UNCHANGED <<loadedGen, work, job, sent, loadGen>>
      BY <1>1, <2>2 DEF audio
    <3>2. \A c \in 0 .. (next + 1) - 1 : c \in Corners /\ c \in 0 .. next
      BY <1>2, <1>7, ReconcileAssumption DEF Corners
    <3>3. (\A c \in 0 .. next - 1 : Answers(c, job))'
      BY <1>6, <3>1, <3>2 DEF Answers
    <3>4. QED
      BY <1>1, <3>1, <3>3 DEF Inv, Loaded
  <2>3. QED
    BY <2>1, <2>2
<1>12. Newer'
  BY <1>1 DEF Inv, Newer
<1>13. \A c \in Corners : Due(c) /\ Due(c)'
  BY <1>1, <1>7 DEF Due
<1>14. Made'
  <2>1. \A c \in Corners : installed[c] # None => installed[c].corner \in Corners
    BY DEF Inv, Made
  <2>2. \A i \in DOMAIN fromWorker : fromWorker[i].corner \in Corners
    <3>1. \A i \in DOMAIN fromWorker : fromWorker[i] \in Sets
      BY LenProperties DEF Inv, TypeOK
    <3>2. QED
      BY <3>1 DEF Sets
  <2>3. QED
    BY <1>1, <1>13, <2>1, <2>2 DEF Inv, Made, Fits, engine
<1>15. InOrder'
  BY <1>1 DEF Inv, InOrder, engine
<1>16. Bounded'
  <2>1. \A c \in Corners : Coming(c)' = Coming(c)
    BY <1>13 DEF Coming
  <2>2. Waiting' = Waiting /\ Unsent' = Unsent /\ \A c : Serials(c)' = Serials(c)
    BY <1>1 DEF Waiting, Unsent, Serials, InFlight, audio
  <2>3. QED
    BY <1>1, <2>1, <2>2 DEF Inv, Bounded, engine
<1>17. QED
  BY <1>8, <1>9, <1>10, <1>11, <1>12, <1>14, <1>15, <1>16 DEF Inv

LEMMA RenderCornerStep ==
  ASSUME Inv, RenderCorner
  PROVE  Inv'
<1> DEFINE set == [corner |-> next, serial |-> job, size |-> sent[job].size,
                   bank |-> sources[next].bank, disk |-> sources[next].disk]
           n == Len(fromWorker)
<1>1. /\ work = "render"
      /\ fromWorker' = IF alive THEN Append(fromWorker, set) ELSE fromWorker
      /\ \/ LastCorner /\ work' = "receive" /\ next' = 0
         \/ ~ LastCorner /\ next' = next + 1 /\ work' = work
      /\ UNCHANGED <<params, alive, audio, sent, toWorker, job, loadedGen, sources, engine>>
  BY DEF RenderCorner
<1>2. /\ job \in DOMAIN sent /\ sent[job] \in Requests /\ next \in Corners
      /\ sent[job].gen = loadedGen
  BY <1>1, SentProperties DEF Inv, TypeOK, Loaded
<1>3. Answers(next, job)
  BY <1>1, <1>2 DEF Inv, Loaded
<1>4. sources[next] \in Sources
  BY <1>2, <1>3 DEF Answers, Inv, TypeOK
<1>5. set \in Sets
  BY <1>2, <1>4, SentProperties DEF Sources, Sets, Requests, Inv, TypeOK
<1>6. /\ set.corner = next /\ set.serial = job /\ set.size = sent[job].size
      /\ set.bank = sent[job].banks[next] /\ set.disk >= sent[job].asked
  BY <1>3 DEF Answers
<1>7. \/ fromWorker' = fromWorker /\ InFlight' = InFlight
      \/ /\ fromWorker' \in Seq(Sets)
         /\ DOMAIN fromWorker' = DOMAIN fromWorker \cup {n + 1}
         /\ DOMAIN fromWorker = 1 .. n /\ n \in Nat
         /\ \A i \in DOMAIN fromWorker : fromWorker'[i] = fromWorker[i]
         /\ fromWorker'[n + 1] = set
         /\ InFlight' = InFlight \cup {set}
  <2>1. CASE alive
    BY <1>1, <1>5, <2>1, SetSent DEF Inv
  <2>2. CASE ~ alive
    BY <1>1, <2>2 DEF InFlight
  <2>3. QED
    BY <2>1, <2>2
<1> HIDE DEF set, n
<1>8. /\ next \in Nat /\ 0 \in Corners
      /\ LastCorner => \A c \in Corners : c = next \/ c < next
      /\ ~ LastCorner => next + 1 \in Corners
      /\ \A c \in Corners : c \in Nat /\ (c >= next + 1 <=> c >= next /\ c # next)
  BY <1>2, ReconcileAssumption DEF Corners, LastCorner
<1>9. TypeOK'
  <2>1. next' \in Corners /\ work' \in {"receive", "render"}
    BY <1>1, <1>8
  <2>2. fromWorker' \in Seq(Sets)
    BY <1>7 DEF Inv, TypeOK
  <2>3. QED
    BY <1>1, <2>1, <2>2 DEF Inv, TypeOK, params, audio, engine
<1>10. Remembered'
  BY <1>1 DEF Inv, Remembered, Last, params, audio
<1>11. Generations'
  BY <1>1 DEF Inv, Generations
<1>12. Loaded'
  BY <1>1, <1>2 DEF Inv, Loaded, Answers, audio
<1>13. Newer'
  BY <1>1 DEF Inv, Newer
<1>14. \A c \in Corners : Due(c)' <=> Due(c) /\ c # next
  <2>1. Due(next)
    BY <1>1, <1>8 DEF Due
  <2>2. CASE LastCorner
    BY <1>1, <1>8, <2>1, <2>2 DEF Due
  <2>3. CASE ~ LastCorner
    <3>1. next' = next + 1 /\ work' = "render" /\ work = "render"
      BY <1>1, <2>3
    <3>2. \A c \in Corners : Due(c)' <=> c >= next + 1
      BY <3>1 DEF Due
    <3>3. QED
      BY <1>8, <3>1, <3>2 DEF Due
  <2>4. QED
    BY <2>2, <2>3
<1>15. Due(next)
  BY <1>1, <1>8 DEF Due
<1>16. ASSUME NEW s, s.corner \in Corners, Fits(s)
       PROVE  /\ s.serial \in 1 .. job
              /\ s.bank = sent[s.serial].banks[s.corner]
              /\ s.size = sent[s.serial].size
              /\ s.disk >= sent[s.serial].asked
              /\ Due(s.corner)' => s.serial < job
              /\ \A i \in DOMAIN toWorker : s.serial < toWorker[i]
  BY <1>14, <1>16 DEF Fits
<1>17. /\ set.serial \in 1 .. job
       /\ set.bank = sent[set.serial].banks[set.corner]
       /\ set.size = sent[set.serial].size
       /\ set.disk >= sent[set.serial].asked
       /\ \A c \in Corners : c = set.corner => ~ Due(c)'
       /\ \A i \in DOMAIN toWorker : set.serial < toWorker[i]
  <2>1. job \in 1 .. job
    BY SentProperties DEF Inv, TypeOK
  <2>2. QED
    BY <1>1, <1>2, <1>6, <1>14, <2>1 DEF Inv, Newer
<1>18. \A i \in DOMAIN fromWorker : fromWorker[i] \in Sets /\ fromWorker[i].corner \in Corners
  <2>1. \A i \in DOMAIN fromWorker : fromWorker[i] \in Sets
    BY LenProperties DEF Inv, TypeOK
  <2>2. QED
    BY <2>1 DEF Sets
<1>19. \A c \in Corners : installed[c] # None =>
                            installed[c].corner = c /\ Fits(installed[c])
  BY DEF Inv, Made
<1>20. \A i \in DOMAIN fromWorker : Fits(fromWorker[i])
  BY DEF Inv, Made
<1>21. Made'
  <2>1. ASSUME NEW c \in Corners, installed'[c] # None
        PROVE  installed'[c].corner = c /\ Fits(installed[c])'
    BY <1>1, <1>16, <1>19, <2>1 DEF Fits, engine
  <2>2. ASSUME NEW i \in DOMAIN fromWorker' PROVE Fits(fromWorker[i])'
    <3>1. CASE i \in DOMAIN fromWorker /\ fromWorker'[i] = fromWorker[i]
      BY <1>1, <1>16, <1>18, <1>20, <3>1 DEF Fits
    <3>2. CASE fromWorker'[i] = set
      <4>1. PICK c \in Corners : c = set.corner
        BY <1>2, <1>6
      <4>2. ~ Due(c)' /\ fromWorker'[i].corner = c
        BY <1>17, <3>2, <4>1
      <4>3. ~ Due(fromWorker[i].corner)'
        BY <4>2
      <4>4. QED
        BY <1>1, <1>17, <3>2, <4>3 DEF Fits
    <3>3. QED
      BY <1>7, <3>1, <3>2
  <2>3. QED
    BY <2>1, <2>2 DEF Made
<1>22. InOrder'
  <2>1. CASE fromWorker' = fromWorker
    BY <1>1, <2>1 DEF Inv, InOrder, engine
  <2>2. CASE fromWorker' # fromWorker
    <3>1. installed[next] # None => installed[next].serial < set.serial
      BY <1>2, <1>6, <1>15, <1>19 DEF Fits
    <3>2. \A i \in DOMAIN fromWorker : fromWorker[i].corner = next =>
                                         fromWorker[i].serial < set.serial
      BY <1>6, <1>15, <1>20 DEF Fits
    <3>3. ASSUME NEW i \in DOMAIN fromWorker'
          PROVE  LET c == fromWorker'[i].corner
                 IN  installed[c] # None => installed[c].serial < fromWorker'[i].serial
      <4>1. CASE i \in DOMAIN fromWorker /\ fromWorker'[i] = fromWorker[i]
        BY <4>1 DEF Inv, InOrder
      <4>2. CASE fromWorker'[i] = set
        BY <1>6, <3>1, <4>2
      <4>3. QED
        BY <1>7, <2>2, <4>1, <4>2
    <3>4. ASSUME NEW i \in DOMAIN fromWorker', NEW j \in DOMAIN fromWorker', i < j,
                 fromWorker'[i].corner = fromWorker'[j].corner
          PROVE  fromWorker'[i].serial < fromWorker'[j].serial
      <4>1. i \in DOMAIN fromWorker /\ fromWorker'[i] = fromWorker[i]
        BY <1>7, <2>2, <3>4
      <4>2. CASE j \in DOMAIN fromWorker /\ fromWorker'[j] = fromWorker[j]
        BY <3>4, <4>1, <4>2 DEF Inv, InOrder
      <4>3. CASE fromWorker'[j] = set
        BY <1>6, <3>2, <3>4, <4>1, <4>3
      <4>4. QED
        BY <1>7, <2>2, <4>2, <4>3
    <3>5. QED
      BY <1>1, <3>3, <3>4 DEF InOrder, engine
  <2>3. QED
    BY <2>1, <2>2
<1>23. Bounded'
  <2>1. SUFFICES ASSUME NEW c \in Corners
                 PROVE  /\ IsFiniteSet(Serials(c)')
                        /\ landed'[c] + Cardinality(Serials(c)') + Coming(c)'
                             + Waiting' + Unsent' <= 3
    BY DEF Bounded
  <2> DEFINE S == IF fromWorker' = fromWorker \/ c # next THEN Serials(c)
                                                         ELSE Serials(c) \cup {job}
             m == Cardinality(Serials(c))
             k == landed[c]
             coming == IF c = next THEN 0 ELSE Coming(c)
  <2>2. Serials(c)' = S
    BY <1>6, <1>7 DEF Serials
  <2>3. landed'[c] = k /\ Waiting' = Waiting /\ Unsent' = Unsent /\ Coming(c)' = coming
    BY <1>1, <1>14 DEF Waiting, Unsent, Coming, audio, engine
  <2>4. /\ k + m + Coming(c) + Waiting + Unsent <= 3 /\ IsFiniteSet(Serials(c))
        /\ k \in Nat /\ m \in Nat
    BY CountsType DEF Inv, Bounded
  <2>5. c = next => Coming(c) = 1
    BY <1>15 DEF Coming
  <2>6. /\ IsFiniteSet(S) /\ Cardinality(S) \in Nat
        /\ Cardinality(S) <= IF c = next THEN m + 1 ELSE m
    <3>1. CASE S = Serials(c)
      <4>1. IsFiniteSet(S) /\ Cardinality(S) = m
        BY <2>4, <3>1
      <4> HIDE DEF S, m
      <4>2. QED
        BY <2>4, <4>1
    <3>2. CASE c = next /\ S = Serials(c) \cup {job}
      <4>1. /\ IsFiniteSet(S)
            /\ Cardinality(S) = IF job \in Serials(c) THEN m ELSE m + 1
        BY <2>4, <3>2, FS_AddElement
      <4>2. QED
        BY <2>4, <3>2, <4>1
    <3>3. QED
      BY <3>1, <3>2
  <2> DEFINE n1 == Cardinality(S)
  <2>7. n1 \in Nat /\ n1 <= IF c = next THEN m + 1 ELSE m
    BY <2>6
  <2>8. landed'[c] + Cardinality(Serials(c)') + Coming(c)' + Waiting' + Unsent'
          = k + n1 + coming + Waiting + Unsent
    BY <2>2, <2>3
  <2> HIDE DEF n1, S, m, k
  <2>9. k + n1 + coming + Waiting + Unsent <= 3
    BY <2>4, <2>5, <2>7, CountsType
  <2>10. QED
    BY <2>2, <2>6, <2>8, <2>9
<1>24. QED
  BY <1>9, <1>10, <1>11, <1>12, <1>13, <1>21, <1>22, <1>23 DEF Inv

LEMMA ExitStep ==
  ASSUME Inv, Exit
  PROVE  Inv'
<1>1. /\ work = "receive" /\ work' = "gone"
      /\ UNCHANGED <<params, alive, audio, sent, toWorker, fromWorker, job, loadedGen,
                     sources, next, engine>>
  BY DEF Exit
<1>2. TypeOK'
  BY <1>1 DEF Inv, TypeOK, params, audio, engine
<1>3. Remembered' /\ Generations'
  BY <1>1 DEF Inv, Remembered, Last, Generations, params, audio
<1>4. Loaded' /\ Newer'
  BY <1>1 DEF Inv, Loaded, Answers, Newer, audio
<1>5. Made' /\ InOrder'
  BY <1>1 DEF Inv, Made, Fits, Due, InOrder, engine
<1>6. Bounded'
  BY <1>1 DEF Inv, Bounded, Serials, InFlight, Coming, Due, Waiting, Unsent, audio, engine
<1>7. QED
  BY <1>2, <1>3, <1>4, <1>5, <1>6 DEF Inv

LEMMA NextInv == Inv /\ [Next]_vars => Inv'
<1> SUFFICES ASSUME Inv, [Next]_vars PROVE Inv'
  OBVIOUS
<1>1. CASE Environment
  BY <1>1, EnvironmentStep
<1>2. CASE Process
  BY <1>2, BeginBlockStep, SendSyncStep, DeferSyncStep, AcceptStep, EndBlockStep DEF Process
<1>3. CASE Deactivate
  BY <1>3, DeactivateStep
<1>4. CASE Worker
  BY <1>4, ReceiveStep, LoadCornerStep, RenderCornerStep, ExitStep DEF Worker
<1>5. CASE UNCHANGED vars
  <2>1. UNCHANGED <<params, alive, audio, sent, toWorker, fromWorker, worker, engine>>
    BY <1>5 DEF vars
  <2>2. TypeOK' /\ Remembered'
    BY <2>1 DEF Inv, TypeOK, Remembered, Last, params, audio, worker, engine
  <2>3. (Generations /\ Loaded /\ Newer /\ Made /\ InOrder)'
    BY <2>1, Elsewhere DEF audio, engine
  <2>4. Bounded'
    <3>1. Waiting' = Waiting /\ Unsent' = Unsent
      BY <2>1 DEF Waiting, Unsent, audio
    <3>2. \A c \in Corners : Coming(c)' = Coming(c)
      BY <2>1 DEF Coming, Due, worker
    <3>3. \A c \in Corners : Serials(c)' = Serials(c) /\ landed'[c] = landed[c]
      BY <2>1 DEF Serials, InFlight, engine
    <3>4. QED
      BY <3>1, <3>2, <3>3 DEF Inv, Bounded
  <2>5. QED
    BY <2>2, <2>3, <2>4 DEF Inv
<1>6. QED
  BY <1>1, <1>2, <1>3, <1>4, <1>5 DEF Next

LEMMA Invariance == Spec => []Inv
BY InitInv, NextInv, PTL DEF Spec

-----------------------------------------------------------------------------
(***************************************************************************)
(* Every set that is installed, or on its way, has the bank, the size and  *)
(* files new enough for the Sync it was made for, however many Syncs were  *)
(* coalesced and however often the sources were not read again             *)
(* (worker_main, the loaded_gen check; process, load_gen).                 *)
(***************************************************************************)
THEOREM SetsAnswerTheirSync == Spec => []SetsMatchRequest
<1>1. Inv => SetsMatchRequest
  <2> SUFFICES ASSUME Inv, NEW s \in Arrived \cup InFlight
               PROVE  /\ s.bank = sent[s.serial].banks[s.corner]
                      /\ s.size = sent[s.serial].size
                      /\ s.disk >= sent[s.serial].asked
    BY DEF SetsMatchRequest
  <2>1. Fits(s)
    BY DEF Inv, Made, Arrived, InFlight
  <2>2. QED
    BY <2>1 DEF Fits
<1>2. QED
  BY <1>1, Invariance, PTL

(***************************************************************************)
(* Between two drains a corner is handed three sets at most, whatever the  *)
(* worker and the parameters do: RETIRED_SLOTS is made for that many       *)
(* (process, the try_recv loop; worker_main, the coalescing).              *)
(***************************************************************************)
THEOREM ThreeSetsPerDrain == Spec => []SetsPerDrain
<1>1. Inv => SetsPerDrain
  <2> SUFFICES ASSUME Inv, NEW c \in Corners PROVE landed[c] <= 3
    BY DEF SetsPerDrain
  <2> DEFINE m == Cardinality(Serials(c))
  <2>1. m \in Nat /\ landed[c] + m + Coming(c) + Waiting + Unsent <= 3
    BY CountsType DEF Inv, Bounded
  <2> HIDE DEF m
  <2>2. QED
    BY <2>1, CountsType
<1>2. QED
  BY <1>1, Invariance, PTL

(***************************************************************************)
(* The protocol implements LatestWins but for its fairness: sending a Sync *)
(* is a request, handing a set to the engine shows a newer one, and every  *)
(* other step changes nothing of what LatestWins speaks of.                *)
(***************************************************************************)
THEOREM ProtocolImplementsLatestWins == Spec => Promise!Safety
<1>1. Init => Promise!Init
  <2> SUFFICES ASSUME Init PROVE Promise!Init
    OBVIOUS
  <2>1. Len(sent) = 1 /\ alive = TRUE /\ \A c \in Corners : installed[c] = None
    BY DEF Init
  <2>2. [c \in Corners |-> Serial(installed[c])] = [c \in Corners |-> 0]
    BY <2>1 DEF Serial
  <2>3. QED
    BY <2>1, <2>2 DEF Promise!Init
<1>2. Inv /\ [Next]_vars => [Promise!Next]_(Promise!vars)
  <2> SUFFICES ASSUME Inv, [Next]_vars PROVE Promise!Next \/ UNCHANGED Promise!vars
    OBVIOUS
  <2>1. CASE UNCHANGED <<sent, installed, alive>>
    BY <2>1 DEF Promise!vars
  <2>2. CASE SendSync
    <3>1. /\ alive /\ UNCHANGED <<alive, installed>>
          /\ \E r : sent' = Append(sent, r)
      BY <2>2 DEF SendSync, engine
    <3>2. Len(sent') = Len(sent) + 1
      BY <3>1 DEF Inv, TypeOK
    <3>3. Promise!Request
      BY <3>1, <3>2 DEF Promise!Request
    <3>4. QED
      BY <3>3 DEF Promise!Next
  <2>3. CASE Accept
    <3> DEFINE set == Head(fromWorker)
               n == set.serial
               c0 == set.corner
    <3>1. /\ alive /\ fromWorker # <<>> /\ installed' = [installed EXCEPT ![c0] = set]
          /\ UNCHANGED <<sent, alive>>
      BY <2>3 DEF Accept
    <3>2. set \in Sets /\ set = fromWorker[1] /\ 1 \in DOMAIN fromWorker
      <4>1. fromWorker' = Tail(fromWorker)
        BY <2>3 DEF Accept
      <4>2. QED
        BY <3>1, <4>1, SetReceived DEF Inv
    <3>3. c0 \in Corners /\ n \in Nat /\ set # None /\ Fits(set)
      BY <3>2, NoneAssumption DEF Sets, Inv, Made
    <3> HIDE DEF set
    <3>4. n <= Len(sent) /\ Len(sent) \in Nat /\ 0 < n
      BY <3>3, SentProperties DEF Fits, Inv, TypeOK
    <3>5. Serial(installed[c0]) < n /\ Serial(installed[c0]) \in Nat
      <4>1. installed[c0] # None => installed[c0] \in Sets /\ installed[c0].serial < n
        BY <3>2, <3>3 DEF Inv, InOrder, TypeOK
      <4>2. QED
        BY <3>4, <4>1 DEF Serial, Sets
    <3>6. [c \in Corners |-> Serial(installed[c])]'
            = [[c \in Corners |-> Serial(installed[c])] EXCEPT ![c0] = n]
      <4>1. \A c \in Corners : installed'[c] = IF c = c0 THEN set ELSE installed[c]
        BY <3>1, <3>3 DEF Inv, TypeOK
      <4>2. \A c \in Corners : Serial(installed[c])' =
                                 IF c = c0 THEN n ELSE Serial(installed[c])
        BY <3>3, <4>1 DEF Serial
      <4>3. QED
        BY <3>3, <4>2
    <3>7. n \in [c \in Corners |-> Serial(installed[c])][c0] + 1 .. Len(sent)
      BY <3>3, <3>4, <3>5
    <3>8. Promise!Show(c0)
      BY <3>1, <3>3, <3>6, <3>7 DEF Promise!Show
    <3>9. QED
      BY <3>3, <3>8 DEF Promise!Next
  <2>4. CASE Deactivate
    <3>1. alive /\ alive' = FALSE /\ UNCHANGED <<sent, installed>>
      BY <2>4 DEF Deactivate, engine
    <3>2. Promise!Close
      BY <3>1 DEF Promise!Close
    <3>3. QED
      BY <3>2 DEF Promise!Next
  <2>5. CASE Environment \/ UNCHANGED vars
    BY <2>1, <2>5 DEF Environment, SetBank, SetSize, SwitchReload, WriteFolder, Change,
                      vars, engine
  <2>6. CASE BeginBlock \/ DeferSync \/ \E frames \in BlockSizes : EndBlock(frames)
    BY <2>1, <2>6 DEF BeginBlock, DeferSync, EndBlock, engine
  <2>7. CASE Worker
    BY <2>1, <2>7 DEF Worker, Receive, LoadCorner, RenderCorner, Exit, engine
  <2>8. QED
    BY <2>2, <2>3, <2>4, <2>5, <2>6, <2>7 DEF Next, Process
<1>3. QED
  BY <1>1, <1>2, Invariance, PTL DEF Spec, Promise!Safety

-----------------------------------------------------------------------------
(***************************************************************************)
(* What Settles needs besides fairness: the protocol cannot come to rest   *)
(* short of the parameters.                                                *)
(***************************************************************************)

\* Nothing is on its way between the threads of an active plugin.
AtRest == alive /\ work = "receive" /\ toWorker = <<>> /\ fromWorker = <<>>

\* No later block will send a Sync, unless the reload switch is flipped.
NothingDue == ~ dirtyLoad /\ banks = synced.banks /\ ~ Far(size, synced.size)

\* At rest with nothing due, every corner has a set, of the wanted bank, of
\* the wanted size up to the tolerance, and of files at least as new as the
\* last load noticed.
RestsOnTheWanted ==
  AtRest /\ NothingDue =>
    \A c \in Corners :
      /\ installed[c] # None
      /\ installed[c].bank = banks[c]
      /\ ~ Far(installed[c].size, size)
      /\ installed[c].disk >= noticed

\* The newest Sync waits in the channel, or is the worker's.
Newest == IF toWorker = <<>> THEN job = Len(sent) ELSE toWorker[Len(toWorker)] = Len(sent)

\* The worker has begun to serve Syncs; it has when the channel is empty.
Started == loadedGen # None \/ work # "receive"

\* What the worker has made for its Sync is on its way or installed.
Delivered(c) ==
  \/ \E i \in DOMAIN fromWorker : fromWorker[i].corner = c /\ fromWorker[i].serial = job
  \/ installed[c] # None /\ installed[c].serial = job

RestInv ==
  /\ Newest /\ synced.size = Last.size
  /\ toWorker = <<>> => Started
  /\ alive /\ Started => \A c \in Corners : ~ Due(c) => Delivered(c)

LEMMA RestInit == Init => RestInv
<1> SUFFICES ASSUME Init PROVE RestInv
  OBVIOUS
<1>1. toWorker = <<1>> /\ Len(sent) = 1 /\ sent[1].size = size /\ ~ Started
  BY DEF Init, Request, Started
<1>2. toWorker # <<>> /\ Len(toWorker) = 1 /\ toWorker[1] = 1
  BY <1>1
<1>3. synced.size = size
  BY DEF Init
<1>4. QED
  BY <1>1, <1>2, <1>3 DEF RestInv, Newest, Last

\* Steps that leave the channels, the worker and the engine's sets alone.
LEMMA RestElsewhere ==
  ASSUME RestInv, UNCHANGED <<synced, sent, toWorker, fromWorker, worker, installed>>,
         alive' => alive
  PROVE  RestInv'
BY DEF RestInv, Newest, Last, Started, Due, Delivered, worker

LEMMA RestSendSync ==
  ASSUME Inv, RestInv, SendSync
  PROVE  RestInv'
<1> DEFINE r == Request(banks, snapSize, loadGen', Asked)
           n == Len(sent)
<1>1. /\ synced' = [banks |-> banks, size |-> snapSize] /\ sent' = Append(sent, r)
      /\ toWorker' = Append(toWorker, Len(sent'))
      /\ UNCHANGED <<alive, fromWorker, worker, installed>>
  BY DEF SendSync, engine
<1>2. /\ Len(sent') = n + 1 /\ sent'[n + 1] = r
      /\ Len(toWorker) \in Nat /\ Len(toWorker') = Len(toWorker) + 1
      /\ toWorker'[Len(toWorker')] = n + 1 /\ toWorker' # <<>>
  <2>1. n \in Nat /\ Len(toWorker) \in Nat
    BY LenProperties DEF Inv, TypeOK
  <2>2. Len(sent') = n + 1 /\ sent'[n + 1] = r
    BY <1>1, <2>1, AppendProperties DEF Inv, TypeOK
  <2>3. n + 1 \in Nat /\ toWorker \in Seq(Nat)
    BY <2>1 DEF Inv, TypeOK
  <2>4. /\ Append(toWorker, n + 1) # <<>>
        /\ Len(Append(toWorker, n + 1)) = Len(toWorker) + 1
        /\ Append(toWorker, n + 1)[Len(toWorker) + 1] = n + 1
    BY <2>3, AppendProperties
  <2> HIDE DEF r, n
  <2>5. toWorker' = Append(toWorker, n + 1)
    BY <1>1, <2>2
  <2>6. QED
    BY <2>1, <2>2, <2>4, <2>5
<1>3. r.size = snapSize
  BY DEF Request
<1>4. Newest' /\ synced'.size = Last'.size
  <2>1. Last' = r
    BY <1>2 DEF Last
  <2>2. synced'.size = snapSize
    BY <1>1
  <2>3. Newest'
    BY <1>2 DEF Newest
  <2>4. QED
    BY <1>3, <2>1, <2>2, <2>3
<1>5. alive' /\ Started' => \A c \in Corners : ~ Due(c)' => Delivered(c)'
  BY <1>1 DEF RestInv, Started, Due, Delivered, worker
<1>6. QED
  BY <1>2, <1>4, <1>5 DEF RestInv

\* A set handed to the engine is the corner's newest so far.
LEMMA RestAccept ==
  ASSUME Inv, RestInv, Accept
  PROVE  RestInv'
<1> DEFINE set == Head(fromWorker)
           c0 == set.corner
<1>1. /\ installed' = [installed EXCEPT ![c0] = set]
      /\ fromWorker # <<>> /\ fromWorker' = Tail(fromWorker)
      /\ UNCHANGED <<alive, synced, sent, toWorker, worker>>
  BY DEF Accept, audio
<1>2. /\ set \in Sets /\ set = fromWorker[1] /\ 1 \in DOMAIN fromWorker
      /\ InFlight = InFlight' \cup {set}
  BY <1>1, SetReceived DEF Inv
<1>3. c0 \in Corners /\ set # None /\ set.serial \in Nat
  BY <1>2, NoneAssumption DEF Sets
<1>4. Fits(set) /\ (installed[c0] # None => installed[c0].serial < set.serial)
  BY <1>2 DEF Inv, Made, InOrder
<1> HIDE DEF set, c0
<1>5. \A c \in Corners : installed'[c] = IF c = c0 THEN set ELSE installed[c]
  BY <1>1, <1>3 DEF Inv, TypeOK
<1>6. ASSUME NEW c \in Corners, Delivered(c) PROVE Delivered(c)'
  <2>1. CASE \E i \in DOMAIN fromWorker : fromWorker[i].corner = c /\ fromWorker[i].serial = job
    <3>1. PICK s \in InFlight : s.corner = c /\ s.serial = job
      BY <2>1 DEF InFlight
    <3>2. CASE s = set
      BY <1>1, <1>3, <1>5, <3>1, <3>2 DEF Delivered, c0, worker
    <3>3. CASE s \in InFlight'
      BY <1>1, <3>1, <3>3 DEF Delivered, InFlight, worker
    <3>4. QED
      BY <1>2, <3>1, <3>2, <3>3
  <2>2. CASE installed[c] # None /\ installed[c].serial = job
    <3>1. c # c0
      <4>1. SUFFICES ASSUME c = c0 PROVE FALSE
        OBVIOUS
      <4>2. job < set.serial /\ set.serial \in 1 .. job /\ job \in Nat
        BY <1>4, <2>2, <4>1, SentProperties DEF Fits, Inv, TypeOK
      <4>3. QED
        BY <4>2
    <3>2. QED
      BY <1>1, <1>5, <2>2, <3>1 DEF Delivered, worker
  <2>3. QED
    BY <1>6, <2>1, <2>2 DEF Delivered
<1>7. \A c \in Corners : Due(c)' <=> Due(c)
  BY <1>1 DEF Due, worker
<1>8. QED
  BY <1>1, <1>6, <1>7 DEF RestInv, Newest, Last, Started, worker

LEMMA RestReceive ==
  ASSUME Inv, RestInv, Receive
  PROVE  RestInv'
<1>1. /\ toWorker # <<>> /\ job' = toWorker[Len(toWorker)] /\ toWorker' = <<>>
      /\ work' \in {"load", "render"} /\ next' = 0
      /\ UNCHANGED <<synced, sent, installed>>
  BY DEF Receive, Coalesced, audio, engine
<1>2. \A c \in Corners : Due(c)'
  BY <1>1 DEF Due, Corners
<1>3. QED
  BY <1>1, <1>2 DEF RestInv, Newest, Last, Started

LEMMA RestLoadCorner ==
  ASSUME Inv, RestInv, LoadCorner
  PROVE  RestInv'
<1>1. /\ work = "load" /\ (work' = "load" \/ (work' = "render" /\ next' = 0))
      /\ UNCHANGED <<synced, sent, toWorker, job>>
  BY DEF LoadCorner, audio
<1>2. \A c \in Corners : Due(c)'
  BY <1>1 DEF Due, Corners
<1>3. QED
  BY <1>1, <1>2 DEF RestInv, Newest, Last, Started

LEMMA RestRenderCorner ==
  ASSUME Inv, RestInv, RenderCorner
  PROVE  RestInv'
<1> DEFINE set == [corner |-> next, serial |-> job, size |-> sent[job].size,
                   bank |-> sources[next].bank, disk |-> sources[next].disk]
           n == Len(fromWorker)
<1>1. /\ work = "render"
      /\ fromWorker' = IF alive THEN Append(fromWorker, set) ELSE fromWorker
      /\ \/ LastCorner /\ work' = "receive" /\ next' = 0
         \/ ~ LastCorner /\ next' = next + 1 /\ work' = work
      /\ UNCHANGED <<alive, synced, sent, toWorker, job, loadedGen, installed>>
  BY DEF RenderCorner, audio, engine
<1>2. set.corner = next /\ set.serial = job
  OBVIOUS
<1>3. alive => /\ \A i \in DOMAIN fromWorker : i \in DOMAIN fromWorker' /\ fromWorker'[i] = fromWorker[i]
               /\ n + 1 \in DOMAIN fromWorker' /\ fromWorker'[n + 1] = set
  <2>1. fromWorker \in Seq(Sets) /\ n \in Nat /\ DOMAIN fromWorker = 1 .. n
    BY LenProperties DEF Inv, TypeOK
  <2> HIDE DEF set
  <2>2. /\ Len(Append(fromWorker, set)) = n + 1
        /\ \A i \in 1 .. n : Append(fromWorker, set)[i] = fromWorker[i]
        /\ Append(fromWorker, set)[n + 1] = set
        /\ DOMAIN Append(fromWorker, set) = 1 .. n + 1
    BY <2>1
  <2>3. QED
    BY <1>1, <2>1, <2>2
<1> HIDE DEF set, n
<1>4. Started /\ Started'
  <2>1. loadedGen # None
    <3>1. sent[job].gen = loadedGen /\ sent[job] \in Requests
      BY <1>1, SentProperties DEF Inv, Loaded, TypeOK
    <3>2. QED
      BY <3>1, NoneAssumption DEF Requests
  <2>2. QED
    BY <1>1, <2>1 DEF Started
<1>5. \A c \in Corners : ~ Due(c)' => ~ Due(c) \/ c = next
  <2>1. next \in Corners
    BY DEF Inv, TypeOK
  <2>2. CASE LastCorner
    BY <1>1, <2>1, <2>2 DEF Due, LastCorner, Corners
  <2>3. CASE ~ LastCorner
    BY <1>1, <2>1, <2>3 DEF Due, Corners
  <2>4. QED
    BY <2>2, <2>3
<1>6. ASSUME alive, NEW c \in Corners, ~ Due(c)' PROVE Delivered(c)'
  <2>1. CASE c = next
    BY <1>1, <1>2, <1>3, <1>6, <2>1 DEF Delivered
  <2>2. CASE ~ Due(c)
    <3>1. Delivered(c)
      BY <1>4, <1>6, <2>2 DEF RestInv
    <3>2. QED
      BY <1>1, <1>3, <1>6, <3>1 DEF Delivered
  <2>3. QED
    BY <1>5, <1>6, <2>1, <2>2
<1>7. QED
  BY <1>1, <1>4, <1>6 DEF RestInv, Newest, Last

LEMMA RestStep == Inv /\ RestInv /\ [Next]_vars => RestInv'
<1> SUFFICES ASSUME Inv, RestInv, [Next]_vars PROVE RestInv'
  OBVIOUS
<1>1. CASE Environment \/ BeginBlock \/ DeferSync \/ UNCHANGED vars
  BY <1>1, RestElsewhere
     DEF Environment, SetBank, SetSize, SwitchReload, WriteFolder, Change, BeginBlock,
         DeferSync, vars, audio, engine
<1>2. CASE \E frames \in BlockSizes : EndBlock(frames)
  BY <1>2, RestElsewhere DEF EndBlock
<1>3. CASE Deactivate
  BY <1>3 DEF Deactivate, RestInv, Newest, Last, Started, audio, worker, engine
<1>4. CASE Exit
  <2>1. /\ ~ alive /\ toWorker = <<>> /\ work' = "gone"
        /\ UNCHANGED <<alive, synced, sent, toWorker, job, loadedGen>>
    BY <1>4 DEF Exit, Disconnected, audio
  <2>2. QED
    BY <2>1 DEF RestInv, Newest, Last, Started
<1>5. QED
  BY <1>1, <1>2, <1>3, <1>4, RestSendSync, RestAccept, RestReceive, RestLoadCorner,
     RestRenderCorner DEF Next, Process, Worker

(***************************************************************************)
(* The protocol never comes to rest on anything but what the parameters    *)
(* want: no coalesced, debounced or skipped Sync leaves a corner behind    *)
(* (process, worker_main: "deferred, never dropped").  That it does come   *)
(* to rest is Settles, which TLC checks.                                   *)
(***************************************************************************)
THEOREM NothingLeftBehind == Spec => []RestsOnTheWanted
<1>1. Inv /\ RestInv => RestsOnTheWanted
  <2> SUFFICES ASSUME Inv, RestInv, AtRest, NothingDue, NEW c \in Corners
               PROVE  /\ installed[c] # None
                      /\ installed[c].bank = banks[c]
                      /\ ~ Far(installed[c].size, size)
                      /\ installed[c].disk >= noticed
    BY DEF RestsOnTheWanted
  <2>1. job = Len(sent) /\ Started /\ alive /\ ~ Due(c)
    BY DEF RestInv, Newest, AtRest, Due
  <2>2. DOMAIN fromWorker = {}
    BY EmptySeq, LenProperties DEF AtRest
  <2>3. installed[c] # None /\ installed[c].serial = Len(sent)
    BY <2>1, <2>2 DEF RestInv, Delivered
  <2>4. Fits(installed[c]) /\ installed[c].corner = c
    BY <2>3 DEF Inv, Made
  <2>5. /\ installed[c].bank = Last.banks[c] /\ installed[c].size = Last.size
        /\ installed[c].disk >= Last.asked
    BY <2>3, <2>4 DEF Fits, Last
  <2>6. Last.banks = banks /\ Last.asked = noticed
    BY DEF NothingDue, Inv, Remembered
  <2>7. Last.size = synced.size /\ ~ Far(size, synced.size)
    BY DEF RestInv, NothingDue
  <2>8. ~ Far(synced.size, size)
    BY <2>7 DEF Far
  <2>9. QED
    BY <2>3, <2>5, <2>6, <2>7, <2>8
<1>2. QED
  BY <1>1, RestInit, RestStep, Invariance, PTL DEF Spec
=============================================================================
