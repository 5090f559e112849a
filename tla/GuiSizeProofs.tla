----------------------------- MODULE GuiSizeProofs -----------------------------
(***************************************************************************)
(* Theorems about GuiSize for any sizes, limits, cursors and drags: where  *)
(* the three sizes of the editor agree.                                    *)
(***************************************************************************)
EXTENDS GuiSize, SequenceTheorems, TLAPS

Requests == [size : Min .. Max, logical : Int, scale : Scales, confirmed : BOOLEAN,
             live : BOOLEAN]
Grips == [id : Nat, pointer : Pointers, width : Logicals]

\* Bounds and BoundsOf, in the host h.
ExtentOf(h, l, s) == IF h.os = "linux" THEN Rounded(l * s, Units) ELSE l
Extent(h, w, s) ==
  ExtentOf(h, IF h.points THEN w * LogicalUnit ELSE w * (Units \div s), s)

TypeOK ==
  /\ host \in Hosts
  /\ accepted \in Min .. Max
  /\ scale \in Scales
  /\ session \in Windows \cup {None}
  /\ runtime \in Views \cup {None}
  /\ resync \in Seq(Min .. Max)
  /\ asking \in Requests \cup {None}
  /\ drag \in Grips \cup {None} /\ grip \in Grips \cup {None}
  /\ drags \in Nat
  /\ owed \in {"told", "silent", "lost"}

\* What there is of an editor: a runtime is in a session, at its scale, and no
\* other one is being made; only Cubase's are resized again; a request whose
\* view is still open was asked by the runtime there is.
Standing ==
  /\ making # "no" => session # None
  /\ runtime # None => /\ session # None /\ making = "no"
                       /\ runtime.scale = session.scale
  /\ resync # <<>> => runtime # None /\ host.cubase
  /\ asking # None /\ asking.live => runtime # None

\* A request knows whether the host has spoken since, and asks for a size
\* that has the bounds it would give the view.
Asked ==
  asking # None => /\ asking.confirmed = spoken
                   /\ ExtentOf(host, asking.logical, asking.scale)
                        = Extent(host, asking.size, asking.scale)

\* A runtime that was told the accepted size has it, or is resized to it last;
\* one that was not was laid out for it.
Laid ==
  runtime # None =>
    /\ owed = "told" =>
         /\ shown = Extent(host, runtime.size, runtime.scale)
         /\ IF resync = <<>> THEN runtime.size = accepted
                             ELSE resync[Len(resync)] = accepted
    /\ owed = "silent" => shown = Extent(host, accepted, session.scale)

\* Drags are numbered, and the frontend's has not ended.
Dragging ==
  /\ late \subseteq 1 .. drags
  /\ grip # None => grip.id \in 1 .. drags \ late
  /\ DragKeepsItsStart

Inv == TypeOK /\ Standing /\ Asked /\ Laid /\ Dragging /\ HostHasTheLastWord

-----------------------------------------------------------------------------
LEMMA ClampType ==
  /\ \A w \in Int : Clamp(w) \in Min .. Max
  /\ \A w \in Min .. Max : Clamp(w) = w /\ w \in Nat
BY GuiSizeAssumption DEF Clamp

LEMMA ExtentIs ==
  /\ \A l, s : BoundsOf(l, s) = ExtentOf(host, l, s)
  /\ \A w, s : Bounds(w, s) = Extent(host, w, s)
BY DEF Bounds, BoundsOf, Logical, ExtentOf, Extent

LEMMA UnitsType ==
  /\ LogicalUnit \in Nat \ {0} /\ Units \in Nat \ {0}
  /\ \A s \in Scales : s \in Nat \ {0} /\ Units \div s \in Nat /\ (Units \div s) * s = Units
<1>1. LogicalUnit \in Nat \ {0} /\ Units \in Nat \ {0}
  BY GuiSizeAssumption DEF Units
<1>2. ASSUME NEW s \in Scales
      PROVE  s \in Nat \ {0} /\ Units \div s \in Nat /\ (Units \div s) * s = Units
  <2>1. s \in Nat \ {0} /\ Units % s = 0
    BY GuiSizeAssumption DEF Units
  <2>2. QED
    BY <1>1, <2>1
<1>3. QED
  BY <1>1, <1>2

\* Rounding is exact on whole numbers.
LEMMA RoundedType ==
  ASSUME NEW d \in Nat \ {0}
  PROVE  /\ \A n \in Int : Rounded(n, d) \in Int
         /\ \A w \in Nat : Rounded(w * d, d) = w
<1>1. ASSUME NEW n \in Int PROVE Rounded(n, d) \in Int
  BY DEF Rounded
<1>2. ASSUME NEW w \in Nat PROVE Rounded(w * d, d) = w
  BY DEF Rounded
<1>3. QED
  BY <1>1, <1>2

\* A size of the host survives the way to the frontend and back, at any scale.
LEMMA RoundTrip ==
  ASSUME NEW w \in Nat, NEW s \in Scales
  PROVE  Logical(w, s) \in Int /\ Gui(Logical(w, s), s) = w
<1>1. CASE host.points
  <2>1. Logical(w, s) = w * LogicalUnit /\ w * LogicalUnit \in Int
    BY <1>1, UnitsType DEF Logical
  <2>2. QED
    BY <1>1, <2>1, UnitsType, RoundedType DEF Gui
<1>2. CASE ~ host.points
  <2> DEFINE q == Units \div s
  <2>1. q \in Nat /\ s \in Nat /\ q * s = Units
    BY UnitsType
  <2>2. Logical(w, s) = w * q
    BY <1>2 DEF Logical
  <2> HIDE DEF q
  <2>3. w * q \in Int /\ (w * q) * s = w * (q * s)
    BY <2>1
  <2>4. Rounded(w * Units, Units) = w
    BY UnitsType, RoundedType
  <2>5. QED
    BY <1>2, <2>1, <2>2, <2>3, <2>4 DEF Gui
<1>3. QED
  BY <1>1, <1>2

LEMMA GuiType ==
  ASSUME NEW l \in Int, NEW s \in Scales
  PROVE  Gui(l, s) \in Int
<1>1. l * s \in Int
  BY UnitsType
<1>2. QED
  BY <1>1, UnitsType, RoundedType DEF Gui

\* A request is for a size within the limits, and its view is laid out as the
\* size will be.
LEMMA AskingType ==
  ASSUME NEW l \in Int, scale \in Scales
  PROVE  LET a == Asking(l) IN
         /\ a \in Requests /\ ~ a.confirmed /\ a.live
         /\ ExtentOf(host, a.logical, a.scale) = Extent(host, a.size, a.scale)
<1> DEFINE w == Clamp(Gui(l, scale))
           m == Logical(w, scale)
<1>1. w \in Min .. Max /\ w \in Nat
  BY GuiType, ClampType
<1>2. m \in Int /\ Gui(m, scale) = w
  BY <1>1, RoundTrip
<1>3. ClampLogical(l, scale) = m
  BY DEF ClampLogical
<1>4. ExtentOf(host, m, scale) = Extent(host, w, scale)
  BY ExtentIs DEF Bounds
<1> HIDE DEF w, m
<1>5. Asking(l) = [size |-> w, logical |-> m, scale |-> scale, confirmed |-> FALSE, live |-> TRUE]
  BY <1>2, <1>3 DEF Asking
<1>6. QED
  BY <1>1, <1>2, <1>4, <1>5 DEF Requests

LEMMA ResolvedType ==
  ASSUME TypeOK, NEW p \in Pointers \cup {None}, NEW l \in Logicals, NEW id
  PROVE  Resolved(id, p, l) \in Int
<1>1. l \in Int
  BY GuiSizeAssumption
<1>2. CASE drag # None /\ p # None
  <2>1. drag.width \in Int /\ drag.pointer \in Int /\ p \in Int
    <3>1. drag \in Grips /\ p \in Pointers
      BY <1>2 DEF TypeOK
    <3>2. drag.width \in Logicals /\ drag.pointer \in Pointers
      BY <3>1 DEF Grips
    <3>3. (\A x \in Pointers : x \in Int) /\ (\A x \in Logicals : x \in Int)
      BY GuiSizeAssumption
    <3>4. QED
      BY <3>1, <3>2, <3>3, Zenon
  <2>2. drag.width + (p - drag.pointer) \in Int
    BY <2>1
  <2>3. QED
    BY <1>1, <2>2 DEF Resolved
<1>3. QED
  BY <1>1, <1>2 DEF Resolved

-----------------------------------------------------------------------------
LEMMA InitInv == Init => Inv
<1> SUFFICES ASSUME Init PROVE Inv
  OBVIOUS
<1>1. accepted \in Min .. Max
  BY ClampType, GuiSizeAssumption DEF Init
<1>2. resync = <<>> /\ resync \in Seq(Min .. Max)
  BY EmptySeq DEF Init
<1>3. TypeOK
  BY <1>1, <1>2, GuiSizeAssumption DEF Init, TypeOK
<1>4. Standing /\ Asked /\ Laid /\ HostHasTheLastWord
  BY DEF Init, Standing, Asked, Laid, HostHasTheLastWord
<1>5. Dragging
  BY DEF Init, Dragging, DragKeepsItsStart
<1>6. QED
  BY <1>3, <1>4, <1>5 DEF Inv

\* A request whose view is closed knows what it knew.
LEMMA ClosedStep ==
  ASSUME Inv, asking' = ViewClosed, UNCHANGED <<host, spoken>>
  PROVE  asking' \in Requests \cup {None} /\ ~(asking' # None /\ asking'.live) /\ Asked'
<1>1. CASE asking = None
  BY <1>1 DEF ViewClosed, Asked
<1>2. CASE asking # None
  <2>1. /\ asking \in Requests /\ asking' = [asking EXCEPT !.live = FALSE]
    BY <1>2 DEF Inv, TypeOK, ViewClosed
  <2>2. /\ asking' \in Requests /\ asking'.live = FALSE /\ asking'.confirmed = asking.confirmed
        /\ asking'.logical = asking.logical /\ asking'.scale = asking.scale
        /\ asking'.size = asking.size
    BY <2>1 DEF Requests
  <2>3. QED
    BY <1>2, <2>2 DEF Inv, Asked
<1>3. QED
  BY <1>1, <1>2

\* The editor goes, or its view does: everything of the view goes with it.
LEMMA GoneStep ==
  ASSUME Inv, Gone, FrontendGone, asking' = ViewClosed,
         session' \in Windows \cup {None}, making' # "no" => session' # None,
         UNCHANGED <<host, accepted, scale, ghosts>>
  PROVE  Inv'
<1>1. asking' \in Requests \cup {None} /\ ~(asking' # None /\ asking'.live) /\ Asked'
  BY ClosedStep DEF ghosts
<1>2. /\ runtime' = None /\ resync' = <<>> /\ resync' \in Seq(Min .. Max)
      /\ drag' = None /\ grip' = None /\ late' = {} /\ drags' = drags
      /\ UNCHANGED <<settled, owed>>
  BY EmptySeq DEF Gone, FrontendGone, ghosts
<1>3. TypeOK'
  BY <1>1, <1>2 DEF Inv, TypeOK
<1>4. Standing' /\ Laid' /\ Dragging' /\ HostHasTheLastWord'
  BY <1>1, <1>2 DEF Inv, Standing, Laid, Dragging, DragKeepsItsStart, HostHasTheLastWord
<1>5. QED
  BY <1>1, <1>3, <1>4 DEF Inv

LEMMA CreateStep ==
  ASSUME Inv, Create
  PROVE  Inv'
<1>1. session' \in Windows
  BY DEF Inv, TypeOK, Create, Windows
<1>2. QED
  BY <1>1, GoneStep DEF Create

LEMMA DestroyStep ==
  ASSUME Inv, Destroy
  PROVE  Inv'
BY GoneStep DEF Destroy

LEMMA SetParentStep ==
  ASSUME Inv, SetParent
  PROVE  Inv'
<1>1. session \in Windows
  BY DEF Inv, TypeOK, SetParent
<1>2. session' \in Windows
  BY <1>1 DEF SetParent, Corrected, Windows
<1>3. QED
  BY <1>2, NoneAssumption, GoneStep DEF SetParent

\* The scale of a view moves with its session's.
LEMMA SetScaleStep ==
  ASSUME Inv, NEW requested \in Scales, SetScale(requested)
  PROVE  Inv'
<1>1. PICK s \in Scales :
        /\ scale' = s
        /\ session' = IF session = None THEN None ELSE [session EXCEPT !.scale = s]
        /\ IF runtime = None THEN UNCHANGED <<runtime, shown>> ELSE RuntimeSetScale(s)
        /\ owed' = IF owed = "silent" THEN "lost" ELSE owed
        /\ UNCHANGED <<host, accepted, making, resync, asking, drag, grip, drags, late,
                       settled, spoken>>
  BY DEF SetScale, Corrected, Reapplied, creation, gestures
<1>2. /\ session' \in Windows \cup {None} /\ (session' = None <=> session = None)
      /\ session # None => session'.scale = s
  BY <1>1, NoneAssumption DEF Inv, TypeOK, Windows
<1>3. /\ runtime' \in Views \cup {None} /\ (runtime' = None <=> runtime = None)
      /\ runtime # None => /\ runtime'.size = runtime.size /\ runtime'.scale = s
                           /\ shown' = Extent(host, runtime.size, s)
  <2>1. CASE runtime = None
    BY <1>1, <2>1
  <2>2. CASE runtime # None
    <3>1. /\ runtime' = [size |-> runtime.size, scale |-> s]
          /\ shown' = Extent(host, runtime.size, s)
      BY <1>1, <2>2, ExtentIs DEF RuntimeSetScale, LayOut
    <3>2. runtime.size \in Nat
      BY <2>2 DEF Inv, TypeOK, Views
    <3>3. QED
      BY <2>2, <3>1, <3>2, NoneAssumption DEF Views
  <2>3. QED
    BY <2>1, <2>2
<1>4. TypeOK'
  <2>1. /\ owed' \in {"told", "silent", "lost"}
        /\ scale' \in Scales
        /\ UNCHANGED <<host, accepted, resync, asking, drag, grip, drags>>
    BY <1>1 DEF Inv, TypeOK
  <2>2. session' \in Windows \cup {None} /\ runtime' \in Views \cup {None}
    BY <1>2, <1>3
  <2>3. QED
    BY <2>1, <2>2 DEF Inv, TypeOK
<1>5. Standing'
  BY <1>1, <1>2, <1>3 DEF Inv, Standing
<1>6. Asked' /\ HostHasTheLastWord'
  BY <1>1 DEF Inv, Asked, HostHasTheLastWord
<1>7. Laid'
  <2>1. owed' # "silent" /\ (owed' = "told" => owed = "told")
    BY <1>1 DEF Inv, TypeOK
  <2>2. QED
    BY <1>1, <1>3, <2>1 DEF Inv, Laid
<1>8. Dragging'
  BY <1>1 DEF Inv, Dragging, DragKeepsItsStart
<1>9. QED
  BY <1>4, <1>5, <1>6, <1>7, <1>8 DEF Inv

LEMMA SetSizeStep ==
  ASSUME Inv, NEW requested \in Sizes, SetSize(requested)
  PROVE  Inv'
<1> DEFINE w == Clamp(requested)
<1>1. w \in Min .. Max /\ w \in Nat /\ Clamp(w) = w
  BY ClampType, GuiSizeAssumption
<1>2. /\ Record(w) /\ accepted' = w /\ settled' = w /\ spoken' = TRUE
      /\ IF runtime # None /\ w # accepted
           THEN RuntimeSetSize(w) /\ owed' = "told"
           ELSE UNCHANGED <<runtime, shown, owed>>
      /\ IF runtime # None /\ host.cubase
           THEN resync' = Append(resync, w)
           ELSE UNCHANGED resync
      /\ UNCHANGED <<host, scale, session, making, drag, grip, drags, late>>
  BY DEF SetSize, Record, creation, gestures
<1> HIDE DEF w
<1>3. /\ asking' \in Requests \cup {None}
      /\ asking' # None => /\ asking # None /\ asking'.confirmed = TRUE
                           /\ asking'.size = asking.size /\ asking'.scale = asking.scale
                           /\ asking'.logical = asking.logical /\ asking'.live = asking.live
  <2>1. CASE asking = None
    BY <1>2, <2>1 DEF Record
  <2>2. CASE asking # None
    <3>1. asking' = [asking EXCEPT !.confirmed = TRUE] /\ asking \in Requests
      BY <1>2, <2>2 DEF Record, Inv, TypeOK
    <3>2. QED
      BY <2>2, <3>1 DEF Requests
  <2>3. QED
    BY <2>1, <2>2
<1>4. /\ runtime' \in Views \cup {None} /\ (runtime' = None <=> runtime = None)
      /\ runtime # None => runtime'.scale = runtime.scale
      /\ runtime # None /\ w # accepted =>
           runtime'.size = w /\ shown' = Extent(host, w, runtime.scale) /\ owed' = "told"
      /\ ~(runtime # None /\ w # accepted) => UNCHANGED <<runtime, shown, owed>>
      /\ owed' \in {"told", "silent", "lost"}
  <2>1. CASE runtime # None /\ w # accepted
    <3>1. /\ runtime' = [size |-> w, scale |-> runtime.scale] /\ owed' = "told"
          /\ shown' = Extent(host, w, runtime.scale)
      BY <1>1, <1>2, <2>1, ExtentIs DEF RuntimeSetSize, LayOut
    <3>2. runtime.scale \in Scales
      BY <2>1 DEF Inv, TypeOK, Views
    <3>3. QED
      BY <1>1, <2>1, <3>1, <3>2, NoneAssumption DEF Views
  <2>2. CASE ~(runtime # None /\ w # accepted)
    BY <1>2, <2>2 DEF Inv, TypeOK
  <2>3. QED
    BY <2>1, <2>2
<1>5. /\ resync' \in Seq(Min .. Max)
      /\ runtime # None /\ host.cubase => resync' # <<>> /\ resync'[Len(resync')] = w
      /\ ~(runtime # None /\ host.cubase) => resync' = resync
  <2>1. resync \in Seq(Min .. Max)
    BY DEF Inv, TypeOK
  <2>2. CASE runtime # None /\ host.cubase
    <3> DEFINE q == Append(resync, w)
    <3>1. q \in Seq(Min .. Max) /\ Len(q) = Len(resync) + 1 /\ q[Len(resync) + 1] = w
      BY <1>1, <2>1, AppendProperties
    <3>2. q # <<>>
      BY <3>1, <2>1, EmptySeq, LenProperties
    <3> HIDE DEF q
    <3>3. resync' = q
      BY <1>2, <2>2 DEF q
    <3>4. QED
      BY <2>2, <3>1, <3>2, <3>3
  <2>3. CASE ~(runtime # None /\ host.cubase)
    BY <1>2, <2>1, <2>3
  <2>4. QED
    BY <2>2, <2>3
<1>6. TypeOK'
  <2>1. accepted' \in Min .. Max /\ UNCHANGED <<host, scale, session, drag, grip, drags>>
    BY <1>1, <1>2
  <2>2. /\ asking' \in Requests \cup {None} /\ runtime' \in Views \cup {None}
        /\ resync' \in Seq(Min .. Max) /\ owed' \in {"told", "silent", "lost"}
    BY <1>3, <1>4, <1>5
  <2>3. QED
    BY <2>1, <2>2 DEF Inv, TypeOK
<1>7. Standing'
  BY <1>2, <1>3, <1>4, <1>5 DEF Inv, Standing
<1>8. Asked' /\ HostHasTheLastWord'
  BY <1>2, <1>3 DEF Inv, Asked, HostHasTheLastWord
<1>9. Laid'
  <2>1. CASE runtime = None
    BY <1>4, <2>1 DEF Laid
  <2>2. CASE runtime # None /\ w # accepted
    <3>1. /\ runtime'.size = w /\ shown' = Extent(host, w, runtime.scale) /\ owed' = "told"
          /\ runtime'.scale = runtime.scale /\ host' = host /\ accepted' = w
      BY <1>2, <1>4, <2>2
    <3>2. IF resync' = <<>> THEN w = accepted' ELSE resync'[Len(resync')] = accepted'
      BY <1>5, <2>2, <3>1 DEF Inv, Standing
    <3>3. QED
      BY <3>1, <3>2 DEF Laid
  <2>3. CASE runtime # None /\ w = accepted
    <3>1. UNCHANGED <<runtime, shown, owed, accepted, host, session>>
      BY <1>2, <1>4, <2>3
    <3>2. CASE host.cubase
      BY <1>5, <2>3, <3>1, <3>2 DEF Inv, Laid
    <3>3. CASE ~ host.cubase
      BY <1>5, <2>3, <3>1, <3>3 DEF Inv, Laid
    <3>4. QED
      BY <3>2, <3>3
  <2>4. QED
    BY <2>1, <2>2, <2>3
<1>10. Dragging'
  BY <1>2 DEF Inv, Dragging, DragKeepsItsStart
<1>11. QED
  BY <1>6, <1>7, <1>8, <1>9, <1>10 DEF Inv

-----------------------------------------------------------------------------
LEMMA MakeStep ==
  ASSUME Inv, Make
  PROVE  Inv'
<1>1. /\ making = "posted" /\ making' = "made"
      /\ UNCHANGED <<host, accepted, scale, session, runtime, shown, resync, asking, drag,
                     grip, drags, late, settled, spoken, owed>>
  BY DEF Make, gestures, ghosts
<1>2. TypeOK'
  BY <1>1 DEF Inv, TypeOK
<1>3. Standing'
  BY <1>1 DEF Inv, Standing
<1>4. Asked' /\ Laid' /\ HostHasTheLastWord'
  BY <1>1 DEF Inv, Asked, Laid, HostHasTheLastWord
<1>5. Dragging'
  BY <1>1 DEF Inv, Dragging, DragKeepsItsStart
<1>6. QED
  BY <1>2, <1>3, <1>4, <1>5 DEF Inv

\* The runtime is laid out for the size and the scale there are by now.
LEMMA InstallStep ==
  ASSUME Inv, Install
  PROVE  Inv'
<1>1. /\ making = "made" /\ making' = "no" /\ owed' = "told"
      /\ LayOut(Clamp(accepted), session.scale)
      /\ UNCHANGED <<host, accepted, scale, session, resync, asking, drag, grip, drags, late,
                     settled, spoken>>
  BY DEF Install, Latest, gestures
<1>2. /\ session # None /\ session \in Windows /\ runtime = None /\ resync = <<>>
      /\ accepted \in Nat /\ Clamp(accepted) = accepted
  BY <1>1, ClampType DEF Inv, TypeOK, Standing
<1>3. /\ runtime' = [size |-> accepted, scale |-> session.scale]
      /\ shown' = Extent(host, accepted, session.scale)
  BY <1>1, <1>2, ExtentIs DEF LayOut
<1>4. session.scale \in Scales
  BY <1>2 DEF Windows
<1>5. /\ runtime' \in Views /\ runtime' # None /\ runtime'.size = accepted
      /\ runtime'.scale = session.scale
  BY <1>2, <1>3, <1>4, NoneAssumption DEF Views
<1>6. TypeOK'
  BY <1>1, <1>5 DEF Inv, TypeOK
<1>7. Standing'
  BY <1>1, <1>2, <1>5 DEF Inv, Standing
<1>8. Asked' /\ HostHasTheLastWord'
  BY <1>1 DEF Inv, Asked, HostHasTheLastWord
<1>9. Laid'
  BY <1>1, <1>2, <1>3, <1>5 DEF Laid
<1>10. Dragging'
  BY <1>1 DEF Inv, Dragging, DragKeepsItsStart
<1>11. QED
  BY <1>6, <1>7, <1>8, <1>9, <1>10 DEF Inv

\* The last of the posted resyncs is the one that counts.
LEMMA ResyncStep ==
  ASSUME Inv, Resync
  PROVE  Inv'
<1> DEFINE n == Len(resync)
           q == Tail(resync)
           h == Head(resync)
<1>1. /\ resync # <<>> /\ runtime # None /\ resync \in Seq(Min .. Max)
      /\ runtime \in Views
  BY DEF Resync, Inv, TypeOK, Standing
<1>2. /\ n \in Nat /\ n > 0 /\ h = resync[1] /\ h \in Min .. Max
      /\ q \in Seq(Min .. Max) /\ Len(q) = n - 1
      /\ \A i \in 1 .. n - 1 : q[i] = resync[i + 1]
      /\ (q = <<>> <=> n = 1)
  <2>1. /\ n \in Nat /\ n > 0 /\ h = resync[1] /\ h \in Min .. Max
        /\ q \in Seq(Min .. Max) /\ Len(q) = n - 1
        /\ \A i \in 1 .. n - 1 : q[i] = resync[i + 1]
    <3>1. n \in Nat /\ n > 0
      BY <1>1, EmptySeq, LenProperties
    <3>2. h = resync[1] /\ h \in Min .. Max
      <4>1. h = resync[1]
        BY <1>1
      <4>2. h \in Min .. Max
        BY <1>1, HeadTailProperties, Zenon
      <4>3. QED
        BY <4>1, <4>2
    <3>3. /\ q \in Seq(Min .. Max) /\ Len(q) = n - 1
          /\ \A i \in 1 .. n - 1 : q[i] = resync[i + 1]
      <4>1. /\ q \in Seq(Min .. Max) /\ Len(q) = Len(resync) - 1
            /\ \A i \in 1 .. Len(q) : q[i] = resync[i + 1]
        BY <1>1, HeadTailProperties
      <4>2. QED
        BY <4>1
    <3>4. QED
      BY <3>1, <3>2, <3>3
  <2>2. q = <<>> <=> Len(q) = 0
    BY <2>1, EmptySeq
  <2> HIDE DEF n, q, h
  <2>3. n = 1 <=> n - 1 = 0
    BY <2>1
  <2>4. QED
    BY <2>1, <2>2, <2>3
<1>3. q # <<>> => q[Len(q)] = resync[n]
  <2>1. ASSUME q # <<>> PROVE q[n - 1] = resync[n]
    <3>1. n - 1 \in 1 .. n - 1 /\ (n - 1) + 1 = n
      BY <1>2, <2>1
    <3>2. QED
      BY <1>2, <3>1
  <2>2. QED
    BY <1>2, <2>1
<1>4. Clamp(h) = h /\ h \in Nat
  BY <1>2, ClampType
<1>5. n = 1 => h = resync[n]
  BY <1>2
<1>6. /\ resync' = q /\ RuntimeSetSize(h)
      /\ owed' = IF owed = "silent" THEN "lost" ELSE owed
      /\ UNCHANGED <<host, accepted, scale, session, making, asking, drag, grip, drags, late,
                     settled, spoken>>
  BY DEF Resync, Reapplied, creation, gestures
<1>7. owed = "told" => resync[n] = accepted
  BY <1>1 DEF Inv, Laid
<1> HIDE DEF n, q, h
<1>8. /\ runtime' = [size |-> h, scale |-> runtime.scale]
      /\ shown' = Extent(host, h, runtime.scale)
  BY <1>4, <1>6, ExtentIs DEF RuntimeSetSize, LayOut
<1>9. /\ runtime' \in Views /\ runtime' # None /\ runtime'.size = h
      /\ runtime'.scale = runtime.scale
  BY <1>1, <1>4, <1>8, NoneAssumption DEF Views
<1>10. owed' \in {"told", "lost"} /\ (owed' = "told" => owed = "told")
  BY <1>6 DEF Inv, TypeOK
<1>11. TypeOK'
  <2>1. resync' \in Seq(Min .. Max)
    BY <1>2, <1>6
  <2>2. QED
    BY <1>6, <1>9, <1>10, <2>1 DEF Inv, TypeOK
<1>12. Standing'
  BY <1>1, <1>6, <1>9 DEF Inv, Standing
<1>13. Asked' /\ HostHasTheLastWord'
  BY <1>6 DEF Inv, Asked, HostHasTheLastWord
<1>14. Laid'
  <2>1. owed' = "told" => IF q = <<>> THEN h = accepted ELSE q[Len(q)] = accepted
    BY <1>2, <1>3, <1>5, <1>7, <1>10
  <2>2. /\ resync' = q /\ accepted' = accepted /\ host' = host
        /\ shown' = Extent(host, h, runtime.scale)
    BY <1>6, <1>8
  <2>3. QED
    BY <1>9, <1>10, <2>1, <2>2 DEF Laid
<1>15. Dragging'
  BY <1>6 DEF Inv, Dragging, DragKeepsItsStart
<1>16. QED
  BY <1>11, <1>12, <1>13, <1>14, <1>15 DEF Inv

\* A step of the grip leaves the sizes alone.
LEMMA GripStep ==
  ASSUME Inv, Dragging', drag' \in Grips \cup {None}, grip' \in Grips \cup {None},
         drags' \in Nat,
         UNCHANGED <<host, accepted, scale, session, creation, runtime, shown, resync,
                     asking, ghosts>>
  PROVE  Inv'
<1>1. UNCHANGED <<host, accepted, scale, session, making, runtime, shown, resync, asking,
                  settled, spoken, owed>>
  BY DEF creation, ghosts
<1>2. TypeOK'
  BY <1>1 DEF Inv, TypeOK
<1>3. Standing'
  BY <1>1 DEF Inv, Standing
<1>4. Asked' /\ Laid' /\ HostHasTheLastWord'
  BY <1>1 DEF Inv, Asked, Laid, HostHasTheLastWord
<1>5. QED
  BY <1>2, <1>3, <1>4 DEF Inv

LEMMA BeginStep ==
  ASSUME Inv, Begin
  PROVE  Inv'
<1>1. drags \in Nat /\ drag \in Grips \cup {None} /\ late \subseteq 1 .. drags
  BY DEF Inv, TypeOK, Dragging
<1>2. PICK d \in Nat : d = drags + 1
  BY <1>1
<1>3. PICK p \in Pointers \cup {None}, l \in Logicals :
        IF p = None
        THEN grip' = None /\ UNCHANGED drag
        ELSE /\ grip' = [id |-> d, pointer |-> p, width |-> l]
             /\ drag' = [id |-> d, pointer |-> p, width |-> l]
  BY <1>2 DEF Begin
<1>4. drags' = d /\ late' = IF grip = None THEN late ELSE late \cup {grip.id}
  BY <1>2 DEF Begin
<1>5. late' \subseteq 1 .. drags
  BY <1>1, <1>4 DEF Inv, Dragging
<1>6. d \in 1 .. d /\ d \notin late' /\ late' \subseteq 1 .. d
  BY <1>1, <1>2, <1>5
<1>7. CASE p = None
  BY <1>1, <1>3, <1>4, <1>6, <1>7, GripStep DEF Dragging, DragKeepsItsStart, Begin
<1>8. CASE p # None
  <2>1. /\ grip' \in Grips /\ drag' = grip' /\ grip'.id = d
    BY <1>3, <1>8 DEF Grips
  <2>2. QED
    BY <1>4, <1>6, <2>1, GripStep DEF Dragging, DragKeepsItsStart, Begin
<1>9. QED
  BY <1>7, <1>8

LEMMA LetGoStep ==
  ASSUME Inv, LetGo
  PROVE  Inv'
<1>1. /\ grip' = None /\ drag' \in {drag, None} /\ UNCHANGED <<drags, late>>
  BY DEF LetGo, Ended
<1>2. drag' \in Grips \cup {None} /\ drags' \in Nat
  BY <1>1 DEF Inv, TypeOK
<1>3. Dragging'
  BY <1>1 DEF Inv, Dragging, DragKeepsItsStart
<1>4. QED
  BY <1>1, <1>2, <1>3, GripStep DEF LetGo

LEMMA EndLateStep ==
  ASSUME Inv, EndLate
  PROVE  Inv'
<1>1. PICK id \in late : late' = late \ {id} /\ drag' = Ended(id) /\ UNCHANGED <<grip, drags>>
  BY DEF EndLate
<1>2. drag' \in Grips \cup {None} /\ grip' \in Grips \cup {None} /\ drags' \in Nat
  BY <1>1 DEF Inv, TypeOK, Ended
<1>3. grip # None => drag' = grip
  BY <1>1 DEF Inv, Dragging, DragKeepsItsStart, Ended
<1>4. Dragging'
  BY <1>1, <1>3 DEF Inv, Dragging, DragKeepsItsStart
<1>5. QED
  BY <1>2, <1>4, GripStep DEF EndLate

LEMMA RequestStep ==
  ASSUME Inv, Request
  PROVE  Inv'
<1>1. PICK p \in Pointers \cup {None}, l \in Logicals,
           id \in {0} \cup late \cup (IF grip = None THEN {} ELSE {grip.id}) :
        asking' = Asking(Resolved(id, p, l))
  BY DEF Request
<1>2. /\ runtime # None /\ spoken' = FALSE
      /\ UNCHANGED <<host, accepted, scale, session, making, runtime, shown, resync, drag,
                     grip, drags, late, settled, owed>>
  BY DEF Request, creation, gestures
<1>3. /\ asking' \in Requests /\ ~ asking'.confirmed
      /\ ExtentOf(host, asking'.logical, asking'.scale) = Extent(host, asking'.size, asking'.scale)
  <2>1. Resolved(id, p, l) \in Int
    BY ResolvedType DEF Inv
  <2>2. PICK x \in Int : x = Resolved(id, p, l)
    BY <2>1
  <2>3. scale \in Scales
    BY DEF Inv, TypeOK
  <2>4. asking' = Asking(x)
    BY <1>1, <2>2
  <2>5. QED
    BY <2>3, <2>4, AskingType
<1>4. TypeOK'
  BY <1>2, <1>3 DEF Inv, TypeOK
<1>5. Standing'
  BY <1>2 DEF Inv, Standing
<1>6. Asked'
  <2>1. asking'.confirmed = FALSE
    BY <1>3 DEF Requests
  <2>2. QED
    BY <1>2, <1>3, <2>1 DEF Asked
<1>7. Laid' /\ HostHasTheLastWord'
  BY <1>2 DEF Inv, Laid, HostHasTheLastWord
<1>8. Dragging'
  BY <1>2 DEF Inv, Dragging, DragKeepsItsStart
<1>9. QED
  BY <1>4, <1>5, <1>6, <1>7, <1>8 DEF Inv

LEMMA AnswerStep ==
  ASSUME Inv, NEW yes \in BOOLEAN, Answer(yes)
  PROVE  Inv'
<1>1. /\ asking # None /\ asking \in Requests /\ asking' = None
      /\ UNCHANGED <<host, scale, session, making, runtime, resync, drag, grip, drags, late,
                     spoken>>
  BY DEF Answer, Inv, TypeOK, creation, gestures
<1>2. /\ asking.size \in Min .. Max /\ asking.confirmed = spoken
      /\ ExtentOf(host, asking.logical, asking.scale) = Extent(host, asking.size, asking.scale)
  BY <1>1 DEF Inv, Asked, Requests
<1>3. /\ Standing' /\ Asked' /\ Dragging'
  BY <1>1 DEF Inv, Standing, Asked, Dragging, DragKeepsItsStart
<1>4. CASE Taken(yes)
  <2>1. /\ accepted' = asking.size /\ settled' = asking.size
        /\ shown' = ExtentOf(host, asking.logical, asking.scale)
        /\ owed' = IF asking.scale = session.scale THEN "silent" ELSE "lost"
    BY <1>2, <1>4, ExtentIs DEF Answer, Taken
  <2>2. TypeOK'
    BY <1>1, <1>2, <2>1 DEF Inv, TypeOK
  <2>3. HostHasTheLastWord'
    BY <2>1 DEF HostHasTheLastWord
  <2>4. Laid'
    BY <1>1, <1>2, <2>1 DEF Laid
  <2>5. QED
    BY <1>3, <2>2, <2>3, <2>4 DEF Inv
<1>5. CASE ~ Taken(yes)
  <2>1. UNCHANGED <<accepted, shown, owed, settled>>
    BY <1>2, <1>5 DEF Answer, Taken
  <2>2. TypeOK'
    BY <1>1, <2>1 DEF Inv, TypeOK
  <2>3. Laid' /\ HostHasTheLastWord'
    BY <1>1, <2>1 DEF Inv, Laid, HostHasTheLastWord
  <2>4. QED
    BY <1>3, <2>2, <2>3 DEF Inv
<1>6. QED
  BY <1>4, <1>5

LEMMA StutterStep ==
  ASSUME Inv, UNCHANGED vars
  PROVE  Inv'
<1>1. /\ UNCHANGED <<host, accepted, scale, session, creation, runtime, shown, resync,
                     asking, ghosts>>
      /\ UNCHANGED <<drag, grip, drags, late>>
  BY DEF vars, gestures
<1>2. Dragging' /\ drag' \in Grips \cup {None} /\ grip' \in Grips \cup {None} /\ drags' \in Nat
  BY <1>1 DEF Inv, TypeOK, Dragging, DragKeepsItsStart
<1>3. QED
  BY <1>1, <1>2, GripStep

LEMMA NextInv == Inv /\ [Next]_vars => Inv'
<1> SUFFICES ASSUME Inv, [Next]_vars PROVE Inv'
  OBVIOUS
<1>1. CASE Create \/ Destroy \/ SetParent
  BY <1>1, CreateStep, DestroyStep, SetParentStep
<1>2. CASE \E s \in Scales : SetScale(s)
  BY <1>2, SetScaleStep
<1>3. CASE \E w \in Sizes : SetSize(w)
  BY <1>3, SetSizeStep
<1>4. CASE Make \/ Install \/ Resync
  BY <1>4, MakeStep, InstallStep, ResyncStep
<1>5. CASE Begin \/ LetGo \/ EndLate \/ Request
  BY <1>5, BeginStep, LetGoStep, EndLateStep, RequestStep
<1>6. CASE \E yes \in BOOLEAN : Answer(yes)
  BY <1>6, AnswerStep
<1>7. CASE UNCHANGED vars
  BY <1>7, StutterStep
<1>8. QED
  BY <1>1, <1>2, <1>3, <1>4, <1>5, <1>6, <1>7 DEF Next

LEMMA InvHolds == Spec => []Inv
BY InitInv, NextInv, PTL DEF Spec

-----------------------------------------------------------------------------
\* Once the posted resyncs have run, the child view is as large as the size
\* the host is told, for every size, limit and scale, whatever came while the
\* view was made, parented, scaled or asked for (controller.rs, session.rs).
THEOREM ViewFollowsTheHost == Spec => []SizeSettles
<1>1. Inv => SizeSettles
  BY ExtentIs DEF Inv, TypeOK, Standing, Laid, SizeSettles
<1>2. QED
  BY <1>1, InvHolds, PTL

\* The size the host is told is the last one it set or agreed to, also when it
\* sets one inside the frontend's request (controller.rs, request_resize).
THEOREM HostDecides == Spec => []HostHasTheLastWord
<1>1. Inv => HostHasTheLastWord
  BY DEF Inv
<1>2. QED
  BY <1>1, InvHolds, PTL

\* However many drags were begun and however late their ends are sent, the
\* frontend's drag is measured from its own start (resize_drag.rs).
THEOREM DragsAreTheirOwn == Spec => []DragKeepsItsStart
<1>1. Inv => DragKeepsItsStart
  BY DEF Inv, Dragging
<1>2. QED
  BY <1>1, InvHolds, PTL
=============================================================================
