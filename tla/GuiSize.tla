-------------------------------- MODULE GuiSize --------------------------------
(***************************************************************************)
(* The size of the editor (wrac_wxp_gui: controller.rs, session.rs,        *)
(* runtime.rs, dpi.rs, resize_drag.rs, commands/resize.rs).  Three places  *)
(* know it: the layout that answers the host (accepted), the WebView       *)
(* session, and the child view that is shown.  The host sets it, its       *)
(* scale moves under it, and the frontend asks the host for another one,   *)
(* in which call the host may set a size itself before it answers.         *)
(*                                                                         *)
(* Every call is on the GUI thread; a WebView under construction pumps the *)
(* run loop, so calls of the host fall between its steps.  Which editor a  *)
(* creation belongs to is GuiController's subject: a creation whose editor *)
(* is gone is simply dropped here.  Posting to a live view does not fail.  *)
(* One axis stands for two.  Host sizes are whole.  Scales and logical     *)
(* sizes, f64 in the code, are whole numbers of fractions so fine that     *)
(* every size divided by every scale is one: there are such fractions for  *)
(* any rational scales, the arithmetic is exact, and f64's own rounding is *)
(* left out (it can move a result that lies half way between two sizes).   *)
(***************************************************************************)
EXTENDS Integers, Sequences

CONSTANTS
  Sizes,       (* sizes a host sets                                         *)
  Logicals,    (* logical sizes the frontend asks for                       *)
  Pointers,    (* positions of the desktop cursor                           *)
  ScaleUnit,   (* the scale of 1 is this many                               *)
  LogicalUnit, (* the logical size of 1 is this many                        *)
  Scales,
  Min, Max,    (* GuiSizeLimits                                             *)
  None,        (* no session, no runtime, no request, no drag, no pointer   *)
  MaxResyncs,  (* bound: posted resyncs outstanding                         *)
  MaxDrags     (* bound: drags                                              *)

ASSUME GuiSizeAssumption ==
  /\ Min \in Nat /\ Max \in Nat /\ Min <= Max
  /\ Sizes \subseteq Nat /\ Logicals \subseteq Nat
  /\ ScaleUnit \in Nat \ {0} /\ LogicalUnit \in Nat \ {0}
  /\ \A s \in Scales : s \in Nat \ {0} /\ (LogicalUnit * ScaleUnit) % s = 0
  /\ ScaleUnit \in Scales
  /\ Pointers \subseteq Int

Windows == [scale : Scales, parent : BOOLEAN]
Views   == [size : Nat, scale : Scales]

ASSUME NoneAssumption == None \notin Windows /\ None \notin Views

VARIABLES
  host,      (* the host the editor is in: [os, cubase, points]             *)
  accepted,  (* HostGuiLayout.accepted_size                                 *)
  scale,     (* the controller's and the resize handle's scale              *)
  session,   (* None or GuiSession's scale and parent, of Windows           *)
  making,    (* "no", "posted" or "made": the creation of the runtime       *)
  given,     (* what the runtime being made was given: [size, scale]        *)
  runtime,   (* None or the WebView session's size and scale, of Views      *)
  shown,     (* the bounds last posted to the child view                    *)
  resync,    (* posted set_size of the installed runtime                    *)
  asking,    (* None or a request_resize inside the host                    *)
  drag,      (* WxpNativeResizeDrag.current                                 *)
  grip,      (* the drag the frontend is in                                 *)
  drags,     (* drags begun                                                 *)
  late,      (* drags whose end the frontend has yet to send                *)
  settled,   (* ghost: the last size the host set or said yes to            *)
  spoken,    (* ghost: the host has set a size since it was asked           *)
  owed       (* ghost: whether the runtime knows the accepted size          *)

gestures == <<drag, grip, drags, late>>
ghosts   == <<settled, spoken, owed>>
creation == <<making, given>>
vars     == <<host, accepted, scale, session, creation, runtime, shown, resync,
              asking, gestures, ghosts>>

Hosts ==
  {h \in [os : {"windows", "macos", "linux"}, cubase : BOOLEAN, points : BOOLEAN] :
     /\ h.points => h.os = "macos"
     /\ h.cubase => h.os = "windows" \/ h.points}

-----------------------------------------------------------------------------
(***************************************************************************)
(* DpiConverter and the limits.                                            *)
(***************************************************************************)

Clamp(w) == IF w < Min THEN Min ELSE IF w > Max THEN Max ELSE w

Units == LogicalUnit * ScaleUnit

\* n / d, rounded.
Rounded(n, d) == (2 * n + d) \div (2 * d)

Logical(w, s) == IF host.points THEN w * LogicalUnit ELSE w * (Units \div s)

Gui(l, s) == IF host.points THEN Rounded(l, LogicalUnit) ELSE Rounded(l * s, Units)

\* WebView bounds are logical on macOS and Windows and physical on Linux.
BoundsOf(l, s) == IF host.os = "linux" THEN Rounded(l * s, Units) ELSE l

Bounds(w, s) == BoundsOf(Logical(w, s), s)

\* correct_host_scale: under Cubase on Windows the parent's monitor decides.
Corrected(s) == IF host.cubase /\ host.os = "windows" THEN Scales ELSE {s}

\* clamp_logical_size: limits are compared in the host's unit.
ClampLogical(l, s) == Logical(Clamp(Gui(l, s)), s)

-----------------------------------------------------------------------------
(***************************************************************************)
(* The WebView session: a new size or scale is laid out at once.           *)
(***************************************************************************)

LayOut(w, s) ==
  /\ runtime' = [size |-> w, scale |-> s]
  /\ shown' = Bounds(w, s)

RuntimeSetSize(w) == LayOut(Clamp(w), runtime.scale)

RuntimeSetScale(s) == LayOut(runtime.size, s)

Gone == runtime' = None /\ shown' = None /\ resync' = <<>>

\* Ghost: bounds are laid out again from the size the runtime knows.
Reapplied == owed' = IF owed = "silent" THEN "lost" ELSE owed

Init ==
  /\ host \in Hosts
  /\ \E w \in Sizes : accepted = Clamp(w)
  /\ scale = ScaleUnit /\ session = None /\ making = "no" /\ given = None
  /\ runtime = None /\ shown = None /\ resync = <<>> /\ asking = None
  /\ drag = None /\ grip = None /\ drags = 0 /\ late = {}
  /\ settled = accepted /\ spoken = FALSE /\ owed = "told"

-----------------------------------------------------------------------------
(***************************************************************************)
(* The host.                                                               *)
(***************************************************************************)

\* A request in the host finds its view closed when it comes back.
ViewClosed == IF asking = None THEN None ELSE [asking EXCEPT !.live = FALSE]

\* The frontend goes with its view.
FrontendGone == drag' = None /\ grip' = None /\ late' = {} /\ UNCHANGED drags

Create ==
  /\ session' = [scale |-> scale, parent |-> FALSE]
  /\ making' = "no" /\ given' = None /\ Gone /\ FrontendGone /\ asking' = ViewClosed
  /\ UNCHANGED <<host, accepted, scale, ghosts>>

Destroy ==
  /\ session # None
  /\ session' = None
  /\ making' = "no" /\ given' = None /\ Gone /\ FrontendGone /\ asking' = ViewClosed
  /\ UNCHANGED <<host, accepted, scale, ghosts>>

SetParent ==
  /\ session # None
  /\ \E s \in Corrected(session.scale) : session' = [scale |-> s, parent |-> TRUE]
  /\ making' = IF making = "no" THEN "posted" ELSE making
  /\ Gone /\ FrontendGone /\ asking' = ViewClosed
  /\ UNCHANGED <<host, accepted, scale, given, ghosts>>

SetScale(requested) ==
  \E s \in IF session # None /\ session.parent THEN Corrected(requested) ELSE {requested} :
    /\ scale' = s
    /\ session' = IF session = None THEN None ELSE [session EXCEPT !.scale = s]
    /\ IF runtime = None
         THEN UNCHANGED <<runtime, shown>>
         ELSE RuntimeSetScale(s)
    /\ Reapplied
    /\ UNCHANGED <<host, accepted, creation, resync, asking, gestures, settled, spoken>>

\* Slip: a size that is already the accepted one is not recorded.
RecordNew(w) ==
  /\ accepted' = w
  /\ asking' = IF asking = None \/ w = accepted THEN asking
               ELSE [asking EXCEPT !.confirmed = TRUE]

\* store_accepted_size: a request in progress sees the revision move.
Record(w) ==
  /\ accepted' = w
  /\ asking' = IF asking = None THEN None ELSE [asking EXCEPT !.confirmed = TRUE]

SetSize(requested) ==
  LET w == Clamp(requested) IN
  /\ Record(w)
  /\ IF runtime # None /\ w # accepted
       THEN RuntimeSetSize(w) /\ owed' = "told"
       ELSE UNCHANGED <<runtime, shown, owed>>
  /\ IF runtime # None /\ host.cubase
       THEN Len(resync) < MaxResyncs /\ resync' = Append(resync, w)
       ELSE UNCHANGED resync
  /\ settled' = w /\ spoken' = TRUE
  /\ UNCHANGED <<host, scale, session, creation, gestures>>

-----------------------------------------------------------------------------
(***************************************************************************)
(* The run loop.                                                           *)
(***************************************************************************)

\* create_runtime_after_wait: the factory is given the latest of now.
Make ==
  /\ making = "posted"
  /\ making' = "made"
  /\ given' = [size |-> accepted, scale |-> session.scale]
  /\ UNCHANGED <<host, accepted, scale, session, runtime, shown, resync, asking,
                 gestures, ghosts>>

\* Slip: what the factory was given is taken for the latest.
AsGiven == given

\* latest_runtime_state, read again once the runtime is there.
Latest == [size |-> accepted, scale |-> session.scale]

Install ==
  /\ making = "made"
  /\ making' = "no" /\ given' = None
  /\ LayOut(Clamp(Latest.size), Latest.scale)
  /\ owed' = "told"
  /\ UNCHANGED <<host, accepted, scale, session, resync, asking, gestures,
                 settled, spoken>>

Resync ==
  /\ resync # <<>>
  /\ resync' = Tail(resync)
  /\ RuntimeSetSize(Head(resync))
  /\ Reapplied
  /\ UNCHANGED <<host, accepted, scale, session, creation, asking, gestures,
                 settled, spoken>>

-----------------------------------------------------------------------------
(***************************************************************************)
(* The frontend: the grip, and request_gui_resize.                         *)
(***************************************************************************)

\* A new drag may begin before the end of the one before it is sent.
Begin ==
  /\ runtime # None /\ drags < MaxDrags
  /\ drags' = drags + 1
  /\ late' = IF grip = None THEN late ELSE late \cup {grip.id}
  /\ \E p \in Pointers \cup {None}, l \in Logicals :
       LET begun == [id |-> drags + 1, pointer |-> p, width |-> l] IN
       IF p = None
         THEN grip' = None /\ UNCHANGED drag
         ELSE grip' = begun /\ drag' = begun
  /\ UNCHANGED <<host, accepted, scale, session, creation, runtime, shown, resync,
                 asking, ghosts>>

\* Slip: the end of any drag is the end of this one.
EndedAny(id) == None

Ended(id) == IF drag # None /\ drag.id = id THEN None ELSE drag

LetGo ==
  /\ grip # None
  /\ grip' = None
  /\ drag' = Ended(grip.id)
  /\ UNCHANGED <<host, accepted, scale, session, creation, runtime, shown, resync,
                 asking, drags, late, ghosts>>

EndLate ==
  \E id \in late :
    /\ late' = late \ {id}
    /\ drag' = Ended(id)
    /\ UNCHANGED <<host, accepted, scale, session, creation, runtime, shown, resync,
                   asking, grip, drags, ghosts>>

\* resolve_size: from where the drag began, or as the frontend says.
Resolved(id, p, fallback) ==
  IF drag # None /\ drag.id = id /\ p # None
  THEN drag.width + (p - drag.pointer)
  ELSE fallback

\* What request_resize asks the host for: the size the limits allow.
Asking(requested) ==
  LET logical == ClampLogical(requested, scale) IN
  [size |-> Gui(logical, scale), logical |-> logical, scale |-> scale,
   confirmed |-> FALSE, live |-> TRUE]

\* request_resize as far as the call of the host.
Request ==
  /\ runtime # None /\ asking = None
  /\ \E p \in Pointers \cup {None}, l \in Logicals,
        id \in {0} \cup late \cup (IF grip = None THEN {} ELSE {grip.id}) :
       asking' = Asking(Resolved(id, p, l))
  /\ spoken' = FALSE
  /\ UNCHANGED <<host, accepted, scale, session, creation, runtime, shown, resync,
                 gestures, settled, owed>>

\* The view is resized directly when the host agrees and sets no size.
Taken(yes) == ~asking.confirmed /\ yes /\ asking.live

Answer(yes) ==
  /\ asking # None
  /\ asking' = None
  /\ IF Taken(yes)
       THEN /\ accepted' = asking.size
            /\ shown' = BoundsOf(asking.logical, asking.scale)
            /\ owed' = IF asking.scale = session.scale THEN "silent" ELSE "lost"
       ELSE UNCHANGED <<accepted, shown, owed>>
  /\ settled' = IF yes /\ asking.live /\ ~spoken THEN asking.size ELSE settled
  /\ UNCHANGED <<host, scale, session, creation, runtime, resync, gestures, spoken>>

-----------------------------------------------------------------------------

Next ==
  \/ Create \/ Destroy \/ SetParent
  \/ \E s \in Scales : SetScale(s)
  \/ \E w \in Sizes : SetSize(w)
  \/ Make \/ Install \/ Resync
  \/ Begin \/ LetGo \/ EndLate \/ Request
  \/ \E yes \in BOOLEAN : Answer(yes)

Spec == Init /\ [][Next]_vars

-----------------------------------------------------------------------------
(***************************************************************************)
(* What the sizes promise.                                                 *)
(***************************************************************************)

\* Once the posted resyncs have run, the child view is as large as the size
\* the host is told, at the session's scale, whatever came while the view
\* was made, parented, scaled or asked for.  The one exception is a size the
\* host agreed to without setting it: the WebView session never hears of
\* it, and lays out an older one when the scale moves.
\* (wxp_gui controller.rs:941, 899, 289, 712; session.rs:157)
SizeSettles ==
  runtime # None /\ resync = <<>> /\ owed # "lost"
    => shown = Bounds(accepted, session.scale)

\* The size the host is told is the last one it set, or said yes to without
\* setting one: a size set inside a request wins over what was requested,
\* also when it is the size there was before.  (controller.rs:692, 973)
HostHasTheLastWord == accepted = settled

\* While the frontend is in a drag, sizes are measured from where that drag
\* began: the end of an older drag, however late, does not stop it.
\* (resize_drag.rs:44, 63)
DragKeepsItsStart == grip # None => drag = grip
=============================================================================
