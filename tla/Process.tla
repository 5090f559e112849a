-------------------------------- MODULE Process --------------------------------
(***************************************************************************)
(* What crosses the CLAP boundary in process and flush, in the adapter     *)
(* (params.rs, events.rs, process_buffer.rs, plugin_process in abi.rs) and *)
(* in the plugin (audio.rs):                                               *)
(*                                                                         *)
(*  - edits of the user, queued by the GUI until the host offers an output *)
(*    event list;                                                          *)
(*  - input events, of which the values of parameters count;               *)
(*  - audio, read from and written to memory of the host, in place or not. *)
(*                                                                         *)
(* An edit is its number.  The parameters are one.  The IR requests of a   *)
(* block are in Reconcile, the engine's state in Corner, and who may use   *)
(* the processor in Lifecycle: here the engine turns a sample of a channel *)
(* into another sample of the channel.  A buffer has one port on each side *)
(* at most, as the plugin declares them.                                   *)
(***************************************************************************)
EXTENDS Integers, Sequences, FiniteSetsExt

CONSTANTS
  Channels,    (* channels of the processor                                 *)
  MaxFrames,   (* max_frames it was activated with                          *)
  Shapes,      (* buffers the host may pass: frames, input and output       *)
  EventLists,  (* event lists the host may pass to process                  *)
  FlushLists,  (* event lists it may pass to flush                          *)
  MaxEdits,    (* bound: edits of the user                                  *)
  MaxRefusals, (* bound: edits the host's list refuses                      *)
  None         (* no port, no thread; a null channel pointer                *)

ASSUME ProcessAssumption ==
  /\ Channels \in Nat \ {0} /\ MaxFrames \in Nat
  /\ MaxEdits \in Nat /\ MaxRefusals \in Nat
  /\ EventLists \cup FlushLists \subseteq Seq(STRING)
  /\ None \notin {"audio", "main", "editor"}

Callers == {"audio", "main"}

VARIABLES
  (* the edit queue *)
  pending, lock,
  editor,    (* where the thread of the GUI is                              *)
  edited,    (* edits so far                                                *)
  received,  (* the edits the host has taken                                *)
  wanted,    (* the host has a request_flush to serve                       *)
  refused,   (* the last drain was refused an edit                          *)
  refusals,
  (* the callbacks *)
  place,     (* where each caller is                                        *)
  parameter, (* the shared value                                            *)
  (* the block in hand *)
  buffers, events, heard, memory, scratch, channel, status

queue == <<pending, lock, editor, edited, received, wanted, refused, refusals>>
block == <<buffers, events, heard, memory, scratch, channel, status>>
vars == <<queue, place, parameter, block>>

Go(t, to) == place' = [place EXCEPT ![t] = to]

-----------------------------------------------------------------------------
(***************************************************************************)
(* Buffers.                                                                *)
(***************************************************************************)

Width(port) == IF port = None THEN 0 ELSE Len(port.cells)

\* sample_mask: a port without channels goes with either type.
Mask(port) == IF port.types = {} THEN {"f32", "f64"} ELSE port.types

\* common_sample_type, with f64 before f32.
SampleType(b) ==
  LET common == (IF b.input = None THEN {"f32", "f64"} ELSE Mask(b.input))
                  \cap (IF b.output = None THEN {"f32", "f64"} ELSE Mask(b.output))
  IN  IF "f64" \in common THEN "f64" ELSE IF "f32" \in common THEN "f32" ELSE None

Usable(port, frames) ==
  port # None =>
    /\ port.types = {} => port.cells = <<>>
    /\ frames > 0 => \A i \in DOMAIN port.cells : port.cells[i] # None

\* validate_buffers
Valid(b) ==
  /\ Usable(b.input, b.frames) /\ Usable(b.output, b.frames)
  /\ (b.output # None /\ b.frames > 0) =>
       \A i, j \in DOMAIN b.output.cells :
         i # j => b.output.cells[i] # b.output.cells[j]

Cells == UNION {UNION {{p.cells[i] : i \in DOMAIN p.cells} :
                       p \in {b.input, b.output} \ {None}} : b \in Shapes}

ASSUME ShapesAssumption ==
  \A b \in Shapes :
    /\ b.frames \in Nat
    /\ \A port \in {b.input, b.output} \ {None} : port.cells \in Seq(Cells)

\* A sample is the channel the engine made it in (0: none) and its origin.
Origin(type, cell, i) == <<0, type, cell, i>>
Wet(ch, sample) == <<ch, sample[2], sample[3], sample[4]>>
Earlier == <<0, "an", "earlier block", 0>>

Untouched(b) ==
  [type \in {"f32", "f64"} |->
    [cell \in Cells |-> [i \in 1 .. b.frames |-> Origin(type, cell, i)]]]

Silent == [ch \in 1 .. Channels |-> [i \in 1 .. MaxFrames |-> Earlier]]

Frames == Min({buffers.frames, MaxFrames})

-----------------------------------------------------------------------------
(***************************************************************************)
(* Events.  An event is a value of the parameter, or "lost" (a null header *)
(* or an index out of range), or "other" (another kind of event, another   *)
(* event space, a parameter that does not exist).                          *)
(***************************************************************************)

\* Slip: the iterator ends where an event cannot be had.
HeededToTheFirstLost(list) ==
  {i \in DOMAIN list : /\ list[i] # "other"
                       /\ \A j \in 1 .. i : list[j] # "lost"}

\* InputEventsIter, parameter_values and set_parameter_value
Heeded(list) == {i \in DOMAIN list : list[i] \notin {"lost", "other"}}

Applied(list, value) ==
  IF Heeded(list) = {} THEN value ELSE list[Max(Heeded(list))]

-----------------------------------------------------------------------------
Init ==
  /\ pending = <<>> /\ lock = None /\ editor = "idle" /\ edited = 0
  /\ received = <<>> /\ wanted = FALSE /\ refused = FALSE /\ refusals = 0
  /\ place = [t \in Callers |-> "idle"]
  /\ parameter = "default"
  /\ buffers = None /\ events = <<>> /\ heard = "default" /\ memory = None
  /\ scratch = Silent /\ channel = 0 /\ status = "none"

-----------------------------------------------------------------------------
(***************************************************************************)
(* The user edits: lock, push_back, unlock, request_flush.                 *)
(***************************************************************************)

Edit ==
  /\ editor = "idle" /\ edited < MaxEdits /\ lock = None
  /\ lock' = "editor"
  /\ edited' = edited + 1
  /\ pending' = Append(pending, edited')
  /\ editor' = "pushed"
  /\ UNCHANGED <<received, wanted, refused, refusals, place, parameter, block>>

Unlock ==
  /\ editor = "pushed"
  /\ lock' = None
  /\ editor' = "notify"
  /\ UNCHANGED <<pending, edited, received, wanted, refused, refusals,
                 place, parameter, block>>

\* Slip: only the first edit in the queue asks for a flush.
RequestFlushOnce ==
  /\ editor = "notify"
  /\ wanted' = (wanted \/ Len(pending) = 1)
  /\ editor' = "idle"
  /\ UNCHANGED <<pending, lock, edited, received, refused, refusals,
                 place, parameter, block>>

RequestFlush ==
  /\ editor = "notify"
  /\ wanted' = TRUE
  /\ editor' = "idle"
  /\ UNCHANGED <<pending, lock, edited, received, refused, refusals,
                 place, parameter, block>>

-----------------------------------------------------------------------------
(***************************************************************************)
(* The host calls process, from its audio thread, or flush, from either.   *)
(* One call of any kind serves the request.                                *)
(***************************************************************************)

BeginProcess ==
  /\ place["audio"] = "idle"
  /\ Go("audio", "offer")
  /\ wanted' = FALSE
  /\ status' = "called"
  /\ UNCHANGED <<pending, lock, editor, edited, received, refused, refusals,
                 parameter, buffers, events, heard, memory, scratch, channel>>

\* params_flush applies the input events before it drains.
BeginFlush(t, list) ==
  /\ wanted
  /\ place[t] = "idle"
  /\ parameter' = Applied(list, parameter)
  /\ Go(t, "offer")
  /\ wanted' = FALSE
  /\ UNCHANGED <<pending, lock, editor, edited, received, refused, refusals,
                 block>>

InProcess(t) == t = "audio" /\ status = "called"

Drained(t) == Go(t, IF InProcess(t) THEN "body" ELSE "idle")

\* Slip: a host that refused once is not asked again.
TryLockUnlessRefused(t) ==
  /\ place[t] = "offer"
  /\ \/ lock = None /\ ~ refused /\ lock' = t /\ Go(t, "drain")
     \/ (lock # None \/ refused) /\ UNCHANGED lock /\ Drained(t)
  /\ UNCHANGED <<pending, editor, edited, received, wanted, refused, refusals,
                 parameter, block>>

\* drain_output_parameter_events: a queue in use is left for another time.
TryLock(t) ==
  /\ place[t] = "offer"
  /\ \/ lock = None /\ lock' = t /\ Go(t, "drain")
     \/ lock # None /\ UNCHANGED lock /\ Drained(t)
  /\ UNCHANGED <<pending, editor, edited, received, wanted, refused, refusals,
                 parameter, block>>

Accept(t) ==
  /\ place[t] = "drain" /\ pending # <<>>
  /\ received' = Append(received, Head(pending))
  /\ pending' = Tail(pending)
  /\ UNCHANGED <<lock, editor, edited, wanted, refused, refusals,
                 place, parameter, block>>

\* Slip: a refused edit goes to the end of the queue.
RefuseToTheEnd(t) ==
  /\ place[t] = "drain" /\ pending # <<>> /\ refusals < MaxRefusals
  /\ refusals' = refusals + 1
  /\ pending' = Append(Tail(pending), Head(pending))
  /\ refused' = TRUE
  /\ lock' = None
  /\ Drained(t)
  /\ UNCHANGED <<editor, edited, received, wanted, parameter, block>>

\* The edit goes back to the front.
Refuse(t) ==
  /\ place[t] = "drain" /\ pending # <<>> /\ refusals < MaxRefusals
  /\ refusals' = refusals + 1
  /\ pending' = <<Head(pending)>> \o Tail(pending)
  /\ refused' = TRUE
  /\ lock' = None
  /\ Drained(t)
  /\ UNCHANGED <<editor, edited, received, wanted, parameter, block>>

Exhaust(t) ==
  /\ place[t] = "drain" /\ pending = <<>>
  /\ refused' = FALSE
  /\ lock' = None
  /\ Drained(t)
  /\ UNCHANGED <<pending, editor, edited, received, wanted, refusals,
                 parameter, block>>

-----------------------------------------------------------------------------
(***************************************************************************)
(* The rest of process.  An error, and a processor that is busy or absent  *)
(* (Lifecycle), end the block with its events unread.                      *)
(***************************************************************************)

Return ==
  /\ buffers' = None /\ events' = <<>> /\ heard' = "default" /\ memory' = None
  /\ scratch' = Silent /\ channel' = 0
  /\ status' = "none"
  /\ Go("audio", "idle")

Reject(b) ==
  /\ place["audio"] = "body"
  /\ ~ Valid(b)
  /\ Return
  /\ UNCHANGED <<queue, parameter>>

Sleep ==
  /\ place["audio"] = "body"
  /\ Return
  /\ UNCHANGED <<queue, parameter>>

Hear(b, list) ==
  /\ place["audio"] = "body"
  /\ Valid(b)
  /\ buffers' = b /\ memory' = Untouched(b)
  /\ events' = list
  /\ parameter' = Applied(list, parameter)
  /\ Go("audio", "heard")
  /\ UNCHANGED <<queue, heard, scratch, channel, status>>

\* engine_params
Snapshot ==
  /\ place["audio"] = "heard"
  /\ heard' = parameter
  /\ channel' = 1
  /\ Go("audio", "gather")
  /\ UNCHANGED <<queue, parameter, buffers, events, memory, scratch, status>>

\* No port at all, or ports of different sample types.
GiveUp ==
  /\ place["audio"] = "gather" /\ channel = 1
  /\ (buffers.input = None /\ buffers.output = None) \/ SampleType(buffers) = None
  /\ Return
  /\ UNCHANGED <<queue, parameter>>

Gathered(ch) ==
  [i \in 1 .. MaxFrames |->
    IF i <= Frames THEN memory[SampleType(buffers)][buffers.input.cells[ch]][i]
    ELSE scratch[ch][i]]

\* Slip: each channel is heard as soon as it is read.
GatherStraight ==
  /\ place["audio"] = "gather" /\ channel <= Channels
  /\ buffers.input # None \/ buffers.output # None
  /\ SampleType(buffers) # None
  /\ scratch' = IF channel <= Width(buffers.input)
                THEN [scratch EXCEPT ![channel] = Gathered(channel)]
                ELSE scratch
  /\ memory' =
       IF channel <= Width(buffers.output)
       THEN [memory EXCEPT ![SampleType(buffers)][buffers.output.cells[channel]] =
              [i \in 1 .. buffers.frames |->
                IF i <= Frames THEN Wet(channel, scratch'[channel][i]) ELSE @[i]]]
       ELSE memory
  /\ channel' = channel + 1
  /\ UNCHANGED <<queue, place, parameter, buffers, events, heard, status>>

\* A channel the input does not have keeps what scratch held.
Gather ==
  /\ place["audio"] = "gather" /\ channel <= Channels
  /\ buffers.input # None \/ buffers.output # None
  /\ SampleType(buffers) # None
  /\ scratch' = IF channel <= Width(buffers.input)
                THEN [scratch EXCEPT ![channel] = Gathered(channel)]
                ELSE scratch
  /\ channel' = channel + 1
  /\ UNCHANGED <<queue, place, parameter, buffers, events, heard, memory, status>>

\* process_block, in place on the scratch channels.
Engine ==
  /\ place["audio"] = "gather" /\ channel = Channels + 1
  /\ scratch' = [ch \in 1 .. Channels |->
                  [i \in 1 .. MaxFrames |->
                    IF i <= Frames THEN Wet(ch, scratch[ch][i]) ELSE scratch[ch][i]]]
  /\ channel' = 1
  /\ Go("audio", "scatter")
  /\ UNCHANGED <<queue, parameter, buffers, events, heard, memory, status>>

\* The scratch channel an output channel is fed from.
Feed(ch) == Min({ch, Channels})

Scatter ==
  /\ place["audio"] = "scatter" /\ channel <= Width(buffers.output)
  /\ memory' =
       [memory EXCEPT ![SampleType(buffers)][buffers.output.cells[channel]] =
         [i \in 1 .. buffers.frames |->
           IF i <= Frames THEN scratch[Feed(channel)][i] ELSE @[i]]]
  /\ channel' = channel + 1
  /\ UNCHANGED <<queue, place, parameter, buffers, events, heard, scratch, status>>

Finish ==
  /\ place["audio"] = "scatter" /\ channel = Width(buffers.output) + 1
  /\ Return
  /\ UNCHANGED <<queue, parameter>>

-----------------------------------------------------------------------------
Gui == Edit \/ Unlock \/ RequestFlush
Drain(t) == TryLock(t) \/ Accept(t) \/ Refuse(t) \/ Exhaust(t)
Leave == Sleep \/ \E b \in Shapes : Reject(b)
Play ==
  \/ Snapshot \/ GiveUp \/ Gather \/ Engine \/ Scatter \/ Finish
  \/ \E b \in Shapes : \E list \in EventLists : Hear(b, list)

Next ==
  \/ Gui
  \/ BeginProcess
  \/ \E t \in Callers, list \in FlushLists : BeginFlush(t, list)
  \/ \E t \in Callers : Drain(t)
  \/ Leave \/ Play

(***************************************************************************)
(* A thread that runs goes on, and a host that processes goes on           *)
(* processing.  It need not flush, and it may refuse edits, but not for    *)
(* ever (MaxRefusals).                                                     *)
(***************************************************************************)
Fairness ==
  /\ WF_vars(Unlock \/ RequestFlush)
  /\ WF_vars(BeginProcess) /\ WF_vars(Leave \/ Play)
  /\ \A t \in Callers : WF_vars(Drain(t))

Spec == Init /\ [][Next]_vars /\ Fairness

-----------------------------------------------------------------------------
(***************************************************************************)
(* Every edit is with the host or in the queue, once, and in the order the *)
(* user made them, whatever the host refuses and whoever drains            *)
(* (params.rs: discarding an unsent edit would drop an automation          *)
(* gesture).                                                               *)
(***************************************************************************)
NoGestureLost == received \o pending = [i \in 1 .. edited |-> i]

(***************************************************************************)
(* An edit that waits while nobody is about to take it has been refused,   *)
(* or the host still owes a call: the drain that finds the queue in use    *)
(* and gives up strands nothing (params.rs: "request_flush to the host was *)
(* already issued when the edit was enqueued").                            *)
(***************************************************************************)
NoneStranded ==
  (pending # <<>> /\ editor = "idle" /\ \A t \in Callers : place[t] \notin {"offer", "drain"})
    => wanted \/ refused

(***************************************************************************)
(* Every edit reaches a host that goes on processing: a drain that found   *)
(* the queue in use, or was refused, is made up for by a later one.        *)
(***************************************************************************)
EditsArrive == \A n \in 1 .. MaxEdits : (edited >= n) ~> (Len(received) >= n)

(***************************************************************************)
(* When a block ends, every channel of the output is the engine's answer   *)
(* to the samples the host passed in this block, whatever memory the two   *)
(* share, up to max_frames; nothing else of the host's memory is written.  *)
(* The input has at least the channels of the processor.                   *)
(***************************************************************************)
BlockIsThisBlocks ==
  (/\ place["audio"] = "scatter" /\ channel = Width(buffers.output) + 1
   /\ Width(buffers.input) >= Channels) =>
     \A type \in {"f32", "f64"} : \A cell \in Cells : \A i \in 1 .. buffers.frames :
       memory[type][cell][i] =
         IF type = SampleType(buffers) /\ i <= MaxFrames
              /\ \E ch \in 1 .. Width(buffers.output) : buffers.output.cells[ch] = cell
         THEN LET ch == CHOOSE ch \in 1 .. Width(buffers.output) :
                          buffers.output.cells[ch] = cell
              IN  Wet(Feed(ch), Origin(type, buffers.input.cells[Feed(ch)], i))
         ELSE Origin(type, cell, i)

(***************************************************************************)
(* The engine runs with the last value the host automated in this block,   *)
(* though events before or after it could not be read; unless a flush      *)
(* elsewhere set the parameter since.                                      *)
(***************************************************************************)
AutomationHeard ==
  (/\ place["audio"] \in {"gather", "scatter"}
   /\ \E i \in DOMAIN events : events[i] \notin {"lost", "other"}) =>
     \/ \E i \in DOMAIN events :
          /\ events[i] = heard
          /\ \A j \in i + 1 .. Len(events) : events[j] \in {"lost", "other"}
     \/ \E list \in FlushLists : \E i \in DOMAIN list : list[i] = heard
=============================================================================
