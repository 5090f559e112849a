# open-conv: a verification project

`open-conv` is a convolution reverb plugin (CLAP, with VST3/AU/AAX wrappers)
written in Rust.  A block of input is split by level into zones; every zone
convolves its share with a mixture of four impulse responses (IRs), one per
corner of an XY pad; IRs are swapped while sound runs through them.  This
directory holds TLA+ models of the parts of it, of the frame it is
built on and of its build tool whose correctness is a matter of protocol and
bookkeeping rather than of signal processing, the TLC runs that
check them on small instances, and proofs of the facts that should hold for
every size.

Contents: [inventory](#inventory) · [plan](#plan) · [Corner](#corner) ·
[CornerProofs](#cornerproofs) ·
[Reconcile and LatestWins](#reconcile-and-latestwins) · [ReconcileProofs](#reconcileproofs) ·
[Plugin](#plugin) ·
[Lifecycle](#lifecycle) · [LifecycleProofs](#lifecycleproofs) ·
[GuiController](#guicontroller) · [GuiControllerProofs](#guicontrollerproofs) ·
[GuiSize](#guisize) · [GuiSizeProofs](#guisizeproofs) · [Process](#process) ·
[ProcessProofs](#processproofs) · [RtLog](#rtlog) · [RtLogProofs](#rtlogproofs) ·
[Build and Rules](#build-and-rules) · [BuildProofs](#buildproofs) ·
[runs and bounds](#runs-and-bounds) ·
[what the proofs assume](#what-the-proofs-assume) ·
[disagreements found](#disagreements-found) · [what is not modelled](#what-is-not-modelled)

## Inventory

Paths are relative to `src/`; `oc/` stands for
`wrac/plugins/open-conv/src-plugin/src/`.

| Component | State | Operations | Talks to |
|---|---|---|---|
| **Corner convolver** `rt/engine/src/lib.rs` `Branch` and its part of `Engine` | H bank and `active_k`; `pending` swap (set, cursor, history); `live` voice, `ringing` slots; `tail_pool`; `retired`; `was_skipped` | `queue_partition_set`, `process_frame`, `take_retired`, `set_source_ir_at`, `service`, `reset`, `tail_samples` | called by the processor (audio thread) or by the CLI |
| **Zones, shaper, meters, viz ring** same file | window weights, envelope, meters, ring of viz frames | `process_block`, `viz_pop` | feeds the corners |
| **IR renderer and banks** `lib.rs` `IrRenderer`, `banks.rs` | none | `render`, `render_bank` | called by the worker |
| **Processor** `oc/audio.rs` | what was last synced, dirty flag, load generation, debounce count | `new`, `process`, drop | reads shared parameters; sends `Sync`/`Dispose`, receives sets; drives the engine |
| **IR worker** `oc/audio.rs` `worker_main` | `loaded_gen`, cached sources | receive and coalesce, load, render and send, exit | the other end of both channels; reads the watched folder |
| **Shared parameters, project state** `oc/state.rs`, `oc/plugin/params.rs`, `oc/plugin/state.rs` | one atomic per parameter | set, snapshot, save, restore | written by host threads, read by the processor |
| **Audio ports** `oc/plugin/audio_ports.rs` | channel layout | query, apply configuration | read on activation |
| **Plugin instance** `wrac/crates/wrac_clap_adapter/src/abi.rs` | `core` lock, `processor` slot with `processor_busy`, `lifecycle_busy`, `gui_callback_busy` | `activate`, `deactivate`, `process`, `reset`, `start_processing`, `destroy` | every host thread |
| **Entry** same file, `entry.rs`, `factory.rs` | init count | init, deinit, create plugin | host |
| **Parameter edit queue** `.../params.rs` | deque of edits | push and `request_flush` (GUI), drain (`process` or `flush`) | GUI thread, audio thread, host |
| **Buffers and events** `.../process_buffer.rs`, `.../events.rs` | none beyond a block | validate, typed channels, aliasing; iterate input events | host memory; the processor's `scratch` |
| **Real-time log** `wrac/crates/wrac_log/src/rt.rs` | ring of slots with sequence numbers | write (any thread), drain | file log |
| **File log** `.../file_logger.rs` | current file, rotation | log, rotate | |
| **GUI controller, thread lease, session** `wrac/crates/wrac_wxp_gui/` | session, generations, single-flight flag, lease count | create, set_parent, show, hide, destroy, posted creation | host GUI thread, run loop |
| **Editor size** same crate, `controller.rs`, `session.rs`, `dpi.rs`, `resize_drag.rs`, `commands/resize.rs` | the size answered to the host, its revision, scale; the WebView session's size; bounds of the child view; the current drag | `set_size`, `set_scale`, `request_resize`, drag begin, resize and end | host, frontend |
| **Host context** `wrac_host_context` | none | detection table | |
| **CLI** `rt/cli/src/main.rs` | none of its own | offline render | drives the engine |
| **Build tool** `wrac/crates/wrac_xtask/` (`plan.rs`, `commands.rs`, `metadata.rs`, `validation/`) | statuses of a command's tasks; on disk: the GUI's `dist`, libraries, cmake caches and stamps, bundles, installed plug-ins, downloaded validators, results | `build`, `install`, `uninstall`, `validate`, `clean`, `launch` | cargo, npm, cmake, validators, the file system |
| **Build helpers** `wrac_build`, `build.rs`; **wrapper** `clap_wrapper_builder`; **lab** `lab/`, `tools/` | | | |

What is hard in it, and what correctness means there:

* *Corner.*  A new set may arrive in any frame of a swap, of any length, and
  displace it; morph, fade and ring depth are read anew in every frame; an
  Ungated set turns the bank into silence and starts a voice, a Gated one the
  reverse.  Nothing may be freed or allocated: sets and buffers move between
  `pending`, `live`, `ringing`, `tail_pool` and `retired`, each of fixed size.
  Correct means: the bank holds exactly the newest set when a swap is over, no
  old partition comes back, voices divide the input exactly, no set or buffer
  is lost or dropped, nothing audible is cut.
* *Processor and worker.*  Two threads, two unbounded channels, a debounce, a
  cache and a coalescing queue.  Correct means: the newest request wins on
  every corner, no change is forgotten, a set is made from the sources its
  request meant, and the worker ends.
* *Plugin instance.*  The host's threads are not trusted to follow CLAP's
  rules; two flags guard the processor.  Correct means: exclusive access, no
  leaked or resurrected processor, no deadlock between callbacks.
* *GUI controller and sizes.*  The runtime of an editor is made by a callback that
  arrives later, perhaps for an editor that is gone; while it is made the host may
  call again.  A size has three owners, and a request for one may find the host
  setting another before it answers.  Correct means: no runtime is left behind or
  given to the wrong editor, and the view ends up as large as the host believes.
* *Edit queue, buffers, events.*  The GUI pushes while two host threads may drain,
  and the host may refuse an edit; input and output may share memory in any order
  of channels.  Correct means: gestures arrive once and in order, nothing is
  stranded, an output is the answer to this block's input.
* *Log ring.*  Writers never wait, so that they overtake the reader and each other.
  Correct means: a logged record is whole, and what is not logged is announced.
* *Build tool.*  Commands fail or are killed half way and the next one starts from
  what they left; sources change between and during commands.  Correct means: what a
  successful command has installed, opened or validated is this build, whole.

`PROJECT.json` lists every hazard at its line with the property that covers it,
or the reason why none does yet.

## Plan

Done, in this order:

1. `Corner` — one corner convolver; `CornerProofs` — its types, the
   conservation of its buffers, the sufficiency of `RETIRED_SLOTS`, and what is
   heard: swaps, tails, epochs, evictions.
2. `LatestWins`, `Reconcile` — the control protocol between processor and
   worker, and the promise it implements; `ReconcileProofs` — its safety.
3. `Lifecycle` — the guards of a plugin instance; `LifecycleProofs` — its safety
   properties for any number of threads.
4. `GuiController` — sessions, generations and the creation posted to the run loop;
   `GuiControllerProofs` — who owns the WebViews.
5. `Process` — edits, events and audio across `process` and `flush`;
   `ProcessProofs` — its safety properties.
6. `RtLog` — the ring of the real-time log and its one drain; `RtLogProofs`.
7. `GuiSize` — size and scale of the editor, requests and drags; `GuiSizeProofs`.
8. `Rules`, `Build` — the build tool: its planning, its disk, its failures;
   `BuildProofs` — what a successful command has done.
9. `Plugin` — `Reconcile` and `Corner` composed: sets reach a corner when the worker
   has made them, and what that does to "never hard-cut".

Next:

* `CornerControl` — `service` on the control thread.
* `GuiController` and `GuiSize` composed: a size that comes from another thread
  while a runtime is made.

Every invariant and action property of the runs is a theorem, and every liveness property
of theirs has its safety half proved, but for the fairness in `KeepsPromise`.

## Corner

One `Branch`: a corner of a zone for one channel group.  Zones, corners and
channels do not share any of this state, so one of each is enough.

| TLA+ | Code |
|---|---|
| `h`, `activeK` | the H partitions (`Zero`; `Cur`: exactly the newest set's; `Old`: anything else) and `active_k` |
| `pending` | `Pending`: length of the set (0: fade to silence), cursor, `eff_k`, cursor history |
| `live`, `ringing` | the epoch voices; ages and epoch lengths in frames, gains as the number of halvings |
| `pool`, `retired` | entries in `tail_pool` and `retired` |
| `htail`, `tail` | overlap-add tails: `Empty`, `Fresh` (of the last frame), `Stale` (older) |
| `skipped` | `was_skipped` |
| `QueueGated`, `QueueUngated` | `queue_partition_set` in its two tail modes, with `freeze_live` |
| `Frame` | `process_frame` for this corner: swap, tails, ageing, death |
| `Drain` | the processor's loop around `take_retired` |
| `InstallSource`, `StreamSource`, `Reset` | `set_source_ir_at` in its two cases, `reset` |
| `dropped`, `queued`, `newest`, `freezeCap` | ghosts: a set was freed on the audio thread; sets since the last drain; the length of the set last given to the bank; the cap of the last freeze |

`Frame` takes morph (as whole partitions per frame), fade, ring cap and the
audibility of the corner weight as inputs that may differ in every frame, as
parameters do.  `PluginSpec` is what the plugin does; `Spec` adds the control
path other owners of the engine have.

The sound itself is gone: a partition is compared with the set it should come
from, a tail with the frame it was left by, a gain with its number of halvings.
That is what the properties need: whether a blend *ends* in the target is a
question about cursors, not about samples.

`SettledExact` compares the whole bank with `newest`, so it also says that a swap to a
shorter set has silenced what lies beyond it ("zero beyond active_k").

`EvictedHasFaded` is what the proactive marking of `freeze_live` achieves, whatever the
times at which sets come: the voice a freeze removes has been fading in *every frame
since the freeze before*.  It excepts a cap that has been changed between the two
freezes, which leaves a voice in the way that nobody marked, and slots that were all
filled by sets of one frame, none of which may be marked (`age > 1`); a ring of one
voice, whose voice is always the youngest, is of this kind.  How many frames there are
between two freezes is not the corner's to say: that is `NeverHardCut` of
[Plugin](#plugin).

`NeverMute` and `OneListener` hold for what the plugin does (`PluginSpec`).
Under `Spec` they do not: `reset` (lib.rs:701-705) retires an Ungated live voice
with the only IR of the corner, although its doc says it keeps loaded IRs, and
`set_source_ir_at` (lib.rs:776) installs into the bank of a corner whose live
voice still listens.  The plugin calls neither while a voice is live.

## CornerProofs

Unless said otherwise the theorems are about `Spec`, so they cover the control path too;
all hold for every value of the constants that satisfies `CornerAssumption`.

* `TypeCorrect`: `TypeOK` always.
* `PoolConservation`: `PoolConserved` always.  The two are proved from one
  inductive invariant, `PoolInv == StateOK /\ PoolConserved`: the range of
  `pool` follows from the balance, not the other way round, since the code never
  looks at the length of the pool before it pops.  The heart of the step is how
  `Occupied` changes when a voice is frozen (into a free slot, or by evicting
  another) and when the dead are removed; `freeze_live` and the frame have
  lemmas of their own.
* `NeverDropped`: if `RetiredSlots >= RingSlots + 1 + QueuesPerDrain`, no set
  is ever dropped on the audio thread.  `~ dropped` is not inductive.  The
  invariant, `DropInv`, bounds what could still be parked before the next
  drain: the sets owned by the corner (parked, pending, live, ringing) are at
  most `RingSlots + 1 + queued`, because every queued set adds one, everything
  else only moves sets, and a live voice and a streaming set exclude each other.

With the code's 12, 8 and the three sets per drain that `SetsPerDrain` of
`Reconcile` bounds, the assumption of `NeverDropped` reads `12 >= 8 + 1 + 3`: the
capacity is exactly enough.

The rest is about what a listener could hear, from `StateOK` and an invariant each.

* `SwapsSettleExactly` (`SettledExact`), at the length of the newest set and with zero
  beyond it.  `SwapInv` adds `Streaming`, the relation
  between the swap and its history: past cursors descend, the newest is the cursor, none
  is beyond `eff_k`, and a partition below the cursor of `MaxFade - 1` frames ago is
  exactly the target's.  The last is the heart.  A frame moves every stage by one and
  writes each partition once for every stage that passes it, the last of which is exact;
  the swap ends when all have passed.  The code truncates only what lies above.
* `TailsAreFresh` (`NoStaleTail`).  `TailInv`: while the corner was gated in the frame
  before, all its tails are empty, in the bank and in every voice.
* `LagsAreSplit` (`EpochsDisjoint`), under `Spec`, not only under the plugin's calls.
  Epochs are disjoint by themselves; freezing turns the live voice's open epoch into a
  closed one that ends where the new one begins, and ageing moves all of them alike.
* `NewInputHeardOnce` (`OneListener`) and `CornerStaysAudible` (`NeverMute`), under
  `PluginSpec`, for the reason given under [Corner](#corner).  `NeverMute` is an action
  property.
* `EvictionsAreFaded` (`EvictedHasFaded`), under `Spec`, for any ring, caps that move and
  sets at any times.  `FadeInv` says that when all slots of the last cap are full and
  were not frozen together, one of the voices in them has been fading since the youngest
  was frozen.  It takes that the oldest healthy voice, which the code picks, is not the one
  just frozen, which the code exempts; that a dying voice goes on dying while the cap
  moves and comes back; and that the quietest of the dying has faded longest.

What is left of `SwapSettles` and `VoicesRingOut` is counted in frames, under `Spec` and
whatever morph, fade, caps and gates are in each of them:

* `SwapsMeetTheirDeadline`: a streaming swap is over `MaxParts + MaxFade + 1` frames after the
  last set was handed over.  `SwapWithin(n)` says that `n` frames are enough: what the
  cursor has to go, and the stages of the history that have not passed `eff_k`.  Every
  frame lowers `n`, nothing but another set raises it (`SwapCountsDown`).
* `VoicesMeetTheirDeadline`: a frozen voice is gone within `MaxParts` frames
  (`RingsCountDown`), since it ages also while it is gated.

With the real numbers that is the bound a host could rely on; that there is a next frame
is the fairness TLC assumes.

## Reconcile and LatestWins

The processor's `process` is split where the other thread can be seen: reading
`size` (`BeginBlock`), reading banks and `reload` and sending or not
(`SendSync`, `DeferSync`), each `try_recv` (`Accept`), the rest (`EndBlock`).  The
worker is split into taking the queue (`Receive`), reading one corner's sources
(`LoadCorner`), rendering and sending one corner's set (`RenderCorner`), and
ending (`Exit`).  Parameters, the reload switch and the folder change at any
point.

Abstractions: size and damping are one number compared with a tolerance; the
banks are read together (four loads in a row in the code; a mixture is one of the
states between single changes); a corner's four zones are one; spent sets sent
back for disposal carry no state and are not messages.

`LatestWins` is what the comments promise ("desired-state reconciliation", "the
latest render always lands last"): every place moves to newer requests only, may
skip some, and ends up with the last while the plugin is active.  `Reconcile`
implements it with `shown` = the serial of the installed set (`KeepsPromise`).
`Settles` says what that means to the user: banks, size and files are in the end
the wanted ones.  `SetsMatchRequest` is what makes the cache of sources safe.

Fairness: `WF_vars(Process)`, the host keeps calling `process` while the plugin
is active (a host that stops hears nothing either way), and `WF_vars(Worker)`, the
operating system runs the worker.  Neither is assumed of `Deactivate` or of
parameter changes.

## ReconcileProofs

For any number of corners, of Syncs and of blocks, any banks, any sizes and any window.

* `SetsAnswerTheirSync` (`SetsMatchRequest`).  A cache is right if what it holds answers
  every request that would hit it, so `Loaded` says of the sources read in generation
  `loadedGen` that they answer *every* Sync of that generation; `Generations` that one
  generation asks for one thing (banks and files), because `load_gen` is raised whenever
  they change; `Remembered` that the audio thread knows the last Sync.  Nothing is said
  of size, which each Sync carries.
* `ThreeSetsPerDrain` (`SetsPerDrain`).  `Bounded` counts what may still reach a corner
  before the next drain: sets landed, sets in flight (as serials, of which
  a corner has one each), one that the worker is to make, one for all that waits in the
  channel, however much, and one for the Sync of this block.  That waiting Syncs count
  as one is the worker's coalescing.  With it the assumption of `NeverDropped` is a
  theorem's conclusion.
* `ProtocolImplementsLatestWins`: `Reconcile` implements `LatestWins` step by step, that
  is `Promise!Safety`.  `InOrder` (sets of a corner are in flight in the order of their
  Syncs, behind the one installed) makes every installation a newer one.
  `KeepsPromise` itself adds fairness and stays with TLC.
* `NothingLeftBehind` (`RestsOnTheWanted`) is the safety half of `Settles`: when the worker
  waits, both channels are empty and no change is due, every corner plays its wanted
  bank, within the tolerance of the size, from files as new as the last change noticed.
  So no order of debounce, coalescing and cache hits ends with a corner forgotten.
  `RestInv` follows the last Sync to where it is: in the channel or taken up
  (`Newest`), and for each corner rendered and on its way or installed (`Delivered`).

## Plugin

`Reconcile` and `Corner` as one specification (`INSTANCE` of each, and a conjunction per
step that both take part in): `Accept` is the worker's message for the one and
`queue_partition_set` for the other, `EndBlock` the end of the block for the one and the
drain for the other; then the frames of the block run.  One corner, blocks of whole
frames, and Ungated on for good, which is where voices are evicted.  Everything else is
unchanged: the host, the user and the worker act between any two steps.

The documents promise that a room is not cut while it can be heard: "the oldest fades out
over ~50 ms to make room (never hard-cut)" (PARAMS.md:35), "a hard removal thus only
touches voices that are 54 dB down or more" (DSP.md:237-238).  `NeverHardCut` says so, and
`plugin_burst` finds it violated.  The debounce spaces the *Syncs*.  A set arrives when it
has been rendered: a worker that is late with one answer and quick with the next delivers
the two less than a debounce apart, or in one block, and the second freeze takes a voice
that has hardly begun to fade.

How late is late?  If the worker answers each Sync before the block after it, the property
holds (checked with up to five changes, by putting that condition into the guards of a
copy).  One block of jitter is enough to lose it.  The real numbers leave little: 50 ms at
48 kHz are 9.4 frames of 256 samples, and 54 dB take 9 halvings, 48 ms.  Rendering a long
set takes longer than the two milliseconds between them.

The counterexample needs a full ring; the run has two slots, sets of nine partitions, a
debounce of two frames and calls a voice inaudible after two halvings.

## Lifecycle

A plugin instance seen from the host: two flags, the slot, and per thread the
callback it is in (`call`), where in it (`at`) and what is on its stack (`owned`).

| TLA+ | Code (`abi.rs`) |
|---|---|
| `Begin` | the host's call; from here on the callback has the instance (`from_plugin`) |
| `Refuse` | the early returns before a flag, and a flag that is taken |
| `Borrow`, `GiveBack` | `with_processor_mut` in `process`, `reset`, `start_processing`, `can_apply` |
| `Answer` | what `can_apply` does with the instance after it has given the flag back (`configurable_audio_ports.rs:40-54`) |
| `Enter`, `Check`, `Look` | `try_enter_lifecycle`, `has_processor_or_busy` in `activate` and in `configurable_audio_ports.apply` |
| `Configure` | `apply_audio_port_configuration` |
| `Create`, `Put`, `Store` | `PluginCore::activate`, `put_processor_blocking` |
| `EnterBlocking`, `Reclaim`, `Take`, `Teardown` | `deactivate` and `destroy` |
| `Leave`, `Free` | the drop of `LifecycleGuard`; the `Box::from_raw` of `destroy` |

Each compare-exchange is one step, and so is each release; what a callback does before
its flag is one place (`"enter"`), and so is what `can_apply` does after it (`"tail"`).

One thing is asked of the host: it begins no callback once it has begun `destroy` (CLAP
says so), and a thread begins one when it is in none.  Everything else CLAP asks (which
thread, which order, activate only when inactive, nothing under way when `destroy` comes)
the code does not rely on, and neither does the model.  When the instance is freed
(`gone`) the model stops: what a callback still inside would do it does not say.

`ExclusiveSlot` is the soundness of the `UnsafeCell`.  `OneProcessor` and
`LayoutInForce` are about `activate`, which looks for a processor, lets the flag go,
builds one and stores it: three steps in which only `lifecycle_busy` keeps others
out.  `Reclaimed` is about `deactivate` and `destroy` racing audio callbacks.

`NobodyInside` says exactly how far `destroy` waits.  A comment (abi.rs:298-301) says that
it "never frees the instance while process() holds a temporary Processor borrow", and so
it is: whoever had won a flag when `destroy` took the processor has returned when the
instance goes.  But a callback uses the instance also before its flag (`process` drains
edits, `apply` converts its requests), and `can_apply` after it; those `destroy` finds there
(`unguarded`) it does not wait for.  A `process` of that kind may even win the flag
after `destroy` has looked, and an `activate` slip in after the guard was dropped.  The
property leaves out these and nothing else.

Fairness: a thread inside a callback runs on (`WF_vars(Proceed)`), and one that
spins gets the flag if it is free again and again (`SF_vars(Win)`): the spin loops
yield and try again, and audio callbacks leave gaps between each other.  Nothing is
assumed of the host's beginning anything.

## LifecycleProofs

The safety properties hold for any set of threads and layouts.  The inductive
invariant `Inv` adds to them what the flags stand for: `GuardHeld` and `SlotHeld`
(a flag is set while somebody is in its section, and one thread at most is),
`RightPlace` (which callbacks pass where), `SlotEmpty` (where the slot is known to be
empty, `activate` from its look to its store and cleanup from its take to its
return) and, for `FreedAlone`, who can be inside once `destroy` has taken the processor:
those it found unguarded, and no others, since nobody begins any more.
`SlotEmpty` is the heart: what `activate` saw under `processor_busy` stays true after
that flag is given back, because only the holder of `lifecycle_busy` fills the slot.
`Reclaims` proves an action property from the same invariant.

Two theorems are the safety half of `CallbacksReturn`.  `NoFlagLeaks` (`FlagsReturned`): a
flag that is set is somebody's, so every way out of every callback gives it back.
`NobodyDeadlocks` (`SomebodyMoves`): while a callback is under way one of them can go on.
It holds because who waits for `processor_busy` may hold `lifecycle_busy`, but never the
other way round.

## GuiController

The editor of an instance.  `open-conv` itself ships without one, but the crate is
part of its workspace and of its sibling plugins' frame.

| TLA+ | Code (`controller.rs`) |
|---|---|
| `session`, `generation`, `creating`, `pending`, `destroyRequested` | `GuiRuntimeState`; `is_creating_runtime` and `creating_generation` are set and cleared together and are one |
| `runtimes`, `made` | `GUI_RUNTIMES`, `NEXT_GUI_ID` (`runtime.rs`) |
| `posted`, `task`, `request`, `fresh` | the run loop, the posted callback, its captures and the handle on its stack |
| `BeginDestroy`, `TakeSession`, `DropSession`, `Open` | `destroy` and `create` |
| `SetParent` | `set_parent`, whole: it and the posted callback come on one thread |
| `BeginShow`, `BeginHide`, `ShowOrHide`, `ShowSchedules`, `Mark` | `show`, `hide` |
| `Scheduled`, `Unscheduled`, `Refused` | the outcomes of `schedule_runtime_creation` |
| `Start` … `Store` | the posted callback, a step per lock section |
| `TakePending`, `Again` | `schedule_pending_runtime_creation` |

The host's callbacks are serialized by the adapter's try-lock, so the host is one
program counter.  It comes on the GUI thread, and then alternates with the posted
callback, or on another, and then runs between its steps and waits for the GUI
thread in `RunLoop::call`.  The run loop is a library; that it forgets posts when its
last lease goes is allowed by `Forgets` and assumed nowhere.  Size and scale are
`GuiSize`'s subject.

`AllOwned` matters because a handle is a number: dropping one destroys nothing.  With
`ClosedEditorGoes` it says that no runtime outlives its editor, whatever the order of
posts, destroys and failures; `OwnSession` that none ends up in another's session.

Fairness: callbacks the host has begun end, and the run loop runs.  The host need
not call anything again.

## GuiControllerProofs

`WebViewsAreOwned` (`AllOwned`) and `RuntimesStayInTheirSession` (`OwnSession`) hold for
any number of calls, failures and windows, on either thread.  The invariant adds
`Holding` (the posted callback holds a runtime exactly between its making and its end,
that runtime is not the session's, and was made for the callback's request), `Taken` (a
callback about to drop a session or to open one has taken the old one: this is why
`open` overwrites no handle), `Youngest` (generations only rise, and a session with a
runtime has a window) and `Scheduling` (a creation was asked for by a session that had a
window).  The last one is not obvious: `Store` puts a runtime into a session without
looking at its window, and the next `drop_session` destroys runtimes of sessions with a
window only.  It holds because the window of a session is replaced, never taken away.
The proof does not need the single-flight flag: ownership is safe without it.

`ClosedEditorsLeaveNothing` (`ClosedIsGone`) is the safety half of `ClosedEditorGoes`: when
the editor is closed and neither the posted callback nor the host's is in the middle of
making or dropping a runtime, none is left.

## GuiSize

How large the editor is, in the three places that know it.

| TLA+ | Code (`wrac_wxp_gui`) |
|---|---|
| `accepted` | `HostGuiLayout.accepted_size`; that its revision has moved is `asking.confirmed` |
| `scale` | the controller's scale, which the resize handle shares |
| `session`, `making`, `given` | `GuiSession`'s scale and parent; whether a runtime is posted or being made, and what the factory was given |
| `runtime`, `shown` | the WebView session's size and scale; the bounds last posted to the child view |
| `resync` | the resizes posted for Cubase |
| `asking` | a `request_resize` that is inside the host |
| `drag`, `grip`, `late` | `WxpNativeResizeDrag`; the frontend's drag; ends not yet sent |
| `Create`, `Destroy`, `SetParent`, `SetScale`, `SetSize` | the host's callbacks, whole |
| `Make`, `Install`, `Resync` | the posted callback around the factory's call, the posted resync |
| `Begin`, `LetGo`, `EndLate` | the resize commands that begin and end a drag |
| `Request`, `Answer` | `request_gui_resize` and `request_resize` before and after the host's call |
| `Clamp`, `Logical`, `Gui`, `Bounds`, `ClampLogical` | limits, `DpiConverter`, bounds per system |

Every call is on the GUI thread, as CLAP asks; what makes orders interesting is that
a WebView under construction pumps the run loop, so that host calls fall between
`Make` and `Install`, and that a host may call anything inside `request_resize`.  One
axis stands for two.

The code keeps scales and logical sizes in `f64`.  Here they are whole numbers of
fractions, `ScaleUnit` of which make a scale of 1 and `LogicalUnit` a logical size of 1,
chosen so that every size divided by every scale is whole
(`(LogicalUnit * ScaleUnit) % s = 0`): there are such units for any rational scales, so
1.25, 1.75 or 2.0625 are as good as 1 and 2.  The arithmetic is then exact and `round()`
stays where the code has it (`Rounded`).  What is left out is the rounding of `f64`
itself, which could move a result that lies half way between two pixels.

Under Cubase on Windows the scale of the parent's monitor replaces the host's, which may
be any.  The frontend is external: it asks for any size, from any pointer position, in
this drag, an older one or none.

`SizeSettles` has one exception, `owed = "lost"`: a host that says yes to a request
and sets no size leaves the WebView session with the older size, which is laid out
again when the scale moves (see [disagreements](#disagreements-found)).
`HostHasTheLastWord` is the comment about Logic's wrapper (controller.rs:700-703) for
every order of sizes inside a request, a repeated one included.

There is no fairness: the properties are invariants.

## GuiSizeProofs

`ViewFollowsTheHost` (`SizeSettles`), `HostDecides` (`HostHasTheLastWord`) and
`DragsAreTheirOwn` (`DragKeepsItsStart`), for all sizes, limits, cursor positions,
numbers of drags and of posted resyncs, and any rational scales.

* `Laid` is `SizeSettles` with the resyncs still to come: a runtime that was told the
  accepted size has it or is resized to it *last*.  For the size a host agrees to
  without setting it (`"silent"`) the bounds were computed from the request, and `Asked`
  says that they are those of the size: `RoundTrip` proves that a size of the host
  survives the way to the frontend and back on every system and at every scale, in exact
  arithmetic.
* `Asked` also says that a request has seen the revision move exactly if the host has
  spoken since it was asked; with it, what `Answer` stores is what the host said last.
* `Standing` relates runtime, session, creation and requests: a request whose view is
  still open has a runtime, so that it has a session whose scale it can compare.
* `Dragging`: drags are numbered, and the end of the frontend's own is not yet sent.

## Process

What crosses the CLAP boundary in `process` and `flush`: edits outward, events inward,
audio both ways.

| TLA+ | Code |
|---|---|
| `pending`, `lock` | the deque and its mutex (`params.rs`) |
| `Edit`, `Unlock`, `RequestFlush` | the GUI's push, and its `request_flush` after the unlock |
| `BeginFlush`, `BeginProcess` | `params_flush` with its input events, `plugin_process` |
| `TryLock`, `Accept`, `Refuse`, `Exhaust` | `drain_output_parameter_events`, an edit a step |
| `Valid`, `Usable`, `SampleType`, `Reject`, `GiveUp` | `validate_buffers`, `common_sample_type` and the early returns (`process_buffer.rs`, `audio.rs`) |
| `Heeded`, `Applied`, `Hear`, `Snapshot` | `InputEventsIter`, `parameter_values`, `set_parameter_value`; `engine_params` |
| `Gather`, `Engine`, `Scatter`, `Finish` | the copy into `scratch`, `process_block`, the copy out |
| `Sleep` | a processor that is absent or busy (the subject of `Lifecycle`) |

An edit is its number, the parameters are one, and a sample is its origin, tagged with
the channel the engine made it in: enough to see which block, which channel and which
memory a result is from.  Buffers have 32-bit samples, 64-bit ones or both, and any
cells of host memory.  That `Gather` reads every channel before `Scatter` writes one is
what makes in-place buffers with exchanged channels work; `BlockIsThisBlocks` asks it
for each shape the run passes.  It supposes an input with the processor's channels, as
the declared ports have; with fewer, the rest of `scratch` keeps an earlier block.

`NoneStranded` is the argument in `params.rs` for leaving a queue that is in use:
somebody who will ask again is still on the way.  It excepts a refused edit, for which
nobody asks again; `EditsArrive` shows that a host that goes on processing takes it.

Fairness: a thread inside a call goes on, and the host goes on calling `process` — not
`flush`, which no host promises.  `MaxRefusals` bounds the refusals, without which
nothing could be promised; nothing is assumed of edits.

## ProcessProofs

* `EditsKept` (`NoGestureLost`) and `EditsMinded` (`NoneStranded`), from `QueueInv`: the
  host's edits and the queue's are the numbers from one on, cut in two (`Ordered`); the
  lock says who is in the queue (`Locked`); an edit that waits is somebody's business
  (`Minded`).  The step that matters is a drain that finds the queue in use: its owner
  is the other drain, which looks again before it leaves, or the editor, which has a
  `request_flush` to make.
* `LastValueHeard` (`AutomationHeard`): the values of a block and of a flush beside it
  are mixed in one shared parameter, and a block reads its own last or one the flush
  has sent.
* `OutputIsOfThisBlock` (`BlockIsThisBlocks`), for any number of channels and frames and
  any assignment of channels to cells of memory.  `BlockInv` follows the loops: what
  `Gather` has read (`Read`), what `Engine` made of it (`Answered`), and which cells
  `Scatter` has written (`Written`): the last channel that was laid into a cell decides,
  and every other cell is the host's.
* `DrainsAreShort` (`DrainIsAlone`): while a drain has the queue nobody else changes it, and
  each of its own steps takes an edit out or ends it.  A drain is over after as many steps
  as it found edits, and one.  With `EditsMinded` this is what safety can say of
  `EditsArrive`, and of the audio thread: it never waits for the queue nor works in it for
  longer than what was there.

## RtLog

The ring of `wrac_log/src/rt.rs`: every atomic access of `RtLogSlot::write` and
`drain_to_log` is a step (`Claim`, `Count`, `Clear`, `WriteTarget`, `WriteMessage`,
`Publish`; `Wake`, `Check`, `ReadTarget`, `ReadMessage`, `Recheck`, `Store`).  Fields hold
the number of the record they were written for, so that a torn record is one whose
fields differ from its number.

Two abstractions matter.  Steps are sequentially consistent: reorderings that the
`Acquire`, `Release` and `Relaxed` of the code still allow are not explored.  And there
is one drain, the worker of `init_rt_log_drain_once`; `drain_rt_logs_once` is public, but
nothing else in `src/` calls it.

A ring of slots without an owner cannot tell two writers apart that are a whole ring
from each other in one slot.  `lapped` records these, and `IntactUnlessLapped` and
`RecordsArrive` say that they are the only exception: being overtaken alone, in any
step of the copy, tears nothing.  With `RT_LOG_CAPACITY` slots a writer must be
preempted inside a record for that many records.

Fairness: a writer inside a record finishes it, and the worker wakes again and again.

## RtLogProofs

`LossIsAnnounced` (`NothingLostSilently`) and `RecordsIntact` (`IntactUnlessLapped`), for
any number of writers and records and any capacity.  The first is a count
(`Accounted`).  The second needs what a published sequence number stands for: the
record's writer has left (`Publications`), the slot holds that record, and whoever is in
the slot now has not got past the place where the number is taken back (`Contents`);
how far a writer alone in its slot has come (`Progress`); and that the worker's copy is
good as long as the number still stands when it looks again (`Copied`).  Two
writers that share a slot are `lapped` (`Claims`), the exception the property names.

`NoRecordOrphaned` is the safety half of `RecordsArrive`: a record that is not lapped and
that the ring has not come round to can be read or still has its writer
(`RecordsStand`), so that the worker stops only where a writer has yet to publish
(`WorkerNotStuck`).  It takes that a writer behind another in its slot makes the later
record lapped (`Overtaken`).

## Build and Rules

`cargo xtask`, as a developer or a CI job uses it: commands one after another, each a
graph of tasks, any of which may fail, and edits of sources and manifest at any time.

| TLA+ | Code (`wrac_xtask/src`) |
|---|---|
| `BundleName`, `NamesOf`, `Names` | the names of artifacts (`metadata.rs`, `context.rs`) |
| `MetadataAccepted`, `PluginAccepted` | `PluginMetadata::validate` (`metadata.rs`) |
| `RulesPass` and what it is made of | the production rules (`validation/`) |
| `Resolve`, `Refused`, `Launchable` | resolution of targets, products and scopes (`plan.rs`, `targets.rs`) |
| `AllTasks`, `Nodes`, `Edges` | `build_graph`, and the order in which it adds nodes |
| `Start`, `Turn`, `Skip`, `Do`, `Fail`, `Finish` | `run`, `ordered`, `execute_plan` |
| `Full`, `Part` | what a task leaves on disk when it succeeds, and when it fails or is killed in the middle (`commands.rs`), an operator per task |
| `Setting`, `EnvPath`, `HasInputs`, `HasArchive` | `load_workspace_dotenv`, `env_path`, the SDKs a wrapper needs |
| `Kill`, `Edit` | the developer |

An artifact is the version of the oldest source in it, `Absent` or `Torn`; that makes
"this build" a comparison.  It lies under a name the manifest gives it, built or installed,
and the manifest may change between commands; so a command may meet artifacts of
other names than its own.  Cargo's and `package_clap`'s output is named by the present
manifest, cmake's by the arguments in its cache (`Writes`), and what a command looks for
by the present one: `Exists`, `Installed`, `There`, `ShadowsAu`.  A task either must fail
(`Full` is empty: a directory, an
input or an SDK is missing, a rule is violated), or may fail or not; only failures
that need not happen, and kills, count against `MaxFaults`.  External programs
are taken at their word: cargo notices every changed source, cmake keeps its arguments
in its cache even when it fails later, a validator passes or fails.

`Isolation` is about `--continue-on-error`, whose skips must spread along the graph, and
about the order, in which no task may be lost.  `InstallsThisBuild`, `ValidatesThisBuild`
and `UninstallLeavesNone` are what a developer relies on: that an "ok" is about these
sources, whatever an earlier, killed command left — an AU in the other scope, a result
file, half a bundle, an archive.  They say no more than the code does, in three places:

* The stamp of a configuration is compared with its arguments, not with cmake's cache
  (commands.rs:623-640).  Build with one manifest; rename the bundle and let the configuration
  be killed after cmake has stored the new arguments; take the name back.  Now the stamp
  is current and the cache is not: cmake builds under the other name, `ensure_exists` (536)
  finds the bundle of the first command, and *that* is installed and validated.  Both
  properties except a format whose present name cmake has not been told (`~Knows(T)`).
  The run's two commands are too short for this.  With the `install` and `validate`
  lines of VST3 alone, three commands, two edits and two faults, TLC passes with the
  exception and finds the installed old bundle without it; the theorems are for any number
  of commands.
* auval finds an AU by its codes; the tool looks in the system's folder for one of the
  present name (1686-1696).  An AU installed there under an earlier name may be what
  auval validates.  `ValidatesThisBuild` says "none of its name".
* `uninstall` looks for the present name (939-949): what was installed under an earlier one
  stays.  `UninstallLeavesNone` is about the present name.

The three are among the [disagreements](#disagreements-found).

Left out: `--all`, profiles other than the one in use, signing (`codesign` fails or
works on a copy), output formatting, two commands at once.

## BuildProofs

About `Spec`, for every product, manifest, platform and .env file and every command line
the CLI takes, for any number of commands, edits and faults.

* `Invariance`: `IInv` always.  Its heart is `Kept`: what a task of this command has
  achieved (`Achieved`, kind by kind) is still on the disk.  That is not inductive by
  itself, since `clean` removes libraries and bundles and tasks that install and remove
  write the same files; it takes `Ordered` (a task succeeds after all those it waits for),
  `PlanKept` (the plan is the one of `Nodes`) and two facts about every plan: it is
  `Closed` under what its tasks are made from, and installing, removing and validating
  never share one (`Belongs`).  The step has a lemma for each half.  `Does`: a task that
  finds its inputs made of these sources has achieved its own; `ReadyNow` gives it the
  inputs, along the graph.  `Keeps`: a task that is still planned touches nothing an
  earlier one has achieved, succeed or fail; it rests on `WorkFrame`, what each kind of
  task may change on the disk, and on the order, by which `clean` is over before anything
  that it could remove is made.
* `Installation` (`InstallsThisBuild`), `Validation` (`ValidatesThisBuild`) and
  `Uninstallation` (`UninstallLeavesNone`) follow.  What the wrappers make counts as achieved
  under the names cmake has been told (`Told`, the properties' `Knows`), and every other name
  may hold anything; the configuration of a wrapper is over before anything it names is
  made, so that what cmake has been told stays.  Validation adds
  that rules which pass for some formats pass for each of them (`RulesMonotone`).
  Uninstallation adds that all tasks of a command that ends well have succeeded
  (`Blamed`), and that AAX is never in the user's directory, which is why `--scope=all`
  may leave that one out (`NoUsersAax`).
* `FailuresAreContained` (`Contained`) is about one step along the graph: a task is
  dealt with after all it waits for, and skipped exactly when one of them has failed or
  been skipped; there is one failure at most without `--continue-on-error`; with it, or
  without a failure, no task is left over.
* `FailuresSpread` (`Isolation`) is about all of it: the tasks skipped are those the failed
  ones reach.  `Isolation` follows the graph with a recursive function over as many rounds
  as there are tasks.  That the function is what its definition says
  (`FallFacts`) takes that there is such a function, by a least number without one
  (`Iterates`).  What has fallen is not done, by a least round that says otherwise
  (`FallSound`).  What is skipped has fallen, since every edge climbs in `Rank`
  (`EdgesClimb`), so that as many rounds as ranks reach it (`FallComplete`).
* `PlansAreOrdered` (`OneTurn`): no plan has a cycle.  While a command runs and tasks are
  left, exactly one has its turn, and can be skipped, succeed or fail.

## Runs and bounds

| Run | Checks | Bounds |
|---|---|---|
| `corner_swap` | `TypeOK`, `PoolConserved`, `SettledExact` under `Spec` | four partitions and sets of every length, three fade stages, one or two partitions per frame: displaced swaps with every relation of lengths, stages that overlap and that do not; one ring slot |
| `corner_plugin` | `EpochsDisjoint`, `NothingDropped`, `OneListener`, `NoStaleTail`, `NeverMute`, `EvictedHasFaded`, `SwapSettles`, `VoicesRingOut` under `PluginSpec` | two ring slots with a cap of one or two, sets of four partitions, two fade stages, two sets per drain, weight on either side of zero, two halvings to silence; `RetiredSlots = 2 + 1 + 2` |
| `plugin_burst` | `NeverHardCut` fails | `Plugin`: one corner, three changes of the size, a debounce of two frames, two ring slots, sets of nine partitions, inaudible after two halvings (the real numbers: 8 slots, 9 halvings, 9.4 frames) |
| `reconcile` | `SetsMatchRequest`, `SetsPerDrain`, `KeepsPromise`, `Settles` | two corners, two banks, two sizes further apart than the tolerance, two changes: with the initial request, a worker two requests behind, a change during the debounce, and a set of each corner overtaken |
| `reconcile_pulse` | `EachFlipRereads` fails | one corner, three changes |
| `lifecycle` | `TypeOK`, `ExclusiveSlot`, `OneProcessor`, `LayoutInForce`, `NobodyInside`, `Reclaimed`, `CallbacksReturn` | three threads (a holder, one that waits for it, one that interferes), each anywhere in any callback; two layouts |
| `gui` | `AllOwned`, `OwnSession`, `ClosedEditorGoes` | eight host callbacks (open, parent, close and open again take five), two parents, two failures, both kinds of host |
| `gui_reopen` | `EditorComes` fails | GUI thread only, five callbacks, no failure |
| `gui_size` | `SizeSettles`, `HostHasTheLastWord`, `DragKeepsItsStart` | all hosts; sizes below, between and above the limits; scales of 1, 1.25 and 1.75, at which roundings matter; two drags, the older ending late; two posted resyncs |
| `process` | `NoGestureLost`, `NoneStranded`, `BlockIsThisBlocks`, `AutomationHeard`, `EditsArrive` | two edits and one refusal (an edit behind the refused one); stereo, one frame, 20 shapes of buffers: in place, exchanged, partly over the input, narrower, wider, absent, unusable, of either type, longer than `MaxFrames` |
| `rtlog` | `NothingLostSilently`, `IntactUnlessLapped`, `RecordsArrive` | two writers, two slots, four records: the ring goes round twice |
| `build` | `Isolation`, `InstallsThisBuild`, `ValidatesThisBuild`, `UninstallLeavesNone` | macOS, which has every target; two commands out of fourteen, three manifests (one refused, one with other names for all artifacts), one edit, two faults: a command that fails or dies, and one that starts from what is left |

`QueuesPerDrain`, `AgeCap`, `MaxChanges`, `MaxCalls`, `MaxFailures`,
`MaxResyncs`, `MaxDrags`, `MaxEdits`, `MaxRefusals`, `MaxRecords`, `MaxRuns` and
`MaxFaults` are the bounds that are not in the code.  `AgeCap` saturates the age of a live
voice, which only decides lengths up to `MaxParts`; `QueuesPerDrain`
limits the environment; `MaxChanges` limits how often parameters change, after which the
protocol must come to rest; the others limit how often something external happens.

A drift of the size that stays within the tolerance needs a third size between the two;
with it `reconcile` passes too, in four minutes instead of two, and is not kept.

The `Reconcile` runs do not check for deadlock: after deactivation, with the
worker gone, nothing is left to do and the system really stops.  Nor does
`lifecycle`: after `destroy` nothing happens any more; nor the `gui` runs and `gui_size`: a
host that has made its calls, or that waits with a full list of resyncs, leaves an
editor at rest; nor `build`: after the last command and the last edit all is done; nor
`plugin_burst`, for the reason of the `Reconcile` runs.

## What the proofs assume

Every theorem is about its module's `Spec` (`PluginSpec` where the chapter says so) and
the `ASSUME`s of that module, which TLC evaluates in every run.  They are of two kinds:

* What a constant is: bounds are naturals, the cap of the ring is within it, event
  lists are sequences, cells of a port are cells of memory, cursors are integers,
  command lines are those the CLI parses (`CommandLines`) and metadata has the shape of
  a manifest.
* That `None`, and the other values of no type, differ from what they stand beside
  (`NoneAssumption`, `DistinctAssumption`).  In Rust that is `Option`.

Bounds on the environment (`MaxCalls`, `MaxEdits`, `MaxChanges`, `MaxDrags` and so on)
are arbitrary naturals, so the theorems hold without them.  One theorem needs more of a
constant, and says so: `NeverDropped` (`RetiredSlots`).  `GuiSizeAssumption` asks for units
that make its arithmetic exact, which there are for any rational scales.

## Disagreements found

Three are runs, whose counterexample TLC prints:

* `reconcile_pulse`: PARAMS.md says each Off→On flip of Reload re-reads the
  folder; the level is sampled once per block, so a short pulse is lost.
* `gui_reopen`: an editor closed before its creation runs leaves the single-flight
  flag set, and the instance never gets an editor again; a comment promises that the
  next `show` or `set_parent` reschedules it.

* `plugin_burst`: PARAMS.md:35 and DSP.md:237-238 say that a room is never cut while it can
  be heard; the debounce spaces the requests, and a worker that answers late hands over
  sets that are closer (see [Plugin](#plugin)).

Others were met on the way and are not runs of their own:

* With `--ring 1` a voice is cut while it sounds (lib.rs:500: the voice just
  frozen is exempt from the fade, and no other is there); DSP.md:237-238 and PARAMS.md:35 say it never is.
* A session restored with Reload on loads everything twice (audio.rs:119); PARAMS.md:32
  calls the switch edge-triggered.
* A second `set_parent` before the creation runs is taken for the first one's
  (controller.rs:387), and the runtime is made in the old parent (controller.rs:1013).
* A host that agrees to a size without setting it leaves the WebView session with the
  older size, which a change of scale lays out again (controller.rs:712-718).
* `destroy` does not wait for a callback that has entered and is before its flag, nor for a
  `can_apply` past it (abi.rs:298-301 speaks of the borrow only; see [Lifecycle](#lifecycle)).
  CLAP forbids hosts to call so, and a comment there says wrappers do.
* The stamp of the wrapper's configuration is compared with the arguments only
  (commands.rs:623-640): after arguments that change, fail to configure when cmake has
  cached them, and change back, an old bundle is installed as this build.
* After the bundle is renamed, `uninstall --scope=all` leaves the copies of the old name
  (commands.rs:939-949), and auval may validate a system-wide AU of the old name
  (commands.rs:1686-1696) (see [Build](#build-and-rules)).
* An archive of the CLAP validator whose download was cut short is taken for whole
  (commands.rs:1629), and validation fails until somebody deletes it.
* An empty variable in the environment hides the one in `.env` (xtask lib.rs:139) although the
  tool then treats it as unset.
* `reset` and `set_source_ir_at` with a live voice (see `Corner`); `tail_samples`
  (lib.rs:655-667) says "longest active tail" and looks at the bank only, not at voices.

## What is not modelled

* Signal processing on floating-point numbers (renderer, FFT, shaper, envelopes,
  banks, meters): TLA+ has nothing to say about it.
* Entry and factory: a count of users around an `init` and `deinit` that do nothing.
* The file log: a log file per process, archived by renaming; no state of its own is
  read by another part.
* The host-name table, typed views of host memory that the plugin does not read (notes,
  transport), cursor shapes and assets: no state that lives between calls.
* The CLI, a sequential driver of the engine: what it may ask of a corner is in `Corner`'s
  control path, `service` excepted, which is planned.
* The `build.rs` helpers, signing, `--all`; the vendored wrapper; Python scripts.
* Weak memory: every module is sequentially consistent.
* What a callback does with an instance that `destroy` has freed; callbacks re-entered on
  the thread of another; an editor's size that is set from another thread than the GUI's.
* The rounding of `f64` in the editor's sizes.

Only model-checked: liveness (`SwapSettles`, `VoicesRingOut`, `Settles`, `CallbacksReturn`,
`ClosedEditorGoes`, `EditsArrive`, `RecordsArrive`) and the fairness half of `KeepsPromise`,
which are out of the prover's reach.  Proved is what they rest on in every state, whatever
the scheduling:

| Liveness | Theorem |
|---|---|
| `SwapSettles` | `SwapsMeetTheirDeadline` |
| `VoicesRingOut` | `VoicesMeetTheirDeadline` |
| `Settles` | `NothingLeftBehind` |
| `KeepsPromise` | `ProtocolImplementsLatestWins` |
| `CallbacksReturn` | `NoFlagLeaks`, `NobodyDeadlocks` |
| `ClosedEditorGoes` | `ClosedEditorsLeaveNothing` |
| `EditsArrive` | `EditsMinded`, `DrainsAreShort` |
| `RecordsArrive` | `NoRecordOrphaned` |
