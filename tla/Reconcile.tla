------------------------------ MODULE Reconcile ------------------------------
(***************************************************************************)
(* The IR control protocol of the plugin (audio.rs): the audio thread      *)
(* compares the shared parameters with what it last asked for, and sends a *)
(* Sync at most once per debounce window; the worker takes the newest Sync *)
(* queued, re-reads its sources if the load generation changed, renders    *)
(* one set per corner and sends them back; the audio thread hands every    *)
(* set that arrived to the engine.                                         *)
(*                                                                         *)
(* The four zones of a corner are handled alike and are one here.  Size    *)
(* and the damping values, compared within a tolerance, are one number.    *)
(* Disposed sets carry no state and are left out.                          *)
(***************************************************************************)
EXTENDS Integers, Sequences

CONSTANTS
  NumCorners,  (* CORNERS                                                   *)
  Banks,       (* banks a corner may hold                                   *)
  Sizes,       (* values of size                                            *)
  Tolerance,   (* a size this close to the synced one is left alone         *)
  Debounce,    (* debounce_samples                                          *)
  BlockSizes,  (* frames of a block                                         *)
  MaxChanges,  (* bound: parameter and disk changes                         *)
  None

Corners == 0 .. NumCorners - 1

ASSUME ReconcileAssumption ==
  /\ NumCorners \in Nat \ {0}
  /\ Sizes \subseteq Int
  /\ Tolerance \in Nat
  /\ Debounce \in Nat
  /\ BlockSizes \subseteq Nat \ {0}
  /\ MaxChanges \in Nat

\* What the worker read for a corner, and the set it made of it for a Sync.
Sources == [bank : Banks, disk : Nat]
Sets == [corner : Corners, serial : Nat, size : Sizes, bank : Banks, disk : Nat]

\* None is u64::MAX where it stands for a generation.
ASSUME NoneAssumption == None \notin Nat /\ None \notin Sources /\ None \notin Sets

VARIABLES
  (* the shared parameters and the watched folder *)
  banks,      (* the bank of each corner                                    *)
  size,
  reload,     (* the reload switch is on                                    *)
  disk,       (* version of the files in the watched folder                 *)
  flipped,    (* the version when reload was last switched on               *)
  changes,
  (* the audio thread *)
  alive,      (* the processor exists                                       *)
  step,       (* where process is                                           *)
  snapSize,   (* the block's parameter snapshot                             *)
  synced,     (* banks and size of the last Sync                            *)
  lastReload, dirtyLoad, loadGen,
  since,      (* samples_since_sync, up to Debounce                         *)
  noticed,    (* the version when a load was last found due                 *)
  (* the channels: a Sync is an index into `sent' *)
  sent, toWorker, fromWorker,
  (* the worker thread *)
  work,       (* where worker_main is                                       *)
  job,        (* the Sync it serves                                         *)
  loadedGen,  (* None: u64::MAX, before the first load                      *)
  sources,    (* what it last read for each corner                          *)
  next,       (* the corner it loads or renders next                        *)
  (* the engine *)
  installed,  (* the set last handed to each corner                         *)
  landed      (* sets handed to each corner since the last take_retired     *)

params == <<banks, size, reload, disk, flipped, changes>>
audio  == <<step, snapSize, synced, lastReload, dirtyLoad, loadGen, since, noticed>>
worker == <<work, job, loadedGen, sources, next>>
engine == <<installed, landed>>
vars   == <<params, alive, audio, sent, toWorker, fromWorker, worker, engine>>

Request(bs, sz, gen, asked) ==
  [banks |-> bs, size |-> sz, gen |-> gen, asked |-> asked]

\* The state after OpenConvAudioProcessor::new.
Init ==
  /\ banks \in [Corners -> Banks]
  /\ size \in Sizes
  /\ reload \in BOOLEAN
  /\ disk = 0 /\ flipped = 0 /\ changes = 0
  /\ alive = TRUE
  /\ step = "idle"
  /\ snapSize = size
  /\ synced = [banks |-> banks, size |-> size]
  /\ lastReload = FALSE /\ dirtyLoad = FALSE /\ loadGen = 0
  /\ since = 0
  /\ noticed = 0
  /\ sent = <<Request(banks, size, 0, 0)>>
  /\ toWorker = <<1>>
  /\ fromWorker = <<>>
  /\ work = "receive" /\ job = 1 /\ loadedGen = None /\ next = 0
  /\ sources = [c \in Corners |-> None]
  /\ installed = [c \in Corners |-> None]
  /\ landed = [c \in Corners |-> 0]

-----------------------------------------------------------------------------
(***************************************************************************)
(* Hosts, automation, state restore and users change one value at a time.  *)
(***************************************************************************)

Change ==
  /\ changes < MaxChanges
  /\ changes' = changes + 1
  /\ UNCHANGED <<alive, audio, sent, toWorker, fromWorker, worker, engine>>

SetBank(c, b) ==
  /\ banks[c] # b
  /\ banks' = [banks EXCEPT ![c] = b]
  /\ Change
  /\ UNCHANGED <<size, reload, disk, flipped>>

SetSize(s) ==
  /\ size # s
  /\ size' = s
  /\ Change
  /\ UNCHANGED <<banks, reload, disk, flipped>>

SwitchReload ==
  /\ reload' = ~ reload
  /\ flipped' = IF reload THEN flipped ELSE disk
  /\ Change
  /\ UNCHANGED <<banks, size, disk>>

WriteFolder ==
  /\ disk' = disk + 1
  /\ Change
  /\ UNCHANGED <<banks, size, reload, flipped>>

-----------------------------------------------------------------------------
(***************************************************************************)
(* The audio thread: one call of process.                                  *)
(***************************************************************************)

\* The block's events are applied and the parameters read.
BeginBlock ==
  /\ alive /\ step = "idle"
  /\ step' = "sync"
  /\ snapSize' = size
  /\ UNCHANGED <<params, alive, synced, lastReload, dirtyLoad, loadGen, since,
                 noticed, sent, toWorker, fromWorker, worker, engine>>

LoadEdge == reload /\ ~ lastReload

\* Slip: a load found due inside the debounce window is forgotten.
LoadDueForgotten == banks # synced.banks \/ LoadEdge

LoadDue == dirtyLoad \/ banks # synced.banks \/ LoadEdge

Far(a, b) == a - b > Tolerance \/ b - a > Tolerance

SyncDue == (LoadDue \/ Far(snapSize, synced.size)) /\ since >= Debounce

\* The version asked for: that of the last block in which a load came due.
Asked == IF banks # synced.banks \/ LoadEdge THEN disk ELSE noticed

SendSync ==
  /\ alive /\ step = "sync" /\ SyncDue
  /\ loadGen' = IF LoadDue THEN loadGen + 1 ELSE loadGen
  /\ dirtyLoad' = FALSE
  /\ synced' = [banks |-> banks, size |-> snapSize]
  /\ since' = 0
  /\ sent' = Append(sent, Request(banks, snapSize, loadGen', Asked))
  /\ toWorker' = Append(toWorker, Len(sent'))
  /\ lastReload' = reload
  /\ noticed' = Asked
  /\ step' = "accept"
  /\ UNCHANGED <<params, alive, snapSize, fromWorker, worker, engine>>

\* Nothing changed, or the debounce window is still open.
DeferSync ==
  /\ alive /\ step = "sync" /\ ~ SyncDue
  /\ dirtyLoad' = LoadDue
  /\ lastReload' = reload
  /\ noticed' = Asked
  /\ step' = "accept"
  /\ UNCHANGED <<params, alive, snapSize, synced, loadGen, since, sent,
                 toWorker, fromWorker, worker, engine>>

\* One round of the try_recv loop.
Accept ==
  /\ alive /\ step = "accept" /\ fromWorker # <<>>
  /\ LET set == Head(fromWorker)
     IN  /\ installed' = [installed EXCEPT ![set.corner] = set]
         /\ landed' = [landed EXCEPT ![set.corner] = @ + 1]
  /\ fromWorker' = Tail(fromWorker)
  /\ UNCHANGED <<params, alive, audio, sent, toWorker, worker>>

\* The loop ends, the engine's spent sets are drained and the block runs.
EndBlock(frames) ==
  /\ alive /\ step = "accept" /\ fromWorker = <<>>
  /\ landed' = [c \in Corners |-> 0]
  /\ since' = IF since + frames < Debounce THEN since + frames ELSE Debounce
  /\ step' = "idle"
  /\ UNCHANGED <<params, alive, snapSize, synced, lastReload, dirtyLoad,
                 loadGen, noticed, sent, toWorker, fromWorker, worker, installed>>

\* The host deactivates the plugin: the processor and its channel ends drop.
Deactivate ==
  /\ alive /\ step = "idle"
  /\ alive' = FALSE
  /\ fromWorker' = <<>>
  /\ UNCHANGED <<params, audio, sent, toWorker, worker, engine>>

-----------------------------------------------------------------------------
(***************************************************************************)
(* The worker thread (worker_main).                                        *)
(***************************************************************************)

\* Slip: a task queue, one Sync at a time.
TakeFirst(q) == [first |-> Head(q), rest |-> Tail(q)]

\* Slip: the first Sync of the queue stands for all of them.
TakeOldest(q) == [first |-> Head(q), rest |-> <<>>]

\* Coalesce everything queued to the newest Sync.
Coalesced(q) == [first |-> q[Len(q)], rest |-> <<>>]

\* Slip: a load is due when the generation has moved on by one.
MustLoadNext(i) == loadedGen = None \/ sent[i].gen = loadedGen + 1

\* The sources are read again when the load generation is another.
MustLoad(i) == sent[i].gen # loadedGen

Receive ==
  /\ work = "receive" /\ toWorker # <<>>
  /\ LET taken == Coalesced(toWorker)
     IN  /\ job' = taken.first
         /\ toWorker' = taken.rest
  /\ work' = IF MustLoad(job') THEN "load" ELSE "render"
  /\ next' = 0
  /\ UNCHANGED <<params, alive, audio, sent, fromWorker, loadedGen, sources, engine>>

LastCorner == next = NumCorners - 1

\* load_corner: a synth bank is computed, the folder is read from disk.
LoadCorner ==
  /\ work = "load"
  /\ sources' = [sources EXCEPT ![next] =
                   [bank |-> sent[job].banks[next], disk |-> disk]]
  /\ IF LastCorner
     THEN /\ loadedGen' = sent[job].gen
          /\ work' = "render" /\ next' = 0
     ELSE next' = next + 1 /\ UNCHANGED <<loadedGen, work>>
  /\ UNCHANGED <<params, alive, audio, sent, toWorker, fromWorker, job, engine>>

\* The set is sent, or lost if the processor is gone.
RenderCorner ==
  /\ work = "render"
  /\ LET set == [corner |-> next, serial |-> job, size |-> sent[job].size,
                 bank |-> sources[next].bank, disk |-> sources[next].disk]
     IN  fromWorker' = IF alive THEN Append(fromWorker, set) ELSE fromWorker
  /\ IF LastCorner
     THEN work' = "receive" /\ next' = 0
     ELSE next' = next + 1 /\ UNCHANGED work
  /\ UNCHANGED <<params, alive, audio, sent, toWorker, job, loadedGen, sources, engine>>

\* recv fails once the sender is gone and the queue is empty.
Disconnected == ~ alive /\ toWorker = <<>>

Exit ==
  /\ work = "receive" /\ Disconnected
  /\ work' = "gone"
  /\ UNCHANGED <<params, alive, audio, sent, toWorker, fromWorker, job,
                 loadedGen, sources, next, engine>>

-----------------------------------------------------------------------------

Environment ==
  \/ \E c \in Corners, b \in Banks : SetBank(c, b)
  \/ \E s \in Sizes : SetSize(s)
  \/ SwitchReload
  \/ WriteFolder

Process == \/ BeginBlock \/ SendSync \/ DeferSync \/ Accept
           \/ \E frames \in BlockSizes : EndBlock(frames)

Worker == Receive \/ LoadCorner \/ RenderCorner \/ Exit

Next == Environment \/ Process \/ Deactivate \/ Worker

\* The host keeps calling process while the plugin is active, and the
\* scheduler runs the worker.
Spec == Init /\ [][Next]_vars /\ WF_vars(Process) /\ WF_vars(Worker)

-----------------------------------------------------------------------------
(***************************************************************************)
(* Properties.                                                             *)
(***************************************************************************)

Arrived == {installed[c] : c \in Corners} \ {None}
InFlight == {fromWorker[i] : i \in DOMAIN fromWorker}

\* Every set answers the request it was made for, whatever was coalesced in
\* between: it has that request's bank, although the sources are re-read only
\* when the load generation changes; its size; and files at least as new as
\* when the reload was noticed.
SetsMatchRequest ==
  \A s \in Arrived \cup InFlight :
    /\ s.bank = sent[s.serial].banks[s.corner]
    /\ s.size = sent[s.serial].size
    /\ s.disk >= sent[s.serial].asked

\* Between two drains of the retired sets a corner is handed three sets at
\* most: of the job under way, of the Syncs queued behind it and of the Sync
\* sent in this block.  RETIRED_SLOTS has room for exactly that many
\* (NeverDropped in CornerProofs).
SetsPerDrain == \A c \in Corners : landed[c] <= 3

Serial(set) == IF set = None THEN 0 ELSE set.serial

Promise == INSTANCE LatestWins WITH
  Places <- Corners,
  requests <- Len(sent),
  shown <- [c \in Corners |-> Serial(installed[c])],
  open <- alive

\* The protocol keeps the promise of LatestWins: no corner goes back to an
\* older request, and an active plugin ends up with the newest everywhere.
KeepsPromise == Promise!Spec

\* Once the parameters are left alone, every corner ends up with the wanted
\* bank, with the wanted size up to the tolerance, and with files at least as
\* new as the last reload noticed ("deferred, never dropped").
Settles ==
  <>[](alive => \A c \in Corners :
         /\ installed[c] # None
         /\ installed[c].bank = banks[c]
         /\ ~ Far(installed[c].size, size)
         /\ installed[c].disk >= noticed)

\* Every Off->On flip of Reload re-reads the folder (PARAMS.md, parameter 20).
EachFlipRereads ==
  <>[](alive => \A c \in Corners : installed[c] # None /\ installed[c].disk >= flipped)
=============================================================================
