# Arcan: TLA+ models and proofs

Arcan is a display server and multimedia engine. Its clients ("frameservers") talk to
it through SHMIF: a shared memory page, three semaphores and a socket. The same
traffic goes over a network with the a12 protocol. Inside, the engine keeps a queue of
events, a pool of video objects tied together in several ways, and chains of
transformations that a clock works off. The models in this directory cover these
protocols and data structures: the places where processes, threads or scripts that
re-enter the engine work on the same state, and where a long sequence of legal calls
has to leave counters, lists and references exact.

Source paths below are relative to the repository, which lives in `src/`.
`control.c` is `src/shmif/arcan_shmif_control.c`, `control.h` the header beside it,
`interop.h` is `src/shmif/arcan_shmif_interop.h`, `server.c` is
`src/shmif/arcan_shmif_server.c`, `frameserver.c` is `src/platform/posix/frameserver.c`,
`a12.c` is `src/a12/a12.c`; `arcan_frameserver.c`, `arcan_event.c`, `arcan_video.c` and
`arcan_conductor.c` are in `src/engine/`.

## 1. The system

### Parts, state, operations

| Part | State | Operations that change it |
|---|---|---|
| Page of a segment | `vready`, `aready`, `vpending`, `apending`, `resized`, sizes, `dms`, two event rings | stores by either process, in any order the two programs interleave |
| Client library (`control.c`) | context: mapping, buffer index and counts; `priv`: pending descriptor, pause state, kept hints, `alive`; guard thread with `local_dms` | `arcan_shmif_signal`, `_resize`, `_enqueue`, `_poll`, `_wait`; the guard thread; `arcan_shmif_migrate` and `_drop` after a crash |
| Engine side (`frameserver.c`, `arcan_frameserver.c`) | `arcan_frameserver`: settings in force, `release_pending`, `rz_known`, fuse | poll and render of a frame, `platform_fsrv_resynch`, `pushevent`, `pushfd`, `destroy`, `releaselock` |
| Library side of a server (`server.c`) | `shmifsrv_client` | `shmifsrv_poll`, `_dequeue_events`, `_video`, `_audio` |
| Engine event queue (`arcan_event.c`) | ring, drain function, `IN_DRAIN`, `DEAD` | `enqueue`, `denqueue`, `feed`, `queuetransfer`, `purge` |
| Conductor (`arcan_conductor.c`) | synchronisation strategy, lock on buffers and GPUs | the main loop, `setsynch`, `yield` |
| a12 session (`a12.c`) | keys and sequence numbers of both directions, stage of the handshake, who may rekey next | `a12_client`, `a12_server`, `a12_unpack`, `append_out`, rekeying |
| a12 streams (`a12.c`) | queue of binary transfers, channels of the sink, window of outstanding video frames | enqueue and serve a transfer, cancel, announce and acknowledge frames |
| Video objects (`arcan_video.c`) | pool of objects, parents and children, lists of the output and of rendertargets, stores and framesets, stack of contexts | create, delete, link, order, share, rendertargets, persist, push and pop |
| Transformations (`arcan_video.c`) | a chain of cells per object, a clock | append, tag, zap, instant, copy, cycle; the tick |
| Scripts (Lua) | | handlers called by the drain, which call back into the engine |
| Audio, database, platform backends, TUI, frameservers, tools | | see `PROJECT.json`, components |

### How they interact

* client to server: events through the ring `parentevq`, a full ring makes the client
  sleep on the event semaphore; frames by `vpending`/`vready` and the video semaphore; a
  new size by `resized` and busy waiting;
* server to client: events through the ring `childevq`, one byte on the socket per event,
  and a descriptor on the socket in front of the event it belongs to;
* the end of a connection: the server clears `dms` (`platform_fsrv_destroy`) or dies; then
  the client's guard thread, which watches the server process, clears `dms` and
  `local_dms` and posts all semaphores. The library call that notices connects elsewhere
  (`fallback_migrate`) and puts the new segment in the place of the old one;
* inside the engine: `queuetransfer` moves client events to the engine queue or hands
  them to the drain, which runs scripts, which enqueue events, delete frameservers, and
  change video objects and their transformations;
* over a network: both sides of a12 authenticate in two or four packets, then events,
  transfers and frames share one sequence of packets per direction, whose keys are
  replaced in turns.

### What is hard about it

A post that comes before, between or after a test and a sleep; two loads of one side
against two stores of the other; a flag stored before the values it announces; fields
that are counts during a handshake and bit masks otherwise; descriptors and events
that travel on different ways; a full queue that is drained from inside an enqueue;
a frameserver deleted by a handler of its own event; a server that dies in the middle
of any of this, and a guard thread that outlives its segment; a rekeying started in the
middle of the traffic it rekeys; a cancel that crosses the data it cancels; a deletion
that cascades through the structure it walks; a clock that wraps. `PROJECT.json` lists
these as hazards, with their lines.

### What makes it correct

No event is lost, repeated or reordered; nobody sleeps unless there is a reason or
somebody on the way to wake them; calls return, also when the other side dies; no
buffer is written while it is read; both sides agree on the layout of the page, inside
the file; a descriptor reaches its event and is closed once; the engine frees nothing
that is in use; a client lives in one place, which no thread of its past can take away;
a session breaks only for a reason; a transfer is intact and ends once; counters and
reference counts are exact; every tagged transformation is answered, once.

## 2. Modules

One step of a model is one access to shared state the other side can observe, or one
uninterrupted piece of a single-threaded program. Names follow the source.

| Module | Models | Properties |
|---|---|---|
| `FifoChannel` | abstract: a bounded lossless FIFO that promises nothing once the connection is lost | |
| `ShmifRing` | `parentevq`: `enqueue_internal`, `queuetransfer`/`arcan_event_poll` or `shmifsrv_dequeue_events`, the event semaphore, destroy, exit, guard thread | implements `FifoChannel`; no lost wakeup; the call returns |
| `ShmifVideo` | `arcan_shmif_signal` and `step_v`; `vdirect`, `push_buffer`, `releaselock`, `setsynch`, `stepframe_target`; destroy, guard thread | no tearing, the call returns, frames arrive, none out of order |
| `ShmifResize` | `shmif_resize`, `setup_avbuf`; `platform_fsrv_resynch` with its failure path and the refusal of an authentication token; destroy, guard thread | both sides agree, buffers inside the mapping and the file, refusal reported, the call returns |
| `ShmifEvents` | `pushevent`, `pushfd`; `process_events` with `pause_evh`, `merge_dh`, coalescing, `consume`; poll, wait and the enqueue of a paused client | descriptor pairing, no descriptor leaked or closed twice, hints survive merging, ring is emptied |
| `ShmifMigrate` | `fallback_migrate` from any call, `arcan_shmif_migrate`, `drop`, guard threads of the old and the new segment, fallback connection points | one home, nobody else's switch is pulled, RESET before anything else, one guid, away from a dead server |
| `EventQueue` | `enqueue`, `denqueue`, `feed`, `queuetransfer`, `purge`; handlers that enqueue and delete; the fuse of `arcan_frameserver_free`; the killswitch of a client's ring | ring content, nothing freed in use, events handled, frameserver freed |
| `A12Session` | `a12_client`, `a12_server`, the HELLO handlers, `a12int_issue_rekey`, `command_rekey`, `a12_unpack`, `append_out`, the callers in `anet_authenticate` and the serving loop; a carrier that loses, doubles, swaps | broken for a reason, events in order, keys agree, delivered |
| `A12Streams` | `a12_enqueue_bstream`/`_blob`, `append_blob`, `queue_node`, `command_binarystream`, `process_blob`, cancels, truncated files, `shutdown_id`; `a12_channel_vframe`, stream acknowledgements, back pressure | intact, ends once, window exact, frames flow |
| `VideoObjects` | `new_vobject`, `arcan_video_deleteobject`, link, order, masks, rendertargets, stores, framesets, persistence, `pushcontext`, `popcontext` | counters, stores, family, lists, persistence, cascades |
| `VideoTransform` | `arcan_video_object*` (append), tag, zap, instant, copy, transfer, cycle, the swipe of `arcan_video_linkobjs`; `update_object` and `tick`; `rebase_transform` | one after the other, goal reached, tags answered, cycle keeps |
| `...Proofs` | theorems about the module of that name | section 4 |
| `MC...` | configurations for TLC | section 3 |

Except in `ShmifRing`, the configuration (how many buffers, engine or shmif server, which
faults, which event kinds, which calls a script makes) is a variable `cf` that `Init` chooses
from the constant `Configs` and no step changes, so that one run covers all configurations
of a module. A property that the code keeps in some configurations only says so in
its antecedent. Where a particular step of the code departs from what its own comments
say, and the damage is general, the step records a name in the variable `dev`, and the
properties hold while `dev` is empty; section 5 lists the names.

Abstractions, beyond those named in the modules' headers: memory is sequentially
consistent (the code uses C11 atomics for the flags and `FORCE_SYNCH` fences; reordering
of plain stores on weakly ordered machines is not modelled); a frame is a number,
pixels and dirty regions are left out; time is not modelled but in `VideoTransform`, a
timeout is a step that may happen; ciphers are ideal: a packet authenticates exactly when
its key, its nonce and its place are those the receiver expects.

### Correspondence of the trickier steps

* `ShmifRing`: `Enqueue_Check`/`Enqueue_SemWait` are the loop around `arcan_sem_wait`
  at `control.c:1091`, one test and one sleep each. `Transfer_Copy` and
  `Transfer_Release` are the copy and the store of `front` in `arcan_event_poll`.
  `WakeAfter` is the value of `wake` that each kind of event leaves behind.
* `ShmifVideo`: `Step_Pending` and `Step_Ready` are the two atomic stores of `step_v`;
  `Push_Ready`, `Push_Mask`, `Push_Commit` the loads of `vready` and `vpending`, the
  upload, and the atomic and at the end of `push_buffer`; `Release`, `Release_Post` the
  store of `vready` and the post. With `locked = 2` (the strategies that hold
  buffers until the display is updated) `Releaselock` does the last two.
* `ShmifResize`: `Resynch_Ack`, `_Abufsize`, `_Apending`, `_Vpending` are the stores at
  `frameserver.c:1455-1458`, in that order. `Resynch_AuthFail` is the `goto fail` at 1437, after sizes and counts
  have been stored on both sides; `Refuse` then writes those, no longer the old ones, back into the page. The counts of a request are in
  `vpending`/`apending`, which are masks at other times; both uses are numbers here.
* `ShmifEvents`: `Reset`, `Checkfd`, `Dequeue` are the labels of `process_events`; a
  blocking `Fetch` is disabled while the socket is empty and the server lives.
* `EventQueue`: the calls in progress are a stack of records, since `feed`, `enqueue`,
  `queuetransfer` and handlers nest. `Transfer_Kill` is `pull_killswitch` called by `arcan_event_poll` inside
  the loop of a transfer, which is then marked `killed`; `Resynch` stands for a granted resize only so far as that it
  sets the rings up anew, without a killswitch.
* `ShmifMigrate`: `main.at` is the place inside `fallback_migrate`/`arcan_shmif_migrate`;
  `place` is the address space, so that reuse of an address by the new segment, and a
  guard thread that still has the old address, can meet. The first page has the guid the server drew, since the
  first REGISTER of a client carries none; `OwnGuid` is the one the client keeps for itself.
* `A12Session`: an unpack handles one packet; `take` is what a read has delivered and the
  call has not yet handled, `held` what `auth_latched` keeps back for the next caller.
* `A12Streams`: `pending` is the list of nodes in the order they are served; a cancel from the sink takes off the first
  node with the identifier and no other (`Places`, as the loop of `command_cancelstream` that returns after its first match).
  `to_move` is the run of slots in use that an acknowledgement shifts to the front of the window.
* `VideoObjects`: an operation is one function from the state `v` of the engine to the next,
  written recursively where the code recurses.
* `VideoTransform`: a slot is unused when its start is 0, as in the code; `Tick` is one
  turn of `update_object` for all objects after the clock was advanced. `float` rounds a tick to single precision, in
  which `lerp_fract` compares the clock with the end of a slot.

## 3. Runs

All runs use `MC*.tla` with the `.cfg` of the same stem, for example

    tlc -workers 2 -config ShmifRing_wake.cfg MCShmifRing

| Run | States | What it shows |
|---|---|---|
| `ring_fifo` | 1.4 M | shmif server as consumer, all faults: the ring implements `FifoChannel` |
| `ring_wake` | 0.3 M | engine as consumer, crash and exit: no lost wakeup, `enqueue` returns |
| `ring_destroy` | | the disagreement of section 5: `enqueue` does not return after a destroy |
| `video_supported` | 0.1 M | four configurations of buffers and servers |
| `resize_supported` | 0.87 M | an engine and shmif servers that grant, change, refuse, authenticate or lack memory |
| `push_supported` | 0.65 M | descriptors, merging, pause, small ring, crash |
| `shmif_migrate` | 0.36 M | seven clients, two servers one after the other, guard threads of both segments |
| `queue_both` | 0.31 M | transfers to the queue and to the drain, from a sound and from a spoilt ring |
| `a12_session` | 22 k | both handshakes, ratcheted rekeying, one carrier failure, peers that do not match, all pairs of roles |
| `a12_streams` | 37 k | eleven workloads of transfers and frames |
| `video_objects` | 0.17 M | nine kinds of scripts on a pool of three or four objects |
| `video_transform` | 0.84 M | five kinds of scripts, through the end of exact ticks and one wrap of the clock |

`CHECK_DEADLOCK FALSE` everywhere: the bounds on frames, calls and events let every
model come to an end, and a connection that is lost stops too. That nobody is stuck
is stated by the wakeup invariants and the liveness properties instead.

Each property of a passing run has at least one mutant in `PROJECT.json`: a change to a
mapped definition like a plausible slip in that code (operators whose comment begins with
`mutant`), with which TLC finds the property violated.

### Bounds, and why they are enough

* `QSZ = 3`: a ring with two usable slots fills, empties and wraps, which is all the
  index arithmetic tells apart; the theorems cover every size. `DstCap = 2` and
  `Limit = 1` make a transfer stop for want of room and a batch stop short.
  `SEM_VALUE_MAX = 2` lets posts pile up and be lost at the limit.
* `MaxFrame = 6`: three buffers are gone through twice.
* `ops` of three or four calls in `ShmifResize`: a signal or a resize before and after each
  other. The sizes (`MAX_SZ = 20`) make buffers shrink to fit, and the file grow, shrink
  and stay.
* Four events per behaviour in `ShmifEvents` (three with the full set of kinds): two
  descriptors and two pings are enough for any wrong pairing; a ring of two overflows;
  pause, hint, unpause and one more event is the shortest sequence with a kept hint.
  `SockLim > 2 * Q` as by default (126 events, room for more than 270 messages).
* `N = 3`, five events: two fill the queue, the third finds it full, the fourth fills it
  again from inside the drain and the fifth overflows there.
* `MaxServers = MaxPages = MaxEvents = 2`: one migration completes while the guard thread of
  the old segment is anywhere; a second one is refused by the code (section 5).
* `A12Session`: two to four events per direction, with sizes that make a rekeying due
  after each; both directions rekey in turns at least once. One fault at any packet.
* `A12Streams`: `WND = 4` outstanding frames, six sent, so that the window overruns; two
  channels, three transfers of up to two blocks: one in progress, one behind it, one beside it.
* `VideoObjects`: three or four slots of which one is the world, up to two rendertargets and
  two contexts; a cascade then runs over parent, child and grandchild. `MAXORD = 2` makes
  inherited orders clamp.
* `VideoTransform`: the clock wraps at `WRAP = 14`, single precision is exact up to
  `EXACT = 4`, then has every second tick and from 8 on every fourth, transformations take one or two ticks,
  three to five calls: a chain with two entries that is changed and then runs out.

### Fairness

`Spec` has none in `ShmifRing`, `ShmifVideo`, `ShmifResize`, `EventQueue`, `A12Session`,
`VideoObjects` and `VideoTransform`; liveness is checked under `FairSpec` there. In
`ShmifEvents`, `ShmifMigrate` and `A12Streams` it is part of `Spec`.

* Client: weak fairness of the steps inside a call (a thread that runs), never of
  starting one. In `ShmifEvents` and `ShmifMigrate` the client has an event loop and calls
  again.
* Server: weak fairness of its poll, transfer and release steps: the conductor goes
  through all frameservers once per turn and its loop never blocks on one of them.
* Guard thread: weak fairness, it wakes every second (`control.c`, `guard_thread`).
* A destroy or push that has begun runs to its end.
* `ShmifMigrate`: a server is started again while the bound allows; that is what `Recovers`
  is about, a client without any server to go to waits for one.
* `EventQueue`: weak fairness of calls in progress (scripts run under a watchdog), and
  strong fairness of `Feed_Begin`: transfers and feeds alternate in the conductor's loop,
  so a feed is not overtaken for ever although each transfer disables it for a while.
* a12: the loops of both sides read, handle, flush and send; a source that has data is read
  from. No fairness of the carrier's failures, of broken sources or of cancels.
* `VideoTransform` needs none: the invariant `OneAfterTheOther` says that nothing is overdue,
  which is liveness with a deadline.
* No fairness of crashes, of sending, or of the script's acknowledgement of a resize.

## 4. Proofs

`tlapm <module>` checks each proof module from nothing in two to twenty-five minutes. The theorems
hold for every value of the constants that the named assumption of the module allows (sizes,
bounds, and every set of configurations), and for any number of steps.

| Module | Theorem | Statement |
|---|---|---|
| `ShmifRingProofs` | `RingTypes`, `RingIsChannel` | the ring's types; the ring implements `FifoChannel` |
| | `NoLostWakeup` | `AsleepForAReason`, for clients whose events are acknowledged and servers that do not destroy the segment (section 5 says why) |
| `ShmifVideoProofs` | `NoTearBlockingAlways` | no tearing with blocking signals |
| | `AsleepAlways` | no client sleeps on the video semaphore without a reason |
| | `NoOlderFrameAlways` | action property: the display never goes back to an earlier frame |
| `ShmifResizeProofs` | `LayoutAgreesAlways`, `MappedEnoughAlways` | same layout on both sides, inside the file, up to the deviations of section 5 |
| | `FailureReportedAlways`, `QuietAlways` | a refusal is reported; no buffer is in the server's hands during the handshake |
| `ShmifEventsProofs` | `HintsAppliedAlways` | merging and coalescing lose nothing for a client that is never paused |
| | `FdPairedAlways` | every event comes with its own descriptor, none is leaked or closed twice |
| `ShmifMigrateProofs` | `OneHomeAlways`, `OwnSwitchAlways`, `GuidKeptAlways` | one home; no guard thread pulls another segment's switch; all servers a client moves to know it by one guid |
| | `GuardsOwnedAlways`, `GuardHitsAlways` | a guard thread that runs has the address of its segment, and finds it there |
| | `ResetFirstAlways` | action property: the first event after a migration is RESET |
| `EventQueueProofs` | `RingIsQueuedAlways` | the ring holds exactly the events that wait, once each (not: in which order) |
| | `NotFreedInUseAlways`, `OneDrainAlways` | no frameserver is freed inside its transfer but by the killswitch of that transfer; draining does not nest |
| `A12SessionProofs` | `InOrderAlways` | events arrive once, in order, never before authentication, whatever the carrier does |
| | `KeysAgreeAlways` | unless there is a reason to break, the right to rekey is with one side or in one REKEY on its way, and with nothing on the way each side decrypts with what the other encrypts with |
| | `BrokenForAReasonAlways` | no session breaks without a carrier failure, a mismatch of the peers or a limit below the handshake's own bytes |
| `A12StreamsProofs` | `IntactAlways` | a transfer gets its own data, from the start, without gaps, and is complete when the handler is told so |
| | `ToldOnceAlways` | action property: the end of a transfer is told once (the part of `EndsOnce` that is not liveness) |
| | `WindowExactAlways` | the window holds rising ids from its front, is counted exactly, and keeps what is on its way while it is not outrun |

### The inductive invariants, and why they are needed

None of these properties is inductive as it stands. Each invariant below was checked by TLC on the
instances of section 3 before it was proved.

* **ShmifRing**, `TypeOK /\ Local /\ Shared`. That `front` stays an index after a batch needs
  `Local` (how far the consumer has read ahead at each place). `Shared` says, while the connection is
  usable, that the producer at `write` or `publish` has a free slot at `back`, that the snapshot of a
  batch lies within the filled part, and that every slot between the read position and `back` holds
  an event. It holds only while the connection is usable, since a client that finds it dead
  leaves the wait loop with the ring full; `FifoChannel` promises nothing then either.
  `StepSimulation` maps each step: `Enqueue_Publish` to `Send`, `Transfer_Copy` and `Dequeue_Copy` to
  `Receive`, the end of the connection to `Lose`, all others to stuttering.
* **ShmifVideo**, `Types /\ Link /\ Announced /\ Apart /\ Steady`. A frame that is due (announced and
  not yet uploaded) is in a buffer other than the client's, and that buffer is marked pending, so the
  client that is about to move on to it sees that it has to wait (`Apart`). This is what fails with
  three buffers against the engine. `Newest` adds, for the action property, that the buffer that is announced, the one
  being uploaded and the frame being shown are never older than what is on display.
* **ShmifResize**, `Types /\ Sizes /\ Once /\ Quiet /\ Agree`. `Agree` follows the handshake in seven
  conjuncts, one per stage: both sides have the old settings, the page holds a request that will be
  granted as it stands, the server has read it, laid it out, acknowledged it, the client has taken over
  sizes, then counts. A refused token leaves `Agree` exactly if the request would have changed the layout; with the same
  layout what is committed and what is restored are the same. That the loop which drops buffers until the segment fits ends with a value
  (`CHOOSE` in `Shrunk`) uses the well-foundedness of the naturals.
* **ShmifEvents**, `Waits` and `Known`: for each field of a hint, the last nonzero value in the ring is the
  last one pushed, or the client has it already. For descriptors: the events
  that wait for a descriptor and the descriptors on their way have the same numbers (`Match`) and both
  come in order (`RingOrder`, `SockOrder`, `DstOrder`), so the first of one is the first of the other.
* **ShmifMigrate**, `Types /\ Homes /\ Alive /\ Guards /\ Guids /\ OwnSwitch`: where the segments are mapped at each
  place of the migration, which of them may be alive, and that a running guard thread has the
  address of its own segment or none; that the guid a client had when it left its first server is the one of every
  page and every context since (`Guids`). `ResetInv` adds, for the action property, that RESET is
  pending from the exchange of the segments until the first event.
* **EventQueue**, `Types /\ Drains /\ Nest /\ Owns /\ Fresh /\ Holds`, over a stack of any depth: a transfer is
  the outermost call and what runs inside of it runs inside a handler called with the fuse set
  (`Nest`), unless the transfer is marked `killed`, which is when the frameserver is gone; each call has its event in hand and no other call has it (`Owns`). With the queue as
  destination a transfer stops at half of its size, so that the queue is never full inside it
  and no handler runs there; with the drain as destination the fuse is set while one does.
* **A12Session**, `OInv`: the numbers of the packets that carry events form an increasing sequence,
  and the receiver's own number lies between the last event it gave to its caller and the next one
  (`Track`). No variable holds that sequence, so the invariant states that there is one. The HELLO
  with the sender's own key has a lower number than every event, so that an event only
  meets a side that is past authentication (`Shake`, `Caller`). Nothing is assumed of keys beyond the
  number that is part of the MAC, hence the result holds under any failure of the carrier.
  `KInv`, for keys: unless there is a reason to break, the packets on the way are in line with the receiver's number, and
  the session is either in the handshake, at a stage that the HELLO on its way tells (`Shaking`), or the server has
  accepted the client and (`Agreed`) one side has the right to replace the keys (`Has`), or one REKEY is on its way
  (`Coming`), in front of it packets of the old key, behind it packets of the new one.
* **A12Streams**, `TInv`: the identifiers of transfers that were begun differ, so that a block that is accepted belongs to
  the transfer the channel has; the packets of a transfer are in order, and of one that is open or yet to be announced
  every block not yet written is still on its way (`Ahead`), so that the next to arrive is the next to write; what the
  channel still expects is the size less what is written (`Held`). `WInv`: the window is filled from its front
  with rising ids (`Window`); while it is not outrun, frames on their way are in it and newer than the one the sink is at, and
  acknowledgements on their way are not newer than that (`Newer`), so that taking off all up to the
  acknowledged frame leaves them in place.

### Only model-checked

* Every liveness property, and the parts of `EndsOnce` beyond `ToldOnce`: fairness is beyond the prover.
* All of `VideoObjects`: its operations are recursive, as the code is, and what a recursive definition
  computes cannot be proved here.
* `OneAfterTheOther`, `GoalReached`, `TagsAnswered`, `CycleKeeps` of `VideoTransform`: the chains are cut, joined and
  searched with operators on sequences whose theorems need induction over the sequence.

## 5. Disagreements between code and documentation

`ring_destroy` is a run that TLC ends with a counterexample: `platform_fsrv_destroy` clears `dms` but
posts the event semaphore only in the `no_dms_free` branch; a client asleep on a full queue is not
released (`control.h:1002` says it is). This is why `NoLostWakeup` assumes that the server does not
destroy the segment.

Further ones that the models show, with the configuration of the `MC` module to put into the `.cfg`
(`Configs <- ...`) and the invariant to check in place of the run's own:

| Module | `Configs` | Invariant | What happens |
|---|---|---|---|
| `ShmifVideo` | `Triple` | `NoTear` | with three buffers the engine clears the pending bit of a buffer that was marked but not yet announced (`arcan_frameserver.c:272`, `step_v` at `control.c:1850`); the client later draws into it during its upload |
| `ShmifResize` | `EngineDiffers` | `LayoutAgrees` | "changed": the acknowledgement is stored before the counts it acknowledges (`frameserver.c:1455`, against `control.h:994`) |
| `ShmifResize` | `EngineDiffers` | `FailureReported` | "reread": the engine takes the -1 of its own refusal for a new request (`arcan_frameserver.c:814,1584`) and acknowledges it, so that the client may return success |
| `ShmifResize` | `EngineGrants` | `LayoutAgrees` | "late": the server's last stores after the acknowledgement land on the client's next request |
| `ShmifResize` | `EngineAuthenticates` | `LayoutAgrees` | "unauth": a token is refused (`frameserver.c:1436`) after file, sizes and counts have been committed, so that "restore contents" (1471) restores the new ones; the client keeps its old layout, as "resized failed, old settings still in effect" (`control.c:2181`) tells it |
| `ShmifEvents` | `PausedFds`, `MaxSent = 4` | `FdPaired` | a paused client discards events and keeps their descriptors (`control.c:528`), which are then paired with later events |
| `ShmifEvents` | `PausedTwice`, `MaxSent = 7` | `HintsApplied` | the display hint kept over a pause (`control.c:511`) is merged again in the next one |

The rest of this section lists what was met while modelling. They are behaviours of the models unless
said otherwise, and the antecedents of the properties, the configurations, or `dev` (names in quotes) leave
them out.

### Shared memory interface and event queue

* `arcan_event.c:392,431`: `CLOCKREQ`, `FLUSHAUD` and planes with more to come free slots
  without a post. `ShmifRing` with `Kinds = AllKinds` and `EnqueueReturns` shows the sleeper; this
  is the other assumption of `NoLostWakeup`, and why `ring_wake` has `WakingKinds`.
* `arcan_frameserver.c:932`: the release of a frame stores 0 over the index of the next one if
  the client has two free buffers; hence `WaitsForFrames` in `FrameArrives`, which says nothing about that loss.
* `frameserver.c:295`: with `no_dms_free` a client that signals after destroy sleeps for ever;
  hence `"keepdms" \notin Faults` in `SignalReturns` and `AsleepForAReason`.
* `control.c:1966`: with sub-region updates `SHMIF_SIGBLK_NONE` sleeps all the same
  (`Signal_SubWait` does not look at `mask`).
* `arcan_frameserver.c:349`: a frame is released although the script has not acknowledged
  the new size (`Awaiting` leads to `release`); hence `~SynchSize` in `WaitsForFrames`.
* `frameserver.c:1475`: the failure path leaves the rejected audio buffer size in the page
  (`Refuse`).
* `control.c:733`: a poll that meets the ping before the descriptor leaves the event in the
  caller's buffer; a client that passes another buffer loses it; hence `Fresh` in
  `Undisturbed`. `frameserver.c:479`: `pushfd` ignores a full ring; hence `Q >= Limit`.
* `control.c:526`: the first font hint of a paused client closes descriptor 0 (`Stdin`);
  `control.c:805,1088`: the enqueue of a paused client goes on one event late and throws
  that event away (`swallowed`); `control.c:734`: `arcan_shmif_wait` returns 0 for events
  handled inside.
* `arcan_event.c:226,497`: events that a script turns down while the GPUs are locked are
  dropped (`Handler_Reject`, state `lost`); hence `~Scanout` in `EventuallyHandled`.
  `arcan_event.c:217`: `enqueue` inside a drain may be refused although there is a drain.
  `arcan_event.c:693`: a handler works on a slot that has been given up.
* `arcan_event.c:118-123`: a front index beyond the ring makes `arcan_event_poll` free the frameserver at
  once, since the fuse is set around the drain only; `arcan_event_queuetransfer` then goes on with it (514-517). This
  is the exception in `NotFreedInUse` (configuration `Spoilt`). The killswitch is set by `prepare_segment` only:
  after the first granted resize `arcan_shmif_setevqs` has cleared it and nothing is freed.
* Not a behaviour of the model: the early return of `TRAMP_GUARD(-1, tgt)` at `arcan_event.c:499` leaves `fused` set
  after a bus error in the drain. `ShmifEvents` has hints for the segment itself only; those for other segments
  (`ioevs[7]`) are not merged by the code.

### Migration

* "late": `arcan_shmif_drop` does not take `guard.synch`, so that a guard thread which has loaded
  the address of `dms` may write to it after the segment was unmapped, or after the new one took its place
  (`control.c:1656`). `OwnSwitch` holds up to that window.
* A migrated context has no `primary_id` (set only in `arcan_shmif_open_ext`, `control.c:3291`), so a
  second migration fails with `BAD_SOURCE`; fallback connection point and hooks are not carried over.
* Without `SHMIF_NOREGISTER` a fresh guid is registered, although the comment says that it should
  persist; hence `cf.noreg` in `GuidKept`. With it, the first REGISTER carries no guid although `control.c:3222`
  says "remember guid used so we resend": the server draws one (`arcan_event.c:437`), which the client learns only with a
  connection point. One that falls back to the connection point it was started with comes back under a guid that the
  server has not seen; `GuidKept` is about the servers after the first.
* An event queued at the time of the crash is lost, and poll then returns -1, which `interop.h:87` calls a
  terminal state; wait returns 0 after a successful migration (`interop.h:94`).
* RESET is lost if the new connection is dead as well; signal does not look at `alive`, and enqueue and
  resize may migrate after EXIT; a new server that dies during set-up is not recovered from.
* Not a behaviour of the model: `in_migrate` and `in_signal` of the old `priv` are written after `drop`
  may have freed it.

### a12

* A limit of `rekey_bytes` below the handshake's own bytes breaks the handshake (`Reason`).
* Two sides that both probe are accepted although a comment calls that fishy (the branch is not
  reached); two directories refuse each other although a comment allows it.
* A caller that does not flush leaves data that was held back (`auth_latched`) until more arrives
  (`cf.flush`).
* The end of a streaming source never unlinks its node, and all transfers behind it wait (`a12.c:3042`), as they do
  behind a file that is shorter than announced (2903, 3126); a source
  that breaks is not reported to the sink, and the next transfer on that channel is lost.
* A font waits for a sequence number of its own side to be reached by the peer's (`a12.c:3157`) and may wait
  for ever at the head of the queue; hence `Endless`.
* `vframe_backpressure` is refreshed by acknowledgements only, and wraps to nearly 2^32 when a later frame is
  acknowledged while an earlier one was discarded, or when the identifier of a blob equals that of an outstanding
  frame; a paced source then stalls. Hence `NoAlias` and `~cf.drops` in `FramesFlow`. A repeated acknowledgement in a
  full window drops frames that were never acknowledged.
* `a12.h:653` says that a session with a shutdown id ends when that transfer is "completed or cancelled"; a cancel is not
  acknowledged by a PING, and only completion ends the session (`Terminal`).
* `active_blobs` underflows for streaming nodes; the commands `TUNDROP` and `DIROPEN` fall through to the next case. These are not in the models.

### Video objects

* "moved": compaction of the rendertargets (`arcan_video.c:3343`) leaves owner and attachment pointers on the
  old places. "primary": `drop_rtarget` (3364) asks whether the owner of a member is
  alive, a flag the output never has (it is set at 2336 only), so that living members which the output owns are deleted,
  against `doc/rendertarget_attach.lua:4-8`. "twice": a member that is in the output's list
  already is attached to it a second time. "ownerless": a member without owner is dereferenced.
* "order": the order of an object in several lists is sorted anew in its owner's only.
* "persist": `pop_transfer_persists` does not check that the lower object is persistent, as its comment says.
  "children": children linked in an upper context to a persistent object dangle after the pop.
* "store": sharing a store onto a rendertarget from a colour or persistent source drops the store and keeps
  it. "frames": growing a frameset forgets the old frames, and a store set twice is counted twice.
* The default attachment of a pushed context points into the context below (601, 2193); the assumption of the module
  leaves rendertargets and default attachments out of scripts that push.
* The last identifier of a context is neither transferred by a push nor found by the search that wraps.

### Transformations

* "leftover": instant and zap leave end and tag in cells that are kept for another attribute; the next
  transformation starts after the old end, or answers the old tag (`arcan_video.c:3813`). No property covers
  attributes with such a leftover.
* `lerp_fract` (`arcan_video.c:4195`) compares ticks as floats: from tick 2^24 on a transformation may end before its time, by
  at most the distance of two floats (`Rounding` in `OneAfterTheOther`). Very long durations also end early by `EPSILON`,
  which is not modelled.
* `arcan_video_instanttransform` for rotate and scale sends all tags on LAST and none on ALL; cycling loses the tag
  after the first round (`TagOnce`, `Sends`).
* "wrap": the clock wraps at `INT32_MAX / 3` (`arcan_video.c:4510`, whose comment expects odd behaviour); a transformation
  that ends beyond it never ends, and one that starts at tick 0 is unused.
* `rebase_transform` leaves out blend, and so does `OneAfterTheOther` for chains of a pushed context; lifetimes are counted down once per list the object is in (not modelled).

## 6. Not modelled, and the plan

`PROJECT.json` lists every part with its reason. In this order:

1. A proof of `OneAfterTheOther`.
2. `ShmifAudio`: `step_a`, `arcan_frameserver_audioframe_direct`, `shmifsrv_audio`. Audio hands over
   several buffers at a time and has a semaphore wait without a loop (`control.c:1891`).
3. Connect and authenticate (`socketpoll`, `socketauth`), `shmifsrv_poll`, the handover of subsegments, and the queue of
   descriptors of a segment that is not activated (`flush_queued`).
4. `Conductor`: `arcan_conductor_run`, `preframe_synch`, `yield`, with the strategies and their
   deadlines; that the display is updated again and again.

Parts of modelled components that are left out: masks, the panic key and event sources of the event queue;
`DEVICE_NODE`, `MANUAL_PAUSE` and the initial window of a client's events; compression, audio, tunnels and directory commands
of a12; `recoverexternal`, linked rendertargets and rendertargets of a pushed context; interpolation and lifetimes;
a move to a second server while the first one lives.

Out of reach or without a state machine of their own: device and GPU backends, audio and video
rendering, SQLite statements, terminal widgets, device requests of `psep_open`, the frameserver programs
and tools that only use SHMIF.
