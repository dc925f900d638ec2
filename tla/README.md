# Formal models of the IOTCONNECT Zephyr demos

TLA+ models, TLC instances and TLAPS proofs for the programs of this
repository. The paths below are relative to its root. Five programs are
modelled:

- the **gateway** (`demos/gateway`), the one with the strongest promises: nothing
  is lost while the uplink is down, and nothing is sent twice;
- **vision-occupancy** (`demos/vision-occupancy`): models pushed to a camera that
  keeps scoring frames, and the loop around the camera;
- **ml-model-update** (`demos/ml-model-update`): models pushed whole or in chunks,
  that survive a reboot;
- **eiq-pdm-vibration** (`demos/eiq-pdm-vibration`): motors that must be pulsed,
  and reports about them;
- **face-detect** (`vendor/nxp/face-detect`), as built for the FRDM-MCXN947: a
  camera preview with two threads beside it.

Contents: [inventory](#inventory), [plan](#plan), [modules](#modules),
[runs](#runs), [disagreements](#where-code-and-documents-disagree),
[proofs](#proofs), [not modelled](#not-modelled).

## Inventory

Every demo is a Zephyr application of two or three threads: `main()`, which
connects through the SDK (external to this repository) and loops; the SDK's
MQTT thread, on which the command callbacks (`on_command`, `on_model_push`,
`on_ota`) run one at a time; and, in some, workers and interrupt handlers.

| Component | State | Operations | What is hard | What makes it correct |
|---|---|---|---|---|
| **gateway: spool** (`spool.c`) | ring window `head_seq`, `tail_seq`, `rec_count`; `stats`; slots on a raw eMMC region | `spool_init`, `_push`, `_peek`, `_commit`, `_wipe` | power cuts mid-write, write cache, I/O errors, stale slots, wrap-around | accepted records survive; FIFO; nothing drained comes back; counters exact |
| **gateway: UART ingest** (`uart_ingest.c`) | per link: line buffer, overlong flag, byte ring, counters | receive interrupt, `uart_ingest_pop` | lost bytes, overlong lines, full ring, interrupt against loop | no overrun; lines whole and in order; losses counted |
| **gateway: main loop** (`main.c`) | `connected`, reconnect and report timers, `spool_out` | tick: reconnect, ingest, report, drain; commands | stale session, crash between publish and commit, wipe between peek and commit, boot during an outage | nothing lost; at most one send per boot; the backlog drains |
| **vision-occupancy** | active and staging model buffers, job and result queues, snapshot flags, occupancy | model download worker, commands, camera step, snapshot worker, flash store | shared staging buffer, install outside the lock, dropped results, check-then-set | the active model is always one validated blob; every job is acknowledged; snapshots are not torn |
| **ml-model-update** | model blob, transfer buffer, persisted copy | chunked transfer, install, infer, publish, reset | swap between inference and labelling; failing persistence | class, label, LED and version come from one model |
| **eiq-pdm-vibration** | `demo_state`, motors, thresholds | window, classify, publish, commands | commands in the middle of a window; motors while sleeping or offline | the report names the state driven; the pulsed motor is not held on |
| **uart-telemetry-source** | a counter | print a line each period | - | - |
| **face-detect** (vendor/nxp, as built for FRDM-MCXN947) | slices, rectangles, inference and report FIFOs, one shared result | video loop, inference thread, report thread | a reader that is absent; one heap for both FIFOs and the SDK; results that change in the middle of a frame | one result on the display; results left unread never keep the inference from being woken; the latest count is reported |
| **npu-benchmark** (vendor) | run statistics | measure, publish, acknowledge | - | acknowledgements mean something |
| telemetry, quickstart, c2d-led, click-telemetry, kinetis-meter, softap-provisioning | no C source here | - | - | - |
| tools, dashboards, templates, training data, `common`, `boards` | no run-time state | - | - | - |

Interactions inside the gateway: the receive interrupt hands lines to the main
loop through the ring; the main loop is the only caller of `spool_push`,
`spool_peek` and `spool_commit`; the MQTT thread calls `spool_wipe` and reboots
the board at any point of the loop; `spool_mutex` makes each spool call one
step for the other thread, but not for a power cut.

## Plan

1. *(done)* `Spool`, with its abstract specification `DurableQueue` and proofs.
2. *(done)* `UartIngest`, with its abstract specification `LossyLine`.
3. *(done)* `Gateway`, which extends `Spool`; proofs that carry the spool's
   guarantee over to it.
4. *(done)* `VisionModel`: download, install, roll-back, reset and flash store as
   interleaved steps; `VisionLoop`: capture, hysteresis, LED, snapshots and
   telemetry; proofs for both.
5. *(done)* `ModelUpdate`: transfer protocol, install against infer and label,
   persistence across restarts; proofs.
6. *(done)* `FaceDetect`: three threads, two FIFOs and the heap they share with the SDK; proofs.
7. *(done)* `Vibration`: motors against the clock, the window, commands, sleep and
   disconnects; proofs.
8. *(done)* Proofs of every invariant and action property the runs check, and of
   both refinements.
9. Left: that no record is published twice within one boot, for boots after the
   first (`SentOncePerBoot` counts over all boots); what survives when erases or
   flushes do fail; the buffer cycle of face-detect's other boards.

Runs are to stay few: one passing instance per module and question, a violation
only where a document is contradicted.

## Modules

| Module | Models |
|---|---|
| `Spool` | `spool.c` over an eMMC that may fail, and whose cache a power cut loses |
| `DurableQueue` | what the spool promises: a bounded FIFO that gives up only its oldest record, or all of them when cleared |
| `SpoolRefinement` | the mapping from the one to the other |
| `SpoolProofs` | theorems about `Spool` |
| `UartIngest` | one link of `uart_ingest.c`, byte by byte |
| `LossyLine` | what a link promises: whole lines, in order, or a garbled one where bytes were lost |
| `UartIngestProofs` | theorems about `UartIngest` |
| `Gateway` | the main loop of `main.c` with its spool, the uplink and the MQTT thread |
| `GatewayProofs` | theorems about `Gateway` |
| `VisionModel`, `VisionModelProofs` | model delivery in vision-occupancy, over its buffers, interpreter and flash |
| `VisionLoop`, `VisionLoopProofs` | `main()` of vision-occupancy with its commands and snapshot worker |
| `ModelUpdate`, `ModelUpdateProofs` | ml-model-update |
| `Vibration`, `VibrationProofs` | eiq-pdm-vibration, both builds |
| `FaceDetect`, `FaceDetectProofs` | face-detect |
| `MCSpool`, `MCUartIngest`, `MCGateway`, `MCVisionModel`, `MCVisionLoop`, `MCModelUpdate`, `MCVibration`, `MCFaceDetect` | small instances for TLC |

Definitions whose comment starts with "Altered" are not used by any
specification: each is a variant with a plausible mistake, kept to confirm that
a property notices it.

### Spool

The variables of `spool.c` keep their names; `count`, `pushed`, `drained` and
`drops` are the fields of `struct spool_stats`, and `spool_out` is the main
loop's buffer, because a record is "out" from peek to commit. A slot on the disk
is a sequence number and a body: a record, or `Corrupt` when the CRC would not
match. `disk` is what a read returns; `media` is, for each slot, the *set* of
contents a power cut may leave. A completed flush makes `media` a singleton
everywhere; an unflushed write adds to it. An interrupted or failing
three-sector write leaves one of `Partial(old, new)`: nothing, all, the new
header over the old body, or the old header over part of the new body.

| Action | Code |
|---|---|
| `SpoolInit` (`InitFails`, `InitEmpty`, `InitRecover`) | `spool_init`: disk errors, empty region, recovery and clamp |
| `PushTooLong`, `Push`, `PushFails` | the three outcomes of `spool_push` |
| `Peek` | `spool_peek`, its whole skip loop as one step over the number of bad slots |
| `Commit` | `spool_commit`, with the empty-ring guard and the unflushed, possibly failing header write |
| `Wipe` | `spool_wipe`: the erases that succeeded before the first failure, then the reset |
| `Reboot`, `PowerCut`, `RestartInPush` | restarts; the last in the middle of a slot write |

`fate` and `seqno` are history: what became of each record. They are what the
properties speak of; no guard of the code's own reads them (a record is pushed
once, as each JSON string is). `Faults` selects which faults an instance
suffers: power cuts, failing record writes, commits, erases, reads, flushes.

Abstractions: a foreign slot that would pass the magic check is covered by
`Found`; sequence numbers are naturals (2^32 pushes are out of reach); a restart
during a header write leaves what one just before or just after it leaves,
because one sector is written atomically.

### UartIngest

The wire sends the characters of a line and then CR and LF; a byte may be lost.
A character matters only through the line it belongs to, so the assembly buffer
is a length and either the source line it is a prefix of or `Garbled`. The ring
is the queued lines and the bytes they take, headers included. `RxChar` and
`RxEol` are one byte through `uart_isr`; `Overlong`, `Noise` and `Enqueue` the
three ways `line_complete` ends; `Pop` is `uart_ingest_pop`. Each call holds the
link's spinlock, which masks the interrupt, so each is one step. `arrived` and
`dirty` are history for `LossCounted` and the refinement.

### Gateway

`pc` is the position of `main()`: `bringup`, and in the loop `tick`, `ingest`,
`report`, `peek`, `send`, `commit`, `sleep`. Every spool call is the action of
`Spool` itself. The environment can act between any two steps: lines arrive, the
operator sends `spool-wipe` or `reboot`, the uplink fails and returns, the SDK
notices a dead session some time later, the power goes. `connected` is the local
variable sampled once per tick, `session` what `iotconnect_sdk_is_connected()`
would return, `network` the truth. Times are ticks: the reconnect period is
`ReconnectTicks`; whether the report interval is over is left open. The two
UART rings are one `inbox`. Building a record out of a line either succeeds or
fails (`IngestBad`).

### VisionModel

A payload is two halves, so that a copy can be caught half way; a blob is a
payload and its IOTV header, which stands for the payload the CRC was computed
over. `model_staging`, `model_active` and `flash` hold blobs, `interp` says over
which buffer the interpreter was built. Two installers share
`install_from_staging`: the download worker and `model-reset` on the MQTT
thread, each with its own `pc`; `model_lock` is taken from the trial load to the
reload, as in the code, and not for the validation before or the save after.

| Action | Code |
|---|---|
| `Boot`, `Connect`, `Disconnect`, `drain_model_results` | `main()` |
| `queue_model_job` | `model-fetch`, `on_model_push` |
| `TakeJob`, `Receive`, `ReceiveRest`, `DownloadFails`, `normalize_staged_download`, `Report` | `model_worker` |
| `Validate`, `TrialLoads`, `TrialFails`, `Copy`, `CopyRest`, `Reload` | `install_from_staging`, for either installer |
| `SaveErase`, `SaveWrite`, `SaveWriteRest` | `model_store_save`, any part of which may fail |
| `ModelReset`, `Stage`, `StageRest`, `iotv_wrap_in_place` | `model-reset` and `install_builtin` |
| `Crash` | a restart at any point |

`InferInit` is what `vision_infer_init` may answer: a file that is unfit does not
load, a mixture of two may or may not. `Boot` installs the
stored model, or, if there is none that loads or the store cannot be opened or
read, the built-in one (`RunBuiltin`).

History: `fate` (what became of each pushed file), `shared` (a reset staged its
model while a job used the buffer) and `undermined` (a reset and a job
overlapped, or a flash erase failed). The properties name those two cases and
exclude them: no lock in the code keeps reset and download apart in the staging
buffer. `unread` says that the last restart could not read the model that is in
flash, and that no erase has succeeded since: `StoreAgrees` then says that the
built-in model runs, because the stored one is still valid and a later restart
will come up with it.

### VisionLoop

`pc` is the position of `main()`; each place where another thread's write can
fall between a read and its use is a step of its own: `LedMode` and `led_apply`,
`Step`, `Tag`, `ClearWant` and `Give` for the snapshot, `Ask` and
`snapshot_request` for whoever asks for one (the MQTT thread or the bench
shell). `Upload` and `Uploaded` are the snapshot worker, `Drain` the camera's
thread, `LedCommand` and `LedCommanded` the two assignments of an LED command.
A frame's score is either verdict, because a command may move the threshold
between any two frames. The code's two run counters have no limit; the model
counts to `MaxRun` (`Counted`), which is no less than the two numbers of frames
they are compared with.

`published` is the occupancy the platform has been sent, `None` while that is
not known: a session that is lost may take the last messages with it
(`SessionLost`). `due` is `last_pub == 0`, with which each session begins
(`Connect`). `publish_vision` sends in a live session, or the message cannot be
made or its send fails; the code discards the result, so the model goes on in
either case. History: `unsent`, that the last message was not made or not sent;
`recent`, the last verdicts; `raced`, whether an LED command fell between
`main()`'s reading of the mode and its use.

### ModelUpdate

A blob is two parts, the labels of one model and the weights of one, because
`model_validate` compares a CRC over the weights alone: `Blobs` is all it
accepts, mixed ones included, among models of the same dimensions. Its text
travels as three chunks, cut inside the header before the `crc` field and again
inside the weights: labels and `led_mask`; the CRC and the first weights; the
rest. `script` remembers what was sent since `model-begin`. `Push`, `ModelBegin`, `ModelData`, `ModelCommit`, `ModelReset` and
the LED commands are the MQTT thread's handlers, cut where the code makes a
settings call or releases the lock (`Save`, `Revert`, `LedCommanded`). `Infer`,
`Label` and `Led` are `sense_and_infer()`, which takes the lock twice. `Restart`
may come at any point. `promised` is the set of blobs the answers so far
allow; a settings call that fails empties it, because the code acknowledges all
the same and nothing takes the failure up.

### Vibration

Both builds, chosen at the start. Time is in units of which `PERIOD` make one
pulse; `motors_apply` sets the pins from the clock and lets up to `MaxStep`
units pass until it is called again. `Capture` is the CAPTURE build's loop;
`BeginWindow`, `Sample`, `Publish` and `Sleep` the CONNECT build's; `Drive`,
`SetThreshold`, `SetInterval` and `Reboot` the commands, at any point of it.
`Score` is the formula for every threshold, the NaN of 0/0 included. History:
`held`, how long the unbalanced motor has been on without a break, and
`commanded`, whether the state was set since the window began.

### FaceDetect

The FRDM-MCXN947 build, whose camera delivers a frame in slices. `main()` has
priority 0 and the other threads 2, on one core, so what it does between two
waits is one step for them: `ShowSlice` (choose the rectangles at the first
slice, copy into the model's input, draw, show) and then `HandOver` or
`FirstFrame` (the two `k_fifo_alloc_put`s, or the count of the first frame).
`init_face_det`, `Wake` and `face_det` are the inference thread; `Setup`,
`SdkInit`, `Connect`, `Disconnect`, `TakeResult`, `NoResult` and `publish_faces` the report
thread in `cloud.c`. A put that finds no node is ignored, as in the code.

The nodes come from the system heap (`NODES` of them fit), which "the whole
IOTCONNECT stack" uses too (`prj.conf`): `sdk_heap` is what the stack holds,
which changes at any time by any amount (`SdkMemory`), counted in nodes as if the
heap were never fragmented. The SDK allocates in `iotc_thread` and, it is assumed,
in threads of lower priority than `main()`: none of it falls between its two puts.
`SdkInit` is `iotconnect_sdk_init`, tried for ever until `SdkNodes` of memory are
there. `iotc_thread` is created essential (`K_ESSENTIAL`): when it returns
because the network did not come up, Zephyr takes that for a fatal error, and
everything stops (`rpc = "halted"`, `Running`).
 The locals `main()` does not initialise
begin with anything. A result is its time stamp and its number of faces; a new
stamp is one in use nowhere. History: `stitched`, the slices copied so far, and
`unqueued`, that the last result found no node while none waited.

## Runs

| Run | Question | Bounds, and why they are enough |
|---|---|---|
| `spool_durable` | Is every accepted record still there, intact and in order, after anything? Is the spool a `DurableQueue`? | 2 slots and 3 records: the ring fills, evicts and wraps; 3 restarts: recoveries of recovered rings; stale slots at the start; power cuts and failing record writes, commits and reads |
| `spool_resend` | Does nothing drained or wiped come back? Are the counters exact? | 2 slots, 4 records, 2 restarts that keep the eMMC powered; failing reads, erases and flushes |
| `uart_ingest` | Are lines assembled, queued and dropped as promised? | lines just below, at and above the limits of the buffer and the prefix; a ring that holds one long line and one short; 4 lines, 2 lost bytes |
| `gateway_safe` | Is nothing lost, and nothing sent twice within a boot? | 3 records, 2 slots (so eviction happens), 1 restart, power cuts, failing reads; the uplink fails while the loop sleeps, and the SDK notices |
| `gateway_drains` | Does a backlog always drain? | 3 records; the uplink may fail at any point of the loop, any number of times, unnoticed |
| `vision_model` | Is every frame scored by one whole model, flash sound, each answer true, each job ended? | two files, one a bare `.tflite` and one that does not load: the good path and the roll-back in either order; queues of 1 instead of 2, so that they fill; failing flash operations, a store that cannot be read at boot included, one reset and one crash at any point |
| `vision_loop` | Does the loop keep its promises against commands, shell and snapshot worker? | 2 frames to enter, as in the code, and 3 to clear instead of 5: different, and each run can be cut short or go on past both (`MaxRun` 4); sessions, requests and LED commands without bound |
| `ml_model` | Do acknowledged models survive, and only whole ones get in? | 2 models, all chunks of one and the header of the other, a buffer of 3 chunks: too short, exact, too long, repeated, out of order, a header of either model before the same weights; settings calls that fail, one restart. Weights of two models take a fourth weights' chunk and are left to the theorem |
| `vibration` | Is the motor pulsed, and does a report name what was driven? | pulses of 2 in 5, a window of 6 units, so that windows begin at every phase; samples up to 2 units apart; two publish intervals; thresholds below the noise floor, between it and `thresh_warn`, and above |
| `face_detect` | Do display, inference and report stay consistent and alive? | 3 slices (8 in the code) so that some slice is neither first nor last; 3 nodes, which the results can exhaust but for one, shared with a stack that takes any amount and needs 2 to start; 3 time stamps: those of the present result and of the one on the display differ, and one is left; 0, 1 or 2 faces |
| `gateway_lossy`, `vibration_held` | see the next section | the smallest instance with the disagreement |

Records are interchangeable, hence the symmetry in the gateway's and the spool's
runs without liveness.
Deadlock checking is off throughout because the bounds (`MaxReboots`, finitely
many records and lines) let instances come to rest, as does a `main()` that
returns. Named bounds: `MaxReboots`, `MaxLines`, `MaxLost`, `InboxSize`,
`MaxResets`, `MaxCrashes`, `MaxRun`, `MaxFaces` (the rectangles of one
inference: `face_det` writes as many results as the network returns, with no check
against its array).

Safety, in words: `Recoverable` - a record for which `spool_push` returned 0 is
in the window and readable until drained, wiped or evicted, and the bad-slot
skip of `spool_peek` never drops one. `NeverResend` - what `spool_peek` hands
out was neither committed nor wiped, across restarts. `LossCounted` - a
telemetry line that arrived entire was queued or counted. `PopFits` - the pop
never discards a line already counted as received (proved, not in a run).
`NothingLost` - each record
is with the platform, in the spool, or given up for a stated reason.
`SentOncePerBoot` - a record reaches the MQTT client at most once more per
restart. `CommitsWhatItSent` - a commit removes exactly the record just
published, even with a wipe in between.

`ServesWhole` - whenever the lock is free, the interpreter runs one whole,
loadable model from the active buffer. `FlashWhole` - a stored blob that passes
its CRC is one whole model, wherever a crash or an overlapping install cut the
save. `StoreAgrees` - when both installers are done, flash holds what runs or
nothing that loads, or what the last restart could not read; then the built-in
model runs. `AnswersTrue` - a job reported done runs, one reported failed
does not. `Hysteresis` - the occupancy is the documented function of the last
verdicts, recomputed from the verdicts themselves. `FrameOwned` - from the
hand-over to the end of the upload no pass takes another snapshot, whoever asks.
`FlipPublished` - when the loop sleeps in a live session, the platform has been
sent the present occupancy in that session, unless the last message could not be
made or sent.
`LedObeys`, `LedForced` - between commands a forced LED stays as acknowledged,
but for a command that fell between `main()`'s check of the mode and its use.

`AckedSurvives` - through restarts at any point the device runs a model its
answers allow. `CommitExact` - a commit installs exactly when everything sent
since the begin was, as a whole, the text of an acceptable blob, and installs
that blob: no chunk repeated, missing, out of order or left over, and no weights
of two models. `PulsedWhileDriven` - no pulse is
longer than a pulse and one sample, whatever phase a window begins at.
`ReportMatchesDrive` - a report names the state its window was recorded in.
`OneResultOnDisplay` - the slices shown never carry rectangles of two
inferences. `LatestPending` - unless the last result found no node, with nothing left to read, the count to be
published is that of the last result handed over.

Liveness: `BacklogDrains` - once the uplink stays up, each spooled record leaves
the spool. It assumes weak fairness of `MainLoop` (the loop's thread is never
starved: it sleeps 500 ms per turn and waits for nothing without bound) and of
`SessionEnds` (the MQTT keep-alive ends a dead session). Nothing is assumed of
arrivals, commands or the uplink itself, nor of the way `network_up` or SNTP
turn out at boot. Read errors are left out of this run: `spool_peek` has no way
past a slot that keeps failing to read.

| Property | Says | Fairness, and what justifies it |
|---|---|---|
| `EveryJobEnds` | a queued job is answered, unless a restart forgot it or the result queue was full | strong for both installers: `k_mutex_unlock` hands the lock to a waiting thread; the connect loop retries for ever and a session lasts for one pass of the loop |
| `SnapshotServed` | an accepted snapshot request leads to an upload | weak for `main()`, the worker and the camera; strong for `Step`: sessions are opened that last into the loop |
| `NewModelTakesOver` | again and again the label is of the installed model, so one that stays installed gives the labels | strong for `Infer` and for the MQTT thread's answers: the lock goes to the one that waits |
| `StopTakesEffect` | `motor-stop` stops both motors unless another command comes | weak for `main()`, strong for `BeginWindow`, as above |
| `PreviewGoesOn` | a waiting inference thread is woken until `main()` or the system stops, or, from some time on, the IOTCONNECT stack holds memory at every one of infinitely many hand-overs | weak for `main()` (the camera delivers) and for the inference thread; nothing is assumed of the report thread, which may never get an identity |

`PreviewGoesOn` holds because `main()` takes the node for the wake-up before the
one for the result: results left unread never take the last node. The second
half of it is a real limit: a stack that keeps the rest of the heap for good
would stop the inference, and nothing in the code prevents it.

## Where code and documents disagree

Two are regular runs:

| Run | Property | What happens |
|---|---|---|
| `gateway_lossy` | `NothingLost` | `publish_raw` ignores the publish result; live and drained records go into a session that is already dead. `gateway_safe` shows that this window is the only way records get lost there. |
| `vibration_held` | `NeverHeldOn` | Only `motors_apply()` moves the motor's pin, and only inside the one-second window. When its last sample falls into a pulse, the motor stays on for the whole publish interval, up to an hour; the comment above `motors_apply()` says it is never held at full power. |

The others are kept as configurations to be run by hand
(`tlc -config <file> <module>`):

| Configuration | Property | What happens |
|---|---|---|
| `MCVisionModel_reset.cfg` | `ResetReverts` | A `model-reset` while `model_store_save` is still writing: the header is erased, the built-in model installed and acknowledged, the save then completes, and the next restart loads the pushed model again. |
| `MCModelUpdate_mixed.cfg` | `NeverMixed` | `demos/ml-model-update/DEMO.md:184` says "A blob with a corrupted byte is rejected"; the CRC covers the weights only. A transfer whose first chunk, the labels, is another model's is installed: labels and LED mask of one model over the weights of another. |
| `MCFaceDetect_reconnect.cfg` | `InitSucceeds` | "Retry forever" (`cloud.c:165`): while `iotconnect_sdk_init` is retried nobody reads `iotc_fifo`, results fill the heap but for a node, and the memory the SDK needs to start never comes back. |
| `MCSpool_wipe_io.cfg` | `Recoverable` | `spool_wipe` resets the ring even when an erase failed. New records restart at sequence 0; old ones with higher numbers survive on disk; the recovery at the next boot takes the window that ends with the highest number, and the new records are outside it. |
| `MCSpool_flush_io.cfg` | `Recoverable` | The result of the flush is discarded and the push reports success. |
| `MCSpool_resend_power.cfg` | `DrainedNeverResent` | The header that `spool_commit` clears is not flushed, and a power cut brings the record back. |
| `MCSpool_count_io.cfg` | `StatsCountExact` | A failing push into a full ring leaves `stats.count` one too high until the next successful call. |
| `MCGateway_exit.cfg` | `BacklogDrains` | After a restart with a link but no uplink, `main()` returns on the SNTP error and never drains. |

Also lost without any counter, and left out of `HonestDrops`: a record whose slot
write fails (`main()` ignores the result of `spool_push`), and a line that does
not parse.

## Proofs

Every invariant and every action property of a passing run is a theorem, for all
values of the constants, and so are both refinements. The type invariants
(`TypeCorrect`, `IngestTyped`, `GatewayTyped`, `VisionModelTyped`, `LoopTyped`,
`UpdateTyped`, `VibrationTyped`, `FaceTyped`) need no hypothesis. Some of the
others do:

| Hypothesis | Says | Without it |
|---|---|---|
| `HonestDisk` | the erases of a wipe and the flushes do not fail | `MCSpool_wipe_io.cfg`, `MCSpool_flush_io.cfg` lose accepted records |
| `EraseHolds` | the header a commit erases reaches the medium: no power cut, no failing commit | `MCSpool_resend_power.cfg` hands a drained record out again |
| `NoneFound` | the region holds none of this device's records before the first boot | a record found there could be one yet to be pushed: it says only that records are told apart |
| `"push_io" \notin Faults` | record writes do not fail | `MCSpool_count_io.cfg`; the record is lost without being counted |
| `CalmLink` | the link fails only between two ticks, and the session with it | `gateway_lossy` |

The constants have the assumptions their modules state. `RoomAssumption` is the
one that is about a size: the transfer buffer of ml-model-update has room for one
model, as `MODEL_B64_MAX` has. What `StoreAgrees`, `FlipPublished`, `LatestPending`
and the LED properties set aside is in the properties themselves, as history
(`unread`, `undermined`, `unsent`, `unqueued`, `raced`).

### Spool

- `TypeCorrect`: `Spec => []TypeOK`, under every fault.
- `SpoolInvariant`: `Spec => []SpoolInv` under `HonestDisk`; record writes,
  commits, reads and the power may fail.
- `AcceptedSurvive`: hence `Spec => []Recoverable`.
- `SpoolIsDurableQueue`: `Spec => ImplementsDurableQueue` under `HonestDisk`.
- `CountExact`: `Spec => []StatsCountExact`, if record writes do not fail.
- `DropsAreHonest`: `Spec => []HonestDrops`, likewise.
- `OneTrace`: `Spec => []TraceInv` under `NoneFound`.
- `NoResend`: `Spec => NeverResend` under `NoneFound` and `EraseHolds`.

`Recoverable` is not inductive: it says nothing while the spool is down, nor what
a power cut may leave. `SpoolInv` adds three things. `Durable`: the only content
a power cut can leave in a queued record's slot is that record, and nothing
anywhere in `media` has a sequence number NSLOTS or more above it, so the
clamp of `spool_init` cannot start above it. `RingWindow`: `rec_count` is the
width of the window, at most NSLOTS, and nothing on disk is newer than the tail.
`MediaHoldsDisk`: what is read is among what may survive. The heart of the
preservation proof is `DistinctSlots` (numbers less than NSLOTS apart are in
different slots) and `TailSlotFree` (the slot about to be written belongs to no
record that stays queued); `InterruptedWrite` covers failing and interrupted
writes alike.

The refinement maps the spool to the queue of its spooled records by sequence
number. `InOrder` sorts them by rank: the i-th is the record with i records up to
it. With distinct numbers that needs no induction, because the rank is an
injection of a set of n elements into 1 .. n, and so takes each value once
(`RankReached`); `OrderAppend` and `OrderTail` say what a new highest number and
the loss of the lowest do to the order. What `SpoolInv` gives is that the numbers
are distinct and in the window (`QueueNumbers`), since two records cannot be the
only content of one slot. The window also says whether a full ring has a record
at its head (`RoomMade`): then the push is an `AppendEvicting`, else there is
room by counting.

`TraceInv`: a record is written once, so all its readable copies, on the disk or
as a power cut may leave them, are in one slot under one number. `Gone` follows
for released records while erases hold: the slot that held them has been erased.
`DropInv` says that until the first restart the queued records have numbers of
their own, so that a skip of n slots loses at most n of them.

### Gateway

- `GatewayUsesSpool`: `GatewaySpec => Spec`; every step of the gateway is a step
  of the spool or leaves it alone.
- `GatewayKeepsAccepted`, `GatewaySpoolsInOrder`: hence `Recoverable` and the
  refinement hold of the gateway, under `HonestDisk`.
- `DrainsOnlySent`: `GatewaySpec => CommitsWhatItSent` under `HonestDisk`.
- `SentOnce`: `GatewaySpec => []SentOncePerBoot` under `NoneFound`, whatever fails.
- `NothingIsLost`: `GatewaySpec => []NothingLost` under `HonestDisk` and `CalmLink`.
- `GatewayTyped`: `GatewaySpec => []GatewayTypeOK`.

`DrainInv` says that between peek and commit the slot at `head_seq` holds the
peeked record or the ring is empty, and that it was sent when the commit is due;
with `Durable`, the record that leaves the queue is that one. `FreshInv`: the
inbox holds each record once, and none that was already handled. `OnceInv`: a
record that has been sent once more than there were restarts is the one about to
be committed, or is not in the window until the next boot; `WindowShrinks` is why
(within a boot only the push of a record brings it into the window), and
`TraceInv` why the window holds a record at one number only. `LinkInv` ties the
`connected` that main() sampled to the session during a tick, and `DeliverInv`
says that what was drained or published live has been received.

### UART ingest

- `NoOverrun`: `Spec => []InBounds`.
- `PopNeverDiscards`: `Spec => []PopFits`, assuming the main loop's buffer is no
  smaller than the assembly buffer less the prefix, which `main.c` ensures by
  using `INGEST_LINE_MAX` for both.
- `LossIsCounted`: `Spec => []LossCounted`.
- `LinkIsLossyLine`: `Spec => ImplementsLossyLine`.
- `IngestTyped`: `Spec => []TypeOK`.

`InBounds` is not inductive: that the ring is not overrun needs the lengths of
the queued entries, and those need the bound on the assembly buffer. `LinkInv`
states the three together. `RingInv` accounts for `rb_used` without a recursive
sum: there is a function that gives the bytes left from each entry on. `IngestInv`
adds, for as long as no byte of the line was lost (`Faithful`), that the buffer
holds what has been sent of it, or the line is already known to be too long; so
what `line_complete` queues is that line. The refinement has one case per way a
line can end.

### vision-occupancy

`VisionModelProofs`, for every set of files, queue length and number of resets
and crashes: `AlwaysServesWhole` (`Spec => []ServesWhole`), `StoredIsWhole`
(`Spec => []FlashWhole`), `StoreAlwaysAgrees` (`Spec => []StoreAgrees`),
`AnswersAreTrue` (`Spec => AnswersTrue`). The invariant `ModelInv` says of the time
before a reset and a download have shared the staging buffer: the lock is held
exactly by the installer between trial and reload, and only one of the two uses
the buffer (`Exclusive`); a header always belongs to one model (`HeadersPure`),
which is why a torn write cannot pass the CRC; and what the staging and the active
buffer hold is fixed by the installers' positions (`StagingHolds`, `ActiveHolds`).
`StoreInv` goes further for the time without such an overlap: what flash holds at
each position of the save (`FlashIs`), that all that is stored loads (`Fit`), and
that no part of a file is in the active buffer or in flash before its job copied
it there (`Fresh`), without which a failed job could run all the same.

`VisionLoopProofs`, for all frame counts with `OCC_ENTER_FRAMES` no larger than
`OCC_CLEAR_FRAMES`: `WorkerOwnsFrame`, `ForcedLedObeys`, `FlipIsPublished`,
`LoopTyped` and `OccupancyFollowsVerdicts` (`Spec => Hysteresis`). `FlipIsPublished`
rests on `due`: what a lost session leaves unknown is published by the first pass
of the next one, flip or not. `Hysteresis` rests
on the fact that each counter is the length of the run at the end of `recent`, up
to its bound (`HysteresisInv`), with lemmas on how a run grows and is shifted;
`FrameOwned` on `SnapInv`, which says that a pass that wants a snapshot found the
worker free and nobody else makes it busy.

### ml-model-update, eiq-pdm-vibration, face-detect

`ModelUpdateProofs`, for every set of models and all bounds: `RestartKeeps`,
`AckedModelSurvives`, `LedStaysForced`, `CommitIsExact` (`Spec => CommitExact`),
`UpdateTyped`. `DeliveryInv` ties the stored and the installed model to what each
pending command still allows; `TransferInv` the transfer buffer to what was sent
since the begin: the same while there was room, and closed by a chunk too many.
Since a blob's text determines the blob, what is installed is what was sent.

`VibrationProofs`, for every period, pulse, window and sampling with
`MaxStep <= PERIOD - ON` (the pulse is off for longer than two samples are apart)
and whole periods in a state of the cycle: `PulseIsBounded`, `ReportNamesDrive`,
`ScoreIsFaultLine` (the heuristic's score is full exactly when its state is
fault, above the noise floor), `VibrationTyped`. `PulseInv` bounds `held` by the
place in the present pulse; `PhaseAdvances` does the modular arithmetic.

`FaceDetectProofs`, for every number of slices above one, size of the heap and
set of results: `DisplayShowsOneResult`, `FirstInputComplete` (no inference begins
on an input with an unfilled slice, whichever slice the camera begins with),
`ResultsLeaveRoom`, `LatestIsPending` and `FaceTyped`. `DisplayInv` adds to
`OneResultOnDisplay` what the frame in progress has already replaced: new
rectangles may be drawn only after a whole frame without any. `FrameInv` says that
the slices counted are the last ones shown. `HeapInv` is that the results leave
one node that they do not take themselves: while the inference thread waits with
an empty FIFO, a full heap means that the IOTCONNECT stack holds a part of it; `LatestPending` is inductive together with it.

### What is not proved

The liveness properties (`BacklogDrains`, `EveryJobEnds`, `SnapshotServed`,
`NewModelTakesOver`, `StopTakesEffect`, `PreviewGoesOn`) are only model-checked: they
rest on fairness, and what an action being enabled means is out of the prover's
reach. So is that the properties named above as disagreements fail: the runs show
it. Only proved, and in no run: `SpoolInv`, `TraceInv`, `PopFits`,
`RestartKeepsModel`, `ScoreMatchesState`, `InputComplete`, `RoomToWake`.

## Not modelled

The SDK, MQTT, TLS, SNTP and the eMMC, camera and display drivers, except for
what the code here relies on; the contents of records and acknowledgements; the
commands that only read state or set the report interval; provisioning.

- vision-occupancy: pixel, tensor and PNG arithmetic, the bytes of the zip walk,
  URL parsing, the shell commands that only print. A camera that stops delivering
  leaves its last frame in place, and `Capture` takes it however old it is; no
  property is stated about that.
- ml-model-update: sensor values and inference arithmetic. The one label that
  mixes two models (the lock is released between class and label) is in the
  model; only that labels become those of the new model is checked.
- face-detect: the pixel and tensor arithmetic, the text on the display, the
  heartbeat report, the fragmentation of the system heap, slices the camera drops, and
  the buffer cycle and full-frame path of the boards other than the FRDM-MCXN947
  (on this one `convdisp` hands the camera's buffer through).
- npu-benchmark (one loop without shared state), uart-telemetry-source (the sender
  on the wire of `UartIngest`), and the demos without C source: nothing to state a
  property of.
