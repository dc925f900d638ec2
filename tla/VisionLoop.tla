----------------------------- MODULE VisionLoop -----------------------------
(***************************************************************************)
(* The vision loop of demos/vision-occupancy (src/main.c): capture, score, *)
(* occupancy hysteresis, LED, snapshot hand-over and telemetry in main();  *)
(* C2D commands on the MQTT thread, bench commands on the shell's, and the *)
(* snapshot worker, all on flags without a lock.  A frame's score is       *)
(* either verdict: threshold_pct, which a command may set between any two  *)
(* frames, takes no other part.  The camera's drain thread swaps frames    *)
(* under a lock of its own; here it is whether a frame is held.            *)
(***************************************************************************)
EXTENDS Naturals, Sequences

CONSTANTS OCC_ENTER_FRAMES, OCC_CLEAR_FRAMES, None,
          MaxRun   \* a bound of the model's own: runs are counted no further

ASSUME LoopAssumption ==
    /\ OCC_ENTER_FRAMES \in Nat \ {0} /\ OCC_CLEAR_FRAMES \in Nat \ {0}
    /\ OCC_ENTER_FRAMES <= OCC_CLEAR_FRAMES
    /\ MaxRun \in Nat /\ OCC_CLEAR_FRAMES <= MaxRun
    /\ None \notin BOOLEAN /\ None \notin {"on", "off"}

Callers == {"mqtt", "shell"}
Modes == {"auto", "on", "off"}
Pcs == {"boot", "selftest", "connect", "step", "capture", "infer",
        "led", "led_apply", "tag", "clear_want", "give", "publish", "sleep"}

VARIABLES
    pc, cam_ok,
    latest,        \* the drain thread holds a frame
    cam_stopped,
    session, fu_available,
    occupied, consec_above, consec_below,
    flipped,       \* vision_step()'s result
    due,           \* last_pub is 0: nothing tried in this session
    published,     \* the occupancy the platform has been sent, or None: unknown
    led_mode, led_state,
    ledcmd,        \* the mode a command has set and not yet applied, or None
    want_snap,     \* vision_step()'s local
    snap_want, snap_busy, snap_go,
    uploading,     \* the snapshot worker is at a frame
    asking,        \* the callers past the check in snapshot_request
    (* History. *)
    recent,        \* the last verdicts, at most OCC_CLEAR_FRAMES
    unsent,        \* the last message could not be made or sent
    raced          \* the last LED command overlapped main()'s use of led_mode

occVars == <<occupied, consec_above, consec_below, flipped, recent>>
ledVars == <<led_mode, led_state, ledcmd, raced>>
snapVars == <<snap_want, snap_busy, snap_go, uploading, asking>>
cameraVars == <<latest, cam_stopped>>
linkVars == <<session, fu_available>>
teleVars == <<due, published, unsent>>
vars == <<cameraVars, pc, cam_ok, want_snap, teleVars, occVars, ledVars, snapVars, linkVars>>

TypeOK ==
    /\ latest \in BOOLEAN /\ cam_stopped \in BOOLEAN
    /\ pc \in Pcs /\ cam_ok \in BOOLEAN
    /\ session \in BOOLEAN /\ fu_available \in BOOLEAN
    /\ occupied \in BOOLEAN /\ flipped \in BOOLEAN /\ published \in BOOLEAN \cup {None}
    /\ due \in BOOLEAN /\ unsent \in BOOLEAN
    /\ consec_above \in Nat /\ consec_below \in Nat
    /\ led_mode \in Modes /\ led_state \in BOOLEAN /\ ledcmd \in {"on", "off", None}
    /\ want_snap \in BOOLEAN /\ snap_want \in BOOLEAN /\ snap_busy \in BOOLEAN
    /\ snap_go \in 0 .. 1 /\ uploading \in BOOLEAN /\ asking \subseteq Callers
    /\ recent \in Seq(BOOLEAN) /\ Len(recent) <= OCC_CLEAR_FRAMES
    /\ raced \in BOOLEAN

Init ==
    /\ latest = FALSE /\ cam_stopped = FALSE
    /\ pc = "boot" /\ cam_ok = FALSE
    /\ session = FALSE /\ fu_available = FALSE
    /\ occupied = FALSE /\ consec_above = 0 /\ consec_below = 0
    /\ flipped = FALSE /\ recent = <<>>
    /\ due = TRUE /\ published = None /\ unsent = FALSE
    /\ led_mode = "auto" /\ led_state = FALSE /\ ledcmd = None /\ raced = FALSE
    /\ want_snap = FALSE /\ snap_want = FALSE /\ snap_busy = FALSE /\ snap_go = 0
    /\ uploading = FALSE /\ asking = {}

Goto(from, to) == pc = from /\ pc' = to

(* The code counts on; the model stops at MaxRun, above both numbers of    *)
(* frames the counters are compared with.                                  *)
Counted(n) == IF n < MaxRun THEN n + 1 ELSE n

----------------------------------------------------------------------------
(* main() up to its loop: the camera, or none, and a self-test. *)

Boot ==
    /\ \/ Goto("boot", "selftest") /\ cam_ok' = TRUE
       \/ Goto("boot", "connect") /\ cam_ok' = FALSE
    /\ UNCHANGED <<cameraVars, want_snap, teleVars, occVars, ledVars, snapVars, linkVars>>

SelfTestPasses ==
    /\ Goto("selftest", "connect") /\ latest
    /\ UNCHANGED <<cameraVars, cam_ok, want_snap, teleVars, occVars, ledVars, snapVars,
                   linkVars>>

(* No frame, or no score: vision_camera_stop, for good. *)
SelfTestFails ==
    /\ Goto("selftest", "connect")
    /\ cam_stopped' = TRUE /\ cam_ok' = FALSE
    /\ UNCHANGED <<latest, want_snap, teleVars, occVars, ledVars, snapVars, linkVars>>

(* drain_fn: the next frame replaces the one held.                         *)
Drain ==
    /\ cam_ok /\ ~cam_stopped
    /\ latest' = TRUE
    /\ UNCHANGED <<cam_stopped, pc, cam_ok, want_snap, teleVars, occVars, ledVars,
                   snapVars, linkVars>>

(* Altered: a new session does not publish of itself. *)
AlteredConnect ==
    /\ Goto("connect", "step")
    /\ session' = TRUE /\ fu_available' \in {fu_available, TRUE}
    /\ UNCHANGED <<cameraVars, cam_ok, want_snap, teleVars, occVars, ledVars, snapVars>>

(* The connect loop; a session may come with a place for files, and starts *)
(* with nothing published.                                                 *)
Connect ==
    /\ Goto("connect", "step")
    /\ session' = TRUE /\ fu_available' \in {fu_available, TRUE}
    /\ due' = TRUE
    /\ UNCHANGED <<cameraVars, cam_ok, want_snap, published, unsent, occVars, ledVars,
                   snapVars>>

(* A session may be lost at any time, and it is not known which of the     *)
(* last messages with it; the loop notices between two steps.              *)
SessionLost ==
    /\ session /\ session' = FALSE
    /\ published' = None
    /\ UNCHANGED <<cameraVars, pc, cam_ok, want_snap, due, unsent, occVars, ledVars,
                   snapVars, fu_available>>

Disconnected ==
    /\ Goto("step", "connect") /\ ~session
    /\ UNCHANGED <<cameraVars, cam_ok, want_snap, teleVars, occVars, ledVars, snapVars,
                   linkVars>>

----------------------------------------------------------------------------
(* vision_step: decide on a snapshot ... *)

(* Altered: the frame of an upload in progress is not spared. *)
AlteredStep ==
    /\ session
    /\ Goto("step", IF cam_ok THEN "capture" ELSE "publish")
    /\ want_snap' = snap_want
    /\ flipped' = FALSE
    /\ UNCHANGED <<cameraVars, cam_ok, teleVars, occupied, consec_above, consec_below,
                   recent, ledVars, snapVars, linkVars>>

Step ==
    /\ session
    /\ Goto("step", IF cam_ok THEN "capture" ELSE "publish")
    /\ want_snap' = (snap_want /\ ~snap_busy)
    /\ flipped' = FALSE
    /\ UNCHANGED <<cameraVars, cam_ok, teleVars, occupied, consec_above, consec_below,
                   recent, ledVars, snapVars, linkVars>>

(* vision_camera_capture converts the held frame, however old.  It cannot  *)
(* time out here: the self-test saw a frame, and one is held ever since.   *)
Capture ==
    /\ Goto("capture", "infer") /\ latest
    /\ UNCHANGED <<cameraVars, cam_ok, want_snap, teleVars, occVars, ledVars, snapVars,
                   linkVars>>

(* Altered: nothing else is done for a frame that cannot be scored. *)
AlteredInferFails ==
    /\ Goto("infer", "publish")
    /\ UNCHANGED <<cameraVars, cam_ok, want_snap, teleVars, occVars, ledVars, snapVars,
                   linkVars>>

(* Score it, or fail to and leave the occupancy alone ...                  *)
InferFails ==
    /\ Goto("infer", "tag")
    /\ UNCHANGED <<cameraVars, cam_ok, want_snap, teleVars, occVars, ledVars, snapVars,
                   linkVars>>

LastOf(s, n) == SubSeq(s, IF Len(s) > n THEN Len(s) - n + 1 ELSE 1, Len(s))

(* Altered: a frame above leaves the run below as it was. *)
Altered_occupancy_update(above) ==
    /\ Goto("infer", "led")
    /\ consec_above' = IF above THEN Counted(consec_above) ELSE 0
    /\ consec_below' = IF above THEN consec_below ELSE Counted(consec_below)
    /\ occupied' = IF occupied THEN consec_below' < OCC_CLEAR_FRAMES
                               ELSE consec_above' >= OCC_ENTER_FRAMES
    /\ flipped' = (occupied' # occupied)
    /\ recent' = LastOf(Append(recent, above), OCC_CLEAR_FRAMES)
    /\ UNCHANGED <<cameraVars, cam_ok, want_snap, teleVars, ledVars, snapVars, linkVars>>

(* ... occupancy_update: both runs of verdicts, then the flip, if any.     *)
occupancy_update(above) ==
    /\ Goto("infer", "led")
    /\ consec_above' = IF above THEN Counted(consec_above) ELSE 0
    /\ consec_below' = IF above THEN 0 ELSE Counted(consec_below)
    /\ occupied' = IF occupied THEN consec_below' < OCC_CLEAR_FRAMES
                               ELSE consec_above' >= OCC_ENTER_FRAMES
    /\ flipped' = (occupied' # occupied)
    /\ recent' = LastOf(Append(recent, above), OCC_CLEAR_FRAMES)
    /\ UNCHANGED <<cameraVars, cam_ok, want_snap, teleVars, ledVars, snapVars, linkVars>>

(* Altered: the LED follows the occupancy in every mode. *)
AlteredLedMode ==
    /\ Goto("led", "led_apply")
    /\ UNCHANGED <<cameraVars, cam_ok, want_snap, teleVars, occVars, ledVars, snapVars,
                   linkVars>>

(* It reads led_mode ...                                                   *)
LedMode ==
    /\ Goto("led", IF led_mode = "auto" THEN "led_apply" ELSE "tag")
    /\ UNCHANGED <<cameraVars, cam_ok, want_snap, teleVars, occVars, ledVars, snapVars,
                   linkVars>>

(* ... and sets the LED, whatever the mode is by then.                     *)
led_apply ==
    /\ Goto("led_apply", "tag")
    /\ led_state' = occupied
    /\ UNCHANGED <<cameraVars, cam_ok, want_snap, teleVars, occVars, led_mode, ledcmd,
                   raced, snapVars, linkVars>>

(* The captured frame and its verdict go to the worker: the tag is         *)
(* written, the request cleared, the worker told, one after the other.     *)
Tag ==
    /\ Goto("tag", IF want_snap THEN "clear_want" ELSE "publish")
    /\ UNCHANGED <<cameraVars, cam_ok, want_snap, teleVars, occVars, ledVars, snapVars,
                   linkVars>>

ClearWant ==
    /\ Goto("clear_want", "give")
    /\ snap_want' = FALSE
    /\ UNCHANGED <<cameraVars, cam_ok, want_snap, teleVars, occVars, ledVars, snap_busy,
                   snap_go, uploading, asking, linkVars>>

Give ==
    /\ Goto("give", "publish")
    /\ snap_busy' = TRUE /\ snap_go' = 1
    /\ UNCHANGED <<cameraVars, cam_ok, want_snap, teleVars, occVars, ledVars, snap_want,
                   uploading, asking, linkVars>>

(* publish_vision: the message goes out in a live session, or it cannot be *)
(* made, or its send fails; the result is not looked at.                   *)
publish_vision ==
    \/ session /\ published' = occupied /\ unsent' = FALSE
    \/ unsent' = TRUE /\ UNCHANGED published

(* On a flip, on the first pass of a session, or when the interval is over *)
(* (which is any time).                                                    *)
Publish ==
    /\ Goto("publish", "sleep")
    /\ \/ publish_vision /\ due' = FALSE
       \/ ~flipped /\ ~due /\ UNCHANGED teleVars
    /\ UNCHANGED <<cameraVars, cam_ok, want_snap, occVars, ledVars, snapVars, linkVars>>

Sleep ==
    /\ Goto("sleep", "step")
    /\ UNCHANGED <<cameraVars, cam_ok, want_snap, teleVars, occVars, ledVars, snapVars,
                   linkVars>>

----------------------------------------------------------------------------
(* snapshot_request, from a command or from the shell: a check (the        *)
(* refusals change nothing) ...                                            *)

Ask(c) ==
    /\ c \notin asking
    /\ c = "mqtt" => session /\ ledcmd = None
    /\ cam_ok /\ fu_available
    /\ ~snap_want /\ ~snap_busy
    /\ asking' = asking \cup {c}
    /\ UNCHANGED <<cameraVars, pc, cam_ok, want_snap, teleVars, occVars, ledVars,
                   snap_want, snap_busy, snap_go, uploading, linkVars>>

(* ... and then the request, "snapshot uploading".                         *)
snapshot_request(c) ==
    /\ c \in asking
    /\ asking' = asking \ {c}
    /\ snap_want' = TRUE
    /\ UNCHANGED <<cameraVars, pc, cam_ok, want_snap, teleVars, occVars, ledVars,
                   snap_busy, snap_go, uploading, linkVars>>

(* snapshot_worker: encode and upload, or fail to. *)
Upload ==
    /\ snap_go = 1 /\ ~uploading
    /\ snap_go' = 0 /\ uploading' = TRUE
    /\ UNCHANGED <<cameraVars, pc, cam_ok, want_snap, teleVars, occVars, ledVars,
                   snap_want, snap_busy, asking, linkVars>>

Uploaded ==
    /\ uploading
    /\ uploading' = FALSE /\ snap_busy' = FALSE
    /\ UNCHANGED <<cameraVars, pc, cam_ok, want_snap, teleVars, occVars, ledVars,
                   snap_want, snap_go, asking, linkVars>>

(* Altered: led-auto is applied like the other two. *)
AlteredLedCommand(m) ==
    /\ session /\ "mqtt" \notin asking /\ ledcmd = None
    /\ led_mode' = m /\ raced' = FALSE
    /\ ledcmd' = m
    /\ UNCHANGED <<cameraVars, pc, cam_ok, want_snap, teleVars, occVars, led_state,
                   snapVars, linkVars>>

(* led-on and led-off set the mode and then the LED; led-auto the mode.    *)
LedCommand(m) ==
    /\ session /\ "mqtt" \notin asking /\ ledcmd = None
    /\ led_mode' = m /\ raced' = FALSE
    /\ ledcmd' = IF m = "auto" THEN None ELSE m
    /\ UNCHANGED <<cameraVars, pc, cam_ok, want_snap, teleVars, occVars, led_state,
                   snapVars, linkVars>>

LedCommanded ==
    /\ ledcmd # None
    /\ led_state' = (ledcmd = "on") /\ ledcmd' = None
    /\ raced' = (pc = "led_apply")
    /\ UNCHANGED <<cameraVars, pc, cam_ok, want_snap, teleVars, occVars, led_mode,
                   snapVars, linkVars>>

Main ==
    \/ Boot \/ SelfTestPasses \/ SelfTestFails
    \/ Connect \/ Disconnected
    \/ Step \/ Capture
    \/ InferFails \/ \E above \in BOOLEAN : occupancy_update(above)
    \/ LedMode \/ led_apply \/ Tag \/ ClearWant \/ Give \/ Publish \/ Sleep

Next ==
    \/ Main \/ Drain \/ SessionLost
    \/ \E c \in Callers : Ask(c) \/ snapshot_request(c)
    \/ Upload \/ Uploaded
    \/ \E m \in Modes : LedCommand(m)
    \/ LedCommanded

Spec == Init /\ [][Next]_vars

(* Every thread runs, the camera delivers, and sessions are opened that    *)
(* last into the loop.                                                     *)
FairSpec ==
    /\ Spec
    /\ WF_vars(Main) /\ SF_vars(Step) /\ WF_vars(Drain)
    /\ WF_vars(Upload) /\ WF_vars(Uploaded)

----------------------------------------------------------------------------
(* Properties. *)

LastAll(n, v) ==
    Len(recent) >= n /\ \A k \in Len(recent) - n + 1 .. Len(recent) : recent[k] = v

(* The occupancy state is the hysteresis "in consecutive frames" (main.c   *)
(* 408-410) of the verdicts, recomputed from the verdicts themselves: it   *)
(* cannot be clear after OCC_ENTER_FRAMES above in a row nor occupied      *)
(* after OCC_CLEAR_FRAMES below, and it flips only on such a run.          *)
Hysteresis ==
    [][/\ LastAll(OCC_ENTER_FRAMES, TRUE)' => occupied'
       /\ LastAll(OCC_CLEAR_FRAMES, FALSE)' => ~occupied'
       /\ occupied' /\ ~occupied => LastAll(OCC_ENTER_FRAMES, TRUE)'
       /\ ~occupied' /\ occupied => LastAll(OCC_CLEAR_FRAMES, FALSE)']_vars

(* "Worker owns snap_frame/png_buf" (main.c 883): from the moment it is    *)
(* told of a frame until it is done, no pass of the loop takes another     *)
(* picture for it, whoever asks for one and whenever.                      *)
FrameOwned ==
    uploading \/ snap_go = 1 =>
        /\ snap_busy
        /\ ~(want_snap /\ pc \notin {"step", "publish", "sleep", "connect"})

(* "Snapshot uploading": a request that was accepted is followed by an     *)
(* upload, over sessions lost and frames that cannot be scored.            *)
SnapshotServed == snap_want ~> uploading

(* "publish immediately" (main.c 937-938, 1095): in a live session, when   *)
(* the loop goes to sleep the platform has been sent the present occupancy *)
(* in that session, whatever was lost with the ones before, unless the     *)
(* last message could not be made or sent.                                 *)
FlipPublished == pc = "sleep" /\ session /\ ~unsent => published = occupied

(* "LED forced on", "LED forced off": between LED commands a forced LED is *)
(* as acknowledged, unless the command fell into the one window in which   *)
(* main() has read led_mode and not yet set the LED.                       *)
LedObeys ==
    ledcmd = None /\ led_mode # "auto" /\ ~raced => led_state = (led_mode = "on")
=============================================================================
