----------------------------- MODULE FaceDetect -----------------------------
(***************************************************************************)
(* vendor/nxp/face-detect as it is built for the FRDM-MCXN947: main()      *)
(* takes the camera's slices of a frame, draws the rectangles of the last  *)
(* inference on them and wakes the inference thread; a third thread        *)
(* (cloud.c) reports the number of faces.  The two FIFOs between them take *)
(* their nodes from the system heap, and k_fifo_alloc_put's result is      *)
(* ignored; "the whole IOTCONNECT stack" (prj.conf) uses the same heap.    *)
(*                                                                         *)
(* main() has priority 0, the others 2 on the one core, the SDK that       *)
(* iotc_thread calls included, so what main() does between two waits is    *)
(* one step for them.  An inference result is its time stamp and its       *)
(* number of faces.                                                        *)
(***************************************************************************)
EXTENDS Integers

CONSTANTS
    slices_per_frame,
    NODES,         \* FIFO nodes the system heap has room for
    SdkNodes,      \* as many as iotconnect_sdk_init's memory would make
    Stamps,        \* values of retsTimeStamp
    Zeroed,        \* that of g_InfResults before the first inference
    MaxFaces,      \* rectangles of one inference; the code sets no limit
    None

Counts == 0 .. MaxFaces
Results == [retsTimeStamp : Stamps, odRetCnt : Counts]

(* What an uninitialised result may hold; -1 stands for any negative count. *)
Locals == [retsTimeStamp : Stamps, odRetCnt : -1 .. MaxFaces]
Slices == 0 .. slices_per_frame - 1

ASSUME FaceDetectAssumption ==
    /\ slices_per_frame \in Nat /\ slices_per_frame > 1
    /\ NODES \in Nat \ {0} /\ SdkNodes \in Nat /\ MaxFaces \in Nat \ {0}
    /\ Zeroed \in Stamps /\ None \notin Stamps /\ None \notin Counts

VARIABLES
    mpc, slice,            \* main(); the slice the camera delivers next
    infResults, res_copy,  \* main()'s locals; of the second only the count matters
    inf_frame_count, inference_enabled,
    display,               \* for each slice shown, whose rectangles are on it
    ipc, g_InfResults,     \* the inference thread; what it found last
    inf_fifo, iotc_fifo,   \* entries of the two FIFOs
    sdk_heap,              \* what the IOTCONNECT stack holds, in nodes
    rpc,                   \* iotc_thread; "halted" when it has taken the system down
    pending_faces, have_pending,
    (* History. *)
    stitched,              \* slices that were copied into the model's input
    unqueued               \* the last result to report found no node, and no other waits

mainVars == <<mpc, slice, infResults, inf_frame_count, inference_enabled, display, stitched>>
fifoVars == <<inf_fifo, iotc_fifo, res_copy, unqueued>>
inferenceVars == <<ipc, g_InfResults>>
reportVars == <<rpc, pending_faces, have_pending>>
vars == <<mainVars, fifoVars, sdk_heap, inferenceVars, reportVars>>

TypeOK ==
    /\ mpc \in {"boot", "video", "send", "exited"} /\ slice \in Slices
    /\ infResults \in Locals /\ res_copy \in Counts
    /\ inf_frame_count \in 0 .. slices_per_frame /\ inference_enabled \in BOOLEAN
    /\ display \in [Slices -> Stamps \cup {None}] /\ stitched \subseteq Slices
    /\ ipc \in {"off", "init", "wait", "infer", "hung"} /\ g_InfResults \in Results
    /\ inf_fifo \in Nat /\ iotc_fifo \in Nat /\ sdk_heap \in Nat
    /\ inf_fifo + iotc_fifo + sdk_heap <= NODES
    /\ rpc \in {"setup", "init", "offline", "online", "report", "halted"}
    /\ pending_faces \in Counts /\ have_pending \in BOOLEAN /\ unqueued \in BOOLEAN

(* main() does not initialise its two locals. *)
Init ==
    /\ mpc = "boot" /\ slice \in Slices
    /\ infResults \in Locals /\ res_copy \in Counts
    /\ inf_frame_count = 0 /\ inference_enabled = FALSE
    /\ display = [s \in Slices |-> None] /\ stitched = {}
    /\ ipc = "off" /\ g_InfResults = [retsTimeStamp |-> Zeroed, odRetCnt |-> 0]
    /\ inf_fifo = 0 /\ iotc_fifo = 0 /\ sdk_heap = 0
    /\ rpc = "setup" /\ pending_faces = 0 /\ have_pending = FALSE /\ unqueued = FALSE

----------------------------------------------------------------------------
(* main(). *)

(* The display, the camera and its buffers, or main() returns. *)
Start ==
    /\ mpc = "boot" /\ mpc' \in {"video", "exited"}
    /\ UNCHANGED <<slice, infResults, inf_frame_count, inference_enabled, display, stitched,
                   fifoVars, sdk_heap, inferenceVars, reportVars>>

(* Altered: new rectangles follow the old ones at once. *)
Altered_sync_slice_rectangles == g_InfResults

(* sync_slice_rectangles: the rectangles of the frame that begins.  Old    *)
(* ones are taken off for one frame before new ones are drawn.             *)
sync_slice_rectangles ==
    IF infResults.odRetCnt = 0 THEN g_InfResults
    ELSE IF infResults.retsTimeStamp # g_InfResults.retsTimeStamp
    THEN [infResults EXCEPT !.odRetCnt = 0]
    ELSE infResults

(* A slice: for the first of a frame the rectangles are chosen; it goes    *)
(* into the model's input and, with the rectangles, onto the display.      *)
ShowSlice ==
    /\ mpc = "video" /\ mpc' = "send"
    /\ infResults' = IF slice = 0 THEN sync_slice_rectangles ELSE infResults
    /\ stitched' = stitched \cup {slice}
    /\ display' = [display EXCEPT ![slice] =
                       IF infResults'.odRetCnt > 0 THEN infResults'.retsTimeStamp ELSE None]
    /\ slice' = IF slice + 1 = slices_per_frame THEN 0 ELSE slice + 1
    /\ UNCHANGED <<inf_frame_count, inference_enabled, fifoVars, sdk_heap, inferenceVars,
                   reportVars>>

VideoFails ==
    /\ mpc \in {"video", "send"} /\ mpc' = "exited"
    /\ UNCHANGED <<slice, infResults, inf_frame_count, inference_enabled, display, stitched,
                   fifoVars, sdk_heap, inferenceVars, reportVars>>

Free == NODES - (inf_fifo + iotc_fifo + sdk_heap)

(* Altered: the result goes first. *)
AlteredHandOver ==
    /\ mpc = "send" /\ inference_enabled /\ mpc' = "video"
    /\ IF infResults.odRetCnt > 0
       THEN /\ res_copy' = infResults.odRetCnt
            /\ iotc_fifo' = IF Free > 0 THEN iotc_fifo + 1 ELSE iotc_fifo
            /\ unqueued' = (iotc_fifo' = 0)
       ELSE UNCHANGED <<res_copy, iotc_fifo, unqueued>>
    /\ inf_fifo' = IF inf_fifo + iotc_fifo' + sdk_heap < NODES THEN inf_fifo + 1 ELSE inf_fifo
    /\ UNCHANGED <<slice, infResults, inf_frame_count, inference_enabled, display, stitched,
                   sdk_heap, inferenceVars, reportVars>>

(* The inference thread is woken, and with faces on the display their      *)
(* result goes to the report thread: each entry is the one res_copy.       *)
HandOver ==
    /\ mpc = "send" /\ inference_enabled /\ mpc' = "video"
    /\ inf_fifo' = IF Free > 0 THEN inf_fifo + 1 ELSE inf_fifo
    /\ IF infResults.odRetCnt > 0
       THEN /\ res_copy' = infResults.odRetCnt
            /\ iotc_fifo' = IF inf_fifo' + iotc_fifo + sdk_heap < NODES THEN iotc_fifo + 1
                            ELSE iotc_fifo
            /\ unqueued' = (iotc_fifo' = 0)
       ELSE UNCHANGED <<res_copy, iotc_fifo, unqueued>>
    /\ UNCHANGED <<slice, infResults, inf_frame_count, inference_enabled, display, stitched,
                   sdk_heap, inferenceVars, reportVars>>

(* Altered: it is started one slice later. *)
AlteredFirstFrameLate ==
    /\ mpc = "send" /\ ~inference_enabled /\ mpc' = "video"
    /\ IF inf_frame_count > slices_per_frame
       THEN /\ inf_fifo' = IF Free > 0 THEN inf_fifo + 1 ELSE inf_fifo
            /\ ipc' = "init" /\ inference_enabled' = TRUE
            /\ UNCHANGED inf_frame_count
       ELSE /\ inf_frame_count' = inf_frame_count + 1
            /\ UNCHANGED <<inf_fifo, ipc, inference_enabled>>
    /\ UNCHANGED <<slice, infResults, display, stitched, iotc_fifo, res_copy, unqueued,
                   sdk_heap, g_InfResults, reportVars>>

(* The inference thread is started with the slice after the first frame.   *)
FirstFrame ==
    /\ mpc = "send" /\ ~inference_enabled /\ mpc' = "video"
    /\ IF inf_frame_count >= slices_per_frame
       THEN /\ inf_fifo' = IF Free > 0 THEN inf_fifo + 1 ELSE inf_fifo
            /\ ipc' = "init" /\ inference_enabled' = TRUE
            /\ UNCHANGED inf_frame_count
       ELSE /\ inf_frame_count' = inf_frame_count + 1
            /\ UNCHANGED <<inf_fifo, ipc, inference_enabled>>
    /\ UNCHANGED <<slice, infResults, display, stitched, iotc_fifo, res_copy, unqueued,
                   sdk_heap, g_InfResults, reportVars>>

----------------------------------------------------------------------------
(* inference_thread. *)

(* init_face_det, which stays in a loop for ever if the model is no good.  *)
init_face_det ==
    /\ ipc = "init" /\ ipc' \in {"wait", "hung"}
    /\ UNCHANGED <<mainVars, fifoVars, sdk_heap, g_InfResults, reportVars>>

(* It takes whatever is there: far less time than a slice of the camera.   *)
Wake ==
    /\ ipc = "wait" /\ inf_fifo > 0
    /\ ipc' = "infer" /\ inf_fifo' = 0
    /\ UNCHANGED <<mainVars, iotc_fifo, res_copy, unqueued, sdk_heap, g_InfResults,
                   reportVars>>

(* The thread's execution time, its stamp, has not been seen before. *)
InUse == {g_InfResults.retsTimeStamp, infResults.retsTimeStamp}
             \cup {display[s] : s \in Slices}

face_det ==
    /\ ipc = "infer" /\ ipc' = "wait"
    /\ g_InfResults' \in {r \in Results : r.retsTimeStamp \notin InUse}
    /\ UNCHANGED <<mainVars, fifoVars, sdk_heap, reportVars>>

----------------------------------------------------------------------------
(* iotc_thread. *)

(* Without an identity it asks for one for ever.  If the network does not  *)
(* come up it returns, and the kernel takes the return of an essential     *)
(* thread (K_ESSENTIAL) for a fatal error.                                 *)
Setup ==
    /\ rpc = "setup" /\ rpc' \in {"init", "halted"}
    /\ UNCHANGED <<mainVars, fifoVars, sdk_heap, inferenceVars, pending_faces, have_pending>>

(* iotconnect_sdk_init, which is tried for ever, needs its memory free or  *)
(* already its own.                                                        *)
SdkInit ==
    /\ rpc = "init" /\ rpc' = "offline"
    /\ Free + sdk_heap >= SdkNodes
    /\ UNCHANGED <<mainVars, fifoVars, sdk_heap, inferenceVars, pending_faces, have_pending>>

(* The IOTCONNECT stack takes memory and gives it back, now and then, and  *)
(* may keep it.                                                            *)
SdkMemory ==
    /\ sdk_heap' \in 0 .. Free + sdk_heap
    /\ UNCHANGED <<mainVars, fifoVars, inferenceVars, reportVars>>

Connect ==
    /\ rpc = "offline" /\ rpc' = "online"
    /\ have_pending' = FALSE /\ pending_faces' = 0
    /\ UNCHANGED <<mainVars, fifoVars, sdk_heap, inferenceVars>>

Disconnect ==
    /\ rpc = "online" /\ rpc' = "offline"
    /\ UNCHANGED <<mainVars, fifoVars, sdk_heap, inferenceVars, pending_faces, have_pending>>

(* Altered: the first count of a window is kept, not the latest. *)
AlteredTakeResult ==
    /\ rpc = "online" /\ rpc' = "report"
    /\ iotc_fifo > 0 /\ iotc_fifo' = iotc_fifo - 1
    /\ pending_faces' = IF have_pending THEN pending_faces ELSE res_copy
    /\ have_pending' = TRUE /\ unqueued' = FALSE
    /\ UNCHANGED <<mainVars, inf_fifo, res_copy, sdk_heap, inferenceVars>>

(* An entry is taken, and the count read through it ... *)
TakeResult ==
    /\ rpc = "online" /\ rpc' = "report"
    /\ iotc_fifo > 0 /\ iotc_fifo' = iotc_fifo - 1
    /\ pending_faces' = res_copy /\ have_pending' = TRUE
    /\ unqueued' = FALSE
    /\ UNCHANGED <<mainVars, inf_fifo, res_copy, sdk_heap, inferenceVars>>

(* ... or none comes within a second. *)
NoResult ==
    /\ rpc = "online" /\ rpc' = "report" /\ iotc_fifo = 0
    /\ UNCHANGED <<mainVars, fifoVars, sdk_heap, inferenceVars, pending_faces, have_pending>>

(* The count is published if one is pending and the period is over.  (The  *)
(* heartbeat changes nothing here.)                                        *)
publish_faces ==
    /\ rpc = "report" /\ rpc' = "online"
    /\ \/ UNCHANGED <<pending_faces, have_pending>>
       \/ have_pending /\ have_pending' = FALSE /\ pending_faces' = 0
    /\ UNCHANGED <<mainVars, fifoVars, sdk_heap, inferenceVars>>

Running == rpc # "halted"

Main == Running /\ (Start \/ ShowSlice \/ VideoFails \/ HandOver \/ FirstFrame)

Inference == Running /\ (init_face_det \/ Wake \/ face_det)

Report ==
    \/ Setup \/ SdkInit \/ Connect \/ Disconnect
    \/ TakeResult \/ NoResult \/ publish_faces

Next == Main \/ Inference \/ Report \/ (Running /\ SdkMemory)

Spec == Init /\ [][Next]_vars

(* The camera delivers, and both threads of the preview run.  Nothing is   *)
(* assumed of iotc_thread: the device may never be given an identity.      *)
FairSpec == Spec /\ WF_vars(Main) /\ WF_vars(Inference)

(* The same, and iotconnect_sdk_init, tried every 30 s, succeeds if time    *)
(* and again its memory is there.                                          *)
RetrySpec == FairSpec /\ SF_vars(SdkInit)

----------------------------------------------------------------------------
(* Properties. *)

(* "Synced at the start of each full video frame, to keep rectangles       *)
(* consistent" (main.c 272) and "older slices on display are showing last  *)
(* rectangle" (face_det.cpp 346): the display, whose slices are replaced   *)
(* one at a time, never shows rectangles of two inferences.                *)
OneResultOnDisplay ==
    \A r, s \in Slices :
        display[r] # None /\ display[s] # None => display[r] = display[s]

(* "Wait for first full frame before starting inference thread" (main.c    *)
(* 338): no inference sees a part of the input that was never filled,      *)
(* whichever slice the camera began with.                                  *)
InputComplete == ipc \notin {"off", "hung"} => stitched = Slices

(* "Keep the latest count within the window" (cloud.c 199): when nothing   *)
(* waits to be read, the pending count is that of the result the video     *)
(* loop handed over last, unless that one found no node.                   *)
LatestPending ==
    have_pending /\ iotc_fifo = 0 /\ ~unqueued => pending_faces = res_copy

(* "Wake inf_thread if it is waiting for buffer" (main.c 328): however     *)
(* many results are left unread, they never take the last node; a wake-up  *)
(* that is refused is refused for memory the IOTCONNECT stack holds.       *)
RoomToWake == ipc = "wait" /\ inf_fifo = 0 /\ Free = 0 => sdk_heap > 0

(* "The LCD shows the live preview with overlay boxes", and only the       *)
(* telemetry "with connectivity up" (README.md 88-89): inference goes on   *)
(* for ever, with a report thread that reads or one that never does, until *)
(* main() or the system stops - unless from some time on the IOTCONNECT    *)
(* stack holds memory whenever the inference thread is to be woken.        *)
PreviewGoesOn ==
    \/ ipc = "wait" ~> ipc = "infer" \/ mpc = "exited" \/ ~Running
    \/ /\ []<><<HandOver>>_vars
       /\ <>[][HandOver => sdk_heap > 0]_vars

(* "Retry forever: ... Never exit the thread on failure" (cloud.c 165-167): *)
(* while the preview runs the SDK comes up in the end, if nothing but      *)
(* memory keeps it from that.                                              *)
InitSucceeds == rpc = "init" ~> rpc # "init" \/ mpc = "exited" \/ ipc = "hung"
=============================================================================
