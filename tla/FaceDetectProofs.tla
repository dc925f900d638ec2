-------------------------- MODULE FaceDetectProofs --------------------------
(* Theorems about FaceDetect, for every number of slices, size of the heap *)
(* and set of results.                                                     *)
EXTENDS FaceDetect, TLAPS

(***************************************************************************)
(* The display.  OneResultOnDisplay is not inductive: new rectangles may   *)
(* be drawn only after a whole frame without any, so it takes what the     *)
(* frame in progress has already replaced.                                 *)
(***************************************************************************)

(* The rectangles main() draws at present. *)
Current == IF infResults.odRetCnt > 0 THEN infResults.retsTimeStamp ELSE None

DisplayInv ==
    /\ slice \in Slices
    /\ infResults \in Locals /\ g_InfResults \in Results
    /\ display \in [Slices -> Stamps \cup {None}]
    /\ OneResultOnDisplay
    /\ Current # None => \A s \in Slices : display[s] \in {None, Current}
    /\ Current = None => \A s \in Slices : s < slice \/ slice = 0 => display[s] = None

(* The choice made at the first slice of a frame keeps the rectangles or   *)
(* draws none, unless the frame before had none.                           *)
LEMMA SyncCases ==
    ASSUME infResults \in Locals, g_InfResults \in Results
    PROVE  /\ sync_slice_rectangles \in Locals
           /\ \/ sync_slice_rectangles.odRetCnt = 0
              \/ sync_slice_rectangles = infResults
              \/ infResults.odRetCnt = 0 /\ sync_slice_rectangles = g_InfResults
<1>1. [infResults EXCEPT !.odRetCnt = 0] \in Locals
      /\ [infResults EXCEPT !.odRetCnt = 0].odRetCnt = 0
  BY FaceDetectAssumption DEF Locals
<1>2. Results \subseteq Locals
  BY FaceDetectAssumption DEF Results, Locals, Counts
<1> QED
  BY <1>1, <1>2 DEF sync_slice_rectangles

(* A slice keeps the display consistent.                                   *)
LEMMA SliceKeepsDisplay == DisplayInv /\ ShowSlice => DisplayInv'
<1> SUFFICES ASSUME DisplayInv, ShowSlice PROVE DisplayInv'
  OBVIOUS
<1> DEFINE n == slices_per_frame
<1>1. /\ n \in Nat /\ n > 1 /\ None \notin Stamps /\ MaxFaces \in Nat
      /\ slice \in Slices /\ Slices = 0 .. n - 1
  BY FaceDetectAssumption DEF DisplayInv, Slices
<1>2. slice' = (IF slice + 1 = n THEN 0 ELSE slice + 1) /\ slice' \in Slices
  BY <1>1 DEF ShowSlice
<1>3. infResults' \in Locals /\ g_InfResults' = g_InfResults
  BY SyncCases DEF DisplayInv, ShowSlice, inferenceVars
<1>4. Current' \in Stamps \cup {None} /\ (Current' = None <=> ~(infResults'.odRetCnt > 0))
  BY <1>1, <1>3 DEF Current, Locals
<1>5. display' = [display EXCEPT ![slice] = Current']
  BY DEF ShowSlice, Current
<1>6. /\ display' \in [Slices -> Stamps \cup {None}]
      /\ display'[slice] = Current'
      /\ \A s \in Slices : s # slice => display'[s] = display[s]
  BY <1>1, <1>4, <1>5 DEF DisplayInv
<1>7. Current' = None \/ Current' = Current
      \/ (slice = 0 /\ Current = None)
  <2>1. CASE slice # 0
    BY <2>1 DEF ShowSlice, Current
  <2>2. CASE slice = 0
    <3>1. infResults' = sync_slice_rectangles
      BY <2>2 DEF ShowSlice
    <3>2. CASE infResults' = infResults
      BY <3>2 DEF Current
    <3>3. CASE infResults'.odRetCnt = 0
      BY <3>3, <1>1, <1>4
    <3>4. CASE infResults.odRetCnt = 0
      BY <3>4, <2>2 DEF Current
    <3> QED
      BY <3>1, <3>2, <3>3, <3>4, SyncCases DEF DisplayInv
  <2> QED
    BY <2>1, <2>2
<1>8. CASE Current' # None
  <2>1. \A s \in Slices : display[s] \in {None, Current'}
    <3>1. CASE Current' = Current
      BY <3>1, <1>8 DEF DisplayInv
    <3>2. CASE slice = 0 /\ Current = None
      BY <3>2 DEF DisplayInv
    <3> QED
      BY <1>7, <1>8, <3>1, <3>2
  <2>2. \A s \in Slices : display'[s] \in {None, Current'}
    BY <2>1, <1>6
  <2> QED
    BY <2>2, <1>2, <1>3, <1>6, <1>8 DEF DisplayInv, OneResultOnDisplay
<1>9. CASE Current' = None
  <2>1. OneResultOnDisplay'
    BY <1>6, <1>9 DEF DisplayInv, OneResultOnDisplay
  <2>2. ASSUME NEW s \in Slices, s < slice' \/ slice' = 0, s # slice
        PROVE  display[s] = None
    <3>1. s < slice
      BY <2>2, <1>1, <1>2
    <3>2. slice # 0 => Current' = Current
      BY DEF ShowSlice, Current
    <3> QED
      BY <3>1, <3>2, <1>1, <1>9 DEF DisplayInv
  <2>3. \A s \in Slices : s < slice' \/ slice' = 0 => display'[s] = None
    BY <2>2, <1>6, <1>9
  <2> QED
    BY <2>1, <2>3, <1>2, <1>3, <1>6, <1>9 DEF DisplayInv
<1> QED
  BY <1>8, <1>9

(* Every step does; a new inference changes nothing that is shown.         *)
LEMMA DisplayStep == DisplayInv /\ [Next]_vars => DisplayInv'
<1> SUFFICES ASSUME DisplayInv, [Next]_vars PROVE DisplayInv'
  OBVIOUS
<1>1. ASSUME UNCHANGED <<slice, infResults, display>>, g_InfResults' \in Results
      PROVE  DisplayInv'
  BY <1>1 DEF DisplayInv, OneResultOnDisplay, Current
<1>2. g_InfResults \in Results
  BY DEF DisplayInv
<1>3. CASE ShowSlice
  BY <1>3, SliceKeepsDisplay
<1>4. CASE Start \/ VideoFails \/ HandOver \/ FirstFrame
  BY <1>4, <1>1, <1>2 DEF Start, VideoFails, HandOver, FirstFrame, inferenceVars
<1>5. CASE Inference
  BY <1>5, <1>1, <1>2 DEF Inference, init_face_det, Wake, face_det, mainVars
<1>6. CASE Report
  BY <1>6, <1>1, <1>2 DEF Report, Setup, SdkInit, Connect, Disconnect, TakeResult,
                          NoResult, publish_faces, mainVars, inferenceVars
<1>7. CASE SdkMemory \/ UNCHANGED vars
  BY <1>7, <1>1, <1>2 DEF SdkMemory, vars, mainVars, inferenceVars
<1> QED
  BY <1>3, <1>4, <1>5, <1>6, <1>7 DEF Next, Main

(* At first the display shows nothing.                                     *)
LEMMA InitDisplay == Init => DisplayInv
<1> SUFFICES ASSUME Init PROVE DisplayInv
  OBVIOUS
<1>1. g_InfResults \in Results
  BY FaceDetectAssumption DEF Init, Results, Counts
<1> QED
  BY <1>1 DEF Init, DisplayInv, OneResultOnDisplay

(* The display, whose slices are replaced one at a time, never shows the   *)
(* rectangles of two inferences, at whatever slice the camera begins and   *)
(* whatever main()'s local results hold at first (sync_slice_rectangles).  *)
THEOREM DisplayShowsOneResult == Spec => []OneResultOnDisplay
BY InitDisplay, DisplayStep, PTL DEF Spec, DisplayInv

(***************************************************************************)
(* The first frame.  The slices counted are the last ones that were shown. *)
(***************************************************************************)

(* The slice that came j before the next one. *)
Back(j) == IF j <= slice THEN slice - j ELSE slice - j + slices_per_frame

Counted == inf_frame_count + (IF mpc = "send" THEN 1 ELSE 0)

FrameInv ==
    /\ slice \in Slices
    /\ stitched \subseteq Slices
    /\ inf_frame_count \in Nat /\ inf_frame_count <= slices_per_frame
    /\ inference_enabled \in BOOLEAN
    /\ ipc # "off" => inference_enabled
    /\ inference_enabled => stitched = Slices
    /\ ~inference_enabled =>
           \A j \in 1 .. slices_per_frame : j <= Counted => Back(j) \in stitched

(* Every slice is one of the last slices_per_frame.                        *)
LEMMA BackReachesAll ==
    ASSUME slice \in Slices, NEW s \in Slices
    PROVE  \E j \in 1 .. slices_per_frame : Back(j) = s
<1> DEFINE j == IF s < slice THEN slice - s ELSE slice - s + slices_per_frame
<1>1. j \in 1 .. slices_per_frame /\ Back(j) = s
  BY FaceDetectAssumption DEF Slices, Back
<1> QED
  BY <1>1

(* A slice is counted from the next one on.                                *)
LEMMA SliceKeepsFrame == FrameInv /\ ShowSlice => FrameInv'
<1> SUFFICES ASSUME FrameInv, ShowSlice PROVE FrameInv'
  OBVIOUS
<1> DEFINE n == slices_per_frame
<1>1. /\ n \in Nat /\ n > 1 /\ slice \in 0 .. n - 1 /\ Slices = 0 .. n - 1
      /\ slice' = (IF slice + 1 = n THEN 0 ELSE slice + 1) /\ slice' \in Slices
      /\ stitched' = stitched \cup {slice}
  BY FaceDetectAssumption DEF FrameInv, Slices, ShowSlice
<1>2. /\ UNCHANGED <<inf_frame_count, inference_enabled, ipc>>
      /\ mpc = "video" /\ mpc' = "send"
  BY DEF ShowSlice, inferenceVars
<1>3. stitched' \subseteq Slices /\ (inference_enabled' => stitched' = Slices)
  BY <1>1, <1>2 DEF FrameInv
<1>4. ASSUME ~inference_enabled, NEW j \in 1 .. n, j <= Counted'
      PROVE  Back(j)' \in stitched'
  <2>1. CASE j = 1
    BY <2>1, <1>1 DEF Back
  <2>2. CASE j # 1
    <3>1. j - 1 \in 1 .. n /\ j - 1 <= Counted
      BY <2>2, <1>1, <1>2, <1>4 DEF Counted, FrameInv
    <3>2. Back(j)' = Back(j - 1)
      BY <2>2, <1>1 DEF Back
    <3> QED
      BY <3>1, <3>2, <1>1, <1>4 DEF FrameInv
  <2> QED
    BY <2>1, <2>2
<1> QED
  BY <1>1, <1>2, <1>3, <1>4 DEF FrameInv

(* The thread is started only when a whole frame has been counted.         *)
LEMMA FirstFrameKeepsFrame == FrameInv /\ FirstFrame => FrameInv'
<1> SUFFICES ASSUME FrameInv, FirstFrame PROVE FrameInv'
  OBVIOUS
<1>1. /\ slices_per_frame \in Nat
      /\ UNCHANGED <<slice, stitched>>
      /\ mpc = "send" /\ mpc' = "video" /\ ~inference_enabled
  BY FaceDetectAssumption DEF FirstFrame
<1>2. CASE inf_frame_count >= slices_per_frame
  <2>1. \A j \in 1 .. slices_per_frame : Back(j) \in stitched
    BY <1>1, <1>2 DEF FrameInv, Counted
  <2>2. stitched = Slices
    BY <2>1, BackReachesAll DEF FrameInv
  <2> QED
    BY <2>2, <1>1, <1>2 DEF FrameInv, FirstFrame
<1>3. CASE ~(inf_frame_count >= slices_per_frame)
  <2>1. inf_frame_count' = inf_frame_count + 1 /\ UNCHANGED <<ipc, inference_enabled>>
    BY <1>3 DEF FirstFrame
  <2>2. Counted' = Counted
    BY <2>1, <1>1 DEF FrameInv, Counted
  <2>3. \A j : Back(j)' = Back(j)
    BY <1>1 DEF Back
  <2> QED
    BY <2>1, <2>2, <2>3, <1>1, <1>3 DEF FrameInv
<1> QED
  BY <1>2, <1>3

(* Every step keeps the count true.                                        *)
LEMMA FrameStep == FrameInv /\ [Next]_vars => FrameInv'
<1> SUFFICES ASSUME FrameInv, [Next]_vars PROVE FrameInv'
  OBVIOUS
<1>1. ASSUME UNCHANGED <<slice, stitched, inf_frame_count, inference_enabled>>,
             mpc' = "send" => mpc = "send", ipc' # "off" => ipc # "off"
      PROVE  FrameInv'
  <2>1. Counted' <= Counted
    BY <1>1 DEF FrameInv, Counted
  <2>2. Counted \in Nat /\ Counted' \in Nat
    BY <1>1 DEF FrameInv, Counted
  <2>3. \A j : Back(j)' = Back(j)
    BY <1>1 DEF Back
  <2>4. slices_per_frame \in Nat
    BY FaceDetectAssumption
  <2> QED
    BY <2>1, <2>2, <2>3, <2>4, <1>1 DEF FrameInv
<1>2. CASE ShowSlice
  BY <1>2, SliceKeepsFrame
<1>3. CASE FirstFrame
  BY <1>3, FirstFrameKeepsFrame
<1>4. CASE Start \/ VideoFails
  BY <1>4, <1>1 DEF Start, VideoFails, inferenceVars
<1>5. CASE HandOver
  BY <1>5, <1>1 DEF HandOver, inferenceVars
<1>6. CASE Inference
  BY <1>6, <1>1 DEF Inference, init_face_det, Wake, face_det, mainVars
<1>7. CASE Report
  BY <1>7, <1>1 DEF Report, Setup, SdkInit, Connect, Disconnect, TakeResult, NoResult,
                    publish_faces, mainVars, inferenceVars
<1>8. CASE SdkMemory \/ UNCHANGED vars
  BY <1>8, <1>1 DEF SdkMemory, vars, mainVars, inferenceVars
<1> QED
  BY <1>2, <1>3, <1>4, <1>5, <1>6, <1>7, <1>8 DEF Next, Main

(* At first nothing has been counted.                                      *)
LEMMA InitFrame == Init => FrameInv
<1> SUFFICES ASSUME Init PROVE FrameInv
  OBVIOUS
<1>1. Counted = 0
  BY DEF Init, Counted
<1>2. slices_per_frame \in Nat /\ 0 <= slices_per_frame
  BY FaceDetectAssumption
<1>3. \A j \in 1 .. slices_per_frame : ~(j <= Counted)
  BY <1>1, <1>2
<1>4. /\ slice \in Slices /\ stitched \subseteq Slices
      /\ inf_frame_count \in Nat /\ inf_frame_count <= slices_per_frame
      /\ inference_enabled = FALSE /\ ipc = "off"
  BY <1>2 DEF Init
<1> QED
  BY <1>3, <1>4 DEF FrameInv

(* "Wait for first full frame before starting inference thread": no part   *)
(* of the model's input is unfilled when an inference begins (main()).     *)
THEOREM FirstInputComplete == Spec => []InputComplete
<1>1. FrameInv => InputComplete
  BY DEF FrameInv, InputComplete
<1> QED
  BY <1>1, InitFrame, FrameStep, PTL DEF Spec

(***************************************************************************)
(* The heap.  A result takes a node only in the pass that took one to wake *)
(* the inference thread, so the results never take the last one, whatever  *)
(* the IOTCONNECT stack takes from the heap and gives back in between.     *)
(***************************************************************************)

HeapInv ==
    /\ inf_fifo \in Nat /\ iotc_fifo \in Nat /\ sdk_heap \in Nat
    /\ inf_fifo + iotc_fifo + sdk_heap <= NODES
    /\ iotc_fifo < NODES

(* A result finds a node only beside that of the wake-up before it.        *)
LEMMA HandOverKeepsHeap == HeapInv /\ HandOver => HeapInv'
<1> SUFFICES ASSUME HeapInv, HandOver PROVE HeapInv'
  OBVIOUS
<1> USE FaceDetectAssumption DEF HeapInv
<1>0. sdk_heap' = sdk_heap /\ inf_fifo' = IF Free > 0 THEN inf_fifo + 1 ELSE inf_fifo
  BY DEF HandOver
<1>1. /\ inf_fifo' \in Nat
      /\ inf_fifo' + iotc_fifo + sdk_heap <= NODES
      /\ inf_fifo' = 0 => inf_fifo' + iotc_fifo + sdk_heap = NODES
  BY <1>0 DEF Free
<1>2. \/ iotc_fifo' = iotc_fifo
      \/ iotc_fifo' = iotc_fifo + 1 /\ inf_fifo' + iotc_fifo + sdk_heap < NODES
  BY DEF HandOver
<1> QED
  BY <1>0, <1>1, <1>2

(* Every step keeps a node for the wake-up.                                *)
LEMMA HeapStep == HeapInv /\ [Next]_vars => HeapInv'
<1> SUFFICES ASSUME HeapInv, [Next]_vars PROVE HeapInv'
  OBVIOUS
<1> USE DEF HeapInv
<1>0. NODES \in Nat
  BY FaceDetectAssumption
<1>1. CASE UNCHANGED <<inf_fifo, iotc_fifo, sdk_heap>>
  BY <1>1
<1>2. CASE Start \/ ShowSlice \/ VideoFails
  BY <1>2, <1>1 DEF Start, ShowSlice, VideoFails, fifoVars
<1>3. CASE HandOver
  BY <1>3, HandOverKeepsHeap
<1>4. CASE FirstFrame
  <2>1. /\ UNCHANGED <<iotc_fifo, sdk_heap>>
        /\ inf_fifo' = inf_fifo \/ inf_fifo' = IF Free > 0 THEN inf_fifo + 1 ELSE inf_fifo
    BY <1>4 DEF FirstFrame
  <2> QED
    BY <1>0, <2>1 DEF Free
<1>5. CASE Inference
  <2>1. PICK n \in {0, inf_fifo} : inf_fifo' = n /\ UNCHANGED <<iotc_fifo, sdk_heap>>
    BY <1>5 DEF Inference, init_face_det, Wake, face_det, fifoVars
  <2>2. n \in Nat /\ n + iotc_fifo + sdk_heap <= NODES
    BY <1>0
  <2> QED
    BY <2>1, <2>2
<1>6. CASE Report
  <2>1. PICK n \in Nat : n <= iotc_fifo /\ iotc_fifo' = n /\ UNCHANGED <<inf_fifo, sdk_heap>>
    BY <1>6 DEF Report, Setup, SdkInit, Connect, Disconnect, TakeResult, NoResult,
                publish_faces, fifoVars
  <2>2. inf_fifo + n + sdk_heap <= NODES /\ n < NODES
    BY <1>0, <2>1
  <2> QED
    BY <2>1, <2>2
<1>7. CASE SdkMemory
  <2>1. PICK n \in 0 .. Free + sdk_heap : sdk_heap' = n /\ UNCHANGED <<inf_fifo, iotc_fifo>>
    BY <1>7 DEF SdkMemory, fifoVars
  <2>2. n \in Nat /\ inf_fifo + iotc_fifo + n <= NODES
    BY <1>0 DEF Free
  <2> QED
    BY <2>1, <2>2
<1>8. CASE UNCHANGED vars
  BY <1>8, <1>1 DEF vars, fifoVars
<1> QED
  BY <1>2, <1>3, <1>4, <1>5, <1>6, <1>7, <1>8 DEF Next, Main

(* However many results are left unread, they never take the last node,    *)
(* and a wake-up that finds none is one the IOTCONNECT stack holds (the    *)
(* order of the two puts in main(), and the heap of prj.conf 139-142).     *)
THEOREM ResultsLeaveRoom == Spec => []RoomToWake
<1>1. Init => HeapInv
  BY FaceDetectAssumption DEF Init, HeapInv
<1>2. HeapInv => RoomToWake
  BY FaceDetectAssumption DEF HeapInv, RoomToWake, Free
<1> QED
  BY <1>1, <1>2, HeapStep, PTL DEF Spec

(***************************************************************************)
(* The report.  What the report thread holds is a copy of the one result   *)
(* that every entry of its FIFO points to.                                 *)
(***************************************************************************)

ReportTypes ==
    /\ mpc \in {"boot", "video", "send", "exited"}
    /\ ipc \in {"off", "init", "wait", "infer", "hung"}
    /\ rpc \in {"setup", "init", "offline", "online", "report", "halted"}
    /\ res_copy \in Counts /\ pending_faces \in Counts
    /\ have_pending \in BOOLEAN /\ unqueued \in BOOLEAN

(* What is handed over is a count of faces: main() has checked its sign.   *)
LEMMA HandedIsCount ==
    ASSUME infResults \in Locals, infResults.odRetCnt > 0
    PROVE  infResults.odRetCnt \in Counts
BY FaceDetectAssumption DEF Locals, Counts

(* Every step keeps the types of what the three threads share.             *)
LEMMA ReportTypesStep == DisplayInv /\ ReportTypes /\ [Next]_vars => ReportTypes'
<1> SUFFICES ASSUME DisplayInv, ReportTypes, [Next]_vars PROVE ReportTypes'
  OBVIOUS
<1>1. infResults \in Locals /\ 0 \in Counts
  BY FaceDetectAssumption DEF DisplayInv, Counts
<1>2. CASE HandOver
  <2>1. res_copy' \in Counts
    BY <1>1, <1>2, HandedIsCount DEF HandOver, ReportTypes
  <2>2. unqueued' \in BOOLEAN
    BY <1>2 DEF HandOver, ReportTypes
  <2>3. mpc' = "video" /\ UNCHANGED <<ipc, rpc, pending_faces, have_pending>>
    BY <1>2 DEF HandOver, inferenceVars, reportVars
  <2> QED
    BY <2>1, <2>2, <2>3 DEF ReportTypes
<1>3. CASE Start \/ ShowSlice \/ VideoFails \/ FirstFrame
  BY <1>3 DEF Start, ShowSlice, VideoFails, FirstFrame, ReportTypes, fifoVars,
              inferenceVars, reportVars
<1>4. CASE Inference
  BY <1>4 DEF Inference, init_face_det, Wake, face_det, ReportTypes, mainVars, fifoVars,
              reportVars
<1>5. CASE Report
  BY <1>1, <1>5 DEF Report, Setup, SdkInit, Connect, Disconnect, TakeResult, NoResult,
                    publish_faces, ReportTypes, mainVars, fifoVars, inferenceVars
<1>6. CASE SdkMemory \/ UNCHANGED vars
  BY <1>6 DEF SdkMemory, vars, mainVars, fifoVars, inferenceVars, reportVars, ReportTypes
<1> QED
  BY <1>2, <1>3, <1>4, <1>5, <1>6 DEF Next, Main

(* Every variable keeps its type.  In particular the count that is         *)
(* published is one an inference gave: main() hands over no uninitialised  *)
(* negative one.                                                           *)
THEOREM FaceTyped == Spec => []TypeOK
<1> DEFINE Inv == DisplayInv /\ FrameInv /\ HeapInv /\ ReportTypes
<1>1. Init => Inv
  <2> SUFFICES ASSUME Init PROVE Inv
    OBVIOUS
  <2>1. DisplayInv
    BY InitDisplay
  <2>2. FrameInv
    BY InitFrame
  <2>3. HeapInv
    BY FaceDetectAssumption DEF Init, HeapInv
  <2>4. ReportTypes
    <3>1. 0 \in Counts
      BY FaceDetectAssumption DEF Counts
    <3> QED
      BY <3>1 DEF Init, ReportTypes
  <2> QED
    BY <2>1, <2>2, <2>3, <2>4
<1>2. Inv /\ [Next]_vars => Inv'
  BY DisplayStep, FrameStep, HeapStep, ReportTypesStep
<1>3. Inv => TypeOK
  <2> SUFFICES ASSUME Inv PROVE TypeOK
    OBVIOUS
  <2>1. inf_frame_count \in 0 .. slices_per_frame
    BY FaceDetectAssumption DEF FrameInv
  <2> QED
    BY <2>1 DEF DisplayInv, FrameInv, HeapInv, ReportTypes, TypeOK
<1> QED
  BY <1>1, <1>2, <1>3, PTL DEF Spec

(* A result that is handed over waits to be read, or is marked as one that *)
(* found no node; reading it makes it the pending one.                     *)
LEMMA PendingStep == HeapInv /\ LatestPending /\ [Next]_vars => LatestPending'
<1> SUFFICES ASSUME HeapInv, LatestPending, [Next]_vars PROVE LatestPending'
  OBVIOUS
<1>1. ASSUME UNCHANGED <<have_pending, pending_faces, res_copy, iotc_fifo, unqueued>>
      PROVE  LatestPending'
  BY <1>1 DEF LatestPending
<1>2. CASE HandOver
  <2>1. CASE infResults.odRetCnt > 0
    BY <1>2, <2>1 DEF HandOver, LatestPending
  <2>2. CASE ~(infResults.odRetCnt > 0)
    BY <1>2, <2>2, <1>1 DEF HandOver, reportVars
  <2> QED
    BY <2>1, <2>2
<1>3. CASE Start \/ ShowSlice \/ VideoFails \/ FirstFrame
  BY <1>3, <1>1 DEF Start, ShowSlice, VideoFails, FirstFrame, fifoVars, reportVars
<1>4. CASE Inference
  BY <1>4, <1>1 DEF Inference, init_face_det, Wake, face_det, fifoVars, reportVars
<1>5. CASE Setup \/ SdkInit \/ Disconnect \/ NoResult
  BY <1>5, <1>1 DEF Setup, SdkInit, Disconnect, NoResult, fifoVars
<1>6. CASE Connect
  BY <1>6 DEF Connect, LatestPending
<1>7. CASE TakeResult
  BY <1>7 DEF TakeResult, LatestPending
<1>8. CASE publish_faces
  BY <1>8 DEF publish_faces, LatestPending, fifoVars
<1>9. CASE SdkMemory \/ UNCHANGED vars
  BY <1>9, <1>1 DEF SdkMemory, vars, fifoVars, reportVars
<1> QED
  BY <1>2, <1>3, <1>4, <1>5, <1>6, <1>7, <1>8, <1>9 DEF Next, Main, Report

(* "Keep the latest count within the window": with nothing left to read,   *)
(* the count iotc_thread will publish is that of the last result main()    *)
(* handed over, unless k_fifo_alloc_put had no node for that one.          *)
THEOREM LatestIsPending == Spec => []LatestPending
<1>1. Init => HeapInv /\ LatestPending
  BY FaceDetectAssumption DEF Init, HeapInv, LatestPending
<1> QED
  BY <1>1, HeapStep, PendingStep, PTL DEF Spec
=============================================================================
