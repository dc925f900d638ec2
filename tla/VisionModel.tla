---------------------------- MODULE VisionModel ----------------------------
(***************************************************************************)
(* Model delivery in demos/vision-occupancy: the staging and the active    *)
(* buffer, the interpreter built over one of them, and the flash copy that *)
(* a restart comes up with.  The download worker and model-reset, on the   *)
(* SDK's MQTT thread, both install from the same staging buffer; main()    *)
(* scores frames in between and sends the worker's acknowledgements.       *)
(*                                                                         *)
(* A payload is two halves, so that a copy can be caught half way.  A blob *)
(* is a payload and its IOTV header, which stands for the payload its CRC  *)
(* was computed over.  All payloads have one length (variants of one       *)
(* network do), the case in which a mixture is not caught by its length.   *)
(***************************************************************************)
EXTENDS Naturals, Sequences

CONSTANTS
    Files,         \* what the platform pushes, each at most once
    Builtin,       \* model_builtin_tflite
    None,
    Raw,           \* files that are a bare .tflite; the others are IOTV blobs
    Unfit,         \* files vision_infer_init turns down
    QueueLen,      \* entries of model_jobq and of model_resq
    FlashFails,    \* whether a flash operation may fail
    MaxResets, MaxCrashes

Models == Files \cup {Builtin}
Halves == Models \cup {None}
Payloads == Halves \X Halves
Blobs == [hdr : Payloads \cup {None}, body : Payloads]

Installers == {"worker", "mqtt"}

ASSUME VisionAssumption ==
    /\ None \notin Models \cup Installers /\ Builtin \notin Files
    /\ Raw \subseteq Files /\ Unfit \subseteq Files
    /\ FlashFails \in BOOLEAN
    /\ QueueLen \in Nat /\ MaxResets \in Nat /\ MaxCrashes \in Nat

Blob(m) == [hdr |-> <<m, m>>, body |-> <<m, m>>]
NoBlob == [hdr |-> None, body |-> <<None, None>>]

Pcs == {"idle", "receive", "receive_rest", "normalize",          \* worker
        "erase", "write", "write_rest", "report",
        "stage", "stage_rest", "wrap",                           \* model-reset
        "validate", "trial", "copy", "copy_rest", "reload"}      \* both

UsesStaging ==
    {"receive", "receive_rest", "normalize", "stage", "stage_rest", "wrap",
     "validate", "trial", "copy", "copy_rest"}

VARIABLES
    model_staging, model_active, model_src,
    model_lock,    \* the thread that holds it, or None
    interp,        \* the buffer the interpreter was built over, or None
    flash,         \* slot1_partition
    pc,            \* where each installer is
    job, ok,       \* the file the worker is at, and whether it was installed
    model_jobq, model_resq,
    mpc,           \* main(): "off", "offline" or "online"
    (* History. *)
    fate,          \* what became of each file
    shared,        \* a reset staged its model while the worker used the buffer
    undermined,    \* a reset and a job overlapped, or a flash erase failed
    unread,        \* the last restart could not read the model in flash, not erased since
    resets, crashes

bufferVars == <<model_staging, model_active, model_src, interp>>
threadVars == <<pc, ok, job>>
queueVars == <<model_jobq, model_resq, fate>>
historyVars == <<shared, undermined, unread, resets, crashes>>
vars == <<bufferVars, model_lock, flash, threadVars, queueVars, mpc, historyVars>>

Results == [file : Files, ok : BOOLEAN]
Fates == {"new", "queued", "busy", "running", "done", "failed", "acked", "nacked",
          "unanswered", "forgotten"}

TypeOK ==
    /\ model_staging \in Blobs /\ model_active \in Blobs /\ flash \in Blobs
    /\ model_src \in {"none", "builtin", "flash", "cloud"}
    /\ model_lock \in Installers \cup {None}
    /\ interp \in {"staging", "active", None}
    /\ pc \in [Installers -> Pcs] /\ ok \in BOOLEAN
    /\ job \in Files \cup {None}
    /\ model_jobq \in Seq(Files) /\ Len(model_jobq) <= QueueLen
    /\ model_resq \in Seq(Results) /\ Len(model_resq) <= QueueLen
    /\ mpc \in {"off", "offline", "online"}
    /\ fate \in [Files -> Fates]
    /\ shared \in BOOLEAN /\ undermined \in BOOLEAN /\ unread \in BOOLEAN
    /\ resets \in 0 .. MaxResets /\ crashes \in 0 .. MaxCrashes

Init ==
    /\ model_staging = NoBlob /\ model_active = NoBlob /\ model_src = "none"
    /\ interp = None /\ model_lock = None
    /\ flash = NoBlob
    /\ pc = [i \in Installers |-> "idle"] /\ ok = FALSE
    /\ job = None
    /\ model_jobq = <<>> /\ model_resq = <<>>
    /\ mpc = "off"
    /\ fate = [f \in Files |-> "new"]
    /\ shared = FALSE /\ undermined = FALSE /\ unread = FALSE
    /\ resets = 0 /\ crashes = 0

Goto(i, from, to) == pc[i] = from /\ pc' = [pc EXCEPT ![i] = to]

(* Altered: the CRC is not compared. *)
AlteredValidate(b) == b.hdr # None

(* iotv_validate: a header, and the CRC it carries. *)
iotv_validate(b) == b.hdr # None /\ b.hdr = b.body

(* vision_infer_init: what it may return, a mixture of two models loading  *)
(* or not, and where the interpreter may be built afterwards.  What is     *)
(* unfit is turned down before (an unknown schema version) or after the    *)
(* old interpreter is freed.                                               *)
InferInit(payload) ==
    IF payload[1] # payload[2] THEN BOOLEAN ELSE {payload[1] \notin Unfit}

InterpAfter(loads, place, old) == IF loads THEN {place} ELSE {old, None}

----------------------------------------------------------------------------
(* main(): a stored model that loads wins over the built-in one.  Nothing  *)
(* else runs yet, so what it installs is installed at once.                *)
RunBuiltin ==
    /\ model_staging' = Blob(Builtin) /\ model_active' = Blob(Builtin)
    /\ model_src' = "builtin"

(* The store is opened and read, which may fail whatever it holds.         *)
Boot ==
    /\ mpc = "off"
    /\ mpc' = "offline"
    /\ interp' = "active"
    /\ \/ /\ iotv_validate(flash) /\ TRUE \in InferInit(flash.body)
          /\ model_staging' = flash /\ model_active' = flash
          /\ model_src' = "flash" /\ unread' = FALSE
       \/ /\ ~iotv_validate(flash) \/ FALSE \in InferInit(flash.body)
          /\ RunBuiltin /\ unread' = FALSE
       \/ FlashFails /\ RunBuiltin /\ unread' = iotv_validate(flash)
    /\ UNCHANGED <<model_lock, flash, threadVars, queueVars, shared, undermined, resets,
                   crashes>>

Connect == /\ mpc = "offline" /\ mpc' = "online"
           /\ UNCHANGED <<bufferVars, model_lock, flash, threadVars, queueVars, historyVars>>

Disconnect == /\ mpc = "online" /\ mpc' = "offline"
              /\ UNCHANGED <<bufferVars, model_lock, flash, threadVars, queueVars, historyVars>>

(* The loop sends the acknowledgements that are ready.  (It also scores    *)
(* frames under model_lock, which changes nothing here.)                   *)
drain_model_results ==
    /\ mpc = "online" /\ model_resq # <<>>
    /\ model_resq' = <<>>
    /\ LET sent == {model_resq[n] : n \in DOMAIN model_resq} IN
       fate' = [f \in Files |-> IF [file |-> f, ok |-> TRUE] \in sent THEN "acked"
                                ELSE IF [file |-> f, ok |-> FALSE] \in sent THEN "nacked"
                                ELSE fate[f]]
    /\ UNCHANGED <<bufferVars, model_lock, flash, threadVars, model_jobq, mpc, historyVars>>

----------------------------------------------------------------------------
(* model-fetch and on_model_push, on the MQTT thread: queue_model_job, or  *)
(* "model transfer busy" at once.                                          *)

queue_model_job(f) ==
    /\ mpc = "online" /\ pc["mqtt"] = "idle"
    /\ fate[f] = "new"
    /\ IF Len(model_jobq) < QueueLen
       THEN model_jobq' = Append(model_jobq, f) /\ fate' = [fate EXCEPT ![f] = "queued"]
       ELSE UNCHANGED model_jobq /\ fate' = [fate EXCEPT ![f] = "busy"]
    /\ UNCHANGED <<bufferVars, model_lock, flash, threadVars, model_resq, mpc, historyVars>>

(* Altered: the result of the job before is not cleared. *)
AlteredTakeJob ==
    /\ Goto("worker", "idle", "receive")
    /\ model_jobq # <<>>
    /\ job' = Head(model_jobq) /\ model_jobq' = Tail(model_jobq)
    /\ fate' = [fate EXCEPT ![job'] = "running"]
    /\ UNCHANGED <<bufferVars, model_lock, flash, ok, model_resq, mpc, historyVars>>

(* model_worker: take a job ... *)
TakeJob ==
    /\ Goto("worker", "idle", "receive")
    /\ model_jobq # <<>>
    /\ job' = Head(model_jobq) /\ model_jobq' = Tail(model_jobq)
    /\ fate' = [fate EXCEPT ![job'] = "running"]
    /\ ok' = FALSE
    /\ undermined' = (undermined \/ pc["mqtt"] # "idle")
    /\ shared' = (shared \/ pc["mqtt"] \in UsesStaging)
    /\ UNCHANGED <<bufferVars, model_lock, flash, model_resq, mpc, unread, resets,
                   crashes>>

(* ... download its file into model_staging, the server or the network     *)
(* giving up at any point, or the body being neither zip, IOTV nor .tflite *)
Receive ==
    /\ Goto("worker", "receive", "receive_rest")
    /\ model_staging' = [hdr |-> IF job \in Raw THEN None ELSE <<job, job>>,
                         body |-> <<job, model_staging.body[2]>>]
    /\ UNCHANGED <<model_active, model_src, interp, model_lock, flash, ok, job,
                   queueVars, mpc, historyVars>>

ReceiveRest ==
    /\ Goto("worker", "receive_rest", "normalize")
    /\ model_staging' = [model_staging EXCEPT !.body[2] = job]
    /\ UNCHANGED <<model_active, model_src, interp, model_lock, flash, ok, job,
                   queueVars, mpc, historyVars>>

(* Altered: a failed download is dropped without a result. *)
AlteredDownloadFails ==
    /\ pc["worker"] \in {"receive", "receive_rest", "normalize"}
    /\ pc' = [pc EXCEPT !["worker"] = "idle"]
    /\ UNCHANGED <<bufferVars, model_lock, flash, ok, job, queueVars, mpc, historyVars>>

DownloadFails ==
    /\ pc["worker"] \in {"receive", "receive_rest", "normalize"}
    /\ pc' = [pc EXCEPT !["worker"] = "report"]
    /\ UNCHANGED <<bufferVars, model_lock, flash, ok, job, queueVars, mpc, historyVars>>

(* ... and wrap a bare .tflite: whatever bytes are there get a good CRC.   *)
normalize_staged_download ==
    /\ Goto("worker", "normalize", "validate")
    /\ model_staging' = IF model_staging.hdr = None
                        THEN [model_staging EXCEPT !.hdr = model_staging.body]
                        ELSE model_staging
    /\ UNCHANGED <<model_active, model_src, interp, model_lock, flash, ok, job,
                   queueVars, mpc, historyVars>>

(* Altered: the result queue is taken to have room. *)
AlteredReport ==
    /\ Goto("worker", "report", "idle")
    /\ job' = None
    /\ model_resq' = Append(model_resq, [file |-> job, ok |-> ok])
    /\ fate' = [fate EXCEPT ![job] = IF ok THEN "done" ELSE "failed"]
    /\ UNCHANGED <<bufferVars, model_lock, flash, ok, model_jobq, mpc, historyVars>>

(* The outcome goes to the main loop, if the result queue has room.        *)
Report ==
    /\ Goto("worker", "report", "idle")
    /\ job' = None
    /\ IF Len(model_resq) < QueueLen
       THEN /\ model_resq' = Append(model_resq, [file |-> job, ok |-> ok])
            /\ fate' = [fate EXCEPT ![job] = IF ok THEN "done" ELSE "failed"]
       ELSE /\ UNCHANGED model_resq
            /\ fate' = [fate EXCEPT ![job] = "unanswered"]
    /\ UNCHANGED <<bufferVars, model_lock, flash, ok, model_jobq, mpc, historyVars>>

----------------------------------------------------------------------------
(* install_from_staging, in either thread.  The CRC is checked before the  *)
(* lock is taken ...                                                       *)

Validate(i) ==
    /\ pc[i] = "validate"
    /\ pc' = [pc EXCEPT ![i] = IF iotv_validate(model_staging) THEN "trial"
                               ELSE IF i = "worker" THEN "report" ELSE "idle"]
    /\ UNCHANGED <<bufferVars, model_lock, flash, ok, job, queueVars, mpc, historyVars>>

(* ... then the candidate is loaded where it is, and if it does not load   *)
(* the interpreter goes back to the active copy ...                        *)
TrialLoads(i) ==
    /\ Goto(i, "trial", "copy")
    /\ model_lock = None /\ model_lock' = i
    /\ TRUE \in InferInit(model_staging.body)
    /\ interp' = "staging"
    /\ UNCHANGED <<model_staging, model_active, model_src, flash, ok, job, queueVars,
                   mpc, historyVars>>

(* Altered: no roll-back. *)
AlteredTrialFails(i) ==
    /\ Goto(i, "trial", IF i = "worker" THEN "report" ELSE "idle")
    /\ model_lock = None
    /\ FALSE \in InferInit(model_staging.body)
    /\ interp' \in InterpAfter(FALSE, "staging", interp)
    /\ UNCHANGED <<model_staging, model_active, model_src, model_lock, flash, ok, job,
                   queueVars, mpc, historyVars>>

TrialFails(i) ==
    /\ Goto(i, "trial", IF i = "worker" THEN "report" ELSE "idle")
    /\ model_lock = None
    /\ FALSE \in InferInit(model_staging.body)
    /\ \E loads \in InferInit(model_active.body),
          old \in InterpAfter(FALSE, "staging", interp) :
              interp' \in InterpAfter(loads, "active", old)
    /\ UNCHANGED <<model_staging, model_active, model_src, model_lock, flash, ok, job,
                   queueVars, mpc, historyVars>>

(* ... or it is copied over the active one ...                             *)
Copy(i) ==
    /\ Goto(i, "copy", "copy_rest")
    /\ model_active' = [hdr |-> model_staging.hdr,
                        body |-> <<model_staging.body[1], model_active.body[2]>>]
    /\ UNCHANGED <<model_staging, model_src, interp, model_lock, flash, ok, job,
                   queueVars, mpc, historyVars>>

CopyRest(i) ==
    /\ Goto(i, "copy_rest", "reload")
    /\ model_active' = [model_active EXCEPT !.body[2] = model_staging.body[2]]
    /\ model_src' = IF i = "worker" THEN "cloud" ELSE "builtin"
    /\ UNCHANGED <<model_staging, interp, model_lock, flash, ok, job, queueVars,
                   mpc, historyVars>>

(* ... and loaded from there, which is taken to work.                      *)
Reload(i) ==
    /\ Goto(i, "reload", IF i = "worker" THEN "erase" ELSE "idle")
    /\ \E loads \in InferInit(model_active.body) :
           interp' \in InterpAfter(loads, "active", interp)
    /\ ok' = (ok \/ i = "worker")
    /\ model_lock' = None
    /\ UNCHANGED <<model_staging, model_active, model_src, flash, job, queueVars,
                   mpc, historyVars>>

(* A pushed model is then saved, outside the lock, from the active buffer: *)
(* model_store_save.  A flash operation that fails leaves it unsaved.      *)
SaveErase ==
    /\ \/ Goto("worker", "erase", "write") /\ flash' = NoBlob
          /\ unread' = FALSE /\ UNCHANGED undermined
       \/ Goto("worker", "erase", "report") /\ FlashFails
          /\ UNCHANGED <<flash, unread>> /\ undermined' = TRUE
    /\ UNCHANGED <<bufferVars, model_lock, ok, job, queueVars, mpc, shared, resets, crashes>>

SaveWrite ==
    /\ \/ Goto("worker", "write", "write_rest")
       \/ Goto("worker", "write", "report") /\ FlashFails
    /\ flash' = [hdr |-> model_active.hdr, body |-> <<model_active.body[1], flash.body[2]>>]
    /\ UNCHANGED <<bufferVars, model_lock, ok, job, queueVars, mpc, historyVars>>

SaveWriteRest ==
    /\ Goto("worker", "write_rest", "report")
    /\ flash' = [flash EXCEPT !.body[2] = model_active.body[2]]
    /\ UNCHANGED <<bufferVars, model_lock, ok, job, queueVars, mpc, historyVars>>

----------------------------------------------------------------------------
(* Altered: the flash copy is not erased. *)
AlteredModelReset ==
    /\ mpc = "online"
    /\ Goto("mqtt", "idle", "stage")
    /\ resets < MaxResets /\ resets' = resets + 1
    /\ undermined' = (undermined \/ pc["worker"] # "idle")
    /\ shared' = (shared \/ pc["worker"] \in UsesStaging)
    /\ UNCHANGED <<bufferVars, model_lock, flash, ok, job, queueVars, mpc, unread, crashes>>

(* model-reset: model_store_erase, the header's sector only, and           *)
(* install_builtin, which stages the built-in model without the lock; the  *)
(* acknowledgement goes out when it returns.                               *)

ModelReset ==
    /\ mpc = "online"
    /\ Goto("mqtt", "idle", "stage")
    /\ resets < MaxResets /\ resets' = resets + 1
    /\ \/ /\ flash' = [flash EXCEPT !.hdr = None] /\ unread' = FALSE
          /\ undermined' = (undermined \/ pc["worker"] # "idle")
       \/ /\ FlashFails
          /\ UNCHANGED <<flash, unread>> /\ undermined' = TRUE
    /\ shared' = (shared \/ pc["worker"] \in UsesStaging)
    /\ UNCHANGED <<bufferVars, model_lock, ok, job, queueVars, mpc, crashes>>

Stage ==
    /\ Goto("mqtt", "stage", "stage_rest")
    /\ model_staging' = [model_staging EXCEPT !.body[1] = Builtin]
    /\ UNCHANGED <<model_active, model_src, interp, model_lock, flash, ok, job,
                   queueVars, mpc, historyVars>>

StageRest ==
    /\ Goto("mqtt", "stage_rest", "wrap")
    /\ model_staging' = [model_staging EXCEPT !.body[2] = Builtin]
    /\ UNCHANGED <<model_active, model_src, interp, model_lock, flash, ok, job,
                   queueVars, mpc, historyVars>>

iotv_wrap_in_place ==
    /\ Goto("mqtt", "wrap", "validate")
    /\ model_staging' = [model_staging EXCEPT !.hdr = model_staging.body]
    /\ UNCHANGED <<model_active, model_src, interp, model_lock, flash, ok, job,
                   queueVars, mpc, historyVars>>

----------------------------------------------------------------------------
(* A restart, at any point: the reboot command, a crash or a power cut.    *)

Crash ==
    /\ mpc # "off"
    /\ crashes < MaxCrashes /\ crashes' = crashes + 1
    /\ model_staging' = NoBlob /\ model_active' = NoBlob /\ model_src' = "none"
    /\ interp' = None /\ model_lock' = None
    /\ pc' = [i \in Installers |-> "idle"] /\ ok' = FALSE
    /\ job' = None
    /\ model_jobq' = <<>> /\ model_resq' = <<>>
    /\ mpc' = "off"
    /\ fate' = [f \in Files |-> IF fate[f] \in {"queued", "running", "done", "failed"}
                                 THEN "forgotten" ELSE fate[f]]
    /\ unread' = FALSE
    /\ UNCHANGED <<flash, shared, undermined, resets>>

Worker == \/ TakeJob \/ Receive \/ ReceiveRest \/ DownloadFails
          \/ normalize_staged_download \/ Validate("worker")
          \/ TrialLoads("worker") \/ TrialFails("worker")
          \/ Copy("worker") \/ CopyRest("worker") \/ Reload("worker")
          \/ SaveErase \/ SaveWrite \/ SaveWriteRest \/ Report

Resetting == \/ Stage \/ StageRest \/ iotv_wrap_in_place
             \/ Validate("mqtt") \/ TrialLoads("mqtt") \/ TrialFails("mqtt")
             \/ Copy("mqtt") \/ CopyRest("mqtt") \/ Reload("mqtt")

Next == \/ Boot \/ Connect \/ Disconnect \/ drain_model_results
        \/ \E f \in Files : queue_model_job(f)
        \/ Worker \/ ModelReset \/ Resetting \/ Crash

Spec == Init /\ [][Next]_vars

(* k_mutex_unlock hands the lock to a waiting thread, so neither installer *)
(* starves behind the other; the connect loop retries for ever, each session  *)
(* it opens gets at least one pass of the loop, and the broker is assumed  *)
(* to accept one in the end.                                               *)
FairSpec ==
    /\ Spec
    /\ SF_vars(Worker) /\ SF_vars(Resetting)
    /\ WF_vars(Boot) /\ WF_vars(Connect)
    /\ SF_vars(drain_model_results)

----------------------------------------------------------------------------
(* Properties. *)

Whole(b) == b.body[1] = b.body[2] /\ b.hdr = b.body

(* "A bad push rolls back to the still-intact active copy" (main.c         *)
(* 105-106): whenever the lock is free for main() to score a frame, the    *)
(* interpreter runs one whole, loadable model, and from the active buffer, *)
(* whatever was pushed - unless a reset staged its model in the middle of  *)
(* a job, the one thing model_lock does not keep apart.                    *)
ServesWhole ==
    (mpc # "off" /\ model_lock = None /\ ~shared) =>
        /\ interp = "active"
        /\ Whole(model_active)
        /\ InferInit(model_active.body) = {TRUE}

(* What a restart loads is one whole model, wherever a crash cut the save: *)
(* a torn write or an overlapping reset leaves a CRC that does not match.  *)
FlashWhole == ~shared /\ iotv_validate(flash) => Whole(flash)

(* When both threads are done, flash holds what runs or nothing that       *)
(* loads: after model-reset nothing ("erases the flash copy", main.c 28),  *)
(* after a push the model it acknowledged.  A restart that cannot read the *)
(* store runs the built-in model over it, and nothing else.                *)
Quiet == mpc # "off" /\ \A i \in Installers : pc[i] = "idle"

StoreAgrees ==
    Quiet /\ ~undermined /\ iotv_validate(flash) =>
        model_active = IF unread THEN Blob(Builtin) ELSE flash

(* The same of model-reset, overlap or not, as main.c 28 puts it: "revert  *)
(* to the built-in model (erases the flash copy)".                         *)
ResetReverts ==
    Quiet /\ resets > 0 /\ model_src = "builtin" =>
        ~(iotv_validate(flash) /\ flash \in {Blob(f) : f \in Files})

(* The note the platform gets is true: a job reported done has its file    *)
(* running, one reported failed has left what ran before.                  *)
AnswersTrue ==
    [][\A f \in Files : fate[f] = "running" /\ ~undermined =>
          /\ fate'[f] = "done" => model_active = Blob(f)
          /\ fate'[f] = "failed" => model_active # Blob(f)]_vars

(* Every job that was queued is finished: acknowledged from the main loop, *)
(* however the session comes and goes, unless a restart forgot it or the   *)
(* result queue was full.                                                  *)
EveryJobEnds ==
    \A f \in Files :
        fate[f] = "queued" ~> fate[f] \in {"acked", "nacked", "unanswered", "forgotten"}
=============================================================================
