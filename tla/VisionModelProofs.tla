------------------------- MODULE VisionModelProofs -------------------------
(* Theorems about VisionModel, for all files, whichever of them are bare   *)
(* or unfit, all queue lengths, failing flash and any number of resets and *)
(* restarts.                                                               *)
EXTENDS VisionModel, TLAPS

(***************************************************************************)
(* ServesWhole says nothing of the time the lock is held, nor of flash,    *)
(* which becomes the active model at the next start.  The invariant adds   *)
(* what the staging buffer holds at each point of a job and of a reset,    *)
(* and that only one of the two is at it.                                  *)
(***************************************************************************)

Types ==
    /\ model_staging \in Blobs /\ model_active \in Blobs /\ flash \in Blobs
    /\ model_lock \in Installers \cup {None}
    /\ pc \in [Installers -> Pcs]
    /\ job \in Files \cup {None}
    /\ model_jobq \in Seq(Files)

(* One thread uses the staging buffer, and one, the same, has the lock.    *)
Exclusive ==
    /\ ~(pc["worker"] \in UsesStaging /\ pc["mqtt"] \in UsesStaging)
    /\ \A i \in Installers : model_lock = i <=> pc[i] \in {"copy", "copy_rest", "reload"}
    /\ pc["worker"] \in UsesStaging => job \in Files
    /\ pc["worker"] \notin {"stage", "stage_rest", "wrap"}
    /\ pc["mqtt"] \in {"idle", "stage", "stage_rest", "wrap", "validate", "trial", "copy",
                       "copy_rest", "reload"}
    /\ mpc = "off" => model_jobq = <<>> /\ \A i \in Installers : pc[i] = "idle"

(* A header, wherever it is found, is that of one model.                   *)
Pure(b) == b.hdr # None => b.hdr[1] = b.hdr[2]

HeadersPure == Pure(model_staging) /\ Pure(model_active) /\ Pure(flash)

Loadable(b) == Whole(b) /\ b.body[1] \notin Unfit

StagingHolds ==
    /\ pc["worker"] \in {"receive_rest", "normalize", "validate"} =>
           model_staging.body[1] = job
    /\ pc["worker"] \in {"normalize", "validate"} => model_staging.body[2] = job
    /\ pc["mqtt"] \in {"stage_rest", "wrap", "validate"} =>
           model_staging.body[1] = Builtin
    /\ pc["mqtt"] \in {"wrap", "validate"} => model_staging.body[2] = Builtin
    /\ \A i \in Installers :
           /\ pc[i] \in {"trial", "copy", "copy_rest"} => Whole(model_staging)
           /\ pc[i] \in {"copy", "copy_rest"} => Loadable(model_staging)

ActiveHolds ==
    /\ \A i \in Installers :
           /\ pc[i] = "copy_rest" => /\ model_active.hdr = model_staging.hdr
                                     /\ model_active.body[1] = model_staging.body[1]
           /\ pc[i] = "reload" => Loadable(model_active)
    /\ mpc # "off" /\ model_lock = None => interp = "active" /\ Loadable(model_active)

Safe == Exclusive /\ HeadersPure /\ StagingHolds /\ ActiveHolds

ModelInv == Types /\ (~shared => Safe)

(* The invariant holds at power-on.                                        *)
LEMMA ModelInit == Init => ModelInv
<1> SUFFICES ASSUME Init PROVE ModelInv
  OBVIOUS
<1> USE VisionAssumption
<1>1. Types
  BY DEF Init, Types, Blobs, NoBlob, Payloads, Halves, Pcs, Installers
<1>2. Exclusive
  BY DEF Init, Exclusive, UsesStaging, Installers
<1>3. HeadersPure
  BY DEF Init, HeadersPure, Pure, NoBlob
<1>4. StagingHolds /\ ActiveHolds
  BY DEF Init, StagingHolds, ActiveHolds, Installers
<1> QED
  BY <1>1, <1>2, <1>3, <1>4 DEF ModelInv, Safe

(* Every step keeps the types.                                             *)
LEMMA TypesStep == Types /\ [Next]_vars => Types'
<1> SUFFICES ASSUME Types, [Next]_vars PROVE Types'
  OBVIOUS
<1> USE VisionAssumption
<1>0. /\ NoBlob \in Blobs /\ \A m \in Models : Blob(m) \in Blobs
      /\ Files \subseteq Models /\ Models \subseteq Halves /\ Builtin \in Models
      /\ None \in Halves
  BY DEF NoBlob, Blob, Blobs, Payloads, Models, Halves
<1>1. ASSUME UNCHANGED <<bufferVars, flash, model_lock, job, model_jobq>>,
             pc' \in [Installers -> Pcs]
      PROVE  Types'
  BY <1>1 DEF Types, bufferVars
<1>2. \A i \in Installers, to \in Pcs : [pc EXCEPT ![i] = to] \in [Installers -> Pcs]
  BY DEF Types
<1>3. CASE Boot
  <2>1. /\ UNCHANGED <<pc, job, model_lock, flash, model_jobq>>
        /\ \/ model_staging' = flash /\ model_active' = flash
           \/ model_staging' = Blob(Builtin) /\ model_active' = Blob(Builtin)
    BY <1>3 DEF Boot, RunBuiltin, threadVars, queueVars
  <2> QED
    BY <2>1, <1>0 DEF Types
<1>4. CASE Connect \/ Disconnect \/ drain_model_results \/ UNCHANGED vars
  BY <1>4, <1>1 DEF Connect, Disconnect, drain_model_results, Types, bufferVars, threadVars,
     queueVars, vars
<1>5. ASSUME NEW f \in Files, queue_model_job(f) PROVE Types'
  BY <1>5 DEF queue_model_job, Types, bufferVars, threadVars
<1>6. CASE TakeJob
  <2>1. model_jobq' \in Seq(Files) /\ job' \in Files
    BY <1>6 DEF TakeJob, Types
  <2>2. pc' \in [Installers -> Pcs]
    BY <1>6, <1>2 DEF TakeJob, Goto, Installers, Pcs
  <2> QED
    BY <1>6, <2>1, <2>2 DEF TakeJob, Types, bufferVars
<1>7. CASE Receive
  <2>1. model_staging' \in Blobs
    <3>1. /\ job \in Halves /\ model_staging.body[2] \in Halves
          /\ <<job, job>> \in Payloads /\ <<job, model_staging.body[2]>> \in Payloads
      BY <1>0 DEF Types, Blobs, Payloads
    <3>2. model_staging' = [hdr |-> IF job \in Raw THEN None ELSE <<job, job>>,
                            body |-> <<job, model_staging.body[2]>>]
      BY <1>7 DEF Receive
    <3>3. (IF job \in Raw THEN None ELSE <<job, job>>) \in Payloads \cup {None}
      BY <3>1
    <3> QED
      BY <3>1, <3>2, <3>3, Zenon DEF Blobs
  <2>2. pc' \in [Installers -> Pcs]
    BY <1>7, <1>2 DEF Receive, Goto, Installers, Pcs
  <2> QED
    BY <1>7, <2>1, <2>2 DEF Receive, Types, queueVars
<1>8. CASE ReceiveRest \/ Stage \/ StageRest
  <2>1. model_staging' \in Blobs
    <3>1. job \in Halves
      BY <1>0 DEF Types
    <3> QED
      BY <1>8, <1>0, <3>1 DEF ReceiveRest, Stage, StageRest, Types, Blobs, Payloads
  <2>2. pc' \in [Installers -> Pcs]
    BY <1>8, <1>2 DEF ReceiveRest, Stage, StageRest, Goto, Installers, Pcs
  <2> QED
    BY <1>8, <2>1, <2>2 DEF ReceiveRest, Stage, StageRest, Types, queueVars
<1>9. CASE normalize_staged_download \/ iotv_wrap_in_place
  <2>1. model_staging' \in Blobs
    BY <1>9 DEF normalize_staged_download, iotv_wrap_in_place, Types, Blobs
  <2>2. pc' \in [Installers -> Pcs]
    <3>1. \E i \in Installers : pc' = [pc EXCEPT ![i] = "validate"]
      BY <1>9 DEF normalize_staged_download, iotv_wrap_in_place, Goto, Installers
    <3> QED
      BY <3>1, <1>2 DEF Pcs
  <2> QED
    BY <1>9, <2>1, <2>2 DEF normalize_staged_download, iotv_wrap_in_place, Types, queueVars
<1>10. CASE DownloadFails
  BY <1>10, <1>1, <1>2 DEF DownloadFails, Installers, Pcs, queueVars
<1>11. CASE Report
  BY <1>11, <1>2 DEF Report, Goto, Installers, Pcs, Types, bufferVars
<1>12. ASSUME NEW i \in Installers, Validate(i) PROVE Types'
  BY <1>12, <1>1, <1>2 DEF Validate, Pcs, queueVars
<1>13. ASSUME NEW i \in Installers, TrialLoads(i) \/ TrialFails(i) PROVE Types'
  <2>1. pc' \in [Installers -> Pcs]
    <3>1. \E to \in {"copy", "report", "idle"} : pc' = [pc EXCEPT ![i] = to]
      BY <1>13 DEF TrialLoads, TrialFails, Goto
    <3> QED
      BY <3>1, <1>2 DEF Pcs
  <2> QED
    BY <1>13, <2>1 DEF TrialLoads, TrialFails, Types, queueVars
<1>14. ASSUME NEW i \in Installers, Copy(i) \/ CopyRest(i) PROVE Types'
  <2>1. model_active' \in Blobs
    BY <1>14 DEF Copy, CopyRest, Types, Blobs, Payloads
  <2>2. pc' \in [Installers -> Pcs]
    <3>1. \E to \in {"copy_rest", "reload"} : pc' = [pc EXCEPT ![i] = to]
      BY <1>14 DEF Copy, CopyRest, Goto
    <3> QED
      BY <3>1, <1>2 DEF Pcs
  <2> QED
    BY <1>14, <2>1, <2>2 DEF Copy, CopyRest, Types, queueVars
<1>15. ASSUME NEW i \in Installers, Reload(i) PROVE Types'
  <2>1. pc' \in [Installers -> Pcs]
    BY <1>15, <1>2 DEF Reload, Goto, Pcs
  <2> QED
    BY <1>15, <2>1 DEF Reload, Types, queueVars
<1>16. CASE SaveErase \/ SaveWrite \/ SaveWriteRest
  <2>1. flash' \in Blobs
    <3>1. CASE SaveErase
      BY <3>1, <1>0 DEF SaveErase, Types
    <3>2. CASE SaveWrite \/ SaveWriteRest
      BY <3>2 DEF SaveWrite, SaveWriteRest, Types, Blobs, Payloads
    <3> QED
      BY <1>16, <3>1, <3>2
  <2>2. pc' \in [Installers -> Pcs]
    BY <1>16, <1>2 DEF SaveErase, SaveWrite, SaveWriteRest, Goto, Pcs, Installers
  <2> QED
    BY <1>16, <2>1, <2>2 DEF SaveErase, SaveWrite, SaveWriteRest, Types, queueVars,
       bufferVars
<1>17. CASE ModelReset
  <2>1. flash' \in Blobs
    BY <1>17 DEF ModelReset, Types, Blobs
  <2>2. pc' \in [Installers -> Pcs]
    BY <1>17, <1>2 DEF ModelReset, Goto, Pcs, Installers
  <2> QED
    BY <1>17, <2>1, <2>2 DEF ModelReset, Types, queueVars, bufferVars
<1>18. CASE Crash
  BY <1>18, <1>0 DEF Crash, Types, Pcs
<1> QED
  BY <1>3, <1>4, <1>5, <1>6, <1>7, <1>8, <1>9, <1>10, <1>11, <1>12, <1>13, <1>14, <1>15,
     <1>16, <1>17, <1>18 DEF Next, Worker, Resetting, Installers

(* A header whose CRC matches is the whole of one model.                   *)
LEMMA PureValid ==
    ASSUME NEW b \in Blobs, Pure(b), iotv_validate(b)
    PROVE  Whole(b)
BY DEF Pure, iotv_validate, Whole

(* Connecting, acknowledging and queueing touch none of it.               *)
LEMMA OutsideStep ==
    ASSUME Types, Safe,
           \/ Connect \/ Disconnect \/ drain_model_results \/ UNCHANGED vars
           \/ \E f \in Files : queue_model_job(f)
    PROVE  Safe'
<1> USE DEF Connect, Disconnect, drain_model_results, queue_model_job, vars, bufferVars,
            threadVars, queueVars
<1>1. /\ UNCHANGED <<model_staging, model_active, interp, model_lock, flash, pc, job>>
      /\ mpc' = "off" <=> mpc = "off"
  OBVIOUS
<1>2. Exclusive' /\ HeadersPure'
  BY <1>1 DEF Safe, Exclusive, HeadersPure, Pure
<1>3. StagingHolds' /\ ActiveHolds'
  BY <1>1 DEF Safe, StagingHolds, ActiveHolds, Loadable, Whole
<1> QED
  BY <1>2, <1>3 DEF Safe

(* Boot installs what flash holds only if it is whole and loads.           *)
LEMMA BootStep ==
    ASSUME Types, Safe, Boot
    PROVE  Safe'
<1> USE VisionAssumption
<1>1. UNCHANGED <<pc, job, model_lock, flash>> /\ mpc = "off" /\ mpc' = "offline"
  BY DEF Boot, threadVars, queueVars
<1>2. Exclusive'
  BY <1>1 DEF Safe, Exclusive
<1>3. /\ Pure(model_staging') /\ Pure(model_active') /\ interp' = "active"
      /\ Loadable(model_active')
  <2>1. CASE iotv_validate(flash) /\ TRUE \in InferInit(flash.body) /\ model_staging' = flash
             /\ model_active' = flash
    <3>1. Pure(flash) /\ Whole(flash)
      BY <2>1, PureValid DEF Safe, HeadersPure, Types
    <3>2. flash.body[1] \notin Unfit
      BY <2>1, <3>1 DEF InferInit, Whole
    <3> QED
      BY <2>1, <3>1, <3>2 DEF Boot, Loadable
  <2>2. CASE model_staging' = Blob(Builtin) /\ model_active' = Blob(Builtin)
    BY <2>2 DEF Boot, Loadable, Whole, Blob, Pure
  <2> QED
    BY <2>1, <2>2 DEF Boot, RunBuiltin
<1>4. HeadersPure'
  BY <1>1, <1>3 DEF Safe, HeadersPure, Pure
<1>5. StagingHolds' /\ ActiveHolds'
  <2>1. \A i \in Installers : pc'[i] = "idle"
    BY <1>1 DEF Safe, Exclusive
  <2> QED
    BY <2>1, <1>3 DEF StagingHolds, ActiveHolds, Installers, Loadable, Whole
<1> QED
  BY <1>2, <1>4, <1>5 DEF Safe

(* A restart leaves nothing behind but flash.                              *)
LEMMA CrashStep ==
    ASSUME Types, Safe, Crash
    PROVE  Safe'
<1> USE VisionAssumption
<1>1. /\ \A i \in Installers : pc'[i] = "idle"
      /\ mpc' = "off" /\ model_lock' = None /\ flash' = flash /\ model_jobq' = <<>>
      /\ model_staging' = NoBlob /\ model_active' = NoBlob
  BY DEF Crash
<1>2. Exclusive'
  BY <1>1 DEF Exclusive, UsesStaging, Installers
<1>3. HeadersPure'
  BY <1>1 DEF Safe, HeadersPure, Pure, NoBlob
<1>4. StagingHolds' /\ ActiveHolds'
  BY <1>1 DEF StagingHolds, ActiveHolds, Installers
<1> QED
  BY <1>2, <1>3, <1>4 DEF Safe

(* The save reads the active buffer, whole or not.                         *)
LEMMA SaveStep ==
    ASSUME Types, Safe, SaveErase \/ SaveWrite \/ SaveWriteRest \/ Report
    PROVE  Safe'
<1> USE VisionAssumption
<1>1. /\ UNCHANGED <<model_staging, model_active, interp, model_lock, mpc>>
      /\ \E to \in {"write", "write_rest", "report", "idle"} :
             pc' = [pc EXCEPT !["worker"] = to]
      /\ pc["worker"] \in {"erase", "write", "write_rest", "report"}
  BY DEF SaveErase, SaveWrite, SaveWriteRest, Report, Goto, bufferVars
<1>2. /\ pc'["mqtt"] = pc["mqtt"]
      /\ pc'["worker"] \in {"write", "write_rest", "report", "idle"}
  BY <1>1 DEF Types, Installers
<1>3. Exclusive'
  BY <1>1, <1>2 DEF Safe, Exclusive, UsesStaging, Installers
<1>4. Pure(flash')
  <2>1. CASE SaveErase \/ Report
    BY <2>1 DEF SaveErase, Report, Safe, HeadersPure, Pure, NoBlob
  <2>2. CASE SaveWrite \/ SaveWriteRest
    <3>1. flash'.hdr \in {model_active.hdr, flash.hdr}
      BY <2>2 DEF SaveWrite, SaveWriteRest, Types, Blobs
    <3> QED
      BY <3>1 DEF Safe, HeadersPure, Pure
  <2> QED
    BY <2>1, <2>2
<1>5. HeadersPure'
  BY <1>1, <1>4 DEF Safe, HeadersPure, Pure
<1>6. StagingHolds' /\ ActiveHolds'
  BY <1>1, <1>2 DEF Safe, StagingHolds, ActiveHolds, Loadable, Whole, Installers
<1> QED
  BY <1>3, <1>5, <1>6 DEF Safe

(* A job and a reset fill the staging buffer, each half a step of its own. *)
LEMMA TakeJobStep ==
    ASSUME Types, Safe, TakeJob, ~shared'
    PROVE  Safe'
<1> USE VisionAssumption
<1>1. /\ pc["worker"] = "idle" /\ pc'["worker"] = "receive" /\ pc'["mqtt"] = pc["mqtt"]
      /\ pc["mqtt"] \notin UsesStaging
      /\ UNCHANGED <<model_staging, model_active, interp, model_lock, flash, mpc>>
  BY DEF TakeJob, Goto, bufferVars, Types, Installers
<1>2. Exclusive'
  <2>1. job' \in Files
    BY DEF TakeJob, Types
  <2>2. mpc # "off"
    BY DEF TakeJob, Safe, Exclusive
  <2> QED
    BY <1>1, <2>1, <2>2 DEF Safe, Exclusive, UsesStaging, Installers
<1>3. HeadersPure'
  BY <1>1 DEF Safe, HeadersPure, Pure
<1>4. StagingHolds' /\ ActiveHolds'
  BY <1>1 DEF Safe, StagingHolds, ActiveHolds, Loadable, Whole, Installers
<1> QED
  BY <1>2, <1>3, <1>4 DEF Safe

(* The download, its failure, and the wrapping of a bare .tflite.          *)
LEMMA WorkerFillStep ==
    ASSUME Types, Safe,
           Receive \/ ReceiveRest \/ DownloadFails \/ normalize_staged_download
    PROVE  Safe'
<1> USE VisionAssumption
<1>1. /\ UNCHANGED <<model_active, interp, model_lock, flash, mpc, job>>
      /\ pc["worker"] \in {"receive", "receive_rest", "normalize"}
      /\ pc'["worker"] \in {"receive_rest", "normalize", "validate", "report"}
      /\ pc'["mqtt"] = pc["mqtt"]
  BY DEF Receive, ReceiveRest, DownloadFails, normalize_staged_download, Goto, Types,
     Installers, queueVars, bufferVars
<1>2. pc["mqtt"] \notin UsesStaging /\ job \in Files
  BY <1>1 DEF Safe, Exclusive, UsesStaging
<1>3. Exclusive'
  BY <1>1, <1>2 DEF Safe, Exclusive, UsesStaging, Installers
<1>4. /\ Pure(model_staging')
      /\ pc'["worker"] \in {"receive_rest", "normalize", "validate"} =>
             model_staging'.body[1] = job
      /\ pc'["worker"] \in {"normalize", "validate"} => model_staging'.body[2] = job
  <2>1. CASE Receive
    BY <2>1 DEF Receive, Goto, Types, Installers, Pure
  <2>2. CASE ReceiveRest
    <3>1. /\ model_staging'.body[1] = model_staging.body[1]
          /\ model_staging'.body[2] = job /\ model_staging'.hdr = model_staging.hdr
      BY <2>2 DEF ReceiveRest, Types, Blobs, Payloads
    <3>2. pc["worker"] = "receive_rest"
      BY <2>2 DEF ReceiveRest, Goto
    <3> QED
      BY <3>1, <3>2 DEF Pure, Safe, HeadersPure, StagingHolds
  <2>3. CASE DownloadFails
    BY <2>3 DEF DownloadFails, Types, Installers, Pure, Safe, HeadersPure, bufferVars
  <2>4. CASE normalize_staged_download
    BY <2>4 DEF normalize_staged_download, Goto, Types, Installers, Pure, Safe,
       HeadersPure, StagingHolds, Blobs
  <2> QED
    BY <2>1, <2>2, <2>3, <2>4
<1>5. HeadersPure'
  BY <1>1, <1>4 DEF Safe, HeadersPure, Pure
<1>6. StagingHolds' /\ ActiveHolds'
  BY <1>1, <1>2, <1>4 DEF Safe, StagingHolds, ActiveHolds, Loadable, Whole, Installers,
     UsesStaging
<1> QED
  BY <1>3, <1>5, <1>6 DEF Safe

(* model-reset: the erase and the staging of the built-in model.           *)
LEMMA ResetFillStep ==
    ASSUME Types, Safe, ModelReset \/ Stage \/ StageRest \/ iotv_wrap_in_place, ~shared'
    PROVE  Safe'
<1> USE VisionAssumption
<1>1. /\ UNCHANGED <<model_active, interp, model_lock, mpc, job>>
      /\ pc["mqtt"] \in {"idle", "stage", "stage_rest", "wrap"}
      /\ pc'["mqtt"] \in {"stage", "stage_rest", "wrap", "validate"}
      /\ pc'["worker"] = pc["worker"]
  BY DEF ModelReset, Stage, StageRest, iotv_wrap_in_place, Goto, Types,
     Installers, queueVars, bufferVars
<1>2. pc["worker"] \notin UsesStaging
  BY <1>1 DEF Safe, Exclusive, UsesStaging, ModelReset, Stage, StageRest,
     iotv_wrap_in_place, Goto
<1>3. mpc # "off"
  BY <1>1 DEF Safe, Exclusive, ModelReset, Stage, StageRest, iotv_wrap_in_place, Goto,
     Installers
<1>4. Exclusive'
  BY <1>1, <1>2, <1>3 DEF Safe, Exclusive, UsesStaging, Installers
<1>5. /\ Pure(model_staging') /\ Pure(flash')
      /\ pc'["mqtt"] \in {"stage_rest", "wrap", "validate"} =>
             model_staging'.body[1] = Builtin
      /\ pc'["mqtt"] \in {"wrap", "validate"} => model_staging'.body[2] = Builtin
  <2>1. CASE ModelReset
    BY <2>1 DEF ModelReset, Goto, Types, Installers, Pure, Safe, HeadersPure, bufferVars,
       Blobs
  <2>2. CASE Stage
    <3>1. /\ model_staging'.body[1] = Builtin /\ model_staging'.hdr = model_staging.hdr
          /\ flash' = flash
      BY <2>2 DEF Stage, Types, Blobs, Payloads
    <3>2. pc'["mqtt"] = "stage_rest"
      BY <2>2 DEF Stage, Goto, Types, Installers
    <3> QED
      BY <3>1, <3>2 DEF Pure, Safe, HeadersPure
  <2>3. CASE StageRest
    <3>1. /\ model_staging'.body[1] = model_staging.body[1]
          /\ model_staging'.body[2] = Builtin /\ model_staging'.hdr = model_staging.hdr
          /\ flash' = flash
      BY <2>3 DEF StageRest, Types, Blobs, Payloads
    <3>2. pc["mqtt"] = "stage_rest"
      BY <2>3 DEF StageRest, Goto
    <3> QED
      BY <3>1, <3>2 DEF Pure, Safe, HeadersPure, StagingHolds
  <2>4. CASE iotv_wrap_in_place
    BY <2>4 DEF iotv_wrap_in_place, Goto, Types, Installers, Pure, Safe,
       HeadersPure, StagingHolds, Blobs
  <2> QED
    BY <2>1, <2>2, <2>3, <2>4
<1>6. HeadersPure'
  BY <1>1, <1>5 DEF Safe, HeadersPure, Pure
<1>7. StagingHolds' /\ ActiveHolds'
  BY <1>1, <1>2, <1>3, <1>5 DEF Safe, StagingHolds, ActiveHolds, Loadable, Whole,
     Installers, UsesStaging
<1> QED
  BY <1>4, <1>6, <1>7 DEF Safe

(* install_from_staging.  The model that loads for a trial is the one that *)
(* is copied, since the other thread cannot be at the staging buffer.      *)
LEMMA InstallerAlone ==
    ASSUME Types, Safe, NEW i \in Installers, pc[i] \in UsesStaging
    PROVE  /\ mpc # "off"
           /\ \A j \in Installers \ {i} : pc[j] \notin UsesStaging
           /\ i = "worker" => job \in Files
BY DEF Safe, Exclusive, Installers, UsesStaging

(* The CRC, before the lock is taken.                                     *)
LEMMA ValidateStep ==
    ASSUME Types, Safe, NEW i \in Installers, Validate(i)
    PROVE  Safe'
<1> USE VisionAssumption
<1>1. /\ UNCHANGED <<model_staging, model_active, interp, model_lock, flash, mpc, job>>
      /\ pc[i] = "validate" /\ pc'[i] \in {"trial", "report", "idle"}
      /\ pc'[i] = "trial" => iotv_validate(model_staging)
      /\ pc'[i] = "report" => i = "worker"
      /\ \A j \in Installers \ {i} : pc'[j] = pc[j]
  BY DEF Validate, bufferVars, queueVars, Types
<1>2. Exclusive'
  BY <1>1, InstallerAlone DEF Safe, Exclusive, UsesStaging, Installers
<1>3. HeadersPure'
  BY <1>1 DEF Safe, HeadersPure, Pure
<1>4. pc'[i] = "trial" => Whole(model_staging)
  BY <1>1, PureValid DEF Types, Safe, HeadersPure
<1>5. StagingHolds' /\ ActiveHolds'
  BY <1>1, <1>4 DEF Safe, StagingHolds, ActiveHolds, Loadable, Whole, Installers
<1> QED
  BY <1>2, <1>3, <1>5 DEF Safe

(* The candidate loads, or the interpreter goes back to the active copy.   *)
LEMMA TrialStep ==
    ASSUME Types, Safe, NEW i \in Installers, TrialLoads(i) \/ TrialFails(i)
    PROVE  Safe'
<1> USE VisionAssumption
<1>1. /\ UNCHANGED <<model_staging, model_active, flash, mpc, job>>
      /\ pc[i] = "trial" /\ model_lock = None
      /\ \A j \in Installers \ {i} : pc'[j] = pc[j]
  BY DEF TrialLoads, TrialFails, Goto, queueVars, Types
<1>2. /\ mpc # "off" /\ interp = "active" /\ Loadable(model_active) /\ Whole(model_staging)
      /\ \A j \in Installers \ {i} : pc[j] \notin UsesStaging
      /\ i = "worker" => job \in Files
  BY <1>1, InstallerAlone DEF Safe, ActiveHolds, StagingHolds, UsesStaging
<1>3. HeadersPure'
  BY <1>1 DEF Safe, HeadersPure, Pure
<1>4. CASE TrialLoads(i)
  <2>1. pc'[i] = "copy" /\ model_lock' = i /\ TRUE \in InferInit(model_staging.body)
    BY <1>4 DEF TrialLoads, Goto, Types
  <2>2. Loadable(model_staging)
    BY <2>1, <1>2 DEF Loadable, Whole, InferInit
  <2>3. Exclusive'
    BY <1>1, <1>2, <2>1 DEF Safe, Exclusive, UsesStaging, Installers
  <2>4. StagingHolds' /\ ActiveHolds'
    BY <1>1, <1>2, <2>1, <2>2 DEF Safe, StagingHolds, ActiveHolds, Loadable, Whole,
       Installers, UsesStaging
  <2> QED
    BY <1>3, <2>3, <2>4 DEF Safe
<1>5. CASE TrialFails(i)
  <2>1. /\ pc'[i] = IF i = "worker" THEN "report" ELSE "idle"
        /\ model_lock' = None
    BY <1>1, <1>5 DEF TrialFails, Goto, Types
  <2>2. interp' = "active"
    <3>1. InferInit(model_active.body) = {TRUE}
      BY <1>2 DEF Loadable, Whole, InferInit
    <3> QED
      BY <3>1, <1>5 DEF TrialFails, InterpAfter
  <2>3. Exclusive'
    BY <1>1, <1>2, <2>1 DEF Safe, Exclusive, UsesStaging, Installers
  <2>4. StagingHolds' /\ ActiveHolds'
    BY <1>1, <1>2, <2>1, <2>2 DEF Safe, StagingHolds, ActiveHolds, Loadable, Whole,
       Installers, UsesStaging
  <2> QED
    BY <1>3, <2>3, <2>4 DEF Safe
<1> QED
  BY <1>4, <1>5

(* The copy over the active buffer, under the lock.                        *)
LEMMA CopyStep ==
    ASSUME Types, Safe, NEW i \in Installers, Copy(i) \/ CopyRest(i)
    PROVE  Safe'
<1> USE VisionAssumption
<1>1. /\ UNCHANGED <<model_staging, interp, model_lock, flash, mpc, job>>
      /\ pc[i] \in {"copy", "copy_rest"} /\ pc'[i] \in {"copy_rest", "reload"}
      /\ pc'[i] = "reload" <=> pc[i] = "copy_rest"
      /\ \A j \in Installers \ {i} : pc'[j] = pc[j]
  BY DEF Copy, CopyRest, Goto, queueVars, Types
<1>2. /\ mpc # "off" /\ model_lock = i /\ Loadable(model_staging)
      /\ \A j \in Installers \ {i} : pc[j] \notin UsesStaging \cup {"reload"}
      /\ i = "worker" => job \in Files
  BY <1>1, InstallerAlone DEF Safe, Exclusive, StagingHolds, UsesStaging
<1>3. Exclusive'
  BY <1>1, <1>2 DEF Safe, Exclusive, UsesStaging, Installers
<1>4. /\ Pure(model_active')
      /\ pc'[i] = "copy_rest" => /\ model_active'.hdr = model_staging.hdr
                                 /\ model_active'.body[1] = model_staging.body[1]
      /\ pc'[i] = "reload" => Loadable(model_active')
  <2>1. CASE Copy(i)
    BY <2>1, <1>1 DEF Copy, Goto, Types, Pure, Safe, HeadersPure
  <2>2. CASE CopyRest(i)
    <3>1. /\ model_active'.hdr = model_staging.hdr
          /\ model_active'.body = <<model_staging.body[1], model_staging.body[2]>>
          /\ pc[i] = "copy_rest"
      <4>1. /\ model_active'.hdr = model_active.hdr
            /\ model_active'.body = <<model_active.body[1], model_staging.body[2]>>
        BY <2>2 DEF CopyRest, Types, Blobs, Payloads
      <4>2. pc[i] = "copy_rest"
        BY <2>2 DEF CopyRest, Goto
      <4> QED
        BY <4>1, <4>2 DEF Safe, ActiveHolds
    <3>2. model_active'.body = model_staging.body
      BY <3>1 DEF Types, Blobs, Payloads
    <3> QED
      BY <1>1, <1>2, <3>1, <3>2 DEF Pure, Loadable, Whole, Safe, HeadersPure
  <2> QED
    BY <2>1, <2>2
<1>5. HeadersPure'
  BY <1>1, <1>4 DEF Safe, HeadersPure, Pure
<1>6. StagingHolds'
  BY <1>1, <1>2 DEF Safe, StagingHolds, Loadable, Whole, Installers, UsesStaging
<1>7. ActiveHolds'
  BY <1>1, <1>2, <1>4 DEF Safe, ActiveHolds, Loadable, Whole, Installers, UsesStaging
<1> QED
  BY <1>3, <1>5, <1>6, <1>7 DEF Safe

(* The interpreter on the copy, and the end of the lock.                   *)
LEMMA ReloadStep ==
    ASSUME Types, Safe, NEW i \in Installers, Reload(i)
    PROVE  Safe'
<1> USE VisionAssumption
<1>1. /\ UNCHANGED <<model_staging, model_active, flash, mpc, job>>
      /\ pc[i] = "reload" /\ pc'[i] = IF i = "worker" THEN "erase" ELSE "idle"
      /\ model_lock' = None
      /\ \A j \in Installers \ {i} : pc'[j] = pc[j]
  BY DEF Reload, Goto, queueVars, Types
<1>2. /\ mpc # "off" /\ model_lock = i /\ Loadable(model_active)
      /\ \A j \in Installers \ {i} : pc[j] \notin {"copy", "copy_rest", "reload"}
  BY <1>1 DEF Safe, Exclusive, ActiveHolds
<1>3. interp' = "active"
  <2>1. InferInit(model_active.body) = {TRUE}
    BY <1>2 DEF Loadable, Whole, InferInit
  <2> QED
    BY <2>1 DEF Reload, InterpAfter
<1>4. Exclusive'
  BY <1>1, <1>2 DEF Safe, Exclusive, UsesStaging, Installers
<1>5. HeadersPure'
  BY <1>1 DEF Safe, HeadersPure, Pure
<1>6. StagingHolds' /\ ActiveHolds'
  BY <1>1, <1>2, <1>3 DEF Safe, StagingHolds, ActiveHolds, Loadable, Whole, Installers
<1> QED
  BY <1>4, <1>5, <1>6 DEF Safe

----------------------------------------------------------------------------

(* Every step keeps the invariant; a step that overlaps job and reset sets *)
(* shared, for good.                                                       *)
LEMMA ModelStep == ModelInv /\ [Next]_vars => ModelInv'
<1> SUFFICES ASSUME ModelInv, [Next]_vars PROVE ModelInv'
  OBVIOUS
<1>1. Types /\ Types'
  BY TypesStep DEF ModelInv
<1>2. ASSUME ~shared' PROVE Safe'
  <2>1. ~shared
    BY <1>2 DEF Next, Boot, Connect, Disconnect, drain_model_results, queue_model_job,
       Worker, TakeJob, Receive, ReceiveRest, DownloadFails, normalize_staged_download,
       Validate, TrialLoads, TrialFails, Copy, CopyRest, Reload, SaveErase, SaveWrite,
       SaveWriteRest, Report, ModelReset, Resetting, Stage, StageRest,
       iotv_wrap_in_place, Crash, historyVars, vars
  <2>2. Safe
    BY <2>1 DEF ModelInv, Safe
  <2> QED
    BY <1>1, <1>2, <2>2, OutsideStep, BootStep, CrashStep, SaveStep, TakeJobStep,
       WorkerFillStep, ResetFillStep, ValidateStep, TrialStep, CopyStep, ReloadStep
       DEF Next, Worker, Resetting, Installers
<1> QED
  BY <1>1, <1>2 DEF ModelInv, Safe

(* "A bad push rolls back to the still-intact active copy": whenever main()*)
(* can score a frame, the interpreter runs one whole, loadable model out   *)
(* of the active buffer, whatever was pushed or stored and however many    *)
(* restarts and resets, unless a reset and a download shared the staging   *)
(* buffer (install_from_staging, model_store_load).                        *)
THEOREM AlwaysServesWhole == Spec => []ServesWhole
<1>1. ModelInv => ServesWhole
  BY DEF ModelInv, Safe, ActiveHolds, Loadable, Whole, ServesWhole, InferInit
<1>2. QED
  BY <1>1, ModelInit, ModelStep, PTL DEF Spec

(* A stored model that passes the CRC is whole, wherever a crash, a failed *)
(* flash operation or an install over the buffer being saved cut the save  *)
(* (model_store_save).                                                     *)
THEOREM StoredIsWhole == Spec => []FlashWhole
<1>1. ModelInv => FlashWhole
  BY PureValid DEF ModelInv, Safe, Types, HeadersPure, FlashWhole
<1>2. QED
  BY <1>1, ModelInit, ModelStep, PTL DEF Spec
----------------------------------------------------------------------------

(***************************************************************************)
(* The jobs: a file is in at most one place, the queue, the worker or the  *)
(* results, and its fate says which.  TypeOK needs it, since a result is   *)
(* made of the file the worker is at; so do AnswersTrue and StoreAgrees,   *)
(* since it is what makes a file new to the active buffer and to flash     *)
(* until its own job copies it there.                                      *)
(***************************************************************************)
BeforeOk == {"receive", "receive_rest", "normalize", "validate", "trial", "copy",
             "copy_rest", "reload"}

AtWork ==
    /\ pc["worker"] # "idle" => job \in Files /\ fate[job] = "running"
    /\ \A f \in Files : fate[f] = "running" => f = job /\ pc["worker"] # "idle"
    /\ pc["worker"] \in BeforeOk => ~ok
    /\ pc["worker"] \in {"erase", "write", "write_rest"} => ok

Waiting ==
    /\ \A n \in 1 .. Len(model_jobq) : fate[model_jobq[n]] = "queued"
    /\ \A m, n \in 1 .. Len(model_jobq) : m # n => model_jobq[m] # model_jobq[n]

Finished == \A n \in 1 .. Len(model_resq) : fate[model_resq[n].file] \in {"done", "failed"}

Threads ==
    /\ mpc = "off" => model_jobq = <<>> /\ \A i \in Installers : pc[i] = "idle"
    /\ pc["worker"] \in BeforeOk \cup {"idle", "erase", "write", "write_rest", "report"}
    /\ pc["mqtt"] \in {"idle", "stage", "stage_rest", "wrap", "validate", "trial", "copy",
                       "copy_rest", "reload"}
    /\ shared => undermined

Jobs == AtWork /\ Waiting /\ Finished /\ Threads

Rest ==
    /\ model_src \in {"none", "builtin", "flash", "cloud"}
    /\ interp \in {"staging", "active", None}
    /\ ok \in BOOLEAN
    /\ model_resq \in Seq(Results) /\ Len(model_resq) <= QueueLen
    /\ Len(model_jobq) <= QueueLen
    /\ mpc \in {"off", "offline", "online"}
    /\ fate \in [Files -> Fates]
    /\ shared \in BOOLEAN /\ undermined \in BOOLEAN /\ unread \in BOOLEAN
    /\ resets \in 0 .. MaxResets /\ crashes \in 0 .. MaxCrashes

(* TypeOK is the types of the invariant above and those of the rest.       *)
LEMMA TypeSplit == TypeOK <=> Types /\ Rest
BY DEF TypeOK, Types, Rest

(* What the worker takes is the head of its queue.                         *)
LEMMA JobTaken ==
    ASSUME TypeOK, TakeJob
    PROVE  /\ job' \in Files /\ job' = model_jobq[1] /\ Len(model_jobq) >= 1
           /\ Len(model_jobq') = Len(model_jobq) - 1
           /\ \A n \in 1 .. Len(model_jobq') : model_jobq'[n] = model_jobq[n + 1]
           /\ fate' = [fate EXCEPT ![job'] = "running"]
<1>1. model_jobq \in Seq(Files) /\ model_jobq # <<>> /\ model_jobq' = Tail(model_jobq)
  BY DEF TakeJob, TypeOK
<1>2. Len(model_jobq') = Len(model_jobq) - 1 /\ Len(model_jobq) >= 1
  BY <1>1
<1>3. job' = model_jobq[1] /\ model_jobq[1] \in Files
  BY <1>1 DEF TakeJob
<1>4. \A n \in 1 .. Len(model_jobq') : model_jobq'[n] = model_jobq[n + 1]
  BY <1>1, <1>2
<1> QED
  BY <1>2, <1>3, <1>4 DEF TakeJob

(* What a result says, and of which file.                                  *)
LEMMA Reported ==
    ASSUME TypeOK, Jobs, Report
    PROVE  /\ job \in Files /\ fate[job] = "running"
           /\ \/ /\ Len(model_resq) < QueueLen
                 /\ model_resq' = Append(model_resq, [file |-> job, ok |-> ok])
                 /\ [file |-> job, ok |-> ok] \in Results
                 /\ fate' = [fate EXCEPT ![job] = IF ok THEN "done" ELSE "failed"]
              \/ /\ UNCHANGED model_resq
                 /\ fate' = [fate EXCEPT ![job] = "unanswered"]
<1>1. job \in Files /\ fate[job] = "running"
  BY DEF Report, Goto, Jobs, AtWork
<1>2. ok \in BOOLEAN
  BY DEF TypeOK
<1>3. [file |-> job, ok |-> ok] \in Results
  BY <1>1, <1>2 DEF Results
<1> QED
  BY <1>1, <1>3 DEF Report

(* Every step keeps the types of the rest.                                 *)
LEMMA RestStep == TypeOK /\ Jobs /\ [Next]_vars => Rest'
<1> SUFFICES ASSUME TypeOK, Jobs, [Next]_vars PROVE Rest'
  OBVIOUS
<1> USE VisionAssumption
<1>0. Rest
  BY TypeSplit
<1>1. CASE Boot
  <2>1. unread' \in BOOLEAN
    <3>1. iotv_validate(flash) \in BOOLEAN
      BY DEF iotv_validate
    <3> QED
      BY <1>1, <3>1 DEF Boot
  <2>2. model_src' \in {"flash", "builtin"} /\ mpc' = "offline"
    BY <1>1 DEF Boot, RunBuiltin
  <2> QED
    BY <1>0, <1>1, <2>1, <2>2 DEF Boot, Rest, threadVars, queueVars
<1>2. CASE Connect \/ Disconnect \/ UNCHANGED vars
  BY <1>0, <1>2 DEF Connect, Disconnect, Rest, bufferVars, threadVars, queueVars, historyVars,
     vars
<1>3. CASE drain_model_results
  <2>1. model_resq' = <<>> /\ fate' \in [Files -> Fates]
    BY <1>3, <1>0 DEF drain_model_results, Rest, Fates
  <2>2. Len(model_resq') <= QueueLen /\ model_resq' \in Seq(Results)
    BY <2>1
  <2> QED
    BY <1>0, <1>3, <2>1, <2>2 DEF drain_model_results, Rest, bufferVars, threadVars, historyVars
<1>4. ASSUME NEW f \in Files, queue_model_job(f) PROVE Rest'
  <2>1. fate' \in [Files -> Fates]
    BY <1>0, <1>4 DEF queue_model_job, Rest, Fates
  <2>2. Len(model_jobq') <= QueueLen
    BY <1>0, <1>4 DEF queue_model_job, Rest, TypeOK
  <2> QED
    BY <1>0, <1>4, <2>1, <2>2 DEF queue_model_job, Rest, bufferVars, threadVars, historyVars
<1>5. CASE TakeJob
  <2>1. fate' \in [Files -> Fates]
    BY <1>0, <1>5, JobTaken DEF Rest, Fates
  <2>2. Len(model_jobq') <= QueueLen
    BY <1>0, <1>5, JobTaken DEF Rest, TypeOK
  <2>3. shared' \in BOOLEAN /\ undermined' \in BOOLEAN /\ ok' \in BOOLEAN
    BY <1>0, <1>5 DEF Rest, TakeJob
  <2> QED
    BY <1>0, <1>5, <2>1, <2>2, <2>3 DEF TakeJob, Rest, bufferVars
<1>6. CASE \/ Receive \/ ReceiveRest \/ DownloadFails \/ normalize_staged_download
           \/ Stage \/ StageRest \/ iotv_wrap_in_place \/ SaveWrite \/ SaveWriteRest
           \/ \E i \in Installers : Validate(i)
  BY <1>0, <1>6 DEF Receive, ReceiveRest, DownloadFails, normalize_staged_download, Stage,
     StageRest, iotv_wrap_in_place, SaveWrite, SaveWriteRest, Validate, Rest, bufferVars,
     queueVars, historyVars
<1>7. CASE Report
  <2>1. model_resq' \in Seq(Results) /\ Len(model_resq') <= QueueLen
    BY <1>0, <1>7, Reported DEF Rest
  <2>2. fate' \in [Files -> Fates]
    BY <1>0, <1>7, Reported DEF Rest, Fates
  <2> QED
    BY <1>0, <1>7, <2>1, <2>2 DEF Report, Rest, bufferVars, historyVars
<1>8. ASSUME NEW i \in Installers, TrialLoads(i) \/ TrialFails(i) \/ Copy(i) \/ CopyRest(i)
      PROVE  Rest'
  <2>1. CASE TrialLoads(i)
    BY <1>0, <2>1 DEF TrialLoads, Rest, queueVars, historyVars
  <2>2. CASE TrialFails(i)
    <3>1. interp' \in {"staging", "active", None}
      BY <1>0, <2>2 DEF TrialFails, InterpAfter, Rest
    <3> QED
      BY <1>0, <2>2, <3>1 DEF TrialFails, Rest, queueVars, historyVars
  <2>3. CASE Copy(i)
    BY <1>0, <2>3 DEF Copy, Rest, queueVars, historyVars
  <2>4. CASE CopyRest(i)
    BY <1>0, <2>4 DEF CopyRest, Rest, queueVars, historyVars
  <2> QED
    BY <1>8, <2>1, <2>2, <2>3, <2>4
<1>9. ASSUME NEW i \in Installers, Reload(i) PROVE Rest'
  <2>1. ok' \in BOOLEAN
    BY <1>9 DEF Reload
  <2> QED
    BY <1>0, <1>9, <2>1 DEF Reload, InterpAfter, Rest, queueVars, historyVars
<1>10. CASE SaveErase
  <2>1. undermined' \in BOOLEAN /\ unread' \in BOOLEAN
    BY <1>0, <1>10 DEF SaveErase, Rest
  <2> QED
    BY <1>0, <1>10, <2>1 DEF SaveErase, Rest, queueVars, bufferVars
<1>11. CASE ModelReset
  <2>1. undermined' \in BOOLEAN /\ shared' \in BOOLEAN /\ unread' \in BOOLEAN
    BY <1>0, <1>11 DEF ModelReset, Rest
  <2>2. resets' \in 0 .. MaxResets
    BY <1>0, <1>11 DEF ModelReset, Rest
  <2> QED
    BY <1>0, <1>11, <2>1, <2>2 DEF ModelReset, Rest, queueVars, bufferVars
<1>12. CASE Crash
  <2>1. fate' \in [Files -> Fates] /\ crashes' \in 0 .. MaxCrashes
    BY <1>0, <1>12 DEF Crash, Rest, Fates
  <2>2. /\ model_jobq' = <<>> /\ model_resq' = <<>>
        /\ ok' \in BOOLEAN /\ unread' \in BOOLEAN
    BY <1>12 DEF Crash
  <2>3. /\ model_src' = "none" /\ interp' = None /\ mpc' = "off"
        /\ UNCHANGED <<shared, undermined, resets>>
    BY <1>12 DEF Crash
  <2> QED
    BY <1>0, <2>1, <2>2, <2>3 DEF Rest
<1> QED
  BY <1>1, <1>2, <1>3, <1>4, <1>5, <1>6, <1>7, <1>8, <1>9, <1>10, <1>11, <1>12
     DEF Next, Worker, Resetting, Installers

(* Where a step of the worker, or of a reset, goes.                        *)
WorkerPcs == BeforeOk \cup {"idle", "erase", "write", "write_rest", "report"}
ResetPcs == {"idle", "stage", "stage_rest", "wrap", "validate", "trial", "copy", "copy_rest",
             "reload"}

(* A step of the worker moves the worker only, and none begins it but a    *)
(* job.                                                                    *)
LEMMA WorkerMoves ==
    ASSUME TypeOK, Worker
    PROVE  /\ pc'["worker"] \in WorkerPcs /\ pc'["mqtt"] = pc["mqtt"] /\ mpc' = mpc
           /\ pc["worker"] # "idle" \/ model_jobq # <<>>
           /\ model_jobq = <<>> => model_jobq' = <<>>
           /\ shared => shared'
           /\ undermined => undermined'
<1> USE DEF Goto, Types, Installers, queueVars, historyVars, WorkerPcs, BeforeOk, TypeOK
<1>1. CASE TakeJob
  BY <1>1 DEF TakeJob
<1>2. CASE \/ Receive \/ ReceiveRest \/ DownloadFails \/ normalize_staged_download
           \/ SaveErase \/ SaveWrite \/ SaveWriteRest \/ Report
  BY <1>2 DEF Receive, ReceiveRest, DownloadFails, normalize_staged_download, SaveErase,
     SaveWrite, SaveWriteRest, Report
<1>3. CASE \/ Validate("worker") \/ TrialLoads("worker") \/ TrialFails("worker")
           \/ Copy("worker") \/ CopyRest("worker") \/ Reload("worker")
  BY <1>3 DEF Validate, TrialLoads, TrialFails, Copy, CopyRest, Reload
<1> QED
  BY <1>1, <1>2, <1>3 DEF Worker

(* A step of model-reset moves the MQTT thread only, and leaves the jobs   *)
(* alone.                                                                  *)
LEMMA ResetMoves ==
    ASSUME TypeOK, ModelReset \/ Resetting
    PROVE  /\ pc'["mqtt"] \in ResetPcs /\ pc'["worker"] = pc["worker"] /\ mpc' = mpc
           /\ pc["mqtt"] # "idle" \/ mpc # "off"
           /\ UNCHANGED <<job, queueVars, crashes>>
           /\ shared => shared'
           /\ undermined => undermined'
           /\ ok' = ok
<1> USE DEF Goto, Types, Installers, queueVars, historyVars, ResetPcs, TypeOK
<1>1. CASE ModelReset
  BY <1>1 DEF ModelReset
<1>2. CASE Stage \/ StageRest \/ iotv_wrap_in_place
  BY <1>2 DEF Stage, StageRest, iotv_wrap_in_place
<1>3. CASE Validate("mqtt") \/ TrialLoads("mqtt") \/ TrialFails("mqtt")
           \/ Copy("mqtt") \/ CopyRest("mqtt")
  BY <1>3 DEF Validate, TrialLoads, TrialFails, Copy, CopyRest
<1>4. CASE Reload("mqtt")
  BY <1>4 DEF Reload
<1> QED
  BY <1>1, <1>2, <1>3, <1>4 DEF Resetting

(* What the step does to shared and undermined: the two overlap only where *)
(* both are set.                                                           *)
LEMMA OverlapSeen ==
    ASSUME TypeOK, Threads, [Next]_vars
    PROVE  shared' => undermined'
<1>1. CASE TakeJob
  BY <1>1 DEF TakeJob, Threads, UsesStaging
<1>2. CASE ModelReset
  BY <1>2 DEF ModelReset, Threads, UsesStaging
<1>3. CASE SaveErase
  BY <1>3 DEF SaveErase, Threads
<1>4. CASE UNCHANGED <<shared, undermined>>
  BY <1>4 DEF Threads
<1> QED
  BY <1>1, <1>2, <1>3, <1>4 DEF Next, Worker, Resetting, Boot, Connect, Disconnect,
     drain_model_results, queue_model_job, Receive, ReceiveRest, DownloadFails,
     normalize_staged_download, Validate, TrialLoads, TrialFails, Copy, CopyRest, Reload,
     SaveWrite, SaveWriteRest, Report, Stage, StageRest, iotv_wrap_in_place, Crash,
     historyVars, vars

(* Every step keeps the threads in their code.                             *)
LEMMA ThreadsStep == TypeOK /\ Threads /\ [Next]_vars => Threads'
<1> SUFFICES ASSUME TypeOK, Threads, [Next]_vars PROVE Threads'
  OBVIOUS
<1>0. shared' => undermined'
  BY OverlapSeen
<1>1. CASE Boot \/ Connect \/ Disconnect \/ drain_model_results \/ UNCHANGED vars
           \/ \E f \in Files : queue_model_job(f)
  BY <1>0, <1>1 DEF Boot, Connect, Disconnect, drain_model_results, queue_model_job, Threads,
     bufferVars, threadVars, queueVars, historyVars, vars
<1>2. CASE Worker
  BY <1>0, <1>2, WorkerMoves DEF Threads, WorkerPcs, Installers
<1>3. CASE ModelReset \/ Resetting
  BY <1>0, <1>3, ResetMoves DEF Threads, ResetPcs, Installers, queueVars
<1>4. CASE Crash
  BY <1>0, <1>4 DEF Crash, Threads, Installers
<1> QED
  BY <1>1, <1>2, <1>3, <1>4 DEF Next

(* The queue: a file is queued when it is new, and waits until the worker  *)
(* takes it.                                                               *)
LEMMA WaitingStep == TypeOK /\ Jobs /\ [Next]_vars => Waiting'
<1> SUFFICES ASSUME TypeOK, Jobs, [Next]_vars PROVE Waiting'
  OBVIOUS
<1>0. /\ model_jobq \in Seq(Files) /\ fate \in [Files -> Fates] /\ Waiting
      /\ \A n \in 1 .. Len(model_jobq) : model_jobq[n] \in Files
  BY DEF TypeOK, Jobs
<1>1. CASE UNCHANGED <<model_jobq, fate>>
  BY <1>0, <1>1 DEF Waiting
<1>2. CASE drain_model_results
  <2>1. ASSUME NEW f \in Files, fate[f] = "queued" PROVE fate'[f] = "queued"
    <3> DEFINE sent == {model_resq[n] : n \in DOMAIN model_resq}
    <3>1. \A b \in BOOLEAN : [file |-> f, ok |-> b] \notin sent
      <4> SUFFICES ASSUME NEW b \in BOOLEAN, NEW n \in DOMAIN model_resq,
                          model_resq[n] = [file |-> f, ok |-> b]
                   PROVE  FALSE
        OBVIOUS
      <4>1. n \in 1 .. Len(model_resq)
        BY DEF TypeOK
      <4>2. fate[model_resq[n].file] \in {"done", "failed"}
        BY <4>1 DEF Jobs, Finished
      <4> QED
        BY <2>1, <4>2
    <3>2. fate' = [g \in Files |-> IF [file |-> g, ok |-> TRUE] \in sent THEN "acked"
                                   ELSE IF [file |-> g, ok |-> FALSE] \in sent THEN "nacked"
                                   ELSE fate[g]]
      BY <1>2 DEF drain_model_results
    <3>3. [file |-> f, ok |-> TRUE] \notin sent /\ [file |-> f, ok |-> FALSE] \notin sent
      BY <3>1
    <3> HIDE DEF sent
    <3> QED
      BY <2>1, <3>2, <3>3
  <2>2. model_jobq' = model_jobq
    BY <1>2 DEF drain_model_results
  <2> QED
    BY <1>0, <2>1, <2>2 DEF Waiting
<1>3. ASSUME NEW f \in Files, queue_model_job(f) PROVE Waiting'
  <2>1. fate[f] = "new"
    BY <1>3 DEF queue_model_job
  <2>2. CASE model_jobq' = Append(model_jobq, f) /\ fate' = [fate EXCEPT ![f] = "queued"]
    <3>1. /\ Len(model_jobq') = Len(model_jobq) + 1
          /\ model_jobq'[Len(model_jobq) + 1] = f
          /\ \A n \in 1 .. Len(model_jobq) : /\ model_jobq'[n] = model_jobq[n]
                                             /\ model_jobq[n] # f
      BY <1>0, <2>1, <2>2 DEF Waiting
    <3> QED
      BY <1>0, <2>2, <3>1 DEF Waiting
  <2>3. CASE UNCHANGED model_jobq /\ fate' = [fate EXCEPT ![f] = "busy"]
    <3>1. \A n \in 1 .. Len(model_jobq) : model_jobq[n] # f
      BY <1>0, <2>1 DEF Waiting
    <3> QED
      BY <1>0, <2>3, <3>1 DEF Waiting
  <2> QED
    BY <1>3, <2>2, <2>3 DEF queue_model_job
<1>4. CASE TakeJob
  <2>1. \A n \in 1 .. Len(model_jobq') : /\ n + 1 \in 1 .. Len(model_jobq)
                                         /\ model_jobq'[n] = model_jobq[n + 1]
                                         /\ model_jobq[n + 1] # job'
    <3>1. /\ Len(model_jobq) \in Nat /\ Len(model_jobq') = Len(model_jobq) - 1
          /\ job' = model_jobq[1] /\ Len(model_jobq) >= 1
      BY <1>0, <1>4, JobTaken
    <3>2. \A n \in 1 .. Len(model_jobq') : n + 1 \in 1 .. Len(model_jobq) /\ n + 1 # 1
      BY <3>1
    <3>3. 1 \in 1 .. Len(model_jobq)
      BY <3>1
    <3>4. \A n \in 1 .. Len(model_jobq') : model_jobq'[n] = model_jobq[n + 1]
      BY <1>4, JobTaken
    <3>5. ASSUME NEW n \in 1 .. Len(model_jobq') PROVE model_jobq[n + 1] # job'
      <4>1. \A m, k \in 1 .. Len(model_jobq) : m # k => model_jobq[m] # model_jobq[k]
        BY <1>0 DEF Waiting
      <4>2. n + 1 \in 1 .. Len(model_jobq) /\ n + 1 # 1
        BY <3>2
      <4>3. model_jobq[n + 1] # model_jobq[1]
        BY <3>3, <4>1, <4>2
      <4> QED
        BY <3>1, <4>3
    <3> QED
      BY <3>2, <3>4, <3>5
  <2>2. fate' = [fate EXCEPT ![job'] = "running"]
    BY <1>4 DEF TakeJob
  <2>3. ASSUME NEW n \in 1 .. Len(model_jobq') PROVE fate'[model_jobq'[n]] = "queued"
    <3>1. /\ model_jobq[n + 1] \in Files /\ fate[model_jobq[n + 1]] = "queued"
          /\ model_jobq[n + 1] # job'
      BY <1>0, <2>1 DEF Waiting
    <3>2. model_jobq'[n] = model_jobq[n + 1]
      BY <2>1
    <3> QED
      BY <1>0, <2>2, <3>1, <3>2
  <2>4. \A m, n \in 1 .. Len(model_jobq') : m # n => model_jobq'[m] # model_jobq'[n]
    <3>1. \A m, n \in 1 .. Len(model_jobq') : m # n => m + 1 # n + 1
      OBVIOUS
    <3> QED
      BY <1>0, <2>1, <3>1 DEF Waiting
  <2> QED
    BY <2>3, <2>4 DEF Waiting
<1>5. CASE Report
  <2>1. model_jobq' = model_jobq /\ fate[job] = "running" /\ job \in Files
        /\ \E w \in Fates : fate' = [fate EXCEPT ![job] = w]
    BY <1>5, Reported DEF Report, Fates
  <2> QED
    BY <1>0, <2>1 DEF Waiting
<1>6. CASE Crash
  BY <1>6 DEF Crash, Waiting
<1>7. CASE Worker
  BY <1>1, <1>4, <1>5, <1>7 DEF Worker, Receive, ReceiveRest, DownloadFails,
     normalize_staged_download, Validate, TrialLoads, TrialFails, Copy, CopyRest, Reload,
     SaveErase, SaveWrite, SaveWriteRest, queueVars
<1>8. CASE Boot \/ Connect \/ Disconnect \/ UNCHANGED vars
  BY <1>1, <1>8 DEF Boot, Connect, Disconnect, queueVars, vars
<1>9. CASE ModelReset \/ Resetting
  BY <1>1, <1>9, ResetMoves DEF queueVars
<1> QED
  BY <1>2, <1>3, <1>6, <1>7, <1>8, <1>9 DEF Next

(* The results: each of a finished job, until main() has sent it.          *)
LEMMA FinishedStep == TypeOK /\ Jobs /\ [Next]_vars => Finished'
<1> SUFFICES ASSUME TypeOK, Jobs, [Next]_vars PROVE Finished'
  OBVIOUS
<1>0. /\ model_resq \in Seq(Results) /\ fate \in [Files -> Fates] /\ Finished
      /\ \A n \in 1 .. Len(model_resq) : model_resq[n].file \in Files
  <2>1. model_resq \in Seq(Results) /\ fate \in [Files -> Fates] /\ Finished
    BY DEF TypeOK, Jobs
  <2>2. \A n \in 1 .. Len(model_resq) : model_resq[n] \in Results
    BY <2>1
  <2> QED
    BY <2>1, <2>2 DEF Results
<1>1. CASE UNCHANGED <<model_resq, fate>>
  BY <1>0, <1>1 DEF Finished
<1>2. CASE drain_model_results \/ Crash
  BY <1>2 DEF drain_model_results, Crash, Finished
<1>3. ASSUME NEW f \in Files, fate[f] \notin {"done", "failed"}, UNCHANGED model_resq,
             NEW w, fate' = [fate EXCEPT ![f] = w]
      PROVE  Finished'
  <2>1. ASSUME NEW n \in 1 .. Len(model_resq')
        PROVE  fate'[model_resq'[n].file] \in {"done", "failed"}
    <3>1. /\ model_resq'[n] = model_resq[n] /\ model_resq[n].file \in Files
          /\ fate[model_resq[n].file] \in {"done", "failed"}
      BY <1>0, <1>3, <2>1 DEF Finished
    <3>2. fate'[model_resq[n].file] = fate[model_resq[n].file]
      BY <1>0, <1>3, <3>1
    <3> QED
      BY <3>1, <3>2
  <2> QED
    BY <2>1 DEF Finished
<1>4. ASSUME NEW f \in Files, queue_model_job(f) PROVE Finished'
  <2>1. /\ fate[f] = "new" /\ UNCHANGED model_resq
        /\ \E w \in Fates : fate' = [fate EXCEPT ![f] = w]
    BY <1>4 DEF queue_model_job, Fates
  <2> QED
    BY <1>3, <2>1
<1>5. CASE TakeJob
  <2>1. /\ job' \in Files /\ UNCHANGED model_resq /\ fate' = [fate EXCEPT ![job'] = "running"]
        /\ Len(model_jobq) >= 1 /\ job' = model_jobq[1] /\ Len(model_jobq) \in Nat
    BY <1>5, JobTaken DEF TakeJob, TypeOK
  <2>2. fate[job'] = "queued"
    BY <2>1 DEF Jobs, Waiting
  <2> QED
    BY <1>3, <2>1, <2>2
<1>6. CASE Report
  <2>1. /\ job \in Files /\ fate[job] = "running"
        /\ \/ /\ model_resq' = Append(model_resq, [file |-> job, ok |-> ok])
              /\ fate' = [fate EXCEPT ![job] = IF ok THEN "done" ELSE "failed"]
           \/ /\ UNCHANGED model_resq
              /\ fate' = [fate EXCEPT ![job] = "unanswered"]
    BY <1>6, Reported
  <2>2. CASE UNCHANGED model_resq
    BY <1>3, <2>1, <2>2
  <2>3. CASE /\ model_resq' = Append(model_resq, [file |-> job, ok |-> ok])
             /\ fate' = [fate EXCEPT ![job] = IF ok THEN "done" ELSE "failed"]
    <3>1. /\ Len(model_resq') = Len(model_resq) + 1 /\ Len(model_resq) \in Nat
          /\ model_resq'[Len(model_resq) + 1].file = job
          /\ \A n \in 1 .. Len(model_resq) : model_resq'[n] = model_resq[n]
      BY <1>0, <2>3
    <3>2. \A n \in 1 .. Len(model_resq) : fate'[model_resq[n].file] \in {"done", "failed"}
      BY <1>0, <2>1, <2>3 DEF Finished
    <3>3. fate'[job] \in {"done", "failed"}
      BY <1>0, <2>1, <2>3
    <3> QED
      BY <3>1, <3>2, <3>3 DEF Finished
  <2> QED
    BY <2>1, <2>2, <2>3
<1>7. CASE Worker
  BY <1>1, <1>5, <1>6, <1>7 DEF Worker, Receive, ReceiveRest, DownloadFails,
     normalize_staged_download, Validate, TrialLoads, TrialFails, Copy, CopyRest, Reload,
     SaveErase, SaveWrite, SaveWriteRest, queueVars
<1>8. CASE Boot \/ Connect \/ Disconnect \/ UNCHANGED vars
  BY <1>1, <1>8 DEF Boot, Connect, Disconnect, queueVars, vars
<1>9. CASE ModelReset \/ Resetting
  BY <1>1, <1>9, ResetMoves DEF queueVars
<1> QED
  BY <1>2, <1>4, <1>7, <1>8, <1>9 DEF Next

(* The worker: its file is the one that runs, and its result is set once   *)
(* the model is loaded from the active buffer.                             *)
LEMMA AtWorkStep == TypeOK /\ Jobs /\ [Next]_vars => AtWork'
<1> SUFFICES ASSUME TypeOK, Jobs, [Next]_vars PROVE AtWork'
  OBVIOUS
<1>0. /\ fate \in [Files -> Fates] /\ AtWork /\ Threads /\ pc \in [Installers -> Pcs]
      /\ ok \in BOOLEAN
  BY DEF TypeOK, Jobs
<1>1. CASE UNCHANGED <<fate, job, ok>> /\ pc'["worker"] = pc["worker"]
  BY <1>0, <1>1 DEF AtWork
<1>2. CASE drain_model_results
  <2>1. ASSUME NEW f \in Files PROVE fate[f] = "running" <=> fate'[f] = "running"
    <3> DEFINE sent == {model_resq[n] : n \in DOMAIN model_resq}
    <3>1. fate[f] = "running" => \A b \in BOOLEAN : [file |-> f, ok |-> b] \notin sent
      <4> SUFFICES ASSUME fate[f] = "running", NEW b \in BOOLEAN, NEW n \in DOMAIN model_resq,
                          model_resq[n] = [file |-> f, ok |-> b]
                   PROVE  FALSE
        OBVIOUS
      <4>1. n \in 1 .. Len(model_resq)
        BY DEF TypeOK
      <4>2. fate[model_resq[n].file] \in {"done", "failed"}
        BY <4>1 DEF Jobs, Finished
      <4> QED
        BY <4>2
    <3>2. fate' = [g \in Files |-> IF [file |-> g, ok |-> TRUE] \in sent THEN "acked"
                                   ELSE IF [file |-> g, ok |-> FALSE] \in sent THEN "nacked"
                                   ELSE fate[g]]
      BY <1>2 DEF drain_model_results
    <3>3. fate[f] = "running" =>
              [file |-> f, ok |-> TRUE] \notin sent /\ [file |-> f, ok |-> FALSE] \notin sent
      BY <3>1
    <3> HIDE DEF sent
    <3> QED
      BY <3>2, <3>3
  <2>2. UNCHANGED <<job, pc, ok>>
    BY <1>2 DEF drain_model_results, threadVars
  <2> QED
    BY <1>0, <2>1, <2>2 DEF AtWork
<1>3. ASSUME NEW f \in Files, queue_model_job(f) PROVE AtWork'
  <2>1. /\ UNCHANGED <<job, pc, ok>> /\ fate[f] = "new"
        /\ \E w \in Fates \ {"running"} : fate' = [fate EXCEPT ![f] = w]
    BY <1>3 DEF queue_model_job, threadVars, Fates
  <2> QED
    BY <1>0, <2>1 DEF AtWork
<1>4. CASE TakeJob
  <2>1. /\ job' \in Files /\ fate' = [fate EXCEPT ![job'] = "running"] /\ ok' = FALSE
        /\ pc["worker"] = "idle" /\ pc'["worker"] = "receive"
    BY <1>0, <1>4, JobTaken DEF TakeJob, Goto, Installers
  <2> QED
    BY <1>0, <2>1 DEF AtWork, BeforeOk
<1>5. CASE Report
  <2>1. /\ job \in Files /\ pc["worker"] = "report" /\ pc'["worker"] = "idle"
        /\ \E w \in Fates \ {"running"} : fate' = [fate EXCEPT ![job] = w]
    BY <1>0, <1>5, Reported DEF Report, Goto, Fates, Installers
  <2> QED
    BY <1>0, <2>1 DEF AtWork, BeforeOk
<1>6. CASE Crash
  BY <1>0, <1>6 DEF Crash, AtWork, Installers, BeforeOk
<1>7. CASE Reload("worker")
  <2>1. /\ UNCHANGED <<job, fate>> /\ ok' = TRUE
        /\ pc["worker"] = "reload" /\ pc'["worker"] = "erase"
    BY <1>0, <1>7 DEF Reload, Goto, queueVars, Installers
  <2> QED
    BY <1>0, <2>1 DEF AtWork, BeforeOk
<1>8. CASE SaveErase \/ SaveWrite \/ SaveWriteRest
  <2>1. /\ UNCHANGED <<job, fate, ok>>
        /\ pc["worker"] \in {"erase", "write", "write_rest"}
        /\ pc'["worker"] \in {"write", "write_rest", "report"}
    BY <1>0, <1>8 DEF SaveErase, SaveWrite, SaveWriteRest, Goto, queueVars, Installers
  <2> QED
    BY <1>0, <2>1 DEF AtWork, BeforeOk
<1>9. CASE \/ Receive \/ ReceiveRest \/ DownloadFails \/ normalize_staged_download
           \/ Validate("worker") \/ TrialLoads("worker") \/ TrialFails("worker")
           \/ Copy("worker") \/ CopyRest("worker")
  <2>1. /\ UNCHANGED <<job, fate, ok>>
        /\ pc["worker"] \in BeforeOk
        /\ pc'["worker"] \in BeforeOk \cup {"report"}
    BY <1>0, <1>9 DEF Receive, ReceiveRest, DownloadFails, normalize_staged_download, Validate,
       TrialLoads, TrialFails, Copy, CopyRest, Goto, queueVars, Installers, BeforeOk
  <2> QED
    BY <1>0, <2>1 DEF AtWork, BeforeOk
<1>10. CASE Boot \/ Connect \/ Disconnect \/ UNCHANGED vars
  BY <1>1, <1>10 DEF Boot, Connect, Disconnect, queueVars, threadVars, vars
<1>11. CASE ModelReset \/ Resetting
  BY <1>1, <1>11, ResetMoves DEF queueVars
<1> QED
  BY <1>2, <1>3, <1>4, <1>5, <1>6, <1>7, <1>8, <1>9, <1>10, <1>11 DEF Next, Worker

(* TypeOK and what the jobs are, by every step.                            *)
LEMMA JobsInit == Init => TypeOK /\ Jobs
<1> SUFFICES ASSUME Init PROVE TypeOK /\ Jobs
  OBVIOUS
<1> USE VisionAssumption
<1>1. Types
  BY ModelInit DEF ModelInv
<1>2. Rest
  <2>1. /\ Len(model_jobq) <= QueueLen /\ Len(model_resq) <= QueueLen
        /\ model_resq \in Seq(Results)
        /\ resets \in 0 .. MaxResets /\ crashes \in 0 .. MaxCrashes
    BY DEF Init
  <2>2. fate \in [Files -> Fates]
    BY DEF Init, Fates
  <2> QED
    BY <2>1, <2>2 DEF Init, Rest
<1>3. Jobs
  BY DEF Init, Jobs, AtWork, Waiting, Finished, Threads, BeforeOk, Installers
<1> QED
  BY <1>1, <1>2, <1>3, TypeSplit

(* TypeOK and Jobs are inductive together.                                 *)
LEMMA JobsStep == TypeOK /\ Jobs /\ [Next]_vars => TypeOK' /\ Jobs'
<1> SUFFICES ASSUME TypeOK, Jobs, [Next]_vars PROVE TypeOK' /\ Jobs'
  OBVIOUS
<1>1. Types' /\ Rest'
  BY TypesStep, RestStep, TypeSplit
<1>2. TypeOK'
  BY <1>1 DEF TypeOK, Types, Rest
<1>3. Jobs'
  BY ThreadsStep, WaitingStep, FinishedStep, AtWorkStep DEF Jobs
<1> QED
  BY <1>2, <1>3

(* Buffers, flash, queues and fates keep their types, and neither queue    *)
(* grows past its length, whatever the interleaving of worker, model-reset *)
(* and main() (queue_model_job, model_worker, drain_model_results).        *)
THEOREM VisionModelTyped == Spec => []TypeOK
<1>1. QED
  BY JobsInit, JobsStep, PTL DEF Spec
----------------------------------------------------------------------------

(***************************************************************************)
(* The store.  StoreAgrees holds of quiet states only; in between, flash   *)
(* follows the save and the reset.  Nothing in it that passes the CRC ever *)
(* fails to load, or a restart would run something else than what is       *)
(* stored; and no part of a file is in the active buffer or in flash until *)
(* its job has copied it there, or a job that failed would be a lie.       *)
(***************************************************************************)
Fit(b) == \E m \in Models \ Unfit : b = Blob(m)

Apart == pc["worker"] = "idle" \/ pc["mqtt"] = "idle"

StagingIs ==
    /\ pc["worker"] \in {"trial", "copy", "copy_rest"} => model_staging = Blob(job)
    /\ pc["mqtt"] \in {"trial", "copy", "copy_rest"} => model_staging = Blob(Builtin)

ActiveIs ==
    /\ mpc # "off" /\ (\A i \in Installers : pc[i] \notin {"copy_rest", "reload"}) =>
           Fit(model_active)
    /\ pc["worker"] \in {"reload", "erase", "write", "write_rest"} => model_active = Blob(job)
    /\ pc["worker"] = "report" /\ ok => model_active = Blob(job)
    /\ pc["mqtt"] = "reload" => model_active = Blob(Builtin)

FlashIs ==
    /\ iotv_validate(flash) => Fit(flash)
    /\ pc["mqtt"] # "idle" => flash.hdr = None
    /\ pc["worker"] = "write" => flash = NoBlob
    /\ pc["worker"] = "write_rest" => flash = [hdr |-> <<job, job>>, body |-> <<job, None>>]
    /\ pc["worker"] \in {"write", "write_rest"} => ~unread
    /\ (/\ mpc # "off" /\ pc["worker"] \notin {"copy_rest", "reload", "erase"}
        /\ iotv_validate(flash))
           => model_active = IF unread THEN Blob(Builtin) ELSE flash

Unseen(f) ==
    \/ fate[f] \in {"new", "queued"}
    \/ fate[f] = "running" /\ ~ok /\ pc["worker"] \notin {"copy_rest", "reload"}

Fresh == \A f \in Files : Unseen(f) => model_active.body[1] # f /\ flash.body[1] # f

Kept == Apart /\ StagingIs /\ ActiveIs /\ FlashIs /\ Fresh

StoreInv == TypeOK /\ Jobs /\ ModelInv /\ (~undermined => Kept)

(* The assumptions of the steps below.                                     *)
Before == TypeOK /\ Jobs /\ Safe /\ Kept

(* Connecting, acknowledging and queueing change neither buffer, nor       *)
(* flash, nor which files are still to come.                               *)
LEMMA KeptOutside ==
    ASSUME Before,
           \/ Connect \/ Disconnect \/ drain_model_results \/ UNCHANGED vars
           \/ \E f \in Files : queue_model_job(f)
    PROVE  Kept'
<1> USE DEF Before
<1>1. /\ UNCHANGED <<model_staging, model_active, flash, pc, job, ok, unread>>
      /\ mpc' = "off" <=> mpc = "off"
  BY DEF Connect, Disconnect, drain_model_results, queue_model_job, vars, bufferVars,
     threadVars, queueVars, historyVars
<1>2. Apart' /\ StagingIs' /\ ActiveIs' /\ FlashIs'
  BY <1>1 DEF Kept, Apart, StagingIs, ActiveIs, FlashIs
<1>3. ASSUME NEW f \in Files, Unseen(f)' PROVE Unseen(f)
  <2>1. CASE UNCHANGED fate
    BY <1>1, <1>3, <2>1 DEF Unseen
  <2>2. CASE drain_model_results
    <3>1. fate'[f] \in {"acked", "nacked", fate[f]}
      BY <2>2 DEF drain_model_results
    <3> QED
      BY <1>1, <1>3, <3>1 DEF Unseen
  <2>3. ASSUME NEW g \in Files, queue_model_job(g) PROVE Unseen(f)
    <3>1. /\ fate[g] = "new" /\ fate \in [Files -> Fates]
          /\ \E w \in {"queued", "busy"} : fate' = [fate EXCEPT ![g] = w]
      BY <2>3 DEF queue_model_job, TypeOK
    <3> QED
      BY <1>1, <1>3, <3>1 DEF Unseen
  <2> QED
    BY <2>1, <2>2, <2>3 DEF Connect, Disconnect, vars, queueVars
<1>4. Fresh'
  BY <1>1, <1>3 DEF Kept, Fresh
<1> QED
  BY <1>2, <1>4 DEF Kept

(* What a restart runs is what flash holds, if it passes the CRC.          *)
LEMMA KeptBoot ==
    ASSUME Before, Boot
    PROVE  Kept'
<1> USE VisionAssumption DEF Before
<1>1. /\ UNCHANGED <<pc, job, ok, fate, flash>> /\ mpc = "off"
      /\ pc["worker"] = "idle" /\ pc["mqtt"] = "idle"
  BY DEF Boot, threadVars, queueVars, Jobs, Threads, Installers
<1>2. Builtin \in Models \ Unfit
  BY DEF Models
<1>3. /\ Fit(model_active')
      /\ iotv_validate(flash) => model_active' = IF unread' THEN Blob(Builtin) ELSE flash
      /\ model_active' = flash \/ model_active' = Blob(Builtin)
  <2>1. CASE iotv_validate(flash)
    <3>1. Fit(flash)
      BY <2>1 DEF Kept, FlashIs
    <3>2. InferInit(flash.body) = {TRUE}
      <4>1. flash.body[1] = flash.body[2] /\ flash.body[1] \notin Unfit
        BY <3>1 DEF Fit, Blob
      <4> QED
        BY <4>1 DEF InferInit
    <3> QED
      BY <2>1, <3>1, <3>2, <1>2 DEF Boot, RunBuiltin, Fit
  <2>2. CASE ~iotv_validate(flash)
    BY <2>2, <1>2 DEF Boot, RunBuiltin, Fit
  <2> QED
    BY <2>1, <2>2
<1>4. Apart' /\ StagingIs' /\ ActiveIs'
  BY <1>1, <1>3 DEF Apart, StagingIs, ActiveIs, Fit
<1>5. FlashIs'
  BY <1>1, <1>3 DEF Kept, FlashIs, iotv_validate, Fit
<1>6. Fresh'
  BY <1>1, <1>3 DEF Kept, Fresh, Unseen, Blob
<1> QED
  BY <1>4, <1>5, <1>6 DEF Kept

(* A restart forgets the files that were on their way.                     *)
LEMMA KeptCrash ==
    ASSUME Before, Crash
    PROVE  Kept'
<1> USE VisionAssumption DEF Before
<1>1. /\ pc'["worker"] = "idle" /\ pc'["mqtt"] = "idle"
      /\ mpc' = "off" /\ flash' = flash /\ model_active' = NoBlob
  BY DEF Crash, Installers
<1>2. Apart' /\ StagingIs' /\ ActiveIs'
  BY <1>1 DEF Apart, StagingIs, ActiveIs
<1>3. FlashIs'
  BY <1>1 DEF Kept, FlashIs, iotv_validate, Fit
<1>4. ASSUME NEW f \in Files, Unseen(f)' PROVE fate[f] = "new"
  <2>1. fate'[f] = IF fate[f] \in {"queued", "running", "done", "failed"}
                   THEN "forgotten" ELSE fate[f]
    BY DEF Crash
  <2> QED
    BY <1>4, <2>1 DEF Unseen
<1>5. Fresh'
  BY <1>1, <1>4 DEF Kept, Fresh, Unseen, NoBlob, Models
<1> QED
  BY <1>2, <1>3, <1>5 DEF Kept

(* A job begins with its file new to both, and no reset under way.         *)
LEMMA KeptTakeJob ==
    ASSUME Before, TakeJob, ~undermined'
    PROVE  Kept'
<1> USE VisionAssumption DEF Before
<1>1. /\ pc["worker"] = "idle" /\ pc'["worker"] = "receive"
      /\ pc["mqtt"] = "idle" /\ pc'["mqtt"] = "idle" /\ ok' = FALSE
      /\ UNCHANGED <<model_staging, model_active, flash, mpc, unread>>
  BY DEF TakeJob, Goto, bufferVars, TypeOK, Installers
<1>2. Apart' /\ StagingIs' /\ ActiveIs' /\ FlashIs'
  BY <1>1 DEF Kept, Apart, StagingIs, ActiveIs, FlashIs, Installers
<1>3. ASSUME NEW f \in Files, Unseen(f)' PROVE Unseen(f)
  <2>1. /\ job' \in Files /\ job' = model_jobq[1] /\ Len(model_jobq) >= 1
        /\ fate' = [fate EXCEPT ![job'] = "running"] /\ Len(model_jobq) \in Nat
    BY JobTaken DEF TypeOK
  <2>2. fate[job'] = "queued"
    BY <2>1 DEF Jobs, Waiting
  <2>3. CASE f = job'
    BY <2>2, <2>3 DEF Unseen
  <2>4. CASE f # job'
    <3>1. fate'[f] = fate[f] /\ fate[f] # "running"
      BY <1>1, <2>1, <2>4 DEF Jobs, AtWork, TypeOK
    <3> QED
      BY <1>3, <3>1 DEF Unseen
  <2> QED
    BY <2>3, <2>4
<1>4. Fresh'
  BY <1>1, <1>3 DEF Kept, Fresh
<1> QED
  BY <1>2, <1>4 DEF Kept

(* The download: the active buffer and flash are as they were.             *)
LEMMA KeptFill ==
    ASSUME Before,
           Receive \/ ReceiveRest \/ DownloadFails \/ normalize_staged_download
    PROVE  Kept'
<1> USE VisionAssumption DEF Before
<1>1. /\ UNCHANGED <<model_active, flash, mpc, job, ok, fate, unread>>
      /\ pc["worker"] \in {"receive", "receive_rest", "normalize"}
      /\ pc'["worker"] \in {"receive_rest", "normalize", "validate", "report"}
      /\ pc'["mqtt"] = pc["mqtt"]
  BY DEF Receive, ReceiveRest, DownloadFails, normalize_staged_download, Goto, TypeOK,
     Installers, queueVars, bufferVars, historyVars
<1>2. pc["mqtt"] = "idle" /\ ~ok
  BY <1>1 DEF Kept, Apart, Jobs, AtWork, BeforeOk
<1>3. Apart' /\ StagingIs' /\ ActiveIs' /\ FlashIs'
  BY <1>1, <1>2 DEF Kept, Apart, StagingIs, ActiveIs, FlashIs, Installers
<1>4. Fresh'
  BY <1>1 DEF Kept, Fresh, Unseen
<1> QED
  BY <1>3, <1>4 DEF Kept

(* model-reset: flash no longer passes the CRC, from its first step.       *)
LEMMA KeptReset ==
    ASSUME Before, ModelReset \/ Stage \/ StageRest \/ iotv_wrap_in_place, ~undermined'
    PROVE  Kept'
<1> USE VisionAssumption DEF Before
<1>1. /\ UNCHANGED <<model_active, mpc, job, ok, fate>>
      /\ pc["mqtt"] \in {"idle", "stage", "stage_rest", "wrap"}
      /\ pc'["mqtt"] \in {"stage", "stage_rest", "wrap", "validate"}
      /\ pc'["worker"] = pc["worker"]
  BY DEF ModelReset, Stage, StageRest, iotv_wrap_in_place, Goto, TypeOK,
     Installers, queueVars, bufferVars
<1>2. pc["worker"] = "idle"
  <2>1. CASE ModelReset
    BY <2>1 DEF ModelReset
  <2>2. CASE Stage \/ StageRest \/ iotv_wrap_in_place
    BY <2>2 DEF Stage, StageRest, iotv_wrap_in_place, Goto, Kept, Apart
  <2> QED
    BY <2>1, <2>2
<1>3. flash'.hdr = None /\ flash'.body = flash.body
  <2>1. CASE ModelReset
    BY <2>1 DEF ModelReset, TypeOK, Blobs
  <2>2. CASE Stage \/ StageRest \/ iotv_wrap_in_place
    BY <2>2 DEF Stage, StageRest, iotv_wrap_in_place, Goto, Kept, FlashIs
  <2> QED
    BY <2>1, <2>2
<1>4. Apart' /\ StagingIs' /\ ActiveIs'
  BY <1>1, <1>2 DEF Kept, Apart, StagingIs, ActiveIs, Installers
<1>5. FlashIs'
  BY <1>1, <1>2, <1>3 DEF FlashIs, iotv_validate
<1>6. Fresh'
  BY <1>1, <1>3 DEF Kept, Fresh, Unseen
<1> QED
  BY <1>4, <1>5, <1>6 DEF Kept

(* What a thread has staged by the time it is in install_from_staging.      *)
Candidate(i) == IF i = "worker" THEN job ELSE Builtin

(* A thread that installs is the only one at work.                         *)
LEMMA InstallAlone ==
    ASSUME Before, NEW i \in Installers, pc[i] # "idle"
    PROVE  /\ \A j \in Installers \ {i} : pc[j] = "idle"
           /\ i = "mqtt" => pc["worker"] = "idle" /\ flash.hdr = None
           /\ i = "worker" => pc["mqtt"] = "idle" /\ fate[job] = "running" /\ job \in Files
           /\ mpc # "off"
           /\ Candidate(i) \in Models
BY VisionAssumption DEF Before, Kept, Apart, FlashIs, Jobs, AtWork, Threads, Installers,
   Candidate, Models

(* What passes the CRC in the staging buffer is the candidate.             *)
LEMMA KeptValidate ==
    ASSUME Before, NEW i \in Installers, Validate(i)
    PROVE  Kept'
<1> USE VisionAssumption DEF Before
<1>1. /\ UNCHANGED <<model_staging, model_active, flash, mpc, job, ok, fate, unread>>
      /\ pc[i] = "validate" /\ pc'[i] \in {"trial", "report", "idle"}
      /\ pc'[i] = "trial" => iotv_validate(model_staging)
      /\ pc'[i] = "report" => i = "worker"
      /\ \A j \in Installers \ {i} : pc'[j] = pc[j]
  BY DEF Validate, bufferVars, queueVars, historyVars, TypeOK
<1>2. /\ \A j \in Installers \ {i} : pc[j] = "idle"
      /\ i = "worker" => ~ok
  BY <1>1, InstallAlone DEF Jobs, AtWork, BeforeOk
<1>3. pc'[i] = "trial" => model_staging = Blob(Candidate(i))
  <2> SUFFICES ASSUME pc'[i] = "trial" PROVE model_staging = Blob(Candidate(i))
    OBVIOUS
  <2>1. /\ model_staging.hdr = model_staging.body
        /\ model_staging.body[1] = Candidate(i) /\ model_staging.body[2] = Candidate(i)
    BY <1>1 DEF iotv_validate, Safe, StagingHolds, Candidate, Installers
  <2>2. model_staging.body = <<Candidate(i), Candidate(i)>>
    BY <2>1 DEF TypeOK, Blobs, Payloads
  <2> QED
    BY <2>1, <2>2 DEF TypeOK, Blobs, Blob
<1>4. Apart' /\ StagingIs'
  BY <1>1, <1>2, <1>3 DEF Apart, StagingIs, Installers, Candidate
<1>5. ActiveIs' /\ FlashIs'
  BY <1>1, <1>2 DEF Kept, ActiveIs, FlashIs, Installers
<1>6. Fresh'
  BY <1>1, <1>2 DEF Kept, Fresh, Unseen, Installers
<1> QED
  BY <1>4, <1>5, <1>6 DEF Kept

(* A trial touches the interpreter only.                                   *)
LEMMA KeptTrial ==
    ASSUME Before, NEW i \in Installers, TrialLoads(i) \/ TrialFails(i)
    PROVE  Kept'
<1> USE VisionAssumption DEF Before
<1>1. /\ UNCHANGED <<model_staging, model_active, flash, mpc, job, ok, fate, unread>>
      /\ pc[i] = "trial" /\ pc'[i] \in {"copy", "report", "idle"}
      /\ pc'[i] = "report" => i = "worker"
      /\ \A j \in Installers \ {i} : pc'[j] = pc[j]
  BY DEF TrialLoads, TrialFails, Goto, queueVars, historyVars, TypeOK
<1>2. /\ \A j \in Installers \ {i} : pc[j] = "idle"
      /\ i = "worker" => ~ok
  BY <1>1, InstallAlone DEF Jobs, AtWork, BeforeOk
<1>3. Apart' /\ StagingIs'
  BY <1>1, <1>2 DEF Kept, Apart, StagingIs, Installers
<1>4. ActiveIs' /\ FlashIs'
  BY <1>1, <1>2 DEF Kept, ActiveIs, FlashIs, Installers
<1>5. Fresh'
  BY <1>1, <1>2 DEF Kept, Fresh, Unseen, Installers
<1> QED
  BY <1>3, <1>4, <1>5 DEF Kept

(* The copy: from here on the file is in the active buffer.                *)
LEMMA KeptCopy ==
    ASSUME Before, NEW i \in Installers, Copy(i) \/ CopyRest(i)
    PROVE  Kept'
<1> USE VisionAssumption DEF Before
<1>1. /\ UNCHANGED <<model_staging, flash, mpc, job, ok, fate, unread>>
      /\ pc[i] \in {"copy", "copy_rest"} /\ pc'[i] \in {"copy_rest", "reload"}
      /\ pc'[i] = "reload" <=> pc[i] = "copy_rest"
      /\ \A j \in Installers \ {i} : pc'[j] = pc[j]
  BY DEF Copy, CopyRest, Goto, queueVars, historyVars, TypeOK
<1>2. /\ \A j \in Installers \ {i} : pc[j] = "idle"
      /\ model_staging = Blob(Candidate(i))
      /\ i = "mqtt" => flash.hdr = None /\ pc["worker"] = "idle"
      /\ i = "worker" => job \in Files /\ fate[job] = "running"
  BY <1>1, InstallAlone DEF Kept, StagingIs, Candidate, Installers
<1>3. /\ model_active'.body[1] = Candidate(i)
      /\ pc'[i] = "reload" => model_active' = Blob(Candidate(i))
  <2>1. CASE Copy(i)
    BY <2>1, <1>1, <1>2 DEF Copy, Goto, Blob, TypeOK
  <2>2. CASE CopyRest(i)
    <3>1. pc[i] = "copy_rest"
      BY <2>2 DEF CopyRest, Goto
    <3>2. model_active.hdr = model_staging.hdr /\ model_active.body[1] = model_staging.body[1]
      BY <3>1 DEF Safe, ActiveHolds
    <3>3. /\ model_active'.hdr = model_active.hdr
          /\ model_active'.body = <<model_active.body[1], model_staging.body[2]>>
          /\ model_active' \in [hdr : Payloads \cup {None}, body : Payloads]
      <4>1. model_active' = [model_active EXCEPT !.body[2] = model_staging.body[2]]
        BY <2>2 DEF CopyRest
      <4>2. /\ model_staging.body[2] \in Halves
            /\ model_active \in [hdr : Payloads \cup {None}, body : Halves \X Halves]
        BY DEF TypeOK, Blobs, Payloads
      <4>3. /\ model_active'.hdr = model_active.hdr
            /\ model_active'.body = <<model_active.body[1], model_staging.body[2]>>
        BY <4>1, <4>2
      <4>4. model_active' \in Blobs
        BY <1>1, <2>2, TypesStep, TypeSplit DEF Types, Next, Worker, Resetting, Installers
      <4> QED
        BY <4>3, <4>4 DEF Blobs
    <3> QED
      BY <1>2, <3>2, <3>3 DEF Blob
  <2> QED
    BY <2>1, <2>2
<1>4. Apart' /\ StagingIs'
  BY <1>1, <1>2 DEF Kept, Apart, StagingIs, Installers
<1>5. ActiveIs'
  BY <1>1, <1>2, <1>3 DEF ActiveIs, Installers, Candidate
<1>6. FlashIs'
  BY <1>1, <1>2 DEF Kept, FlashIs, Installers, iotv_validate
<1>7. ASSUME NEW f \in Files, Unseen(f)' PROVE Unseen(f) /\ f # Candidate(i)
  BY <1>1, <1>2, <1>7 DEF Unseen, Candidate, Installers
<1>8. Fresh'
  BY <1>1, <1>3, <1>7 DEF Kept, Fresh
<1> QED
  BY <1>4, <1>5, <1>6, <1>8 DEF Kept

(* A model that has been copied and loads is fit to be stored.             *)
LEMMA KeptReload ==
    ASSUME Before, NEW i \in Installers, Reload(i)
    PROVE  Kept'
<1> USE VisionAssumption DEF Before
<1>1. /\ UNCHANGED <<model_staging, model_active, flash, mpc, job, fate, unread>>
      /\ pc[i] = "reload" /\ pc'[i] = IF i = "worker" THEN "erase" ELSE "idle"
      /\ \A j \in Installers \ {i} : pc'[j] = pc[j]
      /\ i = "worker" => ok'
      /\ i = "mqtt" => ok' = ok
  BY DEF Reload, Goto, queueVars, historyVars, TypeOK, Installers
<1>2. /\ \A j \in Installers \ {i} : pc[j] = "idle"
      /\ model_active = Blob(Candidate(i)) /\ Candidate(i) \in Models
      /\ i = "mqtt" => flash.hdr = None /\ pc["worker"] = "idle"
      /\ i = "worker" => job \in Files /\ fate[job] = "running"
  BY <1>1, InstallAlone DEF Kept, ActiveIs, Candidate, Installers
<1>3. Fit(model_active)
  <2>1. Loadable(model_active)
    BY <1>1 DEF Safe, ActiveHolds
  <2>2. Candidate(i) \notin Unfit
    BY <2>1, <1>2 DEF Loadable, Blob
  <2> QED
    BY <1>2, <2>2 DEF Fit
<1>4. Apart' /\ StagingIs'
  BY <1>1, <1>2 DEF Kept, Apart, StagingIs, Installers
<1>5. ActiveIs'
  BY <1>1, <1>2, <1>3 DEF ActiveIs, Fit, Installers, Candidate
<1>6. FlashIs'
  BY <1>1, <1>2 DEF Kept, FlashIs, Installers, iotv_validate
<1>7. ASSUME NEW f \in Files, Unseen(f)' PROVE Unseen(f)
  <2>1. fate[f] = "running" => f = job /\ pc["worker"] # "idle"
    BY DEF Jobs, AtWork
  <2> QED
    BY <1>1, <1>2, <1>7, <2>1 DEF Unseen, Installers
<1>8. Fresh'
  BY <1>1, <1>7 DEF Kept, Fresh
<1> QED
  BY <1>4, <1>5, <1>6, <1>8 DEF Kept

(* The save: what is half written does not pass the CRC.                   *)
LEMMA KeptSave ==
    ASSUME Before, SaveErase \/ SaveWrite \/ SaveWriteRest, ~undermined'
    PROVE  Kept'
<1> USE VisionAssumption DEF Before
<1>1. /\ UNCHANGED <<model_staging, model_active, mpc, job, ok, fate>>
      /\ pc["worker"] \in {"erase", "write", "write_rest"}
      /\ pc'["worker"] \in {"write", "write_rest", "report"}
      /\ pc'["mqtt"] = pc["mqtt"]
  BY DEF SaveErase, SaveWrite, SaveWriteRest, Goto, TypeOK, Installers, queueVars, bufferVars
<1>2. /\ pc["mqtt"] = "idle" /\ ok /\ job \in Files /\ fate[job] = "running" /\ mpc # "off"
      /\ model_active = Blob(job) /\ Fit(model_active)
  <2>1. pc["mqtt"] = "idle" /\ ok /\ job \in Files /\ fate[job] = "running"
    BY <1>1 DEF Kept, Apart, Jobs, AtWork
  <2>2. mpc # "off"
    BY <1>1 DEF Jobs, Threads, Installers
  <2>3. model_active = Blob(job) /\ Fit(model_active)
    BY <1>1, <2>1, <2>2 DEF Kept, ActiveIs, Installers
  <2> QED
    BY <2>1, <2>2, <2>3
<1>3. job # None
  BY <1>2 DEF Models
<1>4. \/ flash' = NoBlob /\ pc'["worker"] = "write"
      \/ /\ flash' = [hdr |-> <<job, job>>, body |-> <<job, None>>]
         /\ pc'["worker"] \in {"write_rest", "report"}
      \/ flash' = Blob(job) /\ pc'["worker"] = "report"
  <2>1. CASE SaveErase
    BY <2>1 DEF SaveErase, Goto, TypeOK, Installers
  <2>2. CASE SaveWrite
    <3>1. flash = NoBlob /\ pc'["worker"] \in {"write_rest", "report"}
      BY <2>2 DEF SaveWrite, Goto, TypeOK, Installers, Kept, FlashIs
    <3> QED
      BY <2>2, <3>1, <1>2 DEF SaveWrite, Blob, NoBlob
  <2>3. CASE SaveWriteRest
    <3>1. /\ flash = [hdr |-> <<job, job>>, body |-> <<job, None>>]
          /\ pc'["worker"] = "report"
      BY <2>3 DEF SaveWriteRest, Goto, TypeOK, Installers, Kept, FlashIs
    <3>2. flash' = [flash EXCEPT !.body[2] = job]
      BY <2>3, <1>2 DEF SaveWriteRest, Blob
    <3> QED
      BY <3>1, <3>2 DEF Blob
  <2> QED
    BY <2>1, <2>2, <2>3
<1>5. ~unread'
  <2>1. CASE SaveErase
    BY <2>1 DEF SaveErase
  <2>2. CASE SaveWrite \/ SaveWriteRest
    BY <2>2 DEF SaveWrite, SaveWriteRest, Goto, historyVars, Kept, FlashIs
  <2> QED
    BY <2>1, <2>2
<1>6. Apart' /\ StagingIs' /\ ActiveIs'
  <2>1. Apart' /\ StagingIs'
    BY <1>1, <1>2 DEF Apart, StagingIs
  <2>2. Fit(model_active)'
    BY <1>1, <1>2 DEF Fit
  <2> QED
    BY <1>1, <1>2, <2>1, <2>2 DEF ActiveIs
<1>7. FlashIs'
  <2>1. pc'["mqtt"] = "idle"
    BY <1>1, <1>2
  <2>2. CASE flash' = NoBlob /\ pc'["worker"] = "write"
    BY <1>5, <2>1, <2>2 DEF FlashIs, iotv_validate, NoBlob
  <2>3. CASE /\ flash' = [hdr |-> <<job, job>>, body |-> <<job, None>>]
             /\ pc'["worker"] \in {"write_rest", "report"}
    <3>1. flash'.hdr # flash'.body
      BY <2>3, <1>3
    <3> QED
      BY <1>1, <1>5, <2>1, <2>3, <3>1 DEF FlashIs, iotv_validate
  <2>4. CASE flash' = Blob(job) /\ pc'["worker"] = "report"
    BY <1>1, <1>2, <1>5, <2>1, <2>4 DEF FlashIs, Fit
  <2> QED
    BY <1>4, <2>2, <2>3, <2>4
<1>8. Fresh'
  <2>1. ASSUME NEW f \in Files, Unseen(f)' PROVE Unseen(f) /\ f # job
    <3>1. fate[f] = "running" => f = job
      BY DEF Jobs, AtWork
    <3> QED
      BY <1>1, <1>2, <2>1, <3>1 DEF Unseen
  <2>2. flash'.body[1] \in {None, job}
    BY <1>4 DEF NoBlob, Blob
  <2>3. None \notin Files
    BY DEF Models
  <2> QED
    BY <1>1, <2>1, <2>2, <2>3 DEF Kept, Fresh
<1> QED
  BY <1>6, <1>7, <1>8 DEF Kept

(* The report ends the job, its file no longer to come.                    *)
LEMMA KeptReport ==
    ASSUME Before, Report
    PROVE  Kept'
<1> USE VisionAssumption DEF Before
<1>1. /\ UNCHANGED <<model_staging, model_active, flash, mpc, ok, unread>>
      /\ pc["worker"] = "report" /\ pc'["worker"] = "idle" /\ pc'["mqtt"] = pc["mqtt"]
  BY DEF Report, Goto, TypeOK, Installers, bufferVars, historyVars
<1>2. pc["mqtt"] = "idle"
  BY <1>1 DEF Kept, Apart
<1>3. Apart' /\ StagingIs' /\ ActiveIs' /\ FlashIs'
  BY <1>1, <1>2 DEF Kept, Apart, StagingIs, ActiveIs, FlashIs, Installers
<1>4. ASSUME NEW f \in Files, Unseen(f)' PROVE Unseen(f)
  <2>1. \E w \in {"done", "failed", "unanswered"} : fate' = [fate EXCEPT ![job] = w]
    BY Reported
  <2>2. job \in Files /\ fate[f] = "running" => f = job
    BY <1>1 DEF Jobs, AtWork
  <2> QED
    BY <1>1, <1>4, <2>1, <2>2 DEF Unseen, TypeOK
<1>5. Fresh'
  BY <1>1, <1>4 DEF Kept, Fresh
<1> QED
  BY <1>3, <1>5 DEF Kept

(* The invariant holds at power-on.                                        *)
LEMMA StoreInit == Init => StoreInv
<1> SUFFICES ASSUME Init PROVE StoreInv
  OBVIOUS
<1> USE VisionAssumption
<1>1. TypeOK /\ Jobs /\ ModelInv
  BY JobsInit, ModelInit
<1>2. Apart /\ StagingIs /\ ActiveIs
  BY DEF Init, Apart, StagingIs, ActiveIs, Installers
<1>3. FlashIs
  <2>1. ~iotv_validate(flash) /\ pc["mqtt"] = "idle" /\ pc["worker"] = "idle"
    BY DEF Init, NoBlob, iotv_validate, Installers
  <2> QED
    BY <2>1 DEF FlashIs
<1>4. Fresh
  BY DEF Init, Fresh, NoBlob, Models
<1> QED
  BY <1>1, <1>2, <1>3, <1>4 DEF StoreInv, Kept

(* Every step keeps it; one that undermines the store says so, for good.   *)
LEMMA StoreStep == StoreInv /\ [Next]_vars => StoreInv'
<1> SUFFICES ASSUME StoreInv, [Next]_vars PROVE StoreInv'
  OBVIOUS
<1>1. TypeOK' /\ Jobs' /\ ModelInv'
  BY JobsStep, ModelStep DEF StoreInv
<1>2. ASSUME ~undermined' PROVE Kept'
  <2>1. ~undermined
    BY <1>2 DEF Next, Boot, Connect, Disconnect, drain_model_results, queue_model_job,
       Worker, TakeJob, Receive, ReceiveRest, DownloadFails, normalize_staged_download,
       Validate, TrialLoads, TrialFails, Copy, CopyRest, Reload, SaveErase, SaveWrite,
       SaveWriteRest, Report, ModelReset, Resetting, Stage, StageRest,
       iotv_wrap_in_place, Crash, historyVars, vars
  <2>2. Before
    <3>1. ~shared
      BY <2>1 DEF StoreInv, Jobs, Threads
    <3>2. Safe
      BY <3>1 DEF StoreInv, ModelInv
    <3> QED
      BY <2>1, <3>2 DEF StoreInv, Before
  <2> QED
    BY <1>2, <2>2, KeptOutside, KeptBoot, KeptCrash, KeptTakeJob, KeptFill, KeptReset,
       KeptValidate, KeptTrial, KeptCopy, KeptReload, KeptSave, KeptReport
       DEF Next, Worker, Resetting, Installers
<1> QED
  BY <1>1, <1>2 DEF StoreInv

(* When both threads are done, what flash holds and the CRC accepts is the *)
(* model that runs: after model-reset nothing, after a push the model it   *)
(* acknowledged, however restarts fell in between, unless a flash erase    *)
(* failed or a reset overlapped a job (model_store_save, model_store_erase,*)
(* install_from_staging).                                                  *)
THEOREM StoreAlwaysAgrees == Spec => []StoreAgrees
<1>1. StoreInv => StoreAgrees
  BY DEF StoreInv, Kept, FlashIs, StoreAgrees, Quiet, Installers
<1>2. QED
  BY <1>1, StoreInit, StoreStep, PTL DEF Spec

(* The acknowledgement the platform gets is true: a job reported done has  *)
(* its own file in the active buffer, one reported failed has not, whatever*)
(* came before it (model_worker, drain_model_results).                     *)
THEOREM AnswersAreTrue == Spec => AnswersTrue
<1> DEFINE A == \A f \in Files : fate[f] = "running" /\ ~undermined =>
                   /\ fate'[f] = "done" => model_active = Blob(f)
                   /\ fate'[f] = "failed" => model_active # Blob(f)
<1>1. StoreInv /\ [Next]_vars => A
  <2> SUFFICES ASSUME StoreInv, [Next]_vars, NEW f \in Files, fate[f] = "running",
                      ~undermined, fate'[f] \in {"done", "failed"}
               PROVE  /\ fate'[f] = "done" => model_active = Blob(f)
                      /\ fate'[f] = "failed" => model_active # Blob(f)
    OBVIOUS
  <2> USE DEF StoreInv
  <2>1. f = job /\ pc["worker"] # "idle"
    BY DEF Jobs, AtWork
  <2>2. Report
    <3>1. fate' # fate
      OBVIOUS
    <3>2. ~drain_model_results
      <4>1. drain_model_results => fate'[f] \in {"acked", "nacked", fate[f]}
        BY DEF drain_model_results
      <4> QED
        BY <4>1
    <3>3. \A g \in Files : ~queue_model_job(g)
      <4>1. \A g \in Files : queue_model_job(g) => fate'[f] \in {"queued", "busy", fate[f]}
        BY DEF queue_model_job, TypeOK
      <4> QED
        BY <4>1
    <3>4. ~TakeJob /\ ~Crash
      <4>1. TakeJob => pc["worker"] = "idle"
        BY DEF TakeJob, Goto
      <4>2. Crash => fate'[f] = "forgotten"
        BY DEF Crash
      <4> QED
        BY <2>1, <4>1, <4>2
    <3> QED
      BY <3>1, <3>2, <3>3, <3>4 DEF Next, Worker, Resetting, Boot, Connect, Disconnect,
         Receive, ReceiveRest, DownloadFails, normalize_staged_download, Validate, TrialLoads,
         TrialFails, Copy, CopyRest, Reload, SaveErase, SaveWrite, SaveWriteRest, ModelReset,
         Stage, StageRest, iotv_wrap_in_place, queueVars, vars
  <2>3. pc["worker"] = "report" /\ fate'[f] = (IF ok THEN "done" ELSE "failed")
    BY <2>1, <2>2, Reported DEF Report, Goto, TypeOK
  <2>4. CASE ok
    BY <2>1, <2>3, <2>4 DEF Kept, ActiveIs
  <2>5. CASE ~ok
    <3>1. Unseen(f)
      BY <2>3, <2>5 DEF Unseen
    <3>2. model_active.body[1] # f
      BY <3>1 DEF Kept, Fresh
    <3> QED
      BY <2>3, <2>5, <3>2 DEF Blob
  <2> QED
    BY <2>4, <2>5
<1>2. Spec => [][A]_vars
  BY <1>1, StoreInit, StoreStep, PTL DEF Spec
<1> QED
  BY <1>2 DEF AnswersTrue
=============================================================================
