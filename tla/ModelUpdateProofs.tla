------------------------- MODULE ModelUpdateProofs -------------------------
(* Theorems about ModelUpdate, for all models, transfer sizes, settings    *)
(* failures and numbers of restarts.                                       *)
EXTENDS ModelUpdate, TLAPS

(***************************************************************************)
(* Delivery and persistence.  What RestartKeepsModel and AckedSurvives say *)
(* of a settled device is not inductive: the invariant adds what holds in  *)
(* the middle of a push and of a reset, and while the device is down.      *)
(***************************************************************************)

Stored == IF nvs = None THEN Builtin ELSE nvs

DeliveryTypes ==
    /\ pc \in Pcs
    /\ mqtt \in {"idle", "save", "commit", "revert", "led"}
    /\ model_blob \in Blobs \cup {Builtin, None}
    /\ model_src \in {"none", "builtin", "flash", "cloud"}
    /\ nvs \in Blobs \cup {None}
    /\ labelled \in Blobs \cup {Builtin, None}
    /\ promised \subseteq Blobs \cup {Builtin}

(* Which program points have a model, and which a command half done.       *)
Installed ==
    /\ model_src = "none" <=> model_blob = None
    /\ pc \notin {"off", "exited"} => model_blob # None
    /\ pc = "off" => model_blob = None
    /\ mqtt # "idle" => Connected \/ pc = "connect"
    /\ mqtt \in {"save", "commit"} => model_blob \in Blobs

(* A restart keeps the promises at any point, and outside a push or a reset *)
(* it changes nothing.                                                      *)
Persisted ==
    promised # {} =>
        /\ Stored \in promised
        /\ mqtt = "revert" => nvs = None
        /\ mqtt \in {"idle", "led"} /\ model_blob # None => model_blob = Stored

DeliveryInv == DeliveryTypes /\ Installed /\ Persisted

(* The invariant holds of a device that has never been told anything.      *)
LEMMA DeliveryInit == Init => DeliveryInv
BY UpdateAssumption
   DEF Init, DeliveryInv, DeliveryTypes, Installed, Persisted, Stored, Pcs, Connected

(* Every step keeps it.                                                    *)
LEMMA DeliveryStep == DeliveryInv /\ [Next]_vars => DeliveryInv'
<1> SUFFICES ASSUME DeliveryInv, [Next]_vars PROVE DeliveryInv'
  OBVIOUS
<1> USE UpdateAssumption
<1> USE DEF DeliveryInv, Pcs, Connected, Stored
<1>1. CASE Boot
  <2> USE <1>1 DEF Boot, modelVars
  <2>1. DeliveryTypes' /\ Installed'
    BY DEF DeliveryTypes, Installed
  <2>2. Persisted'
    BY DEF DeliveryTypes, Installed, Persisted
  <2> QED
    BY <2>1, <2>2
<1>2. CASE BringUp \/ Connect \/ Disconnected \/ Infer \/ Label \/ Led
  <2> USE <1>2 DEF BringUp, Connect, Disconnected, Infer, Label, Led, Goto, modelVars
  <2>1. DeliveryTypes' /\ Installed'
    BY DEF DeliveryTypes, Installed
  <2>2. Persisted'
    BY DEF DeliveryTypes, Installed, Persisted
  <2> QED
    BY <2>1, <2>2
<1>3. ASSUME NEW m \in Models, Push(m) PROVE DeliveryInv'
  <2>0. Whole(m) \in Blobs
    BY DEF Whole, Blobs
  <2> USE <1>3, <2>0 DEF Push, Install, Allow, mainVars
  <2>1. DeliveryTypes' /\ Installed'
    BY DEF DeliveryTypes, Installed
  <2>2. Persisted'
    BY DEF DeliveryTypes, Installed, Persisted
  <2> QED
    BY <2>1, <2>2
<1>4. CASE Save
  <2> USE <1>4 DEF Save, mainVars, modelVars
  <2>1. DeliveryTypes' /\ Installed'
    BY DEF DeliveryTypes, Installed
  <2>2. Persisted'
    BY DEF DeliveryTypes, Installed, Persisted
  <2> QED
    BY <2>1, <2>2
<1>5. CASE Revert
  <2> USE <1>5 DEF Revert, mainVars
  <2>1. DeliveryTypes' /\ Installed'
    BY DEF DeliveryTypes, Installed
  <2>2. Persisted'
    BY DEF DeliveryTypes, Installed, Persisted
  <2> QED
    BY <2>1, <2>2
<1>6. CASE ModelCommit
  <2> USE <1>6 DEF ModelCommit, Install, Allow, mainVars, modelVars
  <2>1. DeliveryTypes' /\ Installed'
    BY DEF DeliveryTypes, Installed
  <2>2. Persisted'
    BY DEF DeliveryTypes, Installed, Persisted
  <2> QED
    BY <2>1, <2>2
<1>7. CASE ModelReset
  <2> USE <1>7 DEF ModelReset, mainVars, modelVars
  <2>1. DeliveryTypes' /\ Installed'
    BY DEF DeliveryTypes, Installed
  <2>2. Persisted'
    BY DEF DeliveryTypes, Installed, Persisted
  <2> QED
    BY <2>1, <2>2
<1>8. CASE Restart
  <2> USE <1>8 DEF Restart
  <2>1. DeliveryTypes' /\ Installed'
    BY DEF DeliveryTypes, Installed
  <2>2. Persisted'
    BY DEF DeliveryTypes, Installed, Persisted
  <2> QED
    BY <2>1, <2>2
<1>9. ASSUME \/ ModelBegin \/ LedCommanded \/ UNCHANGED vars
             \/ \E c \in Chunks : ModelData(c)
             \/ \E mode \in {"auto", "forced"} : LedCommand(mode)
      PROVE  DeliveryInv'
  <2>1. /\ UNCHANGED <<pc, labelled, model_blob, model_src, nvs, promised>>
        /\ mqtt' = mqtt \/ (Connected /\ mqtt = "idle" /\ mqtt' = "led")
                        \/ (mqtt = "led" /\ mqtt' = "idle")
    BY <1>9 DEF ModelBegin, LedCommanded, ModelData, LedCommand, mainVars, modelVars, vars
  <2>2. DeliveryTypes' /\ Installed'
    BY <2>1 DEF DeliveryTypes, Installed
  <2>3. Persisted'
    BY <2>1 DEF Persisted
  <2> QED
    BY <2>2, <2>3
<1> QED
  BY <1>1, <1>2, <1>3, <1>4, <1>5, <1>6, <1>7, <1>8, <1>9
     DEF Next, Main, Command, Answer

(* Whatever is pushed, reset, crashes or fails to be stored, outside a     *)
(* command the model a restart would bring up is the one that runs (the    *)
(* store and the load of mlmdl/blob).                                      *)
THEOREM RestartKeeps == Spec => []RestartKeepsModel
<1>1. DeliveryInv => RestartKeepsModel
  BY DEF DeliveryInv, DeliveryTypes, Installed, Persisted, RestartKeepsModel, Settled, Stored
<1>2. QED
  BY <1>1, DeliveryInit, DeliveryStep, PTL DEF Spec

(* "Persisted to NVS settings so they survive reboot": the model that runs *)
(* is one the answers so far promised, through restarts in the middle of   *)
(* anything.                                                               *)
THEOREM AckedModelSurvives == Spec => []AckedSurvives
<1>1. DeliveryInv => AckedSurvives
  BY DEF DeliveryInv, DeliveryTypes, Installed, Persisted, AckedSurvives, Settled, Stored
<1>2. QED
  BY <1>1, DeliveryInit, DeliveryStep, PTL DEF Spec

(***************************************************************************)
(* The LED.  A pass that saw "auto" and is about to set the LED is the one *)
(* way the model drives a forced LED, and LedCommanded records it.         *)
(***************************************************************************)

LedInv ==
    /\ LedForced
    /\ pc = "led" /\ led_mode = "forced" /\ mqtt # "led" => raced
    /\ mqtt = "led" => led_mode = "forced"

(* Every step keeps it.                                                    *)
LEMMA LedStep == LedInv /\ [Next]_vars => LedInv'
<1> SUFFICES ASSUME LedInv, [Next]_vars PROVE LedInv'
  OBVIOUS
<1> USE DEF LedInv, LedForced
<1>1. ASSUME UNCHANGED <<led_mode, led_by, raced>>, mqtt' = mqtt, pc' # "led"
      PROVE  LedInv'
  BY <1>1
<1>2. CASE Boot \/ BringUp \/ Connect \/ Disconnected \/ Infer
  BY <1>2, <1>1 DEF Boot, BringUp, Connect, Disconnected, Infer, Goto, ledVars
<1>3. CASE Label
  BY <1>3 DEF Label, ledVars
<1>4. CASE Led
  BY <1>4 DEF Led, Goto
<1>5. ASSUME UNCHANGED <<pc, led_mode, led_by, raced>>, mqtt # "led", mqtt' # "led"
      PROVE  LedInv'
  BY <1>5
<1>6. ASSUME \/ \E m \in Models : Push(m)
             \/ ModelBegin \/ (\E c \in Chunks : ModelData(c)) \/ ModelCommit
             \/ ModelReset \/ Save \/ Revert
      PROVE  LedInv'
  BY <1>5, <1>6 DEF Push, ModelBegin, ModelData, ModelCommit, ModelReset, Save, Revert,
                    ledVars, mainVars
<1>7. ASSUME NEW mode \in {"auto", "forced"}, LedCommand(mode) PROVE LedInv'
  BY <1>7 DEF LedCommand, mainVars
<1>8. CASE LedCommanded
  BY <1>8 DEF LedCommanded, mainVars
<1>9. CASE Restart
  BY <1>9 DEF Restart
<1>10. CASE UNCHANGED vars
  BY <1>10 DEF vars, mainVars, ledVars
<1> QED
  BY <1>2, <1>3, <1>4, <1>6, <1>7, <1>8, <1>9, <1>10 DEF Next, Main, Command, Answer

(* A forced LED stays as commanded, unless the command fell between the    *)
(* main loop's check of the mode and its use of it (cmd_led, led_apply).   *)
THEOREM LedStaysForced == Spec => []LedForced
<1>1. Init => LedInv
  BY DEF Init, LedInv, LedForced
<1>2. LedInv => LedForced
  BY DEF LedInv
<1>3. QED
  BY <1>1, <1>2, LedStep, PTL DEF Spec

(***************************************************************************)
(* The transfer.  What the buffer holds is what was sent since model-begin *)
(* as long as there was room, and a chunk too many has closed it; once it  *)
(* is committed only another model-begin opens it.                         *)
(***************************************************************************)

TransferTypes ==
    /\ xfer_b64 \in Seq(Chunks) /\ Len(xfer_b64) <= XferMax /\ xfer_open \in BOOLEAN
    /\ script \in {None, Long} \/ (script \in Seq(Chunks) /\ Len(script) <= XferMax)

OtherTypes ==
    /\ led_mode \in {"auto", "forced"} /\ led_by \in {"model", "command"}
    /\ raced \in BOOLEAN /\ crashes \in 0 .. MaxCrashes

Collected ==
    /\ script \in {None, Long} => ~xfer_open
    /\ script \notin {None, Long} => xfer_open /\ xfer_b64 = script

TransferInv == TransferTypes /\ Collected

(* Nothing sent is neither mark.                                           *)
LEMMA NothingSent == <<>> \in Seq(Chunks) /\ Len(<<>>) = 0 /\ <<>> \notin {None, Long}
<1>1. <<>> \in Seq(Chunks) /\ <<>> \in Seq(AllChunks) /\ Len(<<>>) = 0
  OBVIOUS
<1>2. None \notin Seq(AllChunks) /\ Long \notin Seq(AllChunks)
  BY UpdateAssumption
<1> QED
  BY <1>1, <1>2

(* No text is either mark.                                                 *)
LEMMA NoMark ==
    /\ \A s \in Seq(Chunks) : s \notin {None, Long}
    /\ \A b \in Blobs : Text(b) \notin {None, Long}
<1>1. \A s \in Seq(Chunks) : s \in Seq(AllChunks)
  BY UpdateAssumption
<1>2. \A b \in Blobs : Text(b) \in Seq(AllChunks)
  BY DEF Text, Blobs, AllChunks
<1> QED
  BY <1>1, <1>2, UpdateAssumption

(* A closed and empty transfer is one.                                     *)
LEMMA TransferClosed ==
    ASSUME xfer_b64 = <<>>, xfer_open = FALSE, script \in {None, Long} PROVE TransferInv
<1>1. xfer_b64 \in Seq(Chunks) /\ Len(xfer_b64) <= XferMax
  BY NothingSent, UpdateAssumption
<1>2. TransferTypes
  BY <1>1 DEF TransferTypes
<1>3. Collected
  BY DEF Collected
<1> QED
  BY <1>2, <1>3 DEF TransferInv

(* Every step keeps it.                                                    *)
LEMMA TransferStep == TransferInv /\ [Next]_vars => TransferInv'
<1> SUFFICES ASSUME TransferInv, [Next]_vars PROVE TransferInv'
  OBVIOUS
<1> USE UpdateAssumption DEF TransferInv
<1>1. CASE UNCHANGED xferVars
  BY <1>1 DEF TransferTypes, Collected, xferVars
<1>2. CASE Main \/ Answer \/ UNCHANGED vars
  BY <1>1, <1>2 DEF Main, Answer, Boot, BringUp, Connect, Disconnected, Infer, Label, Led,
     Save, Revert, LedCommanded, vars
<1>3. CASE \/ \E m \in Models : Push(m)
           \/ ModelReset \/ \E mode \in {"auto", "forced"} : LedCommand(mode)
  BY <1>1, <1>3 DEF Push, ModelReset, LedCommand
<1>4. CASE ModelBegin
  <2>1. xfer_b64' = <<>> /\ xfer_open' = TRUE /\ script' = <<>>
    BY <1>4 DEF ModelBegin
  <2>2. /\ xfer_b64' \in Seq(Chunks) /\ Len(xfer_b64') = 0 /\ script' \notin {None, Long}
        /\ xfer_b64' = script'
    BY <2>1, NothingSent
  <2>3. TransferTypes'
    BY <2>1, <2>2 DEF TransferTypes
  <2> QED
    BY <2>1, <2>2, <2>3 DEF Collected
<1>8. ASSUME xfer_b64' = <<>>, xfer_open' = FALSE, script' \in {None, Long}
      PROVE  TransferInv'
  <2>1. xfer_b64' \in Seq(Chunks) /\ Len(xfer_b64') <= XferMax
    BY <1>8, NothingSent
  <2> QED
    BY <1>8, <2>1 DEF TransferTypes, Collected
<1>5. ASSUME NEW c \in Chunks, ModelData(c) PROVE TransferInv'
  <2>1. CASE script \in {None, Long}
    <3>1. script' = script /\ Close
      BY <1>5, <2>1 DEF ModelData, Noted, Collected
    <3> QED
      BY <2>1, <3>1, <1>8 DEF Close
  <2>2. CASE script \notin {None, Long}
    <3>1. /\ script \in Seq(Chunks) /\ Len(script) \in Nat
          /\ xfer_open /\ xfer_b64 = script
          /\ script' = IF Len(script) < XferMax THEN Append(script, c) ELSE Long
      BY <1>5, <2>2 DEF ModelData, Noted, TransferTypes, Collected
    <3>2. CASE Len(script) < XferMax
      <4>1. xfer_b64' = script' /\ xfer_open' = xfer_open /\ script' = Append(script, c)
        BY <1>5, <3>1, <3>2 DEF ModelData
      <4>2. /\ script' \in Seq(Chunks) /\ Len(script') = Len(script) + 1
            /\ Len(script') <= XferMax
        BY <3>1, <3>2, <4>1
      <4>3. script' \notin {None, Long}
        BY <4>2, NoMark
      <4> QED
        BY <3>1, <4>1, <4>2, <4>3 DEF TransferTypes, Collected
    <3>3. CASE ~(Len(script) < XferMax)
      <4>1. script' = Long /\ Close
        BY <1>5, <3>1, <3>3 DEF ModelData
      <4> QED
        BY <4>1, <1>8 DEF Close
    <3> QED
      BY <3>2, <3>3
  <2> QED
    BY <2>1, <2>2
<1>6. CASE ModelCommit
  <2>1. CASE xfer_open /\ xfer_b64 # <<>>
    <3>1. Close /\ script # <<>>
      BY <1>6, <2>1 DEF ModelCommit, Collected
    <3>2. script' = None
      BY <1>6, <3>1 DEF ModelCommit
    <3> QED
      BY <3>1, <3>2, <1>8 DEF Close
  <2>2. CASE ~(xfer_open /\ xfer_b64 # <<>>)
    <3>1. UNCHANGED <<xfer_open, xfer_b64>>
      BY <1>6, <2>2 DEF ModelCommit
    <3>2. CASE script = <<>>
      <4>1. UNCHANGED script
        BY <1>6, <3>2 DEF ModelCommit
      <4> QED
        BY <1>1, <3>1, <4>1 DEF xferVars
    <3>3. CASE script # <<>>
      <4>1. script' = None /\ ~xfer_open
        BY <1>6, <2>2, <3>3 DEF ModelCommit, Collected
      <4> QED
        BY <3>1, <4>1 DEF TransferTypes, Collected
    <3> QED
      BY <3>2, <3>3
  <2> QED
    BY <2>1, <2>2
<1>7. CASE Restart
  BY <1>7, <1>8 DEF Restart
<1> QED
  BY <1>2, <1>3, <1>4, <1>5, <1>6, <1>7 DEF Next, Command

(* The types of the LED and of the restarts.                               *)
LEMMA OtherStep == OtherTypes /\ [Next]_vars => OtherTypes'
<1> SUFFICES ASSUME OtherTypes, [Next]_vars PROVE OtherTypes'
  OBVIOUS
<1> USE UpdateAssumption
<1>1. CASE UNCHANGED <<led_mode, led_by, raced, crashes>>
  BY <1>1 DEF OtherTypes
<1>2. CASE Boot \/ BringUp \/ Connect \/ Disconnected \/ Infer \/ Label \/ UNCHANGED vars
           \/ Save \/ Revert \/ ModelReset \/ ModelBegin \/ ModelCommit
           \/ (\E m \in Models : Push(m)) \/ \E c \in Chunks : ModelData(c)
  BY <1>1, <1>2 DEF Boot, BringUp, Connect, Disconnected, Infer, Label, Save, Revert,
     ModelReset, ModelBegin, ModelCommit, Push, ModelData, ledVars, vars
<1>3. CASE Led
  BY <1>3 DEF Led, OtherTypes
<1>4. CASE LedCommanded
  <2>1. raced' \in BOOLEAN
    BY <1>4 DEF LedCommanded
  <2>2. led_by' = "command" /\ UNCHANGED <<led_mode, crashes>>
    BY <1>4 DEF LedCommanded
  <2> QED
    BY <2>1, <2>2 DEF OtherTypes
<1>5. ASSUME NEW mode \in {"auto", "forced"}, LedCommand(mode) PROVE OtherTypes'
  BY <1>5 DEF LedCommand, OtherTypes
<1>6. CASE Restart
  <2>1. crashes' \in 0 .. MaxCrashes
    BY <1>6 DEF Restart, OtherTypes
  <2>2. raced' = FALSE /\ led_mode' = "auto" /\ led_by' = "model"
    BY <1>6 DEF Restart
  <2> QED
    BY <2>1, <2>2 DEF OtherTypes
<1> QED
  BY <1>2, <1>3, <1>4, <1>5, <1>6 DEF Next, Main, Command, Answer

(* The transfer buffer never takes more than it has room for, and blob,    *)
(* store, label and LED keep their types (cmd_model_data, model_install,   *)
(* model_save).                                                            *)
THEOREM UpdateTyped == Spec => []TypeOK
<1>1. Init => TransferInv /\ OtherTypes
  <2> SUFFICES ASSUME Init PROVE TransferInv /\ OtherTypes
    OBVIOUS
  <2>1. TransferInv
    BY TransferClosed DEF Init
  <2>2. crashes \in 0 .. MaxCrashes
    BY UpdateAssumption DEF Init
  <2> QED
    BY <2>1, <2>2 DEF Init, OtherTypes
<1>2. DeliveryInv /\ TransferInv /\ OtherTypes => TypeOK
  BY DEF DeliveryInv, DeliveryTypes, TransferInv, TransferTypes, OtherTypes, TypeOK
<1>3. QED
  BY <1>1, <1>2, DeliveryInit, DeliveryStep, TransferStep, OtherStep, PTL DEF Spec

(* A commit installs exactly when what was sent since model-begin was      *)
(* acceptable as a whole, and it installs that: nothing lost, repeated,    *)
(* out of order or left from an earlier transfer, and no weights of two    *)
(* models (cmd_model_begin, cmd_model_data, install_b64, model_validate).  *)
THEOREM CommitIsExact == Spec => CommitExact
<1> DEFINE A == /\ mqtt = "idle" /\ mqtt' = "commit" => script = Text(model_blob')
                /\ (\E b \in Blobs : script = Text(b)) /\ script' = None /\ pc' # "off" =>
                      mqtt' = "commit"
<1>1. TransferInv /\ [Next]_vars => A
  <2> SUFFICES ASSUME TransferInv, [Next]_vars PROVE A
    OBVIOUS
  <2> USE UpdateAssumption DEF TransferInv
  <2>1. ASSUME mqtt = "idle", mqtt' = "commit" PROVE script = Text(model_blob')
    <3>1. ModelCommit
      BY <2>1 DEF Next, Main, Command, Answer, Boot, BringUp, Connect, Disconnected, Infer,
         Label, Led, Push, ModelBegin, ModelData, ModelReset, LedCommand, Save, Revert,
         LedCommanded, Restart, vars
    <3>2. xfer_open /\ \E b \in Blobs : xfer_b64 = Text(b) /\ model_blob' = b
      BY <2>1, <3>1 DEF ModelCommit, Install
    <3>3. xfer_b64 = script
      BY <3>2 DEF Collected
    <3> QED
      BY <3>2, <3>3
  <2>2. ASSUME NEW b \in Blobs, script = Text(b), script' = None, pc' # "off"
        PROVE  mqtt' = "commit"
    <3>0. script \notin {None, Long}
      BY <2>2, NoMark
    <3>1. script # <<>> /\ xfer_open /\ xfer_b64 = script
      BY <2>2, <3>0 DEF Collected, Text
    <3>2. ModelCommit
      <4>1. script' # script
        BY <2>2, <3>0
      <4>2. ~ModelBegin
        BY <2>2, NothingSent DEF ModelBegin
      <4>3. \A c \in Chunks : ~ModelData(c)
        <5>1. ASSUME NEW c \in Chunks, ModelData(c) PROVE FALSE
          <6>1. script \in Seq(Chunks)
            BY <3>0 DEF TransferTypes
          <6>2. Append(script, c) \notin {None, Long}
            BY <6>1, NoMark
          <6>3. script' = Append(script, c) \/ script' = Long
            BY <5>1, <3>0 DEF ModelData, Noted
          <6> QED
            BY <2>2, <6>2, <6>3
        <5> QED
          BY <5>1
      <4> QED
        BY <2>2, <4>1, <4>2, <4>3 DEF Next, Main, Command, Answer, Boot, BringUp, Connect,
           Disconnected, Infer, Label, Led, Push, ModelReset, LedCommand, Save, Revert,
           LedCommanded, Restart, xferVars, vars
    <3> QED
      BY <2>2, <3>1, <3>2 DEF ModelCommit
  <2> QED
    BY <2>1, <2>2
<1>2. Init => TransferInv
  BY TransferClosed DEF Init
<1>3. Spec => [][A]_vars
  BY <1>1, <1>2, TransferStep, PTL DEF Spec
<1> QED
  BY <1>3 DEF CommitExact
=============================================================================
