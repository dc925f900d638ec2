---------------------------- MODULE ModelUpdate ----------------------------
(***************************************************************************)
(* Model delivery in demos/ml-model-update (src/main.c): one-shot and      *)
(* chunked pushes, the platform's AI-Model push and model-reset, all on    *)
(* the SDK's MQTT thread; the copy in NVS that a restart comes up with;    *)
(* and main(), which classifies, labels and publishes once a second.       *)
(*                                                                         *)
(* A model travels as three chunks of base64 text: the header up to its    *)
(* crc field (labels, led_mask), the crc with the first weights, and the   *)
(* rest of the weights.  The models have the same dimensions, so that what *)
(* model_validate tells apart is the CRC's: it covers the weights alone.   *)
(***************************************************************************)
EXTENDS Naturals, Sequences

CONSTANTS
    Models,        \* the models the cloud may push
    Chunks,        \* those of their chunks the cloud sends: <<model, place>>
    Builtin, None, Long,
    XferMax,       \* MODEL_B64_MAX, in chunks
    NvsFails,      \* whether a settings call may fail
    MaxCrashes

(* What model_validate accepts: labels of one model, weights of one.       *)
Blobs == Models \X Models
Whole(m) == <<m, m>>
AllChunks == Models \X (1 .. 3)
Text(b) == <<<<b[1], 1>>, <<b[2], 2>>, <<b[2], 3>>>>

ASSUME UpdateAssumption ==
    /\ Chunks \subseteq AllChunks
    /\ Builtin \notin Blobs /\ None \notin Blobs \cup {Builtin}
    /\ None \notin Seq(AllChunks) /\ Long \notin Seq(AllChunks) /\ None # Long
    /\ XferMax \in Nat /\ MaxCrashes \in Nat
    /\ NvsFails \in BOOLEAN

(* MODEL_B64_MAX is the base64 of the largest blob, and more.              *)
ASSUME RoomAssumption == XferMax >= 3

VARIABLES
    pc,            \* main()
    model_blob, model_src,
    nvs,           \* mlmdl/blob
    xfer_b64, xfer_open,   \* the text is kept while the transfer is open
    mqtt,          \* what the MQTT thread has still to do
    labelled,      \* the blob sense_and_infer() last took a label from
    led_mode, led_by,   \* who set the LED last: the model or a command
    (* History. *)
    script,        \* chunks sent since the last model-begin; Long: more than XferMax;
                   \* None: none, or after a commit
    promised,      \* blobs the answers so far allow; {}: any, a settings call failed
    raced, crashes

mainVars == <<pc, labelled>>
modelVars == <<model_blob, model_src>>
xferVars == <<xfer_b64, xfer_open, script>>
ledVars == <<led_mode, led_by, raced>>
vars == <<mainVars, modelVars, nvs, xferVars, mqtt, ledVars, promised, crashes>>

Pcs == {"off", "bringup", "exited", "connect", "tick", "label", "led"}

TypeOK ==
    /\ pc \in Pcs
    /\ model_blob \in Blobs \cup {Builtin, None}
    /\ model_src \in {"none", "builtin", "flash", "cloud"}
    /\ nvs \in Blobs \cup {None}
    /\ xfer_b64 \in Seq(Chunks) /\ Len(xfer_b64) <= XferMax /\ xfer_open \in BOOLEAN
    /\ mqtt \in {"idle", "save", "commit", "revert", "led"}
    /\ labelled \in Blobs \cup {Builtin, None}
    /\ led_mode \in {"auto", "forced"} /\ led_by \in {"model", "command"}
    /\ script \in {None, Long} \/ (script \in Seq(Chunks) /\ Len(script) <= XferMax)
    /\ promised \subseteq Blobs \cup {Builtin}
    /\ raced \in BOOLEAN /\ crashes \in 0 .. MaxCrashes

Init ==
    /\ pc = "off"
    /\ model_blob = None /\ model_src = "none"
    /\ nvs = None
    /\ xfer_b64 = <<>> /\ xfer_open = FALSE /\ script = None
    /\ mqtt = "idle"
    /\ labelled = None /\ led_mode = "auto" /\ led_by = "model" /\ raced = FALSE
    /\ promised = {Builtin} /\ crashes = 0

Goto(from, to) == pc = from /\ pc' = to

----------------------------------------------------------------------------
(* main(): the stored model wins over the built-in one.  A stored blob     *)
(* that cannot be read leaves the built-in one.  The self-test classifies. *)

Boot ==
    /\ pc = "off"
    /\ \/ /\ nvs # None /\ pc' = "bringup"
          /\ model_blob' = nvs /\ model_src' = "flash"
          /\ UNCHANGED promised
       \/ /\ nvs = None \/ NvsFails
          /\ pc' = "bringup"
          /\ model_blob' = Builtin /\ model_src' = "builtin"
          /\ promised' = IF nvs = None THEN promised ELSE {}
       \/ pc' = "exited" /\ UNCHANGED <<modelVars, promised>>    \* io1_init failed
    /\ labelled' = model_blob'
    /\ UNCHANGED <<nvs, xferVars, mqtt, ledVars, crashes>>

(* Network and time, or main() returns for good. *)
BringUp ==
    /\ Goto("bringup", "connect") \/ Goto("bringup", "exited")
    /\ UNCHANGED <<labelled, modelVars, nvs, xferVars, mqtt, ledVars, promised, crashes>>

(* Altered: the label is taken once, from the model found at boot. *)
AlteredLabel ==
    /\ pc = "label"
    /\ pc' = IF led_mode = "auto" THEN "led" ELSE "tick"
    /\ UNCHANGED <<labelled, modelVars, nvs, xferVars, mqtt, ledVars, promised, crashes>>

(* Altered: the LED's mode is not looked at. *)
AlteredLabelMode ==
    /\ Goto("label", "led")
    /\ labelled' = model_blob
    /\ UNCHANGED <<modelVars, nvs, xferVars, mqtt, ledVars, promised, crashes>>

Connect ==
    /\ Goto("connect", "tick")
    /\ UNCHANGED <<labelled, modelVars, nvs, xferVars, mqtt, ledVars, promised, crashes>>

Disconnected ==
    /\ Goto("tick", "connect")
    /\ UNCHANGED <<labelled, modelVars, nvs, xferVars, mqtt, ledVars, promised, crashes>>

(* One pass a second: model_infer, under the lock ...                      *)
Infer ==
    /\ Goto("tick", "label")
    /\ UNCHANGED <<labelled, modelVars, nvs, xferVars, mqtt, ledVars, promised, crashes>>

(* ... the label, under the lock taken again, of whatever model is there   *)
(* by then; with it the LED, if it follows the model ...                   *)
Label ==
    /\ pc = "label"
    /\ pc' = IF led_mode = "auto" THEN "led" ELSE "tick"
    /\ labelled' = model_blob
    /\ UNCHANGED <<modelVars, nvs, xferVars, mqtt, ledVars, promised, crashes>>

Led ==
    /\ Goto("led", "tick")
    /\ led_by' = "model"
    /\ UNCHANGED <<labelled, modelVars, nvs, xferVars, mqtt, led_mode, raced,
                   promised, crashes>>

----------------------------------------------------------------------------
(* The MQTT thread. *)

Connected == pc \in {"tick", "label", "led"}

(* History: what an answer still to come allows beside what was allowed.   *)
Allow(b) == IF promised = {} THEN {} ELSE promised \cup {b}

(* model_install of a blob that validates, under the lock main() holds     *)
(* from the label to the LED.  What is said afterwards allows it.          *)
Install(b, src) ==
    /\ pc # "led"
    /\ model_blob' = b /\ model_src' = src
    /\ promised' = Allow(b)

(* model-push, and the platform's push once its file is downloaded.        *)
Push(m) ==
    /\ Connected /\ mqtt = "idle"
    /\ Install(Whole(m), "cloud")
    /\ mqtt' = "save"
    /\ UNCHANGED <<mainVars, nvs, xferVars, ledVars, crashes>>

(* Altered: the blob is not saved. *)
AlteredSave ==
    /\ mqtt \in {"save", "commit"} /\ mqtt' = "idle"
    /\ promised' = {model_blob}
    /\ UNCHANGED <<mainVars, modelVars, nvs, xferVars, ledVars, crashes>>

(* The blob is saved, or not, with a warning on the console; the answer is *)
(* "installed" in either case.                                             *)
Save ==
    /\ mqtt \in {"save", "commit"} /\ mqtt' = "idle"
    /\ \/ nvs' = model_blob /\ promised' = {model_blob}
       \/ NvsFails /\ UNCHANGED nvs /\ promised' = {}
    /\ UNCHANGED <<mainVars, modelVars, xferVars, ledVars, crashes>>

(* Altered: what an earlier transfer left stays. *)
AlteredModelBegin ==
    /\ Connected /\ mqtt = "idle"
    /\ xfer_open' = TRUE /\ script' = <<>>
    /\ UNCHANGED <<mainVars, modelVars, nvs, xfer_b64, mqtt, ledVars, promised, crashes>>

ModelBegin ==
    /\ Connected /\ mqtt = "idle"
    /\ xfer_b64' = <<>> /\ xfer_open' = TRUE /\ script' = <<>>
    /\ UNCHANGED <<mainVars, modelVars, nvs, mqtt, ledVars, promised, crashes>>

(* The history of a transfer, with one chunk more.                         *)
Noted(c) ==
    IF script \in {None, Long} THEN script
    ELSE IF Len(script) < XferMax THEN Append(script, c) ELSE Long

(* What is left in the buffer is not read again: model-begin empties it.   *)
Close == xfer_open' = FALSE /\ xfer_b64' = <<>>

(* Altered: room for one chunk more. *)
AlteredModelData(c) ==
    /\ Connected /\ mqtt = "idle"
    /\ script' = Noted(c)
    /\ IF xfer_open /\ Len(xfer_b64) <= XferMax
       THEN xfer_b64' = Append(xfer_b64, c) /\ UNCHANGED xfer_open
       ELSE Close
    /\ UNCHANGED <<mainVars, modelVars, nvs, mqtt, ledVars, promised, crashes>>

(* A chunk too many ends the transfer.                                     *)
ModelData(c) ==
    /\ Connected /\ mqtt = "idle"
    /\ script' = Noted(c)
    /\ IF xfer_open /\ Len(xfer_b64) < XferMax
       THEN xfer_b64' = Append(xfer_b64, c) /\ UNCHANGED xfer_open
       ELSE Close
    /\ UNCHANGED <<mainVars, modelVars, nvs, mqtt, ledVars, promised, crashes>>

(* install_b64 of what was collected, which closes the transfer whether it *)
(* decodes to an acceptable blob or not; with nothing collected it stays   *)
(* open.                                                                   *)
ModelCommit ==
    /\ Connected /\ mqtt = "idle"
    /\ script' = IF script = <<>> THEN script ELSE None
    /\ \/ /\ ~xfer_open \/ xfer_b64 = <<>>
          /\ UNCHANGED <<modelVars, promised, xfer_open, xfer_b64, mqtt>>
       \/ /\ xfer_open /\ xfer_b64 # <<>> /\ Close
          /\ \/ /\ xfer_b64 \notin {Text(b) : b \in Blobs}
                /\ UNCHANGED <<modelVars, promised, mqtt>>
             \/ /\ \E b \in Blobs : xfer_b64 = Text(b) /\ Install(b, "cloud")
                /\ mqtt' = "commit"
    /\ UNCHANGED <<mainVars, nvs, ledVars, crashes>>

(* model-reset: the stored blob first ...                                  *)
ModelReset ==
    /\ Connected /\ mqtt = "idle" /\ mqtt' = "revert"
    /\ \/ nvs' = None /\ promised' = {Builtin, model_blob}
       \/ NvsFails /\ UNCHANGED nvs /\ promised' = {}
    /\ UNCHANGED <<mainVars, modelVars, xferVars, ledVars, crashes>>

(* ... then the active one; the answer is "reverted" in either case.       *)
Revert ==
    /\ mqtt = "revert" /\ mqtt' = "idle"
    /\ pc # "led"
    /\ model_blob' = Builtin /\ model_src' = "builtin"
    /\ promised' = promised \cap {Builtin}
    /\ UNCHANGED <<mainVars, nvs, xferVars, ledVars, crashes>>

(* led-on and led-off set the mode and then the LED, without the lock.     *)
LedCommand(mode) ==
    /\ Connected /\ mqtt = "idle"
    /\ led_mode' = mode /\ raced' = FALSE
    /\ mqtt' = IF mode = "auto" THEN "idle" ELSE "led"
    /\ UNCHANGED <<mainVars, modelVars, nvs, xferVars, led_by, promised, crashes>>

LedCommanded ==
    /\ mqtt = "led" /\ mqtt' = "idle"
    /\ led_by' = "command"
    /\ raced' = (pc = "led")
    /\ UNCHANGED <<mainVars, modelVars, nvs, xferVars, led_mode, promised, crashes>>

(* A restart, at any point: the reboot command, a crash or a power cut.    *)
(* NVS keeps one whole value.                                              *)
Restart ==
    /\ pc # "off" /\ pc' = "off" /\ labelled' = None
    /\ crashes < MaxCrashes /\ crashes' = crashes + 1
    /\ model_blob' = None /\ model_src' = "none"
    /\ xfer_b64' = <<>> /\ xfer_open' = FALSE /\ script' = None
    /\ mqtt' = "idle"
    /\ led_mode' = "auto" /\ led_by' = "model" /\ raced' = FALSE
    /\ UNCHANGED <<nvs, promised>>

Main == \/ Boot \/ BringUp \/ Connect \/ Disconnected \/ Infer \/ Label \/ Led

Command == \/ \E m \in Models : Push(m)
           \/ ModelBegin \/ (\E c \in Chunks : ModelData(c)) \/ ModelCommit
           \/ ModelReset
           \/ \E mode \in {"auto", "forced"} : LedCommand(mode)

Answer == Save \/ Revert \/ LedCommanded

Next == Main \/ Command \/ Answer \/ Restart

Spec == Init /\ [][Next]_vars

(* Both threads run, the lock goes to the one that waits, and sessions are *)
(* opened that last into the loop.                                         *)
FairSpec == Spec /\ WF_vars(Main) /\ SF_vars(Infer) /\ SF_vars(Answer)

----------------------------------------------------------------------------
(* Properties. *)

Settled == model_src # "none" /\ mqtt = "idle" /\ promised # {}

(* "Persisted to NVS settings so they survive reboot" (main.c 22): through *)
(* any restarts, one in the middle of a push or of a reset included, the   *)
(* device runs the model it last acknowledged, or the one it was at.       *)
AckedSurvives == Settled => model_blob \in promised

(* What would come up after a restart is what runs now, whenever no        *)
(* command is half done and no settings call has failed.                   *)
RestartKeepsModel == Settled => model_blob = IF nvs = None THEN Builtin ELSE nvs

(* model-commit installs exactly when everything sent since model-begin    *)
(* was acceptable as a whole, and it installs that: not one chunk short,   *)
(* repeated, out of order, left over from an earlier transfer or dropped   *)
(* for lack of room, and no weights of two models.                         *)
CommitExact ==
    [][/\ mqtt = "idle" /\ mqtt' = "commit" => script = Text(model_blob')
       /\ (\E b \in Blobs : script = Text(b)) /\ script' = None /\ pc' # "off" =>
             mqtt' = "commit"]_vars

(* "A blob with a corrupted byte is rejected" (DEMO.md 184): a blob that   *)
(* is installed is one of the models.  It is not so: the CRC says nothing  *)
(* of the header in front of it.                                           *)
NeverMixed == model_blob \in {Whole(m) : m \in Models} \cup {Builtin, None}

(* "LED forced on", "LED forced off": the model drives the LED again only  *)
(* after led-auto, unless the command fell between main()'s check of the   *)
(* mode and its use of it.                                                 *)
LedForced == mqtt # "led" /\ led_mode = "forced" /\ ~raced => led_by = "command"

(* "The same device starts classifying" by what was pushed (main.c 27-30): *)
(* however models come and go, again and again the label is of the one     *)
(* that is installed; so a model that stays gives the labels in the end.   *)
NewModelTakesOver == []<>(labelled = model_blob)
=============================================================================
