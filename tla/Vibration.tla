----------------------------- MODULE Vibration -----------------------------
(***************************************************************************)
(* demos/eiq-pdm-vibration (src/main.c): one thread drives two motors and  *)
(* samples an accelerometer, and in the CONNECT build the SDK's thread     *)
(* changes, at any point of that, what it drives and how it judges.  The   *)
(* unbalanced motor must be pulsed; nothing but motors_apply() moves its   *)
(* pin, and main() sleeps between its calls.                               *)
(*                                                                         *)
(* Time runs in units of which PERIOD make the 200 ms of a pulse; a call   *)
(* of the sampling loop takes from one unit to MaxStep.                    *)
(***************************************************************************)
EXTENDS Naturals

CONSTANTS
    PERIOD, ON,        \* the pulse: 200 ms, 60 of them on
    WINDOW,            \* 1000 ms
    STATE_MS,          \* CAPTURE: time in each state of the cycle
    MaxStep,           \* the longest time between two samples
    MaxInterval,       \* 3600 s
    FLOOR, WARN,       \* 0.03 g and thresh_warn
    Thresholds,        \* values set-threshold is sent with
    DefaultThreshold,
    Levels,            \* vibration magnitudes
    Classes,           \* states the model may take a window for
    None

ASSUME VibrationAssumption ==
    /\ PERIOD \in Nat /\ ON \in 1 .. PERIOD /\ WINDOW \in Nat
    /\ MaxStep \in 1 .. PERIOD - ON
    /\ STATE_MS \in Nat \ {0} /\ STATE_MS % PERIOD = 0
    /\ MaxInterval \in Nat \ {0} /\ FLOOR \in Nat /\ WARN \in Nat
    /\ Thresholds \subseteq Nat \ {0} /\ DefaultThreshold \in Nat \ {0}
    /\ Levels \subseteq Nat /\ 0 \in Levels
    /\ Classes \subseteq {"idle", "balanced", "unbalanced", "both"}

ST == {"idle", "balanced", "unbalanced", "both"}
Healths == {"healthy", "warning", "fault"}

VARIABLES
    build,             \* CAPTURE or CONNECT
    pc, t,             \* main(); the uptime, as far as it matters
    bal, unb,          \* the motor pins
    demo_state, thresh_fault, publish_interval_sec,
    st, elapsed,       \* vib_window(): the state driven, the time so far
    g_cls,             \* whether the model is linked and initialised
    heard,             \* of the window: None, "sample" or the class that leads
    left,              \* seconds main() has still to sleep
    report,            \* the telemetry sent after the last window
    (* History. *)
    held,              \* units the unbalanced motor has been on without a break
    commanded          \* whether demo_state was set since the window began

motorVars == <<bal, unb, held>>
windowVars == <<st, elapsed, heard>>
cloudVars == <<demo_state, thresh_fault, publish_interval_sec, commanded>>
vars == <<build, pc, t, motorVars, windowVars, cloudVars, g_cls, left, report>>

HeldMax == PERIOD + 1        \* bound: how far held counts
Pcs == {"start", "exited", "capture", "connect", "loop", "window", "publish", "sleep"}

Report == [motor : ST, driven : ST, commanded : BOOLEAN, source : {"model", "rms"},
           health : Healths, score : {"zero", "part", "full", "nan", "mean"},
           above_floor : BOOLEAN]

TypeOK ==
    /\ build \in {"capture", "connect"} /\ pc \in Pcs /\ t \in 0 .. 4 * STATE_MS - 1
    /\ bal \in BOOLEAN /\ unb \in BOOLEAN /\ held \in 0 .. HeldMax
    /\ demo_state \in ST /\ st \in ST /\ commanded \in BOOLEAN
    /\ thresh_fault \in Thresholds \cup {DefaultThreshold}
    /\ publish_interval_sec \in 1 .. MaxInterval
    /\ elapsed \in 0 .. WINDOW + MaxStep /\ left \in 0 .. MaxInterval
    /\ g_cls \in BOOLEAN /\ heard \in Classes \cup {None, "sample"}
    /\ report \in Report \cup {None}

Init ==
    /\ build \in {"capture", "connect"} /\ pc = "start" /\ t = 0
    /\ bal = FALSE /\ unb = FALSE /\ held = 0
    /\ demo_state = "idle" /\ thresh_fault = DefaultThreshold /\ publish_interval_sec = 1
    /\ st = "idle" /\ elapsed = 0 /\ heard = None
    /\ g_cls = FALSE /\ left = 0 /\ report = None /\ commanded = FALSE

UpTo(max, n) == IF n < max THEN n ELSE max

(* The uptime: of interest are its place in the pulse and, for CAPTURE, in *)
(* the cycle of states.                                                    *)
Pass(s) == t' = (t + s) % (IF build = "capture" THEN 4 * STATE_MS ELSE PERIOD)

----------------------------------------------------------------------------
(* The motors. *)

Active(state) == state \in {"unbalanced", "both"}

(* Altered: a motor that is not to run is not told so. *)
Altered_motors_apply(state, s) ==
    /\ bal' = IF state \in {"balanced", "both"} THEN TRUE ELSE bal
    /\ unb' = IF Active(state) THEN t % PERIOD < ON ELSE unb
    /\ held' = IF unb' THEN UpTo(HeldMax, held + s) ELSE 0
    /\ Pass(s)

(* Altered: the pulse follows the sampling, not the clock. *)
AlteredPulse(state, s) ==
    /\ bal' = (state \in {"balanced", "both"})
    /\ unb' = (Active(state) /\ elapsed % PERIOD <= ON)
    /\ held' = IF unb' THEN UpTo(HeldMax, held + s) ELSE 0
    /\ Pass(s)

(* motors_apply() and the time until it is called again. *)
motors_apply(state, s) ==
    /\ bal' = (state \in {"balanced", "both"})
    /\ unb' = (Active(state) /\ t % PERIOD < ON)
    /\ held' = IF unb' THEN UpTo(HeldMax, held + s) ELSE 0
    /\ Pass(s)

(* hw_init(), with the motors off; model_init(), which may leave the       *)
(* heuristic; identity, network, time and SDK; or main() returns.          *)
Start ==
    /\ pc = "start"
    /\ \/ pc' = "exited" /\ UNCHANGED g_cls
       \/ build = "capture" /\ pc' = "capture" /\ UNCHANGED g_cls
       \/ build = "connect" /\ pc' = "connect" /\ g_cls' \in BOOLEAN
    /\ UNCHANGED <<build, t, motorVars, windowVars, cloudVars, left, report>>

(* The CAPTURE build: the state comes from the clock.                      *)
Capture(s) ==
    /\ pc = "capture"
    /\ \E state \in ST :
          /\ state = CASE t \div STATE_MS = 0 -> "idle"
                       [] t \div STATE_MS = 1 -> "balanced"
                       [] t \div STATE_MS = 2 -> "unbalanced"
                       [] OTHER -> "both"
          /\ motors_apply(state, s)
    /\ UNCHANGED <<build, pc, windowVars, cloudVars, g_cls, left, report>>

----------------------------------------------------------------------------
(* The CONNECT build. *)

Connect ==
    /\ pc = "connect" /\ pc' = "loop"
    /\ UNCHANGED <<build, t, motorVars, windowVars, cloudVars, g_cls, left, report>>

(* The session is found lost: the motors stay as they are. *)
Disconnected ==
    /\ pc = "loop" /\ pc' = "connect"
    /\ UNCHANGED <<build, t, motorVars, windowVars, cloudVars, g_cls, left, report>>

(* Altered: a fault stays injected for one window more. *)
AlteredBeginWindow ==
    /\ pc = "loop" /\ pc' = "window"
    /\ st' = IF unb THEN "unbalanced" ELSE demo_state
    /\ elapsed' = 0 /\ heard' = None
    /\ held' = 0 /\ commanded' = FALSE
    /\ UNCHANGED <<build, t, bal, unb, demo_state, thresh_fault, publish_interval_sec,
                   g_cls, left, report>>

(* vib_window() takes the state to drive once.  From here the time the     *)
(* motor is on is counted afresh.                                          *)
BeginWindow ==
    /\ pc = "loop" /\ pc' = "window"
    /\ st' = demo_state
    /\ elapsed' = 0 /\ heard' = None
    /\ held' = 0 /\ commanded' = FALSE
    /\ UNCHANGED <<build, t, bal, unb, demo_state, thresh_fault, publish_interval_sec,
                   g_cls, left, report>>

(* One pass of it: the sample may fail, and so may the model.              *)
Sample(s) ==
    /\ pc = "window" /\ elapsed < WINDOW
    /\ motors_apply(st, s)
    /\ elapsed' = elapsed + s
    /\ \/ UNCHANGED heard
       \/ heard' = IF heard = None THEN "sample" ELSE heard
       \/ g_cls /\ heard' \in Classes
    /\ UNCHANGED <<build, pc, st, cloudVars, g_cls, left, report>>

class_to_health(c) == IF Active(c) THEN "fault" ELSE "healthy"

(* (level - FLOOR) / (threshold - FLOOR), held to the range from 0 to 1; a *)
(* threshold may be the floor or below it.                                 *)
Score(level, thresh) ==
    CASE thresh > FLOOR /\ level <= FLOOR -> "zero"
      [] thresh > FLOOR /\ level > FLOOR /\ level < thresh -> "part"
      [] thresh > FLOOR /\ level >= thresh -> "full"
      [] thresh = FLOOR /\ level < FLOOR -> "zero"
      [] thresh = FLOOR /\ level = FLOOR -> "nan"
      [] thresh = FLOOR /\ level > FLOOR -> "full"
      [] thresh < FLOOR /\ level >= FLOOR -> "zero"
      [] thresh < FLOOR /\ level < FLOOR /\ level > thresh -> "part"
      [] thresh < FLOOR /\ level <= thresh -> "full"

classify(level, thresh) ==
    IF level >= thresh THEN "fault" ELSE IF level >= WARN THEN "warning" ELSE "healthy"

(* publish_vib() with the window over: the majority of the model's votes,  *)
(* or the magnitude, which is 0 when no sample could be read.  The message *)
(* may find no room.  Then main() sleeps.                                  *)
Publish ==
    /\ pc = "window" /\ elapsed >= WINDOW /\ pc' = "sleep"
    /\ left' = publish_interval_sec
    /\ \/ UNCHANGED report
       \/ \E level \in IF heard = None THEN {0} ELSE Levels :
             LET voted == heard \in Classes IN
             report' = [motor |-> demo_state, driven |-> st, commanded |-> commanded,
                        above_floor |-> thresh_fault > FLOOR,
                        source |-> IF voted THEN "model" ELSE "rms",
                        health |-> IF voted THEN class_to_health(heard)
                                   ELSE classify(level, thresh_fault),
                        score |-> IF voted THEN "mean" ELSE Score(level, thresh_fault)]
    /\ st' = "idle" /\ elapsed' = 0 /\ heard' = None      \* its locals end
    /\ UNCHANGED <<build, t, motorVars, cloudVars, g_cls>>

(* A second of the sleep: nobody touches the pins.  The report is kept for *)
(* as long.                                                                *)
Sleep ==
    /\ pc = "sleep"
    /\ left' = left - 1
    /\ pc' = IF left = 1 THEN "loop" ELSE "sleep"
    /\ t' \in 0 .. PERIOD - 1
    /\ held' = IF unb THEN HeldMax ELSE 0
    /\ report' = IF left = 1 THEN None ELSE report
    /\ UNCHANGED <<build, bal, unb, windowVars, cloudVars, g_cls>>

----------------------------------------------------------------------------
(* Commands, on the SDK's thread, while there is a session.                *)

Connected == pc \in {"loop", "window", "sleep"}

(* inject-fault, inject-healthy, run-both, motor-stop. *)
Drive(state) ==
    /\ Connected
    /\ demo_state' = state /\ commanded' = TRUE
    /\ UNCHANGED <<build, pc, t, motorVars, windowVars, thresh_fault,
                   publish_interval_sec, g_cls, left, report>>

SetThreshold(v) ==
    /\ Connected
    /\ thresh_fault' = v
    /\ UNCHANGED <<build, pc, t, motorVars, windowVars, demo_state,
                   publish_interval_sec, commanded, g_cls, left, report>>

(* Altered: 0 is an interval as well. *)
AlteredSetInterval(v) ==
    /\ Connected
    /\ publish_interval_sec' = IF v <= MaxInterval THEN v ELSE publish_interval_sec
    /\ UNCHANGED <<build, pc, t, motorVars, windowVars, demo_state, thresh_fault,
                   commanded, g_cls, left, report>>

SetInterval(v) ==
    /\ Connected
    /\ publish_interval_sec' = IF v \in 1 .. MaxInterval THEN v ELSE publish_interval_sec
    /\ UNCHANGED <<build, pc, t, motorVars, windowVars, demo_state, thresh_fault,
                   commanded, g_cls, left, report>>

(* reboot: the pins are inputs again until hw_init(). *)
Reboot ==
    /\ Connected /\ pc' = "start" /\ t' = 0
    /\ bal' = FALSE /\ unb' = FALSE /\ held' = 0
    /\ demo_state' = "idle" /\ thresh_fault' = DefaultThreshold
    /\ publish_interval_sec' = 1
    /\ st' = "idle" /\ elapsed' = 0 /\ heard' = None
    /\ g_cls' = FALSE /\ left' = 0 /\ report' = None /\ commanded' = FALSE
    /\ UNCHANGED build

Main ==
    \/ Start \/ Connect \/ Disconnected \/ BeginWindow \/ Publish \/ Sleep
    \/ \E s \in 1 .. MaxStep : Capture(s) \/ Sample(s)

Command ==
    \/ \E state \in ST : Drive(state)
    \/ \E v \in Thresholds : SetThreshold(v)
    \/ \E v \in 0 .. MaxInterval + 1 : SetInterval(v)
    \/ Reboot

Next == Main \/ Command

Spec == Init /\ [][Next]_vars

(* main() runs, and sessions are opened that last into the loop. *)
FairSpec == Spec /\ WF_vars(Main) /\ SF_vars(BeginWindow)

----------------------------------------------------------------------------
(* Properties. *)

(* The longest the motor may be on: the pulse, and what the last sample in *)
(* it takes.                                                               *)
Pulse == ON - 1 + MaxStep

(* "Software-pulsed ... so it is never held at continuous full power"      *)
(* (main.c 57-58), as far as the loops that pulse it go: whatever the      *)
(* phase a window begins at and however uneven its samples, no pulse runs  *)
(* into the next.                                                          *)
PulsedWhileDriven == pc \in {"window", "capture"} => held <= Pulse

(* The same at all times: the comment makes no exception.                  *)
NeverHeldOn == held <= Pulse

(* "vib.motor" is the state the window was recorded in, unless a command   *)
(* changed it during that window.                                          *)
ReportMatchesDrive ==
    report # None /\ report.motor # report.driven => report.commanded

(* The heuristic's two results agree: the score is full exactly when the   *)
(* state is fault, for every threshold above the noise floor, on either    *)
(* side of thresh_warn.                                                    *)
ScoreMatchesState ==
    report # None /\ report.source = "rms" /\ report.above_floor =>
        (report.score = "full" <=> report.health = "fault")

(* motor-stop stops both motors in the end, unless another command comes,  *)
(* whatever the window it fell into, or the session it was sent over.      *)
StopTakesEffect ==
    demo_state = "idle" ~> (~bal /\ ~unb) \/ demo_state # "idle"
=============================================================================
