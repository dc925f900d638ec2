-------------------------- MODULE VibrationProofs --------------------------
(* Theorems about Vibration, for every pulse, window and cycle, all        *)
(* thresholds and levels.                                                  *)
EXTENDS Vibration, Integers, TLAPS

(***************************************************************************)
(* The phase of the pulse.                                                 *)
(***************************************************************************)

(* The remainder is what is left of whole multiples.                       *)
LEMMA DivMod ==
    ASSUME NEW x \in Nat, NEW p \in Nat \ {0}
    PROVE  x \div p \in Int /\ x = p * (x \div p) + (x % p) /\ x % p \in 0 .. p - 1
OBVIOUS

(* The converse.                                                           *)
LEMMA ModUnique ==
    ASSUME NEW p \in Nat \ {0}, NEW d \in Int, NEW y \in Nat, NEW r \in 0 .. p - 1,
           y = p * d + r
    PROVE  y % p = r
OBVIOUS

(* A cycle that is a number of pulses leaves the phase alone.              *)
LEMMA PhaseOfCycle ==
    ASSUME NEW p \in Nat \ {0}, NEW n \in Nat \ {0}, n % p = 0, NEW x \in Nat
    PROVE  (x % n) % p = x % p
<1> DEFINE k == n \div p
           q == x \div n
           a == x \div p
<1>1. k \in Int /\ n = p * k
  BY DivMod
<1>2. q \in Int /\ x = n * q + (x % n) /\ x % n \in Nat
  BY DivMod
<1>3. a \in Int /\ x = p * a + (x % p) /\ x % p \in 0 .. p - 1
  BY DivMod
<1> HIDE DEF k, q, a
<1>4. a - k * q \in Int
  BY <1>1, <1>2, <1>3
<1>5. \A y, r \in Int : x = (p * k) * q + y /\ x = p * a + r => y = p * (a - k * q) + r
  BY <1>1, <1>2, <1>3
<1>6. x % n = p * (a - k * q) + (x % p)
  <2>1. x = (p * k) * q + (x % n) /\ x = p * a + (x % p)
    BY <1>1, <1>2, <1>3, Zenon
  <2>2. x % n \in Int /\ x % p \in Int
    BY <1>2, <1>3
  <2> QED
    BY <2>1, <2>2, <1>5, Zenon
<1>7. PICK y \in Nat, r \in 0 .. p - 1, d \in Int :
          y = x % n /\ r = x % p /\ d = a - k * q
  BY <1>2, <1>3, <1>4
<1>8. y = p * d + r
  BY <1>6, <1>7
<1>9. y % p = r
  BY <1>8, ModUnique
<1> QED
  BY <1>7, <1>9

(* A phase that does not wrap advances by as much as the time.             *)
LEMMA PhaseAdvances ==
    ASSUME NEW p \in Nat \ {0}, NEW x \in Nat, NEW s \in Nat, (x % p) + s < p
    PROVE  (x + s) % p = (x % p) + s
<1>1. PICK d \in Int, m \in 0 .. p - 1 : m = x % p /\ x = p * d + m
  BY DivMod
<1>2. PICK y \in Nat, r \in 0 .. p - 1 : y = x + s /\ r = m + s
  BY <1>1
<1>3. y = p * d + r
  BY <1>1, <1>2
<1>4. y % p = r
  BY <1>3, ModUnique
<1> QED
  BY <1>1, <1>2, <1>4

(***************************************************************************)
(* The pulse.  Beyond its bound, the motor has not been on for longer than *)
(* the clock is into the present pulse.                                    *)
(***************************************************************************)

PulseInv ==
    /\ t \in Nat
    /\ held \in Nat
    /\ pc = "start" => held = 0
    /\ PulsedWhileDriven
    /\ pc \in {"window", "capture"} => held <= t % PERIOD

(* motors_apply() cannot run one pulse into the next: the motor is on only *)
(* from the first ON units, and the next call comes before the period ends.*)
LEMMA ApplyKeepsPulse ==
    ASSUME PulseInv, pc \in {"window", "capture"}, NEW s \in 1 .. MaxStep,
           NEW state, motors_apply(state, s)
    PROVE  t' \in Nat /\ held' \in Nat /\ held' <= Pulse /\ held' <= t' % PERIOD
<1> USE VibrationAssumption
<1> DEFINE n == IF build = "capture" THEN 4 * STATE_MS ELSE PERIOD
<1>1. PERIOD \in Nat \ {0} /\ s \in Nat /\ t \in Nat /\ Pulse \in Nat /\ HeldMax \in Nat
  BY DEF PulseInv, Pulse, HeldMax
<1>2. n \in Nat \ {0} /\ n % PERIOD = 0
  <2>1. STATE_MS = PERIOD * (STATE_MS \div PERIOD) /\ STATE_MS \div PERIOD \in Int
    BY <1>1, DivMod
  <2>2. 4 * STATE_MS = PERIOD * (4 * (STATE_MS \div PERIOD)) + 0
    BY <1>1, <2>1
  <2>3. (4 * STATE_MS) % PERIOD = 0
    <3>1. \A y \in Nat, d \in Int : y = PERIOD * d + 0 => y % PERIOD = 0
      BY <1>1, ModUnique
    <3>2. 4 * STATE_MS \in Nat /\ 4 * (STATE_MS \div PERIOD) \in Int
      BY <2>1
    <3> QED
      BY <2>2, <3>1, <3>2, Zenon
  <2>4. PERIOD % PERIOD = 0
    BY <1>1, ModUnique
  <2> QED
    BY <1>1, <2>3, <2>4
<1>3. t' = (t + s) % n
  BY DEF motors_apply, Pass
<1> HIDE DEF n
<1>4. t' \in Nat /\ t' % PERIOD = (t + s) % PERIOD
  <2>1. t + s \in Nat
    BY <1>1
  <2>2. ((t + s) % n) % PERIOD = (t + s) % PERIOD
    <3>1. \A x \in Nat : (x % n) % PERIOD = x % PERIOD
      BY <1>1, <1>2, PhaseOfCycle
    <3> QED
      BY <2>1, <3>1, Zenon
  <2>3. (t + s) % n \in Nat
    BY <1>2, <2>1
  <2> QED
    BY <1>3, <2>2, <2>3, Zenon
<1>5. CASE unb'
  <2>1. t % PERIOD < ON /\ held' = UpTo(HeldMax, held + s)
    BY <1>5 DEF motors_apply
  <2>2. t % PERIOD \in Nat /\ (t % PERIOD) + s < PERIOD /\ (t % PERIOD) + s <= Pulse
    BY <1>1, <2>1, DivMod DEF Pulse
  <2>3. t' % PERIOD = (t % PERIOD) + s
    <3>1. \A x, y \in Nat : (x % PERIOD) + y < PERIOD => (x + y) % PERIOD = (x % PERIOD) + y
      BY <1>1, PhaseAdvances
    <3>2. (t + s) % PERIOD = (t % PERIOD) + s
      BY <1>1, <2>2, <3>1, Zenon
    <3> QED
      BY <1>4, <3>2, Zenon
  <2>4. held' \in Nat /\ held' <= held + s
    BY <1>1, <2>1 DEF UpTo, PulseInv
  <2>5. held \in Nat /\ held <= t % PERIOD
    BY DEF PulseInv
  <2> QED
    <3>1. PICK phase \in Nat : phase = t' % PERIOD
      BY <2>2, <2>3
    <3>2. phase = (t % PERIOD) + s /\ held' <= phase /\ phase <= Pulse
      BY <1>1, <2>2, <2>3, <2>4, <2>5, <3>1
    <3>3. held' <= Pulse
      BY <1>1, <2>4, <3>2
    <3> QED
      BY <1>4, <2>4, <3>1, <3>2, <3>3, Zenon
<1>6. CASE ~unb'
  <2>1. held' = 0
    BY <1>6 DEF motors_apply
  <2>2. t' % PERIOD \in Nat
    <3>1. \A x \in Nat : x % PERIOD \in Nat
      BY <1>1
    <3> QED
      BY <1>4, <3>1, Zenon
  <2>3. 0 <= t' % PERIOD /\ 0 <= Pulse /\ 0 \in Nat
    BY <1>1, <2>2
  <2> QED
    BY <1>4, <2>1, <2>3, Zenon
<1> QED
  BY <1>5, <1>6

(* Every step keeps it.                                                    *)
LEMMA PulseStep == PulseInv /\ [Next]_vars => PulseInv'
<1> SUFFICES ASSUME PulseInv, [Next]_vars PROVE PulseInv'
  OBVIOUS
<1> USE VibrationAssumption
<1>0. PERIOD \in Nat \ {0} /\ Pulse \in Nat /\ HeldMax \in Nat
  BY DEF Pulse, HeldMax
<1>1. ASSUME NEW s \in 1 .. MaxStep, Capture(s) \/ Sample(s) PROVE PulseInv'
  <2>1. pc \in {"window", "capture"} /\ pc' = pc /\ \E state : motors_apply(state, s)
    BY <1>1 DEF Capture, Sample
  <2>2. t' \in Nat /\ held' \in Nat /\ held' <= Pulse /\ held' <= t' % PERIOD
    BY <2>1, ApplyKeepsPulse
  <2> QED
    BY <2>1, <2>2 DEF PulseInv, PulsedWhileDriven
<1>2. ASSUME t' \in Nat, held' = 0 PROVE PulseInv'
  <2>1. t' % PERIOD \in Nat
    <3>1. \A x \in Nat : x % PERIOD \in Nat
      BY <1>0
    <3> QED
      BY <1>2, <3>1, Zenon
  <2>2. 0 <= t' % PERIOD /\ 0 <= Pulse
    BY <1>0, <2>1
  <2> QED
    BY <1>2, <2>2 DEF PulseInv, PulsedWhileDriven
<1>3. CASE Start \/ BeginWindow
  BY <1>2, <1>3 DEF Start, BeginWindow, motorVars, PulseInv
<1>4. CASE Reboot
  BY <1>2, <1>4 DEF Reboot
<1>5. CASE Connect \/ Disconnected \/ Publish
  BY <1>5 DEF Connect, Disconnected, Publish, motorVars, PulseInv, PulsedWhileDriven
<1>6. CASE Sleep
  BY <1>0, <1>6 DEF Sleep, PulseInv, PulsedWhileDriven
<1>7. ASSUME \/ \E state \in ST : Drive(state)
             \/ \E v \in Thresholds : SetThreshold(v)
             \/ \E v \in 0 .. MaxInterval + 1 : SetInterval(v)
             \/ UNCHANGED vars
      PROVE  PulseInv'
  <2>1. UNCHANGED <<pc, t, held>>
    BY <1>7 DEF Drive, SetThreshold, SetInterval, vars, motorVars
  <2> QED
    BY <2>1 DEF PulseInv, PulsedWhileDriven
<1> QED
  BY <1>1, <1>3, <1>4, <1>5, <1>6, <1>7 DEF Next, Main, Command

(* While a loop drives the unbalanced motor no pulse runs into the next,   *)
(* for every duty, at whatever phase a window begins and however uneven    *)
(* its samples, if none takes longer than the pulse is off (motors_apply). *)
THEOREM PulseIsBounded == Spec => []PulsedWhileDriven
<1>1. Init => PulseInv
  <2> SUFFICES ASSUME Init PROVE PulseInv
    OBVIOUS
  <2> QED
    BY VibrationAssumption DEF Init, PulseInv, PulsedWhileDriven, Pulse
<1>2. PulseInv => PulsedWhileDriven
  BY DEF PulseInv
<1>3. QED
  BY <1>1, <1>2, PulseStep, PTL DEF Spec

(***************************************************************************)
(* The report.  vib_window() drives the state it took at its start, the    *)
(* report names demo_state at its end.                                     *)
(***************************************************************************)

ReportInv ==
    /\ ReportMatchesDrive
    /\ pc = "window" /\ st # demo_state => commanded

(* Every step keeps it.                                                    *)
LEMMA ReportStep == ReportInv /\ [Next]_vars => ReportInv'
<1> SUFFICES ASSUME ReportInv, [Next]_vars PROVE ReportInv'
  OBVIOUS
<1> USE DEF ReportInv, ReportMatchesDrive
<1>1. CASE Publish
  <2>1. pc = "window" /\ pc' # "window"
    BY <1>1 DEF Publish
  <2>2. CASE report' = report
    BY <2>1, <2>2
  <2>3. ASSUME NEW source, NEW health, NEW score, NEW above,
               report' = [motor |-> demo_state, driven |-> st, commanded |-> commanded,
                          above_floor |-> above, source |-> source, health |-> health,
                          score |-> score]
        PROVE  ReportInv'
    BY <2>1, <2>3
  <2>4. \/ report' = report
        \/ \E source, health, score, above :
               report' = [motor |-> demo_state, driven |-> st, commanded |-> commanded,
                          above_floor |-> above, source |-> source, health |-> health,
                          score |-> score]
    BY <1>1, Zenon DEF Publish
  <2> QED
    BY <2>2, <2>3, <2>4
<1>2. ASSUME UNCHANGED report, pc' # "window" PROVE ReportInv'
  BY <1>2
<1>3. ASSUME UNCHANGED <<report, pc, st, demo_state, commanded>> PROVE ReportInv'
  BY <1>3
<1>4. CASE BeginWindow
  BY <1>4 DEF BeginWindow
<1>5. CASE Start \/ Connect \/ Disconnected
  BY <1>2, <1>5 DEF Start, Connect, Disconnected
<1>6. CASE Sleep \/ Reboot
  BY <1>6 DEF Sleep, Reboot
<1>7. ASSUME NEW state \in ST, Drive(state) PROVE ReportInv'
  BY <1>7 DEF Drive
<1>8. ASSUME \/ \E s \in 1 .. MaxStep : Capture(s) \/ Sample(s)
             \/ \E v \in Thresholds : SetThreshold(v)
             \/ \E v \in 0 .. MaxInterval + 1 : SetInterval(v)
             \/ UNCHANGED vars
      PROVE  ReportInv'
  BY <1>3, <1>8 DEF Capture, Sample, SetThreshold, SetInterval, windowVars, cloudVars, vars
<1> QED
  BY <1>1, <1>4, <1>5, <1>6, <1>7, <1>8 DEF Next, Main, Command

(* "vib.motor" is the state the window was driven in, unless a command     *)
(* changed it during that very window (vib_window, publish_vib).           *)
THEOREM ReportNamesDrive == Spec => []ReportMatchesDrive
<1>1. Init => ReportInv
  BY DEF Init, ReportInv, ReportMatchesDrive
<1>2. ReportInv => ReportMatchesDrive
  BY DEF ReportInv
<1>3. QED
  BY <1>1, <1>2, ReportStep, PTL DEF Spec

(***************************************************************************)
(* The heuristic.                                                          *)
(***************************************************************************)

(* classify() and the score of publish_vib() draw the line in one place.   *)
LEMMA ScoreAgrees ==
    ASSUME NEW level \in Nat, NEW thresh \in Nat, thresh > FLOOR
    PROVE  Score(level, thresh) = "full" <=> classify(level, thresh) = "fault"
BY VibrationAssumption DEF Score, classify

ScoreInv == ScoreMatchesState /\ thresh_fault \in Nat

(* Every step keeps it.                                                    *)
LEMMA ScoreStep == ScoreInv /\ [Next]_vars => ScoreInv'
<1> SUFFICES ASSUME ScoreInv, [Next]_vars PROVE ScoreInv'
  OBVIOUS
<1> USE VibrationAssumption DEF ScoreInv, ScoreMatchesState
<1>1. CASE Publish
  <2>1. thresh_fault' = thresh_fault
    BY <1>1 DEF Publish, cloudVars
  <2>2. CASE report' = report
    BY <2>1, <2>2
  <2>3. ASSUME NEW source, NEW health, NEW score, NEW level \in Nat,
               report' = [motor |-> demo_state, driven |-> st, commanded |-> commanded,
                          above_floor |-> thresh_fault > FLOOR, source |-> source,
                          health |-> health, score |-> score],
               \/ source = "model"
               \/ /\ health = classify(level, thresh_fault)
                  /\ score = Score(level, thresh_fault)
        PROVE  ScoreInv'
    <3>1. thresh_fault > FLOOR =>
              (Score(level, thresh_fault) = "full" <=> classify(level, thresh_fault) = "fault")
      BY ScoreAgrees
    <3>2. /\ report'.above_floor = (thresh_fault > FLOOR) /\ report'.source = source
          /\ report'.health = health /\ report'.score = score
      BY <2>3, Zenon
    <3>3. ScoreMatchesState'
      BY <2>3, <3>1, <3>2, Zenon
    <3> QED
      BY <2>1, <3>3
  <2>4. \/ report' = report
        \/ \E source, health, score : \E level \in Nat :
              /\ report' = [motor |-> demo_state, driven |-> st, commanded |-> commanded,
                            above_floor |-> thresh_fault > FLOOR, source |-> source,
                            health |-> health, score |-> score]
              /\ \/ source = "model"
                 \/ /\ health = classify(level, thresh_fault)
                    /\ score = Score(level, thresh_fault)
    <3> SUFFICES ASSUME report' # report
                 PROVE  \E source, health, score : \E level \in Nat :
                          /\ report' = [motor |-> demo_state, driven |-> st,
                                        commanded |-> commanded,
                                        above_floor |-> thresh_fault > FLOOR,
                                        source |-> source, health |-> health,
                                        score |-> score]
                          /\ \/ source = "model"
                             \/ /\ health = classify(level, thresh_fault)
                                /\ score = Score(level, thresh_fault)
      OBVIOUS
    <3>1. PICK level \in (IF heard = None THEN {0} ELSE Levels) :
              LET voted == heard \in Classes IN
              report' = [motor |-> demo_state, driven |-> st, commanded |-> commanded,
                         above_floor |-> thresh_fault > FLOOR,
                         source |-> IF voted THEN "model" ELSE "rms",
                         health |-> IF voted THEN class_to_health(heard)
                                    ELSE classify(level, thresh_fault),
                         score |-> IF voted THEN "mean" ELSE Score(level, thresh_fault)]
      BY <1>1, Zenon DEF Publish
    <3>2. level \in Nat
      OBVIOUS
    <3> QED
      BY <3>1, <3>2, Zenon
  <2> QED
    BY <2>2, <2>3, <2>4, Zenon
<1>2. ASSUME \/ Start \/ Connect \/ Disconnected \/ BeginWindow \/ UNCHANGED vars
             \/ \E s \in 1 .. MaxStep : Capture(s) \/ Sample(s)
             \/ \E state \in ST : Drive(state)
             \/ \E v \in 0 .. MaxInterval + 1 : SetInterval(v)
      PROVE  ScoreInv'
  <2>1. UNCHANGED <<report, thresh_fault>>
    BY <1>2 DEF Start, Connect, Disconnected, BeginWindow, Capture, Sample, Drive,
       SetInterval, cloudVars, vars
  <2> QED
    BY <2>1
<1>3. CASE Sleep \/ Reboot
  BY <1>3 DEF Sleep, Reboot, cloudVars
<1>4. ASSUME NEW v \in Thresholds, SetThreshold(v) PROVE ScoreInv'
  BY <1>4 DEF SetThreshold
<1> QED
  BY <1>1, <1>2, <1>3, <1>4 DEF Next, Main, Command

(* The heuristic's score is full exactly when its state is fault, for      *)
(* every threshold above the noise floor, whichever side of thresh_warn it *)
(* is on (classify, publish_vib).                                          *)
THEOREM ScoreIsFaultLine == Spec => []ScoreMatchesState
<1>1. Init => ScoreInv
  BY VibrationAssumption DEF Init, ScoreInv, ScoreMatchesState
<1>2. ScoreInv => ScoreMatchesState
  BY DEF ScoreInv
<1>3. QED
  BY <1>1, <1>2, ScoreStep, PTL DEF Spec

(***************************************************************************)
(* The types.  main() sleeps for at least a second, and time stays within  *)
(* the cycle of states.                                                    *)
(***************************************************************************)

TypeInv == TypeOK /\ (pc = "sleep" => left >= 1)

(* The cycle of states is no shorter than a pulse.                         *)
LEMMA CycleHoldsPulse == PERIOD \in Nat \ {0} /\ STATE_MS \in Nat \ {0} /\ PERIOD <= STATE_MS
<1>1. PERIOD \in Nat \ {0} /\ STATE_MS \in Nat \ {0} /\ STATE_MS % PERIOD = 0
  BY VibrationAssumption
<1>2. \A n \in Nat, p \in Nat \ {0} : n < p => n % p = n
  BY ModUnique
<1> QED
  BY <1>1, <1>2

(* Time that passes stays within it.                                       *)
LEMMA PassInCycle ==
    ASSUME t \in 0 .. 4 * STATE_MS - 1, NEW s \in 1 .. MaxStep, Pass(s)
    PROVE  t' \in 0 .. 4 * STATE_MS - 1
<1> DEFINE n == IF build = "capture" THEN 4 * STATE_MS ELSE PERIOD
<1>1. n \in Nat \ {0} /\ n <= 4 * STATE_MS /\ 4 * STATE_MS \in Nat
  BY CycleHoldsPulse
<1>2. t + s \in Nat
  BY <1>1, VibrationAssumption
<1>3. t' = (t + s) % n
  BY DEF Pass
<1> HIDE DEF n
<1>4. (t + s) % n \in 0 .. n - 1
  BY <1>1, <1>2, DivMod
<1> QED
  BY <1>1, <1>3, <1>4

(* So do the motors, and the time one is on is counted up to its bound.    *)
LEMMA ApplyTyped ==
    ASSUME TypeOK, NEW state, NEW s \in 1 .. MaxStep, motors_apply(state, s)
    PROVE  /\ bal' \in BOOLEAN /\ unb' \in BOOLEAN /\ held' \in 0 .. HeldMax
           /\ t' \in 0 .. 4 * STATE_MS - 1
<1>1. bal' \in BOOLEAN /\ unb' \in BOOLEAN
  BY DEF motors_apply
<1>2. held' \in 0 .. HeldMax
  BY VibrationAssumption DEF motors_apply, UpTo, HeldMax, TypeOK
<1>3. t' \in 0 .. 4 * STATE_MS - 1
  BY PassInCycle DEF motors_apply, TypeOK
<1> QED
  BY <1>1, <1>2, <1>3

(* The score is one of the five for every magnitude and threshold.         *)
LEMMA ScoreTyped ==
    ASSUME NEW level \in Nat, NEW thresh \in Nat
    PROVE  Score(level, thresh) \in {"zero", "part", "full", "nan", "mean"}
BY VibrationAssumption DEF Score

(* What publish_vib() sends is a report.                                   *)
LEMMA PublishTyped ==
    ASSUME TypeOK, Publish
    PROVE  report' \in Report \cup {None}
<1>1. CASE report' = report
  BY <1>1 DEF TypeOK
<1>2. CASE report' # report
  <2> DEFINE voted == heard \in Classes
             msg(level) ==
                [motor |-> demo_state, driven |-> st, commanded |-> commanded,
                 above_floor |-> thresh_fault > FLOOR,
                 source |-> IF voted THEN "model" ELSE "rms",
                 health |-> IF voted THEN class_to_health(heard)
                            ELSE classify(level, thresh_fault),
                 score |-> IF voted THEN "mean" ELSE Score(level, thresh_fault)]
  <2>1. PICK level \in (IF heard = None THEN {0} ELSE Levels) : report' = msg(level)
    BY <1>2, Zenon DEF Publish
  <2>2. level \in Nat /\ thresh_fault \in Nat
    BY VibrationAssumption DEF TypeOK
  <2>3. /\ demo_state \in ST /\ st \in ST /\ commanded \in BOOLEAN
        /\ (thresh_fault > FLOOR) \in BOOLEAN
    BY DEF TypeOK
  <2>4. (IF voted THEN "model" ELSE "rms") \in {"model", "rms"}
    OBVIOUS
  <2>5. class_to_health(heard) \in Healths /\ classify(level, thresh_fault) \in Healths
    BY DEF class_to_health, classify, Healths
  <2>6. (IF voted THEN class_to_health(heard) ELSE classify(level, thresh_fault)) \in Healths
    BY <2>5
  <2>7. (IF voted THEN "mean" ELSE Score(level, thresh_fault))
            \in {"zero", "part", "full", "nan", "mean"}
    BY <2>2, ScoreTyped
  <2>8. msg(level) \in Report
    BY <2>3, <2>4, <2>6, <2>7, Zenon DEF Report
  <2> QED
    BY <2>1, <2>8, Zenon
<1> QED
  BY <1>1, <1>2

(* Every step keeps the types.                                             *)
LEMMA TypeStep == TypeInv /\ [Next]_vars => TypeInv'
<1> SUFFICES ASSUME TypeInv, [Next]_vars PROVE TypeInv'
  OBVIOUS
<1> USE DEF TypeInv
<1>1. CASE Start \/ Connect \/ Disconnected
  BY <1>1 DEF Start, Connect, Disconnected, TypeOK, Pcs, motorVars, windowVars, cloudVars
<1>2. CASE BeginWindow
  <2>1. held' \in 0 .. HeldMax /\ elapsed' \in 0 .. WINDOW + MaxStep
    BY <1>2, VibrationAssumption DEF BeginWindow, HeldMax
  <2> QED
    BY <1>2, <2>1 DEF BeginWindow, TypeOK, Pcs
<1>3. CASE Publish
  <2>1. report' \in Report \cup {None}
    BY <1>3, PublishTyped
  <2>2. left' \in 0 .. MaxInterval /\ left' >= 1 /\ elapsed' \in 0 .. WINDOW + MaxStep
    BY <1>3, VibrationAssumption DEF Publish, TypeOK
  <2>3. st' \in ST /\ heard' \in Classes \cup {None, "sample"} /\ pc' \in Pcs
    BY <1>3 DEF Publish, ST, Pcs
  <2> QED
    BY <1>3, <2>1, <2>2, <2>3 DEF Publish, TypeOK, motorVars, cloudVars
<1>4. CASE Sleep
  <2>1. left' \in 0 .. MaxInterval /\ (pc' = "sleep" => left' >= 1)
    BY <1>4, VibrationAssumption DEF Sleep, TypeOK
  <2>2. t' \in 0 .. 4 * STATE_MS - 1
    BY <1>4, CycleHoldsPulse DEF Sleep
  <2>3. held' \in 0 .. HeldMax
    BY <1>4, VibrationAssumption DEF Sleep, HeldMax
  <2>4. report' \in Report \cup {None} /\ pc' \in Pcs
    BY <1>4 DEF Sleep, TypeOK, Pcs
  <2> QED
    BY <1>4, <2>1, <2>2, <2>3, <2>4 DEF Sleep, TypeOK, windowVars, cloudVars
<1>5. ASSUME NEW s \in 1 .. MaxStep, Capture(s) PROVE TypeInv'
  <2>1. \E state : motors_apply(state, s)
    BY <1>5 DEF Capture
  <2>2. /\ bal' \in BOOLEAN /\ unb' \in BOOLEAN /\ held' \in 0 .. HeldMax
        /\ t' \in 0 .. 4 * STATE_MS - 1
    BY <2>1, ApplyTyped
  <2> QED
    BY <1>5, <2>2 DEF Capture, TypeOK, windowVars, cloudVars
<1>6. ASSUME NEW s \in 1 .. MaxStep, Sample(s) PROVE TypeInv'
  <2>1. motors_apply(st, s)
    BY <1>6 DEF Sample
  <2>2. /\ bal' \in BOOLEAN /\ unb' \in BOOLEAN /\ held' \in 0 .. HeldMax
        /\ t' \in 0 .. 4 * STATE_MS - 1
    BY <2>1, ApplyTyped
  <2>3. elapsed' \in 0 .. WINDOW + MaxStep
    BY <1>6, VibrationAssumption DEF Sample, TypeOK
  <2>4. heard' \in Classes \cup {None, "sample"}
    BY <1>6 DEF Sample, TypeOK
  <2> QED
    BY <1>6, <2>2, <2>3, <2>4 DEF Sample, TypeOK, cloudVars
<1>7. ASSUME NEW state \in ST, Drive(state) PROVE TypeInv'
  BY <1>7 DEF Drive, TypeOK, motorVars, windowVars
<1>8. ASSUME NEW v \in Thresholds, SetThreshold(v) PROVE TypeInv'
  BY <1>8 DEF SetThreshold, TypeOK, motorVars, windowVars
<1>9. ASSUME NEW v \in 0 .. MaxInterval + 1, SetInterval(v) PROVE TypeInv'
  BY <1>9 DEF SetInterval, TypeOK, motorVars, windowVars
<1>10. CASE Reboot
  <2>1. /\ t' \in 0 .. 4 * STATE_MS - 1 /\ held' \in 0 .. HeldMax
        /\ elapsed' \in 0 .. WINDOW + MaxStep /\ left' \in 0 .. MaxInterval
        /\ publish_interval_sec' \in 1 .. MaxInterval
    BY <1>10, VibrationAssumption DEF Reboot, HeldMax
  <2> QED
    BY <1>10, <2>1 DEF Reboot, TypeOK, Pcs, ST
<1>11. CASE UNCHANGED vars
  BY <1>11 DEF vars, TypeOK, motorVars, windowVars, cloudVars
<1> QED
  BY <1>1, <1>2, <1>3, <1>4, <1>5, <1>6, <1>7, <1>8, <1>9, <1>10, <1>11
     DEF Next, Main, Command

(* Every variable keeps its type: an interval set over the cloud is in     *)
(* range when main() sleeps by it, and every window ends in a report whose *)
(* score is a case of publish_vib()'s formula.                             *)
THEOREM VibrationTyped == Spec => []TypeOK
<1>1. Init => TypeInv
  <2> SUFFICES ASSUME Init PROVE TypeInv
    OBVIOUS
  <2>1. /\ t \in 0 .. 4 * STATE_MS - 1 /\ held \in 0 .. HeldMax
        /\ elapsed \in 0 .. WINDOW + MaxStep /\ left \in 0 .. MaxInterval
        /\ publish_interval_sec \in 1 .. MaxInterval
    BY VibrationAssumption DEF Init, HeldMax
  <2> QED
    BY <2>1 DEF Init, TypeInv, TypeOK, Pcs, ST
<1>2. TypeInv => TypeOK
  BY DEF TypeInv
<1>3. QED
  BY <1>1, <1>2, TypeStep, PTL DEF Spec
=============================================================================
