------------------------- MODULE VisionLoopProofs -------------------------
(* Theorems about VisionLoop, for all numbers of frames.                   *)
EXTENDS VisionLoop, SequenceTheorems, TLAPS

(***************************************************************************)
(* The snapshot frame.  FrameOwned is not inductive: it needs that a pass  *)
(* that is to take a picture cannot have begun while the worker had one,   *)
(* and that the worker has at most one.                                    *)
(***************************************************************************)

Taking == {"capture", "infer", "led", "led_apply", "tag", "clear_want", "give"}

Owned == uploading \/ snap_go = 1

SnapInv ==
    /\ pc \in Pcs
    /\ snap_go \in 0 .. 1
    /\ Owned => snap_busy
    /\ ~(uploading /\ snap_go = 1)
    /\ pc \in Taking /\ want_snap => ~Owned
    /\ pc \in {"clear_want", "give"} => want_snap
    /\ pc \in {"boot", "selftest"} => ~Owned

(* Every step keeps it.                                                    *)
LEMMA SnapStep == SnapInv /\ [Next]_vars => SnapInv'
<1> SUFFICES ASSUME SnapInv, [Next]_vars PROVE SnapInv'
  OBVIOUS
<1> USE DEF SnapInv, Owned, Taking, Pcs
<1>1. ASSUME UNCHANGED <<snap_busy, snap_go, uploading, want_snap>>,
             pc' \in Pcs,
             pc' \in Taking => pc \in Taking,
             pc' \in {"clear_want", "give"} => pc \in {"clear_want", "give"} \/ want_snap,
             pc' \notin {"boot", "selftest"} \/ pc \in {"boot", "selftest"}
      PROVE  SnapInv'
  BY <1>1
<1>2. CASE Boot \/ SelfTestPasses \/ SelfTestFails \/ Connect \/ Disconnected
  BY <1>2, <1>1 DEF Boot, SelfTestPasses, SelfTestFails, Connect, Disconnected, Goto,
                    snapVars
<1>3. CASE Step
  BY <1>3 DEF Step, Goto, snapVars
<1>4. CASE Capture \/ InferFails \/ LedMode \/ led_apply
  BY <1>4, <1>1 DEF Capture, InferFails, LedMode, led_apply, Goto, snapVars
<1>5. ASSUME NEW above \in BOOLEAN, occupancy_update(above) PROVE SnapInv'
  BY <1>5, <1>1 DEF occupancy_update, Goto, snapVars
<1>6. CASE Tag \/ Publish \/ Sleep
  BY <1>6, <1>1 DEF Tag, Publish, Sleep, Goto, snapVars
<1>7. CASE ClearWant
  BY <1>7, <1>1 DEF ClearWant, Goto
<1>8. CASE Give
  BY <1>8 DEF Give, Goto
<1>9. CASE Upload
  BY <1>9 DEF Upload
<1>10. CASE Uploaded
  BY <1>10 DEF Uploaded
<1>11. ASSUME UNCHANGED <<pc, snap_busy, snap_go, uploading, want_snap>> PROVE SnapInv'
  BY <1>11
<1>12. ASSUME \/ Drain \/ SessionLost \/ LedCommanded \/ UNCHANGED vars
              \/ \E c \in Callers : Ask(c) \/ snapshot_request(c)
              \/ \E m \in Modes : LedCommand(m)
       PROVE  SnapInv'
  BY <1>11, <1>12 DEF Drain, SessionLost, LedCommanded, Ask, snapshot_request, LedCommand,
                      snapVars, vars
<1> QED
  BY <1>2, <1>3, <1>4, <1>5, <1>6, <1>7, <1>8, <1>9, <1>10, <1>12 DEF Next, Main

(* At first nobody has a frame.                                            *)
LEMMA InitSnap == Init => SnapInv
BY DEF Init, SnapInv, Owned, Taking, Pcs

(* "Worker owns snap_frame/png_buf": from the moment the worker is told of *)
(* a frame until it is done with it, the loop takes no other picture,      *)
(* whoever asks (vision_step, snapshot_request, snapshot_worker).          *)
THEOREM WorkerOwnsFrame == Spec => []FrameOwned
<1>1. SnapInv => FrameOwned
  BY DEF SnapInv, FrameOwned, Owned, Taking, Pcs
<1>2. QED
  BY <1>1, InitSnap, SnapStep, PTL DEF Spec

(***************************************************************************)
(* The LED.                                                                *)
(***************************************************************************)

LedInv ==
    /\ LedObeys
    /\ led_mode \in Modes
    /\ ledcmd # None => ledcmd = led_mode /\ led_mode # "auto"
    /\ pc = "led_apply" /\ led_mode # "auto" /\ ledcmd = None => raced

(* Every step keeps it.                                                    *)
LEMMA LedStep == LedInv /\ [Next]_vars => LedInv'
<1> SUFFICES ASSUME LedInv, [Next]_vars PROVE LedInv'
  OBVIOUS
<1> USE LoopAssumption DEF LedInv, LedObeys, Modes
<1>1. ASSUME UNCHANGED <<led_mode, led_state, ledcmd, raced>>,
             pc' = "led_apply" => pc = "led_apply" \/ led_mode = "auto"
      PROVE  LedInv'
  BY <1>1
<1>2. CASE led_apply
  BY <1>2 DEF led_apply, Goto
<1>3. ASSUME NEW m \in Modes, LedCommand(m) PROVE LedInv'
  BY <1>3 DEF LedCommand
<1>4. CASE LedCommanded
  BY <1>4 DEF LedCommanded
<1>5. ASSUME NEW above \in BOOLEAN, occupancy_update(above) PROVE LedInv'
  BY <1>5, <1>1 DEF occupancy_update, Goto, ledVars
<1>6. CASE \/ Boot \/ SelfTestPasses \/ SelfTestFails \/ Connect \/ Disconnected
           \/ Step \/ Capture \/ InferFails \/ LedMode \/ Tag \/ ClearWant \/ Give
           \/ Publish \/ Sleep
  BY <1>6, <1>1 DEF Boot, SelfTestPasses, SelfTestFails, Connect, Disconnected, Step,
     Capture, InferFails, LedMode, Tag, ClearWant, Give, Publish, Sleep, Goto, ledVars
<1>7. ASSUME \/ Drain \/ SessionLost \/ Upload \/ Uploaded \/ UNCHANGED vars
             \/ \E c \in Callers : Ask(c) \/ snapshot_request(c)
      PROVE  LedInv'
  BY <1>7, <1>1 DEF Drain, SessionLost, Upload, Uploaded, Ask, snapshot_request, ledVars,
     vars
<1> QED
  BY <1>2, <1>3, <1>4, <1>5, <1>6, <1>7 DEF Next, Main

(* At first the LED follows the occupancy.                                 *)
LEMMA InitLed == Init => LedInv
BY DEF Init, LedInv, LedObeys, Modes

(* "LED forced on", "LED forced off": between commands a forced LED is as  *)
(* acknowledged, unless the command fell between main()'s reading of       *)
(* led_mode and its use (cmd_led, vision_step, led_apply).                 *)
THEOREM ForcedLedObeys == Spec => []LedObeys
<1>1. LedInv => LedObeys
  BY DEF LedInv
<1>2. QED
  BY <1>1, InitLed, LedStep, PTL DEF Spec

(***************************************************************************)
(* Publishing.                                                             *)
(***************************************************************************)

(* FlipPublished is not inductive: it needs that, from the first message   *)
(* of a session on, the last one still holds or the pass that flipped has  *)
(* yet to publish, and that no pass sleeps before the first.               *)
PublishInv ==
    /\ pc = "sleep" => ~due
    /\ session /\ ~due /\ ~unsent =>
          \/ published = occupied
          \/ flipped /\ pc \in {"led", "led_apply", "tag", "clear_want", "give", "publish"}

(* Every step keeps it.                                                    *)
LEMMA PublishStep == PublishInv /\ [Next]_vars => PublishInv'
<1> SUFFICES ASSUME PublishInv, [Next]_vars PROVE PublishInv'
  OBVIOUS
<1> USE DEF PublishInv
<1>1. ASSUME NEW above \in BOOLEAN, occupancy_update(above) PROVE PublishInv'
  BY <1>1 DEF occupancy_update, Goto, teleVars, linkVars
<1>2. CASE Publish
  BY <1>2 DEF Publish, publish_vision, Goto, occVars, teleVars, linkVars
<1>3. CASE Step
  BY <1>3 DEF Step, Goto, teleVars, linkVars
<1>4. CASE \/ Boot \/ SelfTestPasses \/ SelfTestFails \/ Disconnected
           \/ Capture \/ InferFails \/ Sleep
  BY <1>4 DEF Boot, SelfTestPasses, SelfTestFails, Disconnected, Capture,
     InferFails, Sleep, Goto, occVars, teleVars, linkVars
<1>5. CASE LedMode \/ led_apply \/ Tag \/ ClearWant \/ Give
  BY <1>5 DEF LedMode, led_apply, Tag, ClearWant, Give, Goto, occVars, teleVars, linkVars
<1>6. ASSUME \/ Drain \/ Upload \/ Uploaded \/ LedCommanded
             \/ UNCHANGED vars
             \/ \E c \in Callers : Ask(c) \/ snapshot_request(c)
             \/ \E m \in Modes : LedCommand(m)
      PROVE  PublishInv'
  BY <1>6 DEF Drain, Upload, Uploaded, LedCommanded, Ask, snapshot_request,
     LedCommand, occVars, teleVars, linkVars, vars
<1>7. CASE Connect
  <2>1. due' /\ pc' = "step"
    BY <1>7, Zenon DEF Connect, Goto
  <2> QED
    BY <2>1
<1>8. CASE SessionLost
  <2>1. ~session' /\ UNCHANGED <<pc, due>>
    BY <1>8, Zenon DEF SessionLost
  <2> QED
    BY <2>1
<1> QED
  BY <1>1, <1>2, <1>3, <1>4, <1>5, <1>6, <1>7, <1>8 DEF Next, Main

(* "Publish immediately": in a live session, over sessions lost with what  *)
(* was on its way, the platform has been sent the present occupancy when   *)
(* the loop sleeps, unless the last message could not be made or sent      *)
(* (main(), publish_vision).                                               *)
THEOREM FlipIsPublished == Spec => []FlipPublished
<1>1. Init => PublishInv
  BY DEF Init, PublishInv
<1>2. PublishInv => FlipPublished
  BY DEF PublishInv, FlipPublished
<1>3. QED
  BY <1>1, <1>2, PublishStep, PTL DEF Spec

(***************************************************************************)
(* The hysteresis.                                                         *)
(***************************************************************************)

(* LastOf of a sequence that is short enough is the sequence, and of one   *)
(* that is too long by one the rest of it.                                 *)
LEMMA LastOfCases ==
    ASSUME NEW S, NEW a \in Seq(S), NEW n \in Nat \ {0}, Len(a) <= n + 1
    PROVE  /\ Len(a) <= n => LastOf(a, n) = a
           /\ Len(a) = n + 1 =>
                 /\ LastOf(a, n) \in Seq(S) /\ Len(LastOf(a, n)) = n
                 /\ \A k \in 1 .. n : LastOf(a, n)[k] = a[k + 1]
<1>0. Len(a) \in Nat
  OBVIOUS
<1>1. ASSUME Len(a) <= n PROVE LastOf(a, n) = a
  <2>1. ~(Len(a) > n)
    BY <1>0, <1>1
  <2>2. LastOf(a, n) = SubSeq(a, 1, Len(a))
    BY <2>1 DEF LastOf
  <2>3. SubSeq(a, 1, Len(a)) = a
    BY Zenon, SubSeqFull
  <2> QED
    BY <2>2, <2>3
<1>2. ASSUME Len(a) = n + 1
      PROVE  /\ LastOf(a, n) \in Seq(S) /\ Len(LastOf(a, n)) = n
             /\ \A k \in 1 .. n : LastOf(a, n)[k] = a[k + 1]
  <2>1. Len(a) > n /\ Len(a) - n + 1 = 2
    BY <1>0, <1>2
  <2>2. LastOf(a, n) = SubSeq(a, 2, Len(a))
    BY <2>1, Zenon DEF LastOf
  <2> QED
    BY <2>2, <1>0, <1>2
<1> QED
  BY <1>1, <1>2

(* What recent becomes with one verdict more, read from its end.           *)
Shifted(s, v, n, r) ==
    /\ Len(r) = IF Len(s) < n THEN Len(s) + 1 ELSE n
    /\ r[Len(r)] = v
    /\ \A j \in 1 .. Len(r) - 1 : r[Len(r) - j] = s[Len(s) + 1 - j]

(* One verdict more shifts what recent holds.                              *)
LEMMA LastOfAppend ==
    ASSUME NEW S, NEW s \in Seq(S), NEW n \in Nat \ {0}, Len(s) <= n, NEW v \in S
    PROVE  /\ LastOf(Append(s, v), n) \in Seq(S)
           /\ Shifted(s, v, n, LastOf(Append(s, v), n))
<1> DEFINE r == LastOf(Append(s, v), n)
<1> HIDE DEF r
<1> SUFFICES r \in Seq(S) /\ Shifted(s, v, n, r)
  BY DEF r
<1> USE DEF Shifted
<1>0. PICK a : a = Append(s, v)
  OBVIOUS
<1>1. /\ a \in Seq(S) /\ Len(a) = Len(s) + 1 /\ a[Len(s) + 1] = v
      /\ \A k \in 1 .. Len(s) : a[k] = s[k]
  BY <1>0
<1>2. Len(s) \in Nat /\ Len(a) <= n + 1
  BY <1>1
<1>3. CASE Len(s) < n
  <2>0. Len(a) <= n
    BY <1>1, <1>2, <1>3
  <2>1. r = a
    BY <1>0, <1>1, <1>2, <2>0, LastOfCases, Zenon DEF r
  <2> QED
    BY <2>1, <1>1, <1>2, <1>3
<1>4. CASE Len(s) = n
  <2>0. Len(a) = n + 1
    BY <1>1, <1>2, <1>4
  <2>1. r \in Seq(S) /\ Len(r) = n /\ \A k \in 1 .. n : r[k] = a[k + 1]
    BY <1>0, <1>1, <1>2, <2>0, LastOfCases, Zenon DEF r
  <2>2. r[Len(r)] = v
    BY <2>1, <1>1, <1>4
  <2>3. ASSUME NEW j \in 1 .. Len(r) - 1 PROVE r[Len(r) - j] = s[Len(s) + 1 - j]
    <3>1. n - j \in 1 .. n /\ n - j + 1 \in 1 .. n /\ n + 1 - j = n - j + 1
      BY <2>1
    <3> QED
      BY <3>1, <2>1, <1>1, <1>4
  <2> QED
    BY <2>1, <2>2, <2>3, <1>4
<1>5. Len(s) < n \/ Len(s) = n
  BY <1>2
<1> QED
  BY <1>3, <1>4, <1>5, Zenon

(* A count read no further than its bound, and one verdict more on it.     *)
Upto(c, bound) == IF c < bound THEN c ELSE bound
Capped(c, bound) == IF c < bound THEN c + 1 ELSE bound

(* Reading a count up to its bound commutes with counting on.              *)
LEMMA CountedUpto ==
    ASSUME NEW c \in Nat, NEW bound \in Nat, bound <= MaxRun
    PROVE  Upto(Counted(c), bound) = Capped(Upto(c, bound), bound)
BY LoopAssumption DEF Upto, Capped, Counted

(* c counts the verdicts v at the end of s, up to bound.                   *)
Run(s, c, bound, v) ==
    /\ c \in 0 .. bound /\ c <= Len(s)
    /\ \A j \in 0 .. c - 1 : s[Len(s) - j] = v
    /\ c < bound /\ c < Len(s) => s[Len(s) - c] # v

(* A count kept as occupancy_update keeps it stays exact.                  *)
LEMMA RunStep ==
    ASSUME NEW S, NEW s \in Seq(S), NEW n \in Nat \ {0}, Len(s) <= n,
           NEW bound \in Nat \ {0}, bound <= n, NEW c,
           NEW v \in S, NEW w \in S, Run(s, c, bound, v)
    PROVE  Run(LastOf(Append(s, w), n), IF w = v THEN Capped(c, bound) ELSE 0, bound, v)
<1> DEFINE r == LastOf(Append(s, w), n)
<1>0. r \in Seq(S) /\ Shifted(s, w, n, r)
  BY LastOfAppend, Zenon
<1> HIDE DEF r
<1> SUFFICES Run(r, IF w = v THEN Capped(c, bound) ELSE 0, bound, v)
  BY DEF r
<1>1. /\ r \in Seq(S)
      /\ Len(r) = IF Len(s) < n THEN Len(s) + 1 ELSE n
      /\ r[Len(r)] = w
      /\ \A j \in 1 .. Len(r) - 1 : r[Len(r) - j] = s[Len(s) + 1 - j]
  BY <1>0 DEF Shifted
<1>2. Len(s) \in Nat /\ Len(r) \in Nat /\ Len(r) >= 1
  BY <1>1
<1>3. CASE w # v
  BY <1>1, <1>2, <1>3 DEF Run
<1>4. CASE w = v
  <2>1. /\ c \in Nat /\ c <= bound /\ c <= Len(s)
        /\ Capped(c, bound) = IF c < bound THEN c + 1 ELSE bound
    BY DEF Run, Capped
  <2> DEFINE d == Capped(c, bound)
  <2>2. d \in 0 .. bound /\ d <= Len(r) /\ d <= c + 1
    BY <1>1, <1>2, <2>1
  <2>3. ASSUME NEW j \in 0 .. d - 1 PROVE r[Len(r) - j] = v
    <3>1. CASE j = 0
      BY <3>1, <1>1, <1>2, <1>4
    <3>2. CASE j > 0
      <4>1. j \in 1 .. Len(r) - 1 /\ j - 1 \in 0 .. c - 1
        BY <3>2, <2>1, <2>2, <1>2
      <4>2. r[Len(r) - j] = s[Len(s) + 1 - j] /\ s[Len(s) - (j - 1)] = v
        BY <4>1, <1>1 DEF Run
      <4>3. Len(s) + 1 - j = Len(s) - (j - 1)
        BY <1>2
      <4> QED
        BY <4>2, <4>3
    <3> QED
      BY <3>1, <3>2
  <2>4. ASSUME d < bound, d < Len(r) PROVE r[Len(r) - d] # v
    <3>1. c < bound /\ d = c + 1
      BY <2>1, <2>4
    <3>2. c < Len(s) /\ d \in 1 .. Len(r) - 1
      BY <3>1, <2>1, <2>4, <1>1, <1>2
    <3>3. r[Len(r) - d] = s[Len(s) + 1 - d] /\ s[Len(s) - c] # v
      BY <3>1, <3>2, <1>1 DEF Run
    <3>4. Len(s) + 1 - d = Len(s) - c
      BY <3>1, <1>2, <2>1
    <3> QED
      BY <3>3, <3>4
  <2> HIDE DEF d
  <2>5. Run(r, d, bound, v)
    BY <2>2, <2>3, <2>4 DEF Run
  <2> QED
    BY <2>5, <1>4 DEF d
<1> QED
  BY <1>3, <1>4

(* The last n verdicts were v.                                             *)
EndsWith(s, n, v) == Len(s) >= n /\ \A k \in Len(s) - n + 1 .. Len(s) : s[k] = v

(* An exact count is at its bound when that many verdicts were v.          *)
LEMMA RunFull ==
    ASSUME NEW S, NEW s \in Seq(S), NEW bound \in Nat \ {0}, NEW c, NEW v \in S,
           Run(s, c, bound, v)
    PROVE  EndsWith(s, bound, v) <=> c = bound
<1> USE DEF EndsWith
<1>0. Len(s) \in Nat /\ c \in 0 .. bound /\ c <= Len(s)
  BY DEF Run
<1>1. ASSUME c = bound
      PROVE  Len(s) >= bound /\ \A k \in Len(s) - bound + 1 .. Len(s) : s[k] = v
  <2>1. ASSUME NEW k \in Len(s) - bound + 1 .. Len(s) PROVE s[k] = v
    <3>1. Len(s) - k \in 0 .. c - 1 /\ Len(s) - (Len(s) - k) = k
      BY <1>0, <1>1
    <3> QED
      BY <3>1 DEF Run
  <2> QED
    BY <2>1, <1>0, <1>1
<1>2. ASSUME c # bound, Len(s) >= bound
      PROVE  ~(\A k \in Len(s) - bound + 1 .. Len(s) : s[k] = v)
  <2>1. Len(s) - c \in Len(s) - bound + 1 .. Len(s) /\ c < bound /\ c < Len(s)
    BY <1>0, <1>2
  <2> QED
    BY <2>1 DEF Run
<1> QED
  BY <1>1, <1>2

AboveRun == Upto(consec_above, OCC_ENTER_FRAMES)
BelowRun == Upto(consec_below, OCC_CLEAR_FRAMES)

(* The counters, up to the numbers they are compared with, count exactly   *)
(* the verdicts at the end of recent, and the occupancy is where they have *)
(* taken it.                                                               *)
HysteresisInv ==
    /\ recent \in Seq(BOOLEAN) /\ Len(recent) <= OCC_CLEAR_FRAMES
    /\ occupied \in BOOLEAN /\ consec_above \in Nat /\ consec_below \in Nat
    /\ Run(recent, AboveRun, OCC_ENTER_FRAMES, TRUE)
    /\ Run(recent, BelowRun, OCC_CLEAR_FRAMES, FALSE)
    /\ AboveRun = OCC_ENTER_FRAMES => occupied
    /\ BelowRun = OCC_CLEAR_FRAMES => ~occupied

(* A count, read as what LastAll says.                                     *)
LEMMA CountExact ==
    ASSUME NEW s \in Seq(BOOLEAN), NEW bound \in Nat \ {0}, NEW c, NEW v \in BOOLEAN,
           Run(s, c, bound, v)
    PROVE  EndsWith(s, bound, v) <=> c = bound
<1>1. \A S : s \in Seq(S) /\ v \in S => (EndsWith(s, bound, v) <=> c = bound)
  BY RunFull
<1> QED
  BY <1>1

(* occupancy_update keeps the counts exact.                                *)
LEMMA UpdateCounts ==
    ASSUME HysteresisInv, NEW above \in BOOLEAN, occupancy_update(above)
    PROVE  /\ recent' \in Seq(BOOLEAN) /\ Len(recent') <= OCC_CLEAR_FRAMES
           /\ consec_above' \in Nat /\ consec_below' \in Nat
           /\ Run(recent', AboveRun', OCC_ENTER_FRAMES, TRUE)
           /\ Run(recent', BelowRun', OCC_CLEAR_FRAMES, FALSE)
<1> USE LoopAssumption DEF HysteresisInv
<1>1. recent' = LastOf(Append(recent, above), OCC_CLEAR_FRAMES)
  BY DEF occupancy_update
<1>2. recent' \in Seq(BOOLEAN) /\ Shifted(recent, above, OCC_CLEAR_FRAMES, recent')
  BY <1>1, LastOfAppend, Zenon
<1>3. Len(recent') <= OCC_CLEAR_FRAMES
  BY <1>2 DEF Shifted
<1>4. /\ AboveRun' = IF above = TRUE THEN Capped(AboveRun, OCC_ENTER_FRAMES) ELSE 0
      /\ BelowRun' = IF above = FALSE THEN Capped(BelowRun, OCC_CLEAR_FRAMES) ELSE 0
      /\ consec_above' \in Nat /\ consec_below' \in Nat
  <2>1. /\ consec_above' = IF above THEN Counted(consec_above) ELSE 0
        /\ consec_below' = IF above THEN 0 ELSE Counted(consec_below)
    BY DEF occupancy_update
  <2>2. Counted(consec_above) \in Nat /\ Counted(consec_below) \in Nat
    BY DEF Counted
  <2>3. /\ Upto(Counted(consec_above), OCC_ENTER_FRAMES) = Capped(AboveRun, OCC_ENTER_FRAMES)
        /\ Upto(Counted(consec_below), OCC_CLEAR_FRAMES) = Capped(BelowRun, OCC_CLEAR_FRAMES)
    BY CountedUpto DEF AboveRun, BelowRun
  <2>4. Upto(0, OCC_ENTER_FRAMES) = 0 /\ Upto(0, OCC_CLEAR_FRAMES) = 0
    BY DEF Upto
  <2>5. /\ AboveRun' = Upto(consec_above', OCC_ENTER_FRAMES)
        /\ BelowRun' = Upto(consec_below', OCC_CLEAR_FRAMES)
    BY DEF AboveRun, BelowRun
  <2>6. CASE above
    BY <2>1, <2>2, <2>3, <2>4, <2>5, <2>6, Zenon
  <2>7. CASE ~above
    BY <2>1, <2>2, <2>3, <2>4, <2>5, <2>7, Zenon
  <2> QED
    BY <2>6, <2>7
<1>5. OCC_CLEAR_FRAMES <= OCC_CLEAR_FRAMES
  OBVIOUS
<1>6. Run(recent', IF above = TRUE THEN Capped(AboveRun, OCC_ENTER_FRAMES) ELSE 0,
          OCC_ENTER_FRAMES, TRUE)
  BY <1>1, RunStep, Zenon
<1>7. Run(recent', IF above = FALSE THEN Capped(BelowRun, OCC_CLEAR_FRAMES) ELSE 0,
          OCC_CLEAR_FRAMES, FALSE)
  BY <1>1, <1>5, RunStep, Zenon
<1> QED
  BY <1>2, <1>3, <1>4, <1>6, <1>7, Zenon

(* Every step keeps the invariant.                                         *)
LEMMA HysteresisStep == HysteresisInv /\ [Next]_vars => HysteresisInv'
<1> SUFFICES ASSUME HysteresisInv, [Next]_vars PROVE HysteresisInv'
  OBVIOUS
<1>1. ASSUME NEW above \in BOOLEAN, occupancy_update(above) PROVE HysteresisInv'
  <2>1. /\ recent' \in Seq(BOOLEAN) /\ Len(recent') <= OCC_CLEAR_FRAMES
        /\ consec_above' \in Nat /\ consec_below' \in Nat
        /\ Run(recent', AboveRun', OCC_ENTER_FRAMES, TRUE)
        /\ Run(recent', BelowRun', OCC_CLEAR_FRAMES, FALSE)
    BY <1>1, UpdateCounts
  <2>2. /\ occupied' \in BOOLEAN
        /\ AboveRun' = OCC_ENTER_FRAMES => occupied'
        /\ BelowRun' = OCC_CLEAR_FRAMES => ~occupied'
    BY <1>1, <2>1, LoopAssumption DEF occupancy_update, HysteresisInv, AboveRun, BelowRun, Upto
  <2> QED
    BY <2>1, <2>2 DEF HysteresisInv
<1>2. ASSUME UNCHANGED <<recent, occupied, consec_above, consec_below>>
      PROVE  HysteresisInv'
  BY <1>2 DEF HysteresisInv, Run, AboveRun, BelowRun
<1>3. CASE \/ Boot \/ SelfTestPasses \/ SelfTestFails \/ Connect \/ Disconnected
           \/ Step \/ Capture \/ InferFails \/ LedMode \/ led_apply \/ Tag
           \/ ClearWant \/ Give \/ Publish \/ Sleep
  BY <1>2, <1>3 DEF Boot, SelfTestPasses, SelfTestFails, Connect, Disconnected, Step,
     Capture, InferFails, LedMode, led_apply, Tag, ClearWant, Give, Publish, Sleep, occVars
<1>4. ASSUME \/ Drain \/ SessionLost \/ Upload \/ Uploaded \/ LedCommanded
             \/ UNCHANGED vars
             \/ \E c \in Callers : Ask(c) \/ snapshot_request(c)
             \/ \E m \in Modes : LedCommand(m)
      PROVE  HysteresisInv'
  BY <1>2, <1>4 DEF Drain, SessionLost, Upload, Uploaded, LedCommanded, Ask,
     snapshot_request, LedCommand, occVars, vars
<1> QED
  BY <1>1, <1>3, <1>4 DEF Next, Main

(* What Hysteresis says of one step, from the exact counts before and      *)
(* after it.                                                               *)
LEMMA HysteresisOfStep ==
    HysteresisInv /\ HysteresisInv' /\ [Next]_vars =>
        [/\ LastAll(OCC_ENTER_FRAMES, TRUE)' => occupied'
         /\ LastAll(OCC_CLEAR_FRAMES, FALSE)' => ~occupied'
         /\ occupied' /\ ~occupied => LastAll(OCC_ENTER_FRAMES, TRUE)'
         /\ ~occupied' /\ occupied => LastAll(OCC_CLEAR_FRAMES, FALSE)']_vars
<1> SUFFICES ASSUME HysteresisInv, HysteresisInv', [Next]_vars
    PROVE  /\ LastAll(OCC_ENTER_FRAMES, TRUE)' => occupied'
           /\ LastAll(OCC_CLEAR_FRAMES, FALSE)' => ~occupied'
           /\ occupied' /\ ~occupied => LastAll(OCC_ENTER_FRAMES, TRUE)'
           /\ ~occupied' /\ occupied => LastAll(OCC_CLEAR_FRAMES, FALSE)'
  OBVIOUS
<1>1. /\ LastAll(OCC_ENTER_FRAMES, TRUE)' <=> AboveRun' = OCC_ENTER_FRAMES
      /\ LastAll(OCC_CLEAR_FRAMES, FALSE)' <=> BelowRun' = OCC_CLEAR_FRAMES
  <2>1. EndsWith(recent', OCC_ENTER_FRAMES, TRUE) <=> AboveRun' = OCC_ENTER_FRAMES
    BY CountExact, LoopAssumption DEF HysteresisInv
  <2>2. EndsWith(recent', OCC_CLEAR_FRAMES, FALSE) <=> BelowRun' = OCC_CLEAR_FRAMES
    BY CountExact, LoopAssumption DEF HysteresisInv
  <2> QED
    BY <2>1, <2>2, Zenon DEF EndsWith, LastAll
<1>2. /\ AboveRun' = OCC_ENTER_FRAMES => occupied'
      /\ BelowRun' = OCC_CLEAR_FRAMES => ~occupied'
  BY DEF HysteresisInv
<1>3. /\ occupied' /\ ~occupied => AboveRun' = OCC_ENTER_FRAMES
      /\ ~occupied' /\ occupied => BelowRun' = OCC_CLEAR_FRAMES
  <2>1. ASSUME NEW above \in BOOLEAN, occupancy_update(above)
        PROVE  /\ occupied' /\ ~occupied => consec_above' >= OCC_ENTER_FRAMES
               /\ ~occupied' /\ occupied => ~(consec_below' < OCC_CLEAR_FRAMES)
    BY <2>1, Zenon DEF occupancy_update, HysteresisInv
  <2>2. ASSUME NEW above \in BOOLEAN, occupancy_update(above)
        PROVE  /\ consec_above' >= OCC_ENTER_FRAMES => AboveRun' = OCC_ENTER_FRAMES
               /\ ~(consec_below' < OCC_CLEAR_FRAMES) => BelowRun' = OCC_CLEAR_FRAMES
    BY LoopAssumption DEF HysteresisInv, AboveRun, BelowRun, Upto
  <2>3. occupied' = occupied \/ \E above \in BOOLEAN : occupancy_update(above)
    <3>1. CASE \/ Boot \/ SelfTestPasses \/ SelfTestFails \/ Connect \/ Disconnected
               \/ Step \/ Capture \/ InferFails \/ LedMode \/ led_apply \/ Tag
               \/ ClearWant \/ Give \/ Publish \/ Sleep
      BY <3>1 DEF Boot, SelfTestPasses, SelfTestFails, Connect, Disconnected, Step,
         Capture, InferFails, LedMode, led_apply, Tag, ClearWant, Give, Publish, Sleep,
         occVars
    <3>2. CASE \/ Drain \/ SessionLost \/ Upload \/ Uploaded \/ LedCommanded
               \/ UNCHANGED vars
               \/ \E c \in Callers : Ask(c) \/ snapshot_request(c)
               \/ \E m \in Modes : LedCommand(m)
      BY <3>2 DEF Drain, SessionLost, Upload, Uploaded, LedCommanded, Ask,
         snapshot_request, LedCommand, occVars, vars
    <3> QED
      BY <3>1, <3>2 DEF Next, Main
  <2> QED
    BY <2>1, <2>2, <2>3, LoopAssumption DEF HysteresisInv
<1> QED
  BY <1>1, <1>2, <1>3

(* At first no verdict has been given.                                     *)
LEMMA InitHysteresis == Init => HysteresisInv
<1> SUFFICES ASSUME Init PROVE HysteresisInv
  OBVIOUS
<1>1. recent \in Seq(BOOLEAN) /\ Len(recent) = 0 /\ ~occupied
  BY DEF Init
<1>2. consec_above = 0 /\ consec_below = 0 /\ AboveRun = 0 /\ BelowRun = 0
  BY LoopAssumption DEF Init, AboveRun, BelowRun, Upto
<1>3. Run(recent, AboveRun, OCC_ENTER_FRAMES, TRUE)
  BY <1>1, <1>2, LoopAssumption DEF Run
<1>4. Run(recent, BelowRun, OCC_CLEAR_FRAMES, FALSE)
  BY <1>1, <1>2, LoopAssumption DEF Run
<1>5. Len(recent) <= OCC_CLEAR_FRAMES
  BY <1>1, LoopAssumption
<1>6. occupied \in BOOLEAN
  BY Zenon DEF Init
<1>7. AboveRun # OCC_ENTER_FRAMES /\ BelowRun # OCC_CLEAR_FRAMES
  BY <1>2, LoopAssumption
<1> QED
  BY <1>1, <1>2, <1>3, <1>4, <1>5, <1>6, <1>7, Zenon DEF HysteresisInv

(* occupancy_update() is the hysteresis it is documented as, whatever the  *)
(* verdicts and the two numbers of frames: clear to occupied exactly on    *)
(* OCC_ENTER_FRAMES verdicts above in a row, and back exactly on           *)
(* OCC_CLEAR_FRAMES below.                                                 *)
THEOREM OccupancyFollowsVerdicts == Spec => Hysteresis
BY InitHysteresis, HysteresisStep, HysteresisOfStep, PTL DEF Spec, Hysteresis

(***************************************************************************)
(* The types.  Those of the counters and of the verdicts they count, and   *)
(* of the flags between main() and the worker, are in the invariants above.*)
(***************************************************************************)

FlagTypes ==
    /\ latest \in BOOLEAN /\ cam_stopped \in BOOLEAN /\ cam_ok \in BOOLEAN
    /\ session \in BOOLEAN /\ fu_available \in BOOLEAN
    /\ flipped \in BOOLEAN /\ published \in BOOLEAN \cup {None}
    /\ due \in BOOLEAN /\ unsent \in BOOLEAN
    /\ led_state \in BOOLEAN /\ ledcmd \in {"on", "off", None} /\ raced \in BOOLEAN
    /\ want_snap \in BOOLEAN /\ snap_want \in BOOLEAN /\ snap_busy \in BOOLEAN
    /\ uploading \in BOOLEAN /\ asking \subseteq Callers

(* Every step keeps the flags' types.                                      *)
LEMMA FlagTypesStep == HysteresisInv /\ FlagTypes /\ [Next]_vars => FlagTypes'
<1> SUFFICES ASSUME HysteresisInv, FlagTypes, [Next]_vars PROVE FlagTypes'
  OBVIOUS
<1> USE DEF FlagTypes, Goto
<1>1. CASE Boot
  <2>1. cam_ok' \in BOOLEAN
    BY <1>1, Zenon DEF Boot
  <2> QED
    BY <1>1, <2>1 DEF Boot, cameraVars, occVars, ledVars, snapVars, linkVars, teleVars
<1>2. CASE SelfTestFails
  <2>1. cam_stopped' \in BOOLEAN /\ cam_ok' \in BOOLEAN
    BY <1>2, Zenon DEF SelfTestFails
  <2> QED
    BY <1>2, <2>1 DEF SelfTestFails, cameraVars, occVars, ledVars, snapVars, linkVars, teleVars
<1>3. CASE Connect
  <2>1. session' \in BOOLEAN /\ fu_available' \in BOOLEAN /\ due' \in BOOLEAN
    BY <1>3, Zenon DEF Connect
  <2> QED
    BY <1>3, <2>1 DEF Connect, cameraVars, occVars, ledVars, snapVars, linkVars, teleVars
<1>4. CASE Disconnected
  BY <1>4 DEF Disconnected, cameraVars, occVars, ledVars, snapVars, linkVars, teleVars
<1>5. CASE Step
  <2>1. want_snap' \in BOOLEAN /\ flipped' \in BOOLEAN
    BY <1>5, Zenon DEF Step
  <2> QED
    BY <1>5, <2>1 DEF Step, cameraVars, ledVars, snapVars, linkVars, teleVars
<1>6. CASE SelfTestPasses \/ Capture \/ InferFails \/ LedMode \/ Tag \/ Sleep
  BY <1>6 DEF SelfTestPasses, Capture, InferFails, LedMode, Tag, Sleep, cameraVars,
     occVars, ledVars, snapVars, linkVars, teleVars
<1>7. ASSUME NEW above \in BOOLEAN, occupancy_update(above) PROVE FlagTypes'
  <2>1. flipped' \in BOOLEAN
    BY <1>7, Zenon DEF occupancy_update
  <2> QED
    BY <1>7, <2>1 DEF occupancy_update, cameraVars, ledVars, snapVars, linkVars, teleVars
<1>8. CASE led_apply
  BY <1>8 DEF led_apply, HysteresisInv, cameraVars, occVars, snapVars, linkVars, teleVars
<1>9. CASE ClearWant \/ Give
  <2>1. snap_want' \in BOOLEAN /\ snap_busy' \in BOOLEAN
    BY <1>9, Zenon DEF ClearWant, Give, FlagTypes
  <2> QED
    BY <1>9, <2>1 DEF ClearWant, Give, cameraVars, occVars, ledVars, linkVars, teleVars
<1>10. CASE Publish
  <2>1. published' \in BOOLEAN \cup {None} /\ due' \in BOOLEAN /\ unsent' \in BOOLEAN
    <3>1. CASE publish_vision /\ due' = FALSE
      BY <3>1 DEF publish_vision, HysteresisInv
    <3>2. CASE UNCHANGED teleVars
      BY <3>2 DEF teleVars
    <3> QED
      BY <1>10, <3>1, <3>2 DEF Publish
  <2> QED
    BY <1>10, <2>1 DEF Publish, cameraVars, occVars, ledVars, snapVars, linkVars, teleVars
<1>11. CASE Drain
  BY <1>11 DEF Drain, cameraVars, occVars, ledVars, snapVars, linkVars, teleVars
<1>12. CASE SessionLost
  <2>1. session' \in BOOLEAN /\ published' \in BOOLEAN \cup {None}
    BY <1>12 DEF SessionLost
  <2> QED
    BY <1>12, <2>1 DEF SessionLost, cameraVars, occVars, ledVars, snapVars, linkVars, teleVars
<1>13. CASE Upload
  BY <1>13 DEF Upload, cameraVars, occVars, ledVars, snapVars, linkVars, teleVars
<1>14. CASE Uploaded
  <2>1. uploading' \in BOOLEAN /\ snap_busy' \in BOOLEAN
    BY <1>14, Zenon DEF Uploaded
  <2> QED
    BY <1>14, <2>1 DEF Uploaded, cameraVars, occVars, ledVars, snapVars, linkVars, teleVars
<1>15. ASSUME NEW c \in Callers, Ask(c) PROVE FlagTypes'
  BY <1>15 DEF Ask, cameraVars, occVars, ledVars, linkVars, teleVars
<1>16. ASSUME NEW c \in Callers, snapshot_request(c) PROVE FlagTypes'
  BY <1>16 DEF snapshot_request, cameraVars, occVars, ledVars, linkVars, teleVars
<1>17. ASSUME NEW m \in Modes, LedCommand(m) PROVE FlagTypes'
  <2>1. ledcmd' \in {"on", "off", None} /\ raced' \in BOOLEAN
    BY <1>17 DEF LedCommand, Modes
  <2>2. UNCHANGED <<latest, cam_stopped, cam_ok, session, fu_available, flipped, due,
                    published, unsent, led_state, want_snap, snap_want, snap_busy,
                    uploading, asking>>
    BY <1>17 DEF LedCommand, cameraVars, occVars, snapVars, linkVars, teleVars
  <2> QED
    BY <2>1, <2>2
<1>18. CASE LedCommanded
  <2>1. led_state' \in BOOLEAN /\ raced' \in BOOLEAN
    BY <1>18, Zenon DEF LedCommanded
  <2> QED
    BY <1>18, <2>1 DEF LedCommanded, cameraVars, occVars, snapVars, linkVars, teleVars
<1>19. CASE UNCHANGED vars
  BY <1>19 DEF vars, cameraVars, occVars, ledVars, snapVars, linkVars, teleVars
<1> QED
  BY <1>1, <1>2, <1>3, <1>4, <1>5, <1>6, <1>7, <1>8, <1>9, <1>10,
     <1>11, <1>12, <1>13, <1>14, <1>15, <1>16, <1>17, <1>18, <1>19 DEF Next, Main

(* Every variable keeps its type; the semaphore of the worker, which       *)
(* vision_step gives and snapshot_worker takes, never goes above one.      *)
THEOREM LoopTyped == Spec => []TypeOK
<1> DEFINE Inv == SnapInv /\ LedInv /\ HysteresisInv /\ FlagTypes
<1>1. Init => Inv
  <2> SUFFICES ASSUME Init PROVE Inv
    OBVIOUS
  <2>1. SnapInv
    BY InitSnap
  <2>2. LedInv
    BY InitLed
  <2>3. HysteresisInv
    BY InitHysteresis
  <2>4. FlagTypes
    BY DEF Init, FlagTypes
  <2> QED
    BY <2>1, <2>2, <2>3, <2>4
<1>2. Inv /\ [Next]_vars => Inv'
  BY SnapStep, LedStep, HysteresisStep, FlagTypesStep
<1>3. Inv => TypeOK
  <2> SUFFICES ASSUME Inv PROVE TypeOK
    OBVIOUS
  <2> QED
    BY DEF SnapInv, LedInv, HysteresisInv, FlagTypes, TypeOK
<1> QED
  BY <1>1, <1>2, <1>3, PTL DEF Spec
=============================================================================
