--------------------------- MODULE GatewayProofs ---------------------------
(***************************************************************************)
(* The gateway's main loop uses its spool as the spool's specification     *)
(* allows, so what is proved of the spool holds of the gateway; what the   *)
(* drain loop commits is what it published; nothing is lost while the link *)
(* fails only between ticks, and only a restart makes it publish a record  *)
(* again.                                                                  *)
(***************************************************************************)
EXTENDS Gateway, SpoolProofs

----------------------------------------------------------------------------
(* Every step of the gateway is a step of the spool, or leaves it alone.   *)

InboxTyped == inbox \in Seq(Records)

LEMMA Receives ==
    InboxTyped /\ inbox # <<>> => Head(inbox) \in Records /\ Tail(inbox) \in Seq(Records)
BY DEF InboxTyped

LEMMA UnusedRecords == Unused \subseteq Records
BY DEF Unused

LEMMA PublishOrSpoolStep ==
    ASSUME NEW r \in Records, PublishOrSpool(r)
    PROVE  [Next]_vars /\ spool_out' = spool_out
<1>1. CASE UNCHANGED vars
  BY <1>1 DEF vars, ramVars
<1>2. CASE Push(r) \/ PushFails(r) \/ PushTooLong(r)
  <2>1. Next
    BY <1>2 DEF Next
  <2>2. spool_out' = spool_out
    BY <1>2 DEF Push, PushFails, PushTooLong
  <2> QED
    BY <2>1, <2>2
<1> QED
  BY <1>1, <1>2 DEF PublishOrSpool, SpoolOrLose

LEMMA RestartStep ==
    ASSUME InboxTyped, Restart
    PROVE  Next
<1>1. CASE Reboot \/ PowerCut
  BY <1>1 DEF Next
<1>2. CASE \E r \in Records : RestartInPush(r)
  BY <1>2 DEF Next
<1> QED
  BY <1>1, <1>2, Receives, UnusedRecords DEF Restart

LEMMA GatewayStep ==
    ASSUME InboxTyped, [GatewayNext]_gatewayVars
    PROVE  [Next]_vars
<1>1. CASE Start \/ DrainPeek \/ DrainCommit \/ WipeCommand
  BY <1>1 DEF Start, DrainPeek, DrainCommit, WipeCommand, Next
<1>2. CASE Ingest \/ Report
  BY <1>2, Receives, UnusedRecords, PublishOrSpoolStep DEF Ingest, Report
<1>3. CASE BringUp \/ BringUpFails \/ Tick \/ IngestBad \/ IngestDone \/ NotDue
  BY <1>3 DEF BringUp, BringUpFails, Tick, IngestBad, IngestDone, NotDue
<1>4. CASE DrainDone \/ DrainSend \/ Sleep
  BY <1>4 DEF DrainDone, DrainSend, Sleep
<1>5. CASE Arrive \/ NetworkFails \/ NetworkReturns \/ SessionEnds
  BY <1>5 DEF Arrive, NetworkFails, NetworkReturns, SessionEnds
<1>6. CASE Restart
  BY <1>6, RestartStep
<1>7. CASE UNCHANGED gatewayVars
  BY <1>7 DEF gatewayVars
<1> QED
  BY <1>1, <1>2, <1>3, <1>4, <1>5, <1>6, <1>7 DEF GatewayNext, MainLoop, Environment

LEMMA InboxStep == InboxTyped /\ [GatewayNext]_gatewayVars => InboxTyped'
<1> SUFFICES ASSUME InboxTyped, [GatewayNext]_gatewayVars PROVE InboxTyped'
  OBVIOUS
<1>1. CASE UNCHANGED inbox
  BY <1>1 DEF InboxTyped
<1>2. CASE Ingest \/ IngestBad
  BY <1>2, Receives DEF Ingest, IngestBad, InboxTyped
<1>3. CASE Arrive
  <2>1. PICK r \in Unused : inbox' = Append(inbox, r)
    BY <1>3 DEF Arrive
  <2>2. r \in Records
    BY UnusedRecords
  <2> QED
    BY <2>1, <2>2 DEF InboxTyped
<1>4. CASE Restart
  BY <1>4 DEF Restart, InboxTyped
<1>5. CASE UNCHANGED gatewayVars
  BY <1>5, <1>1 DEF gatewayVars
<1>6. CASE Start \/ BringUp \/ BringUpFails \/ Tick \/ IngestDone \/ Report \/ NotDue
  BY <1>6, <1>1 DEF Start, BringUp, BringUpFails, Tick, IngestDone, Report, NotDue
<1>7. CASE DrainPeek \/ DrainDone \/ DrainSend \/ DrainCommit \/ Sleep
  BY <1>7, <1>1 DEF DrainPeek, DrainDone, DrainSend, DrainCommit, Sleep
<1>8. CASE WipeCommand \/ NetworkFails \/ NetworkReturns \/ SessionEnds
  BY <1>8, <1>1 DEF WipeCommand, NetworkFails, NetworkReturns, SessionEnds
<1> QED
  BY <1>2, <1>3, <1>4, <1>5, <1>6, <1>7, <1>8 DEF GatewayNext, MainLoop, Environment

LEMMA InboxAlways == GatewaySpec => []InboxTyped
<1>1. GatewayInit => InboxTyped
  BY DEF GatewayInit, InboxTyped
<1> QED
  BY <1>1, InboxStep, PTL DEF GatewaySpec

(* The gateway uses the spool as Spool says its clients do: it pushes only *)
(* records of its own, once each and never between a peek and its commit.  *)
THEOREM GatewayUsesSpool == GatewaySpec => Spec
<1>1. GatewayInit => Init
  BY DEF GatewayInit
<1>2. InboxTyped /\ [GatewayNext]_gatewayVars => [Next]_vars
  BY GatewayStep
<1> QED
  BY <1>1, <1>2, InboxAlways, PTL DEF GatewaySpec, Spec

(* The gateway keeps every record its spool accepted. *)
THEOREM GatewayKeepsAccepted ==
    ASSUME HonestDisk
    PROVE  GatewaySpec => []Recoverable
BY GatewayUsesSpool, AcceptedSurvive, PTL

(* ... and hands them on first in, first out.                              *)
THEOREM GatewaySpoolsInOrder ==
    ASSUME HonestDisk
    PROVE  GatewaySpec => ImplementsDurableQueue
BY GatewayUsesSpool, SpoolIsDurableQueue, PTL

----------------------------------------------------------------------------
(* What the drain loop holds between spool_peek and spool_commit. *)

Peeked == pc \in {"send", "commit"}

DrainInv ==
    /\ InboxTyped
    /\ sends \in [Records -> Nat]
    /\ Peeked => spool_out \in Records
    /\ Peeked /\ rec_count > 0 => disk[slot_of(head_seq)].body = spool_out
    /\ pc = "commit" => sends[spool_out] > 0

LEMMA DrainInvInit == GatewayInit => DrainInv
BY DEF GatewayInit, DrainInv, InboxTyped, Peeked

LEMMA PublishOrSpoolSends ==
    ASSUME sends \in [Records -> Nat], NEW r \in Records, PublishOrSpool(r)
    PROVE  sends' \in [Records -> Nat]
BY DEF PublishOrSpool, PublishRaw

LEMMA DrainInvNext == TypeOK /\ DrainInv /\ [GatewayNext]_gatewayVars => DrainInv'
<1> SUFFICES ASSUME TypeOK, DrainInv, [GatewayNext]_gatewayVars PROVE DrainInv'
  OBVIOUS
<1> USE DEF DrainInv
<1>1. InboxTyped'
  BY InboxStep
<1>2. CASE Start \/ BringUp \/ BringUpFails \/ Tick \/ IngestBad \/ IngestDone \/ NotDue
  BY <1>1, <1>2 DEF Start, BringUp, BringUpFails, Tick, IngestBad, IngestDone, NotDue,
                    Goto, Peeked, AfterReport, cloudVars, loopVars
<1>3. CASE DrainDone \/ Sleep
  BY <1>1, <1>3 DEF DrainDone, Sleep, Goto, Peeked, cloudVars
<1>4. CASE Ingest \/ Report
  <2>1. sends' \in [Records -> Nat]
    BY <1>4, Receives, UnusedRecords, PublishOrSpoolSends DEF Ingest, Report
  <2>2. pc' \in {"ingest", "peek", "sleep"}
    BY <1>4 DEF Ingest, Report, Goto, AfterReport, loopVars
  <2> QED
    BY <1>1, <2>1, <2>2 DEF Peeked
<1>5. CASE DrainPeek
  <2>1. spool_out' # None => spool_out' \in Records /\ disk'[slot_of(head_seq')].body = spool_out'
    <3>1. UNCHANGED disk
      BY <1>5 DEF DrainPeek, Peek, diskVars
    <3>2. PICK k \in head_seq .. tail_seq :
            /\ head_seq' = k
            /\ \/ k < tail_seq /\ Good(k) /\ spool_out' = disk[slot_of(k)].body
               \/ spool_out' = None
      BY <1>5 DEF DrainPeek, Peek
    <3>3. k \in Nat
      BY DEF TypeOK
    <3>4. Good(k) => disk[slot_of(k)].body \in Records
      BY <3>3, SlotInRange DEF Good, TypeOK, Content, Written, Blank
    <3> QED
      BY <3>1, <3>2, <3>4 DEF slot_of
  <2>2. pc' # "commit" /\ (pc' = "send" => spool_out' # None)
    BY <1>5 DEF DrainPeek, Goto
  <2>3. UNCHANGED sends
    BY <1>5 DEF DrainPeek, cloudVars
  <2> QED
    BY <1>1, <2>1, <2>2, <2>3 DEF Peeked
<1>6. CASE DrainSend
  <2>1. pc = "send" /\ pc' = "commit" /\ UNCHANGED vars
    BY <1>6 DEF DrainSend, Goto
  <2>2. spool_out \in Records /\ sends' = [sends EXCEPT ![spool_out] = @ + 1]
    BY <1>6, <2>1 DEF DrainSend, PublishRaw, Peeked
  <2>3. sends' \in [Records -> Nat] /\ sends'[spool_out] > 0
    BY <2>2
  <2> QED
    BY <1>1, <2>1, <2>2, <2>3 DEF Peeked, vars, ramVars, diskVars, slot_of
<1>7. CASE DrainCommit
  BY <1>1, <1>7 DEF DrainCommit, Goto, Peeked, cloudVars
<1>8. CASE WipeCommand
  BY <1>1, <1>8 DEF WipeCommand, Wipe, Peeked, loopVars, cloudVars
<1>9. CASE Restart
  BY <1>1, <1>9 DEF Restart, Peeked
<1>10. CASE Arrive \/ NetworkFails \/ NetworkReturns \/ SessionEnds \/ UNCHANGED gatewayVars
  BY <1>1, <1>10 DEF Arrive, NetworkFails, NetworkReturns, SessionEnds, gatewayVars,
                     vars, ramVars, diskVars, loopVars, cloudVars, Peeked, slot_of
<1> QED
  BY <1>2, <1>3, <1>4, <1>5, <1>6, <1>7, <1>8, <1>9, <1>10
     DEF GatewayNext, MainLoop, Environment

LEMMA OnlyCommitDrains ==
    ASSUME TypeOK, NEW r \in Records,
           fate'[r] = "drained", fate[r] # "drained"
    PROVE  /\ ~SpoolInit /\ ~Peek /\ ~Wipe /\ ~Reboot /\ ~PowerCut /\ ~UNCHANGED vars
           /\ \A q \in Records : /\ ~PushTooLong(q) /\ ~Push(q)
                                 /\ ~PushFails(q) /\ ~RestartInPush(q)
<1>1. ASSUME NEW S, NEW f \in Fates, f # "drained" PROVE Release(S, f)[r] # "drained"
  BY <1>1 DEF Release
<1>2. Evicted[r] # "drained"
  BY <1>1 DEF Evicted, Fates
<1>3. ASSUME NEW q \in Records, PushTooLong(q) \/ Push(q) \/ PushFails(q) \/ RestartInPush(q)
      PROVE  FALSE
  <2>1. \E F \in {fate, Evicted} : \E f \in {"queued", "refused", "torn"} :
            fate' = [F EXCEPT ![q] = f]
    BY <1>3 DEF PushTooLong, Push, PushFails, RestartInPush
  <2> QED
    BY <1>2, <2>1, EvictedType DEF TypeOK
<1>4. ~Peek
  BY <1>1 DEF Peek, Fates
<1>5. ~Wipe
  BY <1>1 DEF Wipe, Fates
<1>6. ~SpoolInit /\ ~Reboot /\ ~PowerCut /\ ~UNCHANGED vars
  BY DEF SpoolInit, Reboot, PowerCut, vars, historyVars
<1> QED
  BY <1>3, <1>4, <1>5, <1>6

(* The record leaving the queue is the one peeked: the slot at head_seq    *)
(* holds both.                                                             *)
LEMMA CommitsPeeked ==
    ASSUME SpoolInv, DrainInv, DrainCommit, NEW r \in Records,
           fate'[r] = "drained", fate[r] # "drained"
    PROVE  pc = "commit" /\ r = spool_out /\ sends[r] > 0
<1>1. pc = "commit"
  BY DEF DrainCommit, Goto
<1>2. rec_count > 0 /\ r \in Queued /\ seqno[r] = head_seq
  BY DEF DrainCommit, Commit, Release, diskVars
<1>3. disk[slot_of(head_seq)] = Rec(head_seq, r)
  BY <1>2, QueuedFacts DEF SpoolInv, MediaHoldsDisk, Durable, Held
<1>4. Rec(head_seq, r).body = r
  BY DEF Rec
<1>5. spool_out = r
  BY <1>1, <1>2, <1>3, <1>4 DEF DrainInv, Peeked
<1> QED
  BY <1>1, <1>5 DEF DrainInv

LEMMA OnlyDrainCommitDrains ==
    ASSUME TypeOK, InboxTyped, GatewayNext, NEW r \in Records,
           fate'[r] = "drained", fate[r] # "drained"
    PROVE  DrainCommit
<1>1. ~Start /\ ~DrainPeek /\ ~WipeCommand
  BY OnlyCommitDrains DEF Start, DrainPeek, WipeCommand
<1>2. ~Ingest /\ ~Report
  <2>1. ASSUME NEW q \in Records, PublishOrSpool(q) PROVE FALSE
    BY <2>1, OnlyCommitDrains DEF PublishOrSpool, SpoolOrLose
  <2> QED
    BY <2>1, Receives, UnusedRecords DEF Ingest, Report
<1>3. ~Restart
  BY OnlyCommitDrains, Receives, UnusedRecords DEF Restart
<1>4. /\ ~BringUp /\ ~BringUpFails /\ ~Tick /\ ~IngestBad /\ ~IngestDone /\ ~NotDue
      /\ ~DrainDone /\ ~DrainSend /\ ~Sleep
  BY OnlyCommitDrains DEF BringUp, BringUpFails, Tick, IngestBad, IngestDone, NotDue,
                          DrainDone, DrainSend, Sleep
<1>5. ~Arrive /\ ~NetworkFails /\ ~NetworkReturns /\ ~SessionEnds
  BY OnlyCommitDrains DEF Arrive, NetworkFails, NetworkReturns, SessionEnds
<1> QED
  BY <1>1, <1>2, <1>3, <1>4, <1>5 DEF GatewayNext, MainLoop, Environment

(* The drain loop never removes a record it did not publish: a record      *)
(* becomes "drained" only in the commit that follows its own publish, and  *)
(* a spool-wipe between the two makes the commit remove nothing.           *)
THEOREM DrainsOnlySent ==
    ASSUME HonestDisk
    PROVE  GatewaySpec => CommitsWhatItSent
<1>1. SpoolInv /\ DrainInv /\ [GatewayNext]_gatewayVars => [DrainsOnlyTheSent]_gatewayVars
  <2> SUFFICES ASSUME SpoolInv, DrainInv, GatewayNext,
                      NEW r \in Records, fate'[r] = "drained", fate[r] # "drained"
               PROVE  pc = "commit" /\ r = spool_out /\ sends[r] > 0
    BY DEF DrainsOnlyTheSent
  <2>1. DrainCommit
    BY OnlyDrainCommitDrains DEF SpoolInv, DrainInv
  <2> QED
    BY <2>1, CommitsPeeked
<1>2. SpoolInv => TypeOK
  BY DEF SpoolInv
<1>3. GatewaySpec => []SpoolInv
  BY GatewayUsesSpool, SpoolInvariant, PTL
<1>4. GatewaySpec => []DrainInv
  BY <1>2, <1>3, DrainInvInit, DrainInvNext, PTL DEF GatewaySpec
<1> QED
  BY <1>1, <1>3, <1>4, PTL DEF GatewaySpec, CommitsWhatItSent

----------------------------------------------------------------------------
(* The types of the loop's own variables. *)

LoopTypes ==
    /\ pc \in Pcs
    /\ connected \in BOOLEAN /\ network \in BOOLEAN /\ session \in BOOLEAN
    /\ since \in 0 .. ReconnectTicks
    /\ budget \in 0 .. DRAIN_PER_TICK
    /\ Peeked => budget > 0
    /\ taken \subseteq Records /\ dropped \subseteq Records /\ received \subseteq Records

LEMMA SinceInRange ==
    ASSUME since \in 0 .. ReconnectTicks
    PROVE  AtMost(since + 1, ReconnectTicks) \in 0 .. ReconnectTicks
BY LoopAssumption DEF AtMost

LEMMA PublishOrSpoolTypes ==
    ASSUME LoopTypes, NEW r \in Records, PublishOrSpool(r)
    PROVE  /\ taken' \subseteq Records /\ dropped' \subseteq Records
           /\ received' \subseteq Records
BY DEF LoopTypes, PublishOrSpool, SpoolOrLose, PublishRaw

LEMMA LoopTypesInit == GatewayInit => LoopTypes
<1> SUFFICES ASSUME GatewayInit PROVE LoopTypes
  OBVIOUS
<1>1. since \in 0 .. ReconnectTicks /\ budget \in 0 .. DRAIN_PER_TICK
  BY LoopAssumption DEF GatewayInit
<1> QED
  BY <1>1 DEF GatewayInit, LoopTypes, Pcs, Peeked

LEMMA LoopTypesStep == LoopTypes /\ DrainInv /\ [GatewayNext]_gatewayVars => LoopTypes'
<1> SUFFICES ASSUME LoopTypes, DrainInv, [GatewayNext]_gatewayVars PROVE LoopTypes'
  OBVIOUS
<1> USE DEF LoopTypes
<1>1. CASE Start \/ BringUp \/ BringUpFails \/ IngestDone \/ DrainDone \/ Sleep
  BY <1>1 DEF Start, BringUp, BringUpFails, IngestDone, DrainDone, Sleep, Goto, Pcs, Peeked,
              cloudVars, linkVars
<1>2. CASE Tick
  <2>1. since' \in 0 .. ReconnectTicks
    BY <1>2, SinceInRange, LoopAssumption DEF Tick
  <2>2. session' \in BOOLEAN /\ connected' \in BOOLEAN
    BY <1>2 DEF Tick
  <2> QED
    BY <1>2, <2>1, <2>2 DEF Tick, Goto, Pcs, Peeked, cloudVars
<1>3. CASE NotDue \/ Report
  <2>1. budget' \in 0 .. DRAIN_PER_TICK
    BY <1>3, LoopAssumption DEF NotDue, Report
  <2>2. pc' \in {"peek", "sleep"}
    BY <1>3 DEF NotDue, Report, Goto, AfterReport
  <2>3. taken' \subseteq Records /\ dropped' \subseteq Records /\ received' \subseteq Records
    BY <1>3, PublishOrSpoolTypes, UnusedRecords DEF NotDue, Report, cloudVars
  <2>4. UNCHANGED <<connected, since, network, session>>
    BY <1>3 DEF NotDue, Report, linkVars
  <2> QED
    BY <2>1, <2>2, <2>3, <2>4 DEF Pcs, Peeked
<1>4. CASE Ingest
  <2>1. taken' \subseteq Records /\ dropped' \subseteq Records /\ received' \subseteq Records
    BY <1>4, PublishOrSpoolTypes, Receives DEF Ingest, DrainInv
  <2> QED
    BY <1>4, <2>1 DEF Ingest, loopVars, linkVars, Peeked
<1>5. CASE IngestBad
  <2>1. dropped' \subseteq Records
    BY <1>5, Receives DEF IngestBad, DrainInv
  <2> QED
    BY <1>5, <2>1 DEF IngestBad, loopVars, linkVars, Peeked
<1>6. CASE DrainPeek
  <2>1. budget > 0
    BY <1>6 DEF DrainPeek
  <2>2. UNCHANGED <<connected, since, budget, linkVars, cloudVars>> /\ pc' \in {"send", "sleep"}
    BY <1>6 DEF DrainPeek, Goto
  <2> QED
    BY <2>1, <2>2 DEF Pcs, Peeked, cloudVars, linkVars
<1>7. CASE DrainSend
  <2>1. received' \subseteq Records
    BY <1>7 DEF DrainSend, PublishRaw, Goto, DrainInv, Peeked
  <2>2. budget > 0
    BY <1>7 DEF DrainSend, Goto, Peeked
  <2> QED
    BY <1>7, <2>1, <2>2 DEF DrainSend, Goto, Pcs, Peeked, linkVars
<1>8. CASE DrainCommit
  <2>1. budget' \in 0 .. DRAIN_PER_TICK
    BY <1>8, LoopAssumption DEF DrainCommit, Goto, Peeked
  <2> QED
    BY <1>8, <2>1 DEF DrainCommit, Goto, Pcs, Peeked, linkVars, cloudVars
<1>9. CASE Arrive \/ WipeCommand
  BY <1>9 DEF Arrive, WipeCommand, loopVars, linkVars, cloudVars, Peeked
<1>10. CASE NetworkFails \/ NetworkReturns \/ SessionEnds
  <2>1. network' \in BOOLEAN /\ session' \in BOOLEAN
    <3>1. CASE NetworkFails
      BY <3>1 DEF NetworkFails
    <3>2. CASE NetworkReturns
      BY <3>2 DEF NetworkReturns
    <3>3. CASE SessionEnds
      BY <3>3 DEF SessionEnds
    <3> QED
      BY <1>10, <3>1, <3>2, <3>3
  <2> QED
    BY <1>10, <2>1 DEF NetworkFails, NetworkReturns, SessionEnds, loopVars, cloudVars, Peeked
<1>11. CASE Restart
  <2>1. taken' \subseteq Records
    BY <1>11, Receives, UnusedRecords DEF Restart, DrainInv
  <2>2. since' \in 0 .. ReconnectTicks /\ budget' \in 0 .. DRAIN_PER_TICK
    BY <1>11, LoopAssumption DEF Restart
  <2> QED
    BY <1>11, <2>1, <2>2 DEF Restart, Pcs, Peeked
<1>12. CASE UNCHANGED gatewayVars
  BY <1>12 DEF gatewayVars, loopVars, linkVars, cloudVars, Peeked
<1> QED
  BY <1>1, <1>2, <1>3, <1>4, <1>5, <1>6, <1>7, <1>8, <1>9, <1>10, <1>11, <1>12
     DEF GatewayNext, MainLoop, Environment

LEMMA DrainAlways == GatewaySpec => []DrainInv
BY GatewayUsesSpool, TypeCorrect, DrainInvInit, DrainInvNext, PTL DEF GatewaySpec

(* Every variable of the gateway keeps its type: the drain budget never    *)
(* goes below zero, and what is published is always a record.              *)
THEOREM GatewayTyped == GatewaySpec => []GatewayTypeOK
<1>1. TypeOK /\ LoopTypes /\ DrainInv => GatewayTypeOK
  BY DEF LoopTypes, DrainInv, InboxTyped, GatewayTypeOK
<1>2. LoopTypes /\ DrainInv /\ [GatewayNext]_gatewayVars => LoopTypes'
  BY LoopTypesStep
<1>3. GatewaySpec => []LoopTypes
  BY <1>2, LoopTypesInit, DrainAlways, PTL DEF GatewaySpec
<1> QED
  BY <1>1, <1>3, DrainAlways, GatewayUsesSpool, TypeCorrect, PTL

----------------------------------------------------------------------------
(* How often a record is published. *)

(* The ring's length, whatever fails. *)
RingLength == ready => rec_count = tail_seq - head_seq

LEMMA RingLengthStep == TypeOK /\ RingLength /\ [Next]_vars => RingLength'
<1> SUFFICES ASSUME TypeOK, RingLength, [Next]_vars PROVE RingLength'
  OBVIOUS
<1> USE DEF RingLength
<1>1. CASE SpoolInit
  <2>1. CASE InitFails
    BY <2>1 DEF InitFails, ramVars
  <2>2. CASE InitEmpty
    BY <2>2 DEF InitEmpty
  <2>3. CASE InitRecover
    BY <2>3 DEF InitRecover
  <2> QED
    BY <1>1, <2>1, <2>2, <2>3 DEF SpoolInit
<1>2. ASSUME NEW r \in Records, PushTooLong(r) \/ Push(r) \/ PushFails(r) PROVE RingLength'
  <2>1. head_seq \in Nat /\ tail_seq \in Nat /\ rec_count \in Int
    BY DEF TypeOK
  <2>2. CASE PushTooLong(r)
    BY <2>2 DEF PushTooLong
  <2>3. CASE Push(r)
    <3>1. /\ ready /\ tail_seq' = tail_seq + 1
          /\ head_seq' = IF Full THEN head_seq + 1 ELSE head_seq
          /\ rec_count' = IF Full THEN rec_count ELSE rec_count + 1
      BY <2>3 DEF Push, MakeRoom
    <3> QED
      BY <2>1, <3>1
  <2>4. CASE PushFails(r)
    <3>1. /\ ready /\ tail_seq' = tail_seq
          /\ head_seq' = IF Full THEN head_seq + 1 ELSE head_seq
          /\ rec_count' = IF Full THEN rec_count - 1 ELSE rec_count
      BY <2>4 DEF PushFails, MakeRoom
    <3> QED
      BY <2>1, <3>1
  <2> QED
    BY <1>2, <2>2, <2>3, <2>4
<1>3. ASSUME NEW r \in Records, RestartInPush(r) PROVE RingLength'
  BY <1>3 DEF RestartInPush, RamReset
<1>4. CASE Peek \/ Commit \/ Wipe
  <2>1. head_seq \in Nat /\ tail_seq \in Nat /\ rec_count \in Int
    BY DEF TypeOK
  <2>2. CASE Peek
    <3>1. PICK k \in head_seq .. tail_seq :
              /\ ready /\ head_seq' = k /\ rec_count' = rec_count - (k - head_seq)
              /\ UNCHANGED tail_seq
      BY <2>2 DEF Peek
    <3> QED
      BY <2>1, <3>1
  <2>3. CASE Commit
    <3>1. /\ ready /\ UNCHANGED tail_seq
          /\ \/ UNCHANGED <<head_seq, rec_count>>
             \/ head_seq' = head_seq + 1 /\ rec_count' = rec_count - 1
      BY <2>3 DEF Commit
    <3> QED
      BY <2>1, <3>1
  <2>4. CASE Wipe
    BY <2>4 DEF Wipe
  <2> QED
    BY <1>4, <2>2, <2>3, <2>4
<1>5. CASE Reboot \/ PowerCut
  BY <1>5 DEF Reboot, PowerCut, RamReset
<1>6. CASE UNCHANGED vars
  BY <1>6 DEF vars, ramVars
<1> QED
  BY <1>1, <1>2, <1>3, <1>4, <1>5, <1>6 DEF Next

(* The inbox holds records nobody has handled, each once, and a record     *)
(* nobody has handled was neither pushed nor published.                    *)
Handled == taken \cup dropped

FreshInv ==
    /\ \A i \in 1 .. Len(inbox) : inbox[i] \notin Handled
    /\ \A i, j \in 1 .. Len(inbox) : inbox[i] = inbox[j] => i = j
    /\ \A r \in Records \ Handled : fate[r] = "fresh" /\ sends[r] = 0
    /\ Peeked => fate[spool_out] # "fresh"

(* Sequence facts, apart from the gateway's. *)
LEMMA TailFacts ==
    ASSUME NEW S, NEW q \in Seq(S), q # <<>>
    PROVE  /\ Tail(q) \in Seq(S) /\ Len(q) \in Nat \ {0} /\ Len(Tail(q)) = Len(q) - 1
           /\ Head(q) = q[1]
           /\ \A i \in 1 .. Len(Tail(q)) : Tail(q)[i] = q[i + 1]
OBVIOUS

LEMMA AppendFacts ==
    ASSUME NEW S, NEW q \in Seq(S), NEW e \in S
    PROVE  /\ Append(q, e) \in Seq(S) /\ Len(q) \in Nat /\ Len(Append(q, e)) = Len(q) + 1
           /\ Append(q, e)[Len(q) + 1] = e
           /\ \A i \in 1 .. Len(q) : Append(q, e)[i] = q[i]
OBVIOUS

LEMMA InboxHead ==
    ASSUME InboxTyped, FreshInv, inbox # <<>>
    PROVE  /\ Head(inbox) \in Records \ Handled
           /\ \A i \in 1 .. Len(Tail(inbox)) :
                  Tail(inbox)[i] \notin Handled \cup {Head(inbox)}
           /\ \A i, j \in 1 .. Len(Tail(inbox)) : Tail(inbox)[i] = Tail(inbox)[j] => i = j
<1>1. inbox \in Seq(Records)
  BY DEF InboxTyped
<1>2. /\ Len(inbox) \in Nat \ {0} /\ Len(Tail(inbox)) = Len(inbox) - 1
      /\ Head(inbox) = inbox[1]
      /\ \A i \in 1 .. Len(Tail(inbox)) : Tail(inbox)[i] = inbox[i + 1]
  BY <1>1, TailFacts
<1>3. \A i \in 1 .. Len(Tail(inbox)) : i + 1 \in 1 .. Len(inbox) /\ i + 1 # 1 /\ i \in Int
  BY <1>2
<1>4. 1 \in 1 .. Len(inbox)
  BY <1>2
<1>5. /\ \A i \in 1 .. Len(inbox) : inbox[i] \notin Handled
      /\ \A i, j \in 1 .. Len(inbox) : inbox[i] = inbox[j] => i = j
  BY DEF FreshInv
<1>6. Head(inbox) \in Records \ Handled
  BY <1>2, <1>4, <1>5, Receives
<1>7. ASSUME NEW i \in 1 .. Len(Tail(inbox))
      PROVE  Tail(inbox)[i] \notin Handled \cup {Head(inbox)}
  BY <1>2, <1>3, <1>4, <1>5
<1>8. ASSUME NEW i \in 1 .. Len(Tail(inbox)), NEW j \in 1 .. Len(Tail(inbox)),
             Tail(inbox)[i] = Tail(inbox)[j]
      PROVE  i = j
  <2>1. i + 1 = j + 1
    BY <1>2, <1>3, <1>5, <1>8
  <2> QED
    BY <1>3, <2>1
<1> QED
  BY <1>6, <1>7, <1>8

(* A spool call other than a push leaves every record as fresh as it was;  *)
(* a push changes that of its record only.                                 *)
LEMMA FreshStays ==
    ASSUME TypeOK,
           SpoolInit \/ Peek \/ Commit \/ Wipe \/ Reboot \/ PowerCut \/ UNCHANGED vars
    PROVE  \A r \in Records : fate'[r] = "fresh" <=> fate[r] = "fresh"
<1>1. CASE UNCHANGED historyVars
  BY <1>1 DEF historyVars
<1>2. ASSUME NEW S, NEW f \in Fates, f # "fresh", fate' = Release(S, f)
      PROVE  \A r \in Records : fate'[r] = "fresh" <=> fate[r] = "fresh"
  BY <1>2 DEF Release, Queued
<1>3. CASE Peek
  BY <1>2, <1>3 DEF Peek, Fates
<1>4. CASE Commit
  BY <1>2, <1>4 DEF Commit, Fates
<1>5. CASE Wipe
  <2>1. \E f \in {"wiped", "orphaned"} : fate' = Release(Records, f)
    BY <1>5 DEF Wipe
  <2> QED
    BY <1>2, <2>1 DEF Fates
<1> QED
  BY <1>1, <1>3, <1>4, <1>5 DEF SpoolInit, Reboot, PowerCut, vars

LEMMA OthersStayFresh ==
    ASSUME TypeOK, NEW r \in Records,
           Push(r) \/ PushFails(r) \/ PushTooLong(r) \/ RestartInPush(r),
           NEW q \in Records, q # r, fate[q] = "fresh"
    PROVE  fate'[q] = "fresh"
<1>1. Evicted[q] = "fresh"
  BY DEF Evicted, Release, Queued
<1>2. Evicted \in [Records -> Fates]
  BY EvictedType
<1>3. CASE Push(r)
  BY <1>1, <1>2, <1>3 DEF Push
<1>4. CASE PushFails(r)
  BY <1>1, <1>2, <1>4 DEF PushFails
<1>5. CASE PushTooLong(r)
  BY <1>5 DEF PushTooLong, TypeOK
<1>6. CASE RestartInPush(r)
  BY <1>1, <1>2, <1>6 DEF RestartInPush
<1> QED
  BY <1>3, <1>4, <1>5, <1>6

LEMMA PublishEffect ==
    ASSUME TypeOK, DrainInv, NEW r \in Records, PublishOrSpool(r)
    PROVE  /\ Handled' = Handled \cup {r}
           /\ \A q \in Records \ {r} :
                  sends'[q] = sends[q] /\ (fate[q] = "fresh" => fate'[q] = "fresh")
<1>1. Handled' = Handled \cup {r}
  BY DEF PublishOrSpool, SpoolOrLose, Handled
<1>2. ASSUME NEW q \in Records \ {r} PROVE sends'[q] = sends[q]
  BY <1>2 DEF PublishOrSpool, PublishRaw, DrainInv
<1>3. ASSUME NEW q \in Records \ {r}, fate[q] = "fresh" PROVE fate'[q] = "fresh"
  <2>1. CASE UNCHANGED vars
    BY <1>3, <2>1 DEF vars, historyVars
  <2>2. CASE Push(r) \/ PushFails(r) \/ PushTooLong(r)
    BY <1>3, <2>2, OthersStayFresh
  <2> QED
    BY <2>1, <2>2 DEF PublishOrSpool, SpoolOrLose
<1> QED
  BY <1>1, <1>2, <1>3

LEMMA PeekedNotFresh ==
    ASSUME TypeOK, TraceInv, Peek, spool_out' # None
    PROVE  /\ spool_out' \in Records /\ fate[spool_out'] # "fresh"
           /\ ready /\ head_seq' \in head_seq .. tail_seq - 1 /\ UNCHANGED <<tail_seq, disk>>
           /\ disk[slot_of(head_seq')] = Rec(head_seq', spool_out')
<1>1. PICK k \in head_seq .. tail_seq :
          /\ ready /\ spool_out = None /\ head_seq' = k
          /\ \/ k < tail_seq /\ Good(k) /\ spool_out' = disk[slot_of(k)].body
             \/ UNCHANGED spool_out
          /\ UNCHANGED <<tail_seq, disk>>
  BY DEF Peek, diskVars
<1>2. k \in Nat /\ k \in head_seq .. tail_seq - 1 /\ Good(k) /\ spool_out' = disk[slot_of(k)].body
  BY <1>1 DEF TypeOK
<1>3. slot_of(k) \in Slots /\ disk[slot_of(k)] \in Content
  BY <1>2, SlotInRange DEF TypeOK
<1>4. disk[slot_of(k)] \in Written /\ disk[slot_of(k)].body \in Records
  BY <1>2, <1>3 DEF Good, Content, Written, Blank
<1>5. disk[slot_of(k)] = Rec(k, spool_out')
  BY <1>2, <1>4 DEF Good, Rec, Written
<1>6. disk[slot_of(k)] \in media[slot_of(k)]
  BY <1>3 DEF TraceInv, MediaHoldsDisk
<1>7. ~Untraced(spool_out')
  BY <1>2, <1>3, <1>6 DEF Untraced
<1> QED
  BY <1>1, <1>2, <1>4, <1>5, <1>7 DEF TraceInv

LEMMA FreshInit == GatewayInit => FreshInv
<1> SUFFICES ASSUME GatewayInit PROVE FreshInv
  OBVIOUS
<1>1. inbox = <<>> /\ taken = {} /\ dropped = {} /\ pc = "off"
  BY DEF GatewayInit
<1>2. \A r \in Records : fate[r] = "fresh" /\ sends[r] = 0
  BY DEF GatewayInit, Init
<1> QED
  BY <1>1, <1>2 DEF FreshInv, Peeked

LEMMA FreshStep ==
    TypeOK /\ TraceInv /\ LoopTypes /\ DrainInv /\ FreshInv /\ [GatewayNext]_gatewayVars
        => FreshInv'
<1> SUFFICES ASSUME TypeOK, TraceInv, LoopTypes, DrainInv, FreshInv, [GatewayNext]_gatewayVars
             PROVE  FreshInv'
  OBVIOUS
<1>i. InboxTyped
  BY DEF DrainInv
(* A step that handles no record and publishes none. *)
<1>q. ASSUME SpoolInit \/ Peek \/ Commit \/ Wipe \/ UNCHANGED vars,
             UNCHANGED <<inbox, taken, dropped, sends>>,
             Peeked' => Peeked /\ UNCHANGED spool_out
      PROVE  FreshInv'
  <2>1. \A r \in Records : fate'[r] = "fresh" <=> fate[r] = "fresh"
    BY <1>q, FreshStays
  <2>2. Handled' = Handled
    BY <1>q DEF Handled
  <2>3. Peeked' => spool_out \in Records /\ fate'[spool_out'] # "fresh"
    BY <1>q, <2>1 DEF FreshInv, DrainInv
  <2>4. \A r \in Records \ Handled' : fate'[r] = "fresh" /\ sends'[r] = 0
    BY <1>q, <2>1, <2>2 DEF FreshInv
  <2> QED
    BY <1>q, <2>2, <2>3, <2>4 DEF FreshInv
<1>1. CASE Start \/ BringUp \/ BringUpFails \/ Tick \/ IngestDone \/ NotDue
  <2>1. ~Peeked'
    BY <1>1 DEF Start, BringUp, BringUpFails, Tick, IngestDone, NotDue, Goto, AfterReport, Peeked
  <2> QED
    BY <1>1, <1>q, <2>1 DEF Start, BringUp, BringUpFails, Tick, IngestDone, NotDue, cloudVars
<1>2. CASE DrainDone \/ Sleep \/ DrainCommit
  <2>1. ~Peeked'
    BY <1>2 DEF DrainDone, Sleep, DrainCommit, Goto, Peeked
  <2> QED
    BY <1>2, <1>q, <2>1 DEF DrainDone, Sleep, DrainCommit, cloudVars
<1>3. CASE WipeCommand
  <2>1. (Peeked' <=> Peeked) /\ UNCHANGED spool_out
    BY <1>3 DEF WipeCommand, Wipe, loopVars, Peeked
  <2> QED
    BY <1>3, <1>q, <2>1 DEF WipeCommand, cloudVars
<1>4. CASE NetworkFails \/ NetworkReturns \/ SessionEnds \/ UNCHANGED gatewayVars
  <2>1. UNCHANGED <<vars, inbox, taken, dropped, sends, pc>>
    BY <1>4 DEF NetworkFails, NetworkReturns, SessionEnds, gatewayVars, loopVars, cloudVars
  <2> QED
    BY <1>q, <2>1 DEF Peeked, vars, ramVars
<1>5. CASE DrainPeek
  <2>1. Peek /\ UNCHANGED <<inbox, taken, dropped, sends>>
    BY <1>5 DEF DrainPeek, cloudVars
  <2>2. Peeked' => spool_out' # None
    BY <1>5 DEF DrainPeek, Goto, Peeked
  <2>3. Peeked' => spool_out' \in Records /\ fate[spool_out'] # "fresh"
    BY <2>1, <2>2, PeekedNotFresh
  <2>4. \A r \in Records : fate'[r] = "fresh" <=> fate[r] = "fresh"
    BY <2>1, FreshStays
  <2>5. Handled' = Handled
    BY <2>1 DEF Handled
  <2>6. \A r \in Records \ Handled' : fate'[r] = "fresh" /\ sends'[r] = 0
    BY <2>1, <2>4, <2>5 DEF FreshInv
  <2> QED
    BY <2>1, <2>3, <2>4, <2>5, <2>6 DEF FreshInv
<1>6. CASE DrainSend
  <2>1. /\ UNCHANGED vars /\ UNCHANGED <<inbox, taken, dropped>>
        /\ pc = "send" /\ sends' = [sends EXCEPT ![spool_out] = @ + 1]
    BY <1>6 DEF DrainSend, PublishRaw, Goto
  <2>2. UNCHANGED <<fate, spool_out>> /\ Handled' = Handled
    BY <2>1 DEF vars, ramVars, historyVars, Handled
  <2>3. spool_out \in Records /\ fate[spool_out] # "fresh"
    BY <2>1 DEF FreshInv, DrainInv, Peeked
  <2>4. spool_out \in Handled
    BY <2>3 DEF FreshInv
  <2>5. \A r \in Records \ Handled' : fate'[r] = "fresh" /\ sends'[r] = 0
    BY <2>1, <2>2, <2>4 DEF FreshInv, DrainInv
  <2> QED
    BY <2>1, <2>2, <2>3, <2>5 DEF FreshInv
(* Handling a record, from the inbox or of the gateway's own. *)
<1>h. ASSUME NEW r \in Records, Handled' = Handled \cup {r},
             \A q \in Records \ {r} :
                 sends'[q] = sends[q] /\ (fate[q] = "fresh" => fate'[q] = "fresh"),
             ~Peeked',
             \/ inbox' = Tail(inbox) /\ inbox # <<>> /\ r = Head(inbox)
             \/ inbox' = inbox /\ r \in Unused
             \/ inbox' = <<>>
      PROVE  FreshInv'
  <2>1. \A q \in Records \ Handled' : fate'[q] = "fresh" /\ sends'[q] = 0
    BY <1>h DEF FreshInv
  <2>2. CASE inbox' = Tail(inbox) /\ inbox # <<>> /\ r = Head(inbox)
    BY <1>h, <1>i, <2>1, <2>2, InboxHead DEF FreshInv
  <2>3. CASE inbox' = inbox /\ r \in Unused
    <3>1. DOMAIN inbox = 1 .. Len(inbox)
      BY <1>i DEF InboxTyped
    <3>2. \A i \in 1 .. Len(inbox) : inbox[i] \notin Handled'
      BY <1>h, <2>3, <3>1 DEF FreshInv, Unused
    <3> QED
      BY <1>h, <2>1, <2>3, <3>2 DEF FreshInv
  <2>4. CASE inbox' = <<>>
    <3>1. 1 .. Len(inbox') = {}
      BY <2>4
    <3> QED
      BY <1>h, <2>1, <3>1 DEF FreshInv
  <2> QED
    BY <1>h, <2>2, <2>3, <2>4
<1>7. CASE Ingest
  <2>1. PublishOrSpool(Head(inbox)) /\ inbox # <<>> /\ inbox' = Tail(inbox) /\ pc' = "ingest"
    BY <1>7 DEF Ingest, loopVars
  <2>2. PICK r \in Records : r = Head(inbox)
    BY <1>i, <2>1, InboxHead
  <2>3. /\ Handled' = Handled \cup {r}
        /\ \A q \in Records \ {r} :
               sends'[q] = sends[q] /\ (fate[q] = "fresh" => fate'[q] = "fresh")
    BY <2>1, <2>2, PublishEffect
  <2>4. ~Peeked'
    BY <2>1 DEF Peeked
  <2>5. inbox' = Tail(inbox) /\ inbox # <<>> /\ r = Head(inbox)
    BY <2>1, <2>2
  <2>6. \A q \in Records \ {r} :
            sends'[q] = sends[q] /\ (fate[q] = "fresh" => fate'[q] = "fresh")
    BY <2>1, <2>2, <2>3 DEF vars, historyVars
  <2> QED
    BY <1>h, <2>2, <2>3, <2>4, <2>5, <2>6
<1>8. CASE IngestBad
  <2>1. /\ inbox # <<>> /\ inbox' = Tail(inbox) /\ pc' = "ingest"
        /\ dropped' = dropped \cup {Head(inbox)} /\ UNCHANGED <<vars, taken, sends>>
    BY <1>8 DEF IngestBad, loopVars
  <2>2. Handled' = Handled \cup {Head(inbox)} /\ UNCHANGED fate
    BY <2>1 DEF Handled, vars, historyVars
  <2>3. PICK r \in Records : r = Head(inbox)
    BY <1>i, <2>1, InboxHead
  <2>4. ~Peeked'
    BY <2>1 DEF Peeked
  <2>5. inbox' = Tail(inbox) /\ inbox # <<>> /\ r = Head(inbox)
    BY <2>1, <2>3
  <2>6. \A q \in Records \ {r} :
            sends'[q] = sends[q] /\ (fate[q] = "fresh" => fate'[q] = "fresh")
    BY <2>1, <2>2, <2>3 DEF vars, historyVars
  <2>7. Handled' = Handled \cup {r}
    BY <2>2, <2>3
  <2> QED
    BY <1>h, <2>4, <2>5, <2>6, <2>7
<1>9. CASE Report
  <2>1. PICK r \in Unused : PublishOrSpool(r)
    BY <1>9 DEF Report
  <2>2. r \in Records /\ inbox' = inbox /\ ~Peeked'
    BY <1>9, UnusedRecords DEF Report, Goto, AfterReport, Peeked
  <2> QED
    BY <1>h, <2>1, <2>2, PublishEffect
<1>10. CASE Arrive
  <2>1. PICK r \in Unused : inbox' = Append(inbox, r)
    BY <1>10 DEF Arrive
  <2>2. r \in Records /\ r \notin Handled
    BY UnusedRecords DEF Unused, Handled
  <2>3. UNCHANGED <<taken, dropped, sends, fate, spool_out, pc>> /\ Handled' = Handled
    BY <1>10 DEF Arrive, vars, ramVars, historyVars, loopVars, cloudVars, Handled
  <2>4. inbox \in Seq(Records)
    BY <1>i DEF InboxTyped
  <2>5. /\ Len(inbox) \in Nat /\ Len(inbox') = Len(inbox) + 1
        /\ inbox'[Len(inbox) + 1] = r
        /\ \A i \in 1 .. Len(inbox) : inbox'[i] = inbox[i]
    BY <2>1, <2>2, <2>4, AppendFacts
  <2>6. \A i \in 1 .. Len(inbox) : inbox[i] # r
    <3>1. DOMAIN inbox = 1 .. Len(inbox)
      BY <2>4
    <3> QED
      BY <3>1 DEF Unused
  <2>7. \A i \in 1 .. Len(inbox') : i \in 1 .. Len(inbox) \/ i = Len(inbox) + 1
    BY <2>5
  <2>8. \A i \in 1 .. Len(inbox') : inbox'[i] \notin Handled'
    BY <2>2, <2>3, <2>5, <2>7 DEF FreshInv
  <2>9. \A i, j \in 1 .. Len(inbox') : inbox'[i] = inbox'[j] => i = j
    BY <2>5, <2>6, <2>7 DEF FreshInv
  <2> QED
    BY <2>3, <2>8, <2>9 DEF FreshInv, Peeked
<1>11. CASE Restart
  <2>1. inbox' = <<>> /\ ~Peeked' /\ UNCHANGED <<dropped, sends>>
    BY <1>11 DEF Restart, Peeked
  <2>2. CASE (Reboot \/ PowerCut) /\ UNCHANGED taken
    <3>1. \A r \in Records : fate'[r] = "fresh" <=> fate[r] = "fresh"
      BY <2>2, FreshStays
    <3>2. Handled' = Handled /\ 1 .. Len(inbox') = {}
      BY <2>1, <2>2 DEF Handled
    <3> QED
      BY <2>1, <3>1, <3>2 DEF FreshInv
  <2>3. ASSUME NEW r \in Records, RestartInPush(r), taken' = taken \cup {r}
        PROVE  FreshInv'
    <3>1. Handled' = Handled \cup {r}
      BY <2>1, <2>3 DEF Handled
    <3> QED
      BY <1>h, <2>1, <2>3, <3>1, OthersStayFresh
  <2> QED
    BY <1>11, <1>i, <2>2, <2>3, Receives, UnusedRecords DEF Restart
<1> QED
  BY <1>1, <1>2, <1>3, <1>4, <1>5, <1>6, <1>7, <1>8, <1>9, <1>10, <1>11
     DEF GatewayNext, MainLoop, Environment

(* Record r is what spool_peek would read at position k of the ring. *)
At(k, r) == k \in head_seq .. tail_seq - 1 /\ disk[slot_of(k)] = Rec(k, r)

InWindow(r) == \E k \in Int : At(k, r)

(* A record published once more than the restarts allow for is the one     *)
(* about to be committed, or cannot be peeked again before the next boot.  *)
OnceInv ==
    /\ \A r \in Records : sends[r] <= 1 + reboots
    /\ \A r \in Records : sends[r] > reboots =>
           /\ pc # "off"
           /\ (pc = "commit" /\ r = spool_out) \/ (ready => ~InWindow(r))
    /\ pc = "send" => sends[spool_out] <= reboots
    /\ Peeked => \A k \in Int : At(k, spool_out) => k = head_seq

(* No step within a boot brings a record into the window, but the push of  *)
(* that record.                                                            *)
LEMMA WindowShrinks ==
    ASSUME TypeOK, Peek \/ Commit \/ Wipe \/ UNCHANGED vars,
           NEW r \in Records, NEW k \in Int, At(k, r)'
    PROVE  At(k, r)
<1>0. Rec(k, r).seq = k /\ Rec(k, r).body = r /\ Blank # Rec(k, r)
  BY BlankBody DEF Rec
<1>1. head_seq \in Nat /\ tail_seq \in Nat
  BY DEF TypeOK
<1>2. CASE UNCHANGED vars
  BY <1>2 DEF At, vars, ramVars, diskVars, slot_of, Rec
<1>3. CASE Peek
  <2>1. head_seq' \in head_seq .. tail_seq /\ UNCHANGED <<tail_seq, disk>>
    BY <1>3 DEF Peek, diskVars
  <2> QED
    BY <1>1, <2>1 DEF At, slot_of, Rec
<1>4. CASE Commit
  <2> DEFINE h == slot_of(head_seq)
  <2>1. /\ UNCHANGED tail_seq
        /\ \/ UNCHANGED <<head_seq, disk>>
           \/ /\ head_seq' = head_seq + 1
              /\ disk' = [disk EXCEPT ![h] = Blank] \/ UNCHANGED disk
    BY <1>4 DEF Commit, diskVars
  <2>2. CASE UNCHANGED disk
    BY <1>1, <2>1, <2>2 DEF At, slot_of, Rec
  <2>3. CASE disk' = [disk EXCEPT ![h] = Blank] /\ head_seq' = head_seq + 1
    <3>1. k \in head_seq' .. tail_seq - 1 /\ disk'[slot_of(k)] = Rec(k, r)
      BY <2>1 DEF At, slot_of, Rec
    <3>2. k \in head_seq .. tail_seq - 1 /\ k \in Nat
      BY <1>1, <2>3, <3>1
    <3>3. slot_of(k) \in Slots
      BY <3>2, SlotInRange
    <3>4. disk'[slot_of(k)] = disk[slot_of(k)] \/ disk'[slot_of(k)] = Blank
      BY <2>3, <3>3 DEF TypeOK
    <3> QED
      BY <1>0, <3>1, <3>2, <3>4 DEF At
  <2> QED
    BY <2>1, <2>2, <2>3
<1>5. CASE Wipe
  BY <1>5 DEF Wipe, At
<1> QED
  BY <1>2, <1>3, <1>4, <1>5

LEMMA PushKeepsOthersOut ==
    ASSUME TypeOK, NEW q \in Records, Push(q) \/ PushFails(q) \/ PushTooLong(q),
           NEW r \in Records, r # q, NEW k \in Int, At(k, r)'
    PROVE  At(k, r)
<1> DEFINE t == slot_of(tail_seq)
           new == Rec(tail_seq, q)
<1>0. Rec(k, r).seq = k /\ Rec(k, r).body = r
  BY DEF Rec
<1>1. head_seq \in Nat /\ tail_seq \in Nat /\ t \in Slots /\ new \in Written /\ new.body = q
  BY SlotInRange, RecWritten DEF TypeOK
<1>2. CASE PushTooLong(q)
  BY <1>2 DEF PushTooLong, At, diskVars, slot_of, Rec
<1>3. PICK c : /\ c = new \/ c \in Partial(disk[t], new)
               /\ disk' = [disk EXCEPT ![t] = c] \/ PushTooLong(q)
  BY DEF Push, PushFails
<1>4. CASE disk' = [disk EXCEPT ![t] = c] /\ ~PushTooLong(q)
  <2>1. /\ head_seq' = head_seq \/ head_seq' = head_seq + 1
        /\ tail_seq' = tail_seq \/ tail_seq' = tail_seq + 1
    BY <1>4 DEF Push, PushFails, MakeRoom
  <2>2. k \in head_seq' .. tail_seq' - 1 /\ disk'[slot_of(k)] = Rec(k, r)
    BY DEF At, slot_of, Rec
  <2>3. k \in head_seq .. tail_seq /\ k \in Nat
    BY <1>1, <2>1, <2>2
  <2>4. slot_of(k) \in Slots
    BY <2>3, SlotInRange
  <2>5. CASE slot_of(k) = t
    <3>1. disk'[slot_of(k)] = c /\ c.body = r
      BY <1>0, <1>1, <1>4, <2>2, <2>4, <2>5 DEF TypeOK
    <3>2. c # new /\ c \in Partial(disk[t], new) /\ disk[t] \in Content
      BY <1>1, <1>3, <3>1 DEF TypeOK
    <3>3. c = disk[t]
      BY <1>1, <3>1, <3>2, PartialBodies
    <3>4. disk[slot_of(k)] = Rec(k, r)
      BY <2>2, <2>5, <3>1, <3>3
    <3>5. k # tail_seq
      <4>1. CASE PushFails(q)
        <5>1. tail_seq' = tail_seq
          BY <4>1 DEF PushFails
        <5> QED
          BY <1>1, <2>2, <5>1
      <4>2. CASE Push(q)
        <5>1. disk'[t] = new
          BY <1>1, <4>2 DEF Push, TypeOK
        <5> QED
          BY <2>5, <3>1, <3>2, <5>1
      <4> QED
        BY <1>4, <4>1, <4>2
    <3> QED
      BY <1>1, <2>3, <3>4, <3>5 DEF At
  <2>6. CASE slot_of(k) # t
    <3>1. disk[slot_of(k)] = Rec(k, r) /\ k # tail_seq
      BY <1>1, <1>4, <2>2, <2>4, <2>6 DEF TypeOK
    <3> QED
      BY <1>1, <2>3, <3>1 DEF At
  <2> QED
    BY <2>5, <2>6
<1> QED
  BY <1>2, <1>3, <1>4

LEMMA UntracedOut ==
    ASSUME TypeOK, TraceInv, NEW r \in Records, fate[r] = "fresh"
    PROVE  ~InWindow(r)
<1> SUFFICES ASSUME NEW k \in Int, At(k, r) PROVE FALSE
  BY DEF InWindow
<1>1. k \in Nat /\ slot_of(k) \in Slots
  BY SlotInRange DEF At, TypeOK
<1>2. disk[slot_of(k)] \in media[slot_of(k)] /\ disk[slot_of(k)].body = r
  BY <1>1 DEF TraceInv, MediaHoldsDisk, At, Rec
<1> QED
  BY <1>1, <1>2 DEF TraceInv, Untraced

LEMMA OneCopy ==
    ASSUME TypeOK, TraceInv, NEW r \in Records, NEW j \in Int, NEW k \in Int, At(j, r), At(k, r)
    PROVE  j = k
<1>1. PICK q \in Nat : TracedAt(r, q)
  BY DEF TraceInv
<1>2. ASSUME NEW i \in Int, At(i, r) PROVE i = q
  <2>1. i \in Nat /\ slot_of(i) \in Slots
    BY <1>2, SlotInRange DEF At, TypeOK
  <2>2. disk[slot_of(i)] = Rec(i, r) /\ disk[slot_of(i)] \in media[slot_of(i)]
    BY <1>2, <2>1 DEF TraceInv, MediaHoldsDisk, At
  <2>3. Rec(i, r) = Rec(q, r)
    BY <1>1, <2>1, <2>2 DEF TracedAt, Rec
  <2> QED
    BY <2>3 DEF Rec
<1> QED
  BY <1>2

LEMMA OnceInit == GatewayInit => OnceInv
<1> SUFFICES ASSUME GatewayInit PROVE OnceInv
  OBVIOUS
<1>1. reboots = 0 /\ pc = "off" /\ \A r \in Records : sends[r] = 0
  BY DEF GatewayInit, Init
<1> QED
  BY <1>1 DEF OnceInv, Peeked

LEMMA OnceStep ==
    /\ TypeOK /\ TraceInv /\ RingLength /\ LoopTypes /\ DrainInv /\ FreshInv /\ OnceInv
    /\ [GatewayNext]_gatewayVars
    => OnceInv'
<1> SUFFICES ASSUME TypeOK, TraceInv, RingLength, LoopTypes, DrainInv, FreshInv, OnceInv,
                    [GatewayNext]_gatewayVars
             PROVE  OnceInv'
  OBVIOUS
<1>i. InboxTyped /\ sends \in [Records -> Nat] /\ reboots \in Nat
  BY DEF DrainInv, TypeOK
(* A step of the loop that touches neither the ring nor the counts. *)
<1>v. ASSUME UNCHANGED <<vars, sends>>, pc' # "off",
             pc = "commit" \/ Peeked' => pc' = pc
      PROVE  OnceInv'
  <2>1. UNCHANGED <<ready, head_seq, tail_seq, disk, spool_out, reboots>>
    BY <1>v DEF vars, ramVars, diskVars
  <2>2. \A r \in Records : \A k \in Int : At(k, r)' <=> At(k, r)
    BY <2>1 DEF At, slot_of, Rec
  <2>3. \A r \in Records : InWindow(r)' <=> InWindow(r)
    BY <2>2 DEF InWindow
  <2>4. \A r \in Records : sends'[r] <= 1 + reboots'
    BY <1>v, <2>1 DEF OnceInv
  <2>5. \A r \in Records : sends'[r] > reboots' =>
            pc' # "off" /\ ((pc' = "commit" /\ r = spool_out') \/ (ready' => ~InWindow(r)'))
    BY <1>v, <2>1, <2>3 DEF OnceInv
  <2>6. pc' = "send" => sends'[spool_out'] <= reboots'
    BY <1>v, <2>1 DEF OnceInv, Peeked
  <2>7. Peeked' => spool_out \in Records /\ \A k \in Int : At(k, spool_out)' => k = head_seq'
    BY <1>v, <2>1, <2>2 DEF OnceInv, Peeked, DrainInv
  <2> QED
    BY <2>1, <2>4, <2>5, <2>6, <2>7 DEF OnceInv, At, slot_of, Rec
<1>1. CASE BringUp \/ BringUpFails \/ Tick \/ IngestBad \/ IngestDone \/ NotDue
           \/ DrainDone \/ Sleep
  BY <1>1, <1>v DEF BringUp, BringUpFails, Tick, IngestBad, IngestDone, NotDue, DrainDone,
                    Sleep, Goto, AfterReport, Peeked, cloudVars, loopVars
<1>2. CASE Arrive \/ NetworkFails \/ NetworkReturns \/ SessionEnds \/ UNCHANGED gatewayVars
  <2>1. UNCHANGED <<vars, sends, pc>>
    BY <1>2 DEF Arrive, NetworkFails, NetworkReturns, SessionEnds, gatewayVars, cloudVars, loopVars
  <2>2. CASE pc # "off"
    BY <1>v, <2>1, <2>2
  <2>3. CASE pc = "off"
    <3>1. UNCHANGED reboots
      BY <2>1 DEF vars
    <3> QED
      BY <2>1, <2>3, <3>1 DEF OnceInv, Peeked
  <2> QED
    BY <2>2, <2>3
<1>3. CASE Start
  <2>1. pc = "off" /\ pc' = "bringup" /\ UNCHANGED <<sends, reboots>>
    BY <1>3 DEF Start, Goto, SpoolInit, cloudVars
  <2>2. \A r \in Records : ~(sends[r] > reboots)
    BY <2>1 DEF OnceInv
  <2> QED
    BY <2>1, <2>2 DEF OnceInv, Peeked
<1>4. CASE WipeCommand
  <2>1. Wipe /\ UNCHANGED <<pc, sends, reboots, ready, spool_out>>
        /\ head_seq' = 0 /\ tail_seq' = 0
    BY <1>4 DEF WipeCommand, Wipe, loopVars, cloudVars
  <2>2. \A r, k : ~At(k, r)'
    BY <2>1 DEF At
  <2>3. \A r \in Records : ~InWindow(r)'
    BY <2>2 DEF InWindow
  <2> QED
    BY <2>1, <2>2, <2>3 DEF OnceInv, Peeked
<1>5. ASSUME NEW r \in Records, PublishOrSpool(r), fate[r] = "fresh", sends[r] = 0,
             pc' # "off", pc # "commit", ~Peeked'
      PROVE  OnceInv'
  <2>1. UNCHANGED <<reboots, ready>>
    <3>1. UNCHANGED vars \/ Push(r) \/ PushFails(r) \/ PushTooLong(r)
      BY <1>5 DEF PublishOrSpool, SpoolOrLose
    <3> QED
      BY <3>1 DEF Push, PushFails, PushTooLong, vars, ramVars
  <2>2. ASSUME NEW q \in Records, q # r
        PROVE  sends'[q] = sends[q] /\ (InWindow(q)' => InWindow(q))
    <3>1. sends'[q] = sends[q]
      BY <1>5, <2>2, PublishEffect
    <3>2. ASSUME NEW k \in Int, At(k, q)' PROVE At(k, q)
      <4>1. CASE UNCHANGED vars
        BY <3>2, <4>1, WindowShrinks
      <4>2. CASE Push(r) \/ PushFails(r) \/ PushTooLong(r)
        BY <2>2, <3>2, <4>2, PushKeepsOthersOut
      <4> QED
        BY <1>5, <4>1, <4>2 DEF PublishOrSpool, SpoolOrLose
    <3> QED
      BY <3>1, <3>2 DEF InWindow
  <2>3. CASE connected
    <3>1. sends'[r] = 1 /\ UNCHANGED vars
      BY <1>5, <1>i, <2>3 DEF PublishOrSpool, PublishRaw
    <3>2. ~InWindow(r)
      BY <1>5, UntracedOut
    <3>3. ~InWindow(r)'
      BY <3>1, <3>2, WindowShrinks DEF InWindow
    <3>4. \A q \in Records : sends'[q] <= 1 + reboots'
      BY <1>i, <2>1, <2>2, <3>1 DEF OnceInv
    <3>5. \A q \in Records : sends'[q] > reboots' => pc' # "off" /\ (ready' => ~InWindow(q)')
      BY <1>5, <2>1, <2>2, <3>3 DEF OnceInv
    <3> QED
      BY <1>5, <3>4, <3>5 DEF OnceInv, Peeked
  <2>4. CASE ~connected
    <3>1. sends' = sends
      BY <1>5, <2>4 DEF PublishOrSpool
    <3>2. \A q \in Records : sends'[q] <= 1 + reboots'
      BY <2>1, <3>1 DEF OnceInv
    <3>3. \A q \in Records : sends'[q] > reboots' => pc' # "off" /\ (ready' => ~InWindow(q)')
      BY <1>5, <1>i, <2>1, <2>2, <3>1 DEF OnceInv
    <3> QED
      BY <1>5, <3>2, <3>3 DEF OnceInv, Peeked
  <2> QED
    BY <2>3, <2>4
<1>6. CASE Ingest
  <2>1. PublishOrSpool(Head(inbox)) /\ inbox # <<>> /\ pc = "ingest" /\ pc' = "ingest"
    BY <1>6 DEF Ingest, loopVars
  <2>2. PICK r \in Records \ Handled : r = Head(inbox)
    BY <1>i, <2>1, InboxHead
  <2>3. fate[r] = "fresh" /\ sends[r] = 0
    BY DEF FreshInv
  <2>4. ~Peeked' /\ PublishOrSpool(r)
    BY <2>1, <2>2 DEF Peeked
  <2> QED
    BY <1>5, <2>1, <2>3, <2>4
<1>7. CASE Report
  <2>1. PICK r \in Unused : PublishOrSpool(r)
    BY <1>7 DEF Report
  <2>2. r \in Records /\ fate[r] = "fresh" /\ sends[r] = 0
    BY DEF Unused, Handled, FreshInv
  <2>3. pc = "report" /\ pc' \in {"peek", "sleep"}
    BY <1>7 DEF Report, Goto, AfterReport
  <2>4. ~Peeked'
    BY <2>3 DEF Peeked
  <2> QED
    BY <1>5, <2>1, <2>2, <2>3, <2>4
<1>8. CASE DrainPeek
  <2>1. Peek /\ pc = "peek" /\ pc' = IF spool_out' # None THEN "send" ELSE "sleep"
    BY <1>8 DEF DrainPeek, Goto
  <2>2. UNCHANGED <<sends, reboots, ready>>
    BY <1>8 DEF DrainPeek, Peek, cloudVars
  <2>3. \A r \in Records : InWindow(r)' => InWindow(r)
    BY <2>1, WindowShrinks DEF InWindow
  <2>4. \A r \in Records : sends'[r] > reboots' => pc' # "off" /\ (ready' => ~InWindow(r)')
    BY <2>1, <2>2, <2>3 DEF OnceInv
  <2>5. CASE spool_out' = None
    BY <2>1, <2>2, <2>4, <2>5 DEF OnceInv, Peeked
  <2>6. CASE spool_out' # None
    <3>1. /\ spool_out' \in Records /\ ready /\ head_seq' \in head_seq .. tail_seq - 1
          /\ UNCHANGED <<tail_seq, disk>>
          /\ disk[slot_of(head_seq')] = Rec(head_seq', spool_out')
      BY <2>1, <2>6, PeekedNotFresh
    <3>2. PICK x \in Records : x = spool_out'
      BY <3>1
    <3>3. head_seq' \in Int /\ At(head_seq', x)
      BY <3>1, <3>2 DEF At, TypeOK
    <3>4. sends[x] <= reboots
      <4>1. InWindow(x)
        BY <3>3 DEF InWindow
      <4> QED
        BY <1>i, <2>1, <3>1, <4>1 DEF OnceInv
    <3>5. ASSUME NEW k \in Int, At(k, spool_out)' PROVE k = head_seq'
      <4>1. At(k, x)'
        BY <3>2, <3>5 DEF At, slot_of, Rec
      <4>2. At(k, x)
        BY <2>1, <4>1, WindowShrinks
      <4> QED
        BY <3>3, <4>2, OneCopy
    <3>6. pc' = "send"
      BY <2>1, <2>6
    <3>7. sends'[spool_out'] <= reboots'
      BY <2>2, <3>2, <3>4
    <3>8. \A r \in Records : sends'[r] <= 1 + reboots'
      BY <2>2 DEF OnceInv
    <3> QED
      BY <2>4, <3>5, <3>6, <3>7, <3>8 DEF OnceInv
  <2> QED
    BY <2>5, <2>6
<1>9. CASE DrainSend
  <2>1. /\ pc = "send" /\ pc' = "commit" /\ UNCHANGED vars
        /\ sends' = [sends EXCEPT ![spool_out] = @ + 1]
    BY <1>9 DEF DrainSend, PublishRaw, Goto
  <2>2. spool_out \in Records /\ sends[spool_out] <= reboots
    BY <2>1 DEF DrainInv, Peeked, OnceInv
  <2>3. UNCHANGED <<ready, head_seq, tail_seq, disk, spool_out, reboots>>
    BY <2>1 DEF vars, ramVars, diskVars
  <2>4. \A r \in Records : InWindow(r)' => InWindow(r)
    BY <2>1, WindowShrinks DEF InWindow
  <2>5. \A r \in Records : sends'[r] = IF r = spool_out THEN sends[r] + 1 ELSE sends[r]
    BY <1>i, <2>1
  <2>6. \A r \in Records : sends'[r] <= 1 + reboots'
    BY <1>i, <2>2, <2>3, <2>5 DEF OnceInv
  <2>7. \A r \in Records : sends'[r] > reboots' => r = spool_out' \/ (ready' => ~InWindow(r)')
    BY <2>1, <2>3, <2>4, <2>5 DEF OnceInv
  <2>8. \A k \in Int : At(k, spool_out)' => k = head_seq'
    BY <2>1, <2>3 DEF OnceInv, Peeked, At, slot_of, Rec
  <2> QED
    BY <2>1, <2>3, <2>6, <2>7, <2>8 DEF OnceInv, At, slot_of, Rec
<1>10. CASE DrainCommit
  <2>1. Commit /\ pc = "commit" /\ pc' = "peek" /\ UNCHANGED sends
    BY <1>10 DEF DrainCommit, Goto, cloudVars
  <2>2. /\ ready /\ UNCHANGED <<ready, reboots, tail_seq>>
        /\ (rec_count = 0 /\ head_seq' = head_seq) \/ head_seq' = head_seq + 1
    BY <2>1 DEF Commit
  <2>3. spool_out \in Records /\ \A k \in Int : At(k, spool_out) => k = head_seq
    BY <2>1 DEF DrainInv, Peeked, OnceInv
  <2>4. head_seq \in Nat /\ tail_seq \in Nat
    BY DEF TypeOK
  <2>5. ASSUME NEW r \in Records, sends[r] > reboots PROVE ~InWindow(r)'
    <3>1. CASE r # spool_out
      BY <2>1, <2>2, <2>5, <3>1, WindowShrinks DEF OnceInv, InWindow
    <3>2. CASE r = spool_out
      <4>1. ASSUME NEW k \in Int, At(k, r)' PROVE FALSE
        <5>1. At(k, r)
          BY <2>1, <4>1, WindowShrinks
        <5>2. k = head_seq
          BY <2>3, <3>2, <5>1
        <5>3. k \in head_seq' .. tail_seq - 1
          BY <2>2, <4>1 DEF At
        <5>4. rec_count = 0 /\ tail_seq - head_seq = 0
          BY <2>2, <2>4, <5>2, <5>3 DEF RingLength
        <5> QED
          BY <2>2, <2>4, <5>2, <5>3, <5>4
      <4> QED
        BY <4>1 DEF InWindow
    <3> QED
      BY <3>1, <3>2
  <2> QED
    BY <2>1, <2>2, <2>5 DEF OnceInv, Peeked
<1>11. CASE Restart
  <2>1. pc' = "off" /\ UNCHANGED sends /\ reboots' = reboots + 1
    BY <1>11 DEF Restart, Reboot, PowerCut, RestartInPush, CanRestart
  <2>2. \A r \in Records : sends'[r] <= reboots'
    BY <1>i, <2>1 DEF OnceInv
  <2> QED
    BY <1>i, <2>1, <2>2 DEF OnceInv, Peeked
<1> QED
  BY <1>1, <1>2, <1>3, <1>4, <1>6, <1>7, <1>8, <1>9, <1>10, <1>11
     DEF GatewayNext, MainLoop, Environment

(* Only a restart makes the gateway publish a record again, and each one   *)
(* once at most: not the drain loop, nor a spool-wipe between spool_peek   *)
(* and spool_commit, whatever writes, erases and flushes fail; and a       *)
(* record published live is never spooled as well.                         *)
THEOREM SentOnce ==
    ASSUME NoneFound
    PROVE  GatewaySpec => []SentOncePerBoot
<1>1. GatewaySpec => []TypeOK /\ []TraceInv
  BY GatewayUsesSpool, TypeCorrect, OneTrace, PTL
<1>2. Init => RingLength
  BY DEF Init, RingLength
<1>3. GatewaySpec => []RingLength
  BY <1>1, <1>2, RingLengthStep, GatewayUsesSpool, PTL DEF Spec
<1>4. GatewaySpec => []LoopTypes
  BY LoopTypesInit, LoopTypesStep, DrainAlways, PTL DEF GatewaySpec
<1>5. GatewaySpec => []FreshInv
  BY <1>1, <1>4, FreshInit, FreshStep, DrainAlways, PTL DEF GatewaySpec
<1>6. GatewaySpec => []OnceInv
  BY <1>1, <1>3, <1>4, <1>5, OnceInit, OnceStep, DrainAlways, PTL DEF GatewaySpec
<1>7. OnceInv => SentOncePerBoot
  BY DEF OnceInv, SentOncePerBoot
<1> QED
  BY <1>6, <1>7, PTL

----------------------------------------------------------------------------
(* Nothing is lost, while the link fails only between two ticks and the    *)
(* session goes with it: publish_raw ignores what iotconnect_sdk returns,  *)
(* so a link that goes away under a tick loses what that tick publishes.   *)

TickBody == {"ingest", "report", "peek", "send", "commit"}

CalmLink == ~SilentFailures /\ DropPoints \cap TickBody = {}

LinkInv ==
    /\ session => network
    /\ connected /\ pc \in TickBody => session
    /\ pc \in {"peek", "send", "commit"} => connected

LEMMA LinkInit == GatewayInit => LinkInv
BY DEF GatewayInit, LinkInv, TickBody

LEMMA LinkStep ==
    CalmLink /\ LoopTypes /\ LinkInv /\ [GatewayNext]_gatewayVars => LinkInv'
<1> SUFFICES ASSUME CalmLink, LoopTypes, LinkInv, [GatewayNext]_gatewayVars PROVE LinkInv'
  OBVIOUS
<1> USE DEF LinkInv, TickBody
<1>1. CASE Start \/ BringUp \/ BringUpFails \/ Sleep \/ DrainDone \/ IngestDone
  BY <1>1 DEF Start, BringUp, BringUpFails, Sleep, DrainDone, IngestDone, Goto, linkVars
<1>2. CASE Tick
  <2>1. pc' = "ingest" /\ connected' = session' /\ network' = network
    BY <1>2 DEF Tick, Goto
  <2>2. session' = network \/ session' = session
    BY <1>2 DEF Tick
  <2>3. session' => network'
    BY <2>1, <2>2
  <2> QED
    BY <2>1, <2>3
<1>3. CASE Ingest \/ IngestBad
  BY <1>3 DEF Ingest, IngestBad, loopVars, linkVars
<1>4. CASE Report \/ NotDue
  <2>1. pc = "report" /\ pc' = AfterReport /\ UNCHANGED <<connected, network, session>>
    BY <1>4 DEF Report, NotDue, Goto, linkVars
  <2>2. (pc' = "peek" /\ connected) \/ pc' = "sleep"
    BY <2>1 DEF AfterReport
  <2> QED
    BY <2>1, <2>2
<1>5. CASE DrainPeek \/ DrainSend \/ DrainCommit
  <2>1. pc \in {"peek", "send", "commit"} /\ UNCHANGED <<connected, network, session>>
    BY <1>5 DEF DrainPeek, DrainSend, DrainCommit, Goto, linkVars
  <2> QED
    BY <2>1
<1>6. CASE Arrive \/ WipeCommand \/ UNCHANGED gatewayVars
  BY <1>6 DEF Arrive, WipeCommand, gatewayVars, loopVars, linkVars
<1>7. CASE NetworkFails
  <2>1. /\ pc \in DropPoints /\ pc' = pc /\ connected' = connected
        /\ session' = (session /\ SilentFailures)
    BY <1>7 DEF NetworkFails, loopVars
  <2>2. pc \notin TickBody /\ ~session'
    BY <2>1 DEF CalmLink
  <2> QED
    BY <2>1, <2>2
<1>8. CASE NetworkReturns
  BY <1>8 DEF NetworkReturns, loopVars
<1>9. CASE SessionEnds
  BY <1>9 DEF SessionEnds
<1>10. CASE Restart
  BY <1>10 DEF Restart
<1> QED
  BY <1>1, <1>2, <1>3, <1>4, <1>5, <1>6, <1>7, <1>8, <1>9, <1>10
     DEF GatewayNext, MainLoop, Environment

DeliverInv ==
    /\ \A r \in Records : fate[r] = "drained" => r \in received
    /\ \A r \in Records : r \in taken \ dropped /\ fate[r] = "fresh" => r \in received
    /\ pc = "commit" => spool_out \in received

LEMMA DeliverInit == GatewayInit => DeliverInv
BY DEF GatewayInit, Init, DeliverInv

LEMMA Delivers ==
    ASSUME NEW r, PublishRaw(r)
    PROVE  received \subseteq received' /\ (session /\ network => r \in received')
BY DEF PublishRaw

LEMMA ReceivedGrows == [GatewayNext]_gatewayVars => received \subseteq received'
<1> SUFFICES ASSUME [GatewayNext]_gatewayVars PROVE received \subseteq received'
  OBVIOUS
<1>1. ASSUME NEW r, PublishOrSpool(r) PROVE received \subseteq received'
  BY <1>1, Delivers DEF PublishOrSpool
<1>2. CASE Ingest \/ Report
  BY <1>1, <1>2 DEF Ingest, Report
<1>3. CASE DrainSend
  BY <1>3, Delivers DEF DrainSend
<1> QED
  BY <1>2, <1>3 DEF GatewayNext, MainLoop, Environment, Start, BringUp, BringUpFails, Tick,
     IngestBad, IngestDone, NotDue, DrainPeek, DrainDone, DrainCommit, Sleep, Arrive,
     WipeCommand, NetworkFails, NetworkReturns, SessionEnds, Restart, gatewayVars, cloudVars

LEMMA FreshWas ==
    ASSUME TypeOK, [Next]_vars, NEW r \in Records, fate'[r] = "fresh"
    PROVE  fate[r] = "fresh"
BY FateStep, PushFateStep DEF Next

(* A record the loop has just taken reached the platform, left the fresh   *)
(* ones by its push, or was given up.                                      *)
LEMMA TakenNow ==
    ASSUME TypeOK, LinkInv, pc \in TickBody, NEW r \in Records, PublishOrSpool(r)
    PROVE  r \in received' \/ fate'[r] # "fresh" \/ r \in dropped'
<1>1. CASE connected /\ PublishRaw(r)
  BY <1>1, Delivers DEF LinkInv
<1>2. CASE Push(r) \/ PushFails(r) \/ PushTooLong(r)
  BY <1>2, PushFateStep
<1>3. CASE dropped' = dropped \cup {r}
  BY <1>3
<1> QED
  BY <1>1, <1>2, <1>3 DEF PublishOrSpool, SpoolOrLose

LEMMA DeliverStep ==
    SpoolInv /\ DrainInv /\ LinkInv /\ DeliverInv /\ [GatewayNext]_gatewayVars => DeliverInv'
<1> SUFFICES ASSUME SpoolInv, DrainInv, LinkInv, DeliverInv, [GatewayNext]_gatewayVars
             PROVE  DeliverInv'
  OBVIOUS
<1>t. TypeOK /\ InboxTyped
  BY DEF SpoolInv, DrainInv
<1>n. [Next]_vars
  BY <1>t, GatewayStep
<1>r. received \subseteq received'
  BY ReceivedGrows
<1>1. ASSUME NEW r \in Records, fate'[r] = "drained" PROVE r \in received'
  <2>1. CASE fate[r] = "drained"
    BY <1>r, <2>1 DEF DeliverInv
  <2>2. CASE fate[r] # "drained"
    <3>1. CASE GatewayNext
      <4>1. DrainCommit
        BY <1>1, <1>t, <2>2, <3>1, OnlyDrainCommitDrains
      <4>2. pc = "commit" /\ r = spool_out
        BY <1>1, <2>2, <4>1, CommitsPeeked
      <4> QED
        BY <1>r, <4>2 DEF DeliverInv
    <3>2. CASE UNCHANGED gatewayVars
      BY <1>1, <2>2, <3>2 DEF gatewayVars, vars, historyVars
    <3> QED
      BY <3>1, <3>2
  <2> QED
    BY <2>1, <2>2
<1>2. ASSUME pc' = "commit" PROVE spool_out' \in received'
  <2>1. CASE DrainSend
    <3>1. pc = "send" /\ PublishRaw(spool_out) /\ UNCHANGED spool_out
      BY <2>1 DEF DrainSend, Goto, vars, ramVars
    <3>2. session /\ network
      BY <3>1 DEF LinkInv, TickBody
    <3> QED
      BY <3>1, <3>2, Delivers
  <2>2. CASE pc = "commit" /\ UNCHANGED spool_out
    BY <1>r, <2>2 DEF DeliverInv
  <2>3. CASE WipeCommand
    BY <1>2, <2>2, <2>3 DEF WipeCommand, Wipe, loopVars
  <2>4. CASE Arrive \/ NetworkFails \/ NetworkReturns \/ SessionEnds \/ UNCHANGED gatewayVars
    BY <1>2, <2>2, <2>4 DEF Arrive, NetworkFails, NetworkReturns, SessionEnds, gatewayVars,
                            loopVars, vars, ramVars
  <2>5. ~Start /\ ~BringUp /\ ~BringUpFails /\ ~Tick /\ ~IngestDone /\ ~Report /\ ~NotDue
    BY <1>2 DEF Start, BringUp, BringUpFails, Tick, IngestDone, Report, NotDue, Goto, AfterReport
  <2>6. ~DrainPeek /\ ~DrainDone /\ ~DrainCommit /\ ~Sleep /\ ~Restart
    BY <1>2 DEF DrainPeek, DrainDone, DrainCommit, Sleep, Restart, Goto
  <2>7. ~Ingest /\ ~IngestBad
    BY <1>2 DEF Ingest, IngestBad, loopVars
  <2> QED
    BY <2>1, <2>3, <2>4, <2>5, <2>6, <2>7 DEF GatewayNext, MainLoop, Environment
<1>3. ASSUME NEW r \in Records, r \in taken' \ dropped', fate'[r] = "fresh" PROVE r \in received'
  <2>1. fate[r] = "fresh"
    BY <1>3, <1>n, <1>t, FreshWas
  <2>2. CASE r \in taken \ dropped
    BY <1>r, <2>1, <2>2 DEF DeliverInv
  <2>3. CASE r \notin taken /\ dropped \subseteq dropped'
    <3>1. ASSUME NEW q \in Records, PublishOrSpool(q), pc \in TickBody PROVE r \in received'
      <4>1. q = r
        BY <1>3, <2>3, <3>1 DEF PublishOrSpool
      <4> QED
        BY <1>3, <1>t, <3>1, <4>1, TakenNow
    <3>2. CASE Ingest
      BY <1>t, <3>1, <3>2, Receives DEF Ingest, TickBody
    <3>3. CASE Report
      BY <3>1, <3>3, UnusedRecords DEF Report, Goto, TickBody
    <3>4. CASE Restart
      <4>1. PICK q \in Records : RestartInPush(q) /\ taken' = taken \cup {q}
        BY <1>3, <1>t, <2>3, <3>4, Receives, UnusedRecords DEF Restart
      <4>2. fate'[q] # "fresh"
        BY <1>t, <4>1, PushFateStep
      <4> QED
        BY <1>3, <2>3, <4>1, <4>2
    <3>5. CASE UNCHANGED taken
      BY <1>3, <2>3, <3>5
    <3> QED
      BY <3>2, <3>3, <3>4, <3>5 DEF GatewayNext, MainLoop, Environment, Start, BringUp,
         BringUpFails, Tick, IngestBad, IngestDone, NotDue, DrainPeek, DrainDone, DrainSend,
         DrainCommit, Sleep, Arrive, WipeCommand, NetworkFails, NetworkReturns, SessionEnds,
         gatewayVars, cloudVars
  <2>4. dropped \subseteq dropped'
    <3>1. ASSUME NEW q, PublishOrSpool(q) PROVE dropped \subseteq dropped'
      BY <3>1 DEF PublishOrSpool, SpoolOrLose
    <3> QED
      BY <3>1 DEF GatewayNext, MainLoop, Environment, Start, BringUp, BringUpFails, Tick,
         Ingest, IngestBad, IngestDone, Report, NotDue, DrainPeek, DrainDone, DrainSend,
         DrainCommit, Sleep, Arrive, WipeCommand, NetworkFails, NetworkReturns, SessionEnds,
         Restart, gatewayVars, cloudVars
  <2> QED
    BY <1>3, <2>2, <2>3, <2>4
<1> QED
  BY <1>1, <1>2, <1>3 DEF DeliverInv

(* "Nothing is lost": a record the loop took is with the platform, or in   *)
(* the spool, or was given up by the spool's own rules - for every ring,   *)
(* schedule of restarts and power cuts, and with record and commit writes  *)
(* and reads free to fail, provided erases and flushes work and the link   *)
(* goes down only between ticks (MCGateway_lossy shows what happens if not). *)
THEOREM NothingIsLost ==
    ASSUME HonestDisk, CalmLink
    PROVE  GatewaySpec => []NothingLost
<1>1. GatewaySpec => []SpoolInv
  BY GatewayUsesSpool, SpoolInvariant, PTL
<1>2. GatewaySpec => []LoopTypes
  BY LoopTypesInit, LoopTypesStep, DrainAlways, PTL DEF GatewaySpec
<1>3. CalmLink
  OBVIOUS
<1>4. LoopTypes /\ LinkInv /\ [GatewayNext]_gatewayVars => LinkInv'
  BY <1>3, LinkStep
<1>5. GatewaySpec => []LinkInv
  BY <1>2, <1>4, LinkInit, PTL DEF GatewaySpec
<1>6. GatewaySpec => []DeliverInv
  BY <1>1, <1>5, DrainAlways, DeliverInit, DeliverStep, PTL DEF GatewaySpec
<1>7. SpoolInv /\ LoopTypes /\ DeliverInv => NothingLost
  <2> SUFFICES ASSUME SpoolInv, LoopTypes, DeliverInv, NEW r \in taken \ dropped, r \notin received
               PROVE  fate[r] \in {"queued", "evicted", "wiped", "orphaned", "torn", "refused"}
    BY DEF NothingLost
  <2>1. r \in Records /\ fate[r] \in Fates
    BY DEF LoopTypes, SpoolInv, TypeOK
  <2>2. fate[r] # "skipped" /\ fate[r] # "drained" /\ fate[r] # "fresh"
    BY <2>1 DEF SpoolInv, DeliverInv
  <2> QED
    BY <2>1, <2>2 DEF Fates
<1> QED
  BY <1>1, <1>2, <1>6, <1>7, PTL
=============================================================================
