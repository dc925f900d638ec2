---------------------------- MODULE SpoolProofs ----------------------------
(***************************************************************************)
(* Theorems about Spool, for every ring size, set of records, number of    *)
(* restarts and prior content of the eMMC region.                          *)
(***************************************************************************)
EXTENDS SpoolRefinement, FiniteSetTheorems, TLAPS

USE NSLOTSAssumption, RecordsAssumption, FoundAssumption

----------------------------------------------------------------------------
(* Arithmetic of the ring. *)

LEMMA SlotInRange ==
    ASSUME NEW q \in Nat
    PROVE  slot_of(q) \in Slots
BY DEF slot_of, Slots

LEMMA DivMod ==
    ASSUME NEW N \in Nat \ {0}, NEW a \in Nat
    PROVE  /\ a = N * (a \div N) + (a % N)
           /\ a \div N \in Nat
           /\ a % N \in Nat
OBVIOUS

LEMMA NoMultipleBetween ==
    ASSUME NEW N \in Nat \ {0}, NEW p \in Nat, NEW q \in Nat,
           0 < N * q - N * p, N * q - N * p < N
    PROVE  FALSE
<1>1. CASE q <= p
  BY <1>1
<1>2. CASE q >= p + 1
  BY <1>2
<1> QED
  BY <1>1, <1>2

(* Two sequence numbers less than a lap apart use different slots: the     *)
(* write of a new record cannot hit a live one.                            *)
LEMMA DistinctSlots ==
    ASSUME NEW a \in Nat, NEW b \in Nat, a < b, b - a < NSLOTS
    PROVE  slot_of(a) # slot_of(b)
<1> SUFFICES ASSUME a % NSLOTS = b % NSLOTS PROVE FALSE
  BY DEF slot_of
<1> DEFINE p == a \div NSLOTS
           q == b \div NSLOTS
<1>1. a = NSLOTS * p + (a % NSLOTS) /\ p \in Nat /\ a % NSLOTS \in Nat
  BY DivMod
<1>2. b = NSLOTS * q + (b % NSLOTS) /\ q \in Nat
  BY DivMod
<1> HIDE DEF p, q
<1>3. b - a = NSLOTS * q - NSLOTS * p
  BY <1>1, <1>2
<1>4. 0 < NSLOTS * q - NSLOTS * p /\ NSLOTS * q - NSLOTS * p < NSLOTS
  BY <1>3
<1> QED
  BY <1>1, <1>2, <1>4, NoMultipleBetween

----------------------------------------------------------------------------
(* Slot contents. *)

LEMMA PartialContent ==
    ASSUME NEW old \in Content, NEW new \in Written
    PROVE  /\ Partial(old, new) \subseteq Content
           /\ \A c \in Partial(old, new) : c.seq = old.seq \/ c.seq = new.seq
           /\ old \in Partial(old, new)
BY DEF Partial, Content, Written, Blank

LEMMA AllPartialContent ==
    ASSUME NEW olds \in SUBSET Content, NEW new \in Written
    PROVE  /\ AllPartial(olds, new) \subseteq Content
           /\ \A c \in AllPartial(olds, new) :
                  c.seq = new.seq \/ \E o \in olds : c.seq = o.seq
           /\ \A o \in olds : Partial(o, new) \subseteq AllPartial(olds, new)
BY PartialContent DEF AllPartial

LEMMA RecWritten ==
    ASSUME NEW q \in Nat, NEW r \in Records
    PROVE  Rec(q, r) \in Written /\ Rec(q, r).seq = q /\ Rec(q, r).body = r
BY DEF Rec, Written

----------------------------------------------------------------------------
(* Type correctness. *)

LEMMA InitType == Init => TypeOK
<1> SUFFICES ASSUME Init PROVE TypeOK
  OBVIOUS
<1>1. disk \in [Slots -> Content]
  BY DEF Init
<1>2. media \in [Slots -> SUBSET Content]
  BY <1>1 DEF Init
<1>3. fate \in [Records -> Fates] /\ seqno \in [Records -> Nat]
  BY DEF Init, Fates
<1>4. booted \in BOOLEAN /\ ready \in BOOLEAN /\ spool_out \in Records \cup {None}
  BY DEF Init
<1>5. /\ head_seq \in Nat /\ tail_seq \in Nat /\ rec_count \in Int
      /\ count \in Int /\ pushed \in Nat /\ drained \in Nat /\ drops \in Nat
      /\ reboots \in Nat
  BY DEF Init
<1> QED
  BY <1>1, <1>2, <1>3, <1>4, <1>5 DEF TypeOK

LEMMA ReleaseType ==
    ASSUME TypeOK, NEW S, NEW f \in Fates
    PROVE  Release(S, f) \in [Records -> Fates]
BY DEF TypeOK, Release

LEMMA EvictedType == ASSUME TypeOK PROVE Evicted \in [Records -> Fates]
BY ReleaseType DEF Evicted, Fates

LEMMA RamResetType ==
    ASSUME RamReset
    PROVE  /\ booted' \in BOOLEAN /\ ready' \in BOOLEAN
           /\ head_seq' \in Nat /\ tail_seq' \in Nat /\ rec_count' \in Int
           /\ count' \in Int /\ pushed' \in Nat /\ drained' \in Nat /\ drops' \in Nat
           /\ spool_out' \in Records \cup {None}
<1>1. booted' \in BOOLEAN /\ ready' \in BOOLEAN /\ spool_out' \in Records \cup {None}
  BY DEF RamReset
<1>2. /\ head_seq' \in Nat /\ tail_seq' \in Nat /\ rec_count' \in Int
      /\ count' \in Int /\ pushed' \in Nat /\ drained' \in Nat /\ drops' \in Nat
  BY DEF RamReset
<1> QED
  BY <1>1, <1>2

LEMMA PowerLostType ==
    ASSUME NEW was \in [Slots -> SUBSET Content], PowerLost(was)
    PROVE  /\ disk' \in [Slots -> Content]
           /\ media' \in [Slots -> SUBSET Content]
           /\ \A s \in Slots : disk'[s] \in was[s] /\ media'[s] = {disk'[s]}
<1>1. PICK left \in [Slots -> UNION {was[s] : s \in Slots}] :
          (\A s \in Slots : left[s] \in was[s]) /\ disk' = left
  BY DEF PowerLost
<1>2. disk' \in [Slots -> Content]
  BY <1>1
<1>3. media' = [s \in Slots |-> {disk'[s]}]
  BY DEF PowerLost
<1> QED
  BY <1>1, <1>2, <1>3

LEMMA NextType == TypeOK /\ [Next]_vars => TypeOK'
<1> SUFFICES ASSUME TypeOK, [Next]_vars PROVE TypeOK'
  OBVIOUS
<1> DEFINE t == slot_of(tail_seq)
<1>t. t \in Slots
  BY SlotInRange DEF TypeOK
<1>h. slot_of(head_seq) \in Slots
  BY SlotInRange DEF TypeOK
<1>1. CASE SpoolInit
  <2>1. InitFails \/ InitEmpty \/ InitRecover
    BY <1>1 DEF SpoolInit
  <2>2. UNCHANGED <<diskVars, historyVars, reboots>> /\ booted' = TRUE
    BY <1>1 DEF SpoolInit
  <2>3. CASE InitFails
    BY <2>2, <2>3 DEF InitFails, TypeOK, ramVars, stats, diskVars, historyVars
  <2>4. CASE InitEmpty
    BY <2>2, <2>4 DEF InitEmpty, TypeOK, diskVars, historyVars
  <2>5. CASE InitRecover
    <3>1. PICK lo, hi \in Slots :
            /\ disk[lo] # Blank /\ disk[hi] # Blank
            /\ tail_seq' = disk[hi].seq + 1
            /\ head_seq' = LET floor == IF disk[hi].seq >= NSLOTS - 1
                                        THEN disk[hi].seq - (NSLOTS - 1) ELSE 0
                           IN IF disk[lo].seq >= floor THEN disk[lo].seq ELSE floor
      BY <2>5 DEF InitRecover
    <3>2. disk[lo].seq \in Nat /\ disk[hi].seq \in Nat
      BY <3>1 DEF TypeOK, Content, Written
    <3>3. head_seq' \in Nat /\ tail_seq' \in Nat
      BY <3>1, <3>2
    <3>4. rec_count' = tail_seq' - head_seq' /\ count' = rec_count'
          /\ ready' = TRUE /\ UNCHANGED <<pushed, drained, drops, spool_out>>
      BY <2>5 DEF InitRecover
    <3> QED
      BY <2>2, <3>3, <3>4 DEF TypeOK, diskVars, historyVars
  <2> QED
    BY <2>1, <2>3, <2>4, <2>5
<1>2. ASSUME NEW r \in Records, PushTooLong(r) PROVE TypeOK'
  BY <1>2 DEF PushTooLong, TypeOK, Fates, diskVars
<1>3. ASSUME NEW r \in Records, Push(r) PROVE TypeOK'
  <2> DEFINE new == Rec(tail_seq, r)
  <2>1. new \in Written /\ new \in Content
    BY RecWritten DEF TypeOK, Content
  <2>2. disk' \in [Slots -> Content]
    BY <1>3, <2>1 DEF Push, TypeOK
  <2>3. media' \in [Slots -> SUBSET Content]
    <3>1. CASE media' = [s \in Slots |-> {disk'[s]}]
      BY <2>2, <3>1
    <3>2. CASE media' = [media EXCEPT ![t] = AllPartial(@, new)]
      BY <1>t, <2>1, <3>2, AllPartialContent DEF TypeOK
    <3> QED
      BY <1>3, <3>1, <3>2 DEF Push
  <2>4. fate' \in [Records -> Fates] /\ seqno' \in [Records -> Nat]
    BY <1>3, EvictedType DEF Push, TypeOK, Fates
  <2>5. head_seq' \in Nat /\ tail_seq' \in Nat /\ rec_count' \in Int
    BY <1>3 DEF Push, MakeRoom, TypeOK
  <2>6. count' \in Int /\ pushed' \in Nat /\ drops' \in Nat
    BY <1>3, <2>5 DEF Push, MakeRoom, TypeOK
  <2> QED
    BY <1>3, <2>2, <2>3, <2>4, <2>5, <2>6 DEF Push, TypeOK
<1>4. ASSUME NEW r \in Records, PushFails(r) PROVE TypeOK'
  <2> DEFINE new == Rec(tail_seq, r)
  <2>1. new \in Written /\ new \in Content
    BY RecWritten DEF TypeOK, Content
  <2>2. disk' \in [Slots -> Content]
    <3>1. PICK c \in Partial(disk[t], new) : disk' = [disk EXCEPT ![t] = c]
      BY <1>4 DEF PushFails
    <3> QED
      BY <1>t, <2>1, <3>1, PartialContent DEF TypeOK
  <2>3. media' \in [Slots -> SUBSET Content]
    BY <1>4, <1>t, <2>1, AllPartialContent DEF PushFails, TypeOK
  <2>4. fate' \in [Records -> Fates]
    BY <1>4, EvictedType DEF PushFails, Fates
  <2>5. head_seq' \in Nat /\ rec_count' \in Int /\ drops' \in Nat
    BY <1>4 DEF PushFails, MakeRoom, TypeOK
  <2> QED
    BY <1>4, <2>2, <2>3, <2>4, <2>5 DEF PushFails, TypeOK
<1>5. ASSUME NEW r \in Records, RestartInPush(r) PROVE TypeOK'
  <2> DEFINE new == Rec(tail_seq, r)
             during == [media EXCEPT ![t] = AllPartial(@, new)]
  <2>1. new \in Written /\ new \in Content
    BY RecWritten DEF TypeOK, Content
  <2>2. during \in [Slots -> SUBSET Content]
    BY <1>t, <2>1, AllPartialContent DEF TypeOK
  <2>3. disk' \in [Slots -> Content] /\ media' \in [Slots -> SUBSET Content]
    <3>1. CASE /\ \E c \in Partial(disk[t], new) : disk' = [disk EXCEPT ![t] = c]
               /\ media' = during
      BY <1>t, <2>1, <2>2, <3>1, PartialContent DEF TypeOK
    <3>2. CASE PowerLost(during)
      BY <2>2, <3>2, PowerLostType
    <3> QED
      BY <1>5, <3>1, <3>2 DEF RestartInPush
  <2>4. fate' \in [Records -> Fates]
    BY <1>5, EvictedType DEF RestartInPush, Fates
  <2>5. reboots' \in Nat /\ seqno' = seqno
    BY <1>5 DEF RestartInPush, CanRestart, TypeOK
  <2> QED
    BY <1>5, <2>3, <2>4, <2>5, RamResetType DEF RestartInPush, TypeOK
<1>6. CASE Peek
  <2>1. PICK k \in head_seq .. tail_seq :
            /\ head_seq' = k
            /\ rec_count' = rec_count - (k - head_seq)
            /\ drops' = drops + (k - head_seq)
            /\ count' = IF k = head_seq THEN count ELSE rec_count'
            /\ \/ k < tail_seq /\ Good(k) /\ spool_out' = disk[slot_of(k)].body
               \/ UNCHANGED spool_out
    BY <1>6 DEF Peek
  <2>2. k \in Nat /\ k - head_seq \in Nat /\ rec_count' \in Int
    BY <2>1 DEF TypeOK
  <2>3. drops' \in Nat /\ count' \in Int
    BY <2>1, <2>2 DEF TypeOK
  <2>4. spool_out' \in Records \cup {None}
    <3>1. slot_of(k) \in Slots
      BY <2>2, SlotInRange
    <3>2. CASE Good(k) /\ spool_out' = disk[slot_of(k)].body
      BY <3>1, <3>2 DEF Good, TypeOK, Content, Written, Blank
    <3> QED
      BY <2>1, <3>2 DEF TypeOK
  <2>5. fate' \in [Records -> Fates]
    BY <1>6, ReleaseType DEF Peek, Fates
  <2> QED
    BY <1>6, <2>1, <2>2, <2>3, <2>4, <2>5 DEF Peek, TypeOK, diskVars
<1>7. CASE Commit
  <2>1. Blank \in Content
    BY DEF Content
  <2>2. disk' \in [Slots -> Content] /\ media' \in [Slots -> SUBSET Content]
    BY <1>7, <1>h, <2>1 DEF Commit, TypeOK, diskVars
  <2>3. fate' \in [Records -> Fates]
    BY <1>7, ReleaseType DEF Commit, Fates, TypeOK
  <2>4. head_seq' \in Nat /\ rec_count' \in Int /\ count' \in Int /\ drained' \in Nat
    BY <1>7 DEF Commit, TypeOK
  <2> QED
    BY <1>7, <2>2, <2>3, <2>4 DEF Commit, TypeOK
<1>8. CASE Wipe
  <2>1. Blank \in Content
    BY DEF Content
  <2>2. disk' \in [Slots -> Content] /\ media' \in [Slots -> SUBSET Content]
    BY <1>8, <2>1 DEF Wipe, TypeOK
  <2>3. fate' \in [Records -> Fates]
    BY <1>8, ReleaseType DEF Wipe, Fates
  <2> QED
    BY <1>8, <2>2, <2>3 DEF Wipe, TypeOK
<1>9. CASE Reboot
  BY <1>9, RamResetType DEF Reboot, CanRestart, TypeOK, diskVars, historyVars
<1>10. CASE PowerCut
  BY <1>10, RamResetType, PowerLostType DEF PowerCut, CanRestart, TypeOK, historyVars
<1>11. CASE UNCHANGED vars
  BY <1>11 DEF vars, ramVars, stats, diskVars, historyVars, TypeOK
<1> QED
  BY <1>1, <1>2, <1>3, <1>4, <1>5, <1>6, <1>7, <1>8, <1>9, <1>10, <1>11 DEF Next

(* Every variable keeps its type; in particular spool_peek copies out only *)
(* records, never a blank or corrupt slot.                                 *)
THEOREM TypeCorrect == Spec => []TypeOK
<1> QED
  BY InitType, NextType, PTL DEF Spec

----------------------------------------------------------------------------
(* Durability, for a disk whose erases and flushes do not fail.            *)

HonestDisk == "wipe_io" \notin Faults /\ "sync_io" \notin Faults

LEMMA ReleaseQueued ==
    ASSUME TypeOK, NEW S, NEW f \in Fates \ {"queued"}
    PROVE  \A r \in Records :
               /\ Release(S, f)[r] = "queued" <=> r \in Queued /\ r \notin S
               /\ Release(S, f)[r] = "skipped" =>
                      fate[r] = "skipped" \/ (f = "skipped" /\ r \in Queued \cap S)
BY DEF Release, Queued

LEMMA EvictedQueued ==
    ASSUME TypeOK
    PROVE  \A r \in Records :
               /\ Evicted[r] = "queued" <=>
                      r \in Queued /\ ~(Full /\ seqno[r] = head_seq)
               /\ Evicted[r] = "skipped" => fate[r] = "skipped"
BY ReleaseQueued DEF Evicted, Fates

(* What SpoolInv says of one spooled record. *)
LEMMA QueuedFacts ==
    ASSUME SpoolInv, NEW r \in Queued
    PROVE  /\ r \in Records
           /\ seqno[r] \in Nat
           /\ slot_of(seqno[r]) \in Slots
           /\ disk[slot_of(seqno[r])] = Rec(seqno[r], r)
           /\ disk[slot_of(seqno[r])] # Blank
           /\ Good(seqno[r])
<1>1. r \in Records /\ seqno[r] \in Nat
  BY DEF SpoolInv, TypeOK, Queued
<1>2. slot_of(seqno[r]) \in Slots
  BY <1>1, SlotInRange
<1>3. disk[slot_of(seqno[r])] = Rec(seqno[r], r)
  BY <1>2 DEF SpoolInv, MediaHoldsDisk, Durable, Held
<1>4. Rec(seqno[r], r) # Blank
  BY <1>1 DEF Rec, Blank
<1> QED
  BY <1>1, <1>2, <1>3, <1>4 DEF Good, Rec

(* A slot write at the tail, once there is room, misses every spooled      *)
(* record that stays.                                                      *)
LEMMA TailSlotFree ==
    ASSUME SpoolInv, ready, NEW r \in Queued, ~(Full /\ seqno[r] = head_seq)
    PROVE  /\ slot_of(seqno[r]) # slot_of(tail_seq)
           /\ (IF Full THEN head_seq + 1 ELSE head_seq) <= seqno[r]
           /\ seqno[r] < tail_seq
           /\ tail_seq < seqno[r] + NSLOTS
<1>1. seqno[r] \in Nat /\ tail_seq \in Nat /\ head_seq \in Nat
  BY QueuedFacts DEF SpoolInv, TypeOK
<1>2. head_seq <= seqno[r] /\ seqno[r] < tail_seq
  BY DEF SpoolInv, Durable, Held
<1>3. rec_count = tail_seq - head_seq /\ rec_count <= NSLOTS
  BY DEF SpoolInv, RingWindow
<1>4. tail_seq - seqno[r] < NSLOTS
  BY <1>1, <1>2, <1>3 DEF Full
<1> QED
  BY <1>1, <1>2, <1>4, DistinctSlots DEF Full

LEMMA InitInv == Init => SpoolInv
<1> SUFFICES ASSUME Init PROVE SpoolInv
  OBVIOUS
<1>1. TypeOK
  BY InitType
<1>2. MediaHoldsDisk
  BY DEF Init, MediaHoldsDisk
<1>3. Queued = {} /\ \A r \in Records : fate[r] # "skipped"
  BY DEF Init, Queued
<1> QED
  BY <1>1, <1>2, <1>3 DEF Init, SpoolInv, RingWindow, Durable

LEMMA SpoolInitInv ==
    ASSUME SpoolInv, SpoolInit, TypeOK'
    PROVE  SpoolInv'
<1>1. UNCHANGED <<disk, media, fate, seqno>>
  BY DEF SpoolInit, diskVars, historyVars
<1>2. MediaHoldsDisk' /\ (\A r \in Records : fate'[r] # "skipped") /\ Queued' = Queued
  BY <1>1 DEF SpoolInv, MediaHoldsDisk, Queued
<1>3. CASE InitFails
  BY <1>1, <1>2, <1>3
     DEF InitFails, ramVars, SpoolInv, RingWindow, Durable, Held, Rec, slot_of
<1>4. CASE InitEmpty
  <2>1. Queued = {}
    BY <1>4, QueuedFacts DEF InitEmpty
  <2> QED
    BY <1>1, <1>2, <1>4, <2>1 DEF InitEmpty, SpoolInv, RingWindow, Durable, Blank
<1>5. CASE InitRecover
  <2>1. PICK lo, hi \in Slots :
            /\ disk[lo] # Blank /\ disk[hi] # Blank
            /\ \A s \in Slots : disk[s] # Blank =>
                   disk[lo].seq <= disk[s].seq /\ disk[s].seq <= disk[hi].seq
            /\ tail_seq' = disk[hi].seq + 1
            /\ head_seq' = LET floor == IF disk[hi].seq >= NSLOTS - 1
                                        THEN disk[hi].seq - (NSLOTS - 1) ELSE 0
                           IN IF disk[lo].seq >= floor THEN disk[lo].seq ELSE floor
    BY <1>5 DEF InitRecover
  <2>2. disk[lo].seq \in Nat /\ disk[hi].seq \in Nat /\ disk[lo].seq <= disk[hi].seq
    BY <2>1 DEF SpoolInv, TypeOK, Content, Written
  <2>3. /\ rec_count' = tail_seq' - head_seq'
        /\ 0 <= rec_count' /\ rec_count' <= NSLOTS
    BY <1>5, <2>1, <2>2 DEF InitRecover
  <2>4. RingWindow'
    <3>1. ASSUME NEW s \in Slots PROVE disk[s].seq <= tail_seq'
      <4>1. CASE disk[s] = Blank
        BY <2>1, <2>2, <4>1 DEF Blank
      <4>2. CASE disk[s] # Blank
        <5>1. disk[s].seq \in Nat
          BY <4>2 DEF SpoolInv, TypeOK, Content, Written
        <5> QED
          BY <2>1, <2>2, <4>2, <5>1
      <4> QED
        BY <4>1, <4>2
    <3> QED
      BY <1>1, <2>3, <3>1 DEF RingWindow
  <2>5. ASSUME NEW r \in Queued
        PROVE  head_seq' <= seqno[r] /\ seqno[r] < tail_seq'
    <3> DEFINE s == slot_of(seqno[r])
    <3>1. s \in Slots /\ seqno[r] \in Nat /\ disk[s] = Rec(seqno[r], r) /\ disk[s] # Blank
      BY QueuedFacts
    <3>2. disk[s].seq = seqno[r]
      BY <3>1 DEF Rec
    <3>3. disk[lo].seq <= seqno[r] /\ seqno[r] <= disk[hi].seq
      BY <2>1, <3>1, <3>2
    <3>4. disk[hi].seq < seqno[r] + NSLOTS
      BY <2>1 DEF SpoolInv, MediaHoldsDisk, Durable, Held
    <3> QED
      BY <2>1, <2>2, <3>1, <3>3, <3>4
  <2> QED
    BY <1>1, <1>2, <2>4, <2>5 DEF SpoolInv, Durable, Held, slot_of, Rec
<1> QED
  BY <1>3, <1>4, <1>5 DEF SpoolInit

LEMMA PushTooLongInv ==
    ASSUME SpoolInv, NEW r \in Records, PushTooLong(r), TypeOK'
    PROVE  SpoolInv'
<1>1. /\ UNCHANGED <<ready, head_seq, tail_seq, rec_count, disk, media, seqno>>
      /\ fate' = [fate EXCEPT ![r] = "refused"]
  BY DEF PushTooLong, diskVars
<1>2. Queued' = Queued
  BY <1>1 DEF PushTooLong, Queued, SpoolInv, TypeOK
<1> QED
  BY <1>1, <1>2
     DEF SpoolInv, TypeOK, RingWindow, MediaHoldsDisk, Durable, Held, slot_of, Rec

LEMMA PushInv ==
    ASSUME SpoolInv, HonestDisk, NEW r \in Records, Push(r), TypeOK'
    PROVE  SpoolInv'
<1> DEFINE t == slot_of(tail_seq)
           new == Rec(tail_seq, r)
<1> USE DEF SpoolInv
<1>1. /\ ready /\ ready' = ready
      /\ head_seq' = IF Full THEN head_seq + 1 ELSE head_seq
      /\ tail_seq' = tail_seq + 1
      /\ rec_count' = IF Full THEN rec_count ELSE rec_count + 1
      /\ disk' = [disk EXCEPT ![t] = new]
      /\ media' = [s \in Slots |-> {disk'[s]}]
      /\ seqno' = [seqno EXCEPT ![r] = tail_seq]
      /\ fate' = [Evicted EXCEPT ![r] = "queued"]
  BY DEF Push, MakeRoom, HonestDisk
<1>2. /\ t \in Slots /\ tail_seq \in Nat /\ head_seq \in Nat
      /\ new.seq = tail_seq
      /\ \A s \in Slots : disk'[s] = IF s = t THEN new ELSE disk[s]
      /\ \A s \in Slots : disk[s].seq \in Int
  BY <1>1, SlotInRange, RecWritten DEF TypeOK, Content, Written, Blank
<1>3. \A s \in Slots : disk'[s].seq <= tail_seq
  BY <1>1, <1>2 DEF RingWindow
<1>4. RingWindow'
  <2>1. rec_count = tail_seq - head_seq /\ 0 <= rec_count /\ rec_count <= NSLOTS
    BY <1>1 DEF RingWindow
  <2>2. /\ rec_count' = tail_seq' - head_seq'
        /\ 0 <= rec_count' /\ rec_count' <= NSLOTS
    BY <1>1, <1>2, <2>1 DEF Full, TypeOK
  <2>3. \A s \in Slots : disk'[s].seq <= tail_seq'
    BY <1>1, <1>2, <1>3, RecWritten
  <2> QED
    BY <2>2, <2>3 DEF RingWindow
<1>5. MediaHoldsDisk'
  BY <1>1 DEF MediaHoldsDisk
<1>6. \A q \in Records : fate'[q] # "skipped"
  BY <1>1, EvictedQueued, EvictedType
<1>7. ASSUME NEW q \in Queued' PROVE Held(q)'
  <2>1. CASE q = r
    <3>1. seqno'[q] = tail_seq
      BY <1>1, <2>1 DEF TypeOK
    <3>2. media'[t] = {new}
      BY <1>1, <1>2
    <3>3. \A s \in Slots : \A c \in media'[s] : c.seq < tail_seq + NSLOTS
      BY <1>1, <1>2, <1>3
    <3>4. head_seq' <= tail_seq /\ tail_seq < tail_seq'
      BY <1>1, <1>2 DEF RingWindow, Full
    <3> QED
      BY <2>1, <3>1, <3>2, <3>3, <3>4 DEF Held, slot_of, Rec
  <2>2. CASE q # r
    <3>1. q \in Queued /\ ~(Full /\ seqno[q] = head_seq) /\ seqno'[q] = seqno[q]
      BY <1>1, <2>2, EvictedQueued, EvictedType DEF Queued, TypeOK
    <3>2. /\ slot_of(seqno[q]) # t
          /\ head_seq' <= seqno[q] /\ seqno[q] < tail_seq
          /\ tail_seq < seqno[q] + NSLOTS
      BY <1>1, <3>1, TailSlotFree
    <3>3. /\ seqno[q] \in Nat /\ slot_of(seqno[q]) \in Slots
          /\ disk[slot_of(seqno[q])] = Rec(seqno[q], q)
      BY <3>1, QueuedFacts
    <3>4. media'[slot_of(seqno[q])] = {Rec(seqno[q], q)}
      BY <1>1, <1>2, <3>2, <3>3
    <3>5. \A s \in Slots : \A c \in media'[s] : c.seq < seqno[q] + NSLOTS
      BY <1>1, <1>2, <1>3, <3>2, <3>3
    <3> QED
      BY <1>1, <1>2, <3>1, <3>2, <3>3, <3>4, <3>5 DEF Held, slot_of, Rec
  <2> QED
    BY <2>1, <2>2
<1> QED
  BY <1>4, <1>5, <1>6, <1>7 DEF Durable

(* What a write at the tail that does not complete may do to the slots and *)
(* to the queue: every record that stays queued keeps its slot.            *)
LEMMA InterruptedWrite ==
    ASSUME SpoolInv, ready, NEW r \in Records, fate[r] = "fresh",
           NEW q \in Queued, ~(Full /\ seqno[q] = head_seq)
    PROVE  LET during == [media EXCEPT ![slot_of(tail_seq)] =
                              AllPartial(@, Rec(tail_seq, r))]
           IN  /\ during[slot_of(seqno[q])] = {Rec(seqno[q], q)}
               /\ \A s \in Slots : \A c \in during[s] : c.seq < seqno[q] + NSLOTS
<1> DEFINE t == slot_of(tail_seq)
           new == Rec(tail_seq, r)
           during == [media EXCEPT ![t] = AllPartial(@, new)]
<1> USE DEF SpoolInv
<1>1. t \in Slots /\ new \in Written /\ new.seq = tail_seq
  BY SlotInRange, RecWritten DEF TypeOK
<1>2. \A s \in Slots : during[s] = IF s = t THEN AllPartial(media[t], new) ELSE media[s]
  BY <1>1 DEF TypeOK
<1>3. slot_of(seqno[q]) # t /\ tail_seq < seqno[q] + NSLOTS
  BY TailSlotFree
<1>4. /\ media[slot_of(seqno[q])] = {Rec(seqno[q], q)}
      /\ \A s \in Slots : \A c \in media[s] : c.seq < seqno[q] + NSLOTS
  BY DEF Durable, Held
<1>5. slot_of(seqno[q]) \in Slots
  BY QueuedFacts
<1>6. ASSUME NEW c \in AllPartial(media[t], new) PROVE c.seq < seqno[q] + NSLOTS
  <2>1. media[t] \in SUBSET Content
    BY <1>1 DEF TypeOK
  <2>2. c.seq = new.seq \/ \E o \in media[t] : c.seq = o.seq
    BY <1>1, <2>1, AllPartialContent
  <2> QED
    BY <1>1, <1>3, <1>4, <2>2
<1>7. during[slot_of(seqno[q])] = {Rec(seqno[q], q)}
  BY <1>2, <1>3, <1>4, <1>5
<1>8. \A s \in Slots : \A c \in during[s] : c.seq < seqno[q] + NSLOTS
  BY <1>2, <1>4, <1>6
<1> QED
  BY <1>7, <1>8

LEMMA PushFailsInv ==
    ASSUME SpoolInv, NEW r \in Records, PushFails(r), TypeOK'
    PROVE  SpoolInv'
<1> DEFINE t == slot_of(tail_seq)
           new == Rec(tail_seq, r)
<1> USE DEF SpoolInv
<1>1. /\ ready /\ ready' = ready /\ fate[r] = "fresh"
      /\ head_seq' = IF Full THEN head_seq + 1 ELSE head_seq
      /\ rec_count' = IF Full THEN rec_count - 1 ELSE rec_count
      /\ media' = [media EXCEPT ![t] = AllPartial(@, new)]
      /\ UNCHANGED <<tail_seq, seqno>>
      /\ fate' = [Evicted EXCEPT ![r] = "refused"]
  BY DEF PushFails, MakeRoom
<1>2. PICK c \in Partial(disk[t], new) : disk' = [disk EXCEPT ![t] = c]
  BY DEF PushFails
<1>3. t \in Slots /\ new \in Written /\ new.seq = tail_seq
      /\ tail_seq \in Nat /\ head_seq \in Nat
  BY SlotInRange, RecWritten DEF TypeOK
<1>4. RingWindow'
  <2>1. rec_count = tail_seq - head_seq /\ 0 <= rec_count /\ rec_count <= NSLOTS
    BY <1>1 DEF RingWindow
  <2>2. /\ rec_count' = tail_seq' - head_seq'
        /\ 0 <= rec_count' /\ rec_count' <= NSLOTS
    BY <1>1, <1>3, <2>1 DEF Full, TypeOK
  <2>3. c.seq <= tail_seq
    BY <1>1, <1>3, PartialContent DEF RingWindow, TypeOK
  <2>4. \A s \in Slots : disk'[s].seq <= tail_seq
    BY <1>1, <1>2, <1>3, <2>3 DEF RingWindow, TypeOK
  <2> QED
    BY <1>1, <2>2, <2>4 DEF RingWindow
<1>5. MediaHoldsDisk'
  <2>1. disk[t] \in media[t] /\ media[t] \in SUBSET Content
    BY <1>3 DEF MediaHoldsDisk, TypeOK
  <2>2. c \in AllPartial(media[t], new)
    BY <1>2, <1>3, <2>1, AllPartialContent
  <2> QED
    BY <1>1, <1>2, <1>3, <2>2 DEF MediaHoldsDisk, TypeOK
<1>6. \A q \in Records : fate'[q] # "skipped"
  BY <1>1, EvictedQueued, EvictedType
<1>7. ASSUME NEW q \in Queued' PROVE Held(q)'
  <2>1. q \in Queued /\ ~(Full /\ seqno[q] = head_seq)
    BY <1>1, EvictedQueued, EvictedType DEF Queued
  <2>2. head_seq' <= seqno[q] /\ seqno[q] < tail_seq
    BY <1>1, <2>1, TailSlotFree
  <2>3. /\ media'[slot_of(seqno[q])] = {Rec(seqno[q], q)}
        /\ \A s \in Slots : \A d \in media'[s] : d.seq < seqno[q] + NSLOTS
    BY <1>1, <2>1, InterruptedWrite
  <2> QED
    BY <1>1, <2>2, <2>3 DEF Held, slot_of, Rec
<1> QED
  BY <1>4, <1>5, <1>6, <1>7 DEF Durable

LEMMA RestartInPushInv ==
    ASSUME SpoolInv, NEW r \in Records, RestartInPush(r), TypeOK'
    PROVE  SpoolInv'
<1> DEFINE t == slot_of(tail_seq)
           new == Rec(tail_seq, r)
           during == [media EXCEPT ![t] = AllPartial(@, new)]
<1> USE DEF SpoolInv
<1>1. /\ ready /\ ~ready' /\ fate[r] = "fresh" /\ seqno' = seqno
      /\ fate' = [Evicted EXCEPT ![r] = "torn"]
      /\ \/ /\ \E c \in Partial(disk[t], new) : disk' = [disk EXCEPT ![t] = c]
            /\ media' = during
         \/ PowerLost(during)
  BY DEF RestartInPush, RamReset
<1>2. t \in Slots /\ new \in Written
  BY SlotInRange, RecWritten DEF TypeOK
<1>3. during \in [Slots -> SUBSET Content]
  BY <1>2, AllPartialContent DEF TypeOK
<1>4. \A s \in Slots : disk'[s] \in media'[s] /\ media'[s] \subseteq during[s]
  <2>1. ASSUME NEW c \in Partial(disk[t], new), disk' = [disk EXCEPT ![t] = c],
               media' = during
        PROVE  \A s \in Slots : disk'[s] \in media'[s] /\ media'[s] \subseteq during[s]
    <3>1. disk[t] \in media[t] /\ media[t] \in SUBSET Content
      BY <1>2 DEF MediaHoldsDisk, TypeOK
    <3>2. c \in AllPartial(media[t], new)
      BY <1>2, <3>1, AllPartialContent
    <3>3. disk'[t] = c /\ during[t] = AllPartial(media[t], new)
      BY <1>2, <2>1 DEF TypeOK
    <3>4. \A s \in Slots : s # t => disk'[s] = disk[s] /\ during[s] = media[s]
      BY <2>1 DEF TypeOK
    <3>5. \A s \in Slots : disk[s] \in media[s]
      BY DEF MediaHoldsDisk
    <3> HIDE DEF during, t, new
    <3> QED
      BY <2>1, <3>2, <3>3, <3>4, <3>5
  <2>2. CASE PowerLost(during)
    <3> HIDE DEF during
    <3>1. \A s \in Slots : disk'[s] \in during[s] /\ media'[s] = {disk'[s]}
      BY <1>3, <2>2, PowerLostType
    <3> QED
      BY <3>1
  <2> QED
    BY <1>1, <2>1, <2>2
<1>5. \A q \in Records : fate'[q] # "skipped"
  BY <1>1, EvictedQueued, EvictedType
<1>6. ASSUME NEW q \in Queued' PROVE Held(q)'
  <2>1. q \in Queued /\ ~(Full /\ seqno[q] = head_seq)
    BY <1>1, EvictedQueued, EvictedType DEF Queued
  <2>2. /\ during[slot_of(seqno[q])] = {Rec(seqno[q], q)}
        /\ \A s \in Slots : \A d \in during[s] : d.seq < seqno[q] + NSLOTS
    BY <1>1, <2>1, InterruptedWrite
  <2>3. slot_of(seqno[q]) \in Slots
    BY <2>1, QueuedFacts
  <2>4. media'[slot_of(seqno[q])] = {Rec(seqno[q], q)}
    BY <1>4, <2>2, <2>3
  <2>5. \A s \in Slots : \A d \in media'[s] : d.seq < seqno[q] + NSLOTS
    BY <1>4, <2>2
  <2> QED
    BY <1>1, <2>4, <2>5 DEF Held, slot_of, Rec
<1> QED
  BY <1>1, <1>4, <1>5, <1>6 DEF RingWindow, MediaHoldsDisk, Durable

LEMMA PeekInv ==
    ASSUME SpoolInv, Peek, TypeOK'
    PROVE  SpoolInv'
<1> USE DEF SpoolInv
<1>1. PICK k \in head_seq .. tail_seq :
          /\ ready /\ ready' = ready
          /\ \A q \in head_seq .. k - 1 : ~Good(q)
          /\ head_seq' = k
          /\ rec_count' = rec_count - (k - head_seq)
          /\ fate' = Release({r \in Records : seqno[r] \in head_seq .. k - 1}, "skipped")
          /\ UNCHANGED <<tail_seq, disk, media, seqno>>
  BY DEF Peek, diskVars
<1>2. head_seq \in Nat /\ tail_seq \in Nat /\ k \in Nat /\ k <= tail_seq /\ head_seq <= k
  BY DEF TypeOK
(* Every spooled record is a good slot, so the skip stops short of it. *)
<1>3. ASSUME NEW r \in Queued PROVE k <= seqno[r]
  <2>1. head_seq <= seqno[r] /\ seqno[r] \in Nat /\ Good(seqno[r])
    BY <1>1, QueuedFacts DEF Durable, Held
  <2> QED
    BY <1>1, <1>2, <2>1
<1>4. Queued' = Queued /\ \A r \in Records : fate'[r] # "skipped"
  <2>1. \A r \in Queued : seqno[r] \notin head_seq .. k - 1
    BY <1>2, <1>3, QueuedFacts
  <2>2. fate' = fate
    BY <1>1, <2>1 DEF Release, Queued, TypeOK
  <2> QED
    BY <2>2 DEF Queued
<1>5. RingWindow'
  BY <1>1, <1>2 DEF RingWindow, TypeOK
<1>6. Durable'
  BY <1>1, <1>3, <1>4 DEF Durable, Held, slot_of, Rec
<1> QED
  BY <1>1, <1>4, <1>5, <1>6 DEF MediaHoldsDisk

LEMMA CommitInv ==
    ASSUME SpoolInv, Commit, TypeOK'
    PROVE  SpoolInv'
<1> DEFINE h == slot_of(head_seq)
<1> USE DEF SpoolInv
<1>1. CASE rec_count = 0 /\ UNCHANGED <<head_seq, rec_count, diskVars, fate>>
  BY <1>1
     DEF Commit, diskVars, RingWindow, MediaHoldsDisk, Durable, Held, Queued, slot_of, Rec
<1>2. CASE /\ rec_count > 0
           /\ disk' = [disk EXCEPT ![h] = Blank] \/ disk' = disk
           /\ media' = [media EXCEPT ![h] = @ \cup {Blank}]
           /\ head_seq' = head_seq + 1
           /\ rec_count' = rec_count - 1
           /\ fate' = Release({r \in Records : seqno[r] = head_seq}, "drained")
  <2>1. ready /\ UNCHANGED <<ready, tail_seq, seqno>>
    BY DEF Commit
  <2>2. h \in Slots /\ head_seq \in Nat /\ tail_seq \in Nat /\ rec_count \in Int
    BY SlotInRange DEF TypeOK
  <2>3. \A s \in Slots : media'[s] = media[s] \/ (s = h /\ media'[s] = media[s] \cup {Blank})
    BY <1>2, <2>2 DEF TypeOK
  <2>4. \A s \in Slots : disk'[s] = disk[s] \/ (s = h /\ disk'[s] = Blank)
    BY <1>2, <2>2 DEF TypeOK
  <2>5. MediaHoldsDisk'
    BY <1>2, <2>2, <2>4 DEF MediaHoldsDisk, TypeOK
  <2>6. RingWindow'
    <3>1. Blank.seq <= tail_seq
      BY <2>2 DEF Blank
    <3>2. \A s \in Slots : disk'[s].seq <= tail_seq
      BY <2>1, <2>4, <3>1 DEF RingWindow
    <3> QED
      BY <1>2, <2>1, <2>2, <3>2 DEF RingWindow
  <2>7. \A r \in Records : fate'[r] # "skipped"
    BY <1>2, ReleaseQueued DEF Fates
  <2>8. ASSUME NEW r \in Queued' PROVE Held(r)'
    <3>1. r \in Queued /\ seqno[r] # head_seq
      BY <1>2, ReleaseQueued DEF Queued, Fates
    <3>2. /\ seqno[r] \in Nat /\ head_seq < seqno[r] /\ seqno[r] < tail_seq
          /\ seqno[r] - head_seq < NSLOTS
      BY <2>1, <2>2, <3>1, QueuedFacts DEF Durable, Held, RingWindow
    <3>3. slot_of(seqno[r]) # h /\ slot_of(seqno[r]) \in Slots
      BY <2>2, <3>2, DistinctSlots, SlotInRange
    <3>4. media'[slot_of(seqno[r])] = {Rec(seqno[r], r)}
      BY <2>3, <3>1, <3>3 DEF Durable, Held
    <3>5. \A s \in Slots : \A c \in media'[s] : c.seq < seqno[r] + NSLOTS
      <4>1. Blank.seq < seqno[r] + NSLOTS
        BY <3>2 DEF Blank
      <4> QED
        BY <2>3, <3>1, <4>1 DEF Durable, Held
    <3> QED
      BY <1>2, <2>1, <2>2, <3>2, <3>4, <3>5 DEF Held, slot_of, Rec
  <2> QED
    BY <2>5, <2>6, <2>7, <2>8 DEF Durable
<1> QED
  BY <1>1, <1>2 DEF Commit, diskVars

LEMMA WipeInv ==
    ASSUME SpoolInv, HonestDisk, Wipe, TypeOK'
    PROVE  SpoolInv'
<1> USE DEF SpoolInv
<1>1. PICK n \in 0 .. NSLOTS :
          /\ n = NSLOTS \/ "wipe_io" \in Faults
          /\ disk' = [s \in Slots |-> IF s < n THEN Blank ELSE disk[s]]
          /\ media' = [s \in Slots |-> IF s < n \/ s = n THEN media[s] \cup {Blank}
                                                ELSE media[s]]
  BY DEF Wipe
<1>2. \A s \in Slots : disk'[s] = Blank /\ Blank \in media'[s]
  BY <1>1 DEF HonestDisk, Slots
<1>3. Queued' = {} /\ \A r \in Records : fate'[r] # "skipped"
  BY ReleaseQueued DEF Wipe, Queued, Fates
<1>4. RingWindow'
  <2>1. head_seq' = 0 /\ tail_seq' = 0 /\ rec_count' = 0
    BY DEF Wipe
  <2>2. \A s \in Slots : disk'[s].seq <= 0
    BY <1>2 DEF Blank
  <2> QED
    BY <2>1, <2>2 DEF RingWindow
<1>5. MediaHoldsDisk' /\ Durable'
  BY <1>2, <1>3 DEF MediaHoldsDisk, Durable
<1> QED
  BY <1>3, <1>4, <1>5

LEMMA RebootInv ==
    ASSUME SpoolInv, Reboot, TypeOK'
    PROVE  SpoolInv'
BY DEF Reboot, RamReset, diskVars, historyVars, SpoolInv, RingWindow, MediaHoldsDisk,
       Durable, Held, Queued, slot_of, Rec

LEMMA PowerCutInv ==
    ASSUME SpoolInv, PowerCut, TypeOK'
    PROVE  SpoolInv'
<1> USE DEF SpoolInv
<1>1. ~ready' /\ UNCHANGED <<fate, seqno>> /\ Queued' = Queued
  BY DEF PowerCut, RamReset, historyVars, Queued
<1>2. \A s \in Slots : disk'[s] \in media[s] /\ media'[s] = {disk'[s]}
  BY PowerLostType DEF PowerCut, TypeOK
<1>3. ASSUME NEW r \in Queued PROVE Held(r)'
  <2>1. slot_of(seqno[r]) \in Slots
    BY QueuedFacts
  <2>2. media'[slot_of(seqno[r])] = {Rec(seqno[r], r)}
    BY <1>2, <2>1 DEF Durable, Held
  <2>3. \A s \in Slots : \A c \in media'[s] : c.seq < seqno[r] + NSLOTS
    BY <1>2 DEF Durable, Held
  <2> QED
    BY <1>1, <2>2, <2>3 DEF Held, slot_of, Rec
<1> QED
  BY <1>1, <1>2, <1>3 DEF RingWindow, MediaHoldsDisk, Durable

LEMMA StutterInv ==
    ASSUME SpoolInv, UNCHANGED vars
    PROVE  SpoolInv'
BY DEF vars, ramVars, stats, diskVars, historyVars, SpoolInv, TypeOK, RingWindow,
       MediaHoldsDisk, Durable, Held, Queued, slot_of, Rec

LEMMA NextInv == SpoolInv /\ HonestDisk /\ [Next]_vars => SpoolInv'
<1> SUFFICES ASSUME SpoolInv, HonestDisk, [Next]_vars PROVE SpoolInv'
  OBVIOUS
<1>1. TypeOK'
  BY NextType DEF SpoolInv
<1>2. CASE UNCHANGED vars
  BY <1>2, StutterInv
<1>3. ASSUME NEW r \in Records,
             PushTooLong(r) \/ Push(r) \/ PushFails(r) \/ RestartInPush(r)
      PROVE  SpoolInv'
  BY <1>1, <1>3, PushTooLongInv, PushInv, PushFailsInv, RestartInPushInv
<1>4. CASE SpoolInit \/ Peek \/ Commit \/ Wipe
  BY <1>1, <1>4, SpoolInitInv, PeekInv, CommitInv, WipeInv
<1>5. CASE Reboot \/ PowerCut
  BY <1>1, <1>5, RebootInv, PowerCutInv
<1> QED
  BY <1>2, <1>3, <1>4, <1>5 DEF Next

(* The inductive invariant, for every ring size, record set, prior content *)
(* of the region and number of restarts and power cuts, with writes of     *)
(* records and commits, and reads, free to fail.                           *)
THEOREM SpoolInvariant ==
    ASSUME HonestDisk
    PROVE  Spec => []SpoolInv
<1>1. SpoolInv /\ [Next]_vars => SpoolInv'
  BY NextInv
<1> QED
  BY InitInv, <1>1, PTL DEF Spec

(* An accepted record survives: while ready, every record for which        *)
(* spool_push returned 0 and that was not drained, wiped or pushed out is  *)
(* in the window and intact, and none was ever skipped as a bad slot -     *)
(* provided erases do not fail during a wipe and flushes work.             *)
THEOREM AcceptedSurvive ==
    ASSUME HonestDisk
    PROVE  Spec => []Recoverable
<1>1. SpoolInv => Recoverable
  <2> SUFFICES ASSUME SpoolInv, ready, NEW r \in Queued PROVE Readable(r)
    BY DEF SpoolInv, Recoverable
  <2> QED
    BY QueuedFacts DEF SpoolInv, Durable, Held, Readable
<1> QED
  BY <1>1, SpoolInvariant, PTL

----------------------------------------------------------------------------
(* The published queue length. *)

LEMMA CountStep ==
    ASSUME "push_io" \notin Faults, TypeOK, StatsCountExact, [Next]_vars
    PROVE  StatsCountExact'
<1> USE DEF StatsCountExact
<1>1. CASE SpoolInit
  <2>1. CASE InitFails
    BY <2>1 DEF InitFails, ramVars, stats
  <2>2. CASE InitEmpty
    BY <2>2 DEF InitEmpty
  <2>3. CASE InitRecover
    BY <2>3 DEF InitRecover
  <2> QED
    BY <1>1, <2>1, <2>2, <2>3 DEF SpoolInit
<1>2. ASSUME NEW r \in Records, PushTooLong(r) \/ Push(r) \/ PushFails(r)
      PROVE  StatsCountExact'
  BY <1>2 DEF PushTooLong, Push, PushFails
<1>3. ASSUME NEW r \in Records, RestartInPush(r) PROVE StatsCountExact'
  BY <1>3 DEF RestartInPush, RamReset
<1>4. CASE Peek
  BY <1>4 DEF Peek, TypeOK
<1>5. CASE Commit
  <2>1. UNCHANGED ready /\ (count' = rec_count' \/ UNCHANGED <<count, rec_count>>)
    BY <1>5 DEF Commit
  <2> QED
    BY <2>1
<1>6. CASE Wipe
  BY <1>6 DEF Wipe
<1>7. CASE Reboot \/ PowerCut
  BY <1>7 DEF Reboot, PowerCut, RamReset
<1>8. CASE UNCHANGED vars
  BY <1>8 DEF vars, ramVars, stats
<1> QED
  BY <1>1, <1>2, <1>3, <1>4, <1>5, <1>6, <1>7, <1>8 DEF Next

(* stats.count, which the gateway publishes, is the length of the ring, as *)
(* long as no slot write fails (a failing push into a full ring leaves it  *)
(* one too high).                                                          *)
THEOREM CountExact ==
    ASSUME "push_io" \notin Faults
    PROVE  Spec => []StatsCountExact
<1>1. Init => StatsCountExact
  BY DEF Init, StatsCountExact
<1>2. TypeOK /\ StatsCountExact /\ [Next]_vars => StatsCountExact'
  BY CountStep
<1> QED
  BY <1>1, <1>2, TypeCorrect, PTL DEF Spec

----------------------------------------------------------------------------
(* Where a record's bytes may be.  A record is written to one slot, once,  *)
(* so whatever a power cut leaves, every readable copy of it is in that    *)
(* slot and carries the sequence number of that write.                     *)

(* No record of the gateway is in the region before the first boot. *)
NoneFound == \A c \in Found : c.body \notin Records

Untraced(r) == \A s \in Slots : \A c \in media[s] : c.body # r

TracedAt(r, q) ==
    \A s \in Slots : \A c \in media[s] :
        c.body = r => s = slot_of(q) /\ c = Rec(q, r)

TraceInv ==
    /\ MediaHoldsDisk
    /\ \A r \in Records : fate[r] = "fresh" => Untraced(r)
    /\ \A r \in Queued : TracedAt(r, seqno[r])
    /\ \A r \in Records : \E q \in Nat : TracedAt(r, q)

(* A step leaves nothing new in the slots but, of one fresh record, the    *)
(* copy written at the tail.                                               *)
Adds(r) ==
    \A s \in Slots : \A c \in media'[s] :
        c \in media[s] \/ c.body \notin Records \/ (s = slot_of(tail_seq) /\ c = Rec(tail_seq, r))

AddsNothing == \A s \in Slots : \A c \in media'[s] : c \in media[s] \/ c.body \notin Records

LEMMA PartialBodies ==
    ASSUME NEW old \in Content, NEW new \in Written, NEW c \in Partial(old, new)
    PROVE  c = old \/ c = new \/ c.body \notin Records
BY DEF Partial, Content, Written, Blank

LEMMA AllPartialBodies ==
    ASSUME NEW olds \in SUBSET Content, NEW new \in Written, NEW c \in AllPartial(olds, new)
    PROVE  c \in olds \/ c = new \/ c.body \notin Records
BY PartialBodies DEF AllPartial

LEMMA BlankBody == Blank.body \notin Records
BY DEF Blank

LEMMA TailWrite ==
    ASSUME TypeOK, NEW r \in Records,
           NEW m, m = [media EXCEPT ![slot_of(tail_seq)] = AllPartial(@, Rec(tail_seq, r))]
    PROVE  /\ m \in [Slots -> SUBSET Content]
           /\ \A s \in Slots : \A c \in m[s] :
                  c \in media[s] \/ c.body \notin Records
                  \/ (s = slot_of(tail_seq) /\ c = Rec(tail_seq, r))
<1>1. slot_of(tail_seq) \in Slots /\ Rec(tail_seq, r) \in Written
  BY SlotInRange, RecWritten DEF TypeOK
<1>2. media \in [Slots -> SUBSET Content]
  BY DEF TypeOK
<1>3. AllPartial(media[slot_of(tail_seq)], Rec(tail_seq, r)) \subseteq Content
  BY <1>1, <1>2, AllPartialContent
<1>4. m \in [Slots -> SUBSET Content]
  BY <1>1, <1>2, <1>3
<1>5. ASSUME NEW s \in Slots, NEW c \in m[s]
      PROVE  c \in media[s] \/ c.body \notin Records
             \/ (s = slot_of(tail_seq) /\ c = Rec(tail_seq, r))
  <2>1. CASE s # slot_of(tail_seq)
    BY <1>2, <1>5, <2>1
  <2>2. CASE s = slot_of(tail_seq)
    <3>1. c \in AllPartial(media[s], Rec(tail_seq, r))
      BY <1>1, <1>2, <1>5, <2>2
    <3>2. media[s] \in SUBSET Content
      BY <1>2, <1>5
    <3> QED
      BY <1>1, <2>2, <3>1, <3>2, AllPartialBodies
  <2> QED
    BY <2>1, <2>2
<1> QED
  BY <1>4, <1>5

LEMMA PushAdds ==
    ASSUME TypeOK, MediaHoldsDisk, NEW r \in Records, Push(r)
    PROVE  MediaHoldsDisk' /\ Adds(r)
<1> DEFINE t == slot_of(tail_seq)
           new == Rec(tail_seq, r)
           torn == [media EXCEPT ![t] = AllPartial(@, new)]
<1>1. t \in Slots /\ new \in Written
  BY SlotInRange, RecWritten DEF TypeOK
<1>2. disk' = [disk EXCEPT ![t] = new]
      /\ (media' = [s \in Slots |-> {disk'[s]}] \/ media' = torn)
  BY DEF Push
<1>3. \A s \in Slots : disk'[s] = IF s = t THEN new ELSE disk[s]
  BY <1>1, <1>2 DEF TypeOK
<1>4. CASE media' = [s \in Slots |-> {disk'[s]}]
  BY <1>3, <1>4 DEF MediaHoldsDisk, Adds
<1>5. CASE media' = torn
  <2>1. Adds(r)
    BY <1>5, TailWrite DEF Adds
  <2>2. disk[t] \in media[t] /\ media[t] \in SUBSET Content
    BY <1>1 DEF MediaHoldsDisk, TypeOK
  <2>3. new \in Partial(disk[t], new)
    BY DEF Partial
  <2>4. new \in AllPartial(media[t], new)
    BY <1>1, <2>2, <2>3, AllPartialContent
  <2> QED
    BY <1>1, <1>3, <1>5, <2>1, <2>4 DEF MediaHoldsDisk, TypeOK
<1> QED
  BY <1>2, <1>4, <1>5

LEMMA PushFailsAdds ==
    ASSUME TypeOK, MediaHoldsDisk, NEW r \in Records, PushFails(r)
    PROVE  MediaHoldsDisk' /\ Adds(r)
<1> DEFINE t == slot_of(tail_seq)
           new == Rec(tail_seq, r)
<1>1. t \in Slots /\ new \in Written
  BY SlotInRange, RecWritten DEF TypeOK
<1>2. PICK c \in Partial(disk[t], new) : disk' = [disk EXCEPT ![t] = c]
  BY DEF PushFails
<1>3. media' = [media EXCEPT ![t] = AllPartial(@, new)]
  BY DEF PushFails
<1>4. Adds(r)
  BY <1>3, TailWrite DEF Adds
<1>5. disk[t] \in media[t] /\ media[t] \in SUBSET Content
  BY <1>1 DEF MediaHoldsDisk, TypeOK
<1>6. c \in AllPartial(media[t], new)
  BY <1>1, <1>2, <1>5, AllPartialContent
<1> QED
  BY <1>1, <1>2, <1>3, <1>4, <1>6 DEF MediaHoldsDisk, TypeOK

LEMMA RestartInPushAdds ==
    ASSUME TypeOK, MediaHoldsDisk, NEW r \in Records, RestartInPush(r)
    PROVE  MediaHoldsDisk' /\ Adds(r)
<1> DEFINE t == slot_of(tail_seq)
           new == Rec(tail_seq, r)
           during == [media EXCEPT ![t] = AllPartial(@, new)]
<1>1. t \in Slots /\ new \in Written
  BY SlotInRange, RecWritten DEF TypeOK
<1>2. during \in [Slots -> SUBSET Content]
  BY TailWrite
<1>3. \A s \in Slots : \A c \in during[s] :
          c \in media[s] \/ c.body \notin Records \/ (s = t /\ c = new)
  BY TailWrite
<1>4. ASSUME NEW c \in Partial(disk[t], new), disk' = [disk EXCEPT ![t] = c], media' = during
      PROVE  MediaHoldsDisk' /\ Adds(r)
  <2>1. disk[t] \in media[t] /\ media[t] \in SUBSET Content
    BY <1>1 DEF MediaHoldsDisk, TypeOK
  <2>2. c \in AllPartial(media[t], new)
    BY <1>1, <1>4, <2>1, AllPartialContent
  <2>3. MediaHoldsDisk'
    BY <1>1, <1>4, <2>2 DEF MediaHoldsDisk, TypeOK
  <2> QED
    BY <1>3, <1>4, <2>3 DEF Adds
<1>5. CASE PowerLost(during)
  <2>1. \A s \in Slots : disk'[s] \in during[s] /\ media'[s] = {disk'[s]}
    BY <1>2, <1>5, PowerLostType
  <2> QED
    BY <1>3, <2>1 DEF MediaHoldsDisk, Adds
<1> QED
  BY <1>4, <1>5 DEF RestartInPush

LEMMA OtherAdds ==
    ASSUME TypeOK, MediaHoldsDisk,
           \/ SpoolInit \/ Peek \/ Commit \/ Wipe \/ Reboot \/ PowerCut \/ UNCHANGED vars
           \/ \E r \in Records : PushTooLong(r)
    PROVE  MediaHoldsDisk' /\ AddsNothing
<1>1. CASE UNCHANGED diskVars
  BY <1>1 DEF diskVars, MediaHoldsDisk, AddsNothing
<1>2. CASE Commit
  <2> DEFINE h == slot_of(head_seq)
  <2>1. h \in Slots
    BY SlotInRange DEF TypeOK
  <2>2. CASE UNCHANGED diskVars
    BY <1>1, <2>2
  <2>3. CASE /\ disk' = [disk EXCEPT ![h] = Blank] \/ UNCHANGED disk
             /\ media' = [media EXCEPT ![h] = @ \cup {Blank}]
    <3>1. \A s \in Slots : media'[s] = IF s = h THEN media[s] \cup {Blank} ELSE media[s]
      BY <2>1, <2>3 DEF TypeOK
    <3>2. \A s \in Slots : disk'[s] = disk[s] \/ (s = h /\ disk'[s] = Blank)
      BY <2>1, <2>3 DEF TypeOK
    <3>3. MediaHoldsDisk'
      BY <3>1, <3>2 DEF MediaHoldsDisk
    <3>4. AddsNothing
      BY <3>1, BlankBody DEF AddsNothing
    <3> QED
      BY <3>3, <3>4
  <2> QED
    BY <1>2, <2>2, <2>3 DEF Commit
<1>3. CASE Wipe
  <2>1. PICK n \in 0 .. NSLOTS :
            /\ disk' = [s \in Slots |-> IF s < n THEN Blank ELSE disk[s]]
            /\ media' = [s \in Slots |-> IF s < n \/ s = n THEN media[s] \cup {Blank}
                                                  ELSE media[s]]
    BY <1>3 DEF Wipe
  <2> QED
    BY <2>1, BlankBody DEF MediaHoldsDisk, AddsNothing
<1>4. CASE PowerCut
  <2>1. \A s \in Slots : disk'[s] \in media[s] /\ media'[s] = {disk'[s]}
    BY <1>4, PowerLostType DEF PowerCut, TypeOK
  <2> QED
    BY <2>1 DEF MediaHoldsDisk, AddsNothing
<1>5. CASE SpoolInit \/ Peek \/ Reboot \/ UNCHANGED vars
  BY <1>1, <1>5 DEF SpoolInit, Peek, Reboot, vars
<1>6. CASE \E r \in Records : PushTooLong(r)
  BY <1>1, <1>6 DEF PushTooLong
<1> QED
  BY <1>2, <1>3, <1>4, <1>5, <1>6

(* Which fates a step gives: a record leaves "fresh" only by being pushed, *)
(* and is queued only with the tail's sequence number.                     *)
LEMMA FateStep ==
    ASSUME TypeOK,
           SpoolInit \/ Peek \/ Commit \/ Wipe \/ Reboot \/ PowerCut \/ UNCHANGED vars
    PROVE  \A r \in Records :
               /\ fate'[r] = "fresh" => fate[r] = "fresh"
               /\ fate'[r] = "queued" => fate[r] = "queued"
               /\ seqno'[r] = seqno[r]
<1>1. CASE UNCHANGED historyVars
  BY <1>1 DEF historyVars
<1>2. ASSUME NEW S, NEW f \in Fates \ {"fresh", "queued"}, fate' = Release(S, f), seqno' = seqno
      PROVE  \A r \in Records :
               /\ fate'[r] = "fresh" => fate[r] = "fresh"
               /\ fate'[r] = "queued" => fate[r] = "queued"
               /\ seqno'[r] = seqno[r]
  BY <1>2 DEF Release
<1>3. CASE Peek
  BY <1>2, <1>3 DEF Peek, Fates
<1>4. CASE Commit
  BY <1>2, <1>4 DEF Commit, Fates
<1>5. CASE Wipe
  BY <1>2, <1>5 DEF Wipe, Fates
<1> QED
  BY <1>1, <1>3, <1>4, <1>5 DEF SpoolInit, Reboot, PowerCut, vars

LEMMA PushFateStep ==
    ASSUME TypeOK, NEW r \in Records,
           Push(r) \/ PushFails(r) \/ PushTooLong(r) \/ RestartInPush(r)
    PROVE  /\ fate[r] = "fresh" /\ fate'[r] # "fresh"
           /\ fate'[r] = "queued" => seqno'[r] = tail_seq
           /\ \A q \in Records \ {r} :
               /\ fate'[q] = "fresh" => fate[q] = "fresh"
               /\ fate'[q] = "queued" => fate[q] = "queued"
               /\ seqno'[q] = seqno[q]
<1>1. \A q \in Records : /\ Evicted[q] = "fresh" => fate[q] = "fresh"
                         /\ Evicted[q] = "queued" => fate[q] = "queued"
  BY DEF Evicted, Release
<1>2. Evicted \in [Records -> Fates]
  BY EvictedType
<1>3. CASE Push(r)
  BY <1>1, <1>2, <1>3 DEF Push, TypeOK
<1>4. CASE PushFails(r)
  BY <1>1, <1>2, <1>4 DEF PushFails, TypeOK
<1>5. CASE PushTooLong(r)
  BY <1>5 DEF PushTooLong, TypeOK
<1>6. CASE RestartInPush(r)
  BY <1>1, <1>2, <1>6 DEF RestartInPush, TypeOK
<1> QED
  BY <1>3, <1>4, <1>5, <1>6

LEMMA TraceInit == ASSUME NoneFound PROVE Init => TraceInv
<1> SUFFICES ASSUME Init PROVE TraceInv
  OBVIOUS
<1>1. \A s \in Slots : media[s] = {disk[s]} /\ disk[s] \in Found
  BY DEF Init
<1>2. MediaHoldsDisk
  BY <1>1 DEF MediaHoldsDisk
<1>3. \A r \in Records : Untraced(r)
  BY <1>1 DEF NoneFound, Untraced
<1>4. \A r \in Records : TracedAt(r, 0) /\ TracedAt(r, seqno[r])
  BY <1>3 DEF Untraced, TracedAt
<1> QED
  BY <1>2, <1>3, <1>4 DEF TraceInv, Queued

LEMMA TraceStep == TypeOK /\ TraceInv /\ [Next]_vars => TraceInv'
<1> SUFFICES ASSUME TypeOK, TraceInv, [Next]_vars PROVE TraceInv'
  OBVIOUS
<1> USE DEF TraceInv
<1>1. CASE SpoolInit \/ Peek \/ Commit \/ Wipe \/ Reboot \/ PowerCut \/ UNCHANGED vars
  <2>1. MediaHoldsDisk' /\ AddsNothing
    BY <1>1, OtherAdds
  <2>2. \A r \in Records : Untraced(r) => Untraced(r)'
    BY <2>1 DEF AddsNothing, Untraced
  <2>3. \A r \in Records : \A q \in Nat : TracedAt(r, q) => TracedAt(r, q)'
    BY <2>1 DEF AddsNothing, TracedAt, slot_of, Rec
  <2>4. \A r \in Records : fate'[r] = "fresh" => Untraced(r)'
    BY <1>1, <2>2, FateStep
  <2>5. \A r \in Queued' : TracedAt(r, seqno[r])'
    <3>1. ASSUME NEW r \in Queued' PROVE TracedAt(r, seqno[r])'
      <4>1. r \in Queued /\ seqno'[r] = seqno[r] /\ seqno[r] \in Nat
        BY <1>1, FateStep DEF Queued, TypeOK
      <4> QED
        BY <2>3, <4>1 DEF Queued, TracedAt, slot_of, Rec
    <3> QED
      BY <3>1
  <2> QED
    BY <2>1, <2>3, <2>4, <2>5
<1>2. ASSUME NEW r \in Records, Push(r) \/ PushFails(r) \/ PushTooLong(r) \/ RestartInPush(r)
      PROVE  TraceInv'
  <2>1. MediaHoldsDisk' /\ Adds(r)
    <3>1. CASE PushTooLong(r)
      BY <3>1, OtherAdds DEF AddsNothing, Adds
    <3> QED
      BY <1>2, <3>1, PushAdds, PushFailsAdds, RestartInPushAdds
  <2>2. /\ fate[r] = "fresh" /\ fate'[r] # "fresh"
        /\ fate'[r] = "queued" => seqno'[r] = tail_seq
        /\ \A q \in Records \ {r} :
               /\ fate'[q] = "fresh" => fate[q] = "fresh"
               /\ fate'[q] = "queued" => fate[q] = "queued"
               /\ seqno'[q] = seqno[q]
    BY <1>2, PushFateStep
  <2>3. Rec(tail_seq, r).body = r
    BY DEF Rec
  <2>4. PICK q \in Nat : q = tail_seq
    BY DEF TypeOK
  <2>5. TracedAt(r, q)'
    <3>1. Untraced(r)
      BY <2>2
    <3> QED
      BY <2>1, <2>4, <3>1 DEF Adds, Untraced, TracedAt, slot_of, Rec
  <2>6. ASSUME NEW p \in Records \ {r}, NEW n \in Nat, TracedAt(p, n)
        PROVE  TracedAt(p, n)'
    BY <2>1, <2>3, <2>6 DEF Adds, TracedAt, slot_of, Rec
  <2>7. ASSUME NEW p \in Records \ {r}, fate'[p] = "fresh"
        PROVE  Untraced(p)'
    BY <2>1, <2>2, <2>3, <2>7 DEF Adds, Untraced
  <2>8. ASSUME NEW p \in Queued'
        PROVE  TracedAt(p, seqno[p])'
    <3>1. CASE p = r
      BY <2>2, <2>4, <2>5, <2>8, <3>1 DEF Queued, TracedAt, slot_of, Rec
    <3>2. CASE p # r
      <4>1. p \in Queued /\ seqno'[p] = seqno[p] /\ seqno[p] \in Nat
        BY <2>2, <2>8, <3>2 DEF Queued, TypeOK
      <4>2. PICK n \in Nat : n = seqno[p]
        BY <4>1
      <4>3. TracedAt(p, n)'
        BY <2>6, <2>8, <3>2, <4>1, <4>2 DEF Queued
      <4> QED
        BY <4>1, <4>2, <4>3 DEF TracedAt, slot_of, Rec
    <3> QED
      BY <3>1, <3>2
  <2>9. ASSUME NEW p \in Records PROVE \E n \in Nat : TracedAt(p, n)'
    BY <2>5, <2>6
  <2> QED
    BY <2>1, <2>2, <2>7, <2>8, <2>9
<1> QED
  BY <1>1, <1>2 DEF Next

(* What every client of the spool can rely on: however writes, erases,     *)
(* flushes and the power fail, all readable copies of a record are the one *)
(* write of it.                                                            *)
THEOREM OneTrace ==
    ASSUME NoneFound
    PROVE  Spec => []TraceInv
BY TypeCorrect, TraceInit, TraceStep, PTL DEF Spec

----------------------------------------------------------------------------
(* No record is handed out again after it was committed or wiped. *)

(* While slot headers are erased reliably, a released record is not on the *)
(* disk any more.                                                          *)
EraseHolds == "power" \notin Faults /\ "commit_io" \notin Faults

Gone == \A r \in Records :
            fate[r] \in {"drained", "wiped"} => \A s \in Slots : disk[s].body # r

LEMMA GoneStep == EraseHolds /\ TypeOK /\ TraceInv /\ Gone /\ [Next]_vars => Gone'
<1> SUFFICES ASSUME EraseHolds, TypeOK, TraceInv, Gone, [Next]_vars,
                    NEW r \in Records, fate'[r] \in {"drained", "wiped"},
                    NEW s \in Slots
             PROVE  disk'[s].body # r
  BY DEF Gone
<1>1. ASSUME disk'[s] = disk[s], fate[r] \in {"drained", "wiped"} PROVE disk'[s].body # r
  BY <1>1 DEF Gone
<1>2. CASE SpoolInit \/ Reboot \/ UNCHANGED vars
  BY <1>1, <1>2 DEF SpoolInit, Reboot, vars, diskVars, historyVars
<1>3. ASSUME NEW q \in Records, Push(q) \/ PushFails(q) \/ RestartInPush(q) \/ PushTooLong(q)
      PROVE  disk'[s].body # r
  <2>1. fate'[q] \notin {"drained", "wiped"}
    BY <1>3, EvictedType DEF Push, PushFails, RestartInPush, PushTooLong, TypeOK
  <2>2. q # r /\ fate[r] \in {"drained", "wiped"}
    BY <1>3, <2>1, EvictedType
       DEF Push, PushFails, RestartInPush, PushTooLong, TypeOK, Evicted, Release
  <2>3. disk[s].body # r
    BY <2>2 DEF Gone
  <2> DEFINE t == slot_of(tail_seq)
             new == Rec(tail_seq, q)
  <2>4. t \in Slots /\ new \in Written /\ new.body = q
    BY SlotInRange, RecWritten DEF TypeOK
  <2>5. CASE PushTooLong(q)
    BY <2>3, <2>5 DEF PushTooLong, diskVars
  <2>6. CASE Push(q)
    BY <2>2, <2>3, <2>4, <2>6 DEF Push, TypeOK
  <2>7. ASSUME NEW c \in Partial(disk[t], new), disk' = [disk EXCEPT ![t] = c]
        PROVE  disk'[s].body # r
    <3>1. disk[t] \in Content /\ disk[t].body # r
      BY <2>2, <2>4 DEF Gone, TypeOK
    <3>2. c.body # r
      BY <2>2, <2>4, <2>7, <3>1, PartialBodies
    <3> QED
      BY <2>3, <2>4, <2>7, <3>2 DEF TypeOK
  <2>8. CASE PushFails(q)
    BY <2>7, <2>8 DEF PushFails
  <2>9. CASE RestartInPush(q)
    BY <2>7, <2>9 DEF RestartInPush, EraseHolds
  <2> QED
    BY <1>3, <2>5, <2>6, <2>8, <2>9
<1>4. CASE Peek
  BY <1>1, <1>4 DEF Peek, diskVars, Release
<1>5. CASE Commit
  <2> DEFINE h == slot_of(head_seq)
  <2>1. h \in Slots
    BY SlotInRange DEF TypeOK
  <2>2. CASE UNCHANGED <<diskVars, fate>>
    BY <1>1, <2>2 DEF diskVars
  <2>3. CASE /\ disk' = [disk EXCEPT ![h] = Blank]
             /\ fate' = Release({q \in Records : seqno[q] = head_seq}, "drained")
    <3>1. CASE s = h
      BY <2>1, <2>3, <3>1, BlankBody DEF TypeOK
    <3>2. CASE s # h
      <4>1. disk'[s] = disk[s]
        BY <2>1, <2>3, <3>2 DEF TypeOK
      <4>2. CASE fate[r] \in {"drained", "wiped"}
        BY <1>1, <4>1, <4>2
      <4>3. CASE fate[r] \notin {"drained", "wiped"}
        <5>1. r \in Queued /\ seqno[r] = head_seq
          BY <2>3, <4>3 DEF Release
        <5>2. disk[s] \in media[s] /\ TracedAt(r, seqno[r])
          BY <5>1 DEF TraceInv, MediaHoldsDisk
        <5> QED
          BY <3>2, <4>1, <5>1, <5>2 DEF TracedAt
      <4> QED
        BY <4>2, <4>3
    <3> QED
      BY <3>1, <3>2
  <2> QED
    BY <1>5, <2>2, <2>3 DEF Commit, EraseHolds
<1>6. CASE Wipe
  <2>1. PICK n \in 0 .. NSLOTS :
            /\ disk' = [i \in Slots |-> IF i < n THEN Blank ELSE disk[i]]
            /\ fate' = Release(Records, IF n = NSLOTS THEN "wiped" ELSE "orphaned")
    BY <1>6 DEF Wipe
  <2>2. CASE n = NSLOTS
    <3>1. disk'[s] = Blank
      BY <2>1, <2>2 DEF Slots
    <3> QED
      BY <3>1, BlankBody
  <2>3. CASE n # NSLOTS
    <3>1. fate[r] \in {"drained", "wiped"}
      BY <2>1, <2>3 DEF Release
    <3>2. disk'[s] = Blank \/ disk'[s] = disk[s]
      BY <2>1
    <3> QED
      BY <1>1, <3>1, <3>2, BlankBody
  <2> QED
    BY <2>2, <2>3
<1>7. ~PowerCut
  BY DEF PowerCut, EraseHolds
<1> QED
  BY <1>2, <1>3, <1>4, <1>5, <1>6, <1>7 DEF Next

(* What spool_peek hands out is on the disk. *)
LEMMA PeekOut ==
    ASSUME TypeOK, [Next]_vars, spool_out' # None, spool_out' # spool_out
    PROVE  spool_out' \in Records /\ \E s \in Slots : disk[s].body = spool_out'
<1>1. CASE Peek
  <2>1. PICK k \in head_seq .. tail_seq : Good(k) /\ spool_out' = disk[slot_of(k)].body
    BY <1>1 DEF Peek, Good
  <2>2. k \in Nat /\ slot_of(k) \in Slots
    BY SlotInRange DEF TypeOK
  <2>3. disk[slot_of(k)] \in Content
    BY <2>2 DEF TypeOK
  <2>4. disk[slot_of(k)].body \in Records
    BY <2>1, <2>3 DEF Good, Content, Written, Blank
  <2> QED
    BY <2>1, <2>2, <2>4
<1>2. ~SpoolInit /\ ~Commit /\ ~Wipe /\ ~Reboot /\ ~PowerCut /\ ~UNCHANGED vars
  BY DEF SpoolInit, InitFails, InitEmpty, InitRecover, Commit, Wipe, Reboot, PowerCut,
         RamReset, vars, ramVars
<1>3. \A r \in Records : ~PushTooLong(r) /\ ~Push(r) /\ ~PushFails(r) /\ ~RestartInPush(r)
  BY DEF PushTooLong, Push, PushFails, RestartInPush, RamReset
<1> QED
  BY <1>1, <1>2, <1>3 DEF Next

(* A drained or wiped record is never handed out again, across any number  *)
(* of reboots: the commit erases the header of the only slot that ever     *)
(* held it.  It takes a commit whose header write succeeds and reaches the *)
(* medium; a power cut breaks it (DrainedNeverResent).                     *)
THEOREM NoResend ==
    ASSUME NoneFound, EraseHolds
    PROVE  Spec => NeverResend
<1> DEFINE A == spool_out' # None => fate[spool_out'] \notin {"drained", "wiped"}
                                     \/ spool_out' = spool_out
<1>1. Init => Gone
  BY DEF Init, Gone
<1>2. TypeOK /\ TraceInv /\ Gone /\ [Next]_vars => Gone'
  BY GoneStep
<1>3. Spec => []Gone
  BY <1>1, <1>2, TypeCorrect, OneTrace, PTL DEF Spec
<1>4. TypeOK /\ Gone /\ [Next]_vars => A
  BY PeekOut DEF Gone
<1>5. Spec => [][A]_vars
  BY <1>3, <1>4, TypeCorrect, PTL DEF Spec
<1> QED
  BY <1>5 DEF NeverResend

----------------------------------------------------------------------------
(* The drop counter. *)

Lost == {r \in Records : fate[r] \in {"refused", "evicted", "skipped"}}

(* Until the first restart, spooled records have sequence numbers of their *)
(* own, below the tail, so an eviction loses one record at most and a skip *)
(* of n slots at most n.                                                   *)
DropInv ==
    reboots = 0 =>
        /\ ~booted => ~ready /\ Queued = {}
        /\ \A r \in Queued : seqno[r] < tail_seq
        /\ \A q, r \in Queued : seqno[q] = seqno[r] => q = r
        /\ IsFiniteSet(Lost) /\ Cardinality(Lost) <= drops

LEMMA DropInit == Init => DropInv
<1> SUFFICES ASSUME Init PROVE DropInv
  OBVIOUS
<1>1. Queued = {} /\ Lost = {} /\ ~ready /\ drops = 0
  BY DEF Init, Queued, Lost
<1> QED
  BY <1>1, FS_EmptySet DEF DropInv

LEMMA LoseSome ==
    ASSUME NEW S, IsFiniteSet(S), NEW T, NEW n \in Nat, NEW m \in Nat, Cardinality(S) <= m,
           IsFiniteSet(T), Cardinality(T) <= n
    PROVE  IsFiniteSet(S \cup T) /\ Cardinality(S \cup T) <= m + n
<1>1. IsFiniteSet(S \cap T)
  BY FS_Subset
<1>2. Cardinality(S) \in Nat /\ Cardinality(T) \in Nat /\ Cardinality(S \cap T) \in Nat
  BY <1>1, FS_CardinalityType
<1>3. /\ IsFiniteSet(S \cup T)
      /\ Cardinality(S \cup T) = Cardinality(S) + Cardinality(T) - Cardinality(S \cap T)
  BY FS_Union
<1> QED
  BY <1>2, <1>3

(* Records with sequence numbers of their own in an interval are no more   *)
(* than its length.                                                        *)
LEMMA NumbersBound ==
    ASSUME NEW a \in Nat, NEW k \in Nat, a <= k, TypeOK,
           NEW T \in SUBSET Records, \A r \in T : seqno[r] \in a .. k - 1,
           \A q, r \in T : seqno[q] = seqno[r] => q = r
    PROVE  IsFiniteSet(T) /\ Cardinality(T) <= k - a
<1> DEFINE f == [r \in T |-> seqno[r]]
<1>1. f \in Injection(T, a .. k - 1)
  BY DEF Injection, IsInjective
<1>2. IsFiniteSet(a .. k - 1) /\ Cardinality(a .. k - 1) = k - a
  BY FS_Interval
<1> HIDE DEF f
<1>3. IsFiniteSet(T) /\ Cardinality(T) <= Cardinality(a .. k - 1)
  BY <1>1, <1>2, FS_Injection
<1> QED
  BY <1>2, <1>3

LEMMA SkipDrops ==
    ASSUME TypeOK, DropInv, Peek
    PROVE  DropInv'
<1> SUFFICES ASSUME reboots = 0 PROVE DropInv'
  BY DEF DropInv, Peek
<1> USE DEF DropInv
<1>1. PICK k \in head_seq .. tail_seq :
          /\ head_seq' = k
          /\ drops' = drops + (k - head_seq)
          /\ fate' = Release({r \in Records : seqno[r] \in head_seq .. k - 1}, "skipped")
          /\ UNCHANGED <<booted, ready, tail_seq, seqno>>
  BY DEF Peek
<1>2. head_seq \in Nat /\ k \in Nat /\ head_seq <= k /\ drops \in Nat /\ k - head_seq \in Nat
  BY <1>1 DEF TypeOK
<1> DEFINE T == {r \in Queued : seqno[r] \in head_seq .. k - 1}
<1>3. IsFiniteSet(T) /\ Cardinality(T) <= k - head_seq
  <2>1. T \in SUBSET Records
    BY DEF Queued
  <2> QED
    BY <1>2, <2>1, NumbersBound
<1>4. Lost' = Lost \cup T
  BY <1>1 DEF Lost, Release, Queued
<1>5. Queued' = Queued \ T
  BY <1>1 DEF Release, Queued
<1> HIDE DEF T
<1>6. IsFiniteSet(Lost') /\ Cardinality(Lost') <= drops'
  BY <1>1, <1>2, <1>3, <1>4, LoseSome
<1>7. (~booted => ~ready /\ Queued = {})'
  BY <1>1, <1>5 DEF DropInv
<1> QED
  BY <1>1, <1>5, <1>6, <1>7

LEMMA PushDrops ==
    ASSUME TypeOK, DropInv, NEW r \in Records, Push(r)
    PROVE  DropInv'
<1> SUFFICES ASSUME reboots = 0 PROVE DropInv'
  BY DEF DropInv, Push
<1> USE DEF DropInv
<1>1. /\ ready /\ UNCHANGED <<booted, ready>>
      /\ fate[r] = "fresh"
      /\ drops' = IF Full THEN drops + 1 ELSE drops
      /\ tail_seq' = tail_seq + 1
      /\ fate' = [Evicted EXCEPT ![r] = "queued"]
      /\ seqno' = [seqno EXCEPT ![r] = tail_seq]
  BY DEF Push, MakeRoom
<1> DEFINE T == {q \in Queued : Full /\ seqno[q] = head_seq}
<1>2. tail_seq \in Nat /\ head_seq \in Nat /\ drops \in Nat
  BY DEF TypeOK
<1>3. r \notin Queued
  BY <1>1 DEF Queued
<1>4. \A q \in Records :
          fate'[q] = IF q = r THEN "queued" ELSE IF q \in T THEN "evicted" ELSE fate[q]
  BY <1>1, EvictedType DEF Evicted, Release
<1>5. Lost' = Lost \cup T
  BY <1>1, <1>3, <1>4 DEF Lost, Queued
<1>6. Queued' = (Queued \ T) \cup {r}
  BY <1>4 DEF Queued
<1>7. IsFiniteSet(Lost') /\ Cardinality(Lost') <= drops'
  <2>1. CASE ~Full
    <3>1. Lost' = Lost
      BY <1>5, <2>1
    <3> QED
      BY <1>1, <2>1, <3>1
  <2>2. CASE Full
    <3>1. IsFiniteSet(T) /\ Cardinality(T) <= 1
      <4>1. T \in SUBSET Records /\ \A q \in T : seqno[q] \in head_seq .. (head_seq + 1) - 1
        BY <1>2 DEF Queued
      <4>2. \A p, q \in T : seqno[p] = seqno[q] => p = q
        OBVIOUS
      <4> HIDE DEF T
      <4>3. IsFiniteSet(T) /\ Cardinality(T) <= (head_seq + 1) - head_seq
        BY <1>2, <4>1, <4>2, NumbersBound
      <4> QED
        BY <1>2, <4>3
    <3> HIDE DEF T
    <3> QED
      BY <1>1, <1>2, <1>5, <2>2, <3>1, LoseSome
  <2> QED
    BY <2>1, <2>2
<1>8. \A q \in Queued' : seqno'[q] < tail_seq' /\ (q # r => q \in Queued /\ seqno'[q] = seqno[q])
  <2>1. ASSUME NEW q \in Queued', q # r
        PROVE  q \in Queued /\ seqno'[q] = seqno[q] /\ seqno[q] \in Nat
    BY <1>1, <1>6, <2>1 DEF Queued, TypeOK
  <2>2. seqno'[r] = tail_seq
    BY <1>1 DEF TypeOK
  <2> QED
    BY <1>1, <1>2, <2>1, <2>2
<1>9. \A p, q \in Queued' : seqno'[p] = seqno'[q] => p = q
  <2>1. seqno'[r] = tail_seq
    BY <1>1 DEF TypeOK
  <2>2. \A q \in Queued : seqno[q] < tail_seq /\ seqno[q] \in Nat
    BY DEF Queued, TypeOK
  <2> QED
    BY <1>2, <1>8, <2>1, <2>2
<1> QED
  BY <1>1, <1>7, <1>8, <1>9

LEMMA DropStep ==
    "push_io" \notin Faults /\ TypeOK /\ DropInv /\ [Next]_vars => DropInv'
<1> SUFFICES ASSUME "push_io" \notin Faults, TypeOK, DropInv, [Next]_vars PROVE DropInv'
  OBVIOUS
<1>1. CASE SpoolInit
  <2>1. UNCHANGED <<drops, fate, seqno, reboots>> /\ ~booted /\ booted'
    BY <1>1 DEF SpoolInit, InitFails, InitEmpty, InitRecover, historyVars, ramVars, stats
  <2>2. Lost' = Lost /\ Queued' = Queued
    BY <2>1 DEF Lost, Queued
  <2>3. reboots = 0 => Queued' = {}
    BY <2>1, <2>2 DEF DropInv
  <2>4. booted'
    BY <2>1
  <2>5. reboots = 0 => IsFiniteSet(Lost') /\ Cardinality(Lost') <= drops'
    BY <2>1, <2>2 DEF DropInv
  <2> QED
    BY <2>1, <2>3, <2>4, <2>5 DEF DropInv
<1>2. ASSUME NEW r \in Records, PushTooLong(r) PROVE DropInv'
  <2>1. /\ ready /\ fate[r] = "fresh" /\ drops' = drops + 1
        /\ fate' = [fate EXCEPT ![r] = "refused"]
        /\ UNCHANGED <<booted, ready, tail_seq, seqno, reboots>>
    BY <1>2 DEF PushTooLong
  <2>2. Lost' = Lost \cup {r} /\ Queued' = Queued
    BY <2>1 DEF Lost, Queued, TypeOK
  <2>3. IsFiniteSet({r}) /\ Cardinality({r}) <= 1 /\ drops \in Nat
    <3>1. IsFiniteSet({r}) /\ Cardinality({r}) = 1
      BY FS_Singleton
    <3>2. drops \in Nat
      BY DEF TypeOK
    <3> QED
      BY <3>1, <3>2
  <2>4. reboots = 0 => IsFiniteSet(Lost') /\ Cardinality(Lost') <= drops'
    <3>1. reboots = 0 => IsFiniteSet(Lost) /\ Cardinality(Lost) <= drops
      BY DEF DropInv
    <3>2. reboots = 0 => IsFiniteSet(Lost \cup {r}) /\ Cardinality(Lost \cup {r}) <= drops + 1
      BY <2>3, <3>1, LoseSome
    <3> QED
      BY <2>1, <2>2, <3>2
  <2> QED
    BY <2>1, <2>2, <2>4 DEF DropInv
<1>3. ASSUME NEW r \in Records, Push(r) PROVE DropInv'
  BY <1>3, PushDrops
<1>4. ASSUME NEW r \in Records, PushFails(r) PROVE FALSE
  BY <1>4 DEF PushFails
<1>5. CASE Peek
  BY <1>5, SkipDrops
<1>6. CASE Commit
  <2>1. UNCHANGED <<booted, ready, tail_seq, drops, seqno, reboots>>
        /\ (fate' = fate \/ fate' = Release({r \in Records : seqno[r] = head_seq}, "drained"))
    BY <1>6 DEF Commit
  <2>2. Lost' = Lost /\ Queued' \subseteq Queued
    BY <2>1 DEF Lost, Queued, Release
  <2> QED
    BY <2>1, <2>2 DEF DropInv
<1>7. CASE Wipe
  <2>1. UNCHANGED <<booted, ready, drops, seqno, reboots>> /\ ready
        /\ \E f \in {"wiped", "orphaned"} : fate' = Release(Records, f)
    BY <1>7 DEF Wipe
  <2>2. Lost' = Lost /\ Queued' = {}
    BY <2>1 DEF Lost, Queued, Release
  <2> QED
    BY <2>1, <2>2 DEF DropInv
<1>8. CASE Reboot \/ PowerCut \/ \E r \in Records : RestartInPush(r)
  <2>1. reboots' = reboots + 1 /\ reboots \in Nat
    BY <1>8 DEF Reboot, PowerCut, RestartInPush, CanRestart, TypeOK
  <2> QED
    BY <2>1 DEF DropInv
<1>9. CASE UNCHANGED vars
  <2>1. UNCHANGED <<booted, ready, tail_seq, drops, fate, seqno, reboots>>
    BY <1>9 DEF vars, ramVars, stats, historyVars
  <2>2. Lost' = Lost /\ Queued' = Queued
    BY <2>1 DEF Lost, Queued
  <2> QED
    BY <2>1, <2>2 DEF DropInv
<1> QED
  BY <1>1, <1>2, <1>3, <1>4, <1>5, <1>6, <1>7, <1>8, <1>9 DEF Next

(* stats.drops covers every record lost since boot: those too long, those  *)
(* pushed out of a full ring and those a bad-slot skip passed over, even   *)
(* after a wipe that failed - as long as no slot write fails.              *)
THEOREM DropsAreHonest ==
    ASSUME "push_io" \notin Faults
    PROVE  Spec => []HonestDrops
<1>1. TypeOK /\ DropInv /\ [Next]_vars => DropInv'
  BY DropStep
<1>2. DropInv => HonestDrops
  BY DEF DropInv, HonestDrops, Lost
<1> QED
  BY <1>1, <1>2, DropInit, TypeCorrect, PTL DEF Spec

----------------------------------------------------------------------------
(* The refinement.  Sorting a finite set needs no induction: with distinct *)
(* numbers the rank of an element is an injection into 1 .. n from a set   *)
(* of n elements, and so takes each value once.                            *)

Distinct(S, at) ==
    /\ IsFiniteSet(S)
    /\ \A r \in S : at[r] \in Nat
    /\ \A q, r \in S : at[q] = at[r] => q = r

LEMMA UpToFacts ==
    ASSUME NEW S, NEW at, Distinct(S, at), NEW r \in S
    PROVE  /\ UpTo(S, at, r) \in SUBSET S /\ r \in UpTo(S, at, r)
           /\ IsFiniteSet(UpTo(S, at, r))
           /\ Cardinality(S) \in Nat
           /\ Cardinality(UpTo(S, at, r)) \in 1 .. Cardinality(S)
<1>1. at[r] \in Nat /\ IsFiniteSet(S)
  BY DEF Distinct
<1>2. UpTo(S, at, r) \in SUBSET S /\ r \in UpTo(S, at, r)
  BY <1>1 DEF UpTo
<1>3. /\ IsFiniteSet(UpTo(S, at, r))
      /\ Cardinality(UpTo(S, at, r)) <= Cardinality(S)
  BY <1>1, <1>2, FS_Subset
<1>4. Cardinality(S) \in Nat /\ Cardinality(UpTo(S, at, r)) \in Nat
  BY <1>1, <1>3, FS_CardinalityType
<1>5. Cardinality(UpTo(S, at, r)) # 0
  BY <1>2, <1>3, FS_EmptySet
<1> QED
  BY <1>2, <1>3, <1>4, <1>5

(* Of two elements the later one has the higher rank.                      *)
LEMMA RanksDiffer ==
    ASSUME NEW S, NEW at, Distinct(S, at), NEW q \in S, NEW r \in S,
           Cardinality(UpTo(S, at, q)) = Cardinality(UpTo(S, at, r))
    PROVE  q = r
<1>1. ASSUME NEW a \in S, NEW b \in S, at[a] < at[b],
             Cardinality(UpTo(S, at, a)) = Cardinality(UpTo(S, at, b))
      PROVE  FALSE
  <2>1. at[a] \in Nat /\ at[b] \in Nat /\ \A p \in S : at[p] \in Nat
    BY DEF Distinct
  <2>2. UpTo(S, at, a) \in SUBSET UpTo(S, at, b) /\ b \notin UpTo(S, at, a)
    BY <1>1, <2>1 DEF UpTo
  <2>3. IsFiniteSet(UpTo(S, at, b)) /\ b \in UpTo(S, at, b)
    BY UpToFacts
  <2>4. UpTo(S, at, b) = UpTo(S, at, a)
    BY <1>1, <2>2, <2>3, FS_Subset
  <2> QED
    BY <2>2, <2>3, <2>4
<1>2. at[q] \in Nat /\ at[r] \in Nat /\ (at[q] = at[r] => q = r)
  BY DEF Distinct
<1> QED
  BY <1>1, <1>2

LEMMA RankReached ==
    ASSUME NEW S, NEW at, Distinct(S, at), NEW i \in 1 .. Cardinality(S)
    PROVE  \E r \in S : Cardinality(UpTo(S, at, r)) = i
<1> DEFINE n == Cardinality(S)
           f == [r \in S |-> Cardinality(UpTo(S, at, r))]
<1>1. IsFiniteSet(S) /\ n \in Nat
  BY FS_CardinalityType DEF Distinct
<1>2. \A r \in S : Cardinality(UpTo(S, at, r)) \in 1 .. n
  BY UpToFacts
<1>3. \A q, r \in S : f[q] = f[r] => q = r
  BY RanksDiffer
<1>4. f \in Injection(S, 1 .. n)
  BY <1>2, <1>3 DEF Injection, IsInjective
<1>5. IsFiniteSet(1 .. n) /\ Cardinality(1 .. n) = n
  BY <1>1, FS_Interval
<1> HIDE DEF f
<1>6. f \in Surjection(S, 1 .. n)
  BY <1>1, <1>4, <1>5, FS_Injection
<1>7. PICK r \in S : f[r] = i
  BY <1>6 DEF Surjection
<1> QED
  BY <1>7 DEF f

(* InOrder takes the ranks in turn ...                                     *)
LEMMA OrderOf ==
    ASSUME NEW S, NEW at, Distinct(S, at)
    PROVE  /\ InOrder(S, at) \in [1 .. Cardinality(S) -> S]
           /\ InOrder(S, at) \in Seq(S) /\ Len(InOrder(S, at)) = Cardinality(S)
           /\ \A i \in 1 .. Cardinality(S) :
                  Cardinality(UpTo(S, at, InOrder(S, at)[i])) = i
<1>1. Cardinality(S) \in Nat
  BY FS_CardinalityType DEF Distinct
<1>2. ASSUME NEW i \in 1 .. Cardinality(S)
      PROVE  /\ InOrder(S, at)[i] \in S
             /\ Cardinality(UpTo(S, at, InOrder(S, at)[i])) = i
  <2>1. InOrder(S, at)[i] = CHOOSE r \in S : Cardinality(UpTo(S, at, r)) = i
    BY DEF InOrder
  <2>2. \E r \in S : Cardinality(UpTo(S, at, r)) = i
    BY RankReached
  <2> QED
    BY <2>1, <2>2
<1>3. InOrder(S, at) \in [1 .. Cardinality(S) -> S]
  BY <1>2 DEF InOrder
<1> QED
  BY <1>1, <1>2, <1>3

(* ... and nothing else does.                                              *)
LEMMA OnlyOrder ==
    ASSUME NEW S, NEW at, Distinct(S, at), NEW s \in Seq(S), Len(s) = Cardinality(S),
           \A i \in 1 .. Len(s) : Cardinality(UpTo(S, at, s[i])) = i
    PROVE  InOrder(S, at) = s
<1> DEFINE t == InOrder(S, at)
<1>1. /\ t \in Seq(S) /\ Len(t) = Cardinality(S)
      /\ \A i \in 1 .. Cardinality(S) : Cardinality(UpTo(S, at, t[i])) = i
  BY OrderOf
<1> HIDE DEF t
<1>2. ASSUME NEW i \in 1 .. Len(s) PROVE t[i] = s[i]
  <2>1. t[i] \in S /\ s[i] \in S
    BY <1>1
  <2>2. Cardinality(UpTo(S, at, t[i])) = Cardinality(UpTo(S, at, s[i]))
    BY <1>1
  <2> QED
    BY <2>1, <2>2, RanksDiffer
<1>3. t = s
  BY <1>1, <1>2
<1> QED
  BY <1>3 DEF t

LEMMA SeqWithin ==
    ASSUME NEW S, NEW T, NEW s \in Seq(S), \A i \in 1 .. Len(s) : s[i] \in T
    PROVE  s \in Seq(T)
<1>1. s \in [1 .. Len(s) -> S] /\ Len(s) \in Nat
  OBVIOUS
<1>2. s \in [1 .. Len(s) -> T]
  BY <1>1
<1> QED
  BY <1>1, <1>2

(* An element with a number above the others comes last.                   *)
Adjoins(S, at, r, at2) ==
    /\ r \notin S /\ at2[r] \in Nat
    /\ \A q \in S : at2[q] = at[q] /\ at[q] < at2[r]

LEMMA OrderAppend ==
    ASSUME NEW S, NEW at, Distinct(S, at), NEW r, NEW at2, Adjoins(S, at, r, at2),
           NEW T, T = S \cup {r}
    PROVE  Distinct(T, at2) /\ InOrder(T, at2) = Append(InOrder(S, at), r)
<1> DEFINE n == Cardinality(S)
           s == InOrder(S, at)
<1>1. /\ IsFiniteSet(S) /\ \A q \in S : at[q] \in Nat
      /\ \A p, q \in S : at[p] = at[q] => p = q
      /\ r \notin S /\ at2[r] \in Nat
      /\ \A q \in S : at2[q] = at[q] /\ at[q] < at2[r]
  BY DEF Distinct, Adjoins
<1>2. n \in Nat /\ IsFiniteSet(T) /\ Cardinality(T) = n + 1
  BY <1>1, FS_CardinalityType, FS_AddElement
<1>3. Distinct(T, at2)
  <2>1. \A q \in T : at2[q] \in Nat
    BY <1>1
  <2>2. \A p, q \in T : at2[p] = at2[q] => p = q
    BY <1>1
  <2> QED
    BY <1>2, <2>1, <2>2 DEF Distinct
<1>4. ASSUME NEW q \in S PROVE UpTo(T, at2, q) = UpTo(S, at, q)
  BY <1>1 DEF UpTo
<1>5. UpTo(T, at2, r) = T
  BY <1>1 DEF UpTo
<1>6. /\ s \in Seq(S) /\ Len(s) = n
      /\ \A i \in 1 .. n : s[i] \in S /\ Cardinality(UpTo(S, at, s[i])) = i
  BY OrderOf
<1> HIDE DEF s, n
<1>7. /\ Append(s, r) \in Seq(T) /\ Len(Append(s, r)) = n + 1
      /\ Append(s, r)[n + 1] = r /\ \A i \in 1 .. n : Append(s, r)[i] = s[i]
  <2>1. s \in Seq(T) /\ r \in T
    BY <1>6
  <2> QED
    BY <1>2, <1>6, <2>1
<1>8. ASSUME NEW i \in 1 .. n + 1
      PROVE  Cardinality(UpTo(T, at2, Append(s, r)[i])) = i
  <2>1. CASE i = n + 1
    BY <2>1, <1>2, <1>5, <1>7
  <2>2. CASE i \in 1 .. n
    BY <2>2, <1>4, <1>6, <1>7
  <2>3. i = n + 1 \/ i \in 1 .. n
    BY <1>2
  <2> QED
    BY <2>1, <2>2, <2>3
<1>9. InOrder(T, at2) = Append(s, r)
  BY <1>2, <1>3, <1>7, <1>8, OnlyOrder
<1> QED
  BY <1>3, <1>9 DEF s

(* The element with the lowest number comes first.                         *)
LEMMA OrderTail ==
    ASSUME NEW S, NEW at, Distinct(S, at), NEW r \in S, \A q \in S : at[r] <= at[q]
    PROVE  /\ Distinct(S \ {r}, at)
           /\ InOrder(S, at) # <<>> /\ InOrder(S \ {r}, at) = Tail(InOrder(S, at))
<1> DEFINE T == S \ {r}
           n == Cardinality(S)
           s == InOrder(S, at)
<1>1. /\ IsFiniteSet(S) /\ \A q \in S : at[q] \in Nat
      /\ \A p, q \in S : at[p] = at[q] => p = q
  BY DEF Distinct
<1>2. n \in Nat /\ IsFiniteSet(T) /\ Cardinality(T) = n - 1
  BY <1>1, FS_CardinalityType, FS_RemoveElement
<1>3. Distinct(T, at)
  BY <1>1, <1>2 DEF Distinct
<1>4. UpTo(S, at, r) = {r} /\ n >= 1
  <2>1. UpTo(S, at, r) = {r}
    BY <1>1 DEF UpTo
  <2>2. n # 0
    BY <1>1, FS_EmptySet
  <2> QED
    BY <2>1, <2>2, <1>2
<1>5. ASSUME NEW q \in T
      PROVE  Cardinality(UpTo(T, at, q)) = Cardinality(UpTo(S, at, q)) - 1
  <2>1. UpTo(T, at, q) = UpTo(S, at, q) \ {r} /\ r \in UpTo(S, at, q)
    BY <1>1 DEF UpTo
  <2>2. IsFiniteSet(UpTo(S, at, q))
    BY UpToFacts
  <2>3. Cardinality(UpTo(S, at, q) \ {r}) = Cardinality(UpTo(S, at, q)) - 1
    BY <2>1, <2>2, FS_RemoveElement
  <2> HIDE DEF T
  <2> QED
    BY <2>1, <2>3
<1>6. /\ s \in Seq(S) /\ Len(s) = n
      /\ \A i \in 1 .. n : s[i] \in S /\ Cardinality(UpTo(S, at, s[i])) = i
  BY OrderOf
<1> HIDE DEF s, n
<1>7. \A i \in 2 .. n : s[i] \in T
  <2> SUFFICES ASSUME NEW i \in 2 .. n, s[i] = r PROVE FALSE
    BY <1>2, <1>6
  <2>1. Cardinality(UpTo(S, at, r)) = i
    BY <1>2, <1>6
  <2>2. Cardinality(UpTo(S, at, r)) = 1
    BY <1>4, FS_Singleton
  <2> QED
    BY <2>1, <2>2
<1>8. /\ s # <<>> /\ Len(Tail(s)) = n - 1
      /\ \A i \in 1 .. n - 1 : Tail(s)[i] = s[i + 1]
  BY <1>2, <1>4, <1>6
<1>9. \A i \in 1 .. n - 1 : i + 1 \in 2 .. n /\ i + 1 \in 1 .. n
  BY <1>2
<1>10. Tail(s) \in Seq(T)
  <2>1. Tail(s) \in Seq(S)
    BY <1>6, <1>8
  <2>2. \A i \in 1 .. Len(Tail(s)) : Tail(s)[i] \in T
    BY <1>7, <1>8, <1>9
  <2> QED
    BY <2>1, <2>2, SeqWithin
<1>11. ASSUME NEW i \in 1 .. Len(Tail(s))
       PROVE  Cardinality(UpTo(T, at, Tail(s)[i])) = i
  <2>1. Tail(s)[i] = s[i + 1] /\ s[i + 1] \in T /\ i \in Int
    BY <1>2, <1>7, <1>8, <1>9
  <2>2. Cardinality(UpTo(S, at, s[i + 1])) = i + 1
    BY <1>6, <1>8, <1>9
  <2>3. Cardinality(UpTo(T, at, s[i + 1])) = (i + 1) - 1
    BY <1>5, <2>1, <2>2
  <2> QED
    BY <2>1, <2>3
<1>12. InOrder(T, at) = Tail(s)
  BY <1>2, <1>3, <1>8, <1>10, <1>11, OnlyOrder
<1> QED
  BY <1>3, <1>8, <1>12 DEF s

----------------------------------------------------------------------------
(* The spooled records of a mounted ring have numbers of their own, all of *)
(* them in its window.                                                     *)
LEMMA QueueNumbers ==
    ASSUME SpoolInv, ready
    PROVE  /\ \A r \in Queued : seqno[r] \in head_seq .. tail_seq - 1
           /\ \A q, r \in Queued : seqno[q] = seqno[r] => q = r
           /\ head_seq \in Nat /\ tail_seq \in Nat /\ rec_count \in Int
           /\ rec_count = tail_seq - head_seq /\ 0 <= rec_count /\ rec_count <= NSLOTS
<1>1. /\ head_seq \in Nat /\ tail_seq \in Nat /\ rec_count \in Int
      /\ rec_count = tail_seq - head_seq /\ 0 <= rec_count /\ rec_count <= NSLOTS
  BY DEF SpoolInv, TypeOK, RingWindow
<1>2. \A r \in Queued : seqno[r] \in Nat /\ head_seq <= seqno[r] /\ seqno[r] < tail_seq
  BY QueuedFacts DEF SpoolInv, Durable, Held
<1>3. ASSUME NEW q \in Queued, NEW r \in Queued, seqno[q] = seqno[r] PROVE q = r
  <2>1. /\ disk[slot_of(seqno[q])] = Rec(seqno[q], q)
        /\ disk[slot_of(seqno[r])] = Rec(seqno[r], r)
    BY QueuedFacts
  <2>2. Rec(seqno[r], q) = Rec(seqno[r], r)
    BY <1>3, <2>1
  <2> QED
    BY <2>2 DEF Rec
<1> QED
  BY <1>1, <1>2, <1>3

LEMMA QueueDistinct ==
    ASSUME SpoolInv, ready
    PROVE  Distinct(Queued, seqno) /\ Cardinality(Queued) <= rec_count
<1>1. /\ \A r \in Queued : seqno[r] \in head_seq .. tail_seq - 1
      /\ \A q, r \in Queued : seqno[q] = seqno[r] => q = r
      /\ head_seq \in Nat /\ tail_seq \in Nat /\ head_seq <= tail_seq
      /\ rec_count = tail_seq - head_seq
  BY QueueNumbers
<1>2. TypeOK /\ Queued \in SUBSET Records
  BY DEF SpoolInv, Queued
<1>3. IsFiniteSet(Queued) /\ Cardinality(Queued) <= tail_seq - head_seq
  BY <1>1, <1>2, NumbersBound
<1>4. \A r \in Queued : seqno[r] \in Nat
  BY <1>1
<1> QED
  BY <1>1, <1>3, <1>4 DEF Distinct

(* The queue without the record at head_seq, if it holds that one: the     *)
(* record there is the oldest.                                             *)
Later == {q \in Queued : seqno[q] # head_seq}

LEMMA WithoutHead ==
    ASSUME SpoolInv, ready
    PROVE  /\ Distinct(Later, seqno)
           /\ \/ Later = Queued
              \/ /\ SpooledInOrder # <<>>
                 /\ InOrder(Later, seqno) = Tail(SpooledInOrder)
<1>1. Distinct(Queued, seqno)
  BY QueueDistinct
<1>2. CASE \A q \in Queued : seqno[q] # head_seq
  <2>1. Later = Queued
    BY <1>2 DEF Later
  <2> QED
    BY <1>1, <2>1
<1>3. CASE \E q \in Queued : seqno[q] = head_seq
  <2>1. PICK r \in Queued : seqno[r] = head_seq
    BY <1>3
  <2>2. \A q \in Queued : seqno[q] = seqno[r] => q = r
    BY QueueNumbers
  <2>3. Later = Queued \ {r}
    BY <2>1, <2>2 DEF Later
  <2>4. \A q \in Queued : seqno[r] <= seqno[q]
    BY <2>1, QueueNumbers
  <2>5. /\ Distinct(Queued \ {r}, seqno)
        /\ InOrder(Queued, seqno) # <<>>
        /\ InOrder(Queued \ {r}, seqno) = Tail(InOrder(Queued, seqno))
    BY <1>1, <2>1, <2>4, OrderTail
  <2> QED
    BY <2>3, <2>5 DEF SpooledInOrder
<1> QED
  BY <1>2, <1>3

(* What stays of the queue when a push has made room.                      *)
Kept == IF Full THEN Later ELSE Queued

LEMMA RoomMade ==
    ASSUME SpoolInv, ready
    PROVE  /\ Distinct(Kept, seqno)
           /\ \/ Kept = Queued /\ Cardinality(Queued) < NSLOTS
              \/ /\ SpooledInOrder # <<>>
                 /\ InOrder(Kept, seqno) = Tail(SpooledInOrder)
<1>1. CASE ~Full
  <2>1. rec_count < NSLOTS /\ rec_count \in Int
    BY <1>1, QueueNumbers DEF Full
  <2>2. Cardinality(Queued) <= rec_count /\ Distinct(Queued, seqno)
    BY QueueDistinct
  <2>3. Cardinality(Queued) \in Nat
    BY <2>2, FS_CardinalityType DEF Distinct
  <2>4. Cardinality(Queued) < NSLOTS
    BY <2>1, <2>2, <2>3
  <2> QED
    BY <1>1, <2>2, <2>4 DEF Kept
<1>2. CASE Full /\ Later = Queued
  <2>1. /\ \A r \in Queued : seqno[r] \in head_seq .. tail_seq - 1
        /\ \A q, r \in Queued : seqno[q] = seqno[r] => q = r
        /\ head_seq \in Nat /\ tail_seq \in Nat
        /\ tail_seq - head_seq = NSLOTS
    BY <1>2, QueueNumbers DEF Full
  <2>2. \A r \in Queued : seqno[r] # head_seq
    BY <1>2 DEF Later
  <2>3. TypeOK /\ Queued \in SUBSET Records
    BY DEF SpoolInv, Queued
  <2>4. head_seq + 1 \in Nat /\ head_seq + 1 <= tail_seq
    BY <2>1
  <2>5. \A r \in Queued : seqno[r] \in head_seq + 1 .. tail_seq - 1
    BY <2>1, <2>2
  <2>6. IsFiniteSet(Queued) /\ Cardinality(Queued) <= tail_seq - (head_seq + 1)
    BY <2>1, <2>3, <2>4, <2>5, NumbersBound
  <2>7. Cardinality(Queued) \in Nat
    BY <2>6, FS_CardinalityType
  <2>8. Cardinality(Queued) < NSLOTS
    BY <2>1, <2>6, <2>7
  <2> QED
    BY <1>2, <2>8, WithoutHead DEF Kept
<1>3. CASE Full /\ Later # Queued
  BY <1>3, WithoutHead DEF Kept
<1> QED
  BY <1>1, <1>2, <1>3

LEMMA KeptEvicted ==
    ASSUME TypeOK
    PROVE  Kept = {q \in Records : Evicted[q] = "queued"}
BY EvictedQueued DEF Kept, Later, Queued

----------------------------------------------------------------------------
(* Step by step. *)

LEMMA SameQueue ==
    ASSUME UNCHANGED <<Queued, seqno>>
    PROVE  UNCHANGED SpooledInOrder
BY DEF SpooledInOrder

LEMMA PushAppends ==
    ASSUME SpoolInv, NEW r \in Records, Push(r)
    PROVE  Abstract!Append_(r) \/ Abstract!AppendEvicting(r)
<1>1. /\ ready /\ fate[r] = "fresh"
      /\ fate' = [Evicted EXCEPT ![r] = "queued"]
      /\ seqno' = [seqno EXCEPT ![r] = tail_seq]
  BY DEF Push
<1>2. TypeOK /\ tail_seq \in Nat /\ seqno \in [Records -> Nat]
      /\ Evicted \in [Records -> Fates]
  BY EvictedType DEF SpoolInv, TypeOK
<1>3. r \notin Kept /\ Queued' = Kept \cup {r}
  <2>1. Kept = {q \in Records : Evicted[q] = "queued"}
    BY <1>2, KeptEvicted
  <2>2. Kept \in SUBSET Queued /\ r \notin Queued
    BY <1>1 DEF Kept, Later, Queued
  <2> QED
    BY <1>1, <1>2, <2>1, <2>2 DEF Queued
<1>4. Kept \in SUBSET Queued /\ Queued \in SUBSET Records
  BY DEF Kept, Later, Queued
<1>5. seqno'[r] = tail_seq /\ \A q \in Kept : seqno'[q] = seqno[q]
  BY <1>1, <1>2, <1>3, <1>4
<1>6. \A q \in Kept : seqno[q] < tail_seq
  BY <1>1, <1>4, QueueNumbers
<1>7. Distinct(Kept, seqno)
  BY <1>1, RoomMade
<1>8. InOrder(Queued', seqno') = Append(InOrder(Kept, seqno), r)
  <2>1. r \notin Kept /\ seqno'[r] \in Nat
    BY <1>2, <1>3, <1>5
  <2>2. \A q \in Kept : seqno'[q] = seqno[q] /\ seqno[q] < seqno'[r]
    BY <1>5, <1>6
  <2>3. Adjoins(Kept, seqno, r, seqno')
    BY <2>1, <2>2 DEF Adjoins
  <2> QED
    BY <1>3, <1>7, <2>3, OrderAppend
<1>9. SpooledInOrder' = Append(InOrder(Kept, seqno), r)
  BY <1>8 DEF SpooledInOrder
<1>10. CASE Kept = Queued /\ Cardinality(Queued) < NSLOTS
  <2>1. Len(SpooledInOrder) = Cardinality(Queued)
    BY <1>7, <1>10, OrderOf DEF SpooledInOrder
  <2> QED
    BY <1>9, <1>10, <2>1 DEF Abstract!Append_, SpooledInOrder
<1>11. CASE SpooledInOrder # <<>> /\ InOrder(Kept, seqno) = Tail(SpooledInOrder)
  BY <1>9, <1>11 DEF Abstract!AppendEvicting
<1> QED
  BY <1>1, <1>10, <1>11, RoomMade

(* A push that does not get its record spooled has at most evicted one.    *)
LEMMA OnlyRoomMade ==
    ASSUME SpoolInv, ready, NEW r \in Records, fate[r] = "fresh",
           NEW f, f # "queued", fate' = [Evicted EXCEPT ![r] = f], UNCHANGED seqno
    PROVE  Abstract!RemoveOldest \/ UNCHANGED SpooledInOrder
<1>1. TypeOK /\ Evicted \in [Records -> Fates]
  BY EvictedType DEF SpoolInv
<1>2. Queued' = Kept
  <2>1. Kept = {q \in Records : Evicted[q] = "queued"}
    BY <1>1, KeptEvicted
  <2>2. Kept \in SUBSET Queued /\ r \notin Queued
    BY DEF Kept, Later, Queued
  <2> QED
    BY <1>1, <2>1, <2>2 DEF Queued
<1>3. SpooledInOrder' = InOrder(Kept, seqno)
  BY <1>2 DEF SpooledInOrder
<1>4. CASE Kept = Queued
  BY <1>3, <1>4 DEF SpooledInOrder
<1>5. CASE SpooledInOrder # <<>> /\ InOrder(Kept, seqno) = Tail(SpooledInOrder)
  BY <1>3, <1>5 DEF Abstract!RemoveOldest
<1> QED
  BY <1>4, <1>5, RoomMade

LEMMA CommitRemoves ==
    ASSUME SpoolInv, Commit
    PROVE  Abstract!RemoveOldest \/ UNCHANGED SpooledInOrder
<1>1. ready /\ UNCHANGED seqno
  BY DEF Commit
<1>2. CASE UNCHANGED fate
  BY <1>1, <1>2, SameQueue DEF Queued
<1>3. CASE fate' = Release({r \in Records : seqno[r] = head_seq}, "drained")
  <2>1. Queued' = Later
    BY <1>3 DEF Queued, Release, Later
  <2>2. SpooledInOrder' = InOrder(Later, seqno)
    BY <1>1, <2>1 DEF SpooledInOrder
  <2>3. CASE Later = Queued
    BY <2>2, <2>3 DEF SpooledInOrder
  <2>4. CASE SpooledInOrder # <<>> /\ InOrder(Later, seqno) = Tail(SpooledInOrder)
    BY <2>2, <2>4 DEF Abstract!RemoveOldest
  <2> QED
    BY <1>1, <2>3, <2>4, WithoutHead
<1> QED
  BY <1>2, <1>3 DEF Commit

LEMMA EmptyOrder ==
    ASSUME NEW at
    PROVE  InOrder({}, at) = <<>>
<1>1. Distinct({}, at) /\ Cardinality({}) = 0
  BY FS_EmptySet DEF Distinct
<1>2. InOrder({}, at) \in Seq({}) /\ Len(InOrder({}, at)) = 0
  BY <1>1, OrderOf
<1> QED
  BY <1>2

LEMMA WipeClears ==
    ASSUME SpoolInv, Wipe
    PROVE  Abstract!Clear
<1>1. PICK f : f # "queued" /\ fate' = Release(Records, f)
  BY DEF Wipe
<1>2. Queued' = {}
  BY <1>1 DEF Queued, Release
<1>3. SpooledInOrder' = <<>>
  BY <1>2, EmptyOrder DEF SpooledInOrder
<1> QED
  BY <1>3 DEF Abstract!Clear

LEMMA AbstractStep ==
    ASSUME SpoolInv, SpoolInv', [Next]_vars
    PROVE  [Abstract!Next]_SpooledInOrder
<1>1. CASE SpoolInit
  BY <1>1, SameQueue DEF SpoolInit, historyVars, Queued
<1>2. ASSUME NEW r \in Records, PushTooLong(r)
      PROVE  UNCHANGED SpooledInOrder
  <2>1. /\ fate[r] = "fresh" /\ fate' = [fate EXCEPT ![r] = "refused"]
        /\ UNCHANGED seqno
    BY <1>2 DEF PushTooLong
  <2>2. fate \in [Records -> Fates]
    BY DEF SpoolInv, TypeOK
  <2>3. Queued' = Queued
    BY <2>1, <2>2 DEF Queued
  <2> QED
    BY <2>1, <2>3, SameQueue
<1>3. ASSUME NEW r \in Records, PushFails(r)
      PROVE  Abstract!RemoveOldest \/ UNCHANGED SpooledInOrder
  BY <1>3, OnlyRoomMade DEF PushFails
<1>4. ASSUME NEW r \in Records, RestartInPush(r)
      PROVE  Abstract!RemoveOldest \/ UNCHANGED SpooledInOrder
  BY <1>4, OnlyRoomMade DEF RestartInPush
<1>5. CASE Peek
  <2>1. PICK S : fate' = Release(S, "skipped")
    BY <1>5 DEF Peek
  <2>2. \A r \in Records : fate'[r] # "skipped"
    BY DEF SpoolInv
  <2>3. Queued' = Queued
    BY <2>1, <2>2 DEF Queued, Release
  <2> QED
    BY <1>5, <2>3, SameQueue DEF Peek
<1>6. CASE Reboot \/ PowerCut \/ UNCHANGED vars
  BY <1>6, SameQueue DEF Reboot, PowerCut, vars, historyVars, Queued
<1>7. CASE Commit
  BY <1>7, CommitRemoves DEF Abstract!Next
<1>8. CASE Wipe
  BY <1>8, WipeClears DEF Abstract!Next
<1>9. ASSUME NEW r \in Records, Push(r) PROVE Abstract!Next
  BY <1>9, PushAppends DEF Abstract!Next
<1> QED
  BY <1>1, <1>2, <1>3, <1>4, <1>5, <1>6, <1>7, <1>8, <1>9 DEF Next, Abstract!Next

(* ImplementsDurableQueue: whatever the size of the ring and however often *)
(* the board restarts, every step of spool.c that returns is one step of a *)
(* first-in first-out queue of the records that spool_push accepted, or    *)
(* leaves that queue alone: no restart, failed write or bad slot reorders, *)
(* duplicates or loses one of them.                                        *)
THEOREM SpoolIsDurableQueue ==
    ASSUME HonestDisk
    PROVE  Spec => ImplementsDurableQueue
<1>1. Init => Abstract!Init
  <2> SUFFICES ASSUME Init PROVE SpooledInOrder = <<>>
    BY DEF Abstract!Init
  <2>1. Queued = {}
    BY DEF Init, Queued
  <2> QED
    BY <2>1, EmptyOrder DEF SpooledInOrder
<1>2. SpoolInv /\ SpoolInv' /\ [Next]_vars => [Abstract!Next]_SpooledInOrder
  BY AbstractStep
<1>3. Spec => []SpoolInv
  BY SpoolInvariant
<1> QED
  BY <1>1, <1>2, <1>3, PTL DEF Spec, ImplementsDurableQueue, Abstract!Spec
=============================================================================
