------------------------------- MODULE Spool -------------------------------
(***************************************************************************)
(* The gateway's store-and-forward spool (demos/gateway/src/spool.c): a    *)
(* ring of NSLOTS slots on a raw eMMC region, each holding one record      *)
(* under a header with a magic number, a sequence number and a CRC.        *)
(*                                                                         *)
(* spool_push, spool_peek and spool_commit are called by the main loop     *)
(* only; spool_wipe by the C2D command thread.  Every call holds           *)
(* spool_mutex from its first access to the ring to its last, so a call is *)
(* one step for the other thread.  It is not one step for a power cut: the *)
(* eMMC has a write cache, so each slot carries the content a read returns *)
(* (disk) and the contents a power cut may leave there (media).            *)
(***************************************************************************)
EXTENDS Integers, FiniteSets

CONSTANTS
    NSLOTS,      \* CONFIG_GATEWAY_SPOOL_SLOTS
    Records,     \* the JSON records the gateway produces, each pushed once
    None,        \* "no record in spool_out"
    Corrupt,     \* a slot body whose CRC does not match its header
    Found,       \* slot contents the region may hold before the first boot
    Faults,      \* the faults this instance suffers, a subset of FaultKinds
    MaxReboots   \* bound on the number of boots after the first

FaultKinds == {"power", "push_io", "commit_io", "wipe_io", "read_io", "sync_io"}

Slots == 0 .. NSLOTS - 1

(* A slot without the magic number (erased, or never a spool slot). *)
Blank == [seq |-> -1, body |-> Corrupt]
Written == [seq : Nat, body : Records \cup {Corrupt}]
Content == Written \cup {Blank}

ASSUME NSLOTSAssumption == NSLOTS \in Nat \ {0}
ASSUME RecordsAssumption == None \notin Records /\ Corrupt \notin Records
ASSUME FoundAssumption == Found \subseteq Content
ASSUME FaultsAssumption == Faults \subseteq FaultKinds
ASSUME MaxRebootsAssumption == MaxReboots \in Nat

VARIABLES
    booted,      \* main() has called spool_init since power-on
    ready,       \* spool.c's flag of that name
    head_seq, tail_seq, rec_count,
    count, pushed, drained, drops,   \* struct spool_stats
    spool_out,   \* the record main() peeked and has not committed yet
    disk, media,
    (* History: what became of each record, and its sequence number. *)
    fate, seqno, reboots

stats == <<count, pushed, drained, drops>>
ramVars == <<ready, head_seq, tail_seq, rec_count, stats, spool_out>>
diskVars == <<disk, media>>
historyVars == <<fate, seqno>>
vars == <<booted, ramVars, diskVars, historyVars, reboots>>

Fates ==
    {"fresh",    \* not produced yet
     "queued",   \* spool_push returned 0 and nothing released it since
     "refused",  \* spool_push returned an error
     "torn",     \* the power was cut during its spool_push
     "evicted",  \* dropped by spool_push because the ring was full
     "skipped",  \* dropped by spool_peek as a bad slot
     "drained",  \* removed by spool_commit
     "wiped",    \* removed by spool_wipe
     "orphaned"} \* left behind by a spool_wipe that failed

TypeOK ==
    /\ booted \in BOOLEAN /\ ready \in BOOLEAN
    /\ head_seq \in Nat /\ tail_seq \in Nat /\ rec_count \in Int
    /\ count \in Int /\ pushed \in Nat /\ drained \in Nat /\ drops \in Nat
    /\ spool_out \in Records \cup {None}
    /\ disk \in [Slots -> Content]
    /\ media \in [Slots -> SUBSET Content]
    /\ fate \in [Records -> Fates]
    /\ seqno \in [Records -> Nat]
    /\ reboots \in Nat

----------------------------------------------------------------------------
(* The ring on the disk. *)

slot_of(seq) == seq % NSLOTS

Rec(seq, r) == [seq |-> seq, body |-> r]

(* Altered: the CRC is not checked. *)
GoodWithoutCrc(seq) == disk[slot_of(seq)].seq = seq

(* What spool_peek accepts at position seq of the ring. *)
Good(seq) ==
    /\ disk[slot_of(seq)].seq = seq
    /\ disk[slot_of(seq)].body # Corrupt

(* A three-sector slot write that did not run to its end: nothing, all of  *)
(* it, the new header over the old body, or the old header over part of    *)
(* the new body.                                                           *)
Partial(old, new) ==
    {old, new, [new EXCEPT !.body = Corrupt]}
        \cup (IF old = Blank THEN {} ELSE {[old EXCEPT !.body = Corrupt]})

AllPartial(olds, new) == UNION {Partial(old, new) : old \in olds}

(* The spooled records that nothing has released. *)
Queued == {r \in Records : fate[r] = "queued"}

(* The fates after the spooled records of S leave the queue as f. *)
Release(S, f) == [r \in Records |-> IF r \in Queued \cap S THEN f ELSE fate[r]]

----------------------------------------------------------------------------
RamReset ==
    /\ booted' = FALSE /\ ready' = FALSE
    /\ head_seq' = 0 /\ tail_seq' = 0 /\ rec_count' = 0
    /\ count' = 0 /\ pushed' = 0 /\ drained' = 0 /\ drops' = 0
    /\ spool_out' = None

Init ==
    /\ booted = FALSE /\ ready = FALSE
    /\ head_seq = 0 /\ tail_seq = 0 /\ rec_count = 0
    /\ count = 0 /\ pushed = 0 /\ drained = 0 /\ drops = 0
    /\ spool_out = None
    /\ disk \in [Slots -> Found]
    /\ media = [s \in Slots |-> {disk[s]}]
    /\ fate = [r \in Records |-> "fresh"]
    /\ seqno = [r \in Records |-> 0]
    /\ reboots = 0

(* disk_access_init or a header read fails: spooling stays disabled. *)
InitFails ==
    /\ "read_io" \in Faults
    /\ UNCHANGED ramVars

(* The scan finds no slot with the magic number. *)
InitEmpty ==
    /\ \A s \in Slots : disk[s] = Blank
    /\ ready' = TRUE
    /\ head_seq' = 0 /\ tail_seq' = 0 /\ rec_count' = 0
    /\ count' = 0
    /\ UNCHANGED <<pushed, drained, drops, spool_out>>

(* Altered: stats.count is not set from the recovered ring. *)
InitRecoverUncounted ==
    \E lo, hi \in Slots :
        /\ disk[lo] # Blank /\ disk[hi] # Blank
        /\ \A s \in Slots : disk[s] # Blank =>
               disk[lo].seq <= disk[s].seq /\ disk[s].seq <= disk[hi].seq
        /\ LET floor == IF disk[hi].seq >= NSLOTS - 1 THEN disk[hi].seq - (NSLOTS - 1)
                                                      ELSE 0
           IN /\ tail_seq' = disk[hi].seq + 1
              /\ head_seq' = IF disk[lo].seq >= floor THEN disk[lo].seq ELSE floor
        /\ rec_count' = tail_seq' - head_seq'
        /\ ready' = TRUE
        /\ UNCHANGED <<stats, spool_out>>

(* The newest sequence number ends the ring; its start is clamped to the   *)
(* newest NSLOTS-sized window.                                             *)
InitRecover ==
    \E lo, hi \in Slots :
        /\ disk[lo] # Blank /\ disk[hi] # Blank
        /\ \A s \in Slots : disk[s] # Blank =>
               disk[lo].seq <= disk[s].seq /\ disk[s].seq <= disk[hi].seq
        /\ LET min_seq == disk[lo].seq
               max_seq == disk[hi].seq
               floor == IF max_seq >= NSLOTS - 1 THEN max_seq - (NSLOTS - 1) ELSE 0
           IN /\ tail_seq' = max_seq + 1
              /\ head_seq' = IF min_seq >= floor THEN min_seq ELSE floor
        /\ rec_count' = tail_seq' - head_seq'
        /\ count' = rec_count'
        /\ ready' = TRUE
        /\ UNCHANGED <<pushed, drained, drops, spool_out>>

SpoolInit ==
    /\ ~booted
    /\ booted' = TRUE
    /\ InitFails \/ InitEmpty \/ InitRecover
    /\ UNCHANGED <<diskVars, historyVars, reboots>>

----------------------------------------------------------------------------
(* spool_push.  The main loop pushes only between a commit and the next    *)
(* peek.                                                                   *)

PushTooLong(r) ==
    /\ ready /\ spool_out = None /\ fate[r] = "fresh"
    /\ drops' = drops + 1
    /\ fate' = [fate EXCEPT ![r] = "refused"]
    /\ UNCHANGED <<booted, ready, head_seq, tail_seq, rec_count, count, pushed,
                   drained, spool_out, diskVars, seqno, reboots>>

Full == rec_count = NSLOTS

(* Altered: the eviction is not counted. *)
MakeRoomUncounted ==
    /\ head_seq' = IF Full THEN head_seq + 1 ELSE head_seq
    /\ UNCHANGED drops

(* A full ring gives up its oldest record before the write is tried. *)
MakeRoom ==
    /\ head_seq' = IF Full THEN head_seq + 1 ELSE head_seq
    /\ drops' = IF Full THEN drops + 1 ELSE drops

Evicted == Release({q \in Records : Full /\ seqno[q] = head_seq}, "evicted")

(* Altered: the write cache is not flushed. *)
PushUnflushed(r) ==
    LET t == slot_of(tail_seq)
        new == Rec(tail_seq, r)
    IN
    /\ ready /\ spool_out = None /\ fate[r] = "fresh"
    /\ MakeRoom
    /\ tail_seq' = tail_seq + 1
    /\ rec_count' = IF Full THEN rec_count ELSE rec_count + 1
    /\ pushed' = pushed + 1
    /\ count' = rec_count'
    /\ disk' = [disk EXCEPT ![t] = new]
    /\ media' = [media EXCEPT ![t] = AllPartial(@, new)]
    /\ fate' = [Evicted EXCEPT ![r] = "queued"]
    /\ seqno' = [seqno EXCEPT ![r] = tail_seq]
    /\ UNCHANGED <<booted, ready, drained, spool_out, reboots>>

(* The slot write succeeds.  The flush that follows makes all of the cache *)
(* durable; its result is ignored.                                         *)
Push(r) ==
    LET t == slot_of(tail_seq)
        new == Rec(tail_seq, r)
    IN
    /\ ready /\ spool_out = None /\ fate[r] = "fresh"
    /\ MakeRoom
    /\ tail_seq' = tail_seq + 1
    /\ rec_count' = IF Full THEN rec_count ELSE rec_count + 1
    /\ pushed' = pushed + 1
    /\ count' = rec_count'
    /\ disk' = [disk EXCEPT ![t] = new]
    /\ \/ media' = [s \in Slots |-> {disk'[s]}]
       \/ /\ "sync_io" \in Faults
          /\ media' = [media EXCEPT ![t] = AllPartial(@, new)]
    /\ fate' = [Evicted EXCEPT ![r] = "queued"]
    /\ seqno' = [seqno EXCEPT ![r] = tail_seq]
    /\ UNCHANGED <<booted, ready, drained, spool_out, reboots>>

(* The slot write fails: the sequence number is used again. *)
PushFails(r) ==
    LET t == slot_of(tail_seq)
        new == Rec(tail_seq, r)
    IN
    /\ "push_io" \in Faults
    /\ ready /\ spool_out = None /\ fate[r] = "fresh"
    /\ MakeRoom
    /\ rec_count' = IF Full THEN rec_count - 1 ELSE rec_count
    /\ \E c \in Partial(disk[t], new) : disk' = [disk EXCEPT ![t] = c]
    /\ media' = [media EXCEPT ![t] = AllPartial(@, new)]
    /\ fate' = [Evicted EXCEPT ![r] = "refused"]
    /\ UNCHANGED <<booted, ready, tail_seq, count, pushed, drained, spool_out,
                   seqno, reboots>>

----------------------------------------------------------------------------
(* spool_peek as the drain loop calls it: bad slots are dropped up to the  *)
(* first good one, which is copied to spool_out; a failing read ends the   *)
(* call where it is met.                                                   *)
Peek ==
    \E k \in head_seq .. tail_seq :
        /\ ready /\ spool_out = None /\ rec_count > 0
        /\ \A q \in head_seq .. k - 1 : ~Good(q)
        /\ \/ /\ k < tail_seq /\ Good(k)
              /\ spool_out' = disk[slot_of(k)].body
           \/ /\ k = tail_seq
              /\ UNCHANGED spool_out
           \/ /\ k < tail_seq /\ "read_io" \in Faults
              /\ UNCHANGED spool_out
        /\ head_seq' = k
        /\ rec_count' = rec_count - (k - head_seq)
        /\ drops' = drops + (k - head_seq)
        /\ count' = IF k = head_seq THEN count ELSE rec_count'
        /\ fate' = Release({r \in Records : seqno[r] \in head_seq .. k - 1}, "skipped")
        /\ UNCHANGED <<booted, ready, tail_seq, pushed, drained, diskVars, seqno,
                       reboots>>

(* Altered: the slot header is not invalidated ... *)
CommitKeepsSlot ==
    /\ ready /\ spool_out # None
    /\ spool_out' = None
    /\ IF rec_count = 0
       THEN UNCHANGED <<head_seq, rec_count, count, drained, fate>>
       ELSE /\ head_seq' = head_seq + 1
            /\ rec_count' = rec_count - 1
            /\ drained' = drained + 1
            /\ count' = rec_count'
            /\ fate' = Release({r \in Records : seqno[r] = head_seq}, "drained")
    /\ UNCHANGED <<booted, ready, tail_seq, pushed, drops, diskVars, seqno, reboots>>

(* ... or an empty ring is not left alone. *)
CommitUnguarded ==
    LET h == slot_of(head_seq) IN
    /\ ready /\ spool_out # None
    /\ spool_out' = None
    /\ disk' = [disk EXCEPT ![h] = Blank]
    /\ media' = [media EXCEPT ![h] = @ \cup {Blank}]
    /\ head_seq' = head_seq + 1
    /\ rec_count' = rec_count - 1
    /\ drained' = drained + 1
    /\ count' = rec_count'
    /\ fate' = Release({r \in Records : seqno[r] = head_seq}, "drained")
    /\ UNCHANGED <<booted, ready, tail_seq, pushed, drops, seqno, reboots>>

(* spool_commit, after the main loop has published spool_out.  A wipe in   *)
(* between leaves nothing to commit.  The header write is not flushed, and *)
(* the ring moves on even when it fails.                                   *)
Commit ==
    LET h == slot_of(head_seq) IN
    /\ ready /\ spool_out # None
    /\ spool_out' = None
    /\ \/ /\ rec_count = 0
          /\ UNCHANGED <<head_seq, rec_count, count, drained, diskVars, fate>>
       \/ /\ rec_count > 0
          /\ \/ disk' = [disk EXCEPT ![h] = Blank]
             \/ "commit_io" \in Faults /\ UNCHANGED disk
          /\ media' = [media EXCEPT ![h] = @ \cup {Blank}]
          /\ head_seq' = head_seq + 1
          /\ rec_count' = rec_count - 1
          /\ drained' = drained + 1
          /\ count' = rec_count'
          /\ fate' = Release({r \in Records : seqno[r] = head_seq}, "drained")
    /\ UNCHANGED <<booted, ready, tail_seq, pushed, drops, seqno, reboots>>

(* spool_wipe, from the C2D command thread.  Slots are erased in order up  *)
(* to the first failing write; the ring is reset in either case.           *)
Wipe ==
    /\ ready
    /\ \E n \in 0 .. NSLOTS :
           /\ n = NSLOTS \/ "wipe_io" \in Faults
           /\ disk' = [s \in Slots |-> IF s < n THEN Blank ELSE disk[s]]
           /\ media' = [s \in Slots |-> IF s < n \/ s = n THEN media[s] \cup {Blank}
                                                 ELSE media[s]]
           /\ fate' = Release(Records, IF n = NSLOTS THEN "wiped" ELSE "orphaned")
    /\ head_seq' = 0 /\ tail_seq' = 0 /\ rec_count' = 0
    /\ count' = 0
    /\ UNCHANGED <<booted, ready, pushed, drained, drops, spool_out, seqno, reboots>>

----------------------------------------------------------------------------
(* Restarts.  The reboot command and a crash keep the eMMC powered; a      *)
(* power cut loses what its cache had not written.                         *)

CanRestart ==
    /\ reboots < MaxReboots
    /\ reboots' = reboots + 1

PowerLost(was) ==
    /\ \E left \in [Slots -> UNION {was[s] : s \in Slots}] :
           /\ \A s \in Slots : left[s] \in was[s]
           /\ disk' = left
    /\ media' = [s \in Slots |-> {disk'[s]}]

Reboot ==
    /\ booted /\ CanRestart
    /\ RamReset
    /\ UNCHANGED <<diskVars, historyVars>>

PowerCut ==
    /\ "power" \in Faults
    /\ booted /\ CanRestart
    /\ RamReset
    /\ PowerLost(media)
    /\ UNCHANGED historyVars

(* A restart while spool_push is writing its slot.  (Restarts during the   *)
(* header writes of a commit or a wipe leave what one just before or just  *)
(* after leaves.)                                                          *)
RestartInPush(r) ==
    LET t == slot_of(tail_seq)
        new == Rec(tail_seq, r)
        during == [media EXCEPT ![t] = AllPartial(@, new)]
    IN
    /\ ready /\ spool_out = None /\ fate[r] = "fresh"
    /\ CanRestart
    /\ RamReset
    /\ \/ /\ \E c \in Partial(disk[t], new) : disk' = [disk EXCEPT ![t] = c]
          /\ media' = during
       \/ /\ "power" \in Faults
          /\ PowerLost(during)
    /\ fate' = [Evicted EXCEPT ![r] = "torn"]
    /\ UNCHANGED seqno

Next ==
    \/ SpoolInit
    \/ \E r \in Records : PushTooLong(r) \/ Push(r) \/ PushFails(r) \/ RestartInPush(r)
    \/ Peek \/ Commit \/ Wipe
    \/ Reboot \/ PowerCut

Spec == Init /\ [][Next]_vars

----------------------------------------------------------------------------
(* Properties. *)

Readable(r) ==
    /\ head_seq <= seqno[r] /\ seqno[r] < tail_seq
    /\ disk[slot_of(seqno[r])] = Rec(seqno[r], r)

(* "Spooled records exist precisely to survive power loss" (spool.c        *)
(* 143-145): once spool_push has returned 0, a record stays in the window  *)
(* that spool_peek walks, intact, through every restart, until it is       *)
(* drained, wiped or pushed out by a newer one; no bad-slot skip loses it. *)
Recoverable ==
    /\ ready => \A r \in Queued : Readable(r)
    /\ \A r \in Records : fate[r] # "skipped"

(* What makes it so, and makes it inductive: the ring is a window of at    *)
(* most NSLOTS sequence numbers ...                                        *)
RingWindow ==
    ready => /\ rec_count = tail_seq - head_seq
             /\ 0 <= rec_count /\ rec_count <= NSLOTS
             /\ \A s \in Slots : disk[s].seq <= tail_seq

(* ... and a spooled record is the only thing a power cut can leave in its *)
(* slot, with nothing on the disk so much newer that the window recovered  *)
(* by spool_init would start above it.                                     *)
Held(r) ==
    /\ media[slot_of(seqno[r])] = {Rec(seqno[r], r)}
    /\ \A s \in Slots : \A c \in media[s] : c.seq < seqno[r] + NSLOTS
    /\ ready => head_seq <= seqno[r] /\ seqno[r] < tail_seq

Durable == \A r \in Queued : Held(r)

MediaHoldsDisk == \A s \in Slots : disk[s] \in media[s]

SpoolInv ==
    /\ TypeOK
    /\ RingWindow
    /\ MediaHoldsDisk
    /\ Durable
    /\ \A r \in Records : fate[r] # "skipped"

(* spool_peek never hands out a record that was committed or wiped, across *)
(* restarts: "popped slots are invalidated on commit so a reboot never     *)
(* re-sends drained records" (spool.h 18-19), and a spool_wipe that        *)
(* succeeds has erased every slot header.                                  *)
NeverResend ==
    [][spool_out' # None => fate[spool_out'] \notin {"drained", "wiped"}
                            \/ spool_out' = spool_out]_vars

(* The drained half of it alone, as spool.h and the gateway README state   *)
(* it.                                                                     *)
DrainedNeverResent ==
    [][spool_out' # None => fate[spool_out'] # "drained"]_vars

(* stats.count, "records currently queued" (spool.h 36), which the gateway *)
(* publishes and spool-info reports, is the length of the ring.            *)
StatsCountExact == ready => count = rec_count

(* "Honest spool/drop counters" (main.c 19-20), "ring-full overwrites +    *)
(* oversize rejects" (spool.h 40): every record too long, pushed out or    *)
(* skipped since boot was counted in drops, as long as no slot write       *)
(* fails.                                                                  *)
HonestDrops ==
    reboots = 0 =>
        Cardinality({r \in Records : fate[r] \in {"refused", "evicted", "skipped"}})
            <= drops
=============================================================================
