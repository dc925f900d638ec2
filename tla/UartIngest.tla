----------------------------- MODULE UartIngest -----------------------------
(***************************************************************************)
(* One UART link of the gateway (demos/gateway/src/uart_ingest.c): the     *)
(* receive interrupt assembles lines and queues the telemetry ones in a    *)
(* byte ring, the main loop pops them.  The links share nothing, so one is *)
(* modelled.                                                               *)
(*                                                                         *)
(* A character's value matters only through the line it belongs to: a line *)
(* being assembled is a whole prefix of what one source line holds, or     *)
(* Garbled once a byte was lost on the wire.  The spinlock of each link    *)
(* masks the interrupt, so a pop is one step.                              *)
(***************************************************************************)
EXTENDS Integers, Sequences

CONSTANTS
    Lines,        \* the lines sources print, ended by CR LF
    Size,         \* characters of each, without the end of line
    Prefixed,     \* those that begin with "IOTC-TELEMETRY: "
    Garbled,      \* a line that lost a byte or the end of the line before it
    None,
    INGEST_LINE_MAX, INGEST_PREFIX_LEN, LINE_RING_SIZE,
    BufSize,      \* the buf_size the main loop passes to uart_ingest_pop
    MaxLines,     \* bound on the lines a source sends
    MaxLost       \* bound on the bytes lost on the wire

HeaderSize == 2   \* sizeof(uint16_t), in front of each queued line

ASSUME LinesAssumption ==
    /\ Garbled \notin Lines /\ None \notin Lines /\ None # Garbled
    /\ Size \in [Lines -> Nat \ {0}]
    /\ Prefixed \subseteq Lines
ASSUME SizesAssumption ==
    /\ INGEST_LINE_MAX \in Nat \ {0} /\ INGEST_PREFIX_LEN \in Nat
    /\ LINE_RING_SIZE \in Nat /\ BufSize \in Nat
ASSUME BoundsAssumption == MaxLines \in Nat /\ MaxLost \in Nat

VARIABLES
    tx_line, tx_char,     \* the line on the wire, the character due next
    line, line_len, overlong,
    rb, rb_used,          \* queued lines, bytes of the ring they take
    lines_ok, lines_dropped,
    (* History. *)
    sent, lost,
    dirty,                \* a byte was lost since the last end of line received
    arrived               \* telemetry lines whose every byte was received

isrVars == <<line, line_len, overlong>>
ringVars == <<rb, rb_used>>
wireVars == <<tx_line, tx_char>>
vars == <<wireVars, isrVars, ringVars, lines_ok, lines_dropped,
          sent, lost, dirty, arrived>>

TypeOK ==
    /\ tx_line \in Lines \cup {None}
    /\ tx_char \in Nat
    /\ line \in Lines \cup {None, Garbled}
    /\ line_len \in Nat /\ overlong \in BOOLEAN
    /\ rb \in Seq([len : Nat, line : Lines \cup {Garbled}])
    /\ rb_used \in Nat
    /\ lines_ok \in Nat /\ lines_dropped \in Nat
    /\ sent \in Nat /\ lost \in Nat /\ dirty \in BOOLEAN
    /\ arrived \in Nat

Init ==
    /\ tx_line = None /\ tx_char = 0
    /\ line = None /\ line_len = 0 /\ overlong = FALSE
    /\ rb = <<>> /\ rb_used = 0
    /\ lines_ok = 0 /\ lines_dropped = 0
    /\ sent = 0 /\ lost = 0 /\ dirty = FALSE /\ arrived = 0

----------------------------------------------------------------------------
(* The wire. *)

StartLine(l) ==
    /\ tx_line = None /\ sent < MaxLines
    /\ tx_line' = l /\ tx_char' = 1
    /\ sent' = sent + 1
    /\ UNCHANGED <<isrVars, ringVars, lines_ok, lines_dropped, lost, dirty,
                   arrived>>

Cr == tx_char = Size[tx_line] + 1
Lf == tx_char = Size[tx_line] + 2
AtEol == tx_line # None /\ (Cr \/ Lf)

NextChar ==
    IF Lf THEN tx_line' = None /\ tx_char' = 0
    ELSE tx_char' = tx_char + 1 /\ UNCHANGED tx_line

(* The UART overruns: a byte never reaches the interrupt handler. *)
LoseByte ==
    /\ tx_line # None /\ lost < MaxLost
    /\ lost' = lost + 1
    /\ dirty' = TRUE
    /\ NextChar
    /\ UNCHANGED <<isrVars, ringVars, lines_ok, lines_dropped, sent, arrived>>

----------------------------------------------------------------------------
(* uart_isr, one byte. *)

(* The line stays a prefix of a source line as long as each character      *)
(* follows the one before it there.                                        *)
Extend ==
    IF line_len = tx_char - 1 /\ (tx_char = 1 \/ line = tx_line)
    THEN tx_line ELSE Garbled

(* Altered: the bound forgets the NUL. *)
RxCharOffByOne ==
    /\ tx_line # None /\ ~AtEol
    /\ IF line_len < INGEST_LINE_MAX
       THEN line_len' = line_len + 1 /\ line' = Extend /\ UNCHANGED overlong
       ELSE overlong' = TRUE /\ UNCHANGED <<line, line_len>>
    /\ NextChar
    /\ UNCHANGED <<ringVars, lines_ok, lines_dropped, sent, lost, dirty,
                   arrived>>

RxChar ==
    /\ tx_line # None /\ ~AtEol
    /\ IF line_len < INGEST_LINE_MAX - 1
       THEN line_len' = line_len + 1 /\ line' = Extend /\ UNCHANGED overlong
       ELSE overlong' = TRUE /\ UNCHANGED <<line, line_len>>
    /\ NextChar
    /\ UNCHANGED <<ringVars, lines_ok, lines_dropped, sent, lost, dirty,
                   arrived>>

Clear == line' = None /\ line_len' = 0

(* The line as queued: a tail lost on the wire garbles it too. *)
Assembled == IF line = tx_line /\ line_len = Size[tx_line] THEN line ELSE Garbled

(* Telemetry by its prefix; what a garbled line begins with is anything. *)
MaybeTelemetry == line_len > INGEST_PREFIX_LEN /\ (line \in Prefixed \/ line = Garbled)

MaybeNoise == line_len <= INGEST_PREFIX_LEN \/ line \notin Prefixed

(* Altered: a line too long is not counted. *)
OverlongUncounted ==
    /\ overlong
    /\ overlong' = FALSE
    /\ Clear
    /\ UNCHANGED <<ringVars, lines_ok, lines_dropped>>

Overlong ==
    /\ overlong
    /\ overlong' = FALSE
    /\ Clear
    /\ lines_dropped' = lines_dropped + 1
    /\ UNCHANGED <<ringVars, lines_ok>>

(* Altered: noise is left in the assembly buffer. *)
NoiseKept ==
    /\ ~overlong /\ MaybeNoise
    /\ UNCHANGED <<isrVars, ringVars, lines_ok, lines_dropped>>

Noise ==
    /\ ~overlong /\ MaybeNoise
    /\ Clear
    /\ UNCHANGED <<overlong, ringVars, lines_ok, lines_dropped>>

(* Altered: the length header is left out. *)
EnqueueHeaderless ==
    LET len == line_len - INGEST_PREFIX_LEN IN
    /\ ~overlong /\ MaybeTelemetry
    /\ IF LINE_RING_SIZE - rb_used < len
       THEN /\ lines_dropped' = lines_dropped + 1
            /\ UNCHANGED <<ringVars, lines_ok>>
       ELSE /\ rb' = Append(rb, [len |-> len, line |-> Assembled])
            /\ rb_used' = rb_used + len
            /\ lines_ok' = lines_ok + 1
            /\ UNCHANGED lines_dropped
    /\ Clear
    /\ UNCHANGED overlong

Enqueue ==
    LET len == line_len - INGEST_PREFIX_LEN
        need == HeaderSize + len
    IN
    /\ ~overlong /\ MaybeTelemetry
    /\ IF LINE_RING_SIZE - rb_used < need
       THEN /\ lines_dropped' = lines_dropped + 1
            /\ UNCHANGED <<ringVars, lines_ok>>
       ELSE /\ rb' = Append(rb, [len |-> len, line |-> Assembled])
            /\ rb_used' = rb_used + need
            /\ lines_ok' = lines_ok + 1
            /\ UNCHANGED lines_dropped
    /\ Clear
    /\ UNCHANGED overlong

line_complete == Overlong \/ Noise \/ Enqueue

(* An end of line after nothing (the LF of a CR LF) is ignored. *)
RxEol ==
    /\ AtEol
    /\ \/ /\ line_len > 0 \/ overlong
          /\ line_complete
       \/ /\ line_len = 0 /\ ~overlong
          /\ UNCHANGED <<isrVars, ringVars, lines_ok, lines_dropped>>
    /\ arrived' = IF Cr /\ ~dirty /\ tx_line \in Prefixed /\ Size[tx_line] > INGEST_PREFIX_LEN
                  THEN arrived + 1 ELSE arrived
    /\ dirty' = FALSE
    /\ NextChar
    /\ UNCHANGED <<sent, lost>>

----------------------------------------------------------------------------
(* uart_ingest_pop, from the main loop.  A line that does not fit the      *)
(* caller's buffer is discarded and counted.                               *)
Pop ==
    /\ rb # <<>>
    /\ rb' = Tail(rb)
    /\ rb_used' = rb_used - (HeaderSize + Head(rb).len)
    /\ lines_dropped' = IF Head(rb).len >= BufSize THEN lines_dropped + 1
                                                  ELSE lines_dropped
    /\ UNCHANGED <<wireVars, isrVars, lines_ok, sent, lost, dirty, arrived>>

Next ==
    \/ \E l \in Lines : StartLine(l)
    \/ LoseByte \/ RxChar \/ RxEol
    \/ Pop

Spec == Init /\ [][Next]_vars

----------------------------------------------------------------------------
(* Properties. *)

(* The assembly buffer and the ring are never written past their ends: the *)
(* terminating NUL of a line goes at index line_len, and a queued line     *)
(* takes its header too.                                                   *)
InBounds ==
    /\ line_len < INGEST_LINE_MAX
    /\ rb_used <= LINE_RING_SIZE

(* "The drop counters record any overflow honestly" (uart_ingest.h 15-16): *)
(* a telemetry line that arrived entire is queued or counted as dropped,   *)
(* whatever precedes it on the wire.                                       *)
LossCounted == arrived <= lines_ok + lines_dropped

(* A line the interrupt handler accepts always fits the main loop's        *)
(* buffer, so uart_ingest_pop never discards one already counted as ok.    *)
PopFits == \A i \in DOMAIN rb : rb[i].len < BufSize

----------------------------------------------------------------------------
(* The link is a lossy line queue. *)

(* The source line the next queue entry can still come from. *)
OnTheWire ==
    IF tx_line # None /\ (~Lf \/ line_len > 0 \/ overlong) THEN tx_line ELSE None

Abstract == INSTANCE LossyLine
    WITH pending <- OnTheWire, damaged <- dirty,
         queue <- [i \in DOMAIN rb |-> rb[i].line]

(* Lines reach the main loop whole, in the order sent and at most once;    *)
(* the only other thing it ever sees is a garbled line in place of one     *)
(* that lost bytes or whose predecessor lost its end.                      *)
ImplementsLossyLine == Abstract!Spec
=============================================================================
