-------------------------- MODULE UartIngestProofs --------------------------
(***************************************************************************)
(* The bounds of the UART link, its account of lost lines and what it      *)
(* promises the main loop, for every buffer size, prefix length and ring   *)
(* size and every sequence of bytes, lost ones included.                   *)
(***************************************************************************)
EXTENDS UartIngest, TLAPS

Entries == [len : Nat, line : Lines \cup {Garbled}]

(* A queued line is what the assembly buffer can hold after the prefix. *)
LinkInv ==
    /\ line \in Lines \cup {None, Garbled}
    /\ line_len \in Nat /\ line_len < INGEST_LINE_MAX
    /\ rb \in Seq(Entries)
    /\ \A i \in DOMAIN rb : rb[i].len + INGEST_PREFIX_LEN < INGEST_LINE_MAX
    /\ rb_used \in Int /\ rb_used <= LINE_RING_SIZE

OnWire == tx_line \in Lines \cup {None}

LEMMA AppendElements ==
    ASSUME NEW S, NEW s \in Seq(S), NEW x \in S
    PROVE  /\ Append(s, x) \in Seq(S)
           /\ \A i \in DOMAIN Append(s, x) :
                  Append(s, x)[i] = x \/ (i \in DOMAIN s /\ Append(s, x)[i] = s[i])
<1> DEFINE t == Append(s, x)
<1>1. t \in Seq(S) /\ DOMAIN t = 1 .. Len(s) + 1 /\ DOMAIN s = 1 .. Len(s)
  OBVIOUS
<1>2. ASSUME NEW i \in DOMAIN t PROVE t[i] = x \/ (i \in DOMAIN s /\ t[i] = s[i])
  <2>1. CASE i = Len(s) + 1
    <3>1. t[Len(s) + 1] = x
      OBVIOUS
    <3> QED
      BY <2>1, <3>1
  <2>2. CASE i \in 1 .. Len(s)
    BY <1>1, <2>2
  <2>3. i \in 1 .. Len(s) + 1 => i = Len(s) + 1 \/ i \in 1 .. Len(s)
    OBVIOUS
  <2> QED
    BY <1>1, <1>2, <2>1, <2>2, <2>3
<1> QED
  BY <1>1, <1>2

LEMMA LinkInit == Init => LinkInv
BY SizesAssumption DEF Init, LinkInv

(* line_complete, in each of the three ways it ends. *)
LEMMA LineComplete ==
    ASSUME LinkInv, tx_line \in Lines, line_complete
    PROVE  LinkInv'
<1> USE SizesAssumption DEF LinkInv
<1>1. CASE Overlong
  BY <1>1 DEF Overlong, Clear, ringVars
<1>2. CASE Noise
  BY <1>2 DEF Noise, Clear, ringVars
<1>3. CASE Enqueue
  <2> DEFINE len == line_len - INGEST_PREFIX_LEN
             e == [len |-> len, line |-> Assembled]
  <2>1. line' = None /\ line_len' = 0
    BY <1>3 DEF Enqueue, Clear
  <2>2. CASE UNCHANGED ringVars
    BY <2>1, <2>2 DEF ringVars
  <2>3. CASE /\ rb' = Append(rb, e)
             /\ rb_used' = rb_used + (HeaderSize + len)
             /\ ~(LINE_RING_SIZE - rb_used < HeaderSize + len)
    <3>1. len \in Nat /\ len + INGEST_PREFIX_LEN < INGEST_LINE_MAX
      BY <1>3 DEF Enqueue, MaybeTelemetry
    <3>2. Assembled \in Lines \cup {Garbled}
      BY DEF Assembled
    <3>3. e \in Entries /\ e.len = len
      BY <3>1, <3>2 DEF Entries
    <3> HIDE DEF e, len
    <3>4. rb' \in Seq(Entries)
      BY <2>3, <3>3, AppendElements
    <3>5. \A i \in DOMAIN rb' : rb'[i] = e \/ (i \in DOMAIN rb /\ rb'[i] = rb[i])
      BY <2>3, <3>3, AppendElements
    <3>6. \A i \in DOMAIN rb' : rb'[i].len + INGEST_PREFIX_LEN < INGEST_LINE_MAX
      BY <3>1, <3>3, <3>5
    <3>7. rb_used' \in Int /\ rb_used' <= LINE_RING_SIZE
      BY <2>3, <3>1 DEF HeaderSize
    <3> QED
      BY <2>1, <3>4, <3>6, <3>7
  <2> QED
    BY <1>3, <2>2, <2>3 DEF Enqueue
<1> QED
  BY <1>1, <1>2, <1>3 DEF line_complete

LEMMA LinkNext == LinkInv /\ OnWire /\ [Next]_vars => LinkInv'
<1> SUFFICES ASSUME LinkInv, OnWire, [Next]_vars PROVE LinkInv'
  OBVIOUS
<1>1. CASE UNCHANGED <<isrVars, ringVars>>
  BY <1>1 DEF isrVars, ringVars, LinkInv
<1>2. ASSUME NEW l \in Lines, StartLine(l) PROVE LinkInv'
  BY <1>1, <1>2 DEF StartLine
<1>3. CASE LoseByte
  BY <1>1, <1>3 DEF LoseByte
<1>4. CASE RxChar
  <2>1. rb' = rb /\ rb_used' = rb_used
    BY <1>4 DEF RxChar, ringVars
  <2>2. line' \in Lines \cup {None, Garbled}
    <3>1. tx_line \in Lines
      BY <1>4 DEF RxChar, OnWire
    <3>2. line' = line \/ line' = Extend
      BY <1>4 DEF RxChar
    <3>3. Extend \in Lines \cup {Garbled}
      BY <3>1 DEF Extend
    <3> QED
      BY <3>2, <3>3 DEF LinkInv
  <2>3. line_len' \in Nat /\ line_len' < INGEST_LINE_MAX
    BY <1>4, SizesAssumption DEF RxChar, LinkInv
  <2> QED
    BY <2>1, <2>2, <2>3 DEF LinkInv
<1>5. CASE RxEol
  <2>1. tx_line \in Lines
    BY <1>5 DEF RxEol, AtEol, OnWire
  <2> QED
    BY <1>1, <1>5, <2>1, LineComplete DEF RxEol
<1>6. CASE Pop
  <2>1. rb # <<>> /\ rb' = Tail(rb) /\ UNCHANGED <<line, line_len>>
    BY <1>6 DEF Pop, isrVars
  <2>2. rb_used' = rb_used - (HeaderSize + Head(rb).len)
    BY <1>6 DEF Pop
  <2>3. Head(rb) \in Entries /\ Tail(rb) \in Seq(Entries)
    BY <2>1 DEF LinkInv
  <2>4. rb_used' \in Int /\ rb_used' <= LINE_RING_SIZE
    BY <2>2, <2>3, SizesAssumption DEF LinkInv, Entries, HeaderSize
  <2>5. \A i \in DOMAIN rb' : i + 1 \in DOMAIN rb /\ rb'[i] = rb[i + 1]
    BY <2>1 DEF LinkInv
  <2> QED
    BY <2>1, <2>3, <2>4, <2>5 DEF LinkInv
<1>7. CASE UNCHANGED vars
  BY <1>1, <1>7 DEF vars
<1> QED
  BY <1>2, <1>3, <1>4, <1>5, <1>6, <1>7 DEF Next

LEMMA WireStep == OnWire /\ [Next]_vars => OnWire'
BY DEF OnWire, Next, StartLine, LoseByte, RxChar, RxEol, Pop, NextChar, vars, wireVars

LEMMA LinkAlways == Spec => []LinkInv
<1>1. Init => OnWire
  BY DEF Init, OnWire
<1>2. Spec => []OnWire
  BY <1>1, WireStep, PTL DEF Spec
<1> QED
  BY <1>2, LinkInit, LinkNext, PTL DEF Spec

(* Neither the assembly buffer (its NUL included) nor the ring (a line's   *)
(* header included) is ever written past its end.                          *)
THEOREM NoOverrun == Spec => []InBounds
<1>1. LinkInv => InBounds
  BY DEF LinkInv, InBounds
<1> QED
  BY <1>1, LinkAlways, PTL

(* As long as the main loop's buffer is no smaller than what the assembly  *)
(* buffer holds after the prefix (line_buf is INGEST_LINE_MAX bytes),      *)
(* uart_ingest_pop never discards a line that was counted as received.     *)
THEOREM PopNeverDiscards ==
    ASSUME BufSize + INGEST_PREFIX_LEN >= INGEST_LINE_MAX
    PROVE  Spec => []PopFits
<1>1. LinkInv => PopFits
  <2> SUFFICES ASSUME LinkInv, NEW i \in DOMAIN rb PROVE rb[i].len < BufSize
    BY DEF PopFits
  <2>1. rb[i].len \in Nat
    <3>1. rb[i] \in Entries
      BY DEF LinkInv
    <3> QED
      BY <3>1 DEF Entries
  <2> QED
    BY <2>1, SizesAssumption DEF LinkInv
<1> QED
  BY <1>1, LinkAlways, PTL

(***************************************************************************)
(* What the ring holds.  rb_used is the size of the queued lines, said     *)
(* without recursion: left is what remains to be popped from each on.      *)
(***************************************************************************)

Accounts(left, s, used) ==
    /\ left \in [1 .. Len(s) + 1 -> Nat]
    /\ left[1] = used /\ left[Len(s) + 1] = 0
    /\ \A i \in 1 .. Len(s) : left[i] = left[i + 1] + HeaderSize + s[i].len

RingInv == \E left \in [1 .. Len(rb) + 1 -> Nat] : Accounts(left, rb, rb_used)

(* A line that is queued is added to what is left from each line on.       *)
LEMMA AccountAppend ==
    ASSUME NEW s \in Seq(Entries), NEW e \in Entries, NEW left, NEW used,
           Accounts(left, s, used)
    PROVE  \E l \in [1 .. Len(Append(s, e)) + 1 -> Nat] :
               Accounts(l, Append(s, e), used + HeaderSize + e.len)
<1> DEFINE t == Append(s, e)
           n == Len(s)
           l == [i \in 1 .. n + 2 |-> IF i <= n + 1 THEN left[i] + HeaderSize + e.len ELSE 0]
<1>1. n \in Nat /\ t \in Seq(Entries) /\ Len(t) = n + 1
  OBVIOUS
<1>2. t[n + 1] = e /\ \A i \in 1 .. n : t[i] = s[i]
  OBVIOUS
<1>3. e.len \in Nat /\ HeaderSize \in Nat
  BY DEF Entries, HeaderSize
<1>4. left \in [1 .. n + 1 -> Nat] /\ left[1] = used /\ left[n + 1] = 0
  BY DEF Accounts
<1>5. \A i \in 1 .. n : left[i] = left[i + 1] + HeaderSize + s[i].len
  BY DEF Accounts
<1>6. \A i \in 1 .. n : s[i].len \in Nat
  <2>1. \A i \in 1 .. n : s[i] \in Entries
    OBVIOUS
  <2> QED
    BY <2>1 DEF Entries
<1> HIDE DEF t, n
<1>7. l \in [1 .. n + 2 -> Nat]
  BY <1>1, <1>3, <1>4
<1>8. l[1] = used + HeaderSize + e.len /\ l[n + 2] = 0
  BY <1>1, <1>3, <1>4
<1>9. ASSUME NEW i \in 1 .. n + 1
      PROVE  l[i] = l[i + 1] + HeaderSize + t[i].len
  <2>1. CASE i = n + 1
    <3>1. l[n + 1] = HeaderSize + e.len /\ l[n + 2] = 0
      BY <1>1, <1>3, <1>4
    <3>2. i + 1 = n + 2 /\ t[i].len = e.len
      BY <2>1, <1>1, <1>2
    <3> QED
      BY <3>1, <3>2, <2>1, <1>3
  <2>2. CASE i \in 1 .. n
    <3>1. l[i] = left[i] + HeaderSize + e.len /\ l[i + 1] = left[i + 1] + HeaderSize + e.len
      BY <2>2, <1>1
    <3>2. left[i] = left[i + 1] + HeaderSize + t[i].len /\ t[i].len \in Nat
      BY <2>2, <1>2, <1>5, <1>6
    <3>3. left[i] \in Nat /\ left[i + 1] \in Nat
      BY <2>2, <1>1, <1>4
    <3>4. PICK a, b, c, k \in Nat :
              a = left[i] /\ b = left[i + 1] /\ c = t[i].len /\ k = e.len
      BY <3>2, <3>3, <1>3
    <3>5. a = b + HeaderSize + c
      BY <3>2, <3>4
    <3>6. a + HeaderSize + k = (b + HeaderSize + k) + HeaderSize + c
      BY <3>5, <1>3
    <3> HIDE DEF l
    <3> QED
      BY <3>1, <3>4, <3>6
  <2> HIDE DEF l
  <2>3. i = n + 1 \/ i \in 1 .. n
    BY <1>1
  <2> QED
    BY <2>1, <2>2, <2>3
<1>10. Len(t) + 1 = n + 2
  BY <1>1
<1> HIDE DEF l
<1>11. Accounts(l, t, used + HeaderSize + e.len)
  BY <1>1, <1>7, <1>8, <1>9, <1>10 DEF Accounts
<1> QED
  BY <1>7, <1>10, <1>11 DEF t

(* A line that is popped leaves what was left from the next one on.        *)
LEMMA AccountTail ==
    ASSUME NEW s \in Seq(Entries), s # <<>>, NEW left, NEW used,
           Accounts(left, s, used)
    PROVE  \E l \in [1 .. Len(Tail(s)) + 1 -> Nat] :
               Accounts(l, Tail(s), used - (HeaderSize + Head(s).len))
<1> DEFINE t == Tail(s)
           n == Len(s)
           l == [i \in 1 .. n |-> left[i + 1]]
<1>1. n \in Nat /\ n >= 1 /\ t \in Seq(Entries) /\ Len(t) = n - 1 /\ Head(s) = s[1]
  OBVIOUS
<1>2. \A i \in 1 .. n - 1 : t[i] = s[i + 1]
  OBVIOUS
<1>3. HeaderSize \in Nat
  BY DEF HeaderSize
<1>4. left \in [1 .. n + 1 -> Nat] /\ left[1] = used /\ left[n + 1] = 0
  BY DEF Accounts
<1>5. \A i \in 1 .. n : left[i] = left[i + 1] + HeaderSize + s[i].len
  BY DEF Accounts
<1>6. \A i \in 1 .. n : s[i].len \in Nat
  <2>1. \A i \in 1 .. n : s[i] \in Entries
    OBVIOUS
  <2> QED
    BY <2>1 DEF Entries
<1> HIDE DEF t, n
<1>7. l \in [1 .. n -> Nat]
  BY <1>1, <1>4
<1>8. l[1] = used - (HeaderSize + s[1].len)
  <2>1. l[1] = left[2] /\ left[2] \in Nat
    BY <1>1, <1>4
  <2>2. left[1] = left[2] + HeaderSize + s[1].len /\ s[1].len \in Nat
    BY <1>1, <1>5, <1>6
  <2> QED
    BY <2>1, <2>2, <1>3, <1>4
<1>9. l[n] = 0
  BY <1>1, <1>4
<1>10. ASSUME NEW i \in 1 .. n - 1
       PROVE  l[i] = l[i + 1] + HeaderSize + t[i].len
  <2>1. l[i] = left[i + 1] /\ l[i + 1] = left[i + 1 + 1]
    BY <1>1
  <2>2. i + 1 \in 1 .. n
    BY <1>1
  <2> QED
    BY <2>1, <2>2, <1>2, <1>5
<1>11. Len(t) + 1 = n
  BY <1>1
<1> HIDE DEF l
<1>12. Accounts(l, t, used - (HeaderSize + s[1].len))
  BY <1>1, <1>7, <1>8, <1>9, <1>10, <1>11 DEF Accounts
<1> QED
  BY <1>1, <1>7, <1>11, <1>12 DEF t

(* A byte received, of whatever kind, keeps the account.                   *)
LEMMA RingComplete ==
    ASSUME LinkInv, RingInv, tx_line \in Lines, line_complete
    PROVE  RingInv'
<1>1. CASE UNCHANGED ringVars
  BY <1>1 DEF ringVars, RingInv
<1>2. CASE Enqueue /\ ~UNCHANGED ringVars
  <2> DEFINE len == line_len - INGEST_PREFIX_LEN
             e == [len |-> len, line |-> Assembled]
  <2>1. len \in Nat
    BY <1>2, SizesAssumption DEF Enqueue, MaybeTelemetry, LinkInv
  <2>2. Assembled \in Lines \cup {Garbled}
    BY DEF Assembled
  <2>3. e \in Entries /\ e.len = len
    BY <2>1, <2>2 DEF Entries
  <2>4. rb' = Append(rb, e) /\ rb_used' = rb_used + (HeaderSize + len)
    BY <1>2 DEF Enqueue
  <2> HIDE DEF e, len
  <2>5. rb_used' = rb_used + HeaderSize + e.len
    BY <2>1, <2>3, <2>4 DEF LinkInv, HeaderSize
  <2>6. PICK left \in [1 .. Len(rb) + 1 -> Nat] : Accounts(left, rb, rb_used)
    BY DEF RingInv
  <2>7. rb \in Seq(Entries)
    BY DEF LinkInv
  <2>8. \E l \in [1 .. Len(Append(rb, e)) + 1 -> Nat] :
            Accounts(l, Append(rb, e), rb_used + HeaderSize + e.len)
    BY <2>3, <2>6, <2>7, AccountAppend
  <2> QED
    BY <2>4, <2>5, <2>8 DEF RingInv
<1> QED
  BY <1>1, <1>2 DEF line_complete, Overlong, Noise

(* The other steps that touch the ring pop its oldest line.                *)
LEMMA RingStep == LinkInv /\ OnWire /\ RingInv /\ [Next]_vars => RingInv'
<1> SUFFICES ASSUME LinkInv, OnWire, RingInv, [Next]_vars PROVE RingInv'
  OBVIOUS
<1>1. CASE UNCHANGED ringVars
  BY <1>1 DEF ringVars, RingInv
<1>2. CASE RxEol
  <2>1. tx_line \in Lines
    BY <1>2 DEF RxEol, AtEol, OnWire
  <2> QED
    BY <1>1, <1>2, <2>1, RingComplete DEF RxEol
<1>3. CASE Pop
  <2>1. PICK left \in [1 .. Len(rb) + 1 -> Nat] : Accounts(left, rb, rb_used)
    BY DEF RingInv
  <2>2. rb \in Seq(Entries) /\ rb # <<>>
    BY <1>3 DEF LinkInv, Pop
  <2>3. \E l \in [1 .. Len(Tail(rb)) + 1 -> Nat] :
            Accounts(l, Tail(rb), rb_used - (HeaderSize + Head(rb).len))
    BY <2>1, <2>2, AccountTail
  <2>4. rb' = Tail(rb) /\ rb_used' = rb_used - (HeaderSize + Head(rb).len)
    BY <1>3 DEF Pop
  <2> QED
    BY <2>3, <2>4 DEF RingInv
<1> QED
  BY <1>1, <1>2, <1>3 DEF Next, StartLine, LoseByte, RxChar, vars

(***************************************************************************)
(* The line on the wire.  As long as no byte was lost since the last end   *)
(* of line, the assembly buffer holds what the source has sent of its line *)
(* or has already been found too short for it.                             *)
(***************************************************************************)

WireInv ==
    /\ tx_line \in Lines \cup {None} /\ tx_char \in Nat
    /\ tx_line # None => tx_char >= 1 /\ tx_char <= Size[tx_line] + 2
    /\ overlong \in BOOLEAN /\ dirty \in BOOLEAN

MidLine == tx_line # None /\ tx_char <= Size[tx_line] + 1

Faithful ==
    /\ MidLine => overlong \/ (line_len = tx_char - 1 /\ (line_len > 0 => line = tx_line))
    /\ ~MidLine => line_len = 0 /\ ~overlong

IngestInv == LinkInv /\ WireInv /\ (~dirty => Faithful)

(* What the source does next is within its line.                           *)
LEMMA NextCharInLine ==
    ASSUME WireInv, tx_line # None, NextChar
    PROVE  /\ tx_line' \in Lines \cup {None} /\ tx_char' \in Nat
           /\ tx_line' # None => tx_char' >= 1 /\ tx_char' <= Size[tx_line'] + 2
<1>1. tx_line \in Lines /\ Size[tx_line] \in Nat /\ tx_char \in Nat
  BY LinesAssumption DEF WireInv
<1>2. CASE Lf
  BY <1>2 DEF NextChar
<1>3. CASE ~Lf
  BY <1>1, <1>3 DEF NextChar, Lf, WireInv
<1> QED
  BY <1>2, <1>3

(* A character of the line extends what was assembled of it.               *)
LEMMA CharFaithful ==
    ASSUME LinkInv, WireInv, RxChar, ~dirty => Faithful
    PROVE  WireInv' /\ (~dirty' => Faithful')
<1>1. tx_line \in Lines /\ Size[tx_line] \in Nat /\ tx_char \in Nat /\ line_len \in Nat
  BY LinesAssumption DEF WireInv, LinkInv, RxChar
<1>2. ~Cr /\ ~Lf /\ NextChar /\ tx_line # None /\ dirty' = dirty
  BY DEF RxChar, AtEol
<1>3. tx_line' = tx_line /\ tx_char' = tx_char + 1
  BY <1>2 DEF NextChar
<1>4. tx_char >= 1 /\ tx_char <= Size[tx_line]
  BY <1>1, <1>2 DEF WireInv, Cr, Lf
<1>5. overlong' \in BOOLEAN
  BY DEF RxChar, WireInv
<1>6. WireInv'
  BY <1>2, <1>5, NextCharInLine DEF WireInv
<1>7. ASSUME ~dirty PROVE Faithful'
  <2>1. MidLine /\ MidLine'
    BY <1>1, <1>2, <1>3, <1>4 DEF MidLine
  <2>2. overlong \/ (line_len = tx_char - 1 /\ (line_len > 0 => line = tx_line))
    BY <1>7, <2>1 DEF Faithful
  <2>3. CASE overlong'
    BY <2>1, <2>3 DEF Faithful
  <2>4. CASE ~overlong'
    <3>1. ~overlong /\ line_len' = line_len + 1 /\ line' = Extend
      BY <2>4 DEF RxChar
    <3>2. line_len = tx_char - 1 /\ (tx_char = 1 \/ line = tx_line)
      BY <2>2, <3>1, <1>1, <1>4
    <3>3. line' = tx_line' /\ line_len' = tx_char' - 1
      BY <3>1, <3>2, <1>1, <1>3 DEF Extend
    <3> QED
      BY <2>1, <3>3 DEF Faithful
  <2> QED
    BY <2>3, <2>4
<1> QED
  BY <1>2, <1>6, <1>7

(* After its CR a line has nothing but its LF left to send.                *)
LEMMA EolEndsLine ==
    ASSUME WireInv, RxEol
    PROVE  ~MidLine'
<1>1. tx_line \in Lines /\ Size[tx_line] \in Nat /\ (Cr \/ Lf) /\ NextChar
  BY LinesAssumption DEF WireInv, RxEol, AtEol
<1> QED
  BY <1>1 DEF NextChar, MidLine, Cr, Lf

(* After an end of line the assembly buffer is empty.                      *)
LEMMA EolFaithful ==
    ASSUME LinkInv, WireInv, RxEol
    PROVE  WireInv' /\ Faithful' /\ ~dirty'
<1>1. tx_line \in Lines /\ Size[tx_line] \in Nat /\ tx_char \in Nat /\ line_len \in Nat
  BY LinesAssumption DEF WireInv, LinkInv, RxEol, AtEol
<1>2. (Cr \/ Lf) /\ NextChar /\ tx_line # None /\ dirty' = FALSE
  BY DEF RxEol, AtEol
<1>3. line_len' = 0 /\ overlong' = FALSE
  <2>1. CASE line_complete
    <3>1. line_len' = 0
      BY <2>1 DEF line_complete, Overlong, Noise, Enqueue, Clear
    <3>2. overlong' = FALSE
      BY <2>1 DEF line_complete, Overlong, Noise, Enqueue, WireInv
    <3> QED
      BY <3>1, <3>2
  <2>2. CASE line_len = 0 /\ ~overlong /\ UNCHANGED isrVars
    BY <2>2 DEF isrVars, WireInv
  <2> QED
    BY <2>1, <2>2 DEF RxEol
<1>4. WireInv'
  BY <1>2, <1>3, NextCharInLine DEF WireInv
<1>5. ~MidLine'
  BY EolEndsLine
<1> QED
  BY <1>2, <1>3, <1>4, <1>5 DEF Faithful

LEMMA IngestStep == IngestInv /\ [Next]_vars => IngestInv'
<1> SUFFICES ASSUME IngestInv, [Next]_vars PROVE IngestInv'
  OBVIOUS
<1>1. LinkInv /\ WireInv /\ (~dirty => Faithful) /\ OnWire
  BY DEF IngestInv, WireInv, OnWire
<1>2. LinkInv'
  BY <1>1, LinkNext
<1>3. WireInv' /\ (~dirty' => Faithful')
  <2>1. ASSUME NEW l \in Lines, StartLine(l) PROVE WireInv' /\ (~dirty' => Faithful')
    <3>1. Size[l] \in Nat /\ Size[l] >= 1 /\ l # None
      BY LinesAssumption
    <3>2. /\ tx_line = None /\ tx_line' = l /\ tx_char' = 1
          /\ UNCHANGED <<line, line_len, overlong, dirty>>
      BY <2>1 DEF StartLine, isrVars
    <3>3. ~dirty => line_len = 0 /\ ~overlong
      BY <1>1, <3>2 DEF Faithful, MidLine
    <3>4. ~dirty' => Faithful'
      BY <3>1, <3>2, <3>3 DEF Faithful, MidLine
    <3>5. WireInv'
      BY <1>1, <3>1, <3>2 DEF WireInv
    <3> QED
      BY <3>4, <3>5
  <2>2. CASE LoseByte
    <3>1. tx_line # None /\ NextChar /\ dirty' = TRUE /\ UNCHANGED overlong
      BY <2>2 DEF LoseByte, isrVars
    <3> QED
      BY <3>1, <1>1, NextCharInLine DEF WireInv
  <2>3. CASE RxChar
    BY <2>3, <1>1, CharFaithful
  <2>4. CASE RxEol
    BY <2>4, <1>1, EolFaithful
  <2>5. CASE UNCHANGED <<wireVars, isrVars, dirty>>
    BY <2>5, <1>1 DEF wireVars, isrVars, WireInv, Faithful, MidLine
  <2>6. CASE Pop
    BY <2>5, <2>6 DEF Pop
  <2>7. CASE UNCHANGED vars
    BY <2>5, <2>7 DEF vars
  <2> QED
    BY <2>1, <2>2, <2>3, <2>4, <2>6, <2>7 DEF Next
<1> QED
  BY <1>2, <1>3 DEF IngestInv

LEMMA IngestAlways == Spec => []IngestInv
<1>1. Init => IngestInv
  <2> SUFFICES ASSUME Init PROVE IngestInv
    OBVIOUS
  <2>1. WireInv
    BY DEF Init, WireInv
  <2>2. Faithful
    BY DEF Init, Faithful, MidLine
  <2> QED
    BY <2>1, <2>2, LinkInit DEF IngestInv
<1> QED
  BY <1>1, IngestStep, PTL DEF Spec

(* The history variables and the counters only grow.                       *)
CountTypes ==
    /\ lines_ok \in Nat /\ lines_dropped \in Nat
    /\ sent \in Nat /\ lost \in Nat /\ arrived \in Nat

LEMMA CountTypesStep == CountTypes /\ [Next]_vars => CountTypes'
<1> SUFFICES ASSUME CountTypes, [Next]_vars PROVE CountTypes'
  OBVIOUS
<1>1. ASSUME NEW l \in Lines, StartLine(l) PROVE CountTypes'
  BY <1>1 DEF StartLine, CountTypes
<1>2. CASE LoseByte \/ RxChar
  BY <1>2 DEF LoseByte, RxChar, CountTypes
<1>3. CASE RxEol
  <2>1. lines_ok' \in Nat /\ lines_dropped' \in Nat
    BY <1>3 DEF RxEol, line_complete, Overlong, Noise, Enqueue, CountTypes
  <2> QED
    BY <1>3, <2>1 DEF RxEol, CountTypes
<1>4. CASE Pop
  BY <1>4 DEF Pop, CountTypes
<1>5. CASE UNCHANGED vars
  BY <1>5 DEF vars, CountTypes
<1> QED
  BY <1>1, <1>2, <1>3, <1>4, <1>5 DEF Next

(* Every variable keeps its type; for rb_used that is the fact that a pop  *)
(* never takes more bytes off the ring than uart_isr put into it.          *)
THEOREM IngestTyped == Spec => []TypeOK
<1>1. Init => RingInv /\ CountTypes
  <2> SUFFICES ASSUME Init PROVE RingInv /\ CountTypes
    OBVIOUS
  <2>1. CountTypes
    BY DEF Init, CountTypes
  <2>2. Len(rb) = 0 /\ rb_used = 0
    BY DEF Init
  <2> DEFINE left == [i \in 1 .. 1 |-> 0]
  <2>3. left \in [1 .. Len(rb) + 1 -> Nat] /\ Accounts(left, rb, rb_used)
    BY <2>2 DEF Accounts
  <2> QED
    BY <2>1, <2>3 DEF RingInv
<1>2. IngestInv /\ RingInv /\ CountTypes /\ [Next]_vars => (RingInv /\ CountTypes)'
  BY RingStep, CountTypesStep DEF IngestInv, WireInv, OnWire
<1>3. IngestInv /\ RingInv /\ CountTypes => TypeOK
  <2> SUFFICES ASSUME IngestInv, RingInv, CountTypes PROVE TypeOK
    OBVIOUS
  <2>1. rb_used \in Nat
    <3>1. PICK left \in [1 .. Len(rb) + 1 -> Nat] : Accounts(left, rb, rb_used)
      BY DEF RingInv
    <3>2. 1 \in 1 .. Len(rb) + 1
      BY DEF IngestInv, LinkInv
    <3> QED
      BY <3>1, <3>2 DEF Accounts
  <2>2. rb \in Seq([len : Nat, line : Lines \cup {Garbled}])
    BY DEF IngestInv, LinkInv, Entries
  <2> QED
    BY <2>1, <2>2 DEF IngestInv, LinkInv, WireInv, CountTypes, TypeOK
<1> QED
  BY <1>1, <1>2, <1>3, IngestAlways, PTL DEF Spec

(* An end of line counts its line, when that arrived entire and is         *)
(* telemetry: queued as received, or dropped, whatever the reason.         *)
LEMMA LossStep == IngestInv /\ CountTypes /\ LossCounted /\ [Next]_vars => LossCounted'
<1> SUFFICES ASSUME IngestInv, CountTypes, LossCounted, [Next]_vars PROVE LossCounted'
  OBVIOUS
<1>1. CASE RxEol
  <2>1. \/ UNCHANGED <<lines_ok, lines_dropped>>
        \/ lines_ok' = lines_ok + 1 /\ lines_dropped' = lines_dropped
        \/ lines_ok' = lines_ok /\ lines_dropped' = lines_dropped + 1
    BY <1>1 DEF RxEol, line_complete, Overlong, Noise, Enqueue
  <2>2. CASE arrived' = arrived
    BY <2>1, <2>2 DEF CountTypes, LossCounted
  <2>3. CASE arrived' # arrived
    <3>1. /\ arrived' = arrived + 1 /\ Cr /\ ~dirty /\ tx_line # None
          /\ tx_line \in Prefixed /\ Size[tx_line] > INGEST_PREFIX_LEN
      BY <1>1, <2>3 DEF RxEol, AtEol
    <3>2. /\ tx_line \in Lines /\ Size[tx_line] \in Nat \ {0} /\ tx_char \in Nat
          /\ line_len \in Nat /\ INGEST_PREFIX_LEN \in Nat
      BY <3>1, LinesAssumption, SizesAssumption DEF IngestInv, LinkInv, WireInv
    <3>3. MidLine
      BY <3>1, <3>2 DEF MidLine, Cr
    <3>4. overlong \/ (line_len = tx_char - 1 /\ (line_len > 0 => line = tx_line))
      BY <3>1, <3>3 DEF IngestInv, Faithful
    <3>5. overlong \/ (line_len > 0 /\ line_len > INGEST_PREFIX_LEN /\ line = tx_line)
      BY <3>1, <3>2, <3>4 DEF Cr
    <3>6. ~Noise
      BY <3>1, <3>2, <3>5 DEF Noise, MaybeNoise
    <3>7. line_complete
      BY <1>1, <3>2, <3>5 DEF RxEol
    <3>8. \/ lines_ok' = lines_ok + 1 /\ lines_dropped' = lines_dropped
          \/ lines_ok' = lines_ok /\ lines_dropped' = lines_dropped + 1
      BY <3>6, <3>7 DEF line_complete, Overlong, Enqueue
    <3> QED
      BY <3>1, <3>8 DEF CountTypes, LossCounted
  <2> QED
    BY <2>2, <2>3
<1>2. CASE Pop
  BY <1>2 DEF Pop, CountTypes, LossCounted
<1>3. CASE UNCHANGED <<lines_ok, lines_dropped, arrived>>
  BY <1>3 DEF LossCounted
<1>4. ASSUME NEW l \in Lines, StartLine(l) PROVE LossCounted'
  BY <1>3, <1>4 DEF StartLine
<1> QED
  BY <1>1, <1>2, <1>3, <1>4 DEF Next, LoseByte, RxChar, vars

(* "The drop counters record any overflow honestly": a telemetry line      *)
(* whose every byte uart_isr was given is counted, as received or as       *)
(* dropped, whatever came before it on the wire and however full the ring. *)
THEOREM LossIsCounted == Spec => []LossCounted
<1>1. Init => CountTypes /\ LossCounted
  BY DEF Init, CountTypes, LossCounted
<1> QED
  BY <1>1, IngestAlways, CountTypesStep, LossStep, PTL DEF Spec

(***************************************************************************)
(* The refinement.  Each step of the link is a step of the lossy line      *)
(* queue, with the line each entry of the ring came from.                  *)
(***************************************************************************)

Queued(s) == [i \in DOMAIN s |-> s[i].line]

LEMMA QueuedAppend ==
    ASSUME NEW s \in Seq(Entries), NEW e \in Entries
    PROVE  Queued(Append(s, e)) = Append(Queued(s), e.line)
<1> DEFINE q == Queued(s)
           t == Queued(Append(s, e))
           L == Lines \cup {Garbled}
<1>1. \A i \in 1 .. Len(s) : s[i].line \in L
  <2>1. \A i \in 1 .. Len(s) : s[i] \in Entries
    OBVIOUS
  <2> QED
    BY <2>1 DEF Entries
<1>2. e.line \in L
  BY DEF Entries
<1>3. q \in Seq(L) /\ Len(q) = Len(s) /\ \A i \in 1 .. Len(s) : q[i] = s[i].line
  BY <1>1 DEF Queued
<1>4. /\ Append(s, e) \in Seq(Entries) /\ Len(Append(s, e)) = Len(s) + 1
      /\ Append(s, e)[Len(s) + 1] = e /\ \A i \in 1 .. Len(s) : Append(s, e)[i] = s[i]
  OBVIOUS
<1>5. DOMAIN t = 1 .. Len(s) + 1 /\ t[Len(s) + 1] = e.line
      /\ \A i \in 1 .. Len(s) : t[i] = q[i]
  BY <1>3, <1>4 DEF Queued
<1>6. t \in [1 .. Len(s) + 1 -> L]
  <2>1. \A i \in 1 .. Len(s) + 1 : Append(s, e)[i] \in Entries
    BY <1>4
  <2> QED
    BY <2>1, <1>4 DEF Queued, Entries
<1>7. Len(s) + 1 \in Nat
  OBVIOUS
<1> HIDE DEF t, q, L
<1>8. t \in Seq(L) /\ Len(t) = Len(q) + 1
  BY <1>3, <1>6, <1>7
<1>9. Append(q, e.line) \in Seq(L) /\ Len(Append(q, e.line)) = Len(q) + 1
      /\ Append(q, e.line)[Len(q) + 1] = e.line
      /\ \A i \in 1 .. Len(q) : Append(q, e.line)[i] = q[i]
  BY <1>2, <1>3
<1>10. \A i \in 1 .. Len(q) + 1 : t[i] = Append(q, e.line)[i]
  <2> SUFFICES ASSUME NEW i \in 1 .. Len(q) + 1 PROVE t[i] = Append(q, e.line)[i]
    OBVIOUS
  <2>1. i = Len(q) + 1 \/ i \in 1 .. Len(q)
    BY <1>3
  <2> QED
    BY <2>1, <1>3, <1>5, <1>9
<1>11. t = Append(q, e.line)
  BY <1>8, <1>9, <1>10
<1> QED
  BY <1>11 DEF t, q

LEMMA QueuedTail ==
    ASSUME NEW s \in Seq(Entries), s # <<>>
    PROVE  Queued(s) # <<>> /\ Queued(Tail(s)) = Tail(Queued(s))
<1> DEFINE q == Queued(s)
           t == Queued(Tail(s))
           L == Lines \cup {Garbled}
<1>1. \A i \in 1 .. Len(s) : s[i].line \in L
  <2>1. \A i \in 1 .. Len(s) : s[i] \in Entries
    OBVIOUS
  <2> QED
    BY <2>1 DEF Entries
<1>2. q \in Seq(L) /\ Len(q) = Len(s) /\ \A i \in 1 .. Len(s) : q[i] = s[i].line
  BY <1>1 DEF Queued
<1>3. /\ Len(s) \in Nat /\ Len(s) >= 1
      /\ Tail(s) \in Seq(Entries) /\ Len(Tail(s)) = Len(s) - 1
      /\ \A i \in 1 .. Len(s) - 1 : Tail(s)[i] = s[i + 1]
  OBVIOUS
<1>4. t \in [1 .. Len(s) - 1 -> L] /\ \A i \in 1 .. Len(s) - 1 : t[i] = s[i + 1].line
  BY <1>1, <1>3 DEF Queued
<1> HIDE DEF t, q, L
<1>5. q # <<>>
  BY <1>2, <1>3
<1>6. t \in Seq(L) /\ Len(t) = Len(q) - 1
  <2>1. Len(s) \in Nat /\ Len(s) >= 1
    BY <1>3, Zenon
  <2>2. PICK m \in Nat : m = Len(s) - 1
    BY <2>1
  <2>3. t \in [1 .. m -> L]
    BY <1>4, <2>2, Zenon
  <2>4. t \in Seq(L) /\ Len(t) = m
    BY <2>3
  <2> QED
    BY <1>2, <2>2, <2>4
<1>7. Tail(q) \in Seq(L) /\ Len(Tail(q)) = Len(q) - 1
      /\ \A i \in 1 .. Len(q) - 1 : Tail(q)[i] = q[i + 1]
  BY <1>2, <1>3, <1>5
<1>8. \A i \in 1 .. Len(q) - 1 : t[i] = Tail(q)[i]
  BY <1>2, <1>3, <1>4, <1>7
<1>9. t = Tail(q)
  BY <1>6, <1>7, <1>8
<1> QED
  BY <1>5, <1>9 DEF t, q

(* A line that is queued came from the line on the wire, or bytes of it    *)
(* were lost: an undamaged one is never garbled.                           *)
LEMMA QueuedIsSent ==
    ASSUME IngestInv, AtEol, Enqueue
    PROVE  Assembled \in {tx_line} \cup (IF dirty THEN {Garbled} ELSE {})
<1>1. /\ tx_line \in Lines /\ Size[tx_line] \in Nat \ {0} /\ tx_char \in Nat
      /\ line_len \in Nat /\ INGEST_PREFIX_LEN \in Nat /\ ~overlong /\ line_len > 0
  BY LinesAssumption, SizesAssumption
     DEF IngestInv, LinkInv, WireInv, AtEol, Enqueue, MaybeTelemetry
<1>2. CASE dirty
  BY <1>2 DEF Assembled
<1>3. CASE ~dirty
  <2>1. Faithful
    BY <1>3 DEF IngestInv
  <2>2. MidLine
    BY <1>1, <2>1 DEF Faithful
  <2>3. tx_char = Size[tx_line] + 1
    BY <1>1, <2>2 DEF MidLine, AtEol, Cr, Lf
  <2>4. line_len = tx_char - 1 /\ line = tx_line
    BY <1>1, <2>1, <2>2 DEF Faithful
  <2>5. line_len = Size[tx_line]
    BY <1>1, <2>3, <2>4
  <2>6. Assembled = tx_line
    BY <2>4, <2>5 DEF Assembled
  <2> QED
    BY <2>6
<1> QED
  BY <1>2, <1>3

(* An end of line ends what the wire carries, as the next entry of the     *)
(* queue or as nothing.                                                    *)
LEMMA EolRefines ==
    ASSUME IngestInv, RxEol
    PROVE  Abstract!EndOfLine
<1>1. /\ tx_line \in Lines /\ Size[tx_line] \in Nat /\ tx_char \in Nat /\ tx_line # None
      /\ line_len \in Nat /\ AtEol /\ NextChar /\ dirty' = FALSE
  BY LinesAssumption DEF IngestInv, LinkInv, WireInv, RxEol, AtEol
<1>2. Faithful' /\ ~MidLine'
  BY EolFaithful, EolEndsLine DEF IngestInv
<1>3. OnTheWire' = None
  <2>1. line_len' = 0 /\ ~overlong'
    BY <1>2 DEF Faithful
  <2>2. tx_line' = None \/ Lf'
    BY <1>1 DEF NextChar, AtEol, Cr, Lf
  <2> QED
    BY <2>1, <2>2 DEF OnTheWire
<1>4. CASE UNCHANGED rb
  BY <1>1, <1>3, <1>4 DEF Abstract!EndOfLine
<1>5. CASE Enqueue /\ ~UNCHANGED rb
  <2> DEFINE e == [len |-> line_len - INGEST_PREFIX_LEN, line |-> Assembled]
  <2>1. rb' = Append(rb, e)
    BY <1>5 DEF Enqueue, ringVars
  <2>2. Assembled \in {tx_line} \cup (IF dirty THEN {Garbled} ELSE {})
    BY <1>1, <1>5, QueuedIsSent
  <2>3. e.line = Assembled /\ e \in Entries
    <3>1. line_len - INGEST_PREFIX_LEN \in Nat
      BY <1>1, <1>5, SizesAssumption DEF Enqueue, MaybeTelemetry
    <3>2. Assembled \in Lines \cup {Garbled}
      BY <1>1, <2>2
    <3> QED
      BY <3>1, <3>2 DEF Entries
  <2> HIDE DEF e
  <2>4. Queued(rb)' = Append(Queued(rb), Assembled)
    BY <2>1, <2>3, QueuedAppend DEF IngestInv, LinkInv, Queued
  <2>5. OnTheWire = tx_line
    <3>1. line_len > 0
      BY <1>1, <1>5, SizesAssumption DEF Enqueue, MaybeTelemetry
    <3> QED
      BY <1>1, <3>1 DEF OnTheWire
  <2> QED
    BY <1>1, <1>3, <2>2, <2>4, <2>5 DEF Abstract!EndOfLine, Abstract!Receivable, Queued
<1> QED
  BY <1>4, <1>5 DEF RxEol, line_complete, Overlong, Noise, ringVars

(* Every step is one of the lossy line queue, or one it does not see.      *)
LEMMA LinkRefines ==
    ASSUME IngestInv, [Next]_vars
    PROVE  [Abstract!Next]_<<OnTheWire, dirty, Queued(rb)>>
<1>1. ASSUME NEW l \in Lines, StartLine(l) PROVE Abstract!Send(l)
  <2>1. Size[l] \in Nat \ {0} /\ l # None
    BY LinesAssumption
  <2>2. /\ tx_line = None /\ tx_line' = l /\ tx_char' = 1
        /\ UNCHANGED <<dirty, rb>>
    BY <1>1 DEF StartLine, ringVars
  <2>3. OnTheWire = None /\ OnTheWire' = l
    BY <2>1, <2>2 DEF OnTheWire, Lf
  <2> QED
    BY <2>2, <2>3 DEF Abstract!Send
<1>2. CASE LoseByte
  <2>1. /\ tx_line # None /\ NextChar /\ dirty' = TRUE
        /\ UNCHANGED <<line_len, overlong, rb>>
    BY <1>2 DEF LoseByte, isrVars, ringVars
  <2>2. OnTheWire' \in {OnTheWire, None}
    BY <2>1 DEF NextChar, OnTheWire
  <2>3. Abstract!Damage
    BY <2>1, <2>2 DEF Abstract!Damage
  <2> QED
    BY <2>3 DEF Abstract!Next
<1>3. CASE RxChar
  <2>1. /\ tx_line # None /\ ~Cr /\ ~Lf /\ tx_line' = tx_line /\ tx_char' = tx_char + 1
        /\ UNCHANGED <<dirty, rb>>
    BY <1>3 DEF RxChar, AtEol, NextChar, ringVars
  <2>2. tx_line \in Lines /\ Size[tx_line] \in Nat /\ tx_char \in Nat
    BY <2>1, LinesAssumption DEF IngestInv, WireInv
  <2>3. ~Lf'
    BY <2>1, <2>2 DEF Cr, Lf
  <2>4. OnTheWire' = OnTheWire
    BY <2>1, <2>3 DEF OnTheWire
  <2> QED
    BY <2>1, <2>4 DEF Queued
<1>4. CASE RxEol
  BY <1>4, EolRefines DEF Abstract!Next
<1>5. CASE Pop
  <2>1. rb # <<>> /\ rb' = Tail(rb) /\ UNCHANGED <<dirty, wireVars, isrVars>>
    BY <1>5 DEF Pop
  <2>2. OnTheWire' = OnTheWire
    BY <2>1 DEF wireVars, isrVars, OnTheWire, Lf
  <2>3. Queued(rb) # <<>> /\ Queued(rb)' = Tail(Queued(rb))
    BY <2>1, QueuedTail DEF IngestInv, LinkInv, Queued
  <2>4. Abstract!Receive
    BY <2>1, <2>2, <2>3 DEF Abstract!Receive, Queued
  <2> QED
    BY <2>4 DEF Abstract!Next
<1>6. CASE UNCHANGED vars
  BY <1>6 DEF vars, wireVars, isrVars, ringVars, OnTheWire, Lf, Queued
<1> QED
  BY <1>1, <1>2, <1>3, <1>4, <1>5, <1>6 DEF Next, Abstract!Next

(* A link is a lossy line queue, for every set of lines and size of the    *)
(* buffers: whole lines reach the main loop in the order sent and at most  *)
(* once, and what else it sees is garbled in place of one that lost bytes. *)
THEOREM LinkIsLossyLine == Spec => ImplementsLossyLine
<1>1. Init => Abstract!Init
  <2> SUFFICES ASSUME Init PROVE Abstract!Init
    OBVIOUS
  <2>1. OnTheWire = None /\ dirty = FALSE
    BY DEF Init, OnTheWire
  <2>2. Queued(rb) = <<>>
    BY DEF Init, Queued
  <2> QED
    BY <2>1, <2>2 DEF Abstract!Init, Queued
<1>2. IngestInv /\ [Next]_vars =>
          [Abstract!Next]_<<OnTheWire, dirty, [i \in DOMAIN rb |-> rb[i].line]>>
  BY LinkRefines DEF Queued
<1> QED
  BY <1>1, <1>2, IngestAlways, PTL DEF Spec, ImplementsLossyLine, Abstract!Spec
=============================================================================
