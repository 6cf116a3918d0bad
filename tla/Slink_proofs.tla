---------------------------- MODULE Slink_proofs ----------------------------
(***************************************************************************)
(* Proofs about neorv32_slink for every depth of the RX FIFO: no word of a *)
(* stream is lost, repeated or overtaken.  What the FIFOs do is taken from *)
(* PrimFifo_proofs; what is added here is the numbering of the words, the  *)
(* bus and the software that polls before it reads.                        *)
(***************************************************************************)
EXTENDS Slink, SequenceTheorems, TLAPS

TXP == INSTANCE PrimFifo_proofs WITH Data <- Word, Depth <- TxDepth, w_pnt <- tx_w,
         r_pnt <- tx_r, fifo <- tx_fifo, rdata <- tx_rdata, avail <- tx_avail
RXP == INSTANCE PrimFifo_proofs WITH Data <- Word, Depth <- RxDepth, w_pnt <- rx_w,
         r_pnt <- rx_r, fifo <- rx_fifo, rdata <- rx_rdata, avail <- rx_avail

-----------------------------------------------------------------------------
\* Words are numbered around a circle.

\* The word i places after the first.
Nth(first, i) == IF first + i < Words THEN first + i ELSE first + i - Words

LEMMA SuccForm ==
  ASSUME NEW a \in Word
  PROVE  Succ(a) \in Word /\ Succ(a) = IF a + 1 = Words THEN 0 ELSE a + 1
BY SlinkAssumption DEF Succ, Word

LEMMA BetweenForm ==
  ASSUME NEW a \in Word, NEW b \in Word
  PROVE  /\ Between(a, b) \in Nat /\ Between(a, b) < Words
         /\ b >= a => Between(a, b) = b - a
         /\ b < a => Between(a, b) = b - a + Words
BY SlinkAssumption DEF Between, Word

\* One step at either end changes the distance by one, and the last word
\* before next is as far from the first as there are words.
LEMMA BetweenSteps ==
  ASSUME NEW f \in Word, NEW n \in Word
  PROVE  /\ Nth(f, 0) = f
         /\ Nth(f, Between(f, n)) = n
         /\ Between(f, n) + 1 < Words => Between(f, Succ(n)) = Between(f, n) + 1
         /\ Between(f, n) > 0 => Between(Succ(f), n) = Between(f, n) - 1
         /\ \A i \in Nat : i + 1 < Words => Nth(Succ(f), i) = Nth(f, i + 1)
<1> USE SlinkAssumption
<1> DEFINE d == Between(f, n)
           nn == Succ(n)
           ff == Succ(f)
<1>1. /\ d \in Nat /\ d < Words
      /\ n >= f => d = n - f
      /\ n < f => d = n - f + Words
  BY BetweenForm
<1>2. /\ nn \in Word /\ nn = IF n + 1 = Words THEN 0 ELSE n + 1
      /\ ff \in Word /\ ff = IF f + 1 = Words THEN 0 ELSE f + 1
  BY SuccForm
<1>3. /\ nn >= f => Between(f, nn) = nn - f
      /\ nn < f => Between(f, nn) = nn - f + Words
      /\ n >= ff => Between(ff, n) = n - ff
      /\ n < ff => Between(ff, n) = n - ff + Words
  BY <1>2, BetweenForm
<1>4. f \in 0 .. Words - 1 /\ n \in 0 .. Words - 1
  BY DEF Word
<1> HIDE DEF d, nn, ff
<1>5. Nth(f, 0) = f /\ Nth(f, d) = n
  BY <1>1, <1>4 DEF Nth
<1>6. d + 1 < Words => Between(f, nn) = d + 1
  BY <1>1, <1>2, <1>3, <1>4
<1>7. d > 0 => Between(ff, n) = d - 1
  BY <1>1, <1>2, <1>3, <1>4
<1>8. ASSUME NEW i \in Nat, i + 1 < Words PROVE Nth(ff, i) = Nth(f, i + 1)
  BY <1>2, <1>4, <1>8 DEF Nth
<1>9. QED BY <1>5, <1>6, <1>7, <1>8 DEF d, nn, ff

\* A queue that holds the words from the first to the one before next.
Holds(q, first, next) ==
  /\ q \in Seq(Word)
  /\ Len(q) = Between(first, next)
  /\ \A i \in 1 .. Len(q) : q[i] = Nth(first, i - 1)

LEMMA HoldsNone ==
  ASSUME NEW n \in Word
  PROVE  Holds(<< >>, n, n)
<1>1. Between(n, n) = 0
  BY BetweenForm DEF Word
<1>2. QED BY <1>1 DEF Holds

\* A word that enters is the next one.
LEMMA HoldsPut ==
  ASSUME NEW q, NEW f \in Word, NEW n \in Word, Holds(q, f, n),
         Len(q) + 1 < Words
  PROVE  Holds(Append(q, n), f, Succ(n))
<1> DEFINE p == Append(q, n)
<1>1. /\ p \in Seq(Word) /\ Len(q) \in Nat /\ Len(p) = Len(q) + 1
      /\ p[Len(p)] = n
      /\ \A i \in 1 .. Len(q) : p[i] = q[i]
  BY AppendProperties, LenProperties DEF Holds
<1>2. Between(f, n) = Len(q)
  BY DEF Holds
<1>3. n = Nth(f, Len(q))
  BY <1>2, BetweenSteps
<1>4. Between(f, Succ(n)) = Len(q) + 1
  BY <1>2, BetweenSteps
<1>5. ASSUME NEW i \in 1 .. Len(p) PROVE p[i] = Nth(f, i - 1)
  <2>1. CASE i \in 1 .. Len(q)
    BY <2>1, <1>1 DEF Holds
  <2>2. CASE i = Len(p)
    BY <2>2, <1>1, <1>3
  <2>3. QED BY <1>1, <2>1, <2>2
<1>6. QED BY <1>1, <1>4, <1>5 DEF Holds

\* A word that leaves is the first one.
LEMMA HoldsTake ==
  ASSUME NEW q, NEW f \in Word, NEW n \in Word, Holds(q, f, n), q /= << >>
  PROVE  q[1] = f /\ Holds(Tail(q), Succ(f), n) /\ Len(Tail(q)) = Len(q) - 1
<1> DEFINE p == Tail(q)
<1>1. /\ q \in Seq(Word) /\ Len(q) \in Nat /\ Len(q) > 0
      /\ p \in Seq(Word) /\ Len(p) = Len(q) - 1
      /\ \A i \in 1 .. Len(p) : p[i] = q[i + 1]
  BY HeadTailProperties, EmptySeq, LenProperties DEF Holds
<1>2. Between(f, n) = Len(q)
  BY DEF Holds
<1>3. Between(Succ(f), n) = Len(q) - 1
  BY <1>1, <1>2, BetweenSteps
<1>4. q[1] = f
  <2>1. q[1] = Nth(f, 1 - 1)
    BY <1>1 DEF Holds
  <2>2. QED BY <2>1, BetweenSteps
<1>5. ASSUME NEW i \in 1 .. Len(p) PROVE p[i] = Nth(Succ(f), i - 1)
  <2>1. i + 1 \in 1 .. Len(q) /\ (i + 1) - 1 = i
    BY <1>1
  <2>2. p[i] = Nth(f, i)
    BY <1>1, <2>1 DEF Holds
  <2>3. Len(q) < Words
    BY <1>2, BetweenForm
  <2>4. i - 1 \in Nat /\ (i - 1) + 1 = i /\ (i - 1) + 1 < Words
    BY <1>1, <2>3, SlinkAssumption
  <2>5. QED BY <2>2, <2>4, BetweenSteps
<1>6. QED BY <1>1, <1>3, <1>4, <1>5 DEF Holds

-----------------------------------------------------------------------------
\* The FIFOs, from the proofs about them.

\* The RX FIFO: the proofs' view of the instance is the component's.
LEMMA RxSame ==
  /\ RXP!Contents = RX!Contents /\ (RXP!Contents)' = (RX!Contents)'
  /\ (RXP!full <=> RX!full) /\ (RXP!empty <=> RX!empty)
  /\ (RXP!avail_o <=> RX!avail_o) /\ (RXP!avail_o)' = (RX!avail_o)'
  /\ RXP!rdata_o = RX!rdata_o /\ (RXP!rdata_o)' = (RX!rdata_o)'
  /\ \A c, we, re \in BOOLEAN, d \in Word :
       RX!Clock(c, we, d, re) => RXP!Clock(c, we, d, re)
BY DEF RXP!Contents, RX!Contents, RXP!Occupancy, RX!Occupancy, RXP!Ahead,
   RX!Ahead, RXP!Address, RX!Address, RXP!full, RX!full, RXP!empty, RX!empty,
   RXP!match, RX!match, RXP!WrapBit, RX!WrapBit, RXP!avail_o, RX!avail_o,
   RXP!rdata_o, RX!rdata_o, RXP!Clock, RX!Clock, RXP!Edge, RX!Edge,
   RXP!NextPointer, RX!NextPointer, RXP!Increment, RX!Increment

LEMMA RxFlags ==
  ASSUME RXP!IInv
  PROVE  /\ RX!Contents \in Seq(Word) /\ Len(RX!Contents) <= RxDepth
         /\ RX!empty <=> RX!Contents = << >>
         /\ RxDepth = 1 /\ RX!Contents /= << >> => RX!rdata_o = RX!Contents[1]
<1>1. RXP!DepthAssumption
  BY SlinkAssumption DEF RXP!DepthAssumption
<1>2. QED BY <1>1, RXP!ContentsFlags, RxSame

LEMMA RxClock ==
  ASSUME RXP!IInv, NEW c \in BOOLEAN, NEW we \in BOOLEAN, NEW d \in Word,
         NEW re \in BOOLEAN, RX!Clock(c, we, d, re)
  PROVE  /\ RXP!IInv'
         /\ c => RX!Contents' = << >>
         /\ ~c => LET in  == we /\ ~RX!full
                      out == re /\ ~RX!empty
                  IN  /\ out => RX!Contents /= << >>
                      /\ in  => Len(RX!Contents) < RxDepth
                      /\ ~in /\ ~out => RX!Contents' = RX!Contents
                      /\  in /\ ~out => RX!Contents' = Append(RX!Contents, d)
                      /\ ~in /\  out => RX!Contents' = Tail(RX!Contents)
                      /\  in /\  out => RX!Contents' = Append(Tail(RX!Contents), d)
         /\ ~c /\ ~(re /\ ~RX!empty) =>
              /\ RX!avail_o' => RX!Contents' /= << >> /\ RX!rdata_o' = RX!Contents'[1]
              /\ RX!Contents /= << >> =>
                   /\ RX!Contents' /= << >>
                   /\ RX!Contents'[1] = RX!Contents[1]
                   /\ RX!rdata_o' = RX!Contents'[1]
<1>1. RXP!DepthAssumption
  BY SlinkAssumption DEF RXP!DepthAssumption
<1>2. RXP!Clock(c, we, d, re)
  BY RxSame
<1>3. RXP!IInv'
  BY <1>1, <1>2, RXP!EdgeInv
<1>4. CASE c
  BY <1>1, <1>2, <1>3, <1>4, RXP!ContentsStep, RxSame
<1>5. CASE ~c
  <2>1. RXP!Clock(FALSE, we, d, re)
    BY <1>2, <1>5
  <2>2. LET in  == we /\ ~RXP!full
            out == re /\ ~RXP!empty
        IN  /\ out => RXP!Contents /= << >>
            /\ in  => Len(RXP!Contents) < RxDepth
            /\ ~in /\ ~out => RXP!Contents' = RXP!Contents
            /\  in /\ ~out => RXP!Contents' = Append(RXP!Contents, d)
            /\ ~in /\  out => RXP!Contents' = Tail(RXP!Contents)
            /\  in /\  out => RXP!Contents' = Append(Tail(RXP!Contents), d)
    BY <1>1, <1>2, <1>3, <1>5, RXP!ContentsStep
  <2>3. ~(re /\ ~RXP!empty) =>
           /\ RXP!avail_o' => RXP!Contents' /= << >> /\ RXP!rdata_o' = RXP!Contents'[1]
           /\ RXP!Contents /= << >> =>
                /\ RXP!Contents' /= << >>
                /\ RXP!Contents'[1] = RXP!Contents[1]
                /\ RXP!rdata_o' = RXP!Contents'[1]
    BY <1>1, <1>3, <2>1, RXP!HeadStep
  <2>4. QED BY <1>3, <1>5, <2>2, <2>3, RxSame
<1>6. QED BY <1>4, <1>5

\* The TX FIFO: the proofs' view of the instance is the component's.
LEMMA TxSame ==
  /\ TXP!Contents = TX!Contents /\ (TXP!Contents)' = (TX!Contents)'
  /\ (TXP!full <=> TX!full) /\ (TXP!empty <=> TX!empty)
  /\ (TXP!avail_o <=> TX!avail_o) /\ (TXP!avail_o)' = (TX!avail_o)'
  /\ TXP!rdata_o = TX!rdata_o /\ (TXP!rdata_o)' = (TX!rdata_o)'
  /\ \A c, we, re \in BOOLEAN, d \in Word :
       TX!Clock(c, we, d, re) => TXP!Clock(c, we, d, re)
BY DEF TXP!Contents, TX!Contents, TXP!Occupancy, TX!Occupancy, TXP!Ahead,
   TX!Ahead, TXP!Address, TX!Address, TXP!full, TX!full, TXP!empty, TX!empty,
   TXP!match, TX!match, TXP!WrapBit, TX!WrapBit, TXP!avail_o, TX!avail_o,
   TXP!rdata_o, TX!rdata_o, TXP!Clock, TX!Clock, TXP!Edge, TX!Edge,
   TXP!NextPointer, TX!NextPointer, TXP!Increment, TX!Increment

LEMMA TxFlags ==
  ASSUME TXP!IInv
  PROVE  /\ TX!Contents \in Seq(Word) /\ Len(TX!Contents) <= TxDepth
         /\ TX!empty <=> TX!Contents = << >>
         /\ TxDepth = 1 /\ TX!Contents /= << >> => TX!rdata_o = TX!Contents[1]
<1>1. TXP!DepthAssumption
  BY SlinkAssumption DEF TXP!DepthAssumption
<1>2. QED BY <1>1, TXP!ContentsFlags, TxSame

LEMMA TxClock ==
  ASSUME TXP!IInv, NEW c \in BOOLEAN, NEW we \in BOOLEAN, NEW d \in Word,
         NEW re \in BOOLEAN, TX!Clock(c, we, d, re)
  PROVE  /\ TXP!IInv'
         /\ c => TX!Contents' = << >>
         /\ ~c => LET in  == we /\ ~TX!full
                      out == re /\ ~TX!empty
                  IN  /\ out => TX!Contents /= << >>
                      /\ in  => Len(TX!Contents) < TxDepth
                      /\ ~in /\ ~out => TX!Contents' = TX!Contents
                      /\  in /\ ~out => TX!Contents' = Append(TX!Contents, d)
                      /\ ~in /\  out => TX!Contents' = Tail(TX!Contents)
                      /\  in /\  out => TX!Contents' = Append(Tail(TX!Contents), d)
         /\ ~c /\ ~(re /\ ~TX!empty) =>
              /\ TX!avail_o' => TX!Contents' /= << >> /\ TX!rdata_o' = TX!Contents'[1]
              /\ TX!Contents /= << >> =>
                   /\ TX!Contents' /= << >>
                   /\ TX!Contents'[1] = TX!Contents[1]
                   /\ TX!rdata_o' = TX!Contents'[1]
<1>1. TXP!DepthAssumption
  BY SlinkAssumption DEF TXP!DepthAssumption
<1>2. TXP!Clock(c, we, d, re)
  BY TxSame
<1>3. TXP!IInv'
  BY <1>1, <1>2, TXP!EdgeInv
<1>4. CASE c
  BY <1>1, <1>2, <1>3, <1>4, TXP!ContentsStep, TxSame
<1>5. CASE ~c
  <2>1. TXP!Clock(FALSE, we, d, re)
    BY <1>2, <1>5
  <2>2. LET in  == we /\ ~TXP!full
            out == re /\ ~TXP!empty
        IN  /\ out => TXP!Contents /= << >>
            /\ in  => Len(TXP!Contents) < TxDepth
            /\ ~in /\ ~out => TXP!Contents' = TXP!Contents
            /\  in /\ ~out => TXP!Contents' = Append(TXP!Contents, d)
            /\ ~in /\  out => TXP!Contents' = Tail(TXP!Contents)
            /\  in /\  out => TXP!Contents' = Append(Tail(TXP!Contents), d)
    BY <1>1, <1>2, <1>3, <1>5, TXP!ContentsStep
  <2>3. ~(re /\ ~TXP!empty) =>
           /\ TXP!avail_o' => TXP!Contents' /= << >> /\ TXP!rdata_o' = TXP!Contents'[1]
           /\ TXP!Contents /= << >> =>
                /\ TXP!Contents' /= << >>
                /\ TXP!Contents'[1] = TXP!Contents[1]
                /\ TXP!rdata_o' = TXP!Contents'[1]
    BY <1>1, <1>3, <2>1, TXP!HeadStep
  <2>4. QED BY <1>3, <1>5, <2>2, <2>3, TxSame
<1>6. QED BY <1>4, <1>5

-----------------------------------------------------------------------------
\* The inductive invariant.

\* The oldest word of the RX FIFO is on its output.
HeadShown == RX!Contents /= << >> /\ RX!rdata_o = RX!Contents[1]

\* An access is answered one clock later, and only then may the next one be
\* made; software reads only what it has seen announced.
BusInv ==
  /\ enable \in BOOLEAN /\ rx_valid \in BOOLEAN /\ tx_ready \in BOOLEAN
  /\ bus \in {Idle} \cup WriteCtrl \cup Simple
  /\ bus /= Idle => ~ack
  /\ bus.op = "read_data" => polled

\* The words held are those between the two ends.  The clock after an access
\* the output may still show a word already read, otherwise avail_o announces
\* the oldest word; once software has seen that, it stays so until it reads.
RxInv ==
  /\ RXP!IInv /\ rx_next \in Word /\ rx_due \in Word
  /\ enable => Holds(RX!Contents, rx_due, rx_next)
  /\ enable /\ ~ack /\ RX!avail_o => HeadShown
  /\ enable /\ polled => HeadShown

TxInv ==
  /\ TXP!IInv /\ tx_next \in Word /\ tx_due \in Word
  /\ enable => Holds(TX!Contents, tx_due, tx_next)

LEMMA BusOpOfIdle ==
  ASSUME BusInv
  PROVE  /\ bus = Idle <=> bus.op = "idle"
         /\ bus.op \in {"idle", "write_ctrl", "read_ctrl", "read_data", "write_data"}
         /\ bus.op = "write_ctrl" => bus.enable \in BOOLEAN
<1>1. CASE bus = Idle
  BY <1>1 DEF Idle
<1>2. CASE bus \in WriteCtrl
  BY <1>2 DEF WriteCtrl, Idle
<1>3. CASE bus \in Simple
  <2>1. bus.op \in BusOps
    BY <1>3 DEF Simple
  <2>2. bus.op \in {"read_ctrl", "read_data", "write_data"}
    BY <2>1, SlinkAssumption
  <2>3. bus = Idle => bus.op = "idle"
    BY DEF Idle
  <2>4. QED BY <2>2, <2>3
<1>4. QED BY <1>1, <1>2, <1>3 DEF BusInv

LEMMA BusStep ==
  ASSUME BusInv, Clock
  PROVE  BusInv'
<1>1. enable' \in BOOLEAN
  BY BusOpOfIdle DEF Clock, BusAccess, BusInv
<1>2. rx_valid' \in BOOLEAN /\ tx_ready' \in BOOLEAN
  BY DEF Clock, Environment
<1>3. /\ bus' \in {Idle} \cup WriteCtrl \cup Simple
      /\ bus' /= Idle => ~ack'
      /\ bus'.op = "read_data" => polled'
  BY DEF Clock, Environment
<1>4. QED BY <1>1, <1>2, <1>3 DEF BusInv, Idle, WriteCtrl, Simple

\* A word that software reads is there and is the oldest one.
LEMMA ReadsHead ==
  ASSUME BusInv, RxInv, enable, rx_fifo_re
  PROVE  HeadShown /\ ~RX!empty
<1>1. HeadShown
  BY DEF BusInv, RxInv, rx_fifo_re
<1>2. QED BY <1>1, RxFlags DEF HeadShown, RxInv

LEMMA RxStep ==
  ASSUME BusInv, RxInv, Clock
  PROVE  RxInv'
<1> DEFINE C == RX!Contents
<1>1. RX!Clock(~enable, rx_valid, rx_next, rx_fifo_re)
  BY DEF Clock, Fifos
<1>2. /\ RXP!IInv /\ rx_next \in Word /\ rx_due \in Word
      /\ enable \in BOOLEAN /\ rx_valid \in BOOLEAN /\ rx_fifo_re \in BOOLEAN
  BY DEF RxInv, BusInv, rx_fifo_re
<1>3. /\ Succ(rx_next) \in Word /\ Succ(rx_due) \in Word
  BY <1>2, SuccForm
<1>4. RXP!IInv'
  BY <1>1, <1>2, RxClock
<1>5. rx_next' \in Word /\ rx_due' \in Word
  BY <1>2, <1>3 DEF Clock, Bookkeeping
<1>6. CASE ~enable
  <2>1. C' = << >>
    BY <1>1, <1>2, <1>6, RxClock
  <2>2. rx_due' = rx_next'
    BY <1>6 DEF Clock, Bookkeeping
  <2>3. Holds(C', rx_due', rx_next')
    BY <1>5, <2>1, <2>2, HoldsNone
  <2>4. enable' => bus.op = "write_ctrl"
    BY <1>6 DEF Clock, BusAccess
  <2>5. enable' => ack' /\ ~polled'
    BY <2>4, BusOpOfIdle DEF Clock, BusAccess, Bookkeeping
  <2>6. QED BY <1>4, <1>5, <2>3, <2>5 DEF RxInv, Holds
<1>7. CASE enable
  <2> DEFINE in  == rx_valid /\ ~RX!full
             out == rx_fifo_re /\ ~RX!empty
  <2>1. /\ out => C /= << >>
        /\ in  => Len(C) < RxDepth
        /\ ~in /\ ~out => C' = C
        /\  in /\ ~out => C' = Append(C, rx_next)
        /\ ~in /\  out => C' = Tail(C)
        /\  in /\  out => C' = Append(Tail(C), rx_next)
    BY <1>1, <1>2, <1>7, RxClock
  <2>2. /\ rx_next' = IF in THEN Succ(rx_next) ELSE rx_next
        /\ rx_due'  = IF out THEN Succ(rx_due) ELSE rx_due
    BY <1>7, ReadsHead DEF Clock, Bookkeeping, RxTransfer, slink_rx_ready_o, RX!free_o
  <2>3. Holds(C, rx_due, rx_next) /\ Len(C) \in Nat
    BY <1>7, LenProperties DEF RxInv, Holds
  <2>4. in => Len(C) + 1 < Words
    BY <2>1, <2>3, SlinkAssumption
  <2>5. Holds(C', rx_due', rx_next')
    <3> HIDE DEF in, out, C
    <3>1. CASE ~in /\ ~out
      BY <3>1, <2>1, <2>2, <2>3
    <3>2. CASE in /\ ~out
      BY <3>2, <2>1, <2>2, <2>3, <2>4, <1>2, HoldsPut
    <3>3. CASE ~in /\ out
      <4>1. Holds(Tail(C), Succ(rx_due), rx_next)
        BY <3>3, <2>1, <2>3, <1>2, HoldsTake
      <4>2. QED BY <3>3, <4>1, <2>1, <2>2
    <3>4. CASE in /\ out
      <4>1. Holds(Tail(C), Succ(rx_due), rx_next) /\ Len(Tail(C)) = Len(C) - 1
        BY <3>4, <2>1, <2>3, <1>2, HoldsTake
      <4>2. Len(Tail(C)) + 1 < Words
        BY <3>4, <4>1, <2>3, <2>4, SlinkAssumption
      <4>3. Holds(Append(Tail(C), rx_next), Succ(rx_due), Succ(rx_next))
        BY <4>1, <4>2, <1>2, <1>3, HoldsPut
      <4>4. QED BY <3>4, <4>3, <2>1, <2>2
    <3>5. QED BY <3>1, <3>2, <3>3, <3>4
  <2>6. ~out => /\ RX!avail_o' => HeadShown'
                /\ HeadShown => HeadShown'
    BY <1>1, <1>2, <1>7, RxClock DEF HeadShown
  <2>7. ~ack' => ~out
    BY BusOpOfIdle DEF Clock, BusAccess, rx_fifo_re
  <2>8. polled' => HeadShown'
    <3>1. CASE bus.op = "read_ctrl"
      <4>1. polled' = RX!avail_o
        BY <3>1 DEF Clock, Bookkeeping
      <4>2. ~ack /\ ~out
        BY <3>1, BusOpOfIdle DEF BusInv, rx_fifo_re
      <4>3. QED BY <4>1, <4>2, <2>6, <1>7 DEF RxInv
    <3>2. CASE bus.op \in {"read_data", "write_ctrl"}
      BY <3>2 DEF Clock, Bookkeeping
    <3>3. CASE bus.op \in {"idle", "write_data"}
      <4>1. polled' = polled /\ ~out
        BY <3>3 DEF Clock, Bookkeeping, rx_fifo_re
      <4>2. QED BY <4>1, <2>6, <1>7 DEF RxInv
    <3>4. QED BY <3>1, <3>2, <3>3, BusOpOfIdle
  <2>9. QED BY <1>4, <1>5, <2>5, <2>6, <2>7, <2>8 DEF RxInv, Holds
<1>8. QED BY <1>2, <1>6, <1>7

\* With a single entry a word is offered whenever there is one, and a transfer
\* is a read of the FIFO.
LEMMA TxSingle ==
  ASSUME TxDepth = 1, TXP!IInv
  PROVE  /\ slink_tx_valid_o <=> ~TX!empty
         /\ slink_tx_valid_o <=> TX!Contents /= << >>
         /\ slink_tx_valid_o => slink_tx_data_o = TX!Contents[1]
BY TxFlags DEF slink_tx_valid_o, slink_tx_data_o, TX!avail_o

LEMMA TxValid ==
  TxDepth = 1 /\ TXP!IInv => (slink_tx_valid_o <=> TX!Contents /= << >>)
BY TxSingle

LEMMA TxStep ==
  ASSUME TxDepth = 1, BusInv, TxInv, Clock
  PROVE  TxInv'
<1> DEFINE C == TX!Contents
<1>1. TX!Clock(~enable, tx_fifo_we, tx_next, tx_ready)
  BY DEF Clock, Fifos
<1>2. /\ TXP!IInv /\ tx_next \in Word /\ tx_due \in Word
      /\ enable \in BOOLEAN /\ tx_ready \in BOOLEAN /\ tx_fifo_we \in BOOLEAN
  BY DEF TxInv, BusInv, tx_fifo_we
<1>3. /\ Succ(tx_next) \in Word /\ Succ(tx_due) \in Word
  BY <1>2, SuccForm
<1>4. TXP!IInv'
  BY <1>1, <1>2, TxClock
<1>5. tx_next' \in Word /\ tx_due' \in Word
  BY <1>2, <1>3 DEF Clock, Bookkeeping
<1>6. CASE ~enable
  <2>1. C' = << >>
    BY <1>1, <1>2, <1>6, TxClock
  <2>2. tx_due' = tx_next'
    BY <1>6 DEF Clock, Bookkeeping
  <2>3. Holds(C', tx_due', tx_next')
    BY <1>5, <2>1, <2>2, HoldsNone
  <2>4. QED BY <1>4, <1>5, <2>3 DEF TxInv, Holds
<1>7. CASE enable
  <2> DEFINE in  == tx_fifo_we /\ ~TX!full
             out == tx_ready /\ ~TX!empty
  <2>1. /\ out => C /= << >>
        /\ in  => Len(C) < TxDepth
        /\ ~in /\ ~out => C' = C
        /\  in /\ ~out => C' = Append(C, tx_next)
        /\ ~in /\  out => C' = Tail(C)
        /\  in /\  out => C' = Append(Tail(C), tx_next)
    BY <1>1, <1>2, <1>7, TxClock
  <2>2. /\ tx_next' = IF in THEN Succ(tx_next) ELSE tx_next
        /\ tx_due'  = IF out THEN Succ(tx_due) ELSE tx_due
    BY <1>2, <1>7, TxSingle DEF Clock, Bookkeeping, TxTransfer, TX!free_o
  <2>3. Holds(C, tx_due, tx_next) /\ Len(C) \in Nat
    BY <1>7, LenProperties DEF TxInv, Holds
  <2>4. in => Len(C) + 1 < Words
    BY <2>1, <2>3, SlinkAssumption
  <2>5. Holds(C', tx_due', tx_next')
    <3> HIDE DEF in, out, C
    <3>1. CASE ~in /\ ~out
      BY <3>1, <2>1, <2>2, <2>3
    <3>2. CASE in /\ ~out
      BY <3>2, <2>1, <2>2, <2>3, <2>4, <1>2, HoldsPut
    <3>3. CASE ~in /\ out
      <4>1. Holds(Tail(C), Succ(tx_due), tx_next)
        BY <3>3, <2>1, <2>3, <1>2, HoldsTake
      <4>2. QED BY <3>3, <4>1, <2>1, <2>2
    <3>4. CASE in /\ out
      <4>1. Holds(Tail(C), Succ(tx_due), tx_next) /\ Len(Tail(C)) = Len(C) - 1
        BY <3>4, <2>1, <2>3, <1>2, HoldsTake
      <4>2. Len(Tail(C)) + 1 < Words
        BY <3>4, <4>1, <2>3, <2>4, SlinkAssumption
      <4>3. Holds(Append(Tail(C), tx_next), Succ(tx_due), Succ(tx_next))
        BY <4>1, <4>2, <1>2, <1>3, HoldsPut
      <4>4. QED BY <3>4, <4>3, <2>1, <2>2
    <3>5. QED BY <3>1, <3>2, <3>3, <3>4
  <2>6. QED BY <1>4, <1>5, <2>5 DEF TxInv, Holds
<1>8. QED BY <1>2, <1>6, <1>7

-----------------------------------------------------------------------------
\* The invariants of the specification.

LEMMA FifosStart ==
  ASSUME Init
  PROVE  /\ RXP!IInv /\ RX!Contents = << >>
         /\ TXP!IInv /\ TX!Contents = << >>
<1>1. RXP!DepthAssumption /\ TXP!DepthAssumption
  BY SlinkAssumption DEF RXP!DepthAssumption, TXP!DepthAssumption
<1>2. 0 \in Word
  BY SlinkAssumption DEF Word
<1>3. RXP!Init /\ TXP!Init
  BY <1>2 DEF Init, RXP!Init, RX!Init, RXP!Addresses, RX!Addresses,
     TXP!Init, TX!Init, TXP!Addresses, TX!Addresses
<1>4. RXP!IInv /\ TXP!IInv
  BY <1>1, <1>3, RXP!InitInv, TXP!InitInv
<1>5. RX!empty /\ TX!empty
  BY SlinkAssumption DEF Init, RX!Init, RX!empty, RX!match,
     TX!Init, TX!empty, TX!match
<1>6. QED BY <1>4, <1>5, RxFlags, TxFlags

LEMMA InitInv == Init => BusInv /\ RxInv /\ TxInv
<1> SUFFICES ASSUME Init PROVE BusInv /\ RxInv /\ TxInv
  OBVIOUS
<1>1. 0 \in Word
  BY SlinkAssumption DEF Word
<1>2. Holds(<< >>, 0, 0)
  BY <1>1, HoldsNone
<1>3. BusInv
  BY DEF Init, BusInv, Idle
<1>4. ~enable /\ rx_next = 0 /\ rx_due = 0 /\ tx_next = 0 /\ tx_due = 0
  BY DEF Init
<1>5. QED BY <1>1, <1>3, <1>4, FifosStart DEF RxInv, TxInv

LEMMA RxSpecInv == Spec => [](BusInv /\ RxInv)
<1>1. BusInv /\ RxInv /\ [Clock]_vars => (BusInv /\ RxInv)'
  <2>1. ASSUME BusInv, RxInv, Clock PROVE (BusInv /\ RxInv)'
    BY <2>1, BusStep, RxStep
  <2>2. ASSUME BusInv, RxInv, UNCHANGED vars PROVE (BusInv /\ RxInv)'
    BY <2>2 DEF vars, regs, rx_vars, inputs, history, BusInv, RxInv, HeadShown,
       Holds, RXP!IInv, RXP!TypeOK, RXP!NoOverrun, RXP!Occupancy, RX!Contents,
       RX!Occupancy, RX!Ahead, RX!avail_o, RX!rdata_o, RX!empty, RX!match
  <2>3. QED BY <2>1, <2>2
<1>2. QED BY <1>1, InitInv, PTL DEF Spec

LEMMA TxSpecInv == ASSUME TxDepth = 1 PROVE Spec => [](BusInv /\ TxInv)
<1>1. BusInv /\ TxInv /\ [Clock]_vars => (BusInv /\ TxInv)'
  <2>1. ASSUME BusInv, TxInv, Clock PROVE (BusInv /\ TxInv)'
    BY <2>1, BusStep, TxStep
  <2>2. ASSUME BusInv, TxInv, UNCHANGED vars PROVE (BusInv /\ TxInv)'
    BY <2>2 DEF vars, regs, tx_vars, inputs, history, BusInv, TxInv,
       Holds, TXP!IInv, TXP!TypeOK, TXP!NoOverrun, TXP!Occupancy, TX!Contents,
       TX!Occupancy, TX!Ahead
  <2>3. QED BY <2>1, <2>2
<1>2. QED BY <1>1, InitInv, PTL DEF Spec

\* What software reads from DATA, having polled RX_EMPTY, are the words of the
\* RX stream in order, for every depth of the RX FIFO and of the TX FIFO.
THEOREM SlinkRxExactlyOnce == Spec => []RxExactlyOnce
<1>1. BusInv /\ RxInv => RxExactlyOnce
  <2> SUFFICES ASSUME BusInv, RxInv, enable
               PROVE  /\ Len(RX!Contents) = Between(rx_due, rx_next)
                      /\ rx_fifo_re => RX!rdata_o = rx_due /\ RX!Contents /= << >>
    BY DEF RxExactlyOnce
  <2>1. Holds(RX!Contents, rx_due, rx_next) /\ rx_due \in Word /\ rx_next \in Word
    BY DEF RxInv
  <2>2. RX!Contents /= << >> => RX!Contents[1] = rx_due
    BY <2>1, HoldsTake
  <2>3. rx_fifo_re => HeadShown
    BY ReadsHead
  <2>4. QED BY <2>1, <2>2, <2>3 DEF Holds, HeadShown
<1>2. QED BY <1>1, RxSpecInv, PTL

\* The attributes RX_LAST and ROUTE are those of the word read last, for every
\* depth of both FIFOs.
THEOREM SlinkAttributes == Spec => AttributesOfLastRead
<1>1. ASSUME RxExactlyOnce, Clock
      PROVE  IF rx_fifo_re THEN rx_attr' = rsp' /\ (enable => rx_attr' = rx_due)
             ELSE rx_attr' = rx_attr
  <2>1. CASE rx_fifo_re
    <3>1. rx_attr' = RX!rdata_o /\ rsp' = RX!rdata_o
      BY <1>1, <2>1 DEF Clock, BusAccess, rx_fifo_re
    <3>2. enable => RX!rdata_o = rx_due
      BY <1>1, <2>1 DEF RxExactlyOnce
    <3>3. QED BY <2>1, <3>1, <3>2
  <2>2. CASE ~rx_fifo_re
    BY <1>1, <2>2 DEF Clock, BusAccess
  <2>3. QED BY <2>1, <2>2
<1>2. RxExactlyOnce /\ [Clock]_vars =>
        [IF rx_fifo_re THEN rx_attr' = rsp' /\ (enable => rx_attr' = rx_due)
         ELSE rx_attr' = rx_attr]_vars
  BY <1>1
<1>3. QED BY <1>2, SlinkRxExactlyOnce, PTL
             DEF Spec, AttributesOfLastRead

\* With the single-entry TX FIFO of the default configuration, the TX stream
\* carries the words software writes, each once and in order, too.
THEOREM SlinkExactlyOnce == ASSUME TxDepth = 1 PROVE Spec => []ExactlyOnce
<1>1. BusInv /\ TxInv => TxExactlyOnce
  <2> SUFFICES ASSUME BusInv, TxInv, enable
               PROVE  /\ Len(TX!Contents) = Between(tx_due, tx_next)
                      /\ TxTransfer => slink_tx_data_o = tx_due
    BY DEF TxExactlyOnce
  <2>1. Holds(TX!Contents, tx_due, tx_next) /\ tx_due \in Word /\ tx_next \in Word
    BY DEF TxInv
  <2>2. TX!Contents /= << >> => TX!Contents[1] = tx_due
    BY <2>1, HoldsTake
  <2>3. TxTransfer => TX!Contents /= << >> /\ slink_tx_data_o = TX!Contents[1]
    BY TxSingle DEF TxTransfer, TxInv
  <2>4. QED BY <2>1, <2>2, <2>3 DEF Holds
<1>2. TxExactlyOnce /\ RxExactlyOnce => ExactlyOnce
  BY DEF ExactlyOnce
<1>3. QED BY <1>1, <1>2, SlinkRxExactlyOnce, TxSpecInv, PTL

\* AXI4-Stream: with a single-entry TX FIFO a word that is offered and not
\* taken is offered in the next clock as well, unless the link is disabled.
THEOREM SlinkTxHeld == ASSUME TxDepth = 1 PROVE Spec => TxHeldUntilReady
<1>1. ASSUME BusInv, TxInv, Clock, slink_tx_valid_o, ~tx_ready, enable
      PROVE  slink_tx_valid_o' /\ slink_tx_data_o' = slink_tx_data_o
  <2>1. TX!Clock(~enable, tx_fifo_we, tx_next, tx_ready)
    BY <1>1 DEF Clock, Fifos
  <2>2. /\ TXP!IInv /\ tx_next \in Word
        /\ enable \in BOOLEAN /\ tx_ready \in BOOLEAN /\ tx_fifo_we \in BOOLEAN
    BY <1>1 DEF BusInv, TxInv, tx_fifo_we
  <2>3. TX!Contents /= << >> /\ slink_tx_data_o = TX!Contents[1]
    BY <1>1, <2>2, TxSingle
  <2>4. /\ TX!Contents' /= << >> /\ TX!Contents'[1] = TX!Contents[1]
        /\ TX!rdata_o' = TX!Contents'[1]
    BY <1>1, <2>1, <2>2, <2>3, TxClock
  <2>5. TXP!IInv'
    BY <2>1, <2>2, TxClock
  <2>6. slink_tx_valid_o'
    <3>1. (TxDepth = 1 /\ TXP!IInv => (slink_tx_valid_o <=> TX!Contents /= << >>))'
      BY TxValid, PTL
    <3>2. QED BY <3>1, <2>4, <2>5
  <2>7. QED BY <2>3, <2>4, <2>6 DEF slink_tx_data_o
<1>2. BusInv /\ TxInv /\ [Clock]_vars =>
        [slink_tx_valid_o /\ ~tx_ready /\ enable
           => slink_tx_valid_o' /\ slink_tx_data_o' = slink_tx_data_o]_vars
  BY <1>1
<1>3. QED BY <1>2, TxSpecInv, PTL DEF Spec, TxHeldUntilReady

=============================================================================
