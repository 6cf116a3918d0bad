----------------------------- MODULE Dma_proofs -----------------------------
(***************************************************************************)
(* Proofs about the DMA controller and the software that programs it, for  *)
(* every depth of the descriptor FIFO, every range of counts and every set *)
(* of descriptors.  What the FIFO does is taken from PrimFifo_proofs; what *)
(* is added here is the layout of the descriptors in it, the registers of  *)
(* the engine in each of its states and what software may do when.         *)
(***************************************************************************)
EXTENDS DmaSystem, SequenceTheorems, TLAPS

FP == INSTANCE PrimFifo_proofs WITH Data <- Dma!Word, w_pnt <- fifo_w, r_pnt <- fifo_r,
        fifo <- fifo_mem, rdata <- fifo_rdata, avail <- fifo_avail

Contents == Dma!Fifo!Contents

-----------------------------------------------------------------------------
\* The inductive invariant.

Gets    == {"S_GET_0", "S_GET_1", "S_GET_2", "S_GET_3"}
Waiting == {"S_READ_RSP", "S_WRITE_RSP"}
States  == Gets \cup Waiting \cup {"S_CHECK", "S_READ_REQ", "S_WRITE_REQ"}

BusTypeOK ==
  \/ bus.op = "none"
  \/ bus.op = "write_desc" /\ bus.word \in Dma!Word
  \/ bus.op = "write_ctrl" /\ {bus.enable, bus.start, bus.ack} \subseteq BOOLEAN

TypeOK ==
  /\ ctrl \in [enable : BOOLEAN, start : BOOLEAN, err : BOOLEAN, done : BOOLEAN]
  /\ engine \in [state : States, run : BOOLEAN, done : BOOLEAN, err : BOOLEAN,
                 src_addr : Dma!Word, dst_addr : Dma!Word, num : 0 .. NUM - 1,
                 num_or : BOOLEAN, src_inc : {0, 1}, dst_inc : {0, 1}]
  /\ data_buf \in Dma!Word
  /\ FP!IInv
  /\ BusTypeOK /\ job \in Descriptors /\ rest \in Seq(Dma!Word)
  /\ rsp \in [ack : BOOLEAN, err : BOOLEAN, data : Dma!Word] /\ owed \in BOOLEAN
  /\ plan \in Seq(Descriptors) /\ copied \in Nat

\* A descriptor is being written: some of its words are not in the FIFO yet.
Writing == rest /= << >> \/ bus.op = "write_desc"
Pending == IF bus.op = "write_desc" THEN << bus.word >> \o rest ELSE rest

\* Nothing is queued behind the transfer that runs.
Unchained == engine.run /\ engine.state \notin Gets /\ Contents = << >>

\* What software and the engine may do at the same time.
Control ==
  /\ ~engine.run => engine.state = "S_CHECK"
  /\ engine.done => ~engine.run
  /\ ctrl.start => ctrl.enable /\ ~engine.run
  /\ ~ctrl.enable => ~engine.run \/ Unchained
  /\ Writing => ctrl.enable /\ Quiet /\ bus.op /= "write_ctrl"
  /\ bus.op = "write_ctrl" /\ bus.enable => Quiet /\ (bus.start => ctrl.enable)
  /\ bus.op = "write_ctrl" /\ ~bus.enable => ~bus.start /\ ~bus.ack /\ (Quiet \/ Unchained)

\* The registered status of the FIFO is up to date when it is used.
Status ==
  /\ ctrl.start \/ (engine.state = "S_CHECK" /\ engine.run)
       => (Dma!Fifo!avail_o <=> Contents /= << >>)
  /\ engine.state \in {"S_GET_1", "S_GET_2"} => Dma!Fifo!avail_o

\* The words of the descriptors ds, one after the other.
Layout(words, ds) ==
  /\ Len(words) = 3 * Len(ds)
  /\ \A k \in 1 .. Len(ds) : /\ words[3 * k - 2] = Words(ds[k])[1]
                             /\ words[3 * k - 1] = Words(ds[k])[2]
                             /\ words[3 * k]     = Words(ds[k])[3]

\* The FIFO, with the words on their way into it and those on their way out,
\* holds the descriptors of the plan.
Queued ==
  CASE Writing -> /\ Layout(Contents \o Pending, Append(plan, job))
                  /\ Len(Contents) + Len(Pending) <= Depth
    [] ~Writing /\ engine.state \in {"S_CHECK", "S_GET_0"} -> Layout(Contents, plan)
    [] ~Writing /\ engine.state = "S_GET_1" ->
         Layout(<< Dma!Fifo!rdata_o >> \o Contents, plan)
    [] ~Writing /\ engine.state = "S_GET_2" ->
         Layout(<< engine.src_addr, Dma!Fifo!rdata_o >> \o Contents, plan)
    [] ~Writing /\ engine.state = "S_GET_3" ->
         Layout(<< engine.src_addr, engine.dst_addr, Dma!Fifo!rdata_o >> \o Contents, plan)
    [] ~Writing /\ Transferring -> plan /= << >> /\ Layout(Contents, Tail(plan))

\* The engine is at element "copied" of the first descriptor of the plan.
Source(d, i)      == Place(d.src, d.src_inc, i)
Destination(d, i) == Place(d.dst, d.dst_inc, i)

Registers ==
  /\ engine.state = "S_GET_0" => plan /= << >>
  /\ engine.state \in Gets => ~engine.num_or
  /\ ~Transferring => copied = 0
  /\ Transferring =>
       LET d == plan[1]
       IN  /\ copied < d.num
           /\ engine.src_inc = d.src_inc /\ engine.dst_inc = d.dst_inc
           /\ engine.src_addr = Source(d, IF engine.state = "S_WRITE_RSP" THEN copied + 1 ELSE copied)
           /\ engine.state = "S_READ_REQ" =>
                /\ engine.num = d.num - copied
                /\ engine.num_or = (copied > 0)
                /\ engine.dst_addr = Destination(d, IF copied > 0 THEN copied - 1 ELSE 0)
           /\ engine.state /= "S_READ_REQ" =>
                engine.num = d.num - copied - 1 /\ engine.dst_addr = Destination(d, copied)
           /\ ~Dma!Reading => data_buf = Source(d, copied)
           /\ engine.state = "S_WRITE_RSP" => engine.num_or = (copied + 1 < d.num)

\* The engine waits for what the bus owes or answers, and the bus answers once.
Answers ==
  /\ rsp.ack \/ owed <=> engine.state \in Waiting
  /\ ~(rsp.ack /\ owed)
  /\ rsp.ack /\ ~rsp.err /\ engine.state = "S_READ_RSP" => rsp.data = engine.src_addr

\* The engine stops because all is copied or because of an error.
Stopped == engine.done => plan = << >> \/ ctrl.err \/ ~ctrl.enable

IInv == TypeOK /\ Control /\ Status /\ Queued /\ Registers /\ Answers /\ Stopped
-----------------------------------------------------------------------------
\* The FIFO: the proofs' view of the instance is the component's.

LEMMA FifoSame ==
  /\ FP!Contents = Contents /\ (FP!Contents)' = Contents'
  /\ (FP!full <=> Dma!Fifo!full) /\ (FP!empty <=> Dma!Fifo!empty)
  /\ (FP!avail_o <=> Dma!Fifo!avail_o) /\ ((FP!avail_o)' <=> (Dma!Fifo!avail_o)')
  /\ FP!rdata_o = Dma!Fifo!rdata_o /\ (FP!rdata_o)' = (Dma!Fifo!rdata_o)'
  /\ \A c, we, re \in BOOLEAN, d \in Dma!Word :
       Dma!Fifo!Clock(c, we, d, re) => FP!Clock(c, we, d, re)
BY DEF Contents, FP!Contents, Dma!Fifo!Contents, FP!Occupancy, Dma!Fifo!Occupancy,
   FP!Ahead, Dma!Fifo!Ahead, FP!Address, Dma!Fifo!Address, FP!full, Dma!Fifo!full,
   FP!empty, Dma!Fifo!empty, FP!match, Dma!Fifo!match, FP!WrapBit, Dma!Fifo!WrapBit,
   FP!avail_o, Dma!Fifo!avail_o, FP!rdata_o, Dma!Fifo!rdata_o,
   FP!Clock, Dma!Fifo!Clock, FP!Edge, Dma!Fifo!Edge,
   FP!NextPointer, Dma!Fifo!NextPointer, FP!Increment, Dma!Fifo!Increment

LEMMA FifoDepth == FP!DepthAssumption
BY DmaAssumption DEF FP!DepthAssumption

LEMMA FifoTypes ==
  ASSUME FP!IInv
  PROVE  Contents \in Seq(Dma!Word) /\ Len(Contents) \in Nat /\ Dma!Fifo!rdata_o \in Dma!Word
<1>1. Contents \in Seq(Dma!Word)
  BY FifoDepth, FP!ContentsFlags, FifoSame
<1>2. Dma!Fifo!rdata_o = fifo_rdata
  BY DmaAssumption DEF Dma!Fifo!rdata_o
<1>3. fifo_rdata \in Dma!Word
  BY DEF FP!IInv, FP!TypeOK
<1>4. QED BY <1>1, <1>2, <1>3, LenProperties

\* What a clock does to the descriptor FIFO.
LEMMA BufferStep ==
  ASSUME FP!IInv, BusTypeOK, ctrl.enable \in BOOLEAN, Dma!DescriptorBuffer
  PROVE  /\ FP!IInv'
         /\ Dma!Fifo!avail_o' <=> Contents /= << >>
         /\ Contents /= << >> => Dma!Fifo!rdata_o' = Contents[1]
         /\ ~ctrl.enable => Contents' = << >>
         /\ ctrl.enable /\ bus.op = "write_desc" /\ ~Dma!fifo_re /\ Len(Contents) < Depth
              => Contents' = Append(Contents, bus.word)
         /\ ctrl.enable /\ bus.op /= "write_desc" /\ ~Dma!fifo_re => Contents' = Contents
         /\ ctrl.enable /\ bus.op /= "write_desc" /\ Dma!fifo_re /\ Contents /= << >>
              => Contents' = Tail(Contents)
<1> DEFINE c  == ~ctrl.enable
           we == Dma!fifo_we
           d  == IF we THEN bus.word ELSE 0
           re == Dma!fifo_re
<1>1. /\ c \in BOOLEAN /\ we \in BOOLEAN /\ re \in BOOLEAN /\ d \in Dma!Word
      /\ (we <=> bus.op = "write_desc")
  BY DmaAssumption DEF Dma!fifo_we, Dma!fifo_re, BusTypeOK, Dma!Word
<1>2. Dma!Fifo!Clock(c, we, d, re)
  BY DEF Dma!DescriptorBuffer
<1>3. bus.op = "write_desc" => d = bus.word
  BY DEF Dma!fifo_we
<1> HIDE DEF c, we, d, re
<1>4. FP!Clock(c, we, d, re)
  BY <1>1, <1>2, FifoSame
<1>5. FP!IInv'
  BY <1>1, <1>4, FifoDepth, FP!EdgeInv
<1>6. /\ Dma!Fifo!full <=> Len(Contents) = Depth
      /\ Dma!Fifo!empty <=> Contents = << >>
      /\ Dma!Fifo!avail_o' <=> Contents /= << >>
      /\ Contents /= << >> => Dma!Fifo!rdata_o' = Contents[1]
  <2>1. Depth > 1
    BY DmaAssumption
  <2>2. /\ FP!full <=> Len(FP!Contents) = Depth
        /\ FP!avail_o' <=> FP!Contents /= << >>
        /\ FP!Contents /= << >> => FP!rdata_o' = FP!Contents[1]
    BY <1>1, <1>4, <2>1, FifoDepth, FP!OutputStep
  <2>3. FP!empty <=> FP!Contents = << >>
    BY FifoDepth, FP!ContentsFlags
  <2>4. QED BY <2>2, <2>3, FifoSame
<1>7. /\ c => Contents' = << >>
      /\ ~c => LET in  == we /\ ~Dma!Fifo!full
                   out == re /\ ~Dma!Fifo!empty
               IN  /\ ~in /\ ~out => Contents' = Contents
                   /\  in /\ ~out => Contents' = Append(Contents, d)
                   /\ ~in /\  out => Contents' = Tail(Contents)
  <2>1. /\ c => FP!Contents' = << >>
        /\ ~c => LET in  == we /\ ~FP!full
                     out == re /\ ~FP!empty
                 IN  /\ ~in /\ ~out => FP!Contents' = FP!Contents
                     /\  in /\ ~out => FP!Contents' = Append(FP!Contents, d)
                     /\ ~in /\  out => FP!Contents' = Tail(FP!Contents)
    BY <1>1, <1>4, <1>5, FifoDepth, FP!ContentsStep
  <2>2. QED BY <2>1, FifoSame
<1>8. Len(Contents) < Depth => ~Dma!Fifo!full
  BY <1>6, FifoTypes, DmaAssumption
<1>9. (c <=> ~ctrl.enable) /\ (re <=> Dma!fifo_re)
  BY DEF c, re
<1>10. QED BY <1>1, <1>3, <1>5, <1>6, <1>7, <1>8, <1>9

-----------------------------------------------------------------------------
\* Words and descriptors in a queue.

LEMMA WordsForm ==
  ASSUME NEW d \in Descriptors
  PROVE  /\ Words(d) = << d.src, d.dst, Dma!Config(d.num, d.src_inc, d.dst_inc) >>
         /\ d.src \in Dma!Word /\ d.dst \in Dma!Word
         /\ d.num \in 1 .. NUM - 1 /\ d.src_inc \in {0, 1} /\ d.dst_inc \in {0, 1}
         /\ Dma!Config(d.num, d.src_inc, d.dst_inc) \in Dma!Word
         /\ Words(d) \in Seq(Dma!Word) /\ Len(Words(d)) = 3
<1>1. /\ d.src \in Dma!Word /\ d.dst \in Dma!Word
      /\ d.num \in 1 .. NUM - 1 /\ d.src_inc \in {0, 1} /\ d.dst_inc \in {0, 1}
  BY DmaAssumption DEF Dma!Word
<1>2. Dma!Config(d.num, d.src_inc, d.dst_inc) \in Dma!Word
  BY <1>1, DmaAssumption DEF Dma!Config, Dma!Word
<1>3. QED BY <1>1, <1>2 DEF Words

LEMMA Divided ==
  ASSUME NEW N \in Nat, NEW r \in 0 .. N - 1, NEW a \in {0, 1}, NEW b \in {0, 1},
         NEW x, x = r + N * a + 2 * N * b
  PROVE  x % N = r /\ x \div N = a + 2 * b
<1>1. CASE a = 0 /\ b = 0
  <2>1. x = r
    BY <1>1
  <2>2. QED BY <1>1, <2>1
<1>2. CASE a = 1 /\ b = 0
  <2>1. x = r + N
    BY <1>2
  <2>2. QED BY <1>2, <2>1
<1>3. CASE a = 0 /\ b = 1
  <2>1. x = r + N + N
    BY <1>3
  <2>2. QED BY <1>3, <2>1
<1>4. CASE a = 1 /\ b = 1
  <2>1. x = r + N + N + N
    BY <1>4
  <2>2. QED BY <1>4, <2>1
<1>5. QED BY <1>1, <1>2, <1>3, <1>4

LEMMA DividedAll ==
  \A N \in Nat : \A r \in 0 .. N - 1, a \in {0, 1}, b \in {0, 1} :
    LET x == r + N * a + 2 * N * b IN x % N = r /\ x \div N = a + 2 * b
BY Divided

\* The engine takes the configuration apart as software put it together.
LEMMA ConfigFields ==
  ASSUME NEW d \in Descriptors, NEW word, word = Dma!Config(d.num, d.src_inc, d.dst_inc)
  PROVE  /\ Dma!conf_num(word) = d.num
         /\ Dma!conf_src(word) = d.src_inc
         /\ Dma!conf_dst(word) = d.dst_inc
<1>1. d.num \in 1 .. NUM - 1 /\ d.src_inc \in {0, 1} /\ d.dst_inc \in {0, 1}
  BY WordsForm
<1>2. word = d.num + NUM * d.src_inc + 2 * NUM * d.dst_inc
  BY DEF Dma!Config
<1>3. NUM \in Nat /\ NUM > 1
  BY DmaAssumption
<1>4. word % NUM = d.num /\ word \div NUM = d.src_inc + 2 * d.dst_inc
  <2>1. d.num \in 0 .. NUM - 1
    BY <1>1, <1>3
  <2>2. NUM \in Nat
    BY <1>3
  <2>3. LET x == d.num + NUM * d.src_inc + 2 * NUM * d.dst_inc
        IN  x % NUM = d.num /\ x \div NUM = d.src_inc + 2 * d.dst_inc
    BY <1>1, <2>1, <2>2, DividedAll, Zenon
  <2>4. QED BY <1>2, <2>3, Zenon
<1>5. (word \div NUM) % 2 = d.src_inc
  BY <1>1, <1>4
<1>6. word \div (2 * NUM) = d.dst_inc
  BY <1>1, <1>2, <1>3
<1>7. QED BY <1>4, <1>5, <1>6 DEF Dma!conf_num, Dma!conf_src, Dma!conf_dst

-----------------------------------------------------------------------------
\* The addresses of a descriptor.

LEMMA Division == \A x \in Nat, M \in Nat \ {0} : x = M * (x \div M) + (x % M)
BY SMTT(20)

LEMMA ModForm ==
  ASSUME NEW M \in Nat \ {0}, NEW x \in Nat
  PROVE  x % M \in 0 .. M - 1 /\ x = M * (x \div M) + (x % M) /\ x \div M \in Nat
<1>1. x % M \in 0 .. M - 1
  OBVIOUS
<1>2. x \div M \in Nat
  OBVIOUS
<1>3. x = M * (x \div M) + (x % M)
  BY Division
<1>4. QED BY <1>1, <1>2, <1>3

LEMMA ModUnique ==
  ASSUME NEW M \in Nat \ {0}, NEW q \in Nat, NEW r \in 0 .. M - 1
  PROVE  (M * q + r) % M = r
OBVIOUS

LEMMA ModNext ==
  ASSUME NEW M \in Nat \ {0}, NEW x \in Nat
  PROVE  ((x % M) + 1) % M = (x + 1) % M
<1> DEFINE q == x \div M
           r == x % M
<1>1. r \in 0 .. M - 1 /\ x = M * q + r /\ q \in Nat
  BY ModForm
<1> HIDE DEF q, r
<1>2. CASE r + 1 < M
  <2>1. x + 1 = M * q + (r + 1) /\ r + 1 \in 0 .. M - 1
    BY <1>1, <1>2
  <2>2. (x + 1) % M = r + 1
    BY <1>1, <2>1, ModUnique
  <2>3. (r + 1) % M = r + 1
    BY <1>1, <1>2
  <2>4. QED BY <2>2, <2>3 DEF r
<1>3. CASE r + 1 = M
  <2>1. x + 1 = M * (q + 1) + 0 /\ q + 1 \in Nat
    BY <1>1, <1>3
  <2>2. (x + 1) % M = 0
    <3>1. 0 \in 0 .. M - 1
      OBVIOUS
    <3>2. (M * (q + 1) + 0) % M = 0
      BY <2>1, <3>1, ModUnique
    <3>3. QED BY <2>1, <3>2
  <2>3. (r + 1) % M = 0
    BY <1>3
  <2>4. QED BY <2>2, <2>3 DEF r
<1>4. QED BY <1>1, <1>2, <1>3

LEMMA PlaceSteps ==
  ASSUME NEW base \in Dma!Word, NEW inc \in {0, 1}, NEW i \in Nat
  PROVE  /\ Place(base, inc, i) \in Dma!Word
         /\ Place(base, inc, 0) = base
         /\ Dma!Advance(Place(base, inc, i), inc) = Place(base, inc, i + 1)
<1> DEFINE M == 4 * NUM
<1>1. M \in Nat \ {0} /\ Dma!Word = 0 .. M - 1
  BY DmaAssumption DEF Dma!Word
<1>2. /\ \A k \in Nat : Place(base, inc, k) = (base + inc * k) % M
      /\ \A a : Dma!Advance(a, inc) = (a + inc) % M
  BY DEF Place, Dma!Advance
<1>3. base \in Nat /\ base < M
  BY <1>1
<1> HIDE DEF M
<1>4. base % M = base
  BY <1>1, <1>3
<1>5. CASE inc = 0
  <2>1. \A k \in Nat : base + inc * k = base
    BY <1>3, <1>5
  <2>2. \A k \in Nat : Place(base, inc, k) = base
    BY <1>2, <1>4, <2>1
  <2>3. Dma!Advance(base, inc) = base
    BY <1>2, <1>3, <1>4, <1>5
  <2>4. QED BY <2>2, <2>3
<1>6. CASE inc = 1
  <2>1. \A k \in Nat : base + inc * k = base + k
    BY <1>3, <1>6
  <2>2. \A k \in Nat : Place(base, inc, k) = (base + k) % M
    BY <1>2, <2>1
  <2>3. (base + i) % M \in 0 .. M - 1
    BY <1>1, <1>3, ModForm
  <2>4. (((base + i) % M) + 1) % M = ((base + i) + 1) % M
    <3>1. base + i \in Nat
      BY <1>3
    <3>2. QED BY <1>1, <3>1, ModNext
  <2>5. (base + i) + 1 = base + (i + 1) /\ base + 0 = base
    BY <1>3
  <2>6. Dma!Advance(Place(base, inc, i), inc) = Place(base, inc, i + 1)
    BY <1>2, <1>6, <2>2, <2>4, <2>5
  <2>7. Place(base, inc, i) \in Dma!Word
    BY <1>1, <2>2, <2>3
  <2>8. Place(base, inc, 0) = base
    BY <1>4, <2>2, <2>5
  <2>9. QED BY <2>6, <2>7, <2>8
<1>7. QED BY <1>5, <1>6

-----------------------------------------------------------------------------
\* Sequences of words laid out as descriptors.

LEMMA LayoutNone == Layout(<< >>, << >>)
BY DEF Layout

LEMMA LayoutEmpty ==
  ASSUME NEW q \in Seq(Dma!Word), NEW ds \in Seq(Descriptors), Layout(q, ds)
  PROVE  /\ q = << >> <=> ds = << >>
         /\ ds /= << >> => Len(q) >= 3
<1>1. Len(q) \in Nat /\ Len(ds) \in Nat /\ Len(q) = 3 * Len(ds)
  BY DEF Layout
<1>2. q = << >> <=> Len(q) = 0
  BY EmptySeq
<1>3. ds = << >> <=> Len(ds) = 0
  BY EmptySeq
<1>4. QED BY <1>1, <1>2, <1>3

\* The first three words are those of the first descriptor.
LEMMA LayoutTake ==
  ASSUME NEW a \in Dma!Word, NEW b \in Dma!Word, NEW w \in Dma!Word, NEW q \in Seq(Dma!Word),
         NEW ds \in Seq(Descriptors), Layout(<< a, b, w >> \o q, ds)
  PROVE  /\ ds /= << >>
         /\ << a, b, w >> = Words(ds[1])
         /\ Layout(q, Tail(ds))
<1> DEFINE p == << a, b, w >> \o q
<1>1. << a, b, w >> \in Seq(Dma!Word) /\ Len(<< a, b, w >>) = 3
  OBVIOUS
<1>2. /\ Len(p) = 3 + Len(q) /\ Len(q) \in Nat /\ Len(ds) \in Nat
      /\ p[1] = a /\ p[2] = b /\ p[3] = w
      /\ \A i \in 1 .. Len(q) : p[i + 3] = q[i]
  BY <1>1, ConcatProperties, LenProperties
<1>3. Len(p) = 3 * Len(ds)
  BY DEF Layout
<1>4. ds /= << >> /\ Len(ds) >= 1
  BY <1>2, <1>3, EmptySeq
<1>5. << a, b, w >> = Words(ds[1])
  <2>1. 1 \in 1 .. Len(ds)
    BY <1>2, <1>4
  <2>2. p[1] = Words(ds[1])[1] /\ p[2] = Words(ds[1])[2] /\ p[3] = Words(ds[1])[3]
    BY <2>1 DEF Layout
  <2>3. ds[1] \in Descriptors
    BY <2>1, ElementOfSeq
  <2>4. QED BY <1>2, <2>2, <2>3, WordsForm
<1>6. /\ Tail(ds) \in Seq(Descriptors) /\ Len(Tail(ds)) = Len(ds) - 1
      /\ \A k \in 1 .. Len(ds) - 1 : Tail(ds)[k] = ds[k + 1]
  BY <1>4, HeadTailProperties
<1>7. ASSUME NEW k \in 1 .. Len(Tail(ds))
      PROVE  /\ q[3 * k - 2] = Words(Tail(ds)[k])[1]
             /\ q[3 * k - 1] = Words(Tail(ds)[k])[2]
             /\ q[3 * k]     = Words(Tail(ds)[k])[3]
  <2>1. k + 1 \in 1 .. Len(ds) /\ Tail(ds)[k] = ds[k + 1] /\ k \in Nat
    BY <1>2, <1>6
  <2>2. /\ p[3 * (k + 1) - 2] = Words(ds[k + 1])[1]
        /\ p[3 * (k + 1) - 1] = Words(ds[k + 1])[2]
        /\ p[3 * (k + 1)] = Words(ds[k + 1])[3]
    BY <2>1 DEF Layout
  <2>3. /\ 3 * k - 2 \in 1 .. Len(q) /\ 3 * k - 1 \in 1 .. Len(q) /\ 3 * k \in 1 .. Len(q)
        /\ 3 * (k + 1) - 2 = (3 * k - 2) + 3 /\ 3 * (k + 1) - 1 = (3 * k - 1) + 3
        /\ 3 * (k + 1) = 3 * k + 3
    BY <1>2, <1>3, <1>6
  <2>4. QED BY <1>2, <2>1, <2>2, <2>3
<1>8. Len(q) = 3 * Len(Tail(ds))
  BY <1>2, <1>3, <1>6
<1>9. QED BY <1>4, <1>5, <1>7, <1>8 DEF Layout

\* The words of a descriptor that follows.
LEMMA LayoutAppend ==
  ASSUME NEW q \in Seq(Dma!Word), NEW ds \in Seq(Descriptors), Layout(q, ds),
         NEW d \in Descriptors
  PROVE  Layout(q \o Words(d), Append(ds, d))
<1> DEFINE p  == q \o Words(d)
           es == Append(ds, d)
           n  == Len(ds)
<1>1. PICK v \in Seq(Dma!Word) : v = Words(d) /\ Len(v) = 3
  BY WordsForm
<1>2. /\ Len(p) = Len(q) + 3 /\ Len(q) \in Nat
      /\ \A i \in 1 .. Len(q) : p[i] = q[i]
      /\ \A i \in 1 .. 3 : p[Len(q) + i] = Words(d)[i]
  <2>1. \A i \in 1 .. Len(q) + 3 : p[i] = IF i <= Len(q) THEN q[i] ELSE v[i - Len(q)]
    BY <1>1, ConcatProperties
  <2>2. Len(p) = Len(q) + 3 /\ Len(q) \in Nat
    <3>1. Len(q) \in Nat
      BY LenProperties
    <3>2. Len(p) = Len(q) + Len(v)
      BY <1>1, ConcatProperties
    <3>3. QED BY <1>1, <3>1, <3>2
  <2>3. ASSUME NEW i \in 1 .. 3 PROVE p[Len(q) + i] = Words(d)[i]
    <3>1. Len(q) + i \in 1 .. Len(q) + 3 /\ ~(Len(q) + i <= Len(q)) /\ (Len(q) + i) - Len(q) = i
      BY <2>2
    <3>2. QED BY <1>1, <2>1, <3>1
  <2>4. QED BY <2>1, <2>2, <2>3
<1>3. /\ n \in Nat /\ Len(es) = n + 1 /\ es[n + 1] = d
      /\ \A k \in 1 .. n : es[k] = ds[k]
  BY AppendProperties, LenProperties
<1>4. Len(q) = 3 * n
  BY DEF Layout
<1> HIDE DEF p, es, n
<1>5. Len(p) = 3 * Len(es)
  BY <1>2, <1>3, <1>4
<1>6. ASSUME NEW k \in 1 .. n + 1
      PROVE  /\ p[3 * k - 2] = Words(es[k])[1]
             /\ p[3 * k - 1] = Words(es[k])[2]
             /\ p[3 * k]     = Words(es[k])[3]
  <2>1. CASE k = n + 1
    <3>1. /\ 3 * k - 2 = Len(q) + 1 /\ 3 * k - 1 = Len(q) + 2 /\ 3 * k = Len(q) + 3
      BY <1>3, <1>4, <2>1
    <3>2. p[Len(q) + 1] = Words(d)[1] /\ p[Len(q) + 2] = Words(d)[2] /\ p[Len(q) + 3] = Words(d)[3]
      BY <1>2
    <3>3. es[k] = d
      BY <1>3, <2>1
    <3>4. QED BY <3>1, <3>2, <3>3
  <2>2. CASE k \in 1 .. n
    <3>1. 3 * k - 2 \in 1 .. Len(q) /\ 3 * k - 1 \in 1 .. Len(q) /\ 3 * k \in 1 .. Len(q)
      BY <1>3, <1>4, <2>2
    <3>2. /\ q[3 * k - 2] = Words(ds[k])[1] /\ q[3 * k - 1] = Words(ds[k])[2]
          /\ q[3 * k] = Words(ds[k])[3]
      BY <2>2 DEF Layout, n
    <3>3. es[k] = ds[k]
      BY <1>3, <2>2
    <3>4. QED BY <1>2, <3>1, <3>2, <3>3
  <2>3. QED BY <1>3, <2>1, <2>2
<1>7. QED BY <1>3, <1>5, <1>6 DEF Layout, p, es

\* A word moves from the words on their way to the FIFO, or from the FIFO to
\* those on their way out.
LEMMA MoveWord ==
  ASSUME NEW q \in Seq(Dma!Word), NEW r \in Seq(Dma!Word), NEW w \in Dma!Word
  PROVE  q \o (<< w >> \o r) = Append(q, w) \o r
<1>1. << w >> \in Seq(Dma!Word)
  OBVIOUS
<1>2. (q \o << w >>) \o r = q \o (<< w >> \o r)
  BY <1>1, ConcatAssociative
<1>3. q \o << w >> = Append(q, w)
  BY AppendIsConcat
<1>4. QED BY <1>2, <1>3

LEMMA AppendWord ==
  ASSUME NEW a \in Dma!Word, NEW b \in Dma!Word, NEW w \in Dma!Word
  PROVE  Append(<< a >>, b) = << a, b >> /\ Append(<< a, b >>, w) = << a, b, w >>
<1>1. Append(<< a >>, b) = << a, b >>
  <2>1. /\ << a >> \in Seq(Dma!Word) /\ Len(<< a >>) = 1
        /\ << a, b >> \in Seq(Dma!Word) /\ Len(<< a, b >>) = 2
    OBVIOUS
  <2>2. /\ Append(<< a >>, b) \in Seq(Dma!Word) /\ Len(Append(<< a >>, b)) = 2
        /\ Append(<< a >>, b)[1] = a /\ Append(<< a >>, b)[2] = b
    BY <2>1, AppendProperties
  <2>3. \A i \in 1 .. 2 : i = 1 \/ i = 2
    OBVIOUS
  <2>4. << a, b >>[1] = a /\ << a, b >>[2] = b
    OBVIOUS
  <2>5. \A i \in 1 .. 2 : Append(<< a >>, b)[i] = << a, b >>[i]
    BY <2>2, <2>3, <2>4
  <2>6. QED BY <2>1, <2>2, <2>5, SeqEqual
<1>2. Append(<< a, b >>, w) = << a, b, w >>
  <2>1. /\ << a, b >> \in Seq(Dma!Word) /\ Len(<< a, b >>) = 2
        /\ << a, b, w >> \in Seq(Dma!Word) /\ Len(<< a, b, w >>) = 3
    OBVIOUS
  <2>2. /\ Append(<< a, b >>, w) \in Seq(Dma!Word) /\ Len(Append(<< a, b >>, w)) = 3
        /\ Append(<< a, b >>, w)[1] = a /\ Append(<< a, b >>, w)[2] = b
        /\ Append(<< a, b >>, w)[3] = w
    BY <2>1, AppendProperties
  <2>3. \A i \in 1 .. 3 : i = 1 \/ i = 2 \/ i = 3
    OBVIOUS
  <2>4. << a, b, w >>[1] = a /\ << a, b, w >>[2] = b /\ << a, b, w >>[3] = w
    OBVIOUS
  <2>5. \A i \in 1 .. 3 : Append(<< a, b >>, w)[i] = << a, b, w >>[i]
    BY <2>2, <2>3, <2>4
  <2>6. QED BY <2>1, <2>2, <2>5, SeqEqual
<1>3. QED BY <1>1, <1>2

LEMMA HeadAndTail ==
  ASSUME NEW q \in Seq(Dma!Word), q /= << >>
  PROVE  /\ q[1] \in Dma!Word /\ Tail(q) \in Seq(Dma!Word)
         /\ q = << q[1] >> \o Tail(q)
         /\ Len(q) \in Nat /\ Len(Tail(q)) = Len(q) - 1
<1>1. /\ q[1] \in Dma!Word /\ Tail(q) \in Seq(Dma!Word) /\ Len(Tail(q)) = Len(q) - 1
      /\ \A i \in 1 .. Len(Tail(q)) : Tail(q)[i] = q[i + 1]
      /\ Len(q) \in Nat /\ Len(q) > 0
  BY HeadTailProperties, EmptySeq, LenProperties, ElementOfSeq
<1>2. /\ << q[1] >> \in Seq(Dma!Word) /\ Len(<< q[1] >>) = 1 /\ << q[1] >>[1] = q[1]
  BY <1>1
<1> DEFINE p == << q[1] >> \o Tail(q)
<1>3. p \in Seq(Dma!Word) /\ Len(p) = Len(q)
  BY <1>1, <1>2, ConcatProperties
<1>4. ASSUME NEW i \in 1 .. Len(q) PROVE p[i] = q[i]
  <2>1. p[i] = IF i <= 1 THEN << q[1] >>[i] ELSE Tail(q)[i - 1]
    BY <1>1, <1>2, ConcatProperties
  <2>2. CASE i = 1
    BY <1>2, <2>1, <2>2
  <2>3. CASE i > 1
    <3>1. i - 1 \in 1 .. Len(Tail(q)) /\ (i - 1) + 1 = i
      BY <1>1, <2>3
    <3>2. QED BY <1>1, <2>1, <2>3, <3>1
  <2>4. QED BY <2>2, <2>3
<1>5. p = q
  BY <1>3, <1>4, SeqEqual
<1>6. QED BY <1>1, <1>5

-----------------------------------------------------------------------------
\* Types.

LEMMA ZeroIsWord == 0 \in Dma!Word
BY DmaAssumption DEF Dma!Word

\* The words a configuration or the FIFO hands to the registers fit there.
LEMMA ConfigTypes ==
  ASSUME NEW w \in Dma!Word
  PROVE  /\ Dma!conf_num(w) \in 0 .. NUM - 1
         /\ Dma!conf_src(w) \in {0, 1} /\ Dma!conf_dst(w) \in {0, 1}
<1>1. NUM \in Nat /\ NUM > 1 /\ w \in Nat /\ w < 4 * NUM
  BY DmaAssumption DEF Dma!Word
<1>2. w % NUM \in 0 .. NUM - 1
  BY <1>1
<1>3. (w \div NUM) % 2 \in {0, 1}
  <2>1. w \div NUM \in Nat
    BY <1>1
  <2>2. QED BY <2>1
<1>4. w \div (2 * NUM) \in {0, 1}
  BY <1>1
<1>5. QED BY <1>2, <1>3, <1>4 DEF Dma!conf_num, Dma!conf_src, Dma!conf_dst

LEMMA AdvanceType ==
  ASSUME NEW a \in Dma!Word, NEW inc \in {0, 1}
  PROVE  Dma!Advance(a, inc) \in Dma!Word
BY DmaAssumption DEF Dma!Advance, Dma!Word

\* The element counter is decremented around a circle.
LEMMA CountDown ==
  ASSUME NEW n \in 0 .. NUM - 1
  PROVE  (n + NUM - 1) % NUM = IF n = 0 THEN NUM - 1 ELSE n - 1
<1>1. NUM \in Nat /\ NUM > 1
  BY DmaAssumption
<1>2. CASE n = 0
  BY <1>1, <1>2
<1>3. CASE n > 0
  <2>1. n + NUM - 1 = NUM * 1 + (n - 1) /\ n - 1 \in 0 .. NUM - 1
    BY <1>1, <1>3
  <2>2. (NUM * 1 + (n - 1)) % NUM = n - 1
    BY <1>1, <2>1, ModUnique
  <2>3. QED BY <1>3, <2>1, <2>2
<1>4. QED BY <1>2, <1>3

EngineTypes ==
  [state : States, run : BOOLEAN, done : BOOLEAN, err : BOOLEAN,
   src_addr : Dma!Word, dst_addr : Dma!Word, num : 0 .. NUM - 1,
   num_or : BOOLEAN, src_inc : {0, 1}, dst_inc : {0, 1}]

LEMMA EngineTypeStep ==
  ASSUME TypeOK, Dma!BusEngine
  PROVE  engine' \in EngineTypes
<1>1. engine \in EngineTypes
  BY DEF TypeOK, EngineTypes
<1>2. Dma!Fifo!rdata_o \in Dma!Word
  BY FifoTypes DEF TypeOK
<1>3. rsp.ack \in BOOLEAN /\ rsp.err \in BOOLEAN
  BY DEF TypeOK
<1>4. CASE Dma!Check
  <2>1. Dma!Proceeds \in BOOLEAN
    BY <1>1 DEF Dma!Proceeds, EngineTypes, TypeOK
  <2>2. QED BY <1>1, <1>4, <2>1 DEF Dma!Check, EngineTypes, States, Gets, Waiting
<1>5. CASE Dma!Get0
  BY <1>1, <1>5 DEF Dma!Get0, EngineTypes, States, Gets
<1>6. CASE Dma!Get1
  BY <1>1, <1>2, <1>6 DEF Dma!Get1, EngineTypes, States, Gets
<1>7. CASE Dma!Get2
  BY <1>1, <1>2, <1>7 DEF Dma!Get2, EngineTypes, States, Gets
<1>8. CASE Dma!Get3
  <2>1. /\ Dma!conf_num(Dma!Fifo!rdata_o) \in 0 .. NUM - 1
        /\ Dma!conf_src(Dma!Fifo!rdata_o) \in {0, 1}
        /\ Dma!conf_dst(Dma!Fifo!rdata_o) \in {0, 1}
    BY <1>2, ConfigTypes
  <2>2. QED BY <1>1, <1>8, <2>1 DEF Dma!Get3, EngineTypes, States
<1>9. CASE Dma!ReadReq
  <2>1. /\ Dma!Advance(engine.dst_addr, engine.dst_inc) \in Dma!Word
        /\ (engine.num + NUM - 1) % NUM \in 0 .. NUM - 1
    BY <1>1, AdvanceType, CountDown, DmaAssumption DEF EngineTypes
  <2>2. QED BY <1>1, <1>9, <2>1 DEF Dma!ReadReq, Dma!dst_add, EngineTypes, States, Waiting
<1>10. CASE Dma!ReadRsp
  BY <1>1, <1>3, <1>10 DEF Dma!ReadRsp, EngineTypes, States
<1>11. CASE Dma!WriteReq
  <2>1. Dma!Advance(engine.src_addr, engine.src_inc) \in Dma!Word
    BY <1>1, AdvanceType DEF EngineTypes
  <2>2. QED BY <1>1, <1>11, <2>1 DEF Dma!WriteReq, Dma!src_add, EngineTypes, States, Waiting
<1>12. CASE Dma!WriteRsp
  BY <1>1, <1>3, <1>12 DEF Dma!WriteRsp, EngineTypes, States
<1>13. QED BY <1>4, <1>5, <1>6, <1>7, <1>8, <1>9, <1>10, <1>11, <1>12 DEF Dma!BusEngine

LEMMA SoftwareTypeStep ==
  ASSUME TypeOK, Software
  PROVE  BusTypeOK' /\ job' \in Descriptors /\ rest' \in Seq(Dma!Word)
<1>1. rest \in Seq(Dma!Word) /\ job \in Descriptors
  BY DEF TypeOK
<1>2. CASE bus' = NoAccess /\ UNCHANGED << job, rest >>
  BY <1>1, <1>2 DEF NoAccess, BusTypeOK
<1>3. CASE /\ bus.op = "none" /\ rest /= << >>
           /\ bus' = [op |-> "write_desc", word |-> Head(rest)] /\ rest' = Tail(rest)
           /\ UNCHANGED job
  <2>1. Head(rest) \in Dma!Word /\ Tail(rest) \in Seq(Dma!Word)
    BY <1>1, <1>3, HeadTailProperties
  <2>2. QED BY <1>1, <1>3, <2>1 DEF BusTypeOK
<1>4. CASE /\ job' \in Descriptors
           /\ bus' = [op |-> "write_desc", word |-> job'.src] /\ rest' = Tail(Words(job'))
  <2>1. job'.src \in Dma!Word /\ Words(job') \in Seq(Dma!Word) /\ Len(Words(job')) = 3
    BY <1>4, WordsForm
  <2>2. Tail(Words(job')) \in Seq(Dma!Word)
    <3>1. PICK v \in Seq(Dma!Word) : v = Words(job') /\ Len(v) = 3
      BY <2>1
    <3>2. Tail(v) \in Seq(Dma!Word)
      BY <3>1, HeadTailProperties, EmptySeq
    <3>3. QED BY <3>1, <3>2
  <2>3. QED BY <1>4, <2>1, <2>2 DEF BusTypeOK
<1>5. CASE /\ UNCHANGED << job, rest >>
           /\ \E e, s, a \in BOOLEAN : WriteCtrl(e, s, a)
  BY <1>1, <1>5 DEF WriteCtrl, BusTypeOK
<1>6. QED BY <1>2, <1>3, <1>4, <1>5 DEF Software

LEMMA AnswerTypeStep ==
  ASSUME TypeOK, Bus
  PROVE  rsp' \in [ack : BOOLEAN, err : BOOLEAN, data : Dma!Word] /\ owed' \in BOOLEAN
<1>1. /\ Dma!dma_req_o.addr \in Dma!Word
      /\ Dma!dma_req_o.stb \in BOOLEAN
  BY DEF TypeOK, Dma!dma_req_o
<1>2. owed \in BOOLEAN
  BY DEF TypeOK
<1>3. NoAnswer \in [ack : BOOLEAN, err : BOOLEAN, data : Dma!Word]
  BY ZeroIsWord DEF NoAnswer
<1>4. CASE rsp' = NoAnswer /\ owed' = (owed \/ Dma!dma_req_o.stb)
  BY <1>1, <1>2, <1>3, <1>4
<1>5. CASE owed' = FALSE /\ \E e \in BOOLEAN, w \in Dma!Word :
             rsp' = [ack |-> TRUE, err |-> e, data |-> w]
  <2>1. PICK e \in BOOLEAN, w \in Dma!Word : rsp' = [ack |-> TRUE, err |-> e, data |-> w]
    BY <1>5
  <2>2. QED BY <1>5, <2>1
<1>6. (IF Dma!dma_req_o.rw THEN 0 ELSE Dma!dma_req_o.addr) \in Dma!Word
  BY <1>1, ZeroIsWord
<1>7. \/ rsp' = NoAnswer /\ owed' = (owed \/ Dma!dma_req_o.stb)
      \/ /\ owed' = FALSE
         /\ \/ rsp' = [ack |-> TRUE, err |-> FALSE,
                       data |-> IF Dma!dma_req_o.rw THEN 0 ELSE Dma!dma_req_o.addr]
            \/ rsp' = [ack |-> TRUE, err |-> TRUE, data |-> 0]
  BY DEF Bus
<1>8. QED BY <1>4, <1>5, <1>6, <1>7, ZeroIsWord

LEMMA CtrlTypeStep ==
  ASSUME TypeOK, Dma!CtrlAccess
  PROVE  ctrl' \in [enable : BOOLEAN, start : BOOLEAN, err : BOOLEAN, done : BOOLEAN]
<1>1. /\ ctrl.enable \in BOOLEAN /\ ctrl.err \in BOOLEAN /\ ctrl.done \in BOOLEAN
      /\ engine.err \in BOOLEAN /\ engine.done \in BOOLEAN
      /\ bus.op = "write_ctrl" => {bus.enable, bus.start, bus.ack} \subseteq BOOLEAN
  BY DEF TypeOK, BusTypeOK
<1>2. QED BY <1>1 DEF Dma!CtrlAccess

\* The plan has a first descriptor while the engine transfers.
LEMMA PlanTypeStep ==
  ASSUME TypeOK, Transferring => plan /= << >>, Plan
  PROVE  plan' \in Seq(Descriptors) /\ copied' \in Nat
<1>1. plan \in Seq(Descriptors) /\ copied \in Nat /\ job \in Descriptors
  BY DEF TypeOK
<1>2. ASSUME Transferring
      PROVE  Tail(plan) \in Seq(Descriptors) /\ plan[1] \in Descriptors
  BY <1>1, <1>2, HeadTailProperties, EmptySeq, ElementOfSeq, LenProperties
<1>3. Answered[1] \in Seq(Descriptors) /\ Answered[2] \in Nat
  <2>1. CASE ~Transferring \/ ~rsp.ack
    BY <1>1, <2>1 DEF Answered
  <2>2. CASE Transferring /\ rsp.ack /\ rsp.err
    BY <1>1, <1>2, <2>2 DEF Answered
  <2>3. CASE Transferring /\ rsp.ack /\ ~rsp.err
    BY <1>1, <1>2, <2>3 DEF Answered
  <2>4. QED BY <2>1, <2>2, <2>3
<1>4. Append(Answered[1], job) \in Seq(Descriptors)
  BY <1>1, <1>3, AppendProperties
<1>5. CASE ctrl.enable
  BY <1>3, <1>4, <1>5 DEF Plan
<1>6. CASE ~ctrl.enable /\ Transferring
  <2>1. << plan[1] >> \in Seq(Descriptors) /\ << >> \in Seq(Descriptors)
    BY <1>2, <1>6
  <2>2. \/ plan' = << plan[1] >> /\ copied' = copied
        \/ plan' = << >> /\ copied' = 0
    BY <1>6 DEF Plan
  <2>3. 0 \in Nat
    OBVIOUS
  <2>4. QED BY <1>1, <2>1, <2>2, <2>3, Zenon
<1>7. CASE ~ctrl.enable /\ ~Transferring
  BY <1>7 DEF Plan
<1>8. QED BY <1>5, <1>6, <1>7

LEMMA TypeStep ==
  ASSUME IInv, Clock
  PROVE  TypeOK'
<1>1. ctrl' \in [enable : BOOLEAN, start : BOOLEAN, err : BOOLEAN, done : BOOLEAN]
  BY CtrlTypeStep DEF IInv, Clock, Dma!Clock
<1>2. engine' \in EngineTypes
  BY EngineTypeStep DEF IInv, Clock, Dma!Clock
<1>3. data_buf' \in Dma!Word
  BY DEF IInv, TypeOK, Clock, Dma!Clock, Dma!SrcAlign
<1>4. FP!IInv'
  BY BufferStep DEF IInv, TypeOK, Clock, Dma!Clock
<1>5. BusTypeOK' /\ job' \in Descriptors /\ rest' \in Seq(Dma!Word)
  BY SoftwareTypeStep DEF IInv, Clock
<1>6. rsp' \in [ack : BOOLEAN, err : BOOLEAN, data : Dma!Word] /\ owed' \in BOOLEAN
  BY AnswerTypeStep DEF IInv, Clock
<1>7. plan' \in Seq(Descriptors) /\ copied' \in Nat
  <2>1. Transferring => plan /= << >>
    BY DEF IInv, Queued, Control, Quiet, Writing, Transferring
  <2>2. QED BY <2>1, PlanTypeStep DEF IInv, Clock
<1>8. QED BY <1>1, <1>2, <1>3, <1>4, <1>5, <1>6, <1>7 DEF TypeOK, EngineTypes

-----------------------------------------------------------------------------
\* The engine and software.

LEMMA StateStep ==
  ASSUME TypeOK, Dma!BusEngine
  PROVE  /\ engine.state = "S_CHECK" =>
              /\ engine'.state = IF Dma!Proceeds THEN "S_GET_0" ELSE "S_CHECK"
              /\ engine'.run <=> Dma!Proceeds
              /\ engine'.done <=> engine.run /\ ~Dma!Proceeds
         /\ engine.state /= "S_CHECK" => engine'.run = engine.run /\ engine'.done = engine.done
         /\ engine.state = "S_GET_0" => engine'.state = "S_GET_1"
         /\ engine.state = "S_GET_1" /\ Dma!Fifo!avail_o => engine'.state = "S_GET_2"
         /\ engine.state = "S_GET_2" /\ Dma!Fifo!avail_o => engine'.state = "S_GET_3"
         /\ engine.state = "S_GET_3" => engine'.state = "S_READ_REQ"
         /\ engine.state = "S_READ_REQ" => engine'.state = "S_READ_RSP"
         /\ engine.state = "S_READ_RSP" =>
              engine'.state = IF ~rsp.ack THEN "S_READ_RSP"
                              ELSE IF rsp.err THEN "S_CHECK" ELSE "S_WRITE_REQ"
         /\ engine.state = "S_WRITE_REQ" => engine'.state = "S_WRITE_RSP"
         /\ engine.state = "S_WRITE_RSP" =>
              engine'.state = IF ~rsp.ack THEN "S_WRITE_RSP"
                              ELSE IF ~engine.num_or \/ ~ctrl.enable \/ rsp.err
                              THEN "S_CHECK" ELSE "S_READ_REQ"
<1>1. engine \in EngineTypes
  BY DEF TypeOK, EngineTypes
<1>2. engine.state = "S_CHECK" => Dma!Check
  BY DEF Dma!BusEngine, Dma!Check, Dma!Get0, Dma!Get1, Dma!Get2, Dma!Get3,
     Dma!ReadReq, Dma!ReadRsp, Dma!WriteReq, Dma!WriteRsp
<1>3. engine.state /= "S_CHECK" =>
        \/ Dma!Get0 \/ Dma!Get1 \/ Dma!Get2 \/ Dma!Get3
        \/ Dma!ReadReq \/ Dma!ReadRsp \/ Dma!WriteReq \/ Dma!WriteRsp
  BY DEF Dma!BusEngine, Dma!Check
<1>4. Dma!Proceeds \in BOOLEAN
  BY DEF Dma!Proceeds, TypeOK
<1>5. CASE engine.state = "S_CHECK"
  BY <1>1, <1>2, <1>4, <1>5 DEF Dma!Check, EngineTypes
<1>6. CASE engine.state /= "S_CHECK"
  BY <1>1, <1>3, <1>6 DEF EngineTypes, Dma!Get0, Dma!Get1, Dma!Get2, Dma!Get3,
     Dma!ReadReq, Dma!ReadRsp, Dma!WriteReq, Dma!WriteRsp
<1>7. QED BY <1>5, <1>6

\* The control register in the next clock.
LEMMA CtrlStep ==
  ASSUME TypeOK, Dma!CtrlAccess
  PROVE  /\ bus.op /= "write_ctrl" => ctrl'.enable = ctrl.enable /\ ~ctrl'.start
         /\ bus.op = "write_ctrl" => ctrl'.enable = bus.enable /\ ctrl'.start = bus.start
         /\ ctrl'.done <=> /\ ctrl.enable /\ (ctrl.done \/ engine.done)
                           /\ ~(bus.op = "write_ctrl" /\ (bus.start \/ bus.ack))
         /\ ctrl'.err  <=> /\ ctrl.enable /\ (ctrl.err \/ engine.err)
                           /\ ~(bus.op = "write_ctrl" /\ (bus.start \/ bus.ack))
BY DEF TypeOK, BusTypeOK, Dma!CtrlAccess

LEMMA Idle ==
  ASSUME TypeOK, Control, Dma!BusEngine, Quiet
  PROVE  engine.state = "S_CHECK" /\ engine'.state = "S_CHECK" /\ ~engine'.run /\ ~engine'.done
<1>1. engine.state = "S_CHECK"
  BY DEF Control, Quiet
<1>2. ~Dma!Proceeds
  BY DEF Quiet, Dma!Proceeds
<1>3. QED BY <1>1, <1>2, StateStep DEF Quiet

\* Where nothing is queued, the engine stops with the transfer that runs.
LEMMA UnchainedStep ==
  ASSUME IInv, Clock, Unchained
  PROVE  Unchained' \/ ~engine'.run
<1>1. /\ TypeOK /\ Control /\ Status /\ Dma!BusEngine /\ Dma!DescriptorBuffer
  BY DEF IInv, Clock, Dma!Clock
<1>2. bus.op /= "write_desc" /\ ~Dma!fifo_re
  BY <1>1 DEF Control, Unchained, Quiet, Writing, Dma!fifo_re, Gets
<1>3. Contents' = << >>
  BY <1>1, <1>2, BufferStep DEF Unchained, TypeOK
<1>4. CASE engine.state = "S_CHECK"
  <2>1. ~Dma!Proceeds
    BY <1>1, <1>4 DEF Status, Unchained, Dma!Proceeds
  <2>2. QED BY <1>1, <1>4, <2>1, StateStep
<1>5. CASE engine.state /= "S_CHECK"
  <2>1. engine'.run /\ engine'.state \notin Gets
    BY <1>1, <1>5, StateStep DEF Unchained, Gets, Waiting, States, TypeOK
  <2>2. QED BY <1>3, <2>1 DEF Unchained
<1>6. QED BY <1>4, <1>5

LEMMA ControlStep ==
  ASSUME IInv, Clock
  PROVE  Control'
<1>1. /\ TypeOK /\ Control /\ Dma!BusEngine /\ Dma!CtrlAccess /\ Software
  BY DEF IInv, Clock, Dma!Clock
<1>2. ~engine'.run => engine'.state = "S_CHECK"
  BY <1>1, StateStep DEF Control, TypeOK, States, Gets, Waiting
<1>3. engine'.done => ~engine'.run
  BY <1>1, StateStep DEF Control
<1>4. Quiet => ~engine'.run
  BY <1>1, Idle
<1>5. ctrl'.start => ctrl'.enable /\ ~engine'.run
  BY <1>1, <1>4, CtrlStep DEF Control, TypeOK, BusTypeOK
<1>6. Unchained => Unchained' \/ ~engine'.run
  BY UnchainedStep
<1>7. ~ctrl'.enable => ~engine'.run \/ Unchained'
  <2>1. CASE ~ctrl.enable
    BY <1>1, <1>4, <1>6, <2>1 DEF Control, Quiet
  <2>2. CASE ctrl.enable
    BY <1>1, <1>4, <1>6, <2>2, CtrlStep DEF Control
  <2>3. QED BY <2>1, <2>2
<1>8. Quiet /\ bus.op /= "write_ctrl" => Quiet' /\ ctrl'.enable = ctrl.enable
  BY <1>1, <1>4, CtrlStep DEF Quiet
<1>9. ~ctrl.enable /\ ~engine.run => Quiet
  BY <1>1 DEF Control, Quiet
<1>10. CASE bus' = NoAccess /\ UNCHANGED << job, rest >>
  <2>1. bus'.op = "none"
    BY <1>10 DEF NoAccess
  <2>2. Writing' => rest /= << >>
    BY <1>10, <2>1 DEF Writing
  <2>3. QED BY <1>1, <1>2, <1>3, <1>5, <1>7, <1>8, <2>1, <2>2 DEF Control, Writing
<1>11. CASE /\ bus.op = "none" /\ bus'.op = "write_desc"
            /\ \/ rest /= << >>
               \/ ctrl.enable /\ Quiet
  BY <1>1, <1>2, <1>3, <1>5, <1>7, <1>8, <1>11 DEF Control, Writing
<1>12. CASE /\ bus.op = "none" /\ rest = << >> /\ rest' = rest
            /\ \/ ~ctrl.enable /\ ~engine.run /\ WriteCtrl(TRUE, FALSE, FALSE)
               \/ ctrl.enable /\ Quiet /\ WriteCtrl(TRUE, TRUE, FALSE)
               \/ ctrl.enable /\ Quiet /\ ctrl.done /\ WriteCtrl(TRUE, FALSE, TRUE)
               \/ ctrl.enable /\ MayDisable /\ WriteCtrl(FALSE, FALSE, FALSE)
  <2>1. bus'.op = "write_ctrl" /\ ~Writing'
    BY <1>12 DEF WriteCtrl, Writing
  <2>2. CASE Quiet
    <3>1. Quiet' /\ (bus'.start => ctrl'.enable) /\ (~bus'.enable => ~bus'.start /\ ~bus'.ack)
      BY <1>8, <1>12, <2>2 DEF WriteCtrl
    <3>2. QED BY <1>2, <1>3, <1>5, <1>7, <2>1, <3>1 DEF Control
  <2>3. CASE ~Quiet
    <3>1. ~bus'.enable /\ ~bus'.start /\ ~bus'.ack /\ Transferring /\ Contents = << >>
      BY <1>9, <1>12, <2>3 DEF WriteCtrl, MayDisable, Contents
    <3>2. Unchained
      BY <1>1, <3>1 DEF Unchained, Control, Transferring, Gets
    <3>3. ~engine'.run => Quiet'
      BY <1>5, <1>1, <1>12, CtrlStep DEF Quiet
    <3>4. QED BY <1>2, <1>3, <1>5, <1>6, <1>7, <2>1, <3>1, <3>2, <3>3 DEF Control
  <2>4. QED BY <2>2, <2>3
<1>13. CASE /\ bus.op = "none" /\ rest /= << >>
            /\ bus' = [op |-> "write_desc", word |-> Head(rest)]
  BY <1>11, <1>13
<1>14. CASE /\ bus.op = "none" /\ ctrl.enable /\ Quiet
            /\ bus' = [op |-> "write_desc", word |-> job'.src]
  BY <1>11, <1>14
<1>15. QED BY <1>1, <1>10, <1>12, <1>13, <1>14 DEF Software

-----------------------------------------------------------------------------
\* The status of the FIFO, the answers of the bus, the end of a transfer.

\* The engine takes a word only while one is there.
LEMMA GetsHold ==
  ASSUME IInv, engine.state \in Gets
  PROVE  /\ ctrl.enable /\ ~Writing /\ engine.run
         /\ engine.state /= "S_GET_3" => Contents /= << >>
<1>1. TypeOK /\ Control /\ Queued /\ Registers
  BY DEF IInv
<1>2. ctrl.enable /\ ~Writing /\ engine.run
  BY <1>1 DEF Control, Unchained, Quiet, Gets
<1>3. /\ Contents \in Seq(Dma!Word) /\ Len(Contents) \in Nat /\ Len(plan) \in Nat
      /\ Dma!Fifo!rdata_o \in Dma!Word /\ engine.src_addr \in Dma!Word
      /\ plan \in Seq(Descriptors)
  BY <1>1, FifoTypes, LenProperties DEF TypeOK
<1>4. CASE engine.state = "S_GET_0"
  <2>1. Layout(Contents, plan) /\ plan /= << >>
    BY <1>1, <1>2, <1>4 DEF Queued, Registers, Transferring
  <2>2. QED BY <1>2, <1>3, <2>1, LayoutEmpty
<1>5. CASE engine.state = "S_GET_1"
  <2>1. Len(<< Dma!Fifo!rdata_o >> \o Contents) = 3 * Len(plan)
    BY <1>1, <1>2, <1>5 DEF Queued, Layout, Transferring
  <2>2. Len(<< Dma!Fifo!rdata_o >> \o Contents) = 1 + Len(Contents)
    <3>1. << Dma!Fifo!rdata_o >> \in Seq(Dma!Word) /\ Len(<< Dma!Fifo!rdata_o >>) = 1
      BY <1>3
    <3>2. QED BY <1>3, <3>1, ConcatProperties
  <2>3. Len(Contents) /= 0
    BY <1>3, <2>1, <2>2
  <2>4. QED BY <1>2, <1>3, <2>3, EmptySeq
<1>6. CASE engine.state = "S_GET_2"
  <2>1. Len(<< engine.src_addr, Dma!Fifo!rdata_o >> \o Contents) = 3 * Len(plan)
    BY <1>1, <1>2, <1>6 DEF Queued, Layout, Transferring
  <2>2. Len(<< engine.src_addr, Dma!Fifo!rdata_o >> \o Contents) = 2 + Len(Contents)
    <3>1. /\ << engine.src_addr, Dma!Fifo!rdata_o >> \in Seq(Dma!Word)
          /\ Len(<< engine.src_addr, Dma!Fifo!rdata_o >>) = 2
      BY <1>3
    <3>2. QED BY <1>3, <3>1, ConcatProperties
  <2>3. Len(Contents) /= 0
    BY <1>3, <2>1, <2>2
  <2>4. QED BY <1>2, <1>3, <2>3, EmptySeq
<1>7. QED BY <1>2, <1>4, <1>5, <1>6 DEF Gets

LEMMA StatusStep ==
  ASSUME IInv, Clock
  PROVE  Status'
<1>1. /\ TypeOK /\ Control /\ Status /\ Dma!BusEngine /\ Dma!CtrlAccess
      /\ Dma!DescriptorBuffer /\ FP!IInv /\ BusTypeOK /\ ctrl.enable \in BOOLEAN
  BY DEF IInv, TypeOK, Clock, Dma!Clock
<1>2. ctrl'.start => (Dma!Fifo!avail_o' <=> Contents' /= << >>)
  <2>1. ctrl'.start => bus.op = "write_ctrl" /\ Quiet /\ ctrl.enable /\ ~Dma!fifo_re
    BY <1>1, CtrlStep DEF Control, Dma!fifo_re, TypeOK, BusTypeOK, Quiet
  <2>2. QED BY <1>1, <2>1, BufferStep
<1>3. ASSUME engine'.state = "S_CHECK", engine'.run
      PROVE  Dma!Fifo!avail_o' <=> Contents' /= << >>
  <2>1. engine.state \in Waiting
    BY <1>1, <1>3, StateStep DEF Status, TypeOK, States, Gets, Waiting
  <2>2. engine.run /\ ~Dma!fifo_re /\ bus.op /= "write_desc"
    BY <1>1, <2>1 DEF Control, Waiting, Dma!fifo_re, Writing, Quiet
  <2>3. Contents' = Contents
    BY <1>1, <2>2, BufferStep DEF Control, Unchained
  <2>4. QED BY <1>1, <2>3, BufferStep
<1>4. engine'.state \in {"S_GET_1", "S_GET_2"} => Dma!Fifo!avail_o'
  <2>1. engine'.state \in {"S_GET_1", "S_GET_2"} => engine.state \in {"S_GET_0", "S_GET_1"}
    BY <1>1, StateStep DEF Status, TypeOK, States, Gets, Waiting
  <2>2. engine.state \in {"S_GET_0", "S_GET_1"} => Contents /= << >>
    BY GetsHold DEF Gets
  <2>3. QED BY <1>1, <2>1, <2>2, BufferStep
<1>5. QED BY <1>2, <1>3, <1>4 DEF Status

LEMMA AnswersStep ==
  ASSUME IInv, Clock
  PROVE  Answers'
<1>1. TypeOK /\ Answers /\ Status /\ Dma!BusEngine /\ Bus
  BY DEF IInv, Clock, Dma!Clock
<1>2. /\ Dma!dma_req_o.stb = (engine.state \in {"S_READ_REQ", "S_WRITE_REQ"})
      /\ Dma!dma_req_o.rw = ~Dma!Reading
      /\ Dma!dma_req_o.addr = IF Dma!Reading THEN engine.src_addr ELSE engine.dst_addr
  BY DEF Dma!dma_req_o
<1>3. \/ ~rsp'.ack /\ owed' = (owed \/ Dma!dma_req_o.stb)
      \/ /\ owed \/ Dma!dma_req_o.stb
         /\ owed' = FALSE /\ rsp'.ack
         /\ ~rsp'.err => rsp'.data = IF Dma!dma_req_o.rw THEN 0 ELSE Dma!dma_req_o.addr
  BY <1>1 DEF Bus, NoAnswer
<1>4. rsp'.ack \/ owed' => owed \/ engine.state \in {"S_READ_REQ", "S_WRITE_REQ"}
  BY <1>2, <1>3
<1>5. ~(rsp'.ack /\ owed')
  BY <1>3
<1>6. owed => ~rsp.ack /\ engine.state \in Waiting
  BY <1>1 DEF Answers
<1>7. rsp'.ack \/ owed' =>
        /\ engine'.state \in Waiting
        /\ engine'.state = "S_READ_RSP" => engine.state \in {"S_READ_REQ", "S_READ_RSP"}
  BY <1>1, <1>4, <1>6, StateStep DEF Waiting
<1>8. ASSUME rsp'.ack, ~rsp'.err, engine'.state = "S_READ_RSP"
      PROVE  rsp'.data = engine'.src_addr
  <2>1. engine.state \in {"S_READ_REQ", "S_READ_RSP"}
    BY <1>7, <1>8
  <2>2. rsp'.data = engine.src_addr
    BY <1>2, <1>3, <1>8, <2>1 DEF Dma!Reading
  <2>3. engine'.src_addr = engine.src_addr
    BY <1>1, <2>1 DEF TypeOK, Dma!BusEngine, Dma!Check, Dma!Get0, Dma!Get1, Dma!Get2,
       Dma!Get3, Dma!ReadReq, Dma!ReadRsp, Dma!WriteReq, Dma!WriteRsp
  <2>4. QED BY <2>2, <2>3
<1>9. engine'.state \in Waiting => rsp'.ack \/ owed'
  <2>1. engine'.state \in Waiting =>
          \/ engine.state \in {"S_READ_REQ", "S_WRITE_REQ"}
          \/ engine.state \in Waiting /\ ~rsp.ack
    BY <1>1, StateStep DEF Waiting, TypeOK, States, Gets, Answers, Status
  <2>2. engine.state \in Waiting /\ ~rsp.ack => owed
    BY <1>1 DEF Answers
  <2>3. QED BY <1>2, <1>3, <2>1, <2>2
<1>10. QED BY <1>5, <1>7, <1>8, <1>9 DEF Answers

LEMMA StoppedStep ==
  ASSUME IInv, Clock
  PROVE  Stopped'
<1>1. /\ TypeOK /\ Control /\ Status /\ Queued /\ Dma!BusEngine /\ Dma!CtrlAccess /\ Plan
  BY DEF IInv, Clock, Dma!Clock
<1>2. SUFFICES ASSUME engine'.done, ctrl'.enable
               PROVE  plan' = << >> \/ ctrl'.err
  BY DEF Stopped
<1>3. engine.state = "S_CHECK" /\ engine.run /\ ~Dma!Proceeds
  BY <1>1, <1>2, StateStep DEF Control
<1>4. ~Writing /\ ~Quiet /\ ~Transferring
  BY <1>1, <1>3 DEF Control, Quiet, Transferring
<1>5. ctrl.enable
  BY <1>1, <1>2, <1>4, CtrlStep DEF Control
<1>6. ~(bus.op = "write_ctrl" /\ (bus.start \/ bus.ack))
  BY <1>1, <1>4 DEF Control
<1>7. plan' = plan
  BY <1>1, <1>4, <1>5 DEF Plan, Answered, Writing
<1>8. CASE ctrl.err \/ engine.err
  BY <1>1, <1>5, <1>6, <1>8, CtrlStep
<1>9. CASE ~ctrl.err /\ ~engine.err
  <2>1. ~Dma!Fifo!avail_o
    BY <1>3, <1>9 DEF Dma!Proceeds
  <2>2. Contents = << >>
    BY <1>1, <1>3, <2>1 DEF Status
  <2>3. Layout(<< >>, plan)
    BY <1>1, <1>3, <1>4, <2>2 DEF Queued, Transferring
  <2>4. plan = << >>
    <3>1. plan \in Seq(Descriptors) /\ << >> \in Seq(Dma!Word)
      BY <1>1 DEF TypeOK
    <3>2. QED BY <2>3, <3>1, LayoutEmpty
  <2>5. QED BY <1>7, <2>4
<1>10. QED BY <1>8, <1>9

-----------------------------------------------------------------------------
\* The descriptors in the queue.

\* What becomes of the plan while the engine transfers: it goes on with the
\* same descriptor, or it leaves it and looks for the next one.
GoesOn ==
  /\ Transferring' /\ plan' /= << >> /\ plan'[1] = plan[1]
  /\ Tail(plan') = IF ctrl.enable THEN Tail(plan) ELSE << >>
  /\ copied' = IF engine.state = "S_WRITE_RSP" /\ engine'.state = "S_READ_REQ"
               THEN copied + 1 ELSE copied
  /\ copied' < plan[1].num
Leaves ==
  /\ engine'.state = "S_CHECK"
  /\ plan' = IF ctrl.enable THEN Tail(plan) ELSE << >>
  /\ copied' = 0

LEMMA InTransfer ==
  ASSUME IInv, Transferring
  PROVE  /\ plan \in Seq(Descriptors) /\ plan /= << >> /\ plan[1] \in Descriptors
         /\ Layout(Contents, Tail(plan))
         /\ copied \in Nat /\ copied < plan[1].num /\ plan[1].num \in Nat
         /\ ~Writing /\ engine.run /\ engine.state \notin Gets /\ engine.state /= "S_CHECK"
<1>1. TypeOK /\ Control /\ Queued /\ Registers
  BY DEF IInv
<1>2. ~Writing /\ engine.run /\ engine.state \notin Gets /\ engine.state /= "S_CHECK"
  BY <1>1 DEF Control, Quiet, Transferring, Gets
<1>3. plan /= << >> /\ Layout(Contents, Tail(plan)) /\ plan \in Seq(Descriptors)
  BY <1>1, <1>2 DEF Queued, Gets, TypeOK
<1>4. plan[1] \in Descriptors
  BY <1>3, EmptySeq, ElementOfSeq, LenProperties
<1>5. plan[1].num \in Nat
  BY <1>4, WordsForm, DmaAssumption
<1>6. QED BY <1>1, <1>2, <1>3, <1>4, <1>5 DEF Registers, TypeOK

LEMMA TransferStep ==
  ASSUME IInv, Clock, Transferring
  PROVE  GoesOn \/ Leaves
<1>1. /\ TypeOK /\ Registers /\ Answers /\ Dma!BusEngine /\ Plan
  BY DEF IInv, Clock, Dma!Clock
<1>2. /\ plan \in Seq(Descriptors) /\ plan /= << >> /\ copied \in Nat
      /\ copied < plan[1].num /\ plan[1].num \in Nat /\ ~Writing
  BY InTransfer
<1>3. engine.state \notin Waiting => ~rsp.ack
  BY <1>1 DEF Answers
<1>4. ctrl.enable => plan' = Answered[1] /\ copied' = Answered[2]
  BY <1>1, <1>2 DEF Plan, Writing
<1>5. Tail(<< plan[1] >>) = << >> /\ << plan[1] >> /= << >> /\ << plan[1] >>[1] = plan[1]
  OBVIOUS
<1>6. CASE ~rsp.ack
  <2>1. Transferring' /\ ~(engine.state = "S_WRITE_RSP" /\ engine'.state = "S_READ_REQ")
    BY <1>1, <1>6, StateStep DEF Transferring
  <2>2. CASE ctrl.enable
    <3>1. plan' = plan /\ copied' = copied
      BY <1>4, <1>6, <2>2 DEF Answered
    <3>2. QED BY <1>2, <2>1, <2>2, <3>1 DEF GoesOn
  <2>3. CASE ~ctrl.enable
    <3>1. plan' = << plan[1] >> /\ copied' = copied
      BY <1>1, <1>6, <2>3 DEF Plan
    <3>2. QED BY <1>2, <1>5, <2>1, <2>3, <3>1 DEF GoesOn
  <2>4. QED BY <2>2, <2>3
<1>7. CASE rsp.ack /\ engine.state = "S_READ_RSP" /\ ~rsp.err
  <2>1. Transferring' /\ ~(engine.state = "S_WRITE_RSP" /\ engine'.state = "S_READ_REQ")
    BY <1>1, <1>7, StateStep DEF Transferring
  <2>2. CASE ctrl.enable
    <3>1. plan' = plan /\ copied' = copied
      BY <1>4, <1>7, <2>2 DEF Answered
    <3>2. QED BY <1>2, <2>1, <2>2, <3>1 DEF GoesOn
  <2>3. CASE ~ctrl.enable
    <3>1. plan' = << plan[1] >> /\ copied' = copied
      BY <1>1, <1>7, <2>3 DEF Plan
    <3>2. QED BY <1>2, <1>5, <2>1, <2>3, <3>1 DEF GoesOn
  <2>4. QED BY <2>2, <2>3
<1>8. CASE rsp.ack /\ rsp.err
  <2>1. engine'.state = "S_CHECK"
    BY <1>1, <1>3, <1>8, StateStep DEF Waiting
  <2>2. CASE ctrl.enable
    BY <1>4, <1>8, <2>1, <2>2 DEF Answered, Leaves
  <2>3. CASE ~ctrl.enable
    BY <1>1, <1>8, <2>1, <2>3 DEF Plan, Leaves
  <2>4. QED BY <2>2, <2>3
<1>9. CASE rsp.ack /\ ~rsp.err /\ engine.state = "S_WRITE_RSP"
  <2>1. engine.num_or = (copied + 1 < plan[1].num)
    BY <1>1, <1>9 DEF Registers
  <2>2. CASE ~ctrl.enable
    <3>1. engine'.state = "S_CHECK"
      BY <1>1, <1>9, <2>2, StateStep
    <3>2. QED BY <1>1, <1>9, <2>2, <3>1 DEF Plan, Leaves
  <2>3. CASE ctrl.enable /\ copied + 1 = plan[1].num
    <3>1. ~engine.num_or
      <4>1. ~(copied + 1 < plan[1].num)
        BY <1>2, <2>3
      <4>2. QED BY <2>1, <4>1
    <3>2. engine'.state = "S_CHECK"
      BY <1>1, <1>9, <3>1, StateStep
    <3>3. QED BY <1>4, <1>9, <2>3, <3>2 DEF Answered, Leaves
  <2>4. CASE ctrl.enable /\ copied + 1 /= plan[1].num
    <3>1. copied + 1 < plan[1].num
      BY <1>2, <2>4
    <3>2. engine'.state = "S_READ_REQ"
      BY <1>1, <1>9, <2>1, <2>4, <3>1, StateStep
    <3>3. plan' = plan /\ copied' = copied + 1
      BY <1>4, <1>9, <2>4 DEF Answered
    <3>4. QED BY <1>2, <1>9, <2>4, <3>1, <3>2, <3>3 DEF GoesOn, Transferring
  <2>5. QED BY <2>2, <2>3, <2>4
<1>10. QED BY <1>1, <1>3, <1>6, <1>7, <1>8, <1>9 DEF Waiting, TypeOK

\* The words of a descriptor on their way to the FIFO.
LEMMA WritingStep ==
  ASSUME IInv, Clock, Writing
  PROVE  Queued'
<1>1. /\ TypeOK /\ Control /\ Queued /\ Dma!BusEngine /\ Dma!DescriptorBuffer /\ Plan
      /\ Software /\ FP!IInv /\ BusTypeOK /\ ctrl.enable \in BOOLEAN
  BY DEF IInv, TypeOK, Clock, Dma!Clock
<1>2. ctrl.enable /\ Quiet /\ bus.op /= "write_ctrl"
  BY <1>1 DEF Control
<1>3. engine.state = "S_CHECK" /\ engine'.state = "S_CHECK"
  BY <1>1, <1>2, Idle
<1>4. ~Dma!fifo_re /\ ~Transferring /\ ~Transferring'
  BY <1>3 DEF Dma!fifo_re, Transferring
<1>5. /\ Layout(Contents \o Pending, Append(plan, job))
      /\ Len(Contents) + Len(Pending) <= Depth
  BY <1>1 DEF Queued
<1>6. /\ Contents \in Seq(Dma!Word) /\ Len(Contents) \in Nat /\ rest \in Seq(Dma!Word)
      /\ Len(rest) \in Nat
  BY <1>1, FifoTypes, LenProperties DEF TypeOK
<1>7. plan' = IF bus.op = "write_desc" /\ rest = << >> THEN Append(plan, job) ELSE plan
  BY <1>1, <1>2, <1>4 DEF Plan, Answered
<1>8. CASE bus.op = "write_desc"
  <2>1. bus' = NoAccess /\ rest' = rest /\ job' = job /\ bus'.op = "none"
    BY <1>1, <1>8 DEF Software, NoAccess
  <2>2. bus.word \in Dma!Word /\ Pending = << bus.word >> \o rest
    BY <1>1, <1>8 DEF BusTypeOK, Pending
  <2>3. Len(Pending) = 1 + Len(rest)
    <3>1. << bus.word >> \in Seq(Dma!Word) /\ Len(<< bus.word >>) = 1
      BY <2>2
    <3>2. QED BY <1>6, <2>2, <3>1, ConcatProperties
  <2>4. Contents' = Append(Contents, bus.word)
    BY <1>1, <1>2, <1>4, <1>5, <1>6, <1>8, <2>3, BufferStep, DmaAssumption
  <2>5. Contents' \o rest = Contents \o Pending
    BY <1>6, <2>2, <2>4, MoveWord
  <2>6. Contents' \in Seq(Dma!Word) /\ Len(Contents') = Len(Contents) + 1
    BY <1>6, <2>2, <2>4, AppendProperties
  <2>7. CASE rest = << >>
    <3>1. ~Writing'
      BY <2>1, <2>7 DEF Writing
    <3>2. Contents' \o rest = Contents'
      BY <2>6, <2>7, ConcatEmptySeq
    <3>3. Layout(Contents', plan')
      BY <1>5, <1>7, <1>8, <2>5, <2>7, <3>2
    <3>4. QED BY <1>3, <1>4, <3>1, <3>3 DEF Queued
  <2>8. CASE rest /= << >>
    <3>1. Writing' /\ Pending' = rest
      BY <2>1, <2>8 DEF Writing, Pending
    <3>2. plan' = plan
      BY <1>7, <2>8
    <3>3. Layout(Contents' \o Pending', Append(plan', job'))
      BY <1>5, <2>1, <2>5, <3>1, <3>2
    <3>4. Len(Contents') + Len(Pending') <= Depth
      BY <1>5, <1>6, <2>3, <2>6, <3>1, DmaAssumption
    <3>5. QED BY <3>1, <3>3, <3>4 DEF Queued
  <2>9. QED BY <2>7, <2>8
<1>9. CASE bus.op /= "write_desc"
  <2>1. rest /= << >> /\ Pending = rest /\ bus.op = "none"
    BY <1>1, <1>2, <1>9 DEF Writing, Pending, BusTypeOK
  <2>2. Contents' = Contents /\ plan' = plan
    BY <1>1, <1>2, <1>4, <1>7, <1>9, BufferStep
  <2>3. job' = job /\ Writing' /\ Pending' = rest
    <3>1. CASE bus' = NoAccess /\ UNCHANGED << job, rest >>
      BY <2>1, <3>1 DEF NoAccess, Writing, Pending
    <3>2. CASE /\ bus' = [op |-> "write_desc", word |-> Head(rest)] /\ rest' = Tail(rest)
               /\ UNCHANGED job
      <4>1. rest = << rest[1] >> \o Tail(rest) /\ Head(rest) = rest[1]
        BY <1>6, <2>1, HeadAndTail, HeadTailProperties
      <4>2. bus'.op = "write_desc" /\ bus'.word = Head(rest)
        BY <3>2
      <4>3. QED BY <3>2, <4>1, <4>2 DEF Writing, Pending
    <3>3. QED BY <1>1, <2>1, <3>1, <3>2 DEF Software
  <2>4. Layout(Contents' \o Pending', Append(plan', job')) /\ Len(Contents') + Len(Pending') <= Depth
    BY <1>5, <2>1, <2>2, <2>3
  <2>5. QED BY <2>3, <2>4 DEF Queued
<1>10. QED BY <1>8, <1>9

\* A new descriptor: there is room for its words.
LEMMA ProgramStep ==
  ASSUME IInv, Clock, ~Writing, Writing'
  PROVE  Queued'
<1>1. /\ TypeOK /\ Control /\ Queued /\ Dma!BusEngine /\ Dma!DescriptorBuffer /\ Plan
      /\ Software /\ FP!IInv /\ BusTypeOK /\ ctrl.enable \in BOOLEAN
  BY DEF IInv, TypeOK, Clock, Dma!Clock
<1>2. rest = << >> /\ bus.op /= "write_desc"
  BY DEF Writing
<1>3. /\ bus.op = "none" /\ ctrl.enable /\ Quiet /\ Room
      /\ job' \in Descriptors /\ bus' = [op |-> "write_desc", word |-> job'.src]
      /\ rest' = Tail(Words(job'))
  BY <1>1, <1>2 DEF Software, NoAccess, WriteCtrl, Writing
<1>4. engine.state = "S_CHECK"
  BY <1>1, <1>3, Idle
<1>5. ~Dma!fifo_re /\ ~Transferring
  BY <1>4 DEF Dma!fifo_re, Transferring
<1>6. Contents' = Contents
  BY <1>1, <1>2, <1>3, <1>5, BufferStep
<1>7. plan' = plan
  BY <1>1, <1>2, <1>3, <1>5 DEF Plan, Answered
<1>8. Layout(Contents, plan)
  BY <1>1, <1>4, <1>5 DEF Queued
<1>9. PICK v \in Seq(Dma!Word) : v = Words(job') /\ Len(v) = 3 /\ v[1] = job'.src
  BY <1>3, WordsForm
<1>10. Pending' = v
  <2>1. v = << v[1] >> \o Tail(v)
    <3>1. Len(v) /= 0
      BY <1>9
    <3>2. v /= << >>
      BY <3>1
    <3>3. QED BY <3>2, HeadAndTail
  <2>2. bus'.op = "write_desc" /\ bus'.word = job'.src
    BY <1>3
  <2>3. QED BY <1>3, <1>9, <2>1, <2>2 DEF Pending
<1>11. Layout(Contents \o Words(job'), Append(plan, job'))
  BY <1>1, <1>3, <1>8, FifoTypes, LayoutAppend DEF TypeOK
<1>12. Len(Contents) + 3 <= Depth
  BY <1>3 DEF Room, Contents
<1>13. QED BY <1>6, <1>7, <1>9, <1>10, <1>11, <1>12 DEF Queued

\* Otherwise the queue changes only at its other end.
LEMMA ReadingStep ==
  ASSUME IInv, Clock, ~Writing, ~Writing'
  PROVE  Queued'
<1>1. /\ TypeOK /\ Control /\ Queued /\ Status /\ Dma!BusEngine /\ Dma!DescriptorBuffer
      /\ Plan /\ FP!IInv /\ BusTypeOK /\ ctrl.enable \in BOOLEAN /\ plan \in Seq(Descriptors)
      /\ engine \in EngineTypes
  BY DEF IInv, TypeOK, EngineTypes, Clock, Dma!Clock
<1>2. bus.op /= "write_desc"
  BY DEF Writing
<1>3. ~Transferring /\ ctrl.enable => plan' = plan
  BY <1>1, <1>2 DEF Plan, Answered
<1>4. Contents \in Seq(Dma!Word) /\ Dma!Fifo!rdata_o \in Dma!Word /\ engine.src_addr \in Dma!Word
      /\ engine.dst_addr \in Dma!Word
  BY <1>1, FifoTypes DEF EngineTypes
<1>5. CASE engine.state = "S_CHECK"
  <2>1. ~Dma!fifo_re /\ ~Transferring /\ engine'.state \in {"S_CHECK", "S_GET_0"}
    BY <1>1, <1>5, StateStep DEF Dma!fifo_re, Transferring
  <2>2. Layout(Contents', plan')
    <3>1. CASE ctrl.enable
      <4>1. Contents' = Contents /\ plan' = plan
        BY <1>1, <1>2, <1>3, <2>1, <3>1, BufferStep
      <4>2. QED BY <1>1, <1>5, <2>1, <4>1 DEF Queued
    <3>2. CASE ~ctrl.enable
      <4>1. Contents' = << >> /\ plan' = << >>
        BY <1>1, <2>1, <3>2, BufferStep DEF Plan
      <4>2. QED BY <4>1, LayoutNone
    <3>3. QED BY <3>1, <3>2
  <2>3. QED BY <2>1, <2>2 DEF Queued, Transferring
<1>6. CASE engine.state \in {"S_GET_0", "S_GET_1", "S_GET_2"}
  <2>1. ctrl.enable /\ Contents /= << >> /\ Dma!fifo_re /\ ~Transferring
    BY <1>6, GetsHold DEF Gets, Dma!fifo_re, Transferring
  <2>2. /\ Contents' = Tail(Contents) /\ plan' = plan
        /\ Dma!Fifo!rdata_o' = Contents[1]
    BY <1>1, <1>2, <1>3, <2>1, BufferStep
  <2>3. /\ Contents = << Contents[1] >> \o Tail(Contents)
        /\ Contents[1] \in Dma!Word /\ Tail(Contents) \in Seq(Dma!Word)
    BY <1>4, <2>1, HeadAndTail
  <2>4. CASE engine.state = "S_GET_0"
    <3>1. engine'.state = "S_GET_1"
      BY <1>1, <2>4, StateStep
    <3>2. Layout(Contents, plan)
      BY <1>1, <2>1, <2>4 DEF Queued
    <3>3. Layout(<< Dma!Fifo!rdata_o' >> \o Contents', plan')
      BY <2>2, <2>3, <3>2
    <3>4. QED BY <3>1, <3>3 DEF Queued, Transferring
  <2>5. CASE engine.state = "S_GET_1"
    <3>1. engine'.state = "S_GET_2" /\ engine'.src_addr = Dma!Fifo!rdata_o
      BY <1>1, <2>5, StateStep DEF Status, EngineTypes, Dma!BusEngine, Dma!Check, Dma!Get0,
         Dma!Get1, Dma!Get2, Dma!Get3, Dma!ReadReq, Dma!ReadRsp, Dma!WriteReq, Dma!WriteRsp
    <3>2. Layout(<< Dma!Fifo!rdata_o >> \o Contents, plan)
      BY <1>1, <2>1, <2>5 DEF Queued
    <3>3. << Dma!Fifo!rdata_o >> \o Contents
            = << Dma!Fifo!rdata_o, Contents[1] >> \o Tail(Contents)
      <4>1. << Dma!Fifo!rdata_o >> \in Seq(Dma!Word)
        BY <1>4
      <4>2. << Dma!Fifo!rdata_o >> \o (<< Contents[1] >> \o Tail(Contents))
              = Append(<< Dma!Fifo!rdata_o >>, Contents[1]) \o Tail(Contents)
        BY <2>3, <4>1, MoveWord
      <4>3. Append(<< Dma!Fifo!rdata_o >>, Contents[1]) = << Dma!Fifo!rdata_o, Contents[1] >>
        BY <1>4, <2>3, AppendWord
      <4>4. QED BY <2>3, <4>2, <4>3
    <3>4. Layout(<< engine'.src_addr, Dma!Fifo!rdata_o' >> \o Contents', plan')
      BY <2>2, <3>1, <3>2, <3>3
    <3>5. QED BY <3>1, <3>4 DEF Queued, Transferring
  <2>6. CASE engine.state = "S_GET_2"
    <3>1. /\ engine'.state = "S_GET_3" /\ engine'.dst_addr = Dma!Fifo!rdata_o
          /\ engine'.src_addr = engine.src_addr
      BY <1>1, <2>6, StateStep DEF Status, EngineTypes, Dma!BusEngine, Dma!Check, Dma!Get0,
         Dma!Get1, Dma!Get2, Dma!Get3, Dma!ReadReq, Dma!ReadRsp, Dma!WriteReq, Dma!WriteRsp
    <3>2. Layout(<< engine.src_addr, Dma!Fifo!rdata_o >> \o Contents, plan)
      BY <1>1, <2>1, <2>6 DEF Queued
    <3>3. << engine.src_addr, Dma!Fifo!rdata_o >> \o Contents
            = << engine.src_addr, Dma!Fifo!rdata_o, Contents[1] >> \o Tail(Contents)
      <4>1. << engine.src_addr, Dma!Fifo!rdata_o >> \in Seq(Dma!Word)
        BY <1>4
      <4>2. << engine.src_addr, Dma!Fifo!rdata_o >> \o (<< Contents[1] >> \o Tail(Contents))
              = Append(<< engine.src_addr, Dma!Fifo!rdata_o >>, Contents[1]) \o Tail(Contents)
        BY <2>3, <4>1, MoveWord
      <4>3. Append(<< engine.src_addr, Dma!Fifo!rdata_o >>, Contents[1])
              = << engine.src_addr, Dma!Fifo!rdata_o, Contents[1] >>
        BY <1>4, <2>3, AppendWord
      <4>4. QED BY <2>3, <4>2, <4>3
    <3>4. Layout(<< engine'.src_addr, engine'.dst_addr, Dma!Fifo!rdata_o' >> \o Contents', plan')
      BY <2>2, <3>1, <3>2, <3>3
    <3>5. QED BY <3>1, <3>4 DEF Queued, Transferring
  <2>7. QED BY <1>6, <2>4, <2>5, <2>6
<1>7. CASE engine.state = "S_GET_3"
  <2>1. ctrl.enable /\ ~Dma!fifo_re /\ ~Transferring
    BY <1>7, GetsHold DEF Gets, Dma!fifo_re, Transferring
  <2>2. Contents' = Contents /\ plan' = plan
    BY <1>1, <1>2, <1>3, <2>1, BufferStep
  <2>3. engine'.state = "S_READ_REQ"
    BY <1>1, <1>7, StateStep
  <2>4. Layout(<< engine.src_addr, engine.dst_addr, Dma!Fifo!rdata_o >> \o Contents, plan)
    BY <1>1, <1>7, <2>1 DEF Queued
  <2>5. plan /= << >> /\ Layout(Contents, Tail(plan))
    BY <1>1, <1>4, <2>4, LayoutTake
  <2>6. QED BY <2>2, <2>3, <2>5 DEF Queued, Gets, Transferring
<1>8. CASE Transferring
  <2>1. Layout(Contents, Tail(plan)) /\ engine.state \notin Gets /\ engine.run
    BY <1>8, InTransfer
  <2>2. ~Dma!fifo_re
    BY <2>1 DEF Dma!fifo_re, Gets
  <2>3. ctrl.enable => Contents' = Contents
    BY <1>1, <1>2, <2>2, BufferStep
  <2>4. ~ctrl.enable => Contents' = << >>
    BY <1>1, BufferStep
  <2>5. CASE GoesOn
    <3>1. Transferring' /\ plan' /= << >> /\ Layout(Contents', Tail(plan'))
      BY <2>1, <2>3, <2>4, <2>5, LayoutNone DEF GoesOn
    <3>2. QED BY <3>1 DEF Queued, Transferring
  <2>6. CASE Leaves
    <3>1. engine'.state = "S_CHECK" /\ Layout(Contents', plan')
      BY <2>1, <2>3, <2>4, <2>6, LayoutNone DEF Leaves
    <3>2. QED BY <3>1 DEF Queued, Transferring
  <2>7. QED BY <1>8, <2>5, <2>6, TransferStep
<1>9. QED BY <1>1, <1>5, <1>6, <1>7, <1>8 DEF EngineTypes, States, Gets, Waiting, Transferring

LEMMA QueuedStep ==
  ASSUME IInv, Clock
  PROVE  Queued'
BY WritingStep, ProgramStep, ReadingStep

-----------------------------------------------------------------------------
\* The registers of the engine.

\* An element before the last one leaves a counter above zero.
LEMMA FirstStep ==
  ASSUME IInv, Clock, engine.state = "S_GET_3"
  PROVE  Registers'
<1>1. /\ TypeOK /\ Queued /\ Registers /\ Dma!BusEngine /\ Plan /\ engine \in EngineTypes
      /\ plan \in Seq(Descriptors) /\ FP!IInv
  BY DEF IInv, TypeOK, EngineTypes, Clock, Dma!Clock
<1>2. ctrl.enable /\ ~Writing /\ ~Transferring
  BY GetsHold DEF Gets, Transferring
<1>3. plan' = plan /\ copied' = 0
  BY <1>1, <1>2 DEF Plan, Answered, Writing, Registers
<1>4. Layout(<< engine.src_addr, engine.dst_addr, Dma!Fifo!rdata_o >> \o Contents, plan)
  BY <1>1, <1>2 DEF Queued
<1>5. plan /= << >> /\ << engine.src_addr, engine.dst_addr, Dma!Fifo!rdata_o >> = Words(plan[1])
  BY <1>1, <1>4, FifoTypes, LayoutTake DEF EngineTypes
<1>6. plan[1] \in Descriptors
  BY <1>1, <1>5, EmptySeq, ElementOfSeq, LenProperties
<1>7. /\ engine.src_addr = plan[1].src /\ engine.dst_addr = plan[1].dst
      /\ Dma!Fifo!rdata_o = Dma!Config(plan[1].num, plan[1].src_inc, plan[1].dst_inc)
  BY <1>5, <1>6, WordsForm
<1>8. /\ engine'.state = "S_READ_REQ" /\ engine'.num_or = engine.num_or
      /\ engine'.src_addr = engine.src_addr /\ engine'.dst_addr = engine.dst_addr
      /\ engine'.num = plan[1].num /\ engine'.src_inc = plan[1].src_inc
      /\ engine'.dst_inc = plan[1].dst_inc
  <2>1. Dma!Get3
    BY <1>1 DEF Dma!BusEngine, Dma!Check, Dma!Get0,
         Dma!Get1, Dma!Get2, Dma!Get3, Dma!ReadReq, Dma!ReadRsp, Dma!WriteReq, Dma!WriteRsp
  <2>2. QED BY <1>1, <1>6, <1>7, <2>1, ConfigFields DEF Dma!Get3, EngineTypes
<1>9. ~engine.num_or
  BY <1>1 DEF Registers, Gets
<1>10. /\ Source(plan[1], 0) = plan[1].src /\ Destination(plan[1], 0) = plan[1].dst
       /\ plan[1].num \in 1 .. NUM - 1
  BY <1>6, WordsForm, PlaceSteps DEF Source, Destination
<1>11. Transferring' /\ Dma!Reading'
  BY <1>8 DEF Transferring, Dma!Reading
<1>12. engine'.num_or = FALSE /\ engine'.num = plan[1].num - 0 /\ 0 < plan[1].num
  <2>1. engine.num_or \in BOOLEAN
    BY <1>1 DEF EngineTypes
  <2>2. QED BY <1>8, <1>9, <1>10, <2>1, DmaAssumption
<1>13. (copied' > 0) = FALSE /\ plan'[1] = plan[1]
  BY <1>3
<1>14. QED BY <1>3, <1>7, <1>8, <1>10, <1>11, <1>12, <1>13 DEF Registers, Gets

\* Between two transfers, and while a descriptor is taken from the FIFO.
LEMMA FetchStep ==
  ASSUME IInv, Clock, engine.state \in {"S_CHECK", "S_GET_0", "S_GET_1", "S_GET_2"}
  PROVE  Registers'
<1>1. /\ TypeOK /\ Control /\ Status /\ Queued /\ Registers /\ Dma!BusEngine /\ Plan
      /\ engine \in EngineTypes /\ plan \in Seq(Descriptors) /\ FP!IInv
  BY DEF IInv, TypeOK, EngineTypes, Clock, Dma!Clock
<1>2. ~Transferring
  BY DEF Transferring
<1>3. copied' = 0
  BY <1>1, <1>2 DEF Plan, Answered, Registers
<1>4. CASE engine.state = "S_CHECK"
  <2>1. engine'.num_or = FALSE
    BY <1>1, <1>4 DEF EngineTypes, Dma!BusEngine, Dma!Check, Dma!Get0, Dma!Get1, Dma!Get2,
       Dma!Get3, Dma!ReadReq, Dma!ReadRsp, Dma!WriteReq, Dma!WriteRsp
  <2>2. CASE ~Dma!Proceeds
    <3>1. engine'.state = "S_CHECK"
      BY <1>1, <1>4, <2>2, StateStep
    <3>2. QED BY <1>3, <3>1 DEF Registers, Gets, Transferring
  <2>3. CASE Dma!Proceeds
    <3>1. engine'.state = "S_GET_0"
      BY <1>1, <1>4, <2>3, StateStep
    <3>2. Dma!Fifo!avail_o /\ (engine.run \/ ctrl.start) /\ ~Quiet
      BY <2>3 DEF Dma!Proceeds, Quiet
    <3>3. ~Writing /\ Contents /= << >>
      BY <1>1, <1>4, <3>2 DEF Control, Status
    <3>4. ctrl.enable
      BY <1>1, <3>2, <3>3 DEF Control, Unchained
    <3>5. Layout(Contents, plan)
      BY <1>1, <1>4, <3>3, <1>2 DEF Queued
    <3>6. plan /= << >>
      BY <1>1, <3>3, <3>5, FifoTypes, LayoutEmpty
    <3>7. plan' = plan
      BY <1>1, <1>2, <3>3, <3>4 DEF Plan, Answered, Writing
    <3>8. QED BY <1>3, <2>1, <3>1, <3>6, <3>7 DEF Registers, Gets, Transferring
  <2>4. QED BY <2>2, <2>3
<1>5. CASE engine.state \in {"S_GET_0", "S_GET_1", "S_GET_2"}
  <2>1. engine'.num_or = engine.num_or /\ ~engine.num_or
    BY <1>1, <1>5 DEF EngineTypes, Dma!BusEngine, Dma!Check, Dma!Get0, Dma!Get1, Dma!Get2,
       Dma!Get3, Dma!ReadReq, Dma!ReadRsp, Dma!WriteReq, Dma!WriteRsp, Registers, Gets
  <2>2. engine'.state \in {"S_GET_1", "S_GET_2", "S_GET_3"}
    BY <1>1, <1>5, StateStep DEF Status
  <2>3. QED BY <1>3, <2>1, <2>2 DEF Registers, Gets, Transferring
<1>6. QED BY <1>4, <1>5

\* While elements are copied.
LEMMA ElementStep ==
  ASSUME IInv, Clock, Transferring
  PROVE  Registers'
<1>1. /\ TypeOK /\ Registers /\ Answers /\ Dma!BusEngine /\ Dma!SrcAlign
      /\ engine \in EngineTypes
  BY DEF IInv, TypeOK, EngineTypes, Clock, Dma!Clock
<1>2. CASE Leaves
  BY <1>2 DEF Leaves, Registers, Gets, Transferring
<1>3. CASE GoesOn
  <2> DEFINE d == plan[1]
             e == engine
  <2>1. /\ d \in Descriptors /\ copied \in Nat /\ copied < d.num /\ d.num \in 1 .. NUM - 1
        /\ d.src \in Dma!Word /\ d.dst \in Dma!Word /\ d.src_inc \in {0, 1} /\ d.dst_inc \in {0, 1}
    BY InTransfer, WordsForm
  <2>2. NUM \in Nat
    BY DmaAssumption
  <2>3. /\ plan'[1] = d /\ plan' /= << >> /\ Transferring' /\ copied' < d.num
        /\ copied' = IF e.state = "S_WRITE_RSP" /\ engine'.state = "S_READ_REQ"
                     THEN copied + 1 ELSE copied
    BY <1>3 DEF GoesOn
  <2>4. \A i \in Nat :
          /\ Dma!Advance(Source(d, i), d.src_inc) = Source(d, i + 1)
          /\ Dma!Advance(Destination(d, i), d.dst_inc) = Destination(d, i + 1)
    BY <2>1, PlaceSteps DEF Source, Destination
  <2>5. e.src_inc = d.src_inc /\ e.dst_inc = d.dst_inc
    BY <1>1 DEF Registers
  <2>6. CASE e.state = "S_READ_REQ"
    <3>1. /\ e.src_addr = Source(d, copied) /\ e.num = d.num - copied
          /\ e.num_or = (copied > 0)
          /\ e.dst_addr = Destination(d, IF copied > 0 THEN copied - 1 ELSE 0)
      BY <1>1, <2>6 DEF Registers
    <3>2. Dma!ReadReq
      BY <1>1, <2>6 DEF Dma!BusEngine, Dma!Check, Dma!Get0, Dma!Get1, Dma!Get2,
         Dma!Get3, Dma!ReadReq, Dma!ReadRsp, Dma!WriteReq, Dma!WriteRsp
    <3>3. /\ engine'.state = "S_READ_RSP" /\ engine'.src_addr = e.src_addr
          /\ engine'.src_inc = e.src_inc /\ engine'.dst_inc = e.dst_inc
          /\ engine'.num = (e.num + NUM - 1) % NUM
          /\ engine'.dst_addr = IF e.num_or THEN Dma!Advance(e.dst_addr, e.dst_inc) ELSE e.dst_addr
      BY <1>1, <3>2 DEF Dma!ReadReq, Dma!dst_add, EngineTypes
    <3>4. engine'.num = d.num - copied - 1
      <4>1. e.num \in 0 .. NUM - 1 /\ e.num /= 0
        BY <2>1, <2>2, <3>1
      <4>2. (e.num + NUM - 1) % NUM = e.num - 1
        BY <4>1, CountDown
      <4>3. QED BY <2>1, <2>2, <3>1, <3>3, <4>2
    <3>5. engine'.dst_addr = Destination(d, copied)
      <4>1. CASE copied > 0
        <5>1. e.num_or /\ e.dst_addr = Destination(d, copied - 1)
          BY <3>1, <4>1
        <5>2. copied - 1 \in Nat /\ (copied - 1) + 1 = copied
          BY <2>1, <4>1
        <5>3. QED BY <2>4, <2>5, <3>3, <5>1, <5>2
      <4>2. CASE ~(copied > 0)
        <5>1. copied = 0
          BY <2>1, <4>2
        <5>2. ~e.num_or /\ e.dst_addr = Destination(d, 0)
          BY <3>1, <4>2
        <5>3. QED BY <3>3, <5>1, <5>2
      <4>3. QED BY <4>1, <4>2
    <3>6. copied' = copied
      BY <2>3, <2>6
    <3>7. QED BY <2>3, <2>5, <2>6, <3>1, <3>3, <3>4, <3>5, <3>6
              DEF Registers, Gets, Dma!Reading
  <2>7. CASE e.state = "S_READ_RSP"
    <3>1. /\ e.src_addr = Source(d, copied) /\ e.num = d.num - copied - 1
          /\ e.dst_addr = Destination(d, copied)
      BY <1>1, <2>7 DEF Registers
    <3>2. Dma!ReadRsp /\ data_buf' = rsp.data
      BY <1>1, <2>7 DEF Dma!BusEngine, Dma!Check, Dma!Get0, Dma!Get1, Dma!Get2,
         Dma!Get3, Dma!ReadReq, Dma!ReadRsp, Dma!WriteReq, Dma!WriteRsp, Dma!SrcAlign
    <3>3. /\ engine'.src_addr = e.src_addr /\ engine'.dst_addr = e.dst_addr
          /\ engine'.src_inc = e.src_inc /\ engine'.dst_inc = e.dst_inc
          /\ engine'.num = e.num
      BY <1>1, <3>2 DEF Dma!ReadRsp, EngineTypes
    <3>4. /\ engine'.state \in {"S_READ_RSP", "S_WRITE_REQ"}
          /\ engine'.state = "S_WRITE_REQ" => rsp.ack /\ ~rsp.err
      BY <1>1, <2>3, <2>7, StateStep DEF Transferring
    <3>5. engine'.state = "S_WRITE_REQ" => data_buf' = Source(d, copied)
      BY <1>1, <2>7, <3>1, <3>2, <3>4 DEF Answers
    <3>6. copied' = copied
      BY <2>3, <2>7
    <3>7. QED BY <2>3, <2>5, <3>1, <3>3, <3>4, <3>5, <3>6 DEF Registers, Gets, Dma!Reading
  <2>8. CASE e.state = "S_WRITE_REQ"
    <3>1. /\ e.src_addr = Source(d, copied) /\ e.num = d.num - copied - 1
          /\ e.dst_addr = Destination(d, copied) /\ data_buf = Source(d, copied)
      BY <1>1, <2>8 DEF Registers, Dma!Reading
    <3>2. Dma!WriteReq /\ data_buf' = data_buf
      BY <1>1, <2>8 DEF Dma!BusEngine, Dma!Check, Dma!Get0, Dma!Get1, Dma!Get2,
         Dma!Get3, Dma!ReadReq, Dma!ReadRsp, Dma!WriteReq, Dma!WriteRsp, Dma!SrcAlign
    <3>3. /\ engine'.state = "S_WRITE_RSP" /\ engine'.dst_addr = e.dst_addr
          /\ engine'.src_inc = e.src_inc /\ engine'.dst_inc = e.dst_inc
          /\ engine'.num = e.num /\ engine'.num_or = (e.num /= 0)
          /\ engine'.src_addr = Dma!Advance(e.src_addr, e.src_inc)
      BY <1>1, <3>2 DEF Dma!WriteReq, Dma!src_add, EngineTypes
    <3>4. engine'.src_addr = Source(d, copied + 1)
      BY <2>1, <2>4, <2>5, <3>1, <3>3
    <3>5. (e.num /= 0) = (copied + 1 < d.num)
      BY <2>1, <2>2, <3>1
    <3>6. copied' = copied
      BY <2>3, <2>8
    <3>7. QED BY <2>3, <2>5, <3>1, <3>2, <3>3, <3>4, <3>5, <3>6 DEF Registers, Gets
  <2>9. CASE e.state = "S_WRITE_RSP"
    <3>1. /\ e.src_addr = Source(d, copied + 1) /\ e.num = d.num - copied - 1
          /\ e.dst_addr = Destination(d, copied) /\ data_buf = Source(d, copied)
          /\ e.num_or = (copied + 1 < d.num)
      BY <1>1, <2>9 DEF Registers, Dma!Reading
    <3>2. Dma!WriteRsp /\ data_buf' = data_buf
      BY <1>1, <2>9 DEF Dma!BusEngine, Dma!Check, Dma!Get0, Dma!Get1, Dma!Get2,
         Dma!Get3, Dma!ReadReq, Dma!ReadRsp, Dma!WriteReq, Dma!WriteRsp, Dma!SrcAlign
    <3>3. /\ engine'.src_addr = e.src_addr /\ engine'.dst_addr = e.dst_addr
          /\ engine'.src_inc = e.src_inc /\ engine'.dst_inc = e.dst_inc
          /\ engine'.num = e.num /\ engine'.num_or = e.num_or
      BY <1>1, <3>2 DEF Dma!WriteRsp, EngineTypes
    <3>4. CASE engine'.state = "S_READ_REQ"
      <4>1. copied' = copied + 1
        BY <2>3, <2>9, <3>4
      <4>2. copied + 1 < d.num
        BY <2>3, <4>1
      <4>3. /\ (copied' > 0) = TRUE /\ copied' - 1 = copied /\ engine'.num = d.num - copied'
            /\ e.num_or = TRUE
        <5>1. (copied + 1 < d.num) = TRUE
          BY <4>2
        <5>2. e.num_or = TRUE
          BY <3>1, <5>1
        <5>3. QED BY <2>1, <2>2, <3>1, <3>3, <4>1, <5>2
      <4>4. engine'.dst_addr = Destination(d, IF copied' > 0 THEN copied' - 1 ELSE 0)
        BY <3>1, <3>3, <4>3
      <4>5. QED BY <2>3, <2>5, <3>1, <3>3, <3>4, <4>1, <4>3, <4>4
                DEF Registers, Gets, Dma!Reading
    <3>5. CASE engine'.state /= "S_READ_REQ"
      <4>1. engine'.state = "S_WRITE_RSP"
        BY <1>1, <2>3, <2>9, <3>5, StateStep DEF Transferring
      <4>2. copied' = copied
        BY <2>3, <3>5
      <4>3. QED BY <2>3, <2>5, <3>1, <3>2, <3>3, <4>1, <4>2 DEF Registers, Gets
    <3>6. QED BY <3>4, <3>5
  <2>10. QED BY <2>6, <2>7, <2>8, <2>9 DEF Transferring
<1>4. QED BY <1>2, <1>3, TransferStep

LEMMA RegistersStep ==
  ASSUME IInv, Clock
  PROVE  Registers'
<1>1. engine.state \in States
  BY DEF IInv, TypeOK
<1>2. QED BY <1>1, FirstStep, FetchStep, ElementStep DEF States, Gets, Waiting, Transferring

-----------------------------------------------------------------------------
\* The invariant, and what follows from it.

LEMMA InitInv == Init => IInv
<1> SUFFICES ASSUME Init PROVE IInv
  OBVIOUS
<1>1. /\ ctrl = [enable |-> FALSE, start |-> FALSE, err |-> FALSE, done |-> FALSE]
      /\ engine = [state |-> "S_CHECK", run |-> FALSE, done |-> FALSE, err |-> FALSE,
                   src_addr |-> 0, dst_addr |-> 0, num |-> 0, num_or |-> FALSE,
                   src_inc |-> 0, dst_inc |-> 0]
      /\ data_buf = 0 /\ bus.op = "none" /\ job \in Descriptors /\ rest = << >>
      /\ rsp = NoAnswer /\ owed = FALSE /\ plan = << >> /\ copied = 0
  BY DEF Init, Dma!Init, NoAccess
<1>2. FP!IInv
  <2>1. FP!Init
    BY DEF Init, Dma!Init, FP!Init, Dma!Fifo!Init, FP!Addresses, Dma!Fifo!Addresses
  <2>2. QED BY <2>1, FifoDepth, FP!InitInv
<1>3. Contents = << >>
  <2>1. FP!Occupancy = 0
    BY DEF Init, Dma!Init, Dma!Fifo!Init, FP!Occupancy
  <2>2. FP!ContentsBySlot
    BY <1>2, FifoDepth, FP!ContentsIsSeq
  <2>3. FP!Contents = << >>
    BY <2>1, <2>2, EmptySeq DEF FP!ContentsBySlot
  <2>4. QED BY <2>3, FifoSame
<1>4. TypeOK
  <2>1. /\ << >> \in Seq(Dma!Word) /\ << >> \in Seq(Descriptors) /\ 0 \in Nat
        /\ 0 \in 0 .. NUM - 1
    BY DmaAssumption
  <2>2. rsp \in [ack : BOOLEAN, err : BOOLEAN, data : Dma!Word] /\ BusTypeOK
    BY <1>1, ZeroIsWord DEF NoAnswer, BusTypeOK
  <2>3. QED BY <1>1, <1>2, <2>1, <2>2, ZeroIsWord DEF TypeOK, States
<1>5. ~Writing /\ ~Transferring
  BY <1>1 DEF Writing, Transferring
<1>6. Control /\ Status
  BY <1>1, <1>5 DEF Control, Status, Quiet
<1>7. Queued /\ Registers
  BY <1>1, <1>3, <1>5, LayoutNone DEF Queued, Registers, Gets
<1>8. Answers /\ Stopped
  BY <1>1 DEF Answers, Stopped, NoAnswer, Waiting
<1>9. QED BY <1>4, <1>6, <1>7, <1>8 DEF IInv

LEMMA StutterInv ==
  ASSUME IInv, UNCHANGED vars
  PROVE  IInv'
<1>1. /\ ctrl' = ctrl /\ engine' = engine /\ data_buf' = data_buf
      /\ fifo_w' = fifo_w /\ fifo_r' = fifo_r /\ fifo_mem' = fifo_mem
      /\ fifo_rdata' = fifo_rdata /\ fifo_avail' = fifo_avail
      /\ bus' = bus /\ job' = job /\ rest' = rest /\ rsp' = rsp /\ owed' = owed
      /\ plan' = plan /\ copied' = copied
  BY DEF vars, dma
<1>2. /\ Contents' = Contents /\ FP!IInv' /\ Dma!Fifo!avail_o' = Dma!Fifo!avail_o
      /\ Dma!Fifo!rdata_o' = Dma!Fifo!rdata_o
  <2>1. FP!IInv'
    BY <1>1, FifoDepth, FP!StepInv DEF IInv, TypeOK, FP!vars
  <2>2. Contents' = Contents
    BY <1>1 DEF Contents, Dma!Fifo!Contents, Dma!Fifo!Occupancy, Dma!Fifo!Ahead,
       Dma!Fifo!Address
  <2>3. /\ Dma!Fifo!avail_o' = Dma!Fifo!avail_o
        /\ Dma!Fifo!rdata_o' = Dma!Fifo!rdata_o
    BY <1>1 DEF Dma!Fifo!avail_o, Dma!Fifo!rdata_o, Dma!Fifo!empty, Dma!Fifo!match,
       Dma!Fifo!Address, Dma!Fifo!WrapBit
  <2>4. QED BY <2>1, <2>2, <2>3
<1>3. Writing' = Writing /\ Pending' = Pending /\ Transferring' = Transferring
      /\ Quiet' = Quiet /\ Unchained' = Unchained /\ Dma!Reading' = Dma!Reading
  BY <1>1, <1>2 DEF Writing, Pending, Transferring, Quiet, Unchained, Dma!Reading
<1>4. TypeOK' /\ Control' /\ Status'
  BY <1>1, <1>2, <1>3 DEF IInv, TypeOK, BusTypeOK, Control, Status
<1>5. Queued' /\ Registers'
  BY <1>1, <1>2, <1>3 DEF IInv, Queued, Registers
<1>6. Answers' /\ Stopped'
  BY <1>1 DEF IInv, Answers, Stopped
<1>7. QED BY <1>4, <1>5, <1>6 DEF IInv

LEMMA StepInv == IInv /\ [Next]_vars => IInv'
<1>1. ASSUME IInv, Next PROVE IInv'
  <2>1. Clock
    BY <1>1 DEF Next
  <2>2. QED BY <1>1, <2>1, TypeStep, ControlStep, StatusStep, QueuedStep, RegistersStep,
               AnswersStep, StoppedStep DEF IInv
<1>2. QED BY <1>1, StutterInv

LEMMA SpecInv == Spec => []IInv
BY InitInv, StepInv, PTL DEF Spec

\* The registers of the controller, of its FIFO and of software keep their
\* types, and the FIFO never overruns.
THEOREM DmaTypeOK == Spec => []TypeOK
<1>1. IInv => TypeOK
  BY DEF IInv
<1>2. QED BY <1>1, SpecInv, PTL

\* The engine never waits for a word: from the first word of a descriptor to
\* the last, the FIFO holds the rest of it.
THEOREM DescriptorsAreWhole ==
  Spec => [](engine.state \in {"S_GET_0", "S_GET_1", "S_GET_2"} => Contents /= << >>)
<1>1. IInv => (engine.state \in {"S_GET_0", "S_GET_1", "S_GET_2"} => Contents /= << >>)
  BY GetsHold DEF Gets
<1>2. QED BY <1>1, SpecInv, PTL

\* Each access of the controller is that of the next element of the descriptors
\* programmed.
THEOREM DmaCopiesAsProgrammed == Spec => []CopiesAsProgrammed
<1>1. IInv => CopiesAsProgrammed
  <2> SUFFICES ASSUME IInv, Transferring PROVE CopiesAsProgrammed
    BY DEF CopiesAsProgrammed
  <2>1. plan /= << >> /\ copied < plan[1].num
    BY InTransfer
  <2>2. Registers
    BY DEF IInv
  <2>3. Dma!Reading => engine.src_addr = Source(plan[1], copied)
    BY <2>2 DEF Registers, Dma!Reading
  <2>4. ~Dma!Reading => /\ engine.dst_addr = Destination(plan[1], copied)
                        /\ data_buf = Source(plan[1], copied)
    BY <2>2 DEF Registers, Dma!Reading, Transferring
  <2>5. QED BY <2>1, <2>3, <2>4 DEF CopiesAsProgrammed, Source, Destination
<1>2. QED BY <1>1, SpecInv, PTL

\* The interrupt means that all that was programmed is copied, or an error.
THEOREM DmaDoneMeansDone == Spec => DoneMeansDone
<1>1. ASSUME IInv, [Next]_vars
      PROVE  [~ctrl.done /\ ctrl'.done => plan = << >> \/ ctrl'.err]_vars
  <2>1. CASE UNCHANGED vars
    BY <2>1
  <2>2. CASE Clock /\ ~ctrl.done /\ ctrl'.done
    <3>1. TypeOK /\ Stopped /\ Dma!CtrlAccess
      BY <1>1, <2>2 DEF IInv, Clock, Dma!Clock
    <3>2. ctrl.enable /\ engine.done
      BY <2>2, <3>1, CtrlStep
    <3>3. plan = << >> \/ ctrl.err
      BY <3>1, <3>2 DEF Stopped
    <3>4. ctrl.err => ctrl'.err
      BY <2>2, <3>1, CtrlStep
    <3>5. QED BY <3>3, <3>4
  <2>3. QED BY <1>1, <2>1, <2>2 DEF Next
<1>2. QED BY <1>1, SpecInv, PTL DEF Spec, DoneMeansDone

-----------------------------------------------------------------------------
\* What is left to do.

\* The stages of a descriptor and, from S_READ_REQ on, of an element.
Stage == CASE engine.state = "S_CHECK"     -> 8
           [] engine.state = "S_GET_0"     -> 7
           [] engine.state = "S_GET_1"     -> 6
           [] engine.state = "S_GET_2"     -> 5
           [] engine.state = "S_GET_3"     -> 4
           [] engine.state = "S_READ_REQ"  -> 3
           [] engine.state = "S_READ_RSP"  -> 2
           [] engine.state = "S_WRITE_REQ" -> 1
           [] engine.state = "S_WRITE_RSP" -> 0

\* The elements to copy of the first descriptor.
Elements == IF plan = << >> THEN 0 ELSE plan[1].num - copied

Closer ==
  \/ Len(plan') < Len(plan)
  \/ Len(plan') = Len(plan) /\ Elements' < Elements
  \/ Len(plan') = Len(plan) /\ Elements' = Elements /\ Stage' < Stage
Stays == Len(plan') = Len(plan) /\ Elements' = Elements /\ Stage' = Stage

\* The safety core of EveryStartEnds: a running engine comes closer to the end
\* of what was programmed in each clock, or reaches it, or waits for an answer
\* that the bus still owes.
MovesOn ==
  [][engine.run => \/ Closer
                   \/ ~engine'.run /\ engine'.done
                   \/ engine.state \in Waiting /\ owed /\ Stays]_vars

\* While it fetches, the plan does not change.
LEMMA FetchMoves ==
  ASSUME IInv, Clock, engine.run, engine.state \in Gets \cup {"S_CHECK"}
  PROVE  Closer \/ (~engine'.run /\ engine'.done)
<1>1. /\ TypeOK /\ Control /\ Status /\ Dma!BusEngine /\ Plan
  BY DEF IInv, Clock, Dma!Clock
<1>2. ~Writing /\ ~Transferring
  BY <1>1 DEF Control, Quiet, Gets, Transferring
<1>3. ctrl.enable => plan' = plan /\ copied' = copied
  BY <1>1, <1>2 DEF Plan, Answered, Writing
<1>4. CASE engine.state = "S_CHECK" /\ ~Dma!Proceeds
  BY <1>1, <1>4, StateStep
<1>5. CASE engine.state = "S_CHECK" /\ Dma!Proceeds
  <2>1. Dma!Fifo!avail_o
    BY <1>5 DEF Dma!Proceeds
  <2>2. Contents /= << >>
    BY <1>1, <1>5, <2>1 DEF Status
  <2>3. ctrl.enable
    BY <1>1, <2>2 DEF Control, Unchained
  <2>4. engine'.state = "S_GET_0"
    BY <1>1, <1>5, StateStep
  <2>5. Stage = 8 /\ Stage' = 7 /\ Len(plan') = Len(plan) /\ Elements' = Elements
    BY <1>3, <1>5, <2>3, <2>4 DEF Stage, Elements
  <2>6. QED BY <2>5 DEF Closer
<1>6. CASE engine.state \in Gets
  <2>1. ctrl.enable
    BY <1>6, GetsHold
  <2>2. \/ engine.state = "S_GET_0" /\ engine'.state = "S_GET_1"
        \/ engine.state = "S_GET_1" /\ engine'.state = "S_GET_2"
        \/ engine.state = "S_GET_2" /\ engine'.state = "S_GET_3"
        \/ engine.state = "S_GET_3" /\ engine'.state = "S_READ_REQ"
    BY <1>1, <1>6, StateStep DEF Status, Gets
  <2>3. Stage \in Nat /\ Stage' \in Nat /\ Stage' < Stage
    BY <2>2 DEF Stage
  <2>4. Len(plan') = Len(plan) /\ Elements' = Elements
    BY <1>3, <2>1 DEF Elements
  <2>5. QED BY <2>3, <2>4 DEF Closer
<1>7. QED BY <1>4, <1>5, <1>6

\* While it transfers, it goes on with the element, with the next one, or leaves
\* the descriptor.
LEMMA TransferMoves ==
  ASSUME IInv, Clock, Transferring
  PROVE  Closer \/ (engine.state \in Waiting /\ owed /\ Stays)
<1>1. TypeOK /\ Answers /\ Dma!BusEngine
  BY DEF IInv, Clock, Dma!Clock
<1>2. /\ plan \in Seq(Descriptors) /\ plan /= << >>
      /\ copied \in Nat /\ plan[1].num \in Nat
  BY InTransfer
<1>3. /\ Tail(plan) \in Seq(Descriptors)
      /\ Len(plan) \in Nat /\ Len(plan) > 0 /\ Len(Tail(plan)) = Len(plan) - 1
  BY <1>2, HeadTailProperties, EmptySeq, LenProperties
<1>4. plan' \in Seq(Descriptors)
  BY TypeStep DEF TypeOK
<1>5. CASE Leaves
  <2>1. Len(plan') < Len(plan)
    BY <1>3, <1>5 DEF Leaves
  <2>2. QED BY <2>1 DEF Closer
<1>6. CASE GoesOn
  <2>1. Len(plan') \in Nat /\ Len(plan') - 1 = Len(Tail(plan'))
    BY <1>4, <1>6, HeadTailProperties, EmptySeq, LenProperties DEF GoesOn
  <2>2. Len(Tail(plan')) <= Len(Tail(plan))
    <3>1. Tail(plan') = Tail(plan) \/ Tail(plan') = << >>
      BY <1>6 DEF GoesOn
    <3>2. \A t, u \in Seq(Descriptors) : t = u \/ t = << >> => Len(t) <= Len(u)
      BY LenProperties
    <3>3. Tail(plan') \in Seq(Descriptors)
      BY <1>4, <1>6, HeadTailProperties, EmptySeq DEF GoesOn
    <3>4. QED BY <1>3, <3>1, <3>2, <3>3
  <2>3. Len(plan') <= Len(plan)
    BY <1>3, <2>1, <2>2
  <2>4. Elements = plan[1].num - copied /\ Elements' = plan[1].num - copied'
    BY <1>2, <1>6 DEF Elements, GoesOn
  <2>5. CASE engine.state = "S_WRITE_RSP" /\ engine'.state = "S_READ_REQ"
    <3>1. copied' = copied + 1
      BY <1>6, <2>5 DEF GoesOn
    <3>2. Elements' < Elements
      BY <1>2, <2>4, <3>1
    <3>3. Len(plan) \in Nat
      BY <1>3
    <3>4. QED BY <2>1, <2>3, <3>2, <3>3 DEF Closer
  <2>6. CASE ~(engine.state = "S_WRITE_RSP" /\ engine'.state = "S_READ_REQ")
    <3>1. Elements' = Elements
      BY <1>6, <2>4, <2>6 DEF GoesOn
    <3>2. \/ engine.state = "S_READ_REQ" /\ engine'.state = "S_READ_RSP"
          \/ engine.state = "S_READ_RSP" /\ engine'.state = "S_WRITE_REQ"
          \/ engine.state = "S_WRITE_REQ" /\ engine'.state = "S_WRITE_RSP"
          \/ engine.state \in Waiting /\ ~rsp.ack /\ engine'.state = engine.state
      BY <1>1, <1>6, <2>6, StateStep DEF GoesOn, Transferring, Waiting
    <3>3. CASE engine.state \in Waiting /\ ~rsp.ack /\ engine'.state = engine.state
      <4>1. owed
        BY <1>1, <3>3 DEF Answers
      <4>2. Stage' = Stage
        BY <3>3 DEF Stage, Waiting
      <4>3. QED BY <1>3, <2>1, <2>3, <3>1, <3>3, <4>1, <4>2 DEF Closer, Stays
    <3>4. CASE ~(engine.state \in Waiting /\ ~rsp.ack /\ engine'.state = engine.state)
      <4>1. Stage \in Nat /\ Stage' \in Nat /\ Stage' < Stage
        BY <3>2, <3>4 DEF Stage
      <4>2. QED BY <1>3, <2>1, <2>3, <3>1, <4>1 DEF Closer
    <3>5. QED BY <3>3, <3>4
  <2>7. QED BY <2>5, <2>6
<1>7. QED BY <1>5, <1>6, TransferStep

\* The engine never stands still but for an answer that the bus owes.
THEOREM DmaMovesOn == Spec => MovesOn
<1>1. ASSUME IInv, Clock, engine.run
      PROVE  \/ Closer
             \/ ~engine'.run /\ engine'.done
             \/ engine.state \in Waiting /\ owed /\ Stays
  <2>1. engine.state \in Gets \cup {"S_CHECK"} \/ Transferring
    BY <1>1 DEF IInv, TypeOK, States, Gets, Waiting, Transferring
  <2>2. QED BY <1>1, <2>1, FetchMoves, TransferMoves
<1>2. IInv /\ [Next]_vars =>
        [engine.run => \/ Closer
                       \/ ~engine'.run /\ engine'.done
                       \/ engine.state \in Waiting /\ owed /\ Stays]_vars
  BY <1>1 DEF Next
<1>3. QED BY <1>2, SpecInv, PTL DEF Spec, MovesOn

=============================================================================
