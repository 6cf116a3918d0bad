--------------------------- MODULE PrimFifo_proofs --------------------------
(***************************************************************************)
(* Proofs about neorv32_prim_fifo for every depth and every set of words:  *)
(* the pointers stay in range and never overrun each other, and the        *)
(* pointer arithmetic implements the bounded queue.                        *)
(***************************************************************************)
EXTENDS PrimFifo, SequenceTheorems, TLAPS

\* The inductive invariant: types and the distance of the pointers.
IInv == TypeOK /\ NoOverrun

\* The status flags are exactly the extreme distances of the pointers.
LEMMA StatusFlags ==
  ASSUME IInv
  PROVE  /\ empty <=> Occupancy = 0
         /\ full  <=> Occupancy = Depth
         /\ Occupancy \in 0 .. Depth
BY DepthAssumption DEF IInv, TypeOK, NoOverrun, Occupancy, empty, full, match,
                       Address, WrapBit, Pointers

LEMMA EmptyIsZero == IInv => (empty <=> Occupancy = 0)
BY StatusFlags

LEMMA EdgeInv ==
  ASSUME IInv,
         NEW c \in BOOLEAN, NEW we \in BOOLEAN, NEW d \in Data,
         NEW re \in BOOLEAN, Clock(c, we, d, re)
  PROVE  IInv'
<1> USE DepthAssumption
<1>1. /\ w_pnt' = NextPointer(w_pnt, c, we /\ ~full)
      /\ r_pnt' = NextPointer(r_pnt, c, re /\ ~empty)
  BY DEF Clock, Edge
<1>2. w_pnt' \in Pointers /\ r_pnt' \in Pointers
  BY <1>1 DEF IInv, TypeOK, NextPointer, Increment, Pointers
<1>3. Address(w_pnt) \in Addresses /\ Address(r_pnt) \in Addresses
  BY DEF IInv, TypeOK, Address, Addresses, Pointers
<1>4. fifo' \in [Addresses -> Data] /\ rdata' \in Data /\ avail' \in BOOLEAN
  BY <1>3 DEF IInv, TypeOK, Clock, Edge
<1>5. NoOverrun'
  <2>1. CASE c
    BY <2>1, <1>1 DEF NextPointer, NoOverrun, Occupancy
  <2>2. CASE ~c
    BY <2>2, <1>1 DEF IInv, TypeOK, NextPointer, NoOverrun, Occupancy, empty,
       full, match, Address, WrapBit, Pointers, Increment
  <2>3. QED BY <2>1, <2>2
<1>6. QED BY <1>2, <1>4, <1>5 DEF IInv, TypeOK

LEMMA InitInv == Init => IInv
<1> SUFFICES ASSUME Init PROVE IInv
  OBVIOUS
<1>1. 0 \in Pointers
  BY DepthAssumption DEF Pointers
<1>2. TypeOK
  BY <1>1 DEF Init, TypeOK
<1>3. NoOverrun
  BY DepthAssumption DEF Init, NoOverrun, Occupancy
<1>4. QED BY <1>2, <1>3 DEF IInv

LEMMA StepInv == IInv /\ [Next]_vars => IInv'
<1>1. ASSUME IInv, Next PROVE IInv'
  BY <1>1, EdgeInv DEF Next
<1>2. ASSUME IInv, UNCHANGED vars PROVE IInv'
  BY <1>2 DEF IInv, TypeOK, NoOverrun, Occupancy, vars
<1>3. QED BY <1>1, <1>2

LEMMA SpecInv == Spec => []IInv
BY InitInv, StepInv, PTL DEF Spec

\* Pointers, memory and output registers keep their types.
THEOREM FifoTypeOK == Spec => []TypeOK
<1>1. IInv => TypeOK BY DEF IInv
<1>2. QED BY <1>1, SpecInv, PTL

\* The writer never overtakes the reader, nor the reader the writer.
THEOREM FifoNoOverrun == Spec => []NoOverrun
<1>1. IInv => NoOverrun BY DEF IInv
<1>2. QED BY <1>1, SpecInv, PTL

-----------------------------------------------------------------------------
\* The pointer arithmetic, word by word.

ContentsBySlot ==
  /\ Contents \in Seq(Data)
  /\ Occupancy \in 0 .. Depth
  /\ Len(Contents) = Occupancy
  /\ \A i \in 1 .. Occupancy : Contents[i] = fifo[Address(Ahead(i - 1))]

LEMMA ContentsIsSeq == IInv => ContentsBySlot
<1> SUFFICES ASSUME IInv PROVE ContentsBySlot
  OBVIOUS
<1> USE DepthAssumption
<1>1. Occupancy \in Nat
  BY StatusFlags
<1>2. ASSUME NEW i \in 1 .. Occupancy
      PROVE  Address(Ahead(i - 1)) \in Addresses
  BY StatusFlags, <1>2 DEF IInv, TypeOK, Address, Ahead, Addresses, Pointers
<1>3. Contents \in [1 .. Occupancy -> Data]
  BY <1>2 DEF Contents, IInv, TypeOK
<1>4. QED BY <1>1, <1>3, StatusFlags DEF Contents, ContentsBySlot

\* The slot the write pointer names is none of the slots in use, and it is the
\* one that follows them.
LEMMA WriteSlot ==
  ASSUME IInv, ~full
  PROVE  /\ \A i \in 1 .. Occupancy : Address(Ahead(i - 1)) /= Address(w_pnt)
         /\ Address(Ahead(Occupancy)) = Address(w_pnt)
<1> USE DepthAssumption
<1>1. Occupancy \in 0 .. Depth /\ Occupancy /= Depth
  BY StatusFlags
<1>2. QED BY <1>1 DEF IInv, TypeOK, Address, Ahead, Pointers, Occupancy

\* What one clock without a clear does to the occupancy and to the slots.
LEMMA NextSlots ==
  ASSUME IInv, NEW we \in BOOLEAN, NEW d \in Data, NEW re \in BOOLEAN,
         Clock(FALSE, we, d, re)
  PROVE  /\ Occupancy' = Occupancy + (IF we /\ ~full THEN 1 ELSE 0)
                                   - (IF re /\ ~empty THEN 1 ELSE 0)
         /\ \A i \in 0 .. Depth - 1 :
              Ahead(i)' = IF re /\ ~empty THEN Ahead(i + 1) ELSE Ahead(i)
<1> USE DepthAssumption
<1>1. /\ w_pnt' = NextPointer(w_pnt, FALSE, we /\ ~full)
      /\ r_pnt' = NextPointer(r_pnt, FALSE, re /\ ~empty)
  BY DEF Clock, Edge
<1>2. Occupancy' = Occupancy + (IF we /\ ~full THEN 1 ELSE 0)
                             - (IF re /\ ~empty THEN 1 ELSE 0)
  BY <1>1 DEF IInv, TypeOK, NextPointer, NoOverrun, Occupancy, empty, full,
     match, Address, WrapBit, Pointers, Increment
<1>3. ASSUME NEW i \in 0 .. Depth - 1
      PROVE  Ahead(i)' = IF re /\ ~empty THEN Ahead(i + 1) ELSE Ahead(i)
  BY <1>1 DEF IInv, TypeOK, NextPointer, Ahead, Pointers, Increment
<1>4. QED BY <1>2, <1>3

\* What one clock does to the words held.
LEMMA ContentsStep ==
  ASSUME IInv, IInv',
         NEW c \in BOOLEAN, NEW we \in BOOLEAN, NEW d \in Data,
         NEW re \in BOOLEAN, Clock(c, we, d, re)
  PROVE  /\ c => Contents' = << >>
         /\ ~c => LET in  == we /\ ~full
                      out == re /\ ~empty
                  IN  /\ out => Contents /= << >>
                      /\ in  => Len(Contents) < Depth
                      /\ ~in /\ ~out => Contents' = Contents
                      /\  in /\ ~out => Contents' = Append(Contents, d)
                      /\ ~in /\  out => Contents' = Tail(Contents)
                      /\  in /\  out => Contents' = Append(Tail(Contents), d)
<1> USE DepthAssumption
<1> DEFINE N  == Occupancy
           C  == Contents
           in == we /\ ~full
           out == re /\ ~empty
<1>1. ContentsBySlot
  BY ContentsIsSeq
<1>2. ContentsBySlot'
  BY ContentsIsSeq, PTL
<1>3. CASE c
  <2>1. N' = 0
    BY <1>3 DEF Clock, Edge, NextPointer, Occupancy
  <2>2. C' = << >>
    BY <2>1, <1>2, EmptySeq DEF ContentsBySlot
  <2>3. QED BY <2>2, <1>3
<1>4. CASE ~c
  <2> USE <1>4
  <2>0. c = FALSE
    OBVIOUS
  <2>1. /\ N' = N + (IF in THEN 1 ELSE 0) - (IF out THEN 1 ELSE 0)
        /\ \A i \in 0 .. Depth - 1 :
             Ahead(i)' = IF out THEN Ahead(i + 1) ELSE Ahead(i)
    BY <2>0, NextSlots
  <2>2. fifo' = IF in THEN [fifo EXCEPT ![Address(w_pnt)] = d] ELSE fifo
    BY DEF Clock, Edge
  <2>3. ASSUME NEW i \in 1 .. N'
        PROVE  C'[i] = fifo'[Address(IF out THEN Ahead(i) ELSE Ahead(i - 1))]
    <3>1. i - 1 \in 0 .. Depth - 1
      BY <1>2 DEF ContentsBySlot
    <3>2. Ahead(i - 1)' = IF out THEN Ahead(i) ELSE Ahead(i - 1)
      BY <2>1, <3>1
    <3>3. C'[i] = fifo'[Address(Ahead(i - 1)')]
      BY <1>2 DEF ContentsBySlot, Address
    <3>4. QED BY <3>2, <3>3
  <2>4. ASSUME NEW i \in 1 .. N
        PROVE  fifo'[Address(Ahead(i - 1))] = C[i]
    <3>1. i - 1 \in 0 .. Depth - 1
      BY <1>1 DEF ContentsBySlot
    <3>2. Address(Ahead(i - 1)) \in Addresses
      BY <3>1 DEF IInv, TypeOK, Address, Ahead, Addresses, Pointers
    <3>3. C[i] = fifo[Address(Ahead(i - 1))]
      BY <1>1 DEF ContentsBySlot
    <3>4. in => Address(Ahead(i - 1)) /= Address(w_pnt)
      BY WriteSlot
    <3>5. QED BY <2>2, <3>2, <3>3, <3>4 DEF IInv, TypeOK
  <2>5. in => /\ N < Depth
              /\ fifo'[Address(Ahead(N))] = d
    BY <1>1, <2>2, WriteSlot, StatusFlags DEF ContentsBySlot, IInv, TypeOK,
       Address, Addresses, Pointers
  <2>6. out => N > 0 /\ C /= << >>
    BY <1>1, StatusFlags DEF ContentsBySlot
  <2>7. CASE ~in /\ ~out
    <3>0. N' = N
      BY <2>7, <2>1, <1>1, <2>6 DEF ContentsBySlot
    <3>1. ASSUME NEW i \in 1 .. N PROVE C'[i] = C[i]
      <4>1. i \in 1 .. N'
        BY <3>0, <1>1 DEF ContentsBySlot
      <4>2. C'[i] = fifo'[Address(Ahead(i - 1))]
        BY <4>1, <2>3, <2>7
      <4>3. QED BY <4>2, <2>4
    <3>2. C' = C
      BY <3>0, <3>1, <1>1, <1>2, SeqEqual DEF ContentsBySlot
    <3>3. QED BY <3>2, <2>7
  <2>8. CASE in /\ ~out
    <3>1. N' = N + 1 /\ \A i \in 1 .. N : C'[i] = C[i]
      BY <2>8, <2>1, <2>3, <2>4, <1>1, <1>2 DEF ContentsBySlot
    <3>2. C'[N + 1] = d
      BY <2>8, <2>1, <2>3, <2>5, <1>1, <1>2, <3>1 DEF ContentsBySlot
    <3>3. C' = Append(C, d)
      BY <3>1, <3>2, <1>1, <1>2, SeqEqual, AppendProperties DEF ContentsBySlot
    <3>4. QED BY <3>3, <2>8, <2>5, <1>1 DEF ContentsBySlot
  <2>9. CASE ~in /\ out
    <3>0. N' = N - 1
      BY <2>9, <2>1, <1>1, <2>6 DEF ContentsBySlot
    <3>1. ASSUME NEW i \in 1 .. N - 1 PROVE C'[i] = C[i + 1]
      <4>1. i \in 1 .. N'
        BY <3>0, <1>1 DEF ContentsBySlot
      <4>2. C'[i] = fifo'[Address(Ahead(i))]
        BY <4>1, <2>3, <2>9
      <4>3. i + 1 \in 1 .. N /\ (i + 1) - 1 = i
        BY <1>1 DEF ContentsBySlot
      <4>4. fifo'[Address(Ahead((i + 1) - 1))] = C[i + 1]
        BY <4>3, <2>4
      <4>5. QED BY <4>2, <4>3, <4>4
    <3>2. C' = Tail(C)
      BY <3>0, <3>1, <2>6, <2>9, <1>1, <1>2, SeqEqual, HeadTailProperties
         DEF ContentsBySlot
    <3>3. QED BY <3>2, <2>9, <2>6
  <2>10. CASE in /\ out
    <3>0. N' = N
      BY <2>10, <2>1, <1>1, <2>6 DEF ContentsBySlot
    <3>1. ASSUME NEW i \in 1 .. N - 1 PROVE C'[i] = C[i + 1]
      <4>1. i \in 1 .. N'
        BY <3>0, <1>1 DEF ContentsBySlot
      <4>2. C'[i] = fifo'[Address(Ahead(i))]
        BY <4>1, <2>3, <2>10
      <4>3. i + 1 \in 1 .. N /\ (i + 1) - 1 = i
        BY <1>1 DEF ContentsBySlot
      <4>4. fifo'[Address(Ahead((i + 1) - 1))] = C[i + 1]
        BY <4>3, <2>4
      <4>5. QED BY <4>2, <4>3, <4>4
    <3>2. C'[N] = d
      BY <2>10, <2>1, <2>3, <2>5, <2>6, <1>1, <1>2, <3>0, <3>1 DEF ContentsBySlot
    <3>3. C' = Append(Tail(C), d)
      BY <3>0, <3>1, <3>2, <2>6, <2>10, <1>1, <1>2, SeqEqual, HeadTailProperties,
         AppendProperties DEF ContentsBySlot
    <3>4. QED BY <3>3, <2>10, <2>5, <2>6, <1>1 DEF ContentsBySlot
  <2>11. QED BY <2>7, <2>8, <2>9, <2>10
<1>5. QED BY <1>3, <1>4

\* The flags, the sequence and, for a single entry, the output agree.
LEMMA ContentsFlags ==
  ASSUME IInv
  PROVE  /\ Contents \in Seq(Data)
         /\ Len(Contents) <= Depth
         /\ empty <=> Contents = << >>
         /\ Depth = 1 /\ Contents /= << >> => rdata_o = Contents[1]
<1> USE DepthAssumption
<1>1. ContentsBySlot
  BY ContentsIsSeq
<1>2. empty <=> Contents = << >>
  BY <1>1, StatusFlags, EmptySeq DEF ContentsBySlot
<1>3. ASSUME Depth = 1, Contents /= << >>
      PROVE  rdata_o = Contents[1]
  <2>1. Contents[1] = fifo[Address(Ahead(1 - 1))]
    BY <1>1, <1>3 DEF ContentsBySlot
  <2>2. Address(Ahead(1 - 1)) = 0
    BY <1>3 DEF Address, Ahead, IInv, TypeOK, Pointers
  <2>3. QED BY <1>3, <2>1, <2>2 DEF rdata_o
<1>4. Len(Contents) <= Depth
  BY <1>1 DEF ContentsBySlot
<1>5. QED BY <1>1, <1>2, <1>3, <1>4 DEF ContentsBySlot

\* What the reader of a FIFO with several entries sees after a clock: the status
\* and the oldest word of the clock before.
LEMMA OutputStep ==
  ASSUME IInv, Depth > 1, NEW c \in BOOLEAN, NEW we \in BOOLEAN, NEW d \in Data,
         NEW re \in BOOLEAN, Clock(c, we, d, re)
  PROVE  /\ full <=> Len(Contents) = Depth
         /\ avail_o' <=> Contents /= << >>
         /\ Contents /= << >> => rdata_o' = Contents[1]
<1> USE DepthAssumption
<1>1. ContentsBySlot
  BY ContentsIsSeq
<1>2. empty <=> Contents = << >>
  BY ContentsFlags
<1>3. avail' = ~empty /\ rdata' = fifo[Address(r_pnt)]
  BY DEF Clock, Edge
<1>4. avail_o' <=> Contents /= << >>
  <2>1. avail_o' = avail'
    BY DEF avail_o
  <2>2. QED BY <1>2, <1>3, <2>1
<1>5. ASSUME Contents /= << >> PROVE rdata_o' = Contents[1]
  <2>1. 1 \in 1 .. Occupancy
    BY <1>1, <1>2, <1>5, StatusFlags
  <2>2. Contents[1] = fifo[Address(Ahead(1 - 1))]
    BY <1>1, <2>1 DEF ContentsBySlot
  <2>3. Ahead(1 - 1) = r_pnt
    BY DEF Ahead, IInv, TypeOK, Pointers
  <2>4. rdata_o' = rdata'
    BY DEF rdata_o
  <2>5. QED BY <1>3, <2>2, <2>3, <2>4
<1>6. full <=> Len(Contents) = Depth
  BY <1>1, StatusFlags DEF ContentsBySlot
<1>7. QED BY <1>4, <1>5, <1>6

\* Without a read or a clear, the output shows the oldest word if there was one.
LEMMA HeadStep ==
  ASSUME IInv, IInv',
         NEW we \in BOOLEAN, NEW d \in Data, NEW re \in BOOLEAN,
         Clock(FALSE, we, d, re), ~(re /\ ~empty)
  PROVE  /\ avail_o' => Contents' /= << >> /\ rdata_o' = Contents'[1]
         /\ Contents /= << >> => Contents' /= << >> /\ Contents'[1] = Contents[1]
         /\ Contents /= << >> \/ Depth = 1 =>
              (Contents' /= << >> => rdata_o' = Contents'[1])
<1> USE DepthAssumption
<1> DEFINE in == we /\ ~full
<1>1. ContentsBySlot /\ (Contents = << >> <=> Occupancy = 0)
  BY ContentsIsSeq, EmptySeq DEF ContentsBySlot
<1>2. ContentsBySlot' /\ (Contents' = << >> <=> Occupancy' = 0)
  <2>1. ContentsBySlot'
    BY ContentsIsSeq, PTL
  <2>2. QED BY <2>1, EmptySeq DEF ContentsBySlot
<1>3. Occupancy' = Occupancy + (IF in THEN 1 ELSE 0) /\ Occupancy \in Nat
  <2>1. Occupancy' = Occupancy + (IF we /\ ~full THEN 1 ELSE 0)
                               - (IF re /\ ~empty THEN 1 ELSE 0)
    BY NextSlots
  <2>2. Occupancy \in Nat
    BY StatusFlags
  <2>3. (IF re /\ ~empty THEN 1 ELSE 0) = 0
    OBVIOUS
  <2>4. (IF in THEN 1 ELSE 0) \in Nat
    OBVIOUS
  <2>5. QED BY <2>1, <2>2, <2>3, <2>4
<1>4. r_pnt' = r_pnt /\ Address(r_pnt) \in Addresses
  BY DEF Clock, Edge, NextPointer, IInv, TypeOK, Address, Addresses, Pointers
<1>5. /\ Contents /= << >> => Contents[1] = fifo[Address(r_pnt)]
      /\ Contents' /= << >> => Contents'[1] = fifo'[Address(r_pnt)]
  <2>1. Ahead(0) = r_pnt /\ Ahead(0)' = r_pnt
    BY <1>4 DEF Ahead, IInv, TypeOK, Pointers
  <2>2. Contents /= << >> => Contents[1] = fifo[Address(Ahead(1 - 1))]
    BY <1>1, <1>3 DEF ContentsBySlot
  <2>3. Contents' /= << >> => Contents'[1] = fifo'[Address(Ahead(1 - 1)')]
    BY <1>2, <1>3 DEF ContentsBySlot, Address
  <2>4. QED BY <2>1, <2>2, <2>3
<1>6. Contents /= << >> => fifo'[Address(r_pnt)] = fifo[Address(r_pnt)]
  <2>1. fifo' = IF in THEN [fifo EXCEPT ![Address(w_pnt)] = d] ELSE fifo
    BY DEF Clock, Edge
  <2>2. in /\ Contents /= << >> => Address(Ahead(1 - 1)) /= Address(w_pnt)
    BY <1>1, <1>3, WriteSlot
  <2>3. Ahead(1 - 1) = r_pnt
    BY DEF Ahead, IInv, TypeOK, Pointers
  <2>4. QED BY <1>4, <2>1, <2>2, <2>3 DEF IInv, TypeOK
<1>7. avail_o' => Contents' /= << >>
  <2>1. CASE Depth = 1
    <3>1. avail_o' => ~empty'
      BY <2>1 DEF avail_o
    <3>2. empty' <=> Occupancy' = 0
      <4>1. (empty <=> Occupancy = 0)'
        BY EmptyIsZero, PTL
      <4>2. QED BY <4>1
    <3>3. QED BY <1>2, <3>1, <3>2
  <2>2. CASE Depth /= 1
    <3>1. avail_o' => ~empty
      BY <2>2 DEF avail_o, Clock, Edge
    <3>2. QED BY <1>2, <1>3, <3>1, StatusFlags
  <2>3. QED BY <2>1, <2>2
<1>8. ASSUME Contents /= << >> \/ Depth = 1, Contents' /= << >>
      PROVE  rdata_o' = Contents'[1]
  <2>1. CASE Depth = 1
    <3>1. Address(r_pnt) = 0
      BY <2>1, <1>4 DEF Addresses
    <3>2. QED BY <1>5, <1>8, <2>1, <3>1 DEF rdata_o
  <2>2. CASE Depth /= 1
    <3>1. rdata_o' = fifo[Address(r_pnt)]
      BY <2>2 DEF rdata_o, Clock, Edge
    <3>2. QED BY <1>5, <1>6, <1>8, <2>2, <3>1
  <2>3. QED BY <2>1, <2>2
<1>9. avail_o' => Contents /= << >> \/ Depth = 1
  BY <1>1, StatusFlags DEF avail_o, Clock, Edge
<1>10. QED BY <1>1, <1>2, <1>3, <1>5, <1>6, <1>7, <1>8, <1>9

LEMMA EdgeRefines ==
  ASSUME IInv, IInv',
         NEW c \in BOOLEAN, NEW we \in BOOLEAN, NEW d \in Data,
         NEW re \in BOOLEAN, Clock(c, we, d, re)
  PROVE  Queue!Next \/ UNCHANGED Contents
BY ContentsStep DEF Queue!Next, Queue!Clear, Queue!Accept, Queue!Remove,
   Queue!AcceptAndRemove

\* The FIFO implements the bounded queue: no accepted word is lost,
\* duplicated or reordered by the pointers, for any depth.
THEOREM FifoImplementsQueue == Spec => ImplementsQueue
<1>1. Init => Queue!Init
  <2> SUFFICES ASSUME Init PROVE Contents = << >>
    BY DEF Queue!Init
  <2>1. Occupancy = 0
    BY DEF Init, Occupancy
  <2>2. ContentsBySlot
    BY InitInv, ContentsIsSeq
  <2>3. QED BY <2>1, <2>2, EmptySeq DEF ContentsBySlot
<1>2. IInv /\ IInv' /\ [Next]_vars => [Queue!Next]_Contents
  <2>1. ASSUME IInv, IInv', Next
        PROVE  Queue!Next \/ UNCHANGED Contents
    BY <2>1, EdgeRefines DEF Next
  <2>2. ASSUME UNCHANGED vars PROVE UNCHANGED Contents
    BY <2>2 DEF vars, Contents, Occupancy, Ahead
  <2>3. QED BY <2>1, <2>2
<1>3. QED BY <1>1, <1>2, SpecInv, PTL DEF Spec, ImplementsQueue, Queue!Spec

\* First-word-fall-through, for any depth: unless a word was read or the FIFO
\* cleared in the clock before, a set avail_o announces the oldest word.
THEOREM FifoHeadOnOutput == Spec => HeadOnOutput
<1>1. ASSUME IInv, IInv', NEW we \in BOOLEAN, NEW re \in BOOLEAN, NEW d \in Data,
             Clock(FALSE, we, d, re), ~(re /\ ~empty), avail_o'
      PROVE  Contents' /= << >> /\ rdata_o' = Contents'[1]
  BY <1>1, HeadStep
<1>2. IInv /\ IInv' /\ [Next]_vars =>
        [ \A we_i, re_i \in BOOLEAN, wdata_i \in Data :
            /\ Clock(FALSE, we_i, wdata_i, re_i)
            /\ ~ (re_i /\ ~empty)
            /\ avail_o'
            => Contents' /= << >> /\ rdata_o' = Contents'[1] ]_vars
  BY <1>1
<1>3. QED BY <1>2, SpecInv, PTL DEF Spec, HeadOnOutput

=============================================================================
