------------------------------ MODULE PrimFifo ------------------------------
(***************************************************************************)
(* neorv32_prim_fifo: the generic single-clock FIFO used by the DMA        *)
(* descriptor buffer and by the buffers of the serial peripherals.         *)
(*                                                                         *)
(* Pointers have one bit more than an address.  A pointer is a number in   *)
(* 0 .. 2*Depth-1: its upper half is the wrap bit, Address(p) the rest.    *)
(* With more than one entry the memory is a synchronous-read RAM: both     *)
(* rdata and avail are registers and lag the pointers by one clock.  One   *)
(* action, Clock, is one rising clock edge.                                *)
(***************************************************************************)
EXTENDS Naturals, Sequences

CONSTANTS Data,   \* the words that can be stored
          Depth   \* 2**AWIDTH entries

ASSUME DepthAssumption == Depth \in Nat \ {0}

VARIABLES w_pnt,  \* write pointer
          r_pnt,  \* read pointer
          fifo,   \* memory core
          rdata,  \* output register of the RAM
          avail   \* registered "not empty"

vars == << w_pnt, r_pnt, fifo, rdata, avail >>

Pointers  == 0 .. 2 * Depth - 1
Addresses == 0 .. Depth - 1

\* Mutant: the pointer does not wrap around.
IncrementNoWrap(p) == p + 1

Address(p)   == IF p >= Depth THEN p - Depth ELSE p
WrapBit(p)   == p >= Depth
Increment(p) == IF p = 2 * Depth - 1 THEN 0 ELSE p + 1

match == Address(r_pnt) = Address(w_pnt)
full  == WrapBit(r_pnt) /= WrapBit(w_pnt) /\ match
empty == WrapBit(r_pnt)  = WrapBit(w_pnt) /\ match

\* Port outputs.  A single entry is a plain register: nothing lags.
free_o  == ~full
avail_o == IF Depth = 1 THEN ~empty  ELSE avail
rdata_o == IF Depth = 1 THEN fifo[0] ELSE rdata

TypeOK == /\ w_pnt \in Pointers
          /\ r_pnt \in Pointers
          /\ fifo \in [Addresses -> Data]
          /\ rdata \in Data
          /\ avail \in BOOLEAN

\* Reset clears the pointers and avail; RAM and RAM output hold anything.
Init == /\ w_pnt = 0
        /\ r_pnt = 0
        /\ fifo \in [Addresses -> Data]
        /\ rdata \in Data
        /\ avail = FALSE

\* Mutant: an access has priority over the clear.
NextPointerAccessFirst(p, clear, step) ==
  IF step THEN Increment(p) ELSE IF clear THEN 0 ELSE p

NextPointer(p, clear, step) ==
  IF clear THEN 0 ELSE IF step THEN Increment(p) ELSE p

\* The clock edge for given write and read enables and registered status.
Edge(clear_i, we, wdata_i, re, status) ==
  /\ w_pnt' = NextPointer(w_pnt, clear_i, we)
  /\ r_pnt' = NextPointer(r_pnt, clear_i, re)
  /\ avail' = status
  /\ fifo'  = IF we /\ ~clear_i
                THEN [fifo EXCEPT ![Address(w_pnt)] = wdata_i]
                ELSE fifo
  /\ rdata' = fifo[Address(r_pnt)]

\* Mutants: a write is not refused when full; avail does not wait for the RAM.
ClockWriteWhenFull(clear_i, we_i, wdata_i, re_i) ==
  Edge(clear_i, we_i, wdata_i, re_i /\ ~empty, ~empty)
ClockEarlyAvail(clear_i, we_i, wdata_i, re_i) ==
  Edge(clear_i, we_i /\ ~full, wdata_i, re_i /\ ~empty, ~empty \/ we_i)

Clock(clear_i, we_i, wdata_i, re_i) ==
  Edge(clear_i, we_i /\ ~full, wdata_i, re_i /\ ~empty, ~empty)

Next == \E clear_i, we_i, re_i \in BOOLEAN, wdata_i \in Data :
          Clock(clear_i, we_i, wdata_i, re_i)

Spec == Init /\ [][Next]_vars

-----------------------------------------------------------------------------
\* The words currently held.

Occupancy == IF w_pnt >= r_pnt THEN w_pnt - r_pnt
                               ELSE w_pnt + 2 * Depth - r_pnt

Ahead(i)  == IF r_pnt + i >= 2 * Depth THEN r_pnt + i - 2 * Depth
                                       ELSE r_pnt + i

Contents == [ i \in 1 .. Occupancy |-> fifo[Address(Ahead(i - 1))] ]

\* The pointers never drift more than Depth apart: a full FIFO refuses the
\* write and an empty one the read, so neither overruns the other.
NoOverrun == Occupancy <= Depth

\* The FIFO implements a bounded queue: every accepted word is kept, in
\* order, until it is read or cleared, and a full FIFO drops the new word and
\* never an old one.
Queue == INSTANCE BoundedQueue WITH Capacity <- Depth, queue <- Contents

ImplementsQueue == Queue!Spec

\* First-word-fall-through: after a clock with neither a read nor a clear, a
\* set avail_o means that rdata_o is the oldest word of a non-empty FIFO.
\* (After a read, avail_o and rdata_o still show the word just read: a reader
\* has to leave one clock between two reads.)
HeadOnOutput ==
  [][ \A we_i, re_i \in BOOLEAN, wdata_i \in Data :
        /\ Clock(FALSE, we_i, wdata_i, re_i)
        /\ ~ (re_i /\ ~empty)
        /\ avail_o'
        => Contents' /= << >> /\ rdata_o' = Contents'[1] ]_vars

=============================================================================
