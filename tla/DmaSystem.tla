------------------------------ MODULE DmaSystem ------------------------------
(***************************************************************************)
(* The DMA controller with the software that programs it and the bus that  *)
(* serves it.  The word at an address is the address.                      *)
(*                                                                         *)
(* Software uses the functions of sw/lib/source/neorv32_dma.c: it programs *)
(* descriptors word after word, then starts.  neorv32_dma_program leaves a *)
(* part of a descriptor behind when the FIFO fills up in the middle, so    *)
(* software sees to it that there is room for three words.  It programs    *)
(* only when the controller is idle (no chaining), and disables it, if it  *)
(* is busy, only during the transfers of the last descriptor.              *)
(***************************************************************************)
EXTENDS Sequences, Naturals

CONSTANTS Depth, NUM,   \* of the controller
          Descriptors   \* the descriptors software programs: [src, dst, num,
                        \* src_inc, dst_inc]

\* The datasheet: the number of elements "must be greater than zero".
ASSUME DmaAssumption ==
  /\ Depth \in Nat \ {0, 1, 2, 3}
  /\ NUM \in Nat \ {0, 1}
  /\ Descriptors \subseteq [src : 0 .. 4 * NUM - 1, dst : 0 .. 4 * NUM - 1,
                            num : 1 .. NUM - 1, src_inc : {0, 1}, dst_inc : {0, 1}]

VARIABLES ctrl, engine, data_buf,
          fifo_w, fifo_r, fifo_mem, fifo_rdata, fifo_avail,
          bus,   \* register access of software in this clock
          job,   \* software: the descriptor being written
          rest,  \* software: its words not written yet
          rsp,   \* answer of the bus in this clock
          owed,  \* the bus has an access to answer
          plan,  \* ghost: the descriptors to work off, in order
          copied \* ghost: the elements of the first one that are copied

dma  == << ctrl, engine, data_buf, fifo_w, fifo_r, fifo_mem, fifo_rdata, fifo_avail >>
vars == << dma, bus, job, rest, rsp, owed, plan, copied >>

Dma == INSTANCE Dma WITH bus_req_i <- bus, dma_rsp_i <- rsp

NoAccess == [op |-> "none"]
NoAnswer == [ack |-> FALSE, err |-> FALSE, data |-> 0]

Init ==
  /\ fifo_mem = [a \in Dma!Fifo!Addresses |-> 0] /\ fifo_rdata = 0 /\ Dma!Init
  /\ bus = NoAccess /\ job \in Descriptors /\ rest = << >>
  /\ rsp = NoAnswer /\ owed = FALSE /\ plan = << >> /\ copied = 0

-----------------------------------------------------------------------------
\* Software.  It knows that the controller is idle: it started nothing since.
Quiet == ~engine.run /\ ~ctrl.start
Words(d) == << d.src, d.dst, Dma!Config(d.num, d.src_inc, d.dst_inc) >>
Room == Len(Dma!Fifo!Contents) + 3 <= Depth

\* A disable, several instructions after any start, when nothing is chained;
\* the next enable waits for the busy flag.
Transferring == engine.state \in {"S_READ_REQ", "S_READ_RSP", "S_WRITE_REQ", "S_WRITE_RSP"}
MayDisable == Quiet \/ (Transferring /\ Dma!Fifo!Contents = << >>)

WriteCtrl(enable, start, ack) ==
  bus' = [op |-> "write_ctrl", enable |-> enable, start |-> start, ack |-> ack]

\* An access to a register is acknowledged in the clock after its strobe.
Software ==
  \/ bus' = NoAccess /\ UNCHANGED << job, rest >>
  \/ /\ bus.op = "none" /\ rest /= << >>
     /\ bus' = [op |-> "write_desc", word |-> Head(rest)] /\ rest' = Tail(rest)
     /\ UNCHANGED job
  \/ /\ bus.op = "none" /\ rest = << >> /\ ctrl.enable /\ Quiet /\ Room
     /\ job' \in Descriptors
     /\ bus' = [op |-> "write_desc", word |-> job'.src] /\ rest' = Tail(Words(job'))
  \/ /\ bus.op = "none" /\ rest = << >>
     /\ UNCHANGED << job, rest >>
     /\ \/ ~ctrl.enable /\ ~engine.run /\ WriteCtrl(TRUE, FALSE, FALSE)
        \/ ctrl.enable /\ Quiet /\ WriteCtrl(TRUE, TRUE, FALSE)
        \/ ctrl.enable /\ Quiet /\ ctrl.done /\ WriteCtrl(TRUE, FALSE, TRUE)
        \/ ctrl.enable /\ MayDisable /\ WriteCtrl(FALSE, FALSE, FALSE)

-----------------------------------------------------------------------------
\* The bus answers each access, in any clock after the strobe.
Bus == LET request == Dma!dma_req_o
       IN  \/ rsp' = NoAnswer /\ owed' = (owed \/ request.stb)
           \/ /\ owed \/ request.stb
              /\ owed' = FALSE
              /\ \/ rsp' = [ack |-> TRUE, err |-> FALSE,
                            data |-> IF request.rw THEN 0 ELSE request.addr]
                 \/ rsp' = [ack |-> TRUE, err |-> TRUE, data |-> 0]

\* Ghost: a descriptor joins the plan when its last word is written.  An
\* element is copied with the answer to its write; a descriptor leaves with its
\* last element or an error, and disabling leaves only the element in progress.
Place(base, inc, i) == (base + inc * i) % (4 * NUM)

Answered ==
  IF ~Transferring \/ ~rsp.ack THEN << plan, copied >>
  ELSE IF rsp.err THEN << Tail(plan), 0 >>
  ELSE IF engine.state /= "S_WRITE_RSP" THEN << plan, copied >>
  ELSE IF copied + 1 = plan[1].num THEN << Tail(plan), 0 >> ELSE << plan, copied + 1 >>

Plan ==
  IF ctrl.enable
  THEN /\ plan' = IF bus.op = "write_desc" /\ rest = << >> THEN Append(Answered[1], job)
                                                          ELSE Answered[1]
       /\ copied' = Answered[2]
  ELSE IF Transferring /\ ~(rsp.ack /\ (rsp.err \/ engine.state = "S_WRITE_RSP"))
  THEN plan' = << plan[1] >> /\ UNCHANGED copied
  ELSE plan' = << >> /\ copied' = 0

Clock == Dma!Clock /\ Bus /\ Software /\ Plan
Next  == Clock

\* The clock runs, and the bus answers (see GatewaySystem).
Spec     == Init /\ [][Next]_vars
FairSpec == Spec /\ WF_vars(Next) /\ WF_vars(Next /\ rsp'.ack)

-----------------------------------------------------------------------------
\* Each access of the controller is that of the next element of the descriptors
\* programmed: nothing is copied twice, left out or copied after an error or a
\* disable, and each word is written to its place.
CopiesAsProgrammed ==
  Transferring =>
    /\ plan /= << >> /\ copied < plan[1].num
    /\ LET d == plan[1]
           src == Place(d.src, d.src_inc, copied)
           dst == Place(d.dst, d.dst_inc, copied)
       IN  /\ Dma!Reading => engine.src_addr = src
           /\ ~Dma!Reading => engine.dst_addr = dst /\ data_buf = src

\* The interrupt means that all that was programmed is copied, or an error.
DoneMeansDone == [][~ctrl.done /\ ctrl'.done => plan = << >> \/ ctrl'.err]_vars

\* A start with a descriptor in the FIFO ends with the interrupt, if the
\* controller is not disabled.
Starts == ctrl.enable /\ ctrl.start /\ ~ctrl.err /\ plan /= << >>
EveryStartEnds == Starts ~> (Dma!irq_o \/ ~ctrl.enable)
=============================================================================
