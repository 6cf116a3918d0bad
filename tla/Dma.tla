--------------------------------- MODULE Dma ---------------------------------
(***************************************************************************)
(* The DMA controller (neorv32_dma.vhd): control register, descriptor      *)
(* FIFO and bus access engine.  One step is one clock edge.                *)
(*                                                                         *)
(* A descriptor is three words: source, destination, configuration.  Words *)
(* are small numbers; as a configuration, a word holds the element count   *)
(* (modulo NUM) and the two "increment" flags.  Elements have size one:    *)
(* byte lanes and byte swapping are left out.                              *)
(***************************************************************************)
EXTENDS Naturals

CONSTANTS Depth,  \* entries of the descriptor FIFO
          NUM     \* number of element counts (2^24)

VARIABLES ctrl, engine, data_buf,
          fifo_w, fifo_r, fifo_mem, fifo_rdata, fifo_avail,
          bus_req_i,  \* access to the registers: [op], [op, enable, start, ack]
                      \* or [op, word]
          dma_rsp_i   \* answer to the engine: [ack, err, data]

fifo == << fifo_w, fifo_r, fifo_mem, fifo_rdata, fifo_avail >>
vars == << ctrl, engine, data_buf, fifo >>

Word == 0 .. 4 * NUM - 1
Config(num, src_inc, dst_inc) == num + NUM * src_inc + 2 * NUM * dst_inc
conf_num(word) == word % NUM
conf_src(word) == (word \div NUM) % 2
conf_dst(word) == word \div (2 * NUM)

Fifo == INSTANCE PrimFifo WITH Data <- Word, w_pnt <- fifo_w, r_pnt <- fifo_r,
          fifo <- fifo_mem, rdata <- fifo_rdata, avail <- fifo_avail

Init ==
  /\ ctrl = [enable |-> FALSE, start |-> FALSE, err |-> FALSE, done |-> FALSE]
  /\ engine = [state |-> "S_CHECK", run |-> FALSE, done |-> FALSE, err |-> FALSE,
               src_addr |-> 0, dst_addr |-> 0, num |-> 0, num_or |-> FALSE,
               src_inc |-> 0, dst_inc |-> 0]
  /\ data_buf = 0
  /\ Fifo!Init

-----------------------------------------------------------------------------
\* Control register.  The start bit lasts a clock; a write of start or ack
\* clears the flags.
CtrlAccess ==
  LET held == [enable |-> ctrl.enable, start |-> FALSE,
               err  |-> ctrl.enable /\ (ctrl.err \/ engine.err),
               done |-> ctrl.enable /\ (ctrl.done \/ engine.done)]
      write == bus_req_i.op = "write_ctrl"
      clear == write /\ (bus_req_i.start \/ bus_req_i.ack)
  IN  ctrl' = [enable |-> IF write THEN bus_req_i.enable ELSE held.enable,
               start  |-> write /\ bus_req_i.start,
               err    |-> ~clear /\ held.err,
               done   |-> ~clear /\ held.done]
irq_o == ctrl.done

\* Descriptor FIFO: read in three states, cleared while disabled.
fifo_we == bus_req_i.op = "write_desc"
fifo_re == engine.state \in {"S_GET_0", "S_GET_1", "S_GET_2"}
DescriptorBuffer ==
  Fifo!Clock(~ctrl.enable, fifo_we, IF fifo_we THEN bus_req_i.word ELSE 0, fifo_re)

-----------------------------------------------------------------------------
\* Bus access engine.
src_add == engine.src_inc
dst_add == engine.dst_inc
Advance(addr, add) == (addr + add) % (4 * NUM)

\* A START, or the end of a descriptor, begins with the next descriptor.
Proceeds_once == \* mutant: one descriptor per start
  Fifo!avail_o /\ ~ctrl.err /\ ~engine.run /\ ctrl.start
Proceeds == /\ Fifo!avail_o /\ ~ctrl.err
            /\ IF engine.run THEN ~engine.err ELSE ctrl.start
Check_silent == \* mutant: no done flag after an error
  /\ engine.state = "S_CHECK"
  /\ engine' = [engine EXCEPT !.done = engine.run /\ ~Proceeds /\ ~engine.err, !.err = FALSE,
                              !.num_or = FALSE, !.run = Proceeds,
                              !.state = IF Proceeds THEN "S_GET_0" ELSE @]
Check ==
  /\ engine.state = "S_CHECK"
  /\ engine' = [engine EXCEPT !.done = engine.run /\ ~Proceeds, !.err = FALSE,
                              !.num_or = FALSE, !.run = Proceeds,
                              !.state = IF Proceeds THEN "S_GET_0" ELSE @]

Get0 == /\ engine.state = "S_GET_0"
        /\ engine' = [engine EXCEPT !.state = "S_GET_1"]
Get1 == /\ engine.state = "S_GET_1"
        /\ engine' = [engine EXCEPT !.src_addr = Fifo!rdata_o,
                                    !.state = IF Fifo!avail_o THEN "S_GET_2" ELSE @]
Get2 == /\ engine.state = "S_GET_2"
        /\ engine' = [engine EXCEPT !.dst_addr = Fifo!rdata_o,
                                    !.state = IF Fifo!avail_o THEN "S_GET_3" ELSE @]
Get3 == /\ engine.state = "S_GET_3"
        /\ engine' = [engine EXCEPT !.num = conf_num(Fifo!rdata_o),
                                    !.src_inc = conf_src(Fifo!rdata_o),
                                    !.dst_inc = conf_dst(Fifo!rdata_o),
                                    !.state = "S_READ_REQ"]

\* The destination is advanced with each read but the first.
ReadReq_first == \* mutant: the destination is advanced with the first one, too
  /\ engine.state = "S_READ_REQ"
  /\ engine' = [engine EXCEPT !.dst_addr = Advance(@, dst_add),
                              !.num = (@ + NUM - 1) % NUM,
                              !.state = "S_READ_RSP"]
ReadReq ==
  /\ engine.state = "S_READ_REQ"
  /\ engine' = [engine EXCEPT !.dst_addr = IF engine.num_or THEN Advance(@, dst_add) ELSE @,
                              !.num = (@ + NUM - 1) % NUM,
                              !.state = "S_READ_RSP"]
ReadRsp ==
  /\ engine.state = "S_READ_RSP"
  /\ engine' = IF dma_rsp_i.ack
               THEN [engine EXCEPT !.err = dma_rsp_i.err,
                                   !.state = IF dma_rsp_i.err THEN "S_CHECK" ELSE "S_WRITE_REQ"]
               ELSE engine
WriteReq ==
  /\ engine.state = "S_WRITE_REQ"
  /\ engine' = [engine EXCEPT !.src_addr = Advance(@, src_add),
                              !.num_or = (engine.num /= 0),
                              !.state = "S_WRITE_RSP"]
WriteRsp ==
  /\ engine.state = "S_WRITE_RSP"
  /\ engine' = IF dma_rsp_i.ack
               THEN [engine EXCEPT !.err = dma_rsp_i.err,
                                   !.state = IF ~engine.num_or \/ ~ctrl.enable \/ dma_rsp_i.err
                                             THEN "S_CHECK" ELSE "S_READ_REQ"]
               ELSE engine

BusEngine == \/ Check \/ Get0 \/ Get1 \/ Get2 \/ Get3
             \/ ReadReq \/ ReadRsp \/ WriteReq \/ WriteRsp

SrcAlign == data_buf' = IF engine.state = "S_READ_RSP" THEN dma_rsp_i.data ELSE data_buf

\* Bus output.
Reading == engine.state \in {"S_READ_REQ", "S_READ_RSP"}
dma_req_o == [stb  |-> engine.state \in {"S_READ_REQ", "S_WRITE_REQ"},
              rw   |-> ~Reading,
              addr |-> IF Reading THEN engine.src_addr ELSE engine.dst_addr,
              data |-> data_buf]

Clock == CtrlAccess /\ DescriptorBuffer /\ BusEngine /\ SrcAlign
=============================================================================
