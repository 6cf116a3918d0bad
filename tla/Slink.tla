------------------------------- MODULE Slink --------------------------------
(***************************************************************************)
(* neorv32_slink: the stream link, two FIFOs between the processor bus and *)
(* two valid/ready streams.                                                *)
(*                                                                         *)
(* One action, Clock, is one clock edge.  The inputs of the current clock  *)
(* are variables too, so that an invariant can speak of a handshake while  *)
(* it happens.  A word stands for the 37 bits of a FIFO entry (data, route *)
(* and end-of-stream flag); words are numbered modulo Words in the order   *)
(* in which they enter a FIFO, which is enough to see one lost, repeated   *)
(* or overtaken.                                                           *)
(***************************************************************************)
EXTENDS Integers, Sequences

CONSTANTS RxDepth, TxDepth,  \* SLINK_RX_FIFO, SLINK_TX_FIFO
          Words,             \* words are numbered 0 .. Words-1
          IrqConfigs,        \* interrupt conditions software may enable
          BusOps             \* accesses software makes besides CTRL writes

ASSUME SlinkAssumption == /\ RxDepth \in Nat \ {0} /\ TxDepth \in Nat \ {0}
                          /\ Words \in Nat
                          /\ Words > RxDepth + 1 /\ Words > TxDepth + 1
                          /\ BusOps \subseteq {"read_ctrl", "read_data", "write_data"}

Word    == 0 .. Words - 1
Succ(n) == (n + 1) % Words

\* Bus accesses, by register and direction.
Idle      == [op |-> "idle"]
WriteCtrl == [op : {"write_ctrl"}, enable : BOOLEAN, irq : IrqConfigs]
Simple    == [op : BusOps]

VARIABLES
  enable, irq_cfg,                          \* control register
  rx_attr,                                  \* rx_last and rx_route
  irq,                                      \* irq_o
  ack, rsp,                                 \* bus_rsp_o: ack, flag or word
  tx_w, tx_r, tx_fifo, tx_rdata, tx_avail,  \* TX FIFO
  rx_w, rx_r, rx_fifo, rx_rdata, rx_avail,  \* RX FIFO
  bus, rx_valid, tx_ready,                  \* inputs of this clock
  tx_next, tx_due,  \* history: next word accepted, next word to transfer
  rx_next, rx_due,  \* history: next word offered, next word software gets
  polled            \* software has seen RX_EMPTY = 0 since its last read

tx_vars  == << tx_w, tx_r, tx_fifo, tx_rdata, tx_avail >>
rx_vars  == << rx_w, rx_r, rx_fifo, rx_rdata, rx_avail >>
regs     == << enable, irq_cfg, rx_attr, irq, ack, rsp >>
inputs   == << bus, rx_valid, tx_ready >>
history  == << tx_next, tx_due, rx_next, rx_due, polled >>
vars     == << regs, tx_vars, rx_vars, inputs, history >>

TX == INSTANCE PrimFifo WITH Data <- Word, Depth <- TxDepth, w_pnt <- tx_w,
        r_pnt <- tx_r, fifo <- tx_fifo, rdata <- tx_rdata, avail <- tx_avail
RX == INSTANCE PrimFifo WITH Data <- Word, Depth <- RxDepth, w_pnt <- rx_w,
        r_pnt <- rx_r, fifo <- rx_fifo, rdata <- rx_rdata, avail <- rx_avail

\* Combinational signals.
slink_tx_valid_o == TX!avail_o
slink_tx_data_o  == TX!rdata_o
slink_rx_ready_o == RX!free_o /\ enable
tx_fifo_we       == bus.op = "write_data"
rx_fifo_re       == bus.op = "read_data"

TxTransfer == slink_tx_valid_o /\ tx_ready
RxTransfer == rx_valid /\ slink_rx_ready_o

Init ==
  /\ enable = FALSE /\ irq_cfg = {} /\ rx_attr = 0 /\ irq = FALSE
  /\ ack = FALSE /\ rsp = 0
  /\ TX!Init /\ tx_fifo = [a \in TX!Addresses |-> 0] /\ tx_rdata = 0
  /\ RX!Init /\ rx_fifo = [a \in RX!Addresses |-> 0] /\ rx_rdata = 0
  /\ bus = Idle /\ rx_valid = FALSE /\ tx_ready = FALSE
  /\ tx_next = 0 /\ tx_due = 0 /\ rx_next = 0 /\ rx_due = 0
  /\ polled = FALSE

\* Mutant: disabling the link leaves the words in the FIFOs.
FifosKeepOnDisable ==
  /\ TX!Clock(FALSE, tx_fifo_we, tx_next, tx_ready)
  /\ RX!Clock(FALSE, rx_valid, rx_next, rx_fifo_re)

Fifos ==
  /\ TX!Clock(~enable, tx_fifo_we, tx_next, tx_ready)
  /\ RX!Clock(~enable, rx_valid, rx_next, rx_fifo_re)

\* Mutant: the attributes are taken when a word enters the FIFO.
BusAccessAttrEarly ==
  /\ ack' = (bus /= Idle)
  /\ rsp' = CASE bus.op = "read_ctrl" -> IF RX!avail_o THEN 1 ELSE 0
              [] bus.op = "read_data" -> RX!rdata_o
              [] OTHER -> 0
  /\ IF bus.op = "write_ctrl"
     THEN enable' = bus.enable /\ irq_cfg' = bus.irq
     ELSE UNCHANGED << enable, irq_cfg >>
  /\ rx_attr' = IF RxTransfer THEN rx_next ELSE rx_attr

\* bus_access and rx_attributes.  Of the flags in CTRL only RX_EMPTY is kept.
BusAccess ==
  /\ ack' = (bus /= Idle)
  /\ rsp' = CASE bus.op = "read_ctrl" -> IF RX!avail_o THEN 1 ELSE 0
              [] bus.op = "read_data" -> RX!rdata_o
              [] OTHER -> 0
  /\ IF bus.op = "write_ctrl"
     THEN enable' = bus.enable /\ irq_cfg' = bus.irq
     ELSE UNCHANGED << enable, irq_cfg >>
  /\ rx_attr' = IF rx_fifo_re THEN RX!rdata_o ELSE rx_attr

IrqGen ==
  irq' = (enable /\ \/ "rx_nempty" \in irq_cfg /\ RX!avail_o
                    \/ "rx_full"   \in irq_cfg /\ ~RX!free_o
                    \/ "tx_empty"  \in irq_cfg /\ ~TX!avail_o
                    \/ "tx_nfull"  \in irq_cfg /\ TX!free_o)

\* What the two ends of the streams and the software know.
Bookkeeping ==
  /\ tx_next' = IF tx_fifo_we /\ TX!free_o /\ enable
                THEN Succ(tx_next) ELSE tx_next
  /\ tx_due' = IF ~enable THEN tx_next'
               ELSE IF TxTransfer THEN Succ(tx_due) ELSE tx_due
  /\ rx_next' = IF RxTransfer THEN Succ(rx_next) ELSE rx_next
  /\ rx_due' = IF ~enable THEN rx_next'
               ELSE IF rx_fifo_re THEN Succ(rx_due) ELSE rx_due
  /\ polled' = CASE bus.op = "read_ctrl" -> RX!avail_o
                 [] bus.op \in {"read_data", "write_ctrl"} -> FALSE
                 [] OTHER -> polled

\* The inputs of the next clock.  The bus host waits for the acknowledge
\* before its next access, and software reads DATA only when it has seen
\* RX_EMPTY = 0; the peer holds a word it offers until it is taken.
Environment ==
  /\ bus' \in IF ack' THEN {Idle} ELSE {Idle} \cup WriteCtrl \cup Simple
  /\ bus'.op = "read_data" => polled'
  /\ rx_valid' \in IF rx_valid /\ ~RxTransfer THEN {TRUE} ELSE BOOLEAN
  /\ tx_ready' \in BOOLEAN

Clock == Fifos /\ BusAccess /\ IrqGen /\ Bookkeeping /\ Environment

Spec == Init /\ [][Clock]_vars

-----------------------------------------------------------------------------
\* Distance of two word numbers.
Between(first, next) == (next - first) % Words

\* While the link is enabled, the TX FIFO holds exactly the words that software
\* wrote and the stream has not transferred yet, and what is transferred is the
\* oldest of them.
TxExactlyOnce ==
  enable => /\ Len(TX!Contents) = Between(tx_due, tx_next)
            /\ TxTransfer => slink_tx_data_o = tx_due

\* While the link is enabled, what software reads from DATA are exactly the
\* words of the RX stream in order, provided it polls RX_EMPTY first.
RxExactlyOnce ==
  enable => /\ Len(RX!Contents) = Between(rx_due, rx_next)
            /\ rx_fifo_re => RX!rdata_o = rx_due /\ RX!Contents /= << >>

\* No word of either stream is lost, repeated or overtaken.
ExactlyOnce == TxExactlyOnce /\ RxExactlyOnce

\* RX_LAST and ROUTE belong to the word that DATA returned last, which is the
\* word of the stream whose turn it was, until DATA is read again.
AttributesOfLastRead ==
  [][IF rx_fifo_re
     THEN rx_attr' = rsp' /\ (enable => rx_attr' = rx_due)
     ELSE rx_attr' = rx_attr]_vars

\* AXI4-Stream: a valid word is held until the receiver is ready.
TxHeldUntilReady ==
  [][slink_tx_valid_o /\ ~tx_ready /\ enable
       => slink_tx_valid_o' /\ slink_tx_data_o' = slink_tx_data_o]_vars

=============================================================================
