----------------------------- MODULE BusAmoRmw -----------------------------
(***************************************************************************)
(* neorv32_bus_amo_rmw: turns an atomic read-modify-write request into a   *)
(* read and a write of the system behind it.  core_req_i and sys_rsp_i are *)
(* driven by the enclosing module.  A request is a record [stb, op, rw,    *)
(* addr, data, id]; op stands for amo and amoop.                           *)
(***************************************************************************)
EXTENDS Integers

CONSTANTS Word,       \* 32-bit words
          Alu(_, _, _)  \* operation, word in memory, operand: see AmoAlu

VARIABLES state, cmd, rdata, wdata,  \* arbiter record
          alu_res,                   \* result register of the ALU
          core_req_i, sys_rsp_i      \* inputs

RmwOps == {"swap", "add", "xor", "and", "or", "min", "max", "minu", "maxu"}
registers == << state, cmd, rdata, wdata, alu_res >>

Init == /\ state = "S_IDLE"
        /\ cmd = "swap"
        /\ rdata = 0 /\ wdata = 0 /\ alu_res = 0

\* Outputs.
writing == state \in {"S_WRITE", "S_WRITE_WAIT"}

\* Mutant: the write of the result is not strobed.
sys_req_unstrobed == [core_req_i EXCEPT !.rw  = writing \/ @,
                                        !.data = IF writing THEN alu_res ELSE @]
sys_req_o == [core_req_i EXCEPT !.stb = (state = "S_WRITE") \/ @,
                                !.rw  = writing \/ @,
                                !.data = IF writing THEN alu_res ELSE @]

visible == state \in {"S_IDLE", "S_WRITE_WAIT"}
core_rsp_o == [ack  |-> sys_rsp_i.ack /\ visible,
               err  |-> sys_rsp_i.err /\ visible,
               data |-> IF state = "S_IDLE" THEN sys_rsp_i.data ELSE rdata]

NextState ==
  CASE state = "S_IDLE" ->
         IF core_req_i.stb /\ core_req_i.op \in RmwOps
         THEN "S_READ_WAIT" ELSE state
    [] state = "S_READ_WAIT"  -> IF sys_rsp_i.ack THEN "S_EXECUTE" ELSE state
    [] state = "S_EXECUTE"    -> "S_WRITE"
    [] state = "S_WRITE"      -> "S_WRITE_WAIT"
    [] state = "S_WRITE_WAIT" -> IF sys_rsp_i.ack THEN "S_IDLE" ELSE state

Clock ==
  /\ state' = NextState
  /\ IF state = "S_IDLE" /\ NextState /= state
     THEN cmd' = core_req_i.op /\ wdata' = core_req_i.data
     ELSE UNCHANGED << cmd, wdata >>
  /\ rdata' = IF state = "S_READ_WAIT" THEN sys_rsp_i.data ELSE rdata
  /\ alu_res' = Alu(cmd, rdata, wdata)

=============================================================================
