------------------------------ MODULE Atomics ------------------------------
(***************************************************************************)
(* Two harts, the round-robin switch of the core complex, the two atomics  *)
(* controllers and a memory, wired as in neorv32_top:                      *)
(*                                                                         *)
(*   harts -> bus_switch -> bus_amo_rmw -> bus_amo_rvs -> memory           *)
(*                                                                         *)
(* One step is one clock of all of them.  Hart 0 is "a", hart 1 is "b".    *)
(* The harts issue any of Requests at any time.  The whole is shown to     *)
(* implement AtomicMemory.                                                 *)
(***************************************************************************)
EXTENDS Integers

CONSTANTS Addr, Word, GranuleSize, Alu(_, _, _),
          Faulty,    \* addresses that answer every access with an error
          None,
          Requests   \* accesses the harts make, records [op, addr, data]

VARIABLES
  state, sel_q, lock, req,             \* switch
  rmw, cmd, rdata, wdata, alu_res,     \* RMW controller
  rsv, turn, sc_pend_pass, sc_pend_fail,  \* reservation station
  mem, dev, rsp,                       \* memory, access it holds, response
  todo, stb_i, lock_i,                 \* per hart: access, strobe, lock
  link                                 \* history: as in AtomicMemory

switch_vars == << state, sel_q, lock, req >>
rmw_vars    == << rmw, cmd, rdata, wdata, alu_res >>
rvs_vars    == << rsv, turn, sc_pend_pass, sc_pend_fail >>
mem_vars    == << mem, dev, rsp, link >>
hart_vars   == << todo, stb_i, lock_i >>
vars == << switch_vars, rmw_vars, rvs_vars, mem_vars, hart_vars >>

Hart == {"a", "b"}

-----------------------------------------------------------------------------
\* Wiring.  The requests run from the harts to the memory ...
Sel == INSTANCE BusSwitch WITH ROUND_ROBIN_EN <- TRUE, ack_i <- FALSE

sys2_req == LET h == Sel!sel IN
  IF todo[h] = None
  THEN [stb |-> FALSE, op |-> "load", rw |-> FALSE, addr |-> 0, data |-> 0,
        id |-> h]
  ELSE [stb |-> Sel!stb, op |-> todo[h].op, rw |-> todo[h].op \in {"store", "sc"},
        addr |-> todo[h].addr, data |-> todo[h].data, id |-> h]

RmwReq == INSTANCE BusAmoRmw WITH state <- rmw, core_req_i <- sys2_req,
            sys_rsp_i <- rsp
Rvs    == INSTANCE BusAmoRvs WITH core_req_i <- RmwReq!sys_req_o,
            sys_rsp_i <- rsp

\* ... and the responses back.
Rmw    == INSTANCE BusAmoRmw WITH state <- rmw, core_req_i <- sys2_req,
            sys_rsp_i <- Rvs!core_rsp_o
Switch == INSTANCE BusSwitch WITH ROUND_ROBIN_EN <- TRUE,
            ack_i <- Rmw!core_rsp_o.ack

Ops    == Rmw!RmwOps \cup {"load", "store", "lr", "sc"}
Result == IF Rmw!core_rsp_o.err THEN -1 ELSE Rmw!core_rsp_o.data

ASSUME RequestsAssumption == /\ Requests \subseteq [op : Ops, addr : Addr, data : Word]
                             /\ 0 \in Word

-----------------------------------------------------------------------------
Init ==
  /\ Switch!Init /\ Rmw!Init /\ Rvs!Init
  /\ mem = [a \in Addr |-> 0] /\ dev = None
  /\ rsp = [ack |-> FALSE, err |-> FALSE, data |-> 0]
  /\ todo = [h \in Hart |-> None]
  /\ stb_i = [h \in Hart |-> FALSE] /\ lock_i = [h \in Hart |-> FALSE]
  /\ link = [h \in Hart |-> None]

\* The load/store units.  start gives the access an idle hart begins, or None.
\* The access is held until its answer; the strobe and, for an RMW operation,
\* the lock rise with it, and the lock falls with the answer.
Starts(start, h) == todo[h] = None /\ start[h] /= None

Harts(start) ==
  /\ todo' = [h \in Hart |-> IF todo[h] = None THEN start[h]
                             ELSE IF Switch!Ack(h) THEN None ELSE todo[h]]
  /\ stb_i' = [h \in Hart |-> Starts(start, h)]
  /\ lock_i' = [h \in Hart |-> IF Starts(start, h)
                               THEN start[h].op \in Rmw!RmwOps
                               ELSE lock_i[h] /\ ~Switch!Ack(h)]

\* The memory takes an access, and performs and acknowledges it at the same
\* edge or at a later one.
Access == IF Rvs!sys_req_o.stb THEN Rvs!sys_req_o ELSE dev
Hold   == /\ dev' = Access
          /\ rsp' = [ack |-> FALSE, err |-> FALSE, data |-> 0]
          /\ UNCHANGED << mem, link >>

Linked(h, access) ==
  IF h = access.id /\ access.op = "lr" THEN Rvs!Granule(access.addr)
  ELSE IF h = access.id /\ access.op = "sc" THEN None
  ELSE IF /\ access.rw /\ access.addr \notin Faulty
          /\ link[h] = Rvs!Granule(access.addr)
  THEN None ELSE link[h]

Perform ==
  LET access == Access
      fault  == access.addr \in Faulty
  IN /\ access /= None
     /\ dev' = None
     /\ rsp' = [ack |-> TRUE, err |-> fault,
                data |-> IF fault \/ access.rw THEN 0 ELSE mem[access.addr]]
     /\ mem' = IF access.rw /\ ~fault
               THEN [mem EXCEPT ![access.addr] = access.data] ELSE mem
     /\ link' = [h \in Hart |-> Linked(h, access)]

Clock(start) == /\ Switch!Clock /\ Rmw!Clock /\ Rvs!Clock
                /\ Hold \/ Perform
                /\ Harts(start)

IdleHarts == {h \in Hart : todo[h] = None}
Next == \E start \in [IdleHarts -> Requests \cup {None}] : Clock(start)
Spec == Init /\ [][Next]_vars

-----------------------------------------------------------------------------
\* An access is performed in the clock in which its acknowledge is visible.
Abstract == INSTANCE AtomicMemory WITH
  todo   <- [h \in Hart |-> IF Switch!Ack(h) THEN None ELSE todo[h]],
  answer <- [h \in Hart |-> IF Switch!Ack(h) THEN Result ELSE None]

\* Every load, store, LR, SC and RMW of either hart is one atomic step on the
\* memory, and an SC passes only if nobody wrote to the granule since the LR.
ImplementsAtomicMemory == Abstract!Spec

=============================================================================
