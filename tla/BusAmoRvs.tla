----------------------------- MODULE BusAmoRvs -----------------------------
(***************************************************************************)
(* neorv32_bus_amo_rvs: the reservation set shared by both cores, for data *)
(* accesses (instruction fetches are ignored by the station).              *)
(***************************************************************************)
EXTENDS Integers

CONSTANTS GranuleSize  \* addresses per granule (64 bytes)

VARIABLES rsv,                        \* [set, id, addr]
          turn,                       \* core whose turn it is
          sc_pend_pass, sc_pend_fail, \* result of the pending SC
          core_req_i, sys_rsp_i       \* inputs

Core       == {"a", "b"}
Other(c)   == IF c = "a" THEN "b" ELSE "a"
Granule(a) == a \div GranuleSize

registers == << rsv, turn, sc_pend_pass, sc_pend_fail >>

Init == /\ rsv = [set |-> FALSE, id |-> "a", addr |-> 0]
        /\ turn = "a"
        /\ sc_pend_pass = FALSE /\ sc_pend_fail = FALSE

lr == core_req_i.op = "lr"
sc == core_req_i.op = "sc"

\* Mutant: every LR takes the reservation.
lr_allow_always == TRUE
lr_allow == ~rsv.set \/ rsv.id = core_req_i.id \/ turn = core_req_i.id
sc_valid == rsv.set /\ rsv.id = core_req_i.id
                    /\ rsv.addr = Granule(core_req_i.addr)

Reserve == rsv' = IF lr_allow
                  THEN [set  |-> TRUE, id |-> core_req_i.id,
                        addr |-> Granule(core_req_i.addr)]
                  ELSE rsv

Drop(b) == rsv' = [rsv EXCEPT !.set = @ /\ ~b]

\* Mutant: only plain stores are snooped, not the writes of the RMW controller.
StationPlainStores ==
  IF ~core_req_i.stb THEN UNCHANGED << rsv, turn >>
  ELSE IF lr THEN Reserve /\ UNCHANGED turn
  ELSE IF sc THEN /\ Drop(sc_valid \/ rsv.id = core_req_i.id)
                  /\ turn' = IF sc_valid THEN Other(turn) ELSE turn
  ELSE /\ Drop(core_req_i.op = "store" /\ Granule(core_req_i.addr) = rsv.addr)
       /\ UNCHANGED turn

\* reservation_station
Station ==
  IF ~core_req_i.stb THEN UNCHANGED << rsv, turn >>
  ELSE IF lr THEN Reserve /\ UNCHANGED turn
  ELSE IF sc THEN /\ Drop(sc_valid \/ rsv.id = core_req_i.id)
                  /\ turn' = IF sc_valid THEN Other(turn) ELSE turn
  ELSE /\ Drop(core_req_i.rw /\ Granule(core_req_i.addr) = rsv.addr)
       /\ UNCHANGED turn

\* sc_result
Result ==
  IF core_req_i.stb /\ sc
  THEN /\ sc_pend_pass' = (sc_pend_pass \/ sc_valid)
       /\ sc_pend_fail' = (sc_pend_fail \/ ~sc_valid)
  ELSE /\ sc_pend_pass' = (sc_pend_pass /\ ~sys_rsp_i.ack)
       /\ sc_pend_fail' = (sc_pend_fail /\ ~sys_rsp_i.ack)

Clock == Station /\ Result

\* A failing SC goes on as a read.
sys_req_o  == [core_req_i EXCEPT !.rw = @ /\ ~(sc /\ ~sc_valid)]
core_rsp_o == [sys_rsp_i EXCEPT !.data = IF sc_pend_fail THEN 1
                                         ELSE IF sc_pend_pass THEN 0 ELSE @]

=============================================================================
