----------------------------- MODULE BusGateway -----------------------------
(***************************************************************************)
(* neorv32_bus_gateway: the address decoder in front of the memories, the  *)
(* IO space and the external bus, and its bus monitor, "the keeper", which *)
(* ends accesses that nobody answers.                                      *)
(*                                                                         *)
(* An address is named by the section it lies in, "void" when it lies in   *)
(* none.  A time-out is the power of two whose counter bit is watched.     *)
(***************************************************************************)
EXTENDS Naturals

CONSTANTS Internal,  \* the ports with an address section, out of A to D
          Enabled,   \* the ports that are implemented
          Tmo        \* the time-out of each port, 0 to disable it

VARIABLES keeper,    \* the registers of the monitor
          ack_i      \* the ports that acknowledge in this clock

Region  == Internal \cup {"X"}
Address == Internal \cup {"void"}

\* The counter is as wide as the largest time-out needs it.
Largest  == CHOOSE t \in {Tmo[r] : r \in Region} : \A r \in Region : Tmo[r] <= t
CntRange == IF Largest = 0 THEN 2 ELSE 2 * Largest

Init == keeper = [state |-> "00", lock |-> FALSE, sel |-> {}, cnt |-> 0]

-----------------------------------------------------------------------------
\* The selected port: an implemented section, else the void, if implemented.
port_sel(addr) == IF addr \in Enabled THEN {addr} ELSE Enabled \cap {"X"}

\* A request (strobe, lock, address) on port r.
PortStb(r, req) == req.stb /\ r \in port_sel(req.addr)

int_ack == ack_i \cap Enabled /= {}
bus_err == keeper.state = "11"
rsp_ack == int_ack \/ bus_err
term_o  == bus_err

\* Mutant: the time-out is not observed.
tmo_fire_never == FALSE
\* The time-out bit of the port selected when the access began.
tmo_fire == \E r \in keeper.sel :
              Tmo[r] > 0 /\ (keeper.cnt \div Tmo[r]) % 2 = 1

\* Mutant: the counter runs through a burst instead of restarting.
Count_through == (keeper.cnt + 1) % CntRange
Count == IF int_ack THEN 0 ELSE (keeper.cnt + 1) % CntRange

\* A locked transfer ends with its lock, a single access with its answer.
Finished(req) == IF keeper.lock THEN ~req.lock ELSE int_ack

\* Waiting for a request.
Idle(req) ==
  /\ keeper.state = "00"
  /\ keeper' = [state |-> IF req.stb THEN "01" ELSE "00",
                lock  |-> req.lock,
                sel   |-> port_sel(req.addr),
                cnt   |-> 0]

\* A transfer in progress: the time-out goes before its end.
Busy(req) ==
  /\ keeper.state = "01"
  /\ keeper' = [keeper EXCEPT
                  !.cnt   = Count,
                  !.state = IF tmo_fire THEN "11"
                            ELSE IF Finished(req) THEN "00" ELSE "01"]

\* The error response, until a locked transfer gives up its lock.
Error(req) ==
  /\ keeper.state = "11"
  /\ keeper' = [keeper EXCEPT
                  !.state = IF keeper.lock /\ req.lock THEN "11" ELSE "00"]

Clock(req) == Idle(req) \/ Busy(req) \/ Error(req)

=============================================================================
