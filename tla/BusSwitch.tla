----------------------------- MODULE BusSwitch ------------------------------
(***************************************************************************)
(* neorv32_bus_switch: two host ports share one device port.               *)
(*                                                                         *)
(* The registers of the arbiter are variables; so are the signals it       *)
(* samples (a_req_i, b_req_i, x_rsp_i), which the enclosing system drives. *)
(* A select signal is the name of the port it selects, '0' being "a".      *)
(***************************************************************************)
EXTENDS Naturals

CONSTANT ROUND_ROBIN_EN  \* BOOLEAN

VARIABLES state, sel_q, lock, req,  \* arbiter registers
          stb_i, lock_i,            \* strobe and lock of each host
          ack_i                     \* acknowledge of the device

Port     == {"a", "b"}
Other(p) == IF p = "a" THEN "b" ELSE "a"
Busy(p)  == IF p = "a" THEN "S_BUSY_A" ELSE "S_BUSY_B"
States   == {"S_IDLE"} \cup {Busy(p) : p \in Port}

registers == << state, sel_q, lock, req >>

TypeOK == /\ state \in States
          /\ sel_q \in Port
          /\ lock \in [Port -> BOOLEAN]
          /\ req \in [Port -> BOOLEAN]

Init == /\ state = "S_IDLE"
        /\ sel_q = "a"
        /\ lock = [p \in Port |-> FALSE]
        /\ req  = [p \in Port |-> FALSE]

\* Arbitration in S_IDLE: a new strobe or one stored while the port waited.
Requesting(p) == stb_i[p] \/ req[p]
\* Mutant: the same port is always preferred.
PreferredA    == "a"
Preferred     == IF sel_q = "b" \/ ~ROUND_ROBIN_EN THEN "a" ELSE "b"
Granted       == IF Requesting(Preferred) THEN Preferred ELSE Other(Preferred)
AnyRequest    == \E p \in Port : Requesting(p)

\* Outputs: selected host, strobe of the device port, acknowledge per host.
sel == CASE state = "S_BUSY_A" -> "a"
         [] state = "S_BUSY_B" -> "b"
         [] OTHER -> IF AnyRequest THEN Granted ELSE "a"
stb == IF state = "S_IDLE" THEN AnyRequest ELSE stb_i[sel]

Ack(p) == ack_i /\ sel_q = p

\* Mutant: the acknowledge ends a locked transfer too.
DoneIgnoringLock(p) == ack_i
\* A transfer ends with the release of the lock or a single acknowledge.
Done(p) == IF lock[p] THEN ~lock_i[p] ELSE ack_i

NextState ==
  IF state = "S_IDLE" THEN IF AnyRequest THEN Busy(Granted) ELSE "S_IDLE"
                      ELSE IF Done(sel)  THEN "S_IDLE"      ELSE state

\* Mutant: a strobe is stored only while the arbiter is idle.
StoredIdleOnly(p) == state = "S_IDLE" /\ (stb_i[p] \/ req[p])
\* A strobe is stored until its port is served.
Stored(p) == state /= Busy(p) /\ (stb_i[p] \/ req[p])

Clock == /\ state' = NextState
         /\ sel_q' = sel
         /\ lock'  = IF state = "S_IDLE" THEN lock_i ELSE lock
         /\ req'   = [p \in Port |-> Stored(p)]

=============================================================================
