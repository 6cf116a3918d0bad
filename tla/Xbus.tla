-------------------------------- MODULE Xbus --------------------------------
(***************************************************************************)
(* neorv32_xbus without register stages: the bridge from the X port of the *)
(* gateway to the external (Wishbone) bus.                                 *)
(***************************************************************************)
VARIABLES pending, locked,  \* registers of the arbiter
          xbus_ack_i        \* answer (acknowledge or error) from outside

Init == pending = FALSE /\ locked = FALSE

xbus_cyc_o(stb) == stb \/ pending

\* Mutant: the answer is passed on whether or not it is expected.
rsp_ack_ungated == xbus_ack_i
rsp_ack == pending /\ xbus_ack_i

\* What ends an access: the keeper, the answer, the release of the lock.
Ended(lock, term) == term \/ (IF locked THEN ~lock ELSE xbus_ack_i)

Clock(stb, lock, term) ==
  IF pending THEN /\ pending' = ~Ended(lock, term)
                  /\ UNCHANGED locked
             ELSE /\ pending' = stb
                  /\ locked' = (stb /\ lock)

=============================================================================
