--------------------------- MODULE Atomics_proofs ---------------------------
(***************************************************************************)
(* The two harts, the switch, the atomics controllers and the memory       *)
(* implement AtomicMemory, whatever accesses the harts make: for any       *)
(* addresses, words, granules, ALU and faulty addresses.  On top of it, at *)
(* the end: the spin lock built from LR and SC keeps the harts apart.      *)
(***************************************************************************)
EXTENDS LrScPrograms, TLAPS

-----------------------------------------------------------------------------
\* The inductive invariant.

TypeInv ==
  /\ state \in {"S_IDLE", "S_BUSY_A", "S_BUSY_B"} /\ sel_q \in Hart
  /\ lock \in [Hart -> BOOLEAN] /\ req \in [Hart -> BOOLEAN]
  /\ stb_i \in [Hart -> BOOLEAN] /\ lock_i \in [Hart -> BOOLEAN]
  /\ rmw \in {"S_IDLE", "S_READ_WAIT", "S_EXECUTE", "S_WRITE", "S_WRITE_WAIT"}
  /\ rsp = [ack |-> rsp.ack, err |-> rsp.err, data |-> rsp.data]
  /\ rsp.ack \in BOOLEAN /\ rsp.err \in BOOLEAN
  /\ rsv = [set |-> rsv.set, id |-> rsv.id, addr |-> rsv.addr]
  /\ rsv.set \in BOOLEAN /\ rsv.id \in Hart
  /\ sc_pend_pass \in BOOLEAN /\ sc_pend_fail \in BOOLEAN
  /\ link = [h \in Hart |-> link[h]]

Serving(h) == state = Switch!Busy(h)
IsRmw(h)   == todo[h].op \in Rmw!RmwOps

\* A hart waits for its answer, and the arbiter knows: its strobe is shown or
\* stored until the hart is served.  The lock is shown as long as an RMW
\* operation is in progress, and released in the clock after it.
HartInv(h) ==
  /\ todo[h] /= None => todo[h].op \in Ops
  /\ lock_i[h] <=> todo[h] /= None /\ IsRmw(h)
  /\ ~Serving(h) => (todo[h] /= None <=> stb_i[h] \/ req[h])
  /\ Serving(h)  => /\ ~stb_i[h] /\ sel_q = h
                    /\ lock[h] <=> todo[h] = None \/ IsRmw(h)

\* The hart whose access is in the controllers and the memory.
Active(h) == Serving(h) /\ todo[h] /= None

\* Without one the controllers are idle.
IdleInv ==
  (\A h \in Hart : ~Active(h)) =>
    /\ rmw = "S_IDLE" /\ dev = None /\ ~rsp.ack
    /\ ~sc_pend_pass /\ ~sc_pend_fail

\* The memory has the access, and has not answered it.
Waiting(h) == Active(h) /\ ~rsp.ack /\ rmw \notin {"S_EXECUTE", "S_WRITE"}
Writes(h)  == \/ todo[h].op = "store"
              \/ todo[h].op = "sc" /\ sc_pend_pass
              \/ rmw = "S_WRITE_WAIT"

\* The access is the one the hart made.
IsAccess(access, h) ==
  /\ access.op = todo[h].op /\ access.addr = todo[h].addr /\ access.id = h
  /\ access.rw <=> Writes(h)
  /\ access.data = IF rmw = "S_WRITE_WAIT" THEN alu_res ELSE todo[h].data

\* An RMW operation has read the word it is going to write, and it is still there.
HasRead(x, h) == todo[h].addr \notin Faulty => x = mem[todo[h].addr]

ActiveInv(h) ==
  Active(h) =>
    /\ ~Waiting(h) => dev = None
    /\ Waiting(h) => IsAccess(dev, h)
    /\ IF todo[h].op = "sc" THEN sc_pend_fail <=> ~sc_pend_pass
                            ELSE ~sc_pend_pass /\ ~sc_pend_fail
    /\ ~IsRmw(h) => rmw = "S_IDLE"
    /\ IsRmw(h) =>
         /\ rmw /= "S_IDLE"
         /\ cmd = todo[h].op /\ wdata = todo[h].data
         /\ rmw \in {"S_EXECUTE", "S_WRITE"} => ~rsp.ack /\ HasRead(rdata, h)
         /\ rmw = "S_WRITE_WAIT" /\ ~rsp.ack => HasRead(rdata, h)
         /\ rmw = "S_READ_WAIT" /\ rsp.ack => HasRead(rsp.data, h)
         /\ rmw \in {"S_WRITE", "S_WRITE_WAIT"} => alu_res = Alu(cmd, rdata, wdata)

\* The reservation r is backed by the links l: nobody has written to the
\* granule.  While hart h has an access at the memory, the station already
\* accounts for it and the memory does not.
Backed(r, l) == r.set => l[r.id] = r.addr
BackedBut(r, l, h, op, granule, write) ==
  /\ r.set => /\ IF op = "lr" /\ r.id = h THEN r.addr = granule
                                          ELSE l[r.id] = r.addr
              /\ write => r.addr /= granule
              /\ op = "sc" => r.id /= h
  /\ op = "sc" /\ write => l[h] = granule

LinkInv ==
  /\ (\A h \in Hart : ~Waiting(h)) => Backed(rsv, link)
  /\ \A h \in Hart : Waiting(h) =>
       BackedBut(rsv, link, h, todo[h].op, Rvs!Granule(todo[h].addr), Writes(h))

IInv == /\ TypeInv
        /\ \A h \in Hart : HartInv(h) /\ ActiveInv(h)
        /\ IdleInv
        /\ LinkInv

USE DEF Hart

\* An access that may begin.
MayStart(start) ==
  \A h \in Hart : todo[h] = None => start[h] = None \/ start[h].op \in Ops

LEMMA InitInv == Init => IInv
<1> SUFFICES ASSUME Init PROVE IInv
  OBVIOUS
<1>1. /\ state = "S_IDLE" /\ sel_q = "a"
      /\ lock = [h \in Hart |-> FALSE] /\ req = [h \in Hart |-> FALSE]
      /\ rmw = "S_IDLE"
      /\ rsv = [set |-> FALSE, id |-> "a", addr |-> 0]
      /\ sc_pend_pass = FALSE /\ sc_pend_fail = FALSE
      /\ dev = None /\ rsp = [ack |-> FALSE, err |-> FALSE, data |-> 0]
      /\ todo = [h \in Hart |-> None]
      /\ stb_i = [h \in Hart |-> FALSE] /\ lock_i = [h \in Hart |-> FALSE]
      /\ link = [h \in Hart |-> None]
  BY DEF Init, Switch!Init, Switch!Port, Rmw!Init, Rvs!Init
<1>2. TypeInv
  BY <1>1 DEF TypeInv
<1>3. ASSUME NEW h \in Hart PROVE ~Serving(h) /\ HartInv(h) /\ ActiveInv(h)
  BY <1>1 DEF Serving, HartInv, ActiveInv, Active, Switch!Busy
<1>4. IdleInv
  BY <1>1 DEF IdleInv
<1>5. LinkInv
  BY <1>1, <1>3 DEF LinkInv, Backed, Waiting, Active
<1>6. QED BY <1>2, <1>3, <1>4, <1>5 DEF IInv

-----------------------------------------------------------------------------
\* The signals of a clock.

\* What the responses say.
LEMMA Responses ==
  ASSUME TypeInv
  PROVE  /\ Rvs!core_rsp_o.ack = rsp.ack /\ Rvs!core_rsp_o.err = rsp.err
         /\ Rvs!core_rsp_o.data = IF sc_pend_fail THEN 1
                                  ELSE IF sc_pend_pass THEN 0 ELSE rsp.data
         /\ Rmw!core_rsp_o.ack <=> rsp.ack /\ rmw \in {"S_IDLE", "S_WRITE_WAIT"}
         /\ Rmw!core_rsp_o.err <=> rsp.err /\ rmw \in {"S_IDLE", "S_WRITE_WAIT"}
         /\ Rmw!core_rsp_o.data = IF rmw = "S_IDLE" THEN Rvs!core_rsp_o.data ELSE rdata
         /\ Rmw!core_rsp_o.ack \in BOOLEAN
<1>1. /\ Rvs!core_rsp_o.ack = rsp.ack /\ Rvs!core_rsp_o.err = rsp.err
      /\ Rvs!core_rsp_o.data = IF sc_pend_fail THEN 1
                               ELSE IF sc_pend_pass THEN 0 ELSE rsp.data
  BY DEF TypeInv, Rvs!core_rsp_o
<1>2. /\ Rmw!core_rsp_o.ack <=> rsp.ack /\ rmw \in {"S_IDLE", "S_WRITE_WAIT"}
      /\ Rmw!core_rsp_o.err <=> rsp.err /\ rmw \in {"S_IDLE", "S_WRITE_WAIT"}
      /\ Rmw!core_rsp_o.data = IF rmw = "S_IDLE" THEN Rvs!core_rsp_o.data ELSE rdata
      /\ Rmw!core_rsp_o.ack \in BOOLEAN
  BY <1>1 DEF Rmw!core_rsp_o, Rmw!visible, TypeInv
<1>3. QED BY <1>1, <1>2

\* An acknowledge reaches the hart whose access is active.
LEMMA AckOwner ==
  ASSUME IInv, NEW h \in Hart
  PROVE  Switch!Ack(h) <=> /\ Active(h) /\ rsp.ack
                           /\ rmw \in {"S_IDLE", "S_WRITE_WAIT"}
<1>1. Switch!Ack(h) <=> rsp.ack /\ rmw \in {"S_IDLE", "S_WRITE_WAIT"} /\ sel_q = h
  BY Responses DEF Switch!Ack, IInv
<1>2. rsp.ack => \E g \in Hart : Active(g)
  BY DEF IInv, IdleInv
<1>3. \A g \in Hart : Active(g) => sel_q = g
  BY DEF IInv, HartInv, Active
<1>4. QED BY <1>1, <1>2, <1>3

\* One clock, seen by the arbiter.
LEMMA ArbiterStep ==
  ASSUME IInv, Switch!Clock
  PROVE  /\ lock' \in [Hart -> BOOLEAN] /\ req' \in [Hart -> BOOLEAN]
         /\ \A h \in Hart : req'[h] = (~Serving(h) /\ (stb_i[h] \/ req[h]))
         /\ state = "S_IDLE" =>
              /\ lock' = lock_i
              /\ (\A h \in Hart : todo[h] = None) =>
                   state' = "S_IDLE" /\ sel_q' \in Hart /\ ~Sel!stb
              /\ (\E h \in Hart : todo[h] /= None) =>
                   \E g \in Hart : /\ todo[g] /= None /\ Sel!sel = g /\ Sel!stb
                                   /\ Serving(g)' /\ sel_q' = g
         /\ \A h \in Hart : Serving(h) =>
              /\ Sel!sel = h /\ ~Sel!stb /\ sel_q' = h /\ lock' = lock
              /\ state' = IF IF lock[h] THEN ~lock_i[h] ELSE Switch!Ack(h)
                          THEN "S_IDLE" ELSE state
<1>1. lock' \in [Hart -> BOOLEAN] /\ req' \in [Hart -> BOOLEAN]
  <2>1. lock' = IF state = "S_IDLE" THEN lock_i ELSE lock
    BY DEF Switch!Clock
  <2>2. req' = [p \in Hart |-> Switch!Stored(p)]
    BY DEF Switch!Clock, Switch!Port
  <2>3. \A p \in Hart : Switch!Stored(p) \in BOOLEAN
    BY DEF Switch!Stored, IInv, TypeInv
  <2>4. QED BY <2>1, <2>2, <2>3 DEF IInv, TypeInv
<1>2. ASSUME NEW h \in Hart PROVE req'[h] = (~Serving(h) /\ (stb_i[h] \/ req[h]))
  BY DEF Switch!Clock, Switch!Port, Switch!Stored, Serving, IInv, TypeInv
<1>3. ASSUME state = "S_IDLE"
      PROVE  /\ lock' = lock_i
             /\ (\A h \in Hart : todo[h] = None) =>
                  state' = "S_IDLE" /\ sel_q' \in Hart /\ ~Sel!stb
             /\ (\E h \in Hart : todo[h] /= None) =>
                  \E g \in Hart : /\ todo[g] /= None /\ Sel!sel = g /\ Sel!stb
                                  /\ Serving(g)' /\ sel_q' = g
  <2>1. lock' = lock_i
    BY <1>3 DEF Switch!Clock
  <2>2. \A h \in Hart : /\ Switch!Requesting(h) <=> todo[h] /= None
                        /\ Sel!Requesting(h) <=> todo[h] /= None
    BY <1>3 DEF IInv, HartInv, Serving, Switch!Busy, Switch!Requesting, Sel!Requesting
  <2>3. /\ Switch!AnyRequest <=> \E h \in Hart : todo[h] /= None
        /\ Sel!AnyRequest <=> \E h \in Hart : todo[h] /= None
    BY <2>2 DEF Switch!AnyRequest, Sel!AnyRequest, Switch!Port, Sel!Port
  <2>4. Switch!Preferred \in Hart /\ Sel!Preferred = Switch!Preferred
    BY DEF Switch!Preferred, Sel!Preferred
  <2>5. Switch!Granted \in Hart /\ Sel!Granted = Switch!Granted
    BY <2>2, <2>4 DEF Switch!Granted, Sel!Granted, Switch!Other, Sel!Other
  <2>6. (\E h \in Hart : todo[h] /= None) => todo[Switch!Granted] /= None
    BY <2>2, <2>4 DEF Switch!Granted, Switch!Other
  <2>7. /\ state' = IF Switch!AnyRequest THEN Switch!Busy(Switch!Granted) ELSE "S_IDLE"
        /\ sel_q' = IF Switch!AnyRequest THEN Switch!Granted ELSE "a"
        /\ Sel!sel = IF Sel!AnyRequest THEN Sel!Granted ELSE "a"
        /\ Sel!stb <=> Sel!AnyRequest
    BY <1>3 DEF Switch!Clock, Switch!NextState, Switch!sel, Sel!sel, Sel!stb
  <2>8. ASSUME NEW g \in Hart, g = Switch!Granted, \E h \in Hart : todo[h] /= None
        PROVE  /\ todo[g] /= None /\ Sel!sel = g /\ Sel!stb
               /\ Serving(g)' /\ sel_q' = g
    <3>1. state' = Switch!Busy(g)
      BY <2>3, <2>7, <2>8
    <3>2. Serving(g)'
      BY <3>1 DEF Serving, Switch!Busy
    <3>3. QED BY <2>3, <2>5, <2>6, <2>7, <2>8, <3>2
  <2>9. (\A h \in Hart : todo[h] = None) =>
          state' = "S_IDLE" /\ sel_q' \in Hart /\ ~Sel!stb
    BY <2>3, <2>7
  <2>10. QED BY <2>1, <2>5, <2>8, <2>9
<1>4. ASSUME NEW h \in Hart, Serving(h)
      PROVE  /\ Sel!sel = h /\ ~Sel!stb /\ sel_q' = h /\ lock' = lock
             /\ state' = IF IF lock[h] THEN ~lock_i[h] ELSE Switch!Ack(h)
                         THEN "S_IDLE" ELSE state
  <2>1. state /= "S_IDLE" /\ Sel!sel = h /\ Switch!sel = h
    BY <1>4 DEF Serving, Switch!Busy, Sel!sel, Switch!sel
  <2>2. ~Sel!stb
    BY <1>4, <2>1 DEF Sel!stb, IInv, HartInv
  <2>3. sel_q' = h /\ lock' = lock
    BY <2>1 DEF Switch!Clock
  <2>4. Switch!Ack(h) <=> Rmw!core_rsp_o.ack
    BY <1>4 DEF Switch!Ack, IInv, HartInv
  <2>5. state' = IF IF lock[h] THEN ~lock_i[h] ELSE Switch!Ack(h)
                 THEN "S_IDLE" ELSE state
    BY <2>1, <2>4 DEF Switch!Clock, Switch!NextState, Switch!Done
  <2>6. QED BY <2>1, <2>2, <2>3, <2>5
<1>5. QED BY <1>1, <1>2, <1>3, <1>4

\* One clock, seen by one hart.
LEMMA HartStep ==
  ASSUME IInv, NEW start, MayStart(start), Harts(start), NEW h \in Hart
  PROVE  /\ todo'[h] = IF todo[h] = None THEN start[h]
                       ELSE IF Switch!Ack(h) THEN None ELSE todo[h]
         /\ stb_i'[h] <=> todo[h] = None /\ start[h] /= None
         /\ todo[h] = None /\ start[h] /= None =>
              (lock_i'[h] <=> start[h].op \in Rmw!RmwOps)
         /\ ~(todo[h] = None /\ start[h] /= None) =>
              (lock_i'[h] <=> lock_i[h] /\ ~Switch!Ack(h))
         /\ stb_i' \in [Hart -> BOOLEAN] /\ lock_i' \in [Hart -> BOOLEAN]
<1>1. todo'[h] = IF todo[h] = None THEN start[h]
                 ELSE IF Switch!Ack(h) THEN None ELSE todo[h]
  BY DEF Harts
<1>2. stb_i' = [g \in Hart |-> Starts(start, g)]
  BY DEF Harts
<1>3. lock_i' = [g \in Hart |-> IF Starts(start, g)
                                THEN start[g].op \in Rmw!RmwOps
                                ELSE lock_i[g] /\ ~Switch!Ack(g)]
  BY DEF Harts
<1>4. stb_i' \in [Hart -> BOOLEAN]
  BY <1>2 DEF Starts
<1>5. ASSUME NEW g \in Hart
      PROVE  lock_i'[g] \in BOOLEAN
  <2>1. CASE Starts(start, g)
    <3>1. lock_i'[g] = (start[g].op \in Rmw!RmwOps)
      BY <1>3, <2>1
    <3>2. QED BY <3>1
  <2>2. CASE ~Starts(start, g)
    <3>1. lock_i'[g] = (lock_i[g] /\ ~Switch!Ack(g))
      BY <1>3, <2>2
    <3>2. QED BY <3>1
  <2>3. QED BY <2>1, <2>2
<1>6. lock_i' \in [Hart -> BOOLEAN]
  BY <1>3, <1>5
<1>7. stb_i'[h] <=> todo[h] = None /\ start[h] /= None
  BY <1>2 DEF Starts
<1>8. todo[h] = None /\ start[h] /= None =>
        (lock_i'[h] <=> start[h].op \in Rmw!RmwOps)
  BY <1>3 DEF Starts
<1>9. ~(todo[h] = None /\ start[h] /= None) =>
        (lock_i'[h] <=> lock_i[h] /\ ~Switch!Ack(h))
  BY <1>3 DEF Starts
<1>10. QED BY <1>1, <1>4, <1>6, <1>7, <1>8, <1>9

LEMMA HartInvStep ==
  ASSUME IInv, NEW start, MayStart(start), Harts(start), Switch!Clock,
         NEW h \in Hart
  PROVE  HartInv(h)'
<1>1. HartInv(h) /\ state \in {"S_IDLE", "S_BUSY_A", "S_BUSY_B"}
  BY DEF IInv, TypeInv
<1>2. Switch!Ack(h) => Active(h)
  BY AckOwner
<1>3. todo'[h] /= None => todo'[h].op \in Ops
  BY <1>1, HartStep DEF MayStart, HartInv
<1>4. lock_i'[h] <=> todo'[h] /= None /\ IsRmw(h)'
  BY <1>1, HartStep DEF HartInv, IsRmw
<1>5. req'[h] <=> ~Serving(h) /\ (stb_i[h] \/ req[h])
  BY ArbiterStep
<1>6. CASE ~Serving(h)
  <2>1. todo[h] /= None => todo'[h] = todo[h] /\ ~stb_i'[h] /\ req'[h]
    BY <1>1, <1>2, <1>5, <1>6, HartStep DEF HartInv, Active
  <2>2. todo[h] = None => ~req'[h] /\ (stb_i'[h] <=> todo'[h] /= None)
    BY <1>1, <1>5, <1>6, HartStep DEF HartInv
  <2>3. Serving(h)' => /\ state = "S_IDLE" /\ todo[h] /= None
                       /\ sel_q' = h /\ lock' = lock_i
    <3>1. CASE state = "S_IDLE"
      <4>1. ASSUME NEW g \in Hart, Serving(g)', Serving(h)' PROVE g = h
        BY <4>1 DEF Serving, Switch!Busy
      <4>2. Serving(h)' => state' /= "S_IDLE"
        BY DEF Serving, Switch!Busy
      <4>3. QED BY <3>1, <4>1, <4>2, ArbiterStep
    <3>2. CASE state /= "S_IDLE"
      <4>1. PICK g \in Hart : Serving(g)
        BY <1>1, <3>2 DEF Serving, Switch!Busy
      <4>2. state' \in {"S_IDLE", state}
        BY <4>1, ArbiterStep
      <4>3. ~Serving(h)'
        BY <1>6, <3>2, <4>2 DEF Serving, Switch!Busy
      <4>4. QED BY <4>3
    <3>3. QED BY <3>1, <3>2
  <2>4. Serving(h)' => (lock'[h] <=> todo'[h] = None \/ IsRmw(h)')
    BY <1>1, <2>1, <2>3 DEF HartInv, IsRmw
  <2>5. QED BY <1>3, <1>4, <2>1, <2>2, <2>3, <2>4 DEF HartInv
<1>7. CASE Serving(h)
  <2>1. /\ sel_q' = h /\ lock' = lock /\ ~req'[h]
        /\ state' = IF IF lock[h] THEN ~lock_i[h] ELSE Switch!Ack(h)
                    THEN "S_IDLE" ELSE state
    BY <1>5, <1>7, ArbiterStep
  <2>2. Serving(h)' <=> ~(IF lock[h] THEN ~lock_i[h] ELSE Switch!Ack(h))
    BY <1>7, <2>1 DEF Serving, Switch!Busy
  <2>3. CASE todo[h] = None
    <3>1. ~Serving(h)'
      BY <1>1, <1>7, <2>2, <2>3 DEF HartInv
    <3>2. stb_i'[h] <=> todo'[h] /= None
      BY <2>3, HartStep
    <3>3. QED BY <1>3, <1>4, <2>1, <3>1, <3>2 DEF HartInv
  <2>4. CASE todo[h] /= None
    <3>1. ~stb_i'[h] /\ todo'[h] = IF Switch!Ack(h) THEN None ELSE todo[h]
      BY <2>4, HartStep
    <3>2. ~Serving(h)' => todo'[h] = None
      BY <1>1, <1>7, <2>2, <2>4, <3>1 DEF HartInv
    <3>3. Serving(h)' => (lock'[h] <=> todo'[h] = None \/ IsRmw(h)')
      BY <1>1, <1>7, <2>1, <2>2, <2>4, <3>1 DEF HartInv, IsRmw
    <3>4. QED BY <1>3, <1>4, <2>1, <3>1, <3>2, <3>3 DEF HartInv
  <2>5. QED BY <2>3, <2>4
<1>8. QED BY <1>6, <1>7

\* Which access is active after a clock: the one the arbiter grants, or the one
\* that was active and is not answered.
LEMMA ActiveStep ==
  ASSUME IInv, NEW start, MayStart(start), Harts(start), Switch!Clock,
         NEW h \in Hart
  PROVE  /\ Active(h)' => /\ todo'[h] = todo[h]
                          /\ \/ Active(h) /\ ~Switch!Ack(h)
                             \/ /\ state = "S_IDLE" /\ todo[h] /= None
                                /\ Sel!sel = h /\ Sel!stb
         /\ Active(h) /\ ~Switch!Ack(h) => Active(h)' /\ todo'[h] = todo[h]
         /\ state = "S_IDLE" /\ Sel!stb /\ Sel!sel = h =>
              todo[h] /= None /\ Active(h)' /\ todo'[h] = todo[h]
<1>1. HartInv(h) /\ state \in {"S_IDLE", "S_BUSY_A", "S_BUSY_B"}
  BY DEF IInv, TypeInv
<1>2. Switch!Ack(h) => Active(h)
  BY AckOwner
<1>3. CASE Serving(h)
  <2>1. /\ state' = IF IF lock[h] THEN ~lock_i[h] ELSE Switch!Ack(h)
                    THEN "S_IDLE" ELSE state
        /\ state /= "S_IDLE"
    BY <1>3, ArbiterStep DEF Serving, Switch!Busy
  <2>2. Serving(h)' <=> ~(IF lock[h] THEN ~lock_i[h] ELSE Switch!Ack(h))
    BY <1>3, <2>1 DEF Serving, Switch!Busy
  <2>3. QED BY <1>1, <1>3, <2>1, <2>2, HartStep DEF HartInv, Active
<1>4. CASE ~Serving(h)
  <2>1. CASE state = "S_IDLE"
    <3>1. ASSUME NEW g \in Hart, Serving(g)', Serving(h)' PROVE g = h
      BY <3>1 DEF Serving, Switch!Busy
    <3>2. Serving(h)' => state' /= "S_IDLE"
      BY DEF Serving, Switch!Busy
    <3>3. todo[h] /= None => todo'[h] = todo[h]
      BY <1>2, <1>4, HartStep DEF Active
    <3>4. QED BY <1>4, <2>1, <3>1, <3>2, <3>3, ArbiterStep DEF Active
  <2>2. CASE state /= "S_IDLE"
    <3>1. PICK g \in Hart : Serving(g)
      BY <1>1, <2>2 DEF Serving, Switch!Busy
    <3>2. state' \in {"S_IDLE", state}
      BY <3>1, ArbiterStep
    <3>3. ~Serving(h)'
      BY <1>4, <2>2, <3>2 DEF Serving, Switch!Busy
    <3>4. QED BY <1>4, <2>2, <3>3 DEF Active
  <2>3. QED BY <2>1, <2>2
<1>5. QED BY <1>3, <1>4

-----------------------------------------------------------------------------
\* What reaches the station and the memory.

LEMMA RequestFields ==
  DOMAIN RmwReq!sys_req_o = {"stb", "op", "rw", "addr", "data", "id"}
<1>1. DOMAIN sys2_req = {"stb", "op", "rw", "addr", "data", "id"}
  BY DEF sys2_req
<1>2. DOMAIN RmwReq!sys_req_o = DOMAIN sys2_req
  BY DEF RmwReq!sys_req_o
<1>3. QED BY <1>1, <1>2

\* The request of the hart the arbiter selects, behind the RMW controller.
LEMMA RequestOfHart ==
  ASSUME NEW h \in Hart, Sel!sel = h, todo[h] /= None
  PROVE  /\ sys2_req.stb <=> Sel!stb
         /\ sys2_req.op = todo[h].op /\ sys2_req.data = todo[h].data
         /\ Rvs!sys_req_o.stb <=> rmw = "S_WRITE" \/ Sel!stb
         /\ RmwReq!sys_req_o.stb <=> rmw = "S_WRITE" \/ Sel!stb
         /\ Rvs!sys_req_o.op = todo[h].op /\ RmwReq!sys_req_o.op = todo[h].op
         /\ Rvs!sys_req_o.addr = todo[h].addr /\ RmwReq!sys_req_o.addr = todo[h].addr
         /\ Rvs!sys_req_o.id = h /\ RmwReq!sys_req_o.id = h
         /\ Rvs!sys_req_o.data = IF rmw \in {"S_WRITE", "S_WRITE_WAIT"}
                                 THEN alu_res ELSE todo[h].data
         /\ RmwReq!sys_req_o.rw <=> \/ rmw \in {"S_WRITE", "S_WRITE_WAIT"}
                                    \/ todo[h].op \in {"store", "sc"}
         /\ Rvs!sys_req_o.rw <=> /\ RmwReq!sys_req_o.rw
                                 /\ ~(todo[h].op = "sc" /\ ~Rvs!sc_valid)
<1>1. sys2_req = [stb |-> Sel!stb, op |-> todo[h].op,
                  rw |-> todo[h].op \in {"store", "sc"},
                  addr |-> todo[h].addr, data |-> todo[h].data, id |-> h]
  BY DEF sys2_req
<1>2. /\ RmwReq!sys_req_o.stb <=> rmw = "S_WRITE" \/ Sel!stb
      /\ RmwReq!sys_req_o.op = todo[h].op
      /\ RmwReq!sys_req_o.rw <=> \/ rmw \in {"S_WRITE", "S_WRITE_WAIT"}
                                 \/ todo[h].op \in {"store", "sc"}
      /\ RmwReq!sys_req_o.addr = todo[h].addr
      /\ RmwReq!sys_req_o.data = IF rmw \in {"S_WRITE", "S_WRITE_WAIT"}
                                 THEN alu_res ELSE todo[h].data
      /\ RmwReq!sys_req_o.id = h
  BY <1>1 DEF RmwReq!sys_req_o, RmwReq!writing
<1>3. /\ Rvs!sys_req_o.rw <=> RmwReq!sys_req_o.rw /\ ~(Rvs!sc /\ ~Rvs!sc_valid)
      /\ \A f \in {"stb", "op", "addr", "data", "id"} :
            Rvs!sys_req_o[f] = RmwReq!sys_req_o[f]
  BY RequestFields DEF Rvs!sys_req_o
<1>4. Rvs!sc <=> todo[h].op = "sc"
  BY <1>2 DEF Rvs!sc
<1>5. QED BY <1>1, <1>2, <1>3, <1>4

\* The station at the strobe of hart h.
LEMMA StationStrobe ==
  ASSUME TypeInv, NEW h \in Hart, Sel!sel = h, todo[h] /= None,
         Rvs!sys_req_o.stb, Rvs!Clock
  PROVE  LET granule == Rvs!Granule(todo[h].addr)
             op      == todo[h].op
             write   == rmw \in {"S_WRITE", "S_WRITE_WAIT"} \/ op \in {"store", "sc"}
             valid   == rsv.set /\ rsv.id = h /\ rsv.addr = granule
         IN  /\ Rvs!sc_valid <=> valid
             /\ rsv'.set \in BOOLEAN /\ rsv'.id \in Hart
             /\ rsv' = [set |-> rsv'.set, id |-> rsv'.id, addr |-> rsv'.addr]
             /\ op = "lr" => \/ rsv'.set /\ rsv'.id = h /\ rsv'.addr = granule
                             \/ rsv' = rsv /\ rsv.set /\ rsv.id /= h
             /\ op /= "lr" => rsv'.id = rsv.id /\ rsv'.addr = rsv.addr
             /\ op = "sc"  => (rsv'.set <=> rsv.set /\ rsv.id /= h)
             /\ op \notin {"lr", "sc"} =>
                  (rsv'.set <=> rsv.set /\ ~(write /\ rsv.addr = granule))
             /\ op = "sc" => /\ sc_pend_pass' <=> sc_pend_pass \/ valid
                             /\ sc_pend_fail' <=> sc_pend_fail \/ ~valid
             /\ op /= "sc" => /\ sc_pend_pass' <=> sc_pend_pass /\ ~rsp.ack
                              /\ sc_pend_fail' <=> sc_pend_fail /\ ~rsp.ack
             /\ sc_pend_pass' \in BOOLEAN /\ sc_pend_fail' \in BOOLEAN
<1> DEFINE granule == Rvs!Granule(todo[h].addr)
           op      == todo[h].op
           write   == rmw \in {"S_WRITE", "S_WRITE_WAIT"} \/ op \in {"store", "sc"}
           valid   == rsv.set /\ rsv.id = h /\ rsv.addr = granule
<1>1. /\ RmwReq!sys_req_o.stb /\ RmwReq!sys_req_o.op = op
      /\ RmwReq!sys_req_o.addr = todo[h].addr /\ RmwReq!sys_req_o.id = h
      /\ RmwReq!sys_req_o.rw <=> write
  BY RequestOfHart
<1>2. (Rvs!sc_valid <=> valid) /\ (Rvs!lr <=> op = "lr") /\ (Rvs!sc <=> op = "sc")
  BY <1>1 DEF Rvs!sc_valid, Rvs!lr, Rvs!sc, Rvs!Granule
<1>3. Rvs!Station /\ Rvs!Result
  BY DEF Rvs!Clock
<1> HIDE DEF granule, op, write
<1>4. CASE op = "lr"
  <2>1. rsv' = IF Rvs!lr_allow THEN [set |-> TRUE, id |-> h, addr |-> granule] ELSE rsv
    BY <1>1, <1>2, <1>3, <1>4 DEF Rvs!Station, Rvs!Reserve, granule
  <2>2. ~Rvs!lr_allow => rsv.set /\ rsv.id /= h
    BY <1>1 DEF Rvs!lr_allow
  <2>3. /\ \/ rsv'.set /\ rsv'.id = h /\ rsv'.addr = granule
           \/ rsv' = rsv /\ rsv.set /\ rsv.id /= h
        /\ rsv'.set \in BOOLEAN /\ rsv'.id \in Hart
        /\ rsv' = [set |-> rsv'.set, id |-> rsv'.id, addr |-> rsv'.addr]
    BY <2>1, <2>2 DEF TypeInv
  <2>4. /\ sc_pend_pass' = (sc_pend_pass /\ ~rsp.ack)
        /\ sc_pend_fail' = (sc_pend_fail /\ ~rsp.ack)
    BY <1>2, <1>3, <1>4 DEF Rvs!Result
  <2>5. QED BY <1>2, <1>4, <2>3, <2>4 DEF op, granule
<1>5. CASE op = "sc"
  <2>1. rsv' = [rsv EXCEPT !.set = @ /\ ~(Rvs!sc_valid \/ rsv.id = h)]
    BY <1>1, <1>2, <1>3, <1>5 DEF Rvs!Station, Rvs!Drop
  <2>2. /\ rsv'.set = (rsv.set /\ ~(Rvs!sc_valid \/ rsv.id = h))
        /\ rsv'.id = rsv.id /\ rsv'.addr = rsv.addr
        /\ rsv' = [set |-> rsv'.set, id |-> rsv'.id, addr |-> rsv'.addr]
    BY <2>1 DEF TypeInv
  <2>3. /\ sc_pend_pass' = (sc_pend_pass \/ Rvs!sc_valid)
        /\ sc_pend_fail' = (sc_pend_fail \/ ~Rvs!sc_valid)
    BY <1>1, <1>2, <1>3, <1>5 DEF Rvs!Result
  <2>4. QED BY <1>2, <1>5, <2>2, <2>3 DEF op, granule, TypeInv
<1>6. CASE op \notin {"lr", "sc"}
  <2>1. rsv' = [rsv EXCEPT !.set = @ /\ ~(write /\ granule = rsv.addr)]
    <3>1. rsv' = [rsv EXCEPT !.set = @ /\ ~(RmwReq!sys_req_o.rw
                                /\ Rvs!Granule(RmwReq!sys_req_o.addr) = rsv.addr)]
      BY <1>1, <1>2, <1>3, <1>6 DEF Rvs!Station, Rvs!Drop
    <3>2. RmwReq!sys_req_o.rw /\ Rvs!Granule(RmwReq!sys_req_o.addr) = rsv.addr
            <=> write /\ granule = rsv.addr
      BY <1>1 DEF granule
    <3>3. QED BY <3>1, <3>2 DEF TypeInv
  <2>2. /\ rsv'.set = (rsv.set /\ ~(write /\ granule = rsv.addr))
        /\ rsv'.id = rsv.id /\ rsv'.addr = rsv.addr
        /\ rsv' = [set |-> rsv'.set, id |-> rsv'.id, addr |-> rsv'.addr]
    BY <2>1 DEF TypeInv
  <2>3. /\ sc_pend_pass' = (sc_pend_pass /\ ~rsp.ack)
        /\ sc_pend_fail' = (sc_pend_fail /\ ~rsp.ack)
    BY <1>2, <1>3, <1>6 DEF Rvs!Result
  <2>4. QED BY <1>2, <1>6, <2>2, <2>3 DEF op, granule, write, TypeInv
<1>7. QED BY <1>4, <1>5, <1>6

\* Without a strobe the station waits for the answer.
LEMMA StationQuiet ==
  ASSUME TypeInv, ~Rvs!sys_req_o.stb, Rvs!Clock
  PROVE  /\ rsv' = rsv /\ Access = dev
         /\ sc_pend_pass' = (sc_pend_pass /\ ~rsp.ack)
         /\ sc_pend_fail' = (sc_pend_fail /\ ~rsp.ack)
<1>1. Rvs!sys_req_o.stb = RmwReq!sys_req_o.stb
  BY RequestFields DEF Rvs!sys_req_o
<1>2. QED BY <1>1 DEF Rvs!Clock, Rvs!Station, Rvs!Result, Access

LEMMA NoRequest ==
  ASSUME ~Sel!stb \/ todo[Sel!sel] = None, rmw /= "S_WRITE"
  PROVE  ~sys2_req.stb /\ ~Rvs!sys_req_o.stb
<1>1. ~sys2_req.stb
  BY DEF sys2_req
<1>2. Rvs!sys_req_o.stb = RmwReq!sys_req_o.stb
  BY RequestFields DEF Rvs!sys_req_o
<1>3. ~RmwReq!sys_req_o.stb
  <2>1. "stb" \in DOMAIN sys2_req
    BY DEF sys2_req
  <2>2. QED BY <1>1, <2>1 DEF RmwReq!sys_req_o
<1>4. QED BY <1>1, <1>2, <1>3

\* One clock of the RMW controller.
LEMMA RmwStep ==
  ASSUME TypeInv, Rmw!Clock
  PROVE  /\ rmw = "S_IDLE" =>
              IF sys2_req.stb /\ sys2_req.op \in Rmw!RmwOps
              THEN rmw' = "S_READ_WAIT" /\ cmd' = sys2_req.op /\ wdata' = sys2_req.data
              ELSE rmw' = "S_IDLE"
         /\ rmw = "S_READ_WAIT" =>
              /\ rmw' = IF rsp.ack THEN "S_EXECUTE" ELSE "S_READ_WAIT"
              /\ rdata' = Rvs!core_rsp_o.data
         /\ rmw = "S_EXECUTE" => rmw' = "S_WRITE"
         /\ rmw = "S_WRITE"   => rmw' = "S_WRITE_WAIT"
         /\ rmw = "S_WRITE_WAIT" => rmw' = IF rsp.ack THEN "S_IDLE" ELSE "S_WRITE_WAIT"
         /\ rmw /= "S_IDLE" => cmd' = cmd /\ wdata' = wdata
         /\ rmw /= "S_READ_WAIT" => rdata' = rdata
         /\ alu_res' = Alu(cmd, rdata, wdata)
<1>1. Rvs!core_rsp_o.ack = rsp.ack
  BY Responses
<1>2. /\ rmw' = Rmw!NextState
      /\ IF rmw = "S_IDLE" /\ Rmw!NextState /= rmw
         THEN cmd' = sys2_req.op /\ wdata' = sys2_req.data
         ELSE UNCHANGED << cmd, wdata >>
      /\ rdata' = IF rmw = "S_READ_WAIT" THEN Rvs!core_rsp_o.data ELSE rdata
      /\ alu_res' = Alu(cmd, rdata, wdata)
  BY DEF Rmw!Clock
<1>3. CASE rmw = "S_IDLE"
  <2>1. Rmw!NextState = IF sys2_req.stb /\ sys2_req.op \in Rmw!RmwOps
                        THEN "S_READ_WAIT" ELSE "S_IDLE"
    BY <1>3 DEF Rmw!NextState
  <2>2. QED BY <1>2, <1>3, <2>1
<1>4. CASE rmw = "S_READ_WAIT"
  BY <1>1, <1>2, <1>4 DEF Rmw!NextState
<1>5. CASE rmw = "S_EXECUTE"
  BY <1>2, <1>5 DEF Rmw!NextState
<1>6. CASE rmw = "S_WRITE"
  BY <1>2, <1>6 DEF Rmw!NextState
<1>7. CASE rmw = "S_WRITE_WAIT"
  BY <1>1, <1>2, <1>7 DEF Rmw!NextState
<1>8. QED BY <1>3, <1>4, <1>5, <1>6, <1>7 DEF TypeInv

\* What the parts other than the memory do in a clock.
Parts(start) == Switch!Clock /\ Rmw!Clock /\ Rvs!Clock /\ Harts(start)

\* An access that is at the memory after this clock: strobed in it, as the first
\* access of a hart or as the write of an RMW operation, or before.
AtMemory(h) ==
  /\ ~rsp.ack
  /\ Access.op = todo[h].op /\ Access.addr = todo[h].addr /\ Access.id = h
  /\ Access.rw <=> Writes(h)'
  /\ Access.data = IF rmw' = "S_WRITE_WAIT" THEN alu_res' ELSE todo[h].data
  /\ BackedBut(rsv', link, h, todo[h].op, Rvs!Granule(todo[h].addr), Writes(h)')
  /\ IF todo[h].op = "sc" THEN sc_pend_fail' <=> ~sc_pend_pass'
                          ELSE ~sc_pend_pass' /\ ~sc_pend_fail'
  /\ ~IsRmw(h) => rmw' = "S_IDLE"
  /\ IsRmw(h) => /\ rmw' \in {"S_READ_WAIT", "S_WRITE_WAIT"}
                 /\ cmd' = todo[h].op /\ wdata' = todo[h].data
                 /\ rmw' = "S_WRITE_WAIT" => /\ HasRead(rdata', h)
                                             /\ alu_res' = Alu(cmd', rdata', wdata')

LEMMA GrantStep ==
  ASSUME IInv, NEW start, Parts(start), NEW h \in Hart,
         state = "S_IDLE", Sel!stb, Sel!sel = h, todo[h] /= None, todo'[h] = todo[h]
  PROVE  AtMemory(h) /\ rmw' \notin {"S_EXECUTE", "S_WRITE"}
<1>1. \A g \in Hart : ~Active(g)
  BY DEF Active, Serving, Switch!Busy
<1>2. /\ rmw = "S_IDLE" /\ ~rsp.ack /\ ~sc_pend_pass /\ ~sc_pend_fail
      /\ Backed(rsv, link)
  BY <1>1 DEF IInv, IdleInv, LinkInv, Waiting
<1>3. Rvs!sys_req_o.stb /\ Access = Rvs!sys_req_o
  BY RequestOfHart DEF Access
<1>4. IF IsRmw(h)
      THEN rmw' = "S_READ_WAIT" /\ cmd' = todo[h].op /\ wdata' = todo[h].data
      ELSE rmw' = "S_IDLE"
  BY <1>2, RmwStep, RequestOfHart DEF IInv, Parts, IsRmw
<1> DEFINE granule == Rvs!Granule(todo[h].addr)
           op      == todo[h].op
           valid   == rsv.set /\ rsv.id = h /\ rsv.addr = granule
<1>5. /\ Rvs!sc_valid <=> valid
      /\ op = "lr" => \/ rsv'.set /\ rsv'.id = h /\ rsv'.addr = granule
                      \/ rsv' = rsv /\ rsv.set /\ rsv.id /= h
      /\ op /= "lr" => rsv'.id = rsv.id /\ rsv'.addr = rsv.addr
      /\ op = "sc"  => (rsv'.set <=> rsv.set /\ rsv.id /= h)
      /\ op \notin {"lr", "sc"} =>
           (rsv'.set <=> rsv.set /\ ~(op = "store" /\ rsv.addr = granule))
      /\ op = "sc"  => (sc_pend_pass' <=> valid) /\ (sc_pend_fail' <=> ~valid)
      /\ op /= "sc" => ~sc_pend_pass' /\ ~sc_pend_fail'
  BY <1>2, <1>3, StationStrobe DEF IInv, Parts
<1>6. Writes(h)' <=> op = "store" \/ (op = "sc" /\ valid)
  BY <1>4, <1>5 DEF Writes
<1>7. /\ Access.op = op /\ Access.addr = todo[h].addr /\ Access.id = h
      /\ Access.rw <=> op = "store" \/ (op = "sc" /\ valid)
      /\ Access.data = todo[h].data
  BY <1>2, <1>3, <1>5, RequestOfHart
<1> HIDE DEF granule, op
<1>8. BackedBut(rsv', link, h, op, granule, Writes(h)')
  BY <1>2, <1>5, <1>6 DEF Backed, BackedBut
<1>9. "lr" \notin Rmw!RmwOps
  BY DEF Rmw!RmwOps
<1>10. QED BY <1>2, <1>4, <1>5, <1>6, <1>7, <1>8 DEF AtMemory, op, granule

\* An RMW operation between its read and its write.
InBetween(h) ==
  /\ dev = None /\ Access = None
  /\ rsv' = rsv /\ Backed(rsv, link)
  /\ ~sc_pend_pass' /\ ~sc_pend_fail'
  /\ IsRmw(h) /\ cmd' = todo[h].op /\ wdata' = todo[h].data
  /\ HasRead(rdata', h)
  /\ rmw' = "S_WRITE" => alu_res' = Alu(cmd', rdata', wdata')

LEMMA ContinueStep ==
  ASSUME IInv, NEW start, Parts(start), NEW h \in Hart,
         Active(h), ~Switch!Ack(h), todo'[h] = todo[h]
  PROVE  IF rmw' \in {"S_EXECUTE", "S_WRITE"} THEN InBetween(h) ELSE AtMemory(h)
<1>1. Sel!sel = h /\ ~Sel!stb /\ todo[h] /= None /\ Serving(h)
  BY ArbiterStep DEF Parts, Active
<1>2. ActiveInv(h) /\ TypeInv /\ Active(h) /\ Rvs!Clock
  BY DEF IInv, Parts
<1>3. \A g \in Hart : g /= h => ~Active(g)
  BY <1>1 DEF Active, Serving, Switch!Busy
<1>4. (Waiting(h) => BackedBut(rsv, link, h, todo[h].op, Rvs!Granule(todo[h].addr), Writes(h)))
      /\ (~Waiting(h) => Backed(rsv, link))
  BY <1>3 DEF IInv, LinkInv, Waiting
<1>5. rsp.ack => rmw \notin {"S_IDLE", "S_WRITE_WAIT"}
  BY AckOwner
<1>6. IsRmw(h) => todo[h].op \notin {"lr", "sc", "store"}
  BY DEF IsRmw, Rmw!RmwOps
<1>7. CASE rmw = "S_IDLE" /\ ~rsp.ack
  <2>1. Waiting(h) /\ ~IsRmw(h)
    BY <1>2, <1>7 DEF Waiting, ActiveInv
  <2>2. rmw' = "S_IDLE"
    BY <1>1, <1>2, <1>7, RmwStep, NoRequest DEF Parts
  <2>3. /\ rsv' = rsv /\ Access = dev
        /\ sc_pend_pass' = sc_pend_pass /\ sc_pend_fail' = sc_pend_fail
    BY <1>1, <1>2, <1>7, NoRequest, StationQuiet DEF TypeInv
  <2>4. Writes(h)' <=> Writes(h)
    BY <1>7, <2>2, <2>3 DEF Writes
  <2>5. /\ IsAccess(dev, h)
        /\ IF todo[h].op = "sc" THEN sc_pend_fail <=> ~sc_pend_pass
                                ELSE ~sc_pend_pass /\ ~sc_pend_fail
    BY <1>2, <2>1 DEF ActiveInv
  <2>6. BackedBut(rsv', link, h, todo[h].op, Rvs!Granule(todo[h].addr), Writes(h)')
    BY <1>4, <2>1, <2>3, <2>4 DEF BackedBut
  <2>7. /\ Access.op = todo[h].op /\ Access.addr = todo[h].addr /\ Access.id = h
        /\ Access.rw <=> Writes(h)'
        /\ Access.data = todo[h].data
    BY <1>7, <2>3, <2>4, <2>5 DEF IsAccess
  <2>8. AtMemory(h)
    BY <1>7, <2>1, <2>2, <2>3, <2>5, <2>6, <2>7 DEF AtMemory
  <2>9. QED BY <2>2, <2>8
<1>8. CASE rmw = "S_READ_WAIT" /\ ~rsp.ack
  <2>1. Waiting(h) /\ IsRmw(h) /\ cmd = todo[h].op /\ wdata = todo[h].data
    BY <1>2, <1>8 DEF Waiting, ActiveInv
  <2>2. rmw' = "S_READ_WAIT" /\ cmd' = cmd /\ wdata' = wdata
    BY <1>2, <1>8, RmwStep DEF Parts
  <2>3. /\ rsv' = rsv /\ Access = dev
        /\ sc_pend_pass' = sc_pend_pass /\ sc_pend_fail' = sc_pend_fail
    BY <1>1, <1>2, <1>8, NoRequest, StationQuiet DEF TypeInv
  <2>4. Writes(h)' <=> Writes(h)
    BY <1>8, <2>2, <2>3 DEF Writes
  <2>5. /\ IsAccess(dev, h)
        /\ IF todo[h].op = "sc" THEN sc_pend_fail <=> ~sc_pend_pass
                                ELSE ~sc_pend_pass /\ ~sc_pend_fail
    BY <1>2, <2>1 DEF ActiveInv
  <2>6. BackedBut(rsv', link, h, todo[h].op, Rvs!Granule(todo[h].addr), Writes(h)')
    BY <1>4, <2>1, <2>3, <2>4 DEF BackedBut
  <2>7. /\ Access.op = todo[h].op /\ Access.addr = todo[h].addr /\ Access.id = h
        /\ Access.rw <=> Writes(h)'
        /\ Access.data = todo[h].data
    BY <1>8, <2>3, <2>4, <2>5 DEF IsAccess
  <2>8. AtMemory(h)
    BY <1>8, <2>1, <2>2, <2>3, <2>5, <2>6, <2>7, <1>6 DEF AtMemory
  <2>9. QED BY <2>2, <2>8
<1>9. CASE rmw = "S_READ_WAIT" /\ rsp.ack
  <2>1. /\ ~Waiting(h) /\ IsRmw(h) /\ cmd = todo[h].op /\ wdata = todo[h].data
        /\ dev = None /\ HasRead(rsp.data, h) /\ ~sc_pend_pass /\ ~sc_pend_fail
    BY <1>2, <1>6, <1>9 DEF Waiting, ActiveInv
  <2>2. /\ rmw' = "S_EXECUTE" /\ cmd' = cmd /\ wdata' = wdata
        /\ rdata' = Rvs!core_rsp_o.data
    BY <1>2, <1>9, RmwStep DEF Parts
  <2>3. rdata' = rsp.data
    BY <1>2, <2>1, <2>2, Responses
  <2>4. rsv' = rsv /\ Access = dev /\ ~sc_pend_pass' /\ ~sc_pend_fail'
    BY <1>1, <1>2, <1>9, <2>1, NoRequest, StationQuiet
  <2>5. InBetween(h)
    BY <1>4, <2>1, <2>2, <2>3, <2>4 DEF InBetween
  <2>6. QED BY <2>2, <2>5
<1>10. CASE rmw = "S_EXECUTE"
  <2>1. /\ ~Waiting(h) /\ IsRmw(h) /\ cmd = todo[h].op /\ wdata = todo[h].data
        /\ dev = None /\ HasRead(rdata, h) /\ ~sc_pend_pass /\ ~sc_pend_fail
    BY <1>2, <1>6, <1>10 DEF Waiting, ActiveInv
  <2>2. /\ rmw' = "S_WRITE" /\ cmd' = cmd /\ wdata' = wdata /\ rdata' = rdata
        /\ alu_res' = Alu(cmd, rdata, wdata)
    BY <1>2, <1>10, RmwStep DEF Parts
  <2>3. rsv' = rsv /\ Access = dev /\ ~sc_pend_pass' /\ ~sc_pend_fail'
    BY <1>1, <1>2, <1>10, <2>1, NoRequest, StationQuiet
  <2>4. InBetween(h)
    BY <1>4, <2>1, <2>2, <2>3 DEF InBetween
  <2>5. QED BY <2>2, <2>4
<1>11. CASE rmw = "S_WRITE"
  <2>1. /\ ~Waiting(h) /\ IsRmw(h) /\ cmd = todo[h].op /\ wdata = todo[h].data
        /\ ~rsp.ack /\ HasRead(rdata, h) /\ ~sc_pend_pass /\ ~sc_pend_fail
        /\ alu_res = Alu(cmd, rdata, wdata)
    BY <1>2, <1>6, <1>11 DEF Waiting, ActiveInv
  <2>2. /\ rmw' = "S_WRITE_WAIT" /\ cmd' = cmd /\ wdata' = wdata /\ rdata' = rdata
        /\ alu_res' = Alu(cmd, rdata, wdata)
    BY <1>2, <1>11, RmwStep DEF Parts
  <2>3. Rvs!sys_req_o.stb /\ Access = Rvs!sys_req_o
    BY <1>1, <1>11, RequestOfHart DEF Access
  <2>4. /\ Access.op = todo[h].op /\ Access.addr = todo[h].addr /\ Access.id = h
        /\ Access.rw /\ Access.data = alu_res
    BY <1>1, <1>6, <1>11, <2>1, <2>3, RequestOfHart
  <2>5. /\ rsv'.id = rsv.id /\ rsv'.addr = rsv.addr
        /\ rsv'.set => rsv.set /\ rsv.addr /= Rvs!Granule(todo[h].addr)
        /\ ~sc_pend_pass' /\ ~sc_pend_fail'
    BY <1>1, <1>2, <1>6, <1>11, <2>1, <2>3, StationStrobe
  <2>6. Writes(h)'
    BY <2>2 DEF Writes
  <2>7. BackedBut(rsv', link, h, todo[h].op, Rvs!Granule(todo[h].addr), Writes(h)')
    BY <1>4, <1>6, <2>1, <2>5 DEF Backed, BackedBut
  <2>8. AtMemory(h)
    BY <1>6, <2>1, <2>2, <2>4, <2>5, <2>6, <2>7 DEF AtMemory
  <2>9. QED BY <2>2, <2>8
<1>12. CASE rmw = "S_WRITE_WAIT" /\ ~rsp.ack
  <2>1. /\ Waiting(h) /\ IsRmw(h) /\ cmd = todo[h].op /\ wdata = todo[h].data
        /\ HasRead(rdata, h) /\ alu_res = Alu(cmd, rdata, wdata)
    BY <1>2, <1>12 DEF Waiting, ActiveInv
  <2>2. /\ rmw' = "S_WRITE_WAIT" /\ cmd' = cmd /\ wdata' = wdata /\ rdata' = rdata
        /\ alu_res' = alu_res
    BY <1>2, <1>12, <2>1, RmwStep DEF Parts
  <2>3. /\ rsv' = rsv /\ Access = dev
        /\ sc_pend_pass' = sc_pend_pass /\ sc_pend_fail' = sc_pend_fail
    BY <1>1, <1>2, <1>12, NoRequest, StationQuiet DEF TypeInv
  <2>4. Writes(h)' /\ Writes(h)
    BY <1>12, <2>2 DEF Writes
  <2>5. /\ IsAccess(dev, h)
        /\ IF todo[h].op = "sc" THEN sc_pend_fail <=> ~sc_pend_pass
                                ELSE ~sc_pend_pass /\ ~sc_pend_fail
    BY <1>2, <2>1 DEF ActiveInv
  <2>6. AtMemory(h)
    BY <1>4, <1>12, <2>1, <2>2, <2>3, <2>4, <2>5 DEF AtMemory, IsAccess
  <2>7. QED BY <2>2, <2>6
<1>13. QED BY <1>2, <1>5, <1>7, <1>8, <1>9, <1>10, <1>11, <1>12 DEF TypeInv

\* When no access is active after a clock, nothing is left of the last one.
LEMMA QuietStep ==
  ASSUME IInv, NEW start, MayStart(start), Parts(start),
         \A h \in Hart : ~Active(h)'
  PROVE  /\ rmw' = "S_IDLE" /\ dev = None /\ Access = None
         /\ ~sc_pend_pass' /\ ~sc_pend_fail'
         /\ rsv' = rsv /\ Backed(rsv, link)
<1>1. TypeInv /\ Rvs!Clock
  BY DEF IInv, Parts
<1>2. CASE \E h \in Hart : Active(h)
  <2>1. PICK h \in Hart : Active(h)
    BY <1>2
  <2>2. Switch!Ack(h)
    BY <2>1, ActiveStep DEF Parts
  <2>3. rsp.ack /\ rmw \in {"S_IDLE", "S_WRITE_WAIT"}
    BY <2>2, AckOwner
  <2>4. Sel!sel = h /\ ~Sel!stb
    BY <2>1, ArbiterStep DEF Parts, Active
  <2>5. dev = None
    BY <2>1, <2>3 DEF IInv, ActiveInv, Waiting
  <2>6. rmw' = "S_IDLE"
    BY <1>1, <2>3, <2>4, RmwStep, NoRequest DEF Parts
  <2>7. rsv' = rsv /\ Access = dev /\ ~sc_pend_pass' /\ ~sc_pend_fail'
    BY <1>1, <2>3, <2>4, NoRequest, StationQuiet
  <2>8. Backed(rsv, link)
    BY <2>3 DEF IInv, LinkInv, Waiting
  <2>9. QED BY <2>5, <2>6, <2>7, <2>8
<1>3. CASE \A h \in Hart : ~Active(h)
  <2>1. rmw = "S_IDLE" /\ dev = None /\ ~rsp.ack /\ ~sc_pend_pass /\ ~sc_pend_fail
    BY <1>3 DEF IInv, IdleInv
  <2>2. ~Sel!stb \/ todo[Sel!sel] = None
    <3>1. CASE state = "S_IDLE"
      <4>1. Sel!stb => FALSE
        BY <3>1, ArbiterStep, ActiveStep DEF Parts
      <4>2. QED BY <4>1
    <3>2. CASE state /= "S_IDLE"
      <4>1. PICK g \in Hart : Serving(g)
        BY <1>1, <3>2 DEF Serving, Switch!Busy, TypeInv
      <4>2. QED BY <4>1, ArbiterStep DEF Parts
    <3>3. QED BY <3>1, <3>2
  <2>3. rmw' = "S_IDLE"
    BY <1>1, <2>1, <2>2, RmwStep, NoRequest DEF Parts
  <2>4. rsv' = rsv /\ Access = dev /\ ~sc_pend_pass' /\ ~sc_pend_fail'
    BY <1>1, <2>1, <2>2, NoRequest, StationQuiet
  <2>5. Backed(rsv, link)
    BY <1>3 DEF IInv, LinkInv, Waiting
  <2>6. QED BY <2>1, <2>3, <2>4, <2>5
<1>4. QED BY <1>2, <1>3

LEMMA StepCases ==
  ASSUME IInv, NEW start, MayStart(start), Parts(start), NEW h \in Hart, Active(h)'
  PROVE  /\ todo'[h] = todo[h] /\ todo[h] /= None
         /\ IF rmw' \in {"S_EXECUTE", "S_WRITE"} THEN InBetween(h) ELSE AtMemory(h)
<1>1. /\ todo'[h] = todo[h]
      /\ \/ Active(h) /\ ~Switch!Ack(h)
         \/ /\ state = "S_IDLE" /\ todo[h] /= None
            /\ Sel!sel = h /\ Sel!stb
  BY ActiveStep DEF Parts
<1>2. todo[h] /= None
  BY <1>1 DEF Active
<1>3. QED BY <1>1, <1>2, GrantStep, ContinueStep

-----------------------------------------------------------------------------
\* The invariant is inductive.

LEMMA MemoryStep ==
  ASSUME TypeInv, Hold \/ Perform
  PROVE  /\ rsp' = [ack |-> rsp'.ack, err |-> rsp'.err, data |-> rsp'.data]
         /\ rsp'.ack \in BOOLEAN /\ rsp'.err \in BOOLEAN
         /\ link' = [h \in Hart |-> link'[h]]
         /\ ~rsp'.ack => dev' = Access /\ mem' = mem /\ link' = link
         /\ rsp'.ack =>
              LET fault == Access.addr \in Faulty
              IN  /\ Access /= None /\ dev' = None
                  /\ rsp'.err <=> fault
                  /\ rsp'.data = IF fault \/ Access.rw THEN 0 ELSE mem[Access.addr]
                  /\ mem' = IF Access.rw /\ ~fault
                            THEN [mem EXCEPT ![Access.addr] = Access.data] ELSE mem
                  /\ \A i \in Hart : link'[i] = Linked(i, Access)
<1>1. CASE Hold
  BY <1>1 DEF Hold, TypeInv
<1>2. CASE Perform
  <2> DEFINE fault == Access.addr \in Faulty
  <2>1. /\ Access /= None /\ dev' = None
        /\ mem' = IF Access.rw /\ ~fault
                  THEN [mem EXCEPT ![Access.addr] = Access.data] ELSE mem
        /\ link' = [h \in Hart |-> Linked(h, Access)]
    BY <1>2 DEF Perform
  <2>2. rsp' = [ack |-> TRUE, err |-> fault,
                data |-> IF fault \/ Access.rw THEN 0 ELSE mem[Access.addr]]
    BY <1>2 DEF Perform
  <2>3. fault \in BOOLEAN
    OBVIOUS
  <2> HIDE DEF fault
  <2>4. /\ rsp'.ack = TRUE /\ rsp'.err = fault
        /\ rsp'.data = IF fault \/ Access.rw THEN 0 ELSE mem[Access.addr]
    BY <2>2
  <2>5. rsp' = [ack |-> rsp'.ack, err |-> rsp'.err, data |-> rsp'.data]
    BY <2>2, <2>4
  <2>6. QED BY <2>1, <2>3, <2>4, <2>5 DEF fault
<1>3. QED BY <1>1, <1>2

\* The memory catches up with the station when it performs the access.
LEMMA BackedAgain ==
  ASSUME NEW h \in Hart, AtMemory(h), rsv'.id \in Hart,
         \A i \in Hart : link'[i] = Linked(i, Access)
  PROVE  Backed(rsv', link')
<1> DEFINE g == rsv'.id
           granule == Rvs!Granule(todo[h].addr)
<1>1. SUFFICES ASSUME rsv'.set PROVE link'[g] = rsv'.addr
  BY DEF Backed
<1>2. /\ Access.op = todo[h].op /\ Access.id = h
      /\ Rvs!Granule(Access.addr) = granule
      /\ Access.rw <=> Writes(h)'
      /\ BackedBut(rsv', link, h, todo[h].op, granule, Writes(h)')
  BY DEF AtMemory
<1>3. link'[g] = Linked(g, Access)
  OBVIOUS
<1> HIDE DEF granule
<1>4. CASE todo[h].op = "lr" /\ g = h
  BY <1>1, <1>2, <1>3, <1>4 DEF Linked, BackedBut
<1>5. CASE ~(todo[h].op = "lr" /\ g = h)
  <2>1. link[g] = rsv'.addr /\ (Access.rw => rsv'.addr /= granule)
    BY <1>1, <1>2, <1>5 DEF BackedBut
  <2>2. ~(todo[h].op = "sc" /\ g = h)
    BY <1>1, <1>2 DEF BackedBut
  <2>3. QED BY <1>2, <1>3, <1>5, <2>1, <2>2 DEF Linked
<1>6. QED BY <1>4, <1>5

LEMMA TypeStep ==
  ASSUME IInv, NEW start, MayStart(start), Clock(start)
  PROVE  TypeInv'
<1>0. TypeInv /\ Parts(start) /\ (Hold \/ Perform)
  BY DEF IInv, Clock, Parts
<1>1. state' \in {"S_IDLE", "S_BUSY_A", "S_BUSY_B"} /\ sel_q' \in Hart
  <2>1. CASE state = "S_IDLE"
    <3>1. ASSUME NEW g \in Hart, Serving(g)' PROVE state' \in {"S_BUSY_A", "S_BUSY_B"}
      BY <3>1 DEF Serving, Switch!Busy
    <3>2. QED BY <1>0, <2>1, <3>1, ArbiterStep DEF Parts
  <2>2. CASE state /= "S_IDLE"
    <3>1. PICK g \in Hart : Serving(g)
      BY <1>0, <2>2 DEF Serving, Switch!Busy, TypeInv
    <3>2. QED BY <1>0, <3>1, ArbiterStep DEF Parts, TypeInv
  <2>3. QED BY <2>1, <2>2
<1>2. lock' \in [Hart -> BOOLEAN] /\ req' \in [Hart -> BOOLEAN]
  BY <1>0, ArbiterStep DEF Parts
<1>3. stb_i' \in [Hart -> BOOLEAN] /\ lock_i' \in [Hart -> BOOLEAN]
  BY <1>0, HartStep DEF Parts
<1>4. rmw' \in {"S_IDLE", "S_READ_WAIT", "S_EXECUTE", "S_WRITE", "S_WRITE_WAIT"}
  BY <1>0, RmwStep DEF Parts, TypeInv
<1>5. /\ rsv' = [set |-> rsv'.set, id |-> rsv'.id, addr |-> rsv'.addr]
      /\ rsv'.set \in BOOLEAN /\ rsv'.id \in Hart
      /\ sc_pend_pass' \in BOOLEAN /\ sc_pend_fail' \in BOOLEAN
  <2>1. CASE Rvs!sys_req_o.stb
    <3>1. \E h \in Hart : Sel!sel = h /\ todo[h] /= None
      <4>1. CASE rmw = "S_WRITE"
        <5>1. PICK h \in Hart : Active(h)
          BY <4>1 DEF IInv, IdleInv
        <5>2. QED BY <1>0, <5>1, ArbiterStep DEF Parts, Active
      <4>2. CASE rmw /= "S_WRITE"
        <5>1. Sel!stb /\ todo[Sel!sel] /= None
          BY <2>1, <4>2, NoRequest
        <5>2. CASE state = "S_IDLE"
          BY <1>0, <5>1, <5>2, ArbiterStep DEF Parts
        <5>3. CASE state /= "S_IDLE"
          <6>1. PICK g \in Hart : Serving(g)
            BY <1>0, <5>3 DEF Serving, Switch!Busy, TypeInv
          <6>2. QED BY <1>0, <5>1, <6>1, ArbiterStep DEF Parts
        <5>4. QED BY <5>2, <5>3
      <4>3. QED BY <4>1, <4>2
    <3>2. PICK h \in Hart : Sel!sel = h /\ todo[h] /= None
      BY <3>1
    <3>3. QED BY <1>0, <2>1, <3>2, StationStrobe DEF Parts
  <2>2. CASE ~Rvs!sys_req_o.stb
    <3>1. /\ rsv' = rsv
          /\ sc_pend_pass' = (sc_pend_pass /\ ~rsp.ack)
          /\ sc_pend_fail' = (sc_pend_fail /\ ~rsp.ack)
      BY <1>0, <2>2, StationQuiet DEF Parts
    <3>2. QED BY <1>0, <3>1 DEF TypeInv
  <2>3. QED BY <2>1, <2>2
<1>6. /\ rsp' = [ack |-> rsp'.ack, err |-> rsp'.err, data |-> rsp'.data]
      /\ rsp'.ack \in BOOLEAN /\ rsp'.err \in BOOLEAN
      /\ link' = [h \in Hart |-> link'[h]]
  BY <1>0, MemoryStep
<1>7. QED BY <1>1, <1>2, <1>3, <1>4, <1>5, <1>6 DEF TypeInv

LEMMA StepInv ==
  ASSUME IInv, NEW start, MayStart(start), Clock(start)
  PROVE  IInv'
<1>0. TypeInv /\ Parts(start) /\ (Hold \/ Perform)
  BY DEF IInv, Clock, Parts
<1>1. TypeInv'
  BY TypeStep
<1>2. \A h \in Hart : HartInv(h)'
  BY <1>0, HartInvStep DEF Parts
<1>3. CASE \A h \in Hart : ~Active(h)'
  <2>1. /\ rmw' = "S_IDLE" /\ Access = None
        /\ ~sc_pend_pass' /\ ~sc_pend_fail'
        /\ rsv' = rsv /\ Backed(rsv, link)
    BY <1>0, <1>3, QuietStep
  <2>2. ~rsp'.ack /\ dev' = None /\ link' = link
    BY <1>0, <2>1, MemoryStep
  <2>3. \A h \in Hart : ActiveInv(h)'
    BY <1>3 DEF ActiveInv
  <2>4. IdleInv'
    BY <2>1, <2>2 DEF IdleInv
  <2>5. LinkInv'
    <3>1. Backed(rsv', link')
      BY <2>1, <2>2
    <3>2. \A h \in Hart : ~Waiting(h)'
      BY <1>3 DEF Waiting
    <3>3. QED BY <3>1, <3>2 DEF LinkInv
  <2>6. QED BY <1>1, <1>2, <2>3, <2>4, <2>5 DEF IInv
<1>4. ASSUME NEW h \in Hart, Active(h)' PROVE IInv'
  <2>1. /\ todo'[h] = todo[h] /\ todo[h] /= None
        /\ IF rmw' \in {"S_EXECUTE", "S_WRITE"} THEN InBetween(h) ELSE AtMemory(h)
    BY <1>0, <1>4, StepCases
  <2>2. \A g \in Hart : g /= h => ~Active(g)'
    BY <1>4 DEF Active, Serving, Switch!Busy
  <2>3. IdleInv'
    BY <1>4 DEF IdleInv
  <2>4. \A g \in Hart : g /= h => ActiveInv(g)' /\ ~Waiting(g)'
    BY <2>2 DEF ActiveInv, Waiting
  <2>5. IsRmw(h)' <=> IsRmw(h)
    BY <2>1 DEF IsRmw
  <2>6. rsv'.id \in Hart
    BY <1>1 DEF TypeInv
  <2>7. CASE rmw' \in {"S_EXECUTE", "S_WRITE"}
    <3>1. InBetween(h)
      BY <2>1, <2>7
    <3>2. ~rsp'.ack /\ dev' = None /\ link' = link /\ mem' = mem
      BY <1>0, <3>1, MemoryStep DEF InBetween
    <3>3. ~Waiting(h)'
      BY <2>7 DEF Waiting
    <3>4. HasRead(rdata, h)'
      BY <2>1, <3>1, <3>2 DEF InBetween, HasRead
    <3>5. todo'[h].op /= "sc"
      BY <2>1, <3>1 DEF InBetween, IsRmw, Rmw!RmwOps
    <3>6. ActiveInv(h)'
      BY <2>1, <2>5, <2>7, <3>1, <3>2, <3>3, <3>4, <3>5 DEF ActiveInv, InBetween
    <3>7. Backed(rsv', link')
      BY <3>1, <3>2 DEF InBetween
    <3>8. LinkInv'
      BY <2>4, <3>3, <3>7 DEF LinkInv
    <3>9. QED BY <1>1, <1>2, <2>3, <2>4, <3>6, <3>8 DEF IInv
  <2>8. CASE rmw' \notin {"S_EXECUTE", "S_WRITE"} /\ ~rsp'.ack
    <3>1. AtMemory(h) /\ dev' = Access /\ mem' = mem /\ link' = link
      BY <1>0, <2>1, <2>8, MemoryStep
    <3>2. Waiting(h)'
      BY <1>4, <2>8 DEF Waiting
    <3>3. IsAccess(dev, h)'
      BY <2>1, <3>1 DEF AtMemory, IsAccess
    <3>4. rmw' = "S_WRITE_WAIT" => HasRead(rdata, h)'
      BY <2>1, <3>1 DEF AtMemory, HasRead, IsRmw, Rmw!RmwOps
    <3>5. ActiveInv(h)'
      BY <2>1, <2>5, <2>8, <3>1, <3>2, <3>3, <3>4 DEF ActiveInv, AtMemory
    <3>6. BackedBut(rsv, link, h, todo[h].op, Rvs!Granule(todo[h].addr), Writes(h))'
      <4>1. BackedBut(rsv', link', h, todo[h].op, Rvs!Granule(todo[h].addr), Writes(h)')
        BY <3>1 DEF AtMemory
      <4>2. todo'[h].op = todo[h].op
            /\ Rvs!Granule(todo[h].addr)' = Rvs!Granule(todo[h].addr)
        BY <2>1 DEF Rvs!Granule
      <4>3. QED BY <4>1, <4>2
    <3>7. LinkInv'
      BY <2>4, <3>2, <3>6 DEF LinkInv
    <3>8. QED BY <1>1, <1>2, <2>3, <2>4, <3>5, <3>7 DEF IInv
  <2>9. CASE rmw' \notin {"S_EXECUTE", "S_WRITE"} /\ rsp'.ack
    <3>1. AtMemory(h) /\ dev' = None
      BY <1>0, <2>1, <2>9, MemoryStep
    <3>2. ~Waiting(h)'
      BY <2>9 DEF Waiting
    <3>3. rmw' = "S_READ_WAIT" => HasRead(rsp.data, h)'
      <4>1. ASSUME rmw' = "S_READ_WAIT", todo[h].addr \notin Faulty
            PROVE  rsp'.data = mem'[todo[h].addr]
        <5>1. IsRmw(h) /\ Access.addr = todo[h].addr
          BY <3>1, <4>1 DEF AtMemory
        <5>2. ~Access.rw
          BY <2>1, <3>1, <4>1, <5>1 DEF AtMemory, Writes, IsRmw, Rmw!RmwOps
        <5>3. QED BY <1>0, <2>9, <4>1, <5>1, <5>2, MemoryStep
      <4>2. QED BY <2>1, <4>1 DEF HasRead
    <3>4. ActiveInv(h)'
      BY <2>1, <2>5, <2>9, <3>1, <3>2, <3>3 DEF ActiveInv, AtMemory
    <3>5. \A i \in Hart : link'[i] = Linked(i, Access)
      BY <1>0, <2>9, MemoryStep
    <3>6. Backed(rsv', link')
      BY <2>6, <3>1, <3>5, BackedAgain
    <3>7. LinkInv'
      BY <2>4, <3>2, <3>6 DEF LinkInv
    <3>8. QED BY <1>1, <1>2, <2>3, <2>4, <3>4, <3>7 DEF IInv
  <2>10. QED BY <1>1, <2>7, <2>8, <2>9 DEF TypeInv
<1>5. QED BY <1>3, <1>4

LEMMA StutterInv ==
  ASSUME IInv, UNCHANGED vars
  PROVE  IInv'
BY DEF IInv, vars, switch_vars, rmw_vars, rvs_vars, mem_vars, hart_vars, TypeInv,
   HartInv, ActiveInv, IdleInv, LinkInv, Serving, IsRmw, Active, Waiting, Writes,
   IsAccess, HasRead, Backed, BackedBut, Switch!Busy, Rvs!Granule

-----------------------------------------------------------------------------
\* Which hart sees an answer, and what it says.
Answering(h) == Active(h) /\ rsp.ack /\ rmw \in {"S_IDLE", "S_WRITE_WAIT"}
Answered ==
  IF rsp.err /\ rmw \in {"S_IDLE", "S_WRITE_WAIT"} THEN -1
  ELSE IF rmw /= "S_IDLE" THEN rdata
  ELSE IF sc_pend_fail THEN 1 ELSE IF sc_pend_pass THEN 0 ELSE rsp.data

AnswersRight == /\ \A h \in Hart : Switch!Ack(h) <=> Answering(h)
                /\ Result = Answered

LEMMA Answers == IInv => AnswersRight
<1> SUFFICES ASSUME IInv PROVE AnswersRight
  OBVIOUS
<1>1. \A h \in Hart : Switch!Ack(h) <=> Answering(h)
  BY AckOwner DEF Answering
<1>2. Result = Answered
  BY Responses DEF Result, Answered, IInv
<1>3. QED BY <1>1, <1>2 DEF AnswersRight

\* A clock after which no hart is answered changes neither the memory nor a link.
LEMMA WaitStep ==
  ASSUME IInv, NEW start, MayStart(start), Clock(start), \A h \in Hart : ~Answering(h)'
  PROVE  mem' = mem /\ link' = link
<1>1. TypeInv /\ Parts(start) /\ (Hold \/ Perform)
  BY DEF IInv, Clock, Parts
<1>2. SUFFICES ASSUME rsp'.ack PROVE mem' = mem /\ link' = link
  BY <1>1, MemoryStep
<1>3. Access /= None
  BY <1>1, <1>2, MemoryStep
<1>4. PICK h \in Hart : Active(h)'
  BY <1>1, <1>3, QuietStep
<1>5. AtMemory(h)
  BY <1>1, <1>3, <1>4, StepCases DEF InBetween
<1>6. rmw' \notin {"S_IDLE", "S_WRITE_WAIT"}
  BY <1>2, <1>4 DEF Answering
<1>7. todo'[h] = todo[h] /\ IsRmw(h)
  BY <1>1, <1>4, <1>5, <1>6, StepCases DEF AtMemory
<1>8. todo[h].op \notin {"lr", "sc", "store"}
  BY <1>7 DEF IsRmw, Rmw!RmwOps
<1>9. ~Access.rw /\ Access.op \notin {"lr", "sc"}
  BY <1>5, <1>6, <1>7, <1>8 DEF AtMemory, Writes
<1>10. mem' = mem
  BY <1>1, <1>2, <1>9, MemoryStep
<1>11. \A i \in Hart : link'[i] = link[i]
  BY <1>1, <1>2, <1>9, MemoryStep DEF Linked
<1>12. link' = [i \in Hart |-> link'[i]] /\ link = [i \in Hart |-> link[i]]
  BY <1>1, MemoryStep DEF TypeInv
<1>13. QED BY <1>10, <1>11, <1>12

\* The clock that answers hart h performs its access.
LEMMA PerformStep ==
  ASSUME IInv, IInv', NEW start, MayStart(start), Clock(start),
         NEW h \in Hart, Answering(h)'
  PROVE  /\ AtMemory(h) /\ todo[h] /= None /\ todo'[h] = todo[h] /\ ~Switch!Ack(h)
         /\ Access.op = todo[h].op /\ Access.addr = todo[h].addr
         /\ LET a     == todo[h].addr
                op    == todo[h].op
                fault == a \in Faulty
            IN  /\ link' = [i \in Hart |-> Linked(i, Access)]
                /\ mem' = IF Access.rw /\ ~fault
                          THEN [mem EXCEPT ![a] = Access.data] ELSE mem
                /\ fault => Answered' = -1
                /\ ~fault /\ op \in {"load", "lr"} => ~Access.rw /\ Answered' = mem[a]
                /\ ~fault /\ op = "store" =>
                     Access.rw /\ Access.data = todo[h].data /\ Answered' = 0
                /\ ~fault /\ op \notin {"load", "store", "lr", "sc"} =>
                     /\ Access.rw /\ Access.data = Alu(op, mem[a], todo[h].data)
                     /\ Answered' = mem[a]
                /\ ~fault /\ op = "sc" =>
                     \/ /\ Access.rw /\ Access.data = todo[h].data /\ Answered' = 0
                        /\ link[h] = Rvs!Granule(a)
                     \/ ~Access.rw /\ Answered' = 1
<1> DEFINE a == todo[h].addr
           op == todo[h].op
           fault == a \in Faulty
<1>1. TypeInv /\ Parts(start) /\ (Hold \/ Perform)
  BY DEF IInv, Clock, Parts
<1>2. Active(h)' /\ rsp'.ack /\ rmw' \in {"S_IDLE", "S_WRITE_WAIT"}
  BY DEF Answering
<1>3. todo'[h] = todo[h] /\ todo[h] /= None /\ AtMemory(h)
  BY <1>1, <1>2, StepCases
<1>4. ~Switch!Ack(h)
  BY <1>3, AckOwner DEF AtMemory
<1>5. Access.op = op /\ Access.addr = a
  BY <1>3 DEF AtMemory
<1>6. HartInv(h)
  BY DEF IInv
<1>7. op \in Ops
  BY <1>3, <1>6 DEF HartInv
<1>8. IsRmw(h) <=> op \notin {"load", "store", "lr", "sc"}
  BY <1>7 DEF IsRmw, Ops, Rmw!RmwOps
<1>9. /\ mem' = IF Access.rw /\ ~fault THEN [mem EXCEPT ![a] = Access.data] ELSE mem
      /\ rsp'.err <=> fault
      /\ rsp'.data = IF fault \/ Access.rw THEN 0 ELSE mem[a]
  BY <1>1, <1>2, <1>5, MemoryStep
<1>10. link' = [i \in Hart |-> Linked(i, Access)]
  <2>1. link' = [i \in Hart |-> link'[i]]
    BY <1>1, MemoryStep
  <2>2. \A i \in Hart : link'[i] = Linked(i, Access)
    BY <1>1, <1>2, MemoryStep
  <2>3. QED BY <2>1, <2>2
<1>11. fault => Answered' = -1
  BY <1>2, <1>9 DEF Answered
<1>12. ~fault => Answered' = IF rmw' /= "S_IDLE" THEN rdata'
                            ELSE IF sc_pend_fail' THEN 1
                            ELSE IF sc_pend_pass' THEN 0 ELSE rsp'.data
  BY <1>9 DEF Answered
<1> HIDE DEF a, op, fault
<1>13. /\ Access.rw <=> Writes(h)'
       /\ Writes(h)' <=> \/ op = "store"
                         \/ op = "sc" /\ sc_pend_pass'
                         \/ rmw' = "S_WRITE_WAIT"
       /\ Access.data = IF rmw' = "S_WRITE_WAIT" THEN alu_res' ELSE todo[h].data
       /\ IF op = "sc" THEN sc_pend_fail' <=> ~sc_pend_pass'
                       ELSE ~sc_pend_pass' /\ ~sc_pend_fail'
       /\ ~IsRmw(h) => rmw' = "S_IDLE"
       /\ IsRmw(h) => /\ rmw' = "S_WRITE_WAIT" /\ cmd' = op /\ wdata' = todo[h].data
                      /\ HasRead(rdata', h) /\ alu_res' = Alu(cmd', rdata', wdata')
  BY <1>2, <1>3 DEF AtMemory, Writes, op
<1>14. ASSUME ~fault, op \in {"load", "lr"} PROVE ~Access.rw /\ Answered' = mem[a]
  BY <1>8, <1>9, <1>12, <1>13, <1>14
<1>15. ASSUME ~fault, op = "store"
       PROVE  Access.rw /\ Access.data = todo[h].data /\ Answered' = 0
  BY <1>8, <1>9, <1>12, <1>13, <1>15
<1>16. ASSUME ~fault, op \notin {"load", "store", "lr", "sc"}
       PROVE  /\ Access.rw /\ Access.data = Alu(op, mem[a], todo[h].data)
              /\ Answered' = mem[a]
  <2>1. HasRead(rdata', h) /\ rmw' = "S_WRITE_WAIT"
    BY <1>8, <1>13, <1>16
  <2>2. rdata' = mem[a]
    BY <1>16, <2>1 DEF HasRead, a, fault
  <2>3. QED BY <1>8, <1>12, <1>13, <1>16, <2>1, <2>2
<1>17. ASSUME ~fault, op = "sc"
       PROVE  \/ /\ Access.rw /\ Access.data = todo[h].data /\ Answered' = 0
                 /\ link[h] = Rvs!Granule(a)
              \/ ~Access.rw /\ Answered' = 1
  <2>1. Writes(h)' => link[h] = Rvs!Granule(a)
    BY <1>3, <1>17 DEF AtMemory, BackedBut, a, op
  <2>2. QED BY <1>8, <1>9, <1>12, <1>13, <1>17, <2>1
<1>18. QED BY <1>3, <1>4, <1>5, <1>9, <1>10, <1>11, <1>14, <1>15, <1>16, <1>17
           DEF a, op, fault

-----------------------------------------------------------------------------
\* Every clock is a step of AtomicMemory: the access of a hart takes effect in
\* the clock in which the memory performs it, for an RMW operation its write.

LEMMA StartsLegally ==
  ASSUME NEW start \in [IdleHarts -> Requests \cup {None}]
  PROVE  MayStart(start)
BY RequestsAssumption DEF MayStart, IdleHarts

\* What AtomicMemory sees of the harts.
Todo(h)    == IF Switch!Ack(h) THEN None ELSE todo[h]
todo_bar   == [h \in Hart |-> IF Switch!Ack(h) THEN None ELSE todo[h]]
answer_bar == [h \in Hart |-> IF Switch!Ack(h) THEN Result ELSE None]

\* The harts that are not answered after this clock go on waiting, or begin.
LEMMA IssueStep ==
  ASSUME IInv, NEW start \in [IdleHarts -> Requests \cup {None}], Clock(start),
         NEW h \in Hart, ~Switch!Ack(h)'
  PROVE  Todo(h)' \in IF Todo(h) = None THEN {None} \cup Requests ELSE {Todo(h)}
<1>1. todo'[h] = IF todo[h] = None THEN start[h]
                 ELSE IF Switch!Ack(h) THEN None ELSE todo[h]
  BY StartsLegally, HartStep DEF Clock
<1>2. todo[h] = None => start[h] \in {None} \cup Requests
  BY DEF IdleHarts
<1>3. Todo(h)' = todo'[h]
  BY DEF Todo
<1>4. QED BY <1>1, <1>2, <1>3 DEF Todo

\* The clock that answers a hart is its step of AtomicMemory.
LEMMA ServeStep ==
  ASSUME IInv, IInv', NEW start \in [IdleHarts -> Requests \cup {None}], Clock(start),
         NEW h \in Hart, Answering(h)'
  PROVE  Abstract!Serve(h)
<1> DEFINE a == todo[h].addr
           op == todo[h].op
           fault == a \in Faulty
<1>1. MayStart(start)
  BY StartsLegally
<1>2. (\A i \in Hart : Switch!Ack(i)' <=> Answering(i)') /\ Result' = Answered'
  <2>1. AnswersRight'
    BY Answers, PTL
  <2>2. QED BY <2>1 DEF AnswersRight
<1>3. \A i \in Hart : Answering(i)' <=> i = h
  <2>1. ASSUME NEW i \in Hart, Answering(i)' PROVE i = h
    BY <2>1 DEF Answering, Active, Serving, Switch!Busy
  <2>2. QED BY <2>1
<1>4. \A i \in Hart : Switch!Ack(i)' <=> i = h
  BY <1>2, <1>3
<1>5. [i \in Hart |-> IF Switch!Ack(i) THEN Result ELSE None]'
        = [i \in Hart |-> IF i = h THEN Answered' ELSE None]
  BY <1>2, <1>4
<1>6. todo_bar'[h] = None
  BY <1>4 DEF todo_bar
<1>7. \A i \in Hart \ {h} : todo_bar'[i] \in IF todo_bar[i] = None
                                            THEN {None} \cup Requests
                                            ELSE {todo_bar[i]}
  BY <1>4, IssueStep DEF Todo, todo_bar
<1>8. Abstract!Issue(Hart \ {h})
  BY <1>7 DEF Abstract!Issue, todo_bar
<1>9. todo_bar[h] = todo[h] /\ todo[h] /= None
  BY <1>1, PerformStep DEF todo_bar
<1>10. todo_bar[h].addr = a /\ todo_bar[h].op = op /\ todo_bar[h].data = todo[h].data
  BY <1>9
<1>11. link = [i \in Hart |-> link[i]]
  BY DEF IInv, TypeInv
<1>12. /\ Access.op = op /\ Access.addr = a /\ Access.id = h
       /\ link' = [i \in Hart |-> Linked(i, Access)]
       /\ mem' = IF Access.rw /\ ~fault THEN [mem EXCEPT ![a] = Access.data] ELSE mem
  BY <1>1, PerformStep DEF AtMemory
<1>13. \A x : Answered' = x => Abstract!Answer(h, x)
  BY <1>5 DEF Abstract!Answer
<1>14. /\ fault => Answered' = -1
       /\ ~fault /\ op \in {"load", "lr"} => ~Access.rw /\ Answered' = mem[a]
       /\ ~fault /\ op = "store" =>
            Access.rw /\ Access.data = todo[h].data /\ Answered' = 0
       /\ ~fault /\ op \notin {"load", "store", "lr", "sc"} =>
            /\ Access.rw /\ Access.data = Alu(op, mem[a], todo[h].data)
            /\ Answered' = mem[a]
       /\ ~fault /\ op = "sc" =>
            \/ /\ Access.rw /\ Access.data = todo[h].data /\ Answered' = 0
               /\ link[h] = Rvs!Granule(a)
            \/ ~Access.rw /\ Answered' = 1
  BY <1>1, PerformStep
<1>15. \A x : Rvs!Granule(x) = Abstract!Granule(x)
  BY DEF Rvs!Granule, Abstract!Granule
<1> HIDE DEF a, op, fault
<1>16. Abstract!Perform(h)
  <2>1. CASE fault
    <3>1. link' = [link EXCEPT ![h] = CASE op = "lr" -> Abstract!Granule(a)
                                        [] op = "sc" -> None
                                        [] OTHER -> @]
      BY <1>11, <1>12, <1>15, <2>1 DEF Linked, fault
    <3>2. Abstract!Fault(h)
      BY <1>10, <1>12, <1>13, <1>14, <2>1, <3>1 DEF Abstract!Fault, todo_bar, fault
    <3>3. QED BY <1>9, <3>2 DEF Abstract!Perform, todo_bar
  <2>2. CASE ~fault /\ op \in {"load", "lr"}
    <3>1. link' = [link EXCEPT ![h] = IF op = "lr" THEN Abstract!Granule(a) ELSE @]
      BY <1>11, <1>12, <1>14, <1>15, <2>2 DEF Linked
    <3>2. Abstract!Load(h)
      BY <1>10, <1>12, <1>13, <1>14, <2>2, <3>1 DEF Abstract!Load, todo_bar
    <3>3. QED BY <1>9, <1>10, <2>2, <3>2 DEF Abstract!Perform, todo_bar, fault
  <2>3. ASSUME ~fault, Access.rw, op /= "lr" PROVE Abstract!Write(a, Access.data)
    <3>1. link' = [i \in Hart |-> IF link[i] = Abstract!Granule(a) THEN None ELSE link[i]]
      <4>1. CASE op /= "sc"
        BY <1>12, <1>15, <2>3, <4>1 DEF Linked, fault
      <4>2. CASE op = "sc"
        <5>1. link[h] = Abstract!Granule(a)
          BY <1>14, <1>15, <2>3, <4>2
        <5>2. QED BY <1>12, <1>15, <2>3, <4>2, <5>1 DEF Linked, fault
      <4>3. QED BY <4>1, <4>2
    <3>2. QED BY <1>12, <2>3, <3>1 DEF Abstract!Write
  <2>4. CASE ~fault /\ op = "store"
    <3>1. Abstract!Store(h)
      BY <1>10, <1>13, <1>14, <2>3, <2>4, RequestsAssumption DEF Abstract!Store, todo_bar
    <3>2. QED BY <1>9, <1>10, <2>4, <3>1 DEF Abstract!Perform, todo_bar, fault
  <2>5. CASE ~fault /\ op \notin {"load", "store", "lr", "sc"}
    <3>1. Abstract!Rmw(h)
      BY <1>10, <1>13, <1>14, <2>3, <2>5 DEF Abstract!Rmw, todo_bar
    <3>2. QED BY <1>9, <1>10, <2>5, <3>1 DEF Abstract!Perform, todo_bar, fault
  <2>6. CASE ~fault /\ op = "sc" /\ Access.rw
    <3>1. Abstract!ScPass(h)
      BY <1>10, <1>13, <1>14, <1>15, <2>3, <2>6 DEF Abstract!ScPass, todo_bar
    <3>2. QED BY <1>9, <1>10, <2>6, <3>1 DEF Abstract!Perform, todo_bar, fault
  <2>7. CASE ~fault /\ op = "sc" /\ ~Access.rw
    <3>1. link' = [link EXCEPT ![h] = None]
      BY <1>11, <1>12, <2>7 DEF Linked
    <3>2. Abstract!ScFail(h)
      BY <1>10, <1>12, <1>13, <1>14, <2>7, <3>1 DEF Abstract!ScFail, todo_bar
    <3>3. QED BY <1>9, <1>10, <2>7, <3>2 DEF Abstract!Perform, todo_bar, fault
  <2>8. QED BY <2>1, <2>2, <2>4, <2>5, <2>6, <2>7
<1>17. QED BY <1>6, <1>8, <1>16 DEF Abstract!Serve, todo_bar

-----------------------------------------------------------------------------
\* The atomics work: in every reachable state the invariant of Atomics_proofs
\* holds.
THEOREM AtomicsInvariant == Spec => []IInv
<1>1. IInv /\ [Next]_vars => IInv'
  <2> SUFFICES ASSUME IInv, [Next]_vars PROVE IInv'
    OBVIOUS
  <2>1. CASE UNCHANGED vars
    BY <2>1, StutterInv
  <2>2. CASE Next
    <3>1. PICK start \in [IdleHarts -> Requests \cup {None}] : Clock(start)
      BY <2>2 DEF Next
    <3>2. QED BY <3>1, StartsLegally, StepInv
  <2>3. QED BY <2>1, <2>2
<1>2. QED BY InitInv, <1>1, PTL DEF Spec

LEMMA AbstractInit == Init => Abstract!Init
<1> SUFFICES ASSUME Init PROVE Abstract!Init
  OBVIOUS
<1>1. IInv
  BY InitInv
<1>2. /\ mem = [a \in Addr |-> 0] /\ link = [h \in Hart |-> None]
      /\ todo = [h \in Hart |-> None]
  BY DEF Init
<1>3. \A h \in Hart : ~Switch!Ack(h)
  BY <1>1, <1>2, AckOwner DEF Active
<1>4. QED BY <1>2, <1>3 DEF Abstract!Init

\* Every clock is a step of AtomicMemory.
LEMMA AbstractStep == IInv /\ IInv' /\ Next => Abstract!Next
<1> SUFFICES ASSUME IInv, IInv', Next PROVE Abstract!Next
  OBVIOUS
<1>1. PICK start \in [IdleHarts -> Requests \cup {None}] : Clock(start)
  BY DEF Next
<1>2. CASE \E h \in Hart : Answering(h)'
  BY <1>1, <1>2, ServeStep DEF Abstract!Next
<1>3. CASE \A h \in Hart : ~Answering(h)'
  <2>1. UNCHANGED << mem, link >>
    BY <1>1, <1>3, StartsLegally, WaitStep
  <2>2. AnswersRight'
    BY Answers, PTL
  <2>3. \A h \in Hart : ~Switch!Ack(h)'
    BY <1>3, <2>2 DEF AnswersRight
  <2>4. [h \in Hart |-> IF Switch!Ack(h) THEN Result ELSE None]'
          = [h \in Hart |-> None]
    BY <2>3
  <2>5. Abstract!Issue(Hart)
    BY <1>1, <2>3, IssueStep DEF Abstract!Issue, Todo
  <2>6. Abstract!Wait
    BY <2>1, <2>4, <2>5 DEF Abstract!Wait
  <2>7. QED BY <2>6 DEF Abstract!Next
<1>4. QED BY <1>2, <1>3

\* A clock that changes nothing does not change what AtomicMemory sees.
LEMMA AbstractStutter ==
  ASSUME IInv, IInv', UNCHANGED vars
  PROVE  UNCHANGED << mem, link, todo_bar, answer_bar >>
<1>1. UNCHANGED << mem, link, todo, state, rmw, rsp, rdata, sc_pend_pass, sc_pend_fail >>
  BY DEF vars, switch_vars, rmw_vars, rvs_vars, mem_vars, hart_vars
<1>2. AnswersRight /\ AnswersRight'
  BY Answers, PTL
<1>3. /\ \A h \in Hart : Answering(h)' <=> Answering(h)
      /\ Answered' = Answered
  BY <1>1 DEF Answering, Answered, Active, Serving, Switch!Busy
<1>4. /\ \A h \in Hart : Switch!Ack(h)' <=> Switch!Ack(h)
      /\ Result' = Result
  BY <1>2, <1>3 DEF AnswersRight
<1>5. QED BY <1>1, <1>4 DEF todo_bar, answer_bar

\* Every load, store, LR, SC and RMW of either hart is one atomic step on the
\* memory, and an SC passes only if nobody wrote to the granule since the LR.
THEOREM AtomicsImplementAtomicMemory == Spec => ImplementsAtomicMemory
<1>1. ASSUME IInv, IInv', [Next]_vars
      PROVE  [Abstract!Next /\ DOMAIN todo_bar' = Hart]_<< mem, link, todo_bar, answer_bar >>
  <2>1. CASE UNCHANGED vars
    BY <1>1, <2>1, AbstractStutter DEF todo_bar, answer_bar
  <2>2. CASE Next
    BY <1>1, <2>2, AbstractStep DEF todo_bar
  <2>3. QED BY <1>1, <2>1, <2>2
<1>2. QED BY <1>1, AtomicsInvariant, AbstractInit, PTL
          DEF Spec, ImplementsAtomicMemory, Abstract!Spec, todo_bar, answer_bar

-----------------------------------------------------------------------------
\* The spin lock, on the atomics as they are, for any addresses, words and
\* granules.

USE DEF Hart

\* The harts that run an update or an amo loop never take the lock.
Looping == \A h \in Hart : pc[h] \in {"rest", "loop_lr", "loop_sc", "amo"}

\* A hart has the lock from the clock in which the SC of spin_lock is performed
\* to the one in which the SC of spin_unlock is.
Passed(h, label) == Answering(h) /\ pc[h] = label /\ Answered = 0
Locks(h) == Holding(h) \/ Passed(h, "cas_sc")

\* While the link of a hart that has read 0 holds, the word is still 0.
Linking(h) == \/ pc[h] = "cas_sc" /\ ~Answering(h)
              \/ Passed(h, "cas_lr")

Locking ==
  /\ \A h \in Hart : pc[h] \in {"cas_lr", "cas_sc", "critical", "unlock_lr",
                                "unlock_sc", "done"}
  /\ \A g, h \in Hart : Locks(g) /\ Locks(h) => g = h
  /\ \A h \in Hart : Locks(h) /\ ~Passed(h, "unlock_sc") => mem[Word_addr] = Held
  /\ \A h \in Hart : Linking(h) /\ link[h] = Rvs!Granule(Word_addr)
                       => mem[Word_addr] = 0

PInv == /\ IInv
        /\ pc = [h \in Hart |-> pc[h]]
        /\ DOMAIN mem = Addr
        /\ \A h \in Hart : todo[h] /= None => todo[h] = Instruction(h)
        /\ Looping \/ Locking

LEMMA InitPInv == InitPrograms => PInv
<1> SUFFICES ASSUME InitPrograms PROVE PInv
  OBVIOUS
<1>1. PICK label \in {"cas_lr", "rest", "amo"} : InitAt(label)
  BY DEF InitPrograms
<1>2. Init /\ pc = [h \in Hart |-> label]
  BY <1>1 DEF InitAt
<1>3. IInv
  BY <1>2, InitInv
<1>4. \A h \in Hart : pc[h] = label /\ todo[h] = None /\ ~Answering(h)
  BY <1>2 DEF Init, Answering, Active
<1>5. pc = [h \in Hart |-> pc[h]]
  BY <1>2
<1>6. DOMAIN mem = Addr
  BY <1>2 DEF Init
<1>7. Looping \/ Locking
  BY <1>4 DEF Looping, Locking, Locks, Linking, Holding, Passed
<1>8. QED BY <1>3, <1>4, <1>5, <1>6, <1>7 DEF PInv

\* The instructions of the programs are accesses, and no access is begun but
\* the next instruction.
LEMMA ProgramStep ==
  ASSUME PInv, Step
  PROVE  /\ IInv'
         /\ \E start : MayStart(start) /\ Clock(start)
         /\ pc' = [h \in Hart |-> IF Answering(h) THEN After(pc[h], Answered) ELSE pc[h]]
         /\ DOMAIN mem' = DOMAIN mem
         /\ \A h \in Hart : todo'[h] /= None => todo'[h] = Instruction(h)'
<1>1. PICK start \in [IdleHarts -> Requests \cup {None}] :
        /\ \A h \in IdleHarts : start[h] \in {Instruction(h), None}
        /\ Clock(start)
        /\ pc' = [h \in Hart |-> IF Switch!Ack(h) THEN After(pc[h], Result) ELSE pc[h]]
  BY DEF Step
<1>3. MayStart(start)
  BY StartsLegally
<1>4. IInv /\ IInv'
  BY <1>1, <1>3, StepInv DEF PInv
<1>5. AnswersRight
  BY <1>4, Answers
<1>6. pc' = [h \in Hart |-> IF Answering(h) THEN After(pc[h], Answered) ELSE pc[h]]
  BY <1>1, <1>5 DEF AnswersRight
<1>7. DOMAIN mem' = DOMAIN mem
  BY <1>1 DEF Clock, Hold, Perform
<1>8. ASSUME NEW h \in Hart, todo'[h] /= None PROVE todo'[h] = Instruction(h)'
  <2>1. todo'[h] = IF todo[h] = None THEN start[h]
                   ELSE IF Switch!Ack(h) THEN None ELSE todo[h]
    BY <1>1, <1>3, <1>4, HartStep DEF Clock
  <2>2. Answering(h) => todo[h] /= None
    BY DEF Answering, Active
  <2>3. ~Answering(h) /\ todo'[h] = Instruction(h)
    BY <1>1, <1>5, <1>8, <2>1, <2>2 DEF AnswersRight, PInv, IdleHarts
  <2>4. pc'[h] = pc[h]
    BY <1>6, <2>3
  <2>5. Instruction(h)' = Instruction(h)
    BY <2>4 DEF Instruction
  <2>6. QED BY <2>3, <2>5
<1>9. QED BY <1>1, <1>3, <1>4, <1>6, <1>7, <1>8

\* The pc of a hart that is answered moves on.
LEMMA PcStep ==
  ASSUME PInv, Step, NEW h \in Hart
  PROVE  /\ ~Answering(h) => pc'[h] = pc[h]
         /\ Answering(h)  => pc'[h] = After(pc[h], Answered)
BY ProgramStep

LEMMA LoopingStep ==
  ASSUME PInv, Step, Looping
  PROVE  Looping'
<1>1. SUFFICES ASSUME NEW h \in Hart
               PROVE  pc'[h] \in {"rest", "loop_lr", "loop_sc", "amo"}
  BY DEF Looping
<1>2. pc[h] \in {"rest", "loop_lr", "loop_sc", "amo"}
  BY DEF Looping
<1>3. After(pc[h], Answered) \in {"rest", "loop_lr", "loop_sc", "amo"}
  BY <1>2 DEF After
<1>4. QED BY <1>2, <1>3, PcStep

\* No hart is answered after the clock: answers of the last one are taken.
LEMMA LockingWait ==
  ASSUME PInv, Locking, Step, \A h \in Hart : ~Answering(h)'
  PROVE  Locking'
<1>1. mem' = mem /\ link' = link
  BY ProgramStep, WaitStep DEF PInv
<1>2. ASSUME NEW h \in Hart
      PROVE  /\ pc'[h] \in {"cas_lr", "cas_sc", "critical", "unlock_lr",
                            "unlock_sc", "done"}
             /\ Locks(h)' => Locks(h) /\ ~Passed(h, "unlock_sc")
             /\ Linking(h)' => Linking(h)
  <2>1. pc[h] \in {"cas_lr", "cas_sc", "critical", "unlock_lr", "unlock_sc", "done"}
    BY DEF Locking
  <2>2. ~Answering(h)'
    OBVIOUS
  <2>3. CASE ~Answering(h)
    BY <2>1, <2>2, <2>3, PcStep DEF Locks, Linking, Holding, Passed
  <2>4. CASE Answering(h)
    <3>1. pc[h] /= "done"
      BY <2>4 DEF PInv, Instruction, Answering, Active
    <3>2. pc'[h] = After(pc[h], Answered)
      BY <2>4, PcStep
    <3>3. QED BY <2>1, <2>2, <2>4, <3>1, <3>2
              DEF After, Locks, Linking, Holding, Passed
  <2>5. QED BY <2>3, <2>4
<1>3. QED BY <1>1, <1>2 DEF Locking, Passed, Rvs!Granule

\* Hart p is answered after the clock: its instruction is performed.
LEMMA LockingAnswer ==
  ASSUME PInv, Locking, Step, NEW p \in Hart, Answering(p)'
  PROVE  Locking'
<1> DEFINE G == Rvs!Granule(Word_addr)
           fault == Word_addr \in Faulty
<1>1. PICK start : MayStart(start) /\ Clock(start)
  BY ProgramStep
<1>2. IInv /\ IInv'
  BY ProgramStep DEF PInv
<1>3. AtMemory(p) /\ todo[p] = Instruction(p) /\ todo[p] /= None
  BY <1>1, <1>2, PerformStep DEF PInv
<1>4. \A h \in Hart : ~Answering(h)
  BY <1>3 DEF AtMemory, Answering
<1>5. \A h \in Hart : pc'[h] = pc[h]
  BY <1>4, PcStep
<1>6. \A h \in Hart : Answering(h)' => h = p
  BY DEF Answering, Active, Serving, Switch!Busy
<1>7. /\ todo[p].addr = Word_addr
      /\ pc[p] \in {"cas_lr", "critical", "unlock_lr"} => todo[p].op = "lr"
      /\ pc[p] \in {"cas_sc", "unlock_sc"} =>
           /\ todo[p].op = "sc"
           /\ todo[p].data = IF pc[p] = "cas_sc" THEN Held ELSE 0
      /\ pc[p] \in {"cas_lr", "cas_sc", "critical", "unlock_lr", "unlock_sc"}
  BY <1>3 DEF Locking, Instruction, Lr, Sc
<1>8. /\ Access.op = todo[p].op /\ Access.addr = Word_addr /\ Access.id = p
      /\ link' = [i \in Hart |-> Linked(i, Access)]
      /\ mem' = IF Access.rw /\ ~fault
                THEN [mem EXCEPT ![Word_addr] = Access.data] ELSE mem
  BY <1>1, <1>2, <1>7, PerformStep DEF AtMemory
<1>9. /\ fault => Answered' = -1
      /\ ~fault /\ todo[p].op = "lr" => ~Access.rw /\ Answered' = mem[Word_addr]
      /\ ~fault /\ todo[p].op = "sc" =>
            \/ Access.rw /\ Access.data = todo[p].data /\ Answered' = 0 /\ link[p] = G
            \/ ~Access.rw /\ Answered' = 1
  BY <1>1, <1>2, <1>7, PerformStep
<1>10. Word_addr \in DOMAIN mem /\ G /= None
  BY InstructionsAssumption, RequestsAssumption DEF PInv, Instructions, Lr
<1>11. \A h \in Hart : ~Passed(h, "cas_sc") /\ ~Passed(h, "cas_lr") /\ ~Passed(h, "unlock_sc")
  BY <1>4 DEF Passed
<1> HIDE DEF G, fault
<1>12. CASE pc[p] \in {"cas_lr", "critical", "unlock_lr"}
  <2>1. mem' = mem /\ (Answered' = 0 => mem[Word_addr] = 0)
    BY <1>7, <1>8, <1>9, <1>12
  <2>2. \A h \in Hart : h /= p => link'[h] = link[h]
    BY <1>7, <1>8, <1>9, <1>12 DEF Linked, fault
  <2>3. \A h \in Hart : /\ Locks(h)' <=> Locks(h)
                        /\ ~Passed(h, "unlock_sc")' 
    BY <1>5, <1>6, <1>11, <1>12 DEF Locks, Holding, Passed
  <2>4. \A h \in Hart : Linking(h)' => (h /= p /\ Linking(h))
                                        \/ mem[Word_addr] = 0
    BY <1>4, <1>5, <1>6, <1>12, <2>1 DEF Linking, Passed
  <2>5. QED BY <1>5, <1>11, <2>1, <2>2, <2>3, <2>4 DEF Locking, Rvs!Granule
<1>13. CASE pc[p] \in {"cas_sc", "unlock_sc"} /\ (fault \/ ~Access.rw)
  <2>1. mem' = mem /\ Answered' /= 0
    BY <1>7, <1>8, <1>9, <1>13
  <2>2. \A h \in Hart : h /= p => link'[h] = link[h]
    BY <1>7, <1>8, <1>13 DEF Linked, fault
  <2>3. link'[p] = None
    BY <1>7, <1>8, <1>13 DEF Linked
  <2>4. \A h \in Hart : /\ Locks(h)' <=> Locks(h)
                        /\ ~Passed(h, "unlock_sc")' 
    BY <1>5, <1>11, <2>1 DEF Locks, Holding, Passed
  <2>5. \A h \in Hart : Linking(h)' => Linking(h)
    BY <1>4, <1>5, <2>1 DEF Linking, Passed
  <2>6. QED BY <1>5, <1>10, <1>11, <2>1, <2>2, <2>3, <2>4, <2>5
            DEF Locking, Rvs!Granule, G
<1>14. CASE pc[p] \in {"cas_sc", "unlock_sc"} /\ ~fault /\ Access.rw
  <2>1. /\ Answered' = 0 /\ link[p] = G
        /\ mem'[Word_addr] = IF pc[p] = "cas_sc" THEN Held ELSE 0
    BY <1>7, <1>8, <1>9, <1>10, <1>14
  <2>2. \A h \in Hart : link'[h] /= G
    BY <1>7, <1>8, <1>10, <1>14 DEF Linked, fault, G
  <2>3. \A h \in Hart : Passed(h, "unlock_sc")' <=> h = p /\ pc[p] = "unlock_sc"
    BY <1>5, <1>6, <2>1 DEF Passed
  <2>4. \A h \in Hart : Locks(h)' <=> Locks(h) \/ (h = p /\ pc[p] = "cas_sc")
    BY <1>5, <1>6, <1>11, <2>1 DEF Locks, Holding, Passed
  <2>5. pc[p] = "cas_sc" => \A h \in Hart : ~Locks(h)
    <3>1. pc[p] = "cas_sc" => mem[Word_addr] = 0
      BY <1>4, <2>1 DEF Locking, Linking, G
    <3>2. QED BY <1>11, <3>1 DEF Locking, Held
  <2>6. pc[p] = "unlock_sc" => Locks(p)
    BY DEF Locks, Holding
  <2>7. /\ \A g, h \in Hart : Locks(g)' /\ Locks(h)' => g = h
        /\ \A h \in Hart : Locks(h)' /\ ~Passed(h, "unlock_sc")' => mem'[Word_addr] = Held
    BY <1>14, <2>1, <2>3, <2>4, <2>5, <2>6 DEF Locking
  <2>8. QED BY <1>5, <2>2, <2>7 DEF Locking, Rvs!Granule, G
<1>15. QED BY <1>7, <1>12, <1>13, <1>14

LEMMA PInvStep == PInv /\ [Step]_allvars => PInv'
<1> SUFFICES ASSUME PInv, [Step]_allvars PROVE PInv'
  OBVIOUS
<1>1. CASE UNCHANGED allvars
  <2>1. IInv'
    BY <1>1, StutterInv DEF PInv, allvars
  <2>2. UNCHANGED << pc, mem, link, todo, state, rmw, rsp, rdata,
                     sc_pend_pass, sc_pend_fail >>
    BY <1>1 DEF allvars, vars, switch_vars, rmw_vars, rvs_vars, mem_vars, hart_vars
  <2>3. Looping \/ Locking => Looping' \/ Locking'
    BY <2>2 DEF Looping, Locking, Locks, Linking, Holding, Passed, Answering,
                Answered, Active, Serving, Switch!Busy, Rvs!Granule
  <2>4. QED BY <2>1, <2>2, <2>3 DEF PInv, Instruction
<1>2. CASE Step
  <2>1. Looping' \/ Locking'
    BY <1>2, LoopingStep, LockingWait, LockingAnswer DEF PInv
  <2>2. pc' = [h \in Hart |-> pc'[h]]
    BY <1>2, ProgramStep
  <2>3. QED BY <1>2, <2>1, <2>2, ProgramStep DEF PInv
<1>3. QED BY <1>1, <1>2

\* The harts are never both between spin_lock and the end of spin_unlock, and
\* while one of them is, the word says so: whatever the other hart does.
THEOREM SpinLockIsExclusive == Programs => []LockIsExclusive
<1>1. PInv => LockIsExclusive
  <2> SUFFICES ASSUME PInv PROVE LockIsExclusive
    OBVIOUS
  <2>1. CASE Looping
    BY <2>1 DEF Looping, LockIsExclusive, Holding
  <2>2. CASE Locking
    <3>1. AnswersRight
      BY Answers DEF PInv
    <3>2. QED BY <2>2, <3>1 DEF Locking, Locks, Passed, LockIsExclusive, AnswersRight, Held
  <2>3. QED BY <2>1, <2>2 DEF PInv
<1>2. QED BY InitPInv, PInvStep, <1>1, PTL DEF Programs

-----------------------------------------------------------------------------
\* LR/SC make progress, the safety core of SomeUpdateCompletes: with turns, one
\* of the harts has an SC that must pass.

Word_granule == Rvs!Granule(Word_addr)

\* The SC of the hart whose turn it is passes, unless somebody has written to
\* the word since its LR.
ScPasses ==
  LET request == RmwReq!sys_req_o
  IN  request.stb /\ request.op = "sc" /\ turn = request.id
        /\ link[request.id] = Word_granule => Rvs!sc_valid

\* The link hart h will have once the access of hart i is performed.
LinkedAfter(i, h) == \/ h = i /\ todo[i].op = "lr"
                     \/ /\ link[h] = Word_granule
                        /\ ~(h = i /\ todo[i].op = "sc")
                        /\ ~Writes(i)

Reserved(h) == rsv.set /\ rsv.id = h /\ rsv.addr = Word_granule

\* The hart whose turn it is has the reservation as long as it has its link.
TurnOf(h) ==
  /\ (\A i \in Hart : ~Waiting(i)) => (link[h] = Word_granule => Reserved(h))
  /\ \A i \in Hart : Waiting(i) => (LinkedAfter(i, h) => Reserved(h))
TurnInv == turn \in Hart /\ TurnOf(turn)

\* The programs work on one word.
LEMMA OneWord ==
  ASSUME PInv, NEW h \in Hart, todo[h] /= None
  PROVE  todo[h].addr = Word_addr
<1>1. todo[h] = Instruction(h) /\ Instruction(h) /= None
  BY DEF PInv
<1>2. pc[h] \in {"cas_lr", "cas_sc", "critical", "unlock_lr", "unlock_sc", "done",
                 "rest", "loop_lr", "loop_sc", "amo"}
  BY DEF PInv, Looping, Locking
<1>3. Instruction(h) \in {Lr, Sc(0), Sc(Held), Amo}
  BY <1>1, <1>2 DEF Instruction
<1>4. \A x \in {Lr, Sc(0), Sc(Held), Amo} : x.addr = Word_addr
  BY DEF Lr, Sc, Amo
<1>5. QED BY <1>1, <1>3, <1>4

\* An access the memory keeps: the station and the controller wait with it.
LEMMA StillWaiting ==
  ASSUME IInv, NEW start, MayStart(start), Parts(start), NEW i \in Hart, Waiting(i)
  PROVE  /\ ~Rvs!sys_req_o.stb /\ Active(i)' /\ AtMemory(i)
         /\ todo'[i] = todo[i] /\ rmw' = rmw /\ rmw' \notin {"S_EXECUTE", "S_WRITE"}
         /\ Writes(i)' <=> Writes(i)
         /\ rsv' = rsv /\ turn' = turn
<1>1. TypeInv /\ Rvs!Clock /\ Active(i) /\ ~rsp.ack
      /\ rmw \in {"S_IDLE", "S_READ_WAIT", "S_WRITE_WAIT"}
  BY DEF IInv, Parts, Waiting, TypeInv
<1>2. Sel!sel = i /\ ~Sel!stb
  BY <1>1, ArbiterStep DEF Parts, Active
<1>3. ~sys2_req.stb /\ ~Rvs!sys_req_o.stb
  BY <1>1, <1>2, NoRequest
<1>4. rmw' = rmw
  BY <1>1, <1>3, RmwStep DEF Parts
<1>5. /\ rsv' = rsv /\ sc_pend_pass' = sc_pend_pass
  BY <1>1, <1>3, StationQuiet DEF TypeInv
<1>6. turn' = turn
  <2>1. Rvs!sys_req_o.stb = RmwReq!sys_req_o.stb
    BY RequestFields DEF Rvs!sys_req_o
  <2>2. QED BY <1>1, <1>3, <2>1 DEF Rvs!Clock, Rvs!Station
<1>7. ~Switch!Ack(i)
  BY <1>1, AckOwner
<1>8. Active(i)' /\ todo'[i] = todo[i]
  BY <1>1, <1>7, ActiveStep DEF Parts
<1>9. AtMemory(i)
  BY <1>1, <1>4, <1>8, StepCases
<1>10. Writes(i)' <=> Writes(i)
  BY <1>4, <1>5, <1>8 DEF Writes
<1>11. QED BY <1>1, <1>3, <1>4, <1>5, <1>6, <1>8, <1>9, <1>10

\* A strobe is the first of an access, or that of the write of an RMW operation.
LEMMA StrobeStep ==
  ASSUME IInv, NEW start, MayStart(start), Parts(start), Rvs!sys_req_o.stb
  PROVE  \E h \in Hart :
           /\ Sel!sel = h /\ todo[h] /= None /\ Active(h)' /\ AtMemory(h)
           /\ todo'[h] = todo[h] /\ rmw' \notin {"S_EXECUTE", "S_WRITE"}
<1>1. TypeInv
  BY DEF IInv
<1>2. CASE rmw = "S_WRITE"
  <2>1. PICK h \in Hart : Active(h)
    BY <1>2 DEF IInv, IdleInv
  <2>2. Sel!sel = h /\ todo[h] /= None
    BY <2>1, ArbiterStep DEF Parts, Active
  <2>3. ~Switch!Ack(h)
    BY <1>2, AckOwner
  <2>4. Active(h)' /\ todo'[h] = todo[h]
    BY <2>1, <2>3, ActiveStep DEF Parts
  <2>5. rmw' = "S_WRITE_WAIT"
    BY <1>1, <1>2, RmwStep DEF Parts
  <2>6. QED BY <2>2, <2>4, <2>5, StepCases
<1>3. CASE rmw /= "S_WRITE"
  <2>1. Sel!stb /\ todo[Sel!sel] /= None
    BY <1>3, NoRequest
  <2>2. state = "S_IDLE"
    <3>1. ASSUME NEW g \in Hart, Serving(g) PROVE FALSE
      BY <2>1, <3>1, ArbiterStep DEF Parts
    <3>2. QED BY <1>1, <3>1 DEF Serving, Switch!Busy, TypeInv
  <2>3. PICK h \in Hart : Sel!sel = h /\ todo[h] /= None
    BY <2>1, <2>2, ArbiterStep DEF Parts
  <2>4. Active(h)' /\ todo'[h] = todo[h]
    BY <2>1, <2>2, <2>3, ActiveStep DEF Parts
  <2>5. AtMemory(h) /\ rmw' \notin {"S_EXECUTE", "S_WRITE"}
    BY <2>1, <2>2, <2>3, <2>4, GrantStep
  <2>6. QED BY <2>3, <2>4, <2>5
<1>4. QED BY <1>2, <1>3

\* Without an access at the memory and without a strobe nothing happens there.
LEMMA NothingAtMemory ==
  ASSUME IInv, NEW start, MayStart(start), Clock(start), ~Rvs!sys_req_o.stb,
         \A i \in Hart : ~Waiting(i)
  PROVE  /\ rsv' = rsv /\ turn' = turn /\ link' = link
         /\ \A i \in Hart : ~Waiting(i)'
<1>1. TypeInv /\ Parts(start) /\ Rvs!Clock /\ (Hold \/ Perform)
  BY DEF IInv, Clock, Parts
<1>2. rsv' = rsv
  BY <1>1, StationQuiet
<1>3. turn' = turn
  <2>1. Rvs!sys_req_o.stb = RmwReq!sys_req_o.stb
    BY RequestFields DEF Rvs!sys_req_o
  <2>2. QED BY <1>1, <2>1 DEF Rvs!Clock, Rvs!Station
<1>4. ASSUME NEW h \in Hart, Active(h)' PROVE rmw' \in {"S_EXECUTE", "S_WRITE"}
  <2>1. SUFFICES ASSUME rmw' \notin {"S_EXECUTE", "S_WRITE"} PROVE FALSE
    OBVIOUS
  <2>2. AtMemory(h)
    BY <1>1, <1>4, <2>1, StepCases
  <2>3. \/ Active(h)
        \/ Sel!sel = h /\ Sel!stb /\ todo[h] /= None
    BY <1>1, <1>4, ActiveStep DEF Parts
  <2>4. Active(h)
    BY <2>3, RequestOfHart
  <2>5. Sel!sel = h /\ todo[h] /= None
    BY <1>1, <2>4, ArbiterStep DEF Parts, Active
  <2>6. rmw /= "S_WRITE"
    BY <2>5, RequestOfHart
  <2>7. rmw = "S_EXECUTE"
    BY <2>2, <2>4, <2>6 DEF AtMemory, Waiting
  <2>8. QED BY <1>1, <2>1, <2>7, RmwStep DEF Parts
<1>5. Access = None
  <2>1. CASE \E h \in Hart : Active(h)'
    BY <1>1, <1>4, <2>1, StepCases DEF InBetween
  <2>2. CASE \A h \in Hart : ~Active(h)'
    BY <1>1, <2>2, QuietStep
  <2>3. QED BY <2>1, <2>2
<1>6. link' = link
  BY <1>1, <1>5, MemoryStep
<1>7. QED BY <1>2, <1>3, <1>4, <1>6 DEF Waiting

\* The link a hart is left with, in either state of the access.
LEMMA TurnKept ==
  ASSUME PInv, NEW start, MayStart(start), Clock(start), Word_addr \notin Faulty,
         NEW h \in Hart, todo[h].addr = Word_addr, AtMemory(h), Active(h)',
         todo'[h] = todo[h], rmw' \notin {"S_EXECUTE", "S_WRITE"},
         NEW t \in Hart,
         \/ h = t /\ todo[h].op = "lr"
         \/ link[t] = Word_granule /\ ~(h = t /\ todo[h].op = "sc") /\ ~Writes(h)'
         => Reserved(t)'
  PROVE  TurnOf(t)'
<1>1. TypeInv /\ (Hold \/ Perform)
  BY DEF PInv, IInv, Clock
<1>2. Word_granule /= None /\ Word_granule' = Word_granule
  BY InstructionsAssumption DEF Word_granule, Rvs!Granule
<1>3. \A i \in Hart : i /= h => ~Waiting(i)'
  BY DEF Waiting, Active, Serving, Switch!Busy
<1>4. CASE ~rsp'.ack
  <2>1. link' = link /\ Waiting(h)'
    BY <1>1, <1>4, MemoryStep DEF Waiting
  <2>2. LinkedAfter(h, t)' => Reserved(t)'
    BY <1>2, <2>1 DEF LinkedAfter
  <2>3. QED BY <1>3, <2>1, <2>2 DEF TurnOf
<1>5. CASE rsp'.ack
  <2>1. link'[t] = Linked(t, Access)
    BY <1>1, <1>5, MemoryStep
  <2>2. /\ Access.op = todo[h].op /\ Access.addr = Word_addr /\ Access.id = h
        /\ Access.rw <=> Writes(h)'
    BY DEF AtMemory
  <2>3. link'[t] = Word_granule => Reserved(t)'
    BY <1>2, <2>1, <2>2 DEF Linked, Word_granule
  <2>4. ~Waiting(h)'
    BY <1>5 DEF Waiting
  <2>5. QED BY <1>2, <1>3, <2>3, <2>4 DEF TurnOf
<1>6. QED BY <1>1, <1>4, <1>5, MemoryStep

\* The turn at a strobe.
LEMMA TurnStrobe ==
  ASSUME TypeInv, NEW h \in Hart, Sel!sel = h, todo[h] /= None, turn \in Hart,
         Rvs!sys_req_o.stb, Rvs!Clock
  PROVE  /\ turn' = IF todo[h].op = "sc" /\ Rvs!sc_valid THEN Rvs!Other(turn) ELSE turn
         /\ todo[h].op = "lr" =>
              /\ turn = h => /\ rsv'.set /\ rsv'.id = h
                             /\ rsv'.addr = Rvs!Granule(todo[h].addr)
              /\ turn /= h /\ rsv.set /\ rsv.id = turn => rsv' = rsv
<1>1. /\ RmwReq!sys_req_o.stb /\ RmwReq!sys_req_o.op = todo[h].op
      /\ RmwReq!sys_req_o.addr = todo[h].addr /\ RmwReq!sys_req_o.id = h
  BY RequestOfHart
<1>2. (Rvs!lr <=> todo[h].op = "lr") /\ (Rvs!sc <=> todo[h].op = "sc")
  BY <1>1 DEF Rvs!lr, Rvs!sc
<1>3. Rvs!lr_allow <=> ~rsv.set \/ rsv.id = h \/ turn = h
  BY <1>1 DEF Rvs!lr_allow
<1>4. Rvs!Station
  BY DEF Rvs!Clock
<1>5. turn' = IF todo[h].op = "sc" /\ Rvs!sc_valid THEN Rvs!Other(turn) ELSE turn
  BY <1>1, <1>2, <1>4 DEF Rvs!Station
<1>6. todo[h].op = "lr" =>
        rsv' = IF Rvs!lr_allow
               THEN [set |-> TRUE, id |-> h, addr |-> Rvs!Granule(todo[h].addr)]
               ELSE rsv
  BY <1>1, <1>2, <1>4 DEF Rvs!Station, Rvs!Reserve, Rvs!Granule
<1>7. QED BY <1>3, <1>5, <1>6

LEMMA TurnStrobed ==
  ASSUME PInv, TurnInv, NEW start, MayStart(start), Clock(start),
         Word_addr \notin Faulty, Rvs!sys_req_o.stb
  PROVE  TurnInv'
<1>1. IInv /\ TypeInv /\ Parts(start) /\ Rvs!Clock /\ Rmw!Clock /\ turn \in Hart
  BY DEF PInv, IInv, Clock, Parts, TurnInv
<1>2. PICK h \in Hart :
        /\ Sel!sel = h /\ todo[h] /= None /\ Active(h)' /\ AtMemory(h)
        /\ todo'[h] = todo[h] /\ rmw' \notin {"S_EXECUTE", "S_WRITE"}
  BY <1>1, StrobeStep
<1>3. todo[h].addr = Word_addr
  BY <1>2, OneWord
<1>4. \A i \in Hart : ~Waiting(i)
  BY <1>1, StillWaiting
<1>5. link[turn] = Word_granule => Reserved(turn)
  BY <1>4 DEF TurnInv, TurnOf
<1>6. /\ Rvs!sc_valid <=> rsv.set /\ rsv.id = h /\ rsv.addr = Word_granule
      /\ todo[h].op /= "lr" => rsv'.id = rsv.id /\ rsv'.addr = rsv.addr
      /\ todo[h].op = "sc"  => (rsv'.set <=> rsv.set /\ rsv.id /= h)
      /\ todo[h].op \notin {"lr", "sc"} =>
           (rsv'.set <=> rsv.set /\ ~(/\ \/ rmw \in {"S_WRITE", "S_WRITE_WAIT"}
                                         \/ todo[h].op \in {"store", "sc"}
                                      /\ rsv.addr = Word_granule))
      /\ todo[h].op = "sc" => (Rvs!sc_valid => sc_pend_pass')
  BY <1>1, <1>2, <1>3, StationStrobe DEF Word_granule
<1>7. /\ turn' = IF todo[h].op = "sc" /\ Rvs!sc_valid THEN Rvs!Other(turn) ELSE turn
      /\ todo[h].op = "lr" =>
           /\ turn = h => rsv'.set /\ rsv'.id = h /\ rsv'.addr = Word_granule
           /\ turn /= h /\ rsv.set /\ rsv.id = turn => rsv' = rsv
  BY <1>1, <1>2, <1>3, TurnStrobe DEF Word_granule
<1>8. turn' \in Hart
  BY <1>1, <1>7 DEF Rvs!Other
<1>9. Word_granule' = Word_granule
  BY DEF Word_granule, Rvs!Granule
<1>10. PICK t \in Hart : t = turn'
  BY <1>8
<1>11. ASSUME \/ h = t /\ todo[h].op = "lr"
              \/ link[t] = Word_granule /\ ~(h = t /\ todo[h].op = "sc") /\ ~Writes(h)'
       PROVE  Reserved(t)'
  <2>1. CASE todo[h].op = "lr"
    BY <1>5, <1>7, <1>9, <1>10, <1>11, <2>1 DEF Reserved
  <2>2. CASE todo[h].op = "sc"
    <3>1. ~Rvs!sc_valid
      BY <1>2, <1>6, <1>11, <2>2 DEF Writes
    <3>2. t = turn /\ h /= turn /\ Reserved(turn)
      BY <1>5, <1>7, <1>10, <1>11, <2>2, <3>1
    <3>3. QED BY <1>6, <1>9, <2>2, <3>2 DEF Reserved
  <2>3. CASE todo[h].op \notin {"lr", "sc"}
    <3>1. t = turn /\ Reserved(turn)
      BY <1>5, <1>7, <1>10, <1>11, <2>3
    <3>2. todo[h].op /= "store" /\ rmw' /= "S_WRITE_WAIT"
      BY <1>2, <1>11, <2>3 DEF Writes
    <3>3. rmw \notin {"S_WRITE", "S_WRITE_WAIT"}
      BY <1>1, <1>2, <3>2, RmwStep DEF AtMemory
    <3>4. QED BY <1>6, <1>9, <2>3, <3>1, <3>2, <3>3 DEF Reserved
  <2>4. QED BY <2>1, <2>2, <2>3
<1>12. TurnOf(t)'
  BY <1>2, <1>3, <1>11, TurnKept
<1>13. TurnOf(turn)'
  BY <1>10, <1>12 DEF TurnOf, LinkedAfter, Reserved, Waiting, Active, Serving, Writes
<1>14. QED BY <1>8, <1>13 DEF TurnInv

LEMMA TurnStep ==
  ASSUME PInv, TurnInv, Step, Word_addr \notin Faulty
  PROVE  TurnInv'
<1>1. PICK start : MayStart(start) /\ Clock(start)
  BY ProgramStep
<1>2. IInv /\ Parts(start) /\ turn \in Hart
  BY <1>1 DEF PInv, Clock, Parts, TurnInv
<1>3. Word_granule' = Word_granule
  BY DEF Word_granule, Rvs!Granule
<1>4. CASE Rvs!sys_req_o.stb
  BY <1>1, <1>4, TurnStrobed
<1>5. CASE ~Rvs!sys_req_o.stb /\ \A i \in Hart : ~Waiting(i)
  <2>1. /\ rsv' = rsv /\ turn' = turn /\ link' = link
        /\ \A i \in Hart : ~Waiting(i)'
    BY <1>1, <1>2, <1>5, NothingAtMemory
  <2>2. QED BY <1>3, <1>5, <2>1 DEF TurnInv, TurnOf, Reserved
<1>6. ASSUME NEW h \in Hart, Waiting(h) PROVE TurnInv'
  <2>1. /\ Active(h)' /\ AtMemory(h) /\ todo'[h] = todo[h]
        /\ rmw' \notin {"S_EXECUTE", "S_WRITE"}
        /\ Writes(h)' <=> Writes(h)
        /\ rsv' = rsv /\ turn' = turn
    BY <1>1, <1>2, <1>6, StillWaiting
  <2>2. todo[h].addr = Word_addr
    BY <1>6, OneWord DEF Waiting, Active
  <2>3. PICK t \in Hart : t = turn
    BY <1>2
  <2>4. LinkedAfter(h, t) => Reserved(t)
    BY <1>6, <2>3 DEF TurnInv, TurnOf
  <2>5. Reserved(t) => Reserved(t)'
    BY <1>3, <2>1 DEF Reserved
  <2>6. \/ h = t /\ todo[h].op = "lr"
        \/ link[t] = Word_granule /\ ~(h = t /\ todo[h].op = "sc") /\ ~Writes(h)'
        => Reserved(t)'
    BY <2>1, <2>4, <2>5 DEF LinkedAfter
  <2>7. TurnOf(t)'
    BY <1>1, <2>1, <2>2, <2>6, TurnKept
  <2>8. TurnOf(turn)'
    BY <2>1, <2>3, <2>7 DEF TurnOf, LinkedAfter, Reserved
  <2>9. QED BY <1>2, <2>1, <2>8 DEF TurnInv
<1>7. QED BY <1>4, <1>5, <1>6

LEMMA TurnPasses == PInv /\ TurnInv => ScPasses
<1> SUFFICES ASSUME PInv, TurnInv, RmwReq!sys_req_o.stb, RmwReq!sys_req_o.op = "sc",
                    turn = RmwReq!sys_req_o.id, link[turn] = Word_granule
             PROVE  Rvs!sc_valid
  BY DEF ScPasses
<1>1. IInv /\ TypeInv /\ \A h \in Hart : HartInv(h)
  BY DEF PInv, IInv
<1>2. ASSUME NEW g \in Hart, Serving(g) PROVE Sel!sel = g /\ ~Sel!stb
  <2>1. Sel!sel = g /\ state /= "S_IDLE"
    BY <1>2 DEF Serving, Switch!Busy, Sel!sel
  <2>2. QED BY <1>1, <1>2, <2>1 DEF Sel!stb, HartInv
<1>3. rmw /= "S_WRITE"
  <2>1. SUFFICES ASSUME rmw = "S_WRITE" PROVE FALSE
    OBVIOUS
  <2>2. PICK h \in Hart : Active(h)
    BY <1>1, <2>1 DEF IInv, IdleInv
  <2>3. RmwReq!sys_req_o.op = todo[h].op
    BY <1>2, <2>2, RequestOfHart DEF Active
  <2>4. IsRmw(h)
    BY <1>1, <2>1, <2>2 DEF IInv, ActiveInv
  <2>5. QED BY <2>3, <2>4 DEF IsRmw, Rmw!RmwOps
<1>4. Sel!stb /\ todo[Sel!sel] /= None
  <2>1. Rvs!sys_req_o.stb
    BY RequestFields DEF Rvs!sys_req_o
  <2>2. QED BY <1>3, <2>1, NoRequest
<1>5. \A i \in Hart : ~Waiting(i)
  BY <1>2, <1>4 DEF Waiting, Active
<1>6. PICK h \in Hart : h = Sel!sel
  BY DEF Sel!sel, Sel!Granted, Sel!Preferred, Sel!Other
<1>7. /\ RmwReq!sys_req_o.id = h
      /\ RmwReq!sys_req_o.addr = todo[h].addr
  BY <1>4, <1>6, RequestOfHart
<1>8. todo[h].addr = Word_addr
  BY <1>4, <1>6, OneWord
<1>9. Reserved(h)
  BY <1>5, <1>7 DEF TurnInv, TurnOf
<1>10. QED BY <1>7, <1>8, <1>9 DEF Reserved, Word_granule, Rvs!sc_valid

\* The SC of the hart whose turn it is passes, unless somebody has written to
\* the word since its LR: the other hart can neither take its reservation with
\* an LR nor drop it with an SC.
THEOREM ScOfTurnPasses ==
  ASSUME Word_addr \notin Faulty
  PROVE  Programs => []ScPasses
<1>1. Init => turn = "a" /\ link = [h \in Hart |-> None]
  BY DEF Init, Rvs!Init
<1>2. InitPrograms => TurnInv
  <2>1. InitPrograms => Init
    BY DEF InitPrograms, InitAt
  <2>2. ASSUME Init PROVE TurnInv
    <3>1. \A i \in Hart : ~Waiting(i)
      BY <2>2 DEF Init, Waiting, Active
    <3>2. None /= Word_granule
      BY InstructionsAssumption DEF Word_granule
    <3>3. QED BY <1>1, <2>2, <3>1, <3>2 DEF TurnInv, TurnOf
  <2>3. QED BY <2>1, <2>2
<1>3. PInv /\ TurnInv /\ [Step]_allvars => TurnInv'
  <2> SUFFICES ASSUME PInv, TurnInv, [Step]_allvars PROVE TurnInv'
    OBVIOUS
  <2>1. CASE UNCHANGED allvars
    BY <2>1 DEF allvars, vars, switch_vars, rmw_vars, rvs_vars, mem_vars, hart_vars,
       TurnInv, TurnOf, LinkedAfter, Reserved, Word_granule, Rvs!Granule, Waiting,
       Active, Serving, Writes, Switch!Busy
  <2>2. CASE Step
    BY <2>2, TurnStep
  <2>3. QED BY <2>1, <2>2
<1>4. QED BY InitPInv, PInvStep, <1>2, <1>3, TurnPasses, PTL DEF Programs

=============================================================================
