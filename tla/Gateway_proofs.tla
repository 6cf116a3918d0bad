--------------------------- MODULE Gateway_proofs ---------------------------
(***************************************************************************)
(* Proofs about the gateway and its bus monitor, for any set of ports, any *)
(* time-outs and locked transfers of any length: each access is watched to *)
(* its end and answered once, and a time-out is the silence of a device.   *)
(***************************************************************************)
EXTENDS GatewaySystem, TLAPS

Count(b) == IF b THEN 1 ELSE 0
Timed(r) == Tmo[r] > 0

TypeOK ==
  /\ state \in Switch!States /\ sel_q \in Port
  /\ lock \in [Port -> BOOLEAN] /\ req \in [Port -> BOOLEAN]
  /\ keeper \in [state : {"00", "01", "11"}, lock : BOOLEAN,
                 sel : SUBSET Region, cnt : Nat]
  /\ xpending \in BOOLEAN /\ xlocked \in BOOLEAN
  /\ stb_i \in [Port -> BOOLEAN] /\ lock_i \in [Port -> BOOLEAN]
  /\ addr_i \in [Port -> Address]
  /\ sent \in [Port -> Nat] /\ pending \in [Port -> Nat]
  /\ pause \in [Port -> 0 .. MaxPause]
  /\ ack \in SUBSET Region
  /\ inflight \in [Region -> Nat] /\ age \in [Region -> Nat]

\* The monitor watches whenever the switch is busy, and only then.
IdleInv == state = "S_IDLE" <=> keeper.state = "00"

\* The external bus has a cycle open only for an access the monitor watches, and
\* keeps it open until the monitor has seen its end or failed it.
BridgeInv ==
  /\ xpending => keeper.state /= "00" /\ keeper.sel = {"X"}
  /\ keeper.state = "01" /\ keeper.sel = {"X"} => xpending /\ xlocked = keeper.lock

\* A port that is not served has one strobe waiting at most, the first one.
WaitingInv(p) ==
  state /= Switch!Busy(p) => /\ pending[p] = Count(stb_i[p] \/ req[p])
                             /\ lock_i[p] => pending[p] = 1
                             /\ pending[p] = 1 => sent[p] = 1

\* Switch and monitor agree on the transfer of the port that is being served.
ServedInv(p) ==
  state = Switch!Busy(p) =>
    /\ sel_q = p
    /\ keeper.lock = lock[p]
    /\ keeper.sel = Gateway!port_sel(addr_i[p])
    /\  lock[p] => lock_i[p] \/ (pending[p] = 0 /\ ~stb_i[p])
    /\ ~lock[p] => ~lock_i[p] /\ pending[p] = 1 /\ ~stb_i[p]
    /\ stb_i[p] => sent[p] >= 2 /\ pending[p] >= 1

\* Of the strobes of the port being served each one is passing, at the device or
\* being answered.  The counter of the monitor is at most a pause ahead of the
\* silence of the device, so that it does not reach the time-out with an answer.
WatchInv(p) ==
  state = Switch!Busy(p) /\ keeper.state = "01" =>
    \A r \in keeper.sel :
      /\ pending[p] = inflight[r] + Count(r \in ack) + Count(stb_i[p])
      /\ Timed(r) =>
           /\ keeper.cnt <= Tmo[r]
           /\ r \in ack => keeper.cnt < Tmo[r]
           /\ inflight[r] > 0 /\ r \notin ack =>
                /\ age[r] <= keeper.cnt + 1
                /\ keeper.cnt <= age[r] + MaxPause \/ age[r] >= Silence
           /\ inflight[r] = 0 /\ r \notin ack =>
                /\ keeper.cnt <= MaxPause
                /\ ~stb_i[p] /\ lock_i[p] => keeper.cnt < pause[p]

\* An internal device has something to answer only while the monitor watches it;
\* what a time-out has left there is never answered.
Watched(r)   == keeper.state = "01" /\ keeper.sel = {r}
Exhausted(r) == \A l \in Latency[r] : l <= age[r]
DeviceInv(r) ==
  /\ r \in ack => Watched(r)
  /\ Watched(r) \/ inflight[r] = 0 \/ Exhausted(r)
  /\ keeper.state = "11" /\ keeper.sel = {r} => inflight[r] > 0

AgeInv(r) == inflight[r] = 0 \/ r \in ack => age[r] = 0

IInv == /\ TypeOK /\ IdleInv /\ BridgeInv
        /\ \A p \in Port : WaitingInv(p) /\ ServedInv(p) /\ WatchInv(p)
        /\ \A r \in Region : AgeInv(r)
        /\ \A r \in Internal : DeviceInv(r)

-----------------------------------------------------------------------------
\* Arithmetic of the time-out counter.

LEMMA BelowTimeout ==
  ASSUME NEW c \in Nat, NEW t \in Nat, c < t
  PROVE  c \div t = 0
OBVIOUS

LEMMA AtTimeout ==
  ASSUME NEW t \in Nat, t > 0
  PROVE  (t \div t) % 2 = 1
<1>1. t \div t = 1
  OBVIOUS
<1>2. QED BY <1>1

LEMMA NoWrap ==
  ASSUME NEW c \in Nat, NEW n \in Nat, c < n
  PROVE  c % n = c
OBVIOUS

\* Of at most five time-outs one is the largest.
LEMMA LargestExists ==
  \E t \in {Tmo[r] : r \in Region} : \A r \in Region : Tmo[r] <= t
<1> DEFINE Part(S)  == Region \cap S
           Has(S)   == \E m \in Part(S) : \A r \in Part(S) : Tmo[r] <= Tmo[m]
<1>1. \A r \in Region : Tmo[r] \in Nat
  BY GatewayAssumption
<1>2. Has({"X"})
  BY <1>1 DEF Region
<1>3. ASSUME NEW S, NEW e, Has(S) PROVE Has(S \cup {e})
  <2>1. PICK m \in Part(S) : \A r \in Part(S) : Tmo[r] <= Tmo[m]
    BY <1>3
  <2>2. CASE e \in Region /\ Tmo[m] < Tmo[e]
    <3>1. \A r \in Part(S \cup {e}) : Tmo[r] <= Tmo[e]
      BY <1>1, <2>1, <2>2
    <3>2. QED BY <2>2, <3>1
  <2>3. CASE e \notin Region
    <3>1. Part(S \cup {e}) = Part(S)
      BY <2>3
    <3>2. QED BY <3>1, <2>1
  <2>4. CASE e \in Region /\ ~(Tmo[m] < Tmo[e])
    <3>1. \A r \in Part(S \cup {e}) : Tmo[r] <= Tmo[m]
      BY <1>1, <2>1, <2>4
    <3>2. QED BY <2>1, <3>1
  <2>5. QED BY <2>2, <2>3, <2>4
<1> HIDE DEF Has
<1>4. Has({"X"} \cup {"A"} \cup {"B"} \cup {"C"} \cup {"D"})
  BY <1>2, <1>3
<1>5. Part({"X"} \cup {"A"} \cup {"B"} \cup {"C"} \cup {"D"}) = Region
  BY GatewayAssumption DEF Region
<1>6. PICK m \in Region : \A r \in Region : Tmo[r] <= Tmo[m]
  BY <1>4, <1>5 DEF Has
<1>7. QED BY <1>6

\* The counter is wide enough for the time-out of each port.
LEMMA CounterRange ==
  ASSUME NEW r \in Region, NEW c \in Nat, Timed(r), c <= Tmo[r]
  PROVE  c % Gateway!CntRange = c
<1> DEFINE t == Gateway!Largest
<1>1. t \in {Tmo[q] : q \in Region} /\ \A q \in Region : Tmo[q] <= t
  BY LargestExists DEF Gateway!Largest, Gateway!Region, Region
<1>2. Tmo[r] \in Nat /\ t \in Nat /\ Tmo[r] <= t /\ Tmo[r] > 0
  BY <1>1, GatewayAssumption DEF Timed
<1> HIDE DEF t
<1>3. Gateway!CntRange = 2 * t
  BY <1>2 DEF Gateway!CntRange, t
<1>4. c < 2 * t /\ 2 * t \in Nat
  BY <1>2
<1>5. QED BY <1>3, <1>4, NoWrap

-----------------------------------------------------------------------------
\* What the signals mean in a state that satisfies the invariant.

\* The host being served.
LEMMA ActiveHost ==
  ASSUME IInv
  PROVE  /\ state = "S_IDLE" \/ \E p \in Port : state = Switch!Busy(p)
         /\ \A p \in Port : Switch!Busy(p) /= "S_IDLE"
         /\ \A p, q \in Port : Switch!Busy(p) = Switch!Busy(q) => p = q
BY DEF IInv, TypeOK, Switch!States, Switch!Busy, Switch!Port, Port

\* A port is selected alone.
LEMMA SelectedAlone ==
  ASSUME NEW addr, NEW r \in Gateway!port_sel(addr)
  PROVE  Gateway!port_sel(addr) = {r} /\ r \in Enabled /\ r \in Region
BY GatewayAssumption DEF Gateway!port_sel

\* Only the port that the monitor watches acknowledges, or the bridge for an
\* access that the monitor is about to fail.
LEMMA AckWatched ==
  ASSUME IInv, NEW r \in Acknowledging
  PROVE  /\ r \in ack /\ keeper.sel = {r} /\ r \in Enabled /\ r \in Region
         /\ keeper.state /= "00" /\ (r /= "X" => keeper.state = "01")
<1>1. r \in ack /\ r \in Region /\ (r = "X" => xpending)
  BY DEF Acknowledging, Bridge!rsp_ack, IInv, TypeOK
<1>2. keeper.sel = {r} /\ keeper.state /= "00" /\ (r /= "X" => keeper.state = "01")
  <2>1. CASE r = "X"
    BY <1>1, <2>1 DEF IInv, BridgeInv
  <2>2. CASE r /= "X"
    BY <1>1, <2>2 DEF IInv, DeviceInv, Watched, Region
  <2>3. QED BY <2>1, <2>2
<1>3. PICK p \in Port : state = Switch!Busy(p)
  BY <1>2, ActiveHost DEF IInv, IdleInv
<1>4. r \in Gateway!port_sel(addr_i[p])
  BY <1>2, <1>3 DEF IInv, ServedInv
<1>5. QED BY <1>1, <1>2, <1>4, SelectedAlone

LEMMA IntAck ==
  ASSUME IInv
  PROVE  Gateway!int_ack <=> Acknowledging /= {}
BY AckWatched DEF Gateway!int_ack

\* A device that answers in this clock, or in the next, has a latency for it.
LEMMA SilentStep ==
  ASSUME IInv, NEW r \in Region, NEW request, ~FirstStrobe(r, request)
  PROVE  /\ Silent(r, request) \in Nat
         /\ Silent(r, request) \in Latency[r] =>
              age[r] < Silence /\ Silent(r, request) = age[r] + 1
         /\ age[r] < Silence => Silent(r, request) = age[r] + 1
         /\ age[r] >= Silence => Silent(r, request) = Silence
BY GatewayAssumption DEF Silent, IInv, TypeOK

\* An exhausted device stays so, and silent.
LEMMA ExhaustedStep ==
  ASSUME IInv, NEW r \in Region, NEW request, ~FirstStrobe(r, request), Exhausted(r)
  PROVE  /\ ~Answers(r, request)
         /\ \A l \in Latency[r] : l <= Silent(r, request)
<1>1. \A l \in Latency[r] : l \in Nat /\ l < Silence /\ l <= age[r]
  BY GatewayAssumption DEF Exhausted
<1>2. age[r] \in Nat /\ Silence \in Nat
  BY GatewayAssumption DEF IInv, TypeOK
<1>3. QED BY <1>1, <1>2, SilentStep DEF Answers

\* Silence until the time-out exhausts the device.
LEMMA TimeoutExhausts ==
  ASSUME IInv, NEW p \in Port, state = Switch!Busy(p), keeper.state = "01",
         NEW r \in Region, keeper.sel = {r}, Gateway!tmo_fire
  PROVE  /\ r \notin ack /\ inflight[r] > 0
         /\ r /= "X" => Exhausted(r)
<1>1. Timed(r) /\ (keeper.cnt \div Tmo[r]) % 2 = 1
  BY DEF Gateway!tmo_fire, Timed
<1>2. keeper.cnt \in Nat /\ Tmo[r] \in Nat /\ MaxPause \in Nat /\ Silence \in Nat
      /\ age[r] \in Nat /\ inflight[r] \in Nat
  BY GatewayAssumption DEF IInv, TypeOK
<1>3. ~(keeper.cnt < Tmo[r])
  BY <1>1, <1>2, BelowTimeout
<1>4. /\ r \notin ack
      /\ inflight[r] > 0 /\ r \notin ack =>
           keeper.cnt <= age[r] + MaxPause \/ age[r] >= Silence
      /\ inflight[r] = 0 /\ r \notin ack => keeper.cnt <= MaxPause
  BY <1>1, <1>3 DEF IInv, WatchInv
<1>5. MaxPause < Tmo[r] /\ \A l \in Latency[r] :
        l \in Nat /\ l < Silence /\ (l + MaxPause < Tmo[r] \/ r = "X")
  BY <1>1, GatewayAssumption, TimeoutAssumption DEF Timed
<1>6. inflight[r] > 0
  BY <1>2, <1>3, <1>4, <1>5
<1>7. ASSUME r /= "X", NEW l \in Latency[r] PROVE l <= age[r]
  BY <1>2, <1>3, <1>4, <1>5, <1>6, <1>7
<1>8. QED BY <1>4, <1>6, <1>7 DEF Exhausted

\* Without a time-out the counter stays below it.
LEMMA NotYet ==
  ASSUME IInv, NEW p \in Port, state = Switch!Busy(p), keeper.state = "01",
         NEW r \in Region, keeper.sel = {r}, ~Gateway!tmo_fire, Timed(r)
  PROVE  keeper.cnt < Tmo[r] /\ (keeper.cnt + 1) % Gateway!CntRange = keeper.cnt + 1
<1>1. keeper.cnt \in Nat /\ Tmo[r] \in Nat /\ Tmo[r] > 0 /\ keeper.cnt <= Tmo[r]
  BY GatewayAssumption DEF IInv, TypeOK, WatchInv, Timed
<1>2. keeper.cnt /= Tmo[r]
  BY <1>1, AtTimeout DEF Gateway!tmo_fire
<1>3. keeper.cnt < Tmo[r] /\ keeper.cnt + 1 \in Nat /\ keeper.cnt + 1 <= Tmo[r]
  BY <1>1, <1>2
<1>4. QED BY <1>3, CounterRange

\* What a step of the protocol does to one host.
HostMove(p, m) ==
  /\ m \in {"single", "first"} => ~lock_i[p] /\ Left(p) = 0
  /\ m = "more" => lock_i[p] /\ Left(p) < sent[p]
  /\ m = "unlock" => lock_i[p] /\ Left(p) = 0
  /\ m = "wait" => ~lock_i[p] \/ Left(p) > 0 \/ pause[p] < MaxPause
  /\ stb_i'[p] = (m \in Strobes)
  /\ lock_i'[p] = IF m = "wait" THEN lock_i[p] ELSE m \in {"first", "more"}
  /\ addr_i'[p] \in Address
  /\ m \notin {"single", "first"} => addr_i'[p] = addr_i[p]
  /\ sent'[p] = IF m = "more" THEN sent[p] + 1
                ELSE IF m \in Strobes THEN 1 ELSE sent[p]
  /\ pending'[p] = IF m \in Strobes THEN Left(p) + 1 ELSE Left(p)
  /\ pause'[p] = IF m = "wait" /\ lock_i[p] /\ Left(p) = 0
                 THEN pause[p] + 1 ELSE 0

LEMMA HostStep ==
  ASSUME IInv, Clock, NEW p \in Port
  PROVE  \E m \in Moves : HostMove(p, m)
<1> DEFINE left == Pair(Left("a"), Left("b"))
<1>1. PICK a \in Legal("a", left["a"]), b \in Legal("b", left["b"]) :
        \E addr_a \in MayAddress("a", a), addr_b \in MayAddress("b", b) :
          Hosts(Pair(a, b), Pair(addr_a, addr_b), left)
  BY DEF Clock
<1>2. PICK addr_a \in MayAddress("a", a), addr_b \in MayAddress("b", b) :
          Hosts(Pair(a, b), Pair(addr_a, addr_b), left)
  BY <1>1
<1> DEFINE m == IF p = "a" THEN a ELSE b
           addr == IF p = "a" THEN addr_a ELSE addr_b
<1>3. Pair(a, b)[p] = m /\ Pair(addr_a, addr_b)[p] = addr /\ left[p] = Left(p)
  BY DEF Pair, Port
<1>4. m \in Legal(p, Left(p)) /\ addr \in MayAddress(p, m)
  BY <1>3 DEF Pair, Port
<1>5. /\ stb_i'[p] = (m \in Strobes)
      /\ lock_i'[p] = IF m = "wait" THEN lock_i[p] ELSE m \in {"first", "more"}
      /\ addr_i'[p] = addr
      /\ sent'[p] = IF m = "more" THEN sent[p] + 1
                    ELSE IF m \in Strobes THEN 1 ELSE sent[p]
      /\ pending'[p] = IF m \in Strobes THEN Left(p) + 1 ELSE Left(p)
      /\ pause'[p] = IF m = "wait" /\ lock_i[p] /\ Left(p) = 0
                     THEN pause[p] + 1 ELSE 0
  <2> HIDE DEF m, addr, left
  <2>1. QED BY <1>2, <1>3 DEF Hosts
<1>6. addr \in Address
  BY <1>4 DEF MayAddress, IInv, TypeOK
<1> HIDE DEF m, addr, left
<1>7. m \in Moves /\ (m \notin {"single", "first"} => addr = addr_i[p])
  BY <1>4 DEF Legal, MayAddress
<1>8. /\ m \in {"single", "first"} => ~lock_i[p] /\ Left(p) = 0
      /\ m = "more" => lock_i[p] /\ Left(p) < sent[p]
      /\ m = "unlock" => lock_i[p] /\ Left(p) = 0
      /\ m = "wait" => ~lock_i[p] \/ Left(p) > 0 \/ pause[p] < MaxPause
  BY <1>4 DEF Legal
<1>9. QED BY <1>5, <1>6, <1>7, <1>8 DEF HostMove

LEMMA HostTypes ==
  ASSUME IInv, Clock
  PROVE  /\ stb_i' \in [Port -> BOOLEAN] /\ lock_i' \in [Port -> BOOLEAN]
         /\ addr_i' \in [Port -> Address]
         /\ sent' \in [Port -> Nat] /\ pending' \in [Port -> Nat]
         /\ pause' \in [Port -> 0 .. MaxPause]
         /\ \A p \in Port : Left(p) \in Nat
<1>1. ASSUME NEW p \in Port PROVE Left(p) \in Nat
  BY DEF IInv, TypeOK, Left, Answered
<1>2. ASSUME NEW p \in Port
      PROVE  /\ stb_i'[p] \in BOOLEAN /\ lock_i'[p] \in BOOLEAN
             /\ addr_i'[p] \in Address
             /\ sent'[p] \in Nat /\ pending'[p] \in Nat
             /\ pause'[p] \in 0 .. MaxPause
  <2>1. PICK m \in Moves : HostMove(p, m)
    BY HostStep
  <2>2. lock_i[p] \in BOOLEAN /\ sent[p] \in Nat /\ Left(p) \in Nat
        /\ pause[p] \in 0 .. MaxPause /\ MaxPause \in Nat
    BY <1>1, GatewayAssumption DEF IInv, TypeOK
  <2>3. stb_i'[p] \in BOOLEAN /\ addr_i'[p] \in Address
    BY <2>1 DEF HostMove
  <2>4. lock_i'[p] \in BOOLEAN
    <3>1. CASE m = "wait"
      BY <2>1, <2>2, <3>1 DEF HostMove
    <3>2. CASE m /= "wait"
      <4>1. lock_i'[p] = (m \in {"first", "more"})
        BY <2>1, <3>2 DEF HostMove
      <4>2. QED BY <4>1
    <3>3. QED BY <3>1, <3>2
  <2>5. sent'[p] \in Nat /\ pending'[p] \in Nat
    BY <2>1, <2>2 DEF HostMove
  <2>6. pause'[p] \in 0 .. MaxPause
    BY <2>1, <2>2 DEF HostMove
  <2>7. QED BY <2>3, <2>4, <2>5, <2>6
<1>3. /\ stb_i'   = [p \in Port |-> stb_i'[p]]
      /\ lock_i'  = [p \in Port |-> lock_i'[p]]
      /\ addr_i'  = [p \in Port |-> addr_i'[p]]
      /\ sent'    = [p \in Port |-> sent'[p]]
      /\ pending' = [p \in Port |-> pending'[p]]
      /\ pause'   = [p \in Port |-> pause'[p]]
  BY DEF Clock, Hosts, Pair
<1>4. QED BY <1>1, <1>2, <1>3

\* A device takes and answers strobes, at most one answer in a clock.
LEMMA DeviceStep ==
  ASSUME IInv, Clock
  PROVE  /\ ack' \in SUBSET Region
         /\ inflight' \in [Region -> Nat] /\ age' \in [Region -> Nat]
         /\ \A r \in Region :
              /\ Taken(r, Request) \in Nat
              /\ r \in ack' => Answers(r, Request)
              /\ inflight'[r] + Count(r \in ack') = Taken(r, Request)
              /\ age'[r] = IF r \in ack' \/ Taken(r, Request) = 0
                           THEN 0 ELSE Silent(r, Request)
<1>1. PICK who \in SUBSET {r \in Region : Answers(r, Request)} : Devices(who, Request)
  BY DEF Clock
<1>2. ASSUME NEW r \in Region
      PROVE  /\ Taken(r, Request) \in Nat /\ Silent(r, Request) \in Nat
             /\ r \in who => Taken(r, Request) > 0
  BY <1>1, GatewayAssumption DEF IInv, TypeOK, Taken, Silent, Answers
<1>3. QED BY <1>1, <1>2 DEF Devices, Count

\* While port p is being served its request passes the switch and it gets the
\* answers; the other port waits.
LEMMA Serving ==
  ASSUME IInv, Clock, NEW p \in Port, state = Switch!Busy(p)
  PROVE  /\ Request.stb = stb_i[p] /\ Request.lock = lock_i[p]
         /\ Request.addr = addr_i[p] /\ Request.first = (sent[p] = 1)
         /\ state' = IF IF lock[p] THEN ~lock_i[p] ELSE Gateway!rsp_ack
                     THEN "S_IDLE" ELSE state
         /\ sel_q' = p /\ lock' = lock /\ ~req'[p]
         /\ \A q \in Port : Switch!Ack(q) <=> q = p /\ Gateway!rsp_ack
<1>1. state /= "S_IDLE" /\ Switch!sel = p
  BY DEF Switch!sel, Switch!Busy, Port
<1>2. Switch!stb = stb_i[p]
  BY <1>1 DEF Switch!stb
<1>3. /\ Request.stb = stb_i[p] /\ Request.lock = lock_i[p]
      /\ Request.addr = addr_i[p] /\ Request.first = (sent[p] = 1)
  BY <1>1, <1>2 DEF Request
<1>4. Switch!Clock
  BY DEF Clock
<1>5. state' = IF IF lock[p] THEN ~lock_i[p] ELSE Gateway!rsp_ack
               THEN "S_IDLE" ELSE state
  BY <1>1, <1>4 DEF Switch!Clock, Switch!NextState, Switch!Done
<1>6. sel_q' = p /\ lock' = lock /\ ~req'[p]
  BY <1>1, <1>4 DEF Switch!Clock, Switch!Stored, Switch!Port, Port
<1>7. sel_q = p
  BY DEF IInv, ServedInv
<1>8. QED BY <1>3, <1>5, <1>6, <1>7 DEF Switch!Ack

\* A port that waits gets no answer.
LEMMA Waiting ==
  ASSUME IInv, Clock, NEW p \in Port, state /= Switch!Busy(p)
  PROVE  /\ ~Switch!Ack(p) /\ Left(p) = pending[p]
         /\ req'[p] <=> stb_i[p] \/ req[p]
<1>1. ~Switch!Ack(p)
  <2>1. CASE state = "S_IDLE"
    <3>1. keeper.state = "00"
      BY <2>1 DEF IInv, IdleInv
    <3>2. Acknowledging = {}
      BY <3>1, AckWatched
    <3>3. ~Gateway!rsp_ack
      BY <3>1, <3>2, IntAck DEF Gateway!rsp_ack, Gateway!bus_err
    <3>4. QED BY <3>3 DEF Switch!Ack
  <2>2. CASE state /= "S_IDLE"
    <3>1. PICK q \in Port : state = Switch!Busy(q)
      BY <2>2, ActiveHost
    <3>2. QED BY <3>1, Serving
  <2>3. QED BY <2>1, <2>2
<1>2. Left(p) = pending[p]
  BY <1>1 DEF Left, Answered, IInv, TypeOK
<1>3. Switch!Clock
  BY DEF Clock
<1>4. req'[p] <=> stb_i[p] \/ req[p]
  BY <1>3 DEF Switch!Clock, Switch!Stored, Switch!Port, Port
<1>5. QED BY <1>1, <1>2, <1>4

\* An idle switch grants the port of one strobe, the first of its transfer.
LEMMA Granting ==
  ASSUME IInv, Clock, state = "S_IDLE"
  PROVE  \/ /\ state' = "S_IDLE" /\ Request.stb = FALSE
            /\ \A p \in Port : ~stb_i[p] /\ ~req[p]
         \/ \E p \in Port :
              /\ state' = Switch!Busy(p)
              /\ Request.stb = TRUE /\ Request.first = TRUE
              /\ Request.lock = lock_i[p] /\ Request.addr = addr_i[p]
              /\ sel_q' = p /\ lock'[p] = lock_i[p]
              /\ pending[p] = 1 /\ sent[p] = 1
<1>0. Switch!Clock
  BY DEF Clock
<1>1. CASE ~Switch!AnyRequest
  <2>1. state' = "S_IDLE" /\ Switch!stb = FALSE
    BY <1>0, <1>1 DEF Switch!Clock, Switch!NextState, Switch!stb
  <2>2. \A p \in Port : ~stb_i[p] /\ ~req[p]
    BY <1>1 DEF Switch!AnyRequest, Switch!Requesting, Switch!Port, Port
  <2>3. Request.stb = FALSE
    BY <2>1 DEF Request
  <2>4. QED BY <2>1, <2>2, <2>3
<1>2. CASE Switch!AnyRequest
  <2> DEFINE p == Switch!Granted
  <2>1. p \in Port /\ Switch!Requesting(p)
    BY <1>2 DEF Switch!AnyRequest, Switch!Granted, Switch!Preferred, Switch!Other,
       Switch!Port, Port
  <2>2. /\ state' = Switch!Busy(p) /\ sel_q' = p /\ lock' = lock_i
        /\ Switch!sel = p /\ Switch!stb = TRUE
    BY <1>0, <1>2 DEF Switch!Clock, Switch!NextState, Switch!sel, Switch!stb
  <2> HIDE DEF p
  <2>3. stb_i[p] \/ req[p]
    BY <2>1 DEF Switch!Requesting
  <2>4. pending[p] = 1 /\ sent[p] = 1
    BY <2>1, <2>3, ActiveHost DEF IInv, WaitingInv, Count
  <2>5. /\ Request.stb = TRUE /\ Request.first = TRUE
        /\ Request.lock = lock_i[p] /\ Request.addr = addr_i[p]
    BY <2>2, <2>4 DEF Request
  <2>6. QED BY <2>1, <2>2, <2>3, <2>4, <2>5
<1>3. QED BY <1>1, <1>2

\* A time-out strikes a host whose strobe is at a silent device, and therefore
\* not in the clock in which the switch sees the transfer end.
LEMMA TimeoutStrikes ==
  ASSUME IInv, NEW p \in Port, state = Switch!Busy(p), keeper.state = "01",
         Gateway!tmo_fire
  PROVE  /\ Acknowledging = {}
         /\ pending[p] > Count(stb_i[p])
         /\ ~(IF lock[p] THEN ~lock_i[p] ELSE Gateway!rsp_ack)
<1>1. PICK r \in keeper.sel : TRUE
  BY DEF Gateway!tmo_fire
<1>2. r \in Region /\ keeper.sel = {r}
  BY <1>1, SelectedAlone DEF IInv, ServedInv
<1>3. r \notin ack /\ inflight[r] > 0
  BY <1>2, TimeoutExhausts
<1>4. Acknowledging = {}
  BY <1>2, <1>3, AckWatched
<1>5. pending[p] = inflight[r] + Count(r \in ack) + Count(stb_i[p])
  BY <1>1 DEF IInv, WatchInv
<1>6. inflight[r] \in Nat /\ Count(stb_i[p]) \in Nat
  BY <1>2 DEF IInv, TypeOK, Count
<1>7. pending[p] > Count(stb_i[p]) /\ pending[p] > 0
  BY <1>3, <1>5, <1>6 DEF Count
<1>8. ~Gateway!rsp_ack
  BY <1>4, IntAck DEF Gateway!rsp_ack, Gateway!bus_err
<1>9. QED BY <1>4, <1>7, <1>8 DEF IInv, ServedInv

\* The monitor follows the transfer of the port being served.
LEMMA Monitoring ==
  ASSUME IInv, Clock, NEW p \in Port, state = Switch!Busy(p)
  PROVE  /\ keeper'.lock = keeper.lock /\ keeper'.sel = keeper.sel
         /\ keeper' \in [state : {"00", "01", "11"}, lock : BOOLEAN,
                         sel : SUBSET Region, cnt : Nat]
         /\ state' = "S_IDLE" <=> keeper'.state = "00"
         /\ keeper'.state = "01" => keeper.state = "01" /\ ~Gateway!tmo_fire
         /\ keeper'.state = "11" => keeper.state = "11" \/ Gateway!tmo_fire
         /\ keeper.state = "01" =>
              keeper'.cnt = IF Acknowledging /= {} THEN 0
                            ELSE (keeper.cnt + 1) % Gateway!CntRange
<1> DEFINE done == IF lock[p] THEN ~lock_i[p] ELSE Gateway!rsp_ack
<1>1. Request.lock = lock_i[p] /\ state' = IF done THEN "S_IDLE" ELSE state
  BY Serving
<1>2. keeper.lock = lock[p] /\ state /= "S_IDLE" /\ keeper.state /= "00"
  BY ActiveHost DEF IInv, ServedInv, IdleInv
<1>3. keeper \in [state : {"00", "01", "11"}, lock : BOOLEAN,
                  sel : SUBSET Region, cnt : Nat]
  BY DEF IInv, TypeOK
<1>4. (keeper.cnt + 1) % Gateway!CntRange \in Nat
  <2>1. PICK t \in {Tmo[r] : r \in Region} : Gateway!Largest = t
    BY LargestExists DEF Gateway!Largest, Gateway!Region, Region
  <2>2. Gateway!Largest \in Nat
    BY <2>1, GatewayAssumption
  <2>3. Gateway!CntRange \in Nat /\ Gateway!CntRange > 0
    BY <2>2 DEF Gateway!CntRange
  <2>4. keeper.cnt + 1 \in Nat
    BY <1>3
  <2>5. QED BY <2>3, <2>4
<1>5. Gateway!int_ack <=> Acknowledging /= {}
  BY IntAck
<1>6. CASE keeper.state = "01"
  <2>1. Gateway!rsp_ack <=> Gateway!int_ack
    BY <1>6 DEF Gateway!rsp_ack, Gateway!bus_err
  <2>2. Gateway!Finished(Request) <=> done
    BY <1>1, <1>2, <2>1 DEF Gateway!Finished
  <2>3. Gateway!Busy(Request)
    BY <1>6 DEF Clock, Gateway!Clock, Gateway!Idle, Gateway!Error
  <2>4. keeper' = [keeper EXCEPT
                     !.cnt = Gateway!Count,
                     !.state = IF Gateway!tmo_fire THEN "11"
                               ELSE IF done THEN "00" ELSE "01"]
    BY <2>2, <2>3 DEF Gateway!Busy
  <2>5. Gateway!Count = IF Acknowledging /= {} THEN 0
                        ELSE (keeper.cnt + 1) % Gateway!CntRange
    BY <1>5 DEF Gateway!Count
  <2>6. Gateway!Count \in Nat
    BY <1>4, <2>5
  <2>7. Gateway!tmo_fire => ~done
    BY <1>6, TimeoutStrikes
  <2> HIDE DEF done
  <2>8. keeper'.state = IF Gateway!tmo_fire THEN "11"
                        ELSE IF done THEN "00" ELSE "01"
    BY <1>3, <2>4
  <2>9. /\ keeper'.lock = keeper.lock /\ keeper'.sel = keeper.sel
        /\ keeper'.cnt = Gateway!Count
        /\ keeper' \in [state : {"00", "01", "11"}, lock : BOOLEAN,
                        sel : SUBSET Region, cnt : Nat]
    BY <1>3, <2>4, <2>6
  <2>10. QED BY <1>1, <1>2, <1>6, <2>5, <2>7, <2>8, <2>9
<1>7. CASE keeper.state = "11"
  <2>1. Gateway!Error(Request)
    BY <1>7 DEF Clock, Gateway!Clock, Gateway!Idle, Gateway!Busy
  <2>2. keeper' = [keeper EXCEPT
                     !.state = IF keeper.lock /\ lock_i[p] THEN "11" ELSE "00"]
    BY <1>1, <2>1 DEF Gateway!Error
  <2>3. Gateway!rsp_ack
    BY <1>7 DEF Gateway!rsp_ack, Gateway!bus_err
  <2>4. done <=> ~(keeper.lock /\ lock_i[p])
    BY <1>2, <2>3
  <2> HIDE DEF done
  <2>5. QED BY <1>1, <1>2, <1>3, <1>7, <2>2, <2>4
<1>8. QED BY <1>2, <1>3, <1>6, <1>7

\* An idle monitor starts with the strobe that passes.
LEMMA Starting ==
  ASSUME IInv, Clock, state = "S_IDLE"
  PROVE  keeper' = [state |-> IF Request.stb THEN "01" ELSE "00",
                    lock |-> Request.lock,
                    sel |-> Gateway!port_sel(Request.addr), cnt |-> 0]
<1>1. keeper.state = "00"
  BY DEF IInv, IdleInv
<1>2. QED BY <1>1 DEF Clock, Gateway!Clock, Gateway!Idle, Gateway!Busy, Gateway!Error

-----------------------------------------------------------------------------
\* The invariant after a clock, part by part.

LEMMA MonitorStep ==
  ASSUME IInv, Clock
  PROVE  /\ keeper' \in [state : {"00", "01", "11"}, lock : BOOLEAN,
                         sel : SUBSET Region, cnt : Nat]
         /\ IdleInv'
<1>1. CASE state = "S_IDLE"
  <2>1. keeper' = [state |-> IF Request.stb THEN "01" ELSE "00",
                   lock |-> Request.lock,
                   sel |-> Gateway!port_sel(Request.addr), cnt |-> 0]
    BY <1>1, Starting
  <2>2. Gateway!port_sel(Request.addr) \in SUBSET Region
    BY SelectedAlone
  <2>3. Request.lock \in BOOLEAN
    <3>1. Switch!sel \in Port
      BY <1>1 DEF Switch!sel, Switch!Granted, Switch!Preferred, Switch!Other, Port
    <3>2. QED BY <3>1 DEF Request, IInv, TypeOK
  <2>4. CASE Request.stb
    <3>1. PICK p \in Port : state' = Switch!Busy(p)
      BY <1>1, <2>4, Granting
    <3>2. state' /= "S_IDLE"
      BY <3>1, ActiveHost
    <3>3. QED BY <2>1, <2>2, <2>3, <2>4, <3>2 DEF IdleInv
  <2>5. CASE ~Request.stb
    <3>1. state' = "S_IDLE"
      BY <1>1, <2>5, Granting
    <3>2. QED BY <2>1, <2>2, <2>3, <2>5, <3>1 DEF IdleInv
  <2>6. QED BY <2>4, <2>5
<1>2. CASE state /= "S_IDLE"
  <2>1. PICK p \in Port : state = Switch!Busy(p)
    BY <1>2, ActiveHost
  <2>2. QED BY <2>1, Monitoring DEF IdleInv
<1>3. QED BY <1>1, <1>2

LEMMA TypeStep ==
  ASSUME IInv, Clock
  PROVE  TypeOK'
<1>1. Switch!Clock
  BY DEF Clock
<1>2. state' \in Switch!States /\ sel_q' \in Port
  <2>1. Switch!sel \in Port /\ Switch!NextState \in Switch!States
    BY DEF IInv, TypeOK, Switch!sel, Switch!NextState, Switch!States, Switch!Port,
       Switch!Granted, Switch!Preferred, Switch!Other, Switch!Busy, Port
  <2>2. QED BY <1>1, <2>1 DEF Switch!Clock
<1>3. lock' \in [Port -> BOOLEAN] /\ req' \in [Port -> BOOLEAN]
  BY <1>1 DEF Switch!Clock, Switch!Stored, Switch!Port, Port, IInv, TypeOK
<1>4. xpending' \in BOOLEAN /\ xlocked' \in BOOLEAN
  <2>1. Bridge!Clock(Strobed("X", Request), Request.lock, Gateway!term_o)
    BY DEF Clock
  <2>2. Strobed("X", Request) \in BOOLEAN
    BY DEF Strobed, Gateway!PortStb
  <2>3. CASE xpending
    BY <2>1, <2>3 DEF Bridge!Clock, IInv, TypeOK
  <2>4. CASE ~xpending
    BY <2>1, <2>2, <2>4 DEF Bridge!Clock
  <2>5. QED BY <2>3, <2>4
<1>5. QED BY <1>2, <1>3, <1>4, MonitorStep, HostTypes, DeviceStep DEF TypeOK

\* A strobe that passes goes to the port that the monitor watches.
LEMMA StrobedPort ==
  ASSUME IInv, Clock, NEW p \in Port, state = Switch!Busy(p), NEW r
  PROVE  /\ Strobed(r, Request) <=> stb_i[p] /\ r \in keeper.sel
         /\ ~FirstStrobe(r, Request)
<1>2. /\ Request.stb = stb_i[p] /\ Request.addr = addr_i[p]
      /\ Request.first = (sent[p] = 1)
  BY Serving
<1>3. Strobed(r, Request) <=> stb_i[p] /\ r \in keeper.sel
  BY <1>2 DEF Strobed, Gateway!PortStb, IInv, ServedInv
<1>4. stb_i[p] => sent[p] /= 1
  BY DEF IInv, ServedInv, TypeOK
<1>5. QED BY <1>2, <1>3, <1>4 DEF FirstStrobe

\* Without a grant no strobe passes; a granted one is the first at its port.
LEMMA StrobedGrant ==
  ASSUME IInv, Clock, state = "S_IDLE", NEW r
  PROVE  /\ Strobed(r, Request) => /\ FirstStrobe(r, Request)
                                   /\ keeper'.state = "01" /\ keeper'.sel = {r}
         /\ keeper'.state /= "11"
         /\ keeper'.state = "01" /\ r \in keeper'.sel => Strobed(r, Request)
<1>1. keeper' = [state |-> IF Request.stb THEN "01" ELSE "00",
                 lock |-> Request.lock,
                 sel |-> Gateway!port_sel(Request.addr), cnt |-> 0]
  BY Starting
<1>2. Request.stb => Request.first
  BY Granting
<1>3. Strobed(r, Request) <=> Request.stb /\ r \in Gateway!port_sel(Request.addr)
  BY DEF Strobed, Gateway!PortStb
<1>4. QED BY <1>1, <1>2, <1>3, SelectedAlone DEF FirstStrobe

LEMMA BridgeStep ==
  ASSUME IInv, Clock
  PROVE  BridgeInv'
<1>1. Bridge!Clock(Strobed("X", Request), Request.lock, Gateway!term_o)
  BY DEF Clock
<1>2. xpending \in BOOLEAN /\ xlocked \in BOOLEAN
  BY DEF IInv, TypeOK
<1>3. CASE state = "S_IDLE"
  <2>1. ~xpending
    BY <1>3 DEF IInv, BridgeInv, IdleInv
  <2>2. xpending' = Strobed("X", Request) /\ xlocked' = (Strobed("X", Request) /\ Request.lock)
    BY <1>1, <2>1 DEF Bridge!Clock
  <2>3. keeper'.lock = Request.lock
    BY <1>3, Starting
  <2>4. keeper'.state = "01" /\ keeper'.sel = {"X"} => Strobed("X", Request)
    BY <1>3, StrobedGrant
  <2>5. Strobed("X", Request) => keeper'.state = "01" /\ keeper'.sel = {"X"}
    BY <1>3, StrobedGrant
  <2>6. keeper'.lock \in BOOLEAN /\ xlocked' \in BOOLEAN
    BY MonitorStep, TypeStep DEF TypeOK
  <2>7. QED BY <2>2, <2>3, <2>4, <2>5, <2>6 DEF BridgeInv
<1>4. CASE state /= "S_IDLE"
  <2>1. PICK p \in Port : state = Switch!Busy(p)
    BY <1>4, ActiveHost
  <2> DEFINE done == IF lock[p] THEN ~lock_i[p] ELSE Gateway!rsp_ack
  <2>2. /\ keeper'.lock = keeper.lock /\ keeper'.sel = keeper.sel
        /\ state' = "S_IDLE" <=> keeper'.state = "00"
        /\ keeper'.state = "01" => keeper.state = "01"
    BY <2>1, Monitoring
  <2>3. state' = "S_IDLE" <=> done
    BY <2>1, <1>4, Serving
  <2>4. Request.lock = lock_i[p]
    BY <2>1, Serving
  <2>5. keeper.lock = lock[p] /\ (stb_i[p] => lock[p] /\ lock_i[p])
    BY <2>1 DEF IInv, ServedInv
  <2>6. Strobed("X", Request) => stb_i[p] /\ keeper.sel = {"X"}
    BY <2>1, StrobedPort, SelectedAlone DEF IInv, ServedInv
  <2>7. CASE ~xpending
    <3>1. xpending' = Strobed("X", Request)
      BY <1>1, <2>7 DEF Bridge!Clock
    <3>2. ~(keeper.state = "01" /\ keeper.sel = {"X"})
      BY <2>7 DEF IInv, BridgeInv
    <3>3. QED BY <2>2, <2>3, <2>5, <2>6, <3>1, <3>2 DEF BridgeInv
  <2>8. CASE xpending
    <3>1. /\ xpending' <=> ~Bridge!Ended(lock_i[p], Gateway!term_o)
          /\ xlocked' = xlocked
      BY <1>1, <2>4, <2>8 DEF Bridge!Clock
    <3>2. keeper.sel = {"X"} /\ keeper.state /= "00"
      BY <2>8 DEF IInv, BridgeInv
    <3>3. CASE keeper.state = "01"
      <4>1. xlocked = keeper.lock
        BY <3>2, <3>3 DEF IInv, BridgeInv
      <4>2. Gateway!rsp_ack <=> "X" \in ack
        <5>1. Gateway!rsp_ack <=> Acknowledging /= {}
          BY <3>3, IntAck DEF Gateway!rsp_ack, Gateway!bus_err
        <5>2. \A r \in Acknowledging : r = "X" /\ r \in ack
          BY <3>2, AckWatched
        <5>3. "X" \in ack => "X" \in Acknowledging
          BY <2>8 DEF Acknowledging, Bridge!rsp_ack
        <5>4. QED BY <5>1, <5>2, <5>3
      <4>3. Bridge!Ended(lock_i[p], Gateway!term_o) <=> done
        BY <2>5, <3>3, <4>1, <4>2 DEF Bridge!Ended, Gateway!term_o, Gateway!bus_err
      <4>4. QED BY <2>2, <2>3, <3>1, <3>2, <4>1, <4>3 DEF BridgeInv
    <3>4. CASE keeper.state = "11"
      <4>1. ~xpending'
        BY <3>1, <3>4 DEF Bridge!Ended, Gateway!term_o, Gateway!bus_err
      <4>2. QED BY <4>1, <2>2, <3>4 DEF BridgeInv
    <3>5. QED BY <3>2, <3>3, <3>4 DEF IInv, TypeOK
  <2>9. QED BY <2>7, <2>8
<1>5. QED BY <1>3, <1>4

\* A host with a strobe under way waits.
LEMMA OneWaits ==
  ASSUME IInv, Clock, NEW p \in Port, Left(p) = 1, lock_i[p] => sent[p] <= 1
  PROVE  /\ ~stb_i'[p] /\ pending'[p] = 1 /\ sent'[p] = sent[p]
         /\ lock_i'[p] = lock_i[p] /\ addr_i'[p] = addr_i[p]
<1>1. PICK m \in Moves : HostMove(p, m)
  BY HostStep
<1>2. sent[p] \in Nat
  BY DEF IInv, TypeOK
<1>3. m = "wait"
  BY <1>1, <1>2 DEF HostMove, Moves, Strobes
<1>4. ~stb_i'[p] /\ pending'[p] = 1
  BY <1>1, <1>3 DEF HostMove, Strobes
<1>5. sent'[p] = sent[p] /\ lock_i'[p] = lock_i[p] /\ addr_i'[p] = addr_i[p]
  BY <1>1, <1>3 DEF HostMove, Strobes
<1>6. QED BY <1>4, <1>5

LEMMA WaitingStep ==
  ASSUME IInv, Clock, NEW p \in Port
  PROVE  WaitingInv(p)'
<1> SUFFICES ASSUME state' /= Switch!Busy(p)
             PROVE  /\ pending'[p] = Count(stb_i'[p] \/ req'[p])
                    /\ lock_i'[p] => pending'[p] = 1
                    /\ pending'[p] = 1 => sent'[p] = 1
  BY DEF WaitingInv, Count, Switch!Busy
<1>1. CASE state /= Switch!Busy(p) /\ (stb_i[p] \/ req[p])
  <2>1. Left(p) = 1 /\ sent[p] = 1 /\ req'[p]
    BY <1>1, Waiting DEF IInv, WaitingInv, Count
  <2>2. QED BY <2>1, OneWaits DEF Count
<1>2. ASSUME Left(p) = 0, ~lock_i[p], ~req'[p]
      PROVE  /\ pending'[p] = Count(stb_i'[p] \/ req'[p])
             /\ lock_i'[p] => pending'[p] = 1
             /\ pending'[p] = 1 => sent'[p] = 1
  <2>1. PICK m \in Moves : HostMove(p, m)
    BY HostStep
  <2>2. CASE m = "wait"
    <3>1. ~stb_i'[p] /\ pending'[p] = 0
      BY <1>2, <2>1, <2>2 DEF HostMove, Strobes
    <3>2. lock_i'[p] = lock_i[p]
      BY <2>1, <2>2 DEF HostMove
    <3>3. QED BY <1>2, <3>1, <3>2 DEF Count
  <2>3. CASE m \in {"single", "first"}
    <3>1. m \in Strobes /\ m /= "more"
      BY <2>3 DEF Strobes
    <3>2. stb_i'[p]
      BY <2>1, <3>1 DEF HostMove
    <3>3. pending'[p] = 1 /\ sent'[p] = 1
      BY <1>2, <2>1, <3>1 DEF HostMove
    <3>4. QED BY <3>2, <3>3 DEF Count
  <2>4. QED BY <1>2, <2>1, <2>2, <2>3 DEF HostMove, Moves, Strobes
<1>3. CASE state /= Switch!Busy(p) /\ ~(stb_i[p] \/ req[p])
  <2>1. pending[p] = 0 /\ ~lock_i[p]
    BY <1>3 DEF IInv, WaitingInv, Count
  <2>2. Left(p) = 0 /\ ~req'[p]
    BY <1>3, <2>1, Waiting
  <2>3. QED BY <1>2, <2>1, <2>2
<1>4. CASE state = Switch!Busy(p)
  <2>1. /\ IF lock[p] THEN ~lock_i[p] ELSE Gateway!rsp_ack
        /\ ~req'[p]
        /\ Switch!Ack(p) <=> Gateway!rsp_ack
    BY <1>4, Serving
  <2>2. Left(p) = 0 /\ ~lock_i[p]
    BY <1>4, <2>1 DEF IInv, ServedInv, Left, Answered
  <2>3. QED BY <1>2, <2>1, <2>2
<1>5. QED BY <1>1, <1>3, <1>4

\* The strobes that the host being served still waits for after this clock.
LEMMA LeftServed ==
  ASSUME IInv, Clock, NEW p \in Port, state = Switch!Busy(p)
  PROVE  /\ Left(p) >= Count(stb_i[p])
         /\ ~lock[p] /\ ~Gateway!rsp_ack => Left(p) = 1
<1>1. /\ stb_i[p] => pending[p] >= 1
      /\ ~lock[p] => pending[p] = 1
      /\ pending[p] \in Nat
  BY DEF IInv, TypeOK, ServedInv
<1>2. Switch!Ack(p) <=> Gateway!rsp_ack
  BY Serving
<1>3. QED BY <1>1, <1>2 DEF Left, Answered, Count

LEMMA ServedStep ==
  ASSUME IInv, Clock, NEW p \in Port
  PROVE  ServedInv(p)'
<1> SUFFICES ASSUME state' = Switch!Busy(p)
             PROVE  /\ sel_q' = p
                    /\ keeper'.lock = lock'[p]
                    /\ keeper'.sel = Gateway!port_sel(addr_i'[p])
                    /\  lock'[p] => lock_i'[p] \/ (pending'[p] = 0 /\ ~stb_i'[p])
                    /\ ~lock'[p] => ~lock_i'[p] /\ pending'[p] = 1 /\ ~stb_i'[p]
                    /\ stb_i'[p] => sent'[p] >= 2 /\ pending'[p] >= 1
  BY DEF ServedInv, Switch!Busy, Gateway!port_sel
<1>1. state' /= "S_IDLE"
  BY ActiveHost
<1>2. CASE state = "S_IDLE"
  <2>1. /\ Request.lock = lock_i[p] /\ Request.addr = addr_i[p]
        /\ sel_q' = p /\ lock'[p] = lock_i[p] /\ pending[p] = 1 /\ sent[p] = 1
    BY <1>1, <1>2, Granting, ActiveHost
  <2>2. keeper'.lock = Request.lock /\ keeper'.sel = Gateway!port_sel(Request.addr)
    BY <1>2, Starting
  <2>3. Left(p) = 1
    BY <1>2, <2>1, Waiting, ActiveHost
  <2>4. /\ ~stb_i'[p] /\ pending'[p] = 1
        /\ lock_i'[p] = lock_i[p] /\ addr_i'[p] = addr_i[p]
    BY <2>1, <2>3, OneWaits
  <2>5. QED BY <2>1, <2>2, <2>4
<1>3. CASE state /= "S_IDLE"
  <2>1. state = Switch!Busy(p) /\ state' = state
    BY <1>1, <1>3, ActiveHost, Serving
  <2>2. /\ ~(IF lock[p] THEN ~lock_i[p] ELSE Gateway!rsp_ack)
        /\ sel_q' = p /\ lock' = lock
        /\ keeper'.lock = keeper.lock /\ keeper'.sel = keeper.sel
        /\ keeper.lock = lock[p] /\ keeper.sel = Gateway!port_sel(addr_i[p])
    BY <2>1, <1>1, Serving, Monitoring DEF IInv, ServedInv
  <2>3. CASE lock[p]
    <3>1. PICK m \in Moves : HostMove(p, m)
      BY HostStep
    <3>2. lock_i[p] /\ m \notin {"single", "first"}
      BY <2>2, <2>3, <3>1 DEF HostMove
    <3>3. addr_i'[p] = addr_i[p]
      BY <3>1, <3>2 DEF HostMove
    <3>4. CASE m = "wait"
      BY <2>2, <2>3, <3>1, <3>2, <3>3, <3>4 DEF HostMove, Strobes
    <3>5. CASE m = "unlock"
      BY <2>2, <2>3, <3>1, <3>3, <3>5 DEF HostMove, Strobes
    <3>6. CASE m = "more"
      <4>1. sent[p] \in Nat /\ Left(p) \in Nat /\ Left(p) < sent[p]
        BY <3>1, <3>6, HostTypes DEF HostMove, IInv, TypeOK
      <4>2. lock_i'[p] = TRUE /\ sent'[p] = sent[p] + 1 /\ pending'[p] = Left(p) + 1
        BY <3>1, <3>6 DEF HostMove, Strobes
      <4>3. sent'[p] >= 2 /\ pending'[p] >= 1
        BY <4>1, <4>2
      <4>4. QED BY <2>2, <2>3, <3>3, <4>2, <4>3
    <3>7. QED BY <3>2, <3>4, <3>5, <3>6 DEF Moves, Strobes
  <2>4. CASE ~lock[p]
    <3>1. Left(p) = 1 /\ ~lock_i[p]
      BY <2>1, <2>2, <2>4, LeftServed DEF IInv, ServedInv
    <3>2. /\ ~stb_i'[p] /\ pending'[p] = 1
          /\ lock_i'[p] = lock_i[p] /\ addr_i'[p] = addr_i[p]
      BY <3>1, OneWaits
    <3>3. QED BY <2>2, <2>4, <3>1, <3>2
  <2>5. QED BY <2>3, <2>4
<1>4. QED BY <1>2, <1>3

\* What the devices take while port p is being served.
LEMMA TakenServed ==
  ASSUME IInv, Clock, NEW p \in Port, state = Switch!Busy(p), NEW r \in Region,
         r = "X" => xpending
  PROVE  Taken(r, Request) = inflight[r] + Count(stb_i[p] /\ r \in keeper.sel)
<1>1. ~Aborted(r, Request)
  BY DEF Aborted, Bridge!xbus_cyc_o
<1>2. QED BY <1>1, StrobedPort DEF Taken, Count

\* The strobes of a transfer that goes on, and the counter of the monitor.
LEMMA WatchOn ==
  ASSUME IInv, Clock, NEW p \in Port, state = Switch!Busy(p), state' = state,
         keeper'.state = "01", NEW r \in Region, keeper.sel = {r}
  PROVE  /\ pending'[p] = inflight'[r] + Count(r \in ack') + Count(stb_i'[p])
         /\ Timed(r) =>
              /\ keeper'.cnt <= Tmo[r]
              /\ r \in ack' => keeper'.cnt < Tmo[r]
              /\ inflight'[r] > 0 /\ r \notin ack' =>
                   /\ age'[r] <= keeper'.cnt + 1
                   /\ keeper'.cnt <= age'[r] + MaxPause \/ age'[r] >= Silence
              /\ inflight'[r] = 0 /\ r \notin ack' =>
                   /\ keeper'.cnt <= MaxPause
                   /\ ~stb_i'[p] /\ lock_i'[p] => keeper'.cnt < pause'[p]
<1>1. keeper.state = "01" /\ ~Gateway!tmo_fire
  BY Monitoring
<1>2. r = "X" => xpending
  BY <1>1 DEF IInv, BridgeInv
<1>3. r \in ack <=> Acknowledging /= {}
  <2>1. r \in ack => r \in Acknowledging
    BY <1>2 DEF Acknowledging, Bridge!rsp_ack
  <2>2. \A q \in Acknowledging : q \in ack /\ q = r
    BY AckWatched
  <2>3. QED BY <2>1, <2>2
<1>4. Gateway!rsp_ack <=> r \in ack
  BY <1>1, <1>3, IntAck DEF Gateway!rsp_ack, Gateway!bus_err
<1>5. /\ pending[p] = inflight[r] + Count(r \in ack) + Count(stb_i[p])
      /\ pending[p] \in Nat /\ inflight[r] \in Nat /\ age[r] \in Nat
      /\ Count(stb_i[p]) \in {0, 1}
  BY <1>1 DEF IInv, TypeOK, WatchInv, Count
<1>6. Left(p) = inflight[r] + Count(stb_i[p])
  <2>1. Switch!Ack(p) <=> r \in ack
    BY <1>4, Serving
  <2>2. CASE r \in ack
    <3>1. pending[p] > (IF stb_i[p] THEN 1 ELSE 0)
      BY <1>5, <2>2 DEF Count
    <3>2. QED BY <1>5, <2>1, <2>2, <3>1 DEF Left, Answered, Count
  <2>3. CASE r \notin ack
    BY <1>5, <2>1, <2>3 DEF Left, Answered, Count
  <2>4. QED BY <2>2, <2>3
<1>7. Taken(r, Request) = Left(p)
  <2>1. Count(stb_i[p] /\ r \in keeper.sel) = Count(stb_i[p])
    BY DEF Count
  <2>2. QED BY <1>2, <1>6, <2>1, TakenServed
<1>8. /\ inflight'[r] + Count(r \in ack') = Left(p)
      /\ r \in ack' => Left(p) > 0 /\ Silent(r, Request) \in Latency[r]
      /\ age'[r] = IF r \in ack' \/ Left(p) = 0 THEN 0 ELSE Silent(r, Request)
      /\ inflight'[r] \in Nat /\ age'[r] \in Nat /\ Left(p) \in Nat
  BY <1>7, DeviceStep, HostTypes DEF Answers
<1>9. PICK m \in Moves : HostMove(p, m)
  BY HostStep
<1>10. pending'[p] = Left(p) + Count(stb_i'[p])
  <2>1. stb_i'[p] = (m \in Strobes)
    BY <1>9 DEF HostMove
  <2>2. pending'[p] = IF m \in Strobes THEN Left(p) + 1 ELSE Left(p)
    BY <1>9 DEF HostMove
  <2>3. CASE m \in Strobes
    <3>1. stb_i'[p]
      BY <2>1, <2>3
    <3>2. QED BY <2>2, <2>3, <3>1 DEF Count
  <2>4. CASE m \notin Strobes
    <3>1. ~stb_i'[p]
      BY <2>1, <2>4
    <3>2. QED BY <1>8, <2>2, <2>4, <3>1 DEF Count
  <2>5. QED BY <2>3, <2>4
<1>11. ASSUME Timed(r)
       PROVE  /\ keeper'.cnt <= Tmo[r]
              /\ r \in ack' => keeper'.cnt < Tmo[r]
              /\ inflight'[r] > 0 /\ r \notin ack' =>
                   /\ age'[r] <= keeper'.cnt + 1
                   /\ keeper'.cnt <= age'[r] + MaxPause \/ age'[r] >= Silence
              /\ inflight'[r] = 0 /\ r \notin ack' =>
                   /\ keeper'.cnt <= MaxPause
                   /\ ~stb_i'[p] /\ lock_i'[p] => keeper'.cnt < pause'[p]
  <2>1. keeper.cnt < Tmo[r] /\ keeper'.cnt = IF r \in ack THEN 0 ELSE keeper.cnt + 1
    BY <1>1, <1>3, <1>11, NotYet, Monitoring
  <2>2. /\ keeper.cnt \in Nat /\ Tmo[r] \in Nat /\ MaxPause \in Nat /\ Silence \in Nat
        /\ pause[p] \in 0 .. MaxPause
    BY GatewayAssumption DEF IInv, TypeOK
  <2>3. /\ Silent(r, Request) \in Nat
        /\ Silent(r, Request) \in Latency[r] =>
             age[r] < Silence /\ Silent(r, Request) = age[r] + 1
        /\ age[r] < Silence => Silent(r, Request) = age[r] + 1
        /\ age[r] >= Silence => Silent(r, Request) = Silence
    BY StrobedPort, SilentStep
  <2>4. inflight[r] = 0 \/ r \in ack => age[r] = 0
    BY DEF IInv, AgeInv
  <2>5. /\ inflight[r] > 0 /\ r \notin ack =>
             /\ age[r] <= keeper.cnt + 1
             /\ keeper.cnt <= age[r] + MaxPause \/ age[r] >= Silence
        /\ inflight[r] = 0 /\ r \notin ack =>
             /\ keeper.cnt <= MaxPause
             /\ ~stb_i[p] /\ lock_i[p] => keeper.cnt < pause[p]
    BY <1>1, <1>11 DEF IInv, WatchInv
  <2>6. \A l \in Latency[r] : l + MaxPause < Tmo[r] \/ l > Tmo[r] + 1
    BY <1>11, TimeoutAssumption DEF Timed
  <2>7. keeper'.cnt <= Tmo[r]
    BY <2>1, <2>2
  <2>8. ASSUME r \in ack' PROVE keeper'.cnt < Tmo[r]
    <3>1. CASE r \in ack
      BY <1>11, <2>1, <2>2, <3>1 DEF Timed
    <3>2. CASE r \notin ack
      <4>1. /\ Silent(r, Request) = age[r] + 1 /\ age[r] < Silence
            /\ age[r] + 1 + MaxPause < Tmo[r] \/ age[r] + 1 > Tmo[r] + 1
        BY <1>8, <2>3, <2>6, <2>8
      <4>2. CASE inflight[r] > 0
        BY <1>5, <2>1, <2>2, <2>5, <3>2, <4>1, <4>2
      <4>3. CASE inflight[r] = 0
        BY <1>5, <2>1, <2>2, <2>4, <2>5, <3>2, <4>1, <4>3
      <4>4. QED BY <1>5, <4>2, <4>3
    <3>3. QED BY <3>1, <3>2
  <2>9. ASSUME inflight'[r] > 0, r \notin ack'
        PROVE  /\ age'[r] <= keeper'.cnt + 1
               /\ keeper'.cnt <= age'[r] + MaxPause \/ age'[r] >= Silence
    <3>1. Left(p) > 0 /\ age'[r] = Silent(r, Request)
      BY <1>8, <2>9 DEF Count
    <3>2. QED BY <1>5, <2>1, <2>2, <2>3, <2>4, <2>5, <3>1
  <2>10. ASSUME inflight'[r] = 0, r \notin ack'
         PROVE  /\ keeper'.cnt <= MaxPause
                /\ ~stb_i'[p] /\ lock_i'[p] => keeper'.cnt < pause'[p]
    <3>1. Left(p) = 0 /\ inflight[r] = 0 /\ ~stb_i[p]
      BY <1>5, <1>6, <1>8, <2>10 DEF Count
    <3>2. r \notin ack => lock_i[p] /\ keeper.cnt < pause[p]
      <4>1. ~(IF lock[p] THEN ~lock_i[p] ELSE Gateway!rsp_ack)
        BY ActiveHost, Serving
      <4>2. ~lock[p] => pending[p] = 1
        BY DEF IInv, ServedInv
      <4>3. QED BY <1>5, <2>5, <3>1, <4>1, <4>2 DEF Count
    <3>3. keeper'.cnt <= MaxPause
      BY <2>1, <2>2, <3>2
    <3>4. ASSUME ~stb_i'[p], lock_i'[p] PROVE keeper'.cnt < pause'[p]
      <4>1. m = "wait" /\ lock_i[p]
        BY <1>9, <3>4 DEF HostMove, Moves, Strobes
      <4>2. pause'[p] = pause[p] + 1
        BY <1>9, <3>1, <4>1 DEF HostMove
      <4>3. QED BY <2>1, <2>2, <3>2, <4>2
    <3>5. QED BY <3>3, <3>4
  <2>11. QED BY <2>7, <2>8, <2>9, <2>10
<1>12. QED BY <1>8, <1>10, <1>11

LEMMA WatchStep ==
  ASSUME IInv, Clock, NEW p \in Port
  PROVE  WatchInv(p)'
<1> SUFFICES ASSUME state' = Switch!Busy(p), keeper'.state = "01",
                    NEW r \in keeper'.sel
             PROVE  /\ pending'[p] = inflight'[r] + Count(r \in ack') + Count(stb_i'[p])
                    /\ Timed(r) =>
                         /\ keeper'.cnt <= Tmo[r]
                         /\ r \in ack' => keeper'.cnt < Tmo[r]
                         /\ inflight'[r] > 0 /\ r \notin ack' =>
                              /\ age'[r] <= keeper'.cnt + 1
                              /\ \/ keeper'.cnt <= age'[r] + MaxPause
                                 \/ age'[r] >= Silence
                         /\ inflight'[r] = 0 /\ r \notin ack' =>
                              /\ keeper'.cnt <= MaxPause
                              /\ ~stb_i'[p] /\ lock_i'[p] => keeper'.cnt < pause'[p]
  BY DEF WatchInv, Switch!Busy, Count, Timed
<1>1. state' /= "S_IDLE"
  BY ActiveHost
<1>2. CASE state = "S_IDLE"
  <2>1. /\ Request.stb /\ Request.addr = addr_i[p]
        /\ pending[p] = 1 /\ sent[p] = 1
    BY <1>1, <1>2, Granting, ActiveHost
  <2>2. keeper'.cnt = 0 /\ keeper'.sel = Gateway!port_sel(Request.addr)
    BY <1>2, Starting
  <2>3. r \in Region
    BY <2>2, SelectedAlone
  <2>4. FirstStrobe(r, Request)
    BY <1>2, StrobedGrant
  <2>5. Taken(r, Request) = 1 /\ Silent(r, Request) = 1
    BY <2>4 DEF Taken, Silent
  <2>6. /\ inflight'[r] + Count(r \in ack') = 1
        /\ age'[r] = IF r \in ack' THEN 0 ELSE 1
        /\ inflight'[r] \in Nat
    BY <2>3, <2>5, DeviceStep
  <2>7. Left(p) = 1
    BY <1>2, <2>1, Waiting, ActiveHost
  <2>8. ~stb_i'[p] /\ pending'[p] = 1
    BY <2>1, <2>7, OneWaits
  <2>9. pending'[p] = inflight'[r] + Count(r \in ack') + Count(stb_i'[p])
    BY <2>6, <2>8 DEF Count
  <2>10. Tmo[r] \in Nat /\ MaxPause \in Nat /\ Silence \in Nat
    BY <2>3, GatewayAssumption
  <2>11. inflight'[r] = 0 => r \in ack'
    BY <2>6 DEF Count
  <2>12. QED BY <2>2, <2>6, <2>9, <2>10, <2>11 DEF Timed
<1>3. CASE state /= "S_IDLE"
  <2>1. state = Switch!Busy(p) /\ state' = state
    BY <1>1, <1>3, ActiveHost, Serving
  <2>2. keeper'.sel = keeper.sel
    BY <2>1, Monitoring
  <2>3. keeper.sel = {r} /\ r \in Region
    BY <2>1, <2>2, SelectedAlone DEF IInv, ServedInv
  <2>4. QED BY <2>1, <2>3, WatchOn
<1>4. QED BY <1>2, <1>3

LEMMA AgeStep ==
  ASSUME IInv, Clock, NEW r \in Region
  PROVE  AgeInv(r)'
<1>1. /\ inflight'[r] + Count(r \in ack') = Taken(r, Request)
      /\ age'[r] = IF r \in ack' \/ Taken(r, Request) = 0
                   THEN 0 ELSE Silent(r, Request)
      /\ inflight'[r] \in Nat
  BY DeviceStep
<1>2. QED BY <1>1 DEF AgeInv, Count

LEMMA PortStep ==
  ASSUME IInv, Clock, NEW r \in Internal
  PROVE  DeviceInv(r)'
<1>0. r \in Region /\ r /= "X"
  BY GatewayAssumption DEF Region
<1>1. /\ r \in ack' => Answers(r, Request)
      /\ inflight'[r] + Count(r \in ack') = Taken(r, Request)
      /\ age'[r] = IF r \in ack' \/ Taken(r, Request) = 0
                   THEN 0 ELSE Silent(r, Request)
      /\ inflight'[r] \in Nat /\ inflight[r] \in Nat
  BY <1>0, DeviceStep DEF IInv, TypeOK
\* A port with nothing to answer, or nothing it will answer, stays so.
<1>2. ASSUME ~FirstStrobe(r, Request), Taken(r, Request) = 0 \/ Exhausted(r),
             keeper'.state = "11" /\ keeper'.sel = {r} => Taken(r, Request) > 0
      PROVE  DeviceInv(r)'
  <2>1. r \notin ack'
    BY <1>0, <1>1, <1>2, ExhaustedStep DEF Answers
  <2>2. inflight'[r] = Taken(r, Request)
    BY <1>1, <2>1 DEF Count
  <2>3. Taken(r, Request) = 0 \/ \A l \in Latency[r] : l <= age'[r]
    BY <1>0, <1>1, <1>2, <2>1, ExhaustedStep
  <2>4. QED BY <1>2, <2>1, <2>2, <2>3 DEF DeviceInv, Exhausted
<1>3. CASE state = "S_IDLE" /\ Strobed(r, Request)
  <2>1. keeper'.state = "01" /\ keeper'.sel = {r}
    BY <1>3, StrobedGrant
  <2>2. QED BY <2>1 DEF DeviceInv, Watched
<1>4. CASE state = "S_IDLE" /\ ~Strobed(r, Request)
  <2>1. ~FirstStrobe(r, Request) /\ Taken(r, Request) = inflight[r]
    BY <1>0, <1>1, <1>4 DEF FirstStrobe, Taken, Aborted
  <2>2. keeper.state = "00" /\ keeper'.state /= "11"
    BY <1>4, StrobedGrant DEF IInv, IdleInv
  <2>3. inflight[r] = 0 \/ Exhausted(r)
    BY <2>2 DEF IInv, DeviceInv, Watched
  <2>4. QED BY <1>2, <2>1, <2>2, <2>3
<1>5. CASE state /= "S_IDLE"
  <2>1. PICK p \in Port : state = Switch!Busy(p)
    BY <1>5, ActiveHost
  <2>2. /\ ~FirstStrobe(r, Request)
        /\ Taken(r, Request) = inflight[r] + Count(stb_i[p] /\ r \in keeper.sel)
    BY <1>0, <2>1, StrobedPort, TakenServed
  <2>3. /\ keeper'.sel = keeper.sel /\ keeper.state /= "00"
        /\ keeper'.state = "01" => keeper.state = "01"
        /\ keeper'.state = "11" => keeper.state = "11" \/ Gateway!tmo_fire
    BY <1>5, <2>1, Monitoring DEF IInv, IdleInv
  <2>4. r \in keeper.sel <=> keeper.sel = {r}
    BY <2>1, SelectedAlone DEF IInv, ServedInv
  <2>5. CASE ~Watched(r)
    <3>1. inflight[r] = 0 \/ Exhausted(r)
      BY <2>5 DEF IInv, DeviceInv
    <3>2. CASE keeper.sel = {r}
      <4>1. keeper.state = "11"
        BY <2>3, <2>5, <3>2 DEF Watched, IInv, TypeOK
      <4>2. inflight[r] > 0
        BY <3>2, <4>1 DEF IInv, DeviceInv
      <4>3. Taken(r, Request) > 0
        BY <1>1, <2>2, <4>2 DEF Count
      <4>4. QED BY <1>1, <1>2, <2>2, <3>1, <4>2, <4>3
    <3>3. CASE keeper.sel /= {r}
      <4>1. Taken(r, Request) = inflight[r]
        BY <1>1, <2>2, <2>4, <3>3 DEF Count
      <4>2. QED BY <1>2, <2>2, <2>3, <3>1, <3>3, <4>1
    <3>4. QED BY <3>2, <3>3
  <2>6. CASE Watched(r) /\ keeper'.state = "01"
    BY <2>3, <2>6 DEF DeviceInv, Watched
  <2>7. CASE Watched(r) /\ keeper'.state = "11"
    <3>1. inflight[r] > 0 /\ Exhausted(r)
      BY <1>0, <2>1, <2>3, <2>7, TimeoutExhausts DEF Watched
    <3>2. Taken(r, Request) > 0
      BY <1>1, <2>2, <3>1 DEF Count
    <3>3. QED BY <1>2, <2>2, <3>1, <3>2
  <2>8. CASE Watched(r) /\ keeper'.state = "00"
    <3>1. state' = "S_IDLE" /\ keeper.state = "01" /\ keeper.sel = {r}
      BY <2>1, <2>8, Monitoring DEF Watched
    <3>2. IF lock[p] THEN ~lock_i[p] ELSE Gateway!rsp_ack
      BY <1>5, <2>1, <3>1, Serving
    <3>3. pending[p] = inflight[r] + Count(r \in ack) + Count(stb_i[p])
      BY <2>1, <3>1 DEF IInv, WatchInv
    <3>4. inflight[r] = 0 /\ ~stb_i[p]
      <4>1. CASE lock[p]
        BY <1>1, <2>1, <3>2, <3>3, <4>1 DEF IInv, ServedInv, Count
      <4>2. CASE ~lock[p]
        <5>1. pending[p] = 1 /\ ~stb_i[p]
          BY <2>1, <4>2 DEF IInv, ServedInv
        <5>2. Acknowledging /= {}
          BY <3>1, <3>2, <4>2, IntAck DEF Gateway!rsp_ack, Gateway!bus_err
        <5>3. r \in ack
          BY <3>1, <5>2, AckWatched
        <5>4. QED BY <1>1, <3>3, <5>1, <5>3 DEF Count
      <4>3. QED BY <4>1, <4>2
    <3>5. Taken(r, Request) = 0
      BY <2>2, <3>4 DEF Count
    <3>6. QED BY <1>2, <2>2, <2>8, <3>5
  <2>9. QED BY <2>5, <2>6, <2>7, <2>8, MonitorStep
<1>6. QED BY <1>3, <1>4, <1>5

LEMMA InitInv == Init => IInv
<1> SUFFICES ASSUME Init PROVE IInv
  OBVIOUS
<1>1. /\ state = "S_IDLE" /\ sel_q = "a"
      /\ lock = [p \in Port |-> FALSE] /\ req = [p \in Port |-> FALSE]
  BY DEF Init, Switch!Init, Switch!Port, Port
<1>2. /\ keeper = [state |-> "00", lock |-> FALSE, sel |-> {}, cnt |-> 0]
      /\ xpending = FALSE /\ xlocked = FALSE /\ ack = {}
      /\ inflight = [r \in Region |-> 0] /\ age = [r \in Region |-> 0]
  BY DEF Init, Gateway!Init, Bridge!Init
<1>3. /\ stb_i = [p \in Port |-> FALSE] /\ lock_i = [p \in Port |-> FALSE]
      /\ addr_i = [p \in Port |-> "void"] /\ sent = [p \in Port |-> 0]
      /\ pending = [p \in Port |-> 0] /\ pause = [p \in Port |-> 0]
  BY DEF Init
<1>4. TypeOK
  <2>1. /\ state \in Switch!States /\ sel_q \in Port
        /\ lock \in [Port -> BOOLEAN] /\ req \in [Port -> BOOLEAN]
    BY <1>1 DEF Switch!States, Port
  <2>2. /\ keeper \in [state : {"00", "01", "11"}, lock : BOOLEAN,
                       sel : SUBSET Region, cnt : Nat]
        /\ xpending \in BOOLEAN /\ xlocked \in BOOLEAN /\ ack \in SUBSET Region
        /\ inflight \in [Region -> Nat] /\ age \in [Region -> Nat]
    BY <1>2
  <2>3. stb_i \in [Port -> BOOLEAN] /\ lock_i \in [Port -> BOOLEAN]
    BY <1>3
  <2>4. /\ addr_i \in [Port -> Address] /\ sent \in [Port -> Nat]
        /\ pending \in [Port -> Nat] /\ pause \in [Port -> 0 .. MaxPause]
    BY <1>3, GatewayAssumption DEF Address
  <2>5. QED BY <2>1, <2>2, <2>3, <2>4 DEF TypeOK
<1>5. \A p \in Port : WaitingInv(p) /\ ServedInv(p) /\ WatchInv(p)
  BY <1>1, <1>2, <1>3 DEF WaitingInv, ServedInv, WatchInv, Count, Switch!Busy
<1>6. IdleInv /\ BridgeInv /\ \A r \in Region : AgeInv(r)
  BY <1>1, <1>2 DEF IdleInv, BridgeInv, AgeInv
<1>7. \A r \in Internal : DeviceInv(r)
  BY <1>2 DEF DeviceInv, Region
<1>8. QED BY <1>4, <1>5, <1>6, <1>7 DEF IInv

LEMMA StepInv == IInv /\ [Next]_vars => IInv'
<1>1. ASSUME IInv, Clock PROVE IInv'
  BY <1>1, TypeStep, MonitorStep, BridgeStep, WaitingStep, ServedStep, WatchStep,
     AgeStep, PortStep DEF IInv
<1>2. ASSUME IInv, UNCHANGED vars PROVE IInv'
  BY <1>2 DEF vars, switch, bridge, hosts, devices, IInv, TypeOK, IdleInv,
     BridgeInv, WaitingInv, ServedInv, WatchInv, AgeInv, DeviceInv, Watched,
     Exhausted, Gateway!port_sel
<1>3. QED BY <1>1, <1>2 DEF Next

LEMMA SpecInv == Spec => []IInv
BY InitInv, StepInv, PTL DEF Spec

-----------------------------------------------------------------------------
\* Switch, monitor, bridge and hosts keep to their registers' ranges, whatever
\* the lengths of the transfers.
THEOREM GatewayTypeOK == Spec => []TypeOK
<1>1. IInv => TypeOK
  BY DEF IInv
<1>2. QED BY <1>1, SpecInv, PTL

\* The keeper knows every access in progress, no external cycle stays open behind
\* its back, and error response and late answer never make two answers.
THEOREM GatewayWatches == Spec => []WatchedAndAnsweredOnce
<1>1. ASSUME IInv, NEW p \in Port, Accessing(p)
      PROVE  keeper.state /= "00" /\ keeper.sel = Gateway!port_sel(addr_i[p])
  BY <1>1, ActiveHost DEF Accessing, IInv, IdleInv, ServedInv
<1>2. ASSUME IInv, NEW p \in Port, Switch!Ack(p)
      PROVE  \/ Answered(p) /\ state = Switch!Busy(p)
             \/ keeper.state = "11" /\ keeper.lock
  <2>1. Gateway!rsp_ack /\ sel_q = p
    BY <1>2 DEF Switch!Ack
  <2>2. keeper.state = "11" \/ Acknowledging /= {}
    BY <1>2, <2>1, IntAck DEF Gateway!rsp_ack, Gateway!bus_err
  <2>3. keeper.state /= "00"
    BY <1>2, <2>2, AckWatched
  <2>4. state = Switch!Busy(p)
    BY <1>2, <2>1, <2>3, ActiveHost DEF IInv, IdleInv, ServedInv
  <2>5. CASE keeper.state = "11"
    <3>1. CASE keeper.lock
      BY <2>5, <3>1
    <3>2. CASE ~keeper.lock
      BY <1>2, <2>4, <3>2 DEF Answered, IInv, ServedInv
    <3>3. QED BY <3>1, <3>2
  <2>6. CASE keeper.state = "01"
    <3>1. PICK r \in Acknowledging : TRUE
      BY <2>2, <2>6
    <3>2. r \in ack /\ keeper.sel = {r} /\ r \in Region
      BY <1>2, <3>1, AckWatched
    <3>3. pending[p] = inflight[r] + Count(r \in ack) + Count(stb_i[p])
      BY <1>2, <2>4, <2>6, <3>2 DEF IInv, WatchInv
    <3>4. inflight[r] \in Nat
      BY <1>2, <3>2 DEF IInv, TypeOK
    <3>5. Answered(p)
      BY <1>2, <3>2, <3>3, <3>4 DEF Answered, Count
    <3>6. QED BY <2>4, <3>5
  <2>7. QED BY <1>2, <2>3, <2>5, <2>6 DEF IInv, TypeOK
<1>3. IInv => WatchedAndAnsweredOnce
  BY <1>1, <1>2 DEF WatchedAndAnsweredOnce, IInv, BridgeInv
<1>4. QED BY <1>3, SpecInv, PTL

\* A time-out never strikes a host that pauses, and never in the clock of an
\* answer: it is the silence of the device that was asked.
THEOREM GatewayTimeoutIsSilence == Spec => TimeoutIsSilence
<1>1. ASSUME IInv, Clock, keeper.state = "01", keeper'.state = "11"
      PROVE  Acknowledging = {} /\ \E p \in Port : Accessing(p)
  <2>1. PICK p \in Port : state = Switch!Busy(p)
    BY <1>1, ActiveHost DEF IInv, IdleInv
  <2>2. Gateway!tmo_fire
    BY <1>1, <2>1, Monitoring
  <2>3. Acknowledging = {} /\ pending[p] > Count(stb_i[p])
    BY <1>1, <2>1, <2>2, TimeoutStrikes
  <2>4. QED BY <2>1, <2>3 DEF Accessing, Count
<1>2. IInv /\ [Next]_vars =>
        [keeper.state = "01" /\ keeper'.state = "11" =>
           Acknowledging = {} /\ \E p \in Port : Accessing(p)]_vars
  BY <1>1 DEF Next
<1>3. QED BY <1>2, SpecInv, PTL DEF Spec, TimeoutIsSilence

\* The clocks until the host is answered at the latest: the counter has to reach
\* the time-out, and the error response takes one clock more.
Remaining(r) == IF keeper.state = "11" THEN 0 ELSE Tmo[r] + 1 - keeper.cnt

\* The safety core of EveryAccessEnds, for every time-out: on a port with one, an
\* access is answered in this clock or comes closer to its answer, however its
\* device behaves.
AnsweredInTime ==
  [][\A p \in Port, r \in keeper.sel :
       Accessing(p) /\ Timed(r) =>
         /\ Remaining(r) \in 0 .. Tmo[r] + 1
         /\ \/ Switch!Ack(p)
            \/ Accessing(p)' /\ keeper'.sel = keeper.sel
               /\ Remaining(r)' < Remaining(r)]_vars

\* An access that is not answered in this clock goes on.
LEMMA GoesOn ==
  ASSUME IInv, Clock, NEW p \in Port, Accessing(p), ~Switch!Ack(p)
  PROVE  /\ Accessing(p)' /\ keeper'.sel = keeper.sel /\ Acknowledging = {}
         /\ keeper.state = "01" /\ keeper'.state /= "00"
<1>1. state = Switch!Busy(p) /\ pending[p] > Count(stb_i[p])
  BY DEF Accessing, Count
<1>2. ~Gateway!rsp_ack /\ sel_q' = p
  BY <1>1, Serving
<1>3. keeper.state = "01" /\ Acknowledging = {}
  <2>1. keeper.state /= "00" /\ keeper.state \in {"00", "01", "11"}
    BY <1>1, ActiveHost DEF IInv, IdleInv, TypeOK
  <2>2. QED BY <1>2, <2>1, IntAck DEF Gateway!rsp_ack, Gateway!bus_err
<1>4. pending[p] \in Nat /\ Left(p) = pending[p] /\ pending[p] > 0
  BY <1>1 DEF IInv, TypeOK, Left, Answered, Count
<1>5. ~(IF lock[p] THEN ~lock_i[p] ELSE Gateway!rsp_ack)
  BY <1>1, <1>2, <1>4 DEF IInv, ServedInv
<1>6. state' = Switch!Busy(p)
  BY <1>1, <1>5, Serving
<1>7. PICK m \in Moves : HostMove(p, m)
  BY HostStep
<1>8. pending'[p] > (IF stb_i'[p] THEN 1 ELSE 0)
  <2>1. /\ stb_i'[p] = (m \in Strobes)
        /\ pending'[p] = IF m \in Strobes THEN Left(p) + 1 ELSE Left(p)
    BY <1>7 DEF HostMove
  <2>2. CASE m \in Strobes
    BY <1>4, <2>1, <2>2
  <2>3. CASE m \notin Strobes
    BY <1>4, <2>1, <2>3
  <2>4. QED BY <2>2, <2>3
<1>9. keeper'.sel = keeper.sel /\ keeper'.state /= "00"
  BY <1>1, <1>6, Monitoring, ActiveHost
<1>10. QED BY <1>3, <1>6, <1>8, <1>9 DEF Accessing, Switch!Busy

\* No access lasts longer than its time-out: Remaining counts down to the answer.
THEOREM GatewayAnswersInTime == Spec => AnsweredInTime
<1>1. ASSUME IInv, Clock, NEW p \in Port, NEW r \in keeper.sel, Accessing(p), Timed(r)
      PROVE  /\ Remaining(r) \in 0 .. Tmo[r] + 1
             /\ \/ Switch!Ack(p)
                \/ Accessing(p)' /\ keeper'.sel = keeper.sel
                   /\ Remaining(r)' < Remaining(r)
  <2>1. state = Switch!Busy(p)
    BY <1>1 DEF Accessing
  <2>2. keeper.sel = {r} /\ r \in Region
    BY <1>1, <2>1, SelectedAlone DEF IInv, ServedInv
  <2>3. /\ Tmo[r] \in Nat /\ keeper.cnt \in Nat
        /\ keeper.state = "01" \/ keeper.state = "11"
        /\ keeper.state = "01" => keeper.cnt <= Tmo[r]
    BY <1>1, <2>1, <2>2, GatewayAssumption, ActiveHost
       DEF IInv, TypeOK, IdleInv, WatchInv
  <2>4. Remaining(r) \in 0 .. Tmo[r] + 1
    BY <2>3 DEF Remaining
  <2>5. ASSUME ~Switch!Ack(p)
        PROVE  /\ Accessing(p)' /\ keeper'.sel = keeper.sel
               /\ Remaining(r)' < Remaining(r)
    <3>1. /\ Accessing(p)' /\ keeper'.sel = keeper.sel /\ Acknowledging = {}
          /\ keeper.state = "01" /\ keeper'.state /= "00"
      BY <1>1, <2>5, GoesOn
    <3>2. CASE Gateway!tmo_fire
      <4>1. keeper'.state = "11"
        BY <1>1, <2>1, <3>1, <3>2, Monitoring
      <4>2. QED BY <2>3, <3>1, <4>1 DEF Remaining
    <3>3. CASE ~Gateway!tmo_fire
      <4>1. keeper'.state = "01"
        BY <1>1, <2>1, <3>1, <3>3, Monitoring
      <4>2. keeper'.cnt = keeper.cnt + 1 /\ keeper.cnt < Tmo[r]
        BY <1>1, <2>1, <2>2, <3>1, <3>3, Monitoring, NotYet
      <4>3. QED BY <2>3, <3>1, <4>1, <4>2 DEF Remaining
    <3>4. QED BY <3>1, <3>2, <3>3
  <2>6. QED BY <2>4, <2>5
<1>2. IInv /\ [Next]_vars =>
        [\A p \in Port, r \in keeper.sel :
           Accessing(p) /\ Timed(r) =>
             /\ Remaining(r) \in 0 .. Tmo[r] + 1
             /\ \/ Switch!Ack(p)
                \/ Accessing(p)' /\ keeper'.sel = keeper.sel
                   /\ Remaining(r)' < Remaining(r)]_vars
  BY <1>1 DEF Next
<1>3. QED BY <1>2, SpecInv, PTL DEF Spec, AnsweredInTime

=============================================================================
