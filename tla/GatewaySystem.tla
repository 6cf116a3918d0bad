--------------------------- MODULE GatewaySystem ----------------------------
(***************************************************************************)
(* The gateway in its place: a bus switch with two hosts in front of it,   *)
(* devices and the external bus bridge behind it.  The atomic-memory       *)
(* controllers in between pass requests and answers through combinationally*)
(* and are left out.                                                       *)
(*                                                                         *)
(* A device may never answer.  When it answers, its latency - counted from *)
(* the strobe, or from its previous answer in a burst - is one of Latency. *)
(* An external device takes a new strobe in place of an old one and        *)
(* forgets an access when the cycle signal falls.                          *)
(***************************************************************************)
EXTENDS Naturals

CONSTANTS ROUND_ROBIN_EN,
          Internal, Enabled, Tmo,  \* of the gateway
          Latency,   \* per port: the latencies its device may answer with
          Silence,   \* a number of clocks longer than all of them
          MaxBurst,  \* strobes in one locked transfer
          MaxPause   \* idle clocks of a host within a locked transfer

Region == Internal \cup {"X"}

ASSUME GatewayAssumption ==
  /\ Internal \subseteq {"A", "B", "C", "D"} /\ Enabled \subseteq Region
  /\ Tmo \in [Region -> Nat] /\ Latency \in [Region -> SUBSET Nat]
  /\ Silence \in Nat /\ MaxBurst \in Nat /\ MaxPause \in Nat
  /\ \A r \in Region : \A l \in Latency[r] : l < Silence

\* A time-out is longer than the pauses of a host and the latencies of internal
\* devices together.  An external device may answer later than that, but not in
\* the clocks in which the time-out strikes: an answer in just that clock frees
\* the bus while the gateway goes on to fail the access.
ASSUME TimeoutAssumption ==
  \A r \in Region : Tmo[r] > 0 =>
    /\ MaxPause < Tmo[r]
    /\ \A l \in Latency[r] :
         l + MaxPause < Tmo[r] \/ (r = "X" /\ l > Tmo[r] + 1)

VARIABLES state, sel_q, lock, req,        \* the bus switch
          keeper,                         \* the gateway
          xpending, xlocked,              \* the external bus bridge
          stb_i, lock_i, addr_i,          \* the requests of the hosts
          sent,      \* per host: strobes of the current transfer
          pending,   \* per host: strobes of it not answered yet
          pause,     \* per host: idle clocks since its last answer
          ack,       \* the devices that answer in this clock
          inflight,  \* per port: strobes at the device, not answered yet
          age        \* per port: clocks since the strobe or last answer

switch  == << state, sel_q, lock, req >>
bridge  == << xpending, xlocked >>
hosts   == << stb_i, lock_i, addr_i, sent, pending, pause >>
devices == << ack, inflight, age >>
vars    == << switch, keeper, bridge, hosts, devices >>

Bridge  == INSTANCE Xbus WITH pending <- xpending, locked <- xlocked,
                              xbus_ack_i <- "X" \in ack
\* The bridge hides the answers of the external device it does not expect.
Acknowledging == IF Bridge!rsp_ack THEN ack \cup {"X"} ELSE ack \ {"X"}
Gateway == INSTANCE BusGateway WITH ack_i <- Acknowledging
Switch  == INSTANCE BusSwitch WITH ack_i <- Gateway!rsp_ack
Port    == {"a", "b"}
Pair(a, b) == [p \in Port |-> IF p = "a" THEN a ELSE b]
Address == Internal \cup {"void"}

Init == /\ Switch!Init /\ Gateway!Init /\ Bridge!Init
        /\ stb_i = [p \in Port |-> FALSE]
        /\ lock_i = [p \in Port |-> FALSE]
        /\ addr_i = [p \in Port |-> "void"]
        /\ sent = [p \in Port |-> 0]
        /\ pending = [p \in Port |-> 0]
        /\ pause = [p \in Port |-> 0]
        /\ ack = {}
        /\ inflight = [r \in Region |-> 0]
        /\ age = [r \in Region |-> 0]

-----------------------------------------------------------------------------
\* The hosts.  An acknowledge in the clock of a strobe is no answer to it.
Answered(p) == Switch!Ack(p) /\ pending[p] > (IF stb_i[p] THEN 1 ELSE 0)
Left(p)     == pending[p] - (IF Answered(p) THEN 1 ELSE 0)

\* What a host may do in the next clock: wait, strobe a single access, strobe
\* the first or one more access of a locked transfer, or release the lock.
Strobes == {"single", "first", "more"}
Moves   == Strobes \cup {"wait", "unlock"}

Legal(p, left) ==
  {m \in Moves : /\ m \in {"single", "first"} => ~lock_i[p] /\ left = 0
                 /\ m = "more" => lock_i[p] /\ left < sent[p] /\ sent[p] < MaxBurst
                 /\ m = "unlock" => lock_i[p] /\ left = 0
                 /\ m = "wait" => ~lock_i[p] \/ left > 0 \/ pause[p] < MaxPause}

\* The address is chosen with the first strobe and stable during a transfer.
MayAddress(p, m) == IF m \in {"single", "first"} THEN Address ELSE {addr_i[p]}

Hosts(move, addr, left) ==
  /\ stb_i'   = [p \in Port |-> move[p] \in Strobes]
  /\ lock_i'  = [p \in Port |-> IF move[p] = "wait" THEN lock_i[p]
                                ELSE move[p] \in {"first", "more"}]
  /\ addr_i'  = addr
  /\ sent'    = [p \in Port |->
                   IF move[p] = "more" THEN sent[p] + 1
                   ELSE IF move[p] \in Strobes THEN 1 ELSE sent[p]]
  /\ pending' = [p \in Port |->
                   IF move[p] \in Strobes THEN left[p] + 1 ELSE left[p]]
  /\ pause'   = [p \in Port |->
                   IF move[p] = "wait" /\ lock_i[p] /\ left[p] = 0
                   THEN pause[p] + 1 ELSE 0]

-----------------------------------------------------------------------------
\* The request that passes the switch, with a note whether it is the first of
\* its transfer, and whether it reaches port r.
Request == LET host == Switch!sel
           IN  [stb |-> Switch!stb, lock |-> lock_i[host], addr |-> addr_i[host],
                first |-> sent[host] = 1]
Strobed(r, request) == Gateway!PortStb(r, request)
FirstStrobe(r, request) == Strobed(r, request) /\ request.first

\* Strobes at device r after this clock, and the clocks it has been silent.
\* One that has missed all its latencies is silent until the next transfer.
Aborted(r, request) == r = "X" /\ ~Bridge!xbus_cyc_o(Strobed("X", request))
Taken(r, request) ==
  IF FirstStrobe(r, request) THEN 1
  ELSE IF Aborted(r, request) THEN 0
  ELSE inflight[r] + (IF Strobed(r, request) THEN 1 ELSE 0)
Silent(r, request) ==
  IF FirstStrobe(r, request) THEN 1
  ELSE IF age[r] < Silence THEN age[r] + 1 ELSE Silence
Answers(r, request) ==
  Taken(r, request) > 0 /\ Silent(r, request) \in Latency[r]

Devices(who, request) ==
  /\ ack' = who
  /\ inflight' = [r \in Region |->
                    Taken(r, request) - (IF r \in who THEN 1 ELSE 0)]
  /\ age' = [r \in Region |-> IF r \in who \/ Taken(r, request) = 0
                              THEN 0 ELSE Silent(r, request)]

\* One clock edge: everybody moves.
Clock ==
  LET request == Request
      left    == Pair(Left("a"), Left("b"))
  IN
  /\ Switch!Clock
  /\ Gateway!Clock(request)
  /\ Bridge!Clock(Strobed("X", request), request.lock, Gateway!term_o)
  /\ \E who \in SUBSET {r \in Region : Answers(r, request)} :
       Devices(who, request)
  /\ \E a \in Legal("a", left["a"]), b \in Legal("b", left["b"]) :
     \E addr_a \in MayAddress("a", a), addr_b \in MayAddress("b", b) :
       Hosts(Pair(a, b), Pair(addr_a, addr_b), left)

Next == Clock

\* The clock runs.  Nobody has to answer, and the hosts end their locked
\* transfers because MaxBurst and MaxPause bound them.
Spec     == Init /\ [][Next]_vars
FairSpec == Spec /\ WF_vars(Next)

-----------------------------------------------------------------------------
\* Each access is watched until its end and answered once.  The monitor knows
\* each access in progress with the port it went to, and no cycle stays open on
\* the external bus without it.  Error response and late answer never add up to
\* a second answer: a host is acknowledged only for a strobe of its own that has
\* passed the switch, or while the monitor fails the rest of a locked transfer.
Accessing(p) == state = Switch!Busy(p) /\ pending[p] > (IF stb_i[p] THEN 1 ELSE 0)

WatchedAndAnsweredOnce ==
  /\ \A p \in Port : Accessing(p) =>
        keeper.state /= "00" /\ keeper.sel = Gateway!port_sel(addr_i[p])
  /\ xpending => keeper.state /= "00" /\ keeper.sel = {"X"}
  /\ \A p \in Port : Switch!Ack(p) =>
        \/ Answered(p) /\ state = Switch!Busy(p)
        \/ keeper.state = "11" /\ keeper.lock

\* A time-out is the silence of a device: it never strikes a host that pauses
\* in a locked transfer, and never in the clock of an answer.
TimeoutIsSilence ==
  [][keeper.state = "01" /\ keeper'.state = "11" =>
       Acknowledging = {} /\ \E p \in Port : Accessing(p)]_vars

\* Every access ends (neorv32_bus.vhd, gateway header: "ensures that ALL
\* accesses are completed"), though no device ever has to answer.
EveryAccessEnds == \A p \in Port : pending[p] > 0 ~> Switch!Ack(p)

=============================================================================
