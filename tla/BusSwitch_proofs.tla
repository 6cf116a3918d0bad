-------------------------- MODULE BusSwitch_proofs --------------------------
(***************************************************************************)
(* Proofs about the bus switch for both arbitration schemes and locked     *)
(* transfers of any length: answers reach their owner, no strobe is lost   *)
(* and locked transfers are not interleaved.                               *)
(***************************************************************************)
EXTENDS BusSwitchSystem, TLAPS

\* Nothing is under way while the arbiter is idle.
IdleInv == state = "S_IDLE" => ~ack_i /\ \A p \in Port : inflight[p] = 0

\* While port q is being served, only its strobes are under way.  The lock
\* the arbiter remembers is the lock the host shows, until its release.
ServedInv(q) ==
  state = Switch!Busy(q) =>
    /\ sel_q = q
    /\ inflight[Switch!Other(q)] = 0
    /\ ack_i => answers = q
    /\  lock[q] => lock_i[q] \/ (pending[q] = 0 /\ ~stb_i[q])
    /\ ~lock[q] => ~lock_i[q] /\ pending[q] = 1 /\ ~stb_i[q]

\* A port that is not served has one strobe waiting at most.
WaitingInv(p) ==
  state /= Switch!Busy(p) => /\ pending[p] <= 1
                             /\ lock_i[p] => pending[p] = 1 /\ sent[p] = 1

IInv == /\ TypeOK
        /\ NoStrobeLost
        /\ IdleInv
        /\ \A p \in Port : ServedInv(p) /\ WaitingInv(p)

USE SwitchAssumption DEF Port, Switch!Port

LEMMA InitInv == Init => IInv
<1> SUFFICES ASSUME Init PROVE IInv
  OBVIOUS
<1>1. /\ Switch!Init /\ stb_i = [p \in Port |-> FALSE]
      /\ lock_i = [p \in Port |-> FALSE] /\ ack_i = FALSE
      /\ sent = [p \in Port |-> 0] /\ pending = [p \in Port |-> 0]
      /\ inflight = [p \in Port |-> 0] /\ answers = "a"
  BY DEF Init
<1>2. TypeOK
  <2>1. Switch!TypeOK
    BY <1>1 DEF Switch!Init, Switch!TypeOK, Switch!States
  <2>2. /\ stb_i \in [Port -> BOOLEAN] /\ lock_i \in [Port -> BOOLEAN]
        /\ ack_i \in BOOLEAN
    BY <1>1
  <2>3. /\ sent \in [Port -> 0 .. MaxBurst] /\ answers \in Port
        /\ pending \in [Port -> 0 .. MaxBurst]
        /\ inflight \in [Port -> 0 .. MaxBurst]
    BY <1>1
  <2>4. QED BY <2>1, <2>2, <2>3 DEF TypeOK
<1>3. NoStrobeLost
  BY <1>1 DEF NoStrobeLost, Count, StrobeWaiting, StrobePassing, Switch!Init,
     Switch!Busy
<1>4. IdleInv /\ \A p \in Port : ServedInv(p) /\ WaitingInv(p)
  BY <1>1 DEF IdleInv, ServedInv, WaitingInv, Switch!Init, Switch!Busy
<1>5. QED BY <1>2, <1>3, <1>4 DEF IInv

\* One clock, seen by one host.
LEMMA HostStep ==
  ASSUME TypeOK, NEW move \in [Port -> Moves], Hosts(move), NEW p \in Port
  PROVE  /\ MayMove(p, move[p])
         /\ stb_i'[p] = (move[p] \in Strobes)
         /\ lock_i'[p] = IF move[p] = "wait" THEN lock_i[p]
                         ELSE move[p] \in {"first", "more"}
         /\ sent'[p] = IF move[p] = "more" THEN sent[p] + 1
                       ELSE IF move[p] \in Strobes THEN 1 ELSE sent[p]
         /\ pending'[p] = IF move[p] \in Strobes THEN Left(p) + 1 ELSE Left(p)
BY DEF Hosts

LEMMA HostBooleans ==
  ASSUME TypeOK, NEW move \in [Port -> Moves], Hosts(move)
  PROVE  stb_i' \in [Port -> BOOLEAN] /\ lock_i' \in [Port -> BOOLEAN]
<1>1. stb_i' = [p \in Port |-> move[p] \in Strobes]
  BY DEF Hosts
<1>2. stb_i' \in [Port -> BOOLEAN]
  BY <1>1
<1>3. lock_i' = [p \in Port |-> IF move[p] = "wait" THEN lock_i[p]
                                ELSE move[p] \in {"first", "more"}]
  BY DEF Hosts
<1>4. ASSUME NEW p \in Port PROVE lock_i'[p] \in BOOLEAN
  <2>1. CASE move[p] = "wait"
    BY <2>1, <1>3 DEF TypeOK
  <2>2. CASE move[p] /= "wait"
    <3>1. lock_i'[p] = (move[p] \in {"first", "more"})
      BY <2>2, <1>3
    <3>2. QED BY <3>1
  <2>3. QED BY <2>1, <2>2
<1>5. QED BY <1>2, <1>3, <1>4

\* One clock, seen by the device.
LEMMA DeviceStep ==
  ASSUME TypeOK, Device
  PROVE  /\ answers' \in Port /\ ack_i' \in BOOLEAN
         /\ ack_i' => Taken(answers') > 0
         /\ \A p \in Port : inflight'[p] + Count(ack_i' /\ answers' = p) = Taken(p)
         /\ inflight' \in [Port -> Nat]
<1>1. \A p \in Port : Taken(p) \in Nat
  BY DEF Taken, TypeOK
<1>2. CASE /\ ack_i' = FALSE
           /\ inflight' = [p \in Port |-> Taken(p)]
           /\ UNCHANGED answers
  <2>1. answers' \in Port /\ ack_i' \in BOOLEAN /\ ~ack_i'
    BY <1>2 DEF TypeOK
  <2>2. QED BY <1>1, <1>2, <2>1 DEF Count
<1>3. CASE \E q \in Port :
           /\ Taken(q) > 0
           /\ ack_i' = TRUE
           /\ answers' = q
           /\ inflight' = [p \in Port |-> IF p = q THEN Taken(p) - 1 ELSE Taken(p)]
  BY <1>1, <1>3 DEF Count
<1>4. QED BY <1>2, <1>3 DEF Device

\* One clock, seen by the arbiter.
LEMMA ArbiterStep ==
  ASSUME TypeOK, Switch!Clock
  PROVE  /\ Switch!TypeOK'
         /\ state' = Switch!NextState /\ sel_q' = Switch!sel
         /\ \A p \in Port : req'[p] = Switch!Stored(p)
         /\ state = "S_IDLE" => \A p \in Port : lock'[p] = lock_i[p]
         /\ state /= "S_IDLE" => lock' = lock
<1>1. Switch!sel \in Port /\ Switch!NextState \in Switch!States
  BY DEF TypeOK, Switch!TypeOK, Switch!sel, Switch!NextState, Switch!States,
     Switch!Granted, Switch!Preferred, Switch!Other, Switch!Busy
<1>2. lock' \in [Port -> BOOLEAN] /\ req' \in [Port -> BOOLEAN]
  BY DEF Switch!Clock, Switch!Stored, TypeOK, Switch!TypeOK
<1>3. QED BY <1>1, <1>2 DEF Switch!Clock, Switch!TypeOK

\* An acknowledge belongs to the port being served.
LEMMA AckOwner ==
  ASSUME IInv, NEW p \in Port
  PROVE  Switch!Ack(p) <=> ack_i /\ answers = p
BY DEF IInv, IdleInv, ServedInv, Switch!Ack, TypeOK, Switch!TypeOK,
       Switch!States, Switch!Busy

\* The strobes host p still waits for after this clock are at the device or
\* stored in the arbiter.
LEMMA StrobeStep ==
  ASSUME IInv, NEW p \in Port
  PROVE  /\ Left(p) = Taken(p) + Count(/\ Switch!Stored(p)
                                      /\ Switch!NextState /= Switch!Busy(p))
         /\ Left(p) \in 0 .. MaxBurst
         /\ Taken(p) \in 0 .. MaxBurst
<1> DEFINE q == Switch!Other(p)
<1>1. /\ Left(p) = inflight[p] + Count(StrobeWaiting(p)) + Count(StrobePassing(p))
      /\ Left(p) \in 0 .. MaxBurst /\ inflight[p] \in Nat
  BY AckOwner DEF IInv, NoStrobeLost, Left, Count, TypeOK
<1>2. CASE state = "S_IDLE"
  <2>1. ~StrobePassing(p) /\ (StrobeWaiting(p) <=> Switch!Requesting(p))
    BY <1>2 DEF StrobePassing, StrobeWaiting, Switch!Busy, Switch!Requesting
  <2>2. Switch!Stored(p) <=> Switch!Requesting(p)
    BY <1>2 DEF Switch!Stored, Switch!Busy, Switch!Requesting
  <2>3. CASE ~Switch!AnyRequest
    <3>1. ~Switch!Requesting(p) /\ ~Switch!stb
      BY <2>3, <1>2 DEF Switch!AnyRequest, Switch!stb
    <3>2. QED BY <3>1, <2>1, <2>2, <1>1 DEF Count, Taken
  <2>4. CASE Switch!AnyRequest
    <3>1. /\ Switch!stb /\ Switch!sel = Switch!Granted
          /\ Switch!NextState = Switch!Busy(Switch!Granted)
          /\ Switch!Granted \in Port /\ Switch!Requesting(Switch!Granted)
      BY <2>4, <1>2 DEF Switch!AnyRequest, Switch!stb, Switch!sel,
         Switch!NextState, Switch!Granted, Switch!Preferred, Switch!Other
    <3>2. (Switch!Busy(p) = Switch!Busy(Switch!Granted)) <=> (p = Switch!Granted)
      BY <3>1 DEF Switch!Busy
    <3>3. QED BY <3>1, <3>2, <2>1, <2>2, <1>1 DEF Count, Taken
  <2>5. QED BY <2>3, <2>4
<1>3. CASE state = Switch!Busy(p)
  <2>1. Switch!sel = p /\ Switch!stb = stb_i[p] /\ ~Switch!Stored(p)
    BY <1>3 DEF Switch!Busy, Switch!sel, Switch!stb, Switch!Stored
  <2>2. ~StrobeWaiting(p) /\ (StrobePassing(p) <=> stb_i[p])
    BY <1>3 DEF StrobeWaiting, StrobePassing
  <2>3. stb_i[p] \in BOOLEAN
    BY DEF IInv, TypeOK
  <2>4. QED BY <2>1, <2>2, <2>3, <1>1 DEF Count, Taken
<1>4. CASE state = Switch!Busy(q)
  <2>1. /\ Switch!sel = q /\ q /= p /\ Switch!Busy(q) /= Switch!Busy(p)
        /\ Switch!NextState /= Switch!Busy(p)
    BY <1>4 DEF Switch!Busy, Switch!sel, Switch!Other, Switch!NextState
  <2>2. ~StrobePassing(p) /\ (StrobeWaiting(p) <=> Switch!Stored(p))
    BY <2>1, <1>4 DEF StrobeWaiting, StrobePassing, Switch!Stored
  <2>3. QED BY <2>1, <2>2, <1>1 DEF Count, Taken
<1>5. QED BY <1>2, <1>3, <1>4 DEF IInv, TypeOK, Switch!TypeOK, Switch!States,
             Switch!Busy, Switch!Other

\* A host with a strobe stored in the arbiter waits.
LEMMA StoredWaits ==
  ASSUME IInv, NEW move \in [Port -> Moves], Clock(move), NEW p \in Port,
         Switch!Stored(p), Switch!NextState /= Switch!Busy(p)
  PROVE  ~stb_i'[p] /\ Left(p) = 1
<1>1. state /= Switch!Busy(p)
  BY DEF Switch!Stored
<1>2. ~Switch!Ack(p)
  BY <1>1 DEF IInv, IdleInv, ServedInv, Switch!Ack, TypeOK, Switch!TypeOK,
     Switch!States, Switch!Busy
<1>3. Left(p) >= 1 /\ Left(p) = pending[p]
  BY <1>2, StrobeStep DEF Count, Left, IInv, TypeOK
<1>4. pending[p] = 1 /\ (lock_i[p] => sent[p] = 1)
  BY <1>1, <1>3 DEF IInv, WaitingInv, TypeOK
<1>5. MayMove(p, move[p]) /\ stb_i'[p] = (move[p] \in Strobes)
  BY HostStep DEF Clock, IInv
<1>6. move[p] \notin Strobes
  <2>1. ASSUME move[p] \in {"single", "first"} PROVE FALSE
    BY <2>1, <1>3, <1>5 DEF MayMove, IInv, TypeOK
  <2>2. ASSUME move[p] = "more" PROVE FALSE
    BY <2>2, <1>3, <1>4, <1>5 DEF MayMove
  <2>3. QED BY <2>1, <2>2 DEF Strobes
<1>7. QED BY <1>3, <1>4, <1>5, <1>6

\* The invariant after a clock, part by part.

LEMMA NoStrobeLostStep ==
  ASSUME IInv, NEW move \in [Port -> Moves], Clock(move)
  PROVE  NoStrobeLost'
<1> SUFFICES ASSUME NEW p \in Port
             PROVE  pending'[p] = inflight'[p] + Count(ack_i' /\ answers' = p)
                       + Count(StrobeWaiting(p)') + Count(StrobePassing(p)')
  BY DEF NoStrobeLost, Count
<1>1. /\ stb_i'[p] \in BOOLEAN
      /\ pending'[p] = Left(p) + Count(stb_i'[p])
  <2>1. stb_i'[p] \in BOOLEAN
    BY HostBooleans DEF Clock, IInv
  <2>2. /\ stb_i'[p] = (move[p] \in Strobes)
        /\ pending'[p] = IF move[p] \in Strobes THEN Left(p) + 1 ELSE Left(p)
    BY HostStep DEF Clock, IInv
  <2>3. Left(p) \in Nat
    BY StrobeStep
  <2>4. CASE move[p] \in Strobes
    <3>1. stb_i'[p] = TRUE
      BY <2>2, <2>4
    <3>2. QED BY <3>1, <2>1, <2>2, <2>4 DEF Count
  <2>5. CASE move[p] \notin Strobes
    <3>1. stb_i'[p] = FALSE
      BY <2>1, <2>2, <2>5
    <3>2. QED BY <3>1, <2>1, <2>2, <2>3, <2>5 DEF Count
  <2>6. QED BY <2>4, <2>5
<1>2. inflight'[p] + Count(ack_i' /\ answers' = p) = Taken(p)
  BY DeviceStep DEF Clock, IInv
<1>3. /\ StrobeWaiting(p)' <=> /\ Switch!NextState /= Switch!Busy(p)
                               /\ stb_i'[p] \/ Switch!Stored(p)
      /\ StrobePassing(p)' <=> Switch!NextState = Switch!Busy(p) /\ stb_i'[p]
  BY ArbiterStep DEF Clock, IInv, StrobeWaiting, StrobePassing, Switch!Busy
<1>4. Left(p) = Taken(p) + Count(/\ Switch!Stored(p)
                                 /\ Switch!NextState /= Switch!Busy(p))
  BY StrobeStep
<1>5. Switch!Stored(p) /\ Switch!NextState /= Switch!Busy(p) => ~stb_i'[p]
  BY StoredWaits
<1>6. Left(p) \in Nat /\ Taken(p) \in Nat
  BY StrobeStep
<1>7. QED BY <1>1, <1>2, <1>3, <1>4, <1>5, <1>6 DEF Count

LEMMA TypeStep ==
  ASSUME IInv, NEW move \in [Port -> Moves], Clock(move)
  PROVE  TypeOK'
<1>1. Switch!TypeOK'
  BY ArbiterStep DEF Clock, IInv
<1>2. /\ stb_i' \in [Port -> BOOLEAN] /\ lock_i' \in [Port -> BOOLEAN]
  BY HostBooleans DEF Clock, IInv
<1>3. ASSUME NEW p \in Port
      PROVE  Left(p) \in 0 .. MaxBurst /\ Taken(p) \in 0 .. MaxBurst
  BY StrobeStep
<1>4. \A p \in Port : sent[p] \in 0 .. MaxBurst
  BY DEF IInv, TypeOK
<1>5. sent' \in [Port -> 0 .. MaxBurst] /\ pending' \in [Port -> 0 .. MaxBurst]
  <2>1. ASSUME NEW p \in Port
        PROVE  /\ move[p] \in {"single", "first"} => Left(p) = 0
               /\ move[p] = "more" => Left(p) < sent[p] /\ sent[p] < MaxBurst
    BY DEF Clock, Hosts, MayMove
  <2>2. QED BY <2>1, <1>3, <1>4 DEF Clock, Hosts, Strobes
<1>6. /\ ack_i' \in BOOLEAN /\ answers' \in Port
      /\ inflight' \in [Port -> 0 .. MaxBurst]
  <2>1. \A p \in Port : inflight'[p] + Count(ack_i' /\ answers' = p) = Taken(p)
    BY DeviceStep DEF Clock, IInv
  <2>2. inflight' \in [Port -> Nat] /\ ack_i' \in BOOLEAN /\ answers' \in Port
    BY DeviceStep DEF Clock, IInv
  <2>3. \A p \in Port : inflight'[p] \in 0 .. MaxBurst
    BY <2>1, <2>2, <1>3 DEF Count
  <2>4. QED BY <2>2, <2>3
<1>7. QED BY <1>1, <1>2, <1>5, <1>6 DEF TypeOK

\* Only the strobes of the port that is or becomes served are at the device.
LEMMA OthersTakeNothing ==
  ASSUME IInv, NEW p \in Port, Switch!NextState /= Switch!Busy(p)
  PROVE  Taken(p) = 0
<1> DEFINE q == Switch!Other(p)
<1>0. q \in Port /\ q /= p /\ Switch!Busy(q) /= Switch!Busy(p)
      /\ Switch!Other(q) = p /\ inflight[p] \in Nat
  BY DEF Switch!Other, Switch!Busy, IInv, TypeOK
<1>1. CASE state = "S_IDLE"
  <2>1. inflight[p] = 0
    BY <1>1 DEF IInv, IdleInv
  <2>2. CASE Switch!AnyRequest
    BY <2>1, <2>2, <1>1 DEF Taken, Switch!sel, Switch!NextState
  <2>3. CASE ~Switch!AnyRequest
    BY <2>1, <2>3, <1>1 DEF Taken, Switch!stb
  <2>4. QED BY <2>2, <2>3
<1>2. CASE state = Switch!Busy(q)
  BY <1>0, <1>2 DEF Taken, Switch!sel, Switch!Busy, IInv, ServedInv, Switch!Other
<1>3. CASE state = Switch!Busy(p)
  <2>1. Switch!Done(p) /\ Switch!stb = stb_i[p]
    BY <1>3 DEF Switch!NextState, Switch!sel, Switch!Busy, Switch!stb
  <2>2. ServedInv(p) /\ sel_q = p
    BY <1>3 DEF IInv, ServedInv
  <2>3. CASE lock[p]
    <3>1. pending[p] = 0 /\ ~stb_i[p]
      BY <2>1, <2>2, <2>3, <1>3 DEF ServedInv, Switch!Done
    <3>2. inflight[p] = 0
      BY <3>1, <1>0 DEF IInv, NoStrobeLost, Count
    <3>3. QED BY <3>1, <3>2, <2>1 DEF Taken
  <2>4. CASE ~lock[p]
    <3>1. pending[p] = 1 /\ ~stb_i[p] /\ ack_i /\ answers = p
      BY <2>1, <2>2, <2>4, <1>3 DEF ServedInv, Switch!Done
    <3>2. inflight[p] = 0
      BY <3>1, <1>0 DEF IInv, NoStrobeLost, Count
    <3>3. QED BY <3>1, <3>2, <2>1 DEF Taken
  <2>5. QED BY <2>3, <2>4
<1>4. QED BY <1>1, <1>2, <1>3 DEF IInv, TypeOK, Switch!TypeOK, Switch!States,
             Switch!Busy, Switch!Other

LEMMA IdleStep ==
  ASSUME IInv, NEW move \in [Port -> Moves], Clock(move)
  PROVE  IdleInv'
<1> SUFFICES ASSUME state' = "S_IDLE"
             PROVE  ~ack_i' /\ \A p \in Port : inflight'[p] = 0
  BY DEF IdleInv
<1>1. \A p \in Port : Switch!NextState /= Switch!Busy(p)
  BY ArbiterStep DEF Clock, IInv, Switch!Busy
<1>2. \A p \in Port : Taken(p) = 0
  BY <1>1, OthersTakeNothing
<1>3. /\ ack_i' => Taken(answers') > 0
      /\ answers' \in Port /\ inflight' \in [Port -> Nat]
      /\ \A p \in Port : inflight'[p] + Count(ack_i' /\ answers' = p) = Taken(p)
  BY DeviceStep DEF Clock, IInv
<1>4. ~ack_i'
  BY <1>2, <1>3
<1>5. QED BY <1>2, <1>3, <1>4 DEF Count

\* Until it is served, a host with a strobe under way waits.
LEMMA GrantedWaits ==
  ASSUME IInv, NEW move \in [Port -> Moves], Clock(move), NEW q \in Port,
         Left(q) = 1, lock_i[q] => sent[q] = 1
  PROVE  /\ ~stb_i'[q] /\ pending'[q] = 1
         /\ lock_i'[q] = lock_i[q] /\ sent'[q] = sent[q]
<1>1. /\ MayMove(q, move[q]) /\ move[q] \in Moves
      /\ stb_i'[q] = (move[q] \in Strobes) /\ stb_i'[q] \in BOOLEAN
      /\ pending'[q] = IF move[q] \in Strobes THEN Left(q) + 1 ELSE Left(q)
      /\ lock_i'[q] = IF move[q] = "wait" THEN lock_i[q]
                      ELSE move[q] \in {"first", "more"}
      /\ sent'[q] = IF move[q] = "more" THEN sent[q] + 1
                    ELSE IF move[q] \in Strobes THEN 1 ELSE sent[q]
  BY HostStep, HostBooleans DEF Clock, IInv
<1>2. move[q] \notin {"single", "first", "unlock"}
  BY <1>1 DEF MayMove
<1>3. move[q] /= "more"
  BY <1>1 DEF MayMove
<1>4. move[q] = "wait"
  BY <1>1, <1>2, <1>3 DEF Moves, Strobes
<1>5. QED BY <1>1, <1>4 DEF Strobes

LEMMA ServedStep ==
  ASSUME IInv, NEW move \in [Port -> Moves], Clock(move), NEW q \in Port
  PROVE  ServedInv(q)'
<1> DEFINE o == Switch!Other(q)
<1> SUFFICES ASSUME state' = Switch!Busy(q)
             PROVE  /\ sel_q' = q
                    /\ inflight'[o] = 0
                    /\ ack_i' => answers' = q
                    /\  lock'[q] => lock_i'[q] \/ (pending'[q] = 0 /\ ~stb_i'[q])
                    /\ ~lock'[q] => /\ ~lock_i'[q] /\ pending'[q] = 1
                                    /\ ~stb_i'[q]
  BY DEF ServedInv, Switch!Other, Switch!Busy
<1>1. /\ o \in Port /\ o /= q /\ Switch!NextState = Switch!Busy(q)
      /\ Switch!Busy(q) /= Switch!Busy(o)
  BY ArbiterStep DEF Switch!Other, Switch!Busy, Clock, IInv
<1>2. Taken(o) = 0
  BY <1>1, OthersTakeNothing
<1>3. inflight'[o] = 0 /\ (ack_i' => answers' = q)
  <2>1. /\ ack_i' => Taken(answers') > 0
        /\ answers' \in Port /\ inflight' \in [Port -> Nat]
        /\ inflight'[o] + Count(ack_i' /\ answers' = o) = Taken(o)
    BY DeviceStep, <1>1 DEF Clock, IInv
  <2>2. QED BY <2>1, <1>1, <1>2 DEF Count, Switch!Other
<1>4. CASE state = "S_IDLE"
  <2>1. Switch!AnyRequest /\ Switch!Granted = q
    BY <1>4, <1>1 DEF Switch!NextState, Switch!Busy, Switch!Granted,
       Switch!Preferred, Switch!Other
  <2>2. sel_q' = q /\ lock'[q] = lock_i[q]
    BY <2>1, <1>4, ArbiterStep DEF Switch!sel, Clock, IInv
  <2>3. Switch!Requesting(q) /\ ~Switch!Ack(q)
    BY <2>1, <1>4 DEF Switch!AnyRequest, Switch!Granted, Switch!Preferred,
       Switch!Other, IInv, IdleInv, Switch!Ack
  <2>4. StrobeWaiting(q) /\ ~StrobePassing(q) /\ inflight[q] = 0 /\ ~ack_i
    BY <2>3, <1>4 DEF StrobeWaiting, StrobePassing, Switch!Requesting,
       Switch!Busy, IInv, IdleInv
  <2>5. pending[q] = 1 /\ Left(q) = 1
    BY <2>3, <2>4 DEF IInv, NoStrobeLost, Count, Left
  <2>6. lock_i[q] => sent[q] = 1
    BY <1>4 DEF IInv, WaitingInv, Switch!Busy
  <2>7. ~stb_i'[q] /\ pending'[q] = 1 /\ lock_i'[q] = lock_i[q]
    BY <2>5, <2>6, GrantedWaits
  <2>8. QED BY <1>3, <2>2, <2>7
<1>5. CASE state = Switch!Busy(q)
  <2>1. ~Switch!Done(q) /\ Switch!sel = q
    BY <1>5, <1>1 DEF Switch!NextState, Switch!Busy, Switch!sel
  <2>2. sel_q' = q /\ lock' = lock
    BY <2>1, <1>5, ArbiterStep DEF Clock, IInv, Switch!Busy
  <2>3. CASE lock[q]
    <3>1. lock_i[q]
      BY <2>1, <2>3 DEF Switch!Done
    <3>2. /\ MayMove(q, move[q]) /\ move[q] \in Moves
          /\ stb_i'[q] = (move[q] \in Strobes) /\ stb_i'[q] \in BOOLEAN
          /\ pending'[q] = IF move[q] \in Strobes THEN Left(q) + 1 ELSE Left(q)
          /\ lock_i'[q] = IF move[q] = "wait" THEN lock_i[q]
                          ELSE move[q] \in {"first", "more"}
      BY HostStep, HostBooleans DEF Clock, IInv
    <3>3. CASE move[q] \in {"wait", "more"}
      BY <3>1, <3>2, <3>3, <2>2, <2>3, <1>3
    <3>4. CASE move[q] = "unlock"
      BY <3>2, <3>4, <2>2, <2>3, <1>3 DEF MayMove, Strobes
    <3>5. CASE move[q] \in {"single", "first"}
      BY <3>1, <3>2, <3>5 DEF MayMove
    <3>6. QED BY <3>2, <3>3, <3>4, <3>5 DEF Moves, Strobes
  <2>4. CASE ~lock[q]
    <3>1. ~ack_i /\ ~lock_i[q] /\ pending[q] = 1
      BY <2>1, <2>4, <1>5 DEF Switch!Done, IInv, ServedInv
    <3>2. Left(q) = 1
      BY <3>1 DEF Left, Switch!Ack
    <3>3. ~stb_i'[q] /\ pending'[q] = 1 /\ lock_i'[q] = lock_i[q]
      BY <3>1, <3>2, GrantedWaits
    <3>4. QED BY <3>1, <3>3, <2>2, <2>4, <1>3
  <2>5. QED BY <2>3, <2>4
<1>6. state /= Switch!Busy(o)
  BY <1>1 DEF Switch!NextState, Switch!Busy, Switch!sel, Switch!Other
<1>7. QED BY <1>4, <1>5, <1>6 DEF IInv, TypeOK, Switch!TypeOK, Switch!States,
             Switch!Busy, Switch!Other

LEMMA WaitingStep ==
  ASSUME IInv, NEW move \in [Port -> Moves], Clock(move), NEW p \in Port
  PROVE  WaitingInv(p)'
<1> SUFFICES ASSUME state' /= Switch!Busy(p)
             PROVE  /\ pending'[p] <= 1
                    /\ lock_i'[p] => pending'[p] = 1 /\ sent'[p] = 1
  BY DEF WaitingInv, Switch!Busy
<1>1. Switch!NextState /= Switch!Busy(p)
  BY ArbiterStep DEF Clock, IInv
<1>2. Left(p) = Count(Switch!Stored(p)) /\ Left(p) \in Nat
  BY <1>1, OthersTakeNothing, StrobeStep DEF Count
<1>3. CASE Switch!Stored(p)
  <2>1. state /= Switch!Busy(p) /\ Left(p) = 1
    BY <1>2, <1>3 DEF Switch!Stored, Count
  <2>2. lock_i[p] => sent[p] = 1
    BY <2>1 DEF IInv, WaitingInv
  <2>3. QED BY <2>1, <2>2, GrantedWaits
<1>4. CASE ~Switch!Stored(p)
  <2>1. Left(p) = 0
    BY <1>2, <1>4 DEF Count
  <2>2. ~lock_i[p]
    <3>1. CASE state = Switch!Busy(p)
      <4>1. Switch!Done(p)
        BY <3>1, <1>1 DEF Switch!NextState, Switch!sel, Switch!Busy
      <4>2. QED BY <4>1, <3>1 DEF Switch!Done, IInv, ServedInv
    <3>2. CASE state /= Switch!Busy(p)
      <4>1. ~Switch!Ack(p)
        BY <3>2 DEF IInv, IdleInv, ServedInv, Switch!Ack, TypeOK,
           Switch!TypeOK, Switch!States, Switch!Busy
      <4>2. pending[p] = 0
        BY <4>1, <2>1 DEF Left, IInv, TypeOK
      <4>3. QED BY <4>2, <3>2 DEF IInv, WaitingInv
    <3>3. QED BY <3>1, <3>2
  <2>3. /\ MayMove(p, move[p]) /\ move[p] \in Moves
        /\ pending'[p] = IF move[p] \in Strobes THEN Left(p) + 1 ELSE Left(p)
        /\ lock_i'[p] = IF move[p] = "wait" THEN lock_i[p]
                        ELSE move[p] \in {"first", "more"}
        /\ sent'[p] = IF move[p] = "more" THEN sent[p] + 1
                      ELSE IF move[p] \in Strobes THEN 1 ELSE sent[p]
    BY HostStep DEF Clock, IInv
  <2>4. move[p] \notin {"more", "unlock"}
    BY <2>2, <2>3 DEF MayMove
  <2>5. QED BY <2>1, <2>2, <2>3, <2>4 DEF Strobes, Moves
<1>5. QED BY <1>3, <1>4

LEMMA StepInv == IInv /\ [Next]_vars => IInv'
<1>1. ASSUME IInv, NEW move \in [Port -> Moves], Clock(move)
      PROVE  IInv'
  BY <1>1, TypeStep, NoStrobeLostStep, IdleStep, ServedStep, WaitingStep DEF IInv
<1>2. ASSUME IInv, UNCHANGED vars
      PROVE  IInv'
  BY <1>2 DEF vars, switch, hosts, device, IInv, TypeOK, Switch!TypeOK,
     NoStrobeLost, StrobeWaiting, StrobePassing, IdleInv, ServedInv, WaitingInv
<1>3. QED BY <1>1, <1>2 DEF Next

LEMMA SpecInv == Spec => []IInv
BY InitInv, StepInv, PTL DEF Spec

-----------------------------------------------------------------------------
\* The arbiter registers and the bookkeeping of the protocol stay in range; in
\* particular a host never has more than MaxBurst strobes unanswered.
THEOREM SwitchTypeOK == Spec => []TypeOK
<1>1. IInv => TypeOK
  BY DEF IInv
<1>2. QED BY <1>1, SpecInv, PTL

\* Every answer of the device is given to the host that asked.
THEOREM SwitchAnswerToOwner == Spec => []AnswerToOwner
<1>1. IInv => AnswerToOwner
  BY AckOwner DEF AnswerToOwner, IInv, TypeOK
<1>2. QED BY <1>1, SpecInv, PTL

\* Each strobe is in exactly one place until it is answered.
THEOREM SwitchNoStrobeLost == Spec => []NoStrobeLost
<1>1. IInv => NoStrobeLost
  BY DEF IInv
<1>2. QED BY <1>1, SpecInv, PTL

\* A locked transfer of any length is not interleaved with the other host.
THEOREM SwitchLockIsExclusive == Spec => []LockIsExclusive
<1>1. ASSUME IInv, NEW p \in Port, InLockedTransfer(p)
      PROVE  /\ inflight[Switch!Other(p)] = 0
             /\ ~(Switch!stb /\ Switch!sel = Switch!Other(p))
  <2>1. state = Switch!Busy(p)
    BY <1>1 DEF InLockedTransfer, IInv, WaitingInv
  <2>2. Switch!sel = p /\ Switch!Other(p) /= p
    BY <2>1 DEF Switch!sel, Switch!Busy, Switch!Other
  <2>3. QED BY <1>1, <2>1, <2>2 DEF IInv, ServedInv
<1>2. IInv => LockIsExclusive
  BY <1>1 DEF LockIsExclusive
<1>3. QED BY <1>2, SpecInv, PTL

-----------------------------------------------------------------------------
\* Bounded waiting, the safety core of NoStarvation.

\* How many moves of the arbiter a waiting port is from being served: while the
\* arbiter is idle the port that was not served last comes first.
Distance(p) == IF state = Switch!Busy(p) THEN 0
               ELSE IF state = Switch!Busy(Switch!Other(p)) THEN 2
               ELSE IF sel_q = p THEN 3 ELSE 1

\* A waiting port comes closer to being served in every clock, unless the
\* transfer of the other port goes on in it: the other port is served at most
\* once before.
OvertakenOnce ==
  [][\A p \in Port : StrobeWaiting(p) =>
       \/ Distance(p)' < Distance(p)
       \/ state = Switch!Busy(Switch!Other(p)) /\ state' = state]_vars

\* The grant of an idle arbiter with round robin.
LEMMA RoundRobin ==
  ASSUME TypeOK, ROUND_ROBIN_EN, state = "S_IDLE",
         NEW p \in Port, Switch!Requesting(p)
  PROVE  /\ Switch!AnyRequest
         /\ Switch!Granted \in Port
         /\ sel_q /= p => Switch!Granted = p
BY DEF Switch!AnyRequest, Switch!Granted, Switch!Preferred, Switch!Other,
       TypeOK, Switch!TypeOK

\* With round robin a host is overtaken once at most: whatever the other host
\* asks for, the transfer it is in when this host strobes, or one it is granted
\* before, is the only one this host waits for.
THEOREM SwitchOvertakenOnce ==
  ASSUME ROUND_ROBIN_EN
  PROVE  Spec => OvertakenOnce
<1> DEFINE Closer(p) == \/ Distance(p)' < Distance(p)
                        \/ state = Switch!Busy(Switch!Other(p)) /\ state' = state
<1>1. ASSUME IInv, NEW move \in [Port -> Moves], Clock(move),
             NEW p \in Port, StrobeWaiting(p)
      PROVE  Closer(p)
  <2>1. /\ state' = Switch!NextState /\ sel_q' = Switch!sel
        /\ TypeOK /\ Switch!TypeOK
    BY <1>1, ArbiterStep DEF Clock, IInv, TypeOK
  <2>2. /\ state \in {"S_IDLE", Switch!Busy(p), Switch!Busy(Switch!Other(p))}
        /\ Switch!Busy(p) /= Switch!Busy(Switch!Other(p))
        /\ Switch!Busy(p) /= "S_IDLE" /\ Switch!Busy(Switch!Other(p)) /= "S_IDLE"
        /\ Switch!Other(p) /= p /\ Switch!Other(p) \in Port
    BY <2>1 DEF Switch!TypeOK, Switch!States, Switch!Busy, Switch!Other
  <2>3. CASE state = "S_IDLE"
    <3>1. Switch!Requesting(p)
      BY <1>1, <2>3 DEF StrobeWaiting, Switch!Requesting
    <3>2. state' = Switch!Busy(Switch!Granted) /\ Switch!Granted \in Port
          /\ (sel_q /= p => Switch!Granted = p)
      BY <2>1, <2>3, <3>1, RoundRobin DEF Switch!NextState
    <3>3. Switch!Granted \in {p, Switch!Other(p)}
      BY <3>2 DEF Switch!Other
    <3>4. Distance(p) = IF sel_q = p THEN 3 ELSE 1
      BY <2>2, <2>3 DEF Distance
    <3>5. CASE Switch!Granted = p
      <4>1. Distance(p)' = 0
        BY <3>2, <3>5 DEF Distance, Switch!Busy
      <4>2. QED BY <3>4, <4>1
    <3>6. CASE Switch!Granted = Switch!Other(p)
      <4>1. Distance(p)' = 2 /\ sel_q = p
        BY <2>2, <3>2, <3>6 DEF Distance, Switch!Busy, Switch!Other
      <4>2. QED BY <3>4, <4>1
    <3>7. QED BY <3>3, <3>5, <3>6
  <2>4. CASE state = Switch!Busy(Switch!Other(p))
    <3>1. Switch!sel = Switch!Other(p)
      BY <2>4 DEF Switch!sel, Switch!Busy, Switch!Other
    <3>2. state' \in {"S_IDLE", state} /\ sel_q' /= p
      BY <2>1, <2>2, <2>4, <3>1 DEF Switch!NextState
    <3>3. CASE state' = "S_IDLE"
      <4>1. Distance(p)' = 1 /\ Distance(p) = 2
        BY <2>2, <2>4, <3>2, <3>3 DEF Distance, Switch!Busy, Switch!Other
      <4>2. QED BY <4>1
    <3>4. QED BY <2>4, <3>2, <3>3
  <2>5. state /= Switch!Busy(p)
    BY <1>1 DEF StrobeWaiting
  <2>6. QED BY <2>2, <2>3, <2>4, <2>5
<1>2. IInv /\ [Next]_vars => [\A p \in Port : StrobeWaiting(p) => Closer(p)]_vars
  BY <1>1 DEF Next
<1>3. QED BY <1>2, SpecInv, PTL DEF Spec, OvertakenOnce

=============================================================================
