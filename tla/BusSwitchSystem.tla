-------------------------- MODULE BusSwitchSystem ---------------------------
(***************************************************************************)
(* The bus switch between two hosts that follow the bus protocol and a     *)
(* device that answers each request after an arbitrary time.               *)
(*                                                                         *)
(* A host strobes single accesses, one at a time, or locked transfers:     *)
(* the lock rises with the first strobe, further strobes (possibly         *)
(* back-to-back, as in a cache burst) follow once the first answer has     *)
(* arrived, and the lock falls, for at least a clock, after the last       *)
(* answer.  In the processor the hosts are load/store unit and front-end,  *)
(* their caches, the two core complexes, or CPU and DMA.                   *)
(***************************************************************************)
EXTENDS Naturals

CONSTANTS ROUND_ROBIN_EN,
          MaxBurst  \* strobes in one locked transfer

ASSUME SwitchAssumption == ROUND_ROBIN_EN \in BOOLEAN /\ MaxBurst \in Nat \ {0}

VARIABLES state, sel_q, lock, req,  \* the switch
          stb_i, lock_i, ack_i,     \* its inputs in this clock
          sent,      \* per host: strobes of the current transfer
          pending,   \* per host: strobes of it not answered yet
          inflight,  \* per host: strobes at the device, not answered yet
          answers    \* the host whose strobe the device acknowledges now

switch  == << state, sel_q, lock, req >>
hosts   == << stb_i, lock_i, sent, pending >>
device  == << ack_i, inflight, answers >>
vars    == << switch, hosts, device >>

Switch == INSTANCE BusSwitch
Port   == {"a", "b"}

TypeOK == /\ Switch!TypeOK
          /\ stb_i \in [Port -> BOOLEAN]
          /\ lock_i \in [Port -> BOOLEAN]
          /\ sent \in [Port -> 0 .. MaxBurst]
          /\ pending \in [Port -> 0 .. MaxBurst]
          /\ ack_i \in BOOLEAN
          /\ inflight \in [Port -> 0 .. MaxBurst]
          /\ answers \in Port

Init == /\ Switch!Init
        /\ stb_i = [p \in Port |-> FALSE]
        /\ lock_i = [p \in Port |-> FALSE]
        /\ sent = [p \in Port |-> 0]
        /\ pending = [p \in Port |-> 0]
        /\ ack_i = FALSE
        /\ inflight = [p \in Port |-> 0]
        /\ answers = "a"

-----------------------------------------------------------------------------
\* The hosts.  Left counts the strobes still unanswered after this clock.
Left(p) == pending[p] - (IF Switch!Ack(p) THEN 1 ELSE 0)

\* What a host may do in the next clock: wait, strobe a single access, strobe
\* the first or one more access of a locked transfer, or release the lock.
Strobes == {"single", "first", "more"}
Moves   == Strobes \cup {"wait", "unlock"}

MayMove(p, m) ==
  /\ m \in {"single", "first"} => ~lock_i[p] /\ Left(p) = 0
  /\ m = "more" => lock_i[p] /\ Left(p) < sent[p] /\ sent[p] < MaxBurst
  /\ m = "unlock" => lock_i[p] /\ Left(p) = 0

Hosts(move) ==
  /\ \A p \in Port : MayMove(p, move[p])
  /\ stb_i'   = [p \in Port |-> move[p] \in Strobes]
  /\ lock_i'  = [p \in Port |-> IF move[p] = "wait" THEN lock_i[p]
                                ELSE move[p] \in {"first", "more"}]
  /\ sent'    = [p \in Port |->
                   IF move[p] = "more" THEN sent[p] + 1
                   ELSE IF move[p] \in Strobes THEN 1 ELSE sent[p]]
  /\ pending' = [p \in Port |->
                   IF move[p] \in Strobes THEN Left(p) + 1 ELSE Left(p)]

\* The device takes a strobe and acknowledges, a clock later at the earliest,
\* one of the strobes it has taken.
Taken(p) == IF Switch!stb /\ Switch!sel = p THEN inflight[p] + 1
                                            ELSE inflight[p]

Device ==
  \/ /\ ack_i' = FALSE
     /\ inflight' = [p \in Port |-> Taken(p)]
     /\ UNCHANGED answers
  \/ \E q \in Port :
     /\ Taken(q) > 0
     /\ ack_i' = TRUE
     /\ answers' = q
     /\ inflight' = [p \in Port |-> IF p = q THEN Taken(p) - 1 ELSE Taken(p)]

Clock(move) == Switch!Clock /\ Hosts(move) /\ Device

Next == \E move \in [Port -> Moves] : Clock(move)

\* The clock runs, the device answers in the end and a locked transfer ends.
Answer  == Next /\ ack_i'
Release(p) == Next /\ lock_i[p] /\ ~lock_i'[p]

Spec == Init /\ [][Next]_vars

FairSpec == Spec /\ WF_vars(Next) /\ WF_vars(Answer)
                 /\ \A p \in Port : WF_vars(Release(p))

-----------------------------------------------------------------------------
\* Every answer reaches the host that asked: the port whose response is
\* enabled is the one whose strobe the device answers.
AnswerToOwner == ack_i => Switch!Ack(answers)

\* No strobe is lost or repeated: each one a host still waits for is stored in
\* the arbiter, on its way to the device in this clock, at the device, or being
\* answered - and in only one of these places.
StrobeWaiting(p) == state /= Switch!Busy(p) /\ (stb_i[p] \/ req[p])
StrobePassing(p) == state  = Switch!Busy(p) /\ stb_i[p]
Count(b) == IF b THEN 1 ELSE 0

NoStrobeLost ==
  \A p \in Port : pending[p] = inflight[p] + Count(ack_i /\ answers = p)
                     + Count(StrobeWaiting(p)) + Count(StrobePassing(p))

\* A locked transfer is not interleaved: from the first answer it gets to the
\* release of its lock, no strobe of the other host reaches the device.
InLockedTransfer(p) == lock_i[p] /\ sent[p] > 0 /\ pending[p] < sent[p]
LockIsExclusive ==
  \A p \in Port : InLockedTransfer(p) =>
     /\ inflight[Switch!Other(p)] = 0
     /\ ~(Switch!stb /\ Switch!sel = Switch!Other(p))

\* Neither host starves under round-robin.
NoStarvation == \A p \in Port : pending[p] > 0 ~> Switch!Ack(p)

=============================================================================
