---------------------------- MODULE LrScPrograms ----------------------------
(***************************************************************************)
(* Two harts that run a program of LR and SC instructions on one word,     *)
(* over the atomics of the processor.  pc names the next instruction of a  *)
(* hart, and a hart takes any time between two instructions.               *)
(*                                                                         *)
(* SpinLock is sw/example/demo_dual_core/spinlock.c: spin_lock (a compare- *)
(* and-swap, which skips its SC when the word is not 0), then spin_unlock. *)
(* The update loop has each LR followed by an SC: it is the loop of        *)
(* spin_unlock, run by both harts again and again.  The amo loop repeats   *)
(* an RMW operation.                                                       *)
(***************************************************************************)
EXTENDS Atomics

VARIABLE pc
allvars == << vars, pc >>

Word_addr == 0   \* __spin_locked
Held == 1        \* its value while the lock is held

Lr     == [op |-> "lr", addr |-> Word_addr, data |-> 0]
Sc(x)  == [op |-> "sc", addr |-> Word_addr, data |-> x]
Amo    == [op |-> "swap", addr |-> Word_addr, data |-> Held]
Instructions == {Lr, Sc(0), Sc(Held), Amo}

ASSUME InstructionsAssumption == /\ Instructions \subseteq Requests
                                 /\ None /= Rvs!Granule(Word_addr)

\* The instruction at pc, and the pc after it, given its answer.
Instruction(h) ==
  CASE pc[h] \in {"cas_lr", "critical", "unlock_lr", "loop_lr", "rest"} -> Lr
    [] pc[h] = "cas_sc" -> Sc(Held)
    [] pc[h] \in {"unlock_sc", "loop_sc"} -> Sc(0)
    [] pc[h] = "amo"  -> Amo
    [] pc[h] = "done" -> None

\* Mutant: the result of the SC is not looked at.
AfterIgnoringSc(label, x) ==
  CASE label = "cas_lr"    -> IF x = 0 THEN "cas_sc" ELSE "cas_lr"
    [] label = "cas_sc"    -> "critical"
    [] label \in {"critical", "unlock_lr"} -> "unlock_sc"
    [] label = "unlock_sc" -> IF x = 0 THEN "done" ELSE "unlock_lr"
    [] label \in {"rest", "loop_lr"} -> "loop_sc"
    [] label = "loop_sc"   -> IF x = 0 THEN "rest" ELSE "loop_lr"
    [] label = "amo"       -> "amo"

After(label, x) ==
  CASE label = "cas_lr"    -> IF x = 0 THEN "cas_sc" ELSE "cas_lr"
    [] label = "cas_sc"    -> IF x = 0 THEN "critical" ELSE "cas_lr"
    [] label \in {"critical", "unlock_lr"} -> "unlock_sc"
    [] label = "unlock_sc" -> IF x = 0 THEN "done" ELSE "unlock_lr"
    [] label \in {"rest", "loop_lr"} -> "loop_sc"
    [] label = "loop_sc"   -> IF x = 0 THEN "rest" ELSE "loop_lr"
    [] label = "amo"       -> "amo"

InitAt(label) == Init /\ pc = [h \in Hart |-> label]

Step ==
  \E start \in [IdleHarts -> Requests \cup {None}] :
    /\ \A h \in IdleHarts : start[h] \in {Instruction(h), None}
    /\ Clock(start)
    /\ pc' = [h \in Hart |-> IF Switch!Ack(h) THEN After(pc[h], Result)
                                              ELSE pc[h]]

\* The clock runs, the memory answers, and a hart executes its program.
Answer    == Step /\ rsp'.ack
Execute(h) == Step /\ todo[h] = None /\ pc[h] /= "rest" /\ todo'[h] /= None
Fairness   == /\ WF_allvars(Step) /\ WF_allvars(Answer)
              /\ \A h \in Hart : WF_allvars(Execute(h))

InitPrograms == InitAt("cas_lr") \/ InitAt("rest") \/ InitAt("amo")

Programs == InitPrograms /\ [][Step]_allvars /\ Fairness

-----------------------------------------------------------------------------
\* The harts are never both between spin_lock and the end of spin_unlock, and
\* while one of them is, the word says so.
Holding(h) == pc[h] \in {"critical", "unlock_lr", "unlock_sc"}
LockIsExclusive ==
  /\ \A g, h \in Hart : Holding(g) /\ Holding(h) => g = h
  /\ mem[Word_addr] = 0 => \A h \in Hart :
       Holding(h) => pc[h] = "unlock_sc" /\ Switch!Ack(h)

\* When the harts update the word with LR/SC loops, one of them gets through.
Updating(h)  == pc[h] \in {"loop_lr", "loop_sc"}
Completes(h) == pc[h] = "loop_sc" /\ Switch!Ack(h) /\ Result = 0
SomeUpdateCompletes ==
  (\E h \in Hart : Updating(h)) ~> (\E h \in Hart : Completes(h))

\* Every access is answered, whatever the other hart does with the bus.
EveryAccessAnswered == \A h \in Hart : todo[h] /= None ~> todo[h] = None

=============================================================================
