--------------------------- MODULE AtomicMemory ----------------------------
(***************************************************************************)
(* What the atomics of the processor promise: every access of a hart takes *)
(* effect in one step.  SC may fail at any time, and may pass only if no   *)
(* write reached the granule since the hart's LR of it.                    *)
(***************************************************************************)
EXTENDS Integers

CONSTANTS Hart, Addr, Word, GranuleSize, Faulty, Requests, None,
          Alu(_, _, _)

VARIABLES mem,    \* the memory
          link,   \* per hart: granule of its LR, until the next write to it
          todo,   \* per hart: access not performed yet
          answer  \* per hart: result of the access just performed, -1 for a fault

Granule(a) == a \div GranuleSize

Init == /\ mem = [a \in Addr |-> 0]
        /\ link = [h \in Hart |-> None]
        /\ todo = [h \in Hart |-> None]
        /\ answer = [h \in Hart |-> None]

\* An answer is seen in one step only.
Answer(h, x) == answer' = [i \in Hart |-> IF i = h THEN x ELSE None]

\* A write: every hart loses its link to the granule.
Write(a, x) ==
  /\ mem' = [mem EXCEPT ![a] = x]
  /\ link' = [h \in Hart |-> IF link[h] = Granule(a) THEN None ELSE link[h]]

Fault(h) == /\ todo[h].addr \in Faulty
            /\ Answer(h, -1)
            /\ link' = [link EXCEPT ![h] =
                 CASE todo[h].op = "lr" -> Granule(todo[h].addr)
                   [] todo[h].op = "sc" -> None
                   [] OTHER -> @]
            /\ UNCHANGED mem

Load(h) == /\ todo[h].op \in {"load", "lr"}
           /\ Answer(h, mem[todo[h].addr])
           /\ link' = [link EXCEPT ![h] = IF todo[h].op = "lr"
                                          THEN Granule(todo[h].addr) ELSE @]
           /\ UNCHANGED mem

Store(h) == /\ todo[h].op = "store"
            /\ Write(todo[h].addr, todo[h].data)
            /\ \E x \in Word : Answer(h, x)

Rmw(h) == /\ todo[h].op \notin {"load", "store", "lr", "sc"}
          /\ Answer(h, mem[todo[h].addr])
          /\ Write(todo[h].addr,
                   Alu(todo[h].op, mem[todo[h].addr], todo[h].data))

ScPass(h) == /\ todo[h].op = "sc" /\ link[h] = Granule(todo[h].addr)
             /\ Answer(h, 0)
             /\ Write(todo[h].addr, todo[h].data)

ScFail(h) == /\ todo[h].op = "sc"
             /\ Answer(h, 1)
             /\ link' = [link EXCEPT ![h] = None]
             /\ UNCHANGED mem

Perform(h) ==
  /\ todo[h] /= None
  /\ \/ Fault(h)
     \/ /\ todo[h].addr \notin Faulty
        /\ Load(h) \/ Store(h) \/ Rmw(h) \/ ScPass(h) \/ ScFail(h)

\* The other harts may issue an access in the same step.
Issue(harts) ==
  \A h \in harts : todo'[h] \in IF todo[h] = None THEN {None} \cup Requests
                                                  ELSE {todo[h]}

Serve(h) == Perform(h) /\ todo'[h] = None /\ Issue(Hart \ {h})
Wait     == /\ UNCHANGED << mem, link >>
            /\ answer' = [h \in Hart |-> None]
            /\ Issue(Hart)
Next     == (\E h \in Hart : Serve(h)) \/ Wait

Spec == Init /\ [][Next /\ DOMAIN todo' = Hart]_<< mem, link, todo, answer >>

=============================================================================
