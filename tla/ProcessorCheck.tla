--------------------------- MODULE ProcessorCheck ---------------------------
(***************************************************************************)
(* sw/example/processor_check on the processor it checks: core 0 with its  *)
(* privilege modes, traps and the run-time environment's handler table,    *)
(* the devices, the machine timer, and core 1 waiting to be launched.      *)
(* The processor may have one defect.  One with a floating-point unit runs *)
(* the tests of that unit instead.                                         *)
(***************************************************************************)
EXTENDS CheckTests, FiniteSets, TLC

CONSTANTS
  Processors,   \* pairs <<features, defect>>, the defect a pair <<kind, where>>
  MaxClocks     \* bound: clocks counted in a test that is not waiting for them

VARIABLES
  features, defect,
  hart,      \* core 0: privilege mode and trap CSRs
  table,     \* __neorv32_rte_vector_lut
  irqs,      \* raised device interrupts, MEI among them
  busy,      \* devices at work, and the events the TWD is about to see
  data,      \* devices holding what the test expects of them
  pmp,       \* rights of the regions in use, and the locked ones
  clint,     \* mtime, mtimecmp of core 0, MSWI; mtimecmp[1] is core1's mailbox
  core1,
  test,      \* index of the current test
  todo,      \* its remaining instructions
  seen,      \* facts it has observed
  traps,     \* traps since it started
  cnt        \* cnt_ok and cnt_fail

vars == <<features, defect, hart, table, irqs, busy, data, pmp, clint, core1, test, todo, seen,
          traps, cnt>>

processor == <<features, defect>>
HasFpu == "ZFINX" \in features
Broken(kind, where) == defect = <<kind, where>>
Sound == defect[1] = "none"
Late == defect[1] = "slow"    \* core 1 may take longer than the launch polls

HartStart == [priv |-> "M", mie |-> FALSE, mpie |-> FALSE, mpp |-> "M", enabled |-> {},
              mcause |-> "never", mprv |-> FALSE, tw |-> FALSE, vectored |-> FALSE,
              holdoff |-> FALSE, asleep |-> FALSE, halted |-> FALSE]

\* late: the carry into the upper half, a clock behind.  reg: what time_get has
\* read so far, got: its result.  The rest is what the time ought to be: now,
\* when the last read began and when it ended (set: mtime has been written).
ClintStart == [lo |-> 0, hi |-> 0, late |-> 0, cmp |-> [hi |-> 0, lo |-> 0], msi |-> {},
               reg |-> [hi |-> 0, lo |-> 0], got |-> 0,
               real |-> 0, from |-> 0, until |-> -1, set |-> FALSE, clocks |-> 0]

Core1Start == [at |-> "crt0", sp |-> "none", entry |-> "none",
               mail |-> [lo |-> "none", hi |-> "none"]]

Init ==
  /\ \E p \in Processors : features = p[1] /\ defect = p[2]
  /\ hart = HartStart /\ table = [c \in Exceptions \union Interrupts |-> "panic"]
  /\ irqs = {} /\ busy = {} /\ data = {} /\ pmp = [rights |-> <<>>, locked |-> {}]
  /\ clint = ClintStart /\ core1 = Core1Start
  /\ test = 0 /\ todo = (IF HasFpu THEN FloatStartup ELSE Startup) /\ seen = {} /\ traps = 0 /\ cnt = [ok |-> 0, fail |-> 0]

Op == Head(todo)
Is(kind) == todo # <<>> /\ Op[1] = kind
Saw(m) == seen' = IF m = "none" \/ Broken("data", m) THEN seen ELSE seen \union {m}

-----------------------------------------------------------------------------
(* Interrupts.                                                             *)
Reached(t) == clint.hi > t.hi \/ (clint.hi = t.hi /\ clint.lo >= t.lo)
Mtip == "CLINT" \in features /\ Reached(clint.cmp)

Pending == {c \in irqs \union (IF Mtip THEN {"MTI"} ELSE {})
                      \union (IF 0 \in clint.msi THEN {"MSI"} ELSE {}) :
              ~Broken("no_irq", c)}

Wakes_taken ==   \* Mutant: only an interrupt that can be taken wakes the hart
  IF hart.mie THEN Pending \intersect hart.enabled ELSE {}
Wakes == Pending \intersect hart.enabled

\* At least one instruction is executed between two interrupts.
Interrupted == /\ Wakes # {} /\ (hart.mie \/ hart.priv = "U")
               /\ ~hart.holdoff /\ ~hart.halted

-----------------------------------------------------------------------------
(* A trap: entry, the run-time environment's handler, mret.                *)
Enter(h, c) == [h EXCEPT !.priv = "M", !.mpp = h.priv, !.mie = FALSE, !.mpie = h.mie,
                         !.asleep = FALSE,
                         !.mcause = IF Broken("cause", c) THEN "unknown" ELSE c]

User == IF "U" \in features THEN "U" ELSE "M"

Leave(h) == [h EXCEPT !.priv = h.mpp, !.mprv = @ /\ h.mpp = "M", !.mpp = User,
                      !.mie = h.mpie \/ Broken("mret", "mie"), !.mpie = TRUE,
                      !.holdoff = TRUE]

\* Disables the interrupt it has no handler for; an instruction that could not
\* be fetched, or a cause it does not know, ends the program.
__neorv32_rte_panic(h) ==
  [h EXCEPT !.enabled = @ \ {h.mcause},
            !.halted = h.mcause \in {"I_ACCESS", "I_MISALIGNED", "unknown"}]

Events == {e \in data : e \in {"begin", "received", "end"}}
Again == [e \in {"begin", "received", "end"} |-> e \o " again"]
First(e) == ("begin" \in Events => e = "begin") /\ ("received" \in Events => e # "end")

\* The start of a communication before the data before the end, one in a call.
twd_trap_handler ==
  \E e \in Events :
    /\ First(e)
    /\ data' = data \ {e}
    /\ irqs' = IF Events = {e} THEN irqs \ {"TWD"} ELSE irqs
    /\ seen' = seen \union {IF e \in seen THEN Again[e] ELSE e}

gpio_trap_handler ==
  /\ irqs' = irqs \ {"GPIO"} /\ data' = data \ {"GPIO"}
  /\ seen' = seen \union (data \intersect {"GPIO"})

\* The handlers that return to machine mode whatever was interrupted.
global_trap_handler(h) == [h EXCEPT !.mpp = "M"]
rte_service_handler(h) == [h EXCEPT !.mpp = "M"]

\* A defect: the result of an instruction that has trapped is written.
Leaked == IF Is("raise") /\ Broken("effect", Op[3]) THEN {Op[3]} ELSE {}

Handler(c) ==
  IF hart.vectored /\ c \in Interrupts THEN (IF c = "MEI" THEN "vectored_mei" ELSE "global")
  ELSE IF Broken("cause", c) THEN "panic" ELSE table[c]

__neorv32_rte_core(c) ==
  LET h == Enter(hart, c) IN
  /\ CASE Handler(c) = "global" ->
            /\ hart' = Leave(global_trap_handler(h)) /\ traps' = traps + 1
            /\ seen' = seen \union Leaked /\ UNCHANGED <<irqs, data>>
       [] Handler(c) = "service" ->
            /\ hart' = Leave(rte_service_handler(h))
            /\ seen' = seen \union {"service"} /\ UNCHANGED <<irqs, data, traps>>
       [] Handler(c) = "twd" -> hart' = Leave(h) /\ twd_trap_handler /\ UNCHANGED traps
       [] Handler(c) = "gpio" -> hart' = Leave(h) /\ gpio_trap_handler /\ UNCHANGED traps
       [] Handler(c) = "vectored_mei" ->
            /\ hart' = Leave(h) /\ seen' = seen \union {"vectored"}
            /\ UNCHANGED <<irqs, data, traps>>
       [] Handler(c) = "panic" ->
            /\ hart' = Leave(__neorv32_rte_panic(h)) /\ UNCHANGED <<irqs, data, seen, traps>>
  /\ UNCHANGED <<processor, table, busy, pmp, clint, core1, test>>

Interrupt == /\ Interrupted
             /\ \E c \in Wakes : __neorv32_rte_core(c)
             /\ UNCHANGED <<todo, cnt>>

-----------------------------------------------------------------------------
(* The exception an instruction raises, if any.                            *)
Csrs == {"clear", "mie", "mie_set", "mstatus", "mpp_user", "vectored", "probe", "pmp", "lock",
         "note", "note_mie", "note_mtip", "expect"}
Bus == {"time_stop", "time_lo", "time_hi", "read_hi", "read_lo", "read_hi_again", "cmp_lo", "cmp_hi",
        "cmp_lo_later", "cmp_hi_later", "msi"}

\* Loads and stores may be made with the rights of the interrupted mode.
Mode(kind) == IF hart.mprv /\ kind # "exec" THEN hart.mpp ELSE hart.priv

\* The lowest region that matches decides; region 2 matches everything.
Denied(kind) ==
  LET hits == DOMAIN pmp.rights \intersect {1, 2}
      r == CHOOSE i \in hits : \A j \in hits : i <= j
  IN IF Mode(kind) = "M"
       THEN hits # {} /\ r \in pmp.locked /\ ~Broken("pmp", "lock") /\ kind \notin pmp.rights[r]
       ELSE ~Broken("pmp", "open") /\ (hits # {} => kind \notin pmp.rights[r])

Fault ==
  CASE Op[1] = "raise" -> Op[2]
    [] Op[1] \in Csrs \union {"protected"} /\ hart.priv = "U" -> "I_ILLEGAL"
    [] Op[1] = "wfi" /\ hart.priv = "U" /\ hart.tw /\ ~Broken("ignored", "tw") -> "I_ILLEGAL"
    [] Op[1] = "ecall" -> IF hart.priv = "U" THEN "UENV_CALL" ELSE "MENV_CALL"
    [] Op[1] = "access" /\ Denied(Op[2]) ->
         CASE Op[2] = "read" -> "L_ACCESS" [] Op[2] = "write" -> "S_ACCESS" [] OTHER -> "I_ACCESS"
    [] Op[1] \in Bus /\ "CLINT" \notin features -> "S_ACCESS"
    [] Op[1] = "quiet" /\ Broken("spurious", Op[2]) -> Op[2]
    [] OTHER -> "none"

Runs == ~Interrupted /\ ~hart.asleep /\ ~hart.halted
Ready == todo # <<>> /\ Runs
Executes == Ready /\ (Fault = "none" \/ Broken("no_trap", Fault))
Advance == todo' = Tail(todo)
Retire == hart' = [hart EXCEPT !.holdoff = FALSE]

\* The instruction is skipped.  The comparison at the end of a test then finds
\* something else in its register.
Exception ==
  /\ Ready /\ Fault # "none" /\ ~Broken("no_trap", Fault)
  /\ __neorv32_rte_core(Fault) /\ Advance
  /\ cnt' = IF Is("expect") THEN [cnt EXCEPT !.fail = @ + 1] ELSE cnt

-----------------------------------------------------------------------------
(* Instructions that work on the hart's own state.                         *)
Csr(h) ==
  CASE Op[1] = "clear"    -> [h EXCEPT !.mcause = "never"]
    [] Op[1] = "mie"      -> [h EXCEPT !.enabled = Op[2]]
    [] Op[1] = "mie_set"  -> [h EXCEPT !.enabled = @ \union {Op[2]}]
    [] Op[1] = "mstatus"  -> [h EXCEPT ![Op[2]] = Op[3]]
    [] Op[1] = "mpp_user" -> [h EXCEPT !.mpp = User]
    [] Op[1] = "vectored" -> [h EXCEPT !.vectored = Op[2]]
    [] Op[1] = "goto_user" ->
         IF h.priv = "U" THEN h
         ELSE [Leave([h EXCEPT !.mpp = User, !.mpie = @ \/ h.mie]) EXCEPT !.holdoff = FALSE]
    [] Op[1] = "rte_setup" -> [h EXCEPT !.mpp = "M", !.enabled = {}, !.mie = FALSE, !.mpie = FALSE]

ExecCsr ==
  /\ Executes
  /\ Op[1] \in {"clear", "mie", "mie_set", "mstatus", "mpp_user", "vectored", "goto_user",
                "rte_setup"}
  /\ hart' = [Csr(hart) EXCEPT !.holdoff = FALSE] /\ Advance
  /\ UNCHANGED <<processor, table, irqs, busy, data, pmp, clint, core1, test, seen, traps, cnt>>

\* What the test finds out.
Fact ==
  CASE Op[1] \in {"does", "protected"} -> Op[2]
    [] Op[1] \in {"raise", "access"} -> Op[3]
    [] Op[1] = "note"        -> IF hart.mcause = Op[2] THEN Op[3] ELSE "none"
    [] Op[1] = "note_mie"    -> IF hart.mie THEN "mie" ELSE "none"
    [] Op[1] = "note_timeh"  -> IF clint.hi = Op[2] THEN "timeh" ELSE "none"
    [] Op[1] = "note_mtip"   -> IF "MTI" \in Pending THEN Op[2] ELSE "none"
    [] Op[1] = "count"       -> IF traps = Op[2] THEN "count" ELSE "none"
    [] Op[1] \in {"ecall", "quiet", "probe"} -> "none"

ExecNote ==
  /\ Executes
  /\ Op[1] \in {"does", "protected", "raise", "access", "note", "note_mie", "note_timeh",
                "note_mtip", "count", "ecall", "quiet", "probe"}
  /\ Saw(Fact) /\ Retire /\ Advance
  /\ UNCHANGED <<processor, table, irqs, busy, data, pmp, clint, core1, test, traps, cnt>>

ExecInstall ==
  /\ Executes /\ Op[1] = "install"
  /\ table' = [table EXCEPT ![Op[2]] = Op[3]] /\ Retire /\ Advance
  /\ UNCHANGED <<processor, irqs, busy, data, pmp, clint, core1, test, seen, traps, cnt>>

\* neorv32_cpu_pmp_configure_region leaves a locked entry alone.
ExecPmp ==
  /\ Executes
  /\ \/ /\ Op[1] = "pmp"
        /\ pmp' = IF Op[2] \in pmp.locked THEN pmp
                  ELSE [pmp EXCEPT !.rights = (Op[2] :> Op[3]) @@ @]
     \/ Op[1] = "lock" /\ pmp' = [pmp EXCEPT !.locked = @ \union {Op[2]}]
  /\ Retire /\ Advance
  /\ UNCHANGED <<processor, table, irqs, busy, data, clint, core1, test, seen, traps, cnt>>

test_ok == cnt' = [cnt EXCEPT !.ok = @ + 1]
test_fail == cnt' = [cnt EXCEPT !.fail = @ + 1]

ExecExpect ==
  /\ Executes /\ Op[1] = "expect"
  /\ IF hart.mcause \in Op[2] /\ seen = Op[3] THEN test_ok ELSE test_fail
  /\ Retire /\ Advance
  /\ UNCHANGED <<processor, table, irqs, busy, data, pmp, clint, core1, test, seen, traps>>

\* The comparisons of one instruction, with whatever vectors.
ExecFloat ==
  /\ Executes /\ Op[1] = "float"
  /\ \E m \in Reports[Op[2]] : seen' = IF m = "agrees" THEN seen ELSE seen \union {m}
  /\ Retire /\ Advance
  /\ UNCHANGED <<processor, table, irqs, busy, data, pmp, clint, core1, test, traps, cnt>>

-----------------------------------------------------------------------------
(* Devices.                                                                *)
\* The two-wire transfers take far longer than the way to the next wfi.
Slow == {"TWD"}
Working(d) == \E b \in busy : b[1] = d

Device(d) == /\ busy' = {b \in busy : b[1] # d}
             /\ data' = data \ {d} /\ irqs' = irqs \ {d} /\ UNCHANGED seen

ExecDevice ==
  /\ Executes /\ Op[1] \in {"setup", "start", "start_event", "receive", "drain", "sim_irq"}
  /\ CASE Op[1] = "setup" -> Device(Op[2])
       [] Op[1] = "start" -> busy' = busy \union {<<Op[2], Op[2]>>} /\ UNCHANGED <<irqs, data, seen>>
       [] Op[1] = "start_event" ->
            busy' = busy \union {<<Op[2], Op[3]>>} /\ UNCHANGED <<irqs, data, seen>>
       [] Op[1] = "receive" ->
            /\ Saw(IF Op[2] \in data THEN Op[2] ELSE "none")
            /\ data' = data \ {Op[2]} /\ irqs' = irqs \ {Op[2]} /\ UNCHANGED busy
       [] Op[1] = "drain" -> ~Working(Op[2]) /\ UNCHANGED <<busy, irqs, data, seen>>
       [] Op[1] = "sim_irq" ->
            /\ irqs' = IF Op[2] THEN irqs \union {"MEI"} ELSE irqs \ {"MEI"}
            /\ UNCHANGED <<busy, data, seen>>
  /\ Retire /\ Advance
  /\ UNCHANGED <<processor, table, pmp, clint, core1, test, traps, cnt>>

Finish ==
  /\ \E b \in busy :
       /\ b[1] \in Slow => hart.asleep
       /\ busy' = busy \ {b}
       /\ data' = data \union {b[2]}
       /\ irqs' = irqs \union {b[1]}
  /\ UNCHANGED <<processor, hart, table, pmp, clint, core1, test, todo, seen, traps, cnt>>

\* Two idle instructions, long enough for what the test has started.
ExecNops ==
  /\ Executes /\ Op[1] = "nops" /\ busy = {} /\ ("MTI" \in hart.enabled => Mtip)
  /\ Retire /\ Advance
  /\ UNCHANGED <<processor, table, irqs, busy, data, pmp, clint, core1, test, seen, traps, cnt>>

\* Sleep, which an enabled interrupt ends even when interrupts are disabled.
ExecSleep ==
  /\ \/ /\ Executes /\ Op[1] = "wfi" /\ Advance
        /\ hart' = [hart EXCEPT !.asleep = TRUE, !.holdoff = FALSE]
     \/ /\ hart.asleep /\ Wakes # {} /\ ~Interrupted
        /\ hart' = [hart EXCEPT !.asleep = FALSE] /\ UNCHANGED todo
  /\ UNCHANGED <<processor, table, irqs, busy, data, pmp, clint, core1, test, seen, traps, cnt>>

-----------------------------------------------------------------------------
(* The machine timer.  Every access takes a clock.                         *)
Clocked == [clint EXCEPT !.lo = (clint.lo + 1) % B, !.hi = clint.hi + clint.late,
                         !.late = IF clint.lo = B - 1 THEN 1 ELSE 0, !.real = @ + 1]

LaterTime == clint.got + 6    \* stands for 300 clocks

\* The upper half has changed between its two reads: they are repeated.
Retries == Op[1] = "read_hi_again" /\ clint.hi # clint.reg.hi

Timer ==
  CASE Op[1] = "time_stop" -> [Clocked EXCEPT !.lo = 0, !.set = FALSE]
    [] Op[1] = "time_hi"   -> [Clocked EXCEPT !.hi = Op[2].hi, !.set = FALSE]
    [] Op[1] = "time_lo"   -> [Clocked EXCEPT !.lo = Op[2].lo, !.real = Op[2].hi * B + Op[2].lo,
                                              !.set = TRUE]
    [] Op[1] = "cmp_lo"    -> [Clocked EXCEPT !.cmp.lo = Op[2]]
    [] Op[1] = "cmp_hi"    -> [Clocked EXCEPT !.cmp.hi = Op[2]]
    [] Op[1] = "cmp_lo_later" -> [Clocked EXCEPT !.cmp.lo = LaterTime % B]
    [] Op[1] = "cmp_hi_later" -> [Clocked EXCEPT !.cmp.hi = LaterTime \div B]
    [] Op[1] = "read_hi"   -> [Clocked EXCEPT !.reg.hi = clint.hi, !.from = clint.real, !.until = -1]
    [] Op[1] = "read_lo"   -> [Clocked EXCEPT !.reg.lo = clint.lo]
    [] Op[1] = "read_hi_again" ->
         IF Retries THEN Clocked
         ELSE [Clocked EXCEPT !.got = clint.hi * B + clint.reg.lo, !.until = clint.real]
    [] Op[1] = "msi" ->
         [Clocked EXCEPT !.msi = IF Op[3] THEN @ \union {Op[2]} ELSE @ \ {Op[2]}]

ExecClint ==
  /\ Executes /\ Op[1] \in Bus
  /\ clint' = Timer /\ Retire
  /\ todo' = IF Retries THEN neorv32_clint_time_get \o Tail(todo) ELSE Tail(todo)
  /\ UNCHANGED <<processor, table, irqs, busy, data, pmp, core1, test, seen, traps, cnt>>

\* The timer runs on; its clocks matter while it is accessed or waited for.
Waits == \/ hart.asleep /\ Wakes = {}
         \/ Is("nops") /\ "MTI" \in hart.enabled /\ ~Mtip

Clock ==
  /\ "CLINT" \in features /\ ~Mtip
  /\ \/ Waits /\ "MTI" \in hart.enabled /\ clint' = Clocked
     \/ /\ todo # <<>> /\ Op[1] \in Bus /\ clint.clocks < MaxClocks
        /\ clint' = [Clocked EXCEPT !.clocks = @ + 1]
  /\ UNCHANGED <<processor, hart, table, irqs, busy, data, pmp, core1, test, todo, seen, traps, cnt>>

-----------------------------------------------------------------------------
(* Core 1: sleeps in its start-up code until it finds an entry point and a *)
(* stack in the mailbox.                                                   *)
ExecMail ==
  /\ Executes
  /\ \/ Op[1] = "mail_lo" /\ core1' = [core1 EXCEPT !.mail.lo = Op[2]]
     \/ Op[1] = "mail_hi" /\ core1' = [core1 EXCEPT !.mail.hi = Op[2]]
  /\ Retire /\ Advance
  /\ UNCHANGED <<processor, table, irqs, busy, data, pmp, clint, test, seen, traps, cnt>>

ExecPoll ==
  /\ Executes /\ Op[1] = "poll"
  /\ \/ 1 \notin clint.msi /\ Advance
     \/ 1 \in clint.msi /\ Broken("slow", "core1") /\ todo' = SubSeq(todo, Op[2] + 2, Len(todo))
  /\ Retire
  /\ UNCHANGED <<processor, table, irqs, busy, data, pmp, clint, core1, test, seen, traps, cnt>>

core1_main == /\ seen' = seen \union {"atomic_cnt"}
              /\ clint' = [clint EXCEPT !.msi = @ \union {0}]

crt0 ==
  \/ core1.at = "crt0" /\ core1' = [core1 EXCEPT !.at = "asleep"] /\ UNCHANGED <<clint, seen>>
  \/ /\ core1.at = "asleep" /\ 1 \in clint.msi
     /\ core1' = [core1 EXCEPT !.at = "woken", !.sp = core1.mail.lo] /\ UNCHANGED <<clint, seen>>
  \/ /\ core1.at = "woken"
     /\ core1' = [core1 EXCEPT !.at = "reads", !.entry = core1.mail.hi] /\ UNCHANGED <<clint, seen>>
  \/ /\ core1.at = "reads"
     /\ clint' = [clint EXCEPT !.msi = @ \ {1}]
     /\ core1' = [core1 EXCEPT !.at = IF core1.entry = "__crt0_entry" THEN "crt0" ELSE core1.entry]
     /\ UNCHANGED seen

Core1 ==
  /\ "SMP" \in features
  /\ \/ crt0
     \/ core1.at = "core1_main" /\ core1_main /\ core1' = [core1 EXCEPT !.at = "exit"]
  /\ UNCHANGED <<processor, hart, table, irqs, busy, data, pmp, test, todo, traps, cnt>>

-----------------------------------------------------------------------------
Between == todo = <<>> /\ Runs

\* Printing takes thousands of clocks; a test starts at any time, here B - 4.
RunOn ==
  LET now == clint.hi + clint.late IN
  [clint EXCEPT !.lo = B - 4, !.late = 0, !.clocks = 0, !.until = -1, !.got = 0,
                !.hi = IF clint.lo > B - 4 THEN now + 1 ELSE now,
                !.real = IF ~clint.set THEN @ ELSE
                         (IF clint.lo > B - 4 THEN now + 1 ELSE now) * B + (B - 4)]

\* A test whose needs are not met is skipped.
Program == IF HasFpu THEN FloatTestList ELSE Tests(features)
NextTest ==
  /\ Between /\ test < Len(Program)
  /\ test' = test + 1
  /\ todo' = IF Program[test + 1].needs \subseteq features THEN Program[test + 1].body ELSE <<>>
  /\ seen' = {} /\ traps' = 0 /\ clint' = RunOn
  /\ UNCHANGED <<processor, hart, table, irqs, busy, data, pmp, core1, cnt>>

Core0 == \/ Interrupt \/ Exception \/ ExecCsr \/ ExecNote \/ ExecInstall \/ ExecPmp \/ ExecExpect
         \/ ExecFloat \/ ExecDevice \/ ExecNops \/ ExecSleep \/ ExecClint \/ ExecMail \/ ExecPoll \/ NextTest

Next == Core0 \/ Finish \/ Clock \/ Core1

Spec == Init /\ [][Next]_vars
             /\ WF_vars(Core0) /\ WF_vars(Finish) /\ WF_vars(Clock) /\ WF_vars(Core1)

-----------------------------------------------------------------------------
Done == Between /\ test = Len(Program)
Ran == Cardinality({i \in 1 .. Len(Program) : Program[i].needs \subseteq features})

\* The program's verdict is the truth about the processor: one without a defect
\* passes every test it is given and never reaches the panic handler, one with
\* a defect does not pass; every test that ran has been counted once.
ReportsTheProcessor ==
  /\ Sound /\ ~HasFpu => cnt.fail = 0 /\ ~hart.halted
  /\ Done => /\ cnt.ok + cnt.fail = Ran
             /\ ~Sound /\ ~Late => cnt.fail > 0

\* The floating-point unit and its emulation in C give the same result for every
\* operand, NaN, infinity and subnormal ones included, and the unit refuses what
\* it does not implement; the two known differences excepted.
FpuMatchesEmulation ==
  HasFpu => /\ "disagrees" \notin seen
            /\ cnt.fail <= Cardinality({i \in 1 .. test : Program[i] \in
                  {Compare(op) : op \in {"FMUL.S", "FCVT.WU.S", "FCVT.W.S"}}})

\* No test leaves the next one an interrupt that may strike, a mode, a vector or
\* a handler it does not expect, although several leave their interrupt pending,
\* enabled or masked.
QuietBetweenTests ==
  Sound /\ ~HasFpu /\ Between =>
    /\ Wakes = {} /\ hart.priv = "M" /\ ~hart.mprv /\ ~hart.vectored
    /\ \A c \in DOMAIN table : table[c] = "global" \/ c \in {"TWD", "GPIO"}

\* The two halves of the running 64-bit timer are written and read as one value.
TimeIsKept ==
  /\ clint.set => (clint.hi + clint.late) * B + clint.lo = clint.real
  /\ clint.until # -1 => clint.got \in clint.from .. clint.until

\* Core 1 only ever starts where the launch has told it to and on its own stack;
\* a launch that reports success has started it.
StartsAsLaunched ==
  /\ core1.at \in {"crt0", "asleep", "woken", "reads", "core1_main", "exit"}
  /\ core1.at \in {"core1_main", "exit"} => core1.sp = "core1_stack"
  /\ "launched" \in seen => core1.at \in {"core1_main", "exit"}

\* On a sound processor the program comes to an end: no sleep is missed.
Terminates == Sound => <>Done
=============================================================================
