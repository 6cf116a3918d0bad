----------------------------- MODULE CheckTests -----------------------------
(***************************************************************************)
(* The tests of sw/example/processor_check as sequences of instructions:   *)
(* what each one does to the processor and what it compares at its end.    *)
(* Printing is left out; a data value is the fact, a mark, that the        *)
(* program tells from the right value.  The tests of                       *)
(* sw/example/floating_point_test follow: each compares the FPU with the   *)
(* emulation, and all of them are enabled.  Module ProcessorCheck executes *)
(* both programs.                                                          *)
(***************************************************************************)
EXTENDS FloatingPoint, Sequences, SequencesExt, FiniteSetsExt

B == 8              \* stands for 2^32, the size of a counter's half
Never == [hi |-> 63, lo |-> B - 1]

Exceptions == {"I_MISALIGNED", "I_ACCESS", "I_ILLEGAL", "BREAKPOINT", "L_MISALIGNED",
               "L_ACCESS", "S_MISALIGNED", "S_ACCESS", "UENV_CALL", "MENV_CALL"}
Devices == {"UART0", "UART1", "TWD", "TRACER", "SPI", "TWI", "GPIO", "NEOLED", "DMA", "SDI",
            "GPTMR", "ONEWIRE", "SLINK", "TRNG"}
Interrupts == {"MSI", "MTI", "MEI"} \union Devices

-----------------------------------------------------------------------------
(* Instructions.  Does(m) is anything that always works and shows as m;    *)
(* Raise(c, m) has to raise c, and shows as m if it does not.              *)
Does(m) == <<<<"does", m>>>>
Raise(c, m) == <<<<"raise", c, m>>>>
Protected(m) == <<<<"protected", m>>>>     \* illegal outside machine mode
Ecall == <<<<"ecall">>>>
Access(kind, m) == <<<<"access", kind, m>>>>
Mstatus(field, b) == <<<<"mstatus", field, b>>>>
Mie(s) == <<<<"mie", s>>>>
MieSet(c) == <<<<"mie_set", c>>>>
Nops == <<<<"nops">>>>
Wfi == <<<<"wfi">>>>
Setup(d) == <<<<"setup", d>>>>             \* CTRL = 0, then the new configuration
Start(d) == <<<<"start", d>>>>
StartUntil(d, e) == <<<<"start_event", d, e>>>>
Receive(d) == <<<<"receive", d>>>>         \* shows as d when the data is right
Expect(causes, marks) == <<<<"expect", causes, marks>>>>

\* Leaves machine mode; mret restores the interrupt enable it has kept.
goto_user_mode == <<<<"goto_user">>>>

\* The testbench's interrupt trigger.
sim_irq_trigger(on) == <<<<"sim_irq", on>>>>

-----------------------------------------------------------------------------
(* Library functions the tests rest on.                                    *)
neorv32_clint_time_set_unordered(t) ==  \* Mutant: does not stop the carry first
  <<<<"time_hi", t>>, <<"time_lo", t>>>>
neorv32_clint_time_set(t) ==
  <<<<"time_stop">>, <<"time_hi", t>>, <<"time_lo", t>>>>

neorv32_clint_time_get == <<<<"read_hi">>, <<"read_lo">>, <<"read_hi_again">>>>

neorv32_clint_mtimecmp_set(t) ==
  <<<<"cmp_lo", B - 1>>, <<"cmp_hi", t.hi>>, <<"cmp_lo", t.lo>>>>

\* mtimecmp_set(time_get() + 300)
Later == neorv32_clint_time_get \o <<<<"cmp_lo", B - 1>>, <<"cmp_hi_later">>, <<"cmp_lo_later">>>>

neorv32_clint_msi_set(hart) == <<<<"msi", hart, TRUE>>>>
neorv32_clint_msi_clr(hart) == <<<<"msi", hart, FALSE>>>>

\* The mailbox of the other core is its unused time comparator.  A poll that
\* runs out abandons the launch: `rest' instructions are left out.
__neorv32_smp_boot_early(addr, stack, rest) ==  \* Mutant: wakes the core first
  neorv32_clint_msi_set(1) \o <<<<"mail_lo", stack>>, <<"mail_hi", addr>>, <<"poll", rest>>>>
__neorv32_smp_boot(addr, stack, rest) ==
  <<<<"mail_lo", stack>>, <<"mail_hi", addr>>>> \o neorv32_clint_msi_set(1) \o <<<<"poll", rest>>>>

neorv32_smp_launch(entry, stack) ==
  __neorv32_smp_boot("__crt0_entry", stack, 5) \o __neorv32_smp_boot(entry, stack, 1)
  \o Does("launched")

\* Installs a handler; an invalid trap code is refused.
neorv32_rte_handler_install(cause, handler) == <<<<"install", cause, handler>>>>

\* Clears the enables and points every entry of the table to the panic handler.
neorv32_rte_setup == <<<<"rte_setup">>>>

\* Probes the registers: the counters stay stopped, the entries unlocked.
neorv32_cpu_hpm_get_num_counters == <<<<"probe", "HPM">>>>
neorv32_cpu_pmp_get_num_regions == <<<<"probe", "PMP">>>>

\* Refused when the entry is locked.
neorv32_cpu_pmp_configure_region(index, rights) == <<<<"pmp", index, rights>>>>

-----------------------------------------------------------------------------
(* The tests.  A test runs when the processor has what it needs; "noC"     *)
(* stands for the absence of compressed instructions.                      *)
AnyCause == {"never"} \union Exceptions \union Interrupts
Clear == <<<<"clear">>>>                   \* mcause := trap_never_c
Note(cause, m) == <<<<"note", cause, m>>>>
Repeat(n, s) == FlattenSeq([i \in 1 .. n |-> s])

Test(needs, body) == [needs |-> needs, body |-> Clear \o body]
Works(needs, m) == Test(needs, Does(m) \o Expect({"never"}, {m}))
Traps(needs, c, m) == Test(needs, Raise(c, m) \o Expect({c}, {}))

Installs ==
  FoldSet(LAMBDA c, s : s \o neorv32_rte_handler_install(c, "global"), <<>>,
          Exceptions \union Interrupts)

\* Everything before the first test.
Startup ==
  Mstatus("mie", FALSE) \o neorv32_rte_setup \o Installs
  \o neorv32_clint_mtimecmp_set(Never) \o neorv32_clint_time_set([hi |-> 0, lo |-> 0])
  \o neorv32_cpu_pmp_get_num_regions \o Mie({}) \o Mstatus("mie", TRUE)

Hpm == Test({"HPM"}, neorv32_cpu_hpm_get_num_counters \o Does("events")
                       \o Expect({"never"}, {"events"}))
PmpSetup == Test({"PMP"}, neorv32_cpu_pmp_configure_region(2, {"exec"}) \o Expect({"never"}, {}))
Fences == Works({}, "fence")
Jtag == Works({"SIM"}, "debugger")
Zicntr == Works({}, "overflow")
Mcounteren ==
  Test({"U"}, goto_user_mode \o Does("cycle") \o Protected("time")
                \o Expect({"I_ILLEGAL"}, {"cycle"}))
Mcountinhibit == Works({}, "stopped")
CntFilter ==
  Test({"SMCNTRPMF"}, Does("machine") \o goto_user_mode \o Does("user") \o Ecall
                        \o Expect(AnyCause, {"machine", "user"}))
MretInUser == Test({"U"}, goto_user_mode \o Protected("mret") \o Expect({"I_ILLEGAL"}, {}))
ExtMem == Works({"XBUS", "SIM"}, "executed")
DcacheWriteBack ==
  Test({"DCACHE", "SIM"},
    Raise("L_ACCESS", "none") \o Note("L_ACCESS", "read error")
      \o Clear \o Note("never", "clean")
      \o Clear \o Raise("S_ACCESS", "none") \o Note("S_ACCESS", "write error")
      \o Expect(AnyCause, {"read error", "clean", "write error"}))
IllegalCsr == Traps({}, "I_ILLEGAL", "rd")
ReadOnlyCsr == Traps({}, "I_ILLEGAL", "none")
ReadOnlyCsrNoWrite == Test({}, <<<<"quiet", "I_ILLEGAL">>>> \o Expect({"never"}, {}))
IfAlign == Traps({"noC"}, "I_MISALIGNED", "link")
IfAccess == Traps({"SIM"}, "I_ACCESS", "none")
IfUnaligned ==     \* leaves the software interrupt enabled
  Test({"C", "XBUS", "SIM"},
    Mie({"MSI"}) \o Raise("I_ACCESS", "mie") \o Expect({"I_ACCESS"}, {}))
IllegalInstr(n) ==
  Test({}, Mstatus("mie", FALSE) \o Repeat(n, Raise("I_ILLEGAL", "none"))
             \o <<<<"count", n>>>> \o Expect({"I_ILLEGAL"}, {"count"}) \o Mstatus("mie", TRUE))
Break == Traps({"SIM"}, "BREAKPOINT", "none")
LoadAlign == Traps({}, "L_MISALIGNED", "rd")
LoadAccess == Traps({}, "L_ACCESS", "rd")
StoreAlign_trap == Traps({}, "S_MISALIGNED", "none")   \* Mutant: ignores the memory
StoreAlign == Traps({}, "S_MISALIGNED", "memory")
StoreAccess == Traps({}, "S_ACCESS", "none")
EnvcallMachine ==  \* leaves the interrupts disabled
  Test({}, Mstatus("mie", FALSE) \o Mstatus("mpie", TRUE) \o Ecall \o <<<<"note_mie">>>>
             \o Expect({"MENV_CALL"}, {}))
EnvcallUser == Test({"U"}, goto_user_mode \o Ecall \o Expect({"UENV_CALL"}, {}))

\* Enables one interrupt around an action and disables all afterwards.
Mti ==
  Test({"CLINT"},
    neorv32_clint_mtimecmp_set([hi |-> 1, lo |-> 0]) \o neorv32_clint_time_set([hi |-> 0, lo |-> B - 2])
      \o Mie({"MTI"}) \o Nops \o Mie({}) \o <<<<"note_timeh", 1>>>>
      \o Expect({"MTI"}, {"timeh"}) \o neorv32_clint_mtimecmp_set(Never))
Msi ==
  Test({"CLINT"}, Mie({"MSI"}) \o neorv32_clint_msi_set(0) \o Nops \o Mie({})
                    \o neorv32_clint_msi_clr(0) \o Expect({"MSI"}, {}))
Mei ==
  Test({"SIM"}, Mie({"MEI"}) \o sim_irq_trigger(TRUE) \o Nops \o Mie({})
                  \o sim_irq_trigger(FALSE) \o Expect({"MEI"}, {}))
PermanentIrq_on ==    \* Mutant: leaves the source enabled
  Test({"CLINT"}, Mie({"MTI"}) \o neorv32_clint_mtimecmp_set([hi |-> 0, lo |-> 0])
                    \o Repeat(3, Does("progress")) \o Expect(AnyCause, {"progress"}))
PermanentIrq ==    \* leaves the timer interrupt pending
  Test({"CLINT"}, Mie({"MTI"}) \o neorv32_clint_mtimecmp_set([hi |-> 0, lo |-> 0])
                    \o Repeat(3, Does("progress")) \o Mie({}) \o Expect(AnyCause, {"progress"}))
PendingIrq ==
  Test({"CLINT"}, Mie({}) \o neorv32_clint_mtimecmp_set([hi |-> 0, lo |-> 0]) \o Nops
                    \o <<<<"note_mtip", "was">>>> \o neorv32_clint_mtimecmp_set(Never)
                    \o <<<<"note_mtip", "is">>>> \o Expect(AnyCause, {"was"}))
VectoredIrq ==
  Test({"SIM"}, <<<<"vectored", TRUE>>>> \o Mie({"MEI"}) \o sim_irq_trigger(TRUE) \o Nops
                  \o Mie({}) \o sim_irq_trigger(FALSE) \o Expect(AnyCause, {"vectored"})
                  \o <<<<"vectored", FALSE>>>>)

-----------------------------------------------------------------------------
(* The devices.  A device works on its own; most tests sleep until its     *)
(* interrupt, some trust it to be faster than two instructions.            *)
Sleep(d) == Wfi \o Mie({}) \o Receive(d) \o Expect({d}, {d})
Uart0 ==
  Test({"UART0", "UART1"}, Setup("UART0") \o Mie({"UART0"}) \o Start("UART0") \o Sleep("UART0"))
Uart1 ==
  Test({"UART0", "UART1"},
    Setup("UART1") \o Start("UART1") \o <<<<"drain", "UART1">>>> \o Mie({"UART1"})
      \o Wfi \o Receive("UART1") \o Mie({}) \o Expect({"UART1"}, {"UART1"}))
Twd ==
  Test({"TWD"},
    neorv32_rte_handler_install("TWD", "twd") \o MieSet("TWD") \o Mstatus("mie", TRUE)
      \o Setup("TWD") \o Setup("TWI")
      \o FlattenSeq([i \in 1 .. 4 |-> StartUntil("TWD", <<"begin", "received", "begin", "end">>[i]) \o Wfi])
      \o Mie({}) \o Expect({"TWD"}, {"begin", "received", "begin again", "end"}))
Tracer ==
  Test({"TRACER"}, Mie({"TRACER"}) \o Start("TRACER") \o Nops \o Receive("TRACER") \o Mie({})
                     \o Expect({"TRACER"}, {"TRACER"}))
Spi == Test({"SPI"}, Setup("SPI") \o Mie({"SPI"}) \o Start("SPI") \o Sleep("SPI"))
Twi ==
  Test({"TWI"}, Setup("TWI") \o Setup("TWD") \o Start("TWI") \o Mie({"TWI"}) \o Sleep("TWI"))
Gpio ==
  Test({"GPIO"},
    neorv32_rte_handler_install("GPIO", "gpio") \o MieSet("GPIO") \o Mstatus("mie", TRUE)
      \o Start("GPIO") \o Nops \o Mie({}) \o Expect({"GPIO"}, {"GPIO"}))
Neoled ==
  Test({"NEOLED"}, Mie({"NEOLED"}) \o Setup("NEOLED") \o Start("NEOLED") \o Nops \o Mie({})
                     \o Receive("NEOLED") \o Expect({"NEOLED"}, {"NEOLED"}))
Dma ==
  Test({"DMA"}, Mie({"DMA"}) \o Start("DMA") \o Sleep("DMA") \o Setup("DMA"))
Sdi ==
  Test({"SDI", "SPI"}, Setup("SDI") \o Setup("SPI") \o Mie({"SDI"}) \o Start("SDI") \o Sleep("SDI"))
Gptmr ==
  Test({"GPTMR"}, Setup("GPTMR") \o Mie({"GPTMR"}) \o Start("GPTMR") \o Sleep("GPTMR")
                    \o Setup("GPTMR"))
Onewire ==
  Test({"ONEWIRE"}, Setup("ONEWIRE") \o Start("ONEWIRE") \o Mie({"ONEWIRE"}) \o Wfi \o Mie({})
                      \o Expect({"ONEWIRE"}, {}))
Slink ==
  Test({"SLINK"}, Setup("SLINK") \o Mie({"SLINK"}) \o Start("SLINK") \o Nops \o Mie({})
                    \o Receive("SLINK") \o Expect({"SLINK"}, {"SLINK"}))
Trng ==
  Test({"TRNG"}, Setup("TRNG") \o Start("TRNG") \o Mie({"TRNG"}) \o Sleep("TRNG") \o Setup("TRNG"))

-----------------------------------------------------------------------------
Environment(handler) ==
  neorv32_rte_handler_install("MENV_CALL", handler) \o neorv32_rte_handler_install("UENV_CALL", handler)
RteContext ==
  Test({}, Environment("service") \o goto_user_mode \o Ecall \o Environment("global")
             \o Expect({"MENV_CALL", "UENV_CALL"}, {"service"}))
Heap == Works({}, "heap")
Constructor == Test({}, Does("constructor") \o Expect(AnyCause, {"constructor"}))
Smc == Works({"SMC", "SIM"}, "psram")
UserWfi ==         \* leaves the interrupts disabled
  Test({"CLINT", "U"}, Later \o Mie({"MTI"}) \o Mstatus("mie", FALSE) \o Mstatus("mpie", FALSE)
                         \o goto_user_mode \o Wfi \o Mie({}) \o Expect({"MTI"}, {}))
WfiPending ==
  Test({"CLINT"}, Mstatus("mie", FALSE) \o Later \o Mie({"MTI"}) \o Wfi \o Mie({})
                    \o Mstatus("mie", TRUE) \o Expect({"never"}, {}))
WfiNotAllowed ==   \* leaves the wait trap armed
  Test({"U"}, Mstatus("tw", TRUE) \o goto_user_mode \o Wfi \o Expect({"I_ILLEGAL"}, {}))
CsrInUser == Test({"U"}, goto_user_mode \o Protected("rd") \o Expect({"I_ILLEGAL"}, {}))
LrSc == Test({"ZALRSC"}, Does("pair") \o Raise("S_ACCESS", "none")
                           \o Expect({"S_ACCESS"}, {"pair"}))
AmoRmw == Test({"ZALRSC"}, Does("sum") \o Raise("S_MISALIGNED", "none") \o <<<<"count", 1>>>>
                             \o Expect({"S_MISALIGNED"}, {"sum", "count"}))

\* Six tests in a row on the same array.
PmpTests ==
  << Test({"PMP"}, goto_user_mode \o Access("read", "rd") \o Expect({"L_ACCESS"}, {})),
     Test({"PMP"}, neorv32_cpu_pmp_configure_region(0, {}) \o neorv32_cpu_pmp_configure_region(1, {"read"})
                     \o Expect({"never"}, {})),
     Test({"PMP"}, goto_user_mode \o Access("read", "rd") \o Ecall \o Expect(AnyCause, {"rd"})),
     Test({"PMP"}, goto_user_mode \o Access("write", "memory") \o Expect({"S_ACCESS"}, {})),
     Test({"PMP"}, goto_user_mode \o Access("exec", "ran") \o Expect({"I_ACCESS"}, {})),
     Test({"PMP"}, Mstatus("mprv", TRUE) \o <<<<"mpp_user">>>> \o Access("write", "memory")
                     \o Mstatus("mprv", FALSE) \o Expect({"S_ACCESS"}, {})),
     Test({"PMP"}, <<<<"lock", 1>>>> \o Access("write", "memory") \o Expect({"S_ACCESS"}, {})) >>

Smp ==
  Test({"SMP", "CLINT"}, Mie({"MSI"}) \o neorv32_smp_launch("core1_main", "core1_stack") \o Wfi
                           \o Mie({}) \o neorv32_clint_msi_clr(0)
                           \o Expect({"MSI"}, {"launched", "atomic_cnt"}))

Tests(features) ==
  <<Hpm, PmpSetup, Fences, Jtag, Zicntr, Mcounteren, Mcountinhibit, CntFilter, MretInUser, ExtMem,
    DcacheWriteBack, IllegalCsr, ReadOnlyCsr, ReadOnlyCsrNoWrite, IfAlign, IfAccess, IfUnaligned,
    IllegalInstr(IF "C" \in features THEN 18 ELSE 13), Break, LoadAlign, LoadAccess, StoreAlign,
    StoreAccess, EnvcallMachine, EnvcallUser, Mti, Msi, Mei, PermanentIrq, PendingIrq, VectoredIrq,
    Uart0, Uart1, Twd, Tracer, Spi, Twi, Gpio, Neoled, Dma, Sdi, Gptmr, Onewire, Slink, Trng,
    RteContext, Heap, Constructor, Smc, UserWfi, WfiPending, WfiNotAllowed, CsrInUser, LrSc, AmoRmw>>
  \o PmpTests \o <<Smp>>
-----------------------------------------------------------------------------
(* The floating-point test.                                                *)
riscv_intrinsic_fadds(a, b) == Zfinx(0, 0, a, b)
riscv_intrinsic_fsubs(a, b) == Zfinx(4, 0, a, b)
riscv_intrinsic_fmuls(a, b) == Zfinx(8, 0, a, b)
riscv_intrinsic_fmins(a, b) == Zfinx(20, 0, a, b)
riscv_intrinsic_fmaxs(a, b) == Zfinx(20, 1, a, b)
riscv_intrinsic_fcvt_wus(a) == Zfinx(96, 0, a, 1)
riscv_intrinsic_fcvt_ws(a) == Zfinx(96, 0, a, 0)
riscv_intrinsic_fcvt_swu(i) == Zfinx(104, 0, i, 1)
riscv_intrinsic_fcvt_sw(i) == Zfinx(104, 0, i, 0)
riscv_intrinsic_feqs(a, b) == Zfinx(80, 2, a, b)
riscv_intrinsic_flts(a, b) == Zfinx(80, 1, a, b)
riscv_intrinsic_fles(a, b) == Zfinx(80, 0, a, b)
riscv_intrinsic_fsgnjs(a, b) == Zfinx(16, 0, a, b)
riscv_intrinsic_fsgnjns(a, b) == Zfinx(16, 1, a, b)
riscv_intrinsic_fsgnjxs(a, b) == Zfinx(16, 2, a, b)
riscv_intrinsic_fclasss(a) == Zfinx(112, 1, a, 0)

\* An instruction the FPU does not decode.
Unsupported(funct7) == IF Decodes(funct7, 0) THEN Does("none") ELSE Raise("I_ILLEGAL", "none")
riscv_intrinsic_fdivs == Unsupported(12)
riscv_intrinsic_fsqrts == Unsupported(44)
riscv_intrinsic_fmadds == Raise("I_ILLEGAL", "none")    \* another opcode
riscv_intrinsic_fmsubs == Raise("I_ILLEGAL", "none")
riscv_intrinsic_fnmadds == Raise("I_ILLEGAL", "none")

-----------------------------------------------------------------------------
\* The random vectors: the bound is on their exponents, a few of each region.
Exponents == {0, 1, 3, 6, 7, 8, 12, 14, 15}
Floats == [s : {0, 1}, e : Exponents, m : 0 .. H - 1]
get_test_vector(kind) == IF kind = "integer" THEN 0 .. Ints - 1 ELSE Floats

\* Result of the FPU and of the emulation.
Results(op, a, b) ==
  CASE op = "FCVT.S.WU" -> <<riscv_intrinsic_fcvt_swu(a), riscv_emulate_fcvt_swu(a)>>
    [] op = "FCVT.S.W"  -> <<riscv_intrinsic_fcvt_sw(a), riscv_emulate_fcvt_sw(a)>>
    [] op = "FCVT.WU.S" -> <<riscv_intrinsic_fcvt_wus(a), riscv_emulate_fcvt_wus(a)>>
    [] op = "FCVT.W.S"  -> <<riscv_intrinsic_fcvt_ws(a), riscv_emulate_fcvt_ws(a)>>
    [] op = "FADD.S"    -> <<riscv_intrinsic_fadds(a, b), riscv_emulate_fadds(a, b)>>
    [] op = "FSUB.S"    -> <<riscv_intrinsic_fsubs(a, b), riscv_emulate_fsubs(a, b)>>
    [] op = "FMUL.S"    -> <<riscv_intrinsic_fmuls(a, b), riscv_emulate_fmuls(a, b)>>
    [] op = "FMIN.S"    -> <<riscv_intrinsic_fmins(a, b), riscv_emulate_fmins(a, b)>>
    [] op = "FMAX.S"    -> <<riscv_intrinsic_fmaxs(a, b), riscv_emulate_fmaxs(a, b)>>
    [] op = "FEQ.S"     -> <<riscv_intrinsic_feqs(a, b), riscv_emulate_feqs(a, b)>>
    [] op = "FLT.S"     -> <<riscv_intrinsic_flts(a, b), riscv_emulate_flts(a, b)>>
    [] op = "FLE.S"     -> <<riscv_intrinsic_fles(a, b), riscv_emulate_fles(a, b)>>
    [] op = "FSGNJ.S"   -> <<riscv_intrinsic_fsgnjs(a, b), riscv_emulate_fsgnjs(a, b)>>
    [] op = "FSGNJN.S"  -> <<riscv_intrinsic_fsgnjns(a, b), riscv_emulate_fsgnjns(a, b)>>
    [] op = "FSGNJX.S"  -> <<riscv_intrinsic_fsgnjxs(a, b), riscv_emulate_fsgnjxs(a, b)>>
    [] op = "FCLASS.S"  -> <<riscv_intrinsic_fclasss(a), riscv_emulate_fclasss(a)>>

Unary == {"FCVT.S.WU", "FCVT.S.W", "FCVT.WU.S", "FCVT.W.S", "FCLASS.S"}
Vectors(op) ==
  LET a == get_test_vector(IF op \in {"FCVT.S.WU", "FCVT.S.W"} THEN "integer" ELSE "float")
  IN a \X (IF op \in Unary THEN {0} ELSE Floats)

-----------------------------------------------------------------------------
\* The unit is known to differ from the emulation for a number just above one
\* half, which it converts to zero, and for a product just below the smallest
\* normal number, which it flushes before rounding.
HalfAndOne(op, a) == op \in {"FCVT.WU.S", "FCVT.W.S"} /\ a.e = Bias - 1 /\ a.m = 1
FlushesFirst(op, r) == op = "FMUL.S" /\ \E s \in {0, 1} : r = <<Zero(s), Float(s, 1, 0)>>

\* What a comparison of the results r for the operand a may show.
verify_result(op, a, r) ==
  IF op \in {"FCVT.WU.S", "FCVT.W.S"} /\ r[2] = Unspecified THEN {"agrees", "unspecified"}
  ELSE IF r[1] = r[2] THEN {"agrees"}
  ELSE IF HalfAndOne(op, a) \/ FlushesFirst(op, r) THEN {"known"} ELSE {"disagrees"}

Compared == Unary \union {"FADD.S", "FSUB.S", "FMUL.S", "FMIN.S", "FMAX.S", "FEQ.S", "FLT.S",
                          "FLE.S", "FSGNJ.S", "FSGNJN.S", "FSGNJX.S"}
Outcomes(op) == {<<v[1], Results(op, v[1], v[2])>> : v \in Vectors(op)}
Reports == [op \in Compared |-> UNION {verify_result(op, o[1], o[2]) : o \in Outcomes(op)}]

-----------------------------------------------------------------------------
\* A test fails when one of its comparisons does.
Compare(op) == [needs |-> {}, body |-> <<<<"float", op>>>> \o Expect(AnyCause, {})]
CompareAll(ops) == [i \in 1 .. Len(ops) |-> Compare(ops[i])]
Unavailable(instr) == Test({}, instr \o Expect({"I_ILLEGAL"}, {}))

FloatStartup == neorv32_rte_setup
CsrTests == <<Works({}, "FFLAGS"), Works({}, "FRM"), Works({}, "FCSR")>>
ExceptionTests == <<Works({}, "NV")>>
ConversionTests == CompareAll(<<"FCVT.S.WU", "FCVT.S.W", "FCVT.WU.S", "FCVT.W.S">>)
AddSubTests == CompareAll(<<"FADD.S", "FSUB.S">>)
MulTests == CompareAll(<<"FMUL.S">>)
MinMaxTests == CompareAll(<<"FMIN.S", "FMAX.S">>)
CompareTests == CompareAll(<<"FEQ.S", "FLT.S", "FLE.S">>)
SignTests == CompareAll(<<"FSGNJ.S", "FSGNJN.S", "FSGNJX.S">>)
ClassTests == CompareAll(<<"FCLASS.S">>)
CornerTests == [i \in 1 .. 5 |-> Works({}, "no timeout")]
UnavailableTests ==
  << Unavailable(riscv_intrinsic_fdivs), Unavailable(riscv_intrinsic_fsqrts),
     Unavailable(riscv_intrinsic_fmadds), Unavailable(riscv_intrinsic_fmsubs),
     Unavailable(riscv_intrinsic_fnmadds), Unavailable(riscv_intrinsic_fnmadds) >>
TimingTests == CompareAll(<<"FCVT.S.W", "FCVT.W.S", "FADD.S", "FSUB.S">>)
MoreTimingTests == CompareAll(<<"FMUL.S", "FMAX.S", "FLE.S", "FSGNJX.S">>)

FloatTestList ==
  CsrTests \o ExceptionTests \o ConversionTests \o AddSubTests \o MulTests \o MinMaxTests
  \o CompareTests \o SignTests \o ClassTests \o CornerTests \o UnavailableTests
  \o TimingTests \o MoreTimingTests
=============================================================================
