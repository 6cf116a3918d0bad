-------------------------- MODULE MCProcessorCheck --------------------------
(* A processor with a floating-point unit; the default testbench without   *)
(* and with compressed instructions, without one of its optional parts, a  *)
(* minimal processor, and the default one with each defect.                *)
EXTENDS ProcessorCheck, Auxiliary, OneWire

Full == {"U", "C", "CLINT", "SIM", "XBUS", "DCACHE", "UART0", "UART1", "TWD", "TRACER", "SPI",
         "TWI", "GPIO", "NEOLED", "DMA", "SDI", "GPTMR", "ONEWIRE", "SLINK", "TRNG", "SMC",
         "ZALRSC", "PMP", "HPM", "SMCNTRPMF", "SMP"}

\* TWI and TWD talk to each other.
Parts == {{f} : f \in Full \ {"U", "C", "TWI", "TWD"}} \union {{"TWI", "TWD"}}

Minimal == {"noC"}

Defects ==
  {<<"no_trap", c>> : c \in Exceptions \ {"I_MISALIGNED"}}
  \union {<<"no_irq", c>> : c \in Interrupts}
  \union {<<"cause", c>> : c \in (Exceptions \union Interrupts) \ {"I_MISALIGNED"}}
  \union {<<"data", d>> : d \in {"UART0", "UART1", "TRACER", "SPI", "TWI", "NEOLED", "DMA", "SDI",
                                 "GPTMR", "SLINK", "TRNG", "fence", "debugger", "overflow",
                                 "cycle", "stopped", "machine", "user", "executed", "psram", "pair",
                                 "sum", "heap"}}
  \union {<<"effect", m>> : m \in {"rd", "memory", "mie"}}
  \union {<<"mret", "mie">>, <<"spurious", "I_ILLEGAL">>, <<"pmp", "open">>, <<"pmp", "lock">>,
          <<"ignored", "tw">>, <<"slow", "core1">>}

None == <<"none", "none">>

mcProcessors ==
  {<<{"ZFINX"}, None>>, <<Full, None>>, <<(Full \ {"C"}) \union {"noC"}, None>>, <<Minimal, None>>}
  \union {<<Full \ p, None>> : p \in Parts}
  \union {<<Full, d>> : d \in Defects}
  \union {<<(Full \ {"C"}) \union {"noC"}, <<k, "I_MISALIGNED">>>> : k \in {"no_trap", "cause"}}
=============================================================================
