--------------------------- MODULE RadioHardware ---------------------------
(***************************************************************************)
(* What the radio firmwares drive: the AD9361 with its interface core, the *)
(* GPIO pins, and the streaming bridge that bursts the transmit buffer and *)
(* captures Depth received samples at a time.  None of it is RTL of this   *)
(* repository; it is modelled from the way sw/ad9361_no-os/main.c,         *)
(* sw/ad9361_loopback/main.c and their axi_streaming_adapter_ctrl.h use    *)
(* it.  A program is a sequence of operations, one of which is the         *)
(* operator Exec; the bridge runs concurrently.                            *)
(***************************************************************************)
EXTENDS Integers, Sequences

CONSTANTS
  Depth,       \* BRIDGE_SAMPLE_DEPTH
  MaxErrors,   \* bound: calls of the driver that fail
  MayFail      \* operations of the driver that may fail

VARIABLES
  program,   \* the firmware that runs; never changes
  board,     \* xilinx: which platform; stops: SLEEP stops l_clk; faulty: the
             \* receive path is "good", "deaf" or "deaf" after a power cycle
  chip, core, pins, bridge,
  fw,        \* the firmware's variables and what it printed last
  todo,      \* operations left
  errors     \* failed calls so far

hw == <<chip, core, pins, bridge>>

Samples(v) == [i \in 1 .. Depth |-> v]

-----------------------------------------------------------------------------
(* State after reset.                                                      *)

ChipOff == [ensm |-> "SLEEP", lo |-> FALSE, pinctrl |-> FALSE, bist |-> FALSE, lb |-> 0,
            quad |-> "none", residual |-> 0, gain |-> "agc", atten |-> "0"]

CoreReset == [configured |-> FALSE, data_sel |-> "dds", saved |-> "none", clksel |-> 0,
              eye |-> "stale", skipmode |-> 2, held |-> FALSE,
              cycled |-> FALSE]

BridgeReset == [state |-> "IDLE", count |-> 0, ctrl |-> {}, seen |-> {}, rx |-> Samples("none")]

\* DATA_CLK, and with it the clock of the sample side, runs.
LClk == ~pins.lclk_dead /\ ~(board.stops /\ chip.ensm = "SLEEP")

\* The chip ignores the pins unless ENABLE_ENSM_PIN_CTRL is set.
OnAir == chip.ensm = "FDD" /\ chip.lo /\ (chip.pinctrl => pins.up_enable /\ pins.up_txnrx)

Deaf == \/ ~core.configured \/ core.held
        \/ board.faulty = "deaf"
        \/ board.faulty = "deaf_after_cycle" /\ core.cycled

-----------------------------------------------------------------------------
(* The bridge.  A control register acts once each time it is raised; a     *)
(* reset acts in RECEIVE only.                                             *)
Raised(c) == c \in bridge.ctrl \ bridge.seen

BridgeStep ==
  /\ \/ /\ bridge.state = "IDLE" /\ Raised("enable")
        /\ bridge' = [bridge EXCEPT !.state = "SEND_AND_RECEIVE", !.seen = @ \union {"enable"}]
     \/ /\ bridge.state = "SEND_AND_RECEIVE" /\ LClk
        /\ bridge' = [bridge EXCEPT !.state = "RECEIVE"]
     \/ /\ bridge.state = "RECEIVE" /\ LClk /\ bridge.count < Depth
        /\ bridge' = [bridge EXCEPT !.count = @ + 1,
                                    !.rx[bridge.count + 1] = IF Deaf THEN "zero" ELSE "new"]
     \/ /\ bridge.state = "RECEIVE" /\ bridge.count = Depth /\ Raised("rx_read_done")
        /\ bridge' = [bridge EXCEPT !.count = 0, !.seen = @ \union {"rx_read_done"}]
     \/ /\ bridge.state = "RECEIVE" /\ Raised("reset")
        /\ bridge' = [bridge EXCEPT !.state = "IDLE", !.count = 0, !.seen = @ \union {"reset"}]
  /\ UNCHANGED <<program, board, chip, core, pins, fw, todo, errors>>

\* The bridge will not move by itself: what software polls for in vain.
Stalled == /\ bridge.state = "IDLE" => ~Raised("enable")
           /\ bridge.state = "SEND_AND_RECEIVE" => ~LClk
           /\ bridge.state = "RECEIVE" =>
                /\ ~Raised("reset")
                /\ IF bridge.count = Depth THEN ~Raised("rx_read_done") ELSE ~LClk

-----------------------------------------------------------------------------
(* Register accesses of axi_streaming_adapter_ctrl.h as operations: write  *)
(* a control register, poll until a condition holds or the time is out.    *)
Write(c, v) == <<"write", c, v>>
Poll(what) == <<"poll", what>>
PollOrFail(what) == <<"poll_or_fail", what>>

Reached(what) ==
  CASE what = "idle"     -> bridge.state = "IDLE"
    [] what = "receive"  -> bridge.state = "RECEIVE"
    [] what = "rx_full"  -> bridge.count = Depth
    [] what = "rx_empty" -> bridge.count < Depth

WriteControl(c, v) ==
  /\ bridge' = IF v = 1 THEN [bridge EXCEPT !.ctrl = @ \union {c}]
               ELSE [bridge EXCEPT !.ctrl = @ \ {c}, !.seen = @ \ {c}]
  /\ UNCHANGED <<chip, core, pins, fw>>

-----------------------------------------------------------------------------
(* Calls of the AD9361 driver.  Failing leaves the chip as it was.         *)

Succeeds(op) == UNCHANGED errors
Fails(op) == /\ op[1] \in MayFail /\ errors < MaxErrors
             /\ errors' = errors + 1
             /\ fw' = [fw EXCEPT !.clean = FALSE]
             /\ UNCHANGED hw

Chip(c) == chip' = c /\ UNCHANGED <<core, pins, bridge, fw>>
Core(c) == core' = c /\ UNCHANGED <<chip, pins, bridge, fw>>

ad9361_set_en_state_machine_mode(mode) ==
  Chip([chip EXCEPT !.ensm = mode, !.pinctrl = FALSE])

\* Powering the synthesizers down invalidates the TX quadrature correction,
\* SLEEP the sampling point of the LVDS receiver where there are IDELAYs.
lo_powerdown(v) ==
  Chip([chip EXCEPT !.lo = ~v, !.quad = IF v THEN "stale" ELSE @])

Sleep ==
  /\ chip' = [chip EXCEPT !.ensm = "SLEEP", !.pinctrl = FALSE]
  /\ core' = [core EXCEPT !.eye = IF board.xilinx THEN "stale" ELSE @]
  /\ UNCHANGED <<pins, bridge, fw>>

\* dig_tune does nothing at skipmode 2; else it centres the eye and leaves a
\* residue in the chip that adds up.
ad9361_dig_tune ==
  IF core.skipmode = 2 THEN UNCHANGED <<hw, fw>>
  ELSE /\ core' = [core EXCEPT !.eye = "good"]
       /\ chip' = [chip EXCEPT !.residual = IF @ < 2 THEN @ + 1 ELSE @]
       /\ UNCHANGED <<pins, bridge, fw>>

\* Leaving the loopback clears that residue if no PRBS is injected.
ad9361_bist_loopback(m) ==
  Chip([chip EXCEPT !.lb = m,
                    !.residual = IF chip.lb = 1 /\ m = 0 /\ ~chip.bist THEN 0 ELSE @])

Pins(s, v) == /\ pins' = [p \in DOMAIN pins |-> IF p \in s THEN v ELSE pins[p]]
              /\ core' = IF "pwr_dn" \in s     \* holds the core in reset
                           THEN IF v THEN [CoreReset EXCEPT !.held = TRUE, !.cycled = TRUE]
                                ELSE [core EXCEPT !.held = FALSE]
                           ELSE core
              /\ UNCHANGED <<chip, bridge, fw>>

Call(op) ==
  CASE op[1] = "ensm"     -> IF op[2] = "SLEEP" THEN Sleep
                             ELSE ad9361_set_en_state_machine_mode(op[2])
    [] op[1] = "lo_down"  -> lo_powerdown(op[2])
    [] op[1] = "init"     -> /\ chip' = [chip EXCEPT !.ensm = "ALERT", !.lo = TRUE, !.quad = "good"]
                             /\ core' = [core EXCEPT !.configured = TRUE, !.eye = "good"]
                             /\ UNCHANGED <<pins, bridge, fw>>
    [] op[1] = "ensm_config_1" -> Chip([chip EXCEPT !.ensm = "FDD", !.pinctrl = op[2]])
    [] op[1] = "dig_tune" -> ad9361_dig_tune
    [] op[1] = "bist"     -> Chip([chip EXCEPT !.bist = op[2]])
    [] op[1] = "loopback" -> ad9361_bist_loopback(op[2])
    [] op[1] = "quad"     -> Chip([chip EXCEPT !.quad = IF fw.snap # "none" THEN fw.snap ELSE @])
    [] op[1] = "gain"     -> Chip([chip EXCEPT !.gain = op[2]])
    [] op[1] = "atten"    -> Chip([chip EXCEPT !.atten = op[2]])
    [] op[1] = "calib"    -> UNCHANGED <<hw, fw>>
=============================================================================
