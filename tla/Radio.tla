------------------------------- MODULE Radio -------------------------------
(***************************************************************************)
(* The radio firmwares running against the hardware: the command loops of  *)
(* ad9361_no-os and of the two handlers, and the self-checking program of  *)
(* ad9361_loopback.  The bridge captures while the processor executes.     *)
(***************************************************************************)
EXTENDS RadioFirmware, FiniteSets

CONSTANTS
  Boards,      \* boards and the program that runs on them
  Commands,    \* command lines; everything else is "other"
  MaxCommands  \* bound

vars == <<program, board, chip, core, pins, bridge, fw, todo, errors>>

NoPins == [p \in {"up_enable", "up_txnrx", "lclk_dead", "pwr_dn", "result", "result_valid"}
             |-> FALSE]

\* clean: no call failed since boot or wake; touched: a command changed the
\* configuration since; forced: pinctl_rx or pinctl_off overrode the ENSM.
FwStart == [power_state |-> TRUE, rf_enabled |-> FALSE, snap |-> "none", iq |-> "old",
            count |-> 0, pass_count |-> 0, reply |-> "none",
            clean |-> TRUE, touched |-> FALSE, forced |-> FALSE, commands |-> 0]

Init ==
  /\ \E b \in Boards : program = b[1] /\ board = b[2]
  /\ chip = ChipOff /\ core = CoreReset /\ pins = NoPins /\ bridge = BridgeReset
  /\ fw = FwStart /\ errors = 0
  /\ todo = CASE program = "no_os"    -> Boot
              [] program = "handler"  -> <<<<"reply", "ready">>>>
              [] program = "loopback" -> Loopback

AtConsole == todo = <<>> /\ fw.reply # "none"

-----------------------------------------------------------------------------
(* Operations of the firmware on its own variables.                        *)

Fw(f) == fw' = f /\ UNCHANGED hw

\* The samples in the buffer have been used.
Used(tag) == [bridge EXCEPT !.rx = [i \in DOMAIN @ |-> IF @[i] = "none" THEN @[i] ELSE tag]]

MeasuredNonzero == \E i \in 1 .. Depth : bridge.rx[i] # "zero"

Local(op) ==
  CASE op[1] = "rf_enabled" -> Fw([fw EXCEPT !.rf_enabled = op[2]])
    [] op[1] = "power"    ->   \* what was captured before is old from here on
        /\ fw' = [fw EXCEPT !.power_state = op[2]]
        /\ bridge' = IF op[2] THEN bridge ELSE Used("old")
        /\ UNCHANGED <<chip, core, pins>>
    [] op[1] = "skipmode" -> Core([core EXCEPT !.skipmode = op[2]])
    [] op[1] = "data_sel" -> Core([core EXCEPT !.data_sel = op[2]])
    [] op[1] = "save_dac" -> Core([core EXCEPT !.saved = core.data_sel])
    [] op[1] = "restore_dac" -> Core([core EXCEPT !.data_sel = core.saved])
    [] op[1] = "clksel"   -> Core([core EXCEPT !.clksel = op[2]])
    [] op[1] = "configure" -> Core([core EXCEPT !.configured = TRUE, !.data_sel = "dma"])
    [] op[1] = "take_snap" -> Fw([fw EXCEPT !.snap = chip.quad])
    [] op[1] = "send"     ->
        /\ bridge' = Used("sent")
        /\ UNCHANGED <<chip, core, pins, fw>>
    [] op[1] = "capture"  -> Fw([fw EXCEPT !.iq = "new"])
    [] op[1] = "send_iq"  -> Fw([fw EXCEPT !.iq = "old"])
    [] op[1] = "readback_rx" ->
        Fw([fw EXCEPT !.count = IF op[2] /\ MeasuredNonzero THEN @ + 1 ELSE @])
    [] op[1] = "keep_pass_count" -> Fw([fw EXCEPT !.pass_count = fw.count, !.count = 0])
    [] op[1] = "verdict"  ->   \* pass_count == NUM_READBACK_CYCLES - 1 && post_wake_nonzero > 0
        Pins({"result"}, fw.pass_count = 2 /\ fw.count > 0)
    [] op[1] = "pins"     -> Pins(op[2], op[3])
    [] op[1] = "reply"    -> Fw([fw EXCEPT !.reply = op[2]])
    [] op[1] = "load_tx_data" -> UNCHANGED <<hw, fw>>
    [] op[1] = "observe"  -> UNCHANGED <<hw, fw>>

Locals == {"rf_enabled", "power", "skipmode", "data_sel", "save_dac", "restore_dac", "clksel",
           "configure", "take_snap", "send", "capture", "send_iq", "readback_rx",
           "keep_pass_count", "verdict", "pins", "reply", "load_tx_data", "observe"}

Calls == {"ensm", "lo_down", "init", "ensm_config_1", "dig_tune", "bist", "loopback",
          "quad", "gain", "atten", "calib"}

-----------------------------------------------------------------------------
(* One operation.                                                          *)
Op == Head(todo)
Continue == todo' = Tail(todo) /\ UNCHANGED <<program, board>>
Kept == UNCHANGED <<chip, core, pins, bridge, fw>>

ExecLocal == /\ Op[1] \in Locals
             /\ Local(Op) /\ Continue /\ UNCHANGED errors

ExecWrite == /\ Op[1] = "write"
             /\ WriteControl(Op[2], Op[3]) /\ Continue /\ UNCHANGED errors

\* Calls whose result the code does not look at.
ExecCall == /\ Op[1] \in Calls
            /\ Continue
            /\ \/ Call(Op) /\ Succeeds(Op)
               \/ Fails(Op)

\* Calls it does look at: a failure ends the command, and the boot for ever.
ExecChecked ==
  /\ Op[1] = "checked"
  /\ UNCHANGED <<program, board>>
  /\ \/ Call(Op[2]) /\ Succeeds(Op[2]) /\ todo' = Tail(todo)
     \/ Fails(Op[2]) /\ todo' = IF fw.reply = "none" THEN <<<<"halt">>>> ELSE <<>>

\* Polling ends when the condition holds or, after a time the hardware does
\* not need, without it.
ExecPoll ==
  /\ Op[1] = "poll"
  /\ Reached(Op[2]) \/ Stalled
  /\ Continue /\ Kept /\ UNCHANGED errors

ExecPollOrFail ==
  /\ Op[1] = "poll_or_fail"
  /\ \/ Reached(Op[2]) /\ todo' = Tail(todo)
     \/ ~Reached(Op[2]) /\ Stalled /\ todo' = <<>>
  /\ Kept /\ UNCHANGED <<program, board, errors>>

ExecAwait == /\ Op[1] = "await" /\ Reached(Op[2])
             /\ Continue /\ Kept /\ UNCHANGED errors

\* run_readback_cycles: a cycle whose buffer does not fill is skipped.
ExecPollOrSkip ==
  /\ Op[1] = "poll_or_skip"
  /\ \/ Reached("rx_full") /\ todo' = Tail(todo)
     \/ ~Reached("rx_full") /\ Stalled /\ todo' = SubSeq(todo, Op[2] + 2, Len(todo))
  /\ Kept /\ UNCHANGED <<program, board, errors>>

\* The delay of bridge_ctrl_pulse: long enough for the bridge.
ExecDelay == /\ Op[1] = "delay"
             /\ \/ bridge.state = "RECEIVE" => ~Raised("reset") /\ ~Raised("rx_read_done")
                \/ Stalled
             /\ Continue /\ Kept /\ UNCHANGED errors

-----------------------------------------------------------------------------
(* main: read_command and the dispatch.                                    *)
Touching == {"hold_bist", "loopback_on", "set_tx_atten", "set_rx_gain", "disable_rf",
             "pinctl_rx", "pinctl_off"}

Command(c) ==
  /\ AtConsole /\ program # "loopback" /\ fw.commands < MaxCommands
  /\ todo' = IF program = "no_os" THEN no_os_command(c) ELSE handler_command(c)
  /\ fw' = [fw EXCEPT
       !.commands = @ + 1, !.reply = "other",
       !.touched = IF c \in {"power_up", "power_up_t0"} /\ ~fw.power_state THEN FALSE
                   ELSE @ \/ (c \in Touching /\ todo' # <<<<"reply", "powered_down">>>>),
       !.clean   = IF c \in {"power_up", "power_up_t0"} /\ ~fw.power_state THEN TRUE ELSE @,
       !.forced  = \/ c \in {"pinctl_rx", "pinctl_off"}
                   \/ @ /\ ~(c \in {"power_up", "power_up_t0"} /\ ~fw.power_state)]
  /\ UNCHANGED <<program, board, chip, core, pins, bridge, errors>>

Firmware == /\ todo # <<>>
            /\ \/ ExecLocal \/ ExecWrite \/ ExecCall \/ ExecChecked \/ ExecPoll
               \/ ExecPollOrFail \/ ExecAwait \/ ExecPollOrSkip \/ ExecDelay

Next == Firmware \/ BridgeStep \/ \E c \in Commands : Command(c)

Spec == Init /\ [][Next]_vars

-----------------------------------------------------------------------------
(* Properties.                                                             *)

\* The RF is what the firmware says.  After power_down, whatever commands and
\* failing calls came before and come after it, the transmitter is silent, the
\* pins are low and get_status says that the RF is off, until power_up: this is
\* why power_down both puts the chip to sleep and powers its synthesizers down.
\* While powered, RF is ON exactly if the chip is on the air and its pins are
\* high, unless a call failed or the ENSM was overridden since the last wake.
RfIsAsTold ==
  AtConsole =>
    /\ ~fw.power_state =>
         ~OnAir /\ ~fw.rf_enabled /\ ~pins.up_enable /\ ~pins.up_txnrx
    /\ program = "no_os" /\ fw.clean /\ ~fw.forced =>
         fw.rf_enabled = OnAir /\ fw.rf_enabled = pins.up_enable /\ pins.up_enable = pins.up_txnrx

\* A power cycle leads back to the configuration that boot left, whatever was
\* changed before it and while the chip slept, if no call failed since the wake
\* began: chip, sampling point, TX quadrature correction, DAC source and bridge.
\* Hence ad9361_loopback reports PASS exactly if the receive path works, before
\* and after its power cycle.
WakesAsBooted ==
  /\ program = "no_os" /\ AtConsole /\ fw.power_state /\ fw.clean /\ ~fw.touched =>
       /\ chip = [ensm |-> "FDD", lo |-> TRUE, pinctrl |-> FALSE, bist |-> FALSE, lb |-> 0,
                  quad |-> "good", residual |-> chip.residual, gain |-> "30", atten |-> "10000"]
       /\ chip.residual <= 1
       /\ core.eye = "good" /\ core.skipmode = 2 /\ core.data_sel = "dma"
       /\ bridge.state = "RECEIVE" /\ bridge.ctrl = {}
  /\ pins.result_valid => pins.result = (board.faulty = "good")

\* What enable_snapshot sends is one full capture that was never sent before
\* and that was made after the last wake (the handlers: read by this command).
SnapshotIsNew ==
  todo # <<>> =>
    /\ Op[1] = "send" =>
         bridge.count = Depth /\ \A i \in 1 .. Depth : bridge.rx[i] = "new"
    /\ Op[1] = "send_iq" => fw.iq = "new"

\* The fabric is never taken out of reset, nor put into it, the other way
\* round: pwr_dn falls only while l_clk runs and rises only while it is dead.
GatedWhileClockIsDead == [][pins'.pwr_dn # pins.pwr_dn => LClk = ~pins'.pwr_dn]_vars
=============================================================================
