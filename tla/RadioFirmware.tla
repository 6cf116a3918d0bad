--------------------------- MODULE RadioFirmware ---------------------------
(***************************************************************************)
(* The radio firmwares as sequences of operations: what each command of    *)
(* sw/ad9361_no-os, sw/qpsk_handler and sw/snapshot_handler does, and the  *)
(* whole of sw/ad9361_loopback.  Module Radio executes them.               *)
(***************************************************************************)
EXTENDS Integers, Sequences, SequencesExt, RadioHardware

Checked(op) == <<"checked", op>>          \* a failure ends the command

-----------------------------------------------------------------------------
(* ad9361_no-os/axi_streaming_adapter_ctrl.h.                              *)
bridge_reset == <<Write("reset", 1), Poll("idle"), Write("reset", 0)>>

bridge_enable == <<Write("enable", 1), Poll("receive"), Write("enable", 0)>>

\* Mutant: the pulse is over before the bridge has seen it.
bridge_release_rx_nowait == <<Write("rx_read_done", 1), Write("rx_read_done", 0)>>
bridge_release_rx == <<Write("rx_read_done", 1), Poll("rx_empty"), Write("rx_read_done", 0)>>

StartBridge == bridge_reset \o <<<<"load_tx_data">>>> \o bridge_enable

-----------------------------------------------------------------------------
(* ad9361_no-os/main.c.                                                    *)
Rf(v) == <<<<"pins", {"up_enable", "up_txnrx"}, v>>, <<"rf_enabled", v>>>>

\* Reads registers and counters and prints them.
Observe == <<"observe">>

\* The dumps only read and print: the link clock, the state of the chip.
dump_adc_status == <<Observe>>
dump_dac_status == <<Observe>>
dump_chip_status == <<Observe>>

diag_dig_tune_one_step ==
  <<<<"bist", FALSE>>, Observe, <<"bist", TRUE>>, Observe, <<"bist", FALSE>>>>

diag_chip_loopback_test ==
  <<<<"save_dac">>, <<"loopback", 1>>, <<"data_sel", "pn9">>, Observe, <<"restore_dac">>,
    <<"loopback", 0>>>>

\* dig_tune with the skip mode that makes it run.
Tune == <<<<"skipmode", 1>>, <<"dig_tune">>, <<"skipmode", 2>>>>

Gains == <<<<"gain", "30">>, <<"atten", "10000">>>>

Boot ==
  <<Checked(<<"init">>), Checked(<<"ensm", "FDD">>), <<"data_sel", "dma">>>>
  \o diag_dig_tune_one_step \o diag_chip_loopback_test \o Tune
  \o StartBridge \o Rf(TRUE) \o dump_adc_status \o dump_dac_status \o dump_chip_status
  \o <<<<"bist", FALSE>>, <<"loopback", 0>>>>
  \o Gains \o <<<<"take_snap">>, <<"reply", "ready">>>>

enable_rf ==
  <<<<"pins", {"up_enable", "up_txnrx"}, TRUE>>, Checked(<<"ensm", "FDD">>),
    <<"rf_enabled", TRUE>>>>

disable_rf == <<Checked(<<"ensm", "ALERT">>)>> \o Rf(FALSE)

enable_snapshot == <<PollOrFail("rx_full"), <<"send">>>> \o bridge_release_rx

pinctl_rx ==
  <<<<"pins", {"up_enable", "up_txnrx"}, TRUE>>, <<"ensm_config_1", TRUE>>, Observe>>

power_down_nolo ==  \* Mutant: leaves the synthesizers on
  bridge_reset \o Rf(FALSE) \o <<<<"ensm", "ALERT">>, <<"ensm", "SLEEP">>, <<"power", FALSE>>>>

power_down ==
  bridge_reset \o Rf(FALSE)
  \o <<<<"ensm", "ALERT">>, <<"lo_down", TRUE>>, <<"ensm", "SLEEP">>, <<"power", FALSE>>>>

\* power_up, and power_up_t0, which also probes the capture.
Wake(probe) ==
  <<<<"ensm", "ALERT">>, <<"lo_down", FALSE>>, <<"calib">>, <<"quad">>,
    <<"ensm", "FDD">>, Observe>>
  \o probe
  \o (IF board.xilinx THEN Tune ELSE <<>>)
  \o <<<<"bist", FALSE>>, <<"loopback", 1>>, <<"loopback", 0>>>>
  \o Rf(TRUE) \o StartBridge \o Gains \o <<<<"power", TRUE>>>>

power_up == Wake(<<>>)
power_up_t0 == Wake(diag_dig_tune_one_step)

Powered(script) == IF fw.power_state THEN script ELSE <<<<"reply", "powered_down">>>>

\* What a command line makes the firmware do.  Everything it does not know,
\* an overlong line and a malformed argument included, is ignored.
no_os_command(c) ==
  CASE c = "enable_rf"       -> Powered(enable_rf)
    [] c = "disable_rf"      -> Powered(disable_rf)
    [] c = "enable_snapshot" -> Powered(enable_snapshot)
    [] c = "get_adc_status"  -> dump_adc_status
    [] c = "get_dac_status"  -> dump_dac_status
    [] c = "get_chip_status" -> dump_chip_status
    [] c = "get_valid_rate"  -> Powered(<<Observe>>)
    [] c = "hold_bist"       -> <<<<"bist", TRUE>>, Observe>>
    [] c = "stop_bist"       -> <<<<"bist", FALSE>>>>
    [] c = "pinctl_rx"       -> Powered(pinctl_rx)
    [] c = "pinctl_off"      -> <<<<"ensm_config_1", FALSE>>, Observe>>
    [] c = "loopback_on"     -> <<<<"bist", FALSE>>, <<"loopback", 1>>>>
    [] c = "loopback_off"    -> <<<<"loopback", 0>>>>
    [] c = "clksel_on"       -> <<<<"clksel", 1>>>>
    [] c = "clksel_off"      -> <<<<"clksel", 0>>>>
    [] c = "set_tx_atten"    -> <<<<"atten", "other">>>>
    [] c = "set_rx_gain"     -> <<<<"gain", "other">>>>
    [] c = "power_down"      -> IF fw.power_state THEN power_down ELSE <<<<"reply", "already_down">>>>
    [] c = "power_down_t0"   -> IF fw.power_state THEN power_down ELSE <<<<"reply", "already_down">>>>
    [] c = "power_up"        -> IF fw.power_state THEN <<<<"reply", "already_up">>>> ELSE power_up
    [] c = "power_up_t0"     -> IF fw.power_state THEN <<<<"reply", "already_up">>>> ELSE power_up_t0
    [] OTHER                 -> <<>>

-----------------------------------------------------------------------------
(* qpsk_handler/main.c and snapshot_handler/main.c.                        *)
handle_enable_snapshot == <<<<"capture">>, <<"send_iq">>>>

handler_command(c) ==
  CASE c = "enable_rf"       -> Rf(TRUE)
    [] c = "disable_rf"      -> Rf(FALSE)
    [] c = "enable_snapshot" -> handle_enable_snapshot
    [] OTHER                 -> <<>>

-----------------------------------------------------------------------------
(* ad9361_loopback/main.c.                                                 *)
ctrl_pulse(c) == <<Write(c, 1), <<"delay">>, Write(c, 0)>>

enable_and_wait == <<Write("enable", 1), <<"await", "receive">>, Write("enable", 0)>>

cycle(n) ==
  <<<<"poll_or_skip", 4>>, <<"readback_rx", n > 0>>>> \o ctrl_pulse("rx_read_done")

run_readback_cycles == FlattenSeq([n \in 1 .. 3 |-> cycle(n - 1)])

TxBurst == <<<<"load_tx_data">>>> \o enable_and_wait

Configure_noreset == <<Observe>>          \* Mutant: the core stays in reset

Configure == <<<<"configure">>>>

PowerCycle_swapped ==  \* Mutant: releases the resets before the clock is back
  <<<<"pins", {"lclk_dead"}, TRUE>>, <<"pins", {"pwr_dn"}, TRUE>>,
    <<"pins", {"pwr_dn"}, FALSE>>, <<"pins", {"lclk_dead"}, FALSE>>>>
PowerCycle ==
  <<<<"pins", {"lclk_dead"}, TRUE>>, <<"pins", {"pwr_dn"}, TRUE>>,
    <<"pins", {"lclk_dead"}, FALSE>>, <<"pins", {"pwr_dn"}, FALSE>>>>

Loopback ==
  Configure \o <<<<"pins", {"up_enable", "up_txnrx"}, TRUE>>>>
  \o TxBurst \o run_readback_cycles \o <<<<"keep_pass_count">>>>
  \o PowerCycle
  \o Configure \o <<<<"pins", {"up_enable", "up_txnrx"}, TRUE>>>>
  \o ctrl_pulse("reset") \o TxBurst \o run_readback_cycles
  \o <<<<"verdict">>, <<"pins", {"result_valid"}, TRUE>>, <<"halt">>>>
=============================================================================
