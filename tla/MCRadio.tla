------------------------------ MODULE MCRadio ------------------------------
(* Both platforms, SLEEP with and without a running l_clk; sound and faulty *)
(* receive paths for the loopback program.                                 *)
EXTENDS Radio

Board(x, s, f) == [xilinx |-> x, stops |-> s, faulty |-> f]

mcBoards ==
  {<<"no_os", Board(x, s, "good")>> : x \in BOOLEAN, s \in BOOLEAN}
  \union {<<"handler", Board(TRUE, FALSE, "good")>>}
  \union {<<"loopback", Board(TRUE, FALSE, f)>> : f \in {"good", "deaf", "deaf_after_cycle"}}

mcCommands ==
  {"enable_rf", "disable_rf", "enable_snapshot", "hold_bist", "stop_bist", "pinctl_rx",
   "pinctl_off", "loopback_on", "loopback_off", "clksel_on", "clksel_off", "set_tx_atten",
   "set_rx_gain", "get_chip_status", "get_valid_rate", "power_down", "power_down_t0", "power_up", "power_up_t0", "other"}

mcMayFail == {"init", "ensm", "quad", "bist", "loopback", "gain", "atten", "calib"}
=============================================================================
