SPECIFICATION Spec
CONSTANTS
  RxDepth = 2
  TxDepth = 1
  Words = 4
  IrqConfigs = {{}, {"rx_nempty", "tx_empty"}}
  BusOps = {"read_ctrl", "read_data", "write_data"}
INVARIANTS
  ExactlyOnce
PROPERTIES
  
  AttributesOfLastRead
