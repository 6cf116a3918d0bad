----------------------------- MODULE MCAtomics -----------------------------
(***************************************************************************)
(* Atomics on one-bit words.  Addresses 0 and 1 share a granule, address   *)
(* 1 faults, address 2 lies in another granule.                            *)
(***************************************************************************)
EXTENDS Atomics

OneBit == INSTANCE AmoAlu WITH XLEN <- 1
Bit    == {0, 1}
BitAlu(op, old, x) == OneBit!alu_res(op, old, x)

Reads  == [op : {"lr"}, addr : Addr, data : {0}]
Writes == [op : {"sc", "add"}, addr : {0, 1}, data : {1}]
            \cup [op : {"sc", "store"}, addr : {2}, data : {1}]
AllRequests == Reads \cup Writes

=============================================================================
