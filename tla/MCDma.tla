-------------------------------- MODULE MCDma --------------------------------
(***************************************************************************)
(* Constants for DmaSystem: a copy of two elements, and a gather of one    *)
(* element into a fixed address.                                           *)
(***************************************************************************)
EXTENDS DmaSystem

MCDescriptors ==
  {[src |-> 1, dst |-> 5, num |-> 2, src_inc |-> 1, dst_inc |-> 1],
   [src |-> 2, dst |-> 3, num |-> 1, src_inc |-> 1, dst_inc |-> 0]}
=============================================================================
