------------------------------- MODULE MCLrSc -------------------------------
(***************************************************************************)
(* LrScPrograms on one word of one bit, and the ALU on words of three.     *)
(***************************************************************************)
EXTENDS LrScPrograms

OneBit == INSTANCE AmoAlu WITH XLEN <- 1
Bit    == {0, 1}
BitAlu(op, old, x) == OneBit!alu_res(op, old, x)

ThreeBits == INSTANCE AmoAlu WITH XLEN <- 3

\* The ALU of the RMW controller computes what the Zaamo instructions store,
\* for every operation and every pair of three-bit words; the extension of the
\* operands and the inversion for max are right also at the sign boundary.
AluMatchesZaamo == ThreeBits!Matches

=============================================================================
