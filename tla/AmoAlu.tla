------------------------------- MODULE AmoAlu -------------------------------
(***************************************************************************)
(* The data ALU of neorv32_bus_amo_rmw on words of XLEN bits, and what the *)
(* Zaamo instructions store, in terms of the numbers and bit sets that the *)
(* words stand for.                                                        *)
(***************************************************************************)
EXTENDS Integers, Bitwise, FiniteSetsExt

CONSTANT XLEN

Operand == 0 .. 2^XLEN - 1
RmwOps == {"swap", "add", "xor", "and", "or", "min", "max", "minu", "maxu"}

\* cmp_opa and cmp_opb: the operands are extended by one bit, the sign if the
\* operation is signed (cmd(3)) and 0 otherwise.
\* Mutant: always zero-extended.
extended_unsigned(cmd, x) == x
extended(cmd, x) == IF cmd \in {"min", "max"} /\ x >= 2^(XLEN - 1)
                    THEN x - 2^XLEN ELSE x
\* cmp_res: the result of the comparison is inverted for max (cmd(0)).
cmp_res(cmd, rdata, wdata) ==
  LET cmp_less == extended(cmd, rdata) < extended(cmd, wdata)
  IN  IF cmp_less /= (cmd \in {"max", "maxu"}) THEN rdata ELSE wdata

alu_res(cmd, rdata, wdata) ==
  CASE cmd = "swap" -> wdata
    [] cmd = "add"  -> (rdata + wdata) % 2^XLEN
    [] cmd = "xor"  -> rdata ^^ wdata
    [] cmd = "and"  -> rdata & wdata
    [] cmd = "or"   -> rdata | wdata
    [] OTHER        -> cmp_res(cmd, rdata, wdata)

-----------------------------------------------------------------------------
\* The word of a two's complement number, bit n of a word, and the word of a
\* set of bits.
Signed(x)  == CHOOSE n \in -(2^(XLEN - 1)) .. 2^(XLEN - 1) - 1 :
                n % 2^XLEN = x
Bits(x)    == {n \in 0 .. XLEN - 1 : (x \div 2^n) % 2 = 1}
OfBits(S)  == SumSet({2^n : n \in S})

\* What the instruction stores, from memory word r and register w.
Stored(op, r, w) ==
  CASE op = "swap" -> w
    [] op = "add"  -> (r + w) % 2^XLEN
    [] op = "xor"  -> OfBits((Bits(r) \ Bits(w)) \cup (Bits(w) \ Bits(r)))
    [] op = "and"  -> OfBits(Bits(r) \cap Bits(w))
    [] op = "or"   -> OfBits(Bits(r) \cup Bits(w))
    [] op = "min"  -> Min({Signed(r), Signed(w)}) % 2^XLEN
    [] op = "max"  -> Max({Signed(r), Signed(w)}) % 2^XLEN
    [] op = "minu" -> Min({r, w})
    [] op = "maxu" -> Max({r, w})

Matches == \A op \in RmwOps, r, w \in Operand : alu_res(op, r, w) = Stored(op, r, w)

=============================================================================
