---------------------------- MODULE FloatingPoint ----------------------------
(***************************************************************************)
(* sw/example/floating_point_test: the Zfinx floating-point unit (FPU) and *)
(* its emulation in C, in a small format with the layout of IEEE 754, and  *)
(* the tests that compare them.  A number is a sign, a biased exponent and *)
(* a mantissa; an exponent of zero is flushed to zero by both sides.       *)
(***************************************************************************)
EXTENDS Integers, Sequences

ExpBits == 4        \* stands for 8
ManBits == 3        \* stands for 23
IntBits == 5        \* stands for 32, the width of an integer

H == 2 ^ ManBits                \* the hidden one
MaxExp == 2 ^ ExpBits - 1       \* infinity and NaN
Bias == 2 ^ (ExpBits - 1) - 1
Ints == 2 ^ IntBits

Float(s, e, m) == [s |-> s, e |-> e, m |-> m]
Zero(s) == Float(s, 0, 0)
Infinity(s) == Float(s, MaxExp, 0)
qNaN == Float(0, MaxExp, H \div 2)

IsNaN(f) == f.e = MaxExp /\ f.m # 0
IsInf(f) == f.e = MaxExp /\ f.m = 0
IsZero(f) == f.e = 0 /\ f.m = 0
IsSubnormal(f) == f.e = 0 /\ f.m # 0
Xor(a, b) == (a + b) % 2
Bit(condition) == IF condition THEN 1 ELSE 0

-----------------------------------------------------------------------------
(* The C library's arithmetic, by the definition of IEEE 754: an exact     *)
(* result num / den, in units of the smallest number, is rounded to the    *)
(* nearest float, of two as near to the even one.                          *)
Magnitude(f) == IF f.e = 0 THEN f.m ELSE (H + f.m) * 2 ^ (f.e - 1)

Nearest(num, den) ==
  LET low == num \div den
      twice == 2 * (num % den)
  IN IF twice > den \/ (twice = den /\ low % 2 = 1) THEN low + 1 ELSE low

Rounded(s, num, den) ==
  LET e == CHOOSE i \in 1 .. 40 :
             /\ i = 1 \/ num >= H * 2 ^ (i - 1) * den
             /\ num < H * 2 ^ i * den
      q == Nearest(num, 2 ^ (e - 1) * den)
      up == q = 2 * H
  IN CASE q < H                              -> Float(s, 0, q)
       [] q >= H /\ e + Bit(up) >= MaxExp    -> Infinity(s)
       [] q >= H /\ e + Bit(up) < MaxExp     -> Float(s, e + Bit(up), q % H)

FloatSum(a, b) ==
  LET signed(f) == IF f.s = 1 THEN -Magnitude(f) ELSE Magnitude(f)
      v == signed(a) + signed(b)
  IN CASE IsNaN(a) \/ IsNaN(b)               -> qNaN
       [] IsInf(a) /\ ~IsNaN(b)              -> IF IsInf(b) /\ a.s # b.s THEN qNaN ELSE a
       [] IsInf(b) /\ a.e # MaxExp           -> b
       [] a.e # MaxExp /\ b.e # MaxExp ->
            IF v = 0 THEN Zero(Bit(a.s = 1 /\ b.s = 1))
            ELSE Rounded(Bit(v < 0), IF v < 0 THEN -v ELSE v, 1)

Negated(f) == [f EXCEPT !.s = 1 - f.s]

FloatProduct(a, b) ==
  LET s == Xor(a.s, b.s)
      scale == a.e + b.e - 1 - Bias - ManBits
      p == (H + a.m) * (H + b.m)
  IN CASE IsNaN(a) \/ IsNaN(b) \/ (IsInf(a) /\ IsZero(b)) \/ (IsZero(a) /\ IsInf(b)) -> qNaN
       [] OTHER ->
            IF IsInf(a) \/ IsInf(b) THEN Infinity(s)
            ELSE IF IsZero(a) \/ IsZero(b) THEN Zero(s)
            ELSE IF scale >= 0 THEN Rounded(s, p * 2 ^ scale, 1) ELSE Rounded(s, p, 2 ^ (-scale))

Less(a, b) ==
  \/ a.s = 1 /\ b.s = 0 /\ ~(IsZero(a) /\ IsZero(b))
  \/ a.s = 0 /\ b.s = 0 /\ Magnitude(a) < Magnitude(b)
  \/ a.s = 1 /\ b.s = 1 /\ Magnitude(b) < Magnitude(a)

UnitsPerOne == 2 ^ (Bias + ManBits - 1)
rint(f) == LET n == Nearest(Magnitude(f), UnitsPerOne) IN IF f.s = 1 THEN -n ELSE n
Signed(i) == IF i >= Ints \div 2 THEN i - Ints ELSE i

-----------------------------------------------------------------------------
(* The emulation.                                                          *)
Unspecified == -Ints     \* a conversion whose result C does not define

subnormal_flush(f) == IF IsSubnormal(f) THEN Zero(f.s) ELSE f

riscv_emulate_fadds(a, b) == subnormal_flush(FloatSum(subnormal_flush(a), subnormal_flush(b)))
riscv_emulate_fsubs(a, b) == subnormal_flush(FloatSum(subnormal_flush(a), Negated(subnormal_flush(b))))
riscv_emulate_fmuls(a, b) == subnormal_flush(FloatProduct(subnormal_flush(a), subnormal_flush(b)))

\* Zeros of different sign are ordered, a single NaN is ignored.
MinMax(a, b, zero, first) ==
  CASE IsNaN(a) /\ IsNaN(b)     -> qNaN
    [] IsNaN(a) /\ ~IsNaN(b)    -> b
    [] ~IsNaN(a) /\ IsNaN(b)    -> a
    [] ~IsNaN(a) /\ ~IsNaN(b)   ->
         IF IsZero(a) /\ IsZero(b) /\ a.s # b.s THEN zero ELSE IF first THEN a ELSE b
riscv_emulate_fmins(x, y) ==
  LET a == subnormal_flush(x)  b == subnormal_flush(y) IN MinMax(a, b, Zero(1), Less(a, b))
riscv_emulate_fmaxs(x, y) ==
  LET a == subnormal_flush(x)  b == subnormal_flush(y) IN MinMax(a, b, Zero(0), Less(b, a))

riscv_emulate_fcvt_wus(f) ==
  LET a == subnormal_flush(f) IN
  IF a.e = MaxExp \/ rint(a) \notin 0 .. Ints - 1 THEN Unspecified ELSE rint(a)
riscv_emulate_fcvt_ws(f) ==
  LET a == subnormal_flush(f) IN
  IF a.e = MaxExp \/ rint(a) \notin -(Ints \div 2) .. Ints \div 2 - 1 THEN Unspecified
  ELSE rint(a) % Ints
riscv_emulate_fcvt_swu(i) == Rounded(0, i * UnitsPerOne, 1)
riscv_emulate_fcvt_sw(i) ==
  Rounded(Bit(Signed(i) < 0), (IF Signed(i) < 0 THEN -Signed(i) ELSE i) * UnitsPerOne, 1)

Ordered(x, y) == ~IsNaN(x) /\ ~IsNaN(y)
riscv_emulate_feqs(x, y) ==
  LET a == subnormal_flush(x)  b == subnormal_flush(y)
  IN Bit(Ordered(a, b) /\ ~Less(a, b) /\ ~Less(b, a))
riscv_emulate_flts(x, y) ==
  Bit(Ordered(x, y) /\ Less(subnormal_flush(x), subnormal_flush(y)))
riscv_emulate_fles(x, y) ==
  Bit(Ordered(x, y) /\ ~Less(subnormal_flush(y), subnormal_flush(x)))

riscv_emulate_fsgnjs(a, b) == IF b.s # 0 THEN (IF a.s = 0 THEN Negated(a) ELSE a)
                                         ELSE (IF a.s = 0 THEN a ELSE Negated(a))
riscv_emulate_fsgnjns(a, b) == IF b.s # 0 THEN (IF a.s = 0 THEN a ELSE Negated(a))
                                          ELSE (IF a.s = 0 THEN Negated(a) ELSE a)
riscv_emulate_fsgnjxs(a, b) == IF a.s # b.s THEN (IF a.s = 0 THEN Negated(a) ELSE a)
                                            ELSE (IF a.s = 0 THEN a ELSE Negated(a))

\* The number of the one bit that is set.
riscv_emulate_fclasss(f) ==
  CASE IsInf(f)       -> IF f.s = 1 THEN 0 ELSE 7
    [] IsZero(f)      -> IF f.s = 1 THEN 3 ELSE 4
    [] f.e \in 1 .. MaxExp - 1 -> IF f.s = 1 THEN 1 ELSE 6
    [] IsSubnormal(f) -> IF f.s = 1 THEN 2 ELSE 5
    [] IsNaN(f)       -> IF f.m >= H \div 2 THEN 9 ELSE 8

-----------------------------------------------------------------------------
(* The floating-point unit, rtl/core/neorv32_cpu_alu_fpu.vhd, built        *)
(* without subnormal support and rounding to nearest: what its units       *)
(* compute, with its guard, round and sticky bits.  A shift loop is        *)
(* collapsed where its steps do not interact.                              *)
Pos(c) == c \o "+"
Neg(c) == c \o "-"

\* op_data and op_class: a number keeps its class when its mantissa is flushed.
Operand(f) == IF f.e = 0 THEN Zero(f.s) ELSE f
Class(f) ==
  IF IsNaN(f) THEN (IF f.m >= H \div 2 THEN "qnan" ELSE "snan")
  ELSE LET c == IF IsInf(f) THEN "inf" ELSE IF IsZero(f) THEN "zero"
                ELSE IF IsSubnormal(f) THEN "denorm" ELSE "norm"
       IN IF f.s = 1 THEN Neg(c) ELSE Pos(c)

NaNs == {"qnan", "snan"}
Infs == {Pos("inf"), Neg("inf")}
Nulls == {Pos("zero"), Neg("zero"), Pos("denorm"), Neg("denorm")}
Norms == {Pos("norm"), Neg("norm")}

ClassBits == <<Neg("inf"), Neg("norm"), Neg("denorm"), Neg("zero"), Pos("zero"), Pos("denorm"),
               Pos("norm"), Pos("inf"), "snan", "qnan">>
Classify(x) == CHOOSE i \in 0 .. 9 : ClassBits[i + 1] = Class(x)

-----------------------------------------------------------------------------
(* Comparison, built on the integer comparison of the raw words.           *)
Raw(f) == (f.e * H) + f.m
comp_equal(x, y) ==
  \/ Class(x) \in Infs /\ Class(x) = Class(y)
  \/ Class(x) \in Nulls /\ Class(y) \in Nulls
  \/ x = y
comp_less(x, y) ==
  /\ ~(Class(x) \in Infs /\ Class(x) = Class(y))
  /\ ~(Class(x) \in Nulls /\ Class(y) \in Nulls)
  /\ \/ x.s = 1 /\ y.s = 0
     \/ x.s = 0 /\ y.s = 0 /\ Raw(x) < Raw(y)
     \/ x.s = 1 /\ y.s = 1 /\ ~(Raw(x) < Raw(y)) /\ Raw(x) # Raw(y)

float_comparison(funct3, x, y) ==
  LET nan == Class(x) \in NaNs \/ Class(y) \in NaNs
      result == CASE funct3 = 0 -> comp_less(x, y) \/ comp_equal(x, y)
                  [] funct3 = 1 -> comp_less(x, y)
                  [] funct3 = 2 -> comp_equal(x, y)
  IN Bit(result /\ ~nan)

\* funct3 selects the maximum; the second operand is taken unless it loses.
min_max_select(funct3, x, y) ==
  LET nulls == Class(x) \in Nulls /\ Class(y) \in Nulls /\ x.s # y.s
      second == IF nulls THEN (IF x.s = 1 THEN funct3 = 1 ELSE funct3 = 0)
                ELSE comp_less(x, y) = (funct3 = 1)
      nan1 == Class(x) \in NaNs
      nan2 == Class(y) \in NaNs
  IN IF nan1 /\ nan2 THEN qNaN
     ELSE IF nan2 \/ (~nan1 /\ ~second) THEN Operand(x) ELSE Operand(y)

sign_injector(funct3, x, y) ==
  [x EXCEPT !.s = CASE funct3 = 0 -> y.s [] funct3 = 1 -> 1 - y.s [] funct3 = 2 -> Xor(x.s, y.s)]

-----------------------------------------------------------------------------
(* The normalizer.  n holds the register: x with its hidden one at 4 H,    *)
(* followed by the mantissa, the guard and the round bit, and s, the       *)
(* sticky bit; cnt counts the exponent.                                    *)
Register == [x : Nat, s : {0, 1}, cnt : Int]

Shifted[n \in Register] ==
  IF (n.x >= 4 * H /\ n.x < 8 * H) \/ n.cnt < 0 \/ n.cnt > MaxExp THEN n
  ELSE Shifted[IF n.x >= 8 * H
               THEN [x |-> n.x \div 2, s |-> IF n.x % 2 = 1 THEN 1 ELSE n.s, cnt |-> n.cnt + 1]
               ELSE [x |-> 2 * n.x + n.s, s |-> n.s, cnt |-> n.cnt - 1]]

RoundedToEven_ties(n) ==    \* Mutant: a tie is rounded up
  [x |-> (n.x \div 4 + ((n.x \div 2) % 2)) * 4, s |-> 0, cnt |-> n.cnt]
RoundedToEven(n) ==
  LET guard == (n.x \div 2) % 2 = 1
      rest == n.x % 2 = 1 \/ n.s = 1
      odd == (n.x \div 4) % 2 = 1
  IN [x |-> (n.x \div 4 + Bit(guard /\ (rest \/ odd))) * 4, s |-> 0, cnt |-> n.cnt]

\* Normalized, rounded, and normalized once more.
Normalizer[n \in Register] == Shifted[RoundedToEven(Shifted[n])]

Normalized(sign, n) ==
  LET r == Normalizer[n] IN
  IF n.x = 0 /\ n.s = 0 THEN Zero(sign)
  ELSE IF r.cnt <= 0 THEN Zero(sign)
  ELSE IF r.cnt >= MaxExp THEN Infinity(sign)
  ELSE Float(sign, r.cnt, (r.x \div 4) % H)

\* NaN over infinity over zero over the computed number.
Finalized(class, sign, result) ==
  CASE class = "qnan"      -> qNaN
    [] class = "inf"       -> Infinity(sign)
    [] class = Pos("zero") -> Zero(0)
    [] class = Neg("zero") -> Zero(1)
    [] class = "norm"      -> result

convert_i2f(unsigned, i) ==
  LET sign == Bit(unsigned = 0 /\ i >= Ints \div 2)
      int == IF sign = 1 THEN Ints - i ELSE i
  IN IF int = 0 THEN Zero(0) ELSE Normalized(sign, [x |-> int * 4 * H, s |-> 0, cnt |-> Bias])

-----------------------------------------------------------------------------
multiplier_class(x, y) ==
  LET c == {Class(x), Class(y)} IN
  CASE c \intersect NaNs # {} \/ (c \intersect Infs # {} /\ c \intersect Nulls # {}) -> "qnan"
    [] c \intersect NaNs = {} /\ c \intersect Infs # {} /\ c \intersect Nulls = {}   -> "inf"
    [] c \intersect (NaNs \union Infs) = {} /\ c \intersect Nulls # {} ->
         IF x.s = y.s THEN Pos("zero") ELSE Neg("zero")
    [] c \subseteq Norms -> "norm"

multiplier_core(x, y) ==
  LET sign == Xor(x.s, y.s)
      exp_res == x.e + y.e - Bias
      product == (H + x.m) * (H + y.m)
      low == 2 ^ (ManBits - 2)
      result == IF exp_res < 0 THEN Zero(sign)
                ELSE IF exp_res > MaxExp THEN Infinity(sign)
                ELSE Normalized(sign, [x |-> product \div low, s |-> Bit(product % low # 0),
                                       cnt |-> exp_res])
  IN Finalized(multiplier_class(x, y), sign, result)

-----------------------------------------------------------------------------
\* sub: funct12(7).
adder_subtractor_class(sub, x, y) ==
  LET a == Class(x)
      b == Class(y)
      b_sign == IF sub = 1 THEN 1 - y.s ELSE y.s
  IN CASE {a, b} \intersect NaNs # {} \/ ({a, b} \subseteq Infs /\ x.s # b_sign) -> "qnan"
       [] {a, b} \intersect NaNs = {} /\ {a, b} \intersect Infs # {}
            /\ ~({a, b} \subseteq Infs /\ x.s # b_sign) -> "inf"
       [] {a, b} \subseteq Nulls -> IF x.s = 1 /\ b_sign = 1 THEN Neg("zero") ELSE Pos("zero")
       [] OTHER -> "norm"

\* The smaller operand is shifted right, its lost bits become the sticky bit;
\* a distance beyond the register leaves the sticky bit alone.
Aligned(man, distance) ==
  LET wide == man * 8
      kept == wide \div 2 ^ distance
  IN IF distance > ManBits + 4 THEN Bit(man # 0)
     ELSE IF wide % 2 ^ distance # 0 /\ kept % 2 = 0 THEN kept + 1 ELSE kept

adder_subtractor_core(sub, x, y) ==
  LET swap == x.e < y.e
      small == IF swap THEN x ELSE y
      large == IF swap THEN y ELSE x
      null == Class(x) \in Nulls \/ Class(y) \in Nulls
      man_sreg == Aligned(IF null THEN 0 ELSE H + small.m, large.e - small.e)
      large_man == (H + large.m) * 8
      man_comp == man_sreg \div 8 <= H + large.m
      man_l == IF man_comp THEN large_man ELSE man_sreg
      man_s == IF man_comp THEN man_sreg ELSE large_man
      adds == Xor(sub, Xor(x.s, y.s)) = 0
      sum == IF adds THEN man_l + man_s ELSE man_l - man_s
      sign == CASE adds            -> x.s
                [] ~adds /\ sum = 0 -> 0
                [] ~adds /\ sum # 0 ->
                     Xor(x.s, IF x.e = y.e THEN Bit(~man_comp) ELSE Bit(swap))
  IN Finalized(adder_subtractor_class(sub, x, y), sign,
               Normalized(sign, [x |-> sum \div 2, s |-> sum % 2, cnt |-> large.e]))

-----------------------------------------------------------------------------
(* Float to integer.  Below one half the mantissa is shifted in; its last  *)
(* bit is lost.                                                            *)
FractionBelowOne(x) ==
  CASE x.e < Bias - 2 -> H \div 8 + x.m \div 8
    [] x.e = Bias - 2 -> H \div 4 + x.m \div 4
    [] x.e = Bias - 1 -> H \div 2 + x.m \div 2

convert_f2i(unsigned, x) ==
  LET under == x.e < Bias
      shifted == IF under THEN 0 ELSE (H + x.m) * 2 ^ (x.e - Bias)
      int == (shifted \div H) % Ints
      mant == IF under THEN FractionBelowOne(x) ELSE shifted % H
      guard == mant >= H \div 2
      rest == mant % (H \div 2) # 0
      round == int + Bit(guard /\ (rest \/ int % 2 = 1))
      beyond == x.e > Bias + IntBits + 1
      over == \/ beyond \/ shifted \div H >= Ints \/ round >= Ints
              \/ unsigned = 0 /\ int >= Ints \div 2
      top == IF unsigned = 1 THEN Ints - 1 ELSE Ints \div 2 - 1
      bottom == IF unsigned = 1 THEN 0 ELSE Ints \div 2
      null == Class(x) \in Nulls
  IN IF Class(x) \in NaNs \/ Class(x) = Pos("inf") \/ (~null /\ x.s = 0 /\ over) THEN top
     ELSE IF Class(x) = Neg("inf") THEN bottom
     ELSE IF ~null /\ unsigned = 0 /\ x.s = 1 /\ over THEN bottom
     ELSE IF null THEN 0
     ELSE IF under /\ round % 2 = 0 THEN 0
     ELSE IF x.s = 1 THEN (IF unsigned = 1 THEN 0 ELSE (-round) % Ints)
     ELSE round % Ints

-----------------------------------------------------------------------------
(* Decoding; what is not decoded is an illegal instruction.                *)
Decodes(funct7, funct3) ==
  \/ funct7 \in {0, 4, 8, 96, 104}
  \/ funct7 \in {16, 80} /\ funct3 \in 0 .. 2
  \/ funct7 = 20 /\ funct3 \in 0 .. 1
  \/ funct7 = 112 /\ funct3 = 1

\* x: rs1, y: rs2 or, for conversions, its number.
Zfinx(funct7, funct3, x, y) ==
  CASE funct7 \in {0, 4} -> adder_subtractor_core(funct7 \div 4, x, y)
    [] funct7 = 8        -> multiplier_core(x, y)
    [] funct7 = 16       -> sign_injector(funct3, x, y)
    [] funct7 = 20       -> min_max_select(funct3, x, y)
    [] funct7 = 80       -> float_comparison(funct3, x, y)
    [] funct7 = 96       -> convert_f2i(y, x)
    [] funct7 = 104      -> convert_i2f(y, x)
    [] funct7 = 112      -> Classify(x)
=============================================================================
