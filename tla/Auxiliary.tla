----------------------------- MODULE Auxiliary -----------------------------
(***************************************************************************)
(* Conversions of sw/lib/source/neorv32_aux.c: dates and Unix time, and    *)
(* numbers and their digits.  Time is counted in days; the seconds of a    *)
(* day are split in the usual way.  The assumptions at the end compare the *)
(* formulas with the calendar, and one conversion with the other.          *)
(***************************************************************************)
EXTENDS Integers, Sequences, FiniteSets, SequencesExt

\* The seconds are computed in 32 bits: the last day that fits is in 2106.
LastDay == 49709

\* Days since January 1st, 1970; what is out of range is replaced.
neorv32_aux_date2unixtime(date) ==
  LET year  == IF date.year < 1970 THEN 1970 ELSE date.year
      month == IF date.month \in 1 .. 12 THEN date.month ELSE 1
      day   == IF date.day \in 1 .. 31 THEN date.day ELSE 1
      m == IF month <= 2 THEN month + 12 ELSE month     \* of the previous year
      y == IF month <= 2 THEN year - 1 ELSE year
  IN 365 * y + y \div 4 - y \div 100 + y \div 400 + 30 * m + (3 * (m + 1)) \div 5 + day - 719561

neorv32_aux_unixtime2date(days) ==
  LET a == (4 * days + 102032) \div 146097 + 15
      b == days + 2442113 + a - a \div 4
      c == (20 * b - 2442) \div 7305
      d == b - 365 * c - c \div 4
      e == (d * 1000) \div 30601
      f == d - e * 30 - (e * 601) \div 1000
      year  == IF e <= 13 THEN c - 4716 ELSE c - 4715
      month == IF e <= 13 THEN e - 1 ELSE e - 13
      m == IF month <= 2 THEN month + 12 ELSE month
      y == IF month <= 2 THEN year - 1 ELSE year
      j == y \div 100
      k == y % 100
      h == f + (26 * (m + 1)) \div 10 + k + k \div 4 + 5 * j + j \div 4
  IN [year |-> year, month |-> month, day |-> f, weekday |-> ((h + 5) % 7) + 1]

-----------------------------------------------------------------------------
\* A digit is its value; the terminating character and any other are:
End == -1
Other == -2

neorv32_aux_hexstr2uint64(buffer, length) ==
  LET used == {i \in 1 .. Len(buffer) :
                 i <= 16 /\ i <= length /\ \A j \in 1 .. i : buffer[j] # End}
  IN FoldLeft(LAMBDA res, c : 16 * res + (IF c = Other THEN 0 ELSE c), 0,
              SubSeq(buffer, 1, Cardinality(used)))

neorv32_aux_itoa(num, base) ==
  LET digits[n \in Nat] == IF n < base THEN <<n>> ELSE Append(digits[n \div base], n % base)
  IN IF base \in 2 .. 16 THEN digits[num] ELSE <<>>

-----------------------------------------------------------------------------
(* The calendar.                                                           *)
Leap(y) == y % 4 = 0 /\ (y % 100 # 0 \/ y % 400 = 0)
MonthLength(y, m) == IF m = 2 THEN (IF Leap(y) THEN 29 ELSE 28)
                     ELSE IF m \in {4, 6, 9, 11} THEN 30 ELSE 31
Tomorrow(date) ==
  [weekday |-> (date.weekday % 7) + 1,
   day     |-> IF date.day < MonthLength(date.year, date.month) THEN date.day + 1 ELSE 1,
   month   |-> IF date.day < MonthLength(date.year, date.month) THEN date.month
               ELSE (date.month % 12) + 1,
   year    |-> IF date.day = 31 /\ date.month = 12 THEN date.year + 1 ELSE date.year]

\* From a Thursday on, each day of the clock is the day after the one before,
\* and the conversions are inverse to each other.
ASSUME CalendarAgrees ==
  /\ neorv32_aux_unixtime2date(0) = [year |-> 1970, month |-> 1, day |-> 1, weekday |-> 4]
  /\ \A t \in 0 .. LastDay :
       /\ neorv32_aux_unixtime2date(t + 1) = Tomorrow(neorv32_aux_unixtime2date(t))
       /\ neorv32_aux_date2unixtime(neorv32_aux_unixtime2date(t)) = t

\* What is printed in hexadecimal is read back, and in every base the digits
\* have the value of the number and no leading zero.
ASSUME DigitsAgree ==
  /\ \A n \in 0 .. 4200 : neorv32_aux_hexstr2uint64(neorv32_aux_itoa(n, 16) \o <<End, 7>>, 20) = n
  /\ \A base \in 2 .. 16, n \in 0 .. 300 :
       LET digits == neorv32_aux_itoa(n, base) IN
       /\ FoldLeft(LAMBDA res, c : base * res + c, 0, digits) = n
       /\ digits[1] = 0 => n = 0
=============================================================================
