-------------------------- MODULE Bootloader_proofs --------------------------
(***************************************************************************)
(* Proofs about the bootloader for every size of RAM and flash, every set  *)
(* of files and boards and any number of commands and resets: what it      *)
(* starts is what it accepted, it accepts every good image, and what it    *)
(* stored is such an image.                                                *)
(***************************************************************************)
EXTENDS Bootloader, SequenceTheorems, WellFoundedInduction, TLAPS

-----------------------------------------------------------------------------
(* The checksum is defined recursively.  Induction over the words is by    *)
(* the least number at which a statement fails.                            *)

LEMMA NatOrder == \E R : /\ IsWellFoundedOn(R, Nat)
                         /\ \A m, n \in Nat : <<m, n>> \in R <=> m < n
<1>1. \A m, n \in Nat : <<m, n>> \in OpToRel(<, Nat) <=> m < n
  BY DEF OpToRel
<1>2. QED BY <1>1, NatLessThanWellFounded, Zenon

LEMMA Least == ASSUME NEW T, T \subseteq Nat, T /= {}
               PROVE  \E n \in T : \A m \in T : n <= m
<1>1. PICK R : /\ IsWellFoundedOn(R, Nat)
               /\ \A m, n \in Nat : <<m, n>> \in R <=> m < n
  BY NatOrder
<1>2. IsWellFoundedOn(R, Nat)
  BY <1>1
<1>3. PICK n \in T : \A m \in T : ~ (<<m, n>> \in R)
  BY <1>2, WFMin
<1>4. \A m \in T : ~ (m < n)
  BY <1>1, <1>3
<1>5. QED BY <1>4

\* S is the sequence of the partial sums of ws up to the Nth.
IsSum(S, ws, N) == S = [n \in 0 .. N |-> IF n = 0 THEN 0 ELSE (S[n - 1] + ws[n]) % W]

LEMMA SumExists == ASSUME NEW ws, NEW N \in Nat PROVE \E S : IsSum(S, ws, N)
<1> DEFINE T == {k \in Nat : ~ \E S : IsSum(S, ws, k)}
<1>1. SUFFICES ASSUME T /= {} PROVE FALSE
  OBVIOUS
<1>2. PICK k \in T : \A m \in T : k <= m
  BY <1>1, Least
<1>3. CASE k = 0
  <2> DEFINE S == [n \in 0 .. 0 |-> 0]
  <2>1. IsSum(S, ws, 0)
    BY DEF IsSum
  <2>2. QED BY <2>1, <1>3, <1>2
<1>4. CASE k /= 0
  <2>1. k - 1 \in Nat /\ k - 1 \notin T
    BY <1>2, <1>4
  <2>2. PICK P : IsSum(P, ws, k - 1)
    BY <2>1
  <2> DEFINE S == [n \in 0 .. k |-> IF n = k THEN (P[k - 1] + ws[k]) % W ELSE P[n]]
  <2>3. IsSum(S, ws, k)
    <3>1. ASSUME NEW n \in 0 .. k
          PROVE  S[n] = IF n = 0 THEN 0 ELSE (S[n - 1] + ws[n]) % W
      <4>1. CASE n = k
        BY <4>1, <1>4, <2>1, <1>2
      <4>2. CASE n /= k
        <5>1. P = [i \in 0 .. k - 1 |-> IF i = 0 THEN 0 ELSE (P[i - 1] + ws[i]) % W]
          BY <2>2 DEF IsSum
        <5>2. n \in 0 .. k - 1 /\ (n /= 0 => n - 1 \in 0 .. k - 1 /\ n - 1 /= k)
          BY <4>2, <2>1, <1>2
        <5>3. P[n] = IF n = 0 THEN 0 ELSE (P[n - 1] + ws[n]) % W
          BY <5>1, <5>2
        <5>4. S[n] = P[n] /\ (n /= 0 => S[n - 1] = P[n - 1])
          BY <5>2, <4>2
        <5>5. QED BY <5>3, <5>4
      <4>3. QED BY <4>1, <4>2
    <3>2. QED BY <3>1 DEF IsSum
  <2>4. QED BY <2>3, <1>2
<1>5. QED BY <1>3, <1>4

\* The sums of a prefix are the sums of the whole.
LEMMA SumAgrees ==
  ASSUME NEW vs, NEW ws, NEW N \in Nat, NEW M \in Nat, N <= M,
         \A n \in 1 .. N : vs[n] = ws[n],
         NEW P, IsSum(P, vs, N), NEW S, IsSum(S, ws, M)
  PROVE  P[N] = S[N]
<1> DEFINE T == {k \in 0 .. N : P[k] /= S[k]}
<1>1. SUFFICES ASSUME T /= {} PROVE FALSE
  OBVIOUS
<1>2. PICK k \in T : \A m \in T : k <= m
  <2>1. T \subseteq Nat
    OBVIOUS
  <2> HIDE DEF T
  <2>2. QED BY <1>1, <2>1, Least
<1>3. /\ P[k] = IF k = 0 THEN 0 ELSE (P[k - 1] + vs[k]) % W
      /\ S[k] = IF k = 0 THEN 0 ELSE (S[k - 1] + ws[k]) % W
  <2>1. k \in 0 .. N /\ k \in 0 .. M
    OBVIOUS
  <2>2. /\ P = [n \in 0 .. N |-> IF n = 0 THEN 0 ELSE (P[n - 1] + vs[n]) % W]
        /\ S = [n \in 0 .. M |-> IF n = 0 THEN 0 ELSE (S[n - 1] + ws[n]) % W]
    BY DEF IsSum
  <2>3. QED BY <2>1, <2>2
<1>4. k /= 0 => k \in 1 .. N /\ P[k - 1] = S[k - 1]
  BY <1>2
<1>5. QED BY <1>2, <1>3, <1>4

LEMMA SumForm == ASSUME NEW ws, Len(ws) \in Nat
                 PROVE  \E S : IsSum(S, ws, Len(ws)) /\ Sum(ws) = S[Len(ws)]
<1> DEFINE S == CHOOSE S : S = [n \in 0 .. Len(ws) |->
                                IF n = 0 THEN 0 ELSE (S[n - 1] + ws[n]) % W]
<1>1. IsSum(S, ws, Len(ws))
  BY SumExists DEF IsSum
<1>2. Sum(ws) = S[Len(ws)]
  BY DEF Sum
<1>3. QED BY <1>1, <1>2

\* The checksum of no word is 0, and one more word is added to it.
LEMMA SumStep ==
  ASSUME NEW vs, NEW ws, Len(vs) \in Nat, Len(ws) = Len(vs) + 1,
         \A n \in 1 .. Len(vs) : vs[n] = ws[n]
  PROVE  Sum(ws) = (Sum(vs) + ws[Len(ws)]) % W
<1>1. Len(ws) \in Nat
  OBVIOUS
<1>2. PICK P : IsSum(P, vs, Len(vs)) /\ Sum(vs) = P[Len(vs)]
  BY SumForm
<1>3. PICK S : IsSum(S, ws, Len(ws)) /\ Sum(ws) = S[Len(ws)]
  BY <1>1, SumForm
<1>4. P[Len(vs)] = S[Len(vs)]
  <2> DEFINE N == Len(vs)
             M == Len(ws)
  <2>1. N \in Nat /\ M \in Nat /\ N <= M /\ \A n \in 1 .. N : vs[n] = ws[n]
    OBVIOUS
  <2>2. IsSum(P, vs, N) /\ IsSum(S, ws, M)
    BY <1>2, <1>3
  <2> HIDE DEF N, M
  <2>3. P[N] = S[N]
    BY <2>1, <2>2, SumAgrees
  <2>4. QED BY <2>3 DEF N
<1>5. S[Len(ws)] = (S[Len(ws) - 1] + ws[Len(ws)]) % W
  <2>1. S = [n \in 0 .. Len(ws) |-> IF n = 0 THEN 0 ELSE (S[n - 1] + ws[n]) % W]
    BY <1>3 DEF IsSum
  <2>2. Len(ws) \in 0 .. Len(ws) /\ Len(ws) /= 0
    OBVIOUS
  <2>3. QED BY <2>1, <2>2
<1>6. QED BY <1>2, <1>3, <1>4, <1>5

LEMMA SumNone == ASSUME NEW ws, Len(ws) = 0 PROVE Sum(ws) = 0
<1>1. PICK S : IsSum(S, ws, 0) /\ Sum(ws) = S[0]
  BY SumForm
<1>2. QED BY <1>1 DEF IsSum

LEMMA ModRange == \A x \in Int : x % W \in Word
BY DEF Word, W

LEMMA SumRange == ASSUME NEW ws, Len(ws) \in Nat, \A n \in 1 .. Len(ws) : ws[n] \in Word
                  PROVE  Sum(ws) \in Word
<1>1. PICK S : IsSum(S, ws, Len(ws)) /\ Sum(ws) = S[Len(ws)]
  BY SumForm
<1> DEFINE T == {k \in 0 .. Len(ws) : S[k] \notin Word}
<1>2. SUFFICES ASSUME T /= {} PROVE FALSE
  BY <1>1
<1>3. PICK k \in T : \A m \in T : k <= m
  <2>1. T \subseteq Nat
    OBVIOUS
  <2> HIDE DEF T
  <2>2. QED BY <1>2, <2>1, Least
<1>4. S[k] = IF k = 0 THEN 0 ELSE (S[k - 1] + ws[k]) % W
  BY <1>1 DEF IsSum
<1>5. k /= 0 => S[k - 1] \in Word /\ ws[k] \in Word
  BY <1>3
<1>6. CASE k = 0
  BY <1>3, <1>4, <1>6 DEF Word, W
<1>7. CASE k /= 0
  <2>1. S[k - 1] \in Int /\ ws[k] \in Int
    BY <1>5, <1>7 DEF Word, W
  <2>2. (S[k - 1] + ws[k]) % W \in Word
    BY <2>1, ModRange
  <2>3. QED BY <1>3, <1>4, <1>7, <2>2
<1>8. QED BY <1>6, <1>7
-----------------------------------------------------------------------------
\* The image in the file f has this many words; the first n of them.
WordsOf(f) == (f[3] + 3) \div 4
Prefix(f, n) == [k \in 1 .. n |-> Cell(f, 3 + k)]

Flash == {"twi", "spi"}
Media == {"twi", "spi", "sd", "uart"}

Loading == pc \in {"dev_init", "header", "words"}
Storing == pc \in {"erase", "data", "head", "stored"}
Booting == pc \in {"boot", "led_off", "print", "app"}
Label   == {"setup", "countdown", "auto", "console", "dev_init", "header", "words", "halt",
            "erase", "data", "head", "stored", "boot", "led_off", "print", "app"}

TypeInv ==
  /\ pc \in Label
  /\ exe \in [base : Word, size : Word \cup {-1}]
  /\ ram \in [0 .. RamWords - 1 -> Word]
  /\ medium \in [twi : Seq(Word), spi : Seq(Word), sd : Seq(Word), uart : Seq(Word)]
  /\ \A dev \in Enabled \cap Flash : Len(medium[dev]) >= RamWords + 4
  /\ ld \in [dev : Media \cup {"none"}, next : Nat, hdr : Seq(Word), i : Nat, sum : Word,
             rc : BOOLEAN, addr : Nat]
  /\ mie \in BOOLEAN /\ led \in BOOLEAN /\ forced \in BOOLEAN

\* Direct booting is under way to the application and nowhere else.
DirectInv == exe.size = -1 => exe = DirectExe /\ Booting

\* The executable that is announced is in the RAM, as a whole.
ExeInv ==
  exe.size > 0 =>
    /\ exe.base = loaded.base
    /\ exe.base + (exe.size + 3) \div 4 <= RamWords
    /\ Len(loaded.words) = (exe.size + 3) \div 4
    /\ DOMAIN loaded.words = 1 .. (exe.size + 3) \div 4
    /\ \A i \in DOMAIN loaded.words : ram[exe.base + i - 1] = loaded.words[i]

StoreInv ==
  Storing => /\ exe.size > 0 /\ ld.dev \in Flash
             /\ pc = "head" => Len(ld.hdr) = 4

\* Nothing is announced during a load, and the locals belong to what the
\* device delivered so far.
File == medium[ld.dev]

LoadInv ==
  Loading =>
    /\ ld.dev \in Enabled \cap Media /\ exe.size = 0
    /\ ld.dev \in {"spi", "uart"} => ~ld.rc
    /\ pc # "words" => ld.i = 0
    /\ pc = "dev_init" => ld.hdr = <<>> /\ ~ld.rc
    /\ pc = "header" => Len(ld.hdr) < 4

HeaderInv ==
  pc \in {"header", "words"} =>
    /\ ld.addr = Len(ld.hdr) + ld.i \div 4
    /\ ~ld.rc /\ ld.dev \in {"sd", "uart"} => ld.addr <= Len(File)
    /\ ~ld.rc => \A k \in 1 .. Len(ld.hdr) : ld.hdr[k] = Cell(File, k - 1)

WordsInv ==
  pc = "words" =>
    /\ Len(ld.hdr) = 4 /\ ld.hdr[1] = Signature /\ exe.base = ld.hdr[2]
    /\ ld.i % 4 = 0 /\ ld.i < ld.hdr[3] + 4
    /\ exe.base + ld.i \div 4 <= RamWords \/ ld.i = 0
    /\ ~ld.rc =>
         /\ \A k \in 1 .. ld.i \div 4 : ram[exe.base + k - 1] = Cell(File, 3 + k)
         /\ ld.sum = (ld.hdr[4] + Sum(Prefix(File, ld.i \div 4))) % W

\* On the way to the application the interrupts are off, then the LED.
BootInv ==
  /\ pc \in {"led_off", "print", "app"} => ~mie /\ (exe.size = 0 => forced)
  /\ pc \in {"print", "app"} => ~led

IInv == /\ TypeInv /\ DirectInv /\ ExeInv /\ StoreInv
        /\ LoadInv /\ HeaderInv /\ WordsInv /\ BootInv

-----------------------------------------------------------------------------
(* What the operators return.                                              *)

LEMMA MixedRange == ASSUME NEW old \in Word, NEW wd \in Word, NEW ks
                    PROVE  Mixed(old, wd, ks) \in Word
<1>1. \A w \in Word : \A k \in {0, 1, 2, 3} : ByteOf(w, k) \in {0, 1}
  BY DEF ByteOf, Word, W
<1>2. \A k \in {0, 1, 2, 3} : ByteOf(old, k) \in {0, 1} /\ ByteOf(wd, k) \in {0, 1}
  BY <1>1
<1>3. QED BY <1>2 DEF Mixed, Word, W

LEMMA ProgrammedRange == ASSUME NEW old \in Word, NEW wd \in Word
                         PROVE  Programmed(old, wd) \in Word
<1>1. 0 \in Word
  BY DEF Word, W
<1>2. QED BY <1>1, MixedRange DEF Programmed

LEMMA CellRange == ASSUME NEW f \in Seq(Word), NEW a \in Nat PROVE Cell(f, a) \in Word
BY DEF Cell, Erased, Word, W

LEMMA MediumForm ==
  ASSUME TypeInv, NEW dev \in Media
  PROVE  medium[dev] \in Seq(Word) /\ Len(medium[dev]) \in Nat
BY DEF TypeInv, Media

\* What a device delivers without an error is the word that was asked for.
\* Neither the SPI flash nor the UART reports an error.
LEMMA Delivers ==
  ASSUME TypeInv, ld.dev \in Media, NEW o \in stream_get
  PROVE  /\ o[1] \in Word /\ o[2] \in BOOLEAN
         /\ ld.dev \in {"spi", "uart"} => ~o[2]
         /\ ~o[2] => o[1] = Cell(File, ld.addr)
         /\ ~o[2] /\ ld.dev \in {"sd", "uart"} => ld.addr < Len(File)
<1>1. File \in Seq(Word) /\ Len(File) \in Nat /\ ld.addr \in Nat /\ 0 \in Word
  BY MediumForm DEF TypeInv, File, Word, W
<1>2. Cell(File, ld.addr) \in Word
  BY <1>1, CellRange
<1>3. ASSUME NEW x, NEW b \in BOOLEAN, o = <<x, b>>
      PROVE  o[1] = x /\ o[2] = b
  BY <1>3
<1>4. CASE ld.dev = "twi"
  <2>1. \/ o = <<Cell(File, ld.addr), FALSE>>
        \/ o = <<Mixed(0, Cell(File, ld.addr), {0, 1}), TRUE>>
    BY <1>4 DEF stream_get, twi_flash_stream_get, File
  <2>2. Mixed(0, Cell(File, ld.addr), {0, 1}) \in Word
    BY <1>1, <1>2, MixedRange
  <2>3. \/ o[1] = Cell(File, ld.addr) /\ o[2] = FALSE
        \/ o[1] = Mixed(0, Cell(File, ld.addr), {0, 1}) /\ o[2] = TRUE
    BY <1>3, <2>1
  <2>4. QED BY <1>2, <1>4, <2>2, <2>3
<1>5. CASE ld.dev = "spi"
  <2>1. o = <<Cell(File, ld.addr), FALSE>>
    BY <1>5 DEF stream_get, spi_flash_stream_get, File
  <2>2. o[1] = Cell(File, ld.addr) /\ o[2] = FALSE
    BY <1>3, <2>1
  <2>3. QED BY <1>2, <1>5, <2>2
<1>6. CASE ld.dev = "sd"
  <2>1. \/ o = <<0, TRUE>>
        \/ ld.addr + 1 <= Len(File) /\ o = <<File[ld.addr + 1], FALSE>>
    <3>1. o \in sdcard_stream_get
      BY <1>6 DEF stream_get
    <3>2. medium.sd = File
      BY <1>6 DEF File
    <3>3. o = <<0, TRUE>> \/ \E x \in {1} \cap 1 .. (Len(File) - ld.addr) : o = <<File[ld.addr + 1], FALSE>>
      BY <3>1, <3>2 DEF sdcard_stream_get
    <3>4. (\E x \in {1} \cap 1 .. (Len(File) - ld.addr) : TRUE) => ld.addr + 1 <= Len(File)
      BY <1>1
    <3>5. QED BY <3>3, <3>4
  <2>2. \/ o[1] = 0 /\ o[2] = TRUE
        \/ ld.addr + 1 <= Len(File) /\ o[1] = File[ld.addr + 1] /\ o[2] = FALSE
    BY <1>3, <2>1
  <2>3. ld.addr + 1 <= Len(File) => Cell(File, ld.addr) = File[ld.addr + 1]
    BY <1>1 DEF Cell
  <2>4. CASE o[2] = FALSE
    <3>1. o[1] = Cell(File, ld.addr) /\ ld.addr < Len(File)
      BY <1>1, <2>2, <2>3, <2>4
    <3>2. QED BY <1>2, <1>6, <2>4, <3>1
  <2>5. CASE o[2] = TRUE
    <3>1. o[1] = 0
      BY <2>2, <2>5
    <3>2. QED BY <1>1, <1>6, <2>5, <3>1
  <2>6. QED BY <2>2, <2>4, <2>5
<1>7. CASE ld.dev = "uart"
  <2>1. ld.addr + 1 <= Len(File) /\ o = <<File[ld.addr + 1], FALSE>>
    <3>1. o \in uart_stream_get
      BY <1>7 DEF stream_get
    <3>2. medium.uart = File
      BY <1>7 DEF File
    <3>3. \E x \in {1} \cap 1 .. (Len(File) - ld.addr) : o = <<File[ld.addr + 1], FALSE>>
      BY <3>1, <3>2 DEF uart_stream_get
    <3>4. QED BY <1>1, <3>3
  <2>2. o[1] = File[ld.addr + 1] /\ o[2] = FALSE
    BY <1>3, <2>1
  <2>3. QED BY <1>1, <1>2, <1>7, <2>1, <2>2 DEF Cell
<1>8. QED BY <1>4, <1>5, <1>6, <1>7 DEF Media

\* The checksum of one more word.
LEMMA PrefixStep ==
  ASSUME NEW f \in Seq(Word), NEW n \in Nat
  PROVE  /\ Sum(Prefix(f, n)) \in Word
         /\ Sum(Prefix(f, n + 1)) = (Sum(Prefix(f, n)) + Cell(f, 4 + n)) % W
         /\ Sum(Prefix(f, 0)) = 0
<1>1. \A m \in Nat : /\ Len(Prefix(f, m)) = m
                     /\ \A k \in 1 .. m : Prefix(f, m)[k] = Cell(f, 3 + k)
                     /\ \A k \in 1 .. m : Cell(f, 3 + k) \in Word
  BY CellRange DEF Prefix
<1> DEFINE vs == Prefix(f, n)
           ws == Prefix(f, n + 1)
<1>2. /\ Len(vs) \in Nat /\ Len(ws) = Len(vs) + 1 /\ Len(vs) = n
      /\ \A k \in 1 .. Len(vs) : vs[k] = ws[k] /\ vs[k] \in Word
      /\ ws[n + 1] = Cell(f, 4 + n)
  <2>1. n + 1 \in Nat /\ n + 1 \in 1 .. n + 1 /\ 3 + (n + 1) = 4 + n
    OBVIOUS
  <2>2. QED BY <1>1, <2>1
<1>3. Len(Prefix(f, 0)) = 0
  BY <1>1
<1> HIDE DEF vs, ws
<1>4. Sum(vs) \in Word
  BY <1>2, SumRange
<1>5. Sum(ws) = (Sum(vs) + ws[Len(ws)]) % W
  BY <1>2, SumStep
<1>6. Sum(Prefix(f, 0)) = 0
  BY <1>3, SumNone
<1>7. QED BY <1>2, <1>4, <1>5, <1>6 DEF vs, ws

LEMMA OrderForm == AutoBootOrder \in Seq(Enabled \cap Media)
<1>1. ASSUME NEW dev \in Media PROVE IfEnabled(dev) \in Seq(Enabled \cap Media)
  <2>1. CASE dev \in Enabled
    BY <2>1 DEF IfEnabled
  <2>2. CASE dev \notin Enabled
    BY <2>2, EmptySeq DEF IfEnabled
  <2>3. QED BY <2>1, <2>2
<1>2. {"twi", "spi", "sd"} \subseteq Media
  BY DEF Media
<1>3. QED BY <1>1, <1>2, ConcatProperties DEF AutoBootOrder

-----------------------------------------------------------------------------
LEMMA ChecksInit == Init => IInv
<1> SUFFICES ASSUME Init PROVE IInv
  OBVIOUS
<1>1. PICK b \in Boards : Enabled = b[1] /\ medium = b[2]
  BY DEF Init
<1>2. 0 \in Word /\ Erased \in Word /\ <<>> \in Seq(Word)
  BY DEF Word, W, Erased
<1>3. TypeInv
  <2>1. /\ medium \in [twi : Seq(Word), spi : Seq(Word), sd : Seq(Word), uart : Seq(Word)]
        /\ \A dev \in Enabled \cap Flash : Len(medium[dev]) >= RamWords + 4
    BY <1>1, BootAssumption DEF Flash
  <2>2. /\ pc \in Label /\ exe \in [base : Word, size : Word \cup {-1}]
        /\ ram \in [0 .. RamWords - 1 -> Word]
        /\ mie \in BOOLEAN /\ led \in BOOLEAN /\ forced \in BOOLEAN
    BY <1>2 DEF Init, Label, NoExe
  <2>3. ld \in [dev : Media \cup {"none"}, next : Nat, hdr : Seq(Word), i : Nat, sum : Word,
                rc : BOOLEAN, addr : Nat]
    BY <1>2 DEF Init, Idle
  <2>4. QED BY <2>1, <2>2, <2>3 DEF TypeInv
<1>4. DirectInv /\ ExeInv /\ StoreInv /\ LoadInv /\ HeaderInv /\ WordsInv /\ BootInv
  BY DEF Init, NoExe, DirectInv, ExeInv, StoreInv, LoadInv, HeaderInv, WordsInv, BootInv,
     Loading, Storing
<1>5. QED BY <1>3, <1>4 DEF IInv

\* Steps of the program that move no data.
LEMMA ChecksControl ==
  ASSUME IInv, UNCHANGED Enabled,
         system_setup \/ AutoBoot \/ StoreEnd \/ AppBoot \/ LedOff \/ StartApp \/ Heartbeat
  PROVE  IInv'
<1> USE DEF Label, Loading, Storing, Booting
<1>1. UNCHANGED <<Enabled, exe, ram, medium, ld, loaded>> /\ pc' \notin {"header", "words"}
  BY DEF system_setup, AutoBoot, StoreEnd, AppBoot, LedOff, StartApp, Heartbeat
<1>2. TypeInv'
  <2>1. pc' \in Label /\ mie' \in BOOLEAN /\ led' \in BOOLEAN /\ forced' \in BOOLEAN
    BY DEF IInv, TypeInv, system_setup, AutoBoot, StoreEnd, AppBoot, LedOff, StartApp, Heartbeat
  <2>2. QED BY <1>1, <2>1 DEF IInv, TypeInv
<1>3. DirectInv'
  BY <1>1 DEF IInv, DirectInv, LoadInv, StoreInv,
     system_setup, AutoBoot, StoreEnd, AppBoot, LedOff, StartApp, Heartbeat
<1>4. ExeInv'
  BY <1>1 DEF IInv, ExeInv
<1>5. StoreInv' /\ LoadInv'
  BY <1>1 DEF IInv, StoreInv, LoadInv,
     system_setup, AutoBoot, StoreEnd, AppBoot, LedOff, StartApp, Heartbeat
<1>6. HeaderInv' /\ WordsInv'
  BY <1>1 DEF HeaderInv, WordsInv
<1>7. BootInv'
  BY <1>1 DEF IInv, TypeInv, BootInv, system_setup, AutoBoot, StoreEnd, AppBoot, LedOff, StartApp,
     Heartbeat
<1>8. QED BY <1>2, <1>3, <1>4, <1>5, <1>6, <1>7 DEF IInv

\* A load begins and withdraws the executable.
LEMMA ChecksLoad ==
  ASSUME IInv, UNCHANGED <<Enabled, forced>>,
         NEW dev \in Enabled \cap Media, NEW next \in Nat, Load(dev, next),
         medium' \in [twi : Seq(Word), spi : Seq(Word), sd : Seq(Word), uart : Seq(Word)],
         medium' = [medium EXCEPT !.uart = medium'.uart]
  PROVE  IInv'
<1>1. /\ pc' = "dev_init" /\ UNCHANGED <<ram, mie, led, loaded>>
      /\ exe' = [exe EXCEPT !.size = 0]
      /\ ld' = [dev |-> dev, next |-> next, hdr |-> <<>>, i |-> 0, sum |-> 0, rc |-> FALSE,
                addr |-> 0]
  BY DEF Load, Idle
<1>2. exe' \in [base : Word, size : Word \cup {-1}] /\ exe'.size = 0
  <2>1. exe \in [base : Word, size : Word \cup {-1}] /\ 0 \in Word
    BY DEF IInv, TypeInv, Word, W
  <2>2. QED BY <1>1, <2>1
<1>3. TypeInv'
  <2>1. <<>> \in Seq(Word) /\ 0 \in Word
    BY DEF Word, W
  <2>2. ld' \in [dev : Media \cup {"none"}, next : Nat, hdr : Seq(Word), i : Nat, sum : Word,
                 rc : BOOLEAN, addr : Nat]
    BY <1>1, <2>1
  <2>3. \A d \in Enabled' \cap Flash : Len(medium'[d]) >= RamWords + 4
    BY DEF IInv, TypeInv, Flash
  <2>4. QED BY <1>1, <1>2, <2>2, <2>3 DEF IInv, TypeInv, Label
<1>4. LoadInv'
  BY <1>1, <1>2 DEF LoadInv, Loading
<1>5. DirectInv' /\ ExeInv' /\ StoreInv' /\ HeaderInv' /\ WordsInv' /\ BootInv'
  BY <1>1, <1>2 DEF DirectInv, ExeInv, StoreInv, HeaderInv, WordsInv, BootInv, Storing
<1>6. QED BY <1>3, <1>4, <1>5 DEF IInv

\* A load ends, with an executable that is in the RAM or with none.
LEMMA ChecksReturn ==
  ASSUME IInv, UNCHANGED <<Enabled, ram, mie, led, forced>>,
         NEW ok \in BOOLEAN, LoadReturns(ok),
         exe' \in [base : Word, size : Word], ExeInv'
  PROVE  IInv'
<1>1. /\ medium' = [medium EXCEPT !.uart = <<>>]
      /\ pc' \in {"boot", "auto", "halt", "console"}
      /\ ld' = [dev |-> "none", next |-> ld.next, hdr |-> <<>>, i |-> 0, sum |-> 0, rc |-> FALSE,
                addr |-> 0]
  BY DEF LoadReturns, Idle
<1>2. <<>> \in Seq(Word) /\ 0 \in Word
  BY DEF Word, W
<1>3. TypeInv'
  <2>1. medium \in [twi : Seq(Word), spi : Seq(Word), sd : Seq(Word), uart : Seq(Word)]
    BY DEF IInv, TypeInv
  <2>2. medium' \in [twi : Seq(Word), spi : Seq(Word), sd : Seq(Word), uart : Seq(Word)]
    BY <1>1, <1>2, <2>1
  <2>3. \A dev \in Enabled' \cap Flash : Len(medium'[dev]) >= RamWords + 4
    BY <1>1, <2>1 DEF IInv, TypeInv, Flash
  <2>4. ld' \in [dev : Media \cup {"none"}, next : Nat, hdr : Seq(Word), i : Nat, sum : Word,
                 rc : BOOLEAN, addr : Nat]
    BY <1>1, <1>2 DEF IInv, TypeInv
  <2>5. pc' \in Label /\ exe' \in [base : Word, size : Word \cup {-1}]
    BY <1>1 DEF Label
  <2>6. QED BY <2>2, <2>3, <2>4, <2>5 DEF IInv, TypeInv
<1>4. exe'.size /= -1
  BY DEF Word, W
<1>5. DirectInv' /\ StoreInv' /\ LoadInv' /\ HeaderInv' /\ WordsInv' /\ BootInv'
  BY <1>1, <1>4 DEF DirectInv, StoreInv, LoadInv, HeaderInv, WordsInv, BootInv, Storing, Loading
<1>6. QED BY <1>3, <1>5 DEF IInv

LEMMA ChecksAutoBoot == ASSUME IInv, UNCHANGED Enabled, AutoBootNext PROVE IInv'
<1>1. CASE ld.next < Len(AutoBootOrder)
  <2>1. /\ Load(AutoBootOrder[ld.next + 1], ld.next + 1)
        /\ UNCHANGED <<medium, forced>>
    BY <1>1 DEF AutoBootNext
  <2>2. ld.next + 1 \in Nat /\ AutoBootOrder[ld.next + 1] \in Enabled \cap Media
    <3>1. ld.next \in Nat
      BY DEF IInv, TypeInv
    <3>2. QED BY <1>1, <3>1, OrderForm
  <2>3. /\ medium' \in [twi : Seq(Word), spi : Seq(Word), sd : Seq(Word), uart : Seq(Word)]
        /\ medium' = [medium EXCEPT !.uart = medium'.uart]
    BY <2>1 DEF IInv, TypeInv
  <2>4. QED BY <2>1, <2>2, <2>3, ChecksLoad
<1>2. CASE ~ (ld.next < Len(AutoBootOrder))
  <2>1. /\ pc = "auto" /\ UNCHANGED <<ram, medium, mie, led, loaded, forced>>
        /\ \/ exe' = DirectExe /\ pc' = "boot"
           \/ exe' = exe /\ pc' = "console"
        /\ ld' = Idle
    BY <1>2 DEF AutoBootNext
  <2>2. TypeInv'
    <3>1. 0 \in Word /\ <<>> \in Seq(Word)
      BY DEF Word, W
    <3>2. exe' \in [base : Word, size : Word \cup {-1}] /\ pc' \in Label
      BY <2>1, <3>1 DEF IInv, TypeInv, DirectExe, Label
    <3>3. ld' \in [dev : Media \cup {"none"}, next : Nat, hdr : Seq(Word), i : Nat, sum : Word,
                   rc : BOOLEAN, addr : Nat]
      BY <2>1, <3>1 DEF Idle
    <3>4. QED BY <2>1, <3>2, <3>3 DEF IInv, TypeInv
  <2>3. DirectInv' /\ ExeInv'
    BY <2>1 DEF IInv, DirectInv, ExeInv, DirectExe, Booting
  <2>4. StoreInv' /\ LoadInv' /\ HeaderInv' /\ WordsInv' /\ BootInv'
    BY <2>1 DEF StoreInv, LoadInv, HeaderInv, WordsInv, BootInv, Storing, Loading
  <2>5. QED BY <2>2, <2>3, <2>4 DEF IInv
<1>3. QED BY <1>1, <1>2

LEMMA ChecksUpload == ASSUME IInv, UNCHANGED Enabled, Upload PROVE IInv'
<1>1. "uart" \in Enabled \cap Media /\ Load("uart", 0) /\ UNCHANGED forced
  BY DEF Upload, Media
<1>2. PICK f \in Files : medium' = [medium EXCEPT !.uart = f]
  BY DEF Upload
<1>3. f \in Seq(Word)
  BY BootAssumption
<1>4. /\ medium' \in [twi : Seq(Word), spi : Seq(Word), sd : Seq(Word), uart : Seq(Word)]
      /\ medium' = [medium EXCEPT !.uart = medium'.uart]
  BY <1>2, <1>3 DEF IInv, TypeInv
<1>5. QED BY <1>1, <1>4, ChecksLoad

LEMMA ChecksLoadFrom ==
  ASSUME IInv, UNCHANGED Enabled, NEW dev \in {"spi", "twi", "sd"}, LoadFrom(dev)
  PROVE  IInv'
<1>1. dev \in Enabled \cap Media /\ Load(dev, 0) /\ UNCHANGED <<medium, forced>>
  BY DEF LoadFrom, Media
<1>2. /\ medium' \in [twi : Seq(Word), spi : Seq(Word), sd : Seq(Word), uart : Seq(Word)]
      /\ medium' = [medium EXCEPT !.uart = medium'.uart]
  BY <1>1 DEF IInv, TypeInv
<1>3. QED BY <1>1, <1>2, ChecksLoad

LEMMA ChecksCommand == ASSUME IInv, UNCHANGED Enabled, Command PROVE IInv'
<1>1. /\ pc = "console" /\ UNCHANGED <<ram, medium, mie, loaded, forced>>
      /\ pc' \in {"boot", "halt"} /\ led' \in {led, TRUE}
      /\ exe' = exe \/ (exe' = DirectExe /\ pc' = "boot")
      /\ ld' \in {ld, Idle}
  BY DEF Command, system_trap_handler
<1>2. TypeInv'
  <2>1. 0 \in Word /\ <<>> \in Seq(Word)
    BY DEF Word, W
  <2>2. exe' \in [base : Word, size : Word \cup {-1}]
    <3>1. DirectExe \in [base : Word, size : Word \cup {-1}]
      BY <2>1 DEF DirectExe
    <3>2. QED BY <1>1, <3>1 DEF IInv, TypeInv
  <2>3. ld' \in [dev : Media \cup {"none"}, next : Nat, hdr : Seq(Word), i : Nat, sum : Word,
                 rc : BOOLEAN, addr : Nat]
    <3>1. Idle \in [dev : Media \cup {"none"}, next : Nat, hdr : Seq(Word), i : Nat, sum : Word,
                    rc : BOOLEAN, addr : Nat]
      BY <2>1 DEF Idle
    <3>2. QED BY <1>1, <3>1 DEF IInv, TypeInv
  <2>4. pc' \in Label /\ led' \in BOOLEAN
    BY <1>1 DEF IInv, TypeInv, Label
  <2>5. QED BY <1>1, <2>2, <2>3, <2>4 DEF IInv, TypeInv
<1>3. DirectInv' /\ ExeInv'
  BY <1>1 DEF IInv, DirectInv, ExeInv, DirectExe, Booting
<1>4. StoreInv' /\ LoadInv' /\ HeaderInv' /\ WordsInv' /\ BootInv'
  BY <1>1 DEF StoreInv, LoadInv, HeaderInv, WordsInv, BootInv, Storing, Loading
<1>5. QED BY <1>2, <1>3, <1>4 DEF IInv

-----------------------------------------------------------------------------
(* The load itself.                                                        *)

LEMMA ChecksDevInit == ASSUME IInv, UNCHANGED Enabled, dev_init PROVE IInv'
<1>1. pc = "dev_init" /\ UNCHANGED <<exe, ram, mie, led, loaded, forced>>
  BY DEF dev_init
<1>2. exe.size = 0 /\ ld.dev \in Enabled \cap Media
  BY <1>1 DEF IInv, LoadInv, Loading
<1>3. exe' \in [base : Word, size : Word] /\ ExeInv'
  <2>1. exe \in [base : Word, size : Word \cup {-1}] /\ 0 \in Word
    BY DEF IInv, TypeInv, Word, W
  <2>2. QED BY <1>1, <1>2, <2>1 DEF ExeInv
<1>4. CASE LoadReturns(FALSE)
  BY <1>1, <1>3, <1>4, ChecksReturn
<1>5. CASE pc' = "header" /\ ld' = [ld EXCEPT !.addr = 0] /\ UNCHANGED medium
  <2>1. ld.hdr = <<>> /\ ld.i = 0 /\ ~ld.rc
    BY <1>1 DEF IInv, LoadInv, Loading
  <2>2. /\ ld'.dev = ld.dev /\ ld'.hdr = <<>> /\ ld'.i = 0 /\ ld'.addr = 0 /\ ld'.rc = ld.rc
        /\ ld' \in [dev : Media \cup {"none"}, next : Nat, hdr : Seq(Word), i : Nat, sum : Word,
                    rc : BOOLEAN, addr : Nat]
    BY <1>5, <2>1 DEF IInv, TypeInv
  <2>3. TypeInv'
    BY <1>1, <1>5, <2>2 DEF IInv, TypeInv, Label
  <2>4. LoadInv'
    BY <1>1, <1>2, <1>5, <2>1, <2>2 DEF LoadInv, Loading
  <2>5. HeaderInv'
    <3>1. File' \in Seq(Word) /\ Len(File') \in Nat
      BY <1>2, <1>5, <2>2, MediumForm DEF IInv, File
    <3>2. QED BY <1>5, <2>2, <3>1 DEF HeaderInv
  <2>6. DirectInv' /\ ExeInv' /\ StoreInv' /\ WordsInv' /\ BootInv'
    BY <1>1, <1>2, <1>3, <1>5 DEF DirectInv, StoreInv, WordsInv, BootInv, Storing
  <2>7. QED BY <2>3, <2>4, <2>5, <2>6 DEF IInv
<1>6. QED BY <1>4, <1>5 DEF dev_init

LEMMA ChecksHeader == ASSUME IInv, UNCHANGED Enabled, LoadHeader PROVE IInv'
<1>1. pc = "header" /\ UNCHANGED <<Enabled, ram, mie, led, loaded, forced>>
  BY DEF LoadHeader
<1> DEFINE hdr(o) == Append(ld.hdr, o[1])
           l(o) == [ld EXCEPT !.hdr = hdr(o), !.rc = @ \/ o[2], !.addr = @ + 1]
<1>2. PICK o \in stream_get :
        IF Len(hdr(o)) < 4 THEN ld' = l(o) /\ UNCHANGED <<pc, exe, medium>>
        ELSE /\ exe' = [exe EXCEPT !.base = hdr(o)[2]]
             /\ IF hdr(o)[1] # Signature THEN LoadReturns(FALSE)
                ELSE /\ pc' = "words" /\ ld' = [l(o) EXCEPT !.sum = hdr(o)[4]]
                     /\ UNCHANGED medium
  BY DEF LoadHeader
<1>3. /\ TypeInv /\ exe.size = 0 /\ ld.dev \in Enabled \cap Media /\ ld.i = 0
      /\ Len(ld.hdr) < 4 /\ ld.addr = Len(ld.hdr)
      /\ ld.dev \in {"spi", "uart"} => ~ld.rc
      /\ ~ld.rc => \A k \in 1 .. Len(ld.hdr) : ld.hdr[k] = Cell(File, k - 1)
  BY <1>1 DEF IInv, LoadInv, HeaderInv, Loading
<1>4. /\ ld \in [dev : Media \cup {"none"}, next : Nat, hdr : Seq(Word), i : Nat, sum : Word,
                 rc : BOOLEAN, addr : Nat]
      /\ exe \in [base : Word, size : Word \cup {-1}] /\ 0 \in Word
  BY <1>3 DEF TypeInv, Word, W
<1>5. /\ o[1] \in Word /\ o[2] \in BOOLEAN
      /\ ld.dev \in {"spi", "uart"} => ~o[2]
      /\ ~o[2] => o[1] = Cell(File, ld.addr)
      /\ ~o[2] /\ ld.dev \in {"sd", "uart"} => ld.addr < Len(File)
  BY <1>3, Delivers
<1>6. /\ hdr(o) \in Seq(Word) /\ Len(hdr(o)) = Len(ld.hdr) + 1
      /\ \A k \in 1 .. Len(ld.hdr) : hdr(o)[k] = ld.hdr[k]
      /\ hdr(o)[Len(ld.hdr) + 1] = o[1]
      /\ Len(ld.hdr) \in Nat
  BY <1>4, <1>5, AppendProperties
<1> DEFINE h == hdr(o)
<1> HIDE DEF hdr
<1>7. /\ l(o).hdr = h /\ (l(o).rc <=> ld.rc \/ o[2]) /\ l(o).addr = ld.addr + 1
      /\ l(o).i = 0 /\ l(o).dev = ld.dev
      /\ l(o) \in [dev : Media \cup {"none"}, next : Nat, hdr : Seq(Word), i : Nat, sum : Word,
                   rc : BOOLEAN, addr : Nat]
  <2> DEFINE failed == ld.rc \/ o[2]
  <2>1. failed \in BOOLEAN
    OBVIOUS
  <2>2. l(o) = [ld EXCEPT !.hdr = h, !.rc = failed, !.addr = ld.addr + 1]
    BY <1>4
  <2>3. h \in Seq(Word)
    BY <1>6
  <2> HIDE DEF l, h, failed
  <2>4. /\ l(o).hdr = h /\ l(o).rc = failed /\ l(o).addr = ld.addr + 1
        /\ l(o).i = 0 /\ l(o).dev = ld.dev
    BY <1>3, <1>4, <2>2
  <2>5. l(o) \in [dev : Media \cup {"none"}, next : Nat, hdr : Seq(Word), i : Nat, sum : Word,
                  rc : BOOLEAN, addr : Nat]
    <3>1. ld.addr + 1 \in Nat
      BY <1>4
    <3>2. ld \in [dev : Media \cup {"none"}, next : Nat, hdr : Seq(Word), i : Nat, sum : Word,
                  rc : BOOLEAN, addr : Nat]
      BY <1>4
    <3>3. QED BY <2>1, <2>2, <2>3, <3>1, <3>2
  <2>6. l(o).rc <=> failed
    BY <2>1, <2>4
  <2>7. failed <=> ld.rc \/ o[2]
    BY DEF failed
  <2>8. QED BY <2>4, <2>5, <2>6, <2>7
<1>8. /\ ld.dev \in {"spi", "uart"} => ~l(o).rc
      /\ l(o).addr = Len(h)
      /\ ~l(o).rc => \A k \in 1 .. Len(h) : h[k] = Cell(File, k - 1)
      /\ ~l(o).rc /\ ld.dev \in {"sd", "uart"} => l(o).addr <= Len(File)
  <2>1. File \in Seq(Word) /\ Len(File) \in Nat
    BY <1>3, MediumForm DEF File
  <2>2. ASSUME ~l(o).rc, NEW k \in 1 .. Len(h) PROVE h[k] = Cell(File, k - 1)
    <3>1. ~ld.rc /\ ~o[2]
      BY <1>7, <2>2
    <3> HIDE DEF l, h
    <3>2. CASE k = Len(ld.hdr) + 1
      BY <1>3, <1>5, <1>6, <3>1, <3>2 DEF h
    <3>3. CASE k \in 1 .. Len(ld.hdr)
      BY <1>3, <1>6, <3>1, <3>3 DEF h
    <3>4. QED BY <1>6, <2>2, <3>2, <3>3 DEF h
  <2>3. QED BY <1>3, <1>5, <1>6, <1>7, <2>1, <2>2
<1>9. CASE Len(h) < 4
  <2>1. ld' = l(o) /\ UNCHANGED <<pc, exe, medium>>
    BY <1>2, <1>9
  <2> HIDE DEF h, l
  <2>2. TypeInv'
    BY <1>1, <1>3, <1>7, <2>1 DEF TypeInv
  <2>3. LoadInv' /\ HeaderInv'
    <3>1. File' = File
      BY <1>7, <2>1 DEF File
    <3>2. LoadInv'
      BY <1>1, <1>3, <1>7, <1>8, <1>9, <2>1 DEF LoadInv, Loading
    <3>3. HeaderInv'
      BY <1>1, <1>6, <1>7, <1>8, <2>1, <3>1 DEF HeaderInv
    <3>4. QED BY <3>2, <3>3
  <2>4. DirectInv' /\ ExeInv' /\ StoreInv' /\ WordsInv' /\ BootInv'
    BY <1>1, <1>3, <2>1 DEF DirectInv, ExeInv, StoreInv, WordsInv, BootInv, Storing
  <2>5. QED BY <2>2, <2>3, <2>4 DEF IInv
<1>10. CASE ~ (Len(h) < 4)
  <2>1. Len(h) = 4 /\ h[1] \in Word /\ h[2] \in Word /\ h[3] \in Word /\ h[4] \in Word
    BY <1>3, <1>6, <1>10
  <2>2. exe' \in [base : Word, size : Word] /\ exe'.size = 0 /\ exe'.base = h[2] /\ ExeInv'
    <3>1. exe' = [exe EXCEPT !.base = h[2]]
      BY <1>2, <1>10
    <3>2. exe' \in [base : Word, size : Word] /\ exe'.size = 0 /\ exe'.base = h[2]
      BY <1>3, <1>4, <2>1, <3>1
    <3>3. QED BY <3>2 DEF ExeInv
  <2>3. CASE h[1] # Signature
    <3>1. LoadReturns(FALSE)
      BY <1>2, <1>10, <2>3
    <3>2. QED BY <1>1, <2>2, <3>1, ChecksReturn
  <2>4. CASE h[1] = Signature
    <3>1. pc' = "words" /\ ld' = [l(o) EXCEPT !.sum = h[4]] /\ UNCHANGED medium
      BY <1>2, <1>10, <2>4
    <3> HIDE DEF h, l
    <3>2. /\ ld'.hdr = h /\ ld'.rc = l(o).rc /\ ld'.addr = Len(h) /\ ld'.i = 0
          /\ ld'.dev = ld.dev /\ ld'.sum = h[4]
          /\ ld' \in [dev : Media \cup {"none"}, next : Nat, hdr : Seq(Word), i : Nat, sum : Word,
                      rc : BOOLEAN, addr : Nat]
      BY <1>7, <1>8, <2>1, <3>1
    <3>3. TypeInv'
      <4>1. exe' \in [base : Word, size : Word \cup {-1}]
        BY <2>2
      <4>2. QED BY <1>1, <1>3, <3>1, <3>2, <4>1 DEF TypeInv, Label
    <3>4. File' = File
      BY <3>1, <3>2 DEF File
    <3>5. LoadInv'
      BY <1>1, <1>3, <1>8, <2>2, <3>1, <3>2 DEF LoadInv, Loading
    <3>6. HeaderInv'
      <4>1. ld'.addr = Len(ld'.hdr) + ld'.i \div 4
        BY <2>1, <3>2
      <4>2. /\ ~ld'.rc /\ ld'.dev \in {"sd", "uart"} => ld'.addr <= Len(File)
            /\ ~ld'.rc => \A k \in 1 .. Len(h) : h[k] = Cell(File, k - 1)
        BY <1>8, <3>2
      <4>3. QED BY <3>2, <3>4, <4>1, <4>2 DEF HeaderInv
    <3>7. WordsInv'
      <4>1. Sum(Prefix(File, 0)) = 0
        BY <1>3, MediumForm, PrefixStep DEF File
      <4>2. ld'.i \div 4 = 0 /\ ld'.i % 4 = 0 /\ ld'.i < h[3] + 4
        BY <2>1, <3>2 DEF Word, W
      <4>3. h[4] = (h[4] + 0) % W
        BY <2>1 DEF Word, W
      <4>4. ld'.sum = (ld'.hdr[4] + Sum(Prefix(File', ld'.i \div 4))) % W
        BY <3>2, <3>4, <4>1, <4>2, <4>3
      <4>5. \A k \in 1 .. ld'.i \div 4 : FALSE
        BY <4>2
      <4>6. QED BY <2>1, <2>2, <2>4, <3>2, <4>2, <4>4, <4>5 DEF WordsInv
    <3>8. DirectInv' /\ StoreInv' /\ BootInv'
      BY <2>2, <3>1 DEF DirectInv, StoreInv, BootInv, Storing
    <3>9. QED BY <2>2, <3>3, <3>5, <3>6, <3>7, <3>8 DEF IInv
  <2>5. QED BY <2>3, <2>4
<1>11. QED BY <1>9, <1>10

LEMMA SumSwap == \A a, b, c \in Int : (((a + b) % W) + c) % W = (a + ((b + c) % W)) % W
BY DEF W

LEMMA WordIsNat == \A w \in Word : w \in Nat /\ w \in Int
BY DEF Word, W

\* The numbers of the loop.
LEMMA Locals ==
  ASSUME TypeInv, Len(ld.hdr) = 4
  PROVE  /\ ld \in [dev : Media \cup {"none"}, next : Nat, hdr : Seq(Word), i : Nat, sum : Word,
                    rc : BOOLEAN, addr : Nat]
         /\ ld.i \in Nat /\ ld.i \div 4 \in Nat /\ ld.addr \in Nat /\ ld.sum \in Nat
         /\ exe.base \in Nat /\ RamWords \in Nat
         /\ ld.hdr[1] \in Nat /\ ld.hdr[2] \in Nat /\ ld.hdr[3] \in Nat /\ ld.hdr[4] \in Nat
<1>1. /\ ld \in [dev : Media \cup {"none"}, next : Nat, hdr : Seq(Word), i : Nat, sum : Word,
                 rc : BOOLEAN, addr : Nat]
      /\ exe \in [base : Word, size : Word \cup {-1}]
  BY DEF TypeInv
<1>2. \A k \in 1 .. 4 : ld.hdr[k] \in Word
  BY <1>1
<1>3. ld.hdr[1] \in Nat /\ ld.hdr[2] \in Nat /\ ld.hdr[3] \in Nat /\ ld.hdr[4] \in Nat
  BY <1>2, WordIsNat
<1>4. exe.base \in Nat /\ ld.sum \in Nat
  BY <1>1, WordIsNat
<1>5. ld.i \in Nat /\ ld.addr \in Nat
  BY <1>1
<1>6. ld.i \div 4 \in Nat
  BY <1>5
<1>7. QED BY <1>1, <1>3, <1>4, <1>5, <1>6, BootAssumption

LEMMA ChecksWord == ASSUME IInv, UNCHANGED Enabled, LoadWord PROVE IInv'
<1> DEFINE n == ld.i \div 4
           a == exe.base + n
<1>1. pc = "words" /\ ld.i < ld.hdr[3] /\ ~ld.rc /\ UNCHANGED <<exe, medium, mie, loaded, forced>>
  BY DEF LoadWord
<1>2. PICK o \in stream_get :
        /\ ld' = [ld EXCEPT !.rc = o[2], !.sum = (@ + o[1]) % W, !.i = @ + 4, !.addr = @ + 1]
        /\ IF a < RamWords THEN ram' = [ram EXCEPT ![a] = o[1]] /\ UNCHANGED <<pc, led>>
           ELSE system_trap_handler /\ UNCHANGED ram
  BY DEF LoadWord
<1>3. /\ TypeInv /\ exe.size = 0 /\ ld.dev \in Enabled \cap Media
      /\ ld.addr = Len(ld.hdr) + n
      /\ \A k \in 1 .. Len(ld.hdr) : ld.hdr[k] = Cell(File, k - 1)
      /\ Len(ld.hdr) = 4 /\ ld.hdr[1] = Signature /\ exe.base = ld.hdr[2]
      /\ ld.i % 4 = 0
      /\ \A k \in 1 .. n : ram[exe.base + k - 1] = Cell(File, 3 + k)
      /\ ld.sum = (ld.hdr[4] + Sum(Prefix(File, n))) % W
  BY <1>1 DEF IInv, LoadInv, HeaderInv, WordsInv, Loading
<1>4. /\ ld \in [dev : Media \cup {"none"}, next : Nat, hdr : Seq(Word), i : Nat, sum : Word,
                 rc : BOOLEAN, addr : Nat]
      /\ exe.base \in Nat /\ ld.hdr[3] \in Nat /\ ld.hdr[4] \in Nat /\ ld.i \in Nat /\ n \in Nat
      /\ ram \in [0 .. RamWords - 1 -> Word] /\ a \in Nat /\ RamWords \in Nat
      /\ ld.sum \in Nat /\ ld.addr \in Nat
  <2>1. ram \in [0 .. RamWords - 1 -> Word]
    BY <1>3 DEF TypeInv
  <2> HIDE DEF n
  <2>2. n \in Nat /\ exe.base \in Nat
    BY <1>3, Locals DEF n
  <2>3. a \in Nat
    BY <2>2
  <2>4. QED BY <1>3, <2>1, <2>2, <2>3, Locals
<1>5. /\ o[1] \in Word /\ o[2] \in BOOLEAN
      /\ ld.dev \in {"spi", "uart"} => ~o[2]
      /\ ~o[2] => o[1] = Cell(File, 4 + n)
      /\ ~o[2] /\ ld.dev \in {"sd", "uart"} => 4 + n < Len(File)
  BY <1>3, Delivers
<1>6. /\ ld'.rc = o[2] /\ ld'.sum = (ld.sum + o[1]) % W /\ ld'.i = ld.i + 4
      /\ ld'.addr = ld.addr + 1 /\ ld'.hdr = ld.hdr /\ ld'.dev = ld.dev
      /\ ld' \in [dev : Media \cup {"none"}, next : Nat, hdr : Seq(Word), i : Nat, sum : Word,
                  rc : BOOLEAN, addr : Nat]
  <2>1. (ld.sum + o[1]) % W \in Word
    <3>1. ld.sum + o[1] \in Int
      <4>1. o[1] \in Int
        BY <1>5, WordIsNat
      <4>2. QED BY <1>4, <4>1
    <3>2. QED BY <3>1, ModRange
  <2>2. ld.i + 4 \in Nat /\ ld.addr + 1 \in Nat
    BY <1>4
  <2>3. ld' = [ld EXCEPT !.rc = o[2], !.sum = (ld.sum + o[1]) % W, !.i = ld.i + 4,
                         !.addr = ld.addr + 1]
    BY <1>2, <1>4
  <2> HIDE DEF n, a
  <2>4. QED BY <1>4, <1>5, <2>1, <2>2, <2>3
<1>7. ld'.i \div 4 = n + 1 /\ ld'.i % 4 = 0 /\ ld'.i < ld.hdr[3] + 4
  <2>1. \A x, y \in Nat : x % 4 = 0 /\ x < y =>
          (x + 4) \div 4 = x \div 4 + 1 /\ (x + 4) % 4 = 0 /\ x + 4 < y + 4
    OBVIOUS
  <2>2. ld.i % 4 = 0 /\ ld.i < ld.hdr[3] /\ ld'.i = ld.i + 4
    BY <1>1, <1>3, <1>6
  <2>3. QED BY <1>4, <2>1, <2>2
<1>8. File \in Seq(Word) /\ Len(File) \in Nat /\ File' = File
  BY <1>1, <1>3, <1>6, MediumForm DEF File
<1> HIDE DEF n, a
<1>9. CASE a < RamWords
  <2>1. ram' = [ram EXCEPT ![a] = o[1]] /\ UNCHANGED <<pc, led>>
    BY <1>2, <1>9
  <2>2. TypeInv'
    <3>1. ram' \in [0 .. RamWords - 1 -> Word]
      BY <1>4, <1>5, <1>9, <2>1
    <3>2. QED BY <1>1, <1>3, <1>6, <2>1, <3>1 DEF TypeInv
  <2>3. LoadInv'
    BY <1>1, <1>3, <1>5, <1>6, <2>1 DEF LoadInv, Loading
  <2>4. HeaderInv'
    <3>1. ld'.addr = Len(ld'.hdr) + ld'.i \div 4 /\ ld'.addr = 4 + n + 1
      <4>1. ld.addr = 4 + n /\ Len(ld'.hdr) = 4 /\ ld'.addr = ld.addr + 1
        BY <1>3, <1>6
      <4>2. QED BY <1>4, <1>7, <4>1
    <3>2. ~ld'.rc /\ ld'.dev \in {"sd", "uart"} => ld'.addr <= Len(File)
      BY <1>4, <1>5, <1>6, <1>8, <3>1
    <3>3. QED BY <1>3, <1>6, <1>8, <3>1, <3>2 DEF HeaderInv
  <2>5. WordsInv'
    <3>1. exe.base + (n + 1) <= RamWords
      BY <1>4, <1>9 DEF a
    <3>2. ASSUME ~o[2], NEW k \in 1 .. n + 1
          PROVE  ram'[exe.base + k - 1] = Cell(File, 3 + k)
      <4>1. CASE k = n + 1
        <5>1. exe.base + k - 1 = a /\ 3 + k = 4 + n
          BY <1>4, <4>1 DEF a
        <5>2. QED BY <1>4, <1>5, <1>9, <2>1, <3>2, <5>1
      <4>2. CASE k \in 1 .. n
        <5>1. exe.base + k - 1 \in 0 .. RamWords - 1 /\ exe.base + k - 1 /= a
          <6>1. \A x, m, r \in Nat : \A j \in 1 .. m :
                  x + m < r => x + j - 1 \in 0 .. r - 1 /\ x + j - 1 /= x + m
            OBVIOUS
          <6>2. QED BY <1>4, <1>9, <4>2, <6>1 DEF a
        <5>2. ram'[exe.base + k - 1] = ram[exe.base + k - 1]
          BY <1>4, <2>1, <5>1
        <5>3. QED BY <1>3, <4>2, <5>2
      <4>3. QED BY <1>4, <3>2, <4>1, <4>2
    <3>3. ~o[2] => ld'.sum = (ld.hdr[4] + Sum(Prefix(File, n + 1))) % W
      <4> DEFINE s == Sum(Prefix(File, n))
                 c == Cell(File, 4 + n)
      <4>1. s \in Word /\ Sum(Prefix(File, n + 1)) = (s + c) % W
        BY <1>4, <1>8, PrefixStep
      <4>2. c \in Word
        BY <1>4, <1>8, CellRange
      <4>3. ~o[2] => ld'.sum = (((ld.hdr[4] + s) % W) + c) % W
        BY <1>3, <1>5, <1>6
      <4>4. s \in Int /\ c \in Int /\ ld.hdr[4] \in Int
        BY <1>4, <4>1, <4>2, WordIsNat
      <4>5. (((ld.hdr[4] + s) % W) + c) % W = (ld.hdr[4] + ((s + c) % W)) % W
        <5> HIDE DEF s, c
        <5>1. QED BY <4>4, SumSwap
      <4>6. QED BY <4>1, <4>3, <4>5
    <3>4. QED BY <1>1, <1>3, <1>6, <1>7, <1>8, <3>1, <3>2, <3>3 DEF WordsInv
  <2>6. DirectInv' /\ ExeInv' /\ StoreInv' /\ BootInv'
    BY <1>1, <1>3, <2>1 DEF DirectInv, ExeInv, StoreInv, BootInv, Storing
  <2>7. QED BY <2>2, <2>3, <2>4, <2>5, <2>6 DEF IInv
<1>10. CASE ~ (a < RamWords)
  <2>1. pc' = "halt" /\ led' = TRUE /\ UNCHANGED ram
    BY <1>2, <1>10 DEF system_trap_handler
  <2>2. TypeInv'
    BY <1>1, <1>3, <1>6, <2>1 DEF TypeInv, Label
  <2>3. /\ DirectInv' /\ ExeInv' /\ StoreInv' /\ LoadInv' /\ HeaderInv' /\ WordsInv' /\ BootInv'
    BY <1>1, <1>3, <2>1 DEF DirectInv, ExeInv, StoreInv, LoadInv, HeaderInv, WordsInv, BootInv,
       Storing, Loading
  <2>4. QED BY <2>2, <2>3 DEF IInv
<1>11. QED BY <1>9, <1>10

\* Where the loop ends without an error of the device, the file holds an image
\* exactly if its checksum is right.
LEMMA Verdict ==
  ASSUME IInv, pc = "words", ~ld.rc, ld.i >= ld.hdr[3]
  PROVE  LET n == ld.i \div 4 IN
         /\ n \in Nat /\ Len(File) \in Nat /\ n + 4 <= Len(File) /\ n = WordsOf(File)
         /\ File[2] = exe.base /\ File[3] = ld.hdr[3]
         /\ ld.hdr[3] > 0 => exe.base + n <= RamWords
         /\ \A k \in 1 .. n : ram[exe.base + k - 1] = File[4 + k]
         /\ Accepts(File) => (ld.sum + 1) % W = 0
         /\ ld.hdr[3] > 0 /\ (ld.sum + 1) % W = 0 => Accepts(File)
<1> DEFINE n == ld.i \div 4
           f == File
<1>1. /\ TypeInv /\ ld.dev \in Enabled \cap Media
      /\ ld.addr = Len(ld.hdr) + n
      /\ ld.dev \in {"sd", "uart"} => ld.addr <= Len(f)
      /\ \A k \in 1 .. Len(ld.hdr) : ld.hdr[k] = Cell(f, k - 1)
      /\ Len(ld.hdr) = 4 /\ ld.hdr[1] = Signature /\ exe.base = ld.hdr[2]
      /\ ld.i % 4 = 0 /\ ld.i < ld.hdr[3] + 4
      /\ exe.base + n <= RamWords \/ ld.i = 0
      /\ \A k \in 1 .. n : ram[exe.base + k - 1] = Cell(f, 3 + k)
      /\ ld.sum = (ld.hdr[4] + Sum(Prefix(f, n))) % W
  BY DEF IInv, LoadInv, HeaderInv, WordsInv, Loading
<1>2. /\ f \in Seq(Word) /\ Len(f) \in Nat /\ n \in Nat /\ exe.base \in Nat /\ RamWords \in Nat
      /\ ld.hdr[1] \in Nat /\ ld.hdr[2] \in Nat /\ ld.hdr[3] \in Nat /\ ld.hdr[4] \in Nat
      /\ ld.i \in Nat
  <2>1. f \in Seq(Word) /\ Len(f) \in Nat
    BY <1>1, MediumForm DEF File
  <2> HIDE DEF f, n
  <2>2. n \in Nat /\ exe.base \in Nat
    BY <1>1, Locals DEF n
  <2>3. QED BY <1>1, <2>1, <2>2, Locals
<1>3. n = (ld.hdr[3] + 3) \div 4
  <2>1. \A x, y \in Nat : x % 4 = 0 /\ x < y + 4 /\ x >= y => x \div 4 = (y + 3) \div 4
    OBVIOUS
  <2>2. ld.i % 4 = 0 /\ ld.i < ld.hdr[3] + 4
    BY <1>1
  <2>3. QED BY <1>2, <2>1, <2>2
<1>4. n + 4 <= Len(f)
  <2>1. CASE ld.dev \in {"sd", "uart"}
    BY <1>1, <1>2, <2>1
  <2>2. CASE ld.dev \in Flash
    <3>1. Len(f) >= RamWords + 4
      BY <1>1, <2>2 DEF TypeInv, File
    <3>2. n <= RamWords
      BY <1>1, <1>2
    <3> HIDE DEF f, n
    <3>3. QED BY <1>2, <3>1, <3>2
  <2>3. QED BY <1>1, <2>1, <2>2 DEF Flash, Media
<1>5. /\ \A k \in 1 .. 4 : f[k] = ld.hdr[k]
      /\ \A k \in 1 .. n : f[4 + k] = Cell(f, 3 + k)
  <2> HIDE DEF f, n
  <2>1. \A k \in 0 .. n + 3 : Cell(f, k) = f[k + 1]
    BY <1>2, <1>4 DEF Cell
  <2>2. ASSUME NEW k \in 1 .. 4 PROVE f[k] = ld.hdr[k]
    <3>1. k - 1 \in 0 .. n + 3 /\ (k - 1) + 1 = k
      BY <1>2
    <3>2. QED BY <1>1, <2>1, <3>1
  <2>3. ASSUME NEW k \in 1 .. n PROVE f[4 + k] = Cell(f, 3 + k)
    <3>1. 3 + k \in 0 .. n + 3 /\ (3 + k) + 1 = 4 + k
      BY <1>2
    <3>2. QED BY <2>1, <3>1
  <2>4. QED BY <2>2, <2>3
<1>6. [i \in 1 .. n |-> f[4 + i]] = Prefix(f, n)
  BY <1>5 DEF Prefix
<1>7. Accepts(f) <=> exe.base + n <= RamWords /\ (Sum(Prefix(f, n)) + ld.hdr[4] + 1) % W = 0
  <2> HIDE DEF f
  <2>1. (f[3] + 3) \div 4 = n /\ f[1] = Signature /\ f[2] = exe.base /\ f[4] = ld.hdr[4]
    BY <1>1, <1>3, <1>5
  <2> HIDE DEF n
  <2>2. Len(f) >= 4 /\ n + 4 <= Len(f)
    BY <1>2, <1>4
  <2>3. Accepts(f) <=> /\ exe.base + n <= RamWords
                       /\ (Sum([i \in 1 .. n |-> f[4 + i]]) + ld.hdr[4] + 1) % W = 0
    BY <2>1, <2>2 DEF Accepts
  <2>4. QED BY <1>6, <2>3
<1>8. (ld.sum + 1) % W = 0 <=> (Sum(Prefix(f, n)) + ld.hdr[4] + 1) % W = 0
  <2>1. Sum(Prefix(f, n)) \in Word
    BY <1>2, PrefixStep
  <2>2. \A x, y \in Int : (((x + y) % W) + 1) % W = (y + x + 1) % W
    BY DEF W
  <2>3. Sum(Prefix(f, n)) \in Int /\ ld.hdr[4] \in Int
    BY <1>2, <2>1, WordIsNat
  <2>4. ld.sum = (ld.hdr[4] + Sum(Prefix(f, n))) % W
    BY <1>1
  <2> HIDE DEF f, n
  <2>5. QED BY <2>2, <2>3, <2>4
<1>9. ld.hdr[3] > 0 => exe.base + n <= RamWords
  BY <1>1, <1>2
<1>10. /\ n = WordsOf(f) /\ f[2] = exe.base /\ f[3] = ld.hdr[3]
       /\ \A k \in 1 .. n : ram[exe.base + k - 1] = f[4 + k]
  BY <1>1, <1>3, <1>5 DEF WordsOf
<1> HIDE DEF f, n
<1>11. QED BY <1>2, <1>4, <1>7, <1>8, <1>9, <1>10 DEF f, n

LEMMA ChecksEnd == ASSUME IInv, UNCHANGED Enabled, LoadEnd PROVE IInv'
<1> DEFINE ok == ~ld.rc /\ (ld.sum + 1) % W = 0
           n == ld.i \div 4
<1>1. /\ pc = "words" /\ (ld.i >= ld.hdr[3] \/ ld.rc)
      /\ LoadReturns(ok)
      /\ exe' = IF ok THEN [exe EXCEPT !.size = ld.hdr[3]] ELSE exe
      /\ loaded' = IF ok THEN ImageIn(File) ELSE loaded
      /\ UNCHANGED <<ram, mie, led, forced>>
  BY DEF LoadEnd, File
<1>2. ok \in BOOLEAN
  OBVIOUS
<1>3. /\ TypeInv /\ exe.size = 0 /\ Len(ld.hdr) = 4 /\ exe.base = ld.hdr[2]
  BY <1>1 DEF IInv, LoadInv, WordsInv, Loading
<1>4. exe \in [base : Word, size : Word \cup {-1}] /\ ld.hdr[3] \in Word /\ 0 \in Word
  <2>1. ld.hdr \in Seq(Word)
    BY <1>3 DEF TypeInv
  <2>2. QED BY <1>3, <2>1 DEF TypeInv, Word, W
<1>5. exe' \in [base : Word, size : Word] /\ exe'.base = exe.base
      /\ exe'.size = IF ok THEN ld.hdr[3] ELSE 0
  BY <1>1, <1>3, <1>4
<1>6. ExeInv'
  <2> SUFFICES ASSUME ok, ld.hdr[3] > 0 PROVE ExeInv'
    BY <1>5 DEF ExeInv
  <2>1. /\ n \in Nat /\ Len(File) \in Nat /\ n + 4 <= Len(File) /\ n = WordsOf(File)
        /\ File[2] = exe.base /\ File[3] = ld.hdr[3]
        /\ exe.base + n <= RamWords
        /\ \A k \in 1 .. n : ram[exe.base + k - 1] = File[4 + k]
        /\ Accepts(File)
    BY <1>1, Verdict
  <2>2. loaded' = [base |-> File[2], words |-> [i \in 1 .. n |-> File[4 + i]]]
    BY <1>1, <2>1 DEF ImageIn, WordsOf
  <2>3. (exe'.size + 3) \div 4 = n
    BY <1>5, <2>1 DEF WordsOf
  <2> HIDE DEF n
  <2>4. /\ loaded'.base = exe.base /\ DOMAIN loaded'.words = 1 .. n /\ Len(loaded'.words) = n
        /\ \A i \in 1 .. n : loaded'.words[i] = File[4 + i]
    BY <2>1, <2>2
  <2>5. QED BY <1>1, <1>5, <2>1, <2>3, <2>4 DEF ExeInv
<1>7. QED BY <1>1, <1>2, <1>5, <1>6, ChecksReturn

-----------------------------------------------------------------------------
(* The store.                                                              *)

\* Writing a flash leaves its size.
LEMMA FlashWritten ==
  ASSUME TypeInv, UNCHANGED Enabled, NEW dev \in Flash, NEW g \in Seq(Word),
         Len(g) = Len(medium[dev]), medium' = [medium EXCEPT ![dev] = g]
  PROVE  /\ medium' \in [twi : Seq(Word), spi : Seq(Word), sd : Seq(Word), uart : Seq(Word)]
         /\ \A d \in Enabled' \cap Flash : Len(medium'[d]) >= RamWords + 4
<1>1. /\ medium \in [twi : Seq(Word), spi : Seq(Word), sd : Seq(Word), uart : Seq(Word)]
      /\ \A d \in Enabled \cap Flash : Len(medium[d]) >= RamWords + 4
  BY DEF TypeInv
<1>2. CASE dev = "twi"
  BY <1>1, <1>2 DEF Flash
<1>3. CASE dev = "spi"
  BY <1>1, <1>3 DEF Flash
<1>4. QED BY <1>2, <1>3 DEF Flash

\* So does a reset in the middle of a word.
LEMMA WordWritten ==
  ASSUME TypeInv, NEW dev \in Flash, NEW v \in Word, ld.addr < Size(dev)
  PROVE  \E g \in Seq(Word) :
           /\ Len(g) = Len(medium[dev])
           /\ [medium EXCEPT ![dev][ld.addr + 1] = v] = [medium EXCEPT ![dev] = g]
<1>1. medium[dev] \in Seq(Word) /\ ld.addr \in Nat
  BY MediumForm DEF TypeInv, Flash, Media
<1> DEFINE g == [medium[dev] EXCEPT ![ld.addr + 1] = v]
<1>2. g \in Seq(Word) /\ Len(g) = Len(medium[dev])
  <2>1. ld.addr + 1 \in 1 .. Len(medium[dev])
    BY <1>1 DEF Size
  <2>2. QED BY <1>1, <2>1, ExceptSeq
<1>3. [medium EXCEPT ![dev][ld.addr + 1] = v] = [medium EXCEPT ![dev] = g]
  OBVIOUS
<1>4. QED BY <1>2, <1>3

LEMMA PutForm ==
  ASSUME TypeInv, UNCHANGED Enabled, ld.dev \in Flash, NEW wd \in Word, Put(wd)
  PROVE  /\ medium' \in [twi : Seq(Word), spi : Seq(Word), sd : Seq(Word), uart : Seq(Word)]
         /\ \A d \in Enabled' \cap Flash : Len(medium'[d]) >= RamWords + 4
         /\ ld' \in [dev : Media \cup {"none"}, next : Nat, hdr : Seq(Word), i : Nat, sum : Word,
                     rc : BOOLEAN, addr : Nat]
         /\ ld'.dev = ld.dev /\ ld'.hdr = ld.hdr
<1>1. PICK o \in stream_put(wd) :
        /\ medium' = IF ld.addr < Size(ld.dev)
                       THEN [medium EXCEPT ![ld.dev][ld.addr + 1] = o[1]] ELSE medium
        /\ ld' = [ld EXCEPT !.rc = @ \/ o[2], !.sum = (@ + wd) % W, !.i = @ + 4, !.addr = @ + 1]
  BY DEF Put
<1>2. /\ ld \in [dev : Media \cup {"none"}, next : Nat, hdr : Seq(Word), i : Nat, sum : Word,
                 rc : BOOLEAN, addr : Nat]
      /\ medium["spi"] \in Seq(Word) /\ medium["twi"] \in Seq(Word)
  BY MediumForm DEF TypeInv, Media
<1>3. Cell(medium.spi, ld.addr) \in Word /\ Cell(medium.twi, ld.addr) \in Word
  BY <1>2, CellRange
<1>4. o[1] \in Word /\ o[2] \in BOOLEAN
  <2>1. ASSUME NEW x, NEW b \in BOOLEAN, o = <<x, b>> PROVE o[1] = x /\ o[2] = b
    BY <2>1
  <2>2. CASE ld.dev = "spi"
    <3>1. o = <<Programmed(Cell(medium.spi, ld.addr), wd), FALSE>>
      BY <2>2 DEF stream_put, spi_flash_stream_put
    <3>2. Programmed(Cell(medium.spi, ld.addr), wd) \in Word
      BY <1>3, ProgrammedRange
    <3>3. QED BY <2>1, <3>1, <3>2
  <2>3. CASE ld.dev = "twi"
    <3> DEFINE m == Mixed(Cell(medium.twi, ld.addr), wd, {0, 1})
    <3>1. o = <<wd, FALSE>> \/ o = <<m, TRUE>>
      BY <2>3 DEF stream_put, twi_flash_stream_put
    <3>2. m \in Word
      BY <1>3, MixedRange
    <3> HIDE DEF m
    <3>3. CASE o = <<wd, FALSE>>
      BY <2>1, <3>3
    <3>4. CASE o = <<m, TRUE>>
      BY <2>1, <3>2, <3>4
    <3>5. QED BY <3>1, <3>3, <3>4
  <2>4. QED BY <2>2, <2>3 DEF Flash
<1>5. /\ medium' \in [twi : Seq(Word), spi : Seq(Word), sd : Seq(Word), uart : Seq(Word)]
      /\ \A d \in Enabled' \cap Flash : Len(medium'[d]) >= RamWords + 4
  <2>1. CASE ld.addr < Size(ld.dev)
    <3>1. PICK g \in Seq(Word) :
            /\ Len(g) = Len(medium[ld.dev])
            /\ [medium EXCEPT ![ld.dev][ld.addr + 1] = o[1]] = [medium EXCEPT ![ld.dev] = g]
      BY <1>4, <2>1, WordWritten
    <3>2. medium' = [medium EXCEPT ![ld.dev] = g]
      BY <1>1, <2>1, <3>1
    <3>3. QED BY <3>1, <3>2, FlashWritten
  <2>2. CASE ~ (ld.addr < Size(ld.dev))
    BY <1>1, <2>2 DEF TypeInv
  <2>3. QED BY <2>1, <2>2
<1>6. /\ ld' \in [dev : Media \cup {"none"}, next : Nat, hdr : Seq(Word), i : Nat, sum : Word,
                  rc : BOOLEAN, addr : Nat]
      /\ ld'.dev = ld.dev /\ ld'.hdr = ld.hdr
  <2> DEFINE failed == ld.rc \/ o[2]
             s == (ld.sum + wd) % W
  <2>1. s \in Word
    <3>1. ld.sum \in Int /\ wd \in Int
      BY <1>2, WordIsNat
    <3>2. QED BY <3>1, ModRange
  <2>2. failed \in BOOLEAN /\ ld.i + 4 \in Nat /\ ld.addr + 1 \in Nat
    BY <1>2
  <2>3. ld' = [ld EXCEPT !.rc = failed, !.sum = s, !.i = ld.i + 4, !.addr = ld.addr + 1]
    BY <1>1, <1>2
  <2> HIDE DEF failed, s
  <2>4. QED BY <1>2, <2>1, <2>2, <2>3
<1>7. QED BY <1>5, <1>6

\* What remains to be shown of a step within a store.
LEMMA ChecksStoring ==
  ASSUME IInv, UNCHANGED <<Enabled, exe, ram, mie, led, loaded, forced>>,
         pc' \in {"erase", "data", "head"}, exe.size > 0, ld'.dev \in Flash,
         pc' = "head" => Len(ld'.hdr) = 4,
         medium' \in [twi : Seq(Word), spi : Seq(Word), sd : Seq(Word), uart : Seq(Word)],
         \A d \in Enabled' \cap Flash : Len(medium'[d]) >= RamWords + 4,
         ld' \in [dev : Media \cup {"none"}, next : Nat, hdr : Seq(Word), i : Nat, sum : Word,
                  rc : BOOLEAN, addr : Nat]
  PROVE  IInv'
<1>1. TypeInv'
  BY DEF IInv, TypeInv, Label
<1>2. exe.size /= -1
  BY DEF IInv, TypeInv, Word, W
<1>3. DirectInv' /\ ExeInv' /\ StoreInv' /\ LoadInv' /\ HeaderInv' /\ WordsInv' /\ BootInv'
  BY <1>2 DEF IInv, DirectInv, ExeInv, StoreInv, LoadInv, HeaderInv, WordsInv, BootInv, Storing,
     Loading
<1>4. QED BY <1>1, <1>3 DEF IInv

LEMMA ChecksStore ==
  ASSUME IInv, UNCHANGED Enabled, NEW dev \in {"spi", "twi"}, Store(dev)
  PROVE  IInv'
<1>1. /\ pc = "console" /\ exe.size # 0 /\ pc' = "erase"
      /\ ld' = [dev |-> dev, next |-> 0, hdr |-> <<>>, i |-> 0, sum |-> 0, rc |-> FALSE, addr |-> 0]
      /\ UNCHANGED <<exe, ram, medium, mie, led, loaded, forced>>
  BY DEF Store, Idle
<1>2. exe.size > 0
  <2>1. exe.size \in Word \cup {-1} /\ exe.size /= -1
    BY <1>1 DEF IInv, TypeInv, DirectInv, Booting
  <2>2. QED BY <1>1, <2>1 DEF Word, W
<1>3. ld' \in [dev : Media \cup {"none"}, next : Nat, hdr : Seq(Word), i : Nat, sum : Word,
               rc : BOOLEAN, addr : Nat]
  <2>1. 0 \in Word /\ <<>> \in Seq(Word) /\ dev \in Media
    BY DEF Word, W, Media
  <2>2. QED BY <1>1, <2>1
<1>4. /\ medium' \in [twi : Seq(Word), spi : Seq(Word), sd : Seq(Word), uart : Seq(Word)]
      /\ \A d \in Enabled' \cap Flash : Len(medium'[d]) >= RamWords + 4
      /\ ld'.dev \in Flash
  BY <1>1 DEF IInv, TypeInv, Flash
<1>5. QED BY <1>1, <1>2, <1>3, <1>4, ChecksStoring

LEMMA ChecksErase == ASSUME IInv, UNCHANGED Enabled, dev_erase PROVE IInv'
<1>1. pc = "erase" /\ UNCHANGED <<exe, ram, mie, led, loaded, forced>>
  BY DEF dev_erase
<1>2. TypeInv /\ exe.size > 0 /\ ld.dev \in Flash
  BY <1>1 DEF IInv, StoreInv, Storing
<1>3. /\ ld \in [dev : Media \cup {"none"}, next : Nat, hdr : Seq(Word), i : Nat, sum : Word,
                 rc : BOOLEAN, addr : Nat]
      /\ medium \in [twi : Seq(Word), spi : Seq(Word), sd : Seq(Word), uart : Seq(Word)]
      /\ \A d \in Enabled \cap Flash : Len(medium[d]) >= RamWords + 4
  BY <1>2 DEF TypeInv
<1>4. CASE ld.dev = "spi" /\ ld.i < num_sectors
  <2> DEFINE g == [a \in DOMAIN medium.spi |->
                     IF (a - 1) \div SectorWords = ld.i THEN Erased ELSE medium.spi[a]]
  <2>1. /\ ld' = [ld EXCEPT !.i = @ + 1] /\ pc' = "erase"
        /\ medium' = [medium EXCEPT !.spi = g]
    BY <1>1, <1>4 DEF dev_erase
  <2>2. g \in Seq(Word) /\ Len(g) = Len(medium["spi"])
    <3>1. medium.spi \in Seq(Word) /\ Erased \in Word
      BY <1>3 DEF Erased, Word, W
    <3>2. DOMAIN medium.spi = 1 .. Len(medium.spi) /\ Len(medium.spi) \in Nat
      BY <3>1
    <3>3. \A a \in 1 .. Len(medium.spi) : g[a] \in Word
      BY <3>1, <3>2
    <3>4. DOMAIN g = 1 .. Len(medium.spi) /\ Len(g) = Len(medium.spi)
      BY <3>2
    <3>5. g \in [1 .. Len(medium.spi) -> Word]
      BY <3>2, <3>3
    <3> HIDE DEF g
    <3>6. g \in Seq(Word)
      BY <3>2, <3>5, SeqDef
    <3>7. QED BY <3>4, <3>6
  <2> HIDE DEF g
  <2>3. /\ medium' \in [twi : Seq(Word), spi : Seq(Word), sd : Seq(Word), uart : Seq(Word)]
        /\ \A d \in Enabled' \cap Flash : Len(medium'[d]) >= RamWords + 4
    <3>1. "spi" \in Flash /\ medium' = [medium EXCEPT !["spi"] = g]
      BY <2>1 DEF Flash
    <3>2. QED BY <1>2, <2>2, <3>1, FlashWritten
  <2>4. /\ ld' \in [dev : Media \cup {"none"}, next : Nat, hdr : Seq(Word), i : Nat, sum : Word,
                    rc : BOOLEAN, addr : Nat]
        /\ ld'.dev = ld.dev
    <3>1. ld.i + 1 \in Nat /\ ld' = [ld EXCEPT !.i = ld.i + 1]
      BY <1>3, <2>1
    <3>2. QED BY <1>3, <3>1
  <2>5. QED BY <1>1, <1>2, <2>1, <2>3, <2>4, ChecksStoring
<1>5. CASE ~ (ld.dev = "spi" /\ ld.i < num_sectors)
  <2>1. pc' = "data" /\ ld' = [ld EXCEPT !.i = 0, !.addr = 4] /\ UNCHANGED medium
    BY <1>5 DEF dev_erase
  <2>2. /\ ld' \in [dev : Media \cup {"none"}, next : Nat, hdr : Seq(Word), i : Nat, sum : Word,
                    rc : BOOLEAN, addr : Nat]
        /\ ld'.dev = ld.dev
    BY <1>3, <2>1
  <2>3. /\ medium' \in [twi : Seq(Word), spi : Seq(Word), sd : Seq(Word), uart : Seq(Word)]
        /\ \A d \in Enabled' \cap Flash : Len(medium'[d]) >= RamWords + 4
    BY <1>3, <2>1
  <2>4. QED BY <1>1, <1>2, <2>1, <2>2, <2>3, ChecksStoring
<1>6. QED BY <1>4, <1>5

\* The word that is stored next is one of the RAM.
LEMMA StoredWord ==
  ASSUME IInv, pc = "data", ld.i < exe.size
  PROVE  ram[exe.base + ld.i \div 4] \in Word
<1>1. /\ exe.size > 0 /\ exe.base + (exe.size + 3) \div 4 <= RamWords
  BY DEF IInv, StoreInv, ExeInv, Storing
<1>2. /\ ram \in [0 .. RamWords - 1 -> Word] /\ ld.i \in Nat
      /\ exe.base \in Word /\ exe.size \in Word \cup {-1}
  BY DEF IInv, TypeInv
<1>3. exe.base \in Nat /\ exe.size \in Nat /\ RamWords \in Nat
  BY <1>1, <1>2, BootAssumption DEF Word, W
<1>4. \A b, s, i, r \in Nat : b + ((s + 3) \div 4) <= r /\ i < s => b + (i \div 4) \in 0 .. r - 1
  OBVIOUS
<1>5. exe.base + (ld.i \div 4) \in 0 .. RamWords - 1
  BY <1>1, <1>2, <1>3, <1>4
<1>6. QED BY <1>2, <1>5

LEMMA ChecksStoreSteps ==
  ASSUME IInv, UNCHANGED Enabled, StoreWord \/ StoreData \/ StoreHeader
  PROVE  IInv'
<1>1. /\ pc \in {"data", "head"} /\ UNCHANGED <<exe, ram, mie, led, loaded, forced>>
      /\ pc' \in {"data", "head"}
  BY DEF StoreWord, StoreData, StoreHeader
<1>2. TypeInv /\ exe.size > 0 /\ ld.dev \in Flash /\ (pc = "head" => Len(ld.hdr) = 4)
  BY <1>1 DEF IInv, StoreInv, Storing
<1>3. CASE StoreWord
  <2>1. pc' = "data" /\ Put(ram[exe.base + ld.i \div 4])
    BY <1>3 DEF StoreWord
  <2>2. ram[exe.base + ld.i \div 4] \in Word
    BY <1>3, StoredWord DEF StoreWord
  <2>3. /\ medium' \in [twi : Seq(Word), spi : Seq(Word), sd : Seq(Word), uart : Seq(Word)]
        /\ \A d \in Enabled' \cap Flash : Len(medium'[d]) >= RamWords + 4
        /\ ld' \in [dev : Media \cup {"none"}, next : Nat, hdr : Seq(Word), i : Nat, sum : Word,
                    rc : BOOLEAN, addr : Nat]
        /\ ld'.dev = ld.dev /\ ld'.hdr = ld.hdr
    BY <1>2, <2>1, <2>2, PutForm
  <2>4. QED BY <1>1, <1>2, <2>1, <2>3, ChecksStoring
<1>4. CASE StoreHeader
  <2>1. pc = "head" /\ pc' = "head" /\ ld.addr < 4 /\ Put(ld.hdr[ld.addr + 1])
    BY <1>4 DEF StoreHeader
  <2>2. ld.hdr[ld.addr + 1] \in Word
    BY <1>2, <2>1 DEF TypeInv
  <2>3. /\ medium' \in [twi : Seq(Word), spi : Seq(Word), sd : Seq(Word), uart : Seq(Word)]
        /\ \A d \in Enabled' \cap Flash : Len(medium'[d]) >= RamWords + 4
        /\ ld' \in [dev : Media \cup {"none"}, next : Nat, hdr : Seq(Word), i : Nat, sum : Word,
                    rc : BOOLEAN, addr : Nat]
        /\ ld'.dev = ld.dev /\ ld'.hdr = ld.hdr
    BY <1>2, <2>1, <2>2, PutForm
  <2>4. QED BY <1>1, <1>2, <2>1, <2>3, ChecksStoring
<1>5. CASE StoreData
  <2> DEFINE h == <<Signature, exe.base, exe.size, NotW(ld.sum)>>
  <2>1. pc' = "head" /\ ld' = [ld EXCEPT !.addr = 0, !.hdr = h] /\ UNCHANGED medium
    BY <1>5 DEF StoreData
  <2>2. h \in Seq(Word) /\ Len(h) = 4
    <3>1. /\ exe.base \in Word /\ exe.size \in Word \cup {-1} /\ ld.sum \in Word
      BY <1>2 DEF TypeInv
    <3>2. exe.size \in Word /\ NotW(ld.sum) \in Word /\ Signature \in Word
      BY <1>2, <3>1 DEF Word, W, NotW, Signature
    <3>3. QED BY <3>1, <3>2
  <2> HIDE DEF h
  <2>3. /\ ld' \in [dev : Media \cup {"none"}, next : Nat, hdr : Seq(Word), i : Nat, sum : Word,
                    rc : BOOLEAN, addr : Nat]
        /\ ld'.dev = ld.dev /\ ld'.hdr = h
    BY <1>2, <2>1, <2>2 DEF TypeInv
  <2>4. /\ medium' \in [twi : Seq(Word), spi : Seq(Word), sd : Seq(Word), uart : Seq(Word)]
        /\ \A d \in Enabled' \cap Flash : Len(medium'[d]) >= RamWords + 4
    BY <1>2, <2>1 DEF TypeInv
  <2>5. QED BY <1>1, <1>2, <2>1, <2>2, <2>3, <2>4, ChecksStoring
<1>6. QED BY <1>3, <1>4, <1>5

LEMMA ChecksStoreReturns == ASSUME IInv, UNCHANGED Enabled, StoreReturns PROVE IInv'
<1>1. /\ pc = "stored" /\ pc' = "console" /\ ld' = Idle
      /\ UNCHANGED <<exe, ram, medium, mie, led, loaded, forced>>
  BY DEF StoreReturns
<1>2. ld' \in [dev : Media \cup {"none"}, next : Nat, hdr : Seq(Word), i : Nat, sum : Word,
               rc : BOOLEAN, addr : Nat]
  <2>1. 0 \in Word /\ <<>> \in Seq(Word)
    BY DEF Word, W
  <2>2. QED BY <1>1, <2>1 DEF Idle
<1>3. TypeInv'
  BY <1>1, <1>2 DEF IInv, TypeInv, Label
<1>4. DirectInv' /\ ExeInv' /\ StoreInv' /\ LoadInv' /\ HeaderInv' /\ WordsInv' /\ BootInv'
  BY <1>1 DEF IInv, DirectInv, ExeInv, StoreInv, LoadInv, HeaderInv, WordsInv, BootInv, Storing,
     Loading, Booting
<1>5. QED BY <1>3, <1>4 DEF IInv

\* The reset button, in the middle of writing a word too.
LEMMA ChecksRestart == ASSUME IInv, UNCHANGED Enabled, Restart PROVE IInv'
<1>1. /\ pc' = "setup" /\ exe' = NoExe /\ ld' = Idle /\ mie' = FALSE /\ led' = FALSE
      /\ forced' = FALSE /\ loaded' = NoImage /\ UNCHANGED ram
  BY DEF Restart
<1>2. TypeInv /\ 0 \in Word /\ <<>> \in Seq(Word)
  BY DEF IInv, Word, W
<1>3. /\ medium' \in [twi : Seq(Word), spi : Seq(Word), sd : Seq(Word), uart : Seq(Word)]
      /\ \A d \in Enabled' \cap Flash : Len(medium'[d]) >= RamWords + 4
  <2>1. CASE medium' = [medium EXCEPT !.uart = <<>>]
    <3>1. medium \in [twi : Seq(Word), spi : Seq(Word), sd : Seq(Word), uart : Seq(Word)]
      BY <1>2 DEF TypeInv
    <3>2. \A d \in Flash : medium'[d] = medium[d]
      BY <2>1, <3>1 DEF Flash
    <3>3. QED BY <1>2, <2>1, <3>1, <3>2 DEF TypeInv
  <2>2. CASE medium' # [medium EXCEPT !.uart = <<>>]
    <3> DEFINE wd == IF pc = "data" THEN ram[exe.base + ld.i \div 4] ELSE ld.hdr[ld.addr + 1]
               old == medium[ld.dev][ld.addr + 1]
               v(k) == IF ld.dev = "spi" THEN Mixed(old, Programmed(old, wd), 0 .. k)
                       ELSE Mixed(old, wd, 0 .. k)
    <3>1. /\ (pc = "data" /\ ld.i < exe.size) \/ (pc = "head" /\ ld.addr < 4)
          /\ ld.addr < Size(ld.dev)
          /\ \E k \in 0 .. 2 :
               medium' = [medium EXCEPT ![ld.dev][ld.addr + 1] =
                 IF ld.dev = "spi" THEN Mixed(@, Programmed(@, wd), 0 .. k)
                 ELSE Mixed(@, wd, 0 .. k)]
      BY <2>2 DEF Restart
    <3>2. PICK k \in 0 .. 2 :
            medium' = [medium EXCEPT ![ld.dev][ld.addr + 1] =
              IF ld.dev = "spi" THEN Mixed(@, Programmed(@, wd), 0 .. k)
              ELSE Mixed(@, wd, 0 .. k)]
      BY <3>1
    <3>3. ld.dev \in Flash /\ (pc = "head" => Len(ld.hdr) = 4)
      BY <3>1 DEF IInv, StoreInv, Storing
    <3>4. wd \in Word
      <4>1. CASE pc = "data"
        BY <3>1, <4>1, StoredWord
      <4>2. CASE pc = "head"
        <5>1. ld.hdr \in Seq(Word) /\ ld.addr \in Nat
          BY <1>2 DEF TypeInv
        <5> HIDE DEF wd
        <5>2. ld.addr < 4 /\ Len(ld.hdr) = 4
          BY <3>1, <3>3, <4>2
        <5>3. ld.addr + 1 \in 1 .. Len(ld.hdr)
          BY <5>1, <5>2
        <5>4. ld.hdr[ld.addr + 1] \in Word
          BY <5>1, <5>3
        <5>5. wd = ld.hdr[ld.addr + 1]
          BY <4>2 DEF wd
        <5>6. QED BY <5>4, <5>5
      <4>3. QED BY <3>1, <4>1, <4>2
    <3>5. old \in Word
      <4>1. medium[ld.dev] \in Seq(Word) /\ ld.addr \in Nat
        BY <1>2, <3>3, MediumForm DEF TypeInv, Flash, Media
      <4>2. ld.addr + 1 \in 1 .. Len(medium[ld.dev])
        BY <3>1, <4>1 DEF Size
      <4>3. QED BY <4>1, <4>2
    <3>6. medium' = [medium EXCEPT ![ld.dev][ld.addr + 1] = v(k)]
      <4>1. medium \in [twi : Seq(Word), spi : Seq(Word), sd : Seq(Word), uart : Seq(Word)]
        BY <1>2 DEF TypeInv
      <4>2. ld.dev \in DOMAIN medium /\ ld.addr + 1 \in DOMAIN medium[ld.dev]
        <5>1. medium[ld.dev] \in Seq(Word) /\ ld.addr \in Nat
          BY <1>2, <3>3, MediumForm DEF TypeInv, Flash, Media
        <5>2. ld.addr + 1 \in 1 .. Len(medium[ld.dev])
          BY <3>1, <5>1 DEF Size
        <5>3. QED BY <3>3, <4>1, <5>1, <5>2 DEF Flash
      <4> HIDE DEF wd
      <4>3. QED BY <3>2, <4>2
    <3> HIDE DEF wd, old
    <3>7. v(k) \in Word
      <4>1. Programmed(old, wd) \in Word
        BY <3>4, <3>5, ProgrammedRange
      <4>2. Mixed(old, Programmed(old, wd), 0 .. k) \in Word /\ Mixed(old, wd, 0 .. k) \in Word
        BY <3>4, <3>5, <4>1, MixedRange
      <4>3. QED BY <4>2
    <3> HIDE DEF v
    <3>8. PICK g \in Seq(Word) :
            /\ Len(g) = Len(medium[ld.dev])
            /\ [medium EXCEPT ![ld.dev][ld.addr + 1] = v(k)] = [medium EXCEPT ![ld.dev] = g]
      BY <1>2, <3>1, <3>3, <3>7, WordWritten
    <3>9. medium' = [medium EXCEPT ![ld.dev] = g]
      BY <3>6, <3>8
    <3>10. QED BY <1>2, <3>3, <3>8, <3>9, FlashWritten
  <2>3. QED BY <2>1, <2>2
<1>4. TypeInv'
  <2>1. exe' \in [base : Word, size : Word \cup {-1}]
    BY <1>1, <1>2 DEF NoExe
  <2>2. ld' \in [dev : Media \cup {"none"}, next : Nat, hdr : Seq(Word), i : Nat, sum : Word,
                 rc : BOOLEAN, addr : Nat]
    BY <1>1, <1>2 DEF Idle
  <2>3. QED BY <1>1, <1>2, <1>3, <2>1, <2>2 DEF TypeInv, Label
<1>5. DirectInv' /\ ExeInv' /\ StoreInv' /\ LoadInv' /\ HeaderInv' /\ WordsInv' /\ BootInv'
  BY <1>1 DEF DirectInv, ExeInv, StoreInv, LoadInv, HeaderInv, WordsInv, BootInv, NoExe, Storing,
     Loading
<1>6. QED BY <1>4, <1>5 DEF IInv

-----------------------------------------------------------------------------
LEMMA ChecksNext == ASSUME IInv, [Next]_vars PROVE IInv'
<1>1. CASE Next
  <2>1. UNCHANGED Enabled /\ Step
    BY <1>1 DEF Next
  <2>2. CASE system_setup \/ AutoBoot \/ StoreEnd \/ AppBoot \/ LedOff \/ StartApp \/ Heartbeat
    BY <2>1, <2>2, ChecksControl
  <2>3. CASE AutoBootNext
    BY <2>1, <2>3, ChecksAutoBoot
  <2>4. CASE dev_init
    BY <2>1, <2>4, ChecksDevInit
  <2>5. CASE LoadHeader
    BY <2>1, <2>5, ChecksHeader
  <2>6. CASE LoadWord
    BY <2>1, <2>6, ChecksWord
  <2>7. CASE LoadEnd
    BY <2>1, <2>7, ChecksEnd
  <2>8. ASSUME NEW dev \in {"spi", "twi"}, Store(dev) PROVE IInv'
    BY <2>1, <2>8, ChecksStore
  <2>9. CASE dev_erase
    BY <2>1, <2>9, ChecksErase
  <2>10. CASE StoreWord \/ StoreData \/ StoreHeader
    BY <2>1, <2>10, ChecksStoreSteps
  <2>11. CASE StoreReturns
    BY <2>1, <2>11, ChecksStoreReturns
  <2>12. CASE Upload
    BY <2>1, <2>12, ChecksUpload
  <2>13. CASE Command
    BY <2>1, <2>13, ChecksCommand
  <2>14. CASE Restart
    BY <2>1, <2>14, ChecksRestart
  <2>15. ASSUME NEW dev \in {"spi", "twi", "sd"}, LoadFrom(dev) PROVE IInv'
    BY <2>1, <2>15, ChecksLoadFrom
  <2>16. QED BY <2>1, <2>2, <2>3, <2>4, <2>5, <2>6, <2>7, <2>8, <2>9, <2>10, <2>11, <2>12, <2>13,
               <2>14, <2>15 DEF Step
<1>2. CASE UNCHANGED vars
  BY <1>2 DEF vars, IInv, TypeInv, DirectInv, ExeInv, StoreInv, LoadInv, HeaderInv, WordsInv,
     BootInv, Storing, Loading, Booting, File
<1>3. QED BY <1>1, <1>2

\* The inductive invariant: while a load runs, nothing is announced, the header
\* and the words so far are those of the medium and their sum is ld.sum.
LEMMA BootloaderInvariant == Spec => []IInv
BY ChecksInit, ChecksNext, PTL DEF Spec

\* What system_app_boot starts is what system_app_load accepted: while an
\* executable is announced as available the RAM holds exactly the image
\* accepted last, whatever was uploaded, stored, refused or reset in between,
\* and an application takes over with interrupts and LED off.
THEOREM BootloaderHandsOver == Spec => []HandOver
<1>1. IInv => HandOver
  <2> SUFFICES ASSUME IInv PROVE HandOver
    OBVIOUS
  <2>1. exe.size > 0 => /\ exe.base = loaded.base
                        /\ Len(loaded.words) = (exe.size + 3) \div 4
                        /\ \A i \in DOMAIN loaded.words :
                             ram[exe.base + i - 1] = loaded.words[i]
    BY DEF IInv, ExeInv
  <2>2. pc = "app" => ~mie /\ ~led /\ (exe.size = 0 => forced)
    BY DEF IInv, BootInv
  <2>3. QED BY <2>1, <2>2 DEF HandOver
<1>2. QED BY <1>1, BootloaderInvariant, PTL

\* system_app_load refuses only what is no image: of a medium that reports no
\* errors, a file whose header, size and checksum are right is never turned down.
THEOREM BootloaderRefusesOnlyBad == Spec => RefusesOnlyBad
<1> DEFINE Refuses == /\ pc \in {"header", "words"} /\ ld.dev \in {"spi", "uart"}
                      /\ pc' \in {"auto", "console", "halt"} /\ exe'.size = 0
           Good == Accepts(medium[ld.dev]) /\ medium[ld.dev][3] > 0
<1>1. ASSUME IInv, Next, Refuses PROVE ~Good
  <2>1. /\ TypeInv /\ ld.dev \in Enabled \cap Media /\ ~ld.rc /\ exe.size = 0
    BY <1>1 DEF IInv, LoadInv, Loading
  <2>2. File \in Seq(Word) /\ Len(File) \in Nat
    BY <2>1, MediumForm DEF File
  <2>3. LoadHeader \/ LoadWord \/ LoadEnd
    BY <1>1 DEF Next, Step, system_setup, AutoBoot, AutoBootNext, dev_init, Store, dev_erase,
       StoreWord, StoreData, StoreHeader, StoreEnd, StoreReturns, AppBoot, LedOff, StartApp,
       Heartbeat, Upload, Command, Restart, LoadFrom
  <2>4. CASE LoadHeader
    <3> DEFINE hdr(o) == Append(ld.hdr, o[1])
    <3>1. PICK o \in stream_get : ~ (Len(hdr(o)) < 4) /\ hdr(o)[1] # Signature
      <4>1. PICK o \in stream_get :
              IF Len(hdr(o)) < 4 THEN UNCHANGED pc
              ELSE hdr(o)[1] = Signature => pc' = "words"
        BY <2>4 DEF LoadHeader
      <4>2. pc' # pc /\ pc' # "words"
        BY <1>1, <2>4 DEF LoadHeader
      <4> HIDE DEF hdr
      <4>3. QED BY <4>1, <4>2
    <3>2. o[1] \in Word /\ ~o[2] /\ o[1] = Cell(File, ld.addr)
      BY <1>1, <2>1, Delivers
    <3>3. /\ ld.hdr \in Seq(Word) /\ Len(ld.hdr) < 4
          /\ \A k \in 1 .. Len(ld.hdr) : ld.hdr[k] = Cell(File, k - 1)
      BY <1>1, <2>1, <2>4 DEF IInv, TypeInv, LoadInv, HeaderInv, Loading, LoadHeader
    <3>4. hdr(o)[1] = ld.hdr[1] /\ 1 \in 1 .. Len(ld.hdr)
      BY <3>1, <3>2, <3>3, AppendProperties
    <3>5. Cell(File, 0) # Signature
      BY <3>1, <3>3, <3>4
    <3>6. ~Accepts(File)
      BY <2>2, <3>5 DEF Accepts, Cell
    <3>7. QED BY <3>6 DEF File
  <2>5. CASE LoadWord
    <3> DEFINE n == ld.i \div 4
    <3>1. pc = "words" /\ ld.i < ld.hdr[3]
      BY <2>5 DEF LoadWord
    <3>2. /\ Len(ld.hdr) = 4 /\ exe.base = ld.hdr[2]
          /\ \A k \in 1 .. 4 : ld.hdr[k] = Cell(File, k - 1)
      BY <1>1, <2>1, <3>1 DEF IInv, HeaderInv, WordsInv
    <3>3. ~ (exe.base + n < RamWords)
      <4>1. exe.base + n < RamWords => UNCHANGED pc
        BY <2>5 DEF LoadWord
      <4>2. pc' # pc
        BY <1>1, <2>5 DEF LoadWord
      <4>3. QED BY <4>1, <4>2
    <3>4. QED
      <4>1. SUFFICES ASSUME Accepts(File) PROVE FALSE
        BY DEF File
      <4>2. /\ Len(File) >= 4 /\ File[2] + ((File[3] + 3) \div 4) <= RamWords
        BY <4>1 DEF Accepts
      <4>3. File[2] = exe.base /\ File[3] = ld.hdr[3]
        BY <2>2, <3>2, <4>2 DEF Cell
      <4>4. exe.base \in Nat /\ ld.hdr[3] \in Nat /\ ld.i \in Nat /\ RamWords \in Nat
        BY <2>1, <3>2, Locals
      <4>5. \A b, s, i, r \in Nat :
              i < s /\ ~ (b + (i \div 4) < r) => ~ (b + ((s + 3) \div 4) <= r)
        OBVIOUS
      <4>6. QED BY <3>1, <3>3, <4>2, <4>3, <4>4, <4>5
  <2>6. CASE LoadEnd
    <3> DEFINE ok == ~ld.rc /\ (ld.sum + 1) % W = 0
    <3>1. /\ pc = "words" /\ ld.i >= ld.hdr[3]
          /\ exe' = IF ok THEN [exe EXCEPT !.size = ld.hdr[3]] ELSE exe
      BY <2>1, <2>6 DEF LoadEnd
    <3>2. File[3] = ld.hdr[3] /\ (Accepts(File) => (ld.sum + 1) % W = 0)
      BY <1>1, <2>1, <3>1, Verdict
    <3>3. ok => ld.hdr[3] = 0
      BY <1>1, <2>1, <3>1 DEF TypeInv
    <3>4. Accepts(File) => ~ (File[3] > 0)
      BY <2>1, <3>2, <3>3
    <3>5. QED BY <3>4 DEF File
  <2>7. QED BY <2>3, <2>4, <2>5, <2>6
<1>2. ASSUME IInv, [Next]_vars PROVE [Refuses => ~Good]_vars
  BY <1>1, <1>2 DEF vars
<1>3. QED BY <1>2, BootloaderInvariant, PTL DEF Spec, RefusesOnlyBad

-----------------------------------------------------------------------------
(* Whether what was stored can be loaded, if HeaderFits.                   *)

\* The words of the executable, and the first n of them.
Count == (exe.size + 3) \div 4
Data(n) == [k \in 1 .. n |-> ram[exe.base + k - 1]]

\* A word of the flash that can be programmed.
Blank(a) == ld.dev = "spi" => Cell(File, a) = Erased

EraseInv ==
  pc = "erase" =>
    /\ ld.sum = 0
    /\ \A a \in 0 .. Count + 3 : a \div SectorWords < ld.i => Blank(a)

DataInv ==
  pc = "data" =>
    /\ ld.i % 4 = 0 /\ ld.i < exe.size + 4 /\ ld.addr = 4 + ld.i \div 4
    /\ ld.sum = Sum(Data(ld.i \div 4))
    /\ \A k \in 1 .. ld.i \div 4 : Cell(File, 3 + k) = ram[exe.base + k - 1]
    /\ \A a \in 0 .. Count + 3 : a < 4 \/ a >= ld.addr => Blank(a)

HeadInv ==
  pc \in {"head", "stored"} =>
    /\ ld.hdr = <<Signature, exe.base, exe.size, NotW(Sum(Data(Count)))>>
    /\ ld.addr <= 4 /\ (pc = "stored" => ld.addr = 4)
    /\ \A k \in 1 .. Count : Cell(File, 3 + k) = ram[exe.base + k - 1]
    /\ \A a \in 0 .. 3 : IF a < ld.addr THEN Cell(File, a) = ld.hdr[a + 1] ELSE Blank(a)

StoredInv ==
  /\ loaded \in [base : Word, words : Seq(Word)]
  /\ Storing => ld.dev \in Enabled
  /\ pc \in {"erase", "stored"} => ~ld.rc
  /\ Storing /\ ~ld.rc => EraseInv /\ DataInv /\ HeadInv

LEMMA ErasedIsBlank == \A wd \in Word : Programmed(Erased, wd) = wd
<1>1. \A wd \in 0 .. 15 : Programmed(15, wd) = wd
  BY DEF Programmed, Mixed, ByteOf
<1>2. QED BY <1>1 DEF Erased, Word, W

\* What is known of the executable during a store, and of the flash.
LEMMA Stores ==
  ASSUME IInv, Storing
  PROVE  /\ exe.base \in Nat /\ exe.size \in Nat /\ exe.size > 0 /\ exe.size \in Word
         /\ exe.base \in Word
         /\ Count \in Nat /\ RamWords \in Nat /\ exe.base + Count <= RamWords
         /\ ram \in [0 .. RamWords - 1 -> Word]
         /\ \A k \in 1 .. Count : ram[exe.base + k - 1] \in Word
         /\ ld \in [dev : Media \cup {"none"}, next : Nat, hdr : Seq(Word), i : Nat, sum : Word,
                    rc : BOOLEAN, addr : Nat]
         /\ ld.dev \in Flash /\ File \in Seq(Word) /\ Len(File) \in Nat
         /\ ld.dev \in Enabled => Count + 4 <= Len(File)
<1>1. /\ TypeInv /\ exe.size > 0 /\ ld.dev \in Flash
      /\ exe.base + Count <= RamWords
  BY DEF IInv, StoreInv, ExeInv, Count
<1>2. /\ exe.base \in Word /\ exe.size \in Word \cup {-1} /\ ram \in [0 .. RamWords - 1 -> Word]
      /\ ld \in [dev : Media \cup {"none"}, next : Nat, hdr : Seq(Word), i : Nat, sum : Word,
                 rc : BOOLEAN, addr : Nat]
      /\ ld.dev \in Enabled => Len(File) >= RamWords + 4
  BY <1>1 DEF TypeInv, File
<1>3. exe.size \in Word
  BY <1>1, <1>2
<1>4. exe.base \in Nat /\ exe.size \in Nat /\ RamWords \in Nat
  BY <1>2, <1>3, WordIsNat, BootAssumption
<1>5. Count \in Nat
  BY <1>4 DEF Count
<1>6. File \in Seq(Word) /\ Len(File) \in Nat
  BY <1>1, MediumForm DEF File, Flash, Media
<1>7. ASSUME NEW k \in 1 .. Count PROVE ram[exe.base + k - 1] \in Word
  <2>1. exe.base + k - 1 \in 0 .. RamWords - 1
    BY <1>1, <1>4, <1>5
  <2>2. QED BY <1>2, <2>1
<1>8. ld.dev \in Enabled => Count + 4 <= Len(File)
  BY <1>1, <1>2, <1>4, <1>5, <1>6
<1>9. QED BY <1>1, <1>2, <1>3, <1>4, <1>5, <1>6, <1>7, <1>8

\* Writing without an error puts the word where it belongs, if the place was
\* blank, and leaves the others.
LEMMA PutWrites ==
  ASSUME IInv, Storing, ld.dev \in Enabled, NEW wd \in Word, Put(wd), ~ld'.rc,
         ld.addr < Count + 4, Blank(ld.addr)
  PROVE  /\ ~ld.rc
         /\ ld' = [ld EXCEPT !.sum = (ld.sum + wd) % W, !.i = ld.i + 4, !.addr = ld.addr + 1]
         /\ Cell(File', ld.addr) = wd
         /\ \A a \in Nat : a /= ld.addr => Cell(File', a) = Cell(File, a)
<1>1. PICK o \in stream_put(wd) :
        /\ medium' = IF ld.addr < Size(ld.dev)
                       THEN [medium EXCEPT ![ld.dev][ld.addr + 1] = o[1]] ELSE medium
        /\ ld' = [ld EXCEPT !.rc = @ \/ o[2], !.sum = (@ + wd) % W, !.i = @ + 4, !.addr = @ + 1]
  BY DEF Put
<1>2. /\ ld \in [dev : Media \cup {"none"}, next : Nat, hdr : Seq(Word), i : Nat, sum : Word,
                 rc : BOOLEAN, addr : Nat]
      /\ ld.dev \in Flash /\ File \in Seq(Word) /\ Len(File) \in Nat
      /\ ld.addr < Len(File) /\ Count \in Nat
  BY Stores
<1>3. ASSUME NEW x, NEW b \in BOOLEAN, o = <<x, b>> PROVE o[1] = x /\ o[2] = b
  BY <1>3
<1>4. o[2] \in BOOLEAN /\ (~o[2] => o[1] = wd)
  <2>1. CASE ld.dev = "spi"
    <3>1. o = <<Programmed(Cell(File, ld.addr), wd), FALSE>>
      BY <2>1 DEF stream_put, spi_flash_stream_put, File
    <3>2. Programmed(Cell(File, ld.addr), wd) = wd
      BY <2>1, ErasedIsBlank DEF Blank
    <3>3. QED BY <1>3, <3>1, <3>2
  <2>2. CASE ld.dev = "twi"
    <3> DEFINE m == Mixed(Cell(medium.twi, ld.addr), wd, {0, 1})
    <3>1. o = <<wd, FALSE>> \/ o = <<m, TRUE>>
      BY <2>2 DEF stream_put, twi_flash_stream_put
    <3> HIDE DEF m
    <3>2. CASE o = <<wd, FALSE>>
      BY <1>3, <3>2
    <3>3. CASE o = <<m, TRUE>>
      BY <1>3, <3>3
    <3>4. QED BY <3>1, <3>2, <3>3
  <2>3. QED BY <1>2, <2>1, <2>2 DEF Flash
<1>5. ld'.rc = (ld.rc \/ o[2]) /\ ld'.dev = ld.dev
  BY <1>1, <1>2
<1>6. ~ld.rc /\ ~o[2] /\ o[1] = wd
  BY <1>2, <1>4, <1>5
<1>7. ld' = [ld EXCEPT !.sum = (ld.sum + wd) % W, !.i = ld.i + 4, !.addr = ld.addr + 1]
  <2>1. (ld.rc \/ o[2]) = ld.rc
    BY <1>2, <1>6
  <2>2. [ld EXCEPT !.rc = (ld.rc \/ o[2]), !.sum = (ld.sum + wd) % W, !.i = ld.i + 4, !.addr = ld.addr + 1]
        = [ld EXCEPT !.sum = (ld.sum + wd) % W, !.i = ld.i + 4, !.addr = ld.addr + 1]
    BY <1>2, <2>1
  <2>3. QED BY <1>1, <2>2
<1>8. File' = [File EXCEPT ![ld.addr + 1] = wd]
  <2>1. medium' = [medium EXCEPT ![ld.dev][ld.addr + 1] = wd]
    BY <1>1, <1>2, <1>6 DEF Size, File
  <2>2. ld.dev \in DOMAIN medium
    BY <1>2 DEF IInv, TypeInv, Flash
  <2>3. QED BY <1>5, <2>1, <2>2 DEF File
<1>9. /\ Len(File') = Len(File) /\ File'[ld.addr + 1] = wd
      /\ \A k \in 1 .. Len(File) : k /= ld.addr + 1 => File'[k] = File[k]
  <2>1. DOMAIN File = 1 .. Len(File) /\ ld.addr + 1 \in 1 .. Len(File)
    BY <1>2
  <2>2. DOMAIN File' = 1 .. Len(File)
    BY <1>8, <2>1
  <2>3. File' \in Seq(Word) /\ Len(File') = Len(File)
    BY <1>2, <1>8, <2>1, ExceptSeq
  <2>4. QED BY <1>8, <2>1, <2>3
<1>10. Cell(File', ld.addr) = wd
  BY <1>2, <1>9 DEF Cell
<1>11. ASSUME NEW a \in Nat, a /= ld.addr PROVE Cell(File', a) = Cell(File, a)
  BY <1>2, <1>9, <1>11 DEF Cell
<1>12. QED BY <1>6, <1>7, <1>10, <1>11

\* The checksum of one more word of the executable.
LEMMA DataStep ==
  ASSUME IInv, Storing, NEW n \in Nat, n < Count
  PROVE  /\ Sum(Data(n)) \in Word
         /\ Sum(Data(n + 1)) = (Sum(Data(n)) + ram[exe.base + n]) % W
<1>1. Count \in Nat /\ exe.base \in Nat /\ \A k \in 1 .. Count : ram[exe.base + k - 1] \in Word
  BY Stores
<1>2. \A m \in 0 .. Count : /\ Len(Data(m)) = m
                            /\ \A k \in 1 .. m : Data(m)[k] = ram[exe.base + k - 1]
                            /\ \A k \in 1 .. m : Data(m)[k] \in Word
  <2>1. ASSUME NEW m \in 0 .. Count
        PROVE  Len(Data(m)) = m /\ \A k \in 1 .. m : Data(m)[k] = ram[exe.base + k - 1]
    <3>1. m \in Nat /\ Data(m) = [k \in 1 .. m |-> ram[exe.base + k - 1]]
      BY <1>1 DEF Data
    <3>2. Len([k \in 1 .. m |-> ram[exe.base + k - 1]]) = m
      BY <3>1
    <3>3. \A k \in 1 .. m : [j \in 1 .. m |-> ram[exe.base + j - 1]][k] = ram[exe.base + k - 1]
      OBVIOUS
    <3>4. QED BY <3>1, <3>2, <3>3
  <2>2. ASSUME NEW m \in 0 .. Count, NEW k \in 1 .. m PROVE Data(m)[k] \in Word
    <3>1. k \in 1 .. Count
      BY <1>1
    <3>2. Data(m)[k] = ram[exe.base + k - 1]
      BY <2>1
    <3>3. QED BY <1>1, <3>1, <3>2
  <2>3. QED BY <2>1, <2>2
<1> DEFINE vs == Data(n)
           ws == Data(n + 1)
<1>3. n \in 0 .. Count /\ n + 1 \in 0 .. Count /\ n + 1 \in 1 .. n + 1 /\ exe.base + (n + 1) - 1 = exe.base + n
  BY <1>1
<1>4. /\ Len(vs) \in Nat /\ Len(ws) = Len(vs) + 1 /\ Len(vs) = n
      /\ \A k \in 1 .. Len(vs) : vs[k] = ws[k] /\ vs[k] \in Word
      /\ ws[n + 1] = ram[exe.base + n]
  BY <1>2, <1>3
<1> HIDE DEF vs, ws
<1>5. Sum(vs) \in Word
  BY <1>4, SumRange
<1>6. Sum(ws) = (Sum(vs) + ws[Len(ws)]) % W
  BY <1>4, SumStep
<1>7. QED BY <1>4, <1>5, <1>6 DEF vs, ws

LEMMA DataRange == ASSUME IInv, Storing PROVE Sum(Data(Count)) \in Word
<1>1. Count \in Nat /\ exe.base \in Nat /\ \A k \in 1 .. Count : ram[exe.base + k - 1] \in Word
  BY Stores
<1>2. Len(Data(Count)) = Count /\ \A k \in 1 .. Count : Data(Count)[k] \in Word
  BY <1>1 DEF Data
<1>3. QED BY <1>1, <1>2, SumRange

LEMMA NoData == Sum(Data(0)) = 0
<1>1. Len(Data(0)) = 0
  BY DEF Data
<1>2. QED BY <1>1, SumNone

\* A word that is not behind another one is not in a sector behind it.
LEMMA Sectors == \A a, b \in Nat : \A m \in Nat \ {0} : a <= b => a \div m <= b \div m
<1> SUFFICES ASSUME NEW a \in Nat, NEW b \in Nat, NEW m \in Nat \ {0}, a <= b,
                    ~ (a \div m <= b \div m)
             PROVE  FALSE
  OBVIOUS
<1>1. /\ a \div m \in Int /\ a % m \in 0 .. m - 1 /\ a = (m * (a \div m)) + (a % m)
      /\ b \div m \in Int /\ b % m \in 0 .. m - 1 /\ b = (m * (b \div m)) + (b % m)
  BY SMT
<1> DEFINE p == a \div m
           q == b \div m
           x == a % m
           y == b % m
<1>2. p \in Int /\ q \in Int /\ x \in 0 .. m - 1 /\ y \in 0 .. m - 1
      /\ a = (m * p) + x /\ b = (m * q) + y /\ q + 1 <= p
  BY <1>1
<1> HIDE DEF p, q, x, y
<1>3. m * (q + 1) <= m * p
  BY <1>2, SMT
<1>4. m * (q + 1) = (m * q) + m
  BY <1>2, SMT
<1> DEFINE u == m * p
           v == m * q
           w == m * (q + 1)
<1>5. u \in Int /\ v \in Int /\ w \in Int
  BY <1>2
<1>6. a = u + x /\ b = v + y /\ w <= u /\ w = v + m
  BY <1>2, <1>3, <1>4
<1> HIDE DEF u, v, w
<1>7. QED BY <1>2, <1>5, <1>6, SMT

LEMMA StoredInit == Init => StoredInv
<1>1. 0 \in Word /\ <<>> \in Seq(Word)
  BY DEF Word, W
<1>2. Init => loaded \in [base : Word, words : Seq(Word)] /\ pc = "setup"
  BY <1>1 DEF Init, NoImage
<1>3. QED BY <1>2 DEF StoredInv, Storing

LEMMA StoredStore ==
  ASSUME IInv, StoredInv, UNCHANGED Enabled, NEW dev \in {"spi", "twi"}, Store(dev)
  PROVE  StoredInv'
<1>1. /\ pc' = "erase" /\ dev \in Enabled /\ UNCHANGED <<exe, ram, medium, loaded>>
      /\ ld' = [dev |-> dev, next |-> 0, hdr |-> <<>>, i |-> 0, sum |-> 0, rc |-> FALSE, addr |-> 0]
  BY DEF Store, Idle
<1>2. ld'.dev = dev /\ ld'.i = 0 /\ ld'.sum = 0 /\ ld'.rc = FALSE
  BY <1>1
<1>3. (EraseInv /\ DataInv /\ HeadInv)'
  <2>1. ASSUME NEW a \in 0 .. Count' + 3 PROVE ~ (a \div SectorWords < 0)
    <3>1. a \in Nat /\ SectorWords \in Nat \ {0}
      <4>1. exe' \in [base : Word, size : Word \cup {-1}]
        BY <1>1 DEF IInv, TypeInv
      <4>2. Count' \in Int
        BY <4>1 DEF Count, Word, W
      <4>3. QED BY <4>2, BootAssumption
    <3>2. \A x \in Nat, m \in Nat \ {0} : ~ (x \div m < 0)
      BY SMT
    <3>3. QED BY <3>1, <3>2
  <2>2. EraseInv'
    BY <1>2, <2>1 DEF EraseInv
  <2>3. QED BY <1>1, <2>2 DEF DataInv, HeadInv
<1>4. loaded' \in [base : Word, words : Seq(Word)]
  BY <1>1 DEF StoredInv
<1>5. QED BY <1>1, <1>2, <1>3, <1>4 DEF StoredInv

\* When all sectors are erased, all words to be written are blank.
LEMMA StoredErase ==
  ASSUME HeaderFits, IInv, StoredInv, UNCHANGED Enabled, dev_erase
  PROVE  StoredInv'
<1>1. pc = "erase" /\ Storing /\ UNCHANGED <<exe, ram, loaded>>
  BY DEF dev_erase, Storing
<1>2. /\ exe.base \in Nat /\ exe.size \in Nat /\ exe.size \in Word /\ exe.size > 0
      /\ Count \in Nat /\ RamWords \in Nat /\ exe.base + Count <= RamWords
      /\ ld \in [dev : Media \cup {"none"}, next : Nat, hdr : Seq(Word), i : Nat, sum : Word,
                 rc : BOOLEAN, addr : Nat]
      /\ ld.dev \in Flash /\ File \in Seq(Word) /\ Len(File) \in Nat
      /\ SectorWords \in Nat \ {0}
  BY <1>1, Stores, BootAssumption
<1>3. /\ loaded \in [base : Word, words : Seq(Word)] /\ ld.dev \in Enabled /\ ~ld.rc /\ ld.sum = 0
      /\ \A a \in 0 .. Count + 3 : a \div SectorWords < ld.i => Blank(a)
  BY <1>1 DEF StoredInv, EraseInv
<1>4. Count' = Count
  BY <1>1 DEF Count
<1>5. CASE ld.dev = "spi" /\ ld.i < num_sectors
  <2> DEFINE g == [a \in DOMAIN medium.spi |->
                     IF (a - 1) \div SectorWords = ld.i THEN Erased ELSE medium.spi[a]]
  <2>1. /\ ld' = [ld EXCEPT !.i = @ + 1] /\ pc' = "erase"
        /\ medium' = [medium EXCEPT !.spi = g]
    BY <1>1, <1>5 DEF dev_erase
  <2>2. ld'.dev = "spi" /\ ld'.i = ld.i + 1 /\ ld'.sum = 0 /\ ~ld'.rc
    BY <1>2, <1>3, <1>5, <2>1
  <2>3. File = medium.spi /\ File' = g
    <3>1. "spi" \in DOMAIN medium
      BY DEF IInv, TypeInv
    <3> HIDE DEF g
    <3>2. QED BY <1>5, <2>1, <2>2, <3>1 DEF File
  <2>4. DOMAIN File = 1 .. Len(File)
    BY <1>2
  <2>5. Len(g) = Len(File)
    <3>1. DOMAIN g = 1 .. Len(File)
      BY <2>3, <2>4
    <3> HIDE DEF g
    <3>2. QED BY <1>2, <3>1
  <2>6. ASSUME NEW a \in 0 .. Count + 3, a \div SectorWords < ld.i + 1
        PROVE  Cell(g, a) = Erased
    <3>1. a \in Nat /\ a \div SectorWords \in Int
      BY <1>2
    <3>2. CASE a < Len(File)
      <4>1. a + 1 \in 1 .. Len(File) /\ (a + 1) - 1 = a
        BY <1>2, <3>1, <3>2
      <4>2. g[a + 1] = IF a \div SectorWords = ld.i THEN Erased ELSE File[a + 1]
        BY <2>3, <2>4, <4>1
      <4> HIDE DEF g
      <4>3. CASE a \div SectorWords = ld.i
        BY <2>5, <3>2, <4>2, <4>3 DEF Cell
      <4>4. CASE a \div SectorWords /= ld.i
        <5>1. a \div SectorWords < ld.i
          BY <1>2, <2>6, <3>1, <4>4
        <5>2. Cell(File, a) = Erased
          BY <1>3, <1>5, <5>1 DEF Blank
        <5>3. QED BY <2>5, <3>2, <4>2, <4>4, <5>2 DEF Cell
      <4>5. QED BY <4>3, <4>4
    <3>3. CASE ~ (a < Len(File))
      BY <2>5, <3>3 DEF Cell
    <3>4. QED BY <3>2, <3>3
  <2> HIDE DEF g
  <2>7. EraseInv'
    BY <1>4, <2>2, <2>3, <2>6 DEF EraseInv, Blank
  <2>8. DataInv' /\ HeadInv'
    BY <2>1 DEF DataInv, HeadInv
  <2>9. ld'.dev \in Enabled' /\ loaded' = loaded
    BY <1>1, <1>3, <1>5, <2>2
  <2>10. QED BY <1>3, <2>2, <2>7, <2>8, <2>9 DEF StoredInv
<1>6. CASE ~ (ld.dev = "spi" /\ ld.i < num_sectors)
  <2>1. pc' = "data" /\ ld' = [ld EXCEPT !.i = 0, !.addr = 4] /\ UNCHANGED medium
    BY <1>6 DEF dev_erase
  <2>2. /\ ld'.dev = ld.dev /\ ld'.i = 0 /\ ld'.addr = 4 /\ ld'.sum = 0 /\ ~ld'.rc
        /\ File' = File
    BY <1>2, <1>3, <2>1 DEF File
  <2>3. ASSUME NEW a \in 0 .. Count + 3, ld.dev = "spi" PROVE Cell(File, a) = Erased
    <3>1. ~ (ld.i < exe.size \div (4 * SectorWords) + 1)
      BY <1>6, <2>3 DEF num_sectors
    <3>2. (Count + 3) \div SectorWords <= exe.size \div (4 * SectorWords)
      <4>1. Count <= RamWords
        BY <1>2
      <4>2. QED BY <1>2, <4>1 DEF HeaderFits, Count
    <3>3. a \div SectorWords <= (Count + 3) \div SectorWords
      <4>1. a \in Nat /\ Count + 3 \in Nat /\ a <= Count + 3
        BY <1>2
      <4>2. QED BY <1>2, <4>1, Sectors
    <3> DEFINE p == a \div SectorWords
               q == (Count + 3) \div SectorWords
               r == exe.size \div (4 * SectorWords)
    <3>4. p \in Int /\ q \in Int /\ r \in Int
      <4>1. a \in Int /\ Count + 3 \in Int /\ 4 * SectorWords \in Nat \ {0}
        BY <1>2
      <4>2. \A x \in Int, m \in Nat \ {0} : x \div m \in Int
        BY SMT
      <4>3. QED BY <1>2, <4>1, <4>2
    <3>5. p <= q /\ q <= r /\ ~ (ld.i < r + 1) /\ ld.i \in Nat
      BY <1>2, <3>1, <3>2, <3>3
    <3> HIDE DEF p, q, r
    <3>6. p < ld.i
      BY <3>4, <3>5
    <3>7. Blank(a)
      BY <1>3, <3>6 DEF p
    <3>8. QED BY <2>3, <3>7 DEF Blank
  <2>4. \A a \in 0 .. Count + 3 : Blank(a)'
    BY <2>2, <2>3 DEF Blank
  <2>5. 0 \div 4 = 0 /\ 0 % 4 = 0 /\ 0 < exe.size + 4 /\ 4 = 4 + (0 \div 4)
    BY <1>2
  <2>6. DataInv'
    <3>1. Sum(Data(0))' = 0
      BY <1>1, NoData DEF Data
    <3>2. /\ ld'.i % 4 = 0 /\ ld'.i < exe'.size + 4 /\ ld'.addr = 4 + ld'.i \div 4
          /\ ld'.i \div 4 = 0
      BY <1>1, <2>2, <2>5
    <3>3. Data(ld.i \div 4)' = Data(0)'
      BY <3>2 DEF Data
    <3>4. ld'.sum = Sum(Data(ld.i \div 4))'
      BY <2>2, <3>1, <3>3
    <3>5. QED BY <1>4, <2>4, <3>2, <3>4 DEF DataInv
  <2>7. EraseInv' /\ HeadInv'
    BY <2>1 DEF EraseInv, HeadInv
  <2>8. ld'.dev \in Enabled' /\ loaded' = loaded /\ pc' = "data"
    BY <1>1, <1>3, <2>1, <2>2
  <2>9. QED BY <1>3, <2>2, <2>6, <2>7, <2>8 DEF StoredInv
<1>7. QED BY <1>5, <1>6

\* A word of the executable: it is behind those that are stored already.
LEMMA StoredPut ==
  ASSUME IInv, StoredInv, UNCHANGED Enabled, StoreWord
  PROVE  StoredInv'
<1> DEFINE n == ld.i \div 4
           wd == ram[exe.base + n]
<1>1. /\ pc = "data" /\ pc' = "data" /\ Storing /\ ld.i < exe.size /\ ~ld.rc /\ Put(wd)
      /\ UNCHANGED <<exe, ram, loaded>>
  BY DEF StoreWord, Storing
<1>2. /\ exe.base \in Nat /\ exe.size \in Nat /\ Count \in Nat
      /\ ld \in [dev : Media \cup {"none"}, next : Nat, hdr : Seq(Word), i : Nat, sum : Word,
                 rc : BOOLEAN, addr : Nat]
      /\ ld.dev \in Flash
  BY <1>1, Stores
<1>3. wd \in Word
  BY <1>1, StoredWord
<1>4. /\ loaded \in [base : Word, words : Seq(Word)] /\ ld.dev \in Enabled
      /\ ld.i % 4 = 0 /\ ld.addr = 4 + n
      /\ ld.sum = Sum(Data(n))
      /\ \A k \in 1 .. n : Cell(File, 3 + k) = ram[exe.base + k - 1]
      /\ \A a \in 0 .. Count + 3 : a < 4 \/ a >= ld.addr => Blank(a)
  BY <1>1 DEF StoredInv, DataInv
<1>5. n \in Nat /\ n < Count /\ (ld.i + 4) % 4 = 0 /\ (ld.i + 4) \div 4 = n + 1
  <2>1. \A x, y \in Nat : x < y /\ x % 4 = 0 =>
          /\ x \div 4 \in Nat /\ x \div 4 < (y + 3) \div 4
          /\ (x + 4) % 4 = 0 /\ (x + 4) \div 4 = (x \div 4) + 1
    BY SMT
  <2>2. QED BY <1>1, <1>2, <1>4, <2>1 DEF Count
<1>6. ld'.dev = ld.dev
  <2>1. TypeInv
    BY DEF IInv
  <2> HIDE DEF wd
  <2>2. QED BY <1>1, <1>2, <1>3, <2>1, PutForm
<1>7. EraseInv' /\ HeadInv'
  BY <1>1 DEF EraseInv, HeadInv
<1> HIDE DEF n, wd
<1>8. ASSUME ~ld'.rc PROVE DataInv'
  <2>1. ld.addr < Count + 4 /\ Blank(ld.addr)
    BY <1>2, <1>4, <1>5
  <2>2. /\ ld' = [ld EXCEPT !.sum = (ld.sum + wd) % W, !.i = ld.i + 4, !.addr = ld.addr + 1]
        /\ Cell(File', ld.addr) = wd
        /\ \A a \in Nat : a /= ld.addr => Cell(File', a) = Cell(File, a)
    BY <1>1, <1>3, <1>4, <1>8, <2>1, PutWrites
  <2>3. ld'.i = ld.i + 4 /\ ld'.addr = ld.addr + 1 /\ ld'.sum = (ld.sum + wd) % W
    BY <1>2, <2>2
  <2>4. Count' = Count
    BY <1>1 DEF Count
  <2>5. ld'.sum = Sum(Data(n + 1))
    BY <1>1, <1>4, <1>5, <2>3, DataStep DEF wd
  <2>6. ASSUME NEW k \in 1 .. n + 1 PROVE Cell(File', 3 + k) = ram[exe.base + k - 1]
    <3>1. k \in Nat /\ 3 + k \in Nat
      BY <1>5
    <3>2. CASE k = n + 1
      <4>1. 3 + k = ld.addr /\ exe.base + k - 1 = exe.base + n
        BY <1>2, <1>4, <1>5, <3>2
      <4>2. QED BY <2>2, <4>1 DEF wd
    <3>3. CASE k /= n + 1
      <4>1. k \in 1 .. n /\ 3 + k /= ld.addr
        BY <1>4, <1>5, <3>1, <3>3
      <4>2. QED BY <1>4, <2>2, <3>1, <4>1
    <3>4. QED BY <3>2, <3>3
  <2>7. ASSUME NEW a \in 0 .. Count + 3, a < 4 \/ a >= ld.addr + 1, ld.dev = "spi"
        PROVE  Cell(File', a) = Erased
    <3>1. a \in Nat /\ a /= ld.addr /\ (a < 4 \/ a >= ld.addr)
      BY <1>2, <1>4, <1>5, <2>7
    <3>2. QED BY <1>4, <2>2, <2>7, <3>1 DEF Blank
  <2>8. /\ ld'.i % 4 = 0 /\ ld'.i < exe'.size + 4 /\ ld'.i \div 4 = n + 1
        /\ ld'.addr = 4 + (n + 1)
    BY <1>1, <1>2, <1>4, <1>5, <2>3
  <2>9. Data(ld.i \div 4)' = Data(n + 1)
    BY <1>1, <2>8 DEF Data
  <2>10. ld'.sum = Sum(Data(ld.i \div 4))'
    BY <2>5, <2>9
  <2>11. \A k \in 1 .. ld'.i \div 4 : Cell(File, 3 + k)' = ram'[exe'.base + k - 1]
    BY <1>1, <2>6, <2>8
  <2>12. \A a \in 0 .. Count' + 3 : a < 4 \/ a >= ld'.addr => Blank(a)'
    BY <1>6, <2>3, <2>4, <2>7 DEF Blank
  <2>13. ld'.addr = 4 + ld'.i \div 4
    BY <2>8
  <2>14. QED BY <2>8, <2>10, <2>11, <2>12, <2>13 DEF DataInv
<1>9. loaded' \in [base : Word, words : Seq(Word)] /\ ld'.dev \in Enabled' /\ pc' = "data"
  BY <1>1, <1>4, <1>6
<1>10. QED BY <1>7, <1>8, <1>9 DEF StoredInv

\* The header is made of what was stored.
LEMMA StoredHeading ==
  ASSUME IInv, StoredInv, UNCHANGED Enabled, StoreData
  PROVE  StoredInv'
<1> DEFINE h == <<Signature, exe.base, exe.size, NotW(ld.sum)>>
<1>1. /\ pc = "data" /\ pc' = "head" /\ Storing /\ (ld.i >= exe.size \/ ld.rc)
      /\ ld' = [ld EXCEPT !.addr = 0, !.hdr = h]
      /\ UNCHANGED <<exe, ram, medium, loaded>>
  BY DEF StoreData, Storing
<1>2. /\ exe.base \in Nat /\ exe.size \in Nat /\ Count \in Nat
      /\ ld \in [dev : Media \cup {"none"}, next : Nat, hdr : Seq(Word), i : Nat, sum : Word,
                 rc : BOOLEAN, addr : Nat]
  BY <1>1, Stores
<1>3. ld'.addr = 0 /\ ld'.hdr = h /\ ld'.rc = ld.rc /\ ld'.dev = ld.dev /\ File' = File
  <2> HIDE DEF h
  <2>1. QED BY <1>1, <1>2 DEF File
<1>4. ASSUME ~ld.rc PROVE HeadInv'
  <2>1. /\ ld.i % 4 = 0 /\ ld.i < exe.size + 4 /\ ld.addr = 4 + ld.i \div 4
        /\ ld.sum = Sum(Data(ld.i \div 4))
        /\ \A k \in 1 .. ld.i \div 4 : Cell(File, 3 + k) = ram[exe.base + k - 1]
        /\ \A a \in 0 .. Count + 3 : a < 4 \/ a >= ld.addr => Blank(a)
    BY <1>1, <1>4 DEF StoredInv, DataInv
  <2>2. ld.i \div 4 = Count
    <3>1. \A x, y \in Nat : x % 4 = 0 /\ x < y + 4 /\ x >= y => x \div 4 = (y + 3) \div 4
      OBVIOUS
    <3>2. QED BY <1>1, <1>2, <1>4, <2>1, <3>1 DEF Count
  <2>3. Count' = Count /\ Sum(Data(Count))' = Sum(Data(Count))
    BY <1>1 DEF Count, Data
  <2>4. ld'.hdr = <<Signature, exe.base, exe.size, NotW(Sum(Data(Count)))>>
    BY <1>3, <2>1, <2>2
  <2>5. \A k \in 1 .. Count : Cell(File, 3 + k) = ram[exe.base + k - 1]
    BY <2>1, <2>2
  <2>6. ASSUME NEW a \in 0 .. 3 PROVE Blank(a)' /\ ~ (a < ld'.addr)
    <3>1. a \in 0 .. Count + 3 /\ a < 4
      BY <1>2
    <3>2. QED BY <1>3, <2>1, <3>1 DEF Blank
  <2>7. /\ ld'.addr <= 4 /\ pc' /= "stored"
        /\ \A a \in 0 .. 3 : IF a < ld'.addr THEN Cell(File, a)' = ld'.hdr[a + 1] ELSE Blank(a)'
    BY <1>1, <1>3, <2>6
  <2>8. ld'.hdr = <<Signature, exe'.base, exe'.size, NotW(Sum(Data(Count)))'>>
    BY <1>1, <2>3, <2>4 DEF NotW
  <2>9. \A k \in 1 .. Count' : Cell(File, 3 + k)' = ram'[exe'.base + k - 1]
    BY <1>1, <1>3, <2>3, <2>5 DEF Cell
  <2>10. QED BY <2>7, <2>8, <2>9 DEF HeadInv
<1>5. EraseInv' /\ DataInv'
  BY <1>1 DEF EraseInv, DataInv
<1>6. loaded' \in [base : Word, words : Seq(Word)] /\ ld'.dev \in Enabled' /\ pc' = "head"
  BY <1>1, <1>3 DEF StoredInv
<1>7. QED BY <1>3, <1>4, <1>5, <1>6 DEF StoredInv

\* A word of the header: in front of the executable.
LEMMA StoredHeader ==
  ASSUME IInv, StoredInv, UNCHANGED Enabled, StoreHeader
  PROVE  StoredInv'
<1> DEFINE wd == ld.hdr[ld.addr + 1]
<1>1. /\ pc = "head" /\ pc' = "head" /\ Storing /\ ld.addr < 4 /\ Put(wd)
      /\ UNCHANGED <<exe, ram, loaded>>
  BY DEF StoreHeader, Storing
<1>2. /\ Count \in Nat /\ ld.dev \in Flash
      /\ ld \in [dev : Media \cup {"none"}, next : Nat, hdr : Seq(Word), i : Nat, sum : Word,
                 rc : BOOLEAN, addr : Nat]
  BY <1>1, Stores
<1>3. TypeInv /\ Len(ld.hdr) = 4
  BY <1>1 DEF IInv, StoreInv
<1>4. wd \in Word
  BY <1>1, <1>2, <1>3
<1> HIDE DEF wd
<1>5. ld'.dev = ld.dev /\ ld'.hdr = ld.hdr
  BY <1>1, <1>2, <1>3, <1>4, PutForm
<1>6. loaded \in [base : Word, words : Seq(Word)] /\ ld.dev \in Enabled
  BY <1>1 DEF StoredInv
<1>7. ASSUME ~ld'.rc PROVE HeadInv'
  <2>1. ~ld.rc
    <3>1. PICK o \in stream_put(wd) : ld' = [ld EXCEPT !.rc = @ \/ o[2], !.sum = (@ + wd) % W,
                                                       !.i = @ + 4, !.addr = @ + 1]
      BY <1>1 DEF Put
    <3>2. ld'.rc = (ld.rc \/ o[2])
      BY <1>2, <3>1
    <3>3. QED BY <1>7, <3>2
  <2>2. /\ ld.hdr = <<Signature, exe.base, exe.size, NotW(Sum(Data(Count)))>>
        /\ \A k \in 1 .. Count : Cell(File, 3 + k) = ram[exe.base + k - 1]
        /\ \A a \in 0 .. 3 : IF a < ld.addr THEN Cell(File, a) = ld.hdr[a + 1] ELSE Blank(a)
    BY <1>1, <2>1 DEF StoredInv, HeadInv
  <2>3. ld.addr < Count + 4 /\ Blank(ld.addr)
    <3>1. ld.addr \in 0 .. 3
      BY <1>1, <1>2
    <3>2. QED BY <1>2, <2>2, <3>1
  <2>4. /\ ld' = [ld EXCEPT !.sum = (ld.sum + wd) % W, !.i = ld.i + 4, !.addr = ld.addr + 1]
        /\ Cell(File', ld.addr) = wd
        /\ \A a \in Nat : a /= ld.addr => Cell(File', a) = Cell(File, a)
    BY <1>1, <1>4, <1>6, <1>7, <2>3, PutWrites
  <2>5. ld'.addr = ld.addr + 1
    BY <1>2, <2>4
  <2>6. Count' = Count /\ Data(Count)' = Data(Count) /\ exe' = exe
    BY <1>1 DEF Count, Data
  <2>7. ld'.hdr = <<Signature, exe'.base, exe'.size, NotW(Sum(Data(Count)))'>>
    BY <1>5, <2>2, <2>6 DEF NotW
  <2>8. ASSUME NEW k \in 1 .. Count PROVE Cell(File', 3 + k) = ram[exe.base + k - 1]
    <3>1. 3 + k \in Nat /\ 3 + k /= ld.addr
      BY <1>1, <1>2
    <3>2. QED BY <2>2, <2>4, <3>1
  <2>9. ASSUME NEW a \in 0 .. 3
        PROVE  IF a < ld.addr + 1 THEN Cell(File', a) = ld.hdr[a + 1]
               ELSE ld.dev = "spi" => Cell(File', a) = Erased
    <3>1. CASE a = ld.addr
      BY <2>4, <3>1 DEF wd
    <3>2. CASE a /= ld.addr
      <4>1. Cell(File', a) = Cell(File, a) /\ (a < ld.addr + 1 <=> a < ld.addr)
        BY <1>2, <2>4, <3>2
      <4>2. QED BY <2>2, <4>1 DEF Blank
    <3>3. QED BY <3>1, <3>2
  <2>10. ld'.addr <= 4
    BY <1>1, <1>2, <2>5
  <2>11. \A a \in 0 .. 3 : IF a < ld'.addr THEN Cell(File, a)' = ld'.hdr[a + 1] ELSE Blank(a)'
    BY <1>5, <2>5, <2>9 DEF Blank
  <2>12. \A k \in 1 .. Count' : Cell(File, 3 + k)' = ram'[exe'.base + k - 1]
    BY <1>1, <2>6, <2>8
  <2>13. QED BY <1>1, <2>7, <2>10, <2>11, <2>12 DEF HeadInv
<1>8. EraseInv' /\ DataInv'
  BY <1>1 DEF EraseInv, DataInv
<1>9. QED BY <1>1, <1>5, <1>6, <1>7, <1>8 DEF StoredInv

LEMMA StoredEnd == ASSUME IInv, StoredInv, UNCHANGED Enabled, StoreEnd PROVE StoredInv'
<1>1. /\ pc = "head" /\ ld.addr = 4 /\ pc' = IF ld.rc THEN "console" ELSE "stored"
      /\ UNCHANGED <<exe, ram, medium, ld, loaded>>
  BY DEF StoreEnd
<1>2. CASE ld.rc
  BY <1>1, <1>2 DEF StoredInv, Storing
<1>3. CASE ~ld.rc
  <2>1. HeadInv /\ ld.dev \in Enabled /\ loaded \in [base : Word, words : Seq(Word)]
    BY <1>1, <1>3 DEF StoredInv, Storing
  <2>2. Count' = Count /\ Data(Count)' = Data(Count) /\ File' = File /\ pc' = "stored"
    BY <1>1, <1>3 DEF Count, Data, File
  <2>3. HeadInv'
    BY <1>1, <2>1, <2>2 DEF HeadInv, Blank, Cell, NotW
  <2>4. EraseInv' /\ DataInv'
    BY <2>2 DEF EraseInv, DataInv
  <2>5. QED BY <1>1, <1>3, <2>1, <2>2, <2>3, <2>4 DEF StoredInv
<1>4. QED BY <1>2, <1>3

\* The other steps do not store.
LEMMA StoredElse ==
  ASSUME IInv, StoredInv, UNCHANGED Enabled, ~Storing',
         loaded' \in {loaded, NoImage} \/ (ld.dev \in Media /\ loaded' = ImageIn(File))
  PROVE  StoredInv'
<1>1. loaded \in [base : Word, words : Seq(Word)]
  BY DEF StoredInv
<1>2. NoImage \in [base : Word, words : Seq(Word)]
  <2>1. 0 \in Word /\ <<>> \in Seq(Word)
    BY DEF Word, W
  <2>2. QED BY <2>1 DEF NoImage
<1>3. ASSUME ld.dev \in Media PROVE ImageIn(File) \in [base : Word, words : Seq(Word)]
  <2>1. File \in Seq(Word) /\ Len(File) \in Nat
    BY <1>3, MediumForm DEF File, IInv
  <2>2. CASE ~Accepts(File)
    BY <1>2, <2>2 DEF ImageIn
  <2>3. CASE Accepts(File)
    <3> DEFINE n == (File[3] + 3) \div 4
               ws == [i \in 1 .. n |-> File[4 + i]]
    <3>1. Len(File) >= 4 /\ n + 4 <= Len(File)
      BY <2>3 DEF Accepts
    <3>2. File[2] \in Word /\ File[3] \in Word
      BY <2>1, <3>1
    <3>3. n \in Nat
      BY <3>2, WordIsNat
    <3> HIDE DEF n
    <3>4. \A i \in 1 .. n : File[4 + i] \in Word
      <4>1. ASSUME NEW i \in 1 .. n PROVE 4 + i \in 1 .. Len(File)
        BY <2>1, <3>1, <3>3
      <4>2. QED BY <2>1, <4>1
    <3>5. ws \in Seq(Word)
      <4>1. ws \in [1 .. n -> Word]
        BY <3>4
      <4> HIDE DEF ws
      <4>2. QED BY <3>3, <4>1, SeqDef
    <3>6. ImageIn(File) = [base |-> File[2], words |-> ws]
      BY <2>3 DEF ImageIn, n
    <3> HIDE DEF ws
    <3>7. QED BY <3>2, <3>5, <3>6
  <2>4. QED BY <2>2, <2>3
<1>4. loaded' \in [base : Word, words : Seq(Word)]
  BY <1>1, <1>2, <1>3
<1>5. pc' \notin {"erase", "stored"}
  BY DEF Storing
<1>6. QED BY <1>4, <1>5 DEF StoredInv

LEMMA StoredNext ==
  ASSUME HeaderFits, IInv, StoredInv, [Next]_vars PROVE StoredInv'
<1>1. CASE Next
  <2>1. UNCHANGED Enabled /\ Step
    BY <1>1 DEF Next
  <2>2. ASSUME NEW dev \in {"spi", "twi"}, Store(dev) PROVE StoredInv'
    BY <2>1, <2>2, StoredStore
  <2>3. CASE dev_erase
    BY <2>1, <2>3, StoredErase
  <2>4. CASE StoreWord
    BY <2>1, <2>4, StoredPut
  <2>5. CASE StoreData
    BY <2>1, <2>5, StoredHeading
  <2>6. CASE StoreHeader
    BY <2>1, <2>6, StoredHeader
  <2>7. CASE StoreEnd
    BY <2>1, <2>7, StoredEnd
  <2>8. CASE system_setup \/ AutoBoot \/ StoreReturns \/ AppBoot \/ LedOff \/ StartApp \/ Heartbeat
    <3>1. loaded' = loaded /\ ~Storing'
      BY <2>8 DEF system_setup, AutoBoot, StoreReturns, AppBoot, LedOff, StartApp, Heartbeat, Storing
    <3>2. QED BY <2>1, <3>1, StoredElse
  <2>9. CASE AutoBootNext \/ Upload \/ Command \/ \E dev \in {"spi", "twi", "sd"} : LoadFrom(dev)
    <3>1. loaded' = loaded
      BY <2>9 DEF AutoBootNext, Upload, Command, LoadFrom, Load
    <3>2. ~Storing'
      BY <2>9 DEF AutoBootNext, Upload, Command, LoadFrom, Load, system_trap_handler, Storing
    <3>3. QED BY <2>1, <3>1, <3>2, StoredElse
  <2>10. CASE dev_init \/ LoadHeader \/ LoadWord
    <3>1. loaded' = loaded
      BY <2>10 DEF dev_init, LoadHeader, LoadWord
    <3>2. pc' \in {"boot", "auto", "halt", "console", "header", "words"}
      <4>1. CASE dev_init
        BY <4>1 DEF dev_init, LoadReturns
      <4>2. CASE LoadHeader
        BY <4>2 DEF LoadHeader, LoadReturns
      <4>3. CASE LoadWord
        BY <4>3 DEF LoadWord, system_trap_handler
      <4>4. QED BY <2>10, <4>1, <4>2, <4>3
    <3>3. QED BY <2>1, <3>1, <3>2, StoredElse DEF Storing
  <2>11. CASE LoadEnd
    <3>1. loaded' = loaded \/ loaded' = ImageIn(File)
      BY <2>11 DEF LoadEnd, File
    <3>2. ~Storing'
      BY <2>11 DEF LoadEnd, LoadReturns, Storing
    <3>3. ld.dev \in Media
      BY <2>11 DEF IInv, LoadInv, Loading, LoadEnd
    <3>4. QED BY <2>1, <3>1, <3>2, <3>3, StoredElse
  <2>12. CASE Restart
    <3>1. loaded' = NoImage /\ ~Storing'
      BY <2>12 DEF Restart, Storing
    <3>2. QED BY <2>1, <3>1, StoredElse
  <2>13. QED BY <2>1, <2>2, <2>3, <2>4, <2>5, <2>6, <2>7, <2>8, <2>9, <2>10, <2>11, <2>12 DEF Step
<1>2. CASE UNCHANGED vars
  BY <1>2 DEF vars, StoredInv, EraseInv, DataInv, HeadInv, Storing, Blank, Count, Data, Cell, File,
     NotW
<1>3. QED BY <1>1, <1>2

\* What system_app_store reported as stored is what system_app_load accepted
\* before, header, size and checksum included, and would be accepted again -
\* if the sectors erased for the image have room for its header, too.
THEOREM BootloaderStores == ASSUME HeaderFits PROVE Spec => []StoredBoots
<1>1. ASSUME IInv, StoredInv, pc = "stored" PROVE ImageIn(medium[ld.dev]) = loaded
  <2>1. Storing /\ ~ld.rc /\ ld.dev \in Enabled /\ loaded \in [base : Word, words : Seq(Word)]
    BY <1>1 DEF StoredInv, Storing
  <2>2. /\ ld.hdr = <<Signature, exe.base, exe.size, NotW(Sum(Data(Count)))>>
        /\ ld.addr = 4
        /\ \A k \in 1 .. Count : Cell(File, 3 + k) = ram[exe.base + k - 1]
        /\ \A a \in 0 .. 3 : IF a < ld.addr THEN Cell(File, a) = ld.hdr[a + 1] ELSE Blank(a)
    BY <1>1, <2>1 DEF StoredInv, HeadInv
  <2>3. /\ Count \in Nat /\ File \in Seq(Word) /\ Len(File) \in Nat /\ Count + 4 <= Len(File)
        /\ exe.base + Count <= RamWords /\ exe.size > 0
    BY <1>1, <2>1, Stores
  <2>4. \A a \in 0 .. Count + 3 : Cell(File, a) = File[a + 1]
    BY <2>3 DEF Cell
  <2>5. File[1] = Signature /\ File[2] = exe.base /\ File[3] = exe.size
        /\ File[4] = NotW(Sum(Data(Count)))
    <3>1. \A a \in 0 .. 3 : a \in 0 .. Count + 3 /\ a < 4
      BY <2>3
    <3>2. \A a \in 0 .. 3 : File[a + 1] = ld.hdr[a + 1]
      BY <2>2, <2>4, <3>1
    <3>3. File[1] = ld.hdr[1] /\ File[2] = ld.hdr[2] /\ File[3] = ld.hdr[3] /\ File[4] = ld.hdr[4]
      <4>1. /\ 0 \in 0 .. 3 /\ 1 \in 0 .. 3 /\ 2 \in 0 .. 3 /\ 3 \in 0 .. 3
            /\ 0 + 1 = 1 /\ 1 + 1 = 2 /\ 2 + 1 = 3 /\ 3 + 1 = 4
        OBVIOUS
      <4>2. QED BY <3>2, <4>1
    <3>4. QED BY <2>2, <3>3
  <2>6. \A k \in 1 .. Count : File[4 + k] = ram[exe.base + k - 1]
    <3>1. ASSUME NEW k \in 1 .. Count PROVE File[4 + k] = ram[exe.base + k - 1]
      <4>1. 3 + k \in 0 .. Count + 3 /\ (3 + k) + 1 = 4 + k
        BY <2>3
      <4>2. QED BY <2>2, <2>4, <4>1
    <3>2. QED BY <3>1
  <2>7. [i \in 1 .. Count |-> File[4 + i]] = Data(Count)
    BY <2>6 DEF Data
  <2>8. (Sum(Data(Count)) + NotW(Sum(Data(Count))) + 1) % W = 0
    <3>1. \A x \in Word : (x + NotW(x) + 1) % W = 0
      BY DEF Word, W, NotW
    <3>2. QED BY <1>1, <2>1, <3>1, DataRange
  <2>9. (File[3] + 3) \div 4 = Count
    BY <2>5 DEF Count
  <2>10. Accepts(File)
    BY <2>3, <2>5, <2>7, <2>8, <2>9 DEF Accepts
  <2>11. ImageIn(File) = [base |-> exe.base, words |-> Data(Count)]
    BY <2>5, <2>7, <2>9, <2>10 DEF ImageIn
  <2>12. /\ exe.base = loaded.base /\ DOMAIN loaded.words = 1 .. Count
         /\ \A i \in 1 .. Count : ram[exe.base + i - 1] = loaded.words[i]
    BY <1>1, <2>3 DEF IInv, ExeInv, Count
  <2>13. loaded.words = Data(Count)
    <3>1. loaded.words \in Seq(Word)
      BY <2>1
    <3>2. loaded.words = [i \in 1 .. Count |-> loaded.words[i]]
      <4>1. PICK n \in Nat : loaded.words \in [1 .. n -> Word]
        BY <3>1, SeqDef
      <4>2. 1 .. n = 1 .. Count
        BY <2>12, <4>1
      <4>3. QED BY <4>1, <4>2
    <3>3. QED BY <2>12, <3>2 DEF Data
  <2>14. loaded = [base |-> loaded.base, words |-> loaded.words]
    BY <2>1
  <2>15. QED BY <2>11, <2>12, <2>13, <2>14 DEF File
<1>2. IInv /\ StoredInv => StoredBoots
  BY <1>1 DEF StoredBoots
<1>3. IInv /\ StoredInv /\ [Next]_vars => StoredInv'
  BY StoredNext
<1>4. QED BY <1>2, <1>3, StoredInit, BootloaderInvariant, PTL DEF Spec

=============================================================================
