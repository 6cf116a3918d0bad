---------------------------- MODULE MCBootloader ----------------------------
(* Instance of Bootloader: two good images, and files that are damaged in  *)
(* each place where the loader can notice.                                 *)
EXTENDS Bootloader

\* An image with its header crosses no boundary between sectors.
ASSUME SectorsSuffice == HeaderFits

A == Exe(0, <<1, 0, 0, 1,  0, 1, 1>>)           \* 7 bytes, padded to two words
B == Exe(1, <<0, 0, 1, 1>>)

mcFiles == {A, B, [A EXCEPT ![6] = 7],          \* damaged word
            SubSeq(A, 1, 5),                    \* too short
            [B EXCEPT ![1] = 8],                \* wrong signature
            [B EXCEPT ![2] = RamWords],         \* no memory at the base address
            ExeOf(0, <<>>)}                     \* nothing in it

\* What image_gen writes for each binary of up to nine bytes, read back word by
\* word, is the zero-padded binary in every format; a list that is closed by
\* its last entry has nothing after it, and the array of the VHDL package is
\* full exactly when it has no "others".
Binaries == UNION {[1 .. n -> {0, 1}] : n \in 1 .. 9}
Firsts(s) == [n \in DOMAIN s |-> s[n][1]]
ASSUME FormatsAgree ==
  \A raw \in Binaries :
    LET ws   == Words(raw)
        last == Len(ws)
        vhd  == Vhd(raw)
    IN  /\ \A k \in 1 .. 4 * last : ByteOf(ws[(k + 3) \div 4], (k - 1) % 4) =
                                     IF k <= Len(raw) THEN raw[k] ELSE 0
        /\ Accepts(Exe(0, raw)) <=> (last <= RamWords)
        /\ Mif(raw).depth = last /\ Mif(raw).content = [n \in 1 .. last |-> <<n - 1, ws[n]>>]
        /\ Firsts(Coe(raw)) = ws /\ \A n \in 1 .. last : (Coe(raw)[n][2] = ";") <=> (n = last)
        /\ Firsts(vhd.entries) = ws
        /\ last <= vhd.top + 1 /\ (vhd.others <=> (last < vhd.top + 1))
        /\ \A n \in 1 .. last : vhd.entries[n][2] <=> (n < last \/ vhd.others)

\* It starts to work exactly when both files are named, and for an executable
\* the base address, by known options that all have their arguments.
NoArg == "none"
Arguments == {"file", "exe", "bin", "-i", "-o", "-t", "-b"}
ASSUME OptionsComplete ==
  \A n \in 0 .. 2 : \A tail \in [1 .. 2 * n -> Arguments] :
    LET argv == <<"-i", "file", "-o", "file">> \o tail
        o    == Options(argv, NoArg)
    IN  /\ o.rc = "run" /\ o.type = "exe" => o.base # NoBase
        /\ (o.rc = "run") <=>
             /\ \A k \in 1 .. n :
                  /\ tail[2 * k - 1] \in Flags
                  /\ tail[2 * k - 1] = "-t" => tail[2 * k] \in Formats
             /\ \E k \in 1 .. n :
                  \/ tail[2 * k - 1] = "-b"
                  \/ /\ tail[2 * k - 1] = "-t" /\ tail[2 * k] # "exe"
                     /\ \A m \in k + 1 .. n : tail[2 * m - 1] # "-t"

Filled(f, n) == f \o [i \in 1 .. n - Len(f) |-> Erased]

\* Empty, or with an older program that reaches into the second sector.
mcFlashes == {Filled(<<>>, 2 * SectorWords),
              [i \in 1 .. 2 * SectorWords |-> IF i <= Len(B) THEN B[i] ELSE 2]}

Devices(spi, twi, sd) == [spi |-> spi, twi |-> twi, sd |-> sd, uart |-> <<>>]

\* The default; one with the other devices; one without a console.
mcBoards ==
  {<<{"spi", "uart"}, Devices(f, <<>>, <<>>)>> : f \in mcFlashes}
  \cup {<<{"twi", "sd", "uart", "direct"}, Devices(<<>>, Filled(f, 6), g)>> :
          f \in {<<>>, B}, g \in {A, SubSeq(A, 1, 5)}}
  \cup {<<{"spi", "sd", "direct"}, Devices(f, <<>>, A)>> : f \in mcFlashes}
=============================================================================
