------------------------------ MODULE ImageGen ------------------------------
(***************************************************************************)
(* The executable image generator, sw/image_gen/image_gen.c: from a flat   *)
(* binary to the image the bootloader loads and to the memory              *)
(* initialization files.  A "byte" has one bit here and a word four bytes, *)
(* so that padding, byte order and the sum-complement checksum keep their  *)
(* shape.                                                                  *)
(***************************************************************************)
LOCAL INSTANCE Naturals
LOCAL INSTANCE Sequences

Signature == 9          \* signature_c
NoBase == "0xFFFFFFFF"  \* base_addr when no "-b" was given

W == 16                 \* number of values of a word
Word == 0 .. W - 1
NotW(w) == W - 1 - w    \* ~w

ByteOf(w, k) == (w \div 2^k) % 2

read32(p, n) == p[4*n + 1] + 2 * p[4*n + 2] + 4 * p[4*n + 3] + 8 * p[4*n + 4]

padded_size(n) == 4 * ((n + 3) \div 4)

Padded(raw) == raw \o [k \in 1 .. padded_size(Len(raw)) - Len(raw) |-> 0]

\* The words of the zero-padded image, in the order all formats write them.
Words(raw) == [n \in 1 .. padded_size(Len(raw)) \div 4 |-> read32(Padded(raw), n - 1)]

ext_exe_size(size) == CHOOSE e \in {4 * 2^k : k \in 0 .. size} :
                        e >= size /\ (e = 4 \/ e \div 2 < size)

Sum(ws) == LET S[n \in 0 .. Len(ws)] == IF n = 0 THEN 0 ELSE (S[n - 1] + ws[n]) % W
           IN  S[Len(ws)]

-----------------------------------------------------------------------------
\* "exe": header and image.  Sizes count bytes, as everywhere in the header.
ExeOf(base, ws) == <<Signature, base, 4 * Len(ws), NotW(Sum(ws))>> \o ws

Exe(base, raw) == ExeOf(base, Words(raw))

\* "bin", "hex": the words.  "mem": with their index.  "mif": with the depth.
\* "coe": each with the separator that follows it.
Mem(raw) == [n \in DOMAIN Words(raw) |-> <<n - 1, Words(raw)[n]>>]

Mif(raw) == [depth |-> padded_size(Len(raw)) \div 4, content |-> Mem(raw)]

Coe(raw) == [n \in DOMAIN Words(raw) |->
               <<Words(raw)[n], IF n = Len(Words(raw)) THEN ";" ELSE ",">>]

\* "vhd": an array of the next power of two, filled up with "others".
Vhd(raw) == LET size == padded_size(Len(raw))
                ext  == ext_exe_size(size)
            IN  [top     |-> ext \div 4 - 1,
                 entries |-> [n \in DOMAIN Words(raw) |->
                                <<Words(raw)[n], n - 1 < ext \div 4 - 1>>],
                 others  |-> size < ext]

-----------------------------------------------------------------------------
\* The command line: a sequence of flags and arguments, from argv[1] on.
Flags == {"-i", "-o", "-t", "-b"}
Formats == {"exe", "vhd", "bin", "hex", "coe", "mem", "mif"}
NoOptions == [rc |-> "run", input |-> FALSE, output |-> FALSE, type |-> "exe", base |-> NoBase]

\* One round of the loop over argv: flag f with argument a, NoArg at the end.
Option(o, f, a, NoArg) ==
  IF f = "-h" THEN [o EXCEPT !.rc = "help"]
  ELSE IF f \notin Flags \/ a = NoArg \/ (f = "-t" /\ a \notin Formats)
    THEN [o EXCEPT !.rc = "usage"]
  ELSE CASE f = "-i" -> [o EXCEPT !.input = TRUE]
         [] f = "-o" -> [o EXCEPT !.output = TRUE]
         [] f = "-t" -> [o EXCEPT !.type = a]
         [] f = "-b" -> [o EXCEPT !.base = a]

Options(argv, NoArg) ==
  LET P[k \in 0 .. (Len(argv) + 1) \div 2] ==
        IF k = 0 THEN NoOptions
        ELSE IF P[k - 1].rc # "run" THEN P[k - 1]
        ELSE Option(P[k - 1], argv[2*k - 1], IF 2*k <= Len(argv) THEN argv[2*k] ELSE NoArg, NoArg)
      o == P[(Len(argv) + 1) \div 2]
  IN  IF argv = <<>> THEN [o EXCEPT !.rc = "help"]
      ELSE IF o.rc # "run" THEN o
      ELSE IF o.type = "exe" /\ o.base = NoBase THEN [o EXCEPT !.rc = "usage"]
      ELSE IF ~(o.input /\ o.output) THEN [o EXCEPT !.rc = "files"]
      ELSE o
=============================================================================
