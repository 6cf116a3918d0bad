----------------------------- MODULE Bootloader -----------------------------
(***************************************************************************)
(* The bootloader, sw/bootloader: main.c, hal/source/system.c and the      *)
(* devices it loads from and stores to (UART0, SPI flash, TWI flash, SD    *)
(* card file).  One action is one access to a word of a device, one        *)
(* command of the console or one step towards the application.  The reset  *)
(* button, a power cut included, may be pressed at any time, in the middle *)
(* of programming a word too.                                              *)
(*                                                                         *)
(* Addresses count words; flash addresses are relative to the base address *)
(* of the device, and the RAM starts at 0.  The SD card's file is what     *)
(* pf_open and pf_read of module PetitFat deliver.                         *)
(***************************************************************************)
EXTENDS Integers, Sequences, FiniteSets, ImageGen

CONSTANTS
  RamWords,         \* application memory
  SectorWords,      \* SPI_FLASH_SECTOR_SIZE
  Files,            \* what may be sent over the UART
  MaxFaults,        \* bound: stores that a power cut or the TWI flash spoils
  Boards            \* pairs of options of config.h and initial contents of the media

\* A flash has room for an image that fills the RAM.
ASSUME BootAssumption ==
  /\ RamWords \in Nat \ {0} /\ SectorWords \in Nat \ {0}
  /\ Files \subseteq Seq(Word)
  /\ \A b \in Boards :
       /\ b[1] \subseteq {"twi", "spi", "sd", "uart", "direct"}
       /\ b[2] \in [twi : Seq(Word), spi : Seq(Word), sd : Seq(Word), uart : Seq(Word)]
       /\ \A dev \in b[1] \cap {"twi", "spi"} : Len(b[2][dev]) >= RamWords + 4

VARIABLES
  Enabled,    \* this bootloader's options; never changes
  pc,         \* where the program is
  exe,        \* g_exe_base, g_exe_size (in bytes)
  ram,
  medium,     \* contents of the devices; "uart": the words still to come
  ld,         \* locals of system_app_load and system_app_store
  faults,     \* spoiled stores so far
  mie, led,   \* mstatus.MIE; the status LED (heart beat)
  \* History: what the medium held when the last load was accepted; whether the
  \* user insisted on booting without an executable.
  loaded, forced

vars == <<Enabled, faults, pc, exe, ram, medium, ld, mie, led, loaded, forced>>

Erased == W - 1
NoExe == [base |-> 0, size |-> 0]
DirectExe == [base |-> 0, size |-> -1]       \* g_exe_size = 0xFFFFFFFF
NoImage == [base |-> 0, words |-> <<>>]

\* What an image file, header first, holds if app_load accepts it.
Accepts(f) ==
  /\ Len(f) >= 4 /\ f[1] = Signature
  /\ LET n == (f[3] + 3) \div 4
     IN  /\ n + 4 <= Len(f) /\ f[2] + n <= RamWords
         /\ (Sum([i \in 1 .. n |-> f[4 + i]]) + f[4] + 1) % W = 0

ImageIn(f) ==
  IF Accepts(f)
    THEN [base |-> f[2], words |-> [i \in 1 .. (f[3] + 3) \div 4 |-> f[4 + i]]]
    ELSE NoImage

IfEnabled(dev) == IF dev \in Enabled THEN <<dev>> ELSE <<>>
AutoBootOrder == IfEnabled("twi") \o IfEnabled("spi") \o IfEnabled("sd")

Idle == [dev |-> "none", next |-> 0, hdr |-> <<>>, i |-> 0, sum |-> 0, rc |-> FALSE, addr |-> 0]

Init == /\ \E b \in Boards : Enabled = b[1] /\ medium = b[2]
        /\ pc = "setup"
        /\ exe = NoExe
        /\ ram = [a \in 0 .. RamWords - 1 |-> Erased]
        /\ ld = Idle
        /\ mie = FALSE /\ led = FALSE /\ faults = 0
        /\ loaded = NoImage /\ forced = FALSE

-----------------------------------------------------------------------------
(* system_setup and the auto-boot sequence of main.  ld.next is the number *)
(* of devices tried; it is 0 when a command loads.                         *)
system_setup ==
  /\ pc = "setup"
  /\ pc' = "countdown"
  /\ mie' = TRUE /\ led' = TRUE
  /\ UNCHANGED <<exe, ram, medium, ld, loaded, forced>>

\* A key aborts, else the time runs out (AUTO_BOOT_TIMEOUT).
AutoBoot ==
  /\ pc = "countdown"
  /\ \/ "uart" \in Enabled /\ pc' = "console"
     \/ pc' = "auto"
  /\ UNCHANGED <<exe, ram, medium, ld, mie, led, loaded, forced>>

Load_keepsize(dev, next) == \* Mutant: g_exe_size is not reset first
  /\ ld' = [Idle EXCEPT !.dev = dev, !.next = next]
  /\ pc' = "dev_init"
  /\ UNCHANGED <<exe, ram, mie, led, loaded>>

Load(dev, next) ==          \* system_app_load: entry
  /\ exe' = [exe EXCEPT !.size = 0]
  /\ ld' = [Idle EXCEPT !.dev = dev, !.next = next]
  /\ pc' = "dev_init"
  /\ UNCHANGED <<ram, mie, led, loaded>>

AutoBootNext ==
  /\ pc = "auto"
  /\ IF ld.next < Len(AutoBootOrder)
       THEN Load(AutoBootOrder[ld.next + 1], ld.next + 1) /\ UNCHANGED <<medium, forced>>
       ELSE /\ ld' = Idle
            /\ IF "direct" \in Enabled THEN exe' = DirectExe /\ pc' = "boot"
               ELSE pc' = "console" /\ UNCHANGED exe
            /\ UNCHANGED <<ram, medium, mie, led, loaded, forced>>

\* Where a load ends.  An upload that failed halts the bootloader.
LoadReturns(ok) ==
  /\ medium' = [medium EXCEPT !.uart = <<>>]
  /\ ld' = [Idle EXCEPT !.next = ld.next]
  /\ pc' = IF ld.next > 0 THEN IF ok THEN "boot" ELSE "auto"
           ELSE IF ld.dev = "uart" /\ ~ok THEN "halt" ELSE "console"

-----------------------------------------------------------------------------
(* The devices.  Get(d) is the set of outcomes of stream_get.              *)

\* Bytes of new that got into place, the rest is old.
Mixed(old, wd, ks) ==
  LET B(k) == IF k \in ks THEN ByteOf(wd, k) ELSE ByteOf(old, k)
  IN  B(0) + 2*B(1) + 4*B(2) + 8*B(3)

Size(dev) == Len(medium[dev])

\* Programming clears bits only.
Programmed(old, wd) == Mixed(0, old, {k \in 0 .. 3 : ByteOf(wd, k) = 1})

Cell(m, a) == IF a < Len(m) THEN m[a + 1] ELSE Erased

\* A byte that is not acknowledged reads 0 and the others are still tried.
twi_flash_stream_get ==
  LET w == Cell(medium.twi, ld.addr)
  IN  {<<w, FALSE>>, <<Mixed(0, w, {0, 1}), TRUE>>}

spi_flash_stream_get == {<<Cell(medium.spi, ld.addr), FALSE>>}

sdcard_stream_get ==
  {<<0, TRUE>>} \cup
  {<<medium.sd[ld.addr + 1], FALSE>> : x \in {1} \cap 1 .. (Len(medium.sd) - ld.addr)}

\* Waits until four bytes have come.
uart_stream_get == {<<medium.uart[ld.addr + 1], FALSE>> : x \in {1} \cap 1 .. (Len(medium.uart) - ld.addr)}

stream_get == CASE ld.dev = "twi"  -> twi_flash_stream_get
                [] ld.dev = "spi"  -> spi_flash_stream_get
                [] ld.dev = "sd"   -> sdcard_stream_get
                [] ld.dev = "uart" -> uart_stream_get

\* Outcomes of setting up a device: it may not answer; the SD card's file may
\* be missing, too.  All start at the base address.
twi_flash_setup == {TRUE, FALSE}
spi_flash_setup == {TRUE, FALSE}
sdcard_setup    == {TRUE, FALSE}
uart_setup      == {TRUE}

setup == CASE ld.dev = "twi"  -> twi_flash_setup
           [] ld.dev = "spi"  -> spi_flash_setup
           [] ld.dev = "sd"   -> sdcard_setup
           [] ld.dev = "uart" -> uart_setup

dev_init ==
  /\ pc = "dev_init"
  /\ \/ FALSE \in setup /\ LoadReturns(FALSE)
     \/ /\ TRUE \in setup
        /\ pc' = "header"
        /\ ld' = [ld EXCEPT !.addr = 0]
        /\ UNCHANGED medium
  /\ UNCHANGED <<exe, ram, mie, led, loaded, forced>>

\* The signature is looked at before the status of the device.
LoadHeader ==
  /\ pc = "header"
  /\ \E o \in stream_get :
       LET hdr == Append(ld.hdr, o[1])
           l   == [ld EXCEPT !.hdr = hdr, !.rc = @ \/ o[2], !.addr = @ + 1]
       IN  IF Len(hdr) < 4 THEN ld' = l /\ UNCHANGED <<pc, exe, medium>>
           ELSE /\ exe' = [exe EXCEPT !.base = hdr[2]]
                /\ IF hdr[1] # Signature THEN LoadReturns(FALSE)
                   ELSE pc' = "words" /\ ld' = [l EXCEPT !.sum = hdr[4]] /\ UNCHANGED medium
  /\ UNCHANGED <<ram, mie, led, loaded, forced>>

\* system_trap_handler: an exception is reported and ends the program.
system_trap_handler == pc' = "halt" /\ led' = TRUE

\* One turn of the loop, and what follows it.
LoadWord ==
  /\ pc = "words" /\ ld.i < ld.hdr[3] /\ ~ld.rc
  /\ \E o \in stream_get :
       LET a == exe.base + ld.i \div 4 IN
       /\ ld' = [ld EXCEPT !.rc = o[2], !.sum = (@ + o[1]) % W, !.i = @ + 4, !.addr = @ + 1]
       /\ IF a < RamWords THEN ram' = [ram EXCEPT ![a] = o[1]] /\ UNCHANGED <<pc, led>>
          ELSE system_trap_handler /\ UNCHANGED ram
  /\ UNCHANGED <<exe, medium, mie, loaded, forced>>

\* Mutant: a complement checksum expected
LoadEnd_twos ==
  /\ pc = "words" /\ (ld.i >= ld.hdr[3] \/ ld.rc)
  /\ LET ok == ~ld.rc /\ ld.sum % W = 0 IN
       /\ LoadReturns(ok)
       /\ exe' = IF ok THEN [exe EXCEPT !.size = ld.hdr[3]] ELSE exe
       /\ loaded' = IF ok THEN ImageIn(medium[ld.dev]) ELSE loaded
  /\ UNCHANGED <<ram, mie, led, forced>>

LoadEnd ==
  /\ pc = "words" /\ (ld.i >= ld.hdr[3] \/ ld.rc)
  /\ LET ok == ~ld.rc /\ (ld.sum + 1) % W = 0 IN
       /\ LoadReturns(ok)
       /\ exe' = IF ok THEN [exe EXCEPT !.size = ld.hdr[3]] ELSE exe
       /\ loaded' = IF ok THEN ImageIn(medium[ld.dev]) ELSE loaded
  /\ UNCHANGED <<ram, mie, led, forced>>

-----------------------------------------------------------------------------
(* system_app_store: question, erase, data, then the header in front.      *)
num_sectors == exe.size \div (4 * SectorWords) + 1

\* The last word of an image is in a sector that is erased for it, although the
\* size does not count the header.
HeaderFits ==
  \A size \in Word :
    (size + 3) \div 4 <= RamWords =>
      ((size + 3) \div 4 + 3) \div SectorWords <= size \div (4 * SectorWords)

\* "s" and "w": no executable, no device and no consent all return.
Store(dev) ==
  /\ pc = "console" /\ dev \in Enabled /\ exe.size # 0
  /\ pc' = "erase"
  /\ ld' = [Idle EXCEPT !.dev = dev]
  /\ UNCHANGED <<exe, ram, medium, mie, led, loaded, forced>>

dev_erase_none ==           \* Mutant: the flash is not erased
  /\ pc = "erase"
  /\ pc' = "data" /\ ld' = [ld EXCEPT !.i = 0, !.addr = 4]
  /\ UNCHANGED <<exe, ram, medium, mie, led, loaded, forced>>

\* spi_flash_erase, one sector; twi_flash_erase does nothing.  ld.i counts.
dev_erase ==
  /\ pc = "erase"
  /\ IF ld.dev = "spi" /\ ld.i < num_sectors
       THEN /\ ld' = [ld EXCEPT !.i = @ + 1]
            /\ medium' = [medium EXCEPT !.spi = [a \in DOMAIN @ |->
                 IF (a - 1) \div SectorWords = ld.i THEN Erased ELSE @[a]]]
            /\ UNCHANGED pc
       ELSE /\ pc' = "data"
            /\ ld' = [ld EXCEPT !.i = 0, !.addr = 4]
            /\ UNCHANGED medium
  /\ UNCHANGED <<exe, ram, mie, led, loaded, forced>>

\* What the addressed word and the status are after stream_put.  A byte the
\* TWI flash does not acknowledge is not written and the others are still tried.
spi_flash_stream_put(wd) == {<<Programmed(Cell(medium.spi, ld.addr), wd), FALSE>>}

twi_flash_stream_put(wd) ==
  {<<wd, FALSE>>, <<Mixed(Cell(medium.twi, ld.addr), wd, {0, 1}), TRUE>>}

stream_put(wd) == IF ld.dev = "spi" THEN spi_flash_stream_put(wd) ELSE twi_flash_stream_put(wd)

Put(wd) ==
  \E o \in stream_put(wd) :
    /\ medium' = IF ld.addr < Size(ld.dev) THEN [medium EXCEPT ![ld.dev][ld.addr + 1] = o[1]]
                 ELSE medium
    /\ ld' = [ld EXCEPT !.rc = @ \/ o[2], !.sum = (@ + wd) % W, !.i = @ + 4, !.addr = @ + 1]

StoreWord ==
  /\ pc = "data" /\ ld.i < exe.size /\ ~ld.rc
  /\ Put(ram[exe.base + ld.i \div 4])
  /\ UNCHANGED <<pc, exe, ram, mie, led, loaded, forced>>

\* After an error of the device the header is written all the same.
StoreData ==
  /\ pc = "data" /\ (ld.i >= exe.size \/ ld.rc)
  /\ pc' = "head"
  /\ ld' = [ld EXCEPT !.addr = 0, !.hdr = <<Signature, exe.base, exe.size, NotW(ld.sum)>>]
  /\ UNCHANGED <<exe, ram, medium, mie, led, loaded, forced>>

StoreHeader ==
  /\ pc = "head" /\ ld.addr < 4
  /\ Put(ld.hdr[ld.addr + 1])
  /\ UNCHANGED <<pc, exe, ram, mie, led, loaded, forced>>

StoreEnd ==
  /\ pc = "head" /\ ld.addr = 4
  /\ pc' = IF ld.rc THEN "console" ELSE "stored"
  /\ UNCHANGED <<exe, ram, medium, ld, mie, led, loaded, forced>>

\* "OK" is on the console.
StoreReturns ==
  /\ pc = "stored"
  /\ pc' = "console" /\ ld' = Idle
  /\ UNCHANGED <<exe, ram, medium, mie, led, loaded, forced>>

-----------------------------------------------------------------------------
(* system_app_boot.  Without an executable it asks; "no" returns to where  *)
(* it was called.                                                          *)
AppBoot ==
  /\ pc = "boot"
  /\ \/ exe.size # 0 /\ pc' = "led_off" /\ mie' = FALSE /\ UNCHANGED forced
     \/ exe.size = 0 /\ pc' = "led_off" /\ mie' = FALSE /\ forced' = TRUE
     \/ exe.size = 0 /\ pc' = (IF ld.next > 0 THEN "auto" ELSE "console") /\ UNCHANGED <<mie, forced>>
  /\ UNCHANGED <<exe, ram, medium, ld, led, loaded>>

LedOff ==
  /\ pc = "led_off"
  /\ led' = FALSE /\ pc' = "print"
  /\ UNCHANGED <<exe, ram, medium, ld, mie, loaded, forced>>

\* The last message is sent completely before mret.
StartApp ==
  /\ pc = "print"
  /\ pc' = "app"
  /\ UNCHANGED <<exe, ram, medium, ld, mie, led, loaded, forced>>

\* The machine timer interrupt, four times a second.  Where nothing depends on the
\* LED it is left as it is.
Heartbeat ==
  /\ mie /\ pc \in {"boot", "led_off", "print"}
  /\ led' = ~led
  /\ UNCHANGED <<pc, exe, ram, medium, ld, mie, loaded, forced>>

-----------------------------------------------------------------------------
(* The console.  "h" and "i" print only.                                   *)
Upload ==                   \* "u"
  /\ pc = "console" /\ "uart" \in Enabled
  /\ Load("uart", 0)
  /\ \E f \in Files : medium' = [medium EXCEPT !.uart = f]
  /\ UNCHANGED forced

LoadFrom(dev) ==            \* "t", "l", "c"
  /\ pc = "console" /\ "uart" \in Enabled /\ dev \in Enabled \ {"uart"}
  /\ Load(dev, 0)
  /\ UNCHANGED <<medium, forced>>

\* "e", "x" (ebreak), "d", "r"
Command ==
  /\ pc = "console" /\ "uart" \in Enabled
  /\ \/ pc' = "boot" /\ ld' = Idle /\ UNCHANGED <<exe, led>>
     \/ system_trap_handler /\ UNCHANGED <<exe, ld>>
     \/ "direct" \in Enabled /\ exe' = DirectExe /\ pc' = "boot" /\ ld' = Idle /\ UNCHANGED led
  /\ UNCHANGED <<ram, medium, mie, loaded, forced>>

\* Reset button, power cut or command "r": the start-up code clears the globals.
\* A word being programmed may be left with its first bytes only.
Restart ==
  /\ pc \notin {"setup", "countdown"}
  /\ pc' = "setup"
  /\ exe' = NoExe /\ ld' = Idle /\ mie' = FALSE /\ led' = FALSE /\ forced' = FALSE /\ loaded' = NoImage
  /\ \/ medium' = [medium EXCEPT !.uart = <<>>]
     \/ /\ \/ pc = "data" /\ ld.i < exe.size /\ ~ld.rc
           \/ pc = "head" /\ ld.addr < 4
        /\ ld.addr < Size(ld.dev)
        /\ LET wd == IF pc = "data" THEN ram[exe.base + ld.i \div 4] ELSE ld.hdr[ld.addr + 1]
           IN  \E k \in 0 .. 2 :
                 medium' = [medium EXCEPT ![ld.dev][ld.addr + 1] =
                   IF ld.dev = "spi" THEN Mixed(@, Programmed(@, wd), 0 .. k) ELSE Mixed(@, wd, 0 .. k)]
  /\ UNCHANGED <<ram>>

Step ==
  \/ system_setup \/ AutoBoot \/ AutoBootNext
  \/ dev_init \/ LoadHeader \/ LoadWord \/ LoadEnd
  \/ \E dev \in {"spi", "twi"} : Store(dev)
  \/ dev_erase \/ StoreWord \/ StoreData \/ StoreHeader \/ StoreEnd \/ StoreReturns
  \/ AppBoot \/ LedOff \/ StartApp \/ Heartbeat
  \/ Upload \/ Command \/ Restart
  \/ \E dev \in {"spi", "twi", "sd"} : LoadFrom(dev)

\* A store is spoiled: by a restart in it, or by the first error of the device.
Spoils == /\ pc \in {"erase", "data", "head"}
          /\ pc' = "setup" \/ (ld'.rc /\ ~ld.rc)

Next == /\ Step
        /\ faults' = IF Spoils THEN faults + 1 ELSE faults
        /\ faults' <= MaxFaults
        /\ UNCHANGED Enabled

Spec == Init /\ [][Next]_vars /\ WF_vars(Next)

-----------------------------------------------------------------------------
\* What is handed over is what was accepted: while an executable is announced
\* as available the RAM holds exactly the image accepted last, as failed uploads
\* in between withdraw it; and an application takes over with the interrupts
\* off and the LED dark - such an image, unless the user insisted or boots
\* directly.
HandOver ==
  /\ exe.size > 0 => /\ exe.base = loaded.base
                     /\ Len(loaded.words) = (exe.size + 3) \div 4
                     /\ \A i \in DOMAIN loaded.words : ram[exe.base + i - 1] = loaded.words[i]
  /\ pc = "app" => /\ ~mie /\ ~led
                   /\ exe.size = 0 => forced \/ exe = DirectExe

\* After "OK" the flash holds the executable in a form that the loader accepts.
StoredBoots ==
  pc = "stored" => ImageIn(medium[ld.dev]) = loaded

\* The loader refuses only what is not an image: a header or checksum that is
\* wrong, of a medium that reports no errors.
RefusesOnlyBad ==
  [][(/\ pc \in {"header", "words"} /\ ld.dev \in {"spi", "uart"}
      /\ pc' \in {"auto", "console", "halt"} /\ exe'.size = 0)
     => ~(Accepts(medium[ld.dev]) /\ medium[ld.dev][3] > 0)]_vars
=============================================================================
