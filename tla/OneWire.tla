------------------------------ MODULE OneWire ------------------------------
(***************************************************************************)
(* The 1-wire interface: what the serial engine puts on and takes from the *)
(* wire (rtl/core/neorv32_onewire.vhd), the driver on top of it            *)
(* (sw/lib/source/neorv32_onewire.c), and the search for devices of        *)
(* sw/example/demo_onewire.  A byte has two bits and a ROM number three    *)
(* bytes (family, serial number, checksum) rather than eight of eight.     *)
(* The wire is low when anybody pulls it low.                              *)
(***************************************************************************)
EXTENDS Integers, Sequences, FiniteSets

ByteBits == 2
RomBytes == 3
RomBits == ByteBits * RomBytes
RomNumber == [1 .. RomBits -> {0, 1}]
OneWireByte == [1 .. ByteBits -> {0, 1}]      \* least significant bit first

-----------------------------------------------------------------------------
(* The serial engine: an operation on the shift register while devices     *)
(* pull the wire low in the slots of "low"; its result is a FIFO entry.    *)
RTX[sreg \in OneWireByte, low \in Seq(BOOLEAN)] ==
  IF low = <<>> THEN sreg
  ELSE RTX[Append(Tail(sreg), IF Head(low) THEN 0 ELSE sreg[1]), Tail(low)]

serial_engine(cmd, sreg, low) ==
  IF cmd = "reset" THEN [presence |-> IF low[1] THEN 1 ELSE 0, data |-> sreg]
  ELSE [presence |-> 0, data |-> RTX[sreg, SubSeq(low, 1, IF cmd = "bit" THEN 1 ELSE ByteBits)]]

AllBits(bit) == [i \in 1 .. ByteBits |-> bit]

\* What the driver returns when devices pull low (a function of "low").
neorv32_onewire_reset_blocking ==
  [low \in BOOLEAN |-> serial_engine("reset", AllBits(0), <<low>>).presence]
neorv32_onewire_read_bit_blocking ==
  [low \in BOOLEAN |-> serial_engine("bit", AllBits(1), <<low>>).data[ByteBits]]
neorv32_onewire_read_byte_blocking(low) == serial_engine("byte", AllBits(1), low).data

\* What a write leaves on the wire when nobody else pulls low.
neorv32_onewire_write_bit_blocking(bit) ==
  serial_engine("bit", AllBits(bit), <<FALSE>>).data[ByteBits]
neorv32_onewire_write_byte_blocking(byte) ==
  serial_engine("byte", byte, [i \in 1 .. ByteBits |-> FALSE]).data

-----------------------------------------------------------------------------
(* The time base.  A clock lasts t_clock quarters of a nanosecond; the     *)
(* first prescaler whose divider has eight bits is taken.                  *)
PRSC_LUT == <<2, 4, 8, 64>>

Configurations(t_base, t_clock) ==
  {sel \in 1 .. 4 : (4 * t_base) \div (t_clock * PRSC_LUT[sel]) \in 1 .. 255}

neorv32_onewire_setup(t_base, t_clock) ==
  LET usable == Configurations(t_base, t_clock)
  IN IF usable = {} THEN [returns |-> 0]
     ELSE LET sel    == CHOOSE n \in usable : \A m \in usable : n <= m
              clkdiv == (4 * t_base) \div (t_clock * PRSC_LUT[sel])
          IN [returns |-> (t_clock \div 4) * PRSC_LUT[sel] * clkdiv,
              tick    |-> t_clock * PRSC_LUT[sel], ctrl_clkdiv |-> clkdiv - 1]

\* The engine's tick comes when the divided clock has reached ctrl_clkdiv.
BaseTick(config) == config.tick * (config.ctrl_clkdiv + 1)

-----------------------------------------------------------------------------
(* The checksum: a linear table, like the one of 256 entries.              *)
dscrc_table == <<0, 2, 3, 1>>

ByteAt(rom, k) == rom[ByteBits * k - 1] + 2 * rom[ByteBits * k]
BitwiseSum(a, b) == ((a + b) % 2) + 2 * ((a \div 2 + b \div 2) % 2)
docrc8(crc8, value) == dscrc_table[BitwiseSum(crc8, value) + 1]

Checksum(rom) == docrc8(docrc8(docrc8(0, ByteAt(rom, 1)), ByteAt(rom, 2)), ByteAt(rom, 3))
Family(rom) == ByteAt(rom, 1)

-----------------------------------------------------------------------------
(* The search.  present[k] is the set of devices on the wire in the k-th   *)
(* read slot; a device takes part as long as it has been followed.         *)
SearchState == [ROM_NO : RomNumber, LastDiscrepancy : 0 .. RomBits,
                LastFamilyDiscrepancy : 0 .. ByteBits, LastDeviceFlag : BOOLEAN,
                found : BOOLEAN]

Restarted(s) == [s EXCEPT !.LastDiscrepancy = 0, !.LastFamilyDiscrepancy = 0,
                          !.LastDeviceFlag = FALSE, !.found = FALSE]

\* The direction taken at bit n, where both values are there or one is.
search_direction(s, n, id_bit, cmp_id_bit) ==
  IF id_bit # cmp_id_bit THEN id_bit
  ELSE IF n < s.LastDiscrepancy THEN s.ROM_NO[n]
  ELSE IF n = s.LastDiscrepancy THEN 1 ELSE 0

\* Bit n: read it and its complement, choose, and tell the devices.
SearchBit(w, n, present) ==
  LET reads(bit, k) == neorv32_onewire_read_bit_blocking[
                         \E d \in w.on \intersect present[k] : d[n] = bit]
  IN {IF id_bit = 1 /\ cmp_id_bit = 1 THEN [w EXCEPT !.broken = TRUE]
      ELSE LET dir    == search_direction(w.s, n, id_bit, cmp_id_bit)
               passed == dir = 0 /\ id_bit = cmp_id_bit
           IN [on |-> {d \in w.on \intersect present[2 * n] :
                         d[n] = neorv32_onewire_write_bit_blocking(dir)},
               last_zero |-> IF passed THEN n ELSE w.last_zero,
               s |-> [w.s EXCEPT !.ROM_NO[n] = dir,
                                 !.LastFamilyDiscrepancy = IF passed /\ n <= ByteBits THEN n ELSE @],
               broken |-> FALSE]
        : id_bit \in {reads(0, 2 * n - 1)}, cmp_id_bit \in {reads(1, 2 * n)}}

OWSearch(reset, present, s) ==
  LET walk[n \in 0 .. RomBits, w \in [on : SUBSET present[1], last_zero : 0 .. RomBits,
                                      s : SearchState, broken : BOOLEAN]] ==
        IF n = RomBits \/ w.broken THEN w
        ELSE walk[n + 1, CHOOSE v \in SearchBit(w, n + 1, present) : TRUE]
      Outcome(w) ==
        IF w.broken \/ Checksum(w.s.ROM_NO) # 0 \/ Family(w.s.ROM_NO) = 0 THEN Restarted(w.s)
        ELSE [w.s EXCEPT !.LastDiscrepancy = w.last_zero, !.LastDeviceFlag = w.last_zero = 0,
                         !.found = TRUE]
  IN IF s.LastDeviceFlag \/ reset[present[1] # {}] # 0 THEN Restarted(s)
     ELSE Outcome(walk[0, [on |-> present[1], last_zero |-> 0, s |-> s, broken |-> FALSE]])

OWFirst(reset, present, s) == OWSearch(reset, present, Restarted(s))
OWNext(reset, present, s) == OWSearch(reset, present, s)

\* The search state afterwards is the one before.
OWVerify(reset, present, s) ==
  LET t == OWSearch(reset, present, [s EXCEPT !.LastDiscrepancy = RomBits, !.LastDeviceFlag = FALSE])
  IN t.found /\ t.ROM_NO = s.ROM_NO

OWTargetSetup(family, s) ==
  [Restarted(s) EXCEPT !.LastDiscrepancy = RomBits,
                       !.ROM_NO = [n \in 1 .. RomBits |-> IF n <= ByteBits THEN family[n] ELSE 0]]

OWFamilySkipSetup(s) ==
  [s EXCEPT !.LastDiscrepancy = s.LastFamilyDiscrepancy, !.LastFamilyDiscrepancy = 0,
            !.LastDeviceFlag = @ \/ s.LastFamilyDiscrepancy = 0]

-----------------------------------------------------------------------------
Cleared == [ROM_NO |-> [n \in 1 .. RomBits |-> 0], LastDiscrepancy |-> 0,
            LastFamilyDiscrepancy |-> 0, LastDeviceFlag |-> FALSE, found |-> FALSE]

Always(devices) == [k \in 1 .. 2 * RomBits |-> devices]

\* The search states after each device that is found, in order.
scan_bus(reset, devices) ==
  LET rest[s \in SearchState] == IF s.found THEN <<s>> \o rest[OWNext(reset, Always(devices), s)]
                                 ELSE <<>>
  IN rest[OWFirst(reset, Always(devices), Cleared)]

-----------------------------------------------------------------------------
DeviceRoms == {rom \in RomNumber : Checksum(rom) = 0 /\ Family(rom) # 0}
Buses == {devices \in SUBSET DeviceRoms : Cardinality(devices) <= 3 \/ devices = DeviceRoms}

\* The reset as the header documents it: 0 if a device is present, -1 otherwise.
ResetAsDocumented == [low \in BOOLEAN |-> IF low THEN 0 ELSE -1]

\* The order of the search: the first bit in which two numbers differ.
Before(a, b) ==
  \E n \in 1 .. RomBits : a[n] < b[n] /\ \A m \in 1 .. n - 1 : a[m] = b[m]
FirstOf(devices) == CHOOSE a \in devices : \A b \in devices \ {a} : Before(a, b)

\* What is written is on the wire, what devices send is read, and a bit read
\* is the bit sent.
ASSUME EngineTransfers ==
  /\ \A byte \in OneWireByte :
       /\ neorv32_onewire_write_byte_blocking(byte) = byte
       /\ neorv32_onewire_read_byte_blocking([i \in 1 .. ByteBits |-> byte[i] = 0]) = byte
  /\ \A bit \in {0, 1} : /\ neorv32_onewire_write_bit_blocking(bit) = bit
                         /\ neorv32_onewire_read_bit_blocking[bit = 0] = bit

\* The base tick is at most the time asked for and less than one step of the
\* prescaler shorter; there is none exactly when it cannot be that close; what
\* is returned misses a nanosecond per divided clock at most.
ASSUME BaseTickIsClosest ==
  \A t_clock \in {4, 20, 37, 40, 53, 160}, t_base \in {25 * n : n \in 0 .. 800} \union 0 .. 90 :
    LET config == neorv32_onewire_setup(t_base, t_clock) IN
    IF config.returns = 0
    THEN 4 * t_base < 2 * t_clock \/ 4 * t_base >= 256 * 64 * t_clock
    ELSE /\ BaseTick(config) <= 4 * t_base /\ 4 * t_base < BaseTick(config) + config.tick
         /\ config.ctrl_clkdiv \in 0 .. 254
         /\ config.returns <= t_base
         /\ BaseTick(config) - 4 * config.returns < 4 * (BaseTick(config) \div t_clock)

\* With the reset as documented a scan finds every device once, in order.
ASSUME ScanFindsEveryDevice ==
  \A devices \in Buses :
    LET list == scan_bus(ResetAsDocumented, devices) IN
    /\ {list[i].ROM_NO : i \in DOMAIN list} = devices
    /\ \A i \in 2 .. Len(list) : Before(list[i - 1].ROM_NO, list[i].ROM_NO)

\* The driver hands through the presence bit, which the engine sets if a device
\* answers, so that the search gives up whenever there is something to find.
ASSUME ScanFindsNothing ==
  \A devices \in Buses : scan_bus(neorv32_onewire_reset_blocking, devices) = <<>>

\* A device of family 0 is the first that is found, and ends the list.
ASSUME FamilyZeroEndsTheList ==
  \A devices \in Buses, rom \in RomNumber :
    Checksum(rom) = 0 /\ Family(rom) = 0 => scan_bus(ResetAsDocumented, devices \union {rom}) = <<>>

\* Devices that leave between two slots do not make a number out of two: what
\* is found was there when the search began.
ASSUME FoundWasPresent ==
  \A devices \in {d \in Buses : Cardinality(d) <= 3} :
    LET list == scan_bus(ResetAsDocumented, devices) IN
    \A left \in SUBSET devices, slot \in 2 .. 2 * RomBits,
       s \in {Cleared} \union {list[i] : i \in DOMAIN list} :
      LET present == [k \in 1 .. 2 * RomBits |-> IF k < slot THEN devices ELSE devices \ left]
          t == OWNext(ResetAsDocumented, present, s)
      IN t.found => t.ROM_NO \in devices

\* Verifying says whether the device is there; a search for a family finds its
\* first device if there is one; skipping a family right after the first device
\* goes on with the first device of another one, or ends.
ASSUME SearchesAreDirected ==
  \A devices \in Buses :
    /\ \A rom \in DeviceRoms :
         OWVerify(ResetAsDocumented, Always(devices), [Cleared EXCEPT !.ROM_NO = rom])
         <=> rom \in devices
    /\ \A family \in {SubSeq(rom, 1, ByteBits) : rom \in devices} :
         LET wanted == {rom \in devices : SubSeq(rom, 1, ByteBits) = family}
         IN OWNext(ResetAsDocumented, Always(devices), OWTargetSetup(family, Cleared)).ROM_NO
            = FirstOf(wanted)
    /\ devices # {} =>
         LET s == OWFirst(ResetAsDocumented, Always(devices), Cleared)
             others == {rom \in devices : Family(rom) # Family(s.ROM_NO)}
             t == OWNext(ResetAsDocumented, Always(devices), OWFamilySkipSetup(s))
         IN IF others = {} THEN ~t.found ELSE t.found /\ t.ROM_NO = FirstOf(others)
=============================================================================
