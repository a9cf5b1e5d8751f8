-------------------------------- MODULE Rtc --------------------------------
(***************************************************************************)
(* The two clock examples: the DS3231 on I2C (i2c-ds3231.c) and the        *)
(* DS3234 on SPI (spi-ds3234.c).  Both latch the host's clock and test     *)
(* their alarms when they are accessed (START, chip select), convert the   *)
(* latched time on every read of a register, and keep their other          *)
(* registers as bytes.  The DS3231 has a register pointer that lives       *)
(* across calls, the DS3234 takes an address with every transfer and has a *)
(* small memory behind a pointer of its own.                               *)
(*                                                                         *)
(* Time is a number of seconds since 2026-01-01 00:00, within that month.  *)
(* A byte is a number below 256, and a bit of it is named by its mask.     *)
(***************************************************************************)
EXTENDS Integers, Sequences

CONSTANTS
    Chips,      \* the examples of a run, from "ds3231" and "ds3234"
    Starts,     \* instants at which the example may be started
    Steps,      \* how far the host's clock moves at a time, in seconds
    MaxSteps,   \* bound: how often it moves
    Addrs,      \* register addresses the guest uses
    Bytes,      \* data bytes the guest writes
    MaxData,    \* bound: data bytes written in a behaviour
    MaxLen,     \* bound: bytes of a read or write
    SramSize    \* bytes of memory, 256 in the code

ASSUME RtcAssumption ==
    /\ Chips \subseteq {"ds3231", "ds3234"}
    /\ Starts \subseteq Nat /\ Steps \subseteq Nat \ {0} /\ MaxSteps \in Nat
    /\ Addrs \subseteq 0 .. 18 /\ Bytes \subseteq 0 .. 255
    /\ MaxData \in Nat /\ MaxLen \in Nat \ {0} /\ SramSize \in Nat \ {0, 1}

VARIABLES
    chip,           \* which of the two runs
    now, steps,     \* the host's clock, and how often it moved
    open,           \* between START and STOP, or with the chip selected
    system_time,    \* the clock as latched by the last access
    regs,           \* the bytes of the stored registers
    twelve,         \* twelve_hour_flag
    index, start,   \* DS3231: register pointer, "next byte is an address"
    sramAddr, sram, \* DS3234: pointer and memory
    ptr,            \* where the guest counts the pointer to be, or NoPtr
    shadow,         \* what the guest last wrote, by register
    got,            \* time registers read since the last access
    startAt,        \* the clock at the last access
    ndata           \* data bytes written

dev == <<system_time, regs, twelve, index, start, sramAddr, sram>>
guest == <<ptr, shadow, got, startAt, ndata>>
rtcvars == <<chip, now, steps, open, dev, guest>>

Has(b, mask) == (b \div mask) % 2 = 1
NREGS == 19
NoPtr == -1
UnknownByte == -1
Status == 15
\* The stored registers; Alarm2_DayDate is never written and stays at 1,
\* register 13 reads and writes Alarm1_DayDate (register 10).
Cells == (7 .. 16) \ {13}
Cell(a) == IF a = 13 THEN 10 ELSE a
Alarm2_DayDate == 1
-----------------------------------------------------------------------------
(* Conversions.  C's / and % truncate towards zero: a negative number gives
   the negative of its absolute value's digits, before the masks. *)
Bcd(n) == LET Digits(m) == 16 * (m \div 10) + (m % 10)
          IN  IF n >= 0 THEN Digits(n) ELSE -Digits(-n)
format_7bit_bcd(n) == Bcd(n) % 128
format_6bit_bcd(n) == Bcd(n) % 64
format_5bit_bcd(n) == Bcd(n) % 32

TmSec(t) == t % 60
TmMin(t) == (t \div 60) % 60
TmHour(t) == (t \div 3600) % 24
TmDay(t) == t \div 86400

\* Before noon hour - 12 is negative, and its digits are what it is given.
HourReg(t, h12) ==
    IF ~h12 THEN format_6bit_bcd(TmHour(t))
    ELSE format_5bit_bcd(TmHour(t) - 12) + (IF TmHour(t) > 11 THEN 96 ELSE 64)

TimeReg(t, h12, a) ==
    CASE a = 0 -> format_7bit_bcd(TmSec(t))
      [] a = 1 -> format_7bit_bcd(TmMin(t))
      [] a = 2 -> HourReg(t, h12)
      [] a = 3 -> 1 + ((TmDay(t) + 4) % 7)
      [] a = 4 -> format_6bit_bcd(TmDay(t) + 1)
      [] a = 5 -> 128 + format_5bit_bcd(1)
      [] a = 6 -> format_7bit_bcd(26)

\* A register as the guest reads it.
Value(t, h12, r, a) ==
    CASE a \in 0 .. 6 -> TimeReg(t, h12, a)
      [] a = 17 -> 25
      [] a = 18 -> 64
      [] OTHER -> r[Cell(a)]
-----------------------------------------------------------------------------
(* Alarms.  `old' is the clock latched before, t the one latched now.  Only
   the field of the first clear mask bit is compared; "once per second"
   compares the old second in binary with the new one in BCD. *)
\* Mutant: the hour is compared as in 24 hour mode.
HourMatches24(b, t, h12) == b % 128 = format_6bit_bcd(TmHour(t))

HourMatches(b, t, h12) == b % 128 = HourReg(t, h12)
DayMatches(b, t) ==
    b % 64 = (IF Has(b, 64) THEN TimeReg(t, FALSE, 3) ELSE TimeReg(t, FALSE, 4))

Alarm1(r, old, t, h12) ==
    IF Has(r[7], 128) THEN TmSec(old) # TimeReg(t, h12, 0)
    ELSE IF Has(r[8], 128) THEN r[7] % 128 = TimeReg(t, h12, 0)
    ELSE IF Has(r[9], 128) THEN r[8] % 128 = TimeReg(t, h12, 1)
    ELSE IF Has(r[10], 128) THEN HourMatches(r[9], t, h12)
    ELSE DayMatches(r[10], t)

Alarm2(r, old, t, h12) ==
    IF Has(r[11], 128) THEN TmMin(old) # TimeReg(t, h12, 1)
    ELSE IF Has(r[12], 128) THEN r[11] % 128 = TimeReg(t, h12, 1)
    ELSE IF Has(Alarm2_DayDate, 128) THEN HourMatches(r[12], t, h12)
    ELSE DayMatches(Alarm2_DayDate, t)

WithBit(b, mask, on) == IF on /\ ~Has(b, mask) THEN b + mask ELSE b

\* The registers after an access at t.
Raised(r, old, t, h12) ==
    [r EXCEPT ![Status] = WithBit(WithBit(@, 1, Alarm1(r, old, t, h12)),
                                  2, Alarm2(r, old, t, h12))]
-----------------------------------------------------------------------------
(* Writing. *)

\* Mutant: a one clears the alarm bit, as on many other chips.
Status3231OneClears(old, b) ==
    WithBit(WithBit(IF Has(b, 8) THEN 8 ELSE 128, 1, Has(old, 1) /\ ~Has(b, 1)),
            2, Has(old, 2) /\ ~Has(b, 2))

\* DS3231: bit 7 is lost when bit 3 is written, an alarm bit stays if a one
\* is written to it.
Status3231(old, b) ==
    WithBit(WithBit(IF Has(b, 8) THEN 8 ELSE 128, 1, Has(old, 1) /\ Has(b, 1)),
            2, Has(old, 2) /\ Has(b, 2))

\* DS3234: bit 3 is written, bit 7 kept, the alarm bits as above.
Status3234(old, b) ==
    WithBit(WithBit(WithBit(IF Has(old, 128) THEN 128 ELSE 0, 8, Has(b, 8)),
                    1, Has(old, 1) /\ Has(b, 1)), 2, Has(old, 2) /\ Has(b, 2))

\* What byte b leaves in a register that held old.
StoredAs(c, a, old, b) ==
    CASE a = 14 -> b % 32
      [] a = Status -> IF c = "ds3231" THEN Status3231(old, b) ELSE Status3234(old, b)
      [] OTHER -> b

\* One byte into one register; s is the registers and twelve_hour_flag.  The
\* time and the temperature are read only.
Put(c, s, a, b) ==
    [regs |-> IF Cell(a) \in Cells
                THEN [s.regs EXCEPT ![Cell(a)] = StoredAs(c, a, s.regs[Cell(a)], b)]
                ELSE s.regs,
     twelve |-> IF a = 2 THEN Has(b, 64) ELSE s.twelve]

\* Mutant: no wrap after the last register.
RegAtUnwrapped(a, i) == a + i - 1

\* The registers met by the accesses from a on.
RegAt(a, i) == (a + i - 1) % NREGS

\* The loop over the bytes of a write, from register a on.
PutAll(c, s, a, d) ==
    LET after[i \in 0 .. Len(d)] ==
            IF i = 0 THEN s ELSE Put(c, after[i - 1], RegAt(a, i), d[i])
    IN  after[Len(d)]

\* What the guest knows it wrote, in register c by a write of d from a on:
\* the last of the bytes that went there.  Register 13 leaves register 10
\* uncertain.
ByteFor(c, a, d, i) == RegAt(a, i) = c \/ (c = 10 /\ RegAt(a, i) = 13)
Noted(a, d) ==
    [c \in Cells |->
        LET is == {i \in 1 .. Len(d) : ByteFor(c, a, d, i)} IN
        IF is = {} THEN shadow[c]
        ELSE LET i == CHOOSE i \in is : \A j \in is : j <= i
             IN  IF RegAt(a, i) = 13 THEN UnknownByte ELSE d[i]]
Forgotten == [c \in Cells |-> UnknownByte]

\* The time registers among those read.
Seen(a, n) == {<<RegAt(a, i), Value(system_time, twelve, regs, RegAt(a, i))>> :
                   i \in {j \in 1 .. n : RegAt(a, j) <= 6}}
-----------------------------------------------------------------------------
InitRegs == [c \in Cells |-> CASE c = 10 -> 1 [] c = 14 -> 28 [] c = Status -> 136
                             [] OTHER -> 0]
RtcInit ==
    /\ chip \in Chips
    /\ now \in Starts /\ system_time = now /\ startAt = now
    /\ steps = 0 /\ ndata = 0
    /\ open = "no"
    /\ regs = InitRegs
    /\ twelve = FALSE
    /\ index = 0 /\ start = FALSE
    /\ sramAddr = 0 /\ sram = [i \in 0 .. SramSize - 1 |-> UnknownByte]
    /\ ptr = 0 /\ shadow = Forgotten /\ got = {}

\* The host's clock moves on.
ClockTick ==
    /\ steps < MaxSteps
    /\ \E d \in Steps : now' = now + d
    /\ steps' = steps + 1
    /\ UNCHANGED <<chip, open, dev, guest>>

\* i2c_ds3231_start and spi_ds3234_cs(1): latch the clock, test the alarms.
Access ==
    /\ system_time' = now
    /\ regs' = Raised(regs, system_time, now, twelve)
    /\ open' = "new"
    /\ got' = {} /\ startAt' = now
    /\ UNCHANGED <<chip, now, steps, twelve, index, sramAddr, sram, ptr, shadow, ndata>>

Start ==
    /\ chip = "ds3231"
    /\ start' = TRUE
    /\ Access

Select ==
    /\ chip = "ds3234" /\ open = "no"
    /\ UNCHANGED start
    /\ Access

\* STOP only prints, and a chip select that goes away returns at once.
StopOrDeselect ==
    /\ open # "no"
    /\ open' = "no"
    /\ UNCHANGED <<chip, now, steps, dev, guest>>

\* An address alone, at the start of a write.
WriteAddr(a) ==
    /\ chip = "ds3231" /\ open = "new"
    /\ start
    /\ open' = "wr"
    /\ index' = a /\ start' = FALSE
    /\ ptr' = a
    /\ UNCHANGED <<chip, now, steps, system_time, regs, twelve, sramAddr, sram,
                   shadow, got, startAt, ndata>>

WriteRegs(first, d) ==
    LET s == PutAll(chip, [regs |-> regs, twelve |-> twelve], first, d) IN
    /\ ndata + Len(d) <= MaxData
    /\ ndata' = ndata + Len(d)
    /\ regs' = s.regs /\ twelve' = s.twelve
    /\ UNCHANGED <<chip, now, steps, system_time, sramAddr, sram, got, startAt>>

\* Mutant: the pointer stays where the address put it.
WriteDataStays(d) ==
    /\ chip = "ds3231" /\ open = "wr"
    /\ ~start
    /\ WriteRegs(index, d)
    /\ ptr' = (IF ptr = NoPtr THEN NoPtr ELSE RegAt(ptr, Len(d) + 1))
    /\ shadow' = (IF ptr = NoPtr THEN Forgotten ELSE Noted(ptr, d))
    /\ UNCHANGED <<open, start, index>>

\* Data in a call of its own goes to the pointer.
WriteData(d) ==
    /\ chip = "ds3231" /\ open = "wr"
    /\ ~start
    /\ WriteRegs(index, d)
    /\ index' = RegAt(index, Len(d) + 1)
    /\ ptr' = (IF ptr = NoPtr THEN NoPtr ELSE RegAt(ptr, Len(d) + 1))
    /\ shadow' = (IF ptr = NoPtr THEN Forgotten ELSE Noted(ptr, d))
    /\ UNCHANGED <<open, start>>

\* Data in the call that brought the address: the loop counts the address
\* as a byte, and everything goes one register further.
WriteJoined(a, d) ==
    /\ chip = "ds3231" /\ open = "new"
    /\ start
    /\ WriteRegs(a + 1, d)
    /\ index' = RegAt(a + 1, Len(d) + 1)
    /\ open' = "wr" /\ start' = FALSE
    /\ ptr' = NoPtr /\ shadow' = Forgotten

\* Mutant: the clock is read again with register 0, as the comment there has
\* it ("reread clock every time reg 0 is read").
ReadRelatches(n) ==
    LET t == IF \E i \in 1 .. n : RegAt(index, i) = 0 THEN now ELSE system_time IN
    /\ chip = "ds3231" /\ open \in {"new", "rd"}
    /\ open' = "rd"
    /\ index' = RegAt(index, n + 1)
    /\ system_time' = t
    /\ got' = got \cup {<<RegAt(index, i), Value(t, twelve, regs, RegAt(index, i))>> :
                            i \in {j \in 1 .. n : RegAt(index, j) <= 6}}
    /\ ptr' = (IF ptr = NoPtr THEN NoPtr ELSE RegAt(ptr, n + 1))
    /\ UNCHANGED <<chip, now, steps, regs, twelve, start, sramAddr, sram,
                   shadow, startAt, ndata>>

ReadRegs(n) ==
    /\ chip = "ds3231" /\ open \in {"new", "rd"}
    /\ open' = "rd"
    /\ index' = RegAt(index, n + 1)
    /\ got' = got \cup Seen(index, n)
    /\ ptr' = (IF ptr = NoPtr THEN NoPtr ELSE RegAt(ptr, n + 1))
    /\ UNCHANGED <<chip, now, steps, system_time, regs, twelve, start, sramAddr, sram,
                   shadow, startAt, ndata>>

-----------------------------------------------------------------------------
(* spi_ds3234_xfr: a command byte, address and direction, then data. *)
Xfr ==
    /\ chip = "ds3234" /\ open # "no"
    /\ UNCHANGED <<chip, now, steps, open, system_time, index, start, ptr, startAt>>

\* One byte alone reads the register at once; n more read from it on.
XfrRead(a, n) ==
    /\ Xfr
    /\ got' = got \cup Seen(a, IF n = 0 THEN 1 ELSE n)
    /\ UNCHANGED <<regs, twelve, sramAddr, sram, shadow, ndata>>

XfrWrite(a, d) ==
    /\ Xfr
    /\ WriteRegs(a, d)
    /\ shadow' = Noted(a, d)

\* Register 0x18: only the second byte counts.
XfrSramAddr(b) ==
    /\ Xfr
    /\ sramAddr' = b
    /\ UNCHANGED <<regs, twelve, sram, shadow, got, ndata>>

\* Register 0x19: every byte moves the pointer, which steps over the last
\* byte of the memory.
SramNext(a) == (a + 1) % (SramSize - 1)
XfrSramRead ==
    /\ Xfr
    /\ sramAddr' = SramNext(sramAddr)
    /\ UNCHANGED <<regs, twelve, sram, shadow, got, ndata>>
XfrSramWrite(b) ==
    /\ Xfr
    /\ ndata < MaxData
    /\ ndata' = ndata + 1
    /\ sram' = [sram EXCEPT ![sramAddr] = b]
    /\ sramAddr' = SramNext(sramAddr)
    /\ UNCHANGED <<regs, twelve, shadow, got>>

Data == UNION {[1 .. n -> Bytes] : n \in 1 .. MaxLen}
RtcNext ==
    \/ ClockTick \/ Start \/ Select \/ StopOrDeselect
    \/ \E a \in Addrs : WriteAddr(a)
    \/ \E d \in Data : WriteData(d)
    \/ \E a \in Addrs, d \in Data : WriteJoined(a, d) \/ XfrWrite(a, d)
    \/ \E n \in 1 .. MaxLen : ReadRegs(n)
    \/ \E a \in Addrs, n \in 0 .. MaxLen : XfrRead(a, n)
    \/ \E b \in 0 .. SramSize - 1 : XfrSramAddr(b)
    \/ XfrSramRead
    \/ \E b \in Bytes : XfrSramWrite(b)
RtcSpec == RtcInit /\ [][RtcNext]_rtcvars
-----------------------------------------------------------------------------
(* Properties. *)

\* Every variable has its type; a pointer stays inside what it points into,
\* and only the implemented bits of control and status are ever set.
RtcTypeOK ==
    /\ chip \in Chips /\ open \in {"no", "new", "rd", "wr"}
    /\ now \in Nat /\ steps \in 0 .. MaxSteps
    /\ system_time \in 0 .. now /\ startAt \in 0 .. now
    /\ regs \in [Cells -> 0 .. 255] /\ twelve \in BOOLEAN
    /\ regs[14] < 32 /\ regs[Status] % 8 < 4 /\ (regs[Status] \div 16) \in {0, 8}
    /\ index \in 0 .. NREGS - 1 /\ start \in BOOLEAN
    /\ sramAddr \in 0 .. SramSize - 1
    /\ sram \in [0 .. SramSize - 1 -> Bytes \cup {UnknownByte}]
    /\ ptr \in (0 .. NREGS - 1) \cup {NoPtr}
    /\ shadow \in [Cells -> Bytes \cup {UnknownByte}]
    /\ ndata \in 0 .. MaxData
    /\ got \subseteq ((0 .. 6) \X (0 .. 255))

\* The time registers read since an access, in one call or several, while
\* the clock moves on, are those of one instant, the moment of the access:
\* a guest never puts together 11:59 and 12:00.
OneInstant ==
    \A g \in got : \E h12 \in BOOLEAN : g[2] = TimeReg(startAt, h12, g[1])

\* Every stored register holds what the guest last wrote to it, where the
\* guest counts registers from the address it sent, through writes and reads
\* of any length, modulo 19 - as long as it sends the address in a call of
\* its own.
Kept ==
    /\ ptr # NoPtr => (chip = "ds3231" => ptr = index)
    /\ \A c \in Cells \ {Status} :
          shadow[c] # UnknownByte =>
              regs[c] = (IF c = 14 THEN shadow[c] % 32 ELSE shadow[c])

\* The alarms by the table of the READMEs, for the rows in which fields are
\* compared: the fields of the row, as bytes, are what the time registers
\* read at t in the present mode.
FieldsMatch(t, h12, hms, r10) ==
    /\ \A f \in DOMAIN hms : hms[f] % 128 = TimeReg(t, h12, f)
    /\ r10 = UnknownByte \/ DayMatches(r10, t)
Row1Matches(r, t, h12) ==
    /\ ~Has(r[7], 128)
    /\ IF Has(r[8], 128) THEN FieldsMatch(t, h12, [f \in {0} |-> r[7]], UnknownByte)
       ELSE IF Has(r[9], 128) THEN FieldsMatch(t, h12, [f \in 0 .. 1 |-> r[7 + f]], UnknownByte)
       ELSE FieldsMatch(t, h12, [f \in 0 .. 2 |-> r[7 + f]],
                        IF Has(r[10], 128) THEN UnknownByte ELSE r[10])
Row2Matches(r, t, h12) ==
    /\ ~Has(r[11], 128)
    /\ IF Has(r[12], 128) THEN FieldsMatch(t, h12, [f \in {1} |-> r[11]], UnknownByte)
       ELSE FieldsMatch(t, h12, [f \in 1 .. 2 |-> r[10 + f]], Alarm2_DayDate)

\* An access at an instant at which an alarm's row of the table holds raises
\* its flag, in 12 and 24 hour mode: the guest can set an alarm with the
\* bytes it reads from the time registers.
MatchRaises ==
    [][Access => /\ Row1Matches(regs, now, twelve) => Has(regs'[Status], 1)
                 /\ Row2Matches(regs, now, twelve) => Has(regs'[Status], 2)]_rtcvars

\* A raised flag stays until the guest writes a zero to it, and no write
\* raises one.
AlarmsStick ==
    [][\A mask \in {1, 2} :
          /\ ~Has(regs[Status], mask) /\ Has(regs'[Status], mask) => ndata' = ndata
          /\ Has(regs[Status], mask) /\ ~Has(regs'[Status], mask) =>
                /\ ndata' # ndata
                /\ ptr' # NoPtr \/ chip = "ds3234" =>
                      shadow'[Status] # UnknownByte /\ ~Has(shadow'[Status], mask)]_rtcvars

\* The table's other direction: a flag that an access raises is one whose
\* fields match (i2c-ds3231-rtc/README.md:27-34).
OnlyMatchRaises ==
    [][Access => /\ ~Has(regs[Status], 1) /\ Has(regs'[Status], 1) =>
                        Has(regs[7], 128) \/ Row1Matches(regs, now, twelve)
                 /\ ~Has(regs[Status], 2) /\ Has(regs'[Status], 2) =>
                        Has(regs[11], 128) \/ Row2Matches(regs, now, twelve)]_rtcvars
=============================================================================
