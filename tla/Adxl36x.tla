------------------------------ MODULE Adxl36x ------------------------------
(***************************************************************************)
(* The accelerometer of examples/i2c-adxl36x: its sample FIFO, the         *)
(* registers that steer it, and its two threads.  The timer thread waits   *)
(* in epoll without the lock and then samples with it; the main loop's     *)
(* thread runs the callbacks of the I2C bus, each with the lock.  A step   *)
(* is thus a callback, or what a thread does between waits.                *)
(*                                                                         *)
(* Callbacks take one byte each here; one of n bytes is n of these with    *)
(* none of another thread's in between.  Registers that do nothing to the  *)
(* FIFO or the timer are one register, DEVID, or lie between those named.  *)
(***************************************************************************)
EXTENDS Naturals, Sequences

CONSTANTS
    FIFO_SIZE,  \* entries of the FIFO (2048)
    CtrMod,     \* its pointers and counters count modulo this (2^32)
    Selects,    \* channel selections the driver uses
    Formats,    \* entry formats the driver uses, in bits: 8, 12, 16
    Levels,     \* watermarks the driver uses
    MaxTicks,   \* bound: timer ticks
    MaxWrites   \* bound: bytes the driver writes

(* The entries one sample makes, by channel selection.  Entry "A", of the   *)
(* ADC that is not there, is stored as 0.                                   *)
Channels ==
    [XYZ |-> <<"X", "Y", "Z">>, X |-> <<"X">>, Y |-> <<"Y">>, Z |-> <<"Z">>,
     XYZT |-> <<"X", "Y", "Z", "T">>, XT |-> <<"X", "T">>, YT |-> <<"Y", "T">>,
     ZT |-> <<"Z", "T">>, XYZA |-> <<"X", "Y", "Z", "A">>, XA |-> <<"X", "A">>,
     YA |-> <<"Y", "A">>, ZA |-> <<"Z", "A">>]

ASSUME Adxl36xAssumption ==
    /\ FIFO_SIZE \in Nat \ {0} /\ CtrMod \in Nat
    /\ CtrMod % FIFO_SIZE = 0 /\ CtrMod > FIFO_SIZE
    /\ Selects \subseteq DOMAIN Channels /\ Formats \subseteq {8, 12, 16}
    /\ Levels \subseteq Nat /\ MaxTicks \in Nat /\ MaxWrites \in Nat

VARIABLES
    reg,      \* the registers: measure mode, timer frequency set, FIFO mode,
              \* channel selection, watermark level, entry format
    addr,     \* register pointer, in Regs
    count,    \* the pointer was written since the last STOP
    fifo,     \* slots, wpt, rpt, fifo_count, sample_count, sample_size, and
              \* read_count modulo 6
    status,   \* bits of STATUS
    armed,    \* timer 0 is set and watched
    expired,  \* it has run out since it was set
    pending,  \* the timer thread holds its event, from epoll_wait
    run,
    th,       \* where each thread is
    \* history
    ticks,    \* timer events processed
    put,      \* entries stored
    out,      \* nibbles of entries read
    steady,   \* no format change since the first entry, no odd pair read
    narrow,   \* 8-bit entries of one channel selection since the first
    nwrites

vars == <<reg, addr, count, fifo, status, armed, expired, pending, run, th,
          ticks, put, out, steady, narrow, nwrites>>
timervars == <<armed, expired, pending>>
threadvars == <<run, th>>
history == <<put, out, steady, narrow>>

(* Registers by address.                                                    *)
Regs == <<"DEVID", "STATUS", "FIFO_DATA", "SOFT_RESET", "FIFO_CONTROL",
          "FIFO_SAMPLES", "FILTER_CTL", "POWER_CTL", "ADC_CTL", "END">>
At(name) == Regs[addr] = name

Entries(n, select) == [i \in DOMAIN Channels[select] |-> <<n, Channels[select][i]>>]

Init ==
    /\ reg = [measure |-> FALSE, period |-> FALSE, mode |-> 0, select |-> "XYZ",
              level |-> 128, format |-> 16]
    /\ addr = 1
    /\ count = FALSE
    /\ fifo = [slots |-> [i \in 0..(FIFO_SIZE - 1) |-> <<0, "A">>],
               wpt |-> 0, rpt |-> 0, count |-> 0, samples |-> 0, size |-> 0, phase |-> 0]
    /\ status = {}
    /\ armed = FALSE /\ expired = FALSE /\ pending = FALSE
    /\ run = TRUE
    /\ th = [timer |-> "wait", cm |-> "loop", main |-> "wait"]
    /\ ticks = 0 /\ put = <<>> /\ out = <<>> /\ steady = TRUE /\ narrow = TRUE
    /\ nwrites = 0

-----------------------------------------------------------------------------
(* adi_adxl36x_fifo_sample.                                                 *)
Room == FIFO_SIZE - ((fifo.wpt + CtrMod - fifo.rpt) % CtrMod)
Sample == Entries(ticks + 1, reg.select)

(* Mutant: only an empty slot is asked for, not one for each channel.       *)
SampleFitsOne == Room >= 1
SampleFits == Room >= Len(Sample)

Marked(samples) == IF samples >= reg.level THEN {"WATER_MARK"} ELSE {}

Stored(f, es) ==
    [f EXCEPT !.slots = [i \in DOMAIN @ |->
                           IF \E k \in DOMAIN es : (f.wpt + k - 1) % FIFO_SIZE = i
                             THEN es[CHOOSE k \in DOMAIN es : (f.wpt + k - 1) % FIFO_SIZE = i]
                             ELSE @[i]],
              !.wpt = (@ + Len(es)) % CtrMod,
              !.count = @ + Len(es),
              !.samples = (@ + 1) % CtrMod,
              !.size = Len(es)]

SampleStore ==
    /\ reg.mode \in {1, 2}
    /\ SampleFits
    /\ fifo' = Stored(fifo, Sample)
    /\ status' = status \cup Marked(fifo'.samples)
                   \cup (IF reg.measure THEN {"DATA_READY"} ELSE {})
    /\ put' = put \o Sample
    /\ narrow' = (narrow /\ reg.format = 8 /\ fifo.size \in {0, Len(Sample)})
    /\ UNCHANGED <<out, steady>>

(* A full FIFO in mode 1 is an overrun; too little room is none, and mode 3 *)
(* waits for a trigger that nothing sets.                                   *)
SampleNone ==
    /\ reg.mode \in {0, 3} \/ ~SampleFits
    /\ status' = status \cup (IF reg.measure THEN {"DATA_READY"} ELSE {})
                   \cup (IF reg.mode = 1 /\ Room = 0 THEN {"OVER_RUN"} ELSE {})
    /\ UNCHANGED <<fifo, history>>

-----------------------------------------------------------------------------
(* The timer.  It is set to its period, which is zero until FILTER_CTL has  *)
(* been written: then it does not run.                                      *)
TimerStart == armed' = reg'.period /\ expired' = FALSE
TimerStop == armed' = FALSE /\ expired' = FALSE

Expire ==
    /\ armed /\ ~expired
    /\ ticks < MaxTicks
    /\ expired' = TRUE
    /\ UNCHANGED <<reg, addr, count, fifo, status, armed, pending, threadvars, ticks,
                   history, nwrites>>

(* Mutant: epoll_wait has no time limit.                                    *)
TimerWaitLong ==
    /\ th.timer = "wait"
    /\ expired
    /\ th' = [th EXCEPT !.timer = "lock"]
    /\ pending' = TRUE
    /\ UNCHANGED <<reg, addr, count, fifo, status, armed, expired, run, ticks, history, nwrites>>

(* epoll_wait, with an event or without one after its time limit.           *)
TimerWait ==
    /\ th.timer = "wait"
    /\ IF run
         THEN th' = [th EXCEPT !.timer = "lock"] /\ pending' = expired
         ELSE th' = [th EXCEPT !.timer = "done"] /\ UNCHANGED pending
    /\ UNCHANGED <<reg, addr, count, fifo, status, armed, expired, run, ticks, history, nwrites>>

(* adi_adxl36x_comp_cb of timer 0: it stops the timer, samples, and sets it *)
(* again, in standby too.                                                   *)
Tick ==
    /\ pending' = FALSE
    /\ ticks' = ticks + 1
    /\ TimerStart
    /\ SampleStore \/ SampleNone

(* With the lock: the event is processed, though a write may have stopped   *)
(* the timer since epoll_wait.                                              *)
TimerProcess ==
    /\ th.timer = "lock"
    /\ UNCHANGED <<reg, addr, count, run, nwrites>>
    /\ IF run
         THEN /\ th' = [th EXCEPT !.timer = "wait"]
              /\ IF pending THEN Tick
                 ELSE UNCHANGED <<fifo, status, timervars, ticks, history>>
         ELSE /\ th' = [th EXCEPT !.timer = "done"]
              /\ UNCHANGED <<fifo, status, timervars, ticks, history>>

-----------------------------------------------------------------------------
(* The I2C callbacks, in the main loop's thread.                            *)
Callback == th.cm = "loop" /\ run

Stop ==
    /\ Callback
    /\ count' = FALSE
    /\ addr' = 1
    /\ UNCHANGED <<reg, fifo, status, timervars, threadvars, ticks, history, nwrites>>

(* What a byte does to the registers, by the pointer.                       *)
Written(name) ==
    CASE name = "FIFO_CONTROL" -> {[reg EXCEPT !.mode = m, !.select = s] : m \in 0..3, s \in Selects}
      [] name = "FIFO_SAMPLES" -> {[reg EXCEPT !.level = l] : l \in Levels}
      [] name = "FILTER_CTL"   -> {[reg EXCEPT !.period = TRUE]}
      [] name = "POWER_CTL"    -> {[reg EXCEPT !.measure = m] : m \in BOOLEAN}
      [] name = "ADC_CTL"      -> {[reg EXCEPT !.format = f] : f \in Formats}
      [] OTHER                 -> {reg}

Advanced == IF addr = Len(Regs) THEN addr ELSE addr + 1

(* The timer stops for the write and runs on in measure mode.               *)
Restart == IF reg'.measure THEN TimerStart ELSE TimerStop

Write ==
    /\ Callback
    /\ nwrites < MaxWrites
    /\ nwrites' = nwrites + 1
    /\ IF count
         THEN /\ reg' \in Written(Regs[addr])
              /\ addr' = Advanced
              /\ UNCHANGED count
         ELSE /\ addr' \in 1..(Len(Regs) - 1)
              /\ count' = TRUE
              /\ UNCHANGED reg
    /\ Restart
    /\ steady' = (steady /\ (reg'.format = reg.format \/ put = <<>>))
    /\ UNCHANGED <<fifo, status, pending, threadvars, ticks, put, out, narrow>>

(* A read goes on to the next register, but stays at FIFO_DATA and never    *)
(* comes to it.                                                             *)
ReadAdvance ==
    addr' = IF ~count \/ At("FIFO_DATA") THEN addr
            ELSE IF Regs[Advanced] = "FIFO_DATA" THEN addr + 2
            ELSE Advanced

ReadStatus ==
    /\ At("STATUS")
    /\ status' = status \ {"DATA_READY", "WATER_MARK", "OVER_RUN"}
    /\ UNCHANGED <<fifo, history>>

(* The nibbles of the byte read at FIFO_DATA, the most significant first,   *)
(* and whether it is the last of its entry.  The second byte of a 12-bit    *)
(* pair takes half of either entry.                                         *)
Slot(k) == fifo.slots[(fifo.rpt + k) % FIFO_SIZE]
Byte ==
    CASE reg.format = 8  -> [nibbles |-> <<<<Slot(0), 1>>, <<Slot(0), 2>>>>, pop |-> TRUE]
      [] reg.format = 12 ->
           (CASE fifo.phase % 3 = 0 -> [nibbles |-> <<<<Slot(0), 1>>, <<Slot(0), 2>>>>, pop |-> FALSE]
              [] fifo.phase % 3 = 1 -> [nibbles |-> <<<<Slot(0), 3>>, <<Slot(1), 1>>>>, pop |-> TRUE]
              [] OTHER              -> [nibbles |-> <<<<Slot(0), 2>>, <<Slot(0), 3>>>>, pop |-> TRUE])
      [] OTHER ->
           (IF fifo.phase % 2 = 0
              THEN [nibbles |-> <<<<Slot(0), 1>>, <<Slot(0), 2>>>>, pop |-> FALSE]
              ELSE [nibbles |-> <<<<Slot(0), 3>>, <<Slot(0), 4>>>>, pop |-> TRUE])

(* Mutant: the pointer moves on, the count of entries does not.             *)
PoppedUncounted(f) == [f EXCEPT !.rpt = (@ + 1) % CtrMod]
Popped(f) == [f EXCEPT !.rpt = (@ + 1) % CtrMod, !.count = @ - 1]


(* Mutant: the bytes of an entry are not told apart.                        *)
CountedUnphased(f) ==
    [f EXCEPT !.samples = IF f.count % f.size = 0 THEN (@ + CtrMod - 1) % CtrMod ELSE @]

(* sample_count goes down whenever a whole number of samples is left, so    *)
(* twice for a sample of two-byte entries.                                  *)
Counted(f) ==
    [f EXCEPT !.samples = IF f.count % f.size = 0 THEN (@ + CtrMod - 1) % CtrMod ELSE @,
              !.phase = (@ + 1) % 6]

ReadFifo ==
    /\ At("FIFO_DATA")
    /\ fifo.count > 0
    /\ fifo' = Counted(IF Byte.pop THEN Popped(fifo) ELSE fifo)
    /\ out' = out \o Byte.nibbles
    /\ steady' = (steady /\ ~(reg.format = 12 /\ fifo.phase % 3 = 1 /\ fifo.count = 1))
    /\ UNCHANGED <<status, put, narrow>>

(* Any other register, or an empty FIFO, whose byte is left as it was.      *)
ReadPlain ==
    /\ ~At("STATUS") /\ ~(At("FIFO_DATA") /\ fifo.count > 0)
    /\ UNCHANGED <<fifo, status, history>>

Read ==
    /\ Callback
    /\ ReadAdvance
    /\ ReadStatus \/ ReadFifo \/ ReadPlain
    /\ UNCHANGED <<reg, count, timervars, threadvars, ticks, nwrites>>

-----------------------------------------------------------------------------
(* The connection is lost: the main loop's thread ends the program.         *)
CmLost ==
    /\ Callback
    /\ run' = FALSE
    /\ th' = [th EXCEPT !.cm = "done"]
    /\ UNCHANGED <<reg, addr, count, fifo, status, timervars, ticks, history, nwrites>>

(* main: woken from its wait, it joins both threads.                        *)
MainExit ==
    /\ th.main = "wait" /\ ~run /\ th.timer = "done" /\ th.cm = "done"
    /\ th' = [th EXCEPT !.main = "done"]
    /\ UNCHANGED <<reg, addr, count, fifo, status, timervars, run, ticks, history, nwrites>>

TimerThread == TimerWait \/ TimerProcess
Next == Expire \/ TimerThread \/ Stop \/ Write \/ Read \/ CmLost \/ MainExit

(* Time goes on, and so do the threads; the driver and the VM need not.     *)
Spec ==
    /\ Init /\ [][Next]_vars
    /\ WF_vars(Expire) /\ WF_vars(TimerThread) /\ WF_vars(MainExit)
-----------------------------------------------------------------------------
Entry == (0..MaxTicks) \X {"X", "Y", "Z", "T", "A"}

(* Every variable has its type; what is unread has a sample size, so that   *)
(* no read divides by zero.                                                 *)
TypeOK ==
    /\ reg \in [measure : BOOLEAN, period : BOOLEAN, mode : 0..3,
                select : DOMAIN Channels, level : Nat, format : {8, 12, 16}]
    /\ addr \in DOMAIN Regs /\ count \in BOOLEAN
    /\ fifo \in [slots : [0..(FIFO_SIZE - 1) -> Entry],
                 wpt : 0..(CtrMod - 1), rpt : 0..(CtrMod - 1), count : 0..FIFO_SIZE,
                 samples : 0..(CtrMod - 1), size : 0..4, phase : 0..5]
    /\ fifo.count > 0 => fifo.size > 0
    /\ status \subseteq {"DATA_READY", "WATER_MARK", "OVER_RUN"}
    /\ {armed, expired, pending, run} \subseteq BOOLEAN
    /\ th \in [timer : {"wait", "lock", "done"}, cm : {"loop", "done"}, main : {"wait", "done"}]

(* The count the watermark goes by is the number of samples not wholly      *)
(* read, for 8-bit entries.                                                 *)
SamplesCounted ==
    narrow /\ fifo.size > 0 /\ reg.format = 8 /\ steady =>
        fifo.samples = (fifo.count + fifo.size - 1) \div fifo.size

(* The ring holds the entries stored last, whole and in order, as many as   *)
(* fifo_count says, whatever the format and the order of ticks and reads:   *)
(* none is overwritten before it is read, and the watermark's count is right. *)
FifoIsWindow ==
    /\ SamplesCounted
    /\ fifo.count = (fifo.wpt + CtrMod - fifo.rpt) % CtrMod
    /\ fifo.count <= Len(put)
    /\ \A k \in 1..fifo.count : Slot(k - 1) = put[Len(put) - fifo.count + k]

(* The driver reads the entries' nibbles in order, none lost and none       *)
(* twice, in each of the formats: if it keeps to one, and reads 12-bit      *)
(* entries in pairs.                                                        *)
Width == reg.format \div 4
Nibble(i) == <<put[((i - 1) \div Width) + 1], ((i - 1) % Width) + 1>>
NibblesInOrder ==
    steady =>
      /\ Len(out) \div Width = Len(put) - fifo.count
      /\ \A i \in DOMAIN out : out[i] = Nibble(i)

(* In measure mode samples go on: no write and no tick leaves the timer     *)
(* off.                                                                     *)
KeepsSampling ==
    \A n \in 0..(MaxTicks - 1) :
        ticks = n /\ reg.measure /\ reg.period ~> ticks > n \/ ~reg.measure \/ ~run

(* When the connection is lost both threads end and main with them, though  *)
(* the timer thread may be asleep with nothing to wake it.                  *)
Exits == ~run ~> th.main = "done"

(* Both: the threads neither stop early nor stay behind.                    *)
Progress == KeepsSampling /\ Exits
=============================================================================
