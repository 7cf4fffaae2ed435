------------------------------- MODULE Delay -------------------------------
(***************************************************************************)
(* Waiting: the delay command (src/src/cmd/cmd_delay.c), udelay            *)
(* (src/src/delay.c), __udelay and delay_cycles                            *)
(* (src/src/drivers/timer/timer.c).  One step is one read of the counter   *)
(* or one turn of a loop around it; the counter runs on by up to Lag ticks *)
(* between two of them, at RateHz ticks a second.  The code waits for the  *)
(* whole ticks of a microsecond, 102 of 102.4.                             *)
(***************************************************************************)
EXTENDS Integers

CONSTANTS
    LongMax,      \* 2^32: the counter and unsigned long count modulo it
    RateHz,       \* timer_rate: 102400000 ticks a second
    ChunkMax,     \* 0xffff: the ticks of one delay_cycles
    SliceMax,     \* 10*1000*1000: the microseconds of one __udelay
    Kilo,         \* 1000
    Lag,          \* bound: ticks between two reads of the counter
    Amounts       \* bound: what the command is given

\* rate_hz / 1000 / 1000
PerUs == (RateHz \div Kilo) \div Kilo

ASSUME DelayAssumption ==
    /\ {LongMax, RateHz, ChunkMax, SliceMax, Kilo, Lag} \subseteq Nat \ {0}
    /\ SliceMax * PerUs < LongMax
    /\ ChunkMax + Lag < LongMax
    /\ Amounts \subseteq Nat

VARIABLES
    dlAt,         \* "idle", "calls", "slices", "chunks", "poll" or "return"
    calls,        \* calls of udelay the command has still to make
    each,         \* the microseconds of each of them
    usec,         \* usec of udelay
    cycles,       \* cycles of __udelay, without the chunk that runs
    chunk,        \* c
    counter,      \* the count register of the timer
    startCount,   \* start of delay_cycles
    elapsed,      \* history: ticks since the command began
    wanted        \* history: the microseconds of the command

delayVars == <<dlAt, calls, each, usec, cycles, chunk, counter, startCount, elapsed, wanted>>
-----------------------------------------------------------------------------
\* TIME_RESETCNT of timer_init has set the counter to 0.
DelayInit ==
    /\ dlAt = "idle"
    /\ calls = 0 /\ each = 0
    /\ usec = 0 /\ cycles = 0 /\ chunk = 0
    /\ counter = 0 /\ startCount = 0
    /\ elapsed = 0 /\ wanted = 0

\* cmd_delay: -s and -m are loops of udelay of a second or a millisecond, -u is
\* one udelay unless it is 0; -s differs from -m only in the number.
DelayCommand(option, n) ==
    /\ dlAt = "idle"
    /\ dlAt' = "calls"
    /\ IF option = "-m" THEN calls' = n /\ each' = Kilo /\ wanted' = n * Kilo
       ELSE calls' = (IF n = 0 THEN 0 ELSE 1) /\ each' = n /\ wanted' = n
    /\ UNCHANGED <<usec, cycles, chunk, counter, startCount, elapsed>>

NextCall ==
    /\ dlAt = "calls" /\ calls > 0
    /\ calls' = calls - 1
    /\ usec' = each
    /\ dlAt' = "slices"
    /\ UNCHANGED <<each, cycles, chunk, counter, startCount, elapsed, wanted>>

CallsOver ==
    /\ dlAt = "calls" /\ calls = 0
    /\ dlAt' = "return"
    /\ UNCHANGED <<calls, each, usec, cycles, chunk, counter, startCount, elapsed, wanted>>

\* A mutation: all of usec at once.
SliceAll(us) == us
\* kv: what one pass of udelay waits for.
Slice(us) == IF us > SliceMax THEN SliceMax ELSE us

\* usec -= kv, and __udelay(kv): the product is an unsigned long, and at least
\* one tick is waited for.
NextSlice ==
    LET product == (Slice(usec) * PerUs) % LongMax
    IN  /\ dlAt = "slices" /\ usec > 0
        /\ usec' = usec - Slice(usec)
        /\ cycles' = IF product = 0 THEN 1 ELSE product
        /\ dlAt' = "chunks"
        /\ UNCHANGED <<calls, each, chunk, counter, startCount, elapsed, wanted>>

SlicesOver ==
    /\ dlAt = "slices" /\ usec = 0
    /\ dlAt' = "calls"
    /\ UNCHANGED <<calls, each, usec, cycles, chunk, counter, startCount, elapsed, wanted>>

\* c, and the reset of the counter in delay_cycles; the first read comes some
\* ticks later.
NextChunk(late) ==
    LET c == IF cycles > ChunkMax THEN ChunkMax ELSE cycles
    IN  /\ dlAt = "chunks" /\ cycles > 0
        /\ chunk' = c
        /\ cycles' = cycles - c
        /\ counter' = late /\ startCount' = late
        /\ elapsed' = elapsed + late
        /\ dlAt' = "poll"
        /\ UNCHANGED <<calls, each, usec, wanted>>

ChunksOver ==
    /\ dlAt = "chunks" /\ cycles = 0
    /\ dlAt' = "slices"
    /\ UNCHANGED <<calls, each, usec, cycles, chunk, counter, startCount, elapsed, wanted>>

\* now - start < cycles
Waiting == (counter + LongMax - startCount) % LongMax < chunk

PollTimer(late) ==
    /\ dlAt = "poll"
    /\ Waiting
    /\ counter' = (counter + late) % LongMax
    /\ elapsed' = elapsed + late
    /\ UNCHANGED <<dlAt, calls, each, usec, cycles, chunk, startCount, wanted>>

ChunkOver ==
    /\ dlAt = "poll"
    /\ ~Waiting
    /\ dlAt' = "chunks"
    /\ UNCHANGED <<calls, each, usec, cycles, chunk, counter, startCount, elapsed, wanted>>

DelayReturn ==
    /\ dlAt = "return"
    /\ dlAt' = "idle"
    /\ calls' = 0 /\ each' = 0 /\ usec' = 0 /\ cycles' = 0 /\ chunk' = 0
    /\ counter' = 0 /\ startCount' = 0 /\ elapsed' = 0 /\ wanted' = 0

\* A read of the counter takes a tick at least.
DelayRun ==
    \/ NextCall \/ CallsOver \/ NextSlice \/ SlicesOver
    \/ ChunksOver \/ ChunkOver \/ DelayReturn
    \/ \E late \in 1 .. Lag : NextChunk(late) \/ PollTimer(late)

DelayNext == (\E o \in {"-m", "-u"}, n \in Amounts : DelayCommand(o, n)) \/ DelayRun

DelaySpec == DelayInit /\ [][DelayNext]_delayVars /\ WF_delayVars(DelayRun)
-----------------------------------------------------------------------------
(* Properties.                                                             *)
DelayTypeOK ==
    /\ dlAt \in {"idle", "calls", "slices", "chunks", "poll", "return"}
    /\ {calls, each, usec, elapsed, wanted} \subseteq Nat
    /\ {cycles, counter, startCount} \subseteq 0 .. LongMax - 1
    /\ chunk \in 0 .. ChunkMax

\* The ticks of a second that PerUs does not count: 400000.
Uncounted == RateHz % (Kilo * Kilo)

\* "delay x useconds" (timer.c:52), at the rate the counter has: a delay ends no
\* earlier than the ticks say that PerUs leaves out of every microsecond, after
\* 0.996 s for a second; a rate of whole megahertz leaves out none.  Nothing else
\* is lost, although the product of microseconds and ticks wraps beyond SliceMax
\* and the counter starts again with every chunk.
EarlyByTruncationOnly ==
    dlAt = "return" => elapsed * (Kilo * Kilo) >= wanted * (RateHz - Uncounted)
=============================================================================
