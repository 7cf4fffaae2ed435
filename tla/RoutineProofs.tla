---------------------------- MODULE RoutineProofs ---------------------------
(***************************************************************************)
(* Proofs about the routines at the bottom of the program, each of its own *)
(* specification: waiting (Delay), the start (Startup), pin multiplexing   *)
(* (Iomux), the serial port (Uart), the clock tree (Clock), the memory     *)
(* test (MemTest) and the bytes of a packet (KermitPacket); then about all *)
(* of them in the order TLC looks at them (MCRoutines).                    *)
(***************************************************************************)
EXTENDS MCRoutines, ArithmeticProofs

-----------------------------------------------------------------------------
(* Delay.                                                                  *)

\* What the two reads of the counter differ by.
Since(now, start) == (now + LongMax - start) % LongMax

\* The ticks of the chunk that runs which have not passed.
ChunkLeft(where, c, since) == IF where = "poll" THEN c - since ELSE 0

\* The ticks of the slices and calls to come.
ToCome(n, us, rest) == (n * us + rest) * PerUs

\* The ticks that have passed and those to wait make up what was asked for.
Enough == elapsed + (cycles + ChunkLeft(dlAt, chunk, Since(counter, startCount)) + ToCome(calls, each, usec)) >= wanted * PerUs

\* The inductive invariant: the ticks that have passed and those the loops have
\* still to wait make up what was asked for, and the counter does not come
\* round during a chunk.
Owed ==
    /\ Enough
    /\ dlAt \in {"idle", "calls", "slices", "return"} => cycles = 0
    /\ dlAt \in {"idle", "calls", "return"} => usec = 0
    /\ dlAt = "return" => calls = 0
    /\ dlAt = "poll" => Since(counter, startCount) < chunk + Lag

DelayInv == DelayTypeOK /\ Owed

\* The two divisions of the rate make one.
LEMMA NestedDivision ==
  ASSUME NEW x \in Nat, NEW k \in Nat \ {0}
  PROVE  /\ (x \div k) \div k \in Nat
         /\ ((x \div k) \div k) * (k * k) = x - (x % (k * k))
<1>1. PICK q \in Nat, r \in 0 .. k - 1 : x \div k = q /\ x = q * k + r
  <2>1. x \div k \in Nat /\ x % k \in 0 .. k - 1 /\ x = (x \div k) * k + (x % k)
    BY DivModNat
  <2>2. QED
    BY <2>1, Zenon
<1>2. PICK p \in Nat, s \in 0 .. k - 1 : q \div k = p /\ q = p * k + s
  <2>1. q \div k \in Nat /\ q % k \in 0 .. k - 1 /\ q = (q \div k) * k + (q % k)
    BY DivModNat
  <2>2. QED
    BY <2>1, Zenon
<1>3. PICK m \in Nat \ {0} : m = k * k
  OBVIOUS
<1>4. PICK t \in 0 .. m - 1 : t = s * k + r
  <2>1. s * k + k <= k * k
    BY ProductStep
  <2>2. s * k \in Nat
    OBVIOUS
  <2>3. s * k + r \in 0 .. m - 1
    BY <1>3, <2>1, <2>2
  <2>4. QED
    BY <2>3
<1>5. x = p * m + t
  <2>1. (p * k + s) * k = p * (k * k) + s * k
    OBVIOUS
  <2>2. QED
    BY <1>1, <1>2, <1>3, <1>4, <2>1
<1>6. (p * m + t) % m = t
  BY DivModUnique
<1>7. p * m = x - t
  BY <1>5
<1>8. (x \div k) \div k = p /\ x % (k * k) = t
  BY <1>1, <1>2, <1>3, <1>5, <1>6, Zenon
<1>9. QED
  BY <1>3, <1>7, <1>8, Zenon

LEMMA WholeTicks ==
  /\ PerUs \in Nat
  /\ PerUs * (Kilo * Kilo) = RateHz - Uncounted
<1>1. RateHz \in Nat /\ Kilo \in Nat \ {0}
  BY DelayAssumption
<1>2. /\ (RateHz \div Kilo) \div Kilo \in Nat
      /\ ((RateHz \div Kilo) \div Kilo) * (Kilo * Kilo) = RateHz - (RateHz % (Kilo * Kilo))
  BY <1>1, NestedDivision
<1>3. QED
  BY <1>2, Zenon DEF PerUs, Uncounted

LEMMA SinceNext ==
  ASSUME NEW n \in Nat \ {0}, NEW c \in 0 .. n - 1, NEW s \in 0 .. n - 1, NEW late \in Nat,
         ((c + n - s) % n) + late < n
  PROVE  (((c + late) % n) + n - s) % n = ((c + n - s) % n) + late
<1> DEFINE x == (c + n - s) % n
           y == (c + late) % n
           p == (c + n - s) \div n
           q == (c + late) \div n
<1>0. c + n - s \in Int /\ c + late \in Int
  OBVIOUS
<1>1. /\ x \in 0 .. n - 1 /\ y \in 0 .. n - 1 /\ p \in Int /\ q \in Int
      /\ c + n - s = p * n + x /\ c + late = q * n + y
  BY <1>0, DivMod
<1> HIDE DEF x, y, p, q
<1>2. y + n - s = (p - q) * n + (x + late)
  BY <1>1
<1>3. x + late \in 0 .. n - 1
  BY <1>1 DEF x
<1>4. (y + n - s) % n = x + late
  BY <1>1, <1>2, <1>3, DivModUnique
<1>5. QED
  BY <1>4 DEF x, y

LEMMA SinceType ==
  ASSUME DelayTypeOK
  PROVE  Since(counter, startCount) \in 0 .. LongMax - 1
<1>1. counter \in Int /\ startCount \in Int /\ LongMax \in Nat \ {0}
  BY DelayAssumption DEF DelayTypeOK
<1>2. QED
  BY <1>1, DivMod DEF Since

LEMMA DelayStep ==
  ASSUME DelayInv, [DelayNext]_delayVars
  PROVE  DelayInv'
<1>0. /\ LongMax \in Nat \ {0} /\ PerUs \in Nat /\ ChunkMax \in Nat \ {0}
      /\ SliceMax \in Nat \ {0} /\ Kilo \in Nat \ {0} /\ Lag \in Nat \ {0}
      /\ SliceMax * PerUs < LongMax /\ ChunkMax + Lag < LongMax /\ Amounts \subseteq Nat
  BY DelayAssumption, WholeTicks
<1>t. /\ dlAt \in {"idle", "calls", "slices", "chunks", "poll", "return"}
      /\ calls \in Nat /\ each \in Nat /\ usec \in Nat /\ elapsed \in Nat /\ wanted \in Nat
      /\ cycles \in 0 .. LongMax - 1 /\ counter \in 0 .. LongMax - 1
      /\ startCount \in 0 .. LongMax - 1 /\ chunk \in 0 .. ChunkMax
  BY DEF DelayInv, DelayTypeOK
<1>s. Since(counter, startCount) \in 0 .. LongMax - 1
  BY SinceType DEF DelayInv
<1>p. ToCome(calls, each, usec) \in Nat
  <2>1. calls * each \in Nat
    BY <1>t
  <2>2. calls * each + usec \in Nat
    BY <2>1, <1>t
  <2>3. QED
    BY <2>2, <1>0 DEF ToCome
<1>1. ASSUME NEW o \in {"-m", "-u"}, NEW n \in Amounts, DelayCommand(o, n)
      PROVE  DelayInv'
  <2>1. n \in Nat
    BY <1>0
  <2>2. dlAt = "idle" /\ cycles = 0 /\ usec = 0
    BY <1>1 DEF DelayCommand, DelayInv, Owed
  <2>3. CASE o = "-m"
    <3>1. n * Kilo \in Nat
      BY <1>0, <2>1
    <3>2. (n * Kilo + 0) * PerUs = (n * Kilo) * PerUs /\ (n * Kilo) * PerUs \in Nat
      BY <1>0, <3>1
    <3>3. QED
      BY <1>1, <1>0, <1>t, <2>1, <2>2, <2>3, <3>1, <3>2
      DEF DelayCommand, DelayInv, DelayTypeOK, Owed, Enough, ChunkLeft, ToCome
  <2>4. CASE o # "-m" /\ n = 0
    BY <1>1, <1>0, <1>t, <2>1, <2>2, <2>4
    DEF DelayCommand, DelayInv, DelayTypeOK, Owed, Enough, ChunkLeft, ToCome
  <2>5. CASE o # "-m" /\ n # 0
    <3>1. (1 * n + 0) * PerUs = n * PerUs /\ n * PerUs \in Nat
      BY <1>0, <2>1
    <3>2. QED
      BY <1>1, <1>0, <1>t, <2>1, <2>2, <2>5, <3>1
      DEF DelayCommand, DelayInv, DelayTypeOK, Owed, Enough, ChunkLeft, ToCome
  <2>6. QED
    BY <2>3, <2>4, <2>5
<1>2. CASE NextCall
  <2>1. calls' * each' + usec' = calls * each + usec
    BY <1>2, <1>t DEF NextCall, DelayInv, Owed
  <2>2. QED
    BY <1>2, <1>0, <1>t, <2>1 DEF NextCall, DelayInv, DelayTypeOK, Owed, Enough, ChunkLeft, ToCome
<1>3. CASE CallsOver
  BY <1>3, <1>0, <1>t DEF CallsOver, DelayInv, DelayTypeOK, Owed, Enough, ChunkLeft, ToCome
<1>4. CASE NextSlice
  <2>1. Slice(usec) \in 0 .. usec /\ Slice(usec) <= SliceMax
    BY <1>t, <1>0 DEF Slice
  <2>2. Slice(usec) * PerUs \in 0 .. LongMax - 1
    <3>1. Slice(usec) * PerUs <= SliceMax * PerUs
      BY <2>1, <1>0, <1>t, ProductMonotonic
    <3>2. QED
      BY <3>1, <2>1, <1>0, <1>t
  <2>3. (Slice(usec) * PerUs) % LongMax = Slice(usec) * PerUs
    BY <2>2, <1>0
  <2>4. cycles' >= Slice(usec) * PerUs /\ cycles' \in 0 .. LongMax - 1
    BY <1>4, <1>0, <2>2, <2>3 DEF NextSlice
  <2>5. (calls * each + usec) * PerUs = (calls' * each' + usec') * PerUs + Slice(usec) * PerUs
    BY <1>4, <1>0, <1>t, <2>1, <1>p DEF NextSlice
  <2>6. usec' \in Nat
    BY <1>4, <1>t, <2>1 DEF NextSlice
  <2>7. QED
    BY <1>4, <1>0, <1>t, <2>2, <2>4, <2>5, <2>6 DEF NextSlice, DelayInv, DelayTypeOK, Owed, Enough, ChunkLeft, ToCome
<1>5. CASE SlicesOver
  BY <1>5, <1>0, <1>t DEF SlicesOver, DelayInv, DelayTypeOK, Owed, Enough, ChunkLeft, ToCome
<1>6. ASSUME NEW late \in 1 .. Lag, NextChunk(late)
      PROVE  DelayInv'
  <2> DEFINE c == IF cycles > ChunkMax THEN ChunkMax ELSE cycles
  <2>1. c \in 0 .. ChunkMax /\ cycles - c \in 0 .. LongMax - 1 /\ late \in 0 .. LongMax - 1
    BY <1>0, <1>t
  <2>2. (late + LongMax - late) % LongMax = 0
    <3>1. late + LongMax - late = 1 * LongMax + 0 /\ 0 \in 0 .. LongMax - 1
      BY <1>0
    <3>2. QED
      BY <1>0, <3>1, DivModUnique
  <2>3. /\ chunk' = c /\ cycles' = cycles - c /\ counter' = late /\ startCount' = late
        /\ elapsed' = elapsed + late /\ dlAt' = "poll" /\ dlAt = "chunks"
        /\ UNCHANGED <<calls, each, usec, wanted>>
    BY <1>6 DEF NextChunk
  <2> HIDE DEF c
  <2>4. elapsed + (cycles + ToCome(calls, each, usec)) >= wanted * PerUs
    BY <2>3, <1>t, <1>p, <1>0 DEF DelayInv, Owed, Enough, ChunkLeft
  <2>5. (elapsed + late) + ((cycles - c) + c + ToCome(calls, each, usec)) >= wanted * PerUs
    <3> DEFINE w == wanted * PerUs
    <3>1. w \in Nat
      BY <1>0, <1>t
    <3> HIDE DEF w
    <3>2. elapsed + (cycles + ToCome(calls, each, usec)) >= w
      BY <2>4 DEF w
    <3>3. (elapsed + late) + ((cycles - c) + c + ToCome(calls, each, usec)) >= w
      BY <1>0, <1>t, <1>p, <2>1, <3>1, <3>2
    <3>4. QED
      BY <3>3 DEF w
  <2>6. c - 0 = c /\ 0 < c + Lag
    BY <1>0, <2>1
  <2>7. Enough'
    BY <2>2, <2>3, <2>5, <2>6 DEF Enough, ChunkLeft, Since, ToCome
  <2>8. DelayTypeOK'
    BY <1>0, <1>t, <2>1, <2>3 DEF DelayTypeOK
  <2>9. QED
    BY <2>2, <2>3, <2>6, <2>7, <2>8 DEF DelayInv, Owed, Since
<1>7. ASSUME NEW late \in 1 .. Lag, PollTimer(late)
      PROVE  DelayInv'
  <2>1. Since(counter, startCount) < chunk
    BY <1>7 DEF PollTimer, Waiting, Since
  <2>2. Since(counter, startCount) + late < LongMax
    BY <2>1, <1>s, <1>t, <1>0
  <2>3. /\ counter' = (counter + late) % LongMax /\ startCount' = startCount
        /\ elapsed' = elapsed + late /\ dlAt' = "poll" /\ chunk' = chunk /\ dlAt = "poll"
    BY <1>7 DEF PollTimer
  <2>4. Since(counter', startCount') = Since(counter, startCount) + late
    <3>1. Since(counter', startCount') = (((counter + late) % LongMax) + LongMax - startCount) % LongMax
      BY <2>3 DEF Since
    <3>2. late \in Nat
      OBVIOUS
    <3>3. QED
      BY <3>1, <3>2, <2>2, <1>t, <1>0, SinceNext DEF Since
  <2>5. counter' \in 0 .. LongMax - 1
    BY <2>3, <1>t, <1>0
  <2>6. ChunkLeft(dlAt', chunk', Since(counter', startCount')) + late = ChunkLeft(dlAt, chunk, Since(counter, startCount))
    BY <2>3, <2>4, <1>s, <1>t, <1>0 DEF ChunkLeft
  <2>7. ChunkLeft(dlAt, chunk, Since(counter, startCount)) \in Int /\ ChunkLeft(dlAt', chunk', Since(counter', startCount')) \in Int
    BY <2>3, <2>4, <1>s, <1>t, <1>0 DEF ChunkLeft
  <2>8. ToCome(calls', each', usec') = ToCome(calls, each, usec) /\ cycles' = cycles /\ wanted' = wanted
    BY <1>7 DEF PollTimer, ToCome
  <2>9. Enough'
    <3> DEFINE w == wanted * PerUs
    <3>1. elapsed + (cycles + ChunkLeft(dlAt, chunk, Since(counter, startCount)) + ToCome(calls, each, usec)) >= w
      BY DEF DelayInv, Owed, Enough
    <3>2. w \in Nat /\ wanted' * PerUs = w
      BY <1>0, <1>t, <2>8
    <3> HIDE DEF w
    <3>3. elapsed' + (cycles' + ChunkLeft(dlAt', chunk', Since(counter', startCount')) + ToCome(calls', each', usec')) >= w
      BY <1>0, <1>t, <1>p, <2>3, <2>6, <2>7, <2>8, <3>1, <3>2
    <3>4. QED
      BY <3>2, <3>3 DEF Enough
  <2>10. DelayTypeOK'
    BY <1>7, <1>0, <1>t, <2>3, <2>5 DEF PollTimer, DelayTypeOK
  <2>11. QED
    BY <1>0, <1>t, <1>s, <2>1, <2>3, <2>4, <2>9, <2>10 DEF DelayInv, Owed
<1>8. CASE ChunksOver
  BY <1>8, <1>0, <1>t DEF ChunksOver, DelayInv, DelayTypeOK, Owed, Enough, ChunkLeft, ToCome
<1>9. CASE ChunkOver
  <2>1. Since(counter, startCount) >= chunk
    BY <1>9, <1>s, <1>t DEF ChunkOver, Waiting, Since
  <2>2. QED
    BY <1>9, <1>0, <1>t, <1>s, <1>p, <2>1 DEF ChunkOver, DelayInv, DelayTypeOK, Owed, Enough, ChunkLeft, ToCome
<1>10. CASE DelayReturn
  BY <1>10, <1>0 DEF DelayReturn, DelayInv, DelayTypeOK, Owed, Enough, ChunkLeft, ToCome
<1>11. CASE UNCHANGED delayVars
  BY <1>11 DEF delayVars, DelayInv, DelayTypeOK, Owed, Enough, ChunkLeft, Since, ToCome
<1>12. QED
  BY <1>1, <1>2, <1>3, <1>4, <1>5, <1>6, <1>7, <1>8, <1>9, <1>10, <1>11 DEF DelayNext, DelayRun

LEMMA DelayInvariant == DelaySpec => []DelayInv
<1>1. DelayInit => DelayInv
  BY DelayAssumption, WholeTicks DEF DelayInit, DelayInv, DelayTypeOK, Owed, Enough, ChunkLeft, ToCome
<1>2. QED
  BY <1>1, DelayStep, PTL DEF DelaySpec

\* The variables of a wait are typed: no product and no sum wraps.
THEOREM DelayTypeCorrect == DelaySpec => []DelayTypeOK
<1>1. DelayInv => DelayTypeOK
  BY DEF DelayInv
<1>2. QED
  BY <1>1, DelayInvariant, PTL

\* No delay command ends earlier than the truncated rate says, measured at the
\* exact one, for every rate, counter width, slice and chunk that DelayAssumption
\* allows, every amount, and however late the counter is read.
THEOREM DelayCorrect == DelaySpec => []EarlyByTruncationOnly
<1>1. DelayInv => EarlyByTruncationOnly
  <2> SUFFICES ASSUME DelayInv, dlAt = "return"
               PROVE  elapsed * (Kilo * Kilo) >= wanted * (RateHz - Uncounted)
    BY DEF EarlyByTruncationOnly
  <2>1. cycles = 0 /\ usec = 0 /\ calls = 0 /\ ChunkLeft(dlAt, chunk, Since(counter, startCount)) = 0
    BY DEF DelayInv, Owed, Enough, ChunkLeft
  <2>2. PerUs \in Nat /\ each \in Nat /\ elapsed \in Nat /\ wanted \in Nat
    BY WholeTicks DEF DelayInv, DelayTypeOK
  <2>3. ToCome(calls, each, usec) = 0
    BY <2>1, <2>2 DEF ToCome
  <2>4. PICK w \in Nat : w = wanted * PerUs /\ elapsed >= w
    BY <2>1, <2>2, <2>3 DEF DelayInv, Owed, Enough
  <2>5. PICK m \in Nat : m = Kilo * Kilo
    BY DelayAssumption
  <2>6. w * m <= elapsed * m
    BY <2>2, <2>4, <2>5, ProductMonotonic
  <2>7. w * m = wanted * (PerUs * m)
    BY <2>2, <2>4, <2>5
  <2>8. PerUs * m = RateHz - Uncounted
    BY <2>5, WholeTicks, Zenon
  <2>9. w * m = wanted * (RateHz - Uncounted) /\ elapsed * m = elapsed * (Kilo * Kilo)
    BY <2>5, <2>7, <2>8, Zenon
  <2>10. w * m \in Int /\ elapsed * m \in Int
    BY <2>2, <2>4, <2>5
  <2>11. elapsed * m >= w * m
    BY <2>6, <2>10
  <2>12. QED
    BY <2>9, <2>11, Zenon
<1>2. QED
  BY <1>1, DelayInvariant, PTL
-----------------------------------------------------------------------------
(* Startup.                                                                *)

Memory == [0 .. Ram - 1 -> Int]

\* The first n words of the image are at an address.
Placed(m, a, n) == \A k \in 0 .. n - 1 : m[a + k] = k + 1

\* The words of the image from the n-th are still where the boot ROM put them.
ImageLeft(m, a, n) == \A k \in n .. ImageWords - 1 : m[a + k] = k + 1

Zeros(m, a, b) == \A k \in a .. b - 1 : m[k] = 0

\* The inductive invariant: the copy has moved whole blocks, and what it has not
\* moved it has not changed; the clearing has come to from.
CopyHolds ==
    /\ loadAt # LinkAt
    /\ \E b \in Nat : to = LinkAt + b * 8 /\ from = loadAt + b * 8 /\ b * 8 < ImageWords
    /\ Placed(ram, LinkAt, to - LinkAt)
    /\ ImageLeft(ram, loadAt, to - LinkAt)

ClearHolds ==
    /\ count > 0
    /\ from = BssStart + (BssWords - count)
    /\ Placed(ram, LinkAt, ImageWords)
    /\ Zeros(ram, BssStart, from)

StartInv ==
    /\ StartupTypeOK
    /\ pc # "off" => loadAt \in LoadAts /\ ram \in Memory
    /\ pc = "start" => ram = ImageAt(loadAt)
    /\ pc = "copy" => CopyHolds
    /\ pc = "bss" => Placed(ram, LinkAt, ImageWords)
    /\ pc = "clear" => ClearHolds
    /\ pc = "main" => Placed(ram, LinkAt, ImageWords) /\ Zeros(ram, BssStart, BssStart + BssWords)

LEMMA Places ==
  /\ Ram \in Nat /\ LinkAt \in Nat /\ ImageWords \in Nat \ {0} /\ BssWords \in Nat
  /\ Copied \in Nat /\ ImageWords <= Copied
  /\ LinkAt + Copied <= Ram /\ LinkAt + ImageWords + BssWords <= Ram
  /\ \A b \in Nat : b * 8 < ImageWords => b * 8 + 8 <= Copied
<1> DEFINE x == ImageWords + 7
           q == x \div 8
<1>1. Ram \in Nat /\ LinkAt \in Nat /\ ImageWords \in Nat \ {0} /\ BssWords \in Nat
  BY StartupAssumption
<1>2. x \in Nat
  BY <1>1
<1>3. q \in Nat /\ x < q * 8 + 8 /\ q * 8 <= x
  <2> HIDE DEF x
  <2>1. QED
    BY <1>2, DivModNat
<1>4. ImageWords + Block - 1 = x
  BY <1>1 DEF Block
<1>5. Copied = q * 8
  BY <1>4 DEF Copied, Block
<1> HIDE DEF q
<1>6. \A b \in Nat : b * 8 < ImageWords => b * 8 + 8 <= q * 8
  BY <1>1, <1>3
<1>7. q * 8 \in Nat /\ ImageWords <= q * 8
  BY <1>1, <1>3
<1>8. QED
  BY <1>1, <1>5, <1>6, <1>7, StartupAssumption

LEMMA ImageIsThere ==
  ASSUME NEW l \in LoadAts
  PROVE  ImageAt(l) \in Memory /\ ImageLeft(ImageAt(l), l, 0)
         /\ (l = LinkAt => Placed(ImageAt(l), LinkAt, ImageWords))
<1>1. l \in Nat /\ l + ImageWords <= Ram
  BY StartupAssumption, Places
<1>2. ASSUME NEW w \in 0 .. Ram - 1
      PROVE  (IF w \in l .. l + ImageWords - 1 THEN w - l + 1 ELSE Junk) \in Int
  BY <1>1 DEF Junk
<1>3. ImageAt(l) \in Memory
  BY <1>2 DEF ImageAt, Memory
<1>4. ASSUME NEW k \in 0 .. ImageWords - 1
      PROVE  ImageAt(l)[l + k] = k + 1
  <2>1. l + k \in 0 .. Ram - 1 /\ l + k \in l .. l + ImageWords - 1 /\ (l + k) - l + 1 = k + 1
    BY <1>1, Places
  <2>2. QED
    BY <2>1 DEF ImageAt
<1>5. QED
  BY <1>3, <1>4 DEF ImageLeft, Placed

BlockCopied(m, source, target) ==
    [w \in 0 .. Ram - 1 |-> IF w \in target .. target + Block - 1 THEN m[source + w - target] ELSE m[w]]

\* A block moves forward by eight words.
LEMMA BlockMoved ==
  ASSUME NEW m \in Memory, NEW l \in LoadAts, l # LinkAt, NEW b \in Nat, b * 8 < ImageWords,
         Placed(m, LinkAt, b * 8), ImageLeft(m, l, b * 8),
         NEW n, n = BlockCopied(m, l + b * 8, LinkAt + b * 8)
  PROVE  /\ n \in Memory
         /\ \A k \in 0 .. ImageWords - 1 : k < b * 8 + 8 => n[LinkAt + k] = k + 1
         /\ ImageLeft(n, l, b * 8 + 8)
<1> DEFINE d == b * 8
<1>0. d \in Nat /\ d < ImageWords /\ d + 8 <= Copied
  BY Places
<1>1. /\ l \in Nat
      /\ l + Copied <= LinkAt \/ (LinkAt + Copied <= l /\ l + Copied <= Ram)
  BY StartupAssumption
<1>2. Placed(m, LinkAt, d) /\ ImageLeft(m, l, d)
  OBVIOUS
<1>3. n = [w \in 0 .. Ram - 1 |-> IF w \in LinkAt + d .. LinkAt + d + 7
                                   THEN m[l + d + w - (LinkAt + d)] ELSE m[w]]
  <2>1. LinkAt + d + Block - 1 = LinkAt + d + 7
    BY <1>0, Places DEF Block
  <2>2. QED
    BY <2>1 DEF BlockCopied
<1> HIDE DEF d
<1>4. ASSUME NEW w \in 0 .. Ram - 1
      PROVE  n[w] \in Int
  <2>1. m[w] \in Int
    BY DEF Memory
  <2>2. CASE w \in LinkAt + d .. LinkAt + d + 7
    <3>1. l + d + w - (LinkAt + d) \in 0 .. Ram - 1
      BY <2>2, <1>0, <1>1, Places
    <3>2. QED
      BY <2>2, <3>1, <1>3 DEF Memory
  <2>3. QED
    BY <1>3, <2>1, <2>2
<1>5. n \in Memory
  BY <1>3, <1>4 DEF Memory
<1>6. ASSUME NEW k \in 0 .. ImageWords - 1, k < d + 8
      PROVE  n[LinkAt + k] = k + 1
  <2>1. LinkAt + k \in 0 .. Ram - 1
    BY <1>0, Places
  <2>2. CASE k < d
    <3>1. LinkAt + k \notin LinkAt + d .. LinkAt + d + 7 /\ k \in 0 .. d - 1
      BY <2>2, <1>0, Places
    <3>2. QED
      BY <2>1, <3>1, <1>2, <1>3 DEF Placed
  <2>3. CASE k >= d
    <3>1. /\ LinkAt + k \in LinkAt + d .. LinkAt + d + 7 /\ k \in d .. ImageWords - 1
          /\ l + d + (LinkAt + k) - (LinkAt + d) = l + k
      BY <2>3, <1>0, <1>1, <1>6, Places
    <3>2. QED
      BY <2>1, <3>1, <1>2, <1>3 DEF ImageLeft
  <2>4. QED
    BY <1>0, <2>2, <2>3
<1>7. ASSUME NEW k \in d + 8 .. ImageWords - 1
      PROVE  n[l + k] = k + 1
  <2>1. /\ l + k \in 0 .. Ram - 1 /\ k \in d .. ImageWords - 1
        /\ l + k \notin LinkAt + d .. LinkAt + d + 7
    BY <1>0, <1>1, Places
  <2>2. QED
    BY <2>1, <1>2, <1>3 DEF ImageLeft
<1>8. QED
  BY <1>5, <1>6, <1>7 DEF d, ImageLeft

LEMMA StartStep ==
  ASSUME StartInv, [StartupNext]_startVars
  PROVE  StartInv'
<1>0. /\ pc \in {"off", "start", "copy", "bss", "clear", "main"}
      /\ from \in 0 .. Ram /\ to \in 0 .. Ram /\ count \in 0 .. BssWords
  BY DEF StartInv, StartupTypeOK
<1>b. /\ BssStart \in 0 .. Ram /\ BssStart + BssWords \in 0 .. Ram /\ BssStart = LinkAt + ImageWords
  BY Places DEF BssStart
<1>1. ASSUME NEW l \in LoadAts, PowerOn(l)
      PROVE  StartInv'
  BY <1>1, <1>0, ImageIsThere DEF PowerOn, StartInv, StartupTypeOK
<1>2. CASE CheckPlace
  <2>1. pc = "start" /\ loadAt \in LoadAts /\ ram \in Memory /\ ram = ImageAt(loadAt)
    BY <1>2 DEF CheckPlace, StartInv
  <2>2. CASE loadAt = LinkAt
    BY <1>2, <1>0, <2>1, <2>2, ImageIsThere DEF CheckPlace, StartInv, StartupTypeOK
  <2>3. CASE loadAt # LinkAt
    <3>1. loadAt \in 0 .. Ram /\ LinkAt \in 0 .. Ram
      BY <2>1, Places, StartupAssumption
    <3>2. ImageLeft(ram, loadAt, 0) /\ Placed(ram, LinkAt, 0)
      BY <2>1, ImageIsThere DEF Placed
    <3>3. /\ 0 \in Nat /\ LinkAt = LinkAt + 0 * 8 /\ loadAt = loadAt + 0 * 8 /\ 0 * 8 < ImageWords
          /\ LinkAt - LinkAt = 0 /\ 0 < ImageWords
      BY <3>1, Places
    <3>4. /\ pc' = "copy" /\ from' = loadAt /\ to' = LinkAt
          /\ count' = count /\ ram' = ram /\ loadAt' = loadAt
      BY <1>2, <2>3 DEF CheckPlace
    <3>5. CopyHolds'
      BY <2>3, <3>2, <3>3, <3>4 DEF CopyHolds
    <3>6. QED
      BY <1>0, <2>1, <3>1, <3>4, <3>5 DEF StartInv, StartupTypeOK
  <2>4. QED
    BY <2>2, <2>3
<1>3. CASE CopyBlock
  <2>0. pc = "copy" /\ loadAt \in LoadAts /\ ram \in Memory /\ CopyHolds
    BY <1>3 DEF CopyBlock, StartInv
  <2>1. PICK b \in Nat : to = LinkAt + b * 8 /\ from = loadAt + b * 8 /\ b * 8 < ImageWords
    BY <2>0 DEF CopyHolds
  <2>2. to - LinkAt = b * 8 /\ loadAt # LinkAt /\ loadAt \in Nat
    BY <2>0, <2>1, Places, StartupAssumption DEF CopyHolds
  <2>3. Placed(ram, LinkAt, b * 8) /\ ImageLeft(ram, loadAt, b * 8)
    BY <2>0, <2>1, <2>2 DEF CopyHolds
  <2>4. /\ ram' = BlockCopied(ram, loadAt + b * 8, LinkAt + b * 8)
        /\ loadAt' = loadAt /\ count' = count
    BY <1>3, <2>1 DEF CopyBlock, BlockCopied
  <2>5. /\ ram' \in Memory
        /\ \A k \in 0 .. ImageWords - 1 : k < b * 8 + 8 => ram'[LinkAt + k] = k + 1
        /\ ImageLeft(ram', loadAt, b * 8 + 8)
    <3>1. /\ ram \in Memory /\ loadAt \in LoadAts /\ loadAt # LinkAt /\ b * 8 < ImageWords
          /\ Placed(ram, LinkAt, b * 8) /\ ImageLeft(ram, loadAt, b * 8)
      BY <2>0, <2>1, <2>2, <2>3
    <3>2. QED
      BY <2>4, <3>1, BlockMoved
  <2>6. /\ to' = LinkAt + (b + 1) * 8 /\ from' = loadAt + (b + 1) * 8
        /\ pc' = IF LinkAt + (b + 1) * 8 < BssStart THEN "copy" ELSE "bss"
    BY <1>3, <2>1, <2>2, Places DEF CopyBlock, Block, MoreToCopy
  <2>7. LinkAt + (b + 1) * 8 \in 0 .. Ram /\ loadAt + (b + 1) * 8 \in 0 .. Ram
    BY <2>0, <2>1, <2>2, Places, StartupAssumption
  <2>8. (LinkAt + (b + 1) * 8) - LinkAt = (b + 1) * 8 /\ (b + 1) * 8 = b * 8 + 8 /\ b + 1 \in Nat
    BY Places
  <2>9. CASE LinkAt + (b + 1) * 8 < BssStart
    <3>1. (b + 1) * 8 < ImageWords
      BY <2>9, <1>b, Places
    <3>2. Placed(ram', LinkAt, (b + 1) * 8)
      BY <2>5, <2>8, <3>1, Places DEF Placed
    <3>3. PICK e \in Nat : e = b + 1
      BY <2>8
    <3>4. /\ to' = LinkAt + e * 8 /\ from' = loadAt' + e * 8 /\ e * 8 < ImageWords
          /\ (LinkAt + e * 8) - LinkAt = e * 8 /\ loadAt' # LinkAt
          /\ Placed(ram', LinkAt, e * 8) /\ ImageLeft(ram', loadAt', e * 8)
      BY <2>2, <2>4, <2>5, <2>6, <2>8, <3>1, <3>2, <3>3
    <3>5. CopyHolds'
      <4>1. \E i \in Nat : to' = LinkAt + i * 8 /\ from' = loadAt' + i * 8 /\ i * 8 < ImageWords
        BY <3>4
      <4>2. to' - LinkAt = e * 8
        BY <3>4
      <4>3. Placed(ram', LinkAt, to' - LinkAt) /\ ImageLeft(ram', loadAt', to' - LinkAt)
        BY <3>4, <4>2
      <4>4. QED
        BY <3>4, <4>1, <4>3 DEF CopyHolds
    <3>6. QED
      BY <1>0, <2>0, <2>4, <2>5, <2>6, <2>7, <2>9, <3>5 DEF StartInv, StartupTypeOK
  <2>10. CASE ~(LinkAt + (b + 1) * 8 < BssStart)
    <3>1. ImageWords <= b * 8 + 8
      BY <2>8, <2>10, <1>b, Places
    <3>2. Placed(ram', LinkAt, ImageWords)
      BY <2>5, <3>1, Places DEF Placed
    <3>3. QED
      BY <1>0, <2>0, <2>4, <2>5, <2>6, <2>7, <2>10, <3>2 DEF StartInv, StartupTypeOK
  <2>11. QED
    BY <2>9, <2>10
<1>4. CASE StartBss
  <2>1. Zeros(ram, BssStart, BssStart)
    BY <1>b DEF Zeros
  <2>2. BssStart = BssStart + (BssWords - BssWords) /\ BssStart + 0 = BssStart
        /\ BssWords \in 0 .. BssWords /\ (BssWords # 0 => BssWords > 0)
    BY <1>b, Places
  <2>3. pc = "bss" /\ loadAt \in LoadAts /\ ram \in Memory /\ Placed(ram, LinkAt, ImageWords)
    BY <1>4 DEF StartBss, StartInv
  <2>4. CASE BssWords = 0
    BY <1>4, <1>0, <1>b, <2>1, <2>2, <2>3, <2>4 DEF StartBss, StartInv, StartupTypeOK
  <2>5. CASE BssWords # 0
    BY <1>4, <1>0, <1>b, <2>1, <2>2, <2>3, <2>5 DEF StartBss, StartInv, StartupTypeOK, ClearHolds
  <2>6. QED
    BY <2>4, <2>5
<1>5. CASE ClearWord
  <2>1. /\ pc = "clear" /\ loadAt \in LoadAts /\ ram \in Memory /\ count > 0
        /\ from = BssStart + (BssWords - count)
        /\ Placed(ram, LinkAt, ImageWords) /\ Zeros(ram, BssStart, from)
    BY <1>5 DEF ClearWord, StartInv, ClearHolds
  <2> DEFINE m == [ram EXCEPT ![from] = 0]
  <2>2. /\ from \in 0 .. Ram - 1 /\ from + 1 \in 0 .. Ram /\ count - 1 \in 0 .. BssWords
        /\ from >= LinkAt + ImageWords /\ (count # 1 => count - 1 > 0)
        /\ from + 1 = BssStart + (BssWords - (count - 1))
        /\ (count = 1 => from + 1 = BssStart + BssWords)
    BY <1>0, <1>b, <2>1, Places
  <2>3. m \in Memory
    BY <2>1, <2>2 DEF Memory
  <2>4. Placed(m, LinkAt, ImageWords)
    <3>1. ASSUME NEW k \in 0 .. ImageWords - 1
          PROVE  m[LinkAt + k] = k + 1
      <4>1. LinkAt + k \in 0 .. Ram - 1 /\ LinkAt + k # from
        BY <2>2, Places
      <4>2. QED
        BY <2>1, <4>1 DEF Placed, Memory
    <3>2. QED
      BY <3>1 DEF Placed
  <2>5. Zeros(m, BssStart, from + 1)
    <3>1. ASSUME NEW k \in BssStart .. ((from + 1) - 1)
          PROVE  m[k] = 0
      <4>1. k \in 0 .. Ram - 1 /\ (k = from \/ k \in BssStart .. from - 1)
        BY <1>0, <1>b, <2>2, Places
      <4>2. CASE k = from
        BY <2>1, <4>1, <4>2 DEF Memory
      <4>3. CASE k \in BssStart .. from - 1 /\ k # from
        BY <2>1, <4>1, <4>3 DEF Zeros, Memory
      <4>4. QED
        BY <4>1, <4>2, <4>3
    <3>2. QED
      BY <3>1 DEF Zeros
  <2>6. /\ ram' = m /\ from' = from + 1 /\ count' = count - 1
        /\ pc' = (IF count = 1 THEN "main" ELSE "clear") /\ to' = to /\ loadAt' = loadAt
    BY <1>5 DEF ClearWord
  <2> HIDE DEF m
  <2>7. CASE count = 1
    <3>1. Zeros(m, BssStart, BssStart + BssWords)
      BY <2>2, <2>5, <2>7
    <3>2. QED
      BY <1>0, <2>1, <2>2, <2>3, <2>4, <2>6, <2>7, <3>1 DEF StartInv, StartupTypeOK
  <2>8. CASE count # 1
    <3>1. ClearHolds'
      BY <2>2, <2>4, <2>5, <2>6, <2>8 DEF ClearHolds
    <3>2. QED
      BY <1>0, <2>1, <2>2, <2>3, <2>6, <2>8, <3>1 DEF StartInv, StartupTypeOK
  <2>9. QED
    BY <2>7, <2>8
<1>6. CASE Reset
  BY <1>6, Places DEF Reset, StartInv, StartupTypeOK
<1>7. CASE UNCHANGED startVars
  BY <1>7 DEF startVars, StartInv, StartupTypeOK, CopyHolds, ClearHolds
<1>8. QED
  BY <1>1, <1>2, <1>3, <1>4, <1>5, <1>6, <1>7 DEF StartupNext, StartupRun

LEMMA StartInvariant == StartupSpec => []StartInv
<1>1. StartupInit => StartInv
  BY Places DEF StartupInit, StartInv, StartupTypeOK
<1>2. QED
  BY <1>1, StartStep, PTL DEF StartupSpec

\* The addresses of the copy and of the clearing stay in the memory.
THEOREM StartupTypeCorrect == StartupSpec => []StartupTypeOK
<1>1. StartInv => StartupTypeOK
  BY DEF StartInv
<1>2. QED
  BY <1>1, StartInvariant, PTL

\* The program starts from its whole image and a clear bss, for every size of
\* both and every place the boot ROM may put the image that does not overlap
\* where it is copied to.
THEOREM StartupCorrect == StartupSpec => []StartsClean
<1>1. StartInv => StartsClean
  <2> SUFFICES ASSUME StartInv, pc = "main"
               PROVE  /\ \A k \in 0 .. ImageWords - 1 : ram[LinkAt + k] = k + 1
                      /\ \A k \in BssStart .. BssStart + BssWords - 1 : ram[k] = 0
    BY DEF StartsClean
  <2>1. Placed(ram, LinkAt, ImageWords) /\ Zeros(ram, BssStart, BssStart + BssWords)
    BY DEF StartInv
  <2>2. BssStart + BssWords - 1 = (BssStart + BssWords) - 1
    BY Places DEF BssStart
  <2>3. QED
    BY <2>1, <2>2 DEF Placed, Zeros
<1>2. QED
  BY <1>1, StartInvariant, PTL
-----------------------------------------------------------------------------
(* Iomux.                                                                  *)

PinRecord == [regid : Nat, shift : PinShifts, mode : 0 .. 15]
FieldValues == [Fields -> 0 .. 15]
MuxRegisters == [1 .. RegMax -> FieldValues]

\* The registers with the cached value written back.
Effective(regs, new, at0, n) == IF n > 0 THEN [regs EXCEPT ![at0] = new] ELSE regs

\* pins is what is left of a table after its first n pins.
LeftOf(rest, table, n) ==
    /\ Len(rest) = Len(table) - n
    /\ \A k \in 1 .. Len(rest) : rest[k] = table[n + k]

\* The inductive invariant: with the cached value written back, the registers are
\* as the pins looked at so far leave them.
MuxHolds ==
    /\ muxCall.table \in Seq(PinRecord)
    /\ \E n \in 0 .. Len(muxCall.table) :
          /\ LeftOf(pins, muxCall.table, n)
          /\ Applied(Effective(muxRegs, fields, cached, cnt), muxCall.regs, muxCall.table, n)

MuxInv ==
    /\ muxAt \in {"idle", "loop", "return"}
    /\ cached \in {-1} \cup 1 .. RegMax
    /\ cnt \in Nat
    /\ fields \in FieldValues
    /\ muxRegs \in MuxRegisters
    /\ pins \in Seq(PinRecord)
    /\ (cached = -1) <=> (cnt = 0)
    /\ muxAt = "idle" => cnt = 0 /\ pins = <<>>
    /\ muxAt = "loop" => MuxHolds
    /\ muxAt = "return" => pins = <<>> /\ PinsAsGiven

LEMMA PutType ==
  ASSUME NEW v \in FieldValues, NEW p \in PinRecord
  PROVE  /\ Put(v, p) \in FieldValues
         /\ \A f \in Fields : Put(v, p)[f] = IF p.shift \div 4 = f THEN p.mode ELSE v[f]
<1>1. p.shift \in PinShifts /\ p.mode \in 0 .. 15
  BY DEF PinRecord
<1>2. p.shift \div 4 \in Fields
  <2>1. p.shift \div 4 \in 0 .. 7
    BY <1>1 DEF PinShifts, Fields
  <2>2. QED
    BY <2>1 DEF Fields
<1>3. QED
  BY <1>1, <1>2 DEF Put, FieldValues

\* One pin is set.
PinSet(after, before, p) ==
    \A r \in 1 .. RegMax, f \in Fields :
        after[r][f] = IF Names(p, r, f) THEN p.mode ELSE before[r][f]

\* A pin more.
LEMMA PinApplied ==
  ASSUME NEW table, NEW before, NEW g, NEW h, NEW n \in Nat, NEW p,
         Applied(g, before, table, n), p = table[n + 1],
         PinSet(h, g, p)
  PROVE  Applied(h, before, table, n + 1)
<1> SUFFICES ASSUME NEW r \in 1 .. RegMax, NEW f \in Fields
             PROVE  /\ (\A k \in 1 .. n + 1 : ~ Names(table[k], r, f)) => h[r][f] = before[r][f]
                    /\ \A k \in 1 .. n + 1 :
                          (Names(table[k], r, f) /\ \A j \in k + 1 .. n + 1 : ~ Names(table[j], r, f))
                              => h[r][f] = table[k].mode
  BY DEF Applied
<1>0. h[r][f] = IF Names(p, r, f) THEN p.mode ELSE g[r][f]
  BY DEF PinSet
<1>1. /\ (\A k \in 1 .. n : ~ Names(table[k], r, f)) => g[r][f] = before[r][f]
      /\ \A k \in 1 .. n :
            (Names(table[k], r, f) /\ \A j \in k + 1 .. n : ~ Names(table[j], r, f))
                => g[r][f] = table[k].mode
  BY DEF Applied
<1>2. n + 1 \in 1 .. n + 1
  OBVIOUS
<1>3. ASSUME \A k \in 1 .. n + 1 : ~ Names(table[k], r, f)
      PROVE  h[r][f] = before[r][f]
  <2>1. ~ Names(p, r, f)
    BY <1>2, <1>3
  <2>2. \A k \in 1 .. n : ~ Names(table[k], r, f)
    BY <1>3
  <2>3. QED
    BY <1>0, <1>1, <2>1, <2>2
<1>4. ASSUME NEW k \in 1 .. n + 1, Names(table[k], r, f),
             \A j \in k + 1 .. n + 1 : ~ Names(table[j], r, f)
      PROVE  h[r][f] = table[k].mode
  <2>1. CASE k = n + 1
    BY <1>0, <1>4, <2>1
  <2>2. CASE k # n + 1
    <3>1. k \in 1 .. n /\ n + 1 \in k + 1 .. n + 1
      BY <2>2
    <3>2. ~ Names(p, r, f)
      BY <1>4, <3>1
    <3>3. \A j \in k + 1 .. n : ~ Names(table[j], r, f)
      BY <1>4
    <3>4. QED
      BY <1>0, <1>1, <1>4, <3>1, <3>2, <3>3
  <2>3. QED
    BY <2>1, <2>2
<1>5. QED
  BY <1>3, <1>4

LEMMA RestOfTable ==
  ASSUME NEW table \in Seq(PinRecord), NEW rest \in Seq(PinRecord), rest # <<>>,
         NEW n \in 0 .. Len(table), LeftOf(rest, table, n)
  PROVE  /\ n + 1 \in 0 .. Len(table)
         /\ Head(rest) \in PinRecord /\ Head(rest) = table[n + 1]
         /\ Tail(rest) \in Seq(PinRecord)
         /\ LeftOf(Tail(rest), table, n + 1)
<1>1. /\ Len(rest) \in Nat /\ Len(rest) > 0 /\ Len(table) \in Nat
      /\ Len(Tail(rest)) = Len(rest) - 1 /\ Tail(rest) \in Seq(PinRecord)
      /\ Head(rest) = rest[1] /\ rest[1] \in PinRecord
      /\ \A k \in 1 .. Len(Tail(rest)) : Tail(rest)[k] = rest[k + 1]
  OBVIOUS
<1>2. Len(rest) = Len(table) - n /\ rest[1] = table[n + 1]
  BY <1>1 DEF LeftOf
<1>3. ASSUME NEW k \in 1 .. Len(Tail(rest))
      PROVE  Tail(rest)[k] = table[(n + 1) + k]
  <2>1. k + 1 \in 1 .. Len(rest) /\ n + (k + 1) = (n + 1) + k
    BY <1>1
  <2>2. rest[k + 1] = table[n + (k + 1)]
    BY <2>1 DEF LeftOf
  <2>3. QED
    BY <1>1, <2>1, <2>2
<1>4. Len(Tail(rest)) = Len(table) - (n + 1) /\ n + 1 \in 0 .. Len(table)
  BY <1>1, <1>2
<1>5. QED
  BY <1>1, <1>2, <1>3, <1>4 DEF LeftOf

LEMMA MuxStep ==
  ASSUME MuxInv, [IomuxNext]_iomuxVars
  PROVE  MuxInv'
<1>0. RegMax \in Nat \ {0} /\ ResetModes \subseteq 0 .. 15 /\ PinTables \subseteq Seq(PinRecord)
  BY IomuxAssumption DEF PinRecord
<1>t. /\ muxAt \in {"idle", "loop", "return"} /\ cached \in {-1} \cup 1 .. RegMax
      /\ cnt \in Nat /\ fields \in FieldValues /\ muxRegs \in MuxRegisters
      /\ pins \in Seq(PinRecord) /\ ((cached = -1) <=> (cnt = 0))
  BY DEF MuxInv
<1>b. \A m \in 0 .. 15 : Before(m) \in MuxRegisters /\ Blank \in FieldValues
  BY DEF Before, Blank, MuxRegisters, FieldValues
<1>1. ASSUME NEW table \in PinTables, NEW m \in ResetModes, IomuxConfig(table, m)
      PROVE  MuxInv'
  <2>1. table \in Seq(PinRecord) /\ m \in 0 .. 15 /\ Len(table) \in Nat
    BY <1>0
  <2>2. /\ muxAt = "idle" /\ cnt = 0 /\ muxAt' = "loop" /\ pins' = table /\ muxRegs' = Before(m)
        /\ muxCall' = [table |-> table, regs |-> Before(m)]
        /\ UNCHANGED <<cached, fields, cnt>>
    BY <1>1 DEF IomuxConfig, MuxInv
  <2>3. muxCall'.table = table /\ muxCall'.regs = Before(m)
    BY <2>2
  <2>4. LeftOf(table, table, 0)
    BY <2>1 DEF LeftOf
  <2>5. Applied(Before(m), Before(m), table, 0)
    BY DEF Applied
  <2>6. Effective(muxRegs', fields', cached', cnt') = Before(m)
    BY <2>2 DEF Effective
  <2>7. 0 \in 0 .. Len(table)
    BY <2>1
  <2>8. MuxHolds'
    BY <2>1, <2>2, <2>3, <2>4, <2>5, <2>6, <2>7 DEF MuxHolds
  <2>9. QED
    BY <1>t, <1>b, <2>1, <2>2, <2>8 DEF MuxInv
<1>2. CASE SkipPin
  <2>1. /\ muxAt = "loop" /\ pins # <<>> /\ Head(pins).regid \notin 1 .. RegMax
        /\ pins' = Tail(pins) /\ UNCHANGED <<muxAt, cached, fields, cnt, muxRegs, muxCall>>
    BY <1>2 DEF SkipPin
  <2>2. muxCall.table \in Seq(PinRecord)
    BY <2>1 DEF MuxInv, MuxHolds
  <2>3. PICK n \in 0 .. Len(muxCall.table) :
          /\ LeftOf(pins, muxCall.table, n)
          /\ Applied(Effective(muxRegs, fields, cached, cnt), muxCall.regs, muxCall.table, n)
    BY <2>1 DEF MuxInv, MuxHolds
  <2> DEFINE g == Effective(muxRegs, fields, cached, cnt)
             p == Head(pins)
  <2>4. /\ n + 1 \in 0 .. Len(muxCall.table) /\ p \in PinRecord /\ p = muxCall.table[n + 1]
        /\ Tail(pins) \in Seq(PinRecord) /\ LeftOf(Tail(pins), muxCall.table, n + 1)
    <3>1. pins \in Seq(PinRecord) /\ pins # <<>>
      BY <1>t, <2>1
    <3>2. n \in 0 .. Len(muxCall.table) /\ LeftOf(pins, muxCall.table, n)
      BY <2>3
    <3>3. QED
      BY <2>2, <3>1, <3>2, RestOfTable
  <2>5. PinSet(g, g, p)
    BY <2>1 DEF Names, PinSet
  <2>6. Applied(g, muxCall.regs, muxCall.table, n + 1)
    <3>1. n \in Nat /\ Applied(g, muxCall.regs, muxCall.table, n)
      BY <2>2, <2>3
    <3> HIDE DEF g, p
    <3>2. QED
      BY <2>4, <2>5, <3>1, PinApplied
  <2>7. MuxHolds'
    BY <2>1, <2>2, <2>4, <2>6 DEF MuxHolds
  <2>8. QED
    BY <1>t, <2>1, <2>4, <2>7 DEF MuxInv
<1>3. CASE SamePinRegister
  <2>1. /\ muxAt = "loop" /\ pins # <<>> /\ Head(pins).regid \in 1 .. RegMax
        /\ Head(pins).regid = cached /\ fields' = Put(fields, Head(pins)) /\ cnt' = cnt + 1
        /\ pins' = Tail(pins) /\ UNCHANGED <<muxAt, cached, muxRegs, muxCall>>
    BY <1>3 DEF SamePinRegister
  <2>2. muxCall.table \in Seq(PinRecord)
    BY <2>1 DEF MuxInv, MuxHolds
  <2>3. PICK n \in 0 .. Len(muxCall.table) :
          /\ LeftOf(pins, muxCall.table, n)
          /\ Applied(Effective(muxRegs, fields, cached, cnt), muxCall.regs, muxCall.table, n)
    BY <2>1 DEF MuxInv, MuxHolds
  <2> DEFINE g == Effective(muxRegs, fields, cached, cnt)
             p == Head(pins)
             h == Effective(muxRegs, Put(fields, p), cached, cnt + 1)
  <2>4. /\ n + 1 \in 0 .. Len(muxCall.table) /\ p \in PinRecord /\ p = muxCall.table[n + 1]
        /\ Tail(pins) \in Seq(PinRecord) /\ LeftOf(Tail(pins), muxCall.table, n + 1)
    <3>1. pins \in Seq(PinRecord) /\ pins # <<>>
      BY <1>t, <2>1
    <3>2. n \in 0 .. Len(muxCall.table) /\ LeftOf(pins, muxCall.table, n)
      BY <2>3
    <3>3. QED
      BY <2>2, <3>1, <3>2, RestOfTable
  <2>c. cached \in 1 .. RegMax /\ cnt > 0 /\ cnt + 1 > 0 /\ cnt + 1 \in Nat /\ cached # -1
    <3>1. cached \in 1 .. RegMax /\ cached # -1
      BY <1>0, <1>t, <2>1
    <3>2. QED
      BY <1>t, <3>1
  <2>p. Put(fields, p) \in FieldValues
        /\ \A f \in Fields : Put(fields, p)[f] = IF p.shift \div 4 = f THEN p.mode ELSE fields[f]
    BY <1>t, <2>4, PutType
  <2>5. ASSUME NEW r \in 1 .. RegMax, NEW f \in Fields
        PROVE  h[r][f] = IF Names(p, r, f) THEN p.mode ELSE g[r][f]
    <3>1. CASE r = cached
      <4>1. h[r] = Put(fields, p) /\ g[r] = fields
        BY <1>t, <2>c, <3>1 DEF Effective, MuxRegisters
      <4>2. Names(p, r, f) <=> p.shift \div 4 = f
        BY <2>1, <3>1 DEF Names
      <4> HIDE DEF g, h, p
      <4>3. QED
        BY <2>p, <4>1, <4>2
    <3>2. CASE r # cached
      <4>1. h[r] = muxRegs[r] /\ g[r] = muxRegs[r]
        BY <1>t, <2>c, <3>2 DEF Effective, MuxRegisters
      <4>2. ~ Names(p, r, f)
        BY <2>1, <3>2 DEF Names
      <4> HIDE DEF g, h, p
      <4>3. QED
        BY <4>1, <4>2
    <3>3. QED
      BY <3>1, <3>2
  <2>6. Applied(h, muxCall.regs, muxCall.table, n + 1)
    <3>1. n \in Nat /\ Applied(g, muxCall.regs, muxCall.table, n)
      BY <2>2, <2>3
    <3>2. PinSet(h, g, p)
      BY <2>5 DEF PinSet
    <3>3. p = muxCall.table[n + 1]
      BY <2>4
    <3> HIDE DEF g, h, p
    <3>4. QED
      BY <3>1, <3>2, <3>3, PinApplied
  <2>7. MuxHolds'
    BY <2>1, <2>2, <2>4, <2>6 DEF MuxHolds
  <2>8. QED
    BY <1>t, <2>1, <2>4, <2>c, <2>p, <2>7 DEF MuxInv
<1>4. CASE OtherPinRegister
  <2> DEFINE g == Effective(muxRegs, fields, cached, cnt)
             p == Head(pins)
             r1 == p.regid
             h == Effective(g, Put(g[r1], p), r1, 1)
  <2>1. /\ muxAt = "loop" /\ pins # <<>> /\ r1 \in 1 .. RegMax /\ r1 # cached
        /\ muxRegs' = g /\ cached' = r1 /\ fields' = Put(g[r1], p) /\ cnt' = 1
        /\ pins' = Tail(pins) /\ UNCHANGED <<muxAt, muxCall>>
    BY <1>4 DEF OtherPinRegister, Written, Effective
  <2>2. muxCall.table \in Seq(PinRecord)
    BY <2>1 DEF MuxInv, MuxHolds
  <2>3. PICK n \in 0 .. Len(muxCall.table) :
          /\ LeftOf(pins, muxCall.table, n)
          /\ Applied(Effective(muxRegs, fields, cached, cnt), muxCall.regs, muxCall.table, n)
    BY <2>1 DEF MuxInv, MuxHolds
  <2>4. /\ n + 1 \in 0 .. Len(muxCall.table) /\ p \in PinRecord /\ p = muxCall.table[n + 1]
        /\ Tail(pins) \in Seq(PinRecord) /\ LeftOf(Tail(pins), muxCall.table, n + 1)
    <3>1. pins \in Seq(PinRecord) /\ pins # <<>>
      BY <1>t, <2>1
    <3>2. n \in 0 .. Len(muxCall.table) /\ LeftOf(pins, muxCall.table, n)
      BY <2>3
    <3>3. QED
      BY <2>2, <3>1, <3>2, RestOfTable
  <2>g. g \in MuxRegisters /\ g[r1] \in FieldValues
    BY <1>t, <2>1 DEF Effective, MuxRegisters
  <2>p. Put(g[r1], p) \in FieldValues
        /\ \A f \in Fields : Put(g[r1], p)[f] = IF p.shift \div 4 = f THEN p.mode ELSE g[r1][f]
    <3> HIDE DEF g, p
    <3>1. QED
      BY <2>g, <2>4, PutType
  <2>5. ASSUME NEW r \in 1 .. RegMax, NEW f \in Fields
        PROVE  h[r][f] = IF Names(p, r, f) THEN p.mode ELSE g[r][f]
    <3>h. h = [g EXCEPT ![r1] = Put(g[r1], p)]
      BY DEF Effective
    <3>1. CASE r = r1
      <4>1. h[r] = Put(g[r1], p)
        <5> HIDE DEF g, h, p
        <5>1. QED
          BY <2>g, <3>h, <3>1 DEF MuxRegisters
      <4>2. Names(p, r, f) <=> p.shift \div 4 = f
        BY <3>1 DEF Names
      <4> HIDE DEF g, h, p
      <4>3. QED
        BY <2>p, <3>1, <4>1, <4>2
    <3>2. CASE r # r1
      <4>1. h[r] = g[r]
        <5> HIDE DEF g, h, p
        <5>1. QED
          BY <2>g, <3>h, <3>2 DEF MuxRegisters
      <4>2. ~ Names(p, r, f)
        BY <3>2 DEF Names
      <4> HIDE DEF g, h, p
      <4>3. QED
        BY <4>1, <4>2
    <3>3. QED
      BY <3>1, <3>2
  <2>6. Applied(h, muxCall.regs, muxCall.table, n + 1)
    <3>1. n \in Nat /\ Applied(g, muxCall.regs, muxCall.table, n)
      BY <2>2, <2>3
    <3>2. PinSet(h, g, p)
      BY <2>5 DEF PinSet
    <3>3. p = muxCall.table[n + 1]
      BY <2>4
    <3> HIDE DEF g, h, p
    <3>4. QED
      BY <3>1, <3>2, <3>3, PinApplied
  <2>7. MuxHolds'
    <3> HIDE DEF g, p
    <3>1. QED
      BY <2>1, <2>2, <2>4, <2>6 DEF MuxHolds
  <2>8. r1 # -1
    BY <2>1, <1>0
  <2> HIDE DEF g, p, r1
  <2>9. QED
    BY <1>t, <2>1, <2>4, <2>g, <2>p, <2>7, <2>8 DEF MuxInv
<1>5. CASE LastWrite
  <2>1. /\ muxAt = "loop" /\ pins = <<>> /\ muxAt' = "return"
        /\ muxRegs' = Effective(muxRegs, fields, cached, cnt)
        /\ UNCHANGED <<pins, cached, fields, cnt, muxCall>>
    BY <1>5 DEF LastWrite, Effective
  <2>2. muxCall.table \in Seq(PinRecord)
    BY <2>1 DEF MuxInv, MuxHolds
  <2>3. PICK n \in 0 .. Len(muxCall.table) :
          /\ LeftOf(pins, muxCall.table, n)
          /\ Applied(Effective(muxRegs, fields, cached, cnt), muxCall.regs, muxCall.table, n)
    BY <2>1 DEF MuxInv, MuxHolds
  <2>4. n = Len(muxCall.table)
    BY <2>1, <2>2, <2>3 DEF LeftOf
  <2>5. muxRegs' \in MuxRegisters
    BY <1>t, <2>1 DEF Effective, MuxRegisters
  <2>6. PinsAsGiven'
    BY <2>1, <2>3, <2>4 DEF PinsAsGiven
  <2>7. QED
    BY <1>t, <2>1, <2>5, <2>6 DEF MuxInv
<1>6. CASE IomuxReturn
  BY <1>6, <1>t, <1>b DEF IomuxReturn, MuxInv
<1>7. CASE UNCHANGED iomuxVars
  BY <1>7 DEF iomuxVars, MuxInv, MuxHolds, PinsAsGiven
<1>8. QED
  BY <1>1, <1>2, <1>3, <1>4, <1>5, <1>6, <1>7 DEF IomuxNext, IomuxRun

LEMMA MuxInvariant == IomuxSpec => []MuxInv
<1>1. IomuxInit => MuxInv
  BY IomuxAssumption DEF IomuxInit, MuxInv, Blank, Before, FieldValues, MuxRegisters
<1>2. QED
  BY <1>1, MuxStep, PTL DEF IomuxSpec

\* The cached register number, the value being put together and the registers are
\* typed.
THEOREM IomuxTypeCorrect == IomuxSpec => []IomuxTypeOK
<1>1. MuxInv => IomuxTypeOK
  BY DEF MuxInv, IomuxTypeOK, FieldValues, MuxRegisters
<1>2. QED
  BY <1>1, MuxInvariant, PTL

\* Every table of pins leaves the registers as if its pins were set one by one.
THEOREM PinsCorrect == IomuxSpec => []PinsAsGiven
<1>1. MuxInv => PinsAsGiven
  BY DEF MuxInv, PinsAsGiven
<1>2. QED
  BY <1>1, MuxInvariant, PTL
-----------------------------------------------------------------------------
(* Uart.                                                                   *)

\* What is written to UTBR comes out of a text of any characters.
IsSequence(s) == \E V : s \in Seq(V)

\* What the device has and has not sent is what was written, where nothing is
\* lost; what was read and what waits to be read is what came in, in order.
QueuesHold ==
    /\ IsSequence(wire) /\ IsSequence(tx) /\ IsSequence(written)
    /\ got \in Seq(Nat) /\ rx \in Seq(Nat) /\ arrived \in Nat
    /\ Len(rx) <= Depth(port) /\ Len(tx) <= Depth(port)
    /\ Len(wire) + Len(tx) <= Len(written)
    /\ port # 2 => wire \o tx = written
    /\ \A k \in 1 .. Len(got \o rx) : (got \o rx)[k] = k
    /\ Len(got \o rx) = arrived

\* The counter of a receive with an even limit is what is left of it; that of one
\* with an odd limit stays odd.
LimitHolds ==
    /\ asked \in 0 .. CounterMax - 1 /\ waited \in Nat
    /\ polls \in 0 .. MsPolls + PutPolls
    /\ expires \in 0 .. CounterMax - 1
    /\ uop \in {"none", "puts", "getc"} => waited = 0
    /\ uop = "timeout" =>
          /\ asked % 2 = 0 => expires > 0 /\ expires + 2 * waited = asked
          /\ asked % 2 = 1 => expires % 2 = 1
    /\ uop = "expired" => 2 * waited = asked

UartInv ==
    /\ port \in 0 .. 2
    /\ uop \in {"none", "puts", "getc", "timeout", "expired"}
    /\ QueuesHold
    /\ LimitHolds

LEMMA SeqWider ==
  ASSUME NEW V, NEW W, NEW s \in Seq(V), V \subseteq W PROVE s \in Seq(W)
  OBVIOUS

LEMMA AppendedEnd ==
  ASSUME NEW w, NEW t, NEW h, IsSequence(w), IsSequence(t)
  PROVE  /\ IsSequence(Append(t, h)) /\ Len(Append(t, h)) = Len(t) + 1
         /\ IsSequence(w \o t) /\ w \o Append(t, h) = Append(w \o t, h)
         /\ Len(w) \in Nat /\ Len(t) \in Nat /\ Len(w \o t) = Len(w) + Len(t)
<1>1. PICK V1 : w \in Seq(V1)
  BY DEF IsSequence
<1>2. PICK V2 : t \in Seq(V2)
  BY DEF IsSequence
<1> DEFINE V == V1 \cup V2 \cup {h}
<1>3. V1 \subseteq V /\ V2 \subseteq V /\ h \in V
  OBVIOUS
<1> HIDE DEF V
<1>4. w \in Seq(V) /\ t \in Seq(V) /\ h \in V
  BY <1>1, <1>2, <1>3, SeqWider
<1>5. Append(t, h) \in Seq(V) /\ w \o t \in Seq(V) /\ Len(Append(t, h)) = Len(t) + 1
      /\ Len(w) \in Nat /\ Len(t) \in Nat /\ Len(w \o t) = Len(w) + Len(t)
  BY <1>4
<1>6. w \o Append(t, h) = Append(w \o t, h)
  BY <1>4
<1>7. QED
  BY <1>5, <1>6 DEF IsSequence

LEMMA MovedHead ==
  ASSUME NEW w, NEW t, IsSequence(w), IsSequence(t), t # <<>>
  PROVE  /\ IsSequence(Append(w, Head(t))) /\ IsSequence(Tail(t))
         /\ Append(w, Head(t)) \o Tail(t) = w \o t
         /\ Len(w) \in Nat /\ Len(t) \in Nat
         /\ Len(Append(w, Head(t))) = Len(w) + 1 /\ Len(Tail(t)) = Len(t) - 1
<1>1. PICK V1 : w \in Seq(V1)
  BY DEF IsSequence
<1>2. PICK V2 : t \in Seq(V2)
  BY DEF IsSequence
<1> DEFINE V == V1 \cup V2
<1>3. V1 \subseteq V /\ V2 \subseteq V
  OBVIOUS
<1> HIDE DEF V
<1>4. w \in Seq(V) /\ t \in Seq(V)
  BY <1>1, <1>2, <1>3, SeqWider
<1>5. Head(t) \in V /\ Tail(t) \in Seq(V) /\ Len(Tail(t)) = Len(t) - 1
  BY <1>4
<1>6. Append(w, Head(t)) \in Seq(V) /\ Len(Append(w, Head(t))) = Len(w) + 1
      /\ Len(w) \in Nat /\ Len(t) \in Nat
  BY <1>4, <1>5
<1>7. Append(w, Head(t)) \o Tail(t) = w \o t
  BY <1>4, <1>5, <1>6
<1>8. QED
  BY <1>5, <1>6, <1>7 DEF IsSequence

LEMMA DepthType ==
  ASSUME NEW p \in 0 .. 2
  PROVE  Depth(p) \in Nat /\ Bits(p) \in Nat /\ 2^Bits(p) \in Nat \ {0} /\ 2^LevelBits \in Nat \ {0}
         /\ (p # 2 => Depth(p) = 2^LevelBits - 1 /\ Bits(p) = LevelBits)
<1>1. LevelBits \in Nat
  BY UartAssumption
<1>2. Bits(p) \in Nat
  BY <1>1 DEF Bits
<1>3. 2^Bits(p) \in Nat \ {0} /\ 2^LevelBits \in Nat \ {0}
  BY <1>1, <1>2, PowerType
<1>4. QED
  BY <1>2, <1>3 DEF Depth, Bits

\* The status register says when the transmit queue of the ports 0 and 1 is full,
\* and when the receive queue is empty.
LEMMA Status ==
  ASSUME port \in 0 .. 2, QueuesHold
  PROVE  /\ port # 2 => (LooksFull <=> Len(tx) = Depth(port))
         /\ Tstc => rx # <<>>
<1>1. Len(rx) \in Nat /\ Len(tx) \in Nat /\ Len(rx) <= Depth(port) /\ Len(tx) <= Depth(port)
  BY AppendedEnd DEF QueuesHold
<1>2. ASSUME port # 2
      PROVE  LooksFull <=> Len(tx) = Depth(port)
  <2> DEFINE n == 2^LevelBits
             r == Len(rx)
             t == Len(tx)
  <2>1. n \in Nat \ {0} /\ Depth(port) = n - 1 /\ Bits(port) = LevelBits
    BY <1>2, DepthType
  <2>2. StatusRegister = r + t * n
    BY <2>1 DEF StatusRegister
  <2>3. r \in 0 .. n - 1 /\ t \in 0 .. n - 1
    <3> HIDE DEF n
    <3>1. QED
      BY <1>1, <2>1
  <2> HIDE DEF n, r, t
  <2>4. r + t * n = t * n + r /\ t = 0 * n + t /\ t \in Int
    BY <2>1, <2>3
  <2>5. (r + t * n) \div n = t
    BY <2>1, <2>3, <2>4, DivModUnique
  <2>6. t % n = t
    BY <2>1, <2>3
  <2>7. LooksFull <=> t = n - 1
    BY <2>2, <2>5, <2>6 DEF LooksFull, n
  <2>8. QED
    BY <2>1, <2>7 DEF t
<1>3. ASSUME rx = <<>>
      PROVE  ~ Tstc
  <2> DEFINE n == 2^Bits(port)
             t == Len(tx)
  <2>1. n \in Nat \ {0}
    BY DepthType
  <2>2. StatusRegister = 0 + t * n
    BY <1>3 DEF StatusRegister
  <2>3. t \in Int /\ 0 % n = 0
    <3> HIDE DEF n
    <3>1. QED
      BY <1>1, <2>1
  <2>4. (0 + t * n) % n = 0
    <3> HIDE DEF n, t
    <3>1. QED
      BY <2>1, <2>3, ModOfSum
  <2>5. QED
    BY <2>2, <2>4 DEF Tstc
<1>4. QED
  BY <1>2, <1>3

\* A character is read: what came in stays what was read and what waits.
LEMMA CharacterRead ==
  ASSUME port \in 0 .. 2, QueuesHold, rx # <<>>, ReadCharacter
  PROVE  QueuesHold'
<1>1. got' = Append(got, Head(rx)) /\ rx' = Tail(rx) /\ UNCHANGED <<port, tx, arrived, wire, written>>
  BY DEF ReadCharacter
<1>2. got \in Seq(Nat) /\ rx \in Seq(Nat)
  BY DEF QueuesHold
<1>3. IsSequence(got) /\ IsSequence(rx)
  BY <1>2 DEF IsSequence
<1>4. Append(got, Head(rx)) \o Tail(rx) = got \o rx /\ Len(Tail(rx)) = Len(rx) - 1 /\ Len(rx) \in Nat
  BY <1>3, MovedHead
<1>5. Append(got, Head(rx)) \in Seq(Nat) /\ Tail(rx) \in Seq(Nat)
  BY <1>2
<1>6. got' \o rx' = got \o rx
  BY <1>1, <1>4
<1>7. Len(Tail(rx)) <= Depth(port)
  <2>1. Len(rx) <= Depth(port)
    BY DEF QueuesHold
  <2>2. Depth(port) \in Nat
    BY DepthType
  <2>3. QED
    BY <1>4, <2>1, <2>2
<1>8. QED
  BY <1>1, <1>5, <1>6, <1>7 DEF QueuesHold, Depth

LEMMA QueuesKept ==
  ASSUME QueuesHold, UNCHANGED <<port, rx, tx, arrived, got, wire, written>>
  PROVE  QueuesHold'
BY DEF QueuesHold, Depth

LEMMA UartStep ==
  ASSUME UartInv, [UartNext]_uartVars
  PROVE  UartInv'
<1>0. /\ MsPolls \in Nat \ {0} /\ PutPolls \in Nat \ {0} /\ CounterMax \in Nat \ {0}
      /\ CounterMax % 2 = 0 /\ Ports \subseteq 0 .. 2 /\ Expiries \subseteq 0 .. CounterMax - 1
  BY UartAssumption
<1>t. port \in 0 .. 2 /\ uop \in {"none", "puts", "getc", "timeout", "expired"} /\ QueuesHold /\ LimitHolds
  BY DEF UartInv
<1>d. Depth(port) \in Nat
  BY <1>t, DepthType
<1>1. ASSUME NEW p \in Ports, SerialInit(p)
      PROVE  UartInv'
  <2>1. /\ uop = "none" /\ arrived = 0 /\ written = <<>> /\ port' = p
        /\ UNCHANGED <<uop, text, polls, expires, got, written, asked, waited, rx, tx, arrived, wire>>
    BY <1>1 DEF SerialInit, deviceVars
  <2>2. p \in 0 .. 2 /\ Depth(p) \in Nat
    BY <1>0, DepthType
  <2>3. /\ IsSequence(wire) /\ IsSequence(tx) /\ got \in Seq(Nat) /\ rx \in Seq(Nat)
        /\ Len(wire) + Len(tx) <= Len(written) /\ Len(got \o rx) = arrived
    BY <1>t DEF QueuesHold
  <2>4. Len(wire) \in Nat /\ Len(tx) \in Nat /\ Len(written) = 0
    BY <2>1, <2>3, AppendedEnd
  <2>5. Len(tx) = 0 /\ Len(wire) = 0
    BY <2>3, <2>4
  <2>6. tx = <<>> /\ wire = <<>>
    BY <2>3, <2>5 DEF IsSequence
  <2>7. wire \o tx = written
    BY <2>1, <2>6
  <2>8. Len(rx) = 0
    BY <2>1, <2>3
  <2>9. QueuesHold'
    BY <1>t, <2>1, <2>2, <2>5, <2>7, <2>8 DEF QueuesHold
  <2>10. QED
    BY <1>t, <2>1, <2>2, <2>9 DEF UartInv, LimitHolds
<1>2. ASSUME NEW s \in Texts, SerialPuts(s)
      PROVE  UartInv'
  <2>1. QueuesHold'
    BY <1>2, <1>t, QueuesKept DEF SerialPuts, deviceVars
  <2>2. PutPolls \in 0 .. MsPolls + PutPolls
    BY <1>0
  <2>3. QED
    BY <1>2, <1>t, <2>1, <2>2 DEF SerialPuts, UartInv, LimitHolds, deviceVars
<1>3. CASE PutWrites
  <2>1. /\ uop = "puts" /\ ~ LooksFull /\ written' = Append(written, Head(text))
        /\ tx' = (IF Len(tx) < Depth(port) THEN Append(tx, Head(text)) ELSE tx)
        /\ UNCHANGED <<port, expires, rx, arrived, got, wire, asked, waited>>
    BY <1>3 DEF PutWrites
  <2>2. \/ uop' = "none" /\ polls' = 0
        \/ uop' = uop /\ polls' = PutPolls
    BY <1>3 DEF PutWrites, NextCharacter
  <2> DEFINE h == Head(text)
  <2>3. IsSequence(wire) /\ IsSequence(tx) /\ IsSequence(written) /\ Len(tx) <= Depth(port)
        /\ Len(wire) + Len(tx) <= Len(written) /\ (port # 2 => wire \o tx = written)
    BY <1>t DEF QueuesHold
  <2>4. /\ IsSequence(Append(tx, h)) /\ Len(Append(tx, h)) = Len(tx) + 1
        /\ wire \o Append(tx, h) = Append(wire \o tx, h)
        /\ Len(wire) \in Nat /\ Len(tx) \in Nat
    <3> HIDE DEF h
    <3>1. QED
      BY <2>3, AppendedEnd
  <2>5. IsSequence(Append(written, h)) /\ Len(Append(written, h)) = Len(written) + 1 /\ Len(written) \in Nat
    <3> HIDE DEF h
    <3>1. QED
      BY <2>3, AppendedEnd
  <2>6. QueuesHold'
    <3>1. CASE Len(tx) < Depth(port)
      <4>1. port # 2 => wire \o Append(tx, h) = Append(written, h)
        BY <2>3, <2>4
      <4>2. /\ Len(Append(tx, h)) <= Depth(port)
            /\ Len(wire) + Len(Append(tx, h)) <= Len(Append(written, h))
        BY <1>d, <2>3, <2>4, <2>5, <3>1
      <4>3. tx' = Append(tx, h) /\ written' = Append(written, h)
        BY <2>1, <3>1
      <4> HIDE DEF h
      <4>4. QED
        BY <1>t, <2>1, <2>4, <2>5, <4>1, <4>2, <4>3 DEF QueuesHold, Depth
    <3>2. CASE ~(Len(tx) < Depth(port))
      <4>1. port = 2
        <5>1. Len(tx) = Depth(port)
          BY <1>d, <2>3, <2>4, <3>2
        <5>2. QED
          BY <1>t, <2>1, <5>1, Status
      <4>2. Len(wire) + Len(tx) <= Len(Append(written, h))
        BY <2>3, <2>4, <2>5
      <4>3. tx' = tx /\ written' = Append(written, h)
        BY <2>1, <3>2
      <4> HIDE DEF h
      <4>4. QED
        BY <1>t, <2>1, <2>5, <4>1, <4>2, <4>3 DEF QueuesHold, Depth
    <3>3. QED
      BY <3>1, <3>2
  <2>7. 0 \in 0 .. MsPolls + PutPolls /\ PutPolls \in 0 .. MsPolls + PutPolls
    BY <1>0
  <2>8. LimitHolds'
    BY <1>t, <2>1, <2>2, <2>7 DEF LimitHolds
  <2>9. QED
    BY <1>t, <2>1, <2>2, <2>6, <2>8 DEF UartInv
<1>4. CASE PutPollsAgain
  <2>1. QueuesHold'
    BY <1>4, <1>t, QueuesKept DEF PutPollsAgain, deviceVars
  <2>2. polls - 1 \in 0 .. MsPolls + PutPolls
    BY <1>4, <1>0, <1>t DEF PutPollsAgain, LimitHolds
  <2>3. QED
    BY <1>4, <1>t, <2>1, <2>2 DEF PutPollsAgain, UartInv, LimitHolds, deviceVars
<1>5. CASE PutDrops
  <2>1. QueuesHold'
    BY <1>5, <1>t, QueuesKept DEF PutDrops, NextCharacter, deviceVars
  <2>2. 0 \in 0 .. MsPolls + PutPolls /\ PutPolls \in 0 .. MsPolls + PutPolls
    BY <1>0
  <2>3. QED
    BY <1>5, <1>t, <2>1, <2>2 DEF PutDrops, NextCharacter, UartInv, LimitHolds, deviceVars
<1>6. CASE CallGetc
  <2>1. QueuesHold'
    BY <1>6, <1>t, QueuesKept DEF CallGetc, deviceVars
  <2>2. QED
    BY <1>6, <1>t, <2>1 DEF CallGetc, UartInv, LimitHolds, deviceVars
<1>7. CASE GetcReads \/ TimeoutReads
  <2>1. Tstc /\ ReadCharacter
    BY <1>7 DEF GetcReads, TimeoutReads
  <2>2. QueuesHold'
    BY <1>t, <2>1, Status, CharacterRead
  <2>3. 0 \in 0 .. MsPolls + PutPolls /\ 0 \in 0 .. CounterMax - 1
    BY <1>0
  <2>4. LimitHolds'
    BY <2>1, <2>3 DEF ReadCharacter, LimitHolds
  <2>5. QED
    BY <1>t, <2>1, <2>2, <2>4 DEF ReadCharacter, UartInv
<1>8. ASSUME NEW n \in Expiries, CallGetcTimeout(n)
      PROVE  UartInv'
  <2>1. QueuesHold'
    BY <1>8, <1>t, QueuesKept DEF CallGetcTimeout, deviceVars
  <2>2. /\ n \in 0 .. CounterMax - 1 /\ n > 0 /\ waited = 0 /\ n + 2 * 0 = n
        /\ MsPolls \in 0 .. MsPolls + PutPolls
    BY <1>8, <1>0, <1>t DEF CallGetcTimeout, LimitHolds
  <2>3. LimitHolds'
    BY <1>8, <2>2 DEF CallGetcTimeout, LimitHolds
  <2>4. QED
    BY <1>8, <1>t, <2>1, <2>3 DEF CallGetcTimeout, UartInv
<1>9. CASE TimeoutPollsAgain
  <2>1. QueuesHold'
    BY <1>9, <1>t, QueuesKept DEF TimeoutPollsAgain, deviceVars
  <2>2. polls - 1 \in 0 .. MsPolls + PutPolls
    BY <1>9, <1>0, <1>t DEF TimeoutPollsAgain, LimitHolds
  <2>3. QED
    BY <1>9, <1>t, <2>1, <2>2 DEF TimeoutPollsAgain, UartInv, LimitHolds, deviceVars
<1>10. CASE NextMillisecond \/ TimeoutExpires
  <2>1. /\ uop = "timeout" /\ asked \in 0 .. CounterMax - 1 /\ waited \in Nat
        /\ polls \in 0 .. MsPolls + PutPolls /\ expires \in 0 .. CounterMax - 1
        /\ (asked % 2 = 0 => expires > 0 /\ expires + 2 * waited = asked)
        /\ (asked % 2 = 1 => expires % 2 = 1)
    BY <1>10, <1>t DEF NextMillisecond, TimeoutExpires, LimitHolds
  <2>2. QueuesHold'
    BY <1>10, <1>t, QueuesKept DEF NextMillisecond, TimeoutExpires, deviceVars
  <2>3. asked % 2 = 0 \/ asked % 2 = 1
    BY <2>1
  <2>4. LessTwice(expires) \in 0 .. CounterMax - 1
    BY <1>0, <2>1 DEF LessTwice
  <2>5. ASSUME asked % 2 = 0
        PROVE  LessTwice(expires) = expires - 2 /\ expires >= 2
    <3>1. expires >= 2
      BY <2>1, <2>5
    <3>2. expires - 2 \in 0 .. CounterMax - 1 /\ expires + CounterMax - 2 = (expires - 2) + CounterMax
      BY <1>0, <2>1, <3>1
    <3>3. ((expires - 2) + CounterMax) % CounterMax = expires - 2
      BY <1>0, <3>2, ModOnce
    <3>4. QED
      BY <3>1, <3>2, <3>3 DEF LessTwice
  <2>6. ASSUME asked % 2 = 1
        PROVE  LessTwice(expires) % 2 = 1
    <3>1. expires % 2 = 1
      BY <2>1, <2>6
    <3>2. CASE expires = 1
      <4>1. CounterMax - 1 \in 0 .. CounterMax - 1 /\ 1 + CounterMax - 2 = CounterMax - 1
        BY <1>0
      <4>2. (CounterMax - 1) % CounterMax = CounterMax - 1
        BY <1>0, <4>1
      <4>3. (CounterMax - 1) % 2 = 1
        BY <1>0
      <4>4. QED
        BY <3>2, <4>1, <4>2, <4>3 DEF LessTwice
    <3>3. CASE expires # 1
      <4>1. expires - 2 \in 0 .. CounterMax - 1 /\ expires + CounterMax - 2 = (expires - 2) + CounterMax
        BY <1>0, <2>1, <3>1, <3>3
      <4>2. ((expires - 2) + CounterMax) % CounterMax = expires - 2
        BY <1>0, <4>1, ModOnce
      <4>3. (expires - 2) % 2 = 1
        BY <2>1, <3>1
      <4>4. QED
        BY <4>1, <4>2, <4>3 DEF LessTwice
    <3>4. QED
      BY <3>2, <3>3
  <2>7. CASE NextMillisecond
    <3>1. /\ LessTwice(expires) # 0 /\ expires' = LessTwice(expires) /\ polls' = MsPolls
          /\ waited' = (IF waited < CounterMax THEN waited + 1 ELSE waited)
          /\ UNCHANGED <<port, uop, asked>>
      BY <2>7 DEF NextMillisecond
    <3>2. MsPolls \in 0 .. MsPolls + PutPolls
      BY <1>0
    <3>3. CASE asked % 2 = 0
      <4>1. /\ waited < CounterMax /\ expires - 2 > 0 /\ (expires - 2) + 2 * (waited + 1) = asked
            /\ waited + 1 \in Nat /\ asked % 2 # 1
        BY <1>0, <2>1, <2>4, <2>5, <3>1, <3>3
      <4>2. waited' = waited + 1 /\ expires' = expires - 2 /\ expires - 2 \in 0 .. CounterMax - 1
        BY <2>4, <2>5, <3>1, <3>3, <4>1
      <4>3. LimitHolds'
        BY <2>1, <3>1, <3>2, <4>1, <4>2 DEF LimitHolds
      <4>4. QED
        BY <1>t, <2>2, <3>1, <4>3 DEF UartInv
    <3>4. CASE asked % 2 = 1
      <4>1. asked % 2 # 0 /\ waited + 1 \in Nat
        BY <2>1, <3>4
      <4>2. LimitHolds'
        BY <2>1, <2>4, <2>6, <3>1, <3>2, <3>4, <4>1 DEF LimitHolds
      <4>3. QED
        BY <1>t, <2>2, <3>1, <4>2 DEF UartInv
    <3>5. QED
      BY <2>3, <3>3, <3>4
  <2>8. CASE TimeoutExpires
    <3>1. /\ LessTwice(expires) = 0 /\ uop' = "expired" /\ waited' = waited + 1
          /\ UNCHANGED <<port, polls, expires, asked>>
      BY <2>8 DEF TimeoutExpires
    <3>2. asked % 2 = 0
      BY <2>3, <2>6, <3>1
    <3>3. 2 * (waited + 1) = asked /\ waited + 1 \in Nat
      BY <2>1, <2>5, <3>1, <3>2
    <3>4. LimitHolds'
      BY <2>1, <3>1, <3>3 DEF LimitHolds
    <3>5. QED
      BY <1>t, <2>2, <3>1, <3>4 DEF UartInv
  <2>9. QED
    BY <1>10, <2>7, <2>8
<1>11. CASE ExpiredReturns
  <2>1. QueuesHold'
    BY <1>11, <1>t, QueuesKept DEF ExpiredReturns, deviceVars
  <2>2. 0 \in 0 .. MsPolls + PutPolls /\ 0 \in 0 .. CounterMax - 1
    BY <1>0
  <2>3. QED
    BY <1>11, <1>t, <2>1, <2>2 DEF ExpiredReturns, UartInv, LimitHolds
<1>12. CASE DeviceReceives
  <2>1. /\ Len(rx) < Depth(port) /\ arrived' = arrived + 1 /\ rx' = Append(rx, arrived + 1)
        /\ UNCHANGED <<port, uop, text, polls, expires, tx, got, wire, written, asked, waited>>
    BY <1>12 DEF DeviceReceives
  <2>2. /\ got \in Seq(Nat) /\ rx \in Seq(Nat) /\ arrived \in Nat /\ Len(got \o rx) = arrived
        /\ \A k \in 1 .. Len(got \o rx) : (got \o rx)[k] = k
    BY <1>t DEF QueuesHold
  <2> DEFINE m == Append(rx, arrived + 1)
  <2>3. /\ got \o m = Append(got \o rx, arrived + 1) /\ Len(m) = Len(rx) + 1 /\ Len(rx) \in Nat
        /\ m \in Seq(Nat) /\ got \o rx \in Seq(Nat)
    BY <2>2
  <2>4. Len(got \o m) = arrived + 1 /\ Len(m) <= Depth(port) /\ arrived + 1 \in Nat
    <3>1. Len(Append(got \o rx, arrived + 1)) = Len(got \o rx) + 1
      BY <2>3
    <3>2. Len(m) <= Depth(port)
      <4> HIDE DEF m
      <4>1. QED
        BY <1>d, <2>1, <2>3
    <3>3. QED
      BY <2>2, <2>3, <3>1, <3>2
  <2>5. ASSUME NEW k \in 1 .. Len(got \o m)
        PROVE  (got \o m)[k] = k
    BY <2>2, <2>3, <2>4
  <2>6. rx' = m /\ arrived' = arrived + 1
    BY <2>1
  <2> HIDE DEF m
  <2>7. QueuesHold'
    BY <1>t, <2>1, <2>3, <2>4, <2>5, <2>6 DEF QueuesHold, Depth
  <2>8. QED
    BY <1>t, <2>1, <2>7 DEF UartInv, LimitHolds
<1>13. CASE DeviceSends
  <2>1. /\ tx # <<>> /\ tx' = Tail(tx) /\ wire' = Append(wire, Head(tx))
        /\ UNCHANGED <<port, uop, text, polls, expires, rx, arrived, got, written, asked, waited>>
    BY <1>13 DEF DeviceSends
  <2>2. IsSequence(wire) /\ IsSequence(tx) /\ IsSequence(written) /\ Len(tx) <= Depth(port)
        /\ Len(wire) + Len(tx) <= Len(written) /\ (port # 2 => wire \o tx = written)
    BY <1>t DEF QueuesHold
  <2> DEFINE w == Append(wire, Head(tx))
             r == Tail(tx)
  <2>3. /\ IsSequence(w) /\ IsSequence(r) /\ w \o r = wire \o tx
        /\ Len(wire) \in Nat /\ Len(tx) \in Nat /\ Len(w) = Len(wire) + 1 /\ Len(r) = Len(tx) - 1
    BY <2>1, <2>2, MovedHead
  <2>4. Len(written) \in Nat
    BY <2>2, AppendedEnd
  <2>5. tx' = r /\ wire' = w
    BY <2>1
  <2> HIDE DEF w, r
  <2>6. Len(r) <= Depth(port) /\ Len(w) + Len(r) <= Len(written) /\ (port # 2 => w \o r = written)
    BY <1>d, <2>2, <2>3, <2>4
  <2>7. QueuesHold'
    BY <1>t, <2>1, <2>3, <2>5, <2>6 DEF QueuesHold, Depth
  <2>8. QED
    BY <1>t, <2>1, <2>7 DEF UartInv, LimitHolds
<1>14. CASE UNCHANGED uartVars
  <2>1. QueuesHold'
    BY <1>14, <1>t, QueuesKept DEF uartVars
  <2>2. QED
    BY <1>14, <1>t, <2>1 DEF uartVars, UartInv, LimitHolds
<1>15. QED
  BY <1>1, <1>2, <1>3, <1>4, <1>5, <1>6, <1>7, <1>8, <1>9, <1>10, <1>11, <1>12, <1>13, <1>14
  DEF UartNext, UartRun, UartCall

LEMMA UartInvariant == UartSpec => []UartInv
<1>1. UartInit => UartInv
  <2> SUFFICES ASSUME UartInit PROVE UartInv
    OBVIOUS
  <2>1. /\ port = 1 /\ uop = "none" /\ polls = 0 /\ expires = 0 /\ rx = <<>> /\ tx = <<>>
        /\ arrived = 0 /\ got = <<>> /\ wire = <<>> /\ written = <<>> /\ asked = 0 /\ waited = 0
    BY DEF UartInit
  <2>2. IsSequence(<<>>)
    BY DEF IsSequence
  <2>3. Depth(1) \in Nat /\ 0 <= Depth(1)
    BY DepthType
  <2>4. <<>> \o <<>> = <<>> /\ Len(<<>>) = 0 /\ <<>> \in Seq(Nat)
    OBVIOUS
  <2>5. QueuesHold
    BY <2>1, <2>2, <2>3, <2>4 DEF QueuesHold
  <2>6. 0 \in 0 .. CounterMax - 1 /\ 0 \in 0 .. MsPolls + PutPolls
    BY UartAssumption
  <2>7. LimitHolds
    BY <2>1, <2>6 DEF LimitHolds
  <2>8. QED
    BY <2>1, <2>5, <2>7 DEF UartInv
<1>2. QED
  BY <1>1, UartStep, PTL DEF UartSpec

\* The queues hold no more than their levels can say, and the counters are those
\* of a call.
THEOREM UartTypeCorrect == UartSpec => []UartTypeOK
<1>1. UartInv => UartTypeOK
  BY DEF UartInv, UartTypeOK, QueuesHold, LimitHolds
<1>2. QED
  BY <1>1, UartInvariant, PTL

\* For queues of every size, every text and whatever the device does: nothing
\* sent on the ports 0 and 1 is lost or reordered, characters are read once each
\* in their order, and a receive with a limit gives up after half of it.
THEOREM UartCorrect == UartSpec => []UartOK
<1>1. UartInv => UartOK
  BY DEF UartInv, UartOK, QueuesHold, LimitHolds
<1>2. QED
  BY <1>1, UartInvariant, PTL
-----------------------------------------------------------------------------
(* Clock.                                                                  *)

\* q is the whole part of n / d.
FloorOf(q, n, d) == q \in Nat /\ q * d <= n /\ n < (q + 1) * d

LEMMA FloorExists ==
  ASSUME NEW n \in Nat, NEW d \in Nat \ {0} PROVE FloorOf(n \div d, n, d)
<1> DEFINE q == n \div d
<1>1. q \in Nat /\ n % d \in 0 .. d - 1 /\ n = q * d + (n % d)
  BY DivModNat
<1>2. PICK r \in 0 .. d - 1 : n = q * d + r
  BY <1>1
<1> HIDE DEF q
<1>3. (q + 1) * d = q * d + d
  BY <1>1
<1>4. q * d <= n /\ n < (q + 1) * d
  BY <1>1, <1>2, <1>3
<1>5. QED
  BY <1>1, <1>4 DEF FloorOf, q

LEMMA FloorUnique ==
  ASSUME NEW n \in Nat, NEW d \in Nat \ {0}, NEW q, FloorOf(q, n, d) PROVE n \div d = q
<1>1. q \in Nat /\ q * d <= n /\ n < (q + 1) * d
  BY DEF FloorOf
<1>2. (q + 1) * d = q * d + d /\ q * d \in Nat
  BY <1>1
<1>3. n - (q * d) \in 0 .. d - 1 /\ n = q * d + (n - (q * d))
  BY <1>1, <1>2
<1>4. QED
  BY <1>1, <1>3, DivModUnique

\* A whole part of a whole part is one of the whole quotient.
LEMMA FloorNested ==
  ASSUME NEW n \in Nat, NEW d \in Nat \ {0}, NEW e \in Nat \ {0}, NEW q, NEW p,
         FloorOf(q, n, d), FloorOf(p, q, e)
  PROVE  FloorOf(p, n, d * e)
<1>1. /\ q \in Nat /\ q * d <= n /\ n < (q + 1) * d
      /\ p \in Nat /\ p * e <= q /\ q < (p + 1) * e
  BY DEF FloorOf
<1>2. p * e \in Nat /\ (p + 1) * e \in Nat /\ q + 1 \in Nat /\ q + 1 <= (p + 1) * e
  BY <1>1
<1>3. (p * e) * d <= q * d /\ (q + 1) * d <= ((p + 1) * e) * d
  BY <1>1, <1>2, ProductMonotonic
<1>4. (p * e) * d = p * (d * e) /\ ((p + 1) * e) * d = (p + 1) * (d * e)
  BY <1>1
<1>5. /\ (p * e) * d \in Nat /\ q * d \in Nat /\ (q + 1) * d \in Nat /\ ((p + 1) * e) * d \in Nat
  BY <1>1, <1>2
<1>6. p * (d * e) <= n /\ n < (p + 1) * (d * e)
  BY <1>1, <1>3, <1>4, <1>5
<1>7. QED
  BY <1>1, <1>6 DEF FloorOf

LEMMA ProductType ==
  ASSUME NEW x \in Nat \ {0}, NEW y \in Nat \ {0} PROVE x * y \in Nat \ {0}
  OBVIOUS

PllRecord == [nr : 0 .. 31, nf : 0 .. 127, no : 0 .. 3]

TreeType == [pll : [1 .. 3 -> PllRecord],
             peri : [sel : 0 .. 3, ref : 0 .. 15, peri : 0 .. 15],
             bus : [sel : 0 .. 7, axi : 0 .. 31, bus : 0 .. 15]]

ClockInv ==
    /\ matchPort \in -1 .. 2
    /\ tree \in TreeType
    /\ matchPort = -1 => umr = 0
    /\ matchPort # -1 => \E u \in 0 .. 2, g \in Garbage :
                            matchPort = u /\ umr = MatchValue(u, UartClk(u, g))

LEMMA ClockConstants ==
  /\ ULongRange \in Nat \ {0} /\ Sysin \in Nat \ {0} /\ Baud \in Nat \ {0}
  /\ Garbage \subseteq 0 .. ULongRange - 1
  BY ClockAssumption

\* The powers of two of the output divisor.
LEMMA PllPower ==
  ASSUME NEW p \in PllRecord
  PROVE  2^p.no = <<1, 2, 4, 8>>[p.no + 1] /\ 2^p.no \in Nat \ {0}
<1>1. p.no = 0 \/ p.no = 1 \/ p.no = 2 \/ p.no = 3
  BY DEF PllRecord
<1>2. 2^0 = 1 /\ 2^1 = 2 /\ 2^2 = 4 /\ 2^3 = 8
  OBVIOUS
<1>3. CASE p.no = 0
  BY <1>2, <1>3
<1>4. CASE p.no = 1
  BY <1>2, <1>4
<1>5. CASE p.no = 2
  BY <1>2, <1>5
<1>6. CASE p.no = 3
  BY <1>2, <1>6
<1>7. QED
  BY <1>1, <1>3, <1>4, <1>5, <1>6

\* The rate of a PLL whose product fits an unsigned long.
LEMMA PllRateRight ==
  ASSUME NEW p \in PllRecord, Sysin * (p.nf + 1) * 2 < ULongRange
  PROVE  /\ Sysin * (p.nf + 1) * 2 \in Nat
         /\ (p.nr + 1) * <<1, 2, 4, 8>>[p.no + 1] \in Nat \ {0}
         /\ FloorOf(PllRate(p), Sysin * (p.nf + 1) * 2, (p.nr + 1) * <<1, 2, 4, 8>>[p.no + 1])
<1>1. p.nr \in 0 .. 31 /\ p.nf \in 0 .. 127 /\ p.no \in 0 .. 3
  BY DEF PllRecord
<1> DEFINE n == Sysin * (p.nf + 1) * 2
           o == <<1, 2, 4, 8>>[p.no + 1]
           d == (p.nr + 1) * o
<1>2. n \in 0 .. ULongRange - 1 /\ Sysin * Multiplier(p) = n
  BY <1>1, ClockConstants DEF Multiplier
<1>3. 2^p.no = o /\ o \in Nat \ {0}
  BY PllPower
<1>4. Divisor(p) = d
  BY <1>3 DEF Divisor, OutputDivisor
<1>5. d \in Nat \ {0}
  <2> HIDE DEF o
  <2>1. QED
    BY <1>1, <1>3, ProductType
<1>6. n % ULongRange = n
  <2> HIDE DEF n
  <2>1. QED
    BY <1>2, ClockConstants
<1>7. PllRate(p) = n \div d
  BY <1>2, <1>4, <1>6 DEF PllRate
<1>8. FloorOf(n \div d, n, d)
  <2> HIDE DEF n, d
  <2>1. QED
    BY <1>2, <1>5, FloorExists, ClockConstants
<1>9. n \in Nat /\ d \in Nat \ {0} /\ FloorOf(PllRate(p), n, d)
  <2> HIDE DEF n, d
  <2>1. QED
    BY <1>2, <1>5, <1>7, <1>8
<1>10. QED
  BY <1>9, Zenon DEF n, d, o

\* The clock of a port is the whole part of the clock of the tree.
LEMMA UartClkRight ==
  ASSUME tree \in TreeType, NEW port0 \in 0 .. 2, NEW g, HasSource(port0),
         Numerator(port0) < ULongRange
  PROVE  /\ Numerator(port0) \in Nat /\ Denominator(port0) \in Nat \ {0}
         /\ FloorOf(UartClk(port0, g), Numerator(port0), Denominator(port0))
<1> DEFINE n == Numerator(port0)
           d0 == IF FromSysin(port0) THEN 1
                 ELSE (SourcePll(port0).nr + 1) * <<1, 2, 4, 8>>[SourcePll(port0).no + 1]
           c0 == IF port0 = 2 THEN AxiSource ELSE PeriSource(g)
           e1 == IF port0 = 2 THEN tree.bus.axi + 1 ELSE tree.peri.ref + 1
           e2 == IF port0 = 2 THEN tree.bus.bus + 1 ELSE tree.peri.peri + 1
<1>1. /\ tree.pll \in [1 .. 3 -> PllRecord]
      /\ tree.peri \in [sel : 0 .. 3, ref : 0 .. 15, peri : 0 .. 15]
      /\ tree.bus \in [sel : 0 .. 7, axi : 0 .. 31, bus : 0 .. 15]
  BY DEF TreeType
<1>2. e1 \in Nat \ {0} /\ e2 \in Nat \ {0}
  BY <1>1
<1>3. n \in Nat /\ d0 \in Nat \ {0} /\ FloorOf(c0, n, d0)
  <2>1. CASE FromSysin(port0)
    <3>1. port0 = 2 /\ tree.bus.sel = 0
      BY <2>1 DEF FromSysin
    <3>2. c0 = Sysin /\ n = Sysin /\ d0 = 1
      BY <2>1, <3>1 DEF AxiSource, Numerator
    <3> HIDE DEF c0, n, d0
    <3>3. QED
      BY <3>2, ClockConstants DEF FloorOf
  <2>2. CASE ~ FromSysin(port0)
    <3>1. SourcePll(port0) \in PllRecord /\ c0 = PllRate(SourcePll(port0))
      <4>1. CASE port0 = 2
        <5>1. tree.bus.sel \in 4 .. 6 /\ tree.bus.sel # 0
          BY <2>2, <4>1, <1>1 DEF FromSysin, HasSource
        <5>2. tree.bus.sel - 3 \in 1 .. 3
          BY <5>1
        <5>3. SourcePll(port0) = tree.pll[tree.bus.sel - 3]
          BY <4>1 DEF SourcePll
        <5>4. AxiSource = PllRate(tree.pll[tree.bus.sel - 3])
          BY <5>1 DEF AxiSource
        <5>5. QED
          BY <1>1, <4>1, <5>2, <5>3, <5>4
      <4>2. CASE port0 # 2
        <5>1. tree.peri.sel \in 0 .. 2 /\ tree.peri.sel + 1 \in 1 .. 3
          BY <4>2, <1>1 DEF HasSource
        <5>2. SourcePll(port0) = tree.pll[tree.peri.sel + 1]
          BY <4>2 DEF SourcePll
        <5>3. PeriSource(g) = PllRate(tree.pll[tree.peri.sel + 1])
          BY <5>1 DEF PeriSource
        <5>4. QED
          BY <1>1, <4>2, <5>1, <5>2, <5>3
      <4>3. QED
        BY <4>1, <4>2
    <3>2. n = Sysin * (SourcePll(port0).nf + 1) * 2
      BY <2>2 DEF Numerator
    <3>3. d0 = (SourcePll(port0).nr + 1) * <<1, 2, 4, 8>>[SourcePll(port0).no + 1]
      BY <2>2
    <3>4. Sysin * (SourcePll(port0).nf + 1) * 2 < ULongRange
      BY <3>2
    <3>5. PICK p : p = SourcePll(port0)
      OBVIOUS
    <3>6. /\ Sysin * (p.nf + 1) * 2 \in Nat
          /\ (p.nr + 1) * <<1, 2, 4, 8>>[p.no + 1] \in Nat \ {0}
          /\ FloorOf(PllRate(p), Sysin * (p.nf + 1) * 2, (p.nr + 1) * <<1, 2, 4, 8>>[p.no + 1])
      BY <3>1, <3>4, <3>5, PllRateRight
    <3> HIDE DEF c0, n, d0
    <3>7. QED
      BY <3>1, <3>2, <3>3, <3>5, <3>6
  <2>3. QED
    BY <2>1, <2>2
<1>4. UartClk(port0, g) = (c0 \div e1) \div e2
  BY DEF UartClk, Hclk, TimerClk
<1>5. Denominator(port0) = d0 * (e1 * e2)
  BY DEF Denominator
<1> HIDE DEF n, d0, c0, e1, e2
<1>6. c0 \in Nat
  BY <1>3 DEF FloorOf
<1>7. FloorOf(c0 \div e1, c0, e1) /\ c0 \div e1 \in Nat
  BY <1>2, <1>6, FloorExists DEF FloorOf
<1>8. FloorOf((c0 \div e1) \div e2, c0 \div e1, e2)
  BY <1>2, <1>7, FloorExists
<1>9. FloorOf(c0 \div e1, n, d0 * e1) /\ d0 * e1 \in Nat \ {0}
  BY <1>2, <1>3, <1>7, FloorNested, ProductType
<1>10. FloorOf((c0 \div e1) \div e2, n, (d0 * e1) * e2) /\ (d0 * e1) * e2 \in Nat \ {0}
  BY <1>2, <1>3, <1>8, <1>9, FloorNested, ProductType
<1>11. (d0 * e1) * e2 = d0 * (e1 * e2)
  BY <1>2, <1>3
<1>12. QED
  BY <1>3, <1>4, <1>5, <1>10, <1>11 DEF n

\* The match register of the ports 0 and 1.
LEMMA MatchNarrow ==
  ASSUME NEW n \in Nat, NEW d \in Nat \ {0}, NEW c, FloorOf(c, n, d), n < ULongRange,
         n >= 16 * Baud * d
  PROVE  LET u == ((c \div 16) \div Baud + ULongRange - 1) % ULongRange
         IN  (u + 1) * 16 * Baud * d <= n /\ n < (u + 2) * 16 * Baud * d
<1> DEFINE h == c \div 16
           v == h \div Baud
           e == (d * 16) * Baud
<1>0. ULongRange \in Nat \ {0} /\ Baud \in Nat \ {0} /\ c \in Nat /\ 16 \in Nat \ {0}
  BY ClockConstants DEF FloorOf
<1>1. FloorOf(h, c, 16) /\ h \in Nat
  BY <1>0, FloorExists DEF FloorOf
<1>2. FloorOf(v, h, Baud) /\ v \in Nat
  BY <1>0, <1>1, FloorExists DEF FloorOf
<1>3. FloorOf(h, n, d * 16) /\ d * 16 \in Nat \ {0}
  <2> HIDE DEF h
  <2>1. QED
    BY <1>0, <1>1, FloorNested, ProductType
<1>4. FloorOf(v, n, e) /\ e \in Nat \ {0}
  <2> HIDE DEF h, v
  <2>1. QED
    BY <1>0, <1>2, <1>3, FloorNested, ProductType
<1>5. 16 * Baud * d = e
  BY <1>0
<1> HIDE DEF h, v, e
<1>6. v * e <= n /\ n < (v + 1) * e /\ n >= e
  BY <1>4, <1>5 DEF FloorOf
<1>7. v >= 1
  <2>1. CASE v = 0
    <3>1. (v + 1) * e = e
      BY <1>4, <2>1
    <3>2. QED
      BY <1>4, <1>6, <3>1
  <2>2. QED
    BY <1>2, <2>1
<1>8. v <= n
  <2>1. v * 1 <= v * e
    BY <1>2, <1>4
  <2>2. QED
    BY <1>2, <1>4, <1>6, <2>1
<1>9. (v + ULongRange - 1) % ULongRange = v - 1
  <2>1. v - 1 \in 0 .. ULongRange - 1 /\ v + ULongRange - 1 = (v - 1) + ULongRange
    BY <1>0, <1>2, <1>7, <1>8
  <2>2. QED
    BY <1>0, <2>1, ModOnce
<1>10. /\ ((v - 1) + 1) * 16 * Baud * d = v * e
       /\ ((v - 1) + 2) * 16 * Baud * d = (v + 1) * e
  BY <1>0, <1>2 DEF e
<1>11. ((v - 1) + 1) * 16 * Baud * d <= n /\ n < ((v - 1) + 2) * 16 * Baud * d
  BY <1>6, <1>10
<1>12. QED
  BY <1>9, <1>11 DEF v, h

\* A clock of n / d that port 2 can divide, and the match register u for it.
WideClock(n, d) == n >= 16 * Baud * d /\ 16 * n < ULongRange * d
WideMatch(u, n, d) ==
    (u + 256) * Baud <= 16 * (n \div d) /\ 16 * (n \div d) < (u + 257) * Baud

LEMMA MatchWide ==
  ASSUME NEW n \in Nat, NEW d \in Nat \ {0}, NEW c, FloorOf(c, n, d), WideClock(n, d),
         NEW u, u = MatchValue(2, c)
  PROVE  WideMatch(u, n, d)
<1> DEFINE x == 16 * c
           v == x \div Baud
<1> USE DEF WideClock, WideMatch
<1>0. ULongRange \in Nat \ {0} /\ Baud \in Nat \ {0} /\ c \in Nat /\ c * d <= n /\ n < (c + 1) * d
  BY ClockConstants DEF FloorOf
<1>1. n \div d = c
  BY FloorUnique
<1>2. x < ULongRange
  <2>1. (16 * c) * d = 16 * (c * d) /\ c * d \in Nat
    BY <1>0
  <2>2. (16 * c) * d < ULongRange * d
    BY <1>0, <2>1
  <2>3. CASE 16 * c >= ULongRange
    <3>1. ULongRange * d <= (16 * c) * d
      BY <1>0, <2>3, ProductMonotonic
    <3>2. QED
      BY <1>0, <2>2, <3>1
  <2>4. QED
    BY <1>0, <2>3
<1>3. c >= 16 * Baud
  <2>1. (16 * Baud) * d < (c + 1) * d
    BY <1>0
  <2>2. CASE c + 1 <= 16 * Baud
    <3>1. (c + 1) * d <= (16 * Baud) * d
      BY <1>0, <2>2, ProductMonotonic
    <3>2. QED
      BY <1>0, <2>1, <3>1
  <2>3. QED
    BY <1>0, <2>2
<1>4. x \in 0 .. ULongRange - 1 /\ c * 16 = x
  BY <1>0, <1>2
<1>5. (c * 16) % ULongRange = x
  <2>1. (c * 16) % ULongRange = x % ULongRange
    BY <1>4
  <2> HIDE DEF x
  <2>2. QED
    BY <1>0, <1>4, <2>1
<1>6. FloorOf(v, x, Baud)
  <2> HIDE DEF x
  <2>1. x \in Nat
    BY <1>0, <1>4
  <2>2. QED
    BY <1>0, <2>1, FloorExists
<1>7. x >= 256 * Baud
  BY <1>0, <1>3
<1> HIDE DEF x, v
<1>8. v \in Nat /\ v * Baud <= x /\ x < (v + 1) * Baud
  BY <1>6 DEF FloorOf
<1>9. v >= 256
  <2>1. CASE v + 1 <= 256
    <3>1. (v + 1) * Baud <= 256 * Baud
      BY <1>0, <1>8, <2>1, ProductMonotonic
    <3>2. QED
      BY <1>0, <1>4, <1>7, <1>8, <3>1
  <2>2. QED
    BY <1>8, <2>1
<1>10. v <= x
  <2>1. v * 1 <= v * Baud
    BY <1>0, <1>8
  <2>2. QED
    BY <1>0, <1>4, <1>8, <2>1
<1>11. (v + ULongRange - 256) % ULongRange = v - 256
  <2>1. v - 256 \in 0 .. ULongRange - 1 /\ v + ULongRange - 256 = (v - 256) + ULongRange
    BY <1>0, <1>4, <1>8, <1>9, <1>10
  <2>2. QED
    BY <1>0, <2>1, ModOnce
<1>12. ((v - 256) + 256) = v /\ ((v - 256) + 257) = v + 1
  BY <1>8
<1>13. ((v - 256) + 256) * Baud <= 16 * c /\ 16 * c < ((v - 256) + 257) * Baud
  BY <1>8, <1>12 DEF x
<1>14. u = v - 256
  BY <1>5, <1>11 DEF v, MatchValue
<1>15. QED
  BY <1>1, <1>13, <1>14

\* Whatever the registers hold, the clock is a number and the match register
\* an unsigned long.
LEMMA UartClkType ==
  ASSUME tree \in TreeType, NEW port0 \in 0 .. 2, NEW g \in Nat
  PROVE  UartClk(port0, g) \in Nat
<1>1. /\ tree.pll \in [1 .. 3 -> PllRecord]
      /\ tree.peri \in [sel : 0 .. 3, ref : 0 .. 15, peri : 0 .. 15]
      /\ tree.bus \in [sel : 0 .. 7, axi : 0 .. 31, bus : 0 .. 15]
  BY DEF TreeType
<1>2. ASSUME NEW p \in PllRecord PROVE PllRate(p) \in Nat
  <2>1. PICK o \in Nat \ {0} : o = 2^p.no
    BY PllPower
  <2>2. p.nr + 1 \in Nat \ {0} /\ p.nf \in Nat
    BY DEF PllRecord
  <2>3. PICK d \in Nat \ {0} : d = Divisor(p)
    BY <2>1, <2>2, ProductType DEF Divisor, OutputDivisor
  <2>4. PICK n \in Nat : n = Sysin * Multiplier(p)
    BY <2>2, ClockConstants DEF Multiplier
  <2>5. n % ULongRange \in Nat
    BY ClockConstants
  <2>6. PICK m \in Nat : m = n % ULongRange
    BY <2>5
  <2>7. m \div d \in Nat
    BY FloorExists DEF FloorOf
  <2>8. QED
    BY <2>3, <2>4, <2>6, <2>7 DEF PllRate
<1>3. PeriSource(g) \in Nat
  BY <1>1, <1>2 DEF PeriSource
<1>4. AxiSource \in Nat
  <2>1. CASE tree.bus.sel = 0
    BY <2>1, ClockConstants DEF AxiSource
  <2>2. CASE tree.bus.sel \in 4 .. 6
    BY <1>1, <1>2, <2>2 DEF AxiSource
  <2>3. CASE tree.bus.sel \notin {0} \cup 4 .. 6
    BY <2>3 DEF AxiSource
  <2>4. QED
    BY <2>1, <2>2, <2>3
<1>5. ASSUME NEW x \in Nat, NEW y \in 0 .. 31 PROVE x \div (y + 1) \in Nat
  <2>1. PICK d \in Nat \ {0} : d = y + 1
    OBVIOUS
  <2>2. x \div d \in Nat
    BY FloorExists DEF FloorOf
  <2>3. QED
    BY <2>1, <2>2
<1>6. /\ tree.peri.ref \in 0 .. 31 /\ tree.peri.peri \in 0 .. 31
      /\ tree.bus.axi \in 0 .. 31 /\ tree.bus.bus \in 0 .. 31
  BY <1>1
<1>7. TimerClk(g) \in Nat
  <2>1. PeriSource(g) \div (tree.peri.ref + 1) \in Nat
    BY <1>3, <1>5, <1>6
  <2>2. QED
    BY <2>1, <1>5, <1>6 DEF TimerClk
<1>8. Hclk \in Nat
  <2>1. AxiSource \div (tree.bus.axi + 1) \in Nat
    BY <1>4, <1>5, <1>6
  <2>2. QED
    BY <2>1, <1>5, <1>6 DEF Hclk
<1>9. QED
  BY <1>7, <1>8 DEF UartClk

LEMMA MatchType ==
  ASSUME NEW port0 \in 0 .. 2, NEW clk \in Nat
  PROVE  MatchValue(port0, clk) \in 0 .. ULongRange - 1
<1>1. PICK w \in Nat \ {0} : w = ULongRange
  BY ClockConstants
<1>2. ASSUME NEW x \in Nat PROVE x \div Baud \in Nat /\ x \div 16 \in Nat
  BY ClockConstants, FloorExists DEF FloorOf
<1>3. ASSUME NEW x \in Int PROVE x % ULongRange \in 0 .. ULongRange - 1
  BY ClockConstants
<1>4. CASE port0 = 2
  <2>1. PICK v \in Nat : v = ((clk * 16) % ULongRange) \div Baud
    <3>1. clk * 16 \in Int
      OBVIOUS
    <3>2. (clk * 16) % ULongRange \in Nat
      BY <1>3, <3>1, ClockConstants
    <3>3. QED
      BY <3>2, <1>2
  <2>2. v + ULongRange - 256 \in Int
    BY ClockConstants
  <2>3. (v + ULongRange - 256) % ULongRange \in 0 .. ULongRange - 1
    BY <2>2, <1>3
  <2>4. QED
    BY <1>4, <2>1, <2>3 DEF MatchValue
<1>5. CASE port0 # 2
  <2>1. PICK v \in Nat : v = (clk \div 16) \div Baud
    BY <1>2
  <2>2. v + ULongRange - 1 \in Int
    BY ClockConstants
  <2>3. (v + ULongRange - 1) % ULongRange \in 0 .. ULongRange - 1
    BY <2>2, <1>3
  <2>4. QED
    BY <1>5, <2>1, <2>3 DEF MatchValue
<1>6. QED
  BY <1>4, <1>5

LEMMA ClockStep ==
  ASSUME ClockInv, [ClockNext]_clockVars
  PROVE  ClockInv'
<1>0. ResetTree \in TreeType
  BY DEF ResetTree, TreeType, PllRecord
<1>1. ASSUME NEW p \in 0 .. 2, NEW plls \in PllSettings, NEW peri \in PeriFields,
             NEW bus \in BusFields, NEW g \in Garbage, InitSerial(p, plls, peri, bus, g)
      PROVE  ClockInv'
  <2>1. /\ matchPort' = p /\ tree' = [pll |-> plls, peri |-> peri, bus |-> bus]
        /\ umr' = MatchValue(p, UartClk(p, g))'
    BY <1>1 DEF InitSerial
  <2>2. tree' \in TreeType
    BY <2>1, ClockAssumption DEF TreeType, PllRecord
  <2>3. matchPort' \in -1 .. 2 /\ matchPort' # -1
    BY <2>1
  <2>4. \E u \in 0 .. 2, g0 \in Garbage :
            matchPort' = u /\ umr' = MatchValue(u, UartClk(u, g0))'
    BY <2>1, Zenon
  <2>5. QED
    BY <2>2, <2>3, <2>4, Zenon DEF ClockInv
<1>2. ASSUME SerialReturns PROVE ClockInv'
  BY <1>0, <1>2 DEF SerialReturns, ClockInv
<1>3. ASSUME UNCHANGED clockVars PROVE ClockInv'
  BY <1>3 DEF ClockInv, clockVars, MatchValue, UartClk, Hclk, TimerClk, AxiSource, PeriSource
<1>4. QED
  BY <1>1, <1>2, <1>3 DEF ClockNext

LEMMA ClockInvariant == ClockSpec => []ClockInv
<1>1. ClockInit => ClockInv
  BY DEF ClockInit, ClockInv, ResetTree, TreeType, PllRecord
<1>2. QED
  BY <1>1, ClockStep, PTL DEF ClockSpec

\* Type correctness: the match register is an unsigned long for every setting of
\* the clock tree.
THEOREM ClockTypeCorrect == ClockSpec => []ClockTypeOK
<1>1. ASSUME ClockInv PROVE ClockTypeOK
  <2>1. CASE matchPort = -1
    BY <1>1, <2>1, ClockConstants DEF ClockInv, ClockTypeOK
  <2>2. CASE matchPort # -1
    <3>1. PICK g \in Garbage : umr = MatchValue(matchPort, UartClk(matchPort, g))
      BY <1>1, <2>2 DEF ClockInv
    <3>2. matchPort \in 0 .. 2 /\ tree \in TreeType /\ g \in Nat
      BY <1>1, <2>2, ClockConstants DEF ClockInv
    <3>3. UartClk(matchPort, g) \in Nat
      BY <3>2, UartClkType
    <3>4. MatchValue(matchPort, UartClk(matchPort, g)) \in 0 .. ULongRange - 1
      BY <3>2, <3>3, MatchType
    <3>5. QED
      BY <3>1, <3>2, <3>4 DEF ClockTypeOK
  <2>3. QED
    BY <2>1, <2>2
<1>2. QED
  BY <1>1, ClockInvariant, PTL

\* The match register is the exact quotient of the exact clock, whatever rounding
\* the divisions on the way do, for every PLL, divider and baud rate that fit.
THEOREM MatchCorrect == ClockSpec => []MatchRight
<1>1. ASSUME ClockInv PROVE MatchRight
  <2> SUFFICES ASSUME matchPort # -1, HasSource(matchPort), Numerator(matchPort) < ULongRange
               PROVE  LET n == Numerator(matchPort)
                          d == Denominator(matchPort)
                      IN  IF matchPort # 2
                          THEN n >= 16 * Baud * d =>
                                  /\ (umr + 1) * 16 * Baud * d <= n
                                  /\ n < (umr + 2) * 16 * Baud * d
                          ELSE (n >= 16 * Baud * d /\ 16 * n < ULongRange * d) =>
                                  /\ (umr + 256) * Baud <= 16 * (n \div d)
                                  /\ 16 * (n \div d) < (umr + 257) * Baud
    BY DEF MatchRight
  <2>1. PICK g \in Garbage : umr = MatchValue(matchPort, UartClk(matchPort, g))
    BY <1>1 DEF ClockInv
  <2>2. matchPort \in 0 .. 2 /\ tree \in TreeType
    BY <1>1 DEF ClockInv
  <2>3. PICK n, d, c : n = Numerator(matchPort) /\ d = Denominator(matchPort)
                       /\ c = UartClk(matchPort, g)
    OBVIOUS
  <2>4. n \in Nat /\ d \in Nat \ {0} /\ FloorOf(c, n, d) /\ n < ULongRange
    BY <2>2, <2>3, UartClkRight
  <2>5. ASSUME matchPort # 2, n >= 16 * Baud * d
        PROVE  (umr + 1) * 16 * Baud * d <= n /\ n < (umr + 2) * 16 * Baud * d
    <3>1. umr = ((c \div 16) \div Baud + ULongRange - 1) % ULongRange
      BY <2>1, <2>3, <2>5 DEF MatchValue
    <3>2. QED
      BY <2>4, <2>5, <3>1, MatchNarrow
  <2>6. ASSUME matchPort = 2, n >= 16 * Baud * d, 16 * n < ULongRange * d
        PROVE  (umr + 256) * Baud <= 16 * (n \div d) /\ 16 * (n \div d) < (umr + 257) * Baud
    <3>1. umr = MatchValue(2, c)
      BY <2>1, <2>3, <2>6
    <3>2. WideClock(n, d)
      BY <2>6 DEF WideClock
    <3>3. WideMatch(umr, n, d)
      BY <2>4, <3>1, <3>2, MatchWide, Zenon
    <3>4. QED
      BY <3>3 DEF WideMatch
  <2>7. QED
    BY <2>3, <2>5, <2>6
<1>2. QED
  BY <1>1, ClockInvariant, PTL
-----------------------------------------------------------------------------
(* Memory test.                                                            *)

LEMMA MemConstants ==
  /\ WordSize \in Nat /\ WordSize >= 2
  /\ WordSize = 2 * 2^(WordBits - 1) /\ 2^(WordBits - 1) \in Nat \ {0}
  /\ Words \in Nat \ {0} /\ Words <= WordSize /\ Cells = 0 .. Words - 1
  /\ PassMax \in Nat /\ Patterns \subseteq 0 .. WordSize - 1
<1>1. PICK n \in Nat : n = WordBits - 1 /\ WordBits = n + 1
  BY MemTestAssumption
<1>2. 2^(n + 1) = 2 * 2^n /\ 2^n \in Nat \ {0}
  BY PowerType, PowerNext
<1>3. WordSize = 2 * 2^n
  BY <1>1, <1>2 DEF WordSize
<1>4. WordSize \in Nat /\ WordSize >= 2
  BY <1>2, <1>3
<1>5. QED
  BY <1>1, <1>2, <1>3, <1>4, MemTestAssumption DEF Cells

\* The word of a cell in a pass with pattern p and increment n.
Word(p, n, c) == (p + n * c) % WordSize

Increments == {1, WordSize - 1}

LEMMA WordType ==
  ASSUME NEW p \in Int, NEW n \in Int, NEW c \in Int
  PROVE  Word(p, n, c) \in 0 .. WordSize - 1
<1>0. PICK m \in Nat \ {0} : m = WordSize
  BY MemConstants
<1>1. PICK x \in Int : x = p + n * c
  OBVIOUS
<1>2. x % m \in 0 .. m - 1
  BY DivMod
<1>3. QED
  BY <1>0, <1>1, <1>2 DEF Word

LEMMA WordNext ==
  ASSUME NEW p \in Int, NEW n \in Int, NEW c \in Int
  PROVE  (Word(p, n, c) + n) % WordSize = Word(p, n, c + 1)
<1>0. PICK m \in Nat \ {0} : m = WordSize
  BY MemConstants
<1>1. PICK x \in Int : x = p + n * c
  OBVIOUS
<1>2. PICK q \in Int, t \in 0 .. m - 1 : t = x % m /\ x = q * m + t
  BY DivMod
<1>3. ((t + n) + q * m) % m = (t + n) % m
  <2>1. PICK z \in Int : z = t + n
    OBVIOUS
  <2>2. QED
    BY <2>1, ModOfSum
<1>4. (t + n) + q * m = x + n
  BY <1>2
<1>5. n * (c + 1) = n * c + n
  OBVIOUS
<1>6. p + n * (c + 1) = x + n
  BY <1>1, <1>5
<1>7. Word(p, n, c) = t /\ Word(p, n, c + 1) = (x + n) % m
  BY <1>0, <1>1, <1>2, <1>6 DEF Word
<1>8. QED
  BY <1>0, <1>3, <1>4, <1>7

\* With the increment WordSize - 1 the words go down.
LEMMA WordDown ==
  ASSUME NEW p \in Int, NEW c \in Int
  PROVE  Word(p, WordSize - 1, c) = (p - c) % WordSize
<1>0. PICK m \in Nat \ {0} : m = WordSize
  BY MemConstants
<1>1. ((p - c) + c * m) % m = (p - c) % m
  <2>1. PICK z \in Int : z = p - c
    OBVIOUS
  <2>2. QED
    BY <2>1, ModOfSum
<1>2. (m - 1) * c = c * m - c
  OBVIOUS
<1>3. p + (m - 1) * c = (p - c) + c * m
  BY <1>2
<1>4. QED
  BY <1>0, <1>1, <1>3 DEF Word

\* The words of two cells differ.
LEMMA WordsDiffer ==
  ASSUME NEW p \in Int, NEW c \in Cells, NEW d \in Cells, c # d
  PROVE  Word(p, 1, c) # Word(p, 1, d)
<1>0. PICK m \in Nat \ {0} : m = WordSize
  BY MemConstants
<1>1. PICK x \in 0 .. m - 1, y \in 0 .. m - 1 : x = c /\ y = d /\ x # y
  <2>1. PICK w \in Nat : w = Words /\ w <= m /\ Cells = 0 .. w - 1
    BY <1>0, MemConstants
  <2>2. c \in 0 .. m - 1 /\ d \in 0 .. m - 1
    BY <2>1
  <2>3. QED
    BY <2>2
<1>2. PICK q1 \in Int, r1 \in 0 .. m - 1 : r1 = (p + x) % m /\ p + x = q1 * m + r1
  <2>1. PICK z \in Int : z = p + x
    OBVIOUS
  <2>2. z % m \in 0 .. m - 1 /\ z \div m \in Int /\ z = (z \div m) * m + (z % m)
    BY DivMod
  <2>3. QED
    BY <2>1, <2>2
<1>3. PICK q2 \in Int, r2 \in 0 .. m - 1 : r2 = (p + y) % m /\ p + y = q2 * m + r2
  <2>1. PICK z \in Int : z = p + y
    OBVIOUS
  <2>2. z % m \in 0 .. m - 1 /\ z \div m \in Int /\ z = (z \div m) * m + (z % m)
    BY DivMod
  <2>3. QED
    BY <2>1, <2>2
<1>4. SUFFICES ASSUME r1 = r2 PROVE FALSE
  BY <1>0, <1>1, <1>2, <1>3 DEF Word
<1>5. PICK k \in Int : k = q1 - q2
  OBVIOUS
<1>6. k * m = q1 * m - q2 * m
  BY <1>5
<1>7. x - y = k * m
  BY <1>2, <1>3, <1>4, <1>6
<1>8. CASE k >= 1
  <2>1. 1 * m <= k * m
    BY <1>8, ProductMonotonic
  <2>2. QED
    BY <1>7, <2>1
<1>9. CASE k <= -1
  <2>1. PICK j \in Nat : j = -k /\ 1 <= j
    BY <1>9
  <2>2. 1 * m <= j * m
    BY <2>1, ProductMonotonic
  <2>3. j * m = -(k * m)
    BY <2>1
  <2>4. QED
    BY <1>7, <2>2, <2>3
<1>10. CASE k = 0
  BY <1>1, <1>7, <1>10
<1>11. QED
  BY <1>8, <1>9, <1>10

\* Bit b of the word v.
WordBit(v, b) == (v \div 2^b) % 2

\* A word and its parts on both sides of bit b.
LEMMA WordParts ==
  ASSUME NEW v \in 0 .. WordSize - 1, NEW b \in 0 .. WordBits - 1
  PROVE  \E B \in Nat \ {0}, H \in Nat \ {0} : \E q \in 0 .. 2 * H - 1, r \in 0 .. B - 1 :
            B = 2^b /\ WordSize = (2 * H) * B /\ q = v \div B /\ v = q * B + r
<1>1. PICK B \in Nat \ {0}, k \in Nat, h \in Nat :
         B = 2^b /\ k = WordBits - b /\ h = k - 1 /\ k = h + 1 /\ WordBits = b + k /\ b \in Nat
  BY MemTestAssumption, PowerType
<1>2. 2^(b + k) = 2^b * 2^k /\ 2^k = 2 * 2^h /\ 2^h \in Nat \ {0}
  BY <1>1, PowerSum, PowerNext, PowerType
<1>3. PICK H \in Nat \ {0} : H = 2^h /\ WordSize = B * (2 * H)
  BY <1>1, <1>2 DEF WordSize
<1>4. WordSize = (2 * H) * B
  BY <1>3
<1>5. v \in Nat
  BY MemConstants
<1>6. PICK q \in Nat, r \in 0 .. B - 1 : q = v \div B /\ v = q * B + r
  BY <1>5, DivModNat
<1>7. q < 2 * H
  <2>1. CASE 2 * H <= q
    <3>1. 2 * H \in Nat
      OBVIOUS
    <3>2. (2 * H) * B <= q * B
      BY <2>1, <3>1, ProductMonotonic
    <3>3. (2 * H) * B \in Nat /\ q * B \in Nat
      OBVIOUS
    <3>4. QED
      BY <1>4, <1>6, <3>2, <3>3, MemConstants
  <2>2. QED
    BY <2>1
<1>8. q \in 0 .. 2 * H - 1
  BY <1>6, <1>7
<1>9. B = 2^b /\ WordSize = (2 * H) * B /\ q = v \div B /\ v = q * B + r
  BY <1>1, <1>4, <1>6
<1>10. QED
  BY <1>8, <1>9, Zenon

\* The complement of a word has the other value in every bit.
LEMMA ComplementBit ==
  ASSUME NEW v \in 0 .. WordSize - 1, NEW b \in 0 .. WordBits - 1
  PROVE  WordBit(WordSize - 1 - v, b) # WordBit(v, b)
<1>1. PICK B \in Nat \ {0}, H \in Nat \ {0} : \E q \in 0 .. 2 * H - 1, r \in 0 .. B - 1 :
         B = 2^b /\ WordSize = (2 * H) * B /\ q = v \div B /\ v = q * B + r
  BY WordParts
<1>2. PICK q \in 0 .. 2 * H - 1, r \in 0 .. B - 1 :
         B = 2^b /\ WordSize = (2 * H) * B /\ q = v \div B /\ v = q * B + r
  BY <1>1
<1>3. PICK o \in Int, s \in 0 .. B - 1 : o = 2 * H - 1 - q /\ s = B - 1 - r
  OBVIOUS
<1>4. o * B = (2 * H) * B - B - q * B
  BY <1>3
<1>5. o * B + s = (2 * H) * B - q * B - r - 1
  BY <1>3, <1>4
<1>6. o * B + s = WordSize - 1 - v
  BY <1>2, <1>5
<1>7. (WordSize - 1 - v) \div B = o
  BY <1>6, DivModUnique
<1>8. (2 * H - 1 - q) % 2 # q % 2
  OBVIOUS
<1>9. QED
  BY <1>2, <1>3, <1>7, <1>8 DEF WordBit

\* What a cell with a stuck bit keeps is a word, and is what was written only if
\* that has the value of the bit.
LEMMA KeptWord ==
  ASSUME NEW f \in Faults, NEW c \in Cells, NEW v \in 0 .. WordSize - 1
  PROVE  /\ Kept(f, c, v) \in 0 .. WordSize - 1
         /\ f.kind = "stuck" /\ f.cell = c /\ Kept(f, c, v) = v => WordBit(v, f.bit) = f.other
         /\ f.kind # "stuck" => Kept(f, c, v) = v
<1>1. CASE ~ (f.kind = "stuck" /\ f.cell = c)
  BY <1>1 DEF Kept
<1>2. CASE f.kind = "stuck" /\ f.cell = c
  <2>1. f.bit \in 0 .. WordBits - 1 /\ f.other \in {0, 1}
    BY <1>2 DEF Faults, NoFault
  <2>2. PICK b \in 0 .. WordBits - 1, o \in {0, 1} : b = f.bit /\ o = f.other
    BY <2>1
  <2>3. PICK B \in Nat \ {0}, H \in Nat \ {0} : \E q \in 0 .. 2 * H - 1, r \in 0 .. B - 1 :
           B = 2^b /\ WordSize = (2 * H) * B /\ q = v \div B /\ v = q * B + r
    BY WordParts
  <2>4. PICK q \in 0 .. 2 * H - 1, r \in 0 .. B - 1 :
           B = 2^b /\ WordSize = (2 * H) * B /\ q = v \div B /\ v = q * B + r
    BY <2>3
  <2>5. PICK was \in 0 .. 1 : was = q % 2 /\ was = WordBit(v, b)
    <3>1. q % 2 \in 0 .. 1
      OBVIOUS
    <3>2. WordBit(v, b) = q % 2
      BY <2>4 DEF WordBit
    <3>3. QED
      BY <3>1, <3>2
  <2>6. Kept(f, c, v) = v + (o - was) * B
    <3>1. Kept(f, c, v) = v + (f.other - WordBit(v, f.bit)) * 2^f.bit
      BY <1>2 DEF Kept, WordBit
    <3>2. QED
      BY <2>2, <2>4, <2>5, <3>1
  <2>7. PICK x \in Nat, y \in Nat : x = q * B /\ y = WordSize /\ v = x + r /\ v <= y - 1 /\ v \in Nat
    BY <2>4, MemConstants, SMTT(30)
  <2>8. SUFFICES ASSUME o # was
                 PROVE  Kept(f, c, v) \in 0 .. WordSize - 1 /\ Kept(f, c, v) # v
    <3>1. CASE o = was
      <4>1. (o - was) * B = 0
        BY <3>1
      <4>2. Kept(f, c, v) = v
        BY <2>6, <2>7, <4>1
      <4>3. QED
        BY <1>2, <2>2, <2>5, <3>1, <4>2
    <3>2. CASE o # was
      BY <1>2, <2>8, <3>2
    <3>3. QED
      BY <3>1, <3>2
  <2>9. CASE o = 1 /\ was = 0
    <3>1. q + 2 \in Nat /\ q + 2 <= 2 * H
      BY <2>5, <2>9
    <3>2. (q + 2) * B <= (2 * H) * B
      BY <3>1, ProductMonotonic
    <3>3. (q + 2) * B = x + 2 * B /\ y = (2 * H) * B
      <4>1. (q + 2) * B = q * B + 2 * B
        OBVIOUS
      <4>2. QED
        BY <2>4, <2>7, <4>1
    <3>4. x + 2 * B <= y
      BY <3>2, <3>3
    <3>5. Kept(f, c, v) = v + B
      <4>1. (1 - 0) * B = B
        OBVIOUS
      <4>2. QED
        BY <2>6, <2>9, <4>1
    <3>6. v + B \in 0 .. y - 1 /\ v + B # v
      BY <2>7, <3>4
    <3>7. QED
      BY <2>7, <3>5, <3>6
  <2>10. CASE o = 0 /\ was = 1
    <3>1. 1 <= q
      BY <2>5, <2>10
    <3>2. 1 * B <= q * B
      BY <3>1, ProductMonotonic
    <3>3. B <= x
      BY <2>7, <3>2
    <3>4. Kept(f, c, v) = v - B
      <4>1. (0 - 1) * B = -B
        OBVIOUS
      <4>2. QED
        BY <2>6, <2>7, <2>10, <4>1
    <3>5. v - B \in 0 .. y - 1 /\ v - B # v
      BY <2>7, <3>3
    <3>6. QED
      BY <2>7, <3>4, <3>5
  <2>11. QED
    BY <2>5, <2>8, <2>9, <2>10
<1>3. QED
  BY <1>1, <1>2

\* The patterns and increments of the first passes of a test begun with p0.
PatternOf(p0, j) ==
    IF j = 0 THEN p0 ELSE IF j = 1 THEN NextPattern(p0) ELSE NextPattern(NextPattern(p0))
IncrOf(j) == IF j = 1 THEN WordSize - 1 ELSE 1

Plain(f) == f.kind = "alias" => f.cell = f.other
Stuck(f) == f.kind = "stuck"

\* The bit of the word of the faulty cell has the value it is stuck at.
Agrees(f, p, n) == WordBit(Word(p, n, f.cell), f.bit) = f.other

\* The cells before `upto` hold what was written to them.
PlainMemory(f, m, upto, p, n) ==
    Plain(f) => \A c \in Cells : c < upto => m[c] = Kept(f, c, Word(p, n, c))

\* The cell that two addresses reach holds the word of each that has been read.
AliasRead(f, m, a, p, n) ==
    ~Plain(f) => \A c \in {f.cell, f.other} : c < a => m[f.other] = Word(p, n, c)

\* In every pass that is over the stuck bit had its value, and in the running one
\* if the cell has been read.
SeenBefore(f, k, p0) ==
    Stuck(f) => \A j \in 0 .. 2 : j < k => Agrees(f, PatternOf(p0, j), IncrOf(j))
SeenNow(f, a, p, n) == Stuck(f) /\ f.cell < a => Agrees(f, p, n)

\* What holds in both kinds of passes: the k-th, at address a with the word v.
Pass(f, a, v, p, n, k, p0) ==
    /\ n \in Increments
    /\ v = Word(p, n, a)
    /\ k <= 2 => p = PatternOf(p0, k) /\ n = IncrOf(k)
    /\ ~Plain(f) => k = 0
    /\ SeenBefore(f, k, p0)

WritePass(f, m, a, v, p, n, k, p0) ==
    /\ Pass(f, a, v, p, n, k, p0)
    /\ PlainMemory(f, m, a, p, n)

ReadPass(f, m, a, v, p, n, k, p0) ==
    /\ Pass(f, a, v, p, n, k, p0)
    /\ PlainMemory(f, m, Words, p, n)
    /\ AliasRead(f, m, a, p, n)
    /\ SeenNow(f, a, p, n)

MemInv ==
    /\ MemTestTypeOK
    /\ fault \in Faults
    /\ mtAt = "idle" => passes = 0 /\ addr = 0
    /\ mtAt = "write" => WritePass(fault, mem, addr, val, pattern, incr, passes, first)
    /\ mtAt = "read" => ReadPass(fault, mem, addr, val, pattern, incr, passes, first)
    /\ mtAt = "error" => fault.kind # "none" /\ ~(fault.kind = "alias" /\ fault.cell = fault.other)
    /\ ~Plain(fault) => passes = 0
    /\ SeenBefore(fault, passes, first)

LEMMA FaultType ==
  ASSUME NEW f \in Faults
  PROVE  /\ f.cell \in Cells
         /\ f.kind \in {"none", "stuck", "alias"}
         /\ f.kind = "stuck" => f.bit \in 0 .. WordBits - 1 /\ f.other \in {0, 1}
         /\ f.kind = "alias" => f.other \in Cells
         /\ \A c \in Cells : Cell(f, c) \in Cells /\ (Plain(f) => Cell(f, c) = c)
<1>1. 0 \in Cells
  BY MemConstants
<1>2. /\ f.cell \in Cells
      /\ f.kind \in {"none", "stuck", "alias"}
      /\ f.kind = "stuck" => f.bit \in 0 .. WordBits - 1 /\ f.other \in {0, 1}
      /\ f.kind = "alias" => f.other \in Cells
  <2>1. CASE f = NoFault
    BY <1>1, <2>1 DEF NoFault
  <2>2. CASE f # NoFault
    BY <2>2 DEF Faults
  <2>3. QED
    BY <2>1, <2>2
<1>3. QED
  BY <1>2 DEF Cell, Plain

LEMMA PatternType ==
  ASSUME NEW p \in 0 .. WordSize - 1 PROVE NextPattern(p) \in 0 .. WordSize - 1
<1>1. PICK m \in Nat \ {0} : m = WordSize
  BY MemConstants
<1>2. (m - p) % m \in 0 .. m - 1
  BY <1>1, DivMod
<1>3. m - 1 - p \in 0 .. m - 1
  BY <1>1
<1>4. QED
  BY <1>1, <1>2, <1>3 DEF NextPattern

LEMMA WordZero ==
  ASSUME NEW p \in 0 .. WordSize - 1, NEW n \in Int
  PROVE  Word(p, n, 0) = p
<1>0. PICK m \in Nat \ {0} : m = WordSize
  BY MemConstants
<1>1. PICK x \in 0 .. m - 1 : x = p
  BY <1>0
<1>2. (0 * m + x) % m = x
  BY DivModUnique
<1>3. 0 * m + x = x /\ p + n * 0 = x
  BY <1>1
<1>4. QED
  BY <1>0, <1>1, <1>2, <1>3 DEF Word

\* The increments change places.
LEMMA IncrNext ==
  ASSUME NEW n \in Increments
  PROVE  /\ n \in 0 .. WordSize - 1 /\ NextIncr(n) \in Increments
         /\ NextIncr(1) = WordSize - 1 /\ NextIncr(WordSize - 1) = 1
<1>1. PICK m \in Nat \ {0} : m = WordSize /\ m >= 2
  BY MemConstants
<1>2. (m - 1) % m = m - 1 /\ 1 % m = 1
  <2>1. m - 1 \in 0 .. m - 1 /\ 1 \in 0 .. m - 1
    BY <1>1
  <2>2. (0 * m + (m - 1)) % m = m - 1 /\ (0 * m + 1) % m = 1
    BY <2>1, DivModUnique
  <2>3. 0 * m + (m - 1) = m - 1 /\ 0 * m + 1 = 1
    OBVIOUS
  <2>4. QED
    BY <2>2, <2>3
<1>3. NextIncr(1) = m - 1
  BY <1>1, <1>2 DEF NextIncr
<1>4. NextIncr(m - 1) = 1
  <2>1. m - (m - 1) = 1
    OBVIOUS
  <2>2. QED
    BY <1>1, <1>2, <2>1 DEF NextIncr
<1>5. QED
  BY <1>1, <1>3, <1>4 DEF Increments

\* One word of a write pass.
LEMMA WriteStep ==
  ASSUME NEW f \in Faults, NEW m \in [Cells -> 0 .. WordSize - 1], NEW a \in Cells, NEW v,
         NEW p \in 0 .. WordSize - 1, NEW n, NEW k \in Nat, NEW p0 \in 0 .. WordSize - 1,
         WritePass(f, m, a, v, p, n, k, p0)
  PROVE  /\ WritePass(f, [m EXCEPT ![Cell(f, a)] = Kept(f, Cell(f, a), v)], a + 1,
                      (v + n) % WordSize, p, n, k, p0)
         /\ v \in 0 .. WordSize - 1 /\ (v + n) % WordSize \in 0 .. WordSize - 1
         /\ Cell(f, a) \in Cells /\ Kept(f, Cell(f, a), v) \in 0 .. WordSize - 1
<1>1. n \in Increments /\ n \in Int /\ v = Word(p, n, a) /\ a \in Int /\ p \in Int
  BY IncrNext, MemConstants DEF WritePass, Pass
<1>2. v \in 0 .. WordSize - 1
  BY <1>1, WordType
<1>3. (v + n) % WordSize = Word(p, n, a + 1)
  BY <1>1, WordNext
<1>4. (v + n) % WordSize \in 0 .. WordSize - 1
  <2>1. a + 1 \in Int
    BY <1>1
  <2>2. QED
    BY <1>1, <1>3, <2>1, WordType
<1>5. Pass(f, a + 1, (v + n) % WordSize, p, n, k, p0)
  BY <1>3, Zenon DEF WritePass, Pass
<1>6. Cell(f, a) \in Cells /\ Kept(f, Cell(f, a), v) \in 0 .. WordSize - 1
  BY <1>2, FaultType, KeptWord
<1>7. PlainMemory(f, [m EXCEPT ![Cell(f, a)] = Kept(f, Cell(f, a), v)], a + 1, p, n)
  <2> SUFFICES ASSUME Plain(f), NEW c \in Cells, c < a + 1
               PROVE  [m EXCEPT ![Cell(f, a)] = Kept(f, Cell(f, a), v)][c]
                        = Kept(f, c, Word(p, n, c))
    BY Zenon DEF PlainMemory
  <2>1. Cell(f, a) = a
    BY FaultType
  <2>2. CASE c = a
    BY <1>1, <2>1, <2>2
  <2>3. CASE c # a
    <3>1. c < a
      BY <2>3, MemConstants
    <3>2. m[c] = Kept(f, c, Word(p, n, c))
      BY <3>1 DEF WritePass, PlainMemory
    <3>3. QED
      BY <2>1, <2>3, <3>2
  <2>4. QED
    BY <2>2, <2>3
<1>8. QED
  BY <1>2, <1>4, <1>5, <1>6, <1>7, Zenon DEF WritePass

\* The end of a write pass.
LEMMA WriteDone ==
  ASSUME NEW f \in Faults, NEW m, NEW v, NEW p \in 0 .. WordSize - 1, NEW n,
         NEW k \in Nat, NEW p0 \in 0 .. WordSize - 1,
         WritePass(f, m, Words, v, p, n, k, p0)
  PROVE  ReadPass(f, m, 0, p, p, n, k, p0)
<1>1. n \in Increments /\ n \in Int
  BY IncrNext, MemConstants DEF WritePass, Pass
<1>2. p = Word(p, n, 0)
  BY <1>1, WordZero
<1>3. Pass(f, 0, p, p, n, k, p0)
  BY <1>2, Zenon DEF WritePass, Pass
<1>4. \A c \in Cells : ~(c < 0)
  BY MemConstants
<1>5. AliasRead(f, m, 0, p, n)
  BY <1>4, FaultType, Zenon DEF AliasRead, Plain
<1>6. SeenNow(f, 0, p, n)
  BY <1>4, FaultType, Zenon DEF SeenNow
<1>7. QED
  BY <1>3, <1>5, <1>6, Zenon DEF WritePass, ReadPass

\* One word of a read pass that is what it should be.
LEMMA ReadStep ==
  ASSUME NEW f \in Faults, NEW m, NEW a \in Cells, NEW v,
         NEW p \in 0 .. WordSize - 1, NEW n, NEW k \in Nat, NEW p0 \in 0 .. WordSize - 1,
         ReadPass(f, m, a, v, p, n, k, p0), m[Cell(f, a)] = v
  PROVE  /\ ReadPass(f, m, a + 1, (v + n) % WordSize, p, n, k, p0)
         /\ (v + n) % WordSize \in 0 .. WordSize - 1
<1>1. n \in Increments /\ n \in Int /\ v = Word(p, n, a) /\ a \in Int /\ p \in Int
  BY IncrNext, MemConstants DEF ReadPass, Pass
<1>2. v \in 0 .. WordSize - 1
  BY <1>1, WordType
<1>3. (v + n) % WordSize = Word(p, n, a + 1)
  BY <1>1, WordNext
<1>4. (v + n) % WordSize \in 0 .. WordSize - 1
  <2>1. a + 1 \in Int
    BY <1>1
  <2>2. QED
    BY <1>1, <1>3, <2>1, WordType
<1>5. Pass(f, a + 1, (v + n) % WordSize, p, n, k, p0)
  BY <1>3, Zenon DEF ReadPass, Pass
<1>6. \A c \in Cells : c < a + 1 => c < a \/ c = a
  BY MemConstants
<1>7. AliasRead(f, m, a + 1, p, n)
  <2> SUFFICES ASSUME ~Plain(f), NEW c \in {f.cell, f.other}, c < a + 1
               PROVE  m[f.other] = Word(p, n, c)
    BY Zenon DEF AliasRead
  <2>1. c \in Cells
    BY FaultType DEF Plain
  <2>2. CASE c < a
    BY <2>2, Zenon DEF ReadPass, AliasRead
  <2>3. CASE c = a
    <3>1. Cell(f, a) = f.other
      BY <2>3 DEF Cell, Plain
    <3>2. QED
      BY <1>1, <2>3, <3>1
  <2>4. QED
    BY <1>6, <2>1, <2>2, <2>3
<1>8. SeenNow(f, a + 1, p, n)
  <2> SUFFICES ASSUME Stuck(f), f.cell < a + 1 PROVE Agrees(f, p, n)
    BY Zenon DEF SeenNow
  <2>1. CASE f.cell < a
    BY <2>1, Zenon DEF ReadPass, SeenNow
  <2>2. CASE f.cell = a
    <3>1. Plain(f) /\ Cell(f, a) = a
      BY DEF Plain, Stuck, Cell
    <3>2. a < Words
      BY MemConstants
    <3>3. m[a] = Kept(f, a, v)
      BY <1>1, <3>1, <3>2, Zenon DEF ReadPass, PlainMemory
    <3>4. Kept(f, a, v) = v
      BY <3>1, <3>3
    <3>5. WordBit(v, f.bit) = f.other
      BY <1>2, <2>2, <3>4, KeptWord DEF Stuck
    <3>6. QED
      BY <1>1, <2>2, <3>5 DEF Agrees
  <2>3. QED
    BY <1>6, <2>1, <2>2, FaultType
<1>9. QED
  BY <1>4, <1>5, <1>7, <1>8, Zenon DEF ReadPass

\* A word that is not what it should be is one of a memory with a fault.
LEMMA ReadFails ==
  ASSUME NEW f \in Faults, NEW m, NEW a \in Cells, NEW v,
         NEW p \in 0 .. WordSize - 1, NEW n, NEW k \in Nat, NEW p0 \in 0 .. WordSize - 1,
         ReadPass(f, m, a, v, p, n, k, p0), m[Cell(f, a)] # v
  PROVE  f.kind # "none" /\ ~(f.kind = "alias" /\ f.cell = f.other)
<1>1. n \in Increments /\ n \in Int /\ v = Word(p, n, a) /\ a \in Int /\ p \in Int
  BY IncrNext, MemConstants DEF ReadPass, Pass
<1>2. v \in 0 .. WordSize - 1
  BY <1>1, WordType
<1>3. SUFFICES ASSUME Plain(f), f.kind # "stuck" PROVE FALSE
  BY DEF Plain
<1>4. Cell(f, a) = a
  BY <1>3, FaultType
<1>5. a < Words
  BY MemConstants
<1>6. m[a] = Kept(f, a, v)
  BY <1>1, <1>3, <1>5, Zenon DEF ReadPass, PlainMemory
<1>7. Kept(f, a, v) = v
  BY <1>2, <1>3, KeptWord
<1>8. QED
  BY <1>4, <1>6, <1>7

\* A pass that finds nothing.
LEMMA PassDone ==
  ASSUME NEW f \in Faults, NEW m, NEW v,
         NEW p \in 0 .. WordSize - 1, NEW n, NEW k \in Nat, NEW p0 \in 0 .. WordSize - 1,
         ReadPass(f, m, Words, v, p, n, k, p0)
  PROVE  /\ Plain(f)
         /\ SeenBefore(f, k + 1, p0)
         /\ WritePass(f, m, 0, NextPattern(p), NextPattern(p), NextIncr(n), k + 1, p0)
<1>1. n \in Increments /\ n \in Int /\ p \in Int
  BY IncrNext, MemConstants DEF ReadPass, Pass
<1>2. \A c \in Cells : c < Words /\ ~(c < 0)
  BY MemConstants
<1>3. Plain(f)
  <2> SUFFICES ASSUME ~Plain(f) PROVE FALSE
    OBVIOUS
  <2>1. f.cell \in Cells /\ f.other \in Cells /\ f.cell # f.other
    BY FaultType DEF Plain
  <2>2. m[f.other] = Word(p, n, f.cell) /\ m[f.other] = Word(p, n, f.other)
    BY <1>2, <2>1, Zenon DEF ReadPass, AliasRead
  <2>3. n = 1
    <3>1. k = 0 /\ (k <= 2 => n = IncrOf(k))
      BY Zenon DEF ReadPass, Pass
    <3>2. QED
      BY <3>1 DEF IncrOf
  <2>4. QED
    BY <1>1, <2>1, <2>2, <2>3, WordsDiffer
<1>4. k <= 2 => p = PatternOf(p0, k) /\ n = IncrOf(k)
  BY Zenon DEF ReadPass, Pass
<1>5. SeenBefore(f, k + 1, p0)
  <2> SUFFICES ASSUME Stuck(f), NEW j \in 0 .. 2, j < k + 1
               PROVE  Agrees(f, PatternOf(p0, j), IncrOf(j))
    BY Zenon DEF SeenBefore
  <2>1. CASE j < k
    BY <2>1, Zenon DEF ReadPass, Pass, SeenBefore
  <2>2. CASE j = k
    <3>1. Agrees(f, p, n)
      BY <1>2, FaultType, Zenon DEF ReadPass, SeenNow
    <3>2. k <= 2
      BY <2>2
    <3>3. QED
      BY <1>4, <2>2, <3>1, <3>2, Zenon
  <2>3. QED
    BY <2>1, <2>2
<1>6. k + 1 <= 2 => NextPattern(p) = PatternOf(p0, k + 1) /\ NextIncr(n) = IncrOf(k + 1)
  <2> SUFFICES ASSUME k + 1 <= 2
               PROVE  NextPattern(p) = PatternOf(p0, k + 1) /\ NextIncr(n) = IncrOf(k + 1)
    OBVIOUS
  <2>1. k = 0 \/ k = 1
    OBVIOUS
  <2>2. CASE k = 0
    <3>1. p = p0 /\ n = 1
      BY <1>4, <2>2 DEF PatternOf, IncrOf
    <3>2. QED
      BY <1>1, <2>2, <3>1, IncrNext DEF PatternOf, IncrOf
  <2>3. CASE k = 1
    <3>1. p = NextPattern(p0) /\ n = WordSize - 1
      BY <1>4, <2>3 DEF PatternOf, IncrOf
    <3>2. QED
      BY <1>1, <2>3, <3>1, IncrNext DEF PatternOf, IncrOf
  <2>4. QED
    BY <2>1, <2>2, <2>3
<1>7. NextIncr(n) \in Increments /\ NextIncr(n) \in Int
  BY <1>1, IncrNext, MemConstants DEF Increments
<1>8. NextPattern(p) = Word(NextPattern(p), NextIncr(n), 0)
  BY <1>7, PatternType, WordZero
<1>9. Pass(f, 0, NextPattern(p), NextPattern(p), NextIncr(n), k + 1, p0)
  BY <1>3, <1>5, <1>6, <1>7, <1>8, Zenon DEF Pass
<1>10. PlainMemory(f, m, 0, NextPattern(p), NextIncr(n))
  BY <1>2, Zenon DEF PlainMemory
<1>11. QED
  BY <1>3, <1>5, <1>9, <1>10, Zenon DEF WritePass

LEMMA FirstMemPass ==
  ASSUME NEW f \in Faults, NEW m, NEW p \in 0 .. WordSize - 1
  PROVE  WritePass(f, m, 0, p, p, 1, 0, p) /\ SeenBefore(f, 0, p)
<1>1. SeenBefore(f, 0, p)
  BY DEF SeenBefore
<1>2. p = Word(p, 1, 0)
  BY WordZero
<1>3. PatternOf(p, 0) = p /\ IncrOf(0) = 1 /\ 1 \in Increments
  BY DEF PatternOf, IncrOf, Increments
<1>4. PlainMemory(f, m, 0, p, 1)
  BY MemConstants DEF PlainMemory
<1>5. QED
  BY <1>1, <1>2, <1>3, <1>4, Zenon DEF WritePass, Pass

\* One of two passes that follow each other and are complements finds a stuck
\* bit.
LEMMA Complements ==
  ASSUME NEW f \in Faults, f.kind = "stuck", NEW p \in 0 .. WordSize - 1, NEW n \in Increments
  PROVE  ~(Agrees(f, p, n) /\ Agrees(f, WordSize - 1 - p, NextIncr(n)))
<1>0. PICK m \in Nat \ {0} : m = WordSize /\ m >= 2
  BY MemConstants
<1>1. PICK c \in Nat : c = f.cell
  <2>1. f.cell \in Cells
    BY FaultType
  <2>2. f.cell \in Nat
    BY <2>1, MemConstants
  <2>3. QED
    BY <2>2, Zenon
<1>2. n = 1 \/ n = m - 1
  BY <1>0 DEF Increments
<1>3. PICK x \in Int, y \in Int : /\ x = (IF n = 1 THEN p + c ELSE p - c)
                                  /\ y = (IF n = 1 THEN (m - 1 - p) - c ELSE (m - 1 - p) + c)
                                  /\ y = m - 1 - x
  BY <1>0
<1>4. Word(p, n, c) = x % m
  <2>1. CASE n = 1
    BY <1>0, <1>3, <2>1 DEF Word
  <2>2. CASE n # 1
    <3>1. p \in Int /\ n = WordSize - 1
      BY <1>0, <1>2, <2>2
    <3>2. Word(p, WordSize - 1, c) = (p - c) % WordSize
      BY <3>1, WordDown
    <3>3. QED
      BY <1>0, <1>3, <2>2, <3>1, <3>2
  <2>3. QED
    BY <2>1, <2>2
<1>5. PICK o \in Int : o = m - 1 - p
  BY <1>0
<1>6. Word(o, NextIncr(n), c) = y % m
  <2>1. CASE n = 1
    <3>1. NextIncr(n) = WordSize - 1
      BY <2>1, IncrNext
    <3>2. Word(o, WordSize - 1, c) = (o - c) % WordSize
      BY WordDown
    <3>3. QED
      BY <1>0, <1>3, <1>5, <2>1, <3>1, <3>2
  <2>2. CASE n # 1
    <3>1. NextIncr(n) = 1
      BY <1>0, <1>2, <2>2, IncrNext
    <3>2. QED
      BY <1>0, <1>3, <1>5, <2>2, <3>1 DEF Word
  <2>3. QED
    BY <2>1, <2>2
<1>7. y % m = m - 1 - (x % m)
  <2>1. x % m \in 0 .. m - 1 /\ x \div m \in Int /\ x = (x \div m) * m + (x % m)
    BY DivMod
  <2>2. PICK q \in Int, t \in 0 .. m - 1 : q = x \div m /\ t = x % m /\ x = q * m + t
    BY <2>1
  <2>3. PICK u \in Int, w \in 0 .. m - 1 : u = -q /\ w = m - 1 - t
    OBVIOUS
  <2>4. (u * m + w) % m = w
    BY DivModUnique
  <2>5. PICK z \in Int, z1 \in Int : z = q * m /\ z1 = u * m /\ z1 = -z
    BY <2>3
  <2>6. y = u * m + w
    <3>1. x = z + t /\ y = m - 1 - x /\ w = m - 1 - t
      BY <1>3, <2>2, <2>3, <2>5
    <3>2. y = z1 + w
      BY <2>5, <3>1
    <3>3. QED
      BY <2>5, <3>2
  <2>7. QED
    BY <2>2, <2>3, <2>4, <2>6
<1>8. PICK v \in 0 .. WordSize - 1 : v = Word(p, n, c)
  <2>1. p \in Int /\ n \in Int /\ c \in Int
    BY <1>0, <1>2
  <2>2. QED
    BY <2>1, WordType
<1>9. Word(o, NextIncr(n), c) = WordSize - 1 - v
  BY <1>0, <1>4, <1>6, <1>7, <1>8
<1>10. PICK b \in 0 .. WordBits - 1 : b = f.bit
  BY FaultType
<1>11. WordBit(WordSize - 1 - v, b) # WordBit(v, b)
  BY ComplementBit
<1>12. SUFFICES ASSUME Agrees(f, p, n), Agrees(f, o, NextIncr(n)) PROVE FALSE
  BY <1>0, <1>5
<1>13. WordBit(v, b) = f.other
  BY <1>1, <1>8, <1>10, <1>12, Zenon DEF Agrees
<1>14. WordBit(WordSize - 1 - v, b) = f.other
  <2>1. WordBit(Word(o, NextIncr(n), c), b) = f.other
    BY <1>1, <1>10, <1>12, Zenon DEF Agrees
  <2>2. QED
    BY <1>9, <2>1
<1>15. QED
  BY <1>11, <1>13, <1>14

\* Among three passes two that follow each other are complements, unless the
\* pattern is its own negation.
LEMMA ThreePasses ==
  ASSUME NEW f \in Faults, f.kind = "stuck", NEW k \in Nat, k >= 3,
         NEW p \in 0 .. WordSize - 1, SeenBefore(f, k, p)
  PROVE  p = FixedPattern
<1>0. PICK m \in Nat \ {0}, h \in Nat \ {0} : m = WordSize /\ m = 2 * h /\ h = 2^(WordBits - 1)
  BY MemConstants
<1>1. /\ Agrees(f, PatternOf(p, 0), IncrOf(0)) /\ Agrees(f, PatternOf(p, 1), IncrOf(1))
      /\ Agrees(f, PatternOf(p, 2), IncrOf(2))
  <2>1. 0 \in 0 .. 2 /\ 1 \in 0 .. 2 /\ 2 \in 0 .. 2 /\ 0 < k /\ 1 < k /\ 2 < k
    OBVIOUS
  <2>2. QED
    BY <2>1, Zenon DEF SeenBefore, Stuck
<1>2. PICK p1 \in 0 .. WordSize - 1 : p1 = NextPattern(p)
  BY PatternType
<1>3. /\ Agrees(f, p, 1) /\ Agrees(f, p1, WordSize - 1) /\ Agrees(f, NextPattern(p1), 1)
  BY <1>1, <1>2 DEF PatternOf, IncrOf
<1>4. /\ 1 \in Increments /\ WordSize - 1 \in Increments
      /\ NextIncr(1) = WordSize - 1 /\ NextIncr(WordSize - 1) = 1
  BY IncrNext DEF Increments
<1>5. ~(Agrees(f, p, 1) /\ Agrees(f, WordSize - 1 - p, WordSize - 1))
  BY <1>4, Complements
<1>6. ~(Agrees(f, p1, WordSize - 1) /\ Agrees(f, WordSize - 1 - p1, 1))
  BY <1>4, Complements
<1>7. p >= h
  <2>1. CASE p < h
    <3>1. ~(p >= 2^(WordBits - 1))
      BY <1>0, <2>1
    <3>2. NextPattern(p) = WordSize - 1 - p
      BY <3>1, Zenon DEF NextPattern
    <3>3. p1 = WordSize - 1 - p
      BY <1>2, <3>2
    <3>4. QED
      BY <1>3, <1>5, <3>3
  <2>2. QED
    BY <1>0, <2>1
<1>8. p1 = m - p
  <2>1. m - p \in 0 .. m - 1
    BY <1>0, <1>7
  <2>2. PICK x \in 0 .. m - 1 : x = m - p
    BY <2>1
  <2>3. (0 * m + x) % m = x /\ 0 * m + x = x
    BY DivModUnique
  <2>4. QED
    BY <1>0, <1>2, <1>7, <2>2, <2>3 DEF NextPattern
<1>9. p1 >= h
  <2>1. CASE p1 < h
    <3>1. NextPattern(p1) = WordSize - 1 - p1
      BY <1>0, <2>1 DEF NextPattern
    <3>2. QED
      BY <1>3, <1>6, <3>1
  <2>2. QED
    BY <1>0, <2>1
<1>10. QED
  BY <1>0, <1>7, <1>8, <1>9 DEF FixedPattern

LEMMA MemStep ==
  ASSUME MemInv, [MemTestNext]_memVars
  PROVE  MemInv'
<1>0. /\ MemTestTypeOK /\ fault \in Faults
      /\ mtAt \in {"idle", "write", "read", "error"}
      /\ mem \in [Cells -> 0 .. WordSize - 1]
      /\ val \in 0 .. WordSize - 1 /\ pattern \in 0 .. WordSize - 1
      /\ incr \in 0 .. WordSize - 1 /\ first \in 0 .. WordSize - 1
      /\ addr \in 0 .. Words /\ passes \in 0 .. PassMax /\ passes \in Nat
  BY MemConstants, SMTT(30) DEF MemInv, MemTestTypeOK
<1>1. ASSUME NEW p \in Patterns, NEW f \in Faults, Memtest(p, f) PROVE MemInv'
  <2>1. /\ mtAt = "idle" /\ mtAt' = "write" /\ pattern' = p /\ val' = p /\ first' = p
        /\ incr' = 1 /\ fault' = f /\ mem' = mem /\ addr' = addr /\ passes' = passes
    BY <1>1 DEF Memtest
  <2>2. passes = 0 /\ addr = 0
    BY <2>1 DEF MemInv
  <2>3. p \in 0 .. WordSize - 1 /\ 1 \in 0 .. WordSize - 1
    BY MemConstants
  <2>4. WritePass(f, mem, 0, p, p, 1, 0, p) /\ SeenBefore(f, 0, p)
    BY <2>3, FirstMemPass
  <2>5. WritePass(fault, mem, addr, val, pattern, incr, passes, first)'
    BY <2>1, <2>2, <2>4, Zenon
  <2>6. SeenBefore(fault, passes, first)' /\ passes' = 0
    BY <2>1, <2>2, <2>4, Zenon
  <2>7. MemTestTypeOK'
    BY <1>0, <2>1, <2>3 DEF MemTestTypeOK
  <2>8. QED
    BY <2>1, <2>5, <2>6, <2>7 DEF MemInv
<1>2. ASSUME WriteWord PROVE MemInv'
  <2>1. /\ mtAt = "write" /\ addr < Words
        /\ mem' = [mem EXCEPT ![Cell(fault, addr)] = Kept(fault, Cell(fault, addr), val)]
        /\ val' = (val + incr) % WordSize /\ addr' = addr + 1
        /\ UNCHANGED <<mtAt, pattern, incr, passes, fault, first>>
    BY <1>2 DEF WriteWord
  <2>2. /\ addr \in Cells
        /\ WritePass(fault, mem, addr, val, pattern, incr, passes, first)
    <3>1. addr \in Cells
      BY <1>0, <2>1, MemConstants
    <3>2. WritePass(fault, mem, addr, val, pattern, incr, passes, first)
      BY <2>1, Zenon DEF MemInv
    <3>3. QED
      BY <3>1, <3>2
  <2>3. /\ WritePass(fault, [mem EXCEPT ![Cell(fault, addr)] = Kept(fault, Cell(fault, addr), val)],
                     addr + 1, (val + incr) % WordSize, pattern, incr, passes, first)
        /\ (val + incr) % WordSize \in 0 .. WordSize - 1
        /\ Cell(fault, addr) \in Cells /\ Kept(fault, Cell(fault, addr), val) \in 0 .. WordSize - 1
    BY <1>0, <2>2, WriteStep
  <2>4. WritePass(fault, mem, addr, val, pattern, incr, passes, first)'
    BY <2>1, <2>3, Zenon
  <2>5. SeenBefore(fault, passes, first)' /\ (~Plain(fault) => passes = 0)'
    BY <2>1, Zenon DEF MemInv
  <2>6. MemTestTypeOK'
    <3>1. mem' \in [Cells -> 0 .. WordSize - 1]
      BY <1>0, <2>1, <2>3
    <3>2. addr' \in 0 .. Words
      BY <1>0, <2>1, MemConstants
    <3>3. QED
      BY <1>0, <2>1, <2>3, <3>1, <3>2 DEF MemTestTypeOK
  <2>7. QED
    BY <1>0, <2>1, <2>4, <2>5, <2>6 DEF MemInv
<1>3. ASSUME StartReading PROVE MemInv'
  <2>1. /\ mtAt = "write" /\ addr = Words /\ mtAt' = "read" /\ addr' = 0 /\ val' = pattern
        /\ UNCHANGED <<mem, pattern, incr, passes, fault, first>>
    BY <1>3 DEF StartReading
  <2>2. WritePass(fault, mem, Words, val, pattern, incr, passes, first)
    BY <2>1, Zenon DEF MemInv
  <2>3. ReadPass(fault, mem, 0, pattern, pattern, incr, passes, first)
    BY <1>0, <2>2, WriteDone
  <2>4. ReadPass(fault, mem, addr, val, pattern, incr, passes, first)'
    BY <2>1, <2>3, Zenon
  <2>5. SeenBefore(fault, passes, first)' /\ (~Plain(fault) => passes = 0)'
    BY <2>1, Zenon DEF MemInv
  <2>6. MemTestTypeOK'
    BY <1>0, <2>1, MemConstants DEF MemTestTypeOK
  <2>7. QED
    BY <1>0, <2>1, <2>4, <2>5, <2>6 DEF MemInv
<1>4. ASSUME ReadWord PROVE MemInv'
  <2>1. /\ mtAt = "read" /\ addr < Words
        /\ UNCHANGED <<mem, pattern, incr, passes, fault, first>>
    BY <1>4 DEF ReadWord
  <2>2. /\ addr \in Cells
        /\ ReadPass(fault, mem, addr, val, pattern, incr, passes, first)
    <3>1. addr \in Cells
      BY <1>0, <2>1, MemConstants
    <3>2. ReadPass(fault, mem, addr, val, pattern, incr, passes, first)
      BY <2>1, Zenon DEF MemInv
    <3>3. QED
      BY <3>1, <3>2
  <2>3. SeenBefore(fault, passes, first)' /\ (~Plain(fault) => passes = 0)'
    BY <2>1, Zenon DEF MemInv
  <2>4. CASE mem[Cell(fault, addr)] = val
    <3>1. val' = (val + incr) % WordSize /\ addr' = addr + 1 /\ mtAt' = mtAt
      BY <1>4, <2>4 DEF ReadWord
    <3>2. /\ ReadPass(fault, mem, addr + 1, (val + incr) % WordSize, pattern, incr, passes, first)
          /\ (val + incr) % WordSize \in 0 .. WordSize - 1
      BY <1>0, <2>2, <2>4, ReadStep
    <3>3. ReadPass(fault, mem, addr, val, pattern, incr, passes, first)'
      BY <2>1, <3>1, <3>2, Zenon
    <3>4. MemTestTypeOK'
      <4>1. addr' \in 0 .. Words
        BY <1>0, <2>1, <3>1, MemConstants
      <4>2. QED
        BY <1>0, <2>1, <3>1, <3>2, <4>1 DEF MemTestTypeOK
    <3>5. QED
      BY <1>0, <2>1, <2>3, <3>1, <3>3, <3>4 DEF MemInv
  <2>5. CASE mem[Cell(fault, addr)] # val
    <3>1. mtAt' = "error" /\ UNCHANGED <<val, addr>>
      BY <1>4, <2>5 DEF ReadWord
    <3>2. fault.kind # "none" /\ ~(fault.kind = "alias" /\ fault.cell = fault.other)
      BY <1>0, <2>2, <2>5, ReadFails
    <3>3. MemTestTypeOK'
      BY <1>0, <2>1, <3>1 DEF MemTestTypeOK
    <3>4. QED
      BY <1>0, <2>1, <2>3, <3>1, <3>2, <3>3 DEF MemInv
  <2>6. QED
    BY <2>4, <2>5
<1>5. ASSUME NextPass PROVE MemInv'
  <2>1. /\ mtAt = "read" /\ addr = Words /\ passes < PassMax /\ mtAt' = "write"
        /\ pattern' = NextPattern(pattern) /\ incr' = NextIncr(incr)
        /\ val' = NextPattern(pattern) /\ addr' = 0 /\ passes' = passes + 1
        /\ UNCHANGED <<mem, fault, first>>
    BY <1>5 DEF NextPass
  <2>2. ReadPass(fault, mem, Words, val, pattern, incr, passes, first)
    BY <2>1, Zenon DEF MemInv
  <2>3. /\ Plain(fault) /\ SeenBefore(fault, passes + 1, first)
        /\ WritePass(fault, mem, 0, NextPattern(pattern), NextPattern(pattern), NextIncr(incr),
                     passes + 1, first)
    BY <1>0, <2>2, PassDone
  <2>4. WritePass(fault, mem, addr, val, pattern, incr, passes, first)'
    BY <2>1, <2>3, Zenon
  <2>5. SeenBefore(fault, passes, first)' /\ (~Plain(fault) => passes = 0)'
    BY <2>1, <2>3, Zenon
  <2>6. MemTestTypeOK'
    <3>1. NextPattern(pattern) \in 0 .. WordSize - 1
      BY <1>0, PatternType
    <3>2. NextIncr(incr) \in 0 .. WordSize - 1
      <4>1. NextIncr(incr) \in Increments
        BY <2>3, Zenon DEF WritePass, Pass
      <4>2. QED
        BY <4>1, IncrNext
    <3>3. passes + 1 \in 0 .. PassMax /\ 0 \in 0 .. Words
      BY <1>0, <2>1, MemConstants
    <3>4. QED
      BY <1>0, <2>1, <3>1, <3>2, <3>3 DEF MemTestTypeOK
  <2>7. QED
    BY <1>0, <2>1, <2>4, <2>5, <2>6 DEF MemInv
<1>6. ASSUME MemtestReturn PROVE MemInv'
  <2>1. /\ mtAt' = "idle" /\ mem' = [c \in Cells |-> 0] /\ addr' = 0 /\ val' = 0
        /\ pattern' = 0 /\ incr' = 1 /\ passes' = 0 /\ first' = 0 /\ fault' = NoFault
    BY <1>6 DEF MemtestReturn
  <2>2. NoFault \in Faults /\ NoFault.kind = "none"
    BY DEF Faults, NoFault
  <2>3. Plain(NoFault) /\ SeenBefore(NoFault, 0, 0)
    BY <2>2 DEF Plain, SeenBefore, Stuck
  <2>4. SeenBefore(fault, passes, first)' /\ Plain(fault)'
    BY <2>1, <2>3, Zenon
  <2>5. MemTestTypeOK'
    BY <2>1, MemConstants DEF MemTestTypeOK
  <2>6. QED
    BY <2>1, <2>2, <2>4, <2>5 DEF MemInv
<1>7. ASSUME UNCHANGED memVars PROVE MemInv'
  <2>1. UNCHANGED <<mtAt, mem, addr, val, pattern, incr, passes, fault, first>>
    BY <1>7 DEF memVars
  <2>2. MemTestTypeOK'
    BY <1>0, <2>1 DEF MemTestTypeOK
  <2>3. QED
    BY <2>1, <2>2, Zenon DEF MemInv
<1>8. QED
  BY <1>1, <1>2, <1>3, <1>4, <1>5, <1>6, <1>7 DEF MemTestNext, MemTestRun

LEMMA MemInvariant == MemTestSpec => []MemInv
<1>1. MemTestInit => MemInv
  <2> SUFFICES ASSUME MemTestInit PROVE MemInv
    OBVIOUS
  <2>1. NoFault \in Faults /\ NoFault.kind = "none"
    BY DEF Faults, NoFault
  <2>2. Plain(NoFault) /\ SeenBefore(NoFault, 0, 0)
    BY <2>1 DEF Plain, SeenBefore, Stuck
  <2>3. MemTestTypeOK
    BY MemConstants DEF MemTestInit, MemTestTypeOK
  <2>4. QED
    BY <2>1, <2>2, <2>3 DEF MemTestInit, MemInv
<1>2. QED
  BY <1>1, MemStep, PTL DEF MemTestSpec

\* The variables of the memory test stay words, addresses and passes.
THEOREM MemTestTypeCorrect == MemTestSpec => []MemTestTypeOK
<1>1. MemInv => MemTestTypeOK
  BY DEF MemInv
<1>2. QED
  BY <1>1, MemInvariant, PTL

\* The memory test (cmd_memtest) reports an error only of a memory with a fault,
\* finds an address that reaches another cell in its first pass and a stuck bit by
\* the end of its third, for every width of the words, size of the memory and
\* first pattern but the one that is its own negation.
THEOREM MemFaultCorrect == MemTestSpec => []MemFaultFound
<1>1. ASSUME MemInv PROVE MemFaultFound
  <2>1. /\ fault \in Faults /\ passes \in Nat /\ first \in 0 .. WordSize - 1
        /\ SeenBefore(fault, passes, first)
        /\ ~Plain(fault) => passes = 0
        /\ mtAt = "error" => fault.kind # "none" /\ ~(fault.kind = "alias" /\ fault.cell = fault.other)
    BY <1>1, MemConstants DEF MemInv, MemTestTypeOK
  <2>2. passes >= 1 => (fault.kind = "alias" => fault.cell = fault.other)
    BY <2>1 DEF Plain
  <2>3. ASSUME passes >= 3, fault.kind = "stuck" PROVE first = FixedPattern
    BY <2>1, <2>3, ThreePasses
  <2>4. QED
    BY <2>1, <2>2, <2>3 DEF MemFaultFound
<1>2. QED
  BY <1>1, MemInvariant, PTL
-----------------------------------------------------------------------------
(* KermitPacket                                                            *)

Byte == 0 .. 255

\* A byte is sent as itself, or quoted in a way that the receiver undoes.
LEMMA EncodeOf ==
  ASSUME NEW c \in Byte
  PROVE  /\ Encode(c) \in Seq(Byte)
         /\ \/ Len(Encode(c)) = 1 /\ Encode(c)[1] = c /\ c # Quote
            \/ Len(Encode(c)) = 2 /\ Encode(c)[1] = Quote /\ Unquote(Encode(c)[2]) = c
<1> USE DEF Byte, Quote
<1>1. CASE c % 128 < 32
  <2>1. BitOf(c, 6) = 0
    BY <1>1 DEF BitOf
  <2>2. Encode(c) = <<Quote, c + 64>> /\ c + 64 \in Byte
    BY <1>1, <2>1 DEF Encode, Flip
  <2>3. ((c + 64) \div 32) % 4 = 2
    BY <1>1
  <2>4. Unquote(c + 64) = c
    BY <2>3 DEF Unquote
  <2>5. QED
    BY <2>2, <2>4
<1>2. CASE c % 128 = 127
  <2>1. BitOf(c, 6) = 1
    BY <1>2 DEF BitOf
  <2>2. Encode(c) = <<Quote, c - 64>> /\ c - 64 \in Byte
    BY <1>2, <2>1 DEF Encode, Flip
  <2>3. ((c - 64) \div 32) % 4 # 2 /\ (c - 64) % 128 = 63 /\ (c - 64) + 64 = c
    BY <1>2
  <2>4. Unquote(c - 64) = c
    BY <2>3 DEF Unquote
  <2>5. QED
    BY <2>2, <2>4
<1>3. CASE c = Quote
  <2>1. Encode(c) = <<c, c>>
    BY <1>3 DEF Encode
  <2>2. (c \div 32) % 4 = 1 /\ c % 128 = 35
    BY <1>3
  <2>3. Unquote(c) = c
    BY <2>2 DEF Unquote
  <2>4. PICK e : e = <<c, c>>
    OBVIOUS
  <2>7. e \in Seq(Byte) /\ Len(e) = 2 /\ e[1] = Quote /\ e[2] = c
    BY <1>3, <2>4
  <2>5. Encode(c) = e /\ Unquote(e[2]) = c
    BY <2>1, <2>3, <2>4, <2>7, Zenon
  <2> HIDE DEF Quote
  <2>6. QED
    BY <2>7, <2>5, Zenon
<1>4. CASE ~(c % 128 < 32 \/ c % 128 = 127 \/ c = Quote)
  <2>1. Encode(c) = <<c>>
    BY <1>4 DEF Encode
  <2>2. QED
    BY <1>4, <2>1
<1>5. QED
  BY <1>1, <1>2, <1>3, <1>4

\* The encoding, one more byte of the payload at a time.
LEMMA EncodedSteps ==
  ASSUME NEW p \in Seq(Byte)
  PROVE  /\ EncodedTo(p, 0) = <<>>
         /\ \A n \in 0 .. Len(p) : EncodedTo(p, n) \in Seq(Byte)
         /\ \A n \in 1 .. Len(p) : EncodedTo(p, n) = EncodedTo(p, n - 1) \o Encode(p[n])
<1> DEFINE S == Seq(Byte)
           code == [k \in 1 .. Len(p) |-> Encode(p[k])]
           next == [a \in S \X Nat |-> IF a[2] \in 1 .. Len(p) THEN a[1] \o code[a[2]] ELSE <<>>]
           Text(f) == [k \in 0 .. Len(p) |-> IF k = 0 THEN <<>> ELSE f[k - 1] \o Encode(p[k])]
<1>1. code \in [1 .. Len(p) -> S]
  BY EncodeOf
<1>2. <<>> \in S /\ Len(p) \in Nat
  OBVIOUS
<1>3. next \in [S \X Nat -> S]
  <2> HIDE DEF code
  <2>1. ASSUME NEW a \in S \X Nat, a[2] \in 1 .. Len(p) PROVE a[1] \o code[a[2]] \in S
    BY <1>1, <2>1, ConcatProperties
  <2> HIDE DEF S
  <2>2. QED
    BY <1>2, <2>1
<1> HIDE DEF S, next
<1>4. PICK f \in [0 .. Len(p) -> S] : Follows(f, <<>>, next, Len(p))
  BY <1>2, <1>3, Recursion
<1>5. \A n \in 1 .. Len(p) : f[n] = f[n - 1] \o Encode(p[n])
  <2> SUFFICES ASSUME NEW n \in 1 .. Len(p) PROVE f[n] = f[n - 1] \o Encode(p[n])
    OBVIOUS
  <2>1. <<f[n - 1], n>> \in S \X Nat /\ code[n] = Encode(p[n])
    BY <1>2 
  <2>2. next[<<f[n - 1], n>>] = f[n - 1] \o code[n]
    BY <2>1 DEF next
  <2>3. QED
    BY <1>4, <2>1, <2>2, Zenon DEF Follows
<1>6. f = Text(f)
  <2>1. f = [k \in 0 .. Len(p) |-> f[k]]
    OBVIOUS
  <2>2. ASSUME NEW k \in 0 .. Len(p) 
        PROVE  f[k] = IF k = 0 THEN <<>> ELSE f[k - 1] \o Encode(p[k])
    <3>1. k = 0 \/ (k # 0 /\ k \in 1 .. Len(p))
      BY <1>2
    <3>2. QED
      BY <1>4, <1>5, <3>1, Zenon DEF Follows
  <2>3. QED
    BY <2>1, <2>2, Zenon
<1> DEFINE texts == CHOOSE g : g = Text(g)
<1>7. texts = Text(texts)
  <2> HIDE DEF Text
  <2>1. QED
    BY <1>6
<1>8. \A n : EncodedTo(p, n) = texts[n]
  BY DEF EncodedTo
<1> HIDE DEF texts
<1>9. texts[0] = <<>> /\ \A n \in 1 .. Len(p) : texts[n] = texts[n - 1] \o Encode(p[n])
  BY <1>2, <1>7
<1> DEFINE Good == {k \in Nat : k <= Len(p) => texts[k] \in S}
<1> USE DEF S
<1>10. 0 \in Good
  BY <1>2, <1>9
<1>11. ASSUME NEW k \in Nat, k \in Good PROVE k + 1 \in Good
  <2> SUFFICES ASSUME k + 1 <= Len(p) PROVE texts[k + 1] \in S
    OBVIOUS
  <2>1. k + 1 \in 1 .. Len(p) /\ (k + 1) - 1 = k /\ k <= Len(p)
    BY <1>2
  <2>2. texts[k] \in S /\ code[k + 1] \in S /\ code[k + 1] = Encode(p[k + 1])
    BY <1>1, <1>11, <2>1
  <2>3. Encode(p[k + 1]) \in S
    BY <2>2
  <2>4. texts[k] \o Encode(p[k + 1]) \in S
    BY <2>2, <2>3, ConcatProperties
  <2>5. QED
    BY <1>9, <2>1, <2>4
<1>12. Nat \subseteq Good
  <2> HIDE DEF Good
  <2>1. QED
    BY <1>10, <1>11, Induction
<1>13. \A n \in 0 .. Len(p) : texts[n] \in S
  BY <1>2, <1>12
<1>14. QED
  BY <1>8, <1>9, <1>13, Zenon
\* What is encoded so far is a beginning of all of it.
LEMMA EncodedPrefix ==
  ASSUME NEW p \in Seq(Byte), NEW n \in 0 .. Len(p)
  PROVE  \A d \in Nat : n + d <= Len(p) =>
            /\ Len(EncodedTo(p, n)) + d <= Len(EncodedTo(p, n + d))
            /\ \A k \in 1 .. Len(EncodedTo(p, n)) : EncodedTo(p, n + d)[k] = EncodedTo(p, n)[k]
<1> DEFINE s == EncodedTo(p, n)
           Prefix(t, d) == /\ Len(s) + d <= Len(t)
                           /\ \A k \in 1 .. Len(s) : t[k] = s[k]
           Good == {d \in Nat : n + d <= Len(p) => Prefix(EncodedTo(p, n + d), d)}
<1>0. Len(p) \in Nat /\ n \in Nat
  OBVIOUS
<1>1. s \in Seq(Byte)
  BY EncodedSteps
<1> HIDE DEF s
<1>2. 0 \in Good
  <2>1. n + 0 = n
    BY <1>0
  <2>2. EncodedTo(p, n + 0) = s
    BY <2>1, Zenon DEF s
  <2>3. Prefix(s, 0)
    BY <1>1
  <2>4. QED
    BY <2>2, <2>3, Zenon
<1>3. ASSUME NEW d \in Nat, d \in Good PROVE d + 1 \in Good
  <2> SUFFICES ASSUME n + (d + 1) <= Len(p) PROVE Prefix(EncodedTo(p, n + (d + 1)), d + 1)
    OBVIOUS
  <2>1. PICK m \in 1 .. Len(p) : m = n + (d + 1) /\ m - 1 = n + d /\ m - 1 \in 0 .. Len(p)
    BY <1>0
  <2>2. PICK t \in Seq(Byte) : t = EncodedTo(p, m - 1)
    BY <2>1, EncodedSteps, Zenon
  <2>3. PICK c \in Byte : c = p[m]
    BY <2>1
  <2>4. PICK e \in Seq(Byte) : e = Encode(p[m]) /\ Len(e) >= 1
    <3>1. Encode(c) \in Seq(Byte) /\ Len(Encode(c)) >= 1
      <4>1. Encode(c) \in Seq(Byte) /\ (Len(Encode(c)) = 1 \/ Len(Encode(c)) = 2)
        BY EncodeOf
      <4>2. PICK l : l = Len(Encode(c))
        OBVIOUS
      <4>3. l = 1 \/ l = 2
        BY <4>1, <4>2, Zenon
      <4>4. l >= 1
        BY <4>3
      <4>5. QED
        BY <4>1, <4>2, <4>4, Zenon
    <3>2. QED
      BY <2>3, <3>1, Zenon
  <2>5. EncodedTo(p, m) = t \o e
    BY <2>1, <2>2, <2>4, EncodedSteps, Zenon
  <2>6. Prefix(t, d)
    <3>1. n + d <= Len(p)
      BY <1>0, <2>1
    <3>2. QED
      BY <1>3, <2>1, <2>2, <3>1, Zenon
  <2>7. /\ Len(t \o e) = Len(t) + Len(e)
        /\ \A k \in 1 .. Len(t) : (t \o e)[k] = t[k]
    OBVIOUS
  <2>8. PICK u : u = t \o e
    OBVIOUS
  <2>9. Len(s) + (d + 1) <= Len(u)
    BY <1>1, <2>4, <2>6, <2>7, <2>8
  <2>10. \A k \in 1 .. Len(s) : u[k] = s[k]
    BY <1>1, <2>6, <2>7, <2>8
  <2>11. QED
    BY <2>1, <2>5, <2>8, <2>9, <2>10, Zenon
<1>4. Nat \subseteq Good
  <2> HIDE DEF Good
  <2>1. QED
    BY <1>2, <1>3, Induction
<1>5. QED
  BY <1>4 DEF s

\* All of it: with the encoding of the next byte behind that of the first n, and
\* as long as that of the first n only if they are all.
LEMMA EncodedRest ==
  ASSUME NEW p \in Seq(Byte), NEW n \in 0 .. Len(p)
  PROVE  /\ Encoded(p) \in Seq(Byte)
         /\ EncodedTo(p, n) \in Seq(Byte)
         /\ Len(EncodedTo(p, n)) <= Len(Encoded(p))
         /\ n = Len(p) <=> Len(EncodedTo(p, n)) = Len(Encoded(p))
         /\ n < Len(p) =>
               /\ p[n + 1] \in Byte
               /\ Len(EncodedTo(p, n + 1)) = Len(EncodedTo(p, n)) + Len(Encode(p[n + 1]))
               /\ Len(EncodedTo(p, n + 1)) <= Len(Encoded(p))
               /\ \A k \in 1 .. Len(Encode(p[n + 1])) :
                     Encoded(p)[Len(EncodedTo(p, n)) + k] = Encode(p[n + 1])[k]
<1>0. Len(p) \in Nat /\ n \in Nat /\ Len(p) \in 0 .. Len(p)
  OBVIOUS
<1>1. PICK w \in Seq(Byte) : w = EncodedTo(p, Len(p)) /\ w = Encoded(p)
  BY <1>0, EncodedSteps, Zenon DEF Encoded
<1>2. PICK s \in Seq(Byte) : s = EncodedTo(p, n)
  BY EncodedSteps, Zenon
<1>3. Len(s) + (Len(p) - n) <= Len(w)
  <2>1. Len(p) - n \in Nat /\ n + (Len(p) - n) = Len(p) /\ Len(p) <= Len(p)
    BY <1>0
  <2>2. Len(EncodedTo(p, n)) + (Len(p) - n) <= Len(EncodedTo(p, n + (Len(p) - n)))
    BY <2>1, EncodedPrefix
  <2>3. QED
    BY <1>1, <1>2, <2>1, <2>2, Zenon
<1>4. n = Len(p) <=> Len(s) = Len(w)
  <2>1. n = Len(p) => s = w
    BY <1>1, <1>2
  <2>2. n # Len(p) => Len(s) < Len(w)
    BY <1>0, <1>3
  <2>3. QED
    BY <2>1, <2>2
<1>5. ASSUME n < Len(p)
      PROVE  /\ p[n + 1] \in Byte
             /\ Len(EncodedTo(p, n + 1)) = Len(s) + Len(Encode(p[n + 1]))
             /\ Len(EncodedTo(p, n + 1)) <= Len(w)
             /\ \A k \in 1 .. Len(Encode(p[n + 1])) : w[Len(s) + k] = Encode(p[n + 1])[k]
  <2>1. PICK m \in 1 .. Len(p) : m = n + 1 /\ m - 1 = n /\ m \in 0 .. Len(p)
    BY <1>0, <1>5
  <2>2. PICK c \in Byte : c = p[m]
    BY <2>1
  <2>3. PICK e \in Seq(Byte) : e = Encode(p[m])
    BY <2>2, EncodeOf
  <2>4. PICK t \in Seq(Byte) : t = s \o e
    <3>1. s \o e \in Seq(Byte)
      OBVIOUS
    <3>2. QED
      BY <3>1, Zenon
  <2>5. EncodedTo(p, m) = t
    <3>1. EncodedTo(p, m) = EncodedTo(p, m - 1) \o Encode(p[m])
      BY EncodedSteps, Zenon
    <3>2. EncodedTo(p, m - 1) = s
      BY <1>2, <2>1, Zenon
    <3>3. QED
      BY <2>3, <2>4, <3>1, <3>2, Zenon
  <2>6. /\ Len(t) + (Len(p) - m) <= Len(w)
        /\ \A k \in 1 .. Len(t) : w[k] = t[k]
    <3>1. Len(p) - m \in Nat /\ m + (Len(p) - m) = Len(p) /\ Len(p) <= Len(p)
      BY <1>0, <2>1
    <3>2. PICK d \in Nat : d = Len(p) - m /\ m + d = Len(p) /\ m + d <= Len(p)
      BY <3>1
    <3>3. /\ Len(EncodedTo(p, m)) + d <= Len(EncodedTo(p, m + d))
          /\ \A k \in 1 .. Len(EncodedTo(p, m)) : EncodedTo(p, m + d)[k] = EncodedTo(p, m)[k]
      BY <2>1, <3>2, EncodedPrefix, ZenonT(20)
    <3>4. QED
      BY <1>1, <2>5, <3>2, <3>3, Zenon
  <2>7. Len(t) = Len(s) + Len(e) /\ \A k \in 1 .. Len(e) : t[Len(s) + k] = e[k]
    BY <2>4
  <2>8. Len(t) <= Len(w)
    BY <2>1, <2>6, <1>0
  <2>9. \A k \in 1 .. Len(e) : w[Len(s) + k] = e[k]
    BY <2>6, <2>7
  <2>10. QED
    BY <2>1, <2>2, <2>3, <2>5, <2>7, <2>8, <2>9, Zenon
<1>6. Len(s) <= Len(w)
  BY <1>0, <1>3
<1>7. QED
  BY <1>1, <1>2, <1>4, <1>5, <1>6, Zenon

-----------------------------------------------------------------------------
(* The checksum.                                                           *)

\* The sum, one more byte at a time.
LEMMA SumSteps ==
  ASSUME NEW b \in Seq(Byte)
  PROVE  /\ SumTo(b, 0) = 0
         /\ \A n \in 0 .. Len(b) : SumTo(b, n) \in Byte
         /\ \A n \in 1 .. Len(b) : SumTo(b, n) = Add(SumTo(b, n - 1), b[n])
<1> DEFINE next == [a \in Byte \X Nat |-> IF a[2] \in 1 .. Len(b) THEN Add(a[1], b[a[2]]) ELSE 0]
           Total(f) == [k \in 0 .. Len(b) |-> IF k = 0 THEN 0 ELSE Add(f[k - 1], b[k])]
<1>1. 0 \in Byte /\ Len(b) \in Nat
  BY DEF Byte
<1>2. ASSUME NEW s \in Byte, NEW c \in Byte PROVE Add(s, c) \in Byte
  BY DEF Byte, Add
<1>3. next \in [Byte \X Nat -> Byte]
  <2>1. ASSUME NEW a \in Byte \X Nat, a[2] \in 1 .. Len(b) PROVE Add(a[1], b[a[2]]) \in Byte
    <3>1. a[1] \in Byte /\ b[a[2]] \in Byte
      BY <2>1
    <3>2. QED
      BY <1>2, <3>1
  <2>2. QED
    BY <1>1, <2>1
<1> HIDE DEF next
<1>4. PICK f \in [0 .. Len(b) -> Byte] : Follows(f, 0, next, Len(b))
  BY <1>1, <1>3, Recursion
<1>5. \A n \in 1 .. Len(b) : f[n] = Add(f[n - 1], b[n])
  <2> SUFFICES ASSUME NEW n \in 1 .. Len(b) PROVE f[n] = Add(f[n - 1], b[n])
    OBVIOUS
  <2>1. f[n - 1] \in Byte /\ n \in Nat
    BY <1>1
  <2>2. next[<<f[n - 1], n>>] = Add(f[n - 1], b[n])
    BY <2>1 DEF next
  <2>3. QED
    BY <1>4, <2>2, Zenon DEF Follows
<1>6. f = Total(f)
  <2>1. f = [k \in 0 .. Len(b) |-> f[k]]
    OBVIOUS
  <2>2. ASSUME NEW k \in 0 .. Len(b) PROVE f[k] = IF k = 0 THEN 0 ELSE Add(f[k - 1], b[k])
    <3>1. k = 0 \/ (k # 0 /\ k \in 1 .. Len(b))
      BY <1>1
    <3>2. QED
      BY <1>4, <1>5, <3>1, Zenon DEF Follows
  <2>3. QED
    BY <2>1, <2>2, Zenon
<1> DEFINE total == CHOOSE g : g = Total(g)
<1>7. total = Total(total)
  <2> HIDE DEF Total
  <2>1. QED
    BY <1>6
<1>8. \A n : SumTo(b, n) = total[n]
  BY DEF SumTo
<1> HIDE DEF total
<1>9. total[0] = 0 /\ \A n \in 1 .. Len(b) : total[n] = Add(total[n - 1], b[n])
  BY <1>1, <1>7
<1> DEFINE Good == {k \in Nat : k <= Len(b) => total[k] \in Byte}
<1>10. 0 \in Good
  BY <1>1, <1>9
<1>11. ASSUME NEW k \in Nat, k \in Good PROVE k + 1 \in Good
  <2> SUFFICES ASSUME k + 1 <= Len(b) PROVE total[k + 1] \in Byte
    OBVIOUS
  <2>1. k + 1 \in 1 .. Len(b) /\ (k + 1) - 1 = k /\ k <= Len(b)
    BY <1>1
  <2>2. total[k] \in Byte /\ b[k + 1] \in Byte
    BY <1>11, <2>1
  <2>3. QED
    BY <1>2, <1>9, <2>1, <2>2
<1>12. Nat \subseteq Good
  <2> HIDE DEF Good
  <2>1. QED
    BY <1>10, <1>11, Induction
<1>13. \A n \in 0 .. Len(b) : total[n] \in Byte
  BY <1>1, <1>12
<1>14. QED
  BY <1>8, <1>9, <1>13, Zenon

\* Bytes that agree up to n have the same sum of the first n.
LEMMA SumSame ==
  ASSUME NEW a \in Seq(Byte), NEW b \in Seq(Byte), NEW n \in Nat,
         n <= Len(a), n <= Len(b), \A k \in 1 .. n : a[k] = b[k]
  PROVE  SumTo(a, n) = SumTo(b, n)
<1> DEFINE Good == {k \in Nat : k <= n => SumTo(a, k) = SumTo(b, k)}
<1>1. 0 \in Good
  BY SumSteps
<1>2. ASSUME NEW k \in Nat, k \in Good PROVE k + 1 \in Good
  <2> SUFFICES ASSUME k + 1 <= n PROVE SumTo(a, k + 1) = SumTo(b, k + 1)
    OBVIOUS
  <2>1. /\ k + 1 \in 1 .. Len(a) /\ k + 1 \in 1 .. Len(b) /\ k + 1 \in 1 .. n
        /\ (k + 1) - 1 = k /\ k <= n
    OBVIOUS
  <2>2. SumTo(a, k) = SumTo(b, k) /\ a[k + 1] = b[k + 1]
    BY <1>2, <2>1
  <2>3. SumTo(a, k + 1) = Add(SumTo(a, k), a[k + 1])
    BY <2>1, SumSteps
  <2>4. SumTo(b, k + 1) = Add(SumTo(b, k), b[k + 1])
    BY <2>1, SumSteps
  <2>5. QED
    BY <2>2, <2>3, <2>4, Zenon
<1>3. Nat \subseteq Good
  <2> HIDE DEF Good
  <2>1. QED
    BY <1>1, <1>2, Induction
<1>4. QED
  BY <1>3

\* A sum that is off by something stays off by it.
LEMMA AddMoves ==
  ASSUME NEW s \in Byte, NEW t \in Byte, NEW c \in Byte, NEW delta \in Int, s = (t + delta) % 256
  PROVE  Add(s, c) = (Add(t, c) + delta) % 256
<1>1. PICK q \in Int : t + delta = q * 256 + s
  <2>1. t + delta \in Int
    BY DEF Byte
  <2>2. QED
    BY <2>1, DivMod
<1>2. PICK r \in Int : t + c = r * 256 + Add(t, c) /\ Add(t, c) \in Byte
  <2>1. t + c \in Int
    BY DEF Byte
  <2>2. QED
    BY <2>1, DivMod DEF Add, Byte
<1>3. PICK a \in Byte : a = Add(t, c)
  BY <1>2
<1>4. s + c = (a + delta) + (r - q) * 256
  BY <1>1, <1>2, <1>3 DEF Byte
<1>5. PICK x \in Int, y \in Int, z \in Int : x = a + delta /\ y = r - q /\ z = s + c
  BY DEF Byte
<1>6. z % 256 = x % 256
  <2>1. z = x + y * 256
    BY <1>4, <1>5
  <2>2. QED
    BY <2>1
<1>7. QED
  BY <1>3, <1>5, <1>6 DEF Add

\* Bytes that differ in one place.
DifferAt(a, b, place) == \A k \in 1 .. Len(b) : k # place => a[k] = b[k]

\* A byte that is delta more moves every sum from it on by delta.
LEMMA SumMoved ==
  ASSUME NEW a, NEW b, NEW place, NEW delta,
         a \in Seq(Byte), b \in Seq(Byte), Len(a) = Len(b),
         place \in 1 .. Len(b), delta \in Int, a[place] = b[place] + delta,
         DifferAt(a, b, place)
  PROVE  SumTo(a, Len(a)) = (SumTo(b, Len(b)) + delta) % 256
<1> USE DEF DifferAt
<1> DEFINE Good == {k \in Nat : place + k <= Len(b) =>
                       SumTo(a, place + k) = (SumTo(b, place + k) + delta) % 256}
<1>1. 0 \in Good
  <2>1. PICK n \in Nat : n + 1 = place /\ place - 1 = n /\ n <= Len(a) /\ n <= Len(b) /\ place \in 1 .. Len(a)
    BY place - 1 \in Nat
  <2>2. \A k \in 1 .. n : a[k] = b[k]
    BY <2>1
  <2>3. SumTo(a, n) = SumTo(b, n) 
    BY <2>1, <2>2, SumSame
  <2>4. PICK s \in Byte : s = SumTo(b, n)
    BY <2>1, SumSteps
  <2>5. SumTo(a, place) = Add(s, a[place])
    BY <2>1, <2>3, <2>4, SumSteps
  <2>6. SumTo(b, place) = Add(s, b[place])
    BY <2>1, <2>4, SumSteps
  <2>7. PICK u \in Int, v \in Int : u = s + b[place] /\ v = s + a[place] /\ v = u + delta
    <3>1. PICK c \in Byte : c = b[place]
      OBVIOUS
    <3>2. s + c \in Int /\ s + (c + delta) \in Int /\ s + (c + delta) = (s + c) + delta
      BY DEF Byte
    <3>3. QED
      BY <3>1, <3>2
  <2>8. v % 256 = ((u % 256) + delta) % 256
    <3>1. PICK q \in Int, r \in Int : u = q * 256 + r /\ r = u % 256
      <4>1. u \div 256 \in Int /\ u % 256 \in Int /\ u = (u \div 256) * 256 + (u % 256)
        OBVIOUS
      <4>2. QED
        BY <4>1
    <3>2. PICK x \in Int : x = r + delta
      OBVIOUS
    <3>3. v = x + q * 256
      BY <2>7, <3>1, <3>2, SMTT(20)
    <3>4. v % 256 = x % 256
      BY <3>3
    <3>5. QED
      BY <3>1, <3>2, <3>4
  <2>9. SumTo(a, place) = (SumTo(b, place) + delta) % 256
    BY <2>5, <2>6, <2>7, <2>8 DEF Add
  <2>10. place + 0 = place
    OBVIOUS
  <2>11. QED
    BY <2>9, <2>10
<1>2. ASSUME NEW k \in Nat, k \in Good PROVE k + 1 \in Good
  <2> SUFFICES ASSUME place + (k + 1) <= Len(b)
               PROVE  SumTo(a, place + (k + 1)) = (SumTo(b, place + (k + 1)) + delta) % 256
    OBVIOUS
  <2>1. PICK m \in 1 .. Len(b) : /\ m = place + (k + 1) /\ m \in 1 .. Len(a) /\ m # place
                                 /\ m - 1 = place + k /\ m - 1 \in 0 .. Len(b) /\ m - 1 <= Len(b)
                                 /\ m - 1 \in 0 .. Len(a)
    OBVIOUS
  <2>2. PICK s \in Byte, t \in Byte, c \in Byte :
           s = SumTo(a, m - 1) /\ t = SumTo(b, m - 1) /\ c = b[m] /\ c = a[m]
    BY <2>1, SumSteps
  <2>3. s = (t + delta) % 256
    BY <1>2, <2>1, <2>2
  <2>4. Add(s, c) = (Add(t, c) + delta) % 256
    BY <2>3, AddMoves
  <2>5. SumTo(a, m) = Add(s, c) /\ SumTo(b, m) = Add(t, c)
    BY <2>1, <2>2, SumSteps
  <2>6. QED
    BY <2>1, <2>4, <2>5, Zenon
<1>3. Nat \subseteq Good
  <2> HIDE DEF Good
  <2>1. QED
    BY <1>1, <1>2, Induction
<1>4. PICK k \in Nat : place + k = Len(b) /\ place + k = Len(a) /\ place + k <= Len(b)
  BY Len(b) - place \in Nat
<1>5. QED
  BY <1>3, <1>4

\* The values of one bit.
Ones == {1, 2, 4, 8, 16, 32, 64, 128}

\* A flipped bit changes a byte by a power of two.
LEMMA FlipMoves ==
  ASSUME NEW c \in Byte, NEW k \in 0 .. 7
  PROVE  /\ Flip(c, k) \in Byte
         /\ \E d \in Ones : Flip(c, k) = c + d \/ Flip(c, k) = c - d
<1> USE DEF Byte, Ones, Flip, BitOf
<1>0. k = 0 \/ k = 1 \/ k = 2 \/ k = 3 \/ k = 4 \/ k = 5 \/ k = 6 \/ k = 7
  OBVIOUS
<1>1. 2^0 = 1 /\ 2^1 = 2 /\ 2^2 = 4 /\ 2^3 = 8 /\ 2^4 = 16 /\ 2^5 = 32 /\ 2^6 = 64 /\ 2^7 = 128
  OBVIOUS
<1>2. CASE k = 0
  BY <1>1, <1>2
<1>3. CASE k = 1
  BY <1>1, <1>3
<1>4. CASE k = 2
  BY <1>1, <1>4
<1>5. CASE k = 3
  BY <1>1, <1>5
<1>6. CASE k = 4
  BY <1>1, <1>6
<1>7. CASE k = 5
  BY <1>1, <1>7
<1>8. CASE k = 6
  BY <1>1, <1>8
<1>9. CASE k = 7
  BY <1>1, <1>9
<1>10. QED
  BY <1>0, <1>2, <1>3, <1>4, <1>5, <1>6, <1>7, <1>8, <1>9

\* The check character is one, and tells sums apart that differ by one bit of one byte.
LEMMA CheckOf ==
  ASSUME NEW s \in Byte
  PROVE  Check(s) \in Byte /\ Check(s) >= 32
BY DEF Check, ToChar, Byte

\* The two high bits of a byte and the rest.
LEMMA ByteParts ==
  ASSUME NEW s \in Byte
  PROVE  \E u \in 0 .. 3, v \in 0 .. 63 : s = 64 * u + v /\ s \div 64 = u
<1>1. s \div 64 \in 0 .. 3 /\ s % 64 \in 0 .. 63 /\ s = 64 * (s \div 64) + (s % 64)
  BY DEF Byte
<1>2. QED
  BY <1>1

\* Sums that differ by one bit have different check characters.
LEMMA CheckDiffers ==
  ASSUME NEW s \in Byte, NEW t \in Byte, NEW d \in Ones, s = (t + d) % 256
  PROVE  Check(s) # Check(t)
<1>1. PICK u \in 0 .. 3, v \in 0 .. 63 : t = 64 * u + v /\ t \div 64 = u
  BY ByteParts
<1>2. PICK w \in 0 .. 3, x \in 0 .. 63 : s = 64 * w + x /\ s \div 64 = w
  BY ByteParts
<1> USE DEF Byte
<1>3. s = t + d \/ s + 256 = t + d
  <2>1. t + d \in 0 .. 511
    BY DEF Ones
  <2>2. QED
    BY <2>1
<1>4. (s + w) % 64 = (w + x) % 64 /\ (t + u) % 64 = (u + v) % 64
  BY <1>1, <1>2
<1>5. (w + x) % 64 # (u + v) % 64
  <2>1. w + x \in 0 .. 66 /\ u + v \in 0 .. 66
    OBVIOUS
  <2>2. w + x # u + v /\ w + x # u + v + 64 /\ w + x + 64 # u + v
    BY <1>1, <1>2, <1>3 DEF Ones
  <2>3. QED
    BY <2>1, <2>2
<1>6. QED
  BY <1>1, <1>2, <1>4, <1>5 DEF Check, ToChar

-----------------------------------------------------------------------------
(* What is on the line.                                                    *)

\* What is sent between the mark and the check character.
LEMMA BodyOf ==
  ASSUME NEW h \in [seq : 0 .. 63, type : Byte], NEW p \in Seq(Byte), Len(Encoded(p)) + 3 <= 94
  PROVE  /\ Body(h, p) \in Seq(Byte)
         /\ Len(Body(h, p)) = Len(Encoded(p)) + 3
         /\ Body(h, p)[1] = Len(Encoded(p)) + 35
         /\ Body(h, p)[2] = h.seq + 32
         /\ Body(h, p)[3] = h.type
         /\ \A k \in 1 .. Len(Encoded(p)) : Body(h, p)[k + 3] = Encoded(p)[k]
<1>1. PICK e \in Seq(Byte) : e = Encoded(p)
  <2>1. Len(p) \in 0 .. Len(p)
    OBVIOUS
  <2>2. QED
    BY <2>1, EncodedRest, Zenon
<1>2. PICK n \in Nat : n = Len(e) /\ n + 3 <= 94
  BY <1>1
<1>3. PICK a \in Byte, b \in Byte, c \in Byte : a = Len(e) + 35 /\ b = h.seq + 32 /\ c = h.type
  <2>1. n + 35 \in Byte
    <3>1. \A x \in Nat : x + 3 <= 94 => x + 35 \in 0 .. 255
      OBVIOUS
    <3>2. QED
      BY <1>2, <3>1, Zenon DEF Byte
  <2>2. PICK q \in 0 .. 63, y \in Byte : q = h.seq /\ y = h.type
    OBVIOUS
  <2>3. q + 32 \in Byte
    BY DEF Byte
  <2>4. QED
    BY <1>2, <2>1, <2>2, <2>3, Zenon
<1>4. ToChar(Len(e) + 3) = a /\ ToChar(h.seq) = b
  BY <1>2, <1>3 DEF ToChar
<1>5. Body(h, p) = <<a, b, c>> \o e
  BY <1>1, <1>3, <1>4, Zenon DEF Body
<1>6. PICK t \in Seq(Byte) : t = <<a, b, c>> /\ Len(t) = 3 /\ t[1] = a /\ t[2] = b /\ t[3] = c
  <2>1. /\ <<a, b, c>> \in Seq(Byte) /\ Len(<<a, b, c>>) = 3 
        /\ <<a, b, c>>[1] = a /\ <<a, b, c>>[2] = b /\ <<a, b, c>>[3] = c
    OBVIOUS
  <2>2. QED
    BY <2>1, Zenon
<1>7. /\ t \o e \in Seq(Byte)
      /\ Len(t \o e) = 3 + Len(e)
      /\ (t \o e)[1] = a /\ (t \o e)[2] = b /\ (t \o e)[3] = c
      /\ \A k \in 1 .. Len(e) : (t \o e)[k + 3] = e[k]
  BY <1>2, <1>6
<1>8. PICK u \in Seq(Byte) : u = t \o e
  BY <1>7, Zenon
<1>9. u = Body(h, p)
  BY <1>5, <1>6, <1>8, Zenon
<1>10. Len(u) = Len(e) + 3
  BY <1>2, <1>7, <1>8
<1>11. QED
  BY <1>1, <1>3, <1>7, <1>8, <1>9, <1>10, Zenon

OneBit(d) == d \subseteq [place : Nat, bit : 0 .. 7] /\ \A e, f \in d : e = f

\* What a damage of one bit leaves.
LEMMA DamagedOf ==
  ASSUME NEW b, NEW d, b \in Seq(Byte), OneBit(d)
  PROVE  /\ Damaged(b, d) \in Seq(Byte)
         /\ Len(Damaged(b, d)) = Len(b)
         /\ \/ Damaged(b, d) = b
            \/ \E place \in 2 .. Len(b), bit \in 0 .. 7 :
                  /\ Damaged(b, d)[place] = Flip(b[place], bit)
                  /\ DifferAt(Damaged(b, d), b, place)
<1> USE DEF DifferAt, OneBit
<1>1. Len(b) \in Nat
  OBVIOUS
<1>2. CASE \E e \in d : e.place \in 2 .. Len(b)
  <2>1. PICK e \in d : e.place \in 2 .. Len(b)
    BY <1>2
  <2>2. e.bit \in 0 .. 7
    BY <2>1
  <2>3. ASSUME NEW k \in 1 .. Len(b)
        PROVE  (IF \E g \in d : g.place = k /\ k > 1
                THEN Flip(b[k], (CHOOSE g \in d : g.place = k).bit) ELSE b[k])
                  = IF k = e.place THEN Flip(b[k], e.bit) ELSE b[k]
    <3>1. CASE k = e.place
      <4>1. k > 1
        BY <2>1, <3>1
      <4>2. (CHOOSE g \in d : g.place = k) = e
        BY <2>1, <3>1, Zenon
      <4>3. QED
        BY <2>1, <3>1, <4>1, <4>2, Zenon
    <3>2. CASE k # e.place
      <4>1. \A g \in d : g.place # k
        BY <2>1, <3>2, Zenon
      <4>2. QED
        BY <3>2, <4>1, Zenon
    <3>3. QED
      BY <3>1, <3>2, Zenon
  <2>4. PICK D : D = [k \in 1 .. Len(b) |-> IF k = e.place THEN Flip(b[k], e.bit) ELSE b[k]]
    OBVIOUS
  <2>5. Damaged(b, d) = D
    BY <2>3, <2>4, Zenon DEF Damaged
  <2>6. PICK place \in 2 .. Len(b), bit \in 0 .. 7 : place = e.place /\ bit = e.bit
    BY <2>1, <2>2
  <2>7. /\ D \in Seq(Byte) /\ Len(D) = Len(b) 
        /\ D[place] = Flip(b[place], bit)
        /\ \A k \in 1 .. Len(b) : k # place => D[k] = b[k]
    <3>1. \A k \in 1 .. Len(b) : b[k] \in Byte
      OBVIOUS
    <3>2. Flip(b[place], bit) \in Byte
      <4>1. PICK c \in Byte : c = b[place]
        BY <2>6, <3>1
      <4>2. QED
        BY <4>1, FlipMoves
    <3>3. D = [k \in 1 .. Len(b) |-> IF k = place THEN Flip(b[place], bit) ELSE b[k]]
      BY <2>4, <2>6
    <3>4. D \in [1 .. Len(b) -> Byte]
      BY <3>1, <3>2, <3>3
    <3>5. QED
      BY <1>1, <3>3, <3>4
  <2>8. QED
    BY <2>5, <2>6, <2>7
<1>3. CASE ~\E e \in d : e.place \in 2 .. Len(b)
  <2>1. ASSUME NEW k \in 1 .. Len(b), NEW e \in d, e.place = k, k > 1 PROVE FALSE
    <3>1. k \in 2 .. Len(b)
      BY <1>1, <2>1
    <3>2. QED
      BY <1>3, <2>1, <3>1
  <2>2. ASSUME NEW k \in 1 .. Len(b)
        PROVE  (IF \E g \in d : g.place = k /\ k > 1
                THEN Flip(b[k], (CHOOSE g \in d : g.place = k).bit) ELSE b[k]) = b[k]
    BY <2>1, Zenon
  <2>3. Damaged(b, d) = [k \in 1 .. Len(b) |-> b[k]]
    BY <2>2, Zenon DEF Damaged
  <2>4. Damaged(b, d) = b
    BY <2>3
  <2>5. QED
    BY <2>4
<1>4. QED
  BY <1>2, <1>3, Zenon

\* The characters of two texts, one behind the other.
LEMMA Joined ==
  ASSUME NEW a \in Seq(Byte), NEW b \in Seq(Byte)
  PROVE  /\ a \o b \in Seq(Byte)
         /\ Len(a \o b) = Len(a) + Len(b)
         /\ \A k \in 1 .. Len(a) : (a \o b)[k] = a[k]
         /\ \A k \in 1 .. Len(b) : (a \o b)[Len(a) + k] = b[k]
<1>1. /\ a \o b \in Seq(Byte)
      /\ Len(a \o b) = Len(a) + Len(b)
  BY ConcatProperties
<1>2. ASSUME NEW k \in 1 .. Len(a) PROVE (a \o b)[k] = a[k]
  OBVIOUS
<1>3. ASSUME NEW k \in 1 .. Len(b) PROVE (a \o b)[Len(a) + k] = b[k]
  OBVIOUS
<1>4. QED
  BY <1>1, <1>2, <1>3, Zenon

LineOf(D, c) == <<EOL, MARK>> \o D \o <<c, EOL, MARK, ToChar(3)>>

\* The characters of a line: a mark, the packet, its check character and end.
LEMMA LinePlaces ==
  ASSUME NEW D \in Seq(Byte), NEW c \in Byte
  PROVE  /\ LineOf(D, c) \in Seq(Byte)
         /\ Len(LineOf(D, c)) = Len(D) + 6
         /\ LineOf(D, c)[1] = 13 /\ LineOf(D, c)[2] = 1
         /\ \A k \in 1 .. Len(D) : LineOf(D, c)[k + 2] = D[k]
         /\ LineOf(D, c)[Len(D) + 3] = c /\ LineOf(D, c)[Len(D) + 4] = 13
<1>1. PICK a : a = <<13, 1>>
  OBVIOUS
<1>2. a \in Seq(Byte) /\ Len(a) = 2 /\ a[1] = 13 /\ a[2] = 1
  BY <1>1 DEF Byte
<1>3. PICK z : z = <<c, 13, 1, 35>>
  OBVIOUS
<1>4. z \in Seq(Byte) /\ Len(z) = 4 /\ z[1] = c /\ z[2] = 13
  BY <1>3 DEF Byte
<1>5. LineOf(D, c) = a \o D \o z
  <2>1. ToChar(3) = 35
    BY DEF ToChar
  <2>2. QED
    BY <1>1, <1>3, <2>1 DEF LineOf, EOL, MARK
<1>6. PICK m : m = a \o D /\ m \in Seq(Byte)
  BY <1>2, Joined, Zenon
<1>7. PICK w : w = m \o z /\ w \in Seq(Byte)
  BY <1>4, <1>6, Joined, Zenon
<1>8. PICK n \in Nat : n = Len(D)
  OBVIOUS
<1>9. Len(m) = 2 + n /\ (\A k \in 1 .. 2 : m[k] = a[k]) /\ (\A k \in 1 .. n : m[2 + k] = D[k])
  <2>1. /\ Len(a \o D) = Len(a) + Len(D)
        /\ \A k \in 1 .. Len(a) : (a \o D)[k] = a[k]
        /\ \A k \in 1 .. Len(D) : (a \o D)[Len(a) + k] = D[k]
    BY <1>2, Joined, Zenon
  <2>2. QED
    BY <1>2, <1>6, <1>8, <2>1, Zenon
<1>10. /\ Len(w) = (2 + n) + 4
       /\ \A k \in 1 .. 2 + n : w[k] = m[k]
       /\ \A k \in 1 .. 4 : w[(2 + n) + k] = z[k]
  <2>1. /\ Len(m \o z) = Len(m) + Len(z)
        /\ \A k \in 1 .. Len(m) : (m \o z)[k] = m[k]
        /\ \A k \in 1 .. Len(z) : (m \o z)[Len(m) + k] = z[k]
    BY <1>4, <1>6, Joined, Zenon
  <2>2. QED
    BY <1>4, <1>7, <1>9, <2>1, Zenon
<1>11. Len(w) = n + 6
  BY <1>10
<1>12. w[1] = 13 /\ w[2] = 1
  BY <1>2, <1>9, <1>10
<1>13. \A k \in 1 .. n : w[k + 2] = D[k]
  <2>1. ASSUME NEW k \in 1 .. n PROVE w[k + 2] = D[k]
    <3>1. k + 2 = 2 + k /\ 2 + k \in 1 .. 2 + n
      OBVIOUS
    <3>2. w[2 + k] = m[2 + k] /\ m[2 + k] = D[k]
      BY <1>9, <1>10, <3>1
    <3>3. QED
      BY <3>1, <3>2
  <2>2. QED
    BY <2>1
<1>14. w[n + 3] = c /\ w[n + 4] = 13
  <2>1. n + 3 = (2 + n) + 1 /\ n + 4 = (2 + n) + 2
    OBVIOUS
  <2>2. w[(2 + n) + 1] = z[1] /\ w[(2 + n) + 2] = z[2]
    BY <1>10
  <2>3. QED
    BY <1>4, <2>1, <2>2
<1>15. LineOf(D, c) = w
  BY <1>5, <1>6, <1>7, Zenon
<1>16. QED
  BY <1>7, <1>8, <1>11, <1>12, <1>13, <1>14, <1>15, Zenon

-----------------------------------------------------------------------------
(* The invariant.                                                          *)

\* What is left of the line w when r bytes of it are taken.
RestOf(l, w, r) ==
    /\ l \in Seq(Byte)
    /\ r + Len(l) = Len(w)
    /\ \A k \in 1 .. Len(l) : l[k] = w[r + k]

\* n bytes of data are taken: all of them, or one more behind a last quote.
Taken(D, w, n) ==
    /\ RestOf(line, w, n + 5)
    /\ left + n + 3 = Len(D)
    /\ packet.seq = UnChar(D[2]) /\ packet.type = D[3]
    /\ n + 3 <= Len(D) => sum = SumTo(D, n + 3)

\* They are the encoding of the first j bytes of the payload.
Decoded(n, j) ==
    /\ n = Len(EncodedTo(sent.payload, j))
    /\ Len(packet.data) = j
    /\ \A k \in 1 .. j : packet.data[k] = sent.payload[k]

Receiving(B, D, w) ==
    /\ sent.intact = (D = B)
    /\ at = "mark" => \E r \in {0, 1} : RestOf(line, w, r)
    /\ at = "data" =>
          \E n \in 0 .. Len(D) - 2 :
             /\ Taken(D, w, n)
             /\ sent.intact => \E j \in 0 .. Len(sent.payload) : Decoded(n, j)

PacketInv ==
    /\ PacketTypeOK
    /\ PacketTruthful
    /\ at \in {"mark", "data"} =>
          /\ sent.header \in Headers
          /\ sent.payload \in Payloads
          /\ \E d \in Damages :
             \E B \in {Body(sent.header, sent.payload)} :
             \E D \in {Damaged(B, d)} :
             \E w \in {LineOf(D, Check(Sum(B)))} : Receiving(B, D, w)

\* After n more bytes are read, what is on the line is the rest behind them.
LEMMA RestTaken ==
  ASSUME NEW w, NEW l, NEW r, NEW n, w \in Seq(Byte), r \in Nat, n \in Nat, RestOf(l, w, r), n <= Len(l)
  PROVE  RestOf(SubSeq(l, n + 1, Len(l)), w, r + n)
<1>1. PICK s \in Seq(Byte) : s = l
  BY DEF RestOf
<1>2. PICK m \in Nat : m = Len(s) /\ n <= m
  BY <1>1
<1>3. PICK t : t = SubSeq(s, n + 1, m)
  OBVIOUS
<1>4. /\ t \in Seq(Byte) /\ Len(t) = m - n
      /\ \A k \in 1 .. m - n : t[k] = s[n + k]
  <2>1. n + 1 \in Int /\ m \in Int /\ \A k \in n + 1 .. m : s[k] \in Byte
    BY <1>2
  <2>2. /\ SubSeq(s, n + 1, m) \in Seq(Byte)
        /\ Len(SubSeq(s, n + 1, m)) = IF n + 1 <= m THEN m - (n + 1) + 1 ELSE 0
        /\ \A k \in 1 .. m - (n + 1) + 1 : SubSeq(s, n + 1, m)[k] = s[(n + 1) + k - 1]
    BY <2>1, SubSeqProperties
  <2>3. (IF n + 1 <= m THEN m - (n + 1) + 1 ELSE 0) = m - n /\ m - (n + 1) + 1 = m - n
    BY <1>2
  <2>4. \A k \in 1 .. m - n : (n + 1) + k - 1 = n + k
    OBVIOUS
  <2>5. QED
    BY <1>3, <2>2, <2>3, <2>4
<1>5. r + m = Len(w) /\ \A k \in 1 .. m : s[k] = w[r + k]
  <2>1. RestOf(s, w, r)
    BY <1>1, Zenon
  <2>2. r + Len(s) = Len(w) /\ \A k \in 1 .. Len(s) : s[k] = w[r + k]
    BY <2>1, Zenon DEF RestOf
  <2>3. QED
    BY <1>2, <2>2
<1>6. (r + n) + Len(t) = Len(w)
  <2>1. (r + n) + (m - n) = r + m
    BY <1>2
  <2>2. QED
    BY <1>4, <1>5, <2>1, Zenon
<1>7. ASSUME NEW k \in 1 .. m - n PROVE t[k] = w[(r + n) + k]
  <2>1. n + k \in 1 .. m /\ r + (n + k) = (r + n) + k
    BY <1>2
  <2>2. QED
    BY <1>4, <1>5, <2>1
<1>8. QED
  BY <1>1, <1>2, <1>3, <1>4, <1>6, <1>7, Zenon DEF RestOf

\* The same for one byte, which is the next one of what was sent.
LEMMA RestTail ==
  ASSUME NEW w, NEW l, NEW r, w \in Seq(Byte), r \in Nat, RestOf(l, w, r), 1 <= Len(l)
  PROVE  RestOf(Tail(l), w, r + 1) /\ Head(l) = l[1] /\ l[1] = w[r + 1] /\ l[1] \in Byte
<1>1. PICK s \in Seq(Byte) : s = l
  BY DEF RestOf
<1>2. s # <<>> /\ 1 <= Len(s)
  BY <1>1
<1>3. RestOf(SubSeq(s, 1 + 1, Len(s)), w, r + 1)
  BY <1>1, RestTaken
<1>4. Tail(s) = SubSeq(s, 1 + 1, Len(s)) /\ Head(s) = s[1] /\ s[1] \in Byte
  BY <1>2
<1>5. s[1] = w[r + 1]
  <2>1. 1 \in 1 .. Len(l)
    BY <1>1, <1>2
  <2>2. QED
    BY <1>1, <2>1, Zenon DEF RestOf
<1>6. QED
  BY <1>1, <1>3, <1>4, <1>5, Zenon

\* What a sender puts on the line, by places.
Facts(h, p, B, D, w) ==
    /\ h.seq \in 0 .. 63 /\ h.type \in Byte /\ p \in Seq(Byte)
    /\ B \in Seq(Byte) /\ D \in Seq(Byte) /\ w \in Seq(Byte)
    /\ Len(D) = Len(Encoded(p)) + 3 /\ Len(D) \in 3 .. 94
    /\ D[1] = Len(D) + 32
    /\ D = B => /\ D[2] = h.seq + 32 /\ D[3] = h.type
                /\ \A k \in 1 .. Len(Encoded(p)) : D[k + 3] = Encoded(p)[k]
    /\ D # B => Check(SumTo(D, Len(D))) # Check(Sum(B))
    /\ Sum(B) = SumTo(B, Len(B))
    /\ Check(Sum(B)) \in Byte /\ Check(Sum(B)) >= 32
    /\ Len(w) = Len(D) + 6
    /\ w[1] = 13 /\ w[2] = 1
    /\ \A k \in 1 .. Len(D) : w[k + 2] = D[k]
    /\ w[Len(D) + 3] = Check(Sum(B)) /\ w[Len(D) + 4] = 13

\* A damage changes the sum of the bytes by a value of one bit, and so the check
\* character.
LEMMA Transmission ==
  ASSUME NEW h, NEW p, NEW d, NEW B, NEW D, NEW w, h \in Headers, p \in Payloads, d \in Damages,
         B = Body(h, p), D = Damaged(B, d), w = LineOf(D, Check(Sum(B)))
  PROVE  Facts(h, p, B, D, w)
<1>1. h \in [seq : 0 .. 63, type : Byte] /\ p \in Seq(Byte) /\ Len(Encoded(p)) + 3 <= 94
  BY PacketAssumption, ZenonT(30) DEF Byte
<1>2. h.seq \in 0 .. 63 /\ h.type \in Byte
  BY <1>1
<1>3. PICK n \in Nat : n = Len(Encoded(p)) /\ n + 3 <= 94
  <2>1. Len(p) \in 0 .. Len(p)
    BY <1>1
  <2>2. Encoded(p) \in Seq(Byte)
    BY <1>1, <2>1, EncodedRest, Zenon
  <2>3. Len(Encoded(p)) \in Nat
    BY <2>2
  <2>4. QED
    BY <1>1, <2>3, Zenon
<1>4. /\ B \in Seq(Byte) /\ Len(B) = n + 3
      /\ B[1] = n + 35 /\ B[2] = h.seq + 32 /\ B[3] = h.type
      /\ \A k \in 1 .. n : B[k + 3] = Encoded(p)[k]
  BY <1>1, <1>3, BodyOf, Zenon
<1>5. /\ D \in Seq(Byte) /\ Len(D) = Len(B)
      /\ \/ D = B
         \/ \E place \in 2 .. Len(B), bit \in 0 .. 7 :
               D[place] = Flip(B[place], bit) /\ DifferAt(D, B, place)
  <2>1. OneBit(d)
    BY PacketAssumption, Zenon DEF OneBit
  <2>2. QED
    BY <1>4, <2>1, DamagedOf
<1>6. PICK m \in Nat : m = Len(B) /\ m = n + 3 /\ m \in 3 .. 94 /\ n + 35 = m + 32
  BY <1>3, <1>4
<1>7. D[1] = m + 32
  <2>1. 1 \in 1 .. m
    BY <1>6
  <2>2. \A place \in 2 .. m : 1 # place
    OBVIOUS
  <2>3. D[1] = B[1]
    BY <1>5, <1>6, <2>1, <2>2, Zenon DEF DifferAt
  <2>4. QED
    BY <1>4, <1>6, <2>3
<1>8. Sum(B) = SumTo(B, Len(B)) /\ SumTo(B, Len(B)) \in Byte /\ SumTo(D, Len(D)) \in Byte
  <2>1. Len(B) \in 0 .. Len(B) /\ Len(D) \in 0 .. Len(D)
    BY <1>4, <1>5
  <2>2. QED
    BY <1>4, <1>5, <2>1, SumSteps, Zenon DEF Sum
<1>9. PICK t \in Byte : t = Sum(B)
  BY <1>8
<1>10. PICK s \in Byte : s = SumTo(D, Len(D))
  BY <1>8
<1>11. D # B => Check(s) # Check(t)
  <2> SUFFICES ASSUME D # B PROVE Check(s) # Check(t)
    OBVIOUS
  <2>1. PICK place \in 2 .. m, bit \in 0 .. 7 :
               D[place] = Flip(B[place], bit) /\ DifferAt(D, B, place)
    BY <1>5, <1>6, Zenon
  <2>2. place \in 1 .. Len(B)
    BY <1>6
  <2>3. PICK c \in Byte : c = B[place]
    BY <1>4, <2>2
  <2>4. PICK x \in Ones : Flip(c, bit) = c + x \/ Flip(c, bit) = c - x
    BY FlipMoves
  <2>5. x \in Int /\ -x \in Int /\ c + (-x) = c - x
    BY DEF Ones, Byte
  <2>6. CASE Flip(c, bit) = c + x
    <3>1. PICK y \in Int : y = x
      BY <2>5
    <3>2. D[place] = B[place] + y
      BY <2>1, <2>3, <2>6, <3>1, Zenon
    <3>3. SumTo(D, Len(D)) = (SumTo(B, Len(B)) + y) % 256
      BY <1>4, <1>5, <2>1, <2>2, <3>2, SumMoved
    <3>4. s = (t + x) % 256
      BY <1>8, <1>9, <1>10, <3>1, <3>3, Zenon
    <3>5. QED
      BY <3>4, CheckDiffers
  <2>7. CASE Flip(c, bit) = c - x
    <3>1. PICK y \in Int : y = -x
      BY <2>5
    <3>2. D[place] = B[place] + y
      BY <2>1, <2>3, <2>5, <2>7, <3>1, Zenon
    <3>3. SumTo(D, Len(D)) = (SumTo(B, Len(B)) + y) % 256
      BY <1>4, <1>5, <2>1, <2>2, <3>2, SumMoved
    <3>4. s = (t + y) % 256
      BY <1>8, <1>9, <1>10, <3>3, Zenon
    <3>5. t = (s + x) % 256
      BY <3>1, <3>4 DEF Byte, Ones
    <3>6. QED
      BY <3>5, CheckDiffers
  <2>8. QED
    BY <2>4, <2>6, <2>7, Zenon
<1>12. Check(t) \in Byte /\ Check(t) >= 32
  BY CheckOf
<1>13. /\ w \in Seq(Byte) /\ Len(w) = Len(D) + 6
       /\ w[1] = 13 /\ w[2] = 1
       /\ \A k \in 1 .. Len(D) : w[k + 2] = D[k]
       /\ w[Len(D) + 3] = Check(t) /\ w[Len(D) + 4] = 13
  BY <1>5, <1>9, <1>12, LinePlaces, ZenonT(30)
<1>14. D = B => /\ D[2] = h.seq + 32 /\ D[3] = h.type
                /\ \A k \in 1 .. n : D[k + 3] = Encoded(p)[k]
  BY <1>4, Zenon
<1>15. Len(D) = Len(Encoded(p)) + 3 /\ Len(D) \in 3 .. 94 /\ D[1] = Len(D) + 32
  BY <1>3, <1>5, <1>6, <1>7, Zenon
<1>16. D # B => Check(SumTo(D, Len(D))) # Check(Sum(B))
  BY <1>9, <1>10, <1>11, Zenon
<1>17. Check(Sum(B)) \in Byte /\ Check(Sum(B)) >= 32
  BY <1>9, <1>12, Zenon
<1>18. D = B => /\ D[2] = h.seq + 32 /\ D[3] = h.type
                /\ \A k \in 1 .. Len(Encoded(p)) : D[k + 3] = Encoded(p)[k]
  BY <1>3, <1>14, Zenon
<1>19. w[Len(D) + 3] = Check(Sum(B))
  BY <1>9, <1>13, Zenon
<1>20. QED
  BY <1>1, <1>2, <1>4, <1>5, <1>8, <1>13, <1>15, <1>16, <1>17, <1>18, <1>19, Zenon DEF Facts

-----------------------------------------------------------------------------
(* The steps.                                                              *)

\* A packet on the line satisfies the invariant, damaged or not.
LEMMA SendStep ==
  ASSUME PacketInv, NEW h \in Headers, NEW p \in Payloads, NEW d \in Damages, Send(h, p, d)
  PROVE  PacketInv'
<1>1. PICK B : B = Body(h, p)
  OBVIOUS
<1>2. PICK D : D = Damaged(B, d)
  OBVIOUS
<1>3. PICK w : w = LineOf(D, Check(Sum(B)))
  OBVIOUS
<1>4. line' = w /\ sent' = [header |-> h, payload |-> p, intact |-> (D = B)] /\ at' = "mark"
  BY <1>1, <1>2, <1>3, Zenon DEF Send, LineOf
<1>5. UNCHANGED <<packet, sum, left, outcome>>
  BY DEF Send
<1>6. PacketTypeOK' /\ PacketTruthful'
  BY <1>4, <1>5 DEF PacketInv, PacketTypeOK, PacketTruthful
<1>7. w \in Seq(Byte)
  <2>1. Facts(h, p, B, D, w)
    BY <1>1, <1>2, <1>3, Transmission
  <2>2. QED
    BY <2>1, Zenon DEF Facts
<1>8. RestOf(w, w, 0)
  BY <1>7 DEF RestOf
<1>9. sent'.header = h /\ sent'.payload = p /\ sent'.intact = (D = B)
  BY <1>4
<1>10. Receiving(B, D, w)'
  <2>1. \E r \in {0, 1} : RestOf(line', w, r)
    BY <1>4, <1>8, Zenon
  <2>2. at' # "data"
    BY <1>4
  <2>3. QED
    BY <1>9, <2>1, <2>2 DEF Receiving
<1>11. sent'.header \in Headers /\ sent'.payload \in Payloads
  BY <1>9, Zenon
<1>12. B \in {Body(sent'.header, sent'.payload)} /\ D \in {Damaged(B, d)} /\ w \in {LineOf(D, Check(Sum(B)))}
  BY <1>1, <1>2, <1>3, <1>9, Zenon
<1>13. QED
  BY <1>6, <1>10, <1>11, <1>12, Zenon DEF PacketInv

\* What a step in the middle of a packet begins with.
Middle(d, B, D, w) ==
    /\ PacketTypeOK
    /\ sent.header \in Headers /\ sent.payload \in Payloads /\ d \in Damages
    /\ B = Body(sent.header, sent.payload)
    /\ D = Damaged(B, d)
    /\ w = LineOf(D, Check(Sum(B)))
    /\ Receiving(B, D, w)

\* While a packet is read, the invariant says what was sent and what of it is read.
LEMMA MiddleOf ==
  ASSUME PacketInv, at \in {"mark", "data"}
  PROVE  \E d, B, D, w : Middle(d, B, D, w)
<1>1. /\ PacketTypeOK
      /\ sent.header \in Headers /\ sent.payload \in Payloads
  BY Zenon DEF PacketInv
<1>2. PICK d \in Damages : \E B \in {Body(sent.header, sent.payload)} :
             \E D \in {Damaged(B, d)} : \E w \in {LineOf(D, Check(Sum(B)))} : Receiving(B, D, w)
  BY Zenon DEF PacketInv
<1>3. PICK B \in {Body(sent.header, sent.payload)} :
             \E D \in {Damaged(B, d)} : \E w \in {LineOf(D, Check(Sum(B)))} : Receiving(B, D, w)
  BY <1>2, Zenon
<1>4. PICK D \in {Damaged(B, d)} : \E w \in {LineOf(D, Check(Sum(B)))} : Receiving(B, D, w)
  BY <1>3, Zenon
<1>6. PICK w \in {LineOf(D, Check(Sum(B)))} : Receiving(B, D, w)
  BY <1>4, Zenon
<1>5. B = Body(sent.header, sent.payload) /\ D = Damaged(B, d) /\ w = LineOf(D, Check(Sum(B)))
  BY Zenon
<1>7. Middle(d, B, D, w)
  BY <1>1, <1>5, <1>6, Zenon DEF Middle
<1>8. QED
  BY <1>7, Zenon

\* The same packet goes on.
LEMMA MiddleKept ==
  ASSUME NEW d, NEW B, NEW D, NEW w, Middle(d, B, D, w), sent' = sent, at' \in {"mark", "data"},
         PacketTypeOK', Receiving(B, D, w)'
  PROVE  PacketInv'
<1>1. at' # "done"
  OBVIOUS
<1>2. PacketTruthful'
  BY <1>1, Zenon DEF PacketTruthful
<1>3. sent'.header \in Headers /\ sent'.payload \in Payloads
  BY Zenon DEF Middle
<1>4. /\ d \in Damages /\ B \in {Body(sent'.header, sent'.payload)}
      /\ D \in {Damaged(B, d)} /\ w \in {LineOf(D, Check(Sum(B)))}
  BY Zenon DEF Middle
<1>5. QED
  BY <1>2, <1>3, <1>4, Zenon DEF PacketInv

\* The lengths and characters of what was sent.
LEMMA MiddleFacts ==
  ASSUME NEW d, NEW B, NEW D, NEW w, Middle(d, B, D, w)
  PROVE  Facts(sent.header, sent.payload, B, D, w)
<1>1. /\ sent.header \in Headers /\ sent.payload \in Payloads /\ d \in Damages
      /\ B = Body(sent.header, sent.payload) /\ D = Damaged(B, d) /\ w = LineOf(D, Check(Sum(B)))
  BY Zenon DEF Middle
<1>2. QED
  BY <1>1, Transmission

\* A byte before the mark.
LEMMA SkipStep ==
  ASSUME PacketInv, SkipByte
  PROVE  PacketInv'
<1>1. at = "mark" /\ Head(line) # 1 /\ line' = Tail(line)
  BY DEF SkipByte, MARK
<1>2. UNCHANGED <<at, packet, sum, left, outcome, sent>>
  BY DEF SkipByte
<1>3. PICK d, B, D, w : Middle(d, B, D, w)
  BY <1>1, MiddleOf
<1>4. Facts(sent.header, sent.payload, B, D, w)
  BY <1>3, MiddleFacts
<1>5. w \in Seq(Byte) /\ Len(w) > 2 /\ w[2] = 1
  <2>1. Len(w) = Len(D) + 6 /\ Len(D) \in 3 .. 94 /\ w \in Seq(Byte) /\ w[2] = 1
    BY <1>4, Zenon DEF Facts
  <2>2. QED
    BY <2>1
<1>6. PICK r \in {0, 1} : RestOf(line, w, r)
  BY <1>1, <1>3, Zenon DEF Middle, Receiving
<1>7. 1 <= Len(line) /\ r \in Nat
  <2>1. r + Len(line) = Len(w) /\ line \in Seq(Byte)
    BY <1>6, Zenon DEF RestOf
  <2>2. QED
    BY <1>5, <2>1
<1>8. RestOf(Tail(line), w, r + 1) /\ Head(line) = w[r + 1]
  BY <1>5, <1>6, <1>7, RestTail, Zenon
<1>9. r = 0
  <2>1. 1 + 1 = 2
    OBVIOUS
  <2>2. r # 1
    BY <1>1, <1>5, <1>8, <2>1, Zenon
  <2>3. QED
    BY <2>2
<1>10. RestOf(line', w, 1)
  <2>1. 0 + 1 = 1
    OBVIOUS
  <2>2. QED
    BY <1>1, <1>8, <1>9, <2>1, Zenon
<1>11. Receiving(B, D, w)'
  <2>1. sent'.intact = (D = B)
    BY <1>2, <1>3, Zenon DEF Middle, Receiving
  <2>2. at' = "mark"
    BY <1>1, <1>2
  <2>3. QED
    BY <1>10, <2>1, <2>2 DEF Receiving
<1>12. PacketTypeOK'
  BY <1>2, <1>3 DEF Middle, PacketTypeOK
<1>13. QED
  BY <1>1, <1>2, <1>3, <1>11, <1>12, MiddleKept

\* LEN, SEQ and TYPE are the first bytes behind the MARK, and summed.
LEMMA HeaderStep ==
  ASSUME PacketInv, GetHeader
  PROVE  PacketInv'
<1>1. /\ at = "mark" /\ Head(line) = 1 /\ at' = "data"
      /\ packet' = [seq |-> UnChar(line[3]), type |-> line[4], data |-> <<>>]
      /\ sum' = Sum(SubSeq(line, 2, 4))
      /\ left' = UnChar(line[2]) - 3
      /\ line' = SubSeq(line, 5, Len(line))
      /\ UNCHANGED <<outcome, sent>>
  BY DEF GetHeader, MARK
<1>2. PICK d, B, D, w : Middle(d, B, D, w)
  BY <1>1, MiddleOf
<1>3. Facts(sent.header, sent.payload, B, D, w)
  BY <1>2, MiddleFacts
<1>4. PICK m \in 3 .. 94 : m = Len(D)
  BY <1>3, Zenon DEF Facts
<1>5. /\ D \in Seq(Byte) /\ w \in Seq(Byte) /\ D[1] = m + 32
      /\ Len(w) = m + 6 /\ w[1] = 13 /\ \A k \in 1 .. m : w[k + 2] = D[k]
  BY <1>3, <1>4, Zenon DEF Facts
<1>6. PICK r \in {0, 1} : RestOf(line, w, r)
  BY <1>1, <1>2, Zenon DEF Middle, Receiving
<1>7. PICK l \in Seq(Byte) : l = line
  BY <1>6, Zenon DEF RestOf
<1>8. PICK n \in Nat : n = Len(l) /\ r + n = m + 6 /\ 5 <= n
  <2>1. r + Len(l) = m + 6
    BY <1>5, <1>6, <1>7, Zenon DEF RestOf
  <2>2. QED
    BY <2>1
<1>9. r = 1
  <2>1. RestOf(l, w, r) /\ 1 <= Len(l) /\ r \in Nat
    BY <1>6, <1>7, <1>8
  <2>6. RestOf(Tail(l), w, r + 1) /\ Head(l) = l[1] /\ l[1] = w[r + 1] /\ l[1] \in Byte
    BY <1>5, <2>1, RestTail, Zenon
  <2>2. Head(l) = w[r + 1]
    BY <2>6, Zenon
  <2>3. 0 + 1 = 1
    OBVIOUS
  <2>4. r # 0
    BY <1>1, <1>5, <1>7, <2>2, <2>3
  <2>5. QED
    BY <2>4
<1>10. \A k \in 1 .. n : l[k] = w[1 + k]
  BY <1>6, <1>7, <1>8, <1>9, Zenon DEF RestOf
<1>11. l[2] = D[1] /\ l[3] = D[2] /\ l[4] = D[3]
  <2>1. 2 \in 1 .. n /\ 3 \in 1 .. n /\ 4 \in 1 .. n /\ 1 + 2 = 3 /\ 1 + 3 = 4 /\ 1 + 4 = 5
    BY <1>8
  <2>2. l[2] = w[3] /\ l[3] = w[4] /\ l[4] = w[5]
    BY <1>10, <2>1, Zenon
  <2>3. 1 \in 1 .. m /\ 2 \in 1 .. m /\ 3 \in 1 .. m /\ 2 + 2 = 4 /\ 3 + 2 = 5
    OBVIOUS
  <2>4. w[3] = D[1] /\ w[4] = D[2] /\ w[5] = D[3]
    BY <1>5, <2>1, <2>3, Zenon
  <2>5. QED
    BY <2>2, <2>4, Zenon
<1>12. left' = m - 3
  <2>1. ((m + 32) - 32) % 256 = m
    OBVIOUS
  <2>2. UnChar(line[2]) = m
    BY <1>5, <1>7, <1>11, <2>1, Zenon DEF UnChar
  <2>3. QED
    BY <1>1, <2>2, Zenon
<1>13. RestOf(line', w, 5)
  <2>1. RestOf(l, w, 1) /\ 4 \in Nat /\ 1 \in Nat /\ 4 <= Len(l) /\ 1 + 4 = 5 /\ 4 + 1 = 5
    BY <1>6, <1>7, <1>8, <1>9
  <2>2. RestOf(SubSeq(l, 4 + 1, Len(l)), w, 1 + 4)
    BY <1>5, <2>1, RestTaken
  <2>3. QED
    BY <1>1, <1>7, <2>1, <2>2, Zenon
<1>14. sum' = SumTo(D, 3) /\ sum' \in Byte
  <2>1. PICK t : t = SubSeq(l, 2, 4)
    OBVIOUS
  <2>2. t \in Seq(Byte) /\ Len(t) = 3 /\ t[1] = l[2] /\ t[2] = l[3] /\ t[3] = l[4]
    <3>1. 2 \in Int /\ 4 \in Int /\ \A k \in 2 .. 4 : l[k] \in Byte
      BY <1>8
    <3>2. /\ SubSeq(l, 2, 4) \in Seq(Byte)
          /\ Len(SubSeq(l, 2, 4)) = IF 2 <= 4 THEN 4 - 2 + 1 ELSE 0
          /\ \A k \in 1 .. 4 - 2 + 1 : SubSeq(l, 2, 4)[k] = l[2 + k - 1]
      BY <3>1, SubSeqProperties
    <3>3. QED
      BY <2>1, <3>2
  <2>3. \A k \in 1 .. 3 : t[k] = D[k]
    BY <1>11, <2>2
  <2>4. 3 \in Nat /\ 3 <= Len(t) /\ 3 <= Len(D) /\ 3 \in 0 .. Len(t)
    BY <1>4, <2>2
  <2>5. SumTo(t, 3) = SumTo(D, 3)
    BY <1>5, <2>2, <2>3, <2>4, SumSame
  <2>6. SumTo(t, 3) \in Byte
    BY <2>2, <2>4, SumSteps
  <2>7. QED
    BY <1>1, <1>7, <2>1, <2>2, <2>5, <2>6, Zenon DEF Sum
<1>15. packet'.seq = UnChar(D[2]) /\ packet'.type = D[3] /\ packet'.data = <<>>
  BY <1>1, <1>7, <1>11
<1>16. Taken(D, w, 0)'
  <2>1. RestOf(line', w, 0 + 5)
    <3>1. 0 + 5 = 5
      OBVIOUS
    <3>2. QED
      BY <1>13, <3>1, Zenon
  <2>2. left' + 0 + 3 = Len(D)
    BY <1>4, <1>12
  <2>3. SumTo(D, 0 + 3) = SumTo(D, 3)
    OBVIOUS
  <2>4. QED
    BY <1>14, <1>15, <2>1, <2>2, <2>3 DEF Taken
<1>17. sent.intact => Decoded(0, 0)' 
  <2>1. sent.payload \in Seq(Byte)
    BY <1>3, Zenon DEF Facts
  <2>2. EncodedTo(sent.payload, 0) = <<>>
    BY <2>1, EncodedSteps
  <2>3. sent' = sent
    BY <1>1
  <2>4. QED
    BY <1>15, <2>2, <2>3 DEF Decoded
<1>18. Receiving(B, D, w)'
  <2>1. sent'.intact = (D = B) /\ sent' = sent
    BY <1>1, <1>2, Zenon DEF Middle, Receiving
  <2>2. 0 \in 0 .. Len(D) - 2
    BY <1>4
  <2>3. 0 \in 0 .. Len(sent.payload)
    <3>1. sent.payload \in Seq(Byte)
      BY <1>3, Zenon DEF Facts
    <3>2. QED
      BY <3>1
  <2>4. at' # "mark"
    BY <1>1
  <2>5. QED
    BY <1>16, <1>17, <2>1, <2>2, <2>3, <2>4, Zenon DEF Receiving
<1>19. PacketTypeOK'
  <2>1. PICK x \in Byte, y \in Byte : x = line[3] /\ y = line[4]
    <3>1. 3 \in 1 .. Len(l) /\ 4 \in 1 .. Len(l)
      BY <1>8
    <3>2. l[3] \in Byte /\ l[4] \in Byte
      BY <3>1, ElementOfSeq, Zenon
    <3>3. QED
      BY <1>7, <3>2, Zenon
  <2>2. packet' \in [seq : 0 .. 255, type : 0 .. 255, data : Seq(0 .. 255)]
    <3>1. PICK q \in 0 .. 255 : q = UnChar(x)
      BY DEF UnChar, Byte
    <3>2. y \in 0 .. 255
      BY DEF Byte
    <3>3. packet' = [seq |-> q, type |-> y, data |-> <<>>]
      BY <1>1, <2>1, <3>1, Zenon
    <3>4. QED
      BY <3>2, <3>3
  <2>3. outcome' \in {"none", "received", "refused"}
    BY <1>1, <1>2 DEF Middle, PacketTypeOK
  <2>4. left' >= -1
    BY <1>12
  <2>5. at' \in {"idle", "mark", "data", "done"}
    BY <1>1
  <2>6. QED
    <3>1. sum' \in 0 .. 255 /\ left' \in Int
      BY <1>12, <1>14 DEF Byte
    <3>2. QED
      BY <2>2, <2>3, <2>4, <2>5, <3>1, Zenon DEF PacketTypeOK
<1>20. QED
  BY <1>1, <1>2, <1>18, <1>19, MiddleKept

\* The packet is handed over.
LEMMA ReturnStep ==
  ASSUME PacketInv, PacketReturn
  PROVE  PacketInv'
<1>1. /\ at' = "idle" /\ packet' = [seq |-> 0, type |-> 0, data |-> <<>>]
      /\ sum' = 0 /\ left' = 0 /\ outcome' = "none"
  BY DEF PacketReturn
<1>2. QED
  BY <1>1 DEF PacketInv, PacketTypeOK, PacketTruthful, Byte

\* The check character: right behind the data, or the EOL for it.
LEMMA CheckStep ==
  ASSUME PacketInv, GetCheck
  PROVE  PacketInv'
<1>1. /\ at = "data" /\ left <= 0 /\ at' = "done"
      /\ outcome' = (IF line[1] = Check(sum) THEN "received" ELSE "refused")
      /\ line' = Tail(line)
      /\ UNCHANGED <<packet, sum, left, sent>>
  BY DEF GetCheck
<1>2. PICK d, B, D, w : Middle(d, B, D, w)
  BY <1>1, MiddleOf
<1>3. Facts(sent.header, sent.payload, B, D, w)
  BY <1>2, MiddleFacts
<1>4. PICK m \in 3 .. 94 : m = Len(D)
  BY <1>3, Zenon DEF Facts
<1>5. /\ D \in Seq(Byte) /\ w \in Seq(Byte)
      /\ Len(w) = m + 6 /\ w[m + 3] = Check(Sum(B)) /\ w[m + 4] = 13
      /\ Check(Sum(B)) \in Byte /\ Check(Sum(B)) >= 32
  BY <1>3, <1>4, Zenon DEF Facts
<1>6. PICK n \in 0 .. m - 2 :
         /\ Taken(D, w, n)
         /\ sent.intact => \E j \in 0 .. Len(sent.payload) : Decoded(n, j)
  BY <1>1, <1>2, <1>4, Zenon DEF Middle, Receiving
<1>7. /\ RestOf(line, w, n + 5)
      /\ left + n + 3 = m
      /\ packet.seq = UnChar(D[2]) /\ packet.type = D[3]
      /\ n + 3 <= m => sum = SumTo(D, n + 3)
  BY <1>4, <1>6, Zenon DEF Taken
<1>8. sum \in Byte /\ left \in Int /\ left >= -1
  BY <1>2 DEF Middle, PacketTypeOK, Byte
<1>9. n = m - 3 \/ n = m - 2
  BY <1>1, <1>7, <1>8
<1>10. PICK l : l = line /\ l \in Seq(Byte)
  BY <1>7, Zenon DEF RestOf
<1>11. Len(l) >= 2 /\ l[1] = w[n + 6] /\ RestOf(Tail(l), w, n + 6) /\ Len(Tail(l)) >= 1
  <2>1. RestOf(l, w, n + 5) /\ (n + 5) + Len(l) = m + 6
    BY <1>5, <1>7, <1>10, Zenon DEF RestOf
  <2>2. PICK x \in Nat : x = Len(l)
    BY <1>10
  <2>3. x >= 2 /\ n + 5 \in Nat /\ (n + 5) + 1 = n + 6
    BY <1>9, <2>1, <2>2
  <2>4. 1 <= Len(l)
    BY <2>2, <2>3
  <2>5. RestOf(Tail(l), w, (n + 5) + 1) /\ l[1] = w[(n + 5) + 1]
    <3>1. PICK r \in Nat : r = n + 5
      BY <2>3
    <3>2. RestOf(l, w, r)
      BY <2>1, <3>1, Zenon
    <3>3. RestOf(Tail(l), w, r + 1) /\ Head(l) = l[1] /\ l[1] = w[r + 1] /\ l[1] \in Byte
      BY <1>5, <2>4, <3>2, RestTail, Zenon
    <3>4. QED
      BY <3>1, <3>3, Zenon
  <2>6. l # <<>>
    BY <1>10, <2>4
  <2>7. Len(Tail(l)) = Len(l) - 1
    BY <1>10, <2>6
  <2>8. QED
    BY <2>2, <2>3, <2>5, <2>7
<1>12. ASSUME n = m - 2 PROVE PacketTruthful'
  <2>1. n + 6 = m + 4
    BY <1>12
  <2>2. line[1] = 13
    BY <1>5, <1>10, <1>11, <2>1, Zenon
  <2>3. Check(sum) >= 32
    BY <1>8, CheckOf
  <2>4. PICK c \in Byte : c = Check(sum)
    BY <1>8, CheckOf
  <2>5. line[1] # Check(sum)
    BY <2>2, <2>3, <2>4 DEF Byte
  <2>6. outcome' = "refused"
    BY <1>1, <2>5, Zenon
  <2>7. ~sent.intact
    <3> SUFFICES ASSUME sent.intact PROVE FALSE
      OBVIOUS
    <3>1. PICK j \in 0 .. Len(sent.payload) : Decoded(n, j)
      BY <1>6
    <3>2. sent.payload \in Seq(Byte) /\ m = Len(Encoded(sent.payload)) + 3
      BY <1>3, <1>4, Zenon DEF Facts
    <3>3. PICK x \in Nat, y \in Nat : x = Len(EncodedTo(sent.payload, j)) /\ y = Len(Encoded(sent.payload)) /\ x <= y
      <4>1. /\ EncodedTo(sent.payload, j) \in Seq(Byte) /\ Encoded(sent.payload) \in Seq(Byte)
            /\ Len(EncodedTo(sent.payload, j)) <= Len(Encoded(sent.payload))
        BY <3>2, EncodedRest, Zenon
      <4>2. Len(EncodedTo(sent.payload, j)) \in Nat /\ Len(Encoded(sent.payload)) \in Nat
        BY <4>1
      <4>3. QED
        BY <4>1, <4>2, Zenon
    <3>4. n = x
      BY <3>1, <3>3, Zenon DEF Decoded
    <3>5. m = y + 3
      BY <3>2, <3>3, Zenon
    <3>6. QED
      BY <1>12, <3>3, <3>4, <3>5
  <2>8. outcome' = "refused" /\ ~sent'.intact
    BY <1>1, <2>6, <2>7
  <2>9. QED
    BY <2>8, Zenon DEF PacketTruthful
<1>13. ASSUME n = m - 3 PROVE PacketTruthful'
  <2>1. n + 6 = m + 3 /\ n + 3 = m /\ n + 3 <= m
    BY <1>13
  <2>2. line[1] = Check(Sum(B))
    BY <1>5, <1>10, <1>11, <2>1, Zenon
  <2>3. sum = SumTo(D, m)
    BY <1>7, <2>1, Zenon
  <2>4. sent.intact = (D = B) /\ sent' = sent
    BY <1>1, <1>2, Zenon DEF Middle, Receiving
  <2>5. CASE D # B
    <3>1. Check(sum) # Check(Sum(B))
      BY <1>3, <1>4, <2>3, <2>5, Zenon DEF Facts
    <3>2. outcome' = "refused" /\ ~sent'.intact
      BY <1>1, <2>2, <2>4, <2>5, <3>1
    <3>3. QED
      BY <3>2, Zenon DEF PacketTruthful
  <2>6. CASE D = B
    <3>1. sum = Sum(B)
      BY <1>3, <1>4, <2>3, <2>6, Zenon DEF Facts
    <3>2. outcome' = "received"
      BY <1>1, <2>2, <3>1, Zenon
    <3>3. PICK h, p : /\ h = sent.header /\ p = sent.payload
                      /\ h.seq \in 0 .. 63 /\ h.type \in Byte /\ p \in Seq(Byte)
                      /\ m = Len(Encoded(p)) + 3 /\ D[2] = h.seq + 32 /\ D[3] = h.type
      BY <1>3, <1>4, <2>6, Zenon DEF Facts
    <3>4. PICK j \in 0 .. Len(p) : Decoded(n, j)
      BY <1>6, <2>4, <2>6, <3>3, Zenon
    <3>5. j = Len(p)
      <4>1. /\ EncodedTo(p, j) \in Seq(Byte) /\ Encoded(p) \in Seq(Byte)
            /\ j = Len(p) <=> Len(EncodedTo(p, j)) = Len(Encoded(p))
        BY <3>3, EncodedRest, Zenon
      <4>2. PICK x \in Nat : x = Len(Encoded(p))
        BY <4>1
      <4>3. m = x + 3
        BY <3>3, <4>2, Zenon
      <4>4. n = x
        BY <1>13, <4>3
      <4>5. n = Len(EncodedTo(p, j))
        BY <3>3, <3>4, Zenon DEF Decoded
      <4>6. QED
        BY <4>1, <4>2, <4>4, <4>5, Zenon
    <3>6. packet.data = p
      <4>1. packet.data \in Seq(Byte)
        BY <1>2 DEF Middle, PacketTypeOK, Byte
      <4>2. Len(packet.data) = Len(p) /\ \A k \in 1 .. Len(p) : packet.data[k] = p[k]
        BY <3>3, <3>4, <3>5, Zenon DEF Decoded
      <4>3. QED
        BY <3>3, <4>1, <4>2, SeqEqual
    <3>7. packet.seq = h.seq /\ packet.type = h.type
      <4>1. \A q \in 0 .. 63 : ((q + 32) - 32) % 256 = q
        OBVIOUS
      <4>2. packet.seq = ((h.seq + 32) - 32) % 256
        BY <1>7, <3>3, Zenon DEF UnChar
      <4>3. QED
        BY <1>7, <3>3, <4>1, <4>2, Zenon
    <3>8. packet = [seq |-> h.seq, type |-> h.type, data |-> p]
      <4>1. packet \in [seq : 0 .. 255, type : 0 .. 255, data : Seq(0 .. 255)]
        BY <1>2, Zenon DEF Middle, PacketTypeOK
      <4>2. packet = [seq |-> packet.seq, type |-> packet.type, data |-> packet.data]
        BY <4>1
      <4>3. QED
        BY <3>6, <3>7, <4>2, Zenon
    <3>9. Head(line') = EOL
      <4>1. Tail(l) \in Seq(Byte) /\ 1 \in 1 .. Len(Tail(l))
        <5>1. Tail(l) \in Seq(Byte)
          BY <1>11, Zenon DEF RestOf
        <5>2. QED
          BY <1>11, <5>1
      <4>2. Tail(l)[1] = w[(n + 6) + 1]
        BY <1>11, <4>1, Zenon DEF RestOf
      <4>3. (n + 6) + 1 = m + 4
        BY <1>13
      <4>4. Head(Tail(l)) = Tail(l)[1]
        BY <4>1
      <4>5. QED
        BY <1>1, <1>5, <1>10, <4>2, <4>3, <4>4, Zenon DEF EOL
    <3>10. /\ outcome' = "received"
           /\ packet' = [seq |-> sent'.header.seq, type |-> sent'.header.type, data |-> sent'.payload]
           /\ Head(line') = EOL
      BY <1>1, <3>2, <3>3, <3>8, <3>9, Zenon
    <3>11. sent'.intact
      BY <2>4, <2>6, Zenon
    <3>12. QED
      BY <3>10, <3>11, Zenon DEF PacketTruthful
  <2>7. QED
    BY <2>5, <2>6, Zenon
<1>14. PacketTruthful'
  BY <1>9, <1>12, <1>13
<1>15. PacketTypeOK'
  <2>1. outcome' = "received" \/ outcome' = "refused"
    BY <1>1
  <2>2. PacketTypeOK
    BY <1>2, Zenon DEF Middle
  <2>3. QED
    BY <1>1, <2>1, <2>2 DEF PacketTypeOK
<1>16. QED
  BY <1>1, <1>14, <1>15 DEF PacketInv

\* An unquoted byte is a byte.
LEMMA UnquoteType ==
  ASSUME NEW c \in Byte PROVE Unquote(c) \in Byte
BY DEF Unquote, Byte

\* Two additions are one, and 0 adds nothing.
LEMMA AddTwo ==
  ASSUME NEW s \in Byte, NEW a \in Byte, NEW b \in Byte
  PROVE  Add(s, a + b) = Add(Add(s, a), b) /\ Add(s, a) \in Byte /\ Add(s, a + 0) = Add(s, a)
BY DEF Add, Byte

\* One pass of the loop: a byte of the data, or a quote and the byte behind it, which
\* is the check character when the quote is the last of the data.
LEMMA DataStep ==
  ASSUME PacketInv, GetData
  PROVE  PacketInv'
<1>1. /\ at = "data" /\ left > 0 /\ at' = "data"
      /\ UNCHANGED <<outcome, sent>>
  BY DEF GetData
<1>2. PICK d, B, D, w : Middle(d, B, D, w)
  BY <1>1, MiddleOf
<1>3. Facts(sent.header, sent.payload, B, D, w)
  BY <1>2, MiddleFacts
<1>4. PICK m \in 3 .. 94 : m = Len(D)
  BY <1>3, Zenon DEF Facts
<1>5. /\ D \in Seq(Byte) /\ w \in Seq(Byte)
      /\ Len(w) = m + 6 /\ w[m + 3] = Check(Sum(B)) /\ w[m + 4] = 13
      /\ \A k \in 1 .. m : w[k + 2] = D[k]
  BY <1>3, <1>4, Zenon DEF Facts
<1>6. PICK n \in 0 .. m - 2 :
         /\ Taken(D, w, n)
         /\ sent.intact => \E j \in 0 .. Len(sent.payload) : Decoded(n, j)
  BY <1>1, <1>2, <1>4, Zenon DEF Middle, Receiving
<1>7. /\ RestOf(line, w, n + 5)
      /\ left + n + 3 = m
      /\ packet.seq = UnChar(D[2]) /\ packet.type = D[3]
      /\ n + 3 <= m => sum = SumTo(D, n + 3)
  BY <1>4, <1>6, Zenon DEF Taken
<1>8. /\ sum \in Byte /\ left \in Int
      /\ packet \in [seq : Byte, type : Byte, data : Seq(Byte)]
  BY <1>2 DEF Middle, PacketTypeOK, Byte
<1>9. n + 4 <= m
  BY <1>1, <1>7, <1>8
<1>10. PICK l : l = line /\ l \in Seq(Byte) /\ RestOf(l, w, n + 5)
  BY <1>7, Zenon DEF RestOf
<1>11. PICK x \in Nat : x = Len(l) /\ (n + 5) + x = m + 6 /\ x >= 5
  <2>1. (n + 5) + Len(l) = m + 6
    BY <1>5, <1>10, Zenon DEF RestOf
  <2>2. PICK y \in Nat : y = Len(l)
    BY <1>10
  <2>3. QED
    BY <1>9, <2>1, <2>2
<1>12. PICK a \in Byte, b \in Byte : a = l[1] /\ b = l[2]
  BY <1>10, <1>11
<1>13. l[1] = w[n + 6] /\ l[2] = w[n + 7]
  <2>1. 1 \in 1 .. Len(l) /\ 2 \in 1 .. Len(l) /\ (n + 5) + 1 = n + 6 /\ (n + 5) + 2 = n + 7
    BY <1>11
  <2>2. QED
    BY <1>10, <2>1, Zenon DEF RestOf
<1>14. a = D[n + 4] /\ (n + 5 <= m => b = D[n + 5])
  <2>1. n + 4 \in 1 .. m /\ (n + 4) + 2 = n + 6 /\ (n + 5 <= m => n + 5 \in 1 .. m) /\ (n + 5) + 2 = n + 7
    BY <1>9
  <2>2. QED
    BY <1>5, <1>12, <1>13, <2>1, Zenon
<1>15. n + 3 <= m /\ sum = SumTo(D, n + 3)
  BY <1>7, <1>9
<1>16. SumTo(D, n + 4) = Add(sum, a) /\ (n + 5 <= m => SumTo(D, n + 5) = Add(Add(sum, a), b))
  <2>1. /\ n + 4 \in 1 .. Len(D) /\ (n + 4) - 1 = n + 3
        /\ (n + 5 <= m => n + 5 \in 1 .. Len(D)) /\ (n + 5) - 1 = n + 4
    BY <1>4, <1>9
  <2>2. \A k \in 1 .. Len(D) : SumTo(D, k) = Add(SumTo(D, k - 1), D[k])
    BY <1>5, SumSteps, Zenon
  <2>3. SumTo(D, n + 4) = Add(sum, a)
    BY <1>14, <1>15, <2>1, <2>2, Zenon
  <2>4. QED
    BY <1>14, <2>1, <2>2, <2>3, Zenon
<1> DEFINE step == IF a = 35 THEN 2 ELSE 1
           byte == IF a = 35 THEN Unquote(b) ELSE a
<1>17. /\ packet' = [packet EXCEPT !.data = Append(@, byte)]
       /\ sum' = Add(sum, a + (IF a = 35 THEN b ELSE 0))
       /\ left' = left - step
       /\ line' = SubSeq(l, step + 1, Len(l))
  BY <1>10, <1>12 DEF GetData, Summed, Quote
<1>18. step \in 1 .. 2 /\ byte \in Byte /\ n + step \in 0 .. m - 2
  BY <1>9, UnquoteType
<1>19. sum' \in Byte /\ ((n + step) + 3 <= m => sum' = SumTo(D, (n + step) + 3))
  <2>1. CASE a = 35
    <3>1. sum' = Add(sum, a + b) /\ step = 2 /\ (n + 2) + 3 = n + 5
      BY <1>17, <2>1
    <3>2. Add(sum, a + b) = Add(Add(sum, a), b) /\ Add(sum, a) \in Byte
      BY <1>8, AddTwo
    <3>3. Add(Add(sum, a), b) \in Byte
      BY <3>2, AddTwo
    <3>4. QED
      BY <1>16, <3>1, <3>2, <3>3, Zenon
  <2>2. CASE a # 35
    <3>1. sum' = Add(sum, a + 0) /\ step = 1 /\ (n + 1) + 3 = n + 4
      BY <1>17, <2>2
    <3>2. Add(sum, a + 0) = Add(sum, a) /\ Add(sum, a) \in Byte
      BY <1>8, AddTwo
    <3>3. QED
      BY <1>16, <3>1, <3>2, Zenon
  <2>3. QED
    BY <2>1, <2>2
<1>20. /\ packet'.seq = packet.seq /\ packet'.type = packet.type
       /\ packet'.data = Append(packet.data, byte)
       /\ packet' \in [seq : Byte, type : Byte, data : Seq(Byte)]
  <2> HIDE DEF byte
  <2>1. Append(packet.data, byte) \in Seq(Byte)
    BY <1>8, <1>18
  <2>2. QED
    BY <1>8, <1>17, <2>1
<1>21. Taken(D, w, n + step)'
  <2> HIDE DEF step
  <2>1. PICK r \in Nat : r = n + 5
    OBVIOUS
  <2>2. step \in Nat /\ step <= Len(l)
    BY <1>11, <1>18
  <2>3. RestOf(SubSeq(l, step + 1, Len(l)), w, r + step)
    BY <1>5, <1>10, <2>1, <2>2, RestTaken
  <2>4. r + step = (n + step) + 5
    BY <1>18, <2>1
  <2>5. RestOf(line', w, (n + step) + 5)
    BY <1>17, <2>3, <2>4, Zenon
  <2>6. left' + (n + step) + 3 = m
    BY <1>7, <1>8, <1>17, <1>18, SMTT(20)
  <2>7. QED
    BY <1>4, <1>7, <1>19, <1>20, <2>5, <2>6, Zenon DEF Taken
<1>22. ASSUME sent.intact
       PROVE  \E j \in 0 .. Len(sent.payload) : Decoded(n + step, j)'
  <2>1. D = B
    BY <1>2, <1>22, Zenon DEF Middle, Receiving
  <2>2. PICK p : /\ p = sent.payload /\ p \in Seq(Byte) /\ m = Len(Encoded(p)) + 3
                 /\ \A k \in 1 .. Len(Encoded(p)) : D[k + 3] = Encoded(p)[k]
    BY <1>3, <1>4, <2>1, Zenon DEF Facts
  <2>3. PICK j \in 0 .. Len(p) : Decoded(n, j)
    BY <1>6, <1>22, <2>2, Zenon
  <2>4. /\ n = Len(EncodedTo(p, j)) /\ Len(packet.data) = j
        /\ \A k \in 1 .. j : packet.data[k] = p[k]
    BY <2>2, <2>3, Zenon DEF Decoded
  <2>5. PICK e : e = Encoded(p) /\ e \in Seq(Byte) /\ m = Len(e) + 3 
                 /\ \A k \in 1 .. Len(e) : D[k + 3] = e[k]
    BY <2>2, EncodedRest, Zenon
  <2>6. PICK y \in Nat : y = Len(e) /\ y = m - 3
    BY <2>5
  <2>7. j # Len(p)
    <3>1. n # y
      BY <1>9, <2>6
    <3>2. QED
      BY <2>2, <2>4, <2>5, <2>6, <3>1, EncodedRest, Zenon
  <2>8. PICK i \in 1 .. Len(p) : i = j + 1 /\ j < Len(p)
    BY <2>2, <2>7
  <2>9. PICK c \in Byte : c = p[i]
    BY <2>2
  <2>10. /\ Len(EncodedTo(p, i)) = n + Len(Encode(c))
         /\ \A k \in 1 .. Len(Encode(c)) : e[n + k] = Encode(c)[k]
    <3>1. /\ Len(EncodedTo(p, j + 1)) = Len(EncodedTo(p, j)) + Len(Encode(p[j + 1]))
          /\ \A k \in 1 .. Len(Encode(p[j + 1])) :
                Encoded(p)[Len(EncodedTo(p, j)) + k] = Encode(p[j + 1])[k]
      BY <2>2, <2>8, EncodedRest, Zenon
    <3>2. j + 1 = i /\ p[j + 1] = c
      BY <2>8, <2>9
    <3>3. Len(EncodedTo(p, i)) = n + Len(Encode(c))
      BY <2>4, <3>1, <3>2, Zenon
    <3>4. QED
      BY <2>4, <2>5, <3>1, <3>2, <3>3, Zenon
  <2>11. /\ Encode(c) \in Seq(Byte)
         /\ \/ Len(Encode(c)) = 1 /\ Encode(c)[1] = c /\ c # 35
            \/ Len(Encode(c)) = 2 /\ Encode(c)[1] = 35 /\ Unquote(Encode(c)[2]) = c
    BY EncodeOf DEF Quote
  <2>12. e[n + 1] = a /\ (n + 2 <= y => e[n + 2] = b)
    <3>1. n + 1 \in 1 .. y /\ (n + 2 <= y => n + 2 \in 1 .. y) /\ (n + 1) + 3 = n + 4 /\ (n + 2) + 3 = n + 5
          /\ (n + 2 <= y => n + 5 <= m)
      BY <1>9, <2>6
    <3>2. QED
      BY <1>14, <2>5, <2>6, <3>1, Zenon
  <2>13. Len(EncodedTo(p, i)) = n + step /\ byte = c
    <3>1. CASE Len(Encode(c)) = 1 /\ Encode(c)[1] = c /\ c # 35
      <4>1. 1 \in 1 .. Len(Encode(c))
        BY <3>1
      <4>2. e[n + 1] = c
        BY <2>10, <3>1, <4>1, Zenon
      <4>3. a = c /\ a # 35
        BY <2>12, <3>1, <4>2, Zenon
      <4>4. step = 1 /\ byte = c
        BY <4>3
      <4>5. QED
        BY <2>10, <3>1, <4>4, Zenon
    <3>2. CASE Len(Encode(c)) = 2 /\ Encode(c)[1] = 35 /\ Unquote(Encode(c)[2]) = c
      <4>1. 1 \in 1 .. Len(Encode(c)) /\ 2 \in 1 .. Len(Encode(c))
        BY <3>2
      <4>2. e[n + 1] = 35 /\ Unquote(e[n + 2]) = c
        BY <2>10, <3>2, <4>1, Zenon
      <4>3. a = 35
        BY <2>12, <4>2, Zenon
      <4>4. n + 2 <= y
        <5>1. Len(EncodedTo(p, i)) = n + 2
          BY <2>10, <3>2, Zenon
        <5>2. Len(EncodedTo(p, i)) <= Len(e)
          BY <2>2, <2>5, <2>8, EncodedRest, Zenon
        <5>3. QED
          BY <2>6, <5>1, <5>2, Zenon
      <4>5. b = e[n + 2]
        BY <2>12, <4>4, Zenon
      <4>6. step = 2 /\ byte = c
        BY <4>2, <4>3, <4>5
      <4>7. QED
        BY <2>10, <3>2, <4>6, Zenon
    <3>3. QED
      BY <2>11, <3>1, <3>2, Zenon
  <2> HIDE DEF byte, step
  <2>14. /\ Len(packet'.data) = i
         /\ \A k \in 1 .. i : packet'.data[k] = p[k]
    <3>1. PICK s : s = packet.data /\ s \in Seq(Byte)
      BY <1>8
    <3>2. /\ Len(Append(s, c)) = j + 1
          /\ \A k \in 1 .. j : Append(s, c)[k] = s[k]
          /\ Append(s, c)[j + 1] = c
      BY <2>4, <3>1
    <3>3. \A k \in 1 .. i : k \in 1 .. j \/ k = i
      BY <2>8
    <3>4. packet'.data = Append(s, c)
      BY <1>20, <2>13, <3>1, Zenon
    <3>5. QED
      BY <2>4, <2>8, <2>9, <3>1, <3>2, <3>3, <3>4, Zenon
  <2>15. Decoded(n + step, i)'
    BY <1>1, <2>2, <2>13, <2>14, Zenon DEF Decoded
  <2>16. i \in 0 .. Len(sent.payload)
    BY <2>2
  <2>17. QED
    BY <2>15, <2>16, Zenon
<1>23. Receiving(B, D, w)'
  <2> HIDE DEF step
  <2>1. sent'.intact = (D = B) /\ sent' = sent
    BY <1>1, <1>2, Zenon DEF Middle, Receiving
  <2>2. at' # "mark"
    BY <1>1
  <2>3. QED
    BY <1>4, <1>18, <1>21, <1>22, <2>1, <2>2, Zenon DEF Receiving
<1>24. PacketTypeOK'
  <2> HIDE DEF step, byte
  <2>1. left' \in Int /\ left' >= -1
    <3>1. left' = left - step
      BY <1>17
    <3>2. QED
      BY <1>1, <1>8, <1>18, <3>1
  <2>2. at' \in {"idle", "mark", "data", "done"}
    BY <1>1
  <2>3. outcome' \in {"none", "received", "refused"}
    BY <1>1, <1>2 DEF Middle, PacketTypeOK
  <2>4. QED
    BY <1>19, <1>20, <2>1, <2>2, <2>3, Zenon DEF PacketTypeOK, Byte
<1>25. QED
  BY <1>1, <1>2, <1>23, <1>24, MiddleKept

-----------------------------------------------------------------------------
\* The invariant of kermit_getpacket.
LEMMA PacketInvariant == PacketSpec => []PacketInv
<1>1. PacketInit => PacketInv
  BY DEF PacketInit, PacketInv, PacketTypeOK, PacketTruthful
<1>2. PacketInv /\ [PacketNext]_packetVars => PacketInv'
  <2> SUFFICES ASSUME PacketInv, [PacketNext]_packetVars PROVE PacketInv'
    OBVIOUS
  <2>1. CASE PacketRun
    BY <2>1, SkipStep, HeaderStep, DataStep, CheckStep, ReturnStep, Zenon DEF PacketRun
  <2>2. CASE \E h \in Headers, p \in Payloads, d \in Damages : Send(h, p, d)
    BY <2>2, SendStep, Zenon
  <2>3. CASE UNCHANGED packetVars
    <3>1. UNCHANGED <<line, at, packet, sum, left, outcome, sent>>
      BY <2>3 DEF packetVars
    <3>2. QED
      BY <3>1 DEF PacketInv, PacketTypeOK, PacketTruthful, Receiving, Taken, Decoded
  <2>4. QED
    BY <2>1, <2>2, <2>3 DEF PacketNext
<1>3. QED
  BY <1>1, <1>2, PTL DEF PacketSpec

\* The bytes of a packet stay in their ranges, and the count of those to come passes
\* its end by no more than one.
THEOREM PacketTypeCorrect == PacketSpec => []PacketTypeOK
<1>1. PacketInv => PacketTypeOK
  BY DEF PacketInv
<1>2. QED
  BY <1>1, PacketInvariant, PTL

\* kermit_getpacket receives what was sent as it was meant, and refuses a packet in
\* which a bit of the number, the type or the data has flipped.
THEOREM PacketCorrect == PacketSpec => []PacketTruthful
<1>1. PacketInv => PacketTruthful
  BY DEF PacketInv
<1>2. QED
  BY <1>1, PacketInvariant, PTL
-----------------------------------------------------------------------------
(* All of them.  A step of the routines is a step of the one that was      *)
(* called and leaves the variables of the others alone, so that a          *)
(* behaviour of the routines is one of each of them.                       *)

\* A step of the routines is a step of each or leaves it alone.
LEMMA RoutinesSteps ==
  ASSUME [RoutinesNext]_routineVars
  PROVE  /\ [StartupNext]_startVars /\ [DivisionNext]_divVars /\ [ClockNext]_clockVars
         /\ [IomuxNext]_iomuxVars /\ [UartNext]_uartVars /\ [DelayNext]_delayVars
         /\ [MemTestNext]_memVars /\ [PacketNext]_packetVars /\ [NumberNext]_typed
<1>1. ASSUME UNCHANGED routineVars
      PROVE  UNCHANGED <<startVars, divVars, clockVars, iomuxVars, uartVars, delayVars, memVars,
                         packetVars, typed>>
  BY <1>1, Zenon DEF routineVars
<1>2. QED
  BY <1>1, Zenon DEF RoutinesNext

\* A behaviour of the routines is a behaviour of each.
LEMMA RoutinesRuns ==
  RoutinesSpec => /\ StartupSpec /\ DivisionSpec /\ ClockSpec /\ IomuxSpec /\ UartSpec
                  /\ DelaySpec /\ MemTestSpec /\ PacketSpec /\ NumberSpec
<1>1. RoutinesInit => /\ StartupInit /\ DivisionInit /\ ClockInit /\ IomuxInit /\ UartInit
                      /\ DelayInit /\ MemTestInit /\ PacketInit /\ NumberInit
  BY DEF RoutinesInit
<1>2. [RoutinesNext]_routineVars =>
         /\ [StartupNext]_startVars /\ [DivisionNext]_divVars /\ [ClockNext]_clockVars
         /\ [IomuxNext]_iomuxVars /\ [UartNext]_uartVars /\ [DelayNext]_delayVars
         /\ [MemTestNext]_memVars /\ [PacketNext]_packetVars /\ [NumberNext]_typed
  BY RoutinesSteps
<1>3. QED
  BY <1>1, <1>2, PTL DEF RoutinesSpec, StartupSpec, DivisionSpec, ClockSpec, IomuxSpec, UartSpec,
     DelaySpec, MemTestSpec, PacketSpec, NumberSpec

\* Whichever routine is called, its variables hold what their declarations allow:
\* those of the routines of start.S, lib1funcs.S, clocks.c, iomux.c, uart.c, timer.c,
\* cmd_mem.c and cmd_kermit.c.
THEOREM RoutinesTypeCorrect == RoutinesSpec => []RoutinesTypeOK
<1>1. RoutinesSpec => /\ []StartupTypeOK /\ []DivisionTypeOK /\ []ClockTypeOK /\ []IomuxTypeOK
                      /\ []UartTypeOK /\ []DelayTypeOK /\ []MemTestTypeOK /\ []PacketTypeOK
  BY RoutinesRuns, StartupTypeCorrect, DivisionTypeCorrect, ClockTypeCorrect, IomuxTypeCorrect,
     UartTypeCorrect, DelayTypeCorrect, MemTestTypeCorrect, PacketTypeCorrect, PTL
<1>2. StartupTypeOK /\ DivisionTypeOK /\ ClockTypeOK /\ IomuxTypeOK /\ UartTypeOK /\ DelayTypeOK
         /\ MemTestTypeOK /\ PacketTypeOK => RoutinesTypeOK
  BY DEF RoutinesTypeOK
<1>3. QED
  BY <1>1, <1>2, PTL

\* And each of them keeps what it promises.
THEOREM RoutinesCorrect ==
  RoutinesSpec => [](/\ StartsClean /\ DivisionExact /\ MatchRight /\ PinsAsGiven /\ UartOK
                     /\ EarlyByTruncationOnly /\ MemFaultFound /\ PacketTruthful /\ OffsetMeansText)
  BY RoutinesRuns, StartupCorrect, DivisionCorrect, MatchCorrect, PinsCorrect, UartCorrect,
     DelayCorrect, MemFaultCorrect, PacketCorrect, NumberCorrect, PTL
=============================================================================
