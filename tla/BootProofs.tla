----------------------------- MODULE BootProofs -----------------------------
(***************************************************************************)
(* What is proved of the command linux and of main: for every image that   *)
(* is patched in any way, any lines and any size of the buffer.            *)
(***************************************************************************)
EXTENDS BootLinux, NatLemmas, SequenceTheorems

Bytes == 0 .. 255

LEMMA Sizes ==
  /\ Size \in Nat /\ Size > 0 /\ Behind \in Nat /\ Behind > 0 /\ Size + Behind <= 65536
  /\ MaxCmdArg \in Nat /\ MaxCmdArg > 1 /\ MaxCmdArgLen \in Nat /\ MaxCmdArgLen > 0
  /\ Slots \in Nat /\ Slots >= MaxCmdArg + 3 /\ Slots >= 13
<1>1. 2^16 = 65536
  <2>1. /\ 2^4 = 16 /\ 2^8 = 256 /\ 2^16 = 65536
    <3>1. 2^1 = 2 /\ 2^2 = 4
      <4>1. 2^0 = 1 /\ 0 \in Nat /\ 1 \in Nat /\ 0 + 1 = 1 /\ 1 + 1 = 2
        OBVIOUS
      <4>2. QED
        BY <4>1, PowerNext
    <3>2. 2^4 = 4 * 4
      BY <3>1, PowerSum
    <3>3. 2^8 = 16 * 16
      BY <3>2, PowerSum
    <3>4. 2^16 = 256 * 256
      BY <3>3, PowerSum
    <3>5. QED
      BY <3>2, <3>3, <3>4
  <2>2. QED
    BY <2>1
<1>2. QED
  BY <1>1, BootAssumption

LEMMA LineWords ==
  ASSUME NEW line \in Lines
  PROVE  /\ line \in Seq(Texts) /\ Len(line) \in 1 .. MaxCmdArg
         /\ \A k \in 1 .. Len(line) : Len(line[k]) < MaxCmdArgLen
  BY BootAssumption

-----------------------------------------------------------------------------
(* Memory.                                                                 *)

LEMMA Piece ==
  ASSUME NEW S, NEW f \in Seq(S), NEW a \in Nat, NEW b \in Nat, b <= Len(f)
  PROVE  /\ SubSeq(f, a + 1, b) \in Seq(S)
         /\ Len(SubSeq(f, a + 1, b)) = IF a <= b THEN b - a ELSE 0
         /\ a <= b => \A j \in 1 .. b - a : SubSeq(f, a + 1, b)[j] = f[a + j]
<1>1. \A j \in a + 1 .. b : f[j] \in S
  OBVIOUS
<1>2. CASE a < b
  <2>1. PICK n \in Nat : n = b - a
    BY <1>2
  <2>2. SubSeq(f, a + 1, b) = [j \in 1 .. n |-> f[a + j]]
    <3>1. SubSeq(f, a + 1, b) = [j \in 1 .. (1 + b) - (a + 1) |-> f[((a + 1) + j) - 1]]
      BY <1>2
    <3>2. (1 + b) - (a + 1) = n /\ \A j \in 1 .. n : ((a + 1) + j) - 1 = a + j
      BY <2>1
    <3>3. QED
      BY <3>1, <3>2
  <2>3. \A j \in 1 .. n : f[a + j] \in S
    BY <1>1, <2>1
  <2>4. QED
    BY <1>2, <2>1, <2>2, <2>3
<1>3. CASE ~(a < b)
  <2>1. SubSeq(f, a + 1, b) = <<>>
    BY <1>3
  <2>2. QED
    BY <1>3, <2>1
<1>4. QED
  BY <1>2, <1>3

LEMMA Joint ==
  ASSUME NEW S, NEW s \in Seq(S), NEW t \in Seq(S)
  PROVE  /\ s \o t \in Seq(S) /\ Len(s \o t) = Len(s) + Len(t)
         /\ \A j \in 1 .. Len(s) : (s \o t)[j] = s[j]
         /\ \A j \in 1 .. Len(t) : (s \o t)[Len(s) + j] = t[j]
<1>1. s \o t \in Seq(S) /\ Len(s \o t) = Len(s) + Len(t) /\ Len(s) \in Nat /\ Len(t) \in Nat
  OBVIOUS
<1>2. \A j \in 1 .. Len(s) : (s \o t)[j] = s[j]
  OBVIOUS
<1>3. ASSUME NEW j \in 1 .. Len(t) PROVE (s \o t)[Len(s) + j] = t[j]
  <2>1. PICK m \in 1 .. Len(s) + Len(t) : m = Len(s) + j
    BY <1>1
  <2>2. ~(m <= Len(s)) /\ m - Len(s) = j
    BY <1>1, <2>1
  <2>3. (s \o t)[m] = t[m - Len(s)]
    BY <1>1, <2>1, <2>2
  <2>4. QED
    BY <2>1, <2>2, <2>3
<1>4. QED
  BY <1>1, <1>2, <1>3

LEMMA Cast ==
  ASSUME NEW S, NEW T, NEW g \in Seq(S), \A j \in 1 .. Len(g) : g[j] \in T
  PROVE  g \in Seq(T)
<1>1. PICK n \in Nat : n = Len(g) /\ g \in [1 .. n -> S]
  BY LenProperties
<1>2. g \in [1 .. n -> T]
  BY <1>1
<1>3. QED
  BY <1>2, SeqDef

LEMMA JointBytes ==
  ASSUME NEW s \in Seq(Bytes), NEW t \in Seq(Bytes)
  PROVE  /\ s \o t \in Seq(Bytes) /\ Len(s \o t) = Len(s) + Len(t)
         /\ \A j \in 1 .. Len(s) : (s \o t)[j] = s[j]
         /\ \A j \in 1 .. Len(t) : (s \o t)[Len(s) + j] = t[j]
  BY Joint

LEMMA CastText ==
  ASSUME NEW g \in Seq(Bytes), \A j \in 1 .. Len(g) : g[j] \in 1 .. 255
  PROVE  g \in Texts
<1>1. PICK C : C = 1 .. 255
  OBVIOUS
<1>2. \A j \in 1 .. Len(g) : g[j] \in C
  BY <1>1, Zenon
<1>3. g \in Seq(C)
  BY <1>2, Cast
<1>4. QED
  BY <1>1, <1>3 DEF Texts

\* Put changes the bytes it is given, and keeps the size of the memory.
Placed(g, f, k, s) ==
    /\ g \in Seq(Bytes) /\ Len(g) = Len(f)
    /\ \A j \in 1 .. Len(f) : (j <= k \/ j > k + Len(s)) => g[j] = f[j]
    /\ \A j \in 1 .. Len(s) : k + j <= Len(f) => g[k + j] = s[j]

LEMMA PutRight ==
  ASSUME NEW f \in Seq(Bytes), NEW k \in 0 .. Len(f), NEW s \in Seq(Bytes)
  PROVE  Placed(Put(f, k, s), f, k, s)
<1> DEFINE low == SubSeq(f, 1, k)
           high == SubSeq(f, k + Len(s) + 1, Len(f))
<1>0. k \in Nat /\ k <= Len(f) /\ Len(f) \in Nat /\ Len(s) \in Nat
  OBVIOUS
<1>1. PICK m \in Nat : m = k + Len(s)
  BY <1>0
<1>2. low \in Seq(Bytes) /\ Len(low) = k /\ \A j \in 1 .. k : low[j] = f[j]
  <2>1. low = SubSeq(f, 0 + 1, k) /\ 0 \in Nat /\ 0 <= k /\ k - 0 = k /\ \A j \in 1 .. k : 0 + j = j
    BY <1>0
  <2>2. /\ SubSeq(f, 0 + 1, k) \in Seq(Bytes)
        /\ Len(SubSeq(f, 0 + 1, k)) = k - 0
        /\ \A j \in 1 .. k - 0 : SubSeq(f, 0 + 1, k)[j] = f[0 + j]
    BY <1>0, <2>1, Piece
  <2> HIDE DEF low
  <2>3. QED
    BY <2>1, <2>2
<1>3. /\ high \in Seq(Bytes)
      /\ Len(high) = IF m <= Len(f) THEN Len(f) - m ELSE 0
      /\ m <= Len(f) => \A j \in 1 .. Len(f) - m : high[j] = f[m + j]
  <2>1. high = SubSeq(f, m + 1, Len(f))
    BY <1>1
  <2> HIDE DEF high
  <2>2. QED
    BY <1>0, <2>1, Piece
<1> HIDE DEF low, high
<1>4. PICK mid \in Seq(Bytes) : /\ mid = low \o s /\ Len(mid) = m
                                /\ \A j \in 1 .. k : mid[j] = f[j]
                                /\ \A j \in 1 .. Len(s) : mid[k + j] = s[j]
  <2>1. /\ low \o s \in Seq(Bytes) /\ Len(low \o s) = Len(low) + Len(s)
        /\ \A j \in 1 .. Len(low) : (low \o s)[j] = low[j]
        /\ \A j \in 1 .. Len(s) : (low \o s)[Len(low) + j] = s[j]
    BY <1>2, JointBytes
  <2>2. /\ Len(low \o s) = m
        /\ \A j \in 1 .. k : (low \o s)[j] = f[j]
        /\ \A j \in 1 .. Len(s) : (low \o s)[k + j] = s[j]
    BY <1>1, <1>2, <2>1
  <2>3. QED
    BY <2>1, <2>2, Zenon
<1>5. PICK all \in Seq(Bytes) :
         /\ all = mid \o high /\ Len(all) = m + Len(high)
         /\ \A j \in 1 .. m : all[j] = mid[j]
         /\ \A j \in 1 .. Len(high) : all[m + j] = high[j]
  <2>1. /\ mid \o high \in Seq(Bytes) /\ Len(mid \o high) = Len(mid) + Len(high)
        /\ \A j \in 1 .. Len(mid) : (mid \o high)[j] = mid[j]
        /\ \A j \in 1 .. Len(high) : (mid \o high)[Len(mid) + j] = high[j]
    BY <1>3, <1>4, JointBytes
  <2>2. /\ Len(mid \o high) = m + Len(high)
        /\ \A j \in 1 .. m : (mid \o high)[j] = mid[j]
        /\ \A j \in 1 .. Len(high) : (mid \o high)[m + j] = high[j]
    BY <1>4, <2>1
  <2>3. QED
    BY <2>1, <2>2, Zenon
<1>6. Len(all) >= Len(f)
  <2>1. CASE m <= Len(f)
    <3>1. Len(all) = m + (Len(f) - m)
      BY <1>3, <1>5, <2>1
    <3>2. QED
      BY <1>0, <3>1
  <2>2. CASE ~(m <= Len(f))
    <3>1. Len(all) = m + 0
      BY <1>3, <1>5, <2>2
    <3>2. QED
      BY <1>0, <2>2, <3>1
  <2>3. QED
    BY <2>1, <2>2
<1>7. PICK g \in Seq(Bytes) : /\ g = SubSeq(all, 1, Len(f)) /\ Len(g) = Len(f)
                              /\ \A j \in 1 .. Len(f) : g[j] = all[j]
  <2>1. /\ SubSeq(all, 0 + 1, Len(f)) \in Seq(Bytes)
        /\ Len(SubSeq(all, 0 + 1, Len(f))) = Len(f) - 0
        /\ \A j \in 1 .. Len(f) - 0 : SubSeq(all, 0 + 1, Len(f))[j] = all[0 + j]
    BY <1>0, <1>6, Piece
  <2>2. 0 + 1 = 1 /\ Len(f) - 0 = Len(f) /\ \A j \in 1 .. Len(f) : 0 + j = j
    BY <1>0
  <2>3. QED
    BY <2>1, <2>2
<1>8. Put(f, k, s) = g
  BY <1>4, <1>5, <1>7 DEF Put, low, high
<1>9. ASSUME NEW j \in 1 .. Len(f), j <= k \/ j > m PROVE g[j] = f[j]
  <2>1. CASE j <= k
    <3>1. j \in 1 .. k /\ j \in 1 .. m
      BY <1>0, <1>1, <2>1
    <3>2. QED
      BY <1>4, <1>5, <1>7, <3>1
  <2>2. CASE j > m
    <3>1. PICK d \in 1 .. Len(high) : j = m + d /\ d \in 1 .. Len(f) - m
      <4>1. j - m \in 1 .. Len(f) - m /\ m <= Len(f) /\ j = m + (j - m)
        BY <1>0, <1>1, <2>2
      <4>2. QED
        BY <1>3, <4>1
    <3>2. all[j] = high[d]
      BY <1>5, <3>1
    <3>3. high[d] = f[j]
      <4>1. m <= Len(f)
        BY <1>0, <2>2
      <4>2. QED
        BY <1>3, <3>1, <4>1
    <3>4. QED
      BY <1>7, <3>2, <3>3
  <2>3. QED
    BY <1>9, <2>1, <2>2
<1>10. ASSUME NEW j \in 1 .. Len(s), k + j <= Len(f) PROVE g[k + j] = s[j]
  <2>1. k + j \in 1 .. m /\ k + j \in 1 .. Len(f)
    BY <1>0, <1>1, <1>10
  <2>2. g[k + j] = all[k + j] /\ all[k + j] = mid[k + j] /\ mid[k + j] = s[j]
    BY <1>4, <1>5, <1>7, <2>1
  <2>3. QED
    BY <2>2
<1>11. Placed(g, f, k, s)
  BY <1>1, <1>7, <1>9, <1>10 DEF Placed
<1>12. QED
  BY <1>8, <1>11

LEMMA LeastIs ==
  ASSUME NEW T, T \subseteq Int, NEW e \in T, \A x \in T : e <= x
  PROVE  Min(T) = e
<1>1. \A x \in T : (\A y \in T : x <= y) => x = e
  OBVIOUS
<1>2. Min(T) \in T /\ \A y \in T : Min(T) <= y
  BY Zenon DEF Min
<1>3. QED
  BY <1>1, <1>2

LEMMA GreatestIs ==
  ASSUME NEW T, T \subseteq Int, NEW e \in T, \A x \in T : x <= e
  PROVE  Max(T) = e
<1>1. \A x \in T : (\A y \in T : x >= y) => x = e
  OBVIOUS
<1>2. \A y \in T : e >= y
  OBVIOUS
<1>3. Max(T) \in T /\ \A y \in T : Max(T) >= y
  BY <1>2, Zenon DEF Max
<1>4. QED
  BY <1>1, <1>3

\* A string ends at the first NUL.
LEMMA StringIs ==
  ASSUME NEW f \in Seq(Bytes), NEW k \in Nat, NEW n \in Nat, k + n < Len(f),
         f[k + n + 1] = 0, \A j \in k + 1 .. k + n : f[j] # 0
  PROVE  /\ StringAt(f, k) \in Texts /\ Len(StringAt(f, k)) = n
         /\ \A j \in 1 .. n : StringAt(f, k)[j] = f[k + j]
<1> DEFINE ends == {m \in k + 1 .. Len(f) : f[m] = 0}
<1>1. k + n + 1 \in ends /\ \A m \in ends : k + n + 1 <= m
  OBVIOUS
<1>2. Min(ends) = k + n + 1
  <2>1. ends \subseteq Int
    OBVIOUS
  <2> HIDE DEF ends
  <2>2. PICK e \in ends : e = k + n + 1 /\ \A x \in ends : e <= x
    BY <1>1
  <2>3. QED
    BY <2>1, <2>2, LeastIs
<1>3. StringAt(f, k) = SubSeq(f, k + 1, k + n)
  <2>1. ends # {} /\ (k + n + 1) - 1 = k + n
    BY <1>1
  <2>2. StringAt(f, k) = SubSeq(f, k + 1, Min(ends) - 1)
    BY <2>1, Zenon DEF StringAt
  <2>3. QED
    BY <1>2, <2>1, <2>2
<1> HIDE DEF ends
<1>4. PICK m \in Nat : m = k + n /\ m - k = n /\ k <= m /\ m <= Len(f)
  OBVIOUS
<1>5. PICK g \in Seq(Bytes) : /\ g = SubSeq(f, k + 1, m) /\ Len(g) = n
                              /\ \A j \in 1 .. n : g[j] = f[k + j]
  <2>1. /\ SubSeq(f, k + 1, m) \in Seq(Bytes)
        /\ Len(SubSeq(f, k + 1, m)) = IF k <= m THEN m - k ELSE 0
        /\ k <= m => \A j \in 1 .. m - k : SubSeq(f, k + 1, m)[j] = f[k + j]
    BY <1>4, Piece
  <2>2. /\ Len(SubSeq(f, k + 1, m)) = n
        /\ \A j \in 1 .. n : SubSeq(f, k + 1, m)[j] = f[k + j]
    BY <1>4, <2>1
  <2>3. QED
    BY <2>1, <2>2, Zenon
<1>6. \A j \in 1 .. n : g[j] \in 1 .. 255
  <2> SUFFICES ASSUME NEW j \in 1 .. n PROVE g[j] \in 1 .. 255
    OBVIOUS
  <2>1. k + j \in k + 1 .. k + n /\ g[j] \in Bytes
    BY <1>5
  <2>2. g[j] # 0
    BY <1>5, <2>1
  <2>3. QED
    BY <2>1, <2>2 DEF Bytes
<1>7. g \in Texts
  <2>1. \A j \in 1 .. Len(g) : g[j] \in 1 .. 255
    BY <1>5, <1>6
  <2>2. QED
    BY <2>1, CastText
<1>8. StringAt(f, k) = g
  BY <1>3, <1>4, <1>5
<1>9. QED
  BY <1>5, <1>7, <1>8

\* Any string is one.
LEMMA StringType ==
  ASSUME NEW f \in Seq(Bytes), NEW k \in Nat, k < Len(f)
  PROVE  StringAt(f, k) \in Texts /\ Len(StringAt(f, k)) < Len(f) - k
<1> DEFINE ends == {m \in k + 1 .. Len(f) : f[m] = 0}
<1>1. CASE ends = {}
  <2>1. StringAt(f, k) = <<>>
    BY <1>1 DEF StringAt
  <2>2. QED
    BY <2>1 DEF Texts
<1>2. CASE ends # {}
  <2>1. PICK m \in ends : \A x \in ends : m <= x
    <3>1. ends \in SUBSET Nat
      OBVIOUS
    <3> HIDE DEF ends
    <3>2. QED
      BY <1>2, <3>1, LeastNumber
  <2>2. PICK n \in Nat : m = k + n + 1 /\ k + n < Len(f)
    <3>1. m - k - 1 \in Nat /\ m = k + (m - k - 1) + 1 /\ k + (m - k - 1) < Len(f)
      OBVIOUS
    <3>2. QED
      BY <3>1
  <2>3. f[k + n + 1] = 0 /\ \A j \in k + 1 .. k + n : f[j] # 0
    BY <2>1, <2>2
  <2>4. StringAt(f, k) \in Texts /\ Len(StringAt(f, k)) = n
    BY <2>2, <2>3, StringIs
  <2>5. QED
    BY <2>2, <2>4
<1>3. QED
  BY <1>1, <1>2
-----------------------------------------------------------------------------
(* The text of the words behind -c.                                        *)

\* The text that Joined computes exists, and goes word by word.
LEMMA JoinedSteps ==
  ASSUME NEW w \in [0 .. Slots -> Texts], NEW k \in Nat, NEW m \in Nat
  PROVE  \E text : /\ Joined(w, k, k + m) = text[m]
                   /\ text[0] = <<>>
                   /\ \A n \in 1 .. m : text[n] = text[n - 1] \o w[k + n - 1] \o <<Blank>>
<1> DEFINE Next(s, n) == s \o w[k + n - 1] \o <<Blank>>
           Body(f, N) == [n \in 0 .. N |-> IF n = 0 THEN <<>> ELSE Next(f[n - 1], n)]
           Good == {N \in Nat : \E f : f = Body(f, N)}
<1>1. 0 \in Good
  <2> DEFINE f == [n \in 0 .. 0 |-> <<>>]
  <2> HIDE DEF Next
  <2>1. f = Body(f, 0)
    OBVIOUS
  <2> HIDE DEF f, Body
  <2>2. QED
    BY <2>1
<1>2. ASSUME NEW N \in Nat, N \in Good PROVE N + 1 \in Good
  <2> HIDE DEF Next
  <2>1. PICK f : f = Body(f, N)
    BY <1>2
  <2> DEFINE g == [n \in 0 .. N + 1 |-> IF n = N + 1 THEN Next(f[N], N + 1) ELSE f[n]]
  <2>2. ASSUME NEW n \in 0 .. N + 1
        PROVE  g[n] = IF n = 0 THEN <<>> ELSE Next(g[n - 1], n)
    <3>1. CASE n = 0
      <4>1. g[0] = f[0] /\ f[0] = <<>>
        BY <2>1
      <4>2. QED
        BY <3>1, <4>1
    <3>2. CASE n = N + 1
      <4>1. n - 1 = N /\ n # 0 /\ N \in 0 .. N + 1 /\ N # N + 1
        BY <3>2
      <4>2. g[N] = f[N] /\ g[n] = Next(f[N], N + 1)
        BY <3>2, <4>1
      <4>3. QED
        BY <3>2, <4>1, <4>2
    <3>3. CASE n \in 1 .. N
      <4>1. g[n] = f[n] /\ g[n - 1] = f[n - 1] /\ n # 0
        BY <3>3
      <4>2. f[n] = Next(f[n - 1], n)
        BY <2>1, <3>3
      <4>3. QED
        BY <4>1, <4>2
    <3>4. QED
      BY <3>1, <3>2, <3>3
  <2>3. g = Body(g, N + 1)
    <3>1. g = [n \in 0 .. N + 1 |-> g[n]]
      OBVIOUS
    <3> HIDE DEF g
    <3>2. QED
      BY <2>2, <3>1
  <2> HIDE DEF g, Body
  <2>4. QED
    BY <2>3
<1>3. m \in Good
  <2> HIDE DEF Good
  <2>1. QED
    BY <1>1, <1>2, Induction
<1> DEFINE text == CHOOSE f : f = Body(f, m)
<1>4. text = Body(text, m)
  BY <1>3
<1>5. Joined(w, k, k + m) = text[m]
  <2>1. (k + m) - k = m
    OBVIOUS
  <2>2. QED
    BY <2>1 DEF Joined
<1> HIDE DEF text, Next
<1>6. text[0] = <<>> /\ \A n \in 1 .. m : text[n] = Next(text[n - 1], n)
  BY <1>4
<1>7. QED
  BY <1>5, <1>6 DEF Next

LEMMA JoinedNone ==
  ASSUME NEW w \in [0 .. Slots -> Texts], NEW k \in Nat PROVE Joined(w, k, k) = <<>>
<1>1. PICK m \in Nat : m = 0
  OBVIOUS
<1>2. PICK f : /\ Joined(w, k, k + m) = f[m]
               /\ f[0] = <<>>
               /\ \A j \in 1 .. m : f[j] = f[j - 1] \o w[k + j - 1] \o <<Blank>>
  BY JoinedSteps
<1>3. k + m = k
  BY <1>1
<1>4. QED
  BY <1>1, <1>2, <1>3

LEMMA JoinedMore ==
  ASSUME NEW w \in [0 .. Slots -> Texts], NEW k \in Nat, NEW n \in Nat, k <= n
  PROVE  Joined(w, k, n + 1) = Joined(w, k, n) \o w[n] \o <<Blank>>
<1>1. PICK m \in Nat : n = k + m
  <2>1. n - k \in Nat /\ n = k + (n - k)
    OBVIOUS
  <2>2. QED
    BY <2>1
<1>2. PICK f : /\ Joined(w, k, k + m) = f[m]
               /\ f[0] = <<>>
               /\ \A j \in 1 .. m : f[j] = f[j - 1] \o w[k + j - 1] \o <<Blank>>
  BY JoinedSteps
<1>3. PICK g : /\ Joined(w, k, k + (m + 1)) = g[m + 1]
               /\ g[0] = <<>>
               /\ \A j \in 1 .. m + 1 : g[j] = g[j - 1] \o w[k + j - 1] \o <<Blank>>
  <2>1. m + 1 \in Nat
    OBVIOUS
  <2>2. QED
    BY <2>1, JoinedSteps
<1> DEFINE Same == {j \in Nat : j <= m => f[j] = g[j]}
<1>4. 0 \in Same
  BY <1>2, <1>3
<1>5. ASSUME NEW j \in Nat, j \in Same PROVE j + 1 \in Same
  <2> SUFFICES ASSUME j + 1 <= m PROVE f[j + 1] = g[j + 1]
    OBVIOUS
  <2>1. j + 1 \in 1 .. m /\ j + 1 \in 1 .. m + 1 /\ (j + 1) - 1 = j /\ j <= m
    OBVIOUS
  <2>2. f[j] = g[j]
    BY <1>5, <2>1
  <2>3. f[j + 1] = f[j] \o w[k + (j + 1) - 1] \o <<Blank>>
    BY <1>2, <2>1
  <2>4. g[j + 1] = g[j] \o w[k + (j + 1) - 1] \o <<Blank>>
    BY <1>3, <2>1
  <2>5. QED
    BY <2>2, <2>3, <2>4
<1>6. f[m] = g[m]
  <2> HIDE DEF Same
  <2>1. m \in Same
    BY <1>4, <1>5, Induction
  <2>2. QED
    BY <2>1 DEF Same
<1>7. m + 1 \in 1 .. m + 1 /\ (m + 1) - 1 = m /\ k + (m + 1) - 1 = n /\ k + (m + 1) = n + 1
  BY <1>1
<1>8. g[m + 1] = g[m] \o w[n] \o <<Blank>>
  BY <1>3, <1>7
<1>9. QED
  BY <1>1, <1>2, <1>3, <1>6, <1>7, <1>8
-----------------------------------------------------------------------------
(* The shape of a line that is being read.                                 *)

Options == {DashM, DashA, DashK, DashC}
Parameters == {"machid", "atag", "kernel"}

Found(a) == AreaOrDefault(areas, a)

Shapes ==
    /\ phase \in {"main", "console", "options", "words", "kernel", "dead"}
    /\ caller \in {"main", "console"}
    /\ areas \in AreaTexts
    /\ argv \in [0 .. Slots -> Texts]
    /\ argc \in Nat /\ argc + 3 <= Slots
    /\ i \in Nat /\ i <= argc + 5
    /\ boot \in BOOLEAN
    /\ chars \in Nat /\ chars <= Size
    /\ DOMAIN params = Parameters
    /\ cmdline \in Seq(Bytes) /\ Len(cmdline) = Size + Behind
    /\ tags \in Seq(Bytes) /\ Len(tags) = 40 + Size + Behind

\* A line of the console: its words are short, and those behind -c fit.
ConsoleLine ==
    /\ argc <= MaxCmdArg
    /\ \A k \in 0 .. argc - 1 : Len(argv[k]) < MaxCmdArgLen
    /\ phase = "words" => 2 <= i /\ i <= argc /\ chars <= (i - 2) * MaxCmdArgLen

\* The line of boot_linux: its words, the places it can be read at, and the
\* one text that is ever copied.
MainLine ==
    /\ argc = 10
    /\ argv[1] = DashM /\ argv[2] = Found("machid")
    /\ argv[3] = DashA /\ argv[4] = Found("atag")
    /\ argv[5] = DashC /\ argv[6] = Found("cmdline")
    /\ argv[7] = DashK /\ argv[8] = Found("kernel")
    /\ argv[9] = DashB
    /\ i \in {1, 3, 5, 6, 7, 8, 9, 10}
    /\ phase = "words" => \/ i \in {6, 7, 9} /\ chars = 0
                          \/ i = 7 /\ chars = Len(argv[6]) + 1

LineShape ==
    phase \in {"options", "words"} =>
        /\ argc >= 2 /\ i >= 1
        /\ caller = "console" => ConsoleLine
        /\ caller = "main" => MainLine

LEMMA OptionsApart ==
  /\ DashM # DashA /\ DashM # DashK /\ DashM # DashC /\ DashM # DashB /\ DashM # DashH
  /\ DashA # DashK /\ DashA # DashC /\ DashA # DashB /\ DashA # DashH
  /\ DashK # DashC /\ DashK # DashB /\ DashK # DashH
  /\ DashC # DashB /\ DashC # DashH /\ DashB # DashH
  BY DEF DashM, DashA, DashK, DashC, DashB, DashH, Opt

LEMMA OptionsDash ==
  /\ {DashM, DashA, DashK, DashC, DashB, DashH, Linux} \subseteq Texts
  /\ \A o \in {DashM, DashA, DashK, DashC, DashB} : At(o, 0) = 45
<1>1. \A c \in 1 .. 255 : Opt(c) \in Texts /\ At(Opt(c), 0) = 45
  <2> SUFFICES ASSUME NEW c \in 1 .. 255 PROVE Opt(c) \in Texts /\ At(Opt(c), 0) = 45
    OBVIOUS
  <2>1. <<45, c>> \in Seq(1 .. 255) /\ Len(<<45, c>>) = 2 /\ <<45, c>>[0 + 1] = 45
    OBVIOUS
  <2>2. QED
    BY <2>1 DEF Opt, At, Texts
<1>2. Linux \in Texts
  BY DEF Linux, Texts
<1>3. QED
  BY <1>1, <1>2 DEF DashM, DashA, DashK, DashC, DashB, DashH

LEMMA NumericIs ==
  /\ DOMAIN Numeric = {DashM, DashA, DashK}
  /\ Numeric[DashM] = "machid" /\ Numeric[DashA] = "atag" /\ Numeric[DashK] = "kernel"
<1>1. DashM # DashA /\ DashM # DashK /\ DashA # DashK
  BY OptionsApart
<1> HIDE DEF DashM, DashA, DashK
<1>2. QED
  BY <1>1 DEF Numeric

\* The tests for an option pass one by one, and only in the last place.
LEMMA PlaceIs ==
  ASSUME Shapes, InOptions, argv[i] \in Options => i + 1 >= argc
  PROVE  /\ Place \in i .. i + 4 /\ Place \in 0 .. Slots /\ Place + 1 <= argc + 5
         /\ argv[i] \notin Options => Place = i
         /\ argv[i] \in Options => i = argc - 1
<1>1. i \in Nat /\ argc \in Nat /\ i < argc /\ argc + 3 <= Slots /\ Slots \in Nat
  BY Sizes DEF Shapes, InOptions
<1>2. \A k \in Nat : \A o : Past(k, o) \in {k, k + 1}
  BY DEF Past
<1>3. ASSUME argv[i] \notin Options PROVE Place = i
  <2>1. \A o \in Options : Past(i, o) = i
    BY <1>3 DEF Past
  <2>2. QED
    BY <2>1 DEF Place, Options
<1>4. Place \in i .. i + 4
  <2>1. PICK a, b, c : a = Past(i, DashM) /\ b = Past(a, DashA) /\ c = Past(b, DashK)
    OBVIOUS
  <2>2. a \in {i, i + 1} /\ a \in Nat
    BY <1>1, <1>2, <2>1
  <2>3. b \in {a, a + 1} /\ b \in Nat
    BY <1>2, <2>1, <2>2
  <2>4. c \in {b, b + 1} /\ c \in Nat
    BY <1>2, <2>1, <2>3
  <2>5. Place = Past(c, DashC)
    BY <2>1 DEF Place
  <2>6. Place \in {c, c + 1}
    BY <1>2, <2>4, <2>5
  <2>7. QED
    BY <1>1, <2>2, <2>3, <2>4, <2>6
<1>5. QED
  <2>1. CASE argv[i] \in Options
    BY <1>1, <1>4, <2>1
  <2>2. CASE argv[i] \notin Options
    BY <1>1, <1>3, <2>2
  <2>3. QED
    BY <2>1, <2>2

LEMMA FoundIs ==
  ASSUME NEW p \in AreaTexts, NEW a \in Areas
  PROVE  /\ AreaOrDefault(p, a) \in Texts
         /\ a = "cmdline" => /\ Len(AreaOrDefault(p, a)) < Size
                             /\ Len(p.cmdline) < Size - 1
                                => Len(AreaOrDefault(p, a)) < Size - 1
<1>1. Defaults \in AreaTexts /\ Len(Defaults.cmdline) < Size - 1 /\ Size \in Nat
  BY Sizes, BootAssumption
<1>2. ASSUME NEW q \in AreaTexts
      PROVE  q[a] \in Texts /\ Len(q.cmdline) < Size /\ Len(q.cmdline) \in Nat
  <2>1. q \in [Areas -> Texts] /\ Len(q.cmdline) < Size
    BY DEF AreaTexts
  <2>2. "cmdline" \in Areas
    BY DEF Areas
  <2>3. q.cmdline \in Seq(1 .. 255)
    BY <2>1, <2>2 DEF Texts
  <2>4. QED
    BY <2>1, <2>3
<1>3. CASE p[a] = <<>>
  <2>1. AreaOrDefault(p, a) = Defaults[a]
    BY <1>3 DEF AreaOrDefault
  <2>2. Defaults[a] \in Texts /\ Len(Defaults.cmdline) \in Nat
    BY <1>1, <1>2
  <2>3. QED
    BY <1>1, <2>1, <2>2
<1>4. CASE p[a] # <<>>
  <2>1. AreaOrDefault(p, a) = p[a]
    BY <1>4 DEF AreaOrDefault
  <2>2. p[a] \in Texts /\ Len(p.cmdline) < Size
    BY <1>2
  <2>3. QED
    BY <2>1, <2>2
<1>5. QED
  BY <1>3, <1>4

\* The words of a line take the places of the first words of argv.
LEMMA WordsAre ==
  ASSUME Shapes, NEW line \in Seq(Texts), Words(line)
  PROVE  /\ argv' \in [0 .. Slots -> Texts]
         /\ \A k \in 0 .. Slots : k < Len(line) => argv'[k] = line[k + 1]
<1>1. argv \in [0 .. Slots -> Texts] /\ Len(line) \in Nat /\ Slots \in Nat
  BY Sizes DEF Shapes
<1>2. argv' = [k \in 0 .. Slots |-> IF k < Len(line) THEN line[k + 1] ELSE argv[k]]
  BY <1>1 DEF Words
<1>3. \A k \in 0 .. Slots : k < Len(line) => line[k + 1] \in Texts
  <2> SUFFICES ASSUME NEW k \in 0 .. Slots, k < Len(line) PROVE line[k + 1] \in Texts
    OBVIOUS
  <2>1. k + 1 \in 1 .. Len(line)
    BY <1>1
  <2>2. QED
    BY <2>1
<1>4. QED
  BY <1>1, <1>2, <1>3

LEMMA BeginShapes ==
  ASSUME Shapes, NEW line \in Seq(Texts), Len(line) + 3 <= Slots,
         phase \in {"main", "console"}, Begin(line), areas' \in AreaTexts
  PROVE  Shapes'
<1>1. argv' \in [0 .. Slots -> Texts]
  BY WordsAre DEF Begin
<1>2. /\ phase' = "options" /\ caller' \in {"main", "console"} /\ argc' = Len(line) /\ i' = 1
      /\ boot' = FALSE /\ chars' = chars /\ params' = params /\ cmdline' = cmdline
      /\ tags' = tags
  BY DEF Begin, BootAtFirst
<1>3. argc' \in Nat /\ argc' + 3 <= Slots /\ i' \in Nat /\ i' <= argc' + 5
  BY <1>2
<1>4. /\ chars' \in Nat /\ chars' <= Size /\ DOMAIN params' = Parameters
      /\ cmdline' \in Seq(Bytes) /\ Len(cmdline') = Size + Behind
      /\ tags' \in Seq(Bytes) /\ Len(tags') = 40 + Size + Behind
  BY <1>2 DEF Shapes
<1>5. phase' \in {"main", "console", "options", "words", "kernel", "dead"} /\ boot' \in BOOLEAN
  BY <1>2
<1>6. QED
  BY <1>1, <1>2, <1>3, <1>4, <1>5 DEF Shapes

\* Memory that a step writes to.
LEMMA Written ==
  ASSUME NEW f \in Seq(Bytes), NEW k \in 0 .. Len(f), NEW s \in Seq(Bytes),
         NEW g, g = Put(f, k, s)
  PROVE  Placed(g, f, k, s)
  BY PutRight

LEMMA TextBytes ==
  ASSUME NEW s \in Texts PROVE s \in Seq(Bytes) /\ Len(s) \in Nat /\ \A j \in 1 .. Len(s) : s[j] \in 1 .. 255
<1>1. s \in Seq(1 .. 255)
  BY DEF Texts
<1>2. \A j \in 1 .. Len(s) : s[j] \in 1 .. 255 /\ s[j] \in Bytes
  BY <1>1 DEF Bytes
<1>3. s \in Seq(Bytes)
  BY <1>1, <1>2, Cast
<1>4. QED
  BY <1>1, <1>2, <1>3

\* A byte, or some.
LEMMA ByteBytes ==
  ASSUME NEW b \in Bytes
  PROVE  <<b>> \in Seq(Bytes) /\ Len(<<b>>) = 1 /\ <<b>>[1] = b
  OBVIOUS

\* A word that is shorter than the room is copied with its NUL.
LEMMA CopiedIs ==
  ASSUME NEW w \in Texts, NEW n \in Nat, Len(w) < n
  PROVE  /\ Strncpy(w, n) \in Seq(Bytes) /\ Len(Strncpy(w, n)) = Len(w) + 1
         /\ \A j \in 1 .. Len(w) : Strncpy(w, n)[j] = w[j]
<1>1. w \in Seq(Bytes) /\ Len(w) \in Nat
  BY TextBytes
<1>2. Strncpy(w, n) = w \o <<0>>
  BY <1>1 DEF Strncpy
<1>3. <<0>> \in Seq(Bytes) /\ Len(<<0>>) = 1
  BY ByteBytes DEF Bytes
<1> DEFINE z == <<0>>
<1> HIDE DEF z
<1>4. z \in Seq(Bytes) /\ Len(z) = 1
  BY <1>3 DEF z
<1>5. /\ w \o z \in Seq(Bytes) /\ Len(w \o z) = Len(w) + Len(z)
      /\ \A j \in 1 .. Len(w) : (w \o z)[j] = w[j]
  BY <1>1, <1>4, JointBytes
<1>6. Strncpy(w, n) = w \o z
  BY <1>2 DEF z
<1>7. QED
  BY <1>4, <1>5, <1>6

\* (i - 2) words, each with its blank, fit as long as i - 2 is a place of a line.
LEMMA Fits ==
  ASSUME NEW k \in Nat, k <= MaxCmdArg - 2
  PROVE  /\ k * MaxCmdArgLen \in Nat /\ k * MaxCmdArgLen < Size
         /\ (k + 1) * MaxCmdArgLen = k * MaxCmdArgLen + MaxCmdArgLen
<1>1. PICK m \in Nat : m = MaxCmdArg - 2
  <2>1. MaxCmdArg - 2 \in Nat
    BY Sizes
  <2>2. QED
    BY <2>1
<1>2. m * MaxCmdArgLen < Size
  BY <1>1, BootAssumption
<1>3. PICK c \in Nat : c = MaxCmdArgLen
  BY Sizes
<1>4. k * c <= m * c /\ k * c \in Nat /\ m * c \in Nat
  <2>1. k <= m
    BY <1>1
  <2>2. k * c <= m * c
    BY <2>1, ProductMonotonic
  <2>3. QED
    BY <2>2
<1>5. (k + 1) * c = k * c + c
  OBVIOUS
<1>6. Size \in Nat
  BY Sizes
<1>7. QED
  BY <1>2, <1>3, <1>4, <1>5, <1>6

\* Wherever a word is copied, it fits with a blank and more behind it, except
\* that the text of boot_linux may fill the buffer.
LEMMA RoomForWord ==
  ASSUME Shapes, LineShape, phase = "words", i < argc, At(argv[i], 0) # 45
  PROVE  /\ argv[i] \in Texts /\ Len(argv[i]) \in Nat /\ i \in 0 .. Slots
         /\ chars + Len(argv[i]) + 1 <= Size
         /\ caller = "console" =>
              /\ chars + Len(argv[i]) + 1 <= (i - 1) * MaxCmdArgLen
              /\ (i - 1) * MaxCmdArgLen < Size
         /\ caller = "main" =>
              /\ i = 6 /\ chars = 0
              /\ Len(areas.cmdline) < Size - 1 => Len(argv[i]) + 1 < Size
<1>1. /\ i \in Nat /\ argc \in Nat /\ chars \in Nat /\ i \in 0 .. Slots
      /\ argv[i] \in Texts /\ Len(argv[i]) \in Nat /\ Size \in Nat
  <2>1. i \in 0 .. Slots /\ argv[i] \in Texts
    BY Sizes DEF Shapes
  <2>2. QED
    BY <2>1, Sizes, TextBytes DEF Shapes
<1>2. caller \in {"main", "console"}
  BY DEF Shapes
<1>3. CASE caller = "console"
  <2>1. /\ argc <= MaxCmdArg /\ 2 <= i /\ chars <= (i - 2) * MaxCmdArgLen
        /\ \A k \in 0 .. argc - 1 : Len(argv[k]) < MaxCmdArgLen
    BY <1>3 DEF LineShape, ConsoleLine
  <2>2. i \in 0 .. argc - 1
    BY <1>1
  <2>3. Len(argv[i]) < MaxCmdArgLen
    BY <2>1, <2>2
  <2>4. PICK k \in Nat : k = i - 2
    <3>1. i - 2 \in Nat
      BY <1>1, <2>1
    <3>2. QED
      BY <3>1
  <2>5. /\ k + 1 \in Nat /\ k + 1 <= MaxCmdArg - 2 /\ k <= MaxCmdArg - 2 /\ k + 1 = i - 1
        /\ MaxCmdArg \in Nat
    BY <1>1, <2>1, <2>4, Sizes
  <2>6. /\ k * MaxCmdArgLen \in Nat
        /\ (k + 1) * MaxCmdArgLen = k * MaxCmdArgLen + MaxCmdArgLen
    BY <2>5, Fits
  <2>7. (k + 1) * MaxCmdArgLen \in Nat /\ (k + 1) * MaxCmdArgLen < Size
    BY <2>5, Fits
  <2>8. PICK p, q, l, c : /\ p = k * MaxCmdArgLen /\ q = (k + 1) * MaxCmdArgLen
                          /\ l = MaxCmdArgLen /\ c = Len(argv[i])
    OBVIOUS
  <2>9. chars <= p
    BY <2>1, <2>4, <2>8
  <2>10. p \in Nat /\ q \in Nat /\ l \in Nat /\ q = p + l /\ q < Size /\ c < l /\ c \in Nat
    BY <1>1, <2>3, <2>6, <2>7, <2>8, Sizes
  <2>11. chars + c + 1 <= q /\ chars + c + 1 <= Size
    BY <1>1, <2>9, <2>10
  <2>12. chars + Len(argv[i]) + 1 <= (i - 1) * MaxCmdArgLen /\ (i - 1) * MaxCmdArgLen < Size
    <3>1. q = (i - 1) * MaxCmdArgLen
      BY <2>5, <2>8
    <3>2. QED
      BY <2>8, <2>10, <2>11, <3>1
  <2>13. chars + Len(argv[i]) + 1 <= Size
    BY <2>8, <2>11
  <2>14. QED
    BY <1>1, <1>3, <2>12, <2>13
<1>4. CASE caller = "main"
  <2>1. MainLine
    BY <1>4 DEF LineShape
  <2>2. i = 6 /\ chars = 0
    <3>1. i # 7 /\ i # 9
      BY <2>1, OptionsDash DEF MainLine
    <3>2. QED
      BY <2>1, <3>1 DEF MainLine
  <2>3. argv[i] = Found("cmdline") /\ areas \in AreaTexts /\ "cmdline" \in Areas
    BY <2>1, <2>2 DEF MainLine, Shapes, Areas
  <2>4. Len(argv[i]) < Size /\ (Len(areas.cmdline) < Size - 1 => Len(argv[i]) < Size - 1)
    BY <2>3, FoundIs DEF Found
  <2>5. QED
    BY <1>1, <1>4, <2>2, <2>4
<1>5. QED
  BY <1>2, <1>3, <1>4

\* What AppendWord stores: the word, and a blank unless the line ends.
LEMMA Appended ==
  ASSUME Shapes, LineShape, AppendWord
  PROVE  /\ cmdline' \in Seq(Bytes) /\ Len(cmdline') = Len(cmdline)
         /\ i' = i + 1
         /\ chars' = chars + Len(argv[i]) + (IF i + 1 >= argc THEN 0 ELSE 1)
         /\ \A j \in 1 .. Len(cmdline) :
              j <= chars \/ j > chars + Len(argv[i]) + 1 => cmdline'[j] = cmdline[j]
         /\ \A j \in 1 .. Len(argv[i]) : cmdline'[chars + j] = argv[i][j]
         /\ i + 1 < argc => cmdline'[chars + Len(argv[i]) + 1] = Blank
<1> DEFINE word == argv[i]
           n == Len(argv[i])
           copied == Put(cmdline, chars, Strncpy(word, Room))
<1>1. /\ phase = "words" /\ i < argc /\ At(argv[i], 0) # 45 /\ i' = i + 1
      /\ IF i + 1 >= argc THEN cmdline' = copied /\ chars' = chars + n
                          ELSE /\ cmdline' = Put(copied, chars + n, <<Blank>>)
                               /\ chars' = chars + n + 1
  BY DEF AppendWord
<1>2. word \in Texts /\ n \in Nat /\ chars + n + 1 <= Size
  BY <1>1, RoomForWord
<1>3. /\ chars \in Nat /\ cmdline \in Seq(Bytes) /\ Len(cmdline) = Size + Behind
      /\ Size \in Nat /\ Behind \in Nat /\ i \in Nat /\ argc \in Nat
  BY Sizes DEF Shapes
<1> DEFINE s == Strncpy(word, Room)
<1>4. /\ s \in Seq(Bytes) /\ Len(s) = n + 1
      /\ \A j \in 1 .. n : s[j] = word[j]
  <2>1. Room = Size - chars
    BY <1>2, <1>3 DEF Room
  <2>2. Room \in Nat /\ n < Room
    BY <1>2, <1>3, <2>1
  <2> HIDE DEF Room
  <2>3. QED
    BY <1>2, <2>2, CopiedIs
<1> HIDE DEF s
<1>5. copied = Put(cmdline, chars, s)
  BY DEF s
<1> HIDE DEF word, copied, n
<1>6. Placed(copied, cmdline, chars, s)
  <2>1. chars \in 0 .. Len(cmdline)
    BY <1>2, <1>3
  <2>2. QED
    BY <1>3, <1>4, <1>5, <2>1, PutRight
<1>7. /\ copied \in Seq(Bytes) /\ Len(copied) = Len(cmdline)
      /\ \A j \in 1 .. Len(cmdline) :
           j <= chars \/ j > chars + n + 1 => copied[j] = cmdline[j]
      /\ \A j \in 1 .. n : copied[chars + j] = word[j]
  <2>1. /\ copied \in Seq(Bytes) /\ Len(copied) = Len(cmdline)
        /\ \A j \in 1 .. Len(cmdline) :
             (j <= chars \/ j > chars + (n + 1)) => copied[j] = cmdline[j]
        /\ \A j \in 1 .. n + 1 : chars + j <= Len(cmdline) => copied[chars + j] = s[j]
    BY <1>4, <1>6 DEF Placed
  <2>2. \A j \in 1 .. n : j \in 1 .. n + 1 /\ chars + j <= Len(cmdline)
    BY <1>2, <1>3
  <2>3. chars + (n + 1) = chars + n + 1
    BY <1>2, <1>3
  <2>4. \A j \in 1 .. n : copied[chars + j] = s[j]
    BY <2>1, <2>2
  <2>5. QED
    BY <1>4, <2>1, <2>3, <2>4
<1>8. CASE i + 1 >= argc
  <2>1. cmdline' = copied /\ chars' = chars + n + 0 /\ ~(i + 1 < argc)
    BY <1>1, <1>2, <1>3, <1>8
  <2>2. QED
    BY <1>1, <1>7, <1>8, <2>1 DEF word, n
<1>9. CASE i + 1 < argc
  <2>1. cmdline' = Put(copied, chars + n, <<Blank>>) /\ chars' = chars + n + 1
    BY <1>1, <1>3, <1>9
  <2>2. PICK z \in Seq(Bytes) : z = <<Blank>> /\ Len(z) = 1 /\ z[1] = Blank
    <3>1. Blank \in Bytes
      BY DEF Blank, Bytes
    <3>2. <<Blank>> \in Seq(Bytes) /\ Len(<<Blank>>) = 1 /\ <<Blank>>[1] = Blank
      BY <3>1, ByteBytes
    <3>3. QED
      BY <3>2
  <2>3. PICK e \in 0 .. Len(copied) : e = chars + n
    <3>1. chars + n \in 0 .. Len(copied)
      BY <1>2, <1>3, <1>7
    <3>2. QED
      BY <3>1
  <2>4. Placed(cmdline', copied, e, z)
    <3>1. cmdline' = Put(copied, e, z)
      BY <2>1, <2>2, <2>3
    <3>2. QED
      BY <1>7, <3>1, PutRight
  <2>5. /\ cmdline' \in Seq(Bytes) /\ Len(cmdline') = Len(copied)
        /\ \A j \in 1 .. Len(copied) : (j <= e \/ j > e + 1) => cmdline'[j] = copied[j]
        /\ \A j \in 1 .. 1 : e + j <= Len(copied) => cmdline'[e + j] = z[j]
    BY <2>2, <2>4 DEF Placed
  <2>6. cmdline'[chars + n + 1] = Blank
    <3>1. 1 \in 1 .. 1 /\ e + 1 <= Len(copied) /\ e + 1 = chars + n + 1
      BY <1>2, <1>3, <1>7, <2>3
    <3>2. QED
      BY <2>2, <2>5, <3>1
  <2>7. \A j \in 1 .. Len(cmdline) :
          j <= chars \/ j > chars + n + 1 => cmdline'[j] = cmdline[j]
    <3> SUFFICES ASSUME NEW j \in 1 .. Len(cmdline), j <= chars \/ j > chars + n + 1
                 PROVE  cmdline'[j] = cmdline[j]
      OBVIOUS
    <3>1. j \in 1 .. Len(copied) /\ (j <= e \/ j > e + 1)
      BY <1>2, <1>3, <1>7, <2>3
    <3>2. QED
      BY <1>7, <2>5, <3>1
  <2>8. \A j \in 1 .. n : cmdline'[chars + j] = word[j]
    <3> SUFFICES ASSUME NEW j \in 1 .. n PROVE cmdline'[chars + j] = word[j]
      OBVIOUS
    <3>1. chars + j \in 1 .. Len(copied) /\ chars + j <= e
      BY <1>2, <1>3, <1>7, <2>3
    <3>2. QED
      BY <1>7, <2>5, <3>1
  <2>9. chars' = chars + n + (IF i + 1 >= argc THEN 0 ELSE 1)
    BY <1>3, <1>9, <2>1
  <2>10. QED
    BY <1>1, <1>7, <2>5, <2>6, <2>7, <2>8, <2>9 DEF word, n
<1>10. i + 1 >= argc \/ i + 1 < argc
  BY <1>3
<1>11. QED
  BY <1>8, <1>9, <1>10, Zenon

\* What EndWords stores: the NUL behind the text.
LEMMA Ended ==
  ASSUME Shapes, EndWords
  PROVE  /\ cmdline' \in Seq(Bytes) /\ Len(cmdline') = Len(cmdline)
         /\ cmdline'[chars + 1] = 0
         /\ \A j \in 1 .. Len(cmdline) : j # chars + 1 => cmdline'[j] = cmdline[j]
<1>1. /\ chars \in Nat /\ chars <= Size /\ cmdline \in Seq(Bytes)
      /\ Len(cmdline) = Size + Behind /\ Size \in Nat /\ Behind \in Nat /\ Behind > 0
  BY Sizes DEF Shapes
<1>2. PICK z \in Seq(Bytes) : z = <<0>> /\ Len(z) = 1 /\ z[1] = 0
  <2>1. 0 \in Bytes
    BY DEF Bytes
  <2>2. <<0>> \in Seq(Bytes) /\ Len(<<0>>) = 1 /\ <<0>>[1] = 0
    BY <2>1, ByteBytes
  <2>3. QED
    BY <2>2
<1>3. Placed(cmdline', cmdline, chars, z)
  <2>1. cmdline' = Put(cmdline, chars, z) /\ chars \in 0 .. Len(cmdline)
    BY <1>1, <1>2 DEF EndWords, TextEnd
  <2>2. QED
    BY <1>1, <2>1, PutRight
<1>4. /\ cmdline' \in Seq(Bytes) /\ Len(cmdline') = Len(cmdline)
      /\ \A j \in 1 .. Len(cmdline) : (j <= chars \/ j > chars + 1) => cmdline'[j] = cmdline[j]
      /\ \A j \in 1 .. 1 : chars + j <= Len(cmdline) => cmdline'[chars + j] = z[j]
  BY <1>2, <1>3 DEF Placed
<1>5. 1 \in 1 .. 1 /\ chars + 1 <= Len(cmdline)
  BY <1>1
<1>6. cmdline'[chars + 1] = 0
  BY <1>2, <1>4, <1>5
<1>7. \A j \in 1 .. Len(cmdline) : j # chars + 1 => (j <= chars \/ j > chars + 1)
  BY <1>1
<1>8. QED
  BY <1>4, <1>6, <1>7
-----------------------------------------------------------------------------
(* The tag list.                                                           *)

LEMMA SameBytes ==
  ASSUME NEW a \in Seq(Bytes), NEW b \in Seq(Bytes), Len(a) = Len(b),
         \A j \in 1 .. Len(a) : a[j] = b[j]
  PROVE  a = b
<1>1. a = [j \in 1 .. Len(a) |-> a[j]] /\ b = [j \in 1 .. Len(b) |-> b[j]]
  OBVIOUS
<1>2. QED
  BY <1>1

\* The head of a tag: its size in words and its name.
IsHead(head, n, tag) ==
    /\ head \in Seq(Bytes) /\ Len(head) = 8
    /\ head[1] = n % 256 /\ head[2] = n \div 256 /\ head[3] = 0 /\ head[4] = 0
    /\ \A j \in 1 .. 4 : head[4 + j] = tag[j]
    /\ head[1] + 256 * head[2] = n

LEMMA HeadIs ==
  ASSUME NEW n \in Nat, n < 256 * 256, NEW tag \in {AtagCore, AtagCmdline, AtagNone}
  PROVE  IsHead(WordsLE(n) \o tag, n, tag)
<1>0. PICK head : head = WordsLE(n) \o tag
  OBVIOUS
<1>1. /\ n \div 256 \in 0 .. 255 /\ n % 256 \in 0 .. 255 /\ (n \div 256) % 256 = n \div 256
      /\ n = (n \div 256) * 256 + (n % 256)
  BY SMT
<1>2. PICK w \in Seq(Bytes) : /\ w = WordsLE(n) /\ Len(w) = 4
                              /\ w[1] = n % 256 /\ w[2] = n \div 256 /\ w[3] = 0 /\ w[4] = 0
  <2>0. n % 256 \in Bytes /\ n \div 256 \in Bytes
    BY <1>1, Zenon DEF Bytes
  <2>1. PICK p \in Bytes, q \in Bytes : p = n % 256 /\ q = n \div 256
    BY <2>0, Zenon
  <2>2. WordsLE(n) = <<p, q, 0, 0>>
    BY <1>1, <2>1 DEF WordsLE
  <2>3. <<p, q, 0, 0>> \in Seq(Bytes) /\ Len(<<p, q, 0, 0>>) = 4
    BY DEF Bytes
  <2>4. QED
    BY <2>1, <2>2, <2>3
<1>3. tag \in Seq(Bytes) /\ Len(tag) = 4
  <2>1. AtagCore \in Seq(Bytes) /\ Len(AtagCore) = 4
    BY DEF AtagCore, Bytes
  <2>2. AtagCmdline \in Seq(Bytes) /\ Len(AtagCmdline) = 4
    BY DEF AtagCmdline, Bytes
  <2>3. AtagNone \in Seq(Bytes) /\ Len(AtagNone) = 4
    BY DEF AtagNone, Bytes
  <2>4. QED
    BY <2>1, <2>2, <2>3
<1>4. /\ w \o tag \in Seq(Bytes) /\ Len(w \o tag) = Len(w) + Len(tag)
      /\ \A j \in 1 .. Len(w) : (w \o tag)[j] = w[j]
      /\ \A j \in 1 .. Len(tag) : (w \o tag)[Len(w) + j] = tag[j]
  BY <1>3, JointBytes
<1>5. /\ head \in Seq(Bytes) /\ Len(head) = 8
      /\ \A j \in 1 .. 4 : head[j] = w[j] /\ head[4 + j] = tag[j]
  BY <1>0, <1>2, <1>3, <1>4
<1>6. head[1] = n % 256 /\ head[2] = n \div 256 /\ head[3] = 0 /\ head[4] = 0
  <2>1. 1 \in 1 .. 4 /\ 2 \in 1 .. 4 /\ 3 \in 1 .. 4 /\ 4 \in 1 .. 4
    OBVIOUS
  <2>2. head[1] = w[1] /\ head[2] = w[2] /\ head[3] = w[3] /\ head[4] = w[4]
    BY <1>5, <2>1
  <2>3. QED
    BY <1>2, <2>2
<1>7. head[1] + 256 * head[2] = n
  <2>1. PICK p \in Nat, q \in Nat : p = n % 256 /\ q = n \div 256 /\ n = q * 256 + p
    BY <1>1
  <2>2. p + 256 * q = n
    BY <2>1
  <2>3. QED
    BY <1>6, <2>1, <2>2
<1>8. IsHead(head, n, tag)
  BY <1>5, <1>6, <1>7, Zenon DEF IsHead
<1>9. QED
  BY <1>0, <1>8, Zenon

\* The tag of the command line ends at a word, behind the string.
LEMMA CmdlineSize ==
  ASSUME NEW s \in Texts, Len(s) < Size + Behind
  PROVE  /\ CmdlineWords(s) \in Nat /\ CmdlineWords(s) < 256 * 256 /\ Len(s) \in Nat
         /\ 4 * CmdlineWords(s) \in Len(s) + 8 .. Len(s) + 11
<1>1. PICK n \in Nat : n = Len(s) /\ n < 256 * 256
  <2>1. Len(s) \in Nat
    BY TextBytes
  <2>2. Len(s) < 256 * 256
    BY <2>1, Sizes, SMT
  <2>3. QED
    BY <2>1, <2>2
<1>2. CmdlineWords(s) = (n + 11) \div 4
  BY <1>1 DEF CmdlineWords
<1>3. /\ (n + 11) \div 4 \in Nat /\ (n + 11) \div 4 < 256 * 256
      /\ 4 * ((n + 11) \div 4) \in n + 8 .. n + 11
  BY <1>1, SMT
<1>4. QED
  BY <1>1, <1>2, <1>3

LEMMA StrippedIs ==
  ASSUME NEW s \in Texts
  PROVE  NoLeadingBlanks(s) \in Texts /\ Len(NoLeadingBlanks(s)) <= Len(s)
<1> DEFINE kept == {n \in 1 .. Len(s) : s[n] # Blank}
<1>1. s \in Seq(1 .. 255) /\ Len(s) \in Nat
  BY TextBytes DEF Texts
<1>2. CASE kept = {}
  <2>1. NoLeadingBlanks(s) = <<>>
    BY <1>2 DEF NoLeadingBlanks
  <2>2. <<>> \in Texts /\ Len(<<>>) = 0
    BY DEF Texts
  <2>3. QED
    BY <1>1, <2>1, <2>2
<1>3. CASE kept # {}
  <2>1. PICK e \in kept : \A x \in kept : e <= x
    <3>1. kept \in SUBSET Nat
      OBVIOUS
    <3> HIDE DEF kept
    <3>2. QED
      BY <1>3, <3>1, LeastNumber
  <2>2. Min(kept) = e
    <3>1. kept \subseteq Int
      OBVIOUS
    <3> HIDE DEF kept
    <3>2. QED
      BY <2>1, <3>1, LeastIs
  <2>3. NoLeadingBlanks(s) = SubSeq(s, Min(kept), Len(s))
    BY <1>3, Zenon DEF NoLeadingBlanks
  <2>4. PICK a \in Nat : e = a + 1 /\ a <= Len(s)
    <3>1. e - 1 \in Nat /\ e = (e - 1) + 1 /\ e - 1 <= Len(s)
      BY <1>1
    <3> HIDE DEF kept
    <3>2. QED
      BY <3>1
  <2> HIDE DEF kept
  <2>5. NoLeadingBlanks(s) = SubSeq(s, a + 1, Len(s))
    BY <2>2, <2>3, <2>4
  <2>6. s \in Seq(Bytes) /\ \A j \in 1 .. Len(s) : s[j] \in 1 .. 255
    BY TextBytes
  <2>7. PICK b \in Nat : b = Len(s)
    BY <1>1
  <2>8. /\ SubSeq(s, a + 1, b) \in Seq(Bytes)
        /\ Len(SubSeq(s, a + 1, b)) = IF a <= b THEN b - a ELSE 0
        /\ a <= b => \A j \in 1 .. b - a : SubSeq(s, a + 1, b)[j] = s[a + j]
    BY <2>6, <2>7, Piece
  <2>9. PICK r \in Seq(Bytes) : /\ r = SubSeq(s, a + 1, b) /\ Len(r) = b - a
                                /\ \A j \in 1 .. b - a : r[j] = s[a + j]
    BY <2>4, <2>7, <2>8
  <2>10. \A j \in 1 .. Len(r) : a + j \in 1 .. Len(s) /\ j \in 1 .. b - a
    BY <2>4, <2>7, <2>9
  <2>11. \A j \in 1 .. Len(r) : r[j] \in 1 .. 255
    BY <2>6, <2>9, <2>10
  <2>12. r \in Texts
    BY <2>11, CastText
  <2>13. NoLeadingBlanks(s) = r
    BY <2>5, <2>7, <2>9
  <2>14. QED
    BY <2>4, <2>7, <2>9, <2>12, <2>13
<1>4. QED
  BY <1>2, <1>3

Zeros == [k \in 1 .. 12 |-> 0]

\* The three tags, one behind the other.
ListOf(t, s) ==
    LET core == Put(t, 0, WordsLE(5) \o AtagCore \o Zeros)
        line == Put(core, 20, WordsLE(CmdlineWords(s)) \o AtagCmdline \o s \o <<0>>)
    IN  Put(line, 20 + 4 * CmdlineWords(s), WordsLE(0) \o AtagNone)

TagList(g, s) ==
    /\ g[1] = 5 /\ g[2] = 0 /\ g[3] = 0 /\ g[4] = 0
    /\ \A j \in 1 .. 4 : g[4 + j] = AtagCore[j] /\ g[24 + j] = AtagCmdline[j]
    /\ g[21] + 256 * g[22] = CmdlineWords(s)
    /\ \A j \in 1 .. Len(s) : g[28 + j] = s[j]
    /\ g[28 + Len(s) + 1] = 0
    /\ \A j \in 1 .. 8 : g[20 + 4 * CmdlineWords(s) + j] = 0

LEMMA TagsAre ==
  ASSUME NEW t \in Seq(Bytes), Len(t) = 40 + Size + Behind,
         NEW s \in Texts, Len(s) < Size + Behind
  PROVE  /\ ListOf(t, s) \in Seq(Bytes) /\ Len(ListOf(t, s)) = Len(t)
         /\ TagList(ListOf(t, s), s)
<1>0. PICK core, line, g :
        /\ core = Put(t, 0, WordsLE(5) \o AtagCore \o Zeros)
        /\ line = Put(core, 20, WordsLE(CmdlineWords(s)) \o AtagCmdline \o s \o <<0>>)
        /\ g = Put(line, 20 + 4 * CmdlineWords(s), WordsLE(0) \o AtagNone)
        /\ ListOf(t, s) = g
  BY DEF ListOf
<1>1. PICK n \in Nat, c \in Nat : /\ n = Len(s) /\ c = CmdlineWords(s) /\ c < 256 * 256
                                  /\ 4 * c \in n + 8 .. n + 11
  BY CmdlineSize
<1>2. PICK top \in Nat : top = Len(t) /\ top >= n + 41
  <2>1. 40 + Size + Behind \in Nat /\ Len(t) >= n + 41
    BY <1>1, Sizes
  <2>2. QED
    BY <2>1
<1>3. s \in Seq(Bytes) /\ AtagCore \in Seq(Bytes) /\ AtagCmdline \in Seq(Bytes)
      /\ AtagNone \in Seq(Bytes)
  BY TextBytes DEF AtagCore, AtagCmdline, AtagNone, Bytes
<1>4. PICK h1 : /\ h1 = WordsLE(5) \o AtagCore /\ h1 \in Seq(Bytes) /\ Len(h1) = 8
                /\ h1[1] = 5 /\ h1[2] = 0 /\ h1[3] = 0 /\ h1[4] = 0
                /\ \A j \in 1 .. 4 : h1[4 + j] = AtagCore[j]
  <2>1. PICK h : h = WordsLE(5) \o AtagCore
    OBVIOUS
  <2>2. PICK five \in Nat : five = 5 /\ five < 256 * 256 /\ five % 256 = 5 /\ five \div 256 = 0
    BY SMT
  <2>3. h = WordsLE(five) \o AtagCore
    BY <2>1, <2>2
  <2>4. IsHead(h, five, AtagCore)
    BY <2>2, <2>3, HeadIs
  <2>5. /\ h \in Seq(Bytes) /\ Len(h) = 8
        /\ h[1] = five % 256 /\ h[2] = five \div 256 /\ h[3] = 0 /\ h[4] = 0
        /\ \A j \in 1 .. 4 : h[4 + j] = AtagCore[j]
    BY <2>4, Zenon DEF IsHead
  <2>6. h[1] = 5 /\ h[2] = 0
    BY <2>2, <2>5
  <2>7. QED
    BY <2>1, <2>5, <2>6
<1>5a. PICK h2 : h2 = WordsLE(c) \o AtagCmdline
  OBVIOUS
<1>5. /\ h2 \in Seq(Bytes) /\ Len(h2) = 8
      /\ h2[1] + 256 * h2[2] = c
      /\ \A j \in 1 .. 4 : h2[4 + j] = AtagCmdline[j]
  <2>1. IsHead(h2, c, AtagCmdline)
    BY <1>1, <1>5a, HeadIs
  <2>2. QED
    BY <2>1, Zenon DEF IsHead
<1>6a. PICK h3 : h3 = WordsLE(0) \o AtagNone
  OBVIOUS
<1>6. /\ h3 \in Seq(Bytes) /\ Len(h3) = 8
      /\ \A j \in 1 .. 8 : h3[j] = 0
  <2>2. PICK none \in Nat : none = 0 /\ none < 256 * 256 /\ none % 256 = 0 /\ none \div 256 = 0
    BY SMT
  <2>3. h3 = WordsLE(none) \o AtagNone
    BY <1>6a, <2>2
  <2>0. IsHead(h3, none, AtagNone)
    BY <2>2, <2>3, HeadIs
  <2>4. /\ h3 \in Seq(Bytes) /\ Len(h3) = 8
        /\ h3[1] = none % 256 /\ h3[2] = none \div 256 /\ h3[3] = 0 /\ h3[4] = 0
        /\ \A j \in 1 .. 4 : h3[4 + j] = AtagNone[j]
    BY <2>0, Zenon DEF IsHead
  <2>5. \A j \in 1 .. 4 : AtagNone[j] = 0
    BY DEF AtagNone
  <2>6. ASSUME NEW j \in 1 .. 8 PROVE h3[j] = 0
    <3>1. CASE j \in 1 .. 4
      <4>1. j = 1 \/ j = 2 \/ j = 3 \/ j = 4
        BY <3>1
      <4>2. QED
        BY <2>2, <2>4, <4>1
    <3>2. CASE j \notin 1 .. 4
      <4>1. PICK d \in 1 .. 4 : j = 4 + d
        <5>1. j - 4 \in 1 .. 4 /\ j = 4 + (j - 4)
          BY <3>2
        <5>2. QED
          BY <5>1
      <4>2. h3[4 + d] = AtagNone[d]
        BY <2>4
      <4>3. QED
        BY <2>5, <4>1, <4>2
    <3>3. QED
      BY <3>1, <3>2
  <2>7. QED
    BY <2>4, <2>6, Zenon
<1>7. PICK m1 \in Seq(Bytes) : /\ m1 = h1 \o Zeros /\ Len(m1) = 20
                               /\ \A j \in 1 .. 8 : m1[j] = h1[j]
  <2>1. PICK z \in Seq(Bytes) : z = Zeros /\ Len(z) = 12
    <3>1. Zeros \in Seq(Bytes) /\ Len(Zeros) = 12
      BY DEF Zeros, Bytes
    <3>2. QED
      BY <3>1
  <2>2. h1 \in Seq(Bytes) /\ Len(h1) = 8
    BY <1>4
  <2>3. /\ h1 \o z \in Seq(Bytes) /\ Len(h1 \o z) = Len(h1) + Len(z)
        /\ \A j \in 1 .. Len(h1) : (h1 \o z)[j] = h1[j]
    BY <2>2, JointBytes
  <2>4. PICK m \in Seq(Bytes) : m = h1 \o z /\ Len(m) = 20 /\ \A j \in 1 .. 8 : m[j] = h1[j]
    <3>1. Len(z) = 12
      BY <2>1
    <3>2. Len(h1 \o z) = 20
      BY <2>2, <2>3, <3>1
    <3>3. \A j \in 1 .. 8 : (h1 \o z)[j] = h1[j]
      BY <2>2, <2>3
    <3>4. QED
      BY <2>3, <3>2, <3>3
  <2>5. m = h1 \o Zeros
    BY <2>1, <2>4
  <2>6. QED
    BY <2>4, <2>5
<1>8. PICK m2 \in Seq(Bytes) :
         /\ m2 = h2 \o s \o <<0>> /\ Len(m2) = n + 9
         /\ \A j \in 1 .. 8 : m2[j] = h2[j]
         /\ \A j \in 1 .. n : m2[8 + j] = s[j]
         /\ m2[n + 9] = 0
  <2>1. PICK p \in Seq(Bytes) : /\ p = h2 \o s /\ Len(p) = 8 + n
                                /\ \A j \in 1 .. 8 : p[j] = h2[j]
                                /\ \A j \in 1 .. n : p[8 + j] = s[j]
    <3>0. PICK r : r = h2 \o s
      OBVIOUS
    <3>1. PICK e \in Nat : e = 8 /\ e = Len(h2)
      BY <1>5
    <3>2. h2 \in Seq(Bytes) /\ s \in Seq(Bytes) /\ n = Len(s)
      BY <1>1, <1>3, <1>5
    <3>3. /\ r \in Seq(Bytes) /\ Len(r) = e + n
          /\ \A j \in 1 .. e : r[j] = h2[j]
          /\ \A j \in 1 .. n : r[e + j] = s[j]
      <4>1. /\ h2 \o s \in Seq(Bytes) /\ Len(h2 \o s) = Len(h2) + Len(s)
            /\ \A j \in 1 .. Len(h2) : (h2 \o s)[j] = h2[j]
            /\ \A j \in 1 .. Len(s) : (h2 \o s)[Len(h2) + j] = s[j]
        BY <3>2, JointBytes
      <4>2. QED
        BY <3>0, <3>1, <3>2, <4>1, Zenon
    <3>4. /\ r = h2 \o s /\ Len(r) = 8 + n
          /\ \A j \in 1 .. 8 : r[j] = h2[j]
          /\ \A j \in 1 .. n : r[8 + j] = s[j]
      BY <3>0, <3>1, <3>3, Zenon
    <3>5. QED
      BY <3>3, <3>4, Zenon
  <2>2. PICK z \in Seq(Bytes) : z = <<0>> /\ Len(z) = 1 /\ z[1] = 0
    <3>1. 0 \in Bytes
      BY DEF Bytes
    <3>2. <<0>> \in Seq(Bytes) /\ Len(<<0>>) = 1 /\ <<0>>[1] = 0
      BY <3>1, ByteBytes
    <3>3. QED
      BY <3>2
  <2>3. /\ p \o z \in Seq(Bytes) /\ Len(p \o z) = Len(p) + Len(z)
        /\ \A j \in 1 .. Len(p) : (p \o z)[j] = p[j]
        /\ \A j \in 1 .. Len(z) : (p \o z)[Len(p) + j] = z[j]
    BY JointBytes
  <2>4. PICK m \in Seq(Bytes) : m = p \o z
    BY <2>3
  <2>5. /\ Len(m) = n + 9 /\ \A j \in 1 .. 8 + n : m[j] = p[j]
        /\ m[8 + n + 1] = z[1]
    <3>1. 1 \in 1 .. Len(z) /\ Len(p) = 8 + n /\ (8 + n) + 1 = n + 9
      BY <2>1, <2>2
    <3>2. m[Len(p) + 1] = z[1] /\ Len(m) = (8 + n) + 1
      BY <2>1, <2>2, <2>3, <2>4, <3>1
    <3>3. \A j \in 1 .. 8 + n : m[j] = p[j]
      BY <2>3, <2>4, <3>1
    <3>4. QED
      BY <3>1, <3>2, <3>3
  <2>6. \A j \in 1 .. 8 : j \in 1 .. 8 + n
    OBVIOUS
  <2>7. \A j \in 1 .. n : 8 + j \in 1 .. 8 + n
    OBVIOUS
  <2>8. 8 + n + 1 = n + 9 /\ m = h2 \o s \o <<0>>
    BY <2>1, <2>2, <2>4
  <2>9. m[n + 9] = 0
    BY <2>2, <2>5, <2>8
  <2>10. \A j \in 1 .. n : m[8 + j] = s[j]
    BY <2>1, <2>5, <2>7
  <2>11. \A j \in 1 .. 8 : m[j] = h2[j]
    BY <2>1, <2>5, <2>6
  <2>12. Len(m) = n + 9 /\ m = h2 \o s \o <<0>>
    BY <2>5, <2>8
  <2>13. QED
    BY <2>9, <2>10, <2>11, <2>12
<1>9. PICK next \in Nat : next = 20 + 4 * c /\ next \in n + 28 .. n + 31
  <2>1. PICK m \in Nat : m = 4 * c /\ m \in n + 8 .. n + 11
    BY <1>1
  <2>2. 20 + m \in Nat /\ 20 + m \in n + 28 .. n + 31
    BY <2>1
  <2>3. QED
    BY <2>1, <2>2
<1>10. Placed(core, t, 0, m1)
  <2>1. core = Put(t, 0, m1) /\ 0 \in 0 .. Len(t)
    BY <1>0, <1>2, <1>4, <1>7
  <2>2. QED
    BY <2>1, PutRight
<1>11. /\ core \in Seq(Bytes) /\ Len(core) = top
       /\ \A j \in 1 .. 8 : core[j] = h1[j]
  <2>1. /\ core \in Seq(Bytes) /\ Len(core) = Len(t)
        /\ \A j \in 1 .. Len(m1) : 0 + j <= Len(t) => core[0 + j] = m1[j]
    BY <1>10 DEF Placed
  <2>2. ASSUME NEW j \in 1 .. 8 PROVE core[j] = m1[j]
    <3>0. PICK d \in Nat : d = Len(m1) /\ d = 20
      BY <1>7
    <3>1. j \in 1 .. d /\ 0 + j = j /\ j <= top
      BY <1>2, <3>0
    <3>2. core[0 + j] = m1[j]
      BY <1>2, <2>1, <3>0, <3>1, Zenon
    <3>3. m1[j] = h1[j]
      BY <1>7
    <3>4. QED
      BY <3>1, <3>2, Zenon
  <2>3. \A j \in 1 .. 8 : core[j] = m1[j]
    BY <2>2
  <2>4. QED
    BY <1>2, <1>7, <2>1, <2>3
<1>12. Placed(line, core, 20, m2)
  <2>1. line = Put(core, 20, m2)
    <3>1. m2 = h2 \o s \o <<0>> /\ h2 = WordsLE(c) \o AtagCmdline /\ c = CmdlineWords(s)
      BY <1>1, <1>5, <1>5a, <1>8
    <3>2. QED
      BY <1>0, <3>1
  <2>3. 20 \in 0 .. Len(core)
    BY <1>2, <1>11
  <2>2. QED
    BY <1>11, <2>1, <2>3, PutRight
<1>13. /\ line \in Seq(Bytes) /\ Len(line) = top
       /\ \A j \in 1 .. 8 : line[j] = h1[j]
       /\ \A j \in 1 .. 8 : line[20 + j] = h2[j]
       /\ \A j \in 1 .. n : line[28 + j] = s[j]
       /\ line[28 + n + 1] = 0
  <2>1. /\ line \in Seq(Bytes) /\ Len(line) = top
        /\ \A j \in 1 .. Len(core) : (j <= 20 \/ j > 20 + Len(m2)) => line[j] = core[j]
        /\ \A j \in 1 .. Len(m2) : 20 + j <= Len(core) => line[20 + j] = m2[j]
    BY <1>11, <1>12 DEF Placed
  <2>2. \A j \in 1 .. n + 9 : line[20 + j] = m2[j]
    <3>1. \A j \in 1 .. n + 9 : j \in 1 .. Len(m2) /\ 20 + j <= Len(core)
      <4>1. Len(m2) = n + 9
        BY <1>8
      <4>2. Len(core) = top
        BY <1>11
      <4>3. QED
        BY <1>2, <4>1, <4>2
    <3>2. QED
      BY <2>1, <3>1
  <2>3. \A j \in 1 .. 8 : line[j] = h1[j]
    <3>1. \A j \in 1 .. 8 : j \in 1 .. Len(core) /\ j <= 20
      BY <1>2, <1>11
    <3>2. \A j \in 1 .. 8 : line[j] = core[j]
      BY <2>1, <3>1
    <3>3. QED
      BY <1>11, <3>2
  <2>4. \A j \in 1 .. 8 : line[20 + j] = h2[j]
    <3>1. \A j \in 1 .. 8 : j \in 1 .. n + 9
      OBVIOUS
    <3>2. QED
      BY <1>8, <2>2, <3>1
  <2>5. ASSUME NEW j \in 1 .. n PROVE line[28 + j] = s[j]
    <3>1. 8 + j \in 1 .. n + 9 /\ 20 + (8 + j) = 28 + j
      OBVIOUS
    <3>2. line[28 + j] = m2[8 + j]
      BY <2>2, <3>1
    <3>3. QED
      BY <1>8, <3>2
  <2>6. line[28 + n + 1] = 0
    <3>1. n + 9 \in 1 .. n + 9 /\ 20 + (n + 9) = 28 + n + 1
      OBVIOUS
    <3>2. line[28 + n + 1] = m2[n + 9]
      BY <2>2, <3>1
    <3>3. QED
      BY <1>8, <3>2
  <2>7. QED
    BY <2>1, <2>3, <2>4, <2>5, <2>6
<1>14. Placed(g, line, next, h3)
  <2>1. g = Put(line, next, h3)
    <3>1. h3 = WordsLE(0) \o AtagNone /\ next = 20 + 4 * CmdlineWords(s)
      BY <1>1, <1>6, <1>6a, <1>9
    <3>2. QED
      BY <1>0, <3>1
  <2>3. next \in 0 .. Len(line)
    <3>1. Len(line) = top
      BY <1>13
    <3>2. QED
      BY <1>2, <1>9, <3>1
  <2>2. QED
    BY <1>6, <1>13, <2>1, <2>3, PutRight
<1>15. /\ g \in Seq(Bytes) /\ Len(g) = top
       /\ \A j \in 1 .. top : j <= next => g[j] = line[j]
       /\ \A j \in 1 .. 8 : g[next + j] = h3[j]
  <2>1. /\ g \in Seq(Bytes) /\ Len(g) = top
        /\ \A j \in 1 .. Len(line) : (j <= next \/ j > next + Len(h3)) => g[j] = line[j]
        /\ \A j \in 1 .. Len(h3) : next + j <= Len(line) => g[next + j] = h3[j]
    BY <1>13, <1>14 DEF Placed
  <2>2. Len(line) = top /\ Len(h3) = 8 /\ \A j \in 1 .. 8 : next + j <= top
    <3>1. Len(line) = top /\ Len(h3) = 8
      BY <1>6, <1>13
    <3>2. QED
      BY <1>2, <1>9, <3>1
  <2>3. QED
    BY <2>1, <2>2
<1>16. \A j \in 1 .. 28 + n : j \in 1 .. top /\ j <= next
  BY <1>2, <1>9
<1>17. \A j \in 1 .. 28 + n : g[j] = line[j]
  BY <1>15, <1>16
<1>18. \A j \in 1 .. 8 : g[next + j] = 0
  BY <1>6, <1>15
<1>19. \A j \in 1 .. 8 : g[j] = h1[j] /\ g[20 + j] = h2[j]
  <2>1. \A j \in 1 .. 8 : j \in 1 .. 28 + n /\ 20 + j \in 1 .. 28 + n
    OBVIOUS
  <2>2. QED
    BY <1>13, <1>17, <2>1
<1>20. \A j \in 1 .. n : g[28 + j] = s[j]
  <2>1. \A j \in 1 .. n : 28 + j \in 1 .. 28 + n
    OBVIOUS
  <2>2. QED
    BY <1>13, <1>17, <2>1
<1>21. g[28 + n + 1] = 0
  <2>1. CASE next = 28 + n
    <3>1. 1 \in 1 .. 8
      OBVIOUS
    <3>2. QED
      BY <1>18, <2>1, <3>1
  <2>2. CASE next # 28 + n
    <3>1. 28 + n + 1 \in 1 .. top /\ 28 + n + 1 <= next
      BY <1>2, <1>9, <2>2
    <3>2. QED
      BY <1>13, <1>15, <3>1
  <2>3. QED
    BY <2>1, <2>2
<1>22. g[1] = 5 /\ g[2] = 0 /\ g[3] = 0 /\ g[4] = 0
  <2>1. 1 \in 1 .. 8 /\ 2 \in 1 .. 8 /\ 3 \in 1 .. 8 /\ 4 \in 1 .. 8
    OBVIOUS
  <2>2. g[1] = h1[1] /\ g[2] = h1[2] /\ g[3] = h1[3] /\ g[4] = h1[4]
    BY <1>19, <2>1
  <2>3. QED
    BY <1>4, <2>2
<1>23. \A j \in 1 .. 4 : g[4 + j] = AtagCore[j] /\ g[24 + j] = AtagCmdline[j]
  <2> SUFFICES ASSUME NEW j \in 1 .. 4
               PROVE  g[4 + j] = AtagCore[j] /\ g[24 + j] = AtagCmdline[j]
    OBVIOUS
  <2>1. 4 + j \in 1 .. 8 /\ 20 + (4 + j) = 24 + j
    OBVIOUS
  <2>2. g[4 + j] = h1[4 + j] /\ g[24 + j] = h2[4 + j]
    BY <1>19, <2>1
  <2>3. QED
    BY <1>4, <1>5, <2>2
<1>24. g[21] + 256 * g[22] = c
  <2>1. 1 \in 1 .. 8 /\ 2 \in 1 .. 8 /\ 20 + 1 = 21 /\ 20 + 2 = 22
    OBVIOUS
  <2>2. g[21] = h2[1] /\ g[22] = h2[2]
    BY <1>19, <2>1
  <2>3. QED
    BY <1>5, <2>2
<1>25. /\ \A j \in 1 .. Len(s) : g[28 + j] = s[j]
       /\ g[28 + Len(s) + 1] = 0
  BY <1>1, <1>20, <1>21
<1>26. \A j \in 1 .. 8 : g[20 + 4 * CmdlineWords(s) + j] = 0
  BY <1>1, <1>9, <1>18
<1>27. g[21] + 256 * g[22] = CmdlineWords(s)
  BY <1>1, <1>24
<1>28. g \in Seq(Bytes) /\ Len(g) = Len(t)
  BY <1>2, <1>15
<1>29. TagList(g, s)
  BY <1>22, <1>23, <1>25, <1>26, <1>27 DEF TagList
<1>30. QED
  BY <1>0, <1>28, <1>29
-----------------------------------------------------------------------------
(* Every step keeps the shape.                                             *)

Base == Shapes /\ LineShape

LEMMA BaseInit == BootInit => Base
<1> SUFFICES ASSUME BootInit PROVE Base
  OBVIOUS
<1>1. /\ areas = [a \in Areas |-> <<>>] /\ phase = "main" /\ caller = "main"
      /\ argc = 0 /\ i = 0 /\ boot = FALSE /\ chars = 0
      /\ params = [machid |-> 1, atag |-> 1, kernel |-> 1]
      /\ cmdline = [k \in 1 .. Size + Behind |-> IF k = 1 THEN 0 ELSE Untouched]
      /\ tags \in OldMemory
  BY DEF BootInit
<1>2. PICK m \in Nat : m = Size + Behind
  BY Sizes
<1>3. argv \in [0 .. Slots -> Texts]
  BY BootAssumption DEF BootInit
<1>4. areas \in AreaTexts
  <2>1. <<>> \in Texts /\ Len(<<>>) = 0 /\ "cmdline" \in Areas
    BY DEF Texts, Areas
  <2>2. areas \in [Areas -> Texts] /\ areas.cmdline = <<>>
    BY <1>1, <2>1
  <2>3. QED
    BY <2>1, <2>2, Sizes DEF AreaTexts
<1>5. cmdline \in Seq(Bytes) /\ Len(cmdline) = Size + Behind
  <2>1. cmdline = [k \in 1 .. m |-> IF k = 1 THEN 0 ELSE Untouched]
    BY <1>1, <1>2
  <2>2. 0 \in Bytes /\ Untouched \in Bytes
    BY DEF Untouched, Bytes
  <2>3. cmdline \in [1 .. m -> Bytes]
    BY <2>1, <2>2
  <2>4. cmdline \in Seq(Bytes) /\ Len(cmdline) = m
    BY <2>3
  <2>5. QED
    BY <1>2, <2>4
<1>6. tags \in Seq(Bytes) /\ Len(tags) = 40 + Size + Behind
  BY <1>1, BootAssumption DEF Bytes
<1>7. DOMAIN params = Parameters
  BY <1>1 DEF Parameters
<1>8. Shapes
  <2>1. /\ argc \in Nat /\ argc + 3 <= Slots /\ i \in Nat /\ i <= argc + 5
        /\ chars \in Nat /\ chars <= Size
    BY <1>1, Sizes
  <2>2. /\ phase \in {"main", "console", "options", "words", "kernel", "dead"}
        /\ caller \in {"main", "console"} /\ boot \in BOOLEAN
    BY <1>1
  <2>3. QED
    BY <1>3, <1>4, <1>5, <1>6, <1>7, <2>1, <2>2 DEF Shapes
<1>9. LineShape
  BY <1>1 DEF LineShape
<1>10. QED
  BY <1>8, <1>9 DEF Base

LEMMA BaseMainBoot == ASSUME Base, MainBoot PROVE Base'
<1>1. PICK p \in Patches :
         /\ phase = "main" /\ areas' = p
         /\ Begin(<<Linux, DashM, AreaOrDefault(p, "machid"),
                     DashA, AreaOrDefault(p, "atag"), DashC, AreaOrDefault(p, "cmdline"),
                     DashK, AreaOrDefault(p, "kernel"), DashB>>)
  BY DEF MainBoot
<1>2. PICK m, a, c, k : /\ m = AreaOrDefault(p, "machid") /\ a = AreaOrDefault(p, "atag")
                        /\ c = AreaOrDefault(p, "cmdline") /\ k = AreaOrDefault(p, "kernel")
  OBVIOUS
<1>3. p \in AreaTexts /\ m \in Texts /\ a \in Texts /\ c \in Texts /\ k \in Texts
  <2>1. p \in AreaTexts
    BY BootAssumption
  <2>2. "machid" \in Areas /\ "atag" \in Areas /\ "cmdline" \in Areas /\ "kernel" \in Areas
    BY DEF Areas
  <2>3. QED
    BY <1>2, <2>1, <2>2, FoundIs
<1>4. PICK M, A, C, K, B, L : /\ M = DashM /\ A = DashA /\ C = DashC /\ K = DashK /\ B = DashB
                              /\ L = Linux
                              /\ {M, A, C, K, B, L} \subseteq Texts
  BY OptionsDash
<1>5. PICK line \in Seq(Texts) :
         /\ line = <<L, M, m, A, a, C, c, K, k, B>> /\ Len(line) = 10
         /\ line[2] = M /\ line[3] = m /\ line[4] = A /\ line[5] = a /\ line[6] = C
         /\ line[7] = c /\ line[8] = K /\ line[9] = k /\ line[10] = B
  <2>1. <<L, M, m, A, a, C, c, K, k, B>> \in Seq(Texts)
    BY <1>3, <1>4
  <2>2. QED
    BY <2>1
<1>6. Begin(line)
  BY <1>1, <1>2, <1>4, <1>5
<1>7. Shapes /\ LineShape /\ Len(line) + 3 <= Slots
  BY <1>5, Sizes DEF Base
<1>8. Shapes'
  <2>1. areas' \in AreaTexts /\ phase \in {"main", "console"}
    BY <1>1, <1>3
  <2>2. QED
    BY <1>6, <1>7, <2>1, BeginShapes
<1>9. \A j \in 0 .. Slots : j < Len(line) => argv'[j] = line[j + 1]
  BY <1>6, <1>7, WordsAre DEF Begin
<1>10. /\ argv'[1] = M /\ argv'[2] = m /\ argv'[3] = A /\ argv'[4] = a /\ argv'[5] = C
       /\ argv'[6] = c /\ argv'[7] = K /\ argv'[8] = k /\ argv'[9] = B
  <2>1. \A j \in 1 .. 9 : argv'[j] = line[j + 1]
    <3>1. Len(line) = 10 /\ Slots \in Nat /\ Slots >= 13
      BY <1>5, Sizes
    <3>2. QED
      BY <1>9, <3>1
  <2>2. /\ argv'[1] = line[2] /\ argv'[2] = line[3] /\ argv'[3] = line[4] /\ argv'[4] = line[5]
        /\ argv'[5] = line[6] /\ argv'[6] = line[7] /\ argv'[7] = line[8] /\ argv'[8] = line[9]
        /\ argv'[9] = line[10]
    BY <2>1
  <2>3. QED
    BY <1>5, <2>2
<1>11. /\ phase' = "options" /\ caller' = "main" /\ argc' = 10 /\ i' = 1
  BY <1>1, <1>5, <1>6 DEF Begin
<1>12. MainLine'
  <2>1. /\ argv'[2] = Found("machid")' /\ argv'[4] = Found("atag")'
        /\ argv'[6] = Found("cmdline")' /\ argv'[8] = Found("kernel")'
    BY <1>1, <1>2, <1>10 DEF Found
  <2>2. /\ argv'[1] = DashM /\ argv'[3] = DashA /\ argv'[5] = DashC /\ argv'[7] = DashK
        /\ argv'[9] = DashB
    BY <1>4, <1>10
  <2>3. QED
    BY <1>11, <2>1, <2>2 DEF MainLine
<1>13. LineShape'
  BY <1>11, <1>12 DEF LineShape
<1>14. QED
  BY <1>8, <1>13 DEF Base

LEMMA BaseLineLinux ==
  ASSUME Base, NEW line \in Lines, LineLinux(line) PROVE Base'
<1>1. /\ line \in Seq(Texts) /\ Len(line) \in 1 .. MaxCmdArg
      /\ \A k \in 1 .. Len(line) : Len(line[k]) < MaxCmdArgLen
  BY LineWords
<1>2. /\ phase = "console" /\ Len(line) > 1 /\ Begin(line) /\ areas' = areas
  BY DEF LineLinux
<1>3. Shapes /\ Len(line) + 3 <= Slots /\ areas' \in AreaTexts /\ phase \in {"main", "console"}
  BY <1>1, <1>2, Sizes DEF Base, Shapes
<1>4. Shapes'
  BY <1>1, <1>2, <1>3, BeginShapes
<1>5. \A j \in 0 .. Slots : j < Len(line) => argv'[j] = line[j + 1]
  BY <1>1, <1>2, <1>3, WordsAre DEF Begin
<1>6. phase' = "options" /\ caller' = "console" /\ argc' = Len(line) /\ i' = 1
  BY <1>2 DEF Begin
<1>7. \A k \in 0 .. argc' - 1 : Len(argv'[k]) < MaxCmdArgLen
  <2> SUFFICES ASSUME NEW k \in 0 .. argc' - 1 PROVE Len(argv'[k]) < MaxCmdArgLen
    OBVIOUS
  <2>1. k \in 0 .. Slots /\ k < Len(line) /\ k + 1 \in 1 .. Len(line)
    BY <1>1, <1>3, <1>6, Sizes
  <2>2. argv'[k] = line[k + 1]
    BY <1>5, <2>1
  <2>3. QED
    BY <1>1, <2>1, <2>2
<1>8. argc' <= MaxCmdArg /\ argc' >= 2
  BY <1>1, <1>2, <1>6
<1>9. ConsoleLine'
  BY <1>6, <1>7, <1>8 DEF ConsoleLine
<1>10. LineShape'
  BY <1>6, <1>8, <1>9 DEF LineShape
<1>11. QED
  BY <1>4, <1>10 DEF Base

LEMMA BaseLineOther ==
  ASSUME Base, NEW line \in Lines, LineOther(line) PROVE Base'
<1>1. line \in Seq(Texts)
  BY LineWords
<1>2. /\ phase = "console" /\ Words(line)
      /\ UNCHANGED <<areas, phase, caller, argc, i, boot, chars, params, cmdline, tags>>
  BY DEF LineOther
<1>3. argv' \in [0 .. Slots -> Texts]
  BY <1>1, <1>2, WordsAre DEF Base
<1>4. Shapes'
  BY <1>2, <1>3 DEF Base, Shapes
<1>5. LineShape'
  BY <1>2 DEF LineShape
<1>6. QED
  BY <1>4, <1>5 DEF Base

\* The steps that read a line keep what the line is.
Held == UNCHANGED <<areas, caller, argv, argc>>

LEMMA HeldLine ==
  ASSUME Shapes, Held, phase' \in {"main", "console", "options", "words", "kernel", "dead"},
         i' \in Nat, i' <= argc + 5, boot' \in BOOLEAN, chars' \in Nat, chars' <= Size,
         DOMAIN params' = Parameters, cmdline' \in Seq(Bytes), Len(cmdline') = Len(cmdline),
         tags' = tags
  PROVE  Shapes'
<1>1. /\ caller' \in {"main", "console"} /\ areas' \in AreaTexts
      /\ argv' \in [0 .. Slots -> Texts] /\ argc' \in Nat /\ argc' + 3 <= Slots
      /\ argc' = argc
  BY DEF Shapes, Held
<1>2. Len(cmdline') = Size + Behind /\ tags' \in Seq(Bytes) /\ Len(tags') = 40 + Size + Behind
  BY DEF Shapes
<1>3. QED
  BY <1>1, <1>2 DEF Shapes

\* The same for the line: what is left to show is where it is read.
LEMMA HeldShape ==
  ASSUME LineShape, Held, phase \in {"options", "words"},
         phase' \in {"options", "words"} =>
            /\ i' >= 1
            /\ caller = "console" /\ phase' = "words" =>
                 2 <= i' /\ i' <= argc /\ chars' <= (i' - 2) * MaxCmdArgLen
            /\ caller = "main" =>
                 /\ i' \in {1, 3, 5, 6, 7, 8, 9, 10}
                 /\ phase' = "words" => \/ i' \in {6, 7, 9} /\ chars' = 0
                                        \/ i' = 7 /\ chars' = Len(argv[6]) + 1
  PROVE  LineShape'
<1> SUFFICES ASSUME phase' \in {"options", "words"} PROVE LineShape'
  BY DEF LineShape
<1>1. caller' = caller /\ areas' = areas /\ argv' = argv /\ argc' = argc
  BY DEF Held
<1>2. argc >= 2 /\ (caller = "console" => ConsoleLine) /\ (caller = "main" => MainLine)
  BY DEF LineShape
<1>3. ASSUME caller = "console" PROVE ConsoleLine'
  BY <1>1, <1>2, <1>3 DEF ConsoleLine
<1>4. ASSUME caller = "main" PROVE MainLine'
  <2>1. Found("machid")' = Found("machid") /\ Found("atag")' = Found("atag")
        /\ Found("cmdline")' = Found("cmdline") /\ Found("kernel")' = Found("kernel")
    BY <1>1 DEF Found
  <2>2. MainLine
    BY <1>2, <1>4
  <2>3. QED
    BY <1>1, <1>4, <2>1, <2>2 DEF MainLine
<1>5. QED
  BY <1>1, <1>2, <1>3, <1>4 DEF LineShape

\* In the line of boot_linux the options are in their places.
LEMMA MainOptions ==
  ASSUME MainLine, Shapes, i < argc
  PROVE  /\ argv[i] = DashM => i \in {1, 6, 8} /\ argv[i] \in Options
         /\ i = 9 => argv[i] = DashB /\ argv[i] \notin Options
         /\ i \in {1, 3, 5, 7} => argv[i] \in Options
         /\ argv[i] = DashC => i \in {5, 6, 8}
         /\ i \in {1, 3, 5, 6, 7, 8, 9} /\ argc = 10
         /\ i # 6 /\ i # 8 => (i = 1 <=> argv[i] = DashM)
<1>1. i \in {1, 3, 5, 6, 7, 8, 9} /\ argc = 10
  BY DEF MainLine, Shapes
<1>2. DashB \notin Options
  BY OptionsApart DEF Options
<1>3. CASE i \in {6, 8}
  BY <1>1, <1>3 DEF Options
<1>4. CASE i \in {1, 3, 5, 7, 9}
  BY <1>1, <1>2, <1>4, OptionsApart DEF MainLine, Options
<1>5. QED
  BY <1>1, <1>3, <1>4

LEMMA BaseTakeNumber == ASSUME Base, TakeNumber PROVE Base'
<1>1. /\ phase = "options" /\ i < argc /\ i + 1 < argc /\ i' = i + 2
      /\ argv[i] \in {DashM, DashA, DashK} /\ phase' = phase
      /\ boot' = boot /\ chars' = chars /\ cmdline' = cmdline /\ tags' = tags
      /\ params' = [params EXCEPT ![Numeric[argv[i]]] = Strtoul(argv[i + 1])]
  BY NumericIs DEF TakeNumber, InOptions
<1>2. Held
  BY DEF TakeNumber, Held
<1>3. Shapes /\ LineShape /\ i \in Nat /\ argc \in Nat
  BY DEF Base, Shapes
<1>4. Shapes'
  <2>1. DOMAIN params' = Parameters
    BY <1>1, <1>3 DEF Shapes
  <2>2. i' \in Nat /\ i' <= argc + 5
    BY <1>1, <1>3
  <2>3. /\ boot' \in BOOLEAN /\ chars' \in Nat /\ chars' <= Size /\ cmdline' \in Seq(Bytes)
        /\ Len(cmdline') = Len(cmdline)
    BY <1>1, <1>3 DEF Shapes
  <2>4. QED
    BY <1>1, <1>2, <1>3, <2>1, <2>2, <2>3, HeldLine
<1>5. LineShape'
  <2>1. i' >= 1 /\ phase' # "words"
    BY <1>1, <1>3
  <2>2. ASSUME caller = "main" PROVE i' \in {1, 3, 5, 6, 7, 8, 9, 10}
    <3>1. MainLine
      BY <1>1, <1>3, <2>2 DEF LineShape
    <3>2. i \in {1, 3, 5, 6, 7, 8, 9} /\ argc = 10 /\ argv[5] = DashC
      BY <1>1, <1>3, <3>1, MainOptions DEF MainLine
    <3>3. i # 5
      BY <1>1, <3>2, OptionsApart
    <3>4. i \in {1, 3, 6, 7, 8}
      BY <1>1, <3>2, <3>3
    <3>5. QED
      BY <1>1, <3>4
  <2>3. QED
    BY <1>1, <1>2, <1>3, <2>1, <2>2, HeldShape
<1>6. QED
  BY <1>4, <1>5 DEF Base

LEMMA BaseTakeCmdline == ASSUME Base, TakeCmdline PROVE Base'
<1>1. /\ phase = "options" /\ i < argc /\ i + 1 < argc /\ i' = i + 1 /\ argv[i] = DashC
      /\ phase' = "words" /\ boot' = boot /\ chars' = 0 /\ cmdline' = cmdline /\ tags' = tags
      /\ params' = params
  BY DEF TakeCmdline, InOptions, FirstWord, FirstChar
<1>2. Held
  BY DEF TakeCmdline, Held
<1>3. Shapes /\ LineShape /\ i \in Nat /\ argc \in Nat /\ Size \in Nat
  BY Sizes DEF Base, Shapes
<1>4. Shapes'
  <2>1. i' \in Nat /\ i' <= argc + 5 /\ chars' \in Nat /\ chars' <= Size
    BY <1>1, <1>3
  <2>2. /\ boot' \in BOOLEAN /\ DOMAIN params' = Parameters /\ cmdline' \in Seq(Bytes)
        /\ Len(cmdline') = Len(cmdline)
    BY <1>1, <1>3 DEF Shapes
  <2>3. QED
    BY <1>1, <1>2, <1>3, <2>1, <2>2, HeldLine
<1>5. LineShape'
  <2>1. i >= 1
    BY <1>1, <1>3 DEF LineShape
  <2>2. 2 <= i' /\ i' <= argc /\ i' >= 1 /\ i' - 2 \in Nat
    BY <1>1, <1>3, <2>1
  <2>3. chars' <= (i' - 2) * MaxCmdArgLen
    <3>1. PICK k \in Nat, c \in Nat : k = i' - 2 /\ c = MaxCmdArgLen
      BY <2>2, Sizes
    <3>2. 0 <= k * c
      OBVIOUS
    <3>3. QED
      BY <1>1, <3>1, <3>2
  <2>4. ASSUME caller = "main" PROVE i' \in {6, 7, 9}
    <3>1. MainLine
      BY <1>1, <1>3, <2>4 DEF LineShape
    <3>2. i \in {5, 6, 8}
      BY <1>1, <1>3, <3>1, MainOptions
    <3>3. QED
      BY <1>1, <3>2
  <2>5. QED
    BY <1>1, <1>2, <1>3, <2>2, <2>3, <2>4, HeldShape
<1>6. QED
  BY <1>4, <1>5 DEF Base

LEMMA BaseAppendWord == ASSUME Base, AppendWord PROVE Base'
<1>1. /\ phase = "words" /\ i < argc /\ At(argv[i], 0) # 45 /\ phase' = "words"
      /\ boot' = boot /\ tags' = tags /\ params' = params
  BY DEF AppendWord
<1>2. Held
  BY DEF AppendWord, Held
<1>3. Shapes /\ LineShape /\ i \in Nat /\ argc \in Nat /\ Size \in Nat /\ chars \in Nat
  BY Sizes DEF Base, Shapes
<1>4. /\ cmdline' \in Seq(Bytes) /\ Len(cmdline') = Len(cmdline) /\ i' = i + 1
      /\ chars' = chars + Len(argv[i]) + (IF i + 1 >= argc THEN 0 ELSE 1)
  BY <1>3, Appended
<1>5. /\ Len(argv[i]) \in Nat
      /\ chars + Len(argv[i]) + 1 <= Size
      /\ caller = "console" => chars + Len(argv[i]) + 1 <= (i - 1) * MaxCmdArgLen
      /\ caller = "main" => i = 6 /\ chars = 0
  BY <1>1, <1>3, RoomForWord
<1>6. chars' \in Nat /\ chars' <= Size /\ chars' <= chars + Len(argv[i]) + 1
  <2>1. PICK n \in Nat : n = Len(argv[i])
    BY <1>5
  <2>2. chars' = chars + n \/ chars' = chars + n + 1
    <3>1. PICK d : d = (IF i + 1 >= argc THEN 0 ELSE 1) /\ d \in {0, 1}
      OBVIOUS
    <3>2. chars' = chars + n + d
      BY <1>4, <2>1, <3>1
    <3>3. d = 0 \/ d = 1
      BY <3>1
    <3>4. chars \in Nat
      BY <1>3
    <3>5. CASE d = 0
      BY <3>2, <3>4, <3>5
    <3>6. CASE d = 1
      BY <3>2, <3>6
    <3>7. QED
      BY <3>3, <3>5, <3>6
  <2>3. chars + n + 1 <= Size
    BY <1>5, <2>1
  <2>4. QED
    BY <1>3, <2>1, <2>2, <2>3
<1>7. Shapes'
  <2>1. i' \in Nat /\ i' <= argc + 5
    BY <1>1, <1>3, <1>4
  <2>2. boot' \in BOOLEAN /\ DOMAIN params' = Parameters
    BY <1>1, <1>3 DEF Shapes
  <2>3. QED
    BY <1>1, <1>2, <1>3, <1>4, <1>6, <2>1, <2>2, HeldLine
<1>8. LineShape'
  <2>1. i >= 1
    BY <1>1, <1>3 DEF LineShape
  <2>2. 2 <= i' /\ i' <= argc /\ i' >= 1 /\ i' - 2 = i - 1
    BY <1>1, <1>3, <1>4, <2>1
  <2>3. ASSUME caller = "console" PROVE chars' <= (i' - 2) * MaxCmdArgLen
    <3>1. PICK k \in Nat, c \in Nat, l \in Nat :
             k = i - 1 /\ c = MaxCmdArgLen /\ l = chars + Len(argv[i]) + 1
      <4>1. i - 1 \in Nat /\ chars + Len(argv[i]) + 1 \in Nat
        BY <1>3, <1>5, <2>1
      <4>2. QED
        BY <4>1, Sizes
    <3>2. l <= k * c /\ k * c \in Nat /\ chars' <= l
      BY <1>5, <1>6, <2>3, <3>1
    <3>3. chars' <= k * c
      BY <1>6, <3>2
    <3>4. QED
      BY <2>2, <3>1, <3>3
  <2>4. ASSUME caller = "main" PROVE i' = 7 /\ chars' = Len(argv[6]) + 1
    <3>1. i = 6 /\ chars = 0
      BY <1>5, <2>4
    <3>2. argc = 10
      BY <1>1, <1>3, <2>4 DEF LineShape, MainLine
    <3>3. QED
      BY <1>4, <1>5, <3>1, <3>2
  <2>5. QED
    BY <1>1, <1>2, <1>3, <2>2, <2>3, <2>4, HeldShape
<1>9. QED
  BY <1>7, <1>8 DEF Base

LEMMA BaseEndWords == ASSUME Base, EndWords PROVE Base'
<1>1. /\ phase = "words" /\ phase' = "options" /\ i' = i /\ chars' = chars
      /\ boot' = boot /\ tags' = tags /\ params' = params
  BY DEF EndWords
<1>2. Held
  BY DEF EndWords, Held
<1>3. Shapes /\ LineShape
  BY DEF Base
<1>4. cmdline' \in Seq(Bytes) /\ Len(cmdline') = Len(cmdline)
  BY <1>3, Ended
<1>5. Shapes'
  <2>1. /\ i' \in Nat /\ i' <= argc + 5 /\ chars' \in Nat /\ chars' <= Size
        /\ boot' \in BOOLEAN /\ DOMAIN params' = Parameters
    BY <1>1, <1>3 DEF Shapes
  <2>2. QED
    BY <1>1, <1>2, <1>3, <1>4, <2>1, HeldLine
<1>6. LineShape'
  <2>1. i' >= 1 /\ (caller = "main" => i' \in {1, 3, 5, 6, 7, 8, 9, 10})
    BY <1>1, <1>3 DEF LineShape, MainLine
  <2>2. QED
    BY <1>1, <1>2, <1>3, <2>1, HeldShape
<1>7. QED
  BY <1>5, <1>6 DEF Base

LEMMA BaseOther == ASSUME Base, Other PROVE Base'
<1>1. /\ phase = "options" /\ i < argc /\ (argv[i] \in Options => i + 1 >= argc)
      /\ i' = Place + 1 /\ boot' = (boot \/ argv[Place] = DashB)
      /\ phase' = phase /\ chars' = chars /\ cmdline' = cmdline /\ tags' = tags
      /\ params' = params
  BY DEF Other, InOptions, Options
<1>2. Held
  BY DEF Other, Held
<1>3. Shapes /\ LineShape /\ i \in Nat /\ argc \in Nat
  BY DEF Base, Shapes
<1>4. /\ Place \in i .. i + 4 /\ Place + 1 <= argc + 5
      /\ argv[i] \notin Options => Place = i
  BY <1>1, <1>3, PlaceIs DEF InOptions
<1>5. i' \in Nat /\ i' <= argc + 5 /\ i' >= 1
  BY <1>1, <1>3, <1>4
<1>6. Shapes'
  <2>1. /\ boot' \in BOOLEAN /\ DOMAIN params' = Parameters /\ cmdline' \in Seq(Bytes)
        /\ Len(cmdline') = Len(cmdline) /\ chars' \in Nat /\ chars' <= Size
    BY <1>1, <1>3 DEF Shapes
  <2>2. QED
    BY <1>1, <1>2, <1>3, <1>5, <2>1, HeldLine
<1>7. LineShape'
  <2>1. ASSUME caller = "main" PROVE i' \in {1, 3, 5, 6, 7, 8, 9, 10}
    <3>1. MainLine
      BY <1>1, <1>3, <2>1 DEF LineShape
    <3>2. /\ i \in {1, 3, 5, 6, 7, 8, 9} /\ argc = 10
          /\ i \in {1, 3, 5, 7} => argv[i] \in Options
          /\ i = 9 => argv[i] \notin Options
      BY <1>1, <1>3, <3>1, MainOptions
    <3>3. argv[i] \notin Options
      BY <1>1, <3>2
    <3>4. i \in {6, 8, 9}
      BY <3>2, <3>3
    <3>5. QED
      BY <1>1, <1>4, <3>3, <3>4
  <2>2. phase' # "words"
    BY <1>1
  <2>3. QED
    BY <1>1, <1>2, <1>3, <1>5, <2>1, <2>2, HeldShape
<1>8. QED
  BY <1>6, <1>7 DEF Base

LEMMA BaseReturn ==
  ASSUME Base, phase' \in {"console", "kernel", "dead"}, Held,
         UNCHANGED <<i, boot, chars, params, cmdline>>,
         tags' \in Seq(Bytes), Len(tags') = Len(tags)
  PROVE  Base'
<1>1. Shapes'
  <2>1. /\ areas' \in AreaTexts /\ caller' \in {"main", "console"}
        /\ argv' \in [0 .. Slots -> Texts] /\ argc' \in Nat /\ argc' + 3 <= Slots
        /\ i' \in Nat /\ i' <= argc' + 5
    BY DEF Base, Shapes, Held
  <2>2. /\ boot' \in BOOLEAN /\ chars' \in Nat /\ chars' <= Size /\ DOMAIN params' = Parameters
        /\ cmdline' \in Seq(Bytes) /\ Len(cmdline') = Size + Behind
        /\ Len(tags') = 40 + Size + Behind
    BY DEF Base, Shapes
  <2>3. QED
    BY <2>1, <2>2 DEF Shapes
<1>2. LineShape'
  BY DEF LineShape
<1>3. QED
  BY <1>1, <1>2 DEF Base

\* The tag list is written inside its memory.
LEMMA KernelTags ==
  ASSUME Base, StartKernel, NEW s, s = NoLeadingBlanks(StringAt(cmdline, 0))
  PROVE  /\ s \in Texts /\ Len(s) < Size + Behind
         /\ tags' \in Seq(Bytes) /\ Len(tags') = Len(tags)
         /\ TagList(tags', s)
<1>1. /\ cmdline \in Seq(Bytes) /\ Len(cmdline) = Size + Behind /\ tags \in Seq(Bytes)
      /\ Len(tags) = 40 + Size + Behind /\ 0 \in Nat /\ 0 < Len(cmdline)
      /\ Size + Behind \in Nat
  BY Sizes DEF Base, Shapes
<1>2. s \in Texts /\ Len(s) < Size + Behind
  <2>1. PICK r \in Texts : r = StringAt(cmdline, 0) /\ Len(r) < Len(cmdline) - 0
    <3>1. PICK k \in Nat : k = 0
      OBVIOUS
    <3>2. StringAt(cmdline, k) \in Texts /\ Len(StringAt(cmdline, k)) < Len(cmdline) - k
      BY <1>1, <3>1, StringType
    <3>3. QED
      BY <3>1, <3>2
  <2>2. NoLeadingBlanks(r) \in Texts /\ Len(NoLeadingBlanks(r)) <= Len(r)
    BY StrippedIs
  <2>3. Len(r) \in Nat /\ Len(NoLeadingBlanks(r)) \in Nat
    BY <2>2, TextBytes
  <2>4. QED
    BY <1>1, <2>1, <2>2, <2>3
<1>3. tags' = ListOf(tags, s)
  BY Zenon DEF StartKernel, ListOf, Zeros
<1>4. /\ ListOf(tags, s) \in Seq(Bytes) /\ Len(ListOf(tags, s)) = Len(tags)
      /\ TagList(ListOf(tags, s), s)
  BY <1>1, <1>2, TagsAre
<1>5. QED
  BY <1>2, <1>3, <1>4

LEMMA BaseMainConsole == ASSUME Base, MainConsole PROVE Base'
<1>1. /\ phase' = "console" /\ Held /\ UNCHANGED <<i, boot, chars, params, cmdline, tags>>
  BY DEF MainConsole, Held
<1>2. tags' \in Seq(Bytes) /\ Len(tags') = Len(tags)
  BY <1>1 DEF Base, Shapes
<1>3. QED
  BY <1>1, <1>2, BaseReturn

LEMMA BaseStop == ASSUME Base, Help \/ EndLine PROVE Base'
<1>1. phase' = Returned /\ Held /\ UNCHANGED <<i, boot, chars, params, cmdline, tags>>
  BY DEF Help, EndLine, Held
<1>2. phase' \in {"console", "kernel", "dead"}
  BY <1>1 DEF Returned
<1>3. tags' \in Seq(Bytes) /\ Len(tags') = Len(tags)
  BY <1>1 DEF Base, Shapes
<1>4. QED
  BY <1>1, <1>2, <1>3, BaseReturn

LEMMA BaseStartKernel == ASSUME Base, StartKernel PROVE Base'
<1>1. phase' = "kernel" /\ Held /\ UNCHANGED <<i, boot, chars, params, cmdline>>
  BY DEF StartKernel, Held
<1>2. tags' \in Seq(Bytes) /\ Len(tags') = Len(tags)
  BY KernelTags
<1>3. QED
  BY <1>1, <1>2, BaseReturn

LEMMA BaseNext == ASSUME Base, [BootNext]_bootVars PROVE Base'
<1>1. CASE MainBoot
  BY <1>1, BaseMainBoot
<1>2. CASE MainConsole
  BY <1>2, BaseMainConsole
<1>3. ASSUME NEW line \in Lines, LineLinux(line) PROVE Base'
  BY <1>3, BaseLineLinux
<1>4. ASSUME NEW line \in Lines, LineOther(line) PROVE Base'
  BY <1>4, BaseLineOther
<1>5. CASE TakeNumber
  BY <1>5, BaseTakeNumber
<1>6. CASE TakeCmdline
  BY <1>6, BaseTakeCmdline
<1>7. CASE AppendWord
  BY <1>7, BaseAppendWord
<1>8. CASE EndWords
  BY <1>8, BaseEndWords
<1>9. CASE Other
  BY <1>9, BaseOther
<1>10. CASE Help \/ EndLine
  BY <1>10, BaseStop
<1>11. CASE StartKernel
  BY <1>11, BaseStartKernel
<1>12. CASE UNCHANGED bootVars
  <2>1. UNCHANGED <<areas, phase, caller, argv, argc, i, boot, chars, params, cmdline, tags>>
    BY <1>12 DEF bootVars
  <2>2. Shapes'
    BY <2>1 DEF Base, Shapes
  <2>3. LineShape'
    <3>1. /\ Found("machid")' = Found("machid") /\ Found("atag")' = Found("atag")
          /\ Found("cmdline")' = Found("cmdline") /\ Found("kernel")' = Found("kernel")
      BY <2>1 DEF Found
    <3>2. ConsoleLine' <=> ConsoleLine
      BY <2>1 DEF ConsoleLine
    <3>3. MainLine => MainLine'
      BY <2>1, <3>1 DEF MainLine
    <3>4. QED
      BY <2>1, <3>2, <3>3 DEF Base, LineShape
  <2>4. QED
    BY <2>2, <2>3 DEF Base
<1>13. QED
  BY <1>1, <1>2, <1>3, <1>4, <1>5, <1>6, <1>7, <1>8, <1>9, <1>10, <1>11, <1>12 DEF BootNext

-----------------------------------------------------------------------------
(* The kernel is booted when it was asked for.                             *)

Asked == DashB \in Given \/ argv[argc - 1] \in Options

BootFlag ==
    /\ phase \in {"options", "words", "kernel"} /\ boot => Asked
    /\ phase = "kernel" => boot

LEMMA HeldAsked == ASSUME Held PROVE Asked' <=> Asked
  BY DEF Held, Asked, Given

LEMMA FlagNext ==
  ASSUME Base, BootFlag, [BootNext]_bootVars PROVE BootFlag'
<1>1. CASE MainBoot \/ \E line \in Lines : LineLinux(line)
  <2>1. phase' = "options" /\ boot' = FALSE
    BY <1>1 DEF MainBoot, LineLinux, Begin, BootAtFirst
  <2>2. QED
    BY <2>1 DEF BootFlag
<1>2. CASE MainConsole \/ \E line \in Lines : LineOther(line)
  <2>1. phase' = "console"
    BY <1>2 DEF MainConsole, LineOther
  <2>2. QED
    BY <2>1 DEF BootFlag
<1>3. CASE TakeNumber \/ TakeCmdline \/ AppendWord \/ EndWords
  <2>1. /\ phase \in {"options", "words"} /\ phase' \in {"options", "words"}
        /\ boot' = boot /\ Held
    BY <1>3 DEF TakeNumber, TakeCmdline, AppendWord, EndWords, InOptions, Held
  <2>2. QED
    BY <2>1, HeldAsked DEF BootFlag
<1>4. CASE Other
  <2>1. /\ phase = "options" /\ phase' = "options" /\ i < argc /\ Held
        /\ (argv[i] \in Options => i + 1 >= argc)
        /\ boot' = (boot \/ argv[Place] = DashB)
    BY <1>4 DEF Other, InOptions, Options, Held
  <2>2. Shapes /\ i \in Nat /\ argc \in Nat /\ i >= 1
    BY <2>1 DEF Base, Shapes, LineShape
  <2>3. ASSUME argv[Place] = DashB PROVE Asked
    <3>1. CASE argv[i] \in Options
      <4>1. i = argc - 1
        BY <2>1, <2>2, <3>1
      <4>2. QED
        BY <3>1, <4>1 DEF Asked
    <3>2. CASE argv[i] \notin Options
      <4>1. Place = i
        BY <2>1, <2>2, <3>2, PlaceIs DEF InOptions
      <4>2. i \in 1 .. argc - 1
        BY <2>1, <2>2
      <4>3. QED
        BY <2>3, <4>1, <4>2 DEF Asked, Given
    <3>3. QED
      BY <3>1, <3>2
  <2>4. boot' => Asked
    BY <2>1, <2>3 DEF BootFlag
  <2>5. QED
    BY <2>1, <2>4, HeldAsked DEF BootFlag
<1>5. CASE Help \/ EndLine
  <2>1. phase' \in {"console", "dead"}
    BY <1>5 DEF Help, EndLine, Returned
  <2>2. QED
    BY <2>1 DEF BootFlag
<1>6. CASE StartKernel
  <2>1. phase = "options" /\ phase' = "kernel" /\ boot /\ boot' = boot /\ Held
    BY <1>6 DEF StartKernel, Held
  <2>2. QED
    BY <2>1, HeldAsked DEF BootFlag
<1>7. CASE UNCHANGED bootVars
  <2>1. Held /\ phase' = phase /\ boot' = boot
    BY <1>7 DEF bootVars, Held
  <2>2. QED
    BY <2>1, HeldAsked DEF BootFlag
<1>8. QED
  BY <1>1, <1>2, <1>3, <1>4, <1>5, <1>6, <1>7 DEF BootNext

\* A line boots the kernel only if -b is in it, or ends with an option that
\* lacks its word: the flag of an earlier line is not remembered.
THEOREM BootsAskedCorrect == BootSpec => []BootsAsked
<1>1. BootInit => Base /\ BootFlag
  <2>1. BootInit => BootFlag
    BY DEF BootInit, BootFlag
  <2>2. QED
    BY <2>1, BaseInit
<1>2. Base /\ BootFlag /\ [BootNext]_bootVars => (Base /\ BootFlag)'
  BY BaseNext, FlagNext
<1>3. Base /\ BootFlag => BootsAsked
  BY DEF BootFlag, BootsAsked, Asked, Options
<1>4. QED
  BY <1>1, <1>2, <1>3, PTL DEF BootSpec

-----------------------------------------------------------------------------
(* What is behind the buffer.                                              *)

\* No text that is read will reach behind the buffer.
ShortText ==
    \/ phase \in {"main", "console"} \/ caller = "console"
    \/ Len(areas.cmdline) < Size - 1

Clean ==
    /\ \A k \in Size + 2 .. Size + Behind : cmdline[k] = Untouched
    /\ cmdline[Size + 1] \in {0, Untouched}
    /\ ShortText => cmdline[Size + 1] = Untouched

LEMMA CleanNext ==
  ASSUME Base, Clean, [BootNext]_bootVars PROVE Clean'
<1>0. /\ Shapes /\ LineShape /\ Size \in Nat /\ Behind \in Nat /\ Behind > 0
      /\ chars \in Nat /\ chars <= Size
      /\ Len(cmdline) = Size + Behind
  BY Sizes DEF Base, Shapes
<1>1. CASE MainBoot \/ MainConsole \/ \E line \in Lines : LineLinux(line) \/ LineOther(line)
  <2>1. cmdline' = cmdline /\ phase \in {"main", "console"}
    BY <1>1 DEF MainBoot, MainConsole, LineLinux, LineOther, Begin
  <2>2. QED
    BY <2>1 DEF Clean, ShortText
<1>2. CASE \/ TakeNumber \/ TakeCmdline \/ Other \/ Help \/ EndLine \/ StartKernel
  <2>1. cmdline' = cmdline /\ caller' = caller /\ areas' = areas
    BY <1>2 DEF TakeNumber, TakeCmdline, Other, Help, EndLine, StartKernel
  <2>2. phase' \in {"options", "words", "kernel", "dead"} \/ caller = "console"
    <3>1. phase = "options"
      BY <1>2 DEF TakeNumber, TakeCmdline, Other, Help, EndLine, StartKernel, InOptions
    <3>2. \/ phase' \in {"options", "words", "kernel"} \/ phase' = Returned
      BY <1>2, <3>1 DEF TakeNumber, TakeCmdline, Other, Help, EndLine, StartKernel
    <3>3. Returned = "dead" \/ caller = "console"
      BY <1>0 DEF Returned, Shapes
    <3>4. QED
      BY <3>2, <3>3
  <2>3. ShortText' => ShortText
    BY <2>1, <2>2 DEF ShortText
  <2>4. QED
    BY <2>1, <2>3 DEF Clean
<1>3. CASE AppendWord
  <2>1. /\ phase = "words" /\ phase' = "words" /\ i < argc /\ At(argv[i], 0) # 45
        /\ caller' = caller /\ areas' = areas
    BY <1>3 DEF AppendWord
  <2>2. ShortText' => ShortText
    BY <2>1 DEF ShortText
  <2>3. /\ Len(argv[i]) \in Nat /\ chars + Len(argv[i]) + 1 <= Size
    BY <1>0, <2>1, RoomForWord
  <2>4. \A j \in 1 .. Len(cmdline) :
          j <= chars \/ j > chars + Len(argv[i]) + 1 => cmdline'[j] = cmdline[j]
    BY <1>0, <1>3, Appended
  <2>5. \A k \in Size + 1 .. Size + Behind : cmdline'[k] = cmdline[k]
    <3> SUFFICES ASSUME NEW k \in Size + 1 .. Size + Behind PROVE cmdline'[k] = cmdline[k]
      OBVIOUS
    <3>1. k \in 1 .. Len(cmdline) /\ k > chars + Len(argv[i]) + 1
      BY <1>0, <2>3
    <3>2. QED
      BY <2>4, <3>1
  <2>6. /\ cmdline'[Size + 1] = cmdline[Size + 1]
        /\ \A k \in Size + 2 .. Size + Behind : cmdline'[k] = cmdline[k]
    <3>1. Size + 1 \in Size + 1 .. Size + Behind
      BY <1>0
    <3>2. \A k \in Size + 2 .. Size + Behind : k \in Size + 1 .. Size + Behind
      BY <1>0
    <3>3. QED
      BY <2>5, <3>1, <3>2
  <2>7. QED
    BY <2>2, <2>6 DEF Clean
<1>4. CASE EndWords
  <2>1. /\ phase = "words" /\ phase' = "options" /\ caller' = caller /\ areas' = areas
    BY <1>4 DEF EndWords
  <2>2. ShortText' => ShortText
    BY <2>1 DEF ShortText
  <2>3. ASSUME ShortText PROVE chars < Size
    <3>1. CASE caller = "console"
      <4>1. /\ 2 <= i /\ i <= argc /\ chars <= (i - 2) * MaxCmdArgLen /\ argc <= MaxCmdArg
            /\ i \in Nat /\ argc \in Nat
        BY <1>0, <2>1, <3>1 DEF LineShape, ConsoleLine, Shapes
      <4>2. PICK k \in Nat : k = i - 2 /\ k <= MaxCmdArg - 2
        <5>1. i - 2 \in Nat /\ i - 2 <= MaxCmdArg - 2
          BY <4>1, Sizes
        <5>2. QED
          BY <5>1
      <4>3. k * MaxCmdArgLen \in Nat /\ k * MaxCmdArgLen < Size
        BY <4>2, Fits
      <4>4. chars <= k * MaxCmdArgLen
        BY <4>1, <4>2
      <4>5. QED
        BY <1>0, <4>3, <4>4
    <3>2. CASE caller = "main" /\ Len(areas.cmdline) < Size - 1
      <4>1. /\ argv[6] = Found("cmdline") /\ (chars = 0 \/ chars = Len(argv[6]) + 1)
            /\ areas \in AreaTexts /\ "cmdline" \in Areas
        BY <1>0, <2>1, <3>2 DEF LineShape, MainLine, Shapes, Areas
      <4>2. Len(argv[6]) < Size - 1 /\ Len(argv[6]) \in Nat
        BY <3>2, <4>1, FoundIs, TextBytes DEF Found
      <4>3. Size > 0
        BY Sizes
      <4>4. QED
        BY <1>0, <4>1, <4>2, <4>3
    <3>3. caller \in {"main", "console"}
      BY <1>0 DEF Shapes
    <3>4. QED
      BY <2>1, <2>3, <3>1, <3>2, <3>3 DEF ShortText
  <2>4. \A j \in 1 .. Len(cmdline) : j # chars + 1 => cmdline'[j] = cmdline[j]
    BY <1>0, <1>4, Ended
  <2>5. \A k \in Size + 2 .. Size + Behind : cmdline'[k] = cmdline[k]
    <3> SUFFICES ASSUME NEW k \in Size + 2 .. Size + Behind PROVE cmdline'[k] = cmdline[k]
      OBVIOUS
    <3>1. k \in 1 .. Len(cmdline) /\ k # chars + 1
      BY <1>0
    <3>2. QED
      BY <2>4, <3>1
  <2>6. /\ Size + 1 \in 1 .. Len(cmdline)
        /\ cmdline'[Size + 1] = 0 \/ cmdline'[Size + 1] = cmdline[Size + 1]
    <3>1. Size + 1 \in 1 .. Len(cmdline)
      BY <1>0
    <3>2. cmdline'[chars + 1] = 0
      BY <1>0, <1>4, Ended
    <3>3. QED
      BY <2>4, <3>1, <3>2
  <2>7. ShortText => cmdline'[Size + 1] = cmdline[Size + 1]
    <3>1. ShortText => Size + 1 # chars + 1
      BY <1>0, <2>3
    <3>2. QED
      BY <2>4, <2>6, <3>1
  <2>8. QED
    BY <2>2, <2>5, <2>6, <2>7 DEF Clean
<1>5. CASE UNCHANGED bootVars
  BY <1>5 DEF bootVars, Clean, ShortText
<1>6. QED
  BY <1>1, <1>2, <1>3, <1>4, <1>5 DEF BootNext

\* Nothing is stored behind __cmdline_str but one NUL, and that only when a
\* patched string fills its area.
THEOREM BufferHeldCorrect == BootSpec => []BufferHeld
<1>1. BootInit => Base /\ Clean
  <2>1. ASSUME BootInit PROVE Clean
    <3>1. cmdline = [k \in 1 .. Size + Behind |-> IF k = 1 THEN 0 ELSE Untouched]
      BY <2>1 DEF BootInit
    <3>2. \A k \in Size + 1 .. Size + Behind : k \in 1 .. Size + Behind /\ k # 1
      BY Sizes
    <3>3. Size + 1 \in Size + 1 .. Size + Behind
      BY Sizes
    <3>4. \A k \in Size + 1 .. Size + Behind : cmdline[k] = Untouched
      BY <3>1, <3>2
    <3>5. \A k \in Size + 2 .. Size + Behind : k \in Size + 1 .. Size + Behind
      BY Sizes
    <3>6. QED
      BY <3>3, <3>4, <3>5 DEF Clean
  <2>2. QED
    BY <2>1, BaseInit
<1>2. Base /\ Clean /\ [BootNext]_bootVars => (Base /\ Clean)'
  BY BaseNext, CleanNext
<1>3. ASSUME Base, Clean PROVE BufferHeld
  <2>1. caller \in {"main", "console"} /\ areas \in AreaTexts /\ Size \in Nat
    BY <1>3, Sizes DEF Base, Shapes
  <2>2. Len(areas.cmdline) \in Nat /\ Len(areas.cmdline) < Size
    BY <2>1 DEF AreaTexts, Areas, Texts
  <2>3. cmdline[Size + 1] # Untouched
        => cmdline[Size + 1] = 0 /\ caller = "main" /\ ~(Len(areas.cmdline) < Size - 1)
    BY <1>3, <2>1 DEF Clean, ShortText
  <2>4. ~(Len(areas.cmdline) < Size - 1) => Len(areas.cmdline) = Size - 1
    BY <2>1, <2>2
  <2>5. QED
    BY <1>3, <2>3, <2>4 DEF Clean, BufferHeld
<1>4. QED
  BY <1>1, <1>2, <1>3, PTL DEF BootSpec

-----------------------------------------------------------------------------
(* What has been read of a line whose options are complete.                *)

Latest(o, k) == argv[k] = o /\ \A j \in k + 1 .. i - 1 : argv[j] # o
None(o) == \A j \in 1 .. i - 1 : argv[j] # o

NumberSoFar(o) ==
    \/ None(o) /\ params[Numeric[o]] = before.params[Numeric[o]]
    \/ \E k \in 1 .. i - 1 : Latest(o, k) /\ params[Numeric[o]] = Strtoul(argv[k + 1])

\* The words from one place to another as a command line.
TextOf(from, n) ==
    LET text == Joined(argv, from, n)
    IN  IF n = argc THEN SubSeq(text, 1, Len(text) - 1) ELSE text

WordsSince(from, n) == \A j \in from .. n - 1 : ~BeginsWithDash(argv[j])
StopsAt(n) == n = argc \/ (n < argc /\ BeginsWithDash(argv[n]))

InBuffer(t) == chars = Len(t) /\ \A j \in 1 .. Len(t) : cmdline[j] = t[j]

TextBefore == None(DashC) /\ StringAt(cmdline, 0) = before.cmdline
TextRead ==
    \E k \in 1 .. i - 1 :
       /\ Latest(DashC, k)
       /\ \E n \in k + 1 .. i : /\ WordsSince(k + 1, n) /\ StopsAt(n)
                                /\ StringAt(cmdline, 0) = TextOf(k + 1, n)
TextBeingRead ==
    \E k \in 1 .. i - 1 :
       /\ Latest(DashC, k) /\ k + 1 < argc
       /\ WordsSince(k + 1, i) /\ InBuffer(TextOf(k + 1, i))

TextSoFar ==
    \/ phase = "options" /\ (TextBefore \/ TextRead)
    \/ phase = "words" /\ TextBeingRead

SoFar ==
    phase \in {"options", "words"} /\ WellFormed =>
        /\ i <= argc
        /\ \A o \in {DashM, DashA, DashK} : NumberSoFar(o)
        /\ TextSoFar

LEMMA HeldWellFormed == ASSUME Held PROVE WellFormed' <=> WellFormed
  BY DEF Held, WellFormed

LEMMA WordIsNoOption ==
  ASSUME NEW w, ~BeginsWithDash(w) PROVE w \notin Options
  BY OptionsDash DEF BeginsWithDash, Options

LEMMA Wider ==
  ASSUME NEW b \in Nat, NEW c \in Nat, b <= c, NEW k \in 1 .. b - 1
  PROVE  k \in 1 .. c - 1 /\ k + 1 .. b \subseteq k + 1 .. c
  OBVIOUS

\* The places that a step passes are not this option.
Passes(o) == i \in Nat /\ i' \in Nat /\ i <= i' /\ \A j \in i .. i' - 1 : argv[j] # o

LEMMA PassedIs ==
  ASSUME NEW o, Passes(o), NEW a \in Nat, \A j \in a .. i - 1 : argv[j] # o
  PROVE  \A j \in a .. i' - 1 : argv[j] # o
<1> SUFFICES ASSUME NEW j \in a .. i' - 1 PROVE argv[j] # o
  OBVIOUS
<1>1. PICK m \in Nat, n \in Nat : m = i /\ n = i'
  BY DEF Passes
<1>2. j \in a .. i - 1 \/ j \in i .. i' - 1
  <2>1. j \in a .. n - 1
    BY <1>1
  <2>2. j \in a .. m - 1 \/ j \in m .. n - 1
    BY <2>1
  <2>3. QED
    BY <1>1, <2>2
<1>3. QED
  BY <1>2 DEF Passes

\* A parameter keeps its value when the option does not come up.
LEMMA NumberKept ==
  ASSUME NEW o, NumberSoFar(o), argv' = argv, before' = before,
         params'[Numeric[o]] = params[Numeric[o]],
         Passes(o)
  PROVE  NumberSoFar(o)'
<1>1. i \in Nat /\ i' \in Nat /\ i <= i'
  BY DEF Passes
<1>2. CASE None(o) /\ params[Numeric[o]] = before.params[Numeric[o]]
  <2>1. \A j \in 1 .. i' - 1 : argv'[j] # o
    BY <1>2, PassedIs DEF None
  <2>2. QED
    BY <1>2, <2>1 DEF NumberSoFar, None
<1>3. CASE \E k \in 1 .. i - 1 : Latest(o, k) /\ params[Numeric[o]] = Strtoul(argv[k + 1])
  <2>1. PICK k \in 1 .. i - 1 : Latest(o, k) /\ params[Numeric[o]] = Strtoul(argv[k + 1])
    BY <1>3
  <2>2. k \in 1 .. i' - 1
    BY <1>1, Wider
  <2>3. \A j \in k + 1 .. i' - 1 : argv'[j] # o
    <3>1. PICK a \in Nat : a = k + 1
      OBVIOUS
    <3>2. \A j \in a .. i - 1 : argv[j] # o
      BY <2>1, <3>1 DEF Latest
    <3>3. \A j \in a .. i' - 1 : argv[j] # o
      BY <3>2, PassedIs
    <3>4. QED
      BY <3>1, <3>3
  <2>4. Latest(o, k)'
    BY <2>1, <2>3 DEF Latest
  <2>5. QED
    BY <2>1, <2>2, <2>4 DEF NumberSoFar
<1>4. QED
  BY <1>2, <1>3 DEF NumberSoFar

\* The same for the command line.
LEMMA TextKept ==
  ASSUME TextBefore \/ TextRead, argv' = argv, argc' = argc, before' = before,
         cmdline' = cmdline,
         Passes(DashC)
  PROVE  (TextBefore \/ TextRead)'
<1>1. i \in Nat /\ i' \in Nat /\ i <= i'
  BY DEF Passes
<1>2. CASE TextBefore
  <2>1. \A j \in 1 .. i' - 1 : argv'[j] # DashC
    <3>1. \A j \in 1 .. i - 1 : argv[j] # DashC
      BY <1>2 DEF TextBefore, None
    <3>2. QED
      BY <3>1, PassedIs
  <2>2. QED
    BY <1>2, <2>1 DEF TextBefore, None
<1>3. CASE TextRead
  <2>1. PICK k \in 1 .. i - 1 :
          /\ Latest(DashC, k)
          /\ \E n \in k + 1 .. i : /\ WordsSince(k + 1, n) /\ StopsAt(n)
                                   /\ StringAt(cmdline, 0) = TextOf(k + 1, n)
    BY <1>3 DEF TextRead
  <2>2. PICK n \in k + 1 .. i : /\ WordsSince(k + 1, n) /\ StopsAt(n)
                                /\ StringAt(cmdline, 0) = TextOf(k + 1, n)
    BY <2>1
  <2>3. k \in 1 .. i' - 1 /\ n \in k + 1 .. i'
    BY <1>1, Wider
  <2>4. \A j \in k + 1 .. i' - 1 : argv'[j] # DashC
    <3>1. PICK a \in Nat : a = k + 1
      OBVIOUS
    <3>2. \A j \in a .. i - 1 : argv[j] # DashC
      BY <2>1, <3>1 DEF Latest
    <3>3. \A j \in a .. i' - 1 : argv[j] # DashC
      BY <3>2, PassedIs
    <3>4. QED
      BY <3>1, <3>3
  <2>5. Latest(DashC, k)'
    BY <2>1, <2>4 DEF Latest
  <2>6. WordsSince(k + 1, n)' /\ StopsAt(n)'
    BY <2>2 DEF WordsSince, StopsAt
  <2>7. StringAt(cmdline, 0)' = TextOf(k + 1, n)'
    BY <2>2 DEF TextOf
  <2>8. QED
    BY <2>3, <2>5, <2>6, <2>7 DEF TextRead
<1>4. QED
  BY <1>2, <1>3

\* Words with a blank behind each are a text.
LEMMA JoinedType ==
  ASSUME NEW w \in [0 .. Slots -> Texts], NEW k \in Nat, NEW n \in Nat, k <= n, n <= Slots + 1
  PROVE  Joined(w, k, n) \in Texts
<1> DEFINE Good == {m \in Nat : k + m <= Slots + 1 => Joined(w, k, k + m) \in Texts}
<1>1. 0 \in Good
  <2>1. k + 0 = k /\ Joined(w, k, k) = <<>> /\ <<>> \in Texts
    BY JoinedNone DEF Texts
  <2>2. QED
    BY <2>1
<1>2. ASSUME NEW m \in Nat, m \in Good PROVE m + 1 \in Good
  <2> SUFFICES ASSUME k + (m + 1) <= Slots + 1 PROVE Joined(w, k, k + (m + 1)) \in Texts
    OBVIOUS
  <2>1. PICK e \in Nat : e = k + m /\ e + 1 = k + (m + 1)
    <3>1. k + m \in Nat /\ (k + m) + 1 = k + (m + 1)
      OBVIOUS
    <3>2. QED
      BY <3>1
  <2>2. e \in 0 .. Slots /\ k <= e /\ k + m <= Slots + 1
    BY <2>1, Sizes
  <2>3. Joined(w, k, e + 1) = Joined(w, k, e) \o w[e] \o <<Blank>>
    BY <2>1, <2>2, JoinedMore
  <2>4. Joined(w, k, e) \in Texts
    BY <1>2, <2>1, <2>2
  <2>5. <<Blank>> \in Seq(1 .. 255) /\ w[e] \in Texts
    BY <2>2 DEF Blank
  <2>6. PICK C : C = 1 .. 255 /\ Texts = Seq(C)
    BY DEF Texts
  <2>7. PICK x \in Seq(C), y \in Seq(C), z \in Seq(C) :
          x = Joined(w, k, e) /\ y = w[e] /\ z = <<Blank>>
    BY <2>4, <2>5, <2>6, Zenon
  <2>8. x \o y \in Seq(C)
    OBVIOUS
  <2>9. PICK v \in Seq(C) : v = x \o y
    BY <2>8, Zenon
  <2>10. v \o z \in Seq(C)
    OBVIOUS
  <2>11. QED
    BY <2>1, <2>3, <2>6, <2>7, <2>9, <2>10, Zenon
<1>3. PICK m \in Nat : n = k + m
  <2>1. n - k \in Nat /\ n = k + (n - k)
    OBVIOUS
  <2>2. QED
    BY <2>1
<1>4. m \in Good
  <2> HIDE DEF Good
  <2>1. QED
    BY <1>1, <1>2, Induction
<1>5. QED
  BY <1>3, <1>4

LEMMA TextOfMore ==
  ASSUME Shapes, NEW k \in Nat, k <= i, i < argc,
         NEW J, J = Joined(argv, k, i)
  PROVE  /\ J \in Texts /\ argv[i] \in Texts
         /\ Joined(argv, k, i + 1) = J \o argv[i] \o <<Blank>>
<1>1. argv \in [0 .. Slots -> Texts] /\ i \in Nat /\ i \in 0 .. Slots /\ i <= Slots + 1
  BY Sizes DEF Shapes
<1>2. J \in Texts
  BY <1>1, JoinedType
<1>3. Joined(argv, k, i + 1) = Joined(argv, k, i) \o argv[i] \o <<Blank>>
  BY <1>1, JoinedMore
<1>4. QED
  BY <1>1, <1>2, <1>3

\* A text and a word, and a blank behind them.
LEMMA TextAndWord ==
  ASSUME NEW J \in Texts, NEW w \in Texts
  PROVE  /\ J \o w \o <<Blank>> \in Seq(Bytes)
         /\ Len(J \o w \o <<Blank>>) = Len(J) + Len(w) + 1
         /\ \A j \in 1 .. Len(J) : (J \o w \o <<Blank>>)[j] = J[j]
         /\ \A j \in 1 .. Len(w) : (J \o w \o <<Blank>>)[Len(J) + j] = w[j]
         /\ (J \o w \o <<Blank>>)[Len(J) + Len(w) + 1] = Blank
<1>1. J \in Seq(Bytes) /\ w \in Seq(Bytes)
  BY TextBytes
<1>2. PICK m \in Nat, n \in Nat : m = Len(J) /\ n = Len(w)
  BY TextBytes
<1>3. PICK z \in Seq(Bytes) : z = <<Blank>> /\ Len(z) = 1 /\ z[1] = Blank
  <2>1. Blank \in Bytes
    BY DEF Blank, Bytes
  <2>2. <<Blank>> \in Seq(Bytes) /\ Len(<<Blank>>) = 1 /\ <<Blank>>[1] = Blank
    BY <2>1, ByteBytes
  <2>3. QED
    BY <2>2
<1>4. PICK p \in Seq(Bytes) : /\ p = J \o w /\ Len(p) = m + n
                              /\ \A j \in 1 .. m : p[j] = J[j]
                              /\ \A j \in 1 .. n : p[m + j] = w[j]
  <2>1. /\ J \o w \in Seq(Bytes) /\ Len(J \o w) = Len(J) + Len(w)
        /\ \A j \in 1 .. Len(J) : (J \o w)[j] = J[j]
        /\ \A j \in 1 .. Len(w) : (J \o w)[Len(J) + j] = w[j]
    BY <1>1, JointBytes
  <2>2. /\ Len(J \o w) = m + n
        /\ \A j \in 1 .. m : (J \o w)[j] = J[j]
        /\ \A j \in 1 .. n : (J \o w)[m + j] = w[j]
    BY <1>2, <2>1
  <2>3. QED
    BY <2>1, <2>2
<1>5. PICK q \in Seq(Bytes) : /\ q = p \o z /\ Len(q) = m + n + 1
                              /\ \A j \in 1 .. m + n : q[j] = p[j]
                              /\ q[m + n + 1] = Blank
  <2>1. /\ p \o z \in Seq(Bytes) /\ Len(p \o z) = Len(p) + Len(z)
        /\ \A j \in 1 .. Len(p) : (p \o z)[j] = p[j]
        /\ \A j \in 1 .. Len(z) : (p \o z)[Len(p) + j] = z[j]
    BY JointBytes
  <2>2. Len(p) = m + n /\ Len(z) = 1 /\ 1 \in 1 .. Len(z)
    BY <1>3, <1>4
  <2>3. (p \o z)[m + n + 1] = Blank /\ Len(p \o z) = m + n + 1
    BY <1>3, <2>1, <2>2
  <2>4. \A j \in 1 .. m + n : (p \o z)[j] = p[j]
    BY <2>1, <2>2
  <2>5. QED
    BY <2>1, <2>3, <2>4
<1>6. \A j \in 1 .. m : j \in 1 .. m + n
  OBVIOUS
<1>7. \A j \in 1 .. n : m + j \in 1 .. m + n
  OBVIOUS
<1>8. /\ \A j \in 1 .. m : q[j] = J[j]
      /\ \A j \in 1 .. n : q[m + j] = w[j]
  BY <1>4, <1>5, <1>6, <1>7
<1>9. q = J \o w \o <<Blank>>
  BY <1>3, <1>4, <1>5
<1>10. QED
  BY <1>2, <1>5, <1>8, <1>9

\* The word that is copied makes the text longer by a word.
LEMMA TextAppended ==
  ASSUME Base, AppendWord, TextBeingRead
  PROVE  TextBeingRead'
<1>0. /\ phase = "words" /\ i < argc /\ At(argv[i], 0) # 45 /\ Shapes /\ LineShape
      /\ argv' = argv /\ argc' = argc
  BY DEF AppendWord, Base
<1>1. PICK k \in 1 .. i - 1 :
       /\ Latest(DashC, k) /\ k + 1 < argc
       /\ WordsSince(k + 1, i) /\ InBuffer(TextOf(k + 1, i))
  BY DEF TextBeingRead
<1>2. PICK e, a : /\ e = k + 1 /\ e \in Nat /\ e <= i /\ a = argc /\ a \in Nat
                  /\ i \in Nat /\ k \in Nat /\ chars \in Nat
                  /\ Len(cmdline) = Size + Behind /\ Size \in Nat /\ Behind \in Nat
  BY <1>0, Sizes DEF Shapes
<1>3. PICK J : J = Joined(argv, e, i)
  OBVIOUS
<1>4. PICK w : w = argv[i]
  OBVIOUS
<1>5. J \in Texts /\ w \in Texts /\ Joined(argv, e, i + 1) = J \o w \o <<Blank>>
  BY <1>0, <1>2, <1>3, <1>4, TextOfMore
<1>6. PICK m \in Nat, n \in Nat : m = Len(J) /\ n = Len(w)
  BY <1>5, TextBytes
<1>7. PICK q : /\ q = J \o w \o <<Blank>> /\ q \in Seq(Bytes) /\ Len(q) = m + n + 1
               /\ \A j \in 1 .. m : q[j] = J[j]
               /\ \A j \in 1 .. n : q[m + j] = w[j]
               /\ q[m + n + 1] = Blank
  <2>1. /\ J \o w \o <<Blank>> \in Seq(Bytes)
        /\ Len(J \o w \o <<Blank>>) = Len(J) + Len(w) + 1
        /\ \A j \in 1 .. Len(J) : (J \o w \o <<Blank>>)[j] = J[j]
        /\ \A j \in 1 .. Len(w) : (J \o w \o <<Blank>>)[Len(J) + j] = w[j]
        /\ (J \o w \o <<Blank>>)[Len(J) + Len(w) + 1] = Blank
    BY <1>5, TextAndWord
  <2>2. PICK q : q = J \o w \o <<Blank>>
    OBVIOUS
  <2>3. /\ q \in Seq(Bytes) /\ Len(q) = m + n + 1
        /\ \A j \in 1 .. m : q[j] = J[j]
        /\ \A j \in 1 .. n : q[m + j] = w[j]
        /\ q[m + n + 1] = Blank
    BY <1>6, <2>1, <2>2
  <2>4. QED
    BY <2>2, <2>3
<1>8. chars = m /\ \A j \in 1 .. m : cmdline[j] = J[j]
  <2>1. TextOf(e, i) = J
    BY <1>0, <1>2, <1>3 DEF TextOf
  <2>2. InBuffer(J)
    BY <1>1, <1>2, <2>1
  <2>3. QED
    BY <1>6, <2>2 DEF InBuffer
<1>9. /\ i' = i + 1
      /\ chars' = chars + Len(argv[i]) + (IF i + 1 >= argc THEN 0 ELSE 1)
      /\ \A j \in 1 .. Len(cmdline) :
           j <= chars \/ j > chars + Len(argv[i]) + 1 => cmdline'[j] = cmdline[j]
      /\ \A j \in 1 .. Len(argv[i]) : cmdline'[chars + j] = argv[i][j]
      /\ i + 1 < argc => cmdline'[chars + Len(argv[i]) + 1] = Blank
  BY <1>0, Appended
<1>10. chars + Len(argv[i]) + 1 <= Size
  BY <1>0, RoomForWord
<1>11. PICK g : /\ g = cmdline'
                /\ \A j \in 1 .. m : g[j] = J[j]
                /\ \A j \in 1 .. n : g[m + j] = w[j]
                /\ i + 1 < a => g[m + n + 1] = Blank
  <2>1. \A j \in 1 .. m : cmdline'[j] = J[j]
    <3>1. \A j \in 1 .. m : j \in 1 .. Len(cmdline) /\ j <= chars
      <4>1. m <= Len(cmdline)
        BY <1>2, <1>4, <1>6, <1>8, <1>10
      <4>2. QED
        BY <1>2, <1>8, <4>1
    <3>2. \A j \in 1 .. m : cmdline'[j] = cmdline[j]
      BY <1>9, <3>1
    <3>3. QED
      BY <1>8, <3>2
  <2>2. \A j \in 1 .. n : cmdline'[m + j] = w[j]
    BY <1>4, <1>6, <1>8, <1>9
  <2>3. i + 1 < a => cmdline'[m + n + 1] = Blank
    BY <1>2, <1>4, <1>6, <1>8, <1>9
  <2>4. PICK g : g = cmdline'
    OBVIOUS
  <2>5. QED
    BY <2>1, <2>2, <2>3, <2>4
<1>12. PICK c : c = chars' /\ c = m + n + (IF i + 1 >= a THEN 0 ELSE 1)
  BY <1>2, <1>4, <1>6, <1>8, <1>9
<1>13. \A j \in 1 .. m + n : g[j] = q[j]
  <2> SUFFICES ASSUME NEW j \in 1 .. m + n PROVE g[j] = q[j]
    OBVIOUS
  <2>1. CASE j <= m
    BY <1>7, <1>11, <2>1
  <2>2. CASE ~(j <= m)
    <3>1. PICK d \in 1 .. n : j = m + d
      <4>1. j - m \in 1 .. n /\ j = m + (j - m)
        BY <2>2
      <4>2. QED
        BY <4>1
    <3>2. g[m + d] = w[d] /\ q[m + d] = w[d]
      BY <1>7, <1>11
    <3>3. QED
      BY <3>1, <3>2
  <2>3. QED
    BY <2>1, <2>2
<1>14. PICK t : /\ t = (IF i + 1 = a THEN SubSeq(q, 1, Len(q) - 1) ELSE q)
                /\ Len(t) = c /\ \A j \in 1 .. c : g[j] = t[j]
  <2>1. CASE i + 1 = a
    <3>1. PICK r \in Nat : r = m + n /\ Len(q) = r + 1 /\ c = r /\ (r + 1) - 1 = r
      <4>1. m + n \in Nat /\ (m + n) + 1 = m + n + 1 /\ c = m + n /\ ((m + n) + 1) - 1 = m + n
        BY <1>2, <1>12, <2>1
      <4>2. QED
        BY <1>7, <4>1
    <3>2. /\ SubSeq(q, 0 + 1, r) \in Seq(Bytes)
          /\ Len(SubSeq(q, 0 + 1, r)) = IF 0 <= r THEN r - 0 ELSE 0
          /\ 0 <= r => \A j \in 1 .. r - 0 : SubSeq(q, 0 + 1, r)[j] = q[0 + j]
      <4>1. q \in Seq(Bytes) /\ 0 \in Nat /\ r <= Len(q)
        BY <1>7, <3>1
      <4>2. QED
        BY <4>1, Piece
    <3>3. 0 + 1 = 1 /\ 0 <= r /\ r - 0 = r /\ \A j \in 1 .. r : 0 + j = j
      BY <3>1
    <3>4. PICK t : t = SubSeq(q, 1, r)
      OBVIOUS
    <3>5. Len(t) = r /\ \A j \in 1 .. r : t[j] = q[j]
      BY <3>2, <3>3, <3>4
    <3>6. t = SubSeq(q, 1, Len(q) - 1)
      BY <3>1, <3>4
    <3>7. \A j \in 1 .. c : g[j] = t[j]
      BY <1>13, <3>1, <3>5
    <3>8. QED
      BY <2>1, <3>1, <3>5, <3>6, <3>7
  <2>2. CASE i + 1 # a
    <3>1. i + 1 < a
      BY <1>0, <1>2, <2>2
    <3>2. c = m + n + 1 /\ Len(q) = c
      BY <1>2, <1>7, <1>12, <3>1
    <3>3. g[m + n + 1] = q[m + n + 1]
      BY <1>7, <1>11, <3>1
    <3>4. \A j \in 1 .. c : j \in 1 .. m + n \/ j = m + n + 1
      BY <3>2
    <3>5. \A j \in 1 .. c : g[j] = q[j]
      BY <1>13, <3>3, <3>4
    <3>6. QED
      BY <2>2, <3>2, <3>5
  <2>3. QED
    BY <2>1, <2>2
<1>15. InBuffer(TextOf(e, i))'
  <2>1. TextOf(e, i)' = t
    <3>1. Joined(argv', e, i') = q
      BY <1>0, <1>5, <1>7, <1>9
    <3>2. TextOf(e, i)' = (IF i + 1 = a THEN SubSeq(q, 1, Len(q) - 1) ELSE q)
      BY <1>0, <1>2, <1>9, <3>1 DEF TextOf
    <3>3. QED
      BY <1>14, <3>2
  <2>2. chars' = Len(t) /\ \A j \in 1 .. Len(t) : cmdline'[j] = t[j]
    BY <1>11, <1>12, <1>14
  <2>3. QED
    BY <2>1, <2>2 DEF InBuffer
<1>16. ~BeginsWithDash(argv[i])
  BY <1>0 DEF BeginsWithDash
<1>17. Passes(DashC)
  <2>1. argv[i] # DashC
    BY <1>16, WordIsNoOption DEF Options
  <2>2. i' \in Nat /\ i <= i' /\ \A j \in i .. i' - 1 : j = i
    BY <1>2, <1>9
  <2>3. QED
    BY <1>2, <2>1, <2>2 DEF Passes
<1>18. Latest(DashC, k)'
  <2>1. \A j \in e .. i - 1 : argv[j] # DashC
    BY <1>1, <1>2 DEF Latest
  <2>2. \A j \in e .. i' - 1 : argv[j] # DashC
    BY <1>2, <1>17, <2>1, PassedIs
  <2>3. QED
    BY <1>0, <1>1, <1>2, <2>2 DEF Latest
<1>19. WordsSince(e, i)'
  <2>1. \A j \in e .. i' - 1 : j \in e .. i - 1 \/ j = i
    BY <1>2, <1>9
  <2>2. \A j \in e .. i - 1 : ~BeginsWithDash(argv[j])
    BY <1>1, <1>2 DEF WordsSince
  <2>3. QED
    BY <1>0, <1>16, <2>1, <2>2 DEF WordsSince
<1>20. k \in 1 .. i' - 1
  <2>1. i + 1 \in Nat /\ i <= i + 1
    BY <1>2
  <2>2. k \in 1 .. (i + 1) - 1
    BY <1>2, <2>1, Wider
  <2>3. QED
    BY <1>9, <2>2
<1>21. k + 1 < argc'
  BY <1>0, <1>1
<1>22. QED
  BY <1>2, <1>15, <1>18, <1>19, <1>20, <1>21 DEF TextBeingRead

\* The line begins: nothing has come up, and all is as it was.
LEMMA SoFarBegin ==
  ASSUME Base', NEW line, Begin(line) PROVE SoFar'
<1>1. /\ phase' = "options" /\ i' = 1 /\ params' = params /\ cmdline' = cmdline
      /\ before' = [params |-> params, cmdline |-> StringAt(cmdline, 0)]
  BY DEF Begin
<1>2. argc' >= 2 /\ argc' \in Nat
  BY <1>1 DEF Base, Shapes, LineShape
<1>3. \A j \in 1 .. i' - 1 : FALSE
  BY <1>1
<1>4. \A o : None(o)'
  BY <1>3 DEF None
<1>5. before'.params = params' /\ before'.cmdline = StringAt(cmdline', 0)
  BY <1>1
<1>6. \A o \in {DashM, DashA, DashK} : NumberSoFar(o)'
  BY <1>4, <1>5 DEF NumberSoFar
<1>7. TextSoFar'
  <2>1. TextBefore'
    BY <1>4, <1>5 DEF TextBefore
  <2>2. QED
    BY <1>1, <2>1 DEF TextSoFar
<1>8. i' <= argc'
  BY <1>1, <1>2
<1>9. QED
  BY <1>6, <1>7, <1>8 DEF SoFar

LEMMA SoFarTakeNumber ==
  ASSUME Base, SoFar, TakeNumber PROVE SoFar'
<1>1. /\ phase = "options" /\ phase' = "options" /\ i < argc /\ i + 1 < argc /\ i' = i + 2
      /\ argv[i] \in {DashM, DashA, DashK} /\ cmdline' = cmdline /\ before' = before
      /\ params' = [params EXCEPT ![Numeric[argv[i]]] = Strtoul(argv[i + 1])] /\ Held
      /\ argv' = argv /\ argc' = argc
  BY NumericIs DEF TakeNumber, InOptions, Held
<1> SUFFICES ASSUME WellFormed
             PROVE  /\ i' <= argc'
                    /\ \A o \in {DashM, DashA, DashK} : NumberSoFar(o)'
                    /\ TextSoFar'
  BY <1>1, HeldWellFormed DEF SoFar
<1>2. /\ \A o \in {DashM, DashA, DashK} : NumberSoFar(o)
      /\ TextBefore \/ TextRead
  BY <1>1 DEF SoFar, TextSoFar
<1>3. i \in Nat /\ argc \in Nat /\ i >= 1 /\ DOMAIN params = Parameters
  BY <1>1 DEF Base, Shapes, LineShape
<1>4. ~BeginsWithDash(argv[i + 1])
  <2>1. i \in 1 .. argc - 1
    BY <1>1, <1>3
  <2>2. QED
    BY <1>1, <2>1 DEF WellFormed
<1>5. ASSUME NEW o \in Options, argv[i] # o PROVE Passes(o)
  <2>1. argv[i + 1] # o
    BY <1>4, WordIsNoOption
  <2>2. PICK n \in Nat : n = i' /\ i <= n /\ \A j \in i .. n - 1 : j = i \/ j = i + 1
    <3>1. i + 2 \in Nat /\ i <= i + 2 /\ \A j \in i .. (i + 2) - 1 : j = i \/ j = i + 1
      BY <1>3
    <3>2. QED
      BY <1>1, <3>1
  <2>3. QED
    BY <1>3, <1>5, <2>1, <2>2 DEF Passes
<1>6. ASSUME NEW o \in {DashM, DashA, DashK} PROVE NumberSoFar(o)'
  <2>1. CASE argv[i] = o
    <3>1. Numeric[o] \in DOMAIN params
      BY <1>3, NumericIs DEF Parameters
    <3>2. params'[Numeric[o]] = Strtoul(argv'[i + 1])
      BY <1>1, <2>1, <3>1
    <3>3. argv'[i + 1] # o
      BY <1>1, <1>4, WordIsNoOption DEF Options
    <3>4. PICK n \in Nat : n = i' /\ i \in 1 .. n - 1 /\ \A j \in i + 1 .. n - 1 : j = i + 1
      <4>1. i + 2 \in Nat /\ i \in 1 .. (i + 2) - 1 /\ \A j \in i + 1 .. (i + 2) - 1 : j = i + 1
        BY <1>3
      <4>2. QED
        BY <1>1, <4>1
    <3>5. PICK k : k = i
      OBVIOUS
    <3>6. Latest(o, k)'
      BY <1>1, <2>1, <3>3, <3>4, <3>5 DEF Latest
    <3>7. QED
      BY <3>2, <3>4, <3>5, <3>6 DEF NumberSoFar
  <2>2. CASE argv[i] # o
    <3>1. Numeric[o] # Numeric[argv[i]]
      BY <1>1, <2>2, NumericIs
    <3>2. params'[Numeric[o]] = params[Numeric[o]]
      <4>1. Numeric[o] \in DOMAIN params
        BY <1>3, NumericIs DEF Parameters
      <4>2. QED
        BY <1>1, <3>1, <4>1
    <3>3. Passes(o)
      BY <1>5, <2>2 DEF Options
    <3>4. QED
      BY <1>1, <1>2, <3>2, <3>3, NumberKept
  <2>3. QED
    BY <2>1, <2>2
<1>7. TextSoFar'
  <2>1. Passes(DashC)
    BY <1>1, <1>5, OptionsApart DEF Options
  <2>2. (TextBefore \/ TextRead)'
    BY <1>1, <1>2, <2>1, TextKept
  <2>3. QED
    BY <1>1, <2>2 DEF TextSoFar
<1>8. i' <= argc'
  BY <1>1, <1>3
<1>9. QED
  BY <1>6, <1>7, <1>8

LEMMA SoFarTakeCmdline ==
  ASSUME Base, SoFar, TakeCmdline PROVE SoFar'
<1>1. /\ phase = "options" /\ phase' = "words" /\ i < argc /\ i + 1 < argc /\ i' = i + 1
      /\ argv[i] = DashC /\ before' = before /\ params' = params /\ chars' = 0 /\ Held
      /\ argv' = argv /\ argc' = argc /\ cmdline' = cmdline
  BY DEF TakeCmdline, InOptions, FirstWord, FirstChar, Held
<1> SUFFICES ASSUME WellFormed
             PROVE  /\ i' <= argc'
                    /\ \A o \in {DashM, DashA, DashK} : NumberSoFar(o)'
                    /\ TextSoFar'
  BY <1>1, HeldWellFormed DEF SoFar
<1>2. \A o \in {DashM, DashA, DashK} : NumberSoFar(o)
  BY <1>1 DEF SoFar
<1>3. i \in Nat /\ argc \in Nat /\ i >= 1
  BY <1>1 DEF Base, Shapes, LineShape
<1>4. PICK n \in Nat : n = i' /\ n = i + 1 /\ i <= n /\ i \in 1 .. n - 1
                       /\ \A j \in i .. n - 1 : j = i
  <2>1. i + 1 \in Nat /\ i <= i + 1 /\ i \in 1 .. (i + 1) - 1 /\ \A j \in i .. (i + 1) - 1 : j = i
    BY <1>3
  <2>2. QED
    BY <1>1, <2>1
<1>5. ASSUME NEW o \in {DashM, DashA, DashK} PROVE NumberSoFar(o)'
  <2>1. o # DashC
    BY OptionsApart
  <2>2. Passes(o)
    BY <1>1, <1>3, <1>4, <2>1 DEF Passes
  <2>3. QED
    BY <1>1, <1>2, <2>2, NumberKept
<1>6. TextBeingRead'
  <2>1. PICK k \in Nat : k = i /\ k \in 1 .. n - 1 /\ n = k + 1 /\ k + 1 < argc
    BY <1>1, <1>3, <1>4
  <2>2. \A j \in k + 1 .. n - 1 : FALSE
    BY <2>1
  <2>3. Latest(DashC, k)'
    BY <1>1, <1>4, <2>1, <2>2 DEF Latest
  <2>4. WordsSince(k + 1, i)'
    BY <1>1, <1>4, <2>1, <2>2 DEF WordsSince
  <2>5. TextOf(k + 1, i)' = <<>>
    <3>1. k + 1 \in Nat /\ argv' \in [0 .. Slots -> Texts]
      BY <1>1, <2>1 DEF Base, Shapes
    <3>2. PICK e \in Nat : e = k + 1
      BY <3>1
    <3>3. Joined(argv', e, e) = <<>>
      BY <3>1, <3>2, JoinedNone
    <3>4. i' = e /\ e # argc'
      BY <1>1, <1>3, <1>4, <2>1, <3>2
    <3>5. QED
      BY <3>2, <3>3, <3>4 DEF TextOf
  <2>6. InBuffer(TextOf(k + 1, i))'
    <3>1. Len(<<>>) = 0 /\ \A j \in 1 .. 0 : FALSE
      OBVIOUS
    <3>2. QED
      BY <1>1, <2>5, <3>1 DEF InBuffer
  <2>7. k \in 1 .. i' - 1 /\ k + 1 < argc'
    BY <1>1, <1>4, <2>1
  <2>8. QED
    BY <2>3, <2>4, <2>6, <2>7 DEF TextBeingRead
<1>7. TextSoFar'
  BY <1>1, <1>6 DEF TextSoFar
<1>8. i' <= argc'
  BY <1>1, <1>3
<1>9. QED
  BY <1>5, <1>7, <1>8

LEMMA SoFarAppendWord ==
  ASSUME Base, SoFar, AppendWord PROVE SoFar'
<1>1. /\ phase = "words" /\ phase' = "words" /\ i < argc /\ At(argv[i], 0) # 45
      /\ before' = before /\ params' = params /\ Held /\ argv' = argv /\ argc' = argc
      /\ i' = i + 1
  BY DEF AppendWord, Held
<1> SUFFICES ASSUME WellFormed
             PROVE  /\ i' <= argc'
                    /\ \A o \in {DashM, DashA, DashK} : NumberSoFar(o)'
                    /\ TextSoFar'
  BY <1>1, HeldWellFormed DEF SoFar
<1>2. (\A o \in {DashM, DashA, DashK} : NumberSoFar(o)) /\ TextBeingRead
  BY <1>1 DEF SoFar, TextSoFar
<1>3. i \in Nat /\ argc \in Nat
  BY DEF Base, Shapes
<1>4. PICK n \in Nat : n = i' /\ i <= n /\ \A j \in i .. n - 1 : j = i
  <2>1. i + 1 \in Nat /\ i <= i + 1 /\ \A j \in i .. (i + 1) - 1 : j = i
    BY <1>3
  <2>2. QED
    BY <1>1, <2>1
<1>5. argv[i] \notin Options
  BY <1>1, WordIsNoOption DEF BeginsWithDash
<1>6. ASSUME NEW o \in {DashM, DashA, DashK} PROVE NumberSoFar(o)'
  <2>1. Passes(o)
    BY <1>3, <1>4, <1>5 DEF Passes, Options
  <2>2. QED
    BY <1>1, <1>2, <2>1, NumberKept
<1>7. TextSoFar'
  BY <1>1, <1>2, TextAppended DEF TextSoFar
<1>8. i' <= argc'
  BY <1>1, <1>3
<1>9. QED
  BY <1>6, <1>7, <1>8

LEMMA WithoutLast ==
  ASSUME NEW J \in Texts PROVE SubSeq(J, 1, Len(J) - 1) \in Texts
<1>1. J \in Seq(Bytes) /\ Len(J) \in Nat /\ \A j \in 1 .. Len(J) : J[j] \in 1 .. 255
  BY TextBytes
<1>2. CASE Len(J) = 0
  <2>1. SubSeq(J, 1, Len(J) - 1) = <<>> /\ <<>> \in Texts
    BY <1>1, <1>2 DEF Texts
  <2>2. QED
    BY <2>1
<1>3. CASE Len(J) # 0
  <2>1. PICK a \in Nat, b \in Nat : a = 0 /\ b = Len(J) - 1 /\ b <= Len(J) /\ a <= b
    <3>1. Len(J) - 1 \in Nat /\ Len(J) - 1 <= Len(J) /\ 0 <= Len(J) - 1
      BY <1>1, <1>3
    <3>2. QED
      BY <3>1
  <2>2. PICK r : r = SubSeq(J, a + 1, b)
    OBVIOUS
  <2>3. r \in Seq(Bytes) /\ Len(r) = b - a /\ \A j \in 1 .. b - a : r[j] = J[a + j]
    BY <1>1, <2>1, <2>2, Piece
  <2>4. \A j \in 1 .. Len(r) : r[j] \in 1 .. 255
    <3>1. \A j \in 1 .. Len(r) : j \in 1 .. b - a /\ a + j \in 1 .. Len(J)
      BY <1>1, <2>1, <2>3
    <3>2. \A j \in 1 .. Len(r) : r[j] = J[a + j]
      BY <2>3, <3>1, Zenon
    <3>3. QED
      BY <1>1, <3>1, <3>2, Zenon
  <2>5. r \in Texts
    BY <2>3, <2>4, CastText
  <2>6. SubSeq(J, 1, Len(J) - 1) = r
    BY <2>1, <2>2
  <2>7. QED
    BY <2>5, <2>6
<1>4. QED
  BY <1>2, <1>3

LEMMA Above ==
  ASSUME NEW n \in Nat, NEW k \in 1 .. n - 1
  PROVE  k \in 1 .. n - 1 /\ n \in k + 1 .. n
  OBVIOUS

LEMMA SoFarEndWords ==
  ASSUME Base, SoFar, EndWords PROVE SoFar'
<1>1. /\ phase = "words" /\ phase' = "options" /\ i' = i
      /\ (i >= argc \/ At(argv[i], 0) = 45 \/ chars = Size)
      /\ before' = before /\ params' = params /\ Held /\ argv' = argv /\ argc' = argc
  BY DEF EndWords, Held
<1> SUFFICES ASSUME WellFormed
             PROVE  /\ i' <= argc'
                    /\ \A o \in {DashM, DashA, DashK} : NumberSoFar(o)'
                    /\ TextSoFar'
  BY <1>1, HeldWellFormed DEF SoFar
<1>2. i <= argc /\ (\A o \in {DashM, DashA, DashK} : NumberSoFar(o)) /\ TextBeingRead
  BY <1>1 DEF SoFar, TextSoFar
<1>3. /\ i \in Nat /\ argc \in Nat /\ Shapes /\ LineShape /\ Size \in Nat /\ Size > 0
      /\ Behind \in Nat /\ Behind > 0 /\ chars \in Nat
      /\ Len(cmdline) = Size + Behind /\ argv \in [0 .. Slots -> Texts]
  BY Sizes DEF Base, Shapes
<1>4. \A o \in {DashM, DashA, DashK} : NumberSoFar(o)'
  <2> SUFFICES ASSUME NEW o \in {DashM, DashA, DashK} PROVE NumberSoFar(o)'
    OBVIOUS
  <2>1. \A j \in i .. i' - 1 : FALSE
    BY <1>1, <1>3
  <2>2. Passes(o)
    BY <1>1, <1>3, <2>1 DEF Passes
  <2>3. QED
    BY <1>1, <1>2, <2>2, NumberKept
<1>5. StopsAt(i)
  <2>1. CASE i >= argc
    BY <1>2, <1>3, <2>1 DEF StopsAt
  <2>2. CASE i < argc /\ At(argv[i], 0) = 45
    BY <2>2 DEF StopsAt, BeginsWithDash
  <2>3. CASE i < argc /\ At(argv[i], 0) # 45
    <3>1. chars + Len(argv[i]) + 1 <= Size /\ Len(argv[i]) \in Nat
      BY <1>1, <1>3, <2>3, RoomForWord
    <3>2. chars # Size
      BY <1>3, <3>1
    <3>3. QED
      BY <1>1, <1>3, <2>3, <3>2
  <2>4. QED
    BY <1>3, <2>1, <2>2, <2>3
<1>6. PICK k \in 1 .. i - 1 :
       /\ Latest(DashC, k) /\ k + 1 < argc
       /\ WordsSince(k + 1, i) /\ InBuffer(TextOf(k + 1, i))
  BY <1>2 DEF TextBeingRead
<1>7. PICK t : t = TextOf(k + 1, i) /\ chars = Len(t) /\ \A j \in 1 .. Len(t) : cmdline[j] = t[j]
  BY <1>6 DEF InBuffer
<1>8. t \in Texts
  <2>1. PICK e, J : e = k + 1 /\ e \in Nat /\ e <= i /\ J = Joined(argv, e, i)
    BY <1>3
  <2>2. J \in Texts
    <3>1. i <= Slots + 1
      BY <1>2, <1>3, Sizes DEF Shapes
    <3>2. QED
      BY <1>3, <2>1, <3>1, JoinedType
  <2>3. CASE i # argc
    BY <1>7, <2>1, <2>2, <2>3 DEF TextOf
  <2>4. CASE i = argc
    <3>1. t = SubSeq(J, 1, Len(J) - 1)
      BY <1>7, <2>1, <2>4 DEF TextOf
    <3>2. QED
      BY <2>2, <3>1, WithoutLast
  <2>5. QED
    BY <2>3, <2>4
<1>9. /\ cmdline' \in Seq(Bytes) /\ Len(cmdline') = Len(cmdline) /\ cmdline'[chars + 1] = 0
      /\ \A j \in 1 .. Len(cmdline) : j # chars + 1 => cmdline'[j] = cmdline[j]
  BY <1>3, Ended
<1>10. StringAt(cmdline', 0) = t
  <2>1. PICK g, n, z : /\ g = cmdline' /\ g \in Seq(Bytes) /\ n = Len(t) /\ n \in Nat
                       /\ z = 0 /\ z \in Nat /\ z + n < Len(g) /\ g[z + n + 1] = 0
    <3>1. Len(t) \in Nat /\ 0 + Len(t) < Len(cmdline') /\ 0 + Len(t) + 1 = chars + 1
      BY <1>3, <1>7, <1>8, <1>9, TextBytes DEF Shapes
    <3>2. QED
      BY <1>9, <3>1
  <2>2. \A j \in 1 .. n : g[j] = t[j] /\ g[j] \in 1 .. 255
    <3>1. \A j \in 1 .. n : j \in 1 .. Len(cmdline) /\ j # chars + 1
      BY <1>3, <1>7, <1>9, <2>1
    <3>2. \A j \in 1 .. n : g[j] = t[j]
      BY <1>7, <1>9, <2>1, <3>1
    <3>3. \A j \in 1 .. n : t[j] \in 1 .. 255
      BY <1>8, <2>1, TextBytes
    <3>4. QED
      BY <3>2, <3>3
  <2>3. \A j \in z + 1 .. z + n : g[j] # 0
    <3>1. \A j \in z + 1 .. z + n : j \in 1 .. n
      BY <2>1
    <3>2. QED
      BY <2>2, <3>1
  <2>4. /\ StringAt(g, z) \in Texts /\ Len(StringAt(g, z)) = n
        /\ \A j \in 1 .. n : StringAt(g, z)[j] = g[z + j]
    BY <2>1, <2>3, StringIs
  <2>5. PICK r : r = StringAt(g, z)
    OBVIOUS
  <2>6. r \in Seq(Bytes) /\ t \in Seq(Bytes) /\ Len(r) = Len(t)
    BY <1>8, <2>1, <2>4, <2>5, TextBytes
  <2>7. \A j \in 1 .. Len(r) : r[j] = t[j]
    <3>1. \A j \in 1 .. n : r[j] = g[j]
      <4>1. \A j \in 1 .. n : z + j = j
        BY <2>1
      <4>2. QED
        BY <2>4, <2>5, <4>1
    <3>2. QED
      BY <2>1, <2>2, <2>6, <3>1
  <2>8. r = t
    BY <2>6, <2>7, SameBytes
  <2>9. QED
    BY <2>1, <2>5, <2>8
<1>11. TextRead'
  <2>1. Latest(DashC, k)' /\ WordsSince(k + 1, i)' /\ StopsAt(i)'
    BY <1>1, <1>5, <1>6 DEF Latest, WordsSince, StopsAt
  <2>2. StringAt(cmdline, 0)' = TextOf(k + 1, i)'
    BY <1>1, <1>7, <1>10 DEF TextOf
  <2>3. PICK n : n = i /\ n = i' /\ n \in Nat
    BY <1>1, <1>3
  <2>4. k \in 1 .. n - 1 /\ n \in k + 1 .. n
    BY <1>6, <2>3, Above
  <2>5. WordsSince(k + 1, n)' /\ StopsAt(n)' /\ StringAt(cmdline, 0)' = TextOf(k + 1, n)'
    BY <2>1, <2>2, <2>3 DEF WordsSince, StopsAt, TextOf
  <2>6. QED
    BY <2>1, <2>3, <2>4, <2>5 DEF TextRead
<1>12. TextSoFar'
  BY <1>1, <1>11 DEF TextSoFar
<1>13. i' <= argc'
  BY <1>1, <1>2
<1>14. QED
  BY <1>4, <1>12, <1>13

LEMMA SoFarOther ==
  ASSUME Base, SoFar, Other PROVE SoFar'
<1>1. /\ phase = "options" /\ phase' = "options" /\ i < argc
      /\ (argv[i] \in Options => i + 1 >= argc) /\ i' = Place + 1
      /\ before' = before /\ params' = params /\ Held /\ argv' = argv /\ argc' = argc
      /\ cmdline' = cmdline
  BY DEF Other, InOptions, Options, Held
<1> SUFFICES ASSUME WellFormed
             PROVE  /\ i' <= argc'
                    /\ \A o \in {DashM, DashA, DashK} : NumberSoFar(o)'
                    /\ TextSoFar'
  BY <1>1, HeldWellFormed DEF SoFar
<1>2. (\A o \in {DashM, DashA, DashK} : NumberSoFar(o)) /\ (TextBefore \/ TextRead)
  BY <1>1 DEF SoFar, TextSoFar
<1>3. i \in Nat /\ argc \in Nat /\ i >= 1 /\ Shapes
  BY <1>1 DEF Base, Shapes, LineShape
<1>4. argv[i] \notin Options
  <2>1. i \in 1 .. argc - 1
    BY <1>1, <1>3
  <2>2. argv[i] \in Options => i + 1 < argc
    BY <2>1 DEF WellFormed, Options
  <2>3. QED
    BY <1>1, <1>3, <2>2
<1>5. i' = i + 1
  BY <1>1, <1>3, <1>4, PlaceIs DEF InOptions
<1>6. ASSUME NEW o \in Options PROVE Passes(o)
  <2>1. PICK n \in Nat : n = i' /\ i <= n /\ \A j \in i .. n - 1 : j = i
    <3>1. i + 1 \in Nat /\ i <= i + 1 /\ \A j \in i .. (i + 1) - 1 : j = i
      BY <1>3
    <3>2. QED
      BY <1>5, <3>1
  <2>2. QED
    BY <1>3, <1>4, <2>1 DEF Passes
<1>7. ASSUME NEW o \in {DashM, DashA, DashK} PROVE NumberSoFar(o)'
  <2>1. Passes(o)
    BY <1>6 DEF Options
  <2>2. QED
    BY <1>1, <1>2, <2>1, NumberKept
<1>8. TextSoFar'
  <2>1. Passes(DashC)
    BY <1>6 DEF Options
  <2>2. (TextBefore \/ TextRead)'
    BY <1>1, <1>2, <2>1, TextKept
  <2>3. QED
    BY <1>1, <2>2 DEF TextSoFar
<1>9. i' <= argc'
  BY <1>1, <1>3, <1>5
<1>10. QED
  BY <1>7, <1>8, <1>9

LEMMA SoFarNext ==
  ASSUME Base, Base', SoFar, [BootNext]_bootVars PROVE SoFar'
<1>1. CASE MainBoot \/ \E line \in Lines : LineLinux(line)
  <2>1. \E line : Begin(line)
    BY <1>1 DEF MainBoot, LineLinux
  <2>2. QED
    BY <2>1, SoFarBegin
<1>2. CASE \/ MainConsole \/ Help \/ EndLine \/ StartKernel
           \/ \E line \in Lines : LineOther(line)
  <2>1. phase' \in {"console", "dead", "kernel"}
    BY <1>2 DEF MainConsole, LineOther, Help, EndLine, StartKernel, Returned
  <2>2. QED
    BY <2>1 DEF SoFar
<1>3. CASE TakeNumber
  BY <1>3, SoFarTakeNumber
<1>4. CASE TakeCmdline
  BY <1>4, SoFarTakeCmdline
<1>5. CASE AppendWord
  BY <1>5, SoFarAppendWord
<1>6. CASE EndWords
  BY <1>6, SoFarEndWords
<1>7. CASE Other
  BY <1>7, SoFarOther
<1>8. CASE UNCHANGED bootVars
  <2>1. UNCHANGED <<phase, argv, argc, i, chars, params, cmdline, before>>
    BY <1>8 DEF bootVars
  <2>2. WellFormed' <=> WellFormed
    BY <2>1 DEF WellFormed
  <2>3. \A o : NumberSoFar(o) => NumberSoFar(o)'
    BY <2>1 DEF NumberSoFar, None, Latest
  <2>4. TextBefore => TextBefore'
    BY <2>1 DEF TextBefore, None
  <2>5. TextRead => TextRead'
    BY <2>1 DEF TextRead, Latest, WordsSince, StopsAt, TextOf
  <2>6. TextBeingRead => TextBeingRead'
    BY <2>1 DEF TextBeingRead, Latest, WordsSince, InBuffer, TextOf
  <2>7. QED
    BY <2>1, <2>2, <2>3, <2>4, <2>5, <2>6 DEF SoFar, TextSoFar
<1>9. QED
  BY <1>1, <1>2, <1>3, <1>4, <1>5, <1>6, <1>7, <1>8 DEF BootNext

\* At the end of a line it says all that its options say.
LEMMA AskedIs ==
  ASSUME Base, SoFar PROVE ParamsAsAsked
<1> SUFFICES ASSUME phase = "options", i >= argc, WellFormed
             PROVE  /\ \A o \in DOMAIN Numeric :
                          params[Numeric[o]] = IF o \in Given THEN Strtoul(argv[LastOf(o) + 1])
                                               ELSE before.params[Numeric[o]]
                    /\ StringAt(cmdline, 0) = IF DashC \in Given
                                              THEN CommandLine(LastOf(DashC) + 1)
                                              ELSE before.cmdline
  BY DEF ParamsAsAsked
<1>1. /\ i <= argc /\ (\A o \in {DashM, DashA, DashK} : NumberSoFar(o))
      /\ (TextBefore \/ TextRead)
  BY DEF SoFar, TextSoFar
<1>2. i = argc /\ argc \in Nat
  BY <1>1 DEF Base, Shapes
<1>3. ASSUME NEW o, None(o) PROVE o \notin Given
  BY <1>2, <1>3 DEF None, Given
<1>4. ASSUME NEW o, NEW k \in 1 .. i - 1, Latest(o, k)
      PROVE  o \in Given /\ LastOf(o) = k /\ k \in Nat
  <2> DEFINE T == {j \in 1 .. argc - 1 : argv[j] = o}
  <2>1. k \in 1 .. argc - 1 /\ argv[k] = o /\ \A j \in k + 1 .. argc - 1 : argv[j] # o
    BY <1>2, <1>4 DEF Latest
  <2>2. k \in T /\ T \subseteq Int /\ \A x \in T : x <= k
    BY <1>2, <2>1
  <2>3. LastOf(o) = Max(T)
    BY DEF LastOf
  <2> HIDE DEF T
  <2>4. Max(T) = k
    BY <2>2, GreatestIs
  <2>5. QED
    BY <2>1, <2>3, <2>4 DEF Given
<1>5. ASSUME NEW o \in {DashM, DashA, DashK}
      PROVE  params[Numeric[o]] = IF o \in Given THEN Strtoul(argv[LastOf(o) + 1])
                                  ELSE before.params[Numeric[o]]
  <2>1. CASE None(o) /\ params[Numeric[o]] = before.params[Numeric[o]]
    BY <1>3, <2>1
  <2>2. CASE \E k \in 1 .. i - 1 : Latest(o, k) /\ params[Numeric[o]] = Strtoul(argv[k + 1])
    BY <1>4, <2>2
  <2>3. QED
    BY <1>1, <2>1, <2>2 DEF NumberSoFar
<1>6. CASE TextBefore
  BY <1>3, <1>5, <1>6, NumericIs DEF TextBefore
<1>7. CASE TextRead
  <2>1. PICK k \in 1 .. i - 1 :
          /\ Latest(DashC, k)
          /\ \E n \in k + 1 .. i : /\ WordsSince(k + 1, n) /\ StopsAt(n)
                                   /\ StringAt(cmdline, 0) = TextOf(k + 1, n)
    BY <1>7 DEF TextRead
  <2>2. PICK n \in k + 1 .. i : /\ WordsSince(k + 1, n) /\ StopsAt(n)
                                /\ StringAt(cmdline, 0) = TextOf(k + 1, n)
    BY <2>1
  <2>3. DashC \in Given /\ LastOf(DashC) = k /\ k \in Nat
    BY <1>4, <2>1
  <2> DEFINE T == {j \in k + 1 .. argc - 1 : BeginsWithDash(argv[j])} \cup {argc}
  <2>4. T \subseteq Int /\ n \in T
    BY <1>2, <2>2 DEF StopsAt
  <2>5. \A x \in T : n <= x
    BY <1>2, <2>2 DEF WordsSince
  <2>6. CommandLine(k + 1) = TextOf(k + 1, Min(T))
    BY DEF CommandLine, TextOf
  <2> HIDE DEF T
  <2>7. Min(T) = n
    BY <2>4, <2>5, LeastIs
  <2>8. StringAt(cmdline, 0) = CommandLine(LastOf(DashC) + 1)
    BY <2>2, <2>3, <2>6, <2>7
  <2>9. QED
    BY <1>5, <2>3, <2>8, NumericIs
<1>8. QED
  BY <1>1, <1>6, <1>7

\* When a line with complete options has been read, every parameter and the
\* command line are what the last option of its kind says, and what they were
\* before the line where there is none: process_bootlinux reads any line of
\* words that fit the buffer like this (cmd_bootlinux.c:189-224).
THEOREM ParamsAsAskedCorrect == BootSpec => []ParamsAsAsked
<1>1. BootInit => Base /\ SoFar
  BY BaseInit DEF BootInit, SoFar
<1>2. Base /\ SoFar /\ [BootNext]_bootVars => (Base /\ SoFar)'
  BY BaseNext, SoFarNext
<1>3. Base /\ SoFar => ParamsAsAsked
  BY AskedIs
<1>4. QED
  BY <1>1, <1>2, <1>3, PTL DEF BootSpec

-----------------------------------------------------------------------------
(* What the kernel finds.                                                  *)

LEMMA SliceIs ==
  ASSUME NEW g \in Seq(Bytes), NEW k \in Nat, NEW r \in Seq(Bytes), NEW n \in Nat,
         n = Len(r), k + n <= Len(g), \A j \in 1 .. n : g[k + j] = r[j]
  PROVE  SubSeq(g, k + 1, k + n) = r
<1>1. PICK b \in Nat : b = k + n /\ b <= Len(g) /\ k <= b /\ b - k = n
  <2>1. k + n \in Nat /\ k <= k + n /\ (k + n) - k = n
    OBVIOUS
  <2>2. QED
    BY <2>1
<1>2. PICK q : q = SubSeq(g, k + 1, b)
  OBVIOUS
<1>3. q \in Seq(Bytes) /\ Len(q) = n /\ \A j \in 1 .. n : q[j] = g[k + j]
  <2>1. /\ SubSeq(g, k + 1, b) \in Seq(Bytes)
        /\ Len(SubSeq(g, k + 1, b)) = IF k <= b THEN b - k ELSE 0
        /\ k <= b => \A j \in 1 .. b - k : SubSeq(g, k + 1, b)[j] = g[k + j]
    BY <1>1, Piece
  <2>2. QED
    BY <1>1, <1>2, <2>1, Zenon
<1>4. q = r
  BY <1>3, SameBytes
<1>5. QED
  BY <1>1, <1>2, <1>4

\* Four bytes and the name of a tag.
LEMMA HeadAt ==
  ASSUME NEW g \in Seq(Bytes), NEW k \in Nat, k + 8 <= Len(g),
         NEW c \in Bytes, NEW tag \in {AtagCore, AtagNone},
         g[k + 1] = c, g[k + 2] = 0, g[k + 3] = 0, g[k + 4] = 0,
         \A j \in 1 .. 4 : g[k + 4 + j] = tag[j]
  PROVE  SubSeq(g, k + 1, k + 8) = <<c, 0, 0, 0>> \o tag
<1>1. tag \in Seq(Bytes) /\ Len(tag) = 4
  <2>1. AtagCore \in Seq(Bytes) /\ Len(AtagCore) = 4
    BY DEF AtagCore, Bytes
  <2>2. AtagNone \in Seq(Bytes) /\ Len(AtagNone) = 4
    BY DEF AtagNone, Bytes
  <2>3. QED
    BY <2>1, <2>2
<1>2. PICK w \in Seq(Bytes) : /\ w = <<c, 0, 0, 0>> /\ Len(w) = 4
                              /\ w[1] = c /\ w[2] = 0 /\ w[3] = 0 /\ w[4] = 0
  <2>1. <<c, 0, 0, 0>> \in Seq(Bytes) /\ Len(<<c, 0, 0, 0>>) = 4
    BY DEF Bytes
  <2>2. QED
    BY <2>1
<1>0. PICK e \in Nat : e = 4 /\ e = Len(w) /\ e = Len(tag)
  BY <1>1, <1>2
<1>3. PICK r : r = w \o tag
  OBVIOUS
<1>4. /\ r \in Seq(Bytes) /\ Len(r) = e + e
      /\ \A j \in 1 .. e : r[j] = w[j]
      /\ \A j \in 1 .. e : r[e + j] = tag[j]
  <2>1. /\ w \o tag \in Seq(Bytes) /\ Len(w \o tag) = Len(w) + Len(tag)
        /\ \A j \in 1 .. Len(w) : (w \o tag)[j] = w[j]
        /\ \A j \in 1 .. Len(tag) : (w \o tag)[Len(w) + j] = tag[j]
    BY <1>1, JointBytes
  <2>2. QED
    BY <1>0, <1>3, <2>1, Zenon
<1>5. /\ Len(r) = 8 /\ r[1] = c /\ r[2] = 0 /\ r[3] = 0 /\ r[4] = 0
      /\ r[5] = tag[1] /\ r[6] = tag[2] /\ r[7] = tag[3] /\ r[8] = tag[4]
  <2>1. /\ 1 \in 1 .. e /\ 2 \in 1 .. e /\ 3 \in 1 .. e /\ 4 \in 1 .. e
        /\ e + 1 = 5 /\ e + 2 = 6 /\ e + 3 = 7 /\ e + 4 = 8 /\ e + e = 8
    BY <1>0
  <2>2. r[1] = w[1] /\ r[2] = w[2] /\ r[3] = w[3] /\ r[4] = w[4]
    BY <1>4, <2>1, Zenon
  <2>3. r[e + 1] = tag[1] /\ r[e + 2] = tag[2] /\ r[e + 3] = tag[3] /\ r[e + 4] = tag[4]
    BY <1>4, <2>1, Zenon
  <2>4. QED
    BY <1>2, <1>4, <2>1, <2>2, <2>3, Zenon
<1>6. g[k + 5] = tag[1] /\ g[k + 6] = tag[2] /\ g[k + 7] = tag[3] /\ g[k + 8] = tag[4]
  <2>1. k + 4 + 1 = k + 5 /\ k + 4 + 2 = k + 6 /\ k + 4 + 3 = k + 7 /\ k + 4 + 4 = k + 8
    OBVIOUS
  <2>2. g[k + 4 + 1] = tag[1] /\ g[k + 4 + 2] = tag[2] /\ g[k + 4 + 3] = tag[3] /\ g[k + 4 + 4] = tag[4]
    OBVIOUS
  <2>3. QED
    BY <2>1, <2>2
<1>7. \A j \in 1 .. 8 : j \in {1, 2, 3, 4, 5, 6, 7, 8}
  OBVIOUS
<1>8. \A j \in 1 .. 8 : g[k + j] = r[j]
  BY <1>5, <1>6, <1>7
<1>9. PICK n \in Nat : n = 8
  OBVIOUS
<1>10. n = Len(r) /\ k + n <= Len(g) /\ \A j \in 1 .. n : g[k + j] = r[j]
  BY <1>5, <1>8, <1>9
<1>11. r \in Seq(Bytes)
  BY <1>4
<1>12. SubSeq(g, k + 1, k + n) = r
  BY <1>10, <1>11, SliceIs
<1>13. r = <<c, 0, 0, 0>> \o tag
  BY <1>2, <1>3, Zenon
<1>14. QED
  BY <1>9, <1>12, <1>13, Zenon

\* The list as the kernel reads it.
ListRead(g, s) ==
    /\ SubSeq(g, 0 + 1, 0 + 8) = <<5, 0, 0, 0>> \o AtagCore
    /\ SubSeq(g, 24 + 1, 24 + 4) = AtagCmdline
    /\ StringAt(g, 28) = s
    /\ 20 + 4 * (g[21] + 256 * g[22]) >= 28 + Len(s)
    /\ SubSeq(g, 20 + 4 * (g[21] + 256 * g[22]) + 1, 20 + 4 * (g[21] + 256 * g[22]) + 8)
         = <<0, 0, 0, 0>> \o AtagNone

LEMMA ListIsRead ==
  ASSUME NEW g \in Seq(Bytes), Len(g) = 40 + Size + Behind,
         NEW s \in Texts, Len(s) < Size + Behind, TagList(g, s)
  PROVE  ListRead(g, s)
<1>1. PICK m \in Nat, n \in Nat :
        /\ n = Len(s) /\ m = CmdlineWords(s) /\ 4 * m \in n + 8 .. n + 11
        /\ n + 40 < Len(g) /\ Len(g) \in Nat /\ s \in Seq(Bytes)
  <2>1. CmdlineWords(s) \in Nat /\ Len(s) \in Nat
        /\ 4 * CmdlineWords(s) \in Len(s) + 8 .. Len(s) + 11
    BY CmdlineSize
  <2>2. Len(s) + 40 < Len(g) /\ Len(g) \in Nat
    BY <2>1, Sizes
  <2>3. QED
    BY <2>1, <2>2, TextBytes
<1>2. SubSeq(g, 0 + 1, 0 + 8) = <<5, 0, 0, 0>> \o AtagCore
  <2>1. PICK k \in Nat, c \in Bytes : k = 0 /\ c = 5
    BY DEF Bytes
  <2>2. k + 8 <= Len(g)
    BY <1>1, <2>1
  <2>3. g[k + 1] = c /\ g[k + 2] = 0 /\ g[k + 3] = 0 /\ g[k + 4] = 0
    BY <2>1 DEF TagList
  <2>4. \A j \in 1 .. 4 : k + 4 + j = 4 + j
    BY <2>1
  <2>5. \A j \in 1 .. 4 : g[k + 4 + j] = AtagCore[j]
    BY <2>4 DEF TagList
  <2>6. SubSeq(g, k + 1, k + 8) = <<c, 0, 0, 0>> \o AtagCore
    BY <2>2, <2>3, <2>5, HeadAt
  <2>7. QED
    BY <2>1, <2>6
<1>3. SubSeq(g, 24 + 1, 24 + 4) = AtagCmdline
  <2>1. PICK k \in Nat, z \in Nat : k = 24 /\ z = 4
    OBVIOUS
  <2>2. PICK r \in Seq(Bytes) : r = AtagCmdline /\ Len(r) = 4
    <3>1. AtagCmdline \in Seq(Bytes) /\ Len(AtagCmdline) = 4
      BY DEF AtagCmdline, Bytes
    <3>2. QED
      BY <3>1
  <2>3. z = Len(r) /\ k + z <= Len(g)
    BY <1>1, <2>1, <2>2
  <2>4. \A j \in 1 .. z : g[k + j] = r[j]
    BY <2>1, <2>2 DEF TagList
  <2>5. SubSeq(g, k + 1, k + z) = r
    BY <2>3, <2>4, SliceIs
  <2>6. QED
    BY <2>1, <2>2, <2>5
<1>4. StringAt(g, 28) = s
  <2>1. PICK k \in Nat : k = 28
    OBVIOUS
  <2>2. k + n < Len(g)
    BY <1>1, <2>1
  <2>3. g[k + n + 1] = 0
    BY <1>1, <2>1 DEF TagList
  <2>4. \A j \in 1 .. n : g[k + j] = s[j] /\ s[j] \in 1 .. 255
    BY <1>1, <2>1, TextBytes DEF TagList
  <2>5. ASSUME NEW j \in 1 .. n PROVE g[k + j] # 0
    <3>1. PICK c \in 1 .. 255 : g[k + j] = c
      BY <2>4
    <3>2. c # 0
      OBVIOUS
    <3>3. QED
      BY <3>1, <3>2
  <2>6. ASSUME NEW j \in k + 1 .. k + n PROVE g[j] # 0
    <3>1. PICK e \in 1 .. n : j = k + e
      <4>1. j - k \in 1 .. n /\ j = k + (j - k)
        BY <2>1
      <4>2. QED
        BY <4>1
    <3>2. QED
      BY <2>5, <3>1
  <2>7. \A j \in k + 1 .. k + n : g[j] # 0
    BY <2>6
  <2>8. PICK r : r = StringAt(g, k)
    OBVIOUS
  <2>9. r \in Texts /\ Len(r) = n /\ \A j \in 1 .. n : r[j] = g[k + j]
    BY <2>2, <2>3, <2>7, <2>8, StringIs
  <2>10. r \in Seq(Bytes) /\ Len(r) = Len(s) /\ \A j \in 1 .. Len(r) : r[j] = s[j]
    BY <1>1, <2>4, <2>9, TextBytes
  <2>11. r = s
    BY <1>1, <2>10, SameBytes
  <2>12. QED
    BY <2>1, <2>8, <2>11
<1>5. PICK next \in Nat :
        next = 20 + 4 * m /\ 20 + 4 * (g[21] + 256 * g[22]) = next
        /\ n + 28 <= next /\ next + 8 <= Len(g)
  <2>1. g[21] + 256 * g[22] = m
    BY <1>1 DEF TagList
  <2>2. PICK f \in Nat : f = 4 * m /\ f \in n + 8 .. n + 11
    <3>1. 4 * m \in Nat /\ 4 * m \in n + 8 .. n + 11
      BY <1>1
    <3>2. QED
      BY <3>1, Zenon
  <2>3. PICK top \in Nat : top = Len(g) /\ n + 40 < top
    BY <1>1
  <2>4. n + 28 <= 20 + f /\ (20 + f) + 8 <= top /\ 20 + f \in Nat
    BY <2>2, <2>3
  <2>5. QED
    BY <2>1, <2>2, <2>3, <2>4, Zenon
<1>6. SubSeq(g, next + 1, next + 8) = <<0, 0, 0, 0>> \o AtagNone
  <2>1. \A j \in 1 .. 8 : g[next + j] = 0
    BY <1>1, <1>5 DEF TagList
  <2>2. PICK c \in Bytes : c = 0
    BY DEF Bytes
  <2>3. next + 8 <= Len(g)
    BY <1>5
  <2>4. g[next + 1] = c /\ g[next + 2] = 0 /\ g[next + 3] = 0 /\ g[next + 4] = 0
    BY <2>1, <2>2
  <2>5. \A j \in 1 .. 4 : 4 + j \in 1 .. 8 /\ next + 4 + j = next + (4 + j)
    OBVIOUS
  <2>6. \A j \in 1 .. 4 : AtagNone[j] = 0
    BY DEF AtagNone
  <2>7. \A j \in 1 .. 4 : g[next + 4 + j] = AtagNone[j]
    BY <2>1, <2>5, <2>6
  <2>8. SubSeq(g, next + 1, next + 8) = <<c, 0, 0, 0>> \o AtagNone
    BY <2>3, <2>4, <2>7, HeadAt
  <2>9. QED
    BY <2>2, <2>8
<1>7. next >= 28 + Len(s)
  BY <1>1, <1>5
<1>8. QED
  BY <1>2, <1>3, <1>4, <1>5, <1>6, <1>7 DEF ListRead

\* What boot_linux passes, read by its own command.
LEMMA MainOptionPlaces ==
  ASSUME Base, phase = "options", caller = "main", WellFormed
  PROVE  /\ MainLine /\ argc = 10 /\ argv \in [0 .. Slots -> Texts] /\ 10 <= Slots
         /\ ~BeginsWithDash(argv[6])
         /\ \A k \in 1 .. 9 : /\ argv[k] = DashM <=> k = 1
                              /\ argv[k] = DashA <=> k = 3
                              /\ argv[k] = DashC <=> k = 5
                              /\ argv[k] = DashK <=> k = 7
<1>1. MainLine /\ argc = 10 /\ argv \in [0 .. Slots -> Texts] /\ 10 <= Slots
  BY Sizes DEF Base, LineShape, Shapes, MainLine
<1>2. \A k \in {1, 3, 5, 7} : ~BeginsWithDash(argv[k + 1])
  <2>1. \A k \in {1, 3, 5, 7} : k \in 1 .. argc - 1 /\ argv[k] \in {DashM, DashA, DashK, DashC}
    BY <1>1 DEF MainLine
  <2>2. QED
    BY <2>1 DEF WellFormed
<1>3. /\ ~BeginsWithDash(argv[2]) /\ ~BeginsWithDash(argv[4])
      /\ ~BeginsWithDash(argv[6]) /\ ~BeginsWithDash(argv[8])
  <2>1. 1 + 1 = 2 /\ 3 + 1 = 4 /\ 5 + 1 = 6 /\ 7 + 1 = 8
    OBVIOUS
  <2>2. /\ ~BeginsWithDash(argv[1 + 1]) /\ ~BeginsWithDash(argv[3 + 1])
        /\ ~BeginsWithDash(argv[5 + 1]) /\ ~BeginsWithDash(argv[7 + 1])
    BY <1>2
  <2>3. QED
    BY <2>1, <2>2
<1>4. argv[2] \notin Options /\ argv[4] \notin Options /\ argv[6] \notin Options /\ argv[8] \notin Options
  BY <1>3, WordIsNoOption
<1>5. /\ argv[1] = DashM /\ argv[3] = DashA /\ argv[5] = DashC /\ argv[7] = DashK /\ argv[9] = DashB
  BY <1>1 DEF MainLine
<1>6. \A k \in 1 .. 9 : k \in {1, 2, 3, 4, 5, 6, 7, 8, 9}
  OBVIOUS
<1>7. ASSUME NEW k \in 1 .. 9
      PROVE  /\ argv[k] = DashM <=> k = 1
             /\ argv[k] = DashA <=> k = 3
             /\ argv[k] = DashC <=> k = 5
             /\ argv[k] = DashK <=> k = 7
  <2>1. CASE k \in {2, 4, 6, 8}
    BY <1>4, <2>1 DEF Options
  <2>2. CASE k \in {1, 3, 5, 7, 9}
    BY <1>5, <2>2, OptionsApart
  <2>3. QED
    BY <1>6, <2>1, <2>2
<1>8. QED
  BY <1>1, <1>3, <1>7

\* The command line of boot_linux has a blank behind it.
LEMMA MainText ==
  ASSUME Base, phase = "options", caller = "main", WellFormed
  PROVE  CommandLine(6) = Found("cmdline") \o <<Blank>>
<1>1. /\ MainLine /\ argc = 10 /\ argv \in [0 .. Slots -> Texts] /\ 10 <= Slots
      /\ ~BeginsWithDash(argv[6])
  BY MainOptionPlaces
<1>2. argv[6] = Found("cmdline") /\ BeginsWithDash(argv[7])
  BY <1>1, OptionsDash DEF MainLine, BeginsWithDash
<1> DEFINE T == {n \in 6 .. argc - 1 : BeginsWithDash(argv[n])} \cup {argc}
<1>3. T \subseteq Int /\ 7 \in T
  BY <1>1, <1>2
<1>4. \A x \in T : 7 <= x
  <2>1. ASSUME NEW x \in T PROVE x = argc \/ (x \in 6 .. 9 /\ x # 6)
    BY <1>1
  <2>2. QED
    BY <1>1, <2>1
<1>5. Min(T) = 7
  <2> HIDE DEF T
  <2>1. QED
    BY <1>3, <1>4, LeastIs
<1>6. CommandLine(6) = IF Min(T) = argc
                       THEN SubSeq(Joined(argv, 6, Min(T)), 1, Len(Joined(argv, 6, Min(T))) - 1)
                       ELSE Joined(argv, 6, Min(T))
  BY DEF CommandLine
<1> HIDE DEF T
<1>7. CommandLine(6) = Joined(argv, 6, 7)
  BY <1>1, <1>5, <1>6
<1>8. Joined(argv, 6, 7) = argv[6] \o <<Blank>>
  <2>1. PICK k \in Nat : k = 6 /\ k <= k /\ k + 1 = 7
    OBVIOUS
  <2>2. Joined(argv, k, k + 1) = Joined(argv, k, k) \o argv[k] \o <<Blank>>
    BY <1>1, <2>1, JoinedMore
  <2>3. Joined(argv, k, k) = <<>>
    BY <1>1, JoinedNone
  <2>4. argv[k] \in Seq(1 .. 255)
    <3>1. k \in 0 .. Slots
      BY <1>1, <2>1, Sizes
    <3>2. QED
      BY <1>1, <3>1 DEF Texts
  <2>5. PICK C, w : C = 1 .. 255 /\ w = argv[k] /\ w \in Seq(C)
    BY <2>4
  <2>6. <<>> \o w = w
    BY <2>5
  <2>7. QED
    BY <2>1, <2>2, <2>3, <2>5, <2>6
<1>9. QED
  BY <1>2, <1>7, <1>8

\* The parameters of a boot without console.
MainParams ==
    /\ \A o \in {DashM, DashA, DashK} : params[Numeric[o]] = Strtoul(Found(Numeric[o]))
    /\ StringAt(cmdline, 0) = Found("cmdline") \o <<Blank>>

LEMMA MainParamsAre ==
  ASSUME Base, SoFar, phase = "options", i >= argc, caller = "main", WellFormed
  PROVE  MainParams
<1>1. /\ MainLine /\ argc = 10
      /\ \A k \in 1 .. 9 : /\ argv[k] = DashM <=> k = 1
                           /\ argv[k] = DashA <=> k = 3
                           /\ argv[k] = DashC <=> k = 5
                           /\ argv[k] = DashK <=> k = 7
  BY MainOptionPlaces
<1>2. /\ \A o \in DOMAIN Numeric :
            params[Numeric[o]] = IF o \in Given THEN Strtoul(argv[LastOf(o) + 1])
                                 ELSE before.params[Numeric[o]]
      /\ StringAt(cmdline, 0) = IF DashC \in Given THEN CommandLine(LastOf(DashC) + 1)
                                ELSE before.cmdline
  BY AskedIs DEF ParamsAsAsked
<1>3. ASSUME NEW o, NEW p \in 1 .. 9, \A k \in 1 .. 9 : argv[k] = o <=> k = p
      PROVE  o \in Given /\ LastOf(o) = p
  <2> DEFINE T == {k \in 1 .. argc - 1 : argv[k] = o}
  <2>1. T \subseteq Int /\ p \in T /\ \A x \in T : x <= p
    BY <1>1, <1>3
  <2>2. LastOf(o) = Max(T)
    BY DEF LastOf
  <2>3. o \in Given
    BY <1>1, <1>3 DEF Given
  <2> HIDE DEF T
  <2>4. Max(T) = p
    BY <2>1, GreatestIs
  <2>5. QED
    BY <2>2, <2>3, <2>4
<1>4. /\ DashM \in Given /\ LastOf(DashM) = 1 /\ DashA \in Given /\ LastOf(DashA) = 3
      /\ DashC \in Given /\ LastOf(DashC) = 5 /\ DashK \in Given /\ LastOf(DashK) = 7
  <2>1. 1 \in 1 .. 9 /\ 3 \in 1 .. 9 /\ 5 \in 1 .. 9 /\ 7 \in 1 .. 9
    OBVIOUS
  <2>2. DashM \in Given /\ LastOf(DashM) = 1
    BY <1>1, <1>3, <2>1
  <2>3. DashA \in Given /\ LastOf(DashA) = 3
    BY <1>1, <1>3, <2>1
  <2>4. DashC \in Given /\ LastOf(DashC) = 5
    BY <1>1, <1>3, <2>1
  <2>5. DashK \in Given /\ LastOf(DashK) = 7
    BY <1>1, <1>3, <2>1
  <2>6. QED
    BY <2>2, <2>3, <2>4, <2>5
<1>5. /\ argv[2] = Found("machid") /\ argv[4] = Found("atag") /\ argv[8] = Found("kernel")
  BY <1>1 DEF MainLine
<1>6. 1 + 1 = 2 /\ 3 + 1 = 4 /\ 5 + 1 = 6 /\ 7 + 1 = 8
  OBVIOUS
<1>7. params[Numeric[DashM]] = Strtoul(Found("machid"))
  BY <1>2, <1>4, <1>5, <1>6, NumericIs
<1>8. params[Numeric[DashA]] = Strtoul(Found("atag"))
  BY <1>2, <1>4, <1>5, <1>6, NumericIs
<1>9. params[Numeric[DashK]] = Strtoul(Found("kernel"))
  BY <1>2, <1>4, <1>5, <1>6, NumericIs
<1>10. StringAt(cmdline, 0) = CommandLine(6)
  BY <1>2, <1>4, <1>6
<1>11. StringAt(cmdline, 0) = Found("cmdline") \o <<Blank>>
  BY <1>10, MainText
<1>12. \A o \in {DashM, DashA, DashK} : params[Numeric[o]] = Strtoul(Found(Numeric[o]))
  BY <1>7, <1>8, <1>9, NumericIs
<1>13. QED
  BY <1>11, <1>12 DEF MainParams

\* The same in the words of KernelSees.
PatchedOrDefault ==
    (caller = "main" /\ WellFormed) =>
       \A a \in Areas :
          LET text == IF areas[a] # <<>> THEN areas[a] ELSE Defaults[a]
          IN  IF a = "cmdline"
              THEN NoLeadingBlanks(StringAt(cmdline, 0)) = NoLeadingBlanks(text \o <<Blank>>)
              ELSE params[a] = Strtoul(text)

LEMMA MainSees ==
  ASSUME Base, SoFar, phase = "options", i >= argc PROVE PatchedOrDefault
<1> SUFFICES ASSUME caller = "main", WellFormed, NEW a \in Areas
             PROVE  LET text == IF areas[a] # <<>> THEN areas[a] ELSE Defaults[a]
                    IN  IF a = "cmdline"
                        THEN NoLeadingBlanks(StringAt(cmdline, 0))
                               = NoLeadingBlanks(text \o <<Blank>>)
                        ELSE params[a] = Strtoul(text)
  BY DEF PatchedOrDefault
<1>1. MainParams
  BY MainParamsAre
<1>2. (IF areas[a] # <<>> THEN areas[a] ELSE Defaults[a]) = Found(a)
  BY DEF Found, AreaOrDefault
<1>3. CASE a = "cmdline"
  BY <1>1, <1>2, <1>3 DEF MainParams
<1>4. CASE a # "cmdline"
  <2>1. a \in {"machid", "atag", "kernel"}
    BY <1>4 DEF Areas
  <2>2. \E o \in {DashM, DashA, DashK} : Numeric[o] = a
    BY <2>1, NumericIs
  <2>3. params[a] = Strtoul(Found(a))
    BY <1>1, <2>2 DEF MainParams
  <2>4. QED
    BY <1>2, <1>4, <2>3
<1>5. QED
  BY <1>3, <1>4

Stripped == NoLeadingBlanks(StringAt(cmdline, 0))

LEMMA SeesIs ==
  /\ KernelSees <=> (phase = "kernel" => ListRead(tags, Stripped) /\ PatchedOrDefault)
  /\ KernelSees' <=> (phase' = "kernel" => ListRead(tags', Stripped') /\ PatchedOrDefault')
<1>1. KernelSees <=> (phase = "kernel" => ListRead(tags, Stripped) /\ PatchedOrDefault)
  BY DEF KernelSees, ListRead, PatchedOrDefault, Stripped
<1>2. KernelSees' <=> (phase' = "kernel" => ListRead(tags', Stripped') /\ PatchedOrDefault')
  BY DEF KernelSees, ListRead, PatchedOrDefault, Stripped
<1>3. QED
  BY <1>1, <1>2

LEMMA SeenStart ==
  ASSUME Base, SoFar, StartKernel PROVE KernelSees'
<1>1. /\ phase = "options" /\ i >= argc
      /\ UNCHANGED <<areas, caller, argv, argc, params, cmdline>>
  BY DEF StartKernel
<1>2. PICK s : s = NoLeadingBlanks(StringAt(cmdline, 0))
  OBVIOUS
<1>3. /\ s \in Texts /\ Len(s) < Size + Behind
      /\ tags' \in Seq(Bytes) /\ Len(tags') = Len(tags)
      /\ TagList(tags', s)
  BY <1>2, KernelTags
<1>4. Len(tags') = 40 + Size + Behind
  BY <1>3 DEF Base, Shapes
<1>5. ListRead(tags', s)
  BY <1>3, <1>4, ListIsRead
<1>6. PatchedOrDefault
  BY <1>1, MainSees
<1>7. WellFormed' <=> WellFormed
  BY <1>1 DEF WellFormed
<1>8. PatchedOrDefault'
  BY <1>1, <1>6, <1>7 DEF PatchedOrDefault
<1>9. s = Stripped'
  BY <1>1, <1>2 DEF Stripped
<1>10. QED
  BY <1>5, <1>8, <1>9, SeesIs

LEMMA SeenNext ==
  ASSUME Base, SoFar, KernelSees, [BootNext]_bootVars PROVE KernelSees'
<1>1. CASE StartKernel
  BY <1>1, SeenStart
<1>2. CASE UNCHANGED bootVars
  <2>1. UNCHANGED <<phase, areas, caller, argv, argc, params, cmdline, tags>>
    BY <1>2 DEF bootVars
  <2>2. WellFormed' <=> WellFormed
    BY <2>1 DEF WellFormed
  <2>3. PatchedOrDefault' <=> PatchedOrDefault
    BY <2>1, <2>2, Zenon DEF PatchedOrDefault
  <2>4. Stripped' = Stripped
    BY <2>1 DEF Stripped
  <2>5. QED
    BY <2>1, <2>3, <2>4, SeesIs, Zenon
<1>3. CASE BootNext /\ ~StartKernel
  <2>1. phase' # "kernel"
    BY <1>3 DEF BootNext, MainBoot, MainConsole, LineLinux, LineOther, Begin, TakeNumber,
      InOptions, TakeCmdline, AppendWord, EndWords, Other, Help, EndLine, Returned
  <2>2. QED
    BY <2>1 DEF KernelSees
<1>4. QED
  BY <1>1, <1>2, <1>3

\* The kernel finds the three tags one behind the other, the whole string of
\* the buffer in the second without its leading blanks, and in a boot without
\* console the parameters patched into the image or the defaults: for every
\* text, every size of the buffer and every memory before it
\* (cmd_bootlinux.c:62-137, main.c:54-78).
THEOREM KernelSeesCorrect == BootSpec => []KernelSees
<1>1. BootInit => Base /\ SoFar /\ KernelSees
  BY BaseInit DEF BootInit, SoFar, KernelSees
<1>2. Base /\ SoFar /\ KernelSees /\ [BootNext]_bootVars => (Base /\ SoFar /\ KernelSees)'
  BY BaseNext, SoFarNext, SeenNext
<1>3. QED
  BY <1>1, <1>2, PTL DEF BootSpec
=============================================================================
