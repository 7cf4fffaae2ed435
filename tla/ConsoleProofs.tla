---------------------------- MODULE ConsoleProofs ----------------------------
(***************************************************************************)
(* What is proved of the console, for any alphabet, any depth of the       *)
(* history, any limits and any number of lines: that no string overruns    *)
(* its buffer before a key is written past the line buffer, and that the   *)
(* ring, browsing and dispatch are right until then.                       *)
(***************************************************************************)
EXTENDS Console, NatLemmas

-----------------------------------------------------------------------------
(* Sequences.                                                              *)

LEMMA Cut ==
  ASSUME NEW s \in Texts, NEW m \in Int, NEW n \in Int, m >= 1, n <= Len(s)
  PROVE  SubSeq(s, m, n) \in Texts
  BY DEF Texts

LEMMA Join ==
  ASSUME NEW s \in Texts, NEW t \in Texts
  PROVE  s \o t \in Texts /\ Len(s \o t) = Len(s) + Len(t)
  BY DEF Texts

LEMMA BeforeAfter ==
  ASSUME TypeOK
  PROVE  /\ Before \in Texts /\ Len(Before) = cursor
         /\ After \in Texts /\ Len(After) = Len(line) - cursor
         /\ Len(line) \in Nat /\ cursor \in Nat /\ cursor <= Len(line)
<1>1. line \in Seq(Chars) /\ cursor \in 0 .. Len(line) /\ Len(line) \in Nat
  BY DEF TypeOK, Texts
<1>2. Before \in Texts /\ After \in Texts
  BY <1>1, Cut DEF Before, After, Texts
<1>3. Len(Before) = cursor
  BY <1>1 DEF Before
<1>4. Len(After) = Len(line) - cursor
  BY <1>1 DEF After
<1>5. QED
  BY <1>1, <1>2, <1>3, <1>4
-----------------------------------------------------------------------------
(* Ranks: in a finite set of numbers each place is taken by one of them.   *)

Below(S, i) == {k \in S : k < i}

LEMMA RankExists ==
  ASSUME NEW S \in SUBSET Nat, IsFiniteSet(S), NEW n \in 0 .. Cardinality(S) - 1
  PROVE  \E i \in S : Cardinality(Below(S, i)) = n
<1> DEFINE Reached == {m \in Nat : m < Cardinality(S) =>
                          \E i \in S : Cardinality(Below(S, i)) = m}
<1>1. \A T : T \subseteq S => IsFiniteSet(T) /\ Cardinality(T) \in Nat
  BY FS_Subset, FS_CardinalityType
<1>2. 0 \in Reached
  <2> SUFFICES ASSUME 0 < Cardinality(S) PROVE \E i \in S : Cardinality(Below(S, i)) = 0
    OBVIOUS
  <2>1. S # {}
    BY FS_EmptySet
  <2>2. PICK i \in S : \A y \in S : i <= y
    BY <2>1, LeastNumber
  <2>3. Below(S, i) = {}
    <3>1. \A k \in S : k \in Nat /\ i \in Nat
      OBVIOUS
    <3>2. \A k \in S : ~(k < i)
      BY <2>2, <3>1
    <3>3. QED
      BY <3>2 DEF Below
  <2>4. QED
    BY <2>3, FS_EmptySet
<1>3. ASSUME NEW m \in Nat, m \in Reached PROVE m + 1 \in Reached
  <2> SUFFICES ASSUME m + 1 < Cardinality(S)
               PROVE  \E i \in S : Cardinality(Below(S, i)) = m + 1
    OBVIOUS
  <2>1. m < Cardinality(S)
    BY <1>1
  <2>2. PICK i \in S : Cardinality(Below(S, i)) = m
    BY <1>3, <2>1
  <2> DEFINE L == Below(S, i) \cup {i}
  <2>3. i \notin Below(S, i) /\ Below(S, i) \subseteq S /\ L \subseteq S
    <3>1. i \in Nat
      OBVIOUS
    <3>2. QED
      BY <3>1 DEF Below
  <2>4. Cardinality(L) = m + 1 /\ IsFiniteSet(L)
    BY <1>1, <2>2, <2>3, FS_AddElement
  <2>5. S \ L # {}
    BY <2>3, <2>4
  <2>6. PICK j \in S \ L : \A y \in S \ L : j <= y
    <3>1. S \ L \in SUBSET Nat
      OBVIOUS
    <3> HIDE DEF L
    <3>2. QED
      BY <2>5, <3>1, LeastNumber
  <2>7. \A k : k \in Below(S, j) <=> k \in L
    <3>1. \A k \in S : k \in Nat
      OBVIOUS
    <3>2. i < j
      BY <2>6, <3>1 DEF Below
    <3>3. \A k \in S : k < j => k \in L
      BY <2>6, <3>1
    <3>4. \A k \in L : k \in S /\ k < j
      BY <2>6, <3>1, <3>2 DEF Below
    <3> HIDE DEF L
    <3>5. QED
      BY <3>3, <3>4 DEF Below
  <2>8. Below(S, j) = L
    <3> HIDE DEF L
    <3>1. QED
      BY <2>7 DEF Below
  <2>9. QED
    BY <2>4, <2>8
<1>4. Nat \subseteq Reached
  <2> HIDE DEF Reached
  <2>1. QED
    BY <1>2, <1>3, Induction
<1>5. n \in Nat /\ n < Cardinality(S)
  BY <1>1
<1>6. QED
  BY <1>4, <1>5
-----------------------------------------------------------------------------
(* Words.                                                                  *)

LEMMA WordStartsType ==
  ASSUME NEW buf \in Texts
  PROVE  /\ WordStarts(buf) \in SUBSET Nat /\ IsFiniteSet(WordStarts(buf))
         /\ Cardinality(WordStarts(buf)) \in Nat
         /\ \A i \in WordStarts(buf) : i \in 1 .. Len(buf) /\ buf[i] # Space
<1>1. WordStarts(buf) \subseteq 1 .. Len(buf) /\ Len(buf) \in Nat
  BY DEF WordStarts, Texts
<1>2. IsFiniteSet(1 .. Len(buf))
  BY <1>1, FS_Interval
<1>3. IsFiniteSet(WordStarts(buf))
  BY <1>1, <1>2, FS_Subset
<1>4. QED
  BY <1>1, <1>3, FS_CardinalityType DEF WordStarts

LEMMA WordEndType ==
  ASSUME NEW buf \in Texts, NEW i \in WordStarts(buf)
  PROVE  WordEnd(buf, i) \in i .. Len(buf)
<1>1. i \in Nat /\ Len(buf) \in Nat /\ i <= Len(buf) /\ buf[i] # Space
  BY WordStartsType DEF Texts
<1> DEFINE Ends == {j \in i .. Len(buf) : j = Len(buf) \/ buf[j + 1] = Space}
<1>2. PICK j \in Ends : \A y \in Ends : j <= y
  <2>1. Ends \in SUBSET Nat /\ Len(buf) \in Ends
    BY <1>1
  <2> HIDE DEF Ends
  <2>2. QED
    BY <2>1, LeastNumber
<1>3. j \in i .. Len(buf) /\ (j = Len(buf) \/ buf[j + 1] = Space)
  OBVIOUS
<1>4. \A k \in i .. j : buf[k] # Space
  <2> SUFFICES ASSUME NEW k \in i .. j, buf[k] = Space PROVE FALSE
    OBVIOUS
  <2>1. k # i
    BY <1>1
  <2>2. k - 1 \in i .. Len(buf) /\ (k - 1) + 1 = k /\ k - 1 < j
    BY <1>1, <1>3, <2>1
  <2>3. k - 1 \in Ends
    BY <2>2
  <2>4. j <= k - 1
    BY <1>2, <2>3
  <2>5. QED
    BY <1>1, <1>3, <2>2, <2>4
<1> HIDE DEF Ends
<1>5. \E m \in i .. Len(buf) : /\ \A k \in i .. m : buf[k] # Space
                               /\ m = Len(buf) \/ buf[m + 1] = Space
  BY <1>3, <1>4
<1>6. QED
  BY <1>5 DEF WordEnd

LEMMA WordsType ==
  ASSUME NEW buf \in Texts
  PROVE  /\ Words(buf) \in Seq(Texts)
         /\ Len(Words(buf)) = Cardinality(WordStarts(buf))
         /\ Len(Words(buf)) \in Nat
<1> DEFINE m == Cardinality(WordStarts(buf))
<1>1. m \in Nat
  BY WordStartsType
<1>2. ASSUME NEW n \in 1 .. m
      PROVE  SubSeq(buf, WordStart(buf, n), WordEnd(buf, WordStart(buf, n))) \in Texts
  <2>1. n - 1 \in 0 .. Cardinality(WordStarts(buf)) - 1
    BY <1>1
  <2>2. \E i \in WordStarts(buf) : Cardinality(Below(WordStarts(buf), i)) = n - 1
    BY <2>1, WordStartsType, RankExists
  <2>3. WordStart(buf, n) \in WordStarts(buf)
    BY <2>2 DEF WordStart, Below
  <2>4. /\ WordStart(buf, n) \in 1 .. Len(buf)
        /\ WordEnd(buf, WordStart(buf, n)) \in WordStart(buf, n) .. Len(buf)
    BY <2>3, WordStartsType, WordEndType
  <2>5. Len(buf) \in Nat
    BY DEF Texts
  <2>6. QED
    BY <2>4, <2>5, Cut
<1> HIDE DEF m
<1>3. /\ [n \in 1 .. m |-> SubSeq(buf, WordStart(buf, n), WordEnd(buf, WordStart(buf, n)))]
            \in Seq(Texts)
      /\ Len([n \in 1 .. m |-> SubSeq(buf, WordStart(buf, n), WordEnd(buf, WordStart(buf, n)))]) = m
  BY <1>1, <1>2
<1>4. QED
  BY <1>1, <1>3 DEF Words, m

\* What is looked at and what is stored are beginnings of the words.
LEMMA StoredFacts ==
  ASSUME NEW buf \in Texts
  PROVE  LET taken == IF Len(Words(buf)) < MaxCmdArg THEN Len(Words(buf)) ELSE MaxCmdArg
         IN  /\ taken \in Nat /\ taken <= MaxCmdArg /\ taken <= Len(Words(buf))
             /\ Len(Taken(buf)) = taken
             /\ \A n \in 1 .. taken : Taken(buf)[n] = Words(buf)[n]
             /\ Len(Stored(buf)) \in 0 .. taken
             /\ \A n \in 1 .. Len(Stored(buf)) : Stored(buf)[n] = Words(buf)[n]
             /\ Stored(buf) \in Seq(Texts)
             /\ Len(Stored(buf)) < taken <=> \E n \in 1 .. taken : ~Fits(Words(buf)[n])
<1> DEFINE taken == IF Len(Words(buf)) < MaxCmdArg THEN Len(Words(buf)) ELSE MaxCmdArg
           good == {n \in 1 .. Len(Taken(buf)) : \A k \in 1 .. n : Fits(Taken(buf)[k])}
<1>1. MaxCmdArg \in Nat /\ Len(Words(buf)) \in Nat /\ Words(buf) \in Seq(Texts)
  BY ConsoleAssumption, WordsType
<1>2. taken \in Nat /\ taken <= MaxCmdArg /\ taken <= Len(Words(buf))
  BY <1>1
<1>3. /\ Taken(buf) = SubSeq(Words(buf), 1, taken)
      /\ Stored(buf) = SubSeq(Taken(buf), 1, Cardinality(good))
  BY DEF Taken, Stored
<1> HIDE DEF taken
<1>4. /\ Len(Taken(buf)) = taken /\ Taken(buf) \in Seq(Texts)
      /\ \A n \in 1 .. taken : Taken(buf)[n] = Words(buf)[n]
  BY <1>1, <1>2, <1>3
<1>5. IsFiniteSet(1 .. taken) /\ Cardinality(1 .. taken) = taken
  BY <1>2, FS_Interval
<1>6. good \subseteq 1 .. taken
  BY <1>4
<1>7. IsFiniteSet(good) /\ Cardinality(good) \in Nat /\ Cardinality(good) <= taken
      /\ (Cardinality(good) = taken => good = 1 .. taken)
  BY <1>5, <1>6, FS_Subset, FS_CardinalityType
<1>8. good = 1 .. taken <=> \A n \in 1 .. taken : Fits(Words(buf)[n])
  <2>1. ASSUME good = 1 .. taken, NEW n \in 1 .. taken PROVE Fits(Words(buf)[n])
    <3>0. n \in good
      <4> HIDE DEF good
      <4>1. QED
        BY <2>1
    <3>1. n \in 1 .. n
      BY <1>2
    <3>2. Fits(Taken(buf)[n])
      BY <3>0, <3>1
    <3>3. QED
      BY <1>4, <3>2
  <2>2. ASSUME \A n \in 1 .. taken : Fits(Words(buf)[n]) PROVE good = 1 .. taken
    <3>1. \A n \in 1 .. taken : \A k \in 1 .. n : k \in 1 .. taken
      BY <1>2
    <3>2. QED
      BY <1>4, <1>6, <2>2, <3>1
  <2>3. QED
    BY <2>1, <2>2
<1> HIDE DEF good
<1>9. /\ Len(Stored(buf)) = Cardinality(good) /\ Stored(buf) \in Seq(Texts)
      /\ \A n \in 1 .. Cardinality(good) : Stored(buf)[n] = Taken(buf)[n] /\ n \in 1 .. taken
  BY <1>2, <1>3, <1>4, <1>7
<1>10. Cardinality(good) < taken <=> good # 1 .. taken
  BY <1>2, <1>5, <1>7
<1>11. QED
  BY <1>2, <1>4, <1>7, <1>8, <1>9, <1>10 DEF taken
-----------------------------------------------------------------------------
(* Type correctness.                                                       *)

LEMMA SlotsType ==
  /\ HstDep \in Nat /\ HstDep > 1 /\ Slots = 0 .. HstDep - 1
  /\ \A i \in Int : Adjust(i) \in Slots /\ i % HstDep \in Slots
<1>1. HstDep \in Nat \ {0} /\ HstDep > 1
  BY ConsoleAssumption
<1>2. QED
  BY <1>1, DivMod DEF Slots, Adjust

LEMMA AdjustType ==
  ASSUME NEW i \in Slots
  PROVE  i \in Int /\ i + 1 \in Int /\ i - 1 \in Int /\ Adjust(i + 1) \in Slots /\ Adjust(i - 1) \in Slots
<1>1. i \in Int /\ i + 1 \in Int /\ i - 1 \in Int
  BY SlotsType
<1>2. QED
  BY ONLY <1>1, SlotsType

LEMMA EmptyText == <<>> \in Texts
  BY DEF Texts

LEMMA TypeInit == Init => TypeOK
<1> SUFFICES ASSUME Init PROVE TypeOK
  OBVIOUS
<1>1. 0 \in Slots
  BY SlotsType
<1>2. MaxCmdLen \in Nat \ {0} /\ Len(<<>>) = 0
  BY ConsoleAssumption
<1>3. intact \in BOOLEAN
  BY Zenon DEF Init
<1>4. QED
  BY <1>1, <1>2, <1>3, EmptyText DEF Init, TypeOK

LEMMA EditType ==
  ASSUME TypeOK, Edit
  PROVE  /\ line' \in Texts /\ cursor' \in 0 .. Len(line')
         /\ UNCHANGED <<hist, sp, hstpos, argv, entered, ran>>
         /\ intact' \in BOOLEAN /\ (intact' => intact /\ Len(line') < MaxCmdLen)
<1>0. /\ MaxCmdLen \in Nat /\ intact \in BOOLEAN /\ Len(line) \in Nat
      /\ (intact => Len(line) < MaxCmdLen)
  BY ConsoleAssumption, BeforeAfter DEF TypeOK
<1>1. CASE \E ch \in Chars : TypeChar(ch)
  <2>1. PICK ch \in Chars : TypeChar(ch)
    BY <1>1
  <2>2. <<ch>> \in Texts /\ Len(<<ch>>) = 1
    BY DEF Texts
  <2>3. Before \o <<ch>> \in Texts /\ Len(Before \o <<ch>>) = cursor + 1
    BY <2>2, BeforeAfter, Join
  <2>4. line' \in Texts /\ Len(line') = (cursor + 1) + (Len(line) - cursor)
    <3> DEFINE front == Before \o <<ch>>
    <3>1. front \in Texts /\ After \in Texts /\ Len(front) = cursor + 1
      BY <2>3, BeforeAfter
    <3>2. line' = front \o After
      BY <2>1 DEF TypeChar
    <3> HIDE DEF front
    <3>3. QED
      BY <3>1, <3>2, Join, BeforeAfter
  <2>5. Len(line') = Len(line) + 1
    BY <2>4, BeforeAfter
  <2>6. intact /\ (intact' <=> Len(line') < MaxCmdLen) /\ intact' \in BOOLEAN
    <3>1. intact /\ intact' = (Len(line) + 1 < MaxCmdLen)
      BY <2>1, Zenon DEF TypeChar
    <3>2. (Len(line) + 1 < MaxCmdLen) \in BOOLEAN
      BY <1>0, SMT
    <3>3. intact' = (Len(line') < MaxCmdLen)
      BY <2>5, <3>1, Zenon
    <3>4. intact' \in BOOLEAN
      BY <3>1, <3>2, Zenon
    <3>5. QED
      BY <3>1, <3>3, <3>4, Zenon
  <2>7. QED
    BY <2>1, <2>4, <2>6, BeforeAfter DEF TypeChar, Edited
<1>2. CASE BackSpaceOneKey
  <2>1. SubSeq(line, 1, cursor - 1) \in Texts /\ Len(SubSeq(line, 1, cursor - 1)) = cursor - 1
    <3>1. cursor - 1 \in Nat /\ cursor - 1 <= Len(line) /\ line \in Texts
      BY <1>2, BeforeAfter DEF BackSpaceOneKey, TypeOK
    <3>2. QED
      BY <3>1, Cut DEF Texts
  <2>2. line' = SubSeq(line, 1, cursor - 1) \o After
    BY <1>2 DEF BackSpaceOneKey
  <2>3. line' \in Texts /\ Len(line') = (cursor - 1) + (Len(line) - cursor)
    BY <2>1, <2>2, BeforeAfter, Join
  <2>4. intact /\ intact' = intact
    BY <1>2 DEF BackSpaceOneKey
  <2>5. QED
    BY <1>0, <1>2, <2>3, <2>4, BeforeAfter DEF BackSpaceOneKey, Edited
<1>3. CASE DeleteOneKey
  <2>1. Tail(After) \in Texts /\ Len(Tail(After)) = Len(line) - cursor - 1
    BY <1>3, BeforeAfter DEF DeleteOneKey, Texts
  <2>2. line' \in Texts /\ Len(line') = cursor + Len(Tail(After))
    BY <1>3, <2>1, BeforeAfter, Join DEF DeleteOneKey
  <2>3. intact /\ intact' = intact
    BY <1>3 DEF DeleteOneKey
  <2>4. QED
    BY <1>0, <1>3, <2>1, <2>2, <2>3, BeforeAfter DEF DeleteOneKey, Edited
<1>4. CASE MoveCursor
  BY <1>0, <1>4 DEF MoveCursor, Edited, TypeOK
<1>5. QED
  BY <1>1, <1>2, <1>3, <1>4 DEF Edit

LEMMA TypeInductive == TypeOK /\ [Next]_vars => TypeOK'
<1> SUFFICES ASSUME TypeOK, [Next]_vars PROVE TypeOK'
  OBVIOUS
<1>0. /\ MaxCmdLen \in Nat \ {0} /\ intact \in BOOLEAN /\ Len(<<>>) = 0
      /\ (intact => Len(line) < MaxCmdLen)
      /\ \A i \in Slots : Len(hist[i]) < MaxCmdLen
  BY ConsoleAssumption DEF TypeOK
<1>1. CASE Edit
  BY <1>1, EditType DEF TypeOK
<1>2. CASE CmdUpKey
  <2>0. intact /\ intact' = intact
    BY <1>2 DEF CmdUpKey
  <2>1. SaveCurrent \in [Slots -> Texts] /\ \A i \in Slots : Len(SaveCurrent[i]) < MaxCmdLen
    <3>1. Before \in Texts /\ Len(Before) < MaxCmdLen
      BY <1>0, <2>0, BeforeAfter
    <3>2. QED
      BY <1>0, <3>1 DEF SaveCurrent, SavedLine, TypeOK
  <2>2. Adjust(hstpos - 1) \in Slots
    BY AdjustType DEF TypeOK
  <2>3. /\ SaveCurrent[Adjust(hstpos - 1)] \in Texts
        /\ Len(SaveCurrent[Adjust(hstpos - 1)]) < MaxCmdLen
    BY <2>1, <2>2
  <2>4. /\ line' \in Texts /\ cursor' \in 0 .. Len(line') /\ hstpos' \in Slots
        /\ Len(line') < MaxCmdLen
    BY <1>0, <1>2, <2>0, <2>2, <2>3 DEF CmdUpKey, TypeOK, Texts
  <2>5. hist' = SaveCurrent /\ UNCHANGED <<sp, argv, entered, ran>>
    BY <1>2 DEF CmdUpKey
  <2>6. QED
    BY <1>0, <2>0, <2>1, <2>4, <2>5 DEF TypeOK
<1>3. CASE CmdDownKey
  <2>1. Adjust(hstpos + 1) \in Slots
    BY AdjustType DEF TypeOK
  <2>2. hist[Adjust(hstpos + 1)] \in Texts /\ Len(hist[Adjust(hstpos + 1)]) < MaxCmdLen
    BY <1>0, <2>1 DEF TypeOK
  <2>3. /\ line' \in Texts /\ cursor' \in 0 .. Len(line') /\ hstpos' \in Slots
        /\ Len(line') < MaxCmdLen
    BY <1>3, <2>1, <2>2 DEF CmdDownKey, Texts
  <2>4. QED
    BY <1>0, <1>3, <2>3 DEF CmdDownKey, TypeOK
<1>4. CASE Abandon
  BY <1>0, <1>4, EmptyText DEF Abandon, TypeOK
<1>5. CASE Enter
  <2>1. line \in Texts /\ entered \in Seq(Texts) /\ sp \in Slots /\ sp \in Int
    BY SlotsType DEF TypeOK
  <2>2. Adjust(sp + 1) \in Slots
    BY <2>1, AdjustType
  <2>3. argv' \in [1 .. MaxCmdArg -> Texts \cup {NoCommand}]
    <3>1. \A n \in 1 .. Len(Stored(line)) : Stored(line)[n] \in Texts
      BY <2>1, StoredFacts
    <3>2. Len(Stored(line)) \in Nat
      BY <2>1, StoredFacts
    <3>3. MaxCmdArg \in Nat
      BY ConsoleAssumption
    <3>4. \A i \in 1 .. MaxCmdArg : i <= Len(Stored(line)) => i \in 1 .. Len(Stored(line))
      BY <3>2, <3>3
    <3>5. QED
      BY <1>5, <3>1, <3>4 DEF Enter, ArgvAfter, TypeOK
  <2>4. hist' \in [Slots -> Texts] /\ \A i \in Slots : Len(hist'[i]) < MaxCmdLen
    <3>1. hist' = [hist EXCEPT ![sp] = line] /\ Len(line) < MaxCmdLen
      BY <1>0, <1>5 DEF Enter
    <3>2. QED
      BY <1>0, <2>1, <3>1 DEF TypeOK
  <2>5. entered' \in Seq(Texts) /\ Len(entered') = Len(entered) + 1
    BY <1>5, <2>1 DEF Enter
  <2>6. Len(ran') = Len(ran) + 1
    BY <1>5 DEF Enter, TypeOK
  <2>7. QED
    BY <1>0, <1>5, <2>1, <2>2, <2>3, <2>4, <2>5, <2>6, EmptyText DEF Enter, TypeOK
<1>6. CASE UNCHANGED vars
  BY <1>6 DEF vars, TypeOK
<1>7. QED
  BY <1>1, <1>2, <1>3, <1>4, <1>5, <1>6 DEF Next, Browse, Overrun

\* The cursor stays within the line, both positions within the history ring,
\* and argv holds words or what it held at the start; and no slot of the ring
\* is ever given a line it has no room for.
THEOREM TypeCorrect == Spec => []TypeOK
  BY TypeInit, TypeInductive, PTL DEF Spec
-----------------------------------------------------------------------------
(* The history ring.                                                       *)

LEMMA SmallMod ==
  ASSUME NEW j \in Int, -HstDep <= j, j < 2 * HstDep
  PROVE  j % HstDep = IF j < 0 THEN j + HstDep ELSE IF j < HstDep THEN j ELSE j - HstDep
<1>1. HstDep \in Nat \ {0}
  BY ConsoleAssumption
<1>2. CASE j < 0
  <2>1. j = (-1) * HstDep + (j + HstDep) /\ j + HstDep \in 0 .. HstDep - 1
    BY <1>1, <1>2
  <2>2. QED
    BY <1>1, <1>2, <2>1, DivModUnique
<1>3. CASE j >= 0 /\ j < HstDep
  <2>1. j = 0 * HstDep + j /\ j \in 0 .. HstDep - 1
    BY <1>1, <1>3
  <2>2. QED
    BY <1>1, <1>3, <2>1, DivModUnique
<1>4. CASE j >= HstDep
  <2>1. j = 1 * HstDep + (j - HstDep) /\ j - HstDep \in 0 .. HstDep - 1
    BY <1>1, <1>4
  <2>2. QED
    BY <1>1, <1>4, <2>1, DivModUnique
<1>5. QED
  BY <1>1, <1>2, <1>3, <1>4

\* Slots behind the current one, and the same seen from the next.
LEMMA Behind ==
  ASSUME NEW s \in Slots, NEW k \in 1 .. HstDep - 1
  PROVE  /\ (s - k) % HstDep \in Slots /\ (s - k) % HstDep # s
         /\ (Adjust(s + 1) - 1) % HstDep = s
         /\ k > 1 => (Adjust(s + 1) - k) % HstDep = (s - (k - 1)) % HstDep
<1>1. HstDep \in Nat /\ HstDep > 1 /\ s \in 0 .. HstDep - 1 /\ k \in 1 .. HstDep - 1
  BY SlotsType
<1>2. (s - k) % HstDep = IF s - k < 0 THEN s - k + HstDep ELSE s - k
  BY <1>1, SmallMod
<1>3. Adjust(s + 1) = IF s + 1 < HstDep THEN s + 1 ELSE 0
  BY <1>1, SmallMod DEF Adjust
<1> DEFINE next == Adjust(s + 1)
<1> HIDE DEF next
<1>4. next = IF s + 1 < HstDep THEN s + 1 ELSE 0
  BY <1>3 DEF next
<1>5. (next - 1) % HstDep = IF next - 1 < 0 THEN next - 1 + HstDep ELSE next - 1
  BY <1>1, <1>4, SmallMod
<1>6. (next - k) % HstDep = IF next - k < 0 THEN next - k + HstDep ELSE next - k
  BY <1>1, <1>4, SmallMod
<1>7. (s - (k - 1)) % HstDep = IF s - (k - 1) < 0 THEN s - (k - 1) + HstDep ELSE s - (k - 1)
  BY <1>1, SmallMod
<1>8. (s - k) % HstDep \in Slots /\ (s - k) % HstDep # s
  <2>1. (s - k) % HstDep \in 0 .. HstDep - 1 /\ (s - k) % HstDep # s
    BY <1>1, <1>2
  <2>2. Slots = 0 .. HstDep - 1
    BY SlotsType
  <2>3. QED
    BY <2>1, <2>2
<1>9. (next - 1) % HstDep = s
  BY <1>1, <1>4, <1>5
<1>10. k > 1 => (next - k) % HstDep = (s - (k - 1)) % HstDep
  BY <1>1, <1>4, <1>6, <1>7
<1>11. QED
  BY <1>8, <1>9, <1>10 DEF next

\* Every other slot is behind the current one.
LEMMA Distance ==
  ASSUME NEW s \in Slots, NEW i \in Slots, i # s
  PROVE  /\ (s - i) % HstDep \in 1 .. HstDep - 1
         /\ (s - ((s - i) % HstDep)) % HstDep = i
<1>1. HstDep \in Nat /\ HstDep > 1 /\ s \in 0 .. HstDep - 1 /\ i \in 0 .. HstDep - 1
  BY SlotsType
<1> DEFINE d == (s - i) % HstDep
<1>2. d = IF s - i < 0 THEN s - i + HstDep ELSE s - i
  BY <1>1, SmallMod
<1> HIDE DEF d
<1>3. d \in 1 .. HstDep - 1
  BY <1>1, <1>2
<1>4. (s - d) % HstDep = IF s - d < 0 THEN s - d + HstDep ELSE s - d
  BY <1>1, <1>3, SmallMod
<1>5. (s - d) % HstDep = i
  BY <1>1, <1>2, <1>4
<1>6. QED
  BY <1>3, <1>5 DEF d

LEMMA HistoryInit == Init => HistoryHolds
<1> SUFFICES ASSUME Init, NEW k \in 1 .. HstDep - 1
             PROVE  hist[(sp - k) % HstDep] = EnteredBefore(k)
  BY DEF HistoryHolds
<1>1. (sp - k) % HstDep \in Slots
  <2>1. sp \in Slots
    BY SlotsType DEF Init
  <2>2. QED
    BY <2>1, Behind
<1>2. k \notin 1 .. Len(entered)
  BY SlotsType DEF Init
<1>3. QED
  BY <1>1, <1>2 DEF Init, EnteredBefore

\* Nothing is undone: a buffer that was overrun stays so.
LEMMA StillIntact ==
  ASSUME TypeOK, [Next]_vars, intact'
  PROVE  intact
<1>1. CASE Edit
  BY <1>1, EditType
<1>2. CASE ~ Edit
  BY <1>2 DEF Next, vars, Browse, CmdUpKey, CmdDownKey, Abandon, Enter, Overrun
<1>3. QED
  BY <1>1, <1>2

LEMMA HistoryInductive == TypeOK /\ HistoryHolds /\ [Next]_vars => HistoryHolds'
<1> SUFFICES ASSUME TypeOK, HistoryHolds, [Next]_vars, intact',
                    NEW k \in 1 .. HstDep - 1
             PROVE  hist'[(sp' - k) % HstDep] = EnteredBefore(k)'
  BY DEF HistoryHolds
<1>0. intact
  BY StillIntact
<1>1. /\ sp \in Slots /\ (sp - k) % HstDep \in Slots /\ (sp - k) % HstDep # sp
      /\ hist[(sp - k) % HstDep] = EnteredBefore(k)
      /\ hist \in [Slots -> Texts]
  BY <1>0, Behind DEF TypeOK, HistoryHolds
<1>2. CASE UNCHANGED <<sp, entered, hist>>
  BY <1>1, <1>2 DEF EnteredBefore
<1>3. CASE CmdUpKey
  <2>1. hist'[(sp - k) % HstDep] = hist[(sp - k) % HstDep]
    BY <1>1, <1>3 DEF CmdUpKey, SaveCurrent
  <2>2. UNCHANGED <<sp, entered>>
    BY <1>3 DEF CmdUpKey
  <2>3. QED
    BY <1>1, <2>1, <2>2 DEF EnteredBefore
<1>4. CASE Enter
  <2>1. /\ sp' = Adjust(sp + 1) /\ entered' = Append(entered, line)
        /\ hist' = [hist EXCEPT ![sp] = line]
        /\ entered \in Seq(Texts) /\ line \in Texts /\ HstDep \in Nat /\ k \in Nat
    BY <1>4, SlotsType DEF Enter, TypeOK
  <2>2. CASE k = 1
    <3>1. hist'[(sp' - k) % HstDep] = line
      BY <1>1, <2>1, <2>2, Behind
    <3>2. Len(entered') = Len(entered) + 1 /\ Len(entered) \in Nat /\ entered'[Len(entered) + 1] = line
      BY <2>1
    <3>3. k \in 1 .. Len(entered') /\ Len(entered') - k + 1 = Len(entered) + 1
      BY <2>2, <3>2
    <3>4. QED
      BY <3>1, <3>2, <3>3 DEF EnteredBefore
  <2>3. CASE k > 1
    <3>1. k - 1 \in 1 .. HstDep - 1
      BY <2>1, <2>3
    <3>2. /\ (sp' - k) % HstDep = (sp - (k - 1)) % HstDep
          /\ (sp - (k - 1)) % HstDep \in Slots /\ (sp - (k - 1)) % HstDep # sp
      BY <1>1, <2>1, <2>3, <3>1, Behind
    <3>3. hist'[(sp' - k) % HstDep] = hist[(sp - (k - 1)) % HstDep]
      BY <1>1, <2>1, <3>2
    <3>4. hist[(sp - (k - 1)) % HstDep] = EnteredBefore(k - 1)
      BY <1>0, <3>1 DEF HistoryHolds
    <3>5. EnteredBefore(k)' = EnteredBefore(k - 1)
      <4>1. Len(entered') = Len(entered) + 1 /\ Len(entered) \in Nat
            /\ \A n \in 1 .. Len(entered) : entered'[n] = entered[n]
        BY <2>1
      <4>2. k \in 1 .. Len(entered') <=> k - 1 \in 1 .. Len(entered)
        BY <2>1, <2>3, <4>1
      <4>3. Len(entered') - k + 1 = Len(entered) - (k - 1) + 1
        BY <2>1, <4>1
      <4>4. k - 1 \in 1 .. Len(entered) => Len(entered) - (k - 1) + 1 \in 1 .. Len(entered)
        BY <2>1, <4>1
      <4>5. QED
        BY <4>1, <4>2, <4>3, <4>4 DEF EnteredBefore
    <3>6. QED
      BY <3>3, <3>4, <3>5
  <2>4. QED
    BY <2>1, <2>2, <2>3
<1>5. CASE Edit
  BY <1>2, <1>5, EditType
<1>6. CASE CmdDownKey
  BY <1>2, <1>6 DEF CmdDownKey
<1>7. CASE Abandon
  BY <1>2, <1>7 DEF Abandon
<1>8. CASE UNCHANGED vars
  BY <1>2, <1>8 DEF vars
<1>9. QED
  BY <1>3, <1>4, <1>5, <1>6, <1>7, <1>8 DEF Next, Browse, Overrun

\* The ring keeps the last HstDep - 1 lines that were entered, for a ring of
\* any depth, whatever is typed, browsed, saved or abandoned in between, as
\* long as no key was written past the line buffer.
THEOREM HistoryCorrect == Spec => []HistoryHolds
<1>1. Init => TypeOK /\ HistoryHolds
  BY TypeInit, HistoryInit
<1>2. TypeOK /\ HistoryHolds /\ [Next]_vars => TypeOK' /\ HistoryHolds'
  BY TypeInductive, HistoryInductive
<1>3. QED
  BY <1>1, <1>2, PTL DEF Spec

\* Up and Down show the entry that the slot they move to stands for, as long
\* as no key was written past the line buffer.
THEOREM BrowseCorrect == Spec => BrowseShows
<1>1. TypeOK /\ HistoryHolds /\ [Next]_vars
      => [intact /\ hstpos' # hstpos /\ entered' = entered /\ hstpos' # sp =>
            line' = EnteredBefore((sp - hstpos') % HstDep)]_vars
  <2> SUFFICES ASSUME TypeOK, HistoryHolds, Next, intact,
                      hstpos' # hstpos, entered' = entered, hstpos' # sp
               PROVE  line' = EnteredBefore((sp - hstpos') % HstDep)
    OBVIOUS
  <2>1. ASSUME hstpos' \in Slots, line' = hist[hstpos']
        PROVE  line' = EnteredBefore((sp - hstpos') % HstDep)
    <3>1. sp \in Slots
      BY DEF TypeOK
    <3>2. /\ (sp - hstpos') % HstDep \in 1 .. HstDep - 1
          /\ (sp - ((sp - hstpos') % HstDep)) % HstDep = hstpos'
      BY <2>1, <3>1, Distance
    <3>3. QED
      BY <2>1, <3>2 DEF HistoryHolds
  <2>2. CASE CmdUpKey
    <3> DEFINE index == Adjust(hstpos - 1)
    <3>1. index \in Slots
      BY AdjustType DEF TypeOK
    <3>2. index # sp /\ hstpos' = index /\ line' = SaveCurrent[index]
      BY <2>2 DEF CmdUpKey
    <3> HIDE DEF index
    <3>3. SaveCurrent[index] = hist[index]
      BY <3>1, <3>2 DEF SaveCurrent, TypeOK
    <3>4. QED
      BY <2>1, <3>1, <3>2, <3>3
  <2>3. CASE CmdDownKey
    <3>1. Adjust(hstpos + 1) \in Slots
      BY AdjustType DEF TypeOK
    <3>2. QED
      BY <2>1, <2>3, <3>1 DEF CmdDownKey
  <2>4. CASE Edit
    BY <2>4, EditType
  <2>5. CASE Abandon
    BY <2>5 DEF Abandon
  <2>6. CASE Enter
    <3>1. Len(entered') = Len(entered) + 1 /\ Len(entered) \in Nat
      BY <2>6 DEF Enter, TypeOK
    <3>2. QED
      BY <3>1
  <2>7. QED
    BY <2>2, <2>3, <2>4, <2>5, <2>6 DEF Next, Browse, Overrun
<1>2. QED
  BY <1>1, TypeCorrect, HistoryCorrect, PTL DEF Spec, BrowseShows
-----------------------------------------------------------------------------
(* Dispatch.                                                               *)

RunsOf(text, looked) ==
    Words(text) # <<>> =>
        looked = IF \E k \in 1 .. Len(Words(text)) :
                       k <= MaxCmdArg /\ Len(Words(text)[k]) > MaxCmdArgLen - 1
                 THEN "error" ELSE Words(text)[1]

LEMMA EnterRuns ==
  ASSUME TypeOK, Enter
  PROVE  ran' = Append(ran, ran'[Len(ran) + 1]) /\ RunsOf(line, ran'[Len(ran) + 1])
<1> DEFINE looked == IF Len(Stored(line)) < Len(Taken(line)) THEN "error" ELSE argv'[1]
           taken == IF Len(Words(line)) < MaxCmdArg THEN Len(Words(line)) ELSE MaxCmdArg
<1>1. ran' = Append(ran, looked)
  BY DEF Enter
<1>2. /\ taken \in Nat /\ Len(Taken(line)) = taken
      /\ Len(Stored(line)) \in 0 .. taken
      /\ \A n \in 1 .. Len(Stored(line)) : Stored(line)[n] = Words(line)[n]
      /\ Len(Stored(line)) < taken <=> \E n \in 1 .. taken : ~Fits(Words(line)[n])
  BY StoredFacts DEF TypeOK
<1>3. /\ MaxCmdArg \in Nat /\ MaxCmdArg > 0 /\ MaxCmdArgLen \in Nat
      /\ Words(line) \in Seq(Texts) /\ Len(Words(line)) \in Nat
  BY ConsoleAssumption, WordsType DEF TypeOK
<1>4. \A n \in 1 .. Len(Words(line)) :
         Fits(Words(line)[n]) <=> ~(Len(Words(line)[n]) > MaxCmdArgLen - 1)
  <2>1. \A n \in 1 .. Len(Words(line)) : Len(Words(line)[n]) \in Nat
    BY <1>3 DEF Texts
  <2>2. QED
    BY <1>3, <2>1 DEF Fits
<1>5. \A n : n \in 1 .. taken <=> n \in 1 .. Len(Words(line)) /\ n <= MaxCmdArg
  BY <1>3
<1>6. (\E n \in 1 .. taken : ~Fits(Words(line)[n])) <=>
      \E k \in 1 .. Len(Words(line)) : k <= MaxCmdArg /\ Len(Words(line)[k]) > MaxCmdArgLen - 1
  BY <1>4, <1>5
<1>7. RunsOf(line, looked)
  <2> SUFFICES ASSUME Words(line) # <<>>
               PROVE  looked = IF \E k \in 1 .. Len(Words(line)) :
                                    k <= MaxCmdArg /\ Len(Words(line)[k]) > MaxCmdArgLen - 1
                               THEN "error" ELSE Words(line)[1]
    BY DEF RunsOf
  <2>1. taken > 0
    BY <1>3
  <2>2. CASE Len(Stored(line)) < taken
    BY <1>2, <1>6, <2>2
  <2>3. CASE ~(Len(Stored(line)) < taken)
    <3>1. Len(Stored(line)) = taken /\ 1 \in 1 .. Len(Stored(line)) /\ 1 \in 1 .. MaxCmdArg
      BY <1>2, <1>3, <2>1, <2>3
    <3>2. argv'[1] = Stored(line)[1]
      BY <3>1 DEF Enter, ArgvAfter
    <3>3. argv'[1] = Words(line)[1]
      BY <1>2, <3>1, <3>2
    <3>4. QED
      BY <1>2, <1>6, <2>3, <3>3
  <2>4. QED
    BY <2>2, <2>3
<1>8. QED
  BY <1>1, <1>7 DEF TypeOK

LEMMA RunsInductive == TypeOK /\ RunsFirstWord /\ [Next]_vars => RunsFirstWord'
<1> SUFFICES ASSUME TypeOK, RunsFirstWord, [Next]_vars, intact' PROVE RunsFirstWord'
  BY DEF RunsFirstWord
<1>0. intact
  BY StillIntact
<1>1. \A n \in 1 .. Len(entered) : RunsOf(entered[n], ran[n])
  BY <1>0 DEF RunsFirstWord, RunsOf
<1>2. (\A n \in 1 .. Len(entered') : RunsOf(entered'[n], ran'[n])) => RunsFirstWord'
  BY DEF RunsFirstWord, RunsOf
<1>3. CASE UNCHANGED <<entered, ran>>
  BY <1>1, <1>2, <1>3
<1>4. CASE Enter
  <2>1. /\ entered' = Append(entered, line) /\ entered \in Seq(Texts) /\ line \in Texts
        /\ Len(ran) = Len(entered) /\ Len(entered) \in Nat
    BY <1>4 DEF Enter, TypeOK
  <2>2. ran' = Append(ran, ran'[Len(ran) + 1]) /\ RunsOf(line, ran'[Len(ran) + 1])
    BY <1>4, EnterRuns
  <2>3. /\ Len(entered') = Len(entered) + 1 /\ entered'[Len(entered) + 1] = line
        /\ \A n \in 1 .. Len(entered) : entered'[n] = entered[n]
    BY <2>1
  <2>4. \A n \in 1 .. Len(entered) : ran'[n] = ran[n]
    BY <2>1, <2>2
  <2>5. \A n \in 1 .. Len(entered') : n \in 1 .. Len(entered) \/ n = Len(entered) + 1
    BY <2>1, <2>3
  <2>6. QED
    BY <1>1, <1>2, <2>1, <2>2, <2>3, <2>4, <2>5
<1>5. CASE Edit
  BY <1>3, <1>5, EditType
<1>6. CASE Browse
  BY <1>3, <1>6 DEF Browse, CmdUpKey, CmdDownKey
<1>7. CASE Abandon
  BY <1>3, <1>7 DEF Abandon
<1>8. CASE UNCHANGED vars
  BY <1>3, <1>8 DEF vars
<1>9. QED
  BY <1>4, <1>5, <1>6, <1>7, <1>8 DEF Next, Overrun

\* A line runs its first word exactly if every word that argv has room for
\* fits its slot, for any limits of a word and of a line, as long as no key
\* was written past the line buffer.
THEOREM DispatchCorrect == Spec => []RunsFirstWord
<1>1. Init => TypeOK /\ RunsFirstWord
  BY TypeInit DEF Init, RunsFirstWord
<1>2. TypeOK /\ RunsFirstWord /\ [Next]_vars => TypeOK' /\ RunsFirstWord'
  BY TypeInductive, RunsInductive
<1>3. QED
  BY <1>1, <1>2, PTL DEF Spec
=============================================================================
