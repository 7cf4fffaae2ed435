-------------------------- MODULE NandDriverProofs --------------------------
(***************************************************************************)
(* Theorems about NandDriver.  For every geometry and every buffer: types, *)
(* the spare areas under a stale write offset and, when no answer is late, *)
(* what an erase reports.  For the geometries of Fits, whose pages the     *)
(* command queues carry whole, and without late answers: the position of   *)
(* the loops, the refinement of NandStore, and that test_nand_write reads  *)
(* back what it has written.                                               *)
(***************************************************************************)
EXTENDS NandSelfTest, NatLemmas, TLAPS

\* The running call: its chip is selected, its buffer has the length it was
\* called with, and it has not moved more than it was asked to.
CallOK ==
    /\ selected = (pc # "idle")
    /\ pc = "write" => Len(req.buf) = req.total * RealPageSize(req.withoob)
    /\ pc \in {"read", "write"} => done <= req.total
    /\ pc = "erase" => done + failed <= req.total
    /\ pc = "mark" => done <= 2
    /\ pc = "second_mark" => done <= 1 /\ "mark" \in Ops

LEMMA NumPagesType == NumPages \in Nat \ {0}
  BY GeometryAssumption DEF NumPages

LEMMA Geometry ==
  /\ NumBlocks \in Nat \ {0} /\ PagesPerBlock \in Nat \ {0}
  /\ PageSize \in Nat \ {0} /\ OobSize \in Nat \ {0}
  /\ NumPages \in Nat \ {0} /\ Pages = 0 .. NumPages - 1
  /\ MaxTotal \in Nat \ {0} /\ MaxFailed \in Nat /\ PageSpan \in Nat
  /\ DmaData \in Nat \ {0} /\ DmaOob \in Nat \ {0} /\ MaxOob \in Nat \ {0}
  /\ NumPages + PagesPerBlock + 2 * MaxTotal + MaxFailed <= PageSpan
  BY NumPagesType, GeometryAssumption, DriverAssumption DEF Pages

\* A row address is a page of the device.
LEMMA RowType ==
  ASSUME NEW p \in Nat
  PROVE  Row(p) \in Pages
  BY NumPagesType DEF Row, Pages

\* The page counter stays below its wrap.
LEMMA AdvanceType ==
  ASSUME NEW p \in 0 .. PageSpan - 1, NEW n \in 1 .. PagesPerBlock
  PROVE  Advance(p, n) \in 0 .. PageSpan - 1
  BY GeometryAssumption, DriverAssumption, NumPagesType DEF Advance

LEMMA BlockOfType ==
  ASSUME NEW p \in Nat
  PROVE  BlockOf(p) \in 0 .. p
  BY GeometryAssumption DEF BlockOf

LEMMA MarkerPageType ==
  ASSUME NEW p \in Pages
  PROVE  MarkerPage(p) \in 0 .. PageSpan - 1
  BY GeometryAssumption, DriverAssumption, NumPagesType DEF MarkerPage, Pages

\* Programming keeps a page a page.
LEMMA ProgramCellsType ==
  ASSUME NEW old \in PageContents, NEW new \in PageContents, NEW touched
  PROVE  ProgramCells(old, new, touched) \in PageContents
<1>1. ASSUME NEW x \in Val, NEW y \in Val
      PROVE  ProgramCell(x, y) \in Val
  BY DEF ProgramCell, Val
<1>2. ASSUME NEW c \in Cells
      PROVE  (IF c \in touched THEN ProgramCell(old[c], new[c]) ELSE old[c]) \in Val
  BY <1>1 DEF PageContents
<1>3. QED
  BY <1>2 DEF ProgramCells, PageContents

LEMMA EraseAtType ==
  ASSUME NEW f \in [Pages -> PageContents], NEW r
  PROVE  EraseAt(f, r) \in [Pages -> PageContents]
  BY DEF EraseAt, PageContents, ErasedPage, Val

\* The cells of the buffer that reach the device.
LEMMA MovedType ==
  ASSUME NEW buffer \in [DmaArea -> Val], NEW column \in {0, PageSize}
  PROVE  Moved(column, buffer) \in PageContents
<1>1. ASSUME NEW c \in Cells, c \in Touched(column)
      PROVE  OffsetAfter(column) + c - column \in DmaArea
  BY GeometryAssumption, DriverAssumption, <1>1
     DEF Touched, QueueCells, OffsetAfter, DmaArea, Cells
<1>2. FF \in Val
  BY DEF Val
<1>3. QED
  BY <1>1, <1>2 DEF Moved, PageContents

LEMMA RealPageSizeType ==
  ASSUME NEW oob \in BOOLEAN
  PROVE  RealPageSize(oob) \in 1 .. PageSize + OobSize
  BY GeometryAssumption DEF RealPageSize

LEMMA ProgramTyped ==
  ASSUME flash \in [Pages -> PageContents],
         NEW o, NEW p \in Nat, NEW column \in {0, PageSize},
         NEW buffer \in [DmaArea -> Val],
         PageProgram(o, p, column, buffer)
  PROVE  flash' \in [Pages -> PageContents]
<1>1. Row(p) \in Pages
  BY RowType
<1>2. ProgramCells(flash[Row(p)], Moved(column, buffer), Touched(column)) \in PageContents
  BY <1>1, MovedType, ProgramCellsType
<1>3. QED
  BY <1>1, <1>2 DEF PageProgram

\* A read leaves the buffer a buffer.
LEMMA PageReadType ==
  ASSUME flash \in [Pages -> PageContents],
         NEW o, NEW p \in Nat, NEW column, NEW buffer \in [DmaArea -> Val]
  PROVE  PageRead(o, p, column, buffer) \in [DmaArea -> Val]
<1>1. flash[Row(p)] \in [Cells -> Val] /\ FF \in Val
  BY RowType DEF PageContents, Val
<1>2. QED
  BY <1>1 DEF PageRead

\* nand_read_buf stays inside the buffer.
LEMMA ReadOffsetType ==
  /\ ReadOffset(0) = 0
  /\ ReadOffset(PageSize) \in 0 .. PageSize
  BY GeometryAssumption, DriverAssumption DEF ReadOffset

LEMMA CheckedType ==
  ASSUME TypeOK, NEW o
  PROVE  Checked(o) \in [DmaArea -> Val]
<1>1. MarkerPage(req.from) \in Nat
  BY MarkerPageType DEF TypeOK
<1>2. QED
  BY <1>1, PageReadType DEF Checked, TypeOK

LEMMA StatusAfterType ==
  ASSUME TypeOK, NEW o \in {"ok", "fail", "late"}
  PROVE  StatusAfter(o) \in StatusBytes
  BY DEF StatusAfter, TypeOK, StatusBytes

LEMMA OutcomesType ==
  /\ ProgramOutcomes \subseteq {"ok", "fail", "late"}
  /\ ReadOutcomes \subseteq {"ok", "fail", "late"}
  BY DriverAssumption DEF ProgramOutcomes, ReadOutcomes

\* The part of the caller's buffer that WritePage stages is inside it.
LEMMA StagedType ==
  ASSUME TypeOK, CallOK, pc = "write", done < req.total
  PROVE  Staged(req.buf, done * RealPageSize(req.withoob) + 1,
                RealPageSize(req.withoob)) \in [DmaArea -> Val]
<1> DEFINE R == RealPageSize(req.withoob)
<1>1. R \in Nat /\ done \in Nat /\ req.total \in Nat /\ req.buf \in Seq(Val)
  BY RealPageSizeType DEF TypeOK
<1>2. Len(req.buf) = req.total * R
  BY DEF CallOK
<1>3. done * R + R <= req.total * R /\ done * R \in Nat /\ req.total * R \in Nat
  <2> HIDE DEF R
  <2>1. done * R + R <= req.total * R
    BY <1>1, ProductStep
  <2>2. done * R \in Nat /\ req.total * R \in Nat
    BY <1>1
  <2>3. QED
    BY <2>1, <2>2
<1> DEFINE dR == done * R
<1>4. ASSUME NEW i \in DmaArea, i \in wOffset .. wOffset + R - 1
      PROVE  dR + 1 + i - wOffset \in 1 .. Len(req.buf)
  <2>1. wOffset \in Nat /\ i \in Nat
    BY Geometry, <1>4 DEF TypeOK, DmaArea
  <2>2. dR \in Nat /\ dR + R <= Len(req.buf) /\ Len(req.buf) \in Nat
    BY <1>1, <1>2, <1>3
  <2> HIDE DEF dR, R
  <2>3. QED
    BY <2>1, <2>2, <1>4, <1>1
<1>5. ASSUME NEW i \in DmaArea
      PROVE  (IF i \in wOffset .. wOffset + R - 1
              THEN req.buf[dR + 1 + i - wOffset] ELSE FF) \in Val
  BY <1>4, <1>1 DEF Val
<1>6. QED
  BY <1>5 DEF Staged

LEMMA InitTyped == Init => TypeOK /\ CallOK
<1> SUFFICES ASSUME Init PROVE TypeOK /\ CallOK
  OBVIOUS
<1>1. flash \in [Pages -> PageContents]
  BY DriverAssumption DEF Init, PageContents, Val
<1>2. req \in [from : Pages, total : 0 .. MaxTotal, withoob : BOOLEAN,
                buf : Seq(Val)]
  BY DriverAssumption, NumPagesType DEF Init, NoRequest, Pages
<1>3. page \in 0 .. PageSpan - 1
  BY GeometryAssumption, DriverAssumption, NumPagesType DEF Init
<1>4. dma \in [DmaArea -> Val]
  BY DEF Init, Val
<1>5. TypeOK
  <2>1. out \in Seq(Val) /\ pc \in {"idle", "second_mark"} \cup Ops
    BY DEF Init
  <2>2. wOffset \in {0, DmaData} /\ selected \in BOOLEAN /\ status \in StatusBytes
    BY DEF Init, StatusBytes, StatusNone
  <2>3. done \in 0 .. MaxTotal + 1 /\ failed \in 0 .. MaxFailed + MaxTotal
    BY DriverAssumption DEF Init
  <2>4. ret \in {-1} \cup StatusBytes /\ reported \subseteq Nat
    BY DEF Init, StatusBytes, StatusNone
  <2>5. QED
    BY <1>1, <1>2, <1>3, <1>4, <2>1, <2>2, <2>3, <2>4 DEF TypeOK
<1>6. selected = (pc # "idle")
  BY DEF Init
<1>7. QED
  BY <1>5, <1>6 DEF Init, CallOK

\* The entry points leave well-typed loop variables.
LEMMA CallTyped ==
  ASSUME TypeOK, CallOK,
         NEW op, NEW from \in Pages, NEW total \in 0 .. MaxTotal,
         NEW withoob \in BOOLEAN, NEW buf \in Seq(Val),
         NEW first \in 0 .. PageSpan - 1,
         Call(op, from, total, withoob, buf, first),
         op = "write" => Len(buf) = total * RealPageSize(withoob)
  PROVE  TypeOK' /\ CallOK'
<1>1. req' \in [from : Pages, total : 0 .. MaxTotal, withoob : BOOLEAN,
                 buf : Seq(Val)]
  BY DEF Call
<1>2. TypeOK'
  <2>1. /\ done' \in 0 .. MaxTotal + 1 /\ failed' \in 0 .. MaxFailed + MaxTotal
        /\ ret' \in {-1} \cup StatusBytes /\ page' \in 0 .. PageSpan - 1
    BY Geometry DEF Call, StatusBytes, StatusNone
  <2>2. pc' \in Ops /\ selected' \in BOOLEAN /\ reported' \subseteq Nat /\ out' \in Seq(Val)
    BY DEF Call
  <2>3. flash' = flash /\ dma' = dma /\ wOffset' = wOffset /\ status' = status
    BY DEF Call
  <2>4. pc' \in {"idle", "second_mark"} \cup Ops
    BY <2>2
  <2>5. QED
    BY <1>1, <2>1, <2>2, <2>3, <2>4, Zenon DEF TypeOK
<1>3. selected' = (pc' # "idle")
  BY DriverAssumption DEF Call
<1>4. pc' = op /\ req'.total = total /\ req'.withoob = withoob
      /\ req'.buf = buf /\ done' = 0 /\ failed' = 0
  BY DEF Call
<1>5. pc' # "second_mark"
  BY DriverAssumption DEF Call
<1>6. CallOK'
  BY <1>3, <1>4, <1>5 DEF CallOK, RealPageSize
<1>7. QED
  BY <1>2, <1>6

LEMMA ClientTyped == TypeOK /\ CallOK /\ Client => TypeOK' /\ CallOK'
<1> SUFFICES ASSUME TypeOK, CallOK,
                    NEW from \in Pages, NEW total \in 0 .. MaxTotal,
                    \/ CallErase(from, total)
                    \/ \E withoob \in BOOLEAN :
                          \/ CallRead(from, total, withoob)
                          \/ \E buf \in Bufs : CallWrite(from, total, withoob, buf)
                    \/ total = 1 /\ CallMark(from)
             PROVE  TypeOK' /\ CallOK'
  BY DEF Client
<1>1. from \in 0 .. PageSpan - 1 /\ BlockOf(from) \in 0 .. PageSpan - 1
  BY GeometryAssumption, DriverAssumption, NumPagesType, BlockOfType DEF Pages
<1>2. <<>> \in Seq(Val)
  OBVIOUS
<1>3. CASE CallErase(from, total)
  BY <1>1, <1>2, <1>3, CallTyped DEF CallErase
<1>4. ASSUME NEW withoob \in BOOLEAN, CallRead(from, total, withoob)
      PROVE  TypeOK' /\ CallOK'
  <2>1. Call("read", from, total, withoob, <<>>, from)
    BY <1>4 DEF CallRead
  <2>2. "read" = "write" => Len(<<>>) = total * RealPageSize(withoob)
    OBVIOUS
  <2>3. QED
    BY <1>1, <1>2, <2>1, <2>2, CallTyped, ZenonT(30)
<1>5. ASSUME NEW withoob \in BOOLEAN, NEW buf \in Bufs,
             CallWrite(from, total, withoob, buf)
      PROVE  TypeOK' /\ CallOK'
  BY DriverAssumption, <1>1, <1>5, CallTyped DEF CallWrite
<1>6. CASE total = 1 /\ CallMark(from)
  BY <1>2, <1>6, MarkerPageType, CallTyped DEF CallMark
<1>7. QED
  BY <1>3, <1>4, <1>5, <1>6

\* What a program or an erase adds to the counters.
LEMMA CountersType ==
  ASSUME TypeOK, NEW o \in ProgramOutcomes, status' = StatusAfter(o),
         done \in 0 .. MaxTotal,
         IF StatusFail(status')
         THEN ret' = -1 /\ failed' = failed + 1 /\ UNCHANGED done
         ELSE ret' = 0 /\ done' = done + 1 /\ UNCHANGED failed
  PROVE  /\ status' \in StatusBytes
         /\ ret' \in {-1} \cup StatusBytes
         /\ done' \in 0 .. MaxTotal + 1
         /\ failed' \in 0 .. MaxFailed + MaxTotal
<1>1. status' \in StatusBytes
  BY StatusAfterType, OutcomesType
<1>2. CASE StatusFail(status')
  <2>1. o # "ok"
    BY <1>2 DEF StatusAfter, StatusFail, StatusReady, StatusFailed
  <2>2. failed < MaxFailed
    BY <2>1 DEF ProgramOutcomes
  <2>3. QED
    BY DriverAssumption, <1>1, <1>2, <2>2 DEF TypeOK
<1>3. CASE ~StatusFail(status')
  BY DriverAssumption, <1>1, <1>3 DEF TypeOK, StatusBytes,
     StatusNone
<1>4. QED
  BY <1>2, <1>3

LEMMA EraseBlockTyped ==
  ASSUME TypeOK, CallOK, NEW o \in ProgramOutcomes, EraseBlock(o)
  PROVE  TypeOK' /\ CallOK'
<1>1. flash' \in [Pages -> PageContents]
  <2>1. flash \in [Pages -> PageContents]
    BY DEF TypeOK
  <2>2. flash' = EraseAt(flash, Row(page * PagesPerBlock)) \/ flash' = flash
    BY DEF EraseBlock
  <2>3. QED
    BY <2>1, <2>2, EraseAtType
<1>2. done \in 0 .. MaxTotal /\ done + failed < req.total
  BY DriverAssumption DEF EraseBlock, TypeOK
<1>3. /\ status' \in StatusBytes
      /\ ret' \in {-1} \cup StatusBytes
      /\ done' \in 0 .. MaxTotal + 1
      /\ failed' \in 0 .. MaxFailed + MaxTotal
      /\ done' + failed' <= req.total
  <2> DEFINE sent == FirstPageOfBlock(page * PagesPerBlock)
  <2>1. CASE sent
    <3>1. /\ status' = StatusAfter(o)
          /\ IF StatusFail(status')
             THEN ret' = -1 /\ failed' = failed + 1 /\ UNCHANGED done
             ELSE ret' = 0 /\ done' = done + 1 /\ UNCHANGED failed
      BY <2>1 DEF EraseBlock
    <3>2. done' + failed' <= req.total
      BY <1>2, <3>1 DEF TypeOK
    <3>3. QED
      BY <1>2, <3>1, <3>2, CountersType
  <2>2. CASE ~sent
    <3>1. status' = status /\ ret' = -1 /\ failed' = failed + 1 /\ done' = done
      BY <2>2 DEF EraseBlock
    <3>2. QED
      BY <1>2, <3>1, DriverAssumption DEF TypeOK
  <2>3. QED
    BY <2>1, <2>2
<1>4. page' \in 0 .. PageSpan - 1
  BY GeometryAssumption, AdvanceType DEF EraseBlock, TypeOK
<1>5. TypeOK'
  BY <1>1, <1>3, <1>4 DEF EraseBlock, TypeOK
<1>6. pc = "erase" /\ pc' = pc /\ UNCHANGED <<selected, req>>
  BY DEF EraseBlock
<1>7. CallOK'
  BY <1>3, <1>6 DEF CallOK
<1>8. QED
  BY <1>5, <1>7

LEMMA SkipBlockTyped ==
  ASSUME TypeOK, CallOK, NEW o, SkipBlock(o)
  PROVE  TypeOK' /\ CallOK'
<1>1. dma' \in [DmaArea -> Val]
  BY CheckedType DEF SkipBlock
<1>2. page' \in 0 .. PageSpan - 1
  BY GeometryAssumption, AdvanceType DEF SkipBlock, TypeOK
<1>3. reported' \subseteq Nat
  <2>1. page \in Nat
    BY DEF TypeOK
  <2>2. BlockOf(page) \in Nat
    BY <2>1, BlockOfType, SMTT(30)
  <2>3. QED
    BY <2>2 DEF SkipBlock, TypeOK
<1>4. TypeOK'
  BY <1>1, <1>2, <1>3 DEF SkipBlock, TypeOK
<1>5. CallOK'
  BY DEF SkipBlock, CallOK, RealPageSize
<1>6. QED
  BY <1>4, <1>5

LEMMA WritePageTyped ==
  ASSUME TypeOK, CallOK, NEW o \in ProgramOutcomes, NEW chk, WritePage(o, chk)
  PROVE  TypeOK' /\ CallOK'
<1>1. pc = "write" /\ done < req.total
  BY DEF WritePage
<1>2. dma' \in [DmaArea -> Val]
  BY <1>1, StagedType DEF WritePage
<1>3. flash' \in [Pages -> PageContents]
  <2>1. PageProgram(o, page, 0, dma')
    BY DEF WritePage
  <2>2. page \in Nat /\ flash \in [Pages -> PageContents]
    BY DEF TypeOK
  <2>3. QED
    BY <1>2, <2>1, <2>2, ProgramTyped
<1>4. done \in 0 .. MaxTotal
  BY DriverAssumption, <1>1 DEF TypeOK
<1>5. IF StatusFail(status')
      THEN ret' = -1 /\ failed' = failed + 1 /\ UNCHANGED done
      ELSE ret' = 0 /\ done' = done + 1 /\ UNCHANGED failed
  BY DEF WritePage
<1>6. /\ status' \in StatusBytes
      /\ ret' \in {-1} \cup StatusBytes
      /\ done' \in 0 .. MaxTotal + 1
      /\ failed' \in 0 .. MaxFailed + MaxTotal
  BY <1>4, <1>5, CountersType DEF WritePage
<1>7. wOffset' \in {0, DmaData}
  BY DEF WritePage, OffsetAfter
<1>8. page' \in 0 .. PageSpan - 1
  BY GeometryAssumption, AdvanceType DEF WritePage, TypeOK
<1>9. TypeOK'
  BY <1>2, <1>3, <1>6, <1>7, <1>8 DEF WritePage, TypeOK
<1>10. done' <= req'.total
  BY <1>1, <1>4, <1>5 DEF WritePage, TypeOK
<1>11. CallOK'
  BY <1>1, <1>10 DEF WritePage, CallOK, RealPageSize
<1>12. QED
  BY <1>9, <1>11

LEMMA ReadPageTyped ==
  ASSUME TypeOK, CallOK, NEW o1, NEW o2, NEW chk, ReadPage(o1, o2, chk)
  PROVE  TypeOK' /\ CallOK'
<1> DEFINE whole == PageRead(o1, page, 0, Checked(chk))
           spare == IF req.withoob THEN PageRead(o2, page, PageSize, whole) ELSE whole
           n == RealPageSize(req.withoob)
           got == [i \in 1 .. n |->
                     IF i <= PageSize THEN whole[ReadOffset(0) + i - 1]
                                      ELSE spare[ReadOffset(PageSize) + i - PageSize - 1]]
<1>1. page \in Nat /\ flash \in [Pages -> PageContents]
  BY DEF TypeOK
<1>2. whole \in [DmaArea -> Val]
  BY <1>1, CheckedType, PageReadType
<1>3. spare \in [DmaArea -> Val]
  BY <1>1, <1>2, PageReadType
<1>4. n \in 1 .. PageSize + OobSize
  BY RealPageSizeType DEF TypeOK
<1>5. got \in Seq(Val)
  <2> HIDE DEF whole, spare, n
  <2> DEFINE r == ReadOffset(PageSize)
  <2>1. \A i \in 1 .. n : (IF i <= PageSize THEN whole[ReadOffset(0) + i - 1]
                            ELSE spare[r + i - PageSize - 1]) \in Val
    <3>1. ReadOffset(0) = 0 /\ r \in 0 .. PageSize
      BY ReadOffsetType
    <3> HIDE DEF r
    <3>2. ASSUME NEW i \in 1 .. n
          PROVE  /\ i <= PageSize => 0 + i - 1 \in DmaArea
                 /\ ~(i <= PageSize) => r + i - PageSize - 1 \in DmaArea
      BY GeometryAssumption, DriverAssumption, <1>4, <3>1 DEF DmaArea
    <3>3. QED
      BY <1>2, <1>3, <3>1, <3>2
  <2>2. got \in [1 .. n -> Val]
    BY <2>1
  <2>3. \A f \in [1 .. n -> Val] : f \in Seq(Val)
    BY <1>4
  <2>4. QED
    BY <2>2, <2>3
<1>6. out' = out \o got /\ dma' = spare
  BY DEF ReadPage
<1>7. out' \in Seq(Val) /\ dma' \in [DmaArea -> Val]
  <2> HIDE DEF got, spare
  <2>1. QED
    BY <1>3, <1>5, <1>6 DEF TypeOK
<1>8. page' \in 0 .. PageSpan - 1
  BY GeometryAssumption, AdvanceType DEF ReadPage, TypeOK
<1>9. done' \in 0 .. MaxTotal + 1 /\ done' <= req.total
  BY DriverAssumption DEF ReadPage, TypeOK
<1>10. TypeOK'
  BY <1>7, <1>8, <1>9 DEF ReadPage, TypeOK
<1>11. CallOK'
  BY <1>9 DEF ReadPage, CallOK
<1>12. QED
  BY <1>10, <1>11

LEMMA WriteOobTyped ==
  ASSUME TypeOK, NEW o \in ProgramOutcomes, NEW ooboffs, WriteOob(o, ooboffs)
  PROVE  /\ flash' \in [Pages -> PageContents]
         /\ dma' \in [DmaArea -> Val]
         /\ wOffset' \in {0, DmaData}
         /\ status' \in StatusBytes
         /\ ret' \in {-1} \cup StatusBytes
<1>1. CASE page > OobPageLimit
  BY <1>1 DEF WriteOob, TypeOK
<1>2. CASE ~(page > OobPageLimit)
  <2>1. dma' \in [DmaArea -> Val]
    BY DriverAssumption, <1>2 DEF WriteOob, TypeOK, Val
  <2>2. flash' \in [Pages -> PageContents]
    <3>1. PageProgram(o, page, PageSize, dma')
      BY <1>2 DEF WriteOob
    <3>2. page \in Nat /\ flash \in [Pages -> PageContents]
      BY DEF TypeOK
    <3>3. QED
      BY <2>1, <3>1, <3>2, ProgramTyped
  <2>3. status' \in StatusBytes
    BY <1>2, StatusAfterType, OutcomesType DEF WriteOob
  <2>4. wOffset' \in {0, DmaData} /\ ret' \in {-1} \cup StatusBytes
    BY <1>2, <2>3 DEF WriteOob, OffsetAfter
  <2>5. QED
    BY <2>1, <2>2, <2>3, <2>4
<1>3. QED
  BY <1>1, <1>2

LEMMA MarkPageTyped ==
  ASSUME TypeOK, CallOK, NEW o \in ProgramOutcomes, MarkPage(o) \/ SecondMark(o)
  PROVE  TypeOK' /\ CallOK'
<1>1. PICK ooboffs : WriteOob(o, ooboffs)
  BY DEF MarkPage, SecondMark
<1>2. /\ page' \in 0 .. PageSpan - 1
      /\ done' \in 0 .. MaxTotal + 1
      /\ pc' = "mark" => done' <= 2
      /\ pc' = "second_mark" => done' <= 1
      /\ pc' \in {"mark", "second_mark"}
  <2>1. done \in 0 .. 1
    BY DEF MarkPage, SecondMark, CallOK, TypeOK
  <2>2. /\ page' = page \/ page' = Advance(page, 1)
        /\ done' = done \/ done' = done + 1
        /\ pc' = "second_mark" => done' = done
        /\ pc' \in {"mark", "second_mark"}
    BY DEF MarkPage, SecondMark
  <2>3. page \in 0 .. PageSpan - 1 /\ Advance(page, 1) \in 0 .. PageSpan - 1
    BY GeometryAssumption, AdvanceType DEF TypeOK
  <2>4. QED
    BY <2>1, <2>2, <2>3, DriverAssumption
<1>3. /\ UNCHANGED <<selected, req, failed, out, reported>>
      /\ "mark" \in Ops
      /\ selected
  <2>1. UNCHANGED <<selected, req, failed, out, reported>> /\ pc # "idle"
    BY DEF MarkPage, SecondMark
  <2>2. "mark" \in Ops
    BY DEF MarkPage, SecondMark, TypeOK, CallOK
  <2>3. QED
    BY <2>1, <2>2 DEF CallOK
<1>4. TypeOK'
  BY <1>1, <1>2, <1>3, WriteOobTyped DEF TypeOK
<1>5. CallOK'
  BY <1>2, <1>3 DEF CallOK
<1>6. QED
  BY <1>4, <1>5

LEMMA ReturnTyped ==
  ASSUME TypeOK, CallOK, EraseReturn \/ TransferReturn \/ MarkReturn
  PROVE  TypeOK' /\ CallOK'
<1>1. TypeOK'
  BY DEF EraseReturn, TransferReturn, MarkReturn, Return, TypeOK
<1>2. selected' = (pc' # "idle") /\ pc' = "idle"
  BY DEF EraseReturn, TransferReturn, MarkReturn, Return
<1>3. QED
  BY <1>1, <1>2 DEF CallOK

LEMMA TypeInductive ==
  ASSUME TypeOK, CallOK, [Next]_vars
  PROVE  TypeOK' /\ CallOK'
<1>1. CASE Client
  BY <1>1, ClientTyped
<1>2. ASSUME NEW o \in ProgramOutcomes, EraseBlock(o) PROVE TypeOK' /\ CallOK'
  BY <1>2, EraseBlockTyped
<1>3. ASSUME NEW o \in ProgramOutcomes, MarkPage(o) \/ SecondMark(o)
      PROVE  TypeOK' /\ CallOK'
  BY <1>3, MarkPageTyped
<1>4. ASSUME NEW o \in ProgramOutcomes, NEW chk \in ReadOutcomes,
             WritePage(o, chk)
      PROVE  TypeOK' /\ CallOK'
  BY <1>4, WritePageTyped
<1>5. ASSUME NEW o1 \in ReadOutcomes, NEW o2 \in ReadOutcomes,
             NEW chk \in ReadOutcomes, ReadPage(o1, o2, chk)
      PROVE  TypeOK' /\ CallOK'
  BY <1>5, ReadPageTyped
<1>6. ASSUME NEW chk \in ReadOutcomes, SkipBlock(chk)
      PROVE  TypeOK' /\ CallOK'
  BY <1>6, SkipBlockTyped
<1>7. CASE EraseReturn \/ TransferReturn \/ MarkReturn
  BY <1>7, ReturnTyped
<1>8. CASE UNCHANGED vars
  BY <1>8 DEF vars, TypeOK, CallOK, RealPageSize
<1>9. QED
  BY <1>1, <1>2, <1>3, <1>4, <1>5, <1>6, <1>7, <1>8 DEF Next, Step

\* Every variable keeps its type: the write offset is 0 or 2048, no counter
\* leaves its bound, nothing is read outside the caller's buffer (a cell staged
\* from outside it would not be a cell content).  For that the counters and the
\* arguments of the call that runs have to agree.
THEOREM TypeCorrect == Spec => [](TypeOK /\ CallOK)
<1>1. TypeOK /\ CallOK /\ [Next]_vars => TypeOK' /\ CallOK'
  BY TypeInductive
<1>2. QED
  BY <1>1, InitTyped, PTL DEF Spec

-----------------------------------------------------------------------------
\* Without a mark the write offset is 0 between operations.
OffsetOK == wOffset = 0

LEMMA OffsetCorrect == ASSUME "mark" \notin Ops PROVE Spec => []OffsetOK
<1>1. Init => OffsetOK
  BY DEF Init, OffsetOK
<1>2. TypeOK /\ CallOK /\ OffsetOK /\ [Next]_vars => OffsetOK'
  <2> SUFFICES ASSUME TypeOK, CallOK, OffsetOK, [Next]_vars PROVE OffsetOK'
    OBVIOUS
  <2>1. CASE Client
    BY <2>1 DEF Client, CallErase, CallRead, CallWrite, CallMark, Call, OffsetOK
  <2>2. pc # "mark" /\ pc # "second_mark"
    BY DEF TypeOK, CallOK
  <2>3. CASE Step
    <3>1. OffsetAfter(0) = 0
      BY Geometry DEF OffsetAfter
    <3>2. wOffset' = wOffset \/ wOffset' = OffsetAfter(0)
      BY <2>2, <2>3, Zenon DEF Step, EraseBlock, MarkPage, SecondMark, WritePage,
         ReadPage, SkipBlock, EraseReturn, TransferReturn, MarkReturn
    <3>3. QED
      BY <3>1, <3>2, Zenon DEF OffsetOK
  <2>4. CASE UNCHANGED vars
    BY <2>4 DEF vars, OffsetOK
  <2>5. QED
    BY <2>1, <2>3, <2>4 DEF Next
<1>3. QED
  BY <1>1, <1>2, TypeCorrect, PTL DEF Spec

\* With the write offset at 0, a page staged from data alone leaves the spare
\* part of the buffer erased, and a program leaves the spare cells alone.
LEMMA SpareStaged ==
  ASSUME OffsetOK, NEW buf, NEW first, NEW c \in SpareCells
  PROVE  Staged(buf, first, PageSize)[c] = FF
  BY Geometry DEF OffsetOK, Staged, SpareCells, DmaArea

LEMMA WritePageKeepsOob ==
  ASSUME TypeOK, OffsetOK, NEW o, NEW chk, WritePage(o, chk), ~req.withoob,
         NEW p \in Pages, NEW c \in SpareCells
  PROVE  flash'[p][c] = flash[p][c]
<1> DEFINE r == Row(page)
           new == Moved(0, dma')
           touched == Touched(0)
<1>1. dma'[c] = FF
  BY SpareStaged DEF WritePage, RealPageSize
<1>2. c \in Cells
  BY GeometryAssumption DEF SpareCells, Cells
<1>3. r \in Pages /\ flash \in [Pages -> PageContents]
  BY RowType DEF TypeOK
<1>4. c \in touched => new[c] = FF
  <2>1. OffsetAfter(0) + c - 0 = c
    BY <1>2, GeometryAssumption, DriverAssumption DEF OffsetAfter, Cells
  <2>2. QED
    BY <1>1, <1>2, <2>1 DEF Moved
<1>5. ProgramCells(flash[r], new, touched)[c] = flash[r][c]
  <2> HIDE DEF new, touched
  <2>1. QED
    BY <1>2, <1>4 DEF ProgramCells, ProgramCell
<1>6. \/ flash' = [flash EXCEPT ![r] = ProgramCells(flash[r], new, touched)]
      \/ flash' = flash
  BY DEF WritePage, PageProgram
<1> HIDE DEF r, new, touched
<1>7. QED
  BY <1>3, <1>5, <1>6

\* A write without withoob changes no spare area and so no bad block marker,
\* for every geometry, 4096 bytes a page too, and whatever the device does.
THEOREM WriteKeepsOobCorrect ==
  ASSUME "mark" \notin Ops
  PROVE  Spec => WriteKeepsOob
<1>1. TypeOK /\ OffsetOK /\ [Next]_vars =>
        [pc = "write" /\ ~req.withoob =>
           \A p \in Pages, c \in SpareCells : flash'[p][c] = flash[p][c]]_vars
  <2> SUFFICES ASSUME TypeOK, OffsetOK, [Next]_vars, pc = "write", ~req.withoob,
                      NEW p \in Pages, NEW c \in SpareCells
               PROVE  flash'[p][c] = flash[p][c]
    OBVIOUS
  <2>1. ASSUME NEW o, NEW chk, WritePage(o, chk) PROVE flash'[p][c] = flash[p][c]
    BY <2>1, WritePageKeepsOob
  <2>2. CASE UNCHANGED flash
    BY <2>2
  <2>3. QED
    BY <2>1, <2>2 DEF Next, vars, Client, CallErase, CallRead, CallWrite, CallMark,
       Call, Step, EraseBlock, MarkPage, SecondMark, ReadPage, SkipBlock, EraseReturn,
       TransferReturn, MarkReturn
<1>2. QED
  BY <1>1, TypeCorrect, OffsetCorrect, PTL DEF Spec, WriteKeepsOob

\* The first page of a write resets the write offset that a mark left behind.
OffsetReset == pc = "write" /\ done + failed > 0 => OffsetOK

LEMMA OffsetResetCorrect == Spec => []OffsetReset
<1>1. Init => OffsetReset
  BY DEF Init, OffsetReset
<1>2. OffsetReset /\ [Next]_vars => OffsetReset'
  <2> SUFFICES ASSUME OffsetReset, [Next]_vars PROVE OffsetReset'
    OBVIOUS
  <2>1. CASE Client
    BY <2>1 DEF Client, CallErase, CallRead, CallWrite, CallMark, Call, OffsetReset
  <2>2. ASSUME NEW o, NEW chk, WritePage(o, chk) PROVE OffsetReset'
    BY DriverAssumption, <2>2 DEF WritePage, OffsetAfter,
       OffsetReset, OffsetOK
  <2>3. ASSUME NEW chk, SkipBlock(chk) PROVE OffsetReset'
    BY <2>3 DEF SkipBlock, OffsetReset, OffsetOK
  <2>4. CASE pc' # "write"
    BY <2>4 DEF OffsetReset
  <2>5. CASE UNCHANGED vars
    BY <2>5 DEF vars, OffsetReset, OffsetOK
  <2>6. QED
    BY <2>1, <2>2, <2>3, <2>4, <2>5 DEF Next, Step, EraseBlock, MarkPage, SecondMark,
       ReadPage, EraseReturn, TransferReturn, MarkReturn, Return
<1>3. QED
  BY <1>1, <1>2, PTL DEF Spec

\* Also when callers mark blocks, and under every fault, at most the first page
\* of a write without withoob changes a spare area.
THEOREM StaleOffsetOnceCorrect == Spec => StaleOffsetOnce
<1>1. TypeOK /\ OffsetReset /\ [Next]_vars =>
        [pc = "write" /\ ~req.withoob /\ done + failed > 0 =>
           \A p \in Pages, c \in SpareCells : flash'[p][c] = flash[p][c]]_vars
  <2> SUFFICES ASSUME TypeOK, OffsetReset, [Next]_vars,
                      pc = "write", ~req.withoob, done + failed > 0,
                      NEW p \in Pages, NEW c \in SpareCells
               PROVE  flash'[p][c] = flash[p][c]
    OBVIOUS
  <2>1. OffsetOK
    BY DEF OffsetReset
  <2>2. ASSUME NEW o, NEW chk, WritePage(o, chk) PROVE flash'[p][c] = flash[p][c]
    BY <2>1, <2>2, WritePageKeepsOob
  <2>3. CASE UNCHANGED flash
    BY <2>3
  <2>4. QED
    BY <2>2, <2>3 DEF Next, vars, Client, CallErase, CallRead, CallWrite, CallMark,
       Call, Step, EraseBlock, MarkPage, SecondMark, ReadPage, SkipBlock, EraseReturn,
       TransferReturn, MarkReturn
<1>2. QED
  BY <1>1, TypeCorrect, OffsetResetCorrect, PTL DEF Spec, StaleOffsetOnce
-----------------------------------------------------------------------------
(* Where the loops are, and what a call moves, when no answer is late and  *)
(* the geometry is one of Fits.  With a late answer the bad block check    *)
(* reads what an earlier command left in the buffer; with pages that do    *)
(* not fit the command queues it reads the data of another page, and with  *)
(* blocks that do not fit the mask it is made in the middle of them.       *)

LEMMA NoLateAnswer ==
  ASSUME "late" \notin Faults
  PROVE  ReadOutcomes = {"ok"} /\ ProgramOutcomes \subseteq {"ok", "fail"}
  BY DriverAssumption DEF ReadOutcomes, ProgramOutcomes

\* The page counter goes on by one within its bounds, and from the first page
\* of a block to the first page of another even where it wraps.
LEMMA AdvanceOne ==
  ASSUME NEW p \in Nat, p + 1 < PageSpan
  PROVE  Advance(p, 1) = p + 1
  BY DEF Advance

\* With a power of two of pages in a block, the mask finds its first page.
LEMMA FirstPage ==
  ASSUME Fits, NEW p \in Nat
  PROVE  FirstPageOfBlock(p) <=> p % PagesPerBlock = 0
<1>1. PICK n \in 0 .. PagesPerBlock : PagesPerBlock = 2^n
  BY DEF Fits
<1>2. n \in Nat /\ n <= PagesPerBlock /\ PagesPerBlock \in Nat
  BY <1>1, Geometry
<1>3. \A k \in Nat : BinaryDigit(PagesPerBlock - 1, k) = IF k < n THEN 1 ELSE 0
  BY <1>1, <1>2, DigitsOfMask
<1>4. FirstPageOfBlock(p) <=>
        \A k \in 0 .. PagesPerBlock - 1 :
           BinaryDigit(PagesPerBlock - 1, k) = 1 => BinaryDigit(p, k) = 0
  BY Zenon DEF FirstPageOfBlock, Bit, BinaryDigit
<1>5. FirstPageOfBlock(p) <=> \A k \in 0 .. n - 1 : BinaryDigit(p, k) = 0
  <2>1. \A k \in 0 .. PagesPerBlock - 1 :
           k \in Nat /\ (k < n <=> k \in 0 .. n - 1)
    BY <1>2
  <2>2. \A k \in 0 .. n - 1 : k \in 0 .. PagesPerBlock - 1 /\ k < n
    BY <1>2
  <2>3. \A k \in 0 .. PagesPerBlock - 1 :
           BinaryDigit(PagesPerBlock - 1, k) = 1 <=> k \in 0 .. n - 1
    BY <1>3, <2>1
  <2>4. QED
    BY <1>4, <2>2, <2>3, Zenon
<1>6. QED
  BY <1>1, <1>2, <1>5, ZeroDigitsDivide DEF ZeroDigits

LEMMA AdvanceBlock ==
  ASSUME Fits, NEW p \in 0 .. PageSpan - 1, FirstPageOfBlock(p)
  PROVE  FirstPageOfBlock(Advance(p, PagesPerBlock))
<1> DEFINE next == p + PagesPerBlock
<1>1. /\ next \in Int /\ p \in Nat /\ PagesPerBlock \in Int /\ PageSpan \in Int
      /\ PageSpan % PagesPerBlock = 0
  BY Geometry DEF Fits
<1>2. p % PagesPerBlock = 0
  BY <1>1, FirstPage
<1>3. PagesPerBlock % PagesPerBlock = 0
  BY Geometry, DivModUnique, 1 * PagesPerBlock + 0 = PagesPerBlock
<1>4. /\ next = p + PagesPerBlock /\ Advance(p, PagesPerBlock) \in {next, next - PageSpan}
      /\ Advance(p, PagesPerBlock) \in Nat
  BY <1>1, Geometry DEF Advance
<1> HIDE DEF next
<1>5. next % PagesPerBlock = 0
  BY <1>1, <1>2, <1>3, <1>4, Geometry, ModZero
<1>6. (next - PageSpan) % PagesPerBlock = 0
  BY <1>1, <1>5, Geometry, ModZero
<1>7. QED
  BY <1>4, <1>5, <1>6, FirstPage

\* An answer in time shows the marker of the block the call began in.
LEMMA FoundBadMarked ==
  ASSUME Fits
  PROVE  FoundBad("ok") <=> FirstPageOfBlock(page) /\ Marked(req.from)
<1>1. /\ 0 \in DmaArea /\ ReadOffset(PageSize) = 0
      /\ ~(0 >= QueueCells(PageSize)) /\ PageSize + 0 \in Cells
  BY Geometry, DriverAssumption DEF DmaArea, Fits, ReadOffset, QueueCells, Cells
<1>2. PageRead("ok", MarkerPage(req.from), PageSize, dma)[0]
        = flash[Row(MarkerPage(req.from))][PageSize + 0]
  BY <1>1 DEF PageRead
<1>3. PageSize + 0 = MarkerCell
  BY Geometry DEF MarkerCell
<1>4. QED
  BY <1>1, <1>2, <1>3 DEF FoundBad, Checked, Marked
-----------------------------------------------------------------------------
\* The entry points start at the unit they are given.
LEMMA ClientPosition ==
  ASSUME Client PROVE PositionOK'
<1> SUFFICES ASSUME NEW from \in Pages, NEW total \in 0 .. MaxTotal,
                    \/ CallErase(from, total)
                    \/ \E withoob \in BOOLEAN :
                          \/ CallRead(from, total, withoob)
                          \/ \E buf \in Bufs : CallWrite(from, total, withoob, buf)
                    \/ total = 1 /\ CallMark(from)
             PROVE  PositionOK'
  BY DEF Client
<1>1. from \in Nat /\ BlockOf(from) \in Nat
  BY Geometry, BlockOfType
<1>2. ASSUME NEW op, NEW withoob, NEW buf, NEW first,
             Call(op, from, total, withoob, buf, first),
             op = "erase" => first = BlockOf(from),
             op \in {"read", "write"} => first = from
      PROVE  PositionOK'
  BY <1>1, <1>2 DEF Call, PositionOK
<1>3. CASE CallErase(from, total)
  BY <1>2, <1>3 DEF CallErase
<1>4. ASSUME NEW withoob \in BOOLEAN, CallRead(from, total, withoob)
      PROVE  PositionOK'
  BY <1>2, <1>4 DEF CallRead
<1>5. ASSUME NEW withoob \in BOOLEAN, NEW buf \in Bufs,
             CallWrite(from, total, withoob, buf)
      PROVE  PositionOK'
  BY <1>2, <1>5 DEF CallWrite
<1>6. CASE total = 1 /\ CallMark(from)
  BY <1>2, <1>6 DEF CallMark
<1>7. QED
  BY <1>3, <1>4, <1>5, <1>6

\* An erase is at the block that its counters name, for every geometry and
\* under every fault.
ErasePosition == pc = "erase" => page = BlockOf(req.from) + done + failed

LEMMA EraseBlockPosition ==
  ASSUME TypeOK, CallOK, ErasePosition, NEW o, EraseBlock(o)
  PROVE  ErasePosition'
<1>1. /\ pc = "erase" /\ pc' = "erase" /\ req' = req
      /\ page' = Advance(page, 1)
      /\ \/ failed' = failed + 1 /\ done' = done
         \/ failed' = failed /\ done' = done + 1
  BY DEF EraseBlock
<1>2. page = BlockOf(req.from) + done + failed
  BY <1>1 DEF ErasePosition
<1>3. /\ BlockOf(req.from) \in Nat /\ BlockOf(req.from) < NumPages
      /\ done \in Nat /\ failed \in Nat /\ done + failed < MaxTotal
  <2>1. req.from \in Nat /\ req.from < NumPages
    BY Geometry DEF TypeOK
  <2>2. BlockOf(req.from) \in 0 .. req.from
    BY <2>1, BlockOfType
  <2>3. done \in Nat /\ failed \in Nat /\ req.total <= MaxTotal /\ done + failed < req.total
    BY Geometry DEF TypeOK, EraseBlock
  <2>4. QED
    BY <2>1, <2>2, <2>3, Geometry DEF TypeOK
<1>4. page' = page + 1
  BY <1>1, <1>2, <1>3, Geometry, AdvanceOne
<1>5. page' = BlockOf(req'.from) + done' + failed'
  BY <1>1, <1>2, <1>3, <1>4
<1>6. QED
  BY <1>1, <1>5 DEF ErasePosition

LEMMA ErasePositionCorrect == Spec => []ErasePosition
<1>1. Init => ErasePosition
  BY DEF Init, ErasePosition
<1>2. TypeOK /\ CallOK /\ ErasePosition /\ [Next]_vars => ErasePosition'
  <2> SUFFICES ASSUME TypeOK, CallOK, ErasePosition, [Next]_vars
               PROVE  ErasePosition'
    OBVIOUS
  <2>1. CASE Client
    BY <2>1, ClientPosition DEF PositionOK, ErasePosition
  <2>2. ASSUME NEW o, EraseBlock(o) PROVE ErasePosition'
    BY <2>2, EraseBlockPosition
  <2>3. CASE pc' # "erase"
    BY <2>3 DEF ErasePosition
  <2>4. CASE UNCHANGED vars
    BY <2>4 DEF vars, ErasePosition
  <2>5. QED
    BY <2>1, <2>2, <2>3, <2>4 DEF Next, Step, MarkPage, SecondMark, WritePage,
       ReadPage, SkipBlock, EraseReturn, TransferReturn, MarkReturn, Return
<1>3. QED
  BY <1>1, <1>2, TypeCorrect, PTL DEF Spec

\* One page of a transfer.  Behind a block that was stepped over there is none:
\* the check finds the marker again.
LEMMA TransferPosition ==
  ASSUME Fits, TypeOK, CallOK, PositionOK, pc \in {"read", "write"}, done < req.total,
         ~FoundBad("ok"), UNCHANGED <<pc, req, reported>>,
         page' = Advance(page, 1),
         \/ failed' = failed + 1 /\ done' = done
         \/ failed' = failed /\ done' = done + 1
  PROVE  PositionOK' /\ reported = {} /\ page = req.from + done + failed
<1>1. reported = {}
  BY FoundBadMarked DEF PositionOK
<1>2. page = req.from + done + failed
  BY <1>1 DEF PositionOK
<1>3. /\ req.from \in Nat /\ req.from < NumPages
      /\ done \in Nat /\ done < MaxTotal /\ failed \in Nat
      /\ failed <= MaxFailed + MaxTotal
  BY Geometry DEF TypeOK
<1>4. page' = page + 1
  BY <1>2, <1>3, Geometry, AdvanceOne
<1>5. page' = req'.from + done' + failed'
  BY <1>2, <1>3, <1>4
<1>6. PositionOK'
  BY <1>1, <1>5 DEF PositionOK
<1>7. QED
  BY <1>1, <1>2, <1>6

LEMMA SkipBlockPosition ==
  ASSUME Fits, TypeOK, CallOK, PositionOK, SkipBlock("ok")
  PROVE  PositionOK'
<1>1. pc \in {"read", "write"} /\ pc' = pc
  BY DEF SkipBlock
<1>2. FirstPageOfBlock(page) /\ Marked(req.from)
  BY FoundBadMarked DEF SkipBlock
<1>3. Marked(req.from)'
  BY <1>2 DEF SkipBlock, Marked, MarkerPage
<1>4. FirstPageOfBlock(page')
  BY <1>2, AdvanceBlock DEF SkipBlock, TypeOK
<1>5. reported' # {}
  BY DEF SkipBlock
<1>6. QED
  BY <1>1, <1>3, <1>4, <1>5 DEF PositionOK

LEMMA PositionInductive ==
  ASSUME Fits, "late" \notin Faults, TypeOK, CallOK, PositionOK, [Next]_vars
  PROVE  PositionOK'
<1>1. CASE Client
  BY <1>1, ClientPosition
<1>2. ASSUME NEW o, EraseBlock(o) PROVE PositionOK'
  <2>1. ErasePosition' /\ pc' = "erase"
    BY <1>2, EraseBlockPosition DEF PositionOK, ErasePosition, EraseBlock
  <2>2. QED
    BY <2>1 DEF PositionOK, ErasePosition
<1>3. ASSUME NEW o, MarkPage(o) \/ SecondMark(o) PROVE PositionOK'
  BY <1>3 DEF MarkPage, SecondMark, PositionOK
<1>4. ASSUME NEW o, WritePage(o, "ok") PROVE PositionOK'
  BY <1>4, TransferPosition DEF WritePage
<1>5. ASSUME NEW o1, NEW o2, ReadPage(o1, o2, "ok") PROVE PositionOK'
  BY <1>5, TransferPosition DEF ReadPage
<1>6. CASE SkipBlock("ok")
  BY <1>6, SkipBlockPosition
<1>7. CASE EraseReturn \/ TransferReturn \/ MarkReturn
  BY <1>7 DEF EraseReturn, TransferReturn, MarkReturn, Return, PositionOK
<1>8. CASE UNCHANGED vars
  BY <1>8 DEF vars, PositionOK, Marked, MarkerPage
<1>9. QED
  BY <1>1, <1>2, <1>3, <1>4, <1>5, <1>6, <1>7, <1>8, NoLateAnswer DEF Next, Step

\* A transfer is at the page from + done + failed until it steps over a block,
\* and from then on at the first page of a block while the block it began in is
\* marked: the check always looks at the marker of that block.
THEOREM PositionCorrect ==
  ASSUME Fits, "late" \notin Faults
  PROVE  Spec => []PositionOK
<1>1. Init => PositionOK
  BY DEF Init, PositionOK
<1>2. TypeOK /\ CallOK /\ PositionOK /\ [Next]_vars => PositionOK'
  BY PositionInductive
<1>3. QED
  BY <1>1, <1>2, TypeCorrect, PTL DEF Spec
-----------------------------------------------------------------------------
(* The driver implements the transfer specification.                       *)

Transfers == {"erase", "write", "read"}

\* While a call runs, the transfer specification runs the same one.
LEMMA JobOfCall ==
  ASSUME TypeOK, pc \in Transfers
  PROVE  /\ StoreJob \in Store!Jobs /\ StoreJob # Store!Idle
         /\ StoreJob.kind = pc
         /\ StoreJob.first = IF pc = "erase" THEN BlockOf(req.from) ELSE req.from
         /\ StoreJob.total = req.total
         /\ StoreJob.withoob = req.withoob /\ StoreJob.buf = req.buf
<1>1. req.from \in Nat /\ req.total \in Nat /\ req.withoob \in BOOLEAN
      /\ req.buf \in Seq(Val)
  BY Geometry DEF TypeOK
<1>2. BlockOf(req.from) \in Nat
  BY <1>1, BlockOfType
<1>3. StoreJob = [kind |-> pc,
                  first |-> IF pc = "erase" THEN BlockOf(req.from) ELSE req.from,
                  total |-> req.total, withoob |-> req.withoob, buf |-> req.buf]
  BY DEF StoreJob, Transfers
<1>4. StoreJob # Store!Idle
  <2>1. "total" \in DOMAIN StoreJob /\ "total" \notin DOMAIN Store!Idle
    BY <1>3 DEF Store!Idle
  <2>2. QED
    BY <2>1
<1>5. QED
  BY <1>1, <1>2, <1>3, <1>4 DEF Store!Jobs, Store!Val, Val, Transfers

LEMMA JobAfter ==
  ASSUME TypeOK', pc' \in Transfers
  PROVE  StoreJob' \in Store!Jobs /\ StoreJob' # Store!Idle
<1>1. req'.from \in Nat /\ req'.total \in Nat /\ req'.withoob \in BOOLEAN
      /\ req'.buf \in Seq(Val)
  BY Geometry DEF TypeOK
<1>2. BlockOf(req'.from) \in Nat
  BY <1>1, BlockOfType
<1>3. StoreJob' = [kind |-> pc',
                  first |-> IF pc' = "erase" THEN BlockOf(req'.from) ELSE req'.from,
                  total |-> req'.total, withoob |-> req'.withoob, buf |-> req'.buf]
  BY DEF StoreJob, Transfers
<1>4. StoreJob' # Store!Idle
  <2>1. "total" \in DOMAIN StoreJob' /\ "total" \notin DOMAIN Store!Idle
    BY <1>3 DEF Store!Idle
  <2>2. QED
    BY <2>1
<1>5. QED
  BY <1>1, <1>2, <1>3, <1>4 DEF Store!Jobs, Store!Val, Val, Transfers

LEMMA CallBegins ==
  ASSUME "mark" \notin Ops, TypeOK, TypeOK', Client
  PROVE  Store!Begin
<1>1. pc = "idle" /\ pc' \in Ops /\ done' = 0 /\ failed' = 0 /\ out' = <<>>
      /\ flash' = flash
  BY DEF Client, CallErase, CallRead, CallWrite, CallMark, Call
<1>2. pc' \in Transfers
  BY <1>1, DriverAssumption DEF Transfers
<1>3. StoreJob = Store!Idle
  BY <1>1 DEF StoreJob, Store!Idle
<1>4. QED
  BY <1>1, <1>2, <1>3, JobAfter DEF Store!Begin

\* A status byte after an answer in time says what happened.
LEMMA StatusTells ==
  ASSUME NEW o \in {"ok", "fail"}, status' = StatusAfter(o),
         IF StatusFail(status')
         THEN ret' = -1 /\ failed' = failed + 1 /\ UNCHANGED done
         ELSE ret' = 0 /\ done' = done + 1 /\ UNCHANGED failed
  PROVE  Store!Account(o = "ok")
  BY DEF StatusAfter, StatusFail, StatusReady, StatusFailed, Store!Account

\* One block of an erase: the command was sent and done, or it counts as failed
\* and the device may have done it all the same.
LEMMA EraseBlockMoves ==
  ASSUME NEW o \in {"ok", "fail"}, EraseBlock(o)
  PROVE  \/ /\ done' = done + 1 /\ failed' = failed
            /\ flash' = EraseAt(flash, Row(page * PagesPerBlock))
         \/ /\ done' = done /\ failed' = failed + 1
            /\ \/ flash' = EraseAt(flash, Row(page * PagesPerBlock))
               \/ flash' = flash
<1>1. CASE FirstPageOfBlock(page * PagesPerBlock)
  <2>1. Store!Account(o = "ok")
    BY <1>1, StatusTells DEF EraseBlock
  <2>2. \/ flash' = EraseAt(flash, Row(page * PagesPerBlock))
        \/ o # "ok" /\ flash' = flash
    BY <1>1 DEF EraseBlock
  <2>3. QED
    BY <2>1, <2>2 DEF Store!Account
<1>2. CASE ~FirstPageOfBlock(page * PagesPerBlock)
  BY <1>2 DEF EraseBlock
<1>3. QED
  BY <1>1, <1>2

LEMMA EraseBlockRefines ==
  ASSUME TypeOK, PositionOK, NEW o \in {"ok", "fail"}, EraseBlock(o)
  PROVE  Store!Erase(TRUE) \/ Store!Erase(FALSE)
<1>1. pc = "erase" /\ pc' = pc /\ req' = req /\ out' = out
      /\ done + failed < req.total
  BY DEF EraseBlock
<1>2. StoreJob' = StoreJob
  BY <1>1 DEF StoreJob
<1>3. /\ StoreJob # Store!Idle /\ StoreJob.kind = "erase"
      /\ StoreJob.total = req.total
      /\ StoreJob.first = BlockOf(req.from)
  BY <1>1, JobOfCall DEF Transfers
<1>4. Store!Unit = page
  BY <1>1, <1>3 DEF PositionOK, Store!Unit
<1>5. EraseAt(flash, Row(page * PagesPerBlock))
        = Store!EraseAt(flash, Store!Row(Store!Unit * PagesPerBlock))
  BY <1>4 DEF EraseAt, Row, Store!EraseAt, Store!Row, BlockOf, Store!BlockOf,
     Pages, Store!Pages, ErasedPage, Store!ErasedPage, NumPages, Store!NumPages,
     Cells, Store!Cells
<1>6. CASE /\ done' = done + 1 /\ failed' = failed
           /\ flash' = EraseAt(flash, Row(page * PagesPerBlock))
  <2>1. Store!Account(TRUE)
    BY <1>6 DEF Store!Account
  <2>2. QED
    BY <1>1, <1>2, <1>3, <1>5, <1>6, <2>1 DEF Store!Erase
<1>7. CASE /\ done' = done /\ failed' = failed + 1
           /\ \/ flash' = EraseAt(flash, Row(page * PagesPerBlock))
              \/ flash' = flash
  <2>1. Store!Account(FALSE)
    BY <1>7 DEF Store!Account
  <2>2. QED
    BY <1>1, <1>2, <1>3, <1>5, <1>7, <2>1 DEF Store!Erase
<1>8. QED
  BY <1>6, <1>7, EraseBlockMoves

LEMMA SameRow ==
  ASSUME NEW p
  PROVE  Store!Row(p) = Row(p) /\ Store!Cells = Cells
  BY DEF Row, Store!Row, NumPages, Store!NumPages, Cells, Store!Cells

\* With the write offset at 0 the buffer holds the page that the caller's
\* buffer has next, padded with FF.
LEMMA StagedPage ==
  ASSUME wOffset = 0, NEW buf, NEW n \in Nat, NEW oob \in BOOLEAN
  PROVE  [c \in Cells |-> Staged(buf, n * RealPageSize(oob) + 1, RealPageSize(oob))[c]]
           = Store!PageOf(buf, n, oob)
<1> DEFINE R == RealPageSize(oob)
           first == n * R + 1
<1>1. R \in Nat /\ Store!RealPageSize(oob) = R
  BY RealPageSizeType, Geometry DEF RealPageSize, Store!RealPageSize
<1>2. n * R \in Nat
  BY <1>1
<1> HIDE DEF R
<1>3. ASSUME NEW c \in Cells
      PROVE  Staged(buf, first, R)[c]
               = IF c < R THEN buf[n * R + c + 1] ELSE FF
  <2>1. c \in DmaArea /\ c \in Nat
    BY Geometry DEF Cells, DmaArea
  <2>2. Staged(buf, first, R)[c]
          = IF c \in 0 .. 0 + R - 1 THEN buf[first + c - 0] ELSE FF
    BY <2>1 DEF Staged
  <2>3. first + c - 0 = n * R + c + 1
    BY <1>2, <2>1
  <2>4. c \in 0 .. 0 + R - 1 <=> c < R
    BY <1>1, <2>1
  <2> HIDE DEF first
  <2>5. QED
    BY <2>2, <2>3, <2>4
<1>4. QED
  BY <1>1, <1>3, SameRow DEF Store!PageOf, R

\* A queue from column 0 carries a page of Fits whole: the buffer's cells are
\* the page's, in a program and in a read.
LEMMA QueueCarries ==
  ASSUME Fits, NEW buffer
  PROVE  /\ Touched(0) = Cells
         /\ Moved(0, buffer) = [c \in Cells |-> buffer[c]]
<1>1. /\ OffsetAfter(0) = 0 /\ QueueCells(0) = DmaData + DmaOob
      /\ \A c \in Cells : c \in 0 .. 0 + (DmaData + DmaOob) - 1 /\ 0 + c - 0 = c
  BY Geometry, DriverAssumption DEF Fits, OffsetAfter, QueueCells, Cells
<1>2. Touched(0) = Cells
  BY <1>1 DEF Touched
<1>3. QED
  BY <1>1, <1>2 DEF Moved

LEMMA ReadCarries ==
  ASSUME Fits, NEW p, NEW buffer
  PROVE  /\ \A i \in 0 .. PageSize - 1 :
               PageRead("ok", p, 0, buffer)[i] = flash[Row(p)][i]
         /\ \A i \in 0 .. OobSize - 1 :
               PageRead("ok", p, PageSize, buffer)[i] = flash[Row(p)][PageSize + i]
         /\ ReadOffset(0) = 0 /\ ReadOffset(PageSize) = 0
<1>1. ReadOffset(0) = 0 /\ ReadOffset(PageSize) = 0
  BY Geometry, DriverAssumption DEF Fits, ReadOffset
<1>2. ASSUME NEW i \in 0 .. PageSize - 1
      PROVE  i \in DmaArea /\ ~(i >= QueueCells(0)) /\ 0 + i \in Cells /\ 0 + i = i
  BY Geometry, DriverAssumption DEF Fits, QueueCells, DmaArea, Cells
<1>3. ASSUME NEW i \in 0 .. OobSize - 1
      PROVE  i \in DmaArea /\ ~(i >= QueueCells(PageSize)) /\ PageSize + i \in Cells
  BY Geometry, DriverAssumption DEF Fits, QueueCells, DmaArea, Cells
<1>4. QED
  BY <1>1, <1>2, <1>3 DEF PageRead

LEMMA WritePageRefines ==
  ASSUME Fits, TypeOK, CallOK, PositionOK, OffsetOK,
         NEW o \in {"ok", "fail"}, WritePage(o, "ok")
  PROVE  Store!Write(o = "ok")
<1>1. /\ pc = "write" /\ pc' = pc /\ req' = req /\ out' = out
      /\ done < req.total /\ reported' = reported
      /\ page' = Advance(page, 1)
      /\ \/ failed' = failed + 1 /\ done' = done
         \/ failed' = failed /\ done' = done + 1
  BY DEF WritePage
<1>2. StoreJob' = StoreJob
  BY <1>1 DEF StoreJob
<1>3. /\ StoreJob # Store!Idle /\ StoreJob.kind = "write"
      /\ StoreJob.total = req.total /\ StoreJob.first = req.from
      /\ StoreJob.buf = req.buf /\ StoreJob.withoob = req.withoob
  BY <1>1, JobOfCall DEF Transfers
<1>4. Store!Unit = page
  <2>1. page = req.from + done + failed
    BY <1>1, TransferPosition DEF WritePage
  <2>2. QED
    BY <1>3, <2>1 DEF Store!Unit
<1>5. Store!Account(o = "ok")
  BY StatusTells DEF WritePage
<1> DEFINE new == [c \in Cells |-> dma'[c]]
<1>6. new = Store!PageOf(req.buf, done, req.withoob)
  BY StagedPage DEF WritePage, OffsetOK, TypeOK
<1>7. \/ flash' = [flash EXCEPT ![Row(page)] = ProgramCells(@, new, Cells)]
      \/ o # "ok" /\ UNCHANGED flash
  <2>1. PageProgram(o, page, 0, dma')
    BY DEF WritePage
  <2>2. Moved(0, dma') = new /\ Touched(0) = Cells
    BY QueueCarries
  <2>3. QED
    BY <2>1, <2>2 DEF PageProgram
<1>8. \A old : ProgramCells(old, new, Cells) = Store!ProgramCells(old, new, Store!Cells)
  BY SameRow DEF ProgramCells, Store!ProgramCells, ProgramCell, Store!ProgramCell
<1> HIDE DEF new
<1>9. \/ flash' = [flash EXCEPT ![Store!Row(Store!Unit)] =
             Store!ProgramCells(@, Store!PageOf(StoreJob.buf, done, StoreJob.withoob),
                                Store!Cells)]
      \/ ~(o = "ok") /\ UNCHANGED flash
  BY <1>3, <1>4, <1>6, <1>7, <1>8, SameRow
<1>10. QED
  BY <1>1, <1>2, <1>3, <1>5, <1>9 DEF Store!Write

LEMMA ReadPageRefines ==
  ASSUME Fits, TypeOK, CallOK, PositionOK, ReadPage("ok", "ok", "ok")
  PROVE  Store!Read
<1>1. /\ pc = "read" /\ pc' = pc /\ req' = req /\ flash' = flash
      /\ done < req.total /\ reported' = reported
      /\ page' = Advance(page, 1)
      /\ failed' = failed /\ done' = done + 1
  BY DEF ReadPage
<1>2. StoreJob' = StoreJob
  BY <1>1 DEF StoreJob
<1>3. /\ StoreJob # Store!Idle /\ StoreJob.kind = "read"
      /\ StoreJob.total = req.total /\ StoreJob.first = req.from
      /\ StoreJob.withoob = req.withoob
  BY <1>1, JobOfCall DEF Transfers
<1>4. Store!Unit = page
  <2>1. page = req.from + done + failed
    BY <1>1, TransferPosition DEF ReadPage
  <2>2. QED
    BY <1>3, <2>1 DEF Store!Unit
<1> DEFINE whole == PageRead("ok", page, 0, Checked("ok"))
           spare == IF req.withoob THEN PageRead("ok", page, PageSize, whole) ELSE whole
           R == RealPageSize(req.withoob)
           got == [i \in 1 .. R |->
                     IF i <= PageSize THEN whole[ReadOffset(0) + i - 1]
                                      ELSE spare[ReadOffset(PageSize) + i - PageSize - 1]]
<1>5. out' = out \o got
  BY DEF ReadPage
<1>6. R = Store!RealPageSize(req.withoob) /\ R \in 1 .. PageSize + OobSize
  BY RealPageSizeType DEF RealPageSize, Store!RealPageSize, TypeOK
<1>7. ASSUME NEW i \in 1 .. R
      PROVE  (IF i <= PageSize THEN whole[ReadOffset(0) + i - 1]
                               ELSE spare[ReadOffset(PageSize) + i - PageSize - 1])
               = flash[Row(page)][i - 1]
  <2>1. CASE i <= PageSize
    <3>1. i - 1 \in 0 .. PageSize - 1 /\ 0 + i - 1 = i - 1
      BY <1>6, <1>7, <2>1, Geometry
    <3>2. whole[i - 1] = flash[Row(page)][i - 1]
      BY <3>1, ReadCarries
    <3> HIDE DEF whole, spare
    <3>3. QED
      BY <2>1, <3>1, <3>2, ReadCarries
  <2>2. CASE ~(i <= PageSize)
    <3>1. i \in Int /\ R > PageSize
      BY <1>6, <1>7, <2>2, Geometry
    <3>2. req.withoob
      BY <3>1, Geometry DEF RealPageSize
    <3>3. i - PageSize - 1 \in 0 .. OobSize - 1 /\ 0 + i - PageSize - 1 = i - PageSize - 1
      BY <1>6, <1>7, <2>2, <3>1, Geometry
    <3>4. PageRead("ok", page, PageSize, whole)[i - PageSize - 1]
            = flash[Row(page)][PageSize + (i - PageSize - 1)]
      <4> HIDE DEF whole
      <4>1. QED
        BY <3>3, ReadCarries
    <3>5. PageSize + (i - PageSize - 1) = i - 1
      BY <3>1, Geometry
    <3> HIDE DEF whole
    <3>6. QED
      BY <2>2, <3>2, <3>3, <3>4, <3>5, ReadCarries
  <2>3. QED
    BY <2>1, <2>2
<1>8. got = Store!Delivered(flash[Store!Row(Store!Unit)], StoreJob.withoob)
  <2> HIDE DEF whole, spare, R
  <2>1. QED
    BY <1>3, <1>4, <1>6, <1>7, SameRow DEF Store!Delivered
<1> HIDE DEF got
<1>9. QED
  BY <1>1, <1>2, <1>3, <1>5, <1>8 DEF Store!Read, Store!Account

\* A return ends the job: everything was moved, or every block was tried.
LEMMA ReturnEnds ==
  ASSUME TypeOK, "mark" \notin Ops, EraseReturn \/ TransferReturn \/ MarkReturn
  PROVE  Store!End
<1>1. /\ pc \in Transfers /\ pc' = "idle"
      /\ req.total = IF pc = "erase" THEN done + failed ELSE done
      /\ UNCHANGED <<flash, done, failed, out>>
  BY DEF EraseReturn, TransferReturn, MarkReturn, Return, Transfers, TypeOK
<1>2. StoreJob' = Store!Idle
  BY <1>1 DEF StoreJob, Store!Idle
<1>3. QED
  BY <1>1, <1>2, JobOfCall DEF Store!End

\* A block that is stepped over is no step of the transfer.
LEMMA SkipStutters ==
  ASSUME NEW chk, SkipBlock(chk)
  PROVE  UNCHANGED Store!vars
  BY DEF SkipBlock, Store!vars, StoreJob

\* For every geometry of Fits, every buffer and every program or erase that the
\* device reports as failed: what the calls move is what the transfer specification
\* moves, whatever markers they meet.
THEOREM StoreRefined ==
  ASSUME Fits, "late" \notin Faults, "mark" \notin Ops
  PROVE  Spec => StoreSpec
<1>1. Init => Store!Init
  <2> SUFFICES ASSUME Init PROVE Store!Init
    OBVIOUS
  <2>1. flash \in [Store!Pages -> Store!PageContents]
    BY InitTyped DEF TypeOK, Pages, Store!Pages, NumPages, Store!NumPages, PageContents,
       Store!PageContents, Cells, Store!Cells, Val, Store!Val
  <2>2. QED
    BY <2>1 DEF Init, Store!Init, StoreJob, Store!Idle
<1>2. /\ TypeOK /\ CallOK /\ PositionOK /\ OffsetOK /\ TypeOK'
      /\ [Next]_vars
      => [Store!Next]_(Store!vars)
  <2> SUFFICES ASSUME TypeOK, CallOK, PositionOK, OffsetOK, TypeOK', [Next]_vars
               PROVE  [Store!Next]_(Store!vars)
    OBVIOUS
  <2>1. CASE Client
    BY <2>1, CallBegins DEF Store!Next
  <2>2. ASSUME NEW o \in {"ok", "fail"}, EraseBlock(o) PROVE Store!Next
    BY <2>2, EraseBlockRefines DEF Store!Next
  <2>3. ASSUME NEW o \in {"ok", "fail"}, WritePage(o, "ok") PROVE Store!Next
    BY <2>3, WritePageRefines DEF Store!Next
  <2>4. CASE ReadPage("ok", "ok", "ok")
    BY <2>4, ReadPageRefines DEF Store!Next
  <2>5. CASE SkipBlock("ok")
    BY <2>5, SkipStutters
  <2>6. CASE EraseReturn \/ TransferReturn \/ MarkReturn
    BY <2>6, ReturnEnds DEF Store!Next
  <2>7. CASE UNCHANGED vars
    BY <2>7 DEF vars, Store!vars, StoreJob
  <2>8. ASSUME NEW o, MarkPage(o) \/ SecondMark(o) PROVE FALSE
    BY <2>8 DEF MarkPage, SecondMark, TypeOK, CallOK
  <2>9. QED
    BY <2>1, <2>2, <2>3, <2>4, <2>5, <2>6, <2>7, <2>8, NoLateAnswer DEF Next, Step
<1>3. QED
  BY <1>1, <1>2, TypeCorrect, PositionCorrect, OffsetCorrect, PTL
     DEF Spec, StoreSpec, Store!Spec
-----------------------------------------------------------------------------
(* What an erase reports.                                                  *)

\* The block that is erased is the one the block number stands for, past the
\* end of the device too.
LEMMA BlockOfRow ==
  ASSUME NEW b \in Nat
  PROVE  BlockOf(Row(b * PagesPerBlock)) = b % NumBlocks
<1> DEFINE q == b \div NumBlocks
           r == b % NumBlocks
<1>1. q \in Nat /\ r \in 0 .. NumBlocks - 1 /\ b = q * NumBlocks + r
  BY Geometry, DivModNat
<1> HIDE DEF q, r
<1> DEFINE t == r * PagesPerBlock
<1>2. t \in Nat /\ t < NumPages
  <2>1. r + 1 \in Nat /\ r + 1 <= NumBlocks
    BY <1>1, Geometry
  <2>2. (r + 1) * PagesPerBlock <= NumBlocks * PagesPerBlock
    BY <2>1, Geometry, ProductMonotonic
  <2>3. t + PagesPerBlock = (r + 1) * PagesPerBlock
    BY <1>1, Geometry
  <2>4. t \in Nat
    BY <1>1, Geometry
  <2>5. QED
    BY <2>2, <2>3, <2>4, Geometry DEF NumPages
<1>3. b * PagesPerBlock = q * NumPages + t
  BY <1>1, Geometry DEF NumPages
<1>4. Row(b * PagesPerBlock) = t
  <2> HIDE DEF t
  <2>1. (q * NumPages + t) % NumPages = t
    BY <1>1, <1>2, Geometry, DivModUnique
  <2>2. QED
    BY <1>3, <2>1 DEF Row
<1>5. (r * PagesPerBlock + 0) \div PagesPerBlock = r
  BY <1>1, Geometry, DivModUnique
<1>6. QED
  BY <1>1, <1>4, <1>5, Geometry DEF BlockOf, r

\* The blocks an erase from block first went over, and those not erased.
Visited(first, n) == {b \in Blocks : \E k \in 0 .. n - 1 : b = (first + k) % NumBlocks}
Unerased(f) == {b \in Blocks : \E p \in Pages : BlockOf(p) = b /\ f[p] # ErasedPage}

LEMMA MissedBlocks ==
  ASSUME NEW f, NEW first, NEW n
  PROVE  Missed(f, first, n) = Visited(first, n) \cap Unerased(f)
<1> DEFINE went(b) == \E k \in 0 .. n - 1 : b = (first + k) % NumBlocks
           left(b) == \E p \in Pages : BlockOf(p) = b /\ f[p] # ErasedPage
<1>1. /\ Visited(first, n) = {b \in Blocks : went(b)}
      /\ Unerased(f) = {b \in Blocks : left(b)}
      /\ Missed(f, first, n) = {b \in Blocks : went(b) /\ left(b)}
  BY DEF Visited, Unerased, Missed
<1> HIDE DEF went, left
<1>2. QED
  BY <1>1

LEMMA BlocksFinite ==
  ASSUME NEW S \in SUBSET Blocks
  PROVE  IsFiniteSet(S) /\ Cardinality(S) \in Nat
<1>1. IsFiniteSet(Blocks)
  BY FS_Interval, Geometry DEF Blocks
<1>2. QED
  BY <1>1, FS_Subset, FS_CardinalityType

LEMMA EraseBlockTruthful ==
  ASSUME TypeOK, ErasePosition, EraseTruthful, NEW o \in {"ok", "fail"}, EraseBlock(o)
  PROVE  EraseTruthful'
<1> DEFINE B == BlockOf(req.from)
           n == done + failed
           S == Visited(B, n) \cap Unerased(flash)
           T == Visited(B, n + 1) \cap Unerased(flash')
           b == page % NumBlocks
<1>1. /\ pc = "erase" /\ pc' = "erase" /\ req' = req
      /\ page = B + done + failed
  BY DEF EraseBlock, ErasePosition
<1>2. done \in Nat /\ failed \in Nat /\ B \in Nat /\ page \in Nat
  <2>1. req.from \in Nat
    BY Geometry DEF TypeOK
  <2>2. QED
    BY <2>1, BlockOfType DEF TypeOK
<1>3. Cardinality(S) <= failed
  BY <1>1, MissedBlocks DEF EraseTruthful
<1>4. \/ done' = done + 1 /\ failed' = failed
      \/ done' = done /\ failed' = failed + 1
  BY EraseBlockMoves
<1>5. done' + failed' = n + 1
  BY <1>2, <1>4
<1>6. Visited(B, n + 1) \subseteq Visited(B, n) \cup {b}
  <2> SUFFICES ASSUME NEW k \in 0 .. n, NEW c \in Blocks, c = (B + k) % NumBlocks,
                      c # b
               PROVE  c \in Visited(B, n)
    BY <1>2 DEF Visited
  <2>1. B + n = page
    BY <1>1, <1>2
  <2>2. k # n
    <3> HIDE DEF B, n
    <3>1. QED
      BY <2>1
  <2>3. k \in 0 .. n - 1
    BY <1>2, <2>2
  <2>4. QED
    BY <2>3 DEF Visited
<1>7. \/ flash' = EraseAt(flash, Row(page * PagesPerBlock))
      \/ failed' = failed + 1 /\ flash' = flash
  BY EraseBlockMoves
<1>8. \A p \in Pages : EraseAt(flash, Row(page * PagesPerBlock))[p]
                         = IF BlockOf(p) = b THEN ErasedPage ELSE flash[p]
  BY <1>2, BlockOfRow DEF EraseAt
<1>9. Unerased(flash') \subseteq Unerased(flash)
  BY <1>7, <1>8 DEF Unerased
<1>10. failed' = failed => b \notin Unerased(flash')
  BY <1>2, <1>7, <1>8 DEF Unerased
<1>11. b \in Blocks
  BY <1>2, Geometry, DivModNat DEF Blocks
<1>12. S \in SUBSET Blocks /\ T \in SUBSET Blocks
  BY DEF Unerased
<1>13. IsFiniteSet(S) /\ IsFiniteSet(T) /\ Cardinality(S) \in Nat /\ Cardinality(T) \in Nat
  <2> HIDE DEF S, T
  <2>1. QED
    BY <1>12, BlocksFinite
<1>14. CASE failed' = failed
  <2>1. T \subseteq S
    BY <1>6, <1>9, <1>10, <1>14
  <2>2. Cardinality(T) <= Cardinality(S)
    <3> HIDE DEF S, T
    <3>1. QED
      BY <1>13, <2>1, FS_Subset
  <2>3. Cardinality(T) <= failed'
    <3> HIDE DEF S, T, B
    <3>1. QED
      BY <1>2, <1>3, <1>13, <1>14, <2>2
  <2>4. QED
    BY <1>1, <1>5, <2>3, MissedBlocks DEF EraseTruthful
<1>15. CASE failed' = failed + 1
  <2>1. T \subseteq S \cup {b}
    BY <1>6, <1>9
  <2>2. /\ IsFiniteSet(S \cup {b})
        /\ Cardinality(S \cup {b}) \in Nat
        /\ Cardinality(S \cup {b}) <= Cardinality(S) + 1
    <3> HIDE DEF S, b
    <3>1. IsFiniteSet(S \cup {b})
      BY <1>13, FS_AddElement
    <3>2. Cardinality(S \cup {b})
            = IF b \in S THEN Cardinality(S) ELSE Cardinality(S) + 1
      BY <1>13, FS_AddElement
    <3>3. QED
      BY <1>13, <3>1, <3>2
  <2>3. Cardinality(T) <= Cardinality(S) + 1
    <3> HIDE DEF S, T, b
    <3>1. Cardinality(T) <= Cardinality(S \cup {b})
      BY <2>1, <2>2, FS_Subset
    <3>2. QED
      BY <1>13, <2>2, <3>1
  <2>4. Cardinality(T) <= failed'
    <3> HIDE DEF S, T, B
    <3>1. QED
      BY <1>2, <1>3, <1>13, <1>15, <2>3
  <2>5. QED
    BY <1>1, <1>5, <2>4, MissedBlocks DEF EraseTruthful
<1>16. QED
  BY <1>4, <1>14, <1>15

\* At every moment of an erase there are no more blocks that it went over and
\* did not erase than it has counted as failed, for every geometry (erase_block
\* refuses the page of a block that does not fit the mask, which counts too) and
\* also when it goes round the end of the device.
THEOREM EraseReportsFailures ==
  ASSUME "late" \notin Faults
  PROVE  Spec => []EraseTruthful
<1>1. Init => EraseTruthful
  BY DEF Init, EraseTruthful
<1>2. TypeOK /\ ErasePosition /\ EraseTruthful /\ [Next]_vars => EraseTruthful'
  <2> SUFFICES ASSUME TypeOK, ErasePosition, EraseTruthful, [Next]_vars
               PROVE  EraseTruthful'
    OBVIOUS
  <2>1. CASE Client
    <3>1. done' = 0 /\ failed' = 0
      BY <2>1 DEF Client, CallErase, CallRead, CallWrite, CallMark, Call
    <3>2. Visited(BlockOf(req'.from), done' + failed') = {}
      BY <3>1 DEF Visited
    <3>3. Cardinality({}) = 0
      BY FS_EmptySet
    <3>4. Cardinality(Visited(BlockOf(req'.from), done' + failed') \cap Unerased(flash'))
            <= failed'
      BY <3>1, <3>2, <3>3
    <3>5. QED
      BY <3>4, MissedBlocks DEF EraseTruthful
  <2>2. ASSUME NEW o \in {"ok", "fail"}, EraseBlock(o) PROVE EraseTruthful'
    BY <2>2, EraseBlockTruthful
  <2>3. CASE pc' # "erase"
    BY <2>3 DEF EraseTruthful
  <2>4. CASE UNCHANGED vars
    BY <2>4 DEF vars, EraseTruthful
  <2>5. QED
    BY <2>1, <2>2, <2>3, <2>4, NoLateAnswer DEF Next, Step, MarkPage, SecondMark,
       WritePage, ReadPage, SkipBlock, EraseReturn, TransferReturn, MarkReturn, Return
<1>3. QED
  BY <1>1, <1>2, TypeCorrect, ErasePositionCorrect, PTL DEF Spec

-----------------------------------------------------------------------------
(* test_nand_write on a device without failures.  What the driver's steps  *)
(* do to the device is taken from the refinement of NandStore: the layout  *)
(* of the buffer does not appear here.                                     *)

\* The pattern lies on the device, in the blocks that are erased, and its pages
\* have no spare areas; the geometry is one that the driver can move whole.
OnDevice ==
    /\ Fits
    /\ ~WithOob
    /\ TestFrom + TestPages <= NumPages
    /\ TestPages <= EraseBlocks * PagesPerBlock

LEMMA TestPlace ==
  ASSUME OnDevice
  PROVE  /\ TestFrom \in Pages /\ TestFrom \in Nat /\ TestBlock \in Nat /\ TestBlock < NumBlocks
         /\ BlockOf(TestFrom) = TestBlock
         /\ EraseBlocks \in 1 .. MaxTotal /\ TestPages \in 1 .. MaxTotal
         /\ EraseBlocks \in Nat \ {0} /\ TestPages \in Nat \ {0}
         /\ RealPageSize(WithOob) = PageSize /\ RealPageSize(FALSE) = PageSize
<1>1. /\ TestBlock \in Nat /\ TestBlock < NumBlocks
      /\ EraseBlocks \in 1 .. MaxTotal /\ TestPages \in 1 .. MaxTotal
  BY SelfTestAssumption, Geometry DEF Blocks
<1>2. EraseBlocks \in Nat \ {0} /\ TestPages \in Nat \ {0}
  BY <1>1, Geometry
<1>3. TestFrom \in Nat
  BY <1>1, Geometry DEF TestFrom
<1>4. TestFrom < NumPages
  BY <1>2, <1>3, Geometry DEF OnDevice
<1>5. TestFrom \in Pages
  BY <1>3, <1>4, Geometry
<1>6. BlockOf(TestFrom) = TestBlock
  <2>1. 0 \in 0 .. PagesPerBlock - 1 /\ TestBlock * PagesPerBlock + 0 = TestFrom
    BY <1>1, Geometry DEF TestFrom
  <2>2. (TestBlock * PagesPerBlock + 0) \div PagesPerBlock = TestBlock
    BY <1>1, <2>1, Geometry, DivModUnique
  <2>3. QED
    BY <2>1, <2>2 DEF BlockOf
<1>7. RealPageSize(WithOob) = PageSize /\ RealPageSize(FALSE) = PageSize
  BY DEF RealPageSize, OnDevice
<1>8. QED
  BY <1>1, <1>2, <1>3, <1>5, <1>6, <1>7

\* The pages of the pattern, and the page whose marker the driver looks at, lie
\* in blocks that are erased.
InTest(p) == TestBlock <= BlockOf(p) /\ BlockOf(p) < TestBlock + EraseBlocks

LEMMA TestPage ==
  ASSUME OnDevice, NEW k \in 0 .. TestPages - 1
  PROVE  /\ k \in Nat /\ TestFrom + k \in Pages /\ TestFrom + k \in Nat
         /\ Row(TestFrom + k) = TestFrom + k
         /\ InTest(TestFrom + k)
<1>0. /\ TestFrom \in Nat /\ TestPages \in Nat /\ TestBlock \in Nat /\ EraseBlocks \in Nat
      /\ TestFrom + TestPages <= NumPages
  <2>1. EraseBlocks \in Nat \ {0} /\ TestPages \in Nat \ {0} /\ TestFrom \in Nat /\ TestBlock \in Nat
    BY TestPlace, Zenon
  <2>2. QED
    BY <2>1 DEF OnDevice
<1>1. /\ k \in Nat /\ TestFrom \in Nat /\ TestPages \in Nat /\ k < TestPages
      /\ TestFrom + TestPages <= NumPages /\ TestBlock \in Nat /\ EraseBlocks \in Nat
  BY <1>0
<1>2. TestFrom + k \in Nat /\ TestFrom + k < NumPages
  BY <1>1, Geometry
<1>3. TestFrom + k \in Pages
  BY <1>2, Geometry
<1>4. Row(TestFrom + k) = TestFrom + k
  <2>1. PICK x \in 0 .. NumPages - 1 : x = TestFrom + k
    BY <1>3, Geometry
  <2>2. 0 * NumPages + x = x
    BY <2>1, Geometry
  <2>3. (0 * NumPages + x) % NumPages = x
    BY <2>1, Geometry, DivModUnique
  <2>4. QED
    BY <2>1, <2>2, <2>3 DEF Row
<1>5. PICK q \in Nat, r \in 0 .. PagesPerBlock - 1 : k = q * PagesPerBlock + r
  <2>1. /\ k \div PagesPerBlock \in Nat /\ k % PagesPerBlock \in 0 .. PagesPerBlock - 1
        /\ k = (k \div PagesPerBlock) * PagesPerBlock + (k % PagesPerBlock)
    BY <1>1, Geometry, DivModNat
  <2>2. QED
    BY <2>1, Zenon
<1>6. BlockOf(TestFrom + k) = TestBlock + q
  <2>1. (TestBlock + q) * PagesPerBlock + r = TestFrom + k
    BY <1>1, <1>5, Geometry DEF TestFrom
  <2>2. PICK b \in Nat : b = TestBlock + q
    BY <1>1
  <2>3. (b * PagesPerBlock + r) \div PagesPerBlock = b
    <3>1. PagesPerBlock \in Nat \ {0} /\ b \in Int
      BY <2>2, Geometry
    <3>2. QED
      BY <1>5, <3>1, DivModUnique, Zenon
  <2>4. QED
    BY <2>1, <2>2, <2>3 DEF BlockOf
<1>7. q < EraseBlocks
  <2> SUFFICES ASSUME EraseBlocks <= q PROVE FALSE
    BY <1>1
  <2>1. EraseBlocks * PagesPerBlock <= q * PagesPerBlock
    BY <1>1, Geometry, ProductMonotonic
  <2>2. PICK x \in Nat, y \in Nat : x = q * PagesPerBlock /\ y = EraseBlocks * PagesPerBlock
    BY <1>1, Geometry
  <2>3. k = x + r /\ y <= x /\ TestPages <= y
    BY <1>5, <2>1, <2>2 DEF OnDevice
  <2>4. QED
    BY <1>1, <1>5, <2>2, <2>3, Geometry
<1>8. QED
  BY <1>1, <1>2, <1>3, <1>4, <1>6, <1>7 DEF InTest

LEMMA TestMarker ==
  ASSUME OnDevice
  PROVE  /\ MarkerPage(TestFrom) \in Pages
         /\ Row(MarkerPage(TestFrom)) = MarkerPage(TestFrom)
         /\ InTest(MarkerPage(TestFrom))
         /\ MarkerCell \in Cells /\ ErasedPage[MarkerCell] = FF
<1>1. TestFrom \in Nat /\ TestBlock \in Nat /\ TestBlock < NumBlocks
      /\ EraseBlocks \in Nat /\ EraseBlocks >= 1
  <2>1. TestFrom \in Nat /\ TestBlock \in Nat /\ TestBlock < NumBlocks /\ EraseBlocks \in Nat \ {0}
    BY TestPlace, Zenon
  <2>2. QED
    BY <2>1
<1>2. PICK r \in 0 .. PagesPerBlock - 1 : MarkerPage(TestFrom) = TestFrom + r
  <2>1. CASE ScanLastPage
    <3>1. MarkerPage(TestFrom) = TestFrom + (PagesPerBlock - 1)
      BY <1>1, <2>1, Geometry DEF MarkerPage
    <3>2. QED
      BY <3>1, Geometry
  <2>2. CASE ~ScanLastPage
    <3>1. MarkerPage(TestFrom) = TestFrom + 0
      BY <1>1, <2>2 DEF MarkerPage
    <3>2. QED
      BY <3>1, Geometry
  <2>3. QED
    BY <2>1, <2>2
<1>3. TestBlock * PagesPerBlock + r = TestFrom + r
  BY <1>1, Geometry DEF TestFrom
<1>4. BlockOf(TestFrom + r) = TestBlock
  <2>1. PagesPerBlock \in Nat \ {0} /\ TestBlock \in Int /\ r \in 0 .. PagesPerBlock - 1
    BY <1>1, <1>2, Geometry
  <2>2. (TestBlock * PagesPerBlock + r) \div PagesPerBlock = TestBlock
    BY <2>1, DivModUnique, Zenon
  <2>3. QED
    BY <1>3, <2>2, Zenon DEF BlockOf
<1>5. TestFrom + r \in Pages
  <2>1. (TestBlock + 1) * PagesPerBlock <= NumBlocks * PagesPerBlock
    BY <1>1, Geometry, ProductMonotonic
  <2>2. (TestBlock + 1) * PagesPerBlock = TestFrom + PagesPerBlock
    BY <1>1, Geometry DEF TestFrom
  <2>3. TestFrom + PagesPerBlock <= NumPages
    BY <2>1, <2>2 DEF NumPages
  <2>4. QED
    BY <1>1, <1>2, <2>3, Geometry
<1>6. Row(TestFrom + r) = TestFrom + r
  <2>1. PICK x \in 0 .. NumPages - 1 : x = TestFrom + r
    BY <1>5, Geometry
  <2>2. 0 * NumPages + x = x
    BY <2>1, Geometry
  <2>3. (0 * NumPages + x) % NumPages = x
    BY <2>1, Geometry, DivModUnique
  <2>4. QED
    BY <2>1, <2>2, <2>3 DEF Row
<1>7. InTest(TestFrom + r)
  BY <1>1, <1>4 DEF InTest
<1>8. MarkerCell \in Cells /\ ErasedPage[MarkerCell] = FF
  BY Geometry DEF MarkerCell, Cells, ErasedPage
<1>9. QED
  BY <1>2, <1>5, <1>6, <1>7, <1>8

\* The pattern.
LEMMA TestBufType ==
  ASSUME OnDevice
  PROVE  /\ TestBuf \in Seq(Val)
         /\ Len(TestBuf) = TestPages * PageSize
         /\ Len(TestBuf) = TestPages * RealPageSize(WithOob)
<1>1. PICK n \in Nat : n = TestPages * RealPageSize(WithOob) /\ n = TestPages * PageSize
  <2>1. RealPageSize(WithOob) = PageSize /\ TestPages \in Nat \ {0}
    BY TestPlace, Zenon
  <2>2. PICK n \in Nat : n = TestPages * PageSize
    BY <2>1, Geometry
  <2>3. QED
    BY <2>1, <2>2, Zenon
<1>2. \A i \in 0 .. n - 1 : Pattern(i) \in Val
  BY <1>1, SelfTestAssumption
<1>3. TestBuf = [i \in 1 .. n |-> Pattern(i - 1)]
  BY <1>1 DEF TestBuf
<1>4. \A i \in 1 .. n : Pattern(i - 1) \in Val
  <2> SUFFICES ASSUME NEW i \in 1 .. n PROVE Pattern(i - 1) \in Val
    OBVIOUS
  <2>1. PICK j \in 0 .. n - 1 : j = i - 1
    OBVIOUS
  <2>2. QED
    BY <1>2, <2>1
<1>5. TestBuf \in Seq(Val) /\ Len(TestBuf) = n
  BY <1>3, <1>4
<1>6. QED
  BY <1>1, <1>5
-----------------------------------------------------------------------------
(* The states of the command.                                              *)

\* The n-th page of the pattern, as it is stored.
PatternPage(n) == Store!PageOf(TestBuf, n, FALSE)

\* d blocks are erased.
Cleared(f, d) ==
    \A p \in Pages :
        (TestBlock <= BlockOf(p) /\ BlockOf(p) < TestBlock + d) => f[p] = ErasedPage

\* d pages of the pattern are written, the others of its range are erased, and the
\* marker that the driver looks at is clear.
Stored(f, d) ==
    /\ \A k \in 0 .. TestPages - 1 :
          f[TestFrom + k] = IF k < d THEN PatternPage(k) ELSE ErasedPage
    /\ f[MarkerPage(TestFrom)][MarkerCell] = FF

\* d pages of the pattern are read.
Got(o, d) == Len(o) = d * PageSize /\ \A i \in 1 .. d * PageSize : o[i] = TestBuf[i]

Asked(r, total, buf) ==
    r.from = TestFrom /\ r.total = total /\ r.withoob = FALSE /\ r.buf = buf

Calling(op, total, buf) ==
    /\ pc \in {op, "idle"}
    /\ Asked(req, total, buf)
    /\ ret = 0 /\ failed = 0 /\ reported = {}
    /\ pc = "idle" => done = total

TestState ==
    /\ phase \in {"boot", "erase", "write", "read", "end"}
    /\ phase = "boot" => pc = "idle" /\ ret = 0
    /\ phase = "erase" => Calling("erase", EraseBlocks, <<>>) /\ Cleared(flash, done)
    /\ phase = "write" => Calling("write", TestPages, TestBuf) /\ Stored(flash, done)
    /\ phase = "read" => /\ Calling("read", TestPages, <<>>)
                         /\ Stored(flash, TestPages) /\ Got(out, done)
    /\ phase = "end" => pc = "idle" /\ result = "success"

SelfInv == TypeOK /\ CallOK /\ PositionOK /\ OffsetOK /\ TestState

\* What a call of the driver begins.
LEMMA CallBegun ==
  ASSUME TypeOK, CallOK, OffsetOK,
         NEW op \in {"erase", "write", "read"}, NEW total \in 0 .. MaxTotal,
         NEW buf \in Seq(Val), NEW first,
         first = IF op = "erase" THEN BlockOf(TestFrom) ELSE TestFrom,
         Call(op, TestFrom, total, FALSE, buf, first),
         op = "write" => Len(buf) = total * RealPageSize(FALSE),
         OnDevice
  PROVE  /\ TypeOK' /\ CallOK' /\ PositionOK' /\ OffsetOK'
         /\ flash' = flash /\ done' = 0 /\ out' = <<>>
         /\ pc' = op /\ Calling(op, total, buf)'
<1>1. TestFrom \in Pages /\ TestFrom \in Nat /\ TestFrom < NumPages /\ BlockOf(TestFrom) = TestBlock
  <2>1. TestFrom \in Pages /\ TestFrom \in Nat /\ BlockOf(TestFrom) = TestBlock
    BY TestPlace, Zenon
  <2>2. QED
    BY <2>1, Geometry
<1>2. first \in 0 .. PageSpan - 1
  <2>1. BlockOf(TestFrom) \in 0 .. TestFrom
    BY <1>1, BlockOfType
  <2>2. QED
    BY <1>1, <2>1, Geometry
<1>3. TypeOK' /\ CallOK'
  BY <1>1, <1>2, CallTyped
<1>4. PositionOK'
  <2>1. first \in Nat
    BY <1>2, Geometry
  <2>2. /\ pc' = op /\ page' = first /\ done' = 0 /\ failed' = 0 /\ reported' = {}
        /\ req'.from = TestFrom
    BY DEF Call
  <2>3. first + 0 + 0 = first
    BY <2>1
  <2>4. QED
    BY <2>2, <2>3, Zenon DEF PositionOK
<1>5. /\ flash' = flash /\ done' = 0 /\ out' = <<>> /\ pc' = op /\ op # "idle" /\ wOffset' = wOffset
      /\ req' = [from |-> TestFrom, total |-> total, withoob |-> FALSE, buf |-> buf]
      /\ ret' = 0 /\ failed' = 0 /\ reported' = {}
  BY DEF Call
<1>6. Calling(op, total, buf)'
  BY <1>5 DEF Calling, Asked
<1>7. QED
  BY <1>3, <1>4, <1>5, <1>6 DEF OffsetOK

\* The cleared blocks hold the range of the pattern.
LEMMA ClearedRange ==
  ASSUME OnDevice, NEW f, Cleared(f, EraseBlocks)
  PROVE  Stored(f, 0)
<1>1. ASSUME NEW p \in Pages, InTest(p) PROVE f[p] = ErasedPage
  BY <1>1, Zenon DEF Cleared, InTest
<1>2. ASSUME NEW k \in 0 .. TestPages - 1
      PROVE  f[TestFrom + k] = IF k < 0 THEN PatternPage(k) ELSE ErasedPage
  <2>1. k \in Nat /\ TestFrom + k \in Pages /\ InTest(TestFrom + k)
    BY TestPage, Zenon
  <2>2. f[TestFrom + k] = ErasedPage
    BY <1>1, <2>1, Zenon
  <2>3. ~(k < 0)
    BY <2>1
  <2>4. QED
    BY <2>2, <2>3
<1>3. f[MarkerPage(TestFrom)][MarkerCell] = FF
  BY <1>1, TestMarker, Zenon
<1>4. QED
  BY <1>2, <1>3, Zenon DEF Stored

\* The marker of the range is clear: no block is reported.
LEMMA NothingBad ==
  ASSUME OnDevice, req.from = TestFrom, NEW d, Stored(flash, d)
  PROVE  ~FoundBad("ok")
  BY FoundBadMarked, TestMarker, Zenon DEF Marked, Stored, OnDevice

\* One more block is erased.
LEMMA EraseMore ==
  ASSUME OnDevice, NEW f, NEW d \in Nat, Cleared(f, d), NEW row \in Nat, row = TestBlock + d
  PROVE  Cleared(EraseAt(f, Row(row * PagesPerBlock)), d + 1)
<1> DEFINE g == EraseAt(f, Row(row * PagesPerBlock))
<1>1. TestBlock \in Nat
  BY TestPlace, Zenon
<1>2. ASSUME NEW p \in Pages, TestBlock <= BlockOf(p), BlockOf(p) < TestBlock + (d + 1)
      PROVE  g[p] = ErasedPage
  <2>1. PICK b \in Nat : b = BlockOf(p) /\ b < NumBlocks
    <3>1. p \in Nat /\ p < NumPages
      BY Geometry
    <3>2. BlockOf(p) \in Nat
      BY <3>1, BlockOfType
    <3>3. BlockOf(p) < NumBlocks
      <4>1. /\ p \div PagesPerBlock \in Nat
            /\ p % PagesPerBlock \in 0 .. PagesPerBlock - 1
            /\ p = (p \div PagesPerBlock) * PagesPerBlock + (p % PagesPerBlock)
        BY <3>1, Geometry, DivModNat
      <4>2. PICK q \in Nat, r \in Nat : q = BlockOf(p) /\ p = q * PagesPerBlock + r
        BY <4>1 DEF BlockOf
      <4> SUFFICES ASSUME NumBlocks <= q PROVE FALSE
        BY <4>2, Geometry
      <4>3. NumBlocks * PagesPerBlock <= q * PagesPerBlock
        BY <4>2, Geometry, ProductMonotonic
      <4>4. PICK x \in Nat : x = q * PagesPerBlock
        BY <4>2, Geometry
      <4>5. NumPages <= x
        BY <4>3, <4>4, Zenon DEF NumPages
      <4>6. p = x + r
        BY <4>2, <4>4, Zenon
      <4>7. NumPages \in Nat /\ p < NumPages /\ r \in Nat
        BY <3>1, <4>2, Geometry
      <4>8. QED
        BY <4>4, <4>5, <4>6, <4>7
    <3>4. QED
      BY <3>2, <3>3, Zenon
  <2>2. CASE b = row
    <3>1. BlockOf(Row(row * PagesPerBlock)) = row % NumBlocks
      BY BlockOfRow, Zenon
    <3>2. row % NumBlocks = row
      <4>1. 0 * NumBlocks + row = row /\ row \in 0 .. NumBlocks - 1
        BY <2>1, <2>2, Geometry
      <4>2. (0 * NumBlocks + row) % NumBlocks = row
        <5>1. NumBlocks \in Nat \ {0} /\ 0 \in Int
          BY Geometry
        <5>2. QED
          BY <4>1, <5>1, DivModUnique, Zenon
      <4>3. QED
        BY <4>1, <4>2, Zenon
    <3>3. QED
      BY <2>1, <2>2, <3>1, <3>2, Zenon DEF EraseAt
  <2>3. CASE b # row
    <3>1. BlockOf(p) < TestBlock + d
      BY <1>1, <1>2, <2>1, <2>3
    <3>2. f[p] = ErasedPage
      BY <1>2, <3>1, Zenon DEF Cleared
    <3>3. QED
      BY <3>2, Zenon DEF EraseAt
  <2>4. QED
    BY <2>2, <2>3, Zenon
<1>3. QED
  BY <1>2, Zenon DEF Cleared

\* One more page of the pattern is written, as the transfer specification has it.
LEMMA WriteMore ==
  ASSUME OnDevice, NEW f \in [Pages -> PageContents], NEW d \in 0 .. TestPages - 1, Stored(f, d)
  PROVE  Stored([f EXCEPT ![Row(TestFrom + d)] =
                   Store!ProgramCells(@, PatternPage(d), Store!Cells)], d + 1)
<1> DEFINE g == [f EXCEPT ![Row(TestFrom + d)] =
                   Store!ProgramCells(@, PatternPage(d), Store!Cells)]
<1>1. d \in Nat /\ TestFrom \in Nat /\ TestFrom + d \in Pages /\ Row(TestFrom + d) = TestFrom + d
  BY TestPage, TestPlace, Zenon
<1>2. f[TestFrom + d] = ErasedPage
  <2>1. ~(d < d)
    BY <1>1
  <2>2. QED
    BY <2>1 DEF Stored
<1>3. Store!ProgramCells(ErasedPage, PatternPage(d), Store!Cells) = PatternPage(d)
  BY SameRow DEF Store!ProgramCells, Store!ProgramCell, PatternPage, Store!PageOf, ErasedPage
<1>4. \A p \in Pages : g[p] = IF p = TestFrom + d THEN PatternPage(d) ELSE f[p]
  BY <1>1, <1>2, <1>3
<1> HIDE DEF g
<1>5. ASSUME NEW k \in 0 .. TestPages - 1
      PROVE  g[TestFrom + k] = IF k < d + 1 THEN PatternPage(k) ELSE ErasedPage
  <2>1. k \in Nat /\ TestFrom + k \in Pages
    BY TestPage, Zenon
  <2>2. TestFrom + k = TestFrom + d <=> k = d
    BY <1>1, <2>1
  <2>3. CASE k = d
    <3>1. k < d + 1
      BY <1>1, <2>3
    <3>2. QED
      BY <1>4, <2>1, <2>3, <3>1, Zenon
  <2>4. CASE k # d
    <3>1. k < d + 1 <=> k < d
      BY <1>1, <2>1, <2>4
    <3>2. g[TestFrom + k] = f[TestFrom + k]
      BY <1>4, <2>1, <2>2, <2>4, Zenon
    <3>3. QED
      BY <3>1, <3>2 DEF Stored
  <2>5. QED
    BY <2>3, <2>4, Zenon
<1>6. g[MarkerPage(TestFrom)][MarkerCell] = FF
  <2>1. MarkerPage(TestFrom) \in Pages /\ MarkerCell \in Cells
    BY TestMarker, Zenon
  <2>2. CASE MarkerPage(TestFrom) = TestFrom + d
    <3>1. PatternPage(d)[MarkerCell] = FF
      <4>1. MarkerCell \in Store!Cells /\ ~(MarkerCell < Store!RealPageSize(FALSE))
        BY <2>1, SameRow, Geometry DEF MarkerCell, Store!RealPageSize
      <4>2. QED
        BY <4>1, Zenon DEF PatternPage, Store!PageOf
    <3>2. QED
      BY <1>1, <1>4, <2>2, <3>1, Zenon
  <2>3. CASE MarkerPage(TestFrom) # TestFrom + d
    BY <1>4, <2>1, <2>3, Zenon DEF Stored
  <2>4. QED
    BY <2>2, <2>3, Zenon
<1>7. QED
  BY <1>5, <1>6, Zenon DEF Stored, g

\* One more page is read.
LEMMA ReadMore ==
  ASSUME OnDevice, NEW f, NEW o \in Seq(Val), NEW d \in 0 .. TestPages - 1,
         Stored(f, TestPages), Got(o, d)
  PROVE  Got(o \o Store!Delivered(f[TestFrom + d], FALSE), d + 1)
<1>1. d \in Nat /\ d < TestPages /\ TestPages \in Nat /\ PageSize \in Nat \ {0}
  <2>1. TestPages \in Nat \ {0}
    BY TestPlace, Zenon
  <2>2. QED
    BY <2>1, Geometry
<1>2. f[TestFrom + d] = PatternPage(d)
  BY <1>1 DEF Stored
<1>3. PICK x \in Nat : x = d * PageSize
  BY <1>1
<1>4. PICK e \in Nat : e = d + 1
  BY <1>1
<1>5. e * PageSize = x + PageSize
  BY <1>1, <1>3, <1>4
<1>6. PICK n \in Nat : n = TestPages * PageSize /\ x + PageSize <= n
  <2>1. d * PageSize + PageSize <= TestPages * PageSize /\ TestPages * PageSize \in Nat
    BY <1>1, ProductStep
  <2>2. QED
    BY <1>3, <2>1
<1>7. Len(TestBuf) = n /\ TestBuf \in Seq(Val)
  BY <1>6, TestBufType, Zenon
<1> DEFINE got == Store!Delivered(PatternPage(d), FALSE)
<1>8. got = [i \in 1 .. PageSize |-> TestBuf[x + i]]
  <2>1. Store!RealPageSize(FALSE) = PageSize
    BY DEF Store!RealPageSize
  <2>2. \A i \in 1 .. PageSize : PatternPage(d)[i - 1] = TestBuf[x + i]
    <3> SUFFICES ASSUME NEW i \in 1 .. PageSize PROVE PatternPage(d)[i - 1] = TestBuf[x + i]
      OBVIOUS
    <3>1. PICK j \in Nat : j = i - 1 /\ j < PageSize /\ j \in Cells /\ x + j + 1 = x + i
      BY <1>1, <1>3, Geometry DEF Cells
    <3>2. PatternPage(d)[j] = TestBuf[d * Store!RealPageSize(FALSE) + j + 1]
      BY <2>1, <3>1, SameRow, Zenon DEF PatternPage, Store!PageOf
    <3>3. d * Store!RealPageSize(FALSE) + j + 1 = x + j + 1
      BY <1>3, <2>1, Zenon
    <3>4. QED
      BY <3>1, <3>2, <3>3, Zenon
  <2>3. QED
    BY <2>1, <2>2, Zenon DEF Store!Delivered
<1> HIDE DEF got
<1>9. got \in Seq(Val) /\ Len(got) = PageSize
  <2>1. \A i \in 1 .. PageSize : TestBuf[x + i] \in Val
    BY <1>1, <1>6, <1>7
  <2>2. QED
    BY <1>1, <1>8, <2>1
<1>10. Len(o) = x /\ \A i \in 1 .. x : o[i] = TestBuf[i]
  BY <1>3, Zenon DEF Got
<1>11. Len(o \o got) = x + PageSize
  BY <1>9, <1>10
<1>12. ASSUME NEW i \in 1 .. x + PageSize PROVE (o \o got)[i] = TestBuf[i]
  <2>1. CASE i <= x
    BY <1>1, <1>3, <1>9, <1>10, <1>12, <2>1
  <2>2. CASE ~(i <= x)
    <3>1. PICK j \in 1 .. PageSize : j = i - x /\ x + j = i
      BY <1>1, <1>3, <1>12, <2>2
    <3>2. (o \o got)[i] = got[j]
      <4>1. i \in 1 .. Len(o) + Len(got) /\ ~(i <= Len(o)) /\ j = i - Len(o)
        BY <1>9, <1>10, <1>12, <2>2, <3>1
      <4>2. (o \o got)[i] = got[i - Len(o)]
        BY <1>9, <4>1
      <4>3. QED
        BY <4>1, <4>2, Zenon
    <3>3. got[j] = TestBuf[x + j]
      BY <1>8, Zenon
    <3>4. QED
      BY <3>1, <3>2, <3>3
  <2>3. QED
    BY <2>1, <2>2
<1>13. Got(o \o got, e)
  BY <1>5, <1>11, <1>12, Zenon DEF Got
<1>14. QED
  BY <1>2, <1>4, <1>13, Zenon DEF got
-----------------------------------------------------------------------------
(* The steps.                                                              *)
\* Without faults every command of the controller is done.
LEMMA NoFaults ==
  ASSUME Faults = {}
  PROVE  ReadOutcomes = {"ok"} /\ ProgramOutcomes = {"ok"} /\ "late" \notin Faults
  BY DEF ReadOutcomes, ProgramOutcomes

\* A unit that is done leaves 0 as the return value.
LEMMA UnitDone ==
  ASSUME status' = StatusAfter("ok"),
         IF StatusFail(status')
         THEN ret' = -1 /\ failed' = failed + 1 /\ UNCHANGED done
         ELSE ret' = 0 /\ done' = done + 1 /\ UNCHANGED failed
  PROVE  ret' = 0 /\ done' = done + 1 /\ failed' = failed
  BY DEF StatusAfter, StatusFail, StatusReady, StatusFailed

LEMMA EraseStep ==
  ASSUME OnDevice, SelfInv, EraseBlock("ok"), UNCHANGED <<phase, result>>
  PROVE  TestState'
<1>1. pc = "erase" /\ phase \in {"boot", "erase", "write", "read", "end"}
  BY DEF EraseBlock, SelfInv, TestState
<1>2. phase = "erase"
  BY <1>1 DEF SelfInv, TestState, Calling
<1>3. Calling("erase", EraseBlocks, <<>>) /\ Cleared(flash, done)
  BY <1>2 DEF SelfInv, TestState
<1>4. FirstPageOfBlock(page * PagesPerBlock)
  <2>1. PICK p \in Nat : p = page * PagesPerBlock /\ p = page * PagesPerBlock + 0
    BY Geometry DEF SelfInv, TypeOK
  <2>2. PagesPerBlock \in Nat \ {0} /\ page \in Int /\ 0 \in 0 .. PagesPerBlock - 1
    BY Geometry DEF SelfInv, TypeOK
  <2>3. (page * PagesPerBlock + 0) % PagesPerBlock = 0
    BY <2>2, DivModUnique, Zenon
  <2>4. QED
    BY <2>1, <2>3, FirstPage, Zenon DEF OnDevice
<1>5. done \in Nat /\ failed = 0 /\ req.from = TestFrom /\ TestBlock \in Nat
  <2>1. TestBlock \in Nat
    BY TestPlace, Zenon
  <2>2. QED
    BY <1>3, <2>1, Geometry DEF SelfInv, TypeOK, Calling, Asked
<1>6. page = TestBlock + done
  <2>1. BlockOf(TestFrom) = TestBlock
    BY TestPlace, Zenon
  <2>2. page = BlockOf(req.from) + done + failed
    BY <1>1 DEF SelfInv, PositionOK
  <2>3. QED
    BY <1>5, <2>1, <2>2
<1>7. /\ flash' = EraseAt(flash, Row(page * PagesPerBlock))
      /\ ret' = 0 /\ done' = done + 1 /\ failed' = failed
  BY <1>4, UnitDone DEF EraseBlock
<1>8. page \in Nat
  BY <1>5, <1>6
<1>9. Cleared(EraseAt(flash, Row(page * PagesPerBlock)), done + 1)
  BY <1>3, <1>5, <1>6, <1>8, EraseMore, Zenon
<1>10. Cleared(flash', done')
  BY <1>7, <1>9, Zenon
<1>11. pc' = "erase" /\ req' = req /\ reported' = reported /\ phase' = "erase"
  BY <1>1, <1>2 DEF EraseBlock
<1>12. Calling("erase", EraseBlocks, <<>>)'
  BY <1>3, <1>7, <1>11 DEF Calling, Asked
<1>13. QED
  BY <1>10, <1>11, <1>12 DEF TestState, Cleared

LEMMA WriteStep ==
  ASSUME OnDevice, SelfInv, WritePage("ok", "ok"), UNCHANGED <<phase, result>>
  PROVE  TestState'
<1>1. pc = "write" /\ done < req.total /\ phase \in {"boot", "erase", "write", "read", "end"}
  BY DEF WritePage, SelfInv, TestState
<1>2. phase = "write"
  BY <1>1 DEF SelfInv, TestState, Calling
<1>3. Calling("write", TestPages, TestBuf) /\ Stored(flash, done)
  BY <1>2 DEF SelfInv, TestState
<1>4. ret' = 0 /\ done' = done + 1 /\ failed' = failed
  BY UnitDone DEF WritePage
<1>5. /\ done \in Nat /\ failed = 0 /\ req.from = TestFrom /\ req.withoob = FALSE
      /\ req.buf = TestBuf /\ TestFrom \in Nat /\ done \in 0 .. TestPages - 1
  <2>1. TestFrom \in Nat /\ TestPages \in Nat \ {0}
    BY TestPlace, Zenon
  <2>2. QED
    BY <1>1, <1>3, <2>1, Geometry DEF SelfInv, TypeOK, Calling, Asked
<1>6. Store!Write("ok" = "ok")
  BY WritePageRefines, Zenon DEF SelfInv, OffsetOK, OnDevice
<1>7. flash' = [flash EXCEPT ![Row(TestFrom + done)] =
                  Store!ProgramCells(@, PatternPage(done), Store!Cells)]
  <2>1. StoreJob.first = TestFrom /\ StoreJob.buf = TestBuf /\ StoreJob.withoob = FALSE
    BY <1>1, <1>5, JobOfCall DEF SelfInv, Transfers
  <2>2. Store!Unit = TestFrom + done
    BY <1>5, <2>1 DEF Store!Unit
  <2>3. flash' = [flash EXCEPT ![Store!Row(Store!Unit)] =
                    Store!ProgramCells(@, Store!PageOf(StoreJob.buf, done, StoreJob.withoob),
                                       Store!Cells)]
    BY <1>6, Zenon DEF Store!Write
  <2>4. QED
    BY <2>1, <2>2, <2>3, SameRow, Zenon DEF PatternPage
<1>8. flash \in [Pages -> PageContents]
  BY DEF SelfInv, TypeOK
<1>9. Stored(flash', done')
  BY <1>3, <1>4, <1>5, <1>7, <1>8, WriteMore, Zenon
<1>10. pc' = "write" /\ req' = req /\ reported' = reported /\ phase' = "write"
  BY <1>1, <1>2 DEF WritePage
<1>11. Calling("write", TestPages, TestBuf)'
  BY <1>3, <1>4, <1>10 DEF Calling, Asked
<1>12. QED
  BY <1>9, <1>10, <1>11, Zenon DEF TestState

LEMMA ReadStep ==
  ASSUME OnDevice, SelfInv, ReadPage("ok", "ok", "ok"), UNCHANGED <<phase, result>>
  PROVE  TestState'
<1>1. pc = "read" /\ done < req.total /\ phase \in {"boot", "erase", "write", "read", "end"}
  BY DEF ReadPage, SelfInv, TestState
<1>2. phase = "read"
  BY <1>1 DEF SelfInv, TestState, Calling
<1>3. Calling("read", TestPages, <<>>) /\ Stored(flash, TestPages) /\ Got(out, done)
  BY <1>2 DEF SelfInv, TestState
<1>4. ret' = ret /\ done' = done + 1 /\ failed' = failed /\ flash' = flash
  BY DEF ReadPage
<1>5. /\ done \in Nat /\ failed = 0 /\ req.from = TestFrom /\ req.withoob = FALSE
      /\ TestFrom \in Nat /\ done \in 0 .. TestPages - 1 /\ out \in Seq(Val)
  <2>1. TestFrom \in Nat /\ TestPages \in Nat \ {0}
    BY TestPlace, Zenon
  <2>2. QED
    BY <1>1, <1>3, <2>1, Geometry DEF SelfInv, TypeOK, Calling, Asked
<1>6. Store!Read
  BY ReadPageRefines, Zenon DEF SelfInv, OnDevice
<1>7. out' = out \o Store!Delivered(flash[TestFrom + done], FALSE)
  <2>1. StoreJob.first = TestFrom /\ StoreJob.withoob = FALSE
    BY <1>1, <1>5, JobOfCall DEF SelfInv, Transfers
  <2>2. Store!Unit = TestFrom + done
    BY <1>5, <2>1 DEF Store!Unit
  <2>3. Row(TestFrom + done) = TestFrom + done
    BY <1>5, TestPage, Zenon
  <2>4. out' = out \o Store!Delivered(flash[Store!Row(Store!Unit)], StoreJob.withoob)
    BY <1>6, Zenon DEF Store!Read
  <2>5. QED
    BY <2>1, <2>2, <2>3, <2>4, SameRow, Zenon
<1>8. Got(out', done')
  BY <1>3, <1>4, <1>5, <1>7, ReadMore, Zenon
<1>9. Stored(flash', TestPages)
  BY <1>3, <1>4, Zenon
<1>10. pc' = "read" /\ req' = req /\ reported' = reported /\ phase' = "read"
  BY <1>1, <1>2 DEF ReadPage
<1>11. Calling("read", TestPages, <<>>)'
  BY <1>3, <1>4, <1>10 DEF Calling, Asked
<1>12. QED
  BY <1>8, <1>9, <1>10, <1>11, Zenon DEF TestState

\* No block is stepped over.
LEMMA NoSkip ==
  ASSUME OnDevice, SelfInv, SkipBlock("ok") PROVE FALSE
<1>1. pc \in {"read", "write"} /\ FoundBad("ok")
  BY DEF SkipBlock
<1>2. phase \in {"write", "read"}
  BY <1>1 DEF SelfInv, TestState, Calling
<1>3. req.from = TestFrom /\ \E d : Stored(flash, d)
  BY <1>2 DEF SelfInv, TestState, Calling, Asked
<1>4. QED
  BY <1>1, <1>3, NothingBad

\* A call returns when it has moved all of its units.
LEMMA ReturnStep ==
  ASSUME OnDevice, SelfInv, EraseReturn \/ TransferReturn, UNCHANGED <<phase, result>>
  PROVE  TestState'
<1>1. /\ pc' = "idle" /\ pc # "idle" /\ UNCHANGED <<flash, req, done, failed, out, ret, reported>>
      /\ pc = "erase" => done + failed = req.total
      /\ pc \in {"read", "write"} => done = req.total
  BY DEF EraseReturn, TransferReturn, Return
<1>2. phase \in {"erase", "write", "read"} /\ phase' = phase /\ pc = phase
  BY <1>1 DEF SelfInv, TestState, Calling
<1>3. ASSUME NEW op \in {"erase", "read", "write"}, NEW total, NEW buf, Calling(op, total, buf), pc = op
      PROVE  Calling(op, total, buf)'
  <2>1. done \in Nat /\ failed = 0 /\ req.total = total
    BY <1>3, Geometry DEF SelfInv, TypeOK, Calling, Asked
  <2>2. done = total
    BY <1>1, <1>3, <2>1
  <2>3. QED
    BY <1>1, <1>3, <2>2 DEF Calling, Asked
<1>4. CASE phase = "erase"
  <2>1. Calling("erase", EraseBlocks, <<>>) /\ Cleared(flash, done)
    BY <1>4 DEF SelfInv, TestState
  <2>2. Calling("erase", EraseBlocks, <<>>)'
    BY <1>2, <1>3, <1>4, <2>1, Zenon
  <2>3. Cleared(flash', done')
    BY <1>1, <2>1, Zenon
  <2>4. QED
    BY <1>2, <1>4, <2>2, <2>3, Zenon DEF TestState
<1>5. CASE phase = "write"
  <2>1. Calling("write", TestPages, TestBuf) /\ Stored(flash, done)
    BY <1>5 DEF SelfInv, TestState
  <2>2. Calling("write", TestPages, TestBuf)'
    BY <1>2, <1>3, <1>5, <2>1, Zenon
  <2>3. Stored(flash', done')
    BY <1>1, <2>1, Zenon
  <2>4. QED
    BY <1>2, <1>5, <2>2, <2>3, Zenon DEF TestState
<1>6. CASE phase = "read"
  <2>1. Calling("read", TestPages, <<>>) /\ Stored(flash, TestPages) /\ Got(out, done)
    BY <1>6 DEF SelfInv, TestState
  <2>2. Calling("read", TestPages, <<>>)'
    BY <1>2, <1>3, <1>6, <2>1, Zenon
  <2>3. Stored(flash', TestPages) /\ Got(out', done')
    BY <1>1, <2>1, Zenon
  <2>4. QED
    BY <1>2, <1>6, <2>2, <2>3, Zenon DEF TestState
<1>7. QED
  BY <1>2, <1>4, <1>5, <1>6

\* The steps of the driver.
LEMMA DriverHolds ==
  ASSUME OnDevice, Faults = {}, SelfInv, Step, UNCHANGED <<phase, result>>
  PROVE  SelfInv'
<1>1. TypeOK' /\ CallOK' /\ PositionOK'
  BY NoFaults, TypeInductive, PositionInductive DEF SelfInv, Next, OnDevice
<1>2. pc # "mark" /\ pc # "second_mark"
  BY DEF SelfInv, TestState, Calling
<1>3. \/ EraseBlock("ok") \/ WritePage("ok", "ok") \/ ReadPage("ok", "ok", "ok")
      \/ SkipBlock("ok") \/ EraseReturn \/ TransferReturn
  BY <1>2, NoFaults DEF Step, MarkPage, SecondMark, MarkReturn
<1>4. TestState'
  BY <1>3, EraseStep, WriteStep, ReadStep, NoSkip, ReturnStep
<1>5. OffsetOK'
  <2>1. CASE WritePage("ok", "ok")
    <3>1. wOffset' = OffsetAfter(0)
      BY <2>1 DEF WritePage
    <3>2. OffsetAfter(0) = 0
      BY Geometry DEF OffsetAfter
    <3>3. QED
      BY <3>1, <3>2, Zenon DEF OffsetOK
  <2>2. CASE ~WritePage("ok", "ok")
    <3>1. wOffset' = wOffset
      BY <1>3, <2>2, Zenon DEF EraseBlock, ReadPage, SkipBlock, EraseReturn, TransferReturn, Return
    <3>2. QED
      BY <3>1, Zenon DEF SelfInv, OffsetOK
  <2>3. QED
    BY <2>1, <2>2
<1>6. QED
  BY <1>1, <1>4, <1>5 DEF SelfInv

LEMMA StartHolds ==
  ASSUME OnDevice, SelfInv, StartTest
  PROVE  SelfInv'
<1>1. Call("erase", TestFrom, EraseBlocks, FALSE, <<>>, BlockOf(TestFrom)) /\ phase' = "erase"
  BY DEF StartTest, CallErase
<1>2. EraseBlocks \in 0 .. MaxTotal /\ TestBlock \in Nat
  <2>1. EraseBlocks \in 1 .. MaxTotal /\ TestBlock \in Nat
    BY TestPlace, Zenon
  <2>2. QED
    BY <2>1
<1>3. <<>> \in Seq(Val)
  OBVIOUS
<1>4. /\ TypeOK' /\ CallOK' /\ PositionOK' /\ OffsetOK' /\ done' = 0
      /\ Calling("erase", EraseBlocks, <<>>)'
  BY <1>1, <1>2, <1>3, CallBegun DEF SelfInv
<1>5. Cleared(flash', 0)
  <2>1. ASSUME NEW p \in Pages PROVE ~(TestBlock <= BlockOf(p) /\ BlockOf(p) < TestBlock + 0)
    <3>1. p \in Nat
      BY Geometry
    <3>2. BlockOf(p) \in Nat
      BY <3>1, BlockOfType
    <3>3. QED
      BY <1>2, <3>2
  <2>2. QED
    BY <2>1, Zenon DEF Cleared
<1>6. TestState'
  BY <1>1, <1>4, <1>5, Zenon DEF TestState
<1>7. QED
  BY <1>4, <1>6 DEF SelfInv

LEMMA EraseEndHolds ==
  ASSUME OnDevice, SelfInv, AfterErase
  PROVE  SelfInv'
<1>1. phase = "erase" /\ pc = "idle"
  BY DEF AfterErase
<1>2. /\ Calling("erase", EraseBlocks, <<>>) /\ Cleared(flash, done)
      /\ ret = 0 /\ done = EraseBlocks
  BY <1>1 DEF SelfInv, TestState, Calling
<1>3. CallWrite(TestFrom, TestPages, WithOob, TestBuf) /\ phase' = "write"
  BY <1>2 DEF AfterErase
<1>4. Call("write", TestFrom, TestPages, FALSE, TestBuf, TestFrom)
  <2>1. WithOob = FALSE
    BY SelfTestAssumption DEF OnDevice
  <2>2. Call("write", TestFrom, TestPages, WithOob, TestBuf, TestFrom)
    BY <1>3, Zenon DEF CallWrite
  <2>3. QED
    BY <2>1, <2>2, Zenon
<1>5. TestPages \in 0 .. MaxTotal
  <2>1. TestPages \in 1 .. MaxTotal
    BY TestPlace, Zenon
  <2>2. QED
    BY <2>1
<1>6. TestBuf \in Seq(Val) /\ Len(TestBuf) = TestPages * RealPageSize(FALSE)
  BY TestBufType, TestPlace, Zenon
<1>7. /\ TypeOK' /\ CallOK' /\ PositionOK' /\ OffsetOK' /\ done' = 0 /\ flash' = flash
      /\ Calling("write", TestPages, TestBuf)'
  BY <1>4, <1>5, <1>6, CallBegun DEF SelfInv
<1>8. Stored(flash', done')
  BY <1>2, <1>7, ClearedRange, Zenon
<1>9. TestState'
  BY <1>3, <1>7, <1>8, Zenon DEF TestState
<1>10. QED
  BY <1>7, <1>9 DEF SelfInv

LEMMA WriteEndHolds ==
  ASSUME OnDevice, SelfInv, AfterWrite
  PROVE  SelfInv'
<1>1. phase = "write" /\ pc = "idle"
  BY DEF AfterWrite
<1>2. Stored(flash, TestPages) /\ ret = 0
  BY <1>1 DEF SelfInv, TestState, Calling
<1>3. CallRead(TestFrom, TestPages, WithOob) /\ phase' = "read"
  BY <1>2 DEF AfterWrite
<1>4. Call("read", TestFrom, TestPages, FALSE, <<>>, TestFrom)
  <2>1. WithOob = FALSE
    BY SelfTestAssumption DEF OnDevice
  <2>2. Call("read", TestFrom, TestPages, WithOob, <<>>, TestFrom)
    BY <1>3, Zenon DEF CallRead
  <2>3. QED
    BY <2>1, <2>2, Zenon
<1>5. TestPages \in 0 .. MaxTotal /\ PageSize \in Nat
  <2>1. TestPages \in 1 .. MaxTotal
    BY TestPlace, Zenon
  <2>2. QED
    BY <2>1, Geometry
<1>6. <<>> \in Seq(Val)
  OBVIOUS
<1>7. /\ TypeOK' /\ CallOK' /\ PositionOK' /\ OffsetOK' /\ done' = 0 /\ flash' = flash
      /\ out' = <<>> /\ Calling("read", TestPages, <<>>)'
  BY <1>4, <1>5, <1>6, CallBegun DEF SelfInv
<1>8. Got(<<>>, 0)
  BY <1>5 DEF Got
<1>9. Stored(flash', TestPages) /\ Got(out', done')
  BY <1>2, <1>7, <1>8, Zenon
<1>10. TestState'
  BY <1>3, <1>7, <1>9, Zenon DEF TestState
<1>11. QED
  BY <1>7, <1>10 DEF SelfInv

\* All of the pattern that is read is the pattern.
LEMMA ReadEndHolds ==
  ASSUME OnDevice, SelfInv, AfterRead
  PROVE  SelfInv'
<1>1. phase = "read" /\ pc = "idle" /\ UNCHANGED vars /\ phase' = "end"
      /\ result' = IF out = TestBuf THEN "success" ELSE "failed"
  BY DEF AfterRead
<1>2. Got(out, TestPages) /\ out \in Seq(Val)
  BY <1>1 DEF SelfInv, TestState, Calling, TypeOK
<1>3. PICK n \in Nat : n = TestPages * PageSize
  <2>1. TestPages \in Nat \ {0}
    BY TestPlace, Zenon
  <2>2. QED
    BY <2>1, Geometry
<1>4. TestBuf \in Seq(Val) /\ Len(TestBuf) = n
  BY <1>3, TestBufType, Zenon
<1>5. Len(out) = n /\ \A i \in 1 .. n : out[i] = TestBuf[i]
  BY <1>2, <1>3, Zenon DEF Got
<1>6. out = TestBuf
  BY <1>2, <1>4, <1>5
<1>7. TestState'
  BY <1>1, <1>6 DEF TestState, vars
<1>8. TypeOK' /\ CallOK' /\ PositionOK' /\ OffsetOK'
  <2>1. TypeOK' /\ CallOK'
    BY <1>1, TypeInductive DEF SelfInv
  <2>2. PositionOK' /\ OffsetOK'
    BY <1>1 DEF SelfInv, vars, PositionOK, OffsetOK, Marked, MarkerPage
  <2>3. QED
    BY <2>1, <2>2
<1>9. QED
  BY <1>7, <1>8 DEF SelfInv

\* test_nand_write finds the pattern it has written, whichever blocks were marked
\* bad before, for every geometry of Fits, place and length of the range and every pattern,
\* on a device that fails nothing (cmd_nand.c:305-385).
THEOREM ReadBackCorrect ==
  ASSUME Faults = {}, OnDevice
  PROVE  TestSpec => []ReadBackEqual
<1>1. TestInit => SelfInv
  <2> SUFFICES ASSUME TestInit PROVE SelfInv
    OBVIOUS
  <2>1. TypeOK /\ CallOK
    BY InitTyped DEF TestInit
  <2>2. PositionOK /\ OffsetOK /\ TestState
    BY DEF TestInit, Init, PositionOK, OffsetOK, TestState
  <2>3. QED
    BY <2>1, <2>2 DEF SelfInv
<1>2. SelfInv /\ [TestNext]_testvars => SelfInv'
  <2> SUFFICES ASSUME SelfInv, [TestNext]_testvars PROVE SelfInv'
    OBVIOUS
  <2>1. CASE Test
    BY <2>1, StartHolds, EraseEndHolds, WriteEndHolds, ReadEndHolds DEF Test
  <2>2. CASE DriverStep
    BY <2>2, DriverHolds DEF DriverStep
  <2>3. CASE UNCHANGED testvars
    <3>1. UNCHANGED vars /\ phase' = phase /\ result' = result
      BY <2>3 DEF testvars
    <3>2. TypeOK' /\ CallOK'
      BY <3>1, TypeInductive DEF SelfInv
    <3>3. PositionOK' /\ OffsetOK'
      BY <3>1 DEF SelfInv, vars, PositionOK, OffsetOK, Marked, MarkerPage
    <3>4. TestState'
      BY <3>1, Zenon DEF SelfInv, vars, TestState, Calling
    <3>5. QED
      BY <3>2, <3>3, <3>4 DEF SelfInv
  <2>4. QED
    BY <2>1, <2>2, <2>3 DEF TestNext
<1>3. SelfInv => ReadBackEqual
  BY DEF SelfInv, TestState, ReadBackEqual
<1>4. QED
  BY <1>1, <1>2, <1>3, PTL DEF TestSpec
=============================================================================
