------------------------------ MODULE Console ------------------------------
(***************************************************************************)
(* The command console, src/src/console.c: the line editor and its history *)
(* ring (GetMessage), the tokenizer (TranslateMessage) and the dispatcher  *)
(* (DispatchMessage).  A key is one action: GetMessage reads the bytes of  *)
(* an escape sequence as one key.  The buffer is the sequence of the       *)
(* cur_max characters in it; what the code leaves behind them is never     *)
(* looked at.  A key that is put into a buffer without room for it and for *)
(* the NUL is written behind szMsg, on the stack of start_console: nothing *)
(* the program does afterwards is modelled.                                *)
(***************************************************************************)
EXTENDS Integers, Sequences, FiniteSets, SequencesExt

CONSTANTS
    Chars,        \* the characters typed, Space among them
    Space,
    HstDep,       \* CMD_HST_DEP
    MaxCmdLen,    \* MAX_CMD_LEN
    MaxCmdArg,    \* MAX_CMD_ARG
    MaxCmdArgLen, \* MAX_CMD_ARG_LEN
    NoCommand,    \* what an argv slot holds that was never set
    TypedMax,     \* bound: characters of the line and of those entered, but
                  \* for a key written past the buffer
    LinesMax      \* bound: lines entered

ASSUME ConsoleAssumption ==
    /\ Space \in Chars
    /\ HstDep \in Nat \ {0, 1}
    /\ MaxCmdLen \in Nat \ {0}
    /\ MaxCmdArg \in Nat \ {0}
    /\ MaxCmdArgLen \in Nat \ {0}
    /\ TypedMax \in Nat
    /\ LinesMax \in Nat

VARIABLES
    line,      \* buf up to cur_max
    cursor,    \* cur_pos
    hist,      \* vpchCmdStack: the slots of the history ring
    sp,        \* iCmdHstSP: the slot of the next line
    hstpos,    \* hst_pos: the slot shown
    argv,      \* argv of start_console, kept from one line to the next
    entered,   \* history: the lines entered
    ran,       \* history: what DispatchMessage looked up for each, or "error"
    intact     \* history: nothing was written past the end of a buffer

vars == <<line, cursor, hist, sp, hstpos, argv, entered, ran, intact>>
-----------------------------------------------------------------------------
Slots == 0 .. HstDep - 1

\* A mutation: CMD_ADJUST_INDEX with one slot too few.
AdjustShort(index) == index % (HstDep - 1)
\* CMD_ADJUST_INDEX: a mask, for a depth that is a power of two.
Adjust(index) == index % HstDep

Before == SubSeq(line, 1, cursor)
After == SubSeq(line, cursor + 1, Len(line))

Init ==
    /\ line = <<>>
    /\ cursor = 0
    /\ hist = [i \in Slots |-> <<>>]
    /\ sp = 0
    /\ hstpos = 0
    /\ argv = [i \in 1 .. MaxCmdArg |-> NoCommand]
    /\ entered = <<>>
    /\ ran = <<>>
    /\ intact = TRUE

\* What the bound TypedMax counts.
Characters == FoldLeft(LAMBDA n, l : n + Len(l), Len(line), entered)

Edited == UNCHANGED <<hist, sp, hstpos, argv, entered, ran>>

\* PrintInput: the cursor is compared with the limit, not the line.  Without
\* room the key is answered by "command too long" and changes nothing.
HasRoom == cursor < MaxCmdLen - 1

\* InsertOneKey moves what is behind the cursor, the NUL included, one place
\* up.
TypeChar(ch) ==
    /\ intact
    /\ Characters < TypedMax \/ Len(line) + 1 = MaxCmdLen
    /\ HasRoom
    /\ line' = Before \o <<ch>> \o After
    /\ cursor' = cursor + 1
    /\ intact' = (Len(line) + 1 < MaxCmdLen)
    /\ Edited

\* A mutation: cur_pos stays.
BackSpaceKeepsCursor ==
    /\ intact
    /\ cursor > 0
    /\ line' = SubSeq(line, 1, cursor - 1) \o After
    /\ UNCHANGED <<cursor, intact>>
    /\ Edited
BackSpaceOneKey ==
    /\ intact
    /\ cursor > 0
    /\ line' = SubSeq(line, 1, cursor - 1) \o After
    /\ cursor' = cursor - 1
    /\ UNCHANGED intact
    /\ Edited

DeleteOneKey ==
    /\ intact
    /\ cursor < Len(line)
    /\ line' = Before \o Tail(After)
    /\ UNCHANGED <<cursor, intact>>
    /\ Edited

\* Left, Right, Home and End.
MoveCursor ==
    /\ intact
    /\ cursor' \in {cursor - 1, cursor + 1, 0, Len(line)} \cap 0 .. Len(line)
    /\ cursor' # cursor
    /\ UNCHANGED <<line, intact>>
    /\ Edited

\* The line saved when history browsing starts: buf is cut at the cursor.
SavedLine == Before

\* A mutation: the line is saved over the newest entry.
SaveInPrevious == [hist EXCEPT ![Adjust(sp - 1)] = SavedLine]
SaveCurrent == IF hstpos = sp THEN [hist EXCEPT ![sp] = SavedLine] ELSE hist

CmdUpKey ==
    LET saved == SaveCurrent
        index == Adjust(hstpos - 1)
    IN  /\ intact
        /\ hist' = saved
        /\ IF index # sp
           THEN line' = saved[index] /\ cursor' = Len(saved[index]) /\ hstpos' = index
           ELSE UNCHANGED <<line, cursor, hstpos>>
        /\ UNCHANGED <<sp, argv, entered, ran, intact>>

CmdDownKey ==
    LET index == Adjust(hstpos + 1)
    IN  /\ intact
        /\ hstpos # sp
        /\ line' = hist[index]
        /\ cursor' = Len(hist[index])
        /\ hstpos' = index
        /\ UNCHANGED <<hist, sp, argv, entered, ran, intact>>

\* Ctrl-C, and Enter on an empty line: the prompt again; hst_pos is kept.
Abandon ==
    /\ intact
    /\ line' = <<>>
    /\ cursor' = 0
    /\ UNCHANGED <<hist, sp, hstpos, argv, entered, ran, intact>>
-----------------------------------------------------------------------------
(* TranslateMessage.                                                       *)
WordStarts(buf) ==
    {i \in 1 .. Len(buf) : buf[i] # Space /\ (i = 1 \/ buf[i - 1] = Space)}
WordEnd(buf, i) ==
    CHOOSE j \in i .. Len(buf) :
        /\ \A k \in i .. j : buf[k] # Space
        /\ j = Len(buf) \/ buf[j + 1] = Space
\* Where the n-th word starts, and the words.
WordStart(buf, n) ==
    CHOOSE i \in WordStarts(buf) : Cardinality({k \in WordStarts(buf) : k < i}) = n - 1
Words(buf) ==
    [n \in 1 .. Cardinality(WordStarts(buf)) |->
        SubSeq(buf, WordStart(buf, n), WordEnd(buf, WordStart(buf, n)))]

\* The words it looks at: no more than argv has room for.
Taken(buf) == SubSeq(Words(buf), 1,
                     IF Len(Words(buf)) < MaxCmdArg THEN Len(Words(buf)) ELSE MaxCmdArg)

\* A mutation: the terminating NUL is forgotten in the length test.
FitsNoNul(word) == Len(word) <= MaxCmdArgLen
Fits(word) == Len(word) + 1 <= MaxCmdArgLen

\* The words stored in argv before one that is too long ends the scan.
Stored(buf) ==
    SubSeq(Taken(buf), 1,
           Cardinality({n \in 1 .. Len(Taken(buf)) :
                          \A k \in 1 .. n : Fits(Taken(buf)[k])}))

ArgvAfter(buf) ==
    [i \in 1 .. MaxCmdArg |->
        IF i <= Len(Stored(buf)) THEN Stored(buf)[i] ELSE argv[i]]

\* Enter: CmdUpdateHistory, TranslateMessage, DispatchMessage.  A line of
\* blanks gives argc = 0, and find_cmd is called with the argv[0] that an
\* earlier line left there.
Enter ==
    /\ intact
    /\ line # <<>>
    /\ Len(entered) < LinesMax /\ Characters <= TypedMax
    /\ entered' = Append(entered, line)
    /\ hist' = [hist EXCEPT ![sp] = line]
    /\ sp' = Adjust(sp + 1)
    /\ hstpos' = sp'
    /\ argv' = ArgvAfter(line)
    /\ ran' = Append(ran, IF Len(Stored(line)) < Len(Taken(line)) THEN "error"
                          ELSE argv'[1])
    /\ line' = <<>>
    /\ cursor' = 0
    /\ UNCHANGED intact

\* The stack was overwritten: no step from here on is modelled.
Overrun ==
    /\ ~ intact
    /\ UNCHANGED vars

Edit ==
    \/ \E ch \in Chars : TypeChar(ch)
    \/ BackSpaceOneKey \/ DeleteOneKey \/ MoveCursor

Browse == CmdUpKey \/ CmdDownKey

Next == Edit \/ Browse \/ Abandon \/ Enter \/ Overrun

Spec == Init /\ [][Next]_vars
-----------------------------------------------------------------------------
Texts == Seq(Chars)

TypeOK ==
    /\ line \in Texts
    /\ cursor \in 0 .. Len(line)
    /\ hist \in [Slots -> Texts]
    /\ sp \in Slots
    /\ hstpos \in Slots
    /\ argv \in [1 .. MaxCmdArg -> Texts \cup {NoCommand}]
    /\ entered \in Seq(Texts)
    /\ Len(ran) = Len(entered)
    /\ intact \in BOOLEAN
    \* szMsg, every slot of the ring and the words copied to tmp_buf fit their
    \* buffers of MAX_CMD_LEN bytes: no strcpy overruns one.
    /\ intact => Len(line) < MaxCmdLen
    /\ \A i \in Slots : Len(hist[i]) < MaxCmdLen

\* The k-th line before the prompt, or an empty one if there is none.
EnteredBefore(k) ==
    IF k \in 1 .. Len(entered) THEN entered[Len(entered) - k + 1] ELSE <<>>

\* The ring keeps the last HstDep - 1 lines, whatever is typed, browsed,
\* saved or abandoned in between, until a key is written past the buffer; one
\* slot is lost to the line being edited.
HistoryHolds ==
    intact => \A k \in 1 .. HstDep - 1 : hist[(sp - k) % HstDep] = EnteredBefore(k)

\* Up and Down show the line as many entries back as the slot they move to.
BrowseShows ==
    [][intact /\ hstpos' # hstpos /\ entered' = entered /\ hstpos' # sp =>
         line' = EnteredBefore((sp - hstpos') % HstDep)]_vars

\* A line that is not blank runs its own first word, and runs nothing exactly
\* if one of the words that argv has room for does not fit its slot, until a
\* key is written past the buffer.
RunsFirstWord ==
    intact => \A n \in 1 .. Len(entered) :
        LET words == Words(entered[n])
            toolong == \E k \in 1 .. Len(words) :
                          k <= MaxCmdArg /\ Len(words[k]) > MaxCmdArgLen - 1
        IN  words # <<>> => ran[n] = IF toolong THEN "error" ELSE words[1]

\* "the command must be less than %d letter" (console.c:144).
LineFits == Len(line) < MaxCmdLen
=============================================================================
