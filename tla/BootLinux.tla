----------------------------- MODULE BootLinux -----------------------------
(***************************************************************************)
(* From main to the kernel: main and boot_linux (src/src/main.c) and the   *)
(* command linux with the tag list it leaves for the kernel                *)
(* (src/src/cmd/cmd_bootlinux.c).                                          *)
(*                                                                         *)
(* The command reads its words one step at a time.  argv holds more words  *)
(* than argc says: those that earlier lines left there.  cmdline is        *)
(* __cmdline_str with the bytes behind it, tags the memory at the address  *)
(* of the tag list.  Addresses are numbers that nothing is done with.      *)
(***************************************************************************)
EXTENDS Numbers, FiniteSetsExt

CONSTANTS
    Size,       \* sizeof(__cmdline_str)
    MaxCmdArg, MaxCmdArgLen, \* MAX_CMD_ARG and MAX_CMD_ARG_LEN of console.c
    Behind,     \* bound: bytes behind __cmdline_str that are looked at
    Defaults,   \* default_machid, default_atag_addr, ... of main.c
    Patches,    \* what the areas of head.S may be patched to, "" for nothing
    Lines,      \* bound: the lines of the console, their first word included
    LinesMax,   \* bound: lines entered
    Slots,      \* bound: entries of argv that are looked at
    Stale,      \* what argv may hold in them at first
    OldMemory   \* what the memory at __atag_base may hold at first

Opt(c) == <<45, c>>
DashM == Opt(109)
DashA == Opt(97)
DashK == Opt(107)
DashC == Opt(99)
DashB == Opt(98)
DashH == Opt(104)
Linux == <<108, 105, 110, 117, 120>>
Blank == 32

Areas == {"machid", "atag", "cmdline", "kernel"}

Texts == Seq(1 .. 255)
AreaTexts == {p \in [Areas -> Texts] : Len(p.cmdline) < Size}

\* The words that the console can hand over fit the buffer: two of them are
\* "linux" and "-c", and 6 * 32 < 256.  An area is patched with its NUL, and
\* the default has room for the blank behind it.
ASSUME BootAssumption ==
    /\ {Size, Behind, MaxCmdArgLen} \subseteq Nat \ {0} /\ LinesMax \in Nat
    /\ Size + Behind <= 2^16
    /\ MaxCmdArg \in Nat /\ MaxCmdArg > 1
    /\ (MaxCmdArg - 2) * MaxCmdArgLen < Size
    /\ Slots \in Nat /\ Slots >= MaxCmdArg + 3 /\ Slots >= 13
    /\ Defaults \in AreaTexts /\ Len(Defaults.cmdline) < Size - 1
    /\ Patches \subseteq AreaTexts
    /\ OldMemory \subseteq Seq(0 .. 255)
    /\ \A f \in OldMemory : Len(f) = 40 + Size + Behind
    /\ \A line \in Lines : /\ line \in Seq(Texts) /\ Len(line) \in 1 .. MaxCmdArg
                          /\ \A k \in 1 .. Len(line) : Len(line[k]) < MaxCmdArgLen
    /\ Stale \subseteq Texts

VARIABLES
    areas,    \* what boot_linux found in __linux_cmdline, ... of head.S
    phase,    \* where the program is
    caller,   \* who called the command
    argv, argc, i, boot,
    chars,    \* chars of the loop for -c
    params,   \* __machine_id, __atag_base, __kernel_base
    cmdline,  \* __cmdline_str and what is behind it
    tags,     \* memory at __atag_base
    before,   \* history: params and cmdline when the command began
    lines     \* history: lines entered

bootVars == <<areas, phase, caller, argv, argc, i, boot, chars, params, cmdline,
              tags, before, lines>>
-----------------------------------------------------------------------------
(* Memory.                                                                 *)
Untouched == 255

\* Memory is a sequence whose first byte has address 0.  Put is the memory with
\* the bytes s from address k on; what is past its end is dropped.
Put(f, k, s) ==
    SubSeq(SubSeq(f, 1, k) \o s \o SubSeq(f, k + Len(s) + 1, Len(f)), 1, Len(f))

\* The string at address k.
StringAt(f, k) ==
    LET ends == {n \in k + 1 .. Len(f) : f[n] = 0}
    IN  IF ends = {} THEN <<>> ELSE SubSeq(f, k + 1, Min(ends) - 1)

\* What strncpy(pdest, psrc, n) stores: a NUL even behind the n bytes when psrc
\* is longer than that, and none when it is exactly as long.
Strncpy(src, n) ==
    IF Len(src) > n THEN SubSeq(src, 1, n) \o <<0>>
    ELSE IF Len(src) < n THEN src \o <<0>> ELSE src

WordsLE(n) == <<n % 256, (n \div 256) % 256, 0, 0>>
AtagCore == <<1, 0, 65, 84>>
AtagCmdline == <<9, 0, 65, 84>>
AtagNone == <<0, 0, 0, 0>>
-----------------------------------------------------------------------------
(* main.                                                                   *)
BootInit ==
    /\ areas = [a \in Areas |-> <<>>]
    /\ phase = "main" /\ caller = "main"
    /\ argv \in {[k \in 0 .. Slots |-> w] : w \in Stale}
    /\ argc = 0 /\ i = 0 /\ boot = FALSE /\ chars = 0
    /\ params = [machid |-> 1, atag |-> 1, kernel |-> 1]
    /\ cmdline = [k \in 1 .. Size + Behind |-> IF k = 1 THEN 0 ELSE Untouched]
    /\ tags \in OldMemory
    /\ before = [params |-> params, cmdline |-> <<>>]
    /\ lines = 0

Words(line) ==
    argv' = [k \in DOMAIN argv |-> IF k < Len(line) THEN line[k + 1] ELSE argv[k]]

\* A mutation: -b of an earlier line is remembered.
BootAtFirstKept == boot
BootAtFirst == FALSE

\* The command linux is called with the words of line.
Begin(line) ==
    /\ Words(line)
    /\ caller' = phase
    /\ argc' = Len(line)
    /\ i' = 1
    /\ boot' = BootAtFirst
    /\ before' = [params |-> params, cmdline |-> StringAt(cmdline, 0)]
    /\ phase' = "options"
    /\ UNCHANGED <<chars, params, cmdline, tags>>

\* A mutation: a patched area is overridden.
DefaultFirst(p, a) == IF Defaults[a] # <<>> THEN Defaults[a] ELSE p[a]
AreaOrDefault(p, a) == IF p[a] = <<>> THEN Defaults[a] ELSE p[a]

\* No 'c' has come in by now: boot_linux.  Its argv is its own; what is behind
\* "-b" is not read.
MainBoot ==
    /\ phase = "main"
    /\ \E p \in Patches :
          /\ areas' = p
          /\ Begin(<<Linux, DashM, AreaOrDefault(p, "machid"),
                     DashA, AreaOrDefault(p, "atag"), DashC, AreaOrDefault(p, "cmdline"),
                     DashK, AreaOrDefault(p, "kernel"), DashB>>)
    /\ UNCHANGED lines

\* platform_init_nand, whose result is not looked at, and start_console.
MainConsole ==
    /\ phase = "main"
    /\ phase' = "console"
    /\ UNCHANGED <<areas, caller, argv, argc, i, boot, chars, params, cmdline, tags, before, lines>>

LineLinux(line) ==
    /\ phase = "console" /\ lines < LinesMax
    /\ Head(line) = Linux
    /\ Len(line) > 1            \* show_help otherwise
    /\ Begin(line)
    /\ lines' = lines + 1
    /\ UNCHANGED areas

\* Another command leaves its words in argv.
LineOther(line) ==
    /\ phase = "console" /\ lines < LinesMax
    /\ Head(line) # Linux
    /\ Words(line)
    /\ lines' = lines + 1
    /\ UNCHANGED <<areas, phase, caller, argc, i, boot, chars, params, cmdline, tags, before>>
-----------------------------------------------------------------------------
(* The options.                                                            *)
Numeric == [o \in {DashM, DashA, DashK} |->
              IF o = DashM THEN "machid" ELSE IF o = DashA THEN "atag" ELSE "kernel"]

InOptions == phase = "options" /\ i < argc

\* -m, -a, -k with a word behind it, whatever that word is.
TakeNumber ==
    /\ InOptions
    /\ argv[i] \in DOMAIN Numeric
    /\ i + 1 < argc
    /\ params' = [params EXCEPT ![Numeric[argv[i]]] = Strtoul(argv[i + 1])]
    /\ i' = i + 2
    /\ UNCHANGED <<areas, phase, caller, argv, argc, boot, chars, cmdline, tags, before, lines>>

\* A mutation: a second -c goes on behind the first.
FirstCharKept == chars
FirstChar == 0

\* A mutation: -c itself is looked at as its first word.
FirstWordSame == i
FirstWord == i + 1

TakeCmdline ==
    /\ InOptions
    /\ argv[i] = DashC
    /\ i + 1 < argc
    /\ i' = FirstWord
    /\ chars' = FirstChar
    /\ phase' = "words"
    /\ UNCHANGED <<areas, caller, argv, argc, boot, params, cmdline, tags, before, lines>>

\* sizeof(__cmdline_str) - chars is unsigned: it is above 0 unless the two are
\* equal, and very large once chars is past the end.
Room == IF chars <= Size THEN Size - chars ELSE Size + chars

\* The word is copied, and a blank put behind it if it was not the last.
AppendWord ==
    LET word == argv[i]
        copied == Put(cmdline, chars, Strncpy(word, Room))
        after == chars + Len(word)
    IN  /\ phase = "words"
        /\ i < argc
        /\ At(word, 0) # 45
        /\ chars # Size
        /\ i' = i + 1
        /\ IF i + 1 >= argc
           THEN cmdline' = copied /\ chars' = after
           ELSE cmdline' = Put(copied, after, <<Blank>>) /\ chars' = after + 1
        /\ UNCHANGED <<areas, phase, caller, argv, argc, boot, params, tags, before, lines>>

\* A mutation: behind a blank after the last word.
TextEndOneOn == chars + 1
TextEnd == chars

\* A word that begins with '-', the end of the line, or a full buffer.
EndWords ==
    /\ phase = "words"
    /\ i >= argc \/ At(argv[i], 0) = 45 \/ chars = Size
    /\ cmdline' = Put(cmdline, TextEnd, <<0>>)
    /\ phase' = "options"
    /\ UNCHANGED <<areas, caller, argv, argc, i, boot, chars, params, tags, before, lines>>

\* The place that "-b" is looked for at: each test for an option that finds it
\* in the last place has advanced i, and the next test reads argv[argc].
Past(k, o) == IF argv[k] = o THEN k + 1 ELSE k
Place == Past(Past(Past(Past(i, DashM), DashA), DashK), DashC)

Other ==
    /\ InOptions
    /\ argv[i] \in {DashM, DashA, DashK, DashC} => i + 1 >= argc
    /\ argv[Place] # DashH
    /\ boot' = (boot \/ argv[Place] = DashB)
    /\ i' = Place + 1
    /\ UNCHANGED <<areas, phase, caller, argv, argc, chars, params, cmdline, tags, before, lines>>

\* dead_loop, or the next line.
Returned == IF caller = "main" THEN "dead" ELSE "console"

\* show_help and return.
Help ==
    /\ InOptions
    /\ argv[i] \in {DashM, DashA, DashK, DashC} => i + 1 >= argc
    /\ argv[Place] = DashH
    /\ phase' = Returned
    /\ UNCHANGED <<areas, caller, argv, argc, i, boot, chars, params, cmdline, tags, before, lines>>

EndLine ==
    /\ phase = "options" /\ i >= argc /\ ~boot
    /\ phase' = Returned
    /\ UNCHANGED <<areas, caller, argv, argc, i, boot, chars, params, cmdline, tags, before, lines>>
-----------------------------------------------------------------------------
(* The tag list.                                                           *)
NoLeadingBlanks(s) ==
    LET kept == {n \in 1 .. Len(s) : s[n] # Blank}
    IN  IF kept = {} THEN <<>> ELSE SubSeq(s, Min(kept), Len(s))

\* A mutation: the bytes of the string that fill no word are not counted.
CmdlineWordsDown(s) == (8 + Len(s)) \div 4
\* atag_cmdline_setup: the NUL is not counted.
CmdlineWords(s) == (8 + Len(s) + 3) \div 4

\* Core, command line and end are written in this order; the size of the last
\* takes the place of a NUL that did not fit.
StartKernel ==
    LET s == NoLeadingBlanks(StringAt(cmdline, 0))
        core == Put(tags, 0, WordsLE(5) \o AtagCore \o [k \in 1 .. 12 |-> 0])
        line == Put(core, 20, WordsLE(CmdlineWords(s)) \o AtagCmdline \o s \o <<0>>)
    IN  /\ phase = "options" /\ i >= argc /\ boot
        /\ tags' = Put(line, 20 + 4 * CmdlineWords(s), WordsLE(0) \o AtagNone)
        /\ phase' = "kernel"
        /\ UNCHANGED <<areas, caller, argv, argc, i, boot, chars, params, cmdline, before, lines>>

BootNext ==
    \/ MainBoot \/ MainConsole
    \/ \E line \in Lines : LineLinux(line) \/ LineOther(line)
    \/ TakeNumber \/ TakeCmdline \/ AppendWord \/ EndWords
    \/ Other \/ Help \/ EndLine \/ StartKernel

\* The processor runs the command it has begun.
BootSpec ==
    /\ BootInit /\ [][BootNext]_bootVars
    /\ WF_bootVars(TakeNumber \/ TakeCmdline \/ AppendWord \/ EndWords
                   \/ Other \/ Help \/ EndLine \/ StartKernel)
-----------------------------------------------------------------------------
(* Properties.                                                             *)

BootTypeOK ==
    /\ phase \in {"main", "console", "options", "words", "kernel", "dead"}
    /\ caller \in {"main", "console"}
    /\ i \in 0 .. argc + 5
    /\ boot \in BOOLEAN
    /\ chars \in 0 .. Size
    /\ params \in [{"machid", "atag", "kernel"} -> 0 .. ULong - 1]

Given == {argv[k] : k \in 1 .. argc - 1}
LastOf(o) == Max({k \in 1 .. argc - 1 : argv[k] = o})
BeginsWithDash(w) == At(w, 0) = 45

\* Every option that takes a word has one, and no such word begins with '-'.
WellFormed ==
    \A k \in 1 .. argc - 1 :
        argv[k] \in {DashM, DashA, DashK, DashC}
        => k + 1 < argc /\ ~BeginsWithDash(argv[k + 1])

\* The words words[from], ..., words[to - 1], each with a blank behind it.
Joined(words, from, to) ==
    LET text[n \in 0 .. to - from] ==
          IF n = 0 THEN <<>> ELSE text[n - 1] \o words[from + n - 1] \o <<Blank>>
    IN  text[to - from]

\* The words from k on as the kernel's command line: up to an option, and
\* without a blank behind the last word of the line.
CommandLine(k) ==
    LET stop == Min({n \in k .. argc - 1 : BeginsWithDash(argv[n])} \cup {argc})
        text == Joined(argv, k, stop)
    IN  IF stop = argc THEN SubSeq(text, 1, Len(text) - 1) ELSE text

\* When a line whose options are complete has been read, each parameter is
\* what its last option says, and what it was before where there is none: the
\* help's "-m Machine ID", "-a ATAG Address", "-c Command Line String" and
\* "-k Kernel Address" (cmd_bootlinux.c:168-171).
ParamsAsAsked ==
    (phase = "options" /\ i >= argc /\ WellFormed)
    => /\ \A o \in DOMAIN Numeric :
            params[Numeric[o]] = IF o \in Given THEN Strtoul(argv[LastOf(o) + 1])
                                 ELSE before.params[Numeric[o]]
       /\ StringAt(cmdline, 0) = IF DashC \in Given THEN CommandLine(LastOf(DashC) + 1)
                                 ELSE before.cmdline

\* The kernel finds a core tag, a command line tag with the whole string
\* without its leading blanks, and the end of the list behind it, whatever the
\* length of the string and whatever was in memory before; and after a boot
\* without console the parameters are those patched into the image, or the
\* defaults where nothing is patched (main.c:60-78).
KernelSees ==
    phase = "kernel" =>
    LET s == NoLeadingBlanks(StringAt(cmdline, 0))
        bytes(k, n) == SubSeq(tags, k + 1, k + n)
        next == 20 + 4 * (tags[21] + 256 * tags[22])
    IN  /\ bytes(0, 8) = <<5, 0, 0, 0>> \o AtagCore
        /\ bytes(24, 4) = AtagCmdline
        /\ StringAt(tags, 28) = s
        /\ next >= 28 + Len(s)
        /\ bytes(next, 8) = <<0, 0, 0, 0>> \o AtagNone
        /\ (caller = "main" /\ WellFormed) =>
             \A a \in Areas :
                LET text == IF areas[a] # <<>> THEN areas[a] ELSE Defaults[a]
                IN  IF a = "cmdline" THEN s = NoLeadingBlanks(text \o <<Blank>>)
                    ELSE params[a] = Strtoul(text)

\* A line boots the kernel only if -b is in it ("-b Boot the Kernel",
\* cmd_bootlinux.c:172), also after a line that asked for it and ended with the
\* help.  An option in last place is excepted: it reads a word of an earlier
\* line.
BootsAsked ==
    phase = "kernel" =>
        DashB \in Given \/ argv[argc - 1] \in {DashM, DashA, DashK, DashC}

\* Nothing is stored behind __cmdline_str, except one NUL behind a patched
\* string that fills its area: boot_linux passes "-k" after it, and with the
\* blank the text fills the buffer.
BufferHeld ==
    /\ \A k \in Size + 2 .. Size + Behind : cmdline[k] = Untouched
    /\ cmdline[Size + 1] # Untouched
       => cmdline[Size + 1] = 0 /\ caller = "main" /\ Len(areas.cmdline) = Size - 1

\* Every line is read to its end.
LineEnds == phase \in {"options", "words"} ~> phase \in {"console", "kernel", "dead"}
=============================================================================
