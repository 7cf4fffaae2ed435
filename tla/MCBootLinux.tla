---------------------------- MODULE MCBootLinux ----------------------------
(***************************************************************************)
(* BootLinux for TLC: a command line buffer of 32 bytes, an image with     *)
(* nothing or everything patched and with a command line that fills its    *)
(* area, and pairs of lines with the options in every place that matters.  *)
(***************************************************************************)
EXTENDS BootLinux

\* Words are sequences of character codes.
n5 == <<53>>
n0x1f == <<48, 120, 49, 102>>
n010 == <<48, 49, 48>>
x == <<120>>
xy == <<120, 121>>
xyz == <<120, 121, 122>>

MCDefaults == [machid |-> <<51>>, atag |-> n0x1f, cmdline |-> xy, kernel |-> n010]

Nothing == [a \in Areas |-> <<>>]
Text(n) == [k \in 1 .. n |-> 120]
MCPatches ==
    {[Nothing EXCEPT !.cmdline = Text(n)] : n \in 0 .. Size - 1}
    \cup {[machid |-> n5, atag |-> n5, cmdline |-> <<32, 32, 120>>, kernel |-> n0x1f],
          [Nothing EXCEPT !.cmdline = DashH], [Nothing EXCEPT !.kernel = xy]}

L(words) == <<Linux>> \o words
MCLines ==
    {L(<<>>), <<x, x, DashB>>, <<x, DashC, DashA, DashB>>,
     L(<<DashM, n5>>), L(<<DashM, n5, DashA, n0x1f, DashK, n010>>),
     L(<<DashM, n5, DashM, n010>>), L(<<DashM, DashA, n5>>),
     L(<<DashC, x>>), L(<<DashC, xyz, x>>), L(<<DashC, xy, x, DashB>>),
     L(<<DashC, xyz, xyz, DashC, xy>>), L(<<DashC, DashC, x>>), L(<<DashC, DashB>>),
     L(<<DashM>>), L(<<DashA>>), L(<<DashK>>), L(<<DashC>>), L(<<n5, DashM>>),
     L(<<DashB>>), L(<<DashB, DashH>>), L(<<DashH, DashB>>), L(<<DashB, DashM, n5>>),
     L(<<n5, DashA, n5, DashB>>)}
MCStale == {x, DashB, DashH, DashA}

\* Erased, filled, and the middle of a list.
MCOldMemory ==
    {[k \in 1 .. 40 + Size + Behind |-> b] : b \in {0, 255}}
    \cup {[k \in 1 .. 40 + Size + Behind |-> IF k % 4 = 3 THEN 65 ELSE 9]}
=============================================================================
