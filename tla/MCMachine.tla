------------------------------- MODULE MCMachine --------------------------------
(* Machine with eight slots of four bytes, two of them low memory, a pool of   *)
(* three tables, and boards of two devices with two functions of three base    *)
(* address registers, one function more than the list has room for.            *)
EXTENDS Machine

\* Regions that end below the last slot: empty ones, some that cross a slot
\* boundary, overlap low memory or one another, or need more than the pool has.
RegionsBelowTop ==
    {r \in [addr : {0, 7, 9, 20}, size : {0, 4, 11, 15}] : r.addr + r.size <= Word - Span}

MCMemory == 0 .. Word - 1

Bar(base, size) == [io |-> FALSE, wide |-> FALSE, base |-> base, size |-> size]
NoBar           == Bar(0, Word)
IoBar           == [Bar(4, 4) EXCEPT !.io = TRUE]
WideBar(base, size) == [Bar(base, size) EXCEPT !.wide = TRUE]

Function(class, multi, bars) ==
    [class |-> class, normal |-> TRUE, multi |-> multi,
     bars |-> [i \in 0 .. Bars - 1 |-> bars[i + 1]],
     command |-> {"other"}, errors |-> class = "usb"]

Net    == Function("net", FALSE, <<IoBar, Bar(12, 4), NoBar>>)
Usb    == Function("usb", FALSE, <<WideBar(16, 8), NoBar, Bar(10, 2)>>)
UsbTop == Function("usb", FALSE, <<WideBar(8, 4), Bar(1, 1), WideBar(24, 4)>>)
Bridge == [Function("bridge", TRUE, <<Bar(20, 1), Bar(3, 1), NoBar>>) EXCEPT !.normal = FALSE]

At(device, function) == [bus |-> 0, device |-> device, function |-> function]

\* A device that echoes its one function; all four places taken; a second
\* function without a first; nothing.
MCBoards ==
    {At(0, 0) :> Net @@ At(0, 1) :> Net @@ At(1, 0) :> Bridge @@ At(1, 1) :> Usb,
     At(0, 0) :> Bridge @@ At(0, 1) :> UsbTop @@ At(1, 0) :> [Usb EXCEPT !.multi = TRUE]
         @@ At(1, 1) :> Net,
     At(0, 1) :> Net @@ At(1, 0) :> UsbTop,
     <<>>}

Segment(load, offset, filesz, vaddr, memsz) ==
    [load |-> load, offset |-> offset, filesz |-> filesz, vaddr |-> vaddr, memsz |-> memsz]

Image(segments) ==
    [valid |-> TRUE, size |-> 20, phoff |-> 4, phentsize |-> 2, segments |-> segments]

Text == Segment(TRUE, 10, 3, 2, 5)      \* three bytes and two zeros
Note == Segment(FALSE, 50, 9, 0, 3)

\* Files of another format and with a table beyond their end; segments that
\* overlap, the later with more bytes or fewer; that lie in a slot which may be
\* mapped, in part or wholly; that end beyond the file, or are larger in it than
\* in memory, after one that is copied.
MCImages ==
    {[Image(<<Text>>) EXCEPT !.valid = FALSE],
     Image(<<>>),
     [Image(<<Text, Text>>) EXCEPT !.phentsize = 9],
     Image(<<Text, Note, Segment(TRUE, 14, 2, 3, 2)>>),
     Image(<<Segment(TRUE, 14, 1, 3, 2), Text>>),
     Image(<<Text, Segment(TRUE, 16, 4, 6, 5)>>),
     Image(<<Segment(TRUE, 11, 2, 16, 4), Text>>),
     Image(<<Text, Segment(TRUE, 18, 3, 4, 3)>>),
     Image(<<Text, Segment(TRUE, 12, 3, 4, 2)>>)}
================================================================================
