----------------------------------- MODULE Pci -----------------------------------
(****************************************************************************)
(* The PCI bus as src/kernel/drivers/pci.c sees it: the configuration       *)
(* registers of the functions on the board, the list pci_scan makes of      *)
(* them, and the calls by which a driver finds a function, learns where its *)
(* registers are and how many, and switches it on.                          *)
(*                                                                          *)
(* A call's accesses of the registers are one step: there is one thread,    *)
(* and the keyboard interrupt touches no PCI register.                      *)
(****************************************************************************)
EXTENDS Integers, Sequences, FiniteSets, SequencesExt

CONSTANTS
    Buses, Devices, Functions,  \* 256, 32 and 8
    Bars,                       \* base address registers of a function, 6
    MaxDevices,                 \* PCI_MAX_DEVICES
    AddressSpace,               \* 2^32
    Classes,                    \* what the functions may be
    Boards                      \* what may be plugged in, see PciAssumption

\* A place on the bus; the order in which pci_scan comes by them.
Places == [bus : 0 .. Buses - 1, device : 0 .. Devices - 1, function : 0 .. Functions - 1]

Number(place) == (place.bus * Devices + place.device) * Functions + place.function

\* A base address register: the bits that say what it is, and the address bits,
\* of which the hardware implements those above its size.  The upper half of a
\* 64-bit (wide) address is the register that follows.
BarRegisters ==
    [io : BOOLEAN, wide : BOOLEAN, base : 0 .. AddressSpace - 1, size : 1 .. AddressSpace]

\* The registers of a function that answers; the others read as all ones.  normal
\* says that the header is of type 0, multi is bit 7 of the header type; errors
\* stands for the bits of the status register that writing ones to them clears.
Registers ==
    [class : Classes, normal : BOOLEAN, multi : BOOLEAN, bars : [0 .. Bars - 1 -> BarRegisters],
     command : SUBSET {"memory", "master", "other"}, errors : BOOLEAN]

ASSUME PciAssumption ==
    /\ Buses \in Nat \ {0} /\ Devices \in Nat \ {0} /\ Functions \in Nat \ {0}
    /\ Bars \in Nat \ {0} /\ MaxDevices \in Nat /\ AddressSpace \in Nat \ {0}
    /\ \A board \in Boards :
          /\ DOMAIN board \subseteq Places
          /\ board \in [DOMAIN board -> Registers]
          /\ \A place \in DOMAIN board, i \in 0 .. Bars - 1 :
                /\ board[place].bars[i].base % board[place].bars[i].size = 0
                /\ AddressSpace % board[place].bars[i].size = 0

VARIABLES
    config,    \* the registers of the board's functions
    devices    \* the list pci_scan has made; its length is device_count

pci_vars == <<config, devices>>

--------------------------------------------------------------------------------
\* pci_record_device: what is kept of a function.  The registers of a bridge are
\* not base addresses.
Recorded(board, place) ==
    [place |-> place,
     class |-> board[place].class,
     bars  |-> [i \in 0 .. Bars - 1 |->
                   IF board[place].normal
                     THEN [io |-> board[place].bars[i].io,
                           wide |-> board[place].bars[i].wide,
                           base |-> board[place].bars[i].base]
                     ELSE [io |-> FALSE, wide |-> FALSE, base |-> 0]]]

\* Mutant: the functions above the first are looked at on every device.
LookedAtAll(board, place) ==
    [place EXCEPT !.function = 0] \in DOMAIN board

\* The functions pci_scan looks at: those of the devices that have a function 0,
\* and of the others of a device only if that one says there are others.
LookedAt(board, place) ==
    LET first == [place EXCEPT !.function = 0]
    IN  first \in DOMAIN board /\ (place = first \/ board[first].multi)

\* How many of some places pci_scan comes by before it comes by this one.
Ahead(places, place) == Cardinality({p \in places : Number(p) < Number(place)})

\* pci_scan: place after place, until the list is full.
Scanned(board) ==
    LET found  == {place \in DOMAIN board : LookedAt(board, place)}
        listed == {place \in found : Ahead(found, place) < MaxDevices}
    IN  [i \in 1 .. Cardinality(listed) |->
            Recorded(board, CHOOSE place \in listed : Ahead(found, place) = i - 1)]

\* pci_find_device, of the fields only the class: the index of the first of that
\* class, or 0.
FindDevice(class) == SelectInSeq(devices, LAMBDA dev : dev.class = class)

\* Mutant: the upper half of a 64-bit address is not looked at.
AboveNothing(dev, i) == FALSE

\* A 64-bit base address that lies above 4 GB, or whose upper half is missing.
AboveFourGB(dev, i) ==
    dev.bars[i].wide /\ (i = Bars - 1 \/ dev.bars[i + 1].base # 0)

\* pci_get_bar_address: 0 for an I/O register and for an address out of reach.
BarAddress(dev, i) ==
    IF dev.bars[i].io \/ AboveFourGB(dev, i) THEN 0 ELSE dev.bars[i].base

\* What a register holds after a write: the bits below its size are not there.
Written(register, value) ==
    [register EXCEPT !.base = (value \div register.size) * register.size]

\* A register as the probe for its size leaves it to be read.
Probed(dev, i) == Written(config[dev.place].bars[i], AddressSpace - 1)

\* pci_get_bar_size: all ones are written and read back.  The size is what is
\* missing to 2^32; 0 for an I/O register and one without address bits.
BarSize(dev, i) ==
    IF dev.bars[i].io \/ Probed(dev, i).base = 0 THEN 0
    ELSE (AddressSpace - Probed(dev, i).base) % AddressSpace

\* Mutant: what was there before is not written back.
LeftProbed(dev, i) == Probed(dev, i)

\* What it leaves in the register: the address found by the scan.
PutBack(dev, i) == Written(Probed(dev, i), dev.bars[i].base)

\* pci_enable_device: the other bits of the command register are kept, but the
\* status register shares its word, and what was read from it is written back.
Enabled(registers) ==
    [registers EXCEPT !.command = @ \cup {"memory", "master"}, !.errors = FALSE]

PciInit ==
    /\ config \in Boards
    /\ devices = <<>>

PciScan ==
    /\ devices' = Scanned(config)
    /\ UNCHANGED config
================================================================================
