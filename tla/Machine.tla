--------------------------------- MODULE Machine ---------------------------------
(****************************************************************************)
(* The parts of the kernel that share the address space, put together:      *)
(* paging_init and pci_scan at boot (src/kernel/init.h:56-83); later        *)
(* drivers that ask pci.c for their registers and paging.c for a mapping of *)
(* them, and runelf, which copies programs to wherever they want to be.     *)
(*                                                                          *)
(* There is one thread: a driver's set-up is one step, and none falls       *)
(* between two steps of the loader.  The kernel has no driver for a PCI     *)
(* function yet; Attach follows what pci.h:37-70 and paging.h:12-24 tell    *)
(* one to do.                                                               *)
(****************************************************************************)
EXTENDS Paging, Pci, Loader

VARIABLES
    scanned,    \* pci_scan has returned once
    driven      \* the registers [place, bar] a driver is using

machine_vars == <<vars, pci_vars, loader_vars, scanned, driven>>

ASSUME MachineAssumption ==
    /\ Memory = 0 .. Word - 1
    /\ AddressSpace = Word

\* The addresses that do not fault.
Mapped == {a \in Memory : a \div Span \in Present(page_directory)}

AtPrompt == scanned /\ runelf = "prompt"

--------------------------------------------------------------------------------
MachineInit ==
    /\ Init /\ PciInit /\ LoaderInit
    /\ scanned = FALSE
    /\ driven = {}

\* init, with the framebuffer the bootloader names, if any (init.h:56-64).
MapAtBoot ==
    /\ \E region \in Regions : PagingInit(region)
    /\ UNCHANGED <<pci_vars, loader_vars, scanned, driven>>

\* pci_scan, at boot and whenever somebody calls it again.
ScanBoard ==
    /\ paging_on /\ runelf = "prompt"
    /\ PciScan
    /\ scanned' = TRUE
    /\ UNCHANGED <<vars, loader_vars, driven>>

\* Some other caller of paging_map_region.
MapOther ==
    /\ AtPrompt
    /\ \E region \in Regions : PagingMapRegion(region)
    /\ UNCHANGED <<pci_vars, loader_vars, scanned, driven>>

\* The driver of a class of functions whose registers bar i leads to (no upper
\* half of an address): it finds the first such function, gives up without an
\* address and a size, has the registers mapped, and switches the function on if
\* they are.
Attach(class, i) ==
    /\ AtPrompt
    /\ FindDevice(class) # 0
    /\ i > 0 => ~devices[FindDevice(class)].bars[i - 1].wide
    /\ LET dev    == devices[FindDevice(class)]
           region == [addr |-> BarAddress(dev, i), size |-> BarSize(dev, i)]
           probed == [config EXCEPT ![dev.place].bars[i] = PutBack(dev, i)]
       IN  /\ region.addr # 0 /\ region.size # 0
           /\ PagingMapRegion(region)
           /\ IF MapReturnsOne(page_directory, region)
                THEN /\ config' = [probed EXCEPT ![dev.place] = Enabled(@)]
                     /\ driven' = driven \cup {[place |-> dev.place, bar |-> i]}
                ELSE /\ config' = probed
                     /\ UNCHANGED driven
    /\ UNCHANGED <<devices, loader_vars, scanned>>

\* command_runelf.
RunElf ==
    /\ scanned
    /\ \/ \E file \in Images : StartLoad(file)
       \/ LoaderSteps(Mapped)
    /\ UNCHANGED <<vars, pci_vars, scanned, driven>>

MachineNext ==
    \/ MapAtBoot
    \/ ScanBoard
    \/ MapOther
    \/ \E class \in Classes, i \in 0 .. Bars - 1 : Attach(class, i)
    \/ RunElf

MachineSpec == MachineInit /\ [][MachineNext]_machine_vars

--------------------------------------------------------------------------------
MachineTypeOK ==
    /\ PagingTypeOK
    /\ LoaderTypeOK
    /\ config \in [DOMAIN config -> Registers] /\ DOMAIN config \subseteq Places
    /\ Len(devices) <= MaxDevices
    /\ driven \subseteq [place : DOMAIN config, bar : 0 .. Bars - 1]

\* The functions of the board: a device that has a function 0, and its other
\* functions only if function 0 says that it has some.  A device that does not
\* look at the function number answers at all eight.
OnBoard ==
    {place \in DOMAIN config :
        LET first == [place EXCEPT !.function = 0]
        IN  first \in DOMAIN config /\ (place.function # 0 => config[first].multi)}

\* pci.h:35-38: the list holds the functions of the board, none twice and no
\* echo of one, in the order of their places, with their base addresses as they
\* are; it is short of one only if it is full.
ScanFinds ==
    scanned =>
        /\ \A i, j \in DOMAIN devices :
              i < j => Number(devices[i].place) < Number(devices[j].place)
        /\ \A i \in DOMAIN devices :
              LET place == devices[i].place
              IN  /\ place \in OnBoard
                  /\ config[place].normal =>
                        \A b \in 0 .. Bars - 1 :
                            devices[i].bars[b].base = config[place].bars[b].base
        /\ Len(devices) < MaxDevices =>
              OnBoard = {devices[i].place : i \in DOMAIN devices}

\* pci.h:56-71: what a driver does leaves the base address registers of every function
\* as they were, and adds nothing to a command register but memory decode and bus
\* mastering.  Of the status bits above it, those that are set are cleared (Enabled).
OnlyEnables ==
    [][\A place \in DOMAIN config :
          /\ config'[place].bars = config[place].bars
          /\ \/ config'[place].command = config[place].command
             \/ config'[place].command = config[place].command \cup {"memory", "master"}]_machine_vars

\* A function that decodes memory for a driver does so at addresses the driver
\* can reach, to the last byte of the window (paging.h:12-19).
DriverReaches ==
    \A used \in driven :
        LET registers == config[used.place].bars
            bar       == registers[used.bar]
        IN  /\ bar.wide => used.bar < Bars - 1 /\ registers[used.bar + 1].base = 0
            /\ bar.base .. bar.base + bar.size - 1 \subseteq Mapped

\* elf32.h:4-8: when the program is called, every address of a PT_LOAD segment
\* holds its byte of the file or, beyond those, zero, the last segment winning;
\* no byte comes from beyond the file, and no other address was written.
LoadedIsImage ==
    runelf = "call" =>
        \A a \in Memory :
            LET covers == {i \in DOMAIN image.segments :
                              LET ph == image.segments[i]
                              IN  ph.load /\ a \in ph.vaddr .. ph.vaddr + ph.memsz - 1}
                last   == image.segments[CHOOSE i \in covers : \A j \in covers : j <= i]
                b      == a - last.vaddr
            IN  /\ covers = {} => memory[a] = Other
                /\ covers # {} =>
                      IF b < last.filesz
                        THEN memory[a] = last.offset + b /\ memory[a] < image.size
                        ELSE memory[a] = Zero
================================================================================
