--------------------------------- MODULE Install ---------------------------------
(****************************************************************************)
(* The disk commands of src/kernel/shell/sysinfo_commands.c: install,       *)
(* mkpart, mkfs, catdisk and diskinfo, on a disk that is blank to begin     *)
(* with.  A command is a list of steps; each step is an access to the drive *)
(* or an operation of Fat16, which goes on by the actions of that module.   *)
(* The power may fail between any two of them, and the commands may be run  *)
(* again in any order.                                                      *)
(*                                                                          *)
(* The clusters the commands use have their FAT entries in the first of the *)
(* 256 sectors of a FAT, and the entries they make are in the first sector  *)
(* of the root directory, so fat16_format clears them by its first write.   *)
(****************************************************************************)
EXTENDS Fat16, SequencesExt

CONSTANT MaxCommands    \* bound: commands run

\* A volume that fat16_format accepts has room for the tree.
ASSUME InstallAssumption ==
    /\ MaxCommands \in Nat /\ LastCluster >= 8 /\ RootSlots >= 4 /\ DirSlots >= 1
    /\ MaxParts >= 1

VARIABLES
    mbr,        \* sector 0 has an entry of type 0x06
    boot,       \* the first sector of the partition is a boot sector
    todo,       \* the steps the command has still to take
    newdir,     \* the cluster of the last directory made (kernel_cl, shell_cl, ..)
    halfway,    \* the FAT has been cleared under a root directory that was not
    commands    \* how many commands have been run

partition   == <<mbr, boot, halfway>>
installVars == <<vars, partition, todo, newdir, commands>>

Commands == {"install", "mkpart", "mkfs", "catdisk"}

\* do_mkpart: ata_identify and mbr_write_partition.
Partition == <<"identify", "mbr">>

\* Mutant: the first copy of the FAT is not cleared.
FormatOneCopy == <<"boot", "fat2", "root">>

\* fat16_format
Format == <<"boot", "fat1", "fat2", "root">>

\* Mutant: a command that finds a directory in place skips it and its file.
TreeShort == <<"mkdir", "mkdir", "mkdir", "create", "mkdir", "create">>

\* Mutant: the file is made before its directory.
TreeFilesFirst == <<"create", "mkdir", "mkdir", "create", "mkdir", "create", "mkdir">>

\* /apps, /kernel/kernel.elf, /shell/zslash.elf, /system/readme.txt
Tree == <<"mkdir", "mkdir", "create", "mkdir", "create", "mkdir", "create">>

Script(command) ==
    CASE command = "install" -> Partition \o Format \o <<"mount">> \o Tree
      [] command = "mkpart"  -> Partition
      [] command = "mkfs"    -> <<"find partition">> \o Format
      [] command = "catdisk" -> <<"find partition", "mount", "find file">>

At(step) == op = Idle /\ todo # <<>> /\ Head(todo) = step

Continues == todo' = Tail(todo)

\* Mutant: a step that fails is tried again.
TriesAgain == UNCHANGED todo

\* The command gives up.
GivesUp == todo' = <<>>

\* The user runs a command.
RunCommand(command) ==
    /\ op = Idle /\ todo = <<>> /\ commands < MaxCommands
    /\ todo' = Script(command)
    /\ commands' = commands + 1
    /\ UNCHANGED <<disk, err, mounted, op, files, partition, newdir>>

\* ata_identify issues its command whatever the status.  do_mkpart gives up when it
\* fails, and when the drive is too small, whatever its status.
IdentifyDrive ==
    /\ At("identify")
    /\ \/ err' = FALSE /\ Continues
       \/ err' \in BOOLEAN /\ GivesUp
    /\ UNCHANGED <<disk, mounted, op, files, partition, newdir, commands>>

--------------------------------------------------------------------------------
\* A step that writes one sector, or many: the many are refused or lost one by
\* one, and only the first matters.
Many(step) == step \in {"fat1", "fat2", "root"}

Write(step, written) ==
    /\ At(step)
    /\ \/ Answers /\ written /\ Continues
       \/ Refuses /\ (written => Many(step) /\ ~err) /\ GivesUp
       \/ LosesWrite /\ (written <=> Many(step)) /\ Continues
    /\ UNCHANGED <<data, mounted, op, files, newdir, commands>>

\* mbr_write_partition
WriteMbr(written) ==
    /\ Write("mbr", written)
    /\ mbr' = (mbr \/ written)
    /\ UNCHANGED <<fat, root, boot, halfway>>

WriteBoot(written) ==
    /\ Write("boot", written)
    /\ boot' = (boot \/ written)
    /\ UNCHANGED <<fat, root, mbr, halfway>>

\* fat16_format refuses a partition with too few clusters, or too many, before it
\* writes anything.
RefuseFormat ==
    /\ At("boot") /\ GivesUp
    /\ UNCHANGED <<vars, partition, newdir, commands>>

NewFat == [cluster \in Entries |-> 0]

ClearFirstFat(written) ==
    /\ Write("fat1", written)
    /\ fat' = IF written THEN [fat EXCEPT ![1] = NewFat] ELSE fat
    /\ halfway' = (halfway \/ (written /\ root # <<>>))
    /\ UNCHANGED <<root, mbr, boot>>

ClearSecondFat(written) ==
    /\ Write("fat2", written)
    /\ fat' = IF written THEN [fat EXCEPT ![2] = NewFat] ELSE fat
    /\ UNCHANGED <<root, partition>>

\* Mutant: the sectors of the root directory are written back as they were.
RootKept == root

NewRoot == <<>>

ClearRoot(written) ==
    /\ Write("root", written)
    /\ root' = IF written THEN NewRoot ELSE root
    /\ halfway' = (halfway /\ ~written)
    /\ UNCHANGED <<fat, mbr, boot>>

--------------------------------------------------------------------------------
\* mbr_read_partitions: sector 0 is read and has an entry of type 0x06, or not.
FindPartition ==
    /\ At("find partition")
    /\ \/ Answers /\ mbr /\ Continues
       \/ (Refuses \/ (Answers /\ ~mbr)) /\ GivesUp
    /\ UNCHANGED <<disk, mounted, op, files, partition, newdir, commands>>

\* fat16_mount, which a command calls whether the volume is mounted or not.
MountVolume ==
    /\ At("mount")
    /\ \/ Answers /\ boot /\ mounted' = TRUE /\ Continues
       \/ (Refuses \/ (Answers /\ ~boot)) /\ GivesUp /\ UNCHANGED mounted
    /\ UNCHANGED <<disk, op, files, partition, newdir, commands>>

\* fat16_find_in_root and fat16_find_in_dir: the file is found and read, or a
\* directory cannot be read, or has no such file.
FindFile ==
    /\ At("find file")
    /\ \/ /\ ~err /\ Continues
          /\ \E d \in Directories : \E i \in DOMAIN EntriesIn(d) : ReadFile(d, i)
       \/ /\ Answers \/ Refuses
          /\ GivesUp
          /\ UNCHANGED <<disk, mounted, op, files>>
    /\ UNCHANGED <<partition, newdir, commands>>

MakeDirectory ==
    /\ At("mkdir")
    /\ Mkdir /\ Continues
    /\ UNCHANGED <<partition, newdir, commands>>

\* install_placeholder_file: a file of one cluster.
PlaceholderFile ==
    /\ At("create")
    /\ CreateFile(newdir, 1) /\ Continues
    /\ UNCHANGED <<partition, newdir, commands>>

\* A step of the operation that has been called.
Operate ==
    /\ Proceeds /\ op.at # "returned"
    /\ UNCHANGED <<partition, todo, newdir, commands>>

\* The operation returns to the command, which gives up when a directory was not
\* made, and goes on whatever install_placeholder_file returned.
Resume ==
    /\ Return
    /\ IF op.kind = "dir" /\ op.ret = 0 THEN GivesUp ELSE UNCHANGED todo
    /\ newdir' = IF op.kind = "dir" /\ op.ret = 1 THEN op.first ELSE newdir
    /\ UNCHANGED <<partition, commands>>

\* diskinfo
DiskInfo ==
    /\ todo = <<>>
    /\ Identify
    /\ UNCHANGED <<partition, todo, newdir, commands>>

PowerCut ==
    /\ Restart
    /\ todo' = <<>> /\ newdir' = 0
    /\ UNCHANGED <<partition, commands>>

--------------------------------------------------------------------------------
InstallInit ==
    /\ Init
    /\ mbr = FALSE /\ boot = FALSE /\ halfway = FALSE
    /\ todo = <<>> /\ newdir = 0
    /\ commands = 0

Steps ==
    \/ IdentifyDrive \/ RefuseFormat \/ FindPartition \/ MountVolume \/ FindFile
    \/ MakeDirectory \/ PlaceholderFile \/ Operate \/ Resume
    \/ \E written \in BOOLEAN :
          \/ WriteMbr(written) \/ WriteBoot(written)
          \/ ClearFirstFat(written) \/ ClearSecondFat(written) \/ ClearRoot(written)

InstallNext ==
    \/ \E command \in Commands : RunCommand(command)
    \/ Steps
    \/ DiskInfo
    \/ PowerCut

\* The processor goes on with what it is executing.
InstallSpec ==
    InstallInit /\ [][InstallNext]_installVars /\ WF_installVars(Steps)

--------------------------------------------------------------------------------
InstallTypeOK ==
    /\ Fat16TypeOK
    /\ mbr \in BOOLEAN /\ boot \in BOOLEAN /\ halfway \in BOOLEAN
    /\ newdir \in Clusters \cup {0} /\ (At("create") => newdir # 0)
    /\ \E command \in Commands : IsSuffix(todo, Script(command))
    /\ commands \in 0 .. MaxCommands

\* Whatever steps of whatever commands errors and power cuts have stopped, what is
\* listed is intact, except between the first write of a reformat to the FAT and
\* its first write to the root directory (fat16.c:91-112): mkfs and install put the
\* volume in order again however an earlier one was stopped.
IntactUnlessHalfway == halfway \/ EntriesIntact

\* command_install is about to print "Install complete".
Complete ==
    op.at = "returned" /\ op.kind = "file" /\ todo = <<>>

\* When install completes, the disk holds the four directories, and a file in each
\* but the first (sysinfo_commands.c:305-332), whatever was on it before.  The results
\* of install_placeholder_file are not looked at, so after an error "Install complete"
\* can be printed of a disk without the last file, or, since a write can be lost, the
\* last directory; never of one that lacks more, because the next mkdir fails.
CompleteMeansInstalled ==
    Complete =>
        /\ mbr /\ boot /\ ~halfway
        /\ [i \in DOMAIN root |-> Len(EntriesIn(root[i].first))] \in
              {<<0, 1, 1, 1>>} \cup IF err THEN {<<0, 1, 1>>, <<0, 1, 1, 0>>} ELSE {}

\* When install completes without an error, no cluster is marked as used that is
\* not part of what is listed, in either copy of the FAT: what earlier
\* installations and interrupted commands left is gone.
NothingLeaked ==
    Complete /\ ~err =>
        \A copy \in Copies :
            {cluster \in Entries : fat[copy][cluster] # 0} =
            UNION {{Chain(e.first, e.parts)[k] : k \in 1 .. e.parts} : e \in Listed}

\* Every command ends, however the drive behaves.
CommandsEnd == todo # <<>> ~> op = Idle /\ todo = <<>>
================================================================================
