---------------------------------- MODULE Fat16 ----------------------------------
(****************************************************************************)
(* The FAT16 volume of src/kernel/fs/fat16.c on the drive behind            *)
(* src/kernel/drivers/ata.c: creating files and directories and reading     *)
(* files back, one sector access at a time, with drive errors and power     *)
(* cuts in between.                                                         *)
(*                                                                          *)
(* A file is as many parts as it fills clusters; a cluster holds part k of  *)
(* file i, or the entries of directory i.  The volume begins as             *)
(* fat16_format leaves it.  A cluster is written or read by one step: until *)
(* a directory entry leads to it nobody reads it, so how far a write of its *)
(* 64 sectors got makes no difference.                                      *)
(****************************************************************************)
EXTENDS Integers, Sequences

CONSTANTS
    LastCluster,    \* the last cluster that lies inside the partition
    MaxCluster,     \* entries in the FAT; there may be more than clusters
    RootSlots,      \* vol.root_entries
    DirSlots,       \* entries that fit a directory's cluster
    SlowDrive,      \* TRUE: the drive may be busy for longer than ata_wait_ready
                    \* waits, and answer the next command
    MaxParts,       \* bound: clusters a file fills
    MaxFiles        \* bound: files and directories created

ASSUME Fat16Assumption ==
    /\ LastCluster \in Nat /\ MaxCluster \in Nat
    /\ 2 <= LastCluster /\ LastCluster < MaxCluster
    /\ RootSlots \in Nat /\ DirSlots \in Nat
    /\ SlowDrive \in BOOLEAN
    /\ MaxParts \in Nat /\ MaxFiles \in Nat

VARIABLES
    fat,        \* the two copies of the FAT
    root,       \* the entries of the root directory
    data,       \* what the clusters hold
    err,        \* the drive answers no command: its ERR bit is set, or it hangs
    mounted,
    op,         \* the operation being executed, with its local variables
    files       \* how many have been created (numbers them)

disk == <<fat, root, data>>
vars == <<disk, err, mounted, op, files>>

Copies   == {1, 2}
Clusters == 2 .. LastCluster
Entries  == 2 .. MaxCluster - 1      \* the clusters the FAT has an entry for
EOC      == MaxCluster               \* 0xFFFF, end of chain
Values   == 0 .. EOC

Idle == [at |-> "idle"]

\* The operation returns ret to its caller, and a new directory its cluster.  good
\* tells whether ret is true: the entry is on the disk, or the buffer holds the
\* file.
Result(kind, ret, good, first) ==
    [at |-> "returned", kind |-> kind, ret |-> ret, good |-> good, first |-> first]

Returns(ret, good) ==
    Result(op.kind, ret, good, IF op.kind = "dir" THEN op.first ELSE 0)

--------------------------------------------------------------------------------
\* The drive.  Once it has reported an error, ata_wait_ready refuses every
\* command until ata_identify issues one without asking or the machine restarts.
\* A sector the drive has taken without an error is on the disk, and sectors are in
\* the order they were taken: ata_write_sector issues no FLUSH CACHE, so this is a
\* drive whose write cache is off or outlives the power.

\* The command succeeds.
Answers == ~err /\ err' = FALSE

\* ata_read_sector or ata_write_sector returns 0: the drive reports an error, or
\* is only busy.
Refuses == err' = TRUE \/ (SlowDrive /\ Answers)

\* ata_write_sector returns 1 as soon as the drive has taken the data, and never
\* looks whether they were written: here they were not.
LosesWrite == ~err /\ err' = TRUE

--------------------------------------------------------------------------------
\* fat_alloc_cluster and fat_write_entry as called by o, with what comes "then".
Alloc(o, then) == [o EXCEPT !.at = "scan", !.target = 2, !.then = then]

Mark(o, cluster, value, then) ==
    [o EXCEPT !.at = "mark", !.copy = 1, !.target = cluster,
              !.value = value, !.then = then]

\* Where the caller goes on when both copies are written: with the first cluster
\* of the file, with the link to a further one, with that one, or at the end.
AfterMark(o) ==
    CASE o.then = "first"  -> [o EXCEPT !.first = o.target, !.cluster = o.target,
                                        !.at = "data"]
      [] o.then = "next"   -> Mark(o, o.cluster, o.target, "linked")
      [] o.then = "linked" -> [o EXCEPT !.cluster = o.value, !.at = "data"]
      [] o.then = "last"   -> [o EXCEPT !.at = "entry"]

\* fat_read_entry looks only at the first copy, whose first two entries the format
\* reserves, and not at what ata_read_sector returned: after an error the value is
\* whatever was on the stack.
ReadEntry(cluster, value) ==
    \/ Answers /\ value = IF cluster \in Entries THEN fat[1][cluster] ELSE EOC
    \/ Refuses /\ value \in Values

\* Mutant: the search goes round for ever.
ScanAround ==
    [op EXCEPT !.target = IF @ + 1 < MaxCluster THEN @ + 1 ELSE 2]

\* fat_alloc_cluster tries the next cluster, or has found none, and the
\* operation that called it fails.
ScanOn ==
    IF op.target + 1 < MaxCluster THEN [op EXCEPT !.target = @ + 1]
                                  ELSE Returns(0, FALSE)

\* One turn of fat_alloc_cluster's loop, which goes to the end of the FAT and so
\* past the last cluster of a partition that is smaller than its FAT.
ScanFat ==
    /\ op.at = "scan"
    /\ \E value \in Values :
          /\ ReadEntry(op.target, value)
          /\ op' = IF value = 0 THEN Mark(op, op.target, EOC, op.then) ELSE ScanOn
    /\ UNCHANGED <<disk, mounted, files>>

\* Mutant: the copies are written last to first.
CopyBackwards(n) == 3 - n

\* The copy the n-th turn of fat_write_entry's loop deals with.
CopyOf(n) == n

\* One turn of fat_write_entry's loop: the copy's sector is read, changed and
\* written back, whatever ata_read_sector and ata_write_sector return.  When the
\* read fails the buffer is garbage, which a drive that was only busy writes.
WriteFat ==
    /\ op.at = "mark"
    /\ \/ /\ Answers
          /\ fat' = [fat EXCEPT ![CopyOf(op.copy)][op.target] = op.value]
       \/ Refuses /\ UNCHANGED fat
       \/ /\ SlowDrive /\ Answers
          /\ \E sector \in [Entries -> Values] :
                /\ sector[op.target] = op.value
                /\ fat' = [fat EXCEPT ![CopyOf(op.copy)] = sector]
    /\ op' = IF op.copy = 1 THEN [op EXCEPT !.copy = 2] ELSE AfterMark(op)
    /\ UNCHANGED <<root, data, mounted, files>>

\* What goes into the cluster: the next part of the file (write_file_data), or
\* an empty directory (mkdir_root).
Content ==
    [file |-> op.id, part |-> op.written + 1, entries |-> <<>>]

\* Mutant: the entry is written when the first part is.
AfterDataEarly ==
    IF op.written = 0 THEN [op EXCEPT !.written = 1, !.at = "entry"]
                      ELSE Returns(0, FALSE)

\* After a cluster: a file with parts left needs another cluster, and one that
\* is complete has its end marked again; a directory has only the one.
AfterData ==
    LET o == [op EXCEPT !.written = @ + 1]
    IN  IF o.kind = "dir" THEN [o EXCEPT !.at = "entry"]
        ELSE IF o.written < o.parts THEN Alloc(o, "next")
        ELSE Mark(o, o.cluster, EOC, "last")

\* A cluster past the last one lies past the end of the drive, which answers
\* with an error.
WriteCluster ==
    /\ op.at = "data"
    /\ \/ /\ op.cluster \in Clusters
          /\ Answers
          /\ data' = [data EXCEPT ![op.cluster] = Content]
          /\ op' = AfterData
       \/ Refuses /\ op' = Returns(0, FALSE) /\ UNCHANGED data
       \/ LosesWrite /\ op' = AfterData /\ UNCHANGED data
    /\ UNCHANGED <<fat, root, mounted, files>>

NewEntry == [kind |-> op.kind, id |-> op.id, first |-> op.first, parts |-> op.parts]

\* The directory has a free slot.  Only its first cluster is looked at.
HasRoom(dir) ==
    IF dir = 0 THEN Len(root) < RootSlots
               ELSE Len(data[dir].entries) < DirSlots

\* write_entry_in_root and write_entry_in_dir_cluster put the entry into the
\* first free slot; what they return, the operation returns.
WriteDirEntry ==
    /\ op.at = "entry"
    /\ \/ /\ Answers /\ HasRoom(op.dir)
          /\ IF op.dir = 0
               THEN root' = Append(root, NewEntry) /\ UNCHANGED data
               ELSE /\ data' = [data EXCEPT ![op.dir].entries = Append(@, NewEntry)]
                    /\ UNCHANGED root
          /\ op' = Returns(1, TRUE)
       \/ /\ LosesWrite /\ HasRoom(op.dir)
          /\ op' = Returns(1, FALSE)
          /\ UNCHANGED <<root, data>>
       \/ /\ Refuses \/ (Answers /\ ~HasRoom(op.dir))
          /\ op' = Returns(0, FALSE)
          /\ UNCHANGED <<root, data>>
    /\ UNCHANGED <<fat, mounted, files>>

--------------------------------------------------------------------------------
\* What the commands begin when no operation is under way.

Directories == {0} \cup {root[i].first : i \in {j \in DOMAIN root : root[j].kind = "dir"}}

EntriesIn(dir) == IF dir = 0 THEN root ELSE data[dir].entries

Begin(kind, parts, dir) ==
    [at |-> "entry", kind |-> kind, id |-> files + 1, parts |-> parts, dir |-> dir,
     first |-> 0, cluster |-> 0, written |-> 0,
     target |-> 2, value |-> 0, copy |-> 1, then |-> "first"]

Ready == op = Idle /\ mounted

\* fat16_create_file_root and fat16_create_file_in_dir; an empty file has no
\* cluster.
CreateFile(dir, parts) ==
    /\ Ready /\ files < MaxFiles
    /\ files' = files + 1
    /\ op' = LET o == Begin("file", parts, dir)
             IN  IF parts = 0 THEN o ELSE Alloc(o, "first")
    /\ UNCHANGED <<disk, err, mounted>>

\* fat16_mkdir_root
Mkdir ==
    /\ Ready /\ files < MaxFiles
    /\ files' = files + 1
    /\ op' = Alloc(Begin("dir", 1, 0), "first")
    /\ UNCHANGED <<disk, err, mounted>>

\* fat16_read_file of a file found in a directory.
ReadFile(dir, i) ==
    LET e == EntriesIn(dir)[i]
    IN  /\ Ready
        /\ i \in DOMAIN EntriesIn(dir) /\ e.kind = "file"
        /\ op' = IF e.parts = 0 THEN Result("read", 1, TRUE, 0)
                 ELSE [at |-> "read", kind |-> "read", id |-> e.id, parts |-> e.parts,
                       cluster |-> e.first, done |-> 0, good |-> TRUE]
        /\ UNCHANGED <<disk, err, mounted, files>>

\* One cluster of the file is copied into the buffer.
ReadCluster ==
    /\ op.at = "read"
    /\ \/ /\ Answers
          /\ op.cluster <= LastCluster
          /\ LET good == /\ op.good /\ op.cluster \in Clusters
                         /\ data[op.cluster].file = op.id
                         /\ data[op.cluster].part = op.done + 1
             IN  op' = IF op.done + 1 = op.parts THEN Returns(1, good)
                       ELSE [op EXCEPT !.done = @ + 1, !.good = good, !.at = "follow"]
       \/ Refuses /\ op' = Returns(0, FALSE)
    /\ UNCHANGED <<disk, mounted, files>>

\* Mutant: the loop stays on its cluster.
StaysOn(cluster, value) == cluster

\* The cluster the loop goes on to.
GoesTo(cluster, value) == value

\* The next cluster of the chain.  The end of the chain ends the loop, and
\* fat16_read_file returns 1.
FollowChain ==
    /\ op.at = "follow"
    /\ \E value \in Values :
          /\ ReadEntry(op.cluster, value)
          /\ op' = IF value = EOC THEN Returns(1, FALSE)
                   ELSE [op EXCEPT !.cluster = GoesTo(op.cluster, value), !.at = "read"]
    /\ UNCHANGED <<disk, mounted, files>>

Return ==
    /\ op.at = "returned"
    /\ op' = Idle
    /\ UNCHANGED <<disk, err, mounted, files>>

\* fat16_mount reads the boot sector.
Mount ==
    /\ op = Idle /\ ~mounted
    /\ \/ Answers /\ mounted' = TRUE
       \/ Refuses /\ UNCHANGED mounted
    /\ UNCHANGED <<disk, op, files>>

\* diskinfo calls ata_identify, which issues its command whatever the status, and if
\* that succeeds reads sector 0; either may fail.
Identify ==
    /\ op = Idle
    /\ err' \in BOOLEAN
    /\ UNCHANGED <<disk, mounted, op, files>>

\* The power fails, at any moment, and the machine starts again.
Restart ==
    /\ op' = Idle
    /\ mounted' = FALSE
    /\ err' = FALSE
    /\ UNCHANGED <<disk, files>>

--------------------------------------------------------------------------------
\* A freshly formatted volume.
Init ==
    /\ fat = [copy \in Copies |-> [cluster \in Entries |-> 0]]
    /\ root = <<>>
    /\ data = [cluster \in Clusters |-> [file |-> 0, part |-> 0, entries |-> <<>>]]
    /\ err = FALSE
    /\ mounted = FALSE
    /\ op = Idle
    /\ files = 0

Begins ==
    \/ \E dir \in Directories, parts \in 0 .. MaxParts : CreateFile(dir, parts)
    \/ Mkdir
    \/ \E dir \in Directories : \E i \in DOMAIN EntriesIn(dir) : ReadFile(dir, i)
    \/ Mount
    \/ Identify

Proceeds ==
    \/ ScanFat \/ WriteFat \/ WriteCluster \/ WriteDirEntry
    \/ ReadCluster \/ FollowChain \/ Return

Next == Begins \/ Proceeds \/ Restart

Spec == Init /\ [][Next]_vars

\* The processor goes on with what it is executing.
FairSpec == Spec /\ WF_vars(Proceeds)

--------------------------------------------------------------------------------
Fat16TypeOK ==
    /\ fat \in [Copies -> [Entries -> Values]]
    /\ Len(root) <= RootSlots
    /\ \A cluster \in Clusters : /\ data[cluster].file \in 0 .. MaxFiles
                                 /\ data[cluster].part \in 0 .. MaxParts
                                 /\ Len(data[cluster].entries) <= DirSlots
    /\ err \in BOOLEAN /\ mounted \in BOOLEAN
    /\ files \in 0 .. MaxFiles

\* The first n clusters of the chain that begins at first, in the copy the
\* driver reads.
Chain(first, n) ==
    LET walk[k \in 1 .. n] ==
            IF k = 1 THEN first
            ELSE IF walk[k - 1] \in Entries THEN fat[1][walk[k - 1]] ELSE 0
    IN  walk

Listed ==
    UNION {{EntriesIn(dir)[i] : i \in DOMAIN EntriesIn(dir)} : dir \in Directories}

\* A file or directory that is listed is complete, whatever step an error or a
\* power cut has stopped the driver at (fat16.c:304-445 write the entry last), on a
\* drive that fails for good when it fails (AllocatedIsMarked is about others):
\* its chain has a cluster for each part, all of them inside the partition and
\* marked as used, the last as the end of the chain, and they hold its parts.
\* So no two entries share a cluster either.
EntriesIntact ==
    \A e \in Listed :
        LET chain == Chain(e.first, e.parts)
        IN  /\ \A k \in 1 .. e.parts :
                  /\ chain[k] \in Clusters
                  /\ fat[1][chain[k]] # 0
                  /\ data[chain[k]].file = e.id /\ data[chain[k]].part = k
            /\ e.parts > 0 => fat[1][chain[e.parts]] = EOC

\* fat16.c:196: the copies are written in order, so that a stop between them
\* leaves the second behind the first and never ahead of it.  That they "stay in
\* sync" (fat16.c:196) holds only of operations that are not stopped.
SecondCopyNeverAhead ==
    \A cluster \in Entries : fat[2][cluster] # 0 => fat[1][cluster] # 0

\* As long as the drive has reported no error, an operation that returns 1 has
\* done what it says: the new entry is on the disk, or the buffer holds the file,
\* whatever creates were stopped before it.  After an error it need not be so
\* (ReadReportsErrors).
SuccessIsTrue ==
    op.at = "returned" /\ op.ret = 1 /\ ~err => op.good

\* No operation runs for ever: the bounded loops of the driver end although the
\* values that end them may be garbage.
OperationsEnd == op # Idle ~> op = Idle

\* fat16.c:207-208: fat_alloc_cluster "marks the returned cluster as
\* end-of-chain immediately", so the cluster an entry leads to is no longer free.
AllocatedIsMarked ==
    \A e \in Listed : e.first # 0 => fat[1][e.first] # 0

\* fat16.h:31-32: fat16_read_file "returns 1 on success, 0 on read error".
ReadReportsErrors ==
    op.at = "returned" /\ op.kind = "read" /\ op.ret = 1 => op.good
================================================================================
