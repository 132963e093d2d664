------------------------------ MODULE InstallProofs ------------------------------
(****************************************************************************)
(* Proofs about Install on a drive that fails for good when it fails, for   *)
(* every size of the disk, however many commands are run, stopped and run   *)
(* again.  The volume is in order except in the window between the clearing *)
(* of the FAT and that of the root directory; and as long as the drive has  *)
(* reported no error, an installation has put on the disk exactly what its  *)
(* steps so far are meant to, one cluster for each, from the first on.      *)
(* One that goes on after an error had made its last directory before it.   *)
(****************************************************************************)
EXTENDS Install, Fat16Proofs

\* What is left of a script at its kth step.
Rest(script, k) == SubSeq(script, k, Len(script))

\* What is left of a command that makes no file or directory.
MakesNothing(steps) ==
    \E command \in {"mkpart", "mkfs", "catdisk"} :
        \E k \in 1 .. Len(Script(command)) + 1 : steps = Rest(Script(command), k)

\* No operation is under way, or one that reads: at place at, with what it knows.
ReadFields(at, id, parts, cluster, done, good) ==
    [at |-> at, kind |-> "read", id |-> id, parts |-> parts,
     cluster |-> cluster, done |-> done, good |-> good]

ReadsOn(o) ==
    /\ o.at \in {"read", "follow"}
    /\ o = ReadFields(o.at, o.id, o.parts, o.cluster, o.done, o.good)

Passive(o) == o = Idle \/ ReadsOn(o) \/ (o.at = "returned" /\ o.kind = "read")

\* The operations of an installation are numbered.  Each takes the next cluster:
\* the jth cluster j + 1.
Cluster(j) == j + 1

MakesDirectory(j) == j \in {1, 2, 4, 6}

\* The cluster of the ith directory, and the number of the operation that puts a
\* file into it; there is none for the first.
First(i) == IF i = 1 THEN 2 ELSE 2 * i - 1

FileOf(e, i) == e.kind = "file" /\ e.parts = 1 /\ e.first = First(i) + 1

--------------------------------------------------------------------------------
\* The disk after the first j operations: the FAT F, the root r and the clusters d.

\* The clusters below x are in use, each the end of its chain.
FatUpTo(x) == [cluster \in Entries |-> IF cluster < x THEN EOC ELSE 0]

\* The ith directory and the file in it, if that has been made.
Settled(e, entries, i, j) ==
    /\ e.kind = "dir" /\ e.parts = 1 /\ e.first = First(i)
    /\ IF i > 1 /\ First(i) <= j THEN Len(entries) = 1 /\ FileOf(entries[1], i)
                                 ELSE entries = <<>>

TreeUpTo(r, d, j) ==
    /\ Len(r) <= 4
    /\ \A i \in 1 .. 4 : i <= Len(r) <=> First(i) <= Cluster(j)
    /\ \A i \in 1 .. Len(r) : Settled(r[i], d[First(i)].entries, i, j)

BothUpTo(F, x) == F[1] = FatUpTo(x) /\ F[2] = FatUpTo(x)

Laid(F, r, d, j) == TreeUpTo(r, d, j) /\ BothUpTo(F, Cluster(j) + 1)

\* The jth operation, o, is under way.
Job(o, j) ==
    /\ o.at \in {"scan", "mark", "data", "entry"}
    /\ o.kind = IF MakesDirectory(j) THEN "dir" ELSE "file"
    /\ o.parts = 1 /\ o.dir = IF MakesDirectory(j) THEN 0 ELSE j

Scanning(o, F, j) ==
    /\ o.at = "scan" /\ o.then = "first" /\ o.written = 0
    /\ o.target \in 2 .. Cluster(j)
    /\ BothUpTo(F, Cluster(j))

Marking(o, F, j) ==
    /\ o.at = "mark" /\ o.then = "first" /\ o.written = 0
    /\ o.target = Cluster(j) /\ o.value = EOC
    /\ F[1] = FatUpTo(IF o.copy = 1 THEN Cluster(j) ELSE Cluster(j) + 1)
    /\ F[2] = FatUpTo(Cluster(j))

Filling(o, F, j) ==
    /\ \/ o.at = "data" /\ o.written = 0 /\ o.cluster = Cluster(j)
       \/ /\ o.at = "mark" /\ o.then = "last" /\ o.written = 1
          /\ o.target = Cluster(j) /\ o.value = EOC
       \/ o.at = "entry" /\ o.written = 1
    /\ o.first = Cluster(j)
    /\ BothUpTo(F, Cluster(j) + 1)

Done(o, F, r, d, j) ==
    /\ o.at = "returned" /\ o.ret = 1
    /\ IF MakesDirectory(j) THEN o.kind = "dir" /\ o.first = Cluster(j)
                            ELSE o.kind = "file"
    /\ Laid(F, r, d, j)

Underway(o, F, r, d, j) ==
    \/ Job(o, j) /\ TreeUpTo(r, d, j - 1) /\ (Scanning(o, F, j) \/ Marking(o, F, j) \/ Filling(o, F, j))
    \/ Done(o, F, r, d, j)

\* The jth has returned, and the directory it made is x.
Between(o, F, r, d, x, j) ==
    o = Idle /\ Laid(F, r, d, j) /\ (MakesDirectory(j) => x = Cluster(j))

--------------------------------------------------------------------------------
\* The tree after the first j operations, and perhaps the next under way.
Building(o, F, r, d, x, j) ==
    Between(o, F, r, d, x, j) \/ (j > 0 /\ Underway(o, F, r, d, j))

\* What the steps of install before the kth have left.
Written(k) ==
    /\ k > 2 => mbr
    /\ k > 3 => boot
    /\ k \in 5 .. 8 => fat[1] = NewFat
    /\ k \in 6 .. 8 => fat[2] = NewFat
    /\ k \in 7 .. 8 => root = <<>>
    /\ k > 7 => mounted /\ Building(op, fat, root, data, newdir, k - 8)

\* Install is at its kth step, which it has not begun.
Installing(k) ==
    /\ todo = Rest(Script("install"), k)
    /\ k <= 8 => op = Idle
    /\ k > 6 => ~halfway
    /\ ~err => Written(k)

Elsewhere == Passive(op) /\ MakesNothing(todo)

Somewhere == Elsewhere \/ \E k \in 1 .. 15 : Installing(k)

InstallInv ==
    /\ DiskType(fat, root, data, files)
    /\ err \in BOOLEAN
    /\ ~halfway => Fat16Inv
    /\ Somewhere

--------------------------------------------------------------------------------
\* The commands as lists of steps.

Words ==
    {"identify", "mbr", "boot", "fat1", "fat2", "root", "mount", "mkdir", "create",
     "find partition", "find file"}

\* c is a followed by b, of m and n elements.
Joins(c, S, a, m, b, n) ==
    /\ c \in Seq(S) /\ Len(c) = m + n
    /\ \A i \in 1 .. m : c[i] = a[i]
    /\ \A i \in 1 .. n : c[m + i] = b[i]

LEMMA Joined ==
    ASSUME NEW S, NEW a, NEW b, a \in Seq(S), b \in Seq(S),
           NEW m, m = Len(a), NEW n, n = Len(b)
    PROVE  Joins(a \o b, S, a, m, b, n)
BY DEF Joins

LEMMA InstallSteps ==
    /\ \A command \in Commands : Script(command) \in Seq(Words)
    /\ LET s == Script("install")
       IN  /\ Len(s) = 14
           /\ s[1] = "identify" /\ s[2] = "mbr" /\ s[3] = "boot" /\ s[4] = "fat1"
           /\ s[5] = "fat2" /\ s[6] = "root" /\ s[7] = "mount"
           /\ \A k \in 8 .. 14 : s[k] = IF MakesDirectory(k - 7) THEN "mkdir" ELSE "create"
    /\ \A command \in Commands \ {"install"} : \A k \in 1 .. Len(Script(command)) :
           Script(command)[k] \notin {"mkdir", "create"}
<1>1. /\ Partition \in Seq(Words) /\ Len(Partition) = 2
      /\ Partition[1] = "identify" /\ Partition[2] = "mbr"
  BY DEF Partition, Words
<1>2. /\ Format \in Seq(Words) /\ Len(Format) = 4
      /\ Format[1] = "boot" /\ Format[2] = "fat1" /\ Format[3] = "fat2" /\ Format[4] = "root"
  BY DEF Format, Words
<1>3. /\ Tree \in Seq(Words) /\ Len(Tree) = 7
      /\ Tree[1] = "mkdir" /\ Tree[2] = "mkdir" /\ Tree[3] = "create" /\ Tree[4] = "mkdir"
      /\ Tree[5] = "create" /\ Tree[6] = "mkdir" /\ Tree[7] = "create"
  BY DEF Tree, Words
<1>. DEFINE f == <<"find partition">>
            w == <<"mount">>
            d == <<"find partition", "mount", "find file">>
<1>4. f \in Seq(Words) /\ Len(f) = 1 /\ f[1] = "find partition"
  BY DEF Words
<1>19. d \in Seq(Words) /\ \A k \in 1 .. Len(d) : d[k] \notin {"mkdir", "create"}
  <2>1. d \in Seq(Words) /\ Len(d) = 3
    BY DEF Words
  <2>2. d[1] = "find partition" /\ d[2] = "mount" /\ d[3] = "find file"
    OBVIOUS
  <2>3. \A k \in 1 .. 3 : k = 1 \/ k = 2 \/ k = 3
    OBVIOUS
  <2>4. \A k \in 1 .. Len(d) : d[k] \notin {"mkdir", "create"}
    <3>. HIDE DEF d
    <3>. QED
      BY <2>1, <2>2, <2>3
  <2>. QED
    BY <2>1, <2>4, Zenon
<1>20. w \in Seq(Words) /\ Len(w) = 1 /\ w[1] = "mount"
  BY DEF Words
<1>. DEFINE a == Partition \o Format
            b == a \o w
            c == b \o Tree
            m == f \o Format
<1>5. /\ Script("mkpart") = Partition /\ Script("mkfs") = m /\ Script("catdisk") = d
      /\ Script("install") = c
  BY DEF Script
<1>. HIDE DEF f, w, d
<1>7. Joins(a, Words, Partition, 2, Format, 4)
  BY <1>1, <1>2, Joined, Zenon
<1>8. a \in Seq(Words) /\ Len(a) = 6
  BY <1>7 DEF Joins
<1>. HIDE DEF a
<1>9. Joins(b, Words, a, 6, w, 1)
  BY <1>8, <1>20, Joined, Zenon
<1>10. b \in Seq(Words) /\ Len(b) = 7
  BY <1>9 DEF Joins
<1>. HIDE DEF b
<1>11. Joins(c, Words, b, 7, Tree, 7)
  BY <1>3, <1>10, Joined, Zenon
<1>12. Joins(m, Words, f, 1, Format, 4)
  BY <1>2, <1>4, Joined, Zenon
<1>. HIDE DEF c, m
<1>13. c \in Seq(Words) /\ Len(c) = 14 /\ m \in Seq(Words) /\ Len(m) = 5
  BY <1>11, <1>12 DEF Joins
<1>15. /\ c[1] = "identify" /\ c[2] = "mbr" /\ c[3] = "boot" /\ c[4] = "fat1"
       /\ c[5] = "fat2" /\ c[6] = "root" /\ c[7] = "mount"
  <2>1. b[1] = "identify" /\ b[2] = "mbr"
    BY ONLY <1>1, <1>7, <1>9 DEF Joins
  <2>2. b[2 + 1] = "boot" /\ b[2 + 2] = "fat1" /\ b[2 + 3] = "fat2" /\ b[2 + 4] = "root"
    BY ONLY <1>2, <1>7, <1>9 DEF Joins
  <2>3. b[6 + 1] = "mount"
    BY ONLY <1>9, <1>20 DEF Joins
  <2>. QED
    BY ONLY <2>1, <2>2, <2>3, <1>11 DEF Joins
<1>16. ASSUME NEW k \in 8 .. 14
       PROVE  c[k] = IF MakesDirectory(k - 7) THEN "mkdir" ELSE "create"
  <2>1. PICK i : i = k - 7
    OBVIOUS
  <2>2. i \in 1 .. 7 /\ k = 7 + i
    BY <2>1
  <2>3. c[k] = Tree[i]
    BY <1>11, <2>2, Zenon DEF Joins
  <2>4. Tree[i] = IF i \in {1, 2, 4, 6} THEN "mkdir" ELSE "create"
    BY ONLY <1>3, <2>2
  <2>. QED
    BY <2>1, <2>3, <2>4, Zenon DEF MakesDirectory
<1>17. ASSUME NEW k \in 1 .. 5 PROVE m[k] \notin {"mkdir", "create"}
  <2>1. m[1] = "find partition"
    <3>1. \A i \in 1 .. 1 : m[i] = f[i]
      BY <1>12, Zenon DEF Joins
    <3>2. 1 \in 1 .. 1
      OBVIOUS
    <3>. QED
      BY <1>4, <3>1, <3>2, Zenon
  <2>2. m[1 + 1] = "boot" /\ m[1 + 2] = "fat1" /\ m[1 + 3] = "fat2" /\ m[1 + 4] = "root"
    BY ONLY <1>2, <1>12 DEF Joins
  <2>. QED
    <3>1. k = 1 \/ k = 1 + 1 \/ k = 1 + 2 \/ k = 1 + 3 \/ k = 1 + 4
      OBVIOUS
    <3>. QED
      BY <2>1, <2>2, <3>1, Zenon
<1>18. ASSUME NEW k \in 1 .. 2 PROVE Partition[k] \notin {"mkdir", "create"}
  BY ONLY <1>1, k \in 1 .. 2
<1>21. ASSUME NEW command \in Commands
       PROVE  /\ Script(command) \in Seq(Words)
              /\ command # "install" => \A k \in 1 .. Len(Script(command)) :
                     Script(command)[k] \notin {"mkdir", "create"}
  <2>1. CASE command = "install"
    BY <1>5, <1>13, <2>1, Zenon
  <2>2. CASE command = "mkpart"
    BY <1>1, <1>5, <1>18, <2>2, Zenon
  <2>3. CASE command = "mkfs"
    BY <1>5, <1>13, <1>17, <2>3, Zenon
  <2>4. CASE command = "catdisk"
    BY <1>5, <1>19, <2>4, Zenon
  <2>. QED
    BY <2>1, <2>2, <2>3, <2>4 DEF Commands
<1>. QED
  BY <1>5, <1>13, <1>15, <1>16, <1>21, Zenon

LEMMA RestSteps ==
    ASSUME NEW S, NEW s, s \in Seq(S), NEW k, k \in 1 .. Len(s) + 1
    PROVE  /\ Rest(s, Len(s) + 1) = <<>>
           /\ k <= Len(s) => /\ Rest(s, k) # <<>> /\ Head(Rest(s, k)) = s[k]
                             /\ Tail(Rest(s, k)) = Rest(s, k + 1)
<1>1. PICK n : n = Len(s)
  OBVIOUS
<1>2. n \in Nat /\ k \in Nat
  BY <1>1
<1>3. Rest(s, n + 1) = <<>>
  BY <1>1, <1>2 DEF Rest
<1>4. ASSUME k <= n
      PROVE  /\ Rest(s, k) # <<>> /\ Head(Rest(s, k)) = s[k]
             /\ Tail(Rest(s, k)) = Rest(s, k + 1)
  <2>1. PICK a : a = SubSeq(s, k, n)
    OBVIOUS
  <2>2. a \in Seq(S) /\ Len(a) = n - k + 1 /\ (\A i \in 1 .. n - k + 1 : a[i] = s[k + i - 1])
    BY <1>1, <1>2, <1>4, <2>1
  <2>3. a # <<>> /\ Head(a) = s[k]
    BY <1>2, <1>4, <2>2
  <2>4. PICK b : b = SubSeq(s, k + 1, n)
    OBVIOUS
  <2>5. b \in Seq(S) /\ Len(b) = n - k /\ (\A i \in 1 .. n - k : b[i] = s[k + i])
    BY <1>1, <1>2, <1>4, <2>4
  <2>6. Tail(a) = b
    <3>1. PICK m : m = n - k
      OBVIOUS
    <3>2. m \in Nat /\ k \in Nat
      BY <1>2, <1>4, <3>1
    <3>3. /\ a \in Seq(S) /\ Len(a) = m + 1 /\ b \in Seq(S) /\ Len(b) = m
          /\ \A i \in 1 .. m + 1 : a[i] = s[k + i - 1]
          /\ \A i \in 1 .. m : b[i] = s[k + i]
      BY <2>2, <2>5, <3>1, Zenon
    <3>4. ASSUME NEW i \in 1 .. m PROVE a[i + 1] = b[i]
      <4>1. i + 1 \in 1 .. m + 1 /\ k + (i + 1) - 1 = k + i
        BY ONLY <3>2, i \in 1 .. m
      <4>. QED
        BY <3>3, <4>1, Zenon
    <3>. QED
      BY ONLY <3>2, <3>3, <3>4
  <2>. QED
    BY <1>1, <2>1, <2>3, <2>4, <2>6, Zenon DEF Rest
<1>. QED
  BY <1>1, <1>3, <1>4, Zenon

\* A command that is run has all its steps to take.
LEMMA WholeScript == ASSUME NEW s, s \in Seq(Words) PROVE Rest(s, 1) = s
<1>1. PICK a : a = SubSeq(s, 1, Len(s))
  OBVIOUS
<1>2. a \in Seq(Words) /\ Len(a) = Len(s) /\ \A i \in 1 .. Len(s) : a[i] = s[i]
  BY ONLY <1>1, s \in Seq(Words)
<1>3. a = s
  BY ONLY <1>2, s \in Seq(Words)
<1>. QED
  BY <1>1, <1>3, Zenon DEF Rest

\* Before the step of install that is its kth.
StepAt(step, k) ==
    /\ Installing(k) /\ step = Script("install")[k]
    /\ todo # <<>> /\ Tail(todo) = Rest(Script("install"), k + 1)

LEMMA MakesNothingSteps ==
    ASSUME NEW steps, MakesNothing(steps), steps # <<>>
    PROVE  MakesNothing(Tail(steps)) /\ Head(steps) \notin {"mkdir", "create"}
<1>1. PICK command \in {"mkpart", "mkfs", "catdisk"} :
          \E k \in 1 .. Len(Script(command)) + 1 : steps = Rest(Script(command), k)
  BY Zenon DEF MakesNothing
<1>2. PICK s : s = Script(command)
  OBVIOUS
<1>3. PICK k \in 1 .. Len(s) + 1 : steps = Rest(s, k)
  BY <1>1, <1>2, Zenon
<1>4. s \in Seq(Words) /\ \A i \in 1 .. Len(s) : s[i] \notin {"mkdir", "create"}
  <2>1. command \in Commands \ {"install"}
    BY DEF Commands
  <2>. QED
    BY <1>2, <2>1, InstallSteps, Zenon
<1>5. /\ Rest(s, Len(s) + 1) = <<>>
      /\ k <= Len(s) => /\ Head(Rest(s, k)) = s[k] /\ Tail(Rest(s, k)) = Rest(s, k + 1)
  BY <1>4, RestSteps, Zenon
<1>6. Len(s) \in Nat
  BY <1>4
<1>7. k # Len(s) + 1
  BY <1>3, <1>5, Zenon
<1>8. k \in 1 .. Len(s) /\ k <= Len(s) /\ k + 1 \in 1 .. Len(s) + 1
  BY <1>6, <1>7
<1>9. Tail(steps) = Rest(s, k + 1) /\ Head(steps) = s[k]
  BY <1>3, <1>5, <1>8, Zenon
<1>. QED
  BY <1>2, <1>4, <1>8, <1>9, Zenon DEF MakesNothing

LEMMA NothingToMake ==
    /\ MakesNothing(<<>>)
    /\ \A command \in Commands \ {"install"} : MakesNothing(Script(command))
<1>1. ASSUME NEW command \in Commands \ {"install"}
      PROVE  MakesNothing(Script(command)) /\ MakesNothing(<<>>)
  <2>1. PICK s : s = Script(command)
    OBVIOUS
  <2>2. s \in Seq(Words)
    BY <2>1, InstallSteps, Zenon
  <2>3. 1 \in 1 .. Len(s) + 1 /\ Len(s) + 1 \in 1 .. Len(s) + 1
    BY <2>2
  <2>4. Rest(s, 1) = s /\ Rest(s, Len(s) + 1) = <<>>
    BY <2>2, <2>3, WholeScript, RestSteps, Zenon
  <2>5. command \in {"mkpart", "mkfs", "catdisk"}
    BY DEF Commands
  <2>. QED
    BY <2>1, <2>3, <2>4, <2>5, Zenon DEF MakesNothing
<1>2. "mkpart" \in Commands \ {"install"}
  BY DEF Commands
<1>. QED
  BY <1>1, <1>2

\* Where a command is when it begins a step.
LEMMA AtStep ==
    ASSUME Somewhere, NEW step, At(step)
    PROVE  /\ op = Idle
           /\ \/ Elsewhere /\ MakesNothing(Tail(todo)) /\ step \notin {"mkdir", "create"}
              \/ \E k \in 1 .. 14 : StepAt(step, k)
<1>1. op = Idle /\ todo # <<>> /\ Head(todo) = step
  BY Zenon DEF At
<1>2. CASE Elsewhere
  BY <1>1, <1>2, MakesNothingSteps, Zenon DEF Elsewhere
<1>3. ASSUME NEW k \in 1 .. 15, Installing(k) PROVE \E i \in 1 .. 14 : StepAt(step, i)
  <2>1. PICK s : s = Script("install")
    OBVIOUS
  <2>2. s \in Seq(Words) /\ Len(s) = 14
    <3>1. "install" \in Commands
      BY DEF Commands
    <3>. QED
      BY <2>1, <3>1, InstallSteps, Zenon
  <2>3. todo = Rest(s, k)
    BY <1>3, <2>1, Zenon DEF Installing
  <2>4. k \in 1 .. Len(s) + 1
    BY <2>2
  <2>5. /\ Rest(s, Len(s) + 1) = <<>>
        /\ k <= Len(s) => Head(Rest(s, k)) = s[k] /\ Tail(Rest(s, k)) = Rest(s, k + 1)
    BY <2>2, <2>4, RestSteps, Zenon
  <2>6. k # Len(s) + 1
    BY <1>1, <2>3, <2>5, Zenon
  <2>7. k \in 1 .. 14 /\ k <= Len(s)
    <3>1. PICK n : n = Len(s)
      OBVIOUS
    <3>2. n = 14 /\ k # n + 1
      BY <2>2, <2>6, <3>1, Zenon
    <3>3. k \in 1 .. 14 /\ k <= n
      BY ONLY <3>2, k \in 1 .. 15
    <3>. QED
      BY <3>1, <3>3, Zenon
  <2>. QED
    BY <1>1, <1>3, <2>1, <2>3, <2>5, <2>7, Zenon DEF StepAt
<1>. QED
  BY <1>1, <1>2, <1>3, Zenon DEF Somewhere

\* Each of the first steps has its place.
LEMMA StepPlaces ==
    ASSUME NEW step, NEW k \in 1 .. 14, StepAt(step, k)
    PROVE  /\ step = "identify" => k = 1
           /\ step = "mbr" => k = 2
           /\ step = "boot" => k = 3
           /\ step = "fat1" => k = 4
           /\ step = "fat2" => k = 5
           /\ step = "root" => k = 6
           /\ step = "mount" => k = 7
           /\ step \notin {"find partition", "find file"}
           /\ step = "mkdir" => k \in 8 .. 14 /\ MakesDirectory(k - 7)
           /\ step = "create" => k \in 8 .. 14 /\ ~MakesDirectory(k - 7)
<1>1. PICK s : s = Script("install")
  OBVIOUS
<1>2. /\ s[1] = "identify" /\ s[2] = "mbr" /\ s[3] = "boot" /\ s[4] = "fat1"
      /\ s[5] = "fat2" /\ s[6] = "root" /\ s[7] = "mount"
      /\ \A i \in 8 .. 14 : s[i] = IF MakesDirectory(i - 7) THEN "mkdir" ELSE "create"
  BY <1>1, InstallSteps, Zenon
<1>3. step = s[k]
  BY <1>1, Zenon DEF StepAt
<1>4. k \in 8 .. 14 \/ k = 1 \/ k = 2 \/ k = 3 \/ k = 4 \/ k = 5 \/ k = 6 \/ k = 7
  OBVIOUS
<1>5. CASE k \in 8 .. 14
  BY <1>2, <1>3, <1>5, Zenon
<1>. QED
  BY <1>2, <1>3, <1>4, <1>5, Zenon

--------------------------------------------------------------------------------
\* What each step of a command does to the invariant.

\* The invariant of the next state, in its variables.
LEMMA InstallInvNext ==
    ASSUME DiskType(fat', root', data', files'), err' \in BOOLEAN,
           ~halfway' => Fat16Inv', Somewhere'
    PROVE  InstallInv'
  BY Zenon DEF InstallInv, DiskType

LEMMA IdleDisk ==
    ASSUME DiskSound(fat', root', data', files'), err' \in BOOLEAN, op' = Idle
    PROVE  Fat16Inv'
  BY InvariantNext, Zenon DEF OpSound

LEMMA EmptyRoot ==
    ASSUME NEW F, NEW r, NEW d, NEW n, DiskType(F, r, d, n), r = <<>>
    PROVE  DiskSound(F, r, d, n)
<1>1. ListedIn(r, d) = {}
  BY DEF ListedIn, SubdirsOf, Elements
<1>. QED
  BY <1>1, Zenon DEF DiskSound

\* A step that leaves the disk alone.
LEMMA DiskKept ==
    ASSUME InstallInv, UNCHANGED <<disk, files>>, halfway => halfway', err' \in BOOLEAN, op' = Idle
    PROVE  DiskType(fat', root', data', files') /\ (~halfway' => Fat16Inv')
<1>1. fat' = fat /\ root' = root /\ data' = data /\ files' = files
  BY DEF disk
<1>2. DiskType(fat', root', data', files')
  BY <1>1, Zenon DEF InstallInv
<1>3. ASSUME ~halfway' PROVE Fat16Inv'
  <2>1. ~halfway
    BY <1>3
  <2>2. DiskSound(fat, root, data, files)
    BY <2>1, Zenon DEF InstallInv, Fat16Inv, DiskInv
  <2>3. DiskSound(fat', root', data', files')
    BY <1>1, <2>2, Zenon
  <2>. QED
    BY <2>3, IdleDisk, Zenon
<1>. QED
  BY <1>2, <1>3

\* The command gives up, or goes on to its next step.
LEMMA StepTaken ==
    ASSUME Somewhere, NEW step, At(step), op' = Idle,
           \/ GivesUp
           \/ /\ Continues
              /\ \A k \in 1 .. 14 : StepAt(step, k) =>
                     (k > 5 => ~halfway') /\ (~err' => Written(k + 1)')
    PROVE  Somewhere'
<1>1. CASE GivesUp
  BY <1>1, NothingToMake, Zenon DEF Somewhere, Elsewhere, Passive, GivesUp
<1>2. CASE /\ Continues
           /\ \A k \in 1 .. 14 : StepAt(step, k) =>
                  (k > 5 => ~halfway') /\ (~err' => Written(k + 1)')
  <2>1. CASE Elsewhere /\ MakesNothing(Tail(todo))
    BY <1>2, <2>1, Zenon DEF Somewhere, Elsewhere, Passive, Continues
  <2>2. ASSUME NEW k \in 1 .. 14, StepAt(step, k) PROVE Somewhere'
    <3>1. (k > 5 => ~halfway') /\ (~err' => Written(k + 1)')
      BY <1>2, <2>2, Zenon
    <3>2. todo' = Rest(Script("install"), k + 1)
      BY <1>2, <2>2, Zenon DEF StepAt, Continues
    <3>3. k + 1 \in 1 .. 15 /\ (k + 1 > 6 => k > 5)
      OBVIOUS
    <3>4. PICK i : i = k + 1
      OBVIOUS
    <3>5. Installing(i)'
      BY <3>1, <3>2, <3>3, <3>4, Zenon DEF Installing, Written
    <3>. QED
      BY <3>3, <3>4, <3>5, Zenon DEF Somewhere
  <2>. QED
    BY <2>1, <2>2, AtStep, Zenon
<1>. QED
  BY <1>1, <1>2

LEMMA RefuseFormatInv == ASSUME InstallInv, RefuseFormat PROVE InstallInv'
<1>1. /\ At("boot") /\ UNCHANGED <<disk, files>> /\ (halfway => halfway') /\ op' = op
      /\ err' \in BOOLEAN /\ GivesUp
  BY DEF RefuseFormat, partition, vars, InstallInv
<1>2. Somewhere /\ op' = Idle
  BY <1>1, Zenon DEF InstallInv, At
<1>3. Somewhere'
  BY <1>1, <1>2, StepTaken, Zenon
<1>. QED
  BY <1>1, <1>2, <1>3, DiskKept, InstallInvNext, Zenon

LEMMA IdentifyDriveInv == ASSUME InstallInv, IdentifyDrive PROVE InstallInv'
<1>1. /\ At("identify") /\ UNCHANGED <<disk, files>> /\ (halfway => halfway') /\ op' = op
      /\ err' \in BOOLEAN /\ (Continues \/ GivesUp)
  BY DEF IdentifyDrive, partition
<1>2. Somewhere /\ op' = Idle
  BY <1>1, Zenon DEF InstallInv, At
<1>3. ASSUME NEW k \in 1 .. 14, StepAt("identify", k)
      PROVE  (k > 5 => ~halfway') /\ (~err' => Written(k + 1)')
  <2>1. k = 1
    BY <1>3, StepPlaces, Zenon
  <2>2. Written(2)'
    BY DEF Written
  <2>. QED
    BY <2>1, <2>2
<1>4. Somewhere'
  BY <1>1, <1>2, <1>3, StepTaken, Zenon
<1>. QED
  BY <1>1, <1>2, <1>4, DiskKept, InstallInvNext, Zenon

LEMMA FindPartitionInv == ASSUME InstallInv, FindPartition PROVE InstallInv'
<1>1. /\ At("find partition") /\ UNCHANGED <<disk, files>> /\ (halfway => halfway') /\ op' = op
      /\ err' \in BOOLEAN /\ (Continues \/ GivesUp)
  BY DEF FindPartition, partition, Answers, Refuses
<1>2. Somewhere /\ op' = Idle
  BY <1>1, Zenon DEF InstallInv, At
<1>3. \A k \in 1 .. 14 : ~StepAt("find partition", k)
  BY StepPlaces, Zenon
<1>4. Somewhere'
  BY <1>1, <1>2, <1>3, StepTaken, Zenon
<1>. QED
  BY <1>1, <1>2, <1>4, DiskKept, InstallInvNext, Zenon

\* A step that writes sectors: what holds when the command goes on.
LEMMA WriteStep ==
    ASSUME SlowDrive = FALSE, InstallInv, NEW step, NEW written \in BOOLEAN, Write(step, written)
    PROVE  /\ At(step) /\ Somewhere /\ op' = Idle /\ err' \in BOOLEAN
           /\ data' = data /\ mounted' = mounted /\ files' = files
           /\ GivesUp \/ Continues
           /\ Continues /\ ~GivesUp => (~err' => ~err /\ written) /\ (Many(step) => written)
  BY DriveAnswers DEF Write, At, InstallInv, GivesUp, Continues

\* What is written of a volume that is laid out anew.
LEMMA WrittenBefore ==
    ASSUME InstallInv, NEW step, NEW k \in 1 .. 14, StepAt(step, k), ~err
    PROVE  Written(k)
  BY Zenon DEF StepAt, Installing

LEMMA WriteMbrInv ==
    ASSUME SlowDrive = FALSE, InstallInv, NEW written \in BOOLEAN, WriteMbr(written)
    PROVE  InstallInv'
<1>1. /\ Write("mbr", written) /\ mbr' = (mbr \/ written)
      /\ fat' = fat /\ root' = root /\ boot' = boot /\ (halfway => halfway')
  BY DEF WriteMbr
<1>2. /\ At("mbr") /\ Somewhere /\ op' = Idle /\ err' \in BOOLEAN
      /\ data' = data /\ files' = files
      /\ GivesUp \/ Continues
      /\ Continues /\ ~GivesUp => (~err' => ~err /\ written)
  BY <1>1, WriteStep, Zenon
<1>3. ASSUME Continues, ~GivesUp, NEW k \in 1 .. 14, StepAt("mbr", k)
      PROVE  (k > 5 => ~halfway') /\ (~err' => Written(k + 1)')
  <2>1. k = 2
    BY <1>3, StepPlaces, Zenon
  <2>2. ASSUME ~err' PROVE Written(3)'
    <3>1. mbr'
      BY <1>1, <1>2, <1>3, <2>2
    <3>. QED
      BY <3>1 DEF Written
  <2>. QED
    BY <2>1, <2>2
<1>4. Somewhere'
  BY <1>2, <1>3, StepTaken, Zenon
<1>5. DiskType(fat', root', data', files') /\ (~halfway' => Fat16Inv')
  BY <1>1, <1>2, DiskKept, Zenon DEF disk
<1>. QED
  BY <1>2, <1>4, <1>5, InstallInvNext, Zenon

LEMMA WriteBootInv ==
    ASSUME SlowDrive = FALSE, InstallInv, NEW written \in BOOLEAN, WriteBoot(written)
    PROVE  InstallInv'
<1>1. /\ Write("boot", written) /\ boot' = (boot \/ written)
      /\ fat' = fat /\ root' = root /\ mbr' = mbr /\ (halfway => halfway')
  BY DEF WriteBoot
<1>2. /\ At("boot") /\ Somewhere /\ op' = Idle /\ err' \in BOOLEAN
      /\ data' = data /\ files' = files
      /\ GivesUp \/ Continues
      /\ Continues /\ ~GivesUp => (~err' => ~err /\ written)
  BY <1>1, WriteStep, Zenon
<1>3. ASSUME Continues, ~GivesUp, NEW k \in 1 .. 14, StepAt("boot", k)
      PROVE  (k > 5 => ~halfway') /\ (~err' => Written(k + 1)')
  <2>1. k = 3
    BY <1>3, StepPlaces, Zenon
  <2>2. ASSUME ~err' PROVE Written(4)'
    <3>1. boot' /\ ~err
      BY <1>1, <1>2, <1>3, <2>2
    <3>2. Written(3)
      BY <1>3, <2>1, <3>1, WrittenBefore, Zenon
    <3>3. mbr
      BY <3>2 DEF Written
    <3>. QED
      BY <1>1, <3>1, <3>3 DEF Written
  <2>. QED
    BY <2>1, <2>2
<1>4. Somewhere'
  BY <1>2, <1>3, StepTaken, Zenon
<1>5. DiskType(fat', root', data', files') /\ (~halfway' => Fat16Inv')
  BY <1>1, <1>2, DiskKept, Zenon DEF disk
<1>. QED
  BY <1>2, <1>4, <1>5, InstallInvNext, Zenon

LEMMA NewFatType == NewFat \in [Entries -> Values] /\ NewFat = FatUpTo(2)
<1>1. 0 \in Values
  BY Fat16Assumption DEF Values, EOC
<1>2. \A x \in Entries : ~(x < 2)
  BY DEF Entries
<1>. QED
  BY <1>1, <1>2 DEF NewFat, FatUpTo

LEMMA ClearFirstFatInv ==
    ASSUME SlowDrive = FALSE, InstallInv, NEW written \in BOOLEAN, ClearFirstFat(written)
    PROVE  InstallInv'
<1>1. /\ Write("fat1", written) /\ root' = root /\ mbr' = mbr /\ boot' = boot
      /\ fat' = IF written THEN [fat EXCEPT ![1] = NewFat] ELSE fat
      /\ halfway' = (halfway \/ (written /\ root # <<>>))
  BY DEF ClearFirstFat
<1>2. /\ At("fat1") /\ Somewhere /\ op' = Idle /\ err' \in BOOLEAN
      /\ data' = data /\ files' = files
      /\ GivesUp \/ Continues
      /\ Continues /\ ~GivesUp => (~err' => ~err /\ written)
  BY <1>1, WriteStep, Zenon
<1>3. DiskType(fat, root, data, files)
  BY Zenon DEF InstallInv
<1>4. fat \in [Copies -> [Entries -> Values]]
  BY <1>3, Zenon DEF DiskType
<1>5. written => fat' \in [Copies -> [Entries -> Values]] /\ fat'[1] = NewFat
  BY <1>1, <1>4, NewFatType DEF Copies
<1>6. ASSUME Continues, ~GivesUp, NEW k \in 1 .. 14, StepAt("fat1", k)
      PROVE  (k > 5 => ~halfway') /\ (~err' => Written(k + 1)')
  <2>1. k = 4
    BY <1>6, StepPlaces, Zenon
  <2>2. ASSUME ~err' PROVE Written(5)'
    <3>1. written /\ ~err
      BY <1>2, <1>6, <2>2
    <3>2. Written(4)
      BY <1>6, <2>1, <3>1, WrittenBefore, Zenon
    <3>3. mbr /\ boot
      BY <3>2 DEF Written
    <3>. QED
      BY <1>1, <1>5, <3>1, <3>3 DEF Written
  <2>. QED
    BY <2>1, <2>2
<1>7. Somewhere'
  BY <1>2, <1>6, StepTaken, Zenon
<1>8. CASE written
  <2>1. DiskType(fat', root', data', files')
    BY <1>1, <1>2, <1>3, <1>5, <1>8, Zenon DEF DiskType
  <2>2. ASSUME ~halfway' PROVE Fat16Inv'
    <3>1. root' = <<>>
      BY <1>1, <1>8, <2>2
    <3>. QED
      BY <1>2, <2>1, <3>1, EmptyRoot, IdleDisk, Zenon
  <2>. QED
    BY <1>2, <1>7, <2>1, <2>2, InstallInvNext, Zenon
<1>9. CASE ~written
  <2>1. (halfway => halfway') /\ fat' = fat
    BY <1>1, <1>9
  <2>2. DiskType(fat', root', data', files') /\ (~halfway' => Fat16Inv')
    BY <1>1, <1>2, <2>1, DiskKept, Zenon DEF disk
  <2>. QED
    BY <1>2, <1>7, <2>2, InstallInvNext, Zenon
<1>. QED
  BY <1>8, <1>9

LEMMA ClearSecondFatInv ==
    ASSUME SlowDrive = FALSE, InstallInv, NEW written \in BOOLEAN, ClearSecondFat(written)
    PROVE  InstallInv'
<1>1. /\ Write("fat2", written) /\ root' = root /\ mbr' = mbr /\ boot' = boot
      /\ fat' = IF written THEN [fat EXCEPT ![2] = NewFat] ELSE fat
      /\ (halfway => halfway') /\ (~halfway' => ~halfway)
  BY DEF ClearSecondFat, partition
<1>2. /\ At("fat2") /\ Somewhere /\ op' = Idle /\ err' \in BOOLEAN
      /\ data' = data /\ files' = files
      /\ GivesUp \/ Continues
      /\ Continues /\ ~GivesUp => (~err' => ~err /\ written)
  BY <1>1, WriteStep, Zenon
<1>3. DiskType(fat, root, data, files)
  BY Zenon DEF InstallInv
<1>4. fat \in [Copies -> [Entries -> Values]]
  BY <1>3, Zenon DEF DiskType
<1>5. /\ fat' \in [Copies -> [Entries -> Values]] /\ fat'[1] = fat[1]
      /\ written => fat'[2] = NewFat
  BY <1>1, <1>4, NewFatType DEF Copies
<1>6. ASSUME Continues, ~GivesUp, NEW k \in 1 .. 14, StepAt("fat2", k)
      PROVE  (k > 5 => ~halfway') /\ (~err' => Written(k + 1)')
  <2>1. k = 5
    BY <1>6, StepPlaces, Zenon
  <2>2. ASSUME ~err' PROVE Written(6)'
    <3>1. written /\ ~err
      BY <1>2, <1>6, <2>2
    <3>2. Written(5)
      BY <1>6, <2>1, <3>1, WrittenBefore, Zenon
    <3>3. mbr /\ boot /\ fat[1] = NewFat
      BY <3>2 DEF Written
    <3>. QED
      BY <1>1, <1>5, <3>1, <3>3 DEF Written
  <2>. QED
    BY <2>1, <2>2
<1>7. Somewhere'
  BY <1>2, <1>6, StepTaken, Zenon
<1>8. DiskType(fat', root', data', files')
  BY <1>1, <1>2, <1>3, <1>5, Zenon DEF DiskType
<1>9. ASSUME ~halfway' PROVE Fat16Inv'
  <2>1. DiskSound(fat, root, data, files)
    BY <1>1, <1>9, Zenon DEF InstallInv, Fat16Inv, DiskInv
  <2>2. DiskSound(fat', root', data', files')
    BY <1>1, <1>2, <1>5, <1>8, <2>1, Zenon DEF DiskSound
  <2>. QED
    BY <1>2, <2>2, IdleDisk, Zenon
<1>. QED
  BY <1>2, <1>7, <1>8, <1>9, InstallInvNext, Zenon

LEMMA ClearRootInv ==
    ASSUME SlowDrive = FALSE, InstallInv, NEW written \in BOOLEAN, ClearRoot(written)
    PROVE  InstallInv'
<1>1. /\ Write("root", written) /\ fat' = fat /\ mbr' = mbr /\ boot' = boot
      /\ root' = IF written THEN <<>> ELSE root
      /\ halfway' = (halfway /\ ~written)
  BY DEF ClearRoot, NewRoot
<1>2. /\ At("root") /\ Somewhere /\ op' = Idle /\ err' \in BOOLEAN
      /\ data' = data /\ files' = files
      /\ GivesUp \/ Continues
      /\ Continues /\ ~GivesUp => (~err' => ~err /\ written) /\ written
  <2>1. Many("root")
    BY DEF Many
  <2>. QED
    BY <1>1, <2>1, WriteStep, Zenon
<1>3. ASSUME Continues, ~GivesUp, NEW k \in 1 .. 14, StepAt("root", k)
      PROVE  (k > 5 => ~halfway') /\ (~err' => Written(k + 1)')
  <2>1. k = 6
    BY <1>3, StepPlaces, Zenon
  <2>2. written /\ ~halfway' /\ root' = <<>>
    BY <1>1, <1>2, <1>3
  <2>3. ASSUME ~err' PROVE Written(7)'
    <3>1. ~err
      BY <1>2, <1>3, <2>3
    <3>2. Written(6)
      BY <1>3, <2>1, <3>1, WrittenBefore, Zenon
    <3>3. mbr /\ boot /\ fat[1] = NewFat /\ fat[2] = NewFat
      BY <3>2 DEF Written
    <3>. QED
      BY <1>1, <2>2, <3>3 DEF Written
  <2>. QED
    BY <2>1, <2>2, <2>3
<1>4. Somewhere'
  BY <1>2, <1>3, StepTaken, Zenon
<1>5. CASE written
  <2>1. root' = <<>> /\ <<>> \in Seq(EntryRec)
    BY <1>1, <1>5
  <2>2. DiskType(fat', root', data', files')
    BY <1>1, <1>2, <2>1, Zenon DEF DiskType, InstallInv
  <2>3. Fat16Inv'
    BY <1>2, <2>1, <2>2, EmptyRoot, IdleDisk, Zenon
  <2>. QED
    BY <1>2, <1>4, <2>2, <2>3, InstallInvNext, Zenon
<1>6. CASE ~written
  <2>1. (halfway => halfway') /\ root' = root
    BY <1>1, <1>6
  <2>2. DiskType(fat', root', data', files') /\ (~halfway' => Fat16Inv')
    BY <1>1, <1>2, <2>1, DiskKept, Zenon DEF disk
  <2>. QED
    BY <1>2, <1>4, <2>2, InstallInvNext, Zenon
<1>. QED
  BY <1>5, <1>6

\* The volume is empty when install mounts it.
LEMMA NothingLaid ==
    ASSUME NEW F, NEW r, NEW d, NEW x, F[1] = NewFat, F[2] = NewFat, r = <<>>
    PROVE  Building(Idle, F, r, d, x, 0)
<1>1. TreeUpTo(r, d, 0)
  BY DEF TreeUpTo, First, Cluster
<1>2. BothUpTo(F, Cluster(0) + 1)
  BY NewFatType DEF BothUpTo, Cluster
<1>3. ~MakesDirectory(0)
  BY DEF MakesDirectory
<1>. QED
  BY <1>1, <1>2, <1>3, Zenon DEF Building, Between, Laid

LEMMA MountVolumeInv == ASSUME SlowDrive = FALSE, InstallInv, MountVolume PROVE InstallInv'
<1>1. /\ At("mount") /\ UNCHANGED <<disk, files>>
      /\ (halfway => halfway') /\ (~halfway => ~halfway') /\ op' = op
      /\ mbr' = mbr /\ boot' = boot /\ newdir' = newdir /\ err' \in BOOLEAN
      /\ \/ GivesUp
         \/ ~err /\ mounted' = TRUE /\ Continues
  BY DriveAnswers DEF MountVolume, partition, Answers, Refuses
<1>2. Somewhere /\ op' = Idle
  BY <1>1, Zenon DEF InstallInv, At
<1>3. ASSUME ~GivesUp, NEW k \in 1 .. 14, StepAt("mount", k)
      PROVE  (k > 5 => ~halfway') /\ (~err' => Written(k + 1)')
  <2>1. k = 7
    BY <1>3, StepPlaces, Zenon
  <2>2. ~halfway /\ Written(7)
    BY <1>1, <1>3, <2>1, WrittenBefore DEF StepAt, Installing
  <2>3. mbr /\ boot /\ fat[1] = NewFat /\ fat[2] = NewFat /\ root = <<>>
    BY <2>2 DEF Written
  <2>4. fat' = fat /\ root' = root /\ data' = data
    BY <1>1 DEF disk
  <2>5. fat'[1] = NewFat /\ fat'[2] = NewFat /\ root' = <<>> /\ mbr' /\ boot'
    BY <1>1, <2>3, <2>4
  <2>6. Building(op', fat', root', data', newdir', 0)
    BY <1>2, <2>5, NothingLaid, Zenon
  <2>7. Written(8)'
    <3>1. (8 - 8) = 0
      OBVIOUS
    <3>2. mounted'
      BY <1>1, <1>3
    <3>. QED
      BY <2>5, <2>6, <3>1, <3>2, Zenon DEF Written
  <2>. QED
    BY <1>1, <2>1, <2>2, <2>7
<1>4. Somewhere'
  BY <1>1, <1>2, <1>3, StepTaken, Zenon
<1>. QED
  BY <1>1, <1>2, <1>4, DiskKept, InstallInvNext, Zenon

LEMMA RunCommandInv ==
    ASSUME InstallInv, NEW command \in Commands, RunCommand(command)
    PROVE  InstallInv'
<1>1. /\ op' = Idle /\ todo' = Script(command) /\ UNCHANGED <<disk, files>>
      /\ (halfway => halfway') /\ err' = err
  BY DEF RunCommand, partition
<1>2. err' \in BOOLEAN
  BY <1>1, Zenon DEF InstallInv
<1>3. CASE command = "install"
  <2>1. todo' = Rest(Script("install"), 1)
    BY <1>1, <1>3, InstallSteps, WholeScript, Zenon
  <2>2. Installing(1)'
    BY <1>1, <2>1 DEF Installing, Written
  <2>3. 1 \in 1 .. 15
    OBVIOUS
  <2>4. Somewhere'
    BY <2>2, <2>3, Zenon DEF Somewhere
  <2>. QED
    BY <1>1, <1>2, <2>4, DiskKept, InstallInvNext, Zenon
<1>4. CASE command # "install"
  <2>1. MakesNothing(todo')
    BY <1>1, <1>4, NothingToMake, Zenon
  <2>2. Somewhere'
    BY <1>1, <2>1, Zenon DEF Somewhere, Elsewhere, Passive
  <2>. QED
    BY <1>1, <1>2, <2>2, DiskKept, InstallInvNext, Zenon
<1>. QED
  BY <1>3, <1>4

LEMMA DiskInfoInv == ASSUME InstallInv, DiskInfo PROVE InstallInv'
<1>1. /\ op' = Idle /\ todo' = <<>> /\ UNCHANGED <<disk, files>>
      /\ (halfway => halfway') /\ err' \in BOOLEAN
  BY DEF DiskInfo, Identify, partition
<1>2. Somewhere'
  BY <1>1, NothingToMake, Zenon DEF Somewhere, Elsewhere, Passive
<1>. QED
  BY <1>1, <1>2, DiskKept, InstallInvNext, Zenon

LEMMA PowerCutInv == ASSUME InstallInv, PowerCut PROVE InstallInv'
<1>1. /\ op' = Idle /\ todo' = <<>> /\ UNCHANGED <<disk, files>>
      /\ (halfway => halfway') /\ err' \in BOOLEAN
  BY DEF PowerCut, Restart, partition
<1>2. Somewhere'
  BY <1>1, NothingToMake, Zenon DEF Somewhere, Elsewhere, Passive
<1>. QED
  BY <1>1, <1>2, DiskKept, InstallInvNext, Zenon

LEMMA FindFileInv == ASSUME InstallInv, FindFile PROVE InstallInv'
<1>1. At("find file") /\ Somewhere /\ op = Idle
  BY Zenon DEF FindFile, InstallInv, At
<1>2. (halfway => halfway') /\ (~halfway' => ~halfway)
  BY DEF FindFile, partition
<1>3. CASE GivesUp /\ (Answers \/ Refuses) /\ UNCHANGED <<disk, mounted, op, files>>
  <2>1. op' = Idle /\ err' \in BOOLEAN /\ UNCHANGED <<disk, files>>
    BY <1>1, <1>3 DEF Answers, Refuses
  <2>2. Somewhere'
    BY <1>1, <1>3, <2>1, StepTaken, Zenon
  <2>. QED
    BY <1>2, <2>1, <2>2, DiskKept, InstallInvNext, Zenon
<1>4. ASSUME Continues, NEW d \in Directories, NEW i \in DOMAIN EntriesIn(d), ReadFile(d, i)
      PROVE  InstallInv'
  <2>1. PICK e : e = EntriesIn(d)[i]
    OBVIOUS
  <2>2. /\ op' = IF e.parts = 0 THEN Result("read", 1, TRUE, 0)
                  ELSE ReadFields("read", e.id, e.parts, e.first, 0, TRUE)
        /\ UNCHANGED disk /\ err' = err /\ files' = files
    BY <1>4, <2>1, Zenon DEF ReadFile, ReadFields
  <2>3. Passive(op')
    <3>1. PICK p, q : p = Result("read", 1, TRUE, 0)
                      /\ q = ReadFields("read", e.id, e.parts, e.first, 0, TRUE)
      OBVIOUS
    <3>2. p.at = "returned" /\ p.kind = "read"
      BY ONLY <3>1 DEF Result
    <3>3. ReadsOn(q)
      BY ONLY <3>1 DEF ReadsOn, ReadFields
    <3>. QED
      BY <2>2, <3>1, <3>2, <3>3, Zenon DEF Passive
  <2>4. MakesNothing(todo')
    BY <1>1, <1>4, AtStep, StepPlaces, Zenon DEF Continues
  <2>5. Somewhere'
    BY <2>3, <2>4, Zenon DEF Somewhere, Elsewhere
  <2>6. ASSUME ~halfway' PROVE Fat16Inv'
    <3>1. Begins
      BY <1>4, Zenon DEF Begins
    <3>2. Fat16Inv
      BY <1>2, <2>6, Zenon DEF InstallInv
    <3>. QED
      BY <3>1, <3>2, BeginsInv, Zenon
  <2>7. DiskType(fat', root', data', files') /\ err' \in BOOLEAN
    BY <2>2, Zenon DEF InstallInv, disk
  <2>. QED
    BY <2>5, <2>6, <2>7, InstallInvNext, Zenon
<1>. QED
  BY <1>3, <1>4, Zenon DEF FindFile

\* The steps after the volume is mounted.
LEMMA LateWritten ==
    ASSUME NEW k, k \in 8 .. 15, Written(k)
    PROVE  mbr /\ boot /\ mounted /\ Building(op, fat, root, data, newdir, k - 8)
<1>1. k > 2 /\ k > 3 /\ k > 7
  OBVIOUS
<1>. QED
  BY <1>1, Zenon DEF Written

LEMMA BuildingOn ==
    ASSUME NEW k \in 9 .. 15, todo' = Rest(Script("install"), k), ~halfway',
           ~err' => mbr' /\ boot' /\ mounted'
                    /\ Building(op', fat', root', data', newdir', k - 8)
    PROVE  Somewhere'
<1>1. k \in 1 .. 15 /\ ~(k <= 8) /\ k \notin 5 .. 8 /\ k \notin 6 .. 8 /\ k \notin 7 .. 8
  OBVIOUS
<1>2. ~err' => Written(k)'
  BY <1>1, Zenon DEF Written
<1>3. Installing(k)'
  BY <1>1, <1>2, Zenon DEF Installing
<1>. QED
  BY <1>1, <1>3, Zenon DEF Somewhere

\* No operation is under way between two.
LEMMA IdleBetween ==
    ASSUME NEW F, NEW r, NEW d, NEW x, NEW j, Building(Idle, F, r, d, x, j)
    PROVE  Between(Idle, F, r, d, x, j)
<1>1. Idle.at = "idle"
  BY DEF Idle
<1>2. Idle.at \notin {"scan", "mark", "data", "entry", "returned"}
  BY ONLY <1>1
<1>. QED
  BY <1>2, Zenon DEF Building, Underway, Job, Done

LEMMA DiskTypeNext == ASSUME Fat16Inv' PROVE DiskType(fat', root', data', files')
  BY Zenon DEF Fat16Inv, DiskInv, DiskSound, DiskType

\* The operation that a step calls looks for its cluster from the first on.
LEMMA BeginsToScan ==
    ASSUME NEW j, j \in 1 .. 7, NEW F, NEW r, NEW d, Laid(F, r, d, j - 1),
           NEW kind, kind = IF MakesDirectory(j) THEN "dir" ELSE "file",
           NEW dir, dir = IF MakesDirectory(j) THEN 0 ELSE j,
           NEW o, o = Alloc(Begin(kind, 1, dir), "first")
    PROVE  Underway(o, F, r, d, j)
<1>1. /\ o.at = "scan" /\ o.kind = kind /\ o.parts = 1 /\ o.dir = dir
      /\ o.target = 2 /\ o.then = "first" /\ o.written = 0
  <2>1. PICK b : b = [at |-> "entry", kind |-> kind, id |-> files + 1, parts |-> 1,
                      dir |-> dir, first |-> 0, cluster |-> 0, written |-> 0,
                      target |-> 2, value |-> 0, copy |-> 1, then |-> "first"]
    OBVIOUS
  <2>2. o = [b EXCEPT !.at = "scan", !.target = 2, !.then = "first"]
    BY <2>1, Zenon DEF Alloc, Begin
  <2>. QED
    BY ONLY <2>1, <2>2
<1>2. Job(o, j)
  BY <1>1, Zenon DEF Job
<1>3. Cluster(j - 1) + 1 = Cluster(j) /\ 2 \in 2 .. Cluster(j)
  BY DEF Cluster
<1>4. Scanning(o, F, j)
  BY <1>1, <1>3, Zenon DEF Scanning, Laid
<1>. QED
  BY <1>2, <1>4, Zenon DEF Underway, Laid

LEMMA MakeDirectoryInv == ASSUME InstallInv, MakeDirectory PROVE InstallInv'
<1>1. At("mkdir") /\ Mkdir /\ Continues /\ Somewhere /\ op = Idle
  BY Zenon DEF MakeDirectory, InstallInv, At
<1>2. /\ (~halfway => ~halfway') /\ (mbr => mbr') /\ (boot => boot') /\ newdir' = newdir
      /\ mounted' /\ err' = err
      /\ fat' = fat /\ root' = root /\ data' = data
      /\ op' = Alloc(Begin("dir", 1, 0), "first")
  BY DEF MakeDirectory, Mkdir, partition, Ready, disk
<1>3. PICK k \in 1 .. 14 : StepAt("mkdir", k)
  BY <1>1, AtStep, Zenon
<1>4. k \in 8 .. 14 /\ MakesDirectory(k - 7)
  BY <1>3, StepPlaces, Zenon
<1>5. /\ k > 6 /\ k \in 8 .. 15 /\ k + 1 \in 9 .. 15 /\ k - 7 \in 1 .. 7 /\ k - 7 > 0
      /\ (k + 1) - 8 = k - 7 /\ k - 8 = (k - 7) - 1
  BY <1>4
<1>6. ~halfway /\ Fat16Inv
  BY <1>3, <1>5, Zenon DEF StepAt, Installing, InstallInv
<1>7. Fat16Inv'
  BY <1>1, <1>6, BeginsInv, Zenon DEF Begins
<1>8. ASSUME ~err'
      PROVE  mbr' /\ boot' /\ mounted' /\ Building(op', fat', root', data', newdir', k - 7)
  <2>1. Written(k)
    BY <1>2, <1>3, <1>8, WrittenBefore, Zenon
  <2>2. mbr /\ boot /\ Building(Idle, fat, root, data, newdir, (k - 7) - 1)
    BY <1>1, <1>5, <2>1, LateWritten, Zenon
  <2>3. PICK j : j = k - 7
    OBVIOUS
  <2>4. Laid(fat, root, data, j - 1)
    BY <2>2, <2>3, IdleBetween, Zenon DEF Between
  <2>5. Underway(op', fat, root, data, j)
    BY <1>2, <1>4, <1>5, <2>3, <2>4, BeginsToScan, Zenon
  <2>. QED
    BY <1>2, <1>5, <2>2, <2>3, <2>5, Zenon DEF Building
<1>9. todo' = Rest(Script("install"), k + 1)
  BY <1>1, <1>3, Zenon DEF StepAt, Continues
<1>10. Somewhere'
  <2>1. PICK i : i = k + 1
    OBVIOUS
  <2>2. i \in 9 .. 15 /\ i - 8 = k - 7
    BY <1>5, <2>1
  <2>. QED
    BY <1>2, <1>6, <1>8, <1>9, <2>1, <2>2, BuildingOn, Zenon
<1>11. err' \in BOOLEAN
  BY <1>2, Zenon DEF InstallInv
<1>. QED
  BY <1>7, <1>10, <1>11, DiskTypeNext, InstallInvNext, Zenon

\* The directory that a file goes into is the last that was made.
LEMMA FilesDirectory ==
    ASSUME NEW j, j \in 1 .. 7, ~MakesDirectory(j), NEW r, NEW d, TreeUpTo(r, d, j - 1),
           r \in Seq(EntryRec)
    PROVE  /\ MakesDirectory(j - 1) /\ Cluster(j - 1) = j /\ j \in DirsOf(r)
           /\ \E i \in 2 .. Len(r) : First(i) = j
<1>1. MakesDirectory(j - 1) /\ Cluster(j - 1) = j
  BY DEF MakesDirectory, Cluster
<1>2. PICK i \in 2 .. 4 : First(i) = j
  <2>1. First(2) = 3 /\ First(3) = 5 /\ First(4) = 7
    BY DEF First
  <2>2. j = 3 \/ j = 5 \/ j = 7
    BY DEF MakesDirectory
  <2>3. 2 \in 2 .. 4 /\ 3 \in 2 .. 4 /\ 4 \in 2 .. 4
    OBVIOUS
  <2>. QED
    BY <2>1, <2>2, <2>3, Zenon
<1>3. PICK n : n = Len(r)
  OBVIOUS
<1>4. i <= n
  <2>1. \A m \in 1 .. 4 : m <= n <=> First(m) <= Cluster(j - 1)
    BY <1>3, Zenon DEF TreeUpTo
  <2>2. i \in 1 .. 4 /\ First(i) <= Cluster(j - 1)
    BY <1>1, <1>2
  <2>. QED
    BY <2>1, <2>2, Zenon
<1>5. r[i].kind = "dir" /\ r[i].first = j /\ i \in 1 .. n
  BY <1>2, <1>3, <1>4 DEF TreeUpTo, Settled
<1>6. i \in 2 .. Len(r)
  BY <1>2, <1>3, <1>4
<1>7. j \in DirsOf(r)
  <2>1. i \in DOMAIN r
    BY <1>3, <1>5
  <2>. QED
    BY <1>5, <2>1, Zenon DEF DirsOf, SubdirsOf, Elements
<1>. QED
  BY <1>1, <1>2, <1>6, <1>7, Zenon

LEMMA PlaceholderFileInv == ASSUME InstallInv, PlaceholderFile PROVE InstallInv'
<1>1. At("create") /\ CreateFile(newdir, 1) /\ Continues /\ Somewhere /\ op = Idle
  BY Zenon DEF PlaceholderFile, InstallInv, At
<1>2. /\ (~halfway => ~halfway') /\ (mbr => mbr') /\ (boot => boot') /\ newdir' = newdir
      /\ mounted' /\ err' = err /\ UNCHANGED disk /\ files' = files + 1
      /\ fat' = fat /\ root' = root /\ data' = data
      /\ op' = Alloc(Begin("file", 1, newdir), "first")
  BY DEF PlaceholderFile, CreateFile, partition, Ready, disk
<1>3. PICK k \in 1 .. 14 : StepAt("create", k)
  BY <1>1, AtStep, Zenon
<1>4. k \in 8 .. 14 /\ ~MakesDirectory(k - 7)
  BY <1>3, StepPlaces, Zenon
<1>5. /\ k > 6 /\ k \in 8 .. 15 /\ k + 1 \in 9 .. 15 /\ k - 7 \in 1 .. 7 /\ k - 7 > 0
      /\ (k + 1) - 8 = k - 7 /\ k - 8 = (k - 7) - 1
  BY <1>4
<1>6. ~halfway /\ Fat16Inv
  BY <1>3, <1>5, Zenon DEF StepAt, Installing, InstallInv
<1>7. PICK j : j = k - 7
  OBVIOUS
<1>8. ASSUME ~err
      PROVE  /\ mbr /\ boot /\ Laid(fat, root, data, j - 1)
             /\ newdir = j /\ newdir \in DirsOf(root)
  <2>1. Written(k)
    BY <1>3, <1>8, WrittenBefore, Zenon
  <2>2. mbr /\ boot /\ Building(Idle, fat, root, data, newdir, j - 1)
    BY <1>1, <1>5, <1>7, <2>1, LateWritten, Zenon
  <2>3. Between(Idle, fat, root, data, newdir, j - 1)
    BY <2>2, IdleBetween, Zenon
  <2>4. root \in Seq(EntryRec)
    BY Zenon DEF InstallInv, DiskType
  <2>5. MakesDirectory(j - 1) /\ Cluster(j - 1) = j /\ j \in DirsOf(root)
    BY <1>4, <1>5, <1>7, <2>3, <2>4, FilesDirectory, Zenon DEF Between, Laid
  <2>. QED
    BY <2>2, <2>3, <2>5, Zenon DEF Between
<1>9. Fat16Inv'
  <2>1. CASE ~err
    <3>1. 1 \in Nat
      OBVIOUS
    <3>. QED
      BY <1>1, <1>6, <1>8, <2>1, <3>1, CreateFileInv, Zenon
  <2>2. CASE err
    <3>1. files' \in Nat /\ files <= files' /\ err' \in BOOLEAN
      BY <1>2, <1>6, FilesType DEF InstallInv
    <3>. QED
      BY <1>2, <1>6, <2>2, <3>1, DiskUntouched, Zenon
  <2>. QED
    BY <2>1, <2>2
<1>10. ASSUME ~err'
       PROVE  mbr' /\ boot' /\ mounted' /\ Building(op', fat', root', data', newdir', j)
  <2>1. mbr /\ boot /\ Laid(fat, root, data, j - 1) /\ newdir = j
    BY <1>2, <1>8, <1>10, Zenon
  <2>2. Underway(op', fat, root, data, j)
    BY <1>2, <1>4, <1>5, <1>7, <2>1, BeginsToScan, Zenon
  <2>3. j > 0
    BY <1>5, <1>7
  <2>. QED
    BY <1>2, <2>1, <2>2, <2>3, Zenon DEF Building
<1>11. todo' = Rest(Script("install"), k + 1)
  BY <1>1, <1>3, Zenon DEF StepAt, Continues
<1>12. Somewhere'
  <2>1. PICK i : i = k + 1
    OBVIOUS
  <2>2. i \in 9 .. 15 /\ i - 8 = j
    BY <1>5, <1>7, <2>1
  <2>. QED
    BY <1>2, <1>6, <1>10, <1>11, <2>1, <2>2, BuildingOn, Zenon
<1>13. err' \in BOOLEAN
  BY <1>2, Zenon DEF InstallInv
<1>. QED
  BY <1>9, <1>12, <1>13, DiskTypeNext, InstallInvNext, Zenon

LEMMA ResumeInv == ASSUME InstallInv, Resume PROVE InstallInv'
<1>1. /\ op.at = "returned" /\ op' = Idle /\ UNCHANGED <<disk, files>>
      /\ fat' = fat /\ root' = root /\ data' = data
      /\ (halfway => halfway') /\ (~halfway => ~halfway') /\ err' = err
      /\ (mbr => mbr') /\ (boot => boot') /\ (mounted => mounted')
      /\ todo' = IF op.kind = "dir" /\ op.ret = 0 THEN <<>> ELSE todo
      /\ newdir' = IF op.kind = "dir" /\ op.ret = 1 THEN op.first ELSE newdir
  BY DEF Resume, Return, partition, disk, GivesUp
<1>2. err' \in BOOLEAN /\ Somewhere
  BY <1>1, Zenon DEF InstallInv
<1>3. ASSUME MakesNothing(todo') PROVE Somewhere'
  BY <1>1, <1>3, Zenon DEF Somewhere, Elsewhere, Passive
<1>4. ASSUME todo' = <<>> PROVE Somewhere'
  BY <1>3, <1>4, NothingToMake, Zenon
<1>5. ASSUME todo' = todo, Elsewhere PROVE Somewhere'
  BY <1>3, <1>5, Zenon DEF Elsewhere
<1>6. ASSUME todo' = todo, NEW k \in 1 .. 15, Installing(k) PROVE Somewhere'
  <2>1. op # Idle
    BY <1>1 DEF Idle
  <2>2. ~(k <= 8)
    BY <1>6, <2>1, Zenon DEF Installing
  <2>3. k \in 9 .. 15 /\ k \in 8 .. 15 /\ k > 6 /\ k - 8 > 0
    BY <2>2
  <2>4. todo' = Rest(Script("install"), k) /\ ~halfway'
    BY <1>1, <1>6, <2>3, Zenon DEF Installing
  <2>5. ASSUME ~err'
        PROVE  /\ mbr' /\ boot' /\ mounted'
               /\ Building(op', fat', root', data', newdir', k - 8)
    <3>1. Written(k)
      BY <1>1, <1>6, <2>5, Zenon DEF Installing
    <3>2. mbr /\ boot /\ mounted /\ Building(op, fat, root, data, newdir, k - 8)
      BY <2>3, <3>1, LateWritten, Zenon
    <3>3. PICK j : j = k - 8
      OBVIOUS
    <3>4. Underway(op, fat, root, data, j)
      BY <2>1, <3>2, <3>3, Zenon DEF Building, Between
    <3>5. ~Job(op, j)
      <4>1. op.at \notin {"scan", "mark", "data", "entry"}
        BY <1>1
      <4>. QED
        BY <4>1, Zenon DEF Job
    <3>6. Done(op, fat, root, data, j)
      BY <3>4, <3>5, Zenon DEF Underway
    <3>7. MakesDirectory(j) => newdir' = Cluster(j)
      BY <1>1, <3>6 DEF Done
    <3>8. Between(Idle, fat, root, data, newdir', j)
      BY <3>6, <3>7, Zenon DEF Between, Done
    <3>. QED
      BY <1>1, <3>2, <3>3, <3>8, Zenon DEF Building
  <2>. QED
    BY <2>3, <2>4, <2>5, BuildingOn, Zenon
<1>7. Somewhere'
  BY <1>1, <1>2, <1>4, <1>5, <1>6, Zenon DEF Somewhere
<1>. QED
  BY <1>1, <1>2, <1>7, DiskKept, InstallInvNext, Zenon

--------------------------------------------------------------------------------
\* The steps of an operation that puts something into the tree.

LEMMA ClusterRange ==
    ASSUME NEW j, j \in 1 .. 7
    PROVE  /\ Cluster(j) \in Clusters /\ Cluster(j) \in Entries
           /\ Cluster(j) = j + 1 /\ Cluster(j - 1) = j /\ j # 0
           /\ Cluster(j) + 1 <= MaxCluster
           /\ 2 .. Cluster(j) \subseteq Entries
  BY Fat16Assumption, InstallAssumption DEF Cluster, Clusters, Entries

\* To mark x is to go on to the next.
LEMMA FatUpToNext ==
    ASSUME NEW x \in Entries
    PROVE  /\ [FatUpTo(x) EXCEPT ![x] = EOC] = FatUpTo(x + 1)
           /\ [FatUpTo(x + 1) EXCEPT ![x] = EOC] = FatUpTo(x + 1)
<1>1. x \in Nat /\ \A y \in Entries : y \in Nat
  BY Fat16Assumption DEF Entries
<1>2. ASSUME NEW y \in Entries
      PROVE  (IF y = x THEN EOC ELSE IF y < x THEN EOC ELSE 0) = IF y < x + 1 THEN EOC ELSE 0
  BY <1>1
<1>3. ASSUME NEW y \in Entries
      PROVE  (IF y = x THEN EOC ELSE IF y < x + 1 THEN EOC ELSE 0) = IF y < x + 1 THEN EOC ELSE 0
  BY <1>1
<1>4. [FatUpTo(x) EXCEPT ![x] = EOC] =
      [y \in Entries |-> IF y = x THEN EOC ELSE IF y < x THEN EOC ELSE 0]
  BY DEF FatUpTo
<1>5. [FatUpTo(x + 1) EXCEPT ![x] = EOC] =
      [y \in Entries |-> IF y = x THEN EOC ELSE IF y < x + 1 THEN EOC ELSE 0]
  BY DEF FatUpTo
<1>6. [y \in Entries |-> IF y = x THEN EOC ELSE IF y < x THEN EOC ELSE 0] = FatUpTo(x + 1)
  BY ONLY <1>2 DEF FatUpTo
<1>7. [y \in Entries |-> IF y = x THEN EOC ELSE IF y < x + 1 THEN EOC ELSE 0] = FatUpTo(x + 1)
  BY ONLY <1>3 DEF FatUpTo
<1>. QED
  BY <1>4, <1>5, <1>6, <1>7, Zenon

LEMMA JobKept ==
    ASSUME NEW o, NEW p, NEW j, Job(o, j), p.at \in {"scan", "mark", "data", "entry"},
           p.kind = o.kind, p.parts = o.parts, p.dir = o.dir
    PROVE  Job(p, j)
  BY Zenon DEF Job

\* What the invariant of the volume says of the operation under way.
LEMMA JobFacts ==
    ASSUME Fat16Inv, ~err, NEW j, j \in 1 .. 7, Job(op, j)
    PROVE  /\ op \in CreateOp /\ op.copy \in Copies /\ op.parts = 1
           /\ op.at = "entry" => AtEntry(op, fat[1], data)
           /\ DiskType(fat, root, data, files)
           /\ fat \in [Copies -> [Entries -> Values]]
<1>1. op.at \in {"scan", "mark", "data", "entry"} /\ op.parts = 1
  BY Zenon DEF Job
<1>2. /\ Started(op, fat[1], data, ListedIn(root, data), DirsOf(root), files)
      /\ op.at = "entry" => AtEntry(op, fat[1], data)
  BY <1>1, CreatingAt
<1>3. op \in CreateOp
  BY <1>2, Zenon DEF Started
<1>4. op.copy \in Copies
  BY <1>3 DEF CreateOp
<1>5. DiskType(fat, root, data, files) /\ fat \in [Copies -> [Entries -> Values]]
  BY Zenon DEF Fat16Inv, DiskInv, DiskSound, DiskType
<1>. QED
  BY <1>1, <1>2, <1>3, <1>4, <1>5

LEMMA ScanUnderway ==
    ASSUME SlowDrive = FALSE, Fat16Inv, ~err, ~err', NEW j, j \in 1 .. 7,
           Job(op, j), TreeUpTo(root, data, j - 1), Scanning(op, fat, j), ScanFat
    PROVE  Underway(op', fat', root', data', j)
<1>1. /\ op \in CreateOp /\ op.then = "first" /\ op.written = 0
      /\ op.target \in 2 .. Cluster(j) /\ BothUpTo(fat, Cluster(j)) /\ op.at = "scan"
  BY JobFacts, Zenon DEF Scanning
<1>2. PICK value \in Values :
        /\ ReadEntry(op.target, value)
        /\ op' = IF value = 0 THEN Mark(op, op.target, EOC, op.then) ELSE ScanOn
  BY Zenon DEF ScanFat
<1>3. PICK t : t = op.target
  OBVIOUS
<1>4. t \in Entries /\ Cluster(j) + 1 <= MaxCluster /\ t \in 2 .. Cluster(j) /\ Cluster(j) = j + 1
  BY <1>1, <1>3, ClusterRange
<1>5. value = fat[1][t]
  BY <1>2, <1>3, <1>4, DriveAnswers, Zenon DEF ReadEntry
<1>6. value = IF t < Cluster(j) THEN EOC ELSE 0
  <2>1. value = FatUpTo(Cluster(j))[t]
    BY <1>1, <1>5, Zenon DEF BothUpTo
  <2>. QED
    BY <1>4, <2>1 DEF FatUpTo
<1>7. fat' = fat /\ root' = root /\ data' = data
  BY DEF ScanFat, disk
<1>8. CASE t < Cluster(j)
  <2>1. value # 0 /\ op.target + 1 < MaxCluster
    <3>1. value # 0
      BY <1>6, <1>8, Numbers, Zenon
    <3>2. PICK x : x = Cluster(j)
      OBVIOUS
    <3>3. x \in Nat /\ t \in Nat /\ MaxCluster \in Nat
      BY <1>4, <3>2, Fat16Assumption
    <3>4. x + 1 <= MaxCluster /\ t < x
      BY <1>4, <1>8, <3>2, Zenon
    <3>5. t + 1 < MaxCluster
      BY ONLY <3>3, <3>4
    <3>. QED
      BY <1>3, <3>1, <3>5, Zenon
  <2>2. op' = [op EXCEPT !.target = @ + 1]
    BY <1>2, <2>1, Zenon DEF ScanOn
  <2>3. PICK p : p = [op EXCEPT !.target = @ + 1]
    OBVIOUS
  <2>4. /\ SameJob(op, p) /\ p.at = "scan" /\ p.target = t + 1 /\ p.then = "first"
    BY <1>1, <1>3, <2>3, NextTargetFields, Zenon
  <2>5. t + 1 \in 2 .. Cluster(j)
    BY <1>4, <1>8
  <2>6. Job(p, j) /\ p.written = 0
    BY <1>1, <2>4, JobKept, Zenon DEF SameJob
  <2>7. Scanning(p, fat, j)
    BY <1>1, <2>4, <2>5, <2>6, Zenon DEF Scanning
  <2>. QED
    BY <1>7, <2>2, <2>3, <2>6, <2>7, Zenon DEF Underway
<1>9. CASE ~(t < Cluster(j))
  <2>1. t = Cluster(j) /\ value = 0
    BY <1>4, <1>6, <1>9
  <2>2. PICK p : p = Mark(op, op.target, EOC, op.then)
    OBVIOUS
  <2>3. op.target \in Nat /\ EOC \in Nat /\ op.then \in {"first", "next", "linked", "last"}
    BY <1>1, Numbers DEF CreateOp
  <2>4. /\ SameJob(op, p) /\ p.at = "mark" /\ p.copy = 1
        /\ p.target = t /\ p.value = EOC /\ p.then = "first"
    BY <1>1, <1>3, <2>2, <2>3, MarkFields
  <2>5. Job(p, j) /\ p.written = 0
    BY <1>1, <2>4, JobKept, Zenon DEF SameJob
  <2>6. Marking(p, fat, j)
    BY <1>1, <2>1, <2>4, <2>5, Zenon DEF Marking, BothUpTo
  <2>. QED
    BY <1>2, <1>7, <2>1, <2>2, <2>5, <2>6, Zenon DEF Underway
<1>. QED
  BY <1>8, <1>9

LEMMA MarkUnderway ==
    ASSUME SlowDrive = FALSE, Fat16Inv, ~err, ~err', NEW j, j \in 1 .. 7,
           Job(op, j), TreeUpTo(root, data, j - 1),
           Marking(op, fat, j) \/ Filling(op, fat, j), WriteFat
    PROVE  Underway(op', fat', root', data', j)
<1>1. /\ op.at = "mark" /\ root' = root /\ data' = data
      /\ op' = IF op.copy = 1 THEN [op EXCEPT !.copy = 2] ELSE AfterMark(op)
      /\ fat' = [fat EXCEPT ![op.copy][op.target] = op.value]
  BY DriveAnswers, Zenon DEF WriteFat, CopyOf
<1>2. /\ op \in CreateOp /\ op.copy \in Copies /\ fat \in [Copies -> [Entries -> Values]]
  BY JobFacts, Zenon
<1>3. PICK x : x = Cluster(j)
  OBVIOUS
<1>4. x \in Entries
  BY <1>3, ClusterRange, Zenon
<1>5. op.target = x /\ op.value = EOC
  BY <1>1, <1>3 DEF Marking, Filling
<1>6. fat' = [fat EXCEPT ![op.copy][x] = EOC]
  BY <1>1, <1>5, Zenon
<1>7. /\ op.copy = 1 => fat'[1] = [fat[1] EXCEPT ![x] = EOC] /\ fat'[2] = fat[2]
      /\ op.copy = 2 => fat'[2] = [fat[2] EXCEPT ![x] = EOC] /\ fat'[1] = fat[1]
  <2>1. PICK v, c : v = EOC /\ c = op.copy
    OBVIOUS
  <2>2. PICK F, G : F = fat /\ G = fat'
    OBVIOUS
  <2>3. G = [F EXCEPT ![c][x] = v] /\ F \in [Copies -> [Entries -> Values]]
    BY <1>2, <1>6, <2>1, <2>2, Zenon
  <2>4. /\ c = 1 => G[1] = [F[1] EXCEPT ![x] = v] /\ G[2] = F[2]
        /\ c = 2 => G[2] = [F[2] EXCEPT ![x] = v] /\ G[1] = F[1]
    BY ONLY <2>3 DEF Copies
  <2>. QED
    BY <2>1, <2>2, <2>4, Zenon
<1>8. /\ [FatUpTo(x) EXCEPT ![x] = EOC] = FatUpTo(x + 1)
      /\ [FatUpTo(x + 1) EXCEPT ![x] = EOC] = FatUpTo(x + 1)
  BY <1>4, FatUpToNext, Zenon
<1>9. op.copy = 1 \/ op.copy = 2
  BY <1>2 DEF Copies
<1>10. ASSUME op.copy = 1, NEW p, p = [op EXCEPT !.copy = 2]
       PROVE  /\ op' = p /\ SameJob(op, p) /\ p.copy = 2 /\ p.at = "mark" /\ Job(p, j)
              /\ p.target = op.target /\ p.value = op.value /\ p.then = op.then
  <2>1. /\ SameJob(op, p) /\ p.copy = 2 /\ p.at = op.at
        /\ p.target = op.target /\ p.value = op.value /\ p.then = op.then
    BY <1>2, <1>10, SecondCopyFields, Zenon
  <2>2. p.at \in {"scan", "mark", "data", "entry"}
    BY <1>1, <2>1
  <2>. QED
    BY <1>1, <1>10, <2>1, <2>2, JobKept, Zenon DEF SameJob
<1>11. CASE Marking(op, fat, j)
  <2>1. /\ op.then = "first" /\ op.written = 0
        /\ fat[1] = FatUpTo(IF op.copy = 1 THEN x ELSE x + 1) /\ fat[2] = FatUpTo(x)
    BY <1>3, <1>11, Zenon DEF Marking
  <2>2. CASE op.copy = 1
    <3>1. fat'[1] = FatUpTo(x + 1) /\ fat'[2] = FatUpTo(x)
      BY <1>7, <1>8, <2>1, <2>2, Zenon
    <3>2. PICK p : p = [op EXCEPT !.copy = 2]
      OBVIOUS
    <3>3. /\ op' = p /\ SameJob(op, p) /\ p.copy = 2 /\ p.at = "mark" /\ Job(p, j)
          /\ p.target = op.target /\ p.value = op.value /\ p.then = op.then
      BY <1>10, <2>2, <3>2
    <3>4. p.copy # 1 /\ p.written = 0
      BY <2>1, <3>3 DEF SameJob
    <3>5. Marking(p, fat', j)
      BY <1>3, <1>5, <2>1, <3>1, <3>3, <3>4, Zenon DEF Marking
    <3>. QED
      BY <1>1, <3>3, <3>5, Zenon DEF Underway
  <2>3. CASE op.copy = 2
    <3>1. op.copy # 1
      BY <2>3
    <3>2. fat'[1] = FatUpTo(x + 1) /\ fat'[2] = FatUpTo(x + 1)
      BY <1>7, <1>8, <2>1, <2>3, <3>1, Zenon
    <3>3. PICK p : p = AfterMark(op)
      OBVIOUS
    <3>4. /\ p.at = "data" /\ p.kind = op.kind /\ p.parts = op.parts /\ p.dir = op.dir
          /\ p.first = op.target /\ p.cluster = op.target /\ p.written = op.written
      BY <1>2, <2>1, <3>3, AfterMarkFirst, Zenon
    <3>5. Job(p, j)
      BY <3>4, JobKept, Zenon
    <3>6. Filling(p, fat', j)
      BY <1>3, <1>5, <2>1, <3>2, <3>4, Zenon DEF Filling, BothUpTo
    <3>. QED
      BY <1>1, <3>1, <3>3, <3>5, <3>6, Zenon DEF Underway
  <2>. QED
    BY <1>9, <2>2, <2>3
<1>12. CASE Filling(op, fat, j)
  <2>1. /\ op.then = "last" /\ op.written = 1 /\ op.first = x
        /\ fat[1] = FatUpTo(x + 1) /\ fat[2] = FatUpTo(x + 1)
    BY <1>1, <1>3, <1>12 DEF Filling, BothUpTo
  <2>2. fat'[1] = FatUpTo(x + 1) /\ fat'[2] = FatUpTo(x + 1)
    BY <1>7, <1>8, <1>9, <2>1, Zenon
  <2>3. CASE op.copy = 1
    <3>1. PICK p : p = [op EXCEPT !.copy = 2]
      OBVIOUS
    <3>2. /\ op' = p /\ SameJob(op, p) /\ p.at = "mark" /\ Job(p, j)
          /\ p.target = op.target /\ p.value = op.value /\ p.then = op.then
      BY <1>10, <2>3, <3>1
    <3>3. Filling(p, fat', j)
      BY <1>3, <1>5, <2>1, <2>2, <3>2, Zenon DEF Filling, BothUpTo, SameJob
    <3>. QED
      BY <1>1, <3>2, <3>3, Zenon DEF Underway
  <2>4. CASE op.copy = 2
    <3>1. op.copy # 1
      BY <2>4
    <3>2. PICK p : p = AfterMark(op)
      OBVIOUS
    <3>3. p.at = "entry" /\ SameJob(op, p)
      BY <1>2, <2>1, <3>2, AfterMarkLast, Zenon
    <3>4. Job(p, j)
      BY <3>3, JobKept, Zenon DEF SameJob
    <3>5. Filling(p, fat', j)
      BY <1>3, <2>1, <2>2, <3>3, Zenon DEF Filling, BothUpTo, SameJob
    <3>. QED
      BY <1>1, <3>1, <3>2, <3>4, <3>5, Zenon DEF Underway
  <2>. QED
    BY <1>9, <2>3, <2>4
<1>. QED
  BY <1>11, <1>12

\* Where the operation leads when its cluster has been written.
LEMMA Firsts ==
    /\ First(1) = 2 /\ First(2) = 3 /\ First(3) = 5 /\ First(4) = 7
    /\ \A i \in 1 .. 4 : First(i) \in Nat /\ First(i) \in Clusters
  BY Fat16Assumption, InstallAssumption DEF First, Clusters

LEMMA TreeApart ==
    ASSUME NEW j, j \in 1 .. 7, NEW r, NEW d, NEW d2, TreeUpTo(r, d, j - 1),
           \A y \in Clusters : y # Cluster(j) => d2[y] = d[y]
    PROVE  TreeUpTo(r, d2, j - 1)
<1>1. PICK n : n = Len(r)
  OBVIOUS
<1>2. ASSUME NEW i \in 1 .. n PROVE d2[First(i)] = d[First(i)]
  <2>1. i \in 1 .. 4 /\ i <= n
    BY <1>1 DEF TreeUpTo
  <2>2. First(i) <= Cluster(j - 1) /\ First(i) \in Nat /\ First(i) \in Clusters
    BY <1>1, <2>1, Firsts, Zenon DEF TreeUpTo
  <2>3. First(i) # Cluster(j)
    BY <2>2 DEF Cluster
  <2>. QED
    BY <2>2, <2>3
<1>. QED
  BY <1>1, <1>2, Zenon DEF TreeUpTo

LEMMA DataUnderway ==
    ASSUME SlowDrive = FALSE, Fat16Inv, ~err, ~err', NEW j, j \in 1 .. 7,
           Job(op, j), TreeUpTo(root, data, j - 1), Filling(op, fat, j), WriteCluster
    PROVE  Underway(op', fat', root', data', j)
<1>1. op.at = "data" /\ fat' = fat /\ root' = root
  BY Zenon DEF WriteCluster
<1>2. /\ op.cluster \in Clusters /\ op' = AfterData
      /\ data' = [data EXCEPT ![op.cluster] = Content]
  BY DriveAnswers, Zenon DEF WriteCluster
<1>3. PICK x : x = Cluster(j)
  OBVIOUS
<1>4. op.cluster = x /\ op.first = x /\ op.written = 0 /\ BothUpTo(fat, x + 1)
  BY <1>1, <1>3 DEF Filling
<1>5. /\ op \in CreateOp /\ op.parts = 1 /\ data \in [Clusters -> ClusterRec]
      /\ op.kind = "dir" => op.parts = 1
  BY JobFacts, Zenon DEF DiskType
<1>6. TreeUpTo(root, data', j - 1)
  <2>1. PICK d2 : d2 = data'
    OBVIOUS
  <2>2. \A y \in Clusters : y # x => d2[y] = data[y]
    BY <1>2, <1>4, <1>5, <2>1
  <2>. QED
    BY <1>3, <2>1, <2>2, TreeApart, Zenon
<1>7. PICK p : p = AfterData
  OBVIOUS
<1>8. op.written < op.parts /\ op.written + 1 = 1
  BY <1>4, <1>5
<1>9. /\ OneMore(op, p)
      /\ \/ p.at = "entry"
         \/ /\ p.at = "mark" /\ p.target = op.cluster
            /\ p.value = EOC /\ p.then = "last"
  <2>1. ~(op.written + 1 < op.parts)
    BY <1>4, <1>5
  <2>. QED
    BY <1>5, <1>7, <1>8, <2>1, AfterDataFields, Zenon
<1>10. p.at \in {"scan", "mark", "data", "entry"}
  BY <1>9
<1>11. Job(p, j)
  BY <1>9, <1>10, JobKept, Zenon DEF OneMore
<1>12. Filling(p, fat, j)
  BY <1>3, <1>4, <1>8, <1>9, Zenon DEF Filling, OneMore
<1>. QED
  BY <1>1, <1>2, <1>6, <1>7, <1>11, <1>12, Zenon DEF Underway

\* The entry of a new directory is put into the root.
LEMMA NewDirectory ==
    ASSUME NEW j, j \in 1 .. 7, MakesDirectory(j), NEW r, NEW d,
           r \in Seq(EntryRec), TreeUpTo(r, d, j - 1), NEW e,
           e.kind = "dir", e.parts = 1, e.first = Cluster(j),
           d[Cluster(j)].entries = <<>>, e \in EntryRec, NEW s, s = Append(r, e)
    PROVE  Len(r) < 4 /\ TreeUpTo(s, d, j)
<1>1. PICK n : n = Len(r)
  OBVIOUS
<1>2. /\ n \in Nat /\ n <= 4 /\ Cluster(j - 1) = j /\ Cluster(j) = j + 1
      /\ \A i \in 1 .. 4 : i <= n <=> First(i) <= j
  <2>1. n \in Nat /\ Cluster(j - 1) = j /\ Cluster(j) = j + 1
    BY <1>1 DEF Cluster
  <2>. QED
    BY <1>1, <2>1, Zenon DEF TreeUpTo
<1>3. /\ n < 4 /\ n + 1 \in 1 .. 4 /\ First(n + 1) = j + 1
      /\ \A i \in 1 .. 4 : i <= n + 1 <=> First(i) <= j + 1
      /\ \A i \in 2 .. 4 : First(i) # j
  <2>1. \A i \in 1 .. 4 : i = 1 \/ i = 2 \/ i = 3 \/ i = 4
    OBVIOUS
  <2>2. CASE j = 1
    <3>1. n = 0
      BY <1>2, <2>2, Firsts
    <3>. QED
      BY <2>1, <2>2, <3>1, Firsts
  <2>3. CASE j = 2
    <3>1. n = 1
      BY <1>2, <2>3, Firsts
    <3>. QED
      BY <2>1, <2>3, <3>1, Firsts
  <2>4. CASE j = 4
    <3>1. n = 2
      BY <1>2, <2>4, Firsts
    <3>. QED
      BY <2>1, <2>4, <3>1, Firsts
  <2>5. CASE j = 6
    <3>1. n = 3
      BY <1>2, <2>5, Firsts
    <3>. QED
      BY <2>1, <2>5, <3>1, Firsts
  <2>. QED
    BY <2>2, <2>3, <2>4, <2>5 DEF MakesDirectory
<1>4. Len(s) = n + 1 /\ s[n + 1] = e /\ \A i \in 1 .. n : s[i] = r[i]
  BY <1>1
<1>5. ASSUME NEW i \in 1 .. n PROVE Settled(s[i], d[First(i)].entries, i, j)
  <2>1. Settled(r[i], d[First(i)].entries, i, j - 1) /\ s[i] = r[i]
    BY <1>1, <1>4, Zenon DEF TreeUpTo
  <2>2. i > 1 => (First(i) <= j <=> First(i) <= j - 1)
    <3>1. i \in 1 .. 4 /\ (i > 1 => i \in 2 .. 4)
      BY ONLY <1>2, i \in 1 .. n
    <3>2. First(i) \in Nat /\ (i > 1 => First(i) # j)
      BY <1>3, <3>1, Firsts, Zenon
    <3>3. PICK y : y = First(i)
      OBVIOUS
    <3>4. y \in Nat /\ y # j => (y <= j <=> y <= j - 1)
      BY ONLY j \in 1 .. 7
    <3>. QED
      BY <3>2, <3>3, <3>4, Zenon
  <2>. QED
    BY <2>1, <2>2, Zenon DEF Settled
<1>6. Settled(s[n + 1], d[First(n + 1)].entries, n + 1, j)
  <2>1. ~(First(n + 1) <= j)
    BY <1>3
  <2>2. s[n + 1] = e /\ First(n + 1) = Cluster(j)
    BY <1>2, <1>3, <1>4, Zenon
  <2>. QED
    BY <2>1, <2>2, Zenon DEF Settled
<1>7. \A i \in 1 .. Len(s) : Settled(s[i], d[First(i)].entries, i, j)
  <2>1. \A i \in 1 .. Len(s) : i \in 1 .. n \/ i = n + 1
    BY <1>2, <1>4
  <2>. QED
    BY <1>5, <1>6, <2>1, Zenon
<1>8. Len(s) <= 4 /\ Len(r) < 4
  BY <1>1, <1>3, <1>4
<1>. QED
  BY <1>2, <1>3, <1>4, <1>7, <1>8, Zenon DEF TreeUpTo

\* The entry of a file is put into its directory.
LEMMA NewFile ==
    ASSUME NEW j, j \in 1 .. 7, ~MakesDirectory(j), NEW r, NEW d, NEW d2,
           r \in Seq(EntryRec), TreeUpTo(r, d, j - 1), NEW e,
           e.kind = "file", e.parts = 1, e.first = Cluster(j),
           d[j].entries = <<>> => Len(d2[j].entries) = 1 /\ d2[j].entries[1] = e,
           \A y \in Clusters : y # j => d2[y] = d[y]
    PROVE  d[j].entries = <<>> /\ TreeUpTo(r, d2, j)
<1>1. PICK n : n = Len(r)
  OBVIOUS
<1>2. /\ n \in Nat /\ n <= 4 /\ Cluster(j - 1) = j /\ Cluster(j) = j + 1
      /\ \A i \in 1 .. 4 : i <= n <=> First(i) <= j
  <2>1. n \in Nat /\ Cluster(j - 1) = j /\ Cluster(j) = j + 1
    BY <1>1 DEF Cluster
  <2>. QED
    BY <1>1, <2>1, Zenon DEF TreeUpTo
<1>3. PICK k \in 2 .. n : First(k) = j
  BY <1>1, FilesDirectory, Zenon
<1>4. /\ \A i \in 1 .. 4 : First(i) = j => i = k
      /\ \A i \in 1 .. 4 : First(i) # j + 1
  <2>1. \A i \in 1 .. 4 : i = 1 \/ i = 2 \/ i = 3 \/ i = 4
    OBVIOUS
  <2>2. k \in 1 .. 4
    BY <1>2, <1>3
  <2>3. j = 3 \/ j = 5 \/ j = 7
    BY DEF MakesDirectory
  <2>. QED
    BY <1>3, <2>1, <2>2, <2>3, Firsts
<1>5. k \in 1 .. n /\ k > 1 /\ ~(First(k) <= j - 1) /\ First(k) <= j
  BY <1>2, <1>3
<1>6. d[j].entries = <<>>
  <2>1. Settled(r[k], d[First(k)].entries, k, j - 1)
    BY <1>1, <1>5, Zenon DEF TreeUpTo
  <2>. QED
    BY <1>3, <1>5, <2>1, Zenon DEF Settled
<1>7. ASSUME NEW i \in 1 .. n PROVE Settled(r[i], d2[First(i)].entries, i, j)
  <2>1. Settled(r[i], d[First(i)].entries, i, j - 1) /\ i \in 1 .. 4
    BY <1>1, <1>2, <1>7 DEF TreeUpTo
  <2>2. CASE i = k
    <3>1. Len(d2[First(i)].entries) = 1 /\ d2[First(i)].entries[1] = e
      BY <1>3, <1>6, <2>2, Zenon
    <3>2. FileOf(e, i)
      BY <1>2, <1>3, <2>2, Zenon DEF FileOf
    <3>. QED
      BY <1>5, <2>1, <2>2, <3>1, <3>2, Zenon DEF Settled
  <2>3. CASE i # k
    <3>1. First(i) # j /\ First(i) \in Nat /\ First(i) \in Clusters
      BY <1>4, <2>1, <2>3, Firsts, Zenon
    <3>2. d2[First(i)] = d[First(i)]
      BY <3>1, Zenon
    <3>3. First(i) <= j <=> First(i) <= j - 1
      BY <3>1
    <3>. QED
      BY <2>1, <3>2, <3>3, Zenon DEF Settled
  <2>. QED
    BY <2>2, <2>3
<1>8. \A i \in 1 .. 4 : i <= n <=> First(i) <= j + 1
  <2>1. ASSUME NEW i \in 1 .. 4 PROVE First(i) <= j <=> First(i) <= j + 1
    <3>1. First(i) \in Nat /\ First(i) # j + 1
      BY <1>4, Firsts, Zenon
    <3>. QED
      BY <3>1
  <2>. QED
    BY <1>2, <2>1, Zenon
<1>9. TreeUpTo(r, d2, j)
  BY <1>1, <1>2, <1>7, <1>8, Zenon DEF TreeUpTo
<1>. QED
  BY <1>6, <1>9, Zenon

\* What an operation returns.
LEMMA ReturnsFields ==
    ASSUME NEW p, p = Returns(1, TRUE)
    PROVE  /\ p.at = "returned" /\ p.ret = 1 /\ p.kind = op.kind
           /\ p.first = IF op.kind = "dir" THEN op.first ELSE 0
<1>1. PICK kind, first : kind = op.kind /\ first = (IF op.kind = "dir" THEN op.first ELSE 0)
  OBVIOUS
<1>2. p = [at |-> "returned", kind |-> kind, ret |-> 1, good |-> TRUE, first |-> first]
  BY <1>1, Zenon DEF Returns, Result
<1>3. p.at = "returned" /\ p.ret = 1 /\ p.kind = kind /\ p.first = first
  BY ONLY <1>2
<1>. QED
  BY <1>1, <1>3, Zenon

LEMMA EntryUnderway ==
    ASSUME SlowDrive = FALSE, Fat16Inv, ~err, ~err', NEW j, j \in 1 .. 7,
           Job(op, j), TreeUpTo(root, data, j - 1), Filling(op, fat, j), WriteDirEntry
    PROVE  Underway(op', fat', root', data', j)
<1>1. op.at = "entry" /\ fat' = fat
  BY Zenon DEF WriteDirEntry
<1>2. /\ op \in CreateOp /\ op.parts = 1 /\ AtEntry(op, fat[1], data)
      /\ data \in [Clusters -> ClusterRec] /\ root \in Seq(EntryRec)
  BY <1>1, JobFacts, Zenon DEF DiskType
<1>3. op.first = Cluster(j) /\ BothUpTo(fat, Cluster(j) + 1)
  BY <1>1, Zenon DEF Filling
<1>4. PICK e : e = NewEntry
  OBVIOUS
<1>5. /\ e.kind = op.kind /\ e.first = Cluster(j) /\ e.parts = 1 /\ e \in EntryRec
  BY <1>2, <1>3, <1>4 DEF NewEntry, CreateOp, EntryRec
<1>6. \/ op' = Returns(1, TRUE) /\ op.dir = 0 /\ root' = Append(root, e) /\ data' = data
      \/ /\ op' = Returns(1, TRUE) /\ op.dir # 0 /\ root' = root
         /\ data' = [data EXCEPT ![op.dir].entries = Append(@, e)]
      \/ ~HasRoom(op.dir) /\ root' = root /\ data' = data
  BY <1>4, DriveAnswers, Zenon DEF WriteDirEntry
<1>7. PICK p : p = Returns(1, TRUE)
  OBVIOUS
<1>8. /\ p.at = "returned" /\ p.ret = 1 /\ p.kind = op.kind
      /\ p.first = IF op.kind = "dir" THEN op.first ELSE 0
  BY <1>7, ReturnsFields
<1>9. ASSUME op' = Returns(1, TRUE), TreeUpTo(root', data', j)
      PROVE  Underway(op', fat', root', data', j)
  <2>1. IF MakesDirectory(j) THEN p.kind = "dir" /\ p.first = Cluster(j)
                             ELSE p.kind = "file"
    BY <1>3, <1>8, Zenon DEF Job
  <2>. QED
    BY <1>1, <1>3, <1>7, <1>8, <1>9, <2>1, Zenon DEF Underway, Done, Laid
<1>10. CASE MakesDirectory(j)
  <2>1. op.kind = "dir" /\ op.dir = 0
    BY <1>10, Zenon DEF Job
  <2>2. data[Cluster(j)].entries = <<>>
    BY <1>2, <1>3, <2>1, Zenon DEF AtEntry
  <2>3. PICK s : s = Append(root, e)
    OBVIOUS
  <2>4. Len(root) < 4 /\ TreeUpTo(s, data, j)
    BY <1>2, <1>5, <1>10, <2>1, <2>2, <2>3, NewDirectory, Zenon
  <2>5. HasRoom(op.dir)
    BY <1>2, <2>1, <2>4, InstallAssumption, Fat16Assumption DEF HasRoom
  <2>6. op' = Returns(1, TRUE) /\ TreeUpTo(root', data', j)
    BY <1>6, <2>1, <2>3, <2>4, <2>5, Zenon
  <2>. QED
    BY <1>9, <2>6, Zenon
<1>11. CASE ~MakesDirectory(j)
  <2>1. op.kind = "file" /\ op.dir = j /\ j # 0
    BY <1>11, ClusterRange, Zenon DEF Job
  <2>2. j \in Clusters
    BY <1>11, Fat16Assumption, InstallAssumption DEF Clusters, MakesDirectory
  <2>3. PICK d2 : d2 = [data EXCEPT ![j].entries = Append(@, e)]
    OBVIOUS
  <2>4. \A y \in Clusters : y # j => d2[y] = data[y]
    BY <1>2, <2>2, <2>3
  <2>5. data[j].entries = <<>> => Len(d2[j].entries) = 1 /\ d2[j].entries[1] = e
    <3>1. d2[j].entries = Append(data[j].entries, e)
      BY <1>2, <2>2, <2>3 DEF ClusterRec
    <3>. QED
      BY <3>1
  <2>6. data[j].entries = <<>> /\ TreeUpTo(root, d2, j)
    <3>1. e.kind = "file" /\ e.parts = 1 /\ e.first = Cluster(j)
      BY <1>5, <2>1, Zenon
    <3>2. TreeUpTo(root, data, j - 1)
      OBVIOUS
    <3>. QED
      BY <1>2, <1>11, <2>4, <2>5, <3>1, <3>2, NewFile
  <2>7. HasRoom(op.dir)
    <3>1. Len(data[j].entries) < DirSlots
      BY <2>6, InstallAssumption, Fat16Assumption
    <3>. QED
      BY <2>1, <3>1, Zenon DEF HasRoom
  <2>8. op' = Returns(1, TRUE) /\ TreeUpTo(root', data', j)
    BY <1>6, <2>1, <2>3, <2>6, <2>7, Zenon
  <2>. QED
    BY <1>9, <2>8, Zenon
<1>. QED
  BY <1>10, <1>11

\* An operation that reads changes nothing on the disk.
LEMMA PassiveProceeds ==
    ASSUME Passive(op), Proceeds, op.at # "returned"
    PROVE  UNCHANGED <<disk, files>> /\ err' \in BOOLEAN /\ Passive(op')
<1>1. op.at \in {"idle", "read", "follow"}
  BY DEF Passive, ReadsOn, Idle
<1>2. ReadCluster \/ FollowChain
  BY <1>1 DEF Proceeds, ScanFat, WriteFat, WriteCluster, WriteDirEntry, Return
<1>3. op.at \in {"read", "follow"}
  BY <1>2, Zenon DEF ReadCluster, FollowChain
<1>4. ReadsOn(op)
  BY <1>3 DEF Passive, Idle
<1>5. /\ UNCHANGED <<disk, files>> /\ err' \in BOOLEAN
  BY <1>2 DEF ReadCluster, FollowChain, ReadEntry, Answers, Refuses
<1>6. PICK place, id, parts, cluster, done, good :
        op = [at |-> place, kind |-> "read", id |-> id, parts |-> parts,
              cluster |-> cluster, done |-> done, good |-> good]
  BY <1>4, Zenon DEF ReadsOn, ReadFields
<1>7. op.kind = "read"
  BY ONLY <1>6
<1>8. ASSUME NEW ret, NEW ok PROVE Passive(Returns(ret, ok))
  <2>1. PICK first : first = IF op.kind = "dir" THEN op.first ELSE 0
    OBVIOUS
  <2>2. PICK p : p = Returns(ret, ok)
    OBVIOUS
  <2>3. p = [at |-> "returned", kind |-> "read", ret |-> ret, good |-> ok, first |-> first]
    BY <1>7, <2>1, <2>2, Zenon DEF Returns, Result
  <2>4. p.at = "returned" /\ p.kind = "read"
    BY ONLY <2>3
  <2>. QED
    BY <2>2, <2>4, Zenon DEF Passive
<1>9. ASSUME NEW p, NEW c, NEW n, NEW g, NEW at \in {"read", "follow"},
             p = [op EXCEPT !.done = n, !.good = g, !.cluster = c, !.at = at]
      PROVE  Passive(p)
  <2>1. p = [at |-> at, kind |-> "read", id |-> id, parts |-> parts,
             cluster |-> c, done |-> n, good |-> g]
    BY ONLY <1>6, <1>9
  <2>2. /\ p.at = at /\ p.id = id /\ p.parts = parts
        /\ p.cluster = c /\ p.done = n /\ p.good = g
    BY ONLY <2>1
  <2>. QED
    BY <2>1, <2>2, Zenon DEF Passive, ReadsOn, ReadFields
<1>10. CASE ReadCluster
  <2>1. ASSUME NEW g, op' = [op EXCEPT !.done = @ + 1, !.good = g, !.at = "follow"]
        PROVE  Passive(op')
    <3>1. PICK p : p = op'
      OBVIOUS
    <3>2. PICK n, c : n = op.done + 1 /\ c = op.cluster
      OBVIOUS
    <3>3. p = [op EXCEPT !.done = @ + 1, !.good = g, !.at = "follow"]
      BY <2>1, <3>1
    <3>4. p = [op EXCEPT !.done = n, !.good = g, !.cluster = c, !.at = "follow"]
      BY ONLY <1>6, <3>2, <3>3
    <3>5. Passive(p)
      BY <1>9, <3>4
    <3>. QED
      BY <3>1, <3>5, Zenon
  <2>2. \/ \E ret, ok : op' = Returns(ret, ok)
        \/ \E g : op' = [op EXCEPT !.done = @ + 1, !.good = g, !.at = "follow"]
    BY <1>10, Zenon DEF ReadCluster
  <2>. QED
    BY <1>5, <1>8, <2>1, <2>2, Zenon
<1>11. CASE FollowChain
  <2>1. ASSUME NEW c, op' = [op EXCEPT !.cluster = c, !.at = "read"]
        PROVE  Passive(op')
    <3>1. PICK p : p = op'
      OBVIOUS
    <3>2. PICK n, g : n = op.done /\ g = op.good
      OBVIOUS
    <3>3. p = [op EXCEPT !.cluster = c, !.at = "read"]
      BY <2>1, <3>1
    <3>4. p = [op EXCEPT !.done = n, !.good = g, !.cluster = c, !.at = "read"]
      BY ONLY <1>6, <3>2, <3>3
    <3>5. Passive(p)
      BY <1>9, <3>4
    <3>. QED
      BY <3>1, <3>5, Zenon
  <2>2. \/ \E ret, ok : op' = Returns(ret, ok)
        \/ \E c : op' = [op EXCEPT !.cluster = c, !.at = "read"]
    BY <1>11, Zenon DEF FollowChain, GoesTo
  <2>. QED
    BY <1>5, <1>8, <2>1, <2>2, Zenon
<1>. QED
  BY <1>2, <1>10, <1>11

\* A step of one of the operations of an installation.
LEMMA UnderwayProceeds ==
    ASSUME SlowDrive = FALSE, Fat16Inv, ~err', NEW j, j \in 1 .. 7,
           ~err => Underway(op, fat, root, data, j), Proceeds, op.at # "returned"
    PROVE  Underway(op', fat', root', data', j)
<1>1. ~err
  <2>1. \/ Answers \/ Refuses \/ LosesWrite \/ (op.at = "returned")
    BY Zenon DEF Proceeds, ScanFat, ReadEntry, WriteFat, WriteCluster, WriteDirEntry,
                 ReadCluster, FollowChain, Return
  <2>. QED
    BY <2>1, DriveAnswers, Zenon
<1>2. /\ Job(op, j) /\ TreeUpTo(root, data, j - 1)
      /\ Scanning(op, fat, j) \/ Marking(op, fat, j) \/ Filling(op, fat, j)
  BY <1>1, Zenon DEF Underway, Done
<1>3. op.at \in {"scan", "mark", "data", "entry"}
  BY <1>2, Zenon DEF Job
<1>4. ScanFat \/ WriteFat \/ WriteCluster \/ WriteDirEntry
  BY <1>3 DEF Proceeds, ReadCluster, FollowChain, Return
<1>5. /\ Scanning(op, fat, j) => op.at = "scan"
      /\ Marking(op, fat, j) => op.at = "mark"
      /\ Filling(op, fat, j) => op.at \in {"mark", "data", "entry"}
  BY DEF Scanning, Marking, Filling
<1>6. CASE ScanFat
  <2>1. op.at = "scan"
    BY <1>6, Zenon DEF ScanFat
  <2>2. Scanning(op, fat, j)
    BY <1>2, <1>5, <2>1
  <2>. QED
    BY <1>1, <1>2, <1>6, <2>2, ScanUnderway, Zenon
<1>7. CASE WriteFat
  <2>1. op.at = "mark"
    BY <1>7, Zenon DEF WriteFat
  <2>2. Marking(op, fat, j) \/ Filling(op, fat, j)
    BY <1>2, <1>5, <2>1
  <2>. QED
    BY <1>1, <1>2, <1>7, <2>2, MarkUnderway, Zenon
<1>8. CASE WriteCluster
  <2>1. op.at = "data"
    BY <1>8, Zenon DEF WriteCluster
  <2>2. Filling(op, fat, j)
    BY <1>2, <1>5, <2>1
  <2>. QED
    BY <1>1, <1>2, <1>8, <2>2, DataUnderway, Zenon
<1>9. CASE WriteDirEntry
  <2>1. op.at = "entry"
    BY <1>9, Zenon DEF WriteDirEntry
  <2>2. Filling(op, fat, j)
    BY <1>2, <1>5, <2>1
  <2>. QED
    BY <1>1, <1>2, <1>9, <2>2, EntryUnderway, Zenon
<1>. QED
  BY <1>4, <1>6, <1>7, <1>8, <1>9

LEMMA OperateInv == ASSUME SlowDrive = FALSE, InstallInv, Operate PROVE InstallInv'
<1>1. /\ Proceeds /\ op.at # "returned" /\ Somewhere
      /\ mbr' = mbr /\ boot' = boot /\ todo' = todo /\ newdir' = newdir
      /\ (halfway => halfway') /\ (~halfway => ~halfway')
  BY DEF Operate, partition, InstallInv
<1>2. mounted' = mounted
  BY <1>1 DEF Proceeds, ScanFat, WriteFat, WriteCluster, WriteDirEntry,
              ReadCluster, FollowChain, Return
<1>3. ASSUME ~halfway PROVE Fat16Inv'
  <2>1. Fat16Inv /\ [Next]_vars
    BY <1>1, <1>3, Zenon DEF InstallInv, Next
  <2>. QED
    BY <2>1, Fat16StepInv
<1>4. CASE Elsewhere
  <2>1. /\ fat' = fat /\ root' = root /\ data' = data /\ files' = files
        /\ err' \in BOOLEAN /\ Passive(op')
    <3>1. UNCHANGED <<disk, files>> /\ err' \in BOOLEAN /\ Passive(op')
      BY <1>1, <1>4, PassiveProceeds, Zenon DEF Elsewhere
    <3>. QED
      BY <3>1 DEF disk
  <2>2. DiskType(fat', root', data', files')
    BY <2>1, Zenon DEF InstallInv
  <2>3. Somewhere'
    BY <1>1, <1>4, <2>1, Zenon DEF Somewhere, Elsewhere
  <2>4. ~halfway' => Fat16Inv'
    BY <1>1, <1>3
  <2>. QED
    BY <2>1, <2>2, <2>3, <2>4, InstallInvNext, Zenon
<1>5. ASSUME NEW k \in 1 .. 15, Installing(k) PROVE InstallInv'
  <2>1. op # Idle
    <3>1. Idle.at = "idle"
      BY DEF Idle
    <3>2. op.at # "idle"
      BY <1>1 DEF Proceeds, ScanFat, WriteFat, WriteCluster, WriteDirEntry,
                  ReadCluster, FollowChain, Return
    <3>. QED
      BY <3>1, <3>2
  <2>2. ~(k <= 8)
    BY <1>5, <2>1, Zenon DEF Installing
  <2>3. k \in 9 .. 15 /\ k \in 8 .. 15 /\ k > 6 /\ k - 8 \in 1 .. 7
    BY <2>2
  <2>4. todo' = Rest(Script("install"), k) /\ ~halfway /\ ~halfway'
    BY <1>1, <1>5, <2>3, Zenon DEF Installing
  <2>5. Fat16Inv /\ Fat16Inv'
    BY <1>3, <2>4, Zenon DEF InstallInv
  <2>6. PICK j : j = k - 8
    OBVIOUS
  <2>7. ASSUME ~err
        PROVE  mbr /\ boot /\ mounted /\ Underway(op, fat, root, data, j)
    <3>1. Written(k)
      BY <1>5, <2>7, Zenon DEF Installing
    <3>2. mbr /\ boot /\ mounted /\ Building(op, fat, root, data, newdir, j)
      BY <2>3, <2>6, <3>1, LateWritten, Zenon
    <3>. QED
      BY <2>1, <3>2, Zenon DEF Building, Between
  <2>8. ASSUME ~err'
        PROVE  /\ mbr' /\ boot' /\ mounted'
               /\ Building(op', fat', root', data', newdir', j)
    <3>1. ~err
      <4>1. \/ Answers \/ Refuses \/ LosesWrite \/ (op.at = "returned")
        BY <1>1, Zenon DEF Proceeds, ScanFat, ReadEntry, WriteFat, WriteCluster,
                           WriteDirEntry, ReadCluster, FollowChain, Return
      <4>. QED
        BY <1>1, <2>8, <4>1, DriveAnswers, Zenon
    <3>2. j \in 1 .. 7 /\ j > 0
      BY <2>3, <2>6
    <3>3. Underway(op', fat', root', data', j)
      BY <1>1, <2>5, <2>7, <2>8, <3>2, UnderwayProceeds, Zenon
    <3>. QED
      BY <1>1, <1>2, <2>7, <3>1, <3>2, <3>3, Zenon DEF Building
  <2>9. Somewhere'
    BY <2>3, <2>4, <2>6, <2>8, BuildingOn, Zenon
  <2>10. err' \in BOOLEAN
    BY <2>5, Zenon DEF Fat16Inv
  <2>. QED
    BY <2>5, <2>9, <2>10, DiskTypeNext, InstallInvNext, Zenon
<1>. QED
  BY <1>1, <1>4, <1>5, Zenon DEF Somewhere

LEMMA InstallInitInv == ASSUME InstallInit PROVE InstallInv
<1>1. Init /\ todo = <<>>
  BY Zenon DEF InstallInit
<1>2. Fat16Inv /\ op = Idle
  BY <1>1, Fat16InitInv DEF Init
<1>3. Somewhere
  BY <1>1, <1>2, NothingToMake, Zenon DEF Somewhere, Elsewhere, Passive
<1>. QED
  BY <1>2, <1>3, Zenon DEF InstallInv, Fat16Inv, DiskInv, DiskSound, DiskType

LEMMA InstallStill == ASSUME InstallInv, UNCHANGED installVars PROVE InstallInv'
<1>1. /\ fat' = fat /\ root' = root /\ data' = data /\ files' = files /\ err' = err
      /\ op' = op /\ mounted' = mounted /\ mbr' = mbr /\ boot' = boot
      /\ todo' = todo /\ newdir' = newdir
      /\ (halfway => halfway') /\ (~halfway => ~halfway')
  BY DEF installVars, vars, disk, partition
<1>2. DiskType(fat', root', data', files') /\ err' \in BOOLEAN
  BY <1>1, Zenon DEF InstallInv
<1>3. ASSUME ~halfway' PROVE Fat16Inv'
  <2>1. Fat16Inv
    BY <1>1, <1>3, Zenon DEF InstallInv
  <2>2. [Next]_vars
    BY <1>1 DEF vars, disk
  <2>. QED
    BY <1>1, <2>1, <2>2, InvariantNext, Zenon DEF Fat16Inv, DiskInv, OpInv
<1>4. Somewhere'
  <2>1. CASE Elsewhere
    BY <1>1, <2>1, Zenon DEF Somewhere, Elsewhere
  <2>2. ASSUME NEW k \in 1 .. 15, Installing(k) PROVE Somewhere'
    <3>1. Installing(k)'
      BY <1>1, <2>2, Zenon DEF Installing, Written
    <3>. QED
      BY <3>1, Zenon DEF Somewhere
  <2>. QED
    BY <2>1, <2>2, Zenon DEF InstallInv, Somewhere
<1>. QED
  BY <1>2, <1>3, <1>4, InstallInvNext, Zenon

LEMMA InstallStepInv ==
    ASSUME SlowDrive = FALSE, InstallInv, [InstallNext]_installVars PROVE InstallInv'
<1>1. CASE UNCHANGED installVars
  BY <1>1, InstallStill
<1>2. CASE Steps
  BY <1>2, IdentifyDriveInv, RefuseFormatInv, FindPartitionInv, MountVolumeInv, FindFileInv,
     MakeDirectoryInv, PlaceholderFileInv, OperateInv, ResumeInv, WriteMbrInv,
     WriteBootInv, ClearFirstFatInv, ClearSecondFatInv, ClearRootInv, Zenon DEF Steps
<1>. QED
  BY <1>1, <1>2, RunCommandInv, DiskInfoInv, PowerCutInv, Zenon DEF InstallNext

--------------------------------------------------------------------------------
\* The theorems.

\* On a drive that fails for good when it fails, whatever commands are run, stopped
\* and run again: the volume is in order except halfway through a reformat, and an
\* installation has put on the disk exactly what its steps so far are meant to.
THEOREM InstallInvariant == SlowDrive = FALSE /\ InstallSpec => []InstallInv
<1>. SUFFICES ASSUME SlowDrive = FALSE PROVE InstallSpec => []InstallInv
  OBVIOUS
<1>1. InstallInit => InstallInv
  BY InstallInitInv
<1>2. InstallInv /\ [InstallNext]_installVars => InstallInv'
  BY InstallStepInv
<1>. QED
  BY <1>1, <1>2, PTL DEF InstallSpec

\* Whatever steps of whatever commands errors and power cuts have stopped, what is
\* listed is intact, except between the first write of a reformat to the FAT and
\* its first write to the root directory (fat16.c:91-112).
THEOREM IntactExceptHalfway == SlowDrive = FALSE /\ InstallSpec => []IntactUnlessHalfway
<1>. SUFFICES ASSUME SlowDrive = FALSE PROVE InstallSpec => []IntactUnlessHalfway
  OBVIOUS
<1>1. InstallInv => IntactUnlessHalfway
  BY IntactFromInv, Zenon DEF InstallInv, IntactUnlessHalfway
<1>. QED
  BY <1>1, InstallInvariant, PTL

\* What there is when install is about to print "Install complete".
LEMMA CompleteFacts ==
    ASSUME InstallInv, Complete, ~err
    PROVE  mbr /\ boot /\ ~halfway /\ Fat16Inv /\ Laid(fat, root, data, 7)
<1>1. op.at = "returned" /\ op.kind = "file" /\ todo = <<>>
  BY Zenon DEF Complete
<1>2. op # Idle /\ op.at \notin {"read", "follow", "scan", "mark", "data", "entry"}
  BY <1>1 DEF Idle
<1>3. ~Passive(op)
  <2>1. ~ReadsOn(op)
    BY <1>2, Zenon DEF ReadsOn
  <2>2. op.kind # "read"
    BY <1>1
  <2>. QED
    BY <1>2, <2>1, <2>2, Zenon DEF Passive
<1>4. PICK k \in 1 .. 15 : Installing(k)
  BY <1>3, Zenon DEF InstallInv, Somewhere, Elsewhere
<1>5. PICK s : s = Script("install")
  OBVIOUS
<1>6. s \in Seq(Words) /\ Len(s) = 14 /\ Rest(s, k) = <<>>
  <2>1. "install" \in Commands
    BY DEF Commands
  <2>. QED
    BY <1>1, <1>4, <1>5, <2>1, InstallSteps, Zenon DEF Installing
<1>7. k = 15
  <2>1. k \in 1 .. Len(s) + 1 /\ (k # 15 => k <= Len(s))
    BY <1>6
  <2>2. k <= Len(s) => Rest(s, k) # <<>>
    BY <1>6, <2>1, RestSteps, Zenon
  <2>. QED
    BY <1>6, <2>1, <2>2, Zenon
<1>8. Written(15) /\ ~halfway
  <2>1. 15 > 6
    OBVIOUS
  <2>. QED
    BY <1>4, <1>7, <2>1, Zenon DEF Installing
<1>9. mbr /\ boot /\ Building(op, fat, root, data, newdir, 7)
  <2>1. 15 \in 8 .. 15 /\ 15 - 8 = 7
    OBVIOUS
  <2>. QED
    BY <1>8, <2>1, LateWritten, Zenon
<1>10. Laid(fat, root, data, 7)
  BY <1>2, <1>9, Zenon DEF Building, Between, Underway, Job, Done
<1>. QED
  BY <1>8, <1>9, <1>10, Zenon DEF InstallInv

\* The finished tree: four directories, the first empty, a file in each other.
LEMMA FinishedTree ==
    ASSUME NEW r, NEW d, r \in Seq(EntryRec), TreeUpTo(r, d, 7)
    PROVE  /\ DOMAIN r = 1 .. 4
           /\ \A i \in 1 .. 4 :
                 /\ r[i].kind = "dir" /\ r[i].parts = 1 /\ r[i].first = First(i)
                 /\ IF i = 1 THEN d[First(i)].entries = <<>>
                             ELSE /\ Len(d[First(i)].entries) = 1
                                  /\ FileOf(d[First(i)].entries[1], i)
<1>1. PICK n : n = Len(r)
  OBVIOUS
<1>2. n = 4
  <2>1. n \in Nat /\ 4 \in 1 .. 4 /\ First(4) = 7 /\ 7 <= Cluster(7)
    BY <1>1, Firsts DEF Cluster
  <2>2. n <= 4 /\ 4 <= n
    BY <1>1, <2>1, Zenon DEF TreeUpTo
  <2>. QED
    BY <2>1, <2>2
<1>3. DOMAIN r = 1 .. 4
  <2>1. DOMAIN r = 1 .. Len(r)
    BY ONLY r \in Seq(EntryRec)
  <2>. QED
    BY <1>1, <1>2, <2>1, Zenon
<1>4. ASSUME NEW i \in 1 .. 4
      PROVE  /\ r[i].kind = "dir" /\ r[i].parts = 1 /\ r[i].first = First(i)
             /\ IF i = 1 THEN d[First(i)].entries = <<>>
                         ELSE /\ Len(d[First(i)].entries) = 1
                              /\ FileOf(d[First(i)].entries[1], i)
  <2>1. Settled(r[i], d[First(i)].entries, i, 7)
    BY <1>1, <1>2, Zenon DEF TreeUpTo
  <2>2. First(i) <= 7 /\ (i = 1 <=> ~(i > 1))
    <3>1. i = 1 \/ i = 2 \/ i = 3 \/ i = 4
      OBVIOUS
    <3>. QED
      BY <3>1, Firsts
  <2>. QED
    BY <2>1, <2>2, Zenon DEF Settled
<1>. QED
  BY <1>3, <1>4

\* An entry of the finished tree has the one cluster it leads to.
LEMMA OneClusterEach ==
    ASSUME Fat16Inv, NEW e \in Listed, e.parts = 1
    PROVE  {Chain(e.first, e.parts)[k] : k \in 1 .. e.parts} = {e.first}
<1>1. DiskSound(fat, root, data, files) /\ e \in ListedIn(root, data)
  BY ListedAreListedIn, Zenon DEF Fat16Inv, DiskInv
<1>2. EntrySound(fat[1], data, files, e)
  BY <1>1, Zenon DEF DiskSound
<1>3. PICK d, id, first : d = data /\ id = e.id /\ first = e.first
  OBVIOUS
<1>4. ChainSound(fat[1], d, id, first, 1)
  BY <1>2, <1>3, Zenon DEF EntrySound
<1>5. PICK x : x = Chain(first, 1)[1]
  OBVIOUS
<1>6. x \in Clusters /\ d[x].file = id /\ d[x].part = 1
  <2>1. \A k \in 1 .. 1 : /\ Chain(first, 1)[k] \in Clusters
                          /\ d[Chain(first, 1)[k]].file = id
                          /\ d[Chain(first, 1)[k]].part = k
    BY ONLY <1>4, ChainWalked
  <2>2. 1 \in 1 .. 1
    OBVIOUS
  <2>. QED
    BY <1>5, <2>1, <2>2, Zenon
<1>7. first \in Clusters /\ d[first].file = id /\ d[first].part = 1
  BY <1>4 DEF ChainSound
<1>8. x = first
  BY <1>4, <1>6, <1>7, Zenon DEF ChainSound
<1>9. {Chain(e.first, e.parts)[k] : k \in 1 .. e.parts} = {Chain(e.first, e.parts)[1]}
  <2>1. 1 .. 1 = {1}
    OBVIOUS
  <2>2. 1 .. e.parts = {1}
    BY <2>1, Zenon
  <2>. QED
    BY <2>2, Zenon
<1>10. Chain(e.first, e.parts)[1] = e.first
  BY <1>3, <1>5, <1>8, Zenon
<1>. QED
  BY <1>9, <1>10, Zenon

\* What is listed when install completes leads to the clusters 2 .. 8.
LEMMA ListedLeadTo ==
    ASSUME root \in Seq(EntryRec), data \in [Clusters -> ClusterRec], TreeUpTo(root, data, 7)
    PROVE  /\ \A e \in Listed : e.parts = 1 /\ e.first \in 2 .. 8
           /\ \A x \in 2 .. 8 : \E e \in Listed : e.first = x
<1>1. /\ DOMAIN root = 1 .. 4
      /\ \A i \in 1 .. 4 :
            /\ root[i].kind = "dir" /\ root[i].parts = 1 /\ root[i].first = First(i)
            /\ IF i = 1 THEN data[First(i)].entries = <<>>
                        ELSE /\ Len(data[First(i)].entries) = 1
                             /\ FileOf(data[First(i)].entries[1], i)
  BY FinishedTree, Zenon
<1>2. Directories = {0} \cup {First(i) : i \in 1 .. 4}
  BY <1>1 DEF Directories
<1>3. EntriesIn(0) = root /\ \A i \in 1 .. 4 : EntriesIn(First(i)) = data[First(i)].entries
  <2>1. \A i \in 1 .. 4 : First(i) # 0
    BY Firsts, Numbers
  <2>. QED
    BY <2>1, Zenon DEF EntriesIn
<1>4. ASSUME NEW i \in 1 .. 4
      PROVE  DOMAIN data[First(i)].entries = IF i = 1 THEN {} ELSE {1}
  <2>1. data[First(i)].entries \in Seq(EntryRec)
    BY Firsts DEF ClusterRec
  <2>2. PICK s : s = data[First(i)].entries
    OBVIOUS
  <2>3. s \in Seq(EntryRec) /\ Len(s) = IF i = 1 THEN 0 ELSE 1
    <3>1. Len(<<>>) = 0
      OBVIOUS
    <3>. QED
      BY <1>1, <2>1, <2>2, <3>1, Zenon
  <2>4. DOMAIN s = IF i = 1 THEN {} ELSE {1}
    BY ONLY <2>3
  <2>. QED
    BY <2>2, <2>4, Zenon
<1>5. \A i \in 1 .. 4 : i = 1 \/ i = 2 \/ i = 3 \/ i = 4
  OBVIOUS
<1>6. ASSUME NEW e \in Listed PROVE e.parts = 1 /\ e.first \in 2 .. 8
  <2>1. PICK dir \in Directories : \E i \in DOMAIN EntriesIn(dir) : e = EntriesIn(dir)[i]
    BY <1>6, Zenon DEF Listed
  <2>2. CASE dir = 0
    <3>1. PICK i \in 1 .. 4 : e = root[i]
      BY <1>1, <1>3, <2>1, <2>2, Zenon
    <3>2. e.parts = 1 /\ e.first = First(i)
      BY <1>1, <3>1, Zenon
    <3>. QED
      BY <1>5, <3>2, Firsts
  <2>3. ASSUME NEW i \in 1 .. 4, dir = First(i) PROVE e.parts = 1 /\ e.first \in 2 .. 8
    <3>1. EntriesIn(dir) = data[First(i)].entries
      BY <1>3, <2>3, Zenon
    <3>2. i # 1 /\ e = data[First(i)].entries[1]
      BY <1>4, <2>1, <3>1
    <3>3. e.parts = 1 /\ e.first = First(i) + 1
      BY <1>1, <3>2, Zenon DEF FileOf
    <3>. QED
      BY <1>5, <3>3, Firsts
  <2>. QED
    BY <1>2, <2>1, <2>2, <2>3, Zenon
<1>7. ASSUME NEW dir \in Directories, NEW k \in DOMAIN EntriesIn(dir)
       PROVE  EntriesIn(dir)[k] \in Listed
  BY DEF Listed
<1>8. ASSUME NEW i \in 1 .. 4 PROVE root[i] \in Listed /\ root[i].first = First(i)
  <2>1. 0 \in Directories /\ i \in DOMAIN EntriesIn(0) /\ root[i] = EntriesIn(0)[i]
    BY <1>1, <1>2, <1>3, Zenon
  <2>. QED
    BY <1>1, <1>7, <2>1, Zenon
<1>9. ASSUME NEW i \in 1 .. 4, i # 1
      PROVE  data[First(i)].entries[1] \in Listed
             /\ data[First(i)].entries[1].first = First(i) + 1
  <2>1. First(i) \in Directories /\ 1 \in DOMAIN EntriesIn(First(i))
    BY <1>2, <1>3, <1>4, <1>9
  <2>2. data[First(i)].entries[1] = EntriesIn(First(i))[1]
    BY <1>3, Zenon
  <2>3. EntriesIn(First(i))[1] \in Listed
    BY <1>7, <2>1, Zenon
  <2>4. data[First(i)].entries[1].first = First(i) + 1
    BY <1>1, <1>9, Zenon DEF FileOf
  <2>. QED
    BY <2>2, <2>3, <2>4, Zenon
<1>10. ASSUME NEW x \in 2 .. 8 PROVE \E e \in Listed : e.first = x
  <2>1. \E i \in 1 .. 4 : x = First(i) \/ (i # 1 /\ x = First(i) + 1)
    <3>1. x = 2 \/ x = 3 \/ x = 4 \/ x = 5 \/ x = 6 \/ x = 7 \/ x = 8
      OBVIOUS
    <3>2. 1 \in 1 .. 4 /\ 2 \in 1 .. 4 /\ 3 \in 1 .. 4 /\ 4 \in 1 .. 4
      OBVIOUS
    <3>. QED
      BY <3>1, <3>2, Firsts
  <2>. QED
    BY <1>8, <1>9, <2>1, Zenon
<1>. QED
  BY <1>6, <1>10

\* When install completes without an error, no cluster is marked as used that is
\* not part of what is listed, in either copy of the FAT: what earlier
\* installations and interrupted commands left is gone (fat16.c:91-112).
THEOREM NothingIsLeaked == SlowDrive = FALSE /\ InstallSpec => []NothingLeaked
<1>. SUFFICES ASSUME SlowDrive = FALSE PROVE InstallSpec => []NothingLeaked
  OBVIOUS
<1>1. ASSUME InstallInv, Complete, ~err, NEW copy \in Copies
      PROVE  {cluster \in Entries : fat[copy][cluster] # 0} =
             UNION {{Chain(e.first, e.parts)[k] : k \in 1 .. e.parts} : e \in Listed}
  <2>1. Fat16Inv /\ TreeUpTo(root, data, 7) /\ BothUpTo(fat, Cluster(7) + 1)
    BY <1>1, CompleteFacts, Zenon DEF Laid
  <2>2. root \in Seq(EntryRec) /\ data \in [Clusters -> ClusterRec]
    BY <1>1, Zenon DEF InstallInv, DiskType
  <2>3. /\ \A e \in Listed : e.parts = 1 /\ e.first \in 2 .. 8
        /\ \A x \in 2 .. 8 : \E e \in Listed : e.first = x
    BY <2>1, <2>2, ListedLeadTo, Zenon
  <2>4. \A e \in Listed :
            {Chain(e.first, e.parts)[k] : k \in 1 .. e.parts} = {e.first}
    BY <2>1, <2>3, OneClusterEach, Zenon
  <2>5. UNION {{Chain(e.first, e.parts)[k] : k \in 1 .. e.parts} : e \in Listed} = 2 .. 8
    <3>. DEFINE Parts(e) == {Chain(e.first, e.parts)[k] : k \in 1 .. e.parts}
    <3>1. \A e \in Listed : Parts(e) = {e.first}
      BY <2>4, Zenon
    <3>. HIDE DEF Parts
    <3>2. \A e \in Listed : Parts(e) \subseteq 2 .. 8
      BY <2>3, <3>1, Zenon
    <3>3. \A x \in 2 .. 8 : \E e \in Listed : x \in Parts(e)
      BY <2>3, <3>1, Zenon
    <3>4. UNION {Parts(e) : e \in Listed} = 2 .. 8
      BY ONLY <3>2, <3>3
    <3>. QED
      BY <3>4, Zenon DEF Parts
  <2>6. fat[copy] = FatUpTo(9)
    <3>1. (copy = 1 \/ copy = 2) /\ Cluster(7) + 1 = 9
      BY DEF Copies, Cluster
    <3>. QED
      BY <2>1, <3>1, Zenon DEF BothUpTo
  <2>7. {cluster \in Entries : FatUpTo(9)[cluster] # 0} = 2 .. 8
    BY Numbers, Fat16Assumption, InstallAssumption DEF FatUpTo, Entries
  <2>. QED
    BY <2>5, <2>6, <2>7, Zenon
<1>2. InstallInv => NothingLeaked
  BY <1>1, Zenon DEF NothingLeaked
<1>. QED
  BY <1>2, InstallInvariant, PTL

--------------------------------------------------------------------------------
\* Types, on any drive.

ClusterHolds ==
    [file : 0 .. MaxFiles, part : 0 .. MaxParts, entries : Seq(EntryRec)]

DiskFits(F, r, d) ==
    /\ F \in [Copies -> [Entries -> Values]]
    /\ r \in Seq(EntryRec) /\ Len(r) <= RootSlots
    /\ d \in [Clusters -> ClusterHolds]
    /\ \A x \in Clusters : Len(d[x].entries) <= DirSlots

\* An operation that makes a directory or a file of one cluster.
SmallJob(o) ==
    /\ o \in CreateOp
    /\ o.id <= MaxFiles /\ o.parts = 1 /\ o.dir \in Clusters \cup {0} /\ o.written <= 1
    /\ o.target \in Entries /\ o.value \in Values /\ o.then \in {"first", "last"}

\* It comes to its entry without an error only if its cluster lies on the disk.
Makes(o, e) ==
    /\ SmallJob(o)
    /\ o.at = "scan" => o.then = "first"
    /\ o.at \in {"scan", "mark"} /\ o.then = "first" => o.written = 0
    /\ o.at = "mark" /\ o.then = "last" => o.kind = "file"
    /\ o.at = "data" => o.written = 0 /\ o.first = o.cluster /\ o.cluster \in Entries
    /\ o.at = "entry" /\ o.kind = "dir" /\ ~e => o.first \in Clusters

HasReturned(o) ==
    /\ o.at = "returned" /\ o.ret \in {0, 1}
    /\ o.kind = "dir" /\ o.ret = 1 => o.first \in Clusters

OpFits(o, e) == Passive(o) \/ Makes(o, e) \/ HasReturned(o)

\* What is left to do is the end of a command.
LeftOver(steps) ==
    \E command \in Commands : \E k \in 1 .. Len(Script(command)) + 1 :
        steps = Rest(Script(command), k)

FileNext(steps) == steps # <<>> /\ Head(steps) = "create"

\* A file is made in a directory that has been made, or is being.
InDirectory(steps, o, dir) == FileNext(steps) => dir # 0 \/ (o # Idle /\ o.kind = "dir")

TypeInv ==
    /\ DiskFits(fat, root, data)
    /\ err \in BOOLEAN /\ mounted \in BOOLEAN /\ files \in 0 .. MaxFiles
    /\ mbr \in BOOLEAN /\ boot \in BOOLEAN /\ halfway \in BOOLEAN
    /\ newdir \in Clusters \cup {0} /\ commands \in 0 .. MaxCommands
    /\ OpFits(op, err)
    /\ LeftOver(todo) /\ InDirectory(todo, op, newdir)

--------------------------------------------------------------------------------
\* A step of an operation that makes something keeps to its job, and succeeds only
\* if the drive had reported no error before.
Goes(o, e, kind) ==
    /\ Makes(o, e) \/ HasReturned(o)
    /\ o.kind = kind /\ o # Idle
    /\ o.at = "returned" /\ o.ret # 0 => ~err

LEMMA ReturnsGoes ==
    ASSUME SmallJob(op), NEW ret \in {0, 1}, NEW good \in BOOLEAN, NEW e,
           op.kind = "dir" /\ ret = 1 => op.first \in Clusters, ret # 0 => ~err
    PROVE  Goes(Returns(ret, good), e, op.kind)
<1>1. PICK first, kind : first = (IF op.kind = "dir" THEN op.first ELSE 0) /\ kind = op.kind
  OBVIOUS
<1>2. PICK p : p = [at |-> "returned", kind |-> kind, ret |-> ret, good |-> good, first |-> first]
  OBVIOUS
<1>3. Returns(ret, good) = p
  BY <1>1, <1>2, Zenon DEF Returns, Result
<1>4. kind = "dir" /\ ret = 1 => first \in Clusters
  BY <1>1
<1>5. p.at = "returned" /\ p.ret = ret /\ p.kind = kind /\ p.first = first
  BY ONLY <1>2
<1>6. p # Idle
  <2>1. Idle.at = "idle"
    BY DEF Idle
  <2>. QED
    BY <1>5, <2>1
<1>. QED
  BY <1>1, <1>3, <1>4, <1>5, <1>6, Zenon DEF Goes, HasReturned

LEMMA FailsGoes == ASSUME SmallJob(op), NEW e PROVE Goes(Returns(0, FALSE), e, op.kind)
<1>1. 0 \in {0, 1} /\ FALSE \in BOOLEAN /\ 0 # 1
  OBVIOUS
<1>. QED
  BY <1>1, ReturnsGoes, Zenon

\* A job that is under way is not idle.
LEMMA MakesGoes ==
    ASSUME NEW o, NEW e, Makes(o, e) PROVE Goes(o, e, o.kind)
<1>1. o.at \in {"scan", "mark", "data", "entry"}
  BY DEF Makes, SmallJob, CreateOp
<1>2. Idle.at = "idle"
  BY DEF Idle
<1>3. o # Idle /\ o.at # "returned"
  BY <1>1, <1>2
<1>. QED
  BY <1>3, Zenon DEF Goes

LEMMA ScanGoes ==
    ASSUME DiskFits(fat, root, data), Makes(op, err), ScanFat
    PROVE  Goes(op', err', op.kind) /\ DiskFits(fat', root', data')
<1>1. /\ op.at = "scan" /\ op \in CreateOp /\ SmallJob(op)
      /\ fat' = fat /\ root' = root /\ data' = data
      /\ op.then = "first" /\ op.written = 0
  BY DEF ScanFat, Makes, SmallJob, disk
<1>2. DiskFits(fat', root', data')
  BY <1>1, Zenon
<1>3. PICK value \in Values :
         op' = IF value = 0 THEN Mark(op, op.target, EOC, op.then) ELSE ScanOn
  BY Zenon DEF ScanFat
<1>4. op.target \in Entries /\ op.target \in Nat /\ EOC \in Values /\ EOC \in Nat
  BY <1>1, Numbers DEF SmallJob
<1>5. CASE value = 0
  <2>1. PICK p : p = Mark(op, op.target, EOC, "first")
    OBVIOUS
  <2>2. op' = p
    BY <1>1, <1>3, <1>5, <2>1
  <2>3. /\ p \in CreateOp /\ SameJob(op, p) /\ p.at = "mark" /\ p.copy = 1
        /\ p.target = op.target /\ p.value = EOC /\ p.then = "first"
    BY <1>1, <1>4, <2>1, MarkFields
  <2>4. Makes(p, err') /\ p.kind = op.kind
    BY <1>1, <1>4, <2>3 DEF Makes, SmallJob, SameJob
  <2>. QED
    BY <1>1, <2>2, <2>4, MakesGoes
<1>6. CASE value # 0 /\ op.target + 1 < MaxCluster
  <2>1. PICK p : p = [op EXCEPT !.target = @ + 1]
    OBVIOUS
  <2>2. op' = p
    BY <1>3, <1>6, <2>1 DEF ScanOn
  <2>3. /\ p \in CreateOp /\ SameJob(op, p)
        /\ p.at = op.at /\ p.target = op.target + 1 /\ p.then = op.then
    BY <1>1, <2>1, NextTargetFields
  <2>4. p.target \in Entries
    BY <1>4, <1>6, <2>3, Fat16Assumption DEF Entries
  <2>5. p.value = op.value
    BY <1>1, <2>1 DEF CreateOp
  <2>6. Makes(p, err') /\ p.kind = op.kind
    BY <1>1, <2>3, <2>4, <2>5 DEF Makes, SmallJob, SameJob
  <2>. QED
    BY <1>1, <2>2, <2>6, MakesGoes
<1>7. CASE value # 0 /\ ~(op.target + 1 < MaxCluster)
  <2>1. op' = Returns(0, FALSE)
    BY <1>3, <1>7 DEF ScanOn
  <2>. QED
    BY <1>1, <1>2, <2>1, FailsGoes, Zenon
<1>. QED
  BY <1>5, <1>6, <1>7, <1>2

LEMMA WriteFatGoes ==
    ASSUME DiskFits(fat, root, data), Makes(op, err), WriteFat
    PROVE  Goes(op', err', op.kind) /\ DiskFits(fat', root', data')
<1>1. /\ op.at = "mark" /\ op \in CreateOp /\ SmallJob(op)
      /\ root' = root /\ data' = data
      /\ op' = IF op.copy = 1 THEN [op EXCEPT !.copy = 2] ELSE AfterMark(op)
  BY DEF WriteFat, Makes, SmallJob
<1>2. fat' \in [Copies -> [Entries -> Values]]
  <2>1. /\ fat \in [Copies -> [Entries -> Values]] /\ op.copy \in Copies
        /\ op.target \in Entries /\ op.value \in Values
    BY <1>1 DEF DiskFits, SmallJob, CreateOp
  <2>2. \/ fat' = [fat EXCEPT ![op.copy][op.target] = op.value]
        \/ fat' = fat
        \/ \E sector \in [Entries -> Values] : fat' = [fat EXCEPT ![op.copy] = sector]
    BY Zenon DEF WriteFat, CopyOf
  <2>. QED
    BY <2>1, <2>2
<1>3. DiskFits(fat', root', data')
  BY <1>1, <1>2, Zenon DEF DiskFits
<1>4. CASE op.copy = 1
  <2>1. PICK p : p = [op EXCEPT !.copy = 2]
    OBVIOUS
  <2>2. op' = p
    BY <1>1, <1>4, <2>1
  <2>3. /\ p \in CreateOp /\ SameJob(op, p) /\ p.copy = 2
        /\ p.at = op.at /\ p.target = op.target /\ p.value = op.value /\ p.then = op.then
    BY <1>1, <2>1, SecondCopyFields
  <2>4. Makes(p, err') /\ p.kind = op.kind
    BY <1>1, <2>3 DEF Makes, SmallJob, SameJob
  <2>. QED
    BY <1>3, <2>2, <2>4, MakesGoes
<1>5. CASE op.copy # 1 /\ op.then = "first"
  <2>1. PICK p : p = AfterMark(op)
    OBVIOUS
  <2>2. op' = p
    BY <1>1, <1>5, <2>1
  <2>3. /\ p \in CreateOp /\ p.at = "data"
        /\ p.kind = op.kind /\ p.id = op.id /\ p.parts = op.parts /\ p.dir = op.dir
        /\ p.first = op.target /\ p.cluster = op.target /\ p.written = op.written
    BY <1>1, <1>5, <2>1, AfterMarkFirst
  <2>4. p.target = op.target /\ p.value = op.value /\ p.then = op.then
    BY <1>1, <1>5, <2>1 DEF AfterMark, CreateOp
  <2>5. Makes(p, err') /\ p.kind = op.kind
    BY <1>1, <1>5, <2>3, <2>4 DEF Makes, SmallJob
  <2>. QED
    BY <1>3, <2>2, <2>5, MakesGoes
<1>6. CASE op.copy # 1 /\ op.then = "last"
  <2>1. PICK p : p = AfterMark(op)
    OBVIOUS
  <2>2. op' = p
    BY <1>1, <1>6, <2>1
  <2>3. p \in CreateOp /\ p.at = "entry" /\ SameJob(op, p)
    BY <1>1, <1>6, <2>1, AfterMarkLast
  <2>4. p.target = op.target /\ p.value = op.value /\ p.then = op.then
    BY <1>1, <1>6, <2>1 DEF AfterMark, CreateOp
  <2>5. Makes(p, err') /\ p.kind = op.kind
    BY <1>1, <1>6, <2>3, <2>4 DEF Makes, SmallJob, SameJob
  <2>. QED
    BY <1>3, <2>2, <2>5, MakesGoes
<1>. QED
  BY <1>1, <1>4, <1>5, <1>6 DEF SmallJob

LEMMA WriteClusterGoes ==
    ASSUME DiskFits(fat, root, data), Makes(op, err), WriteCluster
    PROVE  Goes(op', err', op.kind) /\ DiskFits(fat', root', data')
<1>1. /\ op.at = "data" /\ op \in CreateOp /\ SmallJob(op)
      /\ op.written = 0 /\ op.first = op.cluster /\ op.cluster \in Entries
      /\ fat' = fat /\ root' = root
  BY DEF WriteCluster, Makes, SmallJob
<1>2. ASSUME op' = AfterData, ~err' => op.cluster \in Clusters
      PROVE  Goes(op', err', op.kind)
  <2>1. PICK p : p = AfterData
    OBVIOUS
  <2>2. op.written < op.parts /\ op.parts = 1
    BY <1>1 DEF SmallJob
  <2>3. /\ p \in CreateOp /\ OneMore(op, p)
        /\ \/ p.at = "entry" /\ op.kind = "dir"
           \/ /\ p.at = "mark" /\ p.copy = 1 /\ p.target = op.cluster
              /\ p.value = EOC /\ p.then = "last"
              /\ op.kind = "file"
    BY <1>1, <2>1, <2>2, AfterDataFields
  <2>4. EOC \in Values
    BY Numbers
  <2>5. CASE p.at = "entry" /\ op.kind = "dir"
    <3>1. p = [op EXCEPT !.written = op.written + 1, !.at = "entry"]
      BY <1>1, <2>1, <2>5 DEF AfterData, CreateOp
    <3>2. p.target = op.target /\ p.value = op.value /\ p.then = op.then
      BY <1>1, <3>1 DEF CreateOp
    <3>3. Makes(p, err') /\ p.kind = op.kind
      BY <1>1, <1>2, <2>3, <2>5, <3>2 DEF Makes, SmallJob, OneMore
    <3>. QED
      BY <1>2, <2>1, <3>3, MakesGoes
  <2>6. CASE p.at = "mark"
    <3>1. Makes(p, err') /\ p.kind = op.kind
      BY <1>1, <2>3, <2>4, <2>6 DEF Makes, SmallJob, OneMore
    <3>. QED
      BY <1>2, <2>1, <3>1, MakesGoes
  <2>. QED
    BY <2>3, <2>5, <2>6
<1>3. CASE op.cluster \in Clusters /\ Answers /\ op' = AfterData
           /\ data' = [data EXCEPT ![op.cluster] = Content]
  <2>1. Content \in ClusterHolds /\ Content.entries = <<>>
    <3>1. op.id \in 0 .. MaxFiles /\ op.written + 1 \in 0 .. MaxParts /\ <<>> \in Seq(EntryRec)
      BY <1>1, Fat16Assumption, InstallAssumption DEF SmallJob, CreateOp
    <3>. QED
      BY <3>1 DEF Content, ClusterHolds
  <2>2. data' \in [Clusters -> ClusterHolds]
    BY <1>3, <2>1 DEF DiskFits
  <2>3. ASSUME NEW x \in Clusters PROVE Len(data'[x].entries) <= DirSlots
    <3>1. CASE x = op.cluster
      <4>1. data'[x].entries = <<>>
        BY <1>3, <2>1, <3>1 DEF DiskFits
      <4>. QED
        BY <4>1, Fat16Assumption
    <3>2. CASE x # op.cluster
      BY <1>3, <3>2 DEF DiskFits
    <3>. QED
      BY <3>1, <3>2
  <2>4. DiskFits(fat', root', data')
    BY <1>1, <2>2, <2>3, Zenon DEF DiskFits
  <2>. QED
    BY <1>2, <1>3, <2>4
<1>4. CASE op' = Returns(0, FALSE) /\ data' = data
  <2>1. DiskFits(fat', root', data')
    BY <1>1, <1>4, Zenon
  <2>. QED
    BY <1>1, <1>4, <2>1, FailsGoes, Zenon
<1>5. CASE LosesWrite /\ op' = AfterData /\ data' = data
  <2>1. DiskFits(fat', root', data')
    BY <1>1, <1>5, Zenon
  <2>. QED
    BY <1>2, <1>5, <2>1 DEF LosesWrite
<1>. QED
  BY <1>3, <1>4, <1>5, Zenon DEF WriteCluster

LEMMA WriteEntryGoes ==
    ASSUME DiskFits(fat, root, data), Makes(op, err), WriteDirEntry
    PROVE  Goes(op', err', op.kind) /\ DiskFits(fat', root', data')
<1>1. /\ op.at = "entry" /\ op \in CreateOp /\ SmallJob(op) /\ fat' = fat
      /\ op.kind = "dir" /\ ~err => op.first \in Clusters
      /\ op.dir \in Clusters \cup {0} /\ RootSlots \in Nat /\ DirSlots \in Nat /\ 0 \notin Clusters
  BY Fat16Assumption, Numbers DEF WriteDirEntry, Makes, SmallJob
<1>2. PICK entry : entry = NewEntry
  OBVIOUS
<1>3. entry \in EntryRec
  BY <1>1, <1>2 DEF NewEntry, EntryRec, CreateOp
<1>4. ASSUME HasRoom(op.dir), op.dir = 0, root' = Append(root, entry), data' = data
      PROVE  DiskFits(fat', root', data')
  <2>1. root \in Seq(EntryRec) /\ Len(root) < RootSlots
    BY <1>4 DEF HasRoom, DiskFits
  <2>2. root' \in Seq(EntryRec) /\ Len(root') <= RootSlots
    BY <1>1, <1>3, <1>4, <2>1
  <2>. QED
    BY <1>1, <1>4, <2>2, Zenon DEF DiskFits
<1>5. ASSUME HasRoom(op.dir), op.dir # 0, root' = root,
             data' = [data EXCEPT ![op.dir].entries = Append(@, entry)]
      PROVE  DiskFits(fat', root', data')
  <2>1. PICK x \in Clusters : x = op.dir
    BY <1>1, <1>5
  <2>2. PICK old : old = data[x].entries
    OBVIOUS
  <2>3. data[x] \in ClusterHolds /\ old \in Seq(EntryRec) /\ Len(old) < DirSlots
    BY <1>1, <1>5, <2>1, <2>2 DEF HasRoom, DiskFits, ClusterHolds
  <2>4. PICK new : new = Append(old, entry)
    OBVIOUS
  <2>5. new \in Seq(EntryRec) /\ Len(new) <= DirSlots
    BY <1>1, <1>3, <2>3, <2>4
  <2>6. PICK c : c = [data[x] EXCEPT !.entries = new]
    OBVIOUS
  <2>7. c \in ClusterHolds /\ c.entries = new
    BY <2>3, <2>5, <2>6 DEF ClusterHolds
  <2>8. data' = [data EXCEPT ![x] = c]
    BY <1>5, <2>1, <2>2, <2>4, <2>6
  <2>9. data' \in [Clusters -> ClusterHolds]
    BY <2>7, <2>8 DEF DiskFits
  <2>10. \A y \in Clusters : Len(data'[y].entries) <= DirSlots
    BY <2>5, <2>7, <2>8 DEF DiskFits
  <2>. QED
    BY <1>1, <1>5, <2>9, <2>10, Zenon DEF DiskFits
<1>6. ASSUME root' = root, data' = data PROVE DiskFits(fat', root', data')
  BY <1>1, <1>6, Zenon
<1>7. \/ /\ ~err /\ HasRoom(op.dir) /\ op.dir = 0
         /\ root' = Append(root, entry) /\ data' = data
      \/ /\ ~err /\ HasRoom(op.dir) /\ op.dir # 0 /\ root' = root
         /\ data' = [data EXCEPT ![op.dir].entries = Append(@, entry)]
      \/ root' = root /\ data' = data
  BY <1>2 DEF WriteDirEntry, Answers
<1>8. \/ op' = Returns(0, FALSE)
      \/ op' = Returns(1, TRUE) /\ ~err
      \/ op' = Returns(1, FALSE) /\ ~err
  BY DEF WriteDirEntry, Answers, LosesWrite
<1>9. Goes(op', err', op.kind)
  <2>1. CASE op' = Returns(0, FALSE)
    BY <1>1, <2>1, FailsGoes, Zenon
  <2>2. ASSUME ~err, NEW good \in BOOLEAN, op' = Returns(1, good)
        PROVE  Goes(op', err', op.kind)
    <3>1. 1 \in {0, 1} /\ (op.kind = "dir" => op.first \in Clusters)
      BY <1>1, <2>2
    <3>. QED
      BY <1>1, <2>2, <3>1, ReturnsGoes, Zenon
  <2>. QED
    BY <1>8, <2>1, <2>2, Zenon
<1>. QED
  BY <1>4, <1>5, <1>6, <1>7, <1>9

--------------------------------------------------------------------------------
\* The list of steps.

\* A file is asked for only after a directory.
LEMMA AfterDirectory ==
    ASSUME NEW command \in Commands, NEW s, s = Script(command),
           NEW k \in 1 .. Len(s), s[k] = "create"
    PROVE  k > 1 /\ s[k - 1] = "mkdir"
<1>1. command = "install"
  BY InstallSteps, Zenon
<1>2. /\ Len(s) = 14
      /\ s[1] = "identify" /\ s[2] = "mbr" /\ s[3] = "boot" /\ s[4] = "fat1"
      /\ s[5] = "fat2" /\ s[6] = "root" /\ s[7] = "mount"
      /\ \A i \in 8 .. 14 : s[i] = IF MakesDirectory(i - 7) THEN "mkdir" ELSE "create"
  BY <1>1, InstallSteps, Zenon
<1>3. k \in 8 .. 14
  <2>1. k \in 1 .. 14
    BY <1>2
  <2>2. k \in 8 .. 14 \/ k = 1 \/ k = 2 \/ k = 3 \/ k = 4 \/ k = 5 \/ k = 6 \/ k = 7
    BY ONLY <2>1
  <2>. QED
    BY <1>2, <2>2
<1>4. ~MakesDirectory(k - 7)
  BY <1>2, <1>3
<1>5. k > 1 /\ k - 1 \in 8 .. 14 /\ MakesDirectory((k - 1) - 7)
  BY <1>3, <1>4 DEF MakesDirectory
<1>. QED
  BY <1>2, <1>5

LEMMA LeftOverSteps ==
    ASSUME NEW steps, LeftOver(steps), steps # <<>>
    PROVE  LeftOver(Tail(steps)) /\ (FileNext(Tail(steps)) => Head(steps) = "mkdir")
<1>1. PICK command \in Commands :
          \E k \in 1 .. Len(Script(command)) + 1 : steps = Rest(Script(command), k)
  BY Zenon DEF LeftOver
<1>2. PICK s : s = Script(command)
  OBVIOUS
<1>3. PICK k \in 1 .. Len(s) + 1 : steps = Rest(s, k)
  BY <1>1, <1>2, Zenon
<1>4. s \in Seq(Words) /\ Len(s) \in Nat
  <2>1. s \in Seq(Words)
    BY <1>2, InstallSteps, Zenon
  <2>. QED
    BY <2>1
<1>5. /\ Rest(s, Len(s) + 1) = <<>>
      /\ \A i \in 1 .. Len(s) + 1 : i <= Len(s) =>
            Head(Rest(s, i)) = s[i] /\ Tail(Rest(s, i)) = Rest(s, i + 1)
  <2>1. ASSUME NEW i \in 1 .. Len(s) + 1, i <= Len(s)
        PROVE  Head(Rest(s, i)) = s[i] /\ Tail(Rest(s, i)) = Rest(s, i + 1)
    BY <1>4, <2>1, RestSteps, Zenon
  <2>2. 1 \in 1 .. Len(s) + 1
    BY <1>4
  <2>3. Rest(s, Len(s) + 1) = <<>>
    BY <1>4, <2>2, RestSteps, Zenon
  <2>. QED
    BY <2>1, <2>3, Zenon
<1>6. k # Len(s) + 1
  BY <1>3, <1>5, Zenon
<1>7. PICK j : j = k + 1
  OBVIOUS
<1>8. k \in 1 .. Len(s) /\ k <= Len(s) /\ j \in 1 .. Len(s) + 1 /\ j - 1 = k
  BY <1>4, <1>6, <1>7
<1>9. Tail(steps) = Rest(s, j) /\ Head(steps) = s[k]
  BY <1>3, <1>5, <1>7, <1>8, Zenon
<1>10. ASSUME FileNext(Tail(steps)) PROVE s[k] = "mkdir"
  <2>1. Rest(s, j) # <<>> /\ Head(Rest(s, j)) = "create"
    BY <1>9, <1>10, Zenon DEF FileNext
  <2>2. j # Len(s) + 1
    BY <1>5, <2>1, Zenon
  <2>3. j \in 1 .. Len(s) /\ j <= Len(s)
    BY <1>4, <1>8, <2>2
  <2>4. s[j] = "create"
    BY <1>5, <1>8, <2>1, <2>3, Zenon
  <2>. QED
    BY <1>2, <1>8, <2>3, <2>4, AfterDirectory, Zenon
<1>. QED
  BY <1>2, <1>8, <1>9, <1>10, Zenon DEF LeftOver

LEMMA CommandBegins ==
    /\ LeftOver(<<>>) /\ ~FileNext(<<>>)
    /\ \A command \in Commands : LeftOver(Script(command)) /\ ~FileNext(Script(command))
<1>1. ASSUME NEW command \in Commands
      PROVE  LeftOver(Script(command)) /\ ~FileNext(Script(command)) /\ LeftOver(<<>>)
  <2>1. PICK s : s = Script(command)
    OBVIOUS
  <2>2. s \in Seq(Words)
    BY <2>1, InstallSteps, Zenon
  <2>3. 1 \in 1 .. Len(s) + 1 /\ Len(s) + 1 \in 1 .. Len(s) + 1
    BY <2>2
  <2>4. Rest(s, 1) = s /\ Rest(s, Len(s) + 1) = <<>>
    BY <2>2, <2>3, WholeScript, RestSteps, Zenon
  <2>5. LeftOver(s) /\ LeftOver(<<>>)
    BY <2>1, <2>3, <2>4, Zenon DEF LeftOver
  <2>6. ASSUME FileNext(s) PROVE FALSE
    <3>1. s # <<>> /\ s[1] = "create"
      BY <2>2, <2>6 DEF FileNext
    <3>2. 1 \in 1 .. Len(s)
      BY <2>2, <3>1
    <3>3. 1 > 1
      BY <2>1, <3>1, <3>2, AfterDirectory, Zenon
    <3>. QED
      BY <3>3
  <2>. QED
    BY <2>1, <2>5, <2>6
<1>2. "mkpart" \in Commands
  BY DEF Commands
<1>3. ~FileNext(<<>>)
  BY DEF FileNext
<1>. QED
  BY <1>1, <1>2, <1>3

--------------------------------------------------------------------------------
\* What each step of a command does to the types.

LEMMA PassiveKind == ASSUME NEW o, Passive(o) PROVE o = Idle \/ o.kind = "read"
  BY DEF Passive, ReadsOn, ReadFields

LEMMA IdleFits == ASSUME NEW e PROVE OpFits(Idle, e)
  BY DEF OpFits, Passive

\* A step that is no operation, or begins one that makes no directory.
LEMMA StepTypes ==
    ASSUME TypeInv, NEW step, At(step), step # "mkdir", Continues \/ GivesUp
    PROVE  LeftOver(todo') /\ \A o, dir : InDirectory(todo', o, dir)
<1>1. todo # <<>> /\ Head(todo) = step /\ LeftOver(todo)
  BY Zenon DEF At, TypeInv
<1>2. LeftOver(Tail(todo)) /\ ~FileNext(Tail(todo))
  BY <1>1, LeftOverSteps, Zenon
<1>. QED
  BY <1>2, CommandBegins, Zenon DEF Continues, GivesUp, InDirectory

LEMMA WriteTypes ==
    ASSUME TypeInv, NEW step, step # "mkdir", NEW written \in BOOLEAN, Write(step, written)
    PROVE  /\ err' \in BOOLEAN /\ mounted' \in BOOLEAN /\ files' \in 0 .. MaxFiles
           /\ newdir' \in Clusters \cup {0} /\ commands' \in 0 .. MaxCommands
           /\ OpFits(op', err') /\ data' = data
           /\ LeftOver(todo') /\ InDirectory(todo', op', newdir')
<1>1. /\ At(step) /\ (Continues \/ GivesUp) /\ err' \in BOOLEAN
      /\ data' = data /\ mounted' = mounted /\ op' = op /\ files' = files
      /\ newdir' = newdir /\ commands' = commands
  BY DEF Write, Answers, Refuses, LosesWrite
<1>2. op' = Idle
  BY <1>1, Zenon DEF At
<1>3. OpFits(op', err')
  BY <1>2, IdleFits, Zenon
<1>4. LeftOver(todo') /\ InDirectory(todo', op', newdir')
  BY <1>1, StepTypes, Zenon
<1>. QED
  BY <1>1, <1>3, <1>4, Zenon DEF TypeInv

LEMMA WritesTypes ==
    ASSUME TypeInv, NEW written \in BOOLEAN,
           \/ WriteMbr(written) \/ WriteBoot(written)
           \/ ClearFirstFat(written) \/ ClearSecondFat(written) \/ ClearRoot(written)
    PROVE  TypeInv'
<1>1. \E step \in {"mbr", "boot", "fat1", "fat2", "root"} : Write(step, written)
  BY Zenon DEF WriteMbr, WriteBoot, ClearFirstFat, ClearSecondFat, ClearRoot
<1>2. PICK step \in {"mbr", "boot", "fat1", "fat2", "root"} : Write(step, written)
  BY <1>1
<1>3. step # "mkdir"
  OBVIOUS
<1>4. /\ err' \in BOOLEAN /\ mounted' \in BOOLEAN /\ files' \in 0 .. MaxFiles
      /\ newdir' \in Clusters \cup {0} /\ commands' \in 0 .. MaxCommands
      /\ OpFits(op', err') /\ data' = data
      /\ LeftOver(todo') /\ InDirectory(todo', op', newdir')
  BY <1>2, <1>3, WriteTypes, Zenon
<1>5. mbr' \in BOOLEAN /\ boot' \in BOOLEAN /\ halfway' \in BOOLEAN
  BY DEF TypeInv, WriteMbr, WriteBoot, ClearFirstFat, ClearSecondFat, ClearRoot, partition
<1>6. fat' \in [Copies -> [Entries -> Values]]
  <2>1. fat \in [Copies -> [Entries -> Values]] /\ NewFat \in [Entries -> Values]
    BY NewFatType DEF TypeInv, DiskFits
  <2>2. \/ fat' = fat \/ fat' = [fat EXCEPT ![1] = NewFat] \/ fat' = [fat EXCEPT ![2] = NewFat]
    BY DEF WriteMbr, WriteBoot, ClearFirstFat, ClearSecondFat, ClearRoot
  <2>. QED
    BY <2>1, <2>2
<1>7. root' \in Seq(EntryRec) /\ Len(root') <= RootSlots
  <2>1. root \in Seq(EntryRec) /\ Len(root) <= RootSlots
    BY Zenon DEF TypeInv, DiskFits
  <2>2. root' = root \/ root' = <<>>
    BY DEF WriteMbr, WriteBoot, ClearFirstFat, ClearSecondFat, ClearRoot, NewRoot
  <2>3. <<>> \in Seq(EntryRec) /\ Len(<<>>) <= RootSlots
    BY Fat16Assumption
  <2>. QED
    BY <2>1, <2>2, <2>3, Zenon
<1>8. DiskFits(fat', root', data')
  BY <1>4, <1>6, <1>7, Zenon DEF TypeInv, DiskFits
<1>. QED
  BY <1>4, <1>5, <1>8, Zenon DEF TypeInv

\* The steps that write nothing and begin nothing.
LEMMA QuietTypes ==
    ASSUME TypeInv, IdentifyDrive \/ RefuseFormat \/ FindPartition \/ MountVolume
    PROVE  TypeInv'
<1>1. \E step \in {"identify", "boot", "find partition", "mount"} : At(step)
  BY Zenon DEF IdentifyDrive, RefuseFormat, FindPartition, MountVolume
<1>2. PICK step \in {"identify", "boot", "find partition", "mount"} : At(step)
  BY <1>1
<1>3. step # "mkdir"
  OBVIOUS
<1>4. /\ Continues \/ GivesUp
      /\ err' \in BOOLEAN /\ mounted' \in BOOLEAN
      /\ fat' = fat /\ root' = root /\ data' = data /\ op' = op /\ files' = files
      /\ mbr' = mbr /\ boot' = boot /\ halfway' = halfway
      /\ newdir' = newdir /\ commands' = commands
  BY DEF IdentifyDrive, RefuseFormat, FindPartition, MountVolume, TypeInv, Answers, Refuses,
         disk, partition, vars
<1>5. LeftOver(todo') /\ InDirectory(todo', op', newdir')
  BY <1>2, <1>3, <1>4, StepTypes, Zenon
<1>6. OpFits(op', err')
  <2>1. op' = Idle
    BY <1>2, <1>4, Zenon DEF At
  <2>. QED
    BY <2>1, IdleFits, Zenon
<1>. QED
  BY <1>4, <1>5, <1>6, Zenon DEF TypeInv

\* The command looks for a file and reads it.
LEMMA FindFilePassive == ASSUME FindFile PROVE Passive(op')
<1>1. CASE UNCHANGED op
  BY <1>1, Zenon DEF FindFile, At, Passive
<1>2. ASSUME NEW d \in Directories, NEW i \in DOMAIN EntriesIn(d), ReadFile(d, i)
      PROVE  Passive(op')
  <2>1. PICK e : e = EntriesIn(d)[i]
    OBVIOUS
  <2>2. op' = IF e.parts = 0 THEN Result("read", 1, TRUE, 0)
              ELSE ReadFields("read", e.id, e.parts, e.first, 0, TRUE)
    BY <1>2, <2>1, Zenon DEF ReadFile, ReadFields
  <2>3. PICK p, q : p = Result("read", 1, TRUE, 0)
                    /\ q = ReadFields("read", e.id, e.parts, e.first, 0, TRUE)
    OBVIOUS
  <2>4. p.at = "returned" /\ p.kind = "read"
    BY ONLY <2>3 DEF Result
  <2>5. ReadsOn(q)
    BY ONLY <2>3 DEF ReadsOn, ReadFields
  <2>. QED
    BY <2>2, <2>3, <2>4, <2>5, Zenon DEF Passive
<1>3. UNCHANGED op \/ \E d \in Directories : \E i \in DOMAIN EntriesIn(d) : ReadFile(d, i)
  BY Zenon DEF FindFile
<1>. QED
  BY <1>1, <1>2, <1>3, Zenon

LEMMA FindFileTypes == ASSUME TypeInv, FindFile PROVE TypeInv'
<1>1. /\ At("find file") /\ (Continues \/ GivesUp)
      /\ mbr' = mbr /\ boot' = boot /\ halfway' = halfway
      /\ newdir' = newdir /\ commands' = commands
  BY DEF FindFile, partition
<1>2. LeftOver(todo') /\ InDirectory(todo', op', newdir')
  <2>1. "find file" # "mkdir"
    OBVIOUS
  <2>. QED
    BY <1>1, <2>1, StepTypes, Zenon
<1>3. Passive(op')
  BY FindFilePassive
<1>4. /\ err' \in BOOLEAN /\ mounted' = mounted /\ files' = files
      /\ fat' = fat /\ root' = root /\ data' = data
  BY DEF FindFile, ReadFile, Answers, Refuses, disk, TypeInv
<1>. QED
  BY <1>1, <1>2, <1>3, <1>4, Zenon DEF TypeInv, OpFits

\* An operation that makes something begins.
LEMMA BeginsSmall ==
    ASSUME files \in 0 .. MaxFiles, files < MaxFiles,
           NEW kind \in {"file", "dir"}, NEW dir \in Clusters \cup {0}, NEW e,
           NEW o, o = Alloc(Begin(kind, 1, dir), "first")
    PROVE  Makes(o, e) /\ o # Idle /\ o.kind = kind
<1>1. PICK b : b = Begin(kind, 1, dir)
  OBVIOUS
<1>2. b \in CreateOp /\ b.id <= MaxFiles /\ b.parts = 1 /\ b.dir = dir /\ b.written = 0
      /\ b.kind = kind /\ b.value = 0
  <2>1. files + 1 \in Nat /\ files + 1 <= MaxFiles /\ dir \in Nat
    BY Fat16Assumption, Numbers
  <2>. QED
    BY ONLY <1>1, <2>1, kind \in {"file", "dir"} DEF Begin, CreateOp, Copies
<1>3. /\ o \in CreateOp /\ SameJob(b, o)
      /\ o.at = "scan" /\ o.target = 2 /\ o.then = "first"
  BY <1>1, <1>2, AllocFields
<1>4. o.value = 0
  BY <1>1, <1>2 DEF Alloc, CreateOp
<1>5. 2 \in Entries /\ 0 \in Values
  BY Fat16Assumption DEF Entries, Values, EOC
<1>6. Makes(o, e) /\ o.kind = kind
  BY <1>2, <1>3, <1>4, <1>5 DEF Makes, SmallJob, SameJob
<1>. QED
  BY <1>6, MakesGoes, Zenon DEF Goes

LEMMA MakeTypes == ASSUME TypeInv, MakeDirectory \/ PlaceholderFile PROVE TypeInv'
<1>1. /\ op = Idle /\ Continues /\ files < MaxFiles /\ files' = files + 1
      /\ fat' = fat /\ root' = root /\ data' = data /\ err' = err /\ mounted' = mounted
      /\ mbr' = mbr /\ boot' = boot /\ halfway' = halfway
      /\ newdir' = newdir /\ commands' = commands
  BY DEF MakeDirectory, PlaceholderFile, Mkdir, CreateFile, At, disk, partition
<1>2. files \in 0 .. MaxFiles /\ files' \in 0 .. MaxFiles /\ newdir \in Clusters \cup {0}
  BY <1>1, Fat16Assumption DEF TypeInv
<1>3. todo # <<>> /\ LeftOver(todo)
  BY Zenon DEF MakeDirectory, PlaceholderFile, At, TypeInv
<1>4. LeftOver(todo') /\ (FileNext(todo') => Head(todo) = "mkdir")
  BY <1>1, <1>3, LeftOverSteps, Zenon DEF Continues
<1>5. CASE MakeDirectory
  <2>1. op' = Alloc(Begin("dir", 1, 0), "first")
    BY <1>5, Zenon DEF MakeDirectory, Mkdir
  <2>2. "dir" \in {"file", "dir"} /\ 0 \in Clusters \cup {0}
    OBVIOUS
  <2>3. Makes(op', err') /\ op' # Idle /\ op'.kind = "dir"
    BY <1>1, <1>2, <2>1, <2>2, BeginsSmall, Zenon
  <2>4. InDirectory(todo', op', newdir')
    BY <2>3, Zenon DEF InDirectory
  <2>. QED
    BY <1>1, <1>2, <1>4, <2>3, <2>4, Zenon DEF TypeInv, OpFits
<1>6. CASE PlaceholderFile
  <2>1. op' = Alloc(Begin("file", 1, newdir), "first")
    BY <1>6 DEF PlaceholderFile, CreateFile
  <2>2. "file" \in {"file", "dir"}
    OBVIOUS
  <2>3. Makes(op', err')
    BY <1>1, <1>2, <2>1, <2>2, BeginsSmall, Zenon
  <2>4. Head(todo) = "create"
    BY <1>6, Zenon DEF PlaceholderFile, At
  <2>5. ~FileNext(todo')
    BY <1>4, <2>4
  <2>6. InDirectory(todo', op', newdir')
    BY <2>5, Zenon DEF InDirectory
  <2>. QED
    BY <1>1, <1>2, <1>4, <2>3, <2>6, Zenon DEF TypeInv, OpFits
<1>. QED
  BY <1>5, <1>6

LEMMA OperateTypes == ASSUME TypeInv, Operate PROVE TypeInv'
<1>1. /\ Proceeds /\ op.at # "returned" /\ todo' = todo /\ newdir' = newdir
      /\ mbr' = mbr /\ boot' = boot /\ halfway' = halfway /\ commands' = commands
  BY DEF Operate, partition
<1>2. /\ mounted' = mounted /\ files' = files /\ err' \in BOOLEAN
  BY <1>1 DEF Proceeds, ScanFat, ReadEntry, WriteFat, WriteCluster, WriteDirEntry,
              ReadCluster, FollowChain, Return, Answers, Refuses, LosesWrite, TypeInv
<1>3. Passive(op) \/ Makes(op, err)
  BY <1>1, Zenon DEF TypeInv, OpFits, HasReturned
<1>4. CASE Passive(op)
  <2>1. UNCHANGED <<disk, files>> /\ Passive(op')
    BY <1>1, <1>4, PassiveProceeds, Zenon
  <2>2. fat' = fat /\ root' = root /\ data' = data
    BY <2>1 DEF disk
  <2>3. InDirectory(todo', op', newdir')
    <3>1. op = Idle \/ op.kind = "read"
      BY <1>4, PassiveKind, Zenon
    <3>2. "read" # "dir"
      OBVIOUS
    <3>. QED
      BY <1>1, <3>1, <3>2, Zenon DEF InDirectory, TypeInv
  <2>. QED
    BY <1>1, <1>2, <2>1, <2>2, <2>3, Zenon DEF TypeInv, OpFits
<1>5. CASE Makes(op, err)
  <2>1. op.at \in {"scan", "mark", "data", "entry"}
    BY <1>5 DEF Makes, SmallJob, CreateOp
  <2>2. ScanFat \/ WriteFat \/ WriteCluster \/ WriteDirEntry
    BY <1>1, <2>1 DEF Proceeds, ReadCluster, FollowChain, Return
  <2>3. Goes(op', err', op.kind) /\ DiskFits(fat', root', data')
    BY <1>5, <2>2, ScanGoes, WriteFatGoes, WriteClusterGoes, WriteEntryGoes, Zenon DEF TypeInv
  <2>4. InDirectory(todo', op', newdir')
    BY <1>1, <2>3, Zenon DEF InDirectory, TypeInv, Goes
  <2>. QED
    BY <1>1, <1>2, <2>3, <2>4, Zenon DEF TypeInv, OpFits, Goes
<1>. QED
  BY <1>3, <1>4, <1>5

LEMMA ResumeTypes == ASSUME TypeInv, Resume PROVE TypeInv'
<1>1. /\ op.at = "returned" /\ op' = Idle
      /\ fat' = fat /\ root' = root /\ data' = data /\ err' = err
      /\ mounted' = mounted /\ files' = files
      /\ mbr' = mbr /\ boot' = boot /\ halfway' = halfway /\ commands' = commands
  BY DEF Resume, Return, disk, partition
<1>2. OpFits(op', err')
  BY <1>1, IdleFits, Zenon
<1>3. /\ op.kind = "dir" => op.ret \in {0, 1}
      /\ op.kind = "dir" /\ op.ret = 1 => op.first \in Clusters
  <2>1. CASE Passive(op)
    <3>1. op = Idle \/ op.kind = "read"
      BY <2>1, PassiveKind, Zenon
    <3>2. Idle.at # "returned"
      BY DEF Idle
    <3>. QED
      BY <1>1, <3>1, <3>2
  <2>2. CASE Makes(op, err)
    BY <1>1, <2>2 DEF Makes, SmallJob, CreateOp
  <2>3. CASE HasReturned(op)
    BY <2>3, Zenon DEF HasReturned
  <2>. QED
    BY <2>1, <2>2, <2>3, Zenon DEF TypeInv, OpFits
<1>4. 0 \notin Clusters
  BY Numbers
<1>5. CASE op.kind = "dir" /\ op.ret = 0
  <2>1. todo' = <<>> /\ newdir' = newdir
    BY <1>5 DEF Resume, GivesUp
  <2>2. LeftOver(todo') /\ InDirectory(todo', op', newdir')
    BY <2>1, CommandBegins, Zenon DEF InDirectory
  <2>. QED
    BY <1>1, <1>2, <2>1, <2>2, Zenon DEF TypeInv
<1>6. CASE op.kind = "dir" /\ op.ret = 1
  <2>1. todo' = todo /\ newdir' \in Clusters
    BY <1>3, <1>6 DEF Resume
  <2>2. LeftOver(todo') /\ InDirectory(todo', op', newdir')
    BY <1>4, <2>1, Zenon DEF InDirectory, TypeInv
  <2>3. newdir' \in Clusters \cup {0}
    BY <2>1
  <2>. QED
    BY <1>1, <1>2, <2>2, <2>3, Zenon DEF TypeInv
<1>7. CASE op.kind # "dir"
  <2>1. todo' = todo /\ newdir' = newdir
    BY <1>7 DEF Resume
  <2>2. LeftOver(todo') /\ InDirectory(todo', op', newdir')
    BY <1>7, <2>1, Zenon DEF InDirectory, TypeInv
  <2>. QED
    BY <1>1, <1>2, <2>1, <2>2, Zenon DEF TypeInv
<1>. QED
  BY <1>3, <1>5, <1>6, <1>7

LEMMA UserTypes ==
    ASSUME TypeInv, (\E command \in Commands : RunCommand(command)) \/ DiskInfo \/ PowerCut
    PROVE  TypeInv'
<1>1. /\ fat' = fat /\ root' = root /\ data' = data /\ files' = files
      /\ mbr' = mbr /\ boot' = boot /\ halfway' = halfway
      /\ err' \in BOOLEAN /\ mounted' \in BOOLEAN /\ op' = Idle
      /\ newdir' \in Clusters \cup {0}
  BY DEF RunCommand, DiskInfo, Identify, PowerCut, Restart, disk, partition, TypeInv
<1>2. commands' \in 0 .. MaxCommands
  BY InstallAssumption DEF RunCommand, DiskInfo, PowerCut, TypeInv
<1>3. LeftOver(todo') /\ ~FileNext(todo')
  <2>1. todo' = <<>> \/ \E command \in Commands : todo' = Script(command)
    BY Zenon DEF RunCommand, DiskInfo, PowerCut
  <2>. QED
    BY <2>1, CommandBegins, Zenon
<1>4. OpFits(op', err') /\ InDirectory(todo', op', newdir')
  BY <1>1, <1>3, IdleFits, Zenon DEF InDirectory
<1>. QED
  BY <1>1, <1>2, <1>3, <1>4, Zenon DEF TypeInv

LEMMA TypeInvStep == ASSUME TypeInv, [InstallNext]_installVars PROVE TypeInv'
<1>1. CASE UNCHANGED installVars
  BY <1>1, Zenon DEF installVars, vars, disk, partition, TypeInv
<1>2. CASE Steps
  BY <1>2, QuietTypes, FindFileTypes, MakeTypes, OperateTypes, ResumeTypes, WritesTypes,
     Zenon DEF Steps
<1>. QED
  BY <1>1, <1>2, UserTypes, Zenon DEF InstallNext

LEMMA TypeInvInit == ASSUME InstallInit PROVE TypeInv
<1>1. Init /\ op = Idle /\ todo = <<>> /\ newdir = 0
  BY Zenon DEF InstallInit, Init
<1>2. fat \in [Copies -> [Entries -> Values]]
  <2>1. 0 \in Values
    BY Fat16Assumption DEF Values, EOC
  <2>. QED
    BY <1>1, <2>1 DEF Init
<1>3. root \in Seq(EntryRec) /\ Len(root) <= RootSlots
  BY <1>1, Fat16Assumption DEF Init
<1>4. data \in [Clusters -> ClusterHolds] /\ \A x \in Clusters : Len(data[x].entries) <= DirSlots
  <2>1. 0 \in 0 .. MaxFiles /\ 0 \in 0 .. MaxParts /\ <<>> \in Seq(EntryRec) /\ Len(<<>>) <= DirSlots
    BY Fat16Assumption
  <2>. QED
    BY <1>1, <2>1 DEF Init, ClusterHolds
<1>5. OpFits(op, err) /\ LeftOver(todo) /\ InDirectory(todo, op, newdir)
  BY <1>1, IdleFits, CommandBegins, Zenon DEF InDirectory
<1>6. /\ err \in BOOLEAN /\ mounted \in BOOLEAN /\ files \in 0 .. MaxFiles
      /\ mbr \in BOOLEAN /\ boot \in BOOLEAN /\ halfway \in BOOLEAN
      /\ newdir \in Clusters \cup {0} /\ commands \in 0 .. MaxCommands
  <2>1. /\ err = FALSE /\ mounted = FALSE /\ files = 0 /\ mbr = FALSE /\ boot = FALSE
        /\ halfway = FALSE /\ newdir = 0 /\ commands = 0
    BY DEF InstallInit, Init
  <2>2. 0 \in 0 .. MaxFiles /\ 0 \in 0 .. MaxCommands
    BY Fat16Assumption, InstallAssumption
  <2>. QED
    BY <2>1, <2>2
<1>. QED
  BY <1>2, <1>3, <1>4, <1>5, <1>6, Zenon DEF TypeInv, DiskFits

\* The end of a script is a suffix of it.
LEMMA RestIsSuffix ==
    ASSUME NEW s, s \in Seq(Words), NEW k \in 1 .. Len(s) + 1
    PROVE  IsSuffix(Rest(s, k), s)
<1>1. PICK n, t : n = Len(s) /\ t = Rest(s, k)
  OBVIOUS
<1>2. n \in Nat /\ k \in 1 .. n + 1
  BY <1>1
<1>3. PICK m : m = n - k + 1
  OBVIOUS
<1>4. m \in Nat /\ m <= n
  BY <1>2, <1>3
<1>5. t \in Seq(Words) /\ Len(t) = m /\ \A i \in 1 .. m : t[i] = s[k + i - 1]
  BY <1>1, <1>2, <1>3, <1>4 DEF Rest
<1>6. PICK a, b : a = Reverse(t) /\ b = Reverse(s)
  OBVIOUS
<1>7. a = [i \in 1 .. m |-> t[(m - i) + 1]] /\ b = [i \in 1 .. n |-> s[(n - i) + 1]]
  BY <1>1, <1>5, <1>6, Zenon DEF Reverse
<1>8. a \in Seq(Words) /\ Len(a) = m /\ b \in Seq(Words) /\ Len(b) = n
  <2>1. \A i \in 1 .. m : (m - i) + 1 \in 1 .. m
    BY <1>4
  <2>2. \A i \in 1 .. n : (n - i) + 1 \in 1 .. n
    BY <1>2
  <2>3. a \in [1 .. m -> Words]
    BY ONLY <1>4, <1>5, <1>7, <2>1
  <2>4. b \in [1 .. n -> Words]
    BY ONLY <1>1, <1>2, <1>7, <2>2, s \in Seq(Words)
  <2>5. ASSUME NEW l \in Nat, NEW f \in [1 .. l -> Words]
        PROVE  f \in Seq(Words) /\ Len(f) = l
    BY ONLY l \in Nat, f \in [1 .. l -> Words]
  <2>. QED
    BY <1>2, <1>4, <2>3, <2>4, <2>5, Zenon
<1>9. PICK c, d : c = SubSeq(a, 1, m) /\ d = SubSeq(b, 1, m)
  OBVIOUS
<1>10. /\ c \in Seq(Words) /\ Len(c) = m /\ \A i \in 1 .. m : c[i] = a[i]
       /\ d \in Seq(Words) /\ Len(d) = m /\ \A i \in 1 .. m : d[i] = b[i]
  BY ONLY <1>2, <1>4, <1>8, <1>9
<1>11. \A i \in 1 .. m : a[i] = b[i]
  <2>1. ASSUME NEW i \in 1 .. m PROVE a[i] = b[i]
    <3>1. m - i + 1 \in 1 .. m /\ k + (m - i + 1) - 1 = n - i + 1 /\ i \in 1 .. n
      BY <1>2, <1>3, <1>4
    <3>2. t[m - i + 1] = s[n - i + 1]
      BY <1>5, <3>1, Zenon
    <3>. QED
      BY <1>7, <3>1, <3>2, Zenon
  <2>. QED
    BY <2>1
<1>12. c = d
  BY ONLY <1>4, <1>10, <1>11
<1>. QED
  BY <1>1, <1>4, <1>6, <1>8, <1>9, <1>12 DEF IsSuffix, IsPrefix

\* The state of the disk commands keeps to its type on every drive, slow or not.
\* In particular install never asks for a file when it has no directory to put it
\* into, because it gives up when one could not be made.
THEOREM InstallTypes == InstallSpec => []InstallTypeOK
<1>1. InstallInit => TypeInv
  BY TypeInvInit
<1>2. TypeInv /\ [InstallNext]_installVars => TypeInv'
  BY TypeInvStep
<1>3. TypeInv => InstallTypeOK
  <2>. SUFFICES ASSUME TypeInv PROVE InstallTypeOK
    OBVIOUS
  <2>1. Fat16TypeOK
    BY DEF TypeInv, DiskFits, ClusterHolds, Fat16TypeOK
  <2>2. At("create") => newdir # 0
    BY Zenon DEF At, TypeInv, InDirectory, FileNext
  <2>3. \E command \in Commands : IsSuffix(todo, Script(command))
    <3>1. PICK command \in Commands :
              \E k \in 1 .. Len(Script(command)) + 1 : todo = Rest(Script(command), k)
      BY Zenon DEF TypeInv, LeftOver
    <3>2. PICK s : s = Script(command)
      OBVIOUS
    <3>3. PICK k \in 1 .. Len(s) + 1 : todo = Rest(s, k)
      BY <3>1, <3>2, Zenon
    <3>4. s \in Seq(Words)
      BY <3>2, InstallSteps, Zenon
    <3>5. IsSuffix(todo, s)
      BY <3>3, <3>4, RestIsSuffix, Zenon
    <3>. QED
      BY <3>2, <3>5, Zenon
  <2>. QED
    BY <2>1, <2>2, <2>3, Zenon DEF TypeInv, InstallTypeOK
<1>. QED
  BY <1>1, <1>2, <1>3, PTL DEF InstallSpec

--------------------------------------------------------------------------------
\* When the last directory is made, the disk lacks nothing but what the last steps
\* make.  The drive may fail then and the command go on, but it leaves the disk as
\* it was.

\* The last step of install, which makes the last file, is still to be taken.
LastFile == Rest(Script("install"), 14)

\* Enough is there: all but the last two entries of the tree.
Nearly ==
    /\ mbr /\ boot /\ ~halfway
    /\ \E j \in 5 .. 7 : TreeUpTo(root, data, j)

\* The last directory has been made, or install_placeholder_file is making the last
\* file or has tried to.
Late(steps, o) ==
    \/ steps = LastFile /\ (o = Idle \/ (o.at = "returned" /\ o.ret # 0))
    \/ steps = <<>> /\ o # Idle /\ o.kind = "file"

\* The drive may fail late, but what there was before is still there then.
LateInv ==
    /\ todo = LastFile /\ op # Idle => op.kind = "dir"
    /\ Late(todo, op) /\ err => Nearly

LEMMA LastStep ==
    /\ LastFile # <<>> /\ Head(LastFile) = "create" /\ Tail(LastFile) = <<>> /\ ~MakesNothing(LastFile)
    /\ \A k \in 1 .. 15 : /\ Rest(Script("install"), k) = LastFile => k = 14
                          /\ Rest(Script("install"), k) = <<>> => k = 15
<1>1. PICK s : s = Script("install")
  OBVIOUS
<1>2. s \in Seq(Words) /\ Len(s) = 14 /\ s[14] = "create"
  <2>1. "install" \in Commands /\ 14 \in 8 .. 14 /\ 14 - 7 = 7
    BY DEF Commands
  <2>2. ~MakesDirectory(7)
    BY DEF MakesDirectory
  <2>. QED
    BY <1>1, <2>1, <2>2, InstallSteps, Zenon
<1>3. 14 \in 1 .. Len(s) + 1 /\ 14 <= Len(s) /\ Len(s) + 1 = 15 /\ 14 + 1 = 15
  BY <1>2
<1>4. LastFile # <<>> /\ Head(LastFile) = "create" /\ Tail(LastFile) = <<>>
  <2>1. PICK k : k = 14
    OBVIOUS
  <2>2. k \in 1 .. Len(s) + 1 /\ k <= Len(s) /\ k + 1 = Len(s) + 1
    BY <1>3, <2>1
  <2>3. /\ Rest(s, k) # <<>> /\ Head(Rest(s, k)) = s[k]
        /\ Tail(Rest(s, k)) = Rest(s, k + 1) /\ Rest(s, Len(s) + 1) = <<>>
    BY <1>2, <2>2, RestSteps, Zenon
  <2>. QED
    BY <1>1, <1>2, <2>1, <2>2, <2>3, Zenon DEF LastFile
<1>5. ~MakesNothing(LastFile)
  BY <1>4, MakesNothingSteps, Zenon
<1>6. ASSUME NEW k \in 1 .. 15 PROVE Len(Rest(s, k)) = 15 - k
  BY <1>2 DEF Rest
<1>7. ASSUME NEW k \in 1 .. 15
      PROVE  /\ Rest(Script("install"), k) = LastFile => k = 14
             /\ Rest(Script("install"), k) = <<>> => k = 15
  <2>1. PICK a, b, c : a = Rest(s, k) /\ b = LastFile /\ c = <<>>
    OBVIOUS
  <2>2. 14 \in 1 .. 15
    OBVIOUS
  <2>3. Len(a) = 15 - k /\ Len(b) = 15 - 14
    BY <1>1, <1>6, <2>1, <2>2, Zenon DEF LastFile
  <2>4. Len(c) = 0
    BY ONLY <2>1
  <2>5. (a = b => k = 14) /\ (a = c => k = 15)
    <3>1. PICK l, m, n : l = Len(a) /\ m = Len(b) /\ n = Len(c)
      OBVIOUS
    <3>2. l = 15 - k /\ m = 1 /\ n = 0
      BY <2>3, <2>4, <3>1
    <3>3. (l = m => k = 14) /\ (l = n => k = 15)
      BY ONLY <3>2, k \in 1 .. 15
    <3>. QED
      BY <3>1, <3>3, Zenon
  <2>. QED
    BY <1>1, <2>1, <2>5, Zenon
<1>. QED
  BY <1>4, <1>5, <1>7, Zenon

\* Nothing else leads to the last step but the step before it, which makes a directory.
LEMMA NotLastYet ==
    ASSUME Somewhere, NEW step, At(step), step \notin {"mkdir", "create"},
           Continues \/ GivesUp
    PROVE  todo' # LastFile
<1>1. CASE GivesUp
  BY <1>1, LastStep, Zenon DEF GivesUp
<1>2. CASE Continues /\ MakesNothing(Tail(todo))
  BY <1>2, LastStep, Zenon DEF Continues
<1>3. ASSUME Continues, NEW k \in 1 .. 14, StepAt(step, k) PROVE todo' # LastFile
  <2>1. todo' = Rest(Script("install"), k + 1)
    BY <1>3, Zenon DEF StepAt, Continues
  <2>2. k # 13
    <3>1. 13 \in 8 .. 14 /\ 13 - 7 = 6
      OBVIOUS
    <3>2. MakesDirectory(6)
      BY DEF MakesDirectory
    <3>3. k = 13 => step = "mkdir"
      BY <1>3, <3>1, <3>2, InstallSteps, Zenon DEF StepAt
    <3>. QED
      BY <3>3
  <2>3. k + 1 \in 1 .. 15 /\ k + 1 # 14
    BY <2>2
  <2>. QED
    BY <2>1, <2>3, LastStep, Zenon
<1>. QED
  BY <1>1, <1>2, <1>3, AtStep, Zenon

\* A step at which no operation that makes something is under way afterwards.
LEMMA EarlyStep ==
    ASSUME todo' # LastFile, Passive(op')
    PROVE  LateInv'
<1>1. op' = Idle \/ op'.kind = "read"
  BY PassiveKind
<1>2. ~Late(todo', op')
  <2>1. "read" # "file"
    OBVIOUS
  <2>. QED
    BY <1>1, <2>1, Zenon DEF Late
<1>. QED
  BY <1>2, Zenon DEF LateInv

\* The state of the disk when the drive reports its first error late.
LEMMA LateSettled ==
    ASSUME InstallInv, ~err,
           \/ todo = LastFile
           \/ todo = <<>> /\ op # Idle /\ op.kind = "file"
    PROVE  Nearly
<1>1. ~Elsewhere
  <2>1. Passive(op) => op = Idle \/ op.kind = "read"
    BY PassiveKind
  <2>2. "read" # "file"
    OBVIOUS
  <2>. QED
    BY <2>1, <2>2, LastStep, Zenon DEF Elsewhere
<1>2. PICK k \in 1 .. 15 : Installing(k)
  BY <1>1, Zenon DEF InstallInv, Somewhere
<1>3. k \in 14 .. 15
  <2>1. todo = Rest(Script("install"), k)
    BY <1>2, Zenon DEF Installing
  <2>2. k = 14 \/ k = 15
    BY <2>1, LastStep, Zenon
  <2>. QED
    BY <2>2
<1>4. k > 6 /\ k \in 8 .. 15
  BY <1>3
<1>5. ~halfway /\ Written(k)
  BY <1>2, <1>4, Zenon DEF Installing
<1>6. PICK j : j = k - 8
  OBVIOUS
<1>7. mbr /\ boot /\ Building(op, fat, root, data, newdir, j)
  BY <1>4, <1>5, <1>6, LateWritten, Zenon
<1>8. j \in 5 .. 7 /\ j - 1 \in 5 .. 7
  BY <1>3, <1>6
<1>9. \E i \in 5 .. 7 : TreeUpTo(root, data, i)
  BY <1>7, <1>8, Zenon DEF Building, Between, Underway, Done, Laid
<1>. QED
  BY <1>5, <1>7, <1>9, Zenon DEF Nearly

\* Nearly depends on this part of the disk only.
LEMMA NearlyKept ==
    ASSUME Nearly, mbr' = mbr, boot' = boot, halfway' = halfway,
           root' = root, data' = data
    PROVE  Nearly'
BY Zenon DEF Nearly

LEMMA PlaceholderLate == ASSUME InstallInv, LateInv, PlaceholderFile PROVE LateInv'
<1>1. /\ At("create") /\ Continues /\ Somewhere /\ op = Idle
  BY Zenon DEF PlaceholderFile, InstallInv, At
<1>2. /\ err' = err /\ root' = root /\ data' = data
      /\ mbr' = mbr /\ boot' = boot /\ halfway' = halfway
  BY DEF PlaceholderFile, CreateFile, partition, disk
<1>3. PICK k \in 1 .. 14 : StepAt("create", k)
  BY <1>1, AtStep, Zenon
<1>4. k \in 8 .. 14 /\ ~MakesDirectory(k - 7)
  BY <1>3, StepPlaces, Zenon
<1>5. k # 13
  BY <1>4 DEF MakesDirectory
<1>6. k + 1 \in 1 .. 15 /\ k + 1 # 14 /\ (k + 1 = 15 => k = 14)
  BY <1>4, <1>5
<1>7. todo' = Rest(Script("install"), k + 1)
  BY <1>1, <1>3, Zenon DEF StepAt, Continues
<1>8. todo' # LastFile /\ (todo' = <<>> => k = 14)
  BY <1>6, <1>7, LastStep, Zenon
<1>9. ASSUME Late(todo', op'), err' PROVE Nearly'
  <2>1. k = 14
    BY <1>8, <1>9, Zenon DEF Late
  <2>2. todo = LastFile
    BY <1>3, <2>1, Zenon DEF StepAt, Installing, LastFile
  <2>3. Nearly
    BY <1>1, <1>2, <1>9, <2>2, Zenon DEF LateInv, Late
  <2>. QED
    BY <1>2, <2>3, NearlyKept, Zenon
<1>. QED
  BY <1>8, <1>9, Zenon DEF LateInv

LEMMA ResumeLate == ASSUME LateInv, Resume PROVE LateInv'
<1>1. /\ op.at = "returned" /\ op' = Idle /\ err' = err /\ root' = root /\ data' = data
      /\ mbr' = mbr /\ boot' = boot /\ halfway' = halfway
      /\ todo' = IF op.kind = "dir" /\ op.ret = 0 THEN <<>> ELSE todo
  BY DEF Resume, Return, partition, disk, GivesUp
<1>2. ASSUME Late(todo', op'), err' PROVE Nearly'
  <2>1. todo' = LastFile
    BY <1>1, <1>2, Zenon DEF Late
  <2>2. todo = LastFile /\ ~(op.kind = "dir" /\ op.ret = 0)
    BY <1>1, <2>1, LastStep
  <2>3. op # Idle
    BY <1>1 DEF Idle
  <2>4. op.kind = "dir"
    BY <2>2, <2>3, Zenon DEF LateInv
  <2>5. Late(todo, op)
    BY <1>1, <2>2, <2>4, Zenon DEF Late
  <2>6. Nearly
    BY <1>1, <1>2, <2>5, Zenon DEF LateInv
  <2>. QED
    BY <1>1, <2>6, NearlyKept, Zenon
<1>. QED
  BY <1>1, <1>2, Zenon DEF LateInv

\* What is under way when the drive fails leaves the disk as it is.
LEMMA FailureKeeps ==
    ASSUME SlowDrive = FALSE, err', ScanFat \/ WriteFat \/ WriteCluster \/ WriteDirEntry
    PROVE  root' = root /\ data' = data
<1>1. ~Answers
  BY DEF Answers
<1>. QED
  BY <1>1 DEF ScanFat, WriteFat, WriteCluster, WriteDirEntry, disk

LEMMA OperateLate ==
    ASSUME SlowDrive = FALSE, InstallInv, TypeInv, LateInv, Operate PROVE LateInv'
<1>1. /\ Proceeds /\ op.at # "returned" /\ todo' = todo
      /\ mbr' = mbr /\ boot' = boot /\ halfway' = halfway
  BY DEF Operate, partition
<1>2. Passive(op) \/ Makes(op, err)
  BY <1>1, Zenon DEF TypeInv, OpFits, HasReturned
<1>3. CASE Passive(op)
  <2>1. Passive(op')
    BY <1>1, <1>3, PassiveProceeds
  <2>2. op # Idle
    <3>1. Idle.at = "idle"
      BY DEF Idle
    <3>2. op.at # "idle"
      BY <1>1 DEF Proceeds, ScanFat, WriteFat, WriteCluster, WriteDirEntry,
                  ReadCluster, FollowChain, Return
    <3>. QED
      BY <3>1, <3>2
  <2>3. todo # LastFile
    <3>1. op.kind = "read" /\ "read" # "dir"
      BY <1>3, <2>2, PassiveKind
    <3>. QED
      BY <2>2, <3>1, Zenon DEF LateInv
  <2>. QED
    BY <1>1, <2>1, <2>3, EarlyStep, Zenon
<1>4. CASE Makes(op, err)
  <2>1. op.at \in {"scan", "mark", "data", "entry"}
    BY <1>4 DEF Makes, SmallJob, CreateOp
  <2>2. ScanFat \/ WriteFat \/ WriteCluster \/ WriteDirEntry
    BY <1>1, <2>1 DEF Proceeds, ReadCluster, FollowChain, Return
  <2>3. Goes(op', err', op.kind)
    BY <1>4, <2>2, ScanGoes, WriteFatGoes, WriteClusterGoes, WriteEntryGoes, Zenon DEF TypeInv
  <2>4. op # Idle
    BY <1>4, MakesGoes, Zenon DEF Goes
  <2>5. todo' = LastFile /\ op' # Idle => op'.kind = "dir"
    BY <1>1, <2>3, <2>4, Zenon DEF Goes, LateInv
  <2>6. ASSUME Late(todo', op'), err' PROVE Nearly'
    <3>1. \/ todo = LastFile /\ ~err
          \/ todo = <<>> /\ op.kind = "file"
      BY <1>1, <2>3, <2>6, Zenon DEF Late, Goes
    <3>2. Nearly
      <4>1. CASE ~err
        BY <2>4, <3>1, <4>1, LateSettled, Zenon
      <4>2. CASE err
        BY <2>4, <3>1, <4>2, Zenon DEF LateInv, Late
      <4>. QED
        BY <4>1, <4>2
    <3>. QED
      BY <1>1, <2>2, <2>6, <3>2, FailureKeeps, NearlyKept, Zenon
  <2>. QED
    BY <2>5, <2>6, Zenon DEF LateInv
<1>. QED
  BY <1>2, <1>3, <1>4

\* A step of a command that makes nothing.
LEMMA OtherStepsLate ==
    ASSUME InstallInv,
           \/ IdentifyDrive \/ RefuseFormat \/ FindPartition \/ MountVolume \/ FindFile
           \/ \E written \in BOOLEAN :
                 \/ WriteMbr(written) \/ WriteBoot(written)
                 \/ ClearFirstFat(written) \/ ClearSecondFat(written) \/ ClearRoot(written)
    PROVE  LateInv'
<1>1. PICK step \in Words \ {"mkdir", "create"} : At(step) /\ (Continues \/ GivesUp)
  BY DEF IdentifyDrive, RefuseFormat, FindPartition, MountVolume, FindFile,
         WriteMbr, WriteBoot, ClearFirstFat, ClearSecondFat, ClearRoot, Write, Words
<1>2. Somewhere /\ op = Idle
  BY <1>1, Zenon DEF InstallInv, At
<1>3. todo' # LastFile
  BY <1>1, <1>2, NotLastYet, Zenon
<1>4. CASE ~FindFile
  <2>1. op' = op
    BY <1>4 DEF IdentifyDrive, RefuseFormat, FindPartition, MountVolume,
         WriteMbr, WriteBoot, ClearFirstFat, ClearSecondFat, ClearRoot, Write, vars
  <2>. QED
    BY <1>2, <1>3, <2>1, EarlyStep, Zenon DEF Passive
<1>5. CASE FindFile
  BY <1>2, <1>3, <1>5, FindFilePassive, EarlyStep, Zenon
<1>. QED
  BY <1>4, <1>5

LEMMA MakeDirectoryLate == ASSUME TypeInv, MakeDirectory PROVE LateInv'
<1>1. op' = Alloc(Begin("dir", 1, 0), "first") /\ files < MaxFiles
  BY DEF MakeDirectory, Mkdir
<1>2. files \in 0 .. MaxFiles /\ "dir" \in {"file", "dir"} /\ 0 \in Clusters \cup {0}
  BY Zenon DEF TypeInv
<1>3. Makes(op', err') /\ op' # Idle /\ op'.kind = "dir"
  BY <1>1, <1>2, BeginsSmall, Zenon
<1>4. op'.at # "returned" /\ op'.kind # "file"
  BY <1>3 DEF Makes, SmallJob, CreateOp
<1>. QED
  BY <1>3, <1>4, Zenon DEF LateInv, Late

LEMMA UserLate ==
    ASSUME (\E command \in Commands : RunCommand(command)) \/ DiskInfo \/ PowerCut
    PROVE  LateInv'
<1>1. op' = Idle
  BY DEF RunCommand, DiskInfo, Identify, PowerCut, Restart
<1>2. todo' = <<>> \/ \E command \in Commands : todo' = Script(command)
  BY Zenon DEF RunCommand, DiskInfo, PowerCut
<1>3. ASSUME NEW command \in Commands PROVE Script(command) # LastFile
  <2>1. CASE command # "install"
    BY <2>1, NothingToMake, LastStep, Zenon
  <2>2. CASE command = "install"
    <3>1. Rest(Script("install"), 1) = Script("install")
      BY <2>2, InstallSteps, WholeScript, Zenon
    <3>2. 1 \in 1 .. 15 /\ 1 # 14
      OBVIOUS
    <3>. QED
      BY <2>2, <3>1, <3>2, LastStep, Zenon
  <2>. QED
    BY <2>1, <2>2
<1>4. todo' # LastFile
  BY <1>2, <1>3, LastStep, Zenon
<1>. QED
  BY <1>1, <1>4, EarlyStep, Zenon DEF Passive

LEMMA LateStep ==
    ASSUME SlowDrive = FALSE, InstallInv, TypeInv, LateInv, [InstallNext]_installVars
    PROVE  LateInv'
<1>1. CASE UNCHANGED installVars
  BY <1>1 DEF installVars, vars, disk, partition, LateInv, Late, Nearly
<1>2. CASE Steps
  BY <1>2, OtherStepsLate, MakeDirectoryLate, PlaceholderLate, OperateLate, ResumeLate,
     Zenon DEF Steps
<1>. QED
  BY <1>1, <1>2, UserLate, Zenon DEF InstallNext
\* What there is when install is about to print "Install complete".
LEMMA CompleteLate ==
    ASSUME LateInv, InstallInv, Complete, err
    PROVE  Nearly
<1>1. op.at = "returned" /\ op.kind = "file" /\ todo = <<>>
  BY Zenon DEF Complete
<1>2. op # Idle
  BY <1>1 DEF Idle
<1>. QED
  BY <1>1, <1>2, Zenon DEF LateInv, Late

\* How many entries the directories hold when all but the last two are made.
Fill(j) == IF j = 5 THEN <<0, 1, 1>> ELSE IF j = 6 THEN <<0, 1, 1, 0>> ELSE <<0, 1, 1, 1>>

LEMMA FilledUpTo ==
    ASSUME NEW j \in 5 .. 7, root \in Seq(EntryRec), TreeUpTo(root, data, j)
    PROVE  [i \in DOMAIN root |-> Len(EntriesIn(root[i].first))] = Fill(j)
<1>1. PICK n : n = Len(root)
  OBVIOUS
<1>2. n \in 0 .. 4 /\ \A i \in 1 .. 4 : i <= n <=> First(i) <= j + 1
  BY <1>1 DEF TreeUpTo, Cluster
<1>3. First(1) = 2 /\ First(2) = 3 /\ First(3) = 5 /\ First(4) = 7
  BY Firsts
<1>4. n = IF j = 5 THEN 3 ELSE 4
  <2>1. 3 <= n
    <3>1. 3 \in 1 .. 4 /\ First(3) <= j + 1
      BY <1>3
    <3>. QED
      BY <1>2, <3>1, Zenon
  <2>2. 4 <= n <=> 7 <= j + 1
    <3>1. 4 \in 1 .. 4
      OBVIOUS
    <3>. QED
      BY <1>2, <1>3, <3>1, Zenon
  <2>. QED
    BY <1>2, <2>1, <2>2
<1>5. DOMAIN root = 1 .. n
  BY <1>1
<1>6. ASSUME NEW i \in 1 .. n
      PROVE  Len(EntriesIn(root[i].first)) = IF i > 1 /\ First(i) <= j THEN 1 ELSE 0
  <2>1. i \in 1 .. 4 /\ Settled(root[i], data[First(i)].entries, i, j)
    BY <1>1, <1>2 DEF TreeUpTo
  <2>2. First(i) # 0
    BY <2>1, Firsts, Numbers
  <2>3. EntriesIn(root[i].first) = data[First(i)].entries
    BY <2>1, <2>2, Zenon DEF EntriesIn, Settled
  <2>4. Len(<<>>) = 0
    OBVIOUS
  <2>. QED
    BY <2>1, <2>3, <2>4, Zenon DEF Settled
<1>7. PICK a : a = [i \in DOMAIN root |-> Len(EntriesIn(root[i].first))]
  OBVIOUS
<1>8. a = [i \in 1 .. n |-> IF i > 1 /\ First(i) <= j THEN 1 ELSE 0]
  BY <1>5, <1>6, <1>7
<1>9. a = Fill(j)
  <2>1. CASE j = 5
    <3>1. a = [i \in 1 .. 3 |-> IF i > 1 THEN 1 ELSE 0]
      <4>1. ASSUME NEW i \in 1 .. 3 PROVE First(i) <= 5
        BY <1>3
      <4>. QED
        BY <1>4, <1>8, <2>1, <4>1
    <3>2. a = <<0, 1, 1>>
      BY ONLY <3>1
    <3>. QED
      BY <2>1, <3>2, Zenon DEF Fill
  <2>2. CASE j = 6
    <3>1. a = [i \in 1 .. 4 |-> IF i = 2 \/ i = 3 THEN 1 ELSE 0]
      <4>1. ASSUME NEW i \in 1 .. 4 PROVE i > 1 /\ First(i) <= 6 <=> i = 2 \/ i = 3
        BY <1>3
      <4>. QED
        BY <1>4, <1>8, <2>2, <4>1
    <3>2. a = <<0, 1, 1, 0>>
      BY ONLY <3>1
    <3>. QED
      BY <2>2, <3>2 DEF Fill
  <2>3. CASE j = 7
    <3>1. a = [i \in 1 .. 4 |-> IF i > 1 THEN 1 ELSE 0]
      <4>1. ASSUME NEW i \in 1 .. 4 PROVE First(i) <= 7
        BY <1>3
      <4>. QED
        BY <1>4, <1>8, <2>3, <4>1
    <3>2. a = <<0, 1, 1, 1>>
      BY ONLY <3>1
    <3>. QED
      BY <2>3, <3>2 DEF Fill
  <2>. QED
    BY <2>1, <2>2, <2>3
<1>. QED
  BY <1>7, <1>9, Zenon

\* When install completes, the disk holds the four directories, and a file in each
\* but the first (sysinfo_commands.c:305-332), whatever was on it before; after an
\* error, "Install complete" is printed of a disk without the last file, or the last
\* directory and its file, at worst.  This is of a drive that fails for good when it
\* fails.
THEOREM CompleteIsInstalled == SlowDrive = FALSE /\ InstallSpec => []CompleteMeansInstalled
<1>. SUFFICES ASSUME SlowDrive = FALSE PROVE InstallSpec => []CompleteMeansInstalled
  OBVIOUS
<1>. DEFINE I == TypeInv /\ LateInv
<1>1. InstallInit => I
  <2>1. InstallInit => op = Idle /\ todo = <<>>
    BY DEF InstallInit, Init
  <2>2. InstallInit => LateInv
    BY <2>1, LastStep, Zenon DEF LateInv, Late
  <2>. QED
    BY <2>2, TypeInvInit
<1>2. InstallInv /\ I /\ [InstallNext]_installVars => I'
  BY TypeInvStep, LateStep
<1>3. InstallInv /\ I => CompleteMeansInstalled
  <2>. SUFFICES ASSUME InstallInv, LateInv, Complete PROVE CompleteMeansInstalled
    BY DEF CompleteMeansInstalled
  <2>1. root \in Seq(EntryRec)
    BY Zenon DEF InstallInv, DiskType
  <2>2. CASE ~err
    <3>1. mbr /\ boot /\ ~halfway /\ TreeUpTo(root, data, 7)
      BY <2>2, CompleteFacts, Zenon DEF Laid
    <3>2. 7 \in 5 .. 7 /\ Fill(7) = <<0, 1, 1, 1>>
      BY DEF Fill
    <3>3. [i \in DOMAIN root |-> Len(EntriesIn(root[i].first))] = <<0, 1, 1, 1>>
      BY <2>1, <3>1, <3>2, FilledUpTo, Zenon
    <3>. QED
      BY <2>2, <3>1, <3>3, Zenon DEF CompleteMeansInstalled
  <2>3. CASE err
    <3>1. mbr /\ boot /\ ~halfway /\ \E j \in 5 .. 7 : TreeUpTo(root, data, j)
      BY <2>3, CompleteLate, Zenon DEF Nearly
    <3>2. PICK j \in 5 .. 7 : TreeUpTo(root, data, j)
      BY <3>1
    <3>3. PICK a : a = [i \in DOMAIN root |-> Len(EntriesIn(root[i].first))]
      OBVIOUS
    <3>4. a = Fill(j)
      BY <2>1, <3>2, <3>3, FilledUpTo, Zenon
    <3>5. a = <<0, 1, 1>> \/ a = <<0, 1, 1, 0>> \/ a = <<0, 1, 1, 1>>
      BY <3>4, Zenon DEF Fill
    <3>. QED
      BY <2>3, <3>1, <3>3, <3>5, Zenon DEF CompleteMeansInstalled
  <2>. QED
    BY <2>2, <2>3
<1>4. InstallSpec => []InstallInv
  BY InstallInvariant
<1>. QED
  BY <1>1, <1>2, <1>3, <1>4, PTL DEF InstallSpec
================================================================================
