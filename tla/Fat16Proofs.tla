------------------------------ MODULE Fat16Proofs ------------------------------
(****************************************************************************)
(* Proofs about Fat16 on a drive that fails for good when it fails, for     *)
(* every number of clusters, files and parts: whatever step an error or a   *)
(* power cut stops an operation at, what is listed is complete, the second  *)
(* copy of the FAT is never ahead, and success is reported truthfully.      *)
(****************************************************************************)
EXTENDS Fat16, WellFoundedInduction, TLAPS

EntryRec == [kind : {"file", "dir"}, id : Nat, first : Nat, parts : Nat]

ClusterRec == [file : Nat, part : Nat, entries : Seq(EntryRec)]

\* An operation that creates a file or a directory, one that reads a file, and
\* one that has returned.
CreateOp ==
    [at : {"scan", "mark", "data", "entry"}, kind : {"file", "dir"}, id : Nat,
     parts : Nat, dir : Nat, first : Nat, cluster : Nat, written : Nat,
     target : Nat, value : Nat, copy : Copies, then : {"first", "next", "linked", "last"}]

ReadOp ==
    [at : {"read", "follow"}, kind : {"read"}, id : Nat, parts : Nat, cluster : Nat,
     done : Nat, good : BOOLEAN]

Outcome ==
    [at : {"returned"}, kind : {"file", "dir", "read"}, ret : {0, 1}, good : BOOLEAN,
     first : Nat]

Elements(s) == {s[i] : i \in DOMAIN s}

\* The directories of the root r among the entries, and where new ones can go;
\* what is listed in r and in them, when the clusters are d.
SubdirsOf(r) == {e \in Elements(r) : e.kind = "dir"}

DirsOf(r) == {0} \cup {e.first : e \in SubdirsOf(r)}

ListedIn(r, d) ==
    Elements(r) \cup UNION {Elements(d[e.first].entries) : e \in SubdirsOf(r)}

\* The clusters with parts of file id are a chain of n parts from first, in the
\* FAT f and the clusters d.  A cluster knows its part, so the chain needs no
\* recursion: each part's entry leads to the next part.
ChainSound(f, d, id, first, n) ==
    /\ n > 0 => first \in Clusters /\ d[first].file = id /\ d[first].part = 1
    /\ \A x \in Clusters : d[x].file = id =>
          /\ d[x].part \in 1 .. n /\ f[x] # 0
          /\ d[x].part < n => /\ f[x] \in Clusters /\ d[f[x]].file = id
                              /\ d[f[x]].part = d[x].part + 1
    /\ \A x, y \in Clusters :
          d[x].file = id /\ d[y].file = id /\ d[x].part = d[y].part => x = y

ChainEnds(f, d, id, n) == \A x \in Clusters : d[x].file = id /\ d[x].part = n => f[x] = EOC

EntrySound(f, d, n, e) ==
    /\ e.id \in 1 .. n
    /\ e.kind = "dir" => e.parts = 1
    /\ ChainSound(f, d, e.id, e.first, e.parts) /\ ChainEnds(f, d, e.id, e.parts)

\* Cluster x is no part of what is listed, L, or of file id.
Fresh(d, L, id, x) == x \in Clusters => d[x].file # id /\ \A e \in L : d[x].file # e.id

\* A disk of the right shape, and all that is listed on it complete.
DiskType(F, r, d, n) ==
    /\ F \in [Copies -> [Entries -> Values]]
    /\ r \in Seq(EntryRec)
    /\ d \in [Clusters -> ClusterRec]
    /\ n \in Nat
    /\ \A x \in Clusters : d[x].file <= n

DiskSound(F, r, d, n) ==
    /\ DiskType(F, r, d, n)
    /\ \A e \in ListedIn(r, d) : EntrySound(F[1], d, n, e)

--------------------------------------------------------------------------------
\* The operation o under way, while the drive has reported no error, over the
\* FAT f, the clusters d, the listed entries L and the directories D.

\* o.cluster is the cluster of the last part written.
Tip(o, d) ==
    /\ o.cluster \in Clusters /\ o.written > 0
    /\ \A x \in Clusters : d[x].file = o.id /\ d[x].part = o.written <=> x = o.cluster

\* It looks for a cluster: the first, or the next.
Looking(o, d) ==
    /\ o.written < o.parts
    /\ \/ o.then = "first" /\ o.written = 0
       \/ o.then = "next" /\ Tip(o, d)

AtScan(o, d) == o.at = "scan" /\ Looking(o, d) /\ o.target \in Entries

AtMarkNew(o, f, d, L) ==
    /\ o.at = "mark" /\ Looking(o, d)
    /\ o.target \in Entries /\ o.value = EOC /\ Fresh(d, L, o.id, o.target)
    /\ o.copy = 2 => f[o.target] = EOC

AtMarkLink(o, f, d, L) ==
    /\ o.at = "mark" /\ o.then = "linked" /\ Tip(o, d) /\ o.written < o.parts
    /\ o.target = o.cluster
    /\ o.value \in Entries /\ Fresh(d, L, o.id, o.value) /\ f[o.value] = EOC
    /\ o.copy = 2 => f[o.cluster] = o.value

AtMarkLast(o, f, d) ==
    /\ o.at = "mark" /\ o.then = "last" /\ o.kind = "file"
    /\ Tip(o, d) /\ o.written = o.parts
    /\ o.target = o.cluster /\ o.value = EOC
    /\ o.copy = 2 => f[o.cluster] = EOC

AtData(o, f, d, L) ==
    /\ o.at = "data" /\ o.written < o.parts
    /\ o.cluster \in Entries /\ Fresh(d, L, o.id, o.cluster) /\ f[o.cluster] = EOC
    /\ o.written = 0 => o.first = o.cluster
    /\ \A x \in Clusters : d[x].file = o.id /\ d[x].part = o.written => f[x] = o.cluster

AtEntry(o, f, d) ==
    /\ o.at = "entry" /\ o.written = o.parts
    /\ ChainEnds(f, d, o.id, o.parts)
    /\ o.kind = "dir" => d[o.first].entries = <<>>

\* What is written so far is a chain that nothing listed has a part in.
Started(o, f, d, L, D, n) ==
    /\ o \in CreateOp /\ o.id = n /\ o.id >= 1 /\ o.dir \in D
    /\ o.kind = "dir" => o.parts = 1 /\ o.dir = 0
    /\ \A e \in L : e.id # o.id
    /\ ChainSound(f, d, o.id, o.first, o.written)

Creating(o, f, d, L, D, n) ==
    /\ Started(o, f, d, L, D, n)
    /\ \/ AtScan(o, d) \/ AtMarkNew(o, f, d, L) \/ AtMarkLink(o, f, d, L)
       \/ AtMarkLast(o, f, d) \/ AtData(o, f, d, L) \/ AtEntry(o, f, d)

Reading(o, d, L) ==
    /\ o \in ReadOp /\ o.good = TRUE /\ o.done < o.parts
    /\ \E e \in L : e.id = o.id /\ e.parts = o.parts
    /\ o.cluster \in Clusters /\ d[o.cluster].file = o.id
    /\ d[o.cluster].part = IF o.at = "read" THEN o.done + 1 ELSE o.done

Finished(o, D) ==
    /\ o \in Outcome
    /\ o.ret = 1 => o.good = TRUE
    /\ o.ret = 1 /\ o.kind = "dir" => o.first \in D

OpSound(o, f, d, L, D, n) ==
    \/ o = Idle
    \/ Creating(o, f, d, L, D, n)
    \/ Reading(o, d, L)
    \/ Finished(o, D)

\* The conjunction that is inductive: once the drive has reported an error the
\* disk stays as it is, so nothing need be said of the operation.
DiskInv == DiskSound(fat, root, data, files)

OpInv == OpSound(op, fat[1], data, ListedIn(root, data), DirsOf(root), files)

Fat16Inv == DiskInv /\ err \in BOOLEAN /\ (~err => OpInv)

--------------------------------------------------------------------------------
\* Chains and the disk.

LEMMA Numbers ==
    /\ Clusters \subseteq Entries /\ Clusters \subseteq Nat /\ Entries \subseteq Nat
    /\ EOC \notin Entries /\ EOC \notin Clusters /\ EOC # 0 /\ 0 \notin Entries
    /\ 0 \notin Clusters /\ 2 \in Entries /\ Entries \subseteq Values
    /\ EOC \in Values /\ Values \subseteq Nat
  BY Fat16Assumption DEF Clusters, Entries, EOC, Values

\* A chain stays one while the clusters of its file keep what they hold and their
\* entries in the FAT.
LEMMA ChainUnaffected ==
    ASSUME NEW f, NEW f2, NEW d, NEW d2, NEW id, NEW first, NEW n,
           \A x \in Clusters : d[x].file = id \/ d2[x].file = id =>
               d2[x].file = d[x].file /\ d2[x].part = d[x].part /\ f2[x] = f[x]
    PROVE  /\ ChainSound(f, d, id, first, n) => ChainSound(f2, d2, id, first, n)
           /\ ChainEnds(f, d, id, n) => ChainEnds(f2, d2, id, n)
<1>1. ASSUME ChainSound(f, d, id, first, n) PROVE ChainSound(f2, d2, id, first, n)
  <2>1. n > 0 => first \in Clusters /\ d2[first].file = id /\ d2[first].part = 1
    BY <1>1, Zenon DEF ChainSound
  <2>2. ASSUME NEW x \in Clusters, d2[x].file = id
        PROVE  /\ d2[x].part \in 1 .. n /\ f2[x] # 0
               /\ d2[x].part < n => /\ f2[x] \in Clusters /\ d2[f2[x]].file = id
                                    /\ d2[f2[x]].part = d2[x].part + 1
    <3>1. d[x].file = id /\ d2[x].part = d[x].part /\ f2[x] = f[x]
      BY <2>2
    <3>2. /\ d[x].part \in 1 .. n /\ f[x] # 0
          /\ d[x].part < n => /\ f[x] \in Clusters /\ d[f[x]].file = id
                              /\ d[f[x]].part = d[x].part + 1
      BY <1>1, <3>1, Zenon DEF ChainSound
    <3>3. f[x] \in Clusters /\ d[f[x]].file = id =>
             d2[f[x]].file = id /\ d2[f[x]].part = d[f[x]].part
      OBVIOUS
    <3>. QED
      BY <3>1, <3>2, <3>3, Zenon
  <2>3. ASSUME NEW x \in Clusters, NEW y \in Clusters,
               d2[x].file = id, d2[y].file = id, d2[x].part = d2[y].part
        PROVE  x = y
    <3>1. d[x].file = id /\ d[y].file = id /\ d[x].part = d[y].part
      BY <2>3
    <3>. QED
      BY <1>1, <3>1, Zenon DEF ChainSound
  <2>. QED
    BY <2>1, <2>2, <2>3, Zenon DEF ChainSound
<1>2. ASSUME ChainEnds(f, d, id, n) PROVE ChainEnds(f2, d2, id, n)
  BY <1>2, Zenon DEF ChainEnds
<1>. QED
  BY <1>1, <1>2

\* The same when only the FAT is written.
SameLinks(f, f2, d, id) == \A x \in Clusters : d[x].file = id => f2[x] = f[x]

LEMMA ChainFatUnaffected ==
    ASSUME NEW f, NEW f2, NEW d, NEW id, NEW first, NEW n, SameLinks(f, f2, d, id)
    PROVE  /\ ChainSound(f, d, id, first, n) => ChainSound(f2, d, id, first, n)
           /\ ChainEnds(f, d, id, n) => ChainEnds(f2, d, id, n)
<1>1. \A x \in Clusters : d[x].file = id \/ d[x].file = id =>
         d[x].file = d[x].file /\ d[x].part = d[x].part /\ f2[x] = f[x]
  BY Zenon DEF SameLinks
<1>. QED
  BY <1>1, ChainUnaffected

\* So a listed entry stays sound, whatever else is created.
LEMMA EntryUnaffected ==
    ASSUME NEW f, NEW f2, NEW d, NEW d2, NEW n \in Nat, NEW n2 \in Nat, n <= n2,
           NEW e, EntrySound(f, d, n, e),
           \A x \in Clusters : d[x].file = e.id \/ d2[x].file = e.id =>
               d2[x].file = d[x].file /\ d2[x].part = d[x].part /\ f2[x] = f[x]
    PROVE  EntrySound(f2, d2, n2, e)
<1>1. e.id \in 1 .. n2
  BY DEF EntrySound
<1>. QED
  BY <1>1, ChainUnaffected, Zenon DEF EntrySound

LEMMA EntryFatUnaffected ==
    ASSUME NEW f, NEW f2, NEW d, NEW n, NEW e, EntrySound(f, d, n, e),
           SameLinks(f, f2, d, e.id)
    PROVE  EntrySound(f2, d, n, e)
  BY ChainFatUnaffected, Zenon DEF EntrySound

\* What is listed are entries, and the directories' clusters exist.
LEMMA ListedTypes ==
    ASSUME NEW F, NEW r, NEW d, NEW n, DiskSound(F, r, d, n)
    PROVE  /\ \A e \in SubdirsOf(r) :
                  /\ e \in ListedIn(r, d) /\ e.first \in Clusters
                  /\ d[e.first].file = e.id
           /\ ListedIn(r, d) \subseteq EntryRec
           /\ DirsOf(r) \subseteq {0} \cup Clusters
<1>1. ASSUME NEW e \in SubdirsOf(r)
      PROVE  /\ e \in ListedIn(r, d) /\ e.first \in Clusters
             /\ d[e.first].file = e.id
  <2>1. e \in ListedIn(r, d) /\ e.kind = "dir"
    BY <1>1 DEF SubdirsOf, ListedIn
  <2>2. EntrySound(F[1], d, n, e)
    BY <2>1, Zenon DEF DiskSound
  <2>3. e.parts = 1 /\ 1 > 0
    BY <2>1, <2>2 DEF EntrySound
  <2>. QED
    BY <2>1, <2>2, <2>3 DEF EntrySound, ChainSound
<1>2. \A s \in Seq(EntryRec) : Elements(s) \subseteq EntryRec
  BY DEF Elements
<1>3. ASSUME NEW e \in ListedIn(r, d) PROVE e \in EntryRec
  <2>1. CASE e \in Elements(r)
    BY <1>2, <2>1 DEF DiskSound, DiskType
  <2>2. ASSUME NEW y \in SubdirsOf(r), e \in Elements(d[y.first].entries)
        PROVE  e \in EntryRec
    <3>1. d[y.first] \in ClusterRec
      BY <1>1, <2>2 DEF DiskSound, DiskType
    <3>2. d[y.first].entries \in Seq(EntryRec)
      BY <3>1 DEF ClusterRec
    <3>. QED
      BY <3>2, <2>2, <1>2
  <2>. QED
    BY <1>3, <2>1, <2>2, Zenon DEF ListedIn
<1>4. DirsOf(r) \subseteq {0} \cup Clusters
  BY <1>1, Zenon DEF DirsOf
<1>. QED
  BY <1>1, <1>3, <1>4

LEMMA ListedAreListedIn ==
    Listed \subseteq ListedIn(root, data) /\ Directories = DirsOf(root)
<1>1. Directories = DirsOf(root)
  BY DEF Directories, DirsOf, SubdirsOf, Elements
<1>2. ASSUME NEW dir \in Directories, NEW i \in DOMAIN EntriesIn(dir)
      PROVE  EntriesIn(dir)[i] \in ListedIn(root, data)
  <2>1. CASE dir = 0
    BY <1>2, <2>1, Zenon DEF EntriesIn, ListedIn, Elements
  <2>2. CASE dir # 0
    <3>1. PICK e \in SubdirsOf(root) : dir = e.first
      BY <1>1, <2>2, Zenon DEF DirsOf
    <3>2. EntriesIn(dir)[i] \in Elements(data[e.first].entries)
      BY <1>2, <2>2, <3>1, Zenon DEF EntriesIn, Elements
    <3>. QED
      BY <3>1, <3>2, Zenon DEF ListedIn
  <2>. QED
    BY <2>1, <2>2
<1>3. ASSUME NEW e \in Listed PROVE e \in ListedIn(root, data)
  <2>1. PICK dir \in Directories : e \in {EntriesIn(dir)[i] : i \in DOMAIN EntriesIn(dir)}
    BY <1>3, Zenon DEF Listed
  <2>2. PICK i \in DOMAIN EntriesIn(dir) : e = EntriesIn(dir)[i]
    BY <2>1, Zenon
  <2>. QED
    BY <1>2, <2>2, Zenon
<1>. QED
  BY <1>1, <1>3

\* An entry put at the end of a directory is listed, and nothing else is new.
LEMMA AppendedElements ==
    ASSUME NEW s \in Seq(EntryRec), NEW e \in EntryRec
    PROVE  /\ Append(s, e) \in Seq(EntryRec)
           /\ Elements(Append(s, e)) = Elements(s) \cup {e}
<1>1. Append(s, e) \in Seq(EntryRec)
  OBVIOUS
<1>2. Elements(Append(s, e)) \subseteq Elements(s) \cup {e}
  BY DEF Elements
<1>3. Elements(s) \subseteq Elements(Append(s, e))
  BY DEF Elements
<1>4. e \in Elements(Append(s, e))
  <2>1. Len(s) + 1 \in DOMAIN Append(s, e) /\ Append(s, e)[Len(s) + 1] = e
    OBVIOUS
  <2>. QED
    BY <2>1, Zenon DEF Elements
<1>. QED
  BY <1>1, <1>2, <1>3, <1>4

--------------------------------------------------------------------------------
\* What a write does to the disk.

\* An entry of the FAT that nothing listed uses can be written, in either copy.
LEMMA FatWritten ==
    ASSUME NEW F, NEW r, NEW d, NEW n, DiskSound(F, r, d, n),
           NEW t \in Entries, NEW v \in Values, NEW c \in Copies,
           \A e \in ListedIn(r, d) : t \in Clusters => d[t].file # e.id
    PROVE  DiskSound([F EXCEPT ![c][t] = v], r, d, n)
<1>. DEFINE F2 == [F EXCEPT ![c][t] = v]
<1>1. F \in [Copies -> [Entries -> Values]] /\ n \in Nat
  BY DEF DiskSound, DiskType
<1>2. F2 \in [Copies -> [Entries -> Values]]
  BY <1>1
<1>3. \A x \in Entries : x # t => F2[1][x] = F[1][x]
  BY <1>1 DEF Copies
<1>4. ASSUME NEW e \in ListedIn(r, d) PROVE EntrySound(F2[1], d, n, e)
  <2>1. PICK f, f2 : f = F[1] /\ f2 = F2[1]
    OBVIOUS
  <2>2. \A x \in Clusters : d[x].file = e.id => f2[x] = f[x]
    BY <1>3, <1>4, <2>1, Numbers
  <2>3. EntrySound(f, d, n, e)
    BY <2>1, Zenon DEF DiskSound
  <2>4. EntrySound(f2, d, n, e)
    BY <2>2, <2>3, EntryFatUnaffected, Zenon DEF SameLinks
  <2>. QED
    BY <2>1, <2>4, Zenon
<1>5. DiskType(F2, r, d, n)
  BY <1>2 DEF DiskSound, DiskType
<1>. QED
  BY <1>4, <1>5, Zenon DEF DiskSound

\* The clusters d2 are d except for cluster x, which belongs to file id.
GivenTo(d, d2, x, id) ==
    /\ d2 \in [Clusters -> ClusterRec] /\ d2[x].file = id
    /\ \A y \in Clusters : y # x => d2[y] = d[y]

\* Cluster x is in nothing that is listed, and neither is file id.
Unlisted(d, L, x, id) == \A e \in L : e.id # id /\ d[x].file # e.id

\* A cluster that nothing listed uses can be given to the file that is being
\* created.
LEMMA ClusterWritten ==
    ASSUME NEW F, NEW r, NEW d, NEW n, DiskSound(F, r, d, n),
           NEW x, NEW id, id \in 1 .. n, Unlisted(d, ListedIn(r, d), x, id),
           NEW d2, GivenTo(d, d2, x, id)
    PROVE  DiskSound(F, r, d2, n) /\ ListedIn(r, d2) = ListedIn(r, d)
<1>1. n \in Nat /\ d \in [Clusters -> ClusterRec] /\ (\A y \in Clusters : d[y].file <= n)
  BY DEF DiskSound, DiskType
<1>2. \A e \in ListedIn(r, d) : e.id # id /\ d[x].file # e.id
  BY Zenon DEF Unlisted
<1>3. d2 \in [Clusters -> ClusterRec]
  BY Zenon DEF GivenTo
<1>4. d2[x].file = id /\ \A y \in Clusters : y # x => d2[y] = d[y]
  BY Zenon DEF GivenTo
<1>5. DiskType(F, r, d2, n)
  BY <1>1, <1>3, <1>4 DEF DiskSound, DiskType
<1>6. ASSUME NEW e \in SubdirsOf(r) PROVE d2[e.first] = d[e.first]
  <2>1. e.first \in Clusters /\ d[e.first].file = e.id /\ e \in ListedIn(r, d)
    BY ListedTypes, Zenon
  <2>. QED
    BY <1>2, <1>4, <2>1, Zenon
<1>7. ListedIn(r, d2) = ListedIn(r, d)
  BY <1>6, Zenon DEF ListedIn
<1>8. ASSUME NEW e \in ListedIn(r, d) PROVE EntrySound(F[1], d2, n, e)
  <2>1. ASSUME NEW y \in Clusters, d[y].file = e.id \/ d2[y].file = e.id
        PROVE  d2[y].file = d[y].file /\ d2[y].part = d[y].part
    BY <1>2, <1>4, <2>1, Zenon
  <2>2. EntrySound(F[1], d, n, e)
    BY Zenon DEF DiskSound
  <2>3. n <= n
    BY <1>1
  <2>. QED
    BY <1>1, <2>1, <2>2, <2>3, EntryUnaffected, Zenon
<1>. QED
  BY <1>5, <1>7, <1>8, Zenon DEF DiskSound

\* A sound entry can be put into the root, and into a directory.
LEMMA RootEntryWritten ==
    ASSUME NEW F, NEW r, NEW d, NEW n, DiskSound(F, r, d, n),
           NEW e \in EntryRec, EntrySound(F[1], d, n, e),
           e.kind = "dir" => d[e.first].entries = <<>>
    PROVE  /\ DiskSound(F, Append(r, e), d, n)
           /\ e.kind = "dir" => e.first \in DirsOf(Append(r, e))
<1>1. r \in Seq(EntryRec)
  BY DEF DiskSound, DiskType
<1>2. Append(r, e) \in Seq(EntryRec) /\ Elements(Append(r, e)) = Elements(r) \cup {e}
  BY <1>1, AppendedElements, Zenon
<1>3. SubdirsOf(Append(r, e)) \subseteq SubdirsOf(r) \cup {e}
  BY <1>2, Zenon DEF SubdirsOf
<1>4. e \in SubdirsOf(Append(r, e)) => Elements(d[e.first].entries) = {}
  <2>1. Elements(<<>>) = {}
    BY DEF Elements
  <2>. QED
    BY <2>1, Zenon DEF SubdirsOf
<1>5. ListedIn(Append(r, e), d) \subseteq ListedIn(r, d) \cup {e}
  BY <1>2, <1>3, <1>4, Zenon DEF ListedIn
<1>6. \A y \in ListedIn(Append(r, e), d) : EntrySound(F[1], d, n, y)
  BY <1>5, Zenon DEF DiskSound
<1>7. DiskType(F, Append(r, e), d, n)
  BY <1>2 DEF DiskSound, DiskType
<1>8. e.kind = "dir" => e.first \in DirsOf(Append(r, e))
  BY <1>2, Zenon DEF DirsOf, SubdirsOf
<1>. QED
  BY <1>6, <1>7, <1>8, Zenon DEF DiskSound

LEMMA DirEntryWritten ==
    ASSUME NEW F, NEW r, NEW d, NEW n, DiskSound(F, r, d, n),
           NEW e \in EntryRec, EntrySound(F[1], d, n, e), NEW x \in Clusters
    PROVE  DiskSound(F, r, [d EXCEPT ![x].entries = Append(@, e)], n)
<1>. DEFINE d2 == [d EXCEPT ![x].entries = Append(@, e)]
<1>1. n \in Nat /\ d \in [Clusters -> ClusterRec] /\ (\A y \in Clusters : d[y].file <= n)
  BY DEF DiskSound, DiskType
<1>2. d[x].entries \in Seq(EntryRec)
  BY <1>1 DEF ClusterRec
<1>3. /\ Append(d[x].entries, e) \in Seq(EntryRec)
      /\ Elements(Append(d[x].entries, e)) = Elements(d[x].entries) \cup {e}
  BY <1>2, AppendedElements, Zenon
<1>4. d2 \in [Clusters -> ClusterRec]
  BY <1>1, <1>3 DEF ClusterRec
<1>5. \A y \in Clusters : d2[y].file = d[y].file /\ d2[y].part = d[y].part
  BY <1>1 DEF ClusterRec
<1>6. /\ \A y \in Clusters : y # x => d2[y].entries = d[y].entries
      /\ d2[x].entries = Append(d[x].entries, e)
  BY <1>1 DEF ClusterRec
<1>7. DiskType(F, r, d2, n)
  BY <1>1, <1>4, <1>5 DEF DiskSound, DiskType
<1>8. ASSUME NEW y \in SubdirsOf(r)
      PROVE  Elements(d2[y.first].entries) \subseteq Elements(d[y.first].entries) \cup {e}
  BY <1>3, <1>6, ListedTypes, Zenon
<1>9. ListedIn(r, d2) \subseteq ListedIn(r, d) \cup {e}
  BY <1>8, Zenon DEF ListedIn
<1>10. ASSUME NEW y, EntrySound(F[1], d, n, y) PROVE EntrySound(F[1], d2, n, y)
  <2>1. n <= n
    BY <1>1
  <2>. QED
    BY <1>1, <1>5, <1>10, <2>1, EntryUnaffected, Zenon
<1>11. \A y \in ListedIn(r, d2) : EntrySound(F[1], d2, n, y)
  BY <1>9, <1>10, Zenon DEF DiskSound
<1>. QED
  BY <1>7, <1>11, Zenon DEF DiskSound

\* Nothing changes when only the number of files does.
LEMMA DiskStays ==
    ASSUME NEW F, NEW r, NEW d, NEW n, DiskSound(F, r, d, n), NEW n2 \in Nat, n <= n2
    PROVE  DiskSound(F, r, d, n2)
<1>1. n \in Nat
  BY DEF DiskSound, DiskType
<1>2. DiskType(F, r, d, n2)
  BY <1>1 DEF DiskSound, DiskType, ClusterRec
<1>3. \A e \in ListedIn(r, d) : EntrySound(F[1], d, n2, e)
  BY <1>1, EntryUnaffected, Zenon DEF DiskSound
<1>. QED
  BY <1>2, <1>3, Zenon DEF DiskSound

--------------------------------------------------------------------------------
\* The fields of an operation after each of its steps.

SameJob(o, p) ==
    /\ p.kind = o.kind /\ p.id = o.id /\ p.parts = o.parts /\ p.dir = o.dir
    /\ p.first = o.first /\ p.cluster = o.cluster /\ p.written = o.written

LEMMA AllocFields ==
    ASSUME NEW o \in CreateOp, NEW then \in {"first", "next"}, NEW p, p = Alloc(o, then)
    PROVE  /\ p \in CreateOp /\ SameJob(o, p)
           /\ p.at = "scan" /\ p.target = 2 /\ p.then = then
  BY DEF Alloc, CreateOp, SameJob

LEMMA MarkFields ==
    ASSUME NEW o \in CreateOp, NEW cluster, NEW value, NEW then,
           cluster \in Nat, value \in Nat, then \in {"first", "next", "linked", "last"},
           NEW p, p = Mark(o, cluster, value, then)
    PROVE  /\ p \in CreateOp /\ SameJob(o, p) /\ p.at = "mark" /\ p.copy = 1
           /\ p.target = cluster /\ p.value = value /\ p.then = then
  BY DEF Mark, CreateOp, SameJob, Copies

LEMMA NextTargetFields ==
    ASSUME NEW o \in CreateOp, NEW p, p = [o EXCEPT !.target = @ + 1]
    PROVE  /\ p \in CreateOp /\ SameJob(o, p)
           /\ p.at = o.at /\ p.target = o.target + 1 /\ p.then = o.then
  BY DEF CreateOp, SameJob

LEMMA SecondCopyFields ==
    ASSUME NEW o \in CreateOp, NEW p, p = [o EXCEPT !.copy = 2]
    PROVE  /\ p \in CreateOp /\ SameJob(o, p) /\ p.copy = 2
           /\ p.at = o.at /\ p.target = o.target /\ p.value = o.value /\ p.then = o.then
  BY DEF CreateOp, SameJob, Copies

LEMMA AfterMarkFirst ==
    ASSUME NEW o \in CreateOp, o.then = "first", NEW p, p = AfterMark(o)
    PROVE  /\ p \in CreateOp /\ p.at = "data"
           /\ p.kind = o.kind /\ p.id = o.id /\ p.parts = o.parts /\ p.dir = o.dir
           /\ p.first = o.target /\ p.cluster = o.target /\ p.written = o.written
<1>1. p = [o EXCEPT !.first = o.target, !.cluster = o.target, !.at = "data"]
  BY DEF AfterMark
<1>. QED
  BY <1>1 DEF CreateOp

LEMMA AfterMarkNext ==
    ASSUME NEW o \in CreateOp, o.then = "next"
    PROVE  AfterMark(o) = Mark(o, o.cluster, o.target, "linked")
  BY DEF AfterMark

LEMMA AfterMarkLinked ==
    ASSUME NEW o \in CreateOp, o.then = "linked", NEW p, p = AfterMark(o)
    PROVE  /\ p \in CreateOp /\ p.at = "data"
           /\ p.kind = o.kind /\ p.id = o.id /\ p.parts = o.parts /\ p.dir = o.dir
           /\ p.first = o.first /\ p.cluster = o.value /\ p.written = o.written
<1>1. p = [o EXCEPT !.cluster = o.value, !.at = "data"]
  BY DEF AfterMark
<1>. QED
  BY <1>1 DEF CreateOp

LEMMA AfterMarkLast ==
    ASSUME NEW o \in CreateOp, o.then = "last", NEW p, p = AfterMark(o)
    PROVE  p \in CreateOp /\ p.at = "entry" /\ SameJob(o, p)
<1>1. p = [o EXCEPT !.at = "entry"]
  BY DEF AfterMark
<1>. QED
  BY <1>1 DEF CreateOp, SameJob

\* The operation with one more part written.
OneMore(o, p) ==
    /\ p.kind = o.kind /\ p.id = o.id /\ p.parts = o.parts /\ p.dir = o.dir
    /\ p.first = o.first /\ p.cluster = o.cluster /\ p.written = o.written + 1

LEMMA AfterDataFields ==
    ASSUME op \in CreateOp, op.written < op.parts, op.kind = "dir" => op.parts = 1,
           NEW p, p = AfterData
    PROVE  /\ p \in CreateOp /\ OneMore(op, p)
           /\ \/ p.at = "entry" /\ op.kind = "dir"
              \/ /\ p.at = "scan" /\ p.target = 2 /\ p.then = "next"
                 /\ op.kind = "file" /\ op.written + 1 < op.parts
              \/ /\ p.at = "mark" /\ p.copy = 1 /\ p.target = op.cluster
                 /\ p.value = EOC /\ p.then = "last"
                 /\ op.kind = "file" /\ op.written + 1 = op.parts
<1>1. PICK o : o = [op EXCEPT !.written = @ + 1]
  OBVIOUS
<1>2. o \in CreateOp /\ OneMore(op, o) /\ op.kind \in {"file", "dir"}
  BY <1>1 DEF CreateOp, OneMore
<1>3. op.written \in Nat /\ op.parts \in Nat
  BY DEF CreateOp
<1>4. CASE op.kind = "dir"
  <2>1. p = [o EXCEPT !.at = "entry"]
    BY <1>1, <1>2, <1>4 DEF AfterData, OneMore
  <2>. QED
    BY <1>2, <1>4, <2>1 DEF CreateOp, OneMore
<1>5. CASE op.kind = "file" /\ op.written + 1 < op.parts
  <2>1. p = Alloc(o, "next")
    <3>1. o.kind # "dir" /\ o.written < o.parts
      BY <1>2, <1>5 DEF OneMore
    <3>. QED
      BY <1>1, <3>1, Zenon DEF AfterData
  <2>2. p \in CreateOp /\ SameJob(o, p) /\ p.at = "scan" /\ p.target = 2 /\ p.then = "next"
    BY <1>2, <2>1, AllocFields
  <2>. QED
    BY <1>2, <1>5, <2>2, Zenon DEF SameJob, OneMore
<1>6. CASE op.kind = "file" /\ op.written + 1 = op.parts
  <2>1. p = Mark(o, o.cluster, EOC, "last")
    <3>1. o.kind # "dir" /\ ~(o.written < o.parts)
      BY <1>2, <1>3, <1>6 DEF OneMore
    <3>. QED
      BY <1>1, <3>1, Zenon DEF AfterData
  <2>2. o.cluster \in Nat /\ EOC \in Nat
    BY <1>2, Numbers DEF CreateOp
  <2>3. /\ p \in CreateOp /\ SameJob(o, p) /\ p.at = "mark" /\ p.copy = 1
        /\ p.target = o.cluster /\ p.value = EOC /\ p.then = "last"
    <3>1. o \in CreateOp /\ "last" \in {"first", "next", "linked", "last"}
      BY <1>2
    <3>2. PICK c, value : c = o.cluster /\ value = EOC
      OBVIOUS
    <3>3. /\ p \in CreateOp /\ SameJob(o, p) /\ p.at = "mark" /\ p.copy = 1
          /\ p.target = c /\ p.value = value /\ p.then = "last"
      <4>1. p = Mark(o, c, value, "last") /\ c \in Nat /\ value \in Nat
        BY <2>1, <2>2, <3>2, Zenon
      <4>. QED
        BY ONLY <3>1, <4>1, MarkFields
    <3>. QED
      BY <3>2, <3>3, Zenon
  <2>. QED
    BY <1>2, <1>6, <2>3, Zenon DEF SameJob, OneMore
<1>. QED
  BY <1>2, <1>3, <1>4, <1>5, <1>6

--------------------------------------------------------------------------------
\* What each step does to an operation under way.

LEMMA SameJobStarted ==
    ASSUME NEW f, NEW d, NEW L, NEW D, NEW n, NEW o, NEW p,
           Started(o, f, d, L, D, n), SameJob(o, p), p \in CreateOp
    PROVE  Started(p, f, d, L, D, n) /\ (Tip(o, d) => Tip(p, d))
<1>1. Started(p, f, d, L, D, n)
  BY Zenon DEF Started, SameJob
<1>2. Tip(o, d) => Tip(p, d)
  BY Zenon DEF Tip, SameJob
<1>. QED
  BY <1>1, <1>2

\* A cluster that the FAT has as free is in no file.
LEMMA FreeIsFresh ==
    ASSUME NEW F, NEW r, NEW d, NEW n, DiskSound(F, r, d, n), NEW id, NEW first, NEW k,
           ChainSound(F[1], d, id, first, k), NEW x, F[1][x] = 0
    PROVE  Fresh(d, ListedIn(r, d), id, x)
<1>. SUFFICES ASSUME x \in Clusters
              PROVE  d[x].file # id /\ \A e \in ListedIn(r, d) : d[x].file # e.id
  BY Zenon DEF Fresh
<1>1. d[x].file # id
  BY Zenon DEF ChainSound
<1>2. ASSUME NEW e \in ListedIn(r, d) PROVE d[x].file # e.id
  BY Zenon DEF DiskSound, EntrySound, ChainSound
<1>. QED
  BY <1>1, <1>2

LEMMA ScanFindsFree ==
    ASSUME NEW F, NEW r, NEW d, NEW n, DiskSound(F, r, d, n), NEW D, NEW o,
           Started(o, F[1], d, ListedIn(r, d), D, n), AtScan(o, d), F[1][o.target] = 0
    PROVE  Creating(Mark(o, o.target, EOC, o.then), F[1], d, ListedIn(r, d), D, n)
<1>. DEFINE L == ListedIn(r, d)
<1>1. PICK p : p = Mark(o, o.target, EOC, o.then)
  OBVIOUS
<1>2. o \in CreateOp /\ o.target \in Nat /\ EOC \in Nat
  BY Numbers DEF Started, CreateOp
<1>3. Looking(o, d) /\ o.target \in Entries
  BY Zenon DEF AtScan
<1>4. o.then \in {"first", "next", "linked", "last"}
  BY <1>2 DEF CreateOp
<1>5. /\ p \in CreateOp /\ SameJob(o, p) /\ p.at = "mark" /\ p.copy = 1
      /\ p.target = o.target /\ p.value = EOC /\ p.then = o.then
  BY <1>1, <1>2, <1>4, MarkFields
<1>6. Started(p, F[1], d, L, D, n) /\ (Tip(o, d) => Tip(p, d))
  BY <1>5, SameJobStarted, Zenon
<1>7. Looking(p, d)
  BY <1>3, <1>5, <1>6, Zenon DEF Looking, SameJob
<1>8. Fresh(d, L, p.id, p.target)
  BY <1>5, FreeIsFresh, Zenon DEF Started, SameJob
<1>9. AtMarkNew(p, F[1], d, L)
  BY <1>3, <1>5, <1>7, <1>8 DEF AtMarkNew
<1>. QED
  BY <1>1, <1>6, <1>9, Zenon DEF Creating

LEMMA ScanGoesOn ==
    ASSUME NEW f, NEW d, NEW L, NEW D, NEW n, NEW o, Started(o, f, d, L, D, n),
           AtScan(o, d), o.target + 1 < MaxCluster
    PROVE  Creating([o EXCEPT !.target = @ + 1], f, d, L, D, n)
<1>1. PICK p : p = [o EXCEPT !.target = @ + 1]
  OBVIOUS
<1>2. o \in CreateOp
  BY Zenon DEF Started
<1>3. Looking(o, d) /\ o.target \in Entries /\ o.at = "scan"
  BY Zenon DEF AtScan
<1>4. /\ p \in CreateOp /\ SameJob(o, p)
      /\ p.at = o.at /\ p.target = o.target + 1 /\ p.then = o.then
  BY <1>1, <1>2, NextTargetFields, Zenon
<1>5. Started(p, f, d, L, D, n) /\ (Tip(o, d) => Tip(p, d))
  BY <1>4, SameJobStarted, Zenon
<1>6. Looking(p, d)
  BY <1>3, <1>4, <1>5, Zenon DEF Looking, SameJob
<1>7. p.target \in Entries
  <2>1. PICK t : t = o.target
    OBVIOUS
  <2>2. t \in Entries /\ t + 1 < MaxCluster
    BY <1>3, <2>1, Zenon
  <2>3. t + 1 \in Entries
    BY <2>2, Fat16Assumption DEF Entries
  <2>. QED
    BY <1>4, <2>1, <2>3, Zenon
<1>8. AtScan(p, d)
  BY <1>3, <1>4, <1>6, <1>7, Zenon DEF AtScan
<1>. QED
  BY <1>1, <1>5, <1>8, Zenon DEF Creating

\* The operation is at a turn of fat_write_entry's loop.
AtMark(o, f, d, L) == AtMarkNew(o, f, d, L) \/ AtMarkLink(o, f, d, L) \/ AtMarkLast(o, f, d)

\* What it writes, and where, touches nothing that is listed.
LEMMA MarkIsSafe ==
    ASSUME NEW f, NEW d, NEW L, NEW D, NEW n, NEW o, Started(o, f, d, L, D, n),
           AtMark(o, f, d, L)
    PROVE  /\ o.target \in Entries /\ o.value \in Values /\ o.value # 0
           /\ o.copy = 2 => f[o.target] = o.value
           /\ \A e \in L : o.target \in Clusters => d[o.target].file # e.id
<1>1. \A e \in L : e.id # o.id
  BY Zenon DEF Started
<1>2. CASE AtMarkNew(o, f, d, L)
  BY <1>2, Numbers, Zenon DEF AtMarkNew, Fresh
<1>3. ASSUME Tip(o, d), o.target = o.cluster
      PROVE  /\ o.target \in Entries
             /\ \A e \in L : o.target \in Clusters => d[o.target].file # e.id
  <2>1. o.cluster \in Clusters /\ d[o.cluster].file = o.id
    BY <1>3, Zenon DEF Tip
  <2>. QED
    BY <1>1, <1>3, <2>1, Numbers, Zenon
<1>4. CASE AtMarkLink(o, f, d, L)
  <2>1. o.value \in Values /\ o.value # 0
    BY <1>4, Numbers, Zenon DEF AtMarkLink
  <2>. QED
    BY <1>3, <1>4, <2>1, Zenon DEF AtMarkLink
<1>5. CASE AtMarkLast(o, f, d)
  BY <1>3, <1>5, Numbers, Zenon DEF AtMarkLast
<1>. QED
  BY <1>2, <1>4, <1>5, Zenon DEF AtMark

\* It goes on with the second copy of what it wrote into the first.
LEMMA FirstCopyDone ==
    ASSUME NEW f, NEW d, NEW L, NEW D, NEW n, NEW o, Started(o, f, d, L, D, n),
           AtMark(o, f, d, L), o.copy = 1, f \in [Entries -> Values],
           NEW f2, f2 = [f EXCEPT ![o.target] = o.value]
    PROVE  Creating([o EXCEPT !.copy = 2], f2, d, L, D, n)
<1>1. PICK p : p = [o EXCEPT !.copy = 2]
  OBVIOUS
<1>2. o \in CreateOp
  BY Zenon DEF Started
<1>3. /\ p \in CreateOp /\ SameJob(o, p) /\ p.copy = 2
      /\ p.at = o.at /\ p.target = o.target /\ p.value = o.value /\ p.then = o.then
  BY <1>1, <1>2, SecondCopyFields, Zenon
<1>4. o.target \in Entries /\ o.value \in Values /\ o.value # 0
  BY MarkIsSafe, Zenon
<1>5. f2[o.target] = o.value /\ \A x \in Entries : x # o.target => f2[x] = f[x]
  BY <1>4
<1>6. Started(p, f, d, L, D, n) /\ (Tip(o, d) => Tip(p, d))
  BY <1>3, SameJobStarted, Zenon
<1>7. ASSUME ChainSound(f2, d, o.id, o.first, o.written)
      PROVE  Started(p, f2, d, L, D, n)
  BY <1>3, <1>6, <1>7, Zenon DEF Started, SameJob
<1>8. CASE AtMarkNew(o, f, d, L)
  <2>1. Fresh(d, L, o.id, o.target) /\ Looking(o, d)
    BY <1>8, Zenon DEF AtMarkNew
  <2>2. \A x \in Clusters : d[x].file = o.id => f2[x] = f[x]
    BY <1>5, <2>1, Numbers, Zenon DEF Fresh
  <2>3. ChainSound(f2, d, o.id, o.first, o.written)
    <3>1. ChainSound(f, d, o.id, o.first, o.written)
      BY Zenon DEF Started
    <3>2. SameLinks(f, f2, d, o.id)
      BY <2>2, Zenon DEF SameLinks
    <3>. QED
      BY <3>1, <3>2, ChainFatUnaffected, Zenon
  <2>4. Looking(p, d)
    BY <1>3, <1>6, <2>1, Zenon DEF Looking, SameJob
  <2>5. AtMarkNew(p, f2, d, L)
    BY <1>3, <1>5, <1>8, <2>4, Zenon DEF AtMarkNew, SameJob
  <2>. QED
    BY <1>1, <1>7, <2>3, <2>5, Zenon DEF Creating
<1>9. ASSUME Tip(o, d), o.target = o.cluster
      PROVE  ChainSound(f2, d, o.id, o.first, o.written)
  <2>1. \A x \in Clusters : d[x].file = o.id /\ x # o.target => f2[x] = f[x]
    BY <1>5, Numbers, Zenon
  <2>2. ChainSound(f, d, o.id, o.first, o.written)
    BY Zenon DEF Started
  <2>3. \A x \in Clusters : d[x].file = o.id /\ d[x].part = o.written => x = o.target
    BY <1>9, Zenon DEF Tip
  <2>4. d[o.target].file = o.id /\ d[o.target].part = o.written /\ o.target \in Clusters
    BY <1>9, Zenon DEF Tip
  <2>5. o.written \in Nat
    BY <1>2 DEF CreateOp
  <2>6. ASSUME NEW x \in Clusters, d[x].file = o.id
        PROVE  /\ d[x].part \in 1 .. o.written /\ f2[x] # 0
               /\ d[x].part < o.written =>
                     /\ f2[x] \in Clusters /\ d[f2[x]].file = o.id
                     /\ d[f2[x]].part = d[x].part + 1
    <3>1. CASE x = o.target
      <4>1. d[x].part \in 1 .. o.written /\ ~(d[x].part < o.written)
        BY <2>2, <2>4, <2>5, <3>1 DEF ChainSound
      <4>. QED
        BY <1>4, <1>5, <3>1, <4>1, Zenon
    <3>2. CASE x # o.target
      <4>1. f2[x] = f[x]
        BY <2>1, <2>6, <3>2, Zenon
      <4>. QED
        BY <2>2, <2>6, <4>1, Zenon DEF ChainSound
    <3>. QED
      BY <3>1, <3>2
  <2>. QED
    BY <2>2, <2>6, Zenon DEF ChainSound
<1>10. CASE AtMarkLink(o, f, d, L)
  <2>1. Tip(o, d) /\ o.target = o.cluster /\ Fresh(d, L, o.id, o.value)
    BY <1>10, Zenon DEF AtMarkLink
  <2>2. o.value # o.target
    BY <2>1, Zenon DEF Tip, Fresh
  <2>3. f2[o.value] = EOC
    BY <1>5, <1>10, <2>2, Zenon DEF AtMarkLink
  <2>4. AtMarkLink(p, f2, d, L)
    BY <1>3, <1>5, <1>6, <1>10, <2>3, Zenon DEF AtMarkLink, SameJob
  <2>. QED
    BY <1>1, <1>7, <1>9, <2>1, <2>4, Zenon DEF Creating
<1>11. CASE AtMarkLast(o, f, d)
  <2>1. Tip(o, d) /\ o.target = o.cluster
    BY <1>11, Zenon DEF AtMarkLast
  <2>2. /\ o.at = "mark" /\ o.then = "last" /\ o.kind = "file" /\ o.written = o.parts
        /\ o.value = EOC
    BY <1>11, Zenon DEF AtMarkLast
  <2>3. p.kind = o.kind /\ p.written = o.written /\ p.parts = o.parts /\ p.cluster = o.cluster
    BY <1>3, Zenon DEF SameJob
  <2>4. Tip(p, d) /\ f2[p.cluster] = EOC
    BY <1>5, <1>6, <2>1, <2>2, <2>3, Zenon
  <2>5. AtMarkLast(p, f2, d)
    BY <1>3, <2>1, <2>2, <2>3, <2>4, Zenon DEF AtMarkLast
  <2>. QED
    BY <1>1, <1>7, <1>9, <2>1, <2>5, Zenon DEF Creating
<1>. QED
  BY <1>8, <1>10, <1>11, Zenon DEF AtMark

\* When both copies are written it goes on with the first cluster, with the link
\* to a further one, with that one, or at the end.
LEMMA SecondCopyDone ==
    ASSUME NEW f, NEW d, NEW L, NEW D, NEW n, NEW o, Started(o, f, d, L, D, n),
           AtMark(o, f, d, L), o.copy = 2
    PROVE  Creating(AfterMark(o), f, d, L, D, n)
<1>1. PICK p : p = AfterMark(o)
  OBVIOUS
<1>2. o \in CreateOp /\ o.target \in Nat /\ o.written \in Nat
  BY DEF Started, CreateOp
<1>3. CASE AtMarkNew(o, f, d, L) /\ o.then = "first"
  <2>1. /\ p \in CreateOp /\ p.at = "data"
        /\ p.kind = o.kind /\ p.id = o.id /\ p.parts = o.parts /\ p.dir = o.dir
        /\ p.first = o.target /\ p.cluster = o.target /\ p.written = o.written
    BY <1>1, <1>2, <1>3, AfterMarkFirst, Zenon
  <2>2. o.written = 0 /\ 0 < o.parts
    BY <1>3 DEF AtMarkNew, Looking
  <2>3. ChainSound(f, d, o.id, o.first, 0)
    BY <2>2, Zenon DEF Started
  <2>4. \A x \in Clusters : d[x].file # o.id
    BY <2>3 DEF ChainSound
  <2>5. ChainSound(f, d, o.id, o.target, 0)
    BY <2>4 DEF ChainSound
  <2>6. Started(p, f, d, L, D, n)
    BY <2>1, <2>2, <2>5, Zenon DEF Started
  <2>7. /\ o.target \in Entries /\ Fresh(d, L, o.id, o.target) /\ f[o.target] = EOC
    BY <1>3, Zenon DEF AtMarkNew
  <2>8. AtData(p, f, d, L)
    BY <2>1, <2>2, <2>4, <2>7, Zenon DEF AtData
  <2>. QED
    BY <1>1, <2>6, <2>8, Zenon DEF Creating
<1>4. CASE AtMarkNew(o, f, d, L) /\ o.then = "next"
  <2>1. Tip(o, d) /\ o.written < o.parts
    BY <1>4 DEF AtMarkNew, Looking
  <2>2. o.cluster \in Nat
    BY <1>2 DEF CreateOp
  <2>3. p = Mark(o, o.cluster, o.target, "linked")
    BY <1>1, <1>2, <1>4, AfterMarkNext, Zenon
  <2>4. /\ p \in CreateOp /\ SameJob(o, p) /\ p.at = "mark" /\ p.copy = 1
        /\ p.target = o.cluster /\ p.value = o.target /\ p.then = "linked"
    BY <1>2, <2>2, <2>3, MarkFields
  <2>5. Started(p, f, d, L, D, n) /\ Tip(p, d)
    BY <2>1, <2>4, SameJobStarted, Zenon
  <2>6. o.target \in Entries /\ Fresh(d, L, o.id, o.target) /\ f[o.target] = EOC
    BY <1>4, Zenon DEF AtMarkNew
  <2>7. p.copy # 2
    BY <2>4
  <2>8. AtMarkLink(p, f, d, L)
    BY <2>1, <2>4, <2>5, <2>6, <2>7, Zenon DEF AtMarkLink, SameJob
  <2>. QED
    BY <1>1, <2>5, <2>8, Zenon DEF Creating
<1>5. CASE AtMarkLink(o, f, d, L)
  <2>1. /\ o.then = "linked" /\ Tip(o, d) /\ o.written < o.parts /\ o.target = o.cluster
        /\ o.value \in Entries /\ Fresh(d, L, o.id, o.value) /\ f[o.value] = EOC
        /\ f[o.cluster] = o.value
    BY <1>5, Zenon DEF AtMarkLink
  <2>2. /\ p \in CreateOp /\ p.at = "data"
        /\ p.kind = o.kind /\ p.id = o.id /\ p.parts = o.parts /\ p.dir = o.dir
        /\ p.first = o.first /\ p.cluster = o.value /\ p.written = o.written
    BY <1>1, <1>2, <2>1, AfterMarkLinked, Zenon
  <2>3. Started(p, f, d, L, D, n)
    BY <2>2, Zenon DEF Started
  <2>4. p.written # 0
    BY <1>2, <2>1, <2>2 DEF Tip
  <2>5. \A x \in Clusters : d[x].file = p.id /\ d[x].part = p.written => f[x] = p.cluster
    BY <2>1, <2>2, Zenon DEF Tip
  <2>6. AtData(p, f, d, L)
    BY <2>1, <2>2, <2>4, <2>5, Zenon DEF AtData
  <2>. QED
    BY <1>1, <2>3, <2>6, Zenon DEF Creating
<1>6. CASE AtMarkLast(o, f, d)
  <2>1. /\ o.then = "last" /\ o.kind = "file" /\ Tip(o, d) /\ o.written = o.parts
        /\ f[o.cluster] = EOC
    BY <1>6, Zenon DEF AtMarkLast
  <2>2. p \in CreateOp /\ p.at = "entry" /\ SameJob(o, p)
    BY <1>1, <1>2, <2>1, AfterMarkLast, Zenon
  <2>3. Started(p, f, d, L, D, n)
    BY <2>2, SameJobStarted, Zenon
  <2>4. ChainEnds(f, d, p.id, p.parts)
    BY <2>1, <2>2, Zenon DEF ChainEnds, Tip, SameJob
  <2>5. p.kind # "dir" /\ p.written = p.parts
    BY <2>1, <2>2 DEF SameJob
  <2>6. AtEntry(p, f, d)
    BY <2>2, <2>4, <2>5, Zenon DEF AtEntry
  <2>. QED
    BY <1>1, <2>3, <2>6, Zenon DEF Creating
<1>7. AtMarkNew(o, f, d, L) => o.then = "first" \/ o.then = "next"
  BY DEF AtMarkNew, Looking
<1>. QED
  BY <1>3, <1>4, <1>5, <1>6, <1>7, Zenon DEF AtMark

\* The chain is one cluster longer, which is its new tip.
LEMMA ChainGrows ==
    ASSUME NEW f, NEW d, NEW id, NEW first, NEW n, n \in Nat, ChainSound(f, d, id, first, n),
           NEW x \in Clusters, d[x].file # id, f[x] = EOC, n = 0 => first = x,
           \A y \in Clusters : d[y].file = id /\ d[y].part = n => f[y] = x,
           NEW d2, d2[x].file = id, d2[x].part = n + 1,
           \A y \in Clusters : y # x => d2[y] = d[y]
    PROVE  /\ ChainSound(f, d2, id, first, n + 1)
           /\ ChainEnds(f, d2, id, n + 1)
           /\ \A y \in Clusters : d2[y].file = id /\ d2[y].part = n + 1 <=> y = x
<1>1. ASSUME NEW y \in Clusters, d2[y].file = id, y # x
      PROVE  /\ d2[y] = d[y] /\ d[y].file = id /\ d[y].part \in 1 .. n /\ f[y] # 0
             /\ d[y].part < n => /\ f[y] \in Clusters /\ d[f[y]].file = id
                                 /\ d[f[y]].part = d[y].part + 1
  <2>1. d2[y] = d[y] /\ d[y].file = id
    BY <1>1, Zenon
  <2>. QED
    BY <2>1, Zenon DEF ChainSound
<1>2. \A k \in 1 .. n : k < n + 1 /\ k # n + 1 /\ k \in 1 .. n + 1 /\ (k < n \/ k = n)
  OBVIOUS
<1>3. n + 1 \in 1 .. n + 1 /\ ~(n + 1 < n + 1)
  OBVIOUS
<1>4. \A y \in Clusters : d2[y].file = id /\ d2[y].part = n + 1 <=> y = x
  BY <1>1, <1>2, Zenon
<1>5. first \in Clusters /\ d2[first].file = id /\ d2[first].part = 1
  <2>1. CASE n = 0
    BY <2>1
  <2>2. CASE n > 0
    BY <2>2, Zenon DEF ChainSound
  <2>. QED
    BY <2>1, <2>2
<1>6. ASSUME NEW y \in Clusters, d2[y].file = id
      PROVE  /\ d2[y].part \in 1 .. n + 1 /\ f[y] # 0
             /\ d2[y].part < n + 1 => /\ f[y] \in Clusters /\ d2[f[y]].file = id
                                      /\ d2[f[y]].part = d2[y].part + 1
  <2>1. CASE y = x
    BY <1>3, <2>1, Numbers, Zenon
  <2>2. CASE y # x
    <3>1. CASE d[y].part < n
      <4>1. f[y] \in Clusters /\ d[f[y]].file = id /\ d[f[y]].part = d[y].part + 1
        BY <1>1, <1>6, <2>2, <3>1, Zenon
      <4>2. f[y] # x
        BY <4>1
      <4>. QED
        BY <1>1, <1>2, <1>6, <2>2, <4>1, <4>2, Zenon
    <3>2. CASE d[y].part = n
      BY <1>1, <1>2, <1>6, <2>2, <3>2, Zenon
    <3>. QED
      BY <1>1, <1>2, <1>6, <2>2, <3>1, <3>2, Zenon
  <2>. QED
    BY <2>1, <2>2
<1>7. ASSUME NEW y \in Clusters, NEW z \in Clusters,
             d2[y].file = id, d2[z].file = id, d2[y].part = d2[z].part
      PROVE  y = z
  <2>1. CASE y = x \/ z = x
    BY <1>1, <1>2, <1>4, <1>7, <2>1, Zenon
  <2>2. CASE y # x /\ z # x
    <3>1. d[y].file = id /\ d[z].file = id /\ d[y].part = d[z].part
      BY <1>1, <1>7, <2>2, Zenon
    <3>. QED
      BY <3>1, Zenon DEF ChainSound
  <2>. QED
    BY <2>1, <2>2
<1>8. ChainSound(f, d2, id, first, n + 1)
  BY <1>5, <1>6, <1>7, Zenon DEF ChainSound
<1>9. ChainEnds(f, d2, id, n + 1)
  BY <1>4, Zenon DEF ChainEnds
<1>. QED
  BY <1>4, <1>8, <1>9, Zenon

\* After a part it looks for another cluster, marks the end, or writes the entry.
LEMMA PartWritten ==
    ASSUME NEW f, NEW d, NEW L, NEW D, NEW n, Started(op, f, d, L, D, n),
           AtData(op, f, d, L), op.cluster \in Clusters, d \in [Clusters -> ClusterRec],
           NEW d2, d2 = [d EXCEPT ![op.cluster] = Content]
    PROVE  Creating(AfterData, f, d2, L, D, n)
<1>1. /\ op \in CreateOp /\ op.id = n /\ op.id >= 1 /\ op.dir \in D
      /\ op.kind = "dir" => op.parts = 1
      /\ \A e \in L : e.id # op.id
      /\ ChainSound(f, d, op.id, op.first, op.written)
  BY Zenon DEF Started
<1>2. /\ op.at = "data" /\ op.written < op.parts
      /\ op.cluster \in Entries /\ Fresh(d, L, op.id, op.cluster) /\ f[op.cluster] = EOC
      /\ op.written = 0 => op.first = op.cluster
      /\ \A x \in Clusters : d[x].file = op.id /\ d[x].part = op.written => f[x] = op.cluster
  BY Zenon DEF AtData
<1>3. op.written \in Nat /\ op.parts \in Nat
  BY <1>1 DEF CreateOp
<1>4. /\ d2[op.cluster].file = op.id /\ d2[op.cluster].part = op.written + 1
      /\ d2[op.cluster].entries = <<>>
      /\ \A y \in Clusters : y # op.cluster => d2[y] = d[y]
  BY DEF Content
<1>5. d[op.cluster].file # op.id
  BY <1>2, Zenon DEF Fresh
<1>6. /\ ChainSound(f, d2, op.id, op.first, op.written + 1)
      /\ ChainEnds(f, d2, op.id, op.written + 1)
      /\ \A y \in Clusters :
            d2[y].file = op.id /\ d2[y].part = op.written + 1 <=> y = op.cluster
  <2>1. PICK id, first, k, x :
           id = op.id /\ first = op.first /\ k = op.written /\ x = op.cluster
    OBVIOUS
  <2>2. /\ ChainSound(f, d2, id, first, k + 1)
        /\ ChainEnds(f, d2, id, k + 1)
        /\ \A y \in Clusters : d2[y].file = id /\ d2[y].part = k + 1 <=> y = x
    <3>1. /\ k \in Nat /\ ChainSound(f, d, id, first, k) /\ x \in Clusters
          /\ d[x].file # id /\ f[x] = EOC /\ (k = 0 => first = x)
          /\ \A y \in Clusters : d[y].file = id /\ d[y].part = k => f[y] = x
          /\ d2[x].file = id /\ d2[x].part = k + 1
          /\ \A y \in Clusters : y # x => d2[y] = d[y]
      BY <1>1, <1>2, <1>3, <1>4, <1>5, <2>1, Zenon
    <3>. QED
      BY ONLY <3>1, ChainGrows
  <2>. QED
    BY <2>1, <2>2, Zenon
<1>7. PICK p : p = AfterData
  OBVIOUS
<1>8. /\ p \in CreateOp /\ OneMore(op, p)
      /\ \/ p.at = "entry" /\ op.kind = "dir"
         \/ /\ p.at = "scan" /\ p.target = 2 /\ p.then = "next"
            /\ op.kind = "file" /\ op.written + 1 < op.parts
         \/ /\ p.at = "mark" /\ p.copy = 1 /\ p.target = op.cluster
            /\ p.value = EOC /\ p.then = "last"
            /\ op.kind = "file" /\ op.written + 1 = op.parts
  BY <1>1, <1>2, <1>7, AfterDataFields
<1>9. /\ p.kind = op.kind /\ p.id = op.id /\ p.parts = op.parts /\ p.dir = op.dir
      /\ p.first = op.first /\ p.cluster = op.cluster /\ p.written = op.written + 1
  BY <1>8, Zenon DEF OneMore
<1>10. Started(p, f, d2, L, D, n)
  BY <1>1, <1>6, <1>8, <1>9, Zenon DEF Started
<1>11. Tip(p, d2)
  <2>1. p.written > 0
    BY <1>3, <1>9
  <2>. QED
    BY <1>6, <1>9, <2>1, Zenon DEF Tip
<1>12. CASE p.at = "entry" /\ op.kind = "dir"
  <2>1. op.parts = 1 /\ op.written = 0
    BY <1>1, <1>2, <1>3, <1>12
  <2>2. p.written = p.parts /\ p.first = op.cluster
    BY <1>2, <1>9, <2>1
  <2>3. ChainEnds(f, d2, p.id, p.parts)
    BY <1>6, <1>9, <2>2, Zenon
  <2>4. AtEntry(p, f, d2)
    BY <1>4, <1>12, <2>2, <2>3, Zenon DEF AtEntry
  <2>. QED
    BY <1>7, <1>10, <2>4, Zenon DEF Creating
<1>13. CASE p.at = "scan" /\ p.target = 2 /\ p.then = "next" /\ op.written + 1 < op.parts
  <2>1. Looking(p, d2)
    BY <1>9, <1>11, <1>13, Zenon DEF Looking
  <2>2. AtScan(p, d2)
    BY <1>13, <2>1, Numbers, Zenon DEF AtScan
  <2>. QED
    BY <1>7, <1>10, <2>2, Zenon DEF Creating
<1>14. CASE /\ p.at = "mark" /\ p.copy = 1 /\ p.target = op.cluster /\ p.value = EOC
            /\ p.then = "last" /\ op.kind = "file" /\ op.written + 1 = op.parts
  <2>1. p.copy # 2
    BY <1>14
  <2>2. AtMarkLast(p, f, d2)
    BY <1>9, <1>11, <1>14, <2>1, Zenon DEF AtMarkLast
  <2>. QED
    BY <1>7, <1>10, <2>2, Zenon DEF Creating
<1>. QED
  BY <1>8, <1>12, <1>13, <1>14, Zenon

\* The entry that is written then is sound.
LEMMA EntryIsSound ==
    ASSUME NEW f, NEW d, NEW L, NEW D, NEW n, Started(op, f, d, L, D, n), n \in Nat,
           AtEntry(op, f, d)
    PROVE  /\ NewEntry \in EntryRec /\ EntrySound(f, d, n, NewEntry)
           /\ NewEntry.kind = "dir" => d[NewEntry.first].entries = <<>>
<1>1. NewEntry \in EntryRec
  BY DEF NewEntry, EntryRec, Started, CreateOp
<1>2. /\ NewEntry.kind = op.kind /\ NewEntry.id = op.id /\ NewEntry.first = op.first
      /\ NewEntry.parts = op.parts
  BY DEF NewEntry
<1>3. op.id \in 1 .. n
  BY DEF Started, CreateOp
<1>4. EntrySound(f, d, n, NewEntry)
  BY <1>2, <1>3, Zenon DEF EntrySound, Started, AtEntry
<1>. QED
  BY <1>1, <1>2, <1>4, Zenon DEF AtEntry

--------------------------------------------------------------------------------
\* Every step preserves the invariant.

LEMMA ReturnsFinished ==
    ASSUME op \in CreateOp \/ op \in ReadOp, NEW D
    PROVE  /\ Finished(Returns(0, FALSE), D)
           /\ (op.kind = "dir" => op.first \in D) => Finished(Returns(1, TRUE), D)
<1>1. PICK first, kind : first = (IF op.kind = "dir" THEN op.first ELSE 0) /\ kind = op.kind
  OBVIOUS
<1>2. first \in Nat /\ kind \in {"file", "dir", "read"}
  BY <1>1 DEF CreateOp, ReadOp
<1>3. PICK p, q :
        /\ p = [at |-> "returned", kind |-> kind, ret |-> 0, good |-> FALSE, first |-> first]
        /\ q = [at |-> "returned", kind |-> kind, ret |-> 1, good |-> TRUE, first |-> first]
  OBVIOUS
<1>4. Returns(0, FALSE) = p /\ Returns(1, TRUE) = q
  BY <1>1, <1>3, Zenon DEF Returns, Result
<1>5. Finished(p, D)
  BY ONLY <1>2, <1>3 DEF Finished, Outcome
<1>6. ASSUME op.kind = "dir" => op.first \in D PROVE Finished(q, D)
  <2>1. kind = "dir" => first \in D
    BY <1>1, <1>6, Zenon
  <2>. QED
    BY ONLY <1>2, <1>3, <2>1 DEF Finished, Outcome
<1>. QED
  BY <1>4, <1>5, <1>6, Zenon

LEMMA ReadingBegins ==
    ASSUME NEW f, NEW d, NEW L, NEW n, NEW e, e \in L, e \in EntryRec,
           EntrySound(f, d, n, e), e.parts # 0, NEW p,
           p = [at |-> "read", kind |-> "read", id |-> e.id, parts |-> e.parts,
                cluster |-> e.first, done |-> 0, good |-> TRUE]
    PROVE  Reading(p, d, L)
<1>1. e.id \in Nat /\ e.parts \in Nat /\ e.first \in Nat /\ e.parts > 0
  BY DEF EntryRec
<1>2. /\ p \in ReadOp /\ p.good = TRUE /\ p.done = 0 /\ p.id = e.id /\ p.parts = e.parts
      /\ p.cluster = e.first /\ p.at = "read"
  BY <1>1 DEF ReadOp
<1>3. e.first \in Clusters /\ d[e.first].file = e.id /\ d[e.first].part = 1
  BY <1>1, Zenon DEF EntrySound, ChainSound
<1>4. d[p.cluster].part = IF p.at = "read" THEN p.done + 1 ELSE p.done
  BY <1>2, <1>3
<1>5. p.done < p.parts
  BY <1>1, <1>2
<1>. QED
  BY <1>2, <1>3, <1>4, <1>5, Zenon DEF Reading

\* The cluster that is read holds the part that is wanted.
LEMMA PartRead ==
    ASSUME NEW d, NEW L, NEW o, Reading(o, d, L), o.at = "read", o.done + 1 # o.parts,
           NEW good \in BOOLEAN, good = TRUE,
           NEW p, p = [o EXCEPT !.done = @ + 1, !.good = good, !.at = "follow"]
    PROVE  Reading(p, d, L)
<1>1. /\ o \in ReadOp /\ o.done < o.parts
      /\ \E e \in L : e.id = o.id /\ e.parts = o.parts
      /\ o.cluster \in Clusters /\ d[o.cluster].file = o.id
      /\ d[o.cluster].part = IF o.at = "read" THEN o.done + 1 ELSE o.done
  BY Zenon DEF Reading
<1>2. /\ p \in ReadOp /\ p.id = o.id /\ p.parts = o.parts /\ p.cluster = o.cluster
      /\ p.done = o.done + 1 /\ p.good = good /\ p.at = "follow"
  <2>1. p = [at |-> "follow", kind |-> o.kind, id |-> o.id, parts |-> o.parts,
             cluster |-> o.cluster, done |-> o.done + 1, good |-> good]
    BY <1>1 DEF ReadOp
  <2>2. /\ o.kind \in {"read"} /\ o.id \in Nat /\ o.parts \in Nat /\ o.cluster \in Nat
        /\ o.done + 1 \in Nat
    BY <1>1 DEF ReadOp
  <2>. QED
    BY <2>1, <2>2 DEF ReadOp
<1>3. p.done < p.parts
  BY <1>1, <1>2 DEF ReadOp
<1>4. d[p.cluster].part = IF p.at = "read" THEN p.done + 1 ELSE p.done
  BY <1>1, <1>2
<1>. QED
  BY <1>1, <1>2, <1>3, <1>4, Zenon DEF Reading

\* Its entry in the FAT leads to the next part.
LEMMA ChainFollowed ==
    ASSUME NEW f, NEW d, NEW L, NEW n, NEW o, Reading(o, d, L), o.at = "follow",
           \A e \in L : EntrySound(f, d, n, e), NEW p,
           p = [o EXCEPT !.cluster = f[o.cluster], !.at = "read"]
    PROVE  f[o.cluster] # EOC /\ Reading(p, d, L)
<1>1. /\ o \in ReadOp /\ o.done < o.parts /\ o.good = TRUE
      /\ o.cluster \in Clusters /\ d[o.cluster].file = o.id
      /\ d[o.cluster].part = IF o.at = "read" THEN o.done + 1 ELSE o.done
  BY Zenon DEF Reading
<1>2. PICK e \in L : e.id = o.id /\ e.parts = o.parts
  BY Zenon DEF Reading
<1>3. d[o.cluster].part = o.done
  BY <1>1
<1>4. ChainSound(f, d, o.id, e.first, o.parts)
  BY <1>2, Zenon DEF EntrySound
<1>5. PICK x : x = f[o.cluster]
  OBVIOUS
<1>6. x \in Clusters /\ d[x].file = o.id /\ d[x].part = o.done + 1
  <2>1. d[o.cluster].part < o.parts
    BY <1>1, <1>3, Zenon
  <2>2. f[o.cluster] \in Clusters /\ d[f[o.cluster]].file = o.id
        /\ d[f[o.cluster]].part = d[o.cluster].part + 1
    BY <1>1, <1>4, <2>1, Zenon DEF ChainSound
  <2>. QED
    BY <1>3, <1>5, <2>2, Zenon
<1>7. /\ p \in ReadOp /\ p.id = o.id /\ p.parts = o.parts /\ p.cluster = x
      /\ p.done = o.done /\ p.good = TRUE /\ p.at = "read"
  BY <1>1, <1>5, <1>6, Numbers DEF ReadOp
<1>8. d[p.cluster].part = IF p.at = "read" THEN p.done + 1 ELSE p.done
  BY <1>6, <1>7
<1>9. Reading(p, d, L)
  BY <1>1, <1>2, <1>6, <1>7, <1>8, Zenon DEF Reading
<1>. QED
  BY <1>5, <1>6, <1>9, Numbers, Zenon

\* A new file or directory, of which nothing is written yet.
LEMMA CreatingBegins ==
    ASSUME NEW F, NEW r, NEW d, NEW n, DiskSound(F, r, d, n), NEW kind \in {"file", "dir"},
           NEW parts \in Nat, NEW dir, dir \in DirsOf(r),
           kind = "dir" => parts = 1 /\ dir = 0,
           NEW o,
           o = [at |-> "entry", kind |-> kind, id |-> n + 1, parts |-> parts, dir |-> dir,
                first |-> 0, cluster |-> 0, written |-> 0,
                target |-> 2, value |-> 0, copy |-> 1, then |-> "first"]
    PROVE  /\ parts = 0 => Creating(o, F[1], d, ListedIn(r, d), DirsOf(r), n + 1)
           /\ parts # 0 =>
                Creating(Alloc(o, "first"), F[1], d, ListedIn(r, d), DirsOf(r), n + 1)
<1>1. n \in Nat /\ dir \in Nat
  <2>1. DirsOf(r) \subseteq {0} \cup Clusters
    BY ListedTypes, Zenon
  <2>2. n \in Nat
    BY DEF DiskSound, DiskType
  <2>3. dir \in {0} \cup Clusters
    BY <2>1
  <2>. QED
    BY <2>2, <2>3, Numbers
<1>2. /\ o \in CreateOp /\ o.at = "entry" /\ o.kind = kind /\ o.id = n + 1
      /\ o.parts = parts /\ o.dir = dir /\ o.written = 0 /\ o.then = "first"
  BY <1>1 DEF CreateOp, Copies
<1>3. \A e \in ListedIn(r, d) : e.id # n + 1
  BY <1>1 DEF DiskSound, EntrySound
<1>4. \A x \in Clusters : d[x].file # n + 1
  BY <1>1 DEF DiskSound, DiskType, ClusterRec
<1>5. ChainSound(F[1], d, n + 1, o.first, 0)
  BY <1>4 DEF ChainSound
<1>6. n + 1 >= 1
  BY <1>1
<1>7. Started(o, F[1], d, ListedIn(r, d), DirsOf(r), n + 1)
  BY <1>2, <1>3, <1>5, <1>6, Zenon DEF Started
<1>8. ASSUME parts = 0 PROVE Creating(o, F[1], d, ListedIn(r, d), DirsOf(r), n + 1)
  <2>1. kind # "dir"
    BY <1>8
  <2>2. ChainEnds(F[1], d, o.id, o.parts)
    BY <1>2, <1>4, Zenon DEF ChainEnds
  <2>3. AtEntry(o, F[1], d)
    BY <1>2, <1>8, <2>1, <2>2, Zenon DEF AtEntry
  <2>. QED
    BY <1>7, <2>3, Zenon DEF Creating
<1>9. ASSUME parts # 0
      PROVE  Creating(Alloc(o, "first"), F[1], d, ListedIn(r, d), DirsOf(r), n + 1)
  <2>1. PICK p : p = Alloc(o, "first")
    OBVIOUS
  <2>2. p \in CreateOp /\ SameJob(o, p) /\ p.at = "scan" /\ p.target = 2 /\ p.then = "first"
    BY <1>2, <2>1, AllocFields
  <2>3. Started(p, F[1], d, ListedIn(r, d), DirsOf(r), n + 1)
    BY <1>7, <2>2, SameJobStarted, Zenon
  <2>4. p.written = 0 /\ p.written < p.parts
    BY <1>2, <1>9, <2>2 DEF SameJob
  <2>5. AtScan(p, d)
    BY <2>2, <2>4, Numbers, Zenon DEF AtScan, Looking
  <2>. QED
    BY <2>1, <2>3, <2>5, Zenon DEF Creating
<1>. QED
  BY <1>8, <1>9

\* The invariant of the next state, in its variables.
LEMMA InvariantNext ==
    ASSUME DiskSound(fat', root', data', files'), err' \in BOOLEAN,
           ~err' => OpSound(op', fat'[1], data', ListedIn(root', data'), DirsOf(root'), files')
    PROVE  Fat16Inv'
<1>1. DiskInv'
  BY Zenon DEF DiskInv, DiskSound, DiskType, ListedIn, SubdirsOf, Elements, EntrySound,
               ChainSound, ChainEnds
<1>2. (~err => OpInv)'
  BY Zenon DEF OpInv, OpSound, Creating, Started, AtScan, AtMarkNew, AtMarkLink, AtMarkLast,
               AtData, AtEntry, Looking, Tip, Fresh, Reading, Finished, ListedIn, DirsOf,
               SubdirsOf, Elements, ChainSound, ChainEnds
<1>. QED
  BY <1>1, <1>2, Zenon DEF Fat16Inv

\* A step that leaves the disk alone has only the operation to account for.
LEMMA DiskUntouched ==
    ASSUME Fat16Inv, UNCHANGED disk, files' \in Nat, files <= files', err' \in BOOLEAN,
           ~err' => OpSound(op', fat[1], data, ListedIn(root, data), DirsOf(root), files')
    PROVE  Fat16Inv'
<1>1. fat' = fat /\ root' = root /\ data' = data
  BY DEF disk
<1>2. PICK n : n = files'
  OBVIOUS
<1>3. DiskSound(fat, root, data, n)
  BY <1>2, DiskStays, Zenon DEF Fat16Inv, DiskInv
<1>. QED
  BY <1>1, <1>2, <1>3, InvariantNext, Zenon

\* What the drive reports; a drive that is not slow refuses only after an error.
LEMMA DriveAnswers ==
    ASSUME SlowDrive = FALSE
    PROVE  /\ Answers => ~err /\ err' = FALSE
           /\ Refuses => err' = TRUE
           /\ LosesWrite => err' = TRUE
  BY DEF Answers, Refuses, LosesWrite

LEMMA FilesType == ASSUME Fat16Inv PROVE files \in Nat /\ files <= files
  BY DEF Fat16Inv, DiskInv, DiskSound, DiskType

\* What the invariant says of an operation by the place it is at.
LEMMA CreatingAt ==
    ASSUME Fat16Inv, ~err, op.at \in {"scan", "mark", "data", "entry"}
    PROVE  /\ Started(op, fat[1], data, ListedIn(root, data), DirsOf(root), files)
           /\ op.at = "scan" => AtScan(op, data)
           /\ op.at = "mark" => AtMark(op, fat[1], data, ListedIn(root, data))
           /\ op.at = "data" => AtData(op, fat[1], data, ListedIn(root, data))
           /\ op.at = "entry" => AtEntry(op, fat[1], data)
<1>1. op # Idle
  BY DEF Idle
<1>2. ~Reading(op, data, ListedIn(root, data))
  BY DEF Reading, ReadOp
<1>3. ~Finished(op, DirsOf(root))
  BY DEF Finished, Outcome
<1>4. Creating(op, fat[1], data, ListedIn(root, data), DirsOf(root), files)
  BY <1>1, <1>2, <1>3, Zenon DEF Fat16Inv, OpInv, OpSound
<1>5. /\ AtScan(op, data) => op.at = "scan"
      /\ AtMark(op, fat[1], data, ListedIn(root, data)) => op.at = "mark"
      /\ AtData(op, fat[1], data, ListedIn(root, data)) => op.at = "data"
      /\ AtEntry(op, fat[1], data) => op.at = "entry"
  BY Zenon DEF AtScan, AtMark, AtMarkNew, AtMarkLink, AtMarkLast, AtData, AtEntry
<1>6. \/ AtScan(op, data) \/ AtMark(op, fat[1], data, ListedIn(root, data))
      \/ AtData(op, fat[1], data, ListedIn(root, data)) \/ AtEntry(op, fat[1], data)
  BY <1>4, Zenon DEF Creating, AtMark
<1>7. Started(op, fat[1], data, ListedIn(root, data), DirsOf(root), files)
  BY <1>4, Zenon DEF Creating
<1>. QED
  BY <1>5, <1>6, <1>7

LEMMA ReadingAt ==
    ASSUME Fat16Inv, ~err, op.at \in {"read", "follow"}
    PROVE  Reading(op, data, ListedIn(root, data))
<1>1. op # Idle
  BY DEF Idle
<1>2. ~Creating(op, fat[1], data, ListedIn(root, data), DirsOf(root), files)
  BY DEF Creating, Started, CreateOp
<1>3. ~Finished(op, DirsOf(root))
  BY DEF Finished, Outcome
<1>. QED
  BY <1>1, <1>2, <1>3, Zenon DEF Fat16Inv, OpInv, OpSound

LEMMA ScanFatInv == ASSUME SlowDrive = FALSE, Fat16Inv, ScanFat PROVE Fat16Inv'
<1>. DEFINE L == ListedIn(root, data)
<1>1. PICK value \in Values :
        /\ ReadEntry(op.target, value)
        /\ op' = IF value = 0 THEN Mark(op, op.target, EOC, op.then) ELSE ScanOn
  BY Zenon DEF ScanFat
<1>2. /\ op.at = "scan" /\ UNCHANGED disk /\ files' = files
      /\ \/ ~err /\ err' = FALSE
                 /\ value = IF op.target \in Entries THEN fat[1][op.target] ELSE EOC
         \/ err' = TRUE
  BY <1>1, DriveAnswers, Zenon DEF ScanFat, ReadEntry
<1>3. ASSUME ~err' PROVE OpSound(op', fat[1], data, L, DirsOf(root), files)
  <2>1. /\ ~err
        /\ value = IF op.target \in Entries THEN fat[1][op.target] ELSE EOC
    BY <1>2, <1>3
  <2>2. Started(op, fat[1], data, L, DirsOf(root), files) /\ AtScan(op, data)
    BY <1>2, <2>1, CreatingAt
  <2>3. op.target \in Entries
    BY <2>2, Zenon DEF AtScan
  <2>4. CASE value = 0
    BY <1>1, <2>1, <2>2, <2>3, <2>4, ScanFindsFree, Zenon DEF Fat16Inv, DiskInv, OpSound
  <2>5. CASE value # 0 /\ op.target + 1 < MaxCluster
    <3>1. op' = [op EXCEPT !.target = @ + 1]
      BY <1>1, <2>5, Zenon DEF ScanOn
    <3>. QED
      BY <2>2, <2>5, <3>1, ScanGoesOn, Zenon DEF OpSound
  <2>6. CASE value # 0 /\ ~(op.target + 1 < MaxCluster)
    <3>1. op' = Returns(0, FALSE)
      BY <1>1, <2>6, Zenon DEF ScanOn
    <3>2. op \in CreateOp
      BY <2>2, Zenon DEF Started
    <3>3. Finished(Returns(0, FALSE), DirsOf(root))
      BY <3>2, ReturnsFinished, Zenon
    <3>. QED
      BY <3>1, <3>3, Zenon DEF OpSound
  <2>. QED
    BY <2>4, <2>5, <2>6
<1>. QED
  BY <1>2, <1>3, FilesType, DiskUntouched, Zenon

LEMMA WriteFatInv == ASSUME SlowDrive = FALSE, Fat16Inv, WriteFat PROVE Fat16Inv'
<1>. DEFINE L == ListedIn(root, data)
<1>1. /\ op.at = "mark" /\ root' = root /\ data' = data /\ files' = files
      /\ op' = IF op.copy = 1 THEN [op EXCEPT !.copy = 2] ELSE AfterMark(op)
  BY Zenon DEF WriteFat
<1>2. \/ err' = TRUE /\ fat' = fat
      \/ /\ ~err /\ err' = FALSE
         /\ fat' = [fat EXCEPT ![op.copy][op.target] = op.value]
  BY DriveAnswers, Zenon DEF WriteFat, CopyOf
<1>3. CASE err' = TRUE /\ fat' = fat
  BY <1>1, <1>3, FilesType, DiskUntouched DEF disk
<1>4. CASE ~err /\ err' = FALSE /\ fat' = [fat EXCEPT ![op.copy][op.target] = op.value]
  <2>1. DiskSound(fat, root, data, files)
    BY Zenon DEF Fat16Inv, DiskInv
  <2>2. /\ Started(op, fat[1], data, L, DirsOf(root), files)
        /\ AtMark(op, fat[1], data, L)
    BY <1>1, <1>4, CreatingAt
  <2>3. /\ op.target \in Entries /\ op.value \in Values /\ op.value # 0
        /\ op.copy = 2 => fat[1][op.target] = op.value
        /\ \A e \in L : op.target \in Clusters => data[op.target].file # e.id
    BY <2>2, MarkIsSafe
  <2>4. op.copy \in Copies
    BY <2>2 DEF Started, CreateOp
  <2>5. DiskSound(fat', root, data, files)
    <3>1. PICK c, t, v : c = op.copy /\ t = op.target /\ v = op.value
      OBVIOUS
    <3>2. DiskSound([fat EXCEPT ![c][t] = v], root, data, files)
      BY <2>1, <2>3, <2>4, <3>1, FatWritten, Zenon
    <3>. QED
      BY <1>4, <3>1, <3>2, Zenon
  <2>6. fat \in [Copies -> [Entries -> Values]]
    BY <2>1, Zenon DEF DiskSound, DiskType
  <2>7. CASE op.copy = 1
    <3>1. fat'[1] = [fat[1] EXCEPT ![op.target] = op.value]
      BY <1>4, <2>6, <2>7 DEF Copies
    <3>2. fat[1] \in [Entries -> Values]
      BY <2>6 DEF Copies
    <3>3. op' = [op EXCEPT !.copy = 2]
      BY <1>1, <2>7, Zenon
    <3>4. PICK f2 : f2 = [fat[1] EXCEPT ![op.target] = op.value]
      OBVIOUS
    <3>5. Creating([op EXCEPT !.copy = 2], f2, data, L, DirsOf(root), files)
      BY <2>2, <2>7, <3>2, <3>4, FirstCopyDone, Zenon
    <3>6. OpSound(op', fat'[1], data, L, DirsOf(root), files)
      BY <3>1, <3>3, <3>4, <3>5, Zenon DEF OpSound
    <3>. QED
      BY <1>1, <1>4, <2>5, <3>6, InvariantNext, Zenon
  <2>8. CASE op.copy = 2
    <3>1. fat'[1] = fat[1]
      BY <1>4, <2>6, <2>8 DEF Copies
    <3>2. op' = AfterMark(op)
      BY <1>1, <2>8
    <3>3. OpSound(op', fat'[1], data, L, DirsOf(root), files)
      BY <2>2, <2>8, <3>1, <3>2, SecondCopyDone, Zenon DEF OpSound
    <3>. QED
      BY <1>1, <1>4, <2>5, <3>3, InvariantNext, Zenon
  <2>. QED
    BY <2>4, <2>7, <2>8 DEF Copies
<1>. QED
  BY <1>2, <1>3, <1>4

LEMMA WriteClusterInv == ASSUME SlowDrive = FALSE, Fat16Inv, WriteCluster PROVE Fat16Inv'
<1>. DEFINE L == ListedIn(root, data)
<1>1. op.at = "data" /\ fat' = fat /\ root' = root /\ files' = files
  BY Zenon DEF WriteCluster
<1>2. \/ err' = TRUE /\ data' = data
      \/ /\ ~err /\ err' = FALSE /\ op.cluster \in Clusters
         /\ data' = [data EXCEPT ![op.cluster] = Content]
         /\ op' = AfterData
  BY DriveAnswers, Zenon DEF WriteCluster
<1>3. CASE err' = TRUE /\ data' = data
  BY <1>1, <1>3, FilesType, DiskUntouched DEF disk
<1>4. CASE /\ ~err /\ err' = FALSE /\ op.cluster \in Clusters
           /\ data' = [data EXCEPT ![op.cluster] = Content]
           /\ op' = AfterData
  <2>1. DiskSound(fat, root, data, files)
    BY Zenon DEF Fat16Inv, DiskInv
  <2>2. /\ Started(op, fat[1], data, L, DirsOf(root), files)
        /\ AtData(op, fat[1], data, L)
    BY <1>1, <1>4, CreatingAt
  <2>3. /\ op.id \in 1 .. files /\ op.written + 1 \in Nat
        /\ \A e \in L : e.id # op.id /\ data[op.cluster].file # e.id
    <3>1. \A e \in L : e.id # op.id /\ data[op.cluster].file # e.id
      BY <1>4, <2>2, Zenon DEF Started, AtData, Fresh
    <3>2. op.id \in 1 .. files /\ op.written + 1 \in Nat
      BY <2>2, FilesType DEF Started, CreateOp
    <3>. QED
      BY <3>1, <3>2
  <2>4. PICK d2 : d2 = [data EXCEPT ![op.cluster] = Content]
    OBVIOUS
  <2>5. data \in [Clusters -> ClusterRec]
    BY <2>1, Zenon DEF DiskSound, DiskType
  <2>6. PICK x, id : x = op.cluster /\ id = op.id
    OBVIOUS
  <2>7. DiskSound(fat, root, d2, files) /\ ListedIn(root, d2) = L
    <3>1. Content \in ClusterRec /\ Content.file = op.id
      BY <2>2, <2>3 DEF Content, ClusterRec, Started, CreateOp
    <3>2. /\ d2 \in [Clusters -> ClusterRec] /\ d2[x].file = id
          /\ \A y \in Clusters : y # x => d2[y] = data[y]
      BY <1>4, <2>4, <2>5, <2>6, <3>1
    <3>3. /\ id \in 1 .. files
          /\ \A e \in ListedIn(root, data) : e.id # id /\ data[x].file # e.id
      BY <2>3, <2>6, Zenon
    <3>4. GivenTo(data, d2, x, id) /\ Unlisted(data, ListedIn(root, data), x, id)
      BY <3>2, <3>3, Zenon DEF GivenTo, Unlisted
    <3>. QED
      BY ONLY <2>1, <3>3, <3>4, ClusterWritten
  <2>8. Creating(AfterData, fat[1], d2, L, DirsOf(root), files)
    BY <1>4, <2>2, <2>4, <2>5, PartWritten, Zenon
  <2>9. /\ DiskSound(fat', root', data', files') /\ err' \in BOOLEAN
         /\ OpSound(op', fat'[1], data', ListedIn(root', data'), DirsOf(root'), files')
    BY <1>1, <1>4, <2>4, <2>7, <2>8, Zenon DEF OpSound
  <2>. QED
    BY <2>9, InvariantNext, Zenon
<1>. QED
  BY <1>2, <1>3, <1>4

LEMMA WriteDirEntryInv == ASSUME SlowDrive = FALSE, Fat16Inv, WriteDirEntry PROVE Fat16Inv'
<1>1. op.at = "entry" /\ fat' = fat /\ files' = files
  BY Zenon DEF WriteDirEntry
<1>2. \/ err' = TRUE /\ root' = root /\ data' = data
      \/ /\ ~err /\ err' = FALSE /\ op' = Returns(0, FALSE)
         /\ root' = root /\ data' = data
      \/ /\ ~err /\ err' = FALSE /\ op' = Returns(1, TRUE) /\ op.dir = 0
         /\ root' = Append(root, NewEntry) /\ data' = data
      \/ /\ ~err /\ err' = FALSE /\ op' = Returns(1, TRUE) /\ op.dir # 0
         /\ data' = [data EXCEPT ![op.dir].entries = Append(@, NewEntry)] /\ root' = root
  BY DriveAnswers, Zenon DEF WriteDirEntry
<1>3. CASE err' = TRUE /\ root' = root /\ data' = data
  BY <1>1, <1>3, FilesType, DiskUntouched DEF disk
<1>4. CASE ~err
  <2>1. DiskSound(fat, root, data, files)
    BY Zenon DEF Fat16Inv, DiskInv
  <2>2. /\ Started(op, fat[1], data, ListedIn(root, data), DirsOf(root), files)
        /\ AtEntry(op, fat[1], data)
    BY <1>1, <1>4, CreatingAt
  <2>3. op \in CreateOp /\ op.dir \in DirsOf(root) /\ (op.kind = "dir" => op.dir = 0)
    BY <2>2, Zenon DEF Started
  <2>4. ASSUME NEW D
        PROVE  /\ Finished(Returns(0, FALSE), D)
               /\ (op.kind = "dir" => op.first \in D) => Finished(Returns(1, TRUE), D)
    BY <2>3, ReturnsFinished, Zenon
  <2>5. files \in Nat
    BY FilesType, Zenon
  <2>6. /\ NewEntry \in EntryRec /\ EntrySound(fat[1], data, files, NewEntry)
        /\ NewEntry.kind = "dir" => data[NewEntry.first].entries = <<>>
    BY <2>2, <2>5, EntryIsSound, Zenon
  <2>7. PICK e : e = NewEntry
    OBVIOUS
  <2>8. ASSUME err' = FALSE, op' = Returns(0, FALSE), root' = root, data' = data
        PROVE  Fat16Inv'
    BY <1>1, <2>4, <2>8, FilesType, DiskUntouched, Zenon DEF OpSound, disk
  <2>9. ASSUME err' = FALSE, op' = Returns(1, TRUE),
               root' = Append(root, NewEntry), data' = data
        PROVE  Fat16Inv'
    <3>1. /\ DiskSound(fat, Append(root, e), data, files)
          /\ e.kind = "dir" => e.first \in DirsOf(Append(root, e))
      BY <2>1, <2>6, <2>7, RootEntryWritten, Zenon
    <3>2. DiskSound(fat', root', data', files') /\ err' \in BOOLEAN
      BY <1>1, <2>7, <2>9, <3>1, Zenon
    <3>3. e.kind = op.kind /\ e.first = op.first
      BY <2>7 DEF NewEntry
    <3>4. PICK s : s = Append(root, e)
      OBVIOUS
    <3>5. op.kind = "dir" => op.first \in DirsOf(s)
      BY <3>1, <3>3, <3>4, Zenon
    <3>6. root' = s
      BY <2>7, <2>9, <3>4, Zenon
    <3>. QED
      BY <2>4, <2>9, <3>2, <3>5, <3>6, InvariantNext, Zenon DEF OpSound
  <2>10. ASSUME err' = FALSE, op' = Returns(1, TRUE), op.dir # 0, root' = root,
                data' = [data EXCEPT ![op.dir].entries = Append(@, NewEntry)]
         PROVE  Fat16Inv'
    <3>1. op.dir \in Clusters
      BY <2>1, <2>3, <2>10, ListedTypes, Zenon
    <3>2. PICK x : x = op.dir
      OBVIOUS
    <3>3. DiskSound(fat, root, [data EXCEPT ![x].entries = Append(@, e)], files)
      BY <2>1, <2>6, <2>7, <3>1, <3>2, DirEntryWritten, Zenon
    <3>4. DiskSound(fat', root', data', files') /\ err' \in BOOLEAN
      BY <1>1, <2>7, <2>10, <3>2, <3>3, Zenon
    <3>5. op.kind # "dir"
      BY <2>3, <2>10, Zenon
    <3>. QED
      BY <2>4, <2>10, <3>4, <3>5, InvariantNext, Zenon DEF OpSound
  <2>. QED
    BY <1>2, <1>3, <2>8, <2>9, <2>10, Zenon
<1>. QED
  BY <1>2, <1>3, <1>4

LEMMA ReadClusterInv == ASSUME SlowDrive = FALSE, Fat16Inv, ReadCluster PROVE Fat16Inv'
<1>. DEFINE L == ListedIn(root, data)
            good == /\ op.good /\ op.cluster \in Clusters
                    /\ data[op.cluster].file = op.id
                    /\ data[op.cluster].part = op.done + 1
<1>1. op.at = "read" /\ UNCHANGED disk /\ files' = files
  BY Zenon DEF ReadCluster
<1>2. \/ err' = TRUE
      \/ /\ ~err /\ err' = FALSE
         /\ op' = IF op.done + 1 = op.parts THEN Returns(1, good)
                  ELSE [op EXCEPT !.done = @ + 1, !.good = good, !.at = "follow"]
  BY DriveAnswers, Zenon DEF ReadCluster
<1>3. ASSUME ~err' PROVE OpSound(op', fat[1], data, L, DirsOf(root), files)
  <2>1. ~err
    BY <1>2, <1>3
  <2>2. Reading(op, data, L)
    BY <1>1, <2>1, ReadingAt
  <2>3. good = TRUE
    BY <1>1, <2>2, Zenon DEF Reading
  <2>4. CASE op.done + 1 = op.parts
    <3>1. op' = Returns(1, TRUE)
      BY <1>2, <1>3, <2>3, <2>4, Zenon
    <3>2. Finished(Returns(1, TRUE), DirsOf(root))
      <4>1. op \in ReadOp
        BY <2>2, Zenon DEF Reading
      <4>2. op.kind # "dir"
        BY <4>1 DEF ReadOp
      <4>. QED
        BY <4>1, <4>2, ReturnsFinished, Zenon
    <3>. QED
      BY <3>1, <3>2, Zenon DEF OpSound
  <2>5. CASE op.done + 1 # op.parts
    <3>1. op' = [op EXCEPT !.done = @ + 1, !.good = good, !.at = "follow"]
      BY <1>2, <1>3, <2>5, Zenon
    <3>2. PICK g : g = good
      OBVIOUS
    <3>3. g = TRUE /\ g \in BOOLEAN
      BY <2>3, <3>2, Zenon
    <3>4. PICK p : p = [op EXCEPT !.done = @ + 1, !.good = g, !.at = "follow"]
      OBVIOUS
    <3>5. Reading(p, data, L)
      BY <1>1, <2>2, <2>5, <3>3, <3>4, PartRead, Zenon
    <3>6. op' = p
      BY <3>1, <3>2, <3>4, Zenon
    <3>. QED
      BY <3>5, <3>6, Zenon DEF OpSound
  <2>. QED
    BY <2>4, <2>5
<1>. QED
  BY <1>1, <1>2, <1>3, FilesType, DiskUntouched, Zenon

LEMMA FollowChainInv == ASSUME SlowDrive = FALSE, Fat16Inv, FollowChain PROVE Fat16Inv'
<1>. DEFINE L == ListedIn(root, data)
<1>1. PICK value \in Values :
        /\ ReadEntry(op.cluster, value)
        /\ op' = IF value = EOC THEN Returns(1, FALSE)
                 ELSE [op EXCEPT !.cluster = GoesTo(op.cluster, value), !.at = "read"]
  BY Zenon DEF FollowChain
<1>2. /\ op.at = "follow" /\ UNCHANGED disk /\ files' = files
      /\ \/ ~err /\ err' = FALSE
                 /\ value = IF op.cluster \in Entries THEN fat[1][op.cluster] ELSE EOC
         \/ err' = TRUE
  BY <1>1, DriveAnswers, Zenon DEF FollowChain, ReadEntry
<1>3. ASSUME ~err' PROVE OpSound(op', fat[1], data, L, DirsOf(root), files)
  <2>1. ~err
    BY <1>2, <1>3
  <2>2. Reading(op, data, L)
    BY <1>2, <2>1, ReadingAt
  <2>3. op.cluster \in Entries
    BY <2>2, Numbers, Zenon DEF Reading
  <2>4. value = fat[1][op.cluster]
    BY <1>2, <1>3, <2>3
  <2>5. \A e \in L : EntrySound(fat[1], data, files, e)
    BY Zenon DEF Fat16Inv, DiskInv, DiskSound
  <2>6. PICK f : f = fat[1]
    OBVIOUS
  <2>7. PICK p : p = [op EXCEPT !.cluster = f[op.cluster], !.at = "read"]
    OBVIOUS
  <2>8. f[op.cluster] # EOC /\ Reading(p, data, L)
    BY <1>2, <2>2, <2>5, <2>6, <2>7, ChainFollowed, Zenon
  <2>9. op' = p
    BY <1>1, <2>4, <2>6, <2>7, <2>8, Zenon DEF GoesTo
  <2>. QED
    BY <2>8, <2>9, Zenon DEF OpSound
<1>. QED
  BY <1>2, <1>3, FilesType, DiskUntouched, Zenon

\* A file is created in a directory that there is.
LEMMA CreateFileInv ==
    ASSUME Fat16Inv, NEW dir, dir \in DirsOf(root), NEW parts, parts \in Nat,
           CreateFile(dir, parts)
    PROVE  Fat16Inv'
<1>. DEFINE L == ListedIn(root, data)
<1>1. DiskSound(fat, root, data, files) /\ err \in BOOLEAN /\ files \in Nat
  BY FilesType, Zenon DEF Fat16Inv, DiskInv
<1>2. files + 1 \in Nat /\ files <= files + 1
  BY <1>1
<1>3. PICK o : o = Begin("file", parts, dir)
  OBVIOUS
<1>4. PICK n : n = files
  OBVIOUS
<1>5. o = [at |-> "entry", kind |-> "file", id |-> n + 1, parts |-> parts, dir |-> dir,
           first |-> 0, cluster |-> 0, written |-> 0,
           target |-> 2, value |-> 0, copy |-> 1, then |-> "first"]
  BY <1>3, <1>4, Zenon DEF Begin
<1>6. /\ parts = 0 => Creating(o, fat[1], data, L, DirsOf(root), n + 1)
      /\ parts # 0 => Creating(Alloc(o, "first"), fat[1], data, L, DirsOf(root), n + 1)
  <2>1. DiskSound(fat, root, data, n)
    BY <1>1, <1>4, Zenon
  <2>2. "file" \in {"file", "dir"} /\ "file" # "dir"
    OBVIOUS
  <2>. QED
    BY <1>5, <2>1, <2>2, CreatingBegins, Zenon
<1>7. /\ op' = IF parts = 0 THEN o ELSE Alloc(o, "first")
      /\ UNCHANGED disk /\ err' = err /\ files' = n + 1
  BY <1>3, <1>4, Zenon DEF CreateFile
<1>8. OpSound(op', fat[1], data, L, DirsOf(root), files')
  BY <1>6, <1>7, Zenon DEF OpSound
<1>. QED
  BY <1>1, <1>2, <1>4, <1>7, <1>8, DiskUntouched, Zenon

\* The steps that begin an operation.
LEMMA BeginsInv == ASSUME Fat16Inv, Begins PROVE Fat16Inv'
<1>. DEFINE L == ListedIn(root, data)
<1>1. DiskSound(fat, root, data, files) /\ err \in BOOLEAN /\ files \in Nat
  BY FilesType, Zenon DEF Fat16Inv, DiskInv
<1>2. files + 1 \in Nat /\ files <= files + 1 /\ files <= files
  BY <1>1
<1>3. ASSUME NEW dir \in Directories, NEW parts \in 0 .. MaxParts, CreateFile(dir, parts)
      PROVE  Fat16Inv'
  <2>1. parts \in Nat /\ dir \in DirsOf(root)
    BY ListedAreListedIn, Fat16Assumption
  <2>. QED
    BY <1>3, <2>1, CreateFileInv, Zenon
<1>4. CASE Mkdir
  <2>1. PICK o : o = Begin("dir", 1, 0)
    OBVIOUS
  <2>2. PICK n : n = files
    OBVIOUS
  <2>3. o = [at |-> "entry", kind |-> "dir", id |-> n + 1, parts |-> 1, dir |-> 0,
             first |-> 0, cluster |-> 0, written |-> 0,
             target |-> 2, value |-> 0, copy |-> 1, then |-> "first"]
    BY <2>1, <2>2, Zenon DEF Begin
  <2>4. Creating(Alloc(o, "first"), fat[1], data, L, DirsOf(root), n + 1)
    <3>1. DiskSound(fat, root, data, n)
      BY <1>1, <2>2, Zenon
    <3>2. "dir" \in {"file", "dir"} /\ 1 \in Nat /\ 1 # 0
      OBVIOUS
    <3>3. 0 \in DirsOf(root)
      BY DEF DirsOf
    <3>. QED
      BY <2>3, <3>1, <3>2, <3>3, CreatingBegins, Zenon
  <2>5. /\ op' = Alloc(o, "first") /\ UNCHANGED disk /\ err' = err /\ files' = n + 1
    BY <1>4, <2>1, <2>2, Zenon DEF Mkdir
  <2>6. OpSound(op', fat[1], data, L, DirsOf(root), files')
    BY <2>4, <2>5, Zenon DEF OpSound
  <2>. QED
    BY <1>1, <1>2, <2>2, <2>5, <2>6, DiskUntouched, Zenon
<1>5. ASSUME NEW dir \in Directories, NEW i \in DOMAIN EntriesIn(dir), ReadFile(dir, i)
      PROVE  Fat16Inv'
  <2>1. PICK e : e = EntriesIn(dir)[i]
    OBVIOUS
  <2>2. e \in L
    <3>1. e \in Listed
      <4>1. PICK S : S = {EntriesIn(dir)[j] : j \in DOMAIN EntriesIn(dir)}
        OBVIOUS
      <4>2. e \in S
        BY <2>1, <4>1, Zenon
      <4>3. S \in {{EntriesIn(y)[j] : j \in DOMAIN EntriesIn(y)} : y \in Directories}
        BY <4>1, Zenon
      <4>. QED
        BY <4>2, <4>3, Zenon DEF Listed
    <3>. QED
      BY <3>1, ListedAreListedIn
  <2>3. e \in EntryRec /\ EntrySound(fat[1], data, files, e)
    BY <1>1, <2>2, ListedTypes, Zenon DEF DiskSound
  <2>4. /\ op' = IF e.parts = 0 THEN Result("read", 1, TRUE, 0)
                  ELSE [at |-> "read", kind |-> "read", id |-> e.id, parts |-> e.parts,
                        cluster |-> e.first, done |-> 0, good |-> TRUE]
        /\ UNCHANGED disk /\ err' = err /\ files' = files
    BY <1>5, <2>1, Zenon DEF ReadFile
  <2>5. CASE e.parts = 0
    <3>1. PICK p : p = Result("read", 1, TRUE, 0)
      OBVIOUS
    <3>2. p \in Outcome /\ p.good = TRUE /\ p.kind # "dir"
      BY <3>1 DEF Result, Outcome
    <3>. QED
      BY <1>1, <1>2, <2>4, <2>5, <3>1, <3>2, DiskUntouched, Zenon DEF OpSound, Finished
  <2>6. CASE e.parts # 0
    <3>1. PICK p : p = [at |-> "read", kind |-> "read", id |-> e.id, parts |-> e.parts,
                        cluster |-> e.first, done |-> 0, good |-> TRUE]
      OBVIOUS
    <3>2. Reading(p, data, L)
      BY <2>2, <2>3, <2>6, <3>1, ReadingBegins, Zenon
    <3>3. OpSound(op', fat[1], data, L, DirsOf(root), files')
      BY <2>4, <2>6, <3>1, <3>2, Zenon DEF OpSound
    <3>. QED
      BY <1>1, <1>2, <2>4, <3>3, DiskUntouched, Zenon
  <2>. QED
    BY <2>5, <2>6
<1>6. CASE Mount
  <2>1. /\ op' = Idle /\ UNCHANGED disk /\ files' = files /\ err' \in BOOLEAN
    BY <1>6 DEF Mount, Answers, Refuses
  <2>. QED
    BY <1>1, <1>2, <2>1, DiskUntouched, Zenon DEF OpSound
<1>7. CASE Identify
  <2>1. /\ op' = Idle /\ UNCHANGED disk /\ files' = files /\ err' \in BOOLEAN
    BY <1>7 DEF Identify
  <2>. QED
    BY <1>1, <1>2, <2>1, DiskUntouched, Zenon DEF OpSound
<1>. QED
  BY <1>3, <1>4, <1>5, <1>6, <1>7, Zenon DEF Begins

LEMMA Fat16InitInv == ASSUME Init PROVE Fat16Inv
<1>1. /\ fat = [copy \in Copies |-> [cluster \in Entries |-> 0]] /\ root = <<>>
      /\ data = [cluster \in Clusters |-> [file |-> 0, part |-> 0, entries |-> <<>>]]
      /\ err = FALSE /\ op = Idle /\ files = 0
  BY DEF Init
<1>2. DiskType(fat, root, data, files)
  <2>1. fat \in [Copies -> [Entries -> Values]]
    BY <1>1, Fat16Assumption DEF Values, EOC
  <2>2. root \in Seq(EntryRec)
    BY <1>1
  <2>3. [file |-> 0, part |-> 0, entries |-> <<>>] \in ClusterRec
    BY DEF ClusterRec
  <2>4. data \in [Clusters -> ClusterRec]
    BY <1>1, <2>3, Zenon
  <2>5. \A x \in Clusters : data[x].file <= files
    BY <1>1
  <2>6. files \in Nat
    BY <1>1
  <2>. QED
    BY <2>1, <2>2, <2>4, <2>5, <2>6, Zenon DEF DiskType
<1>3. ListedIn(root, data) = {}
  BY <1>1 DEF ListedIn, SubdirsOf, Elements
<1>4. DiskInv
  BY <1>2, <1>3, Zenon DEF DiskInv, DiskSound
<1>. QED
  BY <1>1, <1>4 DEF Fat16Inv, OpInv, OpSound

LEMMA Fat16StepInv == ASSUME SlowDrive = FALSE, Fat16Inv, [Next]_vars PROVE Fat16Inv'
<1>1. CASE Return
  <2>1. op' = Idle /\ UNCHANGED disk /\ files' = files /\ err' = err
    BY <1>1 DEF Return
  <2>. QED
    BY <2>1, FilesType, DiskUntouched, Zenon DEF OpSound, Fat16Inv
<1>2. CASE Restart
  <2>1. op' = Idle /\ UNCHANGED disk /\ files' = files /\ err' \in BOOLEAN
    BY <1>2 DEF Restart
  <2>. QED
    BY <2>1, FilesType, DiskUntouched, Zenon DEF OpSound
<1>3. CASE UNCHANGED vars
  <2>1. op' = op /\ UNCHANGED disk /\ files' = files /\ err' = err
    BY <1>3, Zenon DEF vars
  <2>. QED
    BY <2>1, FilesType, DiskUntouched, Zenon DEF Fat16Inv, OpInv
<1>. QED
  BY <1>1, <1>2, <1>3, ScanFatInv, WriteFatInv, WriteClusterInv, WriteDirEntryInv,
     ReadClusterInv, FollowChainInv, BeginsInv, Zenon DEF Next, Proceeds

--------------------------------------------------------------------------------
\* The theorems.

\* On a drive that fails for good when it fails, whatever step an error or a
\* power cut has stopped an operation at: the disk is sound, and as long as no
\* error was reported the operation is where the invariant says.
THEOREM Fat16Invariant == SlowDrive = FALSE /\ Spec => []Fat16Inv
<1>. SUFFICES ASSUME SlowDrive = FALSE PROVE Spec => []Fat16Inv
  OBVIOUS
<1>1. Init => Fat16Inv
  BY Fat16InitInv
<1>2. Fat16Inv /\ [Next]_vars => Fat16Inv'
  BY Fat16StepInv
<1>. QED
  BY <1>1, <1>2, PTL DEF Spec

\* fat16.c:196: the second copy of the FAT has no cluster in use that the first,
\* which is the one that is read, has as free.
THEOREM SecondCopyBehind == SlowDrive = FALSE /\ Spec => []SecondCopyNeverAhead
<1>. SUFFICES ASSUME SlowDrive = FALSE PROVE Spec => []SecondCopyNeverAhead
  OBVIOUS
<1>1. Init => SecondCopyNeverAhead
  BY DEF Init, Copies, SecondCopyNeverAhead
<1>2. ASSUME Fat16Inv, SecondCopyNeverAhead, WriteFat PROVE SecondCopyNeverAhead'
  <2>1. CASE fat' = fat
    BY <1>2, <2>1, Zenon DEF SecondCopyNeverAhead
  <2>2. CASE ~err /\ err' = FALSE /\ fat' = [fat EXCEPT ![op.copy][op.target] = op.value]
    <3>1. PICK c, t, v : c = op.copy /\ t = op.target /\ v = op.value
      OBVIOUS
    <3>2. op.at = "mark"
      BY <1>2, Zenon DEF WriteFat
    <3>3. /\ Started(op, fat[1], data, ListedIn(root, data), DirsOf(root), files)
          /\ AtMark(op, fat[1], data, ListedIn(root, data))
      BY <1>2, <2>2, <3>2, CreatingAt
    <3>4. t \in Entries /\ v # 0 /\ (c = 2 => fat[1][t] = v)
      <4>1. /\ op.target \in Entries /\ op.value # 0
            /\ op.copy = 2 => fat[1][op.target] = op.value
        BY <3>3, MarkIsSafe
      <4>. QED
        BY <3>1, <4>1, Zenon
    <3>5. c \in Copies
      BY <3>1, <3>3 DEF Started, CreateOp
    <3>6. fat \in [Copies -> [Entries -> Values]]
      BY <1>2, Zenon DEF Fat16Inv, DiskInv, DiskSound, DiskType
    <3>7. fat' = [fat EXCEPT ![c][t] = v]
      BY <2>2, <3>1, Zenon
    <3>8. \A x \in Entries : fat[2][x] # 0 => fat[1][x] # 0
      BY <1>2, Zenon DEF SecondCopyNeverAhead
    <3>9. \A x \in Entries : fat'[2][x] # 0 => fat'[1][x] # 0
      BY ONLY <3>4, <3>5, <3>6, <3>7, <3>8 DEF Copies
    <3>. QED
      BY <3>9, Zenon DEF SecondCopyNeverAhead
  <2>. QED
    BY <1>2, <2>1, <2>2, DriveAnswers, Zenon DEF WriteFat, CopyOf
<1>3. ASSUME [Next]_vars, ~WriteFat PROVE fat' = fat
  BY <1>3, Zenon DEF Next, Begins, Proceeds, ScanFat, WriteCluster, WriteDirEntry, ReadCluster,
     FollowChain, Return, Restart, CreateFile, Mkdir, ReadFile, Mount, Identify, vars, disk
<1>4. SecondCopyNeverAhead /\ fat' = fat => SecondCopyNeverAhead'
  BY Zenon DEF SecondCopyNeverAhead
<1>5. Fat16Inv /\ SecondCopyNeverAhead /\ [Next]_vars => SecondCopyNeverAhead'
  BY <1>2, <1>3, <1>4
<1>. QED
  BY <1>1, <1>5, Fat16Invariant, PTL DEF Spec

\* fat16.c:304-445: an operation that returns 1 has done what it says, as long as
\* the drive has reported no error.
THEOREM SuccessIsReal == SlowDrive = FALSE /\ Spec => []SuccessIsTrue
<1>. SUFFICES ASSUME SlowDrive = FALSE PROVE Spec => []SuccessIsTrue
  OBVIOUS
<1>1. ASSUME Fat16Inv, op.at = "returned", op.ret = 1, ~err PROVE op.good
  <2>1. op # Idle
    BY <1>1 DEF Idle
  <2>2. ~Creating(op, fat[1], data, ListedIn(root, data), DirsOf(root), files)
    BY <1>1 DEF Creating, Started, CreateOp
  <2>3. ~Reading(op, data, ListedIn(root, data))
    BY <1>1 DEF Reading, ReadOp
  <2>4. Finished(op, DirsOf(root))
    BY <1>1, <2>1, <2>2, <2>3, Zenon DEF Fat16Inv, OpInv, OpSound
  <2>. QED
    BY <1>1, <2>4, Zenon DEF Finished
<1>2. Fat16Inv => SuccessIsTrue
  BY <1>1, Zenon DEF SuccessIsTrue
<1>. QED
  BY <1>2, Fat16Invariant, PTL

\* A nonempty set of natural numbers has a least element.
LEMMA HasLeast ==
    ASSUME NEW S, S \subseteq Nat, S # {}
    PROVE  \E m \in S : \A k \in S : m <= k
<1>1. PICK m \in S : \A k \in S : ~(<<k, m>> \in OpToRel(<, Nat))
  BY NatLessThanWellFounded, WFMin
<1>2. ASSUME NEW k \in S PROVE m <= k
  <2>1. k < m => <<k, m>> \in OpToRel(<, Nat)
    BY Zenon DEF OpToRel
  <2>2. ~(k < m)
    BY <2>1, <1>1, Zenon
  <2>. QED
    BY <2>2
<1>. QED
  BY <1>2, Zenon

\* A property of the first of 1 .. n that each number hands on to the next holds of
\* all: P is the set of those that have it.
LEMMA UpTo ==
    ASSUME NEW n \in Nat, NEW P, n > 0 => 1 \in P,
           \A k \in 1 .. n : k > 1 /\ k - 1 \in P => k \in P
    PROVE  \A k \in 1 .. n : k \in P
<1>. DEFINE S == {k \in 1 .. n : k \notin P}
<1>. SUFFICES ASSUME S # {} PROVE FALSE
  OBVIOUS
<1>1. PICK m \in S : \A k \in S : m <= k
  <2>1. S \subseteq Nat
    OBVIOUS
  <2>. HIDE DEF S
  <2>. QED
    BY <2>1, HasLeast
<1>2. m \in 1 .. n /\ m \notin P
  OBVIOUS
<1>3. m > 1
  BY <1>2
<1>4. m - 1 \in 1 .. n /\ m - 1 \in Nat /\ ~(m <= m - 1)
  BY <1>2, <1>3
<1>5. m - 1 \in P
  BY <1>1, <1>4
<1>. QED
  BY <1>2, <1>3, <1>5

\* The chain of a listed entry, as the driver walks it, has its parts in order.
LEMMA ChainWalked ==
    ASSUME NEW d, NEW id, NEW first, NEW n \in Nat, ChainSound(fat[1], d, id, first, n)
    PROVE  \A k \in 1 .. n : /\ Chain(first, n)[k] \in Clusters
                             /\ d[Chain(first, n)[k]].file = id
                             /\ d[Chain(first, n)[k]].part = k
<1>. DEFINE f == fat[1]
            Holds(x, k) == x \in Clusters /\ d[x].file = id /\ d[x].part = k
            Holder(k) == CHOOSE x : Holds(x, k)
            Follows(w) == w = [k \in 1 .. n |->
                IF k = 1 THEN first
                ELSE IF w[k - 1] \in Entries THEN f[w[k - 1]] ELSE 0]
            walk == CHOOSE w : Follows(w)
<1>1. n > 0 => Holds(first, 1)
  BY Zenon DEF ChainSound
<1>2. ASSUME NEW k \in 1 .. n, NEW x, k > 1, Holds(x, k - 1)
      PROVE  x \in Entries /\ Holds(f[x], k)
  <2>1. x \in Clusters /\ d[x].file = id /\ d[x].part = k - 1
    BY <1>2
  <2>2. d[x].part < n /\ (k - 1) + 1 = k
    BY <1>2, <2>1
  <2>3. f[x] \in Clusters /\ d[f[x]].file = id /\ d[f[x]].part = d[x].part + 1
    BY <2>1, <2>2, Zenon DEF ChainSound
  <2>. QED
    BY <2>1, <2>2, <2>3, Numbers, Zenon
<1>3. \A x, y, k : Holds(x, k) /\ Holds(y, k) => x = y
  BY Zenon DEF ChainSound
<1>4. \A k \in 1 .. n : Holds(Holder(k), k)
  <2>1. PICK P : P = {k \in 1 .. n : \E x : Holds(x, k)}
    OBVIOUS
  <2>2. n > 0 => 1 \in P
    BY <1>1, <2>1
  <2>3. ASSUME NEW k \in 1 .. n, k > 1, k - 1 \in P PROVE k \in P
    <3>1. PICK x : Holds(x, k - 1)
      BY <2>1, <2>3, Zenon
    <3>2. Holds(f[x], k)
      BY <1>2, <2>3, <3>1, Zenon
    <3>. QED
      BY <2>1, <3>2, Zenon
  <2>4. \A k \in 1 .. n : k \in P
    BY <2>2, <2>3, UpTo
  <2>. QED
    BY <2>1, <2>4, Zenon
<1>. HIDE DEF f, Holds, Holder
<1>5. PICK c : c = [k \in 1 .. n |-> Holder(k)]
  OBVIOUS
<1>6. Follows(c)
  <2>0. \A k \in 1 .. n : Holds(c[k], k)
    BY <1>4, <1>5
  <2>1. ASSUME NEW k \in 1 .. n
        PROVE  c[k] = IF k = 1 THEN first
                      ELSE IF c[k - 1] \in Entries THEN f[c[k - 1]] ELSE 0
    <3>1. CASE k = 1
      <4>1. Holds(first, k) /\ Holds(c[k], k)
        BY <1>1, <2>0, <3>1
      <4>2. c[k] = first
        BY <1>3, <4>1, Zenon
      <4>. QED
        BY <3>1, <4>2
    <3>2. CASE k # 1
      <4>1. k > 1 /\ k - 1 \in 1 .. n
        BY <3>2
      <4>2. Holds(c[k - 1], k - 1)
        BY <2>0, <4>1, Zenon
      <4>3. c[k - 1] \in Entries /\ Holds(f[c[k - 1]], k)
        BY <1>2, <4>1, <4>2, Zenon
      <4>4. Holds(c[k], k)
        BY <2>0, Zenon
      <4>5. c[k] = f[c[k - 1]]
        BY <1>3, <4>3, <4>4, Zenon
      <4>. QED
        BY <3>2, <4>3, <4>5, Zenon
    <3>. QED
      BY <3>1, <3>2, Zenon
  <2>2. c = [k \in 1 .. n |-> c[k]]
    BY <1>5
  <2>. QED
    BY <2>1, <2>2
<1>7. Follows(walk)
  BY <1>6, Zenon
<1>8. \A k \in 1 .. n : Holds(walk[k], k)
  <2>. HIDE DEF walk
  <2>0. \A k \in 1 .. n : walk[k] = IF k = 1 THEN first
                      ELSE IF walk[k - 1] \in Entries THEN f[walk[k - 1]] ELSE 0
    BY <1>7
  <2>1. PICK P : P = {k \in 1 .. n : Holds(walk[k], k)}
    OBVIOUS
  <2>2. n > 0 => 1 \in P
    BY <1>1, <2>0, <2>1
  <2>3. ASSUME NEW k \in 1 .. n, k > 1, k - 1 \in P PROVE k \in P
    <3>1. Holds(walk[k - 1], k - 1)
      BY <2>1, <2>3, Zenon
    <3>2. walk[k - 1] \in Entries /\ Holds(f[walk[k - 1]], k)
      BY <1>2, <2>3, <3>1, Zenon
    <3>3. walk[k] = f[walk[k - 1]]
      BY <2>0, <2>3, <3>2
    <3>. QED
      BY <2>1, <3>2, <3>3, Zenon
  <2>4. \A k \in 1 .. n : k \in P
    BY <2>2, <2>3, UpTo
  <2>. QED
    BY <2>1, <2>4, Zenon
<1>9. Chain(first, n) = walk
  BY DEF Chain, f
<1>. QED
  BY <1>8, <1>9, Zenon DEF Holds

\* The parts the invariant speaks of are those the driver finds along the chain.
LEMMA IntactFromInv == ASSUME Fat16Inv PROVE EntriesIntact
<1>. SUFFICES ASSUME NEW e \in Listed
              PROVE  LET chain == Chain(e.first, e.parts)
                     IN  /\ \A k \in 1 .. e.parts :
                               /\ chain[k] \in Clusters
                               /\ fat[1][chain[k]] # 0
                               /\ data[chain[k]].file = e.id /\ data[chain[k]].part = k
                         /\ e.parts > 0 => fat[1][chain[e.parts]] = EOC
  BY Zenon DEF EntriesIntact
<1>1. DiskSound(fat, root, data, files)
  BY Zenon DEF Fat16Inv, DiskInv
<1>2. e \in ListedIn(root, data)
  BY ListedAreListedIn
<1>3. e \in EntryRec /\ EntrySound(fat[1], data, files, e)
  BY <1>1, <1>2, ListedTypes, Zenon DEF DiskSound
<1>4. PICK n : n = e.parts
  OBVIOUS
<1>5. n \in Nat
  BY <1>3, <1>4 DEF EntryRec
<1>6. ChainSound(fat[1], data, e.id, e.first, n) /\ ChainEnds(fat[1], data, e.id, n)
  BY <1>3, <1>4, Zenon DEF EntrySound
<1>7. PICK chain : chain = Chain(e.first, n)
  OBVIOUS
<1>8. \A k \in 1 .. n : /\ chain[k] \in Clusters /\ data[chain[k]].file = e.id
                        /\ data[chain[k]].part = k
  <2>1. PICK d, id, first : d = data /\ id = e.id /\ first = e.first
    OBVIOUS
  <2>2. ChainSound(fat[1], d, id, first, n)
    BY <1>6, <2>1, Zenon
  <2>3. \A k \in 1 .. n : /\ Chain(first, n)[k] \in Clusters
                          /\ d[Chain(first, n)[k]].file = id
                          /\ d[Chain(first, n)[k]].part = k
    BY ONLY <1>5, <2>2, ChainWalked
  <2>. QED
    BY <1>7, <2>1, <2>3, Zenon
<1>9. \A k \in 1 .. n : fat[1][chain[k]] # 0
  BY <1>6, <1>8, Zenon DEF ChainSound
<1>10. n > 0 => fat[1][chain[n]] = EOC
  <2>1. n > 0 => n \in 1 .. n
    BY <1>5
  <2>. QED
    BY <1>6, <1>8, <2>1, Zenon DEF ChainEnds
<1>. QED
  BY <1>4, <1>7, <1>8, <1>9, <1>10, Zenon

\* fat16.c:304-445 write the entry last, so that what is listed is complete: its
\* chain has a cluster for each part, marked as used and ended, and they hold it.
THEOREM ListedIsComplete == SlowDrive = FALSE /\ Spec => []EntriesIntact
<1>. SUFFICES ASSUME SlowDrive = FALSE PROVE Spec => []EntriesIntact
  OBVIOUS
<1>1. Fat16Inv => EntriesIntact
  BY IntactFromInv
<1>. QED
  BY <1>1, Fat16Invariant, PTL

================================================================================
