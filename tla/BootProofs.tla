---- MODULE BootProofs ----
(*****************************************************************************)
(* What the machine of Boot keeps in step for every map the loader gives,    *)
(* every size of node and every sequence of cd: the memory map pmm_init gets *)
(* is the loader's, and what vfs_init makes of the heap's memory is a tree.  *)
(* The tree is known through the results of the calls of vfs_alloc_node:     *)
(* TreeInv says what they have made so far, and each of Boot's steps keeps   *)
(* it, because the heap gives no block twice (MemoryProofs).                 *)
(*****************************************************************************)
EXTENDS Boot, MemoryProofs, SequenceTheorems

\* Of the calls of vfs_alloc_node whose results are in m, call i has made a node.
Made(m, i) == i \in DOMAIN m /\ m[i] # NULL

\* The list of children of the node of call i, as far as they are made.
KidsOf(m, i) ==
    CASE i = 1 /\ Made(m, 3)                 -> <<m[2], m[3]>>
      [] i = 1 /\ Made(m, 2) /\ ~Made(m, 3)  -> <<m[2]>>
      [] i \in {2, 3} /\ Made(m, i + 2)      -> <<m[i + 2]>>
      [] OTHER                               -> <<>>

ParentOf(m, i) == IF i = 1 THEN NULL ELSE m[Script[i].parent]

NodeOf(m, i) ==
    [name |-> Script[i].name, type |-> Script[i].type, parent |-> ParentOf(m, i),
     children |-> KidsOf(m, i)]

\* What the calls have returned: nodes of their own, until memory ran out.
Distinct(m) ==
    /\ m \in Seq(Nat) /\ Len(m) <= 5
    /\ \A i, j \in DOMAIN m : i < j /\ m[j] # NULL => m[i] # NULL /\ m[i] # m[j]

NodesOf(m) == {m[i] : i \in {j \in DOMAIN m : m[j] # NULL}}

TreeOf(n, m) ==
    /\ Distinct(m)
    /\ n = [ptr \in NodesOf(m) |-> n[ptr]]
    /\ \A i \in DOMAIN m : m[i] # NULL => n[m[i]] = NodeOf(m, i)

\* Lists of up to two nodes.
LEMMA AppendIs ==
    ASSUME NEW S, NEW s \in Seq(S), NEW b \in S, NEW t, t = Append(s, b)
    PROVE  /\ t \in Seq(S) /\ Len(t) = Len(s) + 1 /\ t[Len(s) + 1] = b
           /\ \A i \in 1 .. Len(s) : t[i] = s[i]
OBVIOUS

LEMMA AppendTwo ==
    ASSUME NEW a, NEW b
    PROVE  /\ Append(<<>>, b) = <<b>> /\ Append(<<a>>, b) = <<a, b>>
           /\ Len(<<>>) = 0 /\ Len(<<b>>) = 1 /\ Len(<<a, b>>) = 2
<1>1. PICK S : S = {a, b}
  OBVIOUS
<1>2. PICK s, u : s = <<a>> /\ u = <<a, b>>
  OBVIOUS
<1>3. s \in Seq(S) /\ Len(s) = 1 /\ s[1] = a /\ a \in S /\ b \in S
  BY <1>1, <1>2
<1>4. u \in Seq(S) /\ Len(u) = 2 /\ u[1] = a /\ u[2] = b
  BY <1>1, <1>2
<1>5. PICK t : t = Append(s, b)
  OBVIOUS
<1>6. t \in Seq(S) /\ Len(t) = 2 /\ t[1] = a /\ t[2] = b
  BY <1>3, <1>5, AppendIs
<1>7. t = u
  <2>1. \A i \in 1 .. 2 : t[i] = u[i]
    <3>1. \A i \in 1 .. 2 : i = 1 \/ i = 2
      OBVIOUS
    <3>. QED
      BY <1>4, <1>6, <3>1
  <2>. QED
    BY <1>4, <1>6, <2>1, SeqEqual
<1>8. Append(<<>>, b) = <<b>> /\ Len(<<>>) = 0 /\ Len(<<b>>) = 1 /\ Len(<<a, b>>) = 2
  OBVIOUS
<1>. QED
  BY <1>2, <1>5, <1>7, <1>8

LEMMA ScriptIs ==
    /\ Len(Script) = 5 /\ DOMAIN Script = 1 .. 5
    /\ Script[1].name = "/" /\ Script[1].type = "dir"
    /\ Script[2].name = "kernel" /\ Script[2].type = "dir" /\ Script[2].parent = 1
    /\ Script[3].name = "shell" /\ Script[3].type = "dir" /\ Script[3].parent = 1
    /\ Script[4].name = "README" /\ Script[4].type = "file" /\ Script[4].parent = 2
    /\ Script[5].name = "README" /\ Script[5].type = "file" /\ Script[5].parent = 3
    /\ \A i \in 1 .. 5 : Script[i].name \in Names /\ Script[i].type \in {"dir", "file"}
    /\ \A i \in 2 .. 5 : Script[i].parent \in 1 .. i - 1
<1>1. DOMAIN Script = 1 .. 5 /\ Len(Script) = 5
  BY DEF Script
<1>2. /\ Script[1].name = "/" /\ Script[1].type = "dir"
      /\ Script[2].name = "kernel" /\ Script[2].type = "dir" /\ Script[2].parent = 1
      /\ Script[3].name = "shell" /\ Script[3].type = "dir" /\ Script[3].parent = 1
  BY DEF Script
<1>3. /\ Script[4].name = "README" /\ Script[4].type = "file" /\ Script[4].parent = 2
      /\ Script[5].name = "README" /\ Script[5].type = "file" /\ Script[5].parent = 3
  BY DEF Script
<1>4. \A i \in 1 .. 5 : Script[i].name \in Names
  BY <1>1 DEF Names
<1>5. \A i \in 1 .. 5 : i = 1 \/ i = 2 \/ i = 3 \/ i = 4 \/ i = 5
  OBVIOUS
<1>6. \A i \in 1 .. 5 : Script[i].type \in {"dir", "file"}
  BY <1>2, <1>3, <1>5
<1>7. \A i \in 2 .. 5 : Script[i].parent \in 1 .. i - 1
  BY <1>2, <1>3, <1>5
<1>. QED
  BY <1>1, <1>2, <1>3, <1>4, <1>6, <1>7

\* What the call after those of m can return: NULL, or a new node if those
\* calls have all got one.
Fresh(m, ptr) ==
    /\ Distinct(m) /\ Len(m) < 5 /\ ptr \in Nat
    /\ ptr # NULL => \A i \in DOMAIN m : m[i] # NULL /\ m[i] # ptr

\* The results m with that of one more call.
IsOneMore(m, ptr, next) ==
    /\ Distinct(next) /\ DOMAIN next = DOMAIN m \cup {Len(m) + 1}
    /\ Len(m) \in 0 .. 4 /\ Len(next) = Len(m) + 1 /\ DOMAIN m = 1 .. Len(m)
    /\ \A i \in DOMAIN m : next[i] = m[i]
    /\ next[Len(m) + 1] = ptr
    /\ ptr = NULL => NodesOf(next) = NodesOf(m)
    /\ ptr # NULL => NodesOf(next) = NodesOf(m) \cup {ptr}

LEMMA OneMore ==
    ASSUME NEW m, NEW ptr, Fresh(m, ptr)
    PROVE  IsOneMore(m, ptr, Append(m, ptr))
<1>. DEFINE next == Append(m, ptr)
<1>1. m \in Seq(Nat) /\ Len(m) \in Nat /\ DOMAIN m = 1 .. Len(m)
  BY DEF Fresh, Distinct
<1>2. /\ next \in Seq(Nat) /\ Len(next) = Len(m) + 1 /\ DOMAIN next = 1 .. Len(m) + 1
      /\ \A i \in DOMAIN m : next[i] = m[i]
      /\ next[Len(m) + 1] = ptr
  BY <1>1 DEF Fresh
<1>3. DOMAIN next = DOMAIN m \cup {Len(m) + 1}
  BY <1>1, <1>2
<1>4. ASSUME NEW i \in DOMAIN next, NEW j \in DOMAIN next, i < j, next[j] # NULL
      PROVE  next[i] # NULL /\ next[i] # next[j]
  <2>1. i \in DOMAIN m
    BY <1>1, <1>2, <1>4
  <2>2. CASE j \in DOMAIN m
    BY <1>2, <1>4, <2>1, <2>2 DEF Fresh, Distinct
  <2>3. CASE j = Len(m) + 1
    BY <1>2, <1>4, <2>1, <2>3 DEF Fresh
  <2>. QED
    BY <1>3, <2>2, <2>3
<1>5. Len(next) <= 5
  BY <1>1, <1>2 DEF Fresh
<1>6. /\ ptr = NULL => NodesOf(next) = NodesOf(m)
      /\ ptr # NULL => NodesOf(next) = NodesOf(m) \cup {ptr}
  BY <1>2, <1>3 DEF NodesOf
<1>7. Len(m) \in 0 .. 4
  <2>1. Len(m) < 5
    BY DEF Fresh
  <2>2. ASSUME NEW k \in Nat, k < 5 PROVE k \in 0 .. 4
    BY <2>2
  <2>. QED
    BY <1>1, <2>1, <2>2
<1>. QED
  BY <1>1, <1>2, <1>3, <1>4, <1>5, <1>6, <1>7 DEF Distinct, IsOneMore

\* A call that has got no memory leaves the tree as it is.
LEMMA NothingMade ==
    ASSUME NEW n, NEW m, TreeOf(n, m), Len(m) < 5
    PROVE  TreeOf(n, Append(m, NULL))
<1>1. PICK next : next = Append(m, NULL)
  OBVIOUS
<1>2. /\ Distinct(next) /\ DOMAIN next = DOMAIN m \cup {Len(m) + 1}
      /\ Len(m) \in Nat /\ DOMAIN m = 1 .. Len(m)
      /\ \A i \in DOMAIN m : next[i] = m[i]
      /\ next[Len(m) + 1] = NULL /\ NodesOf(next) = NodesOf(m)
  <2>1. Fresh(m, NULL)
    BY DEF TreeOf, Fresh, NULL
  <2>2. IsOneMore(m, NULL, next)
    BY <1>1, <2>1, OneMore
  <2>. QED
    BY <2>2 DEF IsOneMore
<1>3. \A i : Made(next, i) <=> Made(m, i)
  BY <1>2 DEF Made
<1>4. \A i : Made(m, i) => next[i] = m[i]
  BY <1>2 DEF Made
<1>5. ASSUME NEW i \in DOMAIN next, next[i] # NULL PROVE n[next[i]] = NodeOf(next, i)
  <2>1. i \in DOMAIN m /\ next[i] = m[i] /\ m[i] # NULL
    BY <1>2, <1>5
  <2>2. n[m[i]] = NodeOf(m, i)
    BY <2>1 DEF TreeOf
  <2>3. KidsOf(next, i) = KidsOf(m, i)
    <3>1. Made(m, 3) => next[2] = m[2] /\ next[3] = m[3]
      BY <1>2 DEF Made
    <3>2. CASE i = 1
      BY <1>3, <1>4, <3>1, <3>2 DEF KidsOf
    <3>3. CASE i # 1
      BY <1>3, <1>4, <3>3 DEF KidsOf
    <3>. QED
      BY <3>2, <3>3
  <2>4. ParentOf(next, i) = ParentOf(m, i)
    <3>1. CASE i = 1
      BY <3>1 DEF ParentOf
    <3>2. CASE i # 1
      <4>1. i \in 2 .. 5
        BY <1>2, <2>1, <3>2
      <4>2. Script[i].parent \in 1 .. i - 1
        BY <4>1, ScriptIs
      <4>3. Script[i].parent \in DOMAIN m
        BY <1>2, <2>1, <4>2
      <4>. QED
        BY <1>2, <3>2, <4>3 DEF ParentOf
    <3>. QED
      BY <3>1, <3>2
  <2>. QED
    BY <2>1, <2>2, <2>3, <2>4 DEF NodeOf
<1>. QED
  BY <1>1, <1>2, <1>5 DEF TreeOf

\* A call that has got memory enters its node with the parent.
EnteredOnce(m, ptr, next, call) ==
    /\ KidsOf(next, call) = <<>>
    /\ \A i \in DOMAIN m :
         KidsOf(next, i) = IF call # 1 /\ i = Script[call].parent
                             THEN Append(KidsOf(m, i), ptr) ELSE KidsOf(m, i)
    /\ call # 1 => Len(KidsOf(m, Script[call].parent)) \in {0, 1}

LEMMA KidsGrow ==
    ASSUME NEW m, NEW ptr, Fresh(m, ptr), ptr # NULL, NEW next, next = Append(m, ptr),
           NEW call, call = Len(m) + 1
    PROVE  EnteredOnce(m, ptr, next, call)
<1>1. /\ Len(m) \in 0 .. 4 /\ DOMAIN m = 1 .. Len(m) /\ DOMAIN next = 1 .. Len(m) + 1
      /\ \A i \in DOMAIN m : next[i] = m[i]
      /\ next[Len(m) + 1] = ptr
  <2>1. IsOneMore(m, ptr, next)
    BY OneMore
  <2>. QED
    BY <2>1 DEF IsOneMore
<1>2. \A i \in Nat : (Made(m, i) <=> i \in 1 .. Len(m)) /\ (Made(next, i) <=> i \in 1 .. call)
  BY <1>1 DEF Fresh, Made
<1>3. CASE Len(m) = 0
  <2>1. call = 1 /\ ~Made(next, 2) /\ ~Made(next, 3)
    BY <1>2, <1>3
  <2>. QED
    BY <1>1, <1>3, <2>1 DEF KidsOf, EnteredOnce
<1>4. CASE Len(m) = 1
  <2>1. /\ call = 2 /\ Made(next, 2) /\ ~Made(next, 3) /\ ~Made(next, 4)
        /\ ~Made(m, 2) /\ ~Made(m, 3)
    BY <1>2, <1>4
  <2>2. next[2] = ptr /\ \A i \in DOMAIN m : i = 1
    BY <1>1, <1>4
  <2>3. KidsOf(next, 2) = <<>> /\ KidsOf(m, 1) = <<>> /\ KidsOf(next, 1) = <<ptr>>
    BY <2>1, <2>2 DEF KidsOf
  <2>4. Append(<<>>, ptr) = <<ptr>> /\ Len(<<>>) = 0
    BY AppendTwo
  <2>5. Script[call].parent = 1 /\ call # 1
    BY <2>1, ScriptIs
  <2>6. KidsOf(next, 1) = Append(KidsOf(m, 1), ptr) /\ Len(KidsOf(m, 1)) = 0
    BY ONLY <2>3, <2>4, Zenon
  <2>. QED
    BY ONLY <2>1, <2>2, <2>3, <2>5, <2>6 DEF EnteredOnce
<1>5. CASE Len(m) = 2
  <2>1. /\ call = 3 /\ Made(next, 2) /\ Made(next, 3) /\ ~Made(next, 4) /\ ~Made(next, 5)
        /\ Made(m, 2) /\ ~Made(m, 3) /\ ~Made(m, 4)
    BY <1>2, <1>5
  <2>2. next[2] = m[2] /\ next[3] = ptr /\ \A i \in DOMAIN m : i = 1 \/ i = 2
    BY <1>1, <1>5
  <2>3. /\ KidsOf(next, 3) = <<>> /\ KidsOf(m, 1) = <<m[2]>>
        /\ KidsOf(next, 1) = <<m[2], ptr>> /\ KidsOf(m, 2) = <<>> /\ KidsOf(next, 2) = <<>>
    BY <2>1, <2>2 DEF KidsOf
  <2>4. Append(<<m[2]>>, ptr) = <<m[2], ptr>> /\ Len(<<m[2]>>) = 1
    BY AppendTwo
  <2>5. Script[call].parent = 1 /\ call # 1
    BY <2>1, ScriptIs
  <2>6. /\ KidsOf(next, 1) = Append(KidsOf(m, 1), ptr) /\ KidsOf(next, 2) = KidsOf(m, 2)
        /\ Len(KidsOf(m, 1)) = 1
    BY ONLY <2>3, <2>4, Zenon
  <2>. QED
    BY ONLY <2>1, <2>2, <2>3, <2>5, <2>6 DEF EnteredOnce
<1>6. CASE Len(m) = 3
  <2>1. /\ call = 4 /\ Made(next, 3) /\ Made(next, 4) /\ ~Made(next, 5)
        /\ Made(m, 3) /\ ~Made(m, 4) /\ ~Made(m, 5)
    BY <1>2, <1>6
  <2>2. /\ next[2] = m[2] /\ next[3] = m[3] /\ next[4] = ptr
        /\ \A i \in DOMAIN m : i = 1 \/ i = 2 \/ i = 3
    BY <1>1, <1>6
  <2>3. /\ KidsOf(next, 4) = <<>> /\ KidsOf(m, 2) = <<>> /\ KidsOf(next, 2) = <<ptr>>
        /\ KidsOf(m, 3) = <<>> /\ KidsOf(next, 3) = <<>>
        /\ KidsOf(m, 1) = <<m[2], m[3]>> /\ KidsOf(next, 1) = <<m[2], m[3]>>
    BY <2>1, <2>2 DEF KidsOf
  <2>4. Append(<<>>, ptr) = <<ptr>> /\ Len(<<>>) = 0
    BY AppendTwo
  <2>5. Script[call].parent = 2 /\ call # 1
    BY <2>1, ScriptIs
  <2>6. /\ KidsOf(next, 2) = Append(KidsOf(m, 2), ptr) /\ Len(KidsOf(m, 2)) = 0
        /\ KidsOf(next, 1) = KidsOf(m, 1) /\ KidsOf(next, 3) = KidsOf(m, 3)
    BY ONLY <2>3, <2>4, Zenon
  <2>. QED
    BY ONLY <2>1, <2>2, <2>3, <2>5, <2>6 DEF EnteredOnce
<1>7. CASE Len(m) = 4
  <2>1. /\ call = 5 /\ Made(next, 3) /\ Made(next, 4) /\ Made(next, 5)
        /\ Made(m, 3) /\ Made(m, 4) /\ ~Made(m, 5)
    BY <1>2, <1>7
  <2>2. /\ next[2] = m[2] /\ next[3] = m[3] /\ next[4] = m[4] /\ next[5] = ptr
        /\ \A i \in DOMAIN m : i = 1 \/ i = 2 \/ i = 3 \/ i = 4
    <3>1. /\ DOMAIN m = 1 .. 4 /\ next[5] = ptr
          /\ \A i \in 1 .. 4 : next[i] = m[i]
      <4>1. PICK k : k = Len(m) /\ k = 4
        BY <1>7
      <4>. QED
        BY <1>1, <4>1
    <3>. QED
      BY <3>1
  <2>3. /\ KidsOf(next, 5) = <<>> /\ KidsOf(m, 3) = <<>> /\ KidsOf(next, 3) = <<ptr>>
        /\ KidsOf(m, 2) = <<m[4]>> /\ KidsOf(next, 2) = <<m[4]>>
        /\ KidsOf(m, 4) = <<>> /\ KidsOf(next, 4) = <<>>
        /\ KidsOf(m, 1) = <<m[2], m[3]>> /\ KidsOf(next, 1) = <<m[2], m[3]>>
    BY <2>1, <2>2 DEF KidsOf
  <2>4. Append(<<>>, ptr) = <<ptr>> /\ Len(<<>>) = 0
    BY AppendTwo
  <2>5. Script[call].parent = 3 /\ call # 1
    BY <2>1, ScriptIs
  <2>6. /\ KidsOf(next, 3) = Append(KidsOf(m, 3), ptr) /\ Len(KidsOf(m, 3)) = 0
        /\ KidsOf(next, 1) = KidsOf(m, 1) /\ KidsOf(next, 2) = KidsOf(m, 2)
        /\ KidsOf(next, 4) = KidsOf(m, 4)
    BY ONLY <2>3, <2>4, Zenon
  <2>. QED
    BY ONLY <2>1, <2>2, <2>3, <2>5, <2>6 DEF EnteredOnce
<1>. QED
  BY <1>1, <1>3, <1>4, <1>5, <1>6, <1>7 DEF EnteredOnce

LEMMA NodeMade ==
    ASSUME TreeOf(nodes, made), NEW ptr, Fresh(made, ptr), ptr # NULL
    PROVE  TreeOf(Linked(ptr, Len(made) + 1), Append(made, ptr))
<1>1. PICK next, call : next = Append(made, ptr) /\ call = Len(made) + 1
  OBVIOUS
<1>2. IsOneMore(made, ptr, next)
  BY <1>1, OneMore
<1>3. /\ Distinct(next) /\ DOMAIN made = 1 .. Len(made) /\ Len(made) \in 0 .. 4
      /\ DOMAIN next = DOMAIN made \cup {call} /\ next[call] = ptr
      /\ \A i \in DOMAIN made : next[i] = made[i]
      /\ NodesOf(next) = NodesOf(made) \cup {ptr}
  BY <1>1, <1>2 DEF IsOneMore
<1>4. \A i \in DOMAIN made : made[i] # NULL /\ made[i] # ptr
  BY DEF Fresh
<1>5. \A i, j \in DOMAIN made : i # j => made[i] # made[j]
  BY <1>3, <1>4 DEF TreeOf, Distinct
<1>6. DOMAIN nodes = NodesOf(made)
  BY DEF TreeOf
<1>7. /\ KidsOf(next, call) = <<>>
      /\ \A i \in DOMAIN made :
           KidsOf(next, i) = IF call # 1 /\ i = Script[call].parent
                               THEN Append(KidsOf(made, i), ptr) ELSE KidsOf(made, i)
      /\ call # 1 => Len(KidsOf(made, Script[call].parent)) \in {0, 1}
  <2>1. EnteredOnce(made, ptr, next, call)
    BY <1>1, KidsGrow
  <2>. QED
    BY <2>1 DEF EnteredOnce
<1>8. call # 1 => Script[call].parent \in DOMAIN made
  <2>1. call # 1 => call \in 2 .. 5
    BY <1>1, <1>3
  <2>2. call # 1 => Script[call].parent \in 1 .. call - 1
    BY <2>1, ScriptIs
  <2>. QED
    BY <1>1, <1>3, <2>2
<1>9. EnteredIn(call) = ParentOf(next, call)
  BY <1>3, <1>8 DEF EnteredIn, ParentOf
<1>. DEFINE n == Linked(ptr, call)
<1>10. DOMAIN n = NodesOf(next) /\ n = [p \in NodesOf(next) |-> n[p]]
  BY <1>3, <1>6 DEF Linked
<1>11. n[ptr] = NodeOf(next, call)
  BY <1>7, <1>9 DEF Linked, NodeOf
<1>12. ASSUME NEW i \in DOMAIN made PROVE n[made[i]] = NodeOf(next, i)
  <2>1. /\ made[i] # ptr /\ made[i] \in DOMAIN nodes /\ nodes[made[i]] = NodeOf(made, i)
    BY <1>4, <1>6 DEF TreeOf, NodesOf
  <2>2. ParentOf(next, i) = ParentOf(made, i)
    <3>1. i # 1 => i \in 2 .. 5
      BY <1>3
    <3>2. i # 1 => Script[i].parent \in 1 .. i - 1
      BY <3>1, ScriptIs
    <3>3. i # 1 => Script[i].parent \in DOMAIN made
      BY <1>3, <3>2
    <3>. QED
      BY <1>3, <3>3 DEF ParentOf
  <2>3. CASE call # 1 /\ i = Script[call].parent
    <3>1. made[i] = EnteredIn(call)
      BY <2>3 DEF EnteredIn
    <3>2. Len(nodes[made[i]].children) < MaxChildren
      <4>1. nodes[made[i]].children = KidsOf(made, i)
        BY <2>1 DEF NodeOf
      <4>2. Len(KidsOf(made, i)) \in {0, 1}
        BY <1>7, <2>3
      <4>3. MaxChildren \in Int /\ MaxChildren >= 2
        BY BootAssumption
      <4>4. \A k \in {0, 1} : k < MaxChildren
        BY <4>3
      <4>. QED
        BY <4>1, <4>2, <4>4
    <3>3. n[made[i]] = [nodes[made[i]] EXCEPT !.children = Append(@, ptr)]
      BY <2>1, <3>1, <3>2 DEF Linked
    <3>4. KidsOf(next, i) = Append(KidsOf(made, i), ptr)
      BY <1>7, <2>3
    <3>5. [NodeOf(made, i) EXCEPT !.children = Append(@, ptr)]
            = [name |-> Script[i].name, type |-> Script[i].type, parent |-> ParentOf(made, i),
               children |-> Append(KidsOf(made, i), ptr)]
      BY DEF NodeOf
    <3>. QED
      BY <2>1, <2>2, <3>3, <3>4, <3>5 DEF NodeOf
  <2>4. CASE ~(call # 1 /\ i = Script[call].parent)
    <3>1. made[i] # EnteredIn(call)
      BY <1>4, <1>5, <1>8, <2>4 DEF EnteredIn
    <3>2. n[made[i]] = nodes[made[i]]
      BY <2>1, <3>1 DEF Linked
    <3>3. KidsOf(next, i) = KidsOf(made, i)
      BY <1>7, <2>4
    <3>. QED
      BY <2>1, <2>2, <3>2, <3>3 DEF NodeOf
  <2>. QED
    BY <2>3, <2>4
<1>13. ASSUME NEW i \in DOMAIN next PROVE n[next[i]] = NodeOf(next, i)
  BY <1>3, <1>11, <1>12
<1>14. TreeOf(n, next)
  BY <1>3, <1>10, <1>13 DEF TreeOf
<1>. QED
  BY <1>1, <1>14

\* A call that allocates for a node.
NodeUnits == AlignUp(NodeSize, Align)

\* Neither the list nor the page allocator has memory for a node.
NoRoom == FirstFit(NodeUnits) = NULL /\ FreePages = {}

LEMMA CallReturns ==
    ASSUME PmmAssumption, HeapAssumption, BootAssumption, HeapInv, Kmalloc(NodeSize)
    PROVE  \/ /\ Returned # NULL /\ Returned \in Nat /\ Returned \notin DOMAIN granted
              /\ granted' = GrantTo(Returned, NodeSize)
              /\ ~NoRoom
           \/ Returned = NULL /\ UNCHANGED vars /\ NoRoom
<1>1. NodeSize \in Sizes /\ NodeSize # 0
  BY BootAssumption
<1>2. ASSUME Gives(NodeSize)
      PROVE  /\ Returned # NULL /\ Returned \in Nat /\ Returned \notin DOMAIN granted
             /\ granted' = GrantTo(Returned, NodeSize)
  <2>1. PICK ptr \in Nat : /\ ptr # NULL /\ ptr \notin DOMAIN granted
                           /\ granted' = GrantTo(ptr, NodeSize)
    BY <1>2 DEF Gives
  <2>2. DOMAIN granted' \ DOMAIN granted = {ptr}
    BY <2>1 DEF GrantTo
  <2>3. Returned = ptr
    BY <2>2 DEF Returned
  <2>. QED
    BY <2>1, <2>3
<1>3. CASE KmallocFromList(NodeSize)
  <2>1. Gives(NodeSize)
    BY <1>1, <1>3, FromListGives
  <2>2. ~NoRoom
    BY <1>3 DEF KmallocFromList, NoRoom, NodeUnits
  <2>. QED
    BY <1>2, <2>1, <2>2
<1>4. CASE KmallocExtends(NodeSize)
  <2>1. PICK n, got : n = NodeUnits /\ got = RunLength((n + HDR + PageSize - 1) \div PageSize)
    OBVIOUS
  <2>2. got \in Nat /\ got >= 1 /\ IF RegionSize(got) < n THEN UNCHANGED granted ELSE Gives(NodeSize)
    BY <1>1, <1>4, <2>1, ExtendsGives DEF NodeUnits
  <2>3. n \in Nat /\ n + HDR <= PageSize /\ HDR \in Nat /\ PageSize \in Nat
    BY <1>1, <2>1, AlignUpSize, BootAssumption, HeapAssumption, PmmAssumption DEF NodeUnits
  <2>4. got * PageSize >= PageSize
    BY <2>2, <2>3
  <2>5. ~(RegionSize(got) < n)
    BY <2>2, <2>3, <2>4 DEF RegionSize
  <2>6. ~NoRoom
    BY <1>4 DEF KmallocExtends, NoRoom
  <2>. QED
    BY <1>2, <2>2, <2>5, <2>6
<1>5. CASE KmallocFails(NodeSize)
  <2>1. NoRoom /\ UNCHANGED vars
    BY <1>1, <1>5 DEF KmallocFails, NoRoom, NodeUnits
  <2>2. Returned = NULL
    BY <2>1 DEF Returned, vars, heap_vars, caller_vars
  <2>. QED
    BY <2>1, <2>2
<1>. QED
  BY <1>3, <1>4, <1>5 DEF Kmalloc

LEMMA NoRoomStays == ASSUME UNCHANGED vars, NoRoom PROVE NoRoom'
<1>1. UNCHANGED <<hdr, heap_head, bitmap, pmm_vars>>
  BY DEF vars, heap_vars, list_vars, pmm_vars
<1>. QED
  BY <1>1 DEF NoRoom, FirstFit, Fits, Blocks, FreePages, NodeUnits

\* The tree as it comes to be, and as the shell uses it.
TreeInv ==
    /\ info \in BootInfos
    /\ TreeOf(nodes, made)
    /\ \A ptr \in DOMAIN nodes : ptr \in DOMAIN granted /\ granted[ptr] = NodeSize
    /\ Len(made) > 0 => heap_up
    /\ mounted \in BOOLEAN
    /\ mounted => Len(made) = 5 /\ vfs_root = made[1]
    /\ ~mounted => vfs_root = NULL /\ vfs_cwd = NULL
    /\ ~mounted /\ (\E i \in DOMAIN made : made[i] = NULL) => NoRoom
    /\ vfs_root = NULL => vfs_cwd = NULL
    /\ vfs_root # NULL => \E i \in 1 .. 3 : Made(made, i) /\ vfs_cwd = made[i]

LEMMA TreeFacts ==
    ASSUME TreeOf(nodes, made)
    PROVE  /\ Len(made) \in 0 .. 5 /\ DOMAIN made = 1 .. Len(made) /\ made \in Seq(Nat)
           /\ DOMAIN nodes = NodesOf(made)
           /\ \A ptr \in DOMAIN nodes : \E i \in 1 .. 5 : Made(made, i) /\ ptr = made[i]
           /\ \A i : Made(made, i) => /\ i \in 1 .. 5 /\ made[i] \in DOMAIN nodes
                                      /\ made[i] # NULL /\ nodes[made[i]] = NodeOf(made, i)
           /\ \A i : Made(made, i) => \A j \in 1 .. i : Made(made, j)
           /\ \A i, j : Made(made, i) /\ Made(made, j) /\ made[i] = made[j] => i = j
<1>1. made \in Seq(Nat) /\ Len(made) <= 5 /\ DOMAIN nodes = NodesOf(made)
  BY DEF TreeOf, Distinct
<1>2. Len(made) \in Nat /\ DOMAIN made = 1 .. Len(made)
  BY <1>1
<1>3. Len(made) \in 0 .. 5
  <2>1. ASSUME NEW k \in Nat, k <= 5 PROVE k \in 0 .. 5
    BY <2>1
  <2>. QED
    BY <1>1, <1>2, <2>1
<1>4. \A i : Made(made, i) => /\ i \in 1 .. 5 /\ made[i] \in DOMAIN nodes
                               /\ made[i] # NULL /\ nodes[made[i]] = NodeOf(made, i)
  BY <1>1, <1>2, <1>3 DEF Made, NodesOf, TreeOf
<1>5. \A ptr \in DOMAIN nodes : \E i \in 1 .. 5 : Made(made, i) /\ ptr = made[i]
  BY <1>1, <1>2, <1>3 DEF Made, NodesOf
<1>6. ASSUME NEW i, Made(made, i), NEW j \in 1 .. i PROVE Made(made, j)
  <2>1. i \in DOMAIN made /\ j \in DOMAIN made /\ made[i] # NULL
    BY <1>2, <1>3, <1>6 DEF Made
  <2>2. j < i \/ j = i
    BY <1>4, <1>6
  <2>. QED
    BY <2>1, <2>2 DEF Made, TreeOf, Distinct
<1>7. ASSUME NEW i, NEW j, Made(made, i), Made(made, j), made[i] = made[j] PROVE i = j
  <2>1. i \in DOMAIN made /\ j \in DOMAIN made /\ made[i] # NULL
    BY <1>7 DEF Made
  <2>2. i < j \/ j < i \/ i = j
    BY <1>4, <1>7
  <2>. QED
    BY <1>7, <2>1, <2>2 DEF TreeOf, Distinct
<1>. QED
  BY <1>1, <1>2, <1>3, <1>4, <1>5, <1>6, <1>7

LEMMA NodeIs ==
    ASSUME TreeOf(nodes, made), NEW i, Made(made, i)
    PROVE  /\ nodes[made[i]].name = Script[i].name /\ nodes[made[i]].type = Script[i].type
           /\ nodes[made[i]].parent = ParentOf(made, i)
           /\ nodes[made[i]].children = KidsOf(made, i)
<1>1. nodes[made[i]] = NodeOf(made, i)
  BY TreeFacts
<1>. QED
  BY <1>1 DEF NodeOf

\* What the list of children of a node holds.
LEMMA KidsAre ==
    ASSUME TreeOf(nodes, made), NEW i, Made(made, i), NEW k \in DOMAIN KidsOf(made, i)
    PROVE  /\ KidsOf(made, i) \in Seq(DOMAIN nodes) /\ k \in {1, 2}
           /\ \E j \in 2 .. 5 : Made(made, j) /\ KidsOf(made, i)[k] = made[j]
<1>1. CASE i = 1 /\ Made(made, 3)
  <2>1. PICK a, b : a = made[2] /\ b = made[3]
    OBVIOUS
  <2>2. KidsOf(made, i) = <<a, b>>
    BY <1>1, <2>1 DEF KidsOf
  <2>3. Made(made, 2) /\ Made(made, 3) /\ a \in DOMAIN nodes /\ b \in DOMAIN nodes
    BY <1>1, <2>1, TreeFacts
  <2>4. k \in 1 .. 2 /\ <<a, b>> \in Seq(DOMAIN nodes)
    BY <2>2, <2>3
  <2>5. (k = 1 /\ KidsOf(made, i)[k] = a) \/ (k = 2 /\ KidsOf(made, i)[k] = b)
    BY <2>2, <2>4
  <2>. QED
    BY <2>1, <2>2, <2>3, <2>4, <2>5
<1>2. ASSUME NEW j \in 2 .. 5, Made(made, j), KidsOf(made, i) = <<made[j]>>
      PROVE  /\ KidsOf(made, i) \in Seq(DOMAIN nodes) /\ k \in {1, 2}
             /\ Made(made, j) /\ KidsOf(made, i)[k] = made[j]
  <2>1. PICK a : a = made[j]
    OBVIOUS
  <2>2. a \in DOMAIN nodes
    BY <1>2, <2>1, TreeFacts
  <2>3. k = 1 /\ <<a>> \in Seq(DOMAIN nodes) /\ <<a>>[k] = a
    BY <1>2, <2>1, <2>2
  <2>. QED
    BY <1>2, <2>1, <2>3
<1>3. CASE i = 1 /\ Made(made, 2) /\ ~Made(made, 3)
  <2>1. KidsOf(made, i) = <<made[2]>>
    BY <1>3 DEF KidsOf
  <2>. QED
    BY <1>2, <1>3, <2>1
<1>4. CASE i \in {2, 3} /\ Made(made, i + 2)
  <2>1. KidsOf(made, i) = <<made[i + 2]>> /\ i + 2 \in 2 .. 5
    BY <1>4 DEF KidsOf
  <2>. QED
    BY <1>2, <1>4, <2>1
<1>. QED
  BY <1>1, <1>3, <1>4 DEF KidsOf

LEMMA ParentIs ==
    ASSUME TreeOf(nodes, made), NEW i, Made(made, i)
    PROVE  /\ i = 1 => nodes[made[i]].parent = NULL
           /\ i # 1 => /\ i \in 2 .. 5 /\ Script[i].parent \in 1 .. i - 1
                      /\ Made(made, Script[i].parent)
                      /\ nodes[made[i]].parent = made[Script[i].parent]
                      /\ nodes[made[i]].parent # NULL
<1>1. nodes[made[i]].parent = ParentOf(made, i) /\ i \in 1 .. 5
  BY NodeIs, TreeFacts
<1>2. ASSUME i # 1
      PROVE  i \in 2 .. 5 /\ Script[i].parent \in 1 .. i - 1 /\ Made(made, Script[i].parent)
  <2>1. i \in 2 .. 5
    BY <1>1, <1>2
  <2>2. Script[i].parent \in 1 .. i - 1
    BY <2>1, ScriptIs
  <2>3. \A j \in 1 .. i : Made(made, j)
    BY TreeFacts
  <2>. QED
    BY <2>1, <2>2, <2>3
<1>3. i # 1 => made[Script[i].parent] # NULL
  BY <1>2 DEF Made
<1>. QED
  BY <1>1, <1>2, <1>3 DEF ParentOf

\* cd leads from a directory to a directory.
LEMMA CdStays ==
    ASSUME TreeOf(nodes, made), NEW i \in 1 .. 3, Made(made, i), vfs_root = made[1], NEW arg
    PROVE  \E j \in 1 .. 3 : Made(made, j) /\ CdFrom(made[i], arg) = made[j]
<1>1. Made(made, 1)
  BY TreeFacts
<1>2. CASE arg = "/"
  BY <1>1, <1>2 DEF CdFrom
<1>3. CASE arg = ".."
  <2>1. CdFrom(made[i], arg) = IF nodes[made[i]].parent = NULL THEN made[i]
                               ELSE nodes[made[i]].parent
    BY <1>3 DEF CdFrom, Up
  <2>2. i # 1 => nodes[made[i]].parent = made[1]
    <3>1. i = 2 \/ i = 3 \/ i = 1
      OBVIOUS
    <3>2. i # 1 => Script[i].parent = 1
      BY <3>1, ScriptIs
    <3>. QED
      BY <3>2, ParentIs
  <2>3. made[1] # NULL /\ (i = 1 => nodes[made[i]].parent = NULL)
    BY <1>1, ParentIs DEF Made
  <2>. QED
    BY <1>1, <2>1, <2>2, <2>3
<1>4. CASE arg # "/" /\ arg # ".."
  <2>1. PICK found : found = FindChild(made[i], arg)
    OBVIOUS
  <2>2. CdFrom(made[i], arg) = IF found # NULL /\ nodes[found].type = "dir" THEN found ELSE made[i]
    BY <1>4, <2>1 DEF CdFrom
  <2>3. CASE found # NULL /\ nodes[found].type = "dir"
    <3>1. PICK named : named = {k \in DOMAIN KidsOf(made, i) :
                                   nodes[KidsOf(made, i)[k]].name = arg}
      OBVIOUS
    <3>2. nodes[made[i]].children = KidsOf(made, i)
      BY NodeIs
    <3>3. found = IF named = {} THEN NULL ELSE KidsOf(made, i)[Min(named)]
      BY <2>1, <3>1, <3>2 DEF FindChild
    <3>4. named # {} /\ found = KidsOf(made, i)[Min(named)]
      BY <2>3, <3>3
    <3>5. \A k \in named : k \in DOMAIN KidsOf(made, i) /\ k \in {1, 2}
      BY <3>1, KidsAre
    <3>6. named \in SUBSET Nat
      BY <3>5
    <3>7. Min(named) \in named
      BY <3>4, <3>6, MinIsLeast
    <3>8. PICK j \in 2 .. 5 : Made(made, j) /\ found = made[j]
      BY <3>4, <3>5, <3>7, KidsAre
    <3>9. Script[j].type = "dir"
      BY <2>3, <3>8, NodeIs
    <3>10. j = 2 \/ j = 3
      <4>1. j = 2 \/ j = 3 \/ j = 4 \/ j = 5
        BY <3>8
      <4>. QED
        BY <3>9, <4>1, ScriptIs
    <3>. QED
      BY <2>2, <2>3, <3>8, <3>10
  <2>. QED
    BY <2>2, <2>3
<1>. QED
  BY <1>2, <1>3, <1>4

LEMMA StillGranted ==
    ASSUME \A ptr \in DOMAIN nodes : ptr \in DOMAIN granted /\ granted[ptr] = NodeSize,
           \/ UNCHANGED granted
           \/ \E size : Gives(size)
           \/ \E ptr \in DOMAIN granted \ DOMAIN nodes :
                 granted' = Restrict(granted, DOMAIN granted \ {ptr})
    PROVE  \A ptr \in DOMAIN nodes : ptr \in DOMAIN granted' /\ granted'[ptr] = NodeSize
<1>1. CASE UNCHANGED granted
  BY <1>1
<1>2. ASSUME NEW size, Gives(size)
      PROVE  \A ptr \in DOMAIN nodes : ptr \in DOMAIN granted' /\ granted'[ptr] = NodeSize
  BY <1>2 DEF Gives, GrantTo
<1>3. ASSUME NEW ptr \in DOMAIN granted \ DOMAIN nodes,
             granted' = Restrict(granted, DOMAIN granted \ {ptr})
      PROVE  \A p \in DOMAIN nodes : p \in DOMAIN granted' /\ granted'[p] = NodeSize
  BY <1>3 DEF Restrict
<1>. QED
  BY <1>1, <1>2, <1>3

LEMMA NothingMadeYet == ASSUME BootAssumption, BootInit PROVE TreeInv
<1>1. made = <<>> /\ nodes = [ptr \in {} |-> 0] /\ DOMAIN made = {} /\ Len(made) = 0
  BY DEF BootInit
<1>2. NodesOf(made) = {}
  BY <1>1 DEF NodesOf
<1>3. nodes = [ptr \in NodesOf(made) |-> nodes[ptr]]
  BY <1>1, <1>2
<1>4. TreeOf(nodes, made)
  <2>1. made \in Seq(Nat) /\ Len(made) <= 5
    BY <1>1
  <2>. QED
    BY <1>1, <1>3, <2>1 DEF TreeOf, Distinct
<1>5. /\ info \in BootInfos /\ vfs_root = NULL /\ vfs_cwd = NULL /\ mounted = FALSE
  BY DEF BootInit
<1>6. ~(Len(made) > 0) /\ DOMAIN nodes = {} /\ DOMAIN made = {}
  BY <1>1
<1>. QED
  BY <1>4, <1>5, <1>6 DEF TreeInv

LEMMA CallTreeInv ==
    ASSUME PmmAssumption, HeapAssumption, BootAssumption, HeapInv, TreeInv, VfsAllocNode
    PROVE  TreeInv'
<1>1. /\ heap_up /\ Len(made) < 5 /\ Kmalloc(NodeSize)
      /\ made' = Append(made, Returned)
      /\ nodes' = IF Returned = NULL THEN nodes ELSE Linked(Returned, Len(made) + 1)
      /\ UNCHANGED <<info, vfs_root, vfs_cwd, mounted>>
  BY ScriptIs DEF VfsAllocNode
<1>2. TreeOf(nodes, made)
  BY DEF TreeInv
<1>3. ~mounted
  <2>1. PICK k : k = Len(made)
    OBVIOUS
  <2>2. k < 5 /\ (mounted => k = 5)
    BY <1>1, <2>1 DEF TreeInv
  <2>. QED
    BY <2>2
<1>4. CASE Returned = NULL /\ UNCHANGED vars /\ NoRoom
  <2>1. nodes' = nodes /\ made' = Append(made, NULL)
    BY <1>1, <1>4
  <2>2. TreeOf(nodes', made')
    BY <1>1, <1>2, <2>1, NothingMade
  <2>3. UNCHANGED <<granted, heap_up>>
    BY <1>4 DEF vars, heap_vars, caller_vars
  <2>4. NoRoom'
    BY <1>4, NoRoomStays
  <2>. QED
    BY <1>1, <1>3, <2>1, <2>2, <2>3, <2>4 DEF TreeInv
<1>5. CASE /\ Returned # NULL /\ Returned \in Nat /\ Returned \notin DOMAIN granted
           /\ granted' = GrantTo(Returned, NodeSize)
           /\ ~NoRoom
  <2>1. PICK ptr : ptr = Returned
    OBVIOUS
  <2>2. /\ ptr # NULL /\ ptr \in Nat /\ ptr \notin DOMAIN granted
        /\ granted' = GrantTo(ptr, NodeSize) /\ made' = Append(made, ptr)
        /\ nodes' = Linked(ptr, Len(made) + 1)
    BY <1>1, <1>5, <2>1
  <2>3. \A i \in DOMAIN made : made[i] # NULL
    BY <1>3, <1>5 DEF TreeInv
  <2>4. \A i \in DOMAIN made : made[i] # ptr
    BY <2>2, <2>3, TreeFacts DEF TreeInv, Made
  <2>5. Fresh(made, ptr)
    BY <1>1, <1>2, <2>2, <2>3, <2>4 DEF Fresh, TreeOf
  <2>6. TreeOf(nodes', made')
    BY <1>2, <2>2, <2>5, NodeMade
  <2>7. IsOneMore(made, ptr, made')
    BY <2>2, <2>5, OneMore
  <2>8. \A i \in DOMAIN made' : made'[i] # NULL
    BY <2>2, <2>3, <2>7 DEF IsOneMore
  <2>9. DOMAIN nodes' = DOMAIN nodes \cup {ptr}
    BY <2>2 DEF Linked
  <2>10. \A p \in DOMAIN nodes' : p \in DOMAIN granted' /\ granted'[p] = NodeSize
    BY <2>2, <2>9 DEF TreeInv, GrantTo
  <2>11. heap_up'
    BY <1>1 DEF Kmalloc, KmallocFromList, KmallocExtends, KmallocFails, vars, heap_vars, caller_vars
  <2>. QED
    BY <1>1, <1>3, <2>6, <2>8, <2>10, <2>11 DEF TreeInv
<1>. QED
  BY <1>1, <1>4, <1>5, CallReturns

LEMMA MountedTreeInv ==
    ASSUME TreeInv, Mounted
    PROVE  TreeInv'
<1>1. /\ Len(made) = 5 /\ vfs_root' = made[1] /\ vfs_cwd' = made[1] /\ mounted' = TRUE
      /\ UNCHANGED <<info, nodes, made, granted, heap_up>>
  BY ScriptIs DEF Mounted, vars, heap_vars, caller_vars
<1>2. made[1] # NULL => Made(made, 1)
  BY <1>1, TreeFacts DEF TreeInv, Made
<1>3. vfs_root' # NULL => \E i \in 1 .. 3 : Made(made', i) /\ vfs_cwd' = made'[i]
  BY <1>1, <1>2
<1>. QED
  BY <1>1, <1>3 DEF TreeInv

LEMMA CdTreeInv ==
    ASSUME TreeInv, NEW arg, Cd(arg)
    PROVE  TreeInv'
<1>1. /\ mounted /\ vfs_cwd # NULL /\ vfs_cwd' = CdFrom(vfs_cwd, arg)
      /\ UNCHANGED <<info, nodes, made, granted, heap_up, vfs_root, mounted>>
  BY DEF Cd, vars, heap_vars, caller_vars
<1>2. PICK i \in 1 .. 3 : Made(made, i) /\ vfs_cwd = made[i]
  BY <1>1 DEF TreeInv
<1>3. \E j \in 1 .. 3 : Made(made, j) /\ vfs_cwd' = made[j]
  BY <1>1, <1>2, CdStays DEF TreeInv
<1>4. vfs_root' # NULL
  BY <1>1 DEF TreeInv
<1>. QED
  BY <1>1, <1>3, <1>4 DEF TreeInv

LEMMA UseHeapTreeInv ==
    ASSUME PmmAssumption, HeapAssumption, HeapInv, TreeInv, UseHeap
    PROVE  TreeInv'
<1>1. mounted /\ UNCHANGED <<info, nodes, made, vfs_root, vfs_cwd, mounted>>
  BY DEF UseHeap, tree_vars
<1>2. ASSUME NEW size \in Sizes, Kmalloc(size)
      PROVE  heap_up' /\ (UNCHANGED granted \/ Gives(size))
  <2>1. heap_up'
    BY <1>2 DEF Kmalloc, KmallocFromList, KmallocExtends, KmallocFails, vars, heap_vars, caller_vars
  <2>2. CASE KmallocFromList(size)
    BY <1>2, <2>1, <2>2, FromListGives
  <2>3. CASE KmallocExtends(size)
    BY <1>2, <2>1, <2>3, ExtendsGives
  <2>4. CASE KmallocFails(size)
    BY <2>1, <2>4 DEF KmallocFails, vars, heap_vars, caller_vars
  <2>. QED
    BY <1>2, <2>2, <2>3, <2>4 DEF Kmalloc
<1>3. ASSUME NEW ptr \in DOMAIN granted \ DOMAIN nodes, Kfree(ptr)
      PROVE  UNCHANGED heap_up /\ granted' = Restrict(granted, DOMAIN granted \ {ptr})
  BY <1>3, Zenon DEF Kfree
<1>4. (Len(made) > 0 => heap_up)'
  BY <1>1, <1>2, <1>3 DEF UseHeap, TreeInv
<1>5. \A ptr \in DOMAIN nodes : ptr \in DOMAIN granted' /\ granted'[ptr] = NodeSize
  BY <1>2, <1>3, StillGranted DEF UseHeap, TreeInv
<1>. QED
  BY <1>1, <1>4, <1>5 DEF TreeInv

LEMMA MemoryTreeInv ==
    ASSUME HeapInv, TreeInv, BootMemory
    PROVE  TreeInv'
<1>1. UNCHANGED <<info, nodes, made, vfs_root, vfs_cwd, mounted>>
  BY DEF BootMemory, tree_vars
<1>2. ~heap_up /\ UNCHANGED granted
  BY DEF BootMemory, Boot, HeapInit, ScanEntry, ReserveKernel, HeapInv, heap_vars, caller_vars
<1>3. DOMAIN made = {} /\ ~(Len(made) > 0)
  BY <1>2, TreeFacts DEF TreeInv
<1>. QED
  BY <1>1, <1>2, <1>3 DEF TreeInv

LEMMA BootStepTreeInv ==
    ASSUME PmmAssumption, HeapAssumption, BootAssumption, HeapInv, TreeInv, [BootNext]_boot_vars
    PROVE  TreeInv'
<1>1. CASE UNCHANGED boot_vars
  <2>1. UNCHANGED vars /\ UNCHANGED <<info, nodes, made, vfs_root, vfs_cwd, mounted>>
    BY <1>1 DEF boot_vars, tree_vars
  <2>2. UNCHANGED <<granted, heap_up>>
    BY <2>1 DEF vars, heap_vars, caller_vars
  <2>3. NoRoom => NoRoom'
    BY <2>1, NoRoomStays
  <2>. QED
    BY <2>1, <2>2, <2>3 DEF TreeInv
<1>. QED
  BY <1>1, CallTreeInv, MountedTreeInv, CdTreeInv, UseHeapTreeInv, MemoryTreeInv DEF BootNext

\* A node stands once in the list of its parent.
LEMMA ListedOnce ==
    ASSUME TreeOf(nodes, made), NEW i, Made(made, i), i # 1,
           NEW siblings, siblings = nodes[nodes[made[i]].parent].children
    PROVE  Cardinality({k \in DOMAIN siblings : siblings[k] = made[i]}) = 1
<1>1. i \in 2 .. 5
  BY ParentIs
<1>2. PICK p : p = Script[i].parent
  OBVIOUS
<1>3. Made(made, p) /\ nodes[made[i]].parent = made[p]
  BY <1>2, ParentIs
<1>4. siblings = KidsOf(made, p)
  BY <1>3, NodeIs
<1>5. ASSUME NEW k, {j \in DOMAIN siblings : siblings[j] = made[i]} = {k}
      PROVE  Cardinality({j \in DOMAIN siblings : siblings[j] = made[i]}) = 1
  BY <1>5, FS_Singleton
<1>6. ASSUME NEW a, siblings = <<a>>, a = made[i]
      PROVE  Cardinality({j \in DOMAIN siblings : siblings[j] = made[i]}) = 1
  <2>1. {j \in DOMAIN siblings : siblings[j] = made[i]} = {1}
    BY <1>6
  <2>. QED
    BY <1>5, <2>1
<1>7. ASSUME NEW a, NEW b, siblings = <<a, b>>, a # b, a = made[i] \/ b = made[i]
      PROVE  Cardinality({j \in DOMAIN siblings : siblings[j] = made[i]}) = 1
  <2>1. /\ a = made[i] => {j \in DOMAIN siblings : siblings[j] = made[i]} = {1}
        /\ b = made[i] => {j \in DOMAIN siblings : siblings[j] = made[i]} = {2}
    BY <1>7
  <2>. QED
    BY <1>5, <1>7, <2>1
<1>8. CASE i = 2 /\ ~Made(made, 3)
  <2>1. p = 1
    BY <1>2, <1>8, ScriptIs
  <2>2. siblings = <<made[2]>>
    BY <1>4, <1>8, <2>1 DEF KidsOf
  <2>. QED
    BY <1>6, <1>8, <2>2
<1>9. CASE (i = 2 \/ i = 3) /\ Made(made, 3)
  <2>1. p = 1
    BY <1>2, <1>9, ScriptIs
  <2>2. siblings = <<made[2], made[3]>>
    BY <1>4, <1>9, <2>1 DEF KidsOf
  <2>3. Made(made, 2)
    BY <1>9, TreeFacts
  <2>4. made[2] # made[3]
    <3>1. Made(made, 2) /\ Made(made, 3) /\ made[2] = made[3] => 2 = 3
      BY TreeFacts
    <3>. QED
      BY <1>9, <2>3, <3>1
  <2>. QED
    BY <1>7, <1>9, <2>2, <2>4
<1>10. CASE i = 4 \/ i = 5
  <2>1. p = i - 2 /\ p \in {2, 3} /\ p + 2 = i
    BY <1>2, <1>10, ScriptIs
  <2>2. siblings = <<made[i]>>
    <3>1. p # 1 /\ Made(made, p + 2)
      BY <2>1
    <3>2. KidsOf(made, p) = <<made[p + 2]>>
      BY <2>1, <3>1 DEF KidsOf
    <3>. QED
      BY <1>4, <2>1, <3>2
  <2>. QED
    BY <1>6, <2>2
<1>. QED
  BY <1>1, <1>8, <1>9, <1>10

\* The path of a directory.  What pwd computes is there, since a node is at most
\* two steps from the root.
LEMMA PathIs ==
    ASSUME TreeOf(nodes, made), NEW i \in 1 .. 3, Made(made, i)
    PROVE  Path(made[i]) = IF i = 1 THEN <<>> ELSE <<Script[i].name>>
<1>. DEFINE IsUp(up) ==
              up = [n \in DOMAIN nodes |->
                      IF nodes[n].parent = NULL THEN <<>>
                      ELSE Append(up[nodes[n].parent], nodes[n].name)]
            over(n) == IF nodes[n].parent = NULL THEN <<>> ELSE Append(<<>>, nodes[n].name)
            f == [n \in DOMAIN nodes |->
                    IF nodes[n].parent = NULL THEN <<>>
                    ELSE Append(over(nodes[n].parent), nodes[n].name)]
<1>1. ASSUME NEW n \in DOMAIN nodes, nodes[n].parent # NULL
      PROVE  nodes[n].parent \in DOMAIN nodes /\ f[nodes[n].parent] = over(nodes[n].parent)
  <2>1. PICK j \in 1 .. 5 : Made(made, j) /\ n = made[j]
    BY TreeFacts
  <2>2. j \in 2 .. 5 /\ Made(made, Script[j].parent) /\ nodes[n].parent = made[Script[j].parent]
    <3>1. j # 1
      BY <1>1, <2>1, ParentIs
    <3>. QED
      BY <2>1, <3>1, ParentIs
  <2>3. PICK p : p = Script[j].parent
    OBVIOUS
  <2>4. p \in {1, 2, 3} /\ Made(made, p) /\ nodes[n].parent = made[p] /\ made[p] \in DOMAIN nodes
    <3>1. j = 2 \/ j = 3 \/ j = 4 \/ j = 5
      BY <2>2
    <3>2. p \in {1, 2, 3}
      BY <2>3, <3>1, ScriptIs
    <3>. QED
      BY <2>2, <2>3, <3>2, TreeFacts
  <2>5. CASE nodes[made[p]].parent = NULL
    BY <2>4, <2>5
  <2>6. CASE nodes[made[p]].parent # NULL
    <3>1. p # 1
      BY <2>4, <2>6, ParentIs
    <3>2. Script[p].parent = 1
      BY <2>4, <3>1, ScriptIs
    <3>3. nodes[made[p]].parent = made[1] /\ Made(made, 1)
      BY <2>4, <3>1, <3>2, ParentIs
    <3>4. nodes[made[1]].parent = NULL
      BY <3>3, ParentIs
    <3>5. over(made[1]) = <<>>
      BY <3>4
    <3>6. f[made[p]] = Append(over(made[1]), nodes[made[p]].name)
      BY <2>4, <2>6, <3>3
    <3>. QED
      BY <2>4, <2>6, <3>5, <3>6
  <2>. QED
    BY <2>5, <2>6
<1>2. IsUp(f)
  <2>1. ASSUME NEW n \in DOMAIN nodes
        PROVE  f[n] = IF nodes[n].parent = NULL THEN <<>>
                      ELSE Append(f[nodes[n].parent], nodes[n].name)
    BY <1>1
  <2>. HIDE DEF f
  <2>2. f = [n \in DOMAIN nodes |-> f[n]]
    BY DEF f
  <2>. QED
    BY <2>1, <2>2
<1>. HIDE DEF f, over
<1>3. PICK up : up = CHOOSE u : IsUp(u)
  OBVIOUS
<1>4. IsUp(up)
  BY <1>2, <1>3
<1>5. Path(made[i]) = up[made[i]]
  BY <1>3 DEF Path
<1>6. ASSUME NEW n \in DOMAIN nodes
      PROVE  up[n] = IF nodes[n].parent = NULL THEN <<>>
                     ELSE Append(up[nodes[n].parent], nodes[n].name)
  BY <1>4
<1>. HIDE DEF IsUp
<1>7. Made(made, 1) /\ made[1] \in DOMAIN nodes /\ nodes[made[1]].parent = NULL
  <2>1. Made(made, 1)
    BY TreeFacts
  <2>. QED
    BY <2>1, TreeFacts, ParentIs
<1>8. up[made[1]] = <<>>
  BY <1>6, <1>7
<1>9. CASE i # 1
  <2>1. Script[i].parent = 1
    <3>1. i = 2 \/ i = 3
      BY <1>9
    <3>. QED
      BY <3>1, ScriptIs
  <2>2. /\ made[i] \in DOMAIN nodes /\ nodes[made[i]].parent = made[1]
        /\ nodes[made[i]].parent # NULL /\ nodes[made[i]].name = Script[i].name
    BY <1>9, <2>1, ParentIs, NodeIs, TreeFacts
  <2>3. up[made[i]] = Append(<<>>, Script[i].name)
    BY <1>6, <1>8, <2>2
  <2>. QED
    BY <1>5, <1>9, <2>3, AppendTwo
<1>. QED
  BY <1>5, <1>8, <1>9

\* Where cd leads along a path of no name, and of one.
LEMMA WalkIs ==
    ASSUME NEW name
    PROVE  Walk(<<>>) = vfs_root /\ Walk(<<name>>) = CdFrom(vfs_root, name)
<1>. DEFINE IsStep(step, path) ==
              step = [n \in 0 .. Len(path) |->
                        IF n = 0 THEN vfs_root ELSE CdFrom(step[n - 1], path[n])]
            f(path) == [n \in 0 .. Len(path) |->
                          IF n = 0 THEN vfs_root ELSE CdFrom(vfs_root, path[n])]
<1>1. ASSUME NEW path, Len(path) \in {0, 1}
      PROVE  /\ Len(path) = 0 => Walk(path) = vfs_root
             /\ Len(path) = 1 => Walk(path) = CdFrom(vfs_root, path[1])
  <2>1. IsStep(f(path), path)
    <3>1. ASSUME NEW n \in 0 .. Len(path), n # 0
          PROVE  n - 1 \in 0 .. Len(path) /\ f(path)[n - 1] = vfs_root
      <4>1. n - 1 = 0 /\ 0 \in 0 .. Len(path)
        BY <1>1, <3>1
      <4>2. f(path)[0] = vfs_root
        BY <4>1
      <4>. QED
        BY <4>1, <4>2
    <3>2. ASSUME NEW n \in 0 .. Len(path)
          PROVE  f(path)[n] = IF n = 0 THEN vfs_root ELSE CdFrom(f(path)[n - 1], path[n])
      BY <3>1
    <3>3. f(path) = [n \in 0 .. Len(path) |-> f(path)[n]]
      OBVIOUS
    <3>. HIDE DEF f
    <3>. QED
      BY <3>2, <3>3
  <2>. HIDE DEF f
  <2>2. PICK step : step = CHOOSE u : IsStep(u, path)
    OBVIOUS
  <2>3. IsStep(step, path)
    BY <2>1, <2>2
  <2>4. Walk(path) = step[Len(path)]
    BY <2>2 DEF Walk
  <2>5. \A n \in 0 .. Len(path) :
            step[n] = IF n = 0 THEN vfs_root ELSE CdFrom(step[n - 1], path[n])
    BY <2>3
  <2>. HIDE DEF IsStep
  <2>6. step[0] = vfs_root
    BY <1>1, <2>5
  <2>7. Len(path) = 1 => step[1] = CdFrom(vfs_root, path[1])
    <3>1. Len(path) = 1 => step[1] = CdFrom(step[1 - 1], path[1])
      BY <2>5
    <3>. QED
      BY <2>6, <3>1
  <2>. QED
    BY <2>4, <2>6, <2>7
<1>. HIDE DEF IsStep, f
<1>2. Len(<<>>) = 0 /\ Len(<<name>>) = 1 /\ <<name>>[1] = name
  OBVIOUS
<1>3. PICK none : none = <<>>
  OBVIOUS
<1>4. PICK one : one = <<name>>
  OBVIOUS
<1>5. Walk(none) = vfs_root
  BY <1>1, <1>2, <1>3
<1>6. Walk(one) = CdFrom(vfs_root, name)
  <2>1. Len(one) = 1 /\ one[1] = name /\ Len(one) \in {0, 1}
    BY <1>2, <1>4
  <2>2. Walk(one) = CdFrom(vfs_root, one[1])
    BY <1>1, <2>1
  <2>. QED
    BY <2>1, <2>2
<1>. QED
  BY <1>3, <1>4, <1>5, <1>6

\* cd finds the two directories below the root under their names.
LEMMA FoundByName ==
    ASSUME TreeOf(nodes, made), NEW i \in 2 .. 3, Made(made, i), vfs_root = made[1]
    PROVE  CdFrom(vfs_root, Script[i].name) = made[i]
<1>1. Made(made, 1) /\ Made(made, 2)
  BY TreeFacts
<1>2. nodes[made[1]].children = KidsOf(made, 1)
  BY <1>1, NodeIs
<1>3. PICK kids, named :
        /\ kids = KidsOf(made, 1)
        /\ named = {k \in DOMAIN kids : nodes[kids[k]].name = Script[i].name}
  OBVIOUS
<1>4. FindChild(made[1], Script[i].name) = IF named = {} THEN NULL ELSE kids[Min(named)]
  BY <1>2, <1>3 DEF FindChild
<1>5. nodes[made[2]].name = "kernel" /\ Script[2].name = "kernel" /\ Script[3].name = "shell"
  BY <1>1, NodeIs, ScriptIs
<1>6. i = 2 \/ i = 3
  OBVIOUS
<1>7. named = {i - 1} /\ kids[i - 1] = made[i]
  <2>1. CASE i = 2 /\ ~Made(made, 3)
    <3>1. kids = <<made[2]>>
      BY <1>1, <1>3, <2>1 DEF KidsOf
    <3>2. DOMAIN kids = {1} /\ kids[1] = made[2]
      BY <3>1
    <3>. QED
      BY <1>3, <1>5, <2>1, <3>2
  <2>2. CASE Made(made, 3)
    <3>1. kids = <<made[2], made[3]>>
      BY <1>3, <2>2 DEF KidsOf
    <3>2. DOMAIN kids = {1, 2} /\ kids[1] = made[2] /\ kids[2] = made[3]
      BY <3>1
    <3>3. nodes[made[3]].name = "shell"
      BY <1>5, <2>2, NodeIs
    <3>. QED
      BY <1>3, <1>5, <1>6, <3>2, <3>3
  <2>. QED
    BY <1>6, <2>1, <2>2
<1>8. Min(named) = i - 1
  <2>1. named \in SUBSET Nat /\ named # {}
    BY <1>6, <1>7
  <2>2. Min(named) \in named
    BY <2>1, MinIsLeast
  <2>. QED
    BY <1>7, <2>2
<1>9. FindChild(made[1], Script[i].name) = made[i]
  <2>1. named # {}
    BY <1>7
  <2>. QED
    BY <1>4, <1>7, <1>8, <2>1
<1>10. made[i] # NULL /\ nodes[made[i]].type = "dir"
  BY <1>6, NodeIs, ScriptIs DEF Made
<1>11. Script[i].name # "/" /\ Script[i].name # ".."
  BY <1>5, <1>6
<1>. QED
  BY <1>9, <1>10, <1>11 DEF CdFrom

LEMMA TreeInvSound == ASSUME TreeInv PROVE TreeSound
<1>1. TreeOf(nodes, made)
  BY DEF TreeInv
<1>2. ASSUME NEW ptr \in DOMAIN nodes
      PROVE  /\ nodes[ptr].parent # NULL =>
                   LET siblings == nodes[nodes[ptr].parent].children
                   IN  Cardinality({i \in DOMAIN siblings : siblings[i] = ptr}) = 1
             /\ nodes[ptr].parent = NULL => ptr = made[1]
  <2>1. PICK i \in 1 .. 5 : Made(made, i) /\ ptr = made[i]
    BY <1>1, TreeFacts
  <2>2. nodes[ptr].parent = NULL <=> i = 1
    BY <1>1, <2>1, ParentIs
  <2>. QED
    BY <1>1, <2>1, <2>2, ListedOnce
<1>3. ASSUME vfs_root # NULL
      PROVE  /\ vfs_cwd # NULL /\ nodes[vfs_cwd].type = "dir"
             /\ Walk(Path(vfs_cwd)) = vfs_cwd
  <2>1. vfs_root = made[1]
    BY <1>3 DEF TreeInv
  <2>2. PICK i \in 1 .. 3 : Made(made, i) /\ vfs_cwd = made[i]
    BY <1>3 DEF TreeInv
  <2>3. i = 1 \/ i = 2 \/ i = 3
    OBVIOUS
  <2>4. vfs_cwd # NULL /\ nodes[vfs_cwd].type = "dir"
    BY <1>1, <2>2, <2>3, NodeIs, ScriptIs DEF Made
  <2>5. Path(vfs_cwd) = IF i = 1 THEN <<>> ELSE <<Script[i].name>>
    BY <1>1, <2>2, PathIs
  <2>6. CASE i = 1
    BY <2>1, <2>2, <2>4, <2>5, <2>6, WalkIs
  <2>7. CASE i # 1
    <3>1. CdFrom(vfs_root, Script[i].name) = made[i]
      BY <1>1, <2>1, <2>2, <2>7, FoundByName
    <3>2. Walk(<<Script[i].name>>) = CdFrom(vfs_root, Script[i].name)
      BY WalkIs
    <3>. QED
      BY <2>2, <2>4, <2>5, <2>7, <3>1, <3>2
  <2>. QED
    BY <2>6, <2>7
<1>. QED
  BY <1>2, <1>3 DEF TreeInv, TreeSound

LEMMA TreeInvTypes ==
    ASSUME PmmTypeOK, HeapTypeOK, TreeInv
    PROVE  BootTypeOK
<1>1. TreeOf(nodes, made)
  BY DEF TreeInv
<1>2. made \in Seq(DOMAIN nodes \cup {NULL})
  <2>1. \A i \in 1 .. Len(made) : made[i] \in DOMAIN nodes \cup {NULL}
    BY <1>1, TreeFacts DEF Made
  <2>2. made \in Seq(Nat)
    BY <1>1, TreeFacts
  <2>. QED
    BY <2>1, <2>2
<1>3. Len(made) <= Len(Script)
  <2>1. Len(made) \in 0 .. 5 /\ Len(Script) = 5
    BY <1>1, TreeFacts, ScriptIs
  <2>2. \A k \in 0 .. 5 : k <= 5
    OBVIOUS
  <2>. QED
    BY <2>1, <2>2
<1>4. ASSUME NEW ptr \in DOMAIN nodes
      PROVE  nodes[ptr] \in [name : Names, type : {"dir", "file"},
                              parent : DOMAIN nodes \cup {NULL}, children : Seq(DOMAIN nodes)]
  <2>1. PICK i \in 1 .. 5 : Made(made, i) /\ ptr = made[i]
    BY <1>1, TreeFacts
  <2>2. Script[i].name \in Names /\ Script[i].type \in {"dir", "file"}
    BY ScriptIs
  <2>3. ParentOf(made, i) \in DOMAIN nodes \cup {NULL}
    <3>1. nodes[ptr].parent = ParentOf(made, i)
      BY <1>1, <2>1, NodeIs
    <3>2. i # 1 => Made(made, Script[i].parent) /\ nodes[ptr].parent = made[Script[i].parent]
      BY <1>1, <2>1, ParentIs
    <3>3. i # 1 => made[Script[i].parent] \in DOMAIN nodes
      BY <1>1, <3>2, TreeFacts
    <3>. QED
      BY <3>1, <3>2, <3>3 DEF ParentOf
  <2>4. KidsOf(made, i) \in Seq(DOMAIN nodes)
    <3>1. CASE DOMAIN KidsOf(made, i) = {}
      <4>1. KidsOf(made, i) = <<>>
        BY <3>1 DEF KidsOf
      <4>. QED
        BY <4>1
    <3>2. CASE DOMAIN KidsOf(made, i) # {}
      BY <1>1, <2>1, <3>2, KidsAre
    <3>. QED
      BY <3>1, <3>2
  <2>5. nodes[ptr] = NodeOf(made, i)
    BY <1>1, <2>1, TreeFacts
  <2>. QED
    BY <2>2, <2>3, <2>4, <2>5 DEF NodeOf
<1>5. {vfs_root, vfs_cwd} \subseteq DOMAIN nodes \cup {NULL}
  <2>1. vfs_cwd \in DOMAIN nodes \cup {NULL}
    BY <1>1, TreeFacts DEF TreeInv
  <2>2. vfs_root # NULL => vfs_root \in DOMAIN nodes
    <3>1. ASSUME vfs_root # NULL PROVE vfs_root = made[1] /\ Made(made, 1)
      BY <1>1, <3>1, TreeFacts DEF TreeInv
    <3>. QED
      BY <1>1, <3>1, TreeFacts
  <2>. QED
    BY <2>1, <2>2
<1>6. nodes = [ptr \in DOMAIN nodes |-> nodes[ptr]]
  BY <1>1 DEF TreeOf
<1>7. nodes \in [DOMAIN nodes -> [name : Names, type : {"dir", "file"},
                                  parent : DOMAIN nodes \cup {NULL}, children : Seq(DOMAIN nodes)]]
  BY <1>4, <1>6
<1>. QED
  BY <1>2, <1>3, <1>5, <1>7 DEF BootTypeOK, TreeInv
\* init.h, vfs.c and the shell only come to the heap through heap_init, kmalloc
\* and kfree: what they do to it is a behaviour of Heap.
THEOREM BootUsesTheHeap == BootSpec => Spec
<1>1. BootInit => Init
  BY DEF BootInit
<1>2. [BootNext]_boot_vars => [Next]_vars
  <2>. SUFFICES ASSUME [BootNext]_boot_vars PROVE [Next]_vars
    OBVIOUS
  <2>1. ASSUME NEW size \in Sizes, Kmalloc(size) PROVE Next
    BY <2>1, Zenon DEF Kmalloc, Next
  <2>2. CASE BootMemory
    BY <2>2 DEF BootMemory, Next
  <2>3. CASE VfsAllocNode
    <3>1. NodeSize \in Sizes
      BY BootAssumption
    <3>2. Kmalloc(NodeSize)
      BY <2>3 DEF VfsAllocNode
    <3>. QED
      BY <2>1, <3>1, <3>2
  <2>4. CASE Mounted \/ \E arg \in Names \cup {"..", "nosuch"} : Cd(arg)
    BY <2>4 DEF Mounted, Cd
  <2>5. CASE UseHeap
    BY <2>1, <2>5 DEF UseHeap, Next
  <2>6. CASE UNCHANGED boot_vars
    BY <2>6 DEF boot_vars
  <2>. QED
    BY <2>2, <2>3, <2>4, <2>5, <2>6 DEF BootNext
<1>. QED
  BY <1>1, <1>2, PTL DEF BootSpec, Spec

\* The list of tags, and where each stands.
Tags == [type : {"end", "mmap", "other"}, size : Nat \ {0}, map : MemoryMaps]
TagLists == Seq(Tags)

LEMMA TagsAre ==
    ASSUME NEW tags \in TagLists
    PROVE  /\ Len(tags) \in Nat /\ DOMAIN tags = 1 .. Len(tags)
           /\ \A i \in DOMAIN tags : /\ tags[i].type \in {"end", "mmap", "other"}
                                     /\ tags[i].size \in Nat \ {0}
<1>1. \A i \in DOMAIN tags : tags[i] \in Tags
  BY DEF TagLists
<1>. QED
  BY <1>1 DEF Tags, TagLists

LEMMA Division ==
    ASSUME NEW x \in Nat, NEW d \in Nat, d >= 1
    PROVE  \E r \in Nat : x = (x \div d) * d + r /\ r < d
<1>1. PICK q \in Int, r \in Int : q = x \div d /\ r = x % d
  OBVIOUS
<1>2. x = q * d + r /\ r \in 0 .. d - 1
  BY <1>1
<1>3. r \in Nat /\ r < d
  BY <1>2
<1>. QED
  BY <1>1, <1>2, <1>3

LEMMA PaddedGrows ==
    ASSUME BootAssumption, NEW size \in Nat \ {0}
    PROVE  Padded(size) \in Nat /\ Padded(size) >= Padding /\ Padding \in Nat /\ Padding >= 1
<1>1. Padding \in Nat /\ Padding >= 1
  BY BootAssumption
<1>2. PICK q \in Int : q = (size + Padding - 1) \div Padding
  BY <1>1
<1>3. q >= 1
  <2>1. PICK x \in Nat : x = size + Padding - 1
    BY <1>1
  <2>2. x >= Padding
    BY <1>1, <2>1
  <2>3. q = x \div Padding
    BY <1>2, <2>1
  <2>4. PICK r \in Nat : x = q * Padding + r /\ r < Padding
    BY <1>1, <2>1, <2>3, Division
  <2>5. ~(q <= 0)
    <3>1. q <= 0 => q * Padding <= 0
      BY <1>1
    <3>. QED
      BY <1>1, <2>1, <2>2, <2>4, <3>1
  <2>. QED
    BY <2>5
<1>4. q * Padding >= Padding
  BY <1>1, <1>3
<1>5. Padded(size) = q * Padding
  BY <1>2 DEF Padded
<1>. QED
  BY <1>1, <1>2, <1>3, <1>4, <1>5

Lengths(tags) == [j \in DOMAIN tags |-> Padded(tags[j].size)]

LEMMA OffsetIsTotal ==
    ASSUME NEW tags \in TagLists, NEW i \in 1 .. Len(tags) + 1
    PROVE  Offset(tags, i) = Total(Lengths(tags), 1 .. i - 1) /\ IsFiniteSet(1 .. i - 1)
<1>. DEFINE E(iter) == iter = [s \in SUBSET (1 .. i - 1) |->
                        IF s = {} THEN 0 ELSE Padded(tags[CHOOSE x \in s : TRUE].size)
                                               + iter[s \ {CHOOSE x \in s : TRUE}]]
<1>1. PICK iter : iter = CHOOSE it : E(it)
  OBVIOUS
<1>2. Offset(tags, i) = iter[1 .. i - 1]
  BY <1>1 DEF Offset, MapThenSumSet, MapThenFoldSet
<1>3. IsFiniteSet(1 .. i - 1)
  BY FS_Interval
<1>4. 1 .. i - 1 \subseteq DOMAIN tags
  BY DEF TagLists
<1>5. PICK f : f = Lengths(tags)
  OBVIOUS
<1>6. \A it : IsSum(it, f, 1 .. i - 1) <=> E(it)
  <2>. SUFFICES ASSUME NEW it PROVE IsSum(it, f, 1 .. i - 1) <=> E(it)
    OBVIOUS
  <2>1. \A s \in SUBSET (1 .. i - 1) : s # {} => f[Any(s)] = Padded(tags[CHOOSE x \in s : TRUE].size)
    <3>1. ASSUME NEW s \in SUBSET (1 .. i - 1), s # {}
          PROVE  f[Any(s)] = Padded(tags[Any(s)].size)
      BY <1>4, <1>5, <3>1, AnyIsOne DEF Lengths
    <3>. QED
      BY <3>1 DEF Any
  <2>2. [s \in SUBSET (1 .. i - 1) |-> IF s = {} THEN 0 ELSE f[Any(s)] + it[s \ {Any(s)}]]
          = [s \in SUBSET (1 .. i - 1) |->
                IF s = {} THEN 0 ELSE Padded(tags[CHOOSE x \in s : TRUE].size)
                                       + it[s \ {CHOOSE x \in s : TRUE}]]
    BY <2>1 DEF Any
  <2>. QED
    BY <2>2 DEF IsSum
<1>. HIDE DEF E
<1>7. E(iter)
  <2>1. \E it : E(it)
    BY <1>3, <1>6, SumExists
  <2>. QED
    BY <1>1, <2>1, Zenon
<1>8. IsSum(iter, f, 1 .. i - 1)
  BY <1>6, <1>7
<1>9. Total(f, 1 .. i - 1) = iter[1 .. i - 1]
  BY <1>3, <1>8, TotalIs
<1>. QED
  BY <1>2, <1>3, <1>5, <1>9

LEMMA OffsetStep ==
    ASSUME BootAssumption, NEW tags \in TagLists
    PROVE  /\ Offset(tags, 1) = 0
           /\ \A i \in 1 .. Len(tags) + 1 : Offset(tags, i) \in Nat
           /\ \A i \in 1 .. Len(tags) :
                 /\ Offset(tags, i + 1) = Offset(tags, i) + Padded(tags[i].size)
                 /\ Padded(tags[i].size) \in Nat /\ Padded(tags[i].size) >= Padding
                 /\ Padding >= 1
<1>. DEFINE f == Lengths(tags)
<1>1. Len(tags) \in Nat /\ DOMAIN tags = 1 .. Len(tags)
  BY DEF TagLists
<1>2. ASSUME NEW i \in DOMAIN tags
      PROVE  /\ f[i] = Padded(tags[i].size)
             /\ Padded(tags[i].size) \in Nat /\ Padded(tags[i].size) >= Padding
             /\ Padding >= 1
  <2>1. tags[i].size \in Nat \ {0}
    BY TagsAre
  <2>. QED
    BY <2>1, PaddedGrows DEF Lengths
<1>3. \A i \in DOMAIN tags : f[i] \in Nat
  BY <1>2
<1>. HIDE DEF f
<1>4. ASSUME NEW i \in 1 .. Len(tags) + 1
      PROVE  Offset(tags, i) = Total(f, 1 .. i - 1) /\ IsFiniteSet(1 .. i - 1)
  BY <1>4, OffsetIsTotal DEF f
<1>5. Offset(tags, 1) = 0
  <2>1. 1 \in 1 .. Len(tags) + 1 /\ 1 .. 1 - 1 = {}
    BY <1>1
  <2>2. Offset(tags, 1) = Total(f, {})
    BY <1>4, <2>1
  <2>. QED
    BY <2>2, TotalEmpty
<1>6. ASSUME NEW i \in 1 .. Len(tags) + 1 PROVE Offset(tags, i) \in Nat
  <2>1. \A j \in 1 .. i - 1 : f[j] \in Nat
    BY <1>1, <1>3
  <2>. QED
    BY <1>4, <2>1, TotalNat
<1>7. ASSUME NEW i \in 1 .. Len(tags)
      PROVE  Offset(tags, i + 1) = Offset(tags, i) + Padded(tags[i].size)
  <2>1. i \in 1 .. Len(tags) + 1 /\ i + 1 \in 1 .. Len(tags) + 1 /\ i \in DOMAIN tags
    BY <1>1
  <2>2. PICK S : S = 1 .. i - 1
    OBVIOUS
  <2>3. 1 .. (i + 1) - 1 = S \cup {i} /\ i \notin S
    BY <2>2
  <2>4. \A x \in S \cup {i} : f[x] \in Int
    <3>1. S \cup {i} \subseteq DOMAIN tags
      BY <1>1, <2>2
    <3>. QED
      BY <1>3, <3>1
  <2>5. Offset(tags, i + 1) = Total(f, S \cup {i}) /\ Offset(tags, i) = Total(f, S)
        /\ IsFiniteSet(S)
    BY <1>4, <2>1, <2>2, <2>3
  <2>6. Total(f, S \cup {i}) = f[i] + Total(f, S)
    BY <2>3, <2>4, <2>5, TotalAdd
  <2>7. f[i] \in Nat /\ f[i] = Padded(tags[i].size) /\ Offset(tags, i) \in Nat
    BY <1>2, <1>3, <1>6, <2>1
  <2>. QED
    BY <2>5, <2>6, <2>7
<1>. QED
  BY <1>1, <1>2, <1>5, <1>6, <1>7

LEMMA OffsetRises ==
    ASSUME BootAssumption, NEW tags \in TagLists,
           NEW i \in 1 .. Len(tags) + 1, NEW j \in 1 .. Len(tags) + 1, i < j
    PROVE  Offset(tags, i) < Offset(tags, j)
<1>. DEFINE bad == {k \in 1 .. Len(tags) + 1 : i < k /\ ~(Offset(tags, i) < Offset(tags, k))}
<1>1. Len(tags) \in Nat
  BY DEF TagLists
<1>2. ASSUME NEW k \in bad PROVE \E m \in bad : m < k
  <2>1. k \in 1 .. Len(tags) + 1 /\ i < k /\ ~(Offset(tags, i) < Offset(tags, k))
    BY <1>2
  <2>2. k - 1 \in 1 .. Len(tags) /\ k - 1 \in 1 .. Len(tags) + 1 /\ (k - 1) + 1 = k
    BY <1>1, <2>1
  <2>3. PICK d : d = Padded(tags[k - 1].size)
    OBVIOUS
  <2>4. /\ Offset(tags, k) = Offset(tags, k - 1) + d /\ d \in Nat /\ d >= 1
    <3>1. PICK m : m = k - 1
      OBVIOUS
    <3>2. /\ Offset(tags, m + 1) = Offset(tags, m) + Padded(tags[m].size)
          /\ Padded(tags[m].size) \in Nat /\ Padded(tags[m].size) >= Padding
          /\ Padding >= 1
      BY <2>2, <3>1, OffsetStep
    <3>3. Padding \in Nat
      BY BootAssumption
    <3>. QED
      BY <2>2, <2>3, <3>1, <3>2, <3>3
  <2>5. Offset(tags, i) \in Nat /\ Offset(tags, k - 1) \in Nat
    BY <2>2, OffsetStep
  <2>6. i < k - 1
    <3>1. i # k - 1
      BY <2>1, <2>4, <2>5
    <3>. QED
      BY <1>1, <2>1, <3>1
  <2>7. ~(Offset(tags, i) < Offset(tags, k - 1))
    BY <2>1, <2>4, <2>5
  <2>8. k - 1 \in bad
    BY <2>2, <2>6, <2>7
  <2>. QED
    BY <2>1, <2>2, <2>8
<1>3. bad \subseteq Nat
  BY <1>1
<1>. HIDE DEF bad
<1>4. bad = {}
  <2>1. ASSUME bad # {} PROVE FALSE
    <3>1. PICK m \in bad : \A k \in bad : m <= k
      BY <1>3, <2>1, NatHasLeast
    <3>2. PICK k \in bad : k < m
      BY <1>2
    <3>3. m \in Nat /\ k \in Nat /\ m <= k
      BY <1>3, <3>1
    <3>. QED
      BY <3>2, <3>3
  <2>. QED
    BY <2>1
<1>. QED
  BY <1>4 DEF bad

\* A tag is read where it stands.
LEMMA TagRead ==
    ASSUME BootAssumption, NEW tags \in TagLists, NEW i \in 1 .. Len(tags)
    PROVE  TagAt(tags, Offset(tags, i)) = tags[i]
<1>1. Len(tags) \in Nat /\ DOMAIN tags = 1 .. Len(tags)
  BY TagsAre
<1>2. ASSUME NEW j \in DOMAIN tags, Offset(tags, j) = Offset(tags, i) PROVE j = i
  <2>1. i \in 1 .. Len(tags) + 1 /\ j \in 1 .. Len(tags) + 1
    BY <1>1
  <2>2. Offset(tags, i) \in Nat
    BY <2>1, OffsetStep
  <2>3. ~(i < j)
    <3>1. i < j => Offset(tags, i) < Offset(tags, j)
      BY <2>1, OffsetRises
    <3>. QED
      BY <1>2, <2>2, <3>1
  <2>4. ~(j < i)
    <3>1. j < i => Offset(tags, j) < Offset(tags, i)
      BY <2>1, OffsetRises
    <3>. QED
      BY <1>2, <2>2, <3>1
  <2>. QED
    BY <2>1, <2>3, <2>4
<1>3. PICK k : k = CHOOSE j \in DOMAIN tags : Offset(tags, j) = Offset(tags, i)
  OBVIOUS
<1>4. k = i
  BY <1>1, <1>2, <1>3
<1>. QED
  BY <1>1, <1>3, <1>4 DEF TagAt

Recurs(w, N, stop, val, next) ==
    w = [x \in 0 .. N |-> IF x \in stop THEN val[x] ELSE w[next[x]]]

\* A function on 0 .. N that is given where the recursion stops, and elsewhere by
\* its value at a greater argument, is there: it is built from N downwards.
LEMMA DownwardRecursion ==
    ASSUME NEW N \in Nat, NEW stop, NEW val, NEW next,
           \A x \in 0 .. N : x \notin stop => next[x] \in 0 .. N /\ x < next[x]
    PROVE  \E w : Recurs(w, N, stop, val, next)
<1>. DEFINE Q(w, k) == w = [x \in k .. N |-> IF x \in stop THEN val[x] ELSE w[next[x]]]
            from == {m \in 0 .. N : \E w : Q(w, N - m)}
            bad == {m \in 0 .. N : m \notin from}
<1>1. ASSUME NEW k \in 0 .. N, k = N \/ \E u : Q(u, k + 1) PROVE \E w : Q(w, k)
  <2>1. PICK u : k = N \/ Q(u, k + 1)
    BY <1>1
  <2>. DEFINE w == [x \in k .. N |->
                      IF x \in stop THEN val[x] ELSE IF x = k THEN u[next[k]] ELSE u[x]]
  <2>2. ASSUME NEW x \in k .. N, x \notin stop
        PROVE  next[x] \in k + 1 .. N /\ k # N
    BY <2>2
  <2>3. ASSUME NEW x \in k + 1 .. N, k # N
        PROVE  /\ x \in stop => u[x] = val[x] /\ w[x] = val[x]
               /\ x \notin stop => u[x] = u[next[x]] /\ w[x] = u[x]
    BY <2>1, <2>3
  <2>4. ASSUME NEW x \in k .. N, x \notin stop PROVE w[x] = w[next[x]]
    <3>1. next[x] \in k + 1 .. N /\ k # N
      BY <2>2, <2>4
    <3>2. w[next[x]] = u[next[x]]
      <4>. HIDE DEF w
      <4>1. PICK y \in k + 1 .. N : y = next[x]
        BY <3>1
      <4>2. w[y] = u[y]
        BY <2>3, <3>1
      <4>. QED
        BY <4>1, <4>2
    <3>3. CASE x = k
      BY <2>4, <3>2, <3>3
    <3>4. CASE x # k
      <4>1. x \in k + 1 .. N
        BY <3>4
      <4>. QED
        BY <2>3, <2>4, <3>1, <3>2, <4>1
    <3>. QED
      BY <3>3, <3>4
  <2>5. \A x \in k .. N : x \in stop => w[x] = val[x]
    OBVIOUS
  <2>6. w = [x \in k .. N |-> w[x]]
    OBVIOUS
  <2>. HIDE DEF w
  <2>7. Q(w, k)
    BY <2>4, <2>5, <2>6
  <2>. QED
    BY <2>7
<1>. HIDE DEF Q
<1>2. ASSUME NEW m \in bad PROVE \E j \in bad : j < m
  <2>1. m \in 0 .. N /\ ~\E w : Q(w, N - m)
    BY <1>2
  <2>2. N - m \in 0 .. N
    BY <2>1
  <2>3. N - m # N /\ ~\E u : Q(u, (N - m) + 1)
    BY <1>1, <2>1, <2>2
  <2>4. m - 1 \in 0 .. N /\ N - (m - 1) = (N - m) + 1 /\ m - 1 < m
    BY <2>1, <2>3
  <2>. QED
    BY <2>3, <2>4
<1>3. bad \subseteq Nat
  OBVIOUS
<1>4. bad = {}
  <2>. HIDE DEF bad
  <2>1. ASSUME bad # {} PROVE FALSE
    <3>1. PICK m \in bad : \A k \in bad : m <= k
      BY <1>3, <2>1, NatHasLeast
    <3>2. PICK k \in bad : k < m
      BY <1>2
    <3>3. m \in Nat /\ k \in Nat /\ m <= k
      BY <1>3, <3>1
    <3>. QED
      BY <3>2, <3>3
  <2>. QED
    BY <2>1
<1>5. N \in from
  BY <1>4
<1>6. \E w : Q(w, 0)
  BY <1>5
<1>. QED
  BY <1>6 DEF Q, Recurs

\* The walk of mb2_find_tag over the tags: up to the one at which it stops.
Stops(tags, i) == i = Len(tags) + 1 \/ tags[i].type \in {"end", "mmap"}

LEMMA FindMapIs ==
    ASSUME BootAssumption, NEW tags \in TagLists, NEW s \in 1 .. Len(tags) + 1,
           Stops(tags, s), \A i \in 1 .. s - 1 : ~Stops(tags, i)
    PROVE  FindMap(tags) = IF s # Len(tags) + 1 /\ tags[s].type = "mmap" THEN tags[s].map ELSE <<>>
<1>. DEFINE end == Offset(tags, Len(tags) + 1)
            W(w) == w = [offset \in 0 .. 2 * end |->
                          IF offset >= end \/ TagAt(tags, offset).type = "end" THEN <<>>
                          ELSE IF TagAt(tags, offset).type = "mmap" THEN TagAt(tags, offset).map
                          ELSE w[offset + Advance(TagAt(tags, offset))]]
            stop == {x \in 0 .. 2 * end :
                       x >= end \/ TagAt(tags, x).type \in {"end", "mmap"}}
            val == [x \in 0 .. 2 * end |->
                      IF x >= end \/ TagAt(tags, x).type = "end" THEN <<>>
                      ELSE TagAt(tags, x).map]
            next == [x \in 0 .. 2 * end |-> x + Advance(TagAt(tags, x))]
<1>1. /\ Len(tags) \in Nat /\ DOMAIN tags = 1 .. Len(tags) /\ end \in Nat
      /\ Padding \in Nat /\ Padding >= 1
  <2>1. Len(tags) \in Nat /\ DOMAIN tags = 1 .. Len(tags)
    BY TagsAre
  <2>2. PICK k : k = Len(tags) + 1
    OBVIOUS
  <2>3. k \in 1 .. Len(tags) + 1
    BY <2>1, <2>2
  <2>4. Offset(tags, k) \in Nat
    BY <2>3, OffsetStep
  <2>. QED
    BY <2>1, <2>2, <2>4, BootAssumption
<1>2. ASSUME NEW x \in 0 .. 2 * end, x < end
      PROVE  next[x] \in 0 .. 2 * end /\ x < next[x]
  <2>1. next[x] = x + Padded(TagAt(tags, x).size)
    BY DEF Advance
  <2>2. CASE \E i \in DOMAIN tags : Offset(tags, i) = x
    <3>1. PICK i \in 1 .. Len(tags) : Offset(tags, i) = x
      BY <1>1, <2>2
    <3>2. TagAt(tags, x) = tags[i]
      BY <3>1, TagRead
    <3>3. next[x] = Offset(tags, i + 1) /\ x < next[x] /\ next[x] \in Nat
      <4>1. PICK d : d = Padded(tags[i].size)
        OBVIOUS
      <4>2. Offset(tags, i + 1) = x + d /\ d \in Nat /\ d >= Padding
        BY <3>1, <4>1, OffsetStep
      <4>3. next[x] = x + d
        BY <2>1, <3>2, <4>1
      <4>. QED
        BY <1>1, <4>2, <4>3
    <3>4. Offset(tags, i + 1) <= end
      <4>1. i + 1 \in 1 .. Len(tags) + 1 /\ Len(tags) + 1 \in 1 .. Len(tags) + 1
        BY <1>1
      <4>2. CASE i + 1 = Len(tags) + 1
        BY <1>1, <4>2
      <4>3. CASE i + 1 # Len(tags) + 1
        <5>1. i + 1 < Len(tags) + 1
          BY <1>1, <4>1, <4>3
        <5>2. Offset(tags, i + 1) < end
          BY <4>1, <5>1, OffsetRises
        <5>3. Offset(tags, i + 1) \in Nat
          BY <4>1, OffsetStep
        <5>. QED
          BY <1>1, <5>2, <5>3
      <4>. QED
        BY <4>2, <4>3
    <3>5. PICK y : y = next[x]
      OBVIOUS
    <3>6. y \in Nat /\ y <= end /\ x < y
      BY <3>3, <3>4, <3>5
    <3>7. y \in 0 .. 2 * end
      BY <1>1, <3>6
    <3>. QED
      BY <3>5, <3>6, <3>7
  <2>3. CASE ~\E i \in DOMAIN tags : Offset(tags, i) = x
    <3>1. TagAt(tags, x).size = Padding
      BY <2>3 DEF TagAt
    <3>2. Padded(Padding) = Padding
      <4>1. PICK q \in Int : q = (Padding + Padding - 1) \div Padding
        BY <1>1
      <4>2. q = 1
        <5>1. PICK r \in Nat : Padding + Padding - 1 = q * Padding + r /\ r < Padding
          <6>1. PICK z \in Nat : z = Padding + Padding - 1
            BY <1>1
          <6>2. q = z \div Padding
            BY <4>1, <6>1
          <6>3. \E r \in Nat : z = q * Padding + r /\ r < Padding
            BY <1>1, <6>2, Division
          <6>. QED
            BY <6>1, <6>3
        <5>2. q <= 0 => q * Padding <= 0
          BY <1>1
        <5>3. q >= 2 => q * Padding >= 2 * Padding
          BY <1>1
        <5>. QED
          BY <1>1, <5>1, <5>2, <5>3
      <4>. QED
        BY <1>1, <4>1, <4>2 DEF Padded
    <3>3. Padding <= end
      <4>1. Len(tags) # 0
        <5>1. Len(tags) = 0 => end = 0
          <6>1. PICK k : k = Len(tags) + 1
            OBVIOUS
          <6>2. Len(tags) = 0 => k = 1
            BY <6>1
          <6>3. end = Offset(tags, k) /\ Offset(tags, 1) = 0
            BY <6>1, OffsetStep
          <6>. HIDE DEF end
          <6>. QED
            BY <6>2, <6>3
        <5>. QED
          BY <1>1, <1>2, <5>1
      <4>2. 1 \in 1 .. Len(tags) /\ 1 + 1 \in 1 .. Len(tags) + 1
            /\ Len(tags) + 1 \in 1 .. Len(tags) + 1
        BY <1>1, <4>1
      <4>3. PICK d : d = Padded(tags[1].size)
        OBVIOUS
      <4>4. Offset(tags, 1 + 1) = 0 + d /\ d \in Nat /\ d >= Padding
        BY <4>2, <4>3, OffsetStep
      <4>5. 1 + 1 < Len(tags) + 1 => Offset(tags, 1 + 1) < end
        BY <4>2, OffsetRises
      <4>6. 1 + 1 = Len(tags) + 1 => Offset(tags, 1 + 1) = end
        OBVIOUS
      <4>7. 1 + 1 < Len(tags) + 1 \/ 1 + 1 = Len(tags) + 1
        BY <1>1, <4>1
      <4>. HIDE DEF end
      <4>. QED
        BY <1>1, <4>4, <4>5, <4>6, <4>7
    <3>4. next[x] = x + Padding
      BY <2>1, <3>1, <3>2
    <3>. HIDE DEF end, next
    <3>. QED
      BY <1>1, <1>2, <3>3, <3>4
  <2>. QED
    BY <2>2, <2>3
<1>. HIDE DEF next
<1>3. \E w : W(w)
  <2>. HIDE DEF end
  <2>1. 2 * end \in Nat
    BY <1>1
  <2>2. \A x \in 0 .. 2 * end : x \notin stop => next[x] \in 0 .. 2 * end /\ x < next[x]
    BY <1>1, <1>2
  <2>3. PICK w : w = [x \in 0 .. 2 * end |-> IF x \in stop THEN val[x] ELSE w[next[x]]]
    <3>. HIDE DEF stop, val
    <3>1. PICK w : Recurs(w, 2 * end, stop, val, next)
      BY <2>1, <2>2, DownwardRecursion
    <3>. QED
      BY <3>1 DEF Recurs
  <2>4. ASSUME NEW x \in 0 .. 2 * end
        PROVE  (IF x \in stop THEN val[x] ELSE w[next[x]])
                 = IF x >= end \/ TagAt(tags, x).type = "end" THEN <<>>
                   ELSE IF TagAt(tags, x).type = "mmap" THEN TagAt(tags, x).map
                   ELSE w[x + Advance(TagAt(tags, x))]
    BY DEF next
  <2>5. [x \in 0 .. 2 * end |-> IF x \in stop THEN val[x] ELSE w[next[x]]]
          = [x \in 0 .. 2 * end |->
                 IF x >= end \/ TagAt(tags, x).type = "end" THEN <<>>
                   ELSE IF TagAt(tags, x).type = "mmap" THEN TagAt(tags, x).map
                   ELSE w[x + Advance(TagAt(tags, x))]]
    BY <2>4
  <2>. QED
    BY <2>3, <2>5
<1>4. PICK w : w = CHOOSE u : W(u)
  OBVIOUS
<1>5. FindMap(tags) = w[0]
  BY <1>4 DEF FindMap
<1>6. W(w)
  <2>. HIDE DEF W
  <2>. QED
    BY <1>3, <1>4
<1>7. \A x \in 0 .. 2 * end :
         w[x] = IF x >= end \/ TagAt(tags, x).type = "end" THEN <<>>
                ELSE IF TagAt(tags, x).type = "mmap" THEN TagAt(tags, x).map
                ELSE w[x + Advance(TagAt(tags, x))]
  <2>. HIDE DEF end
  <2>. QED
    BY <1>6
<1>. HIDE DEF W, stop, val
<1>8. ASSUME NEW i \in 1 .. Len(tags)
      PROVE  /\ Offset(tags, i) \in 0 .. 2 * end /\ ~(Offset(tags, i) >= end)
             /\ TagAt(tags, Offset(tags, i)) = tags[i]
             /\ Offset(tags, i) + Advance(tags[i]) = Offset(tags, i + 1)
  <2>1. /\ i \in 1 .. Len(tags) + 1 /\ Len(tags) + 1 \in 1 .. Len(tags) + 1
        /\ i < Len(tags) + 1
    BY <1>1
  <2>2. Offset(tags, i) < end /\ Offset(tags, i) \in Nat
    BY <2>1, OffsetRises, OffsetStep
  <2>3. Offset(tags, i) + Advance(tags[i]) = Offset(tags, i + 1)
    BY OffsetStep DEF Advance
  <2>4. PICK x, e : x = Offset(tags, i) /\ e = end
    OBVIOUS
  <2>5. x \in 0 .. 2 * e /\ ~(x >= e)
    BY <1>1, <2>2, <2>4
  <2>. QED
    BY <2>3, <2>4, <2>5, TagRead
<1>. DEFINE bad == {i \in 1 .. s : w[Offset(tags, i)] # w[0]}
<1>9. ASSUME NEW i \in bad PROVE \E j \in bad : j < i
  <2>1. i # 1
    BY <1>9, OffsetStep
  <2>2. PICK j : j = i - 1
    OBVIOUS
  <2>3. j \in 1 .. s /\ j < i /\ j + 1 = i /\ j \in 1 .. s - 1 /\ j \in 1 .. Len(tags)
    BY <1>1, <1>9, <2>1, <2>2
  <2>4. tags[j].type \notin {"end", "mmap"}
    BY <2>3 DEF Stops
  <2>5. w[Offset(tags, j)] = w[Offset(tags, j) + Advance(tags[j])]
    BY <1>7, <1>8, <2>3, <2>4
  <2>6. w[Offset(tags, j)] = w[Offset(tags, i)]
    BY <1>8, <2>3, <2>5
  <2>. QED
    BY <1>9, <2>3, <2>6
<1>10. bad = {}
  <2>1. bad \subseteq Nat
    OBVIOUS
  <2>. HIDE DEF bad
  <2>2. ASSUME bad # {} PROVE FALSE
    <3>1. PICK m \in bad : \A k \in bad : m <= k
      BY <2>1, <2>2, NatHasLeast
    <3>2. PICK k \in bad : k < m
      BY <1>9
    <3>3. m \in Nat /\ k \in Nat /\ m <= k
      BY <2>1, <3>1
    <3>. QED
      BY <3>2, <3>3
  <2>. QED
    BY <2>2
<1>11. w[Offset(tags, s)] = w[0]
  BY <1>1, <1>10
<1>12. CASE s = Len(tags) + 1
  <2>1. end \in 0 .. 2 * end /\ end >= end
    BY <1>1
  <2>2. w[end] = <<>>
    BY <1>7, <2>1
  <2>. QED
    BY <1>5, <1>11, <1>12, <2>2
<1>13. CASE s # Len(tags) + 1
  <2>1. s \in 1 .. Len(tags)
    BY <1>1, <1>13
  <2>2. tags[s].type = "end" \/ tags[s].type = "mmap"
    BY <1>13 DEF Stops
  <2>3. w[Offset(tags, s)] = IF tags[s].type = "end" THEN <<>> ELSE tags[s].map
    BY <1>7, <1>8, <2>1, <2>2
  <2>. QED
    BY <1>5, <1>11, <1>13, <2>2, <2>3
<1>. QED
  BY <1>12, <1>13

LEMMA MapGivenIs ==
    ASSUME BootAssumption, NEW from \in BootInfos,
           NEW tags, tags = from.tags,
           NEW maps, maps = {i \in DOMAIN tags : /\ tags[i].type = "mmap"
                                                 /\ \A j \in 1 .. i - 1 : tags[j].type # "end"}
    PROVE  MapGiven(from) = IF from.multiboot2 /\ maps # {} THEN tags[Min(maps)].map ELSE <<>>
<1>1. tags \in TagLists
  BY BootAssumption DEF TagLists, Tags
<1>2. /\ Len(tags) \in Nat /\ DOMAIN tags = 1 .. Len(tags)
      /\ \A i \in 1 .. Len(tags) : tags[i].type \in {"end", "mmap", "other"}
  BY <1>1, TagsAre
<1>3. PICK s \in 1 .. Len(tags) + 1 : Stops(tags, s) /\ \A i \in 1 .. s - 1 : ~Stops(tags, i)
  <2>1. PICK S : S = {i \in 1 .. Len(tags) + 1 : Stops(tags, i)}
    OBVIOUS
  <2>2. S \subseteq Nat /\ Len(tags) + 1 \in S
    BY <1>2, <2>1 DEF Stops
  <2>3. PICK m \in S : \A k \in S : m <= k
    BY <2>2, NatHasLeast
  <2>4. m \in 1 .. Len(tags) + 1 /\ Stops(tags, m)
    BY <2>1
  <2>5. ASSUME NEW i \in 1 .. m - 1 PROVE ~Stops(tags, i)
    <3>1. i \in 1 .. Len(tags) + 1 /\ ~(m <= i)
      BY <1>2, <2>4
    <3>. QED
      BY <2>1, <2>3, <3>1
  <2>. QED
    BY <2>4, <2>5
<1>4. FindMap(tags) = IF s # Len(tags) + 1 /\ tags[s].type = "mmap" THEN tags[s].map ELSE <<>>
  BY <1>1, <1>3, FindMapIs
<1>5. ASSUME NEW i \in 1 .. s - 1 PROVE i \in 1 .. Len(tags) /\ tags[i].type = "other"
  <2>1. i \in 1 .. Len(tags) /\ ~Stops(tags, i)
    BY <1>2, <1>3
  <2>. QED
    BY <1>2, <2>1 DEF Stops
<1>6. \A i \in maps : i \in 1 .. Len(tags) /\ s <= i
  <2>. SUFFICES ASSUME NEW i \in maps PROVE i \in 1 .. Len(tags) /\ s <= i
    OBVIOUS
  <2>1. i \in 1 .. Len(tags) /\ tags[i].type = "mmap"
    BY <1>2
  <2>2. i \notin 1 .. s - 1
    BY <1>5, <2>1
  <2>. QED
    BY <1>2, <2>1, <2>2
<1>7. CASE s # Len(tags) + 1 /\ tags[s].type = "mmap"
  <2>1. s \in DOMAIN tags /\ \A j \in 1 .. s - 1 : tags[j].type # "end"
    BY <1>2, <1>5, <1>7
  <2>2. s \in maps
    BY <1>7, <2>1
  <2>3. maps \in SUBSET Nat /\ maps # {}
    BY <1>6, <2>2
  <2>4. Min(maps) \in maps /\ Min(maps) <= s
    BY <2>2, <2>3, MinIsLeast
  <2>5. Min(maps) = s
    <3>1. PICK m \in maps : m = Min(maps)
      BY <2>4
    <3>2. m \in 1 .. Len(tags) /\ s <= m
      BY ONLY <1>6, m \in maps
    <3>3. m <= s
      BY ONLY <2>4, <3>1, Zenon
    <3>4. m \in Int /\ s \in Int
      BY <1>2, <3>2
    <3>5. m = s
      BY ONLY <3>2, <3>3, <3>4
    <3>. QED
      BY ONLY <3>1, <3>5
  <2>. QED
    BY <1>4, <1>7, <2>3, <2>5 DEF MapGiven
<1>8. CASE ~(s # Len(tags) + 1 /\ tags[s].type = "mmap")
  <2>1. ASSUME NEW i \in maps PROVE FALSE
    <3>1. i \in 1 .. Len(tags) /\ s <= i /\ s \in 1 .. Len(tags)
      BY <1>2, <1>6
    <3>2. tags[s].type = "end"
      BY <1>2, <1>3, <1>8, <3>1 DEF Stops
    <3>3. i # s /\ \A j \in 1 .. i - 1 : tags[j].type # "end"
      BY <3>2
    <3>4. s \in 1 .. i - 1
      BY <3>1, <3>3
    <3>. QED
      BY <3>2, <3>3, <3>4
  <2>. QED
    BY <1>4, <1>8, <2>1 DEF MapGiven
<1>. QED
  BY <1>7, <1>8

MapInv == info \in BootInfos /\ mmap = MapGiven(info)

LEMMA MapKept ==
    ASSUME MapInv, [BootNext]_boot_vars
    PROVE  MapInv'
<1>1. ASSUME UNCHANGED pmm_vars PROVE mmap' = mmap
  BY <1>1 DEF pmm_vars
<1>2. ASSUME NEW got, TakePages(got) PROVE mmap' = mmap
  BY <1>2 DEF TakePages
<1>3. ASSUME NEW size, Kmalloc(size) PROVE mmap' = mmap
  <2>1. CASE KmallocFromList(size)
    BY <1>1, <2>1 DEF KmallocFromList
  <2>2. CASE KmallocExtends(size)
    BY <1>2, <2>2 DEF KmallocExtends
  <2>3. CASE KmallocFails(size)
    BY <1>1, <2>3 DEF KmallocFails, vars
  <2>. QED
    BY <1>3, <2>1, <2>2, <2>3 DEF Kmalloc
<1>4. ASSUME NEW ptr, Kfree(ptr) PROVE mmap' = mmap
  BY <1>1, <1>4, Zenon DEF Kfree
<1>5. UNCHANGED <<mmap, info>>
  <2>1. CASE BootMemory
    <3>1. CASE HeapInit
      BY <1>1, <1>2, <2>1, <3>1 DEF HeapInit, BootMemory
    <3>2. CASE Boot
      BY <2>1, <3>2 DEF Boot, ScanEntry, ReserveKernel, BootMemory
    <3>. QED
      BY <2>1, <3>1, <3>2 DEF BootMemory
  <2>2. CASE VfsAllocNode
    BY <1>3, <2>2 DEF VfsAllocNode
  <2>3. CASE Mounted \/ \E arg \in Names \cup {"..", "nosuch"} : Cd(arg)
    BY <1>1, <2>3 DEF Mounted, Cd, vars
  <2>4. CASE UseHeap
    BY <1>3, <1>4, <2>4 DEF UseHeap
  <2>5. CASE UNCHANGED boot_vars
    BY <1>1, <2>5 DEF boot_vars, vars
  <2>. QED
    BY <2>1, <2>2, <2>3, <2>4, <2>5 DEF BootNext
<1>6. \A x, y : x = y => MapGiven(x) = MapGiven(y)
  OBVIOUS
<1>. QED
  BY <1>5 DEF MapInv

--------------------------------------------------------------------------------
\* The tree is at every step what the calls of vfs_init so far have made of it.
THEOREM BootTreeInvariant == BootSpec => []TreeInv
<1>1. BootInit => TreeInv
  BY BootAssumption, NothingMadeYet
<1>2. HeapInv /\ TreeInv /\ [BootNext]_boot_vars => TreeInv'
  BY PmmAssumption, HeapAssumption, BootAssumption, BootStepTreeInv
<1>. QED
  BY <1>1, <1>2, BootUsesTheHeap, HeapInvariant, PTL DEF BootSpec

\* init.h:23-39: what reaches pmm_init is the map of the loader's first tag of
\* that type.
THEOREM BootMapIsTheLoaders == BootSpec => []MapIsTheLoaders
<1>1. BootInit => MapInv
  BY DEF BootInit, MapInv
<1>2. MapInv /\ [BootNext]_boot_vars => MapInv'
  BY MapKept
<1>3. MapInv => MapIsTheLoaders
  BY BootAssumption, MapGivenIs DEF MapInv, MapIsTheLoaders
<1>. QED
  BY <1>1, <1>2, <1>3, PTL DEF BootSpec

\* vfs.h:22: at every step what vfs_init has made is a tree, in memory of its own,
\* and the current directory is a directory of it, where the path of pwd leads.
THEOREM BootTreeSound == BootSpec => []TreeSound
<1>1. TreeInv => TreeSound
  BY TreeInvSound
<1>. QED
  BY <1>1, BootTreeInvariant, PTL

\* Every variable of the machine keeps to its type, the memory below it included.
THEOREM BootTypes == BootSpec => []BootTypeOK
<1>1. HeapInv => PmmTypeOK
  BY DEF HeapInv, PmmInv
<1>2. PmmTypeOK /\ HeapTypeOK /\ TreeInv => BootTypeOK
  BY TreeInvTypes
<1>. QED
  BY <1>1, <1>2, BootUsesTheHeap, HeapInvariant, HeapTypes, BootTreeInvariant, PTL

\* The heap of the machine that has come up: the invariants of the run of Boot
\* that are about the heap.
THEOREM BootHeapSound ==
    BootSpec => [](/\ ListInAddressOrder /\ BlocksTilePages /\ HeapBelowFreePages
                   /\ GrantsBacked /\ BytesAccounted)
BY BootUsesTheHeap, HeapListInAddressOrder, HeapBlocksTilePages, HeapGrowsUpwards,
   HeapGrantsBacked, HeapBytesAccounted, PTL

THEOREM BootImplementsPool == BootSpec => PoolSpec
BY BootUsesTheHeap, HeapImplementsPool, PTL

\* pmm.c, heap.c: what the page allocator promises holds with the heap as its
\* client, which takes several pages in one call and gives back the last at once:
\* the counter is exact, no page is handed out twice, and none of the kernel's is.
THEOREM BootPagesSound == BootSpec => [](CountExact /\ HeldNotFree /\ KernelNeverGivenOut)
<1>1. HeapInv => CountExact /\ HeldNotFree /\ KernelNeverGivenOut
  <2>1. ASSUME PmmInv, pmm_up, NEW page \in FreePages \cup held
        PROVE  AddressOf(page) >= KernelEnd
    <3>1. page \in Pages /\ page >= KernelEndPage
      BY <2>1 DEF PmmInv, PmmTypeOK, FreePages
    <3>. QED
      BY <3>1, PmmAssumption, KernelEndPageBound
  <2>. QED
    BY <2>1 DEF HeapInv, PmmInv, KernelNeverGivenOut
<1>. QED
  BY <1>1, BootUsesTheHeap, HeapInvariant, PTL
====
