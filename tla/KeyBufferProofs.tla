----------------------------- MODULE KeyBufferProofs -----------------------------
(****************************************************************************)
(* Proofs about KeyBuffer.  Whatever the interrupt's stub leaves in al, the *)
(* two indices stay inside the ring.  If it restores al, as the pushes      *)
(* before it and the pops after it mean to, the ring holds the characters   *)
(* that were accepted and not yet popped, at the instruction the shell is   *)
(* at, and the shell gets them in order, each once.                         *)
(****************************************************************************)
EXTENDS KeyBuffer, TLAPS

Instructions ==
    {"poll", "head", "compare", "none", "return", "index", "char", "save",
     "tail", "advance", "store", "result", "hlt", "halted"}

\* The indices, and what is used as one, stay inside the ring, and no more keys
\* are down than were pressed.
RangeInv ==
    /\ pc \in Instructions
    /\ key_buffer \in [Index -> Chars \cup {0}]
    /\ key_buf_head \in Index /\ key_buf_tail \in Index
    /\ eax \in Index \cup Chars /\ edx \in Index
    /\ pc \in {"char", "advance", "store"} => eax \in Index
    /\ c \in Index \cup Chars
    /\ loops \in 0 .. MaxLoops /\ depth \in 0 .. loops
    /\ (depth = 0 <=> loops = 0) /\ (draining => depth > 0)
    /\ draining \in BOOLEAN
    /\ accepted \in Seq(Chars) /\ lost \in Nat /\ down \in Nat
    /\ down <= Len(accepted) + lost /\ Len(accepted) + lost <= MaxKeys

\* A place of the ring that lies less than twice around it.
Wrap(x) == IF x < Size THEN x ELSE x - Size

\* How many characters have left the ring: those the shell has, and the one on
\* its way to it.
OnItsWay == pc = "result" \/ (pc = "return" /\ eax # 0)

Popped == Len(typed) + IF OnItsWay THEN 1 ELSE 0

InRing == Len(accepted) - Popped

\* The ring holds the characters that were accepted and not popped.
RingInv ==
    /\ InRing \in 0 .. Size - 1
    /\ key_buf_head = Wrap(key_buf_tail + InRing)
    /\ \A k \in 0 .. InRing - 1 :
           key_buffer[Wrap(key_buf_tail + k)] = accepted[Popped + 1 + k]

\* What the shell has got is what was accepted.
TypedInv ==
    /\ typed \in Seq(Chars)
    /\ Len(typed) <= Len(accepted)
    /\ \A i \in 1 .. Len(typed) : typed[i] = accepted[i]

\* What the shell's registers hold at each instruction.
RegisterInv ==
    /\ c \in Chars \cup {0}
    /\ pc \in {"head", "compare"} => edx = key_buf_tail
    /\ pc = "compare" => eax \in Index /\ (eax # key_buf_tail => InRing > 0)
    /\ pc \in {"index", "char", "save", "tail", "advance", "store"} => InRing > 0
    /\ pc \in {"char", "advance"} => eax = key_buf_tail
    /\ pc = "save" => eax = accepted[Popped + 1]
    /\ pc \in {"tail", "advance", "store"} => c = accepted[Popped + 1]
    /\ pc = "store" => eax = Successor(key_buf_tail)
    /\ pc = "result" => c = accepted[Popped]
    /\ pc = "return" /\ eax # 0 => eax = accepted[Popped]

BufferInv == RangeInv /\ RingInv /\ TypedInv /\ RegisterInv

--------------------------------------------------------------------------------
LEMMA SuccessorWraps ==
    ASSUME KeyBufferAssumption, NEW i \in Index
    PROVE  Successor(i) = Wrap(i + 1) /\ Successor(i) \in Index
<1>1. Size \in Nat /\ Size >= 2 /\ i \in Nat /\ i < Size
  BY DEF KeyBufferAssumption, Index
<1>2. CASE i + 1 < Size
  BY <1>1, <1>2 DEF Successor, Wrap, Index
<1>3. CASE i + 1 = Size
  BY <1>1, <1>3 DEF Successor, Wrap, Index
<1>. QED
  BY <1>1, <1>2, <1>3

--------------------------------------------------------------------------------
\* The indices.

LEMMA RangeInit == KeyBufferAssumption /\ Init => RangeInv
<1>. SUFFICES ASSUME KeyBufferAssumption, Init PROVE RangeInv
  OBVIOUS
<1>1. 0 \in Index /\ Size \in Nat /\ MaxKeys \in Nat /\ MaxLoops \in Nat
  BY DEF KeyBufferAssumption, Index
<1>2. accepted \in Seq(Chars) /\ Len(accepted) = 0
  BY DEF Init
<1>3. key_buffer \in [Index -> Chars \cup {0}]
  BY DEF Init
<1>4. loops \in 0 .. MaxLoops /\ depth \in 0 .. loops
  BY <1>1 DEF Init
<1>. QED
  BY <1>1, <1>2, <1>3, <1>4 DEF Init, RangeInv, Instructions

\* The interrupt leaves pc an instruction, and eax what it was or EOI.
LEMMA InterruptedRange ==
    ASSUME KeyBufferAssumption, RangeInv, Interrupted
    PROVE  /\ pc' \in Instructions
           /\ eax' \in Index \cup Chars
           /\ pc' \in {"char", "advance", "store"} => eax' \in Index
<1>1. EOI \in Index
  BY DEF KeyBufferAssumption, Index
<1>. QED
  BY <1>1 DEF Interrupted, RangeInv, Instructions

LEMMA PressRange ==
    ASSUME KeyBufferAssumption, RangeInv, NEW ch \in Chars, Press(ch) PROVE RangeInv'
<1>. USE DEF Press, caller
<1>1. /\ key_buffer' \in [Index -> Chars \cup {0}]
      /\ key_buf_head' \in Index
      /\ accepted' \in Seq(Chars) /\ lost' \in Nat
      /\ Len(accepted') + lost' = Len(accepted) + lost + 1
  <2>1. CASE Full
    BY <2>1 DEF RangeInv
  <2>2. CASE ~Full
    <3>1. key_buffer' \in [Index -> Chars \cup {0}]
      BY <2>2 DEF RangeInv
    <3>2. key_buf_head' \in Index
      BY <2>2, SuccessorWraps DEF RangeInv
    <3>3. accepted' \in Seq(Chars) /\ Len(accepted') = Len(accepted) + 1
      BY <2>2 DEF RangeInv
    <3>. QED
      BY <2>2, <3>1, <3>2, <3>3 DEF RangeInv
  <2>. QED
    BY <2>1, <2>2
<1>2. Len(accepted') + lost' <= MaxKeys
  BY <1>1 DEF RangeInv, KeyBufferAssumption
<1>. QED
  BY <1>1, <1>2, InterruptedRange DEF RangeInv

LEMMA ReleaseRange ==
    ASSUME KeyBufferAssumption, RangeInv, Release PROVE RangeInv'
<1>1. /\ UNCHANGED <<key_buffer, key_buf_head, key_buf_tail, edx, c, loops, depth>>
      /\ UNCHANGED <<draining, accepted, lost>>
  BY Zenon DEF Release, ring, caller, history
<1>2. Interrupted
  BY Zenon DEF Release
<1>3. down' \in Nat /\ down' <= Len(accepted) + lost
  BY DEF Release, RangeInv
<1>4. /\ pc' \in Instructions
      /\ eax' \in Index \cup Chars
      /\ pc' \in {"char", "advance", "store"} => eax' \in Index
  BY <1>2, InterruptedRange
<1>5. /\ key_buffer' = key_buffer /\ key_buf_head' = key_buf_head
      /\ key_buf_tail' = key_buf_tail /\ edx' = edx /\ c' = c
      /\ loops' = loops /\ depth' = depth /\ draining' = draining
      /\ accepted' = accepted /\ lost' = lost
  BY <1>1
<1>. QED
  BY <1>3, <1>4, <1>5 DEF RangeInv

LEMMA ReturnRange ==
    ASSUME KeyBufferAssumption, RangeInv, ReturnToShell \/ ReturnToDrain \/ ReturnToLoop
    PROVE  RangeInv'
<1>1. MaxLoops \in Nat
  BY DEF KeyBufferAssumption
<1>2. CASE ReturnToShell
  BY <1>1, <1>2 DEF ReturnToShell, At, AfterKey, ring, RangeInv, Instructions
<1>3. CASE ReturnToDrain
  BY <1>1, <1>3 DEF ReturnToDrain, At, ring, RangeInv, Instructions
<1>4. CASE ReturnToLoop
  <2>1. /\ loops' \in 0 .. MaxLoops /\ depth' \in 0 .. loops'
        /\ depth' = 0 <=> loops' = 0
    BY <1>1, <1>4 DEF ReturnToLoop, RangeInv
  <2>2. Drains \in BOOLEAN
    BY DEF Drains
  <2>3. draining' \in BOOLEAN
    BY <1>4, <2>2 DEF ReturnToLoop
  <2>4. draining' => depth' > 0
    <3>1. eax = 0 => depth' > 0
      BY <1>1, <1>4 DEF ReturnToLoop, RangeInv
    <3>2. eax # 0 => ~draining'
      BY <1>4, Zenon DEF ReturnToLoop
    <3>. QED
      BY <3>1, <3>2
  <2>. QED
    BY <1>4, <2>1, <2>3, <2>4 DEF ReturnToLoop, At, ring, RangeInv, Instructions
<1>. QED
  BY <1>2, <1>3, <1>4

LEMMA ShellRange ==
    ASSUME KeyBufferAssumption, RangeInv, Shell PROVE RangeInv'
<1>. USE DEF At, ring, caller, history
<1>1. 0 \in Index
  BY DEF KeyBufferAssumption, Index
<1>2. CASE LoadTail \/ LoadHead \/ Compare \/ LoadNone \/ Halt
  BY <1>1, <1>2 DEF LoadTail, LoadHead, Compare, LoadNone, Halt, RangeInv, Instructions
<1>3. CASE LoadIndex \/ SaveChar \/ LoadTailAgain
  BY <1>3 DEF LoadIndex, SaveChar, LoadTailAgain, RangeInv, Instructions
<1>4. CASE LoadChar
  BY <1>1, <1>4 DEF LoadChar, RangeInv, Instructions
<1>5. CASE Advance \/ StoreTail
  BY <1>5, SuccessorWraps DEF Advance, StoreTail, RangeInv, Instructions
<1>6. CASE LoadResult
  BY <1>6 DEF LoadResult, RangeInv, Instructions
<1>. QED
  BY <1>2, <1>3, <1>4, <1>5, <1>6, ReturnRange DEF Shell

LEMMA RangeStep ==
    ASSUME KeyBufferAssumption, RangeInv, [Next]_vars PROVE RangeInv'
<1>1. CASE \E ch \in Chars : Press(ch)
  BY <1>1, PressRange
<1>2. CASE Release
  BY <1>2, ReleaseRange
<1>3. CASE Shell
  BY <1>3, ShellRange
<1>4. CASE UNCHANGED vars
  BY <1>4 DEF vars, ring, caller, history, RangeInv
<1>. QED
  BY <1>1, <1>2, <1>3, <1>4 DEF Next

\* keyboard_stub overwrites al wherever it interrupts the shell; even so neither
\* index leaves the ring, and key_buffer is read inside its bounds (ps2.c:75, 88).
THEOREM KeyIndicesInRange == Spec => []RangeInv
<1>1. Init => RangeInv
  BY KeyBufferAssumption, RangeInit
<1>2. RangeInv /\ [Next]_vars => RangeInv'
  BY KeyBufferAssumption, RangeStep
<1>. QED
  BY <1>1, <1>2, PTL DEF Spec

--------------------------------------------------------------------------------
\* The ring.  From here on the stub restores al.

\* Less than once around the ring from t no place comes twice; once around is t.
LEMMA WrapFacts ==
    ASSUME KeyBufferAssumption, NEW t \in Index
    PROVE  /\ \A x \in 0 .. Size - 1 : Wrap(t + x) \in Index
           /\ \A x, y \in 0 .. Size - 1 : Wrap(t + x) = Wrap(t + y) => x = y
           /\ Wrap(t + Size) = t /\ Wrap(t + 0) = t
           /\ \A x \in 0 .. Size - 1 : Wrap(Wrap(t + x) + 1) = Wrap(t + (x + 1))
           /\ \A x \in 0 .. Size - 1 : Wrap(Wrap(t + 1) + x) = Wrap(t + (x + 1))
<1>1. Size \in Nat /\ Size >= 2 /\ t \in Nat /\ t < Size
  BY DEF KeyBufferAssumption, Index
<1>. QED
  BY <1>1 DEF Wrap, Index

\* How many characters are in the ring, seen from its indices.
LEMMA RingCount ==
    ASSUME KeyBufferAssumption, RangeInv, RingInv
    PROVE  /\ Full <=> InRing = Size - 1
           /\ key_buf_head = key_buf_tail <=> InRing = 0
<1>1. Size \in Nat /\ Size >= 2
  BY DEF KeyBufferAssumption
<1>2. /\ key_buf_tail \in Index /\ key_buf_head \in Index
      /\ InRing \in 0 .. Size - 1 /\ key_buf_head = Wrap(key_buf_tail + InRing)
  BY DEF RangeInv, RingInv
<1>3. \A t \in Index : \A n \in 0 .. Size - 1 :
        /\ Wrap(Wrap(t + n) + 1) = t <=> n = Size - 1
        /\ Wrap(t + n) = t <=> n = 0
  BY <1>1 DEF Wrap, Index
<1>. QED
  BY <1>2, <1>3, SuccessorWraps DEF Full

\* A step that leaves the ring alone and takes no character out of it.
LEMMA QuietStep ==
    ASSUME RingInv, TypedInv,
           UNCHANGED <<key_buffer, key_buf_head, key_buf_tail, accepted, typed>>,
           OnItsWay' <=> OnItsWay
    PROVE  RingInv' /\ TypedInv' /\ Popped' = Popped /\ InRing' = InRing
<1>1. Popped' = Popped /\ InRing' = InRing
  BY DEF Popped, InRing
<1>. QED
  BY <1>1 DEF RingInv, TypedInv

LEMMA PressRing ==
    ASSUME KeyBufferAssumption, StubRestoresAL, BufferInv, NEW ch \in Chars, Press(ch)
    PROVE  RingInv' /\ TypedInv' /\ Popped' = Popped /\ InRing' >= InRing
           /\ \A i \in 1 .. Len(accepted) : accepted'[i] = accepted[i]
<1>. USE DEF BufferInv
<1>1. UNCHANGED <<key_buf_tail, typed, eax, edx, c>>
  BY DEF Press, Interrupted
<1>2. OnItsWay' <=> OnItsWay
  BY DEF Press, Interrupted, OnItsWay
<1>3. Popped' = Popped /\ Popped \in Nat
  BY <1>1, <1>2 DEF Popped, TypedInv
<1>4. CASE Full
  <2>1. UNCHANGED <<key_buffer, key_buf_head, accepted>>
    BY <1>4 DEF Press
  <2>. QED
    BY <1>1, <1>2, <2>1, QuietStep DEF RingInv
<1>5. CASE ~Full
  <2>1. /\ key_buffer' = [key_buffer EXCEPT ![key_buf_head] = ch]
        /\ key_buf_head' = Successor(key_buf_head)
        /\ accepted' = Append(accepted, ch)
    BY <1>5 DEF Press
  <2>2. PICK n \in 0 .. Size - 1 : n = InRing
    BY DEF RingInv
  <2>3. n < Size - 1
    BY <1>5, <2>2, RingCount DEF KeyBufferAssumption
  <2>4. /\ Len(accepted') = Len(accepted) + 1 /\ Len(accepted) \in Nat
        /\ \A i \in 1 .. Len(accepted) : accepted'[i] = accepted[i]
        /\ accepted'[Len(accepted) + 1] = ch
    BY <2>1 DEF RangeInv
  <2>5. InRing' = n + 1 /\ Len(accepted) = Popped + n
    BY <1>3, <2>2, <2>4 DEF InRing
  <2>6. key_buf_head' = Wrap(key_buf_tail' + (n + 1))
    BY <1>1, <2>1, <2>2, <2>3, SuccessorWraps, WrapFacts DEF RingInv, RangeInv
  <2>7. ASSUME NEW k \in 0 .. n
        PROVE  key_buffer'[Wrap(key_buf_tail' + k)] = accepted'[Popped' + 1 + k]
    <3>1. /\ k \in 0 .. Size - 1 /\ Wrap(key_buf_tail + k) \in Index
          /\ k # n => Wrap(key_buf_tail + k) # key_buf_head
      BY <2>2, <2>3, WrapFacts DEF RingInv, RangeInv, KeyBufferAssumption
    <3>2. CASE k = n
      <4>1. key_buffer'[key_buf_head] = ch
        BY <2>1 DEF RangeInv
      <4>. QED
        BY <1>1, <1>3, <2>2, <2>4, <2>5, <3>2, <4>1 DEF RingInv
    <3>3. CASE k # n
      <4>1. key_buffer'[Wrap(key_buf_tail + k)] = key_buffer[Wrap(key_buf_tail + k)]
        BY <2>1, <3>1, <3>3 DEF RangeInv
      <4>2. key_buffer[Wrap(key_buf_tail + k)] = accepted[Popped + 1 + k]
        BY <2>2, <3>3 DEF RingInv
      <4>3. Popped + 1 + k \in 1 .. Len(accepted)
        BY <1>3, <2>5, <3>3
      <4>. QED
        BY <1>1, <1>3, <2>4, <4>1, <4>2, <4>3
    <3>. QED
      BY <3>2, <3>3
  <2>8. RingInv'
    BY <2>3, <2>5, <2>6, <2>7 DEF RingInv
  <2>9. TypedInv'
    BY <1>1, <2>4 DEF TypedInv
  <2>. QED
    BY <1>3, <2>2, <2>4, <2>5, <2>8, <2>9
<1>. QED
  BY <1>4, <1>5

\* What the registers hold stays true when nothing but the ring's producer side
\* changes.
LEMMA RegistersKept ==
    ASSUME KeyBufferAssumption, BufferInv,
           UNCHANGED <<key_buf_tail, typed, eax, edx, c>>,
           pc' = IF pc = "halted" THEN "poll" ELSE pc,
           Popped' = Popped, InRing' >= InRing, InRing' \in Nat,
           \A i \in 1 .. Len(accepted) : accepted'[i] = accepted[i]
    PROVE  RegisterInv'
<1>. USE DEF BufferInv
<1>1. Popped \in Nat /\ Len(accepted) \in Nat /\ InRing = Len(accepted) - Popped
  BY DEF TypedInv, Popped, RangeInv, InRing
<1>2. InRing > 0 => accepted'[Popped + 1] = accepted[Popped + 1]
  BY <1>1
<1>3. OnItsWay => accepted'[Popped] = accepted[Popped]
  <2>1. OnItsWay => Popped >= 1 /\ Popped <= Len(accepted)
    BY <1>1 DEF TypedInv, Popped, RingInv, KeyBufferAssumption
  <2>. QED
    BY <1>1, <2>1
<1>4. /\ pc' # "poll" => pc' = pc
      /\ InRing > 0 => InRing' > 0
  BY <1>1
<1>5. key_buf_tail' = key_buf_tail /\ eax' = eax /\ edx' = edx /\ c' = c
  OBVIOUS
<1>6. Successor(key_buf_tail)' = Successor(key_buf_tail)
  BY <1>5 DEF Successor
<1>. QED
  BY <1>2, <1>3, <1>4, <1>5, <1>6 DEF RegisterInv, OnItsWay

LEMMA PressInv ==
    ASSUME KeyBufferAssumption, StubRestoresAL, BufferInv, NEW ch \in Chars, Press(ch)
    PROVE  BufferInv'
<1>1. /\ UNCHANGED <<key_buf_tail, typed, eax, edx, c>>
      /\ pc' = IF pc = "halted" THEN "poll" ELSE pc
  BY DEF Press, Interrupted
<1>2. RingInv' /\ InRing' \in Nat
  BY PressRing DEF RingInv
<1>3. RegisterInv'
  BY <1>1, <1>2, PressRing, RegistersKept
<1>. QED
  BY <1>3, PressRing, PressRange DEF BufferInv

LEMMA ReleaseInv ==
    ASSUME KeyBufferAssumption, StubRestoresAL, BufferInv, Release
    PROVE  BufferInv'
<1>1. /\ UNCHANGED <<key_buffer, key_buf_head, key_buf_tail, accepted, typed>>
      /\ UNCHANGED <<eax, edx, c>>
      /\ pc' = IF pc = "halted" THEN "poll" ELSE pc
  BY DEF Release, Interrupted, ring, history
<1>2. OnItsWay' <=> OnItsWay
  BY <1>1 DEF OnItsWay
<1>3. RingInv' /\ TypedInv' /\ Popped' = Popped /\ InRing' = InRing
  BY <1>1, <1>2, QuietStep DEF BufferInv
<1>4. InRing' \in Nat /\ InRing' >= InRing
  BY <1>3 DEF RingInv
<1>5. RegisterInv'
  BY <1>1, <1>3, <1>4, RegistersKept
<1>. QED
  BY <1>3, <1>5, ReleaseRange DEF BufferInv

--------------------------------------------------------------------------------
\* The shell's instructions.

\* The character on its way, and the next one, are characters.
LEMMA NextCharacter ==
    ASSUME KeyBufferAssumption, BufferInv
    PROVE  /\ OnItsWay => Popped \in 1 .. Len(accepted) /\ accepted[Popped] \in Chars
           /\ InRing > 0 => /\ accepted[Popped + 1] \in Chars
                            /\ accepted[Popped + 1] = key_buffer[key_buf_tail]
<1>. USE DEF BufferInv
<1>1. /\ Popped \in Nat /\ Len(accepted) \in Nat /\ Popped <= Len(accepted)
      /\ InRing = Len(accepted) - Popped
      /\ OnItsWay => Popped >= 1
  BY DEF TypedInv, Popped, RangeInv, InRing, RingInv, KeyBufferAssumption
<1>2. \A i \in 1 .. Len(accepted) : accepted[i] \in Chars
  BY DEF RangeInv
<1>3. InRing > 0 => accepted[Popped + 1] = key_buffer[key_buf_tail]
  <2>1. Wrap(key_buf_tail + 0) = key_buf_tail
    BY WrapFacts DEF RangeInv
  <2>2. InRing > 0 => key_buffer[Wrap(key_buf_tail + 0)] = accepted[Popped + 1 + 0]
    BY <1>1 DEF RingInv
  <2>. QED
    BY <1>1, <2>1, <2>2
<1>4. InRing > 0 => Popped + 1 \in 1 .. Len(accepted)
  BY <1>1
<1>5. OnItsWay => Popped \in 1 .. Len(accepted)
  BY <1>1
<1>. QED
  BY <1>2, <1>3, <1>4, <1>5

\* The instructions that only load a register or decide where to go.
LEMMA LoadInv ==
    ASSUME KeyBufferAssumption, BufferInv,
           \/ LoadTail \/ LoadHead \/ Compare \/ LoadNone \/ Halt
           \/ LoadIndex \/ LoadChar \/ SaveChar \/ LoadTailAgain \/ Advance \/ LoadResult
    PROVE  RingInv' /\ TypedInv' /\ RegisterInv'
<1>. USE DEF BufferInv, At
<1>0. UNCHANGED <<key_buffer, key_buf_head, key_buf_tail, accepted, typed>>
  BY DEF LoadTail, LoadHead, Compare, LoadNone, Halt, LoadIndex, LoadChar, SaveChar,
         LoadTailAgain, Advance, LoadResult, ring, history
<1>1. OnItsWay' <=> OnItsWay
  <2>1. CASE LoadResult
    <3>1. c # 0
      BY <2>1, NextCharacter DEF LoadResult, RegisterInv, OnItsWay, KeyBufferAssumption
    <3>. QED
      BY <2>1, <3>1 DEF LoadResult, OnItsWay
  <2>2. CASE ~LoadResult
    BY <2>2 DEF LoadTail, LoadHead, Compare, LoadNone, Halt, LoadIndex, LoadChar,
                SaveChar, LoadTailAgain, Advance, OnItsWay
  <2>. QED
    BY <2>1, <2>2
<1>2. RingInv' /\ TypedInv' /\ Popped' = Popped /\ InRing' = InRing
  BY <1>0, <1>1, QuietStep
<1>3. /\ key_buf_tail' = key_buf_tail /\ accepted' = accepted
      /\ Successor(key_buf_tail)' = Successor(key_buf_tail)
  BY <1>0 DEF Successor
<1>4. CASE LoadTail \/ Halt \/ LoadIndex \/ LoadTailAgain \/ LoadNone
  BY <1>2, <1>3, <1>4 DEF LoadTail, Halt, LoadIndex, LoadTailAgain, LoadNone, RegisterInv
<1>5. CASE LoadHead
  BY <1>2, <1>3, <1>5, RingCount DEF LoadHead, RegisterInv, RangeInv, RingInv, KeyBufferAssumption
<1>6. CASE Compare
  BY <1>2, <1>3, <1>6 DEF Compare, RegisterInv
<1>7. CASE LoadChar
  BY <1>2, <1>3, <1>7, NextCharacter DEF LoadChar, RegisterInv
<1>8. CASE SaveChar
  BY <1>2, <1>3, <1>8, NextCharacter DEF SaveChar, RegisterInv
<1>9. CASE Advance
  BY <1>2, <1>3, <1>9 DEF Advance, RegisterInv
<1>10. CASE LoadResult
  BY <1>2, <1>3, <1>10 DEF LoadResult, RegisterInv
<1>. QED
  BY <1>2, <1>4, <1>5, <1>6, <1>7, <1>8, <1>9, <1>10

\* The tail moves past a character, which is on its way from then on.
LEMMA StoreTailInv ==
    ASSUME KeyBufferAssumption, BufferInv, StoreTail
    PROVE  RingInv' /\ TypedInv' /\ RegisterInv'
<1>. USE DEF BufferInv
<1>1. /\ UNCHANGED <<key_buffer, key_buf_head, accepted, typed, eax, c>>
      /\ pc = "store" /\ pc' = "result" /\ key_buf_tail' = Wrap(key_buf_tail + 1)
  BY SuccessorWraps DEF StoreTail, At, history, RegisterInv, RangeInv
<1>2. /\ Popped \in Nat /\ Popped' = Popped + 1
      /\ InRing' = InRing - 1
  BY <1>1 DEF Popped, InRing, OnItsWay, TypedInv, RangeInv
<1>3. PICK n \in 1 .. Size - 1 : n = InRing
  BY <1>1 DEF RingInv, RegisterInv, KeyBufferAssumption
<1>4. \A k \in 0 .. n - 1 : Wrap(key_buf_tail' + k) = Wrap(key_buf_tail + (k + 1))
  BY <1>1, <1>3, WrapFacts DEF RangeInv, KeyBufferAssumption
<1>5. InRing' \in 0 .. Size - 1 /\ InRing' = n - 1
  BY <1>2, <1>3 DEF KeyBufferAssumption
<1>6. key_buf_head' = Wrap(key_buf_tail' + (n - 1))
  BY <1>1, <1>3, <1>4 DEF RingInv
<1>7. ASSUME NEW k \in 0 .. n - 2
      PROVE  key_buffer'[Wrap(key_buf_tail' + k)] = accepted'[Popped' + 1 + k]
  <2>1. key_buffer[Wrap(key_buf_tail + (k + 1))] = accepted[Popped + 1 + (k + 1)]
    BY <1>3 DEF RingInv
  <2>. QED
    BY <1>1, <1>2, <1>3, <1>4, <2>1
<1>8. RingInv'
  BY <1>5, <1>6, <1>7 DEF RingInv
<1>9. TypedInv'
  BY <1>1 DEF TypedInv
<1>10. RegisterInv'
  BY <1>1, <1>2 DEF RegisterInv
<1>. QED
  BY <1>8, <1>9, <1>10

\* The three callers of key_buffer_pop take what it returns alike.
Returns == ReturnToShell \/ ReturnToDrain \/ ReturnToLoop

LEMMA ReturnsTake ==
    ASSUME Returns
    PROVE  /\ UNCHANGED <<key_buffer, key_buf_head, key_buf_tail, accepted, lost, c>>
           /\ pc = "return" /\ pc' \in {"poll", "hlt"} /\ Got
  BY DEF Returns, ReturnToShell, ReturnToDrain, ReturnToLoop, At, AfterKey, ring

LEMMA ReturnInv ==
    ASSUME KeyBufferAssumption, BufferInv, Returns
    PROVE  RingInv' /\ TypedInv' /\ RegisterInv'
<1>. USE DEF BufferInv
<1>1. /\ UNCHANGED <<key_buffer, key_buf_head, key_buf_tail, accepted, c>>
      /\ pc = "return" /\ pc' \in {"poll", "hlt"}
      /\ typed' = IF eax = 0 THEN typed ELSE Append(typed, eax)
  BY ReturnsTake DEF Got
<1>2. eax # 0 => /\ OnItsWay /\ eax = accepted[Popped] /\ eax \in Chars
                 /\ Popped = Len(typed) + 1 /\ Popped \in 1 .. Len(accepted)
  BY <1>1, NextCharacter DEF OnItsWay, RegisterInv, Popped
<1>3. Popped' = Popped /\ InRing' = InRing
  <2>1. ~OnItsWay'
    BY <1>1 DEF OnItsWay
  <2>2. Len(typed') = Popped
    BY <1>1, <1>2 DEF TypedInv, Popped, OnItsWay
  <2>. QED
    BY <1>1, <2>1, <2>2 DEF Popped, InRing, TypedInv
<1>4. RingInv'
  BY <1>1, <1>3 DEF RingInv
<1>5. TypedInv'
  <2>1. CASE eax = 0
    BY <1>1, <2>1 DEF TypedInv
  <2>2. CASE eax # 0
    BY <1>1, <1>2, <2>2 DEF TypedInv
  <2>. QED
    BY <2>1, <2>2
<1>6. RegisterInv'
  BY <1>1 DEF RegisterInv
<1>. QED
  BY <1>4, <1>5, <1>6

LEMMA BufferStep ==
    ASSUME KeyBufferAssumption, StubRestoresAL, BufferInv, [Next]_vars PROVE BufferInv'
<1>1. CASE \E ch \in Chars : Press(ch)
  BY <1>1, PressInv
<1>2. CASE Release
  BY <1>2, ReleaseInv
<1>3. CASE Shell
  <2>1. RingInv' /\ TypedInv' /\ RegisterInv'
    BY <1>3, LoadInv, StoreTailInv, ReturnInv DEF Shell, Returns
  <2>. QED
    BY <1>3, <2>1, ShellRange DEF BufferInv
<1>4. CASE UNCHANGED vars
  <2>1. /\ UNCHANGED <<key_buffer, key_buf_head, key_buf_tail, accepted, typed>>
        /\ UNCHANGED <<pc, eax, edx, c>>
    BY <1>4 DEF vars, ring, history
  <2>2. RingInv' /\ TypedInv' /\ Popped' = Popped /\ InRing' = InRing
    BY <2>1, QuietStep DEF BufferInv, OnItsWay
  <2>3. RegisterInv'
    BY <2>1, <2>2 DEF BufferInv, RegisterInv, Successor
  <2>. QED
    BY <1>4, <2>2, <2>3, RangeStep DEF BufferInv
<1>. QED
  BY <1>1, <1>2, <1>3, <1>4 DEF Next

\* If the stub restores al, at each instruction of key_buffer_pop and wherever
\* the interrupt falls, the ring holds what was accepted and not yet popped.
THEOREM KeyBufferInvariant == StubRestoresAL /\ Spec => []BufferInv
<1>. SUFFICES ASSUME StubRestoresAL PROVE Spec => []BufferInv
  OBVIOUS
<1>1. Init => BufferInv
  <2>. SUFFICES ASSUME Init PROVE BufferInv
    OBVIOUS
  <2>1. RangeInv
    BY KeyBufferAssumption, RangeInit
  <2>2. Popped = 0 /\ InRing = 0
    BY DEF Init, Popped, InRing, OnItsWay
  <2>3. RingInv /\ TypedInv /\ RegisterInv
    BY <2>2, KeyBufferAssumption
    DEF Init, RingInv, TypedInv, RegisterInv, Wrap
  <2>. QED
    BY <2>1, <2>3 DEF BufferInv
<1>2. BufferInv /\ [Next]_vars => BufferInv'
  BY KeyBufferAssumption, BufferStep
<1>. QED
  BY <1>1, <1>2, PTL DEF Spec

\* ps2.c:43-44 and 63-96: the indices are unsigned and below KEY_BUFFER_SIZE, what
\* is popped is a character or 0, and the loops nest.
THEOREM KeyBufferTypes == StubRestoresAL /\ Spec => []KeyTypeOK
<1>1. BufferInv => KeyTypeOK
  BY KeyBufferAssumption DEF BufferInv, RangeInv, RegisterInv, KeyTypeOK
<1>. QED
  BY <1>1, KeyBufferInvariant, PTL

\* ps2.h:16-17: the shell has got a prefix of what went into the buffer.
THEOREM KeyNothingInvented == StubRestoresAL /\ Spec => []NothingInvented
<1>1. BufferInv => NothingInvented
  <2>. SUFFICES ASSUME TypedInv, RangeInv PROVE NothingInvented
    BY DEF BufferInv
  <2>1. /\ typed \in Seq(Chars) /\ accepted \in Seq(Chars)
        /\ Len(typed) \in Nat /\ Len(accepted) \in Nat /\ Len(typed) <= Len(accepted)
    BY DEF TypedInv, RangeInv
  <2>2. SubSeq(typed, 1, Len(typed)) = SubSeq(accepted, 1, Len(typed))
    BY <2>1 DEF TypedInv
  <2>. QED
    BY <2>1, <2>2 DEF NothingInvented, IsPrefix
<1>. QED
  BY <1>1, KeyBufferInvariant, PTL

\* A press is accepted, or dropped when the ring is full; the return of a
\* character delivers the next one; nothing else is seen.
LEMMA StepInOrder ==
    ASSUME KeyBufferAssumption, StubRestoresAL, BufferInv, [Next]_vars
    PROVE  [Stream!Next]_Stream!vars
<1>. USE DEF BufferInv
<1>0. /\ Len(accepted) \in Nat /\ Len(typed) \in Nat /\ Size \in Nat
      /\ Popped \in {Len(typed), Len(typed) + 1} /\ InRing = Len(accepted) - Popped
  BY DEF RangeInv, TypedInv, Popped, InRing, KeyBufferAssumption
<1>1. ASSUME NEW ch \in Chars, Press(ch) PROVE Stream!Next
  <2>1. CASE Full
    <3>1. Stream!Waiting >= Size - 1
      BY <1>0, <2>1, RingCount DEF Stream!Waiting
    <3>2. lost' = lost + 1 /\ UNCHANGED <<accepted, typed>>
      BY <1>1, <2>1 DEF Press
    <3>. QED
      BY <3>1, <3>2 DEF Stream!Next, Stream!Lose
  <2>2. CASE ~Full
    <3>1. InRing \in 0 .. Size - 2
      BY <1>0, <2>2, RingCount DEF RingInv
    <3>2. Stream!Waiting <= Size - 1
      BY <1>0, <3>1 DEF Stream!Waiting
    <3>3. accepted' = Append(accepted, ch) /\ UNCHANGED <<typed, lost>>
      BY <1>1, <2>2 DEF Press
    <3>. QED
      BY <3>2, <3>3 DEF Stream!Next, Stream!Accept
  <2>. QED
    BY <2>1, <2>2
<1>2. ASSUME Returns PROVE Stream!Next \/ UNCHANGED Stream!vars
  <2>1. CASE eax = 0
    BY <1>2, <2>1, ReturnsTake DEF Got, Stream!vars
  <2>2. CASE eax # 0
    <3>1. eax = accepted[Len(typed) + 1] /\ Len(typed) < Len(accepted)
      BY <1>0, <1>2, <2>2, ReturnsTake, NextCharacter DEF RegisterInv, OnItsWay, Popped
    <3>. QED
      BY <1>0, <1>2, <2>2, <3>1, ReturnsTake
      DEF Got, Stream!Next, Stream!Deliver, Stream!Waiting
  <2>. QED
    BY <2>1, <2>2
<1>3. ASSUME Release \/ UNCHANGED vars PROVE UNCHANGED Stream!vars
  BY <1>3 DEF Release, vars, history, Stream!vars
<1>4. ASSUME Shell, ~Returns PROVE UNCHANGED Stream!vars
  BY <1>4 DEF Shell, Returns, LoadTail, LoadHead, Compare, LoadNone, Halt, LoadIndex,
              LoadChar, SaveChar, LoadTailAgain, Advance, StoreTail, LoadResult, history,
              Stream!vars
<1>. QED
  BY <1>1, <1>2, <1>3, <1>4 DEF Next

\* ps2.h:16-17, ps2.c:69-71: the buffer is a queue of KEY_BUFFER_SIZE - 1
\* characters, wherever the interrupt falls between the shell's instructions.
THEOREM KeyBufferIsAQueue == StubRestoresAL /\ Spec => InOrder
<1>. SUFFICES ASSUME StubRestoresAL PROVE Spec => InOrder
  OBVIOUS
<1>1. Init => Stream!Init
  BY DEF Init, Stream!Init
<1>2. BufferInv /\ [Next]_vars => [Stream!Next]_Stream!vars
  BY KeyBufferAssumption, StepInOrder
<1>. QED
  BY <1>1, <1>2, KeyBufferInvariant, PTL DEF Spec, InOrder, Stream!Spec

================================================================================
