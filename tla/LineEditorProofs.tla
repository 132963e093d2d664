---------------------------- MODULE LineEditorProofs ----------------------------
(****************************************************************************)
(* Proofs about LineEditor, for every size of the line, of the history and  *)
(* of the screen: the arrays always hold terminated strings where strings   *)
(* are read; the line and the ring of arrays behave as Session, the editor  *)
(* and memory its user is promised; and the screen shows the line.          *)
(****************************************************************************)
EXTENDS LineEditor, TLAPS, NaturalsInduction, WellFoundedInduction

\* The string in s has n characters, and its terminator stands in s.
Ends(s, n) ==
    n \in Cells /\ s[n] = NUL /\ \A k \in 0 .. n - 1 : s[k] # NUL

Closed(s) == \E n : Ends(s, n)

\* The line being edited has no terminator before its end, what can be recalled
\* has one in every slot, and so has the line that was kept.
LineInv ==
    /\ shell_buffer \in Strings /\ idx \in Cells
    /\ \A k \in 0 .. idx - 1 : shell_buffer[k] # NUL

RingInv ==
    /\ history \in [0 .. HistorySize - 1 -> Strings]
    /\ history_count \in 0 .. HistorySize
    /\ history_next \in 0 .. HistorySize - 1
    /\ \A back \in 0 .. history_count - 1 : Closed(history[Slot(back)])

BrowseInv ==
    /\ saved_current \in Strings
    /\ history_browse_index \in -1 .. history_count - 1
    /\ history_browse_index >= 0 => Closed(saved_current)

EditorInv == LineInv /\ RingInv /\ BrowseInv

--------------------------------------------------------------------------------
\* Strings in arrays.

LEMMA TextIs ==
    ASSUME LineEditorAssumption, NEW s \in Strings, NEW n, Ends(s, n)
    PROVE  /\ Text(s) = [k \in 1 .. n |-> s[k - 1]]
           /\ Text(s) \in Seq(Chars) /\ Len(Text(s)) = n /\ n \in 0 .. BufferSize - 1
<1>1. BufferSize \in Nat /\ BufferSize >= 2 /\ n \in 0 .. BufferSize - 1 /\ n \in Nat
  BY DEF LineEditorAssumption, Ends, Cells
<1>. DEFINE End(m) == m = BufferSize \/ s[m] = NUL
            First(m) == m \in 0 .. BufferSize /\ End(m) /\ \A k \in 0 .. m - 1 : ~End(k)
<1>2. First(n)
  BY <1>1 DEF Ends
<1>3. ASSUME NEW m, First(m) PROVE m = n
  <2>1. m \in Nat /\ m <= BufferSize
    BY <1>1, <1>3
  <2>2. ~(m < n)
    <3>1. ASSUME m < n PROVE FALSE
      <4>1. m \in 0 .. n - 1 /\ m # BufferSize
        BY <1>1, <2>1, <3>1
      <4>. QED
        BY <1>3, <4>1 DEF Ends
    <3>. QED
      BY <3>1
  <2>3. ~(n < m)
    <3>1. ASSUME n < m PROVE FALSE
      <4>1. n \in 0 .. m - 1
        BY <1>1, <2>1, <3>1
      <4>. QED
        BY <1>2, <1>3, <4>1
    <3>. QED
      BY <3>1
  <2>. QED
    BY <1>1, <2>1, <2>2, <2>3
<1>4. (CHOOSE m \in 0 .. BufferSize : End(m) /\ \A k \in 0 .. m - 1 : ~End(k)) = n
  BY <1>2, <1>3
<1>5. Text(s) = [k \in 1 .. n |-> s[k - 1]]
  BY <1>4 DEF Text
<1>6. \A k \in 1 .. n : s[k - 1] \in Chars
  BY <1>1 DEF Ends, Strings, Cells
<1>. QED
  BY <1>1, <1>5, <1>6

\* A text that is copied into an array can be read back from it, whatever stood
\* there before.
LEMMA HoldingText ==
    ASSUME LineEditorAssumption, NEW s \in Strings, NEW text \in Seq(Chars),
           Len(text) < BufferSize, NEW h, h = Holding(s, text)
    PROVE  h \in Strings /\ Ends(h, Len(text)) /\ Closed(h) /\ Text(h) = text
<1>1. PICK n : n = Len(text)
  OBVIOUS
<1>2. /\ BufferSize \in Nat /\ n \in Nat /\ n < BufferSize /\ NUL \notin Chars
      /\ \A k \in 1 .. n : text[k] \in Chars
  BY <1>1 DEF LineEditorAssumption
<1>3. \A k \in Cells : h[k] = IF k < n THEN text[k + 1] ELSE IF k = n THEN NUL ELSE s[k]
  BY <1>1, Zenon DEF Holding
<1>4. \A k \in Cells : k < n => k + 1 \in 1 .. n
  BY <1>2 DEF Cells
<1>5. h \in Strings
  <2>1. \A k \in Cells : s[k] \in Chars \cup {NUL}
    BY DEF Strings
  <2>2. \A k \in Cells : h[k] \in Chars \cup {NUL}
    BY ONLY <1>2, <1>3, <1>4, <2>1
  <2>3. h = [k \in Cells |-> h[k]]
    BY DEF Holding
  <2>. QED
    BY ONLY <2>2, <2>3 DEF Strings
<1>6. Ends(h, n)
  <2>1. n \in Cells /\ \A k \in 0 .. n - 1 : k \in Cells /\ k < n
    BY <1>2 DEF Cells
  <2>2. h[n] = NUL
    BY <1>2, <1>3, <2>1
  <2>3. \A k \in 0 .. n - 1 : h[k] # NUL
    BY ONLY <1>2, <1>3, <1>4, <2>1
  <2>. QED
    BY <2>1, <2>2, <2>3 DEF Ends
<1>7. Text(h) = [k \in 1 .. n |-> h[k - 1]]
  BY <1>5, <1>6, TextIs
<1>8. \A k \in 1 .. n : h[k - 1] = text[k]
  <2>1. \A k \in 1 .. n : k - 1 \in Cells /\ k - 1 < n /\ (k - 1) + 1 = k
    BY <1>2 DEF Cells
  <2>. QED
    BY ONLY <1>3, <2>1, Zenon
<1>9. Text(h) = text
  BY <1>1, <1>7, <1>8
<1>. QED
  BY <1>1, <1>5, <1>6, <1>9 DEF Closed

--------------------------------------------------------------------------------
\* The ring of lines.

LEMMA Wrapped ==
    ASSUME NEW m \in Nat, m >= 1, NEW x \in Nat, x < 2 * m
    PROVE  x % m = IF x < m THEN x ELSE x - m
<1>1. CASE x < m
  BY <1>1
<1>2. CASE x >= m
  <2>1. PICK q, r : q = x \div m /\ r = x % m
    OBVIOUS
  <2>2. r \in 0 .. m - 1 /\ x = m * q + r /\ q \in Int
    BY <2>1
  <2>3. ~(q >= 2)
    <3>1. ASSUME q >= 2 PROVE FALSE
      <4>1. m * q >= m * 2
        BY <2>2, <3>1
      <4>. QED
        BY <2>2, <4>1
    <3>. QED
      BY <3>1
  <2>4. ~(q <= 0)
    <3>1. ASSUME q <= 0 PROVE FALSE
      <4>1. m * q <= 0
        BY <2>2, <3>1
      <4>. QED
        BY <1>2, <2>2, <4>1
    <3>. QED
      BY <3>1
  <2>5. q = 1
    BY <2>2, <2>3, <2>4
  <2>. QED
    BY <1>2, <2>1, <2>2, <2>5
<1>. QED
  BY <1>1, <1>2

LEMMA SlotIs ==
    ASSUME LineEditorAssumption, NEW next \in 0 .. HistorySize - 1,
           NEW back \in 0 .. HistorySize - 1
    PROVE  (next + HistorySize - 1 - back) % HistorySize =
               IF back < next THEN next - 1 - back ELSE next + HistorySize - 1 - back
<1>1. HistorySize \in Nat /\ HistorySize >= 1
  BY DEF LineEditorAssumption
<1>2. PICK x : x = next + HistorySize - 1 - back
  OBVIOUS
<1>3. x \in Nat /\ x < 2 * HistorySize
  BY <1>1, <1>2
<1>4. x % HistorySize = IF x < HistorySize THEN x ELSE x - HistorySize
  BY <1>1, <1>3, Wrapped
<1>. QED
  BY <1>1, <1>2, <1>4

LEMMA SlotInRing ==
    ASSUME LineEditorAssumption, EditorInv, NEW back \in 0 .. history_count - 1
    PROVE  back \in 0 .. HistorySize - 1 /\ Slot(back) \in 0 .. HistorySize - 1
<1>1. HistorySize \in Nat /\ HistorySize >= 1
  BY DEF LineEditorAssumption
<1>2. history_next \in 0 .. HistorySize - 1 /\ back \in 0 .. HistorySize - 1
  BY <1>1 DEF EditorInv, LineInv, RingInv, BrowseInv
<1>3. Slot(back) = IF back < history_next THEN history_next - 1 - back
                   ELSE history_next + HistorySize - 1 - back
  BY <1>2, SlotIs DEF Slot
<1>. QED
  BY <1>1, <1>2, <1>3

LEMMA RecalledText ==
    ASSUME LineEditorAssumption, EditorInv, NEW back \in 0 .. history_count - 1
    PROVE  HistoryGet(back) \in Seq(Chars) /\ Len(HistoryGet(back)) < BufferSize
<1>1. Slot(back) \in 0 .. HistorySize - 1
  BY SlotInRing
<1>2. history[Slot(back)] \in Strings /\ Closed(history[Slot(back)])
  BY <1>1 DEF EditorInv, LineInv, RingInv, BrowseInv
<1>3. PICK n : Ends(history[Slot(back)], n)
  BY <1>2, Zenon DEF Closed
<1>4. PICK s : s = history[Slot(back)]
  OBVIOUS
<1>5. Text(s) \in Seq(Chars) /\ Len(Text(s)) = n /\ n \in 0 .. BufferSize - 1
  BY <1>2, <1>3, <1>4, TextIs
<1>6. BufferSize \in Nat
  BY DEF LineEditorAssumption
<1>7. HistoryGet(back) = Text(s)
  BY <1>4, Zenon DEF HistoryGet
<1>. QED
  BY <1>5, <1>6, <1>7

\* A command that is stored comes first, and those before it one place later;
\* the oldest gives up its slot when the ring is full.
LEMMA StoredLine ==
    ASSUME LineEditorAssumption, EditorInv, NEW text \in Seq(Chars), text # <<>>,
           Len(text) < BufferSize, HistoryAdd(text)
    PROVE  /\ history' \in [0 .. HistorySize - 1 -> Strings]
           /\ history_count' \in 0 .. HistorySize
           /\ history_count' = IF history_count < HistorySize
                                 THEN history_count + 1 ELSE HistorySize
           /\ history_next' \in 0 .. HistorySize - 1
           /\ \A back \in 0 .. history_count' - 1 :
                /\ Closed(history'[Slot(back)'])
                /\ HistoryGet(back)' = IF back = 0 THEN text ELSE HistoryGet(back - 1)
<1>1. /\ HistorySize \in Nat /\ HistorySize >= 1 /\ history_next \in 0 .. HistorySize - 1
      /\ history_count \in 0 .. HistorySize /\ history \in [0 .. HistorySize - 1 -> Strings]
  BY DEF LineEditorAssumption, EditorInv, LineInv, RingInv, BrowseInv
<1>2. /\ history' = [history EXCEPT ![history_next] = Holding(history[history_next], text)]
      /\ history_next' = (history_next + 1) % HistorySize
      /\ history_count' = IF history_count < HistorySize
                            THEN history_count + 1 ELSE history_count
  BY Zenon DEF HistoryAdd
<1>3. history_next' = IF history_next + 1 < HistorySize THEN history_next + 1 ELSE 0
  <2>1. PICK x : x = history_next + 1
    OBVIOUS
  <2>2. x \in Nat /\ x < 2 * HistorySize
    BY <1>1, <2>1
  <2>3. x % HistorySize = IF x < HistorySize THEN x ELSE x - HistorySize
    BY <1>1, <2>2, Wrapped
  <2>. QED
    BY <1>1, <1>2, <2>1, <2>3
<1>4. history_next' \in 0 .. HistorySize - 1
  BY <1>1, <1>3
<1>5. PICK new, slot : new = Holding(history[history_next], text) /\ slot = history_next
  OBVIOUS
<1>6. new \in Strings /\ Closed(new) /\ Text(new) = text
  <2>1. PICK old : old = history[history_next]
    OBVIOUS
  <2>2. old \in Strings
    BY <1>1, <2>1
  <2>. QED
    BY <1>5, <2>1, <2>2, HoldingText
<1>7. /\ history' \in [0 .. HistorySize - 1 -> Strings] /\ history'[slot] = new
      /\ \A k \in 0 .. HistorySize - 1 : k # slot => history'[k] = history[k]
  BY <1>1, <1>2, <1>5, <1>6
<1>8. history_count' = IF history_count < HistorySize THEN history_count + 1 ELSE HistorySize
  BY <1>1, <1>2
<1>9. \A back \in 0 .. HistorySize - 1 :
        Slot(back)' = IF back < history_next' THEN history_next' - 1 - back
                      ELSE history_next' + HistorySize - 1 - back
  <2>1. PICK n : n = history_next'
    OBVIOUS
  <2>2. n \in 0 .. HistorySize - 1
    BY <1>4, <2>1
  <2>3. \A back \in 0 .. HistorySize - 1 :
          (n + HistorySize - 1 - back) % HistorySize =
              IF back < n THEN n - 1 - back ELSE n + HistorySize - 1 - back
    BY <2>2, SlotIs
  <2>. QED
    BY <2>1, <2>3 DEF Slot
<1>10. \A back \in 0 .. HistorySize - 1 :
        Slot(back) = IF back < slot THEN slot - 1 - back
                     ELSE slot + HistorySize - 1 - back
  BY <1>1, <1>5, SlotIs DEF Slot
<1>11. Slot(0)' = slot
  BY <1>1, <1>3, <1>5, <1>9
<1>12. ASSUME NEW back \in 1 .. HistorySize - 1
       PROVE  /\ back - 1 \in 0 .. HistorySize - 1 /\ Slot(back)' = Slot(back - 1)
              /\ Slot(back - 1) # slot /\ Slot(back - 1) \in 0 .. HistorySize - 1
  <2>1. back - 1 \in 0 .. HistorySize - 1 /\ back \in 0 .. HistorySize - 1
    BY <1>1
  <2>2. Slot(back - 1) = IF back - 1 < slot THEN slot - 1 - (back - 1)
                         ELSE slot + HistorySize - 1 - (back - 1)
    BY ONLY <1>10, <2>1, Zenon
  <2>3. Slot(back)' = IF back < history_next' THEN history_next' - 1 - back
                      ELSE history_next' + HistorySize - 1 - back
    BY ONLY <1>9, <2>1, Zenon
  <2>. QED
    BY <1>1, <1>3, <1>5, <2>1, <2>2, <2>3
<1>13. ASSUME NEW back \in 0 .. history_count' - 1
       PROVE  /\ Closed(history'[Slot(back)'])
              /\ HistoryGet(back)' = IF back = 0 THEN text ELSE HistoryGet(back - 1)
  <2>0. HistoryGet(back)' = Text(history'[Slot(back)'])
    BY Zenon DEF HistoryGet, Text
  <2>1. CASE back = 0
    BY ONLY <1>6, <1>7, <1>11, <2>0, <2>1, Zenon
  <2>2. CASE back # 0
    <3>1. back \in 1 .. HistorySize - 1 /\ back - 1 \in 0 .. history_count - 1
      BY <1>1, <1>8, <2>2
    <3>2. history'[Slot(back)'] = history[Slot(back - 1)]
      BY ONLY <1>7, <1>12, <3>1, Zenon
    <3>3. Closed(history[Slot(back - 1)])
      BY <3>1, Zenon DEF EditorInv, LineInv, RingInv, BrowseInv
    <3>4. HistoryGet(back - 1) = Text(history[Slot(back - 1)])
      BY Zenon DEF HistoryGet
    <3>. QED
      BY ONLY <2>0, <2>2, <3>2, <3>3, <3>4, Zenon
  <2>. QED
    BY <2>1, <2>2
<1>14. history_count' \in 0 .. HistorySize
  BY <1>1, <1>8
<1>. QED
  BY ONLY <1>4, <1>7, <1>8, <1>13, <1>14, Zenon

LEMMA SamePast ==
    ASSUME UNCHANGED ring
    PROVE  Past' = Past /\ \A back : HistoryGet(back)' = HistoryGet(back)
                                     /\ Slot(back)' = Slot(back)
<1>1. history' = history /\ history_count' = history_count /\ history_next' = history_next
  BY DEF ring
<1>2. ASSUME NEW back PROVE HistoryGet(back)' = HistoryGet(back) /\ Slot(back)' = Slot(back)
  <2>1. HistoryGet(back)' = Text(history'[Slot(back)'])
    BY Zenon DEF HistoryGet, Text
  <2>2. Slot(back)' = Slot(back)
    BY <1>1, Zenon DEF Slot
  <2>. QED
    BY <1>1, <2>1, <2>2, Zenon DEF HistoryGet
<1>3. Past' = [n \in 1 .. history_count' |-> HistoryGet(n - 1)']
  BY Zenon DEF Past
<1>. QED
  BY <1>1, <1>2, <1>3, Zenon DEF Past

LEMMA StoredPast ==
    ASSUME LineEditorAssumption, EditorInv, NEW text \in Seq(Chars),
           Len(text) < BufferSize, HistoryAdd(text)
    PROVE  Past' = IF text = <<>> THEN Past
                   ELSE SubSeq(<<text>> \o Past, 1,
                               IF Len(Past) < HistorySize THEN Len(Past) + 1 ELSE HistorySize)
<1>1. CASE text = <<>>
  <2>1. UNCHANGED ring
    BY <1>1, Zenon DEF HistoryAdd
  <2>3. Past' = Past
    BY <2>1, SamePast
  <2>. QED
    BY <1>1, <2>3
<1>2. CASE text # <<>>
  <2>1. PICK c, d : c = history_count /\ d = history_count'
    OBVIOUS
  <2>2. /\ c \in 0 .. HistorySize /\ HistorySize \in Nat /\ HistorySize >= 1
        /\ d = IF c < HistorySize THEN c + 1 ELSE HistorySize
        /\ \A back \in 0 .. d - 1 :
              HistoryGet(back)' = IF back = 0 THEN text ELSE HistoryGet(back - 1)
    BY <1>2, <2>1, StoredLine DEF EditorInv, LineInv, RingInv, BrowseInv, LineEditorAssumption
  <2>3. Past = [n \in 1 .. c |-> HistoryGet(n - 1)] /\ Past \in Seq(Seq(Chars)) /\ Len(Past) = c
    <3>1. \A n \in 1 .. c : HistoryGet(n - 1) \in Seq(Chars)
      <4>1. \A n \in 1 .. c : n - 1 \in 0 .. history_count - 1
        BY <2>1, <2>2
      <4>. QED
        BY <4>1, RecalledText
    <3>2. Past = [n \in 1 .. c |-> HistoryGet(n - 1)]
      BY <2>1 DEF Past
    <3>. QED
      BY <2>2, <3>1, <3>2
  <2>4. Past' = [n \in 1 .. d |-> IF n = 1 THEN text ELSE HistoryGet(n - 2)]
    <3>1. Past' = [n \in 1 .. d |-> HistoryGet(n - 1)']
      BY <2>1, Zenon DEF Past
    <3>2. ASSUME NEW n \in 1 .. d
          PROVE  HistoryGet(n - 1)' = IF n = 1 THEN text ELSE HistoryGet(n - 2)
      <4>1. PICK back : back = n - 1
        OBVIOUS
      <4>2. back \in 0 .. d - 1 /\ back - 1 = n - 2 /\ (back = 0 <=> n = 1)
        BY <2>2, <4>1
      <4>. QED
        BY ONLY <2>2, <4>1, <4>2, Zenon
    <3>. QED
      BY ONLY <3>1, <3>2, Zenon
  <2>5. PICK all : all = <<text>> \o Past
    OBVIOUS
  <2>6. /\ Len(all) = c + 1 /\ all \in Seq(Seq(Chars)) /\ all[1] = text
        /\ \A n \in 2 .. c + 1 : all[n] = Past[n - 1]
    BY <2>2, <2>3, <2>5
  <2>7. \A n \in 2 .. c + 1 : all[n] = HistoryGet(n - 2)
    <3>1. \A n \in 2 .. c + 1 : n - 1 \in 1 .. c /\ (n - 1) - 1 = n - 2
      BY <2>2
    <3>. QED
      BY ONLY <2>3, <2>6, <3>1, Zenon
  <2>8. /\ d \in Nat /\ d >= 1 /\ d <= c + 1
        /\ \A n \in 1 .. d : n # 1 => n \in 2 .. c + 1
    BY <2>2
  <2>9. SubSeq(all, 1, d) = [n \in 1 .. d |-> all[n]]
    BY <2>2, <2>6, <2>8
  <2>10. SubSeq(all, 1, d) = Past'
    BY ONLY <2>4, <2>6, <2>7, <2>8, <2>9
  <2>. QED
    BY ONLY <1>2, <2>2, <2>3, <2>5, <2>10, Zenon
<1>. QED
  BY <1>1, <1>2

--------------------------------------------------------------------------------
\* The line.

LEMMA LineText ==
    ASSUME LineEditorAssumption, EditorInv
    PROVE  /\ Line \in Seq(Chars) /\ Len(Line) = idx
           /\ Terminated \in Strings /\ Text(Terminated) = Line
           /\ Len(Line) < BufferSize
<1>1. /\ shell_buffer \in Strings /\ idx \in Cells /\ \A k \in 0 .. idx - 1 : shell_buffer[k] # NUL
      /\ BufferSize \in Nat /\ BufferSize >= 2
  BY DEF EditorInv, LineInv, RingInv, BrowseInv, LineEditorAssumption
<1>2. Terminated \in Strings /\ Terminated[idx] = NUL
      /\ \A k \in Cells : k # idx => Terminated[k] = shell_buffer[k]
  BY <1>1 DEF Terminated, Strings
<1>3. idx \in Nat /\ idx < BufferSize /\ \A k \in 0 .. idx - 1 : k \in Cells /\ k # idx
  BY <1>1 DEF Cells
<1>4. Ends(Terminated, idx)
  BY <1>1, <1>2, <1>3, Zenon DEF Ends
<1>5. /\ Text(Terminated) = [k \in 1 .. idx |-> Terminated[k - 1]]
      /\ Text(Terminated) \in Seq(Chars) /\ Len(Text(Terminated)) = idx
  BY <1>2, <1>4, TextIs
<1>6. \A k \in 1 .. idx : Terminated[k - 1] = shell_buffer[k - 1]
  <2>1. \A k \in 1 .. idx : k - 1 \in 0 .. idx - 1
    BY <1>3
  <2>. QED
    BY ONLY <1>2, <1>3, <2>1, Zenon
<1>7. Text(Terminated) = Line
  BY ONLY <1>5, <1>6 DEF Line
<1>. QED
  BY <1>2, <1>3, <1>5, <1>7

LEMMA BufferTyped == ASSUME EditorInv PROVE shell_buffer \in Strings
BY DEF EditorInv, LineInv

\* What redraw_line finds in shell_buffer when an older command is recalled.
LEMMA StashedLine == ASSUME LineEditorAssumption, EditorInv PROVE Stashed \in Strings
BY BufferTyped, LineText, Zenon DEF Stashed

LEMMA Redrawn ==
    ASSUME LineEditorAssumption, EditorInv, NEW text \in Seq(Chars), Len(text) < BufferSize,
           NEW s \in Strings, RedrawLine(s, text)
    PROVE  /\ shell_buffer' \in Strings /\ idx' \in Cells
           /\ \A k \in 0 .. idx' - 1 : shell_buffer'[k] # NUL
           /\ Line' = text
<1>1. shell_buffer' = Holding(s, text) /\ idx' = Len(text)
  BY Zenon DEF RedrawLine
<1>2. s \in Strings
  OBVIOUS
<1>3. /\ shell_buffer' \in Strings /\ Ends(shell_buffer', Len(text))
      /\ Text(shell_buffer') = text
  BY <1>1, <1>2, HoldingText
<1>4. Text(shell_buffer') = [k \in 1 .. Len(text) |-> shell_buffer'[k - 1]]
  BY <1>3, TextIs
<1>5. Line' = text
  BY ONLY <1>1, <1>3, <1>4, Zenon DEF Line
<1>6. idx' \in Cells /\ \A k \in 0 .. idx' - 1 : shell_buffer'[k] # NUL
  BY ONLY <1>1, <1>3, Zenon DEF Ends
<1>. QED
  BY <1>3, <1>5, <1>6

\* The line is kept in saved_current when browsing begins.
LEMMA KeptLine ==
    ASSUME LineEditorAssumption, EditorInv,
           saved_current' = IF Keeps THEN Holding(saved_current, Text(Terminated))
                                     ELSE saved_current
    PROVE  /\ saved_current' \in Strings /\ Closed(saved_current')
           /\ Text(saved_current') = IF history_browse_index = -1 THEN Line ELSE Kept
<1>1. saved_current \in Strings
  BY DEF EditorInv, LineInv, RingInv, BrowseInv
<1>2. CASE history_browse_index = -1
  <2>1. saved_current' = Holding(saved_current, Line)
    BY <1>2, LineText, Zenon DEF Keeps
  <2>. QED
    BY <1>1, <1>2, <2>1, LineText, HoldingText
<1>3. CASE history_browse_index # -1
  <2>1. saved_current' = saved_current
    BY <1>3, Zenon DEF Keeps
  <2>2. history_browse_index >= 0
    BY <1>3 DEF EditorInv, LineInv, RingInv, BrowseInv
  <2>3. Closed(saved_current)
    BY <2>2 DEF EditorInv, LineInv, RingInv, BrowseInv
  <2>4. Text(saved_current) = Kept
    BY <1>3, Zenon DEF Kept
  <2>. QED
    BY ONLY <1>1, <1>3, <2>1, <2>3, <2>4, Zenon
<1>. QED
  BY <1>2, <1>3

LEMMA SameRing ==
    ASSUME EditorInv, UNCHANGED ring
    PROVE  RingInv'
<1>1. history' = history /\ history_count' = history_count /\ history_next' = history_next
  BY DEF ring
<1>2. \A back : Slot(back)' = Slot(back)
  BY SamePast
<1>. QED
  BY <1>1, <1>2, Zenon DEF EditorInv, RingInv

--------------------------------------------------------------------------------
\* The actions: each keeps the invariant and is a step of Session, or none.

LEMMA OlderStep ==
    ASSUME LineEditorAssumption, EditorInv, RecallOlder
    PROVE  EditorInv' /\ User!Older
<1>1. PICK n : n = history_browse_index + 1
  OBVIOUS
<1>2. /\ n < history_count /\ history_browse_index' = n /\ RedrawLine(Stashed, HistoryGet(n))
      /\ UNCHANGED ring /\ ran' = ran
      /\ saved_current' = IF Keeps THEN Holding(saved_current, Text(Terminated))
                                   ELSE saved_current
  BY <1>1, Zenon DEF RecallOlder
<1>3. history_browse_index \in -1 .. history_count - 1 /\ history_count \in Nat
  BY DEF EditorInv, RingInv, BrowseInv
<1>4. n \in 0 .. history_count - 1 /\ n + 1 \in 1 .. history_count
  BY <1>1, <1>2, <1>3
<1>5. /\ LineInv' /\ Line' = HistoryGet(n)
  <2>1. HistoryGet(n) \in Seq(Chars) /\ Len(HistoryGet(n)) < BufferSize
    BY <1>4, RecalledText
  <2>2. PICK text : text = HistoryGet(n)
    OBVIOUS
  <2>3. /\ shell_buffer' \in Strings /\ idx' \in Cells
        /\ \A k \in 0 .. idx' - 1 : shell_buffer'[k] # NUL
        /\ Line' = text
    BY <1>2, <2>1, <2>2, StashedLine, Redrawn
  <2>. QED
    BY <2>2, <2>3, Zenon DEF LineInv
<1>6. /\ saved_current' \in Strings /\ Closed(saved_current')
      /\ Text(saved_current') = IF history_browse_index = -1 THEN Line ELSE Kept
  BY <1>2, KeptLine
<1>7. history_count' = history_count /\ Past' = Past
  BY <1>2, SamePast DEF ring
<1>8. BrowseInv'
  <2>1. Closed(saved_current)'
    BY <1>6, Zenon DEF Closed, Ends
  <2>. QED
    BY <1>2, <1>4, <1>6, <1>7, <2>1 DEF BrowseInv
<1>9. EditorInv'
  BY <1>2, <1>5, <1>8, SameRing, Zenon DEF EditorInv
<1>10. Len(Past) = history_count /\ Past[n + 1] = HistoryGet(n)
  BY <1>3, <1>4 DEF Past
<1>11. Kept' = IF n = 0 THEN Line ELSE Kept
  <2>1. n # -1 /\ (n = 0 <=> history_browse_index = -1)
    BY <1>1, <1>3, <1>4
  <2>2. Kept' = IF n = -1 THEN <<>> ELSE Text(saved_current)'
    BY <1>2, Zenon DEF Kept
  <2>3. Text(saved_current)' = Text(saved_current')
    BY Zenon DEF Text
  <2>. QED
    BY ONLY <1>6, <2>1, <2>2, <2>3, Zenon
<1>12. User!Older
  BY ONLY <1>1, <1>2, <1>5, <1>7, <1>10, <1>11, Zenon DEF User!Older
<1>. QED
  BY <1>9, <1>12

LEMMA NoOlderStep ==
    ASSUME LineEditorAssumption, EditorInv, NothingOlder
    PROVE  EditorInv' /\ UNCHANGED User!vars
<1>1. /\ history_browse_index + 1 >= history_count
      /\ shell_buffer' = IF Keeps THEN Terminated ELSE shell_buffer
      /\ saved_current' = IF Keeps THEN Holding(saved_current, Text(Terminated))
                                   ELSE saved_current
      /\ idx' = idx /\ UNCHANGED ring /\ history_browse_index' = history_browse_index
      /\ ran' = ran
  BY Zenon DEF NothingOlder, Stashed
<1>2. /\ saved_current' \in Strings /\ Closed(saved_current')
      /\ Text(saved_current') = IF history_browse_index = -1 THEN Line ELSE Kept
  BY <1>1, KeptLine
<1>3. /\ shell_buffer' \in Strings
      /\ \A k \in 0 .. idx - 1 : shell_buffer'[k] = shell_buffer[k]
  <2>1. idx \in Cells /\ shell_buffer \in Strings
    BY DEF EditorInv, LineInv
  <2>2. \A k \in 0 .. idx - 1 : Terminated[k] = shell_buffer[k]
    BY <2>1 DEF Terminated, Cells, Strings, LineEditorAssumption
  <2>3. Terminated \in Strings
    BY LineText
  <2>. QED
    BY ONLY <1>1, <2>1, <2>2, <2>3, Zenon
<1>4. LineInv' /\ Line' = Line
  <2>1. LineInv'
    BY ONLY <1>1, <1>3, EditorInv, Zenon DEF LineInv, EditorInv
  <2>2. idx \in Nat
    BY DEF EditorInv, LineInv, Cells, LineEditorAssumption
  <2>3. \A k \in 1 .. idx : k - 1 \in 0 .. idx - 1
    BY <2>2
  <2>4. \A k \in 1 .. idx : shell_buffer'[k - 1] = shell_buffer[k - 1]
    BY ONLY <1>3, <2>3, Zenon
  <2>5. Line' = [k \in 1 .. idx |-> shell_buffer'[k - 1]]
    BY <1>1, Zenon DEF Line
  <2>6. Line' = Line
    BY ONLY <2>4, <2>5, Zenon DEF Line
  <2>. QED
    BY <2>1, <2>6
<1>5. history_count' = history_count /\ Past' = Past
  BY <1>1, SamePast DEF ring
<1>6. BrowseInv' /\ Kept' = Kept
  <2>1. Closed(saved_current)'
    BY <1>2, Zenon DEF Closed, Ends
  <2>2. Text(saved_current)' = Text(saved_current')
    BY Zenon DEF Text
  <2>3. Kept' = IF history_browse_index = -1 THEN <<>> ELSE Text(saved_current)'
    BY <1>1, Zenon DEF Kept
  <2>4. Kept' = Kept
    BY ONLY <1>2, <2>2, <2>3, Zenon DEF Kept
  <2>5. BrowseInv'
    BY <1>1, <1>2, <1>5, <2>1 DEF BrowseInv, EditorInv
  <2>. QED
    BY <2>4, <2>5
<1>7. EditorInv'
  BY <1>1, <1>4, <1>6, SameRing, Zenon DEF EditorInv
<1>8. UNCHANGED User!vars
  BY ONLY <1>1, <1>4, <1>5, <1>6 DEF User!vars
<1>. QED
  BY <1>7, <1>8

LEMMA NewerStep ==
    ASSUME LineEditorAssumption, EditorInv, RecallNewer
    PROVE  EditorInv' /\ User!Newer
<1>1. PICK n, text : /\ n = history_browse_index
                     /\ text = IF history_browse_index > 0
                                 THEN HistoryGet(history_browse_index - 1)
                                 ELSE Text(saved_current)
  OBVIOUS
<1>2. /\ n >= 0 /\ history_browse_index' = n - 1 /\ RedrawLine(shell_buffer, text)
      /\ UNCHANGED ring /\ saved_current' = saved_current /\ ran' = ran
  BY <1>1, Zenon DEF RecallNewer
<1>3. n \in -1 .. history_count - 1 /\ history_count \in Nat
  BY <1>1 DEF EditorInv, RingInv, BrowseInv
<1>4. /\ n \in Nat /\ n + 1 > 0 /\ (n + 1) - 1 = n /\ (n + 1 = 1 <=> n = 0) /\ n # -1
      /\ (n - 1) + 1 = n /\ (n > 0 <=> n # 0) /\ (n - 1 = -1 <=> n = 0)
      /\ n > 0 => n - 1 \in 0 .. history_count - 1 /\ n \in 1 .. history_count
      /\ n - 1 \in -1 .. history_count - 1
  BY <1>2, <1>3
<1>5. text = IF n = 0 THEN Text(saved_current) ELSE HistoryGet(n - 1)
  BY ONLY <1>1, <1>4, Zenon
<1>6. Closed(saved_current) /\ saved_current \in Strings
  BY <1>1, <1>2 DEF EditorInv, BrowseInv
<1>7. text \in Seq(Chars) /\ Len(text) < BufferSize
  <2>1. CASE n = 0
    <3>1. PICK m : Ends(saved_current, m)
      BY <1>6, Zenon DEF Closed
    <3>2. /\ Text(saved_current) \in Seq(Chars) /\ Len(Text(saved_current)) = m
          /\ m \in 0 .. BufferSize - 1
      BY <1>6, <3>1, TextIs
    <3>3. text = Text(saved_current)
      BY <1>5, <2>1
    <3>. QED
      BY <3>2, <3>3 DEF LineEditorAssumption
  <2>2. CASE n # 0
    <3>1. n - 1 \in 0 .. history_count - 1
      BY ONLY <1>4, <2>2, Zenon
    <3>2. HistoryGet(n - 1) \in Seq(Chars) /\ Len(HistoryGet(n - 1)) < BufferSize
      BY <3>1, RecalledText
    <3>. QED
      BY ONLY <1>5, <2>2, <3>2, Zenon
  <2>. QED
    BY <2>1, <2>2
<1>8. LineInv' /\ Line' = text
  <2>1. /\ shell_buffer' \in Strings /\ idx' \in Cells
        /\ \A k \in 0 .. idx' - 1 : shell_buffer'[k] # NUL
        /\ Line' = text
    BY <1>2, <1>7, BufferTyped, Redrawn
  <2>. QED
    BY <2>1, Zenon DEF LineInv
<1>9. history_count' = history_count /\ Past' = Past
  BY <1>2, SamePast DEF ring
<1>10. BrowseInv'
  <2>1. Closed(saved_current)'
    BY <1>2, <1>6, Zenon DEF Closed, Ends
  <2>2. saved_current' \in Strings /\ history_browse_index' \in -1 .. history_count' - 1
    BY ONLY <1>2, <1>4, <1>6, <1>9, Zenon
  <2>. QED
    BY ONLY <2>1, <2>2, Zenon DEF BrowseInv
<1>11. EditorInv'
  BY <1>2, <1>8, <1>10, SameRing, Zenon DEF EditorInv
<1>12. n # 0 => Past[n] = HistoryGet(n - 1)
  <2>1. n # 0 => n \in 1 .. history_count
    BY ONLY <1>4, Zenon
  <2>. QED
    BY ONLY <2>1, Zenon DEF Past
<1>13. Kept = Text(saved_current)
  BY ONLY <1>1, <1>4, Zenon DEF Kept
<1>14. Kept' = IF n = 0 THEN <<>> ELSE Kept
  <2>1. Text(saved_current)' = Text(saved_current)
    BY <1>2, Zenon DEF Text
  <2>2. Kept' = IF n - 1 = -1 THEN <<>> ELSE Text(saved_current)'
    BY <1>2, Zenon DEF Kept
  <2>. QED
    BY ONLY <1>4, <1>13, <2>1, <2>2, Zenon
<1>15. User!Newer
  <2>1. /\ n + 1 > 0 /\ history_browse_index' + 1 = (n + 1) - 1
    BY ONLY <1>2, <1>4, Zenon
  <2>2. IF n + 1 = 1 THEN Line' = Kept /\ Kept' = <<>>
                     ELSE Line' = Past[(n + 1) - 1] /\ Kept' = Kept
    BY ONLY <1>4, <1>5, <1>8, <1>12, <1>13, <1>14, Zenon
  <2>. QED
    BY ONLY <1>1, <1>2, <1>9, <2>1, <2>2, Zenon DEF User!Newer
<1>. QED
  BY <1>11, <1>15

LEMMA EnterStep ==
    ASSUME LineEditorAssumption, EditorInv, Enter
    PROVE  EditorInv' /\ User!Run
<1>1. /\ Line \in Seq(Chars) /\ Len(Line) = idx /\ Len(Line) < BufferSize
      /\ Terminated \in Strings /\ Text(Terminated) = Line
  BY LineText
<1>2. /\ HistoryAdd(Line) /\ ran' = Line /\ shell_buffer' = SplitArgs(Terminated)
      /\ history_browse_index' = -1 /\ idx' = 0 /\ saved_current' = saved_current
  BY <1>1, Zenon DEF Enter
<1>3. Past' = IF Line = <<>> THEN Past
              ELSE SubSeq(<<Line>> \o Past, 1,
                          IF Len(Past) < HistorySize THEN Len(Past) + 1 ELSE HistorySize)
  BY <1>1, <1>2, StoredPast
<1>4. RingInv'
  <2>1. CASE Line = <<>>
    BY <1>2, <2>1, SameRing DEF HistoryAdd
  <2>2. CASE Line # <<>>
    BY <1>1, <1>2, <2>2, StoredLine, Zenon DEF RingInv
  <2>. QED
    BY <2>1, <2>2
<1>5. LineInv' /\ Line' = <<>>
  <2>1. shell_buffer' \in Strings
    <3>1. PICK s, cut : s = Terminated /\ cut = SplitArgs(Terminated)
      OBVIOUS
    <3>2. \A k \in Cells : s[k] \in Chars \cup {NUL}
      BY <1>1, <3>1 DEF Strings
    <3>3. \A k \in Cells : cut[k] = NUL \/ cut[k] = s[k]
      BY <3>1, Zenon DEF SplitArgs
    <3>4. cut = [k \in Cells |-> cut[k]]
      BY <3>1 DEF SplitArgs
    <3>5. cut \in Strings
      BY ONLY <3>2, <3>3, <3>4 DEF Strings
    <3>. QED
      BY <1>2, <3>1, <3>5
  <2>2. 0 \in Cells /\ 0 .. 0 - 1 = {} /\ 1 .. 0 = {}
    BY DEF Cells, LineEditorAssumption
  <2>3. LineInv'
    BY ONLY <1>2, <2>1, <2>2, Zenon DEF LineInv
  <2>4. Line' = <<>>
    <3>1. Line' = [k \in 1 .. 0 |-> shell_buffer'[k - 1]]
      BY <1>2, Zenon DEF Line
    <3>. QED
      BY ONLY <3>1
  <2>. QED
    BY <2>3, <2>4
<1>6. BrowseInv' /\ Kept' = <<>>
  <2>1. history_count' \in Nat
    BY <1>4 DEF RingInv, LineEditorAssumption
  <2>2. -1 \in -1 .. history_count' - 1 /\ ~(-1 >= 0)
    <3>1. \A m \in Nat : -1 \in -1 .. m - 1
      OBVIOUS
    <3>2. ~(-1 >= 0)
      OBVIOUS
    <3>. QED
      BY ONLY <2>1, <3>1, <3>2, Zenon
  <2>. QED
    BY ONLY <1>2, <2>2, EditorInv, Zenon DEF BrowseInv, EditorInv, Kept
<1>7. history_browse_index' + 1 = 0
  BY <1>2
<1>8. User!Run
  BY ONLY <1>2, <1>3, <1>5, <1>6, <1>7, Zenon DEF User!Run
<1>. QED
  BY ONLY <1>4, <1>5, <1>6, <1>8, Zenon DEF EditorInv

LEMMA BackspaceStep ==
    ASSUME LineEditorAssumption, EditorInv, Backspace
    PROVE  EditorInv' /\ User!Erase
<1>1. /\ idx > 0 /\ idx' = idx - 1 /\ shell_buffer' = shell_buffer /\ UNCHANGED ring
      /\ history_browse_index' = history_browse_index /\ saved_current' = saved_current
      /\ ran' = ran
  BY Zenon DEF Backspace
<1>2. idx \in Nat /\ idx < BufferSize /\ BufferSize \in Nat
  BY DEF EditorInv, LineInv, Cells, LineEditorAssumption
<1>3. LineInv'
  <2>1. idx - 1 \in Cells /\ \A k \in 0 .. (idx - 1) - 1 : k \in 0 .. idx - 1
    BY <1>1, <1>2 DEF Cells
  <2>. QED
    BY ONLY <1>1, <2>1, EditorInv, Zenon DEF EditorInv, LineInv
<1>4. Line' = SubSeq(Line, 1, Len(Line) - 1) /\ Line # <<>>
  <2>1. Line \in Seq(Chars) /\ Len(Line) = idx
    BY LineText
  <2>2. PICK n : n = idx - 1
    OBVIOUS
  <2>3. n \in Nat /\ n <= idx
    BY <1>1, <1>2, <2>2
  <2>4. SubSeq(Line, 1, n) = [k \in 1 .. n |-> Line[k]]
    BY <1>2, <2>1, <2>3
  <2>5. Line' = [k \in 1 .. n |-> shell_buffer[k - 1]]
    BY <1>1, <2>2, Zenon DEF Line
  <2>6. \A k \in 1 .. n : k \in 1 .. idx
    BY <1>2, <2>3
  <2>7. \A k \in 1 .. n : Line[k] = shell_buffer[k - 1]
    BY ONLY <2>6, Zenon DEF Line
  <2>8. Line' = SubSeq(Line, 1, n)
    BY ONLY <2>4, <2>5, <2>7, Zenon
  <2>9. Line # <<>>
    BY <1>1, <2>1
  <2>. QED
    BY ONLY <2>1, <2>2, <2>8, <2>9, Zenon
<1>5. history_count' = history_count /\ Past' = Past
  BY <1>1, SamePast DEF ring
<1>6. BrowseInv' /\ Kept' = Kept
  BY ONLY <1>1, <1>5, EditorInv, Zenon DEF EditorInv, BrowseInv, Kept, Closed, Ends, Text
<1>7. EditorInv'
  BY <1>1, <1>3, <1>6, SameRing, Zenon DEF EditorInv
<1>8. User!Erase
  BY ONLY <1>1, <1>4, <1>5, <1>6, Zenon DEF User!Erase
<1>. QED
  BY <1>7, <1>8

LEMMA CharacterStep ==
    ASSUME LineEditorAssumption, EditorInv, NEW ch \in Chars, Character(ch)
    PROVE  EditorInv' /\ User!Type(ch)
<1>1. /\ idx < BufferSize - 1 /\ idx' = idx + 1
      /\ shell_buffer' = [shell_buffer EXCEPT ![idx] = ch] /\ UNCHANGED ring
      /\ history_browse_index' = history_browse_index /\ saved_current' = saved_current
      /\ ran' = ran
  BY Zenon DEF Character, Room
<1>2. idx \in Nat /\ BufferSize \in Nat /\ shell_buffer \in Strings /\ NUL \notin Chars
  BY DEF EditorInv, LineInv, Cells, LineEditorAssumption
<1>3. /\ shell_buffer' \in Strings /\ shell_buffer'[idx] = ch
      /\ \A k \in 0 .. idx - 1 : shell_buffer'[k] = shell_buffer[k]
  BY <1>1, <1>2 DEF Strings, Cells
<1>4. LineInv'
  <2>1. idx + 1 \in Cells /\ \A k \in 0 .. (idx + 1) - 1 : k = idx \/ k \in 0 .. idx - 1
    BY <1>1, <1>2 DEF Cells
  <2>2. ch # NUL /\ \A k \in 0 .. idx - 1 : shell_buffer[k] # NUL
    BY <1>2 DEF EditorInv, LineInv
  <2>. QED
    BY ONLY <1>1, <1>3, <2>1, <2>2, Zenon DEF LineInv
<1>5. Line' = Append(Line, ch) /\ Len(Line) < BufferSize - 1
  <2>1. Line \in Seq(Chars) /\ Len(Line) = idx
    BY LineText
  <2>2. PICK n : n = idx + 1
    OBVIOUS
  <2>3. \A k \in 1 .. n : (k = n /\ k - 1 = idx) \/ (k # n /\ k \in 1 .. idx /\ k - 1 \in 0 .. idx - 1)
    BY <1>2, <2>2
  <2>4. Append(Line, ch) = [k \in 1 .. n |-> IF k = n THEN ch ELSE Line[k]]
    <3>1. PICK s : s = Line
      OBVIOUS
    <3>2. s \in Seq(Chars) /\ Len(s) = idx
      BY <2>1, <3>1
    <3>3. PICK a : a = Append(s, ch)
      OBVIOUS
    <3>4. /\ a \in Seq(Chars) /\ Len(a) = n
          /\ \A k \in 1 .. n : a[k] = IF k = n THEN ch ELSE s[k]
      BY <1>2, <2>2, <3>2, <3>3
    <3>5. a = [k \in 1 .. n |-> a[k]]
      BY <3>4
    <3>. QED
      BY ONLY <3>1, <3>3, <3>4, <3>5
  <2>5. Line' = [k \in 1 .. n |-> shell_buffer'[k - 1]]
    BY <1>1, <2>2, Zenon DEF Line
  <2>6. \A k \in 1 .. idx : Line[k] = shell_buffer[k - 1]
    BY Zenon DEF Line
  <2>7. \A k \in 1 .. n : shell_buffer'[k - 1] = IF k = n THEN ch ELSE Line[k]
    BY ONLY <1>3, <2>3, <2>6, Zenon
  <2>8. Line' = Append(Line, ch)
    BY ONLY <2>4, <2>5, <2>7, Zenon
  <2>. QED
    BY <1>1, <2>1, <2>8
<1>6. history_count' = history_count /\ Past' = Past
  BY <1>1, SamePast DEF ring
<1>7. BrowseInv' /\ Kept' = Kept
  BY ONLY <1>1, <1>6, EditorInv, Zenon DEF EditorInv, BrowseInv, Kept, Closed, Ends, Text
<1>8. EditorInv'
  BY <1>1, <1>4, <1>7, SameRing, Zenon DEF EditorInv
<1>9. User!Type(ch)
  BY ONLY <1>1, <1>5, <1>6, <1>7, Zenon DEF User!Type
<1>. QED
  BY <1>8, <1>9

--------------------------------------------------------------------------------
LEMMA InitStep ==
    ASSUME LineEditorAssumption, Init
    PROVE  EditorInv /\ User!Init
<1>1. /\ shell_buffer = [k \in Cells |-> NUL] /\ idx = 0
      /\ history = [slot \in 0 .. HistorySize - 1 |-> [k \in Cells |-> NUL]]
      /\ history_count = 0 /\ history_next = 0 /\ history_browse_index = -1
      /\ saved_current = [k \in Cells |-> NUL] /\ ran = <<>>
  BY Zenon DEF Init
<1>2. 0 \in Cells /\ 0 \in 0 .. HistorySize - 1 /\ HistorySize \in Nat
  BY DEF Cells, LineEditorAssumption
<1>3. [k \in Cells |-> NUL] \in Strings
  BY DEF Strings
<1>4. LineInv
  BY <1>1, <1>2, <1>3 DEF LineInv
<1>5. RingInv
  BY <1>1, <1>2, <1>3 DEF RingInv
<1>6. BrowseInv
  BY <1>1, <1>2, <1>3 DEF BrowseInv
<1>7. Line = <<>> /\ Past = <<>> /\ Kept = <<>> /\ history_browse_index + 1 = 0
  BY <1>1 DEF Line, Past, Kept
<1>. QED
  BY ONLY <1>1, <1>4, <1>5, <1>6, <1>7, Zenon DEF EditorInv, User!Init

LEMMA EditorStep ==
    ASSUME LineEditorAssumption, EditorInv, [Next]_vars
    PROVE  EditorInv' /\ [User!Next]_(User!vars)
<1>1. CASE RecallOlder
  BY <1>1, OlderStep, Zenon DEF User!Next
<1>2. CASE NothingOlder
  BY <1>2, NoOlderStep, Zenon
<1>3. CASE RecallNewer
  BY <1>3, NewerStep, Zenon DEF User!Next
<1>4. CASE Enter
  BY <1>4, EnterStep, Zenon DEF User!Next
<1>5. CASE Backspace
  BY <1>5, BackspaceStep, Zenon DEF User!Next
<1>6. ASSUME NEW ch \in Chars, Character(ch) PROVE EditorInv' /\ [User!Next]_(User!vars)
  BY <1>6, CharacterStep, Zenon DEF User!Next
<1>7. CASE UNCHANGED vars
  <2>1. /\ shell_buffer' = shell_buffer /\ idx' = idx /\ UNCHANGED ring /\ ran' = ran
        /\ history_browse_index' = history_browse_index /\ saved_current' = saved_current
    BY <1>7 DEF vars
  <2>2. history_count' = history_count /\ Past' = Past
    BY <2>1, SamePast DEF ring
  <2>3. BrowseInv' /\ Kept' = Kept /\ Line' = Line /\ LineInv'
    BY ONLY <2>1, <2>2, EditorInv, Zenon
       DEF EditorInv, BrowseInv, Kept, Closed, Ends, Text, Line, LineInv
  <2>4. EditorInv'
    BY <2>1, <2>3, SameRing, Zenon DEF EditorInv
  <2>5. UNCHANGED User!vars
    BY ONLY <2>1, <2>2, <2>3 DEF User!vars
  <2>. QED
    BY <2>4, <2>5
<1>. QED
  BY <1>1, <1>2, <1>3, <1>4, <1>5, <1>6, <1>7, Zenon DEF Next

\* Whatever is typed, recalled and wiped, the line has no terminator before its
\* end, and what can be recalled or was left for it is terminated within its array
\* (shell.c:98-235): no string that is read runs on into another.
THEOREM EditorInvariant == Spec => []EditorInv
<1>1. Init => EditorInv
  BY InitStep, LineEditorAssumption
<1>2. EditorInv /\ [Next]_vars => EditorInv'
  BY EditorStep, LineEditorAssumption
<1>. QED
  BY <1>1, <1>2, PTL DEF Spec

\* The arrays and the ring of shell.c behave as the editor its user is promised:
\* the commands remembered are the last ones, newest first, the line that was left
\* comes back, and nothing that an earlier line has left behind a terminator is
\* taken for part of a later one.
THEOREM EditorImplementsSession == Spec => SessionSpec
<1>1. Init => User!Init
  BY InitStep, LineEditorAssumption
<1>2. EditorInv /\ [Next]_vars => [User!Next]_(User!vars)
  BY EditorStep, LineEditorAssumption
<1>. QED
  BY <1>1, <1>2, EditorInvariant, PTL DEF Spec, SessionSpec, User!Spec

--------------------------------------------------------------------------------
\* Texts that are printed item by item.

\* What holds of 0, and of each number of 1 .. n whose predecessor it holds of, holds
\* of all of 0 .. n.
LEMMA Onwards ==
    ASSUME NEW n \in Nat, NEW P, 0 \in P, \A k \in 1 .. n : k - 1 \in P => k \in P
    PROVE  \A k \in 0 .. n : k \in P
<1>. DEFINE S == {k \in 0 .. n : k \notin P}
<1>. SUFFICES ASSUME S # {} PROVE FALSE
  OBVIOUS
<1>0. S \subseteq Nat
  OBVIOUS
<1>1. PICK m \in S : \A k \in S : ~(<<k, m>> \in OpToRel(<, Nat))
  <2>. HIDE DEF S
  <2>. QED
    BY <1>0, NatLessThanWellFounded, WFMin
<1>2. \A k \in S : ~(k < m)
  <2>1. ASSUME NEW k \in S, k < m PROVE FALSE
    <3>1. k \in Nat /\ m \in Nat
      OBVIOUS
    <3>2. <<k, m>> \in OpToRel(<, Nat)
      BY <2>1, <3>1, Zenon DEF OpToRel
    <3>. QED
      BY <1>1, <3>2, Zenon
  <2>. QED
    BY <2>1
<1>3. m \in 1 .. n /\ m \notin P
  OBVIOUS
<1>4. m - 1 \notin P
  BY <1>3
<1>5. m - 1 \in S /\ m - 1 < m
  BY <1>3, <1>4
<1>. QED
  BY <1>2, <1>5

LEMMA MaxOf ==
    ASSUME NEW m \in Nat, NEW s \in SUBSET (1 .. m), s # {}
    PROVE  Max(s) \in s
<1>. DEFINE P == {k \in 0 .. m : \A t \in SUBSET (1 .. k) :
                                     t # {} => \E x \in t : \A y \in t : x >= y}
<1>1. 0 \in P
  <2>1. \A t \in SUBSET (1 .. 0) : t = {}
    OBVIOUS
  <2>2. 0 \in 0 .. m
    OBVIOUS
  <2>. QED
    BY <2>1, <2>2, Zenon
<1>2. ASSUME NEW k \in 1 .. m, k - 1 \in P PROVE k \in P
  <2>1. ASSUME NEW t \in SUBSET (1 .. k), t # {} PROVE \E x \in t : \A y \in t : x >= y
    <3>1. CASE k \in t
      BY <3>1
    <3>2. CASE k \notin t
      <4>1. t \in SUBSET (1 .. k - 1)
        BY <3>2
      <4>. QED
        BY <1>2, <2>1, <4>1
    <3>. QED
      BY <3>1, <3>2
  <2>. QED
    BY <2>1
<1>3. m \in P
  <2>. HIDE DEF P
  <2>. QED
    BY <1>1, <1>2, Onwards
<1>. QED
  BY <1>3 DEF Max

LEMMA MaxIs ==
    ASSUME NEW m \in Nat, NEW s \in SUBSET (1 .. m), m \in s
    PROVE  Max(s) = m
<1>1. m \in s /\ \A y \in s : m >= y
  OBVIOUS
<1>2. \A x \in s : (\A y \in s : x >= y) => x = m
  OBVIOUS
<1>. QED
  BY ONLY <1>1, <1>2 DEF Max

\* A function that folds step over the items of text: its value at a set of places
\* is what the items at those places make of base, from the first to the last.
Folds(f, m, base, step, text) ==
    f = [s \in SUBSET (1 .. m) |->
            IF s = {} THEN base ELSE step[<<f[s \ {Max(s)}], text[Max(s)]>>]]

\* There is one, when step stays within a set D.
LEMMA FoldExists ==
    ASSUME NEW m \in Nat, NEW D, NEW X, NEW base \in D, NEW step \in [D \X X -> D],
           NEW text, \A k \in 1 .. m : text[k] \in X
    PROVE  \E f \in [SUBSET (1 .. m) -> D] : Folds(f, m, base, step, text)
<1>. DEFINE P == {k \in 0 .. m :
                     \E f \in [SUBSET (1 .. k) -> D] : Folds(f, k, base, step, text)}
<1>1. 0 \in P
  <2>. DEFINE f == [s \in SUBSET (1 .. 0) |-> base]
  <2>1. f \in [SUBSET (1 .. 0) -> D]
    OBVIOUS
  <2>2. \A s \in SUBSET (1 .. 0) : s = {}
    OBVIOUS
  <2>3. Folds(f, 0, base, step, text)
    BY <2>2 DEF Folds
  <2>. QED
    BY <2>1, <2>3
<1>2. ASSUME NEW k \in 1 .. m, k - 1 \in P PROVE k \in P
  <2>1. PICK g \in [SUBSET (1 .. k - 1) -> D] : Folds(g, k - 1, base, step, text)
    BY <1>2
  <2>2. k \in Nat /\ k - 1 \in Nat /\ text[k] \in X
    OBVIOUS
  <2>. DEFINE h == [s \in SUBSET (1 .. k) |->
                       IF k \in s THEN step[<<g[s \ {k}], text[k]>>] ELSE g[s]]
  <2>3. ASSUME NEW s \in SUBSET (1 .. k), k \in s
        PROVE  /\ s \ {k} \in SUBSET (1 .. k - 1) /\ k \notin s \ {k}
               /\ h[s] = step[<<g[s \ {k}], text[k]>>] /\ h[s] \in D
               /\ s # {} /\ Max(s) = k /\ h[s \ {k}] = g[s \ {k}]
    <3>1. s \ {k} \in SUBSET (1 .. k - 1) /\ s \ {k} \in SUBSET (1 .. k) /\ k \notin s \ {k}
      BY <2>2
    <3>2. Max(s) = k
      BY <2>2, <2>3, MaxIs
    <3>3. h[s] = step[<<g[s \ {k}], text[k]>>]
      BY <2>3
    <3>4. g[s \ {k}] \in D
      BY <3>1
    <3>5. h[s] \in D
      BY <2>2, <3>3, <3>4
    <3>6. h[s \ {k}] = g[s \ {k}]
      BY <3>1
    <3>. QED
      BY <2>3, <3>1, <3>2, <3>3, <3>5, <3>6
  <2>4. ASSUME NEW s \in SUBSET (1 .. k), k \notin s
        PROVE  s \in SUBSET (1 .. k - 1) /\ h[s] = g[s] /\ h[s] \in D
    BY <2>2, <2>4
  <2>5. ASSUME NEW s \in SUBSET (1 .. k)
        PROVE  h[s] = IF s = {} THEN base ELSE step[<<h[s \ {Max(s)}], text[Max(s)]>>]
    <3>1. CASE k \in s
      BY <2>3, <3>1, Zenon
    <3>2. CASE k \notin s
      <4>1. s \in SUBSET (1 .. k - 1) /\ h[s] = g[s]
        BY <2>4, <3>2
      <4>2. g[s] = IF s = {} THEN base ELSE step[<<g[s \ {Max(s)}], text[Max(s)]>>]
        BY <2>1, <4>1, Zenon DEF Folds
      <4>3. s \ {Max(s)} \in SUBSET (1 .. k) /\ k \notin s \ {Max(s)}
        BY <3>2
      <4>4. h[s \ {Max(s)}] = g[s \ {Max(s)}]
        BY <2>4, <4>3
      <4>. QED
        BY <4>1, <4>2, <4>4, Zenon
    <3>. QED
      BY <3>1, <3>2
  <2>6. h \in [SUBSET (1 .. k) -> D]
    <3>1. \A s \in SUBSET (1 .. k) : h[s] \in D
      BY <2>3, <2>4
    <3>. QED
      BY <3>1
  <2>7. Folds(h, k, base, step, text)
    <3>1. h = [s \in SUBSET (1 .. k) |-> h[s]]
      OBVIOUS
    <3>. HIDE DEF h
    <3>. QED
      BY <2>5, <3>1, Zenon DEF Folds
  <2>8. \E f \in [SUBSET (1 .. k) -> D] : Folds(f, k, base, step, text)
    <3>. HIDE DEF h
    <3>. QED
      BY <2>6, <2>7, Zenon
  <2>. QED
    BY <2>8
<1>3. m \in P
  <2>. HIDE DEF P
  <2>. QED
    BY <1>1, <1>2, Onwards
<1>. QED
  BY <1>3


\* What is known of a function that folds step, as long as its values are in D; and
\* what its values at the beginnings of the text are: what there is after each item.
Unfolds(u, m, base, step, text, D) ==
    /\ u[{}] = base
    /\ \A s \in SUBSET (1 .. m) : s # {} /\ u[s \ {Max(s)}] \in D
                  => u[s] = step[<<u[s \ {Max(s)}], text[Max(s)]>>]

Staged(u, m, base, step, text, D) ==
    /\ u[1 .. 0] = base
    /\ \A i \in 0 .. m : u[1 .. i] \in D
    /\ \A i \in 1 .. m : u[1 .. i] = step[<<u[1 .. i - 1], text[i]>>]

LEMMA Stages ==
    ASSUME NEW m \in Nat, NEW D, NEW X, NEW base \in D, NEW step \in [D \X X -> D],
           NEW text, \A k \in 1 .. m : text[k] \in X, NEW u,
           Unfolds(u, m, base, step, text, D)
    PROVE  Staged(u, m, base, step, text, D)
<1>0. /\ u[{}] = base
      /\ \A s \in SUBSET (1 .. m) : s # {} /\ u[s \ {Max(s)}] \in D
                  => u[s] = step[<<u[s \ {Max(s)}], text[Max(s)]>>]
  BY Zenon DEF Unfolds
<1>. DEFINE P == {k \in 0 .. m : u[1 .. k] \in D}
<1>1. u[1 .. 0] = base /\ 0 \in P
  <2>1. 1 .. 0 = {} /\ 0 \in 0 .. m
    OBVIOUS
  <2>. QED
    BY <1>0, <2>1
<1>2. ASSUME NEW k \in 1 .. m, k - 1 \in P
      PROVE  k \in P /\ u[1 .. k] = step[<<u[1 .. k - 1], text[k]>>]
  <2>1. /\ k \in Nat /\ k \in 0 .. m /\ k \in 1 .. k /\ 1 .. k \in SUBSET (1 .. m) /\ 1 .. k # {}
        /\ (1 .. k) \ {k} = 1 .. k - 1
    OBVIOUS
  <2>2. Max(1 .. k) = k
    BY <2>1, MaxIs
  <2>3. u[1 .. k - 1] \in D
    BY <1>2
  <2>4. u[1 .. k] = step[<<u[1 .. k - 1], text[k]>>]
    <3>. HIDE DEF P
    <3>. QED
      BY <1>0, <2>1, <2>2, <2>3, Zenon
  <2>5. text[k] \in X
    OBVIOUS
  <2>6. u[1 .. k] \in D
    BY <2>3, <2>4, <2>5
  <2>. QED
    BY <2>1, <2>4, <2>6
<1>3. \A i \in 0 .. m : i \in P
  <2>. HIDE DEF P
  <2>. QED
    BY <1>1, <1>2, Onwards
<1>4. \A i \in 1 .. m : i - 1 \in 0 .. m
  OBVIOUS
<1>5. \A i \in 1 .. m : u[1 .. i] = step[<<u[1 .. i - 1], text[i]>>]
  <2>. HIDE DEF P
  <2>. QED
    BY <1>2, <1>3, <1>4, Zenon
<1>. QED
  BY ONLY <1>1, <1>3, <1>5 DEF Staged, P

--------------------------------------------------------------------------------
\* The screens a text goes through while it is printed.

Consoles ==
    [framebuffer : BOOLEAN, cursor : Positions, ink : Colours, paper : Colours,
     cells : [Positions -> [char  : Chars \cup Printed \cup {Blank},
                            ink   : Colours, paper : Colours]]]

\* print_text, item by item.
LEMMA PrintTextIs ==
    ASSUME \A c \in Consoles, x \in Printed : PrintItem(c, x) \in Consoles,
           NEW con \in Consoles, NEW text \in Seq(Printed), NEW m, m = Len(text)
    PROVE  \E run \in [0 .. m -> Consoles] :
               /\ run[0] = con /\ run[m] = PrintText(con, text)
               /\ \A i \in 1 .. m : run[i] = PrintItem(run[i - 1], text[i])
<1>. DEFINE step == [a \in Consoles \X Printed |-> PrintItem(a[1], a[2])]
            IsFold(f) == f = [s \in SUBSET (1 .. m) |->
                                IF s = {} THEN con
                                ELSE PrintItem(f[s \ {Max(s)}], text[Max(s)])]
<1>0. con \in Consoles
  OBVIOUS
<1>1. m \in Nat /\ DOMAIN text = 1 .. m /\ \A k \in 1 .. m : text[k] \in Printed
  OBVIOUS
<1>2. step \in [Consoles \X Printed -> Consoles]
  OBVIOUS
<1>3. PICK f \in [SUBSET (1 .. m) -> Consoles] : Folds(f, m, con, step, text)
  <2>. HIDE DEF step
  <2>. QED
    BY ONLY <1>0, <1>1, <1>2, FoldExists, Zenon
<1>4. ASSUME NEW s \in SUBSET (1 .. m), s # {}, NEW c \in Consoles
      PROVE  step[<<c, text[Max(s)]>>] = PrintItem(c, text[Max(s)])
  <2>1. Max(s) \in 1 .. m
    BY <1>1, <1>4, MaxOf
  <2>2. text[Max(s)] \in Printed
    BY <1>1, <2>1
  <2>. QED
    BY <2>2
<1>5. IsFold(f)
  <2>. HIDE DEF step
  <2>1. \A s \in SUBSET (1 .. m) :
           f[s] = IF s = {} THEN con ELSE PrintItem(f[s \ {Max(s)}], text[Max(s)])
    BY <1>3, <1>4, Zenon DEF Folds
  <2>2. f = [s \in SUBSET (1 .. m) |-> f[s]]
    OBVIOUS
  <2>. QED
    BY <2>1, <2>2, Zenon
<1>6. PICK u : u = CHOOSE v : IsFold(v)
  OBVIOUS
<1>7. IsFold(u)
  <2>. HIDE DEF IsFold
  <2>. QED
    BY <1>5, <1>6, Zenon
<1>8. PrintText(con, text) = u[1 .. m]
  BY <1>1, <1>6, Zenon DEF PrintText, FoldLeft, MapThenFoldSet
<1>9. \A s \in SUBSET (1 .. m) :
         u[s] = IF s = {} THEN con ELSE PrintItem(u[s \ {Max(s)}], text[Max(s)])
  BY <1>7, Zenon
<1>. HIDE DEF IsFold, step
<1>10. Unfolds(u, m, con, step, text, Consoles)
  BY <1>4, <1>9, Zenon DEF Unfolds
<1>11. /\ u[1 .. 0] = con
       /\ \A i \in 0 .. m : u[1 .. i] \in Consoles
       /\ \A i \in 1 .. m : u[1 .. i] = step[<<u[1 .. i - 1], text[i]>>]
  <2>1. Staged(u, m, con, step, text, Consoles)
    BY ONLY <1>0, <1>1, <1>2, <1>10, Stages, Zenon
  <2>. QED
    BY <2>1, Zenon DEF Staged
<1>12. ASSUME NEW i \in 1 .. m
       PROVE  u[1 .. i] = PrintItem(u[1 .. i - 1], text[i])
  <2>1. i - 1 \in 0 .. m /\ text[i] \in Printed
    BY <1>1
  <2>2. step[<<u[1 .. i - 1], text[i]>>] = PrintItem(u[1 .. i - 1], text[i])
    BY <1>11, <2>1 DEF step
  <2>. QED
    BY <1>11, <2>2, Zenon
<1>. DEFINE run == [i \in 0 .. m |-> u[1 .. i]]
<1>13. run \in [0 .. m -> Consoles] /\ run[0] = con /\ run[m] = PrintText(con, text)
  BY <1>1, <1>8, <1>11
<1>14. \A i \in 1 .. m : run[i] = PrintItem(run[i - 1], text[i])
  <2>1. \A i \in 1 .. m : run[i] = u[1 .. i] /\ run[i - 1] = u[1 .. i - 1]
    BY <1>1
  <2>. HIDE DEF run
  <2>. QED
    BY <1>12, <2>1, Zenon
<1>. QED
  <2>. HIDE DEF run
  <2>. QED
    BY <1>13, <1>14, Zenon

\* The line that redraw_line writes, character by character.
PrintLine(con, line) == FoldLeft(PrintChar, con, line)
LEMMA PrintLineIs ==
    ASSUME \A c \in Consoles, x \in Chars : PrintChar(c, x) \in Consoles,
           NEW con \in Consoles, NEW text \in Seq(Chars), NEW m, m = Len(text)
    PROVE  \E run \in [0 .. m -> Consoles] :
               /\ run[0] = con /\ run[m] = PrintLine(con, text)
               /\ \A i \in 1 .. m : run[i] = PrintChar(run[i - 1], text[i])
<1>. DEFINE step == [a \in Consoles \X Chars |-> PrintChar(a[1], a[2])]
            IsFold(f) == f = [s \in SUBSET (1 .. m) |->
                                IF s = {} THEN con
                                ELSE PrintChar(f[s \ {Max(s)}], text[Max(s)])]
<1>0. con \in Consoles
  OBVIOUS
<1>1. m \in Nat /\ DOMAIN text = 1 .. m /\ \A k \in 1 .. m : text[k] \in Chars
  OBVIOUS
<1>2. step \in [Consoles \X Chars -> Consoles]
  OBVIOUS
<1>3. PICK f \in [SUBSET (1 .. m) -> Consoles] : Folds(f, m, con, step, text)
  <2>. HIDE DEF step
  <2>. QED
    BY ONLY <1>0, <1>1, <1>2, FoldExists, Zenon
<1>4. ASSUME NEW s \in SUBSET (1 .. m), s # {}, NEW c \in Consoles
      PROVE  step[<<c, text[Max(s)]>>] = PrintChar(c, text[Max(s)])
  <2>1. Max(s) \in 1 .. m
    BY <1>1, <1>4, MaxOf
  <2>2. text[Max(s)] \in Chars
    BY <1>1, <2>1
  <2>. QED
    BY <2>2
<1>5. IsFold(f)
  <2>. HIDE DEF step
  <2>1. \A s \in SUBSET (1 .. m) :
           f[s] = IF s = {} THEN con ELSE PrintChar(f[s \ {Max(s)}], text[Max(s)])
    BY <1>3, <1>4, Zenon DEF Folds
  <2>2. f = [s \in SUBSET (1 .. m) |-> f[s]]
    OBVIOUS
  <2>. QED
    BY <2>1, <2>2, Zenon
<1>6. PICK u : u = CHOOSE v : IsFold(v)
  OBVIOUS
<1>7. IsFold(u)
  <2>. HIDE DEF IsFold
  <2>. QED
    BY <1>5, <1>6, Zenon
<1>8. PrintLine(con, text) = u[1 .. m]
  BY <1>1, <1>6, Zenon DEF PrintLine, FoldLeft, MapThenFoldSet
<1>9. \A s \in SUBSET (1 .. m) :
         u[s] = IF s = {} THEN con ELSE PrintChar(u[s \ {Max(s)}], text[Max(s)])
  BY <1>7, Zenon
<1>. HIDE DEF IsFold, step
<1>10. Unfolds(u, m, con, step, text, Consoles)
  BY <1>4, <1>9, Zenon DEF Unfolds
<1>11. /\ u[1 .. 0] = con
       /\ \A i \in 0 .. m : u[1 .. i] \in Consoles
       /\ \A i \in 1 .. m : u[1 .. i] = step[<<u[1 .. i - 1], text[i]>>]
  <2>1. Staged(u, m, con, step, text, Consoles)
    BY ONLY <1>0, <1>1, <1>2, <1>10, Stages, Zenon
  <2>. QED
    BY <2>1, Zenon DEF Staged
<1>12. ASSUME NEW i \in 1 .. m
       PROVE  u[1 .. i] = PrintChar(u[1 .. i - 1], text[i])
  <2>1. i - 1 \in 0 .. m /\ text[i] \in Chars
    BY <1>1
  <2>2. step[<<u[1 .. i - 1], text[i]>>] = PrintChar(u[1 .. i - 1], text[i])
    BY <1>11, <2>1 DEF step
  <2>. QED
    BY <1>11, <2>2, Zenon
<1>. DEFINE run == [i \in 0 .. m |-> u[1 .. i]]
<1>13. run \in [0 .. m -> Consoles] /\ run[0] = con /\ run[m] = PrintLine(con, text)
  BY <1>1, <1>8, <1>11
<1>14. \A i \in 1 .. m : run[i] = PrintChar(run[i - 1], text[i])
  <2>1. \A i \in 1 .. m : run[i] = u[1 .. i] /\ run[i - 1] = u[1 .. i - 1]
    BY <1>1
  <2>. HIDE DEF run
  <2>. QED
    BY <1>12, <2>1, Zenon
<1>. QED
  <2>. HIDE DEF run
  <2>. QED
    BY <1>13, <1>14, Zenon

\* The characters that redraw_line takes back, one by one.
LEMMA BackIs ==
    ASSUME \A c \in Consoles : BackOne(c) \in Consoles,
           NEW con \in Consoles, NEW m \in Nat
    PROVE  \E run \in [0 .. m -> Consoles] :
               /\ run[0] = con /\ run[m] = Back(con, m)
               /\ \A i \in 1 .. m : run[i] = BackOne(run[i - 1])
<1>. DEFINE text == [k \in 1 .. m |-> k]
            step == [a \in Consoles \X Nat |-> BackOne(a[1])]
            IsFold(f) == f = [s \in SUBSET (1 .. m) |->
                                IF s = {} THEN con
                                ELSE BackOne(f[s \ {Max(s)}])]
<1>0. con \in Consoles
  OBVIOUS
<1>1. m \in Nat /\ DOMAIN text = 1 .. m /\ \A k \in 1 .. m : text[k] \in Nat
  OBVIOUS
<1>2. step \in [Consoles \X Nat -> Consoles]
  OBVIOUS
<1>3. PICK f \in [SUBSET (1 .. m) -> Consoles] : Folds(f, m, con, step, text)
  <2>. HIDE DEF step, text
  <2>. QED
    BY ONLY <1>0, <1>1, <1>2, FoldExists, Zenon
<1>4. ASSUME NEW s \in SUBSET (1 .. m), s # {}, NEW c \in Consoles
      PROVE  step[<<c, text[Max(s)]>>] = BackOne(c)
  <2>1. Max(s) \in 1 .. m
    BY <1>1, <1>4, MaxOf
  <2>2. text[Max(s)] \in Nat
    BY <1>1, <2>1
  <2>. QED
    BY <2>2
<1>5. IsFold(f)
  <2>. HIDE DEF step
  <2>1. \A s \in SUBSET (1 .. m) :
           f[s] = IF s = {} THEN con ELSE BackOne(f[s \ {Max(s)}])
    BY <1>3, <1>4, Zenon DEF Folds
  <2>2. f = [s \in SUBSET (1 .. m) |-> f[s]]
    OBVIOUS
  <2>. QED
    BY <2>1, <2>2, Zenon
<1>6. PICK u : u = CHOOSE v : IsFold(v)
  OBVIOUS
<1>7. IsFold(u)
  <2>. HIDE DEF IsFold
  <2>. QED
    BY <1>5, <1>6, Zenon
<1>8. Back(con, m) = u[1 .. m]
  BY <1>1, <1>6, Zenon DEF Back, FoldLeft, MapThenFoldSet
<1>9. \A s \in SUBSET (1 .. m) :
         u[s] = IF s = {} THEN con ELSE BackOne(u[s \ {Max(s)}])
  BY <1>7, Zenon
<1>. HIDE DEF IsFold, step, text
<1>10. Unfolds(u, m, con, step, text, Consoles)
  BY <1>4, <1>9, Zenon DEF Unfolds
<1>11. /\ u[1 .. 0] = con
       /\ \A i \in 0 .. m : u[1 .. i] \in Consoles
       /\ \A i \in 1 .. m : u[1 .. i] = step[<<u[1 .. i - 1], text[i]>>]
  <2>1. Staged(u, m, con, step, text, Consoles)
    BY ONLY <1>0, <1>1, <1>2, <1>10, Stages, Zenon
  <2>. QED
    BY <2>1, Zenon DEF Staged
<1>12. ASSUME NEW i \in 1 .. m
       PROVE  u[1 .. i] = BackOne(u[1 .. i - 1])
  <2>1. i - 1 \in 0 .. m /\ text[i] \in Nat
    BY <1>1
  <2>2. step[<<u[1 .. i - 1], text[i]>>] = BackOne(u[1 .. i - 1])
    BY <1>11, <2>1 DEF step
  <2>. QED
    BY <1>11, <2>2, Zenon
<1>. DEFINE run == [i \in 0 .. m |-> u[1 .. i]]
<1>13. run \in [0 .. m -> Consoles] /\ run[0] = con /\ run[m] = Back(con, m)
  BY <1>1, <1>8, <1>11
<1>14. \A i \in 1 .. m : run[i] = BackOne(run[i - 1])
  <2>1. \A i \in 1 .. m : run[i] = u[1 .. i] /\ run[i - 1] = u[1 .. i - 1]
    BY <1>1
  <2>. HIDE DEF run
  <2>. QED
    BY <1>12, <2>1, Zenon
<1>. QED
  <2>. HIDE DEF run
  <2>. QED
    BY <1>13, <1>14, Zenon

--------------------------------------------------------------------------------
\* The screen.  Nothing stands at the cursor or behind it; and as long as no text
\* asks for black, what is drawn into a framebuffer can be read.
InOrder(con) ==
    /\ con \in Consoles
    /\ \A p \in Positions : p >= con.cursor => con.cells[p].char = Blank
    /\ con.framebuffer /\ Black \notin Printed => con.ink # Black /\ con.paper = Black

\* ch stands in the cell c of a screen.
Stands(framebuffer, c, ch) ==
    /\ c.char = IF framebuffer /\ ch \in Unprintable THEN Blank ELSE ch
    /\ framebuffer /\ Black \notin Printed => c.ink # c.paper

\* The last n characters before the cursor are the first n of t.
Shows(con, n, t) ==
    /\ n <= con.cursor
    /\ \A k \in 1 .. n : Stands(con.framebuffer, con.cells[con.cursor - n + k - 1], t[k])

LEMMA ScreenSize ==
    /\ CellCount \in Nat /\ Cols \in Nat /\ Cols >= 1 /\ Cols <= CellCount
    /\ BufferSize \in Nat /\ BufferSize >= 2 /\ BufferSize <= CellCount - Cols
<1>1. Cols \in Nat /\ Cols >= 1 /\ Rows \in Nat /\ Rows >= 1
  BY ConsoleAssumption DEF ConsoleAssumption
<1>2. BufferSize \in Nat /\ BufferSize >= 2 /\ BufferSize <= (Rows - 1) * Cols
  BY LineEditorAssumption DEF LineEditorAssumption
<1>3. Cols * Rows \in Nat /\ (Rows - 1) * Cols = Cols * Rows - Cols
  BY <1>1
<1>4. (Rows - 1) * Cols >= 0
  BY <1>1
<1>. QED
  BY <1>1, <1>2, <1>3, <1>4 DEF CellCount

\* Advancing the cursor over the last cell scrolls the screen.
LEMMA Advanced ==
    ASSUME NEW con \in [framebuffer : BOOLEAN, cursor : 0 .. CellCount,
                        ink : Colours, paper : Colours,
                        cells : [Positions -> [char  : Chars \cup Printed \cup {Blank},
                                               ink   : Colours, paper : Colours]]],
           NEW out, out = AdvanceCursor(con)
    PROVE  /\ out \in Consoles /\ out.framebuffer = con.framebuffer
           /\ out.ink = con.ink /\ out.paper = con.paper
           /\ \E by \in {0, Cols} :
                 /\ con.cursor - by \in Positions /\ out.cursor = con.cursor - by
                 /\ by = Cols => out.cursor = CellCount - Cols
                 /\ \A p \in Positions :
                       /\ p + by \in Positions => out.cells[p] = con.cells[p + by]
                       /\ p + by \notin Positions => out.cells[p].char = Blank
<1>1. CASE con.cursor >= CellCount
  <2>1. con.cursor = CellCount
    BY <1>1, ScreenSize
  <2>2. out = ScrollScreen(con)
    BY <1>1, Zenon DEF AdvanceCursor
  <2>3. out.cells = [p \in Positions |->
                        IF p + Cols < CellCount THEN con.cells[p + Cols] ELSE Wiped(con)]
    BY <2>2 DEF ScrollScreen
  <2>4. /\ out.framebuffer = con.framebuffer /\ out.ink = con.ink /\ out.paper = con.paper
        /\ out.cursor = CellCount - Cols
    BY <2>1, <2>2 DEF ScrollScreen
  <2>5. CellCount - Cols \in Positions
    BY ScreenSize DEF Positions
  <2>6. Wiped(con) \in [char : Chars \cup Printed \cup {Blank}, ink : Colours, paper : Colours]
        /\ Wiped(con).char = Blank
    BY DEF Wiped
  <2>7. \A p \in Positions : p + Cols < CellCount <=> p + Cols \in Positions
    BY ScreenSize DEF Positions
  <2>8. out.cells \in [Positions -> [char  : Chars \cup Printed \cup {Blank},
                                     ink   : Colours, paper : Colours]]
    <3>1. con.cells \in [Positions -> [char  : Chars \cup Printed \cup {Blank},
                                       ink   : Colours, paper : Colours]]
      OBVIOUS
    <3>. QED
      BY ONLY <2>3, <2>6, <2>7, <3>1
  <2>9. out = [con EXCEPT !.cells = out.cells, !.cursor = out.cursor]
    BY <2>2, <2>3, <2>4 DEF ScrollScreen
  <2>10. out \in Consoles
    BY <2>4, <2>5, <2>8, <2>9 DEF Consoles
  <2>11. \A p \in Positions :
            /\ p + Cols \in Positions => out.cells[p] = con.cells[p + Cols]
            /\ p + Cols \notin Positions => out.cells[p].char = Blank
    BY ONLY <2>3, <2>6, <2>7, Zenon
  <2>12. con.cursor - Cols \in Positions /\ out.cursor = con.cursor - Cols
    BY <2>1, <2>4, <2>5, Zenon
  <2>. QED
    BY ONLY <2>4, <2>10, <2>11, <2>12
<1>2. CASE ~(con.cursor >= CellCount)
  <2>1. out = con
    BY <1>2, Zenon DEF AdvanceCursor
  <2>2. con.cursor \in Positions
    BY <1>2, ScreenSize DEF Positions
  <2>3. con \in Consoles
    BY <2>2 DEF Consoles
  <2>4. con.cursor - 0 = con.cursor /\ \A p \in Positions : p + 0 = p
    BY <2>2, ScreenSize DEF Positions
  <2>5. 0 # Cols
    BY ScreenSize
  <2>. QED
    BY ONLY <2>1, <2>2, <2>3, <2>4, <2>5
<1>. QED
  BY <1>1, <1>2

Cell == [char : Chars \cup Printed \cup {Blank}, ink : Colours, paper : Colours]

\* How PutCell leaves the screen in order, with one more character in front of the
\* cursor.
LEMMA Put ==
    ASSUME NEW con \in Consoles, NEW ch \in Chars \cup Printed, NEW out, out = PutCell(con, ch)
    PROVE  /\ out \in Consoles /\ out.framebuffer = con.framebuffer
           /\ InOrder(con) => InOrder(out)
           /\ \A n \in Nat : \A t :
                 InOrder(con) /\ Shows(con, n, t) /\ n < BufferSize /\ t[n + 1] = ch
                     => Shows(out, n + 1, t)
<1>. DEFINE mid == [con EXCEPT !.cells[con.cursor] = Drawn(con, ch), !.cursor = @ + 1]
<1>1. out = AdvanceCursor(mid)
  BY DEF PutCell
<1>2. /\ con.framebuffer \in BOOLEAN /\ con.cursor \in Positions
      /\ con.ink \in Colours /\ con.paper \in Colours
      /\ con.cells \in [Positions -> Cell]
  BY DEF Consoles, Cell
<1>3. InOrder(con) => Stands(con.framebuffer, Drawn(con, ch), ch)
  BY <1>2 DEF Drawn, Cell, Stands, InOrder
<1>4. Drawn(con, ch) \in Cell
  BY <1>2 DEF Drawn, Cell
<1>5. con.cursor + 1 \in 0 .. CellCount /\ con.cursor \in Nat
  BY <1>2, ScreenSize DEF Positions
<1>6. /\ mid.framebuffer = con.framebuffer /\ mid.cursor = con.cursor + 1
      /\ mid.ink = con.ink /\ mid.paper = con.paper
      /\ mid.cells = [con.cells EXCEPT ![con.cursor] = Drawn(con, ch)]
  BY DEF Consoles
<1>7. mid.cells \in [Positions -> Cell]
  BY ONLY <1>2, <1>4, <1>6
<1>8. mid \in [framebuffer : BOOLEAN, cursor : 0 .. CellCount, ink : Colours, paper : Colours,
               cells : [Positions -> [char  : Chars \cup Printed \cup {Blank},
                                      ink   : Colours, paper : Colours]]]
  BY <1>2, <1>5, <1>6, <1>7 DEF Consoles, Cell
<1>. HIDE DEF mid
<1>9. /\ out \in Consoles /\ out.framebuffer = mid.framebuffer
      /\ out.ink = mid.ink /\ out.paper = mid.paper
  BY <1>1, <1>8, Advanced
<1>10. PICK by \in {0, Cols} :
                 /\ mid.cursor - by \in Positions /\ out.cursor = mid.cursor - by
                 /\ by = Cols => out.cursor = CellCount - Cols
                 /\ \A p \in Positions :
                       /\ p + by \in Positions => out.cells[p] = mid.cells[p + by]
                       /\ p + by \notin Positions => out.cells[p].char = Blank
  BY <1>1, <1>8, Advanced
<1>11. by \in Nat /\ out.cursor = con.cursor + 1 - by /\ out.cursor \in Nat
  BY <1>5, <1>6, <1>10, ScreenSize DEF Positions
<1>12. ASSUME InOrder(con) PROVE InOrder(out)
  <2>1. ASSUME NEW p \in Positions, p >= out.cursor PROVE out.cells[p].char = Blank
    <3>1. CASE p + by \in Positions
      <4>1. p + by >= con.cursor /\ p + by # con.cursor
        BY <1>5, <1>11, <2>1 DEF Positions
      <4>2. mid.cells[p + by] = con.cells[p + by]
        BY <1>2, <1>6, <3>1, <4>1
      <4>3. con.cells[p + by].char = Blank
        BY <1>12, <3>1, <4>1 DEF InOrder
      <4>. QED
        BY <1>10, <3>1, <4>2, <4>3
    <3>2. CASE p + by \notin Positions
      BY <1>10, <3>2
    <3>. QED
      BY <3>1, <3>2
  <2>2. con.framebuffer /\ Black \notin Printed => con.ink # Black /\ con.paper = Black
    BY <1>12, Zenon DEF InOrder
  <2>. QED
    BY <1>6, <1>9, <2>1, <2>2, Zenon DEF InOrder
<1>13. ASSUME NEW n \in Nat, NEW t, InOrder(con), Shows(con, n, t), n < BufferSize, t[n + 1] = ch
       PROVE  Shows(out, n + 1, t)
  <2>1. n <= con.cursor
    BY <1>13, Zenon DEF Shows
  <2>2. n + 1 <= out.cursor
    BY <1>5, <1>10, <1>11, <1>13, <2>1, ScreenSize
  <2>3. ASSUME NEW k \in 1 .. n + 1
        PROVE  Stands(out.framebuffer, out.cells[out.cursor - (n + 1) + k - 1], t[k])
    <3>. DEFINE p == out.cursor - (n + 1) + k - 1
    <3>1. p \in Nat /\ p + by = con.cursor - n + k - 1 /\ p < out.cursor
      BY <1>5, <1>11, <2>2
    <3>2. p \in Positions /\ p + by \in Positions
      <4>1. p + by <= con.cursor /\ p + by \in Nat
        BY <1>5, <1>11, <3>1
      <4>2. out.cursor \in Positions
        BY <1>10
      <4>3. /\ out.cursor < CellCount /\ con.cursor < CellCount /\ CellCount \in Nat
            /\ out.cursor \in Nat /\ con.cursor \in Nat
        BY ONLY <1>2, <4>2, ScreenSize DEF Positions
      <4>. HIDE DEF p
      <4>4. p <= CellCount - 1 /\ p + by <= CellCount - 1 /\ p \in Nat
        BY ONLY <3>1, <4>1, <4>3
      <4>. QED
        BY ONLY <4>1, <4>3, <4>4 DEF Positions
    <3>3. out.cells[p] = mid.cells[p + by]
      BY <1>10, <3>2
    <3>4. CASE k = n + 1
      <4>1. p + by = con.cursor
        BY <1>5, <3>1, <3>4
      <4>2. out.cells[p] = Drawn(con, ch)
        BY <1>2, <1>6, <3>3, <4>1
      <4>. QED
        BY <1>3, <1>6, <1>9, <1>13, <3>4, <4>2, Zenon
    <3>5. CASE k # n + 1
      <4>1. k \in 1 .. n /\ p + by # con.cursor
        BY <1>5, <3>1, <3>5
      <4>2. out.cells[p] = con.cells[con.cursor - n + k - 1]
        BY <1>2, <1>6, <3>1, <3>2, <3>3, <4>1
      <4>3. Stands(con.framebuffer, con.cells[con.cursor - n + k - 1], t[k])
        BY <1>13, <4>1, Zenon DEF Shows
      <4>. QED
        BY <1>6, <1>9, <4>2, <4>3, Zenon
    <3>. QED
      BY <3>4, <3>5
  <2>. QED
    BY <2>2, <2>3, Zenon DEF Shows
<1>. QED
  BY <1>6, <1>9, <1>12, <1>13, Zenon

\* The beginning of the next row.
LEMMA NextRow ==
    ASSUME NEW con \in Consoles, NEW out, out = ToNextRow(con)
    PROVE  /\ out \in Consoles /\ out.framebuffer = con.framebuffer
           /\ InOrder(con) => InOrder(out)
<1>. DEFINE next == ((con.cursor \div Cols) + 1) * Cols
            mid  == [con EXCEPT !.cursor = next]
<1>1. out = AdvanceCursor(mid)
  BY DEF ToNextRow
<1>2. con.cursor \in Positions /\ con.cursor \in Nat
  BY ScreenSize DEF Consoles, Positions
<1>3. next \in 0 .. CellCount /\ next > con.cursor
  <2>. DEFINE q == con.cursor \div Cols
  <2>1. Cols \in Nat /\ Cols >= 1 /\ Rows \in Nat /\ Rows >= 1 /\ CellCount = Cols * Rows
    BY ConsoleAssumption DEF ConsoleAssumption, CellCount
  <2>2. q \in Nat /\ q * Cols <= con.cursor /\ con.cursor < (q + 1) * Cols
    BY <1>2, <2>1
  <2>3. con.cursor < Rows * Cols
    BY <1>2, <2>1 DEF Positions
  <2>. HIDE DEF q
  <2>4. q < Rows
    <3>1. ASSUME q >= Rows PROVE FALSE
      <4>1. q * Cols >= Rows * Cols
        BY ONLY <2>1, <2>2, <3>1
      <4>2. q * Cols \in Nat /\ Rows * Cols \in Nat
        BY ONLY <2>1, <2>2
      <4>. QED
        BY ONLY <1>2, <2>2, <2>3, <4>1, <4>2
    <3>. QED
      BY ONLY <2>1, <2>2, <3>1
  <2>5. (q + 1) * Cols <= Cols * Rows /\ (q + 1) * Cols \in Nat
    BY ONLY <2>1, <2>2, <2>4
  <2>6. next = (q + 1) * Cols
    BY DEF q
  <2>. QED
    BY ONLY <1>2, <2>1, <2>2, <2>5, <2>6
<1>. HIDE DEF next
<1>4. /\ mid.framebuffer = con.framebuffer /\ mid.cursor = next
      /\ mid.ink = con.ink /\ mid.paper = con.paper /\ mid.cells = con.cells
  BY DEF Consoles
<1>5. mid \in [framebuffer : BOOLEAN, cursor : 0 .. CellCount, ink : Colours, paper : Colours,
               cells : [Positions -> [char  : Chars \cup Printed \cup {Blank},
                                      ink   : Colours, paper : Colours]]]
  BY <1>3 DEF Consoles
<1>. HIDE DEF mid
<1>6. /\ out \in Consoles /\ out.framebuffer = mid.framebuffer
      /\ out.ink = mid.ink /\ out.paper = mid.paper
  BY <1>1, <1>5, Advanced
<1>7. PICK by \in {0, Cols} :
                 /\ mid.cursor - by \in Positions /\ out.cursor = mid.cursor - by
                 /\ by = Cols => out.cursor = CellCount - Cols
                 /\ \A p \in Positions :
                       /\ p + by \in Positions => out.cells[p] = mid.cells[p + by]
                       /\ p + by \notin Positions => out.cells[p].char = Blank
  BY <1>1, <1>5, Advanced
<1>8. ASSUME InOrder(con) PROVE InOrder(out)
  <2>1. ASSUME NEW p \in Positions, p >= out.cursor PROVE out.cells[p].char = Blank
    <3>1. CASE p + by \in Positions
      <4>1. p + by >= con.cursor
        BY <1>2, <1>3, <1>4, <1>7, <2>1, ScreenSize DEF Positions
      <4>2. con.cells[p + by].char = Blank
        BY <1>8, <3>1, <4>1 DEF InOrder
      <4>. QED
        BY <1>4, <1>7, <3>1, <4>2
    <3>2. CASE p + by \notin Positions
      BY <1>7, <3>2
    <3>. QED
      BY <3>1, <3>2
  <2>2. con.framebuffer /\ Black \notin Printed => con.ink # Black /\ con.paper = Black
    BY <1>8, Zenon DEF InOrder
  <2>. QED
    BY <1>4, <1>6, <2>1, <2>2, Zenon DEF InOrder
<1>. QED
  BY <1>4, <1>6, <1>8, Zenon

\* print_char, for anything but a backspace.
LEMMA PrintCharStep ==
    ASSUME NEW con \in Consoles, NEW ch \in Chars \cup Printed, NEW out, out = PrintChar(con, ch)
    PROVE  /\ out \in Consoles /\ out.framebuffer = con.framebuffer
           /\ InOrder(con) => InOrder(out)
<1>1. CASE ch = NewLine
  <2>1. out = ToNextRow(con)
    BY <1>1, Zenon DEF PrintChar
  <2>. QED
    BY <2>1, NextRow, Zenon
<1>2. CASE ch # NewLine
  <2>1. out = PutCell(con, ch)
    BY <1>2, Zenon DEF PrintChar
  <2>. QED
    BY <2>1, Put, Zenon
<1>. QED
  BY <1>1, <1>2

LEMMA PrintItemStep ==
    ASSUME NEW con \in Consoles, NEW item \in Printed, NEW out, out = PrintItem(con, item)
    PROVE  /\ out \in Consoles /\ out.framebuffer = con.framebuffer
           /\ InOrder(con) => InOrder(out)
<1>1. Black # White /\ Black \in Colours /\ White \in Colours /\ ResetColour \notin Colours
  BY ConsoleAssumption DEF ConsoleAssumption
<1>2. CASE item \in Colours
  <2>1. out = [con EXCEPT !.ink = item]
    BY <1>1, <1>2 DEF PrintItem
  <2>2. /\ out.framebuffer = con.framebuffer /\ out.cursor = con.cursor
        /\ out.ink = item /\ out.paper = con.paper /\ out.cells = con.cells
        /\ out \in Consoles
    BY <1>2, <2>1 DEF Consoles
  <2>. QED
    BY <2>2, Zenon DEF InOrder
<1>3. CASE item \notin Colours /\ item = ResetColour
  <2>1. out = [con EXCEPT !.ink = White, !.paper = IF con.framebuffer THEN @ ELSE Black]
    BY <1>3 DEF PrintItem
  <2>2. /\ out.framebuffer = con.framebuffer /\ out.cursor = con.cursor
        /\ out.ink = White /\ out.cells = con.cells
        /\ con.framebuffer => out.paper = con.paper
        /\ out \in Consoles
    BY <1>1, <2>1 DEF Consoles
  <2>. QED
    BY <1>1, <2>2, Zenon DEF InOrder
<1>4. CASE item \notin Colours /\ item # ResetColour
  <2>1. out = PrintChar(con, item)
    BY <1>4 DEF PrintItem
  <2>. QED
    BY <2>1, PrintCharStep, Zenon
<1>. QED
  BY <1>2, <1>3, <1>4

\* A backspace takes one character off what stands before the cursor.
LEMMA BackOneStep ==
    ASSUME NEW con \in Consoles, NEW out, out = BackOne(con)
    PROVE  /\ out \in Consoles /\ out.framebuffer = con.framebuffer
           /\ InOrder(con) => InOrder(out)
           /\ \A n \in Nat : \A t : n > 0 /\ Shows(con, n, t) => Shows(out, n - 1, t)
<1>1. con.cursor \in Nat /\ con.cursor \in Positions
  BY ScreenSize DEF Consoles, Positions
<1>2. CASE con.cursor = 0
  <2>1. out = con
    BY <1>2, Zenon DEF BackOne
  <2>2. \A n \in Nat : \A t : n > 0 => ~Shows(con, n, t)
    BY <1>2 DEF Shows
  <2>. QED
    BY <2>1, <2>2, Zenon
<1>3. CASE con.cursor # 0
  <2>1. out = [con EXCEPT !.cells[con.cursor - 1] = Wiped(con), !.cursor = @ - 1]
    BY <1>3, Zenon DEF BackOne
  <2>2. /\ con.framebuffer \in BOOLEAN
        /\ con.ink \in Colours /\ con.paper \in Colours
        /\ con.cells \in [Positions -> Cell]
    BY DEF Consoles, Cell
  <2>3. Wiped(con) \in Cell /\ Wiped(con).char = Blank
    BY <2>2 DEF Wiped, Cell
  <2>4. con.cursor - 1 \in Positions /\ con.cursor - 1 \in Nat
    BY <1>1, <1>3, ScreenSize DEF Positions
  <2>5. /\ out.framebuffer = con.framebuffer /\ out.cursor = con.cursor - 1
        /\ out.ink = con.ink /\ out.paper = con.paper
        /\ out.cells = [con.cells EXCEPT ![con.cursor - 1] = Wiped(con)]
    BY <2>1 DEF Consoles
  <2>6. out.cells \in [Positions -> Cell]
    BY ONLY <2>2, <2>3, <2>5
  <2>7. out \in Consoles
    <3>1. out = [con EXCEPT !.cells = out.cells, !.cursor = out.cursor]
      BY <2>1, <2>5 DEF Consoles
    <3>. QED
      BY <2>4, <2>5, <2>6, <3>1 DEF Consoles, Cell
  <2>8. ASSUME InOrder(con) PROVE InOrder(out)
    <3>1. ASSUME NEW p \in Positions, p >= out.cursor PROVE out.cells[p].char = Blank
      <4>1. CASE p = con.cursor - 1
        BY <2>2, <2>3, <2>5, <4>1
      <4>2. CASE p # con.cursor - 1
        <5>1. p >= con.cursor
          BY <1>1, <2>5, <3>1, <4>2, ScreenSize DEF Positions
        <5>2. out.cells[p] = con.cells[p]
          BY <2>2, <2>5, <4>2
        <5>. QED
          BY <2>8, <5>1, <5>2 DEF InOrder
      <4>. QED
        BY <4>1, <4>2
    <3>2. con.framebuffer /\ Black \notin Printed => con.ink # Black /\ con.paper = Black
      BY <2>8, Zenon DEF InOrder
    <3>. QED
      BY <2>5, <2>7, <3>1, <3>2, Zenon DEF InOrder
  <2>9. ASSUME NEW n \in Nat, NEW t, n > 0, Shows(con, n, t) PROVE Shows(out, n - 1, t)
    <3>1. n <= con.cursor
      BY <2>9, Zenon DEF Shows
    <3>2. n - 1 <= out.cursor
      BY <1>1, <2>5, <3>1
    <3>3. ASSUME NEW k \in 1 .. n - 1
          PROVE  Stands(out.framebuffer, out.cells[out.cursor - (n - 1) + k - 1], t[k])
      <4>1. /\ out.cursor - (n - 1) + k - 1 = con.cursor - n + k - 1
            /\ con.cursor - n + k - 1 \in Positions
            /\ con.cursor - n + k - 1 # con.cursor - 1 /\ k \in 1 .. n
        BY <1>1, <2>5, <3>1, ScreenSize DEF Positions
      <4>2. out.cells[out.cursor - (n - 1) + k - 1] = con.cells[con.cursor - n + k - 1]
        BY <2>2, <2>5, <4>1
      <4>3. Stands(con.framebuffer, con.cells[con.cursor - n + k - 1], t[k])
        BY <2>9, <4>1, Zenon DEF Shows
      <4>. QED
        BY <2>5, <4>2, <4>3, Zenon
    <3>. QED
      BY <3>2, <3>3, Zenon DEF Shows
  <2>. QED
    BY <2>5, <2>7, <2>8, <2>9, Zenon
<1>. QED
  BY <1>2, <1>3

\* clear_screen
LEMMA Cleared ==
    ASSUME NEW con \in Consoles, NEW out, out = ClearScreen(con, Black)
    PROVE  out \in Consoles /\ (InOrder(con) => InOrder(out))
<1>. DEFINE cleared == [con EXCEPT !.paper = Black,
                                   !.ink = IF con.framebuffer THEN @ ELSE Black]
<1>1. out = [cleared EXCEPT !.cells = [p \in Positions |-> Wiped(cleared)], !.cursor = 0]
  BY DEF ClearScreen
<1>2. Black \in Colours
  BY ConsoleAssumption DEF ConsoleAssumption
<1>3. cleared \in Consoles /\ cleared.framebuffer = con.framebuffer /\ cleared.paper = Black
      /\ (con.framebuffer => cleared.ink = con.ink)
  BY <1>2 DEF Consoles
<1>. HIDE DEF cleared
<1>4. Wiped(cleared) \in Cell /\ Wiped(cleared).char = Blank
  BY <1>3 DEF Wiped, Cell, Consoles
<1>5. 0 \in Positions
  BY ScreenSize DEF Positions
<1>6. /\ out.framebuffer = con.framebuffer /\ out.cursor = 0
      /\ out.paper = Black /\ out.ink = cleared.ink
      /\ out.cells = [p \in Positions |-> Wiped(cleared)]
  BY <1>1, <1>3 DEF Consoles
<1>7. [p \in Positions |-> Wiped(cleared)] \in [Positions -> Cell]
  BY <1>4
<1>8. out \in Consoles
  BY <1>1, <1>3, <1>5, <1>7 DEF Consoles, Cell
<1>9. \A p \in Positions : out.cells[p].char = Blank
  BY <1>4, <1>6
<1>. QED
  BY <1>3, <1>6, <1>8, <1>9, Zenon DEF InOrder

--------------------------------------------------------------------------------
\* Whole texts.

LEMMA TextInOrder ==
    ASSUME NEW con \in Consoles, NEW text \in Seq(Printed),
           NEW out, out = PrintText(con, text)
    PROVE  InOrder(con) => InOrder(out)
<1>1. text \in Seq(Printed)
  OBVIOUS
<1>2. \A c \in Consoles, x \in Printed : PrintItem(c, x) \in Consoles
  BY PrintItemStep, Zenon
<1>3. PICK m : m = Len(text)
  OBVIOUS
<1>4. m \in Nat /\ \A k \in 1 .. m : text[k] \in Printed
  BY <1>1, <1>3
<1>5. PICK run \in [0 .. m -> Consoles] :
               /\ run[0] = con /\ run[m] = PrintText(con, text)
               /\ \A i \in 1 .. m : run[i] = PrintItem(run[i - 1], text[i])
  BY <1>1, <1>2, <1>3, PrintTextIs
<1>. DEFINE P == {i \in 0 .. m : InOrder(con) => InOrder(run[i])}
<1>6. 0 \in P
  BY <1>4, <1>5
<1>7. ASSUME NEW i \in 1 .. m, i - 1 \in P PROVE i \in P
  <2>1. i - 1 \in 0 .. m /\ i \in 0 .. m
    BY <1>4
  <2>2. run[i - 1] \in Consoles /\ text[i] \in Printed /\ run[i] = PrintItem(run[i - 1], text[i])
    BY <1>4, <1>5, <2>1
  <2>3. InOrder(run[i - 1]) => InOrder(run[i])
    BY <2>2, PrintItemStep, Zenon
  <2>. QED
    BY <1>7, <2>1, <2>3
<1>8. m \in P
  <2>1. \A i \in 1 .. m : i - 1 \in P => i \in P
    BY <1>7
  <2>2. m \in Nat /\ m \in 0 .. m
    BY <1>4
  <2>. HIDE DEF P
  <2>3. \A i \in 0 .. m : i \in P
    BY ONLY <1>6, <2>1, <2>2, Onwards
  <2>. QED
    BY <2>2, <2>3, Zenon
<1>. QED
  BY <1>4, <1>5, <1>8

\* The first character before the line is the last one of the prompt.
Shown(line) ==
    [k \in 1 .. Len(line) + 1 |-> IF k = 1 THEN Prompt[Len(Prompt)] ELSE line[k - 1]]

LEMMA Prompted ==
    ASSUME NEW con, InOrder(con), NEW out, out = PrintText(con, Prompt)
    PROVE  InOrder(out) /\ Shows(out, 1, Shown(<<>>))
<1>1. /\ Prompt \in Seq(Printed) /\ Prompt # <<>>
      /\ Prompt[Len(Prompt)] \notin Colours \cup Unprintable \cup {NewLine, ResetColour}
  BY LineEditorAssumption DEF LineEditorAssumption
<1>2. \A c \in Consoles, x \in Printed : PrintItem(c, x) \in Consoles
  BY PrintItemStep, Zenon
<1>3. PICK m : m = Len(Prompt)
  OBVIOUS
<1>4. m \in Nat /\ m >= 1 /\ \A k \in 1 .. m : Prompt[k] \in Printed
  BY <1>1, <1>3
<1>5. con \in Consoles
  BY DEF InOrder
<1>6. PICK run \in [0 .. m -> Consoles] :
               /\ run[0] = con /\ run[m] = PrintText(con, Prompt)
               /\ \A i \in 1 .. m : run[i] = PrintItem(run[i - 1], Prompt[i])
  BY <1>1, <1>2, <1>3, <1>5, PrintTextIs
<1>. DEFINE P == {i \in 0 .. m : InOrder(run[i])}
<1>7. 0 \in P
  BY <1>4, <1>6
<1>8. ASSUME NEW i \in 1 .. m, i - 1 \in P PROVE i \in P
  <2>1. i - 1 \in 0 .. m /\ i \in 0 .. m
    BY <1>4
  <2>2. run[i - 1] \in Consoles /\ Prompt[i] \in Printed /\ run[i] = PrintItem(run[i - 1], Prompt[i])
    BY <1>4, <1>6, <2>1
  <2>3. InOrder(run[i - 1]) => InOrder(run[i])
    BY <2>2, PrintItemStep, Zenon
  <2>. QED
    BY <1>8, <2>1, <2>3
<1>9. \A i \in 0 .. m : i \in P
  <2>. HIDE DEF P
  <2>. QED
    BY <1>4, <1>7, <1>8, Onwards
<1>10. PICK last : last = Prompt[m]
  OBVIOUS
<1>11. PICK before : before = run[m - 1]
  OBVIOUS
<1>12. /\ before \in Consoles /\ InOrder(before) /\ InOrder(out)
       /\ last \in Printed /\ out = PrintItem(before, last)
  <2>1. m - 1 \in 0 .. m /\ m \in 1 .. m /\ m \in 0 .. m
    BY <1>4
  <2>. QED
    BY <1>4, <1>6, <1>9, <1>10, <1>11, <2>1
<1>13. out = PutCell(before, last)
  <2>1. last \notin Colours /\ last # ResetColour /\ last # NewLine
    BY <1>1, <1>3, <1>10
  <2>2. out = PrintChar(before, last)
    BY <1>12, <2>1 DEF PrintItem
  <2>. QED
    BY <2>1, <2>2, Zenon DEF PrintChar
<1>14. Shows(before, 0, Shown(<<>>))
  <2>1. before.cursor \in Nat
    BY <1>12, ScreenSize DEF Consoles, Positions
  <2>. QED
    BY <2>1 DEF Shows
<1>15. Shown(<<>>)[0 + 1] = last
  BY <1>3, <1>10 DEF Shown
<1>16. 0 < BufferSize /\ 0 + 1 = 1 /\ 0 \in Nat
  BY ScreenSize
<1>17. Shows(out, 0 + 1, Shown(<<>>))
  <2>1. last \in Chars \cup Printed
    BY <1>12
  <2>. QED
    BY <1>12, <1>13, <1>14, <1>15, <1>16, <2>1, Put, Zenon
<1>. QED
  BY <1>12, <1>16, <1>17, Zenon

\* A character that is typed comes after the line.
LEMMA Typed ==
    ASSUME NEW con, NEW n \in Nat, n < BufferSize, NEW t, NEW ch \in Chars, t[n + 1] = ch,
           InOrder(con), NEW out, out = PrintChar(con, ch)
    PROVE  InOrder(out) /\ (Shows(con, n, t) => Shows(out, n + 1, t))
<1>1. NewLine \notin Chars
  BY LineEditorAssumption DEF LineEditorAssumption
<1>2. out = PutCell(con, ch)
  BY <1>1, Zenon DEF PrintChar
<1>3. con \in Consoles /\ ch \in Chars \cup Printed
  BY DEF InOrder
<1>. QED
  BY <1>2, <1>3, Put, Zenon

\* The line is taken back, character by character.
LEMMA WipedOut ==
    ASSUME NEW con, InOrder(con), NEW m \in Nat, NEW t, Shows(con, m + 1, t),
           NEW out, out = Back(con, m)
    PROVE  InOrder(out) /\ Shows(out, 1, t)
<1>1. con \in Consoles
  BY DEF InOrder
<1>2. \A c \in Consoles : BackOne(c) \in Consoles
  BY BackOneStep, Zenon
<1>3. PICK run \in [0 .. m -> Consoles] :
               /\ run[0] = con /\ run[m] = Back(con, m)
               /\ \A i \in 1 .. m : run[i] = BackOne(run[i - 1])
  BY <1>1, <1>2, BackIs
<1>. DEFINE P == {i \in 0 .. m : InOrder(run[i]) /\ Shows(run[i], m + 1 - i, t)}
<1>4. 0 \in P
  BY <1>3
<1>5. ASSUME NEW i \in 1 .. m, i - 1 \in P PROVE i \in P
  <2>1. /\ i - 1 \in 0 .. m /\ i \in 0 .. m
        /\ m + 1 - (i - 1) \in Nat /\ m + 1 - (i - 1) > 0
        /\ (m + 1 - (i - 1)) - 1 = m + 1 - i
    OBVIOUS
  <2>2. run[i - 1] \in Consoles /\ run[i] = BackOne(run[i - 1])
    BY <1>3, <2>1
  <2>3. InOrder(run[i - 1]) /\ Shows(run[i - 1], m + 1 - (i - 1), t)
    BY <1>5
  <2>4. InOrder(run[i]) /\ Shows(run[i], (m + 1 - (i - 1)) - 1, t)
    BY <2>1, <2>2, <2>3, BackOneStep, Zenon
  <2>. QED
    BY <2>1, <2>4
<1>6. m \in P
  <2>. HIDE DEF P
  <2>. QED
    BY <1>4, <1>5, Onwards
<1>7. m + 1 - m = 1
  OBVIOUS
<1>. QED
  BY <1>3, <1>6, <1>7

\* A line is written behind the prompt, character by character.
LEMMA Written ==
    ASSUME NEW con, InOrder(con), NEW line \in Seq(Chars), Len(line) < BufferSize,
           Shows(con, 1, Shown(line)), NEW out, out = PrintLine(con, line)
    PROVE  InOrder(out) /\ Shows(out, Len(line) + 1, Shown(line))
<1>0. line \in Seq(Chars)
  OBVIOUS
<1>1. con \in Consoles
  BY DEF InOrder
<1>2. \A c \in Consoles, x \in Chars : PrintChar(c, x) \in Consoles
  BY PrintCharStep, Zenon
<1>3. PICK m : m = Len(line)
  OBVIOUS
<1>4. m \in Nat /\ m < BufferSize /\ \A k \in 1 .. m : line[k] \in Chars
  BY <1>3
<1>5. PICK run \in [0 .. m -> Consoles] :
               /\ run[0] = con /\ run[m] = PrintLine(con, line)
               /\ \A i \in 1 .. m : run[i] = PrintChar(run[i - 1], line[i])
  BY <1>1, <1>2, <1>3, PrintLineIs
<1>6. PICK t : t = Shown(line)
  OBVIOUS
<1>7. \A k \in 1 .. m : t[k + 1] = line[k]
  BY <1>3, <1>4, <1>6 DEF Shown
<1>. DEFINE P == {i \in 0 .. m : InOrder(run[i]) /\ Shows(run[i], i + 1, t)}
<1>8. 0 \in P
  BY <1>4, <1>5, <1>6
<1>9. ASSUME NEW i \in 1 .. m, i - 1 \in P PROVE i \in P
  <2>1. /\ i - 1 \in 0 .. m /\ i \in 0 .. m /\ (i - 1) + 1 = i /\ i \in Nat /\ i < BufferSize
    BY <1>4, ScreenSize
  <2>2. run[i] = PrintChar(run[i - 1], line[i]) /\ line[i] \in Chars
    BY <1>4, <1>5
  <2>3. InOrder(run[i - 1]) /\ Shows(run[i - 1], i, t)
    BY <1>9, <2>1
  <2>4. InOrder(run[i]) /\ Shows(run[i], i + 1, t)
    BY <1>7, <2>1, <2>2, <2>3, Typed, Zenon
  <2>. QED
    BY <2>1, <2>4
<1>10. m \in P
  <2>1. \A i \in 1 .. m : i - 1 \in P => i \in P
    BY <1>9
  <2>2. m \in Nat /\ m \in 0 .. m
    BY <1>4
  <2>. HIDE DEF P
  <2>3. \A i \in 0 .. m : i \in P
    BY ONLY <1>8, <2>1, <2>2, Onwards
  <2>. QED
    BY <2>2, <2>3, Zenon
<1>. QED
  BY <1>3, <1>5, <1>6, <1>10

--------------------------------------------------------------------------------
\* The line can be read behind the prompt, and nothing stands behind it.
ScreenInv == InOrder(console) /\ Shows(console, idx + 1, Shown(Line))

LEMMA SameShown ==
    ASSUME NEW con, NEW n, NEW t, NEW u, Shows(con, n, t), \A k \in 1 .. n : t[k] = u[k]
    PROVE  Shows(con, n, u)
BY Zenon DEF Shows

\* Every line stands behind the same prompt.
LEMMA ShownIs ==
    ASSUME NEW line \in Seq(Chars)
    PROVE  /\ Shown(line)[1] = Prompt[Len(Prompt)]
           /\ \A k \in 1 .. Len(line) : Shown(line)[k + 1] = line[k]
<1>1. Len(line) \in Nat
  OBVIOUS
<1>2. 1 \in 1 .. Len(line) + 1 /\ \A k \in 1 .. Len(line) :
                k + 1 \in 1 .. Len(line) + 1 /\ k + 1 # 1 /\ (k + 1) - 1 = k
  BY <1>1
<1>. QED
  BY ONLY <1>2, Zenon DEF Shown

LEMMA SamePrompt ==
    ASSUME NEW con, NEW line \in Seq(Chars), NEW other \in Seq(Chars), Shows(con, 1, Shown(line))
    PROVE  Shows(con, 1, Shown(other))
<1>0. \A s \in Seq(Chars) : Shown(s)[1] = Prompt[Len(Prompt)]
  BY ShownIs
<1>1. Shown(line)[1] = Shown(other)[1]
  <2>1. line \in Seq(Chars) /\ other \in Seq(Chars)
    OBVIOUS
  <2>2. Shown(line)[1] = Prompt[Len(Prompt)]
    BY <1>0, <2>1, Zenon
  <2>3. Shown(other)[1] = Prompt[Len(Prompt)]
    BY <1>0, <2>1, Zenon
  <2>. QED
    BY <2>2, <2>3, Zenon
<1>2. \A k \in 1 .. 1 : k = 1
  OBVIOUS
<1>3. \A k \in 1 .. 1 : Shown(line)[k] = Shown(other)[k]
  BY <1>1, <1>2, Zenon
<1>. QED
  BY <1>3, SameShown, Zenon

\* redraw_line
LEMMA RedrawnScreen ==
    ASSUME LineEditorAssumption, EditorInv, ScreenInv,
           NEW text \in Seq(Chars), Len(text) < BufferSize,
           NEW s \in Strings, RedrawLine(s, text)
    PROVE  ScreenInv'
<1>1. idx' = Len(text) /\ console' = FoldLeft(PrintChar, Back(console, idx), text)
  BY Zenon DEF RedrawLine
<1>2. Line' = text
  BY Redrawn
<1>3. Line \in Seq(Chars) /\ Len(Line) = idx /\ idx \in Nat
  BY LineText
<1>4. PICK mid : mid = Back(console, idx)
  OBVIOUS
<1>5. console' = PrintLine(mid, text)
  BY <1>1, <1>4, Zenon DEF PrintLine
<1>6. InOrder(console) /\ Shows(console, idx + 1, Shown(Line))
  BY Zenon DEF ScreenInv
<1>7. InOrder(mid) /\ Shows(mid, 1, Shown(Line))
  BY <1>3, <1>4, <1>6, WipedOut, Zenon
<1>8. Shows(mid, 1, Shown(text))
  BY <1>3, <1>7, SamePrompt, Zenon
<1>9. InOrder(console') /\ Shows(console', Len(text) + 1, Shown(text))
  BY <1>5, <1>7, <1>8, Written, Zenon
<1>10. Shown(Line)' = Shown(text)
  BY <1>2, Zenon DEF Shown
<1>11. Shows(console, idx + 1, Shown(Line))' /\ InOrder(console)'
  BY <1>1, <1>9, <1>10, Zenon DEF Shows, InOrder, Stands
<1>. QED
  BY <1>11, Zenon DEF ScreenInv

LEMMA OlderScreen ==
    ASSUME LineEditorAssumption, EditorInv, ScreenInv, RecallOlder
    PROVE  ScreenInv'
<1>1. PICK text : text = HistoryGet(history_browse_index + 1)
  OBVIOUS
<1>2. RedrawLine(Stashed, text) /\ history_browse_index + 1 < history_count
  BY <1>1, Zenon DEF RecallOlder
<1>3. history_browse_index + 1 \in 0 .. history_count - 1
  BY <1>2 DEF EditorInv, RingInv, BrowseInv
<1>4. text \in Seq(Chars) /\ Len(text) < BufferSize
  BY <1>1, <1>3, RecalledText
<1>. QED
  BY <1>2, <1>4, StashedLine, RedrawnScreen, Zenon

LEMMA NewerScreen ==
    ASSUME LineEditorAssumption, EditorInv, ScreenInv, RecallNewer
    PROVE  ScreenInv'
<1>1. PICK text : text = IF history_browse_index > 0
                           THEN HistoryGet(history_browse_index - 1)
                           ELSE Text(saved_current)
  OBVIOUS
<1>2. RedrawLine(shell_buffer, text) /\ history_browse_index >= 0
  BY <1>1, Zenon DEF RecallNewer
<1>3. text \in Seq(Chars) /\ Len(text) < BufferSize
  <2>1. CASE history_browse_index > 0
    <3>1. history_browse_index - 1 \in 0 .. history_count - 1
      BY <2>1 DEF EditorInv, RingInv, BrowseInv
    <3>. QED
      BY <1>1, <2>1, <3>1, RecalledText
  <2>2. CASE ~(history_browse_index > 0)
    <3>1. saved_current \in Strings /\ Closed(saved_current)
      BY <1>2 DEF EditorInv, BrowseInv
    <3>2. PICK n : Ends(saved_current, n)
      BY <3>1, Zenon DEF Closed
    <3>3. /\ Text(saved_current) \in Seq(Chars) /\ Len(Text(saved_current)) = n
          /\ n \in 0 .. BufferSize - 1
      BY <3>1, <3>2, TextIs
    <3>4. text = Text(saved_current)
      BY <1>1, <2>2, Zenon
    <3>. QED
      BY <3>3, <3>4 DEF LineEditorAssumption
  <2>. QED
    BY <2>1, <2>2
<1>. QED
  BY <1>2, <1>3, BufferTyped, RedrawnScreen, Zenon

LEMMA SameScreen ==
    ASSUME ScreenInv, console' = console, idx' = idx, Line' = Line
    PROVE  ScreenInv'
<1>1. Shown(Line)' = Shown(Line)
  BY Zenon DEF Shown
<1>. QED
  BY <1>1, Zenon DEF ScreenInv, InOrder, Shows, Stands

LEMMA EnterScreen ==
    ASSUME LineEditorAssumption, EditorInv, ScreenInv, Enter
    PROVE  ScreenInv'
<1>1. PICK con \in Interpreted(PrintChar(console, NewLine), Text(Terminated)) :
              console' = PrintText(con, Prompt)
  BY Zenon DEF Enter
<1>2. idx' = 0 /\ Line' = <<>>
  BY EnterStep, Zenon DEF Enter, User!Run
<1>3. PICK next : next = PrintChar(console, NewLine)
  OBVIOUS
<1>4. console \in Consoles /\ InOrder(console)
  BY Zenon DEF ScreenInv, InOrder
<1>5. next \in Consoles /\ InOrder(next)
  <2>1. next = ToNextRow(console)
    BY <1>3, Zenon DEF PrintChar
  <2>. QED
    BY <1>4, <2>1, NextRow, Zenon
<1>6. \/ con = next \/ con = ClearScreen(next, Black)
      \/ \E text \in Outputs : con = PrintText(next, text)
  BY <1>1, <1>3 DEF Interpreted
<1>7. InOrder(con)
  <2>1. CASE con = next
    BY <1>5, <2>1
  <2>2. CASE con = ClearScreen(next, Black)
    BY <1>5, <2>2, Cleared, Zenon
  <2>3. ASSUME NEW text \in Outputs, con = PrintText(next, text) PROVE InOrder(con)
    <3>1. text \in Seq(Printed)
      BY DEF LineEditorAssumption
    <3>. QED
      BY <1>5, <2>3, <3>1, TextInOrder, Zenon
  <2>. QED
    BY <1>6, <2>1, <2>2, <2>3, Zenon
<1>8. InOrder(console') /\ Shows(console', 1, Shown(<<>>))
  BY <1>1, <1>7, Prompted, Zenon
<1>9. Shown(Line)' = Shown(<<>>)
  BY <1>2, Zenon DEF Shown
<1>10. idx' + 1 = 1
  BY <1>2
<1>. QED
  BY <1>8, <1>9, <1>10, Zenon DEF ScreenInv, InOrder, Shows, Stands

LEMMA BackspaceScreen ==
    ASSUME LineEditorAssumption, EditorInv, ScreenInv, Backspace
    PROVE  ScreenInv'
<1>1. idx > 0 /\ idx' = idx - 1 /\ console' = BackOne(console)
  BY Zenon DEF Backspace
<1>2. Line \in Seq(Chars) /\ Len(Line) = idx /\ idx \in Nat
  BY LineText
<1>3. Line' = SubSeq(Line, 1, Len(Line) - 1)
  BY BackspaceStep, Zenon DEF User!Erase
<1>4. PICK line : line = Line'
  OBVIOUS
<1>5. line \in Seq(Chars) /\ Len(line) = idx - 1 /\ \A k \in 1 .. idx - 1 : line[k] = Line[k]
  BY <1>1, <1>2, <1>3, <1>4
<1>6. \A k \in 1 .. idx : Shown(Line)[k] = Shown(line)[k]
  <2>1. ASSUME NEW k \in 1 .. idx PROVE Shown(Line)[k] = Shown(line)[k]
    <3>1. CASE k = 1
      BY <1>2, <1>5, <3>1, ShownIs, Zenon
    <3>2. CASE k # 1
      <4>1. k - 1 \in 1 .. idx - 1 /\ k - 1 \in 1 .. idx /\ (k - 1) + 1 = k
        BY <1>2, <3>2
      <4>2. Shown(Line)[(k - 1) + 1] = Line[k - 1] /\ Shown(line)[(k - 1) + 1] = line[k - 1]
        BY <1>2, <1>5, <4>1, ShownIs, Zenon
      <4>. QED
        BY ONLY <1>5, <4>1, <4>2, Zenon
    <3>. QED
      BY <3>1, <3>2
  <2>. QED
    BY <2>1
<1>7. /\ console \in Consoles /\ InOrder(console) /\ Shows(console, idx + 1, Shown(Line))
  BY Zenon DEF ScreenInv, InOrder
<1>8. idx + 1 \in Nat /\ idx + 1 > 0 /\ (idx + 1) - 1 = idx /\ idx' + 1 = idx
  BY <1>1, <1>2
<1>9. InOrder(console') /\ Shows(console', (idx + 1) - 1, Shown(Line))
  BY <1>1, <1>7, <1>8, BackOneStep, Zenon
<1>10. Shows(console', idx, Shown(line))
  BY <1>6, <1>8, <1>9, SameShown, Zenon
<1>11. Shown(Line)' = Shown(line)
  BY <1>4, Zenon DEF Shown
<1>. QED
  BY <1>8, <1>9, <1>10, <1>11, Zenon DEF ScreenInv, InOrder, Shows, Stands

LEMMA CharacterScreen ==
    ASSUME LineEditorAssumption, EditorInv, ScreenInv, NEW ch \in Chars, Character(ch)
    PROVE  ScreenInv'
<1>1. idx < BufferSize - 1 /\ idx' = idx + 1 /\ console' = PrintChar(console, ch)
  BY Zenon DEF Character, Room
<1>2. Line \in Seq(Chars) /\ Len(Line) = idx /\ idx \in Nat
  BY LineText
<1>3. Line' = Append(Line, ch)
  BY CharacterStep, Zenon DEF User!Type
<1>4. PICK line : line = Line'
  OBVIOUS
<1>5. /\ line \in Seq(Chars) /\ Len(line) = idx + 1 /\ line[idx + 1] = ch
      /\ \A k \in 1 .. idx : line[k] = Line[k]
  BY <1>2, <1>3, <1>4
<1>6. \A k \in 1 .. idx + 1 : Shown(Line)[k] = Shown(line)[k]
  <2>1. ASSUME NEW k \in 1 .. idx + 1 PROVE Shown(Line)[k] = Shown(line)[k]
    <3>1. CASE k = 1
      BY <1>2, <1>5, <3>1, ShownIs, Zenon
    <3>2. CASE k # 1
      <4>1. k - 1 \in 1 .. idx + 1 /\ k - 1 \in 1 .. idx /\ (k - 1) + 1 = k
        BY <1>2, <3>2
      <4>2. Shown(Line)[(k - 1) + 1] = Line[k - 1] /\ Shown(line)[(k - 1) + 1] = line[k - 1]
        BY <1>2, <1>5, <4>1, ShownIs, Zenon
      <4>. QED
        BY ONLY <1>5, <4>1, <4>2, Zenon
    <3>. QED
      BY <3>1, <3>2
  <2>. QED
    BY <2>1
<1>7. Shown(line)[(idx + 1) + 1] = ch
  <2>1. idx + 1 \in 1 .. idx + 1
    BY <1>2
  <2>. QED
    BY <1>5, <2>1, ShownIs, Zenon
<1>8. InOrder(console) /\ Shows(console, idx + 1, Shown(Line))
  BY Zenon DEF ScreenInv
<1>9. Shows(console, idx + 1, Shown(line))
  BY <1>6, <1>8, SameShown, Zenon
<1>10. idx + 1 \in Nat /\ idx + 1 < BufferSize /\ idx' + 1 = (idx + 1) + 1
  BY <1>1, <1>2, ScreenSize
<1>11. InOrder(console') /\ Shows(console', (idx + 1) + 1, Shown(line))
  BY <1>1, <1>7, <1>8, <1>9, <1>10, Typed, Zenon
<1>12. Shown(Line)' = Shown(line)
  BY <1>4, Zenon DEF Shown
<1>. QED
  BY <1>10, <1>11, <1>12, Zenon DEF ScreenInv, InOrder, Shows, Stands

LEMMA InitScreen ==
    ASSUME LineEditorAssumption, Init
    PROVE  ScreenInv
<1>1. PICK framebuffer \in BOOLEAN :
              console = PrintText(ClearScreen(ScreenInit(framebuffer), Black), Prompt)
  BY Zenon DEF Init
<1>2. PICK first : first = ScreenInit(framebuffer)
  OBVIOUS
<1>3. Black \in Colours /\ White \in Colours /\ Black # White
  BY ConsoleAssumption DEF ConsoleAssumption
<1>4. 0 \in Positions
  BY ScreenSize DEF Positions
<1>5. /\ first.cells = [p \in Positions |-> [char |-> Blank, ink |-> Black, paper |-> Black]]
      /\ first.ink = White /\ first.paper = Black
  BY <1>2 DEF ScreenInit
<1>6. first \in Consoles
  <2>1. first.cells \in [Positions -> Cell]
    BY <1>3, <1>5 DEF Cell
  <2>. QED
    BY <1>2, <1>3, <1>4, <1>5, <2>1 DEF ScreenInit, Consoles, Cell
<1>7. InOrder(first)
  <2>1. \A p \in Positions : first.cells[p].char = Blank
    BY <1>5
  <2>. QED
    BY <1>3, <1>5, <1>6, <2>1, Zenon DEF InOrder
<1>8. PICK con : con = ClearScreen(first, Black)
  OBVIOUS
<1>9. InOrder(con)
  BY <1>6, <1>7, <1>8, Cleared, Zenon
<1>10. console = PrintText(con, Prompt)
  BY <1>1, <1>2, <1>8, Zenon
<1>11. InOrder(console) /\ Shows(console, 1, Shown(<<>>))
  BY <1>9, <1>10, Prompted, Zenon
<1>12. idx = 0 /\ idx + 1 = 1 /\ Line = <<>>
  BY DEF Init, Line
<1>. QED
  BY ONLY <1>11, <1>12, Zenon DEF ScreenInv

LEMMA ScreenStep ==
    ASSUME LineEditorAssumption, EditorInv, ScreenInv, [Next]_vars
    PROVE  ScreenInv'
<1>1. CASE RecallOlder
  BY <1>1, OlderScreen
<1>2. CASE NothingOlder
  <2>1. console' = console /\ idx' = idx
    BY <1>2, Zenon DEF NothingOlder
  <2>2. Line' = Line
    BY <1>2, NoOlderStep, Zenon DEF User!vars
  <2>. QED
    BY <2>1, <2>2, SameScreen
<1>3. CASE RecallNewer
  BY <1>3, NewerScreen
<1>4. CASE Enter
  BY <1>4, EnterScreen
<1>5. CASE Backspace
  BY <1>5, BackspaceScreen
<1>6. ASSUME NEW ch \in Chars, Character(ch) PROVE ScreenInv'
  BY <1>6, CharacterScreen
<1>7. CASE UNCHANGED vars
  <2>1. console' = console /\ idx' = idx /\ shell_buffer' = shell_buffer
    BY <1>7 DEF vars
  <2>2. Line' = Line
    BY <2>1, Zenon DEF Line
  <2>. QED
    BY <2>1, <2>2, SameScreen
<1>. QED
  BY <1>1, <1>2, <1>3, <1>4, <1>5, <1>6, <1>7, Zenon DEF Next

\* What is typed, recalled, wiped and run leaves the screen in order: the line stands
\* behind the prompt, the cursor behind the line, and nothing behind the cursor.
THEOREM EditorScreenInvariant == Spec => []ScreenInv
<1>1. Init => ScreenInv
  BY InitScreen, LineEditorAssumption
<1>2. EditorInv /\ ScreenInv /\ [Next]_vars => ScreenInv'
  BY ScreenStep, LineEditorAssumption
<1>. QED
  BY <1>1, <1>2, EditorInvariant, PTL DEF Spec

\* The state of the line editor keeps to its type: the line, the history and what is
\* browsed stay in their arrays, and the cursor on the screen (print.c:170-181).
THEOREM EditorTypes == Spec => []EditorTypeOK
<1>1. EditorInv /\ ScreenInv => EditorTypeOK
  <2>. SUFFICES ASSUME EditorInv, ScreenInv PROVE EditorTypeOK
    OBVIOUS
  <2>1. console \in Consoles
    BY Zenon DEF ScreenInv, InOrder
  <2>2. IsConsole(console, Chars \cup Printed)
    BY <2>1 DEF Consoles, IsConsole
  <2>. QED
    BY <2>2, Zenon DEF EditorTypeOK, EditorInv, LineInv, RingInv, BrowseInv
<1>. QED
  BY <1>1, EditorInvariant, EditorScreenInvariant, PTL

\* What can be read on the screen behind the prompt is the line that Enter would run,
\* and nothing stands behind it (shell.c:50-71), on a screen of any size and however
\* often it has wrapped and scrolled, as long as nothing is printed in black.
THEOREM EditorShowsLine == Black \notin Printed /\ Spec => []ScreenShowsLine
<1>. SUFFICES ASSUME Black \notin Printed PROVE Spec => []ScreenShowsLine
  OBVIOUS
<1>1. EditorInv /\ ScreenInv => ScreenShowsLine
  <2>. SUFFICES ASSUME EditorInv, ScreenInv PROVE ScreenShowsLine
    OBVIOUS
  <2>1. Line \in Seq(Chars) /\ Len(Line) = idx /\ idx \in Nat
    BY LineText, LineEditorAssumption
  <2>2. console.cursor \in Nat /\ console.cursor \in Positions /\ console.framebuffer \in BOOLEAN
    BY ScreenSize DEF ScreenInv, InOrder, Consoles, Positions
  <2>3. /\ idx + 1 <= console.cursor
        /\ \A k \in 1 .. idx + 1 :
              Stands(console.framebuffer, console.cells[console.cursor - (idx + 1) + k - 1],
                     Shown(Line)[k])
    BY Zenon DEF ScreenInv, Shows
  <2>4. PICK last : last = Prompt[Len(Prompt)]
    OBVIOUS
  <2>5. last \notin Unprintable
    BY <2>4, LineEditorAssumption DEF LineEditorAssumption
  <2>6. ASSUME NEW p, NEW ch, Stands(console.framebuffer, console.cells[p], ch)
        PROVE  Read(console, p) = IF console.framebuffer /\ ch \in Unprintable THEN Blank ELSE ch
    BY <2>6, Zenon DEF Stands, Read
  <2>7. console.cursor - idx >= 1
    BY <2>1, <2>2, <2>3
  <2>8. Read(console, console.cursor - idx - 1) = last
    <3>1. 1 \in 1 .. idx + 1 /\ console.cursor - (idx + 1) + 1 - 1 = console.cursor - idx - 1
      BY <2>1, <2>2
    <3>2. Stands(console.framebuffer, console.cells[console.cursor - idx - 1], Shown(Line)[1])
      BY <2>3, <3>1
    <3>3. Shown(Line)[1] = last
      BY <2>1, <2>4, ShownIs, Zenon
    <3>. QED
      BY <2>5, <2>6, <3>2, <3>3, Zenon
  <2>9. ASSUME NEW k \in 1 .. Len(Line)
        PROVE  Read(console, console.cursor - idx + k - 1) =
                  IF console.framebuffer /\ Line[k] \in Unprintable THEN Blank ELSE Line[k]
    <3>1. /\ k + 1 \in 1 .. idx + 1
          /\ console.cursor - (idx + 1) + (k + 1) - 1 = console.cursor - idx + k - 1
      BY <2>1, <2>2
    <3>2. Stands(console.framebuffer, console.cells[console.cursor - (idx + 1) + (k + 1) - 1],
                 Shown(Line)[k + 1])
      BY ONLY <2>3, <3>1, Zenon
    <3>3. Shown(Line)[k + 1] = Line[k]
      BY <2>1, ShownIs, Zenon
    <3>. QED
      BY <2>6, <3>1, <3>2, <3>3, Zenon
  <2>10. \A p \in Positions : p >= console.cursor => Read(console, p) = Blank
    BY Zenon DEF ScreenInv, InOrder, Read
  <2>. QED
    BY ONLY <2>4, <2>7, <2>8, <2>9, <2>10, Zenon DEF ScreenShowsLine
<1>. QED
  BY <1>1, EditorInvariant, EditorScreenInvariant, PTL
================================================================================
