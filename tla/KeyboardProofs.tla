----------------------------- MODULE KeyboardProofs -----------------------------
(****************************************************************************)
(* Proofs about Keyboard, for every set of keys and any number of events:   *)
(* no shift gets stuck, and what is typed arrives as it was meant.          *)
(*                                                                          *)
(* Both speak of what the handler will have done when it has seen the bytes *)
(* that are still on the wire.  The invariant says that there is a run of   *)
(* the handler over those bytes, from its variables as they are to a state  *)
(* that agrees with the keys: a byte that is sent makes the run one step    *)
(* longer at its end, a call of the handler one step shorter at its front.  *)
(****************************************************************************)
EXTENDS Keyboard, TLAPS

Characters == [code : Codes, upper : BOOLEAN]

Bytes == {Prefix} \cup [prefix : {FALSE}, code : Codes, release : BOOLEAN]

\* The variables of the handler.
States == [prefix : BOOLEAN, shift : BOOLEAN, lock : BOOLEAN, out : Seq(Characters)]

Now == [prefix |-> extended_prefix, shift |-> shift_held, lock |-> capslock_on, out |-> typed]

\* What a key says when it is pressed.
Says(key, shift, lock) ==
    IF key.extended
      THEN IF key.code \in Arrows THEN <<Char(key.code, FALSE)>> ELSE <<>>
    ELSE IF key.code \in Letters THEN <<Char(key.code, shift # lock)>>
    ELSE IF key.code \in Symbols THEN <<Char(key.code, shift)>>
    ELSE <<>>

\* What a byte that is no prefix does to the variables.
ShiftAfter(s, b) == IF ~s.prefix /\ b.code \in Shifts THEN ~b.release ELSE s.shift

LockAfter(s, b) == IF ~s.prefix /\ b.code = "caps" /\ ~b.release THEN ~s.lock ELSE s.lock

OutAfter(s, b) ==
    IF b.release THEN s.out
    ELSE s.out \o Says([code |-> b.code, extended |-> s.prefix], s.shift, s.lock)

After(s, b) ==
    IF b.prefix
      THEN [prefix |-> TRUE, shift |-> s.shift, lock |-> s.lock, out |-> s.out]
      ELSE [prefix |-> FALSE, shift |-> ShiftAfter(s, b), lock |-> LockAfter(s, b),
            out |-> OutAfter(s, b)]

Within(a, b) == Len(a) <= Len(b) /\ \A k \in 1 .. Len(a) : a[k] = b[k]

\* R is a run over the bytes of w that ends in t.
IsRun(R, w, t) ==
    /\ R \in [0 .. Len(w) -> States] /\ R[Len(w)] = t
    /\ \A i \in 1 .. Len(w) : R[i] = After(R[i - 1], w[i])
    /\ \A i \in 0 .. Len(w) : Within(R[i].out, t.out)

Runs(s, w, t) == \E R : IsRun(R, w, t) /\ R[0] = s

--------------------------------------------------------------------------------
LEMMA SaysType ==
    ASSUME NEW key, key.code \in Codes, key.extended \in BOOLEAN,
           NEW shift \in BOOLEAN, NEW lock \in BOOLEAN
    PROVE  Says(key, shift, lock) \in Seq(Characters)
<1>1. \A c \in Codes, u \in BOOLEAN : <<Char(c, u)>> \in Seq(Characters)
  <2>1. \A c \in Codes, u \in BOOLEAN : Char(c, u) \in Characters
    BY DEF Char, Characters
  <2>. QED
    BY <2>1
<1>2. <<>> \in Seq(Characters)
  OBVIOUS
<1>. QED
  BY <1>1, <1>2, Zenon DEF Says

LEMMA WithinTransitive ==
    ASSUME NEW a \in Seq(Characters), NEW b \in Seq(Characters), NEW c \in Seq(Characters),
           Within(a, b), Within(b, c)
    PROVE  Within(a, c)
  BY DEF Within

LEMMA WithinLonger ==
    ASSUME NEW a \in Seq(Characters), NEW b \in Seq(Characters)
    PROVE  Within(a, a) /\ Within(a, a \o b)
  BY DEF Within

LEMMA AfterType ==
    ASSUME NEW s \in States, NEW b \in Bytes
    PROVE  After(s, b) \in States /\ Within(s.out, After(s, b).out)
<1>1. /\ s.prefix \in BOOLEAN /\ s.shift \in BOOLEAN /\ s.lock \in BOOLEAN
      /\ s.out \in Seq(Characters)
  BY Zenon DEF States
<1>2. CASE b.prefix
  <2>1. After(s, b) = [prefix |-> TRUE, shift |-> s.shift, lock |-> s.lock, out |-> s.out]
    BY <1>2, Zenon DEF After
  <2>2. After(s, b) \in States
    BY ONLY <1>1, <2>1 DEF States
  <2>3. After(s, b).out = s.out
    BY ONLY <2>1
  <2>. QED
    BY <1>1, <2>2, <2>3, WithinLonger
<1>3. CASE ~b.prefix
  <2>1. b.code \in Codes /\ b.release \in BOOLEAN
    <3>1. Prefix.prefix = TRUE
      BY DEF Prefix
    <3>2. b \in [prefix : {FALSE}, code : Codes, release : BOOLEAN]
      BY ONLY <1>3, <3>1, b \in Bytes, Zenon DEF Bytes
    <3>. QED
      BY ONLY <3>2
  <2>2. PICK key : key = [code |-> b.code, extended |-> s.prefix]
    OBVIOUS
  <2>3. key.code \in Codes /\ key.extended \in BOOLEAN
    BY ONLY <1>1, <2>1, <2>2, Zenon
  <2>4. PICK said : said = Says(key, s.shift, s.lock)
    OBVIOUS
  <2>5. said \in Seq(Characters)
    BY <1>1, <2>3, <2>4, SaysType
  <2>6. OutAfter(s, b) = IF b.release THEN s.out ELSE s.out \o said
    BY ONLY <2>2, <2>4, Zenon DEF OutAfter
  <2>7. s.out \o said \in Seq(Characters) /\ Within(s.out, s.out \o said)
        /\ Within(s.out, s.out)
    BY <1>1, <2>5, WithinLonger
  <2>8. OutAfter(s, b) \in Seq(Characters) /\ Within(s.out, OutAfter(s, b))
    BY ONLY <1>1, <2>6, <2>7, Zenon
  <2>9. ShiftAfter(s, b) \in BOOLEAN /\ LockAfter(s, b) \in BOOLEAN
    BY <1>1, <2>1, Zenon DEF ShiftAfter, LockAfter
  <2>10. After(s, b) = [prefix |-> FALSE, shift |-> ShiftAfter(s, b),
                        lock |-> LockAfter(s, b), out |-> OutAfter(s, b)]
    BY <1>3, Zenon DEF After
  <2>11. After(s, b) \in States
    BY ONLY <2>8, <2>9, <2>10 DEF States
  <2>12. After(s, b).out = OutAfter(s, b)
    BY ONLY <2>10
  <2>. QED
    BY ONLY <2>8, <2>11, <2>12, Zenon
<1>. QED
  BY <1>2, <1>3, Zenon

LEMMA RunEnds ==
    ASSUME NEW w \in Seq(Bytes), NEW s, NEW t, Runs(s, w, t)
    PROVE  s \in States /\ t \in States /\ Within(s.out, t.out)
<1>1. PICK R : IsRun(R, w, t) /\ R[0] = s
  BY DEF Runs
<1>2. Len(w) \in Nat
  OBVIOUS
<1>3. 0 \in 0 .. Len(w) /\ Len(w) \in 0 .. Len(w)
  BY ONLY <1>2
<1>. QED
  BY <1>1, <1>3, Zenon DEF IsRun

LEMMA NothingSent ==
    ASSUME NEW s \in States
    PROVE  Runs(s, <<>>, s)
<1>1. PICK R : R = [i \in 0 .. 0 |-> s]
  OBVIOUS
<1>2. R \in [0 .. Len(<<>>) -> States] /\ R[0] = s /\ R[Len(<<>>)] = s
  BY <1>1
<1>3. Within(s.out, s.out)
  <2>1. s.out \in Seq(Characters)
    BY DEF States
  <2>. QED
    BY <2>1, WithinLonger
<1>4. \A i \in 0 .. Len(<<>>) : R[i] = s
  BY <1>1
<1>5. 1 .. Len(<<>>) = {}
  OBVIOUS
<1>6. IsRun(R, <<>>, s)
  BY ONLY <1>2, <1>3, <1>4, <1>5, Zenon DEF IsRun
<1>. QED
  BY ONLY <1>2, <1>6, Zenon DEF Runs

\* A byte that is sent is a step more at the end of the run.
LEMMA OneMore ==
    ASSUME NEW w \in Seq(Bytes), NEW s, NEW t, Runs(s, w, t), NEW b \in Bytes
    PROVE  Append(w, b) \in Seq(Bytes) /\ Runs(s, Append(w, b), After(t, b))
<1>1. PICK R : IsRun(R, w, t) /\ R[0] = s
  BY DEF Runs
<1>2. PICK n, x, u : n = Len(w) /\ x = Append(w, b) /\ u = After(t, b)
  OBVIOUS
<1>3. /\ n \in Nat /\ x \in Seq(Bytes) /\ Len(x) = n + 1 /\ x[n + 1] = b
      /\ \A i \in 1 .. n : x[i] = w[i]
  BY <1>2
<1>4. t \in States /\ u \in States /\ Within(t.out, u.out)
  BY <1>2, AfterType, RunEnds
<1>5. PICK Q : Q = [i \in 0 .. n + 1 |-> IF i = n + 1 THEN u ELSE R[i]]
  OBVIOUS
<1>6. /\ R \in [0 .. n -> States] /\ R[n] = t
      /\ \A i \in 1 .. n : R[i] = After(R[i - 1], w[i])
      /\ \A i \in 0 .. n : Within(R[i].out, t.out)
  BY <1>1, <1>2, Zenon DEF IsRun
<1>7. Q[n + 1] = u /\ \A i \in 0 .. n : Q[i] = R[i]
  BY <1>3, <1>5
<1>8. Q \in [0 .. n + 1 -> States]
  BY <1>3, <1>4, <1>5, <1>6
<1>9. ASSUME NEW i \in 1 .. n + 1 PROVE Q[i] = After(Q[i - 1], x[i])
  <2>1. CASE i = n + 1
    <3>1. Q[i] = u /\ Q[i - 1] = t /\ x[i] = b
      BY <1>3, <1>6, <1>7, <2>1
    <3>. QED
      BY <1>2, <3>1, Zenon
  <2>2. CASE i # n + 1
    <3>1. i \in 1 .. n /\ i \in 0 .. n /\ i - 1 \in 0 .. n
      BY <1>3, <2>2
    <3>. QED
      BY <1>3, <1>6, <1>7, <3>1, Zenon
  <2>. QED
    BY <2>1, <2>2
<1>10. ASSUME NEW i \in 0 .. n + 1 PROVE Within(Q[i].out, u.out)
  <2>1. \A z \in States : z.out \in Seq(Characters)
    BY DEF States
  <2>2. CASE i = n + 1
    BY <1>4, <1>7, <2>1, <2>2, WithinLonger
  <2>3. CASE i # n + 1
    <3>1. i \in 0 .. n
      BY <1>3, <2>3
    <3>2. Q[i] = R[i] /\ R[i] \in States /\ Within(R[i].out, t.out)
      BY <1>6, <1>7, <3>1
    <3>. QED
      BY <1>4, <2>1, <3>2, WithinTransitive
  <2>. QED
    BY <2>2, <2>3
<1>11. IsRun(Q, x, u)
  BY ONLY <1>3, <1>7, <1>8, <1>9, <1>10, Zenon DEF IsRun
<1>12. Q[0] = s
  BY <1>1, <1>3, <1>7
<1>. QED
  BY ONLY <1>2, <1>3, <1>11, <1>12, Zenon DEF Runs

\* A byte that is handled was the first step of the run.
LEMMA OneLess ==
    ASSUME NEW w \in Seq(Bytes), w # <<>>, NEW s, NEW t, Runs(s, w, t)
    PROVE  Tail(w) \in Seq(Bytes) /\ Head(w) \in Bytes /\ Runs(After(s, Head(w)), Tail(w), t)
<1>1. PICK R : IsRun(R, w, t) /\ R[0] = s
  BY DEF Runs
<1>2. PICK n, x : n = Len(Tail(w)) /\ x = Tail(w)
  OBVIOUS
<1>3. /\ n \in Nat /\ x \in Seq(Bytes) /\ Len(x) = n /\ Len(w) = n + 1 /\ Head(w) = w[1]
      /\ Head(w) \in Bytes /\ \A i \in 1 .. n : x[i] = w[i + 1]
  BY <1>2
<1>4. PICK Q : Q = [i \in 0 .. n |-> R[i + 1]]
  OBVIOUS
<1>5. /\ R \in [0 .. n + 1 -> States] /\ R[n + 1] = t
      /\ \A i \in 1 .. n + 1 : R[i] = After(R[i - 1], w[i])
      /\ \A i \in 0 .. n + 1 : Within(R[i].out, t.out)
  BY <1>1, <1>3, Zenon DEF IsRun
<1>6. /\ Q \in [0 .. n -> States] /\ Q[n] = t /\ Q[0] = R[1]
      /\ \A i \in 0 .. n : Q[i] = R[i + 1] /\ i + 1 \in 0 .. n + 1
  BY <1>3, <1>4, <1>5
<1>7. ASSUME NEW i \in 1 .. n PROVE Q[i] = After(Q[i - 1], x[i])
  <2>1. /\ i + 1 \in 1 .. n + 1 /\ (i + 1) - 1 = i /\ i - 1 \in 0 .. n /\ i \in 0 .. n
        /\ (i - 1) + 1 = i
    BY <1>3
  <2>2. Q[i] = R[i + 1] /\ Q[i - 1] = R[i]
    BY ONLY <1>6, <2>1, Zenon
  <2>3. R[i + 1] = After(R[i], w[i + 1])
    BY ONLY <1>5, <2>1, Zenon
  <2>. QED
    BY <1>3, <2>2, <2>3
<1>8. \A i \in 0 .. n : Within(Q[i].out, t.out)
  BY <1>5, <1>6, Zenon
<1>9. Q[0] = After(s, Head(w))
  <2>1. R[1] = After(R[0], w[1])
    <3>1. 1 \in 1 .. n + 1 /\ 1 - 1 = 0
      BY <1>3
    <3>. QED
      BY ONLY <1>5, <3>1, Zenon
  <2>. QED
    BY ONLY <1>1, <1>3, <1>6, <2>1, Zenon
<1>10. IsRun(Q, x, t)
  BY ONLY <1>3, <1>6, <1>7, <1>8, Zenon DEF IsRun
<1>. QED
  BY ONLY <1>2, <1>3, <1>9, <1>10, Zenon DEF Runs

--------------------------------------------------------------------------------
\* What a key does that is pressed, repeated or released, all its bytes together.
Done(t, key, release) ==
    [prefix |-> FALSE,
     shift  |-> IF ~key.extended /\ key.code \in Shifts THEN ~release ELSE t.shift,
     lock   |-> IF ~key.extended /\ key.code = "caps" /\ ~release THEN ~t.lock ELSE t.lock,
     out    |-> IF release THEN t.out ELSE t.out \o Says(key, t.shift, t.lock)]

LEMMA ByteFields ==
    ASSUME NEW code \in Codes, NEW release \in BOOLEAN
    PROVE  /\ Prefix \in Bytes /\ Prefix.prefix = TRUE
           /\ Byte(code, release) \in Bytes /\ Byte(code, release).prefix = FALSE
           /\ Byte(code, release).code = code /\ Byte(code, release).release = release
  BY DEF Bytes, Prefix, Byte

LEMMA KeyFields ==
    ASSUME NEW key \in Keys
    PROVE  /\ key.code \in Codes /\ key.extended \in BOOLEAN
           /\ key = [code |-> key.code, extended |-> key.extended]
           /\ key.code \in Shifts => ~key.extended
           /\ key.code = "caps" => ~key.extended
<1>1. key \in [code : Codes, extended : {FALSE}] \/
      key \in [code : Arrows \cup Symbols, extended : {TRUE}]
  BY DEF Keys
<1>2. CASE key \in [code : Codes, extended : {FALSE}]
  BY <1>2
<1>3. CASE key \in [code : Arrows \cup Symbols, extended : {TRUE}]
  <2>1. key.code \in Arrows \cup Symbols /\ key.extended = TRUE
        /\ key = [code |-> key.code, extended |-> key.extended]
    BY <1>3
  <2>2. Symbols \cap (Shifts \cup {"caps"}) = {}
    BY KeyboardAssumption
  <2>3. key.code \notin Shifts /\ key.code # "caps"
    BY <2>1, <2>2 DEF Arrows, Shifts
  <2>4. key.code \in Codes
    BY <2>1 DEF Codes
  <2>. QED
    BY ONLY <2>1, <2>3, <2>4
<1>. QED
  BY ONLY <1>1, <1>2, <1>3, Zenon

\* A byte with or without its prefix.
LEMMA AfterKey ==
    ASSUME NEW t \in States, ~t.prefix, NEW key \in Keys, NEW release \in BOOLEAN,
           NEW b, b = Byte(key.code, release)
    PROVE  /\ key.extended => After(After(t, Prefix), b) = Done(t, key, release)
           /\ ~key.extended => After(t, b) = Done(t, key, release)
<1>1. /\ b.prefix = FALSE /\ b.code = key.code /\ b.release = release
      /\ Prefix.prefix = TRUE
  BY ByteFields, KeyFields
<1>2. ASSUME NEW u, u.prefix = key.extended, u.shift = t.shift, u.lock = t.lock, u.out = t.out
      PROVE  After(u, b) = Done(t, key, release)
  <2>1. key = [code |-> b.code, extended |-> u.prefix]
    BY ONLY <1>1, <1>2, KeyFields, key \in Keys, Zenon
  <2>2. OutAfter(u, b) = IF release THEN t.out ELSE t.out \o Says(key, t.shift, t.lock)
    BY ONLY <1>1, <1>2, <2>1, Zenon DEF OutAfter
  <2>3. ShiftAfter(u, b) = IF ~key.extended /\ key.code \in Shifts THEN ~release ELSE t.shift
    BY ONLY <1>1, <1>2, Zenon DEF ShiftAfter
  <2>4. LockAfter(u, b) =
            IF ~key.extended /\ key.code = "caps" /\ ~release THEN ~t.lock ELSE t.lock
    BY ONLY <1>1, <1>2, Zenon DEF LockAfter
  <2>5. After(u, b) = [prefix |-> FALSE, shift |-> ShiftAfter(u, b),
                       lock |-> LockAfter(u, b), out |-> OutAfter(u, b)]
    BY ONLY <1>1, Zenon DEF After
  <2>. QED
    BY ONLY <2>2, <2>3, <2>4, <2>5, Zenon DEF Done
<1>3. ASSUME key.extended PROVE After(After(t, Prefix), b) = Done(t, key, release)
  <2>1. After(t, Prefix) =
            [prefix |-> TRUE, shift |-> t.shift, lock |-> t.lock, out |-> t.out]
    BY <1>1, Zenon DEF After
  <2>2. PICK u : u = After(t, Prefix)
    OBVIOUS
  <2>3. u.prefix = TRUE /\ u.shift = t.shift /\ u.lock = t.lock /\ u.out = t.out
    BY ONLY <2>1, <2>2
  <2>4. key.extended = TRUE
    BY <1>3, KeyFields
  <2>. QED
    BY ONLY <1>2, <2>2, <2>3, <2>4, Zenon
<1>4. ASSUME ~key.extended PROVE After(t, b) = Done(t, key, release)
  <2>1. t.prefix = FALSE /\ key.extended = FALSE
    BY <1>4, KeyFields DEF States
  <2>. QED
    BY ONLY <1>2, <2>1, Zenon
<1>. QED
  BY ONLY <1>3, <1>4, Zenon

LEMMA DoneType ==
    ASSUME NEW t \in States, ~t.prefix, NEW key \in Keys, NEW release \in BOOLEAN
    PROVE  Done(t, key, release) \in States /\ ~Done(t, key, release).prefix
<1>1. PICK b : b = Byte(key.code, release)
  OBVIOUS
<1>2. b \in Bytes /\ Prefix \in Bytes
  BY <1>1, ByteFields, KeyFields
<1>3. After(t, Prefix) \in States
  BY <1>2, AfterType
<1>4. After(After(t, Prefix), b) \in States /\ After(t, b) \in States
  BY <1>2, <1>3, AfterType
<1>5. Done(t, key, release) \in States
  BY <1>1, <1>4, AfterKey, KeyFields
<1>6. Done(t, key, release).prefix = FALSE
  BY DEF Done
<1>. QED
  BY <1>5, <1>6

\* What is sent around an extended key to undo shift has no effect.
LEMMA UndoneIsNothing ==
    ASSUME NEW t \in States, ~t.prefix, NEW release \in BOOLEAN
    PROVE  After(After(t, Prefix), Byte("lshift", release)) = t
<1>1. PICK b, u : b = Byte("lshift", release) /\ u = After(t, Prefix)
  OBVIOUS
<1>2. "lshift" \in Codes /\ "lshift" \notin Arrows
  BY DEF Codes, Shifts, Arrows
<1>3. /\ b.prefix = FALSE /\ b.code = "lshift" /\ b.release = release
      /\ Prefix.prefix = TRUE
  BY <1>1, <1>2, ByteFields
<1>4. u = [prefix |-> TRUE, shift |-> t.shift, lock |-> t.lock, out |-> t.out]
  BY <1>1, <1>3, Zenon DEF After
<1>5. u.prefix = TRUE /\ u.shift = t.shift /\ u.lock = t.lock /\ u.out = t.out
  BY ONLY <1>4
<1>6. PICK key : key = [code |-> b.code, extended |-> u.prefix]
  OBVIOUS
<1>7. key.extended = TRUE /\ key.code = "lshift"
  BY ONLY <1>3, <1>5, <1>6
<1>8. Says(key, u.shift, u.lock) = <<>>
  BY ONLY <1>2, <1>7, Zenon DEF Says
<1>9. t.out \o <<>> = t.out
  BY DEF States
<1>10. OutAfter(u, b) = t.out
  BY ONLY <1>5, <1>6, <1>8, <1>9, Zenon DEF OutAfter
<1>11. ShiftAfter(u, b) = t.shift /\ LockAfter(u, b) = t.lock
  BY ONLY <1>5, Zenon DEF ShiftAfter, LockAfter
<1>12. After(u, b) = [prefix |-> FALSE, shift |-> ShiftAfter(u, b),
                      lock |-> LockAfter(u, b), out |-> OutAfter(u, b)]
  BY ONLY <1>3, Zenon DEF After
<1>13. t = [prefix |-> FALSE, shift |-> t.shift, lock |-> t.lock, out |-> t.out]
  BY DEF States
<1>. QED
  BY ONLY <1>1, <1>10, <1>11, <1>12, <1>13, Zenon

LEMMA TwoMore ==
    ASSUME NEW w \in Seq(Bytes), NEW s, NEW t, Runs(s, w, t),
           NEW b \in Bytes, NEW c \in Bytes
    PROVE  /\ w \o <<b, c>> \in Seq(Bytes)
           /\ Runs(s, w \o <<b, c>>, After(After(t, b), c))
<1>1. Append(w, b) \in Seq(Bytes) /\ Runs(s, Append(w, b), After(t, b))
  BY OneMore
<1>2. /\ Append(Append(w, b), c) \in Seq(Bytes)
      /\ Runs(s, Append(Append(w, b), c), After(After(t, b), c))
  BY <1>1, OneMore
<1>3. w \o <<b, c>> = Append(Append(w, b), c)
  OBVIOUS
<1>. QED
  BY ONLY <1>2, <1>3, Zenon

LEMMA SendsRun ==
    ASSUME NEW w \in Seq(Bytes), NEW s, NEW t, Runs(s, w, t), ~t.prefix,
           NEW key \in Keys, NEW release \in BOOLEAN, NEW undo \in Undo(key),
           NEW x, x = w \o undo \o Sent(key, release)
    PROVE  x \in Seq(Bytes) /\ Runs(s, x, Done(t, key, release))
<1>1. t \in States
  BY RunEnds
<1>2. PICK v : v = w \o undo
  OBVIOUS
<1>3. v \in Seq(Bytes) /\ Runs(s, v, t)
  <2>1. CASE undo = <<>>
    <3>1. w \o <<>> = w
      OBVIOUS
    <3>2. v = w
      BY ONLY <1>2, <2>1, <3>1, Zenon
    <3>. QED
      BY <3>2
  <2>2. ASSUME NEW r \in BOOLEAN, undo = <<Prefix, Byte("lshift", r)>>
        PROVE  v \in Seq(Bytes) /\ Runs(s, v, t)
    <3>1. "lshift" \in Codes
      BY DEF Codes, Shifts
    <3>2. PICK b : b = Byte("lshift", r)
      OBVIOUS
    <3>3. Prefix \in Bytes /\ b \in Bytes
      BY <3>1, <3>2, ByteFields
    <3>4. w \o <<Prefix, b>> \in Seq(Bytes)
          /\ Runs(s, w \o <<Prefix, b>>, After(After(t, Prefix), b))
      BY <3>3, TwoMore
    <3>5. After(After(t, Prefix), b) = t
      BY <1>1, <3>2, UndoneIsNothing
    <3>. QED
      BY ONLY <1>2, <2>2, <3>2, <3>4, <3>5, Zenon
  <2>. QED
    BY <2>1, <2>2, Zenon DEF Undo
<1>4. PICK b : b = Byte(key.code, release)
  OBVIOUS
<1>5. Prefix \in Bytes /\ b \in Bytes
  BY <1>4, ByteFields, KeyFields
<1>6. CASE key.extended
  <2>1. x = v \o <<Prefix, b>>
    BY ONLY <1>2, <1>4, <1>6, x = w \o undo \o Sent(key, release), Zenon DEF Sent
  <2>2. v \o <<Prefix, b>> \in Seq(Bytes)
        /\ Runs(s, v \o <<Prefix, b>>, After(After(t, Prefix), b))
    BY <1>3, <1>5, TwoMore
  <2>3. After(After(t, Prefix), b) = Done(t, key, release)
    BY <1>1, <1>4, <1>6, AfterKey
  <2>. QED
    BY ONLY <2>1, <2>2, <2>3, Zenon
<1>7. CASE ~key.extended
  <2>1. x = v \o <<b>>
    BY ONLY <1>2, <1>4, <1>7, x = w \o undo \o Sent(key, release), Zenon DEF Sent
  <2>2. v \o <<b>> = Append(v, b)
    BY <1>3, <1>5
  <2>3. Append(v, b) \in Seq(Bytes) /\ Runs(s, Append(v, b), After(t, b))
    BY <1>3, <1>5, OneMore
  <2>4. After(t, b) = Done(t, key, release)
    BY <1>1, <1>4, <1>7, AfterKey
  <2>. QED
    BY ONLY <2>1, <2>2, <2>3, <2>4, Zenon
<1>. QED
  BY <1>6, <1>7

\* The handler does with its variables what After says.
LEMMA HandlerSteps ==
    ASSUME wire # <<>>, wire \in Seq(Bytes), Now \in States, keyboard_handler
    PROVE  Now' = After(Now, Head(wire)) /\ wire' = Tail(wire)
<1>1. PICK b : b = Head(wire)
  OBVIOUS
<1>2. b \in Bytes
  BY <1>1
<1>3. /\ Now.prefix = extended_prefix /\ Now.shift = shift_held /\ Now.lock = capslock_on
      /\ Now.out = typed
  BY DEF Now
<1>4. extended_prefix' = b.prefix
  BY <1>1, Zenon DEF keyboard_handler, PrefixAfter
<1>5. CASE b.prefix
  <2>1. b.prefix = TRUE
    BY <1>2, <1>5 DEF Bytes, Prefix
  <2>2. shift_held' = shift_held /\ capslock_on' = capslock_on /\ typed' = typed
    BY <1>1, <1>5, Zenon DEF keyboard_handler
  <2>3. Now' = [prefix |-> TRUE, shift |-> shift_held, lock |-> capslock_on, out |-> typed]
    BY ONLY <1>4, <2>1, <2>2, Zenon DEF Now
  <2>4. After(Now, b) =
            [prefix |-> TRUE, shift |-> Now.shift, lock |-> Now.lock, out |-> Now.out]
    BY ONLY <1>5, Zenon DEF After
  <2>. QED
    BY <1>1, <1>3, <2>3, <2>4, Zenon DEF keyboard_handler
<1>6. CASE ~b.prefix
  <2>1. b.prefix = FALSE /\ b.code \in Codes /\ b.release \in BOOLEAN
    <3>1. Prefix.prefix = TRUE
      BY DEF Prefix
    <3>2. b \in [prefix : {FALSE}, code : Codes, release : BOOLEAN]
      BY ONLY <1>2, <1>6, <3>1, Zenon DEF Bytes
    <3>. QED
      BY ONLY <3>2
  <2>2. /\ typed' = typed \o Pushed(b, extended_prefix)
        /\ shift_held' = IF IsShift(b.code, extended_prefix) THEN ~b.release ELSE shift_held
        /\ capslock_on' = IF ~extended_prefix /\ b.code = "caps" /\ ~b.release
                            THEN ~capslock_on ELSE capslock_on
    BY <1>1, <1>6, Zenon DEF keyboard_handler
  <2>3. shift_held' = ShiftAfter(Now, b) /\ capslock_on' = LockAfter(Now, b)
    BY ONLY <1>3, <2>2, Zenon DEF ShiftAfter, LockAfter, IsShift
  <2>4. typed' = OutAfter(Now, b)
    <3>1. PICK key : key = [code |-> b.code, extended |-> Now.prefix]
      OBVIOUS
    <3>2. key.code = b.code /\ key.extended = extended_prefix
      BY <1>3, <3>1
    <3>3. b.release => Pushed(b, extended_prefix) = <<>> /\ typed \o <<>> = typed
      <4>1. typed \in Seq(Characters)
        BY <1>3 DEF States
      <4>. QED
        BY <4>1 DEF Pushed
    <3>4. ~b.release =>
            Pushed(b, extended_prefix) = Says(key, shift_held, capslock_on)
      BY ONLY <3>2, Zenon DEF Pushed, Says, HasCharacter, Shifted
    <3>. QED
      BY ONLY <1>3, <2>2, <3>1, <3>3, <3>4, Zenon DEF OutAfter
  <2>5. Now' = [prefix |-> FALSE, shift |-> ShiftAfter(Now, b), lock |-> LockAfter(Now, b),
                out |-> OutAfter(Now, b)]
    BY ONLY <1>4, <2>1, <2>3, <2>4, Zenon DEF Now
  <2>. QED
    BY <1>1, <1>6, <2>5, Zenon DEF After, keyboard_handler
<1>. QED
  BY <1>5, <1>6

--------------------------------------------------------------------------------
NoKeyTwice == \A i, j \in DOMAIN down : down[i] = down[j] => i = j

\* The state in which the handler will be agrees with the keys.  While nothing
\* untidy has been done it agrees in every respect.
Agrees(t) ==
    /\ ~t.prefix
    /\ ShiftsHeld = {} => ~t.shift
    /\ ~untidy => /\ t.shift = (ShiftsHeld # {})
                  /\ t.lock = caps
                  /\ t.out = meant
                  /\ \A a, b \in ShiftsHeld : a = b

KeyboardInv ==
    /\ down \in Seq(Keys) /\ NoKeyTwice
    /\ wire \in Seq(Bytes)
    /\ caps \in BOOLEAN /\ untidy \in BOOLEAN
    /\ \E t : Runs(Now, wire, t) /\ Agrees(t)

LEMMA PressHolds ==
    ASSUME down \in Seq(Keys), NoKeyTwice, NEW key \in Keys, key \notin Held,
           down' = Append(down, key)
    PROVE  down' \in Seq(Keys) /\ NoKeyTwice' /\ Held' = Held \cup {key}
<1>1. PICK n : n = Len(down)
  OBVIOUS
<1>2. /\ n \in Nat /\ DOMAIN down = 1 .. n /\ DOMAIN down' = 1 .. n + 1
      /\ down'[n + 1] = key /\ \A i \in 1 .. n : down'[i] = down[i]
      /\ down' \in Seq(Keys)
  BY <1>1
<1>3. \A i \in 1 .. n : down[i] # key
  BY <1>2 DEF Held
<1>4. NoKeyTwice'
  BY <1>2, <1>3 DEF NoKeyTwice
<1>5. 1 .. n + 1 = (1 .. n) \cup {n + 1}
  BY <1>2
<1>6. Held' = Held \cup {key}
  BY ONLY <1>2, <1>5 DEF Held
<1>. QED
  BY <1>2, <1>4, <1>6

LEMMA ReleaseHolds ==
    ASSUME down \in Seq(Keys), NoKeyTwice, NEW i \in DOMAIN down, down' = RemoveAt(down, i)
    PROVE  down' \in Seq(Keys) /\ NoKeyTwice' /\ Held' = Held \ {down[i]}
<1>1. PICK n : n = Len(down)
  OBVIOUS
<1>2. n \in Nat /\ DOMAIN down = 1 .. n /\ i \in 1 .. n
  BY <1>1
<1>3. /\ down' \in Seq(Keys) /\ Len(down') = n - 1
      /\ \A k \in 1 .. n - 1 : down'[k] = IF k < i THEN down[k] ELSE down[k + 1]
  <2>1. PICK a, b : a = SubSeq(down, 1, i - 1) /\ b = SubSeq(down, i + 1, Len(down))
    OBVIOUS
  <2>2. /\ a \in Seq(Keys) /\ Len(a) = i - 1 /\ b \in Seq(Keys) /\ Len(b) = n - i
        /\ \A k \in 1 .. i - 1 : a[k] = down[k]
        /\ \A k \in 1 .. n - i : b[k] = down[k + i]
    <3>1. PICK d, q : d = down /\ q = i - 1
      OBVIOUS
    <3>2. d \in Seq(Keys) /\ Len(d) = n /\ n \in Nat /\ i \in 1 .. n /\ q \in Nat /\ q < n
      BY <1>1, <1>2, <3>1
    <3>3. /\ SubSeq(d, 1, q) \in Seq(Keys) /\ Len(SubSeq(d, 1, q)) = q
          /\ \A k \in 1 .. q : SubSeq(d, 1, q)[k] = d[k]
      BY ONLY <3>2
    <3>4. /\ SubSeq(d, i + 1, n) \in Seq(Keys) /\ Len(SubSeq(d, i + 1, n)) = n - i
          /\ \A k \in 1 .. n - i : SubSeq(d, i + 1, n)[k] = d[k + i]
      BY ONLY <3>2
    <3>5. a = SubSeq(d, 1, q) /\ b = SubSeq(d, i + 1, n)
      BY ONLY <1>1, <2>1, <3>1, Zenon
    <3>. QED
      BY ONLY <3>1, <3>3, <3>4, <3>5, Zenon
  <2>3. down' = a \o b
    BY <2>1 DEF RemoveAt
  <2>4. /\ a \o b \in Seq(Keys) /\ Len(a \o b) = n - 1
        /\ \A k \in 1 .. n - 1 : (a \o b)[k] = IF k < i THEN a[k] ELSE b[k - (i - 1)]
    <3>1. PICK u, v : u = i - 1 /\ v = n - i
      OBVIOUS
    <3>2. u \in Nat /\ v \in Nat /\ u + v = n - 1 /\ Len(a) = u /\ Len(b) = v
          /\ \A k \in Nat : k < i <=> k <= u
      BY <1>2, <2>2, <3>1
    <3>3. /\ a \o b \in Seq(Keys) /\ Len(a \o b) = u + v
          /\ \A k \in 1 .. u + v : (a \o b)[k] = IF k <= u THEN a[k] ELSE b[k - u]
      BY ONLY <2>2, <3>2
    <3>4. \A k \in 1 .. n - 1 : k \in 1 .. u + v /\ k \in Nat
      BY ONLY <1>2, <3>2
    <3>. QED
      BY ONLY <3>1, <3>2, <3>3, <3>4, Zenon
  <2>5. ASSUME NEW k \in 1 .. n - 1
        PROVE  (a \o b)[k] = IF k < i THEN down[k] ELSE down[k + 1]
    <3>1. CASE k < i
      <4>1. k \in 1 .. i - 1
        BY <1>2, <3>1
      <4>. QED
        BY ONLY <2>2, <2>4, <2>5, <3>1, <4>1, Zenon
    <3>2. CASE ~(k < i)
      <4>1. k - (i - 1) \in 1 .. n - i /\ (k - (i - 1)) + i = k + 1
        BY <1>2, <3>2
      <4>. QED
        BY ONLY <2>2, <2>4, <2>5, <3>2, <4>1, Zenon
    <3>. QED
      BY <3>1, <3>2
  <2>. QED
    BY ONLY <2>3, <2>4, <2>5, Zenon
<1>4. DOMAIN down' = 1 .. n - 1
  BY <1>3
<1>5. NoKeyTwice'
  <2>1. \A x, y \in 1 .. n : down[x] = down[y] => x = y
    BY <1>2, Zenon DEF NoKeyTwice
  <2>2. ASSUME NEW x \in 1 .. n - 1, NEW y \in 1 .. n - 1, down'[x] = down'[y]
        PROVE  x = y
    <3>1. PICK u, v : /\ u = IF x < i THEN x ELSE x + 1
                      /\ v = IF y < i THEN y ELSE y + 1
      OBVIOUS
    <3>2. u \in 1 .. n /\ v \in 1 .. n
      BY <1>2, <3>1
    <3>3. down'[x] = down[u] /\ down'[y] = down[v]
      BY ONLY <1>3, <3>1, x \in 1 .. n - 1, y \in 1 .. n - 1, Zenon
    <3>4. u = v
      BY ONLY <2>1, <2>2, <3>2, <3>3, Zenon
    <3>. QED
      BY <1>2, <3>1, <3>4
  <2>. QED
    BY ONLY <1>4, <2>2, Zenon DEF NoKeyTwice
<1>6. ASSUME NEW x \in Held' PROVE x \in Held /\ x # down[i]
  <2>1. PICK k \in 1 .. n - 1 : x = down'[k]
    BY <1>4 DEF Held
  <2>2. PICK j \in 1 .. n : x = down[j] /\ j # i
    BY <1>2, <1>3, <2>1
  <2>. QED
    BY <1>2, <2>2 DEF Held, NoKeyTwice
<1>7. ASSUME NEW x \in Held, x # down[i] PROVE x \in Held'
  <2>1. PICK j \in 1 .. n : x = down[j] /\ j # i
    BY <1>2, <1>7 DEF Held
  <2>2. PICK k \in 1 .. n - 1 : down'[k] = down[j]
    <3>1. CASE j < i
      BY <1>2, <1>3, <3>1
    <3>2. CASE j > i
      <4>1. j - 1 \in 1 .. n - 1 /\ ~(j - 1 < i) /\ (j - 1) + 1 = j
        BY <1>2, <3>2
      <4>. QED
        BY <1>3, <4>1
    <3>. QED
      BY <1>2, <2>1, <3>1, <3>2
  <2>. QED
    BY <1>4, <2>1, <2>2 DEF Held
<1>. QED
  BY <1>3, <1>5, <1>6, <1>7

LEMMA SendsLonger ==
    ASSUME wire \in Seq(Bytes), NEW t, Runs(Now, wire, t), ~t.prefix,
           NEW key \in Keys, NEW release \in BOOLEAN, Sends(key, release), UNCHANGED handler
    PROVE  wire' \in Seq(Bytes) /\ Runs(Now', wire', Done(t, key, release))
<1>1. Now' = Now
  BY DEF handler, Now
<1>2. PICK undo \in Undo(key) : wire' = wire \o undo \o Sent(key, release)
  BY Zenon DEF Sends
<1>3. PICK x : x = wire'
  OBVIOUS
<1>4. x \in Seq(Bytes) /\ Runs(Now, x, Done(t, key, release))
  BY <1>2, <1>3, SendsRun
<1>. QED
  BY ONLY <1>1, <1>3, <1>4, Zenon

LEMMA DoneFields ==
    ASSUME NEW t, NEW key \in Keys, NEW release
    PROVE  /\ Done(t, key, release).prefix = FALSE
           /\ Done(t, key, release).shift =
                  IF key.code \in Shifts THEN ~release ELSE t.shift
           /\ Done(t, key, release).lock =
                  IF key.code = "caps" /\ ~release THEN ~t.lock ELSE t.lock
           /\ Done(t, key, release).out =
                  IF release THEN t.out ELSE t.out \o Says(key, t.shift, t.lock)
<1>1. PICK a, b, c : /\ a = IF ~key.extended /\ key.code \in Shifts THEN ~release ELSE t.shift
                     /\ b = IF ~key.extended /\ key.code = "caps" /\ ~release
                              THEN ~t.lock ELSE t.lock
                     /\ c = IF release THEN t.out ELSE t.out \o Says(key, t.shift, t.lock)
  OBVIOUS
<1>2. Done(t, key, release) = [prefix |-> FALSE, shift |-> a, lock |-> b, out |-> c]
  BY <1>1, Zenon DEF Done
<1>3. /\ Done(t, key, release).prefix = FALSE /\ Done(t, key, release).shift = a
      /\ Done(t, key, release).lock = b /\ Done(t, key, release).out = c
  BY ONLY <1>2
<1>4. /\ key.code \in Shifts => ~key.extended
      /\ key.code = "caps" => ~key.extended
  BY KeyFields
<1>. QED
  BY ONLY <1>1, <1>3, <1>4, Zenon

\* What the key says to the handler is what it is meant to say.
LEMMA SaysMeant ==
    ASSUME NEW key, NEW t, t.shift = (ShiftsHeld # {}), t.lock = caps
    PROVE  Says(key, t.shift, t.lock) = Meant(key)
  BY Zenon DEF Says, Meant

LEMMA PressAgrees ==
    ASSUME KeyboardInv, NEW key \in Keys, Press(key), NEW t \in States, Agrees(t),
           NEW d, d = Done(t, key, FALSE)
    PROVE  Agrees(d)'
<1>1. /\ d.prefix = FALSE
      /\ d.shift = IF key.code \in Shifts THEN TRUE ELSE t.shift
      /\ d.lock = IF key.code = "caps" THEN ~t.lock ELSE t.lock
      /\ d.out = t.out \o Says(key, t.shift, t.lock)
  <2>1. /\ Done(t, key, FALSE).prefix = FALSE
        /\ Done(t, key, FALSE).shift = IF key.code \in Shifts THEN ~FALSE ELSE t.shift
        /\ Done(t, key, FALSE).lock = IF key.code = "caps" /\ ~FALSE THEN ~t.lock ELSE t.lock
        /\ Done(t, key, FALSE).out = IF FALSE THEN t.out ELSE t.out \o Says(key, t.shift, t.lock)
    BY ONLY DoneFields, key \in Keys
  <2>. QED
    BY ONLY <2>1, d = Done(t, key, FALSE), Zenon
<1>2. /\ key \notin Held /\ down' = Append(down, key)
      /\ meant' = meant \o Meant(key)
      /\ caps' = IF key.code = "caps" THEN ~caps ELSE caps
      /\ untidy' = (untidy \/ (key.code \in Shifts /\ ShiftsHeld # {}))
  BY Zenon DEF Press
<1>3. Held' = Held \cup {key}
  BY <1>2, PressHolds DEF KeyboardInv
<1>4. CASE key.code \in Shifts
  <2>1. ShiftsHeld' = ShiftsHeld \cup {key}
    BY <1>3, <1>4 DEF ShiftsHeld
  <2>2. d.shift = TRUE /\ key \in ShiftsHeld'
    BY <1>1, <1>4, <2>1
  <2>3. ASSUME ~untidy'
        PROVE  /\ ~untidy /\ ShiftsHeld = {} /\ d.lock = caps' /\ d.out = meant'
               /\ \A a, b \in ShiftsHeld' : a = b
    <3>1. ~untidy /\ ShiftsHeld = {}
      BY <1>2, <1>4, <2>3, Zenon
    <3>2. t.shift = (ShiftsHeld # {}) /\ t.lock = caps /\ t.out = meant
      BY <3>1, Zenon DEF Agrees
    <3>3. Says(key, t.shift, t.lock) = Meant(key)
      BY <3>2, SaysMeant
    <3>4. d.lock = caps' /\ d.out = meant'
      BY ONLY <1>1, <1>2, <3>2, <3>3, Zenon
    <3>. QED
      BY <2>1, <3>1, <3>4
  <2>. QED
    BY ONLY <1>1, <2>2, <2>3, Zenon DEF Agrees
<1>5. CASE key.code \notin Shifts
  <2>1. ShiftsHeld' = ShiftsHeld
    BY <1>3, <1>5 DEF ShiftsHeld
  <2>2. d.shift = t.shift
    BY <1>1, <1>5
  <2>3. ASSUME ~untidy'
        PROVE  /\ ~untidy /\ t.shift = (ShiftsHeld # {}) /\ d.lock = caps' /\ d.out = meant'
               /\ \A a, b \in ShiftsHeld : a = b
    <3>1. ~untidy
      BY <1>2, <2>3, Zenon
    <3>2. t.shift = (ShiftsHeld # {}) /\ t.lock = caps /\ t.out = meant
          /\ \A a, b \in ShiftsHeld : a = b
      BY <3>1, Zenon DEF Agrees
    <3>3. Says(key, t.shift, t.lock) = Meant(key)
      BY <3>2, SaysMeant
    <3>4. d.lock = caps' /\ d.out = meant'
      BY ONLY <1>1, <1>2, <3>2, <3>3, Zenon
    <3>. QED
      BY ONLY <3>1, <3>2, <3>4, Zenon
  <2>4. ShiftsHeld = {} => ~t.shift
    BY DEF Agrees
  <2>. QED
    BY ONLY <1>1, <2>1, <2>2, <2>3, <2>4, Zenon DEF Agrees
<1>. QED
  BY <1>4, <1>5

LEMMA RepeatAgrees ==
    ASSUME KeyboardInv, Repeat, NEW key \in Keys, key = down[Len(down)],
           NEW t \in States, Agrees(t), NEW d, d = Done(t, key, FALSE)
    PROVE  Agrees(d)'
<1>1. /\ d.prefix = FALSE
      /\ d.shift = IF key.code \in Shifts THEN TRUE ELSE t.shift
      /\ d.lock = IF key.code = "caps" THEN ~t.lock ELSE t.lock
      /\ d.out = t.out \o Says(key, t.shift, t.lock)
  <2>1. /\ Done(t, key, FALSE).prefix = FALSE
        /\ Done(t, key, FALSE).shift = IF key.code \in Shifts THEN ~FALSE ELSE t.shift
        /\ Done(t, key, FALSE).lock = IF key.code = "caps" /\ ~FALSE THEN ~t.lock ELSE t.lock
        /\ Done(t, key, FALSE).out = IF FALSE THEN t.out ELSE t.out \o Says(key, t.shift, t.lock)
    BY ONLY DoneFields, key \in Keys
  <2>. QED
    BY ONLY <2>1, d = Done(t, key, FALSE), Zenon
<1>2. /\ down # <<>> /\ down' = down /\ caps' = caps
      /\ meant' = meant \o Meant(key) /\ untidy' = (untidy \/ key.code = "caps")
  BY Zenon DEF Repeat
<1>3. ShiftsHeld' = ShiftsHeld
  BY <1>2, Zenon DEF ShiftsHeld, Held
<1>4. key.code \in Shifts => ShiftsHeld # {}
  <2>1. Len(down) \in DOMAIN down
    BY <1>2 DEF KeyboardInv
  <2>2. key \in Held
    BY <2>1, Zenon DEF Held
  <2>. QED
    BY <2>2, Zenon DEF ShiftsHeld
<1>5. ShiftsHeld = {} => ~t.shift
  BY DEF Agrees
<1>6. ASSUME ~untidy'
      PROVE  /\ d.shift = (ShiftsHeld # {}) /\ d.lock = caps /\ d.out = meant'
             /\ \A a, b \in ShiftsHeld : a = b
  <2>1. ~untidy /\ key.code # "caps"
    BY <1>2, <1>6, Zenon
  <2>2. t.shift = (ShiftsHeld # {}) /\ t.lock = caps /\ t.out = meant
        /\ \A a, b \in ShiftsHeld : a = b
    BY <2>1, Zenon DEF Agrees
  <2>3. Says(key, t.shift, t.lock) = Meant(key)
    BY <2>2, SaysMeant
  <2>4. d.lock = caps /\ d.out = meant'
    BY ONLY <1>1, <1>2, <2>1, <2>2, <2>3, Zenon
  <2>5. d.shift = (ShiftsHeld # {})
    BY ONLY <1>1, <1>4, <2>2, Zenon
  <2>. QED
    BY ONLY <2>2, <2>4, <2>5, Zenon
<1>7. ShiftsHeld = {} => ~d.shift
  BY ONLY <1>1, <1>4, <1>5, Zenon
<1>. QED
  BY ONLY <1>1, <1>2, <1>3, <1>6, <1>7, Zenon DEF Agrees

LEMMA ReleaseAgrees ==
    ASSUME KeyboardInv, NEW key \in Keys, Release(key), NEW t \in States, Agrees(t),
           NEW d, d = Done(t, key, TRUE)
    PROVE  Agrees(d)'
<1>1. /\ d.prefix = FALSE
      /\ d.shift = IF key.code \in Shifts THEN FALSE ELSE t.shift
      /\ d.lock = t.lock /\ d.out = t.out
  <2>1. /\ Done(t, key, TRUE).prefix = FALSE
        /\ Done(t, key, TRUE).shift = IF key.code \in Shifts THEN ~TRUE ELSE t.shift
        /\ Done(t, key, TRUE).lock = IF key.code = "caps" /\ ~TRUE THEN ~t.lock ELSE t.lock
        /\ Done(t, key, TRUE).out = IF TRUE THEN t.out ELSE t.out \o Says(key, t.shift, t.lock)
    BY ONLY DoneFields, key \in Keys
  <2>. QED
    BY ONLY <2>1, d = Done(t, key, TRUE), Zenon
<1>2. PICK i \in DOMAIN down : down[i] = key /\ down' = RemoveAt(down, i)
  BY Zenon DEF Release
<1>3. meant' = meant /\ caps' = caps /\ untidy' = untidy
  BY Zenon DEF Release
<1>4. Held' = Held \ {key}
  BY <1>2, ReleaseHolds DEF KeyboardInv
<1>5. ShiftsHeld' = ShiftsHeld \ {key}
  BY <1>4 DEF ShiftsHeld
<1>6. CASE key.code \in Shifts
  <2>1. key \in ShiftsHeld
    BY <1>2, <1>6 DEF ShiftsHeld, Held
  <2>2. (\A a, b \in ShiftsHeld : a = b) => ShiftsHeld' = {}
    BY <1>5, <2>1
  <2>. QED
    BY ONLY <1>1, <1>3, <1>6, <2>2, Agrees(t), Zenon DEF Agrees
<1>7. CASE key.code \notin Shifts
  <2>1. ShiftsHeld' = ShiftsHeld
    BY <1>5, <1>7 DEF ShiftsHeld
  <2>. QED
    BY ONLY <1>1, <1>3, <1>7, <2>1, Agrees(t), Zenon DEF Agrees
<1>. QED
  BY <1>6, <1>7

LEMMA InitInv ==
    ASSUME Init
    PROVE  KeyboardInv
<1>1. /\ down = <<>> /\ wire = <<>> /\ caps = FALSE /\ untidy = FALSE /\ meant = <<>>
      /\ Now = [prefix |-> FALSE, shift |-> FALSE, lock |-> FALSE, out |-> <<>>]
  BY DEF Init, Now
<1>2. PICK t : t = Now
  OBVIOUS
<1>3. /\ t \in States
      /\ t.prefix = FALSE /\ t.shift = FALSE /\ t.lock = FALSE /\ t.out = <<>>
  BY <1>1, <1>2 DEF States
<1>4. Held = {}
  BY <1>1 DEF Held
<1>5. ShiftsHeld = {} /\ NoKeyTwice
  BY <1>1, <1>4 DEF ShiftsHeld, NoKeyTwice
<1>6. Agrees(t)
  BY <1>1, <1>3, <1>5, Zenon DEF Agrees
<1>7. Runs(t, <<>>, t)
  BY <1>3, NothingSent
<1>8. down \in Seq(Keys) /\ wire \in Seq(Bytes)
  BY <1>1
<1>. QED
  BY ONLY <1>1, <1>2, <1>5, <1>6, <1>7, <1>8, Zenon DEF KeyboardInv

LEMMA StepInv ==
    ASSUME KeyboardInv, [Next]_vars
    PROVE  KeyboardInv'
<1>1. /\ down \in Seq(Keys) /\ NoKeyTwice /\ wire \in Seq(Bytes)
      /\ caps \in BOOLEAN /\ untidy \in BOOLEAN
  BY Zenon DEF KeyboardInv
<1>2. PICK t : Runs(Now, wire, t) /\ Agrees(t)
  BY Zenon DEF KeyboardInv
<1>3. t \in States /\ Now \in States /\ ~t.prefix
  <2>1. t \in States /\ Now \in States
    BY <1>1, <1>2, RunEnds
  <2>. QED
    BY <1>2, <2>1, Zenon DEF Agrees
<1>4. ASSUME NEW key \in Keys, Press(key)
      PROVE  KeyboardInv'
  <2>1. PICK d : d = Done(t, key, FALSE)
    OBVIOUS
  <2>2. wire' \in Seq(Bytes) /\ Runs(Now', wire', d)
    <3>1. Sends(key, FALSE) /\ UNCHANGED handler
      BY <1>4, Zenon DEF Press
    <3>. QED
      BY <1>1, <1>2, <1>3, <2>1, <3>1, SendsLonger
  <2>3. down' \in Seq(Keys) /\ NoKeyTwice'
    <3>1. key \notin Held /\ down' = Append(down, key)
      BY <1>4, Zenon DEF Press
    <3>. QED
      BY <1>1, <3>1, PressHolds
  <2>4. Agrees(d)'
    BY <1>2, <1>3, <1>4, <2>1, PressAgrees
  <2>5. caps' \in BOOLEAN /\ untidy' \in BOOLEAN
    BY <1>1, <1>4 DEF Press
  <2>. QED
    BY ONLY <2>2, <2>3, <2>4, <2>5, Zenon DEF KeyboardInv
<1>5. ASSUME NEW key \in Keys, Release(key)
      PROVE  KeyboardInv'
  <2>1. PICK d : d = Done(t, key, TRUE)
    OBVIOUS
  <2>2. wire' \in Seq(Bytes) /\ Runs(Now', wire', d)
    <3>1. Sends(key, TRUE) /\ UNCHANGED handler
      BY <1>5, Zenon DEF Release
    <3>. QED
      BY <1>1, <1>2, <1>3, <2>1, <3>1, SendsLonger
  <2>3. down' \in Seq(Keys) /\ NoKeyTwice'
    <3>1. PICK i \in DOMAIN down : down' = RemoveAt(down, i)
      BY <1>5, Zenon DEF Release
    <3>. QED
      BY <1>1, <3>1, ReleaseHolds
  <2>4. Agrees(d)'
    BY <1>2, <1>3, <1>5, <2>1, ReleaseAgrees
  <2>5. caps' = caps /\ untidy' = untidy
    BY <1>5, Zenon DEF Release
  <2>. QED
    BY ONLY <1>1, <2>2, <2>3, <2>4, <2>5, Zenon DEF KeyboardInv
<1>6. ASSUME Repeat
      PROVE  KeyboardInv'
  <2>1. PICK key : key = down[Len(down)]
    OBVIOUS
  <2>2. key \in Keys /\ Sends(key, FALSE) /\ UNCHANGED handler /\ down' = down
        /\ caps' = caps /\ untidy' = (untidy \/ key.code = "caps")
    <3>1. down # <<>>
      BY <1>6, Zenon DEF Repeat
    <3>2. key \in Keys
      BY <1>1, <2>1, <3>1
    <3>. QED
      BY <1>6, <2>1, <3>2, Zenon DEF Repeat
  <2>3. PICK d : d = Done(t, key, FALSE)
    OBVIOUS
  <2>4. wire' \in Seq(Bytes) /\ Runs(Now', wire', d)
    BY <1>1, <1>2, <1>3, <2>2, <2>3, SendsLonger
  <2>5. Agrees(d)'
    BY <1>2, <1>3, <1>6, <2>1, <2>2, <2>3, RepeatAgrees
  <2>6. caps' \in BOOLEAN /\ untidy' \in BOOLEAN
    BY <1>1, <2>2
  <2>7. NoKeyTwice'
    BY <1>1, <2>2, Zenon DEF NoKeyTwice
  <2>. QED
    BY ONLY <1>1, <2>2, <2>4, <2>5, <2>6, <2>7, Zenon DEF KeyboardInv
<1>7. ASSUME keyboard_handler
      PROVE  KeyboardInv'
  <2>1. wire # <<>> /\ UNCHANGED keyboard
    BY <1>7, Zenon DEF keyboard_handler
  <2>2. Now' = After(Now, Head(wire)) /\ wire' = Tail(wire)
    BY <1>1, <1>3, <1>7, <2>1, HandlerSteps
  <2>3. wire' \in Seq(Bytes) /\ Runs(Now', wire', t)
    <3>1. Tail(wire) \in Seq(Bytes) /\ Runs(After(Now, Head(wire)), Tail(wire), t)
      BY <1>1, <1>2, <2>1, OneLess
    <3>. QED
      BY ONLY <2>2, <3>1, Zenon
  <2>4. /\ down' = down /\ meant' = meant /\ caps' = caps /\ untidy' = untidy
    BY <2>1 DEF keyboard
  <2>5. Agrees(t)' /\ NoKeyTwice'
    <3>1. ShiftsHeld' = ShiftsHeld
      BY <2>4, Zenon DEF ShiftsHeld, Held
    <3>2. NoKeyTwice'
      BY <1>1, <2>4 DEF NoKeyTwice
    <3>3. Agrees(t)'
      BY <1>2, <2>4, <3>1, Zenon DEF Agrees
    <3>. QED
      BY <3>2, <3>3, Zenon
  <2>. QED
    BY ONLY <1>1, <2>3, <2>4, <2>5, Zenon DEF KeyboardInv
<1>8. ASSUME UNCHANGED vars
      PROVE  KeyboardInv'
  <2>1. /\ down' = down /\ meant' = meant /\ caps' = caps /\ untidy' = untidy /\ wire' = wire
        /\ Now' = Now
    BY <1>8 DEF vars, keyboard, handler, Now
  <2>2. Agrees(t)' /\ NoKeyTwice'
    <3>1. ShiftsHeld' = ShiftsHeld
      BY <2>1, Zenon DEF ShiftsHeld, Held
    <3>2. NoKeyTwice'
      BY <1>1, <2>1 DEF NoKeyTwice
    <3>3. Agrees(t)'
      BY <1>2, <2>1, <3>1, Zenon DEF Agrees
    <3>. QED
      BY <3>2, <3>3, Zenon
  <2>. QED
    BY ONLY <1>1, <1>2, <2>1, <2>2, Zenon DEF KeyboardInv
<1>. QED
  BY <1>4, <1>5, <1>6, <1>7, <1>8, Zenon DEF Next

\* The handler is always a run over the bytes on the wire away from a state that
\* agrees with the keys (ps2.c:105-168).
THEOREM KeyboardInvariant == Spec => []KeyboardInv
<1>1. Init => KeyboardInv
  BY InitInv
<1>2. KeyboardInv /\ [Next]_vars => KeyboardInv'
  BY StepInv
<1>. QED
  BY <1>1, <1>2, PTL DEF Spec

LEMMA Arrived ==
    ASSUME KeyboardInv
    PROVE  \E t \in States : /\ Agrees(t) /\ Within(typed, t.out) /\ typed \in Seq(Characters)
                             /\ wire = <<>> => t = Now
<1>1. PICK t : Runs(Now, wire, t) /\ Agrees(t)
  BY Zenon DEF KeyboardInv
<1>2. wire \in Seq(Bytes)
  BY Zenon DEF KeyboardInv
<1>3. t \in States /\ Now \in States /\ Within(Now.out, t.out)
  BY <1>1, <1>2, RunEnds
<1>4. Now.out = typed
  BY DEF Now
<1>5. typed \in Seq(Characters)
  BY <1>3, <1>4 DEF States
<1>6. ASSUME wire = <<>> PROVE t = Now
  <2>1. PICK R : IsRun(R, wire, t) /\ R[0] = Now
    BY <1>1, Zenon DEF Runs
  <2>2. Len(wire) = 0
    BY <1>6
  <2>. QED
    BY ONLY <2>1, <2>2, Zenon DEF IsRun
<1>. QED
  BY ONLY <1>1, <1>3, <1>4, <1>5, <1>6, Zenon

\* When all that was sent has been handled, shift is held only if a shift key is
\* down, whatever was pressed, repeated and released (ps2.c:133-137).
THEOREM ShiftNeverSticks == Spec => []NoStuckShift
<1>1. ASSUME KeyboardInv PROVE NoStuckShift
  <2>1. SUFFICES ASSUME wire = <<>>, ShiftsHeld = {} PROVE ~shift_held
    BY Zenon DEF NoStuckShift
  <2>2. PICK t : Agrees(t) /\ t = Now
    BY <1>1, <2>1, Arrived
  <2>3. Now.shift = shift_held
    BY DEF Now
  <2>4. ~t.shift
    BY <2>1, <2>2, Zenon DEF Agrees
  <2>. QED
    BY ONLY <2>2, <2>3, <2>4, Zenon
<1>. QED
  BY <1>1, KeyboardInvariant, PTL

\* What the handler has pushed is what was typed, in order, as far as the bytes
\* have arrived, and all of it when they all have (ps2.c:109-167).
THEOREM TypedAsMeant == Spec => []TypedIsMeant
<1>1. ASSUME KeyboardInv PROVE TypedIsMeant
  <2>. SUFFICES ASSUME ~untidy
                PROVE  /\ Len(typed) <= Len(meant) /\ typed = SubSeq(meant, 1, Len(typed))
                       /\ wire = <<>> => typed = meant
    BY Zenon DEF TypedIsMeant
  <2>1. PICK t \in States : /\ Agrees(t) /\ Within(typed, t.out) /\ typed \in Seq(Characters)
                            /\ wire = <<>> => t = Now
    BY <1>1, Arrived
  <2>2. t.out = meant
    BY <2>1, Zenon DEF Agrees
  <2>3. meant \in Seq(Characters)
    BY <2>1, <2>2 DEF States
  <2>4. Within(typed, meant)
    BY ONLY <2>1, <2>2, Zenon
  <2>5. Len(typed) <= Len(meant) /\ typed = SubSeq(meant, 1, Len(typed))
    BY <2>1, <2>3, <2>4 DEF Within
  <2>6. wire = <<>> => typed = meant
    <3>1. Now.out = typed
      BY DEF Now
    <3>. QED
      BY ONLY <2>1, <2>2, <3>1, Zenon
  <2>. QED
    BY <2>5, <2>6
<1>. QED
  BY <1>1, KeyboardInvariant, PTL
================================================================================
