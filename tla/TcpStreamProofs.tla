-------------------------- MODULE TcpStreamProofs --------------------------
(***************************************************************************)
(* Theorems about TcpStream for every length of recv, queues and router,   *)
(* any number of confirmations, cuts and connections: its types, that the  *)
(* receive path implements LossyLine, that it invents nothing, and that it *)
(* loses nothing.                                                          *)
(***************************************************************************)
EXTENDS TcpStream, SequenceTheorems, WellFoundedInduction, TLAPS
-----------------------------------------------------------------------------
(* Least and greatest numbers.                                             *)

LEMMA LeastNat ==
  ASSUME NEW T, T \subseteq Nat, T # {}
  PROVE  \E n \in T : \A m \in T : n <= m
  <1> DEFINE R == OpToRel(<, Nat)
  <1>1. IsWellFoundedOn(R, Nat)
    BY NatLessThanWellFounded
  <1>2. \A x, y \in Nat : x < y => << x, y >> \in R
    BY DEF OpToRel
  <1> HIDE DEF R
  <1>3. PICK n \in T : \A m \in T : ~(<< m, n >> \in R)
    BY <1>1, WFMin, Zenon
  <1>4. \A m \in T : ~(m < n)
    BY <1>2, <1>3
  <1> QED BY <1>3, <1>4

LEMMA MinOfNats ==
  ASSUME NEW T, T \subseteq Nat, T # {}
  PROVE  Min(T) \in T /\ \A m \in T : Min(T) <= m
  BY LeastNat DEF Min

LEMMA MaxOfBounded ==
  ASSUME NEW bound \in Nat, NEW T, T \subseteq 0 .. bound, T # {}
  PROVE  Max(T) \in T /\ \A m \in T : Max(T) >= m
  <1> DEFINE Bounds == {u \in 0 .. bound : \A t \in T : t <= u}
  <1>1. bound \in Bounds /\ Bounds \subseteq Nat
    OBVIOUS
  <1>2. PICK u \in Bounds : \A v \in Bounds : u <= v
    <2> HIDE DEF Bounds
    <2> QED BY <1>1, LeastNat
  <1>3. u \in T
    <2>1. SUFFICES ASSUME u \notin T PROVE FALSE
      OBVIOUS
    <2>2. \A t \in T : t <= u - 1
      BY <2>1
    <2>3. u # 0
      <3>1. PICK t \in T : TRUE
        OBVIOUS
      <3> QED BY <2>1, <3>1
    <2>4. u - 1 \in Bounds
      BY <2>2, <2>3
    <2> QED BY <1>2, <2>4
  <1> QED BY <1>3 DEF Max
-----------------------------------------------------------------------------
(* Where newlines are.                                                     *)

LEMMA LastNewLineIs ==
  ASSUME NEW S, NEW s \in Seq(S)
  PROVE  /\ LastNewLine(s) \in 0 .. Len(s)
         /\ LastNewLine(s) # 0 => s[LastNewLine(s)] = NewLine
         /\ \A i \in 1 .. Len(s) : i > LastNewLine(s) => s[i] # NewLine
  <1> DEFINE I == {i \in 1 .. Len(s) : IsNewLine(s[i])}
  <1>1. LastNewLine(s) = IF I # {} THEN Max(I) ELSE 0
    BY DEF LastNewLine, SelectLastInSeq
  <1>2. I \subseteq 0 .. Len(s) /\ Len(s) \in Nat
    OBVIOUS
  <1>3. CASE I = {}
    BY <1>1, <1>3 DEF IsNewLine
  <1>4. CASE I # {}
    <2>1. PICK k \in I : k = Max(I) /\ \A i \in I : k >= i
      <3> HIDE DEF I
      <3> QED BY <1>2, <1>4, MaxOfBounded
    <2>2. LastNewLine(s) = k
      BY <1>1, <1>4, <2>1
    <2>3. k \in 1 .. Len(s) /\ s[k] = NewLine
      BY <2>1 DEF IsNewLine
    <2>4. \A i \in 1 .. Len(s) : s[i] = NewLine => k >= i
      BY <2>1 DEF IsNewLine
    <2> HIDE DEF I
    <2> QED BY <2>2, <2>3, <2>4
  <1> QED BY <1>3, <1>4

LEMMA FirstNewLineIs ==
  ASSUME NEW S, text \in Seq(S)
  PROVE  /\ FirstNewLine \in 0 .. Len(text)
         /\ FirstNewLine # 0 => text[FirstNewLine] = NewLine
         /\ \A i \in 1 .. Len(text) :
              FirstNewLine = 0 \/ i < FirstNewLine => text[i] # NewLine
  <1> DEFINE I == {i \in 1 .. Len(text) : IsNewLine(text[i])}
  <1>1. FirstNewLine = IF I # {} THEN Min(I) ELSE 0
    BY DEF FirstNewLine, SelectInSeq
  <1>2. I \subseteq Nat /\ Len(text) \in Nat
    OBVIOUS
  <1>3. CASE I = {}
    BY <1>1, <1>3 DEF IsNewLine
  <1>4. CASE I # {}
    <2>1. PICK k \in I : k = Min(I) /\ \A i \in I : k <= i
      <3> HIDE DEF I
      <3> QED BY <1>2, <1>4, MinOfNats
    <2>2. FirstNewLine = k
      BY <1>1, <1>4, <2>1
    <2>3. k \in 1 .. Len(text) /\ text[k] = NewLine
      BY <2>1 DEF IsNewLine
    <2>4. \A i \in 1 .. Len(text) : text[i] = NewLine => k <= i
      BY <2>1 DEF IsNewLine
    <2> HIDE DEF I
    <2> QED BY <2>2, <2>3, <2>4
  <1> QED BY <1>3, <1>4
-----------------------------------------------------------------------------
(* Updates.                                                                *)

\* The recursive function of FlattenSeq exists.
LEMMA FlattenExists ==
  ASSUME NEW seqs, NEW length \in Nat \ {0}
  PROVE  \E f : f = [i \in 1 .. length |-> IF i = 1 THEN seqs[i] ELSE f[i - 1] \o seqs[i]]
  <1> DEFINE Step(f, n) == [i \in 1 .. n |-> IF i = 1 THEN seqs[i] ELSE f[i - 1] \o seqs[i]]
             Bad == {n \in Nat \ {0} : ~\E f : f = Step(f, n)}
  <1>1. SUFFICES ASSUME Bad # {} PROVE FALSE
    <2>1. Bad = {} => length \notin Bad
      OBVIOUS
    <2> QED BY <1>1, <2>1
  <1>2. Bad \subseteq Nat
    OBVIOUS
  <1>3. PICK n \in Bad : \A m \in Bad : n <= m
    <2> HIDE DEF Bad
    <2> QED BY <1>1, <1>2, LeastNat
  <1>4. n \in Nat \ {0} /\ ~\E f : f = Step(f, n)
    BY <1>3
  <1>5. CASE n = 1
    <2> DEFINE h == [i \in 1 .. 1 |-> seqs[i]]
    <2>1. h = Step(h, 1)
      OBVIOUS
    <2> QED BY <1>4, <1>5, <2>1
  <1>6. CASE n # 1
    <2>1. n - 1 \in Nat \ {0} /\ n - 1 \notin Bad
      <3>1. n - 1 \in Nat \ {0} /\ ~(n <= n - 1)
        BY <1>4, <1>6
      <3> HIDE DEF Bad
      <3> QED BY <1>3, <3>1
    <2>2. PICK g : g = Step(g, n - 1)
      BY <2>1
    <2> DEFINE h == [i \in 1 .. n |-> IF i = n THEN g[n - 1] \o seqs[n] ELSE g[i]]
    <2>3. ASSUME NEW i \in 1 .. n PROVE h[i] = Step(h, n)[i]
      <3>1. CASE i = n
        <4>1. h[n - 1] = g[n - 1]
          BY <1>4, <2>1
        <4> QED BY <1>4, <1>6, <3>1, <4>1
      <3>2. CASE i # n
        <4>1. i \in 1 .. n - 1 /\ h[i] = g[i]
          BY <1>4, <3>2
        <4>2. i # 1 => i - 1 \in 1 .. n /\ i - 1 # n /\ h[i - 1] = g[i - 1]
          BY <1>4, <4>1
        <4>3. g[i] = IF i = 1 THEN seqs[i] ELSE g[i - 1] \o seqs[i]
          BY <2>2, <4>1
        <4> QED BY <4>1, <4>2, <4>3
      <3> QED BY <3>1, <3>2
    <2>4. h = Step(h, n)
      <3>1. DOMAIN h = 1 .. n /\ DOMAIN Step(h, n) = 1 .. n
        OBVIOUS
      <3>2. h = [i \in 1 .. n |-> h[i]] /\ Step(h, n) = [i \in 1 .. n |-> Step(h, n)[i]]
        OBVIOUS
      <3> HIDE DEF h, Step
      <3> QED BY <2>3, <3>2
    <2> QED BY <1>4, <2>4
  <1> QED BY <1>5, <1>6

LEMMA FlattenSteps ==
  ASSUME NEW seqs, Len(seqs) \in Nat \ {0}
  PROVE  \E f : /\ FlattenSeq(seqs) = f[Len(seqs)]
                /\ f[1] = seqs[1]
                /\ \A i \in 2 .. Len(seqs) : f[i] = f[i - 1] \o seqs[i]
  <1> DEFINE Flat(f) ==
        f = [i \in 1 .. Len(seqs) |-> IF i = 1 THEN seqs[i] ELSE f[i - 1] \o seqs[i]]
      flatten == CHOOSE f : Flat(f)
  <1>1. Flat(flatten)
    BY FlattenExists
  <1>2. FlattenSeq(seqs) = flatten[Len(seqs)]
    BY DEF FlattenSeq
  <1>3. flatten[1] = seqs[1] /\ \A i \in 2 .. Len(seqs) : flatten[i] = flatten[i - 1] \o seqs[i]
    <2> HIDE DEF flatten
    <2>1. \A i \in 1 .. Len(seqs) :
            flatten[i] = IF i = 1 THEN seqs[i] ELSE flatten[i - 1] \o seqs[i]
      BY <1>1
    <2>2. 1 \in 1 .. Len(seqs) /\ \A i \in 2 .. Len(seqs) : i \in 1 .. Len(seqs) /\ i # 1
      OBVIOUS
    <2> HIDE DEF Flat
    <2> QED BY <2>1, <2>2
  <1> QED BY <1>2, <1>3

LEMMA PieceTypes ==
  /\ NewLine \in Pieces /\ Title \in Pieces /\ Colon \in Pieces /\ Word \in Pieces
  /\ NextWord \in Pieces /\ Space \in Pieces
  /\ \A n \in 1 .. MaxTold : Output(n) \in Pieces /\ Input(n) \in Pieces
  BY DEF Pieces

LEMMA ConcatAt ==
  ASSUME NEW S, NEW s \in Seq(S), NEW t \in Seq(S)
  PROVE  /\ s \o t \in Seq(S) /\ Len(s \o t) = Len(s) + Len(t)
         /\ \A i \in 1 .. Len(s) : (s \o t)[i] = s[i]
         /\ \A i \in 1 .. Len(t) : (s \o t)[Len(s) + i] = t[i]
  OBVIOUS

\* k lines of an update, from the confirmation first on.
IsLines(s, first, k) ==
  /\ s \in Seq(Pieces) /\ Len(s) = 3 * k
  /\ \A j \in 1 .. k : /\ s[3 * j - 2] = Output(first + j - 1)
                      /\ s[3 * j - 1] = Input(first + j - 1)
                      /\ s[3 * j] = NewLine

LEMMA OneLine ==
  ASSUME NEW first \in 1 .. MaxTold
  PROVE  IsLines(<< Output(first), Input(first), NewLine >>, first, 1)
  <1> DEFINE line == << Output(first), Input(first), NewLine >>
  <1>1. line \in Seq(Pieces)
    BY PieceTypes
  <1>2. \A j \in 1 .. 1 : 3 * j - 2 = 1 /\ 3 * j - 1 = 2 /\ 3 * j = 3 /\ first + j - 1 = first
    OBVIOUS
  <1> QED BY <1>1, <1>2 DEF IsLines

LEMMA LineAdded ==
  ASSUME NEW first \in Nat \ {0}, NEW k \in Nat, first + k <= MaxTold,
         NEW s, IsLines(s, first, k)
  PROVE  IsLines(s \o << Output(first + k), Input(first + k), NewLine >>, first, k + 1)
  <1> DEFINE line == << Output(first + k), Input(first + k), NewLine >>
             t == s \o line
  <1>1. first + k \in 1 .. MaxTold
    BY StreamAssumption
  <1>2. line \in Seq(Pieces) /\ Len(line) = 3
    BY <1>1, PieceTypes
  <1>3. s \in Seq(Pieces) /\ Len(s) = 3 * k
    BY DEF IsLines
  <1>4. /\ t \in Seq(Pieces) /\ Len(t) = 3 * (k + 1)
        /\ \A i \in 1 .. 3 * k : t[i] = s[i]
        /\ \A i \in 1 .. 3 : t[3 * k + i] = line[i]
    <2> HIDE DEF line
    <2>1. 3 * k + 3 = 3 * (k + 1)
      OBVIOUS
    <2>2. /\ s \o line \in Seq(Pieces) /\ Len(s \o line) = Len(s) + Len(line)
          /\ \A i \in 1 .. Len(s) : (s \o line)[i] = s[i]
          /\ \A i \in 1 .. Len(line) : (s \o line)[Len(s) + i] = line[i]
      <3>1. s \in Seq(Pieces) /\ line \in Seq(Pieces)
        BY <1>2, <1>3
      <3> QED BY <3>1, ConcatAt
    <2> QED BY <1>2, <1>3, <2>1, <2>2
  <1>5. ASSUME NEW j \in 1 .. k + 1
        PROVE  /\ t[3 * j - 2] = Output(first + j - 1)
               /\ t[3 * j - 1] = Input(first + j - 1)
               /\ t[3 * j] = NewLine
    <2>1. CASE j = k + 1
      <3>1. 3 * j - 2 = 3 * k + 1 /\ 3 * j - 1 = 3 * k + 2 /\ 3 * j = 3 * k + 3
            /\ first + j - 1 = first + k
        BY <2>1
      <3>2. t[3 * k + 1] = line[1] /\ t[3 * k + 2] = line[2] /\ t[3 * k + 3] = line[3]
        <4> HIDE DEF line, t
        <4> QED BY <1>4
      <3> HIDE DEF t
      <3> QED BY <3>1, <3>2
    <2>2. CASE j # k + 1
      <3>1. j \in 1 .. k /\ 3 * j - 2 \in 1 .. 3 * k /\ 3 * j - 1 \in 1 .. 3 * k /\ 3 * j \in 1 .. 3 * k
        BY <2>2
      <3> HIDE DEF t
      <3> QED BY <1>4, <3>1 DEF IsLines
    <2> QED BY <2>1, <2>2
  <1> HIDE DEF t
  <1>6. IsLines(t, first, k + 1)
    BY <1>4, <1>5 DEF IsLines
  <1> QED BY <1>6 DEF t

\* What FlattenSeq makes of the lines of an update.
LEMMA LinesOfUpdate ==
  ASSUME NEW first \in Nat \ {0}, NEW count \in Nat, first + count - 1 <= MaxTold
  PROVE  IsLines(FlattenSeq([i \in 1 .. count |->
                               << Output(first + i - 1), Input(first + i - 1), NewLine >>]),
                 first, count)
  <1> DEFINE line(i) == << Output(first + i - 1), Input(first + i - 1), NewLine >>
             lines == [i \in 1 .. count |-> line(i)]
  <1>1. Len(lines) = count
    OBVIOUS
  <1>2. CASE count = 0
    <2>1. lines = << >>
      BY <1>2
    <2>2. FlattenSeq(lines) = << >>
      BY <1>1, <1>2, <2>1 DEF FlattenSeq
    <2>3. << >> \in Seq(Pieces) /\ Len(<< >>) = 3 * 0 /\ 1 .. 0 = {}
      OBVIOUS
    <2>4. IsLines(<< >>, first, 0)
      BY <2>3 DEF IsLines
    <2> QED BY <1>2, <2>2, <2>4
  <1>3. CASE count # 0
    <2>1. \A i \in 1 .. count : lines[i] = line(i)
      OBVIOUS
    <2> HIDE DEF line, lines
    <2>2. PICK f : /\ FlattenSeq(lines) = f[count]
                   /\ f[1] = lines[1]
                   /\ \A i \in 2 .. count : f[i] = f[i - 1] \o lines[i]
      BY <1>1, <1>3, FlattenSteps
    <2> DEFINE Bad == {k \in 1 .. count : ~IsLines(f[k], first, k)}
    <2>3. Bad = {}
      <3>1. SUFFICES ASSUME Bad # {} PROVE FALSE
        OBVIOUS
      <3>2. Bad \subseteq Nat
        OBVIOUS
      <3>3. PICK k \in Bad : \A m \in Bad : k <= m
        <4> HIDE DEF Bad
        <4> QED BY <3>1, <3>2, LeastNat
      <3>4. CASE k = 1
        <4>1. f[1] = << Output(first), Input(first), NewLine >>
          BY <1>3, <2>1, <2>2 DEF line
        <4>2. first \in 1 .. MaxTold
          BY <1>3, StreamAssumption
        <4> QED BY <3>3, <3>4, <4>1, <4>2, OneLine
      <3>5. CASE k # 1
        <4>1. k \in 2 .. count /\ k - 1 \in 1 .. count /\ ~(k <= k - 1)
          BY <3>3, <3>5
        <4>2. k - 1 \notin Bad
          <5> HIDE DEF Bad
          <5> QED BY <3>3, <4>1
        <4>3. IsLines(f[k - 1], first, k - 1)
          BY <4>1, <4>2
        <4>4. f[k] = f[k - 1] \o << Output(first + (k - 1)), Input(first + (k - 1)), NewLine >>
          <5>1. first + k - 1 = first + (k - 1)
            BY <4>1
          <5>2. f[k] = f[k - 1] \o line(k)
            BY <2>1, <2>2, <4>1
          <5> QED BY <5>1, <5>2 DEF line
        <4>5. IsLines(f[k], first, (k - 1) + 1)
          <5>1. k - 1 \in Nat /\ first + (k - 1) <= MaxTold
            BY <4>1, StreamAssumption
          <5> QED BY <4>3, <4>4, <5>1, LineAdded
        <4>6. (k - 1) + 1 = k
          BY <4>1
        <4> QED BY <3>3, <4>5, <4>6
      <3> QED BY <3>4, <3>5
    <2>4. IsLines(f[count], first, count)
      BY <1>3, <2>3
    <2> QED BY <2>2, <2>4 DEF lines, line
  <1> QED BY <1>2, <1>3

\* An update, piece by piece.
LEMMA UpdateShape ==
  ASSUME NEW first \in Nat \ {0}, NEW count \in Nat, first + count - 1 <= MaxTold,
         NEW update, update = Update(first, first + count - 1)
  PROVE  /\ update \in Seq(Pieces) /\ Len(update) = 3 * count + 4
         /\ update[1] = Title /\ update[2] = Colon /\ update[3] = NewLine
         /\ update[3 * count + 4] = NewLine
         /\ \A j \in 1 .. count : /\ update[3 * j + 1] = Output(first + j - 1)
                                 /\ update[3 * j + 2] = Input(first + j - 1)
                                 /\ update[3 * j + 3] = NewLine
  <1> DEFINE head == << Title, Colon, NewLine >>
             lines == FlattenSeq([i \in 1 .. count |->
                        << Output(first + i - 1), Input(first + i - 1), NewLine >>])
             foot == << NewLine >>
  <1>1. IsLines(lines, first, count)
    BY LinesOfUpdate
  <1>2. (first + count - 1) + 1 - first = count
    OBVIOUS
  <1>3. update = head \o lines \o foot
    BY <1>2 DEF Update
  <1>4. /\ head \in Seq(Pieces) /\ Len(head) = 3
        /\ foot \in Seq(Pieces) /\ Len(foot) = 1
    BY PieceTypes
  <1>5. head[1] = Title /\ head[2] = Colon /\ head[3] = NewLine /\ foot[1] = NewLine
    OBVIOUS
  <1> HIDE DEF head, lines, foot
  <1>6. lines \in Seq(Pieces) /\ Len(lines) = 3 * count
    BY <1>1 DEF IsLines
  <1> DEFINE start == head \o lines
  <1>7. /\ start \in Seq(Pieces) /\ Len(start) = 3 * count + 3
        /\ \A i \in 1 .. 3 : start[i] = head[i]
        /\ \A i \in 1 .. 3 * count : start[3 + i] = lines[i]
    <2>1. /\ head \o lines \in Seq(Pieces) /\ Len(head \o lines) = Len(head) + Len(lines)
          /\ \A i \in 1 .. Len(head) : (head \o lines)[i] = head[i]
          /\ \A i \in 1 .. Len(lines) : (head \o lines)[Len(head) + i] = lines[i]
      <3>1. head \in Seq(Pieces) /\ lines \in Seq(Pieces)
        BY <1>4, <1>6
      <3> QED BY <3>1, ConcatAt
    <2> QED BY <1>4, <1>6, <2>1
  <1> HIDE DEF start
  <1>8. /\ update \in Seq(Pieces) /\ Len(update) = 3 * count + 4
        /\ \A i \in 1 .. 3 * count + 3 : update[i] = start[i]
        /\ update[3 * count + 4] = foot[1]
    <2>1. update = start \o foot
      BY <1>3 DEF start
    <2>2. (3 * count + 3) + 1 = 3 * count + 4 /\ 1 \in 1 .. 1
      OBVIOUS
    <2>3. /\ start \o foot \in Seq(Pieces) /\ Len(start \o foot) = Len(start) + Len(foot)
          /\ \A i \in 1 .. Len(start) : (start \o foot)[i] = start[i]
          /\ \A i \in 1 .. Len(foot) : (start \o foot)[Len(start) + i] = foot[i]
      <3>1. start \in Seq(Pieces) /\ foot \in Seq(Pieces)
        BY <1>4, <1>7
      <3> QED BY <3>1, ConcatAt
    <2>4. start \o foot \in Seq(Pieces) /\ Len(start \o foot) = 3 * count + 4
      BY <1>4, <1>7, <2>2, <2>3
    <2>5. \A i \in 1 .. 3 * count + 3 : (start \o foot)[i] = start[i]
      BY <1>7, <2>3
    <2>6. (start \o foot)[3 * count + 4] = foot[1]
      BY <1>4, <1>7, <2>2, <2>3
    <2> QED BY <2>1, <2>4, <2>5, <2>6
  <1>9. \A i \in 1 .. 3 : update[i] = head[i]
    <2>1. \A i \in 1 .. 3 : i \in 1 .. 3 * count + 3
      OBVIOUS
    <2> QED BY <1>7, <1>8, <2>1
  <1>10. ASSUME NEW j \in 1 .. count
         PROVE  /\ update[3 * j + 1] = Output(first + j - 1)
                /\ update[3 * j + 2] = Input(first + j - 1)
                /\ update[3 * j + 3] = NewLine
    <2>1. /\ 3 * j - 2 \in 1 .. 3 * count /\ 3 * j - 1 \in 1 .. 3 * count
          /\ 3 * j \in 1 .. 3 * count
          /\ 3 * j + 1 = 3 + (3 * j - 2) /\ 3 * j + 2 = 3 + (3 * j - 1) /\ 3 * j + 3 = 3 + 3 * j
      OBVIOUS
    <2>2. \A i \in 1 .. 3 * count : update[3 + i] = lines[i]
      <3>1. \A i \in 1 .. 3 * count : 3 + i \in 1 .. 3 * count + 3
        OBVIOUS
      <3> QED BY <1>7, <1>8, <3>1
    <2>3. /\ update[3 * j + 1] = lines[3 * j - 2] /\ update[3 * j + 2] = lines[3 * j - 1]
          /\ update[3 * j + 3] = lines[3 * j]
      BY <2>1, <2>2
    <2> QED BY <1>1, <2>3 DEF IsLines
  <1>11. update[1] = Title /\ update[2] = Colon /\ update[3] = NewLine
    BY <1>5, <1>9
  <1> QED BY <1>5, <1>8, <1>10, <1>11
-----------------------------------------------------------------------------
(* Types.                                                                  *)

LEMMA PartType ==
  ASSUME NEW S, NEW s \in Seq(S), NEW m \in 1 .. Len(s) + 1, NEW n \in m - 1 .. Len(s)
  PROVE  /\ SubSeq(s, m, n) \in Seq(S) /\ Len(SubSeq(s, m, n)) = n - m + 1
         /\ \A i \in 1 .. n - m + 1 : SubSeq(s, m, n)[i] = s[m + i - 1]
  OBVIOUS

LEMMA FirstByteType == \A piece \in Pieces : FirstByte(piece) \in Pieces
  BY PieceTypes DEF FirstByte

LEMMA RemainderType ==
  ASSUME NEW rx \in Seq(Pieces) PROVE Remainder(rx) \in Seq(Pieces)
  <1>1. LastNewLine(rx) \in 0 .. Len(rx)
    BY LastNewLineIs
  <1>2. LastNewLine(rx) + 1 \in 1 .. Len(rx) + 1 /\ Len(rx) \in (LastNewLine(rx) + 1) - 1 .. Len(rx)
    BY <1>1
  <1>3. SubSeq(rx, LastNewLine(rx) + 1, Len(rx)) \in Seq(Pieces)
    BY <1>2, PartType
  <1> QED BY <1>3 DEF Remainder

LEMMA LinesType ==
  ASSUME NEW rx \in Seq(Pieces) PROVE Lines(rx) \in Seq(Pieces)
  <1>1. LastNewLine(rx) \in 0 .. Len(rx)
    BY LastNewLineIs
  <1>2. SubSeq(rx, 1, LastNewLine(rx)) \in Seq(Pieces)
    BY <1>1, PartType
  <1>3. rx # << >> => << FirstByte(rx[1]) >> \in Seq(Pieces)
    <2>1. rx # << >> => rx[1] \in Pieces
      OBVIOUS
    <2> QED BY <2>1, FirstByteType
  <1> QED BY <1>2, <1>3 DEF Lines

\* What recv can take is there.
LEMMA RxIsThere ==
  ASSUME wire \in Seq(Pieces), NEW n \in 1 .. RxAvailable
  PROVE  n \in 1 .. Len(wire)
  <1>1. Len(wire) \in Nat /\ RxMax \in Nat
    BY StreamAssumption
  <1>2. RxAvailable \in Nat /\ RxAvailable <= Len(wire)
    <2> DEFINE T == {RxMax, Len(wire)}
    <2>1. T \subseteq Nat /\ T # {}
      BY <1>1
    <2>2. RxAvailable = Min(T)
      BY DEF RxAvailable
    <2>3. Min(T) \in T /\ \A m \in T : Min(T) <= m
      <3> HIDE DEF T
      <3> QED BY <2>1, MinOfNats
    <2> QED BY <1>1, <2>2, <2>3
  <1> QED BY <1>1, <1>2

LEMMA GreetingType ==
  ASSUME NEW first \in Nat \ {0}, NEW count \in Nat, first + count - 1 <= MaxTold
  PROVE  Other \o Update(first, first + count - 1) \in Seq(Pieces)
  <1>1. Update(first, first + count - 1) \in Seq(Pieces)
    BY UpdateShape
  <1>2. Other \in Seq(Pieces)
    BY PieceTypes DEF Other
  <1> QED BY <1>1, <1>2, ConcatAt

LEMMA ToldType ==
  ASSUME wire \in Seq(Pieces), NEW n \in 1 .. MaxTold, NEW first \in {<< >>, Ack}
  PROVE  wire \o first \o Update(n, n) \in Seq(Pieces)
  <1>1. Update(n, n) \in Seq(Pieces)
    <2>1. MaxTold \in Nat
      BY StreamAssumption
    <2>2. n \in Nat \ {0} /\ 1 \in Nat /\ n <= MaxTold
      BY <2>1
    <2>3. n + 1 - 1 = n
      BY <2>2
    <2>4. Update(n, n + 1 - 1) \in Seq(Pieces)
      BY <2>2, <2>3, UpdateShape
    <2> QED BY <2>3, <2>4
  <1>2. first \in Seq(Pieces)
    <2>1. Ack \in Seq(Pieces) /\ << >> \in Seq(Pieces)
      BY PieceTypes DEF Ack
    <2> QED BY <2>1
  <1>3. wire \o first \in Seq(Pieces)
    BY <1>2, ConcatAt
  <1> QED BY <1>1, <1>3, ConcatAt

LEMMA LineTypes ==
  ASSUME text \in Seq(Pieces), NextLine
  PROVE  parsing' \in BOOLEAN /\ text' \in Seq(Pieces)
  <1>1. FirstNewLine \in 0 .. Len(text)
    BY FirstNewLineIs
  <1>2. SubSeq(text, FirstNewLine + 1, Len(text)) \in Seq(Pieces)
    <2>1. /\ FirstNewLine + 1 \in 1 .. Len(text) + 1
          /\ Len(text) \in (FirstNewLine + 1) - 1 .. Len(text)
      BY <1>1
    <2> QED BY <2>1, PartType
  <1> QED BY <1>2 DEF NextLine

LEMMA ConfirmedType == Confirmed(Line) \in 0 .. MaxTold
  <1>1. CASE \E n \in 1 .. MaxTold : Line = << Output(n), Input(n) >>
    BY <1>1, StreamAssumption DEF Confirmed, Output
  <1>2. CASE ~\E n \in 1 .. MaxTold : Line = << Output(n), Input(n) >>
    BY <1>2, StreamAssumption DEF Confirmed
  <1> QED BY <1>1, <1>2

\* What the parts of TypeOK that are sequences of pieces come to.
TextTypes ==
  /\ wire \in Seq(Pieces) /\ partial_line_buffer \in Seq(Pieces)
  /\ ethernet_message_input_queue \in Seq(Seq(Pieces))
  /\ Len(ethernet_message_input_queue) <= BlockQueueLen
  /\ text \in Seq(Pieces)

OtherTypes ==
  /\ conn \in {"closed", "open", "fin", "error"}
  /\ conn = "closed" => wire = << >>
  /\ state \in {"UNKNOWN", "WAIT", "IN_UPDATE"}
  /\ parsing \in BOOLEAN
  /\ input_event_queue \in Seq(0 .. MaxTold) /\ Len(input_event_queue) <= InputQueueLen
  /\ cuts \in 0 .. MaxCuts /\ ends \in 0 .. MaxEnds
  /\ told \in 0 .. MaxTold /\ heard \in Seq(1 .. MaxTold) /\ base \in 0 .. told
  /\ cut \in BOOLEAN /\ dropped \in BOOLEAN /\ torn \in BOOLEAN
  /\ panicked \in BOOLEAN /\ invented \in BOOLEAN

LEMMA TypeParts == TypeOK <=> TextTypes /\ OtherTypes /\ last_piece \in Pieces
  BY DEF TypeOK, TextTypes, OtherTypes

LEMMA SendEffect ==
  ASSUME NEW S, NEW queue \in Seq(S), NEW item \in S, NEW length \in Nat,
         Len(queue) <= length
  PROVE  LET new == xQueueSend(queue, item, length)
         IN  /\ new \in Seq(S) /\ Len(new) <= length
             /\ new = queue \/ new = Append(queue, item)
  BY DEF xQueueSend, QueueFull

LEMMA ReassembleTypes ==
  ASSUME TextTypes, NEW rx \in Seq(Pieces), Reassemble(rx)
  PROVE  /\ partial_line_buffer' \in Seq(Pieces)
         /\ ethernet_message_input_queue' \in Seq(Seq(Pieces))
         /\ Len(ethernet_message_input_queue') <= BlockQueueLen
  <1> DEFINE block == partial_line_buffer \o Lines(rx)
  <1>1. block \in Seq(Pieces)
    BY LinesType, ConcatAt DEF TextTypes
  <1>2. ethernet_message_input_queue' = xQueueSend(ethernet_message_input_queue, block, BlockQueueLen)
    BY DEF Reassemble, SendBlock
  <1>3. BlockQueueLen \in Nat
    BY StreamAssumption
  <1> HIDE DEF block
  <1>4. /\ ethernet_message_input_queue' \in Seq(Seq(Pieces))
        /\ Len(ethernet_message_input_queue') <= BlockQueueLen
    BY <1>1, <1>2, <1>3, SendEffect DEF TextTypes
  <1> QED BY <1>4, RemainderType DEF Reassemble

LEMMA InitTypeOK == Init => TypeOK
  <1> SUFFICES ASSUME Init PROVE TypeOK
    OBVIOUS
  <1> USE StreamAssumption DEF Init
  <1>1. TextTypes
    BY DEF TextTypes
  <1>2. OtherTypes
    <2>1. << >> \in Seq(0 .. MaxTold) /\ << >> \in Seq(1 .. MaxTold) /\ Len(<< >>) = 0
      OBVIOUS
    <2>2. input_event_queue \in Seq(0 .. MaxTold) /\ heard \in Seq(1 .. MaxTold)
          /\ Len(input_event_queue) <= InputQueueLen
      BY <2>1
    <2>3. cuts \in 0 .. MaxCuts /\ ends \in 0 .. MaxEnds /\ told \in 0 .. MaxTold
          /\ base \in 0 .. told
      OBVIOUS
    <2> QED BY <2>2, <2>3 DEF OtherTypes
  <1>3. last_piece \in Pieces
    BY PieceTypes
  <1> QED BY <1>1, <1>2, <1>3, TypeParts

\* One step per action.
LEMMA NextTypeOK == TypeOK /\ [Next]_vars => TypeOK'
  <1> SUFFICES ASSUME TypeOK, [Next]_vars PROVE TypeOK'
    OBVIOUS
  <1>1. TextTypes /\ OtherTypes /\ last_piece \in Pieces
    BY TypeParts
  <1>2. SUFFICES TextTypes' /\ OtherTypes' /\ last_piece' \in Pieces
    BY DEF TypeOK, TextTypes, OtherTypes
  <1> USE StreamAssumption, <1>1 DEF clientVars, parserVars, history, bounds
  <1>3. CASE Receive
    <2>1. PICK n \in 1 .. RxAvailable :
            /\ cuts' = IF n < RxAvailable THEN cuts + 1 ELSE cuts
            /\ cuts' <= MaxCuts
            /\ Reassemble(SubSeq(wire, 1, n))
            /\ cut' = (cut \/ CutsUpdate(SubSeq(wire, 1, n)))
            /\ last_piece' = SubSeq(wire, 1, n)[n]
            /\ wire' = SubSeq(wire, n + 1, Len(wire))
      BY <1>3 DEF Receive
    <2>2. n \in 1 .. Len(wire) /\ wire \in Seq(Pieces)
      BY RxIsThere DEF TextTypes
    <2>3. SubSeq(wire, 1, n) \in Seq(Pieces) /\ SubSeq(wire, 1, n)[n] = wire[n] /\ wire[n] \in Pieces
      BY <2>2, PartType
    <2>4. wire' \in Seq(Pieces)
      <3>1. n + 1 \in 1 .. Len(wire) + 1 /\ Len(wire) \in (n + 1) - 1 .. Len(wire)
        BY <2>2
      <3> QED BY <2>1, <2>2, <3>1, PartType
    <2>5. TextTypes'
      BY <1>3, <2>1, <2>3, <2>4, ReassembleTypes DEF Receive, TextTypes
    <2>6. cut' \in BOOLEAN /\ torn' \in BOOLEAN /\ dropped' \in BOOLEAN
      BY <1>3, <2>1 DEF Receive, Reassemble, OtherTypes
    <2>7. cuts' \in 0 .. MaxCuts
      BY <2>1 DEF OtherTypes
    <2>8. conn' = conn /\ conn # "closed"
      BY <1>3 DEF Receive
    <2> QED BY <1>3, <2>1, <2>3, <2>5, <2>6, <2>7, <2>8 DEF Receive, OtherTypes
  <1>4. CASE ReceiveEnd
    <2>1. << >> \in Seq(Pieces) /\ Reassemble(<< >>)
      BY <1>4 DEF ReceiveEnd
    <2>2. TextTypes'
      BY <1>4, <2>1, ReassembleTypes DEF ReceiveEnd, TextTypes
    <2>3. torn' \in BOOLEAN /\ dropped' \in BOOLEAN
      BY <1>4 DEF ReceiveEnd, Reassemble, OtherTypes
    <2> QED BY <1>4, <2>2, <2>3 DEF ReceiveEnd, OtherTypes
  <1>5. CASE CloseSocket
    <2>1. torn' \in BOOLEAN
      BY <1>5 DEF CloseSocket, OtherTypes
    <2> QED BY <1>5, <2>1 DEF CloseSocket, TextTypes, OtherTypes
  <1>6. CASE TaskRestart
    <2>1. torn' \in BOOLEAN
      BY <1>6 DEF TaskRestart, OtherTypes
    <2> QED BY <1>6, <2>1 DEF TaskRestart, TextTypes, OtherTypes
  <1>7. CASE TakeBlock
    BY <1>7 DEF TakeBlock, TextTypes, OtherTypes
  <1>8. CASE SkipLine
    <2>1. parsing' \in BOOLEAN /\ text' \in Seq(Pieces)
      BY <1>8, LineTypes DEF SkipLine, TextTypes
    <2>2. state' \in {"UNKNOWN", "WAIT", "IN_UPDATE"}
      BY <1>8 DEF SkipLine, StateAfter, OtherTypes
    <2> QED BY <1>8, <2>1, <2>2 DEF SkipLine, TextTypes, OtherTypes
  <1>9. CASE PostLine
    <2>1. parsing' \in BOOLEAN /\ text' \in Seq(Pieces)
      BY <1>9, LineTypes DEF PostLine, TextTypes
    <2>2. invented' \in BOOLEAN /\ dropped' \in BOOLEAN
      BY <1>9 DEF PostLine, OtherTypes
    <2>3. input_event_queue' \in Seq(0 .. MaxTold) /\ Len(input_event_queue') <= InputQueueLen
      <3>1. input_event_queue' = xQueueSend(input_event_queue, Confirmed(Line), InputQueueLen)
        BY <1>9 DEF PostLine
      <3>2. InputQueueLen \in Nat
        OBVIOUS
      <3>3. input_event_queue \in Seq(0 .. MaxTold) /\ Len(input_event_queue) <= InputQueueLen
        BY DEF OtherTypes
      <3> QED BY <3>1, <3>2, <3>3, SendEffect, ConfirmedType
    <2>4. heard' \in Seq(1 .. MaxTold)
      <3>1. heard' = heard \/ (Confirmed(Line) # 0 /\ heard' = Append(heard, Confirmed(Line)))
        BY <1>9 DEF PostLine
      <3>2. Confirmed(Line) # 0 => Confirmed(Line) \in 1 .. MaxTold
        BY ConfirmedType
      <3>3. heard \in Seq(1 .. MaxTold)
        BY DEF OtherTypes
      <3>4. \A n \in 1 .. MaxTold : Append(heard, n) \in Seq(1 .. MaxTold)
        BY <3>3
      <3> QED BY <3>1, <3>2, <3>3, <3>4
    <2> QED BY <1>9, <2>1, <2>2, <2>3, <2>4 DEF PostLine, TextTypes, OtherTypes
  <1>10. CASE Panic
    <2>1. /\ << >> \in Seq(0 .. MaxTold) /\ << >> \in Seq(Pieces) /\ << >> \in Seq(Seq(Pieces))
          /\ Len(<< >>) = 0
      OBVIOUS
    <2>2. TextTypes'
      BY <1>10, <2>1 DEF Panic, TextTypes
    <2>3. input_event_queue' \in Seq(0 .. MaxTold) /\ Len(input_event_queue') <= InputQueueLen
      BY <1>10, <2>1 DEF Panic
    <2> QED BY <1>10, <2>2, <2>3 DEF Panic, OtherTypes
  <1>11. CASE LogicTakes
    BY <1>11 DEF LogicTakes, TextTypes, OtherTypes
  <1>12. CASE Connect
    <2>1. told + 1 \in Nat \ {0} /\ (told + 1) + NOutputs - 1 = told + NOutputs
          /\ told + NOutputs \in 0 .. MaxTold
      BY <1>12 DEF Connect, OtherTypes
    <2>2. wire' \in Seq(Pieces)
      <3>1. Other \o Update(told + 1, (told + 1) + NOutputs - 1) \in Seq(Pieces)
        BY <2>1, GreetingType
      <3> QED BY <1>12, <2>1, <3>1 DEF Connect
    <2>3. TextTypes'
      BY <1>12, <2>2 DEF Connect, TextTypes
    <2>4. told' \in 0 .. MaxTold /\ base' \in 0 .. told'
      BY <1>12, <2>1 DEF Connect, OtherTypes
    <2>5. last_piece' \in Pieces
      BY <1>12, PieceTypes DEF Connect
    <2> QED BY <1>12, <2>3, <2>4, <2>5 DEF Connect, OtherTypes
  <1>13. CASE RouterTells
    <2>1. told' = told + 1 /\ told' \in 1 .. MaxTold
      BY <1>13 DEF RouterTells, OtherTypes
    <2>2. PICK first \in {<< >>, Ack} : wire' = wire \o first \o Update(told', told')
      BY <1>13 DEF RouterTells
    <2>3. wire' \in Seq(Pieces)
      BY <2>1, <2>2, ToldType DEF TextTypes
    <2> QED BY <1>13, <2>1, <2>3 DEF RouterTells, TextTypes, OtherTypes
  <1>14. CASE RouterCloses \/ ConnectionBreaks
    <2>1. /\ conn' \in {"closed", "open", "fin", "error"} /\ conn' # "closed"
          /\ ends < MaxEnds /\ ends' = ends + 1
          /\ UNCHANGED << cuts, wire, partial_line_buffer, ethernet_message_input_queue,
                          parserVars, history >>
      BY <1>14 DEF RouterCloses, ConnectionBreaks
    <2>2. ends' \in 0 .. MaxEnds
      BY <2>1 DEF OtherTypes
    <2>3. TextTypes'
      BY <2>1 DEF TextTypes
    <2> QED BY <2>1, <2>2, <2>3 DEF OtherTypes
  <1>15. CASE UNCHANGED vars
    BY <1>15 DEF vars, TextTypes, OtherTypes
  <1> QED
    BY <1>3, <1>4, <1>5, <1>6, <1>7, <1>8, <1>9, <1>10, <1>11, <1>12, <1>13, <1>14, <1>15
       DEF Next, Client, Parser

\* Types for every instance: among them that whatever recv, reassembly and parser
\* cut out of the text is text, that no queue grows beyond its slots, and that
\* there is nothing to receive without a connection.
THEOREM TypeCorrect == Spec => []TypeOK
  BY InitTypeOK, NextTypeOK, PTL DEF Spec
-----------------------------------------------------------------------------
(* The receive path implements LossyLine.  What numbers the text holds, in *)
(* every place it passes through, and that they rise along the way.        *)

\* The confirmation n is in the text s.
In(s, n) == \E i \in 1 .. Len(s) : s[i] = Input(n)

Rising(s) ==
  \A i, j \in 1 .. Len(s) : \A m, n \in 1 .. MaxTold :
    i < j /\ s[i] = Input(m) /\ s[j] = Input(n) => m < n

Before(s, t) == \A m, n \in 1 .. MaxTold : In(s, m) /\ In(t, n) => m < n

Within(s, low, high) == \A n \in 1 .. MaxTold : In(s, n) => low < n /\ n <= high

\* Text that is being parsed, blocks in the queue, and text behind them.
Chain(front, queue, rest, low, high) ==
  /\ Rising(front) /\ Within(front, low, high)
  /\ Rising(rest) /\ Within(rest, low, high)
  /\ Before(front, rest)
  /\ \A k \in 1 .. Len(queue) :
       /\ Rising(queue[k]) /\ Within(queue[k], low, high)
       /\ Before(front, queue[k]) /\ Before(queue[k], rest)
       /\ \A l \in 1 .. Len(queue) : k < l => Before(queue[k], queue[l])

\* The confirmations of s that t and u have are, in this order, a part of s that
\* t begins with and one behind p pieces, no shorter than t.
Splits(s, t, u, p) ==
  /\ p \in Nat /\ Len(t) <= p
  /\ \A i \in 1 .. Len(t) : \A n \in 1 .. MaxTold :
       t[i] = Input(n) => i <= Len(s) /\ s[i] = Input(n)
  /\ \A i \in 1 .. Len(u) : \A n \in 1 .. MaxTold :
       u[i] = Input(n) => p + i <= Len(s) /\ s[p + i] = Input(n)

LEMMA PiecesDiffer ==
  /\ \A m, n : Input(m) = Input(n) => m = n
  /\ \A m, n : Input(m) # Output(n)
  /\ \A n : Input(n) \notin {NewLine, Title, Colon, Word, NextWord, Space}
  BY DEF Input, Output, NewLine, Title, Colon, Word, NextWord, Space

LEMMA SplitKeepsOrder ==
  ASSUME NEW s \in Seq(Pieces), NEW t \in Seq(Pieces), NEW u \in Seq(Pieces), NEW p,
         Splits(s, t, u, p)
  PROVE  /\ \A n \in 1 .. MaxTold : In(t, n) \/ In(u, n) => In(s, n)
         /\ Rising(s) => Rising(t) /\ Rising(u) /\ Before(t, u)
  <1>0. /\ Len(s) \in Nat /\ Len(t) \in Nat /\ Len(u) \in Nat /\ p \in Nat /\ Len(t) <= p
    BY DEF Splits
  <1>1. ASSUME NEW i \in 1 .. Len(t), NEW n \in 1 .. MaxTold, t[i] = Input(n)
        PROVE  i \in 1 .. Len(s) /\ s[i] = Input(n)
    BY <1>0, <1>1 DEF Splits
  <1>2. ASSUME NEW i \in 1 .. Len(u), NEW n \in 1 .. MaxTold, u[i] = Input(n)
        PROVE  p + i \in 1 .. Len(s) /\ s[p + i] = Input(n)
    BY <1>0, <1>2 DEF Splits
  <1>3. \A n \in 1 .. MaxTold : In(t, n) \/ In(u, n) => In(s, n)
    BY <1>1, <1>2 DEF In
  <1>4. ASSUME Rising(s) PROVE Rising(t)
    BY <1>1, <1>4 DEF Rising
  <1>5. ASSUME Rising(s) PROVE Rising(u)
    <2> SUFFICES ASSUME NEW i \in 1 .. Len(u), NEW j \in 1 .. Len(u),
                        NEW m \in 1 .. MaxTold, NEW n \in 1 .. MaxTold,
                        i < j, u[i] = Input(m), u[j] = Input(n)
                 PROVE  m < n
      BY DEF Rising
    <2>1. p + i < p + j
      BY <1>0
    <2>2. /\ p + i \in 1 .. Len(s) /\ s[p + i] = Input(m)
          /\ p + j \in 1 .. Len(s) /\ s[p + j] = Input(n)
      BY <1>2
    <2> QED BY <1>5, <2>1, <2>2 DEF Rising
  <1>6. ASSUME Rising(s) PROVE Before(t, u)
    <2> SUFFICES ASSUME NEW m \in 1 .. MaxTold, NEW n \in 1 .. MaxTold,
                        NEW i \in 1 .. Len(t), NEW j \in 1 .. Len(u),
                        t[i] = Input(m), u[j] = Input(n)
                 PROVE  m < n
      BY DEF Before, In
    <2>1. i < p + j
      BY <1>0
    <2>2. i \in 1 .. Len(s) /\ s[i] = Input(m)
      BY <1>1
    <2>3. p + j \in 1 .. Len(s) /\ s[p + j] = Input(n)
      BY <1>2
    <2> QED BY <1>6, <2>1, <2>2, <2>3 DEF Rising
  <1> QED BY <1>3, <1>4, <1>5, <1>6

\* Text is lost.
LEMMA ChainLoses ==
  ASSUME NEW front \in Seq(Pieces), NEW newfront \in Seq(Pieces), NEW queue,
         NEW rest \in Seq(Pieces), NEW newrest \in Seq(Pieces), NEW low, NEW high,
         Chain(front, queue, rest, low, high),
         Rising(newfront), \A n \in 1 .. MaxTold : In(newfront, n) => In(front, n),
         Rising(newrest), \A n \in 1 .. MaxTold : In(newrest, n) => In(rest, n)
  PROVE  Chain(newfront, queue, newrest, low, high)
  BY DEF Chain, Before, Within

\* A block takes its text from the rest.
LEMMA ChainQueues ==
  ASSUME NEW front \in Seq(Pieces), NEW queue \in Seq(Seq(Pieces)),
         NEW rest \in Seq(Pieces), NEW block \in Seq(Pieces), NEW newrest \in Seq(Pieces),
         NEW low, NEW high, NEW p,
         Chain(front, queue, rest, low, high), Splits(rest, block, newrest, p)
  PROVE  /\ Chain(front, Append(queue, block), newrest, low, high)
         /\ Chain(front, queue, newrest, low, high)
  <1> DEFINE longer == Append(queue, block)
  <1>1. /\ \A n \in 1 .. MaxTold : In(block, n) \/ In(newrest, n) => In(rest, n)
        /\ Rising(block) /\ Rising(newrest) /\ Before(block, newrest)
    BY SplitKeepsOrder DEF Chain
  <1>2. Chain(front, queue, newrest, low, high)
    BY <1>1 DEF Chain, Before, Within
  <1>3. Before(front, block) /\ Within(block, low, high)
        /\ \A k \in 1 .. Len(queue) : Before(queue[k], block)
    BY <1>1 DEF Chain, Before, Within
  <1>4. /\ Len(queue) \in Nat /\ Len(longer) = Len(queue) + 1
        /\ longer[Len(queue) + 1] = block
        /\ \A k \in 1 .. Len(queue) : longer[k] = queue[k]
    OBVIOUS
  <1>5. \A k \in 1 .. Len(longer) : k \in 1 .. Len(queue) \/ k = Len(queue) + 1
    BY <1>4
  <1> HIDE DEF longer
  <1>6. ASSUME NEW k \in 1 .. Len(longer)
        PROVE  /\ Rising(longer[k]) /\ Within(longer[k], low, high)
               /\ Before(front, longer[k]) /\ Before(longer[k], newrest)
    BY <1>1, <1>2, <1>3, <1>4, <1>5 DEF Chain
  <1>7. ASSUME NEW k \in 1 .. Len(longer), NEW l \in 1 .. Len(longer), k < l
        PROVE  Before(longer[k], longer[l])
    <2>1. k \in 1 .. Len(queue)
      BY <1>4, <1>7
    <2>2. CASE l \in 1 .. Len(queue)
      BY <1>2, <1>4, <1>7, <2>1, <2>2 DEF Chain
    <2>3. CASE l = Len(queue) + 1
      BY <1>3, <1>4, <2>1, <2>3
    <2> QED BY <1>5, <2>2, <2>3
  <1>8. Chain(front, longer, newrest, low, high)
    BY <1>2, <1>6, <1>7 DEF Chain
  <1> QED BY <1>2, <1>8 DEF longer

\* A block is taken from the queue.
LEMMA ChainTakes ==
  ASSUME NEW front, NEW queue \in Seq(Seq(Pieces)), queue # << >>, NEW rest, NEW low, NEW high,
         Chain(front, queue, rest, low, high)
  PROVE  Chain(Head(queue), Tail(queue), rest, low, high)
  <1>1. /\ Len(queue) \in Nat /\ 1 \in 1 .. Len(queue) /\ Head(queue) = queue[1]
        /\ \A k \in 1 .. Len(Tail(queue)) :
             k + 1 \in 1 .. Len(queue) /\ 1 < k + 1 /\ Tail(queue)[k] = queue[k + 1]
    OBVIOUS
  <1>2. \A k, l \in 1 .. Len(Tail(queue)) : k < l => k + 1 < l + 1
    OBVIOUS
  <1> QED BY <1>1, <1>2 DEF Chain

\* The router tells more.
LEMMA ChainGrows ==
  ASSUME NEW front, NEW queue, NEW rest \in Seq(Pieces), NEW more \in Seq(Pieces),
         NEW low \in Nat, NEW high \in Nat, NEW newhigh \in Nat, low <= high, high <= newhigh,
         Chain(front, queue, rest, low, high),
         Rising(more), Within(more, high, newhigh)
  PROVE  Chain(front, queue, rest \o more, low, newhigh)
  <1> DEFINE newrest == rest \o more
  <1>1. /\ newrest \in Seq(Pieces) /\ Len(newrest) = Len(rest) + Len(more)
        /\ Len(rest) \in Nat /\ Len(more) \in Nat
        /\ \A i \in 1 .. Len(rest) : newrest[i] = rest[i]
        /\ \A i \in 1 .. Len(more) : newrest[Len(rest) + i] = more[i]
    OBVIOUS
  <1> HIDE DEF newrest
  <1>2. ASSUME NEW i \in 1 .. Len(newrest)
        PROVE  \/ i \in 1 .. Len(rest) /\ newrest[i] = rest[i]
               \/ i - Len(rest) \in 1 .. Len(more) /\ newrest[i] = more[i - Len(rest)]
    <2>1. CASE i <= Len(rest)
      BY <1>1, <2>1
    <2>2. CASE i > Len(rest)
      <3>1. i - Len(rest) \in 1 .. Len(more) /\ i = Len(rest) + (i - Len(rest))
        BY <1>1, <2>2
      <3> QED BY <1>1, <3>1
    <2> QED BY <1>1, <2>1, <2>2
  <1>3. \A n \in 1 .. MaxTold : In(newrest, n) => In(rest, n) \/ In(more, n)
    BY <1>2 DEF In
  <1>4. \A n \in 1 .. MaxTold : In(more, n) => n > high /\ n <= newhigh
    BY DEF Within
  <1>5. Within(rest, low, high) /\ Rising(rest)
    BY DEF Chain
  <1>6. Rising(newrest)
    <2> SUFFICES ASSUME NEW i \in 1 .. Len(newrest), NEW j \in 1 .. Len(newrest),
                        NEW m \in 1 .. MaxTold, NEW n \in 1 .. MaxTold,
                        i < j, newrest[i] = Input(m), newrest[j] = Input(n)
                 PROVE  m < n
      BY DEF Rising
    <2>1. CASE i \in 1 .. Len(rest) /\ newrest[i] = rest[i]
      <3>1. m <= high
        BY <1>5, <2>1 DEF Within, In
      <3>2. CASE j \in 1 .. Len(rest) /\ newrest[j] = rest[j]
        BY <1>5, <2>1, <3>2 DEF Rising
      <3>3. CASE j - Len(rest) \in 1 .. Len(more) /\ newrest[j] = more[j - Len(rest)]
        <4>1. In(more, n)
          BY <3>3 DEF In
        <4> QED BY <1>4, <3>1, <4>1
      <3> QED BY <1>2, <3>2, <3>3
    <2>2. CASE i - Len(rest) \in 1 .. Len(more) /\ newrest[i] = more[i - Len(rest)]
      <3>1. ~(j \in 1 .. Len(rest)) /\ i - Len(rest) < j - Len(rest)
        <4>1. Len(rest) \in Nat /\ i \in Nat /\ j \in Nat /\ i - Len(rest) >= 1
          BY <1>1, <2>2
        <4> QED BY <4>1
      <3>2. j - Len(rest) \in 1 .. Len(more) /\ newrest[j] = more[j - Len(rest)]
        BY <1>2, <3>1
      <3> QED BY <2>2, <3>1, <3>2 DEF Rising
    <2> QED BY <1>2, <2>1, <2>2
  <1>7. \A s : Within(s, low, high) => Within(s, low, newhigh)
    BY DEF Within
  <1>8. Within(newrest, low, newhigh)
    BY <1>3, <1>4, <1>5 DEF Within
  <1>9. \A s : Within(s, low, high) /\ Before(s, rest) => Before(s, newrest)
    BY <1>3, <1>4 DEF Within, Before
  <1>10. Chain(front, queue, newrest, low, newhigh)
    BY <1>6, <1>7, <1>8, <1>9 DEF Chain
  <1> QED BY <1>10 DEF newrest

\* A confirmation from the front is heard.
LEMMA ChainHears ==
  ASSUME NEW front \in Seq(Pieces), NEW newfront \in Seq(Pieces), NEW queue,
         NEW rest, NEW low \in Nat, NEW high, NEW n \in 1 .. MaxTold, NEW p,
         Chain(front, queue, rest, low, high),
         Splits(front, << Output(n), Input(n) >>, newfront, p)
  PROVE  Chain(newfront, queue, rest, n, high) /\ low < n /\ n <= high
  <1> DEFINE line == << Output(n), Input(n) >>
  <1>1. line \in Seq(Pieces) /\ In(line, n)
    <2>1. line \in Seq(Pieces) /\ Len(line) = 2 /\ 2 \in 1 .. 2 /\ line[2] = Input(n)
      BY PieceTypes
    <2> HIDE DEF line
    <2> QED BY <2>1 DEF In
  <1> HIDE DEF line
  <1>2. Splits(front, line, newfront, p)
    BY DEF line
  <1>3. /\ \A m \in 1 .. MaxTold : In(line, m) \/ In(newfront, m) => In(front, m)
        /\ Rising(newfront) /\ Before(line, newfront)
    BY <1>1, <1>2, SplitKeepsOrder DEF Chain
  <1>4. In(front, n) /\ low < n /\ n <= high
    BY <1>1, <1>3 DEF Chain, Within
  <1>5. Within(newfront, n, high)
    BY <1>1, <1>3 DEF Chain, Within, Before
  <1>6. \A s : Within(s, low, high) /\ Before(front, s) => Within(s, n, high)
    BY <1>4 DEF Within, Before
  <1>7. \A s : Before(front, s) => Before(newfront, s)
    BY <1>3 DEF Before
  <1> QED BY <1>3, <1>4, <1>5, <1>6, <1>7 DEF Chain

\* An update names its confirmations, in order.
LEMMA UpdateOrder ==
  ASSUME NEW first \in Nat \ {0}, NEW count \in Nat, first + count - 1 <= MaxTold
  PROVE  /\ Rising(Update(first, first + count - 1))
         /\ Within(Update(first, first + count - 1), first - 1, first + count - 1)
  <1> DEFINE update == Update(first, first + count - 1)
  <1>1. /\ update \in Seq(Pieces) /\ Len(update) = 3 * count + 4
        /\ update[1] = Title /\ update[2] = Colon /\ update[3] = NewLine
        /\ update[3 * count + 4] = NewLine
        /\ \A j \in 1 .. count : /\ update[3 * j + 1] = Output(first + j - 1)
                                /\ update[3 * j + 2] = Input(first + j - 1)
                                /\ update[3 * j + 3] = NewLine
    BY UpdateShape
  <1> HIDE DEF update
  <1>2. ASSUME NEW i \in 1 .. Len(update), NEW n \in 1 .. MaxTold, update[i] = Input(n)
        PROVE  \E j \in 1 .. count : i = 3 * j + 2 /\ n = first + j - 1
    <2>1. i # 1 /\ i # 2 /\ i # 3 /\ i # 3 * count + 4
      BY <1>1, <1>2, PiecesDiffer
    <2>2. PICK j \in 1 .. count : i \in {3 * j + 1, 3 * j + 2, 3 * j + 3}
      <3>1. i \in Nat /\ 4 <= i /\ i <= 3 * count + 3
        BY <1>1, <2>1
      <3>2. (i - 1) \div 3 \in 1 .. count
            /\ i \in {3 * ((i - 1) \div 3) + 1, 3 * ((i - 1) \div 3) + 2, 3 * ((i - 1) \div 3) + 3}
        BY <3>1
      <3> QED BY <3>2
    <2>3. i = 3 * j + 2
      BY <1>1, <1>2, <2>2, PiecesDiffer
    <2>4. Input(n) = Input(first + j - 1)
      BY <1>1, <1>2, <2>3
    <2> QED BY <2>3, <2>4, PiecesDiffer
  <1>3. Rising(update)
    BY <1>2 DEF Rising
  <1>4. Within(update, first - 1, first + count - 1)
    BY <1>2 DEF Within, In
  <1> QED BY <1>3, <1>4 DEF update

\* Text before an update names none.
LEMMA PlainBefore ==
  ASSUME NEW plain \in {<< >>, Ack, Other}, NEW more \in Seq(Pieces),
         NEW low, NEW high, Rising(more), Within(more, low, high)
  PROVE  plain \o more \in Seq(Pieces) /\ Rising(plain \o more) /\ Within(plain \o more, low, high)
  <1> DEFINE longer == plain \o more
  <1>1. /\ plain \in Seq(Pieces)
        /\ \A i \in 1 .. Len(plain) : plain[i] \in {NewLine, Word, NextWord}
    <2>1. CASE plain = << >>
      BY <2>1
    <2>2. CASE plain = Ack
      BY <2>2, PieceTypes DEF Ack
    <2>3. CASE plain = Other
      BY <2>3, PieceTypes DEF Other
    <2> QED BY <2>1, <2>2, <2>3
  <1>2. /\ longer \in Seq(Pieces) /\ Len(longer) = Len(plain) + Len(more)
        /\ Len(plain) \in Nat /\ Len(more) \in Nat
        /\ \A i \in 1 .. Len(plain) : longer[i] = plain[i]
        /\ \A i \in 1 .. Len(more) : longer[Len(plain) + i] = more[i]
    BY <1>1
  <1> HIDE DEF longer
  <1>3. ASSUME NEW i \in 1 .. Len(longer), NEW n \in 1 .. MaxTold, longer[i] = Input(n)
        PROVE  i - Len(plain) \in 1 .. Len(more) /\ more[i - Len(plain)] = Input(n)
    <2>1. ~(i \in 1 .. Len(plain))
      BY <1>1, <1>2, <1>3, PiecesDiffer
    <2>2. i - Len(plain) \in 1 .. Len(more) /\ i = Len(plain) + (i - Len(plain))
      BY <1>2, <2>1
    <2> QED BY <1>2, <1>3, <2>2
  <1>4. Within(longer, low, high)
    BY <1>3 DEF Within, In
  <1>5. Rising(longer)
    <2> SUFFICES ASSUME NEW i \in 1 .. Len(longer), NEW j \in 1 .. Len(longer),
                        NEW m \in 1 .. MaxTold, NEW n \in 1 .. MaxTold,
                        i < j, longer[i] = Input(m), longer[j] = Input(n)
                 PROVE  m < n
      BY DEF Rising
    <2>1. i - Len(plain) < j - Len(plain)
      BY <1>2
    <2> QED BY <1>3, <2>1 DEF Rising
  <1> QED BY <1>2, <1>4, <1>5 DEF longer


\* Text that recv has not returned, behind the line kept back.
Rest == partial_line_buffer \o wire

LEMMA RestAt ==
  ASSUME TextTypes
  PROVE  /\ Rest \in Seq(Pieces) /\ Len(Rest) = Len(partial_line_buffer) + Len(wire)
         /\ \A i \in 1 .. Len(partial_line_buffer) : Rest[i] = partial_line_buffer[i]
         /\ \A i \in 1 .. Len(wire) : Rest[Len(partial_line_buffer) + i] = wire[i]
  <1>1. partial_line_buffer \in Seq(Pieces) /\ wire \in Seq(Pieces)
    BY DEF TextTypes
  <1> QED BY <1>1, ConcatAt DEF Rest

LEMMA FirstByteNoInput == \A piece \in Pieces : \A n : FirstByte(piece) # Input(n)
  <1> SUFFICES ASSUME NEW piece \in Pieces, NEW n PROVE FirstByte(piece) # Input(n)
    OBVIOUS
  <1>1. CASE piece \in {Title, Word}
    BY <1>1, PiecesDiffer DEF FirstByte
  <1>2. CASE piece \notin {Title, Word} /\ piece[1] \in {" word", " input"}
    BY <1>2, PiecesDiffer DEF FirstByte
  <1>3. CASE piece \notin {Title, Word} /\ piece[1] \notin {" word", " input"}
    <2>1. FirstByte(piece) = piece
      BY <1>3 DEF FirstByte
    <2>2. Input(n)[1] = " input"
      BY DEF Input
    <2> QED BY <1>3, <2>1, <2>2
  <1> QED BY <1>1, <1>2, <1>3

\* The first p pieces of s, and what is behind them.
Ahead(s, t, p) == p \in 0 .. Len(s) /\ Len(t) = p /\ \A i \in 1 .. p : t[i] = s[i]

Behind(s, t, p) ==
  p \in 0 .. Len(s) /\ Len(t) = Len(s) - p /\ \A i \in 1 .. Len(t) : t[i] = s[p + i]

LEMMA AheadBehindSplit ==
  ASSUME NEW s, Len(s) \in Nat, NEW t, NEW u, NEW p, Ahead(s, t, p), Behind(s, u, p)
  PROVE  Splits(s, t, u, p)
  <1>1. p \in 0 .. Len(s) /\ Len(t) = p /\ Len(u) = Len(s) - p
    BY DEF Ahead, Behind
  <1>2. \A i \in 1 .. Len(t) : i <= Len(s) /\ t[i] = s[i]
    BY <1>1 DEF Ahead
  <1>3. \A i \in 1 .. Len(u) : p + i <= Len(s) /\ u[i] = s[p + i]
    BY <1>1 DEF Behind
  <1> QED BY <1>1, <1>2, <1>3 DEF Splits

\* The block and what is left when recv has returned the end of a line.
LEMMA LinesCut ==
  ASSUME TextTypes, NEW n \in 1 .. Len(wire), HasLine(SubSeq(wire, 1, n))
  PROVE  LET rx == SubSeq(wire, 1, n)
         IN  /\ Ahead(Rest, partial_line_buffer \o Lines(rx),
                      Len(partial_line_buffer) + LastNewLine(rx))
             /\ Behind(Rest, Remainder(rx) \o SubSeq(wire, n + 1, Len(wire)),
                       Len(partial_line_buffer) + LastNewLine(rx))
             /\ Len(Remainder(rx)) = n - LastNewLine(rx)
             /\ \A i \in 1 .. n - LastNewLine(rx) : Remainder(rx)[i] = wire[LastNewLine(rx) + i]
  <1> DEFINE rx == SubSeq(wire, 1, n)
             last == LastNewLine(rx)
             lines == SubSeq(rx, 1, last)
             begun == SubSeq(rx, last + 1, Len(rx))
             behind == SubSeq(wire, n + 1, Len(wire))
             block == partial_line_buffer \o lines
             left == begun \o behind
  <1>1. wire \in Seq(Pieces) /\ partial_line_buffer \in Seq(Pieces)
        /\ Len(wire) \in Nat /\ Len(partial_line_buffer) \in Nat
    BY DEF TextTypes
  <1>2. /\ rx \in Seq(Pieces) /\ Len(rx) = n
        /\ \A i \in 1 .. n : rx[i] = wire[i]
    BY <1>1, PartType
  <1>3. last \in 0 .. n /\ last > 1
    BY <1>2, LastNewLineIs DEF HasLine
  <1> HIDE DEF rx, last
  <1>4. /\ lines \in Seq(Pieces) /\ Len(lines) = last
        /\ \A i \in 1 .. last : lines[i] = wire[i]
    BY <1>2, <1>3, PartType
  <1>5. /\ begun \in Seq(Pieces) /\ Len(begun) = n - last
        /\ \A i \in 1 .. n - last : begun[i] = wire[last + i]
    BY <1>2, <1>3, PartType
  <1>6. /\ behind \in Seq(Pieces) /\ Len(behind) = Len(wire) - n
        /\ \A i \in 1 .. Len(wire) - n : behind[i] = wire[n + i]
    BY <1>1, PartType
  <1> HIDE DEF lines, begun, behind
  <1>7. /\ block \in Seq(Pieces) /\ Len(block) = Len(partial_line_buffer) + last
        /\ \A i \in 1 .. Len(partial_line_buffer) : block[i] = partial_line_buffer[i]
        /\ \A i \in 1 .. last : block[Len(partial_line_buffer) + i] = wire[i]
    <2>1. /\ block \in Seq(Pieces) /\ Len(block) = Len(partial_line_buffer) + Len(lines)
          /\ \A i \in 1 .. Len(partial_line_buffer) : block[i] = partial_line_buffer[i]
          /\ \A i \in 1 .. Len(lines) : block[Len(partial_line_buffer) + i] = lines[i]
      <3>1. partial_line_buffer \in Seq(Pieces) /\ lines \in Seq(Pieces)
        BY <1>1, <1>4
      <3> QED BY <3>1, ConcatAt
    <2> HIDE DEF block
    <2> QED BY <1>4, <2>1
  <1>8. /\ left \in Seq(Pieces) /\ Len(left) = Len(wire) - last
        /\ \A i \in 1 .. n - last : left[i] = wire[last + i]
        /\ \A i \in 1 .. Len(wire) - n : left[n - last + i] = wire[n + i]
    <2>1. /\ left \in Seq(Pieces) /\ Len(left) = Len(begun) + Len(behind)
          /\ \A i \in 1 .. Len(begun) : left[i] = begun[i]
          /\ \A i \in 1 .. Len(behind) : left[Len(begun) + i] = behind[i]
      <3>1. begun \in Seq(Pieces) /\ behind \in Seq(Pieces)
        BY <1>5, <1>6
      <3> QED BY <3>1, ConcatAt
    <2> HIDE DEF left
    <2> QED BY <1>1, <1>3, <1>5, <1>6, <2>1
  <1> HIDE DEF block, left
  <1>9. \A i \in 1 .. Len(left) : last + i \in 1 .. Len(wire) /\ left[i] = wire[last + i]
    <2> SUFFICES ASSUME NEW i \in 1 .. Len(left)
                 PROVE  last + i \in 1 .. Len(wire) /\ left[i] = wire[last + i]
      OBVIOUS
    <2>1. last + i \in 1 .. Len(wire)
      BY <1>1, <1>3, <1>8
    <2>2. CASE i <= n - last
      BY <1>3, <1>8, <2>2
    <2>3. CASE i > n - last
      <3>1. i - (n - last) \in 1 .. Len(wire) - n
            /\ n - last + (i - (n - last)) = i /\ n + (i - (n - last)) = last + i
        BY <1>1, <1>3, <1>8, <2>3
      <3> QED BY <1>8, <2>1, <3>1
    <2> QED BY <1>3, <2>1, <2>2, <2>3
  <1>10. \A i \in 1 .. Len(left) :
           /\ Len(partial_line_buffer) + last + i <= Len(Rest)
           /\ Rest[Len(partial_line_buffer) + last + i] = left[i]
    <2> SUFFICES ASSUME NEW i \in 1 .. Len(left)
                 PROVE  /\ Len(partial_line_buffer) + last + i <= Len(Rest)
                        /\ Rest[Len(partial_line_buffer) + last + i] = left[i]
      OBVIOUS
    <2>1. Len(partial_line_buffer) + (last + i) = Len(partial_line_buffer) + last + i
      BY <1>1, <1>3
    <2> QED BY <1>1, <1>9, <2>1, RestAt
  <1>11. \A i \in 1 .. Len(block) : i <= Len(Rest) /\ Rest[i] = block[i]
    <2> SUFFICES ASSUME NEW i \in 1 .. Len(block) PROVE i <= Len(Rest) /\ Rest[i] = block[i]
      OBVIOUS
    <2>1. CASE i <= Len(partial_line_buffer)
      BY <1>1, <1>7, <2>1, RestAt
    <2>2. CASE i > Len(partial_line_buffer)
      <3>1. i - Len(partial_line_buffer) \in 1 .. last
            /\ i - Len(partial_line_buffer) \in 1 .. Len(wire)
            /\ Len(partial_line_buffer) + (i - Len(partial_line_buffer)) = i
        BY <1>1, <1>3, <1>7, <2>2
      <3> QED BY <1>1, <1>7, <3>1, RestAt
    <2> QED BY <1>1, <2>1, <2>2
  <1>12. Ahead(Rest, block, Len(partial_line_buffer) + last)
         /\ Behind(Rest, left, Len(partial_line_buffer) + last)
    <2>1. Len(partial_line_buffer) + last \in 0 .. Len(Rest)
          /\ Len(left) = Len(Rest) - (Len(partial_line_buffer) + last)
      BY <1>1, <1>3, <1>8, RestAt
    <2> QED BY <1>7, <1>10, <1>11, <2>1 DEF Ahead, Behind
  <1>13. Lines(rx) = lines /\ Remainder(rx) = begun
    BY DEF Lines, Remainder, lines, begun, last, rx
  <1> QED BY <1>5, <1>12, <1>13 DEF block, left, behind, last, rx

\* The confirmations of the block and of what is left.
LEMMA LinesSplit ==
  ASSUME TextTypes, NEW n \in 1 .. Len(wire), HasLine(SubSeq(wire, 1, n))
  PROVE  LET rx == SubSeq(wire, 1, n)
         IN  Splits(Rest, partial_line_buffer \o Lines(rx),
                    Remainder(rx) \o SubSeq(wire, n + 1, Len(wire)),
                    Len(partial_line_buffer) + LastNewLine(rx))
  <1> DEFINE rx == SubSeq(wire, 1, n)
             block == partial_line_buffer \o Lines(rx)
             left == Remainder(rx) \o SubSeq(wire, n + 1, Len(wire))
             p == Len(partial_line_buffer) + LastNewLine(rx)
  <1>1. Ahead(Rest, block, p) /\ Behind(Rest, left, p)
    BY LinesCut
  <1>2. Len(Rest) \in Nat
    BY RestAt
  <1> HIDE DEF block, left, p
  <1>3. Splits(Rest, block, left, p)
    BY <1>1, <1>2, AheadBehindSplit
  <1> QED BY <1>3 DEF block, left, p

\* The same when it has not.
LEMMA ByteCut ==
  ASSUME TextTypes, NEW n \in 1 .. Len(wire), ~HasLine(SubSeq(wire, 1, n))
  PROVE  LET rx == SubSeq(wire, 1, n)
         IN  /\ LET block == partial_line_buffer \o Lines(rx)
                IN  /\ Len(block) = Len(partial_line_buffer) + 1
                    /\ \A i \in 1 .. Len(partial_line_buffer) : block[i] = partial_line_buffer[i]
                    /\ block[Len(partial_line_buffer) + 1] = FirstByte(wire[1])
             /\ Behind(Rest, Remainder(rx) \o SubSeq(wire, n + 1, Len(wire)),
                       Len(partial_line_buffer) + n)
             /\ Remainder(rx) = << >>
  <1> DEFINE rx == SubSeq(wire, 1, n)
             byte == << FirstByte(rx[1]) >>
             behind == SubSeq(wire, n + 1, Len(wire))
             block == partial_line_buffer \o byte
  <1>1. wire \in Seq(Pieces) /\ partial_line_buffer \in Seq(Pieces)
        /\ Len(wire) \in Nat /\ Len(partial_line_buffer) \in Nat
    BY DEF TextTypes
  <1>2. rx \in Seq(Pieces) /\ Len(rx) = n /\ rx # << >> /\ rx[1] \in Pieces
        /\ rx[1] = wire[1]
    <2>1. /\ rx \in Seq(Pieces) /\ Len(rx) = n
          /\ \A i \in 1 .. n : rx[i] = wire[i]
      BY <1>1, PartType
    <2> HIDE DEF rx
    <2> QED BY <2>1
  <1>3. byte \in Seq(Pieces) /\ Len(byte) = 1 /\ byte[1] = FirstByte(wire[1])
    <2>1. FirstByte(rx[1]) \in Pieces
      BY <1>2, FirstByteType
    <2> HIDE DEF rx
    <2> QED BY <1>2, <2>1
  <1>4. Lines(rx) = byte /\ Remainder(rx) = << >>
    BY <1>2 DEF Lines, Remainder
  <1>5. /\ behind \in Seq(Pieces) /\ Len(behind) = Len(wire) - n
        /\ \A i \in 1 .. Len(wire) - n : behind[i] = wire[n + i]
    BY <1>1, PartType
  <1> HIDE DEF byte, behind, rx
  <1>6. << >> \o behind = behind
    BY <1>5
  <1>7. /\ block \in Seq(Pieces) /\ Len(block) = Len(partial_line_buffer) + 1
        /\ \A i \in 1 .. Len(partial_line_buffer) : block[i] = partial_line_buffer[i]
        /\ block[Len(partial_line_buffer) + 1] = byte[1]
    <2>1. /\ block \in Seq(Pieces) /\ Len(block) = Len(partial_line_buffer) + Len(byte)
          /\ \A i \in 1 .. Len(partial_line_buffer) : block[i] = partial_line_buffer[i]
          /\ \A i \in 1 .. Len(byte) : block[Len(partial_line_buffer) + i] = byte[i]
      <3>1. partial_line_buffer \in Seq(Pieces) /\ byte \in Seq(Pieces)
        BY <1>1, <1>3
      <3> QED BY <3>1, ConcatAt
    <2>2. 1 \in 1 .. 1
      OBVIOUS
    <2> HIDE DEF block
    <2> QED BY <1>3, <2>1, <2>2
  <1> HIDE DEF block
  <1>8. \A i \in 1 .. Len(behind) : /\ Len(partial_line_buffer) + n + i <= Len(Rest)
                                    /\ Rest[Len(partial_line_buffer) + n + i] = behind[i]
    <2> SUFFICES ASSUME NEW i \in 1 .. Len(behind)
                 PROVE  /\ Len(partial_line_buffer) + n + i <= Len(Rest)
                        /\ Rest[Len(partial_line_buffer) + n + i] = behind[i]
      OBVIOUS
    <2>1. Len(partial_line_buffer) + (n + i) = Len(partial_line_buffer) + n + i
          /\ n + i \in 1 .. Len(wire)
      BY <1>1, <1>5
    <2>2. Rest[Len(partial_line_buffer) + (n + i)] = wire[n + i]
      BY <2>1, RestAt
    <2>3. behind[i] = wire[n + i]
      BY <1>5
    <2>4. Len(Rest) = Len(partial_line_buffer) + Len(wire)
      BY RestAt
    <2> QED BY <1>1, <2>1, <2>2, <2>3, <2>4
  <1>9. Behind(Rest, behind, Len(partial_line_buffer) + n)
    <2>1. Len(partial_line_buffer) + n \in 0 .. Len(Rest)
          /\ Len(behind) = Len(Rest) - (Len(partial_line_buffer) + n)
      BY <1>1, <1>5, RestAt
    <2> QED BY <1>8, <2>1 DEF Behind
  <1> QED BY <1>3, <1>4, <1>6, <1>7, <1>9 DEF block, behind, rx

LEMMA ByteSplit ==
  ASSUME TextTypes, NEW n \in 1 .. Len(wire), ~HasLine(SubSeq(wire, 1, n))
  PROVE  LET rx == SubSeq(wire, 1, n)
         IN  Splits(Rest, partial_line_buffer \o Lines(rx),
                    Remainder(rx) \o SubSeq(wire, n + 1, Len(wire)),
                    Len(partial_line_buffer) + n)
  <1> DEFINE rx == SubSeq(wire, 1, n)
             block == partial_line_buffer \o Lines(rx)
             left == Remainder(rx) \o SubSeq(wire, n + 1, Len(wire))
             p == Len(partial_line_buffer) + n
  <1>1. /\ Len(block) = Len(partial_line_buffer) + 1
        /\ \A i \in 1 .. Len(partial_line_buffer) : block[i] = partial_line_buffer[i]
        /\ block[Len(partial_line_buffer) + 1] = FirstByte(wire[1])
        /\ Behind(Rest, left, p)
    BY ByteCut
  <1>2. /\ wire \in Seq(Pieces) /\ Len(wire) \in Nat /\ Len(partial_line_buffer) \in Nat
        /\ Len(Rest) = Len(partial_line_buffer) + Len(wire) /\ p <= Len(Rest)
    BY RestAt DEF TextTypes
  <1> HIDE DEF block, left
  <1>3. \A m : block[Len(partial_line_buffer) + 1] # Input(m)
    <2>1. wire[1] \in Pieces
      BY <1>2
    <2> QED BY <1>1, <2>1, FirstByteNoInput
  <1>4. \A i \in 1 .. Len(block) : \A m \in 1 .. MaxTold :
          block[i] = Input(m) => i <= Len(Rest) /\ Rest[i] = Input(m)
    <2> SUFFICES ASSUME NEW i \in 1 .. Len(block), NEW m, block[i] = Input(m)
                 PROVE  i <= Len(Rest) /\ Rest[i] = Input(m)
      OBVIOUS
    <2>1. i \in 1 .. Len(partial_line_buffer)
      BY <1>1, <1>2, <1>3
    <2>2. block[i] = partial_line_buffer[i] /\ Rest[i] = partial_line_buffer[i]
      BY <1>1, <2>1, RestAt
    <2> QED BY <1>2, <2>1, <2>2
  <1>5. Splits(Rest, block, left, p)
    <2>1. p \in Nat /\ Len(block) <= p
      BY <1>1, <1>2
    <2>2. \A i \in 1 .. Len(left) : p + i <= Len(Rest) /\ left[i] = Rest[p + i]
      BY <1>1, <1>2 DEF Behind
    <2> HIDE DEF p
    <2> QED BY <1>4, <2>1, <2>2 DEF Splits
  <1> QED BY <1>5 DEF block, left


\* A line and what is behind it.
LEMMA LineSplit ==
  ASSUME text \in Seq(Pieces), NextLine
  PROVE  Line \in Seq(Pieces) /\ text' \in Seq(Pieces) /\ \E p : Splits(text, Line, text', p)
  <1>1. FirstNewLine \in 0 .. Len(text) /\ Len(text) \in Nat
    BY FirstNewLineIs
  <1>2. CASE FirstNewLine = 0
    <2>1. Line = text /\ text' = << >>
      BY <1>2 DEF Line, NextLine
    <2>2. << >> \in Seq(Pieces) /\ Len(<< >>) = 0
      OBVIOUS
    <2>3. Splits(text, text, << >>, Len(text))
      BY <1>1, <2>2 DEF Splits
    <2> QED BY <2>1, <2>2, <2>3
  <1>3. CASE FirstNewLine # 0
    <2> DEFINE f == FirstNewLine
               line == SubSeq(text, 1, f - 1)
               behind == SubSeq(text, f + 1, Len(text))
    <2>1. Line = line /\ text' = behind
      BY <1>3 DEF Line, NextLine
    <2>2. f \in 1 .. Len(text)
      BY <1>1, <1>3
    <2> HIDE DEF f
    <2>3. /\ line \in Seq(Pieces) /\ Len(line) = f - 1
          /\ \A i \in 1 .. f - 1 : line[i] = text[i]
      BY <1>1, <2>2, PartType
    <2>4. /\ behind \in Seq(Pieces) /\ Len(behind) = Len(text) - f
          /\ \A i \in 1 .. Len(text) - f : behind[i] = text[f + i]
      BY <1>1, <2>2, PartType
    <2> HIDE DEF line, behind
    <2>5. Splits(text, line, behind, f)
      BY <1>1, <2>2, <2>3, <2>4 DEF Splits
    <2> QED BY <2>1, <2>3, <2>4, <2>5
  <1> QED BY <1>2, <1>3

LEMMA ConfirmedLine ==
  Confirmed(Line) # 0 =>
    /\ Confirmed(Line) \in 1 .. MaxTold
    /\ Line = << Output(Confirmed(Line)), Input(Confirmed(Line)) >>
  <1> SUFFICES ASSUME Confirmed(Line) # 0
               PROVE  /\ Confirmed(Line) \in 1 .. MaxTold
                      /\ Line = << Output(Confirmed(Line)), Input(Confirmed(Line)) >>
    OBVIOUS
  <1>1. PICK n \in 1 .. MaxTold : Line = << Output(n), Input(n) >>
    BY DEF Confirmed
  <1>2. Confirmed(Line) = n
    BY <1>1 DEF Confirmed, Output
  <1> QED BY <1>1, <1>2

\* What has been heard is behind all that is still on its way.
Flow ==
  /\ Chain(text, ethernet_message_input_queue, Rest, Confirmations!Newest, told)
  /\ Confirmations!Newest <= told

OrderInv == TypeOK /\ Flow

LEMMA NewestType ==
  ASSUME OrderInv
  PROVE  Confirmations!Newest \in Nat /\ told \in Nat /\ Confirmations!Newest <= told
  <1>1. heard \in Seq(1 .. MaxTold) /\ told \in Nat
    BY StreamAssumption DEF OrderInv, TypeOK
  <1>2. heard # << >> => heard[Len(heard)] \in 1 .. MaxTold
    <2>1. heard # << >> => Len(heard) \in 1 .. Len(heard)
      BY <1>1
    <2>2. \A i \in 1 .. Len(heard) : heard[i] \in 1 .. MaxTold
      BY <1>1, ElementOfSeq
    <2> QED BY <2>1, <2>2
  <1>3. heard # << >> => heard[Len(heard)] \in Nat
    BY <1>2
  <1> QED BY <1>1, <1>3 DEF Confirmations!Newest, OrderInv, Flow

\* A part of the text is in order and names nothing else.
LEMMA EmptyKept ==
  /\ << >> \in Seq(Pieces) /\ Rising(<< >>) /\ \A n : ~In(<< >>, n)
  BY DEF Rising, In

LEMMA InitFlow == Init => Flow
  <1> SUFFICES ASSUME Init PROVE Flow
    OBVIOUS
  <1>1. /\ text = << >> /\ ethernet_message_input_queue = << >> /\ told = 0
        /\ heard = << >> /\ Rest = << >>
    BY DEF Init, Rest
  <1>2. Confirmations!Newest = 0
    BY <1>1 DEF Confirmations!Newest
  <1>3. Chain(<< >>, << >>, << >>, 0, 0)
    BY EmptyKept DEF Chain, Before, Within
  <1> QED BY <1>1, <1>2, <1>3 DEF Flow

\* Steps that only lose text.
LEMMA LosesFlow ==
  ASSUME OrderInv, text' \in Seq(Pieces), Rest' \in Seq(Pieces),
         UNCHANGED << ethernet_message_input_queue, told, heard >>,
         Rising(text'), \A n \in 1 .. MaxTold : In(text', n) => In(text, n),
         Rising(Rest'), \A n \in 1 .. MaxTold : In(Rest', n) => In(Rest, n)
  PROVE  Flow'
  <1>1. text \in Seq(Pieces) /\ Rest \in Seq(Pieces)
    <2>1. TextTypes
      BY TypeParts DEF OrderInv
    <2> QED BY <2>1, RestAt DEF TextTypes
  <1>2. Confirmations!Newest' = Confirmations!Newest
    BY DEF Confirmations!Newest
  <1>3. Chain(text, ethernet_message_input_queue, Rest, Confirmations!Newest, told)
        /\ Confirmations!Newest <= told
    BY DEF OrderInv, Flow
  <1>4. Chain(text', ethernet_message_input_queue, Rest', Confirmations!Newest, told)
    BY <1>1, <1>3, ChainLoses
  <1> QED BY <1>2, <1>3, <1>4 DEF Flow

LEMMA ReceiveFlow ==
  ASSUME OrderInv, Receive PROVE Flow'
  <1>1. TextTypes
    BY TypeParts DEF OrderInv
  <1>2. PICK n \in 1 .. RxAvailable :
          Reassemble(SubSeq(wire, 1, n)) /\ wire' = SubSeq(wire, n + 1, Len(wire))
    BY DEF Receive
  <1> DEFINE rx == SubSeq(wire, 1, n)
             block == partial_line_buffer \o Lines(rx)
             left == Remainder(rx) \o SubSeq(wire, n + 1, Len(wire))
  <1>3. n \in 1 .. Len(wire)
    BY <1>1, RxIsThere DEF TextTypes
  <1>4. PICK p : Splits(Rest, block, left, p)
    BY <1>1, <1>3, LinesSplit, ByteSplit
  <1>5. rx \in Seq(Pieces) /\ SubSeq(wire, n + 1, Len(wire)) \in Seq(Pieces)
    <2>1. /\ wire \in Seq(Pieces) /\ n + 1 \in 1 .. Len(wire) + 1
          /\ Len(wire) \in (n + 1) - 1 .. Len(wire)
      BY <1>1, <1>3 DEF TextTypes
    <2> QED BY <1>3, <2>1, PartType
  <1> HIDE DEF rx
  <1>6. block \in Seq(Pieces) /\ left \in Seq(Pieces)
    <2>1. Lines(rx) \in Seq(Pieces) /\ Remainder(rx) \in Seq(Pieces)
      BY <1>5, LinesType, RemainderType
    <2> QED BY <1>1, <1>5, <2>1, ConcatAt DEF TextTypes
  <1>7. /\ Rest' = left
        /\ ethernet_message_input_queue' \in
             {ethernet_message_input_queue, Append(ethernet_message_input_queue, block)}
    BY <1>2 DEF rx, Rest, Reassemble, SendBlock, xQueueSend
  <1> HIDE DEF block, left
  <1>8. /\ Chain(text, ethernet_message_input_queue, Rest, Confirmations!Newest, told)
        /\ Confirmations!Newest <= told
        /\ text \in Seq(Pieces) /\ Rest \in Seq(Pieces)
        /\ ethernet_message_input_queue \in Seq(Seq(Pieces))
    BY <1>1, RestAt DEF OrderInv, Flow, TextTypes
  <1>9. /\ Chain(text, Append(ethernet_message_input_queue, block), left,
                 Confirmations!Newest, told)
        /\ Chain(text, ethernet_message_input_queue, left, Confirmations!Newest, told)
    BY <1>4, <1>6, <1>8, ChainQueues
  <1>10. UNCHANGED << text, told, heard >> /\ Confirmations!Newest' = Confirmations!Newest
    BY DEF Receive, parserVars, Confirmations!Newest
  <1> QED BY <1>7, <1>8, <1>9, <1>10 DEF Flow

LEMMA ReceiveEndFlow ==
  ASSUME OrderInv, ReceiveEnd PROVE Flow'
  <1>1. TextTypes /\ wire = << >> /\ wire' = << >>
    BY TypeParts DEF OrderInv, ReceiveEnd
  <1>2. << >> \in Seq(Pieces) /\ Len(<< >>) = 0
    OBVIOUS
  <1>3. ~HasLine(<< >>)
    <2>1. LastNewLine(<< >>) \in 0 .. 0
      BY <1>2, LastNewLineIs
    <2> QED BY <2>1 DEF HasLine
  <1>4. Lines(<< >>) = << >> /\ Remainder(<< >>) = << >>
    BY <1>3 DEF Lines, Remainder
  <1>5. partial_line_buffer \in Seq(Pieces) /\ Rest = partial_line_buffer
        /\ partial_line_buffer \o Lines(<< >>) = partial_line_buffer
    BY <1>1, <1>4 DEF TextTypes, Rest
  <1>6. Rest' = << >>
    BY <1>1, <1>4 DEF ReceiveEnd, Reassemble, Rest
  <1>7. ethernet_message_input_queue' \in
          {ethernet_message_input_queue,
           Append(ethernet_message_input_queue, partial_line_buffer)}
    BY <1>5 DEF ReceiveEnd, Reassemble, SendBlock, xQueueSend
  <1>8. Splits(Rest, partial_line_buffer, << >>, Len(partial_line_buffer))
    <2>1. Len(partial_line_buffer) \in Nat
      BY <1>5
    <2> QED BY <1>2, <1>5, <2>1 DEF Splits
  <1>9. /\ Chain(text, ethernet_message_input_queue, Rest, Confirmations!Newest, told)
        /\ Confirmations!Newest <= told
        /\ text \in Seq(Pieces) /\ Rest \in Seq(Pieces)
        /\ ethernet_message_input_queue \in Seq(Seq(Pieces))
    BY <1>1, RestAt DEF OrderInv, Flow, TextTypes
  <1>10. /\ Chain(text, Append(ethernet_message_input_queue, partial_line_buffer), << >>,
                  Confirmations!Newest, told)
         /\ Chain(text, ethernet_message_input_queue, << >>, Confirmations!Newest, told)
    BY <1>2, <1>5, <1>8, <1>9, ChainQueues
  <1>11. UNCHANGED << text, told, heard >> /\ Confirmations!Newest' = Confirmations!Newest
    BY DEF ReceiveEnd, parserVars, Confirmations!Newest
  <1> QED BY <1>6, <1>7, <1>9, <1>10, <1>11 DEF Flow


LEMMA PostFlow ==
  ASSUME OrderInv, PostLine
  PROVE  /\ Flow'
         /\ UNCHANGED told
         /\ \/ UNCHANGED heard
            \/ \E n \in Confirmations!Newest + 1 .. told : heard' = Append(heard, n)
  <1>1. TextTypes /\ text \in Seq(Pieces)
    BY TypeParts DEF OrderInv, TextTypes
  <1>2. PICK p : Line \in Seq(Pieces) /\ text' \in Seq(Pieces) /\ Splits(text, Line, text', p)
    BY <1>1, LineSplit DEF PostLine
  <1>3. UNCHANGED << ethernet_message_input_queue, told, Rest >>
    BY DEF PostLine, clientVars, Rest
  <1>4. CASE heard' = heard
    <2>1. Rising(text') /\ \A n \in 1 .. MaxTold : In(text', n) => In(text, n)
      BY <1>1, <1>2, SplitKeepsOrder DEF OrderInv, Flow, Chain
    <2>2. Rest \in Seq(Pieces) /\ Rising(Rest)
      BY <1>1, RestAt DEF OrderInv, Flow, Chain
    <2> QED BY <1>2, <1>3, <1>4, <2>1, <2>2, LosesFlow
  <1>5. CASE heard' # heard
    <2>1. PICK n \in 1 .. MaxTold :
            heard' = Append(heard, n) /\ Line = << Output(n), Input(n) >>
      BY <1>5, ConfirmedLine DEF PostLine
    <2>2. Confirmations!Newest \in Nat /\ told \in Nat
      BY NewestType
    <2>3. Chain(text, ethernet_message_input_queue, Rest, Confirmations!Newest, told)
      BY DEF OrderInv, Flow
    <2>4. /\ Chain(text', ethernet_message_input_queue, Rest, n, told)
          /\ Confirmations!Newest < n /\ n <= told
      BY <1>1, <1>2, <2>1, <2>2, <2>3, ChainHears
    <2>5. Confirmations!Newest' = n
      <3>1. heard \in Seq(1 .. MaxTold)
        BY DEF OrderInv, TypeOK
      <3>2. heard' # << >> /\ heard'[Len(heard')] = n
        BY <2>1, <3>1
      <3> QED BY <3>2 DEF Confirmations!Newest
    <2>6. n \in Confirmations!Newest + 1 .. told
      BY <2>2, <2>4
    <2> QED BY <1>3, <2>1, <2>4, <2>5, <2>6 DEF Flow
  <1> QED BY <1>4, <1>5

LEMMA ConcatThree ==
  \A s, t, u \in Seq(Pieces) : s \o (t \o u) = (s \o t) \o u
  <1> SUFFICES ASSUME NEW s \in Seq(Pieces), NEW t \in Seq(Pieces), NEW u \in Seq(Pieces)
               PROVE  s \o (t \o u) = (s \o t) \o u
    OBVIOUS
  <1>1. (s \o t) \o u = s \o (t \o u)
    BY ConcatAssociative
  <1> QED BY <1>1

\* The router sends more: its greeting or an update.
LEMMA TellFlow ==
  ASSUME OrderInv, UNCHANGED << text, ethernet_message_input_queue, partial_line_buffer, heard >>,
         NEW plain \in {<< >>, Ack, Other}, NEW count \in Nat,
         told' = told + count, told' <= MaxTold,
         wire' = wire \o (plain \o Update(told + 1, told + count))
  PROVE  Flow'
  <1> DEFINE update == Update(told + 1, told + count)
             more == plain \o update
  <1>1. /\ TextTypes /\ wire \in Seq(Pieces) /\ partial_line_buffer \in Seq(Pieces)
        /\ text \in Seq(Pieces) /\ ethernet_message_input_queue \in Seq(Seq(Pieces))
    BY TypeParts DEF OrderInv, TextTypes
  <1>2. Confirmations!Newest \in Nat /\ told \in Nat /\ Confirmations!Newest <= told
    BY NewestType
  <1>3. /\ told + 1 \in Nat \ {0} /\ (told + 1) + count - 1 = told + count
        /\ (told + 1) - 1 = told /\ told + count <= MaxTold
    BY <1>2
  <1>4. update \in Seq(Pieces) /\ Rising(update) /\ Within(update, told, told + count)
    <2>1. /\ Update(told + 1, (told + 1) + count - 1) \in Seq(Pieces)
      BY <1>3, UpdateShape
    <2>2. /\ Rising(Update(told + 1, (told + 1) + count - 1))
          /\ Within(Update(told + 1, (told + 1) + count - 1), (told + 1) - 1,
                    (told + 1) + count - 1)
      BY <1>3, UpdateOrder
    <2> QED BY <1>3, <2>1, <2>2
  <1> HIDE DEF update
  <1>5. more \in Seq(Pieces) /\ Rising(more) /\ Within(more, told, told + count)
    BY <1>4, PlainBefore
  <1>6. wire' = wire \o more
    BY DEF update
  <1> HIDE DEF more
  <1>7. Rest' = Rest \o more
    <2>1. partial_line_buffer \o (wire \o more) = (partial_line_buffer \o wire) \o more
      <3>1. partial_line_buffer \in Seq(Pieces) /\ wire \in Seq(Pieces) /\ more \in Seq(Pieces)
        BY <1>1, <1>5
      <3> QED BY <3>1, ConcatThree
    <2> QED BY <1>6, <2>1 DEF Rest
  <1>8. /\ Chain(text, ethernet_message_input_queue, Rest, Confirmations!Newest, told)
        /\ Rest \in Seq(Pieces)
    BY <1>1, RestAt DEF OrderInv, Flow
  <1>9. Chain(text, ethernet_message_input_queue, Rest \o more, Confirmations!Newest, told + count)
    <2>1. told + count \in Nat /\ told <= told + count
      BY <1>2
    <2> QED BY <1>2, <1>5, <1>8, <2>1, ChainGrows
  <1>10. Confirmations!Newest' = Confirmations!Newest /\ Confirmations!Newest <= told + count
    BY <1>2 DEF Confirmations!Newest
  <1> QED BY <1>7, <1>9, <1>10 DEF Flow

LEMMA NextFlow == OrderInv /\ [Next]_vars => Flow'
  <1> SUFFICES ASSUME OrderInv, [Next]_vars PROVE Flow'
    OBVIOUS
  <1>1. /\ TextTypes /\ text \in Seq(Pieces) /\ partial_line_buffer \in Seq(Pieces)
        /\ wire \in Seq(Pieces) /\ ethernet_message_input_queue \in Seq(Seq(Pieces))
        /\ Rest \in Seq(Pieces)
    <2>1. TextTypes
      BY TypeParts DEF OrderInv
    <2> QED BY <2>1, RestAt DEF TextTypes
  <1>2. /\ Chain(text, ethernet_message_input_queue, Rest, Confirmations!Newest, told)
        /\ Confirmations!Newest <= told
    BY DEF OrderInv, Flow
  <1>3. Rising(text) /\ Rising(Rest)
    BY <1>2 DEF Chain
  <1>4. CASE Receive \/ ReceiveEnd
    BY <1>4, ReceiveFlow, ReceiveEndFlow
  <1>5. CASE CloseSocket
    <2>1. Splits(Rest, partial_line_buffer, << >>, Len(partial_line_buffer))
      <3>1. Len(partial_line_buffer) \in Nat /\ Len(wire) \in Nat /\ Len(<< >>) = 0
        BY <1>1
      <3>2. \A i \in 1 .. Len(partial_line_buffer) :
              i <= Len(Rest) /\ Rest[i] = partial_line_buffer[i]
        BY <1>1, <3>1, RestAt
      <3> QED BY <3>1, <3>2 DEF Splits
    <2>2. Rising(partial_line_buffer)
          /\ \A n \in 1 .. MaxTold : In(partial_line_buffer, n) => In(Rest, n)
      BY <1>1, <1>3, <2>1, EmptyKept, SplitKeepsOrder
    <2>3. Rest' = partial_line_buffer
      <3>1. Rest' = partial_line_buffer \o << >>
        BY <1>5 DEF CloseSocket, Rest
      <3> QED BY <1>1, <3>1
    <2>4. UNCHANGED << text, ethernet_message_input_queue, told, heard >>
      BY <1>5 DEF CloseSocket, parserVars
    <2> QED BY <1>1, <1>3, <2>2, <2>3, <2>4, LosesFlow
  <1>6. CASE TaskRestart
    <2>1. Rest' = << >> /\ UNCHANGED << text, ethernet_message_input_queue, told, heard >>
      BY <1>6 DEF TaskRestart, Rest, parserVars
    <2> QED BY <1>1, <1>3, <2>1, EmptyKept, LosesFlow
  <1>7. CASE TakeBlock
    <2>1. /\ ethernet_message_input_queue # << >> /\ text' = Head(ethernet_message_input_queue)
          /\ ethernet_message_input_queue' = Tail(ethernet_message_input_queue)
          /\ UNCHANGED << told, heard, Rest, Confirmations!Newest >>
      BY <1>7 DEF TakeBlock, clientVars, history, Rest, Confirmations!Newest
    <2>2. Chain(Head(ethernet_message_input_queue), Tail(ethernet_message_input_queue), Rest,
                Confirmations!Newest, told)
      BY <1>1, <1>2, <2>1, ChainTakes
    <2> QED BY <1>2, <2>1, <2>2 DEF Flow
  <1>8. CASE SkipLine
    <2>1. PICK p : Line \in Seq(Pieces) /\ text' \in Seq(Pieces) /\ Splits(text, Line, text', p)
      BY <1>1, <1>8, LineSplit DEF SkipLine
    <2>2. Rising(text') /\ \A n \in 1 .. MaxTold : In(text', n) => In(text, n)
      BY <1>1, <1>3, <2>1, SplitKeepsOrder
    <2>3. UNCHANGED << ethernet_message_input_queue, told, heard, Rest >>
      BY <1>8 DEF SkipLine, clientVars, history, Rest
    <2> QED BY <1>1, <1>3, <2>1, <2>2, <2>3, LosesFlow
  <1>9. CASE PostLine
    BY <1>9, PostFlow
  <1>10. CASE Panic
    <2>1. /\ text' = << >> /\ Rest' = << >> /\ ethernet_message_input_queue' = << >>
          /\ UNCHANGED << told, heard, Confirmations!Newest >>
      BY <1>10 DEF Panic, Rest, Confirmations!Newest
    <2>2. Chain(<< >>, << >>, << >>, Confirmations!Newest, told)
      BY EmptyKept DEF Chain, Before, Within
    <2> QED BY <1>2, <2>1, <2>2 DEF Flow
  <1>11. CASE LogicTakes \/ RouterCloses \/ ConnectionBreaks \/ UNCHANGED vars
    <2>1. UNCHANGED << text, ethernet_message_input_queue, told, heard, Rest,
                       Confirmations!Newest >>
      BY <1>11 DEF LogicTakes, RouterCloses, ConnectionBreaks, vars, clientVars, parserVars,
                   history, Rest, Confirmations!Newest
    <2> QED BY <1>2, <2>1 DEF Flow
  <1>12. CASE Connect
    <2>1. wire = << >>
      BY <1>12 DEF Connect, OrderInv, TypeOK
    <2>2. NOutputs \in Nat
      BY StreamAssumption
    <2>3. /\ wire' = Other \o Update(told + 1, told + NOutputs)
          /\ told' = told + NOutputs /\ told' <= MaxTold
          /\ UNCHANGED << text, ethernet_message_input_queue, partial_line_buffer, heard >>
      BY <1>12 DEF Connect, parserVars
    <2>4. wire' = wire \o (Other \o Update(told + 1, told + NOutputs))
      <3>1. wire' \in Seq(Pieces)
        <4>1. TypeOK'
          BY <1>12, NextTypeOK DEF OrderInv, Next
        <4> QED BY <4>1 DEF TypeOK
      <3>2. << >> \o wire' = wire'
        BY <3>1
      <3> QED BY <2>1, <2>3, <3>2
    <2> QED BY <2>2, <2>3, <2>4, TellFlow
  <1>13. CASE RouterTells
    <2>1. PICK plain \in {<< >>, Ack} : wire' = wire \o plain \o Update(told', told')
      BY <1>13 DEF RouterTells
    <2>2. /\ told' = told + 1 /\ told' <= MaxTold
          /\ UNCHANGED << text, ethernet_message_input_queue, partial_line_buffer, heard >>
      <3>1. told \in 0 .. MaxTold
        BY DEF OrderInv, TypeOK
      <3> QED BY <1>13, <3>1, StreamAssumption DEF RouterTells, parserVars
    <2>3. wire \o plain \o Update(told', told') = wire \o (plain \o Update(told + 1, told + 1))
      <3>1. plain \in Seq(Pieces)
        <4>1. Ack \in Seq(Pieces) /\ << >> \in Seq(Pieces)
          BY PieceTypes DEF Ack
        <4> QED BY <4>1
      <3>2. Update(told + 1, told + 1) \in Seq(Pieces)
        <4>1. told \in Nat /\ 1 \in Nat
          BY NewestType
        <4>2. told + 1 \in Nat \ {0} /\ (told + 1) + 1 - 1 = told + 1
          BY <4>1
        <4>3. Update(told + 1, (told + 1) + 1 - 1) \in Seq(Pieces)
          BY <2>2, <4>1, <4>2, UpdateShape
        <4> QED BY <4>2, <4>3
      <3>3. wire \in Seq(Pieces)
        BY <1>1
      <3>4. wire \o (plain \o Update(told + 1, told + 1))
              = (wire \o plain) \o Update(told + 1, told + 1)
        BY <3>1, <3>2, <3>3, ConcatThree
      <3> QED BY <2>2, <3>4
    <2> QED BY <2>1, <2>2, <2>3, TellFlow
  <1> QED
    BY <1>4, <1>5, <1>6, <1>7, <1>8, <1>9, <1>10, <1>11, <1>12, <1>13
       DEF Next, Client, Parser

LEMMA NextOrderInv == OrderInv /\ [Next]_vars => OrderInv'
  BY NextTypeOK, NextFlow DEF OrderInv

\* The receive path implements LossyLine: however recv cuts the text, over any
\* number of connections, crashes and full queues, what tcp_recv_task posts of
\* the router's confirmations it posts in the router's order and each once.
THEOREM ReceivePathImplementsLossyLine == Spec => InOrder
  <1>1. Init => OrderInv
    BY InitTypeOK, InitFlow DEF OrderInv
  <1>2. Init => Confirmations!Init
    BY DEF Init, Confirmations!Init
  <1>3. OrderInv /\ [Next]_vars => [Confirmations!Next]_<< told, heard >>
    <2> SUFFICES ASSUME OrderInv, [Next]_vars
                 PROVE  Confirmations!Next \/ UNCHANGED << told, heard >>
      OBVIOUS
    <2>1. told \in Nat /\ NOutputs \in Nat
      BY NewestType, StreamAssumption
    <2>2. CASE PostLine
      BY <2>2, PostFlow DEF Confirmations!Next, Confirmations!Hear
    <2>3. CASE Connect
      <3>1. told' = told + NOutputs /\ UNCHANGED heard
        BY <2>3 DEF Connect
      <3> QED BY <2>1, <3>1 DEF Confirmations!Next, Confirmations!Tell
    <2>4. CASE RouterTells
      <3>1. told' = told + 1 /\ UNCHANGED heard
        BY <2>4 DEF RouterTells
      <3> QED BY <2>1, <3>1 DEF Confirmations!Next, Confirmations!Tell
    <2>5. CASE ~PostLine /\ ~Connect /\ ~RouterTells
      BY <2>5 DEF Next, Client, Parser, Receive, ReceiveEnd, CloseSocket, TaskRestart, TakeBlock,
                  SkipLine, Panic, LogicTakes, RouterCloses, ConnectionBreaks, vars, history
    <2> QED BY <2>2, <2>3, <2>4, <2>5
  <1> QED
    BY <1>1, <1>2, <1>3, NextOrderInv, PTL DEF Spec, InOrder, Confirmations!Spec
-----------------------------------------------------------------------------
(* Nothing is invented.  Where the newlines of updates are in the text, in *)
(* every place it passes through, and that the newline behind a title      *)
(* comes as long as nothing is torn.                                       *)

\* A line of an update, with its newline, is in s from i on.
LineAt(s, i) ==
  /\ i + 2 <= Len(s) /\ s[i + 2] = NewLine
  /\ \E n \in 1 .. MaxTold : s[i] = Output(n) /\ s[i + 1] = Input(n)

InsideUpdate(piece) == piece = Colon \/ \E n \in 1 .. MaxTold : piece = Input(n)

\* Behind the title and behind each line of an update is a line or a blank one,
\* where the text does not end.
UpdateGoesOn(s) ==
  \A i \in 2 .. Len(s) : s[i] = NewLine /\ InsideUpdate(s[i - 1]) =>
    i = Len(s) \/ s[i + 1] = NewLine \/ LineAt(s, i + 1)

TitleLineEnds(s) == \A i \in 1 .. Len(s) - 1 : s[i] = Colon => s[i + 1] = NewLine

InShape(s) == UpdateGoesOn(s) /\ TitleLineEnds(s)

\* The text ends with a blank line.
BlankAtEnd(s) ==
  Len(s) >= 1 => s[Len(s)] = NewLine /\ (Len(s) >= 2 => s[Len(s) - 1] = NewLine)

BeginsWithNewLine(s) == Len(s) >= 1 /\ s[1] = NewLine

EndsInColon(s) == Len(s) >= 1 /\ s[Len(s)] = Colon

LEMMA NewLineIsNone ==
  /\ NewLine # Colon /\ ~InsideUpdate(NewLine)
  /\ \A n : /\ Output(n) # NewLine /\ Output(n) # Colon /\ ~InsideUpdate(Output(n))
            /\ Input(n) # NewLine /\ Input(n) # Colon
  /\ \A piece \in {Title, Word, NextWord, Space} :
       piece # NewLine /\ piece # Colon /\ ~InsideUpdate(piece)
  BY DEF InsideUpdate, NewLine, Title, Colon, Word, NextWord, Space, Output, Input

LEMMA EmptyInShape == InShape(<< >>) /\ BlankAtEnd(<< >>)
  BY DEF InShape, UpdateGoesOn, TitleLineEnds, BlankAtEnd

LEMMA BehindInShape ==
  ASSUME NEW s, Len(s) \in Nat, NEW t, NEW p, Behind(s, t, p)
  PROVE  /\ InShape(s) => InShape(t)
         /\ BlankAtEnd(s) => BlankAtEnd(t)
         /\ EndsInColon(t) => EndsInColon(s)
  <1>1. /\ p \in 0 .. Len(s) /\ Len(t) = Len(s) - p
        /\ \A i \in 1 .. Len(t) : t[i] = s[p + i] /\ p + i \in 1 .. Len(s)
    BY DEF Behind
  <1>2. ASSUME InShape(s), NEW i \in 2 .. Len(t), t[i] = NewLine, InsideUpdate(t[i - 1]),
               i # Len(t), t[i + 1] # NewLine
        PROVE  LineAt(t, i + 1)
    <2>1. /\ p + i \in 2 .. Len(s) /\ p + i # Len(s) /\ (p + i) - 1 = p + (i - 1)
          /\ (p + i) + 1 = p + (i + 1)
          /\ i - 1 \in 1 .. Len(t) /\ i + 1 \in 1 .. Len(t) /\ i \in 1 .. Len(t)
      <3>1. p \in 0 .. Len(s) /\ Len(t) = Len(s) - p /\ i # Len(t)
        BY <1>1, <1>2
      <3> QED BY <3>1
    <2>2. s[p + i] = NewLine /\ InsideUpdate(s[p + (i - 1)]) /\ s[p + (i + 1)] # NewLine
      BY <1>1, <1>2, <2>1
    <2>3. LineAt(s, p + (i + 1))
      BY <1>2, <2>1, <2>2 DEF InShape, UpdateGoesOn
    <2>4. /\ p + (i + 1) + 2 = p + (i + 3) /\ p + (i + 1) + 1 = p + (i + 2)
          /\ (i + 1) + 2 = i + 3 /\ (i + 1) + 1 = i + 2
          /\ p + (i + 3) <= Len(s) => i + 3 <= Len(t) /\ i + 3 \in 1 .. Len(t) /\ i + 2 \in 1 .. Len(t)
      BY <1>1
    <2>5. PICK n \in 1 .. MaxTold : s[p + (i + 1)] = Output(n) /\ s[p + (i + 2)] = Input(n)
      BY <2>3, <2>4 DEF LineAt
    <2>6. p + (i + 3) <= Len(s) /\ s[p + (i + 3)] = NewLine
      BY <2>3, <2>4 DEF LineAt
    <2>7. i + 3 <= Len(t) /\ t[i + 3] = NewLine /\ t[i + 1] = Output(n) /\ t[i + 2] = Input(n)
      BY <1>1, <2>1, <2>4, <2>5, <2>6
    <2> QED BY <2>4, <2>7 DEF LineAt
  <1>3. ASSUME InShape(s), NEW i \in 1 .. Len(t) - 1, t[i] = Colon PROVE t[i + 1] = NewLine
    <2>1. /\ p + i \in 1 .. Len(s) - 1 /\ (p + i) + 1 = p + (i + 1)
          /\ i \in 1 .. Len(t) /\ i + 1 \in 1 .. Len(t)
      BY <1>1
    <2> QED BY <1>1, <1>3, <2>1 DEF InShape, TitleLineEnds
  <1>4. InShape(s) => InShape(t)
    <2> SUFFICES ASSUME InShape(s) PROVE UpdateGoesOn(t) /\ TitleLineEnds(t)
      BY DEF InShape
    <2>1. UpdateGoesOn(t)
      BY <1>2 DEF UpdateGoesOn
    <2>2. TitleLineEnds(t)
      BY <1>3 DEF TitleLineEnds
    <2> QED BY <2>1, <2>2
  <1>5. BlankAtEnd(s) => BlankAtEnd(t)
    <2>1. Len(t) >= 1 => t[Len(t)] = s[Len(s)] /\ Len(s) >= 1
      BY <1>1
    <2>2. Len(t) >= 2 => t[Len(t) - 1] = s[Len(s) - 1] /\ Len(s) >= 2
      BY <1>1
    <2> QED BY <1>1, <2>1, <2>2 DEF BlankAtEnd
  <1>6. EndsInColon(t) => EndsInColon(s)
    BY <1>1 DEF EndsInColon
  <1> QED BY <1>4, <1>5, <1>6

\* A block that ends with a line.
LEMMA AheadInShape ==
  ASSUME NEW s, Len(s) \in Nat, InShape(s), NEW t, NEW p \in 1 .. Len(s), Ahead(s, t, p),
         s[p] = NewLine
  PROVE  InShape(t)
  <1>1. Len(t) = p /\ \A i \in 1 .. p : t[i] = s[i]
    BY DEF Ahead
  <1>2. ASSUME NEW i \in 2 .. Len(t), t[i] = NewLine, InsideUpdate(t[i - 1]),
               i # Len(t), t[i + 1] # NewLine
        PROVE  LineAt(t, i + 1)
    <2>1. /\ i \in 2 .. Len(s) /\ i # Len(s)
          /\ i - 1 \in 1 .. p /\ i + 1 \in 1 .. p /\ i \in 1 .. p
      BY <1>1, <1>2
    <2>2. LineAt(s, i + 1)
      BY <1>1, <1>2, <2>1 DEF InShape, UpdateGoesOn
    <2>3. (i + 1) + 2 = i + 3 /\ (i + 1) + 1 = i + 2
      BY <2>1
    <2>4. PICK n \in 1 .. MaxTold : s[i + 1] = Output(n) /\ s[i + 2] = Input(n)
      BY <2>2, <2>3 DEF LineAt
    <2>5. s[i + 3] = NewLine
      BY <2>2, <2>3 DEF LineAt
    <2>6. p # i + 1 /\ p # i + 2
      BY <2>4, NewLineIsNone
    <2>7. i + 3 \in 1 .. p /\ i + 2 \in 1 .. p
      BY <2>1, <2>6
    <2>8. i + 3 <= Len(t) /\ t[i + 3] = NewLine /\ t[i + 1] = Output(n) /\ t[i + 2] = Input(n)
      BY <1>1, <2>1, <2>4, <2>5, <2>7
    <2> QED BY <2>3, <2>8 DEF LineAt
  <1>3. ASSUME NEW i \in 1 .. Len(t) - 1, t[i] = Colon PROVE t[i + 1] = NewLine
    BY <1>1, <1>3 DEF InShape, TitleLineEnds
  <1> QED BY <1>2, <1>3 DEF InShape, UpdateGoesOn, TitleLineEnds

\* A block that ends inside a line, or a line that is kept back.
LEMMA LineInShape ==
  ASSUME NEW s, \A i \in 1 .. Len(s) - 1 : s[i] # NewLine /\ (s[i] = Colon => s[i + 1] = NewLine),
         Len(s) \in Nat
  PROVE  InShape(s)
  <1>1. \A i \in 2 .. Len(s) : i = Len(s) \/ i \in 1 .. Len(s) - 1
    OBVIOUS
  <1> QED BY <1>1 DEF InShape, UpdateGoesOn, TitleLineEnds

LEMMA JoinBlank ==
  ASSUME NEW s \in Seq(Pieces), NEW t \in Seq(Pieces), BlankAtEnd(t),
         BlankAtEnd(s) \/ Len(t) >= 2
  PROVE  BlankAtEnd(s \o t)
  <1> DEFINE long == s \o t
  <1>1. /\ Len(long) = Len(s) + Len(t) /\ Len(s) \in Nat /\ Len(t) \in Nat
        /\ \A i \in 1 .. Len(s) : long[i] = s[i]
        /\ \A i \in 1 .. Len(t) : long[Len(s) + i] = t[i]
    BY ConcatAt
  <1> SUFFICES BlankAtEnd(long)
    OBVIOUS
  <1> HIDE DEF long
  <1>2. CASE Len(t) >= 2
    <2>1. /\ Len(t) \in 1 .. Len(t) /\ Len(t) - 1 \in 1 .. Len(t)
          /\ Len(long) = Len(s) + Len(t) /\ Len(long) - 1 = Len(s) + (Len(t) - 1)
          /\ Len(t) >= 1
      BY <1>1, <1>2
    <2> QED BY <1>1, <1>2, <2>1 DEF BlankAtEnd
  <1>3. CASE Len(t) = 1
    <2>1. BlankAtEnd(s)
      BY <1>3
    <2>2. /\ 1 \in 1 .. Len(t) /\ Len(long) = Len(s) + 1 /\ Len(t) >= 1
          /\ Len(long) >= 2 => Len(long) - 1 = Len(s) /\ Len(s) \in 1 .. Len(s) /\ Len(s) >= 1
      BY <1>1, <1>3
    <2>3. long[Len(long)] = NewLine
      BY <1>1, <1>3, <2>2 DEF BlankAtEnd
    <2>4. Len(long) >= 2 => long[Len(long) - 1] = NewLine
      BY <1>1, <2>1, <2>2 DEF BlankAtEnd
    <2> QED BY <2>3, <2>4 DEF BlankAtEnd
  <1>4. CASE Len(t) = 0
    <2>1. BlankAtEnd(s) /\ Len(long) = Len(s)
      BY <1>1, <1>4
    <2>2. Len(s) >= 1 => Len(s) \in 1 .. Len(s) /\ long[Len(s)] = s[Len(s)]
      <3>1. Len(s) >= 1 => Len(s) \in 1 .. Len(s)
        BY <1>1
      <3> QED BY <1>1, <3>1
    <2>3. Len(s) >= 2 => long[Len(s) - 1] = s[Len(s) - 1]
      <3>1. Len(s) >= 2 => Len(s) - 1 \in 1 .. Len(s)
        BY <1>1
      <3> QED BY <1>1, <3>1
    <2>4. Len(s) >= 1 => s[Len(s)] = NewLine /\ (Len(s) >= 2 => s[Len(s) - 1] = NewLine)
      BY <2>1 DEF BlankAtEnd
    <2>5. Len(s) >= 1 => long[Len(s)] = NewLine /\ (Len(s) >= 2 => long[Len(s) - 1] = NewLine)
      BY <2>2, <2>3, <2>4
    <2> QED BY <2>1, <2>5 DEF BlankAtEnd
  <1>5. Len(t) >= 2 \/ Len(t) = 1 \/ Len(t) = 0
    <2>1. \A l \in Nat : l >= 2 \/ l = 1 \/ l = 0
      OBVIOUS
    <2> QED BY <1>1, <2>1
  <1> QED BY <1>2, <1>3, <1>4, <1>5

\* More text behind text that ends with a blank line, or behind the line kept
\* back of an earlier connection.
LEMMA JoinInShape ==
  ASSUME NEW s \in Seq(Pieces), NEW t \in Seq(Pieces), InShape(t), BlankAtEnd(t),
         \/ InShape(s) /\ BlankAtEnd(s)
         \/ /\ \A i \in 1 .. Len(s) : s[i] # NewLine /\ s[i] # Colon
            /\ Len(t) >= 2 /\ t[1] # NewLine
  PROVE  InShape(s \o t) /\ BlankAtEnd(s \o t)
  <1> DEFINE long == s \o t
  <1>1. /\ Len(long) = Len(s) + Len(t) /\ Len(s) \in Nat /\ Len(t) \in Nat
        /\ \A i \in 1 .. Len(s) : long[i] = s[i]
        /\ \A i \in 1 .. Len(t) : long[Len(s) + i] = t[i]
    BY ConcatAt
  <1> HIDE DEF long
  <1>2. \A i \in 1 .. Len(long) :
          \/ i \in 1 .. Len(s)
          \/ i - Len(s) \in 1 .. Len(t) /\ long[i] = t[i - Len(s)]
    <2> SUFFICES ASSUME NEW i \in 1 .. Len(long), ~(i \in 1 .. Len(s))
                 PROVE  i - Len(s) \in 1 .. Len(t) /\ long[i] = t[i - Len(s)]
      OBVIOUS
    <2>1. i - Len(s) \in 1 .. Len(t) /\ Len(s) + (i - Len(s)) = i
      BY <1>1
    <2> QED BY <1>1, <2>1
  \* The last piece of s.
  <1>3. Len(s) >= 1 => s[Len(s)] # Colon /\ (s[Len(s)] = NewLine \/ t[1] # NewLine)
    <2>1. Len(s) >= 1 => Len(s) \in 1 .. Len(s)
      BY <1>1
    <2> QED BY <2>1, NewLineIsNone DEF BlankAtEnd
  <1>4. ASSUME NEW i \in 2 .. Len(long), long[i] = NewLine, InsideUpdate(long[i - 1]),
               i # Len(long), long[i + 1] # NewLine
        PROVE  LineAt(long, i + 1)
    <2>1. i \in 1 .. Len(long) /\ i - 1 \in 1 .. Len(long) /\ i \in Nat /\ i >= 2
      BY <1>1
    <2>2. CASE i <= Len(s)
      <3>1. i \in 2 .. Len(s) /\ i \in 1 .. Len(s) /\ i - 1 \in 1 .. Len(s)
        BY <1>1, <2>1, <2>2
      <3>2. s[i] = NewLine /\ InsideUpdate(s[i - 1])
        BY <1>1, <1>4, <3>1
      <3>3. InShape(s) /\ BlankAtEnd(s)
        BY <3>1, <3>2
      <3>4. i # Len(s)
        <4>1. s[Len(s) - 1] = NewLine
          <5>1. Len(s) >= 1 /\ Len(s) >= 2
            BY <1>1, <2>1, <2>2
          <5> QED BY <3>3, <5>1 DEF BlankAtEnd
        <4> QED BY <3>2, <4>1, NewLineIsNone
      <3>5. i + 1 \in 1 .. Len(s)
        BY <1>1, <3>1, <3>4
      <3>6. s[i + 1] # NewLine
        BY <1>1, <1>4, <3>5
      <3>7. LineAt(s, i + 1)
        BY <3>1, <3>2, <3>3, <3>4, <3>6 DEF InShape, UpdateGoesOn
      <3>8. (i + 1) + 2 = i + 3 /\ (i + 1) + 1 = i + 2
        BY <2>1
      <3>9. i + 3 <= Len(s) /\ s[i + 3] = NewLine
        BY <3>7, <3>8 DEF LineAt
      <3>10. PICK n \in 1 .. MaxTold : s[i + 1] = Output(n) /\ s[i + 2] = Input(n)
        BY <3>7, <3>8 DEF LineAt
      <3>11. i + 2 \in 1 .. Len(s) /\ i + 3 \in 1 .. Len(s) /\ i + 3 <= Len(long)
        BY <1>1, <2>1, <3>9
      <3>12. long[i + 3] = NewLine /\ long[i + 1] = Output(n) /\ long[i + 2] = Input(n)
        BY <1>1, <3>5, <3>9, <3>10, <3>11
      <3> QED BY <3>8, <3>11, <3>12 DEF LineAt
    <2>3. CASE i = Len(s) + 1
      <3>1. i - 1 = Len(s) /\ Len(s) >= 1 /\ Len(s) \in 1 .. Len(s) /\ i = Len(s) + 1
            /\ 1 \in 1 .. Len(t)
        BY <1>1, <2>1, <2>3
      <3>2. long[i - 1] = s[Len(s)] /\ long[i] = t[1]
        BY <1>1, <3>1
      <3>3. s[Len(s)] = NewLine
        BY <1>3, <1>4, <3>1, <3>2
      <3> QED BY <1>4, <3>2, <3>3, NewLineIsNone
    <2>4. CASE i > Len(s) + 1
      <3> DEFINE j == i - Len(s)
      <3>1. /\ j \in 2 .. Len(t) /\ j \in 1 .. Len(t) /\ j - 1 \in 1 .. Len(t)
            /\ i = Len(s) + j /\ i - 1 = Len(s) + (j - 1) /\ i + 1 = Len(s) + (j + 1)
        <4>1. \A l, m \in Nat : \A k \in 1 .. l + m :
                k > l + 1 => /\ k - l \in 2 .. m /\ k - l \in 1 .. m /\ (k - l) - 1 \in 1 .. m
                             /\ k = l + (k - l) /\ k - 1 = l + ((k - l) - 1)
                             /\ k + 1 = l + ((k - l) + 1)
          OBVIOUS
        <4>2. Len(s) \in Nat /\ Len(t) \in Nat /\ i \in 1 .. Len(s) + Len(t) /\ i > Len(s) + 1
          BY <1>1, <2>1, <2>4
        <4> QED BY <4>1, <4>2
      <3>2. j # Len(t) /\ j + 1 \in 1 .. Len(t)
        <4>1. i # Len(long)
          BY <1>4
        <4>2. Len(long) = Len(s) + Len(t) /\ Len(s) \in Nat /\ Len(t) \in Nat
          BY <1>1
        <4>3. j # Len(t)
          BY <3>1, <4>1, <4>2
        <4> QED BY <3>1, <4>2, <4>3
      <3> HIDE DEF j
      <3>3. t[j] = NewLine /\ InsideUpdate(t[j - 1]) /\ t[j + 1] # NewLine
        BY <1>1, <1>4, <3>1, <3>2
      <3>4. LineAt(t, j + 1)
        BY <3>1, <3>2, <3>3 DEF InShape, UpdateGoesOn
      <3>5. (j + 1) + 2 = j + 3 /\ (j + 1) + 1 = j + 2
        BY <3>1
      <3>6. j + 3 <= Len(t) /\ t[j + 3] = NewLine
        BY <3>4, <3>5 DEF LineAt
      <3>7. PICK n \in 1 .. MaxTold : t[j + 1] = Output(n) /\ t[j + 2] = Input(n)
        BY <3>4, <3>5 DEF LineAt
      <3>8. /\ j + 2 \in 1 .. Len(t) /\ j + 3 \in 1 .. Len(t) /\ (i + 1) + 2 <= Len(long)
            /\ (i + 1) + 1 = Len(s) + (j + 2) /\ (i + 1) + 2 = Len(s) + (j + 3)
        BY <1>1, <3>1, <3>6
      <3>9. /\ long[Len(s) + (j + 3)] = NewLine /\ long[Len(s) + (j + 1)] = Output(n)
            /\ long[Len(s) + (j + 2)] = Input(n)
        BY <1>1, <3>2, <3>6, <3>7, <3>8
      <3>10. long[(i + 1) + 2] = NewLine /\ long[i + 1] = Output(n) /\ long[(i + 1) + 1] = Input(n)
        BY <3>1, <3>8, <3>9
      <3> QED BY <3>8, <3>10 DEF LineAt
    <2>5. i <= Len(s) \/ i = Len(s) + 1 \/ i > Len(s) + 1
      <3>1. i \in Nat /\ Len(s) \in Nat
        BY <1>1, <2>1
      <3> QED BY <3>1
    <2> QED BY <2>2, <2>3, <2>4, <2>5, Zenon
  <1>5. ASSUME NEW i \in 1 .. Len(long) - 1, long[i] = Colon PROVE long[i + 1] = NewLine
    <2>1. CASE i <= Len(s)
      <3>1. i \in 1 .. Len(s)
        BY <1>1, <2>1
      <3>2. s[i] = Colon /\ i # Len(s)
        BY <1>1, <1>3, <1>5, <3>1
      <3>3. InShape(s) /\ i \in 1 .. Len(s) - 1 /\ i + 1 \in 1 .. Len(s)
        BY <1>1, <3>1, <3>2
      <3> QED BY <1>1, <3>2, <3>3 DEF InShape, TitleLineEnds
    <2>2. CASE i > Len(s)
      <3> DEFINE j == i - Len(s)
      <3>1. /\ j \in 1 .. Len(t) - 1 /\ j \in 1 .. Len(t) /\ j + 1 \in 1 .. Len(t)
            /\ i = Len(s) + j /\ i + 1 = Len(s) + (j + 1)
        BY <1>1, <2>2
      <3> HIDE DEF j
      <3> QED BY <1>1, <1>5, <3>1 DEF InShape, TitleLineEnds
    <2> QED BY <1>1, <2>1, <2>2
  <1>6. InShape(long)
    BY <1>4, <1>5 DEF InShape, UpdateGoesOn, TitleLineEnds
  <1>7. BlankAtEnd(long)
    BY JoinBlank DEF long
  <1> QED BY <1>6, <1>7 DEF long

LEMMA UpdateInShape ==
  ASSUME NEW first \in Nat \ {0}, NEW count \in Nat, first + count - 1 <= MaxTold
  PROVE  LET update == Update(first, first + count - 1)
         IN  /\ InShape(update) /\ BlankAtEnd(update)
             /\ update \in Seq(Pieces) /\ Len(update) >= 2 /\ update[1] # NewLine
  <1> DEFINE update == Update(first, first + count - 1)
  <1>1. /\ update \in Seq(Pieces) /\ Len(update) = 3 * count + 4
        /\ update[1] = Title /\ update[2] = Colon /\ update[3] = NewLine
        /\ update[3 * count + 4] = NewLine
        /\ \A j \in 1 .. count : /\ update[3 * j + 1] = Output(first + j - 1)
                                /\ update[3 * j + 2] = Input(first + j - 1)
                                /\ update[3 * j + 3] = NewLine
    BY UpdateShape
  <1> HIDE DEF update
  \* What the line behind a newline is.
  <1>2. ASSUME NEW k \in 0 .. count
        PROVE  update[3 * k + 4] = NewLine \/ LineAt(update, 3 * k + 4)
    <2>1. CASE k = count
      BY <1>1, <2>1
    <2>2. CASE k # count
      <3>1. /\ k + 1 \in 1 .. count /\ first + (k + 1) - 1 \in 1 .. MaxTold
            /\ 3 * (k + 1) + 1 = 3 * k + 4 /\ 3 * (k + 1) + 2 = (3 * k + 4) + 1
            /\ 3 * (k + 1) + 3 = (3 * k + 4) + 2
            /\ (3 * k + 4) + 2 <= 3 * count + 4
        BY <2>2, StreamAssumption
      <3>2. /\ update[3 * k + 4] = Output(first + (k + 1) - 1)
            /\ update[(3 * k + 4) + 1] = Input(first + (k + 1) - 1)
            /\ update[(3 * k + 4) + 2] = NewLine
        BY <1>1, <3>1
      <3> QED BY <1>1, <3>1, <3>2 DEF LineAt
    <2> QED BY <2>1, <2>2
  \* Where the pieces of a line are.
  <1>3. ASSUME NEW i \in 4 .. 3 * count + 3
        PROVE  LET j == (i - 1) \div 3
               IN  /\ j \in 1 .. count
                   /\ \/ i = 3 * j + 1 /\ update[i] = Output(first + j - 1)
                      \/ i = 3 * j + 2 /\ update[i] = Input(first + j - 1)
                      \/ i = 3 * j + 3 /\ update[i] = NewLine
    <2> DEFINE j == (i - 1) \div 3
    <2>1. j \in 1 .. count /\ (i = 3 * j + 1 \/ i = 3 * j + 2 \/ i = 3 * j + 3)
      OBVIOUS
    <2> HIDE DEF j
    <2>2. \/ i = 3 * j + 1 /\ update[i] = Output(first + j - 1)
          \/ i = 3 * j + 2 /\ update[i] = Input(first + j - 1)
          \/ i = 3 * j + 3 /\ update[i] = NewLine
      BY <1>1, <2>1
    <2> QED BY <2>1, <2>2 DEF j
  <1>4. ASSUME NEW i \in 2 .. Len(update), update[i] = NewLine, i # Len(update),
               update[i + 1] # NewLine
        PROVE  LineAt(update, i + 1)
    <2>1. i \in 2 .. 3 * count + 3 /\ i # 2
      <3>1. i # 2
        BY <1>1, <1>4, NewLineIsNone
      <3>2. i \in 2 .. 3 * count + 4 /\ i # 3 * count + 4
        BY <1>1, <1>4
      <3> QED BY <3>1, <3>2
    <2>2. CASE i = 3
      <3>1. 0 \in 0 .. count /\ 3 * 0 + 4 = 4 /\ i + 1 = 4
        BY <2>2
      <3>2. update[4] = NewLine \/ LineAt(update, 4)
        BY <1>2, <3>1
      <3> QED BY <1>4, <3>1, <3>2
    <2>3. CASE i # 3
      <3> DEFINE j == (i - 1) \div 3
      <3>1. i \in 4 .. 3 * count + 3
        BY <2>1, <2>3
      <3>2. /\ j \in 1 .. count
            /\ \/ i = 3 * j + 1 /\ update[i] = Output(first + j - 1)
               \/ i = 3 * j + 2 /\ update[i] = Input(first + j - 1)
               \/ i = 3 * j + 3 /\ update[i] = NewLine
        BY <1>3, <3>1
      <3> HIDE DEF j
      <3>3. i = 3 * j + 3
        BY <1>4, <3>2, NewLineIsNone
      <3>4. j \in 0 .. count /\ 3 * j + 4 = i + 1
        BY <3>2, <3>3
      <3> QED BY <1>2, <1>4, <3>4
    <2> QED BY <2>2, <2>3
  <1>5. ASSUME NEW i \in 1 .. Len(update) - 1, update[i] = Colon PROVE update[i + 1] = NewLine
    <2>1. CASE i = 2
      BY <1>1, <2>1
    <2>2. CASE i = 1 \/ i = 3
      BY <1>1, <1>5, <2>2, NewLineIsNone
    <2>3. CASE i > 3
      <3> DEFINE j == (i - 1) \div 3
      <3>1. i \in 4 .. 3 * count + 3
        BY <1>1, <2>3
      <3>2. \/ update[i] = Output(first + j - 1)
            \/ update[i] = Input(first + j - 1)
            \/ update[i] = NewLine
        BY <1>3, <3>1
      <3> HIDE DEF j
      <3> QED BY <1>5, <3>2, NewLineIsNone
    <2> QED BY <1>1, <2>1, <2>2, <2>3
  <1>6. BlankAtEnd(update)
    <2>1. CASE count = 0
      BY <1>1, <2>1 DEF BlankAtEnd
    <2>2. CASE count # 0
      <3>1. count \in 1 .. count /\ (3 * count + 4) - 1 = 3 * count + 3
        BY <2>2
      <3> QED BY <1>1, <3>1 DEF BlankAtEnd
    <2> QED BY <2>1, <2>2
  <1>7. InShape(update)
    BY <1>4, <1>5 DEF InShape, UpdateGoesOn, TitleLineEnds
  <1>8. Len(update) >= 2 /\ update[1] # NewLine
    BY <1>1, NewLineIsNone
  <1> QED BY <1>1, <1>6, <1>7, <1>8 DEF update

LEMMA PlainInShape ==
  ASSUME NEW plain \in {<< >>, Ack, Other}
  PROVE  /\ InShape(plain) /\ BlankAtEnd(plain) /\ plain \in Seq(Pieces)
         /\ plain # << >> => Len(plain) >= 2 /\ plain[1] # NewLine
  <1>1. CASE plain = << >>
    BY <1>1, EmptyInShape
  <1>2. ASSUME NEW s, Len(s) \in Nat, \A i \in 1 .. Len(s) : ~InsideUpdate(s[i]) PROVE InShape(s)
    <2>1. \A i \in 2 .. Len(s) : i - 1 \in 1 .. Len(s)
      BY <1>2
    <2>2. \A i \in 1 .. Len(s) - 1 : i \in 1 .. Len(s)
      BY <1>2
    <2>3. InsideUpdate(Colon)
      BY DEF InsideUpdate
    <2> QED BY <1>2, <2>1, <2>2, <2>3 DEF InShape, UpdateGoesOn, TitleLineEnds
  <1>3. CASE plain = Ack
    <2>1. /\ Len(plain) = 3 /\ plain[1] = Word /\ plain[2] = NewLine /\ plain[3] = NewLine
          /\ plain \in Seq(Pieces)
      BY <1>3, PieceTypes DEF Ack
    <2>2. \A i \in 1 .. Len(plain) : ~InsideUpdate(plain[i])
      <3>1. \A i \in 1 .. 3 : i = 1 \/ i = 2 \/ i = 3
        OBVIOUS
      <3> QED BY <2>1, <3>1, NewLineIsNone
    <2> QED BY <1>2, <2>1, <2>2, NewLineIsNone DEF BlankAtEnd
  <1>4. CASE plain = Other
    <2>1. /\ Len(plain) = 4 /\ plain[1] = Word /\ plain[2] = NextWord /\ plain[3] = NewLine
          /\ plain[4] = NewLine /\ plain \in Seq(Pieces)
      BY <1>4, PieceTypes DEF Other
    <2>2. \A i \in 1 .. Len(plain) : ~InsideUpdate(plain[i])
      <3>1. \A i \in 1 .. 4 : i = 1 \/ i = 2 \/ i = 3 \/ i = 4
        OBVIOUS
      <3> QED BY <2>1, <3>1, NewLineIsNone
    <2> QED BY <1>2, <2>1, <2>2, NewLineIsNone DEF BlankAtEnd
  <1> QED BY <1>1, <1>3, <1>4

\* All the router sends at a time.
LEMMA ToldInShape ==
  ASSUME NEW plain \in {<< >>, Ack, Other}, NEW first \in Nat \ {0}, NEW count \in Nat,
         first + count - 1 <= MaxTold
  PROVE  LET more == plain \o Update(first, first + count - 1)
         IN  /\ InShape(more) /\ BlankAtEnd(more)
             /\ more \in Seq(Pieces) /\ Len(more) >= 2 /\ more[1] # NewLine
  <1> DEFINE update == Update(first, first + count - 1)
             more == plain \o update
  <1>1. /\ InShape(update) /\ BlankAtEnd(update)
        /\ update \in Seq(Pieces) /\ Len(update) >= 2 /\ update[1] # NewLine
    BY UpdateInShape
  <1>2. /\ InShape(plain) /\ BlankAtEnd(plain) /\ plain \in Seq(Pieces)
        /\ plain # << >> => Len(plain) >= 2 /\ plain[1] # NewLine
    BY PlainInShape
  <1> HIDE DEF update
  <1>3. InShape(more) /\ BlankAtEnd(more)
    BY <1>1, <1>2, JoinInShape
  <1>4. more \in Seq(Pieces) /\ Len(more) = Len(plain) + Len(update)
    BY <1>1, <1>2, ConcatAt
  <1>5. Len(more) >= 2 /\ more[1] # NewLine
    <2>1. CASE plain = << >>
      <3>1. more = update
        BY <1>1, <2>1
      <3> QED BY <1>1, <3>1
    <2>2. CASE plain # << >>
      <3>1. Len(plain) \in Nat /\ Len(update) \in Nat /\ 1 \in 1 .. Len(plain)
        BY <1>1, <1>2, <2>2
      <3>2. more[1] = plain[1]
        BY <1>1, <1>2, <3>1, ConcatAt
      <3> QED BY <1>1, <1>2, <1>4, <2>2, <3>1, <3>2
    <2> QED BY <2>1, <2>2
  <1> QED BY <1>3, <1>4, <1>5 DEF update

\* The newline behind a title whose block has been queued is next on the wire.
NewLineToCome ==
  /\ conn # "closed" /\ last_piece = Colon
  /\ partial_line_buffer = << >> /\ BeginsWithNewLine(wire)

\* A newline comes right behind the first k blocks of the queue.
NewLineBehind(k) ==
  IF k < Len(ethernet_message_input_queue)
  THEN BeginsWithNewLine(ethernet_message_input_queue[k + 1]) ELSE NewLineToCome

TextInShape ==
  /\ InShape(Rest) /\ InShape(text)
  /\ \A k \in 1 .. Len(ethernet_message_input_queue) : InShape(ethernet_message_input_queue[k])
  /\ conn # "closed" => BlankAtEnd(Rest)
  /\ \A i \in 1 .. Len(partial_line_buffer) :
       /\ partial_line_buffer[i] # NewLine
       /\ partial_line_buffer[i] = Colon => conn # "closed" /\ last_piece = Colon

TitlesContinue ==
  /\ \A k \in 1 .. Len(ethernet_message_input_queue) :
       EndsInColon(ethernet_message_input_queue[k]) => NewLineBehind(k)
  /\ parsing /\ EndsInColon(text) => NewLineBehind(0)
  /\ ~parsing /\ state = "IN_UPDATE" => NewLineBehind(0)

\* What tcp_recv_task has before it inside an update.
AtLine == text = << >> \/ BeginsWithNewLine(text) \/ LineAt(text, 1)

ParserInUpdate == parsing /\ state = "IN_UPDATE" => AtLine

Sound == TextInShape /\ TitlesContinue /\ ParserInUpdate /\ ~panicked /\ ~invented

InventionInv == TypeOK /\ (torn \/ Sound)
-----------------------------------------------------------------------------
(* The line at the head of the text.                                       *)

LEMMA LineIs ==
  ASSUME text \in Seq(Pieces)
  PROVE  /\ FirstNewLine \in 0 .. Len(text)
         /\ FirstNewLine = 0 => Line = text /\ \A i \in 1 .. Len(text) : text[i] # NewLine
         /\ FirstNewLine # 0 => /\ Ahead(text, Line, FirstNewLine - 1)
                                /\ text[FirstNewLine] = NewLine
                                /\ \A i \in 1 .. FirstNewLine - 1 : text[i] # NewLine
  <1>1. /\ FirstNewLine \in 0 .. Len(text) /\ Len(text) \in Nat
        /\ FirstNewLine # 0 => text[FirstNewLine] = NewLine
        /\ \A i \in 1 .. Len(text) : FirstNewLine = 0 \/ i < FirstNewLine => text[i] # NewLine
    BY FirstNewLineIs
  <1>2. CASE FirstNewLine = 0
    BY <1>1, <1>2 DEF Line
  <1>3. CASE FirstNewLine # 0
    <2> DEFINE f == FirstNewLine
               line == SubSeq(text, 1, f - 1)
    <2>1. Line = line
      BY <1>3 DEF Line
    <2>2. f \in 1 .. Len(text)
      BY <1>1, <1>3
    <2>3. text[f] = NewLine /\ \A i \in 1 .. f - 1 : text[i] # NewLine
      BY <1>1, <1>3
    <2> HIDE DEF f
    <2>4. Len(line) = f - 1 /\ \A i \in 1 .. f - 1 : line[i] = text[i]
      BY <1>1, <2>2, PartType
    <2> HIDE DEF line
    <2>5. Ahead(text, line, f - 1)
      <3>1. f - 1 \in 0 .. Len(text)
        BY <1>1, <2>2
      <3> QED BY <2>4, <3>1 DEF Ahead
    <2> QED BY <1>1, <1>3, <2>1, <2>3, <2>5 DEF f
  <1> QED BY <1>2, <1>3

LEMMA BehindLine ==
  ASSUME text \in Seq(Pieces), NextLine
  PROVE  /\ parsing' = (FirstNewLine # 0)
         /\ FirstNewLine = 0 => text' = << >>
         /\ FirstNewLine # 0 => Behind(text, text', FirstNewLine)
  <1>1. FirstNewLine \in 0 .. Len(text) /\ Len(text) \in Nat
    BY FirstNewLineIs
  <1>2. parsing' = (FirstNewLine # 0) /\ (FirstNewLine = 0 => text' = << >>)
    BY DEF NextLine
  <1>3. FirstNewLine # 0 => Behind(text, text', FirstNewLine)
    <2> SUFFICES ASSUME FirstNewLine # 0 PROVE Behind(text, text', FirstNewLine)
      OBVIOUS
    <2> DEFINE f == FirstNewLine
               behind == SubSeq(text, f + 1, Len(text))
    <2>1. text' = behind
      BY DEF NextLine
    <2>2. f \in 1 .. Len(text)
      BY <1>1
    <2> HIDE DEF f
    <2>3. Len(behind) = Len(text) - f /\ \A i \in 1 .. Len(text) - f : behind[i] = text[f + i]
      BY <1>1, <2>2, PartType
    <2> HIDE DEF behind
    <2>4. Behind(text, behind, f)
      <3>1. f \in 0 .. Len(text)
        BY <1>1, <2>2
      <3> QED BY <2>3, <3>1 DEF Behind
    <2> QED BY <2>1, <2>4 DEF f
  <1> QED BY <1>2, <1>3

\* What is left behind a newline inside an update.
LEMMA BehindUpdateLine ==
  ASSUME NEW s \in Seq(Pieces), InShape(s), NEW f \in 2 .. Len(s), s[f] = NewLine,
         InsideUpdate(s[f - 1]), NEW behind \in Seq(Pieces), Behind(s, behind, f)
  PROVE  behind = << >> \/ BeginsWithNewLine(behind) \/ LineAt(behind, 1)
  <1>1. /\ Len(behind) = Len(s) - f /\ \A i \in 1 .. Len(behind) : behind[i] = s[f + i]
        /\ Len(s) \in Nat /\ Len(behind) \in Nat
    BY DEF Behind
  <1>2. f = Len(s) \/ s[f + 1] = NewLine \/ LineAt(s, f + 1)
    BY DEF InShape, UpdateGoesOn
  <1>3. CASE f = Len(s)
    <2>1. Len(behind) = 0
      BY <1>1, <1>3
    <2> QED BY <2>1
  <1>4. CASE f # Len(s) /\ s[f + 1] = NewLine
    <2>1. 1 \in 1 .. Len(behind) /\ Len(behind) >= 1
      BY <1>1, <1>4
    <2> QED BY <1>1, <1>4, <2>1 DEF BeginsWithNewLine
  <1>5. CASE LineAt(s, f + 1)
    <2>1. (f + 1) + 2 = f + 3 /\ (f + 1) + 1 = f + 2
      OBVIOUS
    <2>2. f + 3 <= Len(s) /\ s[f + 3] = NewLine
      BY <1>5, <2>1 DEF LineAt
    <2>3. PICK n \in 1 .. MaxTold : s[f + 1] = Output(n) /\ s[f + 2] = Input(n)
      BY <1>5, <2>1 DEF LineAt
    <2>4. 3 <= Len(behind) /\ 1 \in 1 .. Len(behind) /\ 2 \in 1 .. Len(behind)
          /\ 3 \in 1 .. Len(behind) /\ 1 + 2 = 3 /\ 1 + 1 = 2
      BY <1>1, <2>2
    <2>5. behind[3] = NewLine /\ behind[1] = Output(n) /\ behind[2] = Input(n)
      BY <1>1, <2>2, <2>3, <2>4
    <2> QED BY <2>4, <2>5 DEF LineAt
  <1> QED BY <1>2, <1>3, <1>4, <1>5

\* Lines leave what is behind them in shape.
LEMMA NextLineInShape ==
  ASSUME text \in Seq(Pieces), NextLine, InShape(text)
  PROVE  /\ InShape(text')
         /\ EndsInColon(text') => EndsInColon(text)
         /\ parsing' = (FirstNewLine # 0)
  <1>1. CASE FirstNewLine = 0
    <2>1. text' = << >> /\ parsing' = (FirstNewLine # 0)
      BY <1>1, BehindLine
    <2> QED BY <2>1, EmptyInShape DEF EndsInColon
  <1>2. CASE FirstNewLine # 0
    <2>1. Behind(text, text', FirstNewLine) /\ parsing' = (FirstNewLine # 0)
      BY <1>2, BehindLine
    <2>2. Len(text) \in Nat
      OBVIOUS
    <2> QED BY <2>1, <2>2, BehindInShape
  <1> QED BY <1>1, <1>2

\* The title begins an update, or the newline behind it is still to come.
LEMMA TitleLine ==
  ASSUME text \in Seq(Pieces), NextLine, InShape(text), IsTitle(Line)
  PROVE  IF FirstNewLine = 0 THEN EndsInColon(text) ELSE AtLine'
  <1>1. Len(Line) >= 2 /\ Line[2] = Colon /\ Len(text) \in Nat
    BY DEF IsTitle
  <1>2. CASE FirstNewLine = 0
    <2>1. Line = text /\ \A i \in 1 .. Len(text) : text[i] # NewLine
      BY <1>2, LineIs
    <2>2. Len(text) = 2
      <3>1. SUFFICES ASSUME Len(text) # 2 PROVE FALSE
        OBVIOUS
      <3>2. 2 \in 1 .. Len(text) - 1 /\ 2 + 1 \in 1 .. Len(text)
        <4>1. Len(text) \in Nat /\ Len(text) >= 2
          BY <1>1, <2>1
        <4>2. \A l \in Nat : l >= 2 /\ l # 2 => 2 \in 1 .. l - 1 /\ 2 + 1 \in 1 .. l
          OBVIOUS
        <4> QED BY <3>1, <4>1, <4>2
      <3>3. text[2 + 1] = NewLine
        BY <1>1, <2>1, <3>2 DEF InShape, TitleLineEnds
      <3> QED BY <2>1, <3>2, <3>3
    <2> QED BY <1>1, <1>2, <2>1, <2>2 DEF EndsInColon
  <1>3. CASE FirstNewLine # 0
    <2> DEFINE f == FirstNewLine
    <2>1. /\ f \in 1 .. Len(text) /\ text[f] = NewLine
          /\ Ahead(text, Line, f - 1) /\ Behind(text, text', f)
          /\ \A i \in 1 .. f - 1 : text[i] # NewLine
      BY <1>3, LineIs, BehindLine
    <2> HIDE DEF f
    <2>2. Len(Line) = f - 1 /\ \A i \in 1 .. f - 1 : Line[i] = text[i]
      BY <2>1 DEF Ahead
    <2>3. f >= 3 /\ text[2] = Colon
      <3>1. f >= 3
        BY <1>1, <2>1, <2>2
      <3>2. 2 \in 1 .. f - 1
        BY <2>1, <3>1
      <3> QED BY <1>1, <2>2, <3>1, <3>2
    <2>4. f = 3
      <3>1. 2 \in 1 .. Len(text) - 1 /\ 2 + 1 = 3
        BY <1>1, <2>1, <2>3
      <3>2. text[3] = NewLine
        BY <2>3, <3>1 DEF InShape, TitleLineEnds
      <3>3. ~(3 \in 1 .. f - 1)
        BY <2>1, <3>2
      <3> QED BY <2>1, <2>3, <3>3
    <2>5. f \in 2 .. Len(text) /\ f - 1 = 2
      BY <2>1, <2>4
    <2>6. InsideUpdate(text[f - 1])
      BY <2>3, <2>5 DEF InsideUpdate
    <2>7. text' \in Seq(Pieces)
      BY LineTypes
    <2>8. text' = << >> \/ BeginsWithNewLine(text') \/ LineAt(text', 1)
      BY <2>1, <2>5, <2>6, <2>7, BehindUpdateLine
    <2>9. AtLine'
      <3>1. BeginsWithNewLine(text') => BeginsWithNewLine(text)'
        BY DEF BeginsWithNewLine
      <3>2. LineAt(text', 1) => LineAt(text, 1)'
        BY DEF LineAt
      <3> QED BY <2>8, <3>1, <3>2 DEF AtLine
    <2> QED BY <1>3, <2>9
  <1> QED BY <1>2, <1>3

\* A line of an update is what the router told, whole.
LEMMA UpdateLine ==
  ASSUME text \in Seq(Pieces), AtLine, Line # << >>
  PROVE  /\ FirstNewLine = 3 /\ 3 \in 2 .. Len(text) /\ text[3] = NewLine
         /\ InsideUpdate(text[3 - 1])
         /\ \E n \in 1 .. MaxTold : Line = << Output(n), Input(n) >>
  <1>1. Len(text) \in Nat /\ Line \in Seq(Pieces)
    <2>1. FirstNewLine \in 0 .. Len(text)
      BY LineIs
    <2>2. FirstNewLine # 0 => SubSeq(text, 1, FirstNewLine - 1) \in Seq(Pieces)
      BY <2>1, PartType
    <2> QED BY <2>2 DEF Line
  <1>2. text # << >>
    <2>1. SUFFICES ASSUME text = << >> PROVE Line = << >>
      OBVIOUS
    <2>2. Len(text) = 0
      BY <2>1
    <2>3. FirstNewLine = 0
      BY <2>2, LineIs
    <2> QED BY <2>1, <2>3, LineIs
  <1>3. ~BeginsWithNewLine(text)
    <2>1. SUFFICES ASSUME BeginsWithNewLine(text) PROVE Line = << >>
      OBVIOUS
    <2>2. 1 \in 1 .. Len(text) /\ text[1] = NewLine
      BY <1>1, <2>1 DEF BeginsWithNewLine
    <2>3. FirstNewLine # 0
      BY <2>2, LineIs
    <2>4. /\ FirstNewLine \in 0 .. Len(text) /\ Ahead(text, Line, FirstNewLine - 1)
          /\ \A i \in 1 .. FirstNewLine - 1 : text[i] # NewLine
      BY <2>3, LineIs
    <2>5. ~(1 \in 1 .. FirstNewLine - 1)
      BY <2>2, <2>4
    <2>6. Len(Line) = FirstNewLine - 1
      BY <2>4 DEF Ahead
    <2>7. FirstNewLine \in Nat
      BY <1>1, <2>4
    <2>8. Len(Line) = 0
      BY <1>1, <2>3, <2>5, <2>6, <2>7
    <2> QED BY <1>1, <2>8
  <1>4. LineAt(text, 1)
    BY <1>2, <1>3 DEF AtLine
  <1>5. 3 <= Len(text) /\ text[3] = NewLine
    BY <1>4 DEF LineAt
  <1>6. PICK n \in 1 .. MaxTold : text[1] = Output(n) /\ text[2] = Input(n)
    BY <1>4 DEF LineAt
  <1>7. FirstNewLine = 3
    <2>1. 3 \in 1 .. Len(text)
      BY <1>1, <1>5
    <2>2. FirstNewLine # 0 /\ FirstNewLine \in 0 .. Len(text)
      BY <1>5, <2>1, LineIs
    <2>3. text[FirstNewLine] = NewLine /\ ~(3 \in 1 .. FirstNewLine - 1)
      BY <1>5, <2>2, LineIs
    <2>4. FirstNewLine # 1 /\ FirstNewLine # 2
      BY <1>6, <2>3, NewLineIsNone
    <2> DEFINE f == FirstNewLine
    <2>5. f \in 0 .. Len(text) /\ f # 0 /\ f # 1 /\ f # 2 /\ ~(3 \in 1 .. f - 1)
      BY <2>2, <2>3, <2>4
    <2> HIDE DEF f
    <2>6. f = 3
      BY <1>1, <2>5
    <2> QED BY <2>6 DEF f
  <1>8. Ahead(text, Line, 3 - 1)
    BY <1>7, LineIs
  <1>9. Line = << Output(n), Input(n) >>
    <2>1. Len(Line) = 2 /\ Line[1] = text[1] /\ Line[2] = text[2]
      BY <1>8 DEF Ahead
    <2> QED BY <1>1, <1>6, <2>1
  <1>10. 3 \in 2 .. Len(text) /\ InsideUpdate(text[3 - 1])
    BY <1>1, <1>5, <1>6 DEF InsideUpdate
  <1> QED BY <1>5, <1>7, <1>9, <1>10

\* Behind it is a line of the update again, or a blank one.
LEMMA UpdateLineNext ==
  ASSUME text \in Seq(Pieces), NextLine, InShape(text), AtLine, Line # << >>
  PROVE  FirstNewLine # 0 /\ AtLine'
  <1>1. /\ FirstNewLine = 3 /\ 3 \in 2 .. Len(text) /\ text[3] = NewLine
        /\ InsideUpdate(text[3 - 1])
    BY UpdateLine
  <1>2. Behind(text, text', 3) /\ text' \in Seq(Pieces)
    BY <1>1, BehindLine, LineTypes
  <1>3. text' = << >> \/ BeginsWithNewLine(text') \/ LineAt(text', 1)
    BY <1>1, <1>2, BehindUpdateLine
  <1>4. BeginsWithNewLine(text') => BeginsWithNewLine(text)'
    BY DEF BeginsWithNewLine
  <1>5. LineAt(text', 1) => LineAt(text, 1)'
    BY DEF LineAt
  <1> QED BY <1>1, <1>3, <1>4, <1>5 DEF AtLine
-----------------------------------------------------------------------------
(* What the steps leave of it.                                             *)

LEMMA QueueStays ==
  ASSUME TitlesContinue, UNCHANGED << parsing, text, state, ethernet_message_input_queue >>,
         NewLineToCome => NewLineToCome'
  PROVE  TitlesContinue'
  <1>1. ASSUME NEW k, NewLineBehind(k) PROVE NewLineBehind(k)'
    BY <1>1 DEF NewLineBehind
  <1> QED BY <1>1 DEF TitlesContinue

LEMMA QueueGrows ==
  ASSUME TitlesContinue, UNCHANGED << parsing, text, state >>,
         ethernet_message_input_queue \in Seq(Seq(Pieces)), NEW block \in Seq(Pieces),
         ethernet_message_input_queue' = Append(ethernet_message_input_queue, block),
         NewLineToCome => BeginsWithNewLine(block),
         EndsInColon(block) => NewLineToCome'
  PROVE  TitlesContinue'
  <1> DEFINE queue == ethernet_message_input_queue
             longer == Append(queue, block)
  <1>1. /\ Len(queue) \in Nat /\ Len(longer) = Len(queue) + 1
        /\ \A k \in 1 .. Len(queue) : longer[k] = queue[k]
        /\ longer[Len(queue) + 1] = block
    OBVIOUS
  <1>2. queue' = longer
    OBVIOUS
  <1>3. ASSUME NEW k \in 0 .. Len(queue), NewLineBehind(k)
        PROVE  BeginsWithNewLine(longer[k + 1])
    <2> HIDE DEF longer
    <2>1. CASE k < Len(queue)
      <3>1. k + 1 \in 1 .. Len(queue)
        BY <1>1, <2>1
      <3> QED BY <1>1, <1>3, <2>1, <3>1 DEF NewLineBehind
    <2>2. CASE k = Len(queue)
      <3>1. ~(k < Len(queue))
        BY <1>1, <2>2
      <3>2. NewLineToCome
        BY <1>3, <3>1 DEF NewLineBehind
      <3> QED BY <1>1, <2>2, <3>2
    <2> QED BY <1>1, <2>1, <2>2
  <1>4. \A k : NewLineBehind(k)' <=> (IF k < Len(longer) THEN BeginsWithNewLine(longer[k + 1])
                                      ELSE NewLineToCome')
    BY <1>2 DEF NewLineBehind
  <1> HIDE DEF queue, longer
  <1>5. ASSUME NEW k \in 0 .. Len(queue), NewLineBehind(k) PROVE NewLineBehind(k)'
    <2>1. k < Len(longer)
      BY <1>1
    <2>2. BeginsWithNewLine(longer[k + 1])
      BY <1>3, <1>5
    <2> QED BY <1>4, <2>1, <2>2
  <1>6. ASSUME NEW k \in 1 .. Len(longer), EndsInColon(longer[k]) PROVE NewLineBehind(k)'
    <2>1. CASE k \in 1 .. Len(queue)
      <3>1. EndsInColon(queue[k]) /\ k \in 0 .. Len(queue)
        BY <1>1, <1>6, <2>1
      <3>2. NewLineBehind(k)
        BY <2>1, <3>1 DEF TitlesContinue, queue
      <3> QED BY <1>5, <3>1, <3>2
    <2>2. CASE k = Len(queue) + 1
      <3>1. ~(k < Len(longer)) /\ EndsInColon(block)
        BY <1>1, <1>6, <2>2
      <3> QED BY <1>4, <3>1
    <2> QED BY <1>1, <2>1, <2>2
  <1>7. 0 \in 0 .. Len(queue)
    BY <1>1
  <1>8. NewLineBehind(0) => NewLineBehind(0)'
    BY <1>5, <1>7
  <1>9. \A k \in 1 .. Len(queue') : EndsInColon(queue'[k]) => NewLineBehind(k)'
    BY <1>2, <1>6
  <1> QED BY <1>8, <1>9 DEF TitlesContinue, queue

\* A block that recv has brought and the line it keeps back.
LEMMA BlockInShape ==
  ASSUME TypeOK, TextInShape, conn # "closed", NEW n \in 1 .. Len(wire)
  PROVE  LET rx == SubSeq(wire, 1, n)
             block == partial_line_buffer \o Lines(rx)
             rest == Remainder(rx) \o SubSeq(wire, n + 1, Len(wire))
         IN  /\ InShape(block) /\ InShape(rest) /\ BlankAtEnd(rest)
             /\ block \in Seq(Pieces)
             /\ \A i \in 1 .. Len(Remainder(rx)) :
                  /\ Remainder(rx)[i] # NewLine
                  /\ Remainder(rx)[i] = Colon => rx[n] = Colon
             /\ partial_line_buffer = << >> /\ BeginsWithNewLine(wire) => BeginsWithNewLine(block)
             /\ EndsInColon(block) =>
                  /\ n = 1 /\ wire[1] = Colon /\ Remainder(rx) = << >>
                  /\ Len(wire) >= 2 /\ wire[2] = NewLine
  <1> DEFINE rx == SubSeq(wire, 1, n)
             lines == Lines(rx)
             kept == Remainder(rx)
             block == partial_line_buffer \o lines
             rest == kept \o SubSeq(wire, n + 1, Len(wire))
             start == Len(partial_line_buffer)
             last == LastNewLine(rx)
  <1>1. /\ TextTypes /\ wire \in Seq(Pieces) /\ partial_line_buffer \in Seq(Pieces)
        /\ Len(wire) \in Nat /\ start \in Nat /\ n \in Nat
    BY TypeParts DEF TextTypes
  <1>2. /\ Rest \in Seq(Pieces) /\ Len(Rest) \in Nat /\ Len(Rest) = start + Len(wire)
        /\ \A i \in 1 .. start : Rest[i] = partial_line_buffer[i]
        /\ \A i \in 1 .. Len(wire) : Rest[start + i] = wire[i]
    BY <1>1, RestAt
  <1>3. /\ InShape(Rest) /\ BlankAtEnd(Rest)
        /\ \A i \in 1 .. start : partial_line_buffer[i] # NewLine
    BY DEF TextInShape
  <1>4. /\ rx \in Seq(Pieces) /\ Len(rx) = n /\ \A i \in 1 .. n : rx[i] = wire[i]
    BY <1>1, PartType
  <1>5. lines \in Seq(Pieces) /\ kept \in Seq(Pieces)
    <2> HIDE DEF rx
    <2> QED BY <1>4, LinesType, RemainderType
  <1>6. block \in Seq(Pieces)
    <2> HIDE DEF lines
    <2> QED BY <1>1, <1>5, ConcatAt
  <1>7. /\ last \in 0 .. n /\ \A i \in 1 .. n : i > last => rx[i] # NewLine
        /\ last # 0 => rx[last] = NewLine
    <2> HIDE DEF rx
    <2> QED BY <1>4, LastNewLineIs
  <1>8. CASE HasLine(rx)
    <2>1. /\ Ahead(Rest, block, start + last) /\ Behind(Rest, rest, start + last)
          /\ Len(kept) = n - last /\ \A i \in 1 .. n - last : kept[i] = wire[last + i]
      BY <1>1, <1>8, LinesCut
    <2>2. last > 1
      BY <1>8 DEF HasLine
    <2> HIDE DEF rx, lines, kept, block, rest, start, last
    <2>3. last \in 1 .. Len(wire) /\ rx[last] = NewLine /\ wire[last] = NewLine
      BY <1>1, <1>4, <1>7, <2>2
    <2>4. Rest[start + last] = NewLine /\ start + last \in 1 .. Len(Rest)
      BY <1>1, <1>2, <2>3
    <2>5. InShape(block)
      BY <1>2, <1>3, <2>1, <2>4, AheadInShape
    <2>6. InShape(rest) /\ BlankAtEnd(rest)
      BY <1>2, <1>3, <2>1, BehindInShape
    <2>7. ASSUME NEW i \in 1 .. Len(kept) PROVE kept[i] # NewLine /\ (kept[i] = Colon => rx[n] = Colon)
      <3>1. /\ last + i \in 1 .. n /\ last + i > last /\ i \in 1 .. n - last
            /\ last + i \in 1 .. Len(wire) /\ n \in 1 .. n
        BY <1>1, <1>7, <2>1
      <3>2. kept[i] = rx[last + i] /\ rx[last + i] # NewLine /\ kept[i] = wire[last + i]
        BY <1>4, <1>7, <2>1, <3>1
      <3>3. ASSUME kept[i] = Colon, last + i # n PROVE FALSE
        <4>1. /\ last + i + 1 \in 1 .. n /\ last + i + 1 > last
              /\ last + i + 1 \in 1 .. Len(wire)
              /\ start + (last + i) \in 1 .. Len(Rest) - 1
              /\ start + (last + i) + 1 = start + (last + i + 1)
          BY <1>1, <1>2, <1>7, <3>1, <3>3
        <4>2. Rest[start + (last + i)] = Colon
          BY <1>2, <3>1, <3>2, <3>3
        <4>3. Rest[start + (last + i + 1)] = NewLine
          BY <1>3, <4>1, <4>2 DEF InShape, TitleLineEnds
        <4>4. wire[last + i + 1] = NewLine /\ rx[last + i + 1] = wire[last + i + 1]
          BY <1>2, <1>4, <4>1, <4>3
        <4> QED BY <1>7, <4>1, <4>4
      <3> QED BY <3>2, <3>3
    <2>8. /\ Len(block) = start + last /\ \A i \in 1 .. start + last : block[i] = Rest[i]
      BY <2>1 DEF Ahead
    <2>9. ~EndsInColon(block)
      BY <2>4, <2>8, <1>1, NewLineIsNone DEF EndsInColon
    <2>10. partial_line_buffer = << >> /\ BeginsWithNewLine(wire) => BeginsWithNewLine(block)
      <3> SUFFICES ASSUME partial_line_buffer = << >>, BeginsWithNewLine(wire)
                   PROVE  BeginsWithNewLine(block)
        OBVIOUS
      <3>1. start = 0
        BY DEF start
      <3>2. 1 \in 1 .. start + last /\ 1 \in 1 .. Len(wire) /\ start + 1 = 1 /\ start + last >= 1
        BY <1>1, <2>3, <3>1
      <3>3. block[1] = wire[1]
        BY <1>2, <2>8, <3>2
      <3> QED BY <2>8, <3>2, <3>3 DEF BeginsWithNewLine
    <2>11. \A i \in 1 .. Len(kept) : kept[i] # NewLine /\ (kept[i] = Colon => rx[n] = Colon)
      BY <2>7
    <2> QED BY <1>6, <2>5, <2>6, <2>9, <2>10, <2>11 DEF rx, lines, kept, block, rest
  <1>9. CASE ~HasLine(rx)
    <2>1. /\ Len(block) = start + 1 /\ \A i \in 1 .. start : block[i] = partial_line_buffer[i]
          /\ block[start + 1] = FirstByte(wire[1])
          /\ Behind(Rest, rest, start + n) /\ kept = << >>
      BY <1>1, <1>9, ByteCut
    <2>2. ~(last > 1)
      BY <1>9 DEF HasLine
    <2> HIDE DEF rx, lines, kept, block, rest, start, last
    <2>3. InShape(rest) /\ BlankAtEnd(rest)
      BY <1>2, <1>3, <2>1, BehindInShape
    <2>4. 1 \in 1 .. Len(wire) /\ start + 1 \in 1 .. Len(Rest) /\ wire[1] \in Pieces
      BY <1>1, <1>2
    <2>5. FirstByte(NewLine) = NewLine /\ (FirstByte(wire[1]) = Colon => wire[1] = Colon)
      BY <2>4 DEF FirstByte, NewLine, Title, Word, Colon, Space
    <2>6. InShape(block)
      <3>1. ASSUME NEW i \in 1 .. Len(block) - 1, block[i] = Colon PROVE block[i + 1] = NewLine
        <4>1. i \in 1 .. start /\ i \in 1 .. Len(Rest) - 1
          BY <1>1, <1>2, <2>1, <2>4
        <4>2. Rest[i] = Colon
          BY <1>2, <2>1, <3>1, <4>1
        <4>3. Rest[i + 1] = NewLine
          BY <1>3, <4>1, <4>2 DEF InShape, TitleLineEnds
        <4>4. ~(i + 1 \in 1 .. start)
          BY <1>2, <1>3, <4>3
        <4>5. i + 1 = start + 1
          BY <1>1, <4>1, <4>4
        <4>6. wire[1] = NewLine
          BY <1>2, <2>4, <4>3, <4>5
        <4> QED BY <2>1, <2>5, <4>5, <4>6
      <3>2. \A i \in 1 .. Len(block) - 1 : i \in 1 .. start
        BY <1>1, <2>1
      <3>3. \A i \in 1 .. Len(block) - 1 : block[i] # NewLine
        BY <1>3, <2>1, <3>2
      <3>4. Len(block) \in Nat
        BY <1>1, <2>1
      <3> QED BY <3>1, <3>3, <3>4, LineInShape
    <2>7. partial_line_buffer = << >> /\ BeginsWithNewLine(wire) => BeginsWithNewLine(block)
      <3>1. partial_line_buffer = << >> => start = 0
        BY DEF start
      <3> QED BY <2>1, <2>5, <3>1 DEF BeginsWithNewLine
    <2>8. ASSUME EndsInColon(block)
          PROVE  n = 1 /\ wire[1] = Colon /\ Len(wire) >= 2 /\ wire[2] = NewLine
      <3>1. wire[1] = Colon /\ Rest[start + 1] = Colon
        BY <1>1, <1>2, <2>1, <2>4, <2>5, <2>8 DEF EndsInColon
      <3>2. start + 1 # Len(Rest)
        BY <1>2, <1>3, <2>4, <3>1, NewLineIsNone DEF BlankAtEnd
      <3>3. start + 1 \in 1 .. Len(Rest) - 1 /\ 2 \in 1 .. Len(wire) /\ (start + 1) + 1 = start + 2
        BY <1>1, <1>2, <2>4, <3>2
      <3>4. Rest[start + 2] = NewLine
        BY <1>3, <3>1, <3>3 DEF InShape, TitleLineEnds
      <3>5. wire[2] = NewLine
        BY <1>2, <3>3, <3>4
      <3>6. ~(2 \in 1 .. n)
        <4>1. ASSUME 2 \in 1 .. n PROVE FALSE
          <5>1. rx[2] = NewLine
            BY <1>4, <3>5, <4>1
          <5>2. ~(2 > last)
            BY <1>7, <4>1, <5>1
          <5> QED BY <1>7, <2>2, <5>2
        <4> QED BY <4>1
      <3> QED BY <1>1, <3>1, <3>3, <3>5, <3>6
    <2>9. \A i \in 1 .. Len(kept) : FALSE
      BY <2>1
    <2> QED BY <1>6, <2>1, <2>3, <2>6, <2>7, <2>8, <2>9 DEF rx, lines, kept, block, rest
  <1> QED BY <1>8, <1>9

LEMMA ReceiveSound ==
  ASSUME TypeOK, Sound, ~torn', Receive PROVE Sound'
  <1>1. /\ TextTypes /\ wire \in Seq(Pieces) /\ partial_line_buffer \in Seq(Pieces)
        /\ ethernet_message_input_queue \in Seq(Seq(Pieces))
        /\ TextInShape /\ TitlesContinue /\ ParserInUpdate /\ ~panicked /\ ~invented
    BY TypeParts DEF TextTypes, Sound
  <1>2. PICK n \in 1 .. RxAvailable :
          /\ Reassemble(SubSeq(wire, 1, n))
          /\ last_piece' = SubSeq(wire, 1, n)[n]
          /\ wire' = SubSeq(wire, n + 1, Len(wire))
    BY DEF Receive
  <1>3. n \in 1 .. Len(wire)
    BY <1>1, RxIsThere
  <1> DEFINE rx == SubSeq(wire, 1, n)
             block == partial_line_buffer \o Lines(rx)
             rest == Remainder(rx) \o SubSeq(wire, n + 1, Len(wire))
             queue == ethernet_message_input_queue
  <1>4. /\ conn' = conn /\ conn # "closed"
        /\ UNCHANGED << parsing, text, state, panicked, invented >>
        /\ last_piece = Colon => ~QueueFull(queue, BlockQueueLen)
    BY DEF Receive, parserVars
  <1>5. /\ InShape(block) /\ InShape(rest) /\ BlankAtEnd(rest) /\ block \in Seq(Pieces)
        /\ \A i \in 1 .. Len(Remainder(rx)) :
             Remainder(rx)[i] # NewLine /\ (Remainder(rx)[i] = Colon => rx[n] = Colon)
        /\ partial_line_buffer = << >> /\ BeginsWithNewLine(wire) => BeginsWithNewLine(block)
        /\ EndsInColon(block) => /\ n = 1 /\ wire[1] = Colon /\ Remainder(rx) = << >>
                                 /\ Len(wire) >= 2 /\ wire[2] = NewLine
    BY <1>1, <1>3, <1>4, BlockInShape
  <1>6. rx[n] = last_piece' /\ rx[n] = wire[n]
    BY <1>1, <1>2, <1>3, PartType
  <1>7. /\ partial_line_buffer' = Remainder(rx) /\ Rest' = rest
        /\ queue' = IF QueueFull(queue, BlockQueueLen) THEN queue ELSE Append(queue, block)
    BY <1>2 DEF Reassemble, SendBlock, xQueueSend, Rest
  <1>8. n = 1 /\ Len(wire) >= 2 => Len(wire') >= 1 /\ wire'[1] = wire[2]
    <2> SUFFICES ASSUME n = 1, Len(wire) >= 2 PROVE Len(wire') >= 1 /\ wire'[1] = wire[2]
      OBVIOUS
    <2>1. /\ n + 1 = 2 /\ Len(wire) \in Nat /\ 2 \in 1 .. Len(wire) + 1
          /\ Len(wire) \in 2 - 1 .. Len(wire) /\ Len(wire) - 2 + 1 >= 1
          /\ 1 \in 1 .. Len(wire) - 2 + 1 /\ 2 + 1 - 1 = 2
      BY <1>1
    <2>2. wire' = SubSeq(wire, 2, Len(wire))
      BY <1>2, <2>1
    <2> QED BY <1>1, <2>1, <2>2, PartType
  <1> HIDE DEF rx, block, rest
  <1>9. TitlesContinue'
    <2>1. CASE QueueFull(queue, BlockQueueLen)
      <3>1. queue' = queue /\ ~NewLineToCome
        BY <1>4, <1>7, <2>1 DEF NewLineToCome
      <3> QED BY <1>1, <1>4, <3>1, QueueStays
    <2>2. CASE ~QueueFull(queue, BlockQueueLen)
      <3>1. NewLineToCome => BeginsWithNewLine(block)
        BY <1>5 DEF NewLineToCome
      <3>2. EndsInColon(block) => NewLineToCome'
        <4> SUFFICES ASSUME EndsInColon(block) PROVE NewLineToCome'
          OBVIOUS
        <4>1. /\ last_piece' = Colon /\ partial_line_buffer' = << >> /\ conn' # "closed"
              /\ Len(wire') >= 1 /\ wire'[1] = NewLine
          BY <1>4, <1>5, <1>6, <1>7, <1>8
        <4> QED BY <4>1 DEF NewLineToCome, BeginsWithNewLine
      <3>3. queue' = Append(queue, block)
        BY <1>7, <2>2
      <3> QED BY <1>1, <1>4, <1>5, <3>1, <3>2, <3>3, QueueGrows
    <2> QED BY <2>1, <2>2
  <1>10. TextInShape'
    <2>1. \A k \in 1 .. Len(queue') : InShape(queue'[k])
      <3>1. \A k \in 1 .. Len(queue) : InShape(queue[k])
        BY <1>1 DEF TextInShape
      <3>2. \A k \in 1 .. Len(Append(queue, block)) :
              \/ k \in 1 .. Len(queue) /\ Append(queue, block)[k] = queue[k]
              \/ Append(queue, block)[k] = block
        BY <1>1
      <3>3. \A k \in 1 .. Len(Append(queue, block)) : InShape(Append(queue, block)[k])
        BY <1>5, <3>1, <3>2
      <3> QED BY <1>7, <3>1, <3>3
    <2>2. \A i \in 1 .. Len(partial_line_buffer') :
            /\ partial_line_buffer'[i] # NewLine
            /\ partial_line_buffer'[i] = Colon => conn' # "closed" /\ last_piece' = Colon
      BY <1>4, <1>5, <1>6, <1>7
    <2>3. InShape(text')
      BY <1>1, <1>4 DEF TextInShape
    <2> QED BY <1>5, <1>7, <2>1, <2>2, <2>3 DEF TextInShape
  <1>11. ParserInUpdate'
    BY <1>1, <1>4 DEF ParserInUpdate, AtLine
  <1> QED BY <1>1, <1>4, <1>9, <1>10, <1>11 DEF Sound

\* The line kept back is text of its own.
LEMMA KeptInShape ==
  ASSUME TypeOK, TextInShape PROVE InShape(partial_line_buffer)
  <1>1. /\ TextTypes /\ partial_line_buffer \in Seq(Pieces) /\ Len(partial_line_buffer) \in Nat
        /\ Len(wire) \in Nat
    BY TypeParts DEF TextTypes
  <1>2. /\ Len(Rest) = Len(partial_line_buffer) + Len(wire)
        /\ \A i \in 1 .. Len(partial_line_buffer) : Rest[i] = partial_line_buffer[i]
    BY <1>1, RestAt
  <1>3. \A i \in 1 .. Len(partial_line_buffer) - 1 :
          /\ i \in 1 .. Len(partial_line_buffer) /\ i + 1 \in 1 .. Len(partial_line_buffer)
          /\ i \in 1 .. Len(Rest) - 1
    BY <1>1, <1>2
  <1>4. \A i \in 1 .. Len(partial_line_buffer) - 1 :
          /\ partial_line_buffer[i] # NewLine
          /\ partial_line_buffer[i] = Colon => partial_line_buffer[i + 1] = NewLine
    BY <1>2, <1>3 DEF TextInShape, InShape, TitleLineEnds
  <1> QED BY <1>1, <1>4, LineInShape

LEMMA ReceiveEndSound ==
  ASSUME TypeOK, Sound, ~torn', ReceiveEnd PROVE Sound'
  <1>1. /\ wire = << >> /\ wire' = << >> /\ last_piece # Colon /\ last_piece' = last_piece
        /\ Reassemble(<< >>)
        /\ UNCHANGED << parsing, text, state, panicked, invented >>
    BY DEF ReceiveEnd, parserVars
  <1>2. /\ partial_line_buffer \in Seq(Pieces)
        /\ ethernet_message_input_queue \in Seq(Seq(Pieces))
        /\ TextInShape /\ TitlesContinue /\ ParserInUpdate /\ ~panicked /\ ~invented
    BY TypeParts DEF TextTypes, Sound
  <1>3. Lines(<< >>) = << >> /\ Remainder(<< >>) = << >>
    <2>1. << >> \in Seq(Pieces) /\ Len(<< >>) = 0
      OBVIOUS
    <2>2. LastNewLine(<< >>) \in 0 .. 0
      BY <2>1, LastNewLineIs
    <2> QED BY <2>2 DEF HasLine, Lines, Remainder
  <1>4. partial_line_buffer \o Lines(<< >>) = partial_line_buffer
    BY <1>2, <1>3
  <1> DEFINE queue == ethernet_message_input_queue
  <1>5. /\ partial_line_buffer' = << >>
        /\ queue' = IF QueueFull(queue, BlockQueueLen) THEN queue
                    ELSE Append(queue, partial_line_buffer)
    BY <1>1, <1>3, <1>4 DEF Reassemble, SendBlock, xQueueSend
  <1>6. Rest' = << >>
    <2>1. Rest' = << >> \o << >>
      BY <1>1, <1>5 DEF Rest
    <2> QED BY <2>1
  <1>7. ~NewLineToCome
    BY <1>1 DEF NewLineToCome
  <1>8. ~EndsInColon(partial_line_buffer) /\ InShape(partial_line_buffer)
    <2>1. Len(partial_line_buffer) >= 1 => Len(partial_line_buffer) \in 1 .. Len(partial_line_buffer)
      BY <1>2
    <2> QED BY <1>1, <1>2, <2>1, KeptInShape DEF EndsInColon, TextInShape
  <1>9. TitlesContinue'
    <2>1. CASE QueueFull(queue, BlockQueueLen)
      BY <1>1, <1>2, <1>5, <1>7, <2>1, QueueStays
    <2>2. CASE ~QueueFull(queue, BlockQueueLen)
      BY <1>1, <1>2, <1>5, <1>7, <1>8, <2>2, QueueGrows
    <2> QED BY <2>1, <2>2
  <1>10. TextInShape'
    <2>1. \A k \in 1 .. Len(queue') : InShape(queue'[k])
      <3>1. \A k \in 1 .. Len(queue) : InShape(queue[k])
        BY <1>2 DEF TextInShape
      <3>2. \A k \in 1 .. Len(Append(queue, partial_line_buffer)) :
              \/ k \in 1 .. Len(queue) /\ Append(queue, partial_line_buffer)[k] = queue[k]
              \/ Append(queue, partial_line_buffer)[k] = partial_line_buffer
        BY <1>2
      <3>3. \A k \in 1 .. Len(Append(queue, partial_line_buffer)) :
              InShape(Append(queue, partial_line_buffer)[k])
        BY <1>8, <3>1, <3>2
      <3> QED BY <1>5, <3>1, <3>3
    <2>2. InShape(text')
      BY <1>1, <1>2 DEF TextInShape
    <2>3. \A i \in 1 .. Len(partial_line_buffer') : FALSE
      BY <1>5
    <2> QED BY <1>6, <2>1, <2>2, <2>3, EmptyInShape DEF TextInShape
  <1>11. ParserInUpdate'
    BY <1>1, <1>2 DEF ParserInUpdate, AtLine
  <1> QED BY <1>1, <1>2, <1>9, <1>10, <1>11 DEF Sound

\* The connection is gone, and what has not been queued with it, but for a line
\* kept back.
LEMMA ClosedSound ==
  ASSUME TypeOK, Sound, last_piece # Colon,
         conn' = "closed", wire' = << >>, partial_line_buffer' \in {partial_line_buffer, << >>},
         UNCHANGED << parsing, text, state, ethernet_message_input_queue, panicked, invented >>
  PROVE  Sound'
  <1>1. /\ partial_line_buffer \in Seq(Pieces)
        /\ TextInShape /\ TitlesContinue /\ ParserInUpdate /\ ~panicked /\ ~invented
    BY TypeParts DEF TextTypes, Sound
  <1>2. Rest' \in {partial_line_buffer, << >>}
    <2>1. Rest' = partial_line_buffer' \o << >>
      BY DEF Rest
    <2> QED BY <1>1, <2>1
  <1>3. InShape(Rest')
    BY <1>1, <1>2, KeptInShape, EmptyInShape
  <1>4. \A i \in 1 .. Len(partial_line_buffer) :
          partial_line_buffer[i] # NewLine /\ partial_line_buffer[i] # Colon
    BY <1>1 DEF TextInShape
  <1>5. \A i \in 1 .. Len(partial_line_buffer') :
          partial_line_buffer'[i] # NewLine /\ partial_line_buffer'[i] # Colon
    <2>1. CASE partial_line_buffer' = partial_line_buffer
      BY <1>4, <2>1
    <2>2. CASE partial_line_buffer' = << >>
      BY <2>2
    <2> QED BY <2>1, <2>2
  <1>6. TextInShape'
    BY <1>1, <1>3, <1>5 DEF TextInShape
  <1>7. TitlesContinue'
    BY <1>1, QueueStays DEF NewLineToCome
  <1>8. ParserInUpdate'
    BY <1>1 DEF ParserInUpdate, AtLine
  <1> QED BY <1>1, <1>6, <1>7, <1>8 DEF Sound

\* The router sends more: its greeting or an update.
LEMMA TellSound ==
  ASSUME TypeOK, Sound,
         UNCHANGED << text, parsing, state, ethernet_message_input_queue, partial_line_buffer,
                      panicked, invented >>,
         conn = "closed" \/ UNCHANGED last_piece,
         conn' # "closed",
         NEW plain \in {<< >>, Ack, Other}, NEW count \in Nat,
         told + count <= MaxTold,
         wire' = wire \o (plain \o Update(told + 1, told + count))
  PROVE  Sound'
  <1> DEFINE more == plain \o Update(told + 1, told + count)
  <1>1. /\ TextTypes /\ wire \in Seq(Pieces) /\ partial_line_buffer \in Seq(Pieces)
        /\ Rest \in Seq(Pieces)
        /\ TextInShape /\ TitlesContinue /\ ParserInUpdate /\ ~panicked /\ ~invented
    BY TypeParts, RestAt DEF TextTypes, Sound
  <1>2. told \in Nat /\ (conn = "closed" => wire = << >>)
    BY StreamAssumption DEF TypeOK
  <1>3. told + 1 \in Nat \ {0} /\ (told + 1) + count - 1 = told + count
    BY <1>2
  <1>4. /\ InShape(more) /\ BlankAtEnd(more)
        /\ more \in Seq(Pieces) /\ Len(more) >= 2 /\ more[1] # NewLine
    BY <1>3, ToldInShape
  <1>5. wire' = wire \o more
    OBVIOUS
  <1> HIDE DEF more
  <1>6. Rest' = Rest \o more
    <2>1. partial_line_buffer \o (wire \o more) = (partial_line_buffer \o wire) \o more
      BY <1>1, <1>4, ConcatThree
    <2> QED BY <1>5, <2>1 DEF Rest
  <1>7. InShape(Rest \o more) /\ BlankAtEnd(Rest \o more)
    <2>1. CASE conn # "closed"
      BY <1>1, <1>4, <2>1, JoinInShape DEF TextInShape
    <2>2. CASE conn = "closed"
      <3>1. \A i \in 1 .. Len(partial_line_buffer) :
              partial_line_buffer[i] # NewLine /\ partial_line_buffer[i] # Colon
        BY <1>1, <2>2 DEF TextInShape
      <3>2. Rest = partial_line_buffer
        BY <1>1, <1>2, <2>2 DEF Rest
      <3> QED BY <1>1, <1>4, <3>1, <3>2, JoinInShape
    <2> QED BY <2>1, <2>2
  <1>8. TextInShape'
    <2>1. \A i \in 1 .. Len(partial_line_buffer) :
            /\ partial_line_buffer[i] # NewLine
            /\ partial_line_buffer[i] = Colon => conn' # "closed" /\ last_piece' = Colon
      BY <1>1 DEF TextInShape
    <2> QED BY <1>1, <1>6, <1>7, <2>1 DEF TextInShape
  <1>9. NewLineToCome => NewLineToCome'
    <2> SUFFICES ASSUME NewLineToCome PROVE NewLineToCome'
      OBVIOUS
    <2>1. /\ conn # "closed" /\ last_piece' = Colon /\ partial_line_buffer' = << >>
          /\ 1 \in 1 .. Len(wire) /\ wire[1] = NewLine
      BY <1>1 DEF NewLineToCome, BeginsWithNewLine
    <2>2. Len(wire') = Len(wire) + Len(more) /\ wire'[1] = wire[1]
      <3>1. /\ Len(wire \o more) = Len(wire) + Len(more)
            /\ \A i \in 1 .. Len(wire) : (wire \o more)[i] = wire[i]
        <4>1. wire \in Seq(Pieces) /\ more \in Seq(Pieces)
          BY <1>1, <1>4
        <4> QED BY <4>1, ConcatAt
      <3> QED BY <1>5, <2>1, <3>1
    <2>3. Len(wire') >= 1
      BY <1>1, <1>4, <2>1, <2>2
    <2> QED BY <2>1, <2>2, <2>3 DEF NewLineToCome, BeginsWithNewLine
  <1>10. TitlesContinue'
    BY <1>1, <1>9, QueueStays
  <1>11. ParserInUpdate'
    BY <1>1 DEF ParserInUpdate, AtLine
  <1> QED BY <1>1, <1>8, <1>10, <1>11 DEF Sound

LEMMA TakeBlockSound ==
  ASSUME TypeOK, Sound, TakeBlock PROVE Sound'
  <1> DEFINE queue == ethernet_message_input_queue
  <1>1. /\ queue \in Seq(Seq(Pieces))
        /\ TextInShape /\ TitlesContinue /\ ParserInUpdate /\ ~panicked /\ ~invented
    BY TypeParts DEF TextTypes, Sound
  <1>2. /\ ~parsing /\ queue # << >> /\ parsing' = TRUE
        /\ text' = Head(queue) /\ queue' = Tail(queue)
        /\ UNCHANGED << conn, wire, partial_line_buffer, last_piece, state, panicked, invented >>
    BY DEF TakeBlock, clientVars, history
  <1>3. /\ Len(queue) \in Nat /\ Len(queue) >= 1
        /\ Head(queue) = queue[1] /\ Len(Tail(queue)) = Len(queue) - 1
        /\ \A k \in 1 .. Len(queue) - 1 : Tail(queue)[k] = queue[k + 1]
    BY <1>1, <1>2
  <1>4. text' = queue[1] /\ Len(queue') = Len(queue) - 1
        /\ \A k \in 1 .. Len(queue) - 1 : queue'[k] = queue[k + 1]
    BY <1>2, <1>3
  <1>5. NewLineToCome' <=> NewLineToCome
    BY <1>2 DEF NewLineToCome
  <1>6. ASSUME NEW k \in 0 .. Len(queue) - 1, NewLineBehind(k + 1) PROVE NewLineBehind(k)'
    <2>1. /\ k < Len(queue') <=> k + 1 < Len(queue)
      BY <1>3, <1>4
    <2>2. k + 1 < Len(queue) => queue'[k + 1] = queue[(k + 1) + 1]
      <3>1. k + 1 < Len(queue) => k + 1 \in 1 .. Len(queue) - 1
        BY <1>3
      <3> QED BY <1>4, <3>1
    <2>3. NewLineBehind(k)' <=> (IF k < Len(queue') THEN BeginsWithNewLine(queue'[k + 1])
                                 ELSE NewLineToCome')
      BY DEF NewLineBehind
    <2>4. IF k + 1 < Len(queue) THEN BeginsWithNewLine(queue[(k + 1) + 1]) ELSE NewLineToCome
      BY <1>6 DEF NewLineBehind
    <2> HIDE DEF queue
    <2> QED BY <1>5, <2>1, <2>2, <2>3, <2>4
  <1>7. TitlesContinue'
    <2>1. ASSUME NEW k \in 1 .. Len(queue'), EndsInColon(queue'[k]) PROVE NewLineBehind(k)'
      <3>1. k \in 1 .. Len(queue) - 1 /\ k + 1 \in 1 .. Len(queue) /\ k \in 0 .. Len(queue) - 1
        BY <1>3, <1>4
      <3>2. EndsInColon(queue[k + 1])
        BY <1>4, <2>1, <3>1
      <3>3. NewLineBehind(k + 1)
        BY <1>1, <3>1, <3>2 DEF TitlesContinue
      <3> QED BY <1>6, <3>1, <3>3
    <2>2. EndsInColon(text') => NewLineBehind(0)'
      <3>1. 0 \in 0 .. Len(queue) - 1 /\ 1 \in 1 .. Len(queue) /\ 0 + 1 = 1
        BY <1>3
      <3>2. EndsInColon(queue[1]) => NewLineBehind(1)
        BY <1>1, <3>1 DEF TitlesContinue
      <3> QED BY <1>4, <1>6, <3>1, <3>2
    <2> QED BY <1>2, <2>1, <2>2 DEF TitlesContinue
  <1>8. TextInShape'
    <2>1. \A k \in 1 .. Len(queue) : InShape(queue[k])
      BY <1>1 DEF TextInShape
    <2>2. \A k \in 1 .. Len(queue') : InShape(queue'[k])
      <3>1. \A k \in 1 .. Len(queue') : k + 1 \in 1 .. Len(queue) /\ queue'[k] = queue[k + 1]
        BY <1>3, <1>4
      <3> QED BY <2>1, <3>1
    <2>3. InShape(text')
      <3>1. 1 \in 1 .. Len(queue)
        BY <1>3
      <3> QED BY <1>4, <2>1, <3>1
    <2>4. Rest' = Rest
      BY <1>2 DEF Rest
    <2> QED BY <1>1, <1>2, <2>2, <2>3, <2>4 DEF TextInShape
  <1>9. ParserInUpdate'
    <2>1. state = "IN_UPDATE" => BeginsWithNewLine(queue[1])
      <3>1. 0 < Len(queue) /\ 0 + 1 = 1
        BY <1>3
      <3> QED BY <1>1, <1>2, <3>1 DEF TitlesContinue, NewLineBehind
    <2> QED BY <1>2, <1>4, <2>1 DEF ParserInUpdate, AtLine
  <1> QED BY <1>1, <1>2, <1>7, <1>8, <1>9 DEF Sound

\* What every line leaves; the state behind it is the rest.
LEMMA LineSound ==
  ASSUME TypeOK, Sound, parsing, NextLine,
         UNCHANGED << conn, wire, partial_line_buffer, last_piece, ethernet_message_input_queue >>,
         ~panicked', ~invented',
         state' = "IN_UPDATE" => IF FirstNewLine = 0 THEN EndsInColon(text) ELSE AtLine'
  PROVE  Sound'
  <1>1. /\ text \in Seq(Pieces)
        /\ TextInShape /\ TitlesContinue /\ ParserInUpdate /\ ~panicked /\ ~invented
    BY TypeParts DEF TextTypes, Sound
  <1>2. /\ InShape(text') /\ (EndsInColon(text') => EndsInColon(text))
        /\ parsing' = (FirstNewLine # 0)
    BY <1>1, NextLineInShape DEF TextInShape
  <1>3. Rest' = Rest
    BY DEF Rest
  <1>4. TextInShape'
    BY <1>1, <1>2, <1>3 DEF TextInShape
  <1>5. ASSUME NEW k, NewLineBehind(k) PROVE NewLineBehind(k)'
    BY <1>5 DEF NewLineBehind, NewLineToCome
  <1>6. EndsInColon(text) => NewLineBehind(0)'
    BY <1>1, <1>5 DEF TitlesContinue
  <1>7. TitlesContinue'
    <2>1. \A k \in 1 .. Len(ethernet_message_input_queue') :
            EndsInColon(ethernet_message_input_queue'[k]) => NewLineBehind(k)'
      BY <1>1, <1>5 DEF TitlesContinue
    <2>2. ~parsing' /\ state' = "IN_UPDATE" => NewLineBehind(0)'
      BY <1>2, <1>6
    <2> QED BY <1>2, <1>6, <2>1, <2>2 DEF TitlesContinue
  <1>8. ParserInUpdate'
    BY <1>2 DEF ParserInUpdate
  <1> QED BY <1>1, <1>4, <1>7, <1>8 DEF Sound

LEMMA SkipLineSound ==
  ASSUME TypeOK, Sound, SkipLine PROVE Sound'
  <1>1. /\ parsing /\ NextLine /\ state' = StateAfter(Line)
        /\ state = "IN_UPDATE" => Line = << >>
        /\ UNCHANGED << conn, wire, partial_line_buffer, last_piece,
                        ethernet_message_input_queue >>
        /\ ~panicked' /\ ~invented'
    BY DEF SkipLine, clientVars, history, Sound
  <1>2. text \in Seq(Pieces) /\ InShape(text)
    BY TypeParts DEF TextTypes, Sound, TextInShape
  <1>3. state' = "IN_UPDATE" => IsTitle(Line)
    BY <1>1 DEF StateAfter
  <1>4. state' = "IN_UPDATE" => IF FirstNewLine = 0 THEN EndsInColon(text) ELSE AtLine'
    BY <1>1, <1>2, <1>3, TitleLine
  <1> QED BY <1>1, <1>4, LineSound

\* Inside an update tcp_recv_task has a line of the router's before it.
LEMMA LineToPost ==
  ASSUME TypeOK, Sound, parsing, state = "IN_UPDATE", Line # << >>
  PROVE  AtLine /\ text \in Seq(Pieces) /\ InShape(text)
  BY TypeParts DEF TextTypes, Sound, TextInShape, ParserInUpdate

LEMMA PostLineSound ==
  ASSUME TypeOK, Sound, PostLine PROVE Sound'
  <1>1. /\ parsing /\ NextLine /\ state = "IN_UPDATE" /\ Line # << >>
        /\ UNCHANGED << conn, wire, partial_line_buffer, last_piece,
                        ethernet_message_input_queue, panicked >>
    BY DEF PostLine, clientVars
  <1>2. AtLine /\ text \in Seq(Pieces) /\ InShape(text)
    BY <1>1, LineToPost
  <1>3. FirstNewLine # 0 /\ AtLine'
    BY <1>1, <1>2, UpdateLineNext
  <1>4. Confirmed(Line) # 0
    <2>1. PICK n \in 1 .. MaxTold : Line = << Output(n), Input(n) >>
      BY <1>1, <1>2, UpdateLine
    <2>2. Confirmed(Line) = n
      BY <2>1 DEF Confirmed, Output
    <2> QED BY <2>1, <2>2
  <1>5. ~panicked' /\ ~invented'
    <2>1. ~invented /\ ~panicked
      BY DEF Sound
    <2>2. invented' => invented \/ Confirmed(Line) = 0
      BY DEF PostLine
    <2> QED BY <1>1, <1>4, <2>1, <2>2
  <1> QED BY <1>1, <1>3, <1>5, LineSound

LEMMA NoPanic ==
  ASSUME TypeOK, Sound PROVE ~Panic
  <1> SUFFICES ASSUME Panic PROVE FALSE
    OBVIOUS
  <1>1. parsing /\ state = "IN_UPDATE" /\ Line # << >> /\ ~HasSecondWord(Line)
    BY DEF Panic
  <1>2. PICK n \in 1 .. MaxTold : Line = << Output(n), Input(n) >>
    BY <1>1, LineToPost, UpdateLine
  <1>3. 2 \in DOMAIN Line /\ Line[2] = Input(n) /\ 2 > 1
    BY <1>2
  <1>4. Input(n)[1] \in {" word", " input"}
    BY DEF Input
  <1> QED BY <1>1, <1>3, <1>4 DEF HasSecondWord

\* What Connect and RouterTells put behind the text that is on its way.
LEMMA Greeting ==
  ASSUME TypeOK, Connect
  PROVE  /\ wire = << >> /\ wire' = wire \o (Other \o Update(told + 1, told + NOutputs))
         /\ NOutputs \in Nat /\ told \in Nat /\ told + NOutputs <= MaxTold
  <1>1. wire = << >> /\ NOutputs \in Nat /\ told \in Nat
    BY StreamAssumption DEF Connect, TypeOK
  <1>2. wire' = Other \o Update(told + 1, told + NOutputs) /\ told + NOutputs <= MaxTold
    BY DEF Connect
  <1>3. wire' \in Seq(Pieces)
    <2>1. TypeOK'
      BY NextTypeOK DEF Next
    <2> QED BY <2>1 DEF TypeOK
  <1>4. << >> \o wire' = wire'
    BY <1>3
  <1> QED BY <1>1, <1>2, <1>4

LEMMA RouterMore ==
  ASSUME TypeOK, RouterTells
  PROVE  /\ \E plain \in {<< >>, Ack} : wire' = wire \o (plain \o Update(told + 1, told + 1))
         /\ told' = told + 1 /\ told + 1 <= MaxTold /\ told \in Nat
  <1>1. PICK plain \in {<< >>, Ack} : wire' = wire \o plain \o Update(told', told')
    BY DEF RouterTells
  <1>2. told' = told + 1 /\ told + 1 <= MaxTold /\ told \in Nat
    <2>1. told \in 0 .. MaxTold
      BY DEF TypeOK
    <2> QED BY <2>1, StreamAssumption DEF RouterTells
  <1>3. wire \o plain \o Update(told', told') = wire \o (plain \o Update(told + 1, told + 1))
    <2>1. plain \in Seq(Pieces) /\ wire \in Seq(Pieces)
      BY PlainInShape DEF TypeOK
    <2>2. Update(told + 1, told + 1) \in Seq(Pieces)
      <3>1. told + 1 \in Nat \ {0} /\ 1 \in Nat /\ (told + 1) + 1 - 1 = told + 1
            /\ (told + 1) + 1 - 1 <= MaxTold
        BY <1>2
      <3>2. Update(told + 1, (told + 1) + 1 - 1) \in Seq(Pieces)
        BY <3>1, UpdateInShape
      <3> QED BY <3>1, <3>2
    <2> QED BY <1>2, <2>1, <2>2, ConcatThree
  <1> QED BY <1>1, <1>2, <1>3

LEMMA InitSound == Init => Sound
  <1> SUFFICES ASSUME Init PROVE Sound
    OBVIOUS
  <1>1. /\ wire = << >> /\ partial_line_buffer = << >> /\ text = << >> /\ ~parsing
        /\ ethernet_message_input_queue = << >> /\ state = "UNKNOWN" /\ conn = "closed"
        /\ ~panicked /\ ~invented
    BY DEF Init
  <1>2. Rest = << >>
    BY <1>1 DEF Rest
  <1>3. Len(<< >>) = 0
    OBVIOUS
  <1> QED BY <1>1, <1>2, <1>3, EmptyInShape DEF Sound, TextInShape, TitlesContinue, ParserInUpdate

\* One step per action.
LEMMA NextSound ==
  ASSUME TypeOK, torn \/ Sound, [Next]_vars PROVE torn' \/ Sound'
  <1> SUFFICES ASSUME ~torn' PROVE Sound'
    OBVIOUS
  <1>1. ~torn
    BY DEF Next, Client, Parser, Receive, ReceiveEnd, CloseSocket, TaskRestart, TakeBlock, SkipLine,
           PostLine, Panic, LogicTakes, Connect, RouterTells, RouterCloses, ConnectionBreaks, vars,
           history
  <1>2. Sound
    BY <1>1
  <1>3. CASE Receive
    BY <1>2, <1>3, ReceiveSound
  <1>4. CASE ReceiveEnd
    BY <1>2, <1>4, ReceiveEndSound
  <1>5. CASE CloseSocket \/ TaskRestart
    <2>1. /\ last_piece # Colon /\ conn' = "closed" /\ wire' = << >>
          /\ partial_line_buffer' \in {partial_line_buffer, << >>}
          /\ UNCHANGED << parsing, text, state, ethernet_message_input_queue, panicked, invented >>
      BY <1>5 DEF CloseSocket, TaskRestart, parserVars
    <2> QED BY <1>2, <2>1, ClosedSound
  <1>6. CASE TakeBlock
    BY <1>2, <1>6, TakeBlockSound
  <1>7. CASE SkipLine
    BY <1>2, <1>7, SkipLineSound
  <1>8. CASE PostLine
    BY <1>2, <1>8, PostLineSound
  <1>9. CASE Panic
    BY <1>2, <1>9, NoPanic
  <1>10. CASE LogicTakes \/ RouterCloses \/ ConnectionBreaks \/ UNCHANGED vars
    <2>1. /\ UNCHANGED << wire, partial_line_buffer, ethernet_message_input_queue, state, parsing,
                          text, last_piece, panicked, invented >>
          /\ conn' = "closed" <=> conn = "closed"
      BY <1>10 DEF LogicTakes, RouterCloses, ConnectionBreaks, vars, clientVars, parserVars, history
    <2>2. TextInShape' /\ ParserInUpdate'
      BY <1>2, <2>1 DEF Sound, TextInShape, ParserInUpdate, AtLine, Rest
    <2>3. TitlesContinue'
      BY <1>2, <2>1, QueueStays DEF Sound, NewLineToCome
    <2> QED BY <1>2, <2>1, <2>2, <2>3 DEF Sound
  <1>11. CASE Connect
    <2>1. /\ conn = "closed" /\ conn' # "closed"
          /\ UNCHANGED << text, parsing, state, ethernet_message_input_queue,
                          partial_line_buffer, panicked, invented >>
      BY <1>11 DEF Connect, parserVars
    <2>2. /\ wire' = wire \o (Other \o Update(told + 1, told + NOutputs))
          /\ NOutputs \in Nat /\ told + NOutputs <= MaxTold
      BY <1>11, Greeting
    <2> QED BY <1>2, <2>1, <2>2, TellSound
  <1>12. CASE RouterTells
    <2>1. /\ conn # "closed" /\ conn' # "closed" /\ UNCHANGED last_piece
          /\ UNCHANGED << text, parsing, state, ethernet_message_input_queue,
                          partial_line_buffer, panicked, invented >>
      BY <1>12 DEF RouterTells, parserVars
    <2>2. PICK plain \in {<< >>, Ack} :
            wire' = wire \o (plain \o Update(told + 1, told + 1))
      BY <1>12, RouterMore
    <2>3. told + 1 <= MaxTold
      BY <1>12, RouterMore
    <2> QED BY <1>2, <2>1, <2>2, <2>3, TellSound
  <1> QED
    BY <1>3, <1>4, <1>5, <1>6, <1>7, <1>8, <1>9, <1>10, <1>11, <1>12 DEF Next, Client, Parser

\* tcp_recv_task posts nothing the router did not say and reads no null pointer,
\* wherever recv cuts the text, unless the newline behind a title is lost.
THEOREM NothingInvented == Spec => []NoInvention
  <1>1. Init => InventionInv
    BY InitTypeOK, InitSound DEF InventionInv
  <1>2. InventionInv /\ [Next]_vars => InventionInv'
    BY NextTypeOK, NextSound DEF InventionInv
  <1>3. InventionInv => NoInvention
    BY DEF InventionInv, Sound, NoInvention
  <1> QED BY <1>1, <1>2, <1>3, PTL DEF Spec
-----------------------------------------------------------------------------
(* Nothing gets lost.  While every block has ended outside updates and     *)
(* nothing was dropped, each confirmation of the connection has been heard *)
(* or is on its way with the title of its update.                          *)

\* Confirmation n is in s behind k lines of an update, the first of them from b on.
Run(s, b, k, n) ==
  /\ \A j \in 0 .. k : LineAt(s, b + 3 * j)
  /\ s[b + 3 * k] = Output(n) /\ s[b + 3 * k + 1] = Input(n)

\* The same behind the title at a.
Titled(s, a, k, n) ==
  /\ s[a] = Title /\ s[a + 1] = Colon /\ s[a + 2] = NewLine
  /\ Run(s, a + 3, k, n)

InRun(s, n) == \E k \in Nat : Run(s, 1, k, n)

TitleFirst(s, n) == \E k \in Nat : Titled(s, 1, k, n)

TitleBehindBlank(s, n) ==
  \E a \in 2 .. Len(s), k \in Nat :
    /\ Titled(s, a, k, n)
    /\ s[a - 1] = NewLine /\ (a >= 3 => s[a - 2] = NewLine)

LEMMA RunEnds ==
  ASSUME NEW s, NEW b, NEW k \in Nat, NEW n, Run(s, b, k, n)
  PROVE  b + 3 * k + 2 <= Len(s)
  <1>1. k \in 0 .. k
    OBVIOUS
  <1> QED BY <1>1 DEF Run, LineAt

LEMMA RunMoves ==
  ASSUME NEW s, NEW t, NEW b \in Nat, NEW c \in Nat, NEW k \in Nat, NEW n, Run(s, b, k, n),
         Len(t) \in Nat, c + 3 * k + 2 <= Len(t),
         \A i \in 0 .. 3 * k + 2 : t[c + i] = s[b + i]
  PROVE  Run(t, c, k, n)
  <1>1. ASSUME NEW j \in 0 .. k
        PROVE  /\ t[c + 3 * j] = s[b + 3 * j] /\ t[c + 3 * j + 1] = s[b + 3 * j + 1]
               /\ t[c + 3 * j + 2] = s[b + 3 * j + 2] /\ c + 3 * j + 2 <= Len(t)
    <2> DEFINE i == 3 * j
    <2>1. /\ i \in 0 .. 3 * k + 2 /\ i + 1 \in 0 .. 3 * k + 2 /\ i + 2 \in 0 .. 3 * k + 2
          /\ i \in Nat /\ i <= 3 * k
      OBVIOUS
    <2> HIDE DEF i
    <2>2. t[c + i] = s[b + i] /\ t[c + (i + 1)] = s[b + (i + 1)] /\ t[c + (i + 2)] = s[b + (i + 2)]
      BY <2>1
    <2>3. /\ c + i + 1 = c + (i + 1) /\ c + i + 2 = c + (i + 2)
          /\ b + i + 1 = b + (i + 1) /\ b + i + 2 = b + (i + 2)
          /\ c + i + 2 <= Len(t)
      BY <2>1
    <2>4. /\ t[c + i] = s[b + i] /\ t[c + i + 1] = s[b + i + 1]
          /\ t[c + i + 2] = s[b + i + 2] /\ c + i + 2 <= Len(t)
      BY <2>2, <2>3
    <2> QED BY <2>4 DEF i
  <1>2. k \in 0 .. k
    OBVIOUS
  <1>3. t[c + 3 * k] = Output(n) /\ t[c + 3 * k + 1] = Input(n)
    BY <1>1, <1>2 DEF Run
  <1>4. ASSUME NEW j \in 0 .. k PROVE LineAt(t, c + 3 * j)
    <2>1. LineAt(s, b + 3 * j)
      BY DEF Run
    <2> QED BY <1>1, <2>1 DEF LineAt
  <1> QED BY <1>3, <1>4 DEF Run

LEMMA TitledEnds ==
  ASSUME NEW s, NEW a \in Nat, NEW k \in Nat, NEW n, Titled(s, a, k, n)
  PROVE  a + 3 * k + 5 <= Len(s)
  <1>1. (a + 3) + 3 * k + 2 <= Len(s)
    BY RunEnds DEF Titled
  <1> QED BY <1>1

LEMMA TitledMoves ==
  ASSUME NEW s, NEW t, NEW a \in Nat, NEW c \in Nat, NEW k \in Nat, NEW n, Titled(s, a, k, n),
         Len(t) \in Nat, c + 3 * k + 5 <= Len(t),
         \A i \in 0 .. 3 * k + 5 : t[c + i] = s[a + i]
  PROVE  Titled(t, c, k, n)
  <1>1. /\ 0 \in 0 .. 3 * k + 5 /\ 1 \in 0 .. 3 * k + 5 /\ 2 \in 0 .. 3 * k + 5
        /\ c + 0 = c /\ a + 0 = a
    OBVIOUS
  <1>2. t[c] = Title /\ t[c + 1] = Colon /\ t[c + 2] = NewLine
    BY <1>1 DEF Titled
  <1>3. \A i \in 0 .. 3 * k + 2 : t[(c + 3) + i] = s[(a + 3) + i]
    <2> SUFFICES ASSUME NEW i \in 0 .. 3 * k + 2 PROVE t[(c + 3) + i] = s[(a + 3) + i]
      OBVIOUS
    <2>1. 3 + i \in 0 .. 3 * k + 5 /\ (c + 3) + i = c + (3 + i) /\ (a + 3) + i = a + (3 + i)
      OBVIOUS
    <2>2. t[c + (3 + i)] = s[a + (3 + i)]
      BY <2>1
    <2> QED BY <2>1, <2>2
  <1> DEFINE d == c + 3
             b == a + 3
  <1>4. d + 3 * k + 2 <= Len(t) /\ d \in Nat /\ b \in Nat
    OBVIOUS
  <1>5. Run(s, b, k, n)
    BY DEF Titled
  <1> HIDE DEF d, b
  <1>6. \A i \in 0 .. 3 * k + 2 : t[d + i] = s[b + i]
    BY <1>3 DEF d, b
  <1>7. Run(t, d, k, n)
    BY <1>4, <1>5, <1>6, RunMoves
  <1> QED BY <1>2, <1>7 DEF Titled, d

\* Its pieces: a newline that is not inside an update is not in it.
LEMMA CutOutside ==
  ASSUME NEW s, NEW a \in Nat, NEW k \in Nat, NEW n, Titled(s, a, k, n),
         NEW p \in Nat, s[p] = NewLine, ~InsideUpdate(s[p - 1])
  PROVE  p < a \/ p > a + 3 * k + 5
  <1> SUFFICES ASSUME p \in a .. a + 3 * k + 5 PROVE FALSE
    OBVIOUS
  <1>1. s[a] = Title /\ s[a + 1] = Colon /\ Run(s, a + 3, k, n)
    BY DEF Titled
  <1>2. p # a /\ p # a + 1
    BY <1>1, NewLineIsNone
  <1>3. p # a + 2
    <2>1. p = a + 2 => p - 1 = a + 1
      OBVIOUS
    <2> QED BY <1>1, <2>1 DEF InsideUpdate
  <1> DEFINE j == (p - (a + 3)) \div 3
  <1>4. /\ j \in 0 .. k
        /\ \/ p = a + 3 + 3 * j
           \/ p = a + 3 + 3 * j + 1
           \/ p = a + 3 + 3 * j + 2
    BY <1>2, <1>3
  <1> HIDE DEF j
  <1>5. LineAt(s, a + 3 + 3 * j)
    BY <1>1, <1>4 DEF Run
  <1>6. PICK m \in 1 .. MaxTold : s[a + 3 + 3 * j] = Output(m) /\ s[a + 3 + 3 * j + 1] = Input(m)
    BY <1>5 DEF LineAt
  <1>7. p # a + 3 + 3 * j /\ p # a + 3 + 3 * j + 1
    BY <1>6, NewLineIsNone
  <1>8. p - 1 = a + 3 + 3 * j + 1
    BY <1>4, <1>7
  <1> QED BY <1>6, <1>8 DEF InsideUpdate

\* A part of the text that leaves the update whole.
LEMMA TitledBehind ==
  ASSUME NEW s, Len(s) \in Nat, NEW t, NEW p \in 0 .. Len(s), Behind(s, t, p),
         NEW a \in 1 .. Len(s), a > p, NEW k \in Nat, NEW n, Titled(s, a, k, n)
  PROVE  Titled(t, a - p, k, n) /\ a - p \in 1 .. Len(t)
  <1>1. Len(t) = Len(s) - p /\ \A i \in 1 .. Len(t) : t[i] = s[p + i]
    BY DEF Behind
  <1>2. a + 3 * k + 5 <= Len(s)
    BY TitledEnds
  <1>3. (a - p) + 3 * k + 5 <= Len(t) /\ a - p \in 1 .. Len(t) /\ a - p \in Nat /\ a \in Nat
    BY <1>1, <1>2
  <1>4. \A i \in 0 .. 3 * k + 5 : t[(a - p) + i] = s[a + i]
    <2> SUFFICES ASSUME NEW i \in 0 .. 3 * k + 5 PROVE t[(a - p) + i] = s[a + i]
      OBVIOUS
    <2>1. (a - p) + i \in 1 .. Len(t) /\ p + ((a - p) + i) = a + i
      BY <1>3
    <2> QED BY <1>1, <2>1
  <1> DEFINE d == a - p
  <1>5. d \in Nat /\ d + 3 * k + 5 <= Len(t) /\ \A i \in 0 .. 3 * k + 5 : t[d + i] = s[a + i]
    BY <1>3, <1>4
  <1>6. Len(t) \in Nat
    BY <1>1
  <1> HIDE DEF d
  <1>7. Titled(t, d, k, n)
    BY <1>3, <1>5, <1>6, TitledMoves
  <1> QED BY <1>3, <1>7 DEF d

LEMMA TitledAhead ==
  ASSUME NEW s, Len(s) \in Nat, NEW t, Len(t) \in Nat,
         NEW a \in 1 .. Len(s), NEW k \in Nat, NEW n, Titled(s, a, k, n),
         a + 3 * k + 5 <= Len(t), \A i \in 1 .. a + 3 * k + 5 : t[i] = s[i]
  PROVE  /\ Titled(t, a, k, n) /\ a \in 1 .. Len(t)
         /\ \A i \in 1 .. a : t[i] = s[i]
  <1>1. \A i \in 0 .. 3 * k + 5 : a + i \in 1 .. a + 3 * k + 5
    OBVIOUS
  <1>2. \A i \in 0 .. 3 * k + 5 : t[a + i] = s[a + i]
    BY <1>1
  <1>3. Titled(t, a, k, n)
    BY <1>2, TitledMoves
  <1>4. a \in 1 .. Len(t) /\ \A i \in 1 .. a : i \in 1 .. a + 3 * k + 5
    OBVIOUS
  <1> QED BY <1>3, <1>4

\* The title of an update stays behind a blank line, or becomes the first.
LEMMA TitleStays ==
  ASSUME NEW s, Len(s) \in Nat, NEW t, NEW p \in 0 .. Len(s), Behind(s, t, p),
         NEW a \in 2 .. Len(s), a > p, NEW k \in Nat, NEW n, Titled(s, a, k, n),
         s[a - 1] = NewLine, a >= 3 => s[a - 2] = NewLine
  PROVE  IF a = p + 1 THEN TitleFirst(t, n) ELSE TitleBehindBlank(t, n)
  <1>1. Titled(t, a - p, k, n) /\ a - p \in 1 .. Len(t)
    BY TitledBehind
  <1>2. CASE a = p + 1
    <2>1. a - p = 1
      BY <1>2
    <2> QED BY <1>1, <1>2, <2>1 DEF TitleFirst
  <1>3. CASE a # p + 1
    <2> DEFINE d == a - p
    <2>1. /\ d \in 2 .. Len(t) /\ p + (d - 1) = a - 1 /\ p + (d - 2) = a - 2
          /\ d - 1 \in 1 .. Len(t)
          /\ d >= 3 => d - 2 \in 1 .. Len(t) /\ a >= 3
      BY <1>1, <1>3
    <2>2. \A i \in 1 .. Len(t) : t[i] = s[p + i]
      BY DEF Behind
    <2>3. Titled(t, d, k, n)
      BY <1>1
    <2> HIDE DEF d
    <2>4. t[d - 1] = NewLine
      <3>1. t[d - 1] = s[p + (d - 1)]
        BY <2>1, <2>2
      <3> QED BY <2>1, <3>1
    <2>5. d >= 3 => t[d - 2] = NewLine
      <3>1. d >= 3 => t[d - 2] = s[p + (d - 2)]
        BY <2>1, <2>2
      <3> QED BY <2>1, <3>1
    <2> QED BY <1>3, <2>1, <2>3, <2>4, <2>5 DEF TitleBehindBlank
  <1> QED BY <1>2, <1>3

LEMMA TitleStaysAhead ==
  ASSUME NEW s, Len(s) \in Nat, NEW t, Len(t) \in Nat, Len(s) <= Len(t),
         \A i \in 1 .. Len(s) : t[i] = s[i], NEW n
  PROVE  /\ TitleFirst(s, n) => TitleFirst(t, n)
         /\ TitleBehindBlank(s, n) => TitleBehindBlank(t, n)
  <1>1. ASSUME TitleFirst(s, n) PROVE TitleFirst(t, n)
    <2>1. PICK k \in Nat : Titled(s, 1, k, n)
      BY <1>1 DEF TitleFirst
    <2>2. 1 + 3 * k + 5 <= Len(s)
      BY <2>1, TitledEnds
    <2>3. /\ 1 + 3 * k + 5 <= Len(t) /\ 1 \in 1 .. Len(s)
          /\ \A i \in 1 .. 1 + 3 * k + 5 : t[i] = s[i]
      BY <2>2
    <2>4. Titled(t, 1, k, n)
      BY <2>1, <2>3, TitledAhead
    <2> QED BY <2>4 DEF TitleFirst
  <1>2. ASSUME TitleBehindBlank(s, n) PROVE TitleBehindBlank(t, n)
    <2>1. PICK a \in 2 .. Len(s), k \in Nat :
            Titled(s, a, k, n) /\ s[a - 1] = NewLine /\ (a >= 3 => s[a - 2] = NewLine)
      BY <1>2 DEF TitleBehindBlank
    <2>2. a + 3 * k + 5 <= Len(s)
      BY <2>1, TitledEnds
    <2>3. /\ a + 3 * k + 5 <= Len(t) /\ a \in 1 .. Len(s) /\ a \in 2 .. Len(t)
          /\ \A i \in 1 .. a + 3 * k + 5 : t[i] = s[i]
          /\ a - 1 \in 1 .. Len(s) /\ (a >= 3 => a - 2 \in 1 .. Len(s))
      BY <2>2
    <2>4. Titled(t, a, k, n)
      BY <2>1, <2>3, TitledAhead
    <2>5. t[a - 1] = NewLine /\ (a >= 3 => t[a - 2] = NewLine)
      BY <2>1, <2>3
    <2> QED BY <2>3, <2>4, <2>5 DEF TitleBehindBlank
  <1> QED BY <1>1, <1>2

\* A block that ends outside updates, and what is left, have the update whole.
LEMMA TitleCut ==
  ASSUME NEW s, Len(s) \in Nat, NEW t, NEW u, NEW p \in 1 .. Len(s),
         Ahead(s, t, p), Behind(s, u, p), s[p] = NewLine, ~InsideUpdate(s[p - 1]), NEW n
  PROVE  /\ TitleFirst(s, n) => TitleFirst(t, n)
         /\ TitleBehindBlank(s, n) =>
              TitleBehindBlank(t, n) \/ TitleBehindBlank(u, n) \/ TitleFirst(u, n)
  <1>1. Len(t) = p /\ Len(t) \in Nat /\ \A i \in 1 .. p : t[i] = s[i]
    BY DEF Ahead
  <1>2. ASSUME TitleFirst(s, n) PROVE TitleFirst(t, n)
    <2>1. PICK k \in Nat : Titled(s, 1, k, n)
      BY <1>2 DEF TitleFirst
    <2>2. p < 1 \/ p > 1 + 3 * k + 5
      BY <2>1, CutOutside
    <2>3. /\ 1 + 3 * k + 5 <= Len(t) /\ 1 \in 1 .. Len(s)
          /\ \A i \in 1 .. 1 + 3 * k + 5 : t[i] = s[i]
      BY <1>1, <2>2
    <2>4. Titled(t, 1, k, n)
      BY <1>1, <2>1, <2>3, TitledAhead
    <2> QED BY <2>4 DEF TitleFirst
  <1>3. ASSUME TitleBehindBlank(s, n)
        PROVE  TitleBehindBlank(t, n) \/ TitleBehindBlank(u, n) \/ TitleFirst(u, n)
    <2>1. PICK a \in 2 .. Len(s), k \in Nat :
            Titled(s, a, k, n) /\ s[a - 1] = NewLine /\ (a >= 3 => s[a - 2] = NewLine)
      BY <1>3 DEF TitleBehindBlank
    <2>2. p < a \/ p > a + 3 * k + 5
      BY <2>1, CutOutside
    <2>3. CASE p < a
      <3>1. p \in 0 .. Len(s) /\ a > p
        BY <2>3
      <3>2. IF a = p + 1 THEN TitleFirst(u, n) ELSE TitleBehindBlank(u, n)
        BY <2>1, <3>1, TitleStays
      <3> QED BY <3>2
    <2>4. CASE p > a + 3 * k + 5
      <3>1. /\ a + 3 * k + 5 <= Len(t) /\ a \in 1 .. Len(s) /\ a \in 2 .. Len(t)
            /\ \A i \in 1 .. a + 3 * k + 5 : t[i] = s[i]
            /\ a - 1 \in 1 .. p /\ (a >= 3 => a - 2 \in 1 .. p)
        BY <1>1, <2>4
      <3>2. Titled(t, a, k, n)
        BY <1>1, <2>1, <3>1, TitledAhead
      <3>3. t[a - 1] = NewLine /\ (a >= 3 => t[a - 2] = NewLine)
        BY <1>1, <2>1, <3>1
      <3>4. TitleBehindBlank(t, n)
        BY <3>1, <3>2, <3>3 DEF TitleBehindBlank
      <3> QED BY <3>4
    <2> QED BY <2>2, <2>3, <2>4
  <1> QED BY <1>2, <1>3

\* What an update tells is behind its title.
LEMMA UpdateTitled ==
  ASSUME NEW first \in Nat \ {0}, NEW count \in Nat, first + count - 1 <= MaxTold,
         NEW k \in Nat, k < count
  PROVE  Titled(Update(first, first + count - 1), 1, k, first + k)
  <1> DEFINE update == Update(first, first + count - 1)
  <1>1. /\ update \in Seq(Pieces) /\ Len(update) = 3 * count + 4
        /\ update[1] = Title /\ update[2] = Colon /\ update[3] = NewLine
        /\ update[3 * count + 4] = NewLine
        /\ \A j \in 1 .. count : /\ update[3 * j + 1] = Output(first + j - 1)
                                /\ update[3 * j + 2] = Input(first + j - 1)
                                /\ update[3 * j + 3] = NewLine
    BY UpdateShape
  <1> HIDE DEF update
  <1>2. ASSUME NEW j \in 0 .. k
        PROVE  /\ LineAt(update, 4 + 3 * j)
               /\ update[4 + 3 * j] = Output(first + j) /\ update[4 + 3 * j + 1] = Input(first + j)
    <2> DEFINE i == j + 1
    <2>1. /\ i \in 1 .. count /\ first + i - 1 = first + j /\ first + j \in 1 .. MaxTold
          /\ 3 * i + 1 = 4 + 3 * j /\ 3 * i + 2 = 4 + 3 * j + 1 /\ 3 * i + 3 = 4 + 3 * j + 2
          /\ 4 + 3 * j + 2 <= 3 * count + 4
      BY StreamAssumption
    <2> HIDE DEF i
    <2>2. /\ update[3 * i + 1] = Output(first + i - 1) /\ update[3 * i + 2] = Input(first + i - 1)
          /\ update[3 * i + 3] = NewLine
      BY <1>1, <2>1
    <2>3. /\ update[4 + 3 * j] = Output(first + j) /\ update[4 + 3 * j + 1] = Input(first + j)
          /\ update[4 + 3 * j + 2] = NewLine
      BY <2>1, <2>2
    <2> QED BY <1>1, <2>1, <2>3 DEF LineAt
  <1>3. Run(update, 4, k, first + k)
    <2>1. k \in 0 .. k
      OBVIOUS
    <2> QED BY <1>2, <2>1 DEF Run
  <1>4. Titled(update, 1, k, first + k)
    BY <1>1, <1>3 DEF Titled
  <1> QED BY <1>4 DEF update

\* Text behind text that ends with a blank line.
LEMMA TitleJoins ==
  ASSUME NEW s \in Seq(Pieces), BlankAtEnd(s), NEW u \in Seq(Pieces),
         NEW k \in Nat, NEW n, Titled(u, 1, k, n)
  PROVE  IF s = << >> THEN TitleFirst(s \o u, n) ELSE TitleBehindBlank(s \o u, n)
  <1> DEFINE t == s \o u
  <1>1. /\ Len(t) = Len(s) + Len(u) /\ Len(s) \in Nat /\ Len(u) \in Nat
        /\ \A i \in 1 .. Len(s) : t[i] = s[i]
        /\ \A i \in 1 .. Len(u) : t[Len(s) + i] = u[i]
    BY ConcatAt
  <1> SUFFICES IF s = << >> THEN TitleFirst(t, n) ELSE TitleBehindBlank(t, n)
    OBVIOUS
  <1> HIDE DEF t
  <1> DEFINE a == Len(s) + 1
  <1>2. 1 + 3 * k + 5 <= Len(u)
    BY TitledEnds
  <1>3. a \in Nat /\ a + 3 * k + 5 <= Len(t)
    BY <1>1, <1>2
  <1>4. \A i \in 0 .. 3 * k + 5 : t[a + i] = u[1 + i]
    <2> SUFFICES ASSUME NEW i \in 0 .. 3 * k + 5 PROVE t[a + i] = u[1 + i]
      OBVIOUS
    <2>1. 1 + i \in 1 .. Len(u) /\ a + i = Len(s) + (1 + i)
      BY <1>1, <1>2
    <2>2. t[Len(s) + (1 + i)] = u[1 + i]
      BY <1>1, <2>1
    <2> QED BY <2>1, <2>2
  <1> HIDE DEF a
  <1>5. Titled(t, a, k, n)
    <2>1. Len(t) \in Nat
      BY <1>1
    <2> QED BY <1>3, <1>4, <2>1, TitledMoves
  <1>6. CASE s = << >>
    <2>1. a = 1
      BY <1>6 DEF a
    <2> QED BY <1>5, <1>6, <2>1 DEF TitleFirst
  <1>7. CASE s # << >>
    <2>1. Len(s) >= 1 /\ a = Len(s) + 1
      BY <1>1, <1>7 DEF a
    <2>2. /\ a \in 2 .. Len(t) /\ a - 1 = Len(s) /\ Len(s) \in 1 .. Len(s)
          /\ a >= 3 => a - 2 = Len(s) - 1 /\ Len(s) - 1 \in 1 .. Len(s) /\ Len(s) >= 2
      BY <1>1, <1>3, <2>1
    <2>3. t[a - 1] = NewLine
      BY <1>1, <2>1, <2>2 DEF BlankAtEnd
    <2>4. a >= 3 => t[a - 2] = NewLine
      BY <1>1, <2>1, <2>2 DEF BlankAtEnd
    <2>5. TitleBehindBlank(t, n)
      BY <1>5, <2>2, <2>3, <2>4 DEF TitleBehindBlank
    <2> QED BY <1>7, <2>5
  <1> QED BY <1>6, <1>7

\* The lines before a title leave it behind a blank line, or are the blank line.
LEMMA TitleComes ==
  ASSUME text \in Seq(Pieces), NextLine, NEW n, TitleBehindBlank(text, n)
  PROVE  /\ FirstNewLine # 0
         /\ TitleBehindBlank(text', n) \/ (TitleFirst(text', n) /\ Line = << >>)
  <1>1. PICK a \in 2 .. Len(text), k \in Nat :
          Titled(text, a, k, n) /\ text[a - 1] = NewLine /\ (a >= 3 => text[a - 2] = NewLine)
    BY DEF TitleBehindBlank
  <1>2. Len(text) \in Nat /\ a - 1 \in 1 .. Len(text) /\ (a >= 3 => a - 2 \in 1 .. Len(text))
    OBVIOUS
  <1> DEFINE f == FirstNewLine
  <1>3. f # 0 /\ f \in 0 .. Len(text)
    BY <1>1, <1>2, LineIs
  <1>4. /\ Ahead(text, Line, f - 1) /\ \A i \in 1 .. f - 1 : text[i] # NewLine
        /\ Behind(text, text', f)
    BY <1>3, LineIs, BehindLine
  <1> HIDE DEF f
  <1>5. a > f
    <2>1. ~(a - 1 \in 1 .. f - 1)
      BY <1>1, <1>4
    <2> QED BY <1>2, <1>3, <2>1
  <1>6. a = f + 1 => f = 1
    <2>1. a >= 3 => ~(a - 2 \in 1 .. f - 1)
      BY <1>1, <1>4
    <2> QED BY <1>2, <1>3, <2>1
  <1>7. IF a = f + 1 THEN TitleFirst(text', n) ELSE TitleBehindBlank(text', n)
    BY <1>1, <1>2, <1>3, <1>4, <1>5, TitleStays
  <1>8. f = 1 => Line = << >>
    <2>1. f = 1 => Len(Line) = 0
      BY <1>4 DEF Ahead
    <2>2. Line \in Seq(Pieces)
      BY LineSplit
    <2> QED BY <2>1, <2>2
  <1> QED BY <1>3, <1>6, <1>7, <1>8 DEF f

\* The title is taken as one, and the lines behind it are next.
LEMMA TitleTaken ==
  ASSUME text \in Seq(Pieces), NextLine, NEW n, TitleFirst(text, n)
  PROVE  FirstNewLine # 0 /\ IsTitle(Line) /\ InRun(text', n)
  <1>1. PICK k \in Nat : Titled(text, 1, k, n)
    BY DEF TitleFirst
  <1>2. 1 + 3 * k + 5 <= Len(text) /\ Len(text) \in Nat
    BY <1>1, TitledEnds
  <1>3. text[1] = Title /\ text[2] = Colon /\ text[3] = NewLine /\ Run(text, 4, k, n)
    BY <1>1 DEF Titled
  <1> DEFINE f == FirstNewLine
  <1>4. f # 0 /\ f \in 0 .. Len(text) /\ text[f] = NewLine
    <2>1. 3 \in 1 .. Len(text)
      BY <1>2
    <2> QED BY <1>3, <2>1, LineIs
  <1>5. /\ Ahead(text, Line, f - 1) /\ Behind(text, text', f)
        /\ \A i \in 1 .. f - 1 : text[i] # NewLine
    BY <1>4, LineIs, BehindLine
  <1> HIDE DEF f
  <1>6. f = 3
    <2>1. f # 1 /\ f # 2
      BY <1>3, <1>4, NewLineIsNone
    <2>2. ~(3 \in 1 .. f - 1)
      BY <1>3, <1>5
    <2> QED BY <1>2, <1>4, <2>1, <2>2
  <1>7. IsTitle(Line)
    BY <1>3, <1>5, <1>6 DEF Ahead, IsTitle
  <1>8. Run(text', 1, k, n)
    <2>1. Len(text') = Len(text) - 3 /\ \A i \in 1 .. Len(text') : text'[i] = text[3 + i]
      BY <1>5, <1>6 DEF Behind
    <2>2. 1 + 3 * k + 2 <= Len(text') /\ Len(text') \in Nat
      BY <1>2, <2>1
    <2>3. \A i \in 0 .. 3 * k + 2 : text'[1 + i] = text[4 + i]
      <3> SUFFICES ASSUME NEW i \in 0 .. 3 * k + 2 PROVE text'[1 + i] = text[4 + i]
        OBVIOUS
      <3>1. 1 + i \in 1 .. Len(text') /\ 3 + (1 + i) = 4 + i
        BY <2>2
      <3>2. text'[1 + i] = text[3 + (1 + i)]
        BY <2>1, <3>1
      <3> QED BY <3>1, <3>2
    <2> QED BY <1>3, <2>2, <2>3, RunMoves
  <1> QED BY <1>4, <1>7, <1>8 DEF InRun, f

\* A line of the update is taken for what it says; the others are next.
LEMMA RunTaken ==
  ASSUME text \in Seq(Pieces), NextLine, NEW n, InRun(text, n)
  PROVE  /\ FirstNewLine # 0 /\ Line # << >>
         /\ Line = << Output(n), Input(n) >> \/ InRun(text', n)
  <1>1. PICK k \in Nat : Run(text, 1, k, n)
    BY DEF InRun
  <1>2. 1 + 3 * k + 2 <= Len(text) /\ Len(text) \in Nat
    <2>1. 1 + 3 * k + 2 <= Len(text)
      BY <1>1, RunEnds
    <2> QED BY <2>1
  <1>3. LineAt(text, 1)
    <2>1. 0 \in 0 .. k /\ 1 + 3 * 0 = 1
      OBVIOUS
    <2>2. LineAt(text, 1 + 3 * 0)
      BY <1>1, <2>1 DEF Run
    <2> QED BY <2>1, <2>2
  <1>4. PICK m \in 1 .. MaxTold : text[1] = Output(m) /\ text[2] = Input(m)
    BY <1>3 DEF LineAt
  <1>5. text[3] = NewLine
    BY <1>3 DEF LineAt
  <1> DEFINE f == FirstNewLine
  <1>6. f # 0 /\ f \in 0 .. Len(text) /\ text[f] = NewLine
    <2>1. 3 \in 1 .. Len(text)
      BY <1>2
    <2> QED BY <1>5, <2>1, LineIs
  <1>7. /\ Ahead(text, Line, f - 1) /\ Behind(text, text', f)
        /\ \A i \in 1 .. f - 1 : text[i] # NewLine
    BY <1>6, LineIs, BehindLine
  <1> HIDE DEF f
  <1>8. f = 3
    <2>1. f # 1 /\ f # 2
      BY <1>4, <1>6, NewLineIsNone
    <2>2. ~(3 \in 1 .. f - 1)
      BY <1>5, <1>7
    <2> QED BY <1>2, <1>6, <2>1, <2>2
  <1>9. Len(Line) = 2 /\ Line[1] = text[1] /\ Line[2] = text[2] /\ Line \in Seq(Pieces)
    <2>1. Line \in Seq(Pieces)
      BY LineSplit
    <2> QED BY <1>7, <1>8, <2>1 DEF Ahead
  <1>10. CASE k = 0
    <2>1. 1 + 3 * k = 1
      BY <1>10
    <2>2. text[1] = Output(n) /\ text[2] = Input(n)
      BY <1>1, <2>1 DEF Run
    <2>3. Line = << Output(n), Input(n) >>
      BY <1>9, <2>2
    <2> QED BY <1>6, <2>3 DEF f
  <1>11. CASE k # 0
    <2> DEFINE l == k - 1
    <2>1. l \in Nat /\ 4 + 3 * l = 1 + 3 * k
      BY <1>11
    <2>2. ASSUME NEW j \in 0 .. l PROVE LineAt(text, 4 + 3 * j)
      <3>1. j + 1 \in 0 .. k /\ 1 + 3 * (j + 1) = 4 + 3 * j
        OBVIOUS
      <3>2. LineAt(text, 1 + 3 * (j + 1))
        BY <1>1, <3>1 DEF Run
      <3> QED BY <3>1, <3>2
    <2> HIDE DEF l
    <2>3. Run(text, 4, l, n)
      <3>1. text[1 + 3 * k] = Output(n) /\ text[1 + 3 * k + 1] = Input(n)
        BY <1>1 DEF Run
      <3> QED BY <2>1, <2>2, <3>1 DEF Run
    <2>4. Len(text') = Len(text) - 3 /\ \A i \in 1 .. Len(text') : text'[i] = text[3 + i]
      BY <1>7, <1>8 DEF Behind
    <2>5. 1 + 3 * l + 2 <= Len(text') /\ Len(text') \in Nat
      BY <1>2, <2>1, <2>4
    <2>6. \A i \in 0 .. 3 * l + 2 : text'[1 + i] = text[4 + i]
      <3> SUFFICES ASSUME NEW i \in 0 .. 3 * l + 2 PROVE text'[1 + i] = text[4 + i]
        OBVIOUS
      <3>1. 1 + i \in 1 .. Len(text') /\ 3 + (1 + i) = 4 + i
        BY <2>1, <2>5
      <3>2. text'[1 + i] = text[3 + (1 + i)]
        BY <2>4, <3>1
      <3> QED BY <3>1, <3>2
    <2>7. Run(text', 1, l, n)
      BY <2>1, <2>3, <2>5, <2>6, RunMoves
    <2>8. Line # << >>
      <3>1. Len(<< >>) # 2
        OBVIOUS
      <3> QED BY <1>9, <3>1
    <2> QED BY <1>6, <2>1, <2>7, <2>8 DEF InRun, f
  <1> QED BY <1>10, <1>11

EndsLine(s) == Len(s) >= 1 => s[Len(s)] = NewLine

LEMMA LineClean ==
  ASSUME text \in Seq(Pieces), NextLine, EndsLine(text)
  PROVE  IF FirstNewLine = 0 THEN Line = << >> ELSE EndsLine(text')
  <1>1. Len(text) \in Nat
    OBVIOUS
  <1>2. CASE FirstNewLine = 0
    <2>1. Line = text /\ \A i \in 1 .. Len(text) : text[i] # NewLine
      BY <1>2, LineIs
    <2>2. ~(Len(text) \in 1 .. Len(text))
      BY <1>1, <2>1 DEF EndsLine
    <2>3. Len(text) = 0
      BY <1>1, <2>2
    <2> QED BY <1>2, <2>1, <2>3
  <1>3. CASE FirstNewLine # 0
    <2> DEFINE f == FirstNewLine
    <2>1. Behind(text, text', f)
      BY <1>3, BehindLine
    <2> HIDE DEF f
    <2>2. f \in 0 .. Len(text) /\ Len(text') = Len(text) - f
          /\ \A i \in 1 .. Len(text') : text'[i] = text[f + i]
      BY <2>1 DEF Behind
    <2>3. Len(text') >= 1 => /\ Len(text') \in 1 .. Len(text') /\ f + Len(text') = Len(text)
                            /\ Len(text) >= 1
      BY <1>1, <2>2
    <2>4. Len(text') >= 1 => text'[Len(text')] = text[f + Len(text')]
      BY <2>2, <2>3
    <2>5. EndsLine(text')
      BY <2>3, <2>4 DEF EndsLine
    <2> QED BY <1>3, <2>5
  <1> QED BY <1>2, <1>3
-----------------------------------------------------------------------------
(* What of a confirmation is where.                                        *)

\* The text of tcp_recv_task and the queued blocks end with a line: the one
\* that block k of the queue begins with is new.
ParserClean == IF parsing THEN EndsLine(text) ELSE state = "WAIT"

CleanBefore(k) ==
  IF k = 1 THEN ParserClean ELSE EndsLine(ethernet_message_input_queue[k - 1])

RestClean == CleanBefore(Len(ethernet_message_input_queue) + 1)

Unreceived(n) == TitleBehindBlank(Rest, n) \/ (TitleFirst(Rest, n) /\ RestClean)

Queued(n) ==
  \E k \in 1 .. Len(ethernet_message_input_queue) :
    \/ TitleBehindBlank(ethernet_message_input_queue[k], n)
    \/ TitleFirst(ethernet_message_input_queue[k], n) /\ CleanBefore(k)

Parsed(n) ==
  /\ parsing
  /\ \/ TitleBehindBlank(text, n)
     \/ TitleFirst(text, n) /\ state = "WAIT"
     \/ InRun(text, n) /\ state = "IN_UPDATE"

OnItsWay(n) == Unreceived(n) \/ Queued(n) \/ Parsed(n)

NoLineKept == \A i \in 1 .. Len(partial_line_buffer) : partial_line_buffer[i] # NewLine

Complete ==
  conn = "open" /\ ~cut /\ ~dropped =>
    /\ BlankAtEnd(Rest)
    /\ RestClean \/ Len(Rest) >= 2
    /\ \A n \in base + 1 .. told : n \in ToSet(heard) \/ OnItsWay(n)

CompleteInv == TypeOK /\ NoLineKept /\ Complete

\* What is in a block in one state is in it in the next.
LEMMA TextPrimed ==
  /\ \A n : TitleBehindBlank(text', n) <=> TitleBehindBlank(text, n)'
  /\ \A n : TitleFirst(text', n) <=> TitleFirst(text, n)'
  /\ \A n : InRun(text', n) <=> InRun(text, n)'
  /\ EndsLine(text') <=> EndsLine(text)'
  BY DEF TitleBehindBlank, TitleFirst, InRun, Titled, Run, LineAt, EndsLine

LEMMA RestPrimed ==
  /\ \A n : TitleBehindBlank(Rest', n) <=> TitleBehindBlank(Rest, n)'
  /\ \A n : TitleFirst(Rest', n) <=> TitleFirst(Rest, n)'
  /\ BlankAtEnd(Rest') <=> BlankAtEnd(Rest)'
  BY DEF TitleBehindBlank, TitleFirst, Titled, Run, LineAt, BlankAtEnd

LEMMA QueuePrimed ==
  /\ \A k \in Nat : \A n : TitleBehindBlank(ethernet_message_input_queue'[k], n)
                        <=> TitleBehindBlank(ethernet_message_input_queue[k], n)'
  /\ \A k \in Nat : \A n : TitleFirst(ethernet_message_input_queue'[k], n)
                        <=> TitleFirst(ethernet_message_input_queue[k], n)'
  /\ \A k \in Nat : EndsLine(ethernet_message_input_queue'[k])
                     <=> EndsLine(ethernet_message_input_queue[k])'
  BY DEF TitleBehindBlank, TitleFirst, Titled, Run, LineAt, EndsLine

LEMMA SkipParsed ==
  ASSUME TextTypes, OtherTypes, SkipLine, NEW n, Parsed(n) PROVE Parsed(n)'
  <1>1. /\ text \in Seq(Pieces) /\ NextLine /\ state' = StateAfter(Line)
        /\ state = "IN_UPDATE" => Line = << >>
    BY DEF TextTypes, SkipLine
  <1>2. parsing' = (FirstNewLine # 0)
    BY <1>1, BehindLine
  <1>3. CASE TitleBehindBlank(text, n)
    <2>1. FirstNewLine # 0
      BY <1>1, <1>3, TitleComes
    <2>2. CASE TitleBehindBlank(text', n)
      BY <1>2, <2>1, <2>2, TextPrimed DEF Parsed
    <2>3. CASE TitleFirst(text', n) /\ Line = << >>
      <3>1. ~IsTitle(Line)
        BY <2>3 DEF IsTitle
      <3>2. state' = "WAIT"
        <4>1. state = "UNKNOWN" \/ state = "WAIT" \/ state = "IN_UPDATE"
          BY DEF OtherTypes
        <4>2. ~IsTitle(Line) /\ Line = << >> /\ state' = StateAfter(Line)
          BY <1>1, <2>3, <3>1
        <4> QED BY <4>1, <4>2 DEF StateAfter
      <3> QED BY <1>2, <2>1, <2>3, <3>2, TextPrimed DEF Parsed
    <2> QED BY <1>1, <1>3, <2>2, <2>3, TitleComes
  <1>4. CASE TitleFirst(text, n) /\ state = "WAIT"
    <2>1. FirstNewLine # 0 /\ IsTitle(Line) /\ InRun(text', n)
      BY <1>1, <1>4, TitleTaken
    <2>2. state' = "IN_UPDATE"
      BY <1>1, <1>4, <2>1 DEF StateAfter
    <2> QED BY <1>2, <2>1, <2>2, TextPrimed DEF Parsed
  <1>5. CASE InRun(text, n) /\ state = "IN_UPDATE"
    BY <1>1, <1>5, RunTaken
  <1> QED BY <1>3, <1>4, <1>5 DEF Parsed

LEMMA PostParsed ==
  ASSUME TextTypes, PostLine, NEW n, Parsed(n)
  PROVE  Line = << Output(n), Input(n) >> \/ Parsed(n)'
  <1>1. /\ text \in Seq(Pieces) /\ NextLine /\ state = "IN_UPDATE" /\ state' = state
        /\ Line # << >>
    BY DEF TextTypes, PostLine
  <1>2. parsing' = (FirstNewLine # 0)
    BY <1>1, BehindLine
  <1>3. CASE TitleBehindBlank(text, n)
    <2>1. FirstNewLine # 0 /\ TitleBehindBlank(text', n)
      BY <1>1, <1>3, TitleComes
    <2> QED BY <1>2, <2>1, TextPrimed DEF Parsed
  <1>4. CASE InRun(text, n)
    <2>1. FirstNewLine # 0 /\ (Line = << Output(n), Input(n) >> \/ InRun(text', n))
      BY <1>1, <1>4, RunTaken
    <2> QED BY <1>1, <1>2, <2>1, TextPrimed DEF Parsed
  <1> QED BY <1>1, <1>3, <1>4 DEF Parsed

LEMMA SkipClean ==
  ASSUME TextTypes, OtherTypes, SkipLine, NEW k, CleanBefore(k) PROVE CleanBefore(k)'
  <1>1. /\ text \in Seq(Pieces) /\ NextLine /\ state' = StateAfter(Line) /\ parsing
        /\ UNCHANGED ethernet_message_input_queue
    BY DEF TextTypes, SkipLine
  <1>2. parsing' = (FirstNewLine # 0)
    BY <1>1, BehindLine
  <1>3. CASE k = 1
    <2>1. IF FirstNewLine = 0 THEN Line = << >> ELSE EndsLine(text')
      BY <1>1, <1>3, LineClean DEF CleanBefore, ParserClean
    <2>2. Line = << >> => state' = "WAIT"
      <3>1. ~IsTitle(<< >>)
        BY DEF IsTitle
      <3>2. state = "UNKNOWN" \/ state = "WAIT" \/ state = "IN_UPDATE"
        BY DEF OtherTypes
      <3> QED BY <1>1, <3>1, <3>2 DEF StateAfter
    <2>3. ParserClean'
      BY <1>2, <2>1, <2>2, TextPrimed DEF ParserClean
    <2> QED BY <1>3, <2>3 DEF CleanBefore
  <1>4. CASE k # 1
    BY <1>1, <1>4 DEF CleanBefore, EndsLine
  <1> QED BY <1>3, <1>4

LEMMA PostClean ==
  ASSUME TextTypes, PostLine, NEW k, CleanBefore(k) PROVE CleanBefore(k)'
  <1>1. /\ text \in Seq(Pieces) /\ NextLine /\ Line # << >> /\ parsing
        /\ UNCHANGED ethernet_message_input_queue
    BY DEF TextTypes, PostLine
  <1>2. parsing' = (FirstNewLine # 0)
    BY <1>1, BehindLine
  <1>3. CASE k = 1
    <2>1. FirstNewLine # 0 /\ EndsLine(text')
      BY <1>1, <1>3, LineClean DEF CleanBefore, ParserClean
    <2>2. ParserClean'
      BY <1>2, <2>1, TextPrimed DEF ParserClean
    <2> QED BY <1>3, <2>2 DEF CleanBefore
  <1>4. CASE k # 1
    BY <1>1, <1>4 DEF CleanBefore, EndsLine
  <1> QED BY <1>3, <1>4

\* What tcp_recv_task does not have yet stays as it is while it reads a line.
LEMMA QueuedStays ==
  ASSUME UNCHANGED ethernet_message_input_queue, \A k : CleanBefore(k) => CleanBefore(k)'
  PROVE  /\ RestClean => RestClean'
         /\ \A n : Queued(n) => Queued(n)'
  <1>1. RestClean => RestClean'
    BY DEF RestClean, CleanBefore
  <1>2. ASSUME NEW n, Queued(n) PROVE Queued(n)'
    <2>1. PICK k \in 1 .. Len(ethernet_message_input_queue) :
            \/ TitleBehindBlank(ethernet_message_input_queue[k], n)
            \/ TitleFirst(ethernet_message_input_queue[k], n) /\ CleanBefore(k)
      BY <1>2 DEF Queued
    <2>2. CleanBefore(k) => CleanBefore(k)'
      OBVIOUS
    <2>3. k \in Nat /\ k \in 1 .. Len(ethernet_message_input_queue')
      OBVIOUS
    <2>4. \/ TitleBehindBlank(ethernet_message_input_queue[k], n)'
          \/ TitleFirst(ethernet_message_input_queue[k], n)' /\ CleanBefore(k)'
      BY <2>1, <2>2, <2>3, QueuePrimed
    <2> QED BY <2>3, <2>4 DEF Queued
  <1> QED BY <1>1, <1>2

LEMMA OthersStay ==
  ASSUME UNCHANGED << ethernet_message_input_queue, partial_line_buffer, wire >>,
         \A k : CleanBefore(k) => CleanBefore(k)'
  PROVE  /\ \A n : Unreceived(n) \/ Queued(n) => (Unreceived(n) \/ Queued(n))'
         /\ BlankAtEnd(Rest) => BlankAtEnd(Rest)'
         /\ RestClean \/ Len(Rest) >= 2 => (RestClean \/ Len(Rest) >= 2)'
  <1>1. Rest' = Rest
    BY DEF Rest
  <1>2. (RestClean => RestClean') /\ \A n : Queued(n) => Queued(n)'
    BY QueuedStays
  <1>3. ASSUME NEW n, Unreceived(n) PROVE Unreceived(n)'
    BY <1>1, <1>2, <1>3, RestPrimed DEF Unreceived
  <1>4. BlankAtEnd(Rest) => BlankAtEnd(Rest)'
    BY <1>1, RestPrimed
  <1>5. Len(Rest) >= 2 => (Len(Rest) >= 2)'
    BY <1>1
  <1> QED BY <1>2, <1>3, <1>4, <1>5

LEMMA SkipComplete ==
  ASSUME TypeOK, Complete, SkipLine PROVE Complete'
  <1>1. TextTypes /\ OtherTypes
    BY TypeParts
  <1>2. /\ UNCHANGED << ethernet_message_input_queue, partial_line_buffer, wire >>
        /\ UNCHANGED << conn, cut, dropped, base, told, heard >>
    BY DEF SkipLine, clientVars, history
  <1>3. \A k : CleanBefore(k) => CleanBefore(k)'
    BY <1>1, SkipClean
  <1>4. /\ \A n : Unreceived(n) \/ Queued(n) => (Unreceived(n) \/ Queued(n))'
        /\ BlankAtEnd(Rest) => BlankAtEnd(Rest)'
        /\ RestClean \/ Len(Rest) >= 2 => (RestClean \/ Len(Rest) >= 2)'
    BY <1>2, <1>3, OthersStay
  <1>5. \A n : OnItsWay(n) => OnItsWay(n)'
    BY <1>1, <1>4, SkipParsed DEF OnItsWay
  <1> QED BY <1>2, <1>4, <1>5 DEF Complete

LEMMA HeardGrows ==
  ASSUME NEW S, NEW s \in Seq(S), NEW n \in S
  PROVE  n \in ToSet(Append(s, n)) /\ ToSet(s) \subseteq ToSet(Append(s, n))
  <1> DEFINE t == Append(s, n)
  <1>1. /\ DOMAIN s = 1 .. Len(s) /\ DOMAIN t = 1 .. Len(s) + 1 /\ Len(s) \in Nat
        /\ t[Len(s) + 1] = n /\ \A i \in 1 .. Len(s) : t[i] = s[i]
    OBVIOUS
  <1>2. Len(s) + 1 \in DOMAIN t /\ DOMAIN s \subseteq DOMAIN t
    BY <1>1
  <1> HIDE DEF t
  <1>3. n \in ToSet(t)
    BY <1>1, <1>2 DEF ToSet
  <1>4. ToSet(s) \subseteq ToSet(t)
    BY <1>1, <1>2 DEF ToSet
  <1> QED BY <1>3, <1>4 DEF t

LEMMA PostComplete ==
  ASSUME TypeOK, Complete, PostLine PROVE Complete'
  <1>1. TextTypes /\ OtherTypes
    BY TypeParts
  <1>2. /\ UNCHANGED << ethernet_message_input_queue, partial_line_buffer, wire >>
        /\ UNCHANGED << conn, cut, base, told >>
    BY DEF PostLine, clientVars
  <1>3. \A k : CleanBefore(k) => CleanBefore(k)'
    BY <1>1, PostClean
  <1>4. /\ \A n : Unreceived(n) \/ Queued(n) => (Unreceived(n) \/ Queued(n))'
        /\ BlankAtEnd(Rest) => BlankAtEnd(Rest)'
        /\ RestClean \/ Len(Rest) >= 2 => (RestClean \/ Len(Rest) >= 2)'
    BY <1>2, <1>3, OthersStay
  <1> DEFINE posted == ~QueueFull(input_event_queue, InputQueueLen)
  <1>5. /\ heard' = IF posted /\ Confirmed(Line) # 0 THEN Append(heard, Confirmed(Line)) ELSE heard
        /\ dropped' = (dropped \/ ~posted)
    BY DEF PostLine
  <1> HIDE DEF posted
  <1>6. ToSet(heard) \subseteq ToSet(heard')
    <2>1. Confirmed(Line) # 0 => Confirmed(Line) \in 1 .. MaxTold
      BY ConfirmedLine
    <2> QED BY <1>1, <1>5, <2>1, HeardGrows DEF OtherTypes
  <1>7. ASSUME NEW n \in 1 .. MaxTold, Line = << Output(n), Input(n) >>, posted
        PROVE  n \in ToSet(heard')
    <2>1. Line[1][2] = n
      BY <1>7 DEF Output
    <2>2. Confirmed(Line) = n /\ n # 0
      BY <1>7, <2>1 DEF Confirmed
    <2>3. heard' = Append(heard, n)
      BY <1>5, <1>7, <2>2
    <2> QED BY <1>1, <2>3, HeardGrows DEF OtherTypes
  <1>8. SUFFICES ASSUME conn = "open", ~cut, ~dropped, posted,
                        NEW n \in base + 1 .. told, n \notin ToSet(heard')
                 PROVE  OnItsWay(n)'
    BY <1>2, <1>4, <1>5 DEF Complete
  <1>9. OnItsWay(n) /\ n \in 1 .. MaxTold
    BY <1>1, <1>6, <1>8, StreamAssumption DEF Complete, OtherTypes
  <1>10. Parsed(n) => Parsed(n)'
    BY <1>1, <1>7, <1>8, <1>9, PostParsed
  <1> QED BY <1>4, <1>9, <1>10 DEF OnItsWay

\* The block taken is the one whose beginning tcp_recv_task is ready for.
LEMMA TakeComplete ==
  ASSUME TypeOK, Complete, TakeBlock PROVE Complete'
  <1> DEFINE q == ethernet_message_input_queue
  <1>1. /\ TextTypes /\ OtherTypes /\ q \in Seq(Seq(Pieces)) /\ q # << >>
        /\ ~parsing /\ parsing' /\ text' = Head(q) /\ q' = Tail(q) /\ state' = state
        /\ Rest' = Rest
    BY TypeParts DEF TakeBlock, TextTypes, clientVars, Rest
  <1>2. /\ Len(q) \in Nat \ {0} /\ Len(q') = Len(q) - 1 /\ text' = q[1]
        /\ \A k \in 1 .. Len(q') : q'[k] = q[k + 1]
    BY <1>1
  <1> HIDE DEF q
  <1>3. ASSUME NEW k \in 1 .. Len(q), CleanBefore(k + 1) PROVE CleanBefore(k)'
    <2>1. EndsLine(q[k])
      <3>1. k + 1 # 1 /\ (k + 1) - 1 = k
        OBVIOUS
      <3> QED BY <1>3, <3>1 DEF CleanBefore, q
    <2>2. CASE k = 1
      BY <1>1, <1>2, <2>1, <2>2, TextPrimed DEF CleanBefore, ParserClean
    <2>3. CASE k # 1
      <3>1. k - 1 \in 1 .. Len(q') /\ (k - 1) + 1 = k /\ k - 1 \in Nat
        BY <1>2, <2>3
      <3>2. q'[k - 1] = q[k]
        BY <1>2, <3>1
      <3>3. EndsLine(q'[k - 1])
        BY <2>1, <3>2
      <3>4. EndsLine(q[k - 1])'
        BY <3>1, <3>3, QueuePrimed DEF q
      <3> QED BY <2>3, <3>4 DEF CleanBefore, q
    <2> QED BY <2>2, <2>3
  <1>4. RestClean => RestClean'
    <2>1. Len(q) \in 1 .. Len(q) /\ Len(q') + 1 = Len(q)
      BY <1>2
    <2>2. PICK l \in 1 .. Len(q) : l = Len(q)
      BY <2>1
    <2>3. RestClean => CleanBefore(l + 1)
      BY <2>2 DEF RestClean, q
    <2>4. RestClean => CleanBefore(l)'
      BY <1>3, <2>3
    <2>5. CleanBefore(l)' => RestClean'
      BY <2>1, <2>2 DEF RestClean, CleanBefore, q
    <2> QED BY <2>4, <2>5
  <1>5. ASSUME NEW n, OnItsWay(n) PROVE OnItsWay(n)'
    <2>1. CASE Unreceived(n)
      BY <1>1, <1>4, <2>1, RestPrimed DEF Unreceived, OnItsWay
    <2>2. CASE Queued(n)
      <3>1. PICK k \in 1 .. Len(q) :
              TitleBehindBlank(q[k], n) \/ (TitleFirst(q[k], n) /\ CleanBefore(k))
        BY <2>2 DEF Queued, q
      <3>2. CASE k = 1
        <4>1. TitleBehindBlank(text', n) \/ (TitleFirst(text', n) /\ state' = "WAIT")
          BY <1>1, <1>2, <3>1, <3>2 DEF CleanBefore, ParserClean
        <4>2. Parsed(n)'
          BY <1>1, <4>1, TextPrimed DEF Parsed
        <4> QED BY <4>2 DEF OnItsWay
      <3>3. CASE k # 1
        <4> DEFINE j == k - 1
        <4>1. j \in 1 .. Len(q') /\ j \in 1 .. Len(q) /\ j + 1 = k /\ j \in Nat
          BY <1>2, <3>3
        <4> HIDE DEF j
        <4>2. q'[j] = q[k]
          BY <1>2, <4>1
        <4>3. CleanBefore(k) => CleanBefore(j)'
          BY <1>3, <4>1
        <4>4. TitleBehindBlank(q'[j], n) \/ (TitleFirst(q'[j], n) /\ CleanBefore(j)')
          BY <3>1, <4>2, <4>3
        <4>5. TitleBehindBlank(q[j], n)' \/ (TitleFirst(q[j], n)' /\ CleanBefore(j)')
          BY <4>1, <4>4, QueuePrimed DEF q
        <4>6. Queued(n)'
          BY <4>1, <4>5 DEF Queued, q
        <4> QED BY <4>6 DEF OnItsWay
      <3> QED BY <3>2, <3>3
    <2>3. CASE Parsed(n)
      BY <1>1, <2>3 DEF Parsed
    <2> QED BY <1>5, <2>1, <2>2, <2>3 DEF OnItsWay
  <1>6. /\ BlankAtEnd(Rest) => BlankAtEnd(Rest)'
        /\ RestClean \/ Len(Rest) >= 2 => (RestClean \/ Len(Rest) >= 2)'
    BY <1>1, <1>4, RestPrimed
  <1>7. UNCHANGED << conn, cut, dropped, base, told, heard >>
    BY DEF TakeBlock, clientVars, history
  <1> QED BY <1>5, <1>6, <1>7 DEF Complete

\* A block more in the queue.
LEMMA QueueGrowsComplete ==
  ASSUME ethernet_message_input_queue \in Seq(Seq(Pieces)), NEW block \in Seq(Pieces),
         ethernet_message_input_queue' = Append(ethernet_message_input_queue, block),
         UNCHANGED << parsing, text, state >>, EndsLine(block)
  PROVE  /\ RestClean'
         /\ \A n : Queued(n) \/ Parsed(n) => (Queued(n) \/ Parsed(n))'
         /\ \A n : TitleBehindBlank(block, n) \/ (TitleFirst(block, n) /\ RestClean) => Queued(n)'
  <1> DEFINE q == ethernet_message_input_queue
  <1>1. /\ Len(q) \in Nat /\ Len(q') = Len(q) + 1 /\ q'[Len(q) + 1] = block
        /\ \A k \in 1 .. Len(q) : q'[k] = q[k]
    OBVIOUS
  <1> HIDE DEF q
  <1>2. PICK l \in 1 .. Len(q') : l = Len(q) + 1 /\ l = Len(q') /\ q'[l] = block
    BY <1>1
  <1>3. ASSUME NEW k \in 1 .. l, CleanBefore(k) PROVE CleanBefore(k)'
    <2>1. CASE k = 1
      BY <1>3, <2>1 DEF CleanBefore, ParserClean, EndsLine
    <2>2. CASE k # 1
      <3>1. k - 1 \in 1 .. Len(q) /\ k - 1 \in Nat
        BY <1>1, <1>2, <2>2
      <3>2. EndsLine(q[k - 1]) /\ q'[k - 1] = q[k - 1]
        BY <1>1, <1>3, <2>2, <3>1 DEF CleanBefore, q
      <3>3. EndsLine(q'[k - 1])
        BY <3>2
      <3>4. EndsLine(q[k - 1])'
        BY <3>1, <3>3, QueuePrimed DEF q
      <3> QED BY <2>2, <3>4 DEF CleanBefore, q
    <2> QED BY <2>1, <2>2
  <1>4. RestClean'
    <2>1. EndsLine(q'[Len(q')]) /\ Len(q') + 1 # 1 /\ (Len(q') + 1) - 1 = Len(q')
      BY <1>1, <1>2
    <2>2. EndsLine(q'[l]) /\ l \in Nat
      BY <1>1, <1>2
    <2>3. EndsLine(q[l])'
      BY <2>2, QueuePrimed DEF q
    <2> QED BY <1>2, <2>1, <2>3 DEF RestClean, CleanBefore, q
  <1>5. ASSUME NEW n, Queued(n) PROVE Queued(n)'
    <2>1. PICK k \in 1 .. Len(q) :
            TitleBehindBlank(q[k], n) \/ (TitleFirst(q[k], n) /\ CleanBefore(k))
      BY <1>5 DEF Queued, q
    <2>2. k \in 1 .. l /\ k \in 1 .. Len(q') /\ q'[k] = q[k] /\ k \in Nat
      BY <1>1, <1>2
    <2>3. TitleBehindBlank(q'[k], n) \/ (TitleFirst(q'[k], n) /\ CleanBefore(k)')
      BY <1>3, <2>1, <2>2
    <2>4. TitleBehindBlank(q[k], n)' \/ (TitleFirst(q[k], n)' /\ CleanBefore(k)')
      BY <2>2, <2>3, QueuePrimed DEF q
    <2> QED BY <2>2, <2>4 DEF Queued, q
  <1>6. ASSUME NEW n, Parsed(n) PROVE Parsed(n)'
    <2>1. text' = text /\ parsing' = parsing /\ state' = state
      OBVIOUS
    <2> QED BY <1>6, <2>1, TextPrimed DEF Parsed
  <1>7. ASSUME NEW n, TitleBehindBlank(block, n) \/ (TitleFirst(block, n) /\ RestClean)
        PROVE  Queued(n)'
    <2>1. RestClean => CleanBefore(l)
      BY <1>2 DEF RestClean, q
    <2>2. TitleBehindBlank(q'[l], n) \/ (TitleFirst(q'[l], n) /\ CleanBefore(l)')
      BY <1>2, <1>3, <1>7, <2>1
    <2>3. l \in Nat
      BY <1>1, <1>2
    <2>4. TitleBehindBlank(q[l], n)' \/ (TitleFirst(q[l], n)' /\ CleanBefore(l)')
      BY <2>2, <2>3, QueuePrimed DEF q
    <2> QED BY <1>2, <2>4 DEF Queued, q
  <1> QED BY <1>4, <1>5, <1>6, <1>7

LEMMA ReceiveComplete ==
  ASSUME TypeOK, Complete, Receive PROVE Complete'
  <1>1. TextTypes /\ OtherTypes
    BY TypeParts
  <1>2. PICK n \in 1 .. RxAvailable :
          /\ Reassemble(SubSeq(wire, 1, n)) /\ wire' = SubSeq(wire, n + 1, Len(wire))
          /\ cut' = (cut \/ CutsUpdate(SubSeq(wire, 1, n)))
    BY DEF Receive
  <1> DEFINE rx == SubSeq(wire, 1, n)
             last == LastNewLine(rx)
             block == partial_line_buffer \o Lines(rx)
             left == Remainder(rx) \o SubSeq(wire, n + 1, Len(wire))
             p == Len(partial_line_buffer) + last
  <1>3. /\ UNCHANGED << conn, told, heard, base, parsing, text, state >>
        /\ dropped' = (dropped \/ QueueFull(ethernet_message_input_queue, BlockQueueLen))
        /\ Rest' = left
        /\ dropped' \/ ethernet_message_input_queue' = Append(ethernet_message_input_queue, block)
    BY <1>2 DEF Receive, parserVars, Reassemble, Rest, SendBlock, xQueueSend
  <1>4. SUFFICES ASSUME conn = "open", ~cut, ~dropped, ~CutsUpdate(rx), ~dropped' PROVE Complete'
    BY <1>2, <1>3 DEF Complete
  <1>5. n \in 1 .. Len(wire)
    BY <1>1, RxIsThere DEF TextTypes
  <1>6. rx \in Seq(Pieces) /\ Len(rx) = n /\ (\A i \in 1 .. n : rx[i] = wire[i])
    BY <1>1, <1>5, PartType DEF TextTypes
  <1>7. HasLine(rx)
    BY <1>4 DEF CutsUpdate
  <1>8. Ahead(Rest, block, p) /\ Behind(Rest, left, p)
    BY <1>1, <1>5, <1>7, LinesCut
  <1> HIDE DEF rx
  <1>9. block \in Seq(Pieces)
    <2>1. Lines(rx) \in Seq(Pieces)
      BY <1>6, LinesType
    <2> QED BY <1>1, <2>1, ConcatAt DEF TextTypes
  <1>10. last \in 2 .. n /\ rx[last] = NewLine /\ ~InsideUpdate(rx[last - 1])
    <2>1. last \in 0 .. n /\ last > 1
      BY <1>6, <1>7, LastNewLineIs DEF HasLine
    <2>2. rx[last] = NewLine
      BY <1>6, <2>1, LastNewLineIs
    <2>3. rx[last - 1] # Colon /\ rx[last - 1][1] # " input"
      BY <1>4 DEF CutsUpdate
    <2>4. ~InsideUpdate(rx[last - 1])
      <3>1. \A m \in 1 .. MaxTold : Input(m)[1] = " input"
        BY DEF Input
      <3> QED BY <2>3, <3>1 DEF InsideUpdate
    <2> QED BY <2>1, <2>2, <2>4
  <1> HIDE DEF last, block, left
  <1>11. /\ Rest \in Seq(Pieces) /\ Len(Rest) = Len(partial_line_buffer) + Len(wire)
         /\ Len(partial_line_buffer) \in Nat /\ Len(wire) \in Nat
         /\ \A i \in 1 .. Len(wire) : Rest[Len(partial_line_buffer) + i] = wire[i]
    <2>1. Len(partial_line_buffer) \in Nat /\ Len(wire) \in Nat
      BY <1>1 DEF TextTypes
    <2> QED BY <1>1, <2>1, RestAt
  <1>12. p \in 1 .. Len(Rest) /\ Rest[p] = NewLine /\ ~InsideUpdate(Rest[p - 1])
    <2>1. last \in 1 .. Len(wire) /\ last - 1 \in 1 .. Len(wire) /\ last \in 1 .. n
          /\ last - 1 \in 1 .. n
      BY <1>5, <1>10, <1>11
    <2>2. p \in 1 .. Len(Rest) /\ p - 1 = Len(partial_line_buffer) + (last - 1)
      <3>1. \A k, l \in Nat : \A i \in 1 .. l : k + i \in 1 .. k + l /\ (k + i) - 1 = k + (i - 1)
        OBVIOUS
      <3> QED BY <1>11, <2>1, <3>1
    <2>3. Rest[p] = rx[last]
      BY <1>6, <1>11, <2>1
    <2>4. Rest[p - 1] = rx[last - 1]
      <3>1. Rest[Len(partial_line_buffer) + (last - 1)] = wire[last - 1]
        BY <1>11, <2>1
      <3> QED BY <1>6, <2>1, <2>2, <3>1
    <2> QED BY <1>10, <2>2, <2>3, <2>4
  <1> HIDE DEF p
  <1>13. EndsLine(block)
    BY <1>8, <1>12 DEF Ahead, EndsLine
  <1>14. /\ RestClean'
         /\ \A m : Queued(m) \/ Parsed(m) => (Queued(m) \/ Parsed(m))'
         /\ \A m : TitleBehindBlank(block, m) \/ (TitleFirst(block, m) /\ RestClean) => Queued(m)'
    <2>1. /\ ethernet_message_input_queue \in Seq(Seq(Pieces))
          /\ ethernet_message_input_queue' = Append(ethernet_message_input_queue, block)
      BY <1>1, <1>3, <1>4 DEF TextTypes
    <2> QED BY <1>3, <1>9, <1>13, <2>1, QueueGrowsComplete
  <1>15. ASSUME NEW m, Unreceived(m) PROVE Unreceived(m)' \/ Queued(m)'
    <2>1. /\ TitleFirst(Rest, m) => TitleFirst(block, m)
          /\ TitleBehindBlank(Rest, m) =>
               TitleBehindBlank(block, m) \/ TitleBehindBlank(left, m) \/ TitleFirst(left, m)
      <3>1. Len(Rest) \in Nat
        BY <1>11
      <3> QED BY <1>8, <1>12, <3>1, TitleCut
    <2>2. TitleBehindBlank(left, m) \/ TitleFirst(left, m) => Unreceived(m)'
      BY <1>3, <1>14, RestPrimed DEF Unreceived
    <2> QED BY <1>14, <1>15, <2>1, <2>2 DEF Unreceived
  <1>16. BlankAtEnd(Rest)'
    <2>1. BlankAtEnd(Rest)
      BY <1>4 DEF Complete
    <2>2. BlankAtEnd(left)
      <3>1. Len(Rest) \in Nat
        BY <1>11
      <3> QED BY <1>8, <2>1, <3>1, BehindInShape
    <2> QED BY <1>3, <2>2, RestPrimed
  <1>17. \A m : OnItsWay(m) => OnItsWay(m)'
    BY <1>14, <1>15 DEF OnItsWay
  <1> QED BY <1>3, <1>4, <1>14, <1>16, <1>17 DEF Complete

\* What the router tells is on its way, and what was is still.
LEMMA TellComplete ==
  ASSUME TypeOK,
         UNCHANGED << text, parsing, state, ethernet_message_input_queue, partial_line_buffer >>,
         NEW plain \in {<< >>, Ack, Other}, NEW count \in Nat, told + count <= MaxTold,
         wire' = wire \o (plain \o Update(told + 1, told + count)),
         BlankAtEnd(Rest \o plain), RestClean \/ Rest \o plain # << >>
  PROVE  /\ BlankAtEnd(Rest)' /\ (Len(Rest) >= 2)'
         /\ \A n \in told + 1 .. told + count : OnItsWay(n)'
         /\ \A n : OnItsWay(n) => OnItsWay(n)'
  <1> DEFINE update == Update(told + 1, told + count)
             before == Rest \o plain
  <1>1. /\ TextTypes /\ wire \in Seq(Pieces) /\ partial_line_buffer \in Seq(Pieces)
        /\ Rest \in Seq(Pieces) /\ plain \in Seq(Pieces)
    BY TypeParts, RestAt, PlainInShape DEF TextTypes
  <1>2. told \in Nat /\ told + 1 \in Nat \ {0} /\ (told + 1) + count - 1 = told + count
    <2>1. told \in Nat
      BY StreamAssumption DEF TypeOK
    <2> QED BY <2>1
  <1>3. BlankAtEnd(update) /\ update \in Seq(Pieces) /\ Len(update) >= 2
    <2>1. LET u == Update(told + 1, (told + 1) + count - 1)
          IN  BlankAtEnd(u) /\ u \in Seq(Pieces) /\ Len(u) >= 2
      BY <1>2, UpdateInShape
    <2> QED BY <1>2, <2>1
  <1>4. ASSUME NEW n \in told + 1 .. told + count PROVE \E k \in Nat : Titled(update, 1, k, n)
    <2> DEFINE k == n - (told + 1)
    <2>1. k \in Nat /\ k < count /\ (told + 1) + k = n
      BY <1>2
    <2> HIDE DEF k
    <2>2. Titled(Update(told + 1, (told + 1) + count - 1), 1, k, (told + 1) + k)
      BY <1>2, <2>1, UpdateTitled
    <2> QED BY <1>2, <2>1, <2>2
  <1>5. wire' = wire \o (plain \o update)
    OBVIOUS
  <1> HIDE DEF update
  <1>6. Rest' = before \o update
    <2>1. plain \o update \in Seq(Pieces)
      BY <1>1, <1>3, ConcatAt
    <2>2. partial_line_buffer \o (wire \o (plain \o update))
            = (partial_line_buffer \o wire) \o (plain \o update)
      BY <1>1, <2>1, ConcatThree
    <2>3. Rest \o (plain \o update) = (Rest \o plain) \o update
      BY <1>1, <1>3, ConcatThree
    <2> QED BY <1>5, <2>2, <2>3 DEF Rest
  <1>7. before \in Seq(Pieces) /\ BlankAtEnd(before) /\ (RestClean \/ before # << >>)
        /\ Len(Rest) <= Len(before) /\ \A i \in 1 .. Len(Rest) : before[i] = Rest[i]
    <2>1. Len(plain) \in Nat /\ Len(Rest) \in Nat
      BY <1>1
    <2>2. before \in Seq(Pieces) /\ Len(before) = Len(Rest) + Len(plain)
          /\ \A i \in 1 .. Len(Rest) : before[i] = Rest[i]
      BY <1>1, ConcatAt
    <2> QED BY <2>1, <2>2
  <1> HIDE DEF before
  <1>8. /\ Len(Rest') = Len(before) + Len(update) /\ Len(before) \in Nat /\ Len(update) \in Nat
        /\ Len(Rest) \in Nat /\ \A i \in 1 .. Len(before) : Rest'[i] = before[i]
    <2>1. Len(before) \in Nat /\ Len(update) \in Nat /\ Len(Rest) \in Nat
      BY <1>1, <1>3, <1>7
    <2> QED BY <1>3, <1>6, <1>7, <2>1, ConcatAt
  <1>9. BlankAtEnd(Rest)'
    <2>1. BlankAtEnd(before \o update)
      BY <1>3, <1>7, JoinBlank
    <2> QED BY <1>6, <2>1, RestPrimed
  <1>10. (RestClean => RestClean') /\ \A n : Queued(n) => Queued(n)'
    <2>1. \A k : CleanBefore(k) => CleanBefore(k)'
      BY DEF CleanBefore, ParserClean, EndsLine
    <2> QED BY <2>1, QueuedStays
  <1>11. ASSUME NEW n \in told + 1 .. told + count PROVE OnItsWay(n)'
    <2>1. PICK k \in Nat : Titled(update, 1, k, n)
      BY <1>4
    <2>2. IF before = << >> THEN TitleFirst(before \o update, n)
          ELSE TitleBehindBlank(before \o update, n)
      BY <1>3, <1>7, <2>1, TitleJoins
    <2>3. Unreceived(n)'
      BY <1>6, <1>7, <1>10, <2>2, RestPrimed DEF Unreceived
    <2> QED BY <2>3 DEF OnItsWay
  <1>12. ASSUME NEW n, OnItsWay(n) PROVE OnItsWay(n)'
    <2>1. CASE Unreceived(n)
      <3>1. /\ Len(Rest') \in Nat /\ Len(Rest) <= Len(Rest')
            /\ \A i \in 1 .. Len(Rest) : Rest'[i] = Rest[i]
        <4>1. \A i \in 1 .. Len(Rest) : i \in 1 .. Len(before)
          BY <1>7, <1>8
        <4> QED BY <1>7, <1>8, <4>1
      <3>2. /\ TitleFirst(Rest, n) => TitleFirst(Rest', n)
            /\ TitleBehindBlank(Rest, n) => TitleBehindBlank(Rest', n)
        BY <1>8, <3>1, TitleStaysAhead
      <3>3. Unreceived(n)'
        BY <1>10, <2>1, <3>2, RestPrimed DEF Unreceived
      <3> QED BY <3>3 DEF OnItsWay
    <2>2. CASE Queued(n)
      BY <1>10, <2>2 DEF OnItsWay
    <2>3. CASE Parsed(n)
      <3>1. Parsed(n)'
        BY <2>3, TextPrimed DEF Parsed
      <3> QED BY <3>1 DEF OnItsWay
    <2> QED BY <1>12, <2>1, <2>2, <2>3 DEF OnItsWay
  <1>13. (Len(Rest) >= 2)'
    BY <1>3, <1>8
  <1> QED BY <1>9, <1>11, <1>12, <1>13

LEMMA InitComplete == Init => NoLineKept /\ Complete
  BY DEF Init, NoLineKept, Complete

LEMMA NextNoLineKept ==
  ASSUME TypeOK, NoLineKept, [Next]_vars PROVE NoLineKept'
  <1>1. ASSUME NEW rx \in Seq(Pieces), Reassemble(rx) PROVE NoLineKept'
    <2> DEFINE last == LastNewLine(rx)
               begun == SubSeq(rx, last + 1, Len(rx))
    <2>1. last \in 0 .. Len(rx) /\ Len(rx) \in Nat /\ \A i \in 1 .. Len(rx) : i > last => rx[i] # NewLine
      BY LastNewLineIs
    <2>2. partial_line_buffer' = IF HasLine(rx) THEN begun ELSE << >>
      BY <1>1 DEF Reassemble, Remainder
    <2> HIDE DEF last
    <2>3. Len(begun) = Len(rx) - last /\ \A i \in 1 .. Len(rx) - last : begun[i] = rx[last + i]
      BY <2>1, PartType
    <2> HIDE DEF begun
    <2>4. \A i \in 1 .. Len(begun) : begun[i] # NewLine
      <3> SUFFICES ASSUME NEW i \in 1 .. Len(begun) PROVE begun[i] # NewLine
        OBVIOUS
      <3>1. i \in 1 .. Len(rx) - last /\ last + i \in 1 .. Len(rx) /\ last + i > last
        BY <2>1, <2>3
      <3> QED BY <2>1, <2>3, <3>1
    <2>5. CASE HasLine(rx)
      BY <2>2, <2>4, <2>5 DEF NoLineKept
    <2>6. CASE ~HasLine(rx)
      BY <2>2, <2>6 DEF NoLineKept
    <2> QED BY <2>5, <2>6
  <1>2. CASE Receive
    <2>1. PICK n \in 1 .. RxAvailable : Reassemble(SubSeq(wire, 1, n))
      BY <1>2 DEF Receive
    <2>2. SubSeq(wire, 1, n) \in Seq(Pieces)
      <3>1. wire \in Seq(Pieces)
        BY DEF TypeOK
      <3> QED BY <3>1, RxIsThere, PartType
    <2> QED BY <1>1, <2>1, <2>2
  <1>3. CASE ReceiveEnd
    <2>1. Reassemble(<< >>) /\ << >> \in Seq(Pieces)
      BY <1>3 DEF ReceiveEnd
    <2> QED BY <1>1, <2>1
  <1>4. CASE ~Receive /\ ~ReceiveEnd
    <2>1. partial_line_buffer' = partial_line_buffer \/ partial_line_buffer' = << >>
      BY <1>4 DEF Next, Client, Parser, CloseSocket, TaskRestart, TakeBlock, SkipLine, PostLine,
                  Panic, LogicTakes, Connect, RouterTells, RouterCloses, ConnectionBreaks, vars,
                  clientVars
    <2> QED BY <2>1 DEF NoLineKept
  <1> QED BY <1>2, <1>3, <1>4

\* One step per action.
LEMMA NextComplete ==
  ASSUME TypeOK, Complete, [Next]_vars PROVE Complete'
  <1>1. CASE Receive
    BY <1>1, ReceiveComplete
  <1>2. CASE TakeBlock
    BY <1>2, TakeComplete
  <1>3. CASE SkipLine
    BY <1>3, SkipComplete
  <1>4. CASE PostLine
    BY <1>4, PostComplete
  <1>5. CASE ReceiveEnd \/ CloseSocket \/ TaskRestart \/ Panic \/ RouterCloses \/ ConnectionBreaks
    <2>1. conn' # "open"
      BY <1>5 DEF ReceiveEnd, CloseSocket, TaskRestart, Panic, RouterCloses, ConnectionBreaks
    <2> QED BY <2>1 DEF Complete
  <1>6. CASE LogicTakes \/ UNCHANGED vars
    <2>1. /\ UNCHANGED << ethernet_message_input_queue, partial_line_buffer, wire >>
          /\ UNCHANGED << conn, cut, dropped, base, told, heard, text, parsing, state >>
      BY <1>6 DEF LogicTakes, vars, clientVars, parserVars, history
    <2>2. \A k : CleanBefore(k) => CleanBefore(k)'
      BY <2>1 DEF CleanBefore, ParserClean, EndsLine
    <2>3. /\ \A n : Unreceived(n) \/ Queued(n) => (Unreceived(n) \/ Queued(n))'
          /\ BlankAtEnd(Rest) => BlankAtEnd(Rest)'
          /\ RestClean \/ Len(Rest) >= 2 => (RestClean \/ Len(Rest) >= 2)'
      BY <2>1, <2>2, OthersStay
    <2>4. \A n : Parsed(n) => Parsed(n)'
      BY <2>1, TextPrimed DEF Parsed
    <2>5. \A n : OnItsWay(n) => OnItsWay(n)'
      BY <2>3, <2>4 DEF OnItsWay
    <2> QED BY <2>1, <2>3, <2>5 DEF Complete
  <1>7. CASE Connect
    <2>1. /\ UNCHANGED << text, parsing, state, ethernet_message_input_queue, partial_line_buffer >>
          /\ told' = told + NOutputs /\ base' = told
      BY <1>7 DEF Connect, parserVars
    <2>2. /\ wire = << >> /\ wire' = wire \o (Other \o Update(told + 1, told + NOutputs))
          /\ NOutputs \in Nat /\ told + NOutputs <= MaxTold
      BY <1>7, Greeting
    <2>3. BlankAtEnd(Rest \o Other) /\ Rest \o Other # << >>
      <3>1. Other \in Seq(Pieces) /\ BlankAtEnd(Other) /\ Len(Other) >= 2 /\ Rest \in Seq(Pieces)
        <4>1. Rest \in Seq(Pieces)
          BY TypeParts, RestAt
        <4>2. Other \in Seq(Pieces) /\ BlankAtEnd(Other) /\ (Other # << >> => Len(Other) >= 2)
          BY PlainInShape
        <4>3. Other # << >>
          BY DEF Other
        <4> QED BY <4>1, <4>2, <4>3
      <3>2. BlankAtEnd(Rest \o Other)
        BY <3>1, JoinBlank
      <3>3. Len(Rest \o Other) = Len(Rest) + Len(Other) /\ Len(Rest) \in Nat /\ Len(Other) \in Nat
        BY <3>1, ConcatAt
      <3>4. Rest \o Other # << >>
        BY <3>1, <3>3
      <3> QED BY <3>2, <3>4
    <2>4. /\ BlankAtEnd(Rest)' /\ (Len(Rest) >= 2)'
          /\ \A n \in told + 1 .. told + NOutputs : OnItsWay(n)'
      BY <2>1, <2>2, <2>3, TellComplete
    <2> QED BY <2>1, <2>4 DEF Complete
  <1>8. CASE RouterTells
    <2>1. /\ UNCHANGED << text, parsing, state, ethernet_message_input_queue, partial_line_buffer >>
          /\ UNCHANGED << conn, cut, dropped, base, heard >>
      BY <1>8 DEF RouterTells, parserVars
    <2>2. PICK plain \in {<< >>, Ack} :
            wire' = wire \o (plain \o Update(told + 1, told + 1))
      BY <1>8, RouterMore
    <2>3. told' = told + 1 /\ told + 1 <= MaxTold /\ told \in Nat
      BY <1>8, RouterMore
    <2>4. SUFFICES ASSUME conn = "open", ~cut, ~dropped PROVE Complete'
      BY <2>1 DEF Complete
    <2>5. /\ BlankAtEnd(Rest) /\ (RestClean \/ Len(Rest) >= 2)
          /\ \A n \in base + 1 .. told : n \in ToSet(heard) \/ OnItsWay(n)
      BY <2>4 DEF Complete
    <2>6. BlankAtEnd(Rest \o plain) /\ (RestClean \/ Rest \o plain # << >>)
      <3>1. plain \in Seq(Pieces) /\ BlankAtEnd(plain) /\ Rest \in Seq(Pieces)
        BY TypeParts, RestAt, PlainInShape
      <3>2. BlankAtEnd(Rest \o plain)
        BY <2>5, <3>1, JoinBlank
      <3>3. Len(Rest \o plain) = Len(Rest) + Len(plain) /\ Len(Rest) \in Nat /\ Len(plain) \in Nat
        BY <3>1, ConcatAt
      <3>4. Len(Rest) >= 2 => Rest \o plain # << >>
        BY <3>3
      <3> QED BY <2>5, <3>2, <3>4
    <2>7. /\ BlankAtEnd(Rest)' /\ (Len(Rest) >= 2)'
          /\ \A n \in told + 1 .. told + 1 : OnItsWay(n)'
          /\ \A n : OnItsWay(n) => OnItsWay(n)'
      BY <2>1, <2>2, <2>3, <2>6, TellComplete
    <2>8. \A n \in base + 1 .. told + 1 : n \in base + 1 .. told \/ n \in told + 1 .. told + 1
      BY <2>3
    <2> QED BY <2>1, <2>3, <2>5, <2>7, <2>8 DEF Complete
  <1> QED BY <1>1, <1>2, <1>3, <1>4, <1>5, <1>6, <1>7, <1>8 DEF Next, Client, Parser

\* With nothing on its way, all of them have been heard.
LEMMA SettledComplete == CompleteInv => UpdatesComplete
  <1> SUFFICES ASSUME CompleteInv, Settled, ~cut, ~dropped, NEW n \in base + 1 .. told,
                      n \notin ToSet(heard)
               PROVE  FALSE
    BY DEF UpdatesComplete
  <1>1. /\ TypeOK /\ TextTypes /\ conn = "open" /\ wire = << >> /\ ~parsing
        /\ ethernet_message_input_queue = << >>
    BY TypeParts DEF CompleteInv, Settled
  <1>2. Unreceived(n)
    <2>1. OnItsWay(n)
      BY <1>1 DEF CompleteInv, Complete
    <2>2. Len(ethernet_message_input_queue) = 0
      BY <1>1
    <2> QED BY <1>1, <2>1, <2>2 DEF OnItsWay, Queued, Parsed
  <1>3. Rest = partial_line_buffer /\ Rest \in Seq(Pieces)
    BY <1>1, RestAt DEF Rest, TextTypes
  <1>4. PICK a \in Nat, k \in Nat : Titled(Rest, a, k, n)
    BY <1>2 DEF Unreceived, TitleFirst, TitleBehindBlank
  <1>5. a + 3 * k + 5 <= Len(Rest) /\ Rest[a + 2] = NewLine
    BY <1>4, TitledEnds DEF Titled
  <1>6. a + 2 \in 1 .. Len(Rest)
    BY <1>3, <1>5
  <1> QED BY <1>3, <1>5, <1>6 DEF CompleteInv, NoLineKept

\* tcp_client_loop and tcp_recv_task lose no confirmation between them: when all
\* that arrived has been looked at, each has been posted, unless a block ended
\* inside an update or something was dropped.
THEOREM NothingLost == Spec => []UpdatesComplete
  <1>1. Init => CompleteInv
    BY InitTypeOK, InitComplete DEF CompleteInv
  <1>2. CompleteInv /\ [Next]_vars => CompleteInv'
    BY NextTypeOK, NextNoLineKept, NextComplete DEF CompleteInv
  <1> QED BY <1>1, <1>2, SettledComplete, PTL DEF Spec
=============================================================================
