----------------------------- MODULE WiringProofs -----------------------------
(***************************************************************************)
(* Proofs about Wiring.  First, what the operators of SharedText return:   *)
(* they choose least positions and positions by rank, which exist because  *)
(* sets of positions are finite.  Then the type invariant, that no file    *)
(* with our lines is forgotten, that no shared file gets two blocks, that  *)
(* the lines around a block and, where edits are looked for, those inside  *)
(* it are kept, and that unwire stays in its repository.                   *)
(***************************************************************************)
EXTENDS Wiring, TLAPS, FiniteSetTheorems, SequenceTheorems, WellFoundedInduction

\* Every set of naturals that is not empty has a least element: 0..m is
\* minimal among the sets 0..t.
LEMMA Least ==
    ASSUME NEW T, T \subseteq Nat, T # {}
    PROVE  \E m \in T : \A t \in T : m <= t
<1> DEFINE Initial == {0..t : t \in T}
<1>1. Initial \subseteq FiniteSubsetsOf(Nat)
  <2>1. \A t \in T : 0..t \subseteq Nat /\ IsFiniteSet(0..t)
    BY FS_Interval
  <2> QED  BY <2>1 DEF FiniteSubsetsOf
<1>2. PICK x \in Initial : \A y \in Initial : <<y, x>> \notin StrictSubsetOrdering(Nat)
  <2>1. IsWellFoundedOn(StrictSubsetOrdering(Nat), FiniteSubsetsOf(Nat))
    BY FS_StrictSubsetOrderingWellFounded
  <2>2. Initial # {}
    OBVIOUS
  <2> HIDE DEF Initial
  <2> QED  BY <2>1, <2>2, <1>1, WFMin
<1>3. PICK m \in T : x = 0..m
  BY <1>2
<1>4. ASSUME NEW t \in T, t < m
      PROVE  FALSE
  <2>1. /\ 0..t \in SUBSET Nat /\ 0..m \in SUBSET Nat
        /\ 0..t \subseteq 0..m
        /\ m \in 0..m /\ m \notin 0..t
    BY <1>4
  <2>2. <<0..t, 0..m>> \in StrictSubsetOrdering(Nat)
    BY <2>1 DEF StrictSubsetOrdering
  <2> QED  BY <2>2, <1>2, <1>3
<1> QED  BY <1>4

LEMMA Greatest ==
    ASSUME NEW n \in Nat, NEW T, T \subseteq 1..n, T # {}
    PROVE  \E m \in T : \A t \in T : m >= t
<1> DEFINE U == {n - t : t \in T}
<1>1. U \subseteq Nat /\ U # {}
  <2>1. \A t \in T : n - t \in Nat
    OBVIOUS
  <2> QED  BY <2>1
<1>2. PICK u \in U : \A v \in U : u <= v
  <2> HIDE DEF U
  <2> QED  BY <1>1, Least
<1>3. PICK m \in T : u = n - m
  BY <1>2
<1>4. \A t \in T : n - m <= n - t
  BY <1>2, <1>3
<1> QED  BY <1>3, <1>4

\* The first of a kind stands before the others.
LEMMA FirstIsLeast ==
    ASSUME NEW text \in Text, NEW line, Has(text, line)
    PROVE  /\ First(text, line) \in 1..Len(text)
           /\ text[First(text, line)] = line
           /\ \A i \in DOMAIN text : text[i] = line => First(text, line) <= i
<1>1. At(text, line) \subseteq Nat /\ At(text, line) # {}
  BY DEF Has, At, Text
<1>2. \E m \in At(text, line) : \A t \in At(text, line) : m <= t
  BY <1>1, Least
<1>3. /\ First(text, line) \in At(text, line)
      /\ \A t \in At(text, line) : First(text, line) <= t
  BY <1>2 DEF First
<1> QED  BY <1>3 DEF At, Text

\* The parts of a text before and after a position are texts.
LEMMA PartsTyped ==
    ASSUME NEW text \in Text, NEW i \in Nat
    PROVE  /\ i \in 1..(Len(text) + 1) => Before(text, i) \in Text
           /\ After(text, i) \in Text
<1>1. ASSUME i \in 1..(Len(text) + 1)
      PROVE  Before(text, i) \in Text
  BY <1>1, SubSeqProperties DEF Before, Text
<1>2. After(text, i) \in Text
  <2>1. \A k \in (i + 1)..Len(text) : text[k] \in Piece
    BY DEF Text
  <2> QED  BY <2>1, SubSeqProperties DEF After, Text
<1> QED  BY <1>1, <1>2

\* A text with the lines from b to e replaced, and with them taken out.
Splice(text, b, middle, e) == Before(text, b) \o middle \o After(text, e)

Join(text, b, e) == Before(text, b) \o After(text, e)

\* A text that is put together from the beginning and the end of another, and
\* lines between them: where its lines come from and where those of the other
\* go.
LEMMA Spliced ==
    ASSUME NEW text \in Text, NEW middle \in Text,
           NEW b \in 1..(Len(text) + 1), NEW e \in 0..Len(text)
    PROVE  /\ Splice(text, b, middle, e) \in Text
           /\ Len(Splice(text, b, middle, e)) = (b - 1) + Len(middle) + (Len(text) - e)
           /\ \A i \in 1..(b - 1) : Splice(text, b, middle, e)[i] = text[i]
           /\ \A i \in 1..Len(middle) :
                Splice(text, b, middle, e)[(b - 1) + i] = middle[i]
           /\ \A i \in (e + 1)..Len(text) :
                Splice(text, b, middle, e)[(b - 1) + Len(middle) + (i - e)] = text[i]
<1> DEFINE other == Splice(text, b, middle, e)
<1>1. Len(text) \in Nat /\ Len(middle) \in Nat
  BY DEF Text
<1>2. /\ Before(text, b) \in Text /\ Len(Before(text, b)) = b - 1
      /\ \A i \in 1..(b - 1) : Before(text, b)[i] = text[i]
  <2>1. Before(text, b) \in Text
    BY <1>1, PartsTyped
  <2> QED  BY <1>1, <2>1 DEF Before, Text
<1>3. /\ After(text, e) \in Text /\ Len(After(text, e)) = Len(text) - e
      /\ \A i \in 1..(Len(text) - e) : After(text, e)[i] = text[e + i]
  <2>1. After(text, e) \in Text
    BY <1>1, PartsTyped
  <2> QED  BY <1>1, <2>1 DEF After, Text
<1> DEFINE head == Before(text, b) \o middle
           tail == After(text, e)
<1>4. /\ head \in Text /\ Len(head) = (b - 1) + Len(middle)
      /\ \A i \in 1..(b - 1) : head[i] = text[i]
      /\ \A i \in 1..Len(middle) : head[(b - 1) + i] = middle[i]
  <2>1. head \in Text /\ Len(head) = (b - 1) + Len(middle)
    BY <1>1, <1>2, ConcatProperties DEF Text
  <2>2. \A i \in 1..((b - 1) + Len(middle)) :
            head[i] = IF i <= b - 1 THEN Before(text, b)[i] ELSE middle[i - (b - 1)]
    BY <1>1, <1>2, ConcatProperties DEF Text
  <2>3. ASSUME NEW i \in 1..Len(middle)
        PROVE  head[(b - 1) + i] = middle[i]
    <3>1. /\ (b - 1) + i \in 1..((b - 1) + Len(middle))
          /\ ~((b - 1) + i <= b - 1) /\ ((b - 1) + i) - (b - 1) = i
      BY <1>1
    <3> QED  BY <2>2, <3>1
  <2>4. ASSUME NEW i \in 1..(b - 1)
        PROVE  head[i] = text[i]
    BY <1>1, <1>2, <2>2
  <2> HIDE DEF head
  <2> QED  BY <2>1, <2>3, <2>4
<1> HIDE DEF head
<1>5. other = head \o tail
  BY DEF head, Splice
<1> HIDE DEF other
<1> HIDE DEF tail
<1>6. tail \in Text /\ Len(tail) = Len(text) - e
  BY <1>3 DEF tail
<1>7. /\ other \in Text
      /\ Len(other) = Len(head) + Len(tail)
      /\ \A i \in 1..(Len(head) + Len(tail)) :
            other[i] = IF i <= Len(head) THEN head[i] ELSE tail[i - Len(head)]
  <2>1. head \in Seq(Piece) /\ tail \in Seq(Piece)
    BY <1>4, <1>6 DEF Text
  <2>2. head \o tail \in Text /\ Len(head \o tail) = Len(head) + Len(tail)
    BY <2>1, ConcatProperties DEF Text
  <2>3. \A i \in 1..(Len(head) + Len(tail)) :
            (head \o tail)[i] = IF i <= Len(head) THEN head[i] ELSE tail[i - Len(head)]
    BY <2>1, ConcatProperties
  <2> QED  BY <1>5, <2>2, <2>3
<1>8. ASSUME NEW i \in (e + 1)..Len(text)
      PROVE  other[(b - 1) + Len(middle) + (i - e)] = text[i]
  <2>1. /\ Len(head) + (i - e) \in 1..(Len(head) + Len(tail))
        /\ ~(Len(head) + (i - e) <= Len(head))
        /\ (Len(head) + (i - e)) - Len(head) = i - e
    BY <1>1, <1>4, <1>6
  <2>2. other[Len(head) + (i - e)] = tail[i - e]
    BY <1>7, <2>1
  <2>3. i - e \in 1..(Len(text) - e) /\ e + (i - e) = i
    BY <1>1
  <2>4. tail[i - e] = text[i]
    BY <1>3, <2>3 DEF tail
  <2> QED  BY <1>4, <2>2, <2>4
<1>9. ASSUME NEW i \in 1..(b - 1)
      PROVE  other[i] = text[i]
  <2>1. i \in 1..(Len(head) + Len(tail)) /\ i <= Len(head)
    BY <1>1, <1>4, <1>6
  <2> QED  BY <1>4, <1>7, <2>1
<1>10. ASSUME NEW i \in 1..Len(middle)
       PROVE  other[(b - 1) + i] = middle[i]
  <2>1. (b - 1) + i \in 1..(Len(head) + Len(tail)) /\ (b - 1) + i <= Len(head)
    BY <1>1, <1>4, <1>6
  <2> QED  BY <1>4, <1>7, <2>1
<1>11. Len(other) = (b - 1) + Len(middle) + (Len(text) - e)
  BY <1>4, <1>6, <1>7
<1> QED  BY <1>7, <1>8, <1>9, <1>10, <1>11 DEF other

\* Where a piece of such a text comes from.
LEMMA SpliceOrigin ==
    ASSUME NEW text \in Text, NEW middle \in Text,
           NEW b \in 1..(Len(text) + 1), NEW e \in 0..Len(text),
           NEW k \in DOMAIN Splice(text, b, middle, e)
    PROVE  /\ Splice(text, b, middle, e)[k]
                = IF k < b THEN text[k]
                  ELSE IF k < b + Len(middle) THEN middle[k - (b - 1)]
                  ELSE text[(k - (b - 1) - Len(middle)) + e]
           /\ k \in Int /\ k >= 1
           /\ k < b => k \in DOMAIN text
           /\ k >= b /\ k < b + Len(middle) => k - (b - 1) \in DOMAIN middle
           /\ k >= b + Len(middle) =>
                (k - (b - 1) - Len(middle)) + e \in (e + 1)..Len(text)
<1> DEFINE other == Splice(text, b, middle, e)
<1>1. /\ Len(text) \in Nat /\ DOMAIN text = 1..Len(text)
      /\ Len(middle) \in Nat /\ DOMAIN middle = 1..Len(middle)
  BY DEF Text
<1>2. /\ other \in Text
      /\ Len(other) = (b - 1) + Len(middle) + (Len(text) - e)
  BY Spliced
<1>3. \A i \in 1..(b - 1) : other[i] = text[i]
  BY Spliced
<1>4. \A i \in 1..Len(middle) : other[(b - 1) + i] = middle[i]
  BY Spliced
<1>5. \A i \in (e + 1)..Len(text) :
        other[(b - 1) + Len(middle) + (i - e)] = text[i]
  BY Spliced
<1>6. k \in DOMAIN other
  OBVIOUS
<1> HIDE DEF other
<1>7. k \in 1..((b - 1) + Len(middle) + (Len(text) - e))
  BY <1>2, <1>6 DEF Text
<1>8. CASE k < b
  BY <1>1, <1>3, <1>7, <1>8 DEF other
<1>9. CASE k >= b /\ k < b + Len(middle)
  <2>1. k - (b - 1) \in 1..Len(middle) /\ (b - 1) + (k - (b - 1)) = k
    BY <1>1, <1>7, <1>9
  <2>2. other[k] = middle[k - (b - 1)]
    BY <1>4, <2>1
  <2> QED  BY <1>1, <1>7, <1>9, <2>1, <2>2 DEF other
<1>10. CASE k >= b + Len(middle)
  <2> DEFINE i == (k - (b - 1) - Len(middle)) + e
  <2>1. i \in (e + 1)..Len(text) /\ (b - 1) + Len(middle) + (i - e) = k
    BY <1>1, <1>7, <1>10
  <2> HIDE DEF i
  <2>2. other[k] = text[i]
    BY <1>5, <2>1
  <2>3. ~(k < b) /\ ~(k < b + Len(middle)) /\ k \in Int /\ k >= 1
    BY <1>1, <1>7, <1>10
  <2> QED  BY <1>10, <2>1, <2>2, <2>3 DEF other, i
<1> QED  BY <1>1, <1>7, <1>8, <1>9, <1>10

\* The same with nothing between them.
LEMMA Joined ==
    ASSUME NEW text \in Text,
           NEW b \in 1..(Len(text) + 1), NEW e \in 0..Len(text)
    PROVE  /\ Join(text, b, e) \in Text
           /\ Len(Join(text, b, e)) = (b - 1) + (Len(text) - e)
           /\ \A i \in 1..(b - 1) : Join(text, b, e)[i] = text[i]
           /\ \A i \in (e + 1)..Len(text) :
                Join(text, b, e)[(b - 1) + (i - e)] = text[i]
<1> DEFINE nothing == << >>
<1>1. Before(text, b) \in Text /\ Len(text) \in Nat
  BY PartsTyped DEF Text
<1>2. nothing \in Text
  BY DEF Text
<1>3. Before(text, b) \o nothing = Before(text, b)
  BY <1>1, ConcatEmptySeq DEF Text
<1>4. Len(nothing) = 0
  OBVIOUS
<1> HIDE DEF nothing
<1>5. Join(text, b, e) = Splice(text, b, nothing, e)
  BY <1>3 DEF Join, Splice
<1>6. /\ Splice(text, b, nothing, e) \in Text
      /\ Len(Splice(text, b, nothing, e)) = (b - 1) + Len(nothing) + (Len(text) - e)
  BY <1>2, Spliced
<1>7. \A i \in 1..(b - 1) : Splice(text, b, nothing, e)[i] = text[i]
  BY <1>2, Spliced
<1>8. \A i \in (e + 1)..Len(text) :
        Splice(text, b, nothing, e)[(b - 1) + Len(nothing) + (i - e)] = text[i]
  BY <1>2, Spliced
<1>9. /\ (b - 1) + Len(nothing) + (Len(text) - e) = (b - 1) + (Len(text) - e)
      /\ \A i \in (e + 1)..Len(text) :
            (b - 1) + Len(nothing) + (i - e) = (b - 1) + (i - e)
  BY <1>1, <1>4
<1> QED  BY <1>5, <1>6, <1>7, <1>8, <1>9

\* Both ends of what a block takes the place of, and what takes it: in a text
\* without one of the sentinels, nothing at the end.
Start(text) == IF HasBoth(text) THEN First(text, "BEGIN") ELSE Len(text) + 1

Stop(text) ==
    IF HasBoth(text) THEN PastLine(text, First(text, "END")) ELSE Len(text)

Middle(text, body, gap) ==
    IF HasBoth(text) THEN Block(body) \o <<NL>>
    ELSE Padding(text, gap) \o (Block(body) \o <<NL>>)

\* The gap is a newline or nothing.
Gaps == {<< >>, <<NL>>}

LEMMA StartStop ==
    ASSUME NEW text \in Text
    PROVE  /\ Start(text) \in 1..(Len(text) + 1) /\ Stop(text) \in 0..Len(text)
           /\ HasBoth(text) =>
                /\ First(text, "END") \in 1..Len(text)
                /\ Stop(text) \in {First(text, "END"), First(text, "END") + 1}
                /\ Stop(text) # First(text, "END") => text[Stop(text)] = NL
<1>1. Len(text) \in Nat
  BY DEF Text
<1>2. CASE ~HasBoth(text)
  BY <1>1, <1>2 DEF Start, Stop
<1>3. CASE HasBoth(text)
  <2>1. /\ First(text, "BEGIN") \in 1..Len(text)
        /\ First(text, "END") \in 1..Len(text)
    BY <1>3, FirstIsLeast DEF HasBoth
  <2> QED  BY <1>1, <1>3, <2>1 DEF Start, Stop, PastLine
<1> QED  BY <1>2, <1>3

LEMMA Concatenated ==
    ASSUME NEW text \in Text, NEW other \in Text
    PROVE  /\ text \o other \in Text
           /\ Len(text \o other) = Len(text) + Len(other)
           /\ \A i \in 1..(Len(text) + Len(other)) :
                (text \o other)[i]
                    = IF i <= Len(text) THEN text[i] ELSE other[i - Len(text)]
BY ConcatProperties DEF Text

\* Where the sentinels of a block stand among the lines that are put in.
LEMMA MiddleShape ==
    ASSUME NEW text \in Text, NEW body \in Body, NEW gap \in Gaps
    PROVE  /\ Middle(text, body, gap) \in Text
           /\ \E p, q \in DOMAIN Middle(text, body, gap) :
                /\ p < q
                /\ Middle(text, body, gap)[p] = "BEGIN"
                /\ Middle(text, body, gap)[q] = "END"
                /\ \A i \in DOMAIN Middle(text, body, gap) :
                    Middle(text, body, gap)[i] \in Sentinel => i \in {p, q}
<1> DEFINE block == Block(body)
           newline == <<NL>>
           line == block \o newline
           pad == Padding(text, gap)
<1>1. NL \notin Sentinel /\ body \notin Sentinel
  BY DEF NL, Body, Sentinel
<1>2. /\ block \in Text /\ Len(block) = 5
      /\ block[1] = "BEGIN" /\ block[2] = NL /\ block[3] = body
      /\ block[4] = NL /\ block[5] = "END"
  BY DEF Block, Text, Piece, Sentinel
<1>3. /\ newline \in Text /\ Len(newline) = 1
      /\ DOMAIN newline = {1} /\ newline[1] = NL
  BY DEF Text, Piece
<1>a. << >> \in Text /\ \A i \in DOMAIN << >> : << >>[i] = NL
  BY DEF Text
<1> HIDE DEF block, newline
<1>4. /\ line \in Text /\ DOMAIN line = 1..6 /\ Len(line) = 6
      /\ line[1] = "BEGIN" /\ line[5] = "END"
      /\ \A i \in {2, 3, 4, 6} : line[i] \notin Sentinel
  <2>a. block \in Text /\ newline \in Text
    BY <1>2, <1>3
  <2>b. /\ line \in Text
        /\ Len(line) = Len(block) + Len(newline)
        /\ \A i \in 1..(Len(block) + Len(newline)) :
              line[i] = IF i <= Len(block) THEN block[i] ELSE newline[i - Len(block)]
    BY <2>a, Concatenated
  <2> HIDE DEF line
  <2>1. line \in Text /\ Len(line) = 6
    BY <1>2, <1>3, <2>b
  <2>2. \A i \in 1..6 : line[i] = IF i <= 5 THEN block[i] ELSE newline[i - 5]
    BY <1>2, <1>3, <2>b
  <2>3. DOMAIN line = 1..6
    BY <2>1 DEF Text
  <2>4. line[6] = NL
    BY <1>3, <2>2
  <2> QED  BY <1>1, <1>2, <2>1, <2>2, <2>3, <2>4
<1> HIDE DEF line
<1>5. pad \in Text /\ \A i \in DOMAIN pad : pad[i] = NL
  <2>1. gap \in Text /\ \A i \in DOMAIN gap : gap[i] = NL
    BY <1>3, <1>a DEF Gaps, newline
  <2> DEFINE both == newline \o gap
  <2>2. newline \in Text
    BY <1>3
  <2>3. /\ both \in Text
        /\ Len(both) = Len(newline) + Len(gap)
        /\ \A i \in 1..(Len(newline) + Len(gap)) :
              both[i] = IF i <= Len(newline) THEN newline[i] ELSE gap[i - Len(newline)]
    BY <2>1, <2>2, Concatenated
  <2>4. pad \in {<< >>, gap, both}
    BY DEF Padding, newline
  <2> HIDE DEF pad, both
  <2>5. Len(gap) \in Nat /\ DOMAIN gap = 1..Len(gap) /\ DOMAIN both = 1..(1 + Len(gap))
    BY <1>3, <2>1, <2>3 DEF Text
  <2>6. \A i \in DOMAIN both : both[i] = NL
    BY <1>3, <2>1, <2>3, <2>5
  <2> QED  BY <1>a, <2>1, <2>3, <2>4, <2>6
<1> HIDE DEF pad
<1>6. Len(pad) \in Nat /\ DOMAIN pad = 1..Len(pad)
  BY <1>5 DEF Text
<1> DEFINE padded == pad \o line
<1>7. /\ padded \in Text /\ Len(padded) = Len(pad) + Len(line)
      /\ \A i \in 1..(Len(pad) + Len(line)) :
            padded[i] = IF i <= Len(pad) THEN pad[i] ELSE line[i - Len(pad)]
  <2>1. pad \in Text /\ line \in Text
    BY <1>4, <1>5
  <2> QED  BY <2>1, Concatenated
<1> HIDE DEF padded
<1>8. /\ padded \in Text /\ DOMAIN padded = 1..(Len(pad) + 6)
      /\ padded[Len(pad) + 1] = "BEGIN" /\ padded[Len(pad) + 5] = "END"
      /\ \A i \in DOMAIN padded :
            padded[i] \in Sentinel => i \in {Len(pad) + 1, Len(pad) + 5}
  <2>1. /\ padded \in Text /\ Len(padded) = Len(pad) + 6
        /\ \A i \in 1..(Len(pad) + 6) :
              padded[i] = IF i <= Len(pad) THEN pad[i] ELSE line[i - Len(pad)]
    BY <1>4, <1>7
  <2>2. DOMAIN padded = 1..(Len(pad) + 6)
    BY <2>1 DEF Text
  <2>3. padded[Len(pad) + 1] = "BEGIN" /\ padded[Len(pad) + 5] = "END"
    BY <1>4, <1>6, <2>1
  <2>4. ASSUME NEW i \in DOMAIN padded, padded[i] \in Sentinel
        PROVE  i \in {Len(pad) + 1, Len(pad) + 5}
    <3>1. ~(i <= Len(pad))
      BY <1>1, <1>5, <1>6, <2>1, <2>2, <2>4
    <3>2. i - Len(pad) \in 1..6 /\ line[i - Len(pad)] \in Sentinel
      BY <1>6, <2>1, <2>2, <2>4, <3>1
    <3>3. i - Len(pad) \in {1, 5}
      BY <1>4, <3>2
    <3> QED  BY <1>6, <2>2, <3>3
  <2> QED  BY <2>1, <2>2, <2>3, <2>4
<1>9. /\ line \in Text /\ \A i \in DOMAIN line : line[i] \in Sentinel => i \in {1, 5}
  BY <1>4
<1>10. CASE HasBoth(text)
  <2>1. Middle(text, body, gap) = line
    BY <1>10 DEF Middle, line, block, newline
  <2> QED  BY <1>4, <1>9, <2>1
<1>11. CASE ~HasBoth(text)
  <2>1. Middle(text, body, gap) = padded
    BY <1>11 DEF Middle, padded, pad, line, block, newline
  <2>2. /\ Len(pad) + 1 \in DOMAIN padded /\ Len(pad) + 5 \in DOMAIN padded
        /\ Len(pad) + 1 < Len(pad) + 5
    BY <1>6, <1>8
  <2> QED  BY <1>8, <2>1, <2>2
<1> QED  BY <1>10, <1>11

LEMMA InjectedSplices ==
    ASSUME NEW text \in Text, NEW body \in Body, NEW gap \in Gaps
    PROVE  Injected(text, body, gap)
             = Splice(text, Start(text), Middle(text, body, gap), Stop(text))
<1>1. CASE HasBoth(text)
  BY <1>1 DEF Injected, Splice, Start, Stop, Middle
<1>2. CASE ~HasBoth(text)
  <2> DEFINE middle == Middle(text, body, gap)
  <2>1. Injected(text, body, gap) = text \o middle
    BY <1>2 DEF Injected, Middle
  <2>2. Before(text, Len(text) + 1) = text /\ After(text, Len(text)) = << >>
    <3>1. Len(text) \in Nat
      BY DEF Text
    <3> QED  BY <3>1 DEF Before, After, Text
  <2>3. middle \in Text
    BY MiddleShape
  <2> HIDE DEF middle
  <2>4. text \o middle \in Text
    BY <2>3, ConcatProperties DEF Text
  <2>5. (text \o middle) \o << >> = text \o middle
    BY <2>4, ConcatEmptySeq DEF Text
  <2> QED  BY <1>2, <2>1, <2>2, <2>5 DEF Splice, Start, Stop, middle
<1> QED  BY <1>1, <1>2

LEMMA InjectedTyped ==
    ASSUME NEW text \in Text, NEW body \in Body, NEW gap \in Gaps
    PROVE  Injected(text, body, gap) \in Text
<1> DEFINE middle == Middle(text, body, gap)
           b == Start(text)
           e == Stop(text)
<1>1. middle \in Text /\ b \in 1..(Len(text) + 1) /\ e \in 0..Len(text)
  BY MiddleShape, StartStop
<1>2. Injected(text, body, gap) = Splice(text, b, middle, e)
  BY InjectedSplices
<1> HIDE DEF middle, b, e
<1> QED  BY <1>1, <1>2, Spliced

\* Among the positions of a finite set there is one of each rank: the least
\* position that has at least so many of the set up to it.
LEMMA Rank ==
    ASSUME NEW n \in Nat, NEW K, K \subseteq 1..n, NEW r \in 1..Cardinality(K)
    PROVE  \E i \in K : Cardinality({j \in K : j <= i}) = r
<1> DEFINE Upto(i) == {j \in K : j <= i}
           T == {i \in Nat : Cardinality(Upto(i)) >= r}
<1>a. \A j \in K : j \in Nat /\ 1 <= j /\ j <= n
  OBVIOUS
<1>1. IsFiniteSet(K) /\ Cardinality(K) \in Nat
  <2>1. IsFiniteSet(1..n)
    BY FS_Interval
  <2>2. IsFiniteSet(K)
    BY <2>1, FS_Subset
  <2> QED  BY <2>2, FS_CardinalityType
<1>2. \A i \in Nat : IsFiniteSet(Upto(i)) /\ Cardinality(Upto(i)) \in Nat
  <2> TAKE i \in Nat
  <2>1. IsFiniteSet(Upto(i))
    BY <1>1, FS_Subset
  <2> QED  BY <2>1, FS_CardinalityType
<1>3. n \in T
  <2>1. Upto(n) = K
    BY <1>a
  <2> QED  BY <2>1, <1>1
<1>4. PICK m \in T : \A t \in T : m <= t
  <2>1. T \subseteq Nat
    OBVIOUS
  <2> HIDE DEF T
  <2> QED  BY <2>1, <1>3, Least
<1>5. m # 0
  <2>a. \A j \in K : ~(j <= 0)
    BY <1>a
  <2>1. Upto(0) = {}
    BY <2>a
  <2>2. Cardinality(Upto(0)) = 0
    BY <2>1, FS_EmptySet
  <2> QED  BY <2>2, <1>4
<1>6. /\ m \in Nat /\ m - 1 \in Nat
      /\ Cardinality(Upto(m)) >= r /\ Cardinality(Upto(m - 1)) < r
  <2>1. m \in Nat /\ m - 1 \in Nat /\ Cardinality(Upto(m)) >= r
    BY <1>4, <1>5
  <2>2. m - 1 \notin T
    <3>1. m - 1 \in T => m <= m - 1
      BY <1>4
    <3>2. ~(m <= m - 1)
      BY <2>1
    <3> QED  BY <3>1, <3>2
  <2>3. ~(Cardinality(Upto(m - 1)) >= r)
    BY <2>1, <2>2
  <2> HIDE DEF Upto
  <2> QED  BY <2>1, <2>3, <1>2
<1>b. \A j \in K : j <= m <=> j <= m - 1 \/ j = m
  BY <1>a, <1>6
<1>7. m \in K
  <2>1. SUFFICES ASSUME m \notin K PROVE FALSE
    OBVIOUS
  <2>2. Upto(m) = Upto(m - 1)
    <3>1. \A j \in K : j <= m <=> j <= m - 1
      BY <2>1, <1>b
    <3> QED  BY <3>1
  <2> QED  BY <2>2, <1>6, <1>2
<1>8. Upto(m) = Upto(m - 1) \cup {m} /\ m \notin Upto(m - 1)
  <2>1. ~(m <= m - 1) /\ m <= m
    BY <1>6
  <2> QED  BY <2>1, <1>b, <1>7
<1>9. Cardinality(Upto(m)) = Cardinality(Upto(m - 1)) + 1
  <2> HIDE DEF Upto
  <2> QED  BY <1>8, <1>2, <1>6, FS_AddElement
<1>10. Cardinality(Upto(m)) = r
  <2> HIDE DEF Upto
  <2> QED  BY <1>9, <1>6, <1>2
<1> QED  BY <1>7, <1>10

LEMMA SelectionTyped ==
    ASSUME NEW text \in Text, NEW K, K \subseteq DOMAIN text
    PROVE  /\ Selection(text, K) \in Text
           /\ \A n \in DOMAIN Selection(text, K) :
                \E i \in DOMAIN text : Selection(text, K)[n] = text[i]
<1>1. Len(text) \in Nat /\ DOMAIN text = 1..Len(text)
  BY DEF Text
<1>2. IsFiniteSet(K) /\ Cardinality(K) \in Nat
  <2>1. IsFiniteSet(1..Len(text))
    BY <1>1, FS_Interval
  <2>2. IsFiniteSet(K)
    BY <1>1, <2>1, FS_Subset
  <2> QED  BY <2>2, FS_CardinalityType
<1> DEFINE At_(n) == CHOOSE i \in K : Cardinality({j \in K : j <= i}) = n
<1>3. \A n \in 1..Cardinality(K) : At_(n) \in K
  <2> TAKE n \in 1..Cardinality(K)
  <2>1. \E i \in K : Cardinality({j \in K : j <= i}) = n
    BY <1>1, Rank
  <2> QED  BY <2>1
<1>4. Selection(text, K) = [n \in 1..Cardinality(K) |-> text[At_(n)]]
  BY DEF Selection
<1> HIDE DEF At_
<1>5. \A n \in 1..Cardinality(K) : At_(n) \in DOMAIN text /\ text[At_(n)] \in Piece
  BY <1>3, <1>1 DEF Text
<1>6. Selection(text, K) \in Text
  BY <1>4, <1>5, <1>2, IsASeq DEF Text
<1> QED  BY <1>4, <1>5, <1>6

\* Taking out a block leaves what is before Front and after Stop, with some of
\* the newlines taken away.
Front(text) == BackFrom(text, First(text, "BEGIN"))

LEMMA FrontIn ==
    ASSUME NEW text \in Text, HasBoth(text)
    PROVE  /\ First(text, "BEGIN") \in 1..Len(text)
           /\ text[First(text, "BEGIN")] = "BEGIN"
           /\ Front(text) \in 1..First(text, "BEGIN")
           /\ \A i \in Front(text)..(First(text, "BEGIN") - 1) : text[i] = NL
<1> DEFINE b == First(text, "BEGIN")
<1>1. b \in 1..Len(text) /\ text[b] = "BEGIN" /\ Len(text) \in Nat
  BY FirstIsLeast DEF HasBoth, Text
<1> HIDE DEF b
<1>2. \/ BackFrom(text, b) = b
      \/ b > 1 /\ text[b - 1] = NL /\ BackFrom(text, b) = b - 1
      \/ b > 2 /\ text[b - 1] = NL /\ text[b - 2] = NL /\ BackFrom(text, b) = b - 2
  BY DEF BackFrom
<1>3. CASE BackFrom(text, b) = b
  BY <1>1, <1>3 DEF Front, b
<1>4. CASE b > 1 /\ text[b - 1] = NL /\ BackFrom(text, b) = b - 1
  <2>1. \A i \in (b - 1)..(b - 1) : i = b - 1
    BY <1>1
  <2> QED  BY <1>1, <1>4, <2>1 DEF Front, b
<1>5. CASE b > 2 /\ text[b - 1] = NL /\ text[b - 2] = NL /\ BackFrom(text, b) = b - 2
  <2>1. \A i \in (b - 2)..(b - 1) : i = b - 2 \/ i = b - 1
    BY <1>1
  <2> QED  BY <1>1, <1>5, <2>1 DEF Front, b
<1> QED  BY <1>2, <1>3, <1>4, <1>5

\* The positions Collapsed keeps.
Few(text) ==
    {i \in DOMAIN text :
        ~(i > 2 /\ text[i] = NL /\ text[i - 1] = NL /\ text[i - 2] = NL)}

LEMMA StrippedJoins ==
    ASSUME NEW text \in Text, HasBoth(text)
    PROVE  /\ Join(text, Front(text), Stop(text)) \in Text
           /\ Stripped(text) = Collapsed(Join(text, Front(text), Stop(text)))
<1>1. Front(text) \in 1..(Len(text) + 1) /\ Stop(text) \in 0..Len(text)
  <2>1. Len(text) \in Nat
    BY DEF Text
  <2> QED  BY <2>1, FrontIn, StartStop
<1>2. Join(text, Front(text), Stop(text)) \in Text
  BY <1>1, Joined
<1> QED  BY <1>2 DEF Stripped, Join, Front, Stop

LEMMA CollapsedSelects ==
    ASSUME NEW text
    PROVE  /\ Collapsed(text) = Selection(text, Few(text))
           /\ Few(text) \subseteq DOMAIN text
BY DEF Collapsed, Few

LEMMA StrippedTyped ==
    ASSUME NEW text \in Text, HasBoth(text)
    PROVE  Stripped(text) \in Text
BY StrippedJoins, CollapsedSelects, SelectionTyped

\* The positions LineStripped keeps.
Chosen(text) ==
    {i \in DOMAIN text :
        IF text[i] = NL
        THEN /\ LineOf(text, i) + 1 \in KeptLines(text)
             /\ \E l \in KeptLines(text) : l <= LineOf(text, i)
        ELSE LineOf(text, i) \in KeptLines(text)}

LEMMA LineStrippedSelects ==
    ASSUME NEW text
    PROVE  /\ LineStripped(text) = text \/ LineStripped(text) = Selection(text, Chosen(text))
           /\ Chosen(text) \subseteq DOMAIN text
BY DEF LineStripped, Chosen

LEMMA LineStrippedTyped ==
    ASSUME NEW text \in Text
    PROVE  /\ LineStripped(text) \in Text
           /\ Ours(LineStripped(text)) # {} => Ours(text) # {}
<1>1. CASE LineStripped(text) = text
  BY <1>1
<1>2. CASE LineStripped(text) = Selection(text, Chosen(text))
  <2>1. /\ Selection(text, Chosen(text)) \in Text
        /\ \A n \in DOMAIN Selection(text, Chosen(text)) :
                \E i \in DOMAIN text : Selection(text, Chosen(text))[n] = text[i]
    BY LineStrippedSelects, SelectionTyped
  <2> QED  BY <1>2, <2>1 DEF Ours
<1> QED  BY <1>1, <1>2, LineStrippedSelects

-----------------------------------------------------------------------------
(* The type invariant *)

LEMMA NamesTyped ==
    ASSUME NEW harness \in Harness, NEW mode \in Body, NEW scope \in Scope
    PROVE  Names(harness, mode, scope) \in Seq(Name)
<1>1. harness \in Harnesses
  BY WiringAssumption
<1>2. CASE harness = "gemini-cli"
  BY <1>2 DEF Names, Name
<1>3. CASE harness = "github-copilot"
  BY <1>3 DEF Names, Name
<1>4. CASE harness = "windsurf"
  BY <1>4 DEF Names, Name
<1>5. CASE harness = "cursor"
  BY <1>5 DEF Names, Name
<1>6. CASE harness = "opencode"
  <2>1. CASE mode = "proxy"
    BY <1>6, <2>1 DEF Names, Name
  <2>2. CASE mode # "proxy"
    BY <1>6, <2>2 DEF Names, Name
  <2> QED  BY <2>1, <2>2
<1>7. CASE harness = "aider"
  <2>1. CASE mode = "proxy"
    BY <1>7, <2>1 DEF Names, Name
  <2>2. CASE mode # "proxy"
    BY <1>7, <2>2 DEF Names, Name
  <2> QED  BY <2>1, <2>2
<1>8. CASE harness = "claude-code"
  <2>1. CASE mode = "proxy"
    BY <1>8, <2>1 DEF Names, Name
  <2>2. CASE mode # "proxy"
    BY <1>8, <2>2 DEF Names, Name
  <2> QED  BY <2>1, <2>2
<1>9. CASE harness = "hermes-agent"
  <2>1. CASE scope = "repo"
    BY <1>9, <2>1 DEF Names, Name
  <2>2. CASE scope # "repo" /\ mode = "proxy"
    BY <1>9, <2>2 DEF Names, Name
  <2>3. CASE scope # "repo" /\ mode # "proxy"
    BY <1>9, <2>3 DEF Names, Name
  <2> QED  BY <2>1, <2>2, <2>3
<1>10. CASE harness = "cline"
  BY <1>10 DEF Names, Name
<1> QED  BY <1>1, <1>2, <1>3, <1>4, <1>5, <1>6, <1>7, <1>8, <1>9, <1>10 DEF Harnesses

\* What a wiring command has to do.
LEMMA PlanTyped ==
    ASSUME NEW root \in Place, NEW harness \in Harness, NEW mode \in Body,
           NEW scope \in Scope
    PROVE  [i \in DOMAIN Names(harness, mode, scope) |->
                FileAt(root, Names(harness, mode, scope)[i])] \in Seq(File)
<1>1. Names(harness, mode, scope) \in Seq(Name)
  BY NamesTyped
<1>2. \A i \in DOMAIN Names(harness, mode, scope) :
        FileAt(root, Names(harness, mode, scope)[i]) \in File
  <2> TAKE i \in DOMAIN Names(harness, mode, scope)
  <2>1. Names(harness, mode, scope)[i] \in Name
    BY <1>1
  <2> QED  BY <2>1 DEF File
<1>3. /\ DOMAIN Names(harness, mode, scope) = 1..Len(Names(harness, mode, scope))
      /\ Len(Names(harness, mode, scope)) \in Nat
  BY <1>1
<1> QED  BY <1>2, <1>3, IsASeq

\* The steps tell the commands apart.
LEMMA StepOfCommand ==
    ASSUME WiringTypeOK
    PROVE  /\ command.step = "write" <=> command \in Wire
           /\ command.step \in {"examine", "forget"} <=> command \in Removal
           /\ command = Idle <=> command.step = "idle"
BY DEF WiringTypeOK, Idle, Wire, Removal

LEMMA EndTyped ==
    ASSUME WiringTypeOK, End
    PROVE  /\ staged' \in [File -> Entry \cup {None}]
           /\ command' \in {Idle}
           /\ todo' \in Seq(File)
           /\ left' = {} /\ handled' \subseteq File
           /\ commands' \in 0..MaxCommands
           /\ command' \notin Wire => todo' = <<>> /\ staged' = Nothing
           /\ command' \notin Removal => left' = {} /\ handled' = {}
BY DEF WiringTypeOK, End, Nothing

LEMMA OutcomeTyped ==
    ASSUME WiringTypeOK, command \in Removal, NEW f \in left
    PROVE  Outcome(f) \in Text \cup {None}
<1>1. f \in File /\ files[f] \in Text \cup {None} /\ entries[f] \in Entry
  BY DEF WiringTypeOK, Recorded
<1>2. CASE ~Authorised(f) \/ files[f] = None
  BY <1>1, <1>2 DEF Outcome
<1>3. CASE Authorised(f) /\ files[f] # None
  <2>1. files[f] \in Text
    BY <1>1, <1>3
  <2>2. HasBoth(files[f]) => Stripped(files[f]) \in Text
    BY <2>1, StrippedTyped
  <2>3. entries[f].original \in Text \cup {None}
    BY <1>1 DEF Entry
  <2> QED  BY <1>3, <2>1, <2>2, <2>3 DEF Outcome
<1> QED  BY <1>2, <1>3

\* An edit replaces a part of a text by what users write.
LEMMA EditSplices ==
    ASSUME WiringTypeOK, Edit
    PROVE  \E f \in File, middle \in Seq(UserLine \cup {NL}) :
            /\ files[f] \in Text
            /\ \E b \in 1..(Len(files[f]) + 1), e \in 0..Len(files[f]) :
                /\ b <= e + 1
                /\ files' = [files EXCEPT ![f] = Splice(files[f], b, middle, e)]
            /\ edits' \in [File -> 0..MaxEdits]
<1>1. PICK f \in File :
        /\ files[f] # None /\ EditsLeft(f)
        /\ \/ \E i \in 0..Len(files[f]) :
                \/ \E line \in UserLine \ {FirstLine} : AddLine(f, i, line)
                \/ Break(f, i)
           \/ \E i \in DOMAIN files[f] : DropLine(f, i)
        /\ edits' = [edits EXCEPT ![f] = @ + 1]
  BY DEF Edit
<1>2. files[f] \in Text /\ Len(files[f]) \in Nat
  BY <1>1 DEF WiringTypeOK, Text
<1>3. edits' \in [File -> 0..MaxEdits]
  BY <1>1, WiringAssumption DEF WiringTypeOK, EditsLeft
<1>4. ASSUME NEW i \in 0..Len(files[f]), NEW pieces \in Seq(UserLine \cup {NL}),
             Put(f, i, pieces)
      PROVE  /\ i + 1 \in 1..(Len(files[f]) + 1) /\ i \in 0..Len(files[f])
             /\ files' = [files EXCEPT ![f] = Splice(files[f], i + 1, pieces, i)]
  <2>1. i + 1 \in 1..(Len(files[f]) + 1) /\ (i + 1) - 1 = i
    BY <1>2
  <2> QED  BY <1>4, <2>1 DEF Put, Splice, Before
<1>5. ASSUME NEW i \in 0..Len(files[f]), NEW line \in UserLine, AddLine(f, i, line)
      PROVE  \E pieces \in Seq(UserLine \cup {NL}) : Put(f, i, pieces)
  <2>1. <<line, NL>> \in Seq(UserLine \cup {NL}) /\ <<NL, line, NL>> \in Seq(UserLine \cup {NL})
    OBVIOUS
  <2> QED  BY <1>5, <2>1 DEF AddLine
<1>6. <<NL, NL, NL>> \in Seq(UserLine \cup {NL})
  OBVIOUS
<1>7. ASSUME NEW i \in DOMAIN files[f], DropLine(f, i)
      PROVE  \E e \in i..Len(files[f]) :
                files' = [files EXCEPT ![f] = Splice(files[f], i, << >>, e)]
  <2>1. i \in 1..(Len(files[f]) + 1)
    BY <1>2 DEF Text
  <2>2. Before(files[f], i) \in Text
    BY <1>2, <2>1, PartsTyped
  <2>3. Before(files[f], i) \o << >> = Before(files[f], i)
    BY <2>2, ConcatEmptySeq DEF Text
  <2>4. PICK e \in i..Len(files[f]) :
            files' = [files EXCEPT ![f] = Before(@, i) \o After(@, e)]
    BY <1>7 DEF DropLine
  <2> QED  BY <2>3, <2>4 DEF Splice
<1>8. CASE \E i \in 0..Len(files[f]) :
            \/ \E line \in UserLine \ {FirstLine} : AddLine(f, i, line)
            \/ Break(f, i)
  <2>1. PICK i \in 0..Len(files[f]), pieces \in Seq(UserLine \cup {NL}) : Put(f, i, pieces)
    BY <1>5, <1>6, <1>8 DEF Break
  <2>2. /\ i + 1 \in 1..(Len(files[f]) + 1) /\ i \in 0..Len(files[f])
        /\ files' = [files EXCEPT ![f] = Splice(files[f], i + 1, pieces, i)]
    BY <1>4, <2>1
  <2>3. i + 1 <= i + 1
    BY <1>2
  <2>4. \E b \in 1..(Len(files[f]) + 1), e \in 0..Len(files[f]) :
            /\ b <= e + 1
            /\ files' = [files EXCEPT ![f] = Splice(files[f], b, pieces, e)]
    BY <2>2, <2>3
  <2> QED  BY <1>2, <1>3, <2>4
<1>9. CASE \E i \in DOMAIN files[f] : DropLine(f, i)
  <2>1. PICK i \in DOMAIN files[f] : DropLine(f, i)
    BY <1>9
  <2>2. PICK e \in i..Len(files[f]) :
            files' = [files EXCEPT ![f] = Splice(files[f], i, << >>, e)]
    BY <1>7, <2>1
  <2>3. i \in 1..(Len(files[f]) + 1) /\ e \in 0..Len(files[f]) /\ i <= e + 1
    BY <1>2 DEF Text
  <2>4. << >> \in Seq(UserLine \cup {NL})
    OBVIOUS
  <2> QED  BY <1>2, <1>3, <2>2, <2>3, <2>4
<1> QED  BY <1>1, <1>8, <1>9

\* Whatever commands run, are refused or killed, and whatever the user edits
\* between them, the files hold texts, the entries record texts, and what one
\* command had in the making is gone when the next one starts.
THEOREM WiringTyping == Spec => []WiringTypeOK
<1>1. Init => WiringTypeOK
  <2> SUFFICES ASSUME Init PROVE WiringTypeOK
    OBVIOUS
  <2>1. files \in [File -> Text \cup {None}]
    <3>1. <<FirstLine, NL>> \in Text
      BY WiringAssumption DEF Text, Piece
    <3> QED  BY <3>1 DEF Init
  <2>2. /\ entries \in [File -> Entry \cup {None}]
        /\ staged \in [File -> Entry \cup {None}]
    BY DEF Init, Nothing
  <2>3. /\ commands \in 0..MaxCommands /\ edits \in [File -> 0..MaxEdits]
    BY WiringAssumption DEF Init
  <2> QED  BY <2>1, <2>2, <2>3 DEF Init, WiringTypeOK
<1>2. WiringTypeOK /\ [Next]_vars => WiringTypeOK'
  <2> SUFFICES ASSUME WiringTypeOK, [Next]_vars PROVE WiringTypeOK'
    OBVIOUS
  <2>1. CASE Edit
    <3>1. PICK f \in File, middle \in Seq(UserLine \cup {NL}) :
            /\ files[f] \in Text
            /\ \E b \in 1..(Len(files[f]) + 1), e \in 0..Len(files[f]) :
                files' = [files EXCEPT ![f] = Splice(files[f], b, middle, e)]
            /\ edits' \in [File -> 0..MaxEdits]
      BY <2>1, EditSplices
    <3>2. middle \in Text
      BY DEF Text, Piece
    <3>3. files' \in [File -> Text \cup {None}]
      BY <3>1, <3>2, Spliced DEF WiringTypeOK
    <3> QED  BY <2>1, <3>1, <3>3 DEF Edit, WiringTypeOK, Recorded, run
  <2>2. ASSUME NEW root \in Place, NEW harness \in Harness, NEW mode \in Body,
               NEW scope \in Scope, NEW force \in BOOLEAN,
               StartWire(root, harness, mode, scope, force)
        PROVE  WiringTypeOK'
    <3>1. command' \in Wire
      BY <2>2 DEF StartWire, Wire
    <3>2. todo' \in Seq(File)
      BY <2>2, PlanTyped DEF StartWire
    <3>3. commands' \in 0..MaxCommands
      BY <2>2, WiringAssumption DEF StartWire, CommandsLeft, WiringTypeOK
    <3>4. command \notin Wire /\ command \notin Removal
      BY <2>2, StepOfCommand DEF StartWire, CommandsLeft, Idle
    <3> QED  BY <2>2, <3>1, <3>2, <3>3, <3>4 DEF StartWire, WiringTypeOK, Recorded
  <2>3. CASE Write
    <3> DEFINE f == Head(todo)
    <3>1. /\ f \in File /\ Tail(todo) \in Seq(File)
          /\ command \in Wire /\ command.mode \in Body
      BY <2>3, StepOfCommand, HeadTailProperties DEF Write, WiringTypeOK, Wire
    <3>2. Existing(f) \in Text /\ files[f] \in Text \cup {None}
      BY <3>1, EmptySeq DEF Existing, WiringTypeOK, Text
    <3>3. /\ <<command.mode>> \in Text /\ Block(command.mode) \in Text
          /\ Injected(Existing(f), command.mode, Gap(f)) \in Text
      <4> HIDE DEF f
      <4>1. <<command.mode>> \in Text /\ Block(command.mode) \in Text
        BY <3>1 DEF Block, Text, Piece, Sentinel
      <4>2. Injected(Existing(f), command.mode, Gap(f)) \in Text
        BY <3>1, <3>2, InjectedTyped DEF Gap, Gaps
      <4> QED  BY <4>1, <4>2
    <3>4. EntryFor(f, command.mode) \in Entry
      BY <3>2, <3>3 DEF EntryFor, Entry
    <3>5. files' = [files EXCEPT ![f] =
                IF f.name \in Dedicated THEN <<command.mode>>
                ELSE Injected(Existing(f), command.mode, Gap(f))]
      BY <2>3 DEF Write
    <3>6. staged' = [staged EXCEPT ![f] = EntryFor(f, command.mode)]
      BY <2>3 DEF Write
    <3> HIDE DEF f
    <3>7. files' \in [File -> Text \cup {None}]
      BY <3>1, <3>3, <3>5 DEF WiringTypeOK
    <3>8. staged' \in [File -> Entry \cup {None}]
      BY <3>1, <3>4, <3>6 DEF WiringTypeOK
    <3> QED  BY <2>3, <3>1, <3>7, <3>8 DEF Write, WiringTypeOK, Recorded
  <2>4. CASE Refuse
    <3>1. untracked' \subseteq File
      BY <2>4 DEF Refuse, Leave, Staged, WiringTypeOK
    <3>2. End
      BY <2>4 DEF Refuse
    <3> QED  BY <2>4, <3>1, <3>2, EndTyped DEF Refuse, WiringTypeOK
  <2>5. CASE Record
    <3>1. \A f \in File : Merged(f) \in Entry \cup {None}
      BY DEF Merged, Entry, WiringTypeOK
    <3>2. End
      BY <2>5 DEF Record
    <3> QED  BY <2>5, <3>1, <3>2, EndTyped DEF Record, WiringTypeOK
  <2>6. ASSUME NEW root \in Repo, NEW all \in BOOLEAN, NEW forget \in BOOLEAN,
               NEW force \in BOOLEAN, StartRemoval(root, all, forget, force)
        PROVE  WiringTypeOK'
    <3>1. command' \in Removal
      BY <2>6 DEF StartRemoval, Removal
    <3>2. commands' \in 0..MaxCommands
      BY <2>6, WiringAssumption DEF StartRemoval, CommandsLeft, WiringTypeOK
    <3>3. command \notin Wire /\ command \notin Removal
      BY <2>6, StepOfCommand DEF StartRemoval, CommandsLeft, Idle
    <3> QED  BY <2>6, <3>1, <3>2, <3>3 DEF StartRemoval, Recorded, WiringTypeOK
  <2>7. CASE Examine
    <3>1. command \in Removal
      BY <2>7, StepOfCommand DEF Examine
    <3>2. PICK f \in left :
            /\ files' = [files EXCEPT ![f] = Outcome(f)]
            /\ handled' = IF Handles(f) THEN handled \cup {f} ELSE handled
            /\ left' = left \ {f}
      BY <2>7 DEF Examine
    <3>3. Outcome(f) \in Text \cup {None}
      BY <3>1, OutcomeTyped
    <3>4. left' \subseteq Recorded'
      BY <2>7, <3>2 DEF Examine, WiringTypeOK, Recorded
    <3>5. f \in File
      BY <3>2 DEF WiringTypeOK, Recorded
    <3> QED  BY <2>7, <3>1, <3>2, <3>3, <3>4, <3>5 DEF Examine, WiringTypeOK
  <2>8. CASE Clean
    <3>1. command \in Removal /\ command' \in Removal
      BY <2>8, StepOfCommand DEF Clean, Removal
    <3>2. \A f \in File : Cleaned(f) \in Text \cup {None}
      BY LineStrippedTyped
         DEF Cleaned, CleanedAider, CleanedOpencode, CleanedAtHome, EmptyDeleted, WiringTypeOK
    <3>3. command \notin Wire /\ command' \notin Wire
      BY <3>1 DEF Wire, Removal
    <3>4. files' \in [File -> Text \cup {None}]
      BY <2>8, <3>2 DEF Clean
    <3> QED  BY <2>8, <3>1, <3>3, <3>4 DEF Clean, WiringTypeOK, Recorded
  <2>9. CASE Forget
    <3>1. /\ entries' \in [File -> Entry \cup {None}]
          /\ untracked' \subseteq File
      BY <2>9 DEF Forget, Leave, Recorded, Nothing, WiringTypeOK
    <3>2. End
      BY <2>9 DEF Forget
    <3> QED  BY <2>9, <3>1, <3>2, EndTyped DEF Forget, WiringTypeOK
  <2>10. CASE Killed
    <3>1. untracked' \subseteq File
      BY <2>10 DEF Killed, Leave, Staged, WiringTypeOK
    <3>2. End
      BY <2>10 DEF Killed
    <3> QED  BY <2>10, <3>1, <3>2, EndTyped DEF Killed, WiringTypeOK
  <2>11. CASE UNCHANGED vars
    BY <2>11 DEF vars, run, WiringTypeOK, Recorded
  <2> QED  BY <2>1, <2>2, <2>3, <2>4, <2>5, <2>6, <2>7, <2>8, <2>9, <2>10, <2>11 DEF Next
<1> QED  BY <1>1, <1>2, PTL DEF Spec

-----------------------------------------------------------------------------
(* No file with our lines is forgotten *)

\* What the user puts in a text brings in nothing of ours.
LEMMA OursOfSplice ==
    ASSUME NEW text \in Text, NEW middle \in Seq(UserLine \cup {NL}),
           NEW b \in 1..(Len(text) + 1), NEW e \in 0..Len(text),
           Ours(Splice(text, b, middle, e)) # {}
    PROVE  Ours(text) # {}
<1> DEFINE other == Splice(text, b, middle, e)
<1>1. PICK k \in DOMAIN other : other[k] \notin UserLine \cup {NL}
  BY DEF Ours
<1>2. middle \in Text /\ \A i \in DOMAIN middle : middle[i] \in UserLine \cup {NL}
  BY DEF Text, Piece
<1>3. /\ other[k] = IF k < b THEN text[k]
                    ELSE IF k < b + Len(middle) THEN middle[k - (b - 1)]
                    ELSE text[(k - (b - 1) - Len(middle)) + e]
      /\ k \in Int
      /\ k < b => k \in DOMAIN text
      /\ k >= b /\ k < b + Len(middle) => k - (b - 1) \in DOMAIN middle
      /\ k >= b + Len(middle) =>
            (k - (b - 1) - Len(middle)) + e \in (e + 1)..Len(text)
  BY <1>1, <1>2, SpliceOrigin
<1> HIDE DEF other
<1>4. /\ (e + 1)..Len(text) \subseteq DOMAIN text
      /\ Len(middle) \in Nat
  BY <1>2 DEF Text
<1>5. \E i \in DOMAIN text : other[k] = text[i]
  <2>1. CASE k < b
    BY <1>3, <2>1
  <2>2. CASE k >= b /\ k < b + Len(middle)
    BY <1>1, <1>2, <1>3, <2>2
  <2>3. CASE k >= b + Len(middle)
    BY <1>3, <1>4, <2>3
  <2> QED  BY <1>3, <1>4, <2>1, <2>2, <2>3
<1> QED  BY <1>1, <1>5 DEF Ours

\* A file that the entries list stays listed when a command adds its own, and
\* so do the files of the command.
LEMMA MergedListed ==
    ASSUME WiringTypeOK, NEW f \in File
    PROVE  Merged(f) # None <=> entries[f] # None \/ staged[f] # None
<1>1. /\ entries[f] \in Entry \cup {None} /\ staged[f] \in Entry \cup {None}
      /\ None \notin Entry
  BY WiringAssumption DEF WiringTypeOK
<1>2. CASE staged[f] = None
  BY <1>2 DEF Merged
<1>3. CASE staged[f] # None
  <2>1. Merged(f) \in Entry
    BY <1>1, <1>3 DEF Merged, Entry
  <2> QED  BY <2>1, <1>1, <1>3
<1> QED  BY <1>2, <1>3

LEMMA TrackedStep ==
    ASSUME WiringTypeOK, WiringTypeOK', Tracked, [Next]_vars
    PROVE  Tracked'
<1>1. CASE Edit
  <2>1. PICK f \in File, middle \in Seq(UserLine \cup {NL}) :
          /\ files[f] \in Text
          /\ \E b \in 1..(Len(files[f]) + 1), e \in 0..Len(files[f]) :
              files' = [files EXCEPT ![f] = Splice(files[f], b, middle, e)]
    BY <1>1, EditSplices
  <2>2. files[f] # None
    BY <2>1, WiringAssumption
  <2>3. Ours(files'[f]) # {} => Ours(files[f]) # {}
    <3>1. PICK b \in 1..(Len(files[f]) + 1), e \in 0..Len(files[f]) :
              files' = [files EXCEPT ![f] = Splice(files[f], b, middle, e)]
      BY <2>1
    <3>2. files'[f] = Splice(files[f], b, middle, e)
      BY <3>1 DEF WiringTypeOK
    <3> QED  BY <2>1, <3>2, OursOfSplice
  <2>4. \A g \in File : g # f => files'[g] = files[g]
    BY <2>1 DEF WiringTypeOK
  <2> QED  BY <1>1, <2>2, <2>3, <2>4 DEF Edit, Tracked, run
<1>2. ASSUME NEW root \in Place, NEW harness \in Harness, NEW mode \in Body,
             NEW scope \in Scope, NEW force \in BOOLEAN,
             StartWire(root, harness, mode, scope, force)
      PROVE  Tracked'
  BY <1>2 DEF StartWire, Tracked
<1>3. CASE Write
  <2> DEFINE f == Head(todo)
  <2>1. f \in File
    BY <1>3, HeadTailProperties DEF Write, WiringTypeOK
  <2>2. /\ files' = [files EXCEPT ![f] =
                IF f.name \in Dedicated THEN <<command.mode>>
                ELSE Injected(Existing(f), command.mode, Gap(f))]
        /\ staged' = [staged EXCEPT ![f] = EntryFor(f, command.mode)]
        /\ entries' = entries /\ untracked' = untracked
    BY <1>3 DEF Write
  <2> HIDE DEF f
  <2>3. staged'[f] # None
    <3>1. EntryFor(f, command.mode) = staged'[f] /\ staged'[f] \in Entry \cup {None}
      BY <2>1, <2>2 DEF WiringTypeOK
    <3>2. command.mode \in Body /\ files[f] \in Text \cup {None}
      BY <1>3, <2>1, StepOfCommand DEF Write, Wire, WiringTypeOK
    <3>3. EntryFor(f, command.mode) \in Entry
      <4>1. <<command.mode>> \in Text /\ Block(command.mode) \in Text
        BY <3>2 DEF Block, Text, Piece, Sentinel
      <4> QED  BY <3>2, <4>1 DEF EntryFor, Entry
    <3> QED  BY <3>1, <3>3, WiringAssumption
  <2>4. \A g \in File : g # f => files'[g] = files[g] /\ staged'[g] = staged[g]
    BY <2>1, <2>2 DEF WiringTypeOK
  <2> QED  BY <2>2, <2>3, <2>4 DEF Tracked
<1>4. CASE Refuse
  BY <1>4 DEF Refuse, Leave, End, Staged, Tracked
<1>5. CASE Record
  <2>1. \A f \in File : entries'[f] # None <=> entries[f] # None \/ staged[f] # None
    BY <1>5, MergedListed DEF Record
  <2>2. \A f \in File : f \in untracked => f \in untracked' \/ staged[f] # None
    BY <1>5 DEF Record, Staged
  <2> QED  BY <1>5, <2>1, <2>2 DEF Record, Tracked
<1>6. ASSUME NEW root \in Repo, NEW all \in BOOLEAN, NEW forget \in BOOLEAN,
             NEW force \in BOOLEAN, StartRemoval(root, all, forget, force)
      PROVE  Tracked'
  BY <1>6 DEF StartRemoval, Tracked
<1>7. CASE Examine
  <2>1. PICK f \in left : files' = [files EXCEPT ![f] = Outcome(f)]
    BY <1>7 DEF Examine
  <2>2. f \in File /\ entries[f] # None
    BY DEF WiringTypeOK, Recorded
  <2>3. \A g \in File : g # f => files'[g] = files[g]
    BY <2>1, <2>2 DEF WiringTypeOK
  <2> QED  BY <1>7, <2>2, <2>3 DEF Examine, Tracked
<1>8. CASE Clean
  <2>1. ASSUME NEW f \in File, Cleaned(f) # None, Ours(Cleaned(f)) # {}
        PROVE  files[f] # None /\ Ours(files[f]) # {}
    <3>1. files[f] # None
      BY <2>1 DEF Cleaned
    <3>2. files[f] \in Text
      BY <3>1 DEF WiringTypeOK
    <3>3. Cleaned(f) \in {files[f], LineStripped(files[f]), None}
      BY DEF Cleaned, CleanedAider, CleanedOpencode, CleanedAtHome, EmptyDeleted
    <3> QED  BY <2>1, <3>1, <3>2, <3>3, LineStrippedTyped
  <2>2. \A f \in File : files'[f] = Cleaned(f)
    BY <1>8 DEF Clean
  <2>3. entries' = entries /\ staged' = staged /\ untracked' = untracked
    BY <1>8 DEF Clean
  <2> QED  BY <2>1, <2>2, <2>3 DEF Tracked
<1>9. CASE Forget
  <2>1. command \in Removal
    BY <1>9, StepOfCommand DEF Forget
  <2>2. \A f \in File : staged[f] = None
    BY <2>1 DEF WiringTypeOK, Wire, Removal, Nothing
  <2>3. \A f \in File :
            f \in untracked \/ entries[f] # None => f \in untracked' \/ entries'[f] # None
    BY <1>9 DEF Forget, Leave, Recorded
  <2> QED  BY <1>9, <2>2, <2>3 DEF Forget, Tracked
<1>10. CASE Killed
  BY <1>10 DEF Killed, Leave, End, Staged, Tracked
<1>11. CASE UNCHANGED vars
  BY <1>11 DEF vars, run, Tracked
<1> QED  BY <1>1, <1>2, <1>3, <1>4, <1>5, <1>6, <1>7, <1>8, <1>9, <1>10, <1>11 DEF Next

\* A file with lines of ours is one that install-state.json lists, unless a
\* command was killed, refused or told to forget the state: what uninstall
\* has to go through is never lost by wiring, unwiring or editing.
THEOREM FilesTracked == Spec => []Tracked
<1>1. Init => Tracked
  BY WiringAssumption DEF Init, Tracked, Ours
<1>2. WiringTypeOK /\ WiringTypeOK' /\ Tracked /\ [Next]_vars => Tracked'
  BY TrackedStep
<1> QED  BY <1>1, <1>2, WiringTyping, PTL DEF Spec

-----------------------------------------------------------------------------
(* One block, and what is around it *)

\* BEGIN, END, BEGIN and END again, with anything between them.
Alternating(text) ==
    \E a, b, c, d \in DOMAIN text :
        /\ a < b /\ b < c /\ c < d
        /\ text[a] = "BEGIN" /\ text[b] = "END"
        /\ text[c] = "BEGIN" /\ text[d] = "END"

\* Two pairs would be two such turns.
LEMMA OnePair ==
    ASSUME NEW text \in Text, ~Alternating(text)
    PROVE  Cardinality(Pairs(text)) <= 1
<1>1. ASSUME NEW p \in Pairs(text), NEW q \in Pairs(text)
      PROVE  p = q
  <2>1. /\ p = <<p[1], p[2]>> /\ q = <<q[1], q[2]>>
        /\ p[1] \in At(text, "BEGIN") /\ p[2] \in At(text, "END")
        /\ q[1] \in At(text, "BEGIN") /\ q[2] \in At(text, "END")
    BY <1>1 DEF Pairs
  <2>2. /\ p[1] \in 1..Len(text) /\ p[2] \in 1..Len(text)
        /\ q[1] \in 1..Len(text) /\ q[2] \in 1..Len(text)
        /\ text[p[1]] = "BEGIN" /\ text[p[2]] = "END"
        /\ text[q[1]] = "BEGIN" /\ text[q[2]] = "END"
        /\ Len(text) \in Nat /\ DOMAIN text = 1..Len(text)
    BY <2>1 DEF At, Text
  <2>3. /\ p[1] < p[2] /\ q[1] < q[2]
        /\ \A i \in DOMAIN text :
            /\ p[1] < i /\ i < p[2] => text[i] \notin Sentinel
            /\ q[1] < i /\ i < q[2] => text[i] \notin Sentinel
    BY <1>1 DEF Pairs
  <2>4. \A i \in {p[1], p[2], q[1], q[2]} : ~(p[1] < i /\ i < p[2]) /\ ~(q[1] < i /\ i < q[2])
    BY <2>2, <2>3 DEF Sentinel
  <2>5. /\ p[1] # p[2] /\ p[1] # q[2] /\ q[1] # p[2] /\ q[1] # q[2]
        /\ ~(p[2] < q[1]) /\ ~(q[2] < p[1])
    <3>1. p[2] < q[1] => Alternating(text)
      BY <2>2, <2>3 DEF Alternating
    <3>2. q[2] < p[1] => Alternating(text)
      BY <2>2, <2>3 DEF Alternating
    <3> QED  BY <2>2, <3>1, <3>2
  <2>6. p[1] = q[1] /\ p[2] = q[2]
    BY <2>2, <2>3, <2>4, <2>5
  <2> QED  BY <2>1, <2>6
<1>2. CASE Pairs(text) = {}
  BY <1>2, FS_EmptySet
<1>3. CASE Pairs(text) # {}
  <2>1. PICK p \in Pairs(text) : TRUE
    BY <1>3
  <2>2. Pairs(text) = {p}
    BY <1>1, <2>1
  <2> QED  BY <2>2, FS_Singleton
<1> QED  BY <1>2, <1>3

\* The turns of a text are those of any other that its sentinels come from in
\* their order.
LEMMA TurnsOfPart ==
    ASSUME NEW text \in Text, NEW other \in Text, ~Alternating(text),
           NEW origin \in [DOMAIN other -> Int],
           \A i \in DOMAIN other : other[i] \in Sentinel =>
                origin[i] \in DOMAIN text /\ text[origin[i]] = other[i],
           \A i, j \in DOMAIN other :
                i < j /\ other[i] \in Sentinel /\ other[j] \in Sentinel
                    => origin[i] < origin[j]
    PROVE  ~Alternating(other)
<1> SUFFICES ASSUME NEW a \in DOMAIN other, NEW b \in DOMAIN other,
                    NEW c \in DOMAIN other, NEW d \in DOMAIN other,
                    a < b, b < c, c < d,
                    other[a] = "BEGIN", other[b] = "END",
                    other[c] = "BEGIN", other[d] = "END"
             PROVE  FALSE
  BY DEF Alternating
<1>1. /\ origin[a] \in DOMAIN text /\ text[origin[a]] = "BEGIN"
      /\ origin[b] \in DOMAIN text /\ text[origin[b]] = "END"
      /\ origin[c] \in DOMAIN text /\ text[origin[c]] = "BEGIN"
      /\ origin[d] \in DOMAIN text /\ text[origin[d]] = "END"
  BY DEF Sentinel
<1>2. origin[a] < origin[b] /\ origin[b] < origin[c] /\ origin[c] < origin[d]
  BY DEF Sentinel
<1> QED  BY <1>1, <1>2 DEF Alternating

\* What the user puts in and takes out makes no new turn.
LEMMA TurnsOfSplice ==
    ASSUME NEW text \in Text, ~Alternating(text),
           NEW middle \in Seq(UserLine \cup {NL}),
           NEW b \in 1..(Len(text) + 1), NEW e \in 0..Len(text), b <= e + 1
    PROVE  ~Alternating(Splice(text, b, middle, e))
<1> DEFINE other == Splice(text, b, middle, e)
           origin == [k \in DOMAIN other |->
                        IF k < b THEN k ELSE (k - (b - 1) - Len(middle)) + e]
<1>1. /\ middle \in Text /\ Len(middle) \in Nat
      /\ \A i \in DOMAIN middle : middle[i] \notin Sentinel
  BY UserLineAssumption DEF Text, Piece, Sentinel, NL
<1>2. other \in Text
  BY <1>1, Spliced
<1>3. \A k \in DOMAIN other :
        /\ other[k] = IF k < b THEN text[k]
                      ELSE IF k < b + Len(middle) THEN middle[k - (b - 1)]
                      ELSE text[(k - (b - 1) - Len(middle)) + e]
        /\ k \in Int
        /\ k < b => k \in DOMAIN text
        /\ k >= b /\ k < b + Len(middle) => k - (b - 1) \in DOMAIN middle
        /\ k >= b + Len(middle) =>
              (k - (b - 1) - Len(middle)) + e \in (e + 1)..Len(text)
  BY <1>1, SpliceOrigin
<1>4. Len(text) \in Nat /\ DOMAIN text = 1..Len(text)
  BY DEF Text
<1> HIDE DEF other
<1>5. origin \in [DOMAIN other -> Int]
  BY <1>1, <1>3
<1>6. ASSUME NEW k \in DOMAIN other, other[k] \in Sentinel
      PROVE  k < b \/ k >= b + Len(middle)
  BY <1>1, <1>3, <1>6
<1>7. ASSUME NEW k \in DOMAIN other, other[k] \in Sentinel
      PROVE  origin[k] \in DOMAIN text /\ text[origin[k]] = other[k]
  BY <1>1, <1>3, <1>4, <1>6, <1>7
<1>8. ASSUME NEW k \in DOMAIN other, NEW m \in DOMAIN other, k < m,
             other[k] \in Sentinel, other[m] \in Sentinel
      PROVE  origin[k] < origin[m]
  <2>1. /\ k \in Int /\ m \in Int
        /\ k < b \/ k >= b + Len(middle)
        /\ m < b \/ m >= b + Len(middle)
    BY <1>3, <1>6, <1>8
  <2>2. /\ origin[k] = IF k < b THEN k ELSE (k - (b - 1) - Len(middle)) + e
        /\ origin[m] = IF m < b THEN m ELSE (m - (b - 1) - Len(middle)) + e
    OBVIOUS
  <2> QED  BY <1>1, <1>4, <1>8, <2>1, <2>2
<1> HIDE DEF origin
<1>9. ~Alternating(other)
  BY <1>2, <1>5, <1>7, <1>8, TurnsOfPart
<1> QED  BY <1>9 DEF other

\* Nor does a selection of lines: positions of greater rank come later.
LEMMA TurnsOfSelection ==
    ASSUME NEW text \in Text, NEW K, K \subseteq DOMAIN text, ~Alternating(text)
    PROVE  ~Alternating(Selection(text, K))
<1>1. Len(text) \in Nat /\ DOMAIN text = 1..Len(text)
  BY DEF Text
<1>2. IsFiniteSet(K) /\ Cardinality(K) \in Nat
  <2>1. IsFiniteSet(1..Len(text))
    BY <1>1, FS_Interval
  <2>2. IsFiniteSet(K)
    BY <1>1, <2>1, FS_Subset
  <2> QED  BY <2>2, FS_CardinalityType
<1> DEFINE upto(i) == {j \in K : j <= i}
           place(n) == CHOOSE i \in K : Cardinality(upto(i)) = n
           origin == [n \in 1..Cardinality(K) |-> place(n)]
<1>3. \A n \in 1..Cardinality(K) :
        place(n) \in K /\ Cardinality(upto(place(n))) = n
  <2> TAKE n \in 1..Cardinality(K)
  <2>1. \E i \in K : Cardinality(upto(i)) = n
    BY <1>1, Rank
  <2> QED  BY <2>1
<1>4. /\ DOMAIN Selection(text, K) = 1..Cardinality(K)
      /\ \A n \in 1..Cardinality(K) : Selection(text, K)[n] = text[place(n)]
  BY DEF Selection
<1> HIDE DEF place, upto
<1>9. \A n \in 1..Cardinality(K) : origin[n] = place(n)
  OBVIOUS
<1>5. Selection(text, K) \in Text
  BY SelectionTyped
<1>6. origin \in [1..Cardinality(K) -> Int]
  BY <1>1, <1>3
<1> HIDE DEF origin
<1> USE <1>9
<1>7. ASSUME NEW n \in 1..Cardinality(K), NEW m \in 1..Cardinality(K), n < m
      PROVE  origin[n] < origin[m]
  <2> SUFFICES ASSUME ~(origin[n] < origin[m]) PROVE FALSE
    OBVIOUS
  <2>1. origin[n] \in Int /\ origin[m] \in Int /\ origin[m] <= origin[n]
    BY <1>6
  <2>2. upto(origin[m]) \subseteq upto(origin[n])
    <3>1. \A j \in K : j \in Int
      BY <1>1
    <3> QED  BY <2>1, <3>1 DEF upto
  <2>3. IsFiniteSet(upto(origin[n]))
    BY <1>2, FS_Subset DEF upto
  <2>4. Cardinality(upto(origin[m])) <= Cardinality(upto(origin[n]))
    BY <2>2, <2>3, FS_Subset
  <2> QED  BY <1>2, <1>3, <1>7, <2>4
<1>8. \A n \in DOMAIN Selection(text, K) :
        origin[n] \in DOMAIN text /\ text[origin[n]] = Selection(text, K)[n]
  BY <1>3, <1>4
<1> QED  BY <1>4, <1>5, <1>6, <1>7, <1>8, TurnsOfPart

LEMMA TurnsOfLineStripped ==
    ASSUME NEW text \in Text, ~Alternating(text)
    PROVE  ~Alternating(LineStripped(text))
BY LineStrippedSelects, TurnsOfSelection

\* Taking out a block: what is before the first BEGIN has no turn to begin.
LEMMA TurnsOfStripped ==
    ASSUME NEW text \in Text, HasBoth(text), ~Alternating(text)
    PROVE  ~Alternating(Stripped(text))
<1> DEFINE b == Front(text)
           e == Stop(text)
           other == Join(text, b, e)
<1>1. Len(text) \in Nat /\ DOMAIN text = 1..Len(text)
  BY DEF Text
<1>2. /\ b \in 1..Len(text) /\ e \in 1..Len(text)
      /\ \A i \in DOMAIN text : text[i] = "BEGIN" => b <= i
  <2>1. /\ First(text, "BEGIN") \in 1..Len(text)
        /\ \A i \in DOMAIN text : text[i] = "BEGIN" => First(text, "BEGIN") <= i
    BY FirstIsLeast DEF HasBoth
  <2>2. b \in 1..First(text, "BEGIN")
    BY FrontIn
  <2>3. e \in 0..Len(text) /\ e >= 1
    <3>1. /\ First(text, "END") \in 1..Len(text)
          /\ e \in {First(text, "END"), First(text, "END") + 1}
          /\ e \in 0..Len(text)
      BY StartStop
    <3> QED  BY <3>1
  <2> HIDE DEF b, e
  <2> QED  BY <1>1, <2>1, <2>2, <2>3
<1>3. Stripped(text) = Selection(other, Few(other)) /\ Few(other) \subseteq DOMAIN other
  BY StrippedJoins, CollapsedSelects
<1> HIDE DEF b, e
<1>4. b \in 1..(Len(text) + 1) /\ e \in 0..Len(text)
  BY <1>1, <1>2
<1>5. other \in Text /\ Len(other) = (b - 1) + (Len(text) - e)
  BY <1>4, Joined
<1>6. \A i \in 1..(b - 1) : other[i] = text[i]
  BY <1>4, Joined
<1>7. \A i \in (e + 1)..Len(text) : other[(b - 1) + (i - e)] = text[i]
  BY <1>4, Joined
<1> HIDE DEF other
<1>8. DOMAIN other = 1..((b - 1) + (Len(text) - e))
  BY <1>5 DEF Text
<1> DEFINE origin(k) == (k - (b - 1)) + e
<1>9. ASSUME NEW k \in DOMAIN other, b <= k
      PROVE  origin(k) \in DOMAIN text /\ text[origin(k)] = other[k]
  <2>1. origin(k) \in (e + 1)..Len(text) /\ (b - 1) + (origin(k) - e) = k
    BY <1>1, <1>2, <1>8, <1>9
  <2> HIDE DEF origin
  <2>2. other[k] = text[origin(k)]
    BY <1>7, <2>1
  <2> QED  BY <1>1, <1>2, <2>1, <2>2
<1>10. ASSUME NEW k \in DOMAIN other, other[k] = "BEGIN"
       PROVE  b <= k
  BY <1>1, <1>2, <1>6, <1>8, <1>10
<1>11. ~Alternating(other)
  <2> SUFFICES ASSUME NEW h \in DOMAIN other, NEW i \in DOMAIN other,
                      NEW j \in DOMAIN other, NEW k \in DOMAIN other,
                      h < i, i < j, j < k,
                      other[h] = "BEGIN", other[i] = "END",
                      other[j] = "BEGIN", other[k] = "END"
               PROVE  FALSE
    BY DEF Alternating
  <2>1. h \in Int /\ i \in Int /\ j \in Int /\ k \in Int /\ b \in Int /\ e \in Int
    BY <1>2, <1>8
  <2>2. b <= h /\ b <= i /\ b <= j /\ b <= k
    BY <1>10, <2>1
  <2>3. /\ origin(h) \in DOMAIN text /\ text[origin(h)] = "BEGIN"
        /\ origin(i) \in DOMAIN text /\ text[origin(i)] = "END"
        /\ origin(j) \in DOMAIN text /\ text[origin(j)] = "BEGIN"
        /\ origin(k) \in DOMAIN text /\ text[origin(k)] = "END"
    <3> HIDE DEF origin
    <3> QED  BY <1>9, <2>2
  <2>4. origin(h) < origin(i) /\ origin(i) < origin(j) /\ origin(j) < origin(k)
    BY <2>1
  <2> HIDE DEF origin
  <2> QED  BY <2>3, <2>4 DEF Alternating
<1> QED  BY <1>3, <1>5, <1>11, TurnsOfSelection

\* A text that _inject_sentinel_block accepts has one BEGIN and one END at
\* most.
LEMMA NoDuplicates ==
    ASSUME NEW text \in Text, ~Duplicates(text), NEW line \in Sentinel,
           NEW i \in DOMAIN text, NEW j \in DOMAIN text,
           text[i] = line, text[j] = line
    PROVE  i = j
<1> SUFFICES ASSUME i # j PROVE FALSE
  OBVIOUS
<1>1. {i, j} \subseteq At(text, line)
  BY DEF At
<1>2. IsFiniteSet(At(text, line))
  <2>1. Len(text) \in Nat /\ At(text, line) \subseteq 1..Len(text)
    BY DEF At, Text
  <2>2. IsFiniteSet(1..Len(text))
    BY <2>1, FS_Interval
  <2> QED  BY <2>1, <2>2, FS_Subset
<1>3. Cardinality({i, j}) = 2
  <2>1. IsFiniteSet({i}) /\ Cardinality({i}) = 1
    BY FS_Singleton
  <2>2. Cardinality({i} \cup {j}) = Cardinality({i}) + 1
    <3>1. j \notin {i}
      OBVIOUS
    <3> QED  BY <2>1, <3>1, FS_AddElement
  <2>3. {i} \cup {j} = {i, j}
    OBVIOUS
  <2> QED  BY <2>1, <2>2, <2>3
<1>4. Cardinality({i, j}) <= Cardinality(At(text, line))
  BY <1>1, <1>2, FS_Subset
<1>5. Cardinality(At(text, line)) \in Nat
  BY <1>2, FS_CardinalityType
<1>6. Cardinality(At(text, line)) > 1
  BY <1>3, <1>4, <1>5
<1> QED  BY <1>6 DEF Duplicates, Sentinel

\* A block that is put in, or put in the place of another, makes no new turn.
LEMMA TurnsOfInjected ==
    ASSUME NEW text \in Text, NEW body \in Body, NEW gap \in Gaps, ~Duplicates(text)
    PROVE  ~Alternating(Injected(text, body, gap))
<1> DEFINE middle == Middle(text, body, gap)
           b == Start(text)
           e == Stop(text)
           other == Splice(text, b, middle, e)
<1>1. b \in 1..(Len(text) + 1) /\ e \in 0..Len(text)
  BY StartStop
<1>2. middle \in Text
  BY MiddleShape
<1>3. PICK p \in DOMAIN middle, q \in DOMAIN middle :
        /\ p < q /\ middle[p] = "BEGIN" /\ middle[q] = "END"
        /\ \A i \in DOMAIN middle : middle[i] \in Sentinel => i \in {p, q}
  BY MiddleShape
<1>4. Injected(text, body, gap) = other
  BY InjectedSplices
<1>5. /\ Len(text) \in Nat /\ DOMAIN text = 1..Len(text)
      /\ Len(middle) \in Nat /\ DOMAIN middle = 1..Len(middle)
  BY <1>2 DEF Text
<1>6. HasBoth(text) =>
        /\ \A i \in DOMAIN text : text[i] = "BEGIN" => b <= i
        /\ \A i \in DOMAIN text : text[i] = "END" => i <= e
  <2> SUFFICES ASSUME HasBoth(text)
               PROVE  /\ \A i \in DOMAIN text : text[i] = "BEGIN" => b <= i
                      /\ \A i \in DOMAIN text : text[i] = "END" => i <= e
    OBVIOUS
  <2>1. \A i \in DOMAIN text : text[i] = "BEGIN" => b <= i
    BY FirstIsLeast DEF HasBoth, Start
  <2>2. /\ First(text, "END") \in DOMAIN text
        /\ text[First(text, "END")] = "END"
    BY <1>5, FirstIsLeast DEF HasBoth
  <2>3. ASSUME NEW i \in DOMAIN text, text[i] = "END"
        PROVE  i <= e
    <3>1. i = First(text, "END")
      BY <2>2, <2>3, NoDuplicates DEF Sentinel
    <3>2. e \in {First(text, "END"), First(text, "END") + 1}
      BY StartStop
    <3> HIDE DEF e
    <3> QED  BY <1>5, <3>1, <3>2
  <2> HIDE DEF b, e
  <2> QED  BY <2>1, <2>3
<1>7. ~HasBoth(text) =>
        /\ b = Len(text) + 1 /\ e = Len(text)
        /\ ~(\E i, j \in DOMAIN text : text[i] = "BEGIN" /\ text[j] = "END")
  BY DEF HasBoth, Has, At, Start, Stop
<1>8. \A k \in DOMAIN other :
        /\ other[k] = IF k < b THEN text[k]
                      ELSE IF k < b + Len(middle) THEN middle[k - (b - 1)]
                      ELSE text[(k - (b - 1) - Len(middle)) + e]
        /\ k \in Int
        /\ k < b => k \in DOMAIN text
        /\ k >= b /\ k < b + Len(middle) => k - (b - 1) \in DOMAIN middle
        /\ k >= b + Len(middle) =>
              (k - (b - 1) - Len(middle)) + e \in (e + 1)..Len(text)
  <2> HIDE DEF b, e, middle
  <2> QED  BY <1>1, <1>2, SpliceOrigin
<1> HIDE DEF middle, b, e, other
\* Between b and the end of what is put in, only p and q have sentinels.
<1>9. ASSUME NEW k \in DOMAIN other, other[k] \in Sentinel, k >= b, k < b + Len(middle)
      PROVE  \/ other[k] = "BEGIN" /\ k = p + (b - 1)
             \/ other[k] = "END" /\ k = q + (b - 1)
  <2>1. other[k] = middle[k - (b - 1)] /\ k - (b - 1) \in DOMAIN middle /\ k \in Int
    BY <1>1, <1>5, <1>8, <1>9
  <2>2. k - (b - 1) \in {p, q}
    BY <1>3, <1>9, <2>1
  <2> QED  BY <1>1, <1>3, <1>5, <2>1, <2>2
<1> SUFFICES ASSUME NEW h \in DOMAIN other, NEW i \in DOMAIN other,
                    NEW j \in DOMAIN other, NEW k \in DOMAIN other,
                    h < i, i < j, j < k,
                    other[h] = "BEGIN", other[i] = "END",
                    other[j] = "BEGIN", other[k] = "END"
             PROVE  FALSE
  BY <1>4 DEF Alternating
<1>10. /\ h \in Int /\ i \in Int /\ j \in Int /\ k \in Int
       /\ b \in Int /\ e \in Int /\ p \in Int /\ q \in Int
  BY <1>1, <1>3, <1>5, <1>8
<1>11. CASE HasBoth(text)
  <2>1. ASSUME NEW n \in DOMAIN other, other[n] = "BEGIN"
        PROVE  n >= b
    BY <1>1, <1>6, <1>8, <1>11, <2>1
  <2>2. ASSUME NEW n \in DOMAIN other, other[n] = "END"
        PROVE  n < b + Len(middle)
    <3> SUFFICES ASSUME ~(n < b + Len(middle)) PROVE FALSE
      OBVIOUS
    <3>1. n \in Int /\ n >= b + Len(middle) /\ ~(n < b)
      BY <1>5, <1>8, <1>10
    <3>2. /\ text[(n - (b - 1) - Len(middle)) + e] = "END"
          /\ (n - (b - 1) - Len(middle)) + e \in (e + 1)..Len(text)
      BY <1>8, <2>2, <3>1
    <3>3. (n - (b - 1) - Len(middle)) + e <= e
      BY <1>1, <1>5, <1>6, <1>11, <3>2
    <3> QED  BY <1>10, <3>2, <3>3
  <2>3. h >= b /\ k < b + Len(middle)
    BY <2>1, <2>2
  <2>4. h = p + (b - 1) /\ j = p + (b - 1)
    <3>1. h < b + Len(middle) /\ j >= b /\ j < b + Len(middle)
      BY <1>5, <1>10, <2>3
    <3> QED  BY <1>9, <2>3, <3>1 DEF Sentinel
  <2> QED  BY <1>10, <2>4
<1>12. CASE ~HasBoth(text)
  <2>1. ASSUME NEW n \in DOMAIN other
        PROVE  n < b + Len(middle)
    <3> SUFFICES ASSUME ~(n < b + Len(middle)) PROVE FALSE
      OBVIOUS
    <3>1. (n - (b - 1) - Len(middle)) + e \in (e + 1)..Len(text)
      BY <1>5, <1>8, <1>10
    <3> QED  BY <1>5, <1>7, <1>12, <3>1
  <2>2. ~(i < b)
    <3> SUFFICES ASSUME i < b PROVE FALSE
      OBVIOUS
    <3>1. h \in DOMAIN text /\ text[h] = "BEGIN" /\ i \in DOMAIN text /\ text[i] = "END"
      BY <1>8, <1>10
    <3> QED  BY <1>7, <1>12, <3>1
  <2>3. i = q + (b - 1)
    BY <1>9, <1>10, <2>1, <2>2 DEF Sentinel
  <2>4. j = p + (b - 1)
    BY <1>9, <1>10, <2>1, <2>2 DEF Sentinel
  <2> QED  BY <1>3, <1>10, <2>3, <2>4
<1> QED  BY <1>11, <1>12

\* What is not between b and e is kept when that is replaced, and stays on
\* lines of its own if there was a sentinel in it.
LEMMA SpliceKeeps ==
    ASSUME NEW text \in Text, NEW middle \in Text,
           NEW b \in 1..(Len(text) + 1), NEW e \in 0..Len(text),
           NEW K, K \subseteq DOMAIN text, \A i \in K : i < b \/ i > e,
           \A i, j \in K : i < b /\ j >= b => \E n \in i..j : text[n] \in Sentinel
    PROVE  KeptIn(text, K, Splice(text, b, middle, e))
<1> DEFINE other == Splice(text, b, middle, e)
           moved(i) == (b - 1) + Len(middle) + (i - e)
<1>1. /\ Len(text) \in Nat /\ DOMAIN text = 1..Len(text) /\ Len(middle) \in Nat
      /\ \A i \in K : i \in 1..Len(text)
  BY DEF Text
<1>2. /\ other \in Text
      /\ Len(other) = (b - 1) + Len(middle) + (Len(text) - e)
  BY Spliced
<1>3. \A i \in 1..(b - 1) : other[i] = text[i]
  BY Spliced
<1>4. \A i \in (e + 1)..Len(text) : other[moved(i)] = text[i]
  BY Spliced
<1> HIDE DEF other
<1>5. DOMAIN other = 1..((b - 1) + Len(middle) + (Len(text) - e))
  BY <1>2 DEF Text
<1>6. \A i \in (e + 1)..Len(text) : moved(i) \in DOMAIN other
  BY <1>1, <1>5
<1>7. ASSUME NEW i \in K, NEW j \in K, i <= j
      PROVE  \E k, m \in DOMAIN other :
                /\ k <= m /\ other[k] = text[i] /\ other[m] = text[j]
                /\ Unbroken(other, k, m) =>
                        \/ Unbroken(text, i, j)
                        \/ \E n \in i..j : text[n] \in Sentinel
  <2>1. CASE j < b
    <3>1. /\ i \in DOMAIN other /\ j \in DOMAIN other
          /\ \A n \in i..j : n \in 1..(b - 1)
      BY <1>1, <1>5, <1>7, <2>1
    <3>2. Unbroken(other, i, j) => Unbroken(text, i, j)
      BY <1>3, <3>1 DEF Unbroken
    <3>3. other[i] = text[i] /\ other[j] = text[j]
      BY <1>1, <1>3, <1>7, <3>1
    <3> QED  BY <1>7, <3>1, <3>2, <3>3
  <2>2. CASE i > e
    <3>1. /\ i \in (e + 1)..Len(text) /\ j \in (e + 1)..Len(text)
          /\ i \in Int /\ j \in Int /\ e \in Int /\ b \in Int
      BY <1>1, <1>7, <2>2
    <3>2. \A n \in i..j : n \in (e + 1)..Len(text) /\ moved(n) \in moved(i)..moved(j)
      BY <1>1, <3>1
    <3>3. Unbroken(other, moved(i), moved(j)) => Unbroken(text, i, j)
      BY <1>4, <3>2 DEF Unbroken
    <3>4. moved(i) <= moved(j)
      BY <1>1, <1>7, <3>1
    <3>5. /\ moved(i) \in DOMAIN other /\ other[moved(i)] = text[i]
          /\ moved(j) \in DOMAIN other /\ other[moved(j)] = text[j]
      BY <1>4, <1>6, <3>1
    <3> HIDE DEF moved
    <3> QED  BY <3>3, <3>4, <3>5
  <2>3. CASE ~(j < b) /\ ~(i > e)
    <3>1. /\ i < b /\ j > e
          /\ i \in Int /\ j \in Int /\ e \in Int /\ b \in Int
      BY <1>1, <2>3
    <3>2. \E n \in i..j : text[n] \in Sentinel
      BY <2>3, <3>1
    <3>3. i \in DOMAIN other /\ other[i] = text[i]
      BY <1>1, <1>3, <1>5, <3>1
    <3>4. j \in (e + 1)..Len(text) /\ i <= moved(j)
      BY <1>1, <3>1
    <3>5. moved(j) \in DOMAIN other /\ other[moved(j)] = text[j]
      BY <1>4, <1>6, <3>4
    <3> HIDE DEF moved
    <3> QED  BY <3>2, <3>3, <3>4, <3>5
  <2> QED  BY <2>1, <2>2, <2>3
<1>8. KeptIn(text, K, other)
  BY <1>7 DEF KeptIn
<1> QED  BY <1>8 DEF other

LEMMA JoinKeeps ==
    ASSUME NEW text \in Text,
           NEW b \in 1..(Len(text) + 1), NEW e \in 0..Len(text),
           NEW K, K \subseteq DOMAIN text, \A i \in K : i < b \/ i > e,
           \A i, j \in K : i < b /\ j >= b => \E n \in i..j : text[n] \in Sentinel
    PROVE  KeptIn(text, K, Join(text, b, e))
<1> DEFINE nothing == << >>
<1>1. Before(text, b) \in Text /\ nothing \in Text
  BY PartsTyped DEF Text
<1>2. Before(text, b) \o nothing = Before(text, b)
  BY <1>1, ConcatEmptySeq DEF Text
<1> HIDE DEF nothing
<1>3. Join(text, b, e) = Splice(text, b, nothing, e)
  BY <1>2 DEF Join, Splice
<1> QED  BY <1>1, <1>3, SpliceKeeps

\* Where a selection has what it selects: by rank.
RankIn(K, i) == Cardinality({j \in K : j <= i})

LEMMA SelectionPlaces ==
    ASSUME NEW text \in Text, NEW K, K \subseteq DOMAIN text
    PROVE  /\ \A i \in K : /\ RankIn(K, i) \in DOMAIN Selection(text, K)
                           /\ Selection(text, K)[RankIn(K, i)] = text[i]
           /\ \A i, j \in K : i <= j => RankIn(K, i) <= RankIn(K, j)
<1>1. Len(text) \in Nat /\ DOMAIN text = 1..Len(text) /\ \A i \in K : i \in Int
  BY DEF Text
<1>2. IsFiniteSet(K) /\ Cardinality(K) \in Nat
  <2>1. IsFiniteSet(1..Len(text))
    BY <1>1, FS_Interval
  <2>2. IsFiniteSet(K)
    BY <1>1, <2>1, FS_Subset
  <2> QED  BY <2>2, FS_CardinalityType
<1> DEFINE upto(i) == {j \in K : j <= i}
<1>3. \A i \in K : /\ IsFiniteSet(upto(i)) /\ RankIn(K, i) = Cardinality(upto(i))
                   /\ RankIn(K, i) \in Nat /\ RankIn(K, i) <= Cardinality(K)
  <2> TAKE i \in K
  <2>1. IsFiniteSet(upto(i)) /\ Cardinality(upto(i)) <= Cardinality(K)
    <3>1. upto(i) \subseteq K
      OBVIOUS
    <3> HIDE DEF upto
    <3> QED  BY <1>2, <3>1, FS_Subset
  <2>2. Cardinality(upto(i)) \in Nat
    BY <2>1, FS_CardinalityType
  <2> QED  BY <2>1, <2>2 DEF RankIn
<1> HIDE DEF upto
<1>4. ASSUME NEW i \in K, NEW j \in K, i < j
      PROVE  RankIn(K, i) < RankIn(K, j)
  <2>1. upto(i) \cup {j} \subseteq upto(j) /\ j \notin upto(i)
    BY <1>1, <1>4 DEF upto
  <2>2. Cardinality(upto(i) \cup {j}) = Cardinality(upto(i)) + 1
    BY <1>3, <2>1, FS_AddElement
  <2>3. Cardinality(upto(i) \cup {j}) <= Cardinality(upto(j))
    BY <1>3, <2>1, FS_Subset
  <2> QED  BY <1>3, <2>2, <2>3
<1>5. \A i, j \in K : i <= j => RankIn(K, i) <= RankIn(K, j)
  <2> TAKE i, j \in K
  <2>1. CASE i = j
    BY <1>3, <2>1
  <2>2. CASE i < j
    BY <1>3, <1>4, <2>2
  <2> QED  BY <1>1, <2>1, <2>2
<1>6. ASSUME NEW i \in K
      PROVE  RankIn(K, i) >= 1
  <2>1. {i} \subseteq upto(i)
    BY <1>1 DEF upto
  <2>2. Cardinality({i}) = 1
    BY FS_Singleton
  <2>3. Cardinality({i}) <= Cardinality(upto(i))
    BY <1>3, <2>1, FS_Subset
  <2> QED  BY <1>3, <2>2, <2>3
<1>7. ASSUME NEW i \in K
      PROVE  /\ RankIn(K, i) \in DOMAIN Selection(text, K)
             /\ Selection(text, K)[RankIn(K, i)] = text[i]
  <2>1. RankIn(K, i) \in 1..Cardinality(K)
    BY <1>2, <1>3, <1>6
  <2>2. (CHOOSE j \in K : RankIn(K, j) = RankIn(K, i)) = i
    <3>1. ASSUME NEW j \in K, RankIn(K, j) = RankIn(K, i)
          PROVE  j = i
      BY <1>1, <1>3, <1>4, <3>1
    <3> QED  BY <3>1
  <2>3. Selection(text, K)
            = [n \in 1..Cardinality(K) |-> text[CHOOSE j \in K : RankIn(K, j) = n]]
    BY DEF Selection, RankIn
  <2> QED  BY <2>1, <2>2, <2>3
<1> QED  BY <1>5, <1>7

\* Taking newlines away where there are many keeps what is between them, and
\* no two lines run together: the first newline of a row stays.
LEMMA CollapsedKeeps ==
    ASSUME NEW text \in Text, NEW i \in Users(text), NEW j \in Users(text), i <= j
    PROVE  \E k, m \in DOMAIN Collapsed(text) :
            /\ k <= m
            /\ Collapsed(text)[k] = text[i] /\ Collapsed(text)[m] = text[j]
            /\ Unbroken(Collapsed(text), k, m) => Unbroken(text, i, j)
<1> DEFINE K == Few(text)
           other == Selection(text, K)
<1>1. /\ Collapsed(text) = other /\ K \subseteq DOMAIN text
      /\ Len(text) \in Nat /\ DOMAIN text = 1..Len(text)
  BY CollapsedSelects DEF Text
<1>2. /\ \A n \in K : RankIn(K, n) \in DOMAIN other /\ other[RankIn(K, n)] = text[n]
      /\ \A n, m \in K : n <= m => RankIn(K, n) <= RankIn(K, m)
  BY <1>1, SelectionPlaces
<1>3. /\ i \in K /\ j \in K /\ i \in 1..Len(text) /\ j \in 1..Len(text)
      /\ text[i] # NL /\ text[j] # NL
  BY <1>1, UserLineAssumption DEF Users, Few
<1>4. ASSUME ~Unbroken(text, i, j)
      PROVE  ~Unbroken(other, RankIn(K, i), RankIn(K, j))
  <2> DEFINE breaks == {n \in i..j : text[n] = NL}
  <2>1. breaks \subseteq Nat /\ breaks # {}
    BY <1>3, <1>4 DEF Unbroken
  <2>2. PICK n \in breaks : \A m \in breaks : n <= m
    <3> HIDE DEF breaks
    <3> QED  BY <2>1, Least
  <2>3. n \in i..j /\ text[n] = NL /\ n # i /\ n \in Int
    BY <1>3, <2>2
  <2>4. n - 1 \in i..j /\ ~(n <= n - 1)
    BY <1>3, <2>3
  <2>5. text[n - 1] # NL
    BY <2>2, <2>4
  <2>6. n \in K
    BY <1>1, <1>3, <2>3, <2>5 DEF Few
  <2>7. /\ other[RankIn(K, n)] = NL
        /\ RankIn(K, i) <= RankIn(K, n) /\ RankIn(K, n) <= RankIn(K, j)
    BY <1>2, <1>3, <2>3, <2>6
  <2>8. RankIn(K, n) \in Int /\ RankIn(K, i) \in Int /\ RankIn(K, j) \in Int
    <3>1. other \in Text
      BY <1>1, SelectionTyped
    <3>2. DOMAIN other \subseteq Int
      <4> HIDE DEF other
      <4> QED  BY <3>1 DEF Text
    <3> QED  BY <1>2, <1>3, <2>6, <3>2
  <2>9. RankIn(K, n) \in RankIn(K, i)..RankIn(K, j)
    BY <2>7, <2>8
  <2> QED  BY <2>7, <2>9 DEF Unbroken
<1> HIDE DEF K, other
<1> QED  BY <1>1, <1>2, <1>3, <1>4

LEMMA KeptThenCollapsed ==
    ASSUME NEW text \in Text, NEW K, K \subseteq Users(text),
           NEW mid \in Text, KeptIn(text, K, mid)
    PROVE  KeptIn(text, K, Collapsed(mid))
<1> SUFFICES ASSUME NEW i \in K, NEW j \in K, i <= j
             PROVE  \E k, m \in DOMAIN Collapsed(mid) :
                      /\ k <= m
                      /\ Collapsed(mid)[k] = text[i] /\ Collapsed(mid)[m] = text[j]
                      /\ Unbroken(Collapsed(mid), k, m) =>
                            \/ Unbroken(text, i, j)
                            \/ \E n \in i..j : text[n] \in Sentinel
  BY DEF KeptIn
<1>1. PICK k \in DOMAIN mid, m \in DOMAIN mid :
        /\ k <= m /\ mid[k] = text[i] /\ mid[m] = text[j]
        /\ Unbroken(mid, k, m) =>
                \/ Unbroken(text, i, j)
                \/ \E n \in i..j : text[n] \in Sentinel
  BY DEF KeptIn
<1>2. k \in Users(mid) /\ m \in Users(mid)
  BY <1>1 DEF Users
<1>3. PICK x \in DOMAIN Collapsed(mid), y \in DOMAIN Collapsed(mid) :
        /\ x <= y
        /\ Collapsed(mid)[x] = mid[k] /\ Collapsed(mid)[y] = mid[m]
        /\ Unbroken(Collapsed(mid), x, y) => Unbroken(mid, k, m)
  BY <1>1, <1>2, CollapsedKeeps
<1> QED  BY <1>1, <1>3

\* Putting in a block keeps what is not between the sentinels that it takes
\* the place of.
LEMMA InjectedKeeps ==
    ASSUME NEW text \in Text, NEW body \in Body, NEW gap \in Gaps,
           NEW K, K \subseteq Users(text),
           HasBoth(text) =>
                \A i \in K : i < First(text, "BEGIN") \/ i > First(text, "END")
    PROVE  KeptIn(text, K, Injected(text, body, gap))
<1> DEFINE middle == Middle(text, body, gap)
           b == Start(text)
           e == Stop(text)
<1>1. /\ middle \in Text /\ b \in 1..(Len(text) + 1) /\ e \in 0..Len(text)
      /\ Injected(text, body, gap) = Splice(text, b, middle, e)
  BY MiddleShape, StartStop, InjectedSplices
<1>2. Len(text) \in Nat /\ \A i \in K : i \in 1..Len(text) /\ text[i] # NL
  BY UserLineAssumption DEF Users, Text
<1>3. CASE HasBoth(text)
  <2>1. /\ b = First(text, "BEGIN") /\ First(text, "BEGIN") \in 1..Len(text)
        /\ text[First(text, "BEGIN")] = "BEGIN"
    BY <1>3, FirstIsLeast DEF HasBoth, Start
  <2>2. /\ e \in {First(text, "END"), First(text, "END") + 1}
        /\ First(text, "END") \in 1..Len(text)
        /\ e # First(text, "END") => text[e] = NL
    BY <1>3, StartStop
  <2> HIDE DEF b, e, middle
  <2>3. \A i \in K : i < b \/ i > e
    BY <1>2, <1>3, <2>1, <2>2
  <2>4. ASSUME NEW i \in K, NEW j \in K, i < b, j >= b
        PROVE  \E n \in i..j : text[n] \in Sentinel
    <3>1. b \in i..j /\ text[b] \in Sentinel
      BY <1>1, <1>2, <2>1, <2>4 DEF Sentinel
    <3> QED  BY <3>1
  <2>5. K \subseteq DOMAIN text
    BY DEF Users
  <2> QED  BY <1>1, <2>3, <2>4, <2>5, SpliceKeeps
<1>4. CASE ~HasBoth(text)
  <2>1. b = Len(text) + 1
    BY <1>4 DEF Start
  <2> HIDE DEF b, e, middle
  <2>2. \A i \in K : i < b /\ ~(i >= b)
    BY <1>2, <2>1
  <2>3. K \subseteq DOMAIN text
    BY DEF Users
  <2> QED  BY <1>1, <2>2, <2>3, SpliceKeeps
<1> QED  BY <1>3, <1>4

\* And so does taking a block out.
LEMMA StrippedKeeps ==
    ASSUME NEW text \in Text, HasBoth(text), NEW K, K \subseteq Users(text),
           \A i \in K : i < First(text, "BEGIN") \/ i > First(text, "END")
    PROVE  KeptIn(text, K, Stripped(text))
<1> DEFINE b == Front(text)
           e == Stop(text)
           first == First(text, "BEGIN")
<1>1. /\ first \in 1..Len(text) /\ text[first] = "BEGIN" /\ b \in 1..first
      /\ \A i \in b..(first - 1) : text[i] = NL
  BY FrontIn
<1>2. /\ e \in {First(text, "END"), First(text, "END") + 1} /\ e \in 0..Len(text)
      /\ First(text, "END") \in 1..Len(text)
      /\ e # First(text, "END") => text[e] = NL
  BY StartStop
<1>3. /\ Join(text, b, e) \in Text /\ Stripped(text) = Collapsed(Join(text, b, e))
  BY StrippedJoins
<1>4. /\ Len(text) \in Nat /\ K \subseteq DOMAIN text
      /\ \A i \in K : i \in 1..Len(text) /\ text[i] # NL
  BY UserLineAssumption DEF Users, Text
<1>a. \A i \in K : i < first \/ i > First(text, "END")
  OBVIOUS
<1> HIDE DEF b, e, first
<1>5. \A i \in K : i < first => i < b
  <2> SUFFICES ASSUME NEW i \in K, i < first, ~(i < b) PROVE FALSE
    OBVIOUS
  <2>1. i \in b..(first - 1)
    BY <1>1, <1>4
  <2> QED  BY <1>1, <1>4, <2>1
<1>6. \A i \in K : i < b \/ i > e
  BY <1>1, <1>2, <1>4, <1>5, <1>a
<1>7. ASSUME NEW i \in K, NEW j \in K, i < b, j >= b
      PROVE  \E n \in i..j : text[n] \in Sentinel
  <2>1. ~(j < first)
    BY <1>1, <1>4, <1>5, <1>7
  <2>2. first \in i..j /\ text[first] \in Sentinel
    BY <1>1, <1>4, <1>7, <2>1 DEF Sentinel
  <2> QED  BY <2>2
<1>8. b \in 1..(Len(text) + 1)
  BY <1>1, <1>4
<1>9. KeptIn(text, K, Join(text, b, e))
  BY <1>2, <1>4, <1>6, <1>7, <1>8, JoinKeeps
<1> QED  BY <1>3, <1>9, KeptThenCollapsed

\* The user's lines outside the pair of a text that is accepted, and all the
\* user's lines of a text with nothing but a body of ours in its pair, are not
\* between its first sentinels.
LEMMA OutsideApart ==
    ASSUME NEW text \in Text, ~Duplicates(text), HasBoth(text),
           NEW i \in Outside(text)
    PROVE  i < First(text, "BEGIN") \/ i > First(text, "END")
<1> DEFINE b == First(text, "BEGIN")
           e == First(text, "END")
<1>1. /\ b \in 1..Len(text) /\ e \in 1..Len(text)
      /\ text[b] = "BEGIN" /\ text[e] = "END"
  BY FirstIsLeast DEF HasBoth
<1> HIDE DEF b, e
<1>2. /\ i \in DOMAIN text /\ text[i] \in UserLine
      /\ ~ \E pair \in Pairs(text) : pair[1] < i /\ i < pair[2]
  BY DEF Outside
<1>3. Len(text) \in Nat /\ DOMAIN text = 1..Len(text)
  BY DEF Text
<1>4. i # b /\ i # e
  BY <1>1, <1>2, UserLineAssumption DEF Sentinel
<1> SUFFICES ASSUME b < i, i < e PROVE FALSE
  BY <1>1, <1>2, <1>3, <1>4 DEF b, e
<1>5. <<b, e>> \in Pairs(text)
  <2>1. b \in At(text, "BEGIN") /\ e \in At(text, "END")
    BY <1>1, <1>3 DEF At
  <2>2. b < e
    BY <1>1, <1>2, <1>3
  <2>3. ASSUME NEW j \in DOMAIN text, b < j, j < e, text[j] \in Sentinel
        PROVE  FALSE
    <3>1. b \in DOMAIN text /\ e \in DOMAIN text /\ j # b /\ j # e
      BY <1>1, <1>3, <2>3
    <3>2. CASE text[j] = "BEGIN"
      BY <1>1, <2>3, <3>1, <3>2, NoDuplicates
    <3>3. CASE text[j] = "END"
      BY <1>1, <2>3, <3>1, <3>3, NoDuplicates
    <3> QED  BY <2>3, <3>2, <3>3 DEF Sentinel
  <2> QED  BY <2>1, <2>2, <2>3 DEF Pairs
<1> QED  BY <1>2, <1>5

\* A text that comes to one piece when it is trimmed has nothing else in it.
LEMMA TrimmedToOne ==
    ASSUME NEW text \in Text, NEW body, Trimmed(text) = <<body>>,
           NEW i \in DOMAIN text, text[i] # NL
    PROVE  text[i] = body
<1> DEFINE solid == {k \in DOMAIN text : text[k] # NL}
           lo == CHOOSE k \in solid : \A m \in solid : k <= m
           hi == CHOOSE k \in solid : \A m \in solid : k >= m
<1>1. Len(text) \in Nat /\ DOMAIN text = 1..Len(text)
  BY DEF Text
<1>2. i \in solid /\ solid \subseteq 1..Len(text)
  BY <1>1
<1>3. Trimmed(text) = SubSeq(text, lo, hi)
  BY DEF Trimmed, Empty
<1> HIDE DEF solid
<1>4. lo \in solid /\ \A m \in solid : lo <= m
  <2>1. solid \subseteq Nat /\ solid # {}
    BY <1>2
  <2>2. \E k \in solid : \A m \in solid : k <= m
    BY <2>1, Least
  <2> QED  BY <2>2
<1>5. hi \in solid /\ \A m \in solid : hi >= m
  <2>1. \E k \in solid : \A m \in solid : k >= m
    BY <1>1, <1>2, Greatest
  <2> QED  BY <2>1
<1> HIDE DEF lo, hi
<1>6. /\ lo \in 1..Len(text) /\ hi \in 1..Len(text) /\ lo <= i /\ i <= hi
      /\ i \in Int
  BY <1>1, <1>2, <1>4, <1>5
<1>7. Len(SubSeq(text, lo, hi)) = 1 /\ SubSeq(text, lo, hi)[1] = body
  <2>1. Len(<<body>>) = 1 /\ <<body>>[1] = body
    OBVIOUS
  <2> QED  BY <1>3, <2>1, Zenon
<1>8. lo = hi
  BY <1>1, <1>6, <1>7 DEF Text
<1>9. SubSeq(text, lo, hi)[1] = text[lo]
  BY <1>1, <1>6, <1>8 DEF Text
<1> QED  BY <1>6, <1>7, <1>8, <1>9

LEMMA InnerApart ==
    ASSUME NEW text \in Text, HasBoth(text), NEW body \in Body,
           Inner(text) = <<body>>, NEW i \in Users(text)
    PROVE  i < First(text, "BEGIN") \/ i > First(text, "END")
<1> DEFINE b == First(text, "BEGIN")
           e == First(text, "END")
           inside == SubSeq(text, b + 1, e - 1)
<1>1. /\ b \in 1..Len(text) /\ e \in 1..Len(text)
      /\ text[b] = "BEGIN" /\ text[e] = "END"
  BY FirstIsLeast DEF HasBoth
<1>2. Trimmed(inside) = <<body>>
  BY DEF Inner
<1> HIDE DEF b, e
<1>3. Len(text) \in Nat /\ DOMAIN text = 1..Len(text)
  BY DEF Text
<1>4. i \in DOMAIN text /\ text[i] \in UserLine
  BY DEF Users
<1>5. i # b /\ i # e /\ text[i] # NL /\ text[i] # body
  BY <1>1, <1>4, UserLineAssumption DEF Sentinel
<1> SUFFICES ASSUME b < i, i < e PROVE FALSE
  BY <1>1, <1>3, <1>4, <1>5 DEF b, e
<1>6. /\ inside \in Text /\ i - b \in DOMAIN inside
      /\ inside[i - b] = text[i]
  <2>1. b + 1 \in 1..(Len(text) + 1) /\ e - 1 \in 0..Len(text) /\ b + 1 <= e - 1
    BY <1>1, <1>3, <1>4
  <2>2. inside \in Text
    <3>1. \A k \in (b + 1)..(e - 1) : text[k] \in Piece
      BY <1>1, <1>3 DEF Text
    <3> QED  BY <2>1, <3>1, SubSeqProperties DEF Text
  <2>3. i - b \in 1..((e - 1) - (b + 1) + 1)
    BY <1>1, <1>3, <1>4
  <2>4. DOMAIN inside = 1..((e - 1) - (b + 1) + 1) /\ inside[i - b] = text[(b + 1) + (i - b) - 1]
    BY <1>1, <1>3, <2>1, <2>3 DEF Text
  <2>5. (b + 1) + (i - b) - 1 = i
    BY <1>1, <1>3, <1>4
  <2> QED  BY <2>2, <2>3, <2>4, <2>5
<1> HIDE DEF inside
<1> QED  BY <1>2, <1>5, <1>6, TrimmedToOne

\* What an entry for a file with markdown in it may hold: the hash is of one of
\* our bodies, and the recorded text had no two pairs.
WrittenByUs(entry) ==
    entry # None =>
        /\ \E body \in Body : entry.sha = <<body>>
        /\ entry.original # None => ~Alternating(entry.original)

\* Neither have the files, and so no text that a removal restores.
BlocksInv ==
    \A f \in File : f.name \in Markdown =>
        /\ files[f] # None => ~Alternating(files[f])
        /\ WrittenByUs(entries[f])
        /\ WrittenByUs(staged[f])

LEMMA MergedByUs ==
    ASSUME NEW f \in File, WiringTypeOK, WrittenByUs(entries[f]), WrittenByUs(staged[f])
    PROVE  WrittenByUs(Merged(f))
<1>1. CASE staged[f] = None
  BY <1>1 DEF Merged
<1>2. CASE staged[f] # None /\ staged[f].original = None /\ entries[f] # None
  <2>1. Merged(f) = [staged[f] EXCEPT !.original = entries[f].original]
    BY <1>2 DEF Merged
  <2>2. staged[f] \in Entry
    BY <1>2 DEF WiringTypeOK
  <2>3. Merged(f).sha = staged[f].sha /\ Merged(f).original = entries[f].original
    BY <2>1, <2>2 DEF Entry
  <2> QED  BY <1>2, <2>3 DEF WrittenByUs
<1>3. CASE staged[f] # None /\ ~(staged[f].original = None /\ entries[f] # None)
  BY <1>3 DEF Merged
<1> QED  BY <1>1, <1>2, <1>3

LEMMA BlocksStep ==
    ASSUME WiringTypeOK, BlocksInv, [Next]_vars
    PROVE  BlocksInv'
<1>1. CASE Edit
  <2>1. PICK f \in File, middle \in Seq(UserLine \cup {NL}) :
          /\ files[f] \in Text
          /\ \E b \in 1..(Len(files[f]) + 1), e \in 0..Len(files[f]) :
              /\ b <= e + 1
              /\ files' = [files EXCEPT ![f] = Splice(files[f], b, middle, e)]
    BY <1>1, EditSplices
  <2>2. files[f] # None
    BY <2>1, WiringAssumption
  <2>3. f.name \in Markdown => ~Alternating(files'[f])
    <3>1. f.name \in Markdown => ~Alternating(files[f])
      BY <2>2 DEF BlocksInv
    <3>2. PICK b \in 1..(Len(files[f]) + 1), e \in 0..Len(files[f]) :
              /\ b <= e + 1
              /\ files' = [files EXCEPT ![f] = Splice(files[f], b, middle, e)]
      BY <2>1
    <3>3. files'[f] = Splice(files[f], b, middle, e)
      BY <3>2 DEF WiringTypeOK
    <3> QED  BY <2>1, <3>1, <3>2, <3>3, TurnsOfSplice
  <2>4. \A g \in File : g # f => files'[g] = files[g]
    BY <2>1 DEF WiringTypeOK
  <2>5. entries' = entries /\ staged' = staged
    BY <1>1 DEF Edit, run
  <2> QED  BY <2>3, <2>4, <2>5 DEF BlocksInv
<1>2. ASSUME NEW root \in Place, NEW harness \in Harness, NEW mode \in Body,
             NEW scope \in Scope, NEW force \in BOOLEAN,
             StartWire(root, harness, mode, scope, force)
      PROVE  BlocksInv'
  BY <1>2 DEF StartWire, BlocksInv
<1>3. CASE Write
  <2> DEFINE f == Head(todo)
  <2>1. /\ f \in File /\ ~Refused(f)
        /\ command.mode \in Body
        /\ files' = [files EXCEPT ![f] =
                IF f.name \in Dedicated THEN <<command.mode>>
                ELSE Injected(Existing(f), command.mode, Gap(f))]
        /\ staged' = [staged EXCEPT ![f] = EntryFor(f, command.mode)]
        /\ entries' = entries
    BY <1>3, StepOfCommand, HeadTailProperties DEF Write, WiringTypeOK, Wire
  <2> HIDE DEF f
  <2>2. \A g \in File : g # f => files'[g] = files[g] /\ staged'[g] = staged[g]
    BY <2>1 DEF WiringTypeOK
  <2>3. ASSUME f.name \in Markdown
        PROVE  ~Alternating(files'[f]) /\ WrittenByUs(staged'[f])
    <3>1. ~Duplicates(Existing(f))
      BY <2>1, <2>3 DEF Refused
    <3>2. Existing(f) \in Text
      BY <2>1, EmptySeq DEF Existing, WiringTypeOK, Text
    <3>3. f.name \notin Dedicated /\ f.name \notin Config
      BY <2>3 DEF Markdown
    <3>4. files'[f] = Injected(Existing(f), command.mode, Gap(f))
      BY <2>1, <3>3 DEF WiringTypeOK
    <3>5. ~Alternating(files'[f])
      BY <2>1, <3>1, <3>2, <3>4, TurnsOfInjected DEF Gap, Gaps
    <3>6. staged'[f] = EntryFor(f, command.mode)
      BY <2>1 DEF WiringTypeOK
    <3>7. /\ EntryFor(f, command.mode).sha = <<command.mode>>
          /\ EntryFor(f, command.mode).original \in {None, files[f]}
      BY <3>3 DEF EntryFor
    <3>8. files[f] # None => ~Alternating(files[f])
      BY <2>1, <2>3 DEF BlocksInv
    <3> QED  BY <2>1, <3>5, <3>6, <3>7, <3>8 DEF WrittenByUs
  <2> QED  BY <2>1, <2>2, <2>3 DEF BlocksInv
<1>4. ASSUME End, files' = files, entries' = entries
      PROVE  BlocksInv'
  BY <1>4 DEF End, Nothing, BlocksInv, WrittenByUs
<1>5. CASE Record
  <2>1. /\ End /\ files' = files
        /\ \A f \in File : entries'[f] = Merged(f)
    BY <1>5 DEF Record
  <2> QED  BY <2>1, MergedByUs DEF End, Nothing, BlocksInv, WrittenByUs
<1>6. ASSUME NEW root \in Repo, NEW all \in BOOLEAN, NEW forget \in BOOLEAN,
             NEW force \in BOOLEAN, StartRemoval(root, all, forget, force)
      PROVE  BlocksInv'
  BY <1>6 DEF StartRemoval, BlocksInv
<1>7. CASE Examine
  <2>1. PICK f \in left : files' = [files EXCEPT ![f] = Outcome(f)]
    BY <1>7 DEF Examine
  <2>2. f \in File /\ entries[f] # None
    BY DEF WiringTypeOK, Recorded
  <2>3. \A g \in File : g # f => files'[g] = files[g]
    BY <2>1, <2>2 DEF WiringTypeOK
  <2>4. ASSUME f.name \in Markdown, Outcome(f) # None
        PROVE  ~Alternating(Outcome(f))
    <3>1. /\ files[f] # None => ~Alternating(files[f])
          /\ entries[f].original # None => ~Alternating(entries[f].original)
      BY <2>2, <2>4 DEF BlocksInv, WrittenByUs
    <3>2. files[f] # None => files[f] \in Text
      BY <2>2 DEF WiringTypeOK
    <3>3. files[f] # None /\ HasBoth(files[f]) => ~Alternating(Stripped(files[f]))
      BY <3>1, <3>2, TurnsOfStripped
    <3> QED  BY <2>4, <3>1, <3>3 DEF Outcome
  <2>5. files'[f] = Outcome(f)
    BY <2>1, <2>2 DEF WiringTypeOK
  <2>6. entries' = entries /\ staged' = staged
    BY <1>7 DEF Examine
  <2> QED  BY <2>3, <2>4, <2>5, <2>6 DEF BlocksInv
<1>8. CASE Clean
  <2>1. ASSUME NEW f \in File, f.name \in Markdown, Cleaned(f) # None
        PROVE  ~Alternating(Cleaned(f))
    <3>1. files[f] # None
      BY <2>1 DEF Cleaned
    <3>2. files[f] \in Text /\ ~Alternating(files[f])
      BY <2>1, <3>1 DEF WiringTypeOK, BlocksInv
    <3>3. Cleaned(f) \in {files[f], LineStripped(files[f]), None}
      BY DEF Cleaned, CleanedAider, CleanedOpencode, CleanedAtHome, EmptyDeleted
    <3> QED  BY <2>1, <3>2, <3>3, TurnsOfLineStripped
  <2>2. \A f \in File : files'[f] = Cleaned(f)
    BY <1>8 DEF Clean
  <2>3. entries' = entries /\ staged' = staged
    BY <1>8 DEF Clean
  <2> QED  BY <2>1, <2>2, <2>3 DEF BlocksInv
<1>9. CASE Forget
  <2>1. files' = files /\ End /\ (entries' = entries \/ entries' = Nothing)
    BY <1>9 DEF Forget
  <2> QED  BY <2>1 DEF End, Nothing, BlocksInv, WrittenByUs
<1>10. CASE Refuse \/ Killed
  BY <1>4, <1>10 DEF Refuse, Killed
<1>11. CASE UNCHANGED vars
  BY <1>11 DEF vars, run, BlocksInv
<1> QED  BY <1>1, <1>2, <1>3, <1>5, <1>6, <1>7, <1>8, <1>9, <1>10, <1>11 DEF Next

LEMMA BlocksKept == Spec => []BlocksInv
<1>1. Init => BlocksInv
  <2>1. ~Alternating(<<FirstLine, NL>>)
    BY UserLineAssumption, WiringAssumption DEF Alternating, Sentinel, NL
  <2> QED  BY <2>1, WiringAssumption DEF Init, Nothing, BlocksInv, WrittenByUs
<1>2. WiringTypeOK /\ BlocksInv /\ [Next]_vars => BlocksInv'
  BY BlocksStep
<1> QED  BY <1>1, <1>2, WiringTyping, PTL DEF Spec

\* No shared file ever holds two blocks, whatever lines the user deletes,
\* whichever commands are killed and whatever text a removal restores: what
\* _inject_sentinel_block refuses is enough.
THEOREM BlocksAreSingle == Spec => []OneBlock
<1>1. WiringTypeOK /\ BlocksInv => OneBlock
  BY OnePair DEF WiringTypeOK, BlocksInv, OneBlock
<1> QED  BY <1>1, WiringTyping, BlocksKept, PTL

\* Nothing of the user's was in a text of which nothing but newlines is kept.
LEMMA KeptOfNothing ==
    ASSUME NEW text \in Text, NEW K, K \subseteq Users(text),
           NEW other, KeptIn(text, K, other), Empty(other)
    PROVE  K = {}
<1> SUFFICES ASSUME NEW i \in K PROVE FALSE
  OBVIOUS
<1>1. i \in Int /\ text[i] # NL
  BY UserLineAssumption DEF Users, Text
<1>2. PICK k \in DOMAIN other : other[k] = text[i]
  BY <1>1 DEF KeptIn
<1> QED  BY <1>1, <1>2 DEF Empty

\* Wiring, and a removal that has no earlier text to restore, keep the user's
\* lines around the block, in their order.
THEOREM SurroundingsStay == Spec => SurroundingsKept
<1> DEFINE Concerns(f) ==
        /\ Changes(f)
        /\ \/ command.step = "write"
           \/ /\ command.step = "examine" /\ left # {} /\ ~command.force
              /\ entries[f] # None /\ entries[f].original = None
        => KeptIn(files[f], Outside(files[f]), Existing(f)')
<1>1. WiringTypeOK /\ BlocksInv /\ [Next]_vars => [\A f \in File : Concerns(f)]_vars
  <2> SUFFICES ASSUME WiringTypeOK, BlocksInv, Next, NEW f \in File,
                      Changes(f),
                      \/ command.step = "write"
                      \/ /\ command.step = "examine" /\ left # {} /\ ~command.force
                         /\ entries[f] # None /\ entries[f].original = None
               PROVE  KeptIn(files[f], Outside(files[f]), Existing(f)')
    OBVIOUS
  <2>1. /\ files[f] \in Text /\ DOMAIN files[f] = 1..Len(files[f])
        /\ Len(files[f]) \in Nat /\ Existing(f) = files[f]
        /\ Outside(files[f]) \subseteq DOMAIN files[f]
    BY DEF Changes, WiringTypeOK, Text, Existing, Outside
  <2>a. f.name \in Markdown /\ files[f] # None
    BY DEF Changes
  <2>b. Outside(files[f]) \subseteq Users(files[f])
    BY DEF Outside, Users
  <2>2. command # Idle
    BY StepOfCommand DEF Idle
  <2>3. ASSUME files'[f] = files[f]
        PROVE  KeptIn(files[f], Outside(files[f]), Existing(f)')
    BY <2>3 DEF Changes
  <2>4. CASE Write
    <3> DEFINE g == Head(todo)
    <3>1. /\ g \in File /\ ~Refused(g)
          /\ command.mode \in Body
          /\ files' = [files EXCEPT ![g] =
                  IF g.name \in Dedicated THEN <<command.mode>>
                  ELSE Injected(Existing(g), command.mode, Gap(g))]
      BY <2>4, StepOfCommand, HeadTailProperties DEF Write, WiringTypeOK, Wire
    <3> HIDE DEF g
    <3>2. CASE f # g
      BY <2>3, <3>1, <3>2 DEF WiringTypeOK
    <3>3. CASE f = g
      <4>1. files'[f] = Injected(files[f], command.mode, Gap(f))
        BY <2>1, <2>a, <3>1, <3>3 DEF Markdown, WiringTypeOK
      <4>2. ~Duplicates(files[f])
        BY <2>1, <2>a, <3>1, <3>3 DEF Refused
      <4>3. HasBoth(files[f]) =>
                \A i \in Outside(files[f]) :
                    \/ i < First(files[f], "BEGIN")
                    \/ i > First(files[f], "END")
        BY <2>1, <4>2, OutsideApart
      <4>4. KeptIn(files[f], Outside(files[f]), Injected(files[f], command.mode, Gap(f)))
        BY <2>1, <2>b, <3>1, <4>3, InjectedKeeps DEF Gap, Gaps
      <4>5. Injected(files[f], command.mode, Gap(f)) \in Text
        BY <2>1, <3>1, InjectedTyped DEF Gap, Gaps
      <4>6. Existing(f)' = Injected(files[f], command.mode, Gap(f))
        BY <4>1, <4>5, WiringAssumption DEF Existing
      <4> QED  BY <4>4, <4>6
    <3> QED  BY <3>2, <3>3
  <2>5. CASE Examine
    <3>1. PICK g \in left : files' = [files EXCEPT ![g] = Outcome(g)]
      BY <2>5 DEF Examine
    <3>2. g \in File
      BY DEF WiringTypeOK, Recorded
    <3>3. CASE f # g \/ Outcome(f) = files[f]
      BY <2>3, <3>1, <3>2, <3>3 DEF WiringTypeOK
    <3>4. CASE f = g /\ Outcome(f) # files[f]
      <4>1. /\ ~command.force
            /\ entries[f] # None /\ entries[f].original = None
        BY <2>5 DEF Examine
      <4>2. f.name \notin NewFile
        BY <2>a DEF Markdown, NewFile, Config
      <4>3. /\ HasBoth(files[f]) /\ Inner(files[f]) = entries[f].sha
            /\ Outcome(f) = IF Empty(Stripped(files[f])) THEN None ELSE Stripped(files[f])
        BY <3>4, <4>1, <4>2 DEF Outcome
      <4>4. PICK body \in Body : Inner(files[f]) = <<body>>
        BY <2>a, <4>1, <4>3 DEF BlocksInv, WrittenByUs
      <4>5. \A i \in Outside(files[f]) :
                \/ i < First(files[f], "BEGIN")
                \/ i > First(files[f], "END")
        BY <2>1, <2>b, <4>3, <4>4, InnerApart
      <4>6. KeptIn(files[f], Outside(files[f]), Stripped(files[f]))
        BY <2>1, <2>b, <4>3, <4>5, StrippedKeeps
      <4>7. files'[f] = Outcome(f)
        BY <3>1, <3>2, <3>4 DEF WiringTypeOK
      <4>8. CASE Empty(Stripped(files[f]))
        <5>1. Outside(files[f]) = {}
          BY <2>1, <2>b, <4>6, <4>8, KeptOfNothing
        <5> QED  BY <5>1 DEF KeptIn
      <4>9. CASE ~Empty(Stripped(files[f]))
        <5>1. Stripped(files[f]) # None
          BY <2>1, <4>3, StrippedTyped, WiringAssumption
        <5> QED  BY <4>3, <4>6, <4>7, <4>9, <5>1 DEF Existing
      <4> QED  BY <4>8, <4>9
    <3> QED  BY <3>3, <3>4
  <2>6. CASE Refuse \/ Record \/ Forget \/ Killed
    BY <2>3, <2>6 DEF Refuse, Record, Forget, Killed
  <2>7. ~Clean /\ ~Edit
    BY <2>2 DEF Clean, Edit
  <2> QED  BY <2>2, <2>4, <2>5, <2>6, <2>7 DEF Next, StartWire, StartRemoval, CommandsLeft
<1>2. [][\A f \in File : Concerns(f)]_vars => SurroundingsKept
  BY PTL DEF SurroundingsKept
<1> QED  BY <1>1, <1>2, WiringTyping, BlocksKept, PTL DEF Spec

\* In the legacy mode, without --force, the tamper check sees to it that not
\* even a line inside the block is lost.
THEOREM EditsStay == Spec => LegacyKeepsEdits
<1> DEFINE Concerns(f) ==
        /\ Changes(f)
        /\ entries[f] # None
        /\ command.step = "write" /\ command.mode = "legacy" /\ ~command.force
        => KeptIn(files[f], Users(files[f]), Existing(f)')
<1>1. WiringTypeOK /\ BlocksInv /\ [Next]_vars => [\A f \in File : Concerns(f)]_vars
  <2> SUFFICES ASSUME WiringTypeOK, BlocksInv, Next, NEW f \in File,
                      Changes(f), entries[f] # None,
                      command.step = "write", command.mode = "legacy",
                      ~command.force
               PROVE  KeptIn(files[f], Users(files[f]), Existing(f)')
    OBVIOUS
  <2>1. /\ files[f] \in Text /\ DOMAIN files[f] = 1..Len(files[f])
        /\ Len(files[f]) \in Nat /\ Existing(f) = files[f]
        /\ Users(files[f]) \subseteq DOMAIN files[f]
    BY DEF Changes, WiringTypeOK, Text, Existing, Users
  <2>a. f.name \in Markdown /\ files[f] # None
    BY DEF Changes
  <2>2. command # Idle
    BY StepOfCommand DEF Idle
  <2>3. ASSUME files'[f] = files[f]
        PROVE  KeptIn(files[f], Users(files[f]), Existing(f)')
    BY <2>3 DEF Changes
  <2>4. CASE Write
    <3> DEFINE g == Head(todo)
    <3>1. /\ g \in File /\ ~Refused(g)
          /\ command.mode \in Body
          /\ files' = [files EXCEPT ![g] =
                  IF g.name \in Dedicated THEN <<command.mode>>
                  ELSE Injected(Existing(g), command.mode, Gap(g))]
      BY <2>4, StepOfCommand, HeadTailProperties DEF Write, WiringTypeOK, Wire
    <3> HIDE DEF g
    <3>2. CASE f # g
      BY <2>3, <3>1, <3>2 DEF WiringTypeOK
    <3>3. CASE f = g
      <4>1. files'[f] = Injected(files[f], command.mode, Gap(f))
        BY <2>1, <2>a, <3>1, <3>3 DEF Markdown, WiringTypeOK
      <4>2. HasBoth(files[f]) => Inner(files[f]) = entries[f].sha
        BY <2>a, <3>1, <3>3 DEF Refused, Edited
      <4>3. \E body \in Body : entries[f].sha = <<body>>
        BY <2>a DEF BlocksInv, WrittenByUs
      <4>4. HasBoth(files[f]) =>
                \A i \in Users(files[f]) :
                    \/ i < First(files[f], "BEGIN")
                    \/ i > First(files[f], "END")
        BY <2>1, <4>2, <4>3, InnerApart
      <4>5. KeptIn(files[f], Users(files[f]), Injected(files[f], command.mode, Gap(f)))
        BY <2>1, <3>1, <4>4, InjectedKeeps DEF Gap, Gaps
      <4>6. Injected(files[f], command.mode, Gap(f)) \in Text
        BY <2>1, <3>1, InjectedTyped DEF Gap, Gaps
      <4>7. Existing(f)' = Injected(files[f], command.mode, Gap(f))
        BY <4>1, <4>6, WiringAssumption DEF Existing
      <4> QED  BY <4>5, <4>7
    <3> QED  BY <3>2, <3>3
  <2>5. CASE Refuse \/ Record \/ Killed
    BY <2>3, <2>5 DEF Refuse, Record, Killed
  <2> QED  BY <2>2, <2>4, <2>5 DEF Next, StartWire, StartRemoval, CommandsLeft, Edit, Examine, Clean, Forget
<1>2. [][\A f \in File : Concerns(f)]_vars => LegacyKeepsEdits
  BY PTL DEF LegacyKeepsEdits
<1> QED  BY <1>1, <1>2, WiringTyping, BlocksKept, PTL DEF Spec

-----------------------------------------------------------------------------
(* unwire stays in its repository *)

\* Whatever the entries say and however old they are, unwire in one repository
\* changes no file of another, and none at home but those agentalloy owns.
THEOREM UnwireStays == Spec => UnwireStaysInRepo
<1> DEFINE Stays(f) ==
        /\ edits' = edits
        /\ command.step \in {"examine", "forget"} /\ ~command.all
        /\ f.place # command.root /\ f \notin UserPrefixed
        => files'[f] = files[f]
<1>1. WiringTypeOK /\ [Next]_vars => [\A f \in File : Stays(f)]_vars
  <2> SUFFICES ASSUME WiringTypeOK, Next, NEW f \in File,
                      edits' = edits, command.step \in {"examine", "forget"},
                      ~command.all, f.place # command.root, f \notin UserPrefixed
               PROVE  files'[f] = files[f]
    OBVIOUS
  <2>1. command.step # "write" /\ command # Idle
    BY StepOfCommand DEF Idle
  <2>2. CASE Edit
    BY <2>2, <2>1 DEF Edit
  <2>3. CASE Examine
    <3>1. PICK g \in left : files' = [files EXCEPT ![g] = Outcome(g)]
      BY <2>3 DEF Examine
    <3>2. g \in File
      BY DEF WiringTypeOK, Recorded
    <3>3. CASE g = f
      <4>1. ~Authorised(f)
        BY DEF Authorised
      <4> QED  BY <3>1, <3>2, <3>3, <4>1 DEF Outcome, WiringTypeOK
    <3> QED  BY <3>1, <3>2, <3>3 DEF WiringTypeOK
  <2>4. CASE Clean
    <3>1. Cleaned(f) = files[f]
      BY DEF Cleaned, CleanedAtHome
    <3> QED  BY <2>4, <3>1 DEF Clean
  <2>5. CASE Forget \/ Killed
    BY <2>5 DEF Forget, Killed
  <2> QED  BY <2>1, <2>2, <2>3, <2>4, <2>5 DEF Next, StartWire, CommandsLeft, Write, Refuse, Record, StartRemoval
<1>2. [][\A f \in File : Stays(f)]_vars => UnwireStaysInRepo
  BY PTL DEF UnwireStaysInRepo
<1> QED  BY <1>1, <1>2, WiringTyping, PTL DEF Spec

\* Theorem: the state file lists what is wired, and everything keeps its type.
THEOREM WiringIsSound == Spec => []WiringSound
<1>1. WiringTypeOK /\ Tracked => WiringSound
  BY DEF WiringSound
<1> QED  BY <1>1, WiringTyping, FilesTracked, PTL
==============================================================================
