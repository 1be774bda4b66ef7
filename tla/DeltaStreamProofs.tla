-------------------------- MODULE DeltaStreamProofs --------------------------
(***************************************************************************)
(* Proofs about DeltaStream, for any pages, any answers, any number of     *)
(* deltas that are kept and any number of snapshots on their way.          *)
(*                                                                         *)
(* First induction over the natural numbers and over texts, for sets       *)
(* instead of formulas; then what the functions on texts do: what a text   *)
(* keeps without its blanks (Compact), what a page shows of its answer     *)
(* (Shown), how a text is stripped (Normalized) and what                   *)
(* stream_snapshot_delta returns (Delta).  The invariant rests on them.    *)
(* Held: whatever the order, what the generator has yielded holds the      *)
(* letters of the snapshot it took last.  OneAnswer: as long as one page   *)
(* answers and no snapshot comes after a newer one, the snapshots on their *)
(* way, the deltas, the generator and the result follow one another as     *)
(* beginnings of one answer.                                               *)
(***************************************************************************)
EXTENDS DeltaStream, SequenceTheorems, FiniteSetTheorems, WellFoundedInduction, TLAPS

\* The letters of the answers, and the texts made of them.
Letter == UNION {Range(Letters[p]) : p \in Page}
Text == Seq(Letter \cup {Blank})

\* Every non-empty set of numbers has a least one.
LEMMA LeastElement ==
    ASSUME NEW S \in SUBSET Nat, S # {}
    PROVE  \E n \in S : \A m \in S : n <= m
<1> DEFINE R == OpToRel(<, Nat)
<1>1. IsWellFoundedOn(R, Nat)
  BY NatLessThanWellFounded
<1>2. \A m, n \in Nat : m < n => <<m, n>> \in R
  BY DEF OpToRel
<1> HIDE DEF R
<1>3. PICK n \in S : \A m \in S : ~(<<m, n>> \in R)
  BY <1>1, WFMin
<1>4. ASSUME NEW m \in S PROVE n <= m
  <2>1. n \in Nat /\ m \in Nat
    OBVIOUS
  <2>2. ~(m < n)
    BY <2>1, <1>2, <1>3
  <2>3. QED
    BY <2>1, <2>2
<1>5. QED
  BY <1>4

\* What holds of 0, and of n + 1 when it holds of n, holds of every number.
LEMMA Induction ==
    ASSUME NEW S, 0 \in S, \A n \in Nat : n \in S => n + 1 \in S
    PROVE  \A n \in Nat : n \in S
<1> SUFFICES ASSUME NEW k \in Nat, k \notin S PROVE FALSE
  OBVIOUS
<1>1. PICK n \in Nat \ S : \A m \in Nat \ S : n <= m
  BY LeastElement
<1>2. n - 1 \in Nat /\ n - 1 \notin Nat \ S
  BY <1>1
<1>3. QED
  BY <1>1, <1>2

-----------------------------------------------------------------------------
(* Compact.                                                                *)

\* The recursive function by which Compact is defined.
IsCompacting(kept, text) ==
    kept = [n \in 0..Len(text) |->
                IF n = 0 THEN <<>>
                ELSE IF text[n] = Blank THEN kept[n - 1] ELSE Append(kept[n - 1], text[n])]

\* There is such a function for every text, built up one character at a time.
LEMMA CompactingExists ==
    ASSUME NEW text \in Text
    PROVE  \E kept \in [0..Len(text) -> Text] : IsCompacting(kept, text)
<1> DEFINE Upto(m) ==
              \E kept \in [0..m -> Text] :
                  /\ kept[0] = <<>>
                  /\ \A n \in 1..m : kept[n] = IF text[n] = Blank THEN kept[n - 1] ELSE Append(kept[n - 1], text[n])
           S == {m \in Nat : m <= Len(text) => Upto(m)}
<1>0. <<>> \in Text /\ Len(text) \in Nat
  BY DEF Text
<1>1. 0 \in S
  <2> DEFINE none == [n \in 0..0 |-> <<>>]
  <2>1. none \in [0..0 -> Text] /\ none[0] = <<>> /\ 1..0 = {}
    BY <1>0
  <2> HIDE DEF none
  <2>2. Upto(0)
    BY <2>1
  <2>3. QED
    BY <2>2
<1>2. ASSUME NEW m \in Nat, m \in S PROVE m + 1 \in S
  <2> SUFFICES ASSUME m + 1 <= Len(text) PROVE Upto(m + 1)
    OBVIOUS
  <2>1. PICK kept \in [0..m -> Text] :
                  /\ kept[0] = <<>>
                  /\ \A n \in 1..m : kept[n] = IF text[n] = Blank THEN kept[n - 1] ELSE Append(kept[n - 1], text[n])
    BY <1>0, <1>2
  <2> DEFINE next == IF text[m + 1] = Blank THEN kept[m] ELSE Append(kept[m], text[m + 1])
             more == [n \in 0..(m + 1) |-> IF n = m + 1 THEN next ELSE kept[n]]
  <2>2. text[m + 1] \in Letter \cup {Blank} /\ kept[m] \in Text
    <3>1. m + 1 \in 1..Len(text)
      BY <1>0
    <3>2. QED
      BY <3>1, ElementOfSeq DEF Text
  <2>3. next \in Text
    BY <2>2 DEF Text
  <2> HIDE DEF next
  <2>4. more \in [0..(m + 1) -> Text]
    <3>1. \A n \in 0..(m + 1) : n # m + 1 => kept[n] \in Text
      BY <2>1
    <3>2. QED
      BY <2>3, <3>1
  <2>5. more[0] = <<>> /\ more[m + 1] = next
    BY <2>1
  <2>6. ASSUME NEW n \in 1..(m + 1)
        PROVE  more[n] = IF text[n] = Blank THEN more[n - 1] ELSE Append(more[n - 1], text[n])
    <3>1. CASE n = m + 1
      <4>1. more[n] = next /\ more[n - 1] = kept[m]
        BY <3>1
      <4>2. QED
        BY <4>1, <3>1 DEF next
    <3>2. CASE n \in 1..m
      <4>1. more[n] = kept[n] /\ more[n - 1] = kept[n - 1]
        BY <3>2
      <4>2. QED
        BY <4>1, <3>2, <2>1
    <3>3. QED
      BY <3>1, <3>2
  <2> HIDE DEF more
  <2>7. QED
    BY <2>4, <2>5, <2>6
<1>3. Len(text) \in S
  <2> HIDE DEF S
  <2>1. \A n \in Nat : n \in S
    BY <1>1, <1>2, Induction
  <2>2. QED
    BY <2>1, <1>0
<1>4. PICK kept \in [0..Len(text) -> Text] :
          /\ kept[0] = <<>>
          /\ \A n \in 1..Len(text) : kept[n] = IF text[n] = Blank THEN kept[n - 1] ELSE Append(kept[n - 1], text[n])
  BY <1>3, <1>0
<1>5. \A n \in 0..Len(text) : kept[n] = IF n = 0 THEN <<>>
                ELSE IF text[n] = Blank THEN kept[n - 1] ELSE Append(kept[n - 1], text[n])
  <2> SUFFICES ASSUME NEW n \in 0..Len(text), n # 0
               PROVE  kept[n] = IF text[n] = Blank THEN kept[n - 1] ELSE Append(kept[n - 1], text[n])
    BY <1>4
  <2>1. n \in 1..Len(text)
    BY <1>0
  <2>2. QED
    BY <2>1, <1>4
<1>6. IsCompacting(kept, text)
  <2>1. DOMAIN kept = 0..Len(text)
    BY <1>4
  <2>2. kept = [n \in 0..Len(text) |-> kept[n]]
    BY <1>4
  <2>3. QED
    BY <2>1, <1>4, <1>5 DEF IsCompacting
<1>7. QED
  BY <1>6

\* Compact is the last value of one.
LEMMA CompactedBy ==
    ASSUME NEW text \in Text
    PROVE  \E kept : IsCompacting(kept, text) /\ Compact(text) = kept[Len(text)]
<1>1. \E kept : IsCompacting(kept, text)
  BY CompactingExists
<1>2. QED
  BY <1>1 DEF Compact, IsCompacting

\* A text loses its blanks character by character.
LEMMA CompactSteps ==
    /\ Compact(<<>>) = <<>>
    /\ \A s \in Text, c \in Letter \cup {Blank} :
          Compact(Append(s, c)) = IF c = Blank THEN Compact(s) ELSE Append(Compact(s), c)
<1>1. Compact(<<>>) = <<>>
  <2>1. <<>> \in Text /\ Len(<<>>) = 0
    BY DEF Text
  <2>2. PICK kept : IsCompacting(kept, <<>>) /\ Compact(<<>>) = kept[Len(<<>>)]
    BY <2>1, CompactedBy
  <2>3. QED
    BY <2>1, <2>2 DEF IsCompacting
<1>2. ASSUME NEW s \in Text, NEW c \in Letter \cup {Blank}
      PROVE  Compact(Append(s, c)) = IF c = Blank THEN Compact(s) ELSE Append(Compact(s), c)
  <2>0. Append(s, c) \in Text
    BY DEF Text
  <2>1. PICK t \in Text : t = Append(s, c)
    BY <2>0
  <2>2. /\ Len(s) \in Nat /\ Len(t) = Len(s) + 1
        /\ \A i \in 1..Len(s) : t[i] = s[i]
        /\ t[Len(s) + 1] = c
    BY <2>1, AppendProperties, LenProperties DEF Text
  <2>3. PICK f : IsCompacting(f, s) /\ Compact(s) = f[Len(s)]
    BY CompactedBy
  <2>4. PICK g : IsCompacting(g, t) /\ Compact(t) = g[Len(t)]
    BY CompactedBy
  <2> DEFINE S == {n \in Nat : n <= Len(s) => f[n] = g[n]}
  <2>5. f[0] = <<>> /\ g[0] = <<>>
    BY <2>2, <2>3, <2>4 DEF IsCompacting
  <2>6. \A n \in 1..Len(s) : f[n] = IF s[n] = Blank THEN f[n - 1] ELSE Append(f[n - 1], s[n])
    <3> SUFFICES ASSUME NEW n \in 1..Len(s)
                 PROVE  f[n] = IF s[n] = Blank THEN f[n - 1] ELSE Append(f[n - 1], s[n])
      OBVIOUS
    <3>1. n \in 0..Len(s) /\ n # 0
      BY <2>2
    <3>2. QED
      BY <3>1, <2>3 DEF IsCompacting
  <2>7. \A n \in 1..(Len(s) + 1) : g[n] = IF t[n] = Blank THEN g[n - 1] ELSE Append(g[n - 1], t[n])
    <3> SUFFICES ASSUME NEW n \in 1..(Len(s) + 1)
                 PROVE  g[n] = IF t[n] = Blank THEN g[n - 1] ELSE Append(g[n - 1], t[n])
      OBVIOUS
    <3>1. n \in 0..Len(t) /\ n # 0
      BY <2>2
    <3>2. QED
      BY <3>1, <2>4 DEF IsCompacting
  <2>8. 0 \in S
    BY <2>5
  <2>9. ASSUME NEW n \in Nat, n \in S PROVE n + 1 \in S
    <3> SUFFICES ASSUME n + 1 <= Len(s) PROVE f[n + 1] = g[n + 1]
      OBVIOUS
    <3>1. n + 1 \in 1..Len(s) /\ n + 1 \in 1..(Len(s) + 1) /\ (n + 1) - 1 = n
      BY <2>2
    <3>2. f[n] = g[n]
      BY <2>9, <2>2
    <3>3. f[n + 1] = IF s[n + 1] = Blank THEN f[n] ELSE Append(f[n], s[n + 1])
      BY <2>6, <3>1
    <3>4. g[n + 1] = IF t[n + 1] = Blank THEN g[n] ELSE Append(g[n], t[n + 1])
      BY <2>7, <3>1
    <3>5. QED
      BY <3>1, <3>2, <3>3, <3>4, <2>2
  <2>10. Len(s) \in S
    <3> HIDE DEF S
    <3>1. \A n \in Nat : n \in S
      BY <2>8, <2>9, Induction
    <3>2. QED
      BY <3>1, <2>2
  <2>11. g[Len(s)] = Compact(s)
    BY <2>10, <2>2, <2>3
  <2>12. Len(t) \in 1..(Len(s) + 1) /\ Len(t) - 1 = Len(s) /\ t[Len(t)] = c
    BY <2>2
  <2>13. g[Len(t)] = IF c = Blank THEN g[Len(s)] ELSE Append(g[Len(s)], c)
    BY <2>7, <2>12
  <2>14. QED
    BY <2>1, <2>4, <2>11, <2>13
<1>3. QED
  BY <1>1, <1>2

\* What holds of the empty text, and of a text with one more character when it
\* holds without it, holds of every text.
LEMMA TextInduction ==
    ASSUME NEW S, <<>> \in S,
           \A s \in Text, c \in Letter \cup {Blank} : s \in S => Append(s, c) \in S
    PROVE  \A s \in Text : s \in S
<1> DEFINE N == {n \in Nat : \A s \in Text : Len(s) = n => s \in S}
<1>1. 0 \in N
  BY DEF Text
<1>2. ASSUME NEW n \in Nat, n \in N PROVE n + 1 \in N
  <2> SUFFICES ASSUME NEW s \in Text, Len(s) = n + 1 PROVE s \in S
    OBVIOUS
  <2>1. s # <<>>
    BY DEF Text
  <2>2. PICK t \in Text, c \in Letter \cup {Blank} : s = Append(t, c)
    BY <2>1, SequenceEmptyOrAppend DEF Text
  <2>3. Len(t) = n
    BY <2>2 DEF Text
  <2>4. QED
    BY <1>2, <2>2, <2>3
<1>3. \A n \in Nat : n \in N
  <2> HIDE DEF N
  <2>1. QED
    BY <1>1, <1>2, Induction
<1>4. \A s \in Text : Len(s) \in Nat
  BY DEF Text
<1>5. QED
  BY <1>3, <1>4

\* A text without its blanks is made of letters.
LEMMA CompactType ==
    ASSUME NEW text \in Text
    PROVE  Compact(text) \in Seq(Letter)
<1> DEFINE S == {s \in Text : Compact(s) \in Seq(Letter)}
<1>1. <<>> \in S
  <2>1. <<>> \in Text /\ <<>> \in Seq(Letter)
    BY DEF Text
  <2>2. QED
    BY <2>1, CompactSteps
<1>2. ASSUME NEW s \in Text, NEW c \in Letter \cup {Blank}, s \in S PROVE Append(s, c) \in S
  <2>1. Append(s, c) \in Text
    BY DEF Text
  <2>2. CASE c = Blank
    BY <2>1, <2>2, <1>2, CompactSteps
  <2>3. CASE c # Blank
    <3>1. Append(Compact(s), c) \in Seq(Letter)
      BY <2>3, <1>2
    <3>2. QED
      BY <2>1, <2>3, <3>1, CompactSteps
  <2>4. QED
    BY <2>2, <2>3
<1>3. QED
  <2> HIDE DEF S
  <2>1. \A s \in Text : s \in S
    BY <1>1, <1>2, TextInduction
  <2>2. QED
    BY <2>1 DEF S

\* Two texts lose their blanks each for itself.
LEMMA CompactConcat ==
    ASSUME NEW s \in Text, NEW t \in Text
    PROVE  Compact(s \o t) = Compact(s) \o Compact(t)
<1> DEFINE S == {u \in Text : Compact(s \o u) = Compact(s) \o Compact(u)}
<1>0. Compact(s) \in Seq(Letter)
  BY CompactType
<1>1. <<>> \in S
  <2>1. <<>> \in Text /\ s \o <<>> = s
    BY DEF Text
  <2>2. Compact(s) \o <<>> = Compact(s)
    BY <1>0
  <2>3. QED
    BY <2>1, <2>2, CompactSteps
<1>2. ASSUME NEW u \in Text, NEW c \in Letter \cup {Blank}, u \in S PROVE Append(u, c) \in S
  <2>1. Append(u, c) \in Text /\ s \o u \in Text
    BY DEF Text
  <2>2. s \o Append(u, c) = Append(s \o u, c)
    BY DEF Text
  <2>3. Compact(Append(s \o u, c)) = IF c = Blank THEN Compact(s \o u) ELSE Append(Compact(s \o u), c)
    BY <2>1, CompactSteps
  <2>4. Compact(Append(u, c)) = IF c = Blank THEN Compact(u) ELSE Append(Compact(u), c)
    BY CompactSteps
  <2>5. Compact(s \o u) = Compact(s) \o Compact(u)
    BY <1>2
  <2>6. Compact(u) \in Seq(Letter)
    BY CompactType
  <2>7. Compact(s \o Append(u, c)) = Compact(s) \o Compact(Append(u, c))
    <3>1. CASE c = Blank
      BY <3>1, <2>2, <2>3, <2>4, <2>5
    <3>2. CASE c # Blank
      <4>1. Append(Compact(s) \o Compact(u), c) = Compact(s) \o Append(Compact(u), c)
        BY <1>0, <2>6, <3>2
      <4>2. QED
        BY <3>2, <4>1, <2>2, <2>3, <2>4, <2>5
    <3>3. QED
      BY <3>1, <3>2
  <2>8. QED
    BY <2>1, <2>7
<1>3. QED
  <2> HIDE DEF S
  <2>1. \A u \in Text : u \in S
    BY <1>1, <1>2, TextInduction
  <2>2. QED
    BY <2>1 DEF S

\* No answer has a blank of its own.
LEMMA BlankIsNoLetter == Blank \notin Letter
BY LettersAssumption DEF Letter

\* A text of letters loses nothing.
LEMMA LettersAreKept ==
    ASSUME NEW s \in Seq(Letter)
    PROVE  s \in Text /\ Compact(s) = s
<1> DEFINE S == {t \in Text : t \in Seq(Letter) => Compact(t) = t}
<1>1. <<>> \in S
  BY CompactSteps DEF Text
<1>2. ASSUME NEW t \in Text, NEW c \in Letter \cup {Blank}, t \in S PROVE Append(t, c) \in S
  <2>1. Append(t, c) \in Text
    BY DEF Text
  <2>2. ASSUME Append(t, c) \in Seq(Letter) PROVE Compact(Append(t, c)) = Append(t, c)
    <3>1. t \in Seq(Letter) /\ c \in Letter
      <4>1. t \in Seq(Letter \cup {Blank})
        BY DEF Text
      <4>2. /\ Len(Append(t, c)) = Len(t) + 1 /\ Len(t) \in Nat
            /\ \A i \in 1..Len(t) : Append(t, c)[i] = t[i]
            /\ Append(t, c)[Len(t) + 1] = c
            /\ t \in [1..Len(t) -> Letter \cup {Blank}]
        BY <4>1, AppendProperties, LenProperties
      <4>3. \A i \in 1..(Len(t) + 1) : Append(t, c)[i] \in Letter
        BY <2>2, <4>2, ElementOfSeq
      <4>4. \A i \in 1..Len(t) : t[i] \in Letter
        BY <4>2, <4>3
      <4>5. QED
        BY <4>2, <4>3, <4>4, <4>1
    <3>2. Compact(t) = t /\ c # Blank
      BY <1>2, <3>1, BlankIsNoLetter
    <3>3. QED
      BY <3>2, CompactSteps
  <2>3. QED
    BY <2>1, <2>2
<1>3. s \in Text
  BY DEF Text
<1>4. QED
  <2> HIDE DEF S
  <2>1. \A t \in Text : t \in S
    BY <1>1, <1>2, TextInduction
  <2>2. QED
    BY <2>1, <1>3 DEF S

\* A text of blanks loses everything.
LEMMA BlanksAreDropped ==
    ASSUME NEW s \in Text, \A i \in 1..Len(s) : s[i] = Blank
    PROVE  Compact(s) = <<>>
<1> DEFINE S == {t \in Text : (\A i \in 1..Len(t) : t[i] = Blank) => Compact(t) = <<>>}
<1>1. <<>> \in S
  BY CompactSteps DEF Text
<1>2. ASSUME NEW t \in Text, NEW c \in Letter \cup {Blank}, t \in S PROVE Append(t, c) \in S
  <2>1. Append(t, c) \in Text
    BY DEF Text
  <2>2. ASSUME \A i \in 1..Len(Append(t, c)) : Append(t, c)[i] = Blank
        PROVE  Compact(Append(t, c)) = <<>>
    <3>1. /\ Len(Append(t, c)) = Len(t) + 1 /\ Len(t) \in Nat
          /\ \A i \in 1..Len(t) : Append(t, c)[i] = t[i]
          /\ Append(t, c)[Len(t) + 1] = c
      BY AppendProperties, LenProperties DEF Text
    <3>2. c = Blank /\ \A i \in 1..Len(t) : t[i] = Blank
      BY <2>2, <3>1
    <3>3. QED
      BY <1>2, <3>2, CompactSteps
  <2>3. QED
    BY <2>1, <2>2
<1>3. QED
  <2> HIDE DEF S
  <2>1. \A t \in Text : t \in S
    BY <1>1, <1>2, TextInduction
  <2>2. QED
    BY <2>1 DEF S

\* A text is what it is up to a place and what it is after it.
LEMMA SplitText ==
    ASSUME NEW text \in Text, NEW i \in 0..Len(text)
    PROVE  /\ SubSeq(text, 1, i) \in Text /\ SubSeq(text, i + 1, Len(text)) \in Text
           /\ text = SubSeq(text, 1, i) \o SubSeq(text, i + 1, Len(text))
           /\ Compact(text) = Compact(SubSeq(text, 1, i)) \o Compact(SubSeq(text, i + 1, Len(text)))
<1>1. Len(text) \in Nat /\ i \in Nat
  BY DEF Text
<1>2. SubSeq(text, 1, i) \in Text /\ SubSeq(text, i + 1, Len(text)) \in Text
  <2>1. /\ \A j \in 1..i : text[j] \in Letter \cup {Blank}
        /\ \A j \in (i + 1)..Len(text) : text[j] \in Letter \cup {Blank}
    BY <1>1, ElementOfSeq DEF Text
  <2>2. QED
    BY <1>1, <2>1, SubSeqProperties DEF Text
<1>3. text = SubSeq(text, 1, i) \o SubSeq(text, i + 1, Len(text))
  <2>1. 1 \in 1..(Len(text) + 1) /\ i \in (1 - 1)..Len(text) /\ Len(text) \in i..Len(text)
    BY <1>1
  <2>2. text \in Seq(Letter \cup {Blank})
    BY DEF Text
  <2>3. SubSeq(text, 1, i) \o SubSeq(text, i + 1, Len(text)) = SubSeq(text, 1, Len(text))
    BY <2>1, <2>2, ConcatAdjacentSubSeq
  <2>4. QED
    BY <2>2, <2>3, SubSeqFull
<1>4. QED
  BY <1>2, <1>3, CompactConcat

\* Some beginning of a text holds any number of its letters.
LEMMA LettersAreReached ==
    ASSUME NEW text \in Text, NEW n \in 1..Len(Compact(text))
    PROVE  \E i \in 1..Len(text) : Len(Compact(SubSeq(text, 1, i))) = n
<1> DEFINE Reached(s) == \A m \in 1..Len(Compact(s)) : \E i \in 1..Len(s) : Len(Compact(SubSeq(s, 1, i))) = m
           S == {s \in Text : Reached(s)}
<1>1. <<>> \in S
  <2>1. <<>> \in Text /\ Len(Compact(<<>>)) = 0
    BY CompactSteps DEF Text
  <2>2. 1..Len(Compact(<<>>)) = {}
    BY <2>1
  <2>3. QED
    BY <2>1, <2>2
<1>2. ASSUME NEW s \in Text, NEW c \in Letter \cup {Blank}, s \in S PROVE Append(s, c) \in S
  <2>1. PICK t \in Text : t = Append(s, c)
    <3>1. Append(s, c) \in Text
      BY DEF Text
    <3>2. QED
      BY <3>1
  <2>2. Len(s) \in Nat /\ Len(t) = Len(s) + 1
    BY <2>1, AppendProperties, LenProperties DEF Text
  <2>3. Compact(t) = IF c = Blank THEN Compact(s) ELSE Append(Compact(s), c)
    BY <2>1, CompactSteps
  <2>4. Compact(s) \in Seq(Letter)
    BY CompactType
  <2>5. Len(Compact(s)) \in Nat
    BY <2>4, LenProperties
  <2>6. Len(Compact(t)) \in {Len(Compact(s)), Len(Compact(s)) + 1}
    <3>1. CASE c = Blank
      BY <3>1, <2>3
    <3>2. CASE c # Blank
      BY <3>2, <2>3, <2>4, AppendProperties
    <3>3. QED
      BY <3>1, <3>2
  <2>7. ASSUME NEW m \in 1..Len(Compact(t)) PROVE \E i \in 1..Len(t) : Len(Compact(SubSeq(t, 1, i))) = m
    <3>1. CASE m \in 1..Len(Compact(s))
      <4>1. PICK i \in 1..Len(s) : Len(Compact(SubSeq(s, 1, i))) = m
        BY <1>2, <3>1
      <4>2. SubSeq(t, 1, i) = SubSeq(s, 1, i)
        BY <2>1, <2>2 DEF Text
      <4>3. i \in 1..Len(t)
        BY <2>2
      <4>4. QED
        BY <4>1, <4>2, <4>3
    <3>2. CASE m \notin 1..Len(Compact(s))
      <4>1. m = Len(Compact(t))
        BY <3>2, <2>5, <2>6
      <4>2. SubSeq(t, 1, Len(t)) = t
        BY SubSeqFull DEF Text
      <4>3. Len(t) \in 1..Len(t)
        BY <2>2
      <4>4. QED
        BY <4>1, <4>2, <4>3
    <3>3. QED
      BY <3>1, <3>2
  <2>8. t \in S
    BY <2>7
  <2>9. QED
    BY <2>1, <2>8
<1>3. QED
  <2> HIDE DEF S
  <2>1. \A s \in Text : s \in S
    BY <1>1, <1>2, TextInduction
  <2>2. QED
    BY <2>1 DEF S

\* Min and Max, of the sets they are taken of here.
LEMMA MinIsLeast ==
    ASSUME NEW S \in SUBSET Nat, S # {}
    PROVE  Min(S) \in S /\ \A m \in S : Min(S) <= m
BY LeastElement DEF Min

\* AfterLetters cuts a text where the first n letters of it end.
LEMMA AfterTheLetters ==
    ASSUME NEW text \in Text, NEW n \in 1..Len(Compact(text))
    PROVE  \E i \in 1..Len(text) :
              /\ Len(Compact(SubSeq(text, 1, i))) = n
              /\ AfterLetters(text, n) = SubSeq(text, i + 1, Len(text))
<1> DEFINE S == {i \in DOMAIN text : Len(Compact(SubSeq(text, 1, i))) = n}
<1>1. DOMAIN text = 1..Len(text) /\ Len(text) \in Nat
  BY DEF Text
<1>2. S # {}
  BY <1>1, LettersAreReached
<1>3. S \in SUBSET Nat
  BY <1>1
<1>4. Min(S) \in S
  BY <1>2, <1>3, MinIsLeast
<1>5. AfterLetters(text, n) = SubSeq(text, 1 + Min(S), Len(text))
  BY DEF AfterLetters
<1> HIDE DEF S
<1>6. PICK i \in S : i = Min(S)
  BY <1>4
<1>7. i \in 1..Len(text) /\ Len(Compact(SubSeq(text, 1, i))) = n
  BY <1>1 DEF S
<1>8. 1 + i = i + 1
  BY <1>7
<1>9. QED
  BY <1>5, <1>6, <1>7, <1>8

LEMMA MaxIsGreatest ==
    ASSUME NEW N \in Nat, NEW S \in SUBSET (0..N), S # {}
    PROVE  Max(S) \in S /\ \A m \in S : Max(S) >= m
<1> DEFINE T == {N - n : n \in S}
<1>1. T \in SUBSET Nat /\ T # {}
  <2>1. \A n \in S : N - n \in Nat
    OBVIOUS
  <2>2. \A m \in T : m \in Nat
    BY <2>1
  <2>3. PICK n \in S : TRUE
    OBVIOUS
  <2>4. N - n \in T
    OBVIOUS
  <2>5. QED
    BY <2>2, <2>4
<1>2. PICK m \in T : \A k \in T : m <= k
  BY <1>1, LeastElement
<1>3. PICK n \in S : m = N - n
  BY <1>2
<1>4. ASSUME NEW k \in S PROVE n >= k
  <2>1. N - n <= N - k
    BY <1>2, <1>3
  <2>2. n \in Nat /\ k \in Nat
    OBVIOUS
  <2>3. QED
    BY <2>1, <2>2
<1>5. QED
  BY <1>4 DEF Max

\* A sequence is its prefix and what comes after it.
LEMMA PrefixAndRest ==
    ASSUME NEW S, NEW s \in Seq(S), NEW t \in Seq(S), IsPrefix(s, t)
    PROVE  /\ SubSeq(t, Len(s) + 1, Len(t)) \in Seq(S)
           /\ t = s \o SubSeq(t, Len(s) + 1, Len(t))
<1>1. Len(s) \in Nat /\ Len(t) \in Nat /\ Len(s) <= Len(t)
  BY DEF IsPrefix
<1>2. SubSeq(t, 1, Len(s)) = s
  BY <1>1, SubSeqFull DEF IsPrefix
<1>3. 1 \in 1..(Len(t) + 1) /\ Len(s) \in (1 - 1)..Len(t) /\ Len(t) \in Len(s)..Len(t)
  BY <1>1
<1>4. SubSeq(t, 1, Len(s)) \o SubSeq(t, Len(s) + 1, Len(t)) = SubSeq(t, 1, Len(t))
  BY <1>3, ConcatAdjacentSubSeq
<1>5. \A i \in (Len(s) + 1)..Len(t) : t[i] \in S
  BY <1>1, ElementOfSeq
<1>6. SubSeq(t, Len(s) + 1, Len(t)) \in Seq(S)
  BY <1>1, <1>5, SubSeqProperties
<1>7. QED
  BY <1>2, <1>4, <1>6, SubSeqFull

-----------------------------------------------------------------------------
(* Delta.                                                                  *)

\* The three things a delta can be, letter by letter: what the new text adds to
\* the one before; nothing, of a text that was there already; what comes after
\* the end of the one before with which the new one begins.
Continues(previous, incoming, delta) ==
    Compact(incoming) = Compact(previous) \o Compact(delta)

Repeats(previous, incoming, delta) ==
    /\ delta = <<>>
    /\ \E rest \in Seq(Letter) : Compact(previous) = Compact(incoming) \o rest

Overlaps(previous, incoming, delta) ==
    /\ Compact(previous) = <<>> \/ ~IsPrefix(Compact(previous), Compact(incoming))
    /\ \E head, overlap \in Seq(Letter) :
          /\ Compact(previous) = head \o overlap
          /\ Compact(incoming) = overlap \o Compact(delta)

\* A text that was laid out anew: the delta is what its letters add.
LEMMA DeltaOfReflow ==
    ASSUME NEW previous \in Text, NEW incoming \in Text,
           Compact(previous) # <<>>, IsPrefix(Compact(previous), Compact(incoming))
    PROVE  LET suffix == AfterLetters(incoming, Len(Compact(previous)))
           IN  suffix \in Text /\ Continues(previous, incoming, suffix)
<1> DEFINE n == Len(Compact(previous))
           suffix == AfterLetters(incoming, n)
<1>1. Compact(previous) \in Seq(Letter) /\ Compact(incoming) \in Seq(Letter)
  BY CompactType
<1>2. n \in Nat /\ n # 0 /\ Len(Compact(incoming)) \in Nat /\ n <= Len(Compact(incoming))
  <2>1. n \in Nat /\ Len(Compact(incoming)) \in Nat
    BY <1>1, LenProperties
  <2>2. n # 0
    BY <1>1, EmptySeq
  <2>3. n <= Len(Compact(incoming))
    BY DEF IsPrefix
  <2>4. QED
    BY <2>1, <2>2, <2>3
<1>3. n \in 1..Len(Compact(incoming))
  BY <1>2
<1>4. PICK i \in 1..Len(incoming) :
          /\ Len(Compact(SubSeq(incoming, 1, i))) = n
          /\ suffix = SubSeq(incoming, i + 1, Len(incoming))
  BY <1>3, AfterTheLetters
<1>5. Len(incoming) \in Nat /\ i \in 0..Len(incoming)
  BY DEF Text
<1>6. PICK head \in Text : head = SubSeq(incoming, 1, i)
  BY <1>5, SplitText
<1>7. suffix \in Text /\ Compact(incoming) = Compact(head) \o Compact(suffix)
  <2>1. /\ SubSeq(incoming, i + 1, Len(incoming)) \in Text
        /\ Compact(incoming) = Compact(SubSeq(incoming, 1, i)) \o Compact(SubSeq(incoming, i + 1, Len(incoming)))
    BY <1>5, SplitText
  <2> HIDE DEF suffix
  <2>2. QED
    BY <2>1, <1>4, <1>6
<1>8. Compact(head) \in Seq(Letter) /\ Compact(suffix) \in Seq(Letter) /\ Len(Compact(head)) = n
  BY <1>4, <1>6, <1>7, CompactType
<1>9. Compact(head) = Compact(previous)
  <2>1. SubSeq(Compact(incoming), 1, n) = Compact(head)
    BY <1>7, <1>8
  <2>2. SubSeq(Compact(previous), 1, n) = Compact(previous)
    BY <1>1, SubSeqFull
  <2>3. QED
    BY <2>1, <2>2 DEF IsPrefix
<1>10. QED
  BY <1>7, <1>9 DEF Continues

\* A text that does not continue the one before: the longest overlap is left out.
LEMMA DeltaOfOverlap ==
    ASSUME NEW previous \in Text, NEW incoming \in Text
    PROVE  LET overlaps == {n \in 0..Min({Len(previous), Len(incoming)}) :
                               SubSeq(previous, Len(previous) - n + 1, Len(previous)) = SubSeq(incoming, 1, n)}
               delta == SubSeq(incoming, Max(overlaps) + 1, Len(incoming))
           IN  /\ delta \in Text
               /\ \E head, overlap \in Seq(Letter) :
                     /\ Compact(previous) = head \o overlap
                     /\ Compact(incoming) = overlap \o Compact(delta)
<1> DEFINE least == Min({Len(previous), Len(incoming)})
           overlaps == {n \in 0..least :
                           SubSeq(previous, Len(previous) - n + 1, Len(previous)) = SubSeq(incoming, 1, n)}
           delta == SubSeq(incoming, Max(overlaps) + 1, Len(incoming))
<1>1. Len(previous) \in Nat /\ Len(incoming) \in Nat
  BY DEF Text
<1>2. least \in Nat /\ least <= Len(previous) /\ least <= Len(incoming)
  BY <1>1, MinIsLeast
<1> HIDE DEF least
<1>3. overlaps \in SUBSET (0..least)
  OBVIOUS
<1>4. 0 \in overlaps
  <2>1. SubSeq(incoming, 1, 0) = <<>> /\ SubSeq(previous, Len(previous) - 0 + 1, Len(previous)) = <<>>
    BY <1>1, SubSeqEmpty
  <2>2. QED
    BY <2>1, <1>2
<1>5. Max(overlaps) \in overlaps
  <2> HIDE DEF overlaps
  <2>1. QED
    BY <1>2, <1>3, <1>4, MaxIsGreatest
<1>6. PICK n \in overlaps : n = Max(overlaps)
  BY <1>5
<1>7. delta = SubSeq(incoming, n + 1, Len(incoming))
  BY <1>6
<1>8. /\ n \in 0..Len(previous) /\ n \in 0..Len(incoming)
      /\ SubSeq(previous, Len(previous) - n + 1, Len(previous)) = SubSeq(incoming, 1, n)
  <2>1. n \in 0..least /\ SubSeq(previous, Len(previous) - n + 1, Len(previous)) = SubSeq(incoming, 1, n)
    BY <1>6
  <2>2. QED
    BY <2>1, <1>1, <1>2
<1> HIDE DEF delta, overlaps
<1>9. /\ SubSeq(incoming, 1, n) \in Text /\ delta \in Text
      /\ Compact(incoming) = Compact(SubSeq(incoming, 1, n)) \o Compact(delta)
  <2>1. /\ SubSeq(incoming, 1, n) \in Text /\ SubSeq(incoming, n + 1, Len(incoming)) \in Text
        /\ Compact(incoming) = Compact(SubSeq(incoming, 1, n)) \o Compact(SubSeq(incoming, n + 1, Len(incoming)))
    BY <1>8, SplitText
  <2> HIDE DEF delta
  <2>2. delta = SubSeq(incoming, n + 1, Len(incoming))
    BY <1>7
  <2>3. QED
    BY <2>1, <2>2
<1>10. PICK m \in 0..Len(previous) : m = Len(previous) - n
  <2>1. n \in 0..Len(previous)
    BY <1>8
  <2>2. Len(previous) - n \in 0..Len(previous)
    BY <1>1, <2>1
  <2>3. QED
    BY <2>2
<1>11. /\ SubSeq(previous, 1, m) \in Text
       /\ Compact(previous) = Compact(SubSeq(previous, 1, m)) \o Compact(SubSeq(previous, m + 1, Len(previous)))
  BY SplitText
<1>12. SubSeq(previous, m + 1, Len(previous)) = SubSeq(incoming, 1, n)
  BY <1>8, <1>10
<1>13. Compact(SubSeq(previous, 1, m)) \in Seq(Letter) /\ Compact(SubSeq(incoming, 1, n)) \in Seq(Letter)
  BY <1>9, <1>11, CompactType
<1>14. QED
  BY <1>9, <1>11, <1>12, <1>13 DEF delta, overlaps, least

\* What stream_snapshot_delta returns is one of the three.
LEMMA DeltaCases ==
    ASSUME NEW previous \in Text, NEW incoming \in Text
    PROVE  LET delta == Delta(previous, incoming)
           IN  /\ delta \in Text
               /\ \/ Repeats(previous, incoming, delta)
                  \/ Continues(previous, incoming, delta)
                  \/ Overlaps(previous, incoming, delta)
<1>1. previous \in Seq(Letter \cup {Blank}) /\ incoming \in Seq(Letter \cup {Blank}) /\ <<>> \in Text
  BY DEF Text
<1>2. CASE IsPrefix(incoming, previous)
  <2>1. Delta(previous, incoming) = <<>>
    BY <1>2 DEF Delta
  <2>2. PICK rest \in Text : previous = incoming \o rest
    <3>1. /\ SubSeq(previous, Len(incoming) + 1, Len(previous)) \in Seq(Letter \cup {Blank})
          /\ previous = incoming \o SubSeq(previous, Len(incoming) + 1, Len(previous))
      BY <1>1, <1>2, PrefixAndRest
    <3>2. QED
      BY <3>1 DEF Text
  <2>3. Compact(previous) = Compact(incoming) \o Compact(rest) /\ Compact(rest) \in Seq(Letter)
    BY <2>2, CompactConcat, CompactType
  <2>4. QED
    BY <1>1, <2>1, <2>3 DEF Repeats
<1>3. CASE ~IsPrefix(incoming, previous) /\ IsPrefix(previous, incoming)
  <2>1. Delta(previous, incoming) = SubSeq(incoming, Len(previous) + 1, Len(incoming))
    BY <1>3 DEF Delta
  <2>2. Delta(previous, incoming) \in Text /\ incoming = previous \o Delta(previous, incoming)
    <3>1. /\ SubSeq(incoming, Len(previous) + 1, Len(incoming)) \in Seq(Letter \cup {Blank})
          /\ incoming = previous \o SubSeq(incoming, Len(previous) + 1, Len(incoming))
      BY <1>1, <1>3, PrefixAndRest
    <3>2. QED
      BY <2>1, <3>1 DEF Text
  <2>3. Continues(previous, incoming, Delta(previous, incoming))
    BY <2>2, CompactConcat DEF Continues
  <2>4. QED
    BY <2>2, <2>3
<1>4. CASE /\ ~IsPrefix(incoming, previous) /\ ~IsPrefix(previous, incoming)
           /\ Compact(previous) # <<>> /\ IsPrefix(Compact(previous), Compact(incoming))
  <2> DEFINE suffix == AfterLetters(incoming, Len(Compact(previous)))
  <2>1. Delta(previous, incoming) = IF Compact(suffix) = <<>> THEN <<>> ELSE suffix
    BY <1>4 DEF Delta
  <2>2. suffix \in Text /\ Continues(previous, incoming, suffix)
    BY <1>4, DeltaOfReflow
  <2> HIDE DEF suffix
  <2>3. CASE Compact(suffix) = <<>>
    <3>1. Continues(previous, incoming, <<>>)
      BY <2>2, <2>3, CompactSteps DEF Continues
    <3>2. QED
      BY <1>1, <2>1, <2>3, <3>1
  <2>4. CASE Compact(suffix) # <<>>
    BY <2>1, <2>2, <2>4
  <2>5. QED
    BY <2>3, <2>4
<1>5. CASE /\ ~IsPrefix(incoming, previous) /\ ~IsPrefix(previous, incoming)
           /\ ~(Compact(previous) # <<>> /\ IsPrefix(Compact(previous), Compact(incoming)))
  <2> DEFINE overlaps == {n \in 0..Min({Len(previous), Len(incoming)}) :
                             SubSeq(previous, Len(previous) - n + 1, Len(previous)) = SubSeq(incoming, 1, n)}
             delta == SubSeq(incoming, Max(overlaps) + 1, Len(incoming))
  <2>1. Delta(previous, incoming) = delta
    BY <1>5 DEF Delta
  <2>2. /\ delta \in Text
        /\ \E head, overlap \in Seq(Letter) :
              /\ Compact(previous) = head \o overlap
              /\ Compact(incoming) = overlap \o Compact(delta)
    BY DeltaOfOverlap
  <2> HIDE DEF delta
  <2>3. Overlaps(previous, incoming, delta)
    BY <1>5, <2>2 DEF Overlaps
  <2>4. QED
    BY <2>1, <2>2, <2>3
<1>6. QED
  BY <1>2, <1>3, <1>4, <1>5

\* Parts of texts.
LEMMA PartOfNothing == Part(<<>>, <<>>)
<1> DEFINE none == [i \in {} |-> 1]
<1>1. DOMAIN <<>> = {}
  OBVIOUS
<1>2. none \in [{} -> {}]
  OBVIOUS
<1>3. QED
  BY <1>1, <1>2 DEF Part

\* What is added to both leaves one a part of the other.
LEMMA PartOfBoth ==
    ASSUME NEW S, NEW s \in Seq(S), NEW t \in Seq(S), NEW u \in Seq(S), Part(s, t)
    PROVE  Part(s \o u, t \o u)
<1>1. PICK at \in [DOMAIN s -> DOMAIN t] :
        /\ \A i, j \in DOMAIN s : i < j => at[i] < at[j]
        /\ \A i \in DOMAIN s : s[i] = t[at[i]]
  BY DEF Part
<1>2. /\ Len(s) \in Nat /\ Len(t) \in Nat /\ Len(u) \in Nat
      /\ DOMAIN s = 1..Len(s) /\ DOMAIN t = 1..Len(t)
      /\ DOMAIN (s \o u) = 1..(Len(s) + Len(u)) /\ DOMAIN (t \o u) = 1..(Len(t) + Len(u))
  BY LenProperties, ConcatProperties
<1>3. /\ \A i \in 1..(Len(s) + Len(u)) : (s \o u)[i] = IF i <= Len(s) THEN s[i] ELSE u[i - Len(s)]
      /\ \A i \in 1..(Len(t) + Len(u)) : (t \o u)[i] = IF i <= Len(t) THEN t[i] ELSE u[i - Len(t)]
  BY ConcatProperties
<1> DEFINE both == [i \in 1..(Len(s) + Len(u)) |-> IF i <= Len(s) THEN at[i] ELSE i - Len(s) + Len(t)]
<1>4. /\ \A i \in 1..Len(s) : both[i] = at[i] /\ at[i] \in 1..Len(t)
      /\ \A i \in (Len(s) + 1)..(Len(s) + Len(u)) : both[i] = i - Len(s) + Len(t)
  <2>1. ASSUME NEW i \in 1..Len(s) PROVE both[i] = at[i] /\ at[i] \in 1..Len(t)
    <3>1. i \in 1..(Len(s) + Len(u)) /\ i <= Len(s)
      BY <1>2
    <3>2. at[i] \in 1..Len(t)
      BY <1>1, <1>2
    <3>3. QED
      BY <3>1, <3>2
  <2>2. ASSUME NEW i \in (Len(s) + 1)..(Len(s) + Len(u)) PROVE both[i] = i - Len(s) + Len(t)
    <3>1. i \in 1..(Len(s) + Len(u)) /\ ~(i <= Len(s))
      BY <1>2
    <3>2. QED
      BY <3>1
  <2> HIDE DEF both
  <2>3. QED
    BY <2>1, <2>2
<1>5. \A i \in 1..(Len(s) + Len(u)) : i \in 1..Len(s) \/ i \in (Len(s) + 1)..(Len(s) + Len(u))
  BY <1>2
<1>6. DOMAIN both = 1..(Len(s) + Len(u)) /\ both = [i \in 1..(Len(s) + Len(u)) |-> both[i]]
  OBVIOUS
<1> HIDE DEF both
<1>7. both \in [1..(Len(s) + Len(u)) -> 1..(Len(t) + Len(u))]
  <2> SUFFICES ASSUME NEW i \in 1..(Len(s) + Len(u)) PROVE both[i] \in 1..(Len(t) + Len(u))
    BY <1>6
  <2>1. QED
    BY <1>2, <1>4, <1>5
<1>8. ASSUME NEW i \in 1..(Len(s) + Len(u)), NEW j \in 1..(Len(s) + Len(u)), i < j
      PROVE  both[i] < both[j]
  <2>1. CASE j \in 1..Len(s)
    <3>1. i \in 1..Len(s)
      BY <1>2, <1>8, <2>1
    <3>2. QED
      BY <1>1, <1>2, <1>4, <1>8, <2>1, <3>1
  <2>2. CASE i \in 1..Len(s) /\ j \notin 1..Len(s)
    <3>1. j \in (Len(s) + 1)..(Len(s) + Len(u))
      BY <2>2, <1>5
    <3>2. both[i] \in 1..Len(t) /\ both[j] = j - Len(s) + Len(t)
      BY <1>4, <2>2, <3>1
    <3>3. QED
      BY <1>2, <3>1, <3>2
  <2>3. CASE i \notin 1..Len(s)
    <3>1. i \in (Len(s) + 1)..(Len(s) + Len(u)) /\ j \in (Len(s) + 1)..(Len(s) + Len(u))
      BY <1>2, <1>5, <1>8, <2>3
    <3>2. QED
      BY <1>2, <1>4, <1>8, <3>1
  <2>4. QED
    BY <2>1, <2>2, <2>3
<1>9. ASSUME NEW i \in 1..(Len(s) + Len(u)) PROVE (s \o u)[i] = (t \o u)[both[i]]
  <2>1. CASE i \in 1..Len(s)
    <3>1. both[i] = at[i] /\ at[i] \in 1..Len(t) /\ s[i] = t[at[i]]
      BY <1>1, <1>2, <1>4, <2>1
    <3>2. (s \o u)[i] = s[i]
      BY <1>2, <1>3, <2>1
    <3>3. (t \o u)[at[i]] = t[at[i]]
      BY <1>2, <1>3, <3>1
    <3>4. QED
      BY <3>1, <3>2, <3>3
  <2>2. CASE i \in (Len(s) + 1)..(Len(s) + Len(u))
    <3>1. both[i] = i - Len(s) + Len(t)
      BY <1>4, <2>2
    <3>2. (s \o u)[i] = u[i - Len(s)]
      BY <1>2, <1>3, <2>2
    <3>3. PICK k \in 1..(Len(t) + Len(u)) : k = i - Len(s) + Len(t) /\ ~(k <= Len(t)) /\ k - Len(t) = i - Len(s)
      <4>1. \A x, y, z \in Nat : \A j \in (x + 1)..(x + z) :
                /\ j - x + y \in 1..(y + z) /\ ~(j - x + y <= y) /\ (j - x + y) - y = j - x
        OBVIOUS
      <4>2. QED
        BY <1>2, <2>2, <4>1
    <3>4. (t \o u)[k] = u[i - Len(s)]
      BY <1>3, <3>3
    <3>5. QED
      BY <3>1, <3>2, <3>3, <3>4
  <2>3. QED
    BY <1>5, <2>1, <2>2
<1>10. QED
  BY <1>2, <1>7, <1>8, <1>9 DEF Part

\* Each half of a part is a part.
LEMMA PartOfOne ==
    ASSUME NEW S, NEW s \in Seq(S), NEW u \in Seq(S), NEW t \in Seq(S), Part(s \o u, t)
    PROVE  Part(s, t) /\ Part(u, t)
<1>1. PICK at \in [DOMAIN (s \o u) -> DOMAIN t] :
        /\ \A i, j \in DOMAIN (s \o u) : i < j => at[i] < at[j]
        /\ \A i \in DOMAIN (s \o u) : (s \o u)[i] = t[at[i]]
  BY DEF Part
<1>2. /\ Len(s) \in Nat /\ Len(u) \in Nat
      /\ DOMAIN s = 1..Len(s) /\ DOMAIN u = 1..Len(u)
      /\ DOMAIN (s \o u) = 1..(Len(s) + Len(u))
  BY LenProperties, ConcatProperties
<1>3. \A i \in 1..(Len(s) + Len(u)) : (s \o u)[i] = IF i <= Len(s) THEN s[i] ELSE u[i - Len(s)]
  BY ConcatProperties
<1>4. Part(s, t)
  <2> DEFINE first == [i \in DOMAIN s |-> at[i]]
  <2>1. \A i \in DOMAIN s : i \in DOMAIN (s \o u) /\ (s \o u)[i] = s[i]
    BY <1>2, <1>3
  <2>2. first \in [DOMAIN s -> DOMAIN t]
    BY <1>1, <2>1
  <2>3. \A i, j \in DOMAIN s : i < j => first[i] < first[j]
    BY <1>1, <2>1
  <2>4. \A i \in DOMAIN s : s[i] = t[first[i]]
    BY <1>1, <2>1
  <2> HIDE DEF first
  <2>5. QED
    BY <2>2, <2>3, <2>4 DEF Part
<1>5. Part(u, t)
  <2> DEFINE second == [i \in DOMAIN u |-> at[i + Len(s)]]
  <2>1. ASSUME NEW i \in DOMAIN u PROVE i + Len(s) \in DOMAIN (s \o u) /\ (s \o u)[i + Len(s)] = u[i]
    <3>1. /\ i + Len(s) \in 1..(Len(s) + Len(u)) /\ ~(i + Len(s) <= Len(s))
          /\ (i + Len(s)) - Len(s) = i
      BY <1>2
    <3>2. QED
      BY <1>2, <1>3, <3>1
  <2>2. second \in [DOMAIN u -> DOMAIN t]
    BY <1>1, <2>1
  <2>3. ASSUME NEW i \in DOMAIN u, NEW j \in DOMAIN u, i < j PROVE second[i] < second[j]
    <3>1. i + Len(s) < j + Len(s)
      BY <1>2, <2>3
    <3>2. QED
      BY <1>1, <2>1, <3>1
  <2>4. \A i \in DOMAIN u : u[i] = t[second[i]]
    BY <1>1, <2>1
  <2> HIDE DEF second
  <2>5. QED
    BY <2>2, <2>3, <2>4 DEF Part
<1>6. QED
  BY <1>4, <1>5

\* What the caller had of the text before, it has of the text that has come.
LEMMA DeltaLosesNothing ==
    ASSUME NEW previous \in Text, NEW incoming \in Text, NEW sent \in Text,
           Part(Compact(previous), Compact(sent))
    PROVE  LET delta == Delta(previous, incoming)
           IN  sent \o delta \in Text /\ Part(Compact(incoming), Compact(sent \o delta))
<1>1. PICK delta \in Text : /\ delta = Delta(previous, incoming)
                            /\ \/ Repeats(previous, incoming, delta)
                               \/ Continues(previous, incoming, delta)
                               \/ Overlaps(previous, incoming, delta)
  BY DeltaCases
<1>2. sent \o delta \in Text /\ Compact(sent \o delta) = Compact(sent) \o Compact(delta)
  BY CompactConcat DEF Text
<1>3. /\ Compact(previous) \in Seq(Letter) /\ Compact(incoming) \in Seq(Letter)
      /\ Compact(sent) \in Seq(Letter) /\ Compact(delta) \in Seq(Letter)
  BY CompactType
<1>4. CASE Repeats(previous, incoming, delta)
  <2>1. PICK rest \in Seq(Letter) : Compact(previous) = Compact(incoming) \o rest
    BY <1>4 DEF Repeats
  <2>2. Part(Compact(incoming), Compact(sent))
    BY <1>3, <2>1, PartOfOne
  <2>3. Compact(sent) \o <<>> = Compact(sent)
    BY <1>3, ConcatEmptySeq
  <2>4. Compact(sent \o delta) = Compact(sent)
    BY <1>2, <1>4, <2>3, CompactSteps DEF Repeats
  <2>5. QED
    BY <1>1, <1>2, <2>2, <2>4
<1>5. CASE Continues(previous, incoming, delta)
  <2>1. Part(Compact(previous) \o Compact(delta), Compact(sent) \o Compact(delta))
    BY <1>3, PartOfBoth
  <2>2. QED
    BY <1>1, <1>2, <1>5, <2>1 DEF Continues
<1>6. CASE Overlaps(previous, incoming, delta)
  <2>1. PICK head \in Seq(Letter), overlap \in Seq(Letter) :
            Compact(previous) = head \o overlap /\ Compact(incoming) = overlap \o Compact(delta)
    BY <1>6 DEF Overlaps
  <2>2. Part(overlap, Compact(sent))
    BY <1>3, <2>1, PartOfOne
  <2>3. Part(overlap \o Compact(delta), Compact(sent) \o Compact(delta))
    BY <1>3, <2>2, PartOfBoth
  <2>4. QED
    BY <1>1, <1>2, <2>1, <2>3
<1>7. QED
  BY <1>1, <1>4, <1>5, <1>6

\* When the text that has come continues the one before, the delta is what it adds.
LEMMA DeltaContinues ==
    ASSUME NEW previous \in Text, NEW incoming \in Text,
           IsPrefix(Compact(previous), Compact(incoming))
    PROVE  Continues(previous, incoming, Delta(previous, incoming))
<1>1. PICK delta \in Text : /\ delta = Delta(previous, incoming)
                            /\ \/ Repeats(previous, incoming, delta)
                               \/ Continues(previous, incoming, delta)
                               \/ Overlaps(previous, incoming, delta)
  BY DeltaCases
<1>2. /\ Compact(previous) \in Seq(Letter) /\ Compact(incoming) \in Seq(Letter)
      /\ Compact(delta) \in Seq(Letter)
  BY CompactType
<1>3. CASE Repeats(previous, incoming, delta)
  <2>1. PICK rest \in Seq(Letter) : Compact(previous) = Compact(incoming) \o rest
    BY <1>3 DEF Repeats
  <2>2. Len(Compact(previous)) = Len(Compact(incoming)) + Len(rest)
    BY <1>2, <2>1, ConcatProperties
  <2>3. Len(Compact(previous)) <= Len(Compact(incoming))
    BY DEF IsPrefix
  <2>4. Len(rest) = 0
    BY <1>2, <2>2, <2>3, LenProperties
  <2>5. rest = <<>>
    BY <2>4, EmptySeq
  <2>6. Compact(previous) = Compact(incoming) /\ Compact(previous) \o <<>> = Compact(previous)
    BY <1>2, <2>1, <2>5, ConcatEmptySeq
  <2>7. QED
    BY <1>1, <1>3, <2>6, CompactSteps DEF Repeats, Continues
<1>4. CASE Overlaps(previous, incoming, delta)
  <2>1. Compact(previous) = <<>>
    BY <1>4 DEF Overlaps
  <2>2. PICK head \in Seq(Letter), overlap \in Seq(Letter) :
            Compact(previous) = head \o overlap /\ Compact(incoming) = overlap \o Compact(delta)
    BY <1>4 DEF Overlaps
  <2>3. overlap = <<>>
    BY <2>1, <2>2, ConcatEqualIffEmpty
  <2>4. QED
    BY <1>1, <2>1, <2>2, <2>3 DEF Continues
<1>5. QED
  BY <1>1, <1>3, <1>4

-----------------------------------------------------------------------------
(* What a page shows.                                                      *)

\* An answer is made of letters.
LEMMA LettersType ==
    ASSUME NEW p \in Page
    PROVE  Letters[p] \in Seq(Letter) /\ Len(Letters[p]) \in Nat \ {0}
<1>1. Letters[p] \in Seq(Range(Letters[p])) /\ Len(Letters[p]) > 0
  BY LettersAssumption
<1>2. Range(Letters[p]) \subseteq Letter
  BY DEF Letter
<1>3. Letters[p] \in Seq(Letter)
  BY <1>1, <1>2, SeqMonotonic
<1>4. Len(Letters[p]) \in Nat
  BY <1>3, LenProperties
<1>5. QED
  BY <1>1, <1>3, <1>4

\* The beginning of an answer.
LEMMA Beginning ==
    ASSUME NEW p \in Page, NEW n \in 0..Len(Letters[p])
    PROVE  /\ SubSeq(Letters[p], 1, n) \in Seq(Letter)
           /\ Len(SubSeq(Letters[p], 1, n)) = n
           /\ \A i \in 1..n : SubSeq(Letters[p], 1, n)[i] = Letters[p][i]
<1>1. n \in Nat /\ Letters[p] \in Seq(Letter) /\ Len(Letters[p]) \in Nat
  BY LettersType
<1>2. \A i \in 1..n : Letters[p][i] \in Letter
  BY <1>1, ElementOfSeq
<1>3. /\ SubSeq(Letters[p], 1, n) \in Seq(Letter)
      /\ Len(SubSeq(Letters[p], 1, n)) = IF 1 <= n THEN n - 1 + 1 ELSE 0
      /\ \A i \in 1..(n - 1 + 1) : SubSeq(Letters[p], 1, n)[i] = Letters[p][1 + i - 1]
  BY <1>1, <1>2, SubSeqProperties
<1>4. QED
  BY <1>1, <1>3

\* A page shows the beginning of its answer, however it lays it out.
LEMMA ShownText ==
    ASSUME NEW p \in Page, NEW upto \in 0..Len(Letters[p]), NEW wide \in BOOLEAN
    PROVE  /\ Shown(p, upto, wide) \in Text
           /\ Compact(Shown(p, upto, wide)) = SubSeq(Letters[p], 1, upto)
<1> DEFINE letters == SubSeq(Letters[p], 1, upto)
           laid(k) == [i \in 1..(2 * k) |-> IF i % 2 = 1 THEN letters[(i + 1) \div 2] ELSE Blank]
           S == {k \in Nat : k <= upto => laid(k) \in Text /\ Compact(laid(k)) = SubSeq(Letters[p], 1, k)}
<1>1. letters \in Seq(Letter) /\ Len(letters) = upto /\ upto \in Nat /\ Len(Letters[p]) \in Nat
  BY Beginning, LettersType
<1>2. \A i \in 1..upto : letters[i] \in Letter /\ letters[i] = Letters[p][i]
  BY <1>1, Beginning, ElementOfSeq
<1> HIDE DEF letters
<1>3. CASE upto = 0
  <2>1. Shown(p, upto, wide) = <<Blank>>
    BY <1>3 DEF Shown
  <2>2. <<Blank>> \in Text /\ Len(<<Blank>>) = 1 /\ \A i \in 1..1 : <<Blank>>[i] = Blank
    BY DEF Text
  <2>3. Compact(<<Blank>>) = <<>>
    BY <2>2, BlanksAreDropped
  <2>4. SubSeq(Letters[p], 1, upto) = <<>>
    BY <1>3, SubSeqEmpty
  <2>5. QED
    BY <2>1, <2>2, <2>3, <2>4
<1>4. CASE upto # 0 /\ ~wide
  <2>1. Shown(p, upto, wide) = letters
    BY <1>4 DEF Shown, letters
  <2>2. QED
    BY <1>1, <2>1, LettersAreKept DEF letters
<1>5. CASE upto # 0 /\ wide
  <2>1. Shown(p, upto, wide) = laid(upto)
    BY <1>5 DEF Shown, letters
  <2>2. 0 \in S
    <3>1. laid(0) = <<>>
      OBVIOUS
    <3>2. SubSeq(Letters[p], 1, 0) = <<>> /\ <<>> \in Text
      BY SubSeqEmpty DEF Text
    <3> HIDE DEF laid
    <3>3. QED
      BY <3>1, <3>2, CompactSteps
  <2>3. ASSUME NEW k \in Nat, k \in S PROVE k + 1 \in S
    <3> HIDE DEF laid
    <3> SUFFICES ASSUME k + 1 <= upto
                 PROVE  laid(k + 1) \in Text /\ Compact(laid(k + 1)) = SubSeq(Letters[p], 1, k + 1)
      OBVIOUS
    <3>1. laid(k) \in Text /\ Compact(laid(k)) = SubSeq(Letters[p], 1, k)
      BY <1>1, <2>3
    <3>2. letters[k + 1] \in Letter /\ letters[k + 1] = Letters[p][k + 1]
      BY <1>1, <1>2
    <3>3. PICK s \in Text : s = laid(k)
      BY <3>1
    <3>4. PICK t \in Text : t = Append(s, letters[k + 1])
      <4>1. Append(s, letters[k + 1]) \in Text
        BY <3>2 DEF Text
      <4>2. QED
        BY <4>1
    <3>5. PICK u \in Text : u = Append(t, Blank)
      <4>1. Append(t, Blank) \in Text
        BY DEF Text
      <4>2. QED
        BY <4>1
    <3>6. laid(k + 1) = u
      <4> USE DEF laid
      <4>1. Len(s) = 2 * k /\ Len(t) = 2 * k + 1 /\ Len(u) = 2 * k + 2
        BY <3>3, <3>4, <3>5, AppendProperties DEF Text
      <4>2. DOMAIN u = 1..(2 * (k + 1)) /\ DOMAIN laid(k + 1) = 1..(2 * (k + 1))
        BY <4>1, LenProperties DEF Text
      <4>3. ASSUME NEW i \in 1..(2 * (k + 1)) PROVE laid(k + 1)[i] = u[i]
        <5>1. CASE i \in 1..(2 * k)
          <6>1. laid(k + 1)[i] = laid(k)[i]
            BY <5>1
          <6>2. u[i] = s[i]
            BY <3>4, <3>5, <4>1, <5>1, AppendProperties DEF Text
          <6>3. QED
            BY <3>3, <6>1, <6>2
        <5>2. CASE i = 2 * k + 1
          <6>1. i % 2 = 1 /\ (i + 1) \div 2 = k + 1
            BY <5>2
          <6>2. u[i] = letters[k + 1]
            BY <3>4, <3>5, <4>1, <5>2, AppendProperties DEF Text
          <6>3. QED
            BY <6>1, <6>2
        <5>3. CASE i = 2 * k + 2
          <6>1. i % 2 # 1
            BY <5>3
          <6>2. u[i] = Blank
            BY <3>5, <4>1, <5>3, AppendProperties DEF Text
          <6>3. QED
            BY <6>1, <6>2
        <5>4. QED
          BY <5>1, <5>2, <5>3
      <4>4. laid(k + 1) = [i \in 1..(2 * (k + 1)) |-> laid(k + 1)[i]]
        BY <4>2
      <4>5. u = [i \in 1..(2 * (k + 1)) |-> u[i]]
        BY <4>2 DEF Text
      <4> HIDE DEF laid
      <4>6. QED
        BY <4>3, <4>4, <4>5
    <3>7. Compact(u) = Append(Compact(s), letters[k + 1])
      BY <3>2, <3>4, <3>5, CompactSteps, BlankIsNoLetter
    <3>8. Append(SubSeq(Letters[p], 1, k), Letters[p][k + 1]) = SubSeq(Letters[p], 1, k + 1)
      <4>1. k \in 0..Len(Letters[p]) /\ k + 1 \in 0..Len(Letters[p])
        BY <1>1
      <4>2. Letters[p] \in Seq(Letter)
        BY LettersType
      <4>3. QED
        BY <4>1, <4>2, <1>1
    <3>9. QED
      BY <3>1, <3>2, <3>3, <3>6, <3>7, <3>8
  <2>4. \A k \in Nat : k \in S
    <3> HIDE DEF S
    <3>1. QED
      BY <2>2, <2>3, Induction
  <2> HIDE DEF laid
  <2>5. laid(upto) \in Text /\ Compact(laid(upto)) = SubSeq(Letters[p], 1, upto)
    BY <1>1, <2>4
  <2>6. QED
    BY <2>1, <2>5
<1>6. QED
  BY <1>3, <1>4, <1>5

\* Stripping a text costs it no letter.
LEMMA NormalizedText ==
    ASSUME NEW text \in Text
    PROVE  Normalized(text) \in Text /\ Compact(Normalized(text)) = Compact(text)
<1> DEFINE kept == {i \in DOMAIN text : text[i] # Blank}
<1>1. DOMAIN text = 1..Len(text) /\ Len(text) \in Nat /\ <<>> \in Text
  BY DEF Text
<1>2. CASE kept = {}
  <2>1. Normalized(text) = <<>>
    BY <1>2 DEF Normalized
  <2>2. \A i \in 1..Len(text) : text[i] = Blank
    BY <1>1, <1>2
  <2>3. QED
    BY <1>1, <2>1, <2>2, BlanksAreDropped, CompactSteps
<1>3. CASE kept # {}
  <2>1. kept \in SUBSET Nat /\ kept \in SUBSET (0..Len(text))
    BY <1>1
  <2>2. Normalized(text) = SubSeq(text, Min(kept), Max(kept))
    BY <1>3 DEF Normalized
  <2> HIDE DEF kept
  <2>3. PICK first \in kept : first = Min(kept) /\ \A m \in kept : first <= m
    BY <1>3, <2>1, MinIsLeast
  <2>4. PICK last \in kept : last = Max(kept) /\ \A m \in kept : last >= m
    BY <1>1, <1>3, <2>1, MaxIsGreatest
  <2>5. first \in 1..Len(text) /\ last \in 1..Len(text) /\ first <= last
    BY <1>1, <2>3, <2>4 DEF kept
  <2>6. \A i \in 1..Len(text) : i < first \/ i > last => text[i] = Blank
    <3> SUFFICES ASSUME NEW i \in 1..Len(text), i < first \/ i > last PROVE i \notin kept
      BY <1>1 DEF kept
    <3>1. QED
      BY <2>3, <2>4, <2>5
  <2>7. PICK front \in Text, rest \in Text :
            /\ front = SubSeq(text, 1, first - 1)
            /\ rest = SubSeq(text, first, Len(text))
            /\ Compact(text) = Compact(front) \o Compact(rest)
    <3>1. first - 1 \in 0..Len(text) /\ (first - 1) + 1 = first
      BY <2>5
    <3>2. QED
      BY <3>1, SplitText
  <2>8. Compact(front) = <<>>
    <3>1. ASSUME NEW i \in 1..Len(front) PROVE front[i] = Blank
      <4>1. i \in 1..(first - 1) /\ front[i] = text[i]
        BY <2>5, <2>7 DEF Text
      <4>2. QED
        BY <4>1, <2>5, <2>6
    <3>2. QED
      BY <3>1, BlanksAreDropped
  <2>9. Len(rest) = Len(text) - first + 1 /\ \A i \in 1..Len(rest) : rest[i] = text[first + i - 1]
    BY <2>5, <2>7 DEF Text
  <2>10. PICK n \in 0..Len(rest) : n = last - first + 1
    <3>1. last - first + 1 \in 0..Len(rest)
      BY <1>1, <2>5, <2>9
    <3>2. QED
      BY <3>1
  <2>11. PICK middle \in Text, back \in Text :
            /\ middle = SubSeq(rest, 1, n)
            /\ back = SubSeq(rest, n + 1, Len(rest))
            /\ Compact(rest) = Compact(middle) \o Compact(back)
    BY SplitText
  <2>12. Compact(back) = <<>>
    <3>1. ASSUME NEW i \in 1..Len(back) PROVE back[i] = Blank
      <4>1. Len(back) = Len(rest) - n /\ back[i] = rest[n + i]
        BY <2>9, <2>11, <1>1, <2>5 DEF Text
      <4>2. n + i \in 1..Len(rest) /\ rest[n + i] = text[first + (n + i) - 1]
        BY <1>1, <2>5, <2>9, <4>1
      <4>3. first + (n + i) - 1 = last + i
        BY <2>5, <2>10
      <4>4. last + i \in 1..Len(text) /\ last + i > last
        BY <1>1, <2>5, <2>9, <2>10, <4>1
      <4>5. QED
        BY <2>6, <4>1, <4>2, <4>3, <4>4
    <3>2. QED
      BY <3>1, BlanksAreDropped
  <2>13. middle = SubSeq(text, first, last)
    <3>1. Len(middle) = n /\ \A i \in 1..n : middle[i] = text[first + i - 1]
      BY <1>1, <2>5, <2>9, <2>10, <2>11 DEF Text
    <3>2. /\ SubSeq(text, first, last) \in Seq(Letter \cup {Blank})
          /\ Len(SubSeq(text, first, last)) = n
          /\ \A i \in 1..n : SubSeq(text, first, last)[i] = text[first + i - 1]
      <4>1. \A i \in first..last : text[i] \in Letter \cup {Blank}
        BY <1>1, <2>5, ElementOfSeq DEF Text
      <4>2. QED
        BY <2>5, <2>10, <4>1, SubSeqProperties
    <3>3. QED
      BY <3>1, <3>2, SeqEqual DEF Text
  <2>14. Compact(text) = Compact(middle)
    <3>1. Compact(middle) \in Seq(Letter)
      BY CompactType
    <3>2. QED
      BY <2>7, <2>8, <2>11, <2>12, <3>1, ConcatEmptySeq
  <2>15. QED
    BY <2>2, <2>3, <2>4, <2>13, <2>14
<1>4. QED
  BY <1>2, <1>3

\* The character at a place of an answer in one of its layouts.
Laid(p, wide, i) ==
    IF wide THEN IF i % 2 = 1 THEN Letters[p][(i + 1) \div 2] ELSE Blank
    ELSE Letters[p][i]

\* A text that is shown is stripped at most of the blank at its end, so that what
\* is left of it depends on how much is shown in its length alone.
LEMMA NormalizedShown ==
    ASSUME NEW p \in Page, NEW n \in 1..Len(Letters[p]), NEW wide \in BOOLEAN
    PROVE  LET text == Normalized(Shown(p, n, wide))
           IN  /\ text \in Text
               /\ wide => Len(text) = 2 * n - 1
               /\ ~wide => Len(text) = n
               /\ \A i \in 1..Len(text) : text[i] = Laid(p, wide, i)
<1> DEFINE size == IF wide THEN 2 * n ELSE n
           last == IF wide THEN 2 * n - 1 ELSE n
<1>1. n \in Nat /\ n # 0 /\ Len(Letters[p]) \in Nat /\ n \in 0..Len(Letters[p])
  BY LettersType
<1>2. PICK shown \in Text : shown = Shown(p, n, wide)
  BY <1>1, ShownText
<1>3. PICK letters \in Seq(Letter) : /\ letters = SubSeq(Letters[p], 1, n) /\ Len(letters) = n
                                     /\ \A i \in 1..n : letters[i] = Letters[p][i]
  BY <1>1, Beginning
<1>4. \A i \in 1..n : Letters[p][i] \in Letter
  BY <1>3, ElementOfSeq
<1>5. DOMAIN shown = 1..size /\ \A i \in 1..size : shown[i] = Laid(p, wide, i)
  <2>1. CASE wide
    <3>1. shown = [i \in 1..(2 * n) |-> IF i % 2 = 1 THEN letters[(i + 1) \div 2] ELSE Blank]
      BY <1>1, <1>2, <1>3, <2>1 DEF Shown
    <3>2. \A i \in 1..(2 * n) : i % 2 = 1 => (i + 1) \div 2 \in 1..n
      BY <1>1
    <3>3. QED
      BY <1>3, <2>1, <3>1, <3>2 DEF Laid
  <2>2. CASE ~wide
    <3>1. shown = letters
      BY <1>1, <1>2, <1>3, <2>2 DEF Shown
    <3>2. QED
      BY <1>3, <2>2, <3>1, LenProperties DEF Laid
  <2>3. QED
    BY <2>1, <2>2
<1>6. size \in Nat /\ last \in 1..size /\ 1 \in 1..size /\ size \in {last, last + 1}
  BY <1>1
<1>7. Laid(p, wide, 1) # Blank /\ Laid(p, wide, last) # Blank /\ \A i \in 1..size : i > last => Laid(p, wide, i) = Blank
  <2>1. CASE wide
    <3>1. 1 % 2 = 1 /\ (1 + 1) \div 2 = 1 /\ 1 \in 1..n
      BY <1>1
    <3>2. (2 * n - 1) % 2 = 1 /\ (2 * n - 1 + 1) \div 2 = n /\ n \in 1..n
      BY <1>1
    <3>3. \A i \in 1..(2 * n) : i > 2 * n - 1 => i % 2 # 1
      BY <1>1
    <3>4. QED
      BY <1>4, <2>1, <3>1, <3>2, <3>3, BlankIsNoLetter DEF Laid
  <2>2. CASE ~wide
    <3>1. 1 \in 1..n /\ n \in 1..n /\ \A i \in 1..n : ~(i > n)
      BY <1>1
    <3>2. QED
      BY <1>4, <2>2, <3>1, BlankIsNoLetter DEF Laid
  <2>3. QED
    BY <2>1, <2>2
<1> HIDE DEF size, last
<1> DEFINE kept == {i \in DOMAIN shown : shown[i] # Blank}
<1>8. 1 \in kept /\ last \in kept /\ \A i \in kept : i \in 1..size /\ ~(i > last)
  BY <1>5, <1>6, <1>7
<1>9. kept \in SUBSET Nat /\ kept \in SUBSET (0..size) /\ kept # {}
  BY <1>6, <1>8
<1>10. Normalized(shown) = SubSeq(shown, Min(kept), Max(kept))
  BY <1>9 DEF Normalized
<1> HIDE DEF kept
<1>11. Min(kept) = 1
  <2>1. Min(kept) \in kept /\ Min(kept) <= 1
    BY <1>8, <1>9, MinIsLeast
  <2>2. QED
    BY <2>1, <1>8
<1>12. Max(kept) = last
  <2>1. PICK m \in kept : m = Max(kept) /\ m >= last
    BY <1>6, <1>8, <1>9, MaxIsGreatest
  <2>2. m \in 1..size /\ ~(m > last)
    BY <1>8
  <2>3. QED
    BY <2>1, <2>2, <1>6
<1>13. Normalized(shown) = SubSeq(shown, 1, last)
  BY <1>10, <1>11, <1>12
<1>14. Len(SubSeq(shown, 1, last)) = last /\ \A i \in 1..last : SubSeq(shown, 1, last)[i] = Laid(p, wide, i)
  BY <1>5, <1>6 DEF Text
<1>15. Normalized(shown) \in Text
  BY NormalizedText
<1>16. QED
  BY <1>2, <1>13, <1>14, <1>15 DEF last

\* A page that shows less of its answer in the layout it had relays nothing.
LEMMA LessIsRegressed ==
    ASSUME NEW p \in Page, NEW before \in 1..Len(Letters[p]), NEW now \in 1..Len(Letters[p]),
           NEW wide \in BOOLEAN, now < before
    PROVE  Regressed(Normalized(Shown(p, before, wide)), Normalized(Shown(p, now, wide)))
<1>1. PICK s \in Text : /\ s = Normalized(Shown(p, now, wide))
                        /\ wide => Len(s) = 2 * now - 1
                        /\ ~wide => Len(s) = now
                        /\ \A i \in 1..Len(s) : s[i] = Laid(p, wide, i)
  BY NormalizedShown
<1>2. PICK t \in Text : /\ t = Normalized(Shown(p, before, wide))
                        /\ wide => Len(t) = 2 * before - 1
                        /\ ~wide => Len(t) = before
                        /\ \A i \in 1..Len(t) : t[i] = Laid(p, wide, i)
  BY NormalizedShown
<1>3. Len(s) \in Nat /\ Len(t) \in Nat
  BY DEF Text
<1>4. now \in Nat /\ before \in Nat
  BY LettersType
<1>5. Len(s) < Len(t)
  <2>1. CASE wide
    <3>1. Len(s) = 2 * now - 1 /\ Len(t) = 2 * before - 1
      BY <1>1, <1>2, <2>1
    <3>2. QED
      BY <1>4, <3>1
  <2>2. CASE ~wide
    BY <1>1, <1>2, <1>4, <2>2
  <2>3. QED
    BY <2>1, <2>2
<1>6. SubSeq(t, 1, Len(s)) = s
  <2>1. /\ SubSeq(t, 1, Len(s)) \in Text
        /\ Len(SubSeq(t, 1, Len(s))) = Len(s)
        /\ \A i \in 1..Len(s) : SubSeq(t, 1, Len(s))[i] = t[i]
    BY <1>3, <1>5 DEF Text
  <2>2. \A i \in 1..Len(s) : s[i] = t[i]
    <3>1. \A i \in 1..Len(s) : i \in 1..Len(t)
      BY <1>3, <1>5
    <3>2. QED
      BY <1>1, <1>2, <3>1
  <2>3. QED
    BY <2>1, <2>2, SeqEqual DEF Text
<1>7. SubSeq(s, 1, Len(s)) = s
  BY SubSeqFull DEF Text
<1>8. QED
  <2>1. Regressed(t, s)
    BY <1>3, <1>5, <1>6, <1>7 DEF Regressed, IsPrefix
  <2>2. QED
    BY <1>1, <1>2, <2>1

-----------------------------------------------------------------------------
(* The invariant.                                                          *)

\* Every text there is, is one.
Texts ==
    /\ \A s \in wire : s.text \in Text
    /\ snapshot \in Text /\ events \in Seq(Text) /\ result \in Text
    /\ seen \in Text /\ emitted \in Text

TypeInv ==
    /\ TypeOK
    /\ page \in [Page -> [upto : Nat, wide : BOOLEAN, sent : Nat]]
    /\ IsFiniteSet(claims)
    /\ Texts

\* What was yielded holds what was taken, and in the end the result.
Held ==
    /\ reader # "done" => Part(Compact(seen), Compact(emitted))
    /\ reader = "done" => status = "completed" /\ Part(Compact(result), Compact(emitted))

\* How many letters a text has, and whether they are the beginning of the answer.
Count(text) == Len(Compact(text))
OfAnswer(p, text) == IsPrefix(Compact(text), Letters[p])

\* Nothing has come while no page has claimed the job, and the page that claimed
\* it last is one that did.
Unclaimed ==
    IF claims = {}
    THEN /\ wire = {} /\ snapshot = <<>> /\ events = <<>> /\ seen = <<>> /\ emitted = <<>>
         /\ status \in {"queued", "failed"} /\ reader # "done"
    ELSE owner \in claims

\* A page that has relayed nothing has shown nothing.
Unsent == \A p \in Page : page[p].sent = 0 => page[p].upto = 0

\* Snapshots on their way: the later one has more of the answer, and a new one
\* has more than the server.
WireInOrder ==
    /\ \A s \in wire : OfAnswer(owner, s.text) /\ Count(s.text) <= page[owner].upto
    /\ \A s, t \in wire : s.number <= t.number => Count(s.text) <= Count(t.text)
    /\ \A s \in wire : s.number > newest => Count(snapshot) <= Count(s.text)

\* The deltas follow one another up to the snapshot.
EventsInOrder ==
    /\ OfAnswer(owner, snapshot) /\ Count(snapshot) <= page[owner].upto
    /\ \A i \in DOMAIN events : OfAnswer(owner, events[i]) /\ Count(events[i]) <= Count(snapshot)
    /\ \A i, j \in DOMAIN events : i < j => Count(events[i]) <= Count(events[j])

\* The generator is behind every delta that it has yet to take, and has yielded
\* what it took last.
ReaderInOrder ==
    /\ OfAnswer(owner, seen) /\ Count(seen) <= Count(snapshot)
    /\ \A i \in DOMAIN events : index < i => Count(seen) <= Count(events[i])
    /\ reader # "done" => Compact(emitted) = Compact(seen)

\* The result has all that the server had, and the generator ends with it.
ResultInOrder ==
    /\ status = "completed" => OfAnswer(owner, result) /\ Count(snapshot) <= Count(result)
    /\ reader = "done" => status = "completed" /\ Compact(emitted) = Compact(result)

InOrder == WireInOrder /\ EventsInOrder /\ ReaderInOrder /\ ResultInOrder

\* One page answers and its posts come in order.
Single == claims # {} /\ claims \subseteq {owner} /\ ~disorder

OneAnswer == Single => InOrder

-----------------------------------------------------------------------------
(* Types.                                                                  *)

\* A delta is a text.
LEMMA DeltaType ==
    ASSUME NEW previous \in Text, NEW incoming \in Text
    PROVE  Delta(previous, incoming) \in Text
BY DeltaCases

\* What a page relays has the letters that it shows.
LEMMA RelayedText ==
    ASSUME TypeInv, NEW p \in Page
    PROVE  Relayed(p) \in Text /\ Compact(Relayed(p)) = SubSeq(Letters[p], 1, page[p].upto)
<1>1. page[p].upto \in 0..Len(Letters[p]) /\ page[p].wide \in BOOLEAN
  BY DEF TypeInv, TypeOK
<1>2. QED
  BY <1>1, ShownText DEF Relayed

\* The texts and counts of the initial states are of the right kind.
LEMMA TypeInit == Init => TypeInv
<1> SUFFICES ASSUME Init PROVE TypeInv
  OBVIOUS
<1>1. \A p \in Page : Len(Letters[p]) \in Nat
  BY LettersType
<1>2. <<>> \in Text /\ <<>> \in Seq(Text) /\ Len(<<>>) = 0
  BY DEF Text
<1>3. page \in [Page -> [upto : Nat, wide : BOOLEAN, sent : Nat]]
  BY DEF Init
<1>4. \A p \in Page : page[p].upto = 0 /\ page[p].sent = 0
  BY DEF Init
<1>5. TypeOK
  <2>1. \A p \in Page : page[p].upto \in 0..Len(Letters[p]) /\ page[p].wide \in BOOLEAN /\ page[p].sent \in Nat
    <3> SUFFICES ASSUME NEW p \in Page
                 PROVE  page[p].upto \in 0..Len(Letters[p]) /\ page[p].wide \in BOOLEAN /\ page[p].sent \in Nat
      OBVIOUS
    <3>1. 0 \in 0..Len(Letters[p])
      BY <1>1
    <3>2. page[p].upto = 0 /\ page[p].wide \in BOOLEAN /\ page[p].sent \in Nat
      BY <1>3, <1>4
    <3>3. QED
      BY <3>1, <3>2
  <2>2. Len(events) <= MaxEvents
    BY <1>2, LettersAssumption DEF Init
  <2>3. QED
    BY <2>1, <2>2 DEF Init, TypeOK
<1>6. Texts
  BY <1>2 DEF Init, Texts
<1>7. IsFiniteSet(claims)
  BY FS_EmptySet DEF Init
<1>8. QED
  BY <1>3, <1>5, <1>6, <1>7 DEF TypeInv

\* A delta more leaves the list within its bound.
LEMMA TrimmedType ==
    ASSUME NEW list \in Seq(Text), NEW text \in Text, Len(list) <= MaxEvents
    PROVE  LET kept == Trimmed(Append(list, text))
           IN  kept \in Seq(Text) /\ Len(kept) <= MaxEvents
<1>1. Len(list) \in Nat /\ MaxEvents \in Nat \ {0}
  BY LettersAssumption
<1>2. Append(list, text) \in Seq(Text) /\ Len(Append(list, text)) = Len(list) + 1
  BY AppendProperties
<1>3. PICK more \in Seq(Text) : more = Append(list, text) /\ Len(more) = Len(list) + 1
  BY <1>2
<1>4. CASE Len(more) > MaxEvents
  <2>1. more # <<>>
    BY <1>1, <1>3, EmptySeq
  <2>2. Tail(more) \in Seq(Text) /\ Len(Tail(more)) = Len(more) - 1
    BY <2>1, HeadTailProperties
  <2>3. QED
    BY <1>1, <1>3, <1>4, <2>2 DEF Trimmed
<1>5. CASE ~(Len(more) > MaxEvents)
  BY <1>1, <1>3, <1>5 DEF Trimmed
<1>6. QED
  BY <1>4, <1>5

\* A new snapshot is well formed and carries the number of its page.
LEMMA ObserveType ==
    ASSUME TypeInv, NEW p \in Page, Observe(p)
    PROVE  TypeInv'
<1>1. PICK upto \in 0..Len(Letters[p]), wide \in BOOLEAN :
          LET n == page[p].sent + 1
          IN  /\ page' = [page EXCEPT ![p] = [upto |-> upto, wide |-> wide, sent |-> n]]
              /\ wire' = wire \cup {[page |-> p, number |-> n, text |-> Shown(p, upto, wide)]}
  BY DEF Observe
<1>2. PICK n \in Nat : n = page[p].sent + 1
  BY DEF TypeInv, TypeOK
<1>3. PICK new : new = [page |-> p, number |-> n, text |-> Shown(p, upto, wide)]
  OBVIOUS
<1>4. new.page = p /\ new.number = n /\ new.text = Shown(p, upto, wide)
  BY <1>3
<1>5. new.text \in Text
  BY <1>4, ShownText
<1>6. wire' = wire \cup {new}
  BY <1>1, <1>2, <1>3
<1>7. PICK shown : shown = [upto |-> upto, wide |-> wide, sent |-> n]
  OBVIOUS
<1>8. upto \in Nat
  BY LettersType
<1>9. shown \in [upto : Nat, wide : BOOLEAN, sent : Nat] /\ shown.upto = upto /\ shown.wide = wide /\ shown.sent = n
  BY <1>7, <1>8
<1>10. page' = [page EXCEPT ![p] = shown]
  BY <1>1, <1>2, <1>7
<1>11. page \in [Page -> [upto : Nat, wide : BOOLEAN, sent : Nat]]
  BY DEF TypeInv
<1>12. page' \in [Page -> [upto : Nat, wide : BOOLEAN, sent : Nat]]
  BY <1>9, <1>10, <1>11
<1>13. page'[p] = shown /\ \A q \in Page : q # p => page'[q] = page[q]
  BY <1>10, <1>11
<1>14. /\ UNCHANGED <<status, owner, claims, snapshot, events, result, newest, disorder, reader, index, seen, emitted>>
       /\ p \in claims
  BY DEF Observe, serverVars, readerVars
<1>15. \A q \in Page : page'[q].upto \in 0..Len(Letters[q]) /\ page'[q].wide \in BOOLEAN /\ page'[q].sent \in Nat
  BY <1>9, <1>13 DEF TypeInv, TypeOK
<1>16. ASSUME NEW s \in wire' PROVE s.page \in claims /\ s.number \in 1..page'[s.page].sent
  <2>1. CASE s = new
    BY <1>2, <1>4, <1>9, <1>13, <1>14, <2>1 DEF TypeInv, TypeOK
  <2>2. CASE s \in wire
    <3>1. s.page \in Page /\ s.page \in claims /\ s.number \in 1..page[s.page].sent
      BY <2>2 DEF TypeInv, TypeOK
    <3>2. CASE s.page = p
      <4>1. s.number \in 1..page[p].sent /\ page[p].sent \in Nat
        BY <3>1, <3>2 DEF TypeInv, TypeOK
      <4>2. s.number \in 1..n
        BY <1>2, <4>1
      <4>3. QED
        BY <1>9, <1>13, <3>1, <3>2, <4>2
    <3>3. CASE s.page # p
      BY <1>13, <3>1, <3>3
    <3>4. QED
      BY <3>2, <3>3
  <2>3. QED
    BY <1>6, <2>1, <2>2
<1>17. TypeOK'
  BY <1>14, <1>15, <1>16 DEF TypeInv, TypeOK
<1>18. Texts'
  BY <1>5, <1>6, <1>14 DEF TypeInv, Texts
<1>19. QED
  BY <1>12, <1>14, <1>17, <1>18 DEF TypeInv

\* A snapshot that comes leaves the list of deltas within its bound.
LEMMA ArrivalType ==
    ASSUME TypeInv, NEW s \in wire, SnapshotArrives(s)
    PROVE  TypeInv'
<1>1. s.text \in Text /\ s.page \in Page /\ s.number \in Nat
  BY DEF TypeInv, TypeOK, Texts
<1>2. PICK text \in Text : text = Normalized(s.text)
  BY <1>1, NormalizedText
<1>3. snapshot \in Text /\ events \in Seq(Text) /\ Len(events) <= MaxEvents
  BY DEF TypeInv, TypeOK, Texts
<1>4. snapshot' \in Text /\ events' \in Seq(Text) /\ Len(events') <= MaxEvents
  <2>1. CASE text = <<>>
    BY <1>2, <1>3, <2>1 DEF SnapshotArrives
  <2>2. CASE text # <<>>
    <3>1. snapshot' = text /\ events' \in {events, Trimmed(Append(events, text))}
      BY <1>2, <2>2 DEF SnapshotArrives
    <3>2. Trimmed(Append(events, text)) \in Seq(Text) /\ Len(Trimmed(Append(events, text))) <= MaxEvents
      BY <1>3, TrimmedType
    <3>3. QED
      BY <1>3, <3>1, <3>2
  <2>3. QED
    BY <2>1, <2>2
<1>5. newest' \in Nat /\ disorder' \in BOOLEAN
  BY <1>1 DEF SnapshotArrives, TypeInv, TypeOK
<1>6. UNCHANGED <<page, status, owner, claims, result, reader, index, seen, emitted>> /\ wire' = wire \ {s}
  BY DEF SnapshotArrives, readerVars
<1>7. TypeOK'
  BY <1>4, <1>5, <1>6 DEF TypeInv, TypeOK
<1>8. Texts'
  BY <1>4, <1>6 DEF TypeInv, Texts
<1>9. QED
  BY <1>6, <1>7, <1>8 DEF TypeInv

\* Every step keeps the types.
LEMMA TypeStep == TypeInv /\ [Next]_vars => TypeInv'
<1> SUFFICES ASSUME TypeInv, [Next]_vars PROVE TypeInv'
  OBVIOUS
<1> USE DEF serverVars, readerVars
<1>1. ASSUME NEW p \in Page, Claim(p) PROVE TypeInv'
  <2>1. IsFiniteSet(claims')
    BY <1>1, FS_AddElement DEF Claim, TypeInv
  <2>2. QED
    BY <1>1, <2>1 DEF Claim, TypeInv, TypeOK, Texts
<1>2. ASSUME NEW p \in Page, Observe(p) PROVE TypeInv'
  BY <1>2, ObserveType
<1>3. CASE Requeue \/ Fail
  BY <1>3 DEF Requeue, Fail, TypeInv, TypeOK, Texts
<1>4. ASSUME NEW s \in wire, SnapshotLost(s) PROVE TypeInv'
  BY <1>4 DEF SnapshotLost, TypeInv, TypeOK, Texts
<1>5. ASSUME NEW s \in wire, SnapshotArrives(s) PROVE TypeInv'
  BY <1>5, ArrivalType
<1>6. CASE ResultArrives
  <2>1. Relayed(owner) \in Text
    BY RelayedText DEF TypeInv, TypeOK
  <2>2. QED
    BY <1>6, <2>1 DEF ResultArrives, TypeInv, TypeOK, Texts
<1>7. CASE ReaderTakes
  <2>1. index \in Nat /\ Len(events) \in Nat /\ index < Len(events) /\ events \in Seq(Text)
    BY <1>7 DEF ReaderTakes, TypeInv, TypeOK, Texts
  <2>2. index + 1 \in Nat /\ index + 1 \in 1..Len(events)
    BY <2>1
  <2>3. events[index + 1] \in Text
    BY <2>1, <2>2, ElementOfSeq
  <2>4. Delta(seen, events[index + 1]) \in Text
    BY <2>3, DeltaType DEF TypeInv, Texts
  <2>5. emitted \o Delta(seen, events[index + 1]) \in Text
    BY <2>4 DEF TypeInv, Texts, Text
  <2>6. /\ UNCHANGED <<page, wire, status, owner, claims, snapshot, events, result, newest, disorder, reader>>
        /\ index' \in Nat /\ seen' \in Text /\ emitted' \in Text
    BY <1>7, <2>2, <2>3, <2>5 DEF ReaderTakes
  <2>7. QED
    BY <2>6 DEF TypeInv, TypeOK, Texts
<1>8. CASE ReaderSleeps \/ ReaderWakes \/ ReaderTimesOut \/ ReaderBreaks
  BY <1>8 DEF ReaderSleeps, ReaderWakes, ReaderTimesOut, ReaderBreaks, TypeInv, TypeOK, Texts
<1>9. CASE ReaderCompletes
  <2>1. Rest \in Text
    BY NormalizedText, DeltaType DEF Rest, TypeInv, Texts
  <2>2. emitted \o Rest \in Text
    BY <2>1 DEF TypeInv, Texts, Text
  <2>3. QED
    BY <1>9, <2>2 DEF ReaderCompletes, TypeInv, TypeOK, Texts
<1>10. CASE UNCHANGED vars
  BY <1>10 DEF vars, TypeInv, TypeOK, Texts
<1>11. QED
  BY <1>1, <1>2, <1>3, <1>4, <1>5, <1>6, <1>7, <1>8, <1>9, <1>10 DEF Next

-----------------------------------------------------------------------------
(* Nothing is lost.                                                        *)

\* Every step keeps what was taken among what was yielded.
LEMMA HeldStep == TypeInv /\ Held /\ [Next]_vars => Held'
<1> SUFFICES ASSUME TypeInv, Held, [Next]_vars PROVE Held'
  OBVIOUS
<1> USE DEF serverVars, readerVars
<1>0. seen \in Text /\ emitted \in Text /\ result \in Text /\ status \in {"queued", "claimed", "completed", "failed"}
  BY DEF TypeInv, TypeOK, Texts
<1>1. ASSUME NEW p \in Page, Claim(p) \/ Observe(p) PROVE Held'
  BY <1>1 DEF Claim, Observe, Held
<1>2. CASE Requeue \/ Fail
  BY <1>2 DEF Requeue, Fail, Held
<1>3. ASSUME NEW s \in wire, SnapshotLost(s) \/ SnapshotArrives(s) PROVE Held'
  BY <1>3 DEF SnapshotLost, SnapshotArrives, Held
<1>4. CASE ResultArrives
  BY <1>4 DEF ResultArrives, Held
<1>5. CASE ReaderTakes
  <2>1. index + 1 \in 1..Len(events) /\ events \in Seq(Text)
    <3>1. index \in Nat /\ Len(events) \in Nat /\ index < Len(events) /\ events \in Seq(Text)
      BY <1>5 DEF ReaderTakes, TypeInv, TypeOK, Texts
    <3>2. QED
      BY <3>1
  <2>2. PICK text \in Text : text = events[index + 1]
    BY <2>1, ElementOfSeq
  <2>3. reader = "open" /\ reader' = "open" /\ seen' = text /\ emitted' = emitted \o Delta(seen, text)
    BY <1>5, <2>2 DEF ReaderTakes
  <2>4. Part(Compact(seen), Compact(emitted))
    BY <2>3 DEF Held
  <2>5. Part(Compact(text), Compact(emitted \o Delta(seen, text)))
    BY <1>0, <2>4, DeltaLosesNothing
  <2>6. QED
    BY <2>3, <2>5 DEF Held
<1>6. CASE ReaderSleeps \/ ReaderWakes \/ ReaderBreaks
  BY <1>6 DEF ReaderSleeps, ReaderWakes, ReaderBreaks, NothingToTake, Held
<1>7. CASE ReaderTimesOut
  BY <1>7 DEF ReaderTimesOut, Held
<1>8. CASE ReaderCompletes
  <2>1. PICK text \in Text : text = Normalized(result) /\ Compact(text) = Compact(result)
    BY <1>0, NormalizedText
  <2>2. /\ reader = "open" /\ reader' = "done" /\ status' = "completed" /\ result' = result
        /\ emitted' = emitted \o Delta(seen, text)
    BY <1>8, <2>1 DEF ReaderCompletes, NothingToTake, Rest
  <2>3. Part(Compact(seen), Compact(emitted))
    BY <2>2 DEF Held
  <2>4. Part(Compact(text), Compact(emitted \o Delta(seen, text)))
    BY <1>0, <2>3, DeltaLosesNothing
  <2>5. QED
    BY <2>1, <2>2, <2>4 DEF Held
<1>9. CASE UNCHANGED vars
  BY <1>9 DEF vars, Held
<1>10. QED
  BY <1>1, <1>2, <1>3, <1>4, <1>5, <1>6, <1>7, <1>8, <1>9 DEF Next

-----------------------------------------------------------------------------
(* One answer.                                                             *)

\* Nothing comes before the first claim.
LEMMA UnclaimedStep == TypeInv /\ Unclaimed /\ [Next]_vars => Unclaimed'
<1> SUFFICES ASSUME TypeInv, Unclaimed, [Next]_vars PROVE Unclaimed'
  OBVIOUS
<1> USE DEF serverVars, readerVars
<1>1. ASSUME NEW p \in Page, Claim(p) \/ Observe(p) PROVE Unclaimed'
  BY <1>1 DEF Claim, Observe, Unclaimed
<1>2. CASE Requeue \/ Fail
  BY <1>2 DEF Requeue, Fail, Unclaimed
<1>3. ASSUME NEW s \in wire, SnapshotLost(s) \/ SnapshotArrives(s) PROVE Unclaimed'
  BY <1>3 DEF SnapshotLost, SnapshotArrives, Unclaimed
<1>4. CASE ResultArrives
  BY <1>4 DEF ResultArrives, Unclaimed
<1>5. CASE ReaderTakes
  <2>1. index \in Nat /\ index < Len(events)
    BY <1>5 DEF ReaderTakes, TypeInv, TypeOK
  <2>2. events # <<>>
    BY <2>1
  <2>3. claims # {}
    BY <2>2 DEF Unclaimed
  <2>4. QED
    BY <1>5, <2>3 DEF ReaderTakes, Unclaimed
<1>6. CASE ReaderSleeps \/ ReaderWakes \/ ReaderBreaks \/ ReaderTimesOut
  BY <1>6 DEF ReaderSleeps, ReaderWakes, ReaderBreaks, ReaderTimesOut, Unclaimed
<1>7. CASE ReaderCompletes
  BY <1>7 DEF ReaderCompletes, Unclaimed
<1>8. CASE UNCHANGED vars
  BY <1>8 DEF vars, Unclaimed
<1>9. QED
  BY <1>1, <1>2, <1>3, <1>4, <1>5, <1>6, <1>7, <1>8 DEF Next

\* A page counts what it relays.
LEMMA UnsentStep == TypeInv /\ Unsent /\ [Next]_vars => Unsent'
<1> SUFFICES ASSUME TypeInv, Unsent, [Next]_vars PROVE Unsent'
  OBVIOUS
<1>1. CASE UNCHANGED page
  BY <1>1 DEF Unsent
<1>2. ASSUME NEW p \in Page, Observe(p) PROVE Unsent'
  <2>1. PICK shown : /\ page' = [page EXCEPT ![p] = shown]
                     /\ shown.sent = page[p].sent + 1
    BY <1>2 DEF Observe
  <2>2. DOMAIN page = Page /\ page[p].sent \in Nat
    BY DEF TypeInv, TypeOK
  <2>3. page'[p] = shown /\ \A q \in Page : q # p => page'[q] = page[q]
    BY <2>1, <2>2 DEF TypeInv
  <2>4. shown.sent # 0
    BY <2>1, <2>2
  <2>5. QED
    BY <2>3, <2>4 DEF Unsent
<1>3. QED
  BY <1>1, <1>2 DEF Next, Claim, Requeue, Fail, SnapshotLost, SnapshotArrives, ResultArrives, ReaderTakes,
     ReaderSleeps, ReaderWakes, ReaderTimesOut, ReaderCompletes, ReaderBreaks, vars

-----------------------------------------------------------------------------
\* Beginnings of answers.
LEMMA CountType ==
    ASSUME NEW text \in Text
    PROVE  Count(text) \in Nat
BY CompactType, LenProperties DEF Count

\* The empty text is the beginning of every answer.
LEMMA NothingOfAnswer ==
    ASSUME NEW p \in Page
    PROVE  OfAnswer(p, <<>>) /\ Count(<<>>) = 0
<1>1. Len(Letters[p]) \in Nat
  BY LettersType
<1>2. SubSeq(Letters[p], 1, 0) = <<>> /\ SubSeq(<<>>, 1, 0) = <<>>
  BY SubSeqEmpty
<1>3. QED
  BY <1>1, <1>2, CompactSteps DEF OfAnswer, Count, IsPrefix

\* A text with the first n letters of an answer is its beginning.
LEMMA BeginningOfAnswer ==
    ASSUME NEW p \in Page, NEW n \in 0..Len(Letters[p]), NEW text \in Text,
           Compact(text) = SubSeq(Letters[p], 1, n)
    PROVE  OfAnswer(p, text) /\ Count(text) = n
<1>1. Len(Letters[p]) \in Nat /\ n \in Nat /\ n <= Len(Letters[p])
  BY LettersType
<1>2. Len(Compact(text)) = n /\ Compact(text) \in Seq(Letter)
  BY Beginning
<1>3. SubSeq(Compact(text), 1, Len(Compact(text))) = Compact(text)
  BY <1>2, SubSeqFull
<1>4. QED
  BY <1>1, <1>2, <1>3 DEF OfAnswer, Count, IsPrefix

\* Of two beginnings of an answer the shorter is the beginning of the longer.
LEMMA BeginningsNest ==
    ASSUME NEW p \in Page, NEW s \in Text, NEW t \in Text,
           OfAnswer(p, s), OfAnswer(p, t), Count(s) <= Count(t)
    PROVE  IsPrefix(Compact(s), Compact(t))
<1>1. Letters[p] \in Seq(Letter) /\ Len(Letters[p]) \in Nat
  BY LettersType
<1>2. PICK a \in Seq(Letter) : a = Compact(s)
  BY CompactType
<1>3. PICK b \in Seq(Letter) : b = Compact(t)
  BY CompactType
<1>4. PICK m \in Nat : m = Len(a)
  BY LenProperties
<1>5. PICK n \in Nat : n = Len(b)
  BY LenProperties
<1>6. m <= n /\ n <= Len(Letters[p])
  BY <1>2, <1>3, <1>4, <1>5 DEF Count, OfAnswer, IsPrefix
<1>7. SubSeq(a, 1, m) = SubSeq(Letters[p], 1, m) /\ SubSeq(b, 1, n) = SubSeq(Letters[p], 1, n)
  BY <1>2, <1>3, <1>4, <1>5 DEF OfAnswer, IsPrefix
<1>8. b = SubSeq(Letters[p], 1, n)
  BY <1>5, <1>7, SubSeqFull
<1>9. SubSeq(b, 1, m) = SubSeq(Letters[p], 1, m)
  BY <1>1, <1>6, <1>8
<1>10. QED
  BY <1>2, <1>3, <1>4, <1>5, <1>6, <1>7, <1>9 DEF IsPrefix

\* The first page to claim the job starts from nothing; a second one is one too
\* many.
LEMMA ClaimInOrder ==
    ASSUME TypeInv, Unclaimed, NEW p \in Page, Claim(p), Single'
    PROVE  InOrder'
<1>1. owner' = p /\ claims' = claims \cup {p} /\ p \notin claims /\ status' = "claimed"
  BY DEF Claim
<1>2. claims = {}
  BY <1>1 DEF Single
<1>3. /\ wire' = {} /\ snapshot' = <<>> /\ events' = <<>> /\ seen' = <<>> /\ emitted' = <<>>
      /\ page' = page /\ reader' # "done"
  BY <1>2 DEF Claim, Unclaimed, serverVars, readerVars
<1>4. page[p].upto \in Nat
  BY LettersType DEF TypeInv, TypeOK
<1>5. OfAnswer(p, <<>>) /\ Count(<<>>) = 0
  BY NothingOfAnswer
<1>6. DOMAIN <<>> = {} /\ 0 <= page[p].upto
  BY <1>4
<1>7. WireInOrder'
  BY <1>3 DEF WireInOrder
<1>8. EventsInOrder'
  BY <1>1, <1>3, <1>5, <1>6 DEF EventsInOrder
<1>9. ReaderInOrder'
  BY <1>1, <1>3, <1>5, <1>6 DEF ReaderInOrder
<1>10. ResultInOrder'
  BY <1>1, <1>3 DEF ResultInOrder
<1>11. QED
  BY <1>7, <1>8, <1>9, <1>10 DEF InOrder

\* A page relays no less than before: either it lays out anew what it shows, or
\* showing less of it would have been a regression.
LEMMA ObserveInOrder ==
    ASSUME TypeInv, Unsent, NEW p \in Page, Observe(p), InOrder, p = owner,
           \A s \in wire : s.page = owner
    PROVE  InOrder'
<1>1. PICK upto \in 0..Len(Letters[p]), wide \in BOOLEAN :
          /\ upto = 0 => page[p].sent = 0
          /\ wide # page[p].wide => wide /\ upto >= page[p].upto
          /\ Shown(p, upto, wide) # Relayed(p) \/ page[p].sent = 0
          /\ ~Regressed(Normalized(Relayed(p)), Normalized(Shown(p, upto, wide)))
          /\ LET n == page[p].sent + 1
             IN  /\ page' = [page EXCEPT ![p] = [upto |-> upto, wide |-> wide, sent |-> n]]
                 /\ wire' = wire \cup {[page |-> p, number |-> n, text |-> Shown(p, upto, wide)]}
  BY Zenon DEF Observe
<1>2. PICK old \in 0..Len(Letters[p]) : old = page[p].upto
  BY DEF TypeInv, TypeOK
<1>3. PICK sent \in Nat : sent = page[p].sent
  BY DEF TypeInv, TypeOK
<1>4. upto \in Nat /\ old \in Nat
  BY LettersType
<1>5. old <= upto
  <2>1. CASE wide # page[p].wide
    BY <1>1, <1>2, <1>4, <2>1
  <2>2. CASE wide = page[p].wide
    <3> SUFFICES ASSUME upto < old PROVE FALSE
      BY <1>4
    <3>1. upto # 0
      BY <1>1, <1>2, <1>4 DEF Unsent
    <3>2. upto \in 1..Len(Letters[p]) /\ old \in 1..Len(Letters[p])
      BY <1>2, <1>4, <3>1
    <3>3. Regressed(Normalized(Shown(p, old, wide)), Normalized(Shown(p, upto, wide)))
      BY <3>2, LessIsRegressed
    <3>4. Relayed(p) = Shown(p, old, wide)
      BY <1>2, <2>2 DEF Relayed
    <3>5. QED
      BY <1>1, <3>3, <3>4
  <2>3. QED
    BY <2>1, <2>2
<1>6. PICK new : new = [page |-> p, number |-> sent + 1, text |-> Shown(p, upto, wide)]
  OBVIOUS
<1>7. new.number = sent + 1 /\ new.text = Shown(p, upto, wide)
  BY <1>6
<1>8. wire' = wire \cup {new}
  BY <1>1, <1>3, <1>6
<1>9. page'[p].upto = upto
  BY <1>1 DEF TypeInv
<1>10. new.text \in Text /\ OfAnswer(p, new.text) /\ Count(new.text) = upto
  <2>1. new.text \in Text /\ Compact(new.text) = SubSeq(Letters[p], 1, upto)
    BY <1>7, ShownText
  <2>2. QED
    BY <2>1, BeginningOfAnswer
<1>11. UNCHANGED <<status, owner, claims, snapshot, events, result, newest, disorder, reader, index, seen, emitted>>
  BY DEF Observe, serverVars, readerVars
<1>12. \A s \in wire : /\ s.number \in Nat /\ s.number <= sent /\ s.text \in Text /\ Count(s.text) \in Nat
                       /\ OfAnswer(p, s.text) /\ Count(s.text) <= old
  <2> SUFFICES ASSUME NEW s \in wire
               PROVE  /\ s.number \in Nat /\ s.number <= sent /\ s.text \in Text /\ Count(s.text) \in Nat
                      /\ OfAnswer(p, s.text) /\ Count(s.text) <= old
    OBVIOUS
  <2>1. s.number \in 1..sent
    BY <1>3 DEF TypeInv, TypeOK
  <2>2. s.text \in Text
    BY DEF TypeInv, Texts
  <2>3. OfAnswer(p, s.text) /\ Count(s.text) <= old
    BY <1>2 DEF InOrder, WireInOrder
  <2>4. QED
    BY <1>3, <2>1, <2>2, <2>3, CountType
<1>13. snapshot \in Text /\ Count(snapshot) \in Nat /\ Count(snapshot) <= old
  BY <1>2, CountType DEF TypeInv, Texts, InOrder, EventsInOrder
<1>14. WireInOrder'
  <2>1. ASSUME NEW s \in wire' PROVE OfAnswer(p, s.text) /\ Count(s.text) <= upto
    BY <1>4, <1>5, <1>8, <1>10, <1>12
  <2>2. ASSUME NEW s \in wire', NEW t \in wire', s.number <= t.number PROVE Count(s.text) <= Count(t.text)
    <3>1. CASE t = new
      BY <2>1, <3>1, <1>10
    <3>2. CASE t \in wire /\ s = new
      BY <1>3, <1>7, <1>12, <2>2, <3>2
    <3>3. CASE t \in wire /\ s \in wire
      BY <2>2, <3>3 DEF InOrder, WireInOrder
    <3>4. QED
      BY <1>8, <3>1, <3>2, <3>3
  <2>3. ASSUME NEW s \in wire', s.number > newest PROVE Count(snapshot) <= Count(s.text)
    <3>1. CASE s = new
      BY <1>4, <1>5, <1>10, <1>13, <3>1
    <3>2. CASE s \in wire
      BY <2>3, <3>2 DEF InOrder, WireInOrder
    <3>3. QED
      BY <1>8, <3>1, <3>2
  <2>4. QED
    BY <1>9, <1>11, <2>1, <2>2, <2>3 DEF WireInOrder
<1>15. EventsInOrder'
  BY <1>4, <1>5, <1>9, <1>11, <1>13 DEF InOrder, EventsInOrder
<1>16. ReaderInOrder' /\ ResultInOrder'
  BY <1>11 DEF InOrder, ReaderInOrder, ResultInOrder
<1>17. QED
  BY <1>14, <1>15, <1>16 DEF InOrder

\* What the list of deltas holds once another has been recorded.
LEMMA TrimmedEvents ==
    ASSUME NEW list \in Seq(Text), NEW text \in Text
    PROVE  \E dropped \in {0, 1} :
              \A i \in DOMAIN Trimmed(Append(list, text)) :
                  \/ i + dropped \in DOMAIN list /\ Trimmed(Append(list, text))[i] = list[i + dropped]
                  \/ i + dropped = Len(list) + 1 /\ Trimmed(Append(list, text))[i] = text
<1>1. PICK more \in Seq(Text) : more = Append(list, text)
  BY AppendProperties
<1>2. /\ Len(more) = Len(list) + 1 /\ Len(list) \in Nat
      /\ DOMAIN more = 1..(Len(list) + 1) /\ DOMAIN list = 1..Len(list)
      /\ more[Len(list) + 1] = text /\ \A i \in 1..Len(list) : more[i] = list[i]
  BY <1>1, AppendProperties, LenProperties
<1>3. CASE Trimmed(more) = more
  <2>1. ASSUME NEW i \in DOMAIN more
        PROVE  \/ i + 0 \in DOMAIN list /\ more[i] = list[i + 0]
               \/ i + 0 = Len(list) + 1 /\ more[i] = text
    BY <1>2
  <2>2. QED
    BY <1>1, <1>3, <2>1
<1>4. CASE Trimmed(more) = Tail(more)
  <2>1. more # <<>>
    BY <1>2, EmptySeq
  <2>2. DOMAIN Tail(more) = 1..Len(list) /\ \A i \in 1..Len(list) : Tail(more)[i] = more[i + 1]
    BY <1>2, <2>1
  <2>3. ASSUME NEW i \in DOMAIN Tail(more)
        PROVE  \/ i + 1 \in DOMAIN list /\ Tail(more)[i] = list[i + 1]
               \/ i + 1 = Len(list) + 1 /\ Tail(more)[i] = text
    BY <1>2, <2>2
  <2>4. QED
    BY <1>1, <1>4, <2>3
<1>5. QED
  BY <1>3, <1>4 DEF Trimmed

\* A snapshot newer than all that came has no less than they have.
LEMMA ArrivalInOrder ==
    ASSUME TypeInv, NEW s \in wire, SnapshotArrives(s), InOrder, ~disorder'
    PROVE  InOrder'
<1>1. owner \in Page /\ s.text \in Text /\ snapshot \in Text /\ seen \in Text /\ events \in Seq(Text) /\ index \in Nat
  BY DEF TypeInv, TypeOK, Texts
<1>2. s.number > newest /\ newest' = s.number /\ s.number \in Nat /\ newest \in Nat
  BY DEF SnapshotArrives, TypeInv, TypeOK
<1>3. PICK text \in Text : text = Normalized(s.text) /\ Compact(text) = Compact(s.text)
  BY <1>1, NormalizedText
<1>4. OfAnswer(owner, text) /\ Count(text) = Count(s.text)
  BY <1>3 DEF InOrder, WireInOrder, OfAnswer, Count
<1>5. Count(snapshot) <= Count(text) /\ Count(text) <= page[owner].upto
  BY <1>2, <1>4 DEF InOrder, WireInOrder
<1>6. /\ UNCHANGED <<page, status, owner, claims, result, reader, index, seen, emitted>>
      /\ wire' = wire \ {s} /\ status = "claimed"
  BY DEF SnapshotArrives, readerVars
<1>7. /\ Count(snapshot) \in Nat /\ Count(text) \in Nat /\ Count(seen) \in Nat
      /\ \A i \in DOMAIN events : Count(events[i]) \in Nat
  <2>1. \A i \in DOMAIN events : events[i] \in Text
    BY <1>1, LenProperties, ElementOfSeq
  <2>2. QED
    BY <1>1, <2>1, CountType
<1>8. \A t \in wire' : t \in wire /\ t.number \in Nat
  BY <1>6 DEF TypeInv, TypeOK
<1>9. /\ \A t \in wire' : OfAnswer(owner, t.text) /\ Count(t.text) <= page[owner].upto
      /\ \A t, u \in wire' : t.number <= u.number => Count(t.text) <= Count(u.text)
  BY <1>8 DEF InOrder, WireInOrder
<1>10. \A t \in wire' : t.number > s.number => Count(snapshot) <= Count(t.text) /\ Count(text) <= Count(t.text)
  <2> SUFFICES ASSUME NEW t \in wire', t.number > s.number
               PROVE  Count(snapshot) <= Count(t.text) /\ Count(text) <= Count(t.text)
    OBVIOUS
  <2>1. t.number > newest /\ s.number <= t.number
    BY <1>2, <1>8
  <2>2. QED
    BY <2>1, <1>4, <1>8 DEF InOrder, WireInOrder
<1>11. ResultInOrder'
  BY <1>6 DEF InOrder, ResultInOrder
<1>12. CASE text = <<>>
  <2>1. snapshot' = snapshot /\ events' = events
    BY <1>3, <1>12 DEF SnapshotArrives
  <2>2. WireInOrder'
    BY <1>2, <1>6, <1>9, <1>10, <2>1 DEF WireInOrder
  <2>3. EventsInOrder' /\ ReaderInOrder'
    BY <1>6, <2>1 DEF InOrder, EventsInOrder, ReaderInOrder
  <2>4. QED
    BY <1>11, <2>2, <2>3 DEF InOrder
<1>13. CASE text # <<>>
  <2>1. snapshot' = text /\ events' \in {events, Trimmed(Append(events, text))}
    BY <1>3, <1>13 DEF SnapshotArrives
  <2>2. WireInOrder'
    BY <1>2, <1>6, <1>9, <1>10, <2>1 DEF WireInOrder
  <2>3. PICK dropped \in {0, 1} :
            \A i \in DOMAIN events' :
                \/ i + dropped \in DOMAIN events /\ events'[i] = events[i + dropped]
                \/ i + dropped = Len(events) + 1 /\ events'[i] = text
    <3>1. CASE events' = events
      <4>1. \A i \in DOMAIN events' : i + 0 \in DOMAIN events /\ events'[i] = events[i + 0]
        BY <1>1, <3>1, LenProperties
      <4>2. QED
        BY <4>1
    <3>2. CASE events' = Trimmed(Append(events, text))
      BY <1>1, <3>2, TrimmedEvents
    <3>3. QED
      BY <2>1, <3>1, <3>2
  <2>4. DOMAIN events' \subseteq Nat /\ DOMAIN events = 1..Len(events) /\ Len(events) \in Nat
    <3>1. events' \in Seq(Text)
      BY ArrivalType DEF TypeInv, Texts
    <3>2. QED
      BY <1>1, <3>1, LenProperties
  <2>5. /\ \A i \in DOMAIN events : OfAnswer(owner, events[i]) /\ Count(events[i]) <= Count(text)
        /\ \A i, j \in DOMAIN events : i < j => Count(events[i]) <= Count(events[j])
        /\ \A i \in DOMAIN events : index < i => Count(seen) <= Count(events[i])
        /\ Count(seen) <= Count(text) /\ OfAnswer(owner, seen)
    <3>1. /\ \A i \in DOMAIN events : OfAnswer(owner, events[i]) /\ Count(events[i]) <= Count(snapshot)
          /\ \A i, j \in DOMAIN events : i < j => Count(events[i]) <= Count(events[j])
          /\ \A i \in DOMAIN events : index < i => Count(seen) <= Count(events[i])
          /\ Count(seen) <= Count(snapshot) /\ OfAnswer(owner, seen)
      BY DEF InOrder, EventsInOrder, ReaderInOrder
    <3>2. QED
      BY <1>5, <1>7, <3>1
  <2>6. ASSUME NEW i \in DOMAIN events' PROVE OfAnswer(owner, events'[i]) /\ Count(events'[i]) <= Count(text)
    <3>1. CASE i + dropped \in DOMAIN events /\ events'[i] = events[i + dropped]
      BY <2>5, <3>1
    <3>2. CASE events'[i] = text
      BY <1>4, <1>7, <3>2
    <3>3. QED
      BY <2>3, <3>1, <3>2
  <2>7. ASSUME NEW i \in DOMAIN events', NEW j \in DOMAIN events', i < j
        PROVE  Count(events'[i]) <= Count(events'[j])
    <3>1. i \in Nat /\ j \in Nat /\ i + dropped < j + dropped
      BY <2>4, <2>7
    <3>2. CASE j + dropped \in DOMAIN events /\ events'[j] = events[j + dropped]
      <4>1. i + dropped \in DOMAIN events /\ events'[i] = events[i + dropped]
        BY <2>3, <2>4, <3>1, <3>2
      <4>2. QED
        BY <2>5, <3>1, <3>2, <4>1
    <3>3. CASE events'[j] = text
      BY <2>6, <3>3
    <3>4. QED
      BY <2>3, <3>2, <3>3
  <2>8. ASSUME NEW i \in DOMAIN events', index < i PROVE Count(seen) <= Count(events'[i])
    <3>1. i \in Nat /\ index < i + dropped
      BY <1>1, <2>4, <2>8
    <3>2. CASE i + dropped \in DOMAIN events /\ events'[i] = events[i + dropped]
      BY <2>5, <3>1, <3>2
    <3>3. CASE events'[i] = text
      BY <2>5, <3>3
    <3>4. QED
      BY <2>3, <3>2, <3>3
  <2>9. EventsInOrder'
    BY <1>4, <1>5, <1>6, <2>1, <2>6, <2>7 DEF EventsInOrder
  <2>10. ReaderInOrder'
    <3>1. reader # "done" => Compact(emitted) = Compact(seen)
      BY DEF InOrder, ReaderInOrder
    <3>2. QED
      BY <1>6, <2>1, <2>5, <2>8, <3>1 DEF ReaderInOrder
  <2>11. QED
    BY <1>11, <2>2, <2>9, <2>10 DEF InOrder
<1>14. QED
  BY <1>12, <1>13

\* The result is what the page shows, no less than it has relayed.
LEMMA ResultIsInOrder ==
    ASSUME TypeInv, InOrder, ResultArrives
    PROVE  InOrder'
<1>1. owner \in Page /\ page[owner].upto \in 0..Len(Letters[owner])
  BY DEF TypeInv, TypeOK
<1>2. PICK text \in Text : text = Relayed(owner) /\ Compact(text) = SubSeq(Letters[owner], 1, page[owner].upto)
  BY <1>1, RelayedText
<1>3. OfAnswer(owner, text) /\ Count(text) = page[owner].upto
  BY <1>1, <1>2, BeginningOfAnswer
<1>4. /\ status = "claimed" /\ result' = text
      /\ UNCHANGED <<page, wire, owner, claims, snapshot, events, newest, disorder, reader, index, seen, emitted>>
  BY <1>2 DEF ResultArrives, readerVars
<1>5. Count(snapshot) <= Count(text) /\ reader # "done"
  BY <1>3, <1>4 DEF InOrder, EventsInOrder, ResultInOrder
<1>6. WireInOrder' /\ EventsInOrder' /\ ReaderInOrder'
  BY <1>4 DEF InOrder, WireInOrder, EventsInOrder, ReaderInOrder
<1>7. ResultInOrder'
  BY <1>3, <1>4, <1>5 DEF ResultInOrder
<1>8. QED
  BY <1>6, <1>7 DEF InOrder

\* The generator takes the next delta, which continues the one before.
LEMMA TakenInOrder ==
    ASSUME TypeInv, InOrder, ReaderTakes
    PROVE  InOrder'
<1>1. /\ owner \in Page /\ seen \in Text /\ emitted \in Text /\ events \in Seq(Text)
      /\ index \in Nat /\ index < Len(events) /\ Len(events) \in Nat
  BY DEF TypeInv, TypeOK, Texts, ReaderTakes
<1>2. PICK next \in 1..Len(events) : next = index + 1
  <2>1. index + 1 \in 1..Len(events)
    BY <1>1
  <2>2. QED
    BY <2>1
<1>3. DOMAIN events = 1..Len(events) /\ index < next
  BY <1>1, <1>2, LenProperties
<1>4. PICK text \in Text : text = events[next]
  BY <1>1, ElementOfSeq
<1>5. PICK delta \in Text : delta = Delta(seen, text)
  BY <1>1, DeltaType
<1>6. /\ UNCHANGED <<page, wire, status, owner, claims, snapshot, events, result, newest, disorder, reader>>
      /\ index' = next /\ seen' = text /\ emitted' = emitted \o delta /\ reader = "open"
  BY <1>2, <1>4, <1>5 DEF ReaderTakes, serverVars
<1>7. /\ OfAnswer(owner, text) /\ Count(text) <= Count(snapshot)
      /\ OfAnswer(owner, seen) /\ Count(seen) <= Count(text)
      /\ \A i \in DOMAIN events : next < i => Count(text) <= Count(events[i])
  BY <1>3, <1>4 DEF InOrder, EventsInOrder, ReaderInOrder
<1>8. Compact(emitted') = Compact(text)
  <2>1. IsPrefix(Compact(seen), Compact(text))
    BY <1>1, <1>7, BeginningsNest
  <2>2. Compact(text) = Compact(seen) \o Compact(delta)
    BY <1>1, <1>5, <2>1, DeltaContinues DEF Continues
  <2>3. Compact(emitted \o delta) = Compact(emitted) \o Compact(delta)
    BY <1>1, CompactConcat
  <2>4. Compact(emitted) = Compact(seen)
    BY <1>6 DEF InOrder, ReaderInOrder
  <2>5. QED
    BY <1>6, <2>2, <2>3, <2>4
<1>9. ReaderInOrder'
  BY <1>6, <1>7, <1>8 DEF ReaderInOrder
<1>10. WireInOrder' /\ EventsInOrder' /\ ResultInOrder'
  BY <1>6 DEF InOrder, WireInOrder, EventsInOrder, ResultInOrder
<1>11. QED
  BY <1>9, <1>10 DEF InOrder

\* The result continues what the generator took last.
LEMMA CompletedInOrder ==
    ASSUME TypeInv, InOrder, ReaderCompletes
    PROVE  InOrder'
<1>1. owner \in Page /\ seen \in Text /\ emitted \in Text /\ result \in Text /\ snapshot \in Text
  BY DEF TypeInv, TypeOK, Texts
<1>2. PICK text \in Text : text = Normalized(result) /\ Compact(text) = Compact(result)
  BY <1>1, NormalizedText
<1>3. PICK delta \in Text : delta = Delta(seen, text)
  BY <1>1, DeltaType
<1>4. /\ UNCHANGED <<page, wire, status, owner, claims, snapshot, events, result, newest, disorder, index, seen>>
      /\ status = "completed" /\ emitted' = emitted \o delta /\ reader = "open" /\ reader' = "done"
  BY <1>2, <1>3 DEF ReaderCompletes, NothingToTake, Rest, serverVars
<1>5. /\ OfAnswer(owner, text) /\ Count(snapshot) <= Count(text)
      /\ OfAnswer(owner, seen) /\ Count(seen) <= Count(snapshot)
      /\ Compact(emitted) = Compact(seen)
  BY <1>2, <1>4 DEF InOrder, ReaderInOrder, ResultInOrder, OfAnswer, Count
<1>6. Count(seen) <= Count(text)
  BY <1>1, <1>5, CountType
<1>7. Compact(emitted') = Compact(result)
  <2>1. IsPrefix(Compact(seen), Compact(text))
    BY <1>1, <1>5, <1>6, BeginningsNest
  <2>2. Compact(text) = Compact(seen) \o Compact(delta)
    BY <1>1, <1>3, <2>1, DeltaContinues DEF Continues
  <2>3. Compact(emitted \o delta) = Compact(emitted) \o Compact(delta)
    BY <1>1, CompactConcat
  <2>4. QED
    BY <1>2, <1>4, <1>5, <2>2, <2>3
<1>8. ReaderInOrder' /\ ResultInOrder'
  BY <1>4, <1>7 DEF InOrder, ReaderInOrder, ResultInOrder
<1>9. WireInOrder' /\ EventsInOrder'
  BY <1>4 DEF InOrder, WireInOrder, EventsInOrder
<1>10. QED
  BY <1>8, <1>9 DEF InOrder

\* Every step keeps the order.
LEMMA OneAnswerStep == TypeInv /\ Unclaimed /\ Unsent /\ OneAnswer /\ [Next]_vars => OneAnswer'
<1> SUFFICES ASSUME TypeInv, Unclaimed, Unsent, OneAnswer, [Next]_vars, Single' PROVE InOrder'
  BY DEF OneAnswer
<1> USE DEF serverVars, readerVars
<1>1. ASSUME NEW p \in Page, Claim(p) PROVE InOrder'
  BY <1>1, ClaimInOrder
<1>2. CASE claims' = claims /\ owner' = owner /\ (disorder => disorder')
  <2>1. Single /\ InOrder /\ ~disorder'
    BY <1>2 DEF OneAnswer, Single
  <2>2. ASSUME NEW p \in Page, Observe(p) PROVE InOrder'
    <3>1. p = owner
      BY <2>1, <2>2 DEF Observe, Single
    <3>2. \A s \in wire : s.page = owner
      BY <2>1 DEF Single, TypeInv, TypeOK
    <3>3. QED
      BY <2>1, <2>2, <3>1, <3>2, ObserveInOrder
  <2>3. CASE Requeue \/ Fail
    BY <2>1, <2>3 DEF Requeue, Fail, InOrder, WireInOrder, EventsInOrder, ReaderInOrder, ResultInOrder
  <2>4. ASSUME NEW s \in wire, SnapshotLost(s) PROVE InOrder'
    <3>1. /\ UNCHANGED <<page, status, owner, claims, snapshot, events, result, newest, disorder,
                         reader, index, seen, emitted>>
          /\ \A t \in wire' : t \in wire
      BY <2>4 DEF SnapshotLost
    <3>2. WireInOrder'
      BY <2>1, <3>1 DEF InOrder, WireInOrder
    <3>3. EventsInOrder' /\ ReaderInOrder' /\ ResultInOrder'
      BY <2>1, <3>1 DEF InOrder, EventsInOrder, ReaderInOrder, ResultInOrder
    <3>4. QED
      BY <3>2, <3>3 DEF InOrder
  <2>5. ASSUME NEW s \in wire, SnapshotArrives(s) PROVE InOrder'
    BY <2>1, <2>5, ArrivalInOrder
  <2>6. CASE ResultArrives
    BY <2>1, <2>6, ResultIsInOrder
  <2>7. CASE ReaderTakes
    BY <2>1, <2>7, TakenInOrder
  <2>8. CASE ReaderSleeps \/ ReaderWakes \/ ReaderBreaks
    BY <2>1, <2>8 DEF ReaderSleeps, ReaderWakes, ReaderBreaks, NothingToTake, InOrder, WireInOrder, EventsInOrder,
       ReaderInOrder, ResultInOrder
  <2>9. CASE ReaderTimesOut
    BY <2>1, <2>9 DEF ReaderTimesOut, InOrder, WireInOrder, EventsInOrder, ReaderInOrder, ResultInOrder
  <2>10. CASE ReaderCompletes
    BY <2>1, <2>10, CompletedInOrder
  <2>11. CASE UNCHANGED vars
    BY <2>1, <2>11 DEF vars, InOrder, WireInOrder, EventsInOrder, ReaderInOrder, ResultInOrder
  <2>12. ASSUME NEW p \in Page, Claim(p) PROVE InOrder'
    BY <2>12, ClaimInOrder
  <2>13. QED
    BY <2>2, <2>3, <2>4, <2>5, <2>6, <2>7, <2>8, <2>9, <2>10, <2>11, <2>12 DEF Next
<1>3. \/ \E p \in Page : Claim(p)
      \/ claims' = claims /\ owner' = owner /\ (disorder => disorder')
  BY DEF Next, Observe, Requeue, Fail, SnapshotLost, SnapshotArrives, ResultArrives, ReaderTakes,
     ReaderSleeps, ReaderWakes, ReaderTimesOut, ReaderCompletes, ReaderBreaks, vars
<1>4. QED
  BY <1>1, <1>2, <1>3

-----------------------------------------------------------------------------
(* Theorems.                                                               *)

\* The inductive invariant.
IInv == TypeInv /\ Held /\ Unclaimed /\ Unsent /\ OneAnswer

\* It holds of the initial states.
LEMMA InvInit == Init => IInv
<1> SUFFICES ASSUME Init PROVE IInv
  OBVIOUS
<1>1. TypeInv
  BY TypeInit
<1>2. Held
  BY PartOfNothing, CompactSteps DEF Init, Held
<1>3. Unclaimed /\ OneAnswer
  BY DEF Init, Unclaimed, OneAnswer, Single
<1>4. Unsent
  BY DEF Init, Unsent
<1>5. QED
  BY <1>1, <1>2, <1>3, <1>4 DEF IInv

\* It holds of every state.
THEOREM Invariance == Spec => []IInv
<1>1. IInv /\ [Next]_vars => IInv'
  BY TypeStep, HeldStep, UnclaimedStep, UnsentStep, OneAnswerStep DEF IInv
<1>2. QED
  BY <1>1, InvInit, PTL DEF Spec

\* Texts and counts are of the right kind, and append_browser_delta never keeps
\* more than MaxEvents deltas.
THEOREM TypeCorrect == Spec => []TypeOK
<1>1. IInv => TypeOK
  BY DEF IInv, TypeInv
<1>2. QED
  BY <1>1, Invariance, PTL

\* Whatever the order of the posts and however many pages answer, the letters of
\* the result are all in what iter_live_browser_sse has yielded when it is done.
THEOREM StreamLosesNothing == Spec => []NothingIsLost
<1>1. IInv => NothingIsLost
  BY DEF IInv, Held, NothingIsLost
<1>2. QED
  BY <1>1, Invariance, PTL

\* While one page answers and its posts come in order, what iter_live_browser_sse
\* yields is the beginning of the answer, and in the end the result, letter for
\* letter and nothing twice.
THEOREM StreamGivesTheAnswer == Spec => []StreamIsAnswer
<1>1. IInv => StreamIsAnswer
  <2> SUFFICES ASSUME IInv, Cardinality(claims) = 1, ~disorder
               PROVE  /\ IsPrefix(Compact(emitted), Letters[owner])
                      /\ reader = "done" => Compact(emitted) = Compact(result)
    BY DEF StreamIsAnswer
  <2>1. claims # {}
    BY FS_EmptySet
  <2>2. owner \in claims
    BY <2>1 DEF IInv, Unclaimed
  <2>3. claims \subseteq {owner}
    BY <2>2, FS_Singleton DEF IInv, TypeInv
  <2>4. InOrder
    BY <2>1, <2>3 DEF IInv, OneAnswer, Single
  <2>5. QED
    BY <2>4 DEF InOrder, ReaderInOrder, ResultInOrder, OfAnswer
<1>2. QED
  BY <1>1, Invariance, PTL
=============================================================================
