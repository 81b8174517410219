---------------------------- MODULE SequenceFacts ----------------------------
(* Lemmas about sequences that the proofs of several components need: what the *)
(* operators do to the set of the values in a sequence, and to their order.    *)
EXTENDS SequenceTheorems, TLAPS

Increasing(s) == \A i, j \in 1..Len(s) : i < j => s[i] < s[j]

\* A sequence is its head before its tail.
LEMMA HeadThenTail ==
    ASSUME NEW S, NEW s \in Seq(S), s # <<>>
    PROVE  /\ s = <<Head(s)>> \o Tail(s)
           /\ Head(s) \in S /\ Tail(s) \in Seq(S) /\ <<Head(s)>> \in Seq(S)
<1>1. /\ Head(s) \in S /\ Tail(s) \in Seq(S) /\ Len(Tail(s)) = Len(s) - 1
      /\ \A i \in 1..Len(Tail(s)) : Tail(s)[i] = s[i + 1]
  BY HeadTailProperties
<1>2. Len(s) \in Nat \ {0} /\ Head(s) = s[1]
  BY EmptySeq
<1> DEFINE h == <<Head(s)>>
<1>3. h \in Seq(S) /\ Len(h) = 1 /\ h[1] = s[1]
  BY <1>1, <1>2
<1> HIDE DEF h
<1>4. /\ h \o Tail(s) \in Seq(S) /\ Len(h \o Tail(s)) = Len(s)
      /\ \A i \in 1..Len(s) : (h \o Tail(s))[i] = IF i <= 1 THEN h[i] ELSE Tail(s)[i - 1]
  <2>1. /\ h \o Tail(s) \in Seq(S) /\ Len(h \o Tail(s)) = Len(h) + Len(Tail(s))
        /\ \A i \in 1..Len(h) + Len(Tail(s)) :
             (h \o Tail(s))[i] = IF i <= Len(h) THEN h[i] ELSE Tail(s)[i - Len(h)]
    <3> DEFINE t == Tail(s)
    <3>1. t \in Seq(S)
      BY <1>1
    <3> HIDE DEF t
    <3>2. /\ h \o t \in Seq(S) /\ Len(h \o t) = Len(h) + Len(t)
          /\ \A i \in 1..Len(h) + Len(t) : (h \o t)[i] = IF i <= Len(h) THEN h[i] ELSE t[i - Len(h)]
      BY <1>3, <3>1, ConcatProperties
    <3> QED BY <3>2 DEF t
  <2>2. Len(h) + Len(Tail(s)) = Len(s)
    BY <1>1, <1>2, <1>3
  <2> QED BY <1>3, <2>1, <2>2
<1>5. \A i \in 1..Len(s) : s[i] = (h \o Tail(s))[i]
  <2> TAKE i \in 1..Len(s)
  <2>1. CASE i = 1
    <3>1. (h \o Tail(s))[1] = h[1]
      BY <1>2, <1>4
    <3> QED BY <1>3, <2>1, <3>1
  <2>2. CASE i # 1
    <3>1. i - 1 \in 1..Len(Tail(s)) /\ (i - 1) + 1 = i
      BY <1>1, <1>2, <2>2
    <3>2. Tail(s)[i - 1] = s[i]
      BY <1>1, <3>1
    <3> QED BY <1>2, <1>4, <2>2, <3>2
  <2> QED BY <2>1, <2>2
<1>6. s = h \o Tail(s)
  BY <1>4, <1>5, SeqEqual
<1> QED BY <1>1, <1>3, <1>6 DEF h

\* A sequence of one value.
LEMMA Single ==
    ASSUME NEW S, NEW e \in S
    PROVE  <<e>> \in Seq(S) /\ Range(<<e>>) = {e} /\ Increasing(<<e>>)
BY DEF Range, Increasing

LEMMA EmptyRange == Range(<<>>) = {} /\ Increasing(<<>>)
BY DEF Range, Increasing

\* The values in a sequence, by their places.
LEMMA InRange ==
    ASSUME NEW S, NEW s \in Seq(S)
    PROVE  /\ Range(s) = {s[i] : i \in 1..Len(s)} /\ Range(s) \subseteq S
           /\ \A x : x \in Range(s) <=> \E i \in 1..Len(s) : s[i] = x
<1>1. Range(s) = {s[i] : i \in 1..Len(s)} /\ Range(s) \subseteq S
  BY RangeEquality, RangeOfSeq
<1> QED BY <1>1

LEMMA AppendRange ==
    ASSUME NEW S, NEW s \in Seq(S), NEW e \in S
    PROVE  Range(Append(s, e)) = Range(s) \cup {e}
<1> DEFINE t == <<e>>
<1>1. Append(s, e) = s \o t /\ t \in Seq(S) /\ Range(t) = {e}
  BY AppendIsConcat, Single
<1> HIDE DEF t
<1> QED BY <1>1, RangeConcatenation

LEMMA HeadTailRange ==
    ASSUME NEW S, NEW s \in Seq(S), s # <<>>
    PROVE  Range(s) = {Head(s)} \cup Range(Tail(s))
<1>1. /\ s = <<Head(s)>> \o Tail(s)
      /\ Head(s) \in S /\ Tail(s) \in Seq(S) /\ <<Head(s)>> \in Seq(S)
  BY HeadThenTail
<1>2. Range(<<Head(s)>>) = {Head(s)}
  BY <1>1, Single
<1>3. Range(<<Head(s)>> \o Tail(s)) = Range(<<Head(s)>>) \cup Range(Tail(s))
  BY ZenonT(30), <1>1, RangeConcatenation
<1> QED BY <1>1, <1>2, <1>3

\* A sequence of two parts is increasing when the parts are and every value of the first is
\* below every value of the second.
LEMMA IncreasingConcat ==
    ASSUME NEW s \in Seq(Nat), NEW t \in Seq(Nat)
    PROVE  Increasing(s \o t) <=>
             /\ Increasing(s) /\ Increasing(t)
             /\ \A x \in Range(s), y \in Range(t) : x < y
<1> DEFINE u == s \o t
<1>1. /\ u \in Seq(Nat) /\ Len(u) = Len(s) + Len(t) /\ Len(s) \in Nat /\ Len(t) \in Nat
      /\ \A i \in 1..Len(s) + Len(t) : u[i] = IF i <= Len(s) THEN s[i] ELSE t[i - Len(s)]
  BY ConcatProperties, LenProperties
<1>2. /\ \A i \in 1..Len(s) : i \in 1..Len(u) /\ u[i] = s[i]
      /\ \A i \in 1..Len(t) : i + Len(s) \in 1..Len(u) /\ u[i + Len(s)] = t[i]
  <2>1. \A i \in 1..Len(s) : i \in 1..Len(u) /\ u[i] = s[i]
    BY <1>1
  <2>2. ASSUME NEW i \in 1..Len(t)
        PROVE  i + Len(s) \in 1..Len(u) /\ u[i + Len(s)] = t[i]
    <3>1. i + Len(s) \in 1..Len(s) + Len(t) /\ ~(i + Len(s) <= Len(s)) /\ (i + Len(s)) - Len(s) = i
      BY <1>1
    <3> QED BY <1>1, <3>1
  <2> QED BY <2>1, <2>2
<1> HIDE DEF u
<1>3. ASSUME Increasing(u)
      PROVE  Increasing(s) /\ Increasing(t) /\ \A x \in Range(s), y \in Range(t) : x < y
  <2>1. Increasing(s)
    BY <1>1, <1>2, <1>3 DEF Increasing
  <2>2. Increasing(t)
    <3> SUFFICES ASSUME NEW i \in 1..Len(t), NEW j \in 1..Len(t), i < j PROVE t[i] < t[j]
      BY DEF Increasing
    <3>1. i + Len(s) < j + Len(s)
      BY <1>1
    <3> QED BY <1>2, <1>3, <3>1 DEF Increasing
  <2>3. ASSUME NEW x \in Range(s), NEW y \in Range(t) PROVE x < y
    <3>1. PICK i \in 1..Len(s) : s[i] = x
      BY InRange
    <3>2. PICK j \in 1..Len(t) : t[j] = y
      BY InRange
    <3>3. i < j + Len(s)
      BY <1>1
    <3>4. i \in 1..Len(u) /\ j + Len(s) \in 1..Len(u)
      BY <1>2
    <3>5. u[i] < u[j + Len(s)]
      BY <1>3, <3>3, <3>4 DEF Increasing
    <3> QED BY <1>2, <3>1, <3>2, <3>5
  <2> QED BY <2>1, <2>2, <2>3
<1>4. ASSUME Increasing(s), Increasing(t), \A x \in Range(s), y \in Range(t) : x < y
      PROVE  Increasing(u)
  <2> SUFFICES ASSUME NEW i \in 1..Len(u), NEW j \in 1..Len(u), i < j PROVE u[i] < u[j]
    BY DEF Increasing
  <2>1. CASE j <= Len(s)
    <3>1. i \in 1..Len(s) /\ j \in 1..Len(s)
      BY <1>1, <2>1
    <3> QED BY <1>2, <1>4, <3>1 DEF Increasing
  <2>2. CASE i > Len(s)
    <3>1. /\ i - Len(s) \in 1..Len(t) /\ j - Len(s) \in 1..Len(t) /\ i - Len(s) < j - Len(s)
          /\ ~(i <= Len(s)) /\ ~(j <= Len(s))
      BY SMTT(30), <1>1, <2>2
    <3>2. u[i] = t[i - Len(s)] /\ u[j] = t[j - Len(s)]
      BY <1>1, <3>1
    <3> QED BY <1>4, <3>1, <3>2 DEF Increasing
  <2>3. CASE i <= Len(s) /\ j > Len(s)
    <3>1. i \in 1..Len(s) /\ j - Len(s) \in 1..Len(t) /\ ~(j <= Len(s))
      BY <1>1, <2>3
    <3>2. u[i] = s[i] /\ u[j] = t[j - Len(s)]
      BY <1>1, <2>3, <3>1
    <3>3. s[i] \in Range(s) /\ t[j - Len(s)] \in Range(t)
      BY <3>1, InRange
    <3> QED BY <1>4, <3>2, <3>3
  <2> QED BY <1>1, <2>1, <2>2, <2>3
<1> QED BY <1>3, <1>4 DEF u
Distinct(s) == \A i, j \in 1..Len(s) : s[i] = s[j] => i = j

LEMMA SingleDistinct ==
    ASSUME NEW S, NEW e \in S
    PROVE  Distinct(<<e>>) /\ Distinct(<<>>)
BY DEF Distinct

\* The values of a sequence of two parts are distinct when those of each part are and the
\* parts have none in common.
LEMMA DistinctConcat ==
    ASSUME NEW S, NEW s \in Seq(S), NEW t \in Seq(S)
    PROVE  Distinct(s \o t) <=> Distinct(s) /\ Distinct(t) /\ Range(s) \cap Range(t) = {}
<1> DEFINE u == s \o t
<1>1. /\ u \in Seq(S) /\ Len(u) = Len(s) + Len(t) /\ Len(s) \in Nat /\ Len(t) \in Nat
      /\ \A i \in 1..Len(s) + Len(t) : u[i] = IF i <= Len(s) THEN s[i] ELSE t[i - Len(s)]
  BY ConcatProperties, LenProperties
<1>2. /\ \A i \in 1..Len(s) : i \in 1..Len(u) /\ u[i] = s[i]
      /\ \A i \in 1..Len(t) : i + Len(s) \in 1..Len(u) /\ u[i + Len(s)] = t[i]
  <2>1. \A i \in 1..Len(s) : i \in 1..Len(u) /\ u[i] = s[i]
    BY <1>1
  <2>2. ASSUME NEW i \in 1..Len(t)
        PROVE  i + Len(s) \in 1..Len(u) /\ u[i + Len(s)] = t[i]
    <3>1. i + Len(s) \in 1..Len(s) + Len(t) /\ ~(i + Len(s) <= Len(s)) /\ (i + Len(s)) - Len(s) = i
      BY <1>1
    <3> QED BY <1>1, <3>1
  <2> QED BY <2>1, <2>2
<1>3. \A i \in 1..Len(u) : \/ i \in 1..Len(s) /\ u[i] = s[i]
                           \/ i - Len(s) \in 1..Len(t) /\ u[i] = t[i - Len(s)]
  BY <1>1
<1> HIDE DEF u
<1>4. ASSUME Distinct(u)
      PROVE  Distinct(s) /\ Distinct(t) /\ Range(s) \cap Range(t) = {}
  <2>1. Distinct(s)
    BY <1>2, <1>4 DEF Distinct
  <2>2. Distinct(t)
    <3> SUFFICES ASSUME NEW i \in 1..Len(t), NEW j \in 1..Len(t), t[i] = t[j] PROVE i = j
      BY DEF Distinct
    <3>1. i + Len(s) = j + Len(s)
      BY <1>2, <1>4 DEF Distinct
    <3> QED BY <1>1, <3>1
  <2>3. ASSUME NEW x \in Range(s) \cap Range(t) PROVE FALSE
    <3>1. PICK i \in 1..Len(s) : s[i] = x
      BY InRange
    <3>2. PICK j \in 1..Len(t) : t[j] = x
      BY InRange
    <3>3. i = j + Len(s)
      BY <1>2, <1>4, <3>1, <3>2 DEF Distinct
    <3> QED BY <1>1, <3>3
  <2> QED BY <2>1, <2>2, <2>3
<1>5. ASSUME Distinct(s), Distinct(t), Range(s) \cap Range(t) = {}
      PROVE  Distinct(u)
  <2> SUFFICES ASSUME NEW i \in 1..Len(u), NEW j \in 1..Len(u), u[i] = u[j] PROVE i = j
    BY DEF Distinct
  <2>1. CASE i \in 1..Len(s) /\ u[i] = s[i] /\ j \in 1..Len(s) /\ u[j] = s[j]
    BY <1>5, <2>1 DEF Distinct
  <2>2. CASE /\ i - Len(s) \in 1..Len(t) /\ u[i] = t[i - Len(s)]
             /\ j - Len(s) \in 1..Len(t) /\ u[j] = t[j - Len(s)]
    <3>1. i - Len(s) = j - Len(s)
      BY <1>5, <2>2 DEF Distinct
    <3> QED BY <1>1, <3>1
  <2>3. ASSUME NEW a \in 1..Len(s), NEW b \in 1..Len(t), s[a] = t[b] PROVE FALSE
    <3>1. s[a] \in Range(s) /\ t[b] \in Range(t)
      BY InRange
    <3> QED BY <1>5, <2>3, <3>1
  <2>4. CASE i \in 1..Len(s) /\ u[i] = s[i] /\ j - Len(s) \in 1..Len(t) /\ u[j] = t[j - Len(s)]
    BY <2>3, <2>4
  <2>5. CASE j \in 1..Len(s) /\ u[j] = s[j] /\ i - Len(s) \in 1..Len(t) /\ u[i] = t[i - Len(s)]
    BY <2>3, <2>5
  <2> QED BY <1>3, <2>1, <2>2, <2>4, <2>5
<1> QED BY <1>4, <1>5 DEF u

\* Without its head a sequence of distinct values is one, and does not have the head in it.
LEMMA DistinctTail ==
    ASSUME NEW S, NEW s \in Seq(S), s # <<>>, Distinct(s)
    PROVE  Distinct(Tail(s)) /\ Range(Tail(s)) = Range(s) \ {Head(s)} /\ Head(s) \in Range(s)
<1> DEFINE h == <<Head(s)>>
           t == Tail(s)
<1>1. s = h \o t /\ t \in Seq(S) /\ h \in Seq(S) /\ Head(s) \in S
  BY HeadThenTail
<1>2. Range(h) = {Head(s)}
  BY <1>1, Single
<1> HIDE DEF h, t
<1>3. Distinct(t) /\ Range(h) \cap Range(t) = {}
  BY <1>1, DistinctConcat
<1>4. Range(s) = Range(h) \cup Range(t)
  BY <1>1, RangeConcatenation
<1> QED BY <1>2, <1>3, <1>4 DEF t

\* With a value before it, if that is not among its own.
LEMMA DistinctCons ==
    ASSUME NEW S, NEW s \in Seq(S), NEW e \in S
    PROVE  /\ <<e>> \o s \in Seq(S) /\ Range(<<e>> \o s) = {e} \cup Range(s)
           /\ Distinct(<<e>> \o s) <=> Distinct(s) /\ e \notin Range(s)
<1> DEFINE h == <<e>>
<1>1. h \in Seq(S) /\ Range(h) = {e} /\ Distinct(h)
  BY Single, SingleDistinct
<1> HIDE DEF h
<1>2. h \o s \in Seq(S) /\ Range(h \o s) = Range(h) \cup Range(s)
  BY <1>1, ConcatProperties, RangeConcatenation
<1>3. Distinct(h \o s) <=> Distinct(h) /\ Distinct(s) /\ Range(h) \cap Range(s) = {}
  BY <1>1, DistinctConcat
<1> QED BY <1>1, <1>2, <1>3 DEF h

\* Taking the head off a sequence that has been given one.
LEMMA ConsTail ==
    ASSUME NEW S, NEW s \in Seq(S), NEW e \in S
    PROVE  /\ <<e>> \o s # <<>> /\ Head(<<e>> \o s) = e /\ Tail(<<e>> \o s) = s
<1> DEFINE h == <<e>>
           t == h \o s
<1>1. h \in Seq(S) /\ Len(h) = 1 /\ h[1] = e
  OBVIOUS
<1> HIDE DEF h
<1>2. /\ t \in Seq(S) /\ Len(t) = Len(s) + 1 /\ Len(s) \in Nat
      /\ \A i \in 1..Len(s) + 1 : t[i] = IF i <= 1 THEN h[i] ELSE s[i - 1]
  <2>1. /\ t \in Seq(S) /\ Len(t) = Len(h) + Len(s) /\ Len(s) \in Nat
        /\ \A i \in 1..Len(h) + Len(s) : t[i] = IF i <= Len(h) THEN h[i] ELSE s[i - Len(h)]
    BY <1>1, ConcatProperties, LenProperties
  <2> HIDE DEF t
  <2>2. 1 + Len(s) = Len(s) + 1
    BY <2>1
  <2> QED BY <1>1, <2>1, <2>2
<1> HIDE DEF t
<1>3. t # <<>> /\ Head(t) = t[1] /\ t[1] = e
  BY <1>1, <1>2, EmptySeq
<1>4. /\ Tail(t) \in Seq(S) /\ Len(Tail(t)) = Len(s)
      /\ \A i \in 1..Len(Tail(t)) : Tail(t)[i] = t[i + 1]
  BY <1>2, <1>3, HeadTailProperties
<1>5. \A i \in 1..Len(s) : t[i + 1] = s[i]
  BY <1>2
<1>6. Tail(t) = s
  BY <1>4, <1>5, SeqEqual
<1> QED BY <1>3, <1>6 DEF t, h

=============================================================================
