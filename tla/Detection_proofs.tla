-------------------------- MODULE Detection_proofs --------------------------
(***************************************************************************)
(* Proofs about module Detection, for every set of events and tables of    *)
(* rules.                                                                  *)
(***************************************************************************)
EXTENDS Detection, Recursion, SequenceTheorems, FunctionTheorems, FiniteSetTheorems

(* Values and their texts.                                                 *)

\* A value is a text or a number, never both, and never Absent.
LEMMA Kinds ==
    /\ \A v \in Text : v # Absent /\ IsText(v) /\ ~IsNumber(v)
    /\ \A v \in Number : v # Absent /\ IsNumber(v) /\ ~IsText(v) /\ v.number \in Int
    /\ ~IsText(Absent) /\ ~IsNumber(Absent)
  BY WordsKnown DEF Text, Number, Value, IsText, IsNumber

LEMMA TextOps ==
    ASSUME NEW t \in Text
    PROVE  /\ Strip(t) \in Text /\ Strip(t).word = t.word /\ ~Strip(t).padded
           /\ Lower(t) \in Text /\ Lower(t).word = t.word
           /\ Lower(Strip(t)) = T(t.word) /\ Strip(Lower(t)) = T(t.word)
           /\ Strip(t) \in [word : {t.word}, padded : {FALSE}, upper : BOOLEAN]
           /\ ~t.padded => Lower(t) = T(t.word)
           /\ t.word \in Word
<1>1. t.word \in Word /\ t.upper \in BOOLEAN /\ t.padded \in BOOLEAN
  BY DEF Text
<1>2. Strip(t) \in Text /\ Lower(t) \in Text
  BY <1>1 DEF Text, Strip, Lower
<1>3. Strip(t).word = t.word /\ ~Strip(t).padded /\ Lower(t).word = t.word
  BY DEF Strip, Lower
<1>4. Lower(Strip(t)) = T(t.word) /\ Strip(Lower(t)) = T(t.word)
  BY DEF T, Lower, Strip
<1>5. ~t.padded => Lower(t) = T(t.word)
  BY <1>1 DEF T, Lower
<1>6. Strip(t) \in [word : {t.word}, padded : {FALSE}, upper : BOOLEAN]
  BY <1>1 DEF Strip
<1> QED BY <1>1, <1>2, <1>3, <1>4, <1>5, <1>6

LEMMA WordText == ASSUME NEW w \in Word PROVE T(w) \in Text /\ T(w).word = w /\ ~T(w).padded
  BY DEF T, Text

\* Whether a text is blank depends on its word alone.
LEMMA BlankWord == \A s, t : s.word = t.word => (Blank(s) <=> Blank(t))
  BY Zenon DEF Blank

LEMMA BlankTexts ==
    ASSUME NEW t \in Text
    PROVE  (Blank(Strip(t)) <=> Blank(t)) /\ (Blank(Lower(t)) <=> Blank(t))
<1>1. Strip(t).word = t.word /\ Lower(t).word = t.word
  BY TextOps
<1> QED BY <1>1, BlankWord

LEMMA NotBlank ==
    /\ Blank(T(""))
    /\ \A t : t.word \in IpWord \cup HashWord \cup Allowed \cup {"unknown", "None"} => ~Blank(t)
<1>1. Blank(T(""))
  BY Zenon DEF Blank, T
<1>2. "" \notin IpWord \cup HashWord
  BY WordsKnown, Zenon
<1>3. "" \notin Allowed \cup {"unknown", "None"}
  BY Zenon DEF Allowed
<1>4. ASSUME NEW t, t.word \in IpWord \cup HashWord \cup Allowed \cup {"unknown", "None"}
      PROVE  ~Blank(t)
  BY <1>2, <1>3, <1>4, Zenon DEF Blank
<1> QED BY <1>1, <1>4, Zenon

LEMMA WrittenTyped ==
    ASSUME NEW v \in Value
    PROVE  Written(v) \in Text /\ (IsText(v) => Written(v) = v)
<1>1. CASE v \in Text
  BY <1>1, Kinds DEF Written
<1>2. CASE v \in Number
  <2>1. Digits[v.number] \in Word
    BY <1>2, WordsKnown DEF Number
  <2> QED BY <1>2, <2>1, WordText, Kinds DEF Written
<1> QED BY <1>1, <1>2 DEF Value

LEMMA LengthTyped ==
    ASSUME NEW t \in Text
    PROVE  /\ Size[t.word] \in Nat /\ Length(t) \in Nat /\ Length(Strip(t)) = Size[t.word]
           /\ Length(Lower(t)) = Length(t)
           /\ Size[t.word] <= Length(t) /\ Length(t) <= Size[t.word] + 1
<1>1. t.word \in Word
  BY TextOps
<1>2. Size[t.word] \in Nat
  BY <1>1, TextsCut
<1>3. Length(Strip(t)) = Size[t.word]
  <2>1. Strip(t).word = t.word /\ ~Strip(t).padded
    BY TextOps
  <2> QED BY <2>1, Zenon DEF Length
<1>4. Length(Lower(t)) = Length(t)
  <2>1. Lower(t).word = t.word /\ Lower(t).padded = t.padded
    BY DEF Lower
  <2> QED BY <2>1, Zenon DEF Length
<1>5. Length(t) = Size[t.word] + 1 \/ Length(t) = Size[t.word]
  BY Zenon DEF Length
<1>6. Length(t) \in Nat /\ Size[t.word] <= Length(t) /\ Length(t) <= Size[t.word] + 1
  BY <1>2, <1>5
<1> QED BY <1>2, <1>3, <1>4, <1>6

\* What is left of a text that is cut.
LEMMA CutTyped ==
    ASSUME NEW t \in Text, NEW n \in Nat
    PROVE  /\ Cut(t, n) \in Text /\ Length(Cut(t, n)) <= n
           /\ Length(t) <= n => Cut(t, n) = t
           /\ n > 0 /\ ~Blank(t) => ~Blank(Cut(t, n))
           /\ Size[t.word] <= n => Cut(t, n) \in {t, Strip(t)}
           /\ Size[t.word] > n => Cut(t, n) = Opening(Strip(t), n)
<1>0. /\ Strip(t) \in Text /\ Length(Strip(t)) = Size[t.word] /\ (Blank(Strip(t)) <=> Blank(t))
      /\ Size[t.word] \in Nat /\ Length(t) \in Nat /\ Size[t.word] <= Length(t)
  BY TextOps, BlankTexts, LengthTyped
<1>1. CASE Length(t) <= n
  <2>1. Cut(t, n) = t
    BY <1>1 DEF Cut
  <2> QED BY <1>0, <1>1, <2>1
<1>2. CASE Length(t) > n /\ Size[t.word] <= n
  <2>1. Cut(t, n) = Strip(t)
    BY <1>0, <1>2 DEF Cut
  <2> QED BY <1>0, <1>2, <2>1
<1>3. CASE Length(t) > n /\ Size[t.word] > n
  <2>1. Strip(t) \in Text /\ Strip(t).word = t.word
    BY TextOps
  <2>2. n \in 0..(Size[t.word] - 1)
    BY <1>3, LengthTyped
  <2>3. /\ Opening(Strip(t), n) \in Text /\ Length(Opening(Strip(t), n)) = n
        /\ n > 0 => ~Blank(Opening(Strip(t), n))
    BY <2>1, <2>2, TextsCut
  <2>4. Cut(t, n) = Opening(Strip(t), n) /\ ~(Length(t) <= n) /\ ~(Size[t.word] <= n)
    BY <1>3, LengthTyped DEF Cut
  <2> QED BY <2>3, <2>4
<1> QED BY <1>1, <1>2, <1>3, LengthTyped

LEMMA TruncatedTyped ==
    ASSUME NEW v \in Value \cup {Absent}, NEW w \in Nat \ {0}, Truncated(v, w) # Absent
    PROVE  /\ v \in Value /\ Truncated(v, w) = Cut(Strip(Written(v)), w)
           /\ Truncated(v, w) \in Text /\ ~Blank(Truncated(v, w))
           /\ Length(Truncated(v, w)) <= w
           /\ ~Blank(Written(v))
<1>1. v \in Value /\ ~Blank(Written(v)) /\ Truncated(v, w) = Cut(Strip(Written(v)), w)
  BY DEF Truncated
<1>2. Written(v) \in Text
  BY <1>1, WrittenTyped
<1>3. Strip(Written(v)) \in Text /\ ~Blank(Strip(Written(v)))
  BY <1>1, <1>2, TextOps, BlankTexts
<1>4. w \in Nat /\ w > 0
  OBVIOUS
<1>5. Cut(Strip(Written(v)), w) \in Text /\ Length(Cut(Strip(Written(v)), w)) <= w
      /\ ~Blank(Cut(Strip(Written(v)), w))
  BY <1>3, <1>4, CutTyped
<1> QED BY <1>1, <1>5

----------------------------------------------------------------------------
(* Keys of several parts.                                                  *)

LEMMA EndsAre ==
    ASSUME NEW parts \in Seq(Text)
    PROVE  /\ Len(parts) \in Nat /\ DOMAIN parts = 1..Len(parts) /\ Ends(parts)[0] = 0
           /\ \A i \in 0..Len(parts) : Ends(parts)[i] \in Nat
           /\ \A i \in 1..Len(parts) :
                 /\ parts[i] \in Text /\ Length(parts[i]) \in Nat
                 /\ Ends(parts)[i] = Ends(parts)[i - 1] + Length(parts[i]) + 1
           /\ \A i, j \in 0..Len(parts) : i <= j => Ends(parts)[i] <= Ends(parts)[j]
<1> DEFINE n == Len(parts)
           f == [i \in DOMAIN parts |-> Length(parts[i]) + 1]
           s == PartialSums(f, n)
<1>1. n \in Nat /\ DOMAIN parts = 1..n /\ \A i \in 1..n : parts[i] \in Text
  BY LenProperties, ElementOfSeq
<1>2. \A i \in 1..n : Length(parts[i]) \in Nat
  BY <1>1, LengthTyped
<1>3. \A i \in 1..n : f[i] = Length(parts[i]) + 1
  BY <1>1
<1>4. f \in [1..n -> Nat] /\ f \in [1..n -> Int]
  BY <1>1, <1>2
<1>5. Ends(parts) = s
  BY DEF Ends
<1> HIDE DEF n, f
<1>6. IsSums(s, f, n)
  BY <1>1, <1>4, SumsExist
<1> HIDE DEF s
<1>7. \A i, j \in 0..n : i <= j => s[i] <= s[j]
  BY <1>1, <1>4, <1>6, SumsGrow
<1>8. \A i \in 0..n : s[i] \in Nat
  <2> SUFFICES ASSUME NEW i \in 0..n PROVE s[i] \in Nat
    OBVIOUS
  <2>1. 0 \in 0..n /\ 0 <= i
    BY <1>1
  <2>2. s[0] <= s[i]
    BY <1>7, <2>1
  <2> QED BY <1>6, <2>2 DEF IsSums
<1>9. s[0] = 0 /\ \A i \in 1..n : s[i] = s[i - 1] + (Length(parts[i]) + 1)
  BY <1>3, <1>6 DEF IsSums
<1>10. \A i \in 1..n : s[i] = s[i - 1] + Length(parts[i]) + 1
  <2> SUFFICES ASSUME NEW i \in 1..n PROVE s[i] = s[i - 1] + Length(parts[i]) + 1
    OBVIOUS
  <2>1. i - 1 \in 0..n
    BY <1>1
  <2>2. s[i - 1] \in Nat /\ Length(parts[i]) \in Nat
    BY <1>2, <1>8, <2>1
  <2>3. s[i] = s[i - 1] + (Length(parts[i]) + 1)
    BY <1>9
  <2>4. \A a, b \in Nat : a + (b + 1) = a + b + 1
    OBVIOUS
  <2> QED BY <2>2, <2>3, <2>4
<1> QED BY <1>1, <1>2, <1>5, <1>7, <1>8, <1>9, <1>10 DEF n

LEMMA TrimmedTyped ==
    ASSUME NEW parts \in Seq(Text)
    PROVE  /\ Trimmed(parts) \in Seq(Text) /\ Len(Trimmed(parts)) = Len(parts)
           /\ \A i \in 1..Len(parts) : Trimmed(parts)[i] \in {parts[i], Strip(parts[i])}
<1> DEFINE n == Len(parts)
           t == Trimmed(parts)
<1>1. n \in Nat /\ DOMAIN parts = 1..n /\ \A i \in 1..n : parts[i] \in Text
  BY LenProperties, ElementOfSeq
<1>2. \A i \in 1..n : Strip(parts[i]) \in Text
  BY <1>1, TextOps
<1>3. \A i \in 1..n : t[i] \in {parts[i], Strip(parts[i])}
  BY <1>1 DEF Trimmed
<1>4. DOMAIN t = 1..n /\ t = [i \in 1..n |-> t[i]]
  BY <1>1 DEF Trimmed
<1> HIDE DEF n, t
<1>5. t \in [1..n -> Text]
  BY <1>1, <1>2, <1>3, <1>4
<1>6. t \in Seq(Text)
  BY <1>1, <1>5
<1>7. Len(t) = n
  BY <1>1, <1>5, <1>6, LenProperties
<1> QED BY <1>3, <1>6, <1>7 DEF n, t

\* A key that is cut consists of the first parts, and fits.
LEMMA CutKeyIs ==
    ASSUME NEW parts \in Seq(Text), Len(parts) > 0, NEW w \in Nat
    PROVE  /\ CutKey(parts, w) \in Seq(Text) /\ KeyLength(CutKey(parts, w)) <= w
           /\ \A i \in 1..Len(parts) : Ends(parts)[i - 1] <= w =>
                 /\ i \in DOMAIN CutKey(parts, w)
                 /\ CutKey(parts, w)[i] = Cut(parts[i], w - Ends(parts)[i - 1])
<1> DEFINE n == Len(parts)
           e == Ends(parts)
           S == {j \in 1..n : e[j - 1] <= w}
           q == CutKey(parts, w)
<1>1. n \in Nat /\ n > 0 /\ DOMAIN parts = 1..n /\ e[0] = 0
  BY EndsAre
<1>2. /\ \A i \in 0..n : e[i] \in Nat
      /\ \A i \in 1..n : /\ parts[i] \in Text /\ Length(parts[i]) \in Nat
                          /\ e[i] = e[i - 1] + Length(parts[i]) + 1
      /\ \A i, j \in 0..n : i <= j => e[i] <= e[j]
  BY EndsAre
<1>3. q = [i \in S |-> Cut(parts[i], w - e[i - 1])]
  BY <1>1 DEF CutKey
<1> HIDE DEF n, e, q
<1>4. 1 \in S
  BY <1>1
<1>5. PICK m \in S : \A k \in S : k <= m
  <2>1. S \subseteq 0..n /\ S # {}
    BY <1>4
  <2> HIDE DEF S
  <2> QED BY <1>1, <2>1, GreatestElement
<1>6. m \in 1..n /\ e[m - 1] <= w
  BY <1>5
<1>7. S = 1..m
  <2>1. ASSUME NEW k \in 1..m PROVE k \in S
    <3>1. k - 1 \in 0..n /\ m - 1 \in 0..n /\ k - 1 <= m - 1 /\ k \in 1..n
      BY <1>1, <1>6
    <3>2. e[k - 1] <= e[m - 1] /\ e[k - 1] \in Nat /\ e[m - 1] \in Nat
      BY <1>2, <3>1
    <3> QED BY <1>6, <3>1, <3>2
  <2>2. ASSUME NEW k \in S PROVE k \in 1..m
    <3>1. k <= m /\ k \in 1..n
      BY <1>5
    <3> QED BY <1>1, <1>6, <3>1
  <2> QED BY <2>1, <2>2
<1>8. \A i \in 1..m : /\ i \in 1..n /\ i - 1 \in 0..n /\ w - e[i - 1] \in Nat
                       /\ q[i] = Cut(parts[i], w - e[i - 1])
  <2> SUFFICES ASSUME NEW i \in 1..m
               PROVE  /\ i \in 1..n /\ i - 1 \in 0..n /\ w - e[i - 1] \in Nat
                      /\ q[i] = Cut(parts[i], w - e[i - 1])
    OBVIOUS
  <2>1. i \in S
    BY <1>7
  <2>2. i \in 1..n /\ i - 1 \in 0..n /\ e[i - 1] <= w
    BY <1>1, <2>1
  <2>3. w - e[i - 1] \in Nat
    BY <1>2, <2>2
  <2> QED BY <1>3, <2>1, <2>2, <2>3
<1>9. \A i \in 1..m : q[i] \in Text /\ Length(q[i]) <= w - e[i - 1] /\ Length(q[i]) \in Nat
                      /\ (Length(parts[i]) <= w - e[i - 1] => q[i] = parts[i])
  <2> SUFFICES ASSUME NEW i \in 1..m
               PROVE  /\ q[i] \in Text /\ Length(q[i]) <= w - e[i - 1] /\ Length(q[i]) \in Nat
                      /\ Length(parts[i]) <= w - e[i - 1] => q[i] = parts[i]
    OBVIOUS
  <2>1. parts[i] \in Text /\ w - e[i - 1] \in Nat /\ q[i] = Cut(parts[i], w - e[i - 1])
    BY <1>2, <1>8
  <2>2. q[i] \in Text /\ Length(q[i]) <= w - e[i - 1]
        /\ (Length(parts[i]) <= w - e[i - 1] => q[i] = parts[i])
    BY <2>1, CutTyped
  <2> QED BY <2>2, LengthTyped
<1>10. q \in Seq(Text) /\ Len(q) = m
  <2>1. q \in [1..m -> Text]
    <3>1. q = [i \in 1..m |-> q[i]]
      BY <1>3, <1>7
    <3> QED BY <1>9, <3>1
  <2>2. q \in Seq(Text)
    BY <1>6, <2>1
  <2> QED BY <1>6, <2>1, <2>2, LenProperties
<1>11. /\ Ends(q)[0] = 0
       /\ \A i \in 1..m : Ends(q)[i] = Ends(q)[i - 1] + Length(q[i]) + 1
  BY <1>10, EndsAre
<1>12. \A k \in 0..(m - 1) : Ends(q)[k] = e[k]
  <2> DEFINE U == {k \in 0..(m - 1) : Ends(q)[k] = e[k]}
  <2>1. 0 \in U
    BY <1>1, <1>6, <1>11
  <2>2. ASSUME NEW k \in 1..(m - 1), k - 1 \in U PROVE k \in U
    <3>1. k \in 1..m /\ k + 1 \in 1..m /\ k \in 0..n /\ k - 1 \in 0..n
      BY <1>1, <1>6
    <3>2. e[k] <= w /\ e[k] = e[k - 1] + Length(parts[k]) + 1
      <4>1. (k + 1) - 1 = k
        BY <3>1
      <4>3. e[(k + 1) - 1] <= w
        BY <1>7, <3>1
      <4>2. k \in 1..n
        BY <1>8, <3>1
      <4> QED BY <1>2, <4>1, <4>2, <4>3
    <3>3. e[k] \in Nat /\ e[k - 1] \in Nat /\ Length(parts[k]) \in Nat
      BY <1>2, <1>8, <3>1
    <3>4. q[k] = parts[k]
      BY <1>9, <3>1, <3>2, <3>3
    <3>5. Ends(q)[k] = Ends(q)[k - 1] + Length(q[k]) + 1
      BY <1>11, <3>1
    <3> QED BY <2>2, <3>2, <3>4, <3>5
  <2> HIDE DEF U
  <2>3. m - 1 \in Nat
    BY <1>1, <1>6
  <2>4. \A k \in 0..(m - 1) : k \in U
    BY <2>1, <2>2, <2>3, RangeInduction
  <2> QED BY <2>4 DEF U
<1>13. KeyLength(q) <= w
  <2>1. m \in 1..m /\ m - 1 \in 0..(m - 1) /\ m \in Nat
    BY <1>1, <1>6
  <2>2. Ends(q)[m] = e[m - 1] + Length(q[m]) + 1
    BY <1>11, <1>12, <2>1
  <2>3. Length(q[m]) <= w - e[m - 1] /\ Length(q[m]) \in Nat /\ e[m - 1] \in Nat
    BY <1>2, <1>8, <1>9, <2>1
  <2>4. KeyLength(q) = Ends(q)[m] - 1
    BY <1>10 DEF KeyLength
  <2> QED BY <2>2, <2>3, <2>4
<1>14. \A i \in 1..n : e[i - 1] <= w => i \in DOMAIN q /\ q[i] = Cut(parts[i], w - e[i - 1])
  BY <1>3
<1> QED BY <1>10, <1>13, <1>14 DEF n, e, q

\* The first part of a key is in it, and all are when they fit.
LEMMA KeyTextHolds ==
    ASSUME NEW key \in Seq(Text), NEW i \in DOMAIN key, ~Blank(key[i])
    PROVE  LET w == Width["correlation_key"]
           IN  /\ KeyText(key) # Absent
               /\ i = 1 =>
                     \E j \in DOMAIN KeyText(key), t \in {key[i], Strip(key[i])} :
                         KeyText(key)[j] = Cut(t, w)
               /\ KeyLength(Trimmed(key)) <= w =>
                     \E j \in DOMAIN KeyText(key), t \in {key[i], Strip(key[i])} :
                         KeyText(key)[j] = t /\ Length(t) <= w
<1> DEFINE w == Width["correlation_key"]
           t == Trimmed(key)
           n == Len(key)
<1>1. w \in Nat
  BY WidthsKnown DEF Fitted
<1>2. n \in Nat /\ DOMAIN key = 1..n /\ i \in 1..n /\ n > 0
  <2>1. n \in Nat /\ DOMAIN key = 1..n
    BY LenProperties
  <2> QED BY <2>1
<1>3. KeyText(key) = CutKey(t, w)
  <2>1. key # <<>> /\ ~(n = 1 /\ Blank(key[1]))
    <3>1. CASE n = 1
      <4>1. i = 1
        BY <1>2, <3>1
      <4> QED BY <3>1, <4>1
    <3>2. CASE n # 1
      BY <1>2, <3>2
    <3> QED BY <3>1, <3>2
  <2> QED BY <2>1 DEF KeyText
<1>4. t \in Seq(Text) /\ Len(t) = n /\ t[i] \in {key[i], Strip(key[i])}
  BY <1>2, TrimmedTyped
<1>5. KeyLength(t) = Ends(t)[n] - 1
  BY <1>4 DEF KeyLength
<1> HIDE DEF w, t, n
<1>6. /\ CutKey(t, w) \in Seq(Text)
      /\ Ends(t)[i - 1] <= w =>
            /\ i \in DOMAIN CutKey(t, w)
            /\ CutKey(t, w)[i] = Cut(t[i], w - Ends(t)[i - 1])
  BY <1>1, <1>2, <1>4, CutKeyIs
<1>7. KeyText(key) # Absent
  BY <1>3, <1>6, WordsKnown
<1>8. ASSUME i = 1 PROVE i \in DOMAIN CutKey(t, w) /\ CutKey(t, w)[i] = Cut(t[i], w)
  <2>1. Ends(t)[i - 1] = 0
    BY <1>4, <1>8, EndsAre
  <2> QED BY <1>1, <1>6, <2>1
<1>9. ASSUME KeyLength(t) <= w
      PROVE  i \in DOMAIN CutKey(t, w) /\ CutKey(t, w)[i] = t[i] /\ Length(t[i]) <= w
  <2>1. i \in 0..n /\ n \in 0..n /\ i <= n /\ i - 1 \in 0..n
    BY <1>2
  <2>2. /\ Ends(t)[i] = Ends(t)[i - 1] + Length(t[i]) + 1 /\ Length(t[i]) \in Nat
        /\ Ends(t)[i] <= Ends(t)[n] /\ t[i] \in Text
    BY <1>2, <1>4, <2>1, EndsAre
  <2>3. Ends(t)[i] \in Nat /\ Ends(t)[i - 1] \in Nat /\ Ends(t)[n] \in Nat
    BY <1>4, <2>1, EndsAre
  <2>4. Length(t[i]) <= w - Ends(t)[i - 1] /\ w - Ends(t)[i - 1] \in Nat /\ Ends(t)[i - 1] <= w
    BY <1>1, <1>5, <1>9, <2>2, <2>3
  <2>5. Cut(t[i], w - Ends(t)[i - 1]) = t[i]
    BY <2>2, <2>4, CutTyped
  <2>6. Length(t[i]) <= w
    BY <1>1, <2>2, <2>3, <2>4
  <2> QED BY <1>6, <2>4, <2>5, <2>6
<1> QED BY <1>3, <1>4, <1>7, <1>8, <1>9 DEF w, t

LEMMA KeyTextFits ==
    ASSUME NEW key \in Seq(Text), KeyText(key) # Absent
    PROVE  KeyLength(KeyText(key)) <= Width["correlation_key"]
<1> DEFINE w == Width["correlation_key"]
           t == Trimmed(key)
<1>1. w \in Nat
  BY WidthsKnown DEF Fitted
<1>2. key # <<>> /\ KeyText(key) = CutKey(t, w)
  BY DEF KeyText
<1>3. t \in Seq(Text) /\ Len(t) = Len(key)
  BY TrimmedTyped
<1>4. Len(key) > 0
  <2>1. Len(key) \in Nat
    BY LenProperties
  <2> QED BY <1>2, <2>1, EmptySeq
<1> HIDE DEF w, t
<1>5. KeyLength(CutKey(t, w)) <= w
  BY <1>1, <1>3, <1>4, CutKeyIs
<1> QED BY <1>2, <1>5 DEF w

----------------------------------------------------------------------------
(* The payload and the columns it is mapped to.                            *)

LEMMA MappingDomain == DOMAIN FieldMapping = 1..20
  BY DEF FieldMapping

LEMMA SomeColumns ==
    {"occurred_at", "username", "actor", "source_ip", "source_port", "protocol", "hostname",
     "process_name", "file_hash_sha256", "domain", "event_type", "event_category", "severity",
     "authentication_result", "correlation_key"} \subseteq Canonical
<1>1. /\ FieldMapping[1][2] = "occurred_at" /\ FieldMapping[3][2] = "username"
      /\ FieldMapping[5][2] = "actor" /\ FieldMapping[6][2] = "source_ip"
      /\ FieldMapping[8][2] = "source_port" /\ FieldMapping[9][2] = "protocol"
      /\ FieldMapping[10][2] = "hostname" /\ FieldMapping[11][2] = "process_name"
      /\ FieldMapping[12][2] = "file_hash_sha256" /\ FieldMapping[13][2] = "domain"
      /\ FieldMapping[14][2] = "event_type" /\ FieldMapping[15][2] = "event_category"
      /\ FieldMapping[16][2] = "severity" /\ FieldMapping[18][2] = "authentication_result"
      /\ FieldMapping[20][2] = "correlation_key"
  BY DEF FieldMapping
<1>2. \A i \in 1..20 : FieldMapping[i][2] \in Canonical
  BY MappingDomain DEF Canonical
<1> QED BY <1>1, <1>2

LEMMA AllColumns ==
    Canonical \subseteq
      {"occurred_at", "username", "actor", "source_ip", "source_port", "protocol", "hostname",
       "process_name", "file_hash_sha256", "domain", "event_type", "event_category", "severity",
       "authentication_result", "correlation_key"}
<1>1. \A i \in 1..20 : \/ i \in {1, 2, 3, 4, 5, 6, 7, 8, 9, 10}
                        \/ i \in {11, 12, 13, 14, 15, 16, 17, 18, 19, 20}
  OBVIOUS
<1>2. \A i \in {1, 2, 3, 4, 5, 6, 7, 8, 9, 10} :
        FieldMapping[i][2] \in {"occurred_at", "username", "actor", "source_ip", "source_port",
                                "protocol", "hostname"}
  BY DEF FieldMapping
<1>3. \A i \in {11, 12, 13, 14, 15, 16, 17, 18, 19, 20} :
        FieldMapping[i][2] \in {"process_name", "file_hash_sha256", "domain", "event_type",
                                "event_category", "severity", "authentication_result",
                                "correlation_key"}
  BY DEF FieldMapping
<1>4. ASSUME NEW f \in Canonical PROVE \E i \in 1..20 : f = FieldMapping[i][2]
  BY MappingDomain DEF Canonical
<1> QED BY <1>1, <1>2, <1>3, <1>4

\* What a column holds comes from one of its aliases.
LEMMA MappedFrom ==
    ASSUME NEW p \in Payload, NEW c \in Canonical, Mapped(p)[c] # Absent
    PROVE  \E i \in 1..20 : /\ FieldMapping[i][2] = c /\ p[FieldMapping[i][1]] # Absent
                            /\ p[FieldMapping[i][1]] \in Value
                            /\ Mapped(p)[c] = Transform(c, p[FieldMapping[i][1]])
<1> DEFINE given == {i \in DOMAIN FieldMapping : /\ FieldMapping[i][2] = c
                                                 /\ p[FieldMapping[i][1]] # Absent}
           last == CHOOSE i \in given : \A j \in given : j <= i
<1>1. given # {} /\ Mapped(p)[c] = Transform(c, p[FieldMapping[last][1]])
  BY DEF Mapped
<1>2. last \in given
  <2>1. given \subseteq 0..20
    BY MappingDomain
  <2> HIDE DEF given
  <2>2. \E i \in given : \A j \in given : j <= i
    BY <1>1, <2>1, GreatestElement
  <2> QED BY <2>2
<1>3. FieldMapping[last][1] \in Source
  BY <1>2 DEF Source
<1>4. p[FieldMapping[last][1]] \in Value \cup {Absent}
  BY <1>3 DEF Payload
<1> HIDE DEF last
<1> QED BY <1>1, <1>2, <1>4, MappingDomain

LEMMA MappedTyped ==
    ASSUME NEW p \in Payload PROVE Mapped(p) \in [Canonical -> Value \cup {Absent}]
<1>1. ASSUME NEW c \in Canonical PROVE Mapped(p)[c] \in Value \cup {Absent}
  BY MappedFrom DEF Transform
<1> QED BY <1>1 DEF Mapped

----------------------------------------------------------------------------
(* The columns that are derived.                                           *)

Columns == [Canonical -> Value \cup {Absent}]
DerivedColumn == {"authentication_result", "actor", "event_type", "severity", "correlation_key"}

LEMMA DerivedColumns ==
    ASSUME NEW r \in Columns, NEW p
    PROVE  /\ DOMAIN Derived(r, p) = Canonical
           /\ \A f \in Canonical \ DerivedColumn : Derived(r, p)[f] = r[f]
           /\ Derived(r, p)["authentication_result"] =
                IF r["authentication_result"] = Absent /\ IsText(p["action"])
                  THEN ActionResult(p["action"]) ELSE r["authentication_result"]
           /\ Derived(r, p)["actor"] =
                IF r["actor"] = Absent /\ Truthy(r["username"]) THEN r["username"] ELSE r["actor"]
           /\ Derived(r, p)["event_type"] = InferredType(r, p)
           /\ Derived(r, p)["severity"] = InferredSeverity(r, p)
           /\ Derived(r, p)["correlation_key"] =
                IF Truthy(r["correlation_key"]) THEN <<Written(r["correlation_key"])>>
                ELSE CorrelationKey(r)
  BY SomeColumns DEF Derived, Columns, DerivedColumn

LEMMA ActionResultTyped ==
    ASSUME NEW a \in Text PROVE ActionResult(a) \in Value \cup {Absent}
<1>1. Lower(Strip(a)).word \in Word
  BY TextOps
<1>2. T(Lower(Strip(a)).word) \in Text /\ T("failure") \in Text /\ T("success") \in Text
  BY <1>1, WordText, WordsKnown
<1> HIDE DEF Text
<1> QED BY <1>2 DEF ActionResult, Value

LEMMA InferredTypeTyped ==
    ASSUME NEW r \in Columns, NEW p \in Payload
    PROVE  InferredType(r, p) \in Value \cup {Absent}
<1>1. p["event_type"] \in Value \cup {Absent} /\ p["action"] \in Value \cup {Absent}
  <2>1. FieldMapping[14][1] = "event_type"
    BY DEF FieldMapping
  <2>2. "event_type" \in Source /\ "action" \in Source
    BY <2>1, MappingDomain DEF Source
  <2> QED BY <2>2 DEF Payload
<1>2. r["event_type"] \in Value \cup {Absent}
  BY SomeColumns DEF Columns
<1>3. T("generic") \in Value /\ T("") \in Value
  BY WordText, WordsKnown DEF Value
<1>4. IsText(p["action"]) => Lower(Strip(p["action"])) \in Value
  <2>1. IsText(p["action"]) => p["action"] \in Text
    BY <1>1, Kinds DEF Value
  <2> QED BY <2>1, TextOps DEF Value
<1> HIDE DEF Value
<1> QED BY <1>1, <1>2, <1>3, <1>4 DEF InferredType

LEMMA InferredSeverityTyped ==
    ASSUME NEW r \in Columns, NEW p \in Payload
    PROVE  InferredSeverity(r, p) \in Value \cup {Absent}
<1>1. r["severity"] \in Value \cup {Absent}
  BY SomeColumns DEF Columns
<1>2. \A w \in {"critical", "high", "medium", "low", "informational"} : T(w) \in Value
  BY WordText, WordsKnown DEF Value
<1>3. \A n : SeverityOfNumber(n) \in Value
  BY <1>2 DEF SeverityOfNumber
<1> HIDE DEF Value
<1> QED BY <1>1, <1>3 DEF InferredSeverity

LEMMA TruthyGiven == ASSUME NEW v, Truthy(v) PROVE v # Absent
  BY DEF Truthy

LEMMA KeyPartTyped ==
    ASSUME NEW v \in Value \cup {Absent}
    PROVE  KeyPart(v) \in Seq(Text) /\ (KeyPart(v) = <<>> \/ Len(KeyPart(v)) = 1)
<1>1. CASE ~Truthy(v)
  <2>1. KeyPart(v) = <<>>
    BY <1>1 DEF KeyPart
  <2> QED BY <2>1
<1>2. CASE Truthy(v)
  <2>1. Lower(Written(v)) \in Text
    BY <1>2, TruthyGiven, WrittenTyped, TextOps
  <2> HIDE DEF Text
  <2> QED BY <1>2, <2>1 DEF KeyPart
<1> QED BY <1>1, <1>2

LEMMA DerivedTyped ==
    ASSUME NEW r \in Columns, NEW p \in Payload
    PROVE  /\ DOMAIN Derived(r, p) = Canonical
           /\ \A f \in Canonical \ {"correlation_key"} : Derived(r, p)[f] \in Value \cup {Absent}
           /\ Derived(r, p)["correlation_key"] \in Seq(Text)
<1>1. \A f \in Canonical : r[f] \in Value \cup {Absent}
  BY DEF Columns
<1>2. Derived(r, p)["authentication_result"] \in Value \cup {Absent}
  <2>1. p["action"] \in Value \cup {Absent}
    BY DEF Payload, Source
  <2>2. IsText(p["action"]) => p["action"] \in Text
    BY <2>1, Kinds DEF Value
  <2> HIDE DEF Value
  <2> QED BY <1>1, <2>2, SomeColumns, ActionResultTyped, DerivedColumns
<1>3. Derived(r, p)["actor"] \in Value \cup {Absent}
  BY <1>1, SomeColumns, DerivedColumns
<1>4. Derived(r, p)["event_type"] \in Value \cup {Absent}
  BY InferredTypeTyped, DerivedColumns
<1>5. Derived(r, p)["severity"] \in Value \cup {Absent}
  BY InferredSeverityTyped, DerivedColumns
<1>6. Derived(r, p)["correlation_key"] \in Seq(Text)
  <2>1. CASE Truthy(r["correlation_key"])
    <3>1. r["correlation_key"] \in Value
      BY <1>1, <2>1, SomeColumns, TruthyGiven
    <3>2. Written(r["correlation_key"]) \in Text
      BY <3>1, WrittenTyped
    <3>3. <<Written(r["correlation_key"])>> \in Seq(Text)
      BY <3>2
    <3> QED BY <2>1, <3>3, DerivedColumns
  <2>2. CASE ~Truthy(r["correlation_key"])
    <3>1. /\ KeyPart(r["username"]) \in Seq(Text) /\ KeyPart(r["hostname"]) \in Seq(Text)
          /\ KeyPart(r["source_ip"]) \in Seq(Text)
      BY <1>1, SomeColumns, KeyPartTyped
    <3>2. CorrelationKey(r) \in Seq(Text)
      BY <3>1 DEF CorrelationKey
    <3> QED BY <2>2, <3>2, DerivedColumns
  <2> QED BY <2>1, <2>2
<1> QED
  <2>1. ASSUME NEW f \in Canonical \ {"correlation_key"}
        PROVE  Derived(r, p)[f] \in Value \cup {Absent}
    <3>1. CASE f \in DerivedColumn
      BY <3>1, <1>2, <1>3, <1>4, <1>5 DEF DerivedColumn
    <3>2. CASE f \notin DerivedColumn
      <4>1. Derived(r, p)[f] = r[f]
        BY <3>2, DerivedColumns
      <4> QED BY <1>1, <4>1
    <3> QED BY <3>1, <3>2
  <2> QED BY <1>6, <2>1, DerivedColumns

----------------------------------------------------------------------------
(* The event that is built of the columns.                                 *)

Copied == {"actor", "username", "hostname", "process_name", "domain"}

LEMMA NormalizedColumns ==
    ASSUME NEW p \in Payload
    PROVE  LET d == Derived(Mapped(p), p)
               e == Normalized(p, Now)
           IN  /\ DOMAIN e = Canonical
               /\ e["occurred_at"] = IF d["occurred_at"] = Absent THEN Now ELSE d["occurred_at"]
               /\ e["event_type"] = IF Truncated(d["event_type"], Width["event_type"]) = Absent THEN T("unknown")
                                    ELSE Truncated(d["event_type"], Width["event_type"])
               /\ e["event_category"] = Category(d["event_category"])
               /\ e["severity"] = SeverityText(d["severity"])
               /\ \A f \in Copied : e[f] = Truncated(d[f], Width[f])
               /\ e["file_hash_sha256"] = Hash(d["file_hash_sha256"])
               /\ e["source_ip"] = Ip(d["source_ip"])
               /\ e["source_port"] = Port(d["source_port"])
               /\ e["protocol"] = IF Truthy(d["protocol"]) THEN Lower(Truncated(d["protocol"], Width["protocol"]))
                                  ELSE Absent
               /\ e["authentication_result"] = AuthResult(d["authentication_result"])
               /\ e["correlation_key"] = KeyText(d["correlation_key"])
<1> DEFINE d == Derived(Mapped(p), p)
<1>1. DOMAIN d = Canonical
  BY MappedTyped, DerivedTyped DEF Columns
<1>2. Normalized(p, Now) = [Built(d) EXCEPT !["occurred_at"] = IF @ = Absent THEN Now ELSE @]
  BY DEF Normalized
<1> HIDE DEF d
<1> USE DEF Built
<1>3. DOMAIN Built(d) = Canonical /\ DOMAIN Normalized(p, Now) = Canonical
  BY <1>1, <1>2
<1> HIDE DEF Built
<1>4. /\ Built(d)["occurred_at"] = d["occurred_at"]
      /\ Built(d)["event_type"] = IF Truncated(d["event_type"], Width["event_type"]) = Absent THEN T("unknown")
                                    ELSE Truncated(d["event_type"], Width["event_type"])
      /\ Built(d)["event_category"] = Category(d["event_category"])
      /\ Built(d)["severity"] = SeverityText(d["severity"])
      /\ \A f \in Copied : Built(d)[f] = Truncated(d[f], Width[f])
  BY <1>1, SomeColumns DEF Built, Copied
<1>5. /\ Built(d)["file_hash_sha256"] = Hash(d["file_hash_sha256"])
      /\ Built(d)["source_ip"] = Ip(d["source_ip"])
      /\ Built(d)["source_port"] = Port(d["source_port"])
      /\ Built(d)["protocol"] = IF Truthy(d["protocol"]) THEN Lower(Truncated(d["protocol"], Width["protocol"]))
                                  ELSE Absent
      /\ Built(d)["authentication_result"] = AuthResult(d["authentication_result"])
      /\ Built(d)["correlation_key"] = KeyText(d["correlation_key"])
  BY <1>1, SomeColumns DEF Built
<1>6. \A f \in Canonical \ {"occurred_at"} : Normalized(p, Now)[f] = Built(d)[f]
  BY <1>2, <1>3
<1>7. Normalized(p, Now)["occurred_at"] = IF d["occurred_at"] = Absent THEN Now
                                          ELSE d["occurred_at"]
  BY <1>2, <1>3, <1>4, SomeColumns
<1>8. \A f \in Copied : f \in Canonical \ {"occurred_at"}
  BY SomeColumns DEF Copied
<1> QED BY <1>3, <1>4, <1>5, <1>6, <1>7, <1>8, SomeColumns DEF d

LEMMA PortTyped ==
    ASSUME NEW v \in Value \cup {Absent} PROVE Port(v) \in {Absent} \cup [number : Ports]
<1>1. \A m, n \in Read(v) : m = n
  BY WordsKnown DEF Read
<1> DEFINE c == CHOOSE n \in Read(v) : TRUE
<1>2. ASSUME Read(v) \cap Ports # {} PROVE [number |-> c] \in [number : Ports]
  <2>1. PICK x \in Read(v) : x \in Ports
    BY <1>2
  <2> HIDE DEF Read
  <2>2. c \in Read(v)
    BY <2>1
  <2> HIDE DEF c
  <2>3. c \in Ports
    BY <1>1, <2>1, <2>2
  <2> QED BY <2>3
<1> HIDE DEF c
<1>3. Port(v) = IF Read(v) \cap Ports = {} THEN Absent ELSE [number |-> c]
  BY DEF Port, c
<1> QED BY <1>2, <1>3

\* What the coercions leave of a value.
LEMMA CoercionsTyped ==
    ASSUME NEW v \in Value \cup {Absent}
    PROVE  /\ AuthResult(v) \in {Absent} \cup {T(w) : w \in Allowed}
           /\ Ip(v) \in {Absent} \cup [word : IpWord, padded : {FALSE}, upper : BOOLEAN]
           /\ Hash(v) \in {Absent} \cup {T(w) : w \in HashWord}
<1>1. IsText(v) => v \in Text
  BY Kinds DEF Value
<1>2. AuthResult(v) \in {Absent} \cup {T(w) : w \in Allowed}
  BY <1>1, TextOps DEF AuthResult
<1>3. Ip(v) \in {Absent} \cup [word : IpWord, padded : {FALSE}, upper : BOOLEAN]
  BY <1>1, TextOps DEF Ip
<1>4. Hash(v) \in {Absent} \cup {T(w) : w \in HashWord}
  BY <1>1, TextOps DEF Hash
<1> QED BY <1>2, <1>3, <1>4

\* A text that is stored, and one that fits into a column.
Stored(v) == v # Absent => ~Blank(v)
FitsIn(v, w) == v # Absent => Length(v) <= w

LEMMA StoredTexts ==
    ASSUME NEW v \in Value \cup {Absent}, NEW w \in Nat \ {0}
    PROVE  /\ Stored(Truncated(v, w)) /\ FitsIn(Truncated(v, w), w)
           /\ Truncated(v, w) # Absent =>
                 Stored(Lower(Truncated(v, w))) /\ FitsIn(Lower(Truncated(v, w)), w)
           /\ Stored(SeverityText(v))
<1>1. Stored(Truncated(v, w)) /\ FitsIn(Truncated(v, w), w)
  <2>1. ASSUME Truncated(v, w) # Absent
        PROVE  ~Blank(Truncated(v, w)) /\ Length(Truncated(v, w)) <= w
    BY <2>1, TruncatedTyped
  <2> QED BY <2>1 DEF Stored, FitsIn
<1>2. Truncated(v, w) # Absent =>
          Stored(Lower(Truncated(v, w))) /\ FitsIn(Lower(Truncated(v, w)), w)
  <2> SUFFICES ASSUME Truncated(v, w) # Absent
               PROVE  Stored(Lower(Truncated(v, w))) /\ FitsIn(Lower(Truncated(v, w)), w)
    OBVIOUS
  <2> DEFINE t == Truncated(v, w)
  <2>1. t \in Text /\ ~Blank(t) /\ Length(t) <= w
    BY TruncatedTyped
  <2> HIDE DEF t
  <2>2. (Blank(Lower(t)) <=> Blank(t)) /\ Length(Lower(t)) = Length(t)
    BY <2>1, BlankTexts, LengthTyped
  <2> QED BY <2>1, <2>2 DEF Stored, FitsIn, t
<1>3. Stored(SeverityText(v))
  <2>1. ASSUME IsText(v), ~Blank(v) PROVE Stored(Lower(Strip(v)))
    <3>1. v \in Text
      BY <2>1, Kinds DEF Value
    <3>2. Strip(v) \in Text
      BY <3>1, TextOps
    <3> QED BY <2>1, <3>1, <3>2, BlankTexts DEF Stored
  <2> QED BY <2>1 DEF SeverityText, Stored
<1> QED BY <1>1, <1>2, <1>3

LEMMA CategoryStored ==
    ASSUME NEW v \in Value \cup {Absent}
    PROVE  Stored(Category(v)) /\ FitsIn(Category(v), Width["event_category"])
<1>1. Width["event_category"] \in Nat \ {0}
  BY WidthsKnown DEF Fitted
<1>2. /\ T("None").word = "None" /\ ~T("None").padded /\ ~Blank(T("None"))
  BY NotBlank DEF T
<1>3. Length(T("None")) <= Width["event_category"]
  BY <1>2, WidthsKnown DEF Length
<1>4. Stored(T("None")) /\ FitsIn(T("None"), Width["event_category"])
  BY <1>2, <1>3 DEF Stored, FitsIn
<1> QED BY <1>1, <1>4, StoredTexts DEF Category

EventTyped(e) ==
    /\ DOMAIN e = Canonical
    /\ e["event_type"] # Absent /\ e["occurred_at"] # Absent
    /\ e["source_port"] \in {Absent} \cup [number : Ports]
    /\ e["authentication_result"] \in {Absent} \cup {T(w) : w \in Allowed}
    /\ e["source_ip"] \in {Absent} \cup [word : IpWord, padded : {FALSE}, upper : BOOLEAN]
    /\ e["file_hash_sha256"] \in {Absent} \cup {T(w) : w \in HashWord}
    /\ \A f \in Canonical \ {"source_port", "correlation_key", "occurred_at"} :
          e[f] # Absent => ~Blank(e[f])
    /\ \A f \in (Fitted \cup {"severity"}) \ {"correlation_key"} :
          e[f] # Absent => Length(e[f]) <= Width[f]
    /\ e["correlation_key"] # Absent =>
          KeyLength(e["correlation_key"]) <= Width["correlation_key"]

LEMMA NormalizedTyped ==
    ASSUME NEW p \in Payload, ~Raises(Derived(Mapped(p), p)), ~Overflows(Normalized(p, Now))
    PROVE  EventTyped(Normalized(p, Now))
<1> DEFINE d == Derived(Mapped(p), p)
           e == Normalized(p, Now)
<1>1. \A f \in Canonical \ {"correlation_key"} : d[f] \in Value \cup {Absent}
  BY MappedTyped, DerivedTyped DEF Columns
<1>2. /\ DOMAIN e = Canonical
      /\ e["occurred_at"] = IF d["occurred_at"] = Absent THEN Now ELSE d["occurred_at"]
      /\ e["event_type"] = IF Truncated(d["event_type"], Width["event_type"]) = Absent THEN T("unknown")
                           ELSE Truncated(d["event_type"], Width["event_type"])
      /\ e["event_category"] = Category(d["event_category"])
      /\ e["severity"] = SeverityText(d["severity"])
  BY NormalizedColumns
<1>3. \A f \in Copied : e[f] = Truncated(d[f], Width[f])
  BY NormalizedColumns
<1>4. /\ e["file_hash_sha256"] = Hash(d["file_hash_sha256"])
      /\ e["source_ip"] = Ip(d["source_ip"]) /\ e["source_port"] = Port(d["source_port"])
      /\ e["protocol"] = IF Truthy(d["protocol"]) THEN Lower(Truncated(d["protocol"], Width["protocol"])) ELSE Absent
      /\ e["authentication_result"] = AuthResult(d["authentication_result"])
  BY NormalizedColumns
<1>5. ~Raises(d) /\ ~Overflows(e)
  OBVIOUS
<1>16. /\ e["correlation_key"] = KeyText(d["correlation_key"])
       /\ d["correlation_key"] \in Seq(Text)
  BY NormalizedColumns, MappedTyped, DerivedTyped DEF Columns
<1>17. \A f \in Fitted : Width[f] \in Nat \ {0}
  BY WidthsKnown
<1> HIDE DEF d, e
<1>6. e["occurred_at"] # Absent
  BY <1>2, CasesTyped
<1>7. /\ e["event_type"] # Absent /\ Stored(e["event_type"])
      /\ FitsIn(e["event_type"], Width["event_type"])
  <2>1. T("unknown") # Absent /\ Stored(T("unknown")) /\ FitsIn(T("unknown"), Width["event_type"])
    <3>1. /\ T("unknown").word = "unknown" /\ ~T("unknown").padded
          /\ ~Blank(T("unknown"))
      BY NotBlank DEF T
    <3>2. T("unknown") # Absent
      <4>1. "unknown" \in Word
        BY WordsKnown, Zenon
      <4> QED BY <4>1, WordText, Kinds
    <3>3. Length(T("unknown")) <= Width["event_type"]
      BY <3>1, WidthsKnown DEF Length
    <3> QED BY <3>1, <3>2, <3>3 DEF Stored, FitsIn
  <2>2. Width["event_type"] \in Nat \ {0}
    BY <1>17 DEF Fitted
  <2>3. /\ Stored(Truncated(d["event_type"], Width["event_type"]))
        /\ FitsIn(Truncated(d["event_type"], Width["event_type"]), Width["event_type"])
    BY <1>1, <2>2, SomeColumns, StoredTexts
  <2> QED BY <1>2, <2>1, <2>3
<1>8. /\ Stored(e["event_category"]) /\ Stored(e["severity"])
      /\ FitsIn(e["event_category"], Width["event_category"])
      /\ FitsIn(e["severity"], Width["severity"])
  <2>1. Stored(e["event_category"]) /\ FitsIn(e["event_category"], Width["event_category"])
    BY <1>1, <1>2, SomeColumns, CategoryStored
  <2>2. Stored(e["severity"])
    <3>1. 1 \in Nat \ {0}
      OBVIOUS
    <3> QED BY <1>1, <1>2, <3>1, SomeColumns, StoredTexts
  <2>3. FitsIn(e["severity"], Width["severity"])
    <3>1. SeverityText(d["severity"]) # Absent => SeverityText(d["severity"]) \in Text
      <4>1. IsText(d["severity"]) => d["severity"] \in Text
        BY <1>1, SomeColumns, Kinds DEF Value
      <4> QED BY <4>1, TextOps DEF SeverityText
    <3>2. e["severity"] # Absent => Length(e["severity"]) \in Nat
      BY <1>2, <3>1, LengthTyped
    <3>3. Width["severity"] \in Nat
      BY WidthsKnown
    <3> QED BY <1>5, <3>2, <3>3 DEF Overflows, FitsIn
  <2> QED BY <2>1, <2>2, <2>3
<1>9. \A f \in Copied : Stored(e[f]) /\ FitsIn(e[f], Width[f])
  <2> SUFFICES ASSUME NEW f \in Copied PROVE Stored(e[f]) /\ FitsIn(e[f], Width[f])
    OBVIOUS
  <2>1. d[f] \in Value \cup {Absent}
    BY <1>1, SomeColumns DEF Copied
  <2>2. Width[f] \in Nat \ {0}
    BY <1>17 DEF Fitted, Copied
  <2> QED BY <1>3, <2>1, <2>2, StoredTexts
<1>10. Stored(e["protocol"]) /\ FitsIn(e["protocol"], Width["protocol"])
  <2>1. CASE Truthy(d["protocol"])
    <3>1. Truncated(d["protocol"], Width["protocol"]) # Absent
      BY <1>5, <2>1 DEF Raises
    <3>2. Width["protocol"] \in Nat \ {0}
      BY <1>17 DEF Fitted
    <3> QED BY <1>1, <1>4, <2>1, <3>1, <3>2, SomeColumns, StoredTexts
  <2>2. CASE ~Truthy(d["protocol"])
    BY <1>4, <2>2 DEF Stored, FitsIn
  <2> QED BY <2>1, <2>2
<1>11. e["source_port"] \in {Absent} \cup [number : Ports]
  BY <1>1, <1>4, SomeColumns, PortTyped
<1>12. /\ e["authentication_result"] \in {Absent} \cup {T(w) : w \in Allowed}
       /\ e["source_ip"] \in {Absent} \cup [word : IpWord, padded : {FALSE}, upper : BOOLEAN]
       /\ e["file_hash_sha256"] \in {Absent} \cup {T(w) : w \in HashWord}
  BY <1>1, <1>4, SomeColumns, CoercionsTyped
<1>13. /\ Stored(e["authentication_result"]) /\ Stored(e["source_ip"])
       /\ Stored(e["file_hash_sha256"])
  <2>1. \A w \in Allowed \cup HashWord : Stored(T(w))
    <3>1. \A w : T(w).word = w
      BY DEF T
    <3> QED BY <3>1, NotBlank DEF Stored
  <2>2. \A t \in [word : IpWord, padded : {FALSE}, upper : BOOLEAN] : Stored(t)
    BY NotBlank DEF Stored
  <2>3. Stored(Absent)
    BY DEF Stored
  <2> QED BY <1>12, <2>1, <2>2, <2>3
<1>14. ASSUME NEW f \in Canonical \ {"source_port", "correlation_key", "occurred_at"}
       PROVE  Stored(e[f])
  BY <1>7, <1>8, <1>9, <1>10, <1>13, AllColumns DEF Copied
<1>15. ASSUME NEW f \in (Fitted \cup {"severity"}) \ {"correlation_key"}
       PROVE  FitsIn(e[f], Width[f])
  BY <1>7, <1>8, <1>9, <1>10 DEF Copied, Fitted
<1>18. e["correlation_key"] # Absent =>
           KeyLength(e["correlation_key"]) <= Width["correlation_key"]
  BY <1>16, KeyTextFits
<1> QED
  BY <1>2, <1>6, <1>7, <1>11, <1>12, <1>14, <1>15, <1>18 DEF EventTyped, Stored, FitsIn, e

----------------------------------------------------------------------------
(* The correlation key.                                                    *)

Anchor == {"username", "hostname", "source_ip"}

\* An anchor that is stored was given, and stored is what fits of it.
LEMMA AnchorGiven ==
    ASSUME NEW p \in Payload, NEW f \in Anchor,
           Normalized(p, Now)[f] # Absent, Mapped(p)[f] # [number |-> 0]
    PROVE  /\ KeyPart(Mapped(p)[f]) = <<Lower(Written(Mapped(p)[f]))>>
           /\ Written(Mapped(p)[f]) \in Text /\ ~Blank(Written(Mapped(p)[f]))
           /\ Normalized(p, Now)[f] = IF f = "source_ip" THEN Strip(Written(Mapped(p)[f]))
                                      ELSE Cut(Strip(Written(Mapped(p)[f])), Width[f])
<1> DEFINE v == Mapped(p)[f]
           e == Normalized(p, Now)
<1>1. v \in Value \cup {Absent} /\ Derived(Mapped(p), p)[f] = v
  <2>1. f \in Canonical \ DerivedColumn
    BY SomeColumns DEF DerivedColumn, Anchor
  <2>2. Mapped(p) \in Columns
    BY MappedTyped DEF Columns
  <2>3. Derived(Mapped(p), p)[f] = Mapped(p)[f]
    BY <2>1, <2>2, DerivedColumns
  <2> QED BY <2>1, <2>2, <2>3 DEF Columns
<1>2. e[f] = IF f = "source_ip" THEN Ip(v) ELSE Truncated(v, Width[f])
  BY <1>1, NormalizedColumns DEF Anchor, Copied
<1>3. e[f] # Absent /\ v # [number |-> 0]
  OBVIOUS
<1> HIDE DEF v, e
<1>4. /\ v \in Value /\ ~Blank(Written(v))
      /\ e[f] = IF f = "source_ip" THEN Strip(Written(v)) ELSE Cut(Strip(Written(v)), Width[f])
  <2>1. CASE f = "source_ip"
    <3>1. IsText(v) /\ v.word \in IpWord /\ e[f] = Strip(v)
      BY <1>2, <1>3, <2>1 DEF Ip
    <3>2. v \in Text
      BY <1>1, <3>1, Kinds DEF Value
    <3>3. Written(v) = v /\ ~Blank(v)
      BY <3>1, <3>2, WrittenTyped, NotBlank DEF Value
    <3>4. v \in Value
      BY <3>2 DEF Value
    <3> QED BY <2>1, <3>1, <3>3, <3>4
  <2>2. CASE f # "source_ip"
    <3>1. Width[f] \in Nat \ {0}
      BY <2>2, WidthsKnown DEF Anchor, Fitted
    <3> QED BY <1>1, <1>2, <1>3, <2>2, <3>1, TruncatedTyped
  <2> QED BY <2>1, <2>2
<1>5. Written(v) \in Text
  BY <1>4, WrittenTyped
<1>6. Truthy(v)
  <2>1. v # Absent
    BY <1>4, WordsKnown
  <2>2. Written(T("")) = T("") /\ Blank(T(""))
    <3>1. T("") \in Value /\ IsText(T(""))
      <4>1. "" \in Word
        BY WordsKnown, Zenon
      <4> QED BY <4>1, WordText, Kinds, Zenon DEF Value
    <3>2. Written(T("")) = T("")
      BY <3>1, WrittenTyped, Zenon
    <3> QED BY <3>2, NotBlank, Zenon
  <2>3. v # T("")
    BY <1>4, <2>2, Zenon
  <2> QED BY <1>3, <2>1, <2>3, Zenon DEF Truthy
<1>8. KeyPart(v) = <<Lower(Written(v))>>
  BY <1>6 DEF KeyPart
<1> QED BY <1>4, <1>5, <1>8 DEF v, e

\* A key that is not the payload's own is built of the anchors.
LEMMA KeyBuilt ==
    ASSUME NEW p \in Payload, ~Truthy(p["correlation_key"])
    PROVE  Derived(Mapped(p), p)["correlation_key"] = CorrelationKey(Mapped(p))
<1>1. ~Truthy(Mapped(p)["correlation_key"])
  <2>1. CASE Mapped(p)["correlation_key"] = Absent
    BY <2>1, TruthyGiven
  <2>2. CASE Mapped(p)["correlation_key"] # Absent
    <3>1. PICK i \in 1..20 : /\ FieldMapping[i][2] = "correlation_key"
                            /\ Mapped(p)["correlation_key"]
                                 = Transform("correlation_key", p[FieldMapping[i][1]])
      BY <2>2, MappedFrom, SomeColumns
    <3>2. FieldMapping[i][1] = "correlation_key"
      BY <3>1 DEF FieldMapping
    <3> QED BY <3>1, <3>2 DEF Transform
  <2> QED BY <2>1, <2>2
<1> QED BY <1>1, MappedTyped, DerivedColumns DEF Columns

LEMMA InConcat ==
    ASSUME NEW S, NEW s \in Seq(S), NEW t \in Seq(S), NEW x \in S, s = <<x>> \/ t = <<x>>
    PROVE  s \o t \in Seq(S) /\ \E i \in DOMAIN (s \o t) : (s \o t)[i] = x
<1>1. /\ s \o t \in Seq(S) /\ Len(s \o t) = Len(s) + Len(t)
      /\ \A i \in 1..(Len(s) + Len(t)) : (s \o t)[i] = IF i <= Len(s) THEN s[i] ELSE t[i - Len(s)]
  BY ConcatProperties
<1>2. Len(s) \in Nat /\ Len(t) \in Nat /\ DOMAIN (s \o t) = 1..(Len(s) + Len(t))
  BY <1>1, LenProperties
<1>3. CASE s = <<x>>
  <2>1. Len(s) = 1 /\ s[1] = x
    BY <1>3
  <2> QED BY <1>1, <1>2, <2>1
<1>4. CASE t = <<x>>
  <2>1. Len(t) = 1 /\ t[1] = x
    BY <1>4
  <2>2. Len(s) + 1 \in 1..(Len(s) + Len(t)) /\ ~(Len(s) + 1 <= Len(s)) /\ Len(s) + 1 - Len(s) = 1
    BY <1>2, <2>1
  <2> QED BY <1>1, <1>2, <2>1, <2>2
<1> QED BY <1>3, <1>4

LEMMA StaysInConcat ==
    ASSUME NEW S, NEW s \in Seq(S), NEW t \in Seq(S), NEW x, \E i \in DOMAIN s : s[i] = x
    PROVE  \E i \in DOMAIN (s \o t) : (s \o t)[i] = x
<1>1. /\ s \o t \in Seq(S) /\ Len(s \o t) = Len(s) + Len(t)
      /\ \A i \in 1..(Len(s) + Len(t)) : (s \o t)[i] = IF i <= Len(s) THEN s[i] ELSE t[i - Len(s)]
  BY ConcatProperties
<1>2. Len(s) \in Nat /\ Len(t) \in Nat /\ DOMAIN (s \o t) = 1..(Len(s) + Len(t))
  BY <1>1, LenProperties
<1>3. PICK i \in 1..Len(s) : s[i] = x
  BY LenProperties
<1>4. i \in 1..(Len(s) + Len(t)) /\ i <= Len(s)
  BY <1>2, <1>3
<1> QED BY <1>1, <1>2, <1>3, <1>4

LEMMA AnchorInKey ==
    ASSUME NEW p \in Payload, NEW f \in Anchor,
           Normalized(p, Now)[f] # Absent, Mapped(p)[f] # [number |-> 0]
    PROVE  /\ CorrelationKey(Mapped(p)) \in Seq(Text)
           /\ \E i \in DOMAIN CorrelationKey(Mapped(p)) :
                /\ CorrelationKey(Mapped(p))[i] = Lower(Written(Mapped(p)[f]))
                /\ f = "username" => i = 1
<1> DEFINE m == Mapped(p)
           u == KeyPart(m["username"])
           h == KeyPart(m["hostname"])
           s == KeyPart(m["source_ip"])
           x == Lower(Written(m[f]))
<1>1. u \in Seq(Text) /\ h \in Seq(Text) /\ s \in Seq(Text)
  <2>1. \A c \in Canonical : m[c] \in Value \cup {Absent}
    BY MappedTyped
  <2> QED BY <2>1, SomeColumns, KeyPartTyped
<1>2. KeyPart(m[f]) = <<x>> /\ x \in Text
  BY AnchorGiven, TextOps
<1>3. u = <<x>> \/ h = <<x>> \/ s = <<x>>
  BY <1>2 DEF Anchor
<1>4. CorrelationKey(m) = (u \o h) \o s
  BY DEF CorrelationKey
<1> HIDE DEF m, u, h, s, x
<1>5. u \o h \in Seq(Text)
  BY <1>1, ConcatProperties
<1>6. (u \o h) \o s \in Seq(Text)
  BY <1>1, <1>5, ConcatProperties
<1>7. \E i \in DOMAIN ((u \o h) \o s) : ((u \o h) \o s)[i] = x
  <2>1. CASE s = <<x>>
    <3> DEFINE uh == u \o h
    <3>1. uh \in Seq(Text) /\ s \in Seq(Text) /\ (uh = <<x>> \/ s = <<x>>)
      BY <1>1, <1>5, <2>1
    <3> HIDE DEF uh
    <3>2. \E i \in DOMAIN (uh \o s) : (uh \o s)[i] = x
      BY <1>2, <3>1, InConcat
    <3> QED BY <3>2 DEF uh
  <2>2. CASE s # <<x>>
    <3>1. \E i \in DOMAIN (u \o h) : (u \o h)[i] = x
      BY SMTT(20), <1>1, <1>2, <1>3, <2>2, InConcat
    <3> QED BY <1>1, <1>5, <3>1, StaysInConcat
  <2> QED BY <2>1, <2>2
<1>8. x = Lower(Written(m[f]))
  BY DEF x
<1>9. f = "username" => 1 \in DOMAIN ((u \o h) \o s) /\ ((u \o h) \o s)[1] = x
  <2> SUFFICES ASSUME f = "username"
               PROVE  1 \in DOMAIN ((u \o h) \o s) /\ ((u \o h) \o s)[1] = x
    OBVIOUS
  <2>1. u = <<x>> /\ Len(u) = 1 /\ u[1] = x
    BY <1>2 DEF u
  <2>2. Len(h) \in Nat /\ Len(s) \in Nat
    BY <1>1, LenProperties
  <2>3. Len(u \o h) = 1 + Len(h) /\ (u \o h)[1] = x
    BY <1>1, <2>1, <2>2, ConcatProperties
  <2>4. 1 \in 1..(Len(u \o h) + Len(s)) /\ 1 <= Len(u \o h)
    BY <2>2, <2>3
  <2> DEFINE uh == u \o h
  <2>5. uh \in Seq(Text) /\ uh[1] = x /\ 1 \in 1..(Len(uh) + Len(s)) /\ 1 <= Len(uh)
    BY <1>5, <2>3, <2>4
  <2> HIDE DEF uh
  <2>6. DOMAIN (uh \o s) = 1..(Len(uh) + Len(s)) /\ (uh \o s)[1] = uh[1]
    <3>1. /\ uh \o s \in Seq(Text) /\ Len(uh \o s) = Len(uh) + Len(s)
          /\ \A i \in 1..(Len(uh) + Len(s)) :
                (uh \o s)[i] = IF i <= Len(uh) THEN uh[i] ELSE s[i - Len(uh)]
      BY <1>1, <2>5, ConcatProperties
    <3>2. DOMAIN (uh \o s) = 1..Len(uh \o s)
      BY <3>1, LenProperties
    <3> QED BY <2>5, <3>1, <3>2
  <2> QED BY <2>5, <2>6 DEF uh
<1>10. \E i \in DOMAIN ((u \o h) \o s) : ((u \o h) \o s)[i] = x /\ (f = "username" => i = 1)
  BY <1>7, <1>9
<1> QED BY <1>4, <1>6, <1>8, <1>10 DEF m

\* What AnchorsInKey says of the event of one payload.
LEMMA NormalizedAnchors ==
    ASSUME NEW p \in Payload, ~Truthy(p["correlation_key"]), NEW f \in Anchor,
           Normalized(p, Now)[f] # Absent, Mapped(p)[f] # [number |-> 0],
           f = "username" \/ KeyLength(Trimmed(CorrelationKey(Mapped(p)))) <= Width["correlation_key"]
    PROVE  /\ Normalized(p, Now)["correlation_key"] # Absent
           /\ \E i \in DOMAIN Normalized(p, Now)["correlation_key"] :
                Strip(Normalized(p, Now)["correlation_key"][i]) = Strip(Lower(Normalized(p, Now)[f]))
<1> DEFINE key == CorrelationKey(Mapped(p))
           W == Written(Mapped(p)[f])
           x == Lower(W)
           c == Normalized(p, Now)[f]
           w == Width["correlation_key"]
<1>1. Normalized(p, Now)["correlation_key"] = KeyText(key)
  BY NormalizedColumns, KeyBuilt
<1>2. /\ W \in Text /\ ~Blank(W)
      /\ c = IF f = "source_ip" THEN Strip(W) ELSE Cut(Strip(W), Width[f])
  BY AnchorGiven
<1>3. /\ key \in Seq(Text)
      /\ \E i \in DOMAIN key : key[i] = x /\ (f = "username" => i = 1)
  BY AnchorInKey
<1>4. f # "source_ip" => Width[f] = w
  BY WidthsKnown DEF Anchor
<1>5. w \in Nat
  BY WidthsKnown DEF Fitted
<1>6. f = "username" \/ KeyLength(Trimmed(key)) <= w
  OBVIOUS
<1> HIDE DEF key, W, c, w
<1>7. PICK i \in DOMAIN key : key[i] = x /\ (f = "username" => i = 1)
  BY <1>3
<1>8. /\ Strip(W) \in Text /\ Lower(Strip(W)) = Strip(x) /\ x \in Text /\ Strip(x) \in Text
      /\ W.word = x.word /\ Strip(W).word = W.word /\ Strip(x).word = W.word
      /\ Length(Strip(W)) = Size[W.word] /\ Size[W.word] \in Nat
  <2>1. Lower(Strip(W)) = T(W.word) /\ Strip(x) = T(W.word)
    BY <1>2, TextOps
  <2>2. x \in Text /\ x.word = W.word /\ Strip(W) \in Text /\ Strip(W).word = W.word
    BY <1>2, TextOps
  <2>3. Strip(x) \in Text /\ Strip(x).word = W.word
    BY <2>2, TextOps
  <2> QED BY <1>2, <2>1, <2>2, <2>3, LengthTyped
<1>9. \A t : Strip(Strip(t)) = Strip(t)
  BY DEF Strip
<1>10. \A t \in {x, Strip(x)} : /\ t \in Text /\ t.word = W.word /\ Strip(t) = Strip(x)
                                /\ Size[W.word] <= Length(t)
  BY <1>8, <1>9, LengthTyped
<1>11. Size[W.word] <= w => Strip(Lower(c)) = Strip(x)
  <2> SUFFICES ASSUME Size[W.word] <= w PROVE Strip(Lower(c)) = Strip(x)
    OBVIOUS
  <2>1. Cut(Strip(W), w) = Strip(W)
    BY <1>5, <1>8, CutTyped
  <2>2. c = Strip(W)
    BY <1>2, <1>4, <2>1
  <2> QED BY <1>8, <1>9, <2>2
<1>12. /\ KeyText(key) # Absent
       /\ i = 1 => \E j \in DOMAIN KeyText(key), t \in {x, Strip(x)} :
                      KeyText(key)[j] = Cut(t, w)
       /\ KeyLength(Trimmed(key)) <= w =>
             \E j \in DOMAIN KeyText(key), t \in {x, Strip(x)} :
                 KeyText(key)[j] = t /\ Length(t) <= w
  <2>1. key \in Seq(Text) /\ i \in DOMAIN key
    BY <1>3, <1>7
  <2>2. ~Blank(x)
    BY <1>2, <1>8, BlankWord
  <2>3. key[i] = x
    BY <1>7
  <2> HIDE DEF x
  <2> QED BY <2>1, <2>2, <2>3, KeyTextHolds DEF w
<1>13. CASE KeyLength(Trimmed(key)) <= w
  <2>1. PICK j \in DOMAIN KeyText(key), t \in {x, Strip(x)} :
            KeyText(key)[j] = t /\ Length(t) <= w
    BY <1>12, <1>13
  <2>2. Size[W.word] <= w
    <3>1. Size[W.word] <= Length(t) /\ Length(t) \in Nat
      BY <1>10, LengthTyped
    <3> QED BY <1>5, <1>8, <2>1, <3>1
  <2>3. Strip(KeyText(key)[j]) = Strip(x)
    BY <1>10, <2>1
  <2> QED BY <1>1, <1>11, <1>12, <2>1, <2>2, <2>3 DEF c
<1>14. CASE f = "username"
  <2>1. PICK j \in DOMAIN KeyText(key), t \in {x, Strip(x)} : KeyText(key)[j] = Cut(t, w)
    BY <1>7, <1>12, <1>14
  <2>2. Strip(Cut(t, w)) = Strip(Lower(c))
    <3>1. CASE Size[W.word] <= w
      <4>1. Cut(t, w) \in {t, Strip(t)}
        BY <1>5, <1>10, <3>1, CutTyped
      <4>2. Strip(Cut(t, w)) = Strip(x)
        BY <1>9, <1>10, <4>1
      <4> QED BY <1>11, <3>1, <4>2
    <3>2. CASE Size[W.word] > w
      <4>1. Cut(t, w) = Opening(Strip(x), w)
        BY <1>5, <1>10, <3>2, CutTyped
      <4>2. c = Opening(Strip(W), w)
        <5>1. Cut(Strip(W), w) = Opening(Strip(Strip(W)), w)
          BY <1>5, <1>8, <3>2, CutTyped
        <5>2. c = Cut(Strip(W), w)
          BY <1>2, <1>4, <1>14
        <5> QED BY <1>9, <5>1, <5>2
      <4>3. Opening(Lower(Strip(W)), w) = Lower(Opening(Strip(W), w))
        <5>1. w \in 0..(Size[Strip(W).word] - 1)
          BY <1>5, <1>8, <3>2
        <5> QED BY <1>8, <5>1, TextsCut
      <4> QED BY <1>8, <4>1, <4>2, <4>3
    <3> QED BY <1>5, <1>8, <3>1, <3>2
  <2> QED BY <1>1, <1>12, <2>1, <2>2 DEF c
<1> QED BY <1>6, <1>13, <1>14

----------------------------------------------------------------------------
(* The steps.                                                              *)

Triggers(i) == Outcome(rules[i]) = "ok" /\ Matches(rules[i], event)

\* The event is the payload's.
EventMade ==
    \/ event = Absent /\ stage \in {"received", "failed"} /\ next = 1
    \/ /\ event = Normalized(payload, Now) /\ ~Overflows(event)
       /\ ~Raises(Derived(Mapped(payload), payload))
       /\ stage # "received"

\* The rules that triggered are those evaluated that match, in their order.
InOrder ==
    /\ triggered \in Seq(Nat)
    /\ \A k \in 1..Len(triggered) : triggered[k] \in 1..(next - 1)
    /\ \A j, k \in 1..Len(triggered) : j < k => triggered[j] < triggered[k]

Evaluated ==
    \A i \in 1..(next - 1) :
        /\ Outcome(rules[i]) # "raised"
        /\ (\E k \in 1..Len(triggered) : triggered[k] = i) <=> Triggers(i)

Decided ==
    IF stage = "decided" THEN next = Len(rules) + 1 /\ decision = DecisionOf(rules, triggered, event)
    ELSE decision = NoDecision

Inputs == payload \in Payload /\ rules \in Seq(Rules)
Stages == stage \in {"received", "rules", "decided", "failed"} /\ next \in 1..(Len(rules) + 1)

DetectionInv == Inputs /\ Stages /\ EventMade /\ InOrder /\ Evaluated /\ Decided

LEMMA DetectionInvInit == Init => DetectionInv
<1> SUFFICES ASSUME Init PROVE DetectionInv
  OBVIOUS
<1>1. Inputs
  <2>1. PICK c \in Cases : payload = c[1] /\ rules = c[2]
    BY DEF Init
  <2>2. c \in Payload \X Seq(Rules)
    BY <2>1, CasesTyped
  <2> QED BY <2>1, <2>2 DEF Inputs
<1>2. next = 1 /\ triggered = <<>> /\ stage = "received" /\ event = Absent /\ decision = NoDecision
  BY DEF Init
<1>3. Stages
  <2>1. Len(rules) \in Nat
    BY <1>1, LenProperties DEF Inputs
  <2> QED BY <1>2, <2>1 DEF Stages
<1>4. InOrder
  <2>1. Len(triggered) = 0 /\ triggered \in Seq(Nat)
    BY <1>2
  <2> QED BY <2>1 DEF InOrder
<1> QED BY <1>1, <1>2, <1>3, <1>4 DEF DetectionInv, EventMade, Evaluated, Decided

LEMMA DetectionInvStep == DetectionInv /\ [Next]_vars => DetectionInv'
<1> SUFFICES ASSUME DetectionInv, [Next]_vars PROVE DetectionInv'
  OBVIOUS
<1>0. Len(rules) \in Nat /\ next \in Nat /\ next \in 1..(Len(rules) + 1)
  BY LenProperties DEF DetectionInv, Inputs, Stages
<1>1. CASE Normalize
  <2>1. UNCHANGED <<payload, rules, next, triggered, decision>> /\ stage = "received"
    BY <1>1 DEF Normalize
  <2>2. event = Absent /\ next = 1
    BY <2>1 DEF DetectionInv, EventMade
  <2>3. Inputs' /\ Stages' /\ InOrder'
    BY <1>1, <2>1 DEF DetectionInv, Inputs, Stages, InOrder, Normalize
  <2>4. EventMade'
    BY <1>1, <2>2 DEF Normalize, EventMade
  <2>5. Evaluated'
    BY <2>1, <2>2 DEF Evaluated
  <2>6. Decided'
    BY <1>1, <2>1 DEF DetectionInv, Decided, Normalize
  <2> QED BY <2>3, <2>4, <2>5, <2>6 DEF DetectionInv
<1>2. CASE EvaluateRule
  <2>0. UNCHANGED <<payload, rules, event, decision>> /\ stage = "rules" /\ next \in 1..Len(rules)
    BY <1>0, <1>2 DEF EvaluateRule
  <2>1. CASE Outcome(rules[next]) = "raised"
    <3>1. stage' = "failed" /\ UNCHANGED <<next, triggered>>
      BY <1>2, <2>1 DEF EvaluateRule
    <3>2. Inputs' /\ Stages' /\ InOrder'
      BY <2>0, <3>1 DEF DetectionInv, Inputs, Stages, InOrder
    <3>3. EventMade' /\ Decided'
      BY <2>0, <3>1 DEF DetectionInv, EventMade, Decided
    <3>4. Evaluated'
      BY <2>0, <3>1 DEF DetectionInv, Evaluated, Triggers
    <3> QED BY <3>2, <3>3, <3>4 DEF DetectionInv
  <2>2. CASE Outcome(rules[next]) # "raised"
    <3>1. /\ next' = next + 1 /\ UNCHANGED stage
          /\ triggered' = IF Triggers(next) THEN Append(triggered, next) ELSE triggered
      BY <1>2, <2>2 DEF EvaluateRule, Triggers
    <3>2. Inputs' /\ Stages' /\ EventMade' /\ Decided'
      BY <1>0, <2>0, <3>1 DEF DetectionInv, Inputs, Stages, EventMade, Decided
    <3>3. /\ triggered \in Seq(Nat) /\ Len(triggered) \in Nat
          /\ \A k \in 1..Len(triggered) : triggered[k] \in 1..(next - 1)
          /\ \A j, k \in 1..Len(triggered) : j < k => triggered[j] < triggered[k]
      BY LenProperties DEF DetectionInv, InOrder
    <3>4. /\ \A i \in 1..(next - 1) : Outcome(rules[i]) # "raised"
          /\ \A i \in 1..(next - 1) :
               (\E k \in 1..Len(triggered) : triggered[k] = i) <=> Triggers(i)
      BY DEF DetectionInv, Evaluated
    <3>5. \A i : Triggers(i)' <=> Triggers(i)
      BY <2>0 DEF Triggers
    <3>6. (next + 1) - 1 = next /\ \A i \in 1..next : i \in 1..(next - 1) \/ i = next
      BY <1>0
    <3>7. CASE Triggers(next)
      <4>1. /\ triggered' \in Seq(Nat) /\ Len(triggered') = Len(triggered) + 1
            /\ \A k \in 1..Len(triggered) : triggered'[k] = triggered[k]
            /\ triggered'[Len(triggered) + 1] = next
        BY <1>0, <3>1, <3>3, <3>7, AppendProperties
      <4>2. \A k \in 1..(Len(triggered) + 1) : k \in 1..Len(triggered) \/ k = Len(triggered) + 1
        BY <3>3
      <4>3. InOrder'
        <5>1. \A k \in 1..Len(triggered') : triggered'[k] \in 1..(next' - 1)
          BY <1>0, <3>1, <3>3, <3>6, <4>1, <4>2
        <5>2. ASSUME NEW j \in 1..Len(triggered'), NEW k \in 1..Len(triggered'), j < k
              PROVE  triggered'[j] < triggered'[k]
          <6>1. j \in 1..Len(triggered)
            BY <3>3, <4>1, <5>2
          <6>2. CASE k \in 1..Len(triggered)
            BY <3>3, <4>1, <5>2, <6>1, <6>2
          <6>3. CASE k = Len(triggered) + 1
            <7>1. triggered[j] \in 1..(next - 1) /\ triggered'[j] = triggered[j]
              BY <3>3, <4>1, <6>1
            <7> QED BY <1>0, <4>1, <6>3, <7>1
          <6> QED BY <4>1, <4>2, <6>2, <6>3
        <5> QED BY <4>1, <5>1, <5>2 DEF InOrder
      <4>4. Evaluated'
        <5> SUFFICES ASSUME NEW i \in 1..next
                     PROVE  /\ Outcome(rules[i]) # "raised"
                            /\ (\E k \in 1..Len(triggered') : triggered'[k] = i) <=> Triggers(i)
          BY <2>0, <3>1, <3>5, <3>6 DEF Evaluated
        <5>1. CASE i = next
          <6>1. Len(triggered) + 1 \in 1..Len(triggered')
            BY <3>3, <4>1
          <6> QED BY <2>2, <3>7, <4>1, <5>1, <6>1
        <5>2. CASE i \in 1..(next - 1)
          <6>1. i # next
            BY <1>0, <5>2
          <6>2. (\E k \in 1..Len(triggered') : triggered'[k] = i)
                  <=> (\E k \in 1..Len(triggered) : triggered[k] = i)
            <7>1. \A k \in 1..Len(triggered) : k \in 1..Len(triggered')
              BY <3>3, <4>1
            <7> QED BY <4>1, <4>2, <6>1, <7>1
          <6> QED BY <3>4, <5>2, <6>2
        <5> QED BY <3>6, <5>1, <5>2
      <4> QED BY <3>2, <4>3, <4>4 DEF DetectionInv
    <3>8. CASE ~Triggers(next)
      <4>1. triggered' = triggered
        BY <3>1, <3>8
      <4>2. InOrder'
        BY <1>0, <3>1, <3>3, <4>1 DEF InOrder
      <4>3. Evaluated'
        <5> SUFFICES ASSUME NEW i \in 1..next
                     PROVE  /\ Outcome(rules[i]) # "raised"
                            /\ (\E k \in 1..Len(triggered) : triggered[k] = i) <=> Triggers(i)
          BY <2>0, <3>1, <3>5, <3>6, <4>1 DEF Evaluated
        <5>1. CASE i = next
          <6>1. ~ \E k \in 1..Len(triggered) : triggered[k] = next
            <7>1. \A n \in 1..(next - 1) : n # next
              BY <1>0
            <7> QED BY <3>3, <7>1
          <6> QED BY <2>2, <3>8, <5>1, <6>1
        <5>2. CASE i \in 1..(next - 1)
          BY <3>4, <5>2
        <5> QED BY <3>6, <5>1, <5>2
      <4> QED BY <3>2, <4>2, <4>3 DEF DetectionInv
    <3> QED BY <3>7, <3>8
  <2> QED BY <2>1, <2>2
<1>3. CASE Decide
  <2>1. /\ UNCHANGED <<payload, rules, event, next, triggered>> /\ stage = "rules"
        /\ stage' = "decided" /\ next = Len(rules) + 1
        /\ decision' = DecisionOf(rules, triggered, event)
    BY <1>0, <1>3 DEF Decide
  <2>2. Inputs' /\ Stages' /\ InOrder' /\ EventMade'
    BY <2>1 DEF DetectionInv, Inputs, Stages, InOrder, EventMade
  <2>3. Evaluated'
    BY <2>1 DEF DetectionInv, Evaluated, Triggers
  <2>4. Decided'
    BY <2>1 DEF Decided
  <2> QED BY <2>2, <2>3, <2>4 DEF DetectionInv
<1>4. CASE UNCHANGED vars
  <2>1. UNCHANGED <<payload, rules, stage, event, next, triggered, decision>>
    BY <1>4 DEF vars
  <2>2. Inputs' /\ Stages' /\ InOrder' /\ EventMade'
    BY <2>1 DEF DetectionInv, Inputs, Stages, InOrder, EventMade
  <2>3. Evaluated'
    BY <2>1 DEF DetectionInv, Evaluated, Triggers
  <2>4. Decided'
    BY <2>1 DEF DetectionInv, Decided
  <2> QED BY <2>2, <2>3, <2>4 DEF DetectionInv
<1> QED BY <1>1, <1>2, <1>3, <1>4 DEF Next

LEMMA Invariant == Spec => []DetectionInv
  BY DetectionInvInit, DetectionInvStep, PTL DEF Spec

----------------------------------------------------------------------------
(* Types and keys.                                                         *)

\* TypeOK in every reachable state: rules are evaluated in order, and columns
\* hold only what their coercion admits, whatever the payload is.
THEOREM TypesKept == Spec => []TypeOK
<1>1. DetectionInv => TypeOK
  <2> SUFFICES ASSUME DetectionInv PROVE TypeOK
    OBVIOUS
  <2>1. stage \in {"received", "rules", "decided", "failed"} /\ next \in 1..(Len(rules) + 1)
    BY DEF DetectionInv, Stages
  <2>2. /\ DOMAIN triggered = 1..Len(triggered) /\ Len(triggered) \in Nat
        /\ \A k \in 1..Len(triggered) : triggered[k] \in 1..(next - 1)
        /\ \A j, k \in 1..Len(triggered) : j < k => triggered[j] < triggered[k]
    BY LenProperties DEF DetectionInv, InOrder
  <2>3. \A i \in DOMAIN triggered : /\ triggered[i] \in 1..(next - 1)
                                    /\ i > 1 => triggered[i - 1] < triggered[i]
    BY <2>2
  <2>4. event = Absent \/ EventTyped(event)
    BY NormalizedTyped DEF DetectionInv, Inputs, EventMade
  <2> QED BY <2>1, <2>3, <2>4 DEF TypeOK, EventTyped
<1> QED BY <1>1, Invariant, PTL

\* AnchorsInKey: the identity anchors that are stored with the event are part of
\* the key alerts and incidents are found by, the username always, the others
\* when all fit, whatever words there are and whatever the widths.
THEOREM AnchorsStayInKey == Spec => []AnchorsInKey
<1>1. DetectionInv => AnchorsInKey
  <2> SUFFICES ASSUME DetectionInv, event # Absent, ~Truthy(payload["correlation_key"]),
                      NEW f \in Anchor, event[f] # Absent, Mapped(payload)[f] # [number |-> 0],
                      f = "username" \/ KeyLength(Trimmed(CorrelationKey(Mapped(payload))))
                                          <= Width["correlation_key"]
               PROVE  /\ event["correlation_key"] # Absent
                      /\ \E i \in DOMAIN event["correlation_key"] :
                            Strip(event["correlation_key"][i]) = Strip(Lower(event[f]))
    BY DEF AnchorsInKey, Anchor
  <2>1. payload \in Payload /\ event = Normalized(payload, Now)
    BY DEF DetectionInv, Inputs, EventMade
  <2> QED BY <2>1, NormalizedAnchors
<1> QED BY <1>1, Invariant, PTL

----------------------------------------------------------------------------
(* The decision.                                                           *)

\* RefusedRuleIsInert: the decision is made of the rules that compile and match,
\* in their order, and of no other.
THEOREM RefusedRulesAreInert == Spec => []RefusedRuleIsInert
<1>1. DetectionInv => RefusedRuleIsInert
  <2> DEFINE matching == {i \in DOMAIN rules : Outcome(rules[i]) = "ok" /\ Matches(rules[i], event)}
  <2> SUFFICES ASSUME DetectionInv, stage = "decided"
               PROVE  \E ids \in [1..Cardinality(matching) -> matching] :
                        /\ \A i, j \in DOMAIN ids : i < j => ids[i] < ids[j]
                        /\ decision = DecisionOf(rules, ids, event)
    BY DEF RefusedRuleIsInert
  <2>1. /\ next = Len(rules) + 1 /\ decision = DecisionOf(rules, triggered, event)
        /\ Len(rules) \in Nat /\ DOMAIN rules = 1..Len(rules)
    BY LenProperties DEF DetectionInv, Decided, Inputs
  <2>2. /\ triggered \in Seq(Nat) /\ Len(triggered) \in Nat /\ DOMAIN triggered = 1..Len(triggered)
        /\ \A k \in 1..Len(triggered) : triggered[k] \in 1..(next - 1)
        /\ \A j, k \in 1..Len(triggered) : j < k => triggered[j] < triggered[k]
    BY LenProperties DEF DetectionInv, InOrder
  <2>3. matching = {i \in 1..(next - 1) : Triggers(i)}
    BY <2>1 DEF Triggers
  <2>4. \A i \in 1..(next - 1) : (\E k \in 1..Len(triggered) : triggered[k] = i) <=> Triggers(i)
    BY DEF DetectionInv, Evaluated
  <2> HIDE DEF matching
  <2>5. \A k \in 1..Len(triggered) : triggered[k] \in matching
    BY <2>2, <2>3, <2>4
  <2>6. \A i \in matching : \E k \in 1..Len(triggered) : triggered[k] = i
    BY <2>3, <2>4
  <2>7. triggered \in [1..Len(triggered) -> matching]
    BY <2>2, <2>5
  <2>8. Cardinality(matching) = Len(triggered)
    <3>1. \A j, k \in 1..Len(triggered) : triggered[j] = triggered[k] => j = k
      BY <2>2
    <3>2. triggered \in Bijection(1..Len(triggered), matching)
      BY <2>6, <2>7, <3>1, Fun_IsBij
    <3>3. ExistsBijection(1..Len(triggered), matching)
      BY <3>2, Fun_ExistsBij
    <3>4. IsFiniteSet(1..Len(triggered)) /\ Cardinality(1..Len(triggered)) = Len(triggered)
      BY <2>2, FS_Interval
    <3> QED BY <3>3, <3>4, FS_Bijection
  <2> QED BY <2>1, <2>2, <2>7, <2>8
<1> QED BY <1>1, Invariant, PTL

----------------------------------------------------------------------------
(* The severity and the risk of an alert.                                  *)

LEMMA RankTyped ==
    ASSUME NEW s \in Severities PROVE Rank(s) \in 1..5
<1>1. DOMAIN SeverityOrder = 1..5
  BY DEF SeverityOrder
<1>2. \E i \in 1..5 : SeverityOrder[i] = s
  BY DEF SeverityOrder, Severities
<1> QED BY <1>1, <1>2 DEF Rank

LEMMA WorstIsWorst ==
    ASSUME NEW table, NEW ids, NEW k \in DOMAIN ids,
           \A i \in DOMAIN ids : table[ids[i]].severity \in Severities
    PROVE  /\ WorstSeverity(table, ids) \in Severities
           /\ Rank(WorstSeverity(table, ids)) >= Rank(table[ids[k]].severity)
<1> DEFINE of == {table[ids[i]].severity : i \in DOMAIN ids}
           ranks == {Rank(s) : s \in of}
<1>1. table[ids[k]].severity \in of /\ of \subseteq Severities
  OBVIOUS
<1>2. WorstSeverity(table, ids) = CHOOSE s \in of : \A t \in of : Rank(t) <= Rank(s)
  BY DEF WorstSeverity
<1> HIDE DEF of
<1>3. ranks \subseteq 0..5 /\ ranks # {}
  <2>1. \A s \in of : Rank(s) \in 0..5
    BY <1>1, RankTyped
  <2> QED BY <1>1, <2>1
<1>4. \E s \in of : \A t \in of : Rank(t) <= Rank(s)
  <2> HIDE DEF ranks
  <2>1. PICK m \in ranks : \A r \in ranks : r <= m
    BY <1>3, GreatestElement
  <2> QED BY <2>1 DEF ranks
<1>5. /\ WorstSeverity(table, ids) \in of
      /\ \A t \in of : Rank(t) <= Rank(WorstSeverity(table, ids))
  BY <1>2, <1>4
<1>6. /\ Rank(WorstSeverity(table, ids)) \in Int /\ Rank(table[ids[k]].severity) \in Int
      /\ Rank(table[ids[k]].severity) <= Rank(WorstSeverity(table, ids))
  BY <1>1, <1>5, RankTyped
<1> QED BY <1>1, <1>5, <1>6

\* The weight of a sequence of tactics.
Weights(s) == [i \in DOMAIN s |-> TacticWeight(s[i])]
Weight(s) == SumTo(Weights(s), Len(s))

LEMMA WeightsTyped ==
    ASSUME NEW S, NEW s \in Seq(S) PROVE Weights(s) \in [1..Len(s) -> Nat] /\ Len(s) \in Nat
<1>1. \A t : TacticWeight(t) \in Nat
  BY DEF TacticWeight
<1>2. DOMAIN s = 1..Len(s) /\ Len(s) \in Nat
  BY LenProperties
<1> QED BY <1>1, <1>2 DEF Weights

LEMMA SumConcat ==
    ASSUME NEW n \in Nat, NEW m \in Nat, NEW f \in [1..n -> Int], NEW g \in [1..m -> Int],
           NEW h \in [1..(n + m) -> Int],
           \A i \in 1..n : h[i] = f[i], \A i \in 1..m : h[n + i] = g[i]
    PROVE  SumTo(h, n + m) = SumTo(f, n) + SumTo(g, m)
<1> DEFINE sf == PartialSums(f, n)
           sg == PartialSums(g, m)
           sh == PartialSums(h, n + m)
           Good == {i \in 0..n : sh[i] = sf[i]}
           U == {i \in 0..m : sh[n + i] = sf[n] + sg[i]}
<1>1. IsSums(sf, f, n) /\ IsSums(sg, g, m) /\ IsSums(sh, h, n + m)
  <2>1. n + m \in Nat
    OBVIOUS
  <2> QED BY <2>1, SumsExist
<1>2. SumTo(h, n + m) = sh[n + m] /\ SumTo(f, n) = sf[n] /\ SumTo(g, m) = sg[m]
  BY DEF SumTo
<1> HIDE DEF sf, sg, sh
<1>3. \A i \in 0..n : i \in Good
  <2>1. 0 \in Good
    BY <1>1 DEF IsSums
  <2>2. ASSUME NEW i \in 1..n, i - 1 \in Good PROVE i \in Good
    <3>1. i \in 1..(n + m) /\ i \in 0..n
      OBVIOUS
    <3>2. sh[i] = sh[i - 1] + h[i] /\ sf[i] = sf[i - 1] + f[i]
      BY <1>1, <3>1 DEF IsSums
    <3> QED BY <2>2, <3>1, <3>2
  <2> HIDE DEF Good
  <2> QED BY <2>1, <2>2, RangeInduction
<1>4. \A i \in 0..m : i \in U
  <2>1. 0 \in U
    <3>1. sh[n] = sf[n] /\ sf[n] \in Int
      BY <1>1, <1>3 DEF IsSums
    <3> QED BY <1>1, <3>1 DEF IsSums
  <2>2. ASSUME NEW i \in 1..m, i - 1 \in U PROVE i \in U
    <3>1. n + i \in 1..(n + m) /\ i \in 0..m /\ i - 1 \in 0..m /\ n + (i - 1) = (n + i) - 1
      OBVIOUS
    <3>2. sh[n + i] = sh[(n + i) - 1] + h[n + i] /\ sg[i] = sg[i - 1] + g[i]
      BY <1>1, <3>1 DEF IsSums
    <3>3. sh[(n + i) - 1] = sf[n] + sg[i - 1]
      BY <2>2, <3>1
    <3>4. sf[n] \in Int /\ sg[i - 1] \in Int
      BY <1>1, <3>1 DEF IsSums
    <3>5. g[i] \in Int /\ h[n + i] = g[i]
      OBVIOUS
    <3> QED BY <3>1, <3>2, <3>3, <3>4, <3>5
  <2> HIDE DEF U
  <2> QED BY <2>1, <2>2, RangeInduction
<1> QED BY <1>2, <1>4

LEMMA WeightConcat ==
    ASSUME NEW S, NEW s \in Seq(S), NEW t \in Seq(S)
    PROVE  /\ Weight(s \o t) = Weight(s) + Weight(t)
           /\ Weight(s) \in Nat /\ Weight(t) \in Nat
<1>1. /\ s \o t \in Seq(S) /\ Len(s \o t) = Len(s) + Len(t)
      /\ \A i \in 1..(Len(s) + Len(t)) : (s \o t)[i] = IF i <= Len(s) THEN s[i] ELSE t[i - Len(s)]
  BY ConcatProperties
<1>2. /\ Len(s) \in Nat /\ Len(t) \in Nat /\ DOMAIN s = 1..Len(s) /\ DOMAIN t = 1..Len(t)
      /\ DOMAIN (s \o t) = 1..(Len(s) + Len(t))
  BY <1>1, LenProperties
<1>3. /\ Weights(s) \in [1..Len(s) -> Nat] /\ Weights(t) \in [1..Len(t) -> Nat]
      /\ Weights(s \o t) \in [1..(Len(s) + Len(t)) -> Nat]
  BY <1>1, WeightsTyped
<1>4. \A i \in 1..Len(s) : Weights(s \o t)[i] = Weights(s)[i]
  BY <1>1, <1>2 DEF Weights
<1>5. ASSUME NEW i \in 1..Len(t) PROVE Weights(s \o t)[Len(s) + i] = Weights(t)[i]
  <2>1. /\ Len(s) + i \in 1..(Len(s) + Len(t)) /\ ~(Len(s) + i <= Len(s))
        /\ (Len(s) + i) - Len(s) = i
    BY <1>2
  <2>2. (s \o t)[Len(s) + i] = t[i]
    BY <1>1, <2>1
  <2> QED BY <1>2, <2>1, <2>2 DEF Weights
<1> DEFINE n == Len(s)
           m == Len(t)
           f == Weights(s)
           g == Weights(t)
           h == Weights(s \o t)
<1>6. /\ n \in Nat /\ m \in Nat /\ f \in [1..n -> Int] /\ g \in [1..m -> Int]
      /\ h \in [1..(n + m) -> Int]
      /\ \A i \in 1..n : h[i] = f[i]
      /\ \A i \in 1..m : h[n + i] = g[i]
  <2>1. h \in [1..(n + m) -> Int] /\ f \in [1..n -> Int] /\ g \in [1..m -> Int]
    BY <1>2, <1>3
  <2> QED BY <1>2, <1>4, <1>5, <2>1
<1>7. Weight(s \o t) = SumTo(h, n + m) /\ Weight(s) = SumTo(f, n) /\ Weight(t) = SumTo(g, m)
  BY <1>1 DEF Weight
<1>8. f \in [1..n -> Nat] /\ g \in [1..m -> Nat]
  BY <1>3
<1> HIDE DEF n, m, f, g, h
<1>9. SumTo(h, n + m) = SumTo(f, n) + SumTo(g, m)
  BY <1>6, SumConcat
<1>10. SumTo(f, n) \in Nat /\ SumTo(g, m) \in Nat
  BY <1>6, <1>8, SumsNatural
<1> QED BY <1>7, <1>9, <1>10

\* What FlattenSeq makes of a sequence of sequences.
Joined(g, q, S) ==
    /\ g \in [0..Len(q) -> Seq(S)] /\ g[0] = <<>>
    /\ \A i \in 1..Len(q) : g[i] = IF i = 1 THEN q[i] ELSE g[i - 1] \o q[i]

LEMMA JoinedExists ==
    ASSUME NEW S, NEW q \in Seq(Seq(S)) PROVE \E g : Joined(g, q, S)
<1> DEFINE n == Len(q)
           R == Seq(S)
           f == [x \in (1..n) \X R |-> IF x[1] = 1 THEN q[x[1]] ELSE x[2] \o q[x[1]]]
<1>1. n \in Nat /\ <<>> \in R /\ \A i \in 1..n : q[i] \in R
  <2>1. <<>> \in R
    OBVIOUS
  <2> QED BY <2>1, LenProperties, ElementOfSeq
<1>2. \A a, b \in R : a \o b \in R
  BY ConcatProperties
<1> HIDE DEF n, R
<1>3. f \in [(1..n) \X R -> R]
  BY <1>1, <1>2
<1>4. \A i \in 1..n, r \in R : f[<<i, r>>] = IF i = 1 THEN q[i] ELSE r \o q[i]
  OBVIOUS
<1> HIDE DEF f
<1>5. PICK g \in [0..n -> R] : Runs(g, <<>>, f, n)
  <2>1. Loop(<<>>, f, n, R)
    BY <1>1, <1>3 DEF Loop
  <2> QED BY <2>1, LoopExists
<1>6. g[0] = <<>> /\ \A i \in 1..n : g[i] = f[<<i, g[i - 1]>>]
  BY <1>5 DEF Runs
<1>7. ASSUME NEW i \in 1..n PROVE g[i] = IF i = 1 THEN q[i] ELSE g[i - 1] \o q[i]
  <2>1. i - 1 \in 0..n
    BY <1>1
  <2>2. g[i - 1] \in R
    BY <1>5, <2>1
  <2> QED BY <1>4, <1>6, <2>2
<1> QED BY <1>5, <1>6, <1>7 DEF Joined, n, R

LEMMA FlattenSeqIs ==
    ASSUME NEW S, NEW q \in Seq(Seq(S)), Len(q) # 0
    PROVE  \E g : Joined(g, q, S) /\ FlattenSeq(q) = g[Len(q)]
<1> DEFINE n == Len(q)
           Step(h) == [i \in 1..n |-> IF i = 1 THEN q[i] ELSE h[i - 1] \o q[i]]
           flat == CHOOSE h : h = Step(h)
<1>1. FlattenSeq(q) = flat[n]
  BY DEF FlattenSeq
<1>2. n \in Nat /\ n # 0
  BY LenProperties
<1>3. PICK g : Joined(g, q, S)
  BY JoinedExists
<1>4. g \in [0..n -> Seq(S)] /\ \A i \in 1..n : g[i] = IF i = 1 THEN q[i] ELSE g[i - 1] \o q[i]
  BY <1>3 DEF Joined
<1> HIDE DEF n
<1>5. \E h : h = Step(h)
  <2> DEFINE h == [i \in 1..n |-> g[i]]
  <2>1. ASSUME NEW i \in 1..n PROVE h[i] = IF i = 1 THEN q[i] ELSE h[i - 1] \o q[i]
    <3>1. i # 1 => i - 1 \in 1..n
      BY <1>2
    <3> QED BY <1>4, <3>1
  <2>2. h = [i \in 1..n |-> h[i]]
    OBVIOUS
  <2>3. h = Step(h)
    BY <2>1, <2>2
  <2> QED BY <2>3
<1>6. flat = Step(flat)
  <2> HIDE DEF Step
  <2> QED BY <1>5
<1> HIDE DEF flat
<1>7. \A i \in 1..n : flat[i] = IF i = 1 THEN q[i] ELSE flat[i - 1] \o q[i]
  BY <1>6
<1> DEFINE Good == {i \in 0..n : i \in 1..n => flat[i] = g[i]}
<1>8. \A i \in 0..n : i \in Good
  <2>1. 0 \in Good
    BY <1>2
  <2>2. ASSUME NEW i \in 1..n, i - 1 \in Good PROVE i \in Good
    <3>1. CASE i = 1
      BY <1>4, <1>7, <3>1
    <3>2. CASE i # 1
      <4>1. i - 1 \in 1..n
        BY <1>2, <3>2
      <4> QED BY <1>4, <1>7, <2>2, <3>2, <4>1
    <3> QED BY <3>1, <3>2
  <2> HIDE DEF Good
  <2> QED BY <1>2, <2>1, <2>2, RangeInduction
<1>9. flat[n] = g[n]
  <2>1. n \in 0..n /\ n \in 1..n
    BY <1>2
  <2> QED BY <1>8, <2>1
<1> QED BY <1>1, <1>3, <1>9 DEF n

\* What is joined weighs as much as each of its parts at least.
LEMMA FlattenWeighs ==
    ASSUME NEW S, NEW q \in Seq(Seq(S)), NEW k \in 1..Len(q)
    PROVE  /\ FlattenSeq(q) \in Seq(S) /\ Weight(FlattenSeq(q)) \in Nat
           /\ Weight(q[k]) \in Nat /\ Weight(FlattenSeq(q)) >= Weight(q[k])
<1> DEFINE n == Len(q)
<1>1. n \in Nat /\ k \in 1..n /\ n # 0 /\ \A i \in 1..n : q[i] \in Seq(S)
  BY LenProperties, ElementOfSeq
<1>2. PICK g : Joined(g, q, S) /\ FlattenSeq(q) = g[n]
  BY <1>1, FlattenSeqIs
<1>3. /\ g \in [0..n -> Seq(S)] /\ g[0] = <<>>
      /\ \A i \in 1..n : g[i] = IF i = 1 THEN q[i] ELSE g[i - 1] \o q[i]
  BY <1>2 DEF Joined
<1> HIDE DEF n
<1>4. \A s \in Seq(S) : Weight(s) \in Nat
  BY WeightConcat
<1>5. ASSUME NEW i \in 1..n PROVE Weight(g[i]) >= Weight(q[i]) /\ (i # 1 => Weight(g[i]) >= Weight(g[i - 1]))
  <2>1. q[i] \in Seq(S) /\ Weight(q[i]) \in Nat
    BY <1>1, <1>4
  <2>2. CASE i = 1
    BY <1>3, <2>1, <2>2
  <2>3. CASE i # 1
    <3>1. i - 1 \in 0..n
      BY <1>1
    <3>2. g[i - 1] \in Seq(S) /\ g[i] = g[i - 1] \o q[i]
      BY <1>3, <2>3, <3>1
    <3>3. Weight(g[i]) = Weight(g[i - 1]) + Weight(q[i]) /\ Weight(g[i - 1]) \in Nat
      BY <2>1, <3>2, WeightConcat
    <3> QED BY <2>1, <3>3
  <2> QED BY <2>2, <2>3
<1> DEFINE Good == {i \in 0..n : k <= i => Weight(g[i]) >= Weight(q[k])}
<1>6. \A i \in 0..n : i \in Good
  <2>1. 0 \in Good
    BY <1>1
  <2>2. ASSUME NEW i \in 1..n, i - 1 \in Good PROVE i \in Good
    <3>1. i \in 0..n
      OBVIOUS
    <3>2. CASE k = i
      BY <1>5, <3>1, <3>2
    <3>3. CASE k < i
      <4>1. i # 1 /\ k <= i - 1 /\ i - 1 \in 0..n
        BY <1>1, <3>3
      <4>2. Weight(g[i]) >= Weight(g[i - 1]) /\ Weight(g[i - 1]) >= Weight(q[k])
        BY <1>5, <2>2, <4>1
      <4>3. Weight(g[i]) \in Nat /\ Weight(g[i - 1]) \in Nat /\ Weight(q[k]) \in Nat
        BY <1>1, <1>3, <1>4, <3>1, <4>1
      <4>4. Weight(g[i]) >= Weight(q[k])
        BY <4>2, <4>3
      <4> QED BY <3>1, <4>4
    <3>4. CASE k > i
      BY <1>1, <3>1, <3>4
    <3> QED BY <1>1, <3>1, <3>2, <3>3, <3>4
  <2> HIDE DEF Good
  <2> QED BY <1>1, <2>1, <2>2, RangeInduction
<1>7. n \in 0..n /\ k <= n
  BY <1>1
<1>8. g[n] \in Seq(S) /\ Weight(g[n]) >= Weight(q[k])
  BY <1>3, <1>6, <1>7
<1> QED BY <1>1, <1>2, <1>4, <1>8

LEMMA RiskGrows ==
    ASSUME NEW s \in Severities, NEW t \in Severities, NEW a, NEW b,
           Weight(a) \in Nat, Weight(b) \in Nat, Rank(s) <= Rank(t), Weight(a) <= Weight(b)
    PROVE  RiskScore(s, a) <= RiskScore(t, b)
<1>1. Rank(s) \in Int /\ Rank(t) \in Int
  BY RankTyped
<1>2. /\ RiskScore(s, a) = AtMost(100 * (Rank(s) - 1) + AtMost(Weight(a), 300) + 150, 1000)
      /\ RiskScore(t, b) = AtMost(100 * (Rank(t) - 1) + AtMost(Weight(b), 300) + 150, 1000)
  BY DEF RiskScore, Weight, Weights
<1> QED BY <1>1, <1>2 DEF AtMost

\* NoRuleLowersRisk: each rule that triggers raises the severity and the risk of
\* the alert to what it asks for, or leaves them higher.
THEOREM NoRuleLowersTheRisk == Spec => []NoRuleLowersRisk
<1>1. DetectionInv => NoRuleLowersRisk
  <2> SUFFICES ASSUME DetectionInv, decision.triggers, NEW k \in DOMAIN triggered
               PROVE  /\ Rank(decision.severity) >= Rank(rules[triggered[k]].severity)
                      /\ decision.risk >= RiskScore(rules[triggered[k]].severity,
                                                   rules[triggered[k]].tactics)
    BY DEF NoRuleLowersRisk
  <2> DEFINE q == [i \in DOMAIN triggered |-> rules[triggered[i]].tactics]
             worst == WorstSeverity(rules, triggered)
             mine == rules[triggered[k]].severity
             all == MergedTactics(rules, triggered)
  <2>1. decision = DecisionOf(rules, triggered, event) /\ triggered # <<>>
    BY DEF DetectionInv, Decided, NoDecision, DecisionOf
  <2>2. decision.severity = worst /\ decision.risk = RiskScore(worst, all)
    BY <2>1 DEF DecisionOf
  <2>3. /\ DOMAIN triggered = 1..Len(triggered) /\ Len(triggered) \in Nat
        /\ DOMAIN rules = 1..Len(rules) /\ Len(rules) \in Nat
        /\ \A i \in DOMAIN triggered : triggered[i] \in 1..(next - 1)
        /\ next \in 1..(Len(rules) + 1)
    BY LenProperties DEF DetectionInv, InOrder, Inputs, Stages
  <2>4. \A i \in DOMAIN triggered : rules[triggered[i]] \in Rules
    <3>1. \A i \in DOMAIN triggered : triggered[i] \in 1..Len(rules)
      BY <2>3
    <3>2. rules \in Seq(Rules)
      BY DEF DetectionInv, Inputs
    <3> QED BY <3>1, <3>2, ElementOfSeq
  <2>5. \A r \in Rules : r.severity \in Severities /\ r.tactics \in Seq(STRING)
    BY DEF Rules
  <2>6. worst \in Severities /\ mine \in Severities /\ Rank(worst) >= Rank(mine)
    BY <2>4, <2>5, WorstIsWorst
  <2>7. PICK S : \A i \in 1..Len(triggered) : q[i] \in Seq(S)
    BY <2>3, <2>4, <2>5
  <2>8. all = FlattenSeq(q) /\ q[k] = rules[triggered[k]].tactics
    BY DEF MergedTactics
  <2>9. q \in Seq(Seq(S)) /\ Len(q) = Len(triggered)
    <3>1. DOMAIN q = 1..Len(triggered)
      BY <2>3
    <3>2. q = [i \in 1..Len(triggered) |-> q[i]]
      BY <3>1
    <3> HIDE DEF q
    <3> QED BY <2>3, <2>7, <3>2
  <2> HIDE DEF q, worst, mine, all
  <2>10. Weight(all) \in Nat /\ Weight(q[k]) \in Nat /\ Weight(all) >= Weight(q[k])
    BY <2>3, <2>8, <2>9, FlattenWeighs
  <2>11. RiskScore(worst, all) >= RiskScore(mine, q[k]) /\ Rank(worst) >= Rank(mine)
    <3>1. Rank(worst) \in Int /\ Rank(mine) \in Int
      BY <2>6, RankTyped
    <3>2. Rank(mine) <= Rank(worst) /\ Weight(q[k]) <= Weight(all)
      BY <2>6, <2>10, <3>1
    <3>3. RiskScore(mine, q[k]) <= RiskScore(worst, all)
      BY <2>6, <2>10, <3>2, RiskGrows
    <3> QED BY <2>6, <3>3
  <2> QED BY <2>2, <2>8, <2>11 DEF mine
<1> QED BY <1>1, Invariant, PTL
----------------------------------------------------------------------------
(* The parser.                                                             *)

IsReading(r, tokens, known) ==
    \A pos \in 1..(Len(tokens) + 1) : r[pos] = ReadFrom(tokens, known, r, pos)

LEMMA ReadEnds ==
    ASSUME NEW tokens, Len(tokens) \in Nat, NEW known, NEW r
    PROVE  ReadFrom(tokens, known, r, Len(tokens) + 1)
             = [ok |-> TRUE, names |-> {}, pos |-> Len(tokens) + 1]
<1>1. Len(tokens) + 1 > Len(tokens) /\ ~(Len(tokens) + 1 <= Len(tokens))
  OBVIOUS
<1> QED BY <1>1 DEF ReadFrom, Reserved

\* What a token makes of what follows it.
LEMMA ReadOpens ==
    ASSUME NEW tokens, Len(tokens) \in Nat, NEW known, NEW r, NEW pos \in 1..Len(tokens),
           tokens[pos] \in {"(", "not"}
    PROVE  ReadFrom(tokens, known, r, pos) =
             IF r[pos + 1].ok /\ r[pos + 1].names # {}
             THEN Join(r[pos + 1].names, r[r[pos + 1].pos]) ELSE Bad
<1>1. ~(pos > Len(tokens)) /\ pos <= Len(tokens)
  OBVIOUS
<1> QED BY <1>1 DEF ReadFrom, Reserved

LEMMA ReadCloses ==
    ASSUME NEW tokens, Len(tokens) \in Nat, NEW known, NEW r, NEW pos \in 1..Len(tokens),
           tokens[pos] = ")"
    PROVE  ReadFrom(tokens, known, r, pos) = [ok |-> TRUE, names |-> {}, pos |-> pos + 1]
<1>1. ~(pos > Len(tokens)) /\ pos <= Len(tokens)
  OBVIOUS
<1> QED BY <1>1 DEF ReadFrom, Reserved

LEMMA ReadJoins ==
    ASSUME NEW tokens, Len(tokens) \in Nat, NEW known, NEW r, NEW pos \in 1..Len(tokens),
           tokens[pos] \in {"and", "or"}
    PROVE  ReadFrom(tokens, known, r, pos) = r[pos + 1]
<1>1. ~(pos > Len(tokens)) /\ pos <= Len(tokens)
  OBVIOUS
<1> QED BY <1>1 DEF ReadFrom, Reserved

LEMMA ReadNames ==
    ASSUME NEW tokens, Len(tokens) \in Nat, NEW known, NEW r, NEW pos \in 1..Len(tokens),
           tokens[pos] \notin Reserved
    PROVE  ReadFrom(tokens, known, r, pos) =
             IF tokens[pos] \in known THEN Join({tokens[pos]}, r[pos + 1]) ELSE Bad
<1>1. ~(pos > Len(tokens)) /\ pos <= Len(tokens)
  OBVIOUS
<1>2. CASE tokens[pos] \in known
  BY <1>1, <1>2 DEF ReadFrom, Reserved
<1>3. CASE tokens[pos] \notin known
  BY <1>1, <1>3 DEF ReadFrom, Reserved
<1> QED BY <1>2, <1>3

Readings(n, known) == [ok : BOOLEAN, names : SUBSET known, pos : 0..n]

LEMMA JoinTyped ==
    ASSUME NEW n \in Nat, NEW known, NEW a \in SUBSET known, NEW r \in Readings(n, known)
    PROVE  Join(a, r) \in Readings(n, known) /\ (Join(a, r).ok => r.ok /\ Join(a, r).pos = r.pos)
<1>1. Bad \in Readings(n, known) /\ ~Bad.ok
  BY DEF Bad, Readings
<1>2. r.names \in SUBSET known /\ r.pos \in 0..n
  BY DEF Readings
<1>3. [ok |-> TRUE, names |-> a \cup r.names, pos |-> r.pos] \in Readings(n, known)
  BY <1>2 DEF Readings
<1>4. CASE r.ok
  BY <1>3, <1>4 DEF Join
<1>5. CASE ~r.ok
  BY <1>1, <1>5 DEF Join
<1> QED BY <1>4, <1>5

\* The same, where reading goes on only ever further on.
ReadSafely(tokens, known, r, pos) ==
    IF /\ pos # Len(tokens) + 1 /\ tokens[pos] \in {"(", "not"}
       /\ ~(r[pos + 1].ok /\ r[pos + 1].names # {} /\ r[pos + 1].pos \in (pos + 1)..(Len(tokens) + 1))
    THEN Bad ELSE ReadFrom(tokens, known, r, pos)

LEMMA ReadSafelyTyped ==
    ASSUME NEW tokens, Len(tokens) \in Nat, NEW known,
           NEW g \in [1..(Len(tokens) + 1) -> Readings(Len(tokens) + 1, known)],
           NEW pos \in 1..(Len(tokens) + 1)
    PROVE  ReadSafely(tokens, known, g, pos) \in Readings(Len(tokens) + 1, known)
<1> DEFINE end == Len(tokens) + 1
           D == 1..end
           R == Readings(end, known)
<1>0. end \in Nat /\ Len(tokens) \in Nat /\ end = Len(tokens) + 1
  OBVIOUS
<1>1. Bad \in R /\ ~Bad.ok /\ \A p \in D : [ok |-> TRUE, names |-> {}, pos |-> p] \in R
  BY <1>0 DEF Bad, Readings
<1>2. ReadSafely(tokens, known, g, pos) \in R
  <2>1. CASE pos = end
    <3>1. ReadSafely(tokens, known, g, pos) = [ok |-> TRUE, names |-> {}, pos |-> end]
      BY <2>1, ReadEnds DEF ReadSafely
    <3> QED BY <1>0, <1>1, <3>1
  <2>2. CASE pos # end
    <3>0. pos \in 1..Len(tokens) /\ pos + 1 \in D /\ g[pos + 1] \in R
      BY <1>0, <2>2
    <3>1. CASE tokens[pos] \in {"(", "not"}
      <4>1. CASE g[pos + 1].ok /\ g[pos + 1].names # {} /\ g[pos + 1].pos \in (pos + 1)..end
        <5>1. g[pos + 1].pos \in D /\ g[g[pos + 1].pos] \in R /\ g[pos + 1].names \in SUBSET known
          BY <1>0, <3>0, <4>1 DEF Readings
        <5>2. ReadSafely(tokens, known, g, pos) = Join(g[pos + 1].names, g[g[pos + 1].pos])
          <6>1. ReadFrom(tokens, known, g, pos) = Join(g[pos + 1].names, g[g[pos + 1].pos])
            BY <3>0, <3>1, <4>1, ReadOpens
          <6> QED BY <4>1, <6>1 DEF ReadSafely
        <5> QED BY <1>0, <5>1, <5>2, JoinTyped
      <4>2. CASE ~(g[pos + 1].ok /\ g[pos + 1].names # {} /\ g[pos + 1].pos \in (pos + 1)..end)
        BY <1>1, <2>2, <3>1, <4>2 DEF ReadSafely
      <4> QED BY <4>1, <4>2
    <3>2. CASE tokens[pos] \notin {"(", "not"}
      <4>1. ReadSafely(tokens, known, g, pos) = ReadFrom(tokens, known, g, pos)
        BY <3>2 DEF ReadSafely
      <4>2. CASE tokens[pos] = ")"
        <5>1. ReadFrom(tokens, known, g, pos) = [ok |-> TRUE, names |-> {}, pos |-> pos + 1]
          BY <3>0, <4>2, ReadCloses
        <5> QED BY <1>1, <3>0, <4>1, <5>1
      <4>3. CASE tokens[pos] \in {"and", "or"}
        <5>1. ReadFrom(tokens, known, g, pos) = g[pos + 1]
          BY <3>0, <4>3, ReadJoins
        <5> QED BY <3>0, <4>1, <5>1
      <4>4. CASE tokens[pos] \notin Reserved
        <5>1. ReadFrom(tokens, known, g, pos) =
                IF tokens[pos] \in known THEN Join({tokens[pos]}, g[pos + 1]) ELSE Bad
          BY <3>0, <4>4, ReadNames
        <5>2. CASE tokens[pos] \in known
          <6>1. {tokens[pos]} \in SUBSET known
            BY <5>2
          <6>2. Join({tokens[pos]}, g[pos + 1]) \in R
            BY <1>0, <3>0, <6>1, JoinTyped
          <6> QED BY <4>1, <5>1, <5>2, <6>2
        <5> QED BY <1>1, <4>1, <5>1, <5>2
      <4> QED BY <3>2, <4>2, <4>3, <4>4 DEF Reserved
    <3> QED BY <3>1, <3>2
  <2> QED BY <2>1, <2>2
<1> QED BY <1>2

\* It depends only on what is read further on.
LEMMA ReadSafelyLocal ==
    ASSUME NEW tokens, Len(tokens) \in Nat, NEW known, NEW g, NEW h,
           NEW pos \in 1..(Len(tokens) + 1),
           \A k \in (pos + 1)..(Len(tokens) + 1) : g[k] = h[k]
    PROVE  ReadSafely(tokens, known, g, pos) = ReadSafely(tokens, known, h, pos)
<1>1. CASE pos = Len(tokens) + 1
  <2>1. /\ ReadSafely(tokens, known, g, pos) = ReadFrom(tokens, known, g, pos)
        /\ ReadSafely(tokens, known, h, pos) = ReadFrom(tokens, known, h, pos)
    BY <1>1 DEF ReadSafely
  <2> QED BY <1>1, <2>1, ReadEnds
<1>2. CASE pos # Len(tokens) + 1
  <2>0. pos \in 1..Len(tokens) /\ g[pos + 1] = h[pos + 1]
    BY <1>2
  <2>1. CASE tokens[pos] \in {"(", "not"}
    <3>1. CASE ~(/\ g[pos + 1].ok /\ g[pos + 1].names # {}
                 /\ g[pos + 1].pos \in (pos + 1)..(Len(tokens) + 1))
      BY <1>2, <2>0, <2>1, <3>1 DEF ReadSafely
    <3>2. CASE /\ g[pos + 1].ok /\ g[pos + 1].names # {}
               /\ g[pos + 1].pos \in (pos + 1)..(Len(tokens) + 1)
      <4>1. g[g[pos + 1].pos] = h[h[pos + 1].pos]
        BY <2>0, <3>2
      <4>2. /\ ReadFrom(tokens, known, g, pos) = Join(g[pos + 1].names, g[g[pos + 1].pos])
            /\ ReadFrom(tokens, known, h, pos) = Join(h[pos + 1].names, h[h[pos + 1].pos])
        BY <2>0, <2>1, <3>2, ReadOpens
      <4>3. /\ ReadSafely(tokens, known, g, pos) = ReadFrom(tokens, known, g, pos)
            /\ ReadSafely(tokens, known, h, pos) = ReadFrom(tokens, known, h, pos)
        BY <2>0, <3>2 DEF ReadSafely
      <4> QED BY <2>0, <4>1, <4>2, <4>3
    <3> QED BY <3>1, <3>2
  <2>2. CASE tokens[pos] \notin {"(", "not"}
    <3>1. /\ ReadSafely(tokens, known, g, pos) = ReadFrom(tokens, known, g, pos)
          /\ ReadSafely(tokens, known, h, pos) = ReadFrom(tokens, known, h, pos)
      BY <2>2 DEF ReadSafely
    <3>2. CASE tokens[pos] = ")"
      BY <2>0, <3>1, <3>2, ReadCloses
    <3>3. CASE tokens[pos] \in {"and", "or"}
      BY <2>0, <3>1, <3>3, ReadJoins
    <3>4. CASE tokens[pos] \notin Reserved
      <4>1. /\ ReadFrom(tokens, known, g, pos)
                 = IF tokens[pos] \in known THEN Join({tokens[pos]}, g[pos + 1]) ELSE Bad
            /\ ReadFrom(tokens, known, h, pos)
                 = IF tokens[pos] \in known THEN Join({tokens[pos]}, h[pos + 1]) ELSE Bad
        BY <2>0, <3>4, ReadNames
      <4> QED BY <2>0, <3>1, <4>1
    <3> QED BY <2>2, <3>2, <3>3, <3>4 DEF Reserved
  <2> QED BY <2>1, <2>2
<1> QED BY <1>1, <1>2

\* There is a function that reads every position by itself.
LEMMA ReadingExists ==
    ASSUME NEW tokens, Len(tokens) \in Nat, NEW known
    PROVE  \E r \in [1..(Len(tokens) + 1) -> Readings(Len(tokens) + 1, known)] :
              IsReading(r, tokens, known)
<1> DEFINE end == Len(tokens) + 1
           D == 1..end
           R == Readings(end, known)
           size == [pos \in D |-> end - pos]
           step == [g \in [D -> R] |-> [pos \in D |-> ReadSafely(tokens, known, g, pos)]]
<1>0. end \in Nat /\ Len(tokens) \in Nat /\ end = Len(tokens) + 1
  OBVIOUS
<1>1. Recursive(step, size, end, D, R)
  <2>1. size \in [D -> 0..end]
    BY <1>0
  <2>2. [D -> R] # {}
    <3>1. Bad \in R
      BY <1>0 DEF Bad, Readings
    <3>2. [pos \in D |-> Bad] \in [D -> R]
      BY <3>1
    <3> QED BY <3>2
  <2>3. ASSUME NEW g \in [D -> R] PROVE [pos \in D |-> ReadSafely(tokens, known, g, pos)] \in [D -> R]
    <3>1. \A pos \in D : ReadSafely(tokens, known, g, pos) \in R
      BY ReadSafelyTyped
    <3> HIDE DEF D, R
    <3> QED BY <3>1
  <2>4. step \in [[D -> R] -> [D -> R]]
    <3> HIDE DEF D, R
    <3> QED BY <2>3
  <2>5. ASSUME NEW g \in [D -> R], NEW h \in [D -> R], NEW x \in D,
               \A y \in D : size[y] < size[x] => g[y] = h[y]
        PROVE  step[g][x] = step[h][x]
    <3>1. ASSUME NEW k \in (x + 1)..end PROVE g[k] = h[k]
      <4>1. k \in D /\ size[k] < size[x]
        BY <1>0
      <4> QED BY <2>5, <4>1
    <3>2. ReadSafely(tokens, known, g, x) = ReadSafely(tokens, known, h, x)
      BY <3>1, ReadSafelyLocal
    <3> HIDE DEF D, R
    <3> QED BY <3>2
  <2> HIDE DEF D, R, size, step
  <2> QED BY <1>0, <2>1, <2>2, <2>4, <2>5 DEF Recursive
<1>2. PICK g \in [D -> R] : step[g] = g
  <2> HIDE DEF D, R, size, step
  <2> QED BY <1>1, RecursionExists
<1>3. \A pos \in D : g[pos] = ReadSafely(tokens, known, g, pos)
  <2> HIDE DEF D, R
  <2> QED BY <1>2
<1> DEFINE Good == {k \in 0..Len(tokens) :
                     \A pos \in D : end - pos <= k => (g[pos].ok => g[pos].pos \in pos..end)}
<1>4. 0 \in Good
  <2> SUFFICES ASSUME NEW pos \in D, end - pos <= 0 PROVE g[pos].pos \in pos..end
    BY <1>0
  <2>1. pos = end
    BY <1>0
  <2>2. g[pos] = [ok |-> TRUE, names |-> {}, pos |-> end]
    BY <1>3, <2>1, ReadEnds DEF ReadSafely
  <2> QED BY <1>0, <2>1, <2>2
<1>5. ASSUME NEW k \in 1..Len(tokens), k - 1 \in Good PROVE k \in Good
  <2> SUFFICES ASSUME NEW pos \in D, end - pos <= k, g[pos].ok PROVE g[pos].pos \in pos..end
    BY <1>0
  <2>0. \A q \in D : q > pos /\ g[q].ok => g[q].pos \in q..end
    BY <1>0, <1>5
  <2>1. CASE pos = end
    <3>1. g[pos] = [ok |-> TRUE, names |-> {}, pos |-> end]
      BY <1>3, <2>1, ReadEnds DEF ReadSafely
    <3> QED BY <1>0, <2>1, <3>1
  <2>2. CASE pos # end
    <3>0. pos \in 1..Len(tokens) /\ pos + 1 \in D /\ g[pos + 1] \in R
      BY <1>0, <2>2
    <3>1. g[pos + 1].ok => g[pos + 1].pos \in (pos + 1)..end
      BY <1>0, <2>0, <3>0
    <3>2. CASE tokens[pos] \in {"(", "not"}
      <4>1. g[pos + 1].ok /\ g[pos + 1].names # {} /\ g[pos + 1].pos \in (pos + 1)..end
        BY <1>3, <2>2, <3>1, <3>2 DEF ReadSafely, Bad
      <4>2. g[pos + 1].pos \in D /\ g[g[pos + 1].pos] \in R /\ g[pos + 1].names \in SUBSET known
        BY <1>0, <3>0, <4>1 DEF Readings
      <4>3. g[pos] = Join(g[pos + 1].names, g[g[pos + 1].pos])
        <5>1. ReadFrom(tokens, known, g, pos) = Join(g[pos + 1].names, g[g[pos + 1].pos])
          BY <3>0, <3>2, <4>1, ReadOpens
        <5> QED BY <1>3, <4>1, <5>1 DEF ReadSafely
      <4>4. g[g[pos + 1].pos].ok /\ g[pos].pos = g[g[pos + 1].pos].pos
        BY <1>0, <4>2, <4>3, JoinTyped
      <4> QED BY <1>0, <2>0, <3>0, <4>1, <4>2, <4>4
    <3>3. CASE tokens[pos] \notin {"(", "not"}
      <4>1. g[pos] = ReadFrom(tokens, known, g, pos)
        BY <1>3, <3>3 DEF ReadSafely
      <4>2. CASE tokens[pos] = ")"
        <5>1. g[pos] = [ok |-> TRUE, names |-> {}, pos |-> pos + 1]
          BY <3>0, <4>1, <4>2, ReadCloses
        <5> QED BY <1>0, <3>0, <5>1
      <4>3. CASE tokens[pos] \in {"and", "or"}
        <5>1. g[pos] = g[pos + 1]
          BY <3>0, <4>1, <4>3, ReadJoins
        <5> QED BY <1>0, <3>0, <3>1, <5>1
      <4>4. CASE tokens[pos] \notin Reserved
        <5>1. ReadFrom(tokens, known, g, pos) =
                IF tokens[pos] \in known THEN Join({tokens[pos]}, g[pos + 1]) ELSE Bad
          BY <3>0, <4>4, ReadNames
        <5>2. tokens[pos] \in known
          BY <4>1, <5>1 DEF Bad
        <5>3. {tokens[pos]} \in SUBSET known
          BY <5>2
        <5>4. g[pos + 1].ok /\ g[pos].pos = g[pos + 1].pos
          BY <1>0, <3>0, <4>1, <5>1, <5>2, <5>3, JoinTyped
        <5> QED BY <1>0, <3>0, <3>1, <5>4
      <4> QED BY <3>3, <4>2, <4>3, <4>4 DEF Reserved
    <3> QED BY <3>2, <3>3
  <2> QED BY <2>1, <2>2
<1>6. \A pos \in D : g[pos].ok => g[pos].pos \in pos..end
  <2> HIDE DEF Good
  <2>1. Len(tokens) \in Good
    <3>1. \A k \in 0..Len(tokens) : k \in Good
      BY <1>4, <1>5, RangeInduction
    <3> QED BY <3>1
  <2> QED BY <1>0, <2>1 DEF Good
<1>7. ASSUME NEW pos \in D PROVE g[pos] = ReadFrom(tokens, known, g, pos)
  <2>1. CASE pos # end /\ tokens[pos] \in {"(", "not"}
    <3>0. pos \in 1..Len(tokens) /\ pos + 1 \in D
      BY <1>0, <2>1
    <3>1. CASE g[pos + 1].ok /\ g[pos + 1].names # {}
      BY <1>3, <1>6, <3>0, <3>1 DEF ReadSafely
    <3>2. CASE ~(g[pos + 1].ok /\ g[pos + 1].names # {})
      <4>1. ReadFrom(tokens, known, g, pos) = Bad
        BY <2>1, <3>0, <3>2, ReadOpens
      <4> QED BY <1>3, <4>1 DEF ReadSafely
    <3> QED BY <3>1, <3>2
  <2>2. CASE ~(pos # end /\ tokens[pos] \in {"(", "not"})
    BY <1>3, <2>2 DEF ReadSafely
  <2> QED BY <2>1, <2>2
<1>8. IsReading(g, tokens, known)
  BY <1>7 DEF IsReading
<1> QED BY <1>2, <1>8

\* What _parse_boolean returns is the reading from the first token on.
LEMMA Parsed ==
    ASSUME NEW tokens, Len(tokens) \in Nat, NEW known
    PROVE  \E r : /\ IsReading(r, tokens, known)
                 /\ ParseBoolean(tokens, known) = IF r[1].names = {} THEN Bad ELSE r[1]
<1> DEFINE Step(g) == [pos \in 1..(Len(tokens) + 1) |-> ReadFrom(tokens, known, g, pos)]
           c == CHOOSE g : g = Step(g)
           Answer(g) == IF g[1].names = {} THEN Bad ELSE g[1]
<1>1. \E g : g = Step(g)
  <2>1. PICK r \in [1..(Len(tokens) + 1) -> Readings(Len(tokens) + 1, known)] : IsReading(r, tokens, known)
    BY ReadingExists
  <2>2. r = Step(r)
    BY <2>1 DEF IsReading
  <2> QED BY <2>2
<1>2. c = Step(c)
  <2> HIDE DEF Step
  <2> QED BY <1>1
<1>3. IsReading(c, tokens, known)
  <2> HIDE DEF c
  <2> QED BY <1>2 DEF IsReading
<1>4. ParseBoolean(tokens, known) = Answer(c)
  BY DEF ParseBoolean
<1> HIDE DEF c
<1> QED BY <1>3, <1>4
----------------------------------------------------------------------------
(* What conditions say.                                                    *)

Said == {"true", "false", "malformed"}

LEMMA SaidTyped ==
    ASSUME NEW a, NEW b
    PROVE  Either(a, b) \in Said /\ Not(a) \in Said /\ Both(a, b) \in Said
  BY DEF Said, Either, Not, Both

\* What the connectives make of what is well formed.
LEMMA Connectives ==
    ASSUME NEW a, NEW b
    PROVE  /\ Either(a, b) # "malformed" =>
                /\ a # "malformed" /\ b # "malformed"
                /\ Either(a, b) = "true" <=> a = "true" \/ b = "true"
           /\ Both(a, b) # "malformed" =>
                /\ a # "malformed" /\ b # "malformed"
                /\ Both(a, b) = "true" <=> a = "true" /\ b = "true"
  BY DEF Said, Either, Not, Both

\* The operator at which a span is cut is one of its tokens.
LEMMA CutInside ==
    ASSUME NEW tokens, NEW op, NEW i \in Nat, NEW j \in Nat, Outside(tokens, op, i, j) # {}
    PROVE  /\ First(Outside(tokens, op, i, j)) \in i..j
           /\ tokens[First(Outside(tokens, op, i, j))] = op
<1> DEFINE S == Outside(tokens, op, i, j)
<1>1. S \subseteq Nat /\ S \subseteq i..j /\ \A k \in S : tokens[k] = op
  BY DEF Outside
<1> HIDE DEF S
<1>2. S # {}
  BY DEF S
<1>3. \E m \in S : \A k \in S : m <= k
  BY <1>1, <1>2, LeastElement
<1>4. First(S) \in S
  BY <1>3 DEF First
<1> QED BY <1>1, <1>4 DEF S

\* The ways in which a span says something.
LEMMA SpanOr ==
    ASSUME NEW tokens, NEW holding, NEW m, NEW i, NEW j, Outside(tokens, "or", i, j) # {}
    PROVE  SpanSays(tokens, holding, m, i, j) =
             Either(m[<<i, First(Outside(tokens, "or", i, j)) - 1>>],
                    m[<<First(Outside(tokens, "or", i, j)) + 1, j>>])
  BY DEF SpanSays

LEMMA SpanAnd ==
    ASSUME NEW tokens, NEW holding, NEW m, NEW i, NEW j, Outside(tokens, "or", i, j) = {},
           Outside(tokens, "and", i, j) # {}
    PROVE  SpanSays(tokens, holding, m, i, j) =
             Both(m[<<i, First(Outside(tokens, "and", i, j)) - 1>>],
                  m[<<First(Outside(tokens, "and", i, j)) + 1, j>>])
  BY DEF SpanSays

Whole(tokens, i, j) ==
    i <= j /\ Outside(tokens, "or", i, j) = {} /\ Outside(tokens, "and", i, j) = {}

Enclosed(tokens, i, j) ==
    /\ tokens[j] = ")" /\ Depth(tokens, i, j) = 0
    /\ \A k \in i..(j - 1) : Depth(tokens, i, k) > 0

LEMMA SpanNot ==
    ASSUME NEW tokens, NEW holding, NEW m, NEW i, NEW j, Whole(tokens, i, j), tokens[i] = "not"
    PROVE  SpanSays(tokens, holding, m, i, j) = Not(m[<<i + 1, j>>])
  BY DEF SpanSays, Whole, Reserved

LEMMA SpanGroup ==
    ASSUME NEW tokens, NEW holding, NEW m, NEW i, NEW j, Whole(tokens, i, j), tokens[i] = "("
    PROVE  SpanSays(tokens, holding, m, i, j) =
             IF Enclosed(tokens, i, j) THEN m[<<i + 1, j - 1>>] ELSE "malformed"
  BY DEF SpanSays, Whole, Reserved, Enclosed

LEMMA SpanName ==
    ASSUME NEW tokens, NEW holding, NEW m, NEW i, NEW j, Whole(tokens, i, j),
           tokens[i] \notin Reserved, i = j
    PROVE  SpanSays(tokens, holding, m, i, j) = IF tokens[i] \in holding THEN "true" ELSE "false"
  BY DEF SpanSays, Whole, Reserved

LEMMA SpanElse ==
    ASSUME NEW tokens, NEW holding, NEW m, NEW i \in Nat, NEW j \in Nat,
           \/ ~(i <= j)
           \/ /\ Whole(tokens, i, j) /\ tokens[i] \notin {"not", "("}
              /\ ~(tokens[i] \notin Reserved /\ i = j)
    PROVE  SpanSays(tokens, holding, m, i, j) = "malformed"
<1>1. CASE ~(i <= j)
  <2>1. \A op \in {"and", "or"} : Outside(tokens, op, i, j) = {}
    <3>1. i..j = {}
      BY <1>1
    <3> QED BY <3>1 DEF Outside
  <2> QED BY <1>1, <2>1 DEF SpanSays
<1>2. CASE /\ Whole(tokens, i, j) /\ tokens[i] \notin {"not", "("}
           /\ ~(tokens[i] \notin Reserved /\ i = j)
  BY <1>2 DEF SpanSays, Whole
<1> QED BY <1>1, <1>2

\* One of these is so of every span.
LEMMA SpanKinds ==
    ASSUME NEW tokens, NEW i \in Nat, NEW j \in Nat
    PROVE  \/ Outside(tokens, "or", i, j) # {}
           \/ Outside(tokens, "or", i, j) = {} /\ Outside(tokens, "and", i, j) # {}
           \/ Whole(tokens, i, j) /\ tokens[i] = "not"
           \/ Whole(tokens, i, j) /\ tokens[i] = "("
           \/ Whole(tokens, i, j) /\ tokens[i] \notin Reserved /\ i = j
           \/ ~(i <= j)
           \/ /\ Whole(tokens, i, j) /\ tokens[i] \notin {"not", "("}
              /\ ~(tokens[i] \notin Reserved /\ i = j)
  BY DEF Whole

Spans(n) == (1..(n + 1)) \X (0..n)

LEMMA SpanTyped ==
    ASSUME NEW tokens, NEW n \in Nat, NEW holding, NEW m \in [Spans(n) -> Said],
           NEW i \in 1..(n + 1), NEW j \in 0..n
    PROVE  SpanSays(tokens, holding, m, i, j) \in Said
<1>0. /\ "malformed" \in Said /\ "true" \in Said /\ "false" \in Said
      /\ i \in Nat /\ j \in Nat
  BY DEF Said
<1>1. CASE Outside(tokens, "or", i, j) # {}
  <2>1. SpanSays(tokens, holding, m, i, j) =
          Either(m[<<i, First(Outside(tokens, "or", i, j)) - 1>>],
                         m[<<First(Outside(tokens, "or", i, j)) + 1, j>>])
    BY <1>1, SpanOr
  <2> QED BY <2>1, SaidTyped
<1>2. CASE Outside(tokens, "or", i, j) = {} /\ Outside(tokens, "and", i, j) # {}
  <2>1. SpanSays(tokens, holding, m, i, j) =
          Both(m[<<i, First(Outside(tokens, "and", i, j)) - 1>>],
                       m[<<First(Outside(tokens, "and", i, j)) + 1, j>>])
    BY <1>2, SpanAnd
  <2> QED BY <2>1, SaidTyped
<1>3. CASE Whole(tokens, i, j) /\ tokens[i] = "not"
  <2>1. SpanSays(tokens, holding, m, i, j) =
          Not(m[<<i + 1, j>>])
    BY <1>3, SpanNot
  <2> QED BY <2>1, SaidTyped
<1>4. CASE Whole(tokens, i, j) /\ tokens[i] = "("
  <2>1. <<i + 1, j - 1>> \in Spans(n)
    BY <1>4 DEF Spans, Whole
  <2> QED BY <1>0, <1>4, <2>1, SpanGroup
<1>5. CASE Whole(tokens, i, j) /\ tokens[i] \notin Reserved /\ i = j
  BY <1>0, <1>5, SpanName
<1>6. CASE \/ ~(i <= j)
           \/ /\ Whole(tokens, i, j) /\ tokens[i] \notin {"not", "("}
              /\ ~(tokens[i] \notin Reserved /\ i = j)
  <2>1. SpanSays(tokens, holding, m, i, j) = "malformed"
    BY <1>0, <1>6, SpanElse
  <2> QED BY <1>0, <2>1
<1> QED BY <1>0, <1>1, <1>2, <1>3, <1>4, <1>5, <1>6, SpanKinds

\* What a span says depends only on shorter ones.
LEMMA SpanLocal ==
    ASSUME NEW tokens, NEW holding, NEW g, NEW h,
           Len(tokens) \in Nat, NEW i \in 1..(Len(tokens) + 1), NEW j \in 0..Len(tokens),
           \A a \in 1..(Len(tokens) + 1), b \in 0..Len(tokens) :
              i <= j /\ b - a < j - i => g[<<a, b>>] = h[<<a, b>>]
    PROVE  SpanSays(tokens, holding, g, i, j) = SpanSays(tokens, holding, h, i, j)
<1>1. CASE Outside(tokens, "or", i, j) # {}
  <2> DEFINE k == First(Outside(tokens, "or", i, j))
  <2>1. k \in i..j
    BY <1>1, CutInside
  <2> HIDE DEF k
  <2>2. g[<<i, k - 1>>] = h[<<i, k - 1>>] /\ g[<<k + 1, j>>] = h[<<k + 1, j>>]
    BY <2>1
  <2> QED BY <1>1, <2>2, SpanOr DEF k
<1>2. CASE Outside(tokens, "or", i, j) = {} /\ Outside(tokens, "and", i, j) # {}
  <2> DEFINE k == First(Outside(tokens, "and", i, j))
  <2>1. k \in i..j
    BY <1>2, CutInside
  <2> HIDE DEF k
  <2>2. g[<<i, k - 1>>] = h[<<i, k - 1>>] /\ g[<<k + 1, j>>] = h[<<k + 1, j>>]
    BY <2>1
  <2> QED BY <1>2, <2>2, SpanAnd DEF k
<1>3. CASE Whole(tokens, i, j) /\ tokens[i] = "not"
  <2>1. g[<<i + 1, j>>] = h[<<i + 1, j>>]
    BY <1>3 DEF Whole
  <2> QED BY <1>3, <2>1, SpanNot
<1>4. CASE Whole(tokens, i, j) /\ tokens[i] = "("
  <2>0. i + 1 \in 1..(Len(tokens) + 1) /\ j - 1 \in 0..Len(tokens) /\ i <= j /\ (j - 1) - (i + 1) < j - i
    BY <1>4 DEF Whole
  <2> DEFINE p == i + 1
             q == j - 1
  <2>1. p \in 1..(Len(tokens) + 1) /\ q \in 0..Len(tokens) /\ i <= j /\ q - p < j - i
    BY <2>0
  <2> HIDE DEF p, q
  <2>2. g[<<p, q>>] = h[<<p, q>>]
    BY <2>1
  <2>3. g[<<i + 1, j - 1>>] = h[<<i + 1, j - 1>>]
    BY <2>2 DEF p, q
  <2>4. /\ SpanSays(tokens, holding, g, i, j)
              = IF Enclosed(tokens, i, j) THEN g[<<i + 1, j - 1>>] ELSE "malformed"
        /\ SpanSays(tokens, holding, h, i, j)
              = IF Enclosed(tokens, i, j) THEN h[<<i + 1, j - 1>>] ELSE "malformed"
    BY <1>4, SpanGroup
  <2> QED BY <2>3, <2>4
<1>5. CASE Whole(tokens, i, j) /\ tokens[i] \notin Reserved /\ i = j
  BY <1>5, SpanName
<1>6. CASE \/ ~(i <= j)
           \/ /\ Whole(tokens, i, j) /\ tokens[i] \notin {"not", "("}
              /\ ~(tokens[i] \notin Reserved /\ i = j)
  BY <1>6, SpanElse
<1>7. i \in Nat /\ j \in Nat
  OBVIOUS
<1> QED BY <1>1, <1>2, <1>3, <1>4, <1>5, <1>6, <1>7, SpanKinds

IsMeaning(m, tokens, holding) ==
    \A i \in 1..(Len(tokens) + 1), j \in 0..Len(tokens) :
        m[<<i, j>>] = SpanSays(tokens, holding, m, i, j)

\* There is a function that says of every span what it says.
LEMMA MeaningExists ==
    ASSUME NEW tokens, Len(tokens) \in Nat, NEW holding
    PROVE  \E m \in [Spans(Len(tokens)) -> Said] :
              m = [s \in Spans(Len(tokens)) |-> SpanSays(tokens, holding, m, s[1], s[2])]
<1> DEFINE n == Len(tokens)
           D == Spans(n)
           size == [s \in D |-> IF s[1] <= s[2] THEN s[2] - s[1] + 1 ELSE 0]
           step == [g \in [D -> Said] |-> [s \in D |-> SpanSays(tokens, holding, g, s[1], s[2])]]
<1>0. /\ n \in Nat
      /\ \A s \in D : s[1] \in 1..(n + 1) /\ s[2] \in 0..n /\ s = <<s[1], s[2]>>
      /\ \A i \in 1..(n + 1), j \in 0..n : <<i, j>> \in D
  BY DEF Spans
<1>1. Recursive(step, size, n, D, Said)
  <2>1. size \in [D -> 0..n]
    BY <1>0
  <2>2. [D -> Said] # {}
    <3>1. [s \in D |-> "true"] \in [D -> Said]
      BY DEF Said
    <3> QED BY <3>1
  <2>3. ASSUME NEW g \in [D -> Said]
        PROVE  [s \in D |-> SpanSays(tokens, holding, g, s[1], s[2])] \in [D -> Said]
    <3>1. \A s \in D : SpanSays(tokens, holding, g, s[1], s[2]) \in Said
      BY <1>0, SpanTyped
    <3> HIDE DEF D
    <3> QED BY <3>1
  <2>4. step \in [[D -> Said] -> [D -> Said]]
    <3> HIDE DEF D
    <3> QED BY <2>3
  <2>5. ASSUME NEW g \in [D -> Said], NEW h \in [D -> Said], NEW x \in D,
               \A y \in D : size[y] < size[x] => g[y] = h[y]
        PROVE  step[g][x] = step[h][x]
    <3> DEFINE i == x[1]
               j == x[2]
    <3>0. i \in 1..(n + 1) /\ j \in 0..n /\ x = <<i, j>>
      BY <1>0
    <3>1. ASSUME NEW a \in 1..(n + 1), NEW b \in 0..n, i <= j, b - a < j - i
          PROVE  g[<<a, b>>] = h[<<a, b>>]
      <4>1. <<a, b>> \in D
        BY <1>0
      <4>2. size[<<a, b>>] = IF a <= b THEN b - a + 1 ELSE 0
        BY <4>1
      <4>3. size[x] = j - i + 1
        BY <3>1
      <4>4. size[<<a, b>>] < size[x]
        <5> HIDE DEF i, j, size
        <5> QED BY <1>0, <3>0, <3>1, <4>2, <4>3
      <4> QED BY <2>5, <4>1, <4>4
    <3> HIDE DEF i, j
    <3>2. SpanSays(tokens, holding, g, i, j) = SpanSays(tokens, holding, h, i, j)
      <4>1. \A a \in 1..(n + 1), b \in 0..n :
                i <= j /\ b - a < j - i => g[<<a, b>>] = h[<<a, b>>]
        BY <3>1
      <4>2. n \in Nat
        OBVIOUS
      <4>3. /\ i \in 1..(n + 1) /\ j \in 0..n
            /\ \A a \in 1..(n + 1), b \in 0..n :
                  i <= j /\ b - a < j - i => g[<<a, b>>] = h[<<a, b>>]
        BY <3>0, <4>1
      <4> HIDE DEF size, step, D
      <4> QED BY <4>2, <4>3, SpanLocal
    <3> HIDE DEF D
    <3> QED BY <3>2 DEF i, j
  <2> HIDE DEF D, size, step
  <2> QED BY <1>0, <2>1, <2>2, <2>4, <2>5 DEF Recursive
<1>2. PICK g \in [D -> Said] : step[g] = g
  <2> HIDE DEF D, size, step
  <2> QED BY <1>1, RecursionExists
<1>3. step[g] = [s \in D |-> SpanSays(tokens, holding, g, s[1], s[2])]
  <2> HIDE DEF D
  <2> QED OBVIOUS
<1> QED BY <1>2, <1>3

\* What a condition says is what such a function says of all of it.
LEMMA Means ==
    ASSUME NEW tokens, Len(tokens) \in Nat, NEW holding
    PROVE  \E m : /\ IsMeaning(m, tokens, holding)
                 /\ Meaning(tokens, holding) = m[<<1, Len(tokens)>>]
<1> DEFINE D == Spans(Len(tokens))
           Step(g) == [s \in D |-> SpanSays(tokens, holding, g, s[1], s[2])]
           c == CHOOSE g : g = Step(g)
<1>1. \E g : g = Step(g)
  BY MeaningExists
<1>2. c = Step(c)
  <2> HIDE DEF Step
  <2> QED BY <1>1
<1>3. Meaning(tokens, holding) = c[<<1, Len(tokens)>>]
  BY DEF Meaning, Spans
<1> HIDE DEF c
<1>4. IsMeaning(c, tokens, holding)
  <2>1. \A i \in 1..(Len(tokens) + 1), j \in 0..Len(tokens) : <<i, j>> \in D
    BY DEF Spans
  <2> HIDE DEF D
  <2>2. \A s \in D : c[s] = SpanSays(tokens, holding, c, s[1], s[2])
    BY <1>2
  <2>3. ASSUME NEW i \in 1..(Len(tokens) + 1), NEW j \in 0..Len(tokens)
        PROVE  c[<<i, j>>] = SpanSays(tokens, holding, c, i, j)
    BY <2>1, <2>2
  <2> QED BY <2>3 DEF IsMeaning
<1> QED BY <1>3, <1>4
----------------------------------------------------------------------------
(* What is read of a span that says something.                             *)

Between(tokens, i, j) == {tokens[k] : k \in i..j} \ Reserved

LEMMA BetweenCut ==
    ASSUME NEW tokens, NEW i \in Int, NEW j \in Int, NEW k \in i..j, tokens[k] \in Reserved
    PROVE  Between(tokens, i, j) = Between(tokens, i, k - 1) \cup Between(tokens, k + 1, j)
<1>1. i..j = (i..(k - 1)) \cup {k} \cup ((k + 1)..j)
  OBVIOUS
<1> HIDE DEF Reserved
<1> QED BY <1>1 DEF Between

LEMMA BetweenGroup ==
    ASSUME NEW tokens, NEW i \in Int, NEW j \in Int, i < j,
           tokens[i] \in Reserved, tokens[j] \in Reserved
    PROVE  Between(tokens, i, j) = Between(tokens, i + 1, j - 1)
<1>1. i..j = {i} \cup ((i + 1)..(j - 1)) \cup {j}
  OBVIOUS
<1> QED BY <1>1 DEF Between

LEMMA JoinTwice == \A a, b, x : Join(a, Join(b, x)) = Join(a \cup b, x)
<1> SUFFICES ASSUME NEW a, NEW b, NEW x PROVE Join(a, Join(b, x)) = Join(a \cup b, x)
  OBVIOUS
<1>1. CASE x.ok
  <2>1. Join(b, x) = [ok |-> TRUE, names |-> b \cup x.names, pos |-> x.pos]
    BY <1>1 DEF Join
  <2>2. Join(a, Join(b, x)) = [ok |-> TRUE, names |-> a \cup (b \cup x.names), pos |-> x.pos]
    <3> DEFINE y == Join(b, x)
    <3>1. y.ok /\ y.names = b \cup x.names /\ y.pos = x.pos
      BY <2>1
    <3> HIDE DEF y
    <3>2. Join(a, y) = [ok |-> TRUE, names |-> a \cup (b \cup x.names), pos |-> x.pos]
      BY <3>1 DEF Join
    <3> QED BY <3>2 DEF y
  <2>3. Join(a \cup b, x) = [ok |-> TRUE, names |-> (a \cup b) \cup x.names, pos |-> x.pos]
    BY <1>1 DEF Join
  <2>4. a \cup (b \cup x.names) = (a \cup b) \cup x.names
    OBVIOUS
  <2> QED BY <2>2, <2>3, <2>4
<1>2. CASE ~x.ok
  BY <1>2 DEF Join, Bad
<1> QED BY <1>1, <1>2

UsedIn(tokens) == {tokens[k] : k \in 1..Len(tokens)}

\* Of a span that says something, all names are read, and what it says is
\* between that one of them holds and that all do.
Faithful(tokens, holding, r, m, i, j) ==
    m[<<i, j>>] # "malformed" =>
        /\ i <= j /\ Between(tokens, i, j) # {}
        /\ r[i] = Join(Between(tokens, i, j), r[j + 1])
        /\ m[<<i, j>>] = "true" => Between(tokens, i, j) \cap holding # {}
        /\ "and" \notin UsedIn(tokens) /\ Between(tokens, i, j) \cap holding # {}
             => m[<<i, j>>] = "true"

LEMMA FaithfulStep ==
    ASSUME NEW tokens, Len(tokens) \in Nat, NEW known, NEW holding, NEW r, NEW m,
           IsReading(r, tokens, known), IsMeaning(m, tokens, holding),
           UsedIn(tokens) \subseteq known \cup Reserved, "not" \notin UsedIn(tokens),
           NEW i \in 1..(Len(tokens) + 1), NEW j \in 0..Len(tokens),
           \A a \in 1..(Len(tokens) + 1), b \in 0..Len(tokens) :
              i <= j /\ b - a < j - i => Faithful(tokens, holding, r, m, a, b)
    PROVE  Faithful(tokens, holding, r, m, i, j)
<1> SUFFICES ASSUME m[<<i, j>>] # "malformed"
             PROVE  /\ i <= j /\ Between(tokens, i, j) # {}
                    /\ r[i] = Join(Between(tokens, i, j), r[j + 1])
                    /\ m[<<i, j>>] = "true" => Between(tokens, i, j) \cap holding # {}
                    /\ "and" \notin UsedIn(tokens) /\ Between(tokens, i, j) \cap holding # {}
                         => m[<<i, j>>] = "true"
  BY DEF Faithful
<1>0. /\ i \in Nat /\ j \in Nat
      /\ m[<<i, j>>] = SpanSays(tokens, holding, m, i, j)
      /\ \A k \in 1..Len(tokens) : r[k] = ReadFrom(tokens, known, r, k)
      /\ \A k \in 1..Len(tokens) : tokens[k] \in UsedIn(tokens)
  BY DEF IsMeaning, IsReading, UsedIn
\* A span that is cut at k.
<1>a. ASSUME NEW k \in i..j, tokens[k] \in {"and", "or"},
             m[<<i, k - 1>>] # "malformed", m[<<k + 1, j>>] # "malformed"
      PROVE  /\ i <= j /\ Between(tokens, i, j) # {}
             /\ r[i] = Join(Between(tokens, i, j), r[j + 1])
             /\ Between(tokens, i, j)
                  = Between(tokens, i, k - 1) \cup Between(tokens, k + 1, j)
             /\ Faithful(tokens, holding, r, m, i, k - 1)
             /\ Faithful(tokens, holding, r, m, k + 1, j)
  <2> DEFINE p == k - 1
             q == k + 1
  <2>1. /\ p \in 0..Len(tokens) /\ q \in 1..(Len(tokens) + 1) /\ k \in 1..Len(tokens)
        /\ i <= j /\ p - i < j - i /\ j - q < j - i /\ p + 1 = k
    BY <1>a
  <2>2. r[k] = r[q]
    BY <1>0, <1>a, <2>1, ReadJoins
  <2>3. Between(tokens, i, j) = Between(tokens, i, p) \cup Between(tokens, q, j)
    <3>1. tokens[k] \in Reserved
      BY <1>a DEF Reserved
    <3>2. i \in Int /\ j \in Int /\ k \in i..j
      BY <1>0
    <3> HIDE DEF Reserved
    <3> QED BY <3>1, <3>2, BetweenCut
  <2>4. m[<<i, p>>] # "malformed" /\ m[<<q, j>>] # "malformed"
    BY <1>a
  <2> HIDE DEF p, q
  <2>5. Faithful(tokens, holding, r, m, i, p) /\ Faithful(tokens, holding, r, m, q, j)
    BY <2>1
  <2>6. /\ i <= p /\ Between(tokens, i, p) # {} /\ r[i] = Join(Between(tokens, i, p), r[k])
        /\ r[q] = Join(Between(tokens, q, j), r[j + 1])
    BY <2>1, <2>4, <2>5 DEF Faithful
  <2>7. r[i] = Join(Between(tokens, i, j), r[j + 1])
    BY <2>2, <2>3, <2>6, JoinTwice
  <2>8. Between(tokens, i, j) # {}
    BY <2>3, <2>6
  <2> QED BY <2>1, <2>3, <2>5, <2>7, <2>8 DEF p, q
<1>1. CASE Outside(tokens, "or", i, j) # {}
  <2> DEFINE k == First(Outside(tokens, "or", i, j))
             a == m[<<i, k - 1>>]
             b == m[<<k + 1, j>>]
  <2>1. k \in i..j /\ tokens[k] = "or"
    BY <1>0, <1>1, CutInside
  <2>2. m[<<i, j>>] = Either(a, b)
    BY <1>0, <1>1, SpanOr
  <2>3. k \in 1..Len(tokens)
    BY <2>1
  <2> HIDE DEF k
  <2>4. /\ a # "malformed" /\ b # "malformed"
        /\ m[<<i, j>>] = "true" <=> a = "true" \/ b = "true"
    <3> HIDE DEF a, b
    <3> QED BY <2>2, Connectives
  <2>5. /\ i <= j /\ Between(tokens, i, j) # {}
        /\ r[i] = Join(Between(tokens, i, j), r[j + 1])
        /\ Between(tokens, i, j)
             = Between(tokens, i, k - 1) \cup Between(tokens, k + 1, j)
        /\ Faithful(tokens, holding, r, m, i, k - 1)
        /\ Faithful(tokens, holding, r, m, k + 1, j)
    BY <1>a, <2>1, <2>4
  <2>6. /\ a = "true" => Between(tokens, i, k - 1) \cap holding # {}
        /\ b = "true" => Between(tokens, k + 1, j) \cap holding # {}
        /\ "and" \notin UsedIn(tokens) /\ Between(tokens, i, k - 1) \cap holding # {}
             => a = "true"
        /\ "and" \notin UsedIn(tokens) /\ Between(tokens, k + 1, j) \cap holding # {}
             => b = "true"
    BY <2>4, <2>5 DEF Faithful
  <2> HIDE DEF a, b
  <2> QED BY <2>4, <2>5, <2>6
<1>2. CASE Outside(tokens, "or", i, j) = {} /\ Outside(tokens, "and", i, j) # {}
  <2> DEFINE k == First(Outside(tokens, "and", i, j))
             a == m[<<i, k - 1>>]
             b == m[<<k + 1, j>>]
  <2>1. k \in i..j /\ tokens[k] = "and"
    BY <1>0, <1>2, CutInside
  <2>2. m[<<i, j>>] = Both(a, b)
    BY <1>0, <1>2, SpanAnd
  <2>3. k \in 1..Len(tokens)
    BY <2>1
  <2> HIDE DEF k
  <2>4. /\ a # "malformed" /\ b # "malformed"
        /\ m[<<i, j>>] = "true" <=> a = "true" /\ b = "true"
    <3> HIDE DEF a, b
    <3> QED BY <2>2, Connectives
  <2>5. /\ i <= j /\ Between(tokens, i, j) # {}
        /\ r[i] = Join(Between(tokens, i, j), r[j + 1])
        /\ Between(tokens, i, j)
             = Between(tokens, i, k - 1) \cup Between(tokens, k + 1, j)
        /\ Faithful(tokens, holding, r, m, i, k - 1)
        /\ Faithful(tokens, holding, r, m, k + 1, j)
    BY <1>a, <2>1, <2>4
  <2>6. /\ a = "true" => Between(tokens, i, k - 1) \cap holding # {}
        /\ b = "true" => Between(tokens, k + 1, j) \cap holding # {}
        /\ "and" \notin UsedIn(tokens) /\ Between(tokens, i, k - 1) \cap holding # {}
             => a = "true"
        /\ "and" \notin UsedIn(tokens) /\ Between(tokens, k + 1, j) \cap holding # {}
             => b = "true"
    BY <2>4, <2>5 DEF Faithful
  <2> HIDE DEF a, b
  <2>7. "and" \in UsedIn(tokens)
    BY <1>0, <2>1, <2>3
  <2> QED BY <2>4, <2>5, <2>6, <2>7
<1>3. CASE Whole(tokens, i, j) /\ tokens[i] = "not"
  <2>1. i \in 1..Len(tokens)
    BY <1>3 DEF Whole
  <2> QED BY <1>0, <1>3, <2>1
<1>4. CASE Whole(tokens, i, j) /\ tokens[i] = "("
  <2> DEFINE p == i + 1
             q == j - 1
             L == Between(tokens, i, j)
  <2>0. m[<<i, j>>] = IF Enclosed(tokens, i, j) THEN m[<<p, q>>] ELSE "malformed"
    BY <1>0, <1>4, SpanGroup
  <2>1. tokens[j] = ")" /\ m[<<i, j>>] = m[<<p, q>>] /\ m[<<p, q>>] # "malformed"
    BY <2>0 DEF Enclosed
  <2>2. i <= j /\ i # j
    <3>1. i <= j
      BY <1>4 DEF Whole
    <3> QED BY <1>4, <2>1, <3>1
  <2>3. /\ p \in 1..(Len(tokens) + 1) /\ q \in 0..Len(tokens) /\ q - p < j - i
        /\ i \in 1..Len(tokens) /\ j \in 1..Len(tokens) /\ i < j /\ q + 1 = j
    BY <2>2
  <2>4. L = Between(tokens, p, q)
    <3>1. tokens[i] \in Reserved /\ tokens[j] \in Reserved
      BY <1>4, <2>1 DEF Reserved
    <3> QED BY SMTT(20), <2>3, <3>1, BetweenGroup
  <2> HIDE DEF q, L
  <2>5. Faithful(tokens, holding, r, m, p, q)
    <3> HIDE DEF p
    <3> QED BY <2>3
  <2>6. /\ L # {} /\ r[p] = Join(L, r[j])
        /\ m[<<p, q>>] = "true" => L \cap holding # {}
        /\ "and" \notin UsedIn(tokens) /\ L \cap holding # {} => m[<<p, q>>] = "true"
    BY <2>1, <2>3, <2>4, <2>5 DEF Faithful
  <2>7. r[j] = [ok |-> TRUE, names |-> {}, pos |-> j + 1]
    BY <1>0, <2>1, <2>3, ReadCloses
  <2>8. r[p] = [ok |-> TRUE, names |-> L, pos |-> j + 1]
    <3> DEFINE y == r[j]
    <3>1. y.ok /\ y.names = {} /\ y.pos = j + 1
      BY <2>7
    <3> HIDE DEF y
    <3>2. Join(L, y) = [ok |-> TRUE, names |-> L \cup {}, pos |-> j + 1]
      BY <3>1 DEF Join
    <3>3. L \cup {} = L
      OBVIOUS
    <3> QED BY <2>6, <3>2, <3>3 DEF y
  <2>9. r[i] = Join(L, r[j + 1])
    <3>1. r[i] = IF r[p].ok /\ r[p].names # {} THEN Join(r[p].names, r[r[p].pos]) ELSE Bad
      BY <1>0, <1>4, <2>3, ReadOpens
    <3> HIDE DEF p
    <3>2. r[p].ok /\ r[p].names = L /\ r[p].pos = j + 1
      BY <2>8
    <3> QED BY <2>6, <3>1, <3>2
  <2> QED BY <2>1, <2>2, <2>6, <2>9 DEF L
<1>5. CASE Whole(tokens, i, j) /\ tokens[i] \notin Reserved /\ i = j
  <2>1. i \in 1..Len(tokens)
    BY <1>5
  <2>2. tokens[i] \in known
    BY <1>0, <1>5, <2>1
  <2>3. r[i] = Join({tokens[i]}, r[i + 1])
    BY <1>0, <1>5, <2>1, <2>2, ReadNames
  <2>4. Between(tokens, i, j) = {tokens[i]}
    <3>1. i..j = {i}
      BY <1>0, <1>5
    <3> HIDE DEF Reserved
    <3> QED BY <1>5, <3>1 DEF Between
  <2>5. m[<<i, j>>] = IF tokens[i] \in holding THEN "true" ELSE "false"
    BY <1>0, <1>5, SpanName
  <2> QED BY <1>0, <1>5, <2>3, <2>4, <2>5
<1>6. CASE \/ ~(i <= j)
           \/ /\ Whole(tokens, i, j) /\ tokens[i] \notin {"not", "("}
              /\ ~(tokens[i] \notin Reserved /\ i = j)
  BY <1>0, <1>6, SpanElse
<1> QED BY <1>0, <1>1, <1>2, <1>3, <1>4, <1>5, <1>6, SpanKinds

\* A well formed condition over existing names and without "not" compiles, to a
\* query of all its names.
LEMMA ConditionsAreRead ==
    ASSUME NEW tokens, Len(tokens) \in Nat, NEW known, NEW holding,
           UsedIn(tokens) \subseteq known \cup Reserved, "not" \notin UsedIn(tokens),
           Meaning(tokens, holding) # "malformed"
    PROVE  LET parsed == ParseBoolean(tokens, known)
           IN  /\ parsed.ok /\ known # {}
               /\ Meaning(tokens, holding) = "true" => parsed.names \cap holding # {}
               /\ "and" \notin UsedIn(tokens) /\ parsed.names \cap holding # {}
                    => Meaning(tokens, holding) = "true"
<1>1. PICK r : /\ IsReading(r, tokens, known)
               /\ ParseBoolean(tokens, known) = IF r[1].names = {} THEN Bad ELSE r[1]
  BY Parsed
<1>2. PICK m : /\ IsMeaning(m, tokens, holding)
               /\ Meaning(tokens, holding) = m[<<1, Len(tokens)>>]
  BY Means
<1> DEFINE n == Len(tokens)
           Good == {k \in 0..n : \A i \in 1..(n + 1), j \in 0..n :
                                   j - i + 1 <= k => Faithful(tokens, holding, r, m, i, j)}
<1>3. 0 \in Good
  <2> SUFFICES ASSUME NEW i \in 1..(n + 1), NEW j \in 0..n, j - i + 1 <= 0
               PROVE  Faithful(tokens, holding, r, m, i, j)
    OBVIOUS
  <2>1. \A a \in 1..(n + 1), b \in 0..n :
            i <= j /\ b - a < j - i => Faithful(tokens, holding, r, m, a, b)
    OBVIOUS
  <2> QED BY <1>1, <1>2, <2>1, FaithfulStep
<1>4. ASSUME NEW k \in 1..n, k - 1 \in Good PROVE k \in Good
  <2> SUFFICES ASSUME NEW i \in 1..(n + 1), NEW j \in 0..n, j - i + 1 <= k
               PROVE  Faithful(tokens, holding, r, m, i, j)
    OBVIOUS
  <2>1. \A a \in 1..(n + 1), b \in 0..n :
            i <= j /\ b - a < j - i => Faithful(tokens, holding, r, m, a, b)
    BY <1>4
  <2> QED BY <1>1, <1>2, <2>1, FaithfulStep
<1>5. Faithful(tokens, holding, r, m, 1, n)
  <2>1. n \in Good
    <3> HIDE DEF Good
    <3>1. \A k \in 0..n : k \in Good
      BY <1>3, <1>4, RangeInduction
    <3> QED BY <3>1
  <2>2. 1 \in 1..(n + 1) /\ n \in 0..n /\ n - 1 + 1 <= n
    OBVIOUS
  <2> QED BY <2>1, <2>2
<1> DEFINE L == Between(tokens, 1, n)
<1>6. /\ L # {} /\ r[1] = Join(L, r[n + 1])
      /\ Meaning(tokens, holding) = "true" => L \cap holding # {}
      /\ "and" \notin UsedIn(tokens) /\ L \cap holding # {} => Meaning(tokens, holding) = "true"
  BY <1>2, <1>5 DEF Faithful
<1>a. L \subseteq known
  BY DEF Between, UsedIn
<1> HIDE DEF L
<1>7. r[n + 1] = [ok |-> TRUE, names |-> {}, pos |-> n + 1]
  <2>1. n + 1 \in 1..(n + 1)
    OBVIOUS
  <2>2. r[n + 1] = ReadFrom(tokens, known, r, n + 1)
    BY <1>1, <2>1 DEF IsReading
  <2> QED BY <2>2, ReadEnds
<1>8. r[1] = [ok |-> TRUE, names |-> L, pos |-> n + 1]
  <2> DEFINE y == r[n + 1]
  <2>1. y.ok /\ y.names = {} /\ y.pos = n + 1
    BY <1>7
  <2> HIDE DEF y
  <2>2. Join(L, y) = [ok |-> TRUE, names |-> L \cup {}, pos |-> n + 1]
    BY <2>1 DEF Join
  <2>3. L \cup {} = L
    OBVIOUS
  <2> QED BY <1>6, <2>2, <2>3 DEF y
<1>9. ParseBoolean(tokens, known).ok /\ ParseBoolean(tokens, known).names = L
  <2>1. r[1].ok /\ r[1].names = L
    BY <1>8
  <2> QED BY <1>1, <1>6, <2>1
<1>10. known # {}
  BY <1>6, <1>a
<1> QED BY <1>6, <1>9, <1>10

----------------------------------------------------------------------------
(* Rules that compile and what they say.                                   *)

Oks == Seq({"ok"})

LEMMA NoFailure ==
    ASSUME NEW s \in Oks PROVE FirstFailure(s) = "ok"
<1>1. \A i \in DOMAIN s : s[i] = "ok"
  BY ElementOfSeq DEF Oks
<1> QED BY <1>1 DEF FirstFailure

\* The rules whose parts all compile.
Sound(rule, e) ==
    /\ rule.condition.form = "tokens" /\ rule.level = "known"
    /\ \A k \in Kept(rule) : CompileSelection(rule.selections[k]) = "ok"
    /\ Len(rule.selections) \in Nat /\ Len(rule.condition.tokens) \in Nat
    /\ DOMAIN rule.selections = 1..Len(rule.selections)
    /\ UsedIn(rule.condition.tokens) \subseteq NamesOf(rule) \cup Reserved
    /\ "not" \notin UsedIn(rule.condition.tokens)
    /\ Meaning(rule.condition.tokens, Holding(rule, e)) # "malformed"

LEMMA SoundRulesCompile ==
    ASSUME NEW rule, NEW e, Sound(rule, e) PROVE Compile(rule) = "ok"
<1> DEFINE first == << IF rule.condition.form = "missing" THEN "refused" ELSE "ok",
                       IF Kept(rule) = {} THEN "refused" ELSE "ok" >>
           second == [i \in DOMAIN rule.selections |->
                        IF i \in Kept(rule) THEN CompileSelection(rule.selections[i]) ELSE "ok"]
           third == << CompileCondition(rule),
                       CASE rule.level = "not a string" -> "raised"
                         [] rule.level = "unknown" -> "refused"
                         [] OTHER -> "ok" >>
<1>0. ParseBoolean(rule.condition.tokens, NamesOf(rule)).ok /\ NamesOf(rule) # {}
  BY ConditionsAreRead DEF Sound
<1>1. Kept(rule) # {}
  BY <1>0 DEF NamesOf
<1>2. first \in Oks
  <2>1. first = <<"ok", "ok">>
    BY <1>1 DEF Sound
  <2> QED BY <2>1 DEF Oks
<1>3. second \in Oks
  <2>1. \A i \in 1..Len(rule.selections) :
            (IF i \in Kept(rule) THEN CompileSelection(rule.selections[i]) ELSE "ok") \in {"ok"}
    BY DEF Sound
  <2>2. second \in [1..Len(rule.selections) -> {"ok"}] /\ Len(rule.selections) \in Nat
    BY <2>1 DEF Sound
  <2> HIDE DEF second
  <2> QED BY <2>2 DEF Oks
<1>4. third \in Oks
  <2>1. CompileCondition(rule) = "ok"
    BY <1>0 DEF Sound, CompileCondition
  <2>2. rule.level = "known"
    BY DEF Sound
  <2>3. (CASE rule.level = "not a string" -> "raised"
           [] rule.level = "unknown" -> "refused"
           [] OTHER -> "ok") = "ok"
    <3> DEFINE level == rule.level
    <3> HIDE DEF level
    <3>1. level = "known"
      BY <2>2 DEF level
    <3>2. (CASE level = "not a string" -> "raised"
             [] level = "unknown" -> "refused"
             [] OTHER -> "ok") = "ok"
      BY <3>1
    <3> QED BY <3>2 DEF level
  <2>4. third = <<"ok", "ok">>
    BY <2>1, <2>3
  <2> HIDE DEF third
  <2> QED BY <2>4 DEF Oks
<1>5. Compile(rule) = FirstFailure(first \o second \o third)
  BY DEF Compile
<1> HIDE DEF first, second, third
<1>6. first \o second \o third \in Oks
  <2>1. first \o second \in Oks
    BY <1>2, <1>3, ConcatProperties DEF Oks
  <2> HIDE DEF Oks
  <2>2. \A s, t \in Oks : s \o t \in Oks
    BY ConcatProperties DEF Oks
  <2> QED BY <1>4, <2>1, <2>2
<1> QED BY <1>5, <1>6, NoFailure

\* They are evaluated, unless the query fails, and they match as they say.
LEMMA SoundRulesMatch ==
    ASSUME NEW rule, NEW e, Sound(rule, e), Outcome(rule) # "raised"
    PROVE  LET says == Meaning(rule.condition.tokens, Holding(rule, e))
           IN  /\ Outcome(rule) = "ok"
               /\ says = "true" => Matches(rule, e)
               /\ "and" \notin UsedIn(rule.condition.tokens) /\ Matches(rule, e) => says = "true"
<1>1. Compile(rule) = "ok"
  BY SoundRulesCompile
<1>2. Outcome(rule) = "ok"
  BY <1>1 DEF Outcome
<1> DEFINE tokens == rule.condition.tokens
           known == NamesOf(rule)
           holding == Holding(rule, e)
           read == ParseBoolean(tokens, known).names \cap holding # {}
           says == Meaning(tokens, holding)
           plain == "and" \notin UsedIn(tokens)
<1>3. Matches(rule, e) <=> read
  BY DEF Matches, ConditionHolds, JoinClauses, Sound
<1>4. (says = "true" => read) /\ (plain /\ read => says = "true")
  <2>1. /\ Len(tokens) \in Nat /\ UsedIn(tokens) \subseteq known \cup Reserved
        /\ "not" \notin UsedIn(tokens) /\ Meaning(tokens, holding) # "malformed"
    BY DEF Sound
  <2> HIDE DEF tokens, known, holding
  <2> QED BY <2>1, ConditionsAreRead
<1> HIDE DEF read
<1> QED BY <1>2, <1>3, <1>4

\* A well formed condition without "not" never misses what it says, and without
\* "and" it triggers on nothing else, whatever it is made of (_parse_boolean).
THEOREM ConditionsKeepTheirPromise == Spec => []NeverMissesWhatItSays
<1>1. ASSUME DetectionInv PROVE NeverMissesWhatItSays
  <2> SUFFICES ASSUME NEW i \in 1..(next - 1)
               PROVE  LET rule == rules[i]
                          tokens == rule.condition.tokens
                          says == Meaning(tokens, Holding(rule, event))
                          used == {tokens[k] : k \in DOMAIN tokens}
                      IN  ( /\ rule.condition.form = "tokens" /\ rule.level = "known"
                            /\ \A k \in Kept(rule) : CompileSelection(rule.selections[k]) = "ok"
                            /\ used \subseteq NamesOf(rule) \cup {"(", ")", "and", "or"}
                            /\ "not" \notin used
                            /\ says # "malformed" )
                          => /\ says = "true" => \E k \in DOMAIN triggered : triggered[k] = i
                             /\ "and" \notin used /\ (\E k \in DOMAIN triggered : triggered[k] = i)
                                  => says = "true"
    BY DEF NeverMissesWhatItSays
  <2> DEFINE rule == rules[i]
             tokens == rule.condition.tokens
             says == Meaning(tokens, Holding(rule, event))
             used == {tokens[k] : k \in DOMAIN tokens}
  <2>1. rule \in Rules
    <3>1. i \in 1..Len(rules) /\ rules \in Seq(Rules)
      BY <1>1 DEF DetectionInv, Inputs, Stages
    <3> HIDE DEF Rules
    <3> QED BY <3>1
  <2>2. tokens \in Seq(STRING) /\ rule.selections \in Seq(Selections)
    BY <2>1 DEF Rules, Conditions
  <2>3. /\ Len(tokens) \in Nat /\ used = UsedIn(tokens)
        /\ Len(rule.selections) \in Nat /\ DOMAIN rule.selections = 1..Len(rule.selections)
    BY <2>2, LenProperties DEF UsedIn
  <2>4. /\ Outcome(rule) # "raised"
        /\ (\E k \in DOMAIN triggered : triggered[k] = i)
             <=> Outcome(rule) = "ok" /\ Matches(rule, event)
    <3>1. DOMAIN triggered = 1..Len(triggered)
      BY <1>1, LenProperties DEF DetectionInv, InOrder
    <3> QED BY <1>1, <3>1 DEF DetectionInv, Evaluated, Triggers
  <2> HIDE DEF rule
  <2> SUFFICES ASSUME rule.condition.form = "tokens", rule.level = "known",
                      \A k \in Kept(rule) : CompileSelection(rule.selections[k]) = "ok",
                      used \subseteq NamesOf(rule) \cup {"(", ")", "and", "or"},
                      "not" \notin used, says # "malformed"
               PROVE  /\ says = "true" => \E k \in DOMAIN triggered : triggered[k] = i
                      /\ "and" \notin used /\ (\E k \in DOMAIN triggered : triggered[k] = i)
                           => says = "true"
    BY DEF rule
  <2>5. Sound(rule, event)
    BY <2>3 DEF Sound, Reserved
  <2> QED BY <2>3, <2>4, <2>5, SoundRulesMatch
<1> QED BY <1>1, Invariant, PTL

\* What derive makes of the action of a failed login is kept as the event's
\* authentication result.
LEMMA FailedActions ==
    ASSUME NEW p \in Payload, p["authentication_result"] = Absent, p["result"] = Absent,
           IsText(p["action"]), p["action"].word \in FailWord
    PROVE  Normalized(p, Now)["authentication_result"] = T("failure")
<1>1. Mapped(p)["authentication_result"] = Absent
  <2>1. \A i \in 1..20 : FieldMapping[i][2] = "authentication_result" =>
            FieldMapping[i][1] \in {"authentication_result", "result"}
    BY DEF FieldMapping
  <2>2. "authentication_result" \in Canonical
    BY SomeColumns
  <2> QED BY <2>1, <2>2, MappedFrom
<1>2. p["action"] \in Text
  <2>1. "action" \in Source
    BY DEF Source
  <2>2. p["action"] \in Value \cup {Absent}
    BY <2>1 DEF Payload
  <2> QED BY <2>2, Kinds DEF Value
<1>3. Lower(Strip(p["action"])).word = p["action"].word
  BY <1>2, TextOps
<1>4. ActionResult(p["action"]) = T("failure")
  <2> DEFINE w == p["action"].word
  <2>1. w \in FailWord /\ (w \in Allowed => w = "failure")
    BY WordsKnown
  <2> HIDE DEF w
  <2>2. ActionResult(p["action"]) = CASE w \in Allowed -> T(w)
                                      [] w \notin Allowed /\ w \in FailWord -> T("failure")
                                      [] w \notin Allowed \cup FailWord /\ w \in LoginWord -> T("success")
                                      [] OTHER -> Absent
    BY <1>3 DEF ActionResult, w
  <2> QED BY <2>1, <2>2
<1>5. Derived(Mapped(p), p)["authentication_result"] = T("failure")
  <2>1. Mapped(p) \in Columns
    BY MappedTyped DEF Columns
  <2> QED BY <1>1, <1>4, <2>1, DerivedColumns
<1>6. AuthResult(T("failure")) = T("failure")
  <2>1. T("failure") \in Text /\ T("failure").word = "failure" /\ IsText(T("failure"))
    BY WordText, WordsKnown, Kinds
  <2>2. Lower(Strip(T("failure"))) = T("failure")
    BY <2>1, TextOps
  <2>3. "failure" \in Allowed
    BY WordsKnown
  <2> QED BY <2>1, <2>2, <2>3 DEF AuthResult
<1> QED BY <1>5, <1>6, NormalizedColumns

\* What the seeded brute-force rule is made of.
LEMMA BruteforceIsSound ==
    ASSUME NEW e, e["authentication_result"] = T("failure")
    PROVE  /\ Sound(AuthBruteforce, e)
           /\ Meaning(AuthBruteforce.condition.tokens, Holding(AuthBruteforce, e)) = "true"
<1> DEFINE rule == AuthBruteforce
           c == Clause("authentication_result", <<>>, <<T("failure")>>)
           s == Selection("auth_fail", <<c>>)
           tokens == <<"auth_fail">>
<1>1. /\ c.field = "authentication_result" /\ c.modifiers = <<>> /\ c.values = <<T("failure")>>
      /\ Modifier(c) = "none"
  BY DEF Clause, Modifier
<1>2. /\ s.name = "auth_fail" /\ s.mapping /\ s.clauses = <<c>>
  BY DEF Selection
<1>3. /\ rule.selections = <<s>> /\ rule.condition.form = "tokens" /\ rule.level = "known"
      /\ rule.condition.tokens = tokens
  BY DEF AuthBruteforce
<1> HIDE DEF rule, c, s
<1>4. Kept(rule) = {1} /\ NamesOf(rule) = {"auth_fail"}
  BY <1>2, <1>3 DEF Kept, NamesOf
<1>5. CompileSelection(s) = "ok"
  <2>1. CompileClause(c) = "ok"
    <3>1. c.field # "keywords" /\ c.field \in AllowedField /\ Len(c.values) = 1
      BY <1>1, SomeColumns DEF AllowedField
    <3>2. [i \in DOMAIN c.values |-> CompileValue(Modifier(c), c.values[i])] \in Oks
      <4>1. \A v : CompileValue("none", v) = "ok"
        BY DEF CompileValue, TextOperator, NumericOperator
      <4>2. [i \in DOMAIN c.values |-> CompileValue(Modifier(c), c.values[i])] \in [1..1 -> {"ok"}]
        BY <1>1, <4>1
      <4> QED BY <4>2 DEF Oks
    <3> QED BY <3>1, <3>2, NoFailure DEF CompileClause
  <2>2. [i \in DOMAIN s.clauses |-> CompileClause(s.clauses[i])] \in Oks
    <3>1. [i \in DOMAIN s.clauses |-> CompileClause(s.clauses[i])] \in [1..1 -> {"ok"}]
      BY <1>2, <2>1
    <3> QED BY <3>1 DEF Oks
  <2> QED BY <1>2, <2>2, NoFailure DEF CompileSelection
<1>6. Holding(rule, e) = {"auth_fail"}
  <2>1. ValueHolds(e["authentication_result"], "none", T("failure"))
    <3> DEFINE t == T("failure")
    <3>1. t \in Text
      BY WordText, WordsKnown
    <3> HIDE DEF t
    <3>2. t # Absent
      BY <3>1, Kinds
    <3>3. ValueHolds(t, "none", t)
      BY <3>2 DEF ValueHolds, TextOperator
    <3> QED BY <3>3 DEF t
  <2>2. ClauseHolds(c, e)
    <3>1. c.field # "keywords" /\ Len(c.values) = 1 /\ 1 \in DOMAIN c.values
      BY <1>1
    <3> QED BY <1>1, <2>1, <3>1 DEF ClauseHolds
  <2>3. SelectionHolds(s, e)
    BY <1>2, <2>2 DEF SelectionHolds
  <2> QED BY <1>2, <1>3, <1>4, <2>3 DEF Holding
<1>7. Len(tokens) = 1 /\ tokens[1] = "auth_fail" /\ UsedIn(tokens) = {"auth_fail"}
  BY DEF UsedIn
<1>8. Meaning(tokens, Holding(rule, e)) = "true"
  <2> HIDE DEF tokens
  <2> DEFINE H == Holding(rule, e)
  <2>0. "auth_fail" \in H /\ Len(tokens) \in Nat
    BY <1>6, <1>7
  <2> HIDE DEF H
  <2>1. PICK m : IsMeaning(m, tokens, H) /\ Meaning(tokens, H) = m[<<1, Len(tokens)>>]
    BY <2>0, Means
  <2>2. m[<<1, 1>>] = SpanSays(tokens, H, m, 1, 1)
    BY <1>7, <2>1 DEF IsMeaning
  <2>3. Whole(tokens, 1, 1)
    BY <1>7 DEF Whole, Outside
  <2>4. tokens[1] \notin Reserved
    BY <1>7 DEF Reserved
  <2>5. m[<<1, 1>>] = "true"
    BY <1>7, <2>0, <2>2, <2>3, <2>4, SpanName
  <2> QED BY <1>7, <2>1, <2>5 DEF H
<1>9. \A k \in Kept(rule) : CompileSelection(rule.selections[k]) = "ok"
  BY <1>3, <1>4, <1>5
<1>10. /\ UsedIn(tokens) \subseteq NamesOf(rule) \cup Reserved
       /\ "not" \notin UsedIn(tokens)
  BY <1>4, <1>7
<1>11. Len(rule.selections) = 1 /\ DOMAIN rule.selections = 1..1
  BY <1>3
<1>12. Sound(rule, e)
  <2> HIDE DEF tokens
  <2> QED BY <1>3, <1>7, <1>8, <1>9, <1>10, <1>11 DEF Sound
<1> QED BY <1>3, <1>8, <1>12 DEF rule

\* An upload whose only sign of a failed login is its action column makes the
\* seeded brute-force rule trigger, whatever the words for a failure are
\* (derive).
THEOREM FailedActionsTrigger == Spec => []FailedActionTriggers
<1>1. ASSUME DetectionInv PROVE FailedActionTriggers
  <2> SUFFICES ASSUME NEW i \in 1..(next - 1), rules[i] = AuthBruteforce,
                      payload["authentication_result"] = Absent, payload["result"] = Absent,
                      IsText(payload["action"]), payload["action"].word \in FailWord
               PROVE  \E k \in DOMAIN triggered : triggered[k] = i
    BY DEF FailedActionTriggers
  <2>1. event = Normalized(payload, Now)
    BY <1>1 DEF DetectionInv, Stages, EventMade
  <2>2. event["authentication_result"] = T("failure")
    BY <1>1, <2>1, FailedActions DEF DetectionInv, Inputs
  <2>3. /\ Sound(AuthBruteforce, event)
        /\ Meaning(AuthBruteforce.condition.tokens, Holding(AuthBruteforce, event)) = "true"
    BY <2>2, BruteforceIsSound
  <2>4. Outcome(rules[i]) # "raised"
    BY <1>1 DEF DetectionInv, Evaluated
  <2>5. Outcome(AuthBruteforce) = "ok" /\ Matches(AuthBruteforce, event)
    BY <2>3, <2>4, SoundRulesMatch
  <2>6. \E k \in 1..Len(triggered) : triggered[k] = i
    BY <1>1, <2>5 DEF DetectionInv, Evaluated, Triggers
  <2>7. DOMAIN triggered = 1..Len(triggered)
    BY <1>1, LenProperties DEF DetectionInv, InOrder
  <2> QED BY <2>6, <2>7
<1> QED BY <1>1, Invariant, PTL

=============================================================================
