------------------------- MODULE BodyPayloadProofs -------------------------
(***************************************************************************)
(* What becomes of a body, for texts of any length and any limit, phone    *)
(* and card numbers of any two different lengths.                          *)
(***************************************************************************)
EXTENDS MCBodyPayload, OrderProofs
LOCAL INSTANCE SequencesExt
LOCAL INSTANCE FiniteSetsExt

Text      == Seq(Symbols)
Harmless  == Symbols \ {"k", "b"}
Wanted(body) == IF body.json > 0 THEN Harmless \ {"s"} ELSE Harmless
Wide(t)   == {i \in DOMAIN t : t[i] = "u"}
Cut(t, n) == SubSeq(t, 1, n)

----------------------------------------------------------------------------
(* Prefixes and their sizes.                                                *)

LEMMA CutFacts ==
  ASSUME NEW S, NEW t \in Seq(S), NEW n \in 0..Len(t)
  PROVE  /\ Cut(t, n) \in Seq(S) /\ Len(Cut(t, n)) = n /\ DOMAIN Cut(t, n) = 1..n
         /\ \A i \in 1..n : i \in DOMAIN t /\ Cut(t, n)[i] = t[i]
<1>1. n \in Nat /\ Len(t) \in Nat /\ n <= Len(t)
  OBVIOUS
<1>2. /\ SubSeq(t, 1, n) \in Seq(S)
      /\ Len(SubSeq(t, 1, n)) = IF 1 <= n THEN n - 1 + 1 ELSE 0
      /\ \A i \in 1..(n - 1 + 1) : SubSeq(t, 1, n)[i] = t[1 + i - 1]
  BY <1>1, SubSeqProperties
<1>3. Len(SubSeq(t, 1, n)) = n
  BY <1>1, <1>2
<1>4. DOMAIN SubSeq(t, 1, n) = 1..n
  BY <1>2, <1>3
<1>5. \A i \in 1..n : i \in DOMAIN t /\ SubSeq(t, 1, n)[i] = t[i]
  BY <1>1, <1>2
<1> QED BY <1>2, <1>3, <1>4, <1>5 DEF Cut

(* A text is no shorter than its prefixes, and longer than the others.       *)
LEMMA SizeFacts ==
  ASSUME NEW t \in Text, NEW n \in 0..Len(t), NEW m \in 0..n
  PROVE  /\ Size(Cut(t, n)) \in Nat
         /\ Size(Cut(t, m)) <= Size(Cut(t, n))
         /\ m < n => Size(Cut(t, m)) < Size(Cut(t, n))
<1>1. n \in Nat /\ m \in Nat /\ m <= n /\ m \in 0..Len(t)
  BY DEF Text
<1>2. \A k \in 0..Len(t) : IsFiniteSet(1..k) /\ Wide(Cut(t, k)) \in SUBSET (1..k)
  <2> TAKE k \in 0..Len(t)
  <2>1. DOMAIN Cut(t, k) = 1..k /\ k \in Int
    BY CutFacts DEF Text
  <2> QED BY <2>1, FS_Interval DEF Wide
<1>3. /\ IsFiniteSet(Wide(Cut(t, n))) /\ IsFiniteSet(Wide(Cut(t, m)))
      /\ Cardinality(Wide(Cut(t, n))) \in Nat /\ Cardinality(Wide(Cut(t, m))) \in Nat
  BY <1>1, <1>2, FS_Subset, FS_CardinalityType
<1>4. Wide(Cut(t, m)) \in SUBSET Wide(Cut(t, n))
  <2>1. \A i \in 1..m : i \in 1..n /\ Cut(t, m)[i] = Cut(t, n)[i]
    BY <1>1, CutFacts DEF Text
  <2>2. DOMAIN Cut(t, m) = 1..m /\ DOMAIN Cut(t, n) = 1..n
    BY <1>1, CutFacts DEF Text
  <2> QED BY <2>1, <2>2 DEF Wide
<1>5. Cardinality(Wide(Cut(t, m))) <= Cardinality(Wide(Cut(t, n)))
  BY <1>3, <1>4, FS_Subset
<1>6. /\ Size(Cut(t, n)) = n + 2 * Cardinality(Wide(Cut(t, n)))
      /\ Size(Cut(t, m)) = m + 2 * Cardinality(Wide(Cut(t, m)))
  <2>1. Len(Cut(t, n)) = n /\ Len(Cut(t, m)) = m
    BY <1>1, CutFacts DEF Text
  <2> QED BY <2>1 DEF Size, Wide
<1> QED BY <1>1, <1>3, <1>5, <1>6

LEMMA WholeIsCut ==
  ASSUME NEW S, NEW t \in Seq(S)
  PROVE  Cut(t, Len(t)) = t
<1>1. Len(t) \in 0..Len(t)
  OBVIOUS
<1>2. Cut(t, Len(t)) \in Seq(S) /\ Len(Cut(t, Len(t))) = Len(t) /\ \A i \in 1..Len(t) : Cut(t, Len(t))[i] = t[i]
  BY <1>1, CutFacts
<1> QED BY <1>2, SeqEqual

(* truncateUTF8 returns the longest prefix within the limit.                 *)
LEMMA TruncateFacts ==
  ASSUME NEW t \in Text, NEW limit \in Nat
  PROVE  \E n \in 0..Len(t) :
           /\ TruncateUTF8(t, limit) = Cut(t, n)
           /\ Size(Cut(t, n)) <= limit
           /\ n < Len(t) => Size(Cut(t, n + 1)) > limit
           /\ Size(t) > limit <=> n < Len(t)
<1>0. Len(t) \in Nat /\ Cut(t, Len(t)) = t
  BY WholeIsCut DEF Text
<1>1. CASE Size(t) <= limit
  <2>1. Size(t) \in Nat
    BY <1>0, SizeFacts
  <2> WITNESS Len(t) \in 0..Len(t)
  <2> QED BY <1>0, <1>1, <2>1 DEF TruncateUTF8
<1>2. CASE ~(Size(t) <= limit)
  <2> DEFINE fits == {k \in 0..limit : ValidCut(t, k)}
  <2>0. Prefixes(t) = {Cut(t, k) : k \in 0..Len(t)}
    BY DEF Prefixes, Cut
  <2>1. 0 \in fits
    <3>1. Size(Cut(t, 0)) = 0
      <4>1. Len(Cut(t, 0)) = 0 /\ DOMAIN Cut(t, 0) = {}
        BY <1>0, CutFacts DEF Text
      <4>2. Wide(Cut(t, 0)) = {}
        BY <4>1 DEF Wide
      <4> QED BY <4>1, <4>2, FS_EmptySet DEF Size, Wide
    <3> QED BY <1>0, <2>0, <3>1 DEF ValidCut
  <2>2. \E k \in fits : \A j \in fits : k >= j
    <3> DEFINE from == {limit - k : k \in fits}
    <3>1. from \subseteq Nat /\ from # {}
      BY <2>1
    <3>2. PICK d \in from : \A e \in from : d <= e
      BY <3>1, LeastExists
    <3>3. PICK k \in fits : d = limit - k
      BY <3>2
    <3>4. ASSUME NEW j \in fits PROVE k >= j
      <4>1. limit - j \in from
        OBVIOUS
      <4>2. limit - k <= limit - j
        BY <3>2, <3>3, <4>1
      <4>3. k \in Nat /\ j \in Nat
        OBVIOUS
      <4> QED BY <4>2, <4>3
    <3> QED BY <3>4
  <2> DEFINE top == Max(fits)
  <2>3. top \in fits /\ \A j \in fits : top >= j
    BY <2>2 DEF Max
  <2>4. TruncateUTF8(t, limit) = CHOOSE p \in Prefixes(t) : Size(p) = top
    BY <1>2 DEF TruncateUTF8
  <2>5. top \in 0..limit /\ ValidCut(t, top)
    BY <2>3
  <2>6. \A j \in 0..limit : ValidCut(t, j) => top >= j
    BY <2>3
  <2> HIDE DEF top, fits
  <2>7. \E p \in Prefixes(t) : Size(p) = top
    BY <2>5 DEF ValidCut
  <2>8. TruncateUTF8(t, limit) \in Prefixes(t) /\ Size(TruncateUTF8(t, limit)) = top
    BY <2>4, <2>7
  <2>9. PICK n \in 0..Len(t) : TruncateUTF8(t, limit) = Cut(t, n)
    BY <2>0, <2>8
  <2>10. Size(t) \in Nat /\ n # Len(t)
    BY <1>0, <1>2, <2>5, <2>8, <2>9, SizeFacts
  <2>11. n < Len(t) /\ n + 1 \in 0..Len(t)
    BY <1>0, <2>10
  <2>12. Size(Cut(t, n + 1)) \in Nat /\ Size(Cut(t, n)) < Size(Cut(t, n + 1))
    <3>1. n \in 0..(n + 1) /\ n < n + 1
      OBVIOUS
    <3> QED BY <2>11, <3>1, SizeFacts
  <2>13. Size(Cut(t, n + 1)) <= limit => FALSE
    <3> SUFFICES ASSUME Size(Cut(t, n + 1)) <= limit PROVE FALSE
      OBVIOUS
    <3>1. ValidCut(t, Size(Cut(t, n + 1)))
      BY <2>0, <2>11 DEF ValidCut
    <3>2. Size(Cut(t, n + 1)) \in 0..limit
      BY <2>12
    <3>3. top >= Size(Cut(t, n + 1))
      BY <2>6, <3>1, <3>2
    <3> QED BY <2>5, <2>8, <2>9, <2>12, <3>3
  <2>14. Size(Cut(t, n + 1)) > limit
    BY <2>12, <2>13
  <2>15. Size(Cut(t, n)) <= limit
    BY <2>5, <2>8, <2>9
  <2>16. Size(t) > limit
    BY <1>2, <2>10
  <2> QED BY <2>9, <2>11, <2>14, <2>15, <2>16
<1> QED BY <1>1, <1>2

----------------------------------------------------------------------------
(* Redaction.  FieldsRedacted replaces one symbol at a time.                 *)

Pieces(t, decoded) == [i \in DOMAIN t |-> Redacted(t[i], decoded)]

(* Joining pieces, one after the other, is defined.                          *)
LEMMA JoinExists ==
  ASSUME NEW pieces, NEW n \in Nat
  PROVE  \E f : f = [i \in 1..n |-> IF i = 1 THEN pieces[i] ELSE f[i - 1] \o pieces[i]]
<1> DEFINE Joins(f, k) == f = [i \in 1..k |-> IF i = 1 THEN pieces[i] ELSE f[i - 1] \o pieces[i]]
           Missing     == {k \in Nat : ~(\E f : Joins(f, k))}
<1>1. SUFFICES ASSUME Missing # {} PROVE FALSE
  BY DEF Missing
<1>2. Missing \subseteq Nat
  OBVIOUS
<1>3. PICK k \in Missing : \A j \in Missing : k <= j
  BY <1>1, <1>2, LeastExists
<1>4. k \in Nat /\ ~(\E f : Joins(f, k))
  BY <1>3
<1>5. k # 0
  <2>1. Joins([i \in 1..0 |-> 0], 0)
    OBVIOUS
  <2> QED BY <1>4, <2>1
<1>6. PICK g : Joins(g, k - 1)
  <2>1. k - 1 \in Nat /\ ~(k <= k - 1)
    BY <1>4, <1>5
  <2> QED BY <1>3, <2>1
<1> DEFINE f == [i \in 1..k |-> IF i = 1 THEN pieces[i] ELSE g[i - 1] \o pieces[i]]
<1>7. \A i \in 1..(k - 1) : f[i] = g[i]
  <2> TAKE i \in 1..(k - 1)
  <2>1. i \in 1..k
    BY <1>4
  <2> QED BY <1>6, <2>1
<1>8. Joins(f, k)
  <2>1. \A i \in 1..k : i # 1 => i - 1 \in 1..(k - 1)
    BY <1>4
  <2>2. \A i \in 1..k : i # 1 => g[i - 1] = f[i - 1]
    BY <1>7, <2>1
  <2> QED BY <2>2
<1> QED BY <1>4, <1>8

(* What each symbol becomes, the text consists of.                           *)
LEMMA FieldsRedactedFacts ==
  ASSUME NEW t \in Text, NEW decoded \in BOOLEAN, NEW S,
         \A symbol \in Symbols : Redacted(symbol, decoded) \in Seq(S)
  PROVE  FieldsRedacted(t, decoded) \in Seq(S)
<1> DEFINE s == Pieces(t, decoded)
           n == Len(t)
<1>1. n \in Nat /\ DOMAIN t = 1..n /\ \A i \in 1..n : t[i] \in Symbols
  BY DEF Text
<1>2. \A i \in 1..n : s[i] \in Seq(S)
  BY <1>1 DEF Pieces
<1>3. s \in Seq(Seq(S)) /\ Len(s) = n
  <2>1. DOMAIN s = 1..n /\ s = [i \in 1..n |-> s[i]]
    BY <1>1 DEF Pieces
  <2> HIDE DEF s
  <2>2. s \in [1..n -> Seq(S)]
    BY <1>2, <2>1
  <2>3. s \in Seq(Seq(S))
    BY <1>1, <2>2, IsASeq
  <2>4. DOMAIN s = 1..Len(s) /\ Len(s) \in Nat
    BY <2>3
  <2> QED BY <1>1, <2>1, <2>3, <2>4
<1>4. FieldsRedacted(t, decoded) = FlattenSeq(s)
  BY DEF FieldsRedacted, Pieces
<1> HIDE DEF s
<1>5. CASE n = 0
  BY <1>3, <1>4, <1>5 DEF FlattenSeq
<1>6. CASE n # 0
  <2> DEFINE Joined == CHOOSE f : f = [i \in 1..Len(s) |-> IF i = 1 THEN s[i] ELSE f[i - 1] \o s[i]]
  <2>1. Joined = [i \in 1..Len(s) |-> IF i = 1 THEN s[i] ELSE Joined[i - 1] \o s[i]]
    <3>1. Len(s) \in Nat
      BY <1>1, <1>3
    <3>2. \E f : f = [i \in 1..Len(s) |-> IF i = 1 THEN s[i] ELSE f[i - 1] \o s[i]]
      BY <3>1, JoinExists
    <3> QED BY <3>2, Zenon
  <2>2. FieldsRedacted(t, decoded) = Joined[n]
    BY <1>3, <1>4, <1>6 DEF FlattenSeq
  <2> HIDE DEF Joined
  <2>3. \A i \in 1..n : Joined[i] = IF i = 1 THEN s[i] ELSE Joined[i - 1] \o s[i]
    BY <1>3, <2>1
  <2> DEFINE Wrong == {i \in 1..n : ~(Joined[i] \in Seq(S))}
  <2>4. Wrong = {}
    <3> SUFFICES ASSUME Wrong # {} PROVE FALSE
      OBVIOUS
    <3>0. Wrong \subseteq Nat
      BY <1>1
    <3>1. PICK i \in Wrong : \A j \in Wrong : i <= j
      BY <3>0, LeastExists
    <3>2. i \in 1..n /\ ~(Joined[i] \in Seq(S))
      BY <3>1
    <3>3. i # 1
      BY <1>2, <2>3, <3>2
    <3>4. i - 1 \in 1..n /\ ~(i <= i - 1)
      BY <1>1, <3>2, <3>3
    <3>5. Joined[i - 1] \in Seq(S)
      BY <3>1, <3>4
    <3>6. Joined[i] = Joined[i - 1] \o s[i]
      BY <2>3, <3>2, <3>3
    <3> QED BY <1>2, <3>2, <3>5, <3>6
  <2>5. n \in 1..n
    BY <1>1, <1>6
  <2> QED BY <2>2, <2>4, <2>5
<1> QED BY <1>5, <1>6

LEMMA RedactedFacts ==
  ASSUME NEW S, "w" \in S, "x" \in S, "r" \in S, "c" \in S, NEW decoded \in BOOLEAN,
         NEW symbol, symbol \in S \/ symbol \in {"k", "b"} \/ (symbol = "s" /\ decoded)
  PROVE  Redacted(symbol, decoded) \in Seq(S)
<1>1. <<"w", "x", "r", "x">> \in Seq(S) /\ <<"w", "x", "r", "x", "c">> \in Seq(S)
  OBVIOUS
<1>2. symbol \in S => <<symbol>> \in Seq(S)
  OBVIOUS
<1>3. CASE symbol = "k" \/ (symbol = "s" /\ decoded)
  BY <1>1, <1>3 DEF Redacted
<1>4. CASE ~(symbol = "k" \/ (symbol = "s" /\ decoded)) /\ symbol = "b"
  BY <1>1, <1>4 DEF Redacted
<1>5. CASE ~(symbol = "k" \/ (symbol = "s" /\ decoded)) /\ symbol # "b"
  <2>1. Redacted(symbol, decoded) = <<symbol>>
    BY <1>5 DEF Redacted
  <2> QED BY <1>2, <1>5, <2>1
<1> QED BY <1>3, <1>4, <1>5

LEMMA RedactFieldsFacts ==
  ASSUME NEW body, body.text \in Text, body.json \in 0..Len(body.text)
  PROVE  RedactFields(body) \in Seq(Wanted(body))
<1>1. CASE body.json > 0
  <2>1. \A symbol \in Symbols : Redacted(symbol, TRUE) \in Seq(Harmless \ {"s"})
    BY RedactedFacts DEF Harmless, Symbols
  <2>2. SubSeq(body.text, 1, body.json) \in Text
    BY CutFacts DEF Text, Cut
  <2> QED BY <1>1, <2>1, <2>2, FieldsRedactedFacts DEF RedactFields, Wanted
<1>2. CASE ~(body.json > 0)
  <2>1. \A symbol \in Symbols : Redacted(symbol, FALSE) \in Seq(Harmless)
    BY RedactedFacts DEF Harmless, Symbols
  <2> QED BY <1>2, <2>1, FieldsRedactedFacts DEF RedactFields, Wanted
<1> QED BY <1>1, <1>2

LEMMA WantedFacts ==
  ASSUME NEW body
  PROVE  /\ "*" \in Wanted(body) /\ Wanted(body) \subseteq Harmless /\ Wanted(body) \subseteq Symbols
         /\ body.json > 0 => "s" \notin Wanted(body)
BY DEF Wanted, Harmless, Symbols

----------------------------------------------------------------------------
(* Masks.  A covered position is that of a digit.                            *)

DigitsOf(t) == {i \in DOMAIN t : t[i] = "d"}

LEMMA CoveredFacts ==
  ASSUME NEW S, NEW t \in Seq(S), NEW kind \in {Phone, Card}, NEW q \in Covered(t, kind)
  PROVE  /\ q \in DigitsOf(t)
         /\ \E i \in DOMAIN t : IsNumber(t, kind, i) /\ q \in i..(i + kind.digits - 1)
<1>1. kind.digits \in Nat \ {0} /\ kind.head \in Nat /\ kind.tail \in Nat
  BY PayloadAssumption
<1>2. PICK i \in DOMAIN t :
        IsNumber(t, kind, i) /\ q \in (i + kind.head)..(i + kind.digits - kind.tail - 1)
  BY DEF Covered
<1>3. i \in Nat /\ 1 <= i /\ DOMAIN t = 1..Len(t) /\ Len(t) \in Nat
  OBVIOUS
<1>4. q \in i..(i + kind.digits - 1)
  BY <1>1, <1>2, <1>3
<1>5. i + kind.digits - 1 <= Len(t) /\ t[q] = "d"
  BY <1>2, <1>4 DEF IsNumber
<1>6. q \in DOMAIN t
  BY <1>1, <1>3, <1>4, <1>5
<1> QED BY <1>2, <1>4, <1>5, <1>6 DEF DigitsOf

LEMMA MaskFacts ==
  ASSUME NEW S, "*" \in S, NEW t \in Seq(S), NEW kind \in {Phone, Card}
  PROVE  /\ Mask(t, kind) \in Seq(S)
         /\ DOMAIN Mask(t, kind) = DOMAIN t
         /\ \A i \in DOMAIN t : Mask(t, kind)[i] = IF i \in Covered(t, kind) THEN "*" ELSE t[i]
<1>1. DOMAIN t = 1..Len(t) /\ Len(t) \in Nat /\ \A i \in DOMAIN t : t[i] \in S
  OBVIOUS
<1>2. /\ DOMAIN Mask(t, kind) = 1..Len(t)
      /\ \A i \in DOMAIN t : Mask(t, kind)[i] = IF i \in Covered(t, kind) THEN "*" ELSE t[i]
  BY <1>1 DEF Mask
<1>3. Mask(t, kind) \in [1..Len(t) -> S]
  <2>1. Mask(t, kind) = [i \in 1..Len(t) |-> Mask(t, kind)[i]]
    BY <1>1 DEF Mask
  <2> QED BY <1>1, <1>2, <2>1
<1> QED BY <1>1, <1>2, <1>3, IsASeq

(* A phone number and a card number have no digit in common.                  *)
LEMMA NumbersApart ==
  ASSUME NEW S, NEW t \in Seq(S), NEW i \in DOMAIN t, NEW k \in DOMAIN t,
         IsNumber(t, Phone, i), IsNumber(t, Card, k),
         NEW q \in i..(i + Phone.digits - 1), q \in k..(k + Card.digits - 1)
  PROVE  FALSE
<1> DEFINE j == i + Phone.digits - 1
           l == k + Card.digits - 1
<1>1. Phone.digits \in Nat \ {0} /\ Card.digits \in Nat \ {0} /\ Phone.digits # Card.digits
  BY PayloadAssumption
<1>2. /\ i \in Nat /\ k \in Nat /\ 1 <= i /\ 1 <= k /\ Len(t) \in Nat /\ DOMAIN t = 1..Len(t)
      /\ j \in Nat /\ l \in Nat /\ q \in Nat /\ i <= q /\ q <= j /\ k <= q /\ q <= l
  BY <1>1
<1>3. /\ j <= Len(t) /\ \A x \in i..j : t[x] = "d"
      /\ i - 1 \notin DOMAIN t \/ t[i - 1] \notin {"w", "d", "c"}
      /\ j + 1 \notin DOMAIN t \/ t[j + 1] \notin {"w", "d", "c"}
  BY DEF IsNumber
<1>4. /\ l <= Len(t) /\ \A x \in k..l : t[x] = "d"
      /\ k - 1 \notin DOMAIN t \/ t[k - 1] \notin {"w", "d", "c"}
      /\ l + 1 \notin DOMAIN t \/ t[l + 1] \notin {"w", "d", "c"}
  BY DEF IsNumber
<1> HIDE DEF j, l
<1>5. ~(k < i)
  <2> SUFFICES ASSUME k < i PROVE FALSE
    OBVIOUS
  <2>1. i - 1 \in k..l /\ i - 1 \in 1..Len(t)
    BY <1>2, <1>4
  <2> QED BY <1>2, <1>3, <1>4, <2>1
<1>6. ~(i < k)
  <2> SUFFICES ASSUME i < k PROVE FALSE
    OBVIOUS
  <2>1. k - 1 \in i..j /\ k - 1 \in 1..Len(t)
    BY <1>2, <1>3
  <2> QED BY <1>2, <1>3, <1>4, <2>1
<1>7. ~(l < j)
  <2> SUFFICES ASSUME l < j PROVE FALSE
    OBVIOUS
  <2>1. l + 1 \in i..j /\ l + 1 \in 1..Len(t)
    BY <1>2, <1>3
  <2> QED BY <1>2, <1>3, <1>4, <2>1
<1>8. ~(j < l)
  <2> SUFFICES ASSUME j < l PROVE FALSE
    OBVIOUS
  <2>1. j + 1 \in k..l /\ j + 1 \in 1..Len(t)
    BY <1>2, <1>4
  <2> QED BY <1>2, <1>3, <1>4, <2>1
<1>9. i = k /\ j = l
  BY <1>2, <1>5, <1>6, <1>7, <1>8
<1> QED BY <1>1, <1>2, <1>9 DEF j, l

(* Masking the phone numbers leaves the card numbers to be found.             *)
LEMMA CardsRemain ==
  ASSUME NEW S, "*" \in S, NEW t \in Seq(S)
  PROVE  Covered(t, Card) \subseteq Covered(Mask(t, Phone), Card)
<1> DEFINE u == Mask(t, Phone)
<1>1. /\ u \in Seq(S) /\ DOMAIN u = DOMAIN t /\ Len(u) = Len(t)
      /\ \A i \in DOMAIN t : u[i] = IF i \in Covered(t, Phone) THEN "*" ELSE t[i]
  <2>1. u \in Seq(S) /\ DOMAIN u = DOMAIN t
    BY MaskFacts
  <2>2. \A i \in DOMAIN t : u[i] = IF i \in Covered(t, Phone) THEN "*" ELSE t[i]
    BY MaskFacts
  <2> HIDE DEF u
  <2>3. Len(u) \in Nat /\ Len(t) \in Nat /\ 1..Len(u) = 1..Len(t)
    BY <2>1
  <2>4. Len(u) = Len(t)
    BY <2>3
  <2> QED BY <2>1, <2>2, <2>4
<1> HIDE DEF u
<1>2. ASSUME NEW i \in DOMAIN t, IsNumber(t, Card, i) PROVE IsNumber(u, Card, i)
  <2> DEFINE j == i + Card.digits - 1
  <2>1. Card.digits \in Nat \ {0} /\ i \in Nat /\ 1 <= i /\ DOMAIN t = 1..Len(t) /\ Len(t) \in Nat
    BY PayloadAssumption
  <2>2. /\ j <= Len(t) /\ \A x \in i..j : t[x] = "d"
        /\ i - 1 \notin DOMAIN t \/ t[i - 1] \notin {"w", "d", "c"}
        /\ j + 1 \notin DOMAIN t \/ t[j + 1] \notin {"w", "d", "c"}
    BY <1>2 DEF IsNumber
  <2>3. \A x \in i..j : x \in DOMAIN t
    BY <2>1, <2>2
  <2>4. ASSUME NEW x \in i..j PROVE u[x] = "d"
    <3>1. x \notin Covered(t, Phone)
      <4> SUFFICES ASSUME x \in Covered(t, Phone) PROVE FALSE
        OBVIOUS
      <4>1. PICK k \in DOMAIN t : IsNumber(t, Phone, k) /\ x \in k..(k + Phone.digits - 1)
        BY CoveredFacts
      <4> QED BY <1>2, <4>1, NumbersApart
    <3> QED BY <1>1, <2>2, <2>3, <3>1
  <2>5. \A x \in DOMAIN t : t[x] \notin {"w", "d", "c"} => u[x] \notin {"w", "d", "c"}
    BY <1>1
  <2> QED BY <1>1, <2>2, <2>4, <2>5 DEF IsNumber
<1> QED BY <1>1, <1>2 DEF Covered, u

(* What is left of a text: no field that is looked for, and no digit of those *)
(* covered.                                                                 *)
LEMMA RedactFacts ==
  ASSUME NEW body, body.text \in Text, body.json \in 0..Len(body.text)
  PROVE  /\ RedactSensitiveBody(body) \in Seq(Wanted(body))
         /\ DigitsOf(RedactSensitiveBody(body)) \subseteq
              DigitsOf(RedactFields(body)) \ (Covered(RedactFields(body), Phone) \cup Covered(RedactFields(body), Card))
<1> DEFINE f == RedactFields(body)
           u == Mask(f, Phone)
           w == Mask(u, Card)
<1>1. f \in Seq(Wanted(body))
  BY RedactFieldsFacts
<1>2. /\ u \in Seq(Wanted(body)) /\ DOMAIN u = DOMAIN f
      /\ \A i \in DOMAIN f : u[i] = IF i \in Covered(f, Phone) THEN "*" ELSE f[i]
  BY <1>1, WantedFacts, MaskFacts
<1>3. /\ w \in Seq(Wanted(body)) /\ DOMAIN w = DOMAIN u
      /\ \A i \in DOMAIN u : w[i] = IF i \in Covered(u, Card) THEN "*" ELSE u[i]
  BY <1>2, WantedFacts, MaskFacts
<1>4. Covered(f, Card) \subseteq Covered(u, Card)
  BY <1>1, WantedFacts, CardsRemain
<1>5. RedactSensitiveBody(body) = w
  BY DEF RedactSensitiveBody
<1> HIDE DEF f, u, w
<1>6. ASSUME NEW i \in DigitsOf(w)
      PROVE  i \in DigitsOf(f) \ (Covered(f, Phone) \cup Covered(f, Card))
  BY <1>2, <1>3, <1>4 DEF DigitsOf
<1> QED BY <1>3, <1>5, <1>6 DEF f

----------------------------------------------------------------------------
(* What PrepareBodyPayload returns: the longest prefix of the redacted text  *)
(* that fits.                                                               *)

LEMMA LimitFacts ==
  ASSUME NEW n \in Nat
  PROVE  Limit(n) \in Nat
BY PayloadAssumption DEF Limit

LEMMA PrepareFacts ==
  ASSUME NEW body, body.present, body.text # <<>>, body.text \in Text,
         body.json \in 0..Len(body.text), NEW limit \in Nat
  PROVE  /\ PrepareBodyPayload(body, limit).present
         /\ \E n \in 0..Len(RedactSensitiveBody(body)) :
              /\ PrepareBodyPayload(body, limit).text = Cut(RedactSensitiveBody(body), n)
              /\ Size(Cut(RedactSensitiveBody(body), n)) <= Limit(limit)
              /\ n < Len(RedactSensitiveBody(body)) =>
                   Size(Cut(RedactSensitiveBody(body), n + 1)) > Limit(limit)
              /\ PrepareBodyPayload(body, limit).truncated =
                   (body.truncated \/ n < Len(RedactSensitiveBody(body)))
<1> DEFINE whole == RedactSensitiveBody(body)
           out   == PrepareBodyPayload(body, limit)
<1>1. whole \in Text
  <2>1. whole \in Seq(Wanted(body)) /\ Wanted(body) \subseteq Symbols
    BY RedactFacts, WantedFacts
  <2> QED BY <2>1, SeqMonotonic DEF Text
<1>2. out = [present |-> TRUE, text |-> TruncateUTF8(whole, Limit(limit)), json |-> 0,
             truncated |-> body.truncated \/ Size(whole) > Limit(limit)]
  BY DEF PrepareBodyPayload
<1> HIDE DEF whole, out
<1>3. PICK n \in 0..Len(whole) :
        /\ TruncateUTF8(whole, Limit(limit)) = Cut(whole, n)
        /\ Size(Cut(whole, n)) <= Limit(limit)
        /\ n < Len(whole) => Size(Cut(whole, n + 1)) > Limit(limit)
        /\ Size(whole) > Limit(limit) <=> n < Len(whole)
  BY <1>1, LimitFacts, TruncateFacts
<1>4. out.present /\ out.text = Cut(whole, n) /\ out.truncated = (body.truncated \/ n < Len(whole))
  BY <1>2, <1>3
<1>5. /\ out.present
      /\ \E k \in 0..Len(whole) :
           /\ out.text = Cut(whole, k)
           /\ Size(Cut(whole, k)) <= Limit(limit)
           /\ k < Len(whole) => Size(Cut(whole, k + 1)) > Limit(limit)
           /\ out.truncated = (body.truncated \/ k < Len(whole))
  BY <1>3, <1>4
<1> QED BY <1>5 DEF whole, out

(* A body that is stored holds no field that is looked for.                  *)
LEMMA PreparedHarmless ==
  ASSUME NEW body, body.text \in Text, body.json \in 0..Len(body.text), NEW limit \in Nat
  PROVE  /\ PrepareBodyPayload(body, limit) = NoBody \/ PrepareBodyPayload(body, limit).present
         /\ PrepareBodyPayload(body, limit).text \in Seq(Harmless)
<1> DEFINE whole == RedactSensitiveBody(body)
           out   == PrepareBodyPayload(body, limit)
<1>1. CASE ~body.present \/ body.text = <<>>
  BY <1>1 DEF PrepareBodyPayload, NoBody
<1>2. CASE body.present /\ body.text # <<>>
  <2>1. PICK n \in 0..Len(whole) : out.present /\ out.text = Cut(whole, n)
    BY <1>2, PrepareFacts
  <2>2. whole \in Seq(Harmless)
    BY RedactFacts, WantedFacts, SeqMonotonic
  <2> QED BY <2>1, <2>2, CutFacts
<1> QED BY <1>1, <1>2

----------------------------------------------------------------------------
(* One preparation, as PayloadSpec takes it.                                 *)

PayloadInv ==
  /\ input.present /\ input.truncated \in BOOLEAN
  /\ input.text \in Text /\ input.json \in 0..Len(input.text)
  /\ max \in Nat
  /\ stored = NoBody \/ (input.text # <<>> /\ stored = PrepareBodyPayload(input, max))

LEMMA PayloadAlways == PayloadSpec => []PayloadInv
<1>1. PayloadInit => PayloadInv
  <2> SUFFICES ASSUME PayloadInit PROVE PayloadInv
    OBVIOUS
  <2>1. PICK t \in BoundedSeq(Reported, MaxLen) : \E k \in 0..Len(t), truncated \in BOOLEAN :
          input = [present |-> TRUE, text |-> t, json |-> k, truncated |-> truncated]
    BY DEF PayloadInit
  <2>2. t \in Text
    <3>1. PICK n \in Nat : t \in [1..n -> Reported]
      BY <2>1, SizesAssumption DEF BoundedSeq, SeqOf
    <3>2. t \in [1..n -> Symbols]
      BY <3>1, SizesAssumption
    <3> QED BY <3>1, <3>2, IsASeq DEF Text
  <2>3. max \in Nat /\ stored = NoBody
    BY SizesAssumption DEF PayloadInit
  <2>4. /\ input.present /\ input.truncated \in BOOLEAN
        /\ input.text \in Text /\ input.json \in 0..Len(input.text)
    BY <2>1, <2>2
  <2> QED BY <2>3, <2>4 DEF PayloadInv
<1>2. PayloadInv /\ [PayloadNext]_payloadVars => PayloadInv'
  BY DEF PayloadInv, PayloadNext, payloadVars
<1> QED BY <1>1, <1>2, PTL DEF PayloadSpec

(* What is stored is a prefix of the redacted text (PrepareBodyPayload): no    *)
(* key=value, if the text was decoded no sensitive member, and no digit that *)
(* belongs to a phone or card number.                                       *)
THEOREM AlwaysRedacted == PayloadSpec => []StoredRedacted
<1>1. PayloadInv => StoredRedacted
  <2> SUFFICES ASSUME PayloadInv PROVE StoredRedacted
    OBVIOUS
  <2> DEFINE f       == RedactFields(input)
             whole   == RedactSensitiveBody(input)
             covered == Covered(f, Phone) \cup Covered(f, Card)
  <2>1. f \in Seq(Wanted(input)) /\ whole \in Seq(Wanted(input)) /\ DigitsOf(whole) \subseteq DigitsOf(f) \ covered
    BY RedactFieldsFacts, RedactFacts DEF PayloadInv
  <2>2. covered \subseteq DigitsOf(f)
    BY <2>1, CoveredFacts
  <2> HIDE DEF f, whole, covered
  <2>3. PICK n \in 0..Len(whole) : stored.text = Cut(whole, n)
    <3>1. CASE stored = NoBody
      <4>1. 0 \in 0..Len(whole) /\ Cut(whole, 0) = <<>>
        <5>1. Len(whole) \in Nat
          BY <2>1
        <5>2. 0 \in 0..Len(whole)
          BY <5>1
        <5>3. Cut(whole, 0) \in Seq(Wanted(input)) /\ Len(Cut(whole, 0)) = 0
          BY <2>1, <5>2, CutFacts
        <5> QED BY <5>2, <5>3, EmptySeq
      <4> QED BY <3>1, <4>1 DEF NoBody
    <3>2. CASE input.text # <<>> /\ stored = PrepareBodyPayload(input, max)
      BY <3>2, PrepareFacts DEF PayloadInv, whole
    <3> QED BY <3>1, <3>2 DEF PayloadInv
  <2>4. /\ stored.text \in Seq(Wanted(input)) /\ Len(stored.text) = n /\ DOMAIN stored.text = 1..n
        /\ \A i \in 1..n : i \in DOMAIN whole /\ stored.text[i] = whole[i]
    BY <2>1, <2>3, CutFacts
  <2>5. \A i \in DOMAIN stored.text : stored.text[i] \in Wanted(input)
    BY <2>4
  <2>9. \A i \in DOMAIN stored.text : stored.text[i] \notin {"k", "b"}
    BY <2>5, WantedFacts DEF Harmless
  <2>10. input.json > 0 => \A i \in DOMAIN stored.text : stored.text[i] # "s"
    BY <2>5, WantedFacts
  <2>6. DigitsOf(stored.text) \subseteq DigitsOf(f) \ covered
    BY <2>1, <2>4 DEF DigitsOf
  <2>7. Digits(stored.text) <= Digits(f) - Cardinality(covered)
    <3>1. IsFiniteSet(DigitsOf(f)) /\ DigitsOf(f) \cap covered = covered
      <4>1. IsFiniteSet(1..Len(f)) /\ DigitsOf(f) \in SUBSET (1..Len(f))
        BY <2>1, FS_Interval DEF DigitsOf
      <4> QED BY <2>2, <4>1, FS_Subset
    <3>2. /\ IsFiniteSet(DigitsOf(f) \ covered)
          /\ Cardinality(DigitsOf(f) \ covered) = Cardinality(DigitsOf(f)) - Cardinality(DigitsOf(f) \cap covered)
      BY <3>1, FS_Difference
    <3>3. Cardinality(DigitsOf(stored.text)) <= Cardinality(DigitsOf(f) \ covered)
      BY <2>6, <3>2, FS_Subset
    <3>4. Digits(stored.text) = Cardinality(DigitsOf(stored.text)) /\ Digits(f) = Cardinality(DigitsOf(f))
      BY DEF Digits, DigitsOf
    <3> QED BY <3>1, <3>2, <3>3, <3>4
  <2>8. IsPrefix(stored.text, whole)
    <3>1. Cut(stored.text, n) = stored.text
      BY <2>4, WholeIsCut
    <3> QED BY <2>3, <2>4, <3>1 DEF IsPrefix, Cut
  <2> QED BY <2>7, <2>8, <2>9, <2>10 DEF StoredRedacted, f, whole, covered
<1> QED BY <1>1, PayloadAlways, PTL

(* What is stored fits, nothing is cut that would fit, and the mark tells      *)
(* whether something was cut.                                                *)
THEOREM StoredAlwaysFits == PayloadSpec => []StoredFits
<1>1. PayloadInv => StoredFits
  <2> SUFFICES ASSUME PayloadInv, stored.present PROVE StoredFits
    BY DEF StoredFits
  <2> DEFINE whole == RedactSensitiveBody(input)
  <2>1. input.text # <<>> /\ stored = PrepareBodyPayload(input, max)
    BY DEF PayloadInv, NoBody
  <2>2. PICK n \in 0..Len(whole) :
          /\ stored.text = Cut(whole, n)
          /\ Size(Cut(whole, n)) <= Limit(max)
          /\ n < Len(whole) => Size(Cut(whole, n + 1)) > Limit(max)
          /\ stored.truncated = (input.truncated \/ n < Len(whole))
    BY <2>1, PrepareFacts DEF PayloadInv
  <2>3. Len(stored.text) = n
    <3>1. whole \in Seq(Wanted(input))
      BY RedactFacts DEF PayloadInv
    <3> QED BY <2>2, <3>1, CutFacts
  <2>4. stored.truncated <=> (n < Len(whole) \/ input.truncated)
    BY <2>2 DEF PayloadInv
  <2> HIDE DEF whole
  <2> QED BY <2>2, <2>3, <2>4 DEF StoredFits, Cut, whole
<1> QED BY <1>1, PayloadAlways, PTL
=============================================================================
