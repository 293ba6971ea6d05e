------------------------- MODULE ConversionsProofs -------------------------
(***************************************************************************)
(* Theorems about the conversions: the page arithmetic for every address   *)
(* and every word size, the hex conversions for every text of any length.  *)
(***************************************************************************)
EXTENDS Conversions, FiniteSetTheorems, SequenceTheorems, WellFoundedInduction, TLAPS

(* km_page_start_fn gives the boundary at or below an address.             *)
THEOREM PageStart ==
  ASSUME NEW x \in Address
  PROVE  StartsPage(x, km_page_start_fn(x)) /\ km_page_start_fn(x) \in Address
<1> DEFINE p == km_page_start_fn(x)
<1>1. x \in Nat /\ p \in Nat /\ p <= x /\ x - p < 4096 /\ p % 4096 = 0
  BY WordAssumption DEF Address, km_page_start_fn, KM_PAGE_SIZE
<1>2. ASSUME NEW q \in p + 1 .. x PROVE q % 4096 # 0
  BY <1>1
<1> QED
  BY <1>1, <1>2, WordAssumption DEF StartsPage, Boundary, Address, KM_PAGE_SIZE

(* The sum is what it says up to the start of the last page, though there  *)
(* it wraps on the way; after it, it is what is left of the address.       *)
LEMMA PageSumWraps ==
  ASSUME NEW x \in Address
  PROVE  /\ x <= Word - KM_PAGE_SIZE => PageSum(x) = x + 4095
         /\ x > Word - KM_PAGE_SIZE => PageSum(x) \in 0 .. 4094
<1> DEFINE y == (x + 4096) % Word
<1>1. x \in Nat /\ Word \in Nat /\ Word >= 4096 /\ x < Word
  BY WordAssumption DEF Address, KM_PAGE_SIZE
<1>2. PageSum(x) = (y + Word - 1) % Word
  BY DEF PageSum, KM_PAGE_SIZE
<1>3. CASE x + 4096 < Word
  <2>1. y = x + 4096
    BY <1>1, <1>3
  <2>2. (y + Word - 1) % Word = x + 4095
    BY <1>1, <1>3, <2>1
  <2> QED
    BY <1>1, <1>2, <1>3, <2>2 DEF KM_PAGE_SIZE
<1>4. CASE x + 4096 = Word
  <2>1. y = 0
    BY <1>1, <1>4
  <2>2. (y + Word - 1) % Word = x + 4095
    BY <1>1, <1>4, <2>1
  <2> QED
    BY <1>1, <1>2, <1>4, <2>2 DEF KM_PAGE_SIZE
<1>5. CASE x + 4096 > Word
  <2>1. y = x + 4096 - Word /\ y >= 1 /\ y <= 4095
    BY <1>1, <1>5
  <2>2. (y + Word - 1) % Word = y - 1
    BY <1>1, <2>1
  <2> QED
    BY <1>1, <1>2, <1>5, <2>1, <2>2 DEF KM_PAGE_SIZE
<1> QED
  BY <1>1, <1>3, <1>4, <1>5

(* A release build rounds every address up to the boundary at or above it, *)
(* as far as the start of the last page, where the addition has overflowed *)
(* and the subtraction wraps back.                                         *)
THEOREM PageEnd ==
  ASSUME NEW x \in Address, x <= Word - KM_PAGE_SIZE
  PROVE  EndsPage(x, km_page_end_fn(x))
<1> DEFINE p == km_page_end_fn(x)
<1>1. x \in Nat /\ PageSum(x) = x + 4095
  BY PageSumWraps DEF Address
<1>2. p \in Nat /\ x <= p /\ p - x < 4096 /\ p % 4096 = 0
  BY <1>1 DEF km_page_end_fn, km_page_start_fn, KM_PAGE_SIZE
<1>3. ASSUME NEW q \in x .. p - 1 PROVE q % 4096 # 0
  BY <1>1, <1>2
<1> QED
  BY <1>1, <1>2, <1>3 DEF EndsPage, Boundary, KM_PAGE_SIZE

(* After the start of the last page it answers a boundary below the        *)
(* address: 0.                                                             *)
THEOREM PageEndWraps ==
  ASSUME NEW x \in Address, x > Word - KM_PAGE_SIZE
  PROVE  km_page_end_fn(x) = 0
<1> DEFINE y == PageSum(x)
<1>1. y \in 0 .. 4094
  BY PageSumWraps
<1> HIDE DEF y
<1>2. y - (y % 4096) = 0
  BY <1>1
<1> QED
  BY <1>2 DEF y, km_page_end_fn, km_page_start_fn, KM_PAGE_SIZE

(* The checked addition fails in the last page, on every address of it.    *)
THEOREM PageEndPanics ==
  ASSUME NEW x \in Address
  PROVE  Overflows(x) <=> x >= Word - KM_PAGE_SIZE
  BY WordAssumption DEF Address, Overflows, KM_PAGE_SIZE

(* Whatever is called, page_start answers the boundary at or below, and    *)
(* page_end the one at or above, as far as the start of the last page; a   *)
(* checked build panics from there on, a release build answers 0 after it. *)
THEOREM ConversionsPagesExact == Spec => []PagesExact
<1>1. Init => PagesExact
  BY DEF Init, NoCall, PagesExact
<1>2. ASSUME PagesExact, [Next]_call PROVE PagesExact'
  <2>1. CASE \E s \in Text : hex_to_data(s) \/ with_hex(s)
    BY <2>1 DEF hex_to_data, with_hex, PagesExact
  <2>2. ASSUME NEW x \in Probe, page_start(x) PROVE PagesExact'
    <3>1. StartsPage(x, km_page_start_fn(x))
      BY PageStart, ConversionAssumption
    <3> QED
      BY <2>2, <3>1 DEF page_start, PagesExact, Ok
  <2>3. ASSUME NEW x \in Probe, page_end(x) PROVE PagesExact'
    <3> DEFINE e == km_page_end_fn(x)
    <3>1. x \in Address /\ x \in Nat /\ Word \in Nat
      <4>1. x \in Address
        BY ConversionAssumption
      <4> QED
        BY <4>1, WordAssumption DEF Address
    <3>2. \/ call' = [op |-> "end", in |-> x, out |-> Ok(e)]
          \/ Overflows(x) /\ call' = [op |-> "end", in |-> x, out |-> Panic]
      BY <2>3 DEF page_end
    <3>3. EndsPage(x, e) \/ (x > Word - KM_PAGE_SIZE /\ e = 0)
      <4>1. CASE x <= Word - KM_PAGE_SIZE
        BY <3>1, <4>1, PageEnd
      <4>2. CASE x > Word - KM_PAGE_SIZE
        BY <3>1, <4>2, PageEndWraps
      <4> QED
        BY <3>1, <4>1, <4>2 DEF KM_PAGE_SIZE
    <3>4. Overflows(x) => x >= Word - KM_PAGE_SIZE
      BY <3>1, PageEndPanics
    <3> HIDE DEF e
    <3> QED
      BY <3>2, <3>3, <3>4 DEF PagesExact, Ok
  <2>4. CASE Return
    BY <2>4 DEF Return, NoCall, PagesExact
  <2>5. CASE UNCHANGED call
    BY <1>2, <2>5 DEF PagesExact
  <2> QED
    BY <1>2, <2>1, <2>2, <2>3, <2>4, <2>5 DEF Next, Call
<1> QED
  BY <1>1, <1>2, PTL DEF Spec

-----------------------------------------------------------------------------
(* Every set of numbers has a least one: induction without an operator.    *)
LEMMA Least ==
  ASSUME NEW T \in SUBSET Nat, T # {}
  PROVE  \E m \in T : \A k \in T : m <= k
<1> DEFINE R == OpToRel(<, Nat)
<1>1. IsWellFoundedOn(R, Nat)
  BY NatLessThanWellFounded
<1>2. \A x, y \in Nat : x < y => <<x, y>> \in R
  BY DEF OpToRel
<1> HIDE DEF R
<1>3. PICK m \in T : \A k \in T : <<k, m>> \notin R
  BY <1>1, WFMin
<1>4. ASSUME NEW k \in T PROVE m <= k
  <2>1. k \in Nat /\ m \in Nat /\ <<k, m>> \notin R
    BY <1>3
  <2>2. ~(k < m)
    BY <1>2, <2>1
  <2> QED
    BY <2>1, <2>2
<1> QED
  BY <1>3, <1>4

(* Picked characters make a sequence, as long as there are places.         *)
LEMMA PickSeq ==
  ASSUME NEW s, NEW n \in Nat, NEW I \in SUBSET (1 .. n)
  PROVE  /\ Pick(s, I) \in Seq(Range(Pick(s, I)))
         /\ Len(Pick(s, I)) = Cardinality(I)
<1>1. IsFiniteSet(1 .. n)
  BY FS_Interval
<1>2. Cardinality(I) \in Nat
  BY <1>1, FS_Subset, FS_CardinalityType
<1> DEFINE m == Cardinality(I)
           p == Pick(s, I)
<1>3. m \in Nat /\ DOMAIN p = 1 .. m /\ p = [i \in 1 .. m |-> p[i]]
  BY <1>2 DEF Pick
<1> HIDE DEF m, p
<1>4. p \in [1 .. m -> Range(p)]
  BY <1>3 DEF Range
<1> QED
  BY <1>3, <1>4 DEF m, p

(* The places are kept in their order, each once, and nothing is invented: *)
(* a place has as many characters up to it as its number in the result.    *)
THEOREM PickInOrder ==
  ASSUME NEW s, NEW n \in Nat, NEW I \in SUBSET (1 .. n)
  PROVE  LET Rank(k) == Cardinality(I \cap (1 .. k))
         IN  /\ \A k \in I : Rank(k) \in 1 .. Cardinality(I) /\ Pick(s, I)[Rank(k)] = s[k]
             /\ \A j, k \in I : j < k => Rank(j) < Rank(k)
             /\ \A i \in 1 .. Cardinality(I) : \E k \in I : i = Rank(k)
<1> DEFINE m == Cardinality(I)
           Upto(k) == I \cap (1 .. k)
           Rank(k) == Cardinality(Upto(k))
           rank == [k \in I |-> Rank(k)]
<1>1. IsFiniteSet(I) /\ m \in Nat /\ I \subseteq Nat \ {0}
  <2>1. IsFiniteSet(1 .. n)
    BY FS_Interval
  <2>2. IsFiniteSet(I) /\ m \in Nat
    BY <2>1, FS_Subset, FS_CardinalityType
  <2> QED
    BY <2>2
<1>2. \A k : Upto(k) \in SUBSET I /\ IsFiniteSet(Upto(k)) /\ Rank(k) \in Nat /\ Rank(k) <= m
  BY <1>1, FS_Subset, FS_CardinalityType
<1>3. \A j, k \in I : j < k => Rank(j) < Rank(k)
  <2> SUFFICES ASSUME NEW j \in I, NEW k \in I, j < k PROVE Rank(j) < Rank(k)
    OBVIOUS
  <2>1. Upto(j) \in SUBSET Upto(k) /\ k \in Upto(k) /\ k \notin Upto(j)
    BY <1>1
  <2> HIDE DEF Upto
  <2>2. Rank(j) <= Rank(k) /\ Rank(j) # Rank(k)
    BY <1>2, <2>1, FS_Subset
  <2> QED
    BY <1>2, <2>2
<1>4. \A k \in I : Rank(k) \in 1 .. m
  <2> SUFFICES ASSUME NEW k \in I PROVE Rank(k) # 0
    BY <1>1, <1>2
  <2>1. k \in Upto(k)
    BY <1>1
  <2> HIDE DEF Upto
  <2> QED
    BY <1>2, <2>1, FS_EmptySet
<1> HIDE DEF Upto
<1>5. \A j, k \in I : Rank(j) = Rank(k) => j = k
  <2> SUFFICES ASSUME NEW j \in I, NEW k \in I, Rank(j) = Rank(k), j # k PROVE FALSE
    OBVIOUS
  <2>1. Rank(j) \in Nat /\ Rank(k) \in Nat /\ (j < k \/ k < j)
    BY <1>1, <1>2
  <2> HIDE DEF Rank
  <2> QED
    BY <1>3, <2>1
<1>6. \A i \in 1 .. m : \E k \in I : i = Rank(k)
  <2>1. rank \in Injection(I, 1 .. m)
    BY <1>4, <1>5 DEF Injection, IsInjective
  <2>2. IsFiniteSet(1 .. m) /\ Cardinality(1 .. m) = m
    BY <1>1, FS_Interval
  <2> HIDE DEF rank
  <2>3. rank \in Surjection(I, 1 .. m)
    BY <2>1, <2>2, FS_Injection DEF m
  <2> QED
    BY <2>3 DEF Surjection, rank
<1>7. ASSUME NEW k \in I PROVE Pick(s, I)[Rank(k)] = s[k]
  <2>1. (CHOOSE j \in I : Rank(j) = Rank(k)) = k
    BY <1>5
  <2> QED
    BY <1>4, <2>1 DEF Pick, Upto
<1> QED
  BY <1>3, <1>4, <1>6, <1>7 DEF Upto

LEMMA PickRange ==
  ASSUME NEW s, NEW n \in Nat, NEW I \in SUBSET (1 .. n)
  PROVE  Range(Pick(s, I)) \subseteq {s[k] : k \in I}
<1> DEFINE m == Cardinality(I)
           p == Pick(s, I)
<1>1. DOMAIN p = 1 .. m
  BY DEF Pick
<1> DEFINE Rank(k) == Cardinality(I \cap (1 .. k))
<1>2. /\ \A k \in I : Rank(k) \in 1 .. m /\ p[Rank(k)] = s[k]
      /\ \A j, k \in I : j < k => Rank(j) < Rank(k)
      /\ \A i \in 1 .. m : \E k \in I : i = Rank(k)
  BY PickInOrder, Zenon
<1> HIDE DEF m, p, Rank
<1>3. Range(p) \subseteq {s[k] : k \in I}
  BY <1>1, <1>2 DEF Range
<1> QED
  BY <1>3 DEF p

(* Both replacements together: what reaches the checks is a text again, it *)
(* holds characters of the caller's text only, and no space.               *)
THEOREM CleanKeeps ==
  ASSUME NEW s \in Text
  PROVE  /\ Clean(s) \in Seq(Range(Clean(s)))
         /\ Range(Clean(s)) \subseteq Range(s) \ {" "}
<1> DEFINE I == {i \in DOMAIN s : s[i] # " "}
           dense == Pick(s, I)
           first == {i \in 1 .. Len(dense) - 1 : dense[i] = "0" /\ dense[i + 1] = "x"}
           J == DOMAIN dense \ (first \cup {i + 1 : i \in first})
<1>1. PICK n \in Nat : DOMAIN s = 1 .. n
  <2>1. PICK n \in 0 .. MaxText : s \in [1 .. n -> Digit \cup Other \cup {"x", " "}]
    BY DEF Text
  <2>2. \A k \in 0 .. MaxText : k \in Nat
    <3>1. MaxText \in Nat
      BY ConversionAssumption
    <3> QED
      BY <3>1
  <2>3. n \in Nat
    BY <2>1, <2>2, Zenon
  <2>4. DOMAIN s = 1 .. n
    BY <2>1
  <2> QED
    BY <2>3, <2>4
<1>2. dense \in Seq(Range(dense)) /\ Range(dense) \subseteq {s[k] : k \in I}
  BY <1>1, PickSeq, PickRange
<1>3. {s[k] : k \in I} \subseteq Range(s) \ {" "}
  BY DEF Range
<1> HIDE DEF I
<1>4. /\ Len(dense) \in Nat /\ DOMAIN dense = 1 .. Len(dense)
      /\ \A j \in DOMAIN dense : dense[j] \in Range(dense)
  BY <1>2, LenProperties DEF Range
<1> HIDE DEF dense
<1>5. J \in SUBSET (1 .. Len(dense)) /\ J \subseteq DOMAIN dense
  BY <1>4
<1> HIDE DEF first, J
<1>6. /\ Pick(dense, J) \in Seq(Range(Pick(dense, J)))
      /\ Range(Pick(dense, J)) \subseteq {dense[j] : j \in J}
  BY <1>4, <1>5, PickSeq, PickRange
<1>7. {dense[j] : j \in J} \subseteq Range(dense)
  BY <1>4, <1>5
<1>8. Clean(s) = Pick(dense, J)
  BY DEF Clean, I, dense, first, J
<1> QED
  BY <1>2, <1>3, <1>6, <1>7, <1>8

(* What the library may drop in front leaves a shorter text; a text of     *)
(* digits alone it leaves as it is.                                        *)
LEMMA TrimmedShape ==
  ASSUME NEW h, h \in Seq(Range(h)), NEW g \in Trimmed(h)
  PROVE  /\ Len(h) \in Nat
         /\ g = h \/ (Len(g) = Len(h) - 2 /\ Len(h) >= 2)
         /\ AllHex(h) => g = h
<1>1. Len(h) \in Nat /\ DOMAIN h = 1 .. Len(h)
  BY LenProperties
<1>2. ASSUME IsPrefix(<<"0", "x">>, h), g = SubSeq(h, 3, Len(h))
      PROVE  Len(g) = Len(h) - 2 /\ Len(h) >= 2 /\ ~AllHex(h)
  <2>1. Len(h) >= 2 /\ SubSeq(<<"0", "x">>, 1, 2) = SubSeq(h, 1, 2)
    BY <1>2 DEF IsPrefix
  <2>2. \A i \in 1 .. Len(h) : h[i] \in Range(h)
    BY <1>1 DEF Range
  <2>3. h[2] = "x"
    <3>1. SubSeq(h, 1, 2)[2] = h[2]
      BY <1>1, <2>1, <2>2, SubSeqProperties
    <3>2. SubSeq(<<"0", "x">>, 1, 2)[2] = "x"
      OBVIOUS
    <3> QED
      BY <2>1, <3>1, <3>2
  <2>4. "x" \notin Digit /\ "x" \in Range(h)
    <3>1. 2 \in 1 .. Len(h)
      BY <1>1, <2>1
    <3> QED
      BY <2>2, <2>3, <3>1, ConversionAssumption
  <2>5. Len(g) = Len(h) - 2
    BY <1>1, <1>2, <2>1, <2>2, SubSeqProperties
  <2> QED
    BY <2>1, <2>4, <2>5 DEF AllHex
<1>3. g = h \/ (IsPrefix(<<"0", "x">>, h) /\ g = SubSeq(h, 3, Len(h)))
  BY DEF Trimmed
<1> QED
  BY <1>1, <1>2, <1>3

(* The library decodes the whole text or nothing: dropping two characters  *)
(* changes the length Rust has sized the buffer for.                       *)
LEMMA DecodeWhole ==
  ASSUME NEW h, h \in Seq(Range(h)), NEW o \in Decode(h, Len(h) \div 2)
  PROVE  \/ o = Err
         \/ o = Ok(dataFromHex(h)) /\ ValidateHex(h)
<1>1. PICK g \in Trimmed(h) :
        o = IF ValidateHex(g) /\ Len(g) \div 2 = Len(h) \div 2 THEN Ok(dataFromHex(g)) ELSE Err
  BY DEF Decode
<1>2. Len(h) \in Nat /\ (g = h \/ (Len(g) = Len(h) - 2 /\ Len(h) >= 2))
  BY TrimmedShape
<1>3. CASE g = h
  BY <1>1, <1>3
<1>4. CASE Len(g) = Len(h) - 2 /\ Len(h) >= 2
  <2>1. Len(g) \div 2 # Len(h) \div 2
    BY <1>2, <1>4
  <2> QED
    BY <1>1, <2>1
<1> QED
  BY <1>2, <1>3, <1>4

LEMMA Kinds == \A v : Ok(v).kind = "ok" /\ Ok(v).value = v /\ Err.kind = "err" /\ Panic.kind = "panic"
  BY DEF Ok, Err, Panic

(* A text of digits alone reaches the library as it is.                    *)
LEMMA DigitsDecoded ==
  ASSUME NEW h, h \in Seq(Range(h)), AllHex(h)
  PROVE  /\ Trimmed(h) = {h}
         /\ Nul \notin Range(h)
         /\ ValidateHex(h) => Decode(h, Len(h) \div 2) = {Ok(dataFromHex(h))}
<1>1. h \in Trimmed(h)
  BY DEF Trimmed
<1>2. Trimmed(h) = {h}
  BY <1>1, TrimmedShape
<1>3. Nul \notin Range(h)
  BY ConversionAssumption DEF AllHex
<1> QED
  BY <1>2, <1>3 DEF Decode

(* The bytes written out again are the text, whatever its length.          *)
LEMMA FlattenPairs ==
  ASSUME NEW h, h \in Seq(Range(h)), Even(h), h # <<>>
  PROVE  Len(dataFromHex(h)) = Len(h) \div 2 /\ FlattenSeq(dataFromHex(h)) = h
<1> DEFINE n == Len(h) \div 2
           p == dataFromHex(h)
           Step(f) == [i \in 1 .. n |-> IF i = 1 THEN p[i] ELSE f[i - 1] \o p[i]]
           flat == CHOOSE f : f = Step(f)
           Lead(k) == SubSeq(h, 1, k)
           leads == [i \in 1 .. n |-> Lead(2 * i)]
<1>1. Len(h) \in Nat /\ n \in Nat \ {0} /\ 2 * n = Len(h) /\ \A i \in 1 .. Len(h) : h[i] \in Range(h)
  <2>1. Len(h) \in Nat \ {0} /\ DOMAIN h = 1 .. Len(h)
    BY EmptySeq, LenProperties
  <2>2. Len(h) % 2 = 0
    BY DEF Even
  <2>3. n \in Nat \ {0} /\ 2 * n = Len(h)
    <3>1. \A k \in Nat \ {0} : k % 2 = 0 => k \div 2 \in Nat \ {0} /\ 2 * (k \div 2) = k
      OBVIOUS
    <3> QED
      BY <2>1, <2>2, <3>1
  <2>4. \A i \in 1 .. Len(h) : h[i] \in Range(h)
    BY <2>1 DEF Range
  <2> QED
    BY <2>1, <2>3, <2>4
<1>2. Len(p) = n /\ \A i \in 1 .. n : p[i] = <<h[2 * i - 1], h[2 * i]>>
  BY <1>1 DEF dataFromHex
<1>3. \A k \in 1 .. Len(h) : /\ Lead(k) \in Seq(Range(h)) /\ Len(Lead(k)) = k
                             /\ \A j \in 1 .. k : Lead(k)[j] = h[j]
  BY <1>1, SubSeqProperties
<1>4. FlattenSeq(p) = flat[n]
  BY <1>1, <1>2 DEF FlattenSeq
<1> HIDE DEF n, p, Lead
<1>5. ASSUME NEW i \in 2 .. n PROVE Lead(2 * i) = Lead(2 * (i - 1)) \o p[i]
  <2> DEFINE a == Lead(2 * (i - 1))
  <2>1. 2 * (i - 1) \in 1 .. Len(h) /\ 2 * i \in 1 .. Len(h) /\ 2 * i - 1 \in 1 .. Len(h)
    BY <1>1
  <2>2. a \in Seq(Range(h)) /\ Len(a) = 2 * (i - 1) /\ Lead(2 * i) \in Seq(Range(h)) /\ Len(Lead(2 * i)) = 2 * i
    BY <1>3, <2>1
  <2>3. /\ p[i] \in Seq(Range(h)) /\ Len(p[i]) = 2
        /\ p[i][1] = h[2 * i - 1] /\ p[i][2] = h[2 * i]
    <3>1. p[i] = <<h[2 * i - 1], h[2 * i]>>
      BY <1>2
    <3>2. h[2 * i - 1] \in Range(h) /\ h[2 * i] \in Range(h)
      BY <1>1, <2>1
    <3> QED
      BY <3>1, <3>2
  <2> HIDE DEF a
  <2>4. /\ a \o p[i] \in Seq(Range(h)) /\ Len(a \o p[i]) = 2 * i
        /\ \A j \in 1 .. 2 * i :
             (a \o p[i])[j] = IF j <= 2 * (i - 1) THEN a[j] ELSE p[i][j - 2 * (i - 1)]
    <3> DEFINE b == p[i]
    <3>1. a \in Seq(Range(h)) /\ b \in Seq(Range(h)) /\ Len(a) = 2 * (i - 1) /\ Len(b) = 2
      BY <2>2, <2>3
    <3> HIDE DEF b
    <3>2. /\ a \o b \in Seq(Range(h)) /\ Len(a \o b) = Len(a) + Len(b)
          /\ \A j \in 1 .. Len(a) + Len(b) :
               (a \o b)[j] = IF j <= Len(a) THEN a[j] ELSE b[j - Len(a)]
      BY <3>1, ConcatProperties
    <3>3. Len(a) + Len(b) = 2 * i
      BY <3>1
    <3> QED
      BY <3>1, <3>2, <3>3 DEF b
  <2>5. \A j \in 1 .. 2 * i : (a \o p[i])[j] = Lead(2 * i)[j]
    <3> SUFFICES ASSUME NEW j \in 1 .. 2 * i PROVE (a \o p[i])[j] = h[j]
      BY <1>3, <2>1
    <3>1. CASE j <= 2 * (i - 1)
      <4>1. (a \o p[i])[j] = a[j]
        BY <2>4, <3>1
      <4>2. a[j] = h[j]
        BY <1>3, <2>1, <3>1 DEF a
      <4> QED
        BY <4>1, <4>2
    <3>2. CASE ~(j <= 2 * (i - 1))
      <4>1. (a \o p[i])[j] = p[i][j - 2 * (i - 1)]
        BY <2>4, <3>2
      <4>2. j = 2 * i - 1 \/ j = 2 * i
        BY <3>2
      <4>3. CASE j = 2 * i - 1
        BY <2>3, <4>1, <4>3
      <4>4. CASE j = 2 * i
        BY <2>3, <4>1, <4>4
      <4> QED
        BY <4>2, <4>3, <4>4
    <3> QED
      BY <3>1, <3>2
  <2> QED
    BY <2>2, <2>4, <2>5, SeqEqual DEF a
<1>6. p[1] = Lead(2)
  <2>1. 2 \in 1 .. Len(h) /\ 1 \in 1 .. n
    BY <1>1
  <2>2. p[1] = <<h[1], h[2]>>
    BY <1>2, <2>1
  <2>3. p[1] \in Seq(Range(h)) /\ Len(p[1]) = 2 /\ \A j \in 1 .. 2 : p[1][j] = h[j]
    BY <1>1, <2>1, <2>2
  <2>4. Lead(2) \in Seq(Range(h)) /\ Len(Lead(2)) = 2 /\ \A j \in 1 .. 2 : Lead(2)[j] = h[j]
    BY <1>3, <2>1
  <2>5. \A j \in 1 .. 2 : p[1][j] = Lead(2)[j]
    BY <2>3, <2>4
  <2> HIDE DEF p
  <2> QED
    BY <2>3, <2>4, <2>5, SeqEqual
<1>7. leads = Step(leads)
  <2>1. \A i \in 1 .. n : i # 1 => i \in 2 .. n /\ i - 1 \in 1 .. n
    BY <1>1
  <2>2. \A i \in 1 .. n : leads[i] = IF i = 1 THEN p[i] ELSE leads[i - 1] \o p[i]
    <3> SUFFICES ASSUME NEW i \in 1 .. n
                 PROVE  Lead(2 * i) = IF i = 1 THEN p[i] ELSE leads[i - 1] \o p[i]
      OBVIOUS
    <3>1. CASE i = 1
      BY <1>6, <3>1
    <3>2. CASE i # 1
      BY <1>5, <2>1, <3>2
    <3> QED
      BY <3>1, <3>2
  <2> QED
    BY <2>2
<1>8. flat = Step(flat)
  BY <1>7
<1> HIDE DEF flat
<1>9. \A i \in 1 .. n : flat[i] = Lead(2 * i)
  <2> DEFINE T == {i \in 1 .. n : flat[i] # Lead(2 * i)}
  <2> SUFFICES ASSUME T # {} PROVE FALSE
    OBVIOUS
  <2>1. PICK m \in T : \A k \in T : m <= k
    <3>1. T \in SUBSET Nat
      BY <1>1
    <3> HIDE DEF T
    <3> QED
      BY <3>1, Least
  <2>2. m \in 1 .. n /\ flat[m] = IF m = 1 THEN p[m] ELSE flat[m - 1] \o p[m]
    BY <1>8, <2>1
  <2>3. m # 1
    BY <1>6, <2>1, <2>2
  <2>4. m - 1 \in 1 .. n /\ m - 1 \notin T
    BY <1>1, <2>1, <2>2, <2>3
  <2>5. flat[m] = Lead(2 * m)
    <3>1. m \in 2 .. n /\ flat[m - 1] = Lead(2 * (m - 1))
      BY <1>1, <2>2, <2>3, <2>4
    <3> QED
      BY <1>5, <2>2, <2>3, <3>1
  <2> QED
    BY <2>1, <2>5
<1>10. flat[n] = Lead(2 * n)
  BY <1>1, <1>9
<1> QED
  BY <1>1, <1>2, <1>4, <1>10, SubSeqFull DEF n, p, Lead

-----------------------------------------------------------------------------
LEMMA DataAnswer ==
  ASSUME NEW s \in Text, hex_to_data(s)
  PROVE  DataWhole'
<1> DEFINE h == Clean(s)
<1>1. PICK o \in DataOutcomes(s) : call' = [op |-> "data", in |-> s, out |-> o]
  BY DEF hex_to_data
<1>2. h \in Seq(Range(h))
  BY CleanKeeps
<1>3. ASSUME o.kind = "ok"
      PROVE  o = Ok(dataFromHex(h)) /\ Even(h) /\ h # <<>>
  <2>1. o # Err /\ o # Panic
    BY <1>3, Kinds
  <2>2. Even(h) /\ o \in Decode(h, Len(h) \div 2)
    BY <2>1 DEF DataOutcomes
  <2> HIDE DEF h
  <2>3. o = Ok(dataFromHex(h)) /\ ValidateHex(h)
    BY <1>2, <2>1, <2>2, DecodeWhole
  <2> QED
    BY <2>2, <2>3 DEF ValidateHex
<1> HIDE DEF h
<1>4. o.kind = "ok" => Len(o.value) = Len(h) \div 2 /\ FlattenSeq(o.value) = h
  BY <1>2, <1>3, FlattenPairs, Kinds
<1> QED
  BY <1>1, <1>4 DEF DataWhole, h

(* hex_to_data gives the bytes the caller wrote, all of them and in their  *)
(* order, whatever the text and its length, and whether or not the library *)
(* drops a "0x" in front of what Rust has measured.                        *)
THEOREM ConversionsDataWhole == Spec => []DataWhole
<1>1. Init => DataWhole
  BY DEF Init, NoCall, DataWhole
<1>2. ASSUME DataWhole, [Next]_call PROVE DataWhole'
  <2>1. ASSUME NEW s \in Text, hex_to_data(s) PROVE DataWhole'
    BY <2>1, DataAnswer
  <2>2. ASSUME NEW s \in Text, with_hex(s) PROVE DataWhole'
    BY <2>2 DEF with_hex, DataWhole
  <2>3. ASSUME NEW x \in Probe, page_start(x) \/ page_end(x) PROVE DataWhole'
    BY <2>3 DEF page_start, page_end, DataWhole
  <2>4. CASE Return
    BY <2>4 DEF Return, NoCall, DataWhole
  <2>5. CASE UNCHANGED call
    BY <1>2, <2>5 DEF DataWhole
  <2> QED
    BY <1>2, <2>1, <2>2, <2>3, <2>4, <2>5 DEF Next, Call
<1> QED
  BY <1>1, <1>2, PTL DEF Spec

LEMMA PatchAnswer ==
  ASSUME NEW s \in Text, with_hex(s)
  PROVE  SameTexts'
<1> DEFINE h == Clean(s)
           D == DataOutcomes(s)
<1>1. PICK o \in PatchOutcomes(s) : call' = [op |-> "patch", in |-> s, out |-> o]
  BY DEF with_hex
<1>2. h \in Seq(Range(h))
  BY CleanKeeps
<1>3. CASE ~Even(h) \/ ~AllHex(h)
  <2>1. o = Err
    BY <1>1, <1>3 DEF PatchOutcomes
  <2>2. ASSUME NEW d \in D PROVE d.kind # "ok"
    <3>1. d = Err \/ d = Panic \/ (Even(h) /\ d \in Decode(h, Len(h) \div 2))
      BY DEF DataOutcomes
    <3> HIDE DEF h
    <3>2. d \in Decode(h, Len(h) \div 2) /\ Even(h) => d = Err
      BY <1>2, <1>3, DecodeWhole DEF ValidateHex
    <3> QED
      BY <3>1, <3>2, Kinds
  <2> QED
    BY <1>1, <2>1, <2>2, Kinds DEF SameTexts
<1>4. CASE Even(h) /\ AllHex(h)
  <2>1. o \in Patches(h) /\ Trimmed(h) = {h}
    BY <1>1, <1>2, <1>4, DigitsDecoded DEF PatchOutcomes
  <2>2. o = Ok(<<>>) \/ (o = Ok(dataFromHex(h)) /\ ValidateHex(h))
    BY <2>1 DEF Patches
  <2>3. h # <<>> => D = {Ok(dataFromHex(h))}
    <3>1. h # <<>> => ValidateHex(h)
      BY <1>4 DEF ValidateHex
    <3>2. D = Decode(h, Len(h) \div 2)
      BY <1>2, <1>4, DigitsDecoded DEF DataOutcomes
    <3> QED
      BY <1>2, <1>4, <3>1, <3>2, DigitsDecoded
  <2> HIDE DEF h, D
  <2>4. o.kind = "ok" /\ o # Panic
    BY <2>2, Kinds
  <2>5. \/ h = <<>>
        \/ o.value = <<>> /\ Err \notin D
        \/ D = {o}
    BY <2>2, <2>3, Kinds
  <2> QED
    BY <1>1, <2>4, <2>5 DEF SameTexts, h, D
<1> QED
  BY <1>3, <1>4

(* The checks with_hex and hex_to_data write twice agree on every text:    *)
(* one refuses what the other does not decode, and what both take becomes  *)
(* the same bytes.                                                         *)
THEOREM ConversionsSameTexts == Spec => []SameTexts
<1>1. Init => SameTexts
  BY DEF Init, NoCall, SameTexts
<1>2. ASSUME SameTexts, [Next]_call PROVE SameTexts'
  <2>1. ASSUME NEW s \in Text, with_hex(s) PROVE SameTexts'
    BY <2>1, PatchAnswer
  <2>2. ASSUME NEW s \in Text, hex_to_data(s) PROVE SameTexts'
    BY <2>2 DEF hex_to_data, SameTexts
  <2>3. ASSUME NEW x \in Probe, page_start(x) \/ page_end(x) PROVE SameTexts'
    BY <2>3 DEF page_start, page_end, SameTexts
  <2>4. CASE Return
    BY <2>4 DEF Return, NoCall, SameTexts
  <2>5. CASE UNCHANGED call
    BY <1>2, <2>5 DEF SameTexts
  <2> QED
    BY <1>2, <2>1, <2>2, <2>3, <2>4, <2>5 DEF Next, Call
<1> QED
  BY <1>1, <1>2, PTL DEF Spec
=============================================================================
