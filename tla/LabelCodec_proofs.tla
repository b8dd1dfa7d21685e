-------------------------- MODULE LabelCodec_proofs --------------------------
(***************************************************************************)
(* What is proved of LabelCodec for every set of labels, every text an     *)
(* administrator may choose and every length of its symbols.               *)
(***************************************************************************)
EXTENDS LabelCodec, FiniteSetTheorems, SequenceTheorems, TLAPS

-----------------------------------------------------------------------------
(* Cutting texts.                                                          *)

\* The k-th of the first n places is k.
LEMMA PlaceInPrefix ==
  ASSUME NEW n \in Nat, NEW k \in 1..n
  PROVE  Place(1..n, k) = k
<1>1. ASSUME NEW p \in 1..n
      PROVE  Cardinality({q \in 1..n : q < p}) = p - 1
  <2>1. {q \in 1..n : q < p} = 1..(p - 1)
    OBVIOUS
  <2>2. Cardinality(1..(p - 1)) = p - 1
    <3>1. p - 1 \in Int /\ ~(1 > p - 1) => (p - 1) - 1 + 1 = p - 1
      OBVIOUS
    <3> QED
      BY <3>1, FS_Interval
  <2> QED
    BY <2>1, <2>2
<1>2. \E p \in 1..n : Cardinality({q \in 1..n : q < p}) = k - 1
  BY <1>1
<1>3. \A p \in 1..n : Cardinality({q \in 1..n : q < p}) = k - 1 => p = k
  BY <1>1
<1> QED
  BY <1>2, <1>3 DEF Place

LEMMA SubTextIsPrefix ==
  ASSUME NEW S, NEW t \in Seq(S), NEW n \in 0..Len(t)
  PROVE  SubText(t, 1..n) = SubSeq(t, 1, n)
<1>1. Cardinality(1..n) = n
  BY FS_Interval
<1>2. SubText(t, 1..n) = [k \in 1..n |-> t[k]]
  BY <1>1, PlaceInPrefix DEF SubText
<1> QED
  BY <1>2

\* The places of two texts written one after the other.
LEMMA Joined ==
  ASSUME NEW S, NEW a \in Seq(S), NEW b \in Seq(S)
  PROVE  /\ a \o b \in Seq(S) /\ Len(a \o b) = Len(a) + Len(b)
         /\ \A i \in 1..Len(a) : (a \o b)[i] = a[i]
         /\ \A i \in 1..Len(b) : (a \o b)[Len(a) + i] = b[i]
<1>1. Len(a) \in Nat /\ Len(b) \in Nat
  OBVIOUS
<1> QED
  BY <1>1, ConcatProperties

\* A text that does not hold the marker.
Unmarked == Seq(Symbols \ {P})
\* The marker as it is appended to a text, and as TrueText leaves it.
Marker == <<Underscore, P>>
Rest   == <<Underscore>>

LEMMA SymbolFacts ==
  /\ P \in Symbols /\ Underscore \in Symbols /\ "true" \in Symbols /\ "false" \in Symbols
  /\ P # Underscore /\ P # "true" /\ P # "false" /\ "true" # "false"
BY CodecAssumption DEF P, Underscore

\* What the texts around a marker hold at each place.
LEMMA MarkedPlaces ==
  ASSUME NEW t \in Unmarked
  PROVE  /\ t \in Seq(Symbols) /\ Len(t) \in Nat
         /\ t \o Marker \in Seq(Symbols) /\ Len(t \o Marker) = Len(t) + 2
         /\ t \o Rest \in Seq(Symbols) /\ Len(t \o Rest) = Len(t) + 1
         /\ \A k \in 1..Len(t) : /\ t[k] \in Symbols \ {P}
                                 /\ (t \o Marker)[k] = t[k]
                                 /\ (t \o Rest)[k] = t[k]
         /\ (t \o Marker)[Len(t) + 1] = Underscore /\ (t \o Marker)[Len(t) + 2] = P
         /\ (t \o Rest)[Len(t) + 1] = Underscore
<1>1. t \in Seq(Symbols) /\ Len(t) \in Nat
      /\ \A k \in 1..Len(t) : t[k] \in Symbols \ {P}
  <2>1. t \in Seq(Symbols \ {P}) /\ Symbols \ {P} \subseteq Symbols
    BY DEF Unmarked
  <2> QED
    BY <2>1, SeqMonotonic, LenProperties, ElementOfSeq
<1>2. /\ Marker \in Seq(Symbols) /\ Len(Marker) = 2
      /\ Marker[1] = Underscore /\ Marker[2] = P
      /\ Rest \in Seq(Symbols) /\ Len(Rest) = 1 /\ Rest[1] = Underscore
  BY SymbolFacts DEF Marker, Rest
<1>3. /\ t \o Marker \in Seq(Symbols) /\ Len(t \o Marker) = Len(t) + 2
      /\ \A i \in 1..Len(t) : (t \o Marker)[i] = t[i]
      /\ \A i \in 1..2 : (t \o Marker)[Len(t) + i] = Marker[i]
  <2>1. t \in Seq(Symbols) /\ Marker \in Seq(Symbols) /\ Len(Marker) = 2
    BY <1>1, <1>2
  <2> QED
    BY <2>1, Joined
<1>4. /\ t \o Rest \in Seq(Symbols) /\ Len(t \o Rest) = Len(t) + 1
      /\ \A i \in 1..Len(t) : (t \o Rest)[i] = t[i]
      /\ (t \o Rest)[Len(t) + 1] = Rest[1]
  <2> DEFINE r == Rest
  <2>1. t \in Seq(Symbols) /\ r \in Seq(Symbols)
    BY <1>1, <1>2
  <2>2. Len(r) = 1 /\ 1 \in 1..Len(r)
    BY <1>2
  <2> HIDE DEF r
  <2>3. /\ t \o r \in Seq(Symbols) /\ Len(t \o r) = Len(t) + Len(r)
        /\ \A i \in 1..Len(t) : (t \o r)[i] = t[i]
        /\ \A i \in 1..Len(r) : (t \o r)[Len(t) + i] = r[i]
    BY <2>1, Joined
  <2> QED
    BY <2>2, <2>3 DEF r
<1> HIDE DEF Unmarked
<1>5. /\ (t \o Marker)[Len(t) + 1] = Underscore /\ (t \o Marker)[Len(t) + 2] = P
      /\ (t \o Rest)[Len(t) + 1] = Underscore
  BY <1>1, <1>2, <1>3, <1>4
<1>6. \A k \in 1..Len(t) : (t \o Marker)[k] = t[k] /\ (t \o Rest)[k] = t[k]
  BY <1>1, <1>3, <1>4
<1> QED
  BY <1>1, <1>3, <1>4, <1>5, <1>6

\* The regular expression finds nothing in a text without the marker, and takes
\* from a marked one the marker but not the underscore before it.
LEMMA MarkersGo ==
  ASSUME NEW t \in Unmarked
  PROVE  /\ WithoutMarkers(t) = t
         /\ WithoutMarkers(t \o Marker) = t \o Rest
<1> DEFINE n == Len(t)
           kept(u) == {k \in DOMAIN u :
                         u[k] # P /\ ~(u[k] = Underscore /\ k > 1 /\ u[k-1] = P)}
<1>1. n \in Nat /\ DOMAIN t = 1..n /\ DOMAIN (t \o Marker) = 1..(n + 2)
  BY MarkedPlaces
<1>2. kept(t) = 1..n
  <2>1. \A k \in 1..n : t[k] # P /\ (k > 1 => t[k-1] # P)
    BY <1>1, MarkedPlaces
  <2> QED
    BY <1>1, <2>1
<1>3. kept(t \o Marker) = 1..(n + 1)
  <2>1. \A k \in 1..(n + 1) : (t \o Marker)[k] # P
    <3>1. \A k \in 1..n : (t \o Marker)[k] # P
      BY MarkedPlaces
    <3>2. (t \o Marker)[n + 1] # P
      BY MarkedPlaces, SymbolFacts
    <3> QED
      BY <1>1, <3>1, <3>2
  <2>2. (t \o Marker)[n + 2] = P
    BY MarkedPlaces
  <2> QED
    BY <1>1, <2>1, <2>2
<1>0. \A u : WithoutMarkers(u) = SubText(u, kept(u))
  BY DEF WithoutMarkers
<1> HIDE DEF kept
<1>4. WithoutMarkers(t) = t
  <2>1. n \in 0..Len(t)
    BY <1>1
  <2>2. WithoutMarkers(t) = SubSeq(t, 1, n)
    BY <1>0, <1>2, <2>1, SubTextIsPrefix, MarkedPlaces
  <2> QED
    BY <2>2, MarkedPlaces
<1>5. WithoutMarkers(t \o Marker) = t \o Rest
  <2>1. WithoutMarkers(t \o Marker) = SubSeq(t \o Marker, 1, n + 1)
    <3> DEFINE u == t \o Marker
    <3>1. u \in Seq(Symbols) /\ n + 1 \in 0..Len(u)
      BY <1>1, MarkedPlaces
    <3>2. kept(u) = 1..(n + 1)
      BY <1>3
    <3> HIDE DEF u
    <3>3. WithoutMarkers(u) = SubSeq(u, 1, n + 1)
      BY <1>0, <3>1, <3>2, SubTextIsPrefix, Zenon
    <3> QED
      BY <3>3 DEF u
  <2>2. \A k \in 1..(n + 1) : (t \o Marker)[k] = (t \o Rest)[k]
    BY <1>1, MarkedPlaces
  <2>3. SubSeq(t \o Marker, 1, n + 1) = t \o Rest
    BY <1>1, <2>2, MarkedPlaces
  <2> QED
    BY <2>1, <2>3
<1> QED
  BY <1>4, <1>5

\* A text with other symbols than underscores at its ends keeps them, and loses
\* an underscore behind it.
LEMMA Trimmed ==
  ASSUME NEW t \in Unmarked, t # <<>>, t[1] # Underscore, t[Len(t)] # Underscore
  PROVE  Trim(t) = t /\ Trim(t \o Rest) = t
<1> DEFINE n == Len(t)
           kept(u) == {k \in DOMAIN u : /\ \E j \in DOMAIN u : j <= k /\ u[j] # Underscore
                                        /\ \E j \in DOMAIN u : j >= k /\ u[j] # Underscore}
<1>1. n \in Nat \ {0} /\ DOMAIN t = 1..n /\ DOMAIN (t \o Rest) = 1..(n + 1)
  BY MarkedPlaces
<1>2. kept(t) = 1..n
  <2>1. \A k \in 1..n : 1 <= k /\ n >= k /\ 1 \in 1..n /\ n \in 1..n
    BY <1>1
  <2> QED
    BY <1>1, <2>1
<1>3. kept(t \o Rest) = 1..n
  <2>1. (t \o Rest)[1] # Underscore /\ (t \o Rest)[n] # Underscore /\ (t \o Rest)[n + 1] = Underscore
    BY <1>1, MarkedPlaces
  <2>2. ASSUME NEW k \in 1..n PROVE k \in kept(t \o Rest)
    BY <1>1, <2>1
  <2>3. ASSUME n + 1 \in kept(t \o Rest) PROVE FALSE
    <3>1. PICK j \in 1..(n + 1) : j >= n + 1 /\ (t \o Rest)[j] # Underscore
      BY <1>1, <2>3
    <3> QED
      BY <1>1, <2>1, <3>1
  <2> QED
    BY <1>1, <2>2, <2>3
<1>4. /\ t \in Seq(Symbols) /\ t \o Rest \in Seq(Symbols)
      /\ Len(t \o Rest) = n + 1 /\ n \in 0..Len(t) /\ n \in 0..Len(t \o Rest)
  <2>1. Len(t \o Rest) = n + 1 /\ t \in Seq(Symbols) /\ t \o Rest \in Seq(Symbols)
    BY MarkedPlaces
  <2> QED
    BY <1>1, <2>1
<1>5. \A k \in 1..n : (t \o Rest)[k] = t[k]
  BY MarkedPlaces
<1> HIDE DEF kept
<1>6. SubText(t, 1..n) = SubSeq(t, 1, n)
      /\ SubText(t \o Rest, 1..n) = SubSeq(t \o Rest, 1, n)
  BY <1>4, SubTextIsPrefix
<1>7. SubSeq(t, 1, n) = t /\ SubSeq(t \o Rest, 1, n) = t
  BY <1>1, <1>4, <1>5
<1> QED
  BY <1>2, <1>3, <1>6, <1>7 DEF Trim, kept

-----------------------------------------------------------------------------
(* Counting characters.                                                    *)

Characters(t) == UNION {CharactersAt(t, k) : k \in DOMAIN t}

LEMMA CharactersOfOne ==
  ASSUME NEW t \in Seq(Symbols), NEW k \in 1..Len(t)
  PROVE  /\ Weight[t[k]] \in Nat
         /\ IsFiniteSet(CharactersAt(t, k))
         /\ Cardinality(CharactersAt(t, k)) = Weight[t[k]]
<1>1. Weight[t[k]] \in Nat
  <2>1. t[k] \in Symbols
    BY ElementOfSeq
  <2> QED
    BY <2>1, CodecAssumption
<1>2. IsFiniteSet(1..Weight[t[k]]) /\ Cardinality(1..Weight[t[k]]) = Weight[t[k]]
  <2> DEFINE w == Weight[t[k]]
  <2>1. w \in Nat /\ 1 \in Int /\ w \in Int
    BY <1>1
  <2> HIDE DEF w
  <2>2. IsFiniteSet(1..w) /\ Cardinality(1..w) = IF 1 > w THEN 0 ELSE w - 1 + 1
    BY <2>1, FS_Interval, Zenon
  <2>3. Cardinality(1..w) = w
    BY <2>1, <2>2
  <2> QED
    BY <2>2, <2>3 DEF w
<1>3. IsFiniteSet({k}) /\ Cardinality({k}) = 1
  BY FS_Singleton
<1>4. /\ IsFiniteSet({k} \X (1..Weight[t[k]]))
      /\ Cardinality({k} \X (1..Weight[t[k]])) = 1 * Weight[t[k]]
  <2> DEFINE A == {k}
             B == 1..Weight[t[k]]
  <2>1. /\ IsFiniteSet(A) /\ Cardinality(A) = 1
        /\ IsFiniteSet(B) /\ Cardinality(B) = Weight[t[k]]
    BY <1>2, <1>3
  <2> HIDE DEF A, B
  <2>2. IsFiniteSet(A \X B) /\ Cardinality(A \X B) = Cardinality(A) * Cardinality(B)
    BY <2>1, FS_Product
  <2> QED
    BY <2>1, <2>2 DEF A, B
<1> QED
  BY <1>1, <1>4 DEF CharactersAt

LEMMA CharactersFinite ==
  ASSUME NEW t \in Seq(Symbols)
  PROVE  IsFiniteSet(Characters(t)) /\ Length(t) \in Nat
<1> DEFINE parts == {CharactersAt(t, k) : k \in 1..Len(t)}
           part == [k \in 1..Len(t) |-> CharactersAt(t, k)]
<1>1. Len(t) \in Nat /\ DOMAIN t = 1..Len(t)
  BY LenProperties
<1>2. IsFiniteSet(1..Len(t))
  BY <1>1, FS_Interval
<1>3. part \in Surjection(1..Len(t), parts)
  BY DEF Surjection
<1>4. IsFiniteSet(parts)
  BY <1>2, <1>3, FS_Surjection
<1>5. \A S \in parts : IsFiniteSet(S)
  BY CharactersOfOne
<1> HIDE DEF parts
<1>6. IsFiniteSet(UNION parts)
  BY <1>4, <1>5, FS_UNION
<1> USE DEF parts
<1>7. IsFiniteSet(Characters(t)) /\ Length(t) = Cardinality(Characters(t))
  BY <1>1, <1>6 DEF Characters, Length
<1> QED
  BY <1>7, FS_CardinalityType

\* One symbol more makes a text longer by the characters of that symbol.
LEMMA OneSymbolMore ==
  ASSUME NEW t \in Seq(Symbols), NEW u \in Seq(Symbols),
         Len(u) = Len(t) + 1, \A k \in 1..Len(t) : u[k] = t[k]
  PROVE  Length(u) = Length(t) + Weight[u[Len(u)]]
<1> DEFINE n == Len(t)
<1>1. n \in Nat /\ DOMAIN t = 1..n /\ DOMAIN u = 1..(n + 1) /\ Len(u) = n + 1
  BY LenProperties
<1>2. \A k \in 1..n : CharactersAt(u, k) = CharactersAt(t, k)
  BY DEF CharactersAt
<1>3. Characters(u) = Characters(t) \cup CharactersAt(u, n + 1)
  <2>1. 1..(n + 1) = (1..n) \cup {n + 1}
    BY <1>1
  <2> QED
    BY <1>1, <1>2, <2>1 DEF Characters
<1>4. Characters(t) \cap CharactersAt(u, n + 1) = {}
  <2>1. ASSUME NEW k \in 1..n PROVE CharactersAt(t, k) \cap CharactersAt(u, n + 1) = {}
    BY <1>1 DEF CharactersAt
  <2> QED
    BY <1>1, <2>1 DEF Characters
<1>5. /\ IsFiniteSet(CharactersAt(u, n + 1))
      /\ Cardinality(CharactersAt(u, n + 1)) = Weight[u[n + 1]]
      /\ Weight[u[n + 1]] \in Nat
  BY <1>1, CharactersOfOne
<1>6. IsFiniteSet(Characters(t)) /\ Cardinality(Characters(t)) \in Nat
  BY CharactersFinite, FS_CardinalityType
<1>7. Cardinality(Characters(u)) = Cardinality(Characters(t)) + Weight[u[n + 1]]
  <2>1. Cardinality(Characters(t) \cap CharactersAt(u, n + 1)) = 0
    BY <1>4, FS_EmptySet
  <2>2. Cardinality(Characters(t) \cup CharactersAt(u, n + 1)) =
          Cardinality(Characters(t)) + Cardinality(CharactersAt(u, n + 1))
            - Cardinality(Characters(t) \cap CharactersAt(u, n + 1))
    BY <1>5, <1>6, FS_Union, Zenon
  <2> QED
    BY <1>3, <1>5, <1>6, <2>1, <2>2
<1> QED
  BY <1>1, <1>7 DEF Length, Characters

\* The marker behind a text costs its own characters and the underscore; alone
\* it costs its own.
LEMMA MarkerCosts ==
  /\ \A t \in Unmarked : /\ Length(t) \in Nat /\ MarkerLength \in Nat
                         /\ Length(t \o Marker) = Length(t) + MarkerLength
  /\ Length(<<P>>) = Weight[P]
<1>1. Weight[P] \in Nat /\ Weight[Underscore] \in Nat
  BY SymbolFacts, CodecAssumption
<1>2. ASSUME NEW t \in Unmarked
      PROVE  /\ Length(t) \in Nat
             /\ Length(t \o Marker) = Length(t) + MarkerLength
  <2>1. Length(t \o Rest) = Length(t) + Weight[Underscore]
    <3> DEFINE u == t \o Rest
    <3>1. /\ t \in Seq(Symbols) /\ u \in Seq(Symbols) /\ Len(u) = Len(t) + 1
          /\ \A k \in 1..Len(t) : u[k] = t[k]
          /\ u[Len(u)] = Underscore
      BY MarkedPlaces
    <3> HIDE DEF u
    <3>2. Length(u) = Length(t) + Weight[u[Len(u)]]
      BY <3>1, OneSymbolMore, Zenon
    <3> QED
      BY <3>1, <3>2 DEF u
  <2>2. Length(t \o Marker) = Length(t \o Rest) + Weight[P]
    <3> DEFINE u == t \o Rest
               v == t \o Marker
    <3>1. /\ u \in Seq(Symbols) /\ v \in Seq(Symbols) /\ Len(v) = Len(u) + 1
          /\ \A k \in 1..Len(u) : v[k] = u[k]
          /\ v[Len(v)] = P
      BY MarkedPlaces
    <3> HIDE DEF u, v
    <3>2. Length(v) = Length(u) + Weight[v[Len(v)]]
      BY <3>1, OneSymbolMore, Zenon
    <3> QED
      BY <3>1, <3>2 DEF u, v
  <2>3. Length(t) \in Nat
    BY MarkedPlaces, CharactersFinite
  <2> QED
    BY <1>1, <2>1, <2>2, <2>3 DEF MarkerLength
<1>3. Length(<<P>>) = Weight[P]
  <2>1. /\ <<>> \in Seq(Symbols) /\ <<P>> \in Seq(Symbols)
        /\ Len(<<P>>) = Len(<<>>) + 1 /\ <<P>>[Len(<<P>>)] = P
        /\ \A k \in 1..Len(<<>>) : <<P>>[k] = <<>>[k]
    BY SymbolFacts
  <2>2. Length(<<P>>) = Length(<<>>) + Weight[<<P>>[Len(<<P>>)]]
    BY <2>1, OneSymbolMore, Zenon
  <2>3. Length(<<>>) = 0
    BY FS_EmptySet DEF Length
  <2> QED
    BY <1>1, <2>2, <2>3
<1> QED
  BY <1>1, <1>2, <1>3 DEF MarkerLength

-----------------------------------------------------------------------------
(* The texts of the values, and what rewriting makes of them.              *)

\* The text an administrator writes for b, and what pausing makes of it.
PlainText(b)  == Encode(Plain(b))
PausedForm(b) == IF b = "true" THEN <<P>> ELSE PlainText(b) \o Marker

LEMMA BaseFacts ==
  /\ Pausable \subseteq Bases /\ "true" \in Pausable
  /\ \A b \in CustomBases : b \notin {"absent", "empty", "false", "true"}
  /\ \A b \in Bases : \/ b \in {"absent", "empty", "false"} /\ b \notin Pausable
                      \/ b = "true" \/ b \in CustomBases
  /\ \A b \in Pausable : b = "true" \/ b \in CustomBases
BY CustomBasesAssumption DEF Pausable, Bases, Intents

LEMMA PlainTexts ==
  /\ PlainText("absent") = <<>> /\ PlainText("empty") = <<>>
  /\ PlainText("false") = <<"false">> /\ PlainText("true") = <<"true">>
  /\ \A b \in CustomBases : PlainText(b) = Text[b]
<1>1. \A b \in CustomBases : b \notin {"absent", "empty"}
  BY BaseFacts
<1>2. \A b \in {"false", "true"} : b \notin CustomBases /\ b \notin {"absent", "empty"}
  BY BaseFacts
<1>3. \A b : Plain(b).base = b /\ Plain(b).paused = FALSE
  BY DEF Plain
<1> QED
  BY <1>1, <1>2, <1>3 DEF PlainText, Encode

\* A value's text is that of its base, paused or not.
LEMMA EncodeByBase ==
  ASSUME NEW v \in LabelValues
  PROVE  /\ v.base \in Bases /\ v.paused \in BOOLEAN
         /\ v.paused => v.base \in Pausable
         /\ Encode(v) = IF v.paused THEN PausedForm(v.base) ELSE PlainText(v.base)
<1>1. /\ v.base \in Bases /\ v.paused \in BOOLEAN
      /\ v.paused => v.base \in Pausable
  BY DEF LabelValues
<1>2. Plain(v.base).base = v.base /\ Plain(v.base).paused = FALSE
  BY DEF Plain
<1> QED
  BY <1>1, <1>2 DEF Encode, PlainText, PausedForm, Marker

LEMMA RewrittenValues ==
  ASSUME NEW v \in LabelValues
  PROVE  /\ Encode(MaybeSetPaused(v)) =
              IF v.base \in Pausable THEN PausedForm(v.base) ELSE PlainText(v.base)
         /\ Encode(MaybeSetTrue(v)) = PlainText(v.base)
<1>1. v.base \in Bases /\ v \in [base : Bases, paused : BOOLEAN]
  BY DEF LabelValues
<1>2. Encode(MaybeSetTrue(v)) = PlainText(v.base)
  <2>1. /\ MaybeSetTrue(v) \in LabelValues
        /\ MaybeSetTrue(v).base = v.base /\ MaybeSetTrue(v).paused = FALSE
    BY <1>1 DEF MaybeSetTrue, LabelValues
  <2> QED
    BY <2>1, EncodeByBase
<1>3. CASE v.base \in Pausable
  <2>1. /\ MaybeSetPaused(v) \in LabelValues
        /\ MaybeSetPaused(v).base = v.base /\ MaybeSetPaused(v).paused = TRUE
    BY <1>1, <1>3 DEF MaybeSetPaused, LabelValues
  <2>2. Encode(MaybeSetPaused(v)) = PausedForm(v.base)
    BY <2>1, EncodeByBase
  <2> QED
    BY <1>2, <1>3, <2>2
<1>4. CASE v.base \notin Pausable
  <2>1. MaybeSetPaused(v) = v /\ ~v.paused
    BY <1>4 DEF MaybeSetPaused, LabelValues
  <2>2. Encode(MaybeSetPaused(v)) = PlainText(v.base)
    BY <2>1, EncodeByBase
  <2> QED
    BY <1>2, <1>4, <2>2
<1> QED
  BY <1>3, <1>4

\* No plain text holds the marker; every paused one ends with it.
LEMMA PlainUnmarked ==
  ASSUME NEW b \in Bases
  PROVE  /\ PlainText(b) \in Unmarked /\ PlainText(b) \in Seq(Symbols)
         /\ ~HasMarker(PlainText(b)) /\ PlainText(b) # <<P>>
<1>1. PlainText(b) \in Unmarked
  <2>1. <<>> \in Unmarked /\ <<"true">> \in Unmarked /\ <<"false">> \in Unmarked
    BY SymbolFacts DEF Unmarked
  <2>2. \A c \in CustomBases : Text[c] \in Unmarked
    BY CodecAssumption DEF Unmarked
  <2> QED
    BY <2>1, <2>2, PlainTexts, BaseFacts
<1>2. \A t \in Unmarked : t \in Seq(Symbols) /\ ~HasMarker(t)
  BY MarkedPlaces DEF HasMarker
<1>3. HasMarker(<<P>>)
  BY DEF HasMarker
<1> QED
  BY <1>1, <1>2, <1>3

LEMMA PausedForms ==
  ASSUME NEW b \in Pausable
  PROVE  /\ PausedForm(b) \in Seq(Symbols) /\ HasMarker(PausedForm(b))
         /\ PausedForm(b) \notin {<<>>, <<"true">>, <<"false">>}
         /\ b = "true" => PausedForm(b) = <<P>>
         /\ b # "true" => /\ b \in CustomBases /\ PlainText(b) # <<>>
                          /\ PausedForm(b) = PlainText(b) \o Marker
                          /\ Len(PausedForm(b)) = Len(PlainText(b)) + 2
                          /\ PausedForm(b) # <<P>>
<1>1. CASE b = "true"
  <2>1. <<P>> \in Seq(Symbols) /\ HasMarker(<<P>>)
    BY SymbolFacts DEF HasMarker
  <2>2. <<P>> \notin {<<>>, <<"true">>, <<"false">>}
    BY SymbolFacts
  <2> QED
    BY <1>1, <2>1, <2>2 DEF PausedForm
<1>2. CASE b # "true"
  <2>1. b \in CustomBases /\ b \in Bases
    BY <1>2, BaseFacts
  <2>2. PausedForm(b) = PlainText(b) \o Marker
    BY <1>2 DEF PausedForm
  <2>3. PlainText(b) \in Unmarked /\ PlainText(b) # <<>>
    BY <2>1, PlainUnmarked, PlainTexts, CodecAssumption
  <2>4. /\ Len(PlainText(b)) \in Nat \ {0} /\ PausedForm(b) \in Seq(Symbols)
        /\ Len(PausedForm(b)) = Len(PlainText(b)) + 2
        /\ PausedForm(b)[Len(PlainText(b)) + 2] = P
    <3>1. Len(PlainText(b)) \in Nat \ {0}
      BY <2>1, <2>3, PlainUnmarked, EmptySeq
    <3> QED
      BY <2>2, <2>3, <3>1, MarkedPlaces
  <2>5. HasMarker(PausedForm(b))
    BY <2>4 DEF HasMarker
  <2>6. \A t \in {<<>>, <<"true">>, <<"false">>, <<P>>} : PausedForm(b) # t
    <3>1. /\ Len(<<>>) <= 1 /\ Len(<<"true">>) <= 1 /\ Len(<<"false">>) <= 1
          /\ Len(<<P>>) <= 1 /\ Len(PausedForm(b)) > 1
      BY <2>4
    <3> QED
      BY <3>1
  <2> QED
    BY <1>2, <2>1, <2>2, <2>3, <2>4, <2>5, <2>6
<1> QED
  BY <1>1, <1>2

\* Pausing a text writes the marker once, and restoring one takes it out and
\* nothing else.
LEMMA PausingTexts ==
  /\ \A b \in Bases : PausedText(PlainText(b)) =
                        IF b \in Pausable THEN PausedForm(b) ELSE PlainText(b)
  /\ \A b \in Pausable : PausedText(PausedForm(b)) = PausedForm(b)
<1>1. ASSUME NEW b \in Bases
      PROVE  PausedText(PlainText(b)) =
               IF b \in Pausable THEN PausedForm(b) ELSE PlainText(b)
  <2>1. CASE b \in {"absent", "empty", "false"}
    BY <2>1, BaseFacts, PlainTexts DEF PausedText, Pausable
  <2>2. CASE b = "true"
    <3>1. <<"true">> # <<>> /\ <<"true">> # <<"false">>
      OBVIOUS
    <3> QED
      BY <2>2, <3>1, PlainTexts, BaseFacts DEF PausedText, PausedForm
  <2>3. CASE b \in CustomBases
    <3>1. PlainText(b) \notin {<<>>, <<"true">>, <<"false">>}
      BY <2>3, PlainTexts, CodecAssumption
    <3>2. b \in Pausable /\ b # "true"
      BY <2>3, BaseFacts DEF Pausable
    <3> QED
      BY <3>1, <3>2, PlainUnmarked DEF PausedText, PausedForm, Marker
  <2> QED
    BY <2>1, <2>2, <2>3, BaseFacts
<1>2. ASSUME NEW b \in Pausable PROVE PausedText(PausedForm(b)) = PausedForm(b)
  BY PausedForms DEF PausedText
<1> QED
  BY <1>1, <1>2

LEMMA RestoringTexts ==
  ASSUME NEW b \in Bases, Valid(PlainText(b))
  PROVE  /\ TrueText(PlainText(b)) = PlainText(b)
         /\ b \in Pausable => TrueText(PausedForm(b)) = PlainText(b)
<1> DEFINE t == PlainText(b)
<1>1. t \in Unmarked /\ t # <<P>>
  BY PlainUnmarked
<1>2. t # <<>> => t[1] # Underscore /\ t[Len(t)] # Underscore
  BY DEF Valid
<1>3. TrueText(t) = t
  <2>1. CASE t = <<>>
    <3>1. WithoutMarkers(t) = t
      BY <1>1, MarkersGo
    <3>2. Trim(<<>>) = SubText(<<>>, 1..0)
      BY DEF Trim
    <3>3. SubText(<<>>, 1..0) = SubSeq(<<>>, 1, 0)
      <4>1. <<>> \in Seq({}) /\ 0 \in 0..Len(<<>>)
        OBVIOUS
      <4> QED
        BY <4>1, SubTextIsPrefix
    <3>4. SubSeq(<<>>, 1, 0) = <<>>
      OBVIOUS
    <3> QED
      BY <1>1, <2>1, <3>1, <3>2, <3>3, <3>4 DEF TrueText
  <2>2. CASE t # <<>>
    <3>1. Trim(t) = t
      BY <1>1, <1>2, <2>2, Trimmed
    <3> QED
      BY <1>1, <3>1, MarkersGo DEF TrueText
  <2> QED
    BY <2>1, <2>2
<1>4. ASSUME b \in Pausable PROVE TrueText(PausedForm(b)) = t
  <2>1. CASE b = "true"
    <3>1. PausedForm(b) = <<P>> /\ <<P>> # <<"false">>
      BY <1>4, <2>1, PausedForms
    <3> QED
      BY <2>1, <3>1, PlainTexts DEF TrueText
  <2>2. CASE b # "true"
    <3>1. /\ PausedForm(b) = t \o Marker /\ PausedForm(b) # <<P>>
          /\ PausedForm(b) # <<"false">> /\ t # <<>>
      BY <1>4, <2>2, PausedForms
    <3>2. WithoutMarkers(PausedForm(b)) = t \o Rest
      BY <1>1, <3>1, MarkersGo
    <3>3. Trim(t \o Rest) = t
      BY <1>1, <1>2, <3>1, Trimmed
    <3> QED
      BY <3>1, <3>2, <3>3 DEF TrueText
  <2> QED
    BY <2>1, <2>2
<1> QED
  BY <1>3, <1>4

\* A text tells whether it is paused and, up to values that read alike, what
\* was asked for.
LEMMA TextsTellValues ==
  ASSUME NEW v \in LabelValues, NEW w \in LabelValues, Encode(v) = Encode(w)
  PROVE  /\ v.paused = w.paused
         /\ PlainText(v.base) = PlainText(w.base)
<1>1. v.paused = w.paused
  <2>1. \A x \in LabelValues : HasMarker(Encode(x)) <=> x.paused
    BY EncodeByBase, PlainUnmarked, PausedForms
  <2>2. v.paused \in BOOLEAN /\ w.paused \in BOOLEAN
    BY EncodeByBase
  <2> QED
    BY <2>1, <2>2
<1>2. CASE ~v.paused
  BY <1>1, <1>2, EncodeByBase
<1>3. CASE v.paused
  <2>1. /\ v.base \in Pausable /\ w.base \in Pausable
        /\ PausedForm(v.base) = PausedForm(w.base)
    BY <1>1, <1>3, EncodeByBase
  <2>2. v.base = "true" <=> w.base = "true"
    BY <2>1, PausedForms
  <2>3. ASSUME v.base # "true" PROVE PlainText(v.base) = PlainText(w.base)
    <3>1. PlainText(v.base) \o Marker = PlainText(w.base) \o Marker
      BY <2>1, <2>2, <2>3, PausedForms
    <3>2. /\ PlainText(v.base) \in Seq(Symbols) /\ PlainText(w.base) \in Seq(Symbols)
          /\ Marker \in Seq(Symbols)
      BY <2>1, BaseFacts, PlainUnmarked, SymbolFacts DEF Marker
    <3> HIDE DEF Marker
    <3> QED
      BY <3>1, <3>2, ConcatSimplifications, Zenon
  <2> QED
    BY <1>1, <2>2, <2>3
<1> QED
  BY <1>2, <1>3, EncodeByBase

\* A paused text is refused exactly when the plain one leaves no room.
Full(b) == b \in CustomBases /\ Length(Text[b]) + MarkerLength > MaxLength

LEMMA RefusedWhenFull ==
  ASSUME NEW b \in Pausable, Valid(PlainText(b))
  PROVE  Valid(PausedForm(b)) <=> ~Full(b)
<1>1. CASE b = "true"
  <2>1. /\ PausedForm(b) = <<P>> /\ Length(<<P>>) <= MaxLength
        /\ <<P>>[1] = P /\ Len(<<P>>) = 1 /\ P # Underscore
    BY <1>1, PausedForms, MarkerCosts, CodecAssumption, SymbolFacts
  <2>2. Valid(PausedForm(b))
    BY <2>1 DEF Valid
  <2>3. ~Full(b)
    BY <1>1, BaseFacts DEF Full
  <2> QED
    BY <2>2, <2>3
<1>2. CASE b # "true"
  <2> DEFINE t == PlainText(b)
             u == PausedForm(b)
  <2>1. /\ b \in CustomBases /\ t \in Unmarked /\ t = Text[b] /\ t # <<>>
        /\ u = t \o Marker /\ u # <<>>
    BY <1>2, PausedForms, BaseFacts, PlainUnmarked, PlainTexts
  <2>2. Len(t) \in Nat \ {0}
    BY <2>1, MarkedPlaces, EmptySeq
  <2>3. u[1] = t[1] /\ u[Len(u)] = P
    BY <2>1, <2>2, MarkedPlaces
  <2>4. u[1] # Underscore /\ u[Len(u)] # Underscore
    BY <2>1, <2>3, SymbolFacts DEF Valid
  <2>5. Valid(u) <=> Length(u) <= MaxLength
    BY <2>1, <2>4 DEF Valid
  <2>6. /\ Length(u) = Length(t) + MarkerLength
        /\ Length(t) \in Nat /\ MarkerLength \in Nat /\ MaxLength \in Nat
    BY <2>1, MarkerCosts, CodecAssumption
  <2>7. Full(b) <=> Length(t) + MarkerLength > MaxLength
    BY <2>1 DEF Full
  <2> HIDE DEF t, u
  <2> QED
    BY <2>5, <2>6, <2>7 DEF u
<1> QED
  BY <1>1, <1>2

-----------------------------------------------------------------------------
(* The inductive invariant.                                                *)

\* The text t stands for b, paused or not.
Stands(t, b) == t = PlainText(b) \/ (b \in Pausable /\ t = PausedForm(b))

\* What an attempt has fetched stands for the same as what the node holds, and
\* is what the node holds until the first patch is accepted; that one is
\* accepted when no text is full, the second always.
CodecInv ==
  /\ TypeOK
  /\ \A k \in Keys : Valid(PlainText(want[k])) /\ Stands(text[k], want[k])
  /\ pc \in {"fetched", "paused", "cleanup"} =>
       \A k \in Keys : Stands(comps[k], want[k])
  /\ pc \in {"fetched", "cleanup"} => text = comps
  /\ pc = "restored" => \A k \in Keys : text[k] = PlainText(want[k])
  /\ pc # "stuck"
  /\ rejected => pc \in {"cleanup", "restored"} /\ \E k \in Keys : Full(want[k])
  /\ pc = "paused" => \A k \in Keys : ~Full(want[k])

LEMMA StandingTexts ==
  ASSUME NEW b \in Bases, NEW t, Stands(t, b), Valid(PlainText(b))
  PROVE  /\ t \in Seq(Symbols)
         /\ PausedText(t) \in Seq(Symbols) /\ Stands(PausedText(t), b)
         /\ Valid(PausedText(t)) <=> ~Full(b)
         /\ TrueText(t) = PlainText(b)
<1>1. PlainText(b) \in Seq(Symbols)
  BY PlainUnmarked
<1>2. TrueText(t) = PlainText(b)
  BY RestoringTexts DEF Stands
<1>3. CASE b \in Pausable
  <2>1. PausedText(t) = PausedForm(b) /\ PausedForm(b) \in Seq(Symbols)
    BY <1>3, PausingTexts, PausedForms DEF Stands
  <2>2. t \in Seq(Symbols)
    BY <1>1, <2>1 DEF Stands
  <2>3. Valid(PausedText(t)) <=> ~Full(b)
    BY <1>3, <2>1, RefusedWhenFull
  <2>4. Stands(PausedText(t), b)
    BY <1>3, <2>1 DEF Stands
  <2> QED
    BY <1>2, <2>1, <2>2, <2>3, <2>4
<1>4. CASE b \notin Pausable
  <2>1. t = PlainText(b) /\ PausedText(t) = PlainText(b)
    BY <1>4, PausingTexts DEF Stands
  <2>2. ~Full(b)
    BY <1>4 DEF Full, Pausable
  <2> QED
    BY <1>1, <1>2, <2>1, <2>2 DEF Stands
<1> QED
  BY <1>3, <1>4

\* A text that stands for b is that of a value of b.
LEMMA StandingValue ==
  ASSUME NEW b \in Bases, NEW t, Stands(t, b)
  PROVE  \E v \in LabelValues : v.base = b /\ t = Encode(v)
<1>1. CASE t = PlainText(b)
  <2>1. Plain(b) \in LabelValues /\ Plain(b).base = b
    BY DEF Plain, LabelValues
  <2> QED
    BY <1>1, <2>1 DEF PlainText
<1>2. CASE b \in Pausable /\ t = PausedForm(b)
  <2> DEFINE v == [base |-> b, paused |-> TRUE]
  <2>1. v \in LabelValues /\ v.base = b /\ v.paused
    BY <1>2 DEF LabelValues
  <2> HIDE DEF v
  <2>2. Encode(v) = PausedForm(b)
    BY <2>1, EncodeByBase
  <2> QED
    BY <1>2, <2>1, <2>2
<1> QED
  BY <1>1, <1>2 DEF Stands

LEMMA CodecInit == Init => CodecInv
<1> SUFFICES ASSUME Init PROVE CodecInv
  OBVIOUS
<1>1. want \in [Keys -> Bases] /\ text = [k \in Keys |-> PlainText(want[k])]
  BY DEF Init, PlainText
<1>2. \A k \in Keys : /\ want[k] \in Bases /\ text[k] = PlainText(want[k])
                      /\ PlainText(want[k]) \in Seq(Symbols)
                      /\ Valid(PlainText(want[k]))
  BY <1>1, PlainUnmarked DEF Init
<1>3. <<>> \in Seq(Symbols)
  OBVIOUS
<1>4. comps = [k \in Keys |-> <<>>] /\ pc = "ended" /\ rejected = FALSE
  BY DEF Init
<1>5. TypeOK
  BY <1>1, <1>2, <1>3, <1>4 DEF TypeOK
<1> QED
  BY <1>2, <1>4, <1>5 DEF CodecInv, Stands

LEMMA CodecStep == CodecInv /\ [Next]_vars => CodecInv'
<1> SUFFICES ASSUME CodecInv, [Next]_vars PROVE CodecInv'
  OBVIOUS
<1> USE DEF CodecInv
<1>0. /\ TypeOK
      /\ \A k \in Keys : want[k] \in Bases
      /\ \A t, b : Stands(t, b)' <=> Stands(t, b)
  BY DEF TypeOK, Stands
<1>1. CASE UNCHANGED vars
  BY <1>1 DEF vars, TypeOK, Stands
<1>2. CASE FetchLabels
  BY <1>2 DEF FetchLabels, TypeOK
<1>3. CASE EvictPatchSent
  <2> DEFINE f == [k \in Keys |-> PausedText(comps[k])]
  <2>1. \A k \in Keys : /\ f[k] \in Seq(Symbols) /\ Stands(f[k], want[k])
                        /\ Valid(f[k]) <=> ~Full(want[k])
    BY <1>0, <1>3, StandingTexts DEF EvictPatchSent
  <2>2. f \in [Keys -> Seq(Symbols)]
    BY <2>1
  <2> HIDE DEF f
  <2>3. /\ Patch(f, "paused", "cleanup") /\ rejected' = (pc' = "cleanup")
        /\ pc = "fetched" /\ UNCHANGED <<comps, want>>
    BY <1>3 DEF EvictPatchSent, f
  <2>4. CASE \A k \in Keys : Valid(f[k])
    <3>1. text' = f /\ pc' = "paused" /\ rejected' = FALSE
      BY <2>3, <2>4 DEF Patch
    <3> QED
      BY <1>0, <2>1, <2>2, <2>3, <2>4, <3>1 DEF TypeOK
  <2>5. CASE \E k \in Keys : ~Valid(f[k])
    <3>1. text' = text /\ pc' = "cleanup" /\ rejected' = TRUE
      BY <2>3, <2>5 DEF Patch
    <3> QED
      BY <1>0, <2>1, <2>3, <2>5, <3>1 DEF TypeOK
  <2> QED
    BY <2>4, <2>5
<1>4. CASE ReschedulePatchSent
  <2> DEFINE f == [k \in Keys |-> TrueText(comps[k])]
  <2>1. \A k \in Keys : /\ f[k] = PlainText(want[k]) /\ Valid(f[k])
                        /\ f[k] \in Seq(Symbols)
    BY <1>0, <1>4, StandingTexts, PlainUnmarked DEF ReschedulePatchSent
  <2>2. f \in [Keys -> Seq(Symbols)]
    BY <2>1
  <2> HIDE DEF f
  <2>3. /\ Patch(f, "restored", "stuck")
        /\ pc \in {"paused", "cleanup"} /\ UNCHANGED <<comps, want, rejected>>
    BY <1>4 DEF ReschedulePatchSent, f
  <2>4. text' = f /\ pc' = "restored"
    BY <2>1, <2>3 DEF Patch
  <2> QED
    BY <1>0, <2>1, <2>2, <2>3, <2>4 DEF TypeOK, Stands
<1>5. CASE AttemptEnds \/ Killed
  <2>1. <<>> \in Seq(Symbols)
    OBVIOUS
  <2>2. /\ pc' = "ended" /\ comps' = [k \in Keys |-> <<>>] /\ rejected' = FALSE
        /\ UNCHANGED <<text, want>>
    BY <1>5 DEF AttemptEnds, Killed
  <2> QED
    BY <1>0, <2>1, <2>2 DEF TypeOK
<1>6. ASSUME NEW l \in Keys, NEW b \in Bases, Edit(l, b) PROVE CodecInv'
  <2>1. /\ pc = "ended" /\ Valid(PlainText(b))
        /\ want' = [want EXCEPT ![l] = b]
        /\ text' = [text EXCEPT ![l] = PlainText(b)]
        /\ UNCHANGED <<pc, comps, rejected>>
    BY <1>6 DEF Edit, PlainText
  <2>2. PlainText(b) \in Seq(Symbols)
    BY PlainUnmarked
  <2>3. TypeOK'
    BY <1>0, <2>1, <2>2 DEF TypeOK
  <2>4. \A k \in Keys : Valid(PlainText(want'[k])) /\ Stands(text'[k], want'[k])
    <3> SUFFICES ASSUME NEW k \in Keys
                 PROVE  Valid(PlainText(want'[k])) /\ Stands(text'[k], want'[k])
      OBVIOUS
    <3>1. CASE k = l
      BY <1>0, <2>1, <3>1 DEF TypeOK, Stands
    <3>2. CASE k # l
      BY <1>0, <2>1, <3>2 DEF TypeOK
    <3> QED
      BY <3>1, <3>2
  <2> QED
    BY <2>1, <2>3, <2>4
<1> QED
  BY <1>1, <1>2, <1>3, <1>4, <1>5, <1>6 DEF Next

THEOREM CodecInvariant == Spec => []CodecInv
<1> QED
  BY CodecInit, CodecStep, PTL DEF Spec

-----------------------------------------------------------------------------
(* Theorems.                                                               *)

\* The labels and what is kept of them are always texts of whole symbols, and
\* the process is always at one of its steps.
THEOREM CodecTypes == Spec => []TypeOK
<1>1. CodecInv => TypeOK
  BY DEF CodecInv
<1> QED
  BY <1>1, CodecInvariant, PTL

\* Whatever the administrator writes and wherever attempts end, maybeSetPaused
\* and maybeSetTrue do to the text what NodeLabels says they do to the value.
THEOREM RewritingCommutes == Spec => []Commutes
<1>1. CodecInv => Commutes
  <2> SUFFICES ASSUME CodecInv, NEW k \in Keys, NEW v \in LabelValues,
                      text[k] = Encode(v)
               PROVE  /\ PausedText(text[k]) = Encode(MaybeSetPaused(v))
                      /\ TrueText(text[k]) = Encode(MaybeSetTrue(v))
    BY DEF Commutes
  <2>1. /\ want[k] \in Bases /\ Valid(PlainText(want[k]))
        /\ Stands(text[k], want[k])
    BY DEF CodecInv, TypeOK
  <2>2. PICK w \in LabelValues : w.base = want[k] /\ text[k] = Encode(w)
    BY <2>1, StandingValue
  <2>3. PlainText(v.base) = PlainText(want[k])
    BY <2>2, TextsTellValues
  <2>4. v.base \in Bases /\ Valid(PlainText(v.base)) /\ Stands(text[k], v.base)
    BY <2>1, <2>3, EncodeByBase DEF Stands
  <2>5. TrueText(text[k]) = PlainText(v.base)
    BY <2>4, StandingTexts
  <2>6. PausedText(text[k]) =
          IF v.base \in Pausable THEN PausedForm(v.base) ELSE PlainText(v.base)
    BY <2>4, PausingTexts DEF Stands
  <2> QED
    BY <2>5, <2>6, RewrittenValues
<1> QED
  BY <1>1, CodecInvariant, PTL

\* No sequence of attempts, kills, refusals and edits makes of a label anything
\* but the administrator's text, paused or not.
THEOREM TextsStand == Spec => []TextsStandForWant
<1>1. CodecInv => TextsStandForWant
  <2> SUFFICES ASSUME CodecInv, NEW k \in Keys
               PROVE  \E v \in LabelValues : v.base = want[k] /\ text[k] = Encode(v)
    BY DEF TextsStandForWant
  <2> QED
    BY StandingValue DEF CodecInv, TypeOK
<1> QED
  BY <1>1, CodecInvariant, PTL

\* The patch of rescheduleGPUOperatorComponents is never refused, and puts back
\* every text as the administrator wrote it.
THEOREM RestoringIsNeverRefused == Spec => []RestoringSucceeds
<1>1. CodecInv => RestoringSucceeds
  BY DEF CodecInv, RestoringSucceeds, PlainText
<1> QED
  BY <1>1, CodecInvariant, PTL

\* The patch of evictAllGPUOperatorComponents is refused exactly when the text of
\* some label leaves no room for the marker; then it pauses no label at all.
THEOREM PausingNeedsRoom == Spec => []RoomForMarker
<1>1. CodecInv => RoomForMarker
  <2> SUFFICES ASSUME CodecInv PROVE RoomForMarker
    OBVIOUS
  <2>1. \A k \in Keys : want[k] \in Bases
    BY DEF CodecInv, TypeOK
  <2>2. ASSUME rejected, NEW k \in Keys, HasMarker(text[k])
        PROVE  HasMarker(comps[k])
    <3>1. CASE pc = "cleanup"
      BY <2>2, <3>1 DEF CodecInv
    <3>2. CASE pc = "restored"
      <4>1. ~HasMarker(text[k])
        BY <2>1, <3>2, PlainUnmarked DEF CodecInv
      <4> QED
        BY <2>2, <4>1
    <3> QED
      BY <2>2, <3>1, <3>2 DEF CodecInv
  <2> QED
    BY <2>2 DEF CodecInv, RoomForMarker, Full
<1> QED
  BY <1>1, CodecInvariant, PTL
=============================================================================
