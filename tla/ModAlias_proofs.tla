--------------------------- MODULE ModAlias_proofs ---------------------------
(***************************************************************************)
(* What is proved of ModAlias for every device, every modules.alias and    *)
(* every way to write the values between the delimiters.  The choice is    *)
(* proved whatever the texts are parsed into, the parsing apart from it.   *)
(***************************************************************************)
EXTENDS ModAlias, FiniteSetTheorems, FunctionTheorems, SequenceTheorems, TLAPS

-----------------------------------------------------------------------------
(* Wildcards.                                                              *)

\* The struct's fields, one after the other.
FieldAt == <<"vendor", "device", "subvendor", "subdevice", "baseClass",
             "subClass", "programmingInterface">>

LEMMA WildcardsBounded ==
  /\ MaxInt \in Nat
  /\ \A p : Wildcards(p) \in Nat /\ Wildcards(p) < MaxInt
<1>1. IsFiniteSet(Fields)
  <2>1. FieldAt \in Surjection(1..7, Fields)
    <3>1. FieldAt \in [1..7 -> Fields]
      BY DEF FieldAt, Fields
    <3>2. \A f \in Fields : \E k \in 1..7 : FieldAt[k] = f
      BY DEF FieldAt, Fields
    <3> QED
      BY <3>1, <3>2 DEF Surjection
  <2> QED
    <3>1. \A a, b \in Int : IsFiniteSet(a..b)
      BY FS_Interval
    <3>2. 1 \in Int /\ 7 \in Int
      OBVIOUS
    <3>3. IsFiniteSet(1..7)
      BY <3>1, <3>2, Zenon
    <3> QED
      BY <2>1, <3>3, FS_Surjection
<1>2. Cardinality(Fields) \in Nat
  BY <1>1, FS_CardinalityType
<1>3. ASSUME NEW p
      PROVE  Wildcards(p) \in Nat /\ Wildcards(p) <= Cardinality(Fields)
  <2> DEFINE wild == {f \in Fields : p[f] = <<Wild>>}
  <2>1. IsFiniteSet(wild) /\ Cardinality(wild) <= Cardinality(Fields)
    BY <1>1, FS_Subset
  <2> QED
    BY <2>1, FS_CardinalityType DEF Wildcards
<1> QED
  BY <1>2, <1>3 DEF MaxInt

-----------------------------------------------------------------------------
(* The strengthening.                                                      *)

\* The lines that make an alias, and the alias a line makes.
Useful(l) == file[l].vfio /\ Parses(file[l].text)
AliasOf(l) ==
  [modAlias |-> ModAliasOf(file[l].text), driver |-> file[l].driver]

\* The aliases are those of the useful lines parsed so far, in their order.
Follows(f) ==
  /\ f \in [1..Len(aliases) -> 1..line]
  /\ \A j, k \in 1..Len(aliases) : j < k => f[j] < f[k]
  /\ \A k \in 1..Len(aliases) : Useful(f[k]) /\ aliases[k] = AliasOf(f[k])
  /\ \A l \in 1..line : Useful(l) => \E k \in 1..Len(aliases) : f[k] = l

LineInv ==
  /\ file \in Files /\ aliases \in Seq({AliasOf(l) : l \in 1..Len(file)})
  /\ \E f : Follows(f)
  /\ pc \in {"modalias", "parse"} => next = 0
  /\ pc = "match" => line = Len(file)

IInv == TypeOK /\ LineInv /\ BestSoFar /\ MostSpecific

LEMMA FileFacts ==
  ASSUME file \in Files
  PROVE  /\ Len(file) \in Nat /\ DOMAIN file = 1..Len(file)
         /\ \A l \in 1..Len(file) : file[l].driver # NoDriver
<1> DEFINE S == [vfio : BOOLEAN, text : Patterns,
                 driver : {file[k].driver : k \in DOMAIN file}]
<1>1. file \in Seq(S) /\ \A k \in DOMAIN file : file[k].driver # NoDriver
  BY FilesAssumption
<1> HIDE DEF S
<1> QED
  BY <1>1

-----------------------------------------------------------------------------
(* Parsing.                                                                *)

LEMMA InitInv == Init => IInv
<1> SUFFICES ASSUME Init PROVE IInv
  OBVIOUS
<1>1. /\ Len(file) \in Nat /\ Len(aliases) = 0 /\ MaxInt \in 0..MaxInt
      /\ aliases = <<>> /\ line = 0 /\ next = 0 /\ pc = "modalias"
  BY FileFacts, WildcardsBounded DEF Init
<1>2. TypeOK
  BY <1>1 DEF Init, TypeOK
<1>3. LineInv
  <2> DEFINE f == [k \in 1..Len(aliases) |-> k]
  <2>1. Follows(f)
    BY <1>1 DEF Follows
  <2> QED
    BY <1>1, <2>1 DEF LineInv, Init
<1>4. BestSoFar /\ MostSpecific
  BY <1>1 DEF Init, BestSoFar, MostSpecific, Candidates
<1> QED
  BY <1>2, <1>3, <1>4 DEF IInv

LEMMA ParseStep == IInv /\ ParseLine => IInv'
<1> SUFFICES ASSUME IInv, ParseLine PROVE IInv'
  OBVIOUS
<1> USE DEF IInv
<1>1. /\ pc = "parse" /\ pc' = "parse" /\ next = 0 /\ next' = 0
      /\ line \in Nat /\ line' = line + 1 /\ line' \in 1..Len(file) /\ Len(file) \in Nat
      /\ UNCHANGED <<text, file, bestDriver, bestCount, result>>
      /\ aliases \in Seq({AliasOf(l) : l \in 1..Len(file)}) /\ Len(aliases) \in Nat
  BY FileFacts DEF ParseLine, LineInv, TypeOK
<1>2. aliases' = IF Useful(line') THEN Append(aliases, AliasOf(line')) ELSE aliases
  BY DEF ParseLine, Useful, AliasOf
<1>3. /\ aliases' \in Seq({AliasOf(l) : l \in 1..Len(file)})
      /\ Len(aliases') \in Len(aliases)..(Len(aliases) + 1)
  BY <1>1, <1>2
<1>4. TypeOK'
  BY <1>1, <1>3 DEF TypeOK
<1>5. \E f : Follows(f)'
  <2>1. PICK f : Follows(f)
    BY DEF LineInv
  <2>2. CASE ~Useful(line')
    <3>1. Follows(f)'
      BY <1>1, <1>2, <2>1, <2>2 DEF Follows, Useful, AliasOf
    <3> QED
      BY <3>1
  <2>3. CASE Useful(line')
    <3>1. PICK n : n = Len(aliases)
      OBVIOUS
    <3>2. PICK g : g = [k \in 1..(n + 1) |-> IF k <= n THEN f[k] ELSE line']
      OBVIOUS
    <3>3. /\ n \in Nat /\ Len(aliases') = n + 1 /\ aliases'[n + 1] = AliasOf(line')
          /\ \A k \in 1..n : aliases'[k] = aliases[k]
      BY <1>1, <1>2, <2>3, <3>1
    <3>4. /\ g[n + 1] = line' /\ DOMAIN g = 1..(n + 1)
          /\ \A k \in 1..n : g[k] = f[k] /\ f[k] \in 1..line
      BY <1>1, <2>1, <3>1, <3>2, <3>3 DEF Follows
    <3>5. g \in [1..(n + 1) -> 1..line']
      <4>1. ASSUME NEW k \in 1..(n + 1) PROVE g[k] \in 1..line'
        <5>1. k = n + 1 \/ k \in 1..n
          BY <3>3
        <5> QED
          BY <1>1, <3>4, <5>1
      <4> QED
        BY <3>2, <3>4, <4>1
    <3>6. ASSUME NEW j \in 1..(n + 1), NEW k \in 1..(n + 1), j < k
          PROVE  g[j] < g[k]
      <4>1. j \in 1..n /\ (k = n + 1 \/ k \in 1..n)
        BY <3>3, <3>6
      <4>2. CASE k = n + 1
        BY <1>1, <3>4, <4>1, <4>2
      <4>3. CASE k \in 1..n
        BY <2>1, <3>1, <3>4, <3>6, <4>1, <4>3 DEF Follows
      <4> QED
        BY <4>1, <4>2, <4>3
    <3>7. \A k \in 1..(n + 1) : Useful(g[k])' /\ aliases'[k] = AliasOf(g[k])'
      <4>1. ASSUME NEW k \in 1..n
            PROVE  Useful(g[k])' /\ aliases'[k] = AliasOf(g[k])'
        BY <1>1, <2>1, <3>1, <3>3, <3>4 DEF Follows, Useful, AliasOf
      <4>2. Useful(g[n + 1])' /\ aliases'[n + 1] = AliasOf(g[n + 1])'
        BY <1>1, <2>3, <3>3, <3>4 DEF Useful, AliasOf
      <4> QED
        BY <3>3, <4>1, <4>2
    <3>8. \A l \in 1..line' : Useful(l)' => \E k \in 1..(n + 1) : g[k] = l
      <4> SUFFICES ASSUME NEW l \in 1..line', Useful(l)'
                   PROVE  \E k \in 1..(n + 1) : g[k] = l
        OBVIOUS
      <4>1. CASE l = line'
        BY <3>3, <3>4, <4>1
      <4>2. CASE l # line'
        <5>1. l \in 1..line /\ Useful(l)
          BY <1>1, <4>2 DEF Useful
        <5>2. PICK k \in 1..n : f[k] = l
          BY <2>1, <3>1, <5>1 DEF Follows
        <5> QED
          BY <3>3, <3>4, <5>2
      <4> QED
        BY <4>1, <4>2
    <3>9. Follows(g)'
      BY <1>1, <3>3, <3>5, <3>6, <3>7, <3>8 DEF Follows
    <3> QED
      BY <3>9
  <2> QED
    BY <2>2, <2>3
<1>6. LineInv'
  BY <1>1, <1>3, <1>5 DEF LineInv, AliasOf
<1>7. BestSoFar'
  BY <1>1 DEF BestSoFar, Candidates
<1>8. MostSpecific'
  BY <1>1 DEF MostSpecific
<1> QED
  BY <1>4, <1>6, <1>7, <1>8

-----------------------------------------------------------------------------
(* Choosing.                                                               *)

LEMMA LinesKept ==
  ASSUME LineInv, UNCHANGED <<file, line, aliases>>,
         pc' \in {"modalias", "parse"} => next' = 0, pc' = "match" => line = Len(file)
  PROVE  LineInv'
<1>1. PICK f : Follows(f)
  BY DEF LineInv
<1>2. Follows(f)'
  BY <1>1 DEF Follows, Useful, AliasOf
<1>3. \E g : Follows(g)'
  BY <1>2
<1>4. aliases' \in Seq({AliasOf(l)' : l \in 1..Len(file')})
  BY DEF LineInv, AliasOf
<1> QED
  BY <1>3, <1>4 DEF LineInv

LEMMA ReadStep == IInv /\ (ReadModAlias \/ FileUnreadable \/ UNCHANGED vars) => IInv'
<1> SUFFICES ASSUME IInv, ReadModAlias \/ FileUnreadable \/ UNCHANGED vars
             PROVE  IInv'
  OBVIOUS
<1>1. /\ UNCHANGED <<text, file, line, aliases, next, bestDriver, bestCount, result>>
      /\ pc' \in {pc, "unreadable"} \/ (pc = "modalias" /\ pc' \in {"parse", "failed"})
  BY DEF ReadModAlias, FileUnreadable, vars
<1>2. TypeOK'
  BY <1>1 DEF IInv, TypeOK
<1>3. LineInv'
  BY <1>1, LinesKept DEF IInv, LineInv
<1>4. BestSoFar' /\ MostSpecific'
  BY <1>1 DEF IInv, BestSoFar, Candidates, MostSpecific, LineMatches
<1> QED
  BY <1>2, <1>3, <1>4 DEF IInv

\* The candidates stand for the lines that match, each for its own, in order.
LEMMA CandidatesAreLines ==
  ASSUME IInv, line = Len(file), NEW f, Follows(f)
  PROVE  /\ \A k \in Candidates :
              /\ f[k] \in 1..Len(file) /\ LineMatches(f[k])
              /\ aliases[k].driver = file[f[k]].driver
              /\ aliases[k].modAlias = ModAliasOf(file[f[k]].text)
         /\ \A l \in 1..Len(file) :
              LineMatches(l) => \E k \in Candidates : f[k] = l
<1>1. /\ f \in [1..Len(aliases) -> 1..Len(file)]
      /\ \A k \in 1..Len(aliases) : Useful(f[k]) /\ aliases[k] = AliasOf(f[k])
      /\ \A l \in 1..Len(file) : Useful(l) => \E k \in 1..Len(aliases) : f[k] = l
  BY DEF Follows
<1>2. ASSUME NEW k \in 1..Len(aliases)
      PROVE  /\ aliases[k].driver = file[f[k]].driver
             /\ aliases[k].modAlias = ModAliasOf(file[f[k]].text)
  <2>1. aliases[k] = AliasOf(f[k])
    BY <1>1
  <2> QED
    BY <2>1 DEF AliasOf
<1>3. ASSUME NEW k \in 1..Len(aliases)
      PROVE  /\ k \in Candidates => LineMatches(f[k])
             /\ LineMatches(f[k]) => k \in Candidates
  <2>1. k \in Candidates <=> Matches(ModAliasOf(text), ModAliasOf(file[f[k]].text))
    BY <1>2 DEF Candidates
  <2>2. file[f[k]].vfio /\ Parses(file[f[k]].text)
    BY <1>1 DEF Useful
  <2> QED
    BY <2>1, <2>2 DEF LineMatches
<1> QED
  <2>1. Candidates \subseteq 1..Len(aliases)
    BY DEF Candidates
  <2>2. \A l \in 1..Len(file) : LineMatches(l) => Useful(l)
    BY DEF LineMatches, Useful
  <2> QED
    BY <1>1, <1>2, <1>3, <2>1, <2>2

LEMMA AliasesReadStep == IInv /\ AliasesRead => IInv'
<1> SUFFICES ASSUME IInv, AliasesRead PROVE IInv'
  OBVIOUS
<1>1. /\ UNCHANGED <<text, file, line, aliases, next, bestDriver, bestCount>>
      /\ pc = "parse" /\ line = Len(file) /\ pc' \in {"match", "done"}
      /\ pc' = "done" => aliases = <<>> /\ result' = VfioPci
  BY DEF AliasesRead
<1>2. TypeOK'
  BY <1>1 DEF IInv, TypeOK
<1>3. LineInv'
  BY <1>1, LinesKept DEF IInv, LineInv
<1>4. BestSoFar'
  BY <1>1 DEF IInv, BestSoFar, Candidates
<1>5. MostSpecific'
  <2> SUFFICES ASSUME pc' = "done", NEW l \in 1..Len(file), LineMatches(l)
               PROVE  FALSE
    BY <1>1 DEF MostSpecific, LineMatches
  <2>1. PICK f : Follows(f)
    BY DEF IInv, LineInv
  <2>2. Candidates # {}
    BY <1>1, <2>1, CandidatesAreLines
  <2> QED
    BY <1>1, <2>2 DEF Candidates
<1> QED
  BY <1>2, <1>3, <1>4, <1>5 DEF IInv

LEMMA CompareStep == IInv /\ Compare => IInv'
<1> SUFFICES ASSUME IInv, Compare PROVE IInv'
  OBVIOUS
<1> DEFINE wild(k) == Wildcards(aliases[k].modAlias)
           seen == {k \in Candidates : k <= next}
           n == next + 1
<1>1. /\ UNCHANGED <<text, file, pc, line, aliases, result>>
      /\ pc = "match" /\ next \in Nat /\ Len(aliases) \in Nat
      /\ next' = n /\ n \in 1..Len(aliases)
  BY FileFacts DEF Compare, IInv, TypeOK, LineInv
<1>2. IF n \in Candidates /\ wild(n) < bestCount
      THEN bestDriver' = aliases[n].driver /\ bestCount' = wild(n)
      ELSE UNCHANGED <<bestDriver, bestCount>>
  BY <1>1 DEF Compare, Candidates
<1>3. bestCount \in 0..MaxInt /\ MaxInt \in Nat
      /\ \A k : wild(k) \in Nat /\ wild(k) < MaxInt
  BY WildcardsBounded DEF IInv, TypeOK
<1>4. TypeOK'
  BY <1>1, <1>2, <1>3 DEF IInv, TypeOK
<1>5. LineInv'
  BY <1>1, LinesKept DEF IInv, LineInv
<1>6. MostSpecific'
  BY <1>1 DEF MostSpecific
<1>7. IF seen = {} THEN bestDriver = NoDriver /\ bestCount = MaxInt
      ELSE \E b \in seen :
             /\ bestDriver = aliases[b].driver /\ bestCount = wild(b)
             /\ \A k \in seen : bestCount <= wild(k)
             /\ \A k \in seen : k < b => bestCount < wild(k)
  BY DEF IInv, BestSoFar
<1>8. BestSoFar'
  <2> DEFINE seenNow == {k \in Candidates : k <= n}
  <2>1. seenNow = IF n \in Candidates THEN seen \cup {n} ELSE seen
    BY <1>1 DEF Candidates
  <2>2. \A k \in seen : k \in Nat /\ k < n
    BY <1>1 DEF Candidates
  <2>3. IF seenNow = {} THEN bestDriver' = NoDriver /\ bestCount' = MaxInt
        ELSE \E b \in seenNow :
               /\ bestDriver' = aliases[b].driver /\ bestCount' = wild(b)
               /\ \A k \in seenNow : bestCount' <= wild(k)
               /\ \A k \in seenNow : k < b => bestCount' < wild(k)
    <3> HIDE DEF seen, seenNow, n, wild
    <3>1. CASE n \notin Candidates
      BY <1>2, <1>7, <2>1, <3>1
    <3>2. CASE n \in Candidates /\ wild(n) < bestCount
      <4>1. bestDriver' = aliases[n].driver /\ bestCount' = wild(n)
        BY <1>2, <3>2
      <4>2. \A k \in seen : bestCount <= wild(k)
        BY <1>7
      <4>3. n \in seenNow /\ \A k \in seenNow : k = n \/ k \in seen
        BY <2>1, <3>2
      <4>4. /\ \A k \in seenNow : bestCount' <= wild(k)
            /\ \A k \in seenNow : k < n => bestCount' < wild(k)
        BY <1>1, <1>3, <3>2, <4>1, <4>2, <4>3
      <4> QED
        BY <4>1, <4>3, <4>4
    <3>3. CASE n \in Candidates /\ ~(wild(n) < bestCount)
      <4>1. seen # {} /\ UNCHANGED <<bestDriver, bestCount>>
        BY <1>2, <1>3, <1>7, <3>3
      <4>2. PICK b \in seen :
              /\ bestDriver = aliases[b].driver /\ bestCount = wild(b)
              /\ \A k \in seen : bestCount <= wild(k)
              /\ \A k \in seen : k < b => bestCount < wild(k)
        BY <1>7, <4>1
      <4>3. b \in seenNow /\ b < n /\ b \in Nat /\ n \in Nat
            /\ \A k \in seenNow : k = n \/ k \in seen
        BY <1>1, <2>1, <2>2, <3>3, <4>2
      <4>4. /\ \A k \in seenNow : bestCount' <= wild(k)
            /\ \A k \in seenNow : k < b => bestCount' < wild(k)
        BY <1>3, <3>3, <4>1, <4>2, <4>3
      <4> QED
        BY <4>1, <4>2, <4>3, <4>4
    <3> QED
      BY <3>1, <3>2, <3>3
  <2> QED
    BY <1>1, <2>3 DEF BestSoFar, Candidates
<1> QED
  BY <1>4, <1>5, <1>6, <1>8, <1>1 DEF IInv

LEMMA ReturnStep == IInv /\ Return => IInv'
<1> SUFFICES ASSUME IInv, Return PROVE IInv'
  OBVIOUS
<1> DEFINE wild(k) == Wildcards(aliases[k].modAlias)
           wildAt(l) == Wildcards(ModAliasOf(file[l].text))
           lines == {l \in 1..Len(file) : LineMatches(l)}
<1>1. /\ UNCHANGED <<text, file, line, aliases, next, bestDriver, bestCount>>
      /\ pc = "match" /\ next = Len(aliases) /\ pc' = "done" /\ line = Len(file)
      /\ result' = IF bestDriver = NoDriver THEN VfioPci ELSE bestDriver
      /\ Len(aliases) \in Nat /\ Len(file) \in Nat
  BY FileFacts DEF Return, IInv, LineInv
<1>2. TypeOK'
  BY <1>1 DEF IInv, TypeOK
<1>3. LineInv'
  BY <1>1, LinesKept DEF IInv
<1>4. BestSoFar'
  BY <1>1 DEF IInv, BestSoFar, Candidates
<1>5. IF lines = {} THEN result' = VfioPci
      ELSE \E b \in lines : /\ result' = file[b].driver
                            /\ \A l \in lines : wildAt(b) <= wildAt(l)
                            /\ \A l \in lines : l < b => wildAt(b) < wildAt(l)
  <2>1. PICK f : Follows(f)
    BY DEF IInv, LineInv
  <2>2. /\ \A k \in Candidates : /\ f[k] \in lines /\ wild(k) = wildAt(f[k])
                                /\ aliases[k].driver = file[f[k]].driver
        /\ \A l \in lines : \E k \in Candidates : f[k] = l
    BY <1>1, <2>1, CandidatesAreLines
  <2>3. /\ \A k \in Candidates : k \in Nat /\ f[k] \in Nat
        /\ \A j, k \in Candidates : j < k => f[j] < f[k]
    <3>1. Candidates \subseteq 1..Len(aliases)
      BY DEF Candidates
    <3>2. /\ f \in [1..Len(aliases) -> 1..Len(file)]
          /\ \A j, k \in 1..Len(aliases) : j < k => f[j] < f[k]
      BY <1>1, <2>1 DEF Follows
    <3> QED
      BY <1>1, <3>1, <3>2
  <2>4. \A k : wild(k) \in Nat
    BY WildcardsBounded
  <2>5. CASE Candidates = {}
    <3>1. bestDriver = NoDriver
      BY <1>1, <2>5 DEF IInv, BestSoFar
    <3>2. lines = {}
      <4> HIDE DEF lines
      <4> QED
        BY <2>2, <2>5
    <3> QED
      BY <1>1, <3>1, <3>2
  <2>6. CASE Candidates # {}
    <3>1. Candidates = {k \in Candidates : k <= next}
      BY <1>1 DEF Candidates
    <3>2. PICK b \in Candidates :
            /\ bestDriver = aliases[b].driver /\ bestCount = wild(b)
            /\ \A k \in Candidates : bestCount <= wild(k)
            /\ \A k \in Candidates : k < b => bestCount < wild(k)
      BY <2>6, <3>1 DEF IInv, BestSoFar
    <3>3. f[b] \in lines /\ result' = file[f[b]].driver /\ wild(b) = wildAt(f[b])
      BY <1>1, <2>2, <3>2, FileFacts DEF IInv, LineInv
    <3>4. ASSUME NEW l \in lines
          PROVE  /\ wildAt(f[b]) <= wildAt(l)
                 /\ l < f[b] => wildAt(f[b]) < wildAt(l)
      <4>1. PICK k \in Candidates : f[k] = l
        BY <2>2
      <4>2. wild(k) = wildAt(l) /\ (f[k] < f[b] => k < b)
        BY <2>2, <2>3, <4>1
      <4> HIDE DEF lines, wild, wildAt
      <4> QED
        BY <3>2, <3>3, <4>1, <4>2
    <3> HIDE DEF lines, wildAt
    <3> QED
      BY <3>3, <3>4
  <2> QED
    BY <2>5, <2>6
<1>6. MostSpecific'
  BY <1>1, <1>5 DEF MostSpecific, LineMatches
<1> QED
  BY <1>2, <1>3, <1>4, <1>6 DEF IInv

-----------------------------------------------------------------------------
(* The theorems.                                                           *)

LEMMA ChoiceInvariant == Spec => []IInv
<1>1. IInv /\ [Next]_vars => IInv'
  BY ReadStep, ParseStep, AliasesReadStep, CompareStep, ReturnStep DEF Next
<1> QED
  BY InitInv, <1>1, PTL DEF Spec

\* Every state of the choice is well-formed.
THEOREM ChoiceTypes == Spec => []TypeOK
BY ChoiceInvariant, PTL DEF IInv

\* findBestMatch holds the first of the aliases it has compared that match
\* with the fewest wildcards.
THEOREM HoldsTheBest == Spec => []BestSoFar
BY ChoiceInvariant, PTL DEF IInv

\* FindBestVFIOVariant returns the driver of the first line that matches the
\* device with the fewest wildcards, and vfio-pci when none matches: skipping
\* lines loses none that matters and keeps their order, and a driver found is
\* never taken for none.
THEOREM ReturnsMostSpecific == Spec => []MostSpecific
BY ChoiceInvariant, PTL DEF IInv

-----------------------------------------------------------------------------
(* Cutting a text at a delimiter.                                          *)

Symbols == Digits \cup Letters

\* The places of two texts written one after the other.
LEMMA Joined ==
  ASSUME NEW S, NEW a \in Seq(S), NEW b \in Seq(S)
  PROVE  /\ a \o b \in Seq(S) /\ Len(a \o b) = Len(a) + Len(b)
         /\ \A i \in 1..Len(a) : (a \o b)[i] = a[i]
         /\ \A i \in 1..Len(b) : (a \o b)[Len(a) + i] = b[i]
<1>1. Len(a) \in Nat /\ Len(b) \in Nat
  OBVIOUS
<1> QED
  BY <1>1, ConcatProperties

\* strings.Cut with and without the delimiter in the text.
LEMMA CutCases ==
  ASSUME NEW s, NEW d, NEW at, at = Occurrences(s, d)
  PROVE  Cut(s, d) =
           IF at = {} THEN [found |-> FALSE, before |-> s, after |-> <<>>]
           ELSE [found  |-> TRUE,
                 before |-> SubSeq(s, 1, First(at) - 1),
                 after  |-> SubSeq(s, First(at) + Len(d), Len(s))]
BY DEF Cut

\* A value of digits cannot hide a delimiter: the text is cut behind the value,
\* whatever comes after the delimiter.
LEMMA CutAtDelimiter ==
  ASSUME NEW a \in Seq(Digits), NEW d \in Seq(Letters), d # <<>>,
         NEW r \in Seq(Symbols)
  PROVE  Cut(a \o d \o r, d) = [found |-> TRUE, before |-> a, after |-> r]
<1> DEFINE s == a \o d \o r
           n == Len(a)
           at == Occurrences(s, d)
<1>1. Digits \subseteq Symbols /\ Letters \subseteq Symbols
  BY DEF Symbols
<1>2. a \in Seq(Symbols) /\ d \in Seq(Symbols)
  BY <1>1, SeqMonotonic
<1>3. n \in Nat /\ Len(d) \in Nat \ {0} /\ Len(r) \in Nat
  BY EmptySeq
<1>4. /\ a \o d \in Seq(Symbols) /\ Len(a \o d) = n + Len(d)
      /\ \A i \in 1..n : (a \o d)[i] = a[i]
      /\ \A i \in 1..Len(d) : (a \o d)[n + i] = d[i]
  BY <1>2, Joined
<1>5. /\ s \in Seq(Symbols) /\ Len(s) = n + Len(d) + Len(r)
      /\ \A i \in 1..(n + Len(d)) : s[i] = (a \o d)[i]
      /\ \A i \in 1..Len(r) : s[n + Len(d) + i] = r[i]
  <2> DEFINE ad == a \o d
  <2>1. ad \in Seq(Symbols) /\ r \in Seq(Symbols)
    BY <1>4
  <2>2. Len(ad) = n + Len(d)
    BY <1>4
  <2> HIDE DEF ad
  <2>3. /\ ad \o r \in Seq(Symbols) /\ Len(ad \o r) = Len(ad) + Len(r)
        /\ \A i \in 1..Len(ad) : (ad \o r)[i] = ad[i]
        /\ \A i \in 1..Len(r) : (ad \o r)[Len(ad) + i] = r[i]
    BY <2>1, Joined
  <2> QED
    BY <2>2, <2>3 DEF ad
<1>6. /\ \A i \in 1..n : s[i] = a[i] /\ s[i] \in Digits
      /\ \A i \in 1..Len(d) : s[n + i] = d[i]
  <2>1. \A i \in 1..n : i \in 1..(n + Len(d)) /\ a[i] \in Digits
    BY <1>3
  <2>2. \A i \in 1..Len(d) : n + i \in 1..(n + Len(d))
    BY <1>3
  <2> QED
    BY <1>4, <1>5, <2>1, <2>2
<1> HIDE DEF s
<1>7. n + 1 \in at
  <2>1. n + 1 \in 1..Len(s) /\ n + 1 + Len(d) - 1 <= Len(s)
    BY <1>3, <1>5
  <2>2. \A j \in 1..Len(d) : n + 1 + j - 1 = n + j
    BY <1>3
  <2> QED
    BY <1>6, <2>1, <2>2 DEF Occurrences
<1>8. ASSUME NEW k \in at PROVE n + 1 <= k
  <2>1. k \in Nat /\ k >= 1 /\ s[k] = d[1]
    <3>1. k \in 1..Len(s) /\ \A j \in 1..Len(d) : s[k + j - 1] = d[j]
      BY DEF Occurrences
    <3>2. 1 \in 1..Len(d) /\ k \in Nat /\ k >= 1 /\ k + 1 - 1 = k
      BY <1>3, <1>5, <3>1
    <3> QED
      BY <3>1, <3>2
  <2>2. d[1] \in Letters
    BY <1>3
  <2>3. ~(k \in 1..n)
    BY <1>6, <2>1, <2>2, TextsAssumption
  <2> QED
    BY <1>3, <2>1, <2>3
<1>9. First(at) = n + 1
  <2>1. \A k \in at : k \in Nat
    BY <1>3, <1>5 DEF Occurrences
  <2> HIDE DEF at
  <2>2. \A k \in at : (\A j \in at : k <= j) <=> k = n + 1
    BY <1>3, <1>7, <1>8, <2>1
  <2> QED
    BY <1>7, <2>2 DEF First
<1>10. SubSeq(s, 1, n) = a
  BY <1>2, <1>3, <1>5, <1>6
<1>11. SubSeq(s, n + 1 + Len(d), Len(s)) = r
  <2> DEFINE p == n + 1 + Len(d)
             e == SubSeq(s, p, Len(s))
  <2>1. p \in Int /\ Len(s) \in Int /\ \A i \in p..Len(s) : s[i] \in Symbols
    BY <1>3, <1>5, ElementOfSeq
  <2>2. Len(s) - p + 1 = Len(r) /\ \A i \in 1..Len(r) : p + i - 1 = n + Len(d) + i
    BY <1>3, <1>5
  <2>3. p <= Len(s) \/ Len(r) = 0
    BY <1>3, <1>5
  <2> HIDE DEF p
  <2>4. /\ e \in Seq(Symbols)
        /\ Len(e) = IF p <= Len(s) THEN Len(s) - p + 1 ELSE 0
        /\ \A i \in 1..(Len(s) - p + 1) : e[i] = s[p + i - 1]
    BY <2>1, SubSeqProperties
  <2> HIDE DEF e
  <2>5. Len(e) = Len(r)
    BY <2>1, <2>2, <2>3, <2>4
  <2>6. \A i \in 1..Len(e) : e[i] = r[i]
    BY <1>5, <2>2, <2>4, <2>5
  <2>7. e = r
    BY <2>4, <2>5, <2>6, SeqEqual
  <2> QED
    BY <2>7 DEF e, p
<1>12. Cut(s, d) = [found |-> TRUE, before |-> SubSeq(s, 1, First(at) - 1),
                    after |-> SubSeq(s, First(at) + Len(d), Len(s))]
  BY <1>7, CutCases, Zenon
<1>13. First(at) - 1 = n
  BY <1>3, <1>9
<1> QED
  BY <1>9, <1>10, <1>11, <1>12, <1>13 DEF s

\* A nonempty set of places has a first one.
LEMMA FirstPlace ==
  ASSUME NEW S \in SUBSET Nat, S # {}
  PROVE  First(S) \in S
<1>1. PICK m \in S : \A k \in S : <<k, m>> \notin OpToRel(<, Nat)
  BY WFMin, NatLessThanWellFounded, Zenon
<1>2. \A k \in S : m <= k
  <2> SUFFICES ASSUME NEW k \in S PROVE m <= k
    OBVIOUS
  <2>1. ~(k < m)
    BY <1>1, Zenon DEF OpToRel
  <2> QED
    BY <2>1
<1> QED
  BY <1>2 DEF First

\* What a cut leaves is the end of the text: it holds no delimiter that the
\* text did not hold.
LEMMA CutLeavesTheEnd ==
  ASSUME NEW s \in Seq(Symbols), NEW d \in Seq(Letters), d # <<>>
  PROVE  /\ Cut(s, d).found <=> Occurrences(s, d) # {}
         /\ Cut(s, d).after \in Seq(Symbols)
         /\ \A e \in Seq(Letters) :
              Occurrences(Cut(s, d).after, e) # {} => Occurrences(s, e) # {}
<1> DEFINE at == Occurrences(s, d)
           p == First(at) + Len(d)
           r == SubSeq(s, p, Len(s))
<1>1. Len(s) \in Nat /\ Len(d) \in Nat \ {0}
  BY EmptySeq
<1>2. CASE at = {}
  <2>1. Cut(s, d) = [found |-> FALSE, before |-> s, after |-> <<>>]
    BY <1>2, CutCases, Zenon
  <2>2. \A e \in Seq(Letters) : Occurrences(<<>>, e) = {}
    BY DEF Occurrences
  <2> QED
    BY <1>2, <2>1, <2>2
<1>3. CASE at # {}
  <2>1. Cut(s, d) = [found |-> TRUE, before |-> SubSeq(s, 1, First(at) - 1),
                     after |-> r]
    BY <1>3, CutCases, Zenon
  <2>2. p \in Nat /\ p >= 2
    <3>1. at \in SUBSET Nat /\ \A k \in at : k >= 1
      BY <1>1 DEF Occurrences
    <3>2. First(at) \in at
      BY <1>3, <3>1, FirstPlace
    <3> QED
      BY <1>1, <3>1, <3>2
  <2> HIDE DEF p
  <2>3. \A i \in p..Len(s) : s[i] \in Symbols
    BY <1>1, <2>2, ElementOfSeq
  <2>4. /\ r \in Seq(Symbols)
        /\ Len(r) = IF p <= Len(s) THEN Len(s) - p + 1 ELSE 0
        /\ \A i \in 1..(Len(s) - p + 1) : r[i] = s[p + i - 1]
    BY <1>1, <2>2, <2>3, SubSeqProperties
  <2> HIDE DEF r
  <2>5. ASSUME NEW e \in Seq(Letters), NEW k \in Occurrences(r, e)
        PROVE  k + p - 1 \in Occurrences(s, e)
    <3>1. /\ k \in 1..Len(r) /\ k + Len(e) - 1 <= Len(r) /\ Len(e) \in Nat
          /\ \A j \in 1..Len(e) : r[k + j - 1] = e[j]
      BY DEF Occurrences
    <3>2. p <= Len(s) /\ Len(r) = Len(s) - p + 1
      BY <1>1, <2>2, <2>4, <3>1
    <3>3. k + p - 1 \in 1..Len(s) /\ (k + p - 1) + Len(e) - 1 <= Len(s)
      BY <1>1, <2>2, <3>1, <3>2
    <3>4. ASSUME NEW j \in 1..Len(e) PROVE s[(k + p - 1) + j - 1] = e[j]
      <4>1. k + j - 1 \in 1..(Len(s) - p + 1)
        BY <1>1, <2>2, <3>1, <3>2
      <4>2. p + (k + j - 1) - 1 = (k + p - 1) + j - 1
        BY <1>1, <2>2, <3>1
      <4>3. r[k + j - 1] = s[p + (k + j - 1) - 1]
        BY <2>4, <4>1
      <4> QED
        BY <3>1, <4>2, <4>3
    <3> QED
      BY <3>3, <3>4 DEF Occurrences
  <2> QED
    BY <1>3, <2>1, <2>4, <2>5
<1> QED
  BY <1>2, <1>3

LEMMA DelimiterFacts ==
  /\ DOMAIN Delimiter = {"vendor", "device", "subvendor", "subdevice",
                         "baseClass", "subClass"}
  /\ DOMAIN Delimiter = Fields \ {"programmingInterface"}
  /\ \A f \in DOMAIN Delimiter :
       Delimiter[f] \in Seq(Letters) /\ Delimiter[f] # <<>>
<1>1. DOMAIN Delimiter = {"vendor", "device", "subvendor", "subdevice",
                          "baseClass", "subClass"}
  BY DEF Delimiter
<1>2. \A f \in DOMAIN Delimiter :
        Delimiter[f] \in Seq(Letters) /\ Delimiter[f] # <<>>
  <2>1. /\ <<"d">> \in Seq(Letters) /\ <<"s", "v">> \in Seq(Letters)
        /\ <<"s", "d">> \in Seq(Letters) /\ <<"b", "c">> \in Seq(Letters)
        /\ <<"s", "c">> \in Seq(Letters) /\ <<"i">> \in Seq(Letters)
    BY DEF Letters
  <2>2. /\ <<"d">> # <<>> /\ <<"s", "v">> # <<>> /\ <<"s", "d">> # <<>>
        /\ <<"b", "c">> # <<>> /\ <<"s", "c">> # <<>> /\ <<"i">> # <<>>
    OBVIOUS
  <2>3. /\ Delimiter["vendor"] = <<"d">> /\ Delimiter["device"] = <<"s", "v">>
        /\ Delimiter["subvendor"] = <<"s", "d">>
        /\ Delimiter["subdevice"] = <<"b", "c">>
        /\ Delimiter["baseClass"] = <<"s", "c">> /\ Delimiter["subClass"] = <<"i">>
    BY DEF Delimiter
  <2> HIDE DEF Delimiter
  <2> QED
    BY <1>1, <2>1, <2>2, <2>3, Zenon
<1> QED
  BY <1>1, <1>2 DEF Fields

-----------------------------------------------------------------------------
(* Parsing.                                                                *)

LEMMA CutOffField ==
  ASSUME NEW f \in DOMAIN Delimiter, NEW a \in Seq(Digits), NEW r \in Seq(Symbols)
  PROVE  /\ a \o Delimiter[f] \o r \in Seq(Symbols)
         /\ Cut(a \o Delimiter[f] \o r, Delimiter[f]) =
              [found |-> TRUE, before |-> a, after |-> r]
<1> DEFINE d == Delimiter[f]
<1>1. d \in Seq(Letters) /\ d # <<>>
  BY DelimiterFacts
<1> HIDE DEF d
<1>2. Cut(a \o d \o r, d) = [found |-> TRUE, before |-> a, after |-> r]
  BY <1>1, CutAtDelimiter
<1>3. a \o d \o r \in Seq(Symbols)
  <2>1. a \in Seq(Symbols) /\ d \in Seq(Symbols)
    BY <1>1, SeqMonotonic DEF Symbols
  <2>2. a \o d \in Seq(Symbols)
    BY <2>1, ConcatProperties
  <2> QED
    BY <2>2, ConcatProperties
<1> QED
  BY <1>2, <1>3 DEF d

\* What is written is parsed, into the values it was written from.
LEMMA WrittenIsParsed ==
  ASSUME NEW m \in [Fields -> Seq(Digits)]
  PROVE  Parses(Written(m)) /\ ModAliasOf(Written(m)) = m
<1> DEFINE s  == Written(m)
           t7 == m.programmingInterface
           t6 == m.subClass \o Delimiter.subClass \o t7
           t5 == m.baseClass \o Delimiter.baseClass \o t6
           t4 == m.subdevice \o Delimiter.subdevice \o t5
           t3 == m.subvendor \o Delimiter.subvendor \o t4
           t2 == m.device \o Delimiter.device \o t3
           t1 == m.vendor \o Delimiter.vendor \o t2
           cut(a, r) == [found |-> TRUE, before |-> a, after |-> r]
<1>1. \A f \in Fields : m[f] \in Seq(Digits)
  OBVIOUS
<1>2. t7 \in Seq(Symbols)
  <2>1. m.programmingInterface \in Seq(Digits)
    BY DEF Fields
  <2> QED
    BY <2>1, SeqMonotonic DEF Symbols
<1>3. s = <<"v">> \o t1
  BY DEF Written
<1>4. t6 \in Seq(Symbols) /\ Cut(t6, Delimiter.subClass) = cut(m.subClass, t7)
  <2>1. "subClass" \in DOMAIN Delimiter /\ m["subClass"] \in Seq(Digits)
    BY <1>1, DelimiterFacts
  <2> HIDE DEF t7
  <2> QED
    BY <2>1, <1>2, CutOffField
<1>5. t5 \in Seq(Symbols) /\ Cut(t5, Delimiter.baseClass) = cut(m.baseClass, t6)
  <2>1. "baseClass" \in DOMAIN Delimiter /\ m["baseClass"] \in Seq(Digits)
    BY <1>1, DelimiterFacts
  <2> HIDE DEF t6
  <2> QED
    BY <2>1, <1>4, CutOffField
<1>6. t4 \in Seq(Symbols) /\ Cut(t4, Delimiter.subdevice) = cut(m.subdevice, t5)
  <2>1. "subdevice" \in DOMAIN Delimiter /\ m["subdevice"] \in Seq(Digits)
    BY <1>1, DelimiterFacts
  <2> HIDE DEF t5
  <2> QED
    BY <2>1, <1>5, CutOffField
<1>7. t3 \in Seq(Symbols) /\ Cut(t3, Delimiter.subvendor) = cut(m.subvendor, t4)
  <2>1. "subvendor" \in DOMAIN Delimiter /\ m["subvendor"] \in Seq(Digits)
    BY <1>1, DelimiterFacts
  <2> HIDE DEF t4
  <2> QED
    BY <2>1, <1>6, CutOffField
<1>8. t2 \in Seq(Symbols) /\ Cut(t2, Delimiter.device) = cut(m.device, t3)
  <2>1. "device" \in DOMAIN Delimiter /\ m["device"] \in Seq(Digits)
    BY <1>1, DelimiterFacts
  <2> HIDE DEF t3
  <2> QED
    BY <2>1, <1>7, CutOffField
<1>9. t1 \in Seq(Symbols) /\ Cut(t1, Delimiter.vendor) = cut(m.vendor, t2)
  <2>1. "vendor" \in DOMAIN Delimiter /\ m["vendor"] \in Seq(Digits)
    BY <1>1, DelimiterFacts
  <2> HIDE DEF t2
  <2> QED
    BY <2>1, <1>8, CutOffField
<1> HIDE DEF s, t1, t2, t3, t4, t5, t6, t7
<1>10. s # <<>> /\ s[1] = "v" /\ Tail(s) = t1
  <2>1. <<"v">> \in Seq(Symbols) /\ Len(<<"v">>) = 1 /\ <<"v">>[1] = "v"
    BY DEF Symbols, Letters
  <2>2. s \in Seq(Symbols) /\ Len(s) = 1 + Len(t1) /\ s[1] = "v"
        /\ \A i \in 1..Len(t1) : s[1 + i] = t1[i]
    BY <1>3, <1>9, <2>1, Joined
  <2>3. Len(t1) \in Nat
    BY <1>9
  <2>4. s # <<>>
    BY <2>2, <2>3
  <2>5. Tail(s) = t1
    BY <1>9, <2>2, <2>3, <2>4
  <2> QED
    BY <2>2, <2>4, <2>5
<1>11. Cuts(s) = [vendor |-> cut(m.vendor, t2), device |-> cut(m.device, t3),
                  subvendor |-> cut(m.subvendor, t4),
                  subdevice |-> cut(m.subdevice, t5),
                  baseClass |-> cut(m.baseClass, t6),
                  subClass |-> cut(m.subClass, t7)]
  <2> DEFINE r1 == Tail(s)
             r2 == After(r1, Delimiter.vendor)
             r3 == After(r2, Delimiter.device)
             r4 == After(r3, Delimiter.subvendor)
             r5 == After(r4, Delimiter.subdevice)
             r6 == After(r5, Delimiter.baseClass)
  <2>1. Cuts(s) = [vendor |-> Cut(r1, Delimiter.vendor),
                   device |-> Cut(r2, Delimiter.device),
                   subvendor |-> Cut(r3, Delimiter.subvendor),
                   subdevice |-> Cut(r4, Delimiter.subdevice),
                   baseClass |-> Cut(r5, Delimiter.baseClass),
                   subClass |-> Cut(r6, Delimiter.subClass)]
    BY DEF Cuts
  <2>2. \A a, r : cut(a, r).after = r
    OBVIOUS
  <2> HIDE DEF cut
  <2>3. r1 = t1
    BY <1>10
  <2>4. r2 = t2
    BY <1>9, <2>2, <2>3 DEF After
  <2>5. r3 = t3
    BY <1>8, <2>2, <2>4 DEF After
  <2>6. r4 = t4
    BY <1>7, <2>2, <2>5 DEF After
  <2>7. r5 = t5
    BY <1>6, <2>2, <2>6 DEF After
  <2>8. r6 = t6
    BY <1>5, <2>2, <2>7 DEF After
  <2> HIDE DEF r1, r2, r3, r4, r5, r6
  <2> QED
    BY <1>4, <1>5, <1>6, <1>7, <1>8, <1>9, <2>1, <2>3, <2>4, <2>5, <2>6, <2>7,
       <2>8
<1>12. Parses(s)
  BY <1>10, <1>11, DelimiterFacts DEF Parses
<1>13. ModAliasOf(s) = m
  <2>1. \A f \in DOMAIN Delimiter : Cuts(s)[f].before = m[f]
    BY <1>11, DelimiterFacts
  <2>2. Cuts(s).subClass.after = m["programmingInterface"]
    BY <1>11 DEF t7
  <2>3. \A f \in Fields : ModAliasOf(s)[f] = m[f]
    BY <2>1, <2>2, DelimiterFacts DEF ModAliasOf
  <2>4. DOMAIN ModAliasOf(s) = Fields /\ ModAliasOf(s) = [f \in Fields |-> ModAliasOf(s)[f]]
    BY DEF ModAliasOf
  <2>5. m = [f \in Fields |-> m[f]]
    OBVIOUS
  <2> QED
    BY <2>3, <2>4, <2>5
<1> QED
  BY <1>12, <1>13 DEF s

\* Only a text that holds every delimiter is parsed.
LEMMA ParsedIsDelimited ==
  ASSUME NEW s \in Seq(Symbols), Parses(s)
  PROVE  Delimited(s)
<1> DEFINE holds(t, e) == Occurrences(t, e) # {}
           a0 == Tail(s)
           a1 == After(a0, Delimiter.vendor)
           a2 == After(a1, Delimiter.device)
           a3 == After(a2, Delimiter.subvendor)
           a4 == After(a3, Delimiter.subdevice)
           a5 == After(a4, Delimiter.baseClass)
           a6 == After(a5, Delimiter.subClass)
<1>1. /\ a0 \in Seq(Symbols)
      /\ \A e \in Seq(Letters) : holds(a0, e) => holds(s, e)
  <2>1. s # <<>>
    BY DEF Parses
  <2>2. /\ a0 \in Seq(Symbols) /\ Len(a0) = Len(s) - 1 /\ Len(s) \in Nat
        /\ \A i \in 1..Len(a0) : a0[i] = s[i + 1]
    BY <2>1, HeadTailProperties
  <2> HIDE DEF a0
  <2>3. ASSUME NEW e \in Seq(Letters), NEW k \in Occurrences(a0, e)
        PROVE  k + 1 \in Occurrences(s, e)
    <3>1. /\ k \in 1..Len(a0) /\ k + Len(e) - 1 <= Len(a0) /\ Len(e) \in Nat
          /\ \A j \in 1..Len(e) : a0[k + j - 1] = e[j]
      BY DEF Occurrences
    <3>2. k + 1 \in 1..Len(s) /\ (k + 1) + Len(e) - 1 <= Len(s)
      BY <2>2, <3>1
    <3>3. ASSUME NEW j \in 1..Len(e) PROVE s[(k + 1) + j - 1] = e[j]
      <4>1. k + j - 1 \in 1..Len(a0) /\ (k + j - 1) + 1 = (k + 1) + j - 1
        BY <2>2, <3>1
      <4> QED
        BY <2>2, <3>1, <4>1
    <3> QED
      BY <3>2, <3>3 DEF Occurrences
  <2> QED
    BY <2>2, <2>3
<1>2. /\ Cuts(s).vendor = Cut(a0, Delimiter.vendor)
      /\ Cuts(s).device = Cut(a1, Delimiter.device)
      /\ Cuts(s).subvendor = Cut(a2, Delimiter.subvendor)
      /\ Cuts(s).subdevice = Cut(a3, Delimiter.subdevice)
      /\ Cuts(s).baseClass = Cut(a4, Delimiter.baseClass)
      /\ Cuts(s).subClass = Cut(a5, Delimiter.subClass)
  BY DEF Cuts
<1>3. \A f \in DOMAIN Delimiter : Cuts(s)[f].found
  BY DEF Parses
<1> HIDE DEF holds, a0
<1>4. /\ a1 \in Seq(Symbols) /\ holds(s, Delimiter["vendor"])
      /\ \A e \in Seq(Letters) : holds(a1, e) => holds(s, e)
  <2> HIDE DEF a0
  <2>1. "vendor" \in DOMAIN Delimiter
    BY DelimiterFacts
  <2>2. /\ Delimiter["vendor"] \in Seq(Letters) /\ Delimiter["vendor"] # <<>>
        /\ Cut(a0, Delimiter["vendor"]).found
    BY <1>2, <1>3, <2>1, DelimiterFacts
  <2> QED
    BY <1>1, <2>2, CutLeavesTheEnd DEF holds, After
<1>5. /\ a2 \in Seq(Symbols) /\ holds(s, Delimiter["device"])
      /\ \A e \in Seq(Letters) : holds(a2, e) => holds(s, e)
  <2> HIDE DEF a1
  <2>1. "device" \in DOMAIN Delimiter
    BY DelimiterFacts
  <2>2. /\ Delimiter["device"] \in Seq(Letters) /\ Delimiter["device"] # <<>>
        /\ Cut(a1, Delimiter["device"]).found
    BY <1>2, <1>3, <2>1, DelimiterFacts
  <2> QED
    BY <1>4, <2>2, CutLeavesTheEnd DEF holds, After
<1>6. /\ a3 \in Seq(Symbols) /\ holds(s, Delimiter["subvendor"])
      /\ \A e \in Seq(Letters) : holds(a3, e) => holds(s, e)
  <2> HIDE DEF a2
  <2>1. "subvendor" \in DOMAIN Delimiter
    BY DelimiterFacts
  <2>2. /\ Delimiter["subvendor"] \in Seq(Letters) /\ Delimiter["subvendor"] # <<>>
        /\ Cut(a2, Delimiter["subvendor"]).found
    BY <1>2, <1>3, <2>1, DelimiterFacts
  <2> QED
    BY <1>5, <2>2, CutLeavesTheEnd DEF holds, After
<1>7. /\ a4 \in Seq(Symbols) /\ holds(s, Delimiter["subdevice"])
      /\ \A e \in Seq(Letters) : holds(a4, e) => holds(s, e)
  <2> HIDE DEF a3
  <2>1. "subdevice" \in DOMAIN Delimiter
    BY DelimiterFacts
  <2>2. /\ Delimiter["subdevice"] \in Seq(Letters) /\ Delimiter["subdevice"] # <<>>
        /\ Cut(a3, Delimiter["subdevice"]).found
    BY <1>2, <1>3, <2>1, DelimiterFacts
  <2> QED
    BY <1>6, <2>2, CutLeavesTheEnd DEF holds, After
<1>8. /\ a5 \in Seq(Symbols) /\ holds(s, Delimiter["baseClass"])
      /\ \A e \in Seq(Letters) : holds(a5, e) => holds(s, e)
  <2> HIDE DEF a4
  <2>1. "baseClass" \in DOMAIN Delimiter
    BY DelimiterFacts
  <2>2. /\ Delimiter["baseClass"] \in Seq(Letters) /\ Delimiter["baseClass"] # <<>>
        /\ Cut(a4, Delimiter["baseClass"]).found
    BY <1>2, <1>3, <2>1, DelimiterFacts
  <2> QED
    BY <1>7, <2>2, CutLeavesTheEnd DEF holds, After
<1>9. /\ a6 \in Seq(Symbols) /\ holds(s, Delimiter["subClass"])
      /\ \A e \in Seq(Letters) : holds(a6, e) => holds(s, e)
  <2> HIDE DEF a5
  <2>1. "subClass" \in DOMAIN Delimiter
    BY DelimiterFacts
  <2>2. /\ Delimiter["subClass"] \in Seq(Letters) /\ Delimiter["subClass"] # <<>>
        /\ Cut(a5, Delimiter["subClass"]).found
    BY <1>2, <1>3, <2>1, DelimiterFacts
  <2> QED
    BY <1>8, <2>2, CutLeavesTheEnd DEF holds, After
<1> QED
  BY <1>4, <1>5, <1>6, <1>7, <1>8, <1>9, DelimiterFacts DEF Delimited, holds

\* The device's file decides whether the choice is made at all.
ReadInv ==
  /\ text \in Texts
  /\ pc = "failed" => ~Parses(text)
  /\ pc \in {"parse", "match", "done"} => Parses(text)

LEMMA ReadInvariant == Spec => []ReadInv
<1>1. Init => ReadInv
  BY DEF Init, ReadInv
<1>2. ReadInv /\ [Next]_vars => ReadInv'
  BY DEF ReadInv, Next, vars, ReadModAlias, FileUnreadable, ParseLine,
     AliasesRead, Compare, Return
<1> QED
  BY <1>1, <1>2, PTL DEF Spec

LEMMA LinesAreTexts ==
  ASSUME file \in Files, NEW l \in 1..Len(file)
  PROVE  file[l].text \in Seq(Symbols)
<1> DEFINE S == [vfio : BOOLEAN, text : Patterns,
                 driver : {file[k].driver : k \in DOMAIN file}]
<1>1. file \in Seq(S)
  BY FilesAssumption
<1>2. file[l] \in S
  <2> HIDE DEF S
  <2> QED
    BY <1>1, ElementOfSeq
<1> QED
  BY <1>2, TextsAssumption DEF Symbols

\* parseModAliasString takes what the kernel writes apart into the values it was
\* written from, whatever their digits, and no line so written is passed over;
\* a text that lacks a delimiter is never taken for a device's or an alias.
THEOREM ReadsWhatIsWritten == Spec => []ParsesWhatIsWritten
<1>1. IInv /\ ReadInv => ParsesWhatIsWritten
  <2> SUFFICES ASSUME IInv, ReadInv PROVE ParsesWhatIsWritten
    OBVIOUS
  <2>1. \A m \in Ids : Parses(Written(m)) /\ ModAliasOf(Written(m)) = m
    BY WrittenIsParsed, TextsAssumption
  <2>2. /\ line \in 0..Len(file) /\ Len(file) \in Nat /\ file \in Files
        /\ pc \in {"modalias", "parse", "match", "done", "failed", "unreadable"}
    BY FileFacts DEF IInv, TypeOK, LineInv
  <2>3. PICK f : Follows(f)
    BY DEF IInv, LineInv
  <2>4. \A m \in Ids : text = Written(m) => pc # "failed" /\ ModAliasOf(text) = m
    BY <2>1 DEF ReadInv
  <2>5. pc \in {"parse", "match", "done"} => Delimited(text)
    <3>1. text \in Seq(Symbols)
      BY TextsAssumption DEF ReadInv, Symbols
    <3> QED
      BY <2>2, <3>1, ParsedIsDelimited DEF ReadInv
  <2>6. ASSUME NEW k \in 1..Len(aliases)
        PROVE  \E l \in 1..line :
                 /\ file[l].vfio /\ file[l].driver = aliases[k].driver
                 /\ Delimited(file[l].text)
                 /\ \A m \in Ids : file[l].text = Written(m) => aliases[k].modAlias = m
    <3> DEFINE l == f[k]
    <3>1. /\ l \in 1..line /\ file[l].vfio /\ Parses(file[l].text)
          /\ aliases[k] = AliasOf(l)
      BY <2>3 DEF Follows, Useful
    <3> HIDE DEF l
    <3>2. /\ aliases[k].driver = file[l].driver
          /\ aliases[k].modAlias = ModAliasOf(file[l].text)
      BY <3>1 DEF AliasOf
    <3>3. Delimited(file[l].text)
      <4>1. file[l].text \in Seq(Symbols)
        BY <2>2, <3>1, LinesAreTexts
      <4> QED
        BY <3>1, <4>1, ParsedIsDelimited
    <3> QED
      BY <2>1, <3>1, <3>2, <3>3
  <2>7. ASSUME NEW l \in 1..line, NEW m \in Ids,
               file[l].vfio, file[l].text = Written(m)
        PROVE  [modAlias |-> m, driver |-> file[l].driver]
                 \in {aliases[k] : k \in 1..Len(aliases)}
    <3>1. Useful(l)
      BY <2>1, <2>7 DEF Useful
    <3>2. PICK k \in 1..Len(aliases) : f[k] = l /\ aliases[k] = AliasOf(l)
      BY <2>3, <3>1 DEF Follows
    <3>3. AliasOf(l) = [modAlias |-> m, driver |-> file[l].driver]
      BY <2>1, <2>7 DEF AliasOf
    <3> QED
      BY <3>2, <3>3
  <2> QED
    BY <2>4, <2>5, <2>6, <2>7 DEF ParsesWhatIsWritten
<1> QED
  BY <1>1, ChoiceInvariant, ReadInvariant, PTL
=============================================================================
