------------------------------ MODULE ModAlias ------------------------------
(***************************************************************************)
(* The choice of the VFIO driver of a device: FindBestVFIOVariant reads    *)
(* the device's modalias, parses the vfio_pci lines of modules.alias and   *)
(* keeps the driver of the first matching line with the fewest wildcards.  *)
(* A text is a sequence of symbols: the lower-case letters the delimiters  *)
(* are made of, and Digits, which stand for what is between them: the      *)
(* kernel writes numbers with upper-case digits.  The prefix up to the     *)
(* colon is left out.                                                      *)
(***************************************************************************)
EXTENDS Naturals, Sequences, FiniteSets

CONSTANTS
  Digits,     \* the symbols that are no letters of a delimiter
  Ids,        \* the identities that the kernel writes down, wildcards included
  Texts,      \* what a device's modalias file may hold
  Patterns,   \* what a line of modules.alias may hold in its place
  Files,      \* what modules.alias may hold: sequences of lines
  Wild,       \* the wildcard "*", a digit here
  VfioPci,    \* the standard driver, used when nothing matches
  NoDriver    \* the empty string

Fields == {"vendor", "device", "subvendor", "subdevice", "baseClass",
           "subClass", "programmingInterface"}
\* The delimiter after each field of the struct but the last.
Delimiter == [vendor |-> <<"d">>, device |-> <<"s", "v">>,
              subvendor |-> <<"s", "d">>, subdevice |-> <<"b", "c">>,
              baseClass |-> <<"s", "c">>, subClass |-> <<"i">>]
Letters == {"v", "d", "s", "b", "c", "i"}

ASSUME TextsAssumption ==
  /\ Digits \cap Letters = {}
  /\ Ids \subseteq [Fields -> Seq(Digits)]
  /\ Texts \cup Patterns \subseteq Seq(Digits \cup Letters)
ASSUME FilesAssumption ==
  \A f \in Files : /\ f \in Seq([vfio : BOOLEAN, text : Patterns,
                                 driver : {f[k].driver : k \in DOMAIN f}])
                   /\ \A k \in DOMAIN f : f[k].driver # NoDriver

VARIABLES
  text,        \* the device's modalias file
  file,        \* modules.alias
  pc,
  line,        \* the lines of the file parsed so far
  aliases,     \* vfioAliases: the patterns and drivers found
  next,        \* the aliases compared so far
  bestDriver,
  bestCount,   \* bestWildcardCount, or a number above all for math.MaxInt
  result       \* what is returned: a driver, NoDriver for an error or not yet

vars == <<text, file, pc, line, aliases, next, bestDriver, bestCount, result>>

MaxInt == Cardinality(Fields) + 1

-----------------------------------------------------------------------------
(* parseModAliasString.                                                    *)

\* Where a delimiter begins in a text.
Occurrences(s, delim) ==
  {k \in 1..Len(s) : /\ k + Len(delim) - 1 <= Len(s)
                     /\ \A j \in 1..Len(delim) : s[k + j - 1] = delim[j]}
\* As the code would be with strings.LastIndex.
FinalOf(S) == CHOOSE k \in S : \A j \in S : j <= k
First(S) == CHOOSE k \in S : \A j \in S : k <= j

\* strings.Cut: what is before and after the first delimiter, if there is one.
Cut(s, delim) ==
  LET at == Occurrences(s, delim)
  IN IF at = {} THEN [found |-> FALSE, before |-> s, after |-> <<>>]
     ELSE [found  |-> TRUE,
           before |-> SubSeq(s, 1, First(at) - 1),
           after  |-> SubSeq(s, First(at) + Len(delim), Len(s))]

After(s, delim) == Cut(s, delim).after

\* The cuts along the delimiters, each in what the one before it left.
Cuts(s) ==
  LET vendor    == Tail(s)
      device    == After(vendor, Delimiter.vendor)
      subvendor == After(device, Delimiter.device)
      subdevice == After(subvendor, Delimiter.subvendor)
      baseClass == After(subdevice, Delimiter.subdevice)
      subClass  == After(baseClass, Delimiter.baseClass)
  IN [vendor    |-> Cut(vendor, Delimiter.vendor),
      device    |-> Cut(device, Delimiter.device),
      subvendor |-> Cut(subvendor, Delimiter.subvendor),
      subdevice |-> Cut(subdevice, Delimiter.subdevice),
      baseClass |-> Cut(baseClass, Delimiter.baseClass),
      subClass  |-> Cut(subClass, Delimiter.subClass)]

Parses(s) ==
  /\ s # <<>> /\ s[1] = "v"
  /\ LET cuts == Cuts(s) IN \A f \in DOMAIN Delimiter : cuts[f].found
ModAliasOf(s) ==
  LET cuts == Cuts(s)
  IN [f \in Fields |-> IF f \in DOMAIN Delimiter THEN cuts[f].before
                                                ELSE cuts.subClass.after]

-----------------------------------------------------------------------------
(* matchModalias and findBestMatch.                                        *)

Matches(device, pattern) ==
  \A f \in Fields : pattern[f] = <<Wild>> \/ pattern[f] = device[f]
\* As the code would be if it counted one wildcard too few.
WildcardsLessOne(pattern) ==
  Cardinality({f \in Fields : pattern[f] = <<Wild>>}) - 1
Wildcards(pattern) == Cardinality({f \in Fields : pattern[f] = <<Wild>>})

Init ==
  /\ text \in Texts /\ file \in Files
  /\ pc = "modalias" /\ line = 0 /\ aliases = <<>> /\ next = 0
  /\ bestDriver = NoDriver /\ bestCount = MaxInt /\ result = NoDriver

\* A device whose modalias cannot be parsed gets no driver at all.
ReadModAlias ==
  /\ pc = "modalias"
  /\ pc' = IF Parses(text) THEN "parse" ELSE "failed"
  /\ UNCHANGED <<text, file, line, aliases, next, bestDriver, bestCount,
                 result>>

\* The error returns of FindBestVFIOVariant: of reading the device's file, and
\* before any line is parsed of uname and of reading modules.alias.
FileUnreadable ==
  /\ pc = "modalias" \/ (pc = "parse" /\ line = 0)
  /\ pc' = "unreadable"
  /\ UNCHANGED <<text, file, line, aliases, next, bestDriver, bestCount,
                 result>>

\* One line of getVFIOAliases: others and malformed ones are skipped.
ParseLine ==
  /\ pc = "parse" /\ line < Len(file)
  /\ line' = line + 1
  /\ aliases' = IF file[line'].vfio /\ Parses(file[line'].text)
                THEN Append(aliases, [modAlias |-> ModAliasOf(file[line'].text),
                                      driver |-> file[line'].driver])
                ELSE aliases
  /\ UNCHANGED <<text, file, pc, next, bestDriver, bestCount, result>>

AliasesRead ==
  /\ pc = "parse" /\ line = Len(file)
  /\ IF aliases = <<>> THEN pc' = "done" /\ result' = VfioPci
     ELSE pc' = "match" /\ UNCHANGED result
  /\ UNCHANGED <<text, file, line, aliases, next, bestDriver, bestCount>>

\* As the code would be if the last of several equal aliases won.
CompareOrEqual ==
  /\ pc = "match" /\ next < Len(aliases)
  /\ next' = next + 1
  /\ LET a == aliases[next'] IN
     IF Matches(ModAliasOf(text), a.modAlias)
          /\ Wildcards(a.modAlias) <= bestCount
     THEN bestDriver' = a.driver /\ bestCount' = Wildcards(a.modAlias)
     ELSE UNCHANGED <<bestDriver, bestCount>>
  /\ UNCHANGED <<text, file, pc, line, aliases, result>>
\* One turn of the loop of findBestMatch.
Compare ==
  /\ pc = "match" /\ next < Len(aliases)
  /\ next' = next + 1
  /\ LET a == aliases[next'] IN
     IF Matches(ModAliasOf(text), a.modAlias)
          /\ Wildcards(a.modAlias) < bestCount
     THEN bestDriver' = a.driver /\ bestCount' = Wildcards(a.modAlias)
     ELSE UNCHANGED <<bestDriver, bestCount>>
  /\ UNCHANGED <<text, file, pc, line, aliases, result>>

\* As the code would be without the last fallback.
ReturnBest ==
  /\ pc = "match" /\ next = Len(aliases)
  /\ result' = bestDriver /\ pc' = "done"
  /\ UNCHANGED <<text, file, line, aliases, next, bestDriver, bestCount>>
Return ==
  /\ pc = "match" /\ next = Len(aliases)
  /\ result' = IF bestDriver = NoDriver THEN VfioPci ELSE bestDriver
  /\ pc' = "done"
  /\ UNCHANGED <<text, file, line, aliases, next, bestDriver, bestCount>>

Next ==
  \/ ReadModAlias \/ FileUnreadable \/ ParseLine
  \/ AliasesRead \/ Compare \/ Return
Spec == Init /\ [][Next]_vars

-----------------------------------------------------------------------------
(* Properties.                                                             *)

Candidates ==
  {k \in 1..Len(aliases) : Matches(ModAliasOf(text), aliases[k].modAlias)}

TypeOK ==
  /\ pc \in {"modalias", "parse", "match", "done", "failed", "unreadable"}
  /\ line \in 0..Len(file) /\ next \in 0..Len(aliases)
  /\ Len(aliases) <= line /\ bestCount \in 0..MaxInt

\* Among the aliases compared so far the loop holds the first of those that
\* match with the fewest wildcards, or none.
BestSoFar ==
  LET seen == {k \in Candidates : k <= next} IN
  IF seen = {} THEN bestDriver = NoDriver /\ bestCount = MaxInt
  ELSE \E b \in seen :
         /\ bestDriver = aliases[b].driver
         /\ bestCount = Wildcards(aliases[b].modAlias)
         /\ \A k \in seen : bestCount <= Wildcards(aliases[k].modAlias)
         /\ \A k \in seen : k < b => bestCount < Wildcards(aliases[k].modAlias)

\* The driver returned is that of a line of the file that matches the device,
\* and no line that matches is more specific; without one it is vfio-pci.
LineMatches(k) ==
  /\ file[k].vfio /\ Parses(file[k].text)
  /\ Matches(ModAliasOf(text), ModAliasOf(file[k].text))
MostSpecific ==
  pc = "done" =>
    LET lines == {k \in 1..Len(file) : LineMatches(k)}
        wild(k) == Wildcards(ModAliasOf(file[k].text))
    IN IF lines = {} THEN result = VfioPci
       ELSE \E b \in lines : /\ result = file[b].driver
                             /\ \A k \in lines : wild(b) <= wild(k)
                             /\ \A k \in lines : k < b => wild(b) < wild(k)

\* An identity as the kernel writes it: values in order, each between its
\* delimiters.
Written(m) ==
  <<"v">> \o (m.vendor \o Delimiter.vendor
  \o (m.device \o Delimiter.device
  \o (m.subvendor \o Delimiter.subvendor
  \o (m.subdevice \o Delimiter.subdevice
  \o (m.baseClass \o Delimiter.baseClass
  \o (m.subClass \o Delimiter.subClass
  \o m.programmingInterface))))))

\* What the kernel writes is taken apart into the values it was written from,
\* in the device's file and in every line of modules.alias, of which none is
\* passed over; a text without one of the delimiters is neither taken for a
\* device's nor for an alias.
Delimited(s) == \A f \in DOMAIN Delimiter : Occurrences(s, Delimiter[f]) # {}
ParsesWhatIsWritten ==
  /\ \A m \in Ids : text = Written(m) =>
       /\ pc # "failed"
       /\ ModAliasOf(text) = m
  /\ pc \in {"parse", "match", "done"} => Delimited(text)
  /\ \A k \in 1..Len(aliases) : \E l \in 1..line :
       /\ file[l].vfio /\ file[l].driver = aliases[k].driver
       /\ Delimited(file[l].text)
       /\ \A m \in Ids : file[l].text = Written(m) => aliases[k].modAlias = m
  /\ \A l \in 1..line : \A m \in Ids :
       file[l].vfio /\ file[l].text = Written(m) =>
         [modAlias |-> m, driver |-> file[l].driver]
           \in {aliases[k] : k \in 1..Len(aliases)}
=============================================================================
