----------------------------- MODULE MCModAlias -----------------------------
(* A small instance of ModAlias for TLC.                                   *)
EXTENDS ModAlias

CONSTANTS x, y, vfioPci, nvgrace, other, MaxLines

\* The first and the last value vary; a pattern is all wildcards but for them,
\* or has no wildcard at all.
Varies == {"vendor", "programmingInterface"}
With(vals, rest) ==
  {[f \in Fields |-> IF f \in Varies THEN <<g[f]>> ELSE <<rest>>] :
     g \in [Varies -> vals]}
DeviceIds == With({x, y}, x)
PatternIds == With({x, Wild}, Wild) \cup {[f \in Fields |-> <<x>>]}
SomeIds == DeviceIds \cup PatternIds
SomeDigits == {x, y, Wild}

\* A text without one of its delimiters, or without the v at its start.
Truncated(f) ==
  LET v == <<x>>
      d(g) == IF g = f THEN <<>> ELSE Delimiter[g]
  IN <<"v">> \o v \o d("vendor") \o v \o d("device") \o v \o d("subvendor")
       \o v \o d("subdevice") \o v \o d("baseClass") \o v \o d("subClass") \o v
Malformed == {Truncated(f) : f \in DOMAIN Delimiter}
               \cup {<<>>, Tail(Written([f \in Fields |-> <<x>>]))}

DeviceTexts == {Written(m) : m \in DeviceIds} \cup Malformed
PatternTexts == {Written(m) : m \in PatternIds \cup DeviceIds}
                  \cup {Truncated("device")}
Lines ==
  {[vfio |-> TRUE, text |-> Written(m), driver |-> d] :
     m \in PatternIds, d \in {nvgrace, other}}
  \cup {[vfio |-> FALSE, text |-> Written([f \in Fields |-> <<x>>]),
         driver |-> other],
        [vfio |-> TRUE, text |-> Truncated("device"), driver |-> other]}
SomeFiles == UNION {[1..n -> Lines] : n \in 0..MaxLines}
=============================================================================
