----------------------------- MODULE LabelCodec -----------------------------
(***************************************************************************)
(* The texts behind the values of NodeLabels: how maybeSetPaused writes    *)
(* the marker paused-for-driver-upgrade into a label, how maybeSetTrue     *)
(* takes it out again, and which texts the API server accepts.  A text is  *)
(* a sequence of symbols, each a character or a run of characters that the *)
(* code never takes apart: P is the marker, "true" and "false" are words.  *)
(***************************************************************************)
EXTENDS NodeLabels, Integers, Sequences

CONSTANTS
  Keys,        \* the labels of one patch
  Text,        \* the text of each value in CustomBases
  Weight,      \* the number of characters of each symbol
  MaxLength    \* what Kubernetes accepts

P == "paused-for-driver-upgrade"
Underscore == "underscore"
Symbols == DOMAIN Weight
MarkerLength == Weight[P] + Weight[Underscore]

\* A custom value is a text of its own kind without the marker, and the marker
\* alone is a text that Kubernetes accepts.
ASSUME CodecAssumption ==
  /\ {P, Underscore, "true", "false"} \subseteq Symbols
  /\ Weight \in [Symbols -> Nat] /\ MaxLength \in Nat
  /\ Weight[P] <= MaxLength
  /\ Text \in [CustomBases -> Seq(Symbols \ {P})]
  /\ \A b \in CustomBases : Text[b] \notin {<<>>, <<"true">>, <<"false">>}

VARIABLES
  pc,
  text,      \* the labels of the node
  comps,     \* what the attempt fetched
  want,      \* history: what the administrator last asked for
  rejected   \* history: the API server refused the attempt's first patch

vars == <<pc, text, comps, want, rejected>>

-----------------------------------------------------------------------------
(* Texts.                                                                  *)

\* The characters of a text, each told by its symbol and its place in it.
CharactersAt(t, k) == {k} \X (1..Weight[t[k]])
Length(t) == Cardinality(UNION {CharactersAt(t, k) : k \in DOMAIN t})

\* Kubernetes: at most 63 characters, a letter or digit at both ends.
Valid(t) ==
  t # <<>> =>
    /\ Length(t) <= MaxLength
    /\ t[1] # Underscore /\ t[Len(t)] # Underscore

\* What is left of a text when only the symbols at the places S are kept.
Place(S, k) == CHOOSE p \in S : Cardinality({q \in S : q < p}) = k - 1
SubText(t, S) == [k \in 1..Cardinality(S) |-> t[Place(S, k)]]

\* The regular expression P_? replaced by nothing, everywhere ...
WithoutMarkers(t) ==
  SubText(t, {k \in DOMAIN t :
                t[k] # P /\ ~(t[k] = Underscore /\ k > 1 /\ t[k-1] = P)})
\* As the code would be without the trim.
Untrimmed(t) == t
\* ... and strings.Trim of underscores.
Trim(t) ==
  SubText(t, {k \in DOMAIN t :
                /\ \E j \in DOMAIN t : j <= k /\ t[j] # Underscore
                /\ \E j \in DOMAIN t : j >= k /\ t[j] # Underscore})

HasMarker(t) == \E k \in DOMAIN t : t[k] = P
\* As the code would be if it did not look for a marker it wrote before ...
PausedTwice(t) ==
  IF t = <<>> \/ t = <<"false">> THEN t
  ELSE IF t = <<"true">> THEN <<P>> ELSE t \o <<Underscore, P>>
\* ... or if it wrote the marker without the underscore.
PausedJoined(t) ==
  IF t = <<>> \/ t = <<"false">> THEN t
  ELSE IF t = <<"true">> THEN <<P>>
  ELSE IF HasMarker(t) THEN t ELSE t \o <<P>>
PausedText(t) ==
  IF t = <<>> \/ t = <<"false">> THEN t
  ELSE IF t = <<"true">> THEN <<P>>
  ELSE IF HasMarker(t) THEN t ELSE t \o <<Underscore, P>>

\* As the code would be if it cut the marker out and nothing else.
TrueTextUntrimmed(t) ==
  IF t = <<"false">> THEN t
  ELSE IF t = <<P>> THEN <<"true">> ELSE WithoutMarkers(t)
TrueText(t) ==
  IF t = <<"false">> THEN t
  ELSE IF t = <<P>> THEN <<"true">> ELSE Trim(WithoutMarkers(t))

\* The text of a value of NodeLabels, that of a missing label being read as
\* the empty string.
Encode(v) ==
  LET plain == CASE v.base \in {"absent", "empty"} -> <<>>
                 [] v.base \in CustomBases -> Text[v.base]
                 [] OTHER -> <<v.base>>
  IN IF ~v.paused THEN plain
     ELSE IF v.base = "true" THEN <<P>> ELSE plain \o <<Underscore, P>>

-----------------------------------------------------------------------------
(* The attempts, as far as they touch the labels.                          *)

Init ==
  /\ want \in [Keys -> Bases]
  /\ text = [k \in Keys |-> Encode(Plain(want[k]))]
  /\ \A k \in Keys : Valid(text[k])
  /\ comps = [k \in Keys |-> <<>>] /\ pc = "ended" /\ rejected = FALSE

\* UpdateNodeLabels: one patch for all labels, refused as a whole when the
\* text of one of them is not valid, however often it is sent.
Patch(f, accepted, refused) ==
  IF \A k \in Keys : Valid(f[k])
  THEN text' = f /\ pc' = accepted
  ELSE text' = text /\ pc' = refused

\* As the code would be if a missing label were read as a word.
FetchMissing ==
  /\ pc = "ended"
  /\ comps' = [k \in Keys |-> IF text[k] = <<>> THEN <<"absent">> ELSE text[k]]
  /\ pc' = "fetched" /\ rejected' = FALSE
  /\ UNCHANGED <<text, want>>
FetchLabels ==
  /\ pc = "ended"
  /\ comps' = text /\ pc' = "fetched" /\ rejected' = FALSE
  /\ UNCHANGED <<text, want>>

EvictPatchSent ==
  /\ pc = "fetched"
  /\ Patch([k \in Keys |-> PausedText(comps[k])], "paused", "cleanup")
  /\ rejected' = (pc' = "cleanup")
  /\ UNCHANGED <<comps, want>>

\* At the end of an attempt and in cleanupOnFailure.
ReschedulePatchSent ==
  /\ pc \in {"paused", "cleanup"}
  /\ Patch([k \in Keys |-> TrueText(comps[k])], "restored", "stuck")
  /\ UNCHANGED <<comps, want, rejected>>

AttemptEnds ==
  /\ pc = "restored" /\ pc' = "ended"
  /\ comps' = [k \in Keys |-> <<>>] /\ rejected' = FALSE
  /\ UNCHANGED <<text, want>>

\* The process dies: the labels stay as they are.
Killed ==
  /\ pc \in {"fetched", "paused", "cleanup"}
  /\ pc' = "ended" /\ comps' = [k \in Keys |-> <<>>] /\ rejected' = FALSE
  /\ UNCHANGED <<text, want>>

\* Between two attempts the administrator writes a label.
Edit(k, b) ==
  /\ pc = "ended" /\ Valid(Encode(Plain(b)))
  /\ want' = [want EXCEPT ![k] = b]
  /\ text' = [text EXCEPT ![k] = Encode(Plain(b))]
  /\ UNCHANGED <<pc, comps, rejected>>

Next ==
  \/ FetchLabels \/ EvictPatchSent \/ ReschedulePatchSent \/ AttemptEnds
  \/ Killed \/ \E k \in Keys, b \in Bases : Edit(k, b)

Spec == Init /\ [][Next]_vars

-----------------------------------------------------------------------------
(* Properties.                                                             *)

TypeOK ==
  /\ pc \in {"ended", "fetched", "paused", "cleanup", "restored", "stuck"}
  /\ text \in [Keys -> Seq(Symbols)] /\ comps \in [Keys -> Seq(Symbols)]
  /\ want \in [Keys -> Bases] /\ rejected \in BOOLEAN

\* On every label the code meets, rewriting the text does what NodeLabels says
\* rewriting the value does: the abstraction DriverManager is built on.
Commutes ==
  \A k \in Keys : \A v \in LabelValues : text[k] = Encode(v) =>
    /\ PausedText(text[k]) = Encode(MaybeSetPaused(v))
    /\ TrueText(text[k]) = Encode(MaybeSetTrue(v))

\* The text of a label always stands for what the administrator asked for,
\* paused or not, through any sequence of attempts, kills and refusals.
TextsStandForWant ==
  \A k \in Keys : \E v \in LabelValues :
    v.base = want[k] /\ text[k] = Encode(v)

\* The patch that restores is never refused, and restores every text.
RestoringSucceeds ==
  /\ pc # "stuck"
  /\ pc = "restored" => \A k \in Keys : text[k] = Encode(Plain(want[k]))

\* The patch that pauses is refused exactly when the administrator's text of
\* some label leaves no room for the marker; then no label of the batch is
\* paused, whatever the others hold.
RoomForMarker ==
  LET Full(k) == want[k] \in CustomBases
                   /\ Length(Text[want[k]]) + MarkerLength > MaxLength
  IN /\ rejected =>
          /\ \E k \in Keys : Full(k)
          /\ \A k \in Keys : HasMarker(text[k]) => HasMarker(comps[k])
     /\ pc = "paused" => \A k \in Keys : ~Full(k)
=============================================================================
