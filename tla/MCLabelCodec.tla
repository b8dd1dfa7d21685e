---------------------------- MODULE MCLabelCodec ----------------------------
(* A small instance of LabelCodec for TLC.                                 *)
EXTENDS LabelCodec

\* run is thirty-six characters of an administrator's text, so that run and a
\* leave room for the marker and run, a and b do not.
MCWeight ==
  [s \in {P, Underscore, "true", "false", "a", "b", "run"} |->
     CASE s = P -> 25 [] s = "true" -> 4 [] s = "false" -> 5
       [] s = "run" -> 36 [] OTHER -> 1]
MCText ==
  [c \in CustomBases |->
     CASE c = "word"       -> <<"a">>
       [] c = "joined"     -> <<"a", Underscore, Underscore, "b">>
       [] c = "truthful"   -> <<"true", Underscore, "a">>
       [] c = "fits"       -> <<"run", "a">>
       [] c = "one_more"   -> <<"run", "a", "b">>]
=============================================================================
