--------------------------- MODULE MCFuzzySearch ---------------------------
(* Files of up to three lines: in either case, repeating a character, one   *)
(* that is longer than buf, and an empty one; an array that has to grow     *)
(* twice; three characters, the zero and one that no line has.              *)
EXTENDS FuzzySearch
MCtolower == "a" :> "a" @@ "A" :> "a" @@ "b" :> "b" @@ "eof" :> "eof"
MCLines == {<<>>, <<"b">>, <<"A", "b">>, <<"b", "a", "a">>, <<"a", "b", "a">>,
            <<"a", "a", "a", "b">>}
MCBehind == {<<>>, <<"a">>}
=============================================================================
