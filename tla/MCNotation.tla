----------------------------- MODULE MCNotation -----------------------------
(* Every line of up to five characters, well-formed or not, and every        *)
(* well-formed one of up to eleven (six digits, or deeper braces).          *)
EXTENDS Notation

MCWellFormed ==
  LET W[n \in 1..11] ==
        IF n = 1 THEN {<<"digit">>}
        ELSE (IF n < 3 THEN {} ELSE {<<"(">> \o e \o <<")">> : e \in W[n - 2]})
             \cup UNION {{l \o <<o>> \o r : l \in W[k], o \in {"+", "*"}, r \in W[n - 1 - k]}
                         : k \in 1..n - 2}
  IN  UNION {W[n] : n \in 1..11}

MCInputs == SeqOf(Chars, 5) \cup MCWellFormed
=============================================================================
