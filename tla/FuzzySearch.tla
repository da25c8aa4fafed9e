---------------------------- MODULE FuzzySearch ----------------------------
(***************************************************************************)
(* positional_fuzzy_search.c: a file is loaded into a growing array of     *)
(* lines; then each character that is typed is added to `input', and the   *)
(* lines that contain all of it in order are shown, sorted by score.       *)
(***************************************************************************)
EXTENDS Integers, SequencesExt

CONSTANTS
  Lines,      \* the lines that the file may have
  MaxLines,   \* bound: how many it has
  InitSize,   \* 64: max_size to begin with
  MAX_INPUT,  \* the size of input and of buf
  Typed,      \* what getchar() may return, newlines aside
  NUL,
  tolower,    \* of every character
  Behind      \* what may lie behind input in memory, up to the first zero

ASSUME FuzzySearchAssumption ==
  /\ Lines \subseteq Seq(DOMAIN tolower)
  /\ MaxLines \in Nat /\ InitSize \in Nat \ {0} /\ MAX_INPUT \in Nat \ {0}
  /\ Typed \subseteq DOMAIN tolower \cup {NUL} /\ NUL \notin DOMAIN tolower
  /\ tolower \in [DOMAIN tolower -> DOMAIN tolower]
  /\ <<>> \in Behind /\ Behind \subseteq Seq(DOMAIN tolower)

VARIABLES
  phase,
  list,      \* the lines, in the order of the file
  max_size,  \* the cells allocated for it
  input,     \* the in_idx characters typed so far
  matches    \* what was shown last: scores and places in list

searching == <<phase, list, max_size, input, matches>>

SearchInit ==
  /\ phase = "load"
  /\ list = <<>> /\ max_size = InitSize
  /\ input = <<>>
  /\ matches = <<>>

-----------------------------------------------------------------------------
(* list_construct() *)

Mut_LoadLine ==
  /\ phase = "load" /\ Len(list) < MaxLines
  /\ \E line \in Lines : list' = Append(list, line)
  /\ max_size' = IF Len(list') > max_size THEN 2 * max_size ELSE max_size
  /\ UNCHANGED <<phase, input, matches>>

\* The array doubles as soon as it is full; realloc() may fail, which is the
\* end of the program.
LoadLine ==
  /\ phase = "load"
  /\ Len(list) < MaxLines
  /\ \E line \in Lines : list' = Append(list, line)
  /\ IF Len(list') >= max_size
     THEN \/ max_size' = 2 * max_size /\ UNCHANGED phase
          \/ phase' = "failed" /\ UNCHANGED max_size
     ELSE UNCHANGED <<phase, max_size>>
  /\ UNCHANGED <<input, matches>>

\* The end of the file.  (A line that strdup() fails for is left out, which is
\* to read a file without it.)
Loaded ==
  /\ phase = "load"
  /\ phase' = "type"
  /\ UNCHANGED <<list, max_size, input, matches>>

-----------------------------------------------------------------------------
(* The search *)

\* The string that starts with s: it ends at the first NUL.
CString(s) ==
  CHOOSE t \in Prefixes(s) : /\ NUL \notin Range(t)
                             /\ Len(t) < Len(s) => s[Len(t) + 1] = NUL

\* As long as input is not full the zero behind it ends it; then b does.
Needle(in, b) == CString(IF Len(in) < MAX_INPUT THEN in ELSE in \o b)

\* Lower case, and as much as fits buf with its zero.
s_tolower(line) ==
  [k \in 1..(IF Len(line) < MAX_INPUT - 1 THEN Len(line) ELSE MAX_INPUT - 1) |-> tolower[line[k]]]

\* strchr() of the string that starts behind place k; Len(hay) + 1 for NULL.
strchr(hay, k, c) ==
  LET found == {j \in k + 1..Len(hay) : hay[j] = c}
  IN  IF found = {} THEN Len(hay) + 1 ELSE CHOOSE j \in found : \A l \in found : j <= l

Mut_positional_match(hay, needle) ==
  IF Range(needle) \subseteq Range(hay) THEN Len(needle) ELSE 0

\* Each character of needle is looked for behind the one before; the first
\* counts, and so does each that is found right behind the one before.
positional_match(hay, needle) ==
  LET place[n \in 0..Len(needle)] ==
        IF n = 0 THEN 0
        ELSE IF place[n - 1] > Len(hay) THEN Len(hay) + 1
        ELSE strchr(hay, place[n - 1], needle[n])
      consec == {n \in 1..Len(needle) : n = 1 \/ place[n] = place[n - 1] + 1}
  IN  IF place[Len(needle)] > Len(hay) THEN 0 ELSE Cardinality(consec)

starts_with(hay, c) == hay # <<>> /\ hay[1] = c

Mut_Score(line, in, b) == positional_match(s_tolower(line), Needle(in, b))

\* 0, or what main() sorts by.
Score(line, in, b) ==
  LET hay == s_tolower(line)
      score == positional_match(hay, Needle(in, b))
  IN  IF score > 0 /\ starts_with(hay, in[1]) THEN score + 1 ELSE score

\* One turn of main()'s loop: the character in lower case is added to input,
\* and all of list is searched again.  qsort() leaves the order of equal
\* scores open.
Type ==
  /\ phase = "type"
  /\ \E c \in Typed : input' = Append(input, IF c = NUL THEN c ELSE tolower[c])
  /\ \E b \in [1..Len(list) -> Behind] :
       LET score == [n \in 1..Len(list) |-> Score(list[n], input', b[n])]
           hits  == {n \in 1..Len(list) : score[n] > 0}
       IN  \E order \in SetToSeqs(hits) :
             /\ \A k \in 1..Len(order) - 1 : score[order[k]] <= score[order[k + 1]]
             /\ matches' = [k \in 1..Len(order) |-> [score |-> score[order[k]], str |-> order[k]]]
  /\ phase' = IF Len(input') = MAX_INPUT THEN "done" ELSE "type"
  /\ UNCHANGED <<list, max_size>>

SearchNext == LoadLine \/ Loaded \/ Type

SearchSpec == SearchInit /\ [][SearchNext]_searching

-----------------------------------------------------------------------------

\* Every variable has its type, and list_construct() always has a cell for
\* the next line.
SearchTypeOK ==
  /\ phase \in {"load", "type", "done", "failed"}
  /\ list \in Seq(Lines)
  /\ max_size \in Nat /\ (phase # "failed" => Len(list) < max_size)
  /\ input \in Seq(DOMAIN tolower \cup {NUL}) /\ Len(input) <= MAX_INPUT
  /\ matches \in Seq([score : Nat, str : 1..Len(list)])

\* What input says, which is all of it unless a NUL was typed.
Terminated == Len(input) \in 1..MAX_INPUT - 1
Keyword == CString(input)

\* The reference for "every char should appear in hay in order".
AppearsIn(text, hay) ==
  \E place \in [1..Len(text) -> 1..Len(hay)] :
    /\ \A n \in 1..Len(text) : hay[place[n]] = text[n]
    /\ \A n \in 1..Len(text) - 1 : place[n] < place[n + 1]

\* The lines shown are those whose first MAX_INPUT - 1 characters have the
\* keyword in them in order, upper and lower case alike, each line once:
\* taking every character at its first place, as strchr() does, misses none.
MatchedExactly ==
  Terminated =>
    /\ {matches[k].str : k \in 1..Len(matches)} =
         {n \in 1..Len(list) : Keyword # <<>> /\ AppearsIn(Keyword, s_tolower(list[n]))}
    /\ \A k, l \in 1..Len(matches) : matches[k].str = matches[l].str => k = l

\* README.md: text that starts with the keyword is preferred.  main() gives a
\* point for the first character only; yet no line that starts with all of
\* the keyword is shown above (that is, behind) one that does not.
KeywordPreferred ==
  Terminated =>
    \A k \in 1..Len(matches) : \A l \in 1..k :
      IsPrefix(Keyword, s_tolower(list[matches[l].str]))
        => IsPrefix(Keyword, s_tolower(list[matches[k].str]))
=============================================================================
