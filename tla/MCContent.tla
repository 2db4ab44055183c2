----------------------------- MODULE MCContent -----------------------------
(* All lists of up to four lines over three keys: two lines make the array *)
(* of two grow, four make it grow twice, and keys may occur several times  *)
(* or not at all.  The last line of up to three may lack its newline or    *)
(* name a missing file.                                                    *)
EXTENDS Content, SequencesExt

CONSTANTS present, missing, c1, c2, MaxLines

MCKey == 0 .. 2
MCPath == {present, missing}
MCChop(path) == missing

Lines(n) == [1 .. n -> [key : MCKey, path : {present}, newline : {TRUE}]]
MCList ==
    UNION {Lines(n) : n \in 0 .. MaxLines}
    \union {Append(s, last) : s \in UNION {Lines(n) : n \in 0 .. 2},
                              last \in [key : {0}, path : MCPath, newline : BOOLEAN]}
=============================================================================
