----------------------------- MODULE MCDownload -----------------------------
(* Responses of each form.  Bodies of six bytes are longer than Skip, and  *)
(* take several recv; they may be cut at any point, go on for longer than  *)
(* announced, begin with white space and hold a zero byte.  Workloads:     *)
(* none, one path, which is used for every request, and two, of which one  *)
(* may be impossible to store.                                             *)
EXTENDS Download

CONSTANTS MaxLength, a, b, long, odd

Of(form, length, body) ==
    [form |-> form, length |-> length, body |-> body, blanks |-> 0, zero |-> 0]

Cut == {Of("OK", MaxLength, n) : n \in {0, 3}}
Binary == {[Of("OK", MaxLength, MaxLength) EXCEPT !.blanks = 1, !.zero = 6]}
Longer == {Of("OK", 0, 1), Of("OKAY", 5, 6)}
Others == {Of(form, 0, 0) : form \in {"OK", "FILE_NOT_FOUND", "ERRORS", "INVALID"}}
Accepted == {Of("loose", 1, 1), Of("garbage", 0, 1), Of("ERROR", 1, 1)}
AnyResponse == Cut \union Binary \union Longer \union Others \union Accepted

MCWorkload == {<< >>, <<a>>, <<a, b>>, <<a, long>>, <<odd>>}

Full == {Of("OK", MaxLength, MaxLength)}
=============================================================================
