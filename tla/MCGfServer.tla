----------------------------- MODULE MCGfServer -----------------------------
(* Requests of two prefix bytes, two bytes of path and two of marker, and  *)
(* the same in other forms, longer than the limit and than the array for a *)
(* path, or cut short.                                                     *)
EXTENDS GfServer

CONSTANTS a, b

Whole(form, p, size) == [form |-> form, path |-> p, size |-> size, sent |-> size]
Part(p, size, sent) == [form |-> "valid", path |-> p, size |-> size, sent |-> sent]

Good == {Whole("valid", p, 6) : p \in Path}
Bad == {Whole(form, a, 6) : form \in {"bad_path", "bad_scheme"}}
Long == {Whole(form, a, 30) : form \in Form}
Cut == {Part(b, 6, n) : n \in 0 .. 5}
AnyRequest == Good \union Bad \union Long \union Cut
GoodOrBad == Good \union Bad
=============================================================================
