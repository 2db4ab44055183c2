------------------------------ MODULE Content ------------------------------
(***************************************************************************)
(* The content library (mtgf/content.c, gflib/content.c): content_init     *)
(* loads a list of keys and files into a growing array and sorts it;       *)
(* content_get searches the array by bisection.  The worker threads of the *)
(* server search at the same time: the array does not change once main has *)
(* loaded it.                                                              *)
(*                                                                         *)
(* Keys are integers in the order of strcmp.  A descriptor is the number   *)
(* of the line whose file it refers to.                                    *)
(***************************************************************************)
EXTENDS Integers, Sequences, Functions

CONSTANTS
    Key,             \* the keys that occur in lists and requests
    Path,            \* the paths that occur in lists
    Openable,        \* the paths of files that can be opened for reading
    Chop(_),         \* a path without its last character
    List,            \* the lists of lines content_init may be given
    FirstCapacity,   \* the array's first capacity, 16 in the code
    Caller           \* the threads that call content_get

ASSUME KeyAssumption == Key \subseteq Int
ASSUME CapacityAssumption == FirstCapacity \in Nat \ {0}

(* A line of the list: its key and path, and whether it ends in a newline. *)
Line == [key : Key, path : Path, newline : BOOLEAN]

ASSUME ListAssumption == List \subseteq Seq(Line)

VARIABLES
    phase,            \* "load", "serve" or "exited"
    list,             \* the list content_init was given
    items, capacity,  \* the array: what it holds, and its room
    pc, key,          \* per caller: whether it searches, and for what
    lo, hi,           \* per caller: the bounds of its search
    result            \* per caller: what its last search returned

loading == <<phase, list, items, capacity>>
searching == <<pc, key, lo, hi, result>>
vars == <<loading, searching>>

nitems == Len(items)
Item == [fildes : Nat, key : Key]

Init ==
    /\ phase = "load"
    /\ list \in List
    /\ items = << >>
    /\ capacity = FirstCapacity
    /\ pc = [c \in Caller |-> "idle"]
    /\ key \in [Caller -> Key]
    /\ lo = [c \in Caller |-> 0]
    /\ hi = [c \in Caller |-> -1]
    /\ result = [c \in Caller |-> -1]

-----------------------------------------------------------------------------
(* content_init.  The code takes the last character off every line, be it  *)
(* a newline or not: a last line without one loses the end of its path.    *)
PathRead(line) == IF line.newline THEN line.path ELSE Chop(line.path)

(* Mutant: room is made only once the array has overflown.                 *)
LoadLineThenGrow ==
    LET line == list[nitems + 1]
    IN  /\ phase = "load" /\ nitems < Len(list)
        /\ PathRead(line) \in Openable
        /\ items' = Append(items, [fildes |-> nitems + 1, key |-> line.key])
        /\ capacity' = IF nitems + 1 > capacity THEN 2 * capacity ELSE capacity
        /\ UNCHANGED <<phase, list, searching>>

(* One turn of the loop: read a line into items[nitems], open its file,    *)
(* count it, and double the capacity when the array is full.  A descriptor *)
(* is the number of the line, also where a path without its last character *)
(* names another file.                                                     *)
LoadLine ==
    LET line == list[nitems + 1]
    IN  /\ phase = "load" /\ nitems < Len(list)
        /\ PathRead(line) \in Openable
        /\ items' = Append(items, [fildes |-> nitems + 1, key |-> line.key])
        /\ capacity' = IF nitems + 1 = capacity THEN 2 * capacity ELSE capacity
        /\ UNCHANGED <<phase, list, searching>>

(* A file of the list cannot be opened: the server ends.                   *)
LoadFails ==
    /\ phase = "load" /\ nitems < Len(list)
    /\ PathRead(list[nitems + 1]) \notin Openable
    /\ phase' = "exited"
    /\ UNCHANGED <<list, items, capacity, searching>>

Sorted(s) == \A i, j \in 1 .. Len(s) : i < j => s[i].key <= s[j].key

(* The end of the list: qsort rearranges the items into some order in      *)
(* which no key is greater than a later one.                               *)
SortItems ==
    /\ phase = "load" /\ nitems = Len(list)
    /\ \E p \in Bijection(1 .. nitems, 1 .. nitems) :
           items' = [i \in 1 .. nitems |-> items[p[i]]]
    /\ Sorted(items')
    /\ phase' = "serve"
    /\ UNCHANGED <<list, capacity, searching>>

-----------------------------------------------------------------------------
(* Mutant: the window reaches past the last item.                          *)
GetPastEnd(c) ==
    /\ phase = "serve" /\ pc[c] = "idle"
    /\ pc' = [pc EXCEPT ![c] = "search"]
    /\ \E k \in Key : key' = [key EXCEPT ![c] = k]
    /\ lo' = [lo EXCEPT ![c] = 0]
    /\ hi' = [hi EXCEPT ![c] = nitems]
    /\ result' = [result EXCEPT ![c] = -1]
    /\ UNCHANGED loading

(* content_get: the window is the whole array.                             *)
Get(c) ==
    /\ phase = "serve" /\ pc[c] = "idle"
    /\ pc' = [pc EXCEPT ![c] = "search"]
    /\ \E k \in Key : key' = [key EXCEPT ![c] = k]
    /\ lo' = [lo EXCEPT ![c] = 0]
    /\ hi' = [hi EXCEPT ![c] = nitems - 1]
    /\ result' = [result EXCEPT ![c] = -1]
    /\ UNCHANGED loading

Mid(c) == lo[c] + (hi[c] - lo[c]) \div 2
(* The array of the code starts at 0, the sequence at 1.                   *)
KeyAtMid(c) == items[Mid(c) + 1].key

(* Mutant: mid itself stays in the window.                                 *)
GoLeftToMid(c) ==
    /\ pc[c] = "search" /\ lo[c] <= hi[c] /\ key[c] < KeyAtMid(c)
    /\ hi' = [hi EXCEPT ![c] = Mid(c)]
    /\ UNCHANGED <<loading, pc, key, lo, result>>

GoLeft(c) ==
    /\ pc[c] = "search" /\ lo[c] <= hi[c] /\ key[c] < KeyAtMid(c)
    /\ hi' = [hi EXCEPT ![c] = Mid(c) - 1]
    /\ UNCHANGED <<loading, pc, key, lo, result>>

(* Mutant: one item too many leaves the window.                            *)
GoRightTooFar(c) ==
    /\ pc[c] = "search" /\ lo[c] <= hi[c] /\ key[c] > KeyAtMid(c)
    /\ lo' = [lo EXCEPT ![c] = Mid(c) + 2]
    /\ UNCHANGED <<loading, pc, key, hi, result>>

GoRight(c) ==
    /\ pc[c] = "search" /\ lo[c] <= hi[c] /\ key[c] > KeyAtMid(c)
    /\ lo' = [lo EXCEPT ![c] = Mid(c) + 1]
    /\ UNCHANGED <<loading, pc, key, hi, result>>

(* Mutant: the position found is returned, not the descriptor there.       *)
FoundPosition(c) ==
    /\ pc[c] = "search" /\ lo[c] <= hi[c] /\ key[c] = KeyAtMid(c)
    /\ result' = [result EXCEPT ![c] = Mid(c) + 1]
    /\ pc' = [pc EXCEPT ![c] = "returned"]
    /\ UNCHANGED <<loading, key, lo, hi>>

Found(c) ==
    /\ pc[c] = "search" /\ lo[c] <= hi[c] /\ key[c] = KeyAtMid(c)
    /\ result' = [result EXCEPT ![c] = items[Mid(c) + 1].fildes]
    /\ pc' = [pc EXCEPT ![c] = "returned"]
    /\ UNCHANGED <<loading, key, lo, hi>>

NotFound(c) ==
    /\ pc[c] = "search" /\ lo[c] > hi[c]
    /\ result' = [result EXCEPT ![c] = -1]
    /\ pc' = [pc EXCEPT ![c] = "returned"]
    /\ UNCHANGED <<loading, key, lo, hi>>

(* The caller, which may call again.                                       *)
UseResult(c) ==
    /\ pc[c] = "returned"
    /\ pc' = [pc EXCEPT ![c] = "idle"]
    /\ UNCHANGED <<loading, key, lo, hi, result>>

Probe(c) == GoLeft(c) \/ GoRight(c) \/ Found(c) \/ NotFound(c)

Exited == phase = "exited" /\ UNCHANGED vars

Next ==
    \/ LoadLine \/ LoadFails \/ SortItems \/ Exited
    \/ \E c \in Caller : Get(c) \/ Probe(c) \/ UseResult(c)

(* The threads are scheduled fairly, and a call contains no waiting.       *)
Spec == Init /\ [][Next]_vars /\ \A c \in Caller : WF_vars(Probe(c))

-----------------------------------------------------------------------------
(* Every variable stays in its type: in particular a search never probes   *)
(* outside the array.                                                      *)
TypeOK ==
    /\ phase \in {"load", "serve", "exited"}
    /\ list \in Seq(Line)
    /\ items \in Seq(Item)
    /\ capacity \in Nat
    /\ pc \in [Caller -> {"idle", "search", "returned"}]
    /\ key \in [Caller -> Key]
    /\ lo \in [Caller -> Nat]
    /\ hi \in [Caller -> Int]
    /\ result \in [Caller -> Int]
    /\ \A c \in Caller : pc[c] = "search" => lo[c] <= nitems /\ hi[c] < nitems

(* While the list is loaded, items[nitems] lies in the array: fgets writes *)
(* there even to find that the list has ended.                             *)
RoomForNextLine == phase = "load" => nitems < capacity

(* The comment on the loop of content_get: the key is in items[lo..hi] or  *)
(* not present.                                                            *)
KeyInWindow ==
    \A c \in Caller : pc[c] = "search" =>
        \A i \in 1 .. nitems : items[i].key = key[c] => i - 1 \in lo[c] .. hi[c]

(* content.h: content_get returns the descriptor of a file the list gives  *)
(* for the key, and -1 only if the list does not have the key.             *)
AnswerIsRight ==
    \A c \in Caller : pc[c] = "returned" =>
        IF result[c] = -1
        THEN \A i \in 1 .. Len(list) : list[i].key # key[c]
        ELSE result[c] \in 1 .. Len(list) /\ list[result[c]].key = key[c]

(* Every call of content_get returns, whatever the other callers do.       *)
EveryGetReturns == \A c \in Caller : pc[c] = "search" ~> pc[c] = "returned"
=============================================================================
