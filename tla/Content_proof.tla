--------------------------- MODULE Content_proof ---------------------------
(***************************************************************************)
(* The invariants of Content, for every list, capacity and set of callers. *)
(*                                                                         *)
(* The argument: while the list is loaded, items is the part of the list   *)
(* read so far (Loading), which fits the array with room to spare; qsort   *)
(* keeps the items and puts them in order (Serving); and the window of a   *)
(* search only ever loses positions whose key, by that order, cannot be    *)
(* the one searched for.  When the window is empty the key is not there.   *)
(***************************************************************************)
EXTENDS Content, SequenceTheorems, TLAPS

(* What the array holds while the list is loaded.                          *)
Loading == phase = "load" =>
    /\ nitems <= Len(list)
    /\ \A i \in 1 .. nitems : items[i].fildes = i /\ items[i].key = list[i].key
    /\ \A c \in Caller : pc[c] = "idle"

(* What it holds when it is searched.                                      *)
Serving == phase = "serve" =>
    /\ Sorted(items)
    /\ \A i \in 1 .. nitems :
           /\ items[i].fildes \in 1 .. Len(list)
           /\ list[items[i].fildes].key = items[i].key
    /\ \A j \in 1 .. Len(list) :
           \E i \in 1 .. nitems : items[i].key = list[j].key

(* Nobody searches an array that is not ready.                             *)
IdleOutsideServing == phase # "serve" => \A c \in Caller : pc[c] = "idle"

IInv == TypeOK /\ Loading /\ Serving /\ IdleOutsideServing
            /\ RoomForNextLine /\ KeyInWindow /\ AnswerIsRight

(* The position content_get probes lies in its window.                     *)
LEMMA MidInWindow ==
    ASSUME NEW l \in Nat, NEW h \in Int, l <= h
    PROVE  /\ l + (h - l) \div 2 \in l .. h
           /\ l + (h - l) \div 2 \in Nat
<1>1. (h - l) \div 2 \in 0 .. (h - l)
  OBVIOUS
<1> QED BY <1>1

(* The loading of the list begins with everything in place.                *)
LEMMA InitInv == Init => IInv
<1> SUFFICES ASSUME Init PROVE IInv
  OBVIOUS
<1> USE DEF Init
<1>1. /\ items = << >> /\ nitems = 0 /\ list \in Seq(Line)
      /\ items \in Seq(Item)
  BY ListAssumption, EmptySeq DEF nitems
<1>2. Len(list) \in Nat
  BY <1>1, LenProperties
<1>3. TypeOK
  BY <1>1, CapacityAssumption DEF TypeOK
<1>4. Loading /\ Serving /\ IdleOutsideServing /\ RoomForNextLine
  BY <1>1, <1>2, CapacityAssumption
     DEF Loading, Serving, IdleOutsideServing, RoomForNextLine
<1>5. KeyInWindow /\ AnswerIsRight
  BY DEF KeyInWindow, AnswerIsRight
<1> QED BY <1>3, <1>4, <1>5 DEF IInv

(* One more line is loaded: the array has grown in time for the next one.  *)
LEMMA LoadLineStep == IInv /\ LoadLine => IInv'
<1> SUFFICES ASSUME IInv, LoadLine PROVE IInv'
  OBVIOUS
<1> DEFINE line == list[nitems + 1]
<1> DEFINE new == [fildes |-> nitems + 1, key |-> line.key]
<1>1. /\ phase = "load" /\ nitems < Len(list)
      /\ items' = Append(items, new)
      /\ UNCHANGED <<phase, list, pc, key, lo, hi, result>>
      /\ capacity' = IF nitems + 1 = capacity THEN 2 * capacity ELSE capacity
  BY DEF LoadLine, searching
<1>2. /\ items \in Seq(Item) /\ list \in Seq(Line)
      /\ nitems \in Nat /\ Len(list) \in Nat
  BY LenProperties DEF IInv, TypeOK, nitems
<1>3. line \in Line
  <2>1. nitems + 1 \in 1 .. Len(list)
    BY <1>1, <1>2
  <2> QED BY <2>1, <1>2, ElementOfSeq
<1>4. new \in Item
  BY <1>2, <1>3 DEF Item, Line
<1>5. /\ items' \in Seq(Item) /\ nitems' = nitems + 1
      /\ \A i \in 1 .. nitems : items'[i] = items[i]
      /\ items'[nitems + 1] = new
  BY <1>1, <1>2, <1>4, AppendProperties DEF nitems
<1>6. \A c \in Caller : pc[c] = "idle" /\ pc'[c] = "idle"
  BY <1>1 DEF IInv, IdleOutsideServing
<1>7. TypeOK'
  BY <1>1, <1>2, <1>5, <1>6 DEF IInv, TypeOK
<1>8. Loading'
  <2>1. \A i \in 1 .. nitems' :
            items'[i].fildes = i /\ items'[i].key = list'[i].key
    <3> SUFFICES ASSUME NEW i \in 1 .. nitems'
                 PROVE  items'[i].fildes = i /\ items'[i].key = list'[i].key
      OBVIOUS
    <3>1. CASE i \in 1 .. nitems
      BY <3>1, <1>1, <1>5 DEF IInv, Loading
    <3>2. CASE i = nitems + 1
      <4>1. items'[i] = [fildes |-> nitems + 1, key |-> list[nitems + 1].key]
        BY <3>2, <1>5
      <4>2. items'[i].fildes = nitems + 1 /\ items'[i].key = list[nitems + 1].key
        BY <4>1
      <4> QED BY <4>2, <3>2, <1>1
    <3> QED BY <3>1, <3>2, <1>2, <1>5
  <2>2. nitems' <= Len(list')
    BY <1>1, <1>2, <1>5
  <2> QED BY <2>1, <2>2, <1>6 DEF Loading
<1>9. RoomForNextLine'
  BY <1>1, <1>2, <1>5 DEF IInv, RoomForNextLine, TypeOK
<1>10. Serving' /\ IdleOutsideServing' /\ KeyInWindow' /\ AnswerIsRight'
  BY <1>1, <1>6 DEF Serving, IdleOutsideServing, KeyInWindow, AnswerIsRight
<1> QED BY <1>7, <1>8, <1>9, <1>10 DEF IInv

(* qsort loses no item and makes none up.                                  *)
LEMMA SortItemsStep == IInv /\ SortItems => IInv'
<1> SUFFICES ASSUME IInv, SortItems PROVE IInv'
  OBVIOUS
<1>1. PICK p \in Bijection(1 .. nitems, 1 .. nitems) :
          items' = [i \in 1 .. nitems |-> items[p[i]]]
  BY DEF SortItems
<1>2. /\ phase = "load" /\ phase' = "serve" /\ nitems = Len(list)
      /\ Sorted(items')
      /\ UNCHANGED <<list, capacity, pc, key, lo, hi, result>>
  BY DEF SortItems, searching
<1>3. /\ items \in Seq(Item) /\ list \in Seq(Line) /\ nitems \in Nat
      /\ \A i \in 1 .. nitems : items[i] \in Item
  BY LenProperties, ElementOfSeq DEF IInv, TypeOK, nitems
<1>4. /\ \A i \in 1 .. nitems : p[i] \in 1 .. nitems
      /\ \A j \in 1 .. nitems : \E i \in 1 .. nitems : p[i] = j
  BY <1>1 DEF Bijection, Injection, Surjection
<1>5. items' \in [1 .. nitems -> Item]
  BY <1>1, <1>3, <1>4
<1>6. items' \in Seq(Item) /\ nitems' = nitems
  BY <1>3, <1>5 DEF nitems
<1>7. \A i \in 1 .. nitems :
          items[i].fildes = i /\ items[i].key = list[i].key
  BY <1>2 DEF IInv, Loading
<1>8. \A c \in Caller : pc'[c] = "idle"
  BY <1>2 DEF IInv, IdleOutsideServing
<1>9. TypeOK'
  BY <1>2, <1>6, <1>8 DEF IInv, TypeOK
<1>10. Serving'
  <2>1. \A i \in 1 .. nitems : items'[i] = items[p[i]]
    BY <1>1
  <2>2. ASSUME NEW i \in 1 .. nitems
        PROVE  /\ items'[i].fildes \in 1 .. Len(list')
               /\ list'[items'[i].fildes].key = items'[i].key
    <3>1. p[i] \in 1 .. nitems
      BY <1>4
    <3>2. items'[i].fildes = p[i] /\ items'[i].key = list[p[i]].key
      BY <3>1, <2>1, <1>7
    <3> QED BY <3>1, <3>2, <1>2
  <2>3. ASSUME NEW j \in 1 .. Len(list')
        PROVE  \E i \in 1 .. nitems : items'[i].key = list'[j].key
    <3>1. PICK i \in 1 .. nitems : p[i] = j
      BY <1>2, <1>4
    <3> QED BY <3>1, <2>1, <1>2, <1>7
  <2> QED BY <2>2, <2>3, <1>2, <1>6 DEF Serving
<1>11. Loading' /\ RoomForNextLine' /\ IdleOutsideServing'
  BY <1>2 DEF Loading, RoomForNextLine, IdleOutsideServing
<1>12. KeyInWindow' /\ AnswerIsRight'
  BY <1>8 DEF KeyInWindow, AnswerIsRight
<1> QED BY <1>9, <1>10, <1>11, <1>12 DEF IInv

(* A search begins with the whole array as its window.                     *)
LEMMA GetStep == IInv /\ (\E c \in Caller : Get(c)) => IInv'
<1> SUFFICES ASSUME IInv, NEW c \in Caller, Get(c) PROVE IInv'
  OBVIOUS
<1>1. /\ phase = "serve" /\ UNCHANGED <<phase, list, items, capacity>>
      /\ nitems' = nitems
      /\ pc' = [pc EXCEPT ![c] = "search"]
      /\ lo' = [lo EXCEPT ![c] = 0]
      /\ hi' = [hi EXCEPT ![c] = nitems - 1]
      /\ result' = [result EXCEPT ![c] = -1]
  BY DEF Get, loading, nitems
<1>2. PICK k \in Key : key' = [key EXCEPT ![c] = k]
  BY DEF Get
<1>3. nitems \in Nat
  BY LenProperties DEF IInv, TypeOK, nitems
<1>4. TypeOK'
  BY <1>1, <1>2, <1>3 DEF IInv, TypeOK
<1>5. KeyInWindow'
  <2>1. ASSUME NEW d \in Caller, pc'[d] = "search",
               NEW i \in 1 .. nitems', items'[i].key = key'[d]
        PROVE  i - 1 \in lo'[d] .. hi'[d]
    <3>1. CASE d = c
      BY <3>1, <1>1, <1>3 DEF IInv, TypeOK
    <3>2. CASE d # c
      BY <3>2, <2>1, <1>1, <1>2 DEF IInv, TypeOK, KeyInWindow
    <3> QED BY <3>1, <3>2
  <2> QED BY <2>1 DEF KeyInWindow
<1>6. AnswerIsRight'
  BY <1>1, <1>2 DEF IInv, TypeOK, AnswerIsRight
<1>7. Loading' /\ Serving' /\ IdleOutsideServing' /\ RoomForNextLine'
  BY <1>1 DEF IInv, Loading, Serving, IdleOutsideServing, RoomForNextLine
<1> QED BY <1>4, <1>5, <1>6, <1>7 DEF IInv

(* The half of the window that is dropped holds only keys on the wrong     *)
(* side of the one at mid.                                                 *)
LEMMA ProbeStep == IInv /\ (\E c \in Caller : Probe(c)) => IInv'
<1> SUFFICES ASSUME IInv, NEW c \in Caller, Probe(c) PROVE IInv'
  OBVIOUS
<1>1. /\ pc[c] = "search" /\ UNCHANGED <<phase, list, items, capacity, key>>
      /\ nitems' = nitems
  BY DEF Probe, GoLeft, GoRight, Found, NotFound, loading, nitems
<1>2. /\ items \in Seq(Item) /\ nitems \in Nat
      /\ \A i \in 1 .. nitems : items[i] \in Item /\ items[i].key \in Int
  <2>1. /\ items \in Seq(Item) /\ nitems \in Nat
        /\ \A i \in 1 .. nitems : items[i] \in Item
    BY LenProperties, ElementOfSeq DEF IInv, TypeOK, nitems
  <2> QED BY <2>1, KeyAssumption DEF Item
<1>3. /\ lo[c] \in Nat /\ hi[c] \in Int /\ key[c] \in Int
      /\ lo[c] <= nitems /\ hi[c] < nitems
  BY <1>1, KeyAssumption DEF IInv, TypeOK
<1>4. /\ phase = "serve" /\ Sorted(items)
      /\ \A i \in 1 .. nitems :
             /\ items[i].fildes \in 1 .. Len(list)
             /\ list[items[i].fildes].key = items[i].key
      /\ \A j \in 1 .. Len(list) :
             \E i \in 1 .. nitems : items[i].key = list[j].key
  BY <1>1 DEF IInv, Serving, IdleOutsideServing
<1>5. ASSUME lo[c] <= hi[c]
      PROVE  /\ Mid(c) \in lo[c] .. hi[c] /\ Mid(c) \in Nat
             /\ Mid(c) + 1 \in 1 .. nitems
  BY <1>5, <1>2, <1>3, MidInWindow DEF Mid
<1>6. Loading' /\ Serving' /\ IdleOutsideServing' /\ RoomForNextLine'
  BY <1>1, <1>4 DEF IInv, Loading, Serving, IdleOutsideServing, RoomForNextLine
<1>7. \A i, j \in 1 .. nitems : i < j => items[i].key <= items[j].key
  BY <1>4 DEF Sorted, nitems
<1>8. CASE GoLeft(c)
  <2>1. /\ lo[c] <= hi[c] /\ key[c] < items[Mid(c) + 1].key
        /\ hi' = [hi EXCEPT ![c] = Mid(c) - 1]
        /\ UNCHANGED <<pc, lo, result>>
    BY <1>8 DEF GoLeft, KeyAtMid
  <2>2. TypeOK'
    BY <2>1, <1>1, <1>2, <1>3, <1>5 DEF IInv, TypeOK
  <2>3. ASSUME NEW i \in 1 .. nitems, items[i].key = key[c]
        PROVE  i - 1 \in lo[c] .. Mid(c) - 1
    <3>1. i - 1 \in lo[c] .. hi[c]
      BY <2>3, <1>1 DEF IInv, KeyInWindow
    <3>2. ~ (Mid(c) + 1 < i) /\ i # Mid(c) + 1
      BY <2>1, <2>3, <1>2, <1>3, <1>5, <1>7
    <3> QED BY <3>1, <3>2, <2>1, <1>2, <1>3, <1>5
  <2>4. KeyInWindow'
    BY <2>1, <2>3, <1>1 DEF IInv, TypeOK, KeyInWindow
  <2>5. AnswerIsRight'
    BY <2>1, <1>1 DEF IInv, AnswerIsRight
  <2> QED BY <2>2, <2>4, <2>5, <1>6 DEF IInv
<1>9. CASE GoRight(c)
  <2>1. /\ lo[c] <= hi[c] /\ key[c] > items[Mid(c) + 1].key
        /\ lo' = [lo EXCEPT ![c] = Mid(c) + 1]
        /\ UNCHANGED <<pc, hi, result>>
    BY <1>9 DEF GoRight, KeyAtMid
  <2>2. TypeOK'
    BY <2>1, <1>1, <1>2, <1>3, <1>5 DEF IInv, TypeOK
  <2>3. ASSUME NEW i \in 1 .. nitems, items[i].key = key[c]
        PROVE  i - 1 \in Mid(c) + 1 .. hi[c]
    <3>1. i - 1 \in lo[c] .. hi[c]
      BY <2>3, <1>1 DEF IInv, KeyInWindow
    <3>2. ~ (i < Mid(c) + 1) /\ i # Mid(c) + 1
      BY <2>1, <2>3, <1>2, <1>3, <1>5, <1>7
    <3> QED BY <3>1, <3>2, <2>1, <1>2, <1>3, <1>5
  <2>4. KeyInWindow'
    BY <2>1, <2>3, <1>1 DEF IInv, TypeOK, KeyInWindow
  <2>5. AnswerIsRight'
    BY <2>1, <1>1 DEF IInv, AnswerIsRight
  <2> QED BY <2>2, <2>4, <2>5, <1>6 DEF IInv
<1>10. CASE Found(c)
  <2>1. /\ lo[c] <= hi[c] /\ key[c] = items[Mid(c) + 1].key
        /\ result' = [result EXCEPT ![c] = items[Mid(c) + 1].fildes]
        /\ pc' = [pc EXCEPT ![c] = "returned"]
        /\ UNCHANGED <<lo, hi>>
    BY <1>10 DEF Found, KeyAtMid
  <2>2. /\ items[Mid(c) + 1].fildes \in 1 .. Len(list)
        /\ list[items[Mid(c) + 1].fildes].key = key[c]
    BY <2>1, <1>4, <1>5
  <2>3. Len(list) \in Nat
    BY LenProperties DEF IInv, TypeOK
  <2>4. TypeOK'
    BY <2>1, <2>2, <2>3, <1>1 DEF IInv, TypeOK
  <2>5. KeyInWindow'
    BY <2>1, <1>1 DEF IInv, TypeOK, KeyInWindow
  <2>6. AnswerIsRight'
    <3>1. ASSUME NEW d \in Caller, pc'[d] = "returned"
          PROVE  IF result'[d] = -1
                 THEN \A i \in 1 .. Len(list) : list[i].key # key[d]
                 ELSE result'[d] \in 1 .. Len(list)
                      /\ list[result'[d]].key = key[d]
      <4>1. CASE d = c
        BY <4>1, <2>1, <2>2, <2>3 DEF IInv, TypeOK
      <4>2. CASE d # c
        BY <4>2, <3>1, <2>1 DEF IInv, TypeOK, AnswerIsRight
      <4> QED BY <4>1, <4>2
    <3> QED BY <3>1, <1>1 DEF AnswerIsRight
  <2> QED BY <2>4, <2>5, <2>6, <1>6 DEF IInv
<1>11. CASE NotFound(c)
  <2>1. /\ lo[c] > hi[c]
        /\ result' = [result EXCEPT ![c] = -1]
        /\ pc' = [pc EXCEPT ![c] = "returned"]
        /\ UNCHANGED <<lo, hi>>
    BY <1>11 DEF NotFound
  <2>2. ASSUME NEW i \in 1 .. nitems PROVE items[i].key # key[c]
    BY <2>1, <1>1, <1>2, <1>3 DEF IInv, KeyInWindow
  <2>3. \A j \in 1 .. Len(list) : list[j].key # key[c]
    BY <2>2, <1>4
  <2>4. TypeOK'
    BY <2>1, <1>1 DEF IInv, TypeOK
  <2>5. KeyInWindow'
    BY <2>1, <1>1 DEF IInv, TypeOK, KeyInWindow
  <2>6. AnswerIsRight'
    BY <2>1, <2>3, <1>1 DEF IInv, TypeOK, AnswerIsRight
  <2> QED BY <2>4, <2>5, <2>6, <1>6 DEF IInv
<1> QED BY <1>8, <1>9, <1>10, <1>11 DEF Probe

(* Every step keeps the invariant.                                         *)
LEMMA NextInv == IInv /\ [Next]_vars => IInv'
<1> SUFFICES ASSUME IInv, [Next]_vars PROVE IInv'
  OBVIOUS
<1> USE DEF IInv, TypeOK, Loading, Serving, IdleOutsideServing,
            RoomForNextLine, KeyInWindow, AnswerIsRight, nitems
<1>1. CASE UNCHANGED vars
  BY <1>1 DEF vars, loading, searching
<1>2. CASE LoadFails
  BY <1>2 DEF LoadFails, searching
<1>3. ASSUME NEW c \in Caller, UseResult(c) PROVE IInv'
  BY <1>3 DEF UseResult, loading
<1>4. CASE Exited
  BY <1>1, <1>4 DEF Exited
<1> QED
  BY <1>1, <1>2, <1>3, <1>4, LoadLineStep, SortItemsStep, GetStep, ProbeStep
     DEF Next

(* The invariant holds in every reachable state.                           *)
LEMMA Invariance == Spec => []IInv
BY InitInv, NextInv, PTL DEF Spec

(* The variables of content.c keep their types, and no search leaves the   *)
(* array.                                                                  *)
THEOREM Typing == Spec => []TypeOK
<1>1. IInv => TypeOK
  BY DEF IInv
<1> QED BY <1>1, Invariance, PTL

(* content_init always has room for the line fgets writes next.            *)
THEOREM RoomToLoad == Spec => []RoomForNextLine
<1>1. IInv => RoomForNextLine
  BY DEF IInv
<1> QED BY <1>1, Invariance, PTL

(* The comment on the loop of content_get is its invariant.                *)
THEOREM Window == Spec => []KeyInWindow
<1>1. IInv => KeyInWindow
  BY DEF IInv
<1> QED BY <1>1, Invariance, PTL

(* content_get answers as content.h promises.                              *)
THEOREM Answers == Spec => []AnswerIsRight
<1>1. IInv => AnswerIsRight
  BY DEF IInv
<1> QED BY <1>1, Invariance, PTL
=============================================================================
