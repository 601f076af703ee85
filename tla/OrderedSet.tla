----------------------------- MODULE OrderedSet -----------------------------
(***************************************************************************)
(* An ordered set is represented by its order: the reflexive relation of   *)
(* the pairs <<x, y>> in which x comes no later than y.  The queue keeps    *)
(* its lists (a JavaScript array of distinct tasks, a Map in insertion     *)
(* order) in this form: removing, appending and moving elements are set    *)
(* expressions, so nothing about them needs recursion or induction.        *)
(***************************************************************************)
EXTENDS Integers, FiniteSets

Elems(o) == {p[1] : p \in o}

EmptyOrder == {}

IsOrder(o, S) ==
    /\ o \subseteq S \X S
    /\ \A x, y \in Elems(o) : <<x, y>> \in o \/ <<y, x>> \in o
    /\ \A x, y \in S : <<x, y>> \in o /\ <<y, x>> \in o => x = y
    /\ \A x, y, z \in S : <<x, y>> \in o /\ <<y, z>> \in o => <<x, z>> \in o
    /\ \A p \in o : <<p[2], p[2]>> \in o

(* o followed by the elements of the ordered set n.                        *)
Concat(o, n) == o \cup n \cup (Elems(o) \X Elems(n))

AddLast(o, x) == Concat(o, {<<x, x>>})

Without(o, S) == {p \in o : p[1] \notin S /\ p[2] \notin S}

Keep(o, S) == {p \in o : p[1] \in S /\ p[2] \in S}

Reversed(o) == {<<p[2], p[1]>> : p \in o}

(* The elements in S come first, each part in the order it had.            *)
ToFront(o, S) == Concat(Keep(o, S), Without(o, S))

(* The first k elements of S, in the order o.                              *)
FirstOf(o, S, k) ==
    {x \in S : Cardinality({y \in S : <<y, x>> \in o}) <= k}
=============================================================================
