---------------------- MODULE DownloadTaskQueueProofs ----------------------
(***************************************************************************)
(* Proofs about DownloadTaskQueue, for any number of files, groups, scopes *)
(* and slots.                                                              *)
(*                                                                         *)
(* Most handlers compute a queue q and phases ph and end in processNext.   *)
(* Prepared(q, ph) says what they have to leave for it: the proof of an    *)
(* action establishes Prepared, and what processNext makes of it is proved *)
(* once, in Scheduling.                                                    *)
(***************************************************************************)
EXTENDS DownloadTaskQueue, FunctionTheorems, FiniteSetTheorems, TLAPS

-----------------------------------------------------------------------------
(* The ordered sets the queue is made of: each operation yields an ordered *)
(* set again, and its elements are the expected ones; the first k elements *)
(* of a finite part are k, or all of it.                                   *)

(* An element of an order is exactly what stands in it, reflexively.       *)
LEMMA ElemsOfOrder ==
    ASSUME NEW T, NEW o, IsOrder(o, T)
    PROVE  /\ Elems(o) \subseteq T
           /\ \A x : x \in Elems(o) <=> <<x, x>> \in o
           /\ \A p \in o : p = <<p[1], p[2]>> /\ p[1] \in Elems(o) /\ p[2] \in Elems(o)
<1>0. o \subseteq T \X T
    BY DEF IsOrder
<1>1. \A p \in o : p = <<p[1], p[2]>> /\ p[1] \in T /\ p[2] \in T
    BY <1>0
<1>2. \A p \in o : p[1] \in Elems(o)
    BY DEF Elems
<1>3. \A x : <<x, x>> \in o => x \in Elems(o)
    BY <1>2
<1>4. \A x \in Elems(o) : x \in T /\ <<x, x>> \in o
    <2> TAKE x \in Elems(o)
    <2>1. PICK p \in o : x = p[1]
        BY DEF Elems
    <2>2. <<x, x>> \in o
        BY DEF IsOrder
    <2> QED BY <1>1, <2>1, <2>2
<1>5. \A p \in o : <<p[2], p[2]>> \in o
    BY DEF IsOrder
<1>6. \A p \in o : p[2] \in Elems(o)
    BY <1>3, <1>5
<1> QED BY <1>1, <1>2, <1>3, <1>4, <1>6

(* Removing elements.                                                      *)
LEMMA WithoutIsOrder ==
    ASSUME NEW T, NEW o, IsOrder(o, T), NEW S
    PROVE  IsOrder(Without(o, S), T) /\ Elems(Without(o, S)) = Elems(o) \ S
<1> DEFINE w == Without(o, S)
<1>1. \A x, y : <<x, y>> \in w <=> <<x, y>> \in o /\ x \notin S /\ y \notin S
    BY DEF Without
<1>2. w \subseteq o
    BY DEF Without
<1>3. Elems(w) = Elems(o) \ S
    <2>1. ASSUME NEW x \in Elems(w) PROVE x \in Elems(o) \ S
        BY <2>1, ElemsOfOrder DEF Without, Elems
    <2>2. ASSUME NEW x \in Elems(o) \ S PROVE x \in Elems(w)
        <3>1. <<x, x>> \in w
            BY <1>1, ElemsOfOrder
        <3> QED BY <3>1 DEF Elems
    <2> QED BY <2>1, <2>2
<1>4. \A p \in w : p = <<p[1], p[2]>> /\ p[2] \notin S /\ <<p[2], p[2]>> \in o
    BY ElemsOfOrder DEF Without
<1>5. \A p \in w : <<p[2], p[2]>> \in w
    BY <1>1, <1>4
<1> QED BY <1>1, <1>2, <1>3, <1>5 DEF IsOrder

(* Keeping elements.                                                       *)
LEMMA KeepIsOrder ==
    ASSUME NEW T, NEW o, IsOrder(o, T), NEW S
    PROVE  IsOrder(Keep(o, S), T) /\ Elems(Keep(o, S)) = Elems(o) \cap S
<1>1. Keep(o, S) = Without(o, Elems(o) \ S)
    BY ElemsOfOrder DEF Keep, Without
<1> QED BY <1>1, WithoutIsOrder

(* Reversing.                                                              *)
LEMMA ReversedIsOrder ==
    ASSUME NEW T, NEW o, IsOrder(o, T)
    PROVE  IsOrder(Reversed(o), T) /\ Elems(Reversed(o)) = Elems(o)
<1> DEFINE r == Reversed(o)
<1>1. \A x, y : <<x, y>> \in r <=> <<y, x>> \in o
    <2> TAKE x, y
    <2>1. <<y, x>> \in o => <<x, y>> \in r
        BY DEF Reversed
    <2>2. ASSUME <<x, y>> \in r PROVE <<y, x>> \in o
        <3>1. PICK p \in o : <<x, y>> = <<p[2], p[1]>>
            BY <2>2 DEF Reversed
        <3>2. p = <<y, x>>
            BY <3>1, ElemsOfOrder
        <3> QED BY <3>2
    <2> QED BY <2>1, <2>2
<1>2. \A p \in r : p = <<p[1], p[2]>> /\ p[1] \in Elems(o) /\ p[2] \in Elems(o)
    BY ElemsOfOrder DEF Reversed
<1>3. Elems(r) = Elems(o)
    <2>1. Elems(r) \subseteq Elems(o)
        BY <1>2 DEF Elems
    <2>2. ASSUME NEW x \in Elems(o) PROVE x \in Elems(r)
        <3>1. <<x, x>> \in r
            BY <1>1, ElemsOfOrder
        <3> QED BY <3>1 DEF Elems
    <2> QED BY <2>1, <2>2
<1>4. r \subseteq T \X T
    BY <1>2, ElemsOfOrder
<1>5. \A p \in r : <<p[2], p[2]>> \in r
    BY <1>1, <1>2, ElemsOfOrder
<1> QED BY <1>1, <1>3, <1>4, <1>5 DEF IsOrder

(* One element is ordered.                                                 *)
LEMMA SingleIsOrder ==
    ASSUME NEW T, NEW x \in T
    PROVE  IsOrder({<<x, x>>}, T) /\ Elems({<<x, x>>}) = {x}
BY DEF IsOrder, Elems

(* Putting one order after another that shares no element with it.         *)
LEMMA ConcatIsOrder ==
    ASSUME NEW T, NEW o, NEW n, IsOrder(o, T), IsOrder(n, T),
           Elems(o) \cap Elems(n) = {}
    PROVE  IsOrder(Concat(o, n), T) /\ Elems(Concat(o, n)) = Elems(o) \cup Elems(n)
<1> DEFINE c == Concat(o, n)
<1>1. \A x, y : <<x, y>> \in c <=> \/ <<x, y>> \in o
                                   \/ <<x, y>> \in n
                                   \/ x \in Elems(o) /\ y \in Elems(n)
    BY DEF Concat
<1>2. c \subseteq T \X T
    <2>1. o \subseteq T \X T /\ n \subseteq T \X T
        BY DEF IsOrder
    <2>2. Elems(o) \subseteq T /\ Elems(n) \subseteq T
        BY ElemsOfOrder
    <2> QED BY <2>1, <2>2 DEF Concat
<1>3. Elems(c) = Elems(o) \cup Elems(n)
    <2>1. ASSUME NEW x \in Elems(c) PROVE x \in Elems(o) \cup Elems(n)
        <3>1. PICK p \in c : x = p[1]
            BY DEF Elems
        <3> QED BY <3>1, ElemsOfOrder DEF Concat
    <2>2. ASSUME NEW x \in Elems(o) \cup Elems(n) PROVE x \in Elems(c)
        <3>1. <<x, x>> \in c
            BY <1>1, ElemsOfOrder
        <3> QED BY <3>1 DEF Elems
    <2> QED BY <2>1, <2>2
<1>4. \A x, y : /\ <<x, y>> \in o => x \in Elems(o) /\ y \in Elems(o)
                /\ <<x, y>> \in n => x \in Elems(n) /\ y \in Elems(n)
    BY ElemsOfOrder
<1>5. \A x, y \in Elems(c) : <<x, y>> \in c \/ <<y, x>> \in c
    BY <1>1, <1>3 DEF IsOrder
<1>6. \A x, y \in T : <<x, y>> \in c /\ <<y, x>> \in c => x = y
    BY <1>1, <1>4 DEF IsOrder
<1>7. \A x, y, z \in T : <<x, y>> \in c /\ <<y, z>> \in c => <<x, z>> \in c
    BY <1>1, <1>4 DEF IsOrder
<1>8. \A p \in c : <<p[2], p[2]>> \in c
    <2> TAKE p \in c
    <2>1. p[2] \in Elems(o) \/ p[2] \in Elems(n)
        BY ElemsOfOrder DEF Concat
    <2> QED BY <2>1, <1>1, ElemsOfOrder
<1> QED BY <1>2, <1>3, <1>5, <1>6, <1>7, <1>8 DEF IsOrder

(* Appending an element that is not there yet.                             *)
LEMMA AddLastIsOrder ==
    ASSUME NEW T, NEW o, IsOrder(o, T), NEW x \in T, x \notin Elems(o)
    PROVE  IsOrder(AddLast(o, x), T) /\ Elems(AddLast(o, x)) = Elems(o) \cup {x}
<1>1. IsOrder({<<x, x>>}, T) /\ Elems({<<x, x>>}) = {x}
    BY SingleIsOrder
<1>2. Elems(o) \cap Elems({<<x, x>>}) = {}
    BY <1>1
<1> QED BY <1>1, <1>2, ConcatIsOrder DEF AddLast

(* Moving elements to the front.                                           *)
LEMMA ToFrontIsOrder ==
    ASSUME NEW T, NEW o, IsOrder(o, T), NEW S
    PROVE  IsOrder(ToFront(o, S), T) /\ Elems(ToFront(o, S)) = Elems(o)
<1> DEFINE k == Keep(o, S)
           w == Without(o, S)
<1>1. IsOrder(k, T) /\ Elems(k) = Elems(o) \cap S
    BY KeepIsOrder
<1>2. IsOrder(w, T) /\ Elems(w) = Elems(o) \ S
    BY WithoutIsOrder
<1> HIDE DEF k, w
<1>3. Elems(k) \cap Elems(w) = {}
    BY <1>1, <1>2
<1>4. IsOrder(Concat(k, w), T) /\ Elems(Concat(k, w)) = Elems(k) \cup Elems(w)
    BY <1>1, <1>2, <1>3, ConcatIsOrder
<1>5. Elems(Concat(k, w)) = Elems(o)
    BY <1>1, <1>2, <1>4
<1> QED BY <1>4, <1>5 DEF ToFront, k, w

(* The place of x among the elements of S: how many come no later.         *)
Place(o, S, x) == Cardinality({y \in S : <<y, x>> \in o})

(* Places start at 1, and a later element has a greater one.               *)
LEMMA PlacesGrow ==
    ASSUME NEW T, NEW o, IsOrder(o, T), NEW S, S \subseteq Elems(o), IsFiniteSet(S)
    PROVE  /\ Cardinality(S) \in Nat
           /\ \A x \in S : Place(o, S, x) \in 1..Cardinality(S)
           /\ \A x, y \in S : <<x, y>> \in o /\ x # y => Place(o, S, x) < Place(o, S, y)
<1> DEFINE upto(x) == {y \in S : <<y, x>> \in o}
<1>1. \A x : IsFiniteSet(upto(x)) /\ Cardinality(upto(x)) \in Nat
             /\ Cardinality(upto(x)) <= Cardinality(S)
    <2> TAKE x
    <2>1. upto(x) \in SUBSET S
        OBVIOUS
    <2> QED BY <2>1, FS_Subset, FS_CardinalityType
<1>2. Cardinality(S) \in Nat
    BY FS_CardinalityType
<1>3. \A x \in S : x \in T /\ x \in upto(x)
    BY ElemsOfOrder
<1>4. \A x \in S : Cardinality(upto(x)) # 0
    BY <1>1, <1>3, FS_EmptySet
<1>5. ASSUME NEW x \in S, NEW y \in S, <<x, y>> \in o, x # y
      PROVE  Cardinality(upto(x)) < Cardinality(upto(y))
    <2>1. upto(x) \subseteq upto(y)
        BY <1>3, <1>5 DEF IsOrder
    <2>2. y \notin upto(x)
        BY <1>3, <1>5 DEF IsOrder
    <2>3. upto(x) # upto(y)
        BY <1>3, <2>2
    <2> HIDE DEF upto
    <2>4. Cardinality(upto(x)) <= Cardinality(upto(y))
          /\ Cardinality(upto(x)) # Cardinality(upto(y))
        BY <1>1, <2>1, <2>3, FS_Subset
    <2> QED BY <1>1, <2>4
<1>6. \A x : Place(o, S, x) = Cardinality(upto(x))
    BY DEF Place
<1> HIDE DEF upto
<1>7. \A x \in S : Place(o, S, x) \in 1..Cardinality(S)
    BY <1>1, <1>2, <1>4, <1>6
<1>8. \A x, y \in S : <<x, y>> \in o /\ x # y => Place(o, S, x) < Place(o, S, y)
    BY <1>5, <1>6
<1> QED BY <1>2, <1>7, <1>8

(* Every place up to the size of S is taken by exactly one element.        *)
LEMMA PlacesTaken ==
    ASSUME NEW T, NEW o, IsOrder(o, T), NEW S, S \subseteq Elems(o), IsFiniteSet(S)
    PROVE  /\ \A x, y \in S : Place(o, S, x) = Place(o, S, y) => x = y
           /\ \A i \in 1..Cardinality(S) : \E x \in S : Place(o, S, x) = i
<1> DEFINE n == Cardinality(S)
           f == [x \in S |-> Place(o, S, x)]
<1>1. n \in Nat /\ (\A x \in S : Place(o, S, x) \in 1..n)
    BY PlacesGrow
<1>2. ASSUME NEW x \in S, NEW y \in S, Place(o, S, x) = Place(o, S, y)
      PROVE  x = y
    <2>1. \A a, b \in S : <<a, b>> \in o /\ a # b => Place(o, S, a) < Place(o, S, b)
        BY PlacesGrow
    <2>2. <<x, y>> \in o \/ <<y, x>> \in o
        BY DEF IsOrder
    <2> QED BY <1>1, <1>2, <2>1, <2>2
<1>3. f \in Injection(S, 1..n)
    BY <1>1, <1>2 DEF Injection, IsInjective
<1>4. IsFiniteSet(1..n) /\ Cardinality(1..n) = n
    BY <1>1, FS_Interval
<1>5. f \in Surjection(S, 1..n)
    BY <1>3, <1>4, FS_Injection
<1>6. \A i \in 1..n : \E x \in S : f[x] = i
    BY <1>5 DEF Surjection
<1> QED BY <1>2, <1>6

(* FirstOf yields a first part of S: none without room, never more than k, *)
(* and k of them unless that is all of S.                                  *)
LEMMA FirstOfBounds ==
    ASSUME NEW T, NEW o, IsOrder(o, T), NEW S, S \subseteq Elems(o), IsFiniteSet(S),
           NEW k \in Int, NEW F, F = FirstOf(o, S, k)
    PROVE  /\ F \subseteq S /\ IsFiniteSet(F) /\ Cardinality(F) \in Nat
           /\ k <= 0 => F = {}
           /\ k >= 0 => Cardinality(F) <= k
           /\ F # S => Cardinality(F) >= k
           /\ \A x \in F, y \in S : <<y, x>> \in o => y \in F
<1>1. F = {x \in S : Place(o, S, x) <= k}
    BY DEF FirstOf, Place
<1>2. /\ Cardinality(S) \in Nat
      /\ \A x \in S : Place(o, S, x) \in 1..Cardinality(S)
      /\ \A x, y \in S : <<x, y>> \in o /\ x # y => Place(o, S, x) < Place(o, S, y)
    BY PlacesGrow
<1>3. /\ \A x, y \in S : Place(o, S, x) = Place(o, S, y) => x = y
      /\ \A i \in 1..Cardinality(S) : \E x \in S : Place(o, S, x) = i
    BY PlacesTaken
<1>4. F \subseteq S /\ IsFiniteSet(F) /\ Cardinality(F) \in Nat
    BY <1>1, FS_Subset, FS_CardinalityType
<1>5. k <= 0 => F = {}
    BY <1>1, <1>2
<1>6. \A x \in F, y \in S : <<y, x>> \in o => y \in F
    BY <1>1, <1>2
<1> DEFINE f == [x \in F |-> Place(o, S, x)]
<1>7. \A x \in F : Place(o, S, x) \in 1..k
    BY <1>1, <1>2
<1>8. ASSUME k >= 0
      PROVE  IsFiniteSet(1..k) /\ Cardinality(1..k) = k
    BY <1>8, FS_Interval
<1>9. ASSUME k >= 0
      PROVE  Cardinality(F) <= k
    <2>1. f \in Injection(F, 1..k)
        BY <1>3, <1>4, <1>7 DEF Injection, IsInjective
    <2> QED BY <1>8, <1>9, <2>1, FS_Injection
<1>10. ASSUME F # S
       PROVE  Cardinality(F) >= k
    <2>1. CASE k < 0
        BY <2>1, <1>4
    <2>2. CASE k >= 0
        <3>1. PICK x \in S : Place(o, S, x) > k
            BY <1>1, <1>2, <1>10
        <3>2. k <= Cardinality(S)
            BY <1>2, <3>1
        <3>3. \A i \in 1..k : \E y \in F : f[y] = i
            <4> TAKE i \in 1..k
            <4>1. PICK y \in S : Place(o, S, y) = i
                BY <1>2, <1>3, <3>2
            <4>2. y \in F
                BY <1>1, <4>1
            <4> QED BY <4>1, <4>2
        <3>4. f \in Surjection(F, 1..k)
            BY <1>7, <3>3 DEF Surjection
        <3> QED BY <1>4, <1>8, <2>2, <3>4, FS_Surjection
    <2> QED BY <2>1, <2>2
<1> QED BY <1>4, <1>5, <1>6, <1>9, <1>10

-----------------------------------------------------------------------------
(* The inductive invariant.                                                *)


(* What the scheduler does not touch is typed, and listed files have ended. *)
Recorded ==
    /\ outcome \in [Tasks -> Outcomes \cup {"none"}]
    /\ IsOrder(waiters, Tasks)
    /\ IsOrder(history, Tasks)
    /\ \A t \in Elems(history) : outcome[t] # "none"
    /\ known \subseteq Groups
    /\ group \in [Groups -> GroupRecord]
    /\ maxConcurrent \in Limits
    /\ userPaused \in BOOLEAN
    /\ scopePauses \subseteq Scopes
    /\ overrides \subseteq Groups
    /\ blockers \subseteq Tasks
    /\ retries \in [Tasks -> Nat]

ActiveIn(ph) == {t \in Tasks : ph[t] # "none"}

(* The records agree with the files pending in q and active in ph.         *)
Agree(gr, pending, active) ==
    \A g \in Groups :
        /\ gr[g].override \in {"pausing", "cancelling"} => \E t \in active : GroupOf[t] = g
        /\ gr[g].override \in {"paused", "cancelled"} => \A t \in active : GroupOf[t] # g
        /\ gr[g].override \in {"cancelling", "cancelled"} => \A t \in pending : GroupOf[t] # g

Prepared(q, ph) ==
    /\ IsOrder(q, Tasks)
    /\ ph \in [Tasks -> Phases \cup {"none"}]
    /\ Elems(q) \cap ActiveIn(ph) = {}
    /\ \A t \in Elems(q) \cup ActiveIn(ph) : GroupOf[t] \in known' /\ outcome'[t] = "none"
    /\ aborted' \subseteq ActiveIn(ph)
    /\ Elems(waiters') \subseteq ActiveIn(ph)
    /\ Agree(group', Elems(q), ActiveIn(ph))

(* The inductive invariant: overrides agree with the running files only    *)
(* because a pruned or restarted group has no live file left, which in     *)
(* turn rests on cancelled groups running nothing.                         *)
IInv == TypeOK /\ OverridesMatchFiles /\ LiveFilesHaveGroup /\ OnePlace

-----------------------------------------------------------------------------
LEMMA Unfolded ==
    ASSUME IInv
    PROVE  /\ Recorded
           /\ IsOrder(queue, Tasks)
           /\ phase \in [Tasks -> Phases \cup {"none"}]
           /\ Active = ActiveIn(phase) /\ Active \subseteq Tasks
           /\ Pending = Elems(queue) /\ Pending \subseteq Tasks
           /\ Pending \cap Active = {}
           /\ \A t \in Pending \cup Active : GroupOf[t] \in known /\ outcome[t] = "none"
           /\ aborted \subseteq Active
           /\ Elems(waiters) \subseteq Active
           /\ Agree(group, Pending, Active)
<1>1. Recorded
    BY DEF IInv, TypeOK, OnePlace, Recorded
<1>2. IsOrder(queue, Tasks) /\ phase \in [Tasks -> Phases \cup {"none"}]
    BY DEF IInv, TypeOK
<1>3. Elems(queue) \subseteq Tasks
    BY <1>2, ElemsOfOrder
<1>4. Agree(group, Pending, Active)
    BY <1>3, QueueAssumption
    DEF IInv, OverridesMatchFiles, Agree, FilesOf, Active, Pending
<1> QED BY <1>1, <1>2, <1>3, <1>4
    DEF IInv, LiveFilesHaveGroup, OnePlace, Live, Active, ActiveIn, Pending

LEMMA Folded ==
    ASSUME Recorded', Prepared(queue', phase')
    PROVE  IInv'
<1>1. Elems(queue') \subseteq Tasks
    BY ElemsOfOrder DEF Prepared
<1>2. ActiveIn(phase') \subseteq Tasks
    BY DEF ActiveIn
<1>3. TypeOK'
    BY <1>2 DEF Prepared, Recorded, TypeOK
<1>4. OverridesMatchFiles'
    BY <1>1, <1>2 DEF Prepared, Agree, OverridesMatchFiles, FilesOf, Active, ActiveIn, Pending
<1>5. LiveFilesHaveGroup' /\ OnePlace'
    BY DEF Prepared, Recorded, LiveFilesHaveGroup, OnePlace, Live, Active, ActiveIn, Pending
<1> QED BY <1>3, <1>4, <1>5 DEF IInv

(* processNext starts only files of groups without an override, so what    *)
(* was prepared for it still holds.                                        *)
LEMMA Scheduling ==
    ASSUME NEW q, NEW ph, Prepared(q, ph), ProcessNext(q, ph)
    PROVE  Prepared(queue', phase')
<1> DEFINE S == ToStart(q, ph)
<1>1. S \subseteq Elems(q) /\ \A t \in S : group'[GroupOf[t]].override = "none"
    BY DEF ToStart, FirstOf, Runnable
<1>2. queue' = Without(q, S)
      /\ phase' = [t \in Tasks |-> IF t \in S THEN "downloading" ELSE ph[t]]
    BY DEF ProcessNext
<1> HIDE DEF S
<1>3. IsOrder(queue', Tasks) /\ Elems(queue') = Elems(q) \ S
    BY <1>2, WithoutIsOrder DEF Prepared
<1>4. S \subseteq Tasks
    BY <1>1, ElemsOfOrder DEF Prepared
<1>5. phase' \in [Tasks -> Phases \cup {"none"}]
    BY <1>2 DEF Prepared, Phases, Downloads
<1>6. ActiveIn(phase') = ActiveIn(ph) \cup S
    BY <1>2, <1>4 DEF ActiveIn
<1>7. Agree(group', Elems(queue'), ActiveIn(phase'))
    BY <1>1, <1>3, <1>6 DEF Prepared, Agree
<1> QED BY <1>1, <1>3, <1>5, <1>6, <1>7 DEF Prepared

(* A step that leaves groups and endings alone prepares the scheduler.     *)
LEMMA Undisturbed ==
    ASSUME IInv, UNCHANGED <<outcome, aborted, waiters, known, group>>
    PROVE  Prepared(queue, phase)
BY Unfolded DEF Prepared

(* Every terminal group has no live file.                                  *)
LEMMA TerminalIsIdle ==
    ASSUME NEW pending, NEW active, NEW gr, Agree(gr, pending, active),
           pending \subseteq Tasks, active \subseteq Tasks, NEW g \in Groups,
           Terminal(gr[g], (pending \cup active) \cap FilesOf(g))
    PROVE  \A t \in pending \cup active : GroupOf[t] # g
BY DEF Terminal, Agree, FilesOf

-----------------------------------------------------------------------------
(* Arrival.                                                                *)

LEMMA NewGroupType ==
    ASSUME NEW n \in Nat
    PROVE  NewGroup(n) \in GroupRecord /\ NewGroup(n).override = "none"
BY DEF NewGroup, GroupRecord, Overrides

LEMMA EnsureGroupStep ==
    ASSUME IInv, NEW g \in Groups, NEW n \in Expected, EnsureGroup(g, n)
    PROVE  IInv'
<1> DEFINE renew == g \notin known \/ TerminalGroup(g)
<1>1. n \in Nat /\ NewGroup(n) \in GroupRecord /\ NewGroup(n).override = "none"
    BY QueueAssumption, NewGroupType
<1>2. group[g] \in GroupRecord
    BY Unfolded DEF Recorded
<1>3. [group[g] EXCEPT !.expected = MaxOf(@, n)] \in GroupRecord
    BY <1>1, <1>2 DEF GroupRecord, MaxOf
<1>4. group' \in [Groups -> GroupRecord]
    <2> DEFINE r == IF renew THEN NewGroup(n)
                    ELSE [group[g] EXCEPT !.expected = MaxOf(@, n)]
    <2>1. r \in GroupRecord
        BY <1>1, <1>3
    <2>2. group' = [group EXCEPT ![g] = r]
        BY DEF EnsureGroup
    <2> QED BY <2>1, <2>2, Unfolded DEF Recorded
<1>5. Recorded'
    BY <1>4, Unfolded DEF EnsureGroup, Recorded, executorVars
<1>6. renew => \A t \in Pending \cup Active : GroupOf[t] # g
    BY Unfolded, TerminalIsIdle DEF TerminalGroup, Live
<1>7. \A h \in Groups : group'[h].override = IF h = g /\ renew THEN "none"
                                             ELSE group[h].override
    BY <1>1, <1>2, Unfolded DEF EnsureGroup, Recorded, GroupRecord
<1>8. Agree(group', Pending, Active)
    BY <1>6, <1>7, Unfolded DEF Agree
<1>9. Prepared(queue', phase')
    BY <1>8, Unfolded DEF EnsureGroup, Prepared, executorVars
<1> QED BY <1>5, <1>9, Folded

LEMMA RestoreGroupStep ==
    ASSUME IInv, NEW g \in Groups, NEW ended \in [Tasks -> Outcomes \cup {"none"}],
           NEW paused \in BOOLEAN, RestoreGroup(g, ended, paused)
    PROVE  IInv'
<1>1. \A o : Cardinality({t \in FilesOf(g) : ended[t] = o}) \in Nat
    BY QueueAssumption, FS_Subset, FS_CardinalityType DEF FilesOf
<1>2. Cardinality(FilesOf(g)) \in Nat
    BY QueueAssumption, FS_Subset, FS_CardinalityType DEF FilesOf
<1>3. group' \in [Groups -> GroupRecord]
    <2> DEFINE with(o) == Cardinality({t \in FilesOf(g) : ended[t] = o})
               r == [expected |-> Cardinality(FilesOf(g)),
                     completed |-> with("success"), failed |-> with("failed"),
                     cancelled |-> with("cancelled"),
                     override |-> IF paused THEN "paused" ELSE "none"]
    <2>1. r \in GroupRecord
        BY <1>1, <1>2 DEF GroupRecord, Overrides
    <2>2. group' = [group EXCEPT ![g] = r]
        BY DEF RestoreGroup
    <2> QED BY <2>1, <2>2, Unfolded DEF Recorded
<1>4. \A t \in Pending \cup Active : GroupOf[t] # g
    BY Unfolded DEF RestoreGroup
<1>5. \A t \in Elems(history) : outcome'[t] # "none"
    BY Unfolded, ElemsOfOrder, QueueAssumption DEF RestoreGroup, Recorded, FilesOf
<1>6. Recorded'
    BY <1>3, <1>5, Unfolded DEF RestoreGroup, Recorded, controlVars
<1>7. \A h \in Groups : h # g => group'[h] = group[h]
    BY Unfolded DEF RestoreGroup, Recorded
<1>8. group'[g].override \in {"none", "paused"}
    BY Unfolded DEF RestoreGroup, Recorded
<1>9. Agree(group', Pending, Active)
    BY <1>4, <1>7, <1>8, Unfolded DEF Agree
<1>10. \A t \in Pending \cup Active : outcome'[t] = "none"
    BY <1>4, Unfolded DEF RestoreGroup
<1>11. Prepared(queue', phase')
    BY <1>9, <1>10, Unfolded DEF RestoreGroup, Prepared
<1> QED BY <1>6, <1>11, Folded

(* The record that Extended makes.                                         *)
LEMMA ExtendedType ==
    ASSUME NEW g \in Groups, NEW r \in GroupRecord, NEW k \in Nat
    PROVE  /\ Extended(r, g, k) \in GroupRecord
           /\ \/ Extended(r, g, k).override = r.override
              \/ /\ Extended(r, g, k).override = "paused"
                 /\ r.override = "pausing"
                 /\ Active \cap FilesOf(g) = {}
<1>1. Cardinality(Live \cap FilesOf(g)) \in Nat
    BY QueueAssumption, FS_Subset, FS_CardinalityType DEF FilesOf
<1>2. Settled(r) \in Nat
    BY DEF Settled, GroupRecord
<1>3. MaxOf(r.expected, Cardinality(Live \cap FilesOf(g)) + Settled(r) + k) \in Nat
    BY <1>1, <1>2 DEF MaxOf, GroupRecord
<1> QED BY <1>3 DEF Extended, GroupRecord, Overrides

LEMMA AddStep ==
    ASSUME IInv, NEW t \in Tasks, Add(t)
    PROVE  IInv'
<1> DEFINE g == GroupOf[t]
           q == AddLast(queue, t)
<1>1. g \in Groups /\ group[g] \in GroupRecord
    BY QueueAssumption, Unfolded DEF Recorded
<1>2. group' = [group EXCEPT ![g] = Extended(group[g], g, 1)]
    BY DEF Add
<1>3. group' \in [Groups -> GroupRecord]
    BY <1>1, <1>2, ExtendedType, Unfolded DEF Recorded
<1>4. Recorded'
    BY <1>3, Unfolded DEF Add, Recorded, controlVars
<1>5. IsOrder(q, Tasks) /\ Elems(q) = Pending \cup {t}
    BY Unfolded, AddLastIsOrder DEF Add, Fresh, Live
<1>6. \A h \in Groups : group'[h].override = group[h].override
    BY <1>1, <1>2, ExtendedType, Unfolded DEF Recorded, Agree, FilesOf
<1>7. group[g].override \notin {"cancelling", "cancelled"}
    BY DEF Add, Refusing
<1>8. Agree(group', Elems(q), Active)
    BY <1>5, <1>6, <1>7, Unfolded DEF Agree
<1>9. Prepared(q, phase)
    BY <1>5, <1>8, Unfolded DEF Add, Fresh, Live, Prepared
<1>10. ProcessNext(q, phase)
    BY DEF Add
<1> QED BY <1>4, <1>9, <1>10, Scheduling, Folded

LEMMA AddRefusedStep ==
    ASSUME IInv, NEW t \in Tasks, AddRefused(t)
    PROVE  IInv'
<1>1. Recorded'
    BY Unfolded, ElemsOfOrder
    DEF AddRefused, Recorded, Outcomes, groupVars, controlVars
<1>2. Prepared(queue', phase')
    BY Unfolded DEF AddRefused, Fresh, Live, Prepared, groupVars, controlVars
<1> QED BY <1>1, <1>2, Folded

LEMMA RetryFailedStep ==
    ASSUME IInv, NEW g \in Groups, RetryFailed(g)
    PROVE  IInv'
<1> DEFINE failed == {t \in Elems(history) : GroupOf[t] = g /\ outcome[t] = "failed"}
           C == FirstOf(history, failed, RetryLimit)
           k == Cardinality(C)
           n == Keep(history, C)
           q == Concat(queue, n)
<1>1. C \subseteq failed
    BY DEF FirstOf
<1>2. C \subseteq Tasks /\ C \subseteq Elems(history)
    BY <1>1, Unfolded, ElemsOfOrder DEF Recorded
<1>3. k \in Nat
    BY <1>2, QueueAssumption, FS_Subset, FS_CardinalityType
<1>4. \A t \in C : GroupOf[t] = g /\ outcome[t] = "failed"
    BY <1>1
<1>5. /\ g \in known /\ group[g].override \notin {"cancelling", "cancelled"}
      /\ retries' = [t \in Tasks |-> IF t \in C THEN retries[t] + 1 ELSE retries[t]]
      /\ outcome' = [t \in Tasks |-> IF t \in C THEN "none" ELSE outcome[t]]
      /\ history' = Without(history, C)
      /\ group' = [group EXCEPT ![g] = Extended(Recount(group[g], k), g, k)]
      /\ ProcessNext(q, phase)
      /\ UNCHANGED <<known, maxConcurrent, userPaused, scopePauses, overrides, blockers>>
      /\ UNCHANGED <<aborted, waiters>>
    BY DEF RetryFailed, Refusing, controlVars
<1> HIDE DEF C, k
<1>6. IsOrder(n, Tasks) /\ Elems(n) = C
    BY <1>2, Unfolded, KeepIsOrder DEF Recorded
<1>7. IsOrder(history', Tasks) /\ Elems(history') = Elems(history) \ C
    BY <1>5, Unfolded, WithoutIsOrder DEF Recorded
<1>8. Pending \cap C = {} /\ Active \cap C = {}
    BY <1>4, Unfolded
<1>9. IsOrder(q, Tasks) /\ Elems(q) = Pending \cup C
    <2>1. Elems(queue) \cap Elems(n) = {}
        BY <1>6, <1>8, Unfolded
    <2> QED BY <1>6, <2>1, Unfolded, ConcatIsOrder
<1>10. Recount(group[g], k) \in GroupRecord
       /\ Recount(group[g], k).override = group[g].override
    BY <1>3, Unfolded DEF Recount, MaxOf, Recorded, GroupRecord
<1>11. group' \in [Groups -> GroupRecord]
    BY <1>3, <1>5, <1>10, ExtendedType, Unfolded DEF Recorded
<1>12. retries' \in [Tasks -> Nat] /\ outcome' \in [Tasks -> Outcomes \cup {"none"}]
    BY <1>5, Unfolded DEF Recorded
<1>13. \A t \in Elems(history') : outcome'[t] # "none"
    BY <1>5, <1>7, Unfolded, ElemsOfOrder DEF Recorded
<1>14. Recorded'
    BY <1>5, <1>7, <1>11, <1>12, <1>13, Unfolded DEF Recorded
<1>15. \A h \in Groups : group'[h].override = group[h].override
    BY <1>3, <1>5, <1>10, ExtendedType, Unfolded DEF Recorded, Agree, FilesOf
<1>16. Agree(group', Elems(q), Active)
    BY <1>4, <1>5, <1>9, <1>15, Unfolded DEF Agree
<1>17. Prepared(q, phase)
    BY <1>2, <1>4, <1>5, <1>8, <1>9, <1>16, Unfolded DEF Prepared
<1> QED BY <1>5, <1>14, <1>17, Scheduling, Folded

-----------------------------------------------------------------------------
(* Lemmas about the schedulers and the history.                            *)

(* processUploads moves waiting files, which are active, to uploading.     *)
LEMMA PromotedIsActive ==
    ASSUME NEW ph \in [Tasks -> Phases \cup {"none"}],
           NEW w, IsOrder(w, Tasks), Elems(w) \subseteq ActiveIn(ph)
    PROVE  /\ Promoted(w, ph) \in [Tasks -> Phases \cup {"none"}]
           /\ ActiveIn(Promoted(w, ph)) = ActiveIn(ph)
           /\ ToUpload(w, ph) \subseteq Elems(w)
           /\ IsOrder(Without(w, ToUpload(w, ph)), Tasks)
           /\ Elems(Without(w, ToUpload(w, ph))) \subseteq Elems(w)
<1>1. ToUpload(w, ph) \subseteq Elems(w)
    BY DEF ToUpload, FirstOf
<1>2. Promoted(w, ph) \in [Tasks -> Phases \cup {"none"}]
    BY DEF Promoted, Phases, Downloads
<1>3. ActiveIn(Promoted(w, ph)) = ActiveIn(ph)
    BY <1>1 DEF Promoted, ActiveIn
<1> QED BY <1>1, <1>2, <1>3, WithoutIsOrder

LEMMA PushHistoryOrder ==
    ASSUME IInv, NEW new, IsOrder(new, Tasks), PushHistory(new)
    PROVE  IsOrder(history', Tasks) /\ Elems(history') \subseteq Elems(history) \cup Elems(new)
<1> DEFINE old == Without(history, Elems(new))
           all == Concat(new, old)
<1>1. IsOrder(old, Tasks) /\ Elems(old) = Elems(history) \ Elems(new)
    BY Unfolded, WithoutIsOrder DEF Recorded
<1>2. Elems(new) \cap Elems(old) = {}
    BY <1>1
<1> HIDE DEF old
<1>3. IsOrder(all, Tasks) /\ Elems(all) = Elems(new) \cup Elems(old)
    BY <1>1, <1>2, ConcatIsOrder
<1>4. history' = Keep(all, FirstOf(all, Elems(all), MaxHistory))
    BY DEF PushHistory, old
<1> QED BY <1>1, <1>3, <1>4, KeepIsOrder

(* Forgetting groups without live files keeps the records in agreement.    *)
LEMMA Pruning ==
    ASSUME NEW records \in [Groups -> GroupRecord], NEW S,
           NEW P, NEW A, Agree(records, P, A),
           \A h \in S, t \in P \cup A : GroupOf[t] # h
    PROVE  /\ Forget(records, S) \in [Groups -> GroupRecord]
           /\ Agree(Forget(records, S), P, A)
<1>1. NewGroup(0) \in GroupRecord /\ NewGroup(0).override = "none"
    BY NewGroupType
<1> QED BY <1>1 DEF Forget, Agree

-----------------------------------------------------------------------------
(* The executor.                                                           *)

LEMMA PhaseStep ==
    ASSUME IInv, NEW t \in Tasks, SetRetrying(t) \/ Progress(t)
    PROVE  IInv'
<1>1. Recorded' /\ UNCHANGED <<outcome, aborted, waiters, known, group, queue>>
    BY Unfolded DEF SetRetrying, Progress, Recorded, groupVars, controlVars
<1>2. phase' \in [Tasks -> Phases \cup {"none"}] /\ ActiveIn(phase') = Active
    BY Unfolded DEF SetRetrying, Progress, ActiveIn, Phases, Downloads
<1>3. Prepared(queue', phase')
    BY <1>1, <1>2, Unfolded DEF Prepared
<1> QED BY <1>1, <1>3, Folded

LEMMA DiskWaitStep ==
    ASSUME IInv, NEW t \in Tasks, DiskWait(t)
    PROVE  IInv'
<1>1. Recorded'
    BY Unfolded DEF DiskWait, Recorded, executorVars, groupVars
<1>2. Prepared(queue', phase')
    BY Undisturbed, Unfolded DEF DiskWait, executorVars, groupVars, Prepared
<1> QED BY <1>1, <1>2, Folded

(* The handlers that only change a control and call processNext.           *)
LEMMA ControlStep ==
    ASSUME IInv, UNCHANGED <<outcome, aborted, waiters, history, retries, known, group>>,
           ProcessNext(queue, phase),
           maxConcurrent' \in Limits, userPaused' \in BOOLEAN,
           scopePauses' \subseteq Scopes, overrides' \subseteq Groups, blockers' \subseteq Tasks
    PROVE  IInv'
<1>1. Recorded'
    BY Unfolded DEF Recorded
<1>2. Prepared(queue, phase)
    BY Undisturbed
<1> QED BY <1>1, <1>2, Scheduling, Folded

LEMMA BeginUploadStep ==
    ASSUME IInv, NEW t \in Tasks, BeginUpload(t)
    PROVE  IInv'
<1> DEFINE asked == [phase EXCEPT ![t] = "waiting_upload"]
           line == AddLast(Without(waiters, {t}), t)
<1>1. asked \in [Tasks -> Phases \cup {"none"}] /\ ActiveIn(asked) = Active /\ t \in Active
    BY Unfolded DEF BeginUpload, ActiveIn, Phases, Downloads
<1>2. IsOrder(line, Tasks) /\ Elems(line) \subseteq Active
    <2>1. /\ IsOrder(Without(waiters, {t}), Tasks)
          /\ Elems(Without(waiters, {t})) = Elems(waiters) \ {t}
        BY Unfolded, WithoutIsOrder DEF Recorded
    <2>2. IsOrder(line, Tasks) /\ Elems(line) = (Elems(waiters) \ {t}) \cup {t}
        BY <2>1, AddLastIsOrder
    <2> QED BY <1>1, <2>2, Unfolded
<1>3. /\ waiters' = Without(line, ToUpload(line, asked))
      /\ ProcessNext(queue, Promoted(line, asked))
      /\ UNCHANGED <<outcome, aborted, history, retries, groupVars, controlVars>>
    BY DEF BeginUpload, ProcessUploads
<1> HIDE DEF asked, line
<1>4. /\ Promoted(line, asked) \in [Tasks -> Phases \cup {"none"}]
      /\ ActiveIn(Promoted(line, asked)) = Active
      /\ IsOrder(waiters', Tasks)
      /\ Elems(waiters') \subseteq Active
    BY <1>1, <1>2, <1>3, PromotedIsActive
<1>5. Recorded'
    BY <1>3, <1>4, Unfolded DEF Recorded, groupVars, controlVars
<1>6. Prepared(queue, Promoted(line, asked))
    BY <1>3, <1>4, Unfolded DEF Prepared, groupVars
<1> QED BY <1>3, <1>5, <1>6, Scheduling, Folded

LEMMA WaitForStorageStep ==
    ASSUME IInv, NEW t \in Tasks, WaitForStorage(t)
    PROVE  IInv'
<1> DEFINE stopped == [phase EXCEPT ![t] = "waiting_storage"]
<1>1. stopped \in [Tasks -> Phases \cup {"none"}] /\ ActiveIn(stopped) = Active
    BY Unfolded DEF WaitForStorage, ActiveIn, Phases, Downloads
<1>2. /\ waiters' = Without(waiters, ToUpload(waiters, stopped))
      /\ phase' = Promoted(waiters, stopped)
      /\ UNCHANGED <<queue, outcome, aborted, history, retries, groupVars, controlVars>>
    BY DEF WaitForStorage, ProcessUploads
<1> HIDE DEF stopped
<1>3. /\ phase' \in [Tasks -> Phases \cup {"none"}]
      /\ ActiveIn(phase') = Active
      /\ IsOrder(waiters', Tasks)
      /\ Elems(waiters') \subseteq Active
    BY <1>1, <1>2, PromotedIsActive, Unfolded DEF Recorded
<1>4. Recorded'
    BY <1>2, <1>3, Unfolded DEF Recorded, groupVars, controlVars
<1>5. Prepared(queue', phase')
    BY <1>2, <1>3, Unfolded DEF Prepared, groupVars
<1> QED BY <1>4, <1>5, Folded

LEMMA CountedType ==
    ASSUME NEW r \in GroupRecord, NEW end \in Outcomes
    PROVE  Counted(r, end) \in GroupRecord /\ Counted(r, end).override = r.override
BY DEF Counted, GroupRecord, Outcomes

LEMMA AfterLastType ==
    ASSUME NEW r \in GroupRecord, NEW pending \in BOOLEAN
    PROVE  /\ AfterLast(r, pending) \in Overrides
           /\ r.override = "pausing" => AfterLast(r, pending) \in {"none", "paused"}
           /\ r.override = "cancelling" => AfterLast(r, pending) = "cancelled"
           /\ r.override \notin {"pausing", "cancelling"} => AfterLast(r, pending) = r.override
BY DEF AfterLast, GroupRecord, Overrides

(* The records once a file of g has ended, before any group is pruned.     *)
LEMMA SettleRecords ==
    ASSUME IInv, NEW t \in Active, NEW end \in Outcomes,
           NEW r, NEW record,
           r = Counted(group[GroupOf[t]], end),
           record = IF (Active \ {t}) \cap FilesOf(GroupOf[t]) = {}
                    THEN [r EXCEPT !.override =
                            AfterLast(r, Pending \cap FilesOf(GroupOf[t]) # {})]
                    ELSE r
    PROVE  /\ [group EXCEPT ![GroupOf[t]] = record] \in [Groups -> GroupRecord]
           /\ Agree([group EXCEPT ![GroupOf[t]] = record], Pending, Active \ {t})
<1> DEFINE g == GroupOf[t]
           pends == Pending \cap FilesOf(g) # {}
           last == (Active \ {t}) \cap FilesOf(g) = {}
<1>1. t \in Tasks /\ g \in Groups /\ group[g] \in GroupRecord
    BY Unfolded, QueueAssumption DEF Recorded
<1>2. r \in GroupRecord /\ r.override = group[g].override
    BY <1>1, CountedType
<1>3. /\ AfterLast(r, pends) \in Overrides
      /\ r.override = "pausing" => AfterLast(r, pends) \in {"none", "paused"}
      /\ r.override = "cancelling" => AfterLast(r, pends) = "cancelled"
      /\ r.override \notin {"pausing", "cancelling"} => AfterLast(r, pends) = r.override
    <2> pends \in BOOLEAN
        OBVIOUS
    <2> QED BY <1>2, AfterLastType
<1>4. record \in GroupRecord
      /\ record.override = IF last THEN AfterLast(r, pends) ELSE group[g].override
    BY <1>2, <1>3 DEF GroupRecord
<1>5. [group EXCEPT ![g] = record] \in [Groups -> GroupRecord]
    BY <1>1, <1>4, Unfolded DEF Recorded
<1> DEFINE gr == [group EXCEPT ![g] = record]
<1>6. \A h \in Groups : gr[h] = IF h = g THEN record ELSE group[h]
    BY <1>1, Unfolded DEF Recorded
<1> HIDE DEF gr, pends
<1>7. Agree(gr, Pending, Active \ {t})
    <2> SUFFICES ASSUME NEW h \in Groups
                 PROVE  /\ gr[h].override \in {"pausing", "cancelling"}
                              => \E u \in Active \ {t} : GroupOf[u] = h
                        /\ gr[h].override \in {"paused", "cancelled"}
                              => \A u \in Active \ {t} : GroupOf[u] # h
                        /\ gr[h].override \in {"cancelling", "cancelled"}
                              => \A u \in Pending : GroupOf[u] # h
        BY DEF Agree
    <2>1. CASE h # g
        BY <2>1, <1>6, Unfolded DEF Agree
    <2>2. CASE h = g /\ last
        <3>1. \A u \in Active \ {t} : GroupOf[u] # h
            BY <2>2, Unfolded DEF FilesOf
        <3>2. gr[h].override \notin {"pausing", "cancelling"}
            BY <2>2, <1>2, <1>3, <1>4, <1>6 DEF Overrides
        <3>3. gr[h].override = "cancelled" => group[h].override \in {"cancelling", "cancelled"}
            BY <2>2, <1>2, <1>3, <1>4, <1>6 DEF Overrides, GroupRecord
        <3> QED BY <3>1, <3>2, <3>3, Unfolded DEF Agree
    <2>3. CASE h = g /\ ~last
        <3>1. \E u \in Active \ {t} : GroupOf[u] = h
            BY <2>3 DEF FilesOf
        <3>2. gr[h].override = group[h].override
            BY <2>3, <1>4, <1>6
        <3>3. \E u \in Active : GroupOf[u] = h
            BY <3>1
        <3> QED BY <3>1, <3>2, <3>3, Unfolded DEF Agree
    <2> QED BY <2>1, <2>2, <2>3
<1> QED BY <1>5, <1>7 DEF gr

LEMMA SettleStep ==
    ASSUME IInv, NEW t \in Tasks, NEW result \in {"success", "failed"}, Settle(t, result)
    PROVE  IInv'
<1> DEFINE g == GroupOf[t]
           r == Counted(group[g], EndOf(t, result))
           record == IF (Active \ {t}) \cap FilesOf(g) = {}
                     THEN [r EXCEPT !.override = AfterLast(r, Pending \cap FilesOf(g) # {})]
                     ELSE r
           records == [group EXCEPT ![g] = record]
           rest(h) == (Live \ {t}) \cap FilesOf(h)
           left == [phase EXCEPT ![t] = "none"]
           line == Without(waiters, {t})
<1>1. t \in Active /\ EndOf(t, result) \in Outcomes
    BY Unfolded DEF Settle, Active, EndOf, Outcomes
<1>2. records \in [Groups -> GroupRecord] /\ Agree(records, Pending, Active \ {t})
    BY <1>1, SettleRecords
<1>3. PICK S \in Pruned({h \in known : Terminal(records[h], rest(h))}) :
          /\ known' = known \ S
          /\ group' = Forget(records, S)
          /\ overrides' = (overrides \ S) \ (IF Terminal(record, rest(g)) THEN {g} ELSE {})
    BY DEF Settle
<1>4. /\ outcome' = [outcome EXCEPT ![t] = EndOf(t, result)]
      /\ aborted' = aborted \ {t}
      /\ PushHistory({<<t, t>>})
      /\ UNCHANGED <<maxConcurrent, userPaused, scopePauses, blockers, retries>>
      /\ waiters' = Without(line, ToUpload(line, left))
      /\ ProcessNext(queue, Promoted(line, left))
    BY DEF Settle, Reschedule, ProcessUploads
<1>5. \A h \in S : h \in known /\ Terminal(records[h], rest(h))
    BY <1>3 DEF Pruned
<1> HIDE DEF records, record, left, line, r
<1>6. \A h \in S, u \in Pending \cup (Active \ {t}) : GroupOf[u] # h
    <2> TAKE h \in S
    <2>1. h \in Groups
        BY <1>5, Unfolded DEF Recorded
    <2>2. (Live \ {t}) \cap FilesOf(h) = (Pending \cup (Active \ {t})) \cap FilesOf(h)
        BY <1>1, Unfolded DEF Live
    <2>3. Terminal(records[h], (Pending \cup (Active \ {t})) \cap FilesOf(h))
        BY <1>5, <2>2
    <2> QED BY <1>2, <2>1, <2>3, TerminalIsIdle, Unfolded
<1>7. group' \in [Groups -> GroupRecord] /\ Agree(group', Pending, Active \ {t})
    BY <1>2, <1>3, <1>6, Pruning
<1>8. left \in [Tasks -> Phases \cup {"none"}] /\ ActiveIn(left) = Active \ {t}
    BY Unfolded DEF left, ActiveIn, Active
<1>9. IsOrder(line, Tasks) /\ Elems(line) \subseteq Active \ {t}
    BY Unfolded, WithoutIsOrder DEF line, Recorded
<1>10. /\ Promoted(line, left) \in [Tasks -> Phases \cup {"none"}]
       /\ ActiveIn(Promoted(line, left)) = Active \ {t}
       /\ IsOrder(waiters', Tasks)
       /\ Elems(waiters') \subseteq Active \ {t}
    BY <1>4, <1>8, <1>9, PromotedIsActive
<1>11. IsOrder(history', Tasks) /\ \A u \in Elems(history') : outcome'[u] # "none"
    <2>1. IsOrder({<<t, t>>}, Tasks) /\ Elems({<<t, t>>}) = {t}
        BY SingleIsOrder
    <2>2. IsOrder(history', Tasks) /\ Elems(history') \subseteq Elems(history) \cup {t}
        BY <1>4, <2>1, PushHistoryOrder
    <2>3. \A u \in Elems(history) : u \in Tasks /\ outcome[u] # "none"
        BY Unfolded, ElemsOfOrder DEF Recorded
    <2> QED BY <1>1, <1>4, <2>2, <2>3, Unfolded DEF Recorded, Outcomes
<1>12. Recorded'
    BY <1>1, <1>3, <1>4, <1>7, <1>10, <1>11, Unfolded DEF Recorded
<1>13. \A u \in Pending \cup (Active \ {t}) : GroupOf[u] \in known' /\ outcome'[u] = "none"
    BY <1>1, <1>3, <1>4, <1>6, Unfolded DEF Recorded
<1>14. Prepared(queue, Promoted(line, left))
    BY <1>4, <1>7, <1>10, <1>13, Unfolded DEF Prepared
<1> QED BY <1>4, <1>12, <1>14, Scheduling, Folded

-----------------------------------------------------------------------------
(* Controls.                                                               *)

LEMMA PrioritizeGroupStep ==
    ASSUME IInv, NEW g \in Groups, PrioritizeGroup(g)
    PROVE  IInv'
<1> DEFINE q == ToFront(queue, Pending \cap FilesOf(g))
<1>1. IsOrder(q, Tasks) /\ Elems(q) = Pending
    BY Unfolded, ToFrontIsOrder
<1>2. /\ ProcessNext(q, phase)
      /\ UNCHANGED <<outcome, aborted, waiters, history, retries, groupVars, controlVars>>
    BY DEF PrioritizeGroup
<1> HIDE DEF q
<1>3. Recorded'
    BY <1>2, Unfolded DEF Recorded, groupVars, controlVars
<1>4. Prepared(q, phase)
    BY <1>1, <1>2, Unfolded DEF Prepared, groupVars
<1> QED BY <1>2, <1>3, <1>4, Scheduling, Folded

LEMMA PauseGroupStep ==
    ASSUME IInv, NEW g \in Groups, PauseGroup(g)
    PROVE  IInv'
<1> DEFINE o == IF Active \cap FilesOf(g) # {} THEN "pausing" ELSE "paused"
<1>1. /\ group' = [group EXCEPT ![g].override = o]
      /\ ProcessNext(queue, phase)
      /\ UNCHANGED <<known, controlVars, outcome, aborted, waiters, history, retries>>
    BY DEF PauseGroup
<1>2. group' \in [Groups -> GroupRecord]
    BY <1>1, Unfolded DEF Recorded, GroupRecord, Overrides
<1>3. \A h \in Groups : group'[h].override = IF h = g THEN o ELSE group[h].override
    BY <1>1, Unfolded DEF Recorded, GroupRecord
<1>4. Agree(group', Pending, Active)
    BY <1>3, Unfolded DEF Agree, FilesOf
<1>5. Recorded'
    BY <1>1, <1>2, Unfolded DEF Recorded, controlVars
<1>6. Prepared(queue, phase)
    BY <1>1, <1>4, Unfolded DEF Prepared
<1> QED BY <1>1, <1>5, <1>6, Scheduling, Folded

(* A group that is not terminal and not cancelling can be resumed: it has  *)
(* no override that would forbid its files to wait or run.                 *)
LEMMA ResumeGroupStep ==
    ASSUME IInv, NEW g \in Groups, ResumeGroup(g)
    PROVE  IInv'
<1>1. /\ group' = [group EXCEPT ![g].override = "none"]
      /\ overrides' \subseteq overrides \cup {g}
      /\ ProcessNext(queue, phase)
      /\ UNCHANGED <<known, maxConcurrent, userPaused, scopePauses, blockers>>
      /\ UNCHANGED <<outcome, aborted, waiters, history, retries>>
    BY DEF ResumeGroup
<1>2. group' \in [Groups -> GroupRecord]
    BY <1>1, Unfolded DEF Recorded, GroupRecord, Overrides
<1>3. \A h \in Groups : group'[h].override = IF h = g THEN "none" ELSE group[h].override
    BY <1>1, Unfolded DEF Recorded, GroupRecord
<1>4. Agree(group', Pending, Active)
    BY <1>3, Unfolded DEF Agree
<1>5. Recorded'
    BY <1>1, <1>2, Unfolded DEF Recorded
<1>6. Prepared(queue, phase)
    BY <1>1, <1>4, Unfolded DEF Prepared
<1> QED BY <1>1, <1>5, <1>6, Scheduling, Folded

(* What cancelling the groups gs leaves: their pending files are gone, and *)
(* a group that was dropped meanwhile has no file left.                    *)
LEMMA CancelGroupTasksStep ==
    ASSUME IInv, NEW gs, gs \subseteq {g \in Groups : Cancellable(g)},
           CancelGroupTasks(gs), maxConcurrent' = maxConcurrent,
           scopePauses' \subseteq scopePauses,
           NEW q, q = Without(queue, {t \in Pending : GroupOf[t] \in gs})
    PROVE  Recorded' /\ Prepared(q, phase)
<1> DEFINE removed == {t \in Pending : GroupOf[t] \in gs}
           hit == {t \in Active : GroupOf[t] \in gs}
           idle == {g \in gs : Active \cap FilesOf(g) = {}}
           record(g) == [group[g] EXCEPT
                          !.cancelled = @ + Cardinality(removed \cap FilesOf(g)),
                          !.override = IF g \in idle THEN "cancelled" ELSE "cancelling"]
           records == [g \in Groups |-> IF g \notin gs THEN group[g] ELSE record(g)]
           old == {g \in known \ gs : TerminalGroup(g)}
<1>1. /\ outcome' = [t \in Tasks |-> IF t \in removed THEN "cancelled" ELSE outcome[t]]
      /\ aborted' = aborted \cup hit
      /\ waiters' = Without(waiters, hit)
      /\ PushHistory(Reversed(Keep(queue, removed)))
      /\ UNCHANGED <<maxConcurrent, userPaused, blockers, retries>>
    BY DEF CancelGroupTasks
<1>2. PICK S \in SUBSET (old \cup idle) :
          /\ known' = known \ S
          /\ group' = Forget(records, S)
          /\ overrides' = overrides \ (gs \cup S)
    BY DEF CancelGroupTasks, Pruned
<1>3. IsOrder(q, Tasks) /\ Elems(q) = Pending \ removed
    BY Unfolded, WithoutIsOrder
<1>4. \A g \in gs : record(g) \in GroupRecord
                    /\ record(g).override = IF g \in idle THEN "cancelled" ELSE "cancelling"
    <2> TAKE g \in gs
    <2> DEFINE n == Cardinality(removed \cap FilesOf(g))
               m == group[g].cancelled + n
               o == IF g \in idle THEN "cancelled" ELSE "cancelling"
    <2>1. n \in Nat
        BY QueueAssumption, FS_Subset, FS_CardinalityType DEF FilesOf
    <2>2. group[g] \in GroupRecord
        BY Unfolded DEF Recorded
    <2>3. o \in {"cancelled", "cancelling"} /\ m \in Nat
        BY <2>1, <2>2 DEF GroupRecord
    <2>4. record(g) = [group[g] EXCEPT !.cancelled = m, !.override = o]
        OBVIOUS
    <2> HIDE DEF m, o, record
    <2>5. record(g) \in GroupRecord /\ record(g).override = o
        BY <2>2, <2>3, <2>4 DEF GroupRecord, Overrides
    <2> QED BY <2>5 DEF o
<1> HIDE DEF record
<1>5. records \in [Groups -> GroupRecord]
    BY <1>4, Unfolded DEF Recorded
<1>6. \A g \in idle, t \in Active : GroupOf[t] # g
    BY Unfolded DEF FilesOf
<1>7. \A g \in gs \ idle : \E t \in Active : GroupOf[t] = g
    BY DEF FilesOf
<1>8. Agree(records, Pending \ removed, Active)
    BY <1>4, <1>6, <1>7, Unfolded DEF Agree
<1>9. \A h \in S, t \in (Pending \ removed) \cup Active : GroupOf[t] # h
    <2> TAKE h \in S
    <2>1. CASE h \in old
        <3>1. h \in Groups /\ Terminal(group[h], (Pending \cup Active) \cap FilesOf(h))
            BY <2>1, Unfolded DEF TerminalGroup, Live, Recorded
        <3>2. \A t \in Pending \cup Active : GroupOf[t] # h
            BY <3>1, TerminalIsIdle, Unfolded
        <3> QED BY <3>2
    <2>2. CASE h \in idle
        BY <2>2, <1>6
    <2> QED BY <2>1, <2>2
<1> HIDE DEF records, old, idle
<1>10. /\ group' \in [Groups -> GroupRecord]
       /\ Agree(group', Pending \ removed, Active)
    BY <1>2, <1>5, <1>8, <1>9, Pruning
<1>11. IsOrder(history', Tasks) /\ \A t \in Elems(history') : outcome'[t] # "none"
    <2>1. IsOrder(Keep(queue, removed), Tasks) /\ Elems(Keep(queue, removed)) \subseteq removed
        BY Unfolded, KeepIsOrder
    <2>2. /\ IsOrder(Reversed(Keep(queue, removed)), Tasks)
          /\ Elems(Reversed(Keep(queue, removed))) \subseteq removed
        BY <2>1, ReversedIsOrder
    <2>3. IsOrder(history', Tasks) /\ Elems(history') \subseteq Elems(history) \cup removed
        BY <1>1, <2>2, PushHistoryOrder
    <2>4. \A t \in Elems(history) : t \in Tasks /\ outcome[t] # "none"
        BY Unfolded, ElemsOfOrder DEF Recorded
    <2>5. removed \subseteq Tasks
        BY Unfolded
    <2> QED BY <1>1, <2>3, <2>4, <2>5
<1>12. /\ IsOrder(waiters', Tasks)
       /\ Elems(waiters') \subseteq Active
       /\ aborted' \subseteq Active
    BY <1>1, Unfolded, WithoutIsOrder DEF Recorded
<1>13. outcome' \in [Tasks -> Outcomes \cup {"none"}]
    BY <1>1, Unfolded DEF Recorded, Outcomes
<1>14. Recorded'
    BY <1>1, <1>2, <1>10, <1>11, <1>12, <1>13, Unfolded DEF Recorded
<1>15. \A t \in (Pending \ removed) \cup Active : GroupOf[t] \in known' /\ outcome'[t] = "none"
    <2>1. \A t \in Active : t \notin removed
        BY Unfolded
    <2> QED BY <1>1, <1>2, <1>9, <2>1, Unfolded
<1>16. Prepared(q, phase)
    BY <1>3, <1>10, <1>12, <1>15, Unfolded DEF Prepared
<1> QED BY <1>14, <1>16

LEMMA CancelGroupStep ==
    ASSUME IInv, NEW g \in Groups, CancelGroup(g)
    PROVE  IInv'
<1>1. /\ CancelGroupTasks({g}) /\ Cancellable(g)
      /\ ProcessNext(Without(queue, FilesOf(g)), phase)
      /\ UNCHANGED <<scopePauses, maxConcurrent>>
    BY DEF CancelGroup, CancelGroupTasks
<1>2. Without(queue, FilesOf(g)) = Without(queue, {t \in Pending : GroupOf[t] \in {g}})
    BY Unfolded, ElemsOfOrder DEF Without, FilesOf
<1>3. Recorded' /\ Prepared(Without(queue, FilesOf(g)), phase)
    BY <1>1, <1>2, CancelGroupTasksStep
<1> QED BY <1>1, <1>3, Scheduling, Folded

(* The files of several groups, all of them gone from the queue.           *)
LEMMA WithoutGroups ==
    ASSUME IInv, NEW gs
    PROVE  Without(queue, UNION {FilesOf(g) : g \in gs})
              = Without(queue, {t \in Pending : GroupOf[t] \in gs})
<1>1. \A t \in Pending : t \in UNION {FilesOf(g) : g \in gs} <=> GroupOf[t] \in gs
    BY Unfolded DEF FilesOf
<1>2. \A p \in queue : p[1] \in Pending /\ p[2] \in Pending
    BY Unfolded, ElemsOfOrder
<1> QED BY <1>1, <1>2 DEF Without

LEMMA CancelScopeStep ==
    ASSUME IInv, NEW s \in Scopes, CancelScope(s)
    PROVE  IInv'
<1> DEFINE gs == {g \in ScopeGroups[s] : Cancellable(g)}
           q == Without(queue, UNION {FilesOf(g) : g \in gs})
<1>1. /\ CancelGroupTasks(gs)
      /\ ProcessNext(q, phase)
      /\ scopePauses' \subseteq scopePauses
      /\ UNCHANGED maxConcurrent
    BY DEF CancelScope, CancelGroupTasks
<1>2. gs \subseteq {g \in Groups : Cancellable(g)}
    BY QueueAssumption
<1>3. q = Without(queue, {t \in Pending : GroupOf[t] \in gs})
    BY WithoutGroups
<1> HIDE DEF gs, q
<1>4. Recorded' /\ Prepared(q, phase)
    BY <1>1, <1>2, <1>3, CancelGroupTasksStep
<1> QED BY <1>1, <1>4, Scheduling, Folded

LEMMA ForceStopAllStep ==
    ASSUME IInv, ForceStopAll
    PROVE  IInv'
<1> DEFINE gs == {g \in Groups : Cancellable(g)}
           q == Without(queue, UNION {FilesOf(g) : g \in gs})
<1>1. /\ CancelGroupTasks(gs)
      /\ queue' = q
      /\ UNCHANGED <<phase, scopePauses, maxConcurrent>>
    BY DEF ForceStopAll, CancelGroupTasks
<1>2. q = Without(queue, {t \in Pending : GroupOf[t] \in gs})
    BY WithoutGroups
<1> HIDE DEF q
<1>3. Recorded' /\ Prepared(q, phase)
    BY <1>1, <1>2, CancelGroupTasksStep
<1>4. Prepared(queue', phase')
    BY <1>1, <1>3
<1> QED BY <1>3, <1>4, Folded

LEMMA CancelPendingStep ==
    ASSUME IInv, NEW t \in Tasks, CancelPending(t)
    PROVE  IInv'
<1> DEFINE g == GroupOf[t]
           records == [group EXCEPT ![g].cancelled = @ + 1]
           rest(h) == (Live \ {t}) \cap FilesOf(h)
           q == Without(queue, {t})
<1>1. /\ t \in Pending
      /\ outcome' = [outcome EXCEPT ![t] = "cancelled"]
      /\ PushHistory({<<t, t>>})
      /\ ProcessNext(q, phase)
      /\ UNCHANGED <<maxConcurrent, userPaused, scopePauses, blockers, aborted, waiters, retries>>
    BY DEF CancelPending
<1>2. PICK S \in SUBSET {h \in known : Terminal(records[h], rest(h))} :
          /\ known' = known \ S
          /\ group' = Forget(records, S)
          /\ overrides' = overrides \ S
    BY DEF CancelPending, Pruned
<1>3. records \in [Groups -> GroupRecord]
    BY Unfolded, QueueAssumption DEF Recorded, GroupRecord
<1>4. \A h \in Groups : records[h].override = group[h].override
    BY Unfolded, QueueAssumption DEF Recorded, GroupRecord
<1>5. IsOrder(q, Tasks) /\ Elems(q) = Pending \ {t}
    BY Unfolded, WithoutIsOrder
<1>6. Agree(records, Pending \ {t}, Active)
    BY <1>4, Unfolded DEF Agree
<1> HIDE DEF records, q
<1>7. \A h \in S, u \in (Pending \ {t}) \cup Active : GroupOf[u] # h
    <2> TAKE h \in S
    <2>1. h \in Groups /\ Terminal(records[h], rest(h))
        BY <1>2, Unfolded DEF Recorded
    <2>2. rest(h) = ((Pending \ {t}) \cup Active) \cap FilesOf(h)
        BY <1>1, Unfolded DEF Live
    <2>3. Terminal(records[h], ((Pending \ {t}) \cup Active) \cap FilesOf(h))
        BY <2>1, <2>2
    <2>4. Pending \ {t} \subseteq Tasks /\ Active \subseteq Tasks
        BY Unfolded
    <2> QED BY <1>6, <2>1, <2>3, <2>4, TerminalIsIdle
<1>8. group' \in [Groups -> GroupRecord] /\ Agree(group', Pending \ {t}, Active)
    BY <1>2, <1>3, <1>6, <1>7, Pruning
<1>9. IsOrder(history', Tasks) /\ \A u \in Elems(history') : outcome'[u] # "none"
    <2>1. IsOrder({<<t, t>>}, Tasks) /\ Elems({<<t, t>>}) = {t}
        BY SingleIsOrder
    <2>2. IsOrder(history', Tasks) /\ Elems(history') \subseteq Elems(history) \cup {t}
        BY <1>1, <2>1, PushHistoryOrder
    <2>3. \A u \in Elems(history) : u \in Tasks /\ outcome[u] # "none"
        BY Unfolded, ElemsOfOrder DEF Recorded
    <2> QED BY <1>1, <2>2, <2>3, Unfolded DEF Recorded
<1>10. Recorded'
    BY <1>1, <1>2, <1>8, <1>9, Unfolded DEF Recorded, Outcomes
<1>11. \A u \in (Pending \ {t}) \cup Active : GroupOf[u] \in known' /\ outcome'[u] = "none"
    BY <1>1, <1>2, <1>7, Unfolded DEF Recorded
<1>12. Prepared(q, phase)
    BY <1>1, <1>5, <1>8, <1>11, Unfolded DEF Prepared
<1> QED BY <1>1, <1>10, <1>12, Scheduling, Folded

LEMMA CancelActiveStep ==
    ASSUME IInv, NEW t \in Tasks, CancelActive(t)
    PROVE  IInv'
<1>1. /\ t \in Active
      /\ aborted' = aborted \cup {t}
      /\ waiters' = Without(waiters, {t})
      /\ ProcessNext(queue, phase)
      /\ UNCHANGED <<groupVars, controlVars, outcome, history, retries>>
    BY DEF CancelActive
<1>2. IsOrder(waiters', Tasks) /\ Elems(waiters') \subseteq Active
    BY <1>1, Unfolded, WithoutIsOrder DEF Recorded
<1>3. Recorded'
    BY <1>1, <1>2, Unfolded DEF Recorded, groupVars, controlVars
<1>4. Prepared(queue, phase)
    BY <1>1, <1>2, Unfolded DEF Prepared, groupVars
<1> QED BY <1>1, <1>3, <1>4, Scheduling, Folded

(* PauseAll and PauseScope change controls and start nothing; a stuttering *)
(* step changes nothing.                                                   *)
LEMMA QuietStep ==
    ASSUME IInv, UNCHANGED <<executorVars, groupVars>>,
           maxConcurrent' \in Limits, userPaused' \in BOOLEAN,
           scopePauses' \subseteq Scopes, overrides' \subseteq Groups, blockers' \subseteq Tasks
    PROVE  IInv'
<1>1. Recorded'
    BY Unfolded DEF Recorded, executorVars, groupVars
<1>2. Prepared(queue', phase')
    BY Undisturbed, Unfolded DEF Prepared, executorVars, groupVars
<1> QED BY <1>1, <1>2, Folded

-----------------------------------------------------------------------------
(* The invariant.                                                          *)

LEMMA InitStep == Init => IInv
<1> SUFFICES ASSUME Init PROVE IInv
    OBVIOUS
<1>1. IsOrder(EmptyOrder, Tasks) /\ Elems(EmptyOrder) = {}
    BY DEF IsOrder, Elems, EmptyOrder
<1>2. [g \in Groups |-> NewGroup(0)] \in [Groups -> GroupRecord]
    BY NewGroupType
<1>3. TypeOK
    BY <1>1, <1>2, QueueAssumption DEF Init, TypeOK
<1>4. Pending = {} /\ Active = {}
    BY <1>1 DEF Init, Pending, Active
<1>5. \A g \in Groups : group[g].override = "none"
    BY NewGroupType DEF Init
<1> QED BY <1>1, <1>3, <1>4, <1>5
    DEF Init, IInv, OverridesMatchFiles, LiveFilesHaveGroup, OnePlace, Live

LEMMA NextStep == IInv /\ [Next]_vars => IInv'
<1> SUFFICES ASSUME IInv, [Next]_vars PROVE IInv'
    OBVIOUS
<1>0. /\ maxConcurrent \in Limits /\ userPaused \in BOOLEAN
      /\ scopePauses \subseteq Scopes /\ overrides \subseteq Groups /\ blockers \subseteq Tasks
    BY Unfolded DEF Recorded
<1>1. CASE Execution
    <2>1. ASSUME NEW t \in Tasks, DiskRelease(t) PROVE IInv'
        BY <1>0, <2>1, ControlStep DEF DiskRelease, groupVars
    <2>2. ASSUME NEW t \in Tasks, Ends(t) PROVE IInv'
        BY <2>2, SettleStep DEF Ends
    <2> QED BY <1>1, <2>1, <2>2, PhaseStep, DiskWaitStep, BeginUploadStep, WaitForStorageStep
        DEF Execution
<1>2. CASE Arrival
    BY <1>2, EnsureGroupStep, RestoreGroupStep, AddStep, AddRefusedStep, RetryFailedStep
    DEF Arrival
<1>3. CASE Control
    <2>1. ASSUME NEW n \in Limits, SetMaxConcurrent(n) PROVE IInv'
        BY <1>0, <2>1, ControlStep DEF SetMaxConcurrent, groupVars
    <2>2. ASSUME NEW s \in Scopes, PauseScope(s) PROVE IInv'
        BY <1>0, <2>2, QuietStep DEF PauseScope
    <2>3. ASSUME NEW s \in Scopes, ResumeScope(s) PROVE IInv'
        BY <1>0, <2>3, ControlStep DEF ResumeScope, groupVars
    <2>4. CASE PauseAll
        BY <1>0, <2>4, QuietStep DEF PauseAll
    <2>5. CASE ResumeAll
        BY <1>0, <2>5, ControlStep DEF ResumeAll, groupVars
    <2> QED BY <1>3, <2>1, <2>2, <2>3, <2>4, <2>5, PrioritizeGroupStep, PauseGroupStep,
               ResumeGroupStep, CancelGroupStep, CancelScopeStep, ForceStopAllStep,
               CancelPendingStep, CancelActiveStep
        DEF Control
<1>4. CASE UNCHANGED vars
    BY <1>0, <1>4, QuietStep DEF vars, controlVars
<1> QED BY <1>1, <1>2, <1>3, <1>4 DEF Next

LEMMA Invariance == Spec => []IInv
BY InitStep, NextStep, PTL DEF Spec

(* The variables of downloadTaskQueue.ts keep their types for any number   *)
(* of files, groups, scopes and slots.                                     *)
THEOREM TypeCorrect == Spec => []TypeOK
<1>1. IInv => TypeOK
    BY DEF IInv
<1> QED BY <1>1, Invariance, PTL

(* A group says pausing or cancelling exactly as long as a file of it      *)
(* runs, and nothing of a cancelled group waits: no interleaving of add,   *)
(* retryFailed, resumeGroup, cancelGroup and the executors breaks it.      *)
THEOREM OverridesAgree == Spec => []OverridesMatchFiles
<1>1. IInv => OverridesMatchFiles
    BY DEF IInv
<1> QED BY <1>1, Invariance, PTL

(* No live file ever loses the record its outcome is counted in, although  *)
(* ensureGroup starts terminal groups over and pruneGroups drops them.     *)
THEOREM LiveFilesKnown == Spec => []LiveFilesHaveGroup
<1>1. IInv => LiveFilesHaveGroup
    BY DEF IInv
<1> QED BY <1>1, Invariance, PTL

-----------------------------------------------------------------------------
(***************************************************************************)
(* The steps.                                                              *)
(*                                                                         *)
(* First the two schedulers: what processNext and processUploads start, in *)
(* which order, and that no slot stays free while a file could use it.     *)
(* Every step either ends in processNext (Serving), and then the lemmas    *)
(* on FirstOf say what was started, or starts no file (Quiet).             *)
(*                                                                         *)
(* Then what the queue counts and how files end: the counters of a group,  *)
(* its expectedTotal, and the endings of files.  Tally(gr, kn, out, live)  *)
(* is the pair of counting invariants for given records, endings and live  *)
(* files; the proof of an action shows it for what the handler computes,   *)
(* and Forgotten and LiveServed carry it over pruneGroups and processNext. *)
(***************************************************************************)

(* q keeps the order of the queue, unless the step put a group in front.   *)
InOrder(q) ==
    \A t, u \in Elems(q) :
        <<u, t>> \in queue => <<u, t>> \in q \/ PrioritizeGroup(GroupOf[t])

(* The handler ends in processNext, with the files of q waiting and those  *)
(* of ph running; none of them started running in the handler itself.      *)
ServingWith(q, ph) ==
    /\ IsOrder(q, Tasks)
    /\ ph \in [Tasks -> Phases \cup {"none"}]
    /\ ActiveIn(ph) \subseteq Active
    /\ Elems(q) \cap ActiveIn(ph) = {}
    /\ InOrder(q)
    /\ ProcessNext(q, ph)

Serving(ph) == \E q : ServingWith(q, ph)

Quiet == \A t \in Pending : phase'[t] = "none"

-----------------------------------------------------------------------------
(* What processNext starts.                                                *)

LEMMA Counts ==
    ASSUME NEW ph
    PROVE  /\ IsFiniteSet({t \in Tasks : ph[t] \in Downloads})
           /\ DownloadCount(ph) \in Nat
           /\ IsFiniteSet({t \in Tasks : ph[t] = "uploading"})
           /\ UploadCount(ph) \in Nat
BY QueueAssumption, FS_Subset, FS_CardinalityType DEF DownloadCount, UploadCount

LEMMA Served ==
    ASSUME NEW q, NEW ph, ServingWith(q, ph), maxConcurrent' \in Nat,
           NEW S, S = ToStart(q, ph)
    PROVE  /\ queue' = Without(q, S) /\ S \subseteq Elems(q) /\ Elems(queue') = Elems(q) \ S
           /\ phase' = [t \in Tasks |-> IF t \in S THEN "downloading" ELSE ph[t]]
           /\ S # {} => /\ ~GloballyPaused'
                        /\ DownloadCount(phase') <= maxConcurrent'
                        /\ \A t \in S : Runnable(t)'
           /\ \/ GloballyPaused'
              \/ DownloadCount(phase') >= maxConcurrent'
              \/ \A t \in Elems(q) \ S : ~Runnable(t)'
           /\ \A t \in S, u \in Elems(q) : Runnable(u)' /\ <<u, t>> \in q => u \in S
<1> DEFINE R == {t \in Elems(q) : Runnable(t)'}
           D == DownloadCount(ph)
           k == maxConcurrent' - D
<1>0. IsOrder(q, Tasks) /\ Elems(q) \subseteq Tasks
    BY ElemsOfOrder DEF ServingWith
<1>1. R \subseteq Elems(q) /\ IsFiniteSet(R)
    BY <1>0, QueueAssumption, FS_Subset
<1>2. D \in Nat /\ k \in Int
    <2>1. D \in Nat
        BY Counts
    <2> HIDE DEF D
    <2> QED BY <2>1
<1>3. S = IF GloballyPaused' THEN {} ELSE FirstOf(q, R, k)
    BY DEF ToStart
<1>4. /\ queue' = Without(q, S)
      /\ phase' = [t \in Tasks |-> IF t \in S THEN "downloading" ELSE ph[t]]
    BY DEF ServingWith, ProcessNext
<1>5. Elems(queue') = Elems(q) \ S
    BY <1>0, <1>4, WithoutIsOrder
<1>6. CASE GloballyPaused'
    BY <1>3, <1>4, <1>5, <1>6
<1>7. CASE ~GloballyPaused'
    <2>1. S = FirstOf(q, R, k)
        BY <1>3, <1>7
    <2>0. R \subseteq {t \in Elems(q) : Runnable(t)'} /\ {t \in Elems(q) : Runnable(t)'} \subseteq R
        OBVIOUS
    <2> HIDE DEF k, R
    <2>2. /\ S \subseteq R /\ IsFiniteSet(S) /\ Cardinality(S) \in Nat
          /\ k <= 0 => S = {}
          /\ k >= 0 => Cardinality(S) <= k
          /\ S # R => Cardinality(S) >= k
          /\ \A t \in S, u \in R : <<u, t>> \in q => u \in S
        BY <1>0, <1>1, <1>2, <2>1, FirstOfBounds
    <2>3. DownloadCount(phase') = D + Cardinality(S)
        <3> DEFINE Old == {t \in Tasks : ph[t] \in Downloads}
        <3>1. S \cap Old = {} /\ S \subseteq Tasks
            BY <1>0, <2>0, <2>2 DEF ServingWith, ActiveIn, Downloads
        <3>2. {t \in Tasks : phase'[t] \in Downloads} = Old \cup S
            BY <1>4, <3>1 DEF Downloads
        <3>3. IsFiniteSet(Old)
            BY Counts
        <3> HIDE DEF Old
        <3>4. Cardinality(Old \cup S) = Cardinality(Old) + Cardinality(S) - Cardinality({})
            BY <2>2, <3>1, <3>3, FS_Union
        <3>5. D = Cardinality(Old)
            BY DEF DownloadCount, Old
        <3>6. Cardinality(Old) \in Nat
            BY <3>3, FS_CardinalityType
        <3>7. Cardinality(Old \cup S) = D + Cardinality(S)
            BY <2>2, <3>4, <3>5, <3>6, FS_EmptySet
        <3> QED BY <3>2, <3>7 DEF DownloadCount
    <2>4. S # {} => DownloadCount(phase') <= maxConcurrent'
        BY <1>2, <2>2, <2>3 DEF k
    <2>5. S # R => DownloadCount(phase') >= maxConcurrent'
        BY <1>2, <2>2, <2>3 DEF k
    <2> QED BY <1>4, <1>5, <1>7, <2>0, <2>2, <2>4, <2>5
<1> QED BY <1>6, <1>7

-----------------------------------------------------------------------------
(* Which steps end in processNext.                                         *)

(* The queue itself, or part of it, keeps its order.                       *)
LEMMA ServingPart ==
    ASSUME IInv, NEW X, ProcessNext(Without(queue, X), phase)
    PROVE  Serving(phase)
<1> DEFINE q == Without(queue, X)
<1>1. IsOrder(q, Tasks) /\ Elems(q) = Pending \ X
    BY Unfolded, WithoutIsOrder
<1>2. InOrder(q)
    BY <1>1 DEF InOrder, Without
<1>3. ServingWith(q, phase)
    BY <1>1, <1>2, Unfolded DEF ServingWith
<1> QED BY <1>3 DEF Serving

LEMMA ServingQueue ==
    ASSUME IInv, NEW ph \in [Tasks -> Phases \cup {"none"}],
           ActiveIn(ph) \subseteq Active, ProcessNext(queue, ph)
    PROVE  Serving(ph)
<1>1. InOrder(queue)
    BY DEF InOrder
<1>2. ServingWith(queue, ph)
    BY <1>1, Unfolded DEF ServingWith
<1> QED BY <1>2 DEF Serving

(* Files put behind the queue leave its order alone.                       *)
LEMMA MoreInOrder ==
    ASSUME IInv, NEW more, IsOrder(more, Tasks), Elems(more) \cap Live = {},
           NEW q, q = Concat(queue, more)
    PROVE  /\ IsOrder(q, Tasks)
           /\ Elems(q) = Pending \cup Elems(more)
           /\ Elems(more) \cap Active = {}
           /\ InOrder(q)
<1>1. IsOrder(queue, Tasks) /\ Pending = Elems(queue)
    BY Unfolded
<1>2. Elems(queue) \cap Elems(more) = {}
    BY <1>1 DEF Live
<1>3. IsOrder(q, Tasks) /\ Elems(q) = Elems(queue) \cup Elems(more)
    BY <1>1, <1>2, ConcatIsOrder
<1>4. InOrder(q)
    BY DEF InOrder, Concat
<1> QED BY <1>1, <1>3, <1>4 DEF Live

LEMMA ServingMore ==
    ASSUME IInv, NEW more, IsOrder(more, Tasks), Elems(more) \cap Live = {},
           NEW q, q = Concat(queue, more), ProcessNext(q, phase)
    PROVE  Serving(phase)
<1>1. /\ IsOrder(q, Tasks)
      /\ Elems(q) = Pending \cup Elems(more)
      /\ Elems(more) \cap Active = {}
      /\ InOrder(q)
    BY MoreInOrder
<1>2. ServingWith(q, phase)
    BY <1>1, Unfolded DEF ServingWith
<1> QED BY <1>2 DEF Serving

LEMMA ServingFront ==
    ASSUME IInv, NEW g \in Groups, PrioritizeGroup(g)
    PROVE  Serving(phase)
<1> DEFINE F == Pending \cap FilesOf(g)
           q == ToFront(queue, F)
<1>1. IsOrder(q, Tasks) /\ Elems(q) = Pending
    BY Unfolded, ToFrontIsOrder
<1>2. ASSUME NEW t \in Elems(q), NEW u \in Elems(q), <<u, t>> \in queue,
             ~PrioritizeGroup(GroupOf[t])
      PROVE  <<u, t>> \in q
    <2>1. t \notin F
        BY <1>2 DEF FilesOf
    <2>2. CASE u \in F
        <3>1. u \in Elems(Keep(queue, F)) /\ t \in Elems(Without(queue, F))
            BY <1>1, <2>1, <2>2, Unfolded, KeepIsOrder, WithoutIsOrder
        <3> QED BY <3>1 DEF ToFront, Concat
    <2>3. CASE u \notin F
        BY <1>2, <2>1, <2>3 DEF ToFront, Concat, Without
    <2> QED BY <2>2, <2>3
<1>3. InOrder(q)
    BY <1>2 DEF InOrder
<1>4. ProcessNext(q, phase)
    BY DEF PrioritizeGroup
<1>5. ServingWith(q, phase)
    BY <1>1, <1>3, <1>4, Unfolded DEF ServingWith
<1> QED BY <1>5 DEF Serving

LEMMA ServingAdd ==
    ASSUME IInv, NEW t \in Tasks, Add(t)
    PROVE  Serving(phase)
<1>1. IsOrder({<<t, t>>}, Tasks) /\ Elems({<<t, t>>}) = {t}
    BY SingleIsOrder
<1>2. ProcessNext(Concat(queue, {<<t, t>>}), phase) /\ t \notin Live
    BY DEF Add, AddLast, Fresh
<1> QED BY <1>1, <1>2, ServingMore

LEMMA ServingRetry ==
    ASSUME IInv, NEW g \in Groups, RetryFailed(g)
    PROVE  Serving(phase)
<1> DEFINE failed == {t \in Elems(history) : GroupOf[t] = g /\ outcome[t] = "failed"}
           C == FirstOf(history, failed, RetryLimit)
           n == Keep(history, C)
<1>1. C \subseteq failed
    BY DEF FirstOf
<1>2. IsOrder(n, Tasks) /\ Elems(n) \subseteq C
    BY Unfolded, KeepIsOrder DEF Recorded
<1>3. ProcessNext(Concat(queue, n), phase)
    BY DEF RetryFailed
<1>4. Elems(n) \cap Live = {}
    BY <1>1, <1>2, Unfolded DEF Live
<1> QED BY <1>2, <1>3, <1>4, ServingMore

(* The phases and the line that beginUpload and an ended file leave.       *)
Asked(t) == [phase EXCEPT ![t] = "waiting_upload"]
BeginLine(t) == AddLast(Without(waiters, {t}), t)
Left(t) == [phase EXCEPT ![t] = "none"]

LEMMA ServingBegin ==
    ASSUME IInv, NEW t \in Tasks, BeginUpload(t)
    PROVE  /\ Asked(t) \in [Tasks -> Phases \cup {"none"}] /\ ActiveIn(Asked(t)) = Active
           /\ IsOrder(BeginLine(t), Tasks) /\ Elems(BeginLine(t)) = Elems(waiters) \cup {t}
           /\ Serving(Promoted(BeginLine(t), Asked(t)))
<1>1. /\ Asked(t) \in [Tasks -> Phases \cup {"none"}]
      /\ ActiveIn(Asked(t)) = Active
      /\ t \in Active
    BY Unfolded DEF BeginUpload, ActiveIn, Phases, Downloads, Asked
<1>2. IsOrder(BeginLine(t), Tasks) /\ Elems(BeginLine(t)) = Elems(waiters) \cup {t}
    <2>1. /\ IsOrder(Without(waiters, {t}), Tasks)
          /\ Elems(Without(waiters, {t})) = Elems(waiters) \ {t}
        BY Unfolded, WithoutIsOrder DEF Recorded
    <2>2. /\ IsOrder(BeginLine(t), Tasks)
          /\ Elems(BeginLine(t)) = (Elems(waiters) \ {t}) \cup {t}
        BY <2>1, AddLastIsOrder DEF BeginLine
    <2> QED BY <2>2
<1>3. Elems(BeginLine(t)) \subseteq ActiveIn(Asked(t))
    BY <1>1, <1>2, Unfolded
<1>4. ProcessNext(queue, Promoted(BeginLine(t), Asked(t)))
    BY DEF BeginUpload, BeginLine, Asked
<1>5. /\ Promoted(BeginLine(t), Asked(t)) \in [Tasks -> Phases \cup {"none"}]
      /\ ActiveIn(Promoted(BeginLine(t), Asked(t))) = Active
    BY <1>1, <1>2, <1>3, PromotedIsActive
<1>6. Serving(Promoted(BeginLine(t), Asked(t)))
    BY <1>4, <1>5, ServingQueue
<1> QED BY <1>1, <1>2, <1>6

LEMMA ServingSettle ==
    ASSUME IInv, NEW t \in Tasks, Ends(t)
    PROVE  /\ Left(t) \in [Tasks -> Phases \cup {"none"}] /\ ActiveIn(Left(t)) = Active \ {t}
           /\ IsOrder(Without(waiters, {t}), Tasks)
           /\ Elems(Without(waiters, {t})) = Elems(waiters) \ {t}
           /\ Serving(Promoted(Without(waiters, {t}), Left(t)))
<1> DEFINE line == Without(waiters, {t})
<1>1. Left(t) \in [Tasks -> Phases \cup {"none"}] /\ ActiveIn(Left(t)) = Active \ {t}
    BY Unfolded DEF ActiveIn, Active, Left
<1>2. IsOrder(line, Tasks) /\ Elems(line) = Elems(waiters) \ {t}
    BY Unfolded, WithoutIsOrder DEF Recorded
<1>3. ProcessNext(queue, Promoted(line, Left(t)))
    BY DEF Ends, Settle, Reschedule, Left
<1>4. Elems(line) \subseteq ActiveIn(Left(t))
    BY <1>1, <1>2, Unfolded
<1> HIDE DEF line
<1>5. /\ Promoted(line, Left(t)) \in [Tasks -> Phases \cup {"none"}]
      /\ ActiveIn(Promoted(line, Left(t))) = Active \ {t}
    BY <1>1, <1>2, <1>4, PromotedIsActive
<1>6. Serving(Promoted(line, Left(t)))
    BY <1>3, <1>5, ServingQueue
<1> QED BY <1>1, <1>2, <1>6 DEF line

(* The steps that start nothing.                                           *)
Silent ==
    \/ \E t \in Tasks : SetRetrying(t) \/ Progress(t) \/ DiskWait(t)
                        \/ WaitForStorage(t) \/ AddRefused(t)
    \/ \E g \in Groups, n \in Expected : EnsureGroup(g, n)
    \/ \E g \in Groups, ended \in [Tasks -> Outcomes \cup {"none"}], paused \in BOOLEAN :
          RestoreGroup(g, ended, paused)
    \/ \E s \in Scopes : PauseScope(s)
    \/ PauseAll
    \/ ForceStopAll
    \/ UNCHANGED vars

LEMMA StepKinds ==
    ASSUME IInv, [Next]_vars
    PROVE  (\E ph : Serving(ph)) \/ Silent
<1>1. phase \in [Tasks -> Phases \cup {"none"}] /\ ActiveIn(phase) \subseteq Active
    BY Unfolded
<1>2. ProcessNext(queue, phase) => Serving(phase)
    BY <1>1, ServingQueue
<1>3. CASE Execution
    <2>1. ASSUME NEW t \in Tasks, DiskRelease(t) PROVE Serving(phase)
        BY <1>2, <2>1 DEF DiskRelease
    <2> QED BY <1>3, <2>1, ServingBegin, ServingSettle DEF Execution, Silent
<1>4. CASE Arrival
    BY <1>4, ServingAdd, ServingRetry DEF Arrival, Silent
<1>5. CASE Control
    <2>1. ASSUME NEW n \in Limits, SetMaxConcurrent(n) PROVE Serving(phase)
        BY <1>2, <2>1 DEF SetMaxConcurrent
    <2>2. ASSUME NEW g \in Groups, PauseGroup(g) \/ ResumeGroup(g) PROVE Serving(phase)
        BY <1>2, <2>2 DEF PauseGroup, ResumeGroup
    <2>3. ASSUME NEW g \in Groups, CancelGroup(g) PROVE Serving(phase)
        BY <2>3, ServingPart DEF CancelGroup
    <2>4. ASSUME NEW s \in Scopes, ResumeScope(s) PROVE Serving(phase)
        BY <1>2, <2>4 DEF ResumeScope
    <2>5. ASSUME NEW s \in Scopes, CancelScope(s) PROVE Serving(phase)
        BY <2>5, ServingPart DEF CancelScope
    <2>6. ASSUME NEW t \in Tasks, CancelPending(t) PROVE Serving(phase)
        BY <2>6, ServingPart DEF CancelPending
    <2>7. ASSUME NEW t \in Tasks, CancelActive(t) PROVE Serving(phase)
        BY <1>2, <2>7 DEF CancelActive
    <2>8. CASE ResumeAll
        BY <1>2, <2>8 DEF ResumeAll
    <2> QED BY <1>5, <2>1, <2>2, <2>3, <2>4, <2>5, <2>6, <2>7, <2>8, ServingFront
        DEF Control, Silent
<1> QED BY <1>3, <1>4, <1>5 DEF Next, Silent

LEMMA SilentStartsNone ==
    ASSUME IInv, Silent
    PROVE  Quiet
<1>1. \A t \in Pending : t \in Tasks /\ phase[t] = "none"
    BY Unfolded DEF ActiveIn
<1>2. UNCHANGED phase => Quiet
    BY <1>1 DEF Quiet
<1>3. ASSUME NEW t \in Tasks, SetRetrying(t) \/ Progress(t) PROVE Quiet
    BY <1>1, <1>3, Unfolded DEF SetRetrying, Progress, Quiet
<1>4. ASSUME NEW t \in Tasks, WaitForStorage(t) PROVE Quiet
    <2> DEFINE stopped == [phase EXCEPT ![t] = "waiting_storage"]
    <2>1. stopped \in [Tasks -> Phases \cup {"none"}] /\ ActiveIn(stopped) = Active
        BY <1>4, Unfolded DEF WaitForStorage, ActiveIn, Phases, Downloads
    <2>2. phase' = Promoted(waiters, stopped)
        BY <1>4 DEF WaitForStorage
    <2> HIDE DEF stopped
    <2>3. ActiveIn(phase') = Active
        BY <2>1, <2>2, PromotedIsActive, Unfolded DEF Recorded
    <2> QED BY <1>1, <2>3, Unfolded DEF ActiveIn, Quiet
<1>5. ASSUME NEW t \in Tasks, DiskWait(t) \/ AddRefused(t) PROVE Quiet
    BY <1>2, <1>5 DEF DiskWait, AddRefused, executorVars
<1>6. ASSUME NEW g \in Groups, NEW n \in Expected, EnsureGroup(g, n) PROVE Quiet
    BY <1>2, <1>6 DEF EnsureGroup, executorVars
<1>7. ASSUME NEW g \in Groups, NEW ended \in [Tasks -> Outcomes \cup {"none"}],
             NEW paused \in BOOLEAN, RestoreGroup(g, ended, paused)
      PROVE  Quiet
    BY <1>2, <1>7 DEF RestoreGroup
<1>8. ASSUME NEW s \in Scopes, PauseScope(s) PROVE Quiet
    BY <1>2, <1>8 DEF PauseScope, executorVars
<1>9. CASE PauseAll \/ ForceStopAll \/ UNCHANGED vars
    BY <1>2, <1>9 DEF PauseAll, ForceStopAll, vars, executorVars
<1> QED BY <1>3, <1>4, <1>5, <1>6, <1>7, <1>8, <1>9 DEF Silent

-----------------------------------------------------------------------------
(* What a step starts, and in which order.                                 *)

LEMMA ControlsStep ==
    ASSUME IInv, [Next]_vars
    PROVE  LET started == {t \in Pending : phase'[t] # "none"}
           IN started # {} =>
                /\ DownloadCount(phase') <= maxConcurrent'
                /\ ~GloballyPaused'
                /\ \A t \in started : Runnable(t)'
<1>0. maxConcurrent' \in Nat
    <2>1. IInv'
        BY NextStep
    <2> QED BY <2>1, QueueAssumption DEF IInv, TypeOK
<1>1. CASE \E ph : Serving(ph)
    <2>1. PICK q, ph : ServingWith(q, ph)
        BY <1>1 DEF Serving
    <2> DEFINE S == ToStart(q, ph)
    <2>2. /\ phase' = [t \in Tasks |-> IF t \in S THEN "downloading" ELSE ph[t]]
          /\ S # {} => /\ ~GloballyPaused'
                       /\ DownloadCount(phase') <= maxConcurrent'
                       /\ \A t \in S : Runnable(t)'
        BY <1>0, <2>1, Served
    <2> HIDE DEF S
    <2>3. \A t \in Pending : t \in Tasks /\ ph[t] = "none"
        BY <2>1, Unfolded DEF ServingWith, ActiveIn
    <2>4. \A t \in Pending : phase'[t] # "none" => t \in S
        BY <2>2, <2>3
    <2> QED BY <2>2, <2>4
<1>2. CASE Silent
    BY <1>2, SilentStartsNone DEF Quiet
<1> QED BY <1>1, <1>2, StepKinds

(* processNext starts files only within the limit setMaxConcurrent gave,   *)
(* and none that a pause or a cancellation holds back after the step.      *)
THEOREM ControlsRespected == Spec => StartsRespectControls
BY Invariance, ControlsStep, PTL DEF Spec, StartsRespectControls

LEMMA OrderStep ==
    ASSUME IInv, [Next]_vars
    PROVE  \A t, u \in Pending :
              <<u, t>> \in queue /\ phase'[t] # "none" /\ u \in Pending'
                => ~Runnable(u)' \/ PrioritizeGroup(GroupOf[t])
<1>0. maxConcurrent' \in Nat
    <2>1. IInv'
        BY NextStep
    <2> QED BY <2>1, QueueAssumption DEF IInv, TypeOK
<1>1. CASE \E ph : Serving(ph)
    <2>1. PICK q, ph : ServingWith(q, ph)
        BY <1>1 DEF Serving
    <2> DEFINE S == ToStart(q, ph)
    <2>2. /\ S \subseteq Elems(q) /\ Elems(queue') = Elems(q) \ S
          /\ phase' = [t \in Tasks |-> IF t \in S THEN "downloading" ELSE ph[t]]
          /\ \A t \in S, u \in Elems(q) : Runnable(u)' /\ <<u, t>> \in q => u \in S
        BY <1>0, <2>1, Served
    <2> HIDE DEF S
    <2>3. \A t \in Pending : t \in Tasks /\ ph[t] = "none"
        BY <2>1, Unfolded DEF ServingWith, ActiveIn
    <2>4. \A t \in Pending : phase'[t] # "none" => t \in S
        BY <2>2, <2>3
    <2>5. \A t, u \in Elems(q) :
             <<u, t>> \in queue => <<u, t>> \in q \/ PrioritizeGroup(GroupOf[t])
        BY <2>1 DEF ServingWith, InOrder
    <2>6. Pending' = Elems(q) \ S
        BY <2>2 DEF Pending
    <2> QED BY <2>2, <2>4, <2>5, <2>6
<1>2. CASE Silent
    BY <1>2, SilentStartsNone DEF Quiet
<1> QED BY <1>1, <1>2, StepKinds

(* Files are started in the order of the queue: no runnable file ahead of  *)
(* a started one is left waiting, unless the step was a prioritizeGroup.   *)
THEOREM OrderServed == Spec => ServedInOrder
BY Invariance, OrderStep, PTL DEF Spec, ServedInOrder
-----------------------------------------------------------------------------
(* The upload slots.                                                       *)

(* w is the line of the files that ph says wait for a slot; it is empty    *)
(* unless all slots are taken.                                             *)
InLine(w, ph, ab) ==
    /\ UploadCount(ph) <= MaxUploads
    /\ Elems(w) = {t \in Tasks : ph[t] = "waiting_upload" /\ t \notin ab}
    /\ Elems(w) # {} => UploadCount(ph) = MaxUploads

LEMMA SlotsAreInLine == UploadSlots <=> InLine(waiters, phase, aborted)
BY DEF UploadSlots, InLine, Active

(* processUploads fills the slots from a line that was not served yet.     *)
LEMMA PromotedLine ==
    ASSUME NEW w, IsOrder(w, Tasks), NEW ph \in [Tasks -> Phases \cup {"none"}], NEW ab,
           UploadCount(ph) <= MaxUploads,
           Elems(w) = {t \in Tasks : ph[t] = "waiting_upload" /\ t \notin ab}
    PROVE  InLine(Without(w, ToUpload(w, ph)), Promoted(w, ph), ab)
<1> DEFINE U == UploadCount(ph)
           k == MaxUploads - U
           F == ToUpload(w, ph)
           E == Elems(w)
           Old == {t \in Tasks : ph[t] = "uploading"}
<1>1. U \in Nat /\ IsFiniteSet(Old) /\ U = Cardinality(Old)
    BY Counts DEF UploadCount
<1>2. E \subseteq Tasks /\ IsFiniteSet(E)
    BY ElemsOfOrder, QueueAssumption, FS_Subset
<1>3. F = FirstOf(w, E, k)
    BY DEF ToUpload
<1>4. k \in Int /\ k >= 0
    <2>1. U <= MaxUploads
        OBVIOUS
    <2> HIDE DEF U
    <2> QED BY <1>1, <2>1, QueueAssumption
<1>5. Elems(Without(w, F)) = E \ F
    BY WithoutIsOrder
<1>6. \A t \in Tasks : Promoted(w, ph)[t] = IF t \in F THEN "uploading" ELSE ph[t]
    BY DEF Promoted
<1>7. \A t \in Tasks : t \in E <=> ph[t] = "waiting_upload" /\ t \notin ab
    OBVIOUS
<1>8. E \subseteq Elems(w)
    OBVIOUS
<1> HIDE DEF U, F, E
<1>9. /\ F \subseteq E /\ IsFiniteSet(F) /\ Cardinality(F) \in Nat
      /\ Cardinality(F) <= k
      /\ F # E => Cardinality(F) >= k
    <2> HIDE DEF k
    <2> QED BY <1>2, <1>3, <1>4, <1>8, FirstOfBounds
<1>10. UploadCount(Promoted(w, ph)) = U + Cardinality(F)
    <2>1. F \cap Old = {}
        BY <1>2, <1>7, <1>9
    <2>2. {t \in Tasks : Promoted(w, ph)[t] = "uploading"} = Old \cup F
        BY <1>2, <1>6, <1>9
    <2> HIDE DEF Old
    <2>3. Cardinality(Old \cup F) = Cardinality(Old) + Cardinality(F) - Cardinality({})
        BY <1>1, <1>9, <2>1, FS_Union
    <2>4. Cardinality(Old \cup F) = U + Cardinality(F)
        BY <1>1, <1>9, <2>3, FS_EmptySet
    <2> QED BY <2>2, <2>4 DEF UploadCount
<1>11. UploadCount(Promoted(w, ph)) <= MaxUploads
       /\ (E \ F # {} => UploadCount(Promoted(w, ph)) = MaxUploads)
    BY <1>1, <1>9, <1>10, QueueAssumption
<1>12. E \ F = {t \in Tasks : Promoted(w, ph)[t] = "waiting_upload" /\ t \notin ab}
    BY <1>2, <1>6, <1>7, <1>9
<1> QED BY <1>5, <1>11, <1>12 DEF InLine, F

(* processNext starts downloads of files that did nothing before: the line *)
(* and the uploads stay as they are.                                       *)
LEMMA ServedLine ==
    ASSUME NEW ph, Serving(ph), NEW w, NEW ab, InLine(w, ph, ab)
    PROVE  InLine(w, phase', ab)
<1>1. PICK q : ServingWith(q, ph)
    BY DEF Serving
<1> DEFINE S == ToStart(q, ph)
<1>2. S \subseteq Elems(q)
    BY DEF ToStart, FirstOf
<1>3. phase' = [t \in Tasks |-> IF t \in S THEN "downloading" ELSE ph[t]]
    BY <1>1 DEF ServingWith, ProcessNext
<1> HIDE DEF S
<1>4. \A t \in S : t \in Tasks => ph[t] = "none"
    BY <1>1, <1>2 DEF ServingWith, ActiveIn
<1>5. /\ {t \in Tasks : phase'[t] = "uploading"} = {t \in Tasks : ph[t] = "uploading"}
      /\ {t \in Tasks : phase'[t] = "waiting_upload" /\ t \notin ab}
            = {t \in Tasks : ph[t] = "waiting_upload" /\ t \notin ab}
    BY <1>3, <1>4
<1> QED BY <1>5 DEF InLine, UploadCount

(* Files that are told to stop leave the line.                             *)
LEMMA ShorterLine ==
    ASSUME IInv, NEW X, InLine(waiters, phase, aborted)
    PROVE  InLine(Without(waiters, X), phase, aborted \cup X)
<1>1. Elems(Without(waiters, X)) = Elems(waiters) \ X
    BY Unfolded, WithoutIsOrder DEF Recorded
<1> QED BY <1>1 DEF InLine

LEMMA SameUploads ==
    ASSUME NEW ph, NEW w, NEW ab, InLine(w, ph, ab), NEW new,
           \A t \in Tasks : /\ new[t] = "uploading" <=> ph[t] = "uploading"
                            /\ new[t] = "waiting_upload" <=> ph[t] = "waiting_upload"
    PROVE  InLine(w, new, ab)
<1>1. /\ {t \in Tasks : new[t] = "uploading"} = {t \in Tasks : ph[t] = "uploading"}
      /\ {t \in Tasks : new[t] = "waiting_upload" /\ t \notin ab}
            = {t \in Tasks : ph[t] = "waiting_upload" /\ t \notin ab}
    OBVIOUS
<1> QED BY <1>1 DEF InLine, UploadCount

(* An upload that gives its slot back leaves one free.                     *)
LEMMA SlotsLeft ==
    ASSUME IInv, NEW new, UploadCount(phase) <= MaxUploads,
           \A t \in Tasks : new[t] = "uploading" => phase[t] = "uploading"
    PROVE  UploadCount(new) <= MaxUploads
<1> DEFINE A == {t \in Tasks : new[t] = "uploading"}
           B == {t \in Tasks : phase[t] = "uploading"}
<1>1. A \in SUBSET B /\ IsFiniteSet(B)
    BY Counts
<1>2. UploadCount(new) = Cardinality(A) /\ UploadCount(phase) = Cardinality(B)
    BY DEF UploadCount
<1> HIDE DEF A, B
<1>3. Cardinality(A) <= Cardinality(B) /\ Cardinality(B) \in Nat /\ Cardinality(A) \in Nat
    BY <1>1, FS_Subset, FS_CardinalityType
<1> QED BY <1>2, <1>3, QueueAssumption

LEMMA BeginUploadLine ==
    ASSUME IInv, NEW t \in Tasks, BeginUpload(t), InLine(waiters, phase, aborted)
    PROVE  InLine(waiters', phase', aborted')
<1> DEFINE line == BeginLine(t)
           asked == Asked(t)
<1>1. /\ asked \in [Tasks -> Phases \cup {"none"}]
      /\ IsOrder(line, Tasks) /\ Elems(line) = Elems(waiters) \cup {t}
      /\ Serving(Promoted(line, asked))
    BY ServingBegin
<1>2. /\ waiters' = Without(line, ToUpload(line, asked))
      /\ aborted' = aborted /\ t \notin aborted
      /\ phase[t] \in {"downloading", "waiting_storage"}
    BY DEF BeginUpload, ProcessUploads, BeginLine, Asked
<1>3. \A u \in Tasks : asked[u] = IF u = t THEN "waiting_upload" ELSE phase[u]
    BY Unfolded DEF Asked
<1> HIDE DEF line, asked
<1>4. UploadCount(asked) <= MaxUploads
    BY <1>3, SlotsLeft DEF InLine
<1>5. Elems(line) = {u \in Tasks : asked[u] = "waiting_upload" /\ u \notin aborted}
    BY <1>1, <1>2, <1>3 DEF InLine
<1>6. InLine(waiters', Promoted(line, asked), aborted)
    BY <1>1, <1>2, <1>4, <1>5, PromotedLine
<1> QED BY <1>1, <1>2, <1>6, ServedLine

LEMMA WaitForStorageLine ==
    ASSUME IInv, NEW t \in Tasks, WaitForStorage(t), InLine(waiters, phase, aborted)
    PROVE  InLine(waiters', phase', aborted')
<1> DEFINE stopped == [phase EXCEPT ![t] = "waiting_storage"]
<1>1. /\ stopped \in [Tasks -> Phases \cup {"none"}] /\ phase[t] = "uploading"
      /\ \A u \in Tasks : stopped[u] = IF u = t THEN "waiting_storage" ELSE phase[u]
    BY Unfolded DEF WaitForStorage, Phases, Downloads
<1>2. /\ waiters' = Without(waiters, ToUpload(waiters, stopped))
      /\ phase' = Promoted(waiters, stopped)
      /\ aborted' = aborted
    BY DEF WaitForStorage, ProcessUploads
<1> HIDE DEF stopped
<1>3. UploadCount(stopped) <= MaxUploads
    BY <1>1, SlotsLeft DEF InLine
<1>4. Elems(waiters) = {u \in Tasks : stopped[u] = "waiting_upload" /\ u \notin aborted}
    BY <1>1 DEF InLine
<1>5. IsOrder(waiters, Tasks)
    BY Unfolded DEF Recorded
<1> QED BY <1>1, <1>2, <1>3, <1>4, <1>5, PromotedLine

LEMMA SettleLine ==
    ASSUME IInv, NEW t \in Tasks, Ends(t), InLine(waiters, phase, aborted)
    PROVE  InLine(waiters', phase', aborted')
<1> DEFINE line == Without(waiters, {t})
           left == Left(t)
<1>1. /\ left \in [Tasks -> Phases \cup {"none"}]
      /\ IsOrder(line, Tasks) /\ Elems(line) = Elems(waiters) \ {t}
      /\ Serving(Promoted(line, left))
    BY ServingSettle
<1>2. /\ waiters' = Without(line, ToUpload(line, left))
      /\ aborted' = aborted \ {t}
    BY DEF Ends, Settle, Reschedule, ProcessUploads, Left
<1>3. \A u \in Tasks : left[u] = IF u = t THEN "none" ELSE phase[u]
    BY Unfolded DEF Left
<1> HIDE DEF line, left
<1>4. UploadCount(left) <= MaxUploads
    BY <1>3, SlotsLeft DEF InLine
<1>5. Elems(line) = {u \in Tasks : left[u] = "waiting_upload" /\ u \notin aborted \ {t}}
    BY <1>1, <1>3 DEF InLine
<1>6. InLine(waiters', Promoted(line, left), aborted \ {t})
    BY <1>1, <1>2, <1>4, <1>5, PromotedLine
<1> QED BY <1>1, <1>2, <1>6, ServedLine

LEMMA CancelledLine ==
    ASSUME IInv, NEW gs, CancelGroupTasks(gs), InLine(waiters, phase, aborted)
    PROVE  InLine(waiters', phase, aborted')
<1> DEFINE hit == {t \in Active : GroupOf[t] \in gs}
<1>1. aborted' = aborted \cup hit /\ waiters' = Without(waiters, hit)
    BY DEF CancelGroupTasks
<1> HIDE DEF hit
<1> QED BY <1>1, ShorterLine

LEMMA LineStep ==
    ASSUME IInv, [Next]_vars, InLine(waiters, phase, aborted)
    PROVE  InLine(waiters', phase', aborted')
<1>1. ASSUME Serving(phase), UNCHANGED <<waiters, aborted>>
      PROVE  InLine(waiters', phase', aborted')
    BY <1>1, ServedLine
<1>2. ASSUME UNCHANGED <<phase, waiters, aborted>>
      PROVE  InLine(waiters', phase', aborted')
    BY <1>2
<1>3. phase \in [Tasks -> Phases \cup {"none"}] /\ ActiveIn(phase) \subseteq Active
    BY Unfolded
<1>4. ProcessNext(queue, phase) => Serving(phase)
    BY <1>3, ServingQueue
<1>5. CASE Execution
    <2>1. ASSUME NEW t \in Tasks, SetRetrying(t) \/ Progress(t)
          PROVE  InLine(waiters', phase', aborted')
        <3>1. UNCHANGED <<waiters, aborted>>
            BY <2>1 DEF SetRetrying, Progress
        <3>2. \A u \in Tasks : /\ phase'[u] = "uploading" <=> phase[u] = "uploading"
                               /\ phase'[u] = "waiting_upload" <=> phase[u] = "waiting_upload"
            BY <1>3, <2>1 DEF SetRetrying, Progress
        <3> QED BY <3>1, <3>2, SameUploads
    <2>2. ASSUME NEW t \in Tasks, DiskWait(t) PROVE InLine(waiters', phase', aborted')
        BY <1>2, <2>2 DEF DiskWait, executorVars
    <2>3. ASSUME NEW t \in Tasks, DiskRelease(t) PROVE InLine(waiters', phase', aborted')
        BY <1>1, <1>4, <2>3 DEF DiskRelease
    <2> QED BY <1>5, <2>1, <2>2, <2>3, BeginUploadLine, WaitForStorageLine, SettleLine
        DEF Execution
<1>6. CASE Arrival
    <2>1. ASSUME NEW g \in Groups, NEW n \in Expected, EnsureGroup(g, n)
          PROVE  InLine(waiters', phase', aborted')
        BY <1>2, <2>1 DEF EnsureGroup, executorVars
    <2>2. ASSUME NEW g \in Groups, NEW ended \in [Tasks -> Outcomes \cup {"none"}],
                 NEW paused \in BOOLEAN, RestoreGroup(g, ended, paused)
          PROVE  InLine(waiters', phase', aborted')
        BY <1>2, <2>2 DEF RestoreGroup
    <2>3. ASSUME NEW t \in Tasks, Add(t) PROVE InLine(waiters', phase', aborted')
        <3>1. UNCHANGED <<waiters, aborted>>
            BY <2>3 DEF Add
        <3> QED BY <1>1, <2>3, <3>1, ServingAdd
    <2>4. ASSUME NEW t \in Tasks, AddRefused(t) PROVE InLine(waiters', phase', aborted')
        BY <1>2, <2>4 DEF AddRefused
    <2>5. ASSUME NEW g \in Groups, RetryFailed(g) PROVE InLine(waiters', phase', aborted')
        <3>1. UNCHANGED <<waiters, aborted>>
            BY <2>5 DEF RetryFailed
        <3> QED BY <1>1, <2>5, <3>1, ServingRetry
    <2> QED BY <1>6, <2>1, <2>2, <2>3, <2>4, <2>5 DEF Arrival
<1>7. CASE Control
    <2>1. ASSUME NEW n \in Limits, SetMaxConcurrent(n) PROVE InLine(waiters', phase', aborted')
        BY <1>1, <1>4, <2>1 DEF SetMaxConcurrent
    <2>2. ASSUME NEW g \in Groups, PauseGroup(g) \/ ResumeGroup(g)
          PROVE  InLine(waiters', phase', aborted')
        BY <1>1, <1>4, <2>2 DEF PauseGroup, ResumeGroup
    <2>3. ASSUME NEW g \in Groups, PrioritizeGroup(g) PROVE InLine(waiters', phase', aborted')
        <3>1. UNCHANGED <<waiters, aborted>>
            BY <2>3 DEF PrioritizeGroup
        <3> QED BY <1>1, <2>3, <3>1, ServingFront
    <2>4. ASSUME NEW g \in Groups, CancelGroup(g) PROVE InLine(waiters', phase', aborted')
        <3>1. InLine(waiters', phase, aborted')
            BY <2>4, CancelledLine DEF CancelGroup
        <3>2. Serving(phase)
            BY <2>4, ServingPart DEF CancelGroup
        <3> QED BY <3>1, <3>2, ServedLine
    <2>5. ASSUME NEW s \in Scopes, CancelScope(s) PROVE InLine(waiters', phase', aborted')
        <3>1. InLine(waiters', phase, aborted')
            BY <2>5, CancelledLine DEF CancelScope
        <3>2. Serving(phase)
            BY <2>5, ServingPart DEF CancelScope
        <3> QED BY <3>1, <3>2, ServedLine
    <2>6. ASSUME NEW s \in Scopes, PauseScope(s) PROVE InLine(waiters', phase', aborted')
        BY <1>2, <2>6 DEF PauseScope, executorVars
    <2>7. ASSUME NEW s \in Scopes, ResumeScope(s) PROVE InLine(waiters', phase', aborted')
        BY <1>1, <1>4, <2>7 DEF ResumeScope
    <2>8. ASSUME NEW t \in Tasks, CancelPending(t) PROVE InLine(waiters', phase', aborted')
        <3>1. UNCHANGED <<waiters, aborted>>
            BY <2>8 DEF CancelPending
        <3>2. Serving(phase)
            BY <2>8, ServingPart DEF CancelPending
        <3> QED BY <1>1, <3>1, <3>2
    <2>9. ASSUME NEW t \in Tasks, CancelActive(t) PROVE InLine(waiters', phase', aborted')
        <3>1. aborted' = aborted \cup {t} /\ waiters' = Without(waiters, {t})
            BY <2>9 DEF CancelActive
        <3>2. InLine(waiters', phase, aborted')
            BY <3>1, ShorterLine
        <3>3. Serving(phase)
            BY <1>4, <2>9 DEF CancelActive
        <3> QED BY <3>2, <3>3, ServedLine
    <2>10. CASE PauseAll
        BY <1>2, <2>10 DEF PauseAll, executorVars
    <2>11. CASE ResumeAll
        BY <1>1, <1>4, <2>11 DEF ResumeAll
    <2>12. CASE ForceStopAll
        <3>1. InLine(waiters', phase, aborted') /\ phase' = phase
            BY <2>12, CancelledLine DEF ForceStopAll
        <3> QED BY <3>1
    <2> QED BY <1>7, <2>1, <2>2, <2>3, <2>4, <2>5, <2>6, <2>7, <2>8, <2>9, <2>10, <2>11, <2>12
        DEF Control
<1>8. CASE UNCHANGED vars
    BY <1>2, <1>8 DEF vars, executorVars
<1> QED BY <1>5, <1>6, <1>7, <1>8 DEF Next
(* The invariant with the slots: every task that asked for an upload slot  *)
(* is in line, so only files that do not download are promoted.            *)
SlotsInv == IInv /\ InLine(waiters, phase, aborted)

LEMMA SlotsInvariance == Spec => []SlotsInv
<1>1. Init => SlotsInv
    <2> SUFFICES ASSUME Init PROVE SlotsInv
        OBVIOUS
    <2>1. /\ {t \in Tasks : phase[t] = "uploading"} = {}
          /\ {t \in Tasks : phase[t] = "waiting_upload" /\ t \notin aborted} = {}
        BY DEF Init
    <2>2. UploadCount(phase) = 0
        BY <2>1, FS_EmptySet DEF UploadCount
    <2>3. Elems(waiters) = {}
        BY DEF Init, EmptyOrder, Elems
    <2> QED BY <2>1, <2>2, <2>3, InitStep, QueueAssumption DEF SlotsInv, InLine
<1>2. SlotsInv /\ [Next]_vars => SlotsInv'
    <2> SUFFICES ASSUME IInv, InLine(waiters, phase, aborted), [Next]_vars
                 PROVE  SlotsInv'
        BY DEF SlotsInv
    <2>1. InLine(waiters', phase', aborted')
        BY LineStep
    <2>2. InLine(waiters, phase, aborted)'
        BY <2>1 DEF InLine, UploadCount
    <2> QED BY <2>2, NextStep DEF SlotsInv
<1> QED BY <1>1, <1>2, PTL DEF Spec

(* processUploads: never more uploads than slots, every file that asked    *)
(* for a slot is in line or was told to stop, and nobody waits while a     *)
(* slot is free.                                                           *)
THEOREM UploadsInSlots == Spec => []UploadSlots
<1>1. SlotsInv => UploadSlots
    BY SlotsAreInLine DEF SlotsInv
<1> QED BY <1>1, SlotsInvariance, PTL

-----------------------------------------------------------------------------
(* No download slot is wasted.                                             *)

(* A step that neither frees a slot nor makes a file runnable.             *)
LEMMA NothingFreed ==
    ASSUME NoRunnableFileWaits,
           GloballyPaused => GloballyPaused', maxConcurrent' = maxConcurrent,
           \A t \in Tasks : phase'[t] \in Downloads <=> phase[t] \in Downloads,
           \A t \in Elems(queue') : t \in Pending /\ (Runnable(t)' => Runnable(t))
    PROVE  NoRunnableFileWaits'
<1>1. {t \in Tasks : phase'[t] \in Downloads} = {t \in Tasks : phase[t] \in Downloads}
    OBVIOUS
<1>2. DownloadCount(phase') = DownloadCount(phase)
    BY <1>1 DEF DownloadCount
<1>3. CASE GloballyPaused
    BY <1>3 DEF NoRunnableFileWaits
<1>4. CASE DownloadCount(phase) >= maxConcurrent
    <2>1. DownloadCount(phase') >= maxConcurrent'
        BY <1>2, <1>4
    <2> QED BY <2>1 DEF NoRunnableFileWaits, DownloadCount
<1>5. CASE \A t \in Pending : ~Runnable(t)
    <2>1. \A t \in Elems(queue') : ~Runnable(t)'
        BY <1>5
    <2> QED BY <2>1 DEF NoRunnableFileWaits, Pending
<1> QED BY <1>3, <1>4, <1>5 DEF NoRunnableFileWaits

LEMMA ServedAll ==
    ASSUME IInv, [Next]_vars, NEW ph, Serving(ph)
    PROVE  NoRunnableFileWaits'
<1>0. maxConcurrent' \in Nat
    <2>1. IInv'
        BY NextStep
    <2> QED BY <2>1, QueueAssumption DEF IInv, TypeOK
<1>1. PICK q : ServingWith(q, ph)
    BY DEF Serving
<1> DEFINE S == ToStart(q, ph)
<1>2. /\ Elems(queue') = Elems(q) \ S
      /\ \/ GloballyPaused'
         \/ DownloadCount(phase') >= maxConcurrent'
         \/ \A t \in Elems(q) \ S : ~Runnable(t)'
    BY <1>0, <1>1, Served
<1> HIDE DEF S
<1>3. CASE DownloadCount(phase') >= maxConcurrent'
    BY <1>3 DEF NoRunnableFileWaits, DownloadCount
<1>4. CASE \A t \in Elems(q) \ S : ~Runnable(t)'
    <2>1. \A t \in Elems(queue') : ~Runnable(t)'
        BY <1>2, <1>4
    <2> QED BY <2>1 DEF NoRunnableFileWaits, Pending
<1> QED BY <1>2, <1>3, <1>4 DEF NoRunnableFileWaits

LEMMA EnsureGroupFrees ==
    ASSUME IInv, NoRunnableFileWaits, NEW g \in Groups, NEW n \in Expected, EnsureGroup(g, n)
    PROVE  NoRunnableFileWaits'
<1> DEFINE renew == g \notin known \/ TerminalGroup(g)
<1>1. renew => \A t \in Pending : GroupOf[t] # g
    BY Unfolded, TerminalIsIdle DEF TerminalGroup, Live
<1>2. group[g] \in GroupRecord
    BY Unfolded DEF Recorded
<1>3. \A h \in Groups : h # g => group'[h] = group[h]
    BY Unfolded DEF EnsureGroup, Recorded
<1>4. ~renew => group'[g].override = group[g].override
    BY <1>2, Unfolded DEF EnsureGroup, Recorded, GroupRecord
<1>5. /\ \A h \in Groups : h # g => (h \in overrides' <=> h \in overrides)
      /\ ~renew => overrides' = overrides
      /\ UNCHANGED <<queue, phase, maxConcurrent, userPaused, scopePauses, blockers>>
    BY DEF EnsureGroup, executorVars
<1> HIDE DEF renew
<1>6. \A t \in Pending : Runnable(t)' => Runnable(t)
    <2> TAKE t \in Pending
    <2> DEFINE h == GroupOf[t]
    <2>1. h \in Groups
        BY Unfolded, QueueAssumption
    <2>2. group'[h].override = group[h].override /\ (h \in overrides' <=> h \in overrides)
        BY <1>1, <1>3, <1>4, <1>5, <2>1
    <2> QED BY <1>5, <2>2 DEF Runnable, ScopePaused
<1>7. GloballyPaused => GloballyPaused'
    BY <1>5 DEF GloballyPaused
<1> QED BY <1>5, <1>6, <1>7, NothingFreed DEF Pending

LEMMA RestoreGroupFrees ==
    ASSUME IInv, NoRunnableFileWaits, NEW g \in Groups,
           NEW ended \in [Tasks -> Outcomes \cup {"none"}], NEW paused \in BOOLEAN,
           RestoreGroup(g, ended, paused)
    PROVE  NoRunnableFileWaits'
<1>1. \A t \in Pending : GroupOf[t] \in Groups /\ GroupOf[t] # g
    BY Unfolded, QueueAssumption DEF RestoreGroup
<1>2. \A h \in Groups : h # g => group'[h] = group[h]
    BY Unfolded DEF RestoreGroup, Recorded
<1>3. UNCHANGED <<queue, phase, maxConcurrent, userPaused, scopePauses, overrides, blockers>>
    BY DEF RestoreGroup, controlVars
<1>4. \A t \in Pending : Runnable(t)' => Runnable(t)
    BY <1>1, <1>2, <1>3 DEF Runnable, ScopePaused
<1>5. GloballyPaused => GloballyPaused'
    BY <1>3 DEF GloballyPaused
<1> QED BY <1>3, <1>4, <1>5, NothingFreed DEF Pending

LEMMA WaitForStorageFrees ==
    ASSUME SlotsInv, NoRunnableFileWaits, NEW t \in Tasks, WaitForStorage(t)
    PROVE  NoRunnableFileWaits'
<1> DEFINE stopped == [phase EXCEPT ![t] = "waiting_storage"]
           F == ToUpload(waiters, stopped)
<1>0. IInv /\ phase \in [Tasks -> Phases \cup {"none"}]
    BY Unfolded DEF SlotsInv
<1>1. F \subseteq Elems(waiters)
    BY DEF ToUpload, FirstOf
<1>2. \A u \in F : phase[u] = "waiting_upload"
    BY <1>1 DEF SlotsInv, InLine
<1>3. /\ phase' = [u \in Tasks |-> IF u \in F THEN "uploading" ELSE stopped[u]]
      /\ phase[t] = "uploading"
    BY DEF WaitForStorage, Promoted
<1>4. UNCHANGED <<queue, group, maxConcurrent, userPaused, scopePauses, overrides, blockers>>
    BY DEF WaitForStorage, groupVars, controlVars
<1> HIDE DEF F
<1>5. \A u \in Tasks : phase'[u] \in Downloads <=> phase[u] \in Downloads
    BY <1>0, <1>2, <1>3 DEF Downloads
<1>6. \A u \in Pending : Runnable(u)' => Runnable(u)
    BY <1>4 DEF Runnable, ScopePaused
<1>7. GloballyPaused => GloballyPaused'
    BY <1>4 DEF GloballyPaused
<1> QED BY <1>4, <1>5, <1>6, <1>7, NothingFreed DEF Pending

(* forceStopAll: what it leaves in the queue belongs to groups that it     *)
(* neither cancelled nor dropped.                                          *)
LEMMA ForceStopAllFrees ==
    ASSUME IInv, NoRunnableFileWaits, ForceStopAll
    PROVE  NoRunnableFileWaits'
<1> DEFINE gs == {g \in Groups : Cancellable(g)}
           removed == {t \in Pending : GroupOf[t] \in gs}
           idle == {g \in gs : Active \cap FilesOf(g) = {}}
           record(g) == [group[g] EXCEPT
                          !.cancelled = @ + Cardinality(removed \cap FilesOf(g)),
                          !.override = IF g \in idle THEN "cancelled" ELSE "cancelling"]
           records == [g \in Groups |-> IF g \notin gs THEN group[g] ELSE record(g)]
           old == {g \in known \ gs : TerminalGroup(g)}
<1>1. PICK S \in SUBSET (old \cup idle) :
          /\ group' = Forget(records, S)
          /\ overrides' = overrides \ (gs \cup S)
    BY DEF ForceStopAll, CancelGroupTasks, Pruned
<1>2. /\ queue' = Without(queue, UNION {FilesOf(g) : g \in gs})
      /\ UNCHANGED <<phase, scopePauses, maxConcurrent, userPaused, blockers>>
    BY DEF ForceStopAll, CancelGroupTasks
<1>3. Elems(queue') = Pending \ removed
    <2>1. queue' = Without(queue, removed)
        BY <1>2, WithoutGroups
    <2> QED BY <2>1, Unfolded, WithoutIsOrder
<1>4. \A h \in S, t \in Pending \ removed : GroupOf[t] # h
    <2> TAKE h \in S
    <2>1. CASE h \in old
        <3>1. h \in Groups /\ Terminal(group[h], (Pending \cup Active) \cap FilesOf(h))
            BY <2>1, Unfolded DEF TerminalGroup, Live, Recorded
        <3> QED BY <3>1, TerminalIsIdle, Unfolded
    <2>2. CASE h \in idle
        BY <2>2
    <2> QED BY <2>1, <2>2
<1>5. \A t \in Pending \ removed : GroupOf[t] \in Groups /\ GroupOf[t] \notin gs
    BY Unfolded, QueueAssumption
<1> HIDE DEF old, idle, record, gs, removed
<1>6. \A t \in Pending \ removed :
          group'[GroupOf[t]] = group[GroupOf[t]]
          /\ (GroupOf[t] \in overrides' <=> GroupOf[t] \in overrides)
    BY <1>1, <1>4, <1>5 DEF Forget
<1>7. \A t \in Elems(queue') : t \in Pending /\ (Runnable(t)' => Runnable(t))
    BY <1>2, <1>3, <1>6 DEF Runnable, ScopePaused
<1>8. GloballyPaused => GloballyPaused'
    BY <1>2 DEF GloballyPaused
<1> QED BY <1>2, <1>7, <1>8, NothingFreed

LEMMA NoneWaitsStep ==
    ASSUME SlotsInv, NoRunnableFileWaits, [Next]_vars
    PROVE  NoRunnableFileWaits'
<1>0. IInv /\ phase \in [Tasks -> Phases \cup {"none"}]
    BY Unfolded DEF SlotsInv
<1>1. CASE \E ph : Serving(ph)
    BY <1>0, <1>1, ServedAll
<1>2. ASSUME UNCHANGED <<queue, phase, group, maxConcurrent, userPaused, scopePauses,
                         overrides, blockers>>
      PROVE  NoRunnableFileWaits'
    BY <1>2 DEF NoRunnableFileWaits, GloballyPaused, DownloadCount, Pending, Runnable, ScopePaused
<1>3. CASE Silent
    <2>1. ASSUME NEW t \in Tasks, SetRetrying(t) \/ Progress(t) PROVE NoRunnableFileWaits'
        <3>1. \A u \in Tasks : phase'[u] \in Downloads <=> phase[u] \in Downloads
            BY <1>0, <2>1 DEF SetRetrying, Progress, Downloads
        <3>2. UNCHANGED <<queue, group, maxConcurrent, userPaused, scopePauses, overrides, blockers>>
            BY <2>1 DEF SetRetrying, Progress, groupVars, controlVars
        <3>3. \A u \in Pending : Runnable(u)' => Runnable(u)
            BY <3>2 DEF Runnable, ScopePaused
        <3>4. GloballyPaused => GloballyPaused'
            BY <3>2 DEF GloballyPaused
        <3> QED BY <3>1, <3>2, <3>3, <3>4, NothingFreed DEF Pending
    <2>2. ASSUME NEW t \in Tasks, DiskWait(t) PROVE NoRunnableFileWaits'
        BY <2>2 DEF DiskWait, NoRunnableFileWaits, GloballyPaused
    <2>3. ASSUME NEW t \in Tasks, AddRefused(t) PROVE NoRunnableFileWaits'
        BY <1>2, <2>3 DEF AddRefused, groupVars, controlVars
    <2>4. ASSUME NEW s \in Scopes, PauseScope(s) PROVE NoRunnableFileWaits'
        <3>1. /\ UNCHANGED <<queue, phase, group, maxConcurrent, userPaused, blockers>>
              /\ scopePauses \subseteq scopePauses' /\ overrides' \subseteq overrides
            BY <2>4 DEF PauseScope, executorVars, groupVars
        <3>2. \A u \in Pending : Runnable(u)' => Runnable(u)
            BY <3>1 DEF Runnable, ScopePaused
        <3>3. GloballyPaused => GloballyPaused'
            BY <3>1 DEF GloballyPaused
        <3> QED BY <3>1, <3>2, <3>3, NothingFreed DEF Pending
    <2>5. CASE PauseAll
        BY <2>5 DEF PauseAll, NoRunnableFileWaits, GloballyPaused
    <2>6. CASE UNCHANGED vars
        BY <1>2, <2>6 DEF vars, executorVars, groupVars, controlVars
    <2>7. CASE ForceStopAll
        BY <1>0, <2>7, ForceStopAllFrees
    <2> QED BY <1>0, <1>3, <2>1, <2>2, <2>3, <2>4, <2>5, <2>6, <2>7,
               EnsureGroupFrees, RestoreGroupFrees, WaitForStorageFrees
        DEF Silent
<1> QED BY <1>0, <1>1, <1>3, StepKinds

(* No handler forgets processNext: whenever a download slot is free and    *)
(* nothing is paused, no file that may run waits in the queue.             *)
THEOREM NoSlotWasted == Spec => []NoRunnableFileWaits
<1>1. Init => NoRunnableFileWaits
    BY DEF Init, NoRunnableFileWaits, Pending, EmptyOrder, Elems
<1>2. SlotsInv /\ NoRunnableFileWaits /\ [Next]_vars => NoRunnableFileWaits'
    BY NoneWaitsStep
<1> QED BY <1>1, <1>2, SlotsInvariance, PTL DEF Spec

-----------------------------------------------------------------------------
(* What the queue counts.                                                  *)

EndedAs(g, out, o) == {t \in FilesOf(g) : out[t] = o}

CountsEnded(r, g, out) ==
    /\ r.completed <= Cardinality(EndedAs(g, out, "success"))
    /\ r.failed <= Cardinality(EndedAs(g, out, "failed"))
    /\ r.cancelled <= Cardinality(EndedAs(g, out, "cancelled"))

Covers(r, g, live) == Settled(r) + Cardinality(live \cap FilesOf(g)) <= r.expected

Tally(gr, kn, out, live) ==
    \A g \in kn : CountsEnded(gr[g], g, out) /\ Covers(gr[g], g, live)

TallyInv == Tally(group, known, outcome, Live)

TallyThen == Tally(group', known', outcome', Live')

-----------------------------------------------------------------------------
(* Sizes.                                                                  *)

LEMMA Sizes ==
    ASSUME NEW g
    PROVE  /\ IsFiniteSet(FilesOf(g)) /\ Cardinality(FilesOf(g)) \in Nat
           /\ \A out, o : /\ IsFiniteSet(EndedAs(g, out, o))
                          /\ Cardinality(EndedAs(g, out, o)) \in Nat
           /\ \A live : /\ IsFiniteSet(live \cap FilesOf(g))
                        /\ Cardinality(live \cap FilesOf(g)) \in Nat
<1>1. FilesOf(g) \in SUBSET Tasks
    BY DEF FilesOf
<1>2. IsFiniteSet(FilesOf(g)) /\ Cardinality(FilesOf(g)) \in Nat
    BY <1>1, QueueAssumption, FS_Subset, FS_CardinalityType
<1>3. \A out, o : /\ IsFiniteSet(EndedAs(g, out, o))
                  /\ Cardinality(EndedAs(g, out, o)) \in Nat
    <2> TAKE out, o
    <2>1. EndedAs(g, out, o) \in SUBSET FilesOf(g)
        BY DEF EndedAs
    <2> QED BY <1>2, <2>1, FS_Subset, FS_CardinalityType
<1>4. \A live : /\ IsFiniteSet(live \cap FilesOf(g))
                /\ Cardinality(live \cap FilesOf(g)) \in Nat
    <2> TAKE live
    <2>1. live \cap FilesOf(g) \in SUBSET FilesOf(g)
        OBVIOUS
    <2> QED BY <1>2, <2>1, FS_Subset, FS_CardinalityType
<1> QED BY <1>2, <1>3, <1>4

LEMMA FewerLive ==
    ASSUME NEW g, NEW a, NEW b, a \cap FilesOf(g) \subseteq b
    PROVE  Cardinality(a \cap FilesOf(g)) <= Cardinality(b \cap FilesOf(g))
<1>1. a \cap FilesOf(g) \in SUBSET (b \cap FilesOf(g))
    OBVIOUS
<1> QED BY <1>1, Sizes, FS_Subset

(* Two disjoint parts of the live files.                                   *)
LEMMA LiveParts ==
    ASSUME NEW g, NEW a, NEW b, a \cap b = {}
    PROVE  Cardinality((a \cup b) \cap FilesOf(g))
              = Cardinality(a \cap FilesOf(g)) + Cardinality(b \cap FilesOf(g))
<1> DEFINE A == a \cap FilesOf(g)
           B == b \cap FilesOf(g)
<1>1. /\ IsFiniteSet(A) /\ Cardinality(A) \in Nat
      /\ IsFiniteSet(B) /\ Cardinality(B) \in Nat
    BY Sizes
<1>2. (a \cup b) \cap FilesOf(g) = A \cup B /\ A \cap B = {}
    OBVIOUS
<1> HIDE DEF A, B
<1>3. Cardinality(A \cup B) = Cardinality(A) + Cardinality(B) - Cardinality({})
    BY <1>1, <1>2, FS_Union
<1>4. Cardinality(A \cup B) = Cardinality(A) + Cardinality(B)
    BY <1>1, <1>3, FS_EmptySet
<1> QED BY <1>2, <1>4 DEF A, B

LEMMA LiveSplit ==
    ASSUME NEW g, NEW live, NEW b, b \subseteq live
    PROVE  Cardinality(live \cap FilesOf(g))
              = Cardinality((live \ b) \cap FilesOf(g)) + Cardinality(b \cap FilesOf(g))
<1> DEFINE a == live \ b
<1>1. a \cap b = {} /\ a \cup b = live
    OBVIOUS
<1> HIDE DEF a
<1>2. Cardinality((a \cup b) \cap FilesOf(g))
         = Cardinality(a \cap FilesOf(g)) + Cardinality(b \cap FilesOf(g))
    BY <1>1, LiveParts
<1>3. Cardinality(live \cap FilesOf(g))
         = Cardinality(a \cap FilesOf(g)) + Cardinality(b \cap FilesOf(g))
    BY <1>1, <1>2
<1> QED BY <1>3 DEF a

LEMMA OneLive ==
    ASSUME NEW t \in Tasks
    PROVE  Cardinality({t} \cap FilesOf(GroupOf[t])) = 1
<1>1. {t} \cap FilesOf(GroupOf[t]) = {t}
    BY DEF FilesOf
<1> QED BY <1>1, FS_Singleton

(* A set X of files of g, none of them ended as o, ends as o.              *)
LEMMA MoreEnded ==
    ASSUME NEW g, NEW out, NEW new, NEW o, NEW X, X \subseteq FilesOf(g),
           \A t \in FilesOf(g) : new[t] = IF t \in X THEN o ELSE out[t],
           \A t \in X : out[t] # o
    PROVE  Cardinality(EndedAs(g, new, o)) = Cardinality(EndedAs(g, out, o)) + Cardinality(X)
<1> DEFINE E == EndedAs(g, out, o)
<1>1. IsFiniteSet(X) /\ Cardinality(X) \in Nat
    BY Sizes, FS_Subset, FS_CardinalityType
<1>2. EndedAs(g, new, o) = E \cup X /\ E \cap X = {}
    BY DEF EndedAs
<1>3. IsFiniteSet(E) /\ Cardinality(E) \in Nat
    BY Sizes
<1> HIDE DEF E
<1>4. Cardinality(E \cup X) = Cardinality(E) + Cardinality(X) - Cardinality({})
    BY <1>1, <1>2, <1>3, FS_Union
<1>5. Cardinality(E \cup X) = Cardinality(E) + Cardinality(X)
    BY <1>1, <1>3, <1>4, FS_EmptySet
<1> QED BY <1>2, <1>5 DEF E

LEMMA SameEnded ==
    ASSUME NEW g, NEW out, NEW new, NEW o,
           \A t \in FilesOf(g) : new[t] = o <=> out[t] = o
    PROVE  EndedAs(g, new, o) = EndedAs(g, out, o)
BY DEF EndedAs

-----------------------------------------------------------------------------
(* One record.                                                             *)

(* The same counters, and no smaller total.                                *)
SameCounters(new, r) ==
    /\ new.completed = r.completed
    /\ new.failed = r.failed
    /\ new.cancelled = r.cancelled
    /\ new.expected >= r.expected

LEMMA SameTally ==
    ASSUME NEW g, NEW r \in GroupRecord, NEW new \in GroupRecord, SameCounters(new, r),
           NEW out, NEW out2, \A t \in FilesOf(g) : out2[t] = out[t],
           NEW live, NEW live2, live2 \cap FilesOf(g) \subseteq live,
           CountsEnded(r, g, out), Covers(r, g, live)
    PROVE  CountsEnded(new, g, out2) /\ Covers(new, g, live2)
<1>1. \A o : EndedAs(g, out2, o) = EndedAs(g, out, o)
    BY DEF EndedAs
<1>2. CountsEnded(new, g, out2)
    BY <1>1 DEF CountsEnded, SameCounters
<1> DEFINE a == Cardinality(live2 \cap FilesOf(g))
           b == Cardinality(live \cap FilesOf(g))
<1>3. a \in Nat /\ b \in Nat /\ a <= b
    BY Sizes, FewerLive
<1>4. Settled(r) + b <= r.expected
    BY DEF Covers
<1> HIDE DEF a, b
<1>5. Settled(new) + a <= new.expected
    BY <1>3, <1>4 DEF SameCounters, Settled, GroupRecord
<1> QED BY <1>2, <1>5 DEF Covers, a

(* Another override leaves the counters alone.                             *)
LEMMA OverrideOnly ==
    ASSUME NEW r \in GroupRecord, NEW o \in Overrides
    PROVE  [r EXCEPT !.override = o] \in GroupRecord
           /\ SameCounters([r EXCEPT !.override = o], r)
BY DEF GroupRecord, SameCounters

(* A file that had not ended and is counted as it ends.                    *)
LEMMA CountedTally ==
    ASSUME NEW t \in Tasks, NEW r \in GroupRecord, NEW end \in Outcomes,
           NEW out, out[t] = "none",
           NEW new, \A u \in Tasks : new[u] = IF u = t THEN end ELSE out[u],
           CountsEnded(r, GroupOf[t], out)
    PROVE  /\ CountsEnded(Counted(r, end), GroupOf[t], new)
           /\ Settled(Counted(r, end)) = Settled(r) + 1
           /\ Counted(r, end).expected = r.expected
<1> DEFINE g == GroupOf[t]
<1>1. \A u \in FilesOf(g) : u \in Tasks
    BY DEF FilesOf
<1>2. Cardinality(EndedAs(g, new, end)) = Cardinality(EndedAs(g, out, end)) + 1
    <2>1. {t} \subseteq FilesOf(g) /\ out[t] # end
        BY DEF FilesOf, Outcomes
    <2>2. \A u \in FilesOf(g) : new[u] = IF u \in {t} THEN end ELSE out[u]
        BY <1>1
    <2>3. Cardinality({t}) = 1
        BY FS_Singleton
    <2> HIDE DEF g
    <2>4. Cardinality(EndedAs(g, new, end)) = Cardinality(EndedAs(g, out, end)) + Cardinality({t})
        BY <2>1, <2>2, MoreEnded
    <2> QED BY <2>3, <2>4
<1>3. \A o \in Outcomes : o # end => EndedAs(g, new, o) = EndedAs(g, out, o)
    <2> TAKE o \in Outcomes
    <2> HAVE o # end
    <2>1. \A u \in FilesOf(g) : new[u] = o <=> out[u] = o
        BY <1>1 DEF Outcomes
    <2> QED BY <2>1, SameEnded
<1>4. \A o : Cardinality(EndedAs(g, out, o)) \in Nat
    BY Sizes
<1> HIDE DEF g
<1>5. CountsEnded(r, g, out)
    BY DEF g
<1>6. CountsEnded(Counted(r, end), g, new)
    <2>1. CASE end = "success"
        <3>1. Counted(r, end) = [r EXCEPT !.completed = @ + 1]
            BY <2>1 DEF Counted
        <3> QED BY <1>2, <1>3, <1>4, <1>5, <2>1, <3>1 DEF CountsEnded, Outcomes, GroupRecord
    <2>2. CASE end = "failed"
        <3>1. Counted(r, end) = [r EXCEPT !.failed = @ + 1]
            BY <2>2 DEF Counted
        <3> QED BY <1>2, <1>3, <1>4, <1>5, <2>2, <3>1 DEF CountsEnded, Outcomes, GroupRecord
    <2>3. CASE end = "cancelled"
        <3>1. Counted(r, end) = [r EXCEPT !.cancelled = @ + 1]
            BY <2>3 DEF Counted
        <3> QED BY <1>2, <1>3, <1>4, <1>5, <2>3, <3>1 DEF CountsEnded, Outcomes, GroupRecord
    <2> QED BY <2>1, <2>2, <2>3 DEF Outcomes
<1>7. Settled(Counted(r, end)) = Settled(r) + 1 /\ Counted(r, end).expected = r.expected
    BY DEF Counted, Settled, Outcomes, GroupRecord
<1> QED BY <1>6, <1>7 DEF g

-----------------------------------------------------------------------------
(* All records.                                                            *)

LEMMA TallyHolds == CountedOnce /\ ExpectedCoversFiles <=> TallyInv
BY DEF CountedOnce, ExpectedCoversFiles, TallyInv, Tally, CountsEnded, Covers, EndedAs

(* A file that starts stays a live file.                                   *)
LEMMA LiveServed ==
    ASSUME NEW q, NEW ph, IsOrder(q, Tasks), ProcessNext(q, ph)
    PROVE  Live' = Elems(q) \cup ActiveIn(ph) /\ ActiveIn(ph) \subseteq Active'
<1> DEFINE S == ToStart(q, ph)
<1>1. S \subseteq Elems(q)
    BY DEF ToStart, FirstOf
<1>2. /\ queue' = Without(q, S)
      /\ phase' = [t \in Tasks |-> IF t \in S THEN "downloading" ELSE ph[t]]
    BY DEF ProcessNext
<1> HIDE DEF S
<1>3. Elems(q) \subseteq Tasks
    BY ElemsOfOrder
<1>4. Elems(queue') = Elems(q) \ S
    BY <1>2, WithoutIsOrder
<1>5. ActiveIn(phase') = ActiveIn(ph) \cup S
    BY <1>1, <1>2, <1>3 DEF ActiveIn
<1> QED BY <1>1, <1>4, <1>5 DEF Live, Pending, Active, ActiveIn

(* Dropping records.                                                       *)
LEMMA Forgotten ==
    ASSUME NEW records \in [Groups -> GroupRecord], NEW S, NEW out, NEW live,
           known \subseteq Groups, Tally(records, known, out, live)
    PROVE  Tally(Forget(records, S), known \ S, out, live)
<1>1. \A g \in known \ S : Forget(records, S)[g] = records[g]
    BY DEF Forget
<1> QED BY <1>1 DEF Tally

(* Steps that end no file and change no counter.                           *)
LEMMA TallyKept ==
    ASSUME IInv, IInv', TallyInv, UNCHANGED outcome, known' = known, Live' \subseteq Live,
           \A g \in known : SameCounters(group'[g], group[g])
    PROVE  TallyThen
<1> SUFFICES ASSUME NEW g \in known
             PROVE  CountsEnded(group'[g], g, outcome') /\ Covers(group'[g], g, Live')
    BY DEF TallyThen, Tally
<1>1. g \in Groups /\ group[g] \in GroupRecord /\ group'[g] \in GroupRecord
    BY DEF IInv, TypeOK
<1>2. CountsEnded(group[g], g, outcome) /\ Covers(group[g], g, Live)
    BY DEF TallyInv, Tally
<1> QED BY <1>1, <1>2, SameTally

LEMMA Unchanged ==
    ASSUME NEW r \in GroupRecord
    PROVE  SameCounters(r, r)
BY DEF SameCounters, GroupRecord

(* Handlers that leave the groups alone and end in processNext, with the   *)
(* files that wait or run already.                                         *)
LEMMA TallyServed ==
    ASSUME IInv, IInv', TallyInv, UNCHANGED <<outcome, known, group>>,
           NEW q, NEW ph, IsOrder(q, Tasks), ProcessNext(q, ph),
           Elems(q) \subseteq Pending, ActiveIn(ph) \subseteq Active
    PROVE  TallyThen
<1>1. Live' \subseteq Live
    BY LiveServed DEF Live
<1>2. \A g \in known : SameCounters(group'[g], group[g])
    BY Unchanged DEF IInv, TypeOK
<1> QED BY <1>1, <1>2, TallyKept

-----------------------------------------------------------------------------
(* Arrival.                                                                *)

LEMMA EnsureGroupTally ==
    ASSUME IInv, IInv', TallyInv, NEW g \in Groups, NEW n \in Expected, EnsureGroup(g, n)
    PROVE  TallyThen
<1> DEFINE renew == g \notin known \/ TerminalGroup(g)
<1>1. n \in Nat /\ NewGroup(n) \in GroupRecord
    BY QueueAssumption, NewGroupType
<1>2. group[g] \in GroupRecord
    BY Unfolded DEF Recorded
<1>3. /\ known' = known \cup {g}
      /\ group'[g] = IF renew THEN NewGroup(n) ELSE [group[g] EXCEPT !.expected = MaxOf(@, n)]
      /\ \A h \in Groups : h # g => group'[h] = group[h]
      /\ UNCHANGED <<queue, phase, outcome>>
    BY Unfolded DEF EnsureGroup, executorVars, Recorded
<1>4. Live' = Live
    BY <1>3 DEF Live, Pending, Active
<1>5. \A h \in known : CountsEnded(group[h], h, outcome) /\ Covers(group[h], h, Live)
    BY DEF TallyInv, Tally
<1>6. renew => CountsEnded(group'[g], g, outcome) /\ Covers(group'[g], g, Live)
    <2> HAVE renew
    <2>1. \A t \in Live : GroupOf[t] # g
        BY Unfolded, TerminalIsIdle DEF TerminalGroup, Live
    <2>2. Live \cap FilesOf(g) = {}
        BY <2>1 DEF FilesOf
    <2>3. Cardinality(Live \cap FilesOf(g)) = 0
        BY <2>2, FS_EmptySet
    <2>4. \A o : Cardinality(EndedAs(g, outcome, o)) \in Nat
        BY Sizes
    <2>5. group'[g] = NewGroup(n)
        BY <1>3
    <2> QED BY <1>1, <2>3, <2>4, <2>5 DEF CountsEnded, Covers, NewGroup, Settled
<1>7. ~renew => CountsEnded(group'[g], g, outcome) /\ Covers(group'[g], g, Live)
    <2> HAVE ~renew
    <2> DEFINE r == [group[g] EXCEPT !.expected = MaxOf(@, n)]
    <2>1. r \in GroupRecord /\ SameCounters(r, group[g])
        BY <1>1, <1>2 DEF GroupRecord, MaxOf, SameCounters
    <2>2. group'[g] = r
        BY <1>3
    <2> HIDE DEF r
    <2> QED BY <1>2, <1>5, <2>1, <2>2, SameTally
<1> HIDE DEF renew
<1>8. \A h \in known' : CountsEnded(group'[h], h, outcome) /\ Covers(group'[h], h, Live)
    BY <1>3, <1>5, <1>6, <1>7, Unfolded DEF Recorded
<1> QED BY <1>3, <1>4, <1>8 DEF TallyThen, Tally

(* Parts of the files of a group that have nothing in common.              *)
LEMMA ThreeParts ==
    ASSUME NEW F, IsFiniteSet(F), NEW A, NEW B, NEW C,
           A \subseteq F, B \subseteq F, C \subseteq F,
           A \cap B = {}, A \cap C = {}, B \cap C = {}
    PROVE  /\ Cardinality(A) \in Nat /\ Cardinality(B) \in Nat /\ Cardinality(C) \in Nat
           /\ Cardinality(A) + Cardinality(B) + Cardinality(C) <= Cardinality(F)
<1>1. /\ IsFiniteSet(A) /\ Cardinality(A) \in Nat
      /\ IsFiniteSet(B) /\ Cardinality(B) \in Nat
      /\ IsFiniteSet(C) /\ Cardinality(C) \in Nat
    BY FS_Subset, FS_CardinalityType
<1>2. Cardinality({}) = 0
    BY FS_EmptySet
<1>3. IsFiniteSet(A \cup B)
      /\ Cardinality(A \cup B) = Cardinality(A) + Cardinality(B) - Cardinality({})
    BY <1>1, FS_Union
<1>4. (A \cup B) \cap C = {}
    OBVIOUS
<1>5. Cardinality((A \cup B) \cup C) = Cardinality(A \cup B) + Cardinality(C) - Cardinality({})
    BY <1>1, <1>3, <1>4, FS_Union
<1>6. (A \cup B) \cup C \in SUBSET F
    OBVIOUS
<1>7. Cardinality((A \cup B) \cup C) <= Cardinality(F)
    BY <1>6, FS_Subset
<1> QED BY <1>1, <1>2, <1>3, <1>5, <1>7

LEMMA RestoreGroupTally ==
    ASSUME IInv, IInv', TallyInv, NEW g \in Groups,
           NEW ended \in [Tasks -> Outcomes \cup {"none"}], NEW paused \in BOOLEAN,
           RestoreGroup(g, ended, paused)
    PROVE  TallyThen
<1> DEFINE E(o) == EndedAs(g, ended, o)
<1>1. /\ known' = known \cup {g} /\ g \notin known
      /\ outcome' = [t \in Tasks |-> IF GroupOf[t] = g THEN ended[t] ELSE outcome[t]]
      /\ group'[g] = [expected |-> Cardinality(FilesOf(g)),
                      completed |-> Cardinality(E("success")),
                      failed |-> Cardinality(E("failed")),
                      cancelled |-> Cardinality(E("cancelled")),
                      override |-> IF paused THEN "paused" ELSE "none"]
      /\ \A h \in Groups : h # g => group'[h] = group[h]
      /\ UNCHANGED <<queue, phase>>
    BY Unfolded DEF RestoreGroup, Recorded, EndedAs
<1>2. Live' = Live
    BY <1>1 DEF Live, Pending, Active
<1>3. \A o : EndedAs(g, outcome', o) = E(o)
    BY <1>1 DEF EndedAs, FilesOf
<1>4. \A o : Cardinality(E(o)) \in Nat
    BY Sizes
<1>5. Cardinality(E("success")) + Cardinality(E("failed")) + Cardinality(E("cancelled"))
         <= Cardinality(FilesOf(g))
    <2>1. \A o : E(o) \subseteq FilesOf(g)
        BY DEF EndedAs
    <2>2. /\ E("success") \cap E("failed") = {}
          /\ E("success") \cap E("cancelled") = {}
          /\ E("failed") \cap E("cancelled") = {}
        BY DEF EndedAs
    <2>3. IsFiniteSet(FilesOf(g))
        BY Sizes
    <2> HIDE DEF E
    <2> QED BY <2>1, <2>2, <2>3, ThreeParts
<1>6. Cardinality(Live \cap FilesOf(g)) = 0
    <2>1. Live \cap FilesOf(g) = {}
        BY <1>1, Unfolded DEF Live, FilesOf
    <2> QED BY <2>1, FS_EmptySet
<1>7. Cardinality(FilesOf(g)) \in Nat
    BY Sizes
<1> HIDE DEF E
<1>8. CountsEnded(group'[g], g, outcome')
    BY <1>1, <1>3, <1>4 DEF CountsEnded
<1>9. Covers(group'[g], g, Live)
    BY <1>1, <1>4, <1>5, <1>6, <1>7 DEF Covers, Settled
<1>10. ASSUME NEW h \in known
       PROVE  CountsEnded(group'[h], h, outcome') /\ Covers(group'[h], h, Live)
    <2>1. h \in Groups /\ h # g /\ group[h] \in GroupRecord
        BY <1>1, Unfolded DEF Recorded
    <2>2. CountsEnded(group[h], h, outcome) /\ Covers(group[h], h, Live)
        BY DEF TallyInv, Tally
    <2>3. \A t \in FilesOf(h) : outcome'[t] = outcome[t]
        BY <1>1, <2>1 DEF FilesOf
    <2>4. group'[h] = group[h] /\ SameCounters(group[h], group[h])
        BY <1>1, <2>1, Unchanged
    <2> QED BY <2>1, <2>2, <2>3, <2>4, SameTally
<1> QED BY <1>1, <1>2, <1>8, <1>9, <1>10 DEF TallyThen, Tally

(* The total that Extended makes covers n more files.                      *)
LEMMA ExtendedCovers ==
    ASSUME NEW g \in Groups, NEW r \in GroupRecord, NEW k \in Nat
    PROVE  /\ SameCounters(Extended(r, g, k), r)
           /\ Settled(Extended(r, g, k)) = Settled(r)
           /\ Settled(r) + Cardinality(Live \cap FilesOf(g)) + k <= Extended(r, g, k).expected
<1> DEFINE n == Cardinality(Live \cap FilesOf(g))
           m == MaxOf(r.expected, n + Settled(r) + k)
           o == IF r.override = "pausing" /\ Active \cap FilesOf(g) = {} THEN "paused"
                ELSE r.override
<1>1. n \in Nat /\ Settled(r) \in Nat
    BY Sizes DEF Settled, GroupRecord
<1>2. Extended(r, g, k) = [r EXCEPT !.expected = m, !.override = o]
    BY DEF Extended
<1>3. m >= r.expected /\ m >= n + Settled(r) + k /\ m \in Nat
    <2> HIDE DEF n
    <2> QED BY <1>1 DEF MaxOf, GroupRecord
<1> HIDE DEF n, m, o
<1>4. /\ Extended(r, g, k).completed = r.completed
      /\ Extended(r, g, k).failed = r.failed
      /\ Extended(r, g, k).cancelled = r.cancelled
      /\ Extended(r, g, k).expected = m
    BY <1>2 DEF GroupRecord
<1>5. Settled(Extended(r, g, k)) = Settled(r)
    BY <1>4 DEF Settled
<1> QED BY <1>1, <1>3, <1>4, <1>5 DEF SameCounters, n

(* A group none of whose files is touched.                                 *)
LEMMA OtherGroup ==
    ASSUME IInv, TallyInv, NEW h \in known, NEW out, NEW live,
           \A t \in FilesOf(h) : out[t] = outcome[t],
           live \cap FilesOf(h) \subseteq Live
    PROVE  CountsEnded(group[h], h, out) /\ Covers(group[h], h, live)
<1>1. group[h] \in GroupRecord
    BY Unfolded DEF Recorded
<1>2. CountsEnded(group[h], h, outcome) /\ Covers(group[h], h, Live)
    BY DEF TallyInv, Tally
<1> QED BY <1>1, <1>2, Unchanged, SameTally

LEMMA AddTally ==
    ASSUME IInv, IInv', TallyInv, NEW t \in Tasks, Add(t)
    PROVE  TallyThen
<1> DEFINE g == GroupOf[t]
           q == AddLast(queue, t)
<1>1. g \in Groups /\ g \in known /\ group[g] \in GroupRecord
    BY QueueAssumption, Unfolded DEF Recorded, Add
<1>2. IsOrder(q, Tasks) /\ Elems(q) = Pending \cup {t} /\ t \notin Live
    BY Unfolded, AddLastIsOrder DEF Add, Fresh, Live
<1>3. ProcessNext(q, phase)
    BY DEF Add
<1> HIDE DEF q
<1>4. Live' = Live \cup {t}
    BY <1>2, <1>3, LiveServed, Unfolded DEF Live
<1>5. /\ group' = [group EXCEPT ![g] = Extended(group[g], g, 1)]
      /\ known' = known /\ outcome' = outcome
    BY DEF Add
<1>6. CountsEnded(group'[g], g, outcome) /\ Covers(group'[g], g, Live')
    <2>1. group'[g] = Extended(group[g], g, 1)
        BY <1>1, <1>5, Unfolded DEF Recorded
    <2>2. /\ SameCounters(Extended(group[g], g, 1), group[g])
          /\ Settled(Extended(group[g], g, 1)) = Settled(group[g])
          /\ Settled(group[g]) + Cardinality(Live \cap FilesOf(g)) + 1
                <= Extended(group[g], g, 1).expected
        BY <1>1, ExtendedCovers
    <2>3. Cardinality(Live' \cap FilesOf(g)) = Cardinality(Live \cap FilesOf(g)) + 1
        <3>1. Live \cap {t} = {}
            BY <1>2
        <3>2. Cardinality({t} \cap FilesOf(g)) = 1
            BY OneLive
        <3> HIDE DEF g
        <3>3. Cardinality((Live \cup {t}) \cap FilesOf(g))
                 = Cardinality(Live \cap FilesOf(g)) + Cardinality({t} \cap FilesOf(g))
            BY <3>1, LiveParts
        <3> QED BY <1>4, <3>2, <3>3
    <2>4. CountsEnded(group[g], g, outcome)
        BY <1>1 DEF TallyInv, Tally
    <2> HIDE DEF g
    <2>5. Cardinality(Live \cap FilesOf(g)) \in Nat /\ Settled(group[g]) \in Nat
        BY <1>1, Sizes DEF Settled, GroupRecord
    <2>6. CountsEnded(group'[g], g, outcome)
        BY <2>1, <2>2, <2>4 DEF CountsEnded, SameCounters
    <2>7. Covers(group'[g], g, Live')
        BY <2>1, <2>2, <2>3, <2>5 DEF Covers
    <2> QED BY <2>6, <2>7
<1>7. ASSUME NEW h \in known, h # g
      PROVE  CountsEnded(group'[h], h, outcome) /\ Covers(group'[h], h, Live')
    <2>1. group'[h] = group[h]
        BY <1>5, <1>7, Unfolded DEF Recorded
    <2>2. Live' \cap FilesOf(h) \subseteq Live
        BY <1>4, <1>7 DEF FilesOf
    <2> QED BY <2>1, <2>2, OtherGroup
<1> QED BY <1>5, <1>6, <1>7 DEF TallyThen, Tally

LEMMA AddRefusedTally ==
    ASSUME IInv, IInv', TallyInv, NEW t \in Tasks, AddRefused(t)
    PROVE  TallyThen
<1>1. /\ outcome[t] = "none"
      /\ \A u \in Tasks : outcome'[u] = IF u = t THEN "cancelled" ELSE outcome[u]
      /\ UNCHANGED <<queue, phase, known, group>>
    BY Unfolded DEF AddRefused, Fresh, groupVars, Recorded
<1>2. Live' = Live
    BY <1>1 DEF Live, Pending, Active
<1>3. ASSUME NEW h \in known
      PROVE  CountsEnded(group[h], h, outcome') /\ Covers(group[h], h, Live)
    <2>1. CountsEnded(group[h], h, outcome) /\ Covers(group[h], h, Live)
        BY DEF TallyInv, Tally
    <2>2. \A u \in FilesOf(h) : u \in Tasks
        BY DEF FilesOf
    <2>3. \A o \in {"success", "failed"} : EndedAs(h, outcome', o) = EndedAs(h, outcome, o)
        BY <1>1, <2>2 DEF EndedAs
    <2>4. EndedAs(h, outcome, "cancelled") \in SUBSET EndedAs(h, outcome', "cancelled")
        BY <1>1, <2>2 DEF EndedAs
    <2>5. /\ Cardinality(EndedAs(h, outcome, "cancelled"))
                <= Cardinality(EndedAs(h, outcome', "cancelled"))
          /\ Cardinality(EndedAs(h, outcome, "cancelled")) \in Nat
          /\ Cardinality(EndedAs(h, outcome', "cancelled")) \in Nat
        BY <2>4, Sizes, FS_Subset
    <2>6. group[h] \in GroupRecord
        BY Unfolded DEF Recorded
    <2> QED BY <2>1, <2>3, <2>5, <2>6 DEF CountsEnded, GroupRecord
<1> QED BY <1>1, <1>2, <1>3 DEF TallyThen, Tally

(* k failed files of g are no longer counted as failed.                    *)
LEMMA RecountTally ==
    ASSUME NEW g, NEW r \in GroupRecord, NEW C, C \subseteq FilesOf(g),
           NEW out, NEW new, \A t \in C : out[t] = "failed" /\ new[t] = "none",
           \A t \in FilesOf(g) \ C : new[t] = out[t],
           CountsEnded(r, g, out)
    PROVE  CountsEnded(Recount(r, Cardinality(C)), g, new)
<1> DEFINE k == Cardinality(C)
           E(o) == Cardinality(EndedAs(g, out, o))
           N(o) == Cardinality(EndedAs(g, new, o))
<1>1. k \in Nat /\ (\A o : E(o) \in Nat /\ N(o) \in Nat)
    BY Sizes, FS_Subset, FS_CardinalityType
<1>2. E("failed") = N("failed") + k
    <2>1. \A t \in FilesOf(g) : out[t] = IF t \in C THEN "failed" ELSE new[t]
        OBVIOUS
    <2>2. \A t \in C : new[t] # "failed"
        OBVIOUS
    <2> QED BY <2>1, <2>2, MoreEnded
<1>3. EndedAs(g, new, "success") = EndedAs(g, out, "success")
    BY DEF EndedAs
<1>4. EndedAs(g, new, "cancelled") = EndedAs(g, out, "cancelled")
    BY DEF EndedAs
<1>5. r.completed <= E("success") /\ r.failed <= E("failed") /\ r.cancelled <= E("cancelled")
    BY DEF CountsEnded
<1>6. E("success") = N("success") /\ E("cancelled") = N("cancelled")
    BY <1>3, <1>4
<1> HIDE DEF k, E, N
<1>7. /\ Recount(r, k).completed <= N("success")
      /\ Recount(r, k).failed <= N("failed")
      /\ Recount(r, k).cancelled <= N("cancelled")
    BY <1>1, <1>2, <1>5, <1>6 DEF Recount, MaxOf, GroupRecord
<1> QED BY <1>7 DEF CountsEnded, k, N

LEMMA RetryFailedTally ==
    ASSUME IInv, IInv', TallyInv, NEW g \in Groups, RetryFailed(g)
    PROVE  TallyThen
<1> DEFINE failed == {t \in Elems(history) : GroupOf[t] = g /\ outcome[t] = "failed"}
           C == FirstOf(history, failed, RetryLimit)
           k == Cardinality(C)
           more == Keep(history, C)
           q == Concat(queue, more)
           r == Recount(group[g], k)
<1>1. C \subseteq failed
    BY DEF FirstOf
<1>2. C \subseteq FilesOf(g) /\ C \subseteq Elems(history) /\ C \subseteq Tasks
    BY <1>1, Unfolded, ElemsOfOrder DEF Recorded, FilesOf
<1>3. \A t \in C : GroupOf[t] = g /\ outcome[t] = "failed"
    BY <1>1
<1>4. /\ g \in known /\ known' = known
      /\ outcome' = [t \in Tasks |-> IF t \in C THEN "none" ELSE outcome[t]]
      /\ group' = [group EXCEPT ![g] = Extended(r, g, k)]
      /\ ProcessNext(q, phase)
    BY DEF RetryFailed
<1> HIDE DEF C
<1>5. IsOrder(more, Tasks) /\ Elems(more) = C
    BY <1>2, Unfolded, KeepIsOrder DEF Recorded
<1>6. C \cap Live = {}
    BY <1>3, Unfolded DEF Live
<1> HIDE DEF more
<1>7. IsOrder(q, Tasks) /\ Elems(q) = Pending \cup C
    BY <1>5, <1>6, MoreInOrder
<1> HIDE DEF q
<1>8. Live' = Live \cup C
    BY <1>4, <1>7, LiveServed, Unfolded DEF Live
<1>9. k \in Nat /\ C \cap FilesOf(g) = C
    BY <1>2, Sizes, FS_Subset, FS_CardinalityType
<1>10. group[g] \in GroupRecord /\ r \in GroupRecord
    <2>1. group[g] \in GroupRecord
        BY Unfolded DEF Recorded
    <2> HIDE DEF k
    <2> QED BY <1>9, <2>1 DEF Recount, MaxOf, GroupRecord
<1>11. CountsEnded(r, g, outcome')
    <2>1. \A t \in C : outcome[t] = "failed" /\ outcome'[t] = "none"
        BY <1>2, <1>3, <1>4
    <2>2. \A t \in FilesOf(g) \ C : outcome'[t] = outcome[t]
        BY <1>4 DEF FilesOf
    <2>3. CountsEnded(group[g], g, outcome)
        BY <1>4 DEF TallyInv, Tally
    <2> QED BY <1>2, <1>10, <2>1, <2>2, <2>3, RecountTally
<1>12. CountsEnded(group'[g], g, outcome') /\ Covers(group'[g], g, Live')
    <2> HIDE DEF k, r
    <2>1. group'[g] = Extended(r, g, k)
        BY <1>4, Unfolded DEF Recorded
    <2>2. /\ SameCounters(Extended(r, g, k), r)
          /\ Settled(Extended(r, g, k)) = Settled(r)
          /\ Settled(r) + Cardinality(Live \cap FilesOf(g)) + k <= Extended(r, g, k).expected
        BY <1>9, <1>10, ExtendedCovers
    <2>3. Cardinality(Live' \cap FilesOf(g)) = Cardinality(Live \cap FilesOf(g)) + k
        <3>1. Live \cap C = {}
            BY <1>6
        <3>2. Cardinality((Live \cup C) \cap FilesOf(g))
                 = Cardinality(Live \cap FilesOf(g)) + Cardinality(C \cap FilesOf(g))
            BY <3>1, LiveParts
        <3>3. Cardinality(C \cap FilesOf(g)) = k
            BY <1>9 DEF k
        <3> QED BY <1>8, <3>2, <3>3
    <2>4. Cardinality(Live \cap FilesOf(g)) \in Nat /\ Settled(r) \in Nat
        BY <1>10, Sizes DEF Settled, GroupRecord
    <2>5. CountsEnded(group'[g], g, outcome')
        BY <1>11, <2>1, <2>2 DEF CountsEnded, SameCounters
    <2>6. Covers(group'[g], g, Live')
        BY <1>9, <2>1, <2>2, <2>3, <2>4 DEF Covers
    <2> QED BY <2>5, <2>6
<1>13. ASSUME NEW h \in known, h # g
       PROVE  CountsEnded(group'[h], h, outcome') /\ Covers(group'[h], h, Live')
    <2>1. group'[h] = group[h]
        BY <1>4, <1>13, Unfolded DEF Recorded
    <2>2. Live' \cap FilesOf(h) \subseteq Live
        BY <1>2, <1>8, <1>13 DEF FilesOf
    <2>3. \A t \in FilesOf(h) : outcome'[t] = outcome[t]
        BY <1>2, <1>4, <1>13 DEF FilesOf
    <2> QED BY <2>1, <2>2, <2>3, OtherGroup
<1> QED BY <1>4, <1>12, <1>13 DEF TallyThen, Tally

-----------------------------------------------------------------------------
(* Files end.                                                              *)

(* A live file t ends: its group counts it, and it is live no longer.      *)
LEMMA EndedTally ==
    ASSUME IInv, TallyInv, NEW t \in Live, NEW end \in Outcomes,
           NEW records \in [Groups -> GroupRecord],
           SameCounters(records[GroupOf[t]], Counted(group[GroupOf[t]], end)),
           \A h \in Groups : h # GroupOf[t] => records[h] = group[h],
           NEW new, \A u \in Tasks : new[u] = IF u = t THEN end ELSE outcome[u]
    PROVE  Tally(records, known, new, Live \ {t})
<1> DEFINE g == GroupOf[t]
           r == Counted(group[g], end)
<1>1. t \in Tasks /\ g \in Groups /\ g \in known /\ outcome[t] = "none"
    BY Unfolded, QueueAssumption DEF Live
<1>2. group[g] \in GroupRecord /\ r \in GroupRecord
    BY <1>1, Unfolded, CountedType DEF Recorded
<1>3. CountsEnded(group[g], g, outcome) /\ Covers(group[g], g, Live)
    BY <1>1 DEF TallyInv, Tally
<1>4. /\ CountsEnded(r, g, new)
      /\ Settled(r) = Settled(group[g]) + 1
      /\ r.expected = group[g].expected
    BY <1>1, <1>2, <1>3, CountedTally
<1>5. Cardinality(Live \cap FilesOf(g)) = Cardinality((Live \ {t}) \cap FilesOf(g)) + 1
    <2>1. (Live \ {t}) \cap {t} = {} /\ (Live \ {t}) \cup {t} = Live
        OBVIOUS
    <2>2. Cardinality({t} \cap FilesOf(g)) = 1
        BY <1>1, OneLive
    <2> HIDE DEF g
    <2>3. Cardinality(((Live \ {t}) \cup {t}) \cap FilesOf(g))
             = Cardinality((Live \ {t}) \cap FilesOf(g)) + Cardinality({t} \cap FilesOf(g))
        BY <2>1, LiveParts
    <2> QED BY <2>1, <2>2, <2>3
<1>6. /\ Cardinality(Live \cap FilesOf(g)) \in Nat
      /\ Cardinality((Live \ {t}) \cap FilesOf(g)) \in Nat
    BY Sizes
<1>7. Covers(r, g, Live \ {t})
    <2>1. Settled(group[g]) \in Nat /\ group[g].expected \in Nat
        BY <1>2 DEF Settled, GroupRecord
    <2> HIDE DEF g, r
    <2> QED BY <1>3, <1>4, <1>5, <1>6, <2>1 DEF Covers
<1>8. CountsEnded(records[g], g, new) /\ Covers(records[g], g, Live \ {t})
    <2>1. records[g] \in GroupRecord
        BY <1>1
    <2> QED BY <1>2, <1>4, <1>7, <2>1, SameTally
<1>9. ASSUME NEW h \in known, h # g
      PROVE  CountsEnded(records[h], h, new) /\ Covers(records[h], h, Live \ {t})
    <2>1. records[h] = group[h]
        BY <1>9, Unfolded DEF Recorded
    <2>2. \A u \in FilesOf(h) : new[u] = outcome[u]
        BY <1>9 DEF FilesOf
    <2>3. (Live \ {t}) \cap FilesOf(h) \subseteq Live
        OBVIOUS
    <2> QED BY <2>1, <2>2, <2>3, OtherGroup
<1> QED BY <1>8, <1>9 DEF Tally

LEMMA SettleTally ==
    ASSUME IInv, IInv', TallyInv, NEW t \in Tasks, Ends(t)
    PROVE  TallyThen
<1>1. PICK result \in {"success", "failed"} : Settle(t, result)
    BY DEF Ends
<1> DEFINE g == GroupOf[t]
           end == EndOf(t, result)
           r == Counted(group[g], end)
           pends == Pending \cap FilesOf(g) # {}
           record == IF (Active \ {t}) \cap FilesOf(g) = {}
                     THEN [r EXCEPT !.override = AfterLast(r, pends)]
                     ELSE r
           records == [group EXCEPT ![g] = record]
           rest(h) == (Live \ {t}) \cap FilesOf(h)
           left == Left(t)
           line == Without(waiters, {t})
<1>2. t \in Active /\ t \in Live /\ end \in Outcomes
    BY <1>1, Unfolded DEF Settle, Active, EndOf, Outcomes, Live
<1>3. PICK S \in Pruned({h \in known : Terminal(records[h], rest(h))}) :
          known' = known \ S /\ group' = Forget(records, S)
    BY <1>1 DEF Settle
<1>4. /\ outcome' = [outcome EXCEPT ![t] = end]
      /\ ProcessNext(queue, Promoted(line, left))
    BY <1>1 DEF Settle, Reschedule, Left
<1>5. g \in Groups /\ group[g] \in GroupRecord /\ r \in GroupRecord
    BY <1>2, QueueAssumption, CountedType, Unfolded DEF Recorded
<1>6. AfterLast(r, pends) \in Overrides
    <2>1. pends \in BOOLEAN
        OBVIOUS
    <2> HIDE DEF pends, r
    <2> QED BY <1>5, <2>1, AfterLastType
<1>7. SameCounters(record, r) /\ record \in GroupRecord
    <2>1. CASE record = r
        BY <1>5, <2>1, Unchanged
    <2>2. CASE record = [r EXCEPT !.override = AfterLast(r, pends)]
        <3> DEFINE o == AfterLast(r, pends)
        <3> HIDE DEF r, o, record
        <3>1. record = [r EXCEPT !.override = o]
            BY <2>2 DEF o
        <3>2. o \in Overrides
            BY <1>6 DEF o
        <3> QED BY <1>5, <3>1, <3>2, OverrideOnly
    <2> HIDE DEF r, pends
    <2> QED BY <2>1, <2>2
<1> HIDE DEF r, pends, record
<1>8. /\ records \in [Groups -> GroupRecord] /\ records[g] = record
      /\ \A h \in Groups : h # g => records[h] = group[h]
    BY <1>5, <1>7, Unfolded DEF Recorded
<1>9. \A u \in Tasks : outcome'[u] = IF u = t THEN end ELSE outcome[u]
    BY <1>4, Unfolded DEF Recorded
<1>10. SameCounters(records[g], Counted(group[g], end))
    BY <1>7, <1>8 DEF r
<1> HIDE DEF records, end
<1>11. Tally(records, known, outcome', Live \ {t})
    BY <1>2, <1>8, <1>9, <1>10, EndedTally
<1>12. Tally(Forget(records, S), known \ S, outcome', Live \ {t})
    BY <1>8, <1>11, Forgotten, Unfolded DEF Recorded
<1>13. /\ left \in [Tasks -> Phases \cup {"none"}] /\ ActiveIn(left) = Active \ {t}
       /\ IsOrder(line, Tasks) /\ Elems(line) = Elems(waiters) \ {t}
    BY ServingSettle
<1>14. ActiveIn(Promoted(line, left)) = Active \ {t}
    <2>1. Elems(line) \subseteq ActiveIn(left)
        BY <1>13, Unfolded
    <2> HIDE DEF line, left
    <2> QED BY <1>13, <2>1, PromotedIsActive
<1> HIDE DEF line, left
<1>15. Live' = Live \ {t}
    <2>1. Live' = Elems(queue) \cup ActiveIn(Promoted(line, left))
        BY <1>4, LiveServed, Unfolded
    <2> QED BY <1>2, <1>14, <2>1, Unfolded DEF Live
<1> QED BY <1>3, <1>12, <1>15 DEF TallyThen

LEMMA CancelPendingTally ==
    ASSUME IInv, IInv', TallyInv, NEW t \in Tasks, CancelPending(t)
    PROVE  TallyThen
<1> DEFINE g == GroupOf[t]
           r == Counted(group[g], "cancelled")
           records == [group EXCEPT ![g].cancelled = @ + 1]
           rest(h) == (Live \ {t}) \cap FilesOf(h)
           q == Without(queue, {t})
<1>1. PICK S \in Pruned({h \in known : Terminal(records[h], rest(h))}) :
          known' = known \ S /\ group' = Forget(records, S)
    BY DEF CancelPending
<1>2. /\ t \in Pending /\ t \in Live
      /\ outcome' = [outcome EXCEPT ![t] = "cancelled"]
      /\ ProcessNext(q, phase)
    BY DEF CancelPending, Live
<1>3. g \in Groups /\ group[g] \in GroupRecord /\ r \in GroupRecord
    BY QueueAssumption, CountedType, Unfolded DEF Recorded, Outcomes
<1>4. records = [group EXCEPT ![g] = r]
    BY <1>3, Unfolded DEF Recorded, Counted
<1> HIDE DEF r
<1>5. /\ records \in [Groups -> GroupRecord] /\ records[g] = r
      /\ \A h \in Groups : h # g => records[h] = group[h]
    BY <1>3, <1>4, Unfolded DEF Recorded
<1>6. \A u \in Tasks : outcome'[u] = IF u = t THEN "cancelled" ELSE outcome[u]
    BY <1>2, Unfolded DEF Recorded
<1>7. SameCounters(records[g], Counted(group[g], "cancelled"))
    BY <1>3, <1>5, Unchanged DEF r
<1> HIDE DEF records
<1>8. Tally(records, known, outcome', Live \ {t})
    <2>1. "cancelled" \in Outcomes
        BY DEF Outcomes
    <2> QED BY <1>2, <1>5, <1>6, <1>7, <2>1, EndedTally
<1>9. Tally(Forget(records, S), known \ S, outcome', Live \ {t})
    BY <1>5, <1>8, Forgotten, Unfolded DEF Recorded
<1>10. Live' = Live \ {t}
    <2>1. IsOrder(q, Tasks) /\ Elems(q) = Pending \ {t}
        BY Unfolded, WithoutIsOrder
    <2> HIDE DEF q
    <2>2. Live' = (Pending \ {t}) \cup Active
        BY <1>2, <2>1, LiveServed, Unfolded
    <2> QED BY <1>2, <2>2, Unfolded DEF Live
<1> QED BY <1>1, <1>9, <1>10 DEF TallyThen

(* The records that cancelGroupTasks makes, after it took the files of gs  *)
(* from the queue.                                                         *)
LEMMA CancelledTally ==
    ASSUME IInv, TallyInv, NEW gs, gs \subseteq Groups,
           NEW removed, removed \subseteq Pending,
           \A t \in removed : GroupOf[t] \in gs,
           NEW records \in [Groups -> GroupRecord],
           \A h \in Groups \ gs : records[h] = group[h],
           \A h \in gs : /\ records[h].completed = group[h].completed
                         /\ records[h].failed = group[h].failed
                         /\ records[h].cancelled
                               = group[h].cancelled + Cardinality(removed \cap FilesOf(h))
                         /\ records[h].expected = group[h].expected,
           NEW new, \A u \in Tasks : new[u] = IF u \in removed THEN "cancelled" ELSE outcome[u]
    PROVE  Tally(records, known, new, Live \ removed)
<1>0. known \subseteq Groups
    BY Unfolded DEF Recorded
<1>1. ASSUME NEW h \in known, h \notin gs
      PROVE  CountsEnded(records[h], h, new) /\ Covers(records[h], h, Live \ removed)
    <2>1. records[h] = group[h]
        BY <1>0, <1>1
    <2>2. \A u \in FilesOf(h) : new[u] = outcome[u]
        BY <1>1 DEF FilesOf
    <2>3. (Live \ removed) \cap FilesOf(h) \subseteq Live
        OBVIOUS
    <2> QED BY <2>1, <2>2, <2>3, OtherGroup
<1>2. ASSUME NEW h \in known, h \in gs
      PROVE  CountsEnded(records[h], h, new) /\ Covers(records[h], h, Live \ removed)
    <2> DEFINE X == removed \cap FilesOf(h)
               k == Cardinality(X)
    <2>1. /\ k \in Nat
          /\ \A o : Cardinality(EndedAs(h, outcome, o)) \in Nat
          /\ Cardinality(Live \cap FilesOf(h)) \in Nat
          /\ Cardinality((Live \ removed) \cap FilesOf(h)) \in Nat
        BY Sizes
    <2>2. \A u \in FilesOf(h) : u \in Tasks
        BY DEF FilesOf
    <2>3. \A u \in X : outcome[u] = "none"
        BY Unfolded
    <2>4. \A u \in FilesOf(h) : new[u] = IF u \in X THEN "cancelled" ELSE outcome[u]
        BY <2>2
    <2>5. Cardinality(EndedAs(h, new, "cancelled"))
             = Cardinality(EndedAs(h, outcome, "cancelled")) + k
        <3>1. X \subseteq FilesOf(h) /\ \A u \in X : outcome[u] # "cancelled"
            BY <2>3
        <3> HIDE DEF X
        <3> QED BY <2>4, <3>1, MoreEnded
    <2>6. \A o \in {"success", "failed"} : EndedAs(h, new, o) = EndedAs(h, outcome, o)
        BY <2>3, <2>4 DEF EndedAs
    <2>7. Cardinality(Live \cap FilesOf(h)) = Cardinality((Live \ removed) \cap FilesOf(h)) + k
        <3>1. removed \subseteq Live
            BY DEF Live
        <3>2. Cardinality(Live \cap FilesOf(h))
                 = Cardinality((Live \ removed) \cap FilesOf(h)) + Cardinality(removed \cap FilesOf(h))
            BY ONLY <3>1, LiveSplit
        <3> QED BY <3>2
    <2>8. CountsEnded(group[h], h, outcome) /\ Covers(group[h], h, Live)
        BY DEF TallyInv, Tally
    <2>9. /\ records[h].completed = group[h].completed
          /\ records[h].failed = group[h].failed
          /\ records[h].cancelled = group[h].cancelled + k
          /\ records[h].expected = group[h].expected
        BY <1>2
    <2>10. group[h] \in GroupRecord
        BY <1>0, Unfolded DEF Recorded
    <2> HIDE DEF k, X
    <2>11. CountsEnded(records[h], h, new)
        BY <2>1, <2>5, <2>6, <2>8, <2>9, <2>10 DEF CountsEnded, GroupRecord
    <2>12. Settled(records[h]) = Settled(group[h]) + k /\ Settled(group[h]) \in Nat
        BY <2>1, <2>9, <2>10 DEF Settled, GroupRecord
    <2>13. group[h].expected \in Nat
        BY <2>10 DEF GroupRecord
    <2>14. Covers(records[h], h, Live \ removed)
        BY <2>1, <2>7, <2>8, <2>9, <2>12, <2>13 DEF Covers
    <2> QED BY <2>11, <2>14
<1> QED BY <1>1, <1>2 DEF Tally

LEMMA CancelGroupTasksTally ==
    ASSUME IInv, TallyInv, NEW gs, gs \subseteq Groups, CancelGroupTasks(gs)
    PROVE  Tally(group', known', outcome', Live \ {t \in Pending : GroupOf[t] \in gs})
<1> DEFINE removed == {t \in Pending : GroupOf[t] \in gs}
           idle == {g \in gs : Active \cap FilesOf(g) = {}}
           n(g) == group[g].cancelled + Cardinality(removed \cap FilesOf(g))
           o(g) == IF g \in idle THEN "cancelled" ELSE "cancelling"
           record(g) == [group[g] EXCEPT !.cancelled = n(g), !.override = o(g)]
           records == [g \in Groups |-> IF g \notin gs THEN group[g] ELSE record(g)]
           old == {g \in known \ gs : TerminalGroup(g)}
<1>1. outcome' = [t \in Tasks |-> IF t \in removed THEN "cancelled" ELSE outcome[t]]
    BY DEF CancelGroupTasks
<1>2. PICK S \in SUBSET (old \cup idle) :
          known' = known \ S /\ group' = Forget(records, S)
    BY DEF CancelGroupTasks, Pruned
<1>3. \A g \in gs : /\ record(g) \in GroupRecord
                    /\ record(g).completed = group[g].completed
                    /\ record(g).failed = group[g].failed
                    /\ record(g).cancelled = n(g)
                    /\ record(g).expected = group[g].expected
    <2> TAKE g \in gs
    <2>1. group[g] \in GroupRecord
        BY Unfolded DEF Recorded
    <2>2. Cardinality(removed \cap FilesOf(g)) \in Nat
        BY Sizes
    <2>3. n(g) \in Nat /\ o(g) \in {"cancelled", "cancelling"}
        BY <2>1, <2>2 DEF GroupRecord
    <2> HIDE DEF n, o
    <2> QED BY <2>1, <2>3 DEF GroupRecord, Overrides
<1> HIDE DEF record
<1>4. records \in [Groups -> GroupRecord]
    BY <1>3, Unfolded DEF Recorded
<1>5. /\ \A h \in Groups \ gs : records[h] = group[h]
      /\ \A h \in gs : records[h] = record(h)
    OBVIOUS
<1> HIDE DEF records, old, idle
<1>6. \A u \in Tasks : outcome'[u] = IF u \in removed THEN "cancelled" ELSE outcome[u]
    BY <1>1
<1>7. Tally(records, known, outcome', Live \ removed)
    <2>1. \A h \in gs : /\ records[h].completed = group[h].completed
                        /\ records[h].failed = group[h].failed
                        /\ records[h].cancelled
                              = group[h].cancelled + Cardinality(removed \cap FilesOf(h))
                        /\ records[h].expected = group[h].expected
        BY <1>3, <1>5
    <2>2. removed \subseteq Pending /\ \A t \in removed : GroupOf[t] \in gs
        OBVIOUS
    <2> HIDE DEF removed, n
    <2> QED BY <1>4, <1>5, <1>6, <2>1, <2>2, CancelledTally
<1> HIDE DEF removed
<1>8. Tally(Forget(records, S), known \ S, outcome', Live \ removed)
    BY <1>4, <1>7, Forgotten, Unfolded DEF Recorded
<1> QED BY <1>2, <1>8 DEF removed

(* What the cancelling handlers leave in the queue is all that waits.      *)
LEMMA CancelLive ==
    ASSUME IInv, TallyInv, NEW gs, gs \subseteq Groups, CancelGroupTasks(gs),
           NEW q, q = Without(queue, UNION {FilesOf(g) : g \in gs}),
           ProcessNext(q, phase) \/ (queue' = q /\ phase' = phase)
    PROVE  TallyThen
<1> DEFINE removed == {t \in Pending : GroupOf[t] \in gs}
<1>1. q = Without(queue, removed)
    BY WithoutGroups
<1>3. removed \subseteq Pending
    OBVIOUS
<1> HIDE DEF removed
<1>2. IsOrder(q, Tasks) /\ Elems(q) = Pending \ removed
    <2>1. IsOrder(queue, Tasks) /\ Pending = Elems(queue)
        BY Unfolded
    <2>2. /\ IsOrder(Without(queue, removed), Tasks)
          /\ Elems(Without(queue, removed)) = Elems(queue) \ removed
        BY <2>1, WithoutIsOrder
    <2> QED BY <1>1, <2>1, <2>2
<1>4. Live' = Elems(q) \cup Active
    <2>1. CASE ProcessNext(q, phase)
        BY <1>2, <2>1, LiveServed, Unfolded
    <2>2. CASE queue' = q /\ phase' = phase
        BY <2>2 DEF Live, Pending, Active
    <2> QED BY <2>1, <2>2
<1>5. Live' = Live \ removed
    BY <1>2, <1>3, <1>4, Unfolded DEF Live
<1> QED BY <1>5, CancelGroupTasksTally DEF TallyThen, removed

-----------------------------------------------------------------------------
(* Every step.                                                             *)

(* The handlers that call processNext for the files there are.             *)
LEMMA QueueServed ==
    ASSUME IInv, IInv', TallyInv, UNCHANGED <<outcome, known, group>>, ProcessNext(queue, phase)
    PROVE  TallyThen
BY TallyServed, Unfolded

LEMMA OverrideTally ==
    ASSUME IInv, IInv', TallyInv, NEW g \in Groups, NEW o \in Overrides,
           group' = [group EXCEPT ![g].override = o],
           UNCHANGED <<outcome, known>>, ProcessNext(queue, phase)
    PROVE  TallyThen
<1>1. Live' = Live
    BY LiveServed, Unfolded DEF Live
<1>2. \A h \in known : SameCounters(group'[h], group[h])
    <2> TAKE h \in known
    <2>1. h \in Groups /\ group[h] \in GroupRecord
        BY Unfolded DEF Recorded
    <2>2. group'[h] = group[h] \/ group'[h] = [group[h] EXCEPT !.override = o]
        BY <2>1, Unfolded DEF Recorded
    <2> QED BY <2>1, <2>2, Unchanged, OverrideOnly
<1> QED BY <1>1, <1>2, TallyKept

LEMMA QuietTally ==
    ASSUME IInv, IInv', TallyInv, UNCHANGED <<outcome, known, group, queue>>,
           ActiveIn(phase') \subseteq Active
    PROVE  TallyThen
<1>1. Live' \subseteq Live
    BY DEF Live, Pending, Active, ActiveIn
<1>2. \A g \in known : SameCounters(group'[g], group[g])
    BY Unchanged DEF IInv, TypeOK
<1> QED BY <1>1, <1>2, TallyKept

LEMMA TallyStep ==
    ASSUME IInv, TallyInv, [Next]_vars
    PROVE  TallyThen
<1>0. IInv'
    BY NextStep
<1>1. phase \in [Tasks -> Phases \cup {"none"}] /\ ActiveIn(phase) = Active
    BY Unfolded
<1>2. CASE Execution
    <2>1. ASSUME NEW t \in Tasks, SetRetrying(t) \/ Progress(t) PROVE TallyThen
        <3>1. ActiveIn(phase') \subseteq Active
            BY <1>1, <2>1 DEF SetRetrying, Progress, ActiveIn
        <3>2. UNCHANGED <<outcome, known, group, queue>>
            BY <2>1 DEF SetRetrying, Progress, groupVars
        <3> QED BY <1>0, <3>1, <3>2, QuietTally
    <2>2. ASSUME NEW t \in Tasks, DiskWait(t) PROVE TallyThen
        BY <1>0, <1>1, <2>2, QuietTally DEF DiskWait, executorVars, groupVars
    <2>3. ASSUME NEW t \in Tasks, DiskRelease(t) PROVE TallyThen
        BY <1>0, <2>3, QueueServed DEF DiskRelease, groupVars
    <2>4. ASSUME NEW t \in Tasks, BeginUpload(t) PROVE TallyThen
        <3>1. /\ ProcessNext(queue, Promoted(BeginLine(t), Asked(t)))
              /\ UNCHANGED <<outcome, known, group>>
            BY <2>4 DEF BeginUpload, groupVars, BeginLine, Asked
        <3>2. ActiveIn(Promoted(BeginLine(t), Asked(t))) \subseteq Active
            BY <2>4, ServingBegin DEF Serving, ServingWith
        <3> QED BY <1>0, <3>1, <3>2, TallyServed, Unfolded
    <2>5. ASSUME NEW t \in Tasks, WaitForStorage(t) PROVE TallyThen
        <3> DEFINE stopped == [phase EXCEPT ![t] = "waiting_storage"]
        <3>1. stopped \in [Tasks -> Phases \cup {"none"}] /\ ActiveIn(stopped) = Active
            BY <1>1, <2>5 DEF WaitForStorage, ActiveIn, Phases, Downloads
        <3>2. phase' = Promoted(waiters, stopped) /\ UNCHANGED <<outcome, known, group, queue>>
            BY <2>5 DEF WaitForStorage, groupVars
        <3> HIDE DEF stopped
        <3>3. ActiveIn(phase') = Active
            BY <3>1, <3>2, PromotedIsActive, Unfolded DEF Recorded
        <3> QED BY <1>0, <3>2, <3>3, QuietTally
    <2>6. ASSUME NEW t \in Tasks, Ends(t) PROVE TallyThen
        BY <1>0, <2>6, SettleTally
    <2> QED BY <1>2, <2>1, <2>2, <2>3, <2>4, <2>5, <2>6 DEF Execution
<1>3. CASE Arrival
    BY <1>0, <1>3, EnsureGroupTally, RestoreGroupTally, AddTally, AddRefusedTally,
       RetryFailedTally
    DEF Arrival
<1>4. CASE Control
    <2>1. ASSUME NEW n \in Limits, SetMaxConcurrent(n) PROVE TallyThen
        BY <1>0, <2>1, QueueServed DEF SetMaxConcurrent, groupVars
    <2>2. ASSUME NEW g \in Groups, PrioritizeGroup(g) PROVE TallyThen
        <3> DEFINE q == ToFront(queue, Pending \cap FilesOf(g))
        <3>1. IsOrder(q, Tasks) /\ Elems(q) = Pending
            BY Unfolded, ToFrontIsOrder
        <3>2. ProcessNext(q, phase) /\ UNCHANGED <<outcome, known, group>>
            BY <2>2 DEF PrioritizeGroup, groupVars
        <3> HIDE DEF q
        <3> QED BY <1>0, <1>1, <3>1, <3>2, TallyServed
    <2>3. ASSUME NEW g \in Groups, PauseGroup(g) PROVE TallyThen
        <3> DEFINE o == IF Active \cap FilesOf(g) # {} THEN "pausing" ELSE "paused"
        <3>1. /\ group' = [group EXCEPT ![g].override = o]
              /\ UNCHANGED <<outcome, known>> /\ ProcessNext(queue, phase)
            BY <2>3 DEF PauseGroup
        <3>2. o \in Overrides
            BY DEF Overrides
        <3> HIDE DEF o
        <3> QED BY <1>0, <3>1, <3>2, OverrideTally
    <2>4. ASSUME NEW g \in Groups, ResumeGroup(g) PROVE TallyThen
        <3>1. /\ group' = [group EXCEPT ![g].override = "none"]
              /\ UNCHANGED <<outcome, known>> /\ ProcessNext(queue, phase)
            BY <2>4 DEF ResumeGroup
        <3>2. "none" \in Overrides
            BY DEF Overrides
        <3> QED BY <1>0, <3>1, <3>2, OverrideTally
    <2>5. ASSUME NEW g \in Groups, CancelGroup(g) PROVE TallyThen
        <3>1. /\ CancelGroupTasks({g})
              /\ ProcessNext(Without(queue, FilesOf(g)), phase)
            BY <2>5 DEF CancelGroup
        <3>2. Without(queue, FilesOf(g)) = Without(queue, UNION {FilesOf(h) : h \in {g}})
            OBVIOUS
        <3>3. {g} \subseteq Groups
            OBVIOUS
        <3> QED BY <3>1, <3>2, <3>3, CancelLive
    <2>6. ASSUME NEW s \in Scopes, CancelScope(s) PROVE TallyThen
        <3> DEFINE gs == {g \in ScopeGroups[s] : Cancellable(g)}
        <3>1. CancelGroupTasks(gs) /\ ProcessNext(Without(queue, UNION {FilesOf(g) : g \in gs}), phase)
            BY <2>6 DEF CancelScope
        <3>2. gs \subseteq Groups
            BY QueueAssumption
        <3> HIDE DEF gs
        <3> QED BY <3>1, <3>2, CancelLive
    <2>7. ASSUME NEW s \in Scopes, PauseScope(s) PROVE TallyThen
        BY <1>0, <1>1, <2>7, QuietTally DEF PauseScope, executorVars, groupVars
    <2>8. ASSUME NEW s \in Scopes, ResumeScope(s) PROVE TallyThen
        BY <1>0, <2>8, QueueServed DEF ResumeScope, groupVars
    <2>9. ASSUME NEW t \in Tasks, CancelPending(t) PROVE TallyThen
        BY <1>0, <2>9, CancelPendingTally
    <2>10. ASSUME NEW t \in Tasks, CancelActive(t) PROVE TallyThen
        BY <1>0, <2>10, QueueServed DEF CancelActive, groupVars
    <2>11. CASE PauseAll
        BY <1>0, <1>1, <2>11, QuietTally DEF PauseAll, executorVars, groupVars
    <2>12. CASE ResumeAll
        BY <1>0, <2>12, QueueServed DEF ResumeAll, groupVars
    <2>13. CASE ForceStopAll
        <3> DEFINE gs == {g \in Groups : Cancellable(g)}
        <3>1. /\ CancelGroupTasks(gs)
              /\ queue' = Without(queue, UNION {FilesOf(g) : g \in gs}) /\ phase' = phase
            BY <2>13 DEF ForceStopAll
        <3>2. gs \subseteq Groups
            OBVIOUS
        <3> HIDE DEF gs
        <3> QED BY <3>1, <3>2, CancelLive
    <2> QED BY <1>4, <2>1, <2>2, <2>3, <2>4, <2>5, <2>6, <2>7, <2>8, <2>9, <2>10, <2>11, <2>12, <2>13
        DEF Control
<1>5. CASE UNCHANGED vars
    BY <1>0, <1>1, <1>5, QuietTally DEF vars, executorVars, groupVars
<1> QED BY <1>2, <1>3, <1>4, <1>5 DEF Next

LEMMA TallyInvariance == Spec => []TallyInv
<1>1. Init => TallyInv
    BY DEF Init, TallyInv, Tally
<1>2. IInv /\ TallyInv /\ [Next]_vars => TallyInv'
    BY TallyStep DEF TallyInv, TallyThen, Tally, CountsEnded, Covers, Settled, EndedAs, FilesOf
<1> QED BY <1>1, <1>2, Invariance, PTL DEF Spec

(* completed, failed and cancelled of a group never exceed the files that  *)
(* ended so, through retryFailed, restarts of the group, restoreGroup and  *)
(* every order of cancelling and settling: no file is counted twice.       *)
THEOREM NoneCountedTwice == Spec => []CountedOnce
<1>1. TallyInv => CountedOnce
    BY TallyHolds
<1> QED BY <1>1, TallyInvariance, PTL

(* expectedTotal of a group covers its settled and its live files, so the  *)
(* group is not complete while one of its files is still to come.          *)
THEOREM ExpectedCovers == Spec => []ExpectedCoversFiles
<1>1. TallyInv => ExpectedCoversFiles
    BY TallyHolds
<1> QED BY <1>1, TallyInvariance, PTL

-----------------------------------------------------------------------------
(* How files end.                                                          *)

EndingsKept ==
    \A t \in Tasks :
        /\ outcome[t] # "none" /\ outcome'[t] # outcome[t]
              => outcome[t] = "failed" /\ t \in Live'
        /\ t \in aborted /\ t \notin Active' => outcome'[t] = "cancelled"

(* processNext stops nothing.                                              *)
LEMMA RunsOn ==
    ASSUME NEW q, NEW ph, ProcessNext(q, ph)
    PROVE  ActiveIn(ph) \subseteq Active'
BY DEF ProcessNext, ActiveIn, Active

(* Steps that stop no file and end none that has ended.                    *)
LEMMA NoneStops ==
    ASSUME IInv, Active \subseteq Active',
           \A t \in Tasks : outcome[t] = "none" \/ outcome'[t] = outcome[t]
    PROVE  EndingsKept
BY DEF EndingsKept, IInv, OnePlace

LEMMA SameEndings ==
    ASSUME IInv, UNCHANGED outcome, ActiveIn(phase) \subseteq Active'
    PROVE  EndingsKept
BY NoneStops, Unfolded

LEMMA CancelEndings ==
    ASSUME IInv, NEW gs, CancelGroupTasks(gs), ActiveIn(phase) \subseteq Active'
    PROVE  EndingsKept
<1> DEFINE removed == {t \in Pending : GroupOf[t] \in gs}
<1>1. outcome' = [t \in Tasks |-> IF t \in removed THEN "cancelled" ELSE outcome[t]]
    BY DEF CancelGroupTasks
<1>2. \A t \in removed : outcome[t] = "none"
    BY Unfolded
<1> HIDE DEF removed
<1>3. \A t \in Tasks : outcome[t] = "none" \/ outcome'[t] = outcome[t]
    BY <1>1, <1>2
<1> QED BY <1>3, NoneStops, Unfolded

LEMMA SettleEndings ==
    ASSUME IInv, NEW t \in Tasks, Ends(t)
    PROVE  EndingsKept
<1>1. PICK result : Settle(t, result)
    BY DEF Ends
<1>2. /\ phase[t] # "none"
      /\ outcome' = [outcome EXCEPT ![t] = EndOf(t, result)]
    BY <1>1 DEF Settle
<1>3. ActiveIn(Promoted(Without(waiters, {t}), Left(t))) \subseteq Active'
    BY <1>1, RunsOn DEF Settle, Reschedule, Left
<1>4. Active \ {t} \subseteq Active'
    <2>1. /\ Left(t) \in [Tasks -> Phases \cup {"none"}] /\ ActiveIn(Left(t)) = Active \ {t}
          /\ IsOrder(Without(waiters, {t}), Tasks)
          /\ Elems(Without(waiters, {t})) = Elems(waiters) \ {t}
        BY ServingSettle
    <2>2. Elems(Without(waiters, {t})) \subseteq ActiveIn(Left(t))
        BY <2>1, Unfolded
    <2>3. ActiveIn(Promoted(Without(waiters, {t}), Left(t))) = Active \ {t}
        BY <2>1, <2>2, PromotedIsActive
    <2> QED BY <1>3, <2>3
<1>5. outcome[t] = "none" /\ outcome \in [Tasks -> Outcomes \cup {"none"}]
    BY <1>2, Unfolded DEF Recorded, ActiveIn
<1>6. \A u \in Tasks : u # t => outcome'[u] = outcome[u]
    BY <1>2, <1>5
<1>7. t \in aborted => outcome'[t] = "cancelled"
    BY <1>2, <1>5 DEF EndOf
<1>8. aborted \subseteq Active
    BY Unfolded
<1> QED BY <1>4, <1>5, <1>6, <1>7, <1>8 DEF EndingsKept

LEMMA RetryEndings ==
    ASSUME IInv, NEW g \in Groups, RetryFailed(g)
    PROVE  EndingsKept
<1> DEFINE failed == {t \in Elems(history) : GroupOf[t] = g /\ outcome[t] = "failed"}
           C == FirstOf(history, failed, RetryLimit)
           more == Keep(history, C)
           q == Concat(queue, more)
<1>1. C \subseteq failed
    BY DEF FirstOf
<1>2. C \subseteq Elems(history) /\ C \subseteq Tasks
    BY <1>1, Unfolded, ElemsOfOrder DEF Recorded
<1>3. \A t \in C : outcome[t] = "failed"
    BY <1>1
<1>4. /\ outcome' = [t \in Tasks |-> IF t \in C THEN "none" ELSE outcome[t]]
      /\ ProcessNext(q, phase)
    BY DEF RetryFailed
<1> HIDE DEF C
<1>5. IsOrder(more, Tasks) /\ Elems(more) = C
    BY <1>2, Unfolded, KeepIsOrder DEF Recorded
<1>6. C \cap Live = {}
    BY <1>3, Unfolded DEF Live
<1> HIDE DEF more
<1>7. IsOrder(q, Tasks) /\ Elems(q) = Pending \cup C
    BY <1>5, <1>6, MoreInOrder
<1> HIDE DEF q
<1>8. C \subseteq Live' /\ Active \subseteq Active'
    BY <1>4, <1>7, LiveServed, Unfolded
<1>9. aborted \subseteq Active
    BY Unfolded
<1> QED BY <1>2, <1>3, <1>4, <1>8, <1>9 DEF EndingsKept

LEMMA EndingsStep ==
    ASSUME IInv, [Next]_vars
    PROVE  EndingsKept
<1>0. \A q : ProcessNext(q, phase) => ActiveIn(phase) \subseteq Active'
    BY RunsOn
<1>1. UNCHANGED phase => ActiveIn(phase) \subseteq Active'
    BY DEF Active, ActiveIn
<1>2. CASE Execution
    <2>1. ASSUME NEW t \in Tasks, SetRetrying(t) \/ Progress(t) PROVE EndingsKept
        <3>1. UNCHANGED outcome /\ ActiveIn(phase) \subseteq Active'
            BY <2>1, Unfolded DEF SetRetrying, Progress, Active, ActiveIn
        <3> QED BY <3>1, SameEndings
    <2>2. ASSUME NEW t \in Tasks, DiskWait(t) PROVE EndingsKept
        BY <1>1, <2>2, SameEndings DEF DiskWait, executorVars
    <2>3. ASSUME NEW t \in Tasks, DiskRelease(t) PROVE EndingsKept
        BY <1>0, <2>3, SameEndings DEF DiskRelease
    <2>4. ASSUME NEW t \in Tasks, BeginUpload(t) PROVE EndingsKept
        <3>1. ProcessNext(queue, Promoted(BeginLine(t), Asked(t))) /\ UNCHANGED outcome
            BY <2>4 DEF BeginUpload, BeginLine, Asked
        <3>2. ActiveIn(phase) = ActiveIn(Promoted(BeginLine(t), Asked(t)))
            <4>1. /\ Asked(t) \in [Tasks -> Phases \cup {"none"}] /\ ActiveIn(Asked(t)) = Active
                  /\ IsOrder(BeginLine(t), Tasks) /\ Elems(BeginLine(t)) = Elems(waiters) \cup {t}
                BY <2>4, ServingBegin
            <4>2. t \in Active
                BY <2>4 DEF BeginUpload, Active, Downloads
            <4>3. Elems(BeginLine(t)) \subseteq ActiveIn(Asked(t))
                BY <4>1, <4>2, Unfolded
            <4> QED BY <4>1, <4>3, PromotedIsActive, Unfolded
        <3> QED BY <3>1, <3>2, RunsOn, SameEndings
    <2>5. ASSUME NEW t \in Tasks, WaitForStorage(t) PROVE EndingsKept
        <3> DEFINE stopped == [phase EXCEPT ![t] = "waiting_storage"]
        <3>1. stopped \in [Tasks -> Phases \cup {"none"}] /\ ActiveIn(stopped) = Active
            BY <2>5, Unfolded DEF WaitForStorage, ActiveIn, Phases, Downloads
        <3>2. phase' = Promoted(waiters, stopped) /\ UNCHANGED outcome
            BY <2>5 DEF WaitForStorage
        <3> HIDE DEF stopped
        <3>3. ActiveIn(phase') = Active
            BY <3>1, <3>2, PromotedIsActive, Unfolded DEF Recorded
        <3>4. ActiveIn(phase) \subseteq Active'
            BY <3>3, Unfolded DEF Active, ActiveIn
        <3> QED BY <3>2, <3>4, SameEndings
    <2> QED BY <1>2, <2>1, <2>2, <2>3, <2>4, <2>5, SettleEndings DEF Execution
<1>3. CASE Arrival
    <2>1. ASSUME NEW g \in Groups, NEW n \in Expected, EnsureGroup(g, n) PROVE EndingsKept
        BY <1>1, <2>1, SameEndings DEF EnsureGroup, executorVars
    <2>2. ASSUME NEW g \in Groups, NEW ended, NEW paused, RestoreGroup(g, ended, paused)
          PROVE  EndingsKept
        <3>1. \A t \in Tasks : outcome[t] = "none" \/ outcome'[t] = outcome[t]
            BY <2>2 DEF RestoreGroup, FilesOf
        <3>2. Active \subseteq Active'
            BY <2>2 DEF RestoreGroup, Active
        <3> QED BY <3>1, <3>2, NoneStops
    <2>3. ASSUME NEW t \in Tasks, Add(t) PROVE EndingsKept
        BY <1>0, <2>3, SameEndings DEF Add
    <2>4. ASSUME NEW t \in Tasks, AddRefused(t) PROVE EndingsKept
        <3>1. \A u \in Tasks : outcome[u] = "none" \/ outcome'[u] = outcome[u]
            BY <2>4, Unfolded DEF AddRefused, Fresh, Recorded
        <3>2. Active \subseteq Active'
            BY <2>4 DEF AddRefused, Active
        <3> QED BY <3>1, <3>2, NoneStops
    <2> QED BY <1>3, <2>1, <2>2, <2>3, <2>4, RetryEndings DEF Arrival
<1>4. CASE Control
    <2>1. ASSUME NEW n \in Limits, SetMaxConcurrent(n) PROVE EndingsKept
        BY <1>0, <2>1, SameEndings DEF SetMaxConcurrent
    <2>2. ASSUME NEW g \in Groups, PrioritizeGroup(g) PROVE EndingsKept
        BY <1>0, <2>2, SameEndings DEF PrioritizeGroup
    <2>3. ASSUME NEW g \in Groups, PauseGroup(g) PROVE EndingsKept
        BY <1>0, <2>3, SameEndings DEF PauseGroup
    <2>4. ASSUME NEW g \in Groups, ResumeGroup(g) PROVE EndingsKept
        BY <1>0, <2>4, SameEndings DEF ResumeGroup
    <2>5. ASSUME NEW g \in Groups, CancelGroup(g) PROVE EndingsKept
        BY <1>0, <2>5, CancelEndings DEF CancelGroup
    <2>6. ASSUME NEW s \in Scopes, CancelScope(s) PROVE EndingsKept
        BY <1>0, <2>6, CancelEndings DEF CancelScope
    <2>7. ASSUME NEW s \in Scopes, PauseScope(s) PROVE EndingsKept
        BY <1>1, <2>7, SameEndings DEF PauseScope, executorVars
    <2>8. ASSUME NEW s \in Scopes, ResumeScope(s) PROVE EndingsKept
        BY <1>0, <2>8, SameEndings DEF ResumeScope
    <2>9. ASSUME NEW t \in Tasks, CancelPending(t) PROVE EndingsKept
        <3>1. /\ t \in Pending /\ outcome' = [outcome EXCEPT ![t] = "cancelled"]
              /\ ActiveIn(phase) \subseteq Active'
            BY <1>0, <2>9 DEF CancelPending
        <3>2. \A u \in Tasks : outcome[u] = "none" \/ outcome'[u] = outcome[u]
            BY <3>1, Unfolded DEF Recorded
        <3> QED BY <3>1, <3>2, NoneStops, Unfolded
    <2>10. ASSUME NEW t \in Tasks, CancelActive(t) PROVE EndingsKept
        BY <1>0, <2>10, SameEndings DEF CancelActive
    <2>11. CASE PauseAll
        BY <1>1, <2>11, SameEndings DEF PauseAll, executorVars
    <2>12. CASE ResumeAll
        BY <1>0, <2>12, SameEndings DEF ResumeAll
    <2>13. CASE ForceStopAll
        BY <1>1, <2>13, CancelEndings DEF ForceStopAll
    <2> QED BY <1>4, <2>1, <2>2, <2>3, <2>4, <2>5, <2>6, <2>7, <2>8, <2>9, <2>10, <2>11, <2>12, <2>13
        DEF Control
<1>5. CASE UNCHANGED vars
    BY <1>1, <1>5, SameEndings DEF vars, executorVars
<1> QED BY <1>2, <1>3, <1>4, <1>5 DEF Next

(* An ended file stays as it ended unless it is a failed one that          *)
(* retryFailed put back, and whatever the executor of an aborted file      *)
(* returns, the file ends as cancelled.                                    *)
THEOREM EndingsStay == Spec => EndsForGood
<1>1. IInv /\ [Next]_vars => [EndingsKept]_vars
    BY EndingsStep
<1>2. EndingsKept <=> \A t \in Tasks :
          /\ outcome[t] # "none" /\ outcome'[t] # outcome[t]
                => outcome[t] = "failed" /\ t \in Live'
          /\ t \in aborted /\ t \notin Active' => outcome'[t] = "cancelled"
    BY DEF EndingsKept
<1> QED BY <1>1, <1>2, Invariance, PTL DEF Spec, EndsForGood

(* Only pauseScope pauses a scope.                                         *)
LEMMA OthersPauseNone ==
    ASSUME [Next]_vars
    PROVE  scopePauses' \subseteq scopePauses \/ \E s \in Scopes : PauseScope(s)
<1>1. CASE Execution
    BY <1>1 DEF Execution, SetRetrying, Progress, DiskWait, DiskRelease, BeginUpload,
       WaitForStorage, Ends, Settle, controlVars
<1>2. CASE Arrival
    BY <1>2 DEF Arrival, EnsureGroup, RestoreGroup, Add, AddRefused, RetryFailed, controlVars
<1>3. CASE Control
    BY <1>3 DEF Control, SetMaxConcurrent, PrioritizeGroup, PauseGroup, ResumeGroup, CancelGroup,
       CancelScope, ResumeScope, CancelPending, CancelActive, PauseAll, ResumeAll, ForceStopAll,
       controlVars
<1> QED BY <1>1, <1>2, <1>3 DEF Next, vars, controlVars

(* pauseScope holds back every file of the groups it matches, also of      *)
(* those a user resumed one by one in an earlier pause: the group of a     *)
(* live file has a record, and pauseScope clears the overrides of those.   *)
THEOREM ScopePauseComplete == Spec => ScopePauseIsComplete
<1> DEFINE Complete == \A s \in Scopes : s \in scopePauses' \ scopePauses =>
                \A t \in Live : GroupOf[t] \in ScopeGroups[s] => ScopePaused(GroupOf[t])'
<1>1. ASSUME IInv, [Next]_vars PROVE Complete
    <2>1. CASE scopePauses' \subseteq scopePauses
        BY <2>1
    <2>2. ASSUME NEW r \in Scopes, PauseScope(r) PROVE Complete
        <3>1. /\ scopePauses' = scopePauses \cup {r}
              /\ overrides' = overrides \ (ScopeGroups[r] \cap known)
            BY <2>2 DEF PauseScope
        <3>2. \A t \in Live : GroupOf[t] \in known
            BY <1>1 DEF IInv, LiveFilesHaveGroup
        <3> QED BY <3>1, <3>2 DEF ScopePaused
    <2> QED BY <1>1, <2>1, <2>2, OthersPauseNone
<1>2. IInv /\ [Next]_vars => [Complete]_vars
    BY <1>1
<1> QED BY <1>2, Invariance, PTL DEF Spec, ScopePauseIsComplete
=============================================================================
