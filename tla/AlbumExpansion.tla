--------------------------- MODULE AlbumExpansion ---------------------------
(* expandTelegramMediaGroups (telegramChannelScanner.ts): the posts of an  *)
(* album have numbers close to each other, so those that a page misses are *)
(* asked for by number, around the ones that are known, until a foreign    *)
(* post ends the album on both sides, or a fixed neighbourhood was read.   *)
EXTENDS Integers, FiniteSets, FiniteSetsExt

CONSTANTS
    Top,        \* greatest number of a post
    Albums,     \* albums of the channel
    Layouts,    \* what the channel may be: the album of each post, or ...
    Pages,      \* numbers of the posts that the scan has read already
    Reach,      \* how far around the known posts numbers are asked for, at most
    Full,       \* number of posts of a whole album
    Batch       \* numbers of one request

Foreign == "foreign"    \* a post of no album, or of one that is not wanted
None == "none"          \* no post

VARIABLES
    layout,     \* the channel
    visited,    \* numbers whose post, if there is one, is known
    groups      \* of each album known: how far it was looked for

vars == <<layout, visited, groups>>

Ids == 1..Top
Known == {id \in visited : layout[id] # None}
Posts(a) == {id \in Ids : layout[id] = a}
Members(a) == Posts(a) \cap visited

Down == -1
Up == 1
Sides == {Down, Up}
Ends(side) == IF side = Down THEN 1 ELSE Top
Member(a, side) == IF side = Down THEN Min(Members(a)) ELSE Max(Members(a))
Within(id, side, edge) == IF side = Down THEN id >= edge ELSE id <= edge
Around(a, side, far) ==
    IF side = Down THEN Max({1, Member(a, side) - far}) ELSE Min({Top, Member(a, side) + far})

(* An album of a wanted post, and the bounds that its known posts give.    *)
NewGroup(a) ==
    [edge |-> [s \in Sides |-> Around(a, s, 2)], limit |-> [s \in Sides |-> Around(a, s, Reach)],
     closed |-> [s \in Sides |-> FALSE], expanded |-> FALSE, uncertain |-> FALSE]

Wanted == DOMAIN groups
Whole(a) == Cardinality(Members(a)) >= Full
Interval(a) == groups[a].edge[Down]..groups[a].edge[Up]
Ready(a) == Interval(a) \subseteq visited

Expanded(g) ==
    [g EXCEPT !.expanded = TRUE, !.edge = g.limit, !.closed = [s \in Sides |-> FALSE]]

(* Posts of others between two of the album, or three numbers without one. *)
Interleaved(a) ==
    \E id \in Known : Member(a, Down) < id /\ id < Member(a, Up) /\ layout[id] # a
Holed(a) ==
    \E id \in Member(a, Down)..(Member(a, Up) - 2) : {id, id + 1, id + 2} \cap Known = {}

(* A known post lies beyond the bound of the look-up: the bound follows.   *)
Follow(a, side) ==
    LET near == Around(a, side, 2) limit == groups[a].limit[side] IN
    IF Within(near, side, limit) THEN near ELSE limit
Outgrown(a, side) ==
    /\ ~Within(Member(a, side), side, groups[a].edge[side])
    /\ Follow(a, side) # groups[a].edge[side]

(* A look-up towards one side ends at a foreign post, or widens.           *)
Advance(g, a, side) ==
    LET edge == g.edge[side]
        foreign == {id \in Known : Within(id, side, edge)
                                   /\ ~Within(id, side, Member(a, side))} IN
    IF g.expanded \/ g.closed[side] THEN g
    ELSE IF foreign # {} \/ edge = Ends(side) THEN [g EXCEPT !.closed[side] = TRUE]
    ELSE IF (edge - Member(a, side)) * side > 2 \/ edge = g.limit[side] THEN Expanded(g)
    ELSE [g EXCEPT !.edge[side] = @ + side]

(* One turn of refreshGroups over one album.                               *)
Turn(a) ==
    LET g == groups[a] IN
    IF Whole(a) THEN g
    ELSE IF ~g.expanded /\ Interleaved(a) THEN Expanded(g)
    ELSE IF ~g.expanded /\ \E s \in Sides : Outgrown(a, s)
    THEN [g EXCEPT !.edge = [s \in Sides |-> IF Outgrown(a, s) THEN Follow(a, s) ELSE @[s]],
                   !.closed = [s \in Sides |-> ~Outgrown(a, s) /\ @[s]]]
    ELSE IF ~Ready(a) THEN g
    ELSE IF g.expanded THEN [g EXCEPT !.uncertain = TRUE, !.closed = [s \in Sides |-> TRUE]]
    ELSE IF Holed(a) THEN Expanded(g)
    ELSE Advance(Advance(g, a, Down), a, Up)

Refresh(a) ==
    /\ Turn(a) # groups[a]
    /\ groups' = [groups EXCEPT ![a] = Turn(a)]
    /\ UNCHANGED <<layout, visited>>

Refreshed == \A a \in Wanted : Turn(a) = groups[a]
Closed(a) == \A s \in Sides : groups[a].closed[s]
Frontier == UNION {Interval(a) \ visited : a \in {b \in Wanted : ~Whole(b) /\ ~Closed(b)}}

(* The next request; a side where the album grew is looked at again.       *)
Asked(ids) == {id \in ids : Cardinality({i \in ids : i < id}) < Batch}
Read ==
    /\ Refreshed /\ Frontier # {}
    /\ UNCHANGED layout
    /\ visited' = visited \cup Asked(Frontier)
    /\ groups' = [a \in Wanted |-> [groups[a] EXCEPT !.closed = [s \in Sides |->
           @[s] /\ Member(a, s) = Member(a, s)']]]

Init ==
    /\ layout \in Layouts
    /\ visited \in {{id \in page : layout[id] # None} : page \in Pages}
    /\ \E wanted \in SUBSET {a \in Albums : Members(a) # {}} :
          groups = [a \in wanted |-> NewGroup(a)]

Next == Read \/ \E a \in Wanted : Refresh(a)
Spec == Init /\ [][Next]_vars

-----------------------------------------------------------------------------
TypeOK ==
    /\ layout \in [Ids -> Albums \cup {Foreign, None}]
    /\ visited \subseteq Ids
    /\ groups \in [Wanted -> [edge : [Sides -> Ids], limit : [Sides -> Ids],
                              closed : [Sides -> BOOLEAN], expanded : BOOLEAN, uncertain : BOOLEAN]]
    /\ Wanted \subseteq Albums

Ended == Refreshed /\ Frontier = {}
InReach(a) == groups[a].limit[Down]..groups[a].limit[Up]

(* An album with nothing of others inside and no hole of three numbers.    *)
Compact(a) ==
    /\ \A id \in Min(Posts(a))..Max(Posts(a)) : layout[id] \in {a, None}
    /\ \A id \in Min(Posts(a))..(Max(Posts(a)) - 2) : \E i \in id..(id + 2) : layout[i] # None

(* When the look-up ends, an album as Telegram makes them is whole, as far *)
(* as it is in reach; so is one whose posts that are known show others, or *)
(* a hole, between them; and no number out of reach of all is asked for    *)
(* (telegramChannelScanner.ts).                                            *)
AlbumsWhole ==
    /\ Ended => \A a \in Wanted :
           Compact(a) \/ Interleaved(a) \/ Holed(a) => Posts(a) \cap InReach(a) \subseteq visited
    /\ Frontier \subseteq UNION {InReach(a) : a \in Wanted}
=============================================================================
