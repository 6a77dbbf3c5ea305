---------------------------- MODULE ClientsProofs ----------------------------
(***************************************************************************)
(* Proofs about clients and what they are given.  About what is shown and  *)
(* read of a log and what is written, for logs, lines and payloads of any  *)
(* size; about the daemon's endpoint, for any set of daemons, any number   *)
(* of tries for the lock, and any kills and stops; and about the commands  *)
(* and tools that use it, for any set of processes, whatever they are told *)
(* to do and however daemons come and go.                                  *)
(***************************************************************************)
EXTENDS Endpoint, Commands, Content, Display, SequenceTheorems,
        FiniteSetTheorems, WellFoundedInduction, TLAPS

-----------------------------------------------------------------------------
(* Sets of numbers in their order.                                         *)

NumberSets == {S \in SUBSET Nat : IsFiniteSet(S)}
Below(S, r) == {s \in S : s < r}

\* The elements of a set that are below one of it number fewer the smaller it is.
LEMMA RankGrows ==
  ASSUME NEW S \in NumberSets, NEW a \in S, NEW b \in S, a < b
  PROVE  Cardinality(Below(S, a)) < Cardinality(Below(S, b))
<1>0. S \subseteq Nat /\ a \in Nat /\ b \in Nat
  BY DEF NumberSets
<1>1. Below(S, a) \in SUBSET Below(S, b) /\ a \in Below(S, b) /\ a \notin Below(S, a)
  <2>1. \A s \in S : s < a => s < b
    BY <1>0
  <2>2. ~(a < a)
    BY <1>0
  <2>3. QED
    BY <2>1, <2>2 DEF Below
<1>2. IsFiniteSet(Below(S, a)) /\ IsFiniteSet(Below(S, b))
  BY FS_Subset DEF Below, NumberSets
<1>3. Cardinality(Below(S, a)) <= Cardinality(Below(S, b))
      /\ Cardinality(Below(S, a)) # Cardinality(Below(S, b))
  BY <1>1, <1>2, FS_Subset
<1>4. QED
  BY <1>2, <1>3, FS_CardinalityType

\* The rank of an element is below their number.
LEMMA RankType ==
  ASSUME NEW S \in NumberSets, NEW r \in S
  PROVE  Cardinality(Below(S, r)) \in 0 .. Cardinality(S) - 1
<1>1. Below(S, r) \in SUBSET S /\ r \notin Below(S, r) /\ IsFiniteSet(S)
  BY DEF Below, NumberSets
<1>2. IsFiniteSet(Below(S, r)) /\ Cardinality(Below(S, r)) <= Cardinality(S)
      /\ Cardinality(Below(S, r)) # Cardinality(S)
  BY <1>1, FS_Subset
<1>3. QED
  BY <1>1, <1>2, FS_CardinalityType

\* Every rank is taken: for each i there is an element with i - 1 smaller ones.
LEMMA RankTaken ==
  ASSUME NEW S \in NumberSets, NEW i \in 1 .. Cardinality(S)
  PROVE  \E r \in S : Cardinality(Below(S, r)) = i - 1
<1> DEFINE N == 1 .. Cardinality(S)
           rank == [r \in S |-> Cardinality(Below(S, r)) + 1]
<1>1. IsFiniteSet(S) /\ S \subseteq Nat /\ Cardinality(S) \in Nat
  BY FS_CardinalityType DEF NumberSets
<1>2. rank \in [S -> N]
  BY <1>1, RankType
<1>3. ASSUME NEW a \in S, NEW b \in S, rank[a] = rank[b] PROVE a = b
  <2>1. Cardinality(Below(S, a)) = Cardinality(Below(S, b))
    BY <1>1, <1>3, RankType
  <2>2. ~(a < b) /\ ~(b < a)
    BY <2>1, RankGrows, RankType, <1>1
  <2>3. QED
    BY <1>1, <2>2
<1>4. rank \in Injection(S, N)
  BY <1>2, <1>3 DEF Injection, IsInjective
<1>5. IsFiniteSet(N) /\ Cardinality(N) = Cardinality(S)
  <2> HIDE DEF N
  <2>1. IsFiniteSet(N) /\ Cardinality(N) = IF 1 > Cardinality(S) THEN 0 ELSE Cardinality(S) - 1 + 1
    BY <1>1, FS_Interval DEF N
  <2>2. QED
    BY <1>1, <2>1
<1>6. rank \in Surjection(S, N)
  <2> HIDE DEF N, rank
  <2>1. QED
    BY <1>4, <1>5, FS_Injection
<1>7. PICK r \in S : rank[r] = i
  BY <1>6 DEF Surjection
<1>8. QED
  BY <1>7, <1>1, RankType

\* The sequence has every member of the set, in order.
LEMMA AscendingTheorem ==
  ASSUME NEW S \in NumberSets, NEW T, S \subseteq T
  PROVE  /\ Ascending(S) \in Seq(T) /\ Len(Ascending(S)) = Cardinality(S)
         /\ Cardinality(S) \in Nat
         /\ \A i \in 1 .. Cardinality(S) : Ascending(S)[i] \in S
         /\ \A r \in S : \E i \in 1 .. Cardinality(S) : Ascending(S)[i] = r
         /\ \A i, j \in 1 .. Cardinality(S) : i < j => Ascending(S)[i] < Ascending(S)[j]
<1> DEFINE n == Cardinality(S)
           nth(i) == CHOOSE r \in S : Cardinality(Below(S, r)) = i - 1
<1>1. n \in Nat /\ S \subseteq Nat
  BY FS_CardinalityType DEF NumberSets
<1>2. Ascending(S) = [i \in 1 .. n |-> nth(i)]
  BY DEF Ascending, Below
<1>3. ASSUME NEW i \in 1 .. n PROVE nth(i) \in S /\ Cardinality(Below(S, nth(i))) = i - 1
  BY RankTaken
<1> HIDE DEF nth
<1>4. ASSUME NEW i \in 1 .. n PROVE Ascending(S)[i] = nth(i) /\ nth(i) \in T
  BY <1>2, <1>3
<1>5. Ascending(S) \in [1 .. n -> T]
  BY <1>2, <1>3
<1>6. Ascending(S) \in Seq(T) /\ Len(Ascending(S)) = n
  <2> HIDE DEF n
  <2>1. QED
    BY <1>1, <1>5
<1>7. ASSUME NEW r \in S PROVE \E i \in 1 .. n : Ascending(S)[i] = r
  <2> DEFINE i == Cardinality(Below(S, r)) + 1
  <2>1. i \in 1 .. n /\ Cardinality(Below(S, r)) = i - 1
    BY <1>1, RankType
  <2>2. nth(i) \in S /\ Cardinality(Below(S, nth(i))) = Cardinality(Below(S, r))
    BY <1>3, <2>1
  <2>3. ~(nth(i) < r) /\ ~(r < nth(i))
    <3>1. Cardinality(Below(S, r)) \in Int /\ IsFiniteSet(S)
      BY <1>1, RankType DEF NumberSets
    <3>2. nth(i) < r => Cardinality(Below(S, nth(i))) < Cardinality(Below(S, r))
      BY <2>2, RankGrows
    <3>3. r < nth(i) => Cardinality(Below(S, r)) < Cardinality(Below(S, nth(i)))
      BY <2>2, RankGrows
    <3>4. QED
      BY <2>2, <3>1, <3>2, <3>3
  <2>4. nth(i) = r
    <3>1. nth(i) \in Nat /\ r \in Nat
      BY <1>1, <2>2
    <3>2. QED
      BY <2>3, <3>1
  <2>5. QED
    BY <1>4, <2>1, <2>4
<1>8. ASSUME NEW i \in 1 .. n, NEW j \in 1 .. n, i < j PROVE nth(i) < nth(j)
  <2>1. nth(i) \in S /\ nth(j) \in S /\ nth(i) # nth(j)
    BY <1>1, <1>3, <1>8
  <2>2. ~(nth(j) < nth(i))
    <3>1. SUFFICES ASSUME nth(j) < nth(i) PROVE FALSE
      OBVIOUS
    <3>2. Cardinality(Below(S, nth(j))) < Cardinality(Below(S, nth(i)))
      BY <2>1, <3>1, RankGrows
    <3>3. QED
      BY <1>1, <1>3, <1>8, <3>2
  <2>3. nth(i) \in Nat /\ nth(j) \in Nat
    BY <1>1, <2>1
  <2>4. QED
    BY <2>1, <2>2, <2>3
<1>9. QED
  BY <1>1, <1>3, <1>4, <1>6, <1>7, <1>8

\* Every set of places of a sequence.
LEMMA PlacesAreNumbers ==
  ASSUME NEW s, NEW T, s \in Seq(T), NEW P \in SUBSET DOMAIN s
  PROVE  P \in NumberSets
<1>1. DOMAIN s = 1 .. Len(s) /\ Len(s) \in Nat
  OBVIOUS
<1>2. IsFiniteSet(1 .. Len(s))
  BY <1>1, FS_Interval
<1>3. QED
  BY <1>1, <1>2, FS_Subset DEF NumberSets

\* What is taken from a sequence at some of its places is no longer than it.
LEMMA AtPlacesTheorem ==
  ASSUME NEW T, NEW s \in Seq(T), NEW P \in SUBSET DOMAIN s
  PROVE  /\ AtPlaces(s, P) \in Seq(T) /\ Len(AtPlaces(s, P)) \in Nat
         /\ Len(AtPlaces(s, P)) <= Len(s)
<1> DEFINE p == Ascending(P)
<1>1. /\ p \in Seq(DOMAIN s) /\ Len(p) = Cardinality(P) /\ Len(p) \in Nat
  BY PlacesAreNumbers, AscendingTheorem
<1>2. Cardinality(P) <= Len(s)
  <2>1. DOMAIN s = 1 .. Len(s) /\ Len(s) \in Nat
    OBVIOUS
  <2>2. IsFiniteSet(1 .. Len(s)) /\ Cardinality(1 .. Len(s)) = IF 1 > Len(s) THEN 0 ELSE Len(s) - 1 + 1
    BY <2>1, FS_Interval
  <2>3. Cardinality(1 .. Len(s)) = Len(s)
    BY <2>1, <2>2
  <2>4. QED
    BY <2>1, <2>2, <2>3, FS_Subset
<1> HIDE DEF p
<1>3. AtPlaces(s, P) = [i \in 1 .. Len(p) |-> s[p[i]]]
  BY <1>1 DEF AtPlaces, p
<1>4. \A i \in 1 .. Len(p) : s[p[i]] \in T
  BY <1>1
<1>5. [i \in 1 .. Len(p) |-> s[p[i]]] \in Seq(T) /\ Len([i \in 1 .. Len(p) |-> s[p[i]]]) = Len(p)
  BY <1>1, <1>4
<1>6. QED
  BY <1>1, <1>2, <1>3, <1>5

-----------------------------------------------------------------------------
(* Display.                                                                *)

Lines == [id : 0 .. MaxRows, text : LineTexts]

\* The lines of a display fit it, and only a window has a list of places.
DisplayInv ==
  /\ rows \subseteq Id /\ content \in [Id -> LineTexts] /\ next \in Nat \ {0}
  /\ listed \in Seq(Lines) /\ Len(listed) <= MaxShown
  /\ active \in BOOLEAN /\ (active => viewer = "window")
  /\ FilterTrue

\* The newest lines are no more than fit, and all of them if they do.
LEMMA NewestTheorem ==
  ASSUME NEW s \in Seq(Lines)
  PROVE  /\ Newest(s) \in Seq(Lines) /\ Len(Newest(s)) <= MaxShown
         /\ Len(s) <= MaxShown => Newest(s) = s
<1> USE DisplayAssumption DEF DisplayAssumption
<1>1. Len(s) \in Nat
  OBVIOUS
<1>2. CASE Len(s) <= MaxShown
  BY <1>2 DEF Newest
<1>3. CASE ~(Len(s) <= MaxShown)
  <2>1. Newest(s) = SubSeq(s, Len(s) - MaxShown + 1, Len(s))
    BY <1>3 DEF Newest
  <2>2. Len(s) - MaxShown + 1 \in 1 .. Len(s) + 1
    BY <1>1, <1>3
  <2>3. /\ SubSeq(s, Len(s) - MaxShown + 1, Len(s)) \in Seq(Lines)
        /\ Len(SubSeq(s, Len(s) - MaxShown + 1, Len(s))) =
             IF Len(s) - MaxShown + 1 <= Len(s) THEN Len(s) - (Len(s) - MaxShown + 1) + 1 ELSE 0
    BY <1>1, <2>2, SubSeqProperties
  <2>4. Len(SubSeq(s, Len(s) - MaxShown + 1, Len(s))) = MaxShown
    BY <1>1, <1>3, <2>3
  <2>5. QED
    BY <1>3, <2>1, <2>3, <2>4
<1>4. QED
  BY <1>2, <1>3

\* What is pushed behind the lines there are.
LEMMA PushedTheorem ==
  ASSUME listed \in Seq(Lines), NEW s \in Seq(Lines)
  PROVE  Pushed(s) \in Seq(Lines) /\ Len(Pushed(s)) <= MaxShown
<1>1. listed \o s \in Seq(Lines)
  OBVIOUS
<1>2. QED
  BY <1>1, NewestTheorem DEF Pushed

\* Where the places are rebuilt they are those of the lines that match.
LEMMA BuiltTheorem ==
  ASSUME listed' \in Seq(Lines), NEW text, built' = text, indices' = Built(listed', active', text)
  PROVE  FilterTrue'
<1> SUFFICES ASSUME active', text # NoText PROVE FilterTrue'
  BY DEF FilterTrue
<1> DEFINE P == {i \in DOMAIN listed' : Matches(listed'[i], text)}
           n == Cardinality(P)
<1>1. indices' = Ascending(P)
  BY DEF Built
<1>2. P \in NumberSets /\ P \in SUBSET DOMAIN listed'
  BY PlacesAreNumbers
<1>3. /\ indices' \in Seq(DOMAIN listed') /\ Len(indices') = n /\ n \in Nat
      /\ \A i \in 1 .. n : indices'[i] \in P
      /\ \A r \in P : \E i \in 1 .. n : indices'[i] = r
      /\ \A i, j \in 1 .. n : i < j => indices'[i] < indices'[j]
  <2> HIDE DEF P
  <2>1. /\ Ascending(P) \in Seq(DOMAIN listed') /\ Len(Ascending(P)) = Cardinality(P)
        /\ Cardinality(P) \in Nat
        /\ \A i \in 1 .. Cardinality(P) : Ascending(P)[i] \in P
        /\ \A r \in P : \E i \in 1 .. Cardinality(P) : Ascending(P)[i] = r
        /\ \A i, j \in 1 .. Cardinality(P) : i < j => Ascending(P)[i] < Ascending(P)[j]
    BY <1>2, AscendingTheorem
  <2>2. QED
    BY <1>1, <2>1
<1>4. DOMAIN indices' = 1 .. n
  <2>1. \A T : \A q \in Seq(T) : DOMAIN q = 1 .. Len(q)
    OBVIOUS
  <2>2. indices' \in Seq(DOMAIN listed') /\ Len(indices') = n
    BY <1>3
  <2> HIDE DEF P, n
  <2>3. DOMAIN indices' = 1 .. Len(indices')
    BY <2>1, <2>2, Zenon
  <2>4. QED
    BY <2>2, <2>3, Zenon
<1>5. ASSUME NEW k \in 1 .. n
      PROVE  /\ indices'[k] \in DOMAIN listed' /\ Matches(listed'[indices'[k]], text)
             /\ k > 1 => indices'[k - 1] < indices'[k]
  <2>1. indices'[k] \in P
    BY <1>3
  <2>2. ASSUME k > 1 PROVE indices'[k - 1] < indices'[k]
    <3>1. k - 1 \in 1 .. n /\ k - 1 < k
      BY <1>3, <2>2
    <3>2. QED
      BY <1>3, <3>1
  <2>3. QED
    BY <2>1, <2>2
<1>6. ASSUME NEW i \in DOMAIN listed', Matches(listed'[i], text)
      PROVE  i \in Range(indices')
  <2>1. PICK k \in 1 .. n : indices'[k] = i
    BY <1>3, <1>6
  <2>2. QED
    BY <1>4, <2>1 DEF Range
<1> HIDE DEF n, P
<1>7. QED
  BY <1>4, <1>5, <1>6 DEF FilterTrue, Matches

\* A list without a place is right for lines that are on the screen only.
LEMMA UnstoredFilter ==
  ASSUME indices' = <<>>, \A i \in DOMAIN listed' : listed'[i].id = NotStored
  PROVE  FilterTrue'
BY DEF FilterTrue

\* Nothing about the list, its places and the filter they were built with changes.
LEMMA FilterStays ==
  ASSUME FilterTrue, UNCHANGED <<listed, active, indices, built>>
  PROVE  FilterTrue'
BY DEF FilterTrue

\* A line of the surface's own is a line without a row.
LEMMA UnsavedTheorem ==
  ASSUME NEW text \in LineTexts
  PROVE  /\ Unsaved(text) \in Lines /\ <<Unsaved(text)>> \in Seq(Lines) /\ Len(<<Unsaved(text)>>) = 1
         /\ <<Unsaved(text)>>[1].id = NotStored
<1>1. Unsaved(text) \in Lines
  BY DisplayAssumption DEF DisplayAssumption, Unsaved, Lines, NotStored
<1>2. QED
  BY <1>1 DEF Unsaved

\* A fetch pushes rows, and a window rebuilds its places when there were any.
LEMMA FetchKeeps == DisplayInv /\ Fetch => DisplayInv'
<1> SUFFICES ASSUME DisplayInv, Fetch PROVE DisplayInv'
  OBVIOUS
<1> DEFINE page == Page
           more == [i \in DOMAIN page |-> Line(page[i])]
<1>1. /\ UNCHANGED <<viewer, rows, content, next>>
      /\ listed' = Pushed(more) /\ listed \in Seq(Lines) /\ Len(listed) <= MaxShown
      /\ IF viewer = "window" /\ page # <<>> THEN Rebuild ELSE UNCHANGED <<filter, active, indices, built>>
  BY DEF Fetch, DisplayInv, logVars, filterVars
<1>2. page \in Seq(Id)
  <2> DEFINE S == Least({id \in rows : id > LastListed}, FetchLimit)
  <2>1. S \in SUBSET Id
    BY DEF Least, DisplayInv
  <2>2. S \in NumberSets
    <3>1. MaxRows \in Nat /\ IsFiniteSet(1 .. MaxRows)
      BY FS_Interval, DisplayAssumption DEF DisplayAssumption
    <3>2. IsFiniteSet(Id) /\ Id \subseteq Nat
      BY <3>1 DEF Id
    <3> HIDE DEF S
    <3>3. QED
      BY <2>1, <3>2, FS_Subset DEF NumberSets
  <2> HIDE DEF S
  <2>3. Ascending(S) \in Seq(Id)
    BY <2>1, <2>2, AscendingTheorem
  <2>4. QED
    BY <2>3 DEF Page, S
<1> HIDE DEF page
<1>3. more \in Seq(Lines) /\ (page = <<>> => more = <<>>)
  <2>1. \A id \in Id : Line(id) \in Lines
    BY DisplayAssumption DEF DisplayAssumption, Line, Lines, DisplayInv, Id
  <2>2. DOMAIN page = 1 .. Len(page) /\ Len(page) \in Nat /\ \A i \in DOMAIN page : page[i] \in Id
    BY <1>2
  <2>3. more = [i \in 1 .. Len(page) |-> Line(page[i])] /\ \A i \in 1 .. Len(page) : Line(page[i]) \in Lines
    BY <2>1, <2>2
  <2>4. more \in Seq(Lines) /\ Len(more) = Len(page)
    BY <2>2, <2>3
  <2>5. QED
    BY <2>4, EmptySeq
<1> HIDE DEF more
<1>4. listed' \in Seq(Lines) /\ Len(listed') <= MaxShown
  BY <1>1, <1>3, PushedTheorem
<1>5. active' = active /\ active \in BOOLEAN /\ (active' => viewer' = "window")
  BY <1>1 DEF Rebuild, DisplayInv
<1>6. FilterTrue'
  <2>1. CASE viewer = "window" /\ page # <<>>
    <3>1. indices' = Built(listed', active, filter) /\ built' = filter /\ active' = active
      BY <1>1, <2>1 DEF Rebuild
    <3>2. QED
      BY <1>4, <3>1, BuiltTheorem
  <2>2. CASE viewer = "window" /\ page = <<>>
    <3>1. listed' = listed
      <4>1. more = <<>> /\ listed \o <<>> = listed
        BY <1>1, <1>3, <2>2, ConcatEmptySeq
      <4>2. QED
        BY <1>1, <4>1, NewestTheorem DEF Pushed
    <3>2. QED
      BY <1>1, <2>2, <3>1, FilterStays DEF DisplayInv
  <2>3. CASE viewer # "window"
    BY <1>5, <2>3, <1>1 DEF FilterTrue
  <2>4. QED
    BY <2>1, <2>2, <2>3
<1>7. QED
  BY <1>1, <1>4, <1>5, <1>6 DEF DisplayInv

\* A new filter has its places at once.
LEMMA ApplyFilterKeeps == DisplayInv /\ ApplyFilter => DisplayInv'
<1> SUFFICES ASSUME DisplayInv, ApplyFilter PROVE DisplayInv'
  OBVIOUS
<1>1. UNCHANGED <<viewer, rows, content, next, listed>> /\ built' = filter'
  BY DEF ApplyFilter, logVars
<1>2. active' \in BOOLEAN /\ (active' => viewer' = "window")
  BY <1>1 DEF ApplyFilter, DisplayInv
<1>3. FilterTrue'
  <2>1. CASE viewer = "window"
    <3>1. indices' = Built(listed', active', filter') /\ listed' \in Seq(Lines)
      BY <1>1, <2>1 DEF ApplyFilter, DisplayInv
    <3>2. QED
      BY <1>1, <3>1, BuiltTheorem
  <2>2. CASE viewer # "window"
    BY <1>1, <1>2, <2>2 DEF FilterTrue
  <2>3. QED
    BY <2>1, <2>2
<1>4. QED
  BY <1>1, <1>2, <1>3 DEF DisplayInv

\* A line of the surface's own, under a filter, has the places rebuilt.
LEMMA PushOwnKeeps == DisplayInv /\ PushOwn => DisplayInv'
<1> SUFFICES ASSUME DisplayInv, PushOwn PROVE DisplayInv'
  OBVIOUS
<1>1. UNCHANGED <<viewer, rows, content, next, active>>
  BY DEF PushOwn, Rebuild, logVars
<1>2. PICK text \in LineTexts : listed' = Pushed(<<Unsaved(text)>>)
  BY DEF PushOwn
<1>3. listed' \in Seq(Lines) /\ Len(listed') <= MaxShown
  BY <1>2, PushedTheorem, UnsavedTheorem DEF DisplayInv
<1>4. FilterTrue'
  <2>1. CASE active
    <3>1. indices' = Built(listed', active', filter) /\ built' = filter
      BY <1>1, <2>1 DEF PushOwn, Rebuild
    <3>2. QED
      BY <1>3, <3>1, BuiltTheorem
  <2>2. CASE ~active
    BY <1>1, <2>2 DEF FilterTrue
  <2>3. QED
    BY <2>1, <2>2
<1>5. QED
  BY <1>1, <1>3, <1>4 DEF DisplayInv

\* A deletion takes lines out of the list, and the places are rebuilt.
LEMMA DeleteLinesKeeps == DisplayInv /\ DeleteLines => DisplayInv'
<1> SUFFICES ASSUME DisplayInv, DeleteLines PROVE DisplayInv'
  OBVIOUS
<1>1. PICK left : rows' = rows \ left /\ listed' = Without(left)
  BY DEF DeleteLines
<1>2. UNCHANGED <<viewer, content, next, active>> /\ listed \in Seq(Lines) /\ Len(listed) <= MaxShown
  BY DEF DeleteLines, AfterDeletion, Rebuild, filterVars, DisplayInv
<1>3. listed' \in Seq(Lines) /\ Len(listed') <= MaxShown
  <2> DEFINE P == {i \in DOMAIN listed : listed[i].id \notin left}
  <2>1. listed' = AtPlaces(listed, P) /\ P \in SUBSET DOMAIN listed
    BY <1>1 DEF Without, Chosen
  <2> HIDE DEF P
  <2>2. AtPlaces(listed, P) \in Seq(Lines) /\ Len(AtPlaces(listed, P)) \in Nat
        /\ Len(AtPlaces(listed, P)) <= Len(listed)
    BY <1>2, <2>1, AtPlacesTheorem
  <2>3. Len(listed) \in Nat /\ MaxShown \in Nat
    BY <1>2, DisplayAssumption DEF DisplayAssumption
  <2>4. QED
    BY <1>2, <2>1, <2>2, <2>3
<1>4. FilterTrue'
  <2>1. CASE viewer = "window"
    <3>1. indices' = Built(listed', active', filter) /\ built' = filter
      BY <1>2, <2>1 DEF DeleteLines, AfterDeletion, Rebuild
    <3>2. QED
      BY <1>3, <3>1, BuiltTheorem
  <2>2. CASE viewer # "window"
    BY <1>2, <2>2 DEF FilterTrue, DisplayInv
  <2>3. QED
    BY <2>1, <2>2
<1>5. QED
  BY <1>1, <1>2, <1>3, <1>4 DEF DisplayInv

\* What is cleared leaves no place, and no line that is stored.
LEMMA ClearKeeps == DisplayInv /\ (ClearDisplay \/ ClearCapture) => DisplayInv'
<1> SUFFICES ASSUME DisplayInv, ClearDisplay \/ ClearCapture PROVE DisplayInv'
  OBVIOUS
<1>1. UNCHANGED <<viewer, content, next, active, built>> /\ indices' = <<>> /\ rows' \in {rows, {}}
  BY DEF ClearDisplay, ClearCapture, logVars
<1>2. listed' = <<>> \/ \E text \in LineTexts : listed' = <<Unsaved(text)>>
  BY DEF ClearDisplay, ClearCapture
<1>3. /\ listed' \in Seq(Lines) /\ Len(listed') <= 1
      /\ \A i \in DOMAIN listed' : listed'[i].id = NotStored
  <2>1. CASE listed' = <<>>
    BY <2>1
  <2>2. ASSUME NEW text \in LineTexts, listed' = <<Unsaved(text)>>
        PROVE  /\ listed' \in Seq(Lines) /\ Len(listed') <= 1
               /\ \A i \in DOMAIN listed' : listed'[i].id = NotStored
    <3>1. DOMAIN listed' = {1}
      BY <2>2
    <3>2. QED
      BY <2>2, <3>1, UnsavedTheorem
  <2>3. QED
    BY <1>2, <2>1, <2>2
<1>4. FilterTrue'
  BY <1>1, <1>3, UnstoredFilter
<1>5. Len(listed') <= MaxShown
  <2>1. Len(listed') \in Nat /\ MaxShown \in Nat \ {0}
    BY <1>3, DisplayAssumption DEF DisplayAssumption
  <2>2. QED
    BY <1>3, <2>1
<1>6. QED
  BY <1>1, <1>3, <1>4, <1>5 DEF DisplayInv

\* The log changes, or what a display keeps beside its lines and their places.
LEMMA DisplayRests ==
  ASSUME DisplayInv, UNCHANGED <<viewer, content, listed, active, indices, built>>,
         next' \in Nat \ {0}, rows' \subseteq Id
  PROVE  DisplayInv'
BY FilterStays DEF DisplayInv

\* An empty display has no filter.
LEMMA DisplayBegins == DisplayInit => DisplayInv
<1> SUFFICES ASSUME DisplayInit PROVE DisplayInv
  OBVIOUS
<1>1. PICK n \in 0 .. MaxRows : rows = 1 .. n
  BY DEF DisplayInit
<1>2. rows \subseteq Id /\ next \in Nat \ {0}
  <2>1. n \in Nat /\ n <= MaxRows /\ MaxRows \in Nat
    BY DisplayAssumption DEF DisplayAssumption
  <2>2. Cardinality(rows) \in Nat
    BY <1>1, <2>1, FS_Interval, FS_CardinalityType
  <2>3. next = Cardinality(rows) + 1
    BY DEF DisplayInit
  <2>4. QED
    BY <1>1, <2>1, <2>2, <2>3 DEF Id
<1>3. listed = <<>> /\ listed \in Seq(Lines) /\ Len(listed) = 0 /\ active = FALSE /\ built = NoText
  BY DEF DisplayInit
<1>4. 0 <= MaxShown
  BY DisplayAssumption DEF DisplayAssumption
<1>5. active \in BOOLEAN /\ ~active
  BY <1>3
<1>6. FilterTrue
  BY <1>5 DEF FilterTrue
<1>7. content \in [Id -> LineTexts]
  BY DEF DisplayInit
<1>8. QED
  BY <1>2, <1>3, <1>4, <1>5, <1>6, <1>7 DEF DisplayInv

\* Every step keeps the invariant.
LEMMA DisplayKeeps == DisplayInv /\ [DisplayNext]_displayVars => DisplayInv'
<1> SUFFICES ASSUME DisplayInv, [DisplayNext]_displayVars PROVE DisplayInv'
  OBVIOUS
<1> USE DEF logVars, filterVars
<1>1. next \in Nat \ {0} /\ rows \subseteq Id
  BY DEF DisplayInv
<1>2. CASE RowArrives
  <2>1. next + 1 \in Nat \ {0} /\ next \in Id
    BY <1>1, <1>2, DisplayAssumption DEF RowArrives, Id, DisplayAssumption
  <2>2. QED
    BY <1>1, <1>2, <2>1, DisplayRests DEF RowArrives
<1>3. CASE RowTrimmed
  BY <1>1, <1>3, DisplayRests DEF RowTrimmed
<1>4. CASE EditFilterByMenu \/ Pause
  BY <1>1, <1>4, DisplayRests DEF EditFilterByMenu, Pause
<1>5. CASE BeginLines \/ MoveMark \/ EndLines \/ ExportLines
  BY <1>1, <1>5, DisplayRests DEF BeginLines, MoveMark, EndLines, ExportLines
<1>6. CASE UNCHANGED displayVars
  BY <1>1, <1>6, DisplayRests DEF displayVars
<1>7. QED
  BY <1>2, <1>3, <1>4, <1>5, <1>6, FetchKeeps, ApplyFilterKeeps, PushOwnKeeps, DeleteLinesKeeps,
     ClearKeeps DEF DisplayNext

\* The places filtered_indices names are those of the lines the filter was last
\* applied to that match it, whatever was pushed, dropped, cleared and deleted
\* since (monitor.rs rebuild_filter, push_display_line, apply_deletion), in a
\* list of any length, with any texts.
THEOREM FilterHolds == DisplaySpec => []FilterTrue
<1>1. DisplayInv => FilterTrue
  BY DEF DisplayInv
<1>2. QED
  BY <1>1, DisplayBegins, DisplayKeeps, PTL DEF DisplaySpec

-----------------------------------------------------------------------------
(* Rows in ascending order.                                                *)

Sorted(s) == \A i, j \in 1 .. Len(s) : i < j => s[i] < s[j]
Numbers == {s \in Seq(Nat) : Sorted(s)}

\* Rows in ascending order, by their places and by their members.
LEMMA NumbersType ==
  ASSUME NEW s \in Numbers
  PROVE  /\ s \in Seq(Nat) /\ Len(s) \in Nat /\ DOMAIN s = 1 .. Len(s)
         /\ \A i \in 1 .. Len(s) : s[i] \in Nat
         /\ \A i, j \in 1 .. Len(s) : (i < j <=> s[i] < s[j]) /\ (i <= j <=> s[i] <= s[j])
         /\ ToSet(s) \subseteq Nat
         /\ \A x : x \in ToSet(s) <=> \E i \in 1 .. Len(s) : s[i] = x
<1>1. s \in Seq(Nat) /\ Len(s) \in Nat /\ DOMAIN s = 1 .. Len(s) /\ \A i \in 1 .. Len(s) : s[i] \in Nat
  BY DEF Numbers
<1>2. \A i, j \in 1 .. Len(s) : i < j => s[i] < s[j]
  BY DEF Numbers, Sorted
<1>3. ASSUME NEW i \in 1 .. Len(s), NEW j \in 1 .. Len(s)
      PROVE  (i < j <=> s[i] < s[j]) /\ (i <= j <=> s[i] <= s[j])
  <2>1. i \in Nat /\ j \in Nat /\ s[i] \in Nat /\ s[j] \in Nat
    BY <1>1
  <2>2. i < j => s[i] < s[j]
    BY <1>2
  <2>3. j < i => s[j] < s[i]
    BY <1>2
  <2>4. i = j => s[i] = s[j]
    OBVIOUS
  <2>5. QED
    BY <2>1, <2>2, <2>3, <2>4
<1>4. \A x : x \in ToSet(s) <=> \E i \in 1 .. Len(s) : s[i] = x
  BY <1>1 DEF ToSet
<1>5. QED
  BY <1>1, <1>3, <1>4

\* The rows that pass a test are those of them that do, in their order.
LEMMA ChosenRows ==
  ASSUME NEW s \in Numbers, NEW S, NEW q, q = AtPlaces(s, {i \in DOMAIN s : s[i] \in S})
  PROVE  q \in Numbers /\ Len(q) <= Len(s) /\ ToSet(q) = ToSet(s) \cap S
<1> DEFINE P == {i \in DOMAIN s : s[i] \in S}
           p == Ascending(P)
<1>0. P = {i \in DOMAIN s : s[i] \in S} /\ q = AtPlaces(s, P)
  OBVIOUS
<1> USE <1>0
<1> HIDE DEF P
<1>1. s \in Seq(Nat) /\ P \in SUBSET DOMAIN s
  BY NumbersType
<1>2. P \in NumberSets
  BY <1>1, PlacesAreNumbers
<1>3. /\ p \in Seq(DOMAIN s) /\ Len(p) = Cardinality(P) /\ Len(p) \in Nat
      /\ \A i \in 1 .. Len(p) : p[i] \in P
      /\ \A r \in P : \E i \in 1 .. Len(p) : p[i] = r
      /\ \A i, j \in 1 .. Len(p) : i < j => p[i] < p[j]
  <2>1. P \in NumberSets /\ P \subseteq DOMAIN s
    BY <1>1, <1>2
  <2>2. \A i, j \in 1 .. Cardinality(P) : i < j => Ascending(P)[i] < Ascending(P)[j]
    BY <2>1, AscendingTheorem
  <2>3. /\ Ascending(P) \in Seq(DOMAIN s) /\ Len(Ascending(P)) = Cardinality(P)
        /\ Cardinality(P) \in Nat
        /\ \A i \in 1 .. Cardinality(P) : Ascending(P)[i] \in P
        /\ \A r \in P : \E i \in 1 .. Cardinality(P) : Ascending(P)[i] = r
    BY <2>1, AscendingTheorem
  <2>4. QED
    BY <2>2, <2>3
<1>4. q \in Seq(Nat) /\ Len(q) \in Nat /\ Len(q) <= Len(s)
  BY <1>1, AtPlacesTheorem
<1>5. q = [i \in 1 .. Len(p) |-> s[p[i]]]
  <2>1. DOMAIN p = 1 .. Len(p)
    <3> HIDE DEF p
    <3>1. QED
      BY <1>3
  <2>2. QED
    BY <2>1 DEF AtPlaces
<1>6. Len(q) = Len(p)
  <2>1. DOMAIN q = 1 .. Len(p) /\ DOMAIN q = 1 .. Len(q)
    <3> HIDE DEF p
    <3>1. QED
      BY <1>4, <1>5
  <2> HIDE DEF p
  <2>2. QED
    BY <1>3, <1>4, <2>1
<1> HIDE DEF p
<1>7. \A i \in 1 .. Len(q) : q[i] = s[p[i]] /\ p[i] \in P /\ p[i] \in 1 .. Len(s) /\ p[i] \in Nat
  <2>1. DOMAIN s = 1 .. Len(s)
    BY NumbersType
  <2>2. QED
    BY <1>1, <1>3, <1>5, <1>6, <2>1
<1>8. Sorted(q)
  <2> SUFFICES ASSUME NEW i \in 1 .. Len(q), NEW j \in 1 .. Len(q), i < j PROVE q[i] < q[j]
    BY DEF Sorted
  <2>1. p[i] < p[j]
    BY <1>3, <1>6
  <2>2. QED
    BY <1>7, <2>1, NumbersType
<1>9. ToSet(q) = ToSet(s) \cap S
  <2>1. q \in Numbers
    BY <1>4, <1>8 DEF Numbers
  <2>2. ASSUME NEW x \in ToSet(q) PROVE x \in ToSet(s) \cap S
    <3>1. PICK i \in 1 .. Len(q) : q[i] = x
      BY <2>1, NumbersType
    <3>2. x = s[p[i]] /\ p[i] \in P /\ p[i] \in 1 .. Len(s)
      BY <1>7, <3>1
    <3>3. QED
      BY <3>2, NumbersType
  <2>3. ASSUME NEW x \in ToSet(s) \cap S PROVE x \in ToSet(q)
    <3>1. PICK k \in 1 .. Len(s) : s[k] = x
      BY NumbersType
    <3>2. k \in P
      BY <3>1, NumbersType
    <3>3. PICK i \in 1 .. Len(p) : p[i] = k
      BY <1>3, <3>2
    <3>4. i \in 1 .. Len(q) /\ q[i] = x
      BY <1>6, <1>7, <3>1, <3>3
    <3>5. QED
      BY <2>1, <3>4, NumbersType
  <2>4. QED
    BY <2>2, <2>3
<1>10. QED
  BY <1>4, <1>8, <1>9 DEF Numbers

\* A set of numbers has a least one.
LEMMA LeastNumber ==
  ASSUME NEW T \in SUBSET Nat, T # {}
  PROVE  \E m \in T : \A n \in T : m <= n
<1>1. PICK m \in T : \A n \in T : <<n, m>> \notin OpToRel(<, Nat)
  BY NatLessThanWellFounded, WFMin
<1>2. ASSUME NEW n \in T PROVE m <= n
  <2>1. <<n, m>> \notin OpToRel(<, Nat)
    BY <1>1
  <2>2. n \in Nat /\ m \in Nat
    OBVIOUS
  <2>3. ~(n < m)
    BY <2>1, <2>2 DEF OpToRel
  <2>4. QED
    BY <2>2, <2>3
<1>3. QED
  BY <1>2

\* Rows in order are known by which they are.
LEMMA SameRows ==
  ASSUME NEW s \in Numbers, NEW t \in Numbers, ToSet(s) = ToSet(t)
  PROVE  s = t
<1> DEFINE T == {i \in 1 .. Len(s) : i > Len(t) \/ s[i] # t[i]}
\* Up to the first place where they part, they do not.
<1>1. T = {}
  <2> SUFFICES ASSUME T # {} PROVE FALSE
    OBVIOUS
  <2>1. Len(s) \in Nat /\ Len(t) \in Nat
    BY NumbersType
  <2>2. T \in SUBSET Nat
    BY <2>1
  <2>3. PICK m \in T : \A n \in T : m <= n
    BY <2>2, LeastNumber
  <2>4. \A k \in 1 .. m - 1 : k \in 1 .. Len(s) /\ k \in 1 .. Len(t) /\ s[k] = t[k]
    BY <2>1, <2>3
  <2>5. m \in 1 .. Len(s) /\ (m > Len(t) \/ s[m] # t[m])
    BY <2>3
  <2> HIDE DEF T
  <2>6. PICK j \in 1 .. Len(t) : t[j] = s[m]
    BY <2>5, NumbersType
  <2>7. ~(j < m)
    <3> SUFFICES ASSUME j < m PROVE FALSE
      OBVIOUS
    <3>1. j \in 1 .. m - 1
      BY <2>5, <2>6, <2>1
    <3>2. s[j] = s[m] /\ j \in 1 .. Len(s)
      BY <2>4, <2>6, <3>1
    <3>3. s[j] < s[m] /\ s[m] \in Nat
      BY <2>5, <3>2, NumbersType
    <3>4. QED
      BY <3>2, <3>3
  <2>8. m \in 1 .. Len(t) /\ s[m] # t[m] /\ m < j
    <3>1. m \in 1 .. Len(t)
      BY <2>1, <2>5, <2>6, <2>7
    <3>2. s[m] # t[m] /\ j # m
      BY <2>1, <2>5, <2>6, <3>1
    <3>3. QED
      BY <2>1, <2>5, <2>6, <2>7, <3>1, <3>2
  <2>9. t[m] < s[m]
    BY <2>6, <2>8, NumbersType
  <2>10. PICK k \in 1 .. Len(s) : s[k] = t[m]
    BY <2>8, NumbersType
  <2>11. k < m
    BY <2>5, <2>9, <2>10, NumbersType
  <2>12. s[k] = t[k] /\ k \in 1 .. Len(t)
    BY <2>1, <2>4, <2>5, <2>10, <2>11
  <2>13. t[k] < t[m]
    BY <2>8, <2>11, <2>12, NumbersType
  <2>14. t[m] \in Nat
    BY <2>8, NumbersType
  <2>15. QED
    BY <2>10, <2>12, <2>13, <2>14
<1>2. \A i \in 1 .. Len(s) : i <= Len(t) /\ s[i] = t[i]
  <2>1. Len(s) \in Nat /\ Len(t) \in Nat
    BY NumbersType
  <2>2. QED
    BY <1>1, <2>1
<1>3. Len(t) <= Len(s)
  <2> SUFFICES ASSUME ~(Len(t) <= Len(s)) PROVE FALSE
    OBVIOUS
  <2>1. Len(s) \in Nat /\ Len(t) \in Nat
    BY NumbersType
  <2>2. Len(t) \in 1 .. Len(t) /\ Len(t) > Len(s)
    BY <2>1
  <2>3. PICK k \in 1 .. Len(s) : s[k] = t[Len(t)]
    BY <2>2, NumbersType
  <2>4. k \in 1 .. Len(t) /\ k < Len(t) /\ t[k] = t[Len(t)]
    BY <1>2, <2>1, <2>2, <2>3
  <2>5. t[k] < t[Len(t)] /\ t[k] \in Nat
    BY <2>2, <2>4, NumbersType
  <2>6. QED
    BY <2>4, <2>5
<1>4. Len(s) = Len(t)
  <2>1. Len(s) \in Nat /\ Len(t) \in Nat
    BY NumbersType
  <2>2. CASE Len(s) = 0
    BY <1>3, <2>1, <2>2
  <2>3. CASE Len(s) # 0
    <3>1. Len(s) \in 1 .. Len(s)
      BY <2>1, <2>3
    <3>2. QED
      BY <1>2, <1>3, <2>1, <3>1
  <2>4. QED
    BY <2>2, <2>3
<1>5. QED
  <2>1. s \in Seq(Nat) /\ t \in Seq(Nat)
    BY NumbersType
  <2>2. QED
    BY <1>2, <1>4, <2>1, SeqEqual

\* Distinct numbers up to n are no more than n.
LEMMA NumbersBounded ==
  ASSUME NEW s \in Numbers, NEW n \in Nat, ToSet(s) \subseteq 1 .. n
  PROVE  Len(s) <= n
<1>1. Len(s) \in Nat /\ s \in Seq(Nat) /\ DOMAIN s = 1 .. Len(s)
  BY NumbersType
<1>2. IsFiniteSet(1 .. Len(s)) /\ Cardinality(1 .. Len(s)) = Len(s)
  BY <1>1, FS_Interval
<1>3. IsFiniteSet(1 .. n) /\ Cardinality(1 .. n) = n
  BY FS_Interval
<1>4. s \in [1 .. Len(s) -> 1 .. n]
  <2>1. \A i \in 1 .. Len(s) : s[i] \in 1 .. n
    BY NumbersType
  <2>2. s = [i \in 1 .. Len(s) |-> s[i]]
    BY <1>1
  <2>3. QED
    BY <2>1, <2>2
<1>5. SUFFICES ASSUME n < Len(s) PROVE FALSE
  BY <1>1
<1>6. PICK i \in 1 .. Len(s), j \in 1 .. Len(s) : i # j /\ s[i] = s[j]
  BY <1>2, <1>3, <1>4, <1>5, FS_PigeonHole
<1>7. i \in Nat /\ j \in Nat /\ s[i] \in Nat /\ s[j] \in Nat
  BY <1>1, NumbersType
<1>8. i < j \/ j < i
  BY <1>6, <1>7
<1>9. s[i] < s[j] \/ s[j] < s[i]
  BY <1>8, NumbersType
<1>10. QED
  BY <1>6, <1>7, <1>9

\* A stretch of rows in their order.
LEMMA StretchRows ==
  ASSUME NEW s \in Numbers, NEW a \in Nat \ {0}, NEW b \in 0 .. Len(s)
  PROVE  /\ SubSeq(s, a, b) \in Numbers
         /\ Len(SubSeq(s, a, b)) = IF a <= b THEN b - a + 1 ELSE 0
         /\ \A x : x \in ToSet(SubSeq(s, a, b)) <=> \E i \in a .. b : s[i] = x
         /\ \A i \in 1 .. b - a + 1 : SubSeq(s, a, b)[i] = s[a + i - 1]
<1> DEFINE q == SubSeq(s, a, b)
<1>1. Len(s) \in Nat /\ b \in Nat /\ a \in Nat /\ a >= 1 /\ b <= Len(s)
  BY NumbersType
<1>2. \A i \in a .. b : i \in 1 .. Len(s) /\ s[i] \in Nat
  BY <1>1, NumbersType
<1>3. /\ q \in Seq(Nat) /\ Len(q) = IF a <= b THEN b - a + 1 ELSE 0
      /\ \A i \in 1 .. b - a + 1 : q[i] = s[a + i - 1]
  BY <1>1, <1>2, SubSeqProperties
<1> HIDE DEF q
<1>4. \A i \in 1 .. Len(q) : i \in 1 .. b - a + 1 /\ a + i - 1 \in a .. b /\ i \in Nat
  BY <1>1, <1>3
<1>5. Sorted(q)
  <2> SUFFICES ASSUME NEW i \in 1 .. Len(q), NEW j \in 1 .. Len(q), i < j PROVE q[i] < q[j]
    BY DEF Sorted
  <2>1. a + i - 1 \in 1 .. Len(s) /\ a + j - 1 \in 1 .. Len(s) /\ a + i - 1 < a + j - 1
    BY <1>1, <1>2, <1>4
  <2>2. q[i] = s[a + i - 1] /\ q[j] = s[a + j - 1]
    BY <1>3, <1>4
  <2>3. s[a + i - 1] < s[a + j - 1]
    BY <2>1, NumbersType
  <2>4. QED
    BY <2>2, <2>3
<1>6. q \in Numbers
  BY <1>3, <1>5 DEF Numbers
<1>7. ASSUME NEW x PROVE x \in ToSet(q) <=> \E i \in a .. b : s[i] = x
  <2>1. ASSUME x \in ToSet(q) PROVE \E i \in a .. b : s[i] = x
    <3>1. PICK i \in 1 .. Len(q) : q[i] = x
      BY <1>6, <2>1, NumbersType
    <3>2. QED
      BY <1>3, <1>4, <3>1
  <2>2. ASSUME NEW i \in a .. b, s[i] = x PROVE x \in ToSet(q)
    <3>1. i - a + 1 \in 1 .. Len(q) /\ i - a + 1 \in 1 .. b - a + 1 /\ a + (i - a + 1) - 1 = i
      BY <1>1, <1>3
    <3>2. q[i - a + 1] = x
      BY <1>3, <2>2, <3>1
    <3>3. QED
      BY <1>6, <3>1, <3>2, NumbersType
  <2>3. QED
    BY <2>1, <2>2
<1>8. QED
  BY <1>3, <1>6, <1>7 DEF q

\* The first rows: what is left out lies above them.
LEMMA FirstRows ==
  ASSUME NEW s \in Numbers, NEW n \in Nat
  PROVE  /\ FirstOf(s, n) \in Numbers /\ Len(FirstOf(s, n)) <= n
         /\ Len(FirstOf(s, n)) < n => FirstOf(s, n) = s
         /\ Len(s) <= n => FirstOf(s, n) = s
         /\ ToSet(FirstOf(s, n)) \subseteq ToSet(s)
         /\ \A x \in ToSet(s) : x \in ToSet(FirstOf(s, n)) \/ \A y \in ToSet(FirstOf(s, n)) : y < x
<1>1. Len(s) \in Nat
  BY NumbersType
<1>2. CASE Len(s) < n
  BY <1>1, <1>2 DEF FirstOf
<1>3. CASE ~(Len(s) < n)
  <2> DEFINE q == SubSeq(s, 1, n)
  <2>1. FirstOf(s, n) = q
    BY <1>3 DEF FirstOf
  <2>2. n \in 0 .. Len(s) /\ 1 \in Nat \ {0}
    BY <1>1, <1>3
  <2>3. /\ q \in Numbers /\ Len(q) = IF 1 <= n THEN n - 1 + 1 ELSE 0
        /\ \A x : x \in ToSet(q) <=> \E i \in 1 .. n : s[i] = x
    BY <2>2, StretchRows
  <2> HIDE DEF q
  <2>4. Len(q) = n
    BY <2>3
  <2>5. ToSet(q) \subseteq ToSet(s)
    BY <1>1, <2>2, <2>3, NumbersType
  <2>6. ASSUME NEW x \in ToSet(s) PROVE x \in ToSet(q) \/ \A y \in ToSet(q) : y < x
    <3>1. PICK k \in 1 .. Len(s) : s[k] = x
      BY NumbersType
    <3>2. CASE k <= n
      <4>1. k \in 1 .. n
        BY <1>1, <3>2
      <4>2. QED
        BY <2>3, <3>1, <4>1
    <3>3. CASE ~(k <= n)
      <4> SUFFICES ASSUME NEW y \in ToSet(q) PROVE y < x
        OBVIOUS
      <4>1. PICK i \in 1 .. n : s[i] = y
        BY <2>3
      <4>2. i \in 1 .. Len(s) /\ i < k
        BY <1>1, <2>2, <3>3
      <4>3. QED
        BY <3>1, <4>1, <4>2, NumbersType
    <3>4. QED
      BY <3>2, <3>3
  <2>7. Len(s) <= n => q = s
    <3> SUFFICES ASSUME Len(s) <= n PROVE q = s
      OBVIOUS
    <3>1. n = Len(s)
      BY <1>1, <1>3
    <3>2. ToSet(q) = ToSet(s)
      <4>1. \A x : x \in ToSet(s) <=> \E i \in 1 .. n : s[i] = x
        BY <3>1, NumbersType
      <4>2. QED
        BY <2>3, <4>1
    <3>3. QED
      BY <2>3, <3>2, SameRows
  <2>8. QED
    BY <2>1, <2>3, <2>4, <2>5, <2>6, <2>7
<1>4. QED
  BY <1>2, <1>3

\* The last rows are rows.
LEMMA LastRows ==
  ASSUME NEW s \in Numbers, NEW n \in Nat
  PROVE  LastOf(s, n) \in Numbers /\ ToSet(LastOf(s, n)) \subseteq ToSet(s)
<1>1. Len(s) \in Nat
  BY NumbersType
<1>2. CASE Len(s) < n
  BY <1>2 DEF LastOf
<1>3. CASE ~(Len(s) < n)
  <2>1. LastOf(s, n) = SubSeq(s, Len(s) - n + 1, Len(s))
    BY <1>3 DEF LastOf
  <2>2. Len(s) - n + 1 \in Nat \ {0} /\ Len(s) \in 0 .. Len(s)
    BY <1>1, <1>3
  <2>3. /\ LastOf(s, n) \in Numbers
        /\ \A x : x \in ToSet(LastOf(s, n)) <=> \E i \in Len(s) - n + 1 .. Len(s) : s[i] = x
    BY <2>1, <2>2, StretchRows
  <2>4. \A i \in Len(s) - n + 1 .. Len(s) : i \in 1 .. Len(s)
    BY <1>1, <1>3
  <2>5. QED
    BY <2>3, <2>4, NumbersType
<1>4. QED
  BY <1>2, <1>3

\* Rows behind rows that lie below them.
LEMMA RowsBehind ==
  ASSUME NEW s \in Numbers, NEW t \in Numbers,
         \A x \in ToSet(s), y \in ToSet(t) : x < y
  PROVE  /\ s \o t \in Numbers /\ Len(s \o t) = Len(s) + Len(t)
         /\ ToSet(s \o t) = ToSet(s) \cup ToSet(t)
<1> DEFINE q == s \o t
           n == Len(s)
           m == Len(t)
<1>1. /\ n \in Nat /\ m \in Nat /\ s \in Seq(Nat) /\ t \in Seq(Nat)
      /\ \A i \in 1 .. n : s[i] \in ToSet(s)
      /\ \A i \in 1 .. m : t[i] \in ToSet(t)
  BY NumbersType
<1>2. /\ q \in Seq(Nat) /\ Len(q) = n + m
      /\ \A i \in 1 .. n + m : q[i] = IF i <= n THEN s[i] ELSE t[i - n]
  BY <1>1, ConcatProperties
<1> HIDE DEF q
<1>3. \A i \in 1 .. n + m : i <= n => i \in 1 .. n /\ q[i] = s[i]
  BY <1>1, <1>2
<1>4. \A i \in 1 .. n + m : ~(i <= n) => i - n \in 1 .. m /\ q[i] = t[i - n]
  BY <1>1, <1>2
<1> HIDE DEF n, m
<1>5. Sorted(q)
  <2> SUFFICES ASSUME NEW i \in 1 .. n + m, NEW j \in 1 .. n + m, i < j PROVE q[i] < q[j]
    BY <1>2 DEF Sorted
  <2>0. i \in Int /\ j \in Int
    BY <1>1
  <2>1. CASE j <= n
    <3>1. i <= n
      BY <1>1, <2>0, <2>1
    <3>2. s[i] < s[j]
      BY <1>3, <2>1, <3>1, NumbersType DEF n
    <3>3. QED
      BY <1>3, <2>1, <3>1, <3>2
  <2>2. CASE i <= n /\ ~(j <= n)
    BY <1>1, <1>3, <1>4, <2>2
  <2>3. CASE ~(i <= n)
    <3>1. ~(j <= n) /\ i - n < j - n
      BY <1>1, <2>0, <2>3
    <3>2. t[i - n] < t[j - n]
      BY <1>4, <2>3, <3>1, NumbersType DEF m
    <3>3. QED
      BY <1>4, <2>3, <3>1, <3>2
  <2>4. QED
    BY <2>1, <2>2, <2>3
<1>6. q \in Numbers
  BY <1>2, <1>5 DEF Numbers
<1>7. ASSUME NEW x PROVE x \in ToSet(q) <=> x \in ToSet(s) \/ x \in ToSet(t)
  <2>1. ASSUME x \in ToSet(q) PROVE x \in ToSet(s) \/ x \in ToSet(t)
    <3>1. PICK i \in 1 .. n + m : q[i] = x
      BY <1>2, <1>6, <2>1, NumbersType
    <3>2. QED
      BY <1>1, <1>3, <1>4, <3>1
  <2>2. ASSUME x \in ToSet(s) PROVE x \in ToSet(q)
    <3>1. PICK i \in 1 .. n : s[i] = x
      BY <2>2, NumbersType DEF n
    <3>2. i \in 1 .. n + m /\ i <= n
      BY <1>1
    <3>3. QED
      BY <1>2, <1>3, <1>6, <3>1, <3>2, NumbersType
  <2>3. ASSUME x \in ToSet(t) PROVE x \in ToSet(q)
    <3>1. PICK i \in 1 .. m : t[i] = x
      BY <2>3, NumbersType DEF m
    <3>2. i + n \in 1 .. n + m /\ ~(i + n <= n) /\ (i + n) - n = i
      BY <1>1
    <3>3. QED
      BY <1>2, <1>4, <1>6, <3>1, <3>2, NumbersType
  <2>4. QED
    BY <2>1, <2>2, <2>3
<1>8. QED
  BY <1>2, <1>6, <1>7 DEF q, n, m

-----------------------------------------------------------------------------
(* Reading.                                                                *)

Scans == [state : {"scans"}, limit : Nat, found : Numbers, cursor : Nat, scanned : Nat]
ScansDone == [state : {"answered"}, limit : Nat, found : Numbers, truncated : BOOLEAN]

\* The log: ids in their order, none of them above the last one given out.
LogRows ==
  /\ stored \in Numbers /\ latest \in 2 .. MaxId /\ ToSet(stored) \subseteq 1 .. latest
  /\ matches \subseteq 1 .. MaxId

\* What a search holds, and of a scan that goes on: that it found every match
\* below its cursor which is there from its beginning.
SearchHolds ==
  /\ search \in {NoSearch} \cup Scans \cup ScansDone
  /\ throughout \subseteq ToSet(stored)
  /\ search.state = "scans" =>
       /\ ToSet(search.found) \subseteq matches /\ Len(search.found) < search.limit
       /\ \A x \in ToSet(search.found) : x < search.cursor
       /\ \A x \in throughout \cap matches : x < search.cursor => x \in ToSet(search.found)
  /\ SearchTold

ReadingInv == LogRows /\ SearchHolds

From(s, start) == Chosen(s, LAMBDA i : i >= start)
UpTo(s, end) == Chosen(s, LAMBDA i : i <= end)
MatchingFrom(s, start) == Chosen(s, LAMBDA i : i >= start /\ i \in matches)

\* The rows from an id on, as far as one, and those of them that match.
LEMMA FromRows ==
  ASSUME NEW s \in Numbers, NEW start
  PROVE  /\ From(s, start) \in Numbers
         /\ Len(From(s, start)) <= Len(s)
         /\ ToSet(From(s, start)) = {x \in ToSet(s) : x >= start}
<1> DEFINE S == {x \in ToSet(s) : x >= start}
<1>1. \A i \in DOMAIN s : s[i] >= start <=> s[i] \in S
  BY NumbersType
<1>2. {i \in DOMAIN s : s[i] >= start} = {i \in DOMAIN s : s[i] \in S}
  BY <1>1
<1>3. From(s, start) = AtPlaces(s, {i \in DOMAIN s : s[i] \in S})
  BY <1>2 DEF From, Chosen
<1>4. ToSet(s) \cap S = S
  OBVIOUS
<1> HIDE DEF S
<1>5. QED
  BY <1>3, <1>4, ChosenRows DEF S

LEMMA UpToRows ==
  ASSUME NEW s \in Numbers, NEW end
  PROVE  /\ UpTo(s, end) \in Numbers
         /\ ToSet(UpTo(s, end)) = {x \in ToSet(s) : x <= end}
<1> DEFINE S == {x \in ToSet(s) : x <= end}
<1>1. \A i \in DOMAIN s : s[i] <= end <=> s[i] \in S
  BY NumbersType
<1>2. {i \in DOMAIN s : s[i] <= end} = {i \in DOMAIN s : s[i] \in S}
  BY <1>1
<1>3. UpTo(s, end) = AtPlaces(s, {i \in DOMAIN s : s[i] \in S})
  BY <1>2 DEF UpTo, Chosen
<1>4. ToSet(s) \cap S = S
  OBVIOUS
<1> HIDE DEF S
<1>5. QED
  BY <1>3, <1>4, ChosenRows DEF S

LEMMA MatchingRows ==
  ASSUME NEW s \in Numbers
  PROVE  /\ Chosen(s, LAMBDA i : i \in matches) \in Numbers
         /\ Len(Chosen(s, LAMBDA i : i \in matches)) <= Len(s)
         /\ ToSet(Chosen(s, LAMBDA i : i \in matches)) = ToSet(s) \cap matches
<1>1. Chosen(s, LAMBDA i : i \in matches) = AtPlaces(s, {i \in DOMAIN s : s[i] \in matches})
  BY DEF Chosen
<1>2. QED
  BY <1>1, ChosenRows

LEMMA MatchingFromRows ==
  ASSUME NEW s \in Numbers, NEW start
  PROVE  /\ MatchingFrom(s, start) \in Numbers
         /\ ToSet(MatchingFrom(s, start)) =
              {x \in ToSet(s) : x >= start /\ x \in matches}
<1> DEFINE S == {x \in ToSet(s) : x >= start /\ x \in matches}
<1>1. \A i \in DOMAIN s : (s[i] >= start /\ s[i] \in matches) <=> s[i] \in S
  BY NumbersType
<1>2. {i \in DOMAIN s : s[i] >= start /\ s[i] \in matches} = {i \in DOMAIN s : s[i] \in S}
  BY <1>1
<1>3. MatchingFrom(s, start) = AtPlaces(s, {i \in DOMAIN s : s[i] \in S})
  BY <1>2 DEF MatchingFrom, Chosen
<1>4. ToSet(s) \cap S = S
  OBVIOUS
<1> HIDE DEF S
<1>5. QED
  BY <1>3, <1>4, ChosenRows DEF S

\* An answer whose rows are in order is told, if it is full or has them all.
LEMMA AnswerTold ==
  ASSUME search' \in ScansDone, ToSet(search'.found) \subseteq matches',
         Len(search'.found) <= search'.limit,
         ~search'.truncated /\ Len(search'.found) < search'.limit =>
           throughout' \cap matches' \subseteq ToSet(search'.found),
         throughout' \subseteq ToSet(stored')
  PROVE  SearchHolds'
<1>1. search'.state = "answered" /\ search'.found \in Numbers
  BY DEF ScansDone
<1>2. \A i \in 1 .. Len(search'.found) - 1 : search'.found[i] < search'.found[i + 1]
  <2>1. Len(search'.found) \in Nat
    BY <1>1, NumbersType
  <2>2. \A i \in 1 .. Len(search'.found) - 1 :
          i \in 1 .. Len(search'.found) /\ i + 1 \in 1 .. Len(search'.found) /\ i < i + 1
    BY <2>1
  <2>3. QED
    BY <1>1, <2>2, NumbersType
<1>3. SearchTold'
  BY <1>2 DEF SearchTold
<1>4. QED
  BY <1>1, <1>3 DEF SearchHolds

\* A search under way, or answered, is not disturbed by what the log does.
LEMMA SearchUndisturbed ==
  ASSUME SearchHolds, UNCHANGED <<search, matches>>, throughout' \subseteq throughout,
         throughout' \subseteq ToSet(stored')
  PROVE  SearchHolds'
BY DEF SearchHolds, SearchTold

\* A log of two lines at most, and no search.
LEMMA ReadingBegins == ReadingInit => ReadingInv
<1> SUFFICES ASSUME ReadingInit PROVE ReadingInv
  OBVIOUS
<1>1. stored \in Numbers /\ ToSet(stored) \subseteq 1 .. 2
  <2>1. CASE stored = <<>>
    BY <2>1 DEF Numbers, Sorted, ToSet
  <2>2. CASE stored = <<1>>
    BY <2>2 DEF Numbers, Sorted, ToSet
  <2>3. CASE stored = <<2>>
    BY <2>3 DEF Numbers, Sorted, ToSet
  <2>4. CASE stored = <<1, 2>>
    <3>1. stored \in Seq(Nat) /\ Len(stored) = 2 /\ stored[1] = 1 /\ stored[2] = 2
      BY <2>4
    <3>2. DOMAIN stored = 1 .. 2
      BY <3>1
    <3>3. \A i \in 1 .. 2 : i = 1 \/ i = 2
      OBVIOUS
    <3>4. Sorted(stored)
      BY <3>1, <3>3 DEF Sorted
    <3>5. stored \in Numbers
      BY <3>1, <3>4 DEF Numbers
    <3>6. QED
      BY <3>1, <3>3, <3>5, NumbersType
  <2>5. QED
    BY <2>1, <2>2, <2>3, <2>4 DEF ReadingInit
<1>2. latest = 2 /\ 2 \in 2 .. MaxId /\ matches \subseteq 1 .. MaxId
  BY ReadingAssumption DEF ReadingAssumption, ReadingInit
<1>3. LogRows
  BY <1>1, <1>2 DEF LogRows
<1>4. SearchHolds
  <2>1. search = NoSearch /\ search.state = "none" /\ throughout = {}
    BY DEF ReadingInit, NoSearch
  <2>2. QED
    BY <2>1 DEF SearchHolds, SearchTold
<1>5. QED
  BY <1>3, <1>4 DEF ReadingInv

\* A line is stored behind the others.
LEMMA StoreKeeps == ReadingInv /\ Store => ReadingInv'
<1> SUFFICES ASSUME ReadingInv, Store PROVE ReadingInv'
  OBVIOUS
<1>1. /\ latest \in 2 .. MaxId /\ MaxId \in Nat /\ latest < MaxId /\ latest' = latest + 1
      /\ stored' = Append(stored, latest + 1) /\ UNCHANGED <<matches, removals, search, throughout>>
      /\ stored \in Numbers /\ ToSet(stored) \subseteq 1 .. latest
  BY ReadingAssumption DEF ReadingAssumption, Store, ReadingInv, LogRows
<1>2. latest \in Nat /\ latest' \in 2 .. MaxId /\ latest + 1 \in Nat
  BY <1>1
<1>3. <<latest + 1>> \in Numbers /\ ToSet(<<latest + 1>>) = {latest + 1}
  <2>1. \A n \in Nat : <<n>> \in Seq(Nat) /\ Len(<<n>>) = 1 /\ DOMAIN <<n>> = {1} /\ <<n>>[1] = n
    OBVIOUS
  <2>2. \A n \in Nat : <<n>> \in Numbers /\ ToSet(<<n>>) = {n}
    BY <2>1 DEF Numbers, Sorted, ToSet
  <2>3. QED
    BY <1>2, <2>2
<1>4. stored' = stored \o <<latest + 1>>
  BY <1>1, <1>2, NumbersType, AppendIsConcat
<1>5. stored' \in Numbers /\ ToSet(stored') = ToSet(stored) \cup {latest + 1}
  <2>1. \A x \in ToSet(stored), y \in ToSet(<<latest + 1>>) : x < y
    BY <1>1, <1>2, <1>3
  <2>2. QED
    BY <1>1, <1>3, <1>4, <2>1, RowsBehind
<1>6. LogRows'
  <2>1. ToSet(stored') \subseteq 1 .. latest'
    BY <1>1, <1>2, <1>5
  <2>2. QED
    BY <1>1, <1>2, <1>5, <2>1 DEF LogRows, ReadingInv
<1>7. SearchHolds'
  BY <1>1, <1>5, SearchUndisturbed DEF ReadingInv, SearchHolds
<1>8. QED
  BY <1>6, <1>7 DEF ReadingInv

\* What is left of a log is some of it, and no scan counts on the rest.
LEMMA LeftKeeps ==
  ASSUME ReadingInv, NEW rest \in Numbers, ToSet(rest) \subseteq ToSet(stored), Left(rest)
  PROVE  ReadingInv'
<1>1. stored' = rest /\ throughout' = throughout \cap ToSet(rest)
      /\ UNCHANGED <<matches, latest, search>>
  BY DEF Left
<1>2. LogRows'
  BY <1>1 DEF LogRows, ReadingInv
<1>3. SearchHolds'
  BY <1>1, SearchUndisturbed DEF ReadingInv
<1>4. QED
  BY <1>2, <1>3 DEF ReadingInv

\* Trims and deletions leave the last rows, or those on one side of a row.
LEMMA RemovalKeeps == ReadingInv /\ (Trim \/ DeleteAround) => ReadingInv'
<1> SUFFICES ASSUME ReadingInv, Trim \/ DeleteAround PROVE ReadingInv'
  OBVIOUS
<1>1. stored \in Numbers
  BY DEF ReadingInv, LogRows
<1>2. CASE Trim
  <2>1. PICK n \in 0 .. Len(stored) : Left(LastOf(stored, n))
    BY <1>2 DEF Trim
  <2>2. n \in Nat
    BY <2>1
  <2>3. QED
    BY <1>1, <2>1, <2>2, LastRows, LeftKeeps
<1>3. CASE DeleteAround
  <2>1. PICK id \in ToSet(stored) :
          Left(Chosen(stored, LAMBDA i : i >= id)) \/ Left(Chosen(stored, LAMBDA i : i <= id))
    BY <1>3 DEF DeleteAround
  <2> DEFINE above == From(stored, id)
             below == UpTo(stored, id)
  <2>2. above \in Numbers /\ ToSet(above) \subseteq ToSet(stored)
    BY <1>1, FromRows
  <2>3. below \in Numbers /\ ToSet(below) \subseteq ToSet(stored)
    BY <1>1, UpToRows
  <2>4. Left(above) \/ Left(below)
    BY <2>1 DEF From, UpTo
  <2> HIDE DEF above, below
  <2>5. QED
    BY <2>2, <2>3, <2>4, LeftKeeps
<1>4. QED
  BY <1>2, <1>3

\* One query reads all of the log.
LEMMA SubstringKeeps == ReadingInv /\ SearchSubstring => ReadingInv'
<1> SUFFICES ASSUME ReadingInv, SearchSubstring PROVE ReadingInv'
  OBVIOUS
<1>1. stored \in Numbers /\ ToSet(stored) \subseteq Nat \ {0}
  BY DEF ReadingInv, LogRows
<1>2. PICK limit \in 1 .. MaxLimit :
        search' = [state |-> "answered", limit |-> limit, truncated |-> FALSE,
                   found |-> ReadLinesSince(1, limit)]
  BY DEF SearchSubstring
<1>3. throughout' = ToSet(stored) /\ UNCHANGED <<stored, matches, latest>>
  BY DEF SearchSubstring
<1> DEFINE all == MatchingFrom(stored, 1)
           got == ReadLinesSince(1, limit)
<1>4. limit \in Nat
  BY <1>2
<1>5. all \in Numbers /\ ToSet(all) = ToSet(stored) \cap matches
  <2>1. all \in Numbers /\ ToSet(all) = {x \in ToSet(stored) : x >= 1 /\ x \in matches}
    BY <1>1, MatchingFromRows
  <2> HIDE DEF all
  <2>2. \A x \in ToSet(stored) : x >= 1
    BY <1>1
  <2>3. QED
    BY <2>1, <2>2
<1>6. got = FirstOf(all, limit)
  BY DEF ReadLinesSince, MatchingFrom
<1> HIDE DEF all, got
<1>7. /\ got \in Numbers /\ ToSet(got) \subseteq matches /\ Len(got) <= limit
      /\ Len(got) < limit => ToSet(stored) \cap matches \subseteq ToSet(got)
  <2>1. got \in Numbers /\ Len(got) <= limit /\ ToSet(got) \subseteq ToSet(all)
        /\ (Len(got) < limit => got = all)
    BY <1>4, <1>5, <1>6, FirstRows
  <2>2. QED
    BY <1>5, <2>1
<1>8. /\ search' \in ScansDone /\ search'.found = got /\ search'.limit = limit
  <2>1. search' = [state |-> "answered", limit |-> limit, truncated |-> FALSE, found |-> got]
    BY <1>2 DEF got
  <2>2. QED
    BY <1>4, <1>7, <2>1 DEF ScansDone
<1>9. SearchHolds'
  BY <1>3, <1>7, <1>8, AnswerTold
<1>10. QED
  BY <1>3, <1>9 DEF ReadingInv, LogRows

\* The log holds no more rows than ids were given out.
LEMMA FewRows ==
  ASSUME LogRows
  PROVE  Len(stored) \in Nat /\ Len(stored) <= MaxId /\ MaxId \in Nat
<1>1. stored \in Numbers /\ latest \in Nat /\ latest <= MaxId /\ ToSet(stored) \subseteq 1 .. latest
      /\ MaxId \in Nat
  BY ReadingAssumption DEF LogRows, ReadingAssumption
<1>2. Len(stored) \in Nat /\ Len(stored) <= latest
  BY <1>1, NumbersBounded, NumbersType
<1>3. QED
  BY <1>1, <1>2

\* So does an export, whatever its range.
LEMMA ExportKeeps == ReadingInv /\ Export => ReadingInv'
<1> SUFFICES ASSUME ReadingInv, Export PROVE ReadingInv'
  OBVIOUS
<1>1. stored \in Numbers /\ Len(stored) \in Nat /\ Len(stored) <= MaxId /\ MaxId \in Nat
  BY FewRows DEF ReadingInv, LogRows
<1>2. /\ search' = [state |-> "answered", limit |-> MaxId + 1, truncated |-> FALSE,
                    found |-> ExportRange]
      /\ throughout' = ToSet(stored) /\ UNCHANGED <<stored, matches, latest>>
  BY DEF Export
<1>3. /\ ExportRange \in Numbers /\ Len(ExportRange) <= Len(stored)
      /\ ToSet(ExportRange) = ToSet(stored) \cap matches
  BY <1>1, MatchingRows DEF ExportRange
<1>4. Len(ExportRange) \in Nat /\ MaxId + 1 \in Nat /\ Len(ExportRange) <= MaxId + 1
  <2>1. Len(ExportRange) \in Nat
    BY <1>3, NumbersType
  <2>2. QED
    BY <1>1, <1>3, <2>1
<1>5. search' \in ScansDone /\ search'.found = ExportRange /\ search'.limit = MaxId + 1
  BY <1>2, <1>3, <1>4 DEF ScansDone
<1>6. SearchHolds'
  BY <1>2, <1>3, <1>4, <1>5, AnswerTold
<1>7. QED
  BY <1>2, <1>6 DEF ReadingInv, LogRows

\* A scan begins below every row.
LEMMA StartScanKeeps == ReadingInv /\ StartScan => ReadingInv'
<1> SUFFICES ASSUME ReadingInv, StartScan PROVE ReadingInv'
  OBVIOUS
<1>1. PICK limit \in 1 .. MaxLimit :
        search' = [state |-> "scans", limit |-> limit, found |-> <<>>, cursor |-> 1, scanned |-> 0]
  BY DEF StartScan
<1>2. throughout' = ToSet(stored) /\ UNCHANGED <<stored, matches, latest>>
  BY DEF StartScan
<1>3. <<>> \in Numbers /\ ToSet(<<>>) = {} /\ Len(<<>>) = 0
  BY DEF Numbers, Sorted, ToSet
<1>4. limit \in Nat /\ 0 < limit
  BY <1>1
<1>5. /\ search' \in Scans /\ search'.state = "scans" /\ search'.limit = limit
      /\ search'.found = <<>> /\ search'.cursor = 1
  BY <1>1, <1>3, <1>4 DEF Scans
<1>6. \A x \in ToSet(stored) : ~(x < 1)
  BY DEF ReadingInv, LogRows
<1>7. SearchHolds'
  BY <1>2, <1>3, <1>4, <1>5, <1>6 DEF SearchHolds, SearchTold
<1>8. QED
  BY <1>2, <1>7 DEF ReadingInv, LogRows

\* A page: the scan ends for its bound, at the end of the log or for its limit,
\* or goes on behind the page, of which it has every match.
LEMMA ScanPageKeeps == ReadingInv /\ ScanPage => ReadingInv'
<1> SUFFICES ASSUME ReadingInv, ScanPage PROVE ReadingInv'
  OBVIOUS
<1> DEFINE from == From(stored, search.cursor)
           page == ReadLines(search.cursor, PageSize)
           hits == Chosen(page, LAMBDA i : i \in matches)
           room == search.limit - Len(search.found)
<1>1. /\ stored \in Numbers /\ ToSet(stored) \subseteq Nat /\ PageSize \in Nat \ {0}
      /\ throughout \subseteq ToSet(stored)
  BY ReadingAssumption, NumbersType DEF ReadingInv, LogRows, SearchHolds, ReadingAssumption
<1>2. /\ search.state = "scans" /\ search \in Scans
      /\ ToSet(search.found) \subseteq matches /\ Len(search.found) < search.limit
      /\ \A x \in ToSet(search.found) : x < search.cursor
      /\ \A x \in throughout \cap matches : x < search.cursor => x \in ToSet(search.found)
  <2>1. search.state = "scans"
    BY DEF ScanPage
  <2>2. search \in Scans
    BY <2>1 DEF ReadingInv, SearchHolds, NoSearch, ScansDone
  <2>3. QED
    BY <2>1, <2>2 DEF ReadingInv, SearchHolds
<1>3. /\ search.limit \in Nat /\ search.found \in Numbers /\ search.cursor \in Nat
      /\ search.scanned \in Nat /\ Len(search.found) \in Nat
  BY <1>2, NumbersType DEF Scans
<1>4. UNCHANGED <<stored, matches, latest, throughout>>
  BY DEF ScanPage
<1>5. from \in Numbers /\ ToSet(from) = {x \in ToSet(stored) : x >= search.cursor}
  BY <1>1, FromRows
<1>6. page = FirstOf(from, PageSize)
  BY DEF ReadLines, From
<1> HIDE DEF from
<1>7. /\ page \in Numbers /\ Len(page) <= PageSize /\ (Len(page) < PageSize => page = from)
      /\ ToSet(page) \subseteq ToSet(from)
      /\ \A x \in ToSet(from) : x \in ToSet(page) \/ \A y \in ToSet(page) : y < x
  BY <1>1, <1>5, <1>6, FirstRows
<1> HIDE DEF page
<1>8. hits \in Numbers /\ ToSet(hits) = ToSet(page) \cap matches
  BY <1>7, MatchingRows
<1>9. IF search.scanned >= MaxScan THEN Answer(Truncated)
      ELSE IF page = <<>> THEN Answer(FALSE)
      ELSE IF Len(hits) >= room
      THEN search' = [state |-> "answered", limit |-> search.limit, truncated |-> FALSE,
                      found |-> search.found \o SubSeq(hits, 1, room)]
      ELSE search' = [search EXCEPT !.found = @ \o hits, !.scanned = @ + Len(page),
                                    !.cursor = AfterPage(page)]
  BY DEF ScanPage, page
<1> HIDE DEF hits
<1>10. Len(hits) \in Nat /\ Len(page) \in Nat /\ room \in Nat \ {0}
       /\ room + Len(search.found) = search.limit
  <2>1. Len(hits) \in Nat /\ Len(page) \in Nat
    BY <1>7, <1>8, NumbersType
  <2>2. search.limit \in Nat /\ Len(search.found) \in Nat /\ Len(search.found) < search.limit
    BY <1>2, <1>3
  <2>3. \A m, n \in Nat : n < m => m - n \in Nat \ {0} /\ m - n + n = m
    OBVIOUS
  <2>4. room \in Nat \ {0} /\ room + Len(search.found) = search.limit
    BY <2>2, <2>3
  <2>5. QED
    BY <2>1, <2>4
<1> HIDE DEF room
<1>11. CASE search.scanned >= MaxScan
  <2>1. search' = [state |-> "answered", limit |-> search.limit, found |-> search.found,
                   truncated |-> TRUE]
    BY <1>9, <1>11 DEF Answer, Truncated
  <2>2. search' \in ScansDone /\ search'.found = search.found /\ search'.limit = search.limit
        /\ search'.truncated
    BY <1>3, <2>1 DEF ScansDone
  <2>3. SearchHolds'
    <3>1. Len(search'.found) <= search'.limit
      BY <1>2, <1>3, <2>2
    <3>2. QED
      BY <1>1, <1>2, <1>4, <2>2, <3>1, AnswerTold
  <2>4. QED
    BY <1>4, <2>3 DEF ReadingInv, LogRows
<1>12. CASE ~(search.scanned >= MaxScan) /\ page = <<>>
  <2>1. search' = [state |-> "answered", limit |-> search.limit, found |-> search.found,
                   truncated |-> FALSE]
    BY <1>9, <1>12 DEF Answer
  <2>2. search' \in ScansDone /\ search'.found = search.found /\ search'.limit = search.limit
    BY <1>3, <2>1 DEF ScansDone
  <2>3. ToSet(from) = {}
    <3>1. Len(page) = 0 /\ 0 < PageSize /\ ToSet(<<>>) = {}
      BY <1>1, <1>12 DEF ToSet
    <3>2. QED
      BY <1>7, <1>12, <3>1
  <2>4. throughout \cap matches \subseteq ToSet(search.found)
    <3>1. \A x \in throughout : x < search.cursor
      BY <1>1, <1>3, <1>5, <2>3
    <3>2. QED
      BY <1>2, <3>1
  <2>5. SearchHolds'
    <3>1. Len(search'.found) <= search'.limit
      BY <1>2, <1>3, <2>2
    <3>2. QED
      BY <1>1, <1>2, <1>4, <2>2, <2>4, <3>1, AnswerTold
  <2>6. QED
    BY <1>4, <2>5 DEF ReadingInv, LogRows
<1>13. \A x \in ToSet(search.found), y \in ToSet(hits) : x < y
  <2>1. \A y \in ToSet(hits) : y \in Nat /\ y >= search.cursor
    BY <1>1, <1>5, <1>7, <1>8
  <2>2. \A x \in ToSet(search.found) : x \in Nat /\ x < search.cursor
    BY <1>2, <1>3, NumbersType
  <2>3. QED
    BY <1>3, <2>1, <2>2
<1>14. CASE ~(search.scanned >= MaxScan) /\ page # <<>> /\ Len(hits) >= room
  <2> DEFINE some == SubSeq(hits, 1, room)
             got == search.found \o some
  <2>1. search' = [state |-> "answered", limit |-> search.limit, truncated |-> FALSE,
                   found |-> got]
    BY <1>9, <1>14
  <2>2. some \in Numbers /\ Len(some) = room /\ ToSet(some) \subseteq ToSet(hits)
    <3>1. room \in 0 .. Len(hits) /\ 1 \in Nat \ {0}
      BY <1>10, <1>14
    <3>2. /\ some \in Numbers /\ Len(some) = IF 1 <= room THEN room - 1 + 1 ELSE 0
          /\ \A x : x \in ToSet(some) <=> \E i \in 1 .. room : hits[i] = x
      BY <1>8, <3>1, StretchRows
    <3> HIDE DEF some
    <3>3. \A i \in 1 .. room : i \in 1 .. Len(hits)
      BY <3>1, <1>10
    <3>4. QED
      BY <1>8, <1>10, <3>2, <3>3, NumbersType
  <2> HIDE DEF some
  <2>3. got \in Numbers /\ Len(got) = Len(search.found) + Len(some)
        /\ ToSet(got) = ToSet(search.found) \cup ToSet(some)
    BY <1>3, <1>13, <2>2, RowsBehind
  <2> HIDE DEF got
  <2>4. search' \in ScansDone /\ search'.found = got /\ search'.limit = search.limit
    BY <1>3, <2>1, <2>3 DEF ScansDone
  <2>5. Len(got) = search.limit /\ ToSet(got) \subseteq matches
    BY <1>2, <1>3, <1>8, <1>10, <2>2, <2>3
  <2>6. SearchHolds'
    <3>1. Len(search'.found) <= search'.limit /\ ~(Len(search'.found) < search'.limit)
      BY <1>3, <2>4, <2>5
    <3>2. QED
      BY <1>1, <1>4, <2>4, <2>5, <3>1, AnswerTold
  <2>7. QED
    BY <1>4, <2>6 DEF ReadingInv, LogRows
<1>15. CASE ~(search.scanned >= MaxScan) /\ page # <<>> /\ ~(Len(hits) >= room)
  <2> DEFINE got == search.found \o hits
             last == Last(page)
  <2>1. search' = [search EXCEPT !.found = got, !.scanned = @ + Len(page), !.cursor = last + 1]
    BY <1>9, <1>15 DEF AfterPage
  <2>2. last \in ToSet(page) /\ last \in Nat /\ \A x \in ToSet(page) : x <= last
    <3>1. last = page[Len(page)]
      BY DEF Last
    <3> HIDE DEF last
    <3>2. page \in Seq(Nat) /\ Len(page) \in 1 .. Len(page)
      BY <1>7, <1>10, <1>15, NumbersType, EmptySeq
    <3>3. last \in ToSet(page) /\ last \in Nat
      BY <1>7, <3>1, <3>2, NumbersType
    <3>4. ASSUME NEW x \in ToSet(page) PROVE x <= last
      <4>1. PICK i \in 1 .. Len(page) : page[i] = x
        BY <1>7, NumbersType
      <4>2. i <= Len(page)
        BY <1>10, <4>1
      <4>3. QED
        BY <1>7, <3>1, <3>2, <4>1, <4>2, NumbersType
    <3>5. QED
      BY <3>3, <3>4
  <2> HIDE DEF last
  <2>3. got \in Numbers /\ Len(got) = Len(search.found) + Len(hits)
        /\ ToSet(got) = ToSet(search.found) \cup ToSet(hits)
    BY <1>3, <1>8, <1>13, RowsBehind
  <2> HIDE DEF got
  <2>4. /\ search' \in Scans /\ search'.state = "scans" /\ search'.found = got
        /\ search'.limit = search.limit /\ search'.cursor = last + 1
    <3>1. search.scanned + Len(page) \in Nat /\ last + 1 \in Nat
      BY <1>3, <1>10, <2>2
    <3>2. search' = [state |-> "scans", limit |-> search.limit, found |-> got,
                     cursor |-> last + 1, scanned |-> search.scanned + Len(page)]
      BY <1>2, <2>1 DEF Scans
    <3>3. QED
      BY <1>3, <2>3, <3>1, <3>2 DEF Scans
  <2>5. ToSet(got) \subseteq matches /\ Len(got) < search.limit
    <3>1. Len(got) < search.limit
      BY <1>3, <1>10, <1>15, <2>3
    <3>2. QED
      BY <1>2, <1>8, <2>3, <3>1
  <2>6. ASSUME NEW x \in ToSet(got) PROVE x < last + 1
    <3>1. CASE x \in ToSet(hits)
      <4>1. x <= last /\ x \in Nat
        BY <1>7, <1>8, <2>2, <3>1, NumbersType
      <4>2. QED
        BY <2>2, <4>1
    <3>2. CASE x \in ToSet(search.found)
      <4>1. x < search.cursor /\ search.cursor <= last /\ x \in Nat
        BY <1>2, <1>3, <1>5, <1>7, <2>2, <3>2, NumbersType
      <4>2. QED
        BY <1>3, <2>2, <4>1
    <3>3. QED
      BY <2>3, <3>1, <3>2
  <2>7. ASSUME NEW x \in throughout \cap matches, x < last + 1 PROVE x \in ToSet(got)
    <3>1. x \in Nat /\ x \in ToSet(stored)
      BY <1>1
    <3>2. CASE x < search.cursor
      BY <1>2, <2>3, <3>2
    <3>3. CASE ~(x < search.cursor)
      <4>1. x \in ToSet(from)
        BY <1>3, <1>5, <3>1, <3>3
      <4>2. ~(last < x)
        BY <2>2, <2>7, <3>1
      <4>3. x \in ToSet(page)
        BY <1>7, <2>2, <4>1, <4>2
      <4>4. QED
        BY <1>8, <2>3, <4>3
    <3>4. QED
      BY <3>2, <3>3
  <2>8. SearchHolds'
    BY <1>1, <1>4, <2>4, <2>5, <2>6, <2>7 DEF SearchHolds, SearchTold
  <2>9. QED
    BY <1>4, <2>8 DEF ReadingInv, LogRows
<1>16. QED
  BY <1>11, <1>12, <1>14, <1>15

\* The answer is given.
LEMMA AnsweredForgotten == ReadingInv /\ Forget => ReadingInv'
<1> SUFFICES ASSUME ReadingInv, Forget PROVE ReadingInv'
  OBVIOUS
<1>1. search' = NoSearch /\ search'.state = "none" /\ throughout' = {}
      /\ UNCHANGED <<stored, matches, latest>>
  BY DEF Forget, NoSearch
<1>2. QED
  BY <1>1 DEF ReadingInv, LogRows, SearchHolds, SearchTold

\* Every step keeps the invariant.
LEMMA ReadingKeeps == ReadingInv /\ [ReadingNext]_readingVars => ReadingInv'
<1>1. ReadingInv /\ UNCHANGED readingVars => ReadingInv'
  BY DEF readingVars, ReadingInv, LogRows, SearchHolds, SearchTold
<1>2. QED
  BY <1>1, StoreKeeps, RemovalKeeps, SubstringKeeps, ExportKeeps, StartScanKeeps, ScanPageKeeps,
     AnsweredForgotten DEF ReadingNext

\* The offset finds the line: the rows from it on are the last n there are.
LEMMA TailRead ==
  ASSUME LogRows, NEW n \in Nat
  PROVE  From(stored, StartFromEnd(n)) = LastOf(stored, n)
<1> DEFINE start == StartFromEnd(n)
           l == Len(stored)
<1>1. /\ stored \in Numbers /\ l \in Nat /\ ToSet(stored) \subseteq Nat \ {0}
      /\ \A i \in 1 .. l : stored[i] \in Nat \ {0} /\ stored[i] \in ToSet(stored)
  BY NumbersType DEF LogRows
<1>2. From(stored, start) \in Numbers /\ ToSet(From(stored, start)) = {x \in ToSet(stored) : x >= start}
  BY <1>1, FromRows
<1>3. LastOf(stored, n) \in Numbers
  BY <1>1, LastRows
<1>4. SUFFICES ASSUME NEW x PROVE x \in ToSet(LastOf(stored, n)) <=> x \in ToSet(stored) /\ x >= start
  <2>1. ToSet(LastOf(stored, n)) = {x \in ToSet(stored) : x >= start}
    BY <1>4
  <2>2. ToSet(From(stored, start)) = ToSet(LastOf(stored, n))
    BY <1>2, <2>1
  <2>3. QED
    BY <1>2, <1>3, <2>2, SameRows
<1>5. CASE n = 0
  <2>1. LastOf(stored, n) = <<>> /\ ToSet(<<>>) = {}
    BY <1>1, <1>5, SubSeqEmpty DEF LastOf, ToSet
  <2>2. start = Largest(stored) + 1
    BY <1>5 DEF StartFromEnd
  <2>3. ASSUME x \in ToSet(stored) PROVE ~(x >= start)
    <3>1. PICK i \in 1 .. l : stored[i] = x
      BY <1>1, <2>3, NumbersType
    <3>2. stored # <<>> /\ l \in 1 .. l /\ i <= l
      BY <1>1, <3>1
    <3>3. Largest(stored) = stored[l] /\ stored[l] \in Nat
      BY <1>1, <3>2 DEF Largest, Last
    <3>4. x <= stored[l] /\ x \in Nat
      BY <1>1, <3>1, <3>2, NumbersType
    <3>5. QED
      BY <2>2, <3>3, <3>4
  <2>4. QED
    BY <2>1, <2>3
<1>6. CASE n # 0 /\ n <= l
  <2> DEFINE k == l - n + 1
  <2>1. k \in 1 .. l /\ k \in Nat \ {0} /\ l \in 0 .. l
    BY <1>1, <1>6
  <2>2. start = stored[k]
    BY <1>6 DEF StartFromEnd
  <2>3. LastOf(stored, n) = SubSeq(stored, k, l)
    BY <1>1, <1>6 DEF LastOf
  <2> HIDE DEF k, start
  <2>4. x \in ToSet(LastOf(stored, n)) <=> \E i \in k .. l : stored[i] = x
    BY <1>1, <2>1, <2>3, StretchRows
  <2>5. ASSUME NEW i \in k .. l, stored[i] = x PROVE x \in ToSet(stored) /\ x >= start
    <3>1. i \in 1 .. l /\ k <= i
      BY <1>1, <2>1
    <3>2. stored[k] <= stored[i] /\ stored[k] \in Nat /\ stored[i] \in Nat
      BY <1>1, <2>1, <3>1, NumbersType
    <3>3. QED
      BY <1>1, <2>2, <2>5, <3>1, <3>2
  <2>6. ASSUME x \in ToSet(stored), x >= start PROVE \E i \in k .. l : stored[i] = x
    <3>1. PICK i \in 1 .. l : stored[i] = x
      BY <1>1, <2>6, NumbersType
    <3>2. stored[k] <= stored[i]
      BY <1>1, <2>1, <2>2, <2>6, <3>1
    <3>3. k <= i
      BY <1>1, <2>1, <3>1, <3>2, NumbersType
    <3>4. i \in k .. l
      BY <1>1, <2>1, <3>1, <3>3
    <3>5. QED
      BY <3>1, <3>4
  <2>7. QED
    BY <2>4, <2>5, <2>6
<1>7. CASE n # 0 /\ ~(n <= l)
  <2>1. LastOf(stored, n) = stored
    BY <1>1, <1>7 DEF LastOf
  <2>2. ASSUME x \in ToSet(stored) PROVE x >= start
    <3>1. PICK i \in 1 .. l : stored[i] = x
      BY <1>1, <2>2, NumbersType
    <3>2. stored # <<>> /\ 1 \in 1 .. l /\ 1 <= i
      BY <1>1, <3>1
    <3>3. start = stored[1]
      BY <1>1, <1>7, <3>2 DEF StartFromEnd
    <3>4. QED
      BY <1>1, <3>1, <3>2, <3>3, NumbersType
  <2>3. QED
    BY <2>1, <2>2
<1>8. QED
  BY <1>1, <1>5, <1>6, <1>7

\* A query for as many rows as there are ids has them all.
LEMMA AllRead ==
  ASSUME LogRows, NEW start
  PROVE  ReadLines(start, MaxId) = From(stored, start)
<1>1. stored \in Numbers /\ Len(stored) \in Nat /\ Len(stored) <= MaxId /\ MaxId \in Nat
  BY FewRows DEF LogRows
<1>2. From(stored, start) \in Numbers /\ Len(From(stored, start)) <= Len(stored)
  BY <1>1, FromRows
<1>3. Len(From(stored, start)) \in Nat /\ Len(From(stored, start)) <= MaxId
  <2>1. Len(From(stored, start)) \in Nat
    BY <1>2, NumbersType
  <2>2. QED
    BY <1>1, <1>2, <2>1
<1>4. FirstOf(From(stored, start), MaxId) = From(stored, start)
  BY <1>1, <1>2, <1>3, FirstRows
<1>5. QED
  BY <1>4 DEF ReadLines, From

\* Who goes on where a page ended misses nothing.
LEMMA NextIsRight ==
  ASSUME LogRows, NEW w, NEW start, NEW n \in 1 .. MaxLimit,
         NEW i \in ToSet(From(stored, start)) \cap matches
  PROVE  i \in ToSet(ReadLinesSince(start, n)) \/ i > NextAfter(w, ReadLinesSince(start, n))
<1> DEFINE all == MatchingFrom(stored, start)
           page == ReadLinesSince(start, n)
<1>1. stored \in Numbers /\ n \in Nat /\ n >= 1
  BY ReadingAssumption DEF LogRows, ReadingAssumption
<1>2. ToSet(From(stored, start)) = {x \in ToSet(stored) : x >= start}
  BY <1>1, FromRows
<1>3. all \in Numbers /\ ToSet(all) = {x \in ToSet(stored) : x >= start /\ x \in matches}
  BY <1>1, MatchingFromRows
<1>4. page = FirstOf(all, n)
  BY DEF ReadLinesSince, MatchingFrom
<1> HIDE DEF all, page
<1>5. i \in ToSet(all) /\ i \in Nat
  BY <1>1, <1>2, <1>3, NumbersType
<1>6. /\ page \in Numbers /\ (Len(page) < n => page = all)
      /\ i \in ToSet(page) \/ \A y \in ToSet(page) : y < i
  BY <1>1, <1>3, <1>4, <1>5, FirstRows
<1>7. CASE page = <<>>
  <2>1. Len(page) = 0 /\ ToSet(<<>>) = {}
    BY <1>7 DEF ToSet
  <2>2. page = all
    BY <1>1, <1>6, <2>1
  <2>3. QED
    BY <1>5, <1>7, <2>1, <2>2
<1>8. CASE page # <<>>
  <2>1. NextAfter(w, page) = page[Len(page)]
    BY <1>8 DEF NextAfter, Last
  <2>2. Len(page) \in 1 .. Len(page)
    BY <1>6, <1>8, NumbersType, EmptySeq
  <2>3. page[Len(page)] \in ToSet(page) /\ page[Len(page)] \in Nat
    BY <1>6, <2>2, NumbersType
  <2>4. i \in ToSet(page) \/ i > NextAfter(w, page)
    BY <1>5, <1>6, <2>1, <2>3
  <2>5. QED
    BY <2>4 DEF page
<1>9. QED
  BY <1>7, <1>8

\* Every window of a read, by its tail, its cursor or its first line.
LEMMA WindowsAreRight == LogRows => WindowsRight
<1> SUFFICES ASSUME LogRows, NEW w \in ReadWindow
             PROVE  LET start == ResolveStart(w)
                        got == ReadLines(start, MaxId)
                    IN  /\ w.tail # Absent => got = LastOf(stored, w.tail)
                        /\ w.tail = Absent /\ w.after_id # Absent =>
                             got = Chosen(stored, LAMBDA i : i > w.after_id)
                        /\ w.tail = Absent /\ w.after_id = Absent /\ w.start_id # Absent /\ w.start_id < 0 =>
                             got = LastOf(stored, -w.start_id)
                        /\ \A n \in 1..MaxLimit :
                             LET page == ReadLinesSince(start, n) IN
                               \A i \in ToSet(got) \cap matches : i \in ToSet(page) \/ i > NextAfter(w, page)
  BY DEF WindowsRight
<1> DEFINE start == ResolveStart(w)
           got == ReadLines(start, MaxId)
<1>1. got = From(stored, start)
  BY AllRead
<1>2. /\ w.tail \in {Absent} \cup 0 .. 3 /\ w.after_id \in {Absent} \cup -1 .. MaxId
      /\ w.start_id \in {Absent} \cup -2 .. MaxId \cup {1, -1} /\ (w.after_id = 1 \/ w.after_id \in {Absent} \cup -1 .. MaxId)
  <2>0. 2 <= MaxId /\ MaxId \in Nat
    BY ReadingAssumption DEF ReadingAssumption
  <2>1. \A t, a, s : ReadOf(t, a, s).tail = t /\ ReadOf(t, a, s).after_id = a /\ ReadOf(t, a, s).start_id = s
    BY DEF ReadOf
  <2>2. \/ \E n \in 0..3, after \in {Absent, 1}, s \in {Absent, -1} : w = ReadOf(n, after, s)
        \/ \E after \in -1..MaxId, s \in {Absent, 1} : w = ReadOf(Absent, after, s)
        \/ \E s \in {Absent} \cup -2..MaxId : w = ReadOf(Absent, Absent, s)
    BY DEF ReadWindow
  <2>3. 1 \in -1 .. MaxId /\ -1 \in -2 .. MaxId
    BY <2>0
  <2>4. QED
    BY <2>1, <2>2, <2>3
<1>3. ASSUME w.tail # Absent PROVE got = LastOf(stored, w.tail)
  <2>1. w.tail \in Nat /\ start = StartFromEnd(w.tail)
    BY <1>2, <1>3 DEF ResolveStart
  <2> HIDE DEF got, start
  <2>2. QED
    BY <1>1, <2>1, TailRead
<1>4. ASSUME w.tail = Absent, w.after_id # Absent
      PROVE  got = Chosen(stored, LAMBDA i : i > w.after_id)
  <2>1. start = AtLeastOne(w.after_id + 1) /\ w.after_id \in Int
    <3>1. MaxId \in Nat
      BY ReadingAssumption DEF ReadingAssumption
    <3>2. QED
      BY <1>2, <1>4, <3>1 DEF ResolveStart
  <2>2. \A i \in DOMAIN stored : stored[i] >= start <=> stored[i] > w.after_id
    <3>1. \A i \in DOMAIN stored : stored[i] \in Nat \ {0}
      BY NumbersType DEF LogRows
    <3>2. \A a \in Int : \A m \in Nat \ {0} : m >= AtLeastOne(a + 1) <=> m > a
      BY DEF AtLeastOne
    <3> HIDE DEF start
    <3>3. QED
      BY <2>1, <3>1, <3>2
  <2> HIDE DEF got, start
  <2>3. {i \in DOMAIN stored : stored[i] >= start} = {i \in DOMAIN stored : stored[i] > w.after_id}
    BY <2>2
  <2>4. QED
    BY <1>1, <2>3 DEF From, Chosen
<1>5. ASSUME w.tail = Absent, w.after_id = Absent, w.start_id # Absent, w.start_id < 0
      PROVE  got = LastOf(stored, -w.start_id)
  <2>1. start = StartFromEnd(-w.start_id)
    BY <1>5 DEF ResolveStart
  <2>2. -w.start_id \in Nat
    <3>1. MaxId \in Nat
      BY ReadingAssumption DEF ReadingAssumption
    <3>2. w.start_id \in Int
      BY <1>2, <1>5, <3>1
    <3>3. QED
      BY <1>5, <3>2
  <2> HIDE DEF got, start
  <2>3. QED
    BY <1>1, <2>1, <2>2, TailRead
<1>6. ASSUME NEW n \in 1 .. MaxLimit, NEW i \in ToSet(got) \cap matches
      PROVE  i \in ToSet(ReadLinesSince(start, n)) \/ i > NextAfter(w, ReadLinesSince(start, n))
  <2> HIDE DEF got, start
  <2>1. i \in ToSet(From(stored, start)) \cap matches
    BY <1>1
  <2>2. QED
    BY <2>1, NextIsRight
<1> HIDE DEF got, start
<1>7. QED
  BY <1>3, <1>4, <1>5, <1>6 DEF got, start

\* A search answers with matching lines in their order, and with all that were
\* there throughout unless it says otherwise; a read by tail, cursor or line
\* gives the lines it names, and goes on without a gap (storage.rs scan_filtered,
\* start_id_from_end, engine.rs read_once), in a log of any length that is
\* written, trimmed and cut between two pages of any size.
THEOREM ReadsHold == ReadingSpec => []ReadsTrue
<1>1. ReadingInv => ReadsTrue
  BY WindowsAreRight DEF ReadingInv, SearchHolds, ReadsTrue
<1>2. QED
  BY <1>1, ReadingBegins, ReadingKeeps, PTL DEF ReadingSpec

-----------------------------------------------------------------------------
(* Text: prefixes, blanks and digits.                                      *)

\* A prefix is a zero and an x.
LEMMA PrefixIs ==
  ASSUME NEW s \in Seq(Nat)
  PROVE  /\ HasPrefix(s) <=> Len(s) >= 2 /\ s[1] = 48 /\ s[2] \in {120, 88}
         /\ HasPrefix(s) \in BOOLEAN
<1>1. Len(s) \in Nat /\ \A i \in 1 .. Len(s) : s[i] \in Nat
  OBVIOUS
<1>2. ASSUME Len(s) >= 2
      PROVE  SubSeq(s, 1, 2) \in Marks <=> s[1] = 48 /\ s[2] \in {120, 88}
  <2> DEFINE q == SubSeq(s, 1, 2)
  <2>1. \A i \in 1 .. 2 : i \in 1 .. Len(s)
    BY <1>1, <1>2
  <2>2. \A i \in 1 .. 2 : s[i] \in Nat
    BY <1>1, <2>1
  <2>3. /\ q \in Seq(Nat) /\ Len(q) = IF 1 <= 2 THEN 2 - 1 + 1 ELSE 0
        /\ \A i \in 1 .. 2 - 1 + 1 : q[i] = s[1 + i - 1]
    BY <2>2, SubSeqProperties
  <2> HIDE DEF q
  <2>4. Len(q) = 2 /\ q[1] = s[1] /\ q[2] = s[2]
    BY <2>3
  <2>5. q = <<s[1], s[2]>>
    <3>1. s[1] \in Nat /\ s[2] \in Nat
      BY <2>2
    <3>2. <<s[1], s[2]>> \in Seq(Nat) /\ Len(<<s[1], s[2]>>) = 2
      BY <3>1
    <3>3. \A i \in 1 .. Len(q) : q[i] = <<s[1], s[2]>>[i]
      BY <2>4
    <3>4. QED
      BY <2>3, <2>4, <3>2, <3>3, SeqEqual
  <2>6. \A a, b : <<a, b>> \in Marks <=> a = 48 /\ b \in {120, 88}
    <3>1. \A a, b : <<a, b>> # <<>>
      OBVIOUS
    <3>2. \A a, b, c, d : <<a, b>> = <<c, d>> <=> a = c /\ b = d
      OBVIOUS
    <3>3. QED
      BY <3>1, <3>2, Zenon DEF Marks
  <2>7. q \in Marks <=> s[1] = 48 /\ s[2] \in {120, 88}
    <3> DEFINE x == s[1]
               y == s[2]
    <3>1. q = <<x, y>>
      BY <2>5
    <3> HIDE DEF x, y
    <3>2. <<x, y>> \in Marks <=> x = 48 /\ y \in {120, 88}
      BY <2>6
    <3>3. q \in Marks <=> x = 48 /\ y \in {120, 88}
      BY <3>1, <3>2
    <3>4. QED
      BY <3>3 DEF x, y
  <2>8. QED
    BY <2>7 DEF q
<1>3. QED
  BY <1>1, <1>2 DEF HasPrefix

LEMMA StrippedType ==
  ASSUME NEW T, NEW s \in Seq(T)
  PROVE  Stripped(s) \in Seq(T)
<1>1. CASE HasPrefix(s)
  <2>1. Len(s) \in Nat /\ \A i \in 3 .. Len(s) : s[i] \in T
    OBVIOUS
  <2>2. QED
    BY <1>1, <2>1, SubSeqProperties DEF Stripped
<1>2. QED
  BY <1>1 DEF Stripped

\* What is behind the prefix and is no blank.
Inks(s) == {i \in DOMAIN s : s[i] \notin White}

LEMMA SolidIs ==
  ASSUME NEW T, NEW s \in Seq(T)
  PROVE  Solid(s) = AtPlaces(Stripped(s), Inks(Stripped(s))) /\ Solid(s) \in Seq(T)
<1>1. Solid(s) = AtPlaces(Stripped(s), Inks(Stripped(s)))
  BY DEF Solid, Chosen, Inks
<1>2. Stripped(s) \in Seq(T) /\ Inks(Stripped(s)) \in SUBSET DOMAIN Stripped(s)
  BY StrippedType DEF Inks
<1>3. QED
  BY <1>1, <1>2, AtPlacesTheorem

\* The places of an interval are its numbers.
LEMMA IntervalInOrder ==
  ASSUME NEW n \in Nat, NEW i \in 1 .. n
  PROVE  Ascending(1 .. n)[i] = i /\ DOMAIN Ascending(1 .. n) = 1 .. n
<1> DEFINE S == 1 .. n
           nth(k) == CHOOSE r \in S : Cardinality(Below(S, r)) = k - 1
<1>1. IsFiniteSet(S) /\ Cardinality(S) = n /\ S \in NumberSets
  BY FS_Interval DEF NumberSets
<1>2. Ascending(S) = [k \in 1 .. n |-> nth(k)]
  BY <1>1 DEF Ascending, Below
<1>3. \E r \in S : Cardinality(Below(S, r)) = i - 1
  <2> HIDE DEF S
  <2>1. QED
    BY <1>1, RankTaken
<1>4. nth(i) \in S /\ Cardinality(Below(S, nth(i))) = i - 1
  BY <1>3
<1> HIDE DEF nth
<1>5. Below(S, nth(i)) = 1 .. nth(i) - 1
  BY <1>4 DEF Below
<1>6. Cardinality(1 .. nth(i) - 1) = nth(i) - 1
  <2>1. nth(i) - 1 \in Nat
    BY <1>4
  <2>2. QED
    BY <2>1, FS_Interval
<1>7. nth(i) = i
  BY <1>4, <1>5, <1>6
<1>8. QED
  BY <1>2, <1>7

\* Text without a prefix and without a blank is solid.
LEMMA SolidAlready ==
  ASSUME NEW s \in Seq(Nat), ~HasPrefix(s), \A i \in DOMAIN s : s[i] \notin White
  PROVE  Solid(s) = s
<1>1. Stripped(s) = s /\ Inks(s) = 1 .. Len(s) /\ DOMAIN s = 1 .. Len(s) /\ Len(s) \in Nat
  BY DEF Stripped, Inks
<1>2. Solid(s) = AtPlaces(s, 1 .. Len(s))
  BY <1>1, SolidIs
<1> DEFINE p == Ascending(1 .. Len(s))
<1>3. CASE Len(s) = 0
  <2>1. s = <<>> /\ 1 .. Len(s) = {}
    BY <1>3
  <2>2. Cardinality({}) = 0
    BY FS_EmptySet
  <2>3. DOMAIN p = {}
    BY <2>1, <2>2 DEF Ascending
  <2>4. AtPlaces(s, 1 .. Len(s)) = [i \in {} |-> s[p[i]]]
    BY <2>3 DEF AtPlaces
  <2>5. QED
    BY <1>2, <2>1, <2>4
<1>4. CASE Len(s) # 0
  <2>1. DOMAIN p = 1 .. Len(s) /\ \A i \in 1 .. Len(s) : p[i] = i
    <3>1. 1 \in 1 .. Len(s)
      BY <1>1, <1>4
    <3>2. QED
      BY <1>1, <3>1, IntervalInOrder
  <2> HIDE DEF p
  <2>2. AtPlaces(s, 1 .. Len(s)) = [i \in 1 .. Len(s) |-> s[i]]
    BY <2>1 DEF AtPlaces, p
  <2>3. QED
    BY <1>1, <1>2, <2>2
<1>5. QED
  BY <1>3, <1>4

\* Blanks behind a text change neither its prefix nor what of it is solid.
LEMMA BlanksBehind ==
  ASSUME NEW s \in Seq(Nat), NEW e \in Seq(White)
  PROVE  /\ s \o e \in Seq(Nat) /\ (HasPrefix(s \o e) <=> HasPrefix(s))
         /\ Solid(s \o e) = Solid(s)
<1> DEFINE q == s \o e
           n == Len(s)
           m == Len(e)
<1>0. White \subseteq Nat \ {48, 120, 88}
  BY DEF White, Space, Lf, Cr
<1>1. /\ n \in Nat /\ m \in Nat /\ e \in Seq(Nat)
      /\ \A i \in 1 .. n : s[i] \in Nat
      /\ \A i \in 1 .. m : e[i] \in White
  <2>1. n \in Nat /\ m \in Nat /\ \A i \in 1 .. n : s[i] \in Nat
    OBVIOUS
  <2>2. \A i \in 1 .. m : e[i] \in White
    OBVIOUS
  <2>3. e \in Seq(Nat)
    <3>1. e = [i \in 1 .. m |-> e[i]] /\ m \in Nat
      OBVIOUS
    <3>2. \A i \in 1 .. m : e[i] \in Nat
      BY <1>0, <2>2
    <3> HIDE DEF m
    <3>3. [i \in 1 .. m |-> e[i]] \in Seq(Nat)
      BY <3>1, <3>2
    <3>4. QED
      BY <3>1, <3>3
  <2>4. QED
    BY <2>1, <2>2, <2>3
<1>2. /\ q \in Seq(Nat) /\ Len(q) = n + m
      /\ \A i \in 1 .. n + m : q[i] = IF i <= n THEN s[i] ELSE e[i - n]
  BY <1>1, ConcatProperties
<1> HIDE DEF q
<1>3. \A i \in 1 .. n + m : i <= n => i \in 1 .. n /\ q[i] = s[i]
  BY <1>1, <1>2
<1>4. \A i \in 1 .. n + m : ~(i <= n) => q[i] \in White
  <2> HIDE DEF n, m
  <2>1. \A i \in 1 .. n + m : ~(i <= n) => i - n \in 1 .. m
    BY <1>1
  <2>2. QED
    BY <1>1, <1>2, <2>1
<1>5. HasPrefix(q) <=> HasPrefix(s)
  <2>1. CASE n >= 2
    <3>1. 1 \in 1 .. n + m /\ 2 \in 1 .. n + m /\ Len(q) >= 2 /\ 1 <= n /\ 2 <= n
      BY <1>1, <1>2, <2>1
    <3>2. q[1] = s[1] /\ q[2] = s[2]
      BY <1>3, <3>1
    <3>3. QED
      BY <1>2, <2>1, <3>1, <3>2, PrefixIs
  <2>2. CASE ~(n >= 2)
    <3>1. ~HasPrefix(s)
      BY <2>2, PrefixIs
    <3>2. ASSUME HasPrefix(q) PROVE FALSE
      <4>1. n + m >= 2 /\ q[2] \in {120, 88}
        BY <1>2, <3>2, PrefixIs
      <4>2. 2 \in 1 .. n + m /\ ~(2 <= n)
        BY <1>1, <2>2, <4>1
      <4>3. q[2] \in White
        BY <1>4, <4>2
      <4>4. QED
        BY <1>0, <4>1, <4>3
    <3>3. QED
      BY <3>1, <3>2
  <2>3. QED
    BY <2>1, <2>2
<1> DEFINE t == Stripped(s)
           u == Stripped(q)
<1>6. /\ t \in Seq(Nat) /\ u \in Seq(Nat) /\ Len(t) <= Len(u)
      /\ \A i \in 1 .. Len(t) : u[i] = t[i]
      /\ \A i \in 1 .. Len(u) : i > Len(t) => u[i] \in White
  <2>0. t \in Seq(Nat) /\ u \in Seq(Nat)
    BY <1>2, StrippedType
  <2>1. CASE ~HasPrefix(s)
    <3>1. t = s /\ u = q
      BY <1>5, <2>1 DEF Stripped
    <3>2. QED
      BY <1>1, <1>2, <1>3, <1>4, <2>0, <3>1
  <2>2. CASE HasPrefix(s)
    <3>1. t = SubSeq(s, 3, n) /\ u = SubSeq(q, 3, n + m) /\ n >= 2
      BY <1>2, <1>5, <2>2, PrefixIs DEF Stripped
    <3>2. /\ Len(t) = IF 3 <= n THEN n - 3 + 1 ELSE 0
          /\ \A i \in 1 .. n - 3 + 1 : t[i] = s[3 + i - 1]
      <4>1. \A i \in 3 .. n : s[i] \in Nat
        BY <1>1
      <4>2. QED
        BY <1>1, <3>1, <4>1, SubSeqProperties
    <3>3. /\ Len(u) = IF 3 <= n + m THEN n + m - 3 + 1 ELSE 0
          /\ \A i \in 1 .. n + m - 3 + 1 : u[i] = q[3 + i - 1]
      <4>1. \A i \in 3 .. n + m : q[i] \in Nat
        BY <1>1, <1>2
      <4>2. QED
        BY <1>1, <3>1, <4>1, SubSeqProperties
    <3> HIDE DEF t, u
    <3>4. Len(t) = n - 2 /\ Len(u) = n + m - 2
      <4>1. \A a, b \in Nat : a >= 2 =>
              /\ (IF 3 <= a THEN a - 3 + 1 ELSE 0) = a - 2
              /\ (IF 3 <= a + b THEN a + b - 3 + 1 ELSE 0) = a + b - 2
        OBVIOUS
      <4> HIDE DEF n, m
      <4>2. n \in Nat /\ m \in Nat /\ n >= 2
        BY <1>1, <3>1
      <4>3. QED
        BY <3>2, <3>3, <4>1, <4>2
    <3>5. ASSUME NEW i \in 1 .. Len(t) PROVE u[i] = t[i]
      <4>1. i \in 1 .. n - 3 + 1 /\ i \in 1 .. n + m - 3 + 1 /\ 3 + i - 1 \in 1 .. n + m /\ 3 + i - 1 <= n
        BY <1>1, <3>1, <3>4
      <4>2. t[i] = s[3 + i - 1] /\ u[i] = q[3 + i - 1] /\ q[3 + i - 1] = s[3 + i - 1]
        BY <1>3, <3>2, <3>3, <4>1
      <4>3. QED
        BY <4>2
    <3>6. ASSUME NEW i \in 1 .. Len(u), i > Len(t) PROVE u[i] \in White
      <4>1. i \in 1 .. n + m - 3 + 1 /\ 3 + i - 1 \in 1 .. n + m /\ ~(3 + i - 1 <= n)
        BY <1>1, <3>1, <3>4, <3>6
      <4>2. u[i] = q[3 + i - 1] /\ q[3 + i - 1] \in White
        BY <1>4, <3>3, <4>1
      <4>3. QED
        BY <4>2
    <3>7. Len(t) <= Len(u)
      BY <1>1, <3>4
    <3>8. QED
      BY <2>0, <3>5, <3>6, <3>7
  <2>3. QED
    BY <2>1, <2>2
<1> HIDE DEF t, u
<1>7. Inks(u) = Inks(t) /\ Inks(t) \in SUBSET DOMAIN t
  <2>1. DOMAIN t = 1 .. Len(t) /\ DOMAIN u = 1 .. Len(u) /\ Len(t) \in Nat /\ Len(u) \in Nat
    BY <1>6
  <2>2. ASSUME NEW i PROVE i \in Inks(u) <=> i \in Inks(t)
    <3>1. i \in Inks(t) => i \in Inks(u)
      BY <1>6, <2>1 DEF Inks
    <3>2. ASSUME i \in Inks(u) PROVE i \in Inks(t)
      <4>1. i \in 1 .. Len(u) /\ u[i] \notin White
        BY <2>1, <3>2 DEF Inks
      <4>2. i \in 1 .. Len(t)
        BY <1>6, <2>1, <4>1
      <4>3. QED
        BY <1>6, <2>1, <4>1, <4>2 DEF Inks
    <3>3. QED
      BY <3>1, <3>2
  <2>3. QED
    BY <2>2 DEF Inks
<1> DEFINE P == Inks(t)
           p == Ascending(P)
<1>8. P \in NumberSets /\ P \subseteq DOMAIN t
  BY <1>6, <1>7, PlacesAreNumbers
<1>9. \A i \in DOMAIN p : p[i] \in P
  <2> HIDE DEF P
  <2>1. p \in Seq(DOMAIN t) /\ Len(p) = Cardinality(P) /\ \A i \in 1 .. Cardinality(P) : p[i] \in P
    BY <1>8, AscendingTheorem
  <2> HIDE DEF p
  <2>2. DOMAIN p = 1 .. Len(p)
    BY <2>1
  <2>3. QED
    BY <2>1, <2>2
<1>10. AtPlaces(u, P) = AtPlaces(t, P)
  <2> HIDE DEF P
  <2>1. \A i \in DOMAIN p : u[p[i]] = t[p[i]]
    <3> HIDE DEF p
    <3>1. DOMAIN t = 1 .. Len(t)
      BY <1>6
    <3>2. QED
      BY <1>6, <1>8, <1>9, <3>1
  <2>2. QED
    BY <2>1 DEF AtPlaces
<1>11. Solid(q) = Solid(s)
  <2>1. Solid(s) = AtPlaces(t, Inks(t)) /\ Solid(q) = AtPlaces(u, Inks(u))
    BY <1>2, SolidIs DEF t, u
  <2>2. QED
    BY <1>7, <1>10, <2>1
<1>12. QED
  BY <1>2, <1>5, <1>11 DEF q

Bytes == 0 .. 255
Digits == 48 .. 57 \cup 65 .. 70

\* A digit says what it was made from, and is neither a blank nor a sign.
LEMMA DigitSays ==
  ASSUME NEW n \in 0 .. 15
  PROVE  Digit(n) \in Digits /\ HexValue(Digit(n)) = n
<1>1. CASE n < 10
  <2>1. Digit(n) = 48 + n /\ 48 + n \in 48 .. 57
    BY <1>1 DEF Digit
  <2>2. HexValue(Digit(n)) = 48 + n - 48
    BY <2>1 DEF HexValue
  <2>3. QED
    BY <2>1, <2>2 DEF Digits
<1>2. CASE ~(n < 10)
  <2>1. Digit(n) = 55 + n /\ 55 + n \in 65 .. 70 /\ 55 + n \notin 48 .. 57
    BY <1>2 DEF Digit
  <2>2. HexValue(Digit(n)) = 55 + n - 55
    BY <2>1 DEF HexValue
  <2>3. QED
    BY <2>1, <2>2 DEF Digits
<1>3. QED
  BY <1>1, <1>2

LEMMA DigitsAre ==
  ASSUME NEW c \in Digits
  PROVE  c \in Nat /\ c \notin White /\ c \notin {Plus, 120, 88} /\ IsHex(c) /\ HexValue(c) \in 0 .. 15
<1>1. c \in Nat /\ c \notin White /\ c \notin {Plus, 120, 88}
  BY DEF Digits, White, Space, Lf, Cr, Plus
<1>2. HexValue(c) \in 0 .. 15
  <2>1. CASE c \in 48 .. 57
    BY <2>1 DEF HexValue
  <2>2. CASE c \in 65 .. 70
    <3>1. c \notin 48 .. 57
      BY <2>2
    <3>2. QED
      BY <2>2, <3>1 DEF HexValue
  <2>3. QED
    BY <2>1, <2>2 DEF Digits
<1>3. QED
  BY <1>1, <1>2 DEF IsHex

LEMMA HexRange ==
  ASSUME NEW c \in Nat
  PROVE  IsHex(c) => HexValue(c) \in 0 .. 15 /\ c # Plus
<1>1. CASE c \in 48 .. 57
  BY <1>1 DEF HexValue, Plus
<1>2. CASE c \notin 48 .. 57 /\ c \in 65 .. 70
  BY <1>2 DEF HexValue, Plus
<1>3. CASE c \notin 48 .. 57 /\ c \notin 65 .. 70 /\ c \in 97 .. 102
  BY <1>3 DEF HexValue, Plus
<1>4. CASE c \notin 48 .. 57 /\ c \notin 65 .. 70 /\ c \notin 97 .. 102
  <2>1. HexValue(c) = -1
    BY <1>4 DEF HexValue
  <2>2. QED
    BY <2>1 DEF IsHex
<1>5. QED
  BY <1>1, <1>2, <1>3, <1>4

\* Two digits are one byte.
LEMMA PairIsByte ==
  ASSUME NEW a \in Nat, NEW b \in Nat, Readable(a, b)
  PROVE  PairValue(a, b) \in Bytes
<1>1. HexValue(b) \in 0 .. 15
  BY HexRange DEF Readable
<1>2. CASE a = Plus
  BY <1>1, <1>2 DEF PairValue, Bytes
<1>3. CASE a # Plus
  <2>1. HexValue(a) \in 0 .. 15
    BY <1>3, HexRange DEF Readable
  <2>2. PairValue(a, b) = 16 * HexValue(a) + HexValue(b)
    BY <1>3 DEF PairValue
  <2>3. \A x, y \in 0 .. 15 : 16 * x + y \in 0 .. 255
    OBVIOUS
  <2>4. QED
    BY <1>1, <2>1, <2>2, <2>3 DEF Bytes
<1>4. QED
  BY <1>2, <1>3

\* Halves of a length, and where in a pair a place is.
LEMMA Halves ==
  ASSUME NEW n \in Nat
  PROVE  /\ n \div 2 \in Nat /\ 2 * (n \div 2) <= n
         /\ n % 2 = 0 => 2 * (n \div 2) = n
         /\ (2 * n) \div 2 = n /\ (2 * n) % 2 = 0
         /\ n % 2 # 0 => n % 2 = 1 /\ 2 * ((n + 1) \div 2) = n + 1
  OBVIOUS

\* What is decoded is bytes, one for two digits.
LEMMA DecodeType ==
  ASSUME NEW s \in Seq(Nat), Decodes(s)
  PROVE  /\ Decode(s) \in Seq(Bytes) /\ Len(Decode(s)) * 2 = Len(Solid(s))
         /\ Len(Decode(s)) = Len(Solid(s)) \div 2
         /\ Solid(s) \in Seq(Nat) /\ Len(Decode(s)) \in Nat
         /\ \A i \in 1 .. Len(Decode(s)) :
              /\ Decode(s)[i] = PairValue(Solid(s)[2 * i - 1], Solid(s)[2 * i])
              /\ 2 * i - 1 \in 1 .. Len(Solid(s)) /\ 2 * i \in 1 .. Len(Solid(s))
<1> DEFINE d == Solid(s)
           h == Len(d) \div 2
<1>1. d \in Seq(Nat) /\ Len(d) \in Nat
  BY SolidIs
<1>2. Len(d) % 2 = 0 /\ \A i \in 1 .. h : Readable(d[2 * i - 1], d[2 * i])
  BY DEF Decodes
<1>3. Decode(s) = [i \in 1 .. h |-> PairValue(d[2 * i - 1], d[2 * i])]
  BY DEF Decode
<1>4. h \in Nat /\ 2 * h = Len(d)
  BY <1>1, <1>2, Halves
<1> HIDE DEF d, h
<1>5. \A i \in 1 .. h : 2 * i - 1 \in 1 .. Len(d) /\ 2 * i \in 1 .. Len(d)
  BY <1>1, <1>4
<1>6. \A i \in 1 .. h : PairValue(d[2 * i - 1], d[2 * i]) \in Bytes
  <2>1. \A i \in 1 .. h : d[2 * i - 1] \in Nat /\ d[2 * i] \in Nat
    BY <1>1, <1>5
  <2>2. QED
    BY <1>2, <2>1, PairIsByte
<1>7. Decode(s) \in Seq(Bytes) /\ Len(Decode(s)) = h
      /\ \A i \in 1 .. h : Decode(s)[i] = PairValue(d[2 * i - 1], d[2 * i])
  BY <1>3, <1>4, <1>6
<1>8. h * 2 = Len(d)
  BY <1>4
<1>9. QED
  BY <1>1, <1>4, <1>5, <1>7, <1>8 DEF d, h

\* Digits only: they are all there, and written back they are the same.
LEMMA DecodeKeeps ==
  ASSUME NEW s \in Seq(Nat), Len(Solid(s)) % 2 = 0, \A i \in DOMAIN Solid(s) : IsHex(Solid(s)[i])
  PROVE  Decodes(s) /\ Encode(Decode(s)) = Upper(Solid(s))
<1> DEFINE d == Solid(s)
<1>1. d \in Seq(Nat) /\ Len(d) \in Nat /\ DOMAIN d = 1 .. Len(d) /\ \A i \in 1 .. Len(d) : IsHex(d[i]) /\ d[i] \in Nat
  <2>1. d \in Seq(Nat)
    BY SolidIs
  <2> HIDE DEF d
  <2>2. DOMAIN d = 1 .. Len(d) /\ Len(d) \in Nat /\ \A i \in 1 .. Len(d) : d[i] \in Nat
    BY <2>1
  <2>3. QED
    BY <2>1, <2>2 DEF d
<1>2. 2 * (Len(d) \div 2) = Len(d) /\ Len(d) \div 2 \in Nat
  <2>1. Len(d) % 2 = 0
    OBVIOUS
  <2> HIDE DEF d
  <2>2. QED
    BY <1>1, <2>1, Halves
<1>3. Decodes(s)
  <2>1. ASSUME NEW i \in 1 .. Len(d) \div 2 PROVE Readable(d[2 * i - 1], d[2 * i])
    <3> HIDE DEF d
    <3>1. 2 * i - 1 \in 1 .. Len(d) /\ 2 * i \in 1 .. Len(d)
      BY <1>1, <1>2
    <3>2. QED
      BY <1>1, <3>1 DEF Readable
  <2>2. QED
    BY <2>1 DEF Decodes
<1> DEFINE b == Decode(s)
<1>4. /\ b \in Seq(Bytes) /\ Len(b) \in Nat /\ 2 * Len(b) = Len(d)
      /\ \A i \in 1 .. Len(b) : b[i] = PairValue(d[2 * i - 1], d[2 * i])
  <2>1. Len(b) = Len(d) \div 2
    BY <1>3, DecodeType
  <2>2. QED
    BY <1>2, <1>3, <2>1, DecodeType
<1> HIDE DEF d, b
<1>5. ASSUME NEW i \in 1 .. Len(b)
      PROVE  b[i] \div 16 = HexValue(d[2 * i - 1]) /\ b[i] % 16 = HexValue(d[2 * i])
  <2>1. 2 * i - 1 \in 1 .. Len(d) /\ 2 * i \in 1 .. Len(d)
    BY <1>4
  <2>2. HexValue(d[2 * i - 1]) \in 0 .. 15 /\ HexValue(d[2 * i]) \in 0 .. 15 /\ d[2 * i - 1] # Plus
    BY <1>1, <2>1, HexRange
  <2>3. b[i] = 16 * HexValue(d[2 * i - 1]) + HexValue(d[2 * i])
    BY <1>4, <2>2 DEF PairValue
  <2>4. \A x, y \in 0 .. 15 : (16 * x + y) \div 16 = x /\ (16 * x + y) % 16 = y
    OBVIOUS
  <2>5. QED
    BY <2>2, <2>3, <2>4
<1>6. ASSUME NEW j \in 1 .. Len(d)
      PROVE  (IF j % 2 = 1 THEN Digit(b[(j + 1) \div 2] \div 16) ELSE Digit(b[j \div 2] % 16))
               = Digit(HexValue(d[j]))
  <2>0. j \in Nat /\ j <= Len(d) /\ j >= 1
    BY <1>1
  <2>1. CASE j % 2 = 1
    <3>1. 2 * ((j + 1) \div 2) = j + 1
      BY <2>0, <2>1, Halves
    <3>2. (j + 1) \div 2 \in 1 .. Len(b) /\ 2 * ((j + 1) \div 2) - 1 = j
      <4>1. (j + 1) \div 2 \in Nat
        BY <2>0, Halves
      <4>2. QED
        BY <1>4, <2>0, <3>1, <4>1
    <3>3. QED
      BY <1>5, <2>1, <3>2
  <2>2. CASE ~(j % 2 = 1)
    <3>1. j \div 2 \in Nat /\ 2 * (j \div 2) = j
      BY <2>0, <2>2, Halves
    <3>2. j \div 2 \in 1 .. Len(b)
      BY <1>4, <2>0, <3>1
    <3>3. QED
      BY <1>5, <2>2, <3>1, <3>2
  <2>3. QED
    BY <2>1, <2>2
<1>7. Encode(b) = Upper(d)
  <2>1. Encode(b) = [j \in 1 .. Len(d) |-> IF j % 2 = 1 THEN Digit(b[(j + 1) \div 2] \div 16)
                                           ELSE Digit(b[j \div 2] % 16)]
    BY <1>4 DEF Encode
  <2>2. Upper(d) = [j \in 1 .. Len(d) |-> Digit(HexValue(d[j]))]
    BY <1>1 DEF Upper
  <2>3. QED
    BY <1>6, <2>1, <2>2
<1>8. QED
  BY <1>3, <1>7 DEF b, d

\* Bytes come back from the digits they are written in.
LEMMA EncodeKeeps ==
  ASSUME NEW b \in Seq(Bytes)
  PROVE  /\ Encode(b) \in Seq(Nat) /\ ~HasPrefix(Encode(b)) /\ Decodes(Encode(b))
         /\ Decode(Encode(b)) = b
<1> DEFINE e == Encode(b)
           n == Len(b)
<1>1. n \in Nat /\ DOMAIN b = 1 .. n /\ \A i \in 1 .. n : b[i] \in Bytes
  OBVIOUS
<1>2. \A i \in 1 .. n : b[i] \in Nat /\ b[i] \div 16 \in 0 .. 15 /\ b[i] % 16 \in 0 .. 15
                        /\ 16 * (b[i] \div 16) + (b[i] % 16) = b[i]
  <2>1. ASSUME NEW x \in Bytes
        PROVE  /\ x \in Nat /\ x \div 16 \in 0 .. 15 /\ x % 16 \in 0 .. 15
               /\ 16 * (x \div 16) + (x % 16) = x
    <3>1. x \in Nat /\ x <= 255
      BY DEF Bytes
    <3>2. x \div 16 \in Int /\ x % 16 \in 0 .. 15 /\ 16 * (x \div 16) + (x % 16) = x
      BY <3>1
    <3>3. x \div 16 \in 0 .. 15
      BY <3>1, <3>2
    <3>4. QED
      BY <3>1, <3>2, <3>3
  <2>2. QED
    BY <1>1, <2>1
<1> HIDE DEF n
<1> DEFINE nth(j) == IF j % 2 = 1 THEN Digit(b[(j + 1) \div 2] \div 16) ELSE Digit(b[j \div 2] % 16)
<1>3. e = [j \in 1 .. 2 * n |-> nth(j)]
  BY DEF Encode, n
<1>4. ASSUME NEW j \in 1 .. 2 * n PROVE nth(j) \in Digits
  <2>0. j \in Nat /\ j <= 2 * n /\ j >= 1
    BY <1>1
  <2>1. CASE j % 2 = 1
    <3>1. 2 * ((j + 1) \div 2) = j + 1 /\ (j + 1) \div 2 \in Nat
      BY <2>0, <2>1, Halves
    <3>2. (j + 1) \div 2 \in 1 .. n
      BY <1>1, <2>0, <3>1
    <3>3. QED
      BY <1>2, <2>1, <3>2, DigitSays
  <2>2. CASE ~(j % 2 = 1)
    <3>1. j \div 2 \in Nat /\ 2 * (j \div 2) = j
      BY <2>0, <2>2, Halves
    <3>2. j \div 2 \in 1 .. n
      BY <1>1, <2>0, <3>1
    <3>3. QED
      BY <1>2, <2>2, <3>2, DigitSays
  <2>3. QED
    BY <2>1, <2>2
<1>5. ASSUME NEW i \in 1 .. n
      PROVE  /\ 2 * i - 1 \in 1 .. 2 * n /\ 2 * i \in 1 .. 2 * n
             /\ nth(2 * i - 1) = Digit(b[i] \div 16) /\ nth(2 * i) = Digit(b[i] % 16)
  <2>1. i \in Nat /\ 2 * i - 1 \in 1 .. 2 * n /\ 2 * i \in 1 .. 2 * n
    BY <1>1
  <2>2. \A k \in Nat : (2 * k) % 2 = 0 /\ (2 * k) \div 2 = k
    OBVIOUS
  <2>3. \A k \in Nat \ {0} : (2 * k - 1) % 2 = 1 /\ ((2 * k - 1) + 1) \div 2 = k
    OBVIOUS
  <2>4. i \in Nat \ {0}
    BY <2>1
  <2>5. (2 * i) % 2 = 0 /\ (2 * i) \div 2 = i
    BY <2>1, <2>2
  <2>6. (2 * i - 1) % 2 = 1 /\ ((2 * i - 1) + 1) \div 2 = i
    BY <2>3, <2>4
  <2>7. QED
    BY <2>1, <2>5, <2>6
<1> HIDE DEF nth, e
<1>6. e \in Seq(Nat) /\ Len(e) = 2 * n /\ DOMAIN e = 1 .. 2 * n /\ \A j \in 1 .. 2 * n : e[j] = nth(j) /\ e[j] \in Digits
  <2>1. \A j \in 1 .. 2 * n : nth(j) \in Nat /\ e[j] = nth(j)
    BY <1>3, <1>4, DigitsAre
  <2>2. 2 * n \in Nat
    BY <1>1
  <2>3. QED
    BY <1>3, <1>4, <2>1, <2>2
<1>7. ~HasPrefix(e)
  <2> SUFFICES ASSUME HasPrefix(e) PROVE FALSE
    OBVIOUS
  <2>1. Len(e) >= 2 /\ e[2] \in {120, 88}
    BY <1>6, PrefixIs
  <2>2. 2 \in 1 .. 2 * n
    BY <1>1, <1>6, <2>1
  <2>3. QED
    BY <1>6, <2>1, <2>2, DigitsAre
<1>8. Solid(e) = e
  BY <1>6, <1>7, DigitsAre, SolidAlready
<1>9. Len(e) % 2 = 0 /\ Len(e) \div 2 = n
  BY <1>1, <1>6, Halves
<1>10. ASSUME NEW i \in 1 .. n
       PROVE  Readable(e[2 * i - 1], e[2 * i]) /\ PairValue(e[2 * i - 1], e[2 * i]) = b[i]
  <2>1. e[2 * i - 1] = Digit(b[i] \div 16) /\ e[2 * i] = Digit(b[i] % 16)
    BY <1>5, <1>6
  <2>2. e[2 * i - 1] \in Digits /\ e[2 * i] \in Digits
    BY <1>5, <1>6
  <2>3. HexValue(e[2 * i - 1]) = b[i] \div 16 /\ HexValue(e[2 * i]) = b[i] % 16
    BY <1>2, <2>1, DigitSays
  <2>4. IsHex(e[2 * i - 1]) /\ IsHex(e[2 * i]) /\ e[2 * i - 1] # Plus
    BY <2>2, DigitsAre
  <2>5. QED
    BY <1>2, <2>3, <2>4 DEF Readable, PairValue
<1>11. Decodes(e)
  BY <1>8, <1>9, <1>10 DEF Decodes
<1>12. Decode(e) = b
  <2>1. Decode(e) = [i \in 1 .. n |-> PairValue(e[2 * i - 1], e[2 * i])]
    BY <1>8, <1>9 DEF Decode
  <2>2. b = [i \in 1 .. n |-> b[i]]
    BY <1>1
  <2>3. QED
    BY <1>10, <2>1, <2>2
<1>13. QED
  BY <1>6, <1>7, <1>11, <1>12 DEF e

\* What is trimmed is some of it.
LEMMA TrimmedType ==
  ASSUME NEW T, NEW s \in Seq(T)
  PROVE  Trimmed(s) \in Seq(T)
<1> DEFINE kept == {i \in DOMAIN s : s[i] \notin White}
           first == CHOOSE i \in kept : \A j \in kept : i <= j
           last == CHOOSE i \in kept : \A j \in kept : i >= j
<1>1. CASE kept = {}
  BY <1>1 DEF Trimmed
<1>2. CASE kept # {}
  <2>1. kept \in SUBSET (1 .. Len(s)) /\ Len(s) \in Nat
    OBVIOUS
  <2> HIDE DEF kept
  <2>2. \E i \in kept : \A j \in kept : i <= j
    BY <1>2, <2>1, LeastNumber
  <2>3. \E i \in kept : \A j \in kept : i >= j
    <3> DEFINE over == {Len(s) - i : i \in kept}
    <3>1. over \in SUBSET Nat /\ over # {}
      <4>1. ASSUME NEW i \in kept PROVE Len(s) - i \in Nat
        <5>1. i \in Nat /\ i <= Len(s)
          BY <2>1
        <5>2. QED
          BY <2>1, <5>1
      <4>2. QED
        BY <1>2, <4>1
    <3>2. PICK m \in over : \A n \in over : m <= n
      <4> HIDE DEF over
      <4>1. QED
        BY <3>1, LeastNumber
    <3>3. PICK i \in kept : m = Len(s) - i
      BY <3>2
    <3>4. \A j \in kept : Len(s) - i <= Len(s) - j
      BY <3>2, <3>3
    <3>5. \A j \in kept : i >= j
      BY <2>1, <3>4
    <3>6. QED
      BY <3>5
  <2>4. first \in kept /\ last \in kept
    BY <2>2, <2>3
  <2>5. Trimmed(s) = SubSeq(s, first, last)
    BY <1>2 DEF Trimmed, kept
  <2> HIDE DEF first, last
  <2>6. first \in 1 .. Len(s) /\ last \in 1 .. Len(s)
    BY <2>1, <2>4
  <2>7. \A i \in first .. last : i \in 1 .. Len(s) /\ s[i] \in T
    BY <2>1, <2>6
  <2>8. QED
    BY <2>5, <2>6, <2>7, SubSeqProperties
<1>3. QED
  BY <1>1, <1>2

-----------------------------------------------------------------------------
(* Typed lines.                                                            *)

Ascii == 0 .. 127

LEMMA Wider ==
  ASSUME NEW S, NEW T, S \subseteq T, NEW s \in Seq(S)
  PROVE  s \in Seq(T)
<1>1. s = [i \in 1 .. Len(s) |-> s[i]] /\ Len(s) \in Nat /\ \A i \in 1 .. Len(s) : s[i] \in S
  OBVIOUS
<1>2. [i \in 1 .. Len(s) |-> s[i]] \in Seq(T)
  BY <1>1
<1>3. QED
  BY <1>1, <1>2

LEMMA EndingsAreBlank ==
  ASSUME NEW x \in DOMAIN Ending
  PROVE  Ending[x] \in Seq(White)
<1>1. x \in {"none", "lf", "crlf", "cr"}
  BY DEF Ending
<1>2. Lf \in White /\ Cr \in White
  BY DEF White
<1>3. <<>> \in Seq(White) /\ <<Lf>> \in Seq(White) /\ <<Cr, Lf>> \in Seq(White) /\ <<Cr>> \in Seq(White)
  <2> HIDE DEF White
  <2>1. QED
    BY <1>2
<1>4. /\ Ending["none"] = <<>> /\ Ending["lf"] = <<Lf>>
      /\ Ending["crlf"] = <<Cr, Lf>> /\ Ending["cr"] = <<Cr>>
  BY DEF Ending
<1>5. QED
  BY <1>1, <1>3, <1>4

\* The same digits are the same bytes.
LEMMA SameDigits ==
  ASSUME NEW s, NEW t, Solid(s) = Solid(t)
  PROVE  (Decodes(s) <=> Decodes(t)) /\ Decode(s) = Decode(t)
  BY DEF Decodes, Decode

\* What is typed never changes on its way.
LineTypes ==
  /\ way \in Way /\ ending \in DOMAIN Ending /\ (way = "marked" => ending = "none")
  /\ typed \in Seq(Ascii)

\* What a window or a terminal hands on.
Sent == IF way = "terminal" THEN WithEnding(typed) ELSE WindowData(Meant)
Sendable == way # "terminal" /\ HasPrefix(Meant) => Decodes(Meant)
TwiceRead == way = "attached" /\ HasPrefix(Meant) /\ HasPrefix(Decode(Meant))

\* Where the line is tells which text is there.
LineInv ==
  /\ LineTypes
  /\ holder = "typist" => ~twice
  /\ holder = "writer" =>
       /\ way \in {"terminal", "attached"} /\ Sendable /\ (TwiceRead => twice)
       /\ carried = Sent
  /\ holder = "engine" =>
       \/ /\ way \in {"terminal", "attached", "display"} /\ Sendable /\ (TwiceRead => twice)
          /\ \/ way # "display" /\ ~asHex /\ carried = Sent
             \/ way # "terminal" /\ asHex /\ carried = Encode(Sent)
       \/ way \in {"tool", "marked"} /\ carried = ToolData /\ (asHex <=> way = "marked")
  /\ TypedArrives

LEMMA TerminalIsText ==
  ASSUME LineTypes
  PROVE  Utf8(WithEnding(typed))
<1>1. typed \in Seq(Ascii) /\ Ending[ending] \in Seq(White)
  BY EndingsAreBlank DEF LineTypes
<1>2. White \subseteq Ascii
  BY DEF Ascii, White, Space, Lf, Cr
<1> DEFINE e == Ending[ending]
           q == typed \o e
<1> HIDE DEF e
<1>3. e \in Seq(Ascii)
  BY <1>1, <1>2, Wider DEF e
<1>4. q \in Seq(Ascii)
  BY <1>1, <1>3
<1>5. q = WithEnding(typed)
  BY DEF WithEnding, e
<1> HIDE DEF q
<1>6. \A i \in DOMAIN q : q[i] \in Ascii
  BY <1>4
<1>7. QED
  BY <1>5, <1>6 DEF Utf8, Ascii

LEMMA LineFacts ==
  ASSUME LineTypes
  PROVE  /\ Meant \in Seq(Ascii) /\ Meant \in Seq(Nat) /\ typed \in Seq(Nat)
         /\ Ending[ending] \in Seq(White)
         /\ WithEnding(Meant) \in Seq(Bytes) /\ WithEnding(typed) \in Seq(Bytes)
         /\ WithEnding(Meant) \in Seq(Nat) /\ WithEnding(typed) \in Seq(Nat)
<1>1. typed \in Seq(Ascii) /\ Meant \in Seq(Ascii)
  BY TrimmedType DEF LineTypes, Meant
<1>2. Ending[ending] \in Seq(White)
  BY EndingsAreBlank DEF LineTypes
<1>3. Ascii \subseteq Bytes /\ White \subseteq Bytes /\ Bytes \subseteq Nat
  BY DEF Ascii, Bytes, White, Space, Lf, Cr
<1>4. /\ typed \in Seq(Bytes) /\ Meant \in Seq(Bytes) /\ Ending[ending] \in Seq(Bytes)
      /\ typed \in Seq(Nat) /\ Meant \in Seq(Nat)
  <2> DEFINE t == typed
             m == Meant
             e == Ending[ending]
  <2>1. t \in Seq(Ascii) /\ m \in Seq(Ascii) /\ e \in Seq(White)
    BY <1>1, <1>2
  <2> HIDE DEF t, m, e
  <2>2. t \in Seq(Bytes) /\ m \in Seq(Bytes) /\ e \in Seq(Bytes)
    BY <1>3, <2>1, Wider
  <2>3. t \in Seq(Nat) /\ m \in Seq(Nat)
    BY <1>3, <2>2, Wider
  <2>4. QED
    BY <2>2, <2>3 DEF t, m, e
<1>5. WithEnding(Meant) \in Seq(Bytes) /\ WithEnding(typed) \in Seq(Bytes)
  <2>1. \A x, y \in Seq(Bytes) : x \o y \in Seq(Bytes)
    OBVIOUS
  <2>2. QED
    BY <1>4, <2>1 DEF WithEnding
<1>6. \A x \in Seq(Bytes) : x \in Seq(Nat)
  BY <1>3, Wider
<1>7. QED
  BY <1>1, <1>2, <1>4, <1>5, <1>6

\* The ending makes no digit and takes none.
LEMMA EndingKeeps ==
  ASSUME LineTypes, NEW s \in {typed, Meant}
  PROVE  /\ HasPrefix(WithEnding(s)) <=> HasPrefix(s)
         /\ Decodes(WithEnding(s)) <=> Decodes(s)
         /\ Decode(WithEnding(s)) = Decode(s)
<1>1. s \in Seq(Nat) /\ Ending[ending] \in Seq(White)
  BY LineFacts
<1>2. (HasPrefix(WithEnding(s)) <=> HasPrefix(s)) /\ Solid(WithEnding(s)) = Solid(s)
  BY <1>1, BlanksBehind DEF WithEnding
<1>3. QED
  BY <1>2, SameDigits

\* Digits decoded are all there; well formed ones always decode.
LEMMA LiteralArrives ==
  ASSUME LineTypes
  PROVE  /\ Decodes(Meant) => /\ Len(Decode(Meant)) * 2 = Len(Solid(Meant))
                              /\ Wellformed => Encode(Decode(Meant)) = Upper(Solid(Meant))
         /\ Wellformed => Decodes(Meant)
<1>1. Meant \in Seq(Nat)
  BY LineFacts
<1>2. Decodes(Meant) => Len(Decode(Meant)) * 2 = Len(Solid(Meant))
  BY <1>1, DecodeType
<1>3. Wellformed => Decodes(Meant) /\ Encode(Decode(Meant)) = Upper(Solid(Meant))
  BY <1>1, DecodeKeeps DEF Wellformed
<1>4. QED
  BY <1>2, <1>3

\* What a window sends is bytes, and has a prefix only when it was decoded.
LEMMA SentFacts ==
  ASSUME LineTypes, Sendable, way \in {"terminal", "attached", "display"}
  PROVE  /\ Sent \in Seq(Bytes) /\ Sent \in Seq(Nat)
         /\ way # "terminal" /\ HasPrefix(Meant) => Sent = Decode(Meant)
         /\ way # "terminal" /\ ~HasPrefix(Meant) => Sent = WithEnding(Meant) /\ ~HasPrefix(Sent)
<1>1. way = "terminal" \/ ~HasPrefix(Meant) => Sent \in Seq(Bytes)
  BY LineFacts DEF Sent, WindowData
<1>2. way # "terminal" /\ HasPrefix(Meant) => Sent = Decode(Meant) /\ Sent \in Seq(Bytes)
  BY LineFacts, DecodeType DEF Sent, WindowData, Sendable
<1>3. way # "terminal" /\ ~HasPrefix(Meant) => Sent = WithEnding(Meant) /\ ~HasPrefix(Sent)
  BY EndingKeeps DEF Sent, WindowData
<1>4. Bytes \subseteq Nat
  BY DEF Bytes
<1>5. Sent \in Seq(Bytes)
  BY <1>1, <1>2
<1>6. Sent \in Seq(Nat)
  BY <1>4, <1>5, Wider
<1>7. QED
  BY <1>2, <1>3, <1>5, <1>6

LEMMA TextKept ==
  ASSUME UNCHANGED <<way, typed, ending>>
  PROVE  /\ LineTypes' <=> LineTypes
         /\ Meant' = Meant /\ (Literal' <=> Literal) /\ (Wellformed' <=> Wellformed)
         /\ ToolData' = ToolData /\ Sent' = Sent /\ (Sendable' <=> Sendable)
         /\ (TwiceRead' <=> TwiceRead) /\ WithEnding(Meant)' = WithEnding(Meant)
<1>1. Meant' = Meant
  BY DEF Meant
<1>2. (LineTypes' <=> LineTypes) /\ ToolData' = ToolData /\ WithEnding(Meant)' = WithEnding(Meant)
  BY <1>1 DEF LineTypes, ToolData, WithEnding
<1>3. (Literal' <=> Literal) /\ (Wellformed' <=> Wellformed)
  BY <1>1 DEF Literal, Wellformed
<1>4. Sent' = Sent
  BY <1>1 DEF Sent, WindowData, WithEnding
<1>5. (Sendable' <=> Sendable) /\ (TwiceRead' <=> TwiceRead)
  BY <1>1 DEF Sendable, TwiceRead
<1>6. QED
  BY <1>1, <1>2, <1>3, <1>4, <1>5

LEMMA LineInit == TextInit => LineInv
<1> SUFFICES ASSUME TextInit PROVE LineInv
  OBVIOUS
<1>1. Alphabet \subseteq Ascii
  BY TextAssumption DEF Ascii
<1>2. \A p \in Marks : p \in Seq(Ascii)
  <2>1. /\ 48 \in Ascii /\ 120 \in Ascii /\ 88 \in Ascii
    BY DEF Ascii
  <2>2. <<>> \in Seq(Ascii) /\ <<48, 120>> \in Seq(Ascii) /\ <<48, 88>> \in Seq(Ascii)
    <3> HIDE DEF Ascii
    <3>1. QED
      BY <2>1
  <2>3. QED
    BY <2>2 DEF Marks
<1>3. \A w \in Words : w \in Seq(Ascii)
  <2> SUFFICES ASSUME NEW w \in Words PROVE w \in Seq(Ascii)
    OBVIOUS
  <2>1. PICK n \in 0 .. MaxTyped : w \in [1 .. n -> Alphabet]
    BY DEF Words
  <2>2. n \in Nat /\ w = [i \in 1 .. n |-> w[i]] /\ \A i \in 1 .. n : w[i] \in Ascii
    BY <1>1, <2>1
  <2>3. [i \in 1 .. n |-> w[i]] \in Seq(Ascii)
    BY <2>2
  <2>4. QED
    BY <2>2, <2>3
<1>4. typed \in Seq(Ascii)
  <2>1. PICK p \in Marks, w \in Words : typed = p \o w
    BY DEF TextInit
  <2>2. \A x, y \in Seq(Ascii) : x \o y \in Seq(Ascii)
    OBVIOUS
  <2>3. QED
    BY <1>2, <1>3, <2>1, <2>2
<1>5. LineTypes
  BY <1>4 DEF TextInit, LineTypes
<1>6. holder = "typist" /\ ~twice
  BY DEF TextInit
<1>7. QED
  BY <1>5, <1>6 DEF LineInv, TypedArrives

LEMMA TerminalLine ==
  ASSUME LineInv, TerminalSends
  PROVE  LineInv'
<1>1. UNCHANGED <<way, typed, ending>> /\ twice' = twice
  BY DEF TerminalSends
<1>2. way = "terminal" /\ holder' = "writer" /\ carried' = WithEnding(typed)
  BY DEF TerminalSends, Hand
<1>3. LineTypes /\ Sendable /\ ~TwiceRead /\ Sent = WithEnding(typed)
  BY <1>2 DEF LineInv, Sendable, TwiceRead, Sent
<1>4. LineTypes' /\ Sendable' /\ ~TwiceRead' /\ carried' = Sent'
  BY <1>1, <1>2, <1>3, TextKept
<1>5. QED
  BY <1>1, <1>2, <1>4 DEF LineInv, TypedArrives

LEMMA WindowLine ==
  ASSUME LineInv, WindowSends
  PROVE  LineInv'
<1>1. UNCHANGED <<way, typed, ending>>
  BY DEF WindowSends
<1>2. way \in {"attached", "display"} /\ holder = "typist" /\ Meant = Trimmed(typed)
  BY DEF WindowSends, Meant
<1>3. LineTypes /\ LineTypes' /\ ~twice
  BY <1>1, <1>2, TextKept DEF LineInv
<1>4. CASE HasPrefix(Meant) /\ ~Decodes(Meant)
  <2>1. holder' = "nobody"
    BY <1>2, <1>4 DEF WindowSends, Refuse
  <2>2. Literal /\ ~Wellformed
    BY <1>3, <1>4, LiteralArrives DEF Literal
  <2>3. QED
    BY <1>1, <1>3, <2>1, <2>2, TextKept DEF LineInv, TypedArrives
<1>5. CASE ~(HasPrefix(Meant) /\ ~Decodes(Meant))
  <2>1. /\ IF way = "attached" THEN Hand("writer", WindowData(Meant), FALSE)
           ELSE Hand("engine", Encode(WindowData(Meant)), TRUE)
        /\ twice' = (way = "attached" /\ HasPrefix(Meant) /\ HasPrefix(Decode(Meant)))
    BY <1>2, <1>5, Zenon DEF WindowSends
  <2>2. Sendable /\ Sent = WindowData(Meant)
    BY <1>2, <1>5 DEF Sendable, Sent
  <2>3. TwiceRead => twice'
    BY <2>1 DEF TwiceRead
  <2>4. Sendable' /\ (TwiceRead' => twice') /\ Sent' = WindowData(Meant)
    BY <1>1, <2>2, <2>3, TextKept
  <2>5. CASE way = "attached"
    <3>1. holder' = "writer" /\ carried' = Sent' /\ way' = "attached"
      BY <1>1, <2>1, <2>4, <2>5 DEF Hand
    <3>2. QED
      BY <1>3, <2>4, <3>1 DEF LineInv, TypedArrives
  <2>6. CASE way = "display"
    <3>1. holder' = "engine" /\ carried' = Encode(Sent') /\ asHex' /\ way' = "display"
      BY <1>1, <2>1, <2>4, <2>6 DEF Hand
    <3>2. QED
      BY <1>3, <2>4, <3>1 DEF LineInv, TypedArrives
  <2>7. QED
    BY <1>2, <2>5, <2>6
<1>6. QED
  BY <1>4, <1>5

LEMMA ToolLine ==
  ASSUME LineInv, ToolSends
  PROVE  LineInv'
<1>1. UNCHANGED <<way, typed, ending>>
  BY DEF ToolSends
<1>2. way \in {"tool", "marked"} /\ holder' = "engine" /\ carried' = ToolData /\ asHex' = (way = "marked")
  BY DEF ToolSends, Hand
<1>3. LineTypes' /\ carried' = ToolData'
  BY <1>1, <1>2, TextKept DEF LineInv
<1>4. QED
  BY <1>1, <1>2, <1>3 DEF LineInv, TypedArrives

LEMMA WriterLine ==
  ASSUME LineInv, WriterForwards
  PROVE  LineInv'
<1>1. UNCHANGED <<way, typed, ending>> /\ twice' = twice
  BY DEF WriterForwards
<1>2. /\ LineTypes /\ way \in {"terminal", "attached"} /\ Sendable /\ (TwiceRead => twice)
      /\ carried = Sent
  BY DEF WriterForwards, LineInv
<1>3. Sent \in Seq(Nat)
  BY <1>2, SentFacts
<1>4. /\ LineTypes' /\ way' \in {"terminal", "attached"} /\ Sendable' /\ (TwiceRead' => twice')
      /\ Sent' = Sent
  BY <1>1, <1>2, TextKept
<1>5. CASE Utf8(carried)
  <2>1. Lossy(carried) = carried
    <3>1. Lossy(carried) = [i \in DOMAIN carried |-> carried[i]]
      BY <1>5 DEF Lossy, Utf8
    <3>2. carried = [i \in DOMAIN carried |-> carried[i]]
      BY <1>2, <1>3
    <3>3. QED
      BY <3>1, <3>2
  <2>2. holder' = "engine" /\ carried' = Sent' /\ ~asHex'
    BY <1>2, <1>4, <1>5, <2>1 DEF WriterForwards, Hand
  <2>3. QED
    BY <1>4, <2>2 DEF LineInv, TypedArrives
<1>6. CASE ~Utf8(carried)
  <2>0. way # "terminal" /\ way' = way
    BY <1>1, <1>2, <1>6, TerminalIsText DEF Sent
  <2>1. holder' = "engine" /\ carried' = Encode(Sent') /\ asHex'
    BY <1>2, <1>4, <1>6 DEF WriterForwards, Hand
  <2>2. QED
    BY <1>4, <2>0, <2>1 DEF LineInv, TypedArrives
<1>7. QED
  BY <1>5, <1>6

\* What the daemon does with a line is what the line meant.
LEMMA EngineSays ==
  ASSUME LineInv, EngineWrites, ~twice
  PROVE  /\ holder' = "device" =>
              IF Literal THEN Decodes(Meant) /\ carried' = Decode(Meant)
              ELSE carried' = IF way = "tool" THEN ToolData ELSE WithEnding(Meant)
         /\ holder' = "nobody" => Literal /\ ~Decodes(Meant)
<1>1. LineTypes /\ holder = "engine"
  BY DEF LineInv, EngineWrites
<1>2. IF asHex \/ HasPrefix(carried)
      THEN IF Decodes(carried) THEN holder' = "device" /\ carried' = Decode(carried)
           ELSE holder' = "nobody"
      ELSE holder' = "device" /\ carried' = carried
  BY Zenon DEF EngineWrites, Hand, Refuse
<1>3. CASE /\ way \in {"terminal", "attached", "display"} /\ Sendable /\ ~TwiceRead
           /\ \/ way # "display" /\ ~asHex /\ carried = Sent
              \/ way # "terminal" /\ asHex /\ carried = Encode(Sent)
  <2>1. /\ Sent \in Seq(Bytes) /\ (Literal <=> HasPrefix(Meant))
        /\ IF way = "tool" THEN FALSE ELSE TRUE
    BY <1>1, <1>3, SentFacts DEF Literal
  <2>2. ASSUME way # "terminal", holder' = "device", carried' = Sent
        PROVE  IF Literal THEN Decodes(Meant) /\ carried' = Decode(Meant)
               ELSE carried' = WithEnding(Meant)
    BY <1>1, <1>3, <2>1, <2>2, SentFacts DEF Sendable
  <2>3. CASE way # "terminal" /\ asHex /\ carried = Encode(Sent)
    <3>1. holder' = "device" /\ carried' = Sent
      BY <1>2, <2>1, <2>3, EncodeKeeps
    <3>2. QED
      BY <2>1, <2>2, <2>3, <3>1
  <2>4. CASE way # "terminal" /\ ~asHex /\ carried = Sent
    <3>1. ~HasPrefix(Sent)
      BY <1>1, <1>3, <2>4, SentFacts DEF TwiceRead
    <3>2. holder' = "device" /\ carried' = Sent
      BY <1>2, <2>4, <3>1
    <3>3. QED
      BY <2>1, <2>2, <2>4, <3>2
  <2>5. CASE way = "terminal" /\ ~asHex
    <3>1. carried = WithEnding(typed) /\ Meant = typed
      BY <1>3, <2>5 DEF Sent, Meant
    <3>2. /\ HasPrefix(carried) <=> HasPrefix(Meant)
          /\ Decodes(carried) <=> Decodes(Meant)
          /\ Decode(carried) = Decode(Meant)
      BY <1>1, <3>1, EndingKeeps
    <3>3. QED
      BY <1>2, <2>1, <2>5, <3>1, <3>2
  <2>6. QED
    BY <1>3, <2>3, <2>4, <2>5
<1>4. CASE way \in {"tool", "marked"} /\ carried = ToolData /\ (asHex <=> way = "marked")
  <2>1. Meant = typed
    BY <1>4 DEF Meant
  <2>2. /\ HasPrefix(carried) <=> HasPrefix(Meant)
        /\ Decodes(carried) <=> Decodes(Meant)
        /\ Decode(carried) = Decode(Meant)
    BY <1>1, <1>4, <2>1, EndingKeeps DEF ToolData
  <2>3. way # "tool" => way = "marked" /\ asHex /\ Literal
    BY <1>4 DEF Literal
  <2>4. Literal <=> asHex \/ HasPrefix(carried)
    BY <1>4, <2>2 DEF Literal
  <2>5. QED
    BY <1>2, <1>4, <2>2, <2>3, <2>4
<1>5. QED
  BY <1>1, <1>3, <1>4 DEF LineInv

LEMMA EngineLine ==
  ASSUME LineInv, EngineWrites
  PROVE  LineInv'
<1>1. UNCHANGED <<way, typed, ending>> /\ twice' = twice
  BY DEF EngineWrites
<1>2. LineTypes /\ LineTypes' /\ holder' \in {"device", "nobody"}
  BY <1>1, TextKept DEF LineInv, EngineWrites, Hand, Refuse
<1>3. TypedArrives'
  <2>1. CASE twice
    BY <1>1, <2>1 DEF TypedArrives
  <2>2. CASE ~twice
    <3>1. /\ holder' = "device" =>
               IF Literal THEN Decodes(Meant) /\ carried' = Decode(Meant)
               ELSE carried' = IF way = "tool" THEN ToolData ELSE WithEnding(Meant)
          /\ holder' = "nobody" => Literal /\ ~Decodes(Meant)
      BY <2>2, EngineSays
    <3>2. /\ holder' = "device" =>
               IF Literal THEN /\ Len(carried') * 2 = Len(Solid(Meant))
                               /\ Wellformed => Encode(carried') = Upper(Solid(Meant))
               ELSE carried' = IF way = "tool" THEN ToolData ELSE WithEnding(Meant)
          /\ holder' = "nobody" => Literal /\ ~Wellformed
      BY <1>2, <3>1, LiteralArrives
    <3>3. /\ Meant' = Meant /\ (Literal' <=> Literal) /\ (Wellformed' <=> Wellformed)
          /\ ToolData' = ToolData /\ WithEnding(Meant)' = WithEnding(Meant) /\ way' = way
      BY <1>1, TextKept
    <3>4. QED
      BY <3>2, <3>3 DEF TypedArrives
  <2>3. QED
    BY <2>1, <2>2
<1>4. QED
  BY <1>2, <1>3 DEF LineInv

LEMMA LineStep ==
  ASSUME LineInv, [TextNext]_textVars
  PROVE  LineInv'
<1>1. CASE TerminalSends
  BY <1>1, TerminalLine
<1>2. CASE WindowSends
  BY <1>2, WindowLine
<1>3. CASE ToolSends
  BY <1>3, ToolLine
<1>4. CASE WriterForwards
  BY <1>4, WriterLine
<1>5. CASE EngineWrites
  BY <1>5, EngineLine
<1>6. CASE WriteAll \/ UNCHANGED textVars
  <2>1. UNCHANGED <<way, typed, ending, holder, carried, asHex, twice>>
    BY <1>6 DEF WriteAll, textVars
  <2>2. UNCHANGED <<way, typed, ending>>
    BY <2>1
  <2>3. /\ LineTypes' <=> LineTypes
        /\ Meant' = Meant /\ (Literal' <=> Literal) /\ (Wellformed' <=> Wellformed)
        /\ ToolData' = ToolData /\ Sent' = Sent /\ (Sendable' <=> Sendable)
        /\ (TwiceRead' <=> TwiceRead) /\ WithEnding(Meant)' = WithEnding(Meant)
    BY <2>2, TextKept
  <2>4. TypedArrives'
    BY <2>1, <2>3 DEF LineInv, TypedArrives
  <2>5. QED
    BY <2>1, <2>3, <2>4 DEF LineInv
<1>7. QED
  BY <1>1, <1>2, <1>3, <1>4, <1>5, <1>6 DEF TextNext

-----------------------------------------------------------------------------
(* Files read back.                                                        *)

\* A set that has 0, and with a number the next one, has all up to a bound.
LEMMA Reached ==
  ASSUME NEW N \in Nat, NEW S, 0 \in S, \A n \in 1 .. N : n - 1 \in S => n \in S
  PROVE  0 .. N \subseteq S
<1> DEFINE Missing == {n \in 0 .. N : n \notin S}
<1> SUFFICES ASSUME Missing # {} PROVE FALSE
  OBVIOUS
<1>1. Missing \in SUBSET Nat
  OBVIOUS
<1>2. PICK m \in Missing : \A n \in Missing : m <= n
  <2> HIDE DEF Missing
  <2>1. QED
    BY <1>1, LeastNumber
<1>3. m \in 0 .. N /\ m \notin S /\ m # 0
  OBVIOUS
<1>4. m \in 1 .. N /\ m - 1 \in 0 .. N /\ ~(m <= m - 1)
  BY <1>3
<1>5. m - 1 \in S
  BY <1>2, <1>4
<1>6. QED
  BY <1>3, <1>4, <1>5

\* A function can be defined by its value at 0 and by each value from the one before.
Steps(N, T) == [1 .. N -> [T -> T]]
Follows(f, N, T, b, step) ==
  f \in [0 .. N -> T] /\ f[0] = b /\ \A n \in 1 .. N : f[n] = step[n][f[n - 1]]

LEMMA Recursion ==
  ASSUME NEW N \in Nat, NEW T, NEW b \in T, NEW step \in Steps(N, T)
  PROVE  \E f : Follows(f, N, T, b, step)
<1> USE DEF Steps, Follows
<1> DEFINE Good(k, f) == Follows(f, k, T, b, step)
           S == {k \in 0 .. N : \E f : Good(k, f)}
<1>1. 0 \in S
  <2> DEFINE f == [n \in 0 .. 0 |-> b]
  <2>1. f \in [0 .. 0 -> T] /\ f[0] = b /\ 1 .. 0 = {}
    OBVIOUS
  <2>2. Good(0, f)
    BY <2>1
  <2>3. 0 \in 0 .. N /\ \E e : Good(0, e)
    <3> HIDE DEF f, Good
    <3>1. QED
      BY <2>2
  <2>4. QED
    BY <2>3
<1>2. ASSUME NEW k \in 1 .. N, k - 1 \in S PROVE k \in S
  <2>1. PICK f : Good(k - 1, f)
    BY <1>2
  <2> DEFINE g == [n \in 0 .. k |-> IF n = k THEN step[k][f[k - 1]] ELSE f[n]]
  <2>2. k \in Nat /\ k - 1 \in 0 .. k - 1 /\ k # 0 /\ 0 \in 0 .. k
    OBVIOUS
  <2>3. f[k - 1] \in T /\ step[k] \in [T -> T]
    BY <2>1, <2>2
  <2>4. step[k][f[k - 1]] \in T
    BY <2>3
  <2>5. g \in [0 .. k -> T]
    <3>1. \A n \in 0 .. k : n # k => n \in 0 .. k - 1
      OBVIOUS
    <3>2. QED
      BY <2>1, <2>4, <3>1
  <2>6. g[0] = b
    BY <2>1, <2>2
  <2>7. ASSUME NEW n \in 1 .. k PROVE g[n] = step[n][g[n - 1]]
    <3>1. n \in 0 .. k /\ n - 1 \in 0 .. k /\ n - 1 # k
      OBVIOUS
    <3>2. g[n - 1] = f[n - 1]
      BY <3>1
    <3>3. CASE n = k
      BY <3>1, <3>2, <3>3
    <3>4. CASE n # k
      <4>1. n \in 1 .. k - 1
        BY <3>4
      <4>2. QED
        BY <2>1, <3>1, <3>2, <3>4, <4>1
    <3>5. QED
      BY <3>3, <3>4
  <2> HIDE DEF g
  <2>8. Good(k, g)
    BY <2>5, <2>6, <2>7
  <2>9. k \in 0 .. N
    OBVIOUS
  <2>10. QED
    BY <2>8, <2>9
<1> HIDE DEF S
<1>3. 0 .. N \subseteq S
  BY <1>1, <1>2, Reached
<1>4. N \in S
  BY <1>3
<1>5. QED
  BY <1>4 DEF S

\* The pieces are put together one by one.
LEMMA JoinedIs ==
  ASSUME NEW pieces \in Seq(Seq(Nat))
  PROVE  \E f \in [0 .. Len(pieces) -> Seq(Nat)] :
           /\ f[0] = <<>> /\ f[Len(pieces)] = Joined(pieces)
           /\ \A n \in 1 .. Len(pieces) : f[n] = f[n - 1] \o pieces[n]
<1> DEFINE N == Len(pieces)
           Is(f) == f = [n \in 0 .. N |-> IF n = 0 THEN <<>> ELSE f[n - 1] \o pieces[n]]
           g == CHOOSE f : Is(f)
           T == Seq(Nat)
           step == [n \in 1 .. N |-> [t \in T |-> t \o pieces[n]]]
<1>1. N \in Nat /\ \A n \in 1 .. N : pieces[n] \in T
  OBVIOUS
<1>2. \A t, u \in T : t \o u \in T
  OBVIOUS
<1>3. <<>> \in T
  OBVIOUS
<1>4. Joined(pieces) = g[N]
  BY Zenon DEF Joined
<1> HIDE DEF N, T
<1>5. step \in Steps(N, T)
  BY <1>1, <1>2 DEF Steps
<1>6. \A n \in 1 .. N : \A t \in T : step[n][t] = t \o pieces[n]
  OBVIOUS
<1> HIDE DEF step
<1>7. PICK f : Follows(f, N, T, <<>>, step)
  BY <1>1, <1>3, <1>5, Recursion, Zenon
<1>8. \A n \in 0 .. N : f[n] = IF n = 0 THEN <<>> ELSE f[n - 1] \o pieces[n]
  <2>1. \A n \in 0 .. N : n # 0 => n \in 1 .. N /\ n - 1 \in 0 .. N
    BY <1>1
  <2>2. QED
    BY <1>6, <1>7, <2>1 DEF Follows
<1>9. Is(f)
  BY <1>7, <1>8 DEF Follows
<1>10. Is(g)
  BY <1>9, Zenon
<1> HIDE DEF g
<1>11. DOMAIN g = 0 .. N /\ \A n \in 0 .. N : g[n] = IF n = 0 THEN <<>> ELSE g[n - 1] \o pieces[n]
  BY <1>10
<1> DEFINE S == {n \in 0 .. N : g[n] \in T}
<1>12. 0 .. N \subseteq S
  <2>1. 0 \in S
    <3>1. 0 \in 0 .. N
      BY <1>1
    <3>2. g[0] = <<>>
      BY <1>11, <3>1
    <3>3. QED
      BY <1>3, <3>1, <3>2
  <2>2. ASSUME NEW n \in 1 .. N, n - 1 \in S PROVE n \in S
    <3>1. n \in 0 .. N /\ n # 0
      BY <1>1
    <3>2. g[n] = g[n - 1] \o pieces[n] /\ g[n - 1] \in T
      BY <1>11, <2>2, <3>1
    <3>3. QED
      BY <1>1, <1>2, <3>1, <3>2
  <2> HIDE DEF S
  <2>3. QED
    BY <1>1, <2>1, <2>2, Reached
<1>13. g \in [0 .. N -> T]
  <2>1. \A n \in 0 .. N : g[n] \in T
    BY <1>12
  <2>2. g = [n \in 0 .. N |-> g[n]]
    BY <1>10
  <2>3. QED
    BY <2>1, <2>2
<1>14. g[0] = <<>> /\ \A n \in 1 .. N : g[n] = g[n - 1] \o pieces[n]
  <2>1. 0 \in 0 .. N /\ \A n \in 1 .. N : n \in 0 .. N /\ n # 0
    BY <1>1
  <2>2. QED
    BY <1>11, <2>1
<1>15. QED
  BY <1>4, <1>13, <1>14 DEF N, T

\* What a reader of a file knows.
ReaderState == [in : BOOLEAN, half : BOOLEAN, field : Seq(Nat), read : Seq(Seq(Nat))]

LEMMA ReaderType ==
  ASSUME NEW s \in ReaderState, NEW c \in Nat
  PROVE  Reader(s, c) \in ReaderState
<1>1. Append(s.field, c) \in Seq(Nat) /\ Append(s.read, s.field) \in Seq(Seq(Nat)) /\ <<>> \in Seq(Nat)
  BY DEF ReaderState
<1>2. CASE s.in /\ c = Quote
  BY <1>2 DEF Reader, ReaderState
<1>3. CASE s.in /\ c # Quote
  BY <1>1, <1>3 DEF Reader, ReaderState
<1>4. CASE ~s.in /\ c = Quote
  BY <1>1, <1>4 DEF Reader, ReaderState
<1>5. CASE ~s.in /\ c # Quote /\ c = Lf
  BY <1>1, <1>5 DEF Reader, ReaderState
<1>6. CASE ~s.in /\ c # Quote /\ c # Lf
  BY <1>6 DEF Reader, ReaderState
<1>7. s.in \in BOOLEAN
  BY DEF ReaderState
<1>8. QED
  BY <1>2, <1>3, <1>4, <1>5, <1>6, <1>7

\* The characters are read one by one.
LEMMA ReadOnIs ==
  ASSUME NEW begun \in ReaderState, NEW chars \in Seq(Nat)
  PROVE  \E f \in [0 .. Len(chars) -> ReaderState] :
           /\ f[0] = begun /\ f[Len(chars)] = ReadOn(begun, chars)
           /\ \A n \in 1 .. Len(chars) : f[n] = Reader(f[n - 1], chars[n])
<1> DEFINE N == Len(chars)
           Is(f) == f = [n \in 0 .. N |-> IF n = 0 THEN begun ELSE Reader(f[n - 1], chars[n])]
           g == CHOOSE f : Is(f)
           T == ReaderState
           step == [n \in 1 .. N |-> [t \in T |-> Reader(t, chars[n])]]
<1>1. N \in Nat /\ \A n \in 1 .. N : chars[n] \in Nat
  OBVIOUS
<1>2. \A t \in T : \A n \in 1 .. N : Reader(t, chars[n]) \in T
  BY <1>1, ReaderType
<1>4. ReadOn(begun, chars) = g[N]
  BY Zenon DEF ReadOn
<1> HIDE DEF N
<1>5. step \in Steps(N, T)
  BY <1>2 DEF Steps
<1>6. \A n \in 1 .. N : \A t \in T : step[n][t] = Reader(t, chars[n])
  OBVIOUS
<1> HIDE DEF step
<1>7. PICK f : Follows(f, N, T, begun, step)
  <2> HIDE DEF T
  <2>1. begun \in T
    BY DEF T
  <2>2. QED
    BY <1>1, <1>5, <2>1, Recursion, Zenon
<1>8. \A n \in 0 .. N : f[n] = IF n = 0 THEN begun ELSE Reader(f[n - 1], chars[n])
  <2>1. \A n \in 0 .. N : n # 0 => n \in 1 .. N /\ n - 1 \in 0 .. N
    BY <1>1
  <2>2. QED
    BY <1>6, <1>7, <2>1 DEF Follows
<1>9. Is(f)
  BY <1>7, <1>8 DEF Follows
<1>10. Is(g)
  BY <1>9, Zenon
<1> HIDE DEF g
<1>11. DOMAIN g = 0 .. N /\ \A n \in 0 .. N : g[n] = IF n = 0 THEN begun ELSE Reader(g[n - 1], chars[n])
  BY <1>10
<1> DEFINE S == {n \in 0 .. N : g[n] \in T}
<1>12. 0 .. N \subseteq S
  <2>1. 0 \in S
    BY <1>1, <1>11
  <2>2. ASSUME NEW n \in 1 .. N, n - 1 \in S PROVE n \in S
    <3>1. n \in 0 .. N /\ n # 0
      BY <1>1
    <3>2. g[n] = Reader(g[n - 1], chars[n]) /\ g[n - 1] \in T
      BY <1>11, <2>2, <3>1
    <3>3. QED
      BY <1>2, <3>1, <3>2
  <2> HIDE DEF S
  <2>3. QED
    BY <1>1, <2>1, <2>2, Reached
<1>13. g \in [0 .. N -> T]
  <2>1. \A n \in 0 .. N : g[n] \in T
    BY <1>12
  <2>2. g = [n \in 0 .. N |-> g[n]]
    BY <1>10
  <2>3. QED
    BY <2>1, <2>2
<1>14. g[0] = begun /\ \A n \in 1 .. N : g[n] = Reader(g[n - 1], chars[n])
  <2>1. 0 \in 0 .. N /\ \A n \in 1 .. N : n \in 0 .. N /\ n # 0
    BY <1>1
  <2>2. QED
    BY <1>11, <2>1
<1>15. QED
  BY <1>4, <1>13, <1>14 DEF N

Alike(f, g, n) == f[n] = g[n]

LEMMA SameRun ==
  ASSUME NEW N \in Nat, NEW f, NEW g, Alike(f, g, 0),
         \A n \in 1 .. N : Alike(f, g, n - 1) => Alike(f, g, n)
  PROVE  \A n \in 0 .. N : Alike(f, g, n)
<1> DEFINE S == {n \in 0 .. N : Alike(f, g, n)}
<1>1. 0 \in S
  OBVIOUS
<1>2. \A n \in 1 .. N : n - 1 \in S => n \in S
  OBVIOUS
<1> HIDE DEF S
<1>3. 0 .. N \subseteq S
  BY <1>1, <1>2, Reached
<1>4. QED
  BY <1>3 DEF S

LEMMA ReadOnType ==
  ASSUME NEW begun \in ReaderState, NEW chars \in Seq(Nat)
  PROVE  ReadOn(begun, chars) \in ReaderState
<1>1. PICK f \in [0 .. Len(chars) -> ReaderState] : f[Len(chars)] = ReadOn(begun, chars)
  BY ReadOnIs
<1>2. Len(chars) \in 0 .. Len(chars)
  OBVIOUS
<1>3. QED
  BY <1>1, <1>2

\* Nothing changes nothing, and one character is read as it is.
LEMMA ReadOnFew ==
  ASSUME NEW begun \in ReaderState, NEW c \in Nat
  PROVE  ReadOn(begun, <<>>) = begun /\ ReadOn(begun, <<c>>) = Reader(begun, c)
<1>2. ReadOn(begun, <<>>) = begun
  <2> DEFINE e == <<>>
  <2>1. e \in Seq(Nat) /\ Len(e) = 0
    OBVIOUS
  <2> HIDE DEF e
  <2>2. ReadOn(begun, e) = begun
    <3>1. PICK f \in [0 .. Len(e) -> ReaderState] :
            f[0] = begun /\ f[Len(e)] = ReadOn(begun, e)
      BY <2>1, ReadOnIs
    <3>2. QED
      BY <2>1, <3>1
  <2>3. QED
    BY <2>2 DEF e
<1> DEFINE q == <<c>>
<1>3. q \in Seq(Nat) /\ Len(q) = 1 /\ q[1] = c
  OBVIOUS
<1> HIDE DEF q
<1>4. PICK f \in [0 .. Len(q) -> ReaderState] :
        /\ f[0] = begun /\ f[Len(q)] = ReadOn(begun, q)
        /\ \A n \in 1 .. Len(q) : f[n] = Reader(f[n - 1], q[n])
  BY <1>3, ReadOnIs
<1>5. f[1] = Reader(f[1 - 1], c) /\ 1 - 1 = 0
  BY <1>3, <1>4
<1>6. ReadOn(begun, q) = Reader(begun, c)
  BY <1>3, <1>4, <1>5
<1>7. QED
  BY <1>2, <1>6 DEF q

\* A text in two parts is read one after the other.
LEMMA ReadOnConcat ==
  ASSUME NEW begun \in ReaderState, NEW x \in Seq(Nat), NEW y \in Seq(Nat)
  PROVE  ReadOn(begun, x \o y) = ReadOn(ReadOn(begun, x), y)
<1> DEFINE q == x \o y
           m == Len(x)
           n == Len(y)
<1>1. m \in Nat /\ n \in Nat /\ q \in Seq(Nat) /\ Len(q) = m + n
      /\ \A i \in 1 .. m + n : q[i] = IF i <= m THEN x[i] ELSE y[i - m]
  BY ConcatProperties
<1>2. ReadOn(begun, x) \in ReaderState
  BY ReadOnType
<1>3. PICK f \in [0 .. Len(q) -> ReaderState] :
        /\ f[0] = begun /\ f[Len(q)] = ReadOn(begun, q)
        /\ \A i \in 1 .. Len(q) : f[i] = Reader(f[i - 1], q[i])
  <2> HIDE DEF q
  <2>1. QED
    BY <1>1, ReadOnIs
<1>4. PICK g : /\ g[0] = begun /\ g[Len(x)] = ReadOn(begun, x)
               /\ \A i \in 1 .. Len(x) : g[i] = Reader(g[i - 1], x[i])
  BY ReadOnIs
<1>5. PICK h : /\ h[0] = ReadOn(begun, x) /\ h[Len(y)] = ReadOn(ReadOn(begun, x), y)
               /\ \A i \in 1 .. Len(y) : h[i] = Reader(h[i - 1], y[i])
  BY <1>2, ReadOnIs
<1> HIDE DEF q
<1>6. f[m] = g[m]
  <2>1. ASSUME NEW i \in 1 .. m, f[i - 1] = g[i - 1] PROVE f[i] = g[i]
    <3>1. i \in 1 .. m + n /\ i <= m
      BY <1>1
    <3>2. q[i] = x[i]
      BY <1>1, <3>1
    <3>3. f[i] = Reader(f[i - 1], x[i])
      BY <1>1, <1>3, <3>1, <3>2
    <3>4. g[i] = Reader(g[i - 1], x[i])
      BY <1>4
    <3>5. QED
      BY <2>1, <3>3, <3>4
  <2>2. \A i \in 0 .. m : f[i] = g[i]
    <3> HIDE DEF m
    <3>1. Alike(f, g, 0) /\ \A i \in 1 .. m : Alike(f, g, i - 1) => Alike(f, g, i)
      BY <1>3, <1>4, <2>1 DEF Alike
    <3>2. \A i \in 0 .. m : Alike(f, g, i)
      BY <1>1, <3>1, SameRun
    <3>3. QED
      BY <3>2 DEF Alike
  <2>3. QED
    BY <1>1, <2>2
<1> DEFINE u == [i \in 0 .. n |-> f[m + i]]
<1>7. u[n] = h[n]
  <2>1. ASSUME NEW i \in 1 .. n, u[i - 1] = h[i - 1] PROVE u[i] = h[i]
    <3>1. m + i \in 1 .. m + n /\ ~(m + i <= m) /\ m + i - m = i /\ m + i - 1 = m + (i - 1)
          /\ i \in 0 .. n /\ i - 1 \in 0 .. n
      BY <1>1
    <3>2. q[m + i] = y[i]
      BY <1>1, <3>1
    <3>3. f[m + i] = Reader(f[m + (i - 1)], y[i])
      <4>1. m + i \in 1 .. Len(q)
        BY <1>1, <3>1
      <4>2. f[m + i] = Reader(f[m + i - 1], q[m + i])
        BY <1>3, <4>1
      <4>3. QED
        BY <3>1, <3>2, <4>2
    <3>4. h[i] = Reader(h[i - 1], y[i])
      BY <1>5
    <3>5. u[i] = f[m + i] /\ u[i - 1] = f[m + (i - 1)]
      BY <3>1
    <3>6. QED
      BY <2>1, <3>3, <3>4, <3>5
  <2>2. u[0] = h[0]
    BY <1>1, <1>4, <1>5, <1>6
  <2>3. \A i \in 0 .. n : u[i] = h[i]
    <3> HIDE DEF n, u
    <3>1. Alike(u, h, 0) /\ \A i \in 1 .. n : Alike(u, h, i - 1) => Alike(u, h, i)
      BY <2>1, <2>2 DEF Alike
    <3>2. \A i \in 0 .. n : Alike(u, h, i)
      BY <1>1, <3>1, SameRun
    <3>3. QED
      BY <3>2 DEF Alike
  <2>4. n \in 0 .. n
    BY <1>1
  <2> HIDE DEF n, u
  <2>5. QED
    BY <2>3, <2>4
<1>8. u[n] = f[m + n]
  <2>1. n \in 0 .. n
    BY <1>1
  <2> HIDE DEF n
  <2>2. QED
    BY <2>1
<1>9. QED
  BY <1>1, <1>3, <1>5, <1>7, <1>8 DEF q

\* If every piece takes a reader from one state to the next, the pieces together
\* take it from the first to the last.
LEMMA JoinedRead ==
  ASSUME NEW pieces \in Seq(Seq(Nat)), NEW st \in [0 .. Len(pieces) -> ReaderState],
         \A n \in 1 .. Len(pieces) : ReadOn(st[n - 1], pieces[n]) = st[n]
  PROVE  Joined(pieces) \in Seq(Nat) /\ ReadOn(st[0], Joined(pieces)) = st[Len(pieces)]
<1> DEFINE N == Len(pieces)
<1>1. N \in Nat /\ 0 \in 0 .. N /\ N \in 0 .. N /\ \A n \in 1 .. N : pieces[n] \in Seq(Nat)
  OBVIOUS
<1>2. PICK f \in [0 .. N -> Seq(Nat)] :
        /\ f[0] = <<>> /\ f[N] = Joined(pieces)
        /\ \A n \in 1 .. N : f[n] = f[n - 1] \o pieces[n]
  BY JoinedIs
<1> HIDE DEF N
<1> DEFINE S == {n \in 0 .. N : ReadOn(st[0], f[n]) = st[n]}
<1>3. st[0] \in ReaderState
  BY <1>1 DEF N
<1>4. 0 \in S
  <2>1. ReadOn(st[0], <<>>) = st[0]
    BY <1>3, ReadOnFew
  <2>2. QED
    BY <1>1, <1>2, <2>1
<1>5. ASSUME NEW n \in 1 .. N, n - 1 \in S PROVE n \in S
  <2>1. n \in 0 .. N /\ n - 1 \in 0 .. N
    BY <1>1
  <2>2. ReadOn(st[0], f[n]) = ReadOn(ReadOn(st[0], f[n - 1]), pieces[n])
    <3>1. f[n - 1] \in Seq(Nat) /\ f[n] = f[n - 1] \o pieces[n]
      BY <1>2, <2>1
    <3>2. QED
      BY <1>1, <1>3, <3>1, ReadOnConcat
  <2>3. ReadOn(st[0], f[n - 1]) = st[n - 1]
    BY <1>5
  <2>4. ReadOn(st[n - 1], pieces[n]) = st[n]
    BY DEF N
  <2>5. QED
    BY <2>1, <2>2, <2>3, <2>4
<1> HIDE DEF S
<1>6. N \in S
  BY <1>1, <1>4, <1>5, Reached
<1>7. QED
  BY <1>1, <1>2, <1>6 DEF S, N

LEMMA PrefixGrows ==
  ASSUME NEW T, NEW q \in Seq(T)
  PROVE  /\ \A n \in 0 .. Len(q) : SubSeq(q, 1, n) \in Seq(T)
         /\ SubSeq(q, 1, 0) = <<>> /\ SubSeq(q, 1, Len(q)) = q
         /\ \A n \in 1 .. Len(q) : SubSeq(q, 1, n) = Append(SubSeq(q, 1, n - 1), q[n])
<1> DEFINE p(n) == SubSeq(q, 1, n)
<1>1. Len(q) \in Nat /\ \A i \in 1 .. Len(q) : q[i] \in T
  OBVIOUS
<1>2. ASSUME NEW n \in 0 .. Len(q)
      PROVE  p(n) \in Seq(T) /\ Len(p(n)) = n /\ \A i \in 1 .. n : p(n)[i] = q[i]
  <2>1. n \in Nat /\ \A i \in 1 .. n : i \in 1 .. Len(q) /\ q[i] \in T
    BY <1>1
  <2>2. /\ p(n) \in Seq(T) /\ Len(p(n)) = (IF 1 <= n THEN n - 1 + 1 ELSE 0)
        /\ \A i \in 1 .. n - 1 + 1 : p(n)[i] = q[1 + i - 1]
    BY <2>1, SubSeqProperties
  <2> HIDE DEF p
  <2>3. (IF 1 <= n THEN n - 1 + 1 ELSE 0) = n /\ n - 1 + 1 = n /\ \A i \in 1 .. n : 1 + i - 1 = i
    BY <2>1
  <2>4. QED
    BY <2>2, <2>3
<1> HIDE DEF p
<1>3. p(0) = <<>>
  <2>1. p(0) \in Seq(T) /\ Len(p(0)) = 0
    BY <1>1, <1>2
  <2>2. QED
    BY <2>1
<1>4. p(Len(q)) = q
  <2>1. Len(q) \in 0 .. Len(q)
    BY <1>1
  <2>2. QED
    BY <1>2, <2>1, SeqEqual
<1>5. ASSUME NEW n \in 1 .. Len(q) PROVE p(n) = Append(p(n - 1), q[n])
  <2>1. n \in 0 .. Len(q) /\ n - 1 \in 0 .. Len(q) /\ n \in Nat /\ n - 1 + 1 = n
    BY <1>1
  <2>2. /\ p(n) \in Seq(T) /\ Len(p(n)) = n /\ \A i \in 1 .. n : p(n)[i] = q[i]
        /\ p(n - 1) \in Seq(T) /\ Len(p(n - 1)) = n - 1 /\ \A i \in 1 .. n - 1 : p(n - 1)[i] = q[i]
    BY <1>2, <2>1
  <2> DEFINE a == p(n - 1)
             b == Append(a, q[n])
  <2> HIDE DEF a
  <2>3. a \in Seq(T) /\ Len(a) = n - 1 /\ q[n] \in T /\ \A i \in 1 .. n - 1 : a[i] = q[i]
    BY <1>1, <2>2 DEF a
  <2>4. b \in Seq(T) /\ Len(b) = n /\ b[n] = q[n] /\ \A i \in 1 .. n - 1 : b[i] = a[i]
    BY <2>1, <2>3
  <2> HIDE DEF b
  <2>5. \A i \in 1 .. n : p(n)[i] = b[i]
    <3>1. \A i \in 1 .. n : i = n \/ i \in 1 .. n - 1
      BY <2>1
    <3>2. QED
      BY <2>2, <2>3, <2>4, <3>1
  <2>6. p(n) = b
    BY <2>2, <2>4, <2>5, SeqEqual
  <2>7. QED
    BY <2>6 DEF a, b
<1>6. QED
  BY <1>2, <1>3, <1>4, <1>5 DEF p

\* In a field, and between two rows.
Within(field, read) == [in |-> TRUE, half |-> FALSE, field |-> field, read |-> read]
Between(read) == [in |-> FALSE, half |-> FALSE, field |-> <<>>, read |-> read]

LEMMA WithinType ==
  ASSUME NEW w \in Seq(Nat), NEW r \in Seq(Seq(Nat))
  PROVE  Within(w, r) \in ReaderState /\ Between(r) \in ReaderState
  BY DEF Within, Between, ReaderState

\* A quote behind a quote belongs to the field.
LEMMA QuoteReopens ==
  ASSUME NEW s \in ReaderState, ~s.in, s.half
  PROVE  Reader(s, Quote) =
           [in |-> TRUE, half |-> FALSE, field |-> Append(s.field, Quote), read |-> s.read]
<1> DEFINE f == IF s.half THEN Append(s.field, Quote) ELSE <<>>
           t == [s EXCEPT !.in = TRUE, !.half = FALSE, !.field = f]
           c == Quote
<1>1. f = Append(s.field, Quote) /\ Quote # Lf /\ Quote \in Nat
  BY DEF Quote, Lf
<1>2. Reader(s, c) = t
  <2>1. c = Quote /\ c # Lf
    BY <1>1
  <2> HIDE DEF c
  <2>2. QED
    BY <2>1 DEF Reader
<1> HIDE DEF f
<1>3. t.in = TRUE /\ t.half = FALSE /\ t.field = f /\ t.read = s.read
  <2>1. t.in = TRUE
    BY DEF ReaderState
  <2>2. t.half = FALSE
    BY DEF ReaderState
  <2>3. t.field = f
    BY DEF ReaderState
  <2>4. t.read = s.read
    BY DEF ReaderState
  <2>5. QED
    BY <2>1, <2>2, <2>3, <2>4
<1>4. t \in ReaderState
  BY <1>1, <1>2, ReaderType
<1> HIDE DEF t
<1> DEFINE u == [in |-> TRUE, half |-> FALSE, field |-> Append(s.field, Quote), read |-> s.read]
<1>5. u \in ReaderState
  <2>1. Append(s.field, Quote) \in Seq(Nat) /\ s.read \in Seq(Seq(Nat))
    BY <1>1 DEF ReaderState
  <2>2. QED
    BY <2>1 DEF ReaderState
<1>6. t = u
  BY <1>1, <1>3, <1>4, <1>5 DEF ReaderState
<1>7. QED
  BY <1>2, <1>6

\* A character of a payload is read as it is, a quote that was doubled as one.
Doubled(c) == IF c = Quote THEN <<Quote, Quote>> ELSE <<c>>

LEMMA PieceRead ==
  ASSUME NEW w \in Seq(Nat), NEW r \in Seq(Seq(Nat)), NEW c \in Nat
  PROVE  ReadOn(Within(w, r), Doubled(c)) = Within(Append(w, c), r)
<1>1. CASE c # Quote
  <2>1. ReadOn(Within(w, r), <<c>>) = Reader(Within(w, r), c)
    BY WithinType, ReadOnFew
  <2>2. Reader(Within(w, r), c) = Within(Append(w, c), r)
    BY <1>1 DEF Reader, Within
  <2>3. QED
    BY <1>1, <2>1, <2>2 DEF Doubled
<1>2. CASE c = Quote
  <2> DEFINE half == [in |-> FALSE, half |-> TRUE, field |-> w, read |-> r]
  <2>1. Reader(Within(w, r), Quote) = half
    BY DEF Reader, Within
  <2>2. half \in ReaderState /\ Quote \in Nat
    BY DEF ReaderState, Quote
  <2>3. Reader(half, Quote) = Within(Append(w, Quote), r)
    <3>1. half.half /\ ~half.in /\ half.field = w /\ half.read = r
      OBVIOUS
    <3> HIDE DEF half
    <3>2. QED
      BY <2>2, <3>1, QuoteReopens DEF Within
  <2> HIDE DEF half
  <2>4. <<Quote>> \in Seq(Nat) /\ <<Quote, Quote>> = <<Quote>> \o <<Quote>>
    BY <2>2
  <2>5. ReadOn(Within(w, r), <<Quote>> \o <<Quote>>) = ReadOn(ReadOn(Within(w, r), <<Quote>>), <<Quote>>)
    BY <2>4, WithinType, ReadOnConcat
  <2>6. ReadOn(Within(w, r), <<Quote>>) = half /\ ReadOn(half, <<Quote>>) = Within(Append(w, Quote), r)
    BY <2>1, <2>2, <2>3, WithinType, ReadOnFew
  <2>7. QED
    BY <1>2, <2>4, <2>5, <2>6 DEF Doubled
<1>3. QED
  BY <1>1, <1>2

LEMMA EscapedRead ==
  ASSUME NEW p \in Seq(Nat), NEW r \in Seq(Seq(Nat))
  PROVE  Escaped(p) \in Seq(Nat) /\ ReadOn(Within(<<>>, r), Escaped(p)) = Within(p, r)
<1> DEFINE N == Len(p)
           pieces == [i \in 1 .. N |-> Doubled(p[i])]
           st == [n \in 0 .. N |-> Within(SubSeq(p, 1, n), r)]
<1>1. N \in Nat /\ DOMAIN p = 1 .. N /\ \A i \in 1 .. N : p[i] \in Nat
  OBVIOUS
<1>2. Escaped(p) = Joined(pieces)
  BY <1>1 DEF Escaped, Doubled
<1> HIDE DEF N
<1>3. \A c \in Nat : Doubled(c) \in Seq(Nat)
  <2>1. \A c \in Nat : <<c>> \in Seq(Nat) /\ <<Quote, Quote>> \in Seq(Nat)
    BY DEF Quote
  <2>2. QED
    BY <2>1 DEF Doubled
<1>4. pieces \in Seq(Seq(Nat)) /\ Len(pieces) = N
  <2>1. \A i \in 1 .. N : Doubled(p[i]) \in Seq(Nat)
    BY <1>1, <1>3
  <2> DEFINE T == Seq(Nat)
  <2> HIDE DEF T
  <2>2. \A i \in 1 .. N : Doubled(p[i]) \in T
    BY <2>1 DEF T
  <2>3. pieces \in Seq(T) /\ Len(pieces) = N
    BY <1>1, <2>2
  <2>4. QED
    BY <2>3 DEF T
<1>5. \A n \in 0 .. N : SubSeq(p, 1, n) \in Seq(Nat)
  BY PrefixGrows DEF N
<1>6. st \in [0 .. N -> ReaderState]
  BY <1>5, WithinType
<1>7. ASSUME NEW n \in 1 .. N PROVE ReadOn(st[n - 1], pieces[n]) = st[n]
  <2>1. n \in 0 .. N /\ n - 1 \in 0 .. N /\ p[n] \in Nat
    BY <1>1
  <2>2. SubSeq(p, 1, n) = Append(SubSeq(p, 1, n - 1), p[n])
    BY PrefixGrows DEF N
  <2>3. SubSeq(p, 1, n - 1) \in Seq(Nat)
    BY <1>5, <2>1
  <2>4. ReadOn(Within(SubSeq(p, 1, n - 1), r), Doubled(p[n])) = Within(Append(SubSeq(p, 1, n - 1), p[n]), r)
    BY <2>1, <2>3, PieceRead
  <2>5. st[n - 1] = Within(SubSeq(p, 1, n - 1), r) /\ st[n] = Within(SubSeq(p, 1, n), r) /\ pieces[n] = Doubled(p[n])
    BY <2>1
  <2>6. QED
    BY <2>2, <2>4, <2>5
<1> HIDE DEF pieces, st
<1>8. Joined(pieces) \in Seq(Nat) /\ ReadOn(st[0], Joined(pieces)) = st[N]
  <2>1. st \in [0 .. Len(pieces) -> ReaderState]
        /\ \A n \in 1 .. Len(pieces) : ReadOn(st[n - 1], pieces[n]) = st[n]
    BY <1>4, <1>6, <1>7
  <2>2. QED
    BY <1>4, <2>1, JoinedRead
<1>9. st[0] = Within(<<>>, r) /\ st[N] = Within(p, r)
  <2>1. SubSeq(p, 1, 0) = <<>> /\ SubSeq(p, 1, N) = p
    BY PrefixGrows DEF N
  <2>2. 0 \in 0 .. N /\ N \in 0 .. N
    BY <1>1
  <2>3. QED
    BY <2>1, <2>2 DEF st
<1>10. QED
  BY <1>2, <1>8, <1>9

Recorded == records \in Seq(Seq(Nat))

LEMMA RowRead ==
  ASSUME Recorded, NEW n \in 1 .. Len(records), NEW r \in Seq(Seq(Nat))
  PROVE  Row(n) \in Seq(Nat) /\ ReadOn(Between(r), Row(n)) = Between(Append(r, records[n]))
<1> DEFINE p == records[n]
           e == Escaped(p)
           k == 48 + n
<1>1. p \in Seq(Nat)
  BY DEF Recorded
<1>2. k \in Nat /\ k # Quote /\ k # Lf /\ {Quote, Comma, Lf} \subseteq Nat
      /\ Comma # Quote /\ Comma # Lf /\ Lf # Quote
  <2>1. n \in Nat
    OBVIOUS
  <2>2. QED
    BY <2>1 DEF Quote, Comma, Lf
<1>3. Row(n) = <<k, Comma, Quote>> \o e \o <<Quote, Lf>>
  BY DEF Row
<1> HIDE DEF p, k
<1>4. e \in Seq(Nat) /\ ReadOn(Within(<<>>, r), e) = Within(p, r)
  BY <1>1, EscapedRead
<1> HIDE DEF e
<1>5. /\ <<k>> \in Seq(Nat) /\ <<Comma>> \in Seq(Nat) /\ <<Quote>> \in Seq(Nat) /\ <<Lf>> \in Seq(Nat)
      /\ <<k, Comma>> \in Seq(Nat) /\ <<k, Comma, Quote>> \in Seq(Nat) /\ <<Quote, Lf>> \in Seq(Nat)
      /\ <<k, Comma>> = <<k>> \o <<Comma>> /\ <<k, Comma, Quote>> = <<k, Comma>> \o <<Quote>>
      /\ <<Quote, Lf>> = <<Quote>> \o <<Lf>>
  <2>0. \A x \in Nat : <<x>> \in Seq(Nat)
    OBVIOUS
  <2>1. ASSUME NEW x \in Nat, NEW y \in Nat
        PROVE  <<x, y>> \in Seq(Nat) /\ <<x, y>> = <<x>> \o <<y>>
    <3>1. <<x, y>> \in Seq(Nat) /\ <<x>> \in Seq(Nat) /\ <<y>> \in Seq(Nat)
      OBVIOUS
    <3>2. /\ Len(<<x>> \o <<y>>) = 2 /\ (<<x>> \o <<y>>)[1] = x /\ (<<x>> \o <<y>>)[2] = y
          /\ <<x>> \o <<y>> \in Seq(Nat)
      BY <3>1, ConcatProperties
    <3> DEFINE pair == <<x, y>>
               both == <<x>> \o <<y>>
    <3>3. pair \in Seq(Nat) /\ Len(pair) = 2 /\ pair[1] = x /\ pair[2] = y
      BY <3>1
    <3> HIDE DEF pair, both
    <3>4. pair = both
      <4>1. both \in Seq(Nat) /\ Len(both) = 2 /\ both[1] = x /\ both[2] = y
        BY <3>2 DEF both
      <4>2. \A i \in 1 .. Len(pair) : pair[i] = both[i]
        BY <3>3, <4>1
      <4>3. QED
        BY <3>3, <4>1, <4>2, SeqEqual
    <3>5. QED
      BY <3>1, <3>4 DEF pair, both
  <2>2. \A x, y, z \in Nat : <<x, y, z>> \in Seq(Nat) /\ <<x, y, z>> = <<x, y>> \o <<z>>
    OBVIOUS
  <2>3. k \in Nat /\ Comma \in Nat /\ Quote \in Nat /\ Lf \in Nat
    BY <1>2
  <2>4. QED
    BY <2>0, <2>1, <2>2, <2>3
<1> DEFINE half == [in |-> FALSE, half |-> TRUE, field |-> p, read |-> r]
<1>6. /\ Between(r) \in ReaderState /\ Within(<<>>, r) \in ReaderState /\ Within(p, r) \in ReaderState
      /\ half \in ReaderState
  <2>1. <<>> \in Seq(Nat)
    OBVIOUS
  <2>2. half \in ReaderState
    BY <1>1 DEF ReaderState
  <2>3. QED
    BY <1>1, <2>1, <2>2, WithinType
<1>7. /\ Reader(Between(r), k) = Between(r) /\ Reader(Between(r), Comma) = Between(r)
      /\ Reader(Between(r), Quote) = Within(<<>>, r)
      /\ Reader(Within(p, r), Quote) = half /\ Reader(half, Lf) = Between(Append(r, p))
  <2>1. Reader(Between(r), k) = Between(r) /\ Reader(Between(r), Comma) = Between(r)
    BY <1>2 DEF Reader, Between
  <2>2. Reader(Between(r), Quote) = Within(<<>>, r)
    BY <1>2 DEF Reader, Between, Within
  <2>3. Reader(Within(p, r), Quote) = half
    BY DEF Reader, Within
  <2>4. Reader(half, Lf) = Between(Append(r, p))
    BY <1>2 DEF Reader, Between
  <2>5. QED
    BY <2>1, <2>2, <2>3, <2>4
<1> HIDE DEF half
<1>8. ReadOn(Between(r), <<k, Comma, Quote>>) = Within(<<>>, r)
  <2>1. ReadOn(Between(r), <<k>>) = Between(r) /\ ReadOn(Between(r), <<Comma>>) = Between(r)
        /\ ReadOn(Between(r), <<Quote>>) = Within(<<>>, r)
    BY <1>2, <1>6, <1>7, ReadOnFew
  <2>2. ReadOn(Between(r), <<k>> \o <<Comma>>) = ReadOn(ReadOn(Between(r), <<k>>), <<Comma>>)
    BY <1>5, <1>6, ReadOnConcat
  <2>3. ReadOn(Between(r), <<k, Comma>> \o <<Quote>>) = ReadOn(ReadOn(Between(r), <<k, Comma>>), <<Quote>>)
    BY <1>5, <1>6, ReadOnConcat
  <2>4. ReadOn(Between(r), <<k, Comma>>) = Between(r)
    BY <1>5, <2>1, <2>2
  <2>5. QED
    BY <1>5, <2>1, <2>3, <2>4
<1>9. ReadOn(Within(p, r), <<Quote, Lf>>) = Between(Append(r, p))
  <2>1. ReadOn(Within(p, r), <<Quote>>) = half /\ ReadOn(half, <<Lf>>) = Between(Append(r, p))
    BY <1>2, <1>6, <1>7, ReadOnFew
  <2>2. ReadOn(Within(p, r), <<Quote>> \o <<Lf>>) = ReadOn(ReadOn(Within(p, r), <<Quote>>), <<Lf>>)
    BY <1>5, <1>6, ReadOnConcat
  <2>3. QED
    BY <1>5, <2>1, <2>2
<1> DEFINE a == <<k, Comma, Quote>>
           b == <<Quote, Lf>>
<1> HIDE DEF a, b
<1>10. a \in Seq(Nat) /\ b \in Seq(Nat) /\ a \o e \in Seq(Nat) /\ (a \o e) \o b \in Seq(Nat)
  <2>1. a \in Seq(Nat) /\ b \in Seq(Nat)
    BY <1>5 DEF a, b
  <2>2. \A x, y \in Seq(Nat) : x \o y \in Seq(Nat)
    OBVIOUS
  <2>3. QED
    BY <1>4, <2>1, <2>2
<1>11. ReadOn(Between(r), a \o e) = Within(p, r)
  <2>1. ReadOn(Between(r), a \o e) = ReadOn(ReadOn(Between(r), a), e)
    BY <1>4, <1>6, <1>10, ReadOnConcat
  <2>2. QED
    BY <1>4, <1>8, <2>1 DEF a
<1>12. ReadOn(Between(r), (a \o e) \o b) = Between(Append(r, p))
  <2>1. ReadOn(Between(r), (a \o e) \o b) = ReadOn(ReadOn(Between(r), a \o e), b)
    BY <1>6, <1>10, ReadOnConcat
  <2>2. QED
    BY <1>9, <1>11, <2>1 DEF b
<1>13. Row(n) = (a \o e) \o b
  BY <1>3 DEF a, b
<1>14. QED
  BY <1>10, <1>12, <1>13 DEF p

\* A file of all rows reads back as the payloads they were made from.
LEMMA FileReads ==
  ASSUME Recorded
  PROVE  Read(Joined([n \in DOMAIN records |-> Row(n)])) = records
<1> DEFINE N == Len(records)
           pieces == [n \in 1 .. N |-> Row(n)]
           st == [n \in 0 .. N |-> Between(SubSeq(records, 1, n))]
           T == Seq(Nat)
<1>1. N \in Nat /\ DOMAIN records = 1 .. N /\ records \in Seq(T) /\ 0 \in 0 .. N /\ N \in 0 .. N
  BY DEF Recorded
<1>2. /\ \A n \in 0 .. N : SubSeq(records, 1, n) \in Seq(T)
      /\ SubSeq(records, 1, 0) = <<>> /\ SubSeq(records, 1, N) = records
      /\ \A n \in 1 .. N : SubSeq(records, 1, n) = Append(SubSeq(records, 1, n - 1), records[n])
  <2> HIDE DEF T
  <2>1. QED
    BY <1>1, PrefixGrows
<1>3. pieces \in Seq(T) /\ Len(pieces) = N
  <2>1. <<>> \in Seq(T)
    BY <1>1, <1>2
  <2>2. \A n \in 1 .. N : Row(n) \in T
    BY <2>1, RowRead
  <2> HIDE DEF T, N
  <2>3. QED
    BY <1>1, <2>2
<1>4. st \in [0 .. N -> ReaderState]
  <2>1. <<>> \in Seq(Nat)
    OBVIOUS
  <2>2. \A n \in 0 .. N : Between(SubSeq(records, 1, n)) \in ReaderState
    BY <1>2, <2>1, WithinType
  <2>3. QED
    BY <2>2
<1>5. ASSUME NEW n \in 1 .. N PROVE ReadOn(st[n - 1], pieces[n]) = st[n]
  <2>1. n \in 0 .. N /\ n - 1 \in 0 .. N
    BY <1>1
  <2>2. st[n - 1] = Between(SubSeq(records, 1, n - 1)) /\ st[n] = Between(SubSeq(records, 1, n))
        /\ pieces[n] = Row(n)
    BY <2>1
  <2>3. SubSeq(records, 1, n - 1) \in Seq(Seq(Nat))
    BY <1>2, <2>1
  <2>4. ReadOn(Between(SubSeq(records, 1, n - 1)), Row(n)) = Between(Append(SubSeq(records, 1, n - 1), records[n]))
    BY <2>3, RowRead
  <2>5. QED
    BY <1>2, <2>2, <2>4
<1>6. Joined([n \in DOMAIN records |-> Row(n)]) = Joined(pieces)
  BY <1>1
<1> HIDE DEF pieces, st
<1>7. ReadOn(st[0], Joined(pieces)) = st[N]
  <2>1. st \in [0 .. Len(pieces) -> ReaderState]
        /\ \A n \in 1 .. Len(pieces) : ReadOn(st[n - 1], pieces[n]) = st[n]
    BY <1>3, <1>4, <1>5
  <2>2. QED
    BY <1>3, <2>1, JoinedRead
<1>8. st[0] = Unread /\ st[N] = Between(records)
  BY <1>1, <1>2 DEF st, Between, Unread
<1>9. QED
  BY <1>6, <1>7, <1>8 DEF Read, Between

\* The file is empty, or holds every row.
FileInv ==
  Recorded /\ (file = <<>> \/ file = Joined([n \in DOMAIN records |-> Row(n)]))

LEMMA FileInit == TextInit => FileInv
<1> SUFFICES ASSUME TextInit PROVE FileInv
  OBVIOUS
<1>1. PICK n \in 0 .. MaxRecords : records \in [1 .. n -> Payloads]
  BY DEF TextInit
<1>2. \A i \in 1 .. n : records[i] \in Seq(Nat)
  BY <1>1, TextAssumption DEF TextAssumption
<1> DEFINE T == Seq(Nat)
<1>3. \A i \in 1 .. n : records[i] \in T
  BY <1>2
<1> HIDE DEF T
<1>4. n \in Nat /\ records = [i \in 1 .. n |-> records[i]]
  BY <1>1
<1>5. [i \in 1 .. n |-> records[i]] \in Seq(T)
  BY <1>3, <1>4
<1>6. Recorded
  BY <1>4, <1>5 DEF Recorded, T
<1>7. QED
  BY <1>6 DEF FileInv, TextInit

LEMMA FileStep ==
  ASSUME FileInv, [TextNext]_textVars
  PROVE  FileInv'
<1>1. records' = records
  BY DEF TextNext, textVars, TerminalSends, WindowSends, ToolSends, WriterForwards, EngineWrites, WriteAll
<1>2. \A n : Row(n)' = Row(n)
  BY <1>1 DEF Row
<1>3. CASE WriteAll
  BY <1>1, <1>2, <1>3 DEF WriteAll, FileInv, Recorded
<1>4. CASE file' = file
  BY <1>1, <1>2, <1>4 DEF FileInv, Recorded
<1>5. QED
  BY <1>3, <1>4 DEF TextNext, textVars, TerminalSends, WindowSends, ToolSends, WriterForwards, EngineWrites

TextInv == LineInv /\ FileInv

\* A typed line arrives as it was meant, by every way and with every ending,
\* none of its digits dropped, and a file in CSV reads back as the lines it was
\* written from; for lines, payloads and files of any size.
THEOREM TextHolds == TextSpec => []TextTrue
<1>1. TextInit => TextInv
  BY LineInit, FileInit DEF TextInv
<1>2. TextInv /\ [TextNext]_textVars => TextInv'
  BY LineStep, FileStep DEF TextInv
<1>3. TextInv => TextTrue
  BY FileReads DEF TextInv, LineInv, FileInv, TextTrue, RecordsSurvive
<1>4. QED
  BY <1>1, <1>2, <1>3, PTL DEF TextSpec

\* What a client reads of a log is what the log holds, and what it writes to a
\* device or a file is what was meant (engine.rs, storage.rs, hex.rs, export.rs).
THEOREM ContentHolds == ReadingSpec /\ TextSpec => []ContentTrue
<1>1. ReadsTrue /\ TextTrue => ContentTrue
  BY DEF ContentTrue
<1>2. QED
  BY <1>1, ReadsHold, TextHolds, PTL

-----------------------------------------------------------------------------
(* The endpoint.                                                           *)

\* Whoever is between check and bind made the lock file that is there.
LockHeld ==
  ~stolen => \A d \in Daemon : pc[d] \in InLock => lock = d

\* From its bind until it cleans up a daemon has the socket, from listen on it
\* takes connections, and a socket that is about to be removed takes none.
SocketKept ==
  ~stolen => \A d \in Daemon :
    /\ pc[d] \in {"listen", "restrict", "unlock", "cleanup.socket"} \cup Accepting
         => socket = d
    /\ pc[d] \in {"restrict", "unlock", "cleanup.socket"} \cup Accepting
         => d \in listening
    /\ pc[d] = "unlink" => ~Connectable

\* A socket takes connections from listen on until it is dropped.
Listeners ==
  \A d \in listening :
    pc[d] \in {"restrict", "unlock", "abort"} \cup Accepting \cup (Stopping \ {"closing"})

\* A daemon nobody kept company finds everything as it left it.
Untroubled(d) ==
  /\ Alone(d)
  /\ pc[d] \in {"restore", "lock"} => lock = None
  /\ pc[d] = "lock" => tries[d] = 0
  /\ pc[d] \notin {"lock.old", "abort"}
  /\ pc[d] \in {"probe", "unlink"} => socket # None
  /\ pc[d] = "bind" => socket = None
  /\ pc[d] \in {"listen", "restrict"} => socket = d

Lone ==
  /\ \A d \in Daemon : pc[d] \in {"absent", "restore"} => tries[d] = 0
  /\ \A d \in Daemon \ company : Alive(d) => Untroubled(d)
  /\ StartsAlone

\* Whoever has looked at the PID file leaves none of its own.
PidLeft ==
  \A d \in Daemon : pc[d] \in {"drain", "closing", "ended"} => pidFile # d

\* The daemon a restart stopped does not come back, and is not the one that
\* answers once nobody has answered.
Restarted ==
  /\ stopped # None => pc[stopped] \in Stopping \cup Over
  /\ restart \in {"start", "await"} => ~(Connectable /\ socket = stopped)
  /\ restart = "done" => answered # stopped

Inv ==
  /\ TypeOK /\ LockHeld /\ SocketKept /\ Listeners /\ Lone
  /\ PidOfServer /\ PidLeft /\ Restarted

-----------------------------------------------------------------------------
(* Each step keeps the invariant.  What it says and the places of a daemon *)
(* are visible throughout; an action is visible in its own step.           *)

USE EndpointAssumption
USE DEF EndpointAssumption, InLock, Starting, Accepting, Stopping, Over, DaemonPc,
        RestartPc, Goto, Gone, RemoveLock, Connectable, Alive, Alone,
        fileVars, portVars, restartVars, historyVars, boundVars, vars,
        TypeOK, LockHeld, SocketKept, Listeners, Lone, Untroubled, StartsAlone,
        PidOfServer, PidLeft, Restarted

\* A start: whoever holds the lock is alone between check and bind.
LEMMA StartKeeps == ASSUME Inv, NEW d \in Daemon, Start(d) PROVE Inv'
<1>1. CASE RestorePorts(d)
  BY <1>1 DEF Inv, RestorePorts
<1>2. CASE Acquire(d)
  <2>1. TypeOK'
    <3>1. 0 \in 0 .. LockTries /\ "check" \in DaemonPc
      OBVIOUS
    <3>2. tries' \in [Daemon -> 0 .. LockTries]
      BY <1>2, <3>1 DEF Inv, Acquire
    <3>3. QED
      BY <1>2, <3>2 DEF Inv, Acquire
  <2>2. LockHeld'
    BY <1>2 DEF Inv, Acquire
  <2>3. SocketKept'
    BY <1>2 DEF Inv, Acquire
  <2>4. Listeners'
    BY <1>2 DEF Inv, Acquire
  <2>5. Lone'
    BY <1>2 DEF Inv, Acquire
  <2>6. PidOfServer'
    BY <1>2 DEF Inv, Acquire
  <2>7. PidLeft'
    BY <1>2 DEF Inv, Acquire
  <2>8. Restarted'
    BY <1>2 DEF Inv, Acquire
  <2>9. QED
    BY <2>1, <2>2, <2>3, <2>4, <2>5, <2>6, <2>7, <2>8 DEF Inv
<1>3. CASE LockBusy(d)
  BY <1>3 DEF Inv, LockBusy
<1>4. CASE LockTimeout(d)
  BY <1>4 DEF Inv, LockTimeout
<1>5. CASE RemoveOldLock(d)
  <2>1. TypeOK'
    BY <1>5 DEF Inv, RemoveOldLock
  <2>2. LockHeld'
    BY <1>5 DEF Inv, RemoveOldLock
  <2>3. SocketKept'
    BY <1>5 DEF Inv, RemoveOldLock
  <2>4. Listeners'
    BY <1>5 DEF Inv, RemoveOldLock
  <2>5. Lone'
    BY <1>5 DEF Inv, RemoveOldLock
  <2>6. PidOfServer'
    BY <1>5 DEF Inv, RemoveOldLock
  <2>7. PidLeft'
    BY <1>5 DEF Inv, RemoveOldLock
  <2>8. Restarted'
    BY <1>5 DEF Inv, RemoveOldLock
  <2>9. QED
    BY <2>1, <2>2, <2>3, <2>4, <2>5, <2>6, <2>7, <2>8 DEF Inv
<1>6. CASE CheckSocket(d)
  BY <1>6 DEF Inv, CheckSocket
<1>7. CASE ProbeSocket(d)
  BY <1>7 DEF Inv, ProbeSocket, Answers
<1>8. CASE UnlinkSocket(d)
  BY <1>8 DEF Inv, UnlinkSocket
<1>9. CASE Bind(d)
  BY <1>9 DEF Inv, Bind
<1>10. CASE Listen(d)
  BY <1>10 DEF Inv, Listen
<1>11. CASE RestrictAccess(d)
  BY <1>11 DEF Inv, RestrictAccess
<1>12. CASE Unlock(d)
  <2>1. TypeOK'
    BY <1>12 DEF Inv, Unlock
  <2>2. LockHeld'
    BY <1>12 DEF Inv, Unlock
  <2>3. SocketKept'
    BY <1>12 DEF Inv, Unlock
  <2>4. Listeners'
    BY <1>12 DEF Inv, Unlock
  <2>5. Lone'
    BY <1>12 DEF Inv, Unlock
  <2>6. PidOfServer'
    BY <1>12 DEF Inv, Unlock
  <2>7. PidLeft'
    BY <1>12 DEF Inv, Unlock
  <2>8. Restarted'
    BY <1>12 DEF Inv, Unlock
  <2>9. QED
    BY <2>1, <2>2, <2>3, <2>4, <2>5, <2>6, <2>7, <2>8 DEF Inv
<1>13. CASE Abort(d)
  <2>1. TypeOK'
    BY <1>13 DEF Inv, Abort
  <2>2. LockHeld'
    BY <1>13 DEF Inv, Abort
  <2>3. SocketKept'
    BY <1>13 DEF Inv, Abort
  <2>4. Listeners'
    BY <1>13 DEF Inv, Abort
  <2>5. Lone'
    BY <1>13 DEF Inv, Abort
  <2>6. PidOfServer'
    BY <1>13 DEF Inv, Abort
  <2>7. PidLeft'
    BY <1>13 DEF Inv, Abort
  <2>8. Restarted'
    BY <1>13 DEF Inv, Abort
  <2>9. QED
    BY <2>1, <2>2, <2>3, <2>4, <2>5, <2>6, <2>7, <2>8 DEF Inv
<1>14. CASE WritePid(d)
  <2>1. TypeOK'
    BY <1>14 DEF Inv, WritePid
  <2>2. LockHeld'
    BY <1>14 DEF Inv, WritePid
  <2>3. SocketKept'
    BY <1>14 DEF Inv, WritePid
  <2>4. Listeners'
    BY <1>14 DEF Inv, WritePid
  <2>5. Lone'
    BY <1>14 DEF Inv, WritePid
  <2>6. PidOfServer'
    BY <1>14 DEF Inv, WritePid
  <2>7. PidLeft'
    BY <1>14 DEF Inv, WritePid
  <2>8. Restarted'
    BY <1>14 DEF Inv, WritePid
  <2>9. QED
    BY <2>1, <2>2, <2>3, <2>4, <2>5, <2>6, <2>7, <2>8 DEF Inv
<1>15. QED
  BY <1>1, <1>2, <1>3, <1>4, <1>5, <1>6, <1>7, <1>8, <1>9, <1>10, <1>11, <1>12,
     <1>13, <1>14 DEF Start

\* An end: the socket a daemon removes is its own, unless a lock was stolen.
LEMMA FinishKeeps == ASSUME Inv, NEW d \in Daemon, Finish(d) PROVE Inv'
<1>1. CASE CleanupSocket(d)
  BY <1>1 DEF Inv, CleanupSocket
<1>2. CASE CleanupLock(d)
  <2>1. TypeOK'
    BY <1>2 DEF Inv, CleanupLock
  <2>2. LockHeld'
    <3>1. \A e \in Daemon : pc'[e] \in InLock => pc[e] \in InLock /\ e # d
      BY <1>2 DEF Inv, CleanupLock
    <3>2. ~stolen' => ~stolen /\ (lock \in {d, None} \/ pc[lock] \notin InLock)
      BY <1>2 DEF CleanupLock
    <3>3. QED
      BY <3>1, <3>2 DEF Inv
  <2>3. SocketKept'
    BY <1>2 DEF Inv, CleanupLock
  <2>4. Listeners'
    BY <1>2 DEF Inv, CleanupLock
  <2>5. Lone'
    BY <1>2 DEF Inv, CleanupLock
  <2>6. PidOfServer'
    BY <1>2 DEF Inv, CleanupLock
  <2>7. PidLeft'
    BY <1>2 DEF Inv, CleanupLock
  <2>8. Restarted'
    BY <1>2 DEF Inv, CleanupLock
  <2>9. QED
    BY <2>1, <2>2, <2>3, <2>4, <2>5, <2>6, <2>7, <2>8 DEF Inv
<1>3. CASE ReadPid(d)
  BY <1>3 DEF Inv, ReadPid, OwnPid
<1>4. CASE RemovePid(d)
  BY <1>4 DEF Inv, RemovePid
<1>5. CASE DropListener(d)
  BY <1>5 DEF Inv, DropListener
<1>6. CASE End(d)
  BY <1>6 DEF Inv, End
<1>7. QED
  BY <1>1, <1>2, <1>3, <1>4, <1>5, <1>6 DEF Finish

LEMMA OthersKeep ==
  ASSUME Inv, NEW d \in Daemon,
         Spawn(d) \/ OpenPort(d) \/ ClosePort(d) \/ Stop(d) \/ Kill(d)
  PROVE  Inv'
<1>1. CASE Spawn(d)
  BY <1>1 DEF Inv, Spawn, Spawned
<1>2. CASE OpenPort(d)
  BY <1>2 DEF Inv, OpenPort
<1>3. CASE ClosePort(d)
  <2>1. TypeOK'
    BY <1>3 DEF Inv, ClosePort
  <2>2. LockHeld'
    BY <1>3 DEF Inv, ClosePort
  <2>3. SocketKept'
    BY <1>3 DEF Inv, ClosePort
  <2>4. Listeners'
    BY <1>3 DEF Inv, ClosePort
  <2>5. Lone'
    BY <1>3 DEF Inv, ClosePort
  <2>6. PidOfServer'
    BY <1>3 DEF Inv, ClosePort
  <2>7. PidLeft'
    BY <1>3 DEF Inv, ClosePort
  <2>8. Restarted'
    BY <1>3 DEF Inv, ClosePort
  <2>9. QED
    BY <2>1, <2>2, <2>3, <2>4, <2>5, <2>6, <2>7, <2>8 DEF Inv
<1>4. CASE Stop(d)
  BY <1>4 DEF Inv, Stop
<1>5. CASE Kill(d)
  BY <1>5 DEF Inv, Kill
<1>6. QED
  BY <1>1, <1>2, <1>3, <1>4, <1>5

LEMMA RestartKeeps == ASSUME Inv, RestartStep PROVE Inv'
<1>1. CASE RestartAsk
  BY <1>1 DEF Inv, RestartAsk
<1>2. CASE RestartGone
  BY <1>2 DEF Inv, RestartGone, NobodyAnswers
<1>3. CASE RestartSpawn
  BY <1>3 DEF Inv, RestartSpawn, Spawned
<1>4. CASE RestartAnswered
  BY <1>4 DEF Inv, RestartAnswered
<1>5. CASE RestartGivesUp
  BY <1>5 DEF Inv, RestartGivesUp
<1>6. QED
  BY <1>1, <1>2, <1>3, <1>4, <1>5 DEF RestartStep

LEMMA AgeKeeps == ASSUME Inv, AgeLock PROVE Inv'
  BY DEF Inv, AgeLock

LEMMA InvInit == Init => Inv
<1> SUFFICES ASSUME Init PROVE Inv
  OBVIOUS
<1>1. TypeOK
  <2>1. 0 \in 0 .. LockTries
    OBVIOUS
  <2>2. tries \in [Daemon -> 0 .. LockTries]
    BY <2>1 DEF Init
  <2>3. QED
    BY <2>2 DEF Init
<1>2. LockHeld /\ SocketKept /\ Listeners /\ Lone
  BY DEF Init
<1>3. PidOfServer /\ PidLeft /\ Restarted
  BY DEF Init
<1>4. QED
  BY <1>1, <1>2, <1>3 DEF Inv

LEMMA InvStep == Inv /\ [Next]_vars => Inv'
<1> SUFFICES ASSUME Inv, [Next]_vars PROVE Inv'
  OBVIOUS
<1>1. CASE UNCHANGED vars
  BY <1>1 DEF Inv
<1>2. CASE Next
  BY <1>2, StartKeeps, FinishKeeps, OthersKeep, RestartKeeps, AgeKeeps DEF Next
<1>3. QED
  BY <1>1, <1>2

-----------------------------------------------------------------------------
(* The theorems. *)

\* Every variable keeps its type.
THEOREM TypeCorrect == Spec => []TypeOK
<1>1. Inv => TypeOK
  BY DEF Inv
<1>2. QED
  BY <1>1, InvInit, InvStep, PTL DEF Spec

\* Starts exclude each other, for any number of daemons: none undoes what another
\* has done unless a lock was stolen, and a daemon that starts alone comes up.
THEOREM StartsApart == Spec => []StartsExclude
<1>1. Inv => StartsExclude
  BY DEF Inv, StartsExclude, LockExclusive, ServerReachable
<1>2. QED
  BY <1>1, InvInit, InvStep, PTL DEF Spec

\* The PID file is right about who serves, if that daemon could write it and none
\* wrote over it or removed it since, and who restarts a daemon gets another one
\* than it stopped.
THEOREM ServerIsKnown == Spec => []ServerKnown
<1>1. Inv => ServerKnown
  BY DEF Inv, ServerKnown, PidFileTrue, NoPidOfTheEnded, RestartIsNew
<1>2. QED
  BY <1>1, InvInit, InvStep, PTL DEF Spec

-----------------------------------------------------------------------------
(* Commands and tools.                                                     *)

Places == {"out", "check", "wait", "send", "served", "warn", "follows", "ready", "done"}
Results ==
  {"none", "ok", "spawn", "unreachable", "cut", "timeout", "protocol", "invalid"}
Asked == Command \cup McpTool \cup {"none", "mcp"}

CommandsTyped ==
  /\ mcp \subseteq Processes
  /\ where \in [Processes -> Places] /\ ask \in [Processes -> Asked]
  /\ ended \in [Processes -> Results] /\ again \in [Processes -> BOOLEAN]
  /\ notice \in [Processes -> BOOLEAN] /\ told \in [Processes -> Int]
  /\ completed \in [Processes -> Int] /\ gone \in [Processes -> Int]

\* A daemon that stopped is why a request found nobody: one before the first try,
\* another before the second.
Excused(p) ==
  /\ gone[p] >= 0 /\ (again[p] => gone[p] >= 1)
  /\ where[p] = "send" /\ daemon # "serving" =>
       (ask[p] \notin Questions => gone[p] >= 1) /\ (again[p] => gone[p] >= 2)
  /\ where[p] = "follows" => ask[p] = "read --follow"
  /\ ended[p] = "unreachable" /\ ask[p] \notin Questions \cup {"read --follow"} => gone[p] >= 2

\* A process has a note from when it met another build until its first result.
NoteKept(p) ==
  /\ p \notin mcp => completed[p] = 0 /\ ~notice[p] /\ p \notin differed
  /\ where[p] = "out" => p \notin mcp /\ told[p] = 0
  /\ ask[p] = "mcp" => p \in mcp
  /\ ask[p] = "mcp" /\ where[p] \in {"check", "wait", "send"} =>
       completed[p] = 0 /\ ~notice[p] /\ p \notin differed
  /\ p \in mcp =>
       /\ where[p] \notin {"warn", "follows"} /\ completed[p] >= 0
       /\ notice[p] = (p \in differed /\ completed[p] = 0)
       /\ told[p] = IF p \in differed /\ completed[p] > 0 THEN 1 ELSE 0

CommandsInv ==
  CommandsTyped /\ QuestionsStartNothing /\ (\A p \in Processes : Excused(p) /\ NoteKept(p))

\* What two names have in common.
LEMMA NamesApart ==
  /\ "mcp" \notin Command /\ "mcp" \notin McpTool /\ "mcp" \notin Questions
  /\ \A a \in McpTool : a \notin Questions
  /\ "read --follow" \notin Questions /\ "none" \notin Questions
BY DEF Command, McpTool, Questions, Instructions, ReadOnly, Destructive, Idempotent

\* The end of a request touches nobody else's, and passes the note on at most once.
RequestEnded(p, r) ==
  /\ ended' = [ended EXCEPT ![p] = r] /\ mcp' = mcp /\ differed' = differed
  /\ where' \in [Processes -> Places] /\ notice' \in [Processes -> BOOLEAN]
  /\ told' \in [Processes -> Int] /\ completed' \in [Processes -> Int]
  /\ \A q \in Processes \ {p} :
       /\ where'[q] = where[q] /\ notice'[q] = notice[q]
       /\ told'[q] = told[q] /\ completed'[q] = completed[q]
  /\ where'[p] = IF p \in mcp THEN IF ask[p] = "mcp" THEN "done" ELSE "ready" ELSE "warn"
  /\ p \notin mcp \/ ask[p] = "mcp" =>
       notice'[p] = notice[p] /\ told'[p] = told[p] /\ completed'[p] = completed[p]
  /\ p \in mcp /\ ask[p] # "mcp" =>
       /\ notice'[p] = FALSE /\ completed'[p] = More(completed[p])
       /\ told'[p] = IF notice[p] THEN More(told[p]) ELSE told[p]

LEMMA RequestEnds ==
  ASSUME CommandsTyped, NEW p \in Processes, NEW r, EndRequest(p, r)
  PROVE  RequestEnded(p, r)
<1> USE DEF CommandsTyped, EndRequest, RequestEnded, To, More, NoticeLeft, Places
<1>1. CASE p \notin mcp
  BY <1>1
<1>2. CASE p \in mcp /\ ask[p] = "mcp"
  <2>1. /\ where' = [where EXCEPT ![p] = "done"] /\ notice' = notice
        /\ completed' = [completed EXCEPT ![p] = completed[p]]
        /\ told' = [told EXCEPT ![p] = told[p]]
    BY <1>2
  <2>2. QED
    BY <1>2, <2>1
<1>3. CASE p \in mcp /\ ask[p] # "mcp"
  <2>1. /\ where' = [where EXCEPT ![p] = "ready"] /\ notice' = [notice EXCEPT ![p] = FALSE]
        /\ completed' = [completed EXCEPT ![p] = More(completed[p])]
    BY <1>3
  <2>2. told' = [told EXCEPT ![p] = IF notice[p] THEN More(told[p]) ELSE told[p]]
    BY <1>3
  <2>3. PICK n \in Int, t \in Int :
          n = More(completed[p]) /\ t = IF notice[p] THEN More(told[p]) ELSE told[p]
    OBVIOUS
  <2>4. completed' = [completed EXCEPT ![p] = n] /\ told' = [told EXCEPT ![p] = t]
    BY <2>1, <2>2, <2>3
  <2> HIDE DEF More
  <2>5. /\ where' \in [Processes -> Places] /\ where'[p] = "ready"
        /\ notice' \in [Processes -> BOOLEAN] /\ notice'[p] = FALSE
        /\ completed' \in [Processes -> Int] /\ completed'[p] = n
        /\ told' \in [Processes -> Int] /\ told'[p] = t
        /\ \A q \in Processes \ {p} :
             /\ where'[q] = where[q] /\ notice'[q] = notice[q]
             /\ told'[q] = told[q] /\ completed'[q] = completed[q]
    BY <2>1, <2>4
  <2>6. ended' = [ended EXCEPT ![p] = r] /\ mcp' = mcp /\ differed' = differed
    OBVIOUS
  <2>7. QED
    BY <1>3, <2>3, <2>5, <2>6
<1>4. QED
  BY <1>1, <1>2, <1>3

\* A request begins with a slate of its own.
AskingBegun(p, a) ==
  /\ \E label \in {"send", "check"} :
       (label = "send" => a \in Questions) /\ (label = "check" => a \notin Questions)
         /\ where' = [where EXCEPT ![p] = label]
  /\ ask' = [ask EXCEPT ![p] = a] /\ again' = [again EXCEPT ![p] = FALSE]
  /\ ended' = [ended EXCEPT ![p] = "none"] /\ gone' = [gone EXCEPT ![p] = 0]

LEMMA AskingBegins ==
  ASSUME NEW p \in Processes, NEW a, Asking(p, a) PROVE AskingBegun(p, a)
<1>1. CASE a \in Questions
  BY <1>1 DEF Asking, AskingBegun, StartsWith, To
<1>2. CASE a \notin Questions
  BY <1>2 DEF Asking, AskingBegun, StartsWith, To
<1>3. QED
  BY <1>1, <1>2

LEMMA TypedStep == ASSUME CommandsTyped, NEW p \in Processes, ProcessStep(p) PROVE CommandsTyped'
<1> USE DEF CommandsTyped, Places, Results, Asked, More
<1>1. CASE RunCommand(p)
  <2>1. PICK a \in Command : AskingBegun(p, a)
    BY <1>1, AskingBegins DEF RunCommand
  <2>2. UNCHANGED <<daemonVars, mcp, noteVars>> /\ where[p] = "out"
    BY <1>1 DEF RunCommand
  <2>3. a # "mcp" /\ a \in Asked
    BY NamesApart DEF Asked
  <2> HIDE DEF Asked
  <2>4. QED
    BY <2>1, <2>2, <2>3 DEF AskingBegun, daemonVars, noteVars
<1>2. CASE BadConfig(p)
  BY <1>2 DEF BadConfig, To, daemonVars, processVars, noteVars, bounds
<1>3. CASE RunMcp(p)
  <2>1. AskingBegun(p, "mcp") /\ UNCHANGED <<daemonVars, noteVars>>
    BY <1>3, AskingBegins DEF RunMcp
  <2>2. mcp' = mcp \cup {p} /\ where[p] = "out" /\ "mcp" \notin Questions /\ "mcp" \in Asked
    BY <1>3, NamesApart DEF RunMcp, Asked
  <2> HIDE DEF Asked
  <2>3. QED
    BY <2>1, <2>2 DEF AskingBegun, daemonVars, noteVars
<1>4. CASE McpReady(p)
  BY <1>4 DEF McpReady, To, daemonVars, processVars, noteVars, bounds
<1>5. CASE CallTool(p)
  <2>1. PICK a \in McpTool : AskingBegun(p, a)
    BY <1>5, AskingBegins DEF CallTool
  <2>2. UNCHANGED <<daemonVars, mcp, noteVars>> /\ where[p] = "ready"
    BY <1>5 DEF CallTool
  <2>3. a # "mcp" /\ a \in Asked
    BY NamesApart DEF Asked
  <2> HIDE DEF Asked
  <2>4. QED
    BY <2>1, <2>2, <2>3 DEF AskingBegun, daemonVars, noteVars
<1>6. CASE UnknownTool(p)
  BY <1>6 DEF UnknownTool, daemonVars, processVars, noteVars, bounds
<1>7. CASE Disconnects(p)
  BY <1>7 DEF Disconnects, To, daemonVars, processVars, noteVars, bounds
<1>8. CASE WarnOnce(p)
  <2>1. PICK label \in Places, n \in Int :
          where' = [where EXCEPT ![p] = label] /\ told' = [told EXCEPT ![p] = n]
    <3>1. PICK label \in Places : where' = [where EXCEPT ![p] = label]
      BY <1>8 DEF WarnOnce, To
    <3>2. PICK n \in Int : told' = [told EXCEPT ![p] = n]
      <4>1. CASE daemon = "serving" /\ build = "other"
        <5>1. PICK n \in Int : n = More(told[p])
          OBVIOUS
        <5>2. told' = [told EXCEPT ![p] = n]
          BY <1>8, <4>1, <5>1 DEF WarnOnce
        <5>3. QED
          BY <5>2
      <4>2. CASE ~(daemon = "serving" /\ build = "other")
        BY <1>8, <4>2 DEF WarnOnce
      <4>3. QED
        BY <4>1, <4>2
    <3>3. QED
      BY <3>1, <3>2
  <2>2. QED
    BY <1>8, <2>1 DEF WarnOnce, daemonVars
<1>9. CASE DaemonAnswers(p)
  BY <1>9 DEF DaemonAnswers, To, daemonVars, processVars, noteVars, bounds
<1>10. CASE SpawnDaemon(p)
  BY <1>10 DEF SpawnDaemon, To, daemonVars, processVars, noteVars, bounds
<1>11. CASE NoDaemon(p)
  <2>1. EndRequest(p, "spawn") /\ UNCHANGED <<daemonVars, ask, again, gone>>
    BY <1>11 DEF NoDaemon
  <2>2. RequestEnded(p, "spawn")
    BY <2>1, RequestEnds
  <2>3. QED
    BY <1>11, <2>1, <2>2 DEF NoDaemon, RequestEnded, daemonVars
<1>12. CASE Connect(p)
  BY <1>12 DEF Connect, To, daemonVars, processVars, noteVars, bounds
<1>13. CASE Refused(p)
  <2>1. CASE MayRepeat(p)
    BY <1>13, <2>1 DEF Refused, To, MayRepeat, daemonVars, processVars, noteVars, bounds
  <2>2. CASE ~MayRepeat(p)
    <3>1. /\ EndRequest(p, "unreachable") /\ where[p] = "send"
          /\ UNCHANGED <<daemonVars, ask, again, gone>>
      BY <1>13, <2>2 DEF Refused
    <3>2. RequestEnded(p, "unreachable")
      BY <3>1, RequestEnds
    <3>3. QED
      BY <1>13, <2>2, <3>1, <3>2 DEF Refused, MayRepeat, RequestEnded, daemonVars
  <2>3. QED
    BY <2>1, <2>2
<1>14. CASE Answered(p)
  <2>1. EndRequest(p, "ok") /\ UNCHANGED <<daemonVars, ask, again, gone>>
    BY <1>14 DEF Answered
  <2>2. RequestEnded(p, "ok")
    BY <2>1, RequestEnds
  <2>3. QED
    BY <1>14, <2>1, <2>2 DEF Answered, RequestEnded, daemonVars
<1>15. CASE TimedOut(p)
  <2>1. EndRequest(p, "timeout") /\ UNCHANGED <<daemonVars, ask, again, gone>>
    BY <1>15 DEF TimedOut
  <2>2. RequestEnded(p, "timeout")
    BY <2>1, RequestEnds
  <2>3. QED
    BY <1>15, <2>1, <2>2 DEF TimedOut, RequestEnded, daemonVars
<1>16. CASE Cut(p)
  <2>1. EndRequest(p, "cut") /\ UNCHANGED <<daemonVars, ask, again, gone>>
    BY <1>16 DEF Cut
  <2>2. RequestEnded(p, "cut")
    BY <2>1, RequestEnds
  <2>3. QED
    BY <1>16, <2>1, <2>2 DEF Cut, RequestEnded, daemonVars
<1>17. CASE FollowEnds(p)
  BY <1>17 DEF FollowEnds, To, daemonVars, processVars, noteVars, bounds
<1>18. QED
  BY <1>1, <1>2, <1>3, <1>4, <1>5, <1>6, <1>7, <1>8, <1>9, <1>10, <1>11, <1>12,
     <1>13, <1>14, <1>15, <1>16, <1>17 DEF ProcessStep

LEMMA AskedStep ==
  ASSUME CommandsTyped, QuestionsStartNothing, NEW p \in Processes, ProcessStep(p)
  PROVE  QuestionsStartNothing'
<1> USE DEF CommandsTyped, QuestionsStartNothing
<1>1. CASE RunCommand(p)
  <2>1. PICK a \in Command : AskingBegun(p, a)
    BY <1>1, AskingBegins DEF RunCommand
  <2>2. UNCHANGED <<daemonVars, mcp, noteVars>> /\ where[p] = "out"
    BY <1>1 DEF RunCommand
  <2>3. a # "mcp" /\ a \in Asked
    BY NamesApart DEF Asked
  <2> HIDE DEF Asked
  <2>4. QED
    BY <2>1, <2>2, <2>3 DEF AskingBegun, daemonVars, noteVars
<1>2. CASE BadConfig(p)
  BY <1>2 DEF BadConfig, To, daemonVars, processVars, noteVars, bounds
<1>3. CASE RunMcp(p)
  <2>1. AskingBegun(p, "mcp") /\ UNCHANGED <<daemonVars, noteVars>>
    BY <1>3, AskingBegins DEF RunMcp
  <2>2. QED
    BY <1>3, <2>1, NamesApart DEF RunMcp, AskingBegun, daemonVars, noteVars
<1>4. CASE McpReady(p)
  BY <1>4 DEF McpReady, To, daemonVars, processVars, noteVars, bounds
<1>5. CASE CallTool(p)
  <2>1. PICK a \in McpTool : AskingBegun(p, a)
    BY <1>5, AskingBegins DEF CallTool
  <2>2. UNCHANGED <<daemonVars, mcp, noteVars>> /\ where[p] = "ready"
    BY <1>5 DEF CallTool
  <2>3. a # "mcp" /\ a \in Asked
    BY NamesApart DEF Asked
  <2> HIDE DEF Asked
  <2>4. QED
    BY <2>1, <2>2, <2>3 DEF AskingBegun, daemonVars, noteVars
<1>6. CASE UnknownTool(p)
  BY <1>6 DEF UnknownTool, daemonVars, processVars, noteVars, bounds
<1>7. CASE Disconnects(p)
  BY <1>7 DEF Disconnects, To, daemonVars, processVars, noteVars, bounds
<1>8. CASE WarnOnce(p)
  BY <1>8 DEF WarnOnce, To, daemonVars, processVars, noteVars, bounds
<1>9. CASE DaemonAnswers(p)
  BY <1>9 DEF DaemonAnswers, To, daemonVars, processVars, noteVars, bounds
<1>10. CASE SpawnDaemon(p)
  BY <1>10 DEF SpawnDaemon, To, daemonVars, processVars, noteVars, bounds
<1>11. CASE NoDaemon(p)
  <2>1. EndRequest(p, "spawn") /\ UNCHANGED <<daemonVars, ask, again, gone>>
    BY <1>11 DEF NoDaemon
  <2>2. RequestEnded(p, "spawn")
    BY <2>1, RequestEnds
  <2>3. QED
    BY <1>11, <2>1, <2>2 DEF NoDaemon, RequestEnded, daemonVars
<1>12. CASE Connect(p)
  BY <1>12 DEF Connect, To, daemonVars, processVars, noteVars, bounds
<1>13. CASE Refused(p)
  <2>1. CASE MayRepeat(p)
    BY <1>13, <2>1 DEF Refused, To, MayRepeat, daemonVars, processVars, noteVars, bounds
  <2>2. CASE ~MayRepeat(p)
    <3>1. /\ EndRequest(p, "unreachable") /\ where[p] = "send"
          /\ UNCHANGED <<daemonVars, ask, again, gone>>
      BY <1>13, <2>2 DEF Refused
    <3>2. RequestEnded(p, "unreachable")
      BY <3>1, RequestEnds
    <3>3. QED
      BY <1>13, <2>2, <3>1, <3>2 DEF Refused, MayRepeat, RequestEnded, daemonVars
  <2>3. QED
    BY <2>1, <2>2
<1>14. CASE Answered(p)
  <2>1. EndRequest(p, "ok") /\ UNCHANGED <<daemonVars, ask, again, gone>>
    BY <1>14 DEF Answered
  <2>2. RequestEnded(p, "ok")
    BY <2>1, RequestEnds
  <2>3. QED
    BY <1>14, <2>1, <2>2 DEF Answered, RequestEnded, daemonVars
<1>15. CASE TimedOut(p)
  <2>1. EndRequest(p, "timeout") /\ UNCHANGED <<daemonVars, ask, again, gone>>
    BY <1>15 DEF TimedOut
  <2>2. RequestEnded(p, "timeout")
    BY <2>1, RequestEnds
  <2>3. QED
    BY <1>15, <2>1, <2>2 DEF TimedOut, RequestEnded, daemonVars
<1>16. CASE Cut(p)
  <2>1. EndRequest(p, "cut") /\ UNCHANGED <<daemonVars, ask, again, gone>>
    BY <1>16 DEF Cut
  <2>2. RequestEnded(p, "cut")
    BY <2>1, RequestEnds
  <2>3. QED
    BY <1>16, <2>1, <2>2 DEF Cut, RequestEnded, daemonVars
<1>17. CASE FollowEnds(p)
  BY <1>17 DEF FollowEnds, To, daemonVars, processVars, noteVars, bounds
<1>18. QED
  BY <1>1, <1>2, <1>3, <1>4, <1>5, <1>6, <1>7, <1>8, <1>9, <1>10, <1>11, <1>12,
     <1>13, <1>14, <1>15, <1>16, <1>17 DEF ProcessStep

LEMMA ExcusedBegins ==
  ASSUME CommandsTyped, NEW p \in Processes, NEW a, AskingBegun(p, a), daemon' = daemon,
         NEW q \in Processes, Excused(q)
  PROVE  Excused(q)'
<1>1. CASE q = p
  <2>1. /\ again'[p] = FALSE /\ gone'[p] = 0 /\ ended'[p] = "none" /\ ask'[p] = a
        /\ where'[p] \in {"send", "check"} /\ (where'[p] = "send" => a \in Questions)
    BY DEF AskingBegun, CommandsTyped
  <2>2. ~again'[p] /\ where'[p] # "follows" /\ (where'[p] = "send" => ask'[p] \in Questions)
    BY <2>1
  <2>3. gone'[p] >= 0 /\ ended'[p] # "unreachable"
    BY <2>1
  <2>4. Excused(p)'
    BY <2>2, <2>3 DEF Excused
  <2>5. QED
    BY <1>1, <2>4
<1>2. CASE q # p
  <2>1. /\ again'[q] = again[q] /\ gone'[q] = gone[q] /\ ended'[q] = ended[q] /\ ask'[q] = ask[q]
        /\ where'[q] = where[q]
    BY <1>2 DEF AskingBegun, CommandsTyped
  <2>2. QED
    BY <2>1 DEF Excused
<1>3. QED
  BY <1>1, <1>2

LEMMA ExcusedStep ==
  ASSUME CommandsTyped, NEW p \in Processes, ProcessStep(p),
         NEW q \in Processes, Excused(q), QuestionsStartNothing
  PROVE  Excused(q)'
<1> USE DEF CommandsTyped, Excused, QuestionsStartNothing
<1>1. CASE RunCommand(p)
  <2>1. daemon' = daemon /\ \E a : AskingBegun(p, a)
    BY <1>1, AskingBegins DEF RunCommand, daemonVars
  <2>2. QED
    BY <2>1, ExcusedBegins
<1>2. CASE BadConfig(p)
  BY <1>2 DEF BadConfig, To, daemonVars, processVars, noteVars, bounds
<1>3. CASE RunMcp(p)
  <2>1. daemon' = daemon /\ \E a : AskingBegun(p, a)
    BY <1>3, AskingBegins DEF RunMcp, daemonVars
  <2>2. QED
    BY <2>1, ExcusedBegins
<1>4. CASE McpReady(p)
  BY <1>4 DEF McpReady, To, daemonVars, processVars, noteVars, bounds
<1>5. CASE CallTool(p)
  <2>1. daemon' = daemon /\ \E a : AskingBegun(p, a)
    BY <1>5, AskingBegins DEF CallTool, daemonVars
  <2>2. QED
    BY <2>1, ExcusedBegins
<1>6. CASE UnknownTool(p)
  BY <1>6 DEF UnknownTool, daemonVars, processVars, noteVars, bounds
<1>7. CASE Disconnects(p)
  BY <1>7 DEF Disconnects, To, daemonVars, processVars, noteVars, bounds
<1>8. CASE WarnOnce(p)
  BY <1>8 DEF WarnOnce, To, daemonVars, processVars, noteVars, bounds
<1>9. CASE DaemonAnswers(p)
  BY <1>9 DEF DaemonAnswers, To, daemonVars, processVars, noteVars, bounds
<1>10. CASE SpawnDaemon(p)
  BY <1>10 DEF SpawnDaemon, To, daemonVars, processVars, noteVars, bounds
<1>11. CASE NoDaemon(p)
  <2>1. EndRequest(p, "spawn") /\ UNCHANGED <<daemonVars, ask, again, gone>>
    BY <1>11 DEF NoDaemon
  <2>2. RequestEnded(p, "spawn")
    BY <2>1, RequestEnds
  <2>3. QED
    BY <1>11, <2>1, <2>2 DEF NoDaemon, RequestEnded, daemonVars
<1>12. CASE Connect(p)
  BY <1>12 DEF Connect, To, daemonVars, processVars, noteVars, bounds
<1>13. CASE Refused(p)
  <2>1. CASE MayRepeat(p)
    BY <1>13, <2>1 DEF Refused, To, MayRepeat, daemonVars, processVars, noteVars, bounds
  <2>2. CASE ~MayRepeat(p)
    <3>1. /\ EndRequest(p, "unreachable") /\ where[p] = "send"
          /\ UNCHANGED <<daemonVars, ask, again, gone>>
      BY <1>13, <2>2 DEF Refused
    <3>2. RequestEnded(p, "unreachable")
      BY <3>1, RequestEnds
    <3>3. QED
      BY <1>13, <2>2, <3>1, <3>2 DEF Refused, MayRepeat, RequestEnded, daemonVars
  <2>3. QED
    BY <2>1, <2>2
<1>14. CASE Answered(p)
  <2>1. EndRequest(p, "ok") /\ UNCHANGED <<daemonVars, ask, again, gone>>
    BY <1>14 DEF Answered
  <2>2. RequestEnded(p, "ok")
    BY <2>1, RequestEnds
  <2>3. QED
    BY <1>14, <2>1, <2>2 DEF Answered, RequestEnded, daemonVars
<1>15. CASE TimedOut(p)
  <2>1. EndRequest(p, "timeout") /\ UNCHANGED <<daemonVars, ask, again, gone>>
    BY <1>15 DEF TimedOut
  <2>2. RequestEnded(p, "timeout")
    BY <2>1, RequestEnds
  <2>3. QED
    BY <1>15, <2>1, <2>2 DEF TimedOut, RequestEnded, daemonVars
<1>16. CASE Cut(p)
  <2>1. EndRequest(p, "cut") /\ UNCHANGED <<daemonVars, ask, again, gone>>
    BY <1>16 DEF Cut
  <2>2. RequestEnded(p, "cut")
    BY <2>1, RequestEnds
  <2>3. QED
    BY <1>16, <2>1, <2>2 DEF Cut, RequestEnded, daemonVars
<1>17. CASE FollowEnds(p)
  BY <1>17 DEF FollowEnds, To, daemonVars, processVars, noteVars, bounds
<1>18. QED
  BY <1>1, <1>2, <1>3, <1>4, <1>5, <1>6, <1>7, <1>8, <1>9, <1>10, <1>11, <1>12,
     <1>13, <1>14, <1>15, <1>16, <1>17 DEF ProcessStep

LEMMA NoteStep ==
  ASSUME CommandsTyped, NEW p \in Processes, ProcessStep(p),
         NEW q \in Processes, NoteKept(q)
  PROVE  NoteKept(q)'
<1> USE DEF CommandsTyped, NoteKept, More
<1>1. CASE RunCommand(p)
  <2>1. PICK a \in Command : AskingBegun(p, a)
    BY <1>1, AskingBegins DEF RunCommand
  <2>2. UNCHANGED <<daemonVars, mcp, noteVars>> /\ where[p] = "out"
    BY <1>1 DEF RunCommand
  <2>3. a # "mcp" /\ a \in Asked
    BY NamesApart DEF Asked
  <2> HIDE DEF Asked
  <2>4. QED
    BY <2>1, <2>2, <2>3 DEF AskingBegun, daemonVars, noteVars
<1>2. CASE BadConfig(p)
  BY <1>2 DEF BadConfig, To, daemonVars, processVars, noteVars, bounds
<1>3. CASE RunMcp(p)
  <2>1. AskingBegun(p, "mcp") /\ UNCHANGED <<daemonVars, noteVars>>
    BY <1>3, AskingBegins DEF RunMcp
  <2>2. mcp' = mcp \cup {p} /\ where[p] = "out" /\ "mcp" \notin Questions /\ "mcp" \in Asked
    BY <1>3, NamesApart DEF RunMcp, Asked
  <2> HIDE DEF Asked
  <2>3. QED
    BY <2>1, <2>2 DEF AskingBegun, daemonVars, noteVars
<1>4. CASE McpReady(p)
  BY <1>4 DEF McpReady, To, daemonVars, processVars, noteVars, bounds
<1>5. CASE CallTool(p)
  <2>1. PICK a \in McpTool : AskingBegun(p, a)
    BY <1>5, AskingBegins DEF CallTool
  <2>2. UNCHANGED <<daemonVars, mcp, noteVars>> /\ where[p] = "ready"
    BY <1>5 DEF CallTool
  <2>3. a # "mcp" /\ a \in Asked
    BY NamesApart DEF Asked
  <2> HIDE DEF Asked
  <2>4. QED
    BY <2>1, <2>2, <2>3 DEF AskingBegun, daemonVars, noteVars
<1>6. CASE UnknownTool(p)
  BY <1>6 DEF UnknownTool, daemonVars, processVars, noteVars, bounds
<1>7. CASE Disconnects(p)
  BY <1>7 DEF Disconnects, To, daemonVars, processVars, noteVars, bounds
<1>8. CASE WarnOnce(p)
  BY <1>8 DEF WarnOnce, To, daemonVars, processVars, noteVars, bounds
<1>9. CASE DaemonAnswers(p)
  BY <1>9 DEF DaemonAnswers, To, daemonVars, processVars, noteVars, bounds
<1>10. CASE SpawnDaemon(p)
  BY <1>10 DEF SpawnDaemon, To, daemonVars, processVars, noteVars, bounds
<1>11. CASE NoDaemon(p)
  <2>1. EndRequest(p, "spawn") /\ UNCHANGED <<daemonVars, ask, again, gone>>
    BY <1>11 DEF NoDaemon
  <2>2. RequestEnded(p, "spawn")
    BY <2>1, RequestEnds
  <2>3. QED
    BY <1>11, <2>1, <2>2 DEF NoDaemon, RequestEnded, daemonVars
<1>12. CASE Connect(p)
  BY <1>12 DEF Connect, To, daemonVars, processVars, noteVars, bounds
<1>13. CASE Refused(p)
  <2>1. CASE MayRepeat(p)
    BY <1>13, <2>1 DEF Refused, To, MayRepeat, daemonVars, processVars, noteVars, bounds
  <2>2. CASE ~MayRepeat(p)
    <3>1. /\ EndRequest(p, "unreachable") /\ where[p] = "send"
          /\ UNCHANGED <<daemonVars, ask, again, gone>>
      BY <1>13, <2>2 DEF Refused
    <3>2. RequestEnded(p, "unreachable")
      BY <3>1, RequestEnds
    <3>3. QED
      BY <1>13, <2>2, <3>1, <3>2 DEF Refused, MayRepeat, RequestEnded, daemonVars
  <2>3. QED
    BY <2>1, <2>2
<1>14. CASE Answered(p)
  <2>1. EndRequest(p, "ok") /\ UNCHANGED <<daemonVars, ask, again, gone>>
    BY <1>14 DEF Answered
  <2>2. RequestEnded(p, "ok")
    BY <2>1, RequestEnds
  <2>3. QED
    BY <1>14, <2>1, <2>2 DEF Answered, RequestEnded, daemonVars
<1>15. CASE TimedOut(p)
  <2>1. EndRequest(p, "timeout") /\ UNCHANGED <<daemonVars, ask, again, gone>>
    BY <1>15 DEF TimedOut
  <2>2. RequestEnded(p, "timeout")
    BY <2>1, RequestEnds
  <2>3. QED
    BY <1>15, <2>1, <2>2 DEF TimedOut, RequestEnded, daemonVars
<1>16. CASE Cut(p)
  <2>1. EndRequest(p, "cut") /\ UNCHANGED <<daemonVars, ask, again, gone>>
    BY <1>16 DEF Cut
  <2>2. RequestEnded(p, "cut")
    BY <2>1, RequestEnds
  <2>3. QED
    BY <1>16, <2>1, <2>2 DEF Cut, RequestEnded, daemonVars
<1>17. CASE FollowEnds(p)
  BY <1>17 DEF FollowEnds, To, daemonVars, processVars, noteVars, bounds
<1>18. QED
  BY <1>1, <1>2, <1>3, <1>4, <1>5, <1>6, <1>7, <1>8, <1>9, <1>10, <1>11, <1>12,
     <1>13, <1>14, <1>15, <1>16, <1>17 DEF ProcessStep

\* A daemon that comes up, stops or belongs to somebody else.
LEMMA DaemonsStep ==
  ASSUME CommandsInv, Serves \/ Stops \/ OtherBuild \/ UNCHANGED commandsVars
  PROVE  CommandsInv'
<1>1. UNCHANGED processVars
  BY DEF Serves, Stops, OtherBuild, commandsVars
<1>2. UNCHANGED <<where, mcp, ask, again, ended, notice, told, completed, differed>>
  BY <1>1 DEF processVars, noteVars
<1>3. QuestionsStartNothing' /\ \A p \in Processes : NoteKept(p)'
  BY <1>2 DEF CommandsInv, QuestionsStartNothing, NoteKept
<1>4. \/ gone' = gone /\ (daemon' = "serving" \/ daemon' = daemon)
      \/ gone' = [p \in Processes |-> gone[p] + 1]
  BY DEF Serves, Stops, OtherBuild, commandsVars, daemonVars
<1>5. CommandsTyped'
  BY <1>2, <1>4 DEF CommandsInv, CommandsTyped
<1>6. ASSUME NEW p \in Processes PROVE Excused(p)'
  <2>1. Excused(p) /\ gone[p] \in Int
    BY DEF CommandsInv, CommandsTyped
  <2>2. CASE gone' = gone /\ (daemon' = "serving" \/ daemon' = daemon)
    BY <1>2, <2>1, <2>2 DEF Excused
  <2>3. CASE gone' = [q \in Processes |-> gone[q] + 1]
    <3>1. PICK g \in Int : g = gone[p] /\ gone'[p] = g + 1 /\ g >= 0
      BY <2>1, <2>3 DEF Excused
    <3>2. /\ again[p] => g >= 1
          /\ ended[p] = "unreachable" /\ ask[p] \notin Questions \cup {"read --follow"} => g >= 2
          /\ where[p] = "follows" => ask[p] = "read --follow"
      BY <2>1, <3>1 DEF Excused
    <3>3. /\ g + 1 >= 0 /\ g + 1 >= 1 /\ (again[p] => g + 1 >= 2)
          /\ ended[p] = "unreachable" /\ ask[p] \notin Questions \cup {"read --follow"} => g + 1 >= 2
      <4>1. g + 1 >= 0 /\ g + 1 >= 1 /\ (g >= 1 => g + 1 >= 2) /\ (g >= 2 => g + 1 >= 2)
        BY <3>1
      <4>2. QED
        BY <3>2, <4>1, Zenon
    <3> DEFINE n == g + 1
    <3>4. gone'[p] = n
      BY <3>1
    <3> HIDE DEF n
    <3>5. /\ n >= 0 /\ n >= 1 /\ (again[p] => n >= 2)
          /\ ended[p] = "unreachable" /\ ask[p] \notin Questions \cup {"read --follow"} => n >= 2
      BY <3>3 DEF n
    <3>6. QED
      BY <1>2, <3>2, <3>4, <3>5 DEF Excused
  <2>4. QED
    BY <1>4, <2>2, <2>3
<1>7. QED
  BY <1>3, <1>5, <1>6 DEF CommandsInv

LEMMA CommandsStart == CommandsInit => CommandsInv
<1> SUFFICES ASSUME CommandsInit PROVE CommandsInv
  OBVIOUS
<1>1. "none" \in Asked
  BY DEF Asked
<1>2. CommandsTyped
  BY <1>1 DEF CommandsInit, CommandsTyped, Places, Results
<1>3. QuestionsStartNothing
  BY DEF CommandsInit, QuestionsStartNothing
<1>4. ASSUME NEW p \in Processes PROVE Excused(p) /\ NoteKept(p)
  BY DEF CommandsInit, Excused, NoteKept
<1>5. QED
  BY <1>2, <1>3, <1>4 DEF CommandsInv

LEMMA CommandsStep == CommandsInv /\ [CommandsNext]_commandsVars => CommandsInv'
<1> SUFFICES ASSUME CommandsInv, [CommandsNext]_commandsVars PROVE CommandsInv'
  OBVIOUS
<1>1. ASSUME NEW p \in Processes, ProcessStep(p) PROVE CommandsInv'
  <2>1. CommandsTyped /\ QuestionsStartNothing
    BY DEF CommandsInv
  <2>2. CommandsTyped' /\ QuestionsStartNothing'
    BY <1>1, <2>1, TypedStep, AskedStep
  <2>3. ASSUME NEW q \in Processes PROVE Excused(q)' /\ NoteKept(q)'
    <3>1. Excused(q) /\ NoteKept(q)
      BY DEF CommandsInv
    <3>2. QED
      BY <1>1, <2>1, <3>1, ExcusedStep, NoteStep
  <2>4. QED
    BY <2>2, <2>3 DEF CommandsInv
<1>2. CASE Serves \/ Stops \/ OtherBuild \/ UNCHANGED commandsVars
  BY <1>2, DaemonsStep
<1>3. QED
  BY <1>1, <1>2 DEF CommandsNext

\* For any number of processes, whatever they are told to do and whenever daemons
\* stop: a question starts no daemon, one repetition is enough unless two daemons
\* stopped, and who met a daemon of another build is told so, once (request_existing,
\* send_after and ensure_daemon in ipc.rs, deliver_notice in server.rs).
THEOREM CommandsHold == CommandsSpec => []CommandsTrue
<1>1. CommandsInv => CommandsTrue
  <2> SUFFICES ASSUME CommandsInv PROVE CommandsTrue
    OBVIOUS
  <2>1. \A p \in Processes : Excused(p) /\ NoteKept(p)
    BY DEF CommandsInv
  <2>2. RetryIsEnough
    BY <2>1 DEF RetryIsEnough, Excused
  <2>3. CommandsTyped
    BY DEF CommandsInv
  <2>4. NoticeReachesOnce
    BY <2>1, <2>3 DEF CommandsTyped, NoticeReachesOnce, NoteKept
  <2>5. QED
    BY <2>2, <2>4 DEF CommandsInv, CommandsTrue
<1>2. QED
  BY <1>1, CommandsStart, CommandsStep, PTL DEF CommandsSpec

-----------------------------------------------------------------------------
(* What the tools do to a port. *)

World ==
  [open : BOOLEAN, levels : {"free", "set"}, rows : Int, files : Int, sent : Int, resets : Int,
   program : Int]

LEMMA MoreTyped == ASSUME NEW n \in Int PROVE More(n) \in Int
BY DEF More

LEMMA CountsTyped ==
  ASSUME NEW w \in World
  PROVE  /\ w.rows \in Int /\ w.files \in Int /\ w.sent \in Int /\ w.resets \in Int
         /\ w.program \in Int /\ w.open \in BOOLEAN
         /\ More(w.rows) \in Int /\ More(w.files) \in Int /\ More(w.sent) \in Int
         /\ More(w.resets) \in Int /\ More(w.program) \in Int
<1>1. /\ w.rows \in Int /\ w.files \in Int /\ w.sent \in Int /\ w.resets \in Int
      /\ w.program \in Int /\ w.open \in BOOLEAN
  BY DEF World
<1>2. QED
  BY <1>1, MoreTyped

LEMMA MarkedTyped == ASSUME NEW w \in World, NEW x \in Marked(w) PROVE x \in World
BY CountsTyped DEF Marked, World

LEMMA AfterToolTyped == ASSUME NEW w \in World, NEW x \in AfterTool(w) PROVE x \in World
<1>1. PICK r \in {w.resets, More(w.resets)}, o \in {FALSE, w.open} :
        x = [w EXCEPT !.resets = r, !.open = o]
  BY DEF AfterTool
<1>2. r \in Int /\ o \in BOOLEAN
  BY CountsTyped
<1>3. QED
  BY <1>1, <1>2 DEF World

LEMMA WrittenTyped == ASSUME NEW w \in World, NEW x \in Written(w) PROVE x \in World
BY CountsTyped DEF Written, World

LEMMA EmptiedTyped ==
  ASSUME NEW w \in World, NEW left, left \subseteq Int, NEW x \in Emptied(w, left)
  PROVE  x \in World
<1>1. PICK n \in left : x \in Written([w EXCEPT !.rows = n])
  BY DEF Emptied
<1>2. [w EXCEPT !.rows = n] \in World
  BY DEF World
<1>3. QED
  BY <1>1, <1>2, WrittenTyped

LEMMA EffectsTyped == ASSUME NEW a, NEW w \in World, NEW x \in Effects(a, w) PROVE x \in World
<1>1. CASE a \in {"open", "serial_open"}
  <2>1. x \in Marked(w) \/ x = [w EXCEPT !.open = TRUE]
    BY <1>1 DEF Effects, Esp
  <2>2. QED
    BY <2>1, MarkedTyped DEF World
<1>2. CASE a \in {"close", "serial_close"}
  <2>1. x = [w EXCEPT !.open = FALSE]
    BY <1>2 DEF Effects, Esp
  <2>2. QED
    BY <2>1 DEF World
<1>3. CASE a \in {"signal", "serial_signal"}
  <2>1. x = [w EXCEPT !.levels = "set"]
    BY <1>3 DEF Effects, Esp
  <2>2. QED
    BY <2>1 DEF World
<1>4. CASE a \in {"clear", "serial_clear"}
  <2>1. x \in Emptied(w, {0, w.rows})
    BY <1>4 DEF Effects, Esp
  <2>2. {0, w.rows} \subseteq Int
    BY CountsTyped
  <2>3. QED
    BY <2>1, <2>2, EmptiedTyped
<1>5. CASE a = "delete"
  <2>1. PICK y \in Emptied(w, 0..w.rows) : x \in Marked(y)
    BY <1>5 DEF Effects, Esp, Deleted
  <2>2. 0..w.rows \subseteq Int
    BY CountsTyped
  <2>3. QED
    BY <2>1, <2>2, EmptiedTyped, MarkedTyped
<1>6. CASE a \in {"export", "serial_export"}
  <2>1. x \in Written(w)
    BY <1>6 DEF Effects, Esp
  <2>2. QED
    BY <2>1, WrittenTyped
<1>7. CASE a \in {"recv", "serial_receive_file"}
  <2>1. PICK y \in Written([w EXCEPT !.sent = More(w.sent)]) : x \in Marked(y)
    BY <1>7 DEF Effects, Esp, Received
  <2>2. [w EXCEPT !.sent = More(w.sent)] \in World
    BY CountsTyped DEF World
  <2>3. QED
    BY <2>1, <2>2, WrittenTyped, MarkedTyped
<1>8. CASE a \in {"write", "serial_write"}
  <2>1. x = [w EXCEPT !.sent = More(w.sent)]
    BY <1>8 DEF Effects, Esp
  <2>2. QED
    BY <2>1, CountsTyped DEF World
<1>9. CASE a \in {"break", "serial_break", "send", "serial_send_file"}
  <2>1. x \in Marked([w EXCEPT !.sent = More(w.sent)])
    BY <1>9 DEF Effects, Esp
  <2>2. [w EXCEPT !.sent = More(w.sent)] \in World
    BY CountsTyped DEF World
  <2>3. QED
    BY <2>1, <2>2, MarkedTyped
<1>10. CASE a \in {"macro", "serial_macro"}
  <2>1. x \in Marked([w EXCEPT !.sent = More(w.sent), !.levels = "set"])
    BY <1>10 DEF Effects, Esp
  <2>2. [w EXCEPT !.sent = More(w.sent), !.levels = "set"] \in World
    BY CountsTyped DEF World
  <2>3. QED
    BY <2>1, <2>2, MarkedTyped
<1>11. CASE a = "serial_esp_info"
  <2>1. x \in AfterTool(w)
    BY <1>11 DEF Effects, Esp
  <2>2. QED
    BY <2>1, AfterToolTyped
<1>12. CASE a \in Esp \ {"serial_esp_info"}
  <2>1. PICK y \in AfterTool(w) : x \in Marked([y EXCEPT !.program = More(y.program)])
    BY <1>12 DEF Effects, Esp, Flashed
  <2>2. y \in World
    BY AfterToolTyped
  <2>3. [y EXCEPT !.program = More(y.program)] \in World
    BY <2>2, CountsTyped DEF World
  <2>4. QED
    BY <2>1, <2>3, MarkedTyped
<1>13. CASE a \notin {"open", "serial_open", "close", "serial_close", "signal", "serial_signal", "clear",
                     "serial_clear", "delete", "export", "serial_export", "recv",
                     "serial_receive_file", "write", "serial_write", "break", "serial_break",
                     "send", "serial_send_file", "macro", "serial_macro", "serial_esp_info"}
               \cup (Esp \ {"serial_esp_info"})
  <2>1. x = w
    BY <1>13 DEF Effects, Esp
  <2>2. QED
    BY <2>1
<1>14. QED
  BY <1>1, <1>2, <1>3, <1>4, <1>5, <1>6, <1>7, <1>8, <1>9, <1>10, <1>11, <1>12, <1>13

LEMMA DoesTyped == ASSUME NEW a, NEW w \in World, NEW x \in Does(a, w) PROVE x \in World
BY EffectsTyped DEF Does

\* The tools that are not announced as destructive.
LEMMA ToolsGentle ==
  \A a \in McpTool \ Destructive : a \in ReadOnly \cup Idempotent \cup {"serial_break"}
BY DEF McpTool

LEMMA InfoEffects ==
  ASSUME NEW a, NEW w \in World, NEW x \in Effects(a, w), a = "serial_esp_info"
  PROVE  x \in AfterTool(w)
BY DEF Effects, Esp

LEMMA ReadEffects ==
  ASSUME NEW a, NEW w \in World, NEW x \in Effects(a, w),
         a \in {"serial_read", "serial_status", "serial_search", "serial_list"}
  PROVE  x = w
BY DEF Effects, Esp

LEMMA ReadsLeave ==
  ASSUME NEW a \in ReadOnly, NEW w \in World, NEW x \in Does(a, w)
  PROVE  x = w \/ (a = "serial_esp_info" /\ x \in AfterTool(w))
<1>1. x = w \/ x \in Effects(a, w)
  BY DEF Does
<1>2. CASE a = "serial_esp_info" /\ x \in Effects(a, w)
  BY <1>2, InfoEffects
<1>3. CASE a # "serial_esp_info" /\ x \in Effects(a, w)
  <2>1. a \in {"serial_read", "serial_status", "serial_search", "serial_list"}
    BY <1>3 DEF ReadOnly
  <2>2. QED
    BY <1>3, <2>1, ReadEffects
<1>4. QED
  BY <1>1, <1>2, <1>3

LEMMA MarkedAdds ==
  ASSUME NEW w \in World, NEW x \in Marked(w)
  PROVE  x.rows >= w.rows /\ x = [w EXCEPT !.rows = x.rows]
<1>1. PICK n \in Int : n = More(w.rows)
  BY CountsTyped, Zenon
<1>2. n >= w.rows
  BY <1>1, CountsTyped DEF More
<1>3. x = w \/ x = [w EXCEPT !.rows = n]
  BY <1>1 DEF Marked
<1>4. QED
  BY <1>2, <1>3 DEF World

\* What each of the idempotent ones may come to.
LEMMA IdempotentDoes ==
  ASSUME NEW a \in Idempotent, NEW w \in World
  PROVE  /\ a = "serial_open" =>
              Does(a, w) = IF w.open THEN {w} \cup Marked(w) ELSE {w, [w EXCEPT !.open = TRUE]}
         /\ a = "serial_close" =>
              Does(a, w) = IF w.open THEN {w, [w EXCEPT !.open = FALSE]} ELSE {w}
         /\ a = "serial_signal" =>
              Does(a, w) = IF w.open THEN {w, [w EXCEPT !.levels = "set"]} ELSE {w}
BY DEF Idempotent, Does, Effects, Esp

LEMMA IdempotentAdds ==
  ASSUME NEW a \in Idempotent, NEW w \in World, NEW x \in Does(a, w)
  PROVE  x.rows >= w.rows /\ x.files = w.files /\ x.program = w.program /\ x.sent = w.sent
<1>1. CASE x \in Marked(w)
  BY <1>1, MarkedAdds DEF World
<1>2. CASE x \in {w, [w EXCEPT !.open = TRUE], [w EXCEPT !.open = FALSE], [w EXCEPT !.levels = "set"]}
  BY <1>2, CountsTyped DEF World
<1>3. QED
  BY <1>1, <1>2, IdempotentDoes DEF Idempotent

\* Two times end where one may, but for rows.
LEMMA IdempotentTwice ==
  ASSUME NEW a \in Idempotent, NEW w \in World, NEW v \in Does(a, w), NEW x \in Does(a, v)
  PROVE  \E y \in Does(a, w) : x = [y EXCEPT !.rows = x.rows]
<1>1. v \in World /\ x \in World /\ w \in Does(a, w)
  BY DoesTyped DEF Does
<1>2. x = [x EXCEPT !.rows = x.rows]
  BY <1>1 DEF World
<1>3. CASE x \in Does(a, w)
  BY <1>2, <1>3
<1>4. CASE a = "serial_open" /\ x \in Marked(v)
  <2>1. x = [v EXCEPT !.rows = x.rows]
    BY <1>1, <1>4, MarkedAdds
  <2>2. QED
    BY <2>1
<1>5. CASE a = "serial_open" /\ x \notin Marked(v) /\ x \notin Does(a, w)
  <2>1. x \in {v, [v EXCEPT !.open = TRUE]} /\ x # v
    BY <1>1, <1>5, IdempotentDoes
  <2>2. ~v.open
    BY <1>1, <1>5, <2>1, IdempotentDoes
  <2>3. v = w
    BY <1>1, <1>5, <2>2, MarkedAdds, IdempotentDoes DEF World
  <2>4. QED
    BY <1>5, <2>3
<1>6. CASE a = "serial_close"
  BY <1>1, <1>2, <1>6, IdempotentDoes DEF World
<1>7. CASE a = "serial_signal"
  BY <1>1, <1>2, <1>7, IdempotentDoes DEF World
<1>8. QED
  BY <1>3, <1>4, <1>5, <1>6, <1>7 DEF Idempotent

WorldTyped == world \in World

LEMMA WorldStep == WorldTyped /\ [CommandsNext]_commandsVars => WorldTyped'
<1> SUFFICES ASSUME world \in World, [CommandsNext]_commandsVars PROVE world' \in World
  BY DEF WorldTyped
<1>1. ASSUME NEW p \in Processes, Connect(p) PROVE world' \in World
  BY <1>1, DoesTyped DEF Connect
<1>2. ASSUME NEW p \in Processes, ProcessStep(p), ~Connect(p) PROVE world' = world
  BY <1>2 DEF ProcessStep, RunCommand, BadConfig, RunMcp, McpReady, CallTool, UnknownTool,
     Disconnects, WarnOnce, DaemonAnswers, SpawnDaemon, NoDaemon, Refused, Answered, TimedOut, Cut,
     FollowEnds, daemonVars
<1>3. CASE Serves \/ Stops \/ OtherBuild \/ UNCHANGED commandsVars
  BY <1>3 DEF Serves, Stops, OtherBuild, commandsVars, daemonVars
<1>4. QED
  BY <1>1, <1>2, <1>3 DEF CommandsNext

\* For any number of processes and whatever they are told to do: what a tool is
\* announced as is what the daemon does for it, in any state of the port and whether it
\* is carried out, fails half way or is refused, serial_esp_info apart as HintsKept says
\* (the annotations of server.rs against the requests of engine.rs).
THEOREM HintsHold == CommandsSpec => HintsTrue
<1>1. CommandsInit => WorldTyped
  BY DEF CommandsInit, WorldTyped, World
<1>2. WorldTyped => HintsKept
  <2> SUFFICES ASSUME world \in World, NEW p \in Processes, Connect(p), ask[p] \in McpTool
               PROVE  /\ ask[p] \in ReadOnly =>
                           \/ world' = world
                           \/ ask[p] = "serial_esp_info" /\ world' \in AfterTool(world)
                      /\ ask[p] \notin Destructive =>
                           /\ world'.rows >= world.rows
                           /\ world'.files = world.files /\ world'.program = world.program
                           /\ ask[p] # "serial_break" => world'.sent = world.sent
                      /\ ask[p] \in Idempotent =>
                           \A x \in Does(ask[p], world') :
                             \E y \in Does(ask[p], world) : x = [y EXCEPT !.rows = x.rows]
    BY DEF HintsKept, WorldTyped
  <2> DEFINE a == ask[p]
             v == world'
  <2>1. v \in Does(a, world) /\ a \in McpTool
    BY DEF Connect
  <2>2. a \in ReadOnly => v = world \/ (a = "serial_esp_info" /\ v \in AfterTool(world))
    BY <2>1, ReadsLeave
  <2>3. ASSUME a \notin Destructive
        PROVE  /\ v.rows >= world.rows /\ v.files = world.files /\ v.program = world.program
               /\ a # "serial_break" => v.sent = world.sent
    <3>1. CASE v = world
      BY <3>1, CountsTyped
    <3>2. CASE v \in AfterTool(world)
      <4>1. PICK r \in {world.resets, More(world.resets)}, o \in {FALSE, world.open} :
              v = [world EXCEPT !.resets = r, !.open = o]
        BY <3>2 DEF AfterTool
      <4>2. QED
        BY <4>1 DEF World
    <3>3. CASE a \in Idempotent
      BY <2>1, <3>3, IdempotentAdds
    <3>4. CASE a = "serial_break" /\ v # world
      <4>1. PICK t \in Int : t = More(world.sent)
        BY CountsTyped, Zenon
      <4>2. v \in Marked([world EXCEPT !.sent = t])
        BY <2>1, <3>4, <4>1 DEF Does, Effects, Esp
      <4>3. [world EXCEPT !.sent = t] \in World
        BY CountsTyped DEF World
      <4>4. QED
        BY <3>4, <4>2, <4>3, MarkedAdds DEF World
    <3>5. QED
      BY <2>1, <2>2, <2>3, <3>1, <3>2, <3>3, <3>4, ToolsGentle
  <2>4. a \in Idempotent =>
          \A x \in Does(a, v) : \E y \in Does(a, world) : x = [y EXCEPT !.rows = x.rows]
    BY <2>1, IdempotentTwice
  <2>5. QED
    BY <2>1, <2>2, <2>3, <2>4
<1>3. QED
  BY <1>1, <1>2, WorldStep, PTL DEF CommandsSpec, HintsTrue
=============================================================================
