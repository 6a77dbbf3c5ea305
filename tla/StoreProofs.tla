------------------------------ MODULE StoreProofs ------------------------------
(***************************************************************************)
(* Proofs about Store, for a log of any length, any batches and pages, and *)
(* any bound on the lines kept.                                            *)
(***************************************************************************)
EXTENDS Store, FiniteSetTheorems, SequenceTheorems, TLAPS

-----------------------------------------------------------------------------
(* Finite sets of ids: ranks, greatest and smallest ids, pages.            *)

IdSets == {S \in SUBSET Nat : IsFiniteSet(S)}

Below(S, r) == {s \in S : s < r}
Beyond(S, r) == {s \in S : s > r}

LEMMA IdSetFacts ==
  /\ \A S \in SUBSET (0 .. MaxId) : S \in IdSets
  /\ \A S \in SUBSET Id : S \in IdSets
  /\ \A S \in IdSets : \A T \in SUBSET S : T \in IdSets
<1> USE StoreAssumption DEF StoreAssumption
<1>1. IsFiniteSet(0 .. MaxId) /\ 0 .. MaxId \subseteq Nat
  BY FS_Interval
<1>2. ASSUME NEW S \in SUBSET (0 .. MaxId) PROVE S \in IdSets
  BY <1>1, FS_Subset DEF IdSets
<1>3. SUBSET Id \subseteq SUBSET (0 .. MaxId)
  BY DEF Id
<1>4. ASSUME NEW S \in IdSets, NEW T \in SUBSET S PROVE T \in IdSets
  BY FS_Subset DEF IdSets
<1>5. QED
  BY <1>2, <1>3, <1>4

\* The elements of a set that are below one of it number fewer the smaller it is.
LEMMA RankGrows ==
  ASSUME NEW S \in IdSets, NEW a \in S, NEW b \in S, a < b
  PROVE  Cardinality(Below(S, a)) < Cardinality(Below(S, b))
<1>0. S \subseteq Nat /\ a \in Nat /\ b \in Nat
  BY DEF IdSets
<1>1. Below(S, a) \in SUBSET Below(S, b) /\ a \in Below(S, b) /\ a \notin Below(S, a)
  <2>1. \A s \in S : s < a => s < b
    BY <1>0
  <2>2. ~(a < a)
    BY <1>0
  <2>3. QED
    BY <2>1, <2>2 DEF Below
<1>2. IsFiniteSet(Below(S, a)) /\ IsFiniteSet(Below(S, b))
  BY FS_Subset DEF Below, IdSets
<1>3. Cardinality(Below(S, a)) <= Cardinality(Below(S, b))
      /\ Cardinality(Below(S, a)) # Cardinality(Below(S, b))
  BY <1>1, <1>2, FS_Subset
<1>4. QED
  BY <1>2, <1>3, FS_CardinalityType

LEMMA RankType ==
  ASSUME NEW S \in IdSets, NEW r \in S
  PROVE  Cardinality(Below(S, r)) \in 0 .. Cardinality(S) - 1
<1>1. Below(S, r) \in SUBSET S /\ r \notin Below(S, r) /\ IsFiniteSet(S)
  BY DEF Below, IdSets
<1>2. IsFiniteSet(Below(S, r)) /\ Cardinality(Below(S, r)) <= Cardinality(S)
      /\ Cardinality(Below(S, r)) # Cardinality(S)
  BY <1>1, FS_Subset
<1>3. QED
  BY <1>1, <1>2, FS_CardinalityType

\* Every rank is taken: for each i there is an element with i - 1 smaller ones.
LEMMA RankTaken ==
  ASSUME NEW S \in IdSets, NEW i \in 1 .. Cardinality(S)
  PROVE  \E r \in S : Cardinality(Below(S, r)) = i - 1
<1> DEFINE N == 1 .. Cardinality(S)
           rank == [r \in S |-> Cardinality(Below(S, r)) + 1]
<1>1. IsFiniteSet(S) /\ S \subseteq Nat /\ Cardinality(S) \in Nat
  BY FS_CardinalityType DEF IdSets
<1>2. rank \in [S -> N]
  BY <1>1, RankType
<1>3. ASSUME NEW a \in S, NEW b \in S, rank[a] = rank[b] PROVE a = b
  <2>1. Cardinality(Below(S, a)) = Cardinality(Below(S, b))
    BY <1>1, <1>3, RankType
  <2>2. ~(a < b) /\ ~(b < a)
    BY <2>1, RankGrows, RankType, <1>1
  <2>3. QED
    BY <1>1, <2>2
<1>4. rank \in Injection(S, N)
  BY <1>2, <1>3 DEF Injection, IsInjective
<1>5. IsFiniteSet(N) /\ Cardinality(N) = Cardinality(S)
  <2> HIDE DEF N
  <2>1. IsFiniteSet(N) /\ Cardinality(N) = IF 1 > Cardinality(S) THEN 0 ELSE Cardinality(S) - 1 + 1
    BY <1>1, FS_Interval DEF N
  <2>2. QED
    BY <1>1, <2>1
<1>6. rank \in Surjection(S, N)
  <2> HIDE DEF N, rank
  <2>1. QED
    BY <1>4, <1>5, FS_Injection
<1>7. PICK r \in S : rank[r] = i
  BY <1>6 DEF Surjection
<1>8. QED
  BY <1>7, <1>1, RankType

LEMMA MaxTheorem ==
  ASSUME NEW S \in IdSets, S # {}
  PROVE  /\ Max(S) \in S /\ \A s \in S : s <= Max(S)
         /\ \A m \in S : (\A s \in S : s <= m) => Max(S) = m
<1>1. IsFiniteSet(S) /\ S \subseteq Nat /\ Cardinality(S) \in Nat \ {0}
  BY FS_CardinalityType, FS_EmptySet DEF IdSets
<1>2. PICK m \in S : Cardinality(Below(S, m)) = Cardinality(S) - 1
  BY <1>1, RankTaken
<1>3. ASSUME NEW s \in S PROVE m >= s
  <2>1. SUFFICES ASSUME m < s PROVE FALSE
    BY <1>1
  <2>2. QED
    BY <1>1, <1>2, <2>1, RankGrows, RankType
<1>4. Max(S) \in S /\ \A s \in S : Max(S) >= s
  BY <1>3 DEF Max
<1>5. ASSUME NEW k \in S, \A s \in S : s <= k PROVE Max(S) = k
  <2>1. Max(S) <= k /\ k <= Max(S) /\ Max(S) \in Nat /\ k \in Nat
    BY <1>1, <1>4, <1>5
  <2>2. QED
    BY <2>1
<1>6. \A s \in S : s <= Max(S)
  <2> SUFFICES ASSUME NEW s \in S PROVE s <= Max(S)
    OBVIOUS
  <2>1. s \in Nat /\ Max(S) \in Nat /\ Max(S) >= s
    BY <1>1, <1>4
  <2>2. QED
    BY <2>1
<1>7. QED
  BY <1>4, <1>5, <1>6

LEMMA MinTheorem ==
  ASSUME NEW S \in IdSets, S # {}
  PROVE  Min(S) \in S /\ \A s \in S : Min(S) <= s
<1>1. IsFiniteSet(S) /\ S \subseteq Nat /\ Cardinality(S) \in Nat \ {0}
  BY FS_CardinalityType, FS_EmptySet DEF IdSets
<1>2. PICK m \in S : Cardinality(Below(S, m)) = 0
  BY <1>1, RankTaken
<1>3. ASSUME NEW s \in S PROVE m <= s
  <2>1. SUFFICES ASSUME s < m PROVE FALSE
    BY <1>1
  <2>2. QED
    BY <1>1, <1>2, <2>1, RankGrows, RankType
<1>4. QED
  BY <1>3 DEF Min

\* The first n ids are a beginning of the set, and none only if it is empty.
LEMMA FirstOfTheorem ==
  ASSUME NEW S \in IdSets, NEW n \in Nat \ {0}
  PROVE  /\ FirstOf(S, n) \in IdSets /\ FirstOf(S, n) \subseteq S
         /\ \A s \in S, t \in FirstOf(S, n) : s <= t => s \in FirstOf(S, n)
         /\ FirstOf(S, n) = {} => S = {}
<1>1. FirstOf(S, n) = {r \in S : Cardinality(Below(S, r)) < n} /\ S \subseteq Nat
  BY DEF FirstOf, Below, IdSets
<1>2. ASSUME NEW s \in S, NEW t \in FirstOf(S, n), s <= t PROVE s \in FirstOf(S, n)
  <2>1. CASE s = t
    BY <2>1
  <2>2. CASE s < t
    <3>1. t \in S /\ Cardinality(Below(S, t)) < n /\ IsFiniteSet(S)
      BY <1>1 DEF IdSets
    <3>2. Cardinality(Below(S, s)) < Cardinality(Below(S, t))
      BY <2>2, <3>1, RankGrows
    <3>3. Cardinality(Below(S, s)) \in Int /\ Cardinality(Below(S, t)) \in Int
      BY <3>1, RankType, FS_CardinalityType
    <3>4. Cardinality(Below(S, s)) < n
      BY <3>1, <3>2, <3>3
    <3>5. QED
      BY <1>1, <3>4
  <2>3. s \in Nat /\ t \in Nat
    BY <1>1
  <2>4. s = t \/ s < t
    BY <1>2, <2>3
  <2>5. QED
    BY <2>1, <2>2, <2>4
<1>3. ASSUME S # {} PROVE FirstOf(S, n) # {}
  <2>1. Cardinality(S) \in Nat \ {0}
    BY <1>3, FS_CardinalityType, FS_EmptySet DEF IdSets
  <2>2. PICK m \in S : Cardinality(Below(S, m)) = 0
    BY <2>1, RankTaken
  <2>3. QED
    BY <1>1, <2>2
<1>4. QED
  BY <1>1, <1>2, <1>3, IdSetFacts

LEMMA LastOfTheorem ==
  ASSUME NEW S \in IdSets, NEW n \in Nat
  PROVE  /\ LastOf(S, n) \in IdSets /\ LastOf(S, n) \subseteq S
         /\ n # 0 /\ S # {} => LastOf(S, n) # {}
<1>1. LastOf(S, n) \subseteq S
  BY DEF LastOf
<1>2. ASSUME n # 0, S # {} PROVE LastOf(S, n) # {}
  <2>1. Max(S) \in S /\ \A s \in S : s <= Max(S)
    BY <1>2, MaxTheorem
  <2>2. {s \in S : s > Max(S)} = {}
    <3>1. SUFFICES ASSUME NEW s \in S, s > Max(S) PROVE FALSE
      OBVIOUS
    <3>2. s \in Nat /\ Max(S) \in Nat /\ s <= Max(S)
      BY <2>1 DEF IdSets
    <3>3. QED
      BY <3>1, <3>2
  <2>3. QED
    BY <1>2, <2>1, <2>2, FS_EmptySet DEF LastOf
<1>3. QED
  BY <1>1, <1>2, IdSetFacts

LEMMA CountBound ==
  ASSUME NEW m \in Nat, NEW S \in SUBSET (1 .. m)
  PROVE  Cardinality(S) \in Nat /\ Cardinality(S) <= m
<1>1. IsFiniteSet(1 .. m) /\ Cardinality(1 .. m) = IF 1 > m THEN 0 ELSE m - 1 + 1
  BY FS_Interval
<1>2. Cardinality(1 .. m) = m
  BY <1>1
<1>3. QED
  BY <1>1, <1>2, FS_Subset, FS_CardinalityType

\* A page in ascending order: all of it, in order.
LEMMA AscendingTheorem ==
  ASSUME NEW S \in IdSets, NEW T, S \subseteq T
  PROVE  /\ Ascending(S) \in Seq(T) /\ Len(Ascending(S)) = Cardinality(S)
         /\ Cardinality(S) \in Nat
         /\ \A i \in 1 .. Cardinality(S) : Ascending(S)[i] \in S
         /\ \A r \in S : \E i \in 1 .. Cardinality(S) : Ascending(S)[i] = r
         /\ \A i, j \in 1 .. Cardinality(S) : i < j => Ascending(S)[i] < Ascending(S)[j]
<1> DEFINE n == Cardinality(S)
           at(i) == CHOOSE r \in S : Cardinality(Below(S, r)) = i - 1
<1>1. n \in Nat /\ S \subseteq Nat
  BY FS_CardinalityType DEF IdSets
<1>2. Ascending(S) = [i \in 1 .. n |-> at(i)]
  BY DEF Ascending, Below
<1>3. ASSUME NEW i \in 1 .. n PROVE at(i) \in S /\ Cardinality(Below(S, at(i))) = i - 1
  BY RankTaken
<1> HIDE DEF at
<1>4. ASSUME NEW i \in 1 .. n PROVE Ascending(S)[i] = at(i) /\ at(i) \in T
  BY <1>2, <1>3
<1>5. Ascending(S) \in [1 .. n -> T]
  BY <1>2, <1>3
<1>6. Ascending(S) \in Seq(T) /\ Len(Ascending(S)) = n
  <2> HIDE DEF n
  <2>1. QED
    BY <1>1, <1>5
<1>7. ASSUME NEW r \in S PROVE \E i \in 1 .. n : Ascending(S)[i] = r
  <2> DEFINE i == Cardinality(Below(S, r)) + 1
  <2>1. i \in 1 .. n /\ Cardinality(Below(S, r)) = i - 1
    BY <1>1, RankType
  <2>2. at(i) \in S /\ Cardinality(Below(S, at(i))) = Cardinality(Below(S, r))
    BY <1>3, <2>1
  <2>3. ~(at(i) < r) /\ ~(r < at(i))
    <3>1. Cardinality(Below(S, r)) \in Int /\ IsFiniteSet(S)
      BY <1>1, RankType DEF IdSets
    <3>2. at(i) < r => Cardinality(Below(S, at(i))) < Cardinality(Below(S, r))
      BY <2>2, RankGrows
    <3>3. r < at(i) => Cardinality(Below(S, r)) < Cardinality(Below(S, at(i)))
      BY <2>2, RankGrows
    <3>4. QED
      BY <2>2, <3>1, <3>2, <3>3
  <2>4. at(i) = r
    <3>1. at(i) \in Nat /\ r \in Nat
      BY <1>1, <2>2
    <3>2. QED
      BY <2>3, <3>1
  <2>5. QED
    BY <1>4, <2>1, <2>4
<1>8. ASSUME NEW i \in 1 .. n, NEW j \in 1 .. n, i < j PROVE at(i) < at(j)
  <2>1. at(i) \in S /\ at(j) \in S /\ at(i) # at(j)
    BY <1>1, <1>3, <1>8
  <2>2. ~(at(j) < at(i))
    <3>1. SUFFICES ASSUME at(j) < at(i) PROVE FALSE
      OBVIOUS
    <3>2. Cardinality(Below(S, at(j))) < Cardinality(Below(S, at(i)))
      BY <2>1, <3>1, RankGrows
    <3>3. QED
      BY <1>1, <1>3, <1>8, <3>2
  <2>3. at(i) \in Nat /\ at(j) \in Nat
    BY <1>1, <2>1
  <2>4. QED
    BY <2>1, <2>2, <2>3
<1>9. QED
  BY <1>1, <1>3, <1>4, <1>6, <1>7, <1>8

-----------------------------------------------------------------------------
(* The invariant. *)

\* Whoever is between two statements of one request has the daemon's handle.
Handles ==
  /\ "writer" \in trimming => handle = "writer"
  /\ follow.pc \in {"read", "last"} => handle = "follower"
  /\ \A v \in Views : pc[v] \in {"copy", "remove"} => handle = v

\* A follower that has printed nothing has passed over notes only, and its
\* cursor is behind whatever it printed.
Following ==
  /\ follow.cursor < next
  /\ follow.pc # "poll" => follow.printed = <<>>
  /\ follow.pc = "last" => \A r \in rows \ notes : r < follow.first
  /\ \A i \in 1 .. Len(follow.printed) : follow.printed[i] <= follow.cursor
  /\ FollowerMissesNothing /\ FollowerInOrder

\* Ids are given in order: no view has seen one that is still to come.
Seen(v) ==
  /\ last[v] < next
  /\ ask[v].anchor < next /\ ask[v].through < next

\* A screen shows what its view has read, in order, behind what the cap took off.
Screened(s, after, upto) ==
  \A j \in 1 .. Len(s) : s[j] # 0 =>
    /\ after < s[j] /\ s[j] <= upto
    /\ \A i \in 1 .. j - 1 : s[i] < s[j]
OnScreen(v) ==
  /\ dropped[v] <= last[v] /\ Len(screen[v]) <= DisplayLimit
  /\ Screened(screen[v], dropped[v], last[v])

\* What a request is about: before it removes, it would take no more than was
\* counted and copied;
Asked(v) ==
  /\ pc[v] = "closed" => last[v] = 0
  /\ v \in adrift => pc[v] \in Waiting
  /\ pc[v] = "question" => ask[v].kind \in {"above", "below"}
  /\ pc[v] \in Waiting => ask[v].kind # "none"
  /\ pc[v] \in {"question", "queued", "copy", "remove"} /\ ask[v].kind # "clear"
       => Taken(ask[v]) \subseteq ask[v].counted
  /\ pc[v] = "remove" /\ ask[v].archive => rows \ notes \subseteq copy[v]

\* afterwards nothing of that kind is left.
Removed(v) ==
  pc[v] \in {"mark", "answer", "error"} =>
    /\ ask[v].kind # "clear" => gone[v] \subseteq ask[v].counted
    /\ ask[v].archive => gone[v] \ notes \subseteq copy[v]
    /\ ask[v].kind = "clear" /\ v \notin adrift => \A r \in rows : last[v] < r
    /\ ask[v].kind = "above" =>
         (\A r \in rows : ask[v].anchor <= r) /\ (\A r \in gone[v] : r < ask[v].anchor)
    /\ ask[v].kind = "below" =>
         /\ \A r \in rows : r <= ask[v].anchor \/ ask[v].through < r
         /\ \A r \in gone[v] : ask[v].anchor < r /\ r <= ask[v].through

\* NothingHidden of one view.
Shown(v) ==
  \A r \in rows : start[v] < r /\ dropped[v] < r /\ r <= last[v] => r \in Ids(screen[v])

ViewTrue(v) == Seen(v) /\ Asked(v) /\ Removed(v) /\ OnScreen(v) /\ Shown(v)

RowsFresh == \A r \in rows : r < next

Inv == TypeOK /\ RowsFresh /\ Handles /\ Following /\ \A v \in Views : ViewTrue(v)

\* The types, by whom the variables belong to.
LogOK == rows \subseteq Id /\ next \in 1 .. MaxId + 1 /\ notes \subseteq Id
WriterOK ==
  /\ handle \in {"free", "writer", "follower"} \cup Views
  /\ batches \in [Writer -> 0 .. BatchesPerTrim - 1]
  /\ trimming \subseteq Writer /\ oldLeft \in 0 .. OldBatches
ViewOK ==
  /\ pc \in [Views -> ViewPc]
  /\ last \in [Views -> 0 .. MaxId] /\ start \in [Views -> 0 .. MaxId]
  /\ screen \in [Views -> Seq(0 .. MaxId)] /\ dropped \in [Views -> 0 .. MaxId]
  /\ \A v \in Views : Len(screen[v]) <= DisplayLimit
  /\ adrift \subseteq Views
  /\ noteCount \in 0 .. MaxNotes
AskOK ==
  ask \in [Views -> Ask] /\ copy \in [Views -> SUBSET Id] /\ gone \in [Views -> SUBSET Id]
FollowOK ==
  follow \in [pc : {"off", "read", "last", "poll"}, first : 0 .. MaxId, cursor : 0 .. MaxId,
              printed : Seq(Id)]

LEMMA TypeParts ==
  /\ TypeOK => scene \in Scenes /\ LogOK /\ WriterOK /\ ViewOK /\ AskOK /\ FollowOK
  /\ scene' \in Scenes /\ LogOK' /\ WriterOK' /\ ViewOK' /\ AskOK' /\ FollowOK' => TypeOK'
  BY DEF TypeOK, LogOK, WriterOK, ViewOK, AskOK, FollowOK

\* The log only loses rows, or gains rows nobody has seen.
Moves ==
  /\ next <= next'
  /\ \A r \in rows' : r \in rows \/ (next <= r /\ r < next')

LEMMA InsertTheorem ==
  ASSUME TypeOK
  PROVE  /\ \A n \in 1 .. MaxBatch : Insert(NewIds(n)) =>
              /\ next' \in 1 .. MaxId + 1 /\ next' = next + n
              /\ rows' = rows \cup NewIds(n) /\ NewIds(n) \subseteq Id
              /\ \A r \in NewIds(n) : next <= r /\ r < next'
         /\ Insert({next}) =>
              /\ next' \in 1 .. MaxId + 1 /\ next' = next + 1
              /\ rows' = rows \cup {next} /\ next \in Id
<1> USE StoreAssumption DEF StoreAssumption
<1>1. next \in Nat \ {0}
  BY DEF TypeOK
<1>2. ASSUME NEW n \in 1 .. MaxBatch, Insert(NewIds(n))
      PROVE  /\ next' \in 1 .. MaxId + 1 /\ next' = next + n
             /\ rows' = rows \cup NewIds(n) /\ NewIds(n) \subseteq Id
             /\ \A r \in NewIds(n) : next <= r /\ r < next'
  <2>1. NewIds(n) \in IdSets /\ next + n - 1 \in NewIds(n)
    BY <1>1, <1>2, IdSetFacts DEF NewIds, Insert
  <2>2. \A r \in NewIds(n) : r <= next + n - 1
    BY <1>1 DEF NewIds
  <2>3. Max(NewIds(n)) = next + n - 1
    BY <2>1, <2>2, MaxTheorem
  <2>4. next + n - 1 \in Id
    BY <1>2, <2>1 DEF Insert
  <2>5. QED
    BY <1>1, <1>2, <2>3, <2>4 DEF Insert, NewIds, Id
<1>3. ASSUME Insert({next})
      PROVE  /\ next' \in 1 .. MaxId + 1 /\ next' = next + 1
             /\ rows' = rows \cup {next} /\ next \in Id
  <2>1. {next} \in IdSets /\ next \in {next} /\ \A r \in {next} : r <= next
    BY <1>1, <1>3, IdSetFacts DEF Insert
  <2>2. Max({next}) = next
    BY <2>1, MaxTheorem
  <2>3. QED
    BY <1>1, <1>3, <2>2 DEF Insert, Id
<1>4. QED
  BY <1>2, <1>3

LEMMA TrimmedTheorem == TypeOK => Trimmed \subseteq rows
<1> SUFFICES ASSUME TypeOK PROVE Trimmed \subseteq rows
  OBVIOUS
<1>1. rows \in IdSets
  BY IdSetFacts DEF TypeOK
<1>2. QED
  BY <1>1, LastOfTheorem, StoreAssumption DEF Trimmed, StoreAssumption

-----------------------------------------------------------------------------
(* What stays true while others work on the log. *)

USE StoreAssumption DEF StoreAssumption, logVars, writerVars, askVars, viewVars,
        Views, Reader, Guest, Writer, Id

\* A view that stands still does not notice what the others do, provided that
\* its copy is not overtaken by the daemon while it holds the handle.
LEMMA ViewWaits ==
  ASSUME Inv, LogOK', Moves, notes \subseteq notes', NEW v \in Views,
         pc'[v] = pc[v], last'[v] = last[v], start'[v] = start[v], screen'[v] = screen[v],
         dropped'[v] = dropped[v], v \in adrift' <=> v \in adrift,
         ask'[v] = ask[v], copy'[v] = copy[v], gone'[v] = gone[v],
         pc[v] = "remove" => rows' \ notes' \subseteq rows \ notes
  PROVE  ViewTrue(v)'
<1>1. /\ last[v] \in Nat /\ start[v] \in Nat /\ ask[v] \in Ask /\ next \in Nat /\ next' \in Nat
      /\ rows \subseteq Nat /\ rows' \subseteq Nat /\ ViewTrue(v)
  <2>1. next \in Nat /\ next' \in Nat /\ rows \subseteq Nat /\ rows' \subseteq Nat
    BY TypeParts DEF Inv, LogOK
  <2>2. last[v] \in 0 .. MaxId /\ start[v] \in 0 .. MaxId /\ ask[v] \in Ask
    BY DEF Inv, TypeOK
  <2>3. ViewTrue(v)
    BY DEF Inv
  <2>4. QED
    BY <2>1, <2>2, <2>3
<1>2. Seen(v)'
  BY <1>1 DEF ViewTrue, Seen, Moves, Ask
<1>3. Asked(v)'
  <2>1. ask[v].kind # "clear" => \A r \in Taken(ask[v])' : r \in Taken(ask[v])
    BY <1>1 DEF Taken, Ask, Moves, ViewTrue, Seen
  <2>2. QED
    BY <1>1, <2>1 DEF ViewTrue, Asked
<1>4. Removed(v)'
  <2>1. /\ last[v] < next /\ ask[v].anchor < next /\ ask[v].through < next
        /\ ask[v].anchor \in Nat /\ ask[v].through \in Nat /\ Removed(v)
    BY <1>1 DEF ViewTrue, Seen, Ask
  <2>2. ASSUME NEW r \in rows', r \notin rows
        PROVE  last[v] < r /\ ask[v].anchor <= r /\ ask[v].through < r
    BY <1>1, <2>1, <2>2 DEF Moves
  <2>3. QED
    BY <2>1, <2>2 DEF Removed
<1>5. Shown(v)'
  <2>1. ASSUME NEW r \in rows', r <= last[v] PROVE r \in rows
    BY <1>1, <2>1 DEF ViewTrue, Seen, Moves
  <2>2. QED
    BY <1>1, <2>1 DEF ViewTrue, Shown, Ids
<1>6. OnScreen(v)'
  BY <1>1 DEF ViewTrue, OnScreen, Screened
<1>7. QED
  BY <1>2, <1>3, <1>4, <1>5, <1>6 DEF ViewTrue

\* Neither does a follower, provided that only notes come between its statements.
LEMMA FollowerWaits ==
  ASSUME Inv, LogOK', Moves, notes \subseteq notes', UNCHANGED follow,
         follow.pc = "last" => rows' \ notes' \subseteq rows \ notes
  PROVE  Following'
<1>1. /\ follow.cursor \in Nat /\ next \in Nat /\ next' \in Nat
      /\ rows \subseteq Nat /\ rows' \subseteq Nat /\ Following
  BY TypeParts DEF Inv, LogOK, FollowOK
<1>2. FollowerMissesNothing'
  BY <1>1 DEF Following, FollowerMissesNothing, Printed, Moves
<1>3. QED
  BY <1>1, <1>2 DEF Following, FollowerInOrder, Moves

-----------------------------------------------------------------------------
(* The writers. *)

LEMMA StoreBatchKeeps ==
  ASSUME Inv, NEW w \in Writer, StoreBatch(w), UNCHANGED scene
  PROVE  Inv'
<1>1. PICK n \in 1 .. MaxBatch :
        /\ Insert(NewIds(n))
        /\ notes' = IF w = "old" THEN notes \cup NewIds(n) ELSE notes
  BY DEF StoreBatch
<1>2. /\ next' \in 1 .. MaxId + 1 /\ next' = next + n
      /\ rows' = rows \cup NewIds(n) /\ NewIds(n) \subseteq Id
      /\ \A r \in NewIds(n) : next <= r /\ r < next'
  BY <1>1, InsertTheorem DEF Inv
<1>3. next \in Nat /\ rows \subseteq Id /\ notes \subseteq Id
  BY DEF Inv, TypeOK
<1>4. LogOK' /\ Moves /\ notes \subseteq notes'
  <2>1. LogOK' /\ notes \subseteq notes'
    BY <1>1, <1>2, <1>3 DEF LogOK
  <2>2. next <= next' /\ \A r \in rows' : r \in rows \/ r \in NewIds(n)
    BY <1>2, <1>3
  <2>3. QED
    BY <1>2, <2>1, <2>2 DEF Moves
<1>5. WriterFree(w) /\ UNCHANGED <<askVars, viewVars, follow>>
  BY DEF StoreBatch
<1>6. handle \notin {"free"} => rows' \ notes' \subseteq rows \ notes
  BY <1>1, <1>2, <1>5 DEF WriterFree
<1>7. TypeOK'
  <2>1. WriterOK'
    <3>1. \A c \in 0 .. BatchesPerTrim - 1 : (c + 1) % BatchesPerTrim \in 0 .. BatchesPerTrim - 1
      OBVIOUS
    <3>2. oldLeft' \in 0 .. OldBatches
      BY TypeParts DEF Inv, WriterOK, StoreBatch
    <3>3. CASE MaxBufferLines = 0
      BY <3>2, <3>3 DEF Inv, TypeOK, WriterOK, StoreBatch
    <3>4. CASE MaxBufferLines # 0
      <4> DEFINE count == (batches[w] + 1) % BatchesPerTrim
      <4>1. count \in 0 .. BatchesPerTrim - 1
        BY <3>1 DEF Inv, TypeOK
      <4>2. /\ batches' = [batches EXCEPT ![w] = count]
            /\ trimming' = IF count = 0 THEN trimming \cup {w} ELSE trimming
            /\ handle' = IF count = 0 /\ w = "writer" THEN w ELSE handle
        BY <3>4 DEF StoreBatch
      <4> HIDE DEF count
      <4>3. QED
        BY <3>2, <4>1, <4>2 DEF Inv, TypeOK, WriterOK
    <3>5. QED
      BY <3>3, <3>4
  <2>2. ViewOK' /\ AskOK' /\ FollowOK' /\ scene' \in Scenes
    BY <1>5, TypeParts DEF Inv, ViewOK, AskOK, FollowOK
  <2>3. QED
    BY <1>4, <2>1, <2>2, TypeParts
<1>8. RowsFresh'
  BY <1>2, <1>3 DEF Inv, RowsFresh
<1>9. Handles'
  BY <1>5 DEF Inv, Handles, StoreBatch, WriterFree
<1>10. Following'
  <2>1. follow.pc = "last" => handle # "free"
    BY DEF Inv, Handles
  <2>2. QED
    BY <1>4, <1>5, <1>6, <2>1, FollowerWaits
<1>11. ASSUME NEW v \in Views PROVE ViewTrue(v)'
  <2>1. pc[v] = "remove" => handle # "free"
    BY DEF Inv, Handles
  <2>2. QED
    BY <1>4, <1>5, <1>6, <2>1, ViewWaits
<1>12. QED
  BY <1>7, <1>8, <1>9, <1>10, <1>11 DEF Inv

LEMMA TrimKeeps ==
  ASSUME Inv, NEW w \in Writer, Trim(w), UNCHANGED scene
  PROVE  Inv'
<1>1. rows' \subseteq rows
  BY TrimmedTheorem DEF Inv, Trim
<1>2. UNCHANGED <<next, notes, batches, oldLeft, askVars, viewVars, follow>>
  BY DEF Trim
<1>3. LogOK' /\ Moves /\ notes \subseteq notes' /\ rows' \ notes' \subseteq rows \ notes
  BY <1>1, <1>2 DEF Inv, TypeOK, LogOK, Moves
<1>4. TypeOK'
  <2>1. WriterOK'
    BY DEF Inv, TypeOK, WriterOK, Trim
  <2>2. ViewOK' /\ AskOK' /\ FollowOK' /\ scene' \in Scenes
    BY <1>2, TypeParts DEF Inv, ViewOK, AskOK, FollowOK
  <2>3. QED
    BY <1>3, <2>1, <2>2, TypeParts
<1>5. RowsFresh'
  BY <1>1, <1>2 DEF Inv, RowsFresh
<1>6. Handles'
  BY DEF Inv, Handles, Trim
<1>7. Following'
  BY <1>2, <1>3, FollowerWaits
<1>8. ASSUME NEW v \in Views PROVE ViewTrue(v)'
  BY <1>2, <1>3, ViewWaits
<1>9. QED
  BY <1>4, <1>5, <1>6, <1>7, <1>8 DEF Inv

-----------------------------------------------------------------------------
(* The views and their requests.  A step of one view is a step of the log  *)
(* at most, for the other view and the follower.                           *)

Elsewhere(v) ==
  \A u \in Views \ {v} :
    /\ pc'[u] = pc[u] /\ last'[u] = last[u] /\ start'[u] = start[u] /\ screen'[u] = screen[u]
    /\ dropped'[u] = dropped[u] /\ (u \in adrift' <=> u \in adrift)
    /\ ask'[u] = ask[u] /\ copy'[u] = copy[u] /\ gone'[u] = gone[u]

LEMMA ViewMoves ==
  ASSUME Inv, NEW v \in Views, UNCHANGED <<scene, follow>>, Elsewhere(v),
         LogOK', Moves, notes \subseteq notes', WriterOK', ViewOK', AskOK', RowsFresh', Handles',
         handle \notin {"free", v} => rows' \ notes' \subseteq rows \ notes,
         ViewTrue(v)'
  PROVE  Inv'
<1>1. TypeOK'
  BY TypeParts DEF Inv, FollowOK
<1>2. Following'
  <2>1. follow.pc = "last" => handle \notin {"free", v}
    BY DEF Inv, Handles
  <2>2. QED
    BY <2>1, FollowerWaits
<1>3. ASSUME NEW u \in Views \ {v} PROVE ViewTrue(u)'
  <2>1. pc[u] = "remove" => handle \notin {"free", v}
    BY DEF Inv, Handles
  <2>2. QED
    BY <2>1, ViewWaits DEF Elsewhere
<1>4. QED
  BY <1>1, <1>2, <1>3 DEF Inv

LEMMA ViewAlone ==
  ASSUME Inv, NEW v \in Views, UNCHANGED <<scene, logVars, writerVars, follow>>, Elsewhere(v),
         ViewOK', AskOK', pc'[v] \notin {"copy", "remove"}, ViewTrue(v)'
  PROVE  Inv'
<1>1. LogOK' /\ WriterOK' /\ Moves /\ notes \subseteq notes'
  BY DEF Inv, TypeOK, LogOK, WriterOK, Moves
<1>2. RowsFresh' /\ Handles'
  BY DEF Inv, RowsFresh, Handles, Elsewhere
<1>3. QED
  BY <1>1, <1>2, ViewMoves

\* The requests a view makes of its question, and a clear.
Archiving(a, archive) == [a EXCEPT !.archive = archive]
Clearing(archive) == [NoAsk EXCEPT !.kind = "clear", !.archive = archive]

LEMMA NoAskType == NoAsk \in Ask /\ NoAsk.kind = "none" /\ NoAsk.anchor = 0 /\ NoAsk.through = 0
  BY DEF NoAsk, Ask

LEMMA ArchivingType ==
  ASSUME NEW a \in Ask, NEW archive \in BOOLEAN
  PROVE  LET q == Archiving(a, archive)
         IN  /\ q \in Ask /\ q.kind = a.kind /\ q.anchor = a.anchor /\ q.through = a.through
             /\ q.counted = a.counted
  BY DEF Ask, Archiving

LEMMA ClearingType ==
  ASSUME NEW archive \in BOOLEAN
  PROVE  LET q == Clearing(archive)
         IN  q \in Ask /\ q.kind = "clear" /\ q.anchor = 0 /\ q.through = 0
<1>1. ASSUME NEW a \in Ask
      PROVE  LET q == [a EXCEPT !.kind = "clear", !.archive = archive]
             IN  q \in Ask /\ q.kind = "clear" /\ q.anchor = a.anchor /\ q.through = a.through
  BY DEF Ask
<1>2. QED
  BY <1>1, NoAskType DEF Clearing

\* Screens: what a page adds, a text without an id, what the cap takes off and
\* what a deletion leaves.
LEMMA IdsTheorem ==
  ASSUME NEW s \in Seq(0 .. MaxId)
  PROVE  /\ DOMAIN s = 1 .. Len(s) /\ Len(s) \in Nat
         /\ \A i \in 1 .. Len(s) : s[i] \in 0 .. MaxId
         /\ \A r : r \in Ids(s) <=> (r # 0 /\ \E i \in 1 .. Len(s) : s[i] = r)
         /\ Ids(s) \in SUBSET Id
<1>1. DOMAIN s = 1 .. Len(s) /\ Len(s) \in Nat /\ \A i \in 1 .. Len(s) : s[i] \in 0 .. MaxId
  BY LenProperties, ElementOfSeq
<1>2. \A r : r \in Ids(s) <=> (r # 0 /\ \E i \in 1 .. Len(s) : s[i] = r)
  BY <1>1 DEF Ids
<1>3. Ids(s) \in SUBSET Id
  BY <1>1, <1>2
<1>4. QED
  BY <1>1, <1>2, <1>3

LEMMA ScreenGrows ==
  ASSUME NEW s \in Seq(0 .. MaxId), NEW after \in Nat, NEW upto \in Nat, NEW most \in Nat,
         Screened(s, after, upto), after <= upto, upto <= most,
         NEW page \in SUBSET Id, \A r \in page : upto < r /\ r <= most
  PROVE  LET all == s \o Ascending(page)
         IN  all \in Seq(0 .. MaxId) /\ Screened(all, after, most) /\ Ids(all) = Ids(s) \cup page
<1> DEFINE more == Ascending(page)
           all == s \o more
           n == Len(s)
           m == Len(more)
<1>1. /\ more \in Seq(0 .. MaxId) /\ m \in Nat
      /\ \A i \in 1 .. m : more[i] \in page
      /\ \A r \in page : \E i \in 1 .. m : more[i] = r
      /\ \A i, j \in 1 .. m : i < j => more[i] < more[j]
  <2>1. page \in IdSets /\ page \subseteq 0 .. MaxId
    BY IdSetFacts
  <2>2. QED
    BY <2>1, AscendingTheorem
<1>2. n \in Nat /\ \A i \in 1 .. n : s[i] \in 0 .. MaxId
  BY IdsTheorem
<1>3. all \in Seq(0 .. MaxId) /\ Len(all) = n + m
      /\ \A i \in 1 .. n + m : all[i] = IF i <= n THEN s[i] ELSE more[i - n]
  BY <1>1, ConcatProperties
<1> HIDE DEF more, all
<1>4. Screened(all, after, most)
  <2> SUFFICES ASSUME NEW j \in 1 .. n + m, all[j] # 0
               PROVE  /\ after < all[j] /\ all[j] <= most
                      /\ \A i \in 1 .. j - 1 : all[i] < all[j]
    BY <1>3 DEF Screened
  <2>1. CASE j <= n
    <3>1. j \in 1 .. n /\ all[j] = s[j]
      BY <1>2, <1>3, <2>1
    <3>2. after < s[j] /\ s[j] <= upto /\ \A i \in 1 .. j - 1 : s[i] < s[j]
      BY <2>1, <3>1 DEF Screened
    <3>3. \A i \in 1 .. j - 1 : all[i] = s[i]
      BY <1>1, <1>2, <1>3, <2>1
    <3>4. s[j] <= most
      BY <1>2, <3>1, <3>2
    <3>5. QED
      BY <3>1, <3>2, <3>3, <3>4
  <2>2. CASE n < j
    <3>1. j - n \in 1 .. m /\ all[j] = more[j - n]
      BY <1>1, <1>2, <1>3, <2>2
    <3>2. more[j - n] \in page /\ all[j] \in page
      BY <1>1, <3>1
    <3>3. upto < all[j] /\ all[j] <= most /\ all[j] \in Nat
      <4>1. \A r \in page : r \in Nat
        OBVIOUS
      <4> HIDE DEF m, n
      <4>2. QED
        BY <3>2, <4>1
    <3>4. ASSUME NEW i \in 1 .. j - 1 PROVE all[i] < all[j]
      <4>1. CASE i <= n
        <5>1. i \in 1 .. n /\ all[i] = s[i] /\ s[i] \in Nat
          BY <1>1, <1>2, <1>3, <4>1
        <5>2. s[i] = 0 \/ s[i] <= upto
          BY <5>1 DEF Screened
        <5>3. QED
          BY <3>3, <5>1, <5>2
      <4>2. CASE n < i
        <5>1. i \in 1 .. n + m /\ ~(i <= n) /\ i - n \in 1 .. m /\ i - n < j - n
          BY <1>1, <1>2, <2>2, <4>2
        <5>2. all[i] = more[i - n]
          BY <1>3, <5>1
        <5>3. QED
          BY <1>1, <3>1, <5>1, <5>2
      <4>3. QED
        BY <1>2, <4>1, <4>2
    <3>5. QED
      BY <3>3, <3>4
  <2>3. QED
    BY <1>2, <2>1, <2>2
<1>5. ASSUME NEW r PROVE r \in Ids(all) <=> r \in Ids(s) \cup page
  <2>1. ASSUME r \in Ids(all) PROVE r \in Ids(s) \cup page
    <3>1. PICK i \in 1 .. n + m : all[i] = r /\ r # 0
      BY <1>3, <2>1, IdsTheorem
    <3>2. CASE i <= n
      <4>1. i \in 1 .. n /\ s[i] = r
        BY <1>1, <1>2, <1>3, <3>1, <3>2
      <4>2. QED
        BY <3>1, <4>1, IdsTheorem
    <3>3. CASE n < i
      <4>1. i - n \in 1 .. m /\ ~(i <= n)
        BY <1>1, <1>2, <3>1, <3>3
      <4>2. all[i] = more[i - n]
        BY <1>3, <3>1, <4>1
      <4>3. QED
        BY <1>1, <3>1, <4>1, <4>2
    <3>4. QED
      BY <1>2, <3>2, <3>3
  <2>2. ASSUME r \in Ids(s) PROVE r \in Ids(all)
    <3>1. PICK i \in 1 .. n : s[i] = r /\ r # 0
      BY <2>2, IdsTheorem
    <3>2. i \in 1 .. n + m /\ all[i] = r
      BY <1>1, <1>2, <1>3, <3>1
    <3>3. QED
      BY <1>3, <3>1, <3>2, IdsTheorem
  <2>3. ASSUME r \in page PROVE r \in Ids(all)
    <3>1. PICK i \in 1 .. m : more[i] = r
      BY <1>1, <2>3
    <3>2. n + i \in 1 .. n + m /\ ~(n + i <= n) /\ (n + i) - n = i
      BY <1>1, <1>2
    <3>3. all[n + i] = r /\ r # 0
      BY <1>3, <2>3, <3>1, <3>2
    <3>4. QED
      BY <1>3, <3>2, <3>3, IdsTheorem
  <2>4. QED
    BY <2>1, <2>2, <2>3
<1>6. QED
  BY <1>3, <1>4, <1>5 DEF all, more

LEMMA ScreenTakesText ==
  ASSUME NEW s \in Seq(0 .. MaxId), NEW after \in Nat, NEW upto \in Nat,
         Screened(s, after, upto)
  PROVE  LET all == Append(s, 0)
         IN  all \in Seq(0 .. MaxId) /\ Screened(all, after, upto) /\ Ids(all) = Ids(s)
<1> DEFINE all == Append(s, 0)
           n == Len(s)
<1>1. 0 \in 0 .. MaxId
  OBVIOUS
<1>2. /\ all \in Seq(0 .. MaxId) /\ Len(all) = n + 1 /\ n \in Nat /\ all[n + 1] = 0
      /\ \A i \in 1 .. n : all[i] = s[i]
  BY <1>1, AppendProperties, LenProperties
<1> HIDE DEF all
<1>3. ASSUME NEW j \in 1 .. n + 1, all[j] # 0
      PROVE  /\ after < all[j] /\ all[j] <= upto
             /\ \A i \in 1 .. j - 1 : all[i] < all[j]
  <2>1. j \in 1 .. n
    BY <1>2, <1>3
  <2>2. \A i \in 1 .. j : all[i] = s[i]
    BY <1>2, <2>1
  <2>3. all[j] = s[j] /\ \A i \in 1 .. j - 1 : all[i] = s[i]
    BY <2>1, <2>2
  <2>4. after < s[j] /\ s[j] <= upto /\ \A i \in 1 .. j - 1 : s[i] < s[j]
    BY <1>3, <2>1, <2>3 DEF Screened
  <2>5. QED
    BY <2>3, <2>4
<1>4. ASSUME NEW r PROVE r \in Ids(all) <=> r \in Ids(s)
  <2>1. ASSUME r # 0, NEW i \in 1 .. n + 1, all[i] = r PROVE i \in 1 .. n /\ s[i] = r
    <3>1. i # n + 1
      BY <1>2, <2>1
    <3>2. i \in 1 .. n
      BY <1>2, <3>1
    <3>3. QED
      BY <1>2, <2>1, <3>2
  <2>3. ASSUME NEW i \in 1 .. n, s[i] = r PROVE i \in 1 .. n + 1 /\ all[i] = r
    BY <1>2, <2>3
  <2>4. QED
    BY <1>2, <2>1, <2>3, IdsTheorem
<1>5. QED
  BY <1>2, <1>3, <1>4 DEF Screened, all

LEMMA LastLinesTheorem ==
  ASSUME NEW s \in Seq(0 .. MaxId)
  PROVE  LET t == LastLines(s)
         IN  \E k \in 0 .. Len(s) :
               /\ t \in Seq(0 .. MaxId) /\ Len(t) = Len(s) - k /\ Len(t) <= DisplayLimit
               /\ \A i \in 1 .. Len(t) : t[i] = s[i + k]
               /\ k # 0 => Len(t) = DisplayLimit
<1> DEFINE t == LastLines(s)
           n == Len(s)
<1>1. n \in Nat /\ DisplayLimit \in Nat \ {0}
  BY LenProperties
<1>2. CASE n <= DisplayLimit
  <2>1. t = s
    BY <1>2 DEF LastLines
  <2>2. 0 \in 0 .. n /\ n - 0 = n /\ \A i \in 1 .. n : s[i] = s[i + 0]
    BY <1>1
  <2>3. QED
    BY <1>2, <2>1, <2>2
<1>3. CASE ~(n <= DisplayLimit)
  <2> DEFINE k == n - DisplayLimit
  <2>1. t = SubSeq(s, k + 1, n)
    BY <1>3 DEF LastLines
  <2>2. k \in 0 .. n /\ k + 1 \in 1 .. n + 1 /\ n \in k .. n /\ n - k = DisplayLimit
    BY <1>1, <1>3
  <2> HIDE DEF k
  <2>3. /\ t \in Seq(0 .. MaxId) /\ Len(t) = n - k
        /\ \A i \in 1 .. n - k : t[i] = s[i + k]
    <3> DEFINE m == k + 1
    <3>1. m \in Int /\ n \in Int /\ m <= n /\ n - m + 1 = n - k /\ k \in Int
      BY <1>1, <1>3, <2>2
    <3>2. \A i \in m .. n : s[i] \in 0 .. MaxId
      BY <1>1, <2>2, IdsTheorem
    <3>3. t = SubSeq(s, m, n)
      BY <2>1
    <3>4. \A i \in 1 .. n - k : m + i - 1 = i + k
      BY <3>1
    <3> HIDE DEF t, n, m
    <3>5. /\ t \in Seq(0 .. MaxId) /\ Len(t) = n - m + 1
          /\ \A i \in 1 .. n - m + 1 : t[i] = s[m + i - 1]
      BY <3>1, <3>2, <3>3, SubSeqProperties
    <3>6. QED
      BY <3>1, <3>4, <3>5
  <2>4. QED
    BY <1>1, <2>2, <2>3
<1>4. QED
  BY <1>2, <1>3

\* A screen has taken lines whose ids are ids, the last of them upto.
Displays(v, ids, upto) ==
  /\ screen' \in [Views -> Seq(0 .. MaxId)] /\ dropped' \in [Views -> 0 .. MaxId]
  /\ Len(screen'[v]) <= DisplayLimit
  /\ \A u \in Views \ {v} : screen'[u] = screen[u] /\ dropped'[u] = dropped[u]
  /\ dropped[v] <= dropped'[v] /\ dropped'[v] <= upto
  /\ Screened(screen'[v], dropped'[v], upto)
  /\ Ids(screen'[v]) \subseteq ids
  /\ \A r \in ids : dropped'[v] < r => r \in Ids(screen'[v])
  /\ dropped'[v] # dropped[v] => Len(screen'[v]) = DisplayLimit

\* The cap takes the oldest lines, so that what stays is in order and behind them.
LEMMA DisplayTheorem ==
  ASSUME screen \in [Views -> Seq(0 .. MaxId)], dropped \in [Views -> 0 .. MaxId],
         NEW v \in Views, NEW lines \in Seq(0 .. MaxId), NEW upto \in 0 .. MaxId,
         Display(v, lines), Screened(lines, dropped[v], upto), dropped[v] <= upto
  PROVE  Displays(v, Ids(lines), upto)
<1> DEFINE t == LastLines(lines)
           off == Ids(lines) \ Ids(t)
           d == dropped[v]
           e == Greatest({d} \cup off)
<1>1. PICK k \in 0 .. Len(lines) :
        /\ t \in Seq(0 .. MaxId) /\ Len(t) = Len(lines) - k /\ Len(t) <= DisplayLimit
        /\ \A i \in 1 .. Len(t) : t[i] = lines[i + k]
        /\ k # 0 => Len(t) = DisplayLimit
  BY LastLinesTheorem
<1>2. screen' = [screen EXCEPT ![v] = t] /\ dropped' = [dropped EXCEPT ![v] = e]
  BY DEF Display
<1> HIDE DEF t
<1>3. /\ Len(lines) \in Nat /\ d \in 0 .. MaxId /\ Ids(lines) \in SUBSET Id /\ Ids(t) \in SUBSET Id
      /\ \A i \in 1 .. Len(lines) : lines[i] \in 0 .. MaxId
  BY <1>1, IdsTheorem
<1>4. \A r \in Ids(lines) : d < r /\ r <= upto
  BY IdsTheorem DEF Screened
<1>5. ASSUME NEW r \in off, NEW j \in 1 .. Len(t), t[j] # 0 PROVE r < t[j]
  <2>1. PICK i \in 1 .. Len(lines) : lines[i] = r /\ r # 0
    BY <1>5, IdsTheorem
  <2>2. i <= k
    <3>1. SUFFICES ASSUME ~(i <= k) PROVE FALSE
      OBVIOUS
    <3>2. i - k \in 1 .. Len(t) /\ (i - k) + k = i
      BY <1>1, <1>3, <3>1
    <3>3. t[i - k] = r
      BY <1>1, <2>1, <3>2
    <3>4. QED
      BY <1>1, <1>5, <2>1, <3>2, <3>3, IdsTheorem
  <2>3. j + k \in 1 .. Len(lines) /\ i \in 1 .. (j + k) - 1 /\ t[j] = lines[j + k]
    BY <1>1, <1>3, <2>2
  <2>4. QED
    BY <1>5, <2>1, <2>3 DEF Screened
<1>6. /\ e \in {d} \cup off /\ \A r \in {d} \cup off : r <= e
      /\ e \in 0 .. MaxId
  <2> DEFINE S == ({d} \cup off) \cup {0}
  <2>1. S \in SUBSET (0 .. MaxId)
    BY <1>3
  <2>2. S \in IdSets /\ S # {} /\ e = Max(S)
    BY <2>1, IdSetFacts DEF Greatest
  <2> HIDE DEF e, off, S
  <2>3. e \in S /\ \A r \in S : r <= e
    BY <2>2, MaxTheorem
  <2> USE DEF S
  <2>4. d <= e /\ e \in 0 .. MaxId /\ d \in 0 .. MaxId
    BY <1>3, <2>1, <2>3
  <2>5. e = 0 => e = d
    BY <2>4
  <2>6. QED
    BY <2>3, <2>4, <2>5
<1> HIDE DEF e
<1>7. Screened(t, e, upto)
  <2> SUFFICES ASSUME NEW j \in 1 .. Len(t), t[j] # 0
               PROVE  /\ e < t[j] /\ t[j] <= upto /\ \A i \in 1 .. j - 1 : t[i] < t[j]
    BY DEF Screened
  <2>1. j + k \in 1 .. Len(lines) /\ t[j] = lines[j + k]
    BY <1>1, <1>3
  <2>2. d < t[j] /\ t[j] <= upto /\ \A i \in 1 .. (j + k) - 1 : lines[i] < t[j]
    BY <2>1 DEF Screened
  <2>3. e < t[j]
    BY <1>5, <1>6, <2>2
  <2>4. ASSUME NEW i \in 1 .. j - 1 PROVE t[i] < t[j]
    <3>1. i \in 1 .. Len(t) /\ i + k \in 1 .. (j + k) - 1
      BY <1>1, <1>3
    <3>2. QED
      BY <1>1, <2>2, <3>1
  <2>5. QED
    BY <2>2, <2>3, <2>4
<1>8. Ids(t) \subseteq Ids(lines)
  <2> SUFFICES ASSUME NEW r \in Ids(t) PROVE r \in Ids(lines)
    OBVIOUS
  <2>1. PICK j \in 1 .. Len(t) : t[j] = r /\ r # 0
    BY <1>1, IdsTheorem
  <2>2. j + k \in 1 .. Len(lines) /\ lines[j + k] = t[j]
    BY <1>1, <1>3
  <2>3. QED
    BY <2>1, <2>2, IdsTheorem
<1>9. \A r \in Ids(lines) : e < r => r \in Ids(t)
  <2> SUFFICES ASSUME NEW r \in Ids(lines), e < r, r \notin Ids(t) PROVE FALSE
    OBVIOUS
  <2>1. r \in off /\ r <= e /\ r \in Nat /\ e \in Nat
    BY <1>3, <1>6
  <2>2. QED
    BY <2>1
<1>10. e # d => Len(t) = DisplayLimit
  <2>1. SUFFICES ASSUME e # d, k = 0 PROVE FALSE
    BY <1>1
  <2>2. e \in off
    BY <1>6, <2>1
  <2>3. PICK i \in 1 .. Len(lines) : lines[i] = e /\ e # 0
    BY <2>2, IdsTheorem
  <2>4. i \in 1 .. Len(t) /\ i + k = i
    BY <1>1, <1>3, <2>1
  <2>5. t[i] = e
    BY <1>1, <2>3, <2>4
  <2>6. QED
    BY <1>1, <2>2, <2>3, <2>4, <2>5, IdsTheorem
<1>11. d <= e /\ e <= upto
  BY <1>3, <1>4, <1>6
<1>12. screen'[v] = t /\ dropped'[v] = e
       /\ screen' \in [Views -> Seq(0 .. MaxId)] /\ dropped' \in [Views -> 0 .. MaxId]
       /\ \A u \in Views \ {v} : screen'[u] = screen[u] /\ dropped'[u] = dropped[u]
  BY <1>1, <1>2, <1>6
<1>13. QED
  BY <1>1, <1>7, <1>8, <1>9, <1>10, <1>11, <1>12 DEF Displays

\* The members of a list at some places, in their order.
LEMMA PlacesTheorem ==
  ASSUME NEW s \in Seq(0 .. MaxId), NEW P \in SUBSET (1 .. Len(s)),
         NEW after \in Nat, NEW upto \in Nat, Screened(s, after, upto)
  PROVE  LET t == AtPlaces(s, P)
         IN  /\ t \in Seq(0 .. MaxId) /\ Len(t) <= Len(s) /\ Screened(t, after, upto)
             /\ \A r : r \in Ids(t) <=> (r # 0 /\ \E i \in P : s[i] = r)
<1> DEFINE p == Ascending(P)
           n == Cardinality(P)
           t == AtPlaces(s, P)
<1>1. Len(s) \in Nat /\ \A i \in 1 .. Len(s) : s[i] \in 0 .. MaxId
  BY IdsTheorem
<1>2. n \in Nat /\ n <= Len(s) /\ P \in IdSets
  <2>1. IsFiniteSet(1 .. Len(s))
    BY <1>1, FS_Interval
  <2>2. IsFiniteSet(P) /\ P \subseteq Nat
    <3>1. IsFiniteSet(P)
      BY <2>1, FS_Subset
    <3>2. QED
      BY <3>1
  <2>3. QED
    BY <1>1, <2>2, CountBound DEF IdSets
<1>3. /\ p \in Seq(Nat) /\ Len(p) = n
      /\ \A i \in 1 .. n : p[i] \in P
      /\ \A k \in P : \E i \in 1 .. n : p[i] = k
      /\ \A i, j \in 1 .. n : i < j => p[i] < p[j]
  <2>1. P \subseteq Nat
    BY <1>2 DEF IdSets
  <2>2. QED
    BY <1>2, <2>1, AscendingTheorem
<1> HIDE DEF p, n
<1>4. DOMAIN p = 1 .. n
  BY <1>3
<1>5. t = [i \in 1 .. n |-> s[p[i]]]
  BY <1>4 DEF AtPlaces, p
<1> HIDE DEF t
<1>6. t \in Seq(0 .. MaxId) /\ Len(t) = n
  <2>1. t \in [1 .. n -> 0 .. MaxId]
    BY <1>1, <1>3, <1>5
  <2>2. QED
    BY <1>2, <2>1
<1>7. Screened(t, after, upto)
  <2> SUFFICES ASSUME NEW j \in 1 .. n, t[j] # 0
               PROVE  /\ after < t[j] /\ t[j] <= upto
                      /\ \A i \in 1 .. j - 1 : t[i] < t[j]
    BY <1>6 DEF Screened
  <2>1. t[j] = s[p[j]] /\ p[j] \in 1 .. Len(s)
    BY <1>3, <1>5
  <2>2. after < s[p[j]] /\ s[p[j]] <= upto /\ \A i \in 1 .. p[j] - 1 : s[i] < s[p[j]]
    BY <2>1 DEF Screened
  <2>3. ASSUME NEW i \in 1 .. j - 1 PROVE t[i] < t[j]
    <3>1. i \in 1 .. n /\ i < j
      BY <1>2
    <3>2. p[i] < p[j] /\ p[i] \in 1 .. Len(s)
      BY <1>3, <3>1
    <3>3. p[i] \in 1 .. p[j] - 1
      BY <1>1, <2>1, <3>2
    <3>4. QED
      BY <1>5, <2>1, <2>2, <3>1, <3>3
  <2>4. QED
    BY <2>1, <2>2, <2>3
<1>8. ASSUME NEW r PROVE r \in Ids(t) <=> (r # 0 /\ \E i \in P : s[i] = r)
  <2>1. (\E i \in 1 .. n : t[i] = r) <=> (\E i \in P : s[i] = r)
    BY <1>3, <1>5
  <2>2. QED
    BY <1>6, <2>1, IdsTheorem
<1>9. QED
  BY <1>2, <1>6, <1>7, <1>8 DEF t

\* What a view keeps on its screen after an answer.
LEMMA KeptScreen ==
  ASSUME Inv, NEW v \in Views
  PROVE  /\ Kept(v) \in Seq(0 .. MaxId) /\ Len(Kept(v)) <= DisplayLimit
         /\ Screened(Kept(v), dropped[v], last[v])
         /\ \A r : r \in Ids(Kept(v)) <=> (r \in Ids(screen[v]) /\ Stays(ask[v], r))
<1> DEFINE s == screen[v]
           P == {i \in DOMAIN s : Stays(ask[v], s[i])}
<1>1. /\ s \in Seq(0 .. MaxId) /\ dropped[v] \in Nat /\ last[v] \in Nat /\ OnScreen(v)
  <2>1. s \in Seq(0 .. MaxId) /\ dropped[v] \in 0 .. MaxId /\ last[v] \in 0 .. MaxId /\ ViewTrue(v)
    BY DEF Inv, TypeOK
  <2>2. QED
    BY <2>1 DEF ViewTrue
<1>2. Kept(v) = AtPlaces(s, P)
  BY DEF Kept, Chosen
<1>3. DOMAIN s = 1 .. Len(s) /\ Len(s) \in Nat /\ P \in SUBSET (1 .. Len(s))
  BY <1>1, IdsTheorem
<1>4. /\ Kept(v) \in Seq(0 .. MaxId) /\ Len(Kept(v)) <= Len(s)
      /\ Screened(Kept(v), dropped[v], last[v])
      /\ \A r : r \in Ids(Kept(v)) <=> (r # 0 /\ \E i \in P : s[i] = r)
  <2>1. Screened(s, dropped[v], last[v])
    BY <1>1 DEF OnScreen
  <2> HIDE DEF P, s
  <2>2. QED
    BY <1>1, <1>2, <1>3, <2>1, PlacesTheorem
<1>5. Len(Kept(v)) <= DisplayLimit
  <2>1. Len(Kept(v)) \in Nat /\ Len(s) <= DisplayLimit
    BY <1>1, <1>4, LenProperties DEF OnScreen
  <2>2. QED
    BY <1>3, <1>4, <2>1
<1>6. ASSUME NEW r
      PROVE  (r # 0 /\ \E i \in P : s[i] = r) <=> (r \in Ids(s) /\ Stays(ask[v], r))
  <2>1. r \in Ids(s) <=> (r # 0 /\ \E i \in 1 .. Len(s) : s[i] = r)
    BY <1>1, IdsTheorem
  <2>2. ASSUME NEW i \in P PROVE i \in 1 .. Len(s) /\ Stays(ask[v], s[i])
    BY <1>3
  <2>3. ASSUME NEW i \in 1 .. Len(s), Stays(ask[v], s[i]) PROVE i \in P
    BY <1>3, <2>3
  <2> HIDE DEF P, s
  <2>4. QED
    BY <2>1, <2>2, <2>3
<1>7. QED
  BY <1>4, <1>5, <1>6

\* The types of one view.
LEMMA ViewTypes ==
  ASSUME Inv, NEW v \in Views
  PROVE  /\ screen \in [Views -> Seq(0 .. MaxId)] /\ dropped \in [Views -> 0 .. MaxId]
         /\ \A u \in Views : Len(screen[u]) <= DisplayLimit
         /\ screen[v] \in Seq(0 .. MaxId) /\ Ids(screen[v]) \in SUBSET Id
         /\ dropped[v] \in Nat /\ last[v] \in 0 .. MaxId /\ start[v] \in 0 .. MaxId
         /\ ask[v] \in Ask /\ ask[v].anchor \in Nat /\ ask[v].through \in Nat
         /\ copy[v] \in SUBSET Id /\ gone[v] \in SUBSET Id
         /\ rows \in SUBSET Id /\ notes \in SUBSET Id /\ next \in 1 .. MaxId + 1
         /\ adrift \in SUBSET Views
         /\ RowsFresh /\ Seen(v) /\ Asked(v) /\ Removed(v) /\ OnScreen(v) /\ Shown(v)
<1>1. LogOK /\ ViewOK /\ AskOK /\ RowsFresh /\ ViewTrue(v)
  BY TypeParts DEF Inv
<1>2. screen[v] \in Seq(0 .. MaxId) /\ ask[v] \in Ask /\ dropped[v] \in 0 .. MaxId
  BY <1>1 DEF ViewOK, AskOK
<1>3. Ids(screen[v]) \in SUBSET Id
  BY <1>2, IdsTheorem
<1>4. ask[v].anchor \in Nat /\ ask[v].through \in Nat
  BY <1>2 DEF Ask
<1>5. copy[v] \in SUBSET Id /\ gone[v] \in SUBSET Id
  BY <1>1 DEF AskOK
<1>6. last[v] \in 0 .. MaxId /\ start[v] \in 0 .. MaxId
  BY <1>1 DEF ViewOK
<1>7. QED
  BY <1>1, <1>2, <1>3, <1>4, <1>5, <1>6 DEF LogOK, ViewOK, ViewTrue

\* What the steps of a view rest on.
Known(v) ==
  /\ dropped[v] \in Nat /\ last[v] \in Nat /\ start[v] \in Nat /\ next \in Nat \ {0}
  /\ ask[v].anchor \in Nat /\ ask[v].through \in Nat
  /\ rows \subseteq Nat /\ Ids(screen[v]) \subseteq Nat \ {0}
  /\ Seen(v) /\ Asked(v) /\ Removed(v) /\ OnScreen(v) /\ Shown(v)

LEMMA KnownTheorem ==
  ASSUME Inv, NEW v \in Views PROVE Known(v)
<1>1. /\ dropped[v] \in Nat /\ last[v] \in 0 .. MaxId /\ start[v] \in 0 .. MaxId
      /\ next \in 1 .. MaxId + 1 /\ ask[v].anchor \in Nat /\ ask[v].through \in Nat
      /\ rows \in SUBSET Id /\ Ids(screen[v]) \in SUBSET Id
      /\ Seen(v) /\ Asked(v) /\ Removed(v) /\ OnScreen(v) /\ Shown(v)
  BY ViewTypes
<1>2. QED
  BY <1>1 DEF Known

\* The log has nothing of what the view has read but what is among ids.
Covers(v, ids, upto) ==
  \A r \in rows' : start[v] < r /\ dropped[v] < r /\ r <= upto => r \in ids

\* A step that puts lines on a screen keeps the screen true, if they hold what
\* the view has read and the log still has.
LEMMA ScreenMoves ==
  ASSUME Inv, NEW v \in Views, NEW upto \in 0 .. MaxId, NEW ids \in SUBSET Id,
         Displays(v, ids, upto), last'[v] = upto, start'[v] = start[v], rows' \subseteq Nat,
         Covers(v, ids, upto)
  PROVE  /\ OnScreen(v)' /\ Shown(v)'
         /\ screen' \in [Views -> Seq(0 .. MaxId)] /\ dropped' \in [Views -> 0 .. MaxId]
         /\ \A u \in Views : Len(screen'[u]) <= DisplayLimit
         /\ \A u \in Views \ {v} : screen'[u] = screen[u] /\ dropped'[u] = dropped[u]
<1>1. dropped[v] \in Nat /\ dropped'[v] \in Nat /\ dropped[v] <= dropped'[v]
  <2>1. dropped'[v] \in 0 .. MaxId /\ dropped[v] <= dropped'[v]
    BY DEF Displays
  <2>2. dropped[v] \in Nat
    BY ViewTypes
  <2>3. QED
    BY <2>1, <2>2
<1>2. Shown(v)'
  <2> SUFFICES ASSUME NEW r \in rows', start[v] < r, dropped'[v] < r, r <= upto
               PROVE  r \in Ids(screen'[v])
    BY DEF Shown, Ids
  <2>1. dropped[v] < r
    BY <1>1
  <2>2. QED
    BY <2>1 DEF Displays, Covers
<1>3. OnScreen(v)'
  BY DEF OnScreen, Displays, Screened
<1>4. \A u \in Views : Len(screen'[u]) <= DisplayLimit
  BY ViewTypes DEF Displays
<1>5. QED
  BY <1>2, <1>3, <1>4 DEF Displays

LEMMA OpenViewKeeps ==
  ASSUME Inv, NEW v \in Views, OpenView(v), UNCHANGED scene PROVE Inv'
<1>0. Known(v)
  BY KnownTheorem
<1>1. FirstCursor(v) \in 0 .. MaxId /\ FirstCursor(v) < next
  <2>1. PICK m \in Nat : m < next /\ m <= MaxId /\ rows \in SUBSET (1 .. m)
    <3>1. next \in 1 .. MaxId + 1 /\ rows \subseteq 1 .. MaxId /\ \A r \in rows : r < next
      BY DEF Inv, TypeOK, RowsFresh
    <3>2. next - 1 \in Nat /\ next - 1 < next /\ next - 1 <= MaxId
      BY <3>1
    <3>3. rows \in SUBSET (1 .. next - 1)
      BY <3>1
    <3>4. QED
      BY <3>2, <3>3
  <2>2. Cardinality(rows) \in Nat /\ Cardinality(rows) <= m
    BY <2>1, CountBound
  <2>4. next \in Nat
    BY DEF Inv, TypeOK
  <2>3. QED
    BY <2>1, <2>2, <2>4 DEF FirstCursor
<1>2. ViewOK' /\ AskOK' /\ Elsewhere(v)
  BY <1>1 DEF Inv, TypeOK, ViewOK, AskOK, OpenView, ViewPc, Elsewhere
<1>3. /\ pc'[v] = "watching" /\ last'[v] = FirstCursor(v) /\ start'[v] = FirstCursor(v)
      /\ UNCHANGED <<logVars, writerVars, askVars, screen, dropped, adrift, follow>>
  BY DEF Inv, TypeOK, OpenView
<1>4. Shown(v)'
  <2>1. \A r \in rows : ~(FirstCursor(v) < r /\ r <= FirstCursor(v))
    BY <1>0, <1>1 DEF Known
  <2>2. QED
    BY <1>3, <2>1 DEF Shown
<1>5. Seen(v)' /\ Removed(v)'
  BY <1>1, <1>3, ViewTypes DEF Seen, Removed
<1>6. Asked(v)' /\ OnScreen(v)'
  <2>1. pc[v] = "closed" /\ last[v] = 0 /\ v \notin adrift
    BY ViewTypes DEF OpenView, Asked, Waiting
  <2>2. Asked(v)'
    BY <1>3, <2>1 DEF Asked, Waiting
  <2>3. OnScreen(v)'
    <3>1. dropped[v] = 0 /\ \A j \in 1 .. Len(screen[v]) : screen[v][j] = 0
      <4>1. dropped[v] = 0
        BY <2>1, ViewTypes DEF OnScreen
      <4>2. \A j \in 1 .. Len(screen[v]) : screen[v][j] \in Nat
        <5>1. screen[v] \in Seq(0 .. MaxId)
          BY ViewTypes
        <5>2. \A j \in 1 .. Len(screen[v]) : screen[v][j] \in 0 .. MaxId
          BY <5>1, IdsTheorem
        <5>3. QED
          BY <5>2
      <4>3. QED
        BY <2>1, <4>1, <4>2, <1>0 DEF Known, OnScreen, Screened
    <3>2. QED
      BY <1>1, <1>3, <3>1, <1>0 DEF Known, OnScreen, Screened
  <2>4. QED
    BY <2>2, <2>3
<1>7. QED
  BY <1>2, <1>3, <1>4, <1>5, <1>6, ViewAlone DEF ViewTrue

LEMMA RefreshKeeps ==
  ASSUME Inv, NEW v \in Views, Refresh(v), UNCHANGED scene
  PROVE  Inv' /\ (dropped'[v] # dropped[v] => Len(screen'[v]) = DisplayLimit)
<1>0. Known(v)
  BY KnownTheorem
<1> DEFINE page == FirstOf(After(last[v]), FetchLimit)
           lines == screen[v] \o Ascending(page)
<1>1. /\ v \in adrift \/ pc[v] \in {"watching", "question"}
      /\ page # {} /\ last' = [last EXCEPT ![v] = Max(page)] /\ Display(v, lines)
      /\ UNCHANGED <<logVars, writerVars, askVars, pc, start, adrift, noteCount, follow>>
  BY DEF Refresh, Free
<1>2. /\ After(last[v]) \in IdSets /\ After(last[v]) \subseteq rows
      /\ \A r \in After(last[v]) : last[v] < r
  BY ViewTypes, IdSetFacts DEF After
<1>3. /\ page \in IdSets /\ page \subseteq After(last[v])
      /\ \A s \in After(last[v]) : \A t \in page : s <= t => s \in page
  BY <1>2, FirstOfTheorem
<1> HIDE DEF page, lines
<1>4. Max(page) \in page /\ \A r \in page : r <= Max(page)
  BY <1>1, <1>3, MaxTheorem
<1>5. /\ Max(page) \in 0 .. MaxId /\ Max(page) < next /\ page \in SUBSET Id
      /\ last[v] < Max(page) /\ \A r \in page : last[v] < r
  BY <1>2, <1>3, <1>4, ViewTypes DEF RowsFresh
<1>6. /\ lines \in Seq(0 .. MaxId) /\ Screened(lines, dropped[v], Max(page))
      /\ Ids(lines) = Ids(screen[v]) \cup page /\ dropped[v] <= Max(page)
  <2>1. /\ Screened(screen[v], dropped[v], last[v]) /\ dropped[v] <= last[v]
        /\ screen[v] \in Seq(0 .. MaxId) /\ dropped[v] \in Nat /\ last[v] \in Nat
        /\ Max(page) \in Nat /\ last[v] <= Max(page)
    BY <1>5, ViewTypes DEF OnScreen
  <2>2. QED
    BY <1>4, <1>5, <2>1, ScreenGrows DEF lines
<1>7. Displays(v, Ids(lines), Max(page))
  BY <1>1, <1>5, <1>6, ViewTypes, DisplayTheorem
<1>8. last'[v] = Max(page) /\ start'[v] = start[v] /\ rows' = rows /\ last' \in [Views -> 0 .. MaxId]
  BY <1>1, <1>5 DEF Inv, TypeOK
<1>9. \A r \in rows : start[v] < r /\ dropped[v] < r /\ r <= Max(page) => r \in Ids(lines)
  <2> SUFFICES ASSUME NEW r \in rows, start[v] < r, dropped[v] < r, r <= Max(page)
               PROVE  r \in Ids(lines)
    OBVIOUS
  <2>1. r <= last[v] \/ r \in After(last[v])
    BY ViewTypes DEF After
  <2>2. QED
    BY <1>3, <1>4, <1>6, <2>1, ViewTypes DEF Shown
<1>10. /\ OnScreen(v)' /\ Shown(v)'
       /\ screen' \in [Views -> Seq(0 .. MaxId)] /\ dropped' \in [Views -> 0 .. MaxId]
       /\ \A u \in Views : Len(screen'[u]) <= DisplayLimit
       /\ \A u \in Views \ {v} : screen'[u] = screen[u] /\ dropped'[u] = dropped[u]
  <2>1. Ids(lines) \in SUBSET Id /\ rows' \subseteq Nat
    <3>1. Ids(screen[v]) \in SUBSET Id /\ rows \in SUBSET Id
      BY ViewTypes
    <3>2. rows' \subseteq Nat
      BY <1>8, <3>1 DEF Id
    <3>3. Ids(lines) = Ids(screen[v]) \cup page /\ page \in SUBSET Id
      BY <1>5, <1>6
    <3>4. QED
      BY <3>1, <3>2, <3>3
  <2>2. Covers(v, Ids(lines), Max(page))
    BY <1>8, <1>9 DEF Covers
  <2>3. Max(page) \in 0 .. MaxId
    BY <1>5
  <2>4. QED
    BY <1>7, <1>8, <2>1, <2>2, <2>3, ScreenMoves
<1>11. ViewOK' /\ AskOK' /\ Elsewhere(v)
  BY <1>1, <1>8, <1>10 DEF Inv, TypeOK, ViewOK, AskOK, Elsewhere
<1>12. Seen(v)' /\ Asked(v)' /\ Removed(v)'
  <2>1. Seen(v)'
    BY <1>1, <1>5, <1>8, ViewTypes DEF Seen
  <2>2. Taken(ask[v])' = Taken(ask[v])
    BY <1>1 DEF Taken
  <2>3. Asked(v)'
    <3>1. pc[v] # "closed"
      BY <1>0, <1>1 DEF Known, Asked, Waiting
    <3>2. QED
      BY <1>0, <1>1, <2>2, <3>1 DEF Known, Asked
  <2>4. Removed(v)'
    <3>1. pc[v] \in {"mark", "answer", "error"} => v \in adrift
      BY <1>1
    <3>2. QED
      BY <1>0, <1>1, <3>1 DEF Known, Removed
  <2>5. QED
    BY <2>1, <2>3, <2>4
<1>13. Inv'
  <2>1. LogOK' /\ WriterOK' /\ Moves /\ notes \subseteq notes' /\ RowsFresh' /\ Handles'
    BY <1>1 DEF Inv, TypeOK, LogOK, WriterOK, Moves, RowsFresh, Handles
  <2>2. QED
    BY <1>1, <1>10, <1>11, <1>12, <2>1, ViewMoves DEF ViewTrue
<1>14. QED
  BY <1>7, <1>13 DEF Displays

LEMMA QuestionKeeps ==
  ASSUME Inv, NEW v \in Views, Question(v), UNCHANGED scene PROVE Inv'
<1>0. Known(v)
  BY KnownTheorem
<1>1. PICK kind \in {"above", "below"}, anchor \in Ids(screen[v]) :
        LET a == [kind |-> kind, anchor |-> anchor, through |-> last[v],
                  archive |-> FALSE, counted |-> {}]
        IN  ask' = [ask EXCEPT ![v] = [a EXCEPT !.counted = Taken(a)]]
  BY DEF Question
<1> DEFINE a == [kind |-> kind, anchor |-> anchor, through |-> last[v],
                 archive |-> FALSE, counted |-> {}]
           q == [a EXCEPT !.counted = Taken(a)]
<1>2. /\ pc[v] = "watching" /\ pc' = [pc EXCEPT ![v] = "question"]
      /\ UNCHANGED <<logVars, writerVars, copy, gone, last, start, screen, dropped, adrift, noteCount,
                     follow>>
  BY DEF Question
<1>3. /\ ViewTrue(v) /\ anchor \in Id /\ last[v] \in 0 .. MaxId /\ rows \subseteq Id
      /\ anchor <= last[v]
  <2>1. ViewTrue(v) /\ anchor \in Id /\ last[v] \in 0 .. MaxId /\ rows \subseteq Id
    BY ViewTypes DEF ViewTrue
  <2>2. \E j \in 1 .. Len(screen[v]) : screen[v][j] = anchor /\ anchor # 0
    BY ViewTypes, IdsTheorem
  <2>3. QED
    BY <2>1, <2>2, <1>0 DEF Known, OnScreen, Screened
<1>4. a \in Ask /\ Taken(a) \subseteq Id
  <2>1. a \in Ask
    BY <1>3 DEF Ask
  <2>2. Taken(a) \subseteq rows
    BY DEF Taken
  <2>3. QED
    BY <1>3, <2>1, <2>2
<1>5. /\ q \in Ask /\ q.kind = kind /\ q.anchor = anchor /\ q.through = last[v]
      /\ q.counted = Taken(a)
  <2>1. a.kind = kind /\ a.anchor = anchor /\ a.through = last[v]
    OBVIOUS
  <2> HIDE DEF a
  <2>2. QED
    BY <1>4, <2>1 DEF Ask
<1>6. Taken(q) = Taken(a)
  <2>1. a.kind = kind /\ a.anchor = anchor /\ a.through = last[v]
    OBVIOUS
  <2> HIDE DEF a, q
  <2>2. QED
    BY <1>5, <2>1 DEF Taken
<1>7. ask' = [ask EXCEPT ![v] = q]
  BY <1>1
<1> HIDE DEF a, q
<1>8. /\ ask'[v] = q /\ pc'[v] = "question" /\ last'[v] = last[v]
      /\ rows' = rows /\ next' = next
  BY <1>2, <1>7 DEF Inv, TypeOK
<1>9. ViewOK' /\ AskOK' /\ Elsewhere(v)
  <2>1. ViewOK'
    BY <1>2 DEF Inv, TypeOK, ViewOK, ViewPc
  <2>2. AskOK'
    BY <1>2, <1>5, <1>7 DEF Inv, TypeOK, AskOK
  <2>3. QED
    BY <1>2, <1>7, <2>1, <2>2 DEF Inv, TypeOK, Elsewhere
<1>10. Seen(v)'
  <2>1. q.anchor < next /\ q.through < next /\ last[v] < next
    BY <1>0, <1>3, <1>5 DEF Known, Seen
  <2>2. QED
    BY <1>8, <2>1 DEF Seen
<1>11. Asked(v)'
  <2>1. Taken(ask[v])' = Taken(q)
    BY <1>8 DEF Taken
  <2>2. v \notin adrift'
    BY <1>0, <1>2 DEF Known, Asked, Waiting
  <2>3. QED
    BY <1>5, <1>6, <1>8, <2>1, <2>2 DEF Asked, Waiting
<1>12. Removed(v)' /\ Shown(v)' /\ OnScreen(v)'
  BY <1>2, <1>3, <1>8 DEF ViewTrue, Removed, Shown, OnScreen, Screened, Ids
<1>13. QED
  BY <1>2, <1>8, <1>9, <1>10, <1>11, <1>12, ViewAlone DEF ViewTrue

LEMMA CancelKeeps ==
  ASSUME Inv, NEW v \in Views, Cancel(v), UNCHANGED scene PROVE Inv'
<1>0. Known(v)
  BY KnownTheorem
<1>1. /\ pc' = [pc EXCEPT ![v] = "watching"] /\ ask' = [ask EXCEPT ![v] = NoAsk]
      /\ UNCHANGED <<logVars, writerVars, copy, gone, last, start, screen, dropped, adrift, noteCount,
                     follow>>
  BY DEF Cancel
<1>2. ViewTrue(v) /\ pc'[v] = "watching" /\ ask'[v] = NoAsk /\ next \in Nat \ {0}
  BY <1>1 DEF Inv, TypeOK
<1>3. ViewOK' /\ AskOK' /\ Elsewhere(v)
  BY <1>1, NoAskType DEF Inv, TypeOK, ViewOK, AskOK, ViewPc, Elsewhere
<1>4. ViewTrue(v)'
  <2>1. Seen(v)' /\ Shown(v)' /\ OnScreen(v)'
    BY <1>1, <1>2, NoAskType DEF ViewTrue, Seen, Shown, OnScreen, Screened, Ids
  <2>2. Asked(v)' /\ Removed(v)'
    <3>1. v \notin adrift'
      BY <1>0, <1>1 DEF Known, Asked, Waiting, Cancel
    <3>2. QED
      BY <1>2, <3>1 DEF Asked, Removed, Waiting
  <2>3. QED
    BY <2>1, <2>2 DEF ViewTrue
<1>5. QED
  BY <1>1, <1>2, <1>3, <1>4, ViewAlone

LEMMA ConfirmKeeps ==
  ASSUME Inv, NEW v \in Views, Confirm(v), UNCHANGED scene PROVE Inv'
<1>0. Known(v)
  BY KnownTheorem
<1>1. PICK archive \in BOOLEAN : ask' = [ask EXCEPT ![v].archive = archive]
  BY DEF Confirm
<1>2. /\ pc[v] = "question" /\ pc' = [pc EXCEPT ![v] = "queued"]
      /\ UNCHANGED <<logVars, writerVars, copy, gone, last, start, screen, dropped, adrift, noteCount,
                     follow>>
  BY DEF Confirm
<1> DEFINE q == Archiving(ask[v], archive)
<1>3. ViewTrue(v) /\ ask[v] \in Ask
  BY DEF Inv, TypeOK
<1>4. /\ q \in Ask /\ q.kind = ask[v].kind /\ q.anchor = ask[v].anchor
      /\ q.through = ask[v].through /\ q.counted = ask[v].counted
  BY <1>3, ArchivingType
<1>5. ask' = [ask EXCEPT ![v] = q]
  BY <1>1 DEF Archiving
<1> HIDE DEF q
<1>6. /\ ask'[v] = q /\ pc'[v] = "queued" /\ rows' = rows /\ next' = next
  BY <1>2, <1>5 DEF Inv, TypeOK
<1>7. ViewOK' /\ AskOK' /\ Elsewhere(v)
  BY <1>2, <1>4, <1>5 DEF Inv, TypeOK, ViewOK, AskOK, ViewPc, Elsewhere
<1>8. Taken(ask[v])' = Taken(ask[v])
  BY <1>4, <1>6 DEF Taken
<1>9. ViewTrue(v)'
  BY <1>2, <1>3, <1>4, <1>6, <1>8
     DEF ViewTrue, Seen, Asked, Removed, Shown, OnScreen, Screened, Ids, Waiting
<1>10. QED
  BY <1>2, <1>6, <1>7, <1>9, ViewAlone

LEMMA AskClearKeeps ==
  ASSUME Inv, NEW v \in Views, AskClear(v), UNCHANGED scene PROVE Inv'
<1>0. Known(v)
  BY KnownTheorem
<1>1. PICK archive \in BOOLEAN :
        ask' = [ask EXCEPT ![v] = [NoAsk EXCEPT !.kind = "clear", !.archive = archive]]
  BY DEF AskClear
<1>2. /\ pc[v] = "watching" /\ pc' = [pc EXCEPT ![v] = "queued"]
      /\ UNCHANGED <<logVars, writerVars, copy, gone, last, start, screen, dropped, adrift, noteCount,
                     follow>>
  BY DEF AskClear
<1> DEFINE q == Clearing(archive)
<1>3. q \in Ask /\ q.kind = "clear" /\ q.anchor = 0 /\ q.through = 0
  BY ClearingType
<1>4. ask' = [ask EXCEPT ![v] = q]
  BY <1>1 DEF Clearing
<1> HIDE DEF q
<1>5. /\ ask'[v] = q /\ pc'[v] = "queued" /\ rows' = rows /\ next' = next
      /\ ViewTrue(v) /\ next \in Nat \ {0}
  BY <1>2, <1>4 DEF Inv, TypeOK
<1>6. ViewOK' /\ AskOK' /\ Elsewhere(v)
  BY <1>2, <1>3, <1>4 DEF Inv, TypeOK, ViewOK, AskOK, ViewPc, Elsewhere
<1>7. ViewTrue(v)'
  BY <1>2, <1>3, <1>5
     DEF ViewTrue, Seen, Asked, Removed, Shown, OnScreen, Screened, Ids, Waiting
<1>8. QED
  BY <1>2, <1>5, <1>6, <1>7, ViewAlone

LEMMA RowStored ==
  ASSUME Inv, Insert({next}), notes' \in {notes, notes \cup {next}}
  PROVE  /\ LogOK' /\ Moves /\ notes \subseteq notes' /\ RowsFresh'
         /\ next \in Nat /\ next' = next + 1 /\ rows' = rows \cup {next}
<1>1. /\ next' \in 1 .. MaxId + 1 /\ next' = next + 1
      /\ rows' = rows \cup {next} /\ next \in Id
  BY InsertTheorem DEF Inv
<1>2. rows \subseteq Id /\ notes \subseteq Id /\ RowsFresh
  BY DEF Inv, TypeOK
<1>3. LogOK' /\ notes \subseteq notes'
  BY <1>1, <1>2 DEF LogOK
<1>4. Moves /\ RowsFresh'
  BY <1>1, <1>2 DEF Moves, RowsFresh
<1>5. QED
  BY <1>1, <1>3, <1>4

\* A marker is stored, or its text is on the screen only.
LEMMA MarkerTheorem ==
  ASSUME Inv, NEW v \in Views, NEW lines \in Seq(0 .. MaxId), Marker(v, lines),
         Screened(lines, dropped[v], last[v])
  PROVE  /\ LogOK' /\ Moves /\ notes \subseteq notes' /\ RowsFresh'
         /\ rows' \ notes' \subseteq rows \ notes
         /\ \A r \in rows' : r \in rows \/ last[v] < r
         /\ Displays(v, Ids(lines), last[v])
<1>0. Known(v)
  BY KnownTheorem
<1>1. /\ dropped[v] <= last[v] /\ last[v] < next /\ next \in Nat /\ last[v] \in 0 .. MaxId
      /\ screen \in [Views -> Seq(0 .. MaxId)] /\ dropped \in [Views -> 0 .. MaxId]
      /\ dropped[v] \in Nat
  BY ViewTypes DEF OnScreen, Seen
<1>2. /\ Append(lines, 0) \in Seq(0 .. MaxId) /\ Ids(Append(lines, 0)) = Ids(lines)
      /\ Screened(Append(lines, 0), dropped[v], last[v])
  BY <1>1, ScreenTakesText
<1>3. \/ /\ Insert({next}) /\ notes' = notes \cup {next}
         /\ Display(v, lines) \/ Display(v, Append(lines, 0))
      \/ UNCHANGED logVars /\ Display(v, Append(lines, 0))
  BY DEF Marker
<1>4. Displays(v, Ids(lines), last[v])
  <2>1. CASE Display(v, lines)
    BY <1>1, <2>1, DisplayTheorem
  <2>2. CASE Display(v, Append(lines, 0))
    <3>1. Displays(v, Ids(Append(lines, 0)), last[v])
      BY <1>1, <1>2, <2>2, DisplayTheorem
    <3>2. QED
      BY <1>2, <3>1
  <2>3. QED
    BY <1>3, <2>1, <2>2
<1>5. CASE UNCHANGED logVars
  BY <1>4, <1>5 DEF Inv, TypeOK, LogOK, Moves, RowsFresh
<1>6. CASE Insert({next}) /\ notes' = notes \cup {next}
  <2>1. LogOK' /\ Moves /\ notes \subseteq notes' /\ RowsFresh' /\ rows' = rows \cup {next}
    BY <1>6, RowStored
  <2>2. rows' \ notes' \subseteq rows \ notes
    BY <1>6, <2>1
  <2>3. \A r \in rows' : r \in rows \/ last[v] < r
    BY <1>1, <2>1
  <2>4. QED
    BY <1>4, <2>1, <2>2, <2>3
<1>7. QED
  BY <1>3, <1>5, <1>6

LEMMA NoteKeeps ==
  ASSUME Inv, NEW v \in Views, Note(v), UNCHANGED scene
  PROVE  Inv' /\ (dropped'[v] # dropped[v] => Len(screen'[v]) = DisplayLimit)
<1>0. Known(v)
  BY KnownTheorem
<1>1. /\ Marker(v, screen[v]) /\ noteCount < MaxNotes /\ noteCount' = noteCount + 1
      /\ UNCHANGED <<writerVars, askVars, pc, last, start, adrift, follow>>
  BY DEF Note
<1>2. /\ LogOK' /\ Moves /\ notes \subseteq notes' /\ RowsFresh'
      /\ rows' \ notes' \subseteq rows \ notes
      /\ \A r \in rows' : r \in rows \/ last[v] < r
      /\ Displays(v, Ids(screen[v]), last[v])
  BY <1>1, ViewTypes, MarkerTheorem DEF OnScreen
<1>3. /\ OnScreen(v)' /\ Shown(v)'
      /\ screen' \in [Views -> Seq(0 .. MaxId)] /\ dropped' \in [Views -> 0 .. MaxId]
      /\ \A u \in Views : Len(screen'[u]) <= DisplayLimit
      /\ \A u \in Views \ {v} : screen'[u] = screen[u] /\ dropped'[u] = dropped[u]
  <2>1. Covers(v, Ids(screen[v]), last[v])
    <3> SUFFICES ASSUME NEW r \in rows', start[v] < r, dropped[v] < r, r <= last[v]
                 PROVE  r \in Ids(screen[v])
      BY DEF Covers
    <3>1. r \in Nat /\ last[v] \in Nat
      BY <1>2, ViewTypes DEF LogOK
    <3>2. QED
      BY <1>2, <3>1, <1>0 DEF Known, Shown
  <2>2. last'[v] = last[v] /\ start'[v] = start[v] /\ rows' \subseteq Nat
    BY <1>1, <1>2 DEF LogOK
  <2>3. last[v] \in 0 .. MaxId /\ Ids(screen[v]) \in SUBSET Id
    BY ViewTypes
  <2>4. QED
    BY <1>2, <2>1, <2>2, <2>3, ScreenMoves
<1>4. ViewOK'
  <2>1. noteCount' \in 0 .. MaxNotes
    BY <1>1 DEF Inv, TypeOK
  <2>2. QED
    BY <1>1, <1>3, <2>1 DEF Inv, TypeOK, ViewOK
<1>5. WriterOK' /\ AskOK' /\ Handles' /\ Elsewhere(v)
  BY <1>1, <1>3 DEF Inv, TypeOK, WriterOK, AskOK, Handles, Elsewhere
<1>6. Seen(v)' /\ Asked(v)' /\ Removed(v)'
  <2>1. next \in Nat /\ next' \in Nat /\ next <= next' /\ last[v] \in Nat
    BY <1>2, <1>0 DEF Known, LogOK, Moves
  <2>2. Seen(v)'
    BY <1>1, <2>1, <1>0 DEF Known, Seen
  <2>3. ask[v].kind # "clear" => \A r \in Taken(ask[v])' : r \in Taken(ask[v])
    <3> SUFFICES ASSUME ask[v].kind # "clear", NEW r \in Taken(ask[v])' PROVE r \in Taken(ask[v])
      OBVIOUS
    <3>1. r \in rows' /\ ask[v].kind \in {"above", "below"}
      BY <1>1 DEF Taken
    <3>2. r \in Nat /\ ask[v].anchor < next /\ ask[v].through < next
          /\ ask[v].anchor \in Nat /\ ask[v].through \in Nat
      BY <1>0, <1>2, <3>1 DEF Known, Seen, LogOK
    <3>3. r < ask[v].anchor \/ r <= ask[v].through
      BY <1>1, <3>1 DEF Taken
    <3>4. r \in rows
      BY <1>2, <2>1, <3>1, <3>2, <3>3 DEF Moves
    <3>5. QED
      BY <1>1, <3>1, <3>4 DEF Taken
  <2>4. Asked(v)'
    BY <1>0, <1>1, <1>2, <2>3 DEF Known, Asked
  <2>5. Removed(v)'
    <3>1. \A r \in rows' : r \in rows \/ (next <= r /\ r \in Nat)
      BY <1>2 DEF Moves, LogOK
    <3>2. /\ last[v] < next /\ ask[v].anchor < next /\ ask[v].through < next
          /\ ask[v].anchor \in Nat /\ ask[v].through \in Nat
      BY <1>0 DEF Known, Seen
    <3>3. ASSUME NEW r \in rows', r \notin rows
          PROVE  last[v] < r /\ ask[v].anchor <= r /\ ask[v].through < r
      BY <2>1, <3>1, <3>2, <3>3
    <3>4. UNCHANGED <<pc, ask, copy, gone, last, adrift>> /\ notes \subseteq notes' /\ Removed(v)
      BY <1>0, <1>1, <1>2 DEF Known
    <3>5. QED
      BY <3>3, <3>4 DEF Removed
  <2>6. QED
    BY <2>2, <2>4, <2>5
<1>7. Inv'
  BY <1>1, <1>2, <1>3, <1>4, <1>5, <1>6, ViewMoves DEF ViewTrue
<1>8. QED
  BY <1>2, <1>7 DEF Displays

\* What a view keeps on its screen after a deletion is what the deletion left.
LEMMA KeptTheorem ==
  ASSUME Inv, NEW v \in Views, pc[v] = "answer", v \notin adrift
  PROVE  /\ Ids(Kept(v)) \cap gone[v] = {}
         /\ \A r \in rows : start[v] < r /\ dropped[v] < r /\ r <= last[v] => r \in Ids(Kept(v))
<1>0. Known(v)
  BY KnownTheorem
<1>1. /\ ask[v].kind \in {"clear", "above", "below"}
      /\ ask[v].anchor \in Nat /\ ask[v].through \in Nat /\ last[v] \in Nat
      /\ rows \subseteq Nat /\ gone[v] \subseteq Nat /\ Ids(screen[v]) \subseteq Nat \ {0}
      /\ Shown(v) /\ Removed(v)
  <2>1. ask[v].kind \in {"clear", "above", "below"}
    BY ViewTypes DEF Asked, Ask, Waiting
  <2>2. gone[v] \in SUBSET Id
    BY ViewTypes
  <2>3. QED
    BY <1>0, <2>1, <2>2 DEF Known
<1>2. \A r : r \in Ids(Kept(v)) <=> (r \in Ids(screen[v]) /\ Stays(ask[v], r))
  BY KeptScreen
<1>3. CASE ask[v].kind = "clear"
  <2>1. Ids(Kept(v)) = {}
    BY <1>2, <1>3 DEF Stays
  <2>2. \A r \in rows : last[v] < r
    BY <1>1, <1>3 DEF Removed
  <2>3. QED
    BY <1>1, <2>1, <2>2
<1>4. CASE ask[v].kind = "above"
  <2>1. /\ \A r \in Ids(screen[v]) : Stays(ask[v], r) <=> r >= ask[v].anchor
        /\ \A r \in rows : ask[v].anchor <= r
        /\ \A r \in gone[v] : r < ask[v].anchor
    BY <1>1, <1>4 DEF Stays, Removed
  <2>2. ASSUME NEW r \in rows, start[v] < r, dropped[v] < r, r <= last[v] PROVE r \in Ids(Kept(v))
    <3>1. r \in Ids(screen[v]) /\ r >= ask[v].anchor
      BY <1>1, <2>1, <2>2 DEF Shown
    <3>2. QED
      BY <1>2, <2>1, <3>1
  <2>3. ASSUME NEW r \in gone[v], r \in Ids(Kept(v)) PROVE FALSE
    <3>1. r >= ask[v].anchor /\ r < ask[v].anchor /\ r \in Nat
      BY <1>1, <1>2, <2>1, <2>3
    <3>2. QED
      BY <1>1, <3>1
  <2>4. QED
    BY <2>2, <2>3
<1>5. CASE ask[v].kind = "below"
  <2>1. /\ \A r \in Ids(screen[v]) :
             Stays(ask[v], r) <=> (r <= ask[v].anchor \/ r > ask[v].through)
        /\ \A r \in rows : r <= ask[v].anchor \/ ask[v].through < r
        /\ \A r \in gone[v] : ask[v].anchor < r /\ r <= ask[v].through
    BY <1>1, <1>5 DEF Stays, Removed
  <2>2. ASSUME NEW r \in rows, start[v] < r, dropped[v] < r, r <= last[v] PROVE r \in Ids(Kept(v))
    <3>1. r \in Ids(screen[v]) /\ (r <= ask[v].anchor \/ r > ask[v].through)
      BY <1>1, <2>1, <2>2 DEF Shown
    <3>2. QED
      BY <1>2, <2>1, <3>1
  <2>3. ASSUME NEW r \in gone[v], r \in Ids(Kept(v)) PROVE FALSE
    <3>1. /\ r <= ask[v].anchor \/ r > ask[v].through
          /\ ask[v].anchor < r /\ r <= ask[v].through /\ r \in Nat
      BY <1>1, <1>2, <2>1, <2>3
    <3>2. QED
      BY <1>1, <3>1
  <2>4. QED
    BY <2>2, <2>3
<1>6. QED
  BY <1>1, <1>3, <1>4, <1>5

\* A request that is over leaves nothing to wait for.
LEMMA OverTheorem ==
  ASSUME Inv, NEW v \in Views, Over(v), next' \in Nat \ {0}, last'[v] = last[v], last[v] < next'
  PROVE  /\ pc'[v] = "watching" /\ AskOK' /\ pc' \in [Views -> ViewPc] /\ adrift' \subseteq Views
         /\ \A u \in Views \ {v} : /\ pc'[u] = pc[u] /\ ask'[u] = ask[u] /\ copy'[u] = copy[u]
                                   /\ gone'[u] = gone[u] /\ (u \in adrift' <=> u \in adrift)
         /\ Seen(v)' /\ Asked(v)' /\ Removed(v)'
<1>0. Known(v)
  BY KnownTheorem
<1>1. pc'[v] = "watching" /\ ask'[v] = NoAsk
  BY DEF Over, Inv, TypeOK
<1>2. AskOK' /\ pc' \in [Views -> ViewPc] /\ adrift' \subseteq Views
  BY NoAskType DEF Over, Inv, TypeOK, AskOK, ViewPc
<1>3. \A u \in Views \ {v} : /\ pc'[u] = pc[u] /\ ask'[u] = ask[u] /\ copy'[u] = copy[u]
                            /\ gone'[u] = gone[u] /\ (u \in adrift' <=> u \in adrift)
  BY DEF Over, Inv, TypeOK
<1>4. Asked(v)' /\ Removed(v)'
  <2>1. v \notin adrift'
    BY DEF Over
  <2>2. QED
    BY <1>1, <2>1 DEF Asked, Removed, Waiting
<1>5. Seen(v)'
  BY <1>1, NoAskType DEF Seen
<1>6. QED
  BY <1>1, <1>2, <1>3, <1>4, <1>5

LEMMA AnswerKeeps ==
  ASSUME Inv, NEW v \in Views, Answer(v), UNCHANGED scene
  PROVE  /\ Inv' /\ (dropped'[v] # dropped[v] => Len(screen'[v]) = DisplayLimit)
         /\ Ids(screen'[v]) \cap gone[v] = {}
<1>0. Known(v)
  BY KnownTheorem
<1>1. /\ pc[v] = "answer" /\ v \notin adrift /\ Over(v)
      /\ Marker(v, Kept(v)) \/ (Display(v, Kept(v)) /\ UNCHANGED logVars)
      /\ UNCHANGED <<writerVars, last, start, noteCount, follow>>
  BY DEF Answer
<1>2. /\ Kept(v) \in Seq(0 .. MaxId) /\ Screened(Kept(v), dropped[v], last[v])
      /\ Ids(Kept(v)) \in SUBSET Id
  <2>1. Kept(v) \in Seq(0 .. MaxId) /\ Screened(Kept(v), dropped[v], last[v])
    BY KeptScreen
  <2>2. QED
    BY <2>1, IdsTheorem
<1>3. /\ Ids(Kept(v)) \cap gone[v] = {}
      /\ \A r \in rows : start[v] < r /\ dropped[v] < r /\ r <= last[v] => r \in Ids(Kept(v))
  BY <1>1, KeptTheorem
<1>4. /\ LogOK' /\ Moves /\ notes \subseteq notes' /\ RowsFresh'
      /\ rows' \ notes' \subseteq rows \ notes
      /\ \A r \in rows' : r \in rows \/ last[v] < r
      /\ Displays(v, Ids(Kept(v)), last[v])
  <2>1. CASE Marker(v, Kept(v))
    BY <1>2, <2>1, MarkerTheorem
  <2>2. CASE Display(v, Kept(v)) /\ UNCHANGED logVars
    <3>1. Displays(v, Ids(Kept(v)), last[v])
      BY <1>2, <2>2, ViewTypes, DisplayTheorem DEF OnScreen
    <3>2. QED
      BY <2>2, <3>1 DEF Inv, TypeOK, LogOK, Moves, RowsFresh
  <2>3. QED
    BY <1>1, <2>1, <2>2
<1>5. /\ OnScreen(v)' /\ Shown(v)'
      /\ screen' \in [Views -> Seq(0 .. MaxId)] /\ dropped' \in [Views -> 0 .. MaxId]
      /\ \A u \in Views : Len(screen'[u]) <= DisplayLimit
      /\ \A u \in Views \ {v} : screen'[u] = screen[u] /\ dropped'[u] = dropped[u]
  <2>1. ASSUME NEW r \in rows', start[v] < r, dropped[v] < r, r <= last[v]
        PROVE  r \in Ids(Kept(v))
    <3>1. r \in Nat /\ last[v] \in Nat
      BY <1>4, <1>0 DEF Known, LogOK
    <3>2. r \in rows
      BY <1>4, <2>1, <3>1
    <3>3. QED
      BY <1>3, <2>1, <3>2
  <2>2. last'[v] = last[v] /\ start'[v] = start[v] /\ rows' \subseteq Nat
    BY <1>1, <1>4 DEF LogOK
  <2>3. last[v] \in 0 .. MaxId
    BY ViewTypes
  <2>4. Covers(v, Ids(Kept(v)), last[v])
    BY <2>1 DEF Covers
  <2>5. Displays(v, Ids(Kept(v)), last[v]) /\ Ids(Kept(v)) \in SUBSET Id
    BY <1>2, <1>4
  <2>6. QED
    BY <2>2, <2>3, <2>4, <2>5, ScreenMoves
<1>6. /\ pc'[v] = "watching" /\ AskOK' /\ pc' \in [Views -> ViewPc] /\ adrift' \subseteq Views
      /\ \A u \in Views \ {v} : /\ pc'[u] = pc[u] /\ ask'[u] = ask[u] /\ copy'[u] = copy[u]
                                /\ gone'[u] = gone[u] /\ (u \in adrift' <=> u \in adrift)
      /\ Seen(v)' /\ Asked(v)' /\ Removed(v)'
  <2>1. next' \in Nat \ {0} /\ next <= next' /\ next \in Nat /\ last[v] < next /\ last[v] \in Nat
    BY <1>4, ViewTypes DEF LogOK, Moves, Seen
  <2>2. last[v] < next' /\ last'[v] = last[v]
    BY <1>1, <2>1
  <2>3. QED
    BY <1>1, <2>1, <2>2, OverTheorem
<1>7. ViewOK'
  BY <1>1, <1>5, <1>6 DEF Inv, TypeOK, ViewOK
<1>8. WriterOK' /\ Handles' /\ Elsewhere(v)
  <2>1. WriterOK'
    BY <1>1 DEF Inv, TypeOK, WriterOK
  <2>2. Elsewhere(v)
    BY <1>1, <1>5, <1>6 DEF Elsewhere
  <2>3. Handles'
    BY <1>1, <1>6 DEF Inv, Handles
  <2>4. QED
    BY <2>1, <2>2, <2>3
<1>9. Inv'
  BY <1>1, <1>4, <1>5, <1>6, <1>7, <1>8, ViewMoves DEF ViewTrue
<1>10. Ids(screen'[v]) \cap gone[v] = {}
  BY <1>3, <1>4 DEF Displays
<1>11. QED
  BY <1>4, <1>9, <1>10 DEF Displays

\* A request that ends without its view's screen.
LEMMA EndKeeps ==
  ASSUME Inv, NEW v \in Views, Over(v), WriterOK', Handles', UNCHANGED scene,
         UNCHANGED <<logVars, last, start, screen, dropped, noteCount, follow>>
  PROVE  Inv'
<1>0. Known(v)
  BY KnownTheorem
<1>1. /\ pc'[v] = "watching" /\ AskOK' /\ pc' \in [Views -> ViewPc] /\ adrift' \subseteq Views
      /\ \A u \in Views \ {v} : /\ pc'[u] = pc[u] /\ ask'[u] = ask[u] /\ copy'[u] = copy[u]
                                /\ gone'[u] = gone[u] /\ (u \in adrift' <=> u \in adrift)
      /\ Seen(v)' /\ Asked(v)' /\ Removed(v)'
  <2>1. next' \in Nat \ {0} /\ last[v] < next' /\ last'[v] = last[v]
    BY ViewTypes DEF Seen
  <2>2. QED
    BY <2>1, OverTheorem
<1>2. LogOK' /\ Moves /\ notes \subseteq notes' /\ RowsFresh' /\ ViewOK' /\ Elsewhere(v)
  BY <1>1, TypeParts DEF Inv, LogOK, Moves, RowsFresh, ViewOK, Elsewhere
<1>3. OnScreen(v)' /\ Shown(v)'
  BY <1>0 DEF Known, OnScreen, Screened, Shown, Ids
<1>4. QED
  BY <1>1, <1>2, <1>3, ViewMoves DEF ViewTrue

LEMMA FailsKeeps ==
  ASSUME Inv, NEW v \in Views, Fails(v), UNCHANGED scene PROVE Inv'
<1>1. /\ Over(v)
      /\ UNCHANGED <<logVars, writerVars, last, start, screen, dropped, noteCount, follow>>
  BY DEF Fails
<1>2. pc'[v] = "watching" /\ \A u \in Views \ {v} : pc'[u] = pc[u]
  BY <1>1 DEF Over, Inv, TypeOK
<1>3. WriterOK' /\ Handles'
  BY <1>1, <1>2 DEF Inv, TypeOK, WriterOK, Handles
<1>4. QED
  BY <1>1, <1>3, EndKeeps

LEMMA RequestFailsKeeps ==
  ASSUME Inv, NEW v \in Views, RequestFails(v), UNCHANGED scene PROVE Inv'
<1>1. /\ Over(v) /\ handle' = IF handle = v THEN "free" ELSE handle
      /\ UNCHANGED <<logVars, batches, trimming, oldLeft, last, start, screen, dropped,
                     noteCount, follow>>
  BY DEF RequestFails
<1>2. pc'[v] = "watching" /\ \A u \in Views \ {v} : pc'[u] = pc[u]
  BY <1>1 DEF Over, Inv, TypeOK
<1>3. WriterOK' /\ Handles'
  BY <1>1, <1>2 DEF Inv, TypeOK, WriterOK, Handles
<1>4. QED
  BY <1>1, <1>3, EndKeeps

LEMMA GivesUpKeeps ==
  ASSUME Inv, NEW v \in Views, GivesUp(v), UNCHANGED scene PROVE Inv'
<1>0. Known(v)
  BY KnownTheorem
<1>1. /\ adrift' = adrift \cup {v}
      /\ UNCHANGED <<logVars, writerVars, askVars, pc, last, start, screen, dropped, noteCount,
                     follow>>
  BY DEF GivesUp
<1>2. LogOK' /\ Moves /\ notes \subseteq notes' /\ RowsFresh' /\ Handles' /\ WriterOK'
  BY <1>1 DEF Inv, TypeOK, LogOK, Moves, RowsFresh, Handles, WriterOK
<1>3. ViewOK' /\ AskOK' /\ Elsewhere(v)
  BY <1>1 DEF Inv, TypeOK, ViewOK, AskOK, Elsewhere
<1>4. Seen(v)' /\ OnScreen(v)' /\ Shown(v)'
  BY <1>1, <1>0 DEF Known, Seen, OnScreen, Screened, Shown, Ids
<1>5. Asked(v)'
  <2>1. Taken(ask[v])' = Taken(ask[v])
    BY <1>1 DEF Taken
  <2>2. QED
    BY <1>0, <1>1, <2>1 DEF Known, Asked, GivesUp, Waiting
<1>6. Removed(v)'
  BY <1>0, <1>1 DEF Known, Removed
<1>7. QED
  BY <1>1, <1>2, <1>3, <1>4, <1>5, <1>6, ViewMoves DEF ViewTrue

LEMMA TakeHandleKeeps ==
  ASSUME Inv, NEW v \in Views, TakeHandle(v), UNCHANGED scene PROVE Inv'
<1>0. Known(v)
  BY KnownTheorem
<1>1. /\ pc[v] = "queued" /\ handle = "free" /\ handle' = v
      /\ pc' = [pc EXCEPT ![v] = IF ask[v].archive THEN "copy" ELSE "remove"]
      /\ UNCHANGED <<logVars, batches, trimming, oldLeft, askVars, last, start, screen,
                     dropped, adrift, noteCount, follow>>
  BY DEF TakeHandle
<1>2. LogOK' /\ Moves /\ notes \subseteq notes' /\ RowsFresh'
  BY <1>1 DEF Inv, TypeOK, LogOK, Moves, RowsFresh
<1>3. WriterOK' /\ ViewOK' /\ AskOK' /\ Elsewhere(v)
  BY <1>1 DEF Inv, TypeOK, WriterOK, ViewOK, AskOK, ViewPc, Elsewhere
<1>4. Handles'
  BY <1>1 DEF Inv, TypeOK, Handles
<1>5. ViewTrue(v)'
  <2>1. /\ pc'[v] \in {"copy", "remove"} /\ (ask[v].archive => pc'[v] = "copy") /\ ViewTrue(v)
    BY <1>1 DEF Inv, TypeOK
  <2>2. Taken(ask[v])' = Taken(ask[v])
    BY <1>1 DEF Taken
  <2>3. QED
    BY <1>1, <2>1, <2>2
       DEF ViewTrue, Seen, Asked, Removed, Shown, OnScreen, Screened, Ids, Waiting
<1>6. QED
  BY <1>1, <1>2, <1>3, <1>4, <1>5, ViewMoves

LEMMA CopyLogKeeps ==
  ASSUME Inv, NEW v \in Views, CopyLog(v), UNCHANGED scene PROVE Inv'
<1>0. Known(v)
  BY KnownTheorem
<1>1. /\ pc[v] = "copy" /\ copy' = [copy EXCEPT ![v] = rows]
      /\ pc' = [pc EXCEPT ![v] = "remove"]
      /\ UNCHANGED <<logVars, writerVars, ask, gone, last, start, screen, dropped, adrift, noteCount,
                     follow>>
  BY DEF CopyLog
<1>2. LogOK' /\ Moves /\ notes \subseteq notes' /\ RowsFresh'
  BY <1>1 DEF Inv, TypeOK, LogOK, Moves, RowsFresh
<1>3. WriterOK' /\ ViewOK' /\ AskOK' /\ Elsewhere(v)
  BY <1>1 DEF Inv, TypeOK, WriterOK, ViewOK, AskOK, ViewPc, Elsewhere
<1>4. Handles'
  BY <1>1 DEF Inv, TypeOK, Handles
<1>5. ViewTrue(v)'
  <2>1. pc'[v] = "remove" /\ copy'[v] = rows /\ ViewTrue(v)
    BY <1>1 DEF Inv, TypeOK
  <2>2. Taken(ask[v])' = Taken(ask[v])
    BY <1>1 DEF Taken
  <2>3. QED
    BY <1>1, <2>1, <2>2
       DEF ViewTrue, Seen, Asked, Removed, Shown, OnScreen, Screened, Ids, Waiting
<1>6. QED
  BY <1>1, <1>2, <1>3, <1>4, <1>5, ViewMoves

LEMMA RemoveKeeps ==
  ASSUME Inv, NEW v \in Views, Remove(v), UNCHANGED scene PROVE Inv'
<1>0. Known(v)
  BY KnownTheorem
<1> DEFINE taken == Taken(ask[v])
<1>1. /\ pc[v] = "remove" /\ rows' = rows \ taken /\ gone' = [gone EXCEPT ![v] = taken]
      /\ handle' = "free"
      /\ \E to \in {"error", IF ask[v].kind # "clear" /\ taken # {} THEN "mark" ELSE "answer"} :
           pc' = [pc EXCEPT ![v] = to]
      /\ UNCHANGED <<next, notes, batches, trimming, oldLeft, ask, copy, last, start, screen,
                     dropped, adrift, noteCount, follow>>
  BY DEF Remove
<1>2. taken \subseteq rows
  BY DEF Taken
<1>3. /\ ask[v] \in Ask /\ ViewTrue(v) /\ rows \subseteq Nat
      /\ ask[v].anchor \in Nat /\ ask[v].through \in Nat
  <2>1. ask[v] \in Ask /\ ViewTrue(v) /\ rows \subseteq Id
    BY DEF Inv, TypeOK
  <2>2. QED
    BY <2>1 DEF Ask
<1>4. /\ ask[v].kind = "clear" => taken = rows
      /\ ask[v].kind = "above" => taken = {r \in rows : r < ask[v].anchor}
      /\ ask[v].kind = "below" => taken = {r \in rows : r > ask[v].anchor /\ r <= ask[v].through}
  BY DEF Taken
<1> HIDE DEF taken
<1>5. /\ LogOK' /\ Moves /\ notes \subseteq notes' /\ RowsFresh'
      /\ rows' \ notes' \subseteq rows \ notes
  <2>1. rows' \subseteq rows /\ next' = next /\ notes' = notes
    BY <1>1
  <2>2. QED
    BY <2>1, TypeParts DEF Inv, LogOK, Moves, RowsFresh
<1>6. WriterOK' /\ ViewOK' /\ AskOK' /\ Elsewhere(v)
  <2>1. taken \in SUBSET Id
    BY <1>2 DEF Inv, TypeOK
  <2>2. AskOK'
    BY <1>1, <2>1 DEF Inv, TypeOK, AskOK
  <2>3. ViewOK' /\ WriterOK'
    BY <1>1 DEF Inv, TypeOK, ViewOK, WriterOK, ViewPc
  <2>4. QED
    BY <1>1, <2>2, <2>3 DEF Inv, TypeOK, Elsewhere
<1>7. Handles'
  BY <1>1 DEF Inv, TypeOK, Handles
<1>8. ViewTrue(v)'
  <2>1. pc'[v] \in {"mark", "answer", "error"} /\ gone'[v] = taken
    BY <1>1 DEF Inv, TypeOK
  <2>2. ask'[v] = ask[v] /\ copy'[v] = copy[v] /\ last'[v] = last[v] /\ notes' = notes
    BY <1>1
  <2>3. Removed(v)'
    <3>1. /\ ask[v].kind # "clear" => taken \subseteq ask[v].counted
          /\ ask[v].archive => taken \ notes \subseteq copy[v]
      BY <1>1, <1>2, <1>3 DEF ViewTrue, Asked, taken
    <3>2. ask[v].kind = "clear" => rows' = {}
      BY <1>1, <1>4
    <3>3. ask[v].kind = "above" =>
            (\A r \in rows' : ask[v].anchor <= r) /\ (\A r \in taken : r < ask[v].anchor)
      BY <1>1, <1>3, <1>4
    <3>4. ask[v].kind = "below" =>
            /\ \A r \in rows' : r <= ask[v].anchor \/ ask[v].through < r
            /\ \A r \in taken : ask[v].anchor < r /\ r <= ask[v].through
      BY <1>1, <1>3, <1>4
    <3>5. QED
      BY <2>1, <2>2, <3>1, <3>2, <3>3, <3>4 DEF Removed
  <2>4. Seen(v)' /\ Shown(v)' /\ OnScreen(v)' /\ Asked(v)'
    BY <1>1, <1>3, <2>1 DEF ViewTrue, Seen, Shown, OnScreen, Screened, Ids, Asked, Waiting
  <2>5. QED
    BY <2>3, <2>4 DEF ViewTrue
<1>9. QED
  BY <1>1, <1>5, <1>6, <1>7, <1>8, ViewMoves

LEMMA MarkKeeps ==
  ASSUME Inv, NEW v \in Views, Mark(v), UNCHANGED scene PROVE Inv'
<1>0. Known(v)
  BY KnownTheorem
<1>1. /\ pc[v] = "mark" /\ handle = "free" /\ (Insert({next}) \/ UNCHANGED <<rows, next>>)
      /\ pc' = [pc EXCEPT ![v] = "answer"]
      /\ UNCHANGED <<notes, writerVars, askVars, last, start, screen, dropped, adrift, noteCount,
                     follow>>
  BY DEF Mark
<1>2. /\ LogOK' /\ Moves /\ notes \subseteq notes' /\ RowsFresh'
      /\ next \in Nat /\ next' \in Nat /\ next <= next'
      /\ \A r \in rows' : r \in rows \/ r = next
  <2>1. CASE Insert({next})
    BY <1>1, <2>1, RowStored
  <2>2. CASE UNCHANGED <<rows, next>>
    BY <1>1, <2>2 DEF Inv, TypeOK, LogOK, Moves, RowsFresh
  <2>3. QED
    BY <1>1, <2>1, <2>2
<1>3. WriterOK' /\ ViewOK' /\ AskOK' /\ Elsewhere(v)
  BY <1>1 DEF Inv, TypeOK, WriterOK, ViewOK, AskOK, ViewPc, Elsewhere
<1>4. Handles'
  BY <1>1 DEF Inv, TypeOK, Handles
<1>5. pc'[v] = "answer"
  BY <1>1 DEF Inv, TypeOK
<1>6. Seen(v)' /\ Asked(v)'
  BY <1>0, <1>1, <1>2, <1>5 DEF Known, Seen, Asked, Waiting
<1>7. Removed(v)'
  <2>1. /\ last[v] < next /\ ask[v].anchor < next /\ ask[v].through < next
        /\ ask[v].anchor \in Nat /\ ask[v].through \in Nat /\ last[v] \in Nat
    BY <1>0 DEF Known, Seen
  <2>2. ASSUME NEW r \in rows', r \notin rows
        PROVE  last[v] < r /\ ask[v].anchor <= r /\ ask[v].through < r
    BY <1>2, <2>1, <2>2
  <2>3. QED
    BY <1>0, <1>1, <1>5, <2>2 DEF Known, Removed
<1>8. OnScreen(v)' /\ Shown(v)'
  <2>1. screen' = screen /\ dropped' = dropped /\ last' = last /\ start' = start
    BY <1>1
  <2>2. OnScreen(v)'
    BY <1>0, <2>1 DEF Known, OnScreen, Screened
  <2>3. last[v] \in Nat /\ last[v] < next
    BY <1>0 DEF Known, Seen
  <2>4. Shown(v)'
    <3> SUFFICES ASSUME NEW r \in rows', start[v] < r, dropped[v] < r, r <= last[v]
                 PROVE  r \in Ids(screen[v])
      BY <2>1 DEF Shown, Ids
    <3>1. r \in rows
      BY <1>2, <2>3
    <3>2. QED
      BY <1>0, <3>1 DEF Known, Shown
  <2>5. QED
    BY <2>2, <2>4
<1>9. QED
  BY <1>1, <1>2, <1>3, <1>4, <1>6, <1>7, <1>8, ViewMoves DEF ViewTrue

-----------------------------------------------------------------------------
(* The follower. *)

LEMMA FollowerMoves ==
  ASSUME Inv, UNCHANGED <<scene, logVars, batches, trimming, oldLeft, askVars, viewVars>>,
         handle' \in {handle, "free", "follower"}, Handles', FollowOK', Following'
  PROVE  Inv'
<1>1. LogOK' /\ Moves /\ RowsFresh'
  BY DEF Inv, TypeOK, LogOK, Moves, RowsFresh
<1>2. WriterOK' /\ ViewOK' /\ AskOK'
  BY DEF Inv, TypeOK, WriterOK, ViewOK, AskOK
<1>3. TypeOK'
  BY <1>1, <1>2, TypeParts DEF Inv
<1>4. ASSUME NEW v \in Views PROVE ViewTrue(v)'
  BY <1>1, ViewWaits
<1>5. QED
  BY <1>1, <1>3, <1>4 DEF Inv

FollowerPc == {"off", "read", "last", "poll"}

\* The fields of the follower after a step.
LEMMA FollowerFields ==
  ASSUME NEW T, NEW N, NEW f \in [pc : FollowerPc, first : N, cursor : N, printed : T],
         NEW p \in FollowerPc, NEW n \in N, NEW t \in T
  PROVE  /\ LET g == [f EXCEPT !.pc = p, !.first = n]
            IN  /\ g \in [pc : FollowerPc, first : N, cursor : N, printed : T]
                /\ g.pc = p /\ g.first = n /\ g.cursor = f.cursor /\ g.printed = f.printed
         /\ LET g == [f EXCEPT !.pc = p, !.cursor = n]
            IN  /\ g \in [pc : FollowerPc, first : N, cursor : N, printed : T]
                /\ g.pc = p /\ g.first = f.first /\ g.cursor = n /\ g.printed = f.printed
         /\ LET g == [f EXCEPT !.pc = p, !.cursor = n, !.printed = t]
            IN  /\ g \in [pc : FollowerPc, first : N, cursor : N, printed : T]
                /\ g.pc = p /\ g.first = f.first /\ g.cursor = n /\ g.printed = t
         /\ LET g == [f EXCEPT !.cursor = n, !.printed = t]
            IN  /\ g \in [pc : FollowerPc, first : N, cursor : N, printed : T]
                /\ g.pc = f.pc /\ g.first = f.first /\ g.cursor = n /\ g.printed = t
  OBVIOUS

\* Two pages, each in order, with the first up to c and the second beyond it.
LEMMA PagesTheorem ==
  ASSUME NEW a \in Seq(Nat), NEW b \in Seq(Nat), NEW c \in Nat,
         \A i, j \in 1 .. Len(a) : i < j => a[i] < a[j],
         \A i, j \in 1 .. Len(b) : i < j => b[i] < b[j],
         \A i \in 1 .. Len(a) : a[i] <= c,
         \A i \in 1 .. Len(b) : c < b[i]
  PROVE  /\ Len(a \o b) = Len(a) + Len(b) /\ Len(a) \in Nat /\ Len(b) \in Nat
         /\ \A i \in 1 .. Len(a) : i \in 1 .. Len(a \o b) /\ (a \o b)[i] = a[i]
         /\ \A j \in 1 .. Len(b) : Len(a) + j \in 1 .. Len(a \o b) /\ (a \o b)[Len(a) + j] = b[j]
         /\ \A i \in 1 .. Len(a \o b) :
              \/ i \in 1 .. Len(a) /\ (a \o b)[i] = a[i]
              \/ i - Len(a) \in 1 .. Len(b) /\ (a \o b)[i] = b[i - Len(a)]
         /\ \A i, j \in 1 .. Len(a \o b) : i < j => (a \o b)[i] < (a \o b)[j]
<1> DEFINE n == Len(a)
           m == Len(b)
           ab == a \o b
<1>1. n \in Nat /\ m \in Nat
  BY LenProperties
<1>2. Len(ab) = n + m /\ \A i \in 1 .. n + m : ab[i] = IF i <= n THEN a[i] ELSE b[i - n]
  BY ConcatProperties
<1>3. /\ \A i \in 1 .. n : a[i] \in Nat
      /\ \A i \in 1 .. m : b[i] \in Nat
  BY ElementOfSeq
<1> HIDE DEF n, m, ab
<1>4. \A i \in 1 .. n : i \in 1 .. n + m /\ ab[i] = a[i]
  BY <1>1, <1>2
<1>5. \A j \in 1 .. m : n + j \in 1 .. n + m /\ ab[n + j] = b[j]
  <2> SUFFICES ASSUME NEW j \in 1 .. m PROVE n + j \in 1 .. n + m /\ ab[n + j] = b[j]
    OBVIOUS
  <2>1. n + j \in 1 .. n + m /\ ~(n + j <= n) /\ (n + j) - n = j
    BY <1>1
  <2>2. QED
    BY <1>2, <2>1
<1>6. ASSUME NEW i \in 1 .. n + m
      PROVE  (i \in 1 .. n /\ ab[i] = a[i]) \/ (i - n \in 1 .. m /\ ab[i] = b[i - n])
  <2>1. CASE i <= n
    BY <1>1, <1>2, <2>1
  <2>2. CASE ~(i <= n)
    <3>1. i - n \in 1 .. m
      BY <1>1, <2>2
    <3>2. QED
      BY <1>2, <2>2, <3>1
  <2>3. QED
    BY <2>1, <2>2
<1>7. ASSUME NEW i \in 1 .. n + m, NEW j \in 1 .. n + m, i < j PROVE ab[i] < ab[j]
  <2>1. CASE j <= n
    <3>1. i \in 1 .. n /\ j \in 1 .. n
      BY <1>1, <1>7, <2>1
    <3>2. QED
      BY <1>4, <1>7, <3>1 DEF n
  <2>2. CASE n < j /\ i <= n
    <3>1. i \in 1 .. n /\ j - n \in 1 .. m
      BY <1>1, <2>2
    <3>2. ab[i] = a[i] /\ ab[j] = b[j - n]
      BY <1>1, <1>2, <2>2
    <3>3. a[i] <= c /\ c < b[j - n] /\ a[i] \in Nat /\ b[j - n] \in Nat
      BY <1>3, <3>1 DEF n, m
    <3>4. QED
      BY <3>2, <3>3
  <2>3. CASE n < i
    <3>1. i - n \in 1 .. m /\ j - n \in 1 .. m /\ i - n < j - n
      BY <1>1, <1>7, <2>3
    <3>2. ab[i] = b[i - n] /\ ab[j] = b[j - n]
      BY <1>1, <1>2, <1>7, <2>3
    <3>3. b[i - n] < b[j - n]
      BY <3>1 DEF m
    <3>4. QED
      BY <3>2, <3>3
  <2>4. QED
    BY <1>1, <2>1, <2>2, <2>3
<1>8. QED
  BY <1>1, <1>2, <1>4, <1>5, <1>6, <1>7 DEF n, m, ab

LEMMA FollowStartKeeps ==
  ASSUME Inv, FollowStart, UNCHANGED scene PROVE Inv'
<1>1. /\ follow.pc = "off" /\ handle = "free" /\ handle' = "follower"
      /\ follow' = [follow EXCEPT !.pc = "read", !.first = StartIdFromEnd(TailCount)]
      /\ UNCHANGED <<logVars, batches, trimming, oldLeft, askVars, viewVars>>
  BY DEF FollowStart
<1>2. StartIdFromEnd(TailCount) \in 0 .. MaxId
  <2>1. rows \in IdSets /\ rows \subseteq Id
    BY IdSetFacts DEF Inv, TypeOK
  <2>2. CASE rows = {}
    BY <2>2 DEF StartIdFromEnd
  <2>3. CASE rows # {}
    <3>1. LastOf(rows, TailCount) \in IdSets /\ LastOf(rows, TailCount) # {}
          /\ LastOf(rows, TailCount) \subseteq rows
      BY <2>1, <2>3, LastOfTheorem
    <3>2. Min(LastOf(rows, TailCount)) \in LastOf(rows, TailCount)
      BY <3>1, MinTheorem
    <3>3. Min(LastOf(rows, TailCount)) \in Id
      BY <2>1, <3>1, <3>2
    <3>4. StartIdFromEnd(TailCount) \in Id
      BY <2>3, <3>3 DEF StartIdFromEnd
    <3>5. QED
      BY <3>4
  <2>4. QED
    BY <2>2, <2>3
<1> DEFINE first == StartIdFromEnd(TailCount)
<1> HIDE DEF first
<1>3. /\ FollowOK' /\ follow'.pc = "read" /\ follow'.printed = follow.printed
      /\ follow'.cursor = follow.cursor
  BY <1>1, <1>2 DEF Inv, TypeOK, FollowOK
<1>4. Following'
  BY <1>1, <1>3 DEF Inv, Following, FollowerMissesNothing, FollowerInOrder
<1>5. Handles'
  BY <1>1, <1>3 DEF Inv, TypeOK, Handles
<1>6. QED
  BY <1>1, <1>3, <1>4, <1>5, FollowerMoves

LEMMA FollowReadKeeps ==
  ASSUME Inv, FollowRead, UNCHANGED scene PROVE Inv'
<1> DEFINE rest == After(follow.first - 1)
           page == FirstOf(rest, FollowBatch)
<1>1. /\ follow.pc = "read"
      /\ UNCHANGED <<logVars, batches, trimming, oldLeft, askVars, viewVars>>
  BY DEF FollowRead
<1>2. /\ follow.first \in Nat /\ follow.printed = <<>> /\ follow.cursor < next
      /\ rows \subseteq Id /\ handle = "follower" /\ FollowOK
  BY <1>1 DEF Inv, TypeOK, FollowOK, Following, Handles
<1>3. rest = {r \in rows : follow.first <= r} /\ rest \in IdSets
  <2>1. \A r \in rows : r > follow.first - 1 <=> follow.first <= r
    <3> SUFFICES ASSUME NEW r \in rows PROVE r > follow.first - 1 <=> follow.first <= r
      OBVIOUS
    <3>1. r \in Nat /\ follow.first \in Nat
      BY <1>2
    <3>2. QED
      BY <3>1
  <2>2. rest = {r \in rows : follow.first <= r}
    BY <2>1 DEF After
  <2>3. QED
    BY <1>2, <2>2, IdSetFacts
<1>4. /\ page \in IdSets /\ page \subseteq rest /\ (page = {} => rest = {})
      /\ \A s \in rest : \A t \in page : s <= t => s \in page
  BY <1>3, FirstOfTheorem
<1>5. CASE page # {}
  <2>1. /\ handle' = "free"
        /\ follow' = [follow EXCEPT !.pc = "poll", !.cursor = Max(page), !.printed = Ascending(page)]
    BY <1>5 DEF FollowRead
  <2> HIDE DEF page, rest
  <2>2. Max(page) \in page /\ page \subseteq rows /\ \A s \in page : s <= Max(page)
    BY <1>3, <1>4, <1>5, MaxTheorem
  <2>3. /\ Ascending(page) \in Seq(Id) /\ Len(Ascending(page)) \in Nat
        /\ \A i \in 1 .. Len(Ascending(page)) : Ascending(page)[i] \in page
        /\ \A r \in page : \E i \in 1 .. Len(Ascending(page)) : Ascending(page)[i] = r
        /\ \A i, j \in 1 .. Len(Ascending(page)) : i < j => Ascending(page)[i] < Ascending(page)[j]
    <3> DEFINE list == Ascending(page)
               count == Cardinality(page)
    <3>1. page \subseteq Id
      BY <1>2, <2>2
    <3>2. /\ list \in Seq(Id) /\ Len(list) = count /\ count \in Nat
          /\ \A i \in 1 .. count : list[i] \in page
          /\ \A r \in page : \E i \in 1 .. count : list[i] = r
          /\ \A i, j \in 1 .. count : i < j => list[i] < list[j]
      BY <1>4, <3>1, AscendingTheorem
    <3> HIDE DEF list, count
    <3>3. /\ list \in Seq(Id) /\ Len(list) \in Nat
          /\ \A i \in 1 .. Len(list) : list[i] \in page
          /\ \A r \in page : \E i \in 1 .. Len(list) : list[i] = r
          /\ \A i, j \in 1 .. Len(list) : i < j => list[i] < list[j]
      BY <3>2
    <3>4. QED
      BY <3>3 DEF list
  <2>4. Max(page) \in Id /\ Max(page) < next
    BY <1>2, <2>2 DEF Inv, RowsFresh
  <2>5. /\ FollowOK' /\ follow'.pc = "poll" /\ follow'.cursor = Max(page)
        /\ follow'.printed = Ascending(page) /\ follow'.first = follow.first
    <3>1. Ascending(page) \in Seq(Id) /\ Max(page) \in 0 .. MaxId /\ "poll" \in FollowerPc
      BY <2>3, <2>4 DEF FollowerPc
    <3>2. QED
      BY <1>2, <2>1, <3>1, FollowerFields DEF FollowOK, FollowerPc
  <2>6. DOMAIN follow'.printed = 1 .. Len(Ascending(page))
    BY <2>3, <2>5
  <2>7. FollowerMissesNothing'
    <3>1. ASSUME NEW r \in rows, follow.first <= r, r <= Max(page) PROVE r \in Printed'
      <4>1. r \in page
        BY <1>3, <1>4, <2>2, <3>1
      <4>2. PICK i \in 1 .. Len(Ascending(page)) : Ascending(page)[i] = r
        BY <2>3, <4>1
      <4>3. i \in DOMAIN follow'.printed /\ follow'.printed[i] = r
        BY <2>5, <2>6, <4>2
      <4>4. QED
        BY <4>3 DEF Printed
    <3>2. QED
      BY <1>1, <2>5, <3>1 DEF FollowerMissesNothing
  <2>8. FollowerInOrder'
    BY <2>3, <2>5, <2>6 DEF FollowerInOrder
  <2>9. Following'
    BY <1>1, <2>2, <2>3, <2>4, <2>5, <2>7, <2>8 DEF Following
  <2>10. Handles'
    BY <1>1, <1>2, <2>1, <2>5 DEF Inv, TypeOK, Handles
  <2>11. QED
    BY <1>1, <2>1, <2>5, <2>9, <2>10, FollowerMoves
<1>6. CASE page = {}
  <2>1. follow' = [follow EXCEPT !.pc = "last"] /\ handle' = handle
    BY <1>6 DEF FollowRead
  <2> HIDE DEF page, rest
  <2>2. /\ FollowOK' /\ follow'.pc = "last" /\ follow'.cursor = follow.cursor
        /\ follow'.printed = follow.printed /\ follow'.first = follow.first
    BY <1>2, <2>1 DEF FollowOK
  <2>3. \A r \in rows : r < follow.first
    <3>1. \A r \in rows : ~(follow.first <= r)
      BY <1>3, <1>4, <1>6
    <3>2. QED
      BY <1>2, <3>1
  <2>4. Following'
    BY <1>1, <2>2, <2>3 DEF Inv, Following, FollowerMissesNothing, FollowerInOrder
  <2>5. Handles'
    BY <1>1, <1>2, <2>1, <2>2 DEF Inv, TypeOK, Handles
  <2>6. QED
    BY <1>1, <2>1, <2>2, <2>4, <2>5, FollowerMoves
<1>7. QED
  BY <1>5, <1>6

LEMMA FollowLastKeeps ==
  ASSUME Inv, FollowLast, UNCHANGED scene PROVE Inv'
<1>1. /\ follow.pc = "last" /\ handle' = "free"
      /\ follow' = [follow EXCEPT !.pc = "poll", !.cursor = Greatest(rows)]
      /\ UNCHANGED <<logVars, batches, trimming, oldLeft, askVars, viewVars>>
  BY DEF FollowLast
<1>2. Greatest(rows) \in 0 .. MaxId /\ Greatest(rows) < next
  <2>1. rows \cup {0} \in SUBSET (0 .. MaxId) /\ rows \cup {0} # {}
    BY DEF Inv, TypeOK
  <2>2. Greatest(rows) \in rows \cup {0}
    BY <2>1, IdSetFacts, MaxTheorem DEF Greatest
  <2>3. \A r \in rows \cup {0} : r < next
    BY DEF Inv, TypeOK, RowsFresh
  <2>4. QED
    BY <2>1, <2>2, <2>3
<1>3. /\ Following /\ handle = "follower" /\ FollowOK /\ rows \subseteq Nat
  <2>1. rows \subseteq 1 .. MaxId
    BY DEF Inv, TypeOK
  <2>2. QED
    <3>1. Following /\ Handles /\ FollowOK
      BY DEF Inv, TypeOK, FollowOK
    <3>2. rows \subseteq Nat
      BY <2>1
    <3>3. QED
      BY <1>1, <3>1, <3>2 DEF Handles
<1>4. /\ FollowOK' /\ follow'.pc = "poll" /\ follow'.cursor = Greatest(rows)
      /\ follow'.printed = <<>> /\ follow'.first = follow.first
  BY <1>1, <1>2, <1>3 DEF FollowOK, Following
<1>5. Following'
  <2>1. \A r \in rows \ notes : ~(follow.first <= r)
    BY <1>1, <1>3 DEF Following, FollowOK
  <2>2. FollowerMissesNothing' /\ FollowerInOrder'
    BY <1>1, <1>4, <2>1 DEF FollowerMissesNothing, FollowerInOrder
  <2>3. QED
    BY <1>1, <1>2, <1>4, <2>2 DEF Following
<1>6. Handles'
  BY <1>1, <1>3, <1>4 DEF Inv, TypeOK, Handles
<1>7. QED
  BY <1>1, <1>4, <1>5, <1>6, FollowerMoves

LEMMA FollowPollKeeps ==
  ASSUME Inv, FollowPoll, UNCHANGED scene PROVE Inv'
<1> DEFINE rest == After(follow.cursor)
           page == FirstOf(rest, FollowBatch)
           old == follow.printed
           more == Ascending(page)
           new == old \o more
<1>1. /\ follow.pc = "poll" /\ page # {}
      /\ follow' = [follow EXCEPT !.cursor = Max(page), !.printed = new]
      /\ UNCHANGED <<logVars, writerVars, askVars, viewVars>>
  BY DEF FollowPoll
<1>2. /\ follow.cursor \in Nat /\ rows \subseteq Id /\ FollowOK /\ Following /\ old \in Seq(Id)
  BY DEF Inv, TypeOK, FollowOK
<1>3. rest = {r \in rows : r > follow.cursor} /\ rest \in IdSets
  BY <1>2, IdSetFacts DEF After
<1>4. /\ page \in IdSets /\ page \subseteq rest
      /\ \A s \in rest : \A t \in page : s <= t => s \in page
  BY <1>3, FirstOfTheorem
<1> HIDE DEF page, rest
<1>5. Max(page) \in page /\ page \subseteq rows /\ \A s \in page : s <= Max(page)
  BY <1>1, <1>3, <1>4, MaxTheorem
<1>6. /\ more \in Seq(Id) /\ Len(more) \in Nat
      /\ \A i \in 1 .. Len(more) : more[i] \in page
      /\ \A r \in page : \E i \in 1 .. Len(more) : more[i] = r
      /\ \A i, j \in 1 .. Len(more) : i < j => more[i] < more[j]
  BY <1>2, <1>4, <1>5, AscendingTheorem
<1> HIDE DEF more
<1>7. Max(page) \in Id /\ Max(page) < next /\ follow.cursor < Max(page)
  BY <1>2, <1>3, <1>4, <1>5 DEF Inv, RowsFresh
<1>8. /\ Len(new) = Len(old) + Len(more) /\ Len(old) \in Nat /\ new \in Seq(Id)
      /\ \A i \in 1 .. Len(old) : i \in 1 .. Len(new) /\ new[i] = old[i]
      /\ \A j \in 1 .. Len(more) : Len(old) + j \in 1 .. Len(new) /\ new[Len(old) + j] = more[j]
      /\ \A i \in 1 .. Len(new) :
           \/ i \in 1 .. Len(old) /\ new[i] = old[i]
           \/ i - Len(old) \in 1 .. Len(more) /\ new[i] = more[i - Len(old)]
      /\ \A i, j \in 1 .. Len(new) : i < j => new[i] < new[j]
  <2>1. old \in Seq(Nat) /\ more \in Seq(Nat) /\ DOMAIN old = 1 .. Len(old)
    <3>1. Id \subseteq Nat
      OBVIOUS
    <3>2. Seq(Id) \subseteq Seq(Nat)
      BY <3>1
    <3>3. QED
      BY <1>2, <1>6, <3>2
  <2>2. \A i, j \in 1 .. Len(old) : i < j => old[i] < old[j]
    BY <1>2, <2>1 DEF Following, FollowerInOrder
  <2>3. \A i \in 1 .. Len(old) : old[i] <= follow.cursor
    BY <1>2 DEF Following
  <2>4. \A r \in page : follow.cursor < r
    <3> SUFFICES ASSUME NEW r \in page PROVE follow.cursor < r
      OBVIOUS
    <3>1. r > follow.cursor /\ r \in Nat
      BY <1>2, <1>3, <1>4
    <3>2. QED
      BY <1>2, <3>1
  <2>5. \A i \in 1 .. Len(more) : follow.cursor < more[i]
    BY <1>6, <2>4
  <2>6. new \in Seq(Id)
    BY <1>2, <1>6, ConcatProperties
  <2> HIDE DEF old
  <2>7. QED
    BY <1>2, <1>6, <2>1, <2>2, <2>3, <2>5, <2>6, PagesTheorem
<1> HIDE DEF new
<1>9. /\ FollowOK' /\ follow'.pc = "poll" /\ follow'.cursor = Max(page)
      /\ follow'.printed = new /\ follow'.first = follow.first
  <2>1. Max(page) \in 0 .. MaxId /\ "poll" \in FollowerPc
    BY <1>7 DEF FollowerPc
  <2>2. QED
    BY <1>1, <1>2, <1>8, <2>1, FollowerFields DEF FollowOK, FollowerPc
<1>10. DOMAIN new = 1 .. Len(new) /\ DOMAIN old = 1 .. Len(old)
  BY <1>2, <1>8
<1>11. FollowerMissesNothing'
  <2>1. ASSUME NEW r \in rows \ notes, follow.first <= r, r <= Max(page) PROVE r \in Printed'
    <3>1. CASE r <= follow.cursor
      <4>1. r \in Printed
        BY <1>1, <1>2, <2>1, <3>1 DEF Following, FollowerMissesNothing
      <4>2. PICK i \in 1 .. Len(old) : old[i] = r
        BY <1>10, <4>1 DEF Printed
      <4>3. i \in 1 .. Len(new) /\ new[i] = r
        BY <1>8, <4>2
      <4>4. QED
        BY <1>9, <1>10, <4>3 DEF Printed
    <3>2. CASE r > follow.cursor
      <4>1. r \in page
        BY <1>3, <1>4, <1>5, <2>1, <3>2
      <4>2. PICK j \in 1 .. Len(more) : more[j] = r
        BY <1>6, <4>1
      <4>3. Len(old) + j \in 1 .. Len(new) /\ new[Len(old) + j] = r
        BY <1>8, <4>2
      <4>4. QED
        BY <1>9, <1>10, <4>3 DEF Printed
    <3>3. QED
      BY <1>2, <3>1, <3>2
  <2>2. QED
    BY <1>1, <1>9, <2>1 DEF FollowerMissesNothing
<1>12. ASSUME NEW i \in 1 .. Len(new) PROVE new[i] <= Max(page)
  <2>1. CASE i \in 1 .. Len(old) /\ new[i] = old[i]
    <3>1. old[i] <= follow.cursor /\ old[i] \in Id
      BY <1>2, <2>1, ElementOfSeq DEF Following
    <3>2. QED
      BY <1>2, <1>7, <2>1, <3>1
  <2>2. CASE i - Len(old) \in 1 .. Len(more) /\ new[i] = more[i - Len(old)]
    BY <1>5, <1>6, <2>2
  <2>3. QED
    BY <1>8, <2>1, <2>2
<1>13. Following'
  BY <1>1, <1>7, <1>8, <1>9, <1>10, <1>11, <1>12 DEF Following, FollowerInOrder
<1>14. Handles'
  BY <1>1, <1>9 DEF Inv, TypeOK, Handles
<1>15. QED
  BY <1>1, <1>9, <1>13, <1>14, FollowerMoves

-----------------------------------------------------------------------------
(* The theorems. *)

LEMMA InvInit == Init => Inv
<1> SUFFICES ASSUME Init PROVE Inv
  OBVIOUS
<1>1. LogOK /\ WriterOK /\ ViewOK /\ scene \in Scenes
  BY DEF Init, LogOK, WriterOK, ViewOK, ViewPc
<1>2. AskOK
  BY NoAskType DEF Init, AskOK
<1>3. FollowOK /\ follow.pc = "off" /\ follow.cursor = 0 /\ follow.printed = <<>>
  BY DEF Init, NoFollower, FollowOK
<1>4. TypeOK
  BY <1>1, <1>2, <1>3 DEF TypeOK, LogOK, WriterOK, ViewOK, AskOK, FollowOK
<1>5. RowsFresh /\ Handles
  BY <1>3 DEF Init, RowsFresh, Handles
<1>6. Following
  BY <1>3 DEF Init, Following, FollowerMissesNothing, FollowerInOrder
<1>7. ASSUME NEW v \in Views PROVE ViewTrue(v)
  BY NoAskType DEF Init, ViewTrue, Seen, Asked, Removed, OnScreen, Screened, Shown, Waiting
<1>8. QED
  BY <1>4, <1>5, <1>6, <1>7 DEF Inv

LEMMA InvStep == Inv /\ [Next]_vars => Inv'
<1> SUFFICES ASSUME Inv, [Next]_vars PROVE Inv'
  OBVIOUS
<1>1. ASSUME NEW w \in Writer, WriterStep(w), UNCHANGED scene PROVE Inv'
  BY <1>1, StoreBatchKeeps, TrimKeeps DEF WriterStep
<1>2. ASSUME NEW v \in Views, ViewStep(v), UNCHANGED scene PROVE Inv'
  BY <1>2, OpenViewKeeps, RefreshKeeps, NoteKeeps, QuestionKeeps, CancelKeeps, ConfirmKeeps,
     AskClearKeeps, AnswerKeeps, FailsKeeps, GivesUpKeeps DEF ViewStep
<1>3. ASSUME NEW v \in Views, RequestStep(v), UNCHANGED scene PROVE Inv'
  BY <1>3, TakeHandleKeeps, CopyLogKeeps, RequestFailsKeeps, RemoveKeeps, MarkKeeps DEF RequestStep
<1>4. ASSUME FollowStep, UNCHANGED scene PROVE Inv'
  BY <1>4, FollowStartKeeps, FollowReadKeeps, FollowLastKeeps, FollowPollKeeps DEF FollowStep
<1>5. ASSUME UNCHANGED vars PROVE Inv'
  <2>1. /\ UNCHANGED <<scene, logVars, batches, trimming, oldLeft, askVars, viewVars>>
        /\ handle' = handle /\ follow' = follow
    BY <1>5 DEF vars
  <2>2. Handles' /\ FollowOK'
    BY <2>1 DEF Inv, TypeOK, Handles, FollowOK
  <2>3. Following'
    BY <2>1 DEF Inv, Following, FollowerMissesNothing, FollowerInOrder, Printed
  <2>4. QED
    BY <2>1, <2>2, <2>3, FollowerMoves
<1>6. QED
  BY <1>1, <1>2, <1>3, <1>4, <1>5 DEF Next

\* Every variable keeps its type.
THEOREM TypeCorrect == Spec => []TypeOK
<1>1. Inv => TypeOK
  BY DEF Inv
<1>2. QED
  BY <1>1, InvInit, InvStep, PTL DEF Spec

\* read --follow prints the log from its first line on, in order and without a
\* gap, for any trims, clears and deletions between its polls.
THEOREM FollowerIsFaithful == Spec => []FollowerFaithful
<1>1. Inv => FollowerFaithful
  BY DEF Inv, Following, FollowerFaithful
<1>2. QED
  BY <1>1, InvInit, InvStep, PTL DEF Spec

\* A confirmed deletion takes no more than was counted for the person who asked,
\* and nothing the archive lacks of what the daemon stored.
THEOREM DeletionIsTrue == Spec => []DeletionTrue
<1>1. Inv => DeletionTrue
  <2> SUFFICES ASSUME Inv PROVE DeletionTrue
    OBVIOUS
  <2>1. \A v \in Views : Removed(v)
    BY DEF Inv, ViewTrue
  <2>2. QED
    BY <2>1 DEF Inv, DeletionTrue, OnlyWhatWasCounted, CopyHoldsCapture, Removed
<1>2. QED
  BY <1>1, InvInit, InvStep, PTL DEF Spec

\* Who changes a screen, and by which step a request ends at "answer".
LEMMA ScreenSteps ==
  ASSUME Inv, [Next]_vars, NEW v \in Views
  PROVE  /\ screen'[v] # screen[v] \/ dropped'[v] # dropped[v] =>
              (Refresh(v) \/ Note(v) \/ Answer(v)) /\ UNCHANGED scene
         /\ pc[v] = "answer" /\ v \notin adrift /\ pc'[v] = "watching" => Answer(v) /\ UNCHANGED scene
<1>1. ASSUME NEW u \in Views, ViewStep(u) \/ RequestStep(u), u # v
      PROVE  pc'[v] = pc[v] /\ screen'[v] = screen[v] /\ dropped'[v] = dropped[v]
  <2>1. ASSUME NEW k, pc' = [pc EXCEPT ![u] = k] PROVE pc'[v] = pc[v]
    BY <1>1, <2>1
  <2>2. ASSUME NEW lines, Display(u, lines) PROVE screen'[v] = screen[v] /\ dropped'[v] = dropped[v]
    BY <1>1, <2>2 DEF Display
  <2>3. ASSUME NEW lines, Marker(u, lines) PROVE screen'[v] = screen[v] /\ dropped'[v] = dropped[v]
    BY <2>2, <2>3 DEF Marker
  <2>4. CASE ViewStep(u)
    BY <2>1, <2>2, <2>3, <2>4 DEF ViewStep, OpenView, Refresh, Note, Question, Cancel, Confirm,
       AskClear, Answer, Fails, GivesUp, Over
  <2>5. CASE RequestStep(u)
    BY <2>1, <2>5 DEF RequestStep, TakeHandle, CopyLog, RequestFails, Remove, Mark, Over
  <2>6. QED
    BY <1>1, <2>4, <2>5
<1>2. ASSUME ViewStep(v) \/ RequestStep(v)
      PROVE  /\ screen'[v] # screen[v] \/ dropped'[v] # dropped[v] => Refresh(v) \/ Note(v) \/ Answer(v)
             /\ pc[v] = "answer" /\ v \notin adrift /\ pc'[v] = "watching" => Answer(v)
  <2>1. CASE ViewStep(v)
    BY <2>1 DEF ViewStep, OpenView, Refresh, Note, Question, Cancel, Confirm, AskClear, Fails,
       GivesUp
  <2>2. CASE RequestStep(v)
    BY <2>2 DEF RequestStep, TakeHandle, CopyLog, RequestFails, Remove, Mark
  <2>3. QED
    BY <1>2, <2>1, <2>2
<1>3. (\E w \in Writer : WriterStep(w)) \/ FollowStep \/ UNCHANGED vars =>
        pc' = pc /\ screen' = screen /\ dropped' = dropped
  BY DEF WriterStep, StoreBatch, Trim, FollowStep, FollowStart, FollowRead, FollowLast,
     FollowPoll, vars
<1>4. CASE (\E w \in Writer : WriterStep(w)) \/ FollowStep \/ UNCHANGED vars
  <2>1. pc[v] = "answer" => pc'[v] # "watching"
    BY <1>3, <1>4
  <2>2. QED
    BY <1>3, <1>4, <2>1
<1>5. CASE (\E u \in Views : ViewStep(u) \/ RequestStep(u)) /\ UNCHANGED scene
  <2>1. PICK u \in Views : ViewStep(u) \/ RequestStep(u)
    BY <1>5
  <2>2. CASE u = v
    BY <1>2, <1>5, <2>1, <2>2
  <2>3. CASE u # v
    <3>1. pc'[v] = pc[v] /\ screen'[v] = screen[v] /\ dropped'[v] = dropped[v]
      BY <1>1, <2>1, <2>3
    <3>2. QED
      BY <3>1
  <2>4. QED
    BY <2>2, <2>3
<1>6. QED
  BY <1>4, <1>5 DEF Next

\* What a view shows is the last of the log it has read, in its order and without
\* a gap, for any length of the log and of the screen, and once it has the answer
\* it waited for nothing it removed.
THEOREM ScreensFollow == Spec => ScreenFollowsLog
<1>1. Inv => NothingHidden /\ ScreenInOrder
  <2> SUFFICES ASSUME Inv, NEW v \in Views
               PROVE  /\ {r \in rows : start[v] < r /\ dropped[v] < r /\ r <= last[v]}
                           \subseteq Ids(screen[v])
                      /\ \A j \in DOMAIN screen[v] : screen[v][j] # 0 =>
                           /\ dropped[v] < screen[v][j]
                           /\ \A i \in 1 .. j - 1 : screen[v][i] < screen[v][j]
    BY DEF NothingHidden, ScreenInOrder
  <2>1. DOMAIN screen[v] = 1 .. Len(screen[v])
    BY ViewTypes, IdsTheorem
  <2>2. QED
    BY <2>1, ViewTypes DEF Shown, OnScreen, Screened
<1>2. Inv /\ Inv' /\ [Next]_vars => NothingHidden' /\ ScreenInOrder'
  <2>1. Inv' => NothingHidden' /\ ScreenInOrder'
    BY <1>1, PTL
  <2>2. QED
    BY <2>1
<1>3. Inv /\ [Next]_vars => OnlyFromFull
  BY ScreenSteps, RefreshKeeps, NoteKeeps, AnswerKeeps DEF OnlyFromFull
<1>4. Inv /\ [Next]_vars => NothingStale
  BY ScreenSteps, AnswerKeeps DEF NothingStale
<1>5. QED
  BY <1>2, <1>3, <1>4, InvInit, InvStep, PTL DEF Spec, ScreenFollowsLog
=============================================================================
