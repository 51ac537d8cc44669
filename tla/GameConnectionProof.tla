-------------------------- MODULE GameConnectionProof --------------------------
(***************************************************************************)
(* What the search for the log and the game connection page promise, proved *)
(* for any roots, libraries, links and installs: the newest log is taken,   *)
(* no fault hides an install or passes for its absence, and the page shows  *)
(* what is tailed.                                                          *)
(***************************************************************************)
EXTENDS GameConnection, FiniteSetTheorems, SequenceTheorems, WellFoundedInduction, TLAPS

--------------------------------------------------------------------------------
(* Finite sets of numbers and their order. *)

LEMMA Least ==
  ASSUME NEW T, T \subseteq Nat, T # {}
  PROVE  \E x \in T : \A y \in T : x <= y
<1> DEFINE R == {pair \in Nat \X Nat : pair[1] < pair[2]}
<1>1. IsWellFoundedOn(R, Nat)
  BY NatLessThanWellFounded DEF OpToRel
<1>2. \A x, y \in Nat : <<y, x>> \notin R => x <= y
  OBVIOUS
<1> HIDE DEF R
<1>3. PICK x \in T : \A y \in T : <<y, x>> \notin R
  BY <1>1, WFMin
<1>4. QED
  BY <1>2, <1>3

LEMMA Smallest ==
  ASSUME NEW C, C # {}, \A U \in C : Cardinality(U) \in Nat
  PROVE  \E U \in C : \A V \in C : Cardinality(U) <= Cardinality(V)
<1> DEFINE T == {Cardinality(U) : U \in C}
<1>1. T \subseteq Nat /\ T # {}
  OBVIOUS
<1>2. PICK n \in T : \A m \in T : n <= m
  <2> HIDE DEF T
  <2>1. QED
    BY <1>1, Least
<1>3. PICK U \in C : Cardinality(U) = n
  OBVIOUS
<1>4. \A V \in C : Cardinality(V) \in T
  OBVIOUS
<1>5. QED
  BY <1>2, <1>3, <1>4

\* A finite set of numbers has a greatest: the smallest set without one has another element
\* besides the greatest of the rest.
LEMMA Greatest ==
  ASSUME NEW S, S \subseteq Nat, IsFiniteSet(S), S # {}
  PROVE  \E x \in S : \A y \in S : y <= x
<1> DEFINE HasGreatest(U) == \E x \in U : \A y \in U : y <= x
           Sets == {U \in SUBSET S : U # {} /\ ~HasGreatest(U)}
<1>1. \A U \in SUBSET S : IsFiniteSet(U) /\ Cardinality(U) \in Nat
  BY FS_Subset, FS_CardinalityType
<1>2. SUFFICES ASSUME Sets # {} PROVE FALSE
  OBVIOUS
<1>3. \A U \in Sets : Cardinality(U) \in Nat
  BY <1>1
<1>4. PICK U \in Sets : \A V \in Sets : Cardinality(U) <= Cardinality(V)
  <2> HIDE DEF Sets
  <2>1. QED
    BY <1>2, <1>3, Smallest
<1>5. PICK x \in U : TRUE
  OBVIOUS
<1>6. U \ {x} \in SUBSET S /\ Cardinality(U \ {x}) = Cardinality(U) - 1 /\ x \in Nat
  BY <1>1, FS_RemoveElement
<1>7. U \ {x} \notin Sets
  <2>1. Cardinality(U) \in Nat /\ ~(Cardinality(U) <= Cardinality(U) - 1)
    BY <1>1
  <2> HIDE DEF Sets
  <2>2. QED
    BY <1>4, <1>6, <2>1
<1>8. CASE U \ {x} = {}
  BY <1>6, <1>8
<1>9. CASE U \ {x} # {}
  <2>1. PICK y \in U \ {x} : \A z \in U \ {x} : z <= y
    BY <1>6, <1>7, <1>9
  <2>2. y \in Nat /\ (x <= y \/ y <= x)
    BY <1>6
  <2>3. HasGreatest(U)
    <3>1. CASE x <= y
      BY <2>1, <3>1
    <3>2. CASE y <= x
      <4>1. \A z \in U : z <= x
        BY <1>6, <2>1, <2>2, <3>2
      <4>2. QED
        BY <4>1
    <3>3. QED
      BY <2>2, <3>1, <3>2
  <2>4. QED
    BY <2>3
<1>10. QED
  BY <1>8, <1>9

Increasing(s) == \A i, j \in DOMAIN s : i < j => s[i] < s[j]

\* A finite set of numbers can be sorted: the smallest that could not would have its
\* greatest put behind the rest.
LEMMA SortedExists ==
  ASSUME NEW S, S \subseteq Nat, IsFiniteSet(S)
  PROVE  \E s \in [1 .. Cardinality(S) -> S] : Increasing(s)
<1> DEFINE Sortable(U) == \E s \in [1 .. Cardinality(U) -> U] : Increasing(s)
           Sets == {U \in SUBSET S : ~Sortable(U)}
<1>1. \A U \in SUBSET S : IsFiniteSet(U) /\ Cardinality(U) \in Nat
  BY FS_Subset, FS_CardinalityType
<1>2. SUFFICES ASSUME Sets # {} PROVE FALSE
  OBVIOUS
<1>3. \A U \in Sets : Cardinality(U) \in Nat
  BY <1>1
<1>4. PICK U \in Sets : \A V \in Sets : Cardinality(U) <= Cardinality(V)
  <2> HIDE DEF Sets
  <2>1. QED
    BY <1>2, <1>3, Smallest
<1>5. U # {}
  <2> SUFFICES ASSUME U = {} PROVE FALSE
    OBVIOUS
  <2>1. Cardinality(U) = 0
    BY FS_EmptySet
  <2>2. [i \in 1 .. 0 |-> 0] \in [1 .. Cardinality(U) -> U] /\ Increasing([i \in 1 .. 0 |-> 0])
    BY <2>1 DEF Increasing
  <2>3. QED
    BY <2>2
<1>6. PICK x \in U : \A y \in U : y <= x
  BY <1>1, <1>5, Greatest
<1>7. U \ {x} \in SUBSET S /\ Cardinality(U \ {x}) = Cardinality(U) - 1
      /\ Cardinality(U) \in Nat \ {0} /\ x \in Nat
  BY <1>1, <1>5, FS_RemoveElement, FS_EmptySet
<1>8. PICK s \in [1 .. Cardinality(U) - 1 -> U \ {x}] : Increasing(s)
  <2>1. U \ {x} \notin Sets
    <3>1. Cardinality(U) \in Nat /\ ~(Cardinality(U) <= Cardinality(U) - 1)
      BY <1>1
    <3> HIDE DEF Sets
    <3>2. QED
      BY <1>4, <1>7, <3>1
  <2>2. QED
    BY <1>7, <2>1
<1> DEFINE n == Cardinality(U)
           t == [i \in 1 .. n |-> IF i = n THEN x ELSE s[i]]
<1>9. n \in Nat \ {0}
  BY <1>7
<1>10. \A i \in 1 .. n - 1 : s[i] \in U /\ s[i] < x
  <2> TAKE i \in 1 .. n - 1
  <2>1. s[i] \in U \ {x}
    BY <1>8
  <2>2. s[i] \in Nat /\ s[i] <= x /\ s[i] # x
    BY <1>6, <2>1
  <2>3. QED
    BY <1>7, <2>1, <2>2
<1>11. t \in [1 .. n -> U]
  BY <1>9, <1>10
<1>12. Increasing(t)
  <2> SUFFICES ASSUME NEW i \in 1 .. n, NEW j \in 1 .. n, i < j PROVE t[i] < t[j]
    BY DEF Increasing
  <2>1. i \in 1 .. n - 1 /\ t[i] = s[i]
    BY <1>9
  <2>2. CASE j = n
    BY <1>10, <2>1, <2>2
  <2>3. CASE j # n
    BY <1>8, <1>9, <2>1, <2>3 DEF Increasing
  <2>4. QED
    BY <2>2, <2>3
<1>13. QED
  BY <1>11, <1>12

\* Sorted holds each number of the set.
LEMMA SortedParts ==
  ASSUME NEW S, S \subseteq Nat, IsFiniteSet(S)
  PROVE  Sorted(S) \in Seq(S) /\ Range(Sorted(S)) = S
<1> DEFINE s == Sorted(S)
           n == Cardinality(S)
<1>1. s \in [1 .. n -> S] /\ Increasing(s)
  BY SortedExists DEF Sorted, Increasing
<1>2. n \in Nat /\ IsFiniteSet(1 .. n) /\ Cardinality(1 .. n) = n
  BY FS_CardinalityType, FS_Interval
<1> HIDE DEF s, n
<1>3. s \in Injection(1 .. n, S)
  <2> SUFFICES ASSUME NEW i \in 1 .. n, NEW j \in 1 .. n, s[i] = s[j] PROVE i = j
    BY <1>1 DEF Injection, IsInjective
  <2>0. s[i] \in S /\ s[i] \in Nat
    BY <1>1
  <2>1. s[i] \in Nat /\ (i < j \/ j < i \/ i = j)
    BY <1>2, <2>0
  <2>2. s[i] < s[i] => FALSE
    BY <2>1
  <2>3. QED
    BY <1>1, <2>1, <2>2 DEF Increasing
<1>4. s \in Surjection(1 .. n, S)
  BY <1>2, <1>3, FS_Injection DEF n
<1>5. Range(s) = S
  BY <1>1, <1>4 DEF Surjection, Range
<1>6. s \in Seq(S)
  BY <1>1, <1>2, IsASeq
<1>7. QED
  BY <1>5, <1>6 DEF s

\* The sets that sequences are cut down to are finite.
LEMMA ImageFinite ==
  ASSUME NEW n \in Nat, NEW f, DOMAIN f = 1 .. n, NEW J \in SUBSET (1 .. n)
  PROVE  IsFiniteSet({f[i] : i \in J})
<1> DEFINE g == [i \in J |-> f[i]]
           S == {f[i] : i \in J}
<1>1. g \in Surjection(J, S)
  BY DEF Surjection
<1>2. IsFiniteSet(1 .. n)
  BY FS_Interval
<1>3. IsFiniteSet(J)
  BY <1>2, FS_Subset
<1> HIDE DEF g, S
<1>4. IsFiniteSet(S)
  BY <1>1, <1>3, FS_Surjection
<1>5. QED
  BY <1>4 DEF S

\* deduplicate_paths keeps, of the paths to each place, the first.
Firsts(paths, placeOf) ==
  {paths[i] : i \in {j \in DOMAIN paths :
     \A k \in 1 .. j - 1 : placeOf[paths[k]] # placeOf[paths[j]]}}

LEMMA DeduplicateParts ==
  ASSUME NEW P, P \subseteq Nat, NEW paths \in Seq(P), NEW placeOf
  PROVE  /\ Deduplicate(paths, placeOf) \in Seq(P)
         /\ Range(Deduplicate(paths, placeOf)) = Firsts(paths, placeOf)
<1> DEFINE n == Len(paths)
           J == {j \in DOMAIN paths : \A k \in 1 .. j - 1 : placeOf[paths[k]] # placeOf[paths[j]]}
           S == {paths[i] : i \in J}
<1>1. n \in Nat /\ DOMAIN paths = 1 .. n /\ \A i \in 1 .. n : paths[i] \in P
  OBVIOUS
<1>2. IsFiniteSet(S)
  <2>1. J \in SUBSET (1 .. n)
    BY <1>1
  <2> HIDE DEF J
  <2>2. QED
    BY <1>1, <2>1, ImageFinite
<1>3. S \subseteq P
  BY <1>1
<1>4. Deduplicate(paths, placeOf) = Sorted(S) /\ Firsts(paths, placeOf) = S
  BY DEF Deduplicate, Firsts
<1> HIDE DEF S
<1>5. Sorted(S) \in Seq(S) /\ Range(Sorted(S)) = S
  BY <1>2, <1>3, SortedParts
<1>6. Sorted(S) \in Seq(P)
  BY <1>3, <1>5, SeqMonotonic
<1>7. QED
  BY <1>4, <1>5, <1>6

\* So every path has one left that leads where it does.
LEMMA PlaceKept ==
  ASSUME NEW P, P \subseteq Nat, NEW paths \in Seq(P), NEW placeOf, NEW path \in Range(paths)
  PROVE  \E left \in Range(Deduplicate(paths, placeOf)) : placeOf[left] = placeOf[path]
<1> DEFINE n == Len(paths)
<1>1. n \in Nat /\ DOMAIN paths = 1 .. n
  OBVIOUS
<1>2. PICK i \in 1 .. n : paths[i] = path
  BY <1>1 DEF Range
<1> DEFINE T == {j \in 1 .. n : placeOf[paths[j]] = placeOf[paths[i]]}
<1>3. PICK j \in T : \A k \in T : j <= k
  <2>1. T \subseteq Nat /\ T # {}
    OBVIOUS
  <2> HIDE DEF T
  <2>2. QED
    BY <2>1, Least
<1>4. \A k \in 1 .. j - 1 : k \in 1 .. n /\ k \notin T
  BY <1>1, <1>3
<1>5. paths[j] \in Firsts(paths, placeOf) /\ placeOf[paths[j]] = placeOf[path]
  BY <1>1, <1>2, <1>3, <1>4 DEF Firsts
<1>6. Range(Deduplicate(paths, placeOf)) = Firsts(paths, placeOf)
  BY DeduplicateParts
<1>7. QED
  BY <1>5, <1>6

--------------------------------------------------------------------------------
(* select_candidate. *)

\* A set of times that is not empty has a latest.
LEMMA Latest ==
  ASSUME NEW S, S \subseteq 0 .. MaxTime, S # {}
  PROVE  \E t \in S : \A u \in S : u <= t
<1>1. MaxTime \in Nat
  BY InstallAssumption
<1>2. S \subseteq Nat /\ S \in SUBSET (0 .. MaxTime) /\ IsFiniteSet(0 .. MaxTime)
  BY <1>1, FS_Interval
<1>3. IsFiniteSet(S)
  BY <1>2, FS_Subset
<1>4. QED
  BY <1>2, <1>3, Greatest

\* What deduplicate_candidates keeps: of each install the first path and its latest time.
LEMMA CandidateParts ==
  ASSUME NEW P, NEW found \in Seq([path : P, modified : 0 .. MaxTime])
  PROVE  LET kept == DeduplicateCandidates(found)
         IN  /\ IsFiniteSet(kept)
             /\ \A c \in kept :
                  /\ c.modified \in 0 .. MaxTime
                  /\ \E d \in Range(found) : d.path = c.path
                  /\ \E d \in Range(found) : InstallOf(d.path) = InstallOf(c.path)
                                             /\ d.modified = c.modified
             /\ \A d \in Range(found) :
                  \E c \in kept : InstallOf(c.path) = InstallOf(d.path) /\ d.modified <= c.modified
             /\ \A b, c \in kept : InstallOf(b.path) = InstallOf(c.path) => b = c
<1> DEFINE n == Len(found)
           J == {j \in DOMAIN found :
                   \A k \in 1 .. j - 1 : InstallOf(found[k].path) # InstallOf(found[j].path)}
           Time(i) == CHOOSE t \in 0 .. MaxTime :
             /\ \E k \in DOMAIN found : InstallOf(found[k].path) = InstallOf(found[i].path)
                                        /\ found[k].modified = t
             /\ \A k \in DOMAIN found : InstallOf(found[k].path) = InstallOf(found[i].path)
                                        => found[k].modified <= t
           Kept(i) == [path |-> found[i].path, modified |-> Time(i)]
           kept == {Kept(i) : i \in J}
<1>1. n \in Nat /\ DOMAIN found = 1 .. n
      /\ \A i \in 1 .. n : found[i].path \in P /\ found[i].modified \in 0 .. MaxTime
  <2>1. n \in Nat /\ DOMAIN found = 1 .. n
        /\ \A i \in 1 .. n : found[i] \in [path : P, modified : 0 .. MaxTime]
    BY ElementOfSeq, LenProperties
  <2>2. QED
    BY <2>1
<1>2. DeduplicateCandidates(found) = kept
  BY DEF DeduplicateCandidates
<1>3. ASSUME NEW i \in 1 .. n
      PROVE  /\ Time(i) \in 0 .. MaxTime
             /\ \E k \in 1 .. n : InstallOf(found[k].path) = InstallOf(found[i].path)
                                  /\ found[k].modified = Time(i)
             /\ \A k \in 1 .. n : InstallOf(found[k].path) = InstallOf(found[i].path)
                                  => found[k].modified <= Time(i)
  <2> DEFINE S == {found[k].modified : k \in
                     {j \in 1 .. n : InstallOf(found[j].path) = InstallOf(found[i].path)}}
  <2>1. S \subseteq 0 .. MaxTime /\ S # {}
    BY <1>1
  <2>2. PICK t \in S : \A u \in S : u <= t
    <3> HIDE DEF S
    <3>1. QED
      BY <2>1, Latest
  <2>3. /\ t \in 0 .. MaxTime
        /\ \E k \in DOMAIN found : InstallOf(found[k].path) = InstallOf(found[i].path)
                                   /\ found[k].modified = t
        /\ \A k \in DOMAIN found : InstallOf(found[k].path) = InstallOf(found[i].path)
                                   => found[k].modified <= t
    BY <1>1, <2>1, <2>2
  <2>4. QED
    BY <1>1, <2>3
<1> HIDE DEF Time
<1>4. \A i \in 1 .. n : Kept(i).path = found[i].path /\ Kept(i).modified = Time(i)
  OBVIOUS
<1>5. J \in SUBSET (1 .. n)
  BY <1>1
<1>6. IsFiniteSet(kept)
  <2> DEFINE f == [i \in 1 .. n |-> Kept(i)]
  <2>1. kept = {f[i] : i \in J}
    BY <1>5
  <2>2. DOMAIN f = 1 .. n
    OBVIOUS
  <2> HIDE DEF J, f, kept
  <2>3. QED
    BY <1>1, <1>5, <2>1, <2>2, ImageFinite
<1>7. ASSUME NEW c \in kept
      PROVE  /\ c.modified \in 0 .. MaxTime
             /\ \E d \in Range(found) : d.path = c.path
             /\ \E d \in Range(found) : InstallOf(d.path) = InstallOf(c.path)
                                        /\ d.modified = c.modified
  <2>1. PICK i \in J : c = Kept(i)
    OBVIOUS
  <2>2. c.path = found[i].path /\ c.modified = Time(i) /\ i \in 1 .. n
    BY <1>4, <1>5, <2>1
  <2>3. PICK k \in 1 .. n : InstallOf(found[k].path) = InstallOf(found[i].path)
                            /\ found[k].modified = Time(i)
    BY <1>3, <2>2
  <2>4. found[i] \in Range(found) /\ found[k] \in Range(found)
    BY <1>1, <2>2 DEF Range
  <2>5. QED
    BY <1>3, <2>2, <2>3, <2>4
<1>8. ASSUME NEW d \in Range(found)
      PROVE  \E c \in kept : InstallOf(c.path) = InstallOf(d.path) /\ d.modified <= c.modified
  <2>1. PICK i \in 1 .. n : found[i] = d
    BY <1>1 DEF Range
  <2> DEFINE T == {j \in 1 .. n : InstallOf(found[j].path) = InstallOf(found[i].path)}
  <2>2. PICK j \in T : \A k \in T : j <= k
    <3>1. T \subseteq Nat /\ T # {}
      OBVIOUS
    <3> HIDE DEF T
    <3>2. QED
      BY <3>1, Least
  <2>3. \A k \in 1 .. j - 1 : k \in 1 .. n /\ k \notin T
    BY <1>1, <2>2
  <2>4. j \in J /\ InstallOf(found[j].path) = InstallOf(d.path)
    BY <1>1, <2>1, <2>2, <2>3
  <2>5. d.modified <= Time(j)
    BY <1>3, <2>1, <2>4
  <2>6. Kept(j) \in kept
    BY <2>4
  <2>7. QED
    BY <1>4, <2>4, <2>5, <2>6
<1>9. ASSUME NEW b \in kept, NEW c \in kept, InstallOf(b.path) = InstallOf(c.path)
      PROVE  b = c
  <2>1. PICK i \in J : b = Kept(i)
    OBVIOUS
  <2>2. PICK j \in J : c = Kept(j)
    OBVIOUS
  <2>3. InstallOf(found[i].path) = InstallOf(found[j].path) /\ i \in 1 .. n /\ j \in 1 .. n
    BY <1>4, <1>5, <1>9, <2>1, <2>2
  <2>4. i = j
    <3>1. \A k \in 1 .. j - 1 : InstallOf(found[k].path) # InstallOf(found[j].path)
      BY <2>2
    <3>2. \A k \in 1 .. i - 1 : InstallOf(found[k].path) # InstallOf(found[i].path)
      BY <2>1
    <3>3. ~(i < j) /\ ~(j < i)
      BY <2>3, <3>1, <3>2
    <3>4. QED
      BY <2>3, <3>3
  <2>5. QED
    BY <2>1, <2>2, <2>4
<1>10. QED
  BY <1>2, <1>6, <1>7, <1>8, <1>9

\* What select_candidate makes of candidates keeps the promise of NewestChosen.
LEMMA SelectedIsNewest ==
  ASSUME NEW P, NEW found \in Seq([path : P, modified : 0 .. MaxTime]), found # <<>>
  PROVE  LET selected == SelectCandidate(DeduplicateCandidates(found))
         IN  /\ selected.kind \in {"ready", "not_created", "ambiguous"}
             /\ selected.kind = "ready" =>
                  \E path \in selected.paths :
                    /\ selected.paths = {path}
                    /\ \E c \in Range(found) :
                         /\ InstallOf(c.path) = InstallOf(path)
                         /\ \A d \in Range(found) :
                              InstallOf(d.path) # InstallOf(path) => d.modified < c.modified
             /\ selected.kind = "ambiguous" =>
                  Cardinality({InstallOf(path) : path \in selected.paths}) >= 2
             /\ selected.paths \subseteq {c.path : c \in Range(found)}
<1> DEFINE kept == DeduplicateCandidates(found)
           newest == {c \in kept : \A d \in kept : d.modified <= c.modified}
           selected == SelectCandidate(kept)
<1>1. /\ IsFiniteSet(kept)
      /\ \A c \in kept :
           /\ c.modified \in 0 .. MaxTime
           /\ \E d \in Range(found) : d.path = c.path
           /\ \E d \in Range(found) : InstallOf(d.path) = InstallOf(c.path)
                                      /\ d.modified = c.modified
      /\ \A d \in Range(found) :
           \E c \in kept : InstallOf(c.path) = InstallOf(d.path) /\ d.modified <= c.modified
      /\ \A b, c \in kept : InstallOf(b.path) = InstallOf(c.path) => b = c
  BY CandidateParts
<1>2. found[1] \in Range(found)
      /\ \A d \in Range(found) : d.modified \in 0 .. MaxTime
  <2>1. \A i \in 1 .. Len(found) : found[i] \in [path : P, modified : 0 .. MaxTime]
    BY ElementOfSeq
  <2>2. Len(found) \in Nat /\ Len(found) # 0 /\ DOMAIN found = 1 .. Len(found)
    BY EmptySeq, LenProperties
  <2>3. QED
    BY <2>1, <2>2 DEF Range
<1> HIDE DEF kept
<1>3. kept # {}
  BY <1>1, <1>2
<1>4. PICK top \in kept : \A c \in kept : c.modified <= top.modified
  <2> DEFINE S == {c.modified : c \in kept}
  <2>1. S \subseteq 0 .. MaxTime /\ S # {}
    BY <1>1, <1>3
  <2>2. PICK t \in S : \A u \in S : u <= t
    <3> HIDE DEF S
    <3>1. QED
      BY <2>1, Latest
  <2>3. QED
    BY <2>2
<1>5. top \in newest
  BY <1>4
<1>6. IsFiniteSet(newest)
  <2>1. newest \in SUBSET kept
    OBVIOUS
  <2>2. QED
    BY <1>1, <2>1, FS_Subset
<1>7. /\ selected.paths = {c.path : c \in newest}
      /\ selected.kind \in {"ready", "not_created", "ambiguous"}
      /\ selected.kind = "ambiguous" <=> Cardinality(newest) # 1
  BY DEF SelectCandidate, Paths
<1> HIDE DEF selected
<1>8. ASSUME selected.kind = "ready"
      PROVE  \E path \in selected.paths :
               /\ selected.paths = {path}
               /\ \E c \in Range(found) :
                    /\ InstallOf(c.path) = InstallOf(path)
                    /\ \A d \in Range(found) :
                         InstallOf(d.path) # InstallOf(path) => d.modified < c.modified
  <2>1. newest = {top}
    <3>1. Cardinality(newest) = 1
      BY <1>7, <1>8
    <3> HIDE DEF newest
    <3>2. PICK x : newest = {x}
      BY <1>6, <3>1, FS_Singleton
    <3>3. QED
      BY <1>5, <3>2
  <2>2. selected.paths = {top.path}
    BY <1>7, <2>1
  <2>3. PICK c \in Range(found) : InstallOf(c.path) = InstallOf(top.path)
                                  /\ c.modified = top.modified
    BY <1>1
  <2>4. ASSUME NEW d \in Range(found), InstallOf(d.path) # InstallOf(top.path)
        PROVE  d.modified < c.modified
    <3>1. PICK e \in kept : InstallOf(e.path) = InstallOf(d.path) /\ d.modified <= e.modified
      BY <1>1
    <3>2. e.modified \in 0 .. MaxTime /\ top.modified \in 0 .. MaxTime
          /\ d.modified \in 0 .. MaxTime /\ MaxTime \in Nat
      BY <1>1, <1>2, InstallAssumption
    <3>3. e # top /\ e.modified <= top.modified
      BY <1>4, <2>4, <3>1
    <3>4. e \notin newest
      BY <2>1, <3>3
    <3>5. PICK x \in kept : ~(x.modified <= e.modified)
      BY <3>4
    <3>6. x.modified <= top.modified /\ x.modified \in 0 .. MaxTime
      BY <1>1, <1>4
    <3>7. QED
      BY <2>3, <3>1, <3>2, <3>5, <3>6
  <2>5. QED
    BY <2>2, <2>3, <2>4
<1>9. ASSUME selected.kind = "ambiguous"
      PROVE  Cardinality({InstallOf(path) : path \in selected.paths}) >= 2
  <2>1. PICK other \in newest : other # top
    <3>1. Cardinality(newest) # 1
      BY <1>7, <1>9
    <3> HIDE DEF newest
    <3>2. newest # {top}
      BY <3>1, FS_Singleton
    <3>3. QED
      BY <1>5, <3>2
  <2>2. InstallOf(other.path) # InstallOf(top.path)
    BY <1>1, <2>1
  <2> DEFINE installs == {InstallOf(path) : path \in selected.paths}
             g == [c \in newest |-> InstallOf(c.path)]
  <2>3. installs = {InstallOf(c.path) : c \in newest}
    BY <1>7
  <2>4. g \in Surjection(newest, installs)
    BY <2>3 DEF Surjection
  <2> DEFINE pair == {InstallOf(other.path), InstallOf(top.path)}
  <2>5. pair \in SUBSET installs
    BY <1>5, <2>1, <2>3
  <2> HIDE DEF installs, g, newest
  <2>6. IsFiniteSet(installs)
    BY <1>6, <2>4, FS_Surjection
  <2>7. Cardinality(pair) = 2
    <3>1. IsFiniteSet({InstallOf(top.path)}) /\ Cardinality({InstallOf(top.path)}) = 1
      BY FS_Singleton
    <3>2. pair = {InstallOf(top.path)} \cup {InstallOf(other.path)}
      OBVIOUS
    <3>3. Cardinality({InstallOf(top.path)} \cup {InstallOf(other.path)})
            = Cardinality({InstallOf(top.path)}) + 1
      BY <2>2, <3>1, FS_AddElement
    <3> HIDE DEF pair
    <3>4. QED
      BY <3>1, <3>2, <3>3
  <2>8. Cardinality(pair) <= Cardinality(installs) /\ Cardinality(installs) \in Nat
    BY <2>5, <2>6, FS_Subset, FS_CardinalityType
  <2> HIDE DEF pair
  <2>9. QED
    BY <2>7, <2>8 DEF installs
<1>10. selected.paths \subseteq {c.path : c \in Range(found)}
  BY <1>1, <1>7
<1>11. QED
  BY <1>7, <1>8, <1>9, <1>10 DEF selected, kept

--------------------------------------------------------------------------------
(* The invariant. *)

RootPath == {path \in DOMAIN place : place[path] \in DOMAIN root}
LibraryPath == {path \in DOMAIN place : place[path] \in DOMAIN library}
Candidate == [path : LibraryPath, modified : 0 .. MaxTime]

SystemOK ==
  /\ place \in Place /\ root \in RootSystem /\ library \in LibrarySystem
  /\ install \in [Install -> InstallFailure \cup (0 .. MaxTime)]

DetectionOK ==
  /\ pc \in {"start", "roots", "libraries", "done"}
  /\ named \in Seq(RootPath) /\ roots \in Seq(RootPath) /\ libraries \in Seq(LibraryPath)
  /\ {readable_root_found, first_unreadable, first_malformed, manifest_found} \subseteq BOOLEAN
  /\ candidates \in Seq(Candidate) /\ invalid_installs \in Seq(LibraryPath)

\* What the search knows once it has read the root at a place, and the library at one.
RootNoted(x) ==
  /\ root[x] \notin {Missing, Unreadable} => readable_root_found
  /\ root[x] \in {Unreadable, Unlisted} => first_unreadable
  /\ root[x] = Malformed => first_malformed

LibraryNoted(x) ==
  /\ library[x] = Unreadable => first_unreadable
  /\ library[x] = Malformed => first_malformed
  /\ library[x] \notin {Unreadable, NoApp} => manifest_found
  /\ library[x] \in Install =>
       /\ install[library[x]] = Unreadable => first_unreadable
       /\ install[library[x]] \notin InstallFailure => candidates # <<>>

\* No library is read before the roots are, and a root that was named is among those left
\* or noted, with its libraries.
RootsInv ==
  /\ pc \in {"start", "roots"} =>
       manifest_found = FALSE /\ candidates = <<>> /\ invalid_installs = <<>>
  /\ pc = "start" => named = <<>>
  /\ pc = "roots" =>
       \A r \in Range(named) :
         \/ \E left \in Range(roots) : place[left] = place[r]
         \/ /\ RootNoted(place[r])
            /\ root[place[r]] \notin RootFailure => Range(root[place[r]]) \subseteq Range(libraries)

\* After that all roots are noted, and a library that was listed is among those left or noted.
LibrariesInv ==
  pc = "libraries" =>
    /\ \A r \in Range(named) : RootNoted(place[r])
    /\ \A path \in Listed :
         \/ \E left \in Range(libraries) : place[left] = place[path]
         \/ LibraryNoted(place[path])

\* A manifest leads to a fault, or to an install that is a candidate or invalid.
ManifestInv ==
  manifest_found => \/ first_malformed \/ first_unreadable
                    \/ candidates # <<>> \/ invalid_installs # <<>>

IInv ==
  /\ SystemOK /\ DetectionOK
  /\ RootsInv /\ LibrariesInv /\ ManifestInv
  /\ NewestChosen /\ FaultsDoNotHide

--------------------------------------------------------------------------------
(* What is found at the paths, and the loops over sequences of paths. *)

LEMMA SystemFacts ==
  ASSUME SystemOK
  PROVE  /\ RootPath \subseteq Nat /\ LibraryPath \subseteq Nat
         /\ RootList \subseteq Seq(RootPath)
         /\ \A path \in RootPath : root[place[path]] \in RootFailure \cup Seq(LibraryPath)
         /\ \A path \in LibraryPath : InstallOf(path) \in {Unreadable, NoApp, Malformed} \cup Install
<1>1. /\ RootPath \subseteq Nat /\ LibraryPath \subseteq Nat
      /\ RootList \subseteq Seq(RootPath)
      /\ \A x \in DOMAIN root : root[x] \in RootFailure \cup Seq(LibraryPath)
      /\ \A x \in DOMAIN library : library[x] \in {Unreadable, NoApp, Malformed} \cup Install
  <2>1. place \in Place /\ root \in RootSystem /\ library \in LibrarySystem
    BY DEF SystemOK
  <2>2. /\ DOMAIN place \subseteq Nat
        /\ RootList \subseteq Seq({path \in DOMAIN place : place[path] \in DOMAIN root})
        /\ \A x \in DOMAIN root :
             root[x] \in RootFailure \cup Seq({path \in DOMAIN place : place[path] \in DOMAIN library})
        /\ \A x \in DOMAIN library : library[x] \in {Unreadable, NoApp, Malformed} \cup Install
    BY <2>1, SystemAssumption
  <2>3. RootPath \subseteq DOMAIN place /\ LibraryPath \subseteq DOMAIN place
    BY DEF RootPath, LibraryPath
  <2>4. QED
    BY <2>2, <2>3 DEF RootPath, LibraryPath
<1>2. \A path \in RootPath : place[path] \in DOMAIN root
  BY DEF RootPath
<1>3. \A path \in LibraryPath : place[path] \in DOMAIN library
  BY DEF LibraryPath
<1>4. QED
  BY <1>1, <1>2, <1>3 DEF InstallOf

\* A library is listed through a path that leads to one.
LEMMA ListedIsLibrary ==
  ASSUME SystemOK, DetectionOK, NEW path \in Listed
  PROVE  path \in LibraryPath
<1>1. PICK r \in Range(named) : root[place[r]] \notin RootFailure /\ path \in Range(root[place[r]])
  BY DEF Listed
<1>2. r \in RootPath
  BY RangeOfSeq DEF DetectionOK
<1>3. root[place[r]] \in Seq(LibraryPath)
  BY <1>1, <1>2, SystemFacts
<1>4. QED
  BY <1>1, <1>3, RangeOfSeq

\* One turn of a loop takes the head.
LEMMA OneTurn ==
  ASSUME NEW P, NEW s \in Seq(P), s # <<>>
  PROVE  /\ Head(s) \in P /\ Tail(s) \in Seq(P)
         /\ \A x \in Range(s) : x = Head(s) \/ x \in Range(Tail(s))
<1>1. /\ Head(s) \in P /\ Tail(s) \in Seq(P)
      /\ Len(Tail(s)) = Len(s) - 1 /\ \A i \in 1 .. Len(Tail(s)) : Tail(s)[i] = s[i + 1]
  BY HeadTailProperties
<1>2. Head(s) = s[1] /\ Len(s) \in Nat
  BY <1>1, LenProperties
<1>3. ASSUME NEW i \in 1 .. Len(s), i # 1
      PROVE  s[i] \in Range(Tail(s))
  <2>1. i - 1 \in 1 .. Len(Tail(s)) /\ Tail(s)[i - 1] = s[i]
    BY <1>1, <1>2, <1>3
  <2>2. Range(Tail(s)) = {Tail(s)[j] : j \in 1 .. Len(Tail(s))}
    BY <1>1, RangeEquality
  <2>3. QED
    BY <2>1, <2>2
<1>4. Range(s) = {s[i] : i \in 1 .. Len(s)}
  BY RangeEquality
<1>5. QED
  BY <1>1, <1>2, <1>3, <1>4

\* There is nothing in an empty sequence.
LEMMA EmptyRange == Range(<<>>) = {}
  BY DEF Range

LEMMA NotEmptyRange ==
  ASSUME NEW P, NEW s \in Seq(P), s # <<>>
  PROVE  Range(s) # {} /\ s[1] \in Range(s)
<1>1. Len(s) \in Nat /\ Len(s) # 0 /\ DOMAIN s = 1 .. Len(s)
  BY EmptySeq, LenProperties
<1>2. QED
  BY <1>1 DEF Range

\* The latest time of a log is one.
LEMMA LatestIsTime ==
  ASSUME SystemOK
  PROVE  LatestTime \in 0 .. MaxTime
<1> DEFINE S == {0} \cup {t \in 0 .. MaxTime : \E i \in Install : install[i] = t}
<1>1. MaxTime \in Nat /\ S \subseteq 0 .. MaxTime /\ S # {}
  BY InstallAssumption
<1>2. PICK t \in S : \A u \in S : u <= t
  <2> HIDE DEF S
  <2>1. QED
    BY <1>1, Latest
<1>3. t \in 0 .. MaxTime /\ (t = 0 \/ \E i \in Install : install[i] = t)
  BY <1>1
<1>4. \A i \in Install : install[i] \in InstallFailure \/ install[i] <= t
  <2> TAKE i \in Install
  <2>1. install[i] \in InstallFailure \cup (0 .. MaxTime)
    BY DEF SystemOK
  <2>2. QED
    BY <1>2, <2>1
<1>5. QED
  BY <1>3, <1>4 DEF LatestTime

--------------------------------------------------------------------------------
(* The steps of a search. *)

LEMMA UnreadGood == SystemOK /\ Unread => IInv
<1> SUFFICES ASSUME SystemOK, Unread PROVE IInv
  OBVIOUS
<1> USE DEF Unread
<1>1. DetectionOK
  BY EmptySeq DEF DetectionOK
<1>2. RootsInv /\ LibrariesInv /\ ManifestInv /\ NewestChosen /\ FaultsDoNotHide
  BY DEF RootsInv, LibrariesInv, ManifestInv, NewestChosen, FaultsDoNotHide
<1>3. QED
  BY <1>1, <1>2 DEF IInv

LEMMA PlatformFailsStep ==
  ASSUME IInv, PlatformFails
  PROVE  IInv'
<1>1. SystemOK' /\ DetectionOK'
  BY DEF PlatformFails, IInv, SystemOK, DetectionOK, RootPath, LibraryPath, Candidate,
         systemVars, foundVars
<1>2. RootsInv' /\ LibrariesInv' /\ ManifestInv'
  BY DEF PlatformFails, IInv, RootsInv, LibrariesInv, ManifestInv, systemVars, foundVars
<1>3. candidates' = <<>> /\ named' = <<>> /\ Seen' = {} /\ Range(named') = {}
  BY EmptyRange DEF PlatformFails, IInv, RootsInv, foundVars, Seen
<1>4. result'.kind \in {"unsupported", "unreadable", "steam_not_found"}
  BY DEF PlatformFails, Paths
<1>5. NewestChosen' /\ FaultsDoNotHide'
  BY <1>3, <1>4 DEF NewestChosen, FaultsDoNotHide
<1>6. QED
  BY <1>1, <1>2, <1>5 DEF IInv

LEMMA StartStep ==
  ASSUME IInv, Start
  PROVE  IInv'
<1>1. /\ RootPath \subseteq Nat /\ named' \in Seq(RootPath)
      /\ RootPath' = RootPath /\ LibraryPath' = LibraryPath /\ Candidate' = Candidate
  BY SystemFacts DEF IInv, Start, systemVars, RootPath, LibraryPath, Candidate
<1>2. /\ roots' \in Seq(RootPath)
      /\ \A r \in Range(named') : \E left \in Range(roots') : place[left] = place[r]
  <2>1. Deduplicate(named', place) \in Seq(RootPath)
    BY <1>1, DeduplicateParts
  <2>2. ASSUME NEW r \in Range(named')
        PROVE  \E left \in Range(Deduplicate(named', place)) : place[left] = place[r]
    BY <1>1, PlaceKept
  <2>3. roots' = Deduplicate(named', place)
    BY DEF Start
  <2>4. QED
    BY <1>1, <2>1, <2>2, <2>3
<1>3. SystemOK' /\ DetectionOK'
  BY <1>1, <1>2 DEF Start, IInv, SystemOK, DetectionOK, systemVars, foundVars
<1>4. /\ manifest_found' = FALSE /\ candidates' = <<>> /\ invalid_installs' = <<>>
      /\ place' = place /\ pc' \in {"roots", "done"} /\ Seen' = {}
  BY EmptyRange DEF Start, IInv, RootsInv, systemVars, foundVars, Seen
<1>5. RootsInv' /\ LibrariesInv' /\ ManifestInv'
  BY <1>2, <1>4 DEF RootsInv, LibrariesInv, ManifestInv
<1>6. NewestChosen' /\ FaultsDoNotHide'
  <2> SUFFICES ASSUME pc' = "done" PROVE NewestChosen' /\ FaultsDoNotHide'
    BY DEF NewestChosen, FaultsDoNotHide
  <2>1. named' = <<>> /\ result'.kind = "steam_not_found"
    BY DEF Start, Paths
  <2>2. Range(named') = {}
    BY <2>1, EmptyRange
  <2>3. QED
    BY <1>4, <2>1, <2>2 DEF NewestChosen, FaultsDoNotHide
<1>7. QED
  BY <1>3, <1>5, <1>6 DEF IInv

LEMMA ReadRootStep ==
  ASSUME IInv, ReadRoot
  PROVE  IInv'
<1> DEFINE found == root[place[Head(roots)]]
<1>1. /\ RootPath' = RootPath /\ LibraryPath' = LibraryPath /\ Candidate' = Candidate
      /\ place' = place /\ root' = root /\ pc' = "roots" /\ named' = named
  BY DEF IInv, ReadRoot, systemVars, RootPath, LibraryPath, Candidate
<1>2. /\ Head(roots) \in RootPath /\ Tail(roots) \in Seq(RootPath)
      /\ \A x \in Range(roots) : x = Head(roots) \/ x \in Range(Tail(roots))
  BY OneTurn DEF IInv, DetectionOK, ReadRoot
<1>3. found \in RootFailure \cup Seq(LibraryPath)
  BY <1>2, SystemFacts DEF IInv
<1>4. /\ libraries \in Seq(LibraryPath) /\ libraries' \in Seq(LibraryPath)
      /\ Range(libraries) \subseteq Range(libraries')
      /\ found \notin RootFailure => Range(found) \subseteq Range(libraries')
  <2>1. libraries \in Seq(LibraryPath)
    BY DEF IInv, DetectionOK
  <2>2. CASE found \in RootFailure
    BY <2>1, <2>2 DEF ReadRoot
  <2>3. CASE found \notin RootFailure
    <3>1. libraries' = libraries \o found /\ found \in Seq(LibraryPath)
      BY <1>3, <2>3 DEF ReadRoot
    <3>2. libraries' \in Seq(LibraryPath)
      BY <2>1, <3>1, ConcatProperties
    <3>3. Range(libraries') = Range(libraries) \cup Range(found)
      BY <2>1, <3>1, RangeConcatenation
    <3>4. QED
      BY <2>1, <3>2, <3>3
  <2>4. QED
    BY <2>2, <2>3
<1>5. /\ readable_root_found' = (readable_root_found \/ found \notin {Missing, Unreadable})
      /\ first_unreadable' = (first_unreadable \/ found \in {Unreadable, Unlisted})
      /\ first_malformed' = (first_malformed \/ found = Malformed)
      /\ roots' = Tail(roots)
      /\ UNCHANGED <<manifest_found, candidates, invalid_installs>>
  BY DEF ReadRoot
<1> HIDE DEF found
<1>6. SystemOK'
  BY DEF ReadRoot, IInv, SystemOK, systemVars
<1>7. DetectionOK'
  BY <1>1, <1>2, <1>4, <1>5 DEF IInv, DetectionOK
<1>8. \A r : RootNoted(r) => RootNoted(r)'
  BY <1>1, <1>5 DEF RootNoted
<1>9. \A x : x = place[Head(roots)] => RootNoted(x)'
  BY <1>1, <1>5 DEF RootNoted, found
<1>10. RootsInv'
  <2>1. manifest_found' = FALSE /\ candidates' = <<>> /\ invalid_installs' = <<>>
    BY <1>5 DEF ReadRoot, IInv, RootsInv
  <2>2. ASSUME NEW r \in Range(named)
        PROVE  \/ \E left \in Range(roots') : place[left] = place[r]
               \/ /\ \A x : x = place[r] => RootNoted(x)'
                  /\ root[place[r]] \notin RootFailure
                       => Range(root[place[r]]) \subseteq Range(libraries')
    <3>1. \/ \E left \in Range(roots) : place[left] = place[r]
          \/ /\ RootNoted(place[r])
             /\ root[place[r]] \notin RootFailure
                  => Range(root[place[r]]) \subseteq Range(libraries)
      BY DEF ReadRoot, IInv, RootsInv
    <3>2. ASSUME NEW left \in Range(roots), place[left] = place[r]
          PROVE  <2>2!2
      <4>1. CASE left \in Range(Tail(roots))
        BY <1>5, <3>2, <4>1
      <4>2. CASE left = Head(roots)
        <5>1. root[place[r]] = found /\ \A x : x = place[r] => RootNoted(x)'
          BY <1>9, <3>2, <4>2 DEF found
        <5>2. QED
          BY <1>4, <5>1
      <4>3. QED
        BY <1>2, <4>1, <4>2
    <3>3. QED
      BY <1>4, <1>8, <3>1, <3>2
  <2>3. QED
    BY <1>1, <2>1, <2>2 DEF RootsInv
<1>11. LibrariesInv' /\ NewestChosen' /\ FaultsDoNotHide'
  BY <1>1 DEF LibrariesInv, NewestChosen, FaultsDoNotHide
<1>12. ManifestInv'
  BY <1>5 DEF ReadRoot, IInv, RootsInv, ManifestInv
<1>13. QED
  BY <1>6, <1>7, <1>10, <1>11, <1>12 DEF IInv

LEMMA RootsReadStep ==
  ASSUME IInv, RootsRead
  PROVE  IInv'
<1>1. /\ RootPath' = RootPath /\ LibraryPath' = LibraryPath /\ Candidate' = Candidate
      /\ place' = place /\ root' = root /\ library' = library /\ install' = install
      /\ UNCHANGED <<roots, named, foundVars>>
  BY DEF RootsRead, systemVars, RootPath, LibraryPath, Candidate
<1>2. /\ Range(roots) = {} /\ pc' \in {"libraries", "done"}
      /\ manifest_found = FALSE /\ candidates = <<>> /\ Seen' = {}
  BY <1>1, EmptyRange DEF RootsRead, IInv, RootsInv, Seen, foundVars
<1>3. \A r \in Range(named) :
        /\ RootNoted(place[r])
        /\ root[place[r]] \notin RootFailure => Range(root[place[r]]) \subseteq Range(libraries)
  BY <1>2 DEF RootsRead, IInv, RootsInv
<1>4. LibraryPath \subseteq Nat /\ libraries \in Seq(LibraryPath)
  BY SystemFacts DEF IInv, DetectionOK
<1>5. libraries' \in Seq(LibraryPath)
  <2>1. Deduplicate(libraries, place) \in Seq(LibraryPath)
    BY <1>4, DeduplicateParts
  <2>2. QED
    BY <1>4, <2>1 DEF RootsRead
<1>6. SystemOK' /\ DetectionOK'
  BY <1>1, <1>2, <1>5 DEF IInv, SystemOK, DetectionOK, foundVars
<1>7. RootsInv' /\ ManifestInv'
  BY <1>1, <1>2 DEF RootsInv, ManifestInv, foundVars
<1>8. LibrariesInv'
  <2> SUFFICES ASSUME pc' = "libraries" PROVE LibrariesInv'
    BY DEF LibrariesInv
  <2>1. libraries' = Deduplicate(libraries, place)
    BY DEF RootsRead
  <2>2. ASSUME NEW path \in Listed
        PROVE  \E left \in Range(libraries') : place[left] = place[path]
    <3>1. path \in Range(libraries)
      BY <1>3 DEF Listed
    <3>2. QED
      BY <1>4, <2>1, <3>1, PlaceKept
  <2>3. Listed' = Listed
    BY <1>1 DEF Listed
  <2>4. \A r \in Range(named) : \A x : x = place[r] => RootNoted(x)'
    BY <1>1, <1>3 DEF RootNoted, foundVars
  <2>5. QED
    BY <1>1, <2>2, <2>3, <2>4 DEF LibrariesInv
<1>9. NewestChosen' /\ FaultsDoNotHide'
  <2> SUFFICES ASSUME pc' = "done" PROVE NewestChosen' /\ FaultsDoNotHide'
    BY DEF NewestChosen, FaultsDoNotHide
  <2>1. /\ ~readable_root_found
        /\ result'.kind = IF first_unreadable THEN "unreadable" ELSE "steam_not_found"
    BY DEF RootsRead, Paths
  <2>2. result'.kind = "steam_not_found" => \A r \in Range(named') : root'[place'[r]] = Missing
    BY <1>1, <1>3, <2>1 DEF RootNoted
  <2>3. QED
    BY <1>2, <2>1, <2>2 DEF NewestChosen, FaultsDoNotHide
<1>10. QED
  BY <1>6, <1>7, <1>8, <1>9 DEF IInv

LEMMA ReadLibraryStep ==
  ASSUME IInv, ReadLibrary
  PROVE  IInv'
<1> DEFINE path == Head(libraries)
           found == InstallOf(path)
           state == IF found \in Install THEN install[found] ELSE None
<1>1. /\ RootPath' = RootPath /\ LibraryPath' = LibraryPath /\ Candidate' = Candidate
      /\ place' = place /\ root' = root /\ library' = library /\ install' = install
      /\ pc' = "libraries" /\ pc = "libraries"
      /\ UNCHANGED <<roots, named, readable_root_found, result>>
  BY DEF ReadLibrary, systemVars, RootPath, LibraryPath, Candidate
<1>2. /\ path \in LibraryPath /\ Tail(libraries) \in Seq(LibraryPath)
      /\ \A x \in Range(libraries) : x = path \/ x \in Range(Tail(libraries))
  BY OneTurn DEF IInv, DetectionOK, ReadLibrary
<1>3. found \in {Unreadable, NoApp, Malformed} \cup Install /\ found = library[place[path]]
  BY <1>2, SystemFacts DEF IInv, InstallOf
<1>4. /\ found \in Install => state = install[found] /\ state \in InstallFailure \cup (0 .. MaxTime)
                              /\ state # None
      /\ found \notin Install => state = None
  BY InstallAssumption DEF IInv, SystemOK
<1>5. state \notin {None} \cup InstallFailure => state \in 0 .. MaxTime
  BY <1>4
<1>6. /\ manifest_found' = (manifest_found \/ found \notin {Unreadable, NoApp})
      /\ first_unreadable' = (first_unreadable \/ found = Unreadable \/ state = Unreadable)
      /\ first_malformed' = (first_malformed \/ found = Malformed)
      /\ invalid_installs' = IF state = Invalid THEN Append(invalid_installs, path)
                             ELSE invalid_installs
      /\ candidates' = IF state \in {None} \cup InstallFailure THEN candidates
                       ELSE Append(candidates, [path |-> path, modified |-> state])
      /\ libraries' = Tail(libraries)
  BY DEF ReadLibrary
<1> HIDE DEF path, found, state
<1>7. /\ candidates' \in Seq(Candidate) /\ invalid_installs' \in Seq(LibraryPath)
      /\ candidates # <<>> => candidates' # <<>>
      /\ invalid_installs # <<>> => invalid_installs' # <<>>
      /\ state \notin {None} \cup InstallFailure => candidates' # <<>>
      /\ state = Invalid => invalid_installs' # <<>>
  <2>1. candidates \in Seq(Candidate) /\ invalid_installs \in Seq(LibraryPath)
    BY DEF IInv, DetectionOK
  <2>2. /\ Append(invalid_installs, path) \in Seq(LibraryPath)
        /\ Append(invalid_installs, path) # <<>>
    BY <1>2, <2>1, AppendProperties
  <2>3. ASSUME state \notin {None} \cup InstallFailure
        PROVE  /\ Append(candidates, [path |-> path, modified |-> state]) \in Seq(Candidate)
               /\ Append(candidates, [path |-> path, modified |-> state]) # <<>>
    <3>1. [path |-> path, modified |-> state] \in Candidate
      BY <1>2, <1>5, <2>3 DEF Candidate
    <3>2. QED
      BY <2>1, <3>1, AppendProperties
  <2>4. QED
    BY <1>6, <2>1, <2>2, <2>3
<1>8. SystemOK'
  BY <1>1 DEF IInv, SystemOK
<1>9. DetectionOK'
  BY <1>1, <1>2, <1>6, <1>7 DEF IInv, DetectionOK
<1>10. RootsInv' /\ NewestChosen' /\ FaultsDoNotHide'
  BY <1>1 DEF RootsInv, NewestChosen, FaultsDoNotHide
<1>11. ManifestInv'
  <2>1. CASE manifest_found
    BY <1>6, <1>7, <2>1 DEF IInv, ManifestInv
  <2>2. CASE found \in Install
    BY <1>4, <1>6, <1>7, <2>2 DEF ManifestInv, InstallFailure
  <2>3. CASE found = Malformed
    BY <1>6, <2>3 DEF ManifestInv
  <2>4. CASE ~manifest_found /\ found \in {Unreadable, NoApp}
    BY <1>6, <2>4 DEF ManifestInv
  <2>5. QED
    BY <1>3, <2>1, <2>2, <2>3, <2>4
<1>12. LibrariesInv'
  <2>1. \A x : LibraryNoted(x) => LibraryNoted(x)'
    BY <1>1, <1>6, <1>7 DEF LibraryNoted
  <2>2. \A x : x = place[path] => LibraryNoted(x)'
    BY <1>1, <1>3, <1>4, <1>6, <1>7 DEF LibraryNoted
  <2>3. \A r \in Range(named) : \A x : x = place[r] => RootNoted(x)'
    BY <1>1, <1>6 DEF RootNoted, IInv, LibrariesInv
  <2>4. ASSUME NEW listed \in Listed
        PROVE  \/ \E left \in Range(libraries') : place[left] = place[listed]
               \/ \A x : x = place[listed] => LibraryNoted(x)'
    <3>1. \/ \E left \in Range(libraries) : place[left] = place[listed]
          \/ LibraryNoted(place[listed])
      BY <1>1 DEF IInv, LibrariesInv
    <3>2. ASSUME NEW left \in Range(libraries), place[left] = place[listed]
          PROVE  <2>4!2
      BY <1>2, <1>6, <2>2, <3>2
    <3>3. QED
      BY <2>1, <3>1, <3>2
  <2>5. Listed' = Listed
    BY <1>1 DEF Listed
  <2>6. QED
    BY <1>1, <2>3, <2>4, <2>5 DEF LibrariesInv
<1>13. QED
  BY <1>8, <1>9, <1>10, <1>11, <1>12 DEF IInv

LEMMA LibrariesReadStep ==
  ASSUME IInv, LibrariesRead
  PROVE  IInv'
<1>1. /\ RootPath' = RootPath /\ LibraryPath' = LibraryPath /\ Candidate' = Candidate
      /\ place' = place /\ root' = root /\ library' = library /\ install' = install
      /\ pc' = "done" /\ pc = "libraries"
      /\ UNCHANGED <<roots, libraries, named, foundVars>>
  BY DEF LibrariesRead, systemVars, RootPath, LibraryPath, Candidate
<1>2. SystemOK' /\ DetectionOK'
  BY <1>1 DEF IInv, SystemOK, DetectionOK, foundVars
<1>3. RootsInv' /\ LibrariesInv' /\ ManifestInv'
  BY <1>1 DEF IInv, RootsInv, LibrariesInv, ManifestInv, foundVars
<1>4. /\ candidates \in Seq(Candidate) /\ invalid_installs \in Seq(LibraryPath)
      /\ Seen' = Range(candidates) /\ Listed' = Listed /\ LibraryPath \subseteq Nat
      /\ \A p : InstallOf(p)' = InstallOf(p)
  BY <1>1, SystemFacts DEF IInv, DetectionOK, Seen, Listed, InstallOf, foundVars
<1>5. CASE candidates # <<>>
  <2> DEFINE selected == SelectCandidate(DeduplicateCandidates(candidates))
  <2>1. /\ selected.kind \in {"ready", "not_created", "ambiguous"}
        /\ selected.kind = "ready" =>
             \E path \in selected.paths :
               /\ selected.paths = {path}
               /\ \E c \in Range(candidates) :
                    /\ InstallOf(c.path) = InstallOf(path)
                    /\ \A d \in Range(candidates) :
                         InstallOf(d.path) # InstallOf(path) => d.modified < c.modified
        /\ selected.kind = "ambiguous" =>
             Cardinality({InstallOf(path) : path \in selected.paths}) >= 2
    BY <1>4, <1>5, SelectedIsNewest DEF Candidate
  <2>2. result' = selected
    BY <1>5 DEF LibrariesRead
  <2> HIDE DEF selected
  <2>3. NewestChosen'
    BY <1>4, <2>1, <2>2 DEF NewestChosen
  <2>4. FaultsDoNotHide'
    BY <2>1, <2>2 DEF FaultsDoNotHide
  <2>5. QED
    BY <1>2, <1>3, <2>3, <2>4 DEF IInv
<1>6. CASE candidates = <<>>
  <2>1. result' = Failure /\ Seen' = {}
    BY <1>4, <1>6, EmptyRange DEF LibrariesRead
  <2>2. /\ \A r \in Range(named) : RootNoted(place[r])
        /\ \A path \in Listed : LibraryNoted(place[path])
    BY <1>1, EmptyRange DEF LibrariesRead, IInv, LibrariesInv
  <2>3. ASSUME ~first_malformed, ~first_unreadable
        PROVE  AllRead
    <3>1. \A r \in Range(named) : root[place[r]] \notin RootFailure \ {Missing}
      BY <2>2, <2>3 DEF RootNoted, RootFailure
    <3>2. ASSUME NEW path \in Listed
          PROVE  InstallOf(path) \in Install \cup {NoApp}
      <4>1. InstallOf(path) \in {Unreadable, NoApp, Malformed} \cup Install
        BY ListedIsLibrary, SystemFacts DEF IInv
      <4>2. InstallOf(path) \notin {Unreadable, Malformed}
        BY <2>2, <2>3 DEF LibraryNoted, InstallOf
      <4>3. QED
        BY <4>1, <4>2
    <3>3. QED
      BY <3>1, <3>2 DEF AllRead
  <2>4. AllRead' = AllRead
    BY <1>1, <1>4 DEF AllRead
  <2>5. CASE first_malformed \/ first_unreadable
    <3>1. result'.kind \in {"malformed", "unreadable"}
      BY <2>1, <2>5 DEF Failure, Paths
    <3>2. QED
      BY <1>2, <1>3, <2>1, <3>1 DEF IInv, NewestChosen, FaultsDoNotHide
  <2>6. CASE ~first_malformed /\ ~first_unreadable /\ manifest_found
    <3>1. /\ result'.kind = "invalid_install"
          /\ result'.paths = Range(Deduplicate(invalid_installs, InstallPlace))
      BY <2>1, <2>6 DEF Failure, Paths
    <3>2. result'.paths # {}
      <4>1. invalid_installs # <<>>
        BY <1>6, <2>6 DEF IInv, ManifestInv
      <4>2. invalid_installs[1] \in Range(invalid_installs)
        BY <1>4, <4>1, NotEmptyRange
      <4>3. PICK left \in Range(Deduplicate(invalid_installs, InstallPlace)) :
              InstallPlace[left] = InstallPlace[invalid_installs[1]]
        BY <1>4, <4>2, PlaceKept
      <4>4. QED
        BY <3>1, <4>3
    <3>3. ASSUME NEW path \in Listed, InstallOf(path) \in Install
          PROVE  install[InstallOf(path)] = Invalid
      <4>1. install[InstallOf(path)] \in InstallFailure /\ install[InstallOf(path)] # Unreadable
        BY <1>6, <2>2, <2>6, <3>3 DEF LibraryNoted, InstallOf
      <4>2. QED
        BY <4>1 DEF InstallFailure
    <3>4. NewestChosen' /\ FaultsDoNotHide'
      BY <1>1, <1>4, <2>1, <2>3, <2>4, <2>6, <3>1, <3>2, <3>3 DEF NewestChosen, FaultsDoNotHide
    <3>5. QED
      BY <1>2, <1>3, <3>4 DEF IInv
  <2>7. CASE ~first_malformed /\ ~first_unreadable /\ ~manifest_found
    <3>1. result'.kind = "not_installed"
      BY <2>1, <2>7 DEF Failure, Paths
    <3>2. \A path \in Listed : InstallOf(path) = NoApp
      BY <2>2, <2>7 DEF LibraryNoted, InstallOf
    <3>3. NewestChosen' /\ FaultsDoNotHide'
      BY <1>1, <1>4, <2>1, <2>3, <2>4, <2>7, <3>1, <3>2 DEF NewestChosen, FaultsDoNotHide
    <3>4. QED
      BY <1>2, <1>3, <3>3 DEF IInv
  <2>8. QED
    BY <2>5, <2>6, <2>7
<1>7. QED
  BY <1>5, <1>6

\* The time of a log changes, not whether an install could be read.
LEMMA LogChangesStep ==
  ASSUME IInv, NEW i \in Install, LogChanges(i)
  PROVE  IInv'
<1>1. PICK t \in {NoLog, LatestTime + 1} : t <= MaxTime /\ install' = [install EXCEPT ![i] = t]
  BY DEF LogChanges
<1>2. t \in 0 .. MaxTime
  BY <1>1, LatestIsTime, InstallAssumption DEF NoLog, IInv
<1>3. /\ RootPath' = RootPath /\ LibraryPath' = LibraryPath /\ Candidate' = Candidate
      /\ place' = place /\ root' = root /\ library' = library /\ pc' = pc /\ pc # "done"
      /\ UNCHANGED <<roots, libraries, named, foundVars>> /\ Listed' = Listed
  BY DEF LogChanges, systemVars, RootPath, LibraryPath, Candidate, Listed
<1>4. /\ install \in [Install -> InstallFailure \cup (0 .. MaxTime)]
      /\ install[i] \notin InstallFailure
  BY DEF IInv, SystemOK, LogChanges
<1>5. install' \in [Install -> InstallFailure \cup (0 .. MaxTime)]
  BY <1>1, <1>2, <1>4
<1>6. SystemOK' /\ DetectionOK'
  BY <1>3, <1>5 DEF IInv, SystemOK, DetectionOK, foundVars
<1>7. NewestChosen' /\ FaultsDoNotHide'
  BY <1>3 DEF NewestChosen, FaultsDoNotHide
<1>8. \A x : (RootNoted(x) => RootNoted(x)') /\ (LibraryNoted(x) => LibraryNoted(x)')
  <2>1. t \notin InstallFailure /\ Unreadable \in InstallFailure
    BY <1>2, InstallAssumption DEF InstallFailure
  <2>2. \A j \in Install :
          /\ install'[j] = Unreadable => install[j] = Unreadable
          /\ install'[j] \notin InstallFailure => install[j] \notin InstallFailure
    BY <1>1, <1>4, <2>1
  <2>3. QED
    BY <1>3, <2>2 DEF RootNoted, LibraryNoted, foundVars
<1>9. RootsInv' /\ ManifestInv'
  BY <1>3, <1>8 DEF IInv, RootsInv, ManifestInv, foundVars
<1>10. LibrariesInv'
  BY <1>3, <1>8 DEF IInv, LibrariesInv
<1>11. QED
  BY <1>6, <1>7, <1>9, <1>10 DEF IInv

LEMMA OtherStep ==
  ASSUME IInv, UNCHANGED vars
  PROVE  IInv'
<1> USE DEF vars, systemVars, foundVars
<1>1. SystemOK' /\ DetectionOK'
  BY DEF IInv, SystemOK, DetectionOK, RootPath, LibraryPath, Candidate
<1>2. /\ \A x : RootNoted(x)' <=> RootNoted(x)
      /\ \A x : LibraryNoted(x)' <=> LibraryNoted(x)
      /\ \A p : InstallOf(p)' = InstallOf(p)
      /\ Listed' = Listed /\ Seen' = Seen
  BY DEF RootNoted, LibraryNoted, InstallOf, Listed, Seen
<1>3. RootsInv' /\ LibrariesInv' /\ ManifestInv'
  BY <1>2 DEF IInv, RootsInv, LibrariesInv, ManifestInv
<1>4. AllRead' = AllRead
  BY <1>2 DEF AllRead
<1>5. NewestChosen' /\ FaultsDoNotHide'
  BY <1>2, <1>4 DEF IInv, NewestChosen, FaultsDoNotHide
<1>6. QED
  BY <1>1, <1>3, <1>5 DEF IInv

LEMMA StepKeeps == IInv /\ [ConnectionNext]_connectionVars => IInv'
<1> SUFFICES ASSUME IInv, [ConnectionNext]_connectionVars PROVE IInv'
  OBVIOUS
<1>1. CASE DetectStep
  BY <1>1, PlatformFailsStep, StartStep, ReadRootStep, RootsReadStep, ReadLibraryStep,
     LibrariesReadStep DEF DetectStep, Detect
<1>2. CASE \E i \in Install : LogChanges(i) /\ UNCHANGED pageVars
  BY <1>2, LogChangesStep
<1>3. CASE ApplyFound \/ ApplyError
  <2>1. Forget
    BY <1>3 DEF ApplyFound, ApplyError
  <2>2. (SystemOK /\ Unread)'
    BY <2>1 DEF Forget, Unread, IInv, SystemOK, systemVars
  <2>3. (SystemOK /\ Unread => IInv)'
    BY UnreadGood, PTL
  <2>4. QED
    BY <2>2, <2>3
<1>4. CASE ResumeSaved \/ DetectAtStartup \/ AutoDetect \/ StartFromInput \/ EditLogPath
           \/ ResetSavedState \/ UNCHANGED connectionVars
  <2>1. UNCHANGED vars
    BY <1>4 DEF ResumeSaved, DetectAtStartup, AutoDetect, StartFromInput, EditLogPath,
                ResetSavedState, connectionVars
  <2>2. QED
    BY <2>1, OtherStep
<1>5. QED
  BY <1>1, <1>2, <1>3, <1>4 DEF ConnectionNext

\* The search keeps its invariant, on a page that starts it any number of times.
THEOREM Invariance == ConnectionSpec => []IInv
<1>1. ConnectionInit => IInv
  <2> SUFFICES ASSUME ConnectionInit PROVE IInv
    OBVIOUS
  <2>1. SystemOK /\ Unread
    BY InstallAssumption DEF ConnectionInit, Init, SystemOK
  <2>2. QED
    BY <2>1, UnreadGood
<1>2. QED
  BY <1>1, StepKeeps, PTL DEF ConnectionSpec

--------------------------------------------------------------------------------
(* What is promised. *)

\* The log that is taken is the newest that was seen, also when links lead to one install
\* through several libraries, the game writes while they are read, and an install is seen
\* again with another time (deadlock_path.rs, deduplicate_candidates and select_candidate).
THEOREM NewestCorrect == ConnectionSpec => []NewestChosen
<1>1. IInv => NewestChosen
  BY DEF IInv
<1>2. QED
  BY <1>1, Invariance, PTL

\* Whatever could not be read, an install that was found is taken, and the game is said to
\* be missing or its install broken only when all was read and it is so
\* (deadlock_path.rs, detect_in_roots).
THEOREM FaultsCorrect == ConnectionSpec => []FaultsDoNotHide
<1>1. IInv => FaultsDoNotHide
  BY DEF IInv
<1>2. QED
  BY <1>1, Invariance, PTL

\* The field has a text, so that trimming it leaves the path it names.
PageInv == "log" \in DOMAIN log_path /\ ShownIsTailed

LEMMA TypedIsText == \A text \in Typed \cup {Empty} : "log" \in DOMAIN text
  BY TypedAssumption DEF Text, Empty

\* A page without an error shows the path that is tailed (app.rs, start_listener_at and
\* apply_log_detection_with_context): every step that touches the field, the status, the
\* error or the listener leaves them together.
THEOREM ShownCorrect == ConnectionSpec => []ShownIsTailed
<1>1. ConnectionInit => PageInv
  BY TypedAssumption, TypedIsText DEF ConnectionInit, PageInv, ShownIsTailed
<1>2. PageInv /\ [ConnectionNext]_connectionVars => PageInv'
  <2> SUFFICES ASSUME PageInv, [ConnectionNext]_connectionVars PROVE PageInv'
    OBVIOUS
  <2>0. None \notin {"load", "startup", "manual", "empty", "start"}
    BY TypedAssumption
  <2>1. CASE ResumeSaved
    <3>1. log_path'.log = log_path.log /\ "log" \in DOMAIN log_path' /\ StartConfiguredListener
      BY <2>1 DEF ResumeSaved, Trimmed, PageInv
    <3>2. listener_action_error' = None => listener' = log_path.log
      BY <2>0, <3>1 DEF StartConfiguredListener, StartListenerAt, AlreadyTails
    <3>3. QED
      BY <3>1, <3>2 DEF PageInv, ShownIsTailed
  <2>2. CASE StartFromInput
    <3>1. listener_action_error' = None => listener' = log_path.log
      BY <2>0, <2>2 DEF StartFromInput, StartConfiguredListener, StartListenerAt, AlreadyTails
    <3>2. QED
      BY <2>2, <3>1 DEF StartFromInput, PageInv, ShownIsTailed
  <2>3. CASE ApplyFound
    <3>1. PICK path \in result.paths :
            log_path' = [log |-> path, padded |-> FALSE] /\ StartListenerAt(path)
      BY <2>3 DEF ApplyFound
    <3>2. listener_action_error' = None => listener' = path
      BY <2>0, <3>1 DEF StartListenerAt, AlreadyTails
    <3>3. QED
      BY <3>1, <3>2 DEF PageInv, ShownIsTailed
  <2>4. CASE ApplyError
    <3>1. log_path' \in {log_path, Empty} /\ log_detection_status' = "failed"
      BY <2>4 DEF ApplyError
    <3>2. QED
      BY <3>1, TypedIsText DEF PageInv, ShownIsTailed
  <2>5. CASE ResetSavedState
    BY <2>5, TypedIsText DEF ResetSavedState, PageInv, ShownIsTailed, Empty
  <2>6. CASE DetectAtStartup \/ AutoDetect
    BY <2>0, <2>6 DEF DetectAtStartup, AutoDetect, PageInv, ShownIsTailed
  <2>7. CASE EditLogPath
    BY <2>7, TypedIsText DEF EditLogPath, PageInv, ShownIsTailed
  <2>8. CASE DetectStep \/ (\E i \in Install : LogChanges(i) /\ UNCHANGED pageVars)
             \/ UNCHANGED connectionVars
    BY <2>8 DEF DetectStep, pageVars, connectionVars, PageInv, ShownIsTailed
  <2>9. QED
    BY <2>1, <2>2, <2>3, <2>4, <2>5, <2>6, <2>7, <2>8 DEF ConnectionNext
<1>3. PageInv => ShownIsTailed
  BY DEF PageInv
<1>4. QED
  BY <1>1, <1>2, <1>3, PTL DEF ConnectionSpec
================================================================================
