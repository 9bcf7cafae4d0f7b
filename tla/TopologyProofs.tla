--------------------------- MODULE TopologyProofs ---------------------------
(***************************************************************************)
(* Theorems about TopologyRegistry and SymmetryPermutations.               *)
(*                                                                         *)
(* What Build makes of a list of roots is an induction over its files,     *)
(* written with least counterexamples; what threads may rely on is an      *)
(* invariant of the protocol between the mutex, the references that        *)
(* outlive it, and the flag of call_once.                                  *)
(*                                                                         *)
(* The symmetries of a shell rest on linear algebra over the integers (an  *)
(* isometry is what its matrix does, and the matrix is known from the      *)
(* basis) and on the order of permutations: a leap leaves out only what    *)
(* begins like the permutation that was refused.                           *)
(***************************************************************************)
EXTENDS TopologyRegistry, SymmetryPermutations, FiniteSetTheorems, WellFoundedInduction, TLAPS

----------------------------------------------------------------------------
(* Induction *)

\* A set of natural numbers that is not empty has a least element.
LEMMA LeastNatural ==
    ASSUME NEW T, T \subseteq Nat, T # {}
    PROVE  \E m \in T : \A n \in T : m <= n
<1> DEFINE Initials == {1 .. n : n \in T}
<1>1. Initials \subseteq FiniteSubsetsOf(Nat) /\ Initials # {}
  <2>1. \A n \in T : n \in Int /\ 1 .. n \in SUBSET Nat
    OBVIOUS
  <2>2. \A n \in T : IsFiniteSet(1 .. n)
    BY <2>1, FS_Interval
  <2>3. QED
    BY <2>1, <2>2 DEF FiniteSubsetsOf
<1>2. PICK B \in Initials : \A C \in Initials : <<C, B>> \notin StrictSubsetOrdering(Nat)
  BY <1>1, FS_StrictSubsetOrderingWellFounded, WFMin
<1>3. PICK m \in T : B = 1 .. m
  OBVIOUS
<1>4. ASSUME NEW n \in T, n < m PROVE FALSE
  <2>1. 1 .. n \subseteq 1 .. m /\ m \in 1 .. m /\ m \notin 1 .. n
    BY <1>4
  <2>2. 1 .. n \in SUBSET Nat /\ 1 .. m \in SUBSET Nat /\ 1 .. n # 1 .. m
    BY <2>1
  <2>3. <<1 .. n, 1 .. m>> \in StrictSubsetOrdering(Nat)
    BY <2>1, <2>2 DEF StrictSubsetOrdering
  <2>4. QED
    BY <1>2, <1>3, <2>3
<1>5. QED
  BY <1>4

\* A set that holds 0, and a number if it holds the one before it, holds all
\* numbers up to b.
LEMMA Induction ==
    ASSUME NEW b \in Nat, NEW G, 0 \in G,
           \A n \in 1 .. b : n - 1 \in G => n \in G
    PROVE  0 .. b \subseteq G
<1> DEFINE T == (0 .. b) \ G
<1>1. SUFFICES ASSUME T # {} PROVE FALSE
  OBVIOUS
<1>2. PICK m \in T : \A n \in T : m <= n
  <2>1. T \subseteq Nat
    OBVIOUS
  <2> HIDE DEF T
  <2>2. QED
    BY <1>1, <2>1, LeastNatural
<1>3. m \in 1 .. b /\ m - 1 \in 0 .. b /\ ~(m <= m - 1)
  OBVIOUS
<1>4. m - 1 \in G
  BY <1>2, <1>3
<1>5. QED
  BY <1>3, <1>4

\* A finite set of integers that is not empty has a greatest element.
LEMMA GreatestOfFinite ==
    ASSUME NEW S, S \subseteq Int, IsFiniteSet(S), S # {}
    PROVE  \E m \in S : \A x \in S : x <= m
<1> DEFINE Good(A) == A = {} \/ \E m \in A : \A x \in A : x <= m
           G == {n \in Nat : \A A \in SUBSET S : Cardinality(A) = n => Good(A)}
<1>0. \A A \in SUBSET S : IsFiniteSet(A) /\ Cardinality(A) \in Nat
  BY FS_Subset, FS_CardinalityType
<1>1. 0 \in G
  BY <1>0, FS_EmptySet
<1>2. ASSUME NEW n \in 1 .. Cardinality(S), n - 1 \in G
      PROVE  n \in G
  <2>1. SUFFICES ASSUME NEW A \in SUBSET S, Cardinality(A) = n, A # {}
                 PROVE  \E m \in A : \A x \in A : x <= m
    BY <1>0
  <2>2. PICK y \in A : TRUE
    BY <2>1
  <2>3. A \ {y} \in SUBSET S /\ Cardinality(A \ {y}) = n - 1
    BY <1>0, <2>1, FS_RemoveElement
  <2>4. Good(A \ {y})
    BY <1>2, <2>3
  <2>5. CASE A \ {y} = {}
    <3>1. \A x \in A : x = y /\ y \in Int
      BY <2>5
    <3>2. QED
      BY <3>1, <2>2
  <2>6. CASE \E m \in A \ {y} : \A x \in A \ {y} : x <= m
    <3>1. PICK m \in A \ {y} : \A x \in A \ {y} : x <= m
      BY <2>6
    <3>2. m \in Int /\ y \in Int /\ \A x \in A : x \in Int
      OBVIOUS
    <3>3. CASE y <= m
      <4>1. \A x \in A : x <= m
        BY <3>1, <3>3
      <4>2. QED
        BY <4>1
    <3>4. CASE m <= y
      <4>1. \A x \in A : x <= y
        BY <3>1, <3>2, <3>4
      <4>2. QED
        BY <4>1
    <3>5. QED
      BY <3>2, <3>3, <3>4
  <2>7. QED
    BY <2>4, <2>5, <2>6
<1>3. Cardinality(S) \in Nat /\ Cardinality(S) \in 0 .. Cardinality(S)
  BY <1>0
<1>4. Cardinality(S) \in G
  <2> HIDE DEF G
  <2>1. QED
    BY <1>1, <1>2, <1>3, Induction
<1>5. QED
  BY <1>4

Sorted(s) == \A i, j \in DOMAIN s : i < j => s[i] < s[j]

\* A finite set of integers can be put in order.
LEMMA SortedExists ==
    ASSUME NEW S, S \subseteq Int, IsFiniteSet(S)
    PROVE  \E s \in [1 .. Cardinality(S) -> S] : Sorted(s)
<1> DEFINE Good(A) == \E s \in [1 .. Cardinality(A) -> A] : Sorted(s)
           G == {n \in Nat : \A A \in SUBSET S : Cardinality(A) = n => Good(A)}
<1>0. \A A \in SUBSET S : IsFiniteSet(A) /\ Cardinality(A) \in Nat
  BY FS_Subset, FS_CardinalityType
<1>1. 0 \in G
  <2>1. ASSUME NEW A \in SUBSET S, Cardinality(A) = 0 PROVE Good(A)
    <3>1. [i \in 1 .. 0 |-> i] \in [1 .. 0 -> A]
      OBVIOUS
    <3>2. Sorted([i \in 1 .. 0 |-> i])
      BY DEF Sorted
    <3>3. QED
      BY <2>1, <3>1, <3>2
  <2>2. QED
    BY <2>1
<1>2. ASSUME NEW n \in 1 .. Cardinality(S), n - 1 \in G
      PROVE  n \in G
  <2>1. SUFFICES ASSUME NEW A \in SUBSET S, Cardinality(A) = n
                 PROVE  Good(A)
    BY <1>0
  <2>2. PICK m \in A : \A x \in A : x <= m
    <3>1. A # {}
      BY <2>1, FS_EmptySet
    <3>2. A \subseteq Int /\ IsFiniteSet(A)
      BY <1>0
    <3>3. QED
      BY <3>1, <3>2, GreatestOfFinite
  <2>3. A \ {m} \in SUBSET S /\ Cardinality(A \ {m}) = n - 1
    BY <1>0, <2>1, FS_RemoveElement
  <2>4. PICK s \in [1 .. n - 1 -> A \ {m}] : Sorted(s)
    BY <1>2, <2>3
  <2> DEFINE t == [i \in 1 .. n |-> IF i = n THEN m ELSE s[i]]
  <2>5. t \in [1 .. n -> A]
    OBVIOUS
  <2>6. ASSUME NEW i \in 1 .. n, NEW j \in 1 .. n, i < j PROVE t[i] < t[j]
    <3>1. i \in 1 .. n - 1 /\ s[i] \in A \ {m} /\ s[i] <= m /\ s[i] < m
      <4>1. i \in 1 .. n - 1
        BY <2>6
      <4>2. s[i] \in A \ {m} /\ s[i] \in Int /\ m \in Int
        BY <4>1
      <4>3. QED
        BY <2>2, <4>1, <4>2
    <3>2. CASE j = n
      BY <3>1, <3>2
    <3>3. CASE j # n
      <4>1. j \in 1 .. n - 1
        BY <3>3
      <4>2. s[i] < s[j]
        BY <2>4, <2>6, <3>1, <4>1 DEF Sorted
      <4>3. QED
        BY <3>1, <3>3, <4>2
    <3>4. QED
      BY <3>2, <3>3
  <2>7. Sorted(t)
    <3>1. DOMAIN t = 1 .. n
      OBVIOUS
    <3> HIDE DEF t
    <3>2. QED
      BY <2>6, <3>1 DEF Sorted
  <2> HIDE DEF t
  <2>8. QED
    BY <2>1, <2>5, <2>7
<1>3. Cardinality(S) \in Nat /\ Cardinality(S) \in 0 .. Cardinality(S)
  BY <1>0
<1>4. Cardinality(S) \in G
  <2> HIDE DEF G
  <2>1. QED
    BY <1>1, <1>2, <1>3, Induction
<1>5. QED
  BY <1>4

\* What is in order has no repetitions, and so as many as there are is all.
LEMMA SortedIsAll ==
    ASSUME NEW S, S \subseteq Int, IsFiniteSet(S),
           NEW s \in [1 .. Cardinality(S) -> S], Sorted(s)
    PROVE  \A x \in S : \E i \in 1 .. Cardinality(S) : s[i] = x
<1>1. Cardinality(S) \in Nat
  BY FS_CardinalityType
<1>2. ASSUME NEW i \in 1 .. Cardinality(S), NEW j \in 1 .. Cardinality(S), s[i] = s[j]
      PROVE  i = j
  <2>1. s[i] \in Int /\ ~(s[i] < s[j]) /\ ~(s[j] < s[i])
    <3>1. s[i] \in Int
      OBVIOUS
    <3> DEFINE x == s[i]
    <3>2. x \in Int => ~(x < x)
      OBVIOUS
    <3>3. QED
      BY <1>2, <3>1, <3>2
  <2>2. ~(i < j) /\ ~(j < i)
    BY <2>1 DEF Sorted
  <2>3. QED
    BY <1>1, <2>2
<1>3. s \in Injection(1 .. Cardinality(S), S)
  BY <1>2 DEF Injection, IsInjective
<1>4. Cardinality(1 .. Cardinality(S)) = Cardinality(S)
  BY <1>1, FS_Interval
<1>5. s \in Surjection(1 .. Cardinality(S), S)
  BY <1>3, <1>4, FS_Injection
<1>6. QED
  BY <1>5 DEF Surjection

----------------------------------------------------------------------------
(* Loading *)

\* The files of a list of roots are all that are below them.
LEMMA FilesExact ==
    ASSUME NEW l \in Loadable
    PROVE  LET files == DiscoverTopologyFiles(l) IN
           /\ files \in Seq(Paths(l))
           /\ \A p \in Paths(l) : \E i \in 1 .. Len(files) : files[i] = p
<1> DEFINE files == DiscoverTopologyFiles(l)
           n == Cardinality(Paths(l))
<1>1. Paths(l) \subseteq Int /\ IsFiniteSet(Paths(l)) /\ n \in Nat
  BY RegistryAssumption, FS_CardinalityType
<1>2. files \in [1 .. n -> Paths(l)] /\ Sorted(files)
  <2>1. \E s \in [1 .. n -> Paths(l)] : Sorted(s)
    BY <1>1, SortedExists
  <2>2. QED
    BY <2>1 DEF DiscoverTopologyFiles, Sorted
<1>3. \A p \in Paths(l) : \E i \in 1 .. n : files[i] = p
  <2> HIDE DEF files
  <2>1. QED
    BY <1>1, <1>2, SortedIsAll
<1>4. files \in Seq(Paths(l)) /\ Len(files) = n
  <2> HIDE DEF files, n
  <2>1. QED
    BY <1>1, <1>2
<1>5. QED
  BY <1>3, <1>4

\* BuiltFrom is what its recursion says.
LEMMA BuiltFromDefined ==
    ASSUME NEW T, NEW files \in Seq(T)
    PROVE  /\ BuiltFrom(files)[0] = <<>>
           /\ \A n \in 1 .. Len(files) :
                  BuiltFrom(files)[n] = AddFile(BuiltFrom(files)[n - 1], File(files[n]))
<1> DEFINE Body(f, n) == IF n = 0 THEN <<>> ELSE AddFile(f[n - 1], File(files[n]))
           Defined(f, b) == f = [n \in 0 .. b |-> Body(f, n)]
           G == {b \in Nat : \E f : Defined(f, b)}
<1>0. Len(files) \in Nat
  OBVIOUS
<1>1. 0 \in G
  <2> DEFINE f == [n \in 0 .. 0 |-> <<>>]
  <2>1. f = [n \in 0 .. 0 |-> Body(f, n)]
    OBVIOUS
  <2>2. QED
    BY <2>1
<1>2. ASSUME NEW b \in 1 .. Len(files), b - 1 \in G
      PROVE  b \in G
  <2>1. PICK f : Defined(f, b - 1)
    BY <1>2
  <2> DEFINE g == [n \in 0 .. b |-> IF n = b THEN AddFile(f[b - 1], File(files[b])) ELSE f[n]]
  <2>2. ASSUME NEW n \in 0 .. b PROVE g[n] = Body(g, n)
    <3>1. CASE n = b
      BY <3>1
    <3>2. CASE n # b
      <4>1. n \in 0 .. b - 1 /\ (n # 0 => n - 1 \in 0 .. b /\ n - 1 # b)
        BY <3>2
      <4>2. f[n] = Body(f, n)
        BY <2>1, <4>1
      <4>3. n # 0 => g[n - 1] = f[n - 1]
        BY <4>1
      <4>4. QED
        BY <3>2, <4>2, <4>3
    <3>3. QED
      BY <3>1, <3>2
  <2>3. g = [n \in 0 .. b |-> g[n]]
    OBVIOUS
  <2>4. g = [n \in 0 .. b |-> Body(g, n)]
    BY <2>2, <2>3
  <2>5. b \in Nat /\ \E h : Defined(h, b)
    <3> HIDE DEF g
    <3>1. QED
      BY <1>0, <2>4
  <2>6. QED
    BY <2>5
<1>3. \E f : Defined(f, Len(files))
  <2>1. Len(files) \in G
    <3> HIDE DEF G
    <3>1. QED
      BY <1>0, <1>1, <1>2, Induction
  <2>2. QED
    BY <2>1
<1>4. Defined(BuiltFrom(files), Len(files))
  BY <1>3 DEF BuiltFrom
<1>5. QED
  <2> DEFINE f == BuiltFrom(files)
  <2>0. f = [n \in 0 .. Len(files) |-> Body(f, n)]
    BY <1>4
  <2>1. \A n \in 0 .. Len(files) : f[n] = Body(f, n)
    <3> HIDE DEF f, Body
    <3>1. QED
      BY <2>0
  <2> HIDE DEF f
  <2>2. QED
    BY <1>0, <2>1 DEF f
\* What building promises of the entries it makes of a list of roots.
Exact(l, entries) ==
    /\ Paths(l) # {}
    /\ \A p \in Paths(l) : /\ File(p).shape # Malformed
                           /\ Key(File(p).name) \in DOMAIN entries
                           /\ entries[Key(File(p).name)] = File(p)
    /\ \A k \in DOMAIN entries :
           \E p \in Paths(l) : entries[k] = File(p) /\ k = Key(File(p).name)

\* Entries that were there are there as they were.
Kept(old, new) == \A k \in DOMAIN old : new[k] = old[k]

\* A file that is taken is found, and leaves what was found before.
LEMMA FileAdded ==
    ASSUME NEW entries, NEW e, NEW added, added = AddFile(entries, e), added # Failed
    PROVE  /\ entries # Failed /\ e.shape # Malformed
           /\ DOMAIN added = DOMAIN entries \cup {Key(e.name)}
           /\ added[Key(e.name)] = e
           /\ Kept(entries, added)
<1>1. entries # Failed /\ e.shape # Malformed
  BY DEF AddFile, NormalizedName
<1>2. CASE Key(e.name) \notin DOMAIN entries
  <2> DEFINE new == [k \in DOMAIN entries \cup {Key(e.name)} |->
                          IF k = Key(e.name) THEN e ELSE entries[k]]
  <2>1. added = new
    BY <1>1, <1>2 DEF AddFile, NormalizedName
  <2>2. QED
    BY <1>1, <1>2, <2>1 DEF Kept
<1>3. CASE Key(e.name) \in DOMAIN entries
  <2>1. added = entries /\ entries[Key(e.name)] = e
    BY <1>1, <1>3 DEF AddFile, NormalizedName
  <2>2. QED
    BY <1>1, <1>3, <2>1 DEF Kept
<1>4. QED
  BY <1>2, <1>3

\* What is known of the entries after the first n files.
Holds(files, n, entries) ==
    /\ \A i \in 1 .. n : /\ File(files[i]).shape # Malformed
                         /\ Key(File(files[i]).name) \in DOMAIN entries
                         /\ entries[Key(File(files[i]).name)] = File(files[i])
    /\ \A k \in DOMAIN entries :
           \E i \in 1 .. n : /\ entries[k] = File(files[i])
                             /\ k = Key(File(files[i]).name)

\* The next file keeps it.
LEMMA HoldsNext ==
    ASSUME NEW files, NEW n \in Nat \ {0}, NEW old, Holds(files, n - 1, old),
           NEW new, new = AddFile(old, File(files[n])), new # Failed
    PROVE  Holds(files, n, new)
<1> DEFINE entry == File(files[n])
<1>1. /\ entry.shape # Malformed
      /\ DOMAIN new = DOMAIN old \cup {Key(entry.name)}
      /\ new[Key(entry.name)] = entry
      /\ Kept(old, new)
  BY FileAdded
<1>2. ASSUME NEW i \in 1 .. n
      PROVE  /\ File(files[i]).shape # Malformed
             /\ Key(File(files[i]).name) \in DOMAIN new
             /\ new[Key(File(files[i]).name)] = File(files[i])
  <2>1. i = n \/ i \in 1 .. n - 1
    OBVIOUS
  <2>2. QED
    BY <1>1, <2>1 DEF Holds, Kept
<1>3. ASSUME NEW k \in DOMAIN new
      PROVE  \E i \in 1 .. n : new[k] = File(files[i]) /\ k = Key(File(files[i]).name)
  <2>1. CASE k = Key(entry.name)
    BY <1>1, <2>1
  <2>2. CASE k \in DOMAIN old
    <3>1. PICK i \in 1 .. n - 1 : old[k] = File(files[i]) /\ k = Key(File(files[i]).name)
      BY <2>2 DEF Holds
    <3>2. i \in 1 .. n
      OBVIOUS
    <3>3. QED
      BY <1>1, <2>2, <3>1, <3>2 DEF Kept
  <2>3. QED
    BY <1>1, <2>1, <2>2
<1>4. QED
  BY <1>2, <1>3 DEF Holds

\* A registry that can be built is exact.
LEMMA BuildExact ==
    ASSUME NEW l \in Loadable, Registry[l] # Failed
    PROVE  Exact(l, Registry[l])
<1> DEFINE files == DiscoverTopologyFiles(l)
           built == BuiltFrom(files)
           G == {n \in Nat : built[n] = Failed \/ Holds(files, n, built[n])}
<1>1. /\ files \in Seq(Paths(l)) /\ Len(files) \in Nat
      /\ \A p \in Paths(l) : \E i \in 1 .. Len(files) : files[i] = p
      /\ \A i \in 1 .. Len(files) : files[i] \in Paths(l)
  <2>1. /\ files \in Seq(Paths(l))
        /\ \A p \in Paths(l) : \E i \in 1 .. Len(files) : files[i] = p
    BY FilesExact
  <2> HIDE DEF files
  <2>2. QED
    BY <2>1
<1>2. /\ built[0] = <<>>
      /\ \A n \in 1 .. Len(files) : built[n] = AddFile(built[n - 1], File(files[n]))
  <2> HIDE DEF files
  <2>1. QED
    BY <1>1, BuiltFromDefined
<1>3. files # <<>> /\ built[Len(files)] = Registry[l]
  <2>1. Registry[l] = Build(l)
    BY DEF Registry
  <2>2. QED
    BY <2>1 DEF Build
<1> HIDE DEF files, built
<1>4. 0 \in G
  BY <1>2 DEF Holds
<1>5. ASSUME NEW n \in 1 .. Len(files), n - 1 \in G
      PROVE  n \in G
  <2>1. built[n] = AddFile(built[n - 1], File(files[n])) /\ n \in Nat \ {0}
    BY <1>1, <1>2
  <2>2. SUFFICES ASSUME built[n] # Failed PROVE Holds(files, n, built[n])
    BY <2>1
  <2>3. built[n - 1] # Failed
    BY <2>1, <2>2, FileAdded
  <2>4. Holds(files, n - 1, built[n - 1])
    BY <1>5, <2>3
  <2>5. QED
    BY <2>1, <2>2, <2>4, HoldsNext
<1>6. Holds(files, Len(files), built[Len(files)])
  <2>1. Len(files) \in G
    <3> HIDE DEF G
    <3>1. 0 .. Len(files) \subseteq G
      BY <1>1, <1>4, <1>5, Induction
    <3>2. QED
      BY <1>1, <3>1
  <2>2. QED
    BY <1>3, <2>1
<1>7. Paths(l) # {}
  BY <1>1, <1>3
<1>8. QED
  BY <1>1, <1>3, <1>6, <1>7 DEF Exact, Holds
----------------------------------------------------------------------------
(* The invariant *)

Steps == {"idle", "find", "found", "use", "once", "initialize", "copy", "require", "share"}

Typed ==
    /\ configured = <<>> \/ configured \in Loadable
    /\ registry.number \in Nat
    /\ pc \in [Threads -> Steps]
    /\ DOMAIN request = Threads /\ DOMAIN reference = Threads /\ DOMAIN outcome = Threads
    /\ changes \in Nat /\ initializedAt \in 0 .. changes
    /\ began \in [Threads -> 0 .. changes]

\* The registry in place is complete, and of the roots it is said to be of.
Loaded ==
    registry.number # 0 =>
        /\ loadedRoots \in Loadable
        /\ registry.entries = Registry[loadedRoots]
        /\ Registry[loadedRoots] # Failed

\* A call that was answered once since the roots were last set is up to date.
ReferencesSound ==
    \A t \in Threads :
        pc[t] \notin {"idle", "find"} /\ began[t] = changes => UpToDate /\ ~Dangling(t)

\* ... and the entry it found is still there.
EntryFound ==
    \A t \in Threads :
        /\ pc[t] \notin {"idle", "find", "found"} /\ began[t] = changes
        => FindByName(registry.entries, request[t].name) # NoEntry

\* Who initialises holds the flag, and who goes on found it set.
FlagHeldBy ==
    \A t \in Threads :
        /\ pc[t] \in {"initialize", "copy"} => initFlag = t
        /\ pc[t] \in {"require", "share"} => initFlag = "set"
        /\ pc[t] = "copy" /\ initializedAt = changes => UpToDate /\ ~Dangling(t)

\* The shared topologies are those of the registry in place, as long as the
\* roots they were initialised from are.
SharedSound ==
    /\ initFlag # "set" => topologies.sound
    /\ initFlag = "set" /\ initializedAt = changes =>
           UpToDate /\ topologies.sound /\ topologies.shapes = Shapes(registry.entries)

\* Answers about shared topologies are given when these are initialised.
AnswersLate ==
    \A t \in Threads :
        outcome[t].is \in {"undefined topology", "unsupported", "shared"} => initFlag = "set"

IInv ==
    /\ Typed /\ Loaded /\ ReferencesSound /\ EntryFound /\ FlagHeldBy /\ SharedSound
    /\ AnswersLate /\ ReferencesLast /\ SharedAgrees

\* What the parts of IInv but Typed and Loaded say of the thread t.
ThreadSound(t) ==
    /\ pc[t] \notin {"idle", "find"} /\ began[t] = changes => UpToDate /\ ~Dangling(t)
    /\ /\ pc[t] \notin {"idle", "find", "found"} /\ began[t] = changes
       => FindByName(registry.entries, request[t].name) # NoEntry
    /\ pc[t] \in {"initialize", "copy"} => initFlag = t
    /\ pc[t] \in {"require", "share"} => initFlag = "set"
    /\ pc[t] = "copy" /\ initializedAt = changes => UpToDate /\ ~Dangling(t)
    /\ outcome[t].is \in {"undefined topology", "unsupported", "shared"} => initFlag = "set"
    /\ outcome[t].is = "undefined" => began[t] < changes
    /\ outcome[t].is = "undefined topology" => initializedAt < changes
    /\ \/ outcome[t].is = "unsupported"
       \/ outcome[t].is = "shared" /\ outcome[t].shape # outcome[t].expected
       => began[t] < changes \/ initializedAt < changes

LEMMA ByThread ==
    IInv <=> Typed /\ Loaded /\ SharedSound /\ \A t \in Threads : ThreadSound(t)
BY DEF IInv, ReferencesSound, EntryFound, FlagHeldBy, AnswersLate, ReferencesLast, SharedAgrees,
       ThreadSound

LEMMA ByThreadAfter ==
    ASSUME Typed', Loaded', SharedSound', \A t \in Threads : ThreadSound(t)'
    PROVE  IInv'
BY DEF IInv, ReferencesSound, EntryFound, FlagHeldBy, AnswersLate, ReferencesLast, SharedAgrees,
       ThreadSound

\* The roots that are in force can be loaded or tried.
LEMMA RootsLoadable == Typed => TopologySearchRoots \in Loadable
BY DEF Typed, TopologySearchRoots, Loadable

----------------------------------------------------------------------------
(* Steps of the registry *)

\* The answer of instance() is a reference to a registry that is up to date;
\* one that was up to date stays.
LEMMA InstanceAnswers ==
    ASSUME Typed, Loaded, NEW t \in Threads, Instance(t), UNCHANGED configured
    PROVE  /\ UpToDate' /\ ~Dangling(t)'
           /\ Loaded' /\ registry'.number \in Nat /\ DOMAIN reference' = Threads
           /\ UpToDate => UNCHANGED <<registry, loadedRoots>>
           /\ \A u \in Threads \ {t} : reference'[u] = reference[u]
<1>1. TopologySearchRoots \in Loadable /\ TopologySearchRoots' = TopologySearchRoots
  BY RootsLoadable DEF TopologySearchRoots
<1>2. CASE UpToDate
  <2>1. /\ reference' = [reference EXCEPT ![t] = registry.number]
        /\ UNCHANGED <<registry, loadedRoots>>
    BY <1>2 DEF Instance
  <2>2. QED
    BY <1>1, <1>2, <2>1 DEF UpToDate, Dangling, Loaded, Typed
<1>3. CASE ~UpToDate
  <2>1. /\ Registry[TopologySearchRoots] # Failed
        /\ registry' = [number |-> registry.number + 1, entries |-> Registry[TopologySearchRoots]]
        /\ loadedRoots' = TopologySearchRoots
        /\ reference' = [reference EXCEPT ![t] = registry.number + 1]
    BY <1>3 DEF Instance, LoadedRoots
  <2>2. registry.number \in Nat /\ DOMAIN reference = Threads
    BY DEF Typed
  <2>3. /\ registry'.number = registry.number + 1 /\ registry'.number # 0
        /\ registry'.entries = Registry[TopologySearchRoots]
    BY <2>1, <2>2
  <2>4. UpToDate' /\ ~Dangling(t)'
    BY <1>1, <2>1, <2>2, <2>3 DEF UpToDate, Dangling
  <2>5. Loaded'
    BY <1>1, <2>1, <2>3 DEF Loaded, Registry
  <2>6. QED
    BY <1>3, <2>1, <2>2, <2>3, <2>4, <2>5
<1>4. QED
  BY <1>2, <1>3
----------------------------------------------------------------------------
(* Steps of the threads *)

\* The other threads are where they were, and what they rely on stays: a
\* registry that is up to date is not replaced, and the flag and the time of
\* the initialisation change only while it is free or held by t.
LEMMA OthersKeep ==
    ASSUME IInv, NEW t \in Threads, NEW u \in Threads \ {t},
           UNCHANGED roots,
           pc'[u] = pc[u], request'[u] = request[u], reference'[u] = reference[u],
           outcome'[u] = outcome[u],
           UpToDate => UNCHANGED <<registry, loadedRoots>>,
           UNCHANGED <<initFlag, initializedAt>> \/ initFlag \in {"unset", t}
    PROVE  ThreadSound(u)'
<1>1. ThreadSound(u)
  BY ByThread
<1>2. configured' = configured /\ changes' = changes /\ began' = began
  BY DEF roots
<1>3. UpToDate => UpToDate' /\ registry' = registry
  BY <1>2 DEF UpToDate, TopologySearchRoots
<1>4. UpToDate /\ ~Dangling(u) => UpToDate' /\ ~Dangling(u)'
  BY <1>3 DEF Dangling
<1>5. pc[u] \notin {"idle", "find"} /\ began[u] = changes => UpToDate /\ ~Dangling(u)
  BY <1>1 DEF ThreadSound
<1>6. pc'[u] \notin {"idle", "find"} /\ began'[u] = changes' => UpToDate' /\ ~Dangling(u)'
  BY <1>2, <1>4, <1>5
<1>7. ASSUME pc'[u] \notin {"idle", "find", "found"}, began'[u] = changes'
      PROVE  FindByName(registry'.entries, request'[u].name) # NoEntry
  <2>1. UpToDate
    BY <1>2, <1>5, <1>7
  <2>2. FindByName(registry.entries, request[u].name) # NoEntry
    BY <1>1, <1>2, <1>7 DEF ThreadSound
  <2>3. QED
    BY <1>3, <2>1, <2>2
<1>8. CASE UNCHANGED <<initFlag, initializedAt>>
  <2>1. pc'[u] = "copy" /\ initializedAt' = changes' => UpToDate' /\ ~Dangling(u)'
    BY <1>1, <1>2, <1>4, <1>8 DEF ThreadSound
  <2>2. QED
    BY <1>1, <1>2, <1>6, <1>7, <1>8, <2>1 DEF ThreadSound
<1>9. CASE initFlag \in {"unset", t}
  <2>1. initFlag # u /\ initFlag # "set"
    BY <1>9, RegistryAssumption
  <2>2. /\ pc[u] \notin {"initialize", "copy", "require", "share"}
        /\ outcome[u].is \notin {"undefined topology", "unsupported", "shared"}
    BY <1>1, <2>1 DEF ThreadSound
  <2>3. outcome[u].is = "undefined" => began[u] < changes
    BY <1>1 DEF ThreadSound
  <2>4. QED
    BY <1>2, <1>6, <1>7, <2>2, <2>3 DEF ThreadSound
<1>10. QED
  BY <1>8, <1>9

\* Shared topologies that stay as they are stay sound.
LEMMA SharedKept ==
    ASSUME IInv, UNCHANGED roots, UNCHANGED shared,
           UpToDate => UNCHANGED <<registry, loadedRoots>>
    PROVE  SharedSound'
<1>1. configured' = configured /\ changes' = changes
  BY DEF roots
<1>2. /\ topologies' = topologies /\ initFlag' = initFlag
      /\ initializedAt' = initializedAt
  BY DEF shared
<1>3. UpToDate => UpToDate' /\ registry' = registry
  BY <1>1 DEF UpToDate, TopologySearchRoots
<1>4. QED
  BY <1>1, <1>2, <1>3 DEF IInv, SharedSound

\* What an answer may say.
Fair(t, result) ==
    /\ result.is \in {"undefined topology", "unsupported", "shared"} => initFlag = "set"
    /\ result.is = "undefined" => began[t] < changes
    /\ result.is = "undefined topology" => initializedAt < changes
    /\ \/ result.is = "unsupported"
       \/ result.is = "shared" /\ result.shape # result.expected
       => began[t] < changes \/ initializedAt < changes

\* A call that ends leaves nothing behind but a fair answer.
LEMMA EndKeeps ==
    ASSUME IInv, NEW t \in Threads, NEW result, Ends(t, result), Fair(t, result),
           UNCHANGED <<roots, registry, loadedRoots, shared>>
    PROVE  IInv'
<1>1. /\ pc' = [pc EXCEPT ![t] = "idle"]
      /\ outcome' = [outcome EXCEPT ![t] = result]
      /\ request' = [request EXCEPT ![t] = NoRequest]
      /\ reference' = [reference EXCEPT ![t] = 0]
      /\ UNCHANGED <<configured, changes, began, registry, loadedRoots, topologies, initFlag,
                     initializedAt>>
  BY DEF Ends, Goto, roots, shared
<1>2. Typed
  BY DEF IInv
<1>3. Typed'
  BY <1>1, <1>2 DEF Typed, Steps
<1>4. Loaded'
  BY <1>1 DEF IInv, Loaded
<1>5. SharedSound'
  BY SharedKept
<1>6. ASSUME NEW u \in Threads \ {t} PROVE ThreadSound(u)'
  BY <1>1, <1>2, OthersKeep DEF Typed
<1>7. ThreadSound(t)'
  <2>1. pc'[t] = "idle" /\ outcome'[t] = result
    BY <1>1, <1>2 DEF Typed
  <2>2. Fair(t, result)'
    BY <1>1 DEF Fair
  <2>3. QED
    BY <2>1, <2>2 DEF ThreadSound, Fair
<1>8. QED
  BY <1>3, <1>4, <1>5, <1>6, <1>7, ByThreadAfter

\* An answer without a shape is fair.
LEMMA ThrowKeeps ==
    ASSUME IInv, NEW t \in Threads, Throw(t), UNCHANGED <<roots, shared>>
    PROVE  IInv'
BY EndKeeps DEF Throw, Fair, Result

\* instance() answers, and the call goes on.
LEMMA InstanceKeeps ==
    ASSUME IInv, NEW t \in Threads, NEW step \in {"found", "share"},
           \/ step = "found" /\ pc[t] = "find"
           \/ step = "share" /\ pc[t] = "require",
           Instance(t), Goto(t, step), UNCHANGED <<roots, shared, request, outcome>>
    PROVE  IInv'
<1>1. /\ pc' = [pc EXCEPT ![t] = step]
      /\ UNCHANGED <<configured, changes, began, topologies, initFlag, initializedAt, request,
                     outcome>>
  BY DEF Goto, roots, shared
<1>2. Typed /\ Loaded /\ ThreadSound(t)
  BY ByThread
<1>3. /\ UpToDate' /\ ~Dangling(t)'
      /\ Loaded' /\ registry'.number \in Nat /\ DOMAIN reference' = Threads
      /\ UpToDate => UNCHANGED <<registry, loadedRoots>>
      /\ \A u \in Threads \ {t} : reference'[u] = reference[u]
  BY <1>1, <1>2, InstanceAnswers
<1>4. Typed'
  BY <1>1, <1>2, <1>3 DEF Typed, Steps
<1>5. SharedSound'
  BY <1>3, SharedKept
<1>6. ASSUME NEW u \in Threads \ {t} PROVE ThreadSound(u)'
  <2>1. pc'[u] = pc[u]
    BY <1>1, <1>2 DEF Typed
  <2>2. QED
    BY <1>1, <1>3, <2>1, OthersKeep
<1>7. ThreadSound(t)'
  <2>1. pc'[t] = step
    BY <1>1, <1>2 DEF Typed
  <2>2. pc'[t] \notin {"idle", "find", "found"} /\ began[t] = changes =>
            FindByName(registry'.entries, request[t].name) # NoEntry
    <3>1. SUFFICES ASSUME step = "share", pc[t] = "require", began[t] = changes
                   PROVE  FindByName(registry'.entries, request[t].name) # NoEntry
      BY <2>1
    <3>2. UpToDate /\ FindByName(registry.entries, request[t].name) # NoEntry
      BY <1>2, <3>1 DEF ThreadSound
    <3>3. QED
      BY <1>3, <3>2
  <2>3. step = "share" => initFlag = "set"
    BY <1>2 DEF ThreadSound
  <2>4. QED
    BY <1>1, <1>2, <1>3, <2>1, <2>2, <2>3 DEF ThreadSound
<1>8. QED
  BY <1>3, <1>4, <1>5, <1>6, <1>7, ByThreadAfter
----------------------------------------------------------------------------
(* Each action keeps the invariant *)

\* A thread that goes on without asking for the registry.
LEMMA GotoEffect ==
    ASSUME IInv, NEW t \in Threads, NEW step \in Steps, Goto(t, step)
    PROVE  /\ pc' \in [Threads -> Steps] /\ pc'[t] = step
           /\ \A u \in Threads \ {t} : pc'[u] = pc[u]
BY DEF Goto, IInv, Typed

LEMMA SetRootsKeeps ==
    ASSUME IInv, NEW t \in Threads, NEW list \in RootLists,
           SetCrystalTopologySearchRoots(t, list)
    PROVE  IInv'
<1>1. /\ configured' = NormalizeSearchRoots(list) /\ changes' = changes + 1
      /\ UNCHANGED <<registry, loadedRoots, topologies, initFlag, initializedAt, pc, request,
                     reference, outcome, began>>
  BY DEF SetCrystalTopologySearchRoots, shared
<1>2. Typed /\ \A u \in Threads : ThreadSound(u)
  BY ByThread
<1>3. Typed'
  <2>1. configured' \in Loadable
    BY <1>1 DEF Loadable
  <2>2. \A u \in Threads : began[u] \in 0 .. changes + 1
    BY <1>2 DEF Typed
  <2>3. QED
    BY <1>1, <1>2, <2>1, <2>2 DEF Typed
<1>4. Loaded'
  BY <1>1 DEF IInv, Loaded
<1>5. initializedAt' < changes' /\ \A u \in Threads : began'[u] < changes'
  BY <1>1, <1>2 DEF Typed
<1>6. SharedSound'
  BY <1>1, <1>5 DEF IInv, SharedSound
<1>7. ASSUME NEW u \in Threads PROVE ThreadSound(u)'
  <2>1. began'[u] < changes' /\ began'[u] # changes' /\ initializedAt' # changes'
    BY <1>1, <1>2 DEF Typed
  <2>2. ThreadSound(u)
    BY <1>2
  <2>3. QED
    BY <1>1, <1>5, <2>1, <2>2 DEF ThreadSound
<1>8. QED
  BY <1>3, <1>4, <1>6, <1>7, ByThreadAfter

LEMMA BeginKeeps ==
    ASSUME IInv, NEW t \in Threads, NEW kind, NEW name, Begin(t, kind, name)
    PROVE  IInv'
<1>1. /\ request' = [request EXCEPT ![t] = [kind |-> kind, name |-> name]]
      /\ began' = [began EXCEPT ![t] = changes]
      /\ outcome' = [outcome EXCEPT ![t] = Result("none", NoShape, NoShape)]
      /\ UNCHANGED <<configured, changes, registry, loadedRoots, topologies, initFlag,
                     initializedAt, reference>>
  BY DEF Begin, shared
<1>2. Typed /\ \A u \in Threads : ThreadSound(u)
  BY ByThread
<1>3. /\ pc' \in [Threads -> Steps] /\ pc'[t] = "find"
      /\ \A u \in Threads \ {t} : pc'[u] = pc[u]
  BY GotoEffect DEF Begin, Steps
<1>4. Typed'
  BY <1>1, <1>2, <1>3 DEF Typed
<1>5. Loaded'
  BY <1>1 DEF IInv, Loaded
<1>6. UpToDate' = UpToDate /\ \A u \in Threads : Dangling(u)' = Dangling(u)
  BY <1>1 DEF UpToDate, TopologySearchRoots, Dangling
<1>7. SharedSound'
  BY <1>1, <1>6 DEF IInv, SharedSound
<1>8. ASSUME NEW u \in Threads \ {t} PROVE ThreadSound(u)'
  <2>1. request'[u] = request[u] /\ began'[u] = began[u] /\ outcome'[u] = outcome[u]
    BY <1>1, <1>2 DEF Typed
  <2>2. QED
    BY <1>1, <1>2, <1>3, <1>6, <2>1 DEF ThreadSound
<1>9. ThreadSound(t)'
  <2>1. outcome'[t].is = "none"
    BY <1>1, <1>2 DEF Typed, Result
  <2>2. QED
    BY <1>3, <2>1 DEF ThreadSound
<1>10. QED
  BY <1>4, <1>5, <1>7, <1>8, <1>9, ByThreadAfter

LEMMA FindKeeps ==
    ASSUME IInv, NEW t \in Threads, Find(t)
    PROVE  IInv'
<1>1. CASE Instance(t) /\ Goto(t, "found") /\ UNCHANGED <<request, outcome>>
  BY <1>1, InstanceKeeps DEF Find
<1>2. CASE Throw(t)
  BY <1>2, ThrowKeeps DEF Find
<1>3. QED
  BY <1>1, <1>2 DEF Find

LEMMA RequireKeeps ==
    ASSUME IInv, NEW t \in Threads, Require(t)
    PROVE  IInv'
<1>1. CASE Instance(t) /\ Goto(t, "share") /\ UNCHANGED <<request, outcome>>
  BY <1>1, InstanceKeeps DEF Require
<1>2. CASE Throw(t)
  BY <1>2, ThrowKeeps DEF Require
<1>3. QED
  BY <1>1, <1>2 DEF Require

\* A reference that is bad was taken before the roots were set.
LEMMA DanglingLate ==
    ASSUME IInv, NEW t \in Threads, Dangling(t), pc[t] \notin {"idle", "find"}
    PROVE  began[t] < changes
<1>1. began[t] # changes /\ began[t] \in 0 .. changes /\ changes \in Nat
  BY DEF IInv, ReferencesSound, Typed
<1>2. QED
  BY <1>1

LEMMA FoundKeeps ==
    ASSUME IInv, NEW t \in Threads, Found(t)
    PROVE  IInv'
<1> DEFINE entry == FindByName(registry.entries, request[t].name)
<1>1. CASE Dangling(t) /\ Ends(t, Result("undefined", NoShape, NoShape))
  <2>1. Fair(t, Result("undefined", NoShape, NoShape))
    BY <1>1, DanglingLate DEF Found, Fair, Result
  <2>2. QED
    BY <1>1, <2>1, EndKeeps DEF Found
<1>2. CASE Ends(t, Result("null", NoShape, NoShape))
  BY <1>2, EndKeeps DEF Found, Fair, Result
<1>3. CASE /\ ~Dangling(t) /\ entry # NoEntry
           /\ Goto(t, IF request[t].kind = "find" THEN "use" ELSE "once")
           /\ UNCHANGED <<request, reference, outcome>>
  <2>1. /\ pc[t] = "found" /\ UNCHANGED roots /\ UNCHANGED shared
        /\ UNCHANGED <<registry, loadedRoots>>
    BY DEF Found
  <2>2. PICK step \in {"use", "once"} : Goto(t, step)
    BY <1>3
  <2>3. /\ pc' \in [Threads -> Steps] /\ pc'[t] = step
        /\ \A u \in Threads \ {t} : pc'[u] = pc[u]
    BY <2>2, GotoEffect DEF Steps
  <2>4. UNCHANGED <<configured, changes, began, topologies, initFlag, initializedAt>>
    BY <2>1 DEF roots, shared
  <2>5. Typed' /\ Loaded'
    BY <1>3, <2>1, <2>3, <2>4 DEF IInv, Typed, Loaded
  <2>6. SharedSound'
    BY <2>1, SharedKept
  <2>7. ASSUME NEW u \in Threads \ {t} PROVE ThreadSound(u)'
    BY <1>3, <2>1, <2>3, <2>4, OthersKeep
  <2>8. ThreadSound(t)'
    <3>1. UpToDate' = UpToDate /\ Dangling(t)' = Dangling(t)
      BY <1>3, <2>1, <2>4 DEF UpToDate, TopologySearchRoots, Dangling
    <3>2. ThreadSound(t)
      BY ByThread
    <3>3. QED
      BY <1>3, <2>1, <2>3, <2>4, <3>1, <3>2 DEF ThreadSound
  <2>9. QED
    BY <2>5, <2>6, <2>7, <2>8, ByThreadAfter
<1>4. QED
  BY <1>1, <1>2, <1>3 DEF Found

LEMMA UseKeeps ==
    ASSUME IInv, NEW t \in Threads, Use(t)
    PROVE  IInv'
<1>1. CASE Dangling(t)
  <2>1. Ends(t, Result("undefined", NoShape, NoShape))
    BY <1>1 DEF Use
  <2>2. Fair(t, Result("undefined", NoShape, NoShape))
    BY <1>1, DanglingLate DEF Use, Fair, Result
  <2>3. QED
    BY <2>1, <2>2, EndKeeps DEF Use
<1>2. CASE ~Dangling(t)
  <2>1. PICK x : Ends(t, Result("entry", x, x))
    BY <1>2 DEF Use
  <2>2. QED
    BY <2>1, EndKeeps DEF Use, Fair, Result
<1>3. QED
  BY <1>1, <1>2

LEMMA CallOnceKeeps ==
    ASSUME IInv, NEW t \in Threads, CallOnce(t)
    PROVE  IInv'
<1>1. /\ pc[t] = "once"
      /\ UNCHANGED <<configured, changes, began, registry, loadedRoots, request, reference,
                     outcome, topologies, initializedAt>>
  BY DEF CallOnce, roots
<1>2. PICK step \in {"require", "initialize"} :
          /\ Goto(t, step)
          /\ \/ step = "require" /\ initFlag = "set" /\ initFlag' = initFlag
             \/ step = "initialize" /\ initFlag = "unset" /\ initFlag' = t
  BY DEF CallOnce
<1>3. /\ pc' \in [Threads -> Steps] /\ pc'[t] = step
      /\ \A u \in Threads \ {t} : pc'[u] = pc[u]
  BY <1>2, GotoEffect DEF Steps
<1>4. Typed' /\ Loaded'
  BY <1>1, <1>3 DEF IInv, Typed, Loaded
<1>5. UpToDate' = UpToDate /\ Dangling(t)' = Dangling(t)
  BY <1>1 DEF UpToDate, TopologySearchRoots, Dangling
<1>6. initFlag' = "set" <=> initFlag = "set"
  BY <1>2, RegistryAssumption
<1>7. SharedSound'
  BY <1>1, <1>5, <1>6 DEF IInv, SharedSound
<1>8. ASSUME NEW u \in Threads \ {t} PROVE ThreadSound(u)'
  BY <1>1, <1>2, <1>3, OthersKeep DEF roots
<1>9. ThreadSound(t)'
  <2>1. ThreadSound(t)
    BY ByThread
  <2>2. QED
    BY <1>1, <1>2, <1>3, <1>5, <1>6, <2>1 DEF ThreadSound
<1>10. QED
  BY <1>4, <1>7, <1>8, <1>9, ByThreadAfter

LEMMA InitializeKeeps ==
    ASSUME IInv, NEW t \in Threads, Initialize(t)
    PROVE  IInv'
<1>1. /\ pc[t] = "initialize" /\ initFlag = t /\ initFlag # "set"
      /\ UNCHANGED <<configured, changes, began, topologies>>
  BY RegistryAssumption DEF Initialize, roots, IInv, FlagHeldBy
<1>2. Typed /\ Loaded /\ ThreadSound(t) /\ topologies.sound
  BY <1>1, ByThread DEF SharedSound
<1>3. CASE /\ Instance(t) /\ Goto(t, "copy") /\ initializedAt' = changes
           /\ UNCHANGED <<request, outcome, initFlag>>
  <2>1. /\ UpToDate' /\ ~Dangling(t)'
        /\ Loaded' /\ registry'.number \in Nat /\ DOMAIN reference' = Threads
        /\ UpToDate => UNCHANGED <<registry, loadedRoots>>
        /\ \A u \in Threads \ {t} : reference'[u] = reference[u]
    BY <1>1, <1>2, <1>3, InstanceAnswers
  <2>2. /\ pc' \in [Threads -> Steps] /\ pc'[t] = "copy"
        /\ \A u \in Threads \ {t} : pc'[u] = pc[u]
    BY <1>3, GotoEffect DEF Steps
  <2>3. Typed'
    BY <1>1, <1>2, <1>3, <2>1, <2>2 DEF Typed
  <2>4. SharedSound'
    BY <1>1, <1>2, <1>3 DEF SharedSound
  <2>5. ASSUME NEW u \in Threads \ {t} PROVE ThreadSound(u)'
    BY <1>1, <1>3, <2>1, <2>2, OthersKeep DEF roots
  <2>6. ThreadSound(t)'
    <3>1. began[t] = changes => FindByName(registry'.entries, request[t].name) # NoEntry
      BY <1>1, <1>2, <2>1 DEF ThreadSound
    <3>2. outcome[t].is \notin {"undefined topology", "unsupported", "shared"}
      BY <1>1, <1>2 DEF ThreadSound
    <3>3. QED
      BY <1>1, <1>2, <1>3, <2>1, <2>2, <3>1, <3>2 DEF ThreadSound
  <2>7. QED
    BY <2>1, <2>3, <2>4, <2>5, <2>6, ByThreadAfter
<1>4. CASE Throw(t) /\ initFlag' = "unset" /\ UNCHANGED initializedAt
  <2>1. /\ pc' = [pc EXCEPT ![t] = "idle"]
        /\ outcome' = [outcome EXCEPT ![t] = Result("threw", NoShape, NoShape)]
        /\ request' = [request EXCEPT ![t] = NoRequest]
        /\ reference' = [reference EXCEPT ![t] = 0]
        /\ UNCHANGED <<registry, loadedRoots>>
    BY <1>4 DEF Throw, Ends, Goto
  <2>2. Typed' /\ Loaded'
    BY <1>1, <1>2, <1>4, <2>1 DEF Typed, Loaded, Steps
  <2>3. SharedSound'
    BY <1>1, <1>2, <1>4 DEF SharedSound
  <2>4. ASSUME NEW u \in Threads \ {t} PROVE ThreadSound(u)'
    BY <1>1, <1>2, <2>1, OthersKeep DEF roots, Typed
  <2>5. ThreadSound(t)'
    <3>1. pc'[t] = "idle" /\ outcome'[t].is = "threw"
      BY <1>2, <2>1 DEF Typed, Result
    <3>2. QED
      BY <3>1 DEF ThreadSound
  <2>6. QED
    BY <2>2, <2>3, <2>4, <2>5, ByThreadAfter
<1>5. QED
  BY <1>3, <1>4 DEF Initialize, FlagAfterThrow

LEMMA CopyEntriesKeeps ==
    ASSUME IInv, NEW t \in Threads, CopyEntries(t)
    PROVE  IInv'
<1>1. /\ pc[t] = "copy" /\ initFlag = t /\ initFlag # "set" /\ initFlag' = "set"
      /\ UNCHANGED <<configured, changes, began, registry, loadedRoots, request, reference,
                     outcome, initializedAt>>
  BY RegistryAssumption DEF CopyEntries, roots, IInv, FlagHeldBy
<1>2. Typed /\ ThreadSound(t)
  BY ByThread
<1>3. /\ topologies'.sound = ~Dangling(t)
      /\ ~Dangling(t) => topologies'.shapes = Shapes(registry.entries)
  BY DEF CopyEntries
<1>4. /\ pc' \in [Threads -> Steps] /\ pc'[t] = "require"
      /\ \A u \in Threads \ {t} : pc'[u] = pc[u]
  BY GotoEffect DEF CopyEntries, Steps
<1>5. Typed' /\ Loaded'
  BY <1>1, <1>2, <1>4 DEF IInv, Typed, Loaded
<1>6. UpToDate' = UpToDate /\ Dangling(t)' = Dangling(t)
  BY <1>1 DEF UpToDate, TopologySearchRoots, Dangling
<1>7. initializedAt = changes => UpToDate /\ ~Dangling(t)
  BY <1>1, <1>2 DEF ThreadSound
<1>8. SharedSound'
  BY <1>1, <1>3, <1>6, <1>7 DEF SharedSound
<1>9. ASSUME NEW u \in Threads \ {t} PROVE ThreadSound(u)'
  BY <1>1, <1>4, OthersKeep DEF roots
<1>10. ThreadSound(t)'
  BY <1>1, <1>2, <1>4, <1>6 DEF ThreadSound
<1>11. QED
  BY <1>5, <1>8, <1>9, <1>10, ByThreadAfter

\* The topologies of a registry that is exact have the shape of each entry that
\* is found, under the name it has in its file.
LEMMA ShapesExact ==
    ASSUME NEW l \in Loadable, NEW entries, Exact(l, entries),
           NEW name, FindByName(entries, name) # NoEntry
    PROVE  LET entry == FindByName(entries, name) IN
           /\ entry.name \in DOMAIN Shapes(entries)
           /\ Shapes(entries)[entry.name] = entry.shape
<1> DEFINE entry == FindByName(entries, name)
<1>1. Key(name) \in DOMAIN entries /\ entry = entries[Key(name)]
  BY DEF FindByName
<1>2. Key(entry.name) = Key(name)
  BY <1>1 DEF Exact
<1>3. FindByName(entries, entry.name) = entry
  BY <1>1, <1>2 DEF FindByName
<1> HIDE DEF entry
<1>4. QED
  BY <1>1, <1>3 DEF Shapes, entry

LEMMA ShareKeeps ==
    ASSUME IInv, NEW t \in Threads, Share(t)
    PROVE  IInv'
<1> DEFINE entry == FindByName(registry.entries, request[t].name)
<1>1. pc[t] = "share" /\ UNCHANGED <<roots, registry, loadedRoots, shared>>
  BY DEF Share
<1>2. Typed /\ Loaded /\ SharedSound /\ ThreadSound(t)
  BY ByThread
<1>3. initFlag = "set"
  BY <1>1, <1>2 DEF ThreadSound
<1>4. CASE Dangling(t)
  <2>1. Ends(t, Result("undefined", NoShape, NoShape))
    BY <1>4 DEF Share
  <2>2. Fair(t, Result("undefined", NoShape, NoShape))
    BY <1>1, <1>4, DanglingLate DEF Fair, Result
  <2>3. QED
    BY <1>1, <2>1, <2>2, EndKeeps
<1>5. CASE ~Dangling(t) /\ ~topologies.sound
  <2>1. Ends(t, Result("undefined topology", NoShape, NoShape))
    BY <1>5 DEF Share
  <2>2. initializedAt < changes
    BY <1>2, <1>3, <1>5 DEF SharedSound, Typed
  <2>3. Fair(t, Result("undefined topology", NoShape, NoShape))
    BY <1>3, <2>2 DEF Fair, Result
  <2>4. QED
    BY <1>1, <2>1, <2>3, EndKeeps
<1>6. CASE ~Dangling(t) /\ topologies.sound
  <2>1. \/ began[t] < changes \/ initializedAt < changes
        \/ /\ entry # NoEntry /\ entry.name \in DOMAIN topologies.shapes
           /\ topologies.shapes[entry.name] = entry.shape
    <3>1. SUFFICES ASSUME began[t] = changes, initializedAt = changes
                   PROVE  /\ entry # NoEntry /\ entry.name \in DOMAIN topologies.shapes
                          /\ topologies.shapes[entry.name] = entry.shape
      BY <1>2 DEF Typed
    <3>2. UpToDate /\ entry # NoEntry /\ topologies.shapes = Shapes(registry.entries)
      BY <1>1, <1>2, <1>3, <3>1 DEF ThreadSound, SharedSound
    <3>3. loadedRoots \in Loadable /\ Exact(loadedRoots, registry.entries)
      BY <1>2, <3>2, BuildExact DEF Loaded, UpToDate
    <3>4. /\ entry.name \in DOMAIN Shapes(registry.entries)
          /\ Shapes(registry.entries)[entry.name] = entry.shape
      BY <3>2, <3>3, ShapesExact
    <3>5. QED
      BY <3>2, <3>4
  <2>2. CASE entry = NoEntry \/ entry.name \notin DOMAIN topologies.shapes
    <3>1. Ends(t, Result("unsupported", NoShape, NoShape))
      BY <1>6, <2>2 DEF Share, NameOf
    <3>2. Fair(t, Result("unsupported", NoShape, NoShape))
      BY <1>3, <2>1, <2>2 DEF Fair, Result
    <3>3. QED
      BY <1>1, <3>1, <3>2, EndKeeps
  <2>3. CASE entry # NoEntry /\ entry.name \in DOMAIN topologies.shapes
    <3> DEFINE result == Result("shared", topologies.shapes[entry.name], entry.shape)
    <3>1. Ends(t, result)
      BY <1>6, <2>3 DEF Share, NameOf
    <3>2. Fair(t, result)
      BY <1>3, <2>1, <2>3 DEF Fair, Result
    <3> HIDE DEF result
    <3>3. QED
      BY <1>1, <3>1, <3>2, EndKeeps
  <2>4. QED
    BY <2>2, <2>3
<1>7. QED
  BY <1>4, <1>5, <1>6

----------------------------------------------------------------------------
(* Theorems *)

LEMMA InitSound == Init => IInv
<1>1. SUFFICES ASSUME Init PROVE IInv
  OBVIOUS
<1>2. Typed
  BY <1>1 DEF Init, Typed, Steps
<1>3. Loaded
  BY <1>1 DEF Init, Loaded
<1>4. \A t \in Threads : pc[t] = "idle" /\ outcome[t].is = "none"
  BY <1>1 DEF Init, Result
<1>5. SharedSound
  BY <1>1 DEF Init, SharedSound
<1>6. \A t \in Threads : ThreadSound(t)
  BY <1>4 DEF ThreadSound
<1>7. QED
  BY <1>2, <1>3, <1>5, <1>6, ByThread

LEMMA NextKeeps == IInv /\ [Next]_vars => IInv'
<1>1. SUFFICES ASSUME IInv, [Next]_vars PROVE IInv'
  OBVIOUS
<1>2. ASSUME NEW t \in Threads, NEW list \in RootLists, SetCrystalTopologySearchRoots(t, list)
      PROVE  IInv'
  BY <1>1, <1>2, SetRootsKeeps
<1>3. ASSUME NEW t \in Threads, NEW kind, NEW name, Begin(t, kind, name)
      PROVE  IInv'
  BY <1>1, <1>3, BeginKeeps
<1>4. ASSUME NEW t \in Threads, Step(t) PROVE IInv'
  BY <1>1, <1>4, FindKeeps, FoundKeeps, UseKeeps, CallOnceKeeps, InitializeKeeps,
     CopyEntriesKeeps, RequireKeeps, ShareKeeps DEF Step
<1>5. CASE UNCHANGED vars
  <2>1. UNCHANGED <<configured, registry, loadedRoots, topologies, initFlag, pc, request,
                    reference, outcome, changes, began, initializedAt>>
    BY <1>5 DEF vars
  <2>2. UpToDate' = UpToDate /\ \A u \in Threads : Dangling(u)' = Dangling(u)
    BY <2>1 DEF UpToDate, TopologySearchRoots, Dangling
  <2>3. Typed /\ Loaded /\ SharedSound /\ \A u \in Threads : ThreadSound(u)
    BY <1>1, ByThread
  <2>4. Typed' /\ Loaded' /\ SharedSound'
    BY <2>1, <2>2, <2>3 DEF Typed, Loaded, SharedSound
  <2>5. \A u \in Threads : ThreadSound(u)'
    BY <2>1, <2>2, <2>3 DEF ThreadSound
  <2>6. QED
    BY <2>4, <2>5, ByThreadAfter
<1>6. QED
  BY <1>1, <1>2, <1>3, <1>4, <1>5 DEF Next

\* Threads, calls, references and roots are what they should be, and what every
\* thread may rely on holds, at all times.
THEOREM InvariantCorrect == Spec => []IInv
BY InitSound, NextKeeps, PTL DEF Spec

\* A registry that a load has put in place holds one entry for each name that
\* the files below its roots define, found under every spelling of it.
THEOREM LookupCorrect == Spec => []LookupExact
<1>1. IInv => LookupExact
  <2>1. SUFFICES ASSUME Loaded, registry.number # 0
                 PROVE  LET paths == Paths(loadedRoots) IN
                        /\ paths # {}
                        /\ \A p \in paths :
                               /\ File(p).shape # Malformed
                               /\ FindByName(registry.entries, File(p).name) = File(p)
                        /\ {registry.entries[k] : k \in DOMAIN registry.entries}
                               = {File(p) : p \in paths}
    BY DEF IInv, LookupExact
  <2>2. Exact(loadedRoots, registry.entries)
    BY <2>1, BuildExact DEF Loaded
  <2>3. \A p \in Paths(loadedRoots) : FindByName(registry.entries, File(p).name) = File(p)
    BY <2>2 DEF Exact, FindByName
  <2>4. \A k \in DOMAIN registry.entries :
            \E p \in Paths(loadedRoots) : registry.entries[k] = File(p)
    BY <2>2 DEF Exact
  <2>5. \A p \in Paths(loadedRoots) :
            \E k \in DOMAIN registry.entries : registry.entries[k] = File(p)
    BY <2>2 DEF Exact
  <2>6. QED
    BY <2>2, <2>3, <2>4, <2>5 DEF Exact
<1>2. QED
  BY <1>1, InvariantCorrect, PTL

\* References into the registry and shared topologies go bad only if the roots
\* were set after they were asked for, or were initialised.
THEOREM ReferencesCorrect == Spec => []ReferencesLast
<1>1. IInv => ReferencesLast
  BY DEF IInv
<1>2. QED
  BY <1>1, InvariantCorrect, PTL

\* A shared topology is that of the registry, however its name is spelled,
\* unless the roots were set since it was initialised or asked for.
THEOREM SharedCorrect == Spec => []SharedAgrees
<1>1. IInv => SharedAgrees
  BY DEF IInv
<1>2. QED
  BY <1>1, InvariantCorrect, PTL

----------------------------------------------------------------------------
(* Vectors and sums of them *)

Vector == [Axis -> Int]

\* The sum of the vectors t1, t2 and t3, each times a number.
Combined(d1, d2, d3, t1, t2, t3) == [x \in Axis |-> d1 * t1[x] + d2 * t2[x] + d3 * t3[x]]

\* Products of integer vectors are integers and integer vectors.
LEMMA VectorTypes ==
    /\ \A u, v \in Vector : Dot(u, v) \in Int /\ Dot(u, v) = Dot(v, u) /\ Cross(u, v) \in Vector
    /\ \A u, v, w \in Vector : Det(u, v, w) \in Int
    /\ \A n \in Int, v \in Vector : Times(n, v) \in Vector
<1>1. \A u, v \in Vector : Dot(u, v) \in Int /\ Dot(u, v) = Dot(v, u)
  BY DEF Vector, Axis, Dot
<1>2. \A u, v \in Vector : Cross(u, v) \in Vector
  BY DEF Vector, Axis, Cross
<1>3. \A n \in Int, v \in Vector : Times(n, v) \in Vector
  BY DEF Vector, Times
<1>4. QED
  BY <1>1, <1>2, <1>3 DEF Det

LEMMA SameVector ==
    ASSUME NEW u \in Vector, NEW v \in Vector, u[1] = v[1], u[2] = v[2], u[3] = v[3]
    PROVE  u = v
BY DEF Vector, Axis

LEMMA CombinedType ==
    ASSUME NEW t1 \in Vector, NEW t2 \in Vector, NEW t3 \in Vector,
           NEW d1 \in Int, NEW d2 \in Int, NEW d3 \in Int
    PROVE  Combined(d1, d2, d3, t1, t2, t3) \in Vector
BY DEF Vector, Combined

\* A vector is the sum of the vectors of a basis, each times the share of the
\* volume it makes up when it is replaced by that vector.
LEMMA CramersRule ==
    ASSUME NEW v \in Vector, NEW a \in Vector, NEW b \in Vector, NEW c \in Vector
    PROVE  Combined(Det(v, b, c), Det(a, v, c), Det(a, b, v), a, b, c) = Times(Det(a, b, c), v)
<1>1. Det(v, b, c) \in Int /\ Det(a, v, c) \in Int /\ Det(a, b, v) \in Int /\ Det(a, b, c) \in Int
  BY VectorTypes
<1>2. PICK d1 \in Int, d2 \in Int, d3 \in Int, d \in Int :
         d1 = Det(v, b, c) /\ d2 = Det(a, v, c) /\ d3 = Det(a, b, v) /\ d = Det(a, b, c)
  BY <1>1
<1>3. 1 \in Axis /\ 2 \in Axis /\ 3 \in Axis
  BY DEF Axis
<1>v. PICK v1 \in Int, v2 \in Int, v3 \in Int : v1 = v[1] /\ v2 = v[2] /\ v3 = v[3]
  BY <1>3 DEF Vector
<1>a. PICK a1 \in Int, a2 \in Int, a3 \in Int : a1 = a[1] /\ a2 = a[2] /\ a3 = a[3]
  BY <1>3 DEF Vector
<1>b. PICK b1 \in Int, b2 \in Int, b3 \in Int : b1 = b[1] /\ b2 = b[2] /\ b3 = b[3]
  BY <1>3 DEF Vector
<1>c. PICK c1 \in Int, c2 \in Int, c3 \in Int : c1 = c[1] /\ c2 = c[2] /\ c3 = c[3]
  BY <1>3 DEF Vector
<1>4. /\ d1 = (v2 * b3 - v3 * b2) * c1 + (v3 * b1 - v1 * b3) * c2 + (v1 * b2 - v2 * b1) * c3
      /\ d2 = (a2 * v3 - a3 * v2) * c1 + (a3 * v1 - a1 * v3) * c2 + (a1 * v2 - a2 * v1) * c3
      /\ d3 = (a2 * b3 - a3 * b2) * v1 + (a3 * b1 - a1 * b3) * v2 + (a1 * b2 - a2 * b1) * v3
      /\ d = (a2 * b3 - a3 * b2) * c1 + (a3 * b1 - a1 * b3) * c2 + (a1 * b2 - a2 * b1) * c3
  BY <1>2, <1>v, <1>a, <1>b, <1>c DEF Det, Dot, Cross
<1>5. /\ d1 * a1 + d2 * b1 + d3 * c1 = d * v1
      /\ d1 * a2 + d2 * b2 + d3 * c2 = d * v2
      /\ d1 * a3 + d2 * b3 + d3 * c3 = d * v3
  BY <1>4
<1>6. PICK p : p = Combined(d1, d2, d3, a, b, c)
  OBVIOUS
<1>7. PICK q : q = Times(d, v)
  OBVIOUS
<1>8. p \in Vector /\ q \in Vector
  BY <1>6, <1>7, CombinedType, VectorTypes
<1>9. p[1] = q[1] /\ p[2] = q[2] /\ p[3] = q[3]
  BY <1>3, <1>5, <1>6, <1>7, <1>v, <1>a, <1>b, <1>c DEF Combined, Times
<1>10. p = q
  BY <1>8, <1>9, SameVector
<1>11. QED
  BY <1>2, <1>6, <1>7, <1>10

LEMMA DotCombined ==
    ASSUME NEW t1 \in Vector, NEW t2 \in Vector, NEW t3 \in Vector, NEW w \in Vector,
           NEW d1 \in Int, NEW d2 \in Int, NEW d3 \in Int
    PROVE  Dot(Combined(d1, d2, d3, t1, t2, t3), w) = d1 * Dot(t1, w) + d2 * Dot(t2, w) + d3 * Dot(t3, w)
<1>1. PICK z : z = Combined(d1, d2, d3, t1, t2, t3)
  OBVIOUS
<1>2. z \in Vector /\ \A x \in Axis : z[x] = d1 * t1[x] + d2 * t2[x] + d3 * t3[x]
  BY <1>1, CombinedType DEF Combined
<1>3. Dot(z, w) = d1 * Dot(t1, w) + d2 * Dot(t2, w) + d3 * Dot(t3, w)
  BY <1>2 DEF Vector, Axis, Dot
<1>4. QED
  BY <1>1, <1>3

LEMMA DotTimes ==
    \A n \in Int, v, w \in Vector :
        Dot(Times(n, v), w) = n * Dot(v, w) /\ Dot(w, Times(n, v)) = n * Dot(v, w)
BY DEF Vector, Axis, Dot, Times

\* Only the vector without components has no length.
LEMMA NoLength ==
    ASSUME NEW z \in Vector, Dot(z, z) = 0
    PROVE  z[1] = 0 /\ z[2] = 0 /\ z[3] = 0
<1>1. PICK x, y, w \in Int : x = z[1] /\ y = z[2] /\ w = z[3]
  BY DEF Vector, Axis
<1>2. x * x + y * y + w * w = 0
  BY <1>1 DEF Dot
<1>3. x * x >= 0 /\ y * y >= 0 /\ w * w >= 0
  OBVIOUS
<1>4. x * x = 0 /\ y * y = 0 /\ w * w = 0
  BY <1>2, <1>3
<1>5. \A n \in Int : n * n = 0 => n = 0
  OBVIOUS
<1>6. QED
  BY <1>1, <1>4, <1>5

\* Vectors with the same lengths and the same angle are the same.
LEMMA SameByDots ==
    ASSUME NEW u \in Vector, NEW v \in Vector, Dot(u, u) = Dot(v, v), Dot(u, v) = Dot(v, v)
    PROVE  u = v
<1>1. PICK z : z = [x \in Axis |-> u[x] - v[x]]
  OBVIOUS
<1>2. z \in Vector
  BY <1>1 DEF Vector
<1>3. z[1] = u[1] - v[1] /\ z[2] = u[2] - v[2] /\ z[3] = u[3] - v[3]
  BY <1>1 DEF Axis
<1>4. \A x \in {1, 2, 3} : u[x] \in Int /\ v[x] \in Int
  BY DEF Vector, Axis
<1>5. Dot(z, z) = Dot(u, u) - 2 * Dot(u, v) + Dot(v, v)
  BY <1>3, <1>4 DEF Dot
<1>6. Dot(u, u) \in Int /\ Dot(u, v) \in Int /\ Dot(v, v) \in Int
  BY VectorTypes
<1>7. Dot(z, z) = 0
  BY <1>5, <1>6
<1>8. QED
  BY <1>2, <1>3, <1>4, <1>7, NoLength, SameVector

----------------------------------------------------------------------------
(* The shell and its basis *)

Shell == vectors \in Shells /\ ~NoBasis

LEMMA ShellTypes ==
    ASSUME vectors \in Shells
    PROVE  /\ Slot = 1 .. Len(vectors) /\ Len(vectors) \in Nat \ {0} /\ 1 \in Slot
           /\ \A s \in Slot : vectors[s] \in Vector
           /\ Axis = {1, 2, 3}
<1>1. vectors \in Seq([Axis -> Int]) /\ Len(vectors) > 0
  BY ShellsAssumption
<1>2. QED
  BY <1>1 DEF Vector, Slot, Axis

LEMMA FirstOf ==
    ASSUME NEW S, S \subseteq Slot, S # {}, vectors \in Shells
    PROVE  FirstIn(S) \in S /\ \A s \in S : FirstIn(S) <= s
<1>1. Slot \subseteq Nat
  BY ShellTypes
<1>2. S \subseteq Nat
  BY <1>1
<1>3. \E m \in S : \A s \in S : m <= s
  BY <1>2, LeastNatural
<1>4. QED
  BY <1>3 DEF FirstIn

\* The basis of a shell that has one: its slots are in their order, its volume is
\* not 0.
LEMMA BasisSound ==
    ASSUME Shell
    PROVE  /\ BasisIndices[1] = 1
           /\ BasisIndices[2] = FirstIn(SecondOf) /\ BasisIndices[2] \in SecondOf
           /\ BasisIndices[3] = FirstIn(ThirdOf) /\ BasisIndices[3] \in ThirdOf
           /\ \A i \in Axis : BasisIndices[i] \in Slot /\ Basis[i] = vectors[BasisIndices[i]]
           /\ 1 < BasisIndices[2] /\ BasisIndices[2] < BasisIndices[3]
           /\ Basis \in [Axis -> Vector]
           /\ Volume(Basis) \in Int /\ Volume(Basis) # 0
<1>1. SecondOf \subseteq Slot /\ ThirdOf \subseteq Slot /\ SecondOf # {} /\ ThirdOf # {} /\ vectors \in Shells
  BY DEF Shell, NoBasis, SecondOf, ThirdOf
<1>2. FirstIn(SecondOf) \in SecondOf /\ FirstIn(ThirdOf) \in ThirdOf
  BY <1>1, FirstOf
<1>3. BasisIndices[1] = 1 /\ BasisIndices[2] = FirstIn(SecondOf) /\ BasisIndices[3] = FirstIn(ThirdOf)
  BY DEF BasisIndices
<1>4. BasisIndices[3] > BasisIndices[2]
  BY <1>2, <1>3 DEF ThirdOf
<1>5. BasisIndices[2] # 1
  <2>1. vectors[1] \in Vector
    BY <1>1, ShellTypes
  <2>2. Cross(vectors[1], vectors[1]) = Nowhere
    BY <2>1 DEF Cross, Nowhere, Vector, Axis
  <2>3. QED
    BY <1>2, <1>3, <2>2 DEF SecondOf
<1>6. \A i \in Axis : BasisIndices[i] \in Slot /\ Basis[i] = vectors[BasisIndices[i]]
  BY <1>1, <1>2, <1>3, ShellTypes DEF Basis, Axis
<1>7. Basis \in [Axis -> Vector]
  BY <1>1, <1>6, ShellTypes DEF Basis
<1>8. Volume(Basis) = Det(vectors[1], vectors[FirstIn(SecondOf)], vectors[FirstIn(ThirdOf)])
  BY <1>3, <1>6 DEF Volume, Axis
<1>9. Volume(Basis) \in Int /\ Volume(Basis) # 0
  <2>1. FirstIn(SecondOf) \in Slot /\ FirstIn(ThirdOf) \in Slot
    BY <1>1, <1>2
  <2>2. Volume(Basis) \in Int
    <3>1. /\ vectors[1] \in Vector /\ vectors[FirstIn(SecondOf)] \in Vector
          /\ vectors[FirstIn(ThirdOf)] \in Vector
      BY <1>1, <2>1, ShellTypes
    <3>2. QED
      BY <1>8, <3>1, VectorTypes
  <2>3. Volume(Basis) # 0
    BY <1>2, <1>8 DEF ThirdOf
  <2>4. QED
    BY <2>2, <2>3
<1>10. 1 < BasisIndices[2] /\ BasisIndices[2] < BasisIndices[3]
  <2>1. BasisIndices[2] \in 1 .. Len(vectors) /\ BasisIndices[3] \in 1 .. Len(vectors) /\ Len(vectors) \in Nat
    BY <1>1, <1>2, <1>3, ShellTypes
  <2>2. QED
    BY <1>4, <1>5, <2>1
<1>11. QED
  BY <1>2, <1>3, <1>6, <1>7, <1>9, <1>10

\* The shares of the basis that make up v.
PartOf(v, i) == IF i = 1 THEN Det(v, Basis[2], Basis[3])
               ELSE IF i = 2 THEN Det(Basis[1], v, Basis[3]) ELSE Det(Basis[1], Basis[2], v)

LEMMA ImageCombines ==
    ASSUME Shell, NEW v \in Vector, NEW T \in [Axis -> Vector]
    PROVE  /\ Image(T, v) = Combined(PartOf(v, 1), PartOf(v, 2), PartOf(v, 3), T[1], T[2], T[3])
           /\ PartOf(v, 1) \in Int /\ PartOf(v, 2) \in Int /\ PartOf(v, 3) \in Int
           /\ Image(T, v) \in Vector
<1>1. Basis[1] \in Vector /\ Basis[2] \in Vector /\ Basis[3] \in Vector
      /\ T[1] \in Vector /\ T[2] \in Vector /\ T[3] \in Vector
  BY BasisSound DEF Axis
<1>2. PartOf(v, 1) \in Int /\ PartOf(v, 2) \in Int /\ PartOf(v, 3) \in Int
  BY <1>1, VectorTypes DEF PartOf
<1>3. Image(T, v) = Combined(PartOf(v, 1), PartOf(v, 2), PartOf(v, 3), T[1], T[2], T[3])
  BY DEF Image, Combined, PartOf
<1>4. QED
  BY <1>1, <1>2, <1>3, CombinedType

\* The basis itself is taken to the basis.
LEMMA IdentityImage ==
    ASSUME Shell, NEW v \in Vector
    PROVE  Image(Basis, v) = Times(Volume(Basis), v)
<1>1. Basis[1] \in Vector /\ Basis[2] \in Vector /\ Basis[3] \in Vector /\ Basis \in [Axis -> Vector]
  BY BasisSound DEF Axis
<1>2. Image(Basis, v) = Combined(PartOf(v, 1), PartOf(v, 2), PartOf(v, 3), Basis[1], Basis[2], Basis[3])
  BY <1>1, ImageCombines
<1>3. /\ PartOf(v, 1) = Det(v, Basis[2], Basis[3]) /\ PartOf(v, 2) = Det(Basis[1], v, Basis[3])
      /\ PartOf(v, 3) = Det(Basis[1], Basis[2], v)
  BY DEF PartOf
<1>4. QED
  BY <1>1, <1>2, <1>3, CramersRule DEF Volume

LEMMA DotOfImage ==
    ASSUME Shell, NEW v \in Vector, NEW w \in Vector, NEW T \in [Axis -> Vector]
    PROVE  Dot(Image(T, v), w) =
             PartOf(v, 1) * Dot(T[1], w) + PartOf(v, 2) * Dot(T[2], w) + PartOf(v, 3) * Dot(T[3], w)
<1>1. T[1] \in Vector /\ T[2] \in Vector /\ T[3] \in Vector
  BY DEF Axis
<1>2. PICK d1 \in Int, d2 \in Int, d3 \in Int :
         d1 = PartOf(v, 1) /\ d2 = PartOf(v, 2) /\ d3 = PartOf(v, 3)
  BY ImageCombines
<1>3. Image(T, v) = Combined(d1, d2, d3, T[1], T[2], T[3])
  BY <1>2, ImageCombines
<1>4. Dot(Image(T, v), w) = d1 * Dot(T[1], w) + d2 * Dot(T[2], w) + d3 * Dot(T[3], w)
  BY <1>1, <1>3, DotCombined
<1>5. QED
  BY <1>2, <1>4

\* An orthogonal matrix keeps lengths and angles.
LEMMA ImagesKeepDot ==
    ASSUME Shell, NEW v \in Vector, NEW w \in Vector, NEW T \in [Axis -> Vector], IsOrthogonalMatrix(T)
    PROVE  Dot(Image(T, v), Image(T, w)) = Volume(Basis) * Volume(Basis) * Dot(v, w)
<1> DEFINE Crossed(M) == PartOf(v, 1) * Dot(Image(M, w), M[1]) + PartOf(v, 2) * Dot(Image(M, w), M[2])
                       + PartOf(v, 3) * Dot(Image(M, w), M[3])
<1>0. Basis \in [Axis -> Vector] /\ Axis = {1, 2, 3} /\ Volume(Basis) \in Int
  BY BasisSound DEF Axis
<1>1. ASSUME NEW M \in [Axis -> Vector] PROVE Dot(Image(M, v), Image(M, w)) = Crossed(M)
  <2>1. Image(M, w) \in Vector
    BY ImageCombines
  <2>2. \A i \in Axis : Dot(Image(M, w), M[i]) = Dot(M[i], Image(M, w))
    BY <2>1, VectorTypes
  <2>3. Dot(Image(M, v), Image(M, w)) =
          PartOf(v, 1) * Dot(M[1], Image(M, w)) + PartOf(v, 2) * Dot(M[2], Image(M, w))
          + PartOf(v, 3) * Dot(M[3], Image(M, w))
    BY <2>1, DotOfImage
  <2>4. QED
    BY <1>0, <2>2, <2>3
<1>2. ASSUME NEW i \in Axis PROVE Dot(Image(T, w), T[i]) = Dot(Image(Basis, w), Basis[i])
  <2>1. \A M \in [Axis -> Vector] :
           Dot(Image(M, w), M[i]) = PartOf(w, 1) * Dot(M[1], M[i]) + PartOf(w, 2) * Dot(M[2], M[i])
                                    + PartOf(w, 3) * Dot(M[3], M[i])
    BY DotOfImage
  <2>2. \A j \in Axis : Dot(T[j], T[i]) = Dot(Basis[j], Basis[i])
    BY DEF IsOrthogonalMatrix
  <2>3. QED
    BY <1>0, <2>1, <2>2
<1>3. Crossed(T) = Crossed(Basis)
  BY <1>0, <1>2
<1>4. Dot(Image(T, v), Image(T, w)) = Dot(Image(Basis, v), Image(Basis, w))
  <2> HIDE DEF Crossed
  <2>1. QED
    BY <1>0, <1>1, <1>3
<1>5. Image(Basis, v) = Times(Volume(Basis), v) /\ Image(Basis, w) = Times(Volume(Basis), w)
  BY IdentityImage
<1>6. Dot(Times(Volume(Basis), v), Times(Volume(Basis), w)) = Volume(Basis) * Volume(Basis) * Dot(v, w)
  <2>1. PICK n \in Int : n = Volume(Basis)
    BY <1>0
  <2>2. Times(n, w) \in Vector /\ Dot(v, w) \in Int
    BY VectorTypes
  <2>3. Dot(Times(n, v), Times(n, w)) = n * Dot(v, Times(n, w)) /\ Dot(v, Times(n, w)) = n * Dot(v, w)
    BY <2>2, DotTimes, VectorTypes
  <2>4. n * (n * Dot(v, w)) = n * n * Dot(v, w)
    BY <2>2
  <2>5. QED
    BY <2>1, <2>3, <2>4
<1>7. QED
  BY <1>4, <1>5, <1>6

\* A vector with the length of v that has the angles to the images of the
\* basis that v has to the basis, is the image of v.
LEMMA TakenByDots ==
    ASSUME Shell, NEW v \in Vector, NEW w \in Vector, NEW T \in [Axis -> Vector], IsOrthogonalMatrix(T),
           Dot(w, w) = Dot(v, v), \A i \in Axis : Dot(w, T[i]) = Dot(v, Basis[i])
    PROVE  Takes(T, v, w)
<1>1. PICK n \in Int : n = Volume(Basis)
  BY BasisSound
<1>2. Basis \in [Axis -> Vector] /\ Axis = {1, 2, 3}
  BY BasisSound DEF Axis
<1>3. PICK u \in Vector : u = Image(T, v)
  BY ImageCombines
<1>4. Dot(u, u) = n * n * Dot(v, v)
  BY <1>1, <1>3, ImagesKeepDot
<1>5. Dot(u, w) = n * Dot(v, v)
  <2>1. \A M \in [Axis -> Vector], x \in Vector :
           Dot(Image(M, v), x) = PartOf(v, 1) * Dot(M[1], x) + PartOf(v, 2) * Dot(M[2], x)
                                 + PartOf(v, 3) * Dot(M[3], x)
    BY DotOfImage
  <2>2. \A i \in Axis : Dot(T[i], w) = Dot(Basis[i], v)
    <3>1. ASSUME NEW i \in Axis PROVE Dot(T[i], w) = Dot(Basis[i], v)
      <4>1. T[i] \in Vector /\ Basis[i] \in Vector
        BY <1>2
      <4>2. QED
        BY <4>1, VectorTypes
    <3>2. QED
      BY <3>1
  <2>3. Dot(Image(T, v), w) = Dot(Image(Basis, v), v)
    BY <1>2, <2>1, <2>2
  <2>4. Dot(Image(Basis, v), v) = n * Dot(v, v)
    BY <1>1, IdentityImage, DotTimes
  <2>5. QED
    BY <1>3, <2>3, <2>4
<1>6. PICK t \in Vector : t = Times(n, w)
  BY VectorTypes
<1>7. Dot(t, t) = n * n * Dot(v, v) /\ Dot(u, t) = n * n * Dot(v, v)
  <2>1. Dot(w, w) \in Int /\ Dot(v, v) \in Int /\ Dot(u, w) \in Int
    BY VectorTypes
  <2>2. Dot(t, t) = n * Dot(w, t) /\ Dot(w, t) = n * Dot(w, w) /\ Dot(u, t) = n * Dot(u, w)
    <3>1. Dot(Times(n, w), t) = n * Dot(w, t) /\ Dot(w, Times(n, w)) = n * Dot(w, w)
      BY DotTimes
    <3>2. Dot(u, Times(n, w)) = n * Dot(w, u) /\ Dot(w, u) = Dot(u, w)
      BY DotTimes, VectorTypes
    <3>3. QED
      BY <1>6, <3>1, <3>2
  <2>3. n * (n * Dot(v, v)) = n * n * Dot(v, v)
    BY <2>1
  <2>4. QED
    BY <1>5, <2>2, <2>3
<1>8. u = t
  BY <1>4, <1>7, SameByDots
<1>9. QED
  BY <1>1, <1>3, <1>6, <1>8 DEF Takes

\* A multiple that is not 0 tells the vector.
LEMMA TimesCancels ==
    ASSUME NEW n \in Int, n # 0, NEW v \in Vector, NEW w \in Vector, Times(n, v) = Times(n, w)
    PROVE  v = w
<1>1. \A a, b \in Int : n * a = n * b => a = b
  OBVIOUS
<1>2. \A x \in Axis : n * v[x] = n * w[x]
  BY DEF Times
<1>3. \A x \in Axis : v[x] \in Int /\ w[x] \in Int
  BY DEF Vector
<1>4. QED
  BY <1>1, <1>2, <1>3 DEF Vector

----------------------------------------------------------------------------
(* Isometries and the matrices that make them *)

Permutes(p) == p \in [Slot -> Slot] /\ \A s, t \in Slot : p[s] = p[t] => s = t
BasisImages(p) == [i \in Axis |-> vectors[p[BasisIndices[i]]]]

\* An orthogonal matrix does to the shell what a permutation says.
Realizes(T, p) ==
    /\ Permutes(p) /\ T = BasisImages(p) /\ IsOrthogonalMatrix(T)
    /\ \A s \in Slot : Takes(T, vectors[s], vectors[p[s]])

LEMMA ImagesTypes ==
    ASSUME Shell, NEW p \in [Slot -> Slot]
    PROVE  BasisImages(p) \in [Axis -> Vector]
<1>1. \A i \in Axis : BasisIndices[i] \in Slot
  BY BasisSound
<1>2. \A s \in Slot : vectors[s] \in Vector
  BY ShellTypes DEF Shell
<1>3. QED
  BY <1>1, <1>2 DEF BasisImages

\* An isometry is what the matrix does that takes the basis where the isometry
\* takes it.
LEMMA IsometryRealized ==
    ASSUME Shell, NEW f \in Isometries
    PROVE  Realizes(BasisImages(f), f)
<1>1. /\ Permutes(f) /\ f \in [Slot -> Slot]
      /\ \A s, t \in Slot : Dot(vectors[f[s]], vectors[f[t]]) = Dot(vectors[s], vectors[t])
  BY DEF Isometries, Permutes
<1>2. \A s \in Slot : vectors[s] \in Vector /\ vectors[f[s]] \in Vector
  BY <1>1, ShellTypes DEF Shell
<1>3. \A i \in Axis : BasisIndices[i] \in Slot /\ Basis[i] = vectors[BasisIndices[i]]
  BY BasisSound
<1>4. PICK T \in [Axis -> Vector] : T = BasisImages(f)
  BY <1>1, ImagesTypes
<1>5. \A i \in Axis : T[i] = vectors[f[BasisIndices[i]]]
  BY <1>4 DEF BasisImages
<1>6. IsOrthogonalMatrix(T)
  BY <1>1, <1>3, <1>5 DEF IsOrthogonalMatrix
<1>7. ASSUME NEW s \in Slot PROVE Takes(T, vectors[s], vectors[f[s]])
  <2>1. \A i \in Axis : Dot(vectors[f[s]], T[i]) = Dot(vectors[s], Basis[i])
    BY <1>1, <1>3, <1>5
  <2>2. QED
    BY <1>1, <1>2, <1>6, <2>1, TakenByDots
<1>8. QED
  BY <1>1, <1>4, <1>6, <1>7 DEF Realizes

\* And what an orthogonal matrix does to the shell is an isometry.
LEMMA RealizedIsometry ==
    ASSUME Shell, NEW p, Realizes(BasisImages(p), p)
    PROVE  p \in Isometries
<1>1. Permutes(p) /\ p \in [Slot -> Slot]
  BY DEF Realizes, Permutes
<1>2. PICK T \in [Axis -> Vector] : T = BasisImages(p)
  BY <1>1, ImagesTypes
<1>3. PICK n \in Int : n = Volume(Basis) /\ n # 0
  BY BasisSound
<1>4. ASSUME NEW s \in Slot, NEW t \in Slot
      PROVE  Dot(vectors[p[s]], vectors[p[t]]) = Dot(vectors[s], vectors[t])
  <2>1. PICK a \in Vector, b \in Vector, v \in Vector, w \in Vector :
           a = vectors[p[s]] /\ b = vectors[p[t]] /\ v = vectors[s] /\ w = vectors[t]
    BY <1>1, ShellTypes DEF Shell
  <2>2. Image(T, v) = Times(n, a) /\ Image(T, w) = Times(n, b)
    BY <1>2, <1>3, <2>1 DEF Realizes, Takes
  <2>3. Dot(Image(T, v), Image(T, w)) = n * n * Dot(v, w)
    BY <1>2, <1>3, ImagesKeepDot DEF Realizes
  <2>4. Dot(Times(n, a), Times(n, b)) = n * Dot(a, Times(n, b)) /\ Dot(a, Times(n, b)) = n * Dot(b, a)
    BY DotTimes, VectorTypes
  <2>5. Dot(b, a) = Dot(a, b) /\ Dot(a, b) \in Int /\ Dot(v, w) \in Int
    BY VectorTypes
  <2>6. n * (n * Dot(a, b)) = n * n * Dot(v, w)
    BY <2>2, <2>3, <2>4, <2>5
  <2>7. \A x, y \in Int : n * (n * x) = n * n * y => x = y
    <3>1. \A x, y \in Int : n * x = n * y => x = y
      BY <1>3
    <3>2. \A x, y \in Int : n * n * y = n * (n * y) /\ n * x \in Int /\ n * y \in Int
      OBVIOUS
    <3>3. QED
      BY <3>1, <3>2
  <2>8. QED
    BY <2>1, <2>5, <2>6, <2>7
<1>5. QED
  BY <1>1, <1>4 DEF Isometries, Permutes

\* The images of the basis are those of all neighbours.
LEMMA MovesByBasis ==
    ASSUME Shell, NEW T, NEW p, NEW q, Realizes(T, p), Realizes(T, q)
    PROVE  Moves(p) = Moves(q)
<1>1. p \in [Slot -> Slot] /\ q \in [Slot -> Slot]
  BY DEF Realizes, Permutes
<1>2. PICK n \in Int : n = Volume(Basis) /\ n # 0
  BY BasisSound
<1>3. ASSUME NEW s \in Slot PROVE vectors[p[s]] = vectors[q[s]]
  <2>1. vectors[p[s]] \in Vector /\ vectors[q[s]] \in Vector
    BY <1>1, ShellTypes DEF Shell
  <2>2. Times(n, vectors[p[s]]) = Times(n, vectors[q[s]])
    BY <1>2 DEF Realizes, Takes
  <2>3. QED
    BY <1>2, <2>1, <2>2, TimesCancels
<1>4. QED
  BY <1>3 DEF Moves

\* Permutations that move the neighbours alike have the same matrix.
LEMMA BasisByMoves ==
    ASSUME Shell, NEW p, NEW q, Moves(p) = Moves(q)
    PROVE  BasisImages(p) = BasisImages(q)
<1>1. \A i \in Axis : BasisIndices[i] \in Slot
  BY BasisSound
<1>2. \A s \in Slot : vectors[p[s]] = vectors[q[s]]
  BY DEF Moves
<1>3. QED
  BY <1>1, <1>2 DEF BasisImages

LEMMA DetFacts ==
    ASSUME NEW a \in Vector, NEW b \in Vector, NEW v \in Vector
    PROVE  /\ Cross(a, a) = Nowhere /\ Det(a, b, b) = 0
           /\ Cross(a, v) = Nowhere => Det(a, v, b) = 0 /\ Det(a, b, v) = 0
<1>1. Cross(a, a) = Nowhere
  BY DEF Cross, Nowhere, Vector, Axis
<1>2. Det(a, b, b) = 0
  BY DEF Det, Dot, Cross, Vector, Axis
<1>3. ASSUME Cross(a, v) = Nowhere PROVE Det(a, v, b) = 0 /\ Det(a, b, v) = 0
  <2>1. PICK a1 \in Int, a2 \in Int, a3 \in Int : a1 = a[1] /\ a2 = a[2] /\ a3 = a[3]
    BY DEF Vector, Axis
  <2>2. PICK b1 \in Int, b2 \in Int, b3 \in Int : b1 = b[1] /\ b2 = b[2] /\ b3 = b[3]
    BY DEF Vector, Axis
  <2>3. PICK v1 \in Int, v2 \in Int, v3 \in Int : v1 = v[1] /\ v2 = v[2] /\ v3 = v[3]
    BY DEF Vector, Axis
  <2>4. a2 * v3 - a3 * v2 = 0 /\ a3 * v1 - a1 * v3 = 0 /\ a1 * v2 - a2 * v1 = 0
    BY <1>3, <2>1, <2>3 DEF Cross, Nowhere
  <2>5. Det(a, v, b) = (a2 * v3 - a3 * v2) * b1 + (a3 * v1 - a1 * v3) * b2 + (a1 * v2 - a2 * v1) * b3
    BY <2>1, <2>2, <2>3 DEF Det, Dot, Cross
  <2>6. Det(a, b, v) = (a2 * b3 - a3 * b2) * v1 + (a3 * b1 - a1 * b3) * v2 + (a1 * b2 - a2 * b1) * v3
    BY <2>1, <2>2, <2>3 DEF Det, Dot, Cross
  <2>7. (a2 * b3 - a3 * b2) * v1 + (a3 * b1 - a1 * b3) * v2 + (a1 * b2 - a2 * b1) * v3
          = 0 - ((a2 * v3 - a3 * v2) * b1 + (a3 * v1 - a1 * v3) * b2 + (a1 * v2 - a2 * v1) * b3)
    OBVIOUS
  <2>8. (a2 * v3 - a3 * v2) * b1 + (a3 * v1 - a1 * v3) * b2 + (a1 * v2 - a2 * v1) * b3 = 0
    BY <2>4
  <2>9. QED
    BY <2>5, <2>6, <2>7, <2>8
<1>4. QED
  BY <1>1, <1>2, <1>3

\* A neighbour before the end of the basis is made up of the basis before it.
LEMMA PartsBefore ==
    ASSUME Shell, NEW s \in Slot
    PROVE  /\ s < BasisIndices[3] => PartOf(vectors[s], 3) = 0
           /\ s < BasisIndices[2] => PartOf(vectors[s], 2) = 0
<1>1. /\ BasisIndices[2] \in Slot /\ BasisIndices[3] \in Slot /\ 1 \in Slot /\ Slot \subseteq Nat
      /\ BasisIndices[2] = FirstIn(SecondOf) /\ BasisIndices[3] = FirstIn(ThirdOf)
      /\ vectors \in Shells
  BY BasisSound, ShellTypes DEF Shell, Axis
<1>2. PICK a \in Vector, b \in Vector, c \in Vector, v \in Vector :
         /\ a = Basis[1] /\ b = Basis[2] /\ c = Basis[3] /\ v = vectors[s]
         /\ a = vectors[1] /\ b = vectors[BasisIndices[2]]
  BY <1>1, BasisSound, ShellTypes DEF Axis
<1>3. PartOf(v, 3) = Det(a, b, v) /\ PartOf(v, 2) = Det(a, v, c)
  BY <1>2 DEF PartOf
<1>4. s < BasisIndices[2] => Cross(a, v) = Nowhere
  <2>1. SecondOf \subseteq Slot /\ SecondOf # {} /\ (s \in SecondOf => BasisIndices[2] <= s)
    BY <1>1, FirstOf, BasisSound DEF SecondOf
  <2>2. s \in Nat /\ BasisIndices[2] \in Nat
    BY <1>1, Zenon
  <2>3. s < BasisIndices[2] => s \notin SecondOf
    BY <2>1, <2>2
  <2>4. QED
    BY <1>2, <2>3 DEF SecondOf
<1>5. s > BasisIndices[2] /\ s < BasisIndices[3] => Det(a, b, v) = 0
  <2>1. ThirdOf \subseteq Slot /\ ThirdOf # {} /\ (s \in ThirdOf => BasisIndices[3] <= s)
    BY <1>1, FirstOf, BasisSound DEF ThirdOf
  <2>2. s \in Nat /\ BasisIndices[3] \in Nat
    BY <1>1, Zenon
  <2>3. s < BasisIndices[3] => s \notin ThirdOf
    BY <2>1, <2>2
  <2>4. QED
    BY <1>1, <1>2, <2>3 DEF ThirdOf
<1>6. s = BasisIndices[2] => Det(a, b, v) = 0
  BY <1>2, DetFacts
<1>7. s < BasisIndices[2] => Det(a, b, v) = 0 /\ Det(a, v, c) = 0
  BY <1>4, DetFacts
<1>8. s \in Nat /\ BasisIndices[2] \in Nat
  BY <1>1
<1>9. QED
  BY <1>2, <1>3, <1>5, <1>6, <1>7, <1>8

\* So what becomes of it is known from where that goes.
LEMMA ImageByPrefix ==
    ASSUME Shell, NEW p \in [Slot -> Slot], NEW q \in [Slot -> Slot], NEW s \in Slot,
           \A t \in Slot : t <= s => p[t] = q[t]
    PROVE  Image(BasisImages(p), vectors[s]) = Image(BasisImages(q), vectors[s])
<1>1. /\ BasisIndices[2] \in Slot /\ BasisIndices[3] \in Slot /\ 1 \in Slot /\ Slot \subseteq Nat \ {0}
      /\ BasisIndices[1] = 1 /\ BasisIndices[2] < BasisIndices[3] /\ 1 < BasisIndices[2]
  BY BasisSound, ShellTypes DEF Shell, Axis
<1>2. PICK T \in [Axis -> Vector] : T = BasisImages(p)
  BY ImagesTypes
<1>3. PICK U \in [Axis -> Vector] : U = BasisImages(q)
  BY ImagesTypes
<1>4. PICK v \in Vector : v = vectors[s]
  BY ShellTypes DEF Shell
<1>5. PICK d1 \in Int, d2 \in Int, d3 \in Int : d1 = PartOf(v, 1) /\ d2 = PartOf(v, 2) /\ d3 = PartOf(v, 3)
  BY <1>2, ImageCombines
<1>6. \A M \in [Axis -> Vector] :
         Image(M, v) = [x \in Axis |-> d1 * M[1][x] + d2 * M[2][x] + d3 * M[3][x]]
  BY <1>5, ImageCombines DEF Combined
<1>7. \A i \in Axis : BasisIndices[i] <= s => T[i] = U[i]
  <2>1. \A i \in Axis : BasisIndices[i] \in Slot
    BY BasisSound
  <2>2. QED
    BY <1>2, <1>3, <2>1 DEF BasisImages
<1>8. 1 <= s /\ (s < BasisIndices[2] \/ BasisIndices[2] <= s) /\ (s < BasisIndices[3] \/ BasisIndices[3] <= s)
  <2>1. s \in Nat \ {0} /\ BasisIndices[2] \in Nat \ {0} /\ BasisIndices[3] \in Nat \ {0}
    BY <1>1
  <2>2. QED
    BY <2>1
<1>9. \A i \in {1, 2, 3}, x \in Axis : T[i][x] \in Int /\ U[i][x] \in Int
  BY DEF Vector, Axis
<1>10. T[1] = U[1] /\ (d2 = 0 \/ T[2] = U[2]) /\ (d3 = 0 \/ T[3] = U[3])
  BY <1>1, <1>4, <1>5, <1>7, <1>8, PartsBefore DEF Axis
<1>11. \A x \in Axis : d1 * T[1][x] + d2 * T[2][x] + d3 * T[3][x] = d1 * U[1][x] + d2 * U[2][x] + d3 * U[3][x]
  <2>1. \A m, n \in Int : 0 * m = 0 * n
    OBVIOUS
  <2>2. \A x \in Axis : d1 * T[1][x] = d1 * U[1][x] /\ d2 * T[2][x] = d2 * U[2][x] /\ d3 * T[3][x] = d3 * U[3][x]
    BY <1>9, <1>10, <2>1
  <2>3. QED
    BY <2>2
<1>12. QED
  BY <1>2, <1>3, <1>4, <1>6, <1>11

----------------------------------------------------------------------------
(* Permutations in their order *)

\* Nth counts the numbers of a set in their order.
LEMMA NthIs ==
    ASSUME NEW S, S \subseteq Int, IsFiniteSet(S),
           NEW s \in [1 .. Cardinality(S) -> S], Sorted(s)
    PROVE  \A k \in 1 .. Cardinality(S) : Nth(S, k) = s[k]
<1> DEFINE m == Cardinality(S)
<1> TAKE k \in 1 .. m
<1>0. m \in Nat
  BY FS_CardinalityType
<1>1. \A x \in S : \E i \in 1 .. m : s[i] = x
  BY SortedIsAll
<1>2. \A i, j \in 1 .. m : i < j => s[i] < s[j]
  BY DEF Sorted
<1>3. ASSUME NEW j \in 1 .. m
      PROVE  Cardinality({t \in S : t < s[j]}) = j - 1
  <2> DEFINE T == {t \in S : t < s[j]}
             g == [i \in 1 .. j - 1 |-> s[i]]
  <2>1. ASSUME NEW i \in 1 .. m PROVE s[i] \in Int
    OBVIOUS
  <2>2. ASSUME NEW i \in 1 .. m PROVE s[i] < s[j] <=> i < j
    <3>1. i = j => ~(s[i] < s[j])
      BY <2>1
    <3>2. j < i => s[j] < s[i] /\ ~(s[i] < s[j])
      BY <1>2, <2>1
    <3>3. QED
      BY <1>0, <1>2, <3>1, <3>2
  <2>3. g \in [1 .. j - 1 -> T]
    <3>1. ASSUME NEW i \in 1 .. j - 1 PROVE s[i] \in T
      BY <1>0, <1>2
    <3>2. QED
      BY <3>1
  <2>4. \A t \in T : \E i \in 1 .. j - 1 : g[i] = t
    <3>1. ASSUME NEW t \in T PROVE \E i \in 1 .. j - 1 : g[i] = t
      <4>1. PICK i \in 1 .. m : s[i] = t
        BY <1>1
      <4>2. i < j
        BY <2>2, <4>1
      <4>3. i \in 1 .. j - 1
        BY <1>0, <4>2
      <4>4. QED
        BY <4>1, <4>3
    <3>2. QED
      BY <3>1
  <2>5. \A a, b \in 1 .. j - 1 : g[a] = g[b] => a = b
    <3>1. ASSUME NEW a \in 1 .. j - 1, NEW b \in 1 .. j - 1, a < b PROVE g[a] # g[b]
      <4>1. a \in 1 .. m /\ b \in 1 .. m
        BY <1>0
      <4>2. s[a] < s[b] /\ s[a] \in Int /\ s[b] \in Int
        BY <1>2, <2>1, <3>1, <4>1
      <4>3. QED
        BY <4>2
    <3>2. QED
      BY <3>1
  <2> HIDE DEF T, g
  <2>6. g \in Surjection(1 .. j - 1, T) /\ g \in Injection(1 .. j - 1, T)
    BY <2>3, <2>4, <2>5 DEF Surjection, Injection, IsInjective
  <2>7. IsFiniteSet(1 .. j - 1) /\ Cardinality(1 .. j - 1) = j - 1
    <3>1. 1 \in Int /\ j - 1 \in Int /\ (1 > j - 1 <=> j = 1)
      BY <1>0
    <3>2. QED
      BY <3>1, FS_Interval
  <2>8. QED
    BY <2>6, <2>7, FS_Surjection DEF T
<1>4. ASSUME NEW x \in S, Cardinality({t \in S : t < x}) = k - 1
      PROVE  x = s[k]
  <2>1. PICK i \in 1 .. m : s[i] = x
    BY <1>1
  <2>2. i - 1 = k - 1
    BY <1>3, <1>4, <2>1
  <2>3. QED
    BY <1>0, <2>1, <2>2
<1>5. s[k] \in S /\ Cardinality({t \in S : t < s[k]}) = k - 1
  BY <1>3
<1>6. QED
  BY <1>4, <1>5 DEF Nth

\* Nth gives each number of a set, in their order.
LEMMA NthCounts ==
    ASSUME NEW S, S \subseteq Int, IsFiniteSet(S), NEW m, m = Cardinality(S)
    PROVE  /\ m \in Nat
           /\ \A k \in 1 .. m : Nth(S, k) \in S
           /\ \A j, k \in 1 .. m : j < k => Nth(S, j) < Nth(S, k)
           /\ \A x \in S : \E k \in 1 .. m : Nth(S, k) = x
<1>1. PICK s \in [1 .. m -> S] : Sorted(s)
  BY SortedExists
<1>2. \A k \in 1 .. m : Nth(S, k) = s[k]
  BY <1>1, NthIs
<1>3. \A x \in S : \E i \in 1 .. m : s[i] = x
  BY <1>1, SortedIsAll
<1>4. QED
  BY <1>1, <1>2, <1>3, FS_CardinalityType DEF Sorted

Orders(n, p) == p \in [1 .. n -> 1 .. n] /\ \A s, t \in 1 .. n : p[s] = p[t] => s = t

\* An order takes every number.
LEMMA OrderOnto ==
    ASSUME NEW n \in Nat, NEW p, Orders(n, p)
    PROVE  \A r \in 1 .. n : \E s \in 1 .. n : p[s] = r
<1>1. p \in Injection(1 .. n, 1 .. n)
  BY DEF Injection, IsInjective, Orders
<1>2. IsFiniteSet(1 .. n)
  BY FS_Interval
<1>3. p \in Surjection(1 .. n, 1 .. n)
  BY <1>1, <1>2, FS_Injection
<1>4. QED
  BY <1>3 DEF Surjection

\* Where f begins like p, its next number is among those p has left.
LeftOf(n, p, f) ==
    \A m \in 1 .. n : (\A t \in 1 .. n : t < m => f[t] = p[t]) => \E t \in 1 .. n : t >= m /\ f[m] = p[t]

LEMMA RestAlike ==
    ASSUME NEW n \in Nat
    PROVE  \A p, f : Orders(n, p) /\ Orders(n, f) => LeftOf(n, p, f)
<1> SUFFICES ASSUME NEW p, NEW f, Orders(n, p), Orders(n, f),
                    NEW m \in 1 .. n, \A t \in 1 .. n : t < m => f[t] = p[t]
             PROVE  \E t \in 1 .. n : t >= m /\ f[m] = p[t]
  BY DEF LeftOf
<1>0. f[m] \in 1 .. n
  BY DEF Orders
<1>1. PICK t \in 1 .. n : p[t] = f[m]
  BY <1>0, OrderOnto
<1>2. t < m => f[t] = f[m]
  BY <1>1
<1>3. ~(t < m)
  BY <1>2 DEF Orders
<1>4. QED
  BY <1>1, <1>3

Ahead(n, f, g) == \E s \in 1 .. n : f[s] < g[s] /\ \A t \in 1 .. n : t < s => f[t] = g[t]

\* Two orders that differ have a first place where they do.
LEMMA FirstDifference ==
    ASSUME NEW n \in Nat, NEW p, Orders(n, p), NEW f, Orders(n, f), p # f
    PROVE  \E m \in 1 .. n : p[m] # f[m] /\ \A t \in 1 .. n : t < m => p[t] = f[t]
<1> DEFINE T == {s \in 1 .. n : p[s] # f[s]}
<1>1. T \subseteq Nat /\ T # {}
  <2>1. p \in [1 .. n -> 1 .. n] /\ f \in [1 .. n -> 1 .. n]
    BY DEF Orders
  <2>2. T = {} => \A s \in 1 .. n : p[s] = f[s]
    OBVIOUS
  <2> HIDE DEF T
  <2>3. T = {} => p = f
    BY <2>1, <2>2
  <2>4. QED
    BY <2>3 DEF T
<1>2. PICK m \in T : \A s \in T : m <= s
  <2> HIDE DEF T
  <2>1. QED
    BY <1>1, LeastNatural
<1>3. m \in 1 .. n /\ p[m] # f[m]
  OBVIOUS
<1>4. \A t \in 1 .. n : t < m => t \notin T
  BY <1>2, <1>3
<1>5. QED
  BY <1>3, <1>4

DescendsAfter(n, p, a) == \A s, t \in 1 .. n : a < s /\ s < t => p[t] < p[s]

\* An order that descends after a is the last of those that begin like it.
LEMMA LastOfThose ==
    ASSUME NEW n \in Nat, NEW p, Orders(n, p), NEW f, Orders(n, f), NEW a \in Nat,
           DescendsAfter(n, p, a), \A t \in 1 .. n : t <= a => f[t] = p[t], f # p
    PROVE  Ahead(n, f, p)
<1>1. PICK m \in 1 .. n : f[m] # p[m] /\ \A t \in 1 .. n : t < m => f[t] = p[t]
  BY FirstDifference
<1>2. PICK t \in 1 .. n : t >= m /\ f[m] = p[t]
  BY <1>1, RestAlike DEF LeftOf
<1>3. t # m /\ m < t /\ a < m
  BY <1>1, <1>2
<1>4. p[t] < p[m]
  BY <1>3 DEF DescendsAfter
<1>5. QED
  BY <1>1, <1>2, <1>4 DEF Ahead

AscendsAfter(n, p, a) == \A s, t \in 1 .. n : a < s /\ s < t => p[s] < p[t]

\* Without ascents an order descends.
LEMMA NoAscent ==
    ASSUME NEW n \in Nat, NEW p, Orders(n, p), NEW a \in Nat,
           \A s \in 1 .. n : a + 1 < s => ~(p[s - 1] < p[s])
    PROVE  DescendsAfter(n, p, a)
<1>0. \A s \in 1 .. n : p[s] \in Int
  BY DEF Orders
<1>1. SUFFICES ASSUME NEW s \in 1 .. n, a < s PROVE \A t \in 1 .. n : s < t => p[t] < p[s]
  BY DEF DescendsAfter
<1> DEFINE T == {t \in 1 .. n : s < t /\ ~(p[t] < p[s])}
<1>2. SUFFICES ASSUME T # {} PROVE FALSE
  OBVIOUS
<1>3. PICK m \in T : \A t \in T : m <= t
  <2>1. T \subseteq Nat
    OBVIOUS
  <2> HIDE DEF T
  <2>2. QED
    BY <1>2, <2>1, LeastNatural
<1>4. m \in 1 .. n /\ s < m /\ ~(p[m] < p[s]) /\ m - 1 \in 1 .. n /\ m - 1 < m /\ ~(m <= m - 1)
  OBVIOUS
<1>5. ~(p[m - 1] < p[m])
  BY <1>1, <1>4
<1>6. p[m - 1] # p[m]
  BY <1>4 DEF Orders
<1>7. p[m] < p[m - 1]
  BY <1>0, <1>4, <1>5, <1>6
<1>8. s # m - 1
  BY <1>4, <1>7
<1>9. m - 1 \notin T
  BY <1>3, <1>4
<1>10. p[m - 1] < p[s]
  BY <1>1, <1>4, <1>8, <1>9
<1>11. QED
  BY <1>0, <1>4, <1>7, <1>10

\* LastIn gives the greatest number of a set of slots.
LEMMA LastOf ==
    ASSUME NEW n \in Nat, NEW S, S \subseteq 1 .. n, S # {}
    PROVE  LastIn(S) \in S /\ \A s \in S : s <= LastIn(S)
<1>1. S \subseteq Int /\ IsFiniteSet(S)
  <2>1. IsFiniteSet(1 .. n) /\ S \in SUBSET (1 .. n)
    BY FS_Interval
  <2>2. IsFiniteSet(S)
    BY <2>1, FS_Subset, Zenon
  <2>3. QED
    BY <2>2
<1>2. PICK m \in S : \A x \in S : x <= m
  BY <1>1, GreatestOfFinite
<1>3. QED
  BY <1>2 DEF LastIn

\* What Descending makes of an order.
LEMMA DescendingIs ==
    ASSUME vectors \in Shells, NEW n, n = Len(vectors), NEW p, Orders(n, p), NEW u \in 1 .. n
    PROVE  /\ Orders(n, Descending(p, u))
           /\ \A t \in 1 .. n : t <= u => Descending(p, u)[t] = p[t]
           /\ DescendsAfter(n, Descending(p, u), u)
<1> DEFINE after == {t \in Slot : t > u}
           rest == {p[s] : s \in after}
           d == Descending(p, u)
<1>0. Slot = 1 .. n /\ n \in Nat
  BY ShellTypes
<1>1. rest \subseteq 1 .. n /\ rest \subseteq Int /\ IsFiniteSet(rest)
  <2>1. \A s \in after : p[s] \in 1 .. n
    BY <1>0 DEF Orders
  <2>2. rest \in SUBSET (1 .. n)
    BY <2>1
  <2>3. IsFiniteSet(1 .. n)
    BY <1>0, FS_Interval
  <2> HIDE DEF rest
  <2>4. IsFiniteSet(rest)
    BY <2>2, <2>3, FS_Subset, Zenon
  <2>5. QED
    BY <1>0, <2>2, <2>4
<1>2. Cardinality(rest) = n - u
  <2> DEFINE g == [s \in 1 .. n - u |-> p[u + s]]
  <2>1. ASSUME NEW s \in 1 .. n - u PROVE u + s \in after /\ u + s \in 1 .. n
    BY <1>0
  <2>2. g \in [1 .. n - u -> rest]
    BY <2>1
  <2>3. \A r \in rest : \E s \in 1 .. n - u : g[s] = r
    <3>1. ASSUME NEW t \in after PROVE \E s \in 1 .. n - u : g[s] = p[t]
      <4>1. t - u \in 1 .. n - u /\ u + (t - u) = t
        BY <1>0
      <4>2. QED
        BY <4>1
    <3>2. QED
      BY <3>1
  <2>4. \A a, b \in 1 .. n - u : g[a] = g[b] => a = b
    <3>1. ASSUME NEW a \in 1 .. n - u, NEW b \in 1 .. n - u, g[a] = g[b] PROVE a = b
      <4>1. u + a = u + b
        BY <2>1, <3>1 DEF Orders
      <4>2. QED
        BY <1>0, <4>1
    <3>2. QED
      BY <3>1
  <2> HIDE DEF g, rest
  <2>5. g \in Surjection(1 .. n - u, rest) /\ g \in Injection(1 .. n - u, rest)
    BY <2>2, <2>3, <2>4 DEF Surjection, Injection, IsInjective
  <2>6. IsFiniteSet(1 .. n - u) /\ Cardinality(1 .. n - u) = n - u
    <3>1. 1 \in Int /\ n - u \in Int /\ (1 > n - u <=> n = u)
      BY <1>0
    <3>2. QED
      BY <3>1, FS_Interval
  <2>7. QED
    BY <2>5, <2>6, FS_Surjection
<1>3. /\ \A k \in 1 .. n - u : Nth(rest, k) \in rest
      /\ \A j, k \in 1 .. n - u : j < k => Nth(rest, j) < Nth(rest, k)
  <2> HIDE DEF rest
  <2>1. QED
    BY <1>1, <1>2, NthCounts
<1>4. \A s \in 1 .. n : d[s] = IF s <= u THEN p[s] ELSE Nth(rest, n + 1 - s)
  BY <1>0 DEF Descending
<1>5. ASSUME NEW s \in 1 .. n, u < s PROVE n + 1 - s \in 1 .. n - u /\ d[s] = Nth(rest, n + 1 - s) /\ d[s] \in rest
  <2>1. n + 1 - s \in 1 .. n - u /\ ~(s <= u)
    BY <1>0, <1>5
  <2> HIDE DEF rest, d
  <2>2. QED
    BY <2>1, <1>3, <1>4
<1>6. \A t \in 1 .. n : t <= u => d[t] = p[t]
  BY <1>4
<1>7. DescendsAfter(n, d, u)
  <2>1. ASSUME NEW s \in 1 .. n, NEW t \in 1 .. n, u < s, s < t PROVE d[t] < d[s]
    <3>1. n + 1 - t < n + 1 - s /\ u < t
      BY <1>0, <2>1
    <3> HIDE DEF rest, d
    <3>2. QED
      BY <1>3, <1>5, <2>1, <3>1
  <2>2. QED
    BY <2>1 DEF DescendsAfter
<1>8. ASSUME NEW s \in 1 .. n, NEW t \in 1 .. n, s < t PROVE d[s] # d[t]
  <2>1. CASE t <= u
    <3>1. d[s] = p[s] /\ d[t] = p[t]
      BY <1>0, <1>6, <1>8, <2>1
    <3>2. QED
      BY <3>1, <1>8 DEF Orders
  <2>2. CASE s <= u /\ u < t
    <3>1. d[s] = p[s] /\ d[t] \in rest
      BY <1>5, <1>6, <2>2
    <3>2. PICK r \in after : d[t] = p[r]
      BY <3>1
    <3>3. r \in 1 .. n /\ r # s
      BY <1>0, <2>2
    <3>4. QED
      BY <3>1, <3>2, <3>3 DEF Orders
  <2>3. CASE u < s
    <3>1. d[t] < d[s] /\ u < t
      BY <1>0, <1>7, <1>8, <2>3 DEF DescendsAfter
    <3>2. d[t] \in Int /\ d[s] \in Int
      BY <1>1, <1>5, <2>3, <3>1
    <3>3. QED
      BY <3>1, <3>2
  <2>4. QED
    BY <1>0, <2>1, <2>2, <2>3
<1>9. ASSUME NEW s \in 1 .. n PROVE d[s] \in 1 .. n
  <2>1. CASE s <= u
    BY <1>6, <2>1 DEF Orders
  <2>2. CASE u < s
    BY <1>1, <1>5, <2>2
  <2>3. QED
    BY <1>0, <2>1, <2>2
<1>10. d = [s \in 1 .. n |-> d[s]]
  BY <1>0 DEF Descending
<1>11. d \in [1 .. n -> 1 .. n]
  <2> HIDE DEF d
  <2>1. QED
    BY <1>9, <1>10
<1>12. Orders(n, d)
  <2> HIDE DEF d
  <2>1. \A s, t \in 1 .. n : d[s] = d[t] => s = t
    <3>1. \A s, t \in 1 .. n : s < t \/ s = t \/ t < s
      BY <1>0
    <3>2. QED
      BY <1>8, <3>1
  <2>2. QED
    BY <1>11, <2>1 DEF Orders
<1>13. QED
  BY <1>6, <1>7, <1>12

\* The order without ascents is the last.
LEMMA NoAscentsLeft ==
    ASSUME vectors \in Shells, NEW n, n = Len(vectors), NEW p, Orders(n, p), Ascents(p) = {},
           NEW f, Orders(n, f)
    PROVE  f = p \/ Ahead(n, f, p)
<1>0. Slot = 1 .. n /\ n \in Nat
  BY ShellTypes
<1>1. \A s \in 1 .. n : 0 + 1 < s => ~(p[s - 1] < p[s])
  BY <1>0 DEF Ascents
<1>2. DescendsAfter(n, p, 0)
  BY <1>0, <1>1, NoAscent
<1>3. \A t \in 1 .. n : t <= 0 => f[t] = p[t]
  OBVIOUS
<1>4. QED
  BY <1>0, <1>2, <1>3, LastOfThose

\* The last ascent: the number before it is the first to change.
LEMMA LastAscent ==
    ASSUME vectors \in Shells, NEW n, n = Len(vectors), NEW p, Orders(n, p), Ascents(p) # {}
    PROVE  /\ LastIn(Ascents(p)) - 1 \in 1 .. n /\ LastIn(Ascents(p)) \in 1 .. n
           /\ p[LastIn(Ascents(p)) - 1] < p[LastIn(Ascents(p))]
           /\ DescendsAfter(n, p, LastIn(Ascents(p)) - 1)
<1> DEFINE i == LastIn(Ascents(p))
<1>0. Slot = 1 .. n /\ n \in Nat
  BY ShellTypes
<1>1. Ascents(p) \subseteq 1 .. n
  BY <1>0 DEF Ascents
<1>2. i \in Ascents(p) /\ \A s \in Ascents(p) : s <= i
  BY <1>0, <1>1, LastOf
<1>3. i \in 1 .. n /\ i - 1 \in 1 .. n /\ p[i - 1] < p[i]
  <2> HIDE DEF i
  <2>1. QED
    BY <1>0, <1>2 DEF Ascents
<1>4. ASSUME NEW s \in 1 .. n, (i - 1) + 1 < s PROVE ~(p[s - 1] < p[s])
  <2> HIDE DEF i
  <2>1. s \in Slot \ {1} /\ ~(s <= i)
    BY <1>0, <1>3, <1>4
  <2>2. QED
    BY <1>2, <2>1 DEF Ascents
<1>5. DescendsAfter(n, p, i - 1)
  <2> HIDE DEF i
  <2>1. i - 1 \in Nat
    BY <1>3
  <2>2. QED
    BY <1>0, <1>4, <2>1, NoAscent
<1>6. QED
  BY <1>3, <1>5

\* The next permutation begins like p, has a greater number at a, and ascends.
LEMMA NextIs ==
    ASSUME vectors \in Shells, NEW n, n = Len(vectors), NEW p, Orders(n, p), Ascents(p) # {},
           NEW a, a = LastIn(Ascents(p)) - 1, NEW q, q = NextPermutation(p)
    PROVE  /\ Orders(n, q) /\ a \in 1 .. n
           /\ \A t \in 1 .. n : t < a => q[t] = p[t]
           /\ p[a] < q[a] /\ \A t \in 1 .. n : a < t /\ p[a] < p[t] => q[a] <= p[t]
           /\ AscendsAfter(n, q, a)
<1> DEFINE i == LastIn(Ascents(p))
           above == {s \in Slot : s >= i /\ p[s] > p[i - 1]}
           j == LastIn(above)
           swapped == [p EXCEPT ![i - 1] = p[j], ![j] = p[i - 1]]
           back(s) == IF s < i THEN s ELSE n + i - s
<1>0. Slot = 1 .. n /\ n \in Nat
  BY ShellTypes
<1>1. i \in 1 .. n /\ a \in 1 .. n /\ a = i - 1 /\ i = a + 1 /\ p[a] < p[i] /\ DescendsAfter(n, p, a)
  <2>1. a = i - 1
    OBVIOUS
  <2>2. i \in 1 .. n /\ i - 1 \in 1 .. n /\ p[i - 1] < p[i] /\ DescendsAfter(n, p, i - 1)
    BY LastAscent
  <2> HIDE DEF i
  <2>3. QED
    BY <2>1, <2>2
<1>q. q = [s \in 1 .. n |-> swapped[back(s)]]
  BY <1>0 DEF NextPermutation
<1> HIDE DEF i
<1>p. \A s \in 1 .. n : p[s] \in 1 .. n
  BY DEF Orders
<1>2. i \in above /\ above \subseteq 1 .. n
  BY <1>0, <1>1, <1>p
<1>3. j \in above /\ \A s \in above : s <= j
  <2> HIDE DEF above
  <2>1. QED
    BY <1>0, <1>2, LastOf
<1> HIDE DEF j
<1>4. j \in 1 .. n /\ a < j /\ p[a] < p[j]
  BY <1>0, <1>1, <1>3, <1>p
<1>5. ASSUME NEW s \in 1 .. n, j < s PROVE p[s] < p[a]
  <2>1. s \notin above
    BY <1>0, <1>3, <1>4, <1>5
  <2>2. ~(p[s] > p[a])
    BY <1>0, <1>1, <1>4, <1>5, <2>1
  <2>3. s # a
    BY <1>4, <1>5
  <2>4. p[s] # p[a]
    BY <1>1, <2>3 DEF Orders
  <2>5. QED
    BY <1>1, <1>p, <2>2, <2>4
<1>6. \A s \in 1 .. n : swapped[s] = IF s = j THEN p[a] ELSE IF s = a THEN p[j] ELSE p[s]
  BY <1>1, <1>4 DEF Orders
<1> HIDE DEF swapped
<1>7. DescendsAfter(n, swapped, a)
  <2>1. ASSUME NEW s \in 1 .. n, NEW t \in 1 .. n, a < s, s < t PROVE swapped[t] < swapped[s]
    <3>1. p[t] < p[s] /\ s # a /\ t # a
      BY <1>1, <2>1 DEF DescendsAfter
    <3>2. CASE s = j
      <4>1. swapped[s] = p[a] /\ swapped[t] = p[t]
        BY <1>6, <2>1, <3>1, <3>2
      <4>2. QED
        BY <1>5, <2>1, <3>2, <4>1
    <3>3. CASE t = j
      <4>1. swapped[s] = p[s] /\ swapped[t] = p[a]
        BY <1>6, <2>1, <3>1, <3>3
      <4>2. QED
        BY <1>1, <1>4, <1>p, <3>1, <3>3, <4>1
    <3>4. CASE s # j /\ t # j
      BY <1>6, <3>1, <3>4
    <3>5. QED
      BY <3>2, <3>3, <3>4
  <2>2. QED
    BY <2>1 DEF DescendsAfter
<1>8. \A s \in 1 .. n : q[s] = swapped[back(s)] /\ back(s) \in 1 .. n
  <2>1. \A s \in 1 .. n : back(s) \in 1 .. n
    BY <1>0, <1>1
  <2> HIDE DEF back
  <2>2. \A s \in 1 .. n : q[s] = swapped[back(s)]
    BY <1>q
  <2>3. QED
    BY <2>1, <2>2
<1>9. q[a] = p[j] /\ \A t \in 1 .. n : t < a => q[t] = p[t]
  <2>1. \A t \in 1 .. n : t <= a => back(t) = t /\ t # j
    BY <1>1, <1>4
  <2>2. q[a] = swapped[a] /\ a # j
    BY <1>1, <1>8, <2>1
  <2>3. ASSUME NEW t \in 1 .. n, t < a PROVE q[t] = swapped[t] /\ t # j /\ t # a
    <3>1. t <= a /\ t # a
      BY <1>1, <2>3
    <3> HIDE DEF back
    <3>2. QED
      BY <1>8, <2>1, <3>1
  <2>4. QED
    BY <1>1, <1>6, <2>2, <2>3
<1>10. \A t \in 1 .. n : a < t /\ p[a] < p[t] => q[a] <= p[t]
  <2>1. ASSUME NEW t \in 1 .. n, a < t, p[a] < p[t] PROVE p[j] <= p[t]
    <3>1. ~(j < t)
      BY <1>1, <1>5, <1>p, <2>1
    <3>2. t < j => p[j] < p[t]
      BY <1>1, <1>4, <2>1 DEF DescendsAfter
    <3>3. QED
      BY <1>4, <1>p, <3>1, <3>2
  <2>2. QED
    BY <1>9, <2>1
<1>11. AscendsAfter(n, q, a)
  <2>1. ASSUME NEW s \in 1 .. n, NEW t \in 1 .. n, a < s, s < t PROVE q[s] < q[t]
    <3>1. /\ back(s) = n + i - s /\ back(t) = n + i - t
          /\ back(s) \in 1 .. n /\ back(t) \in 1 .. n /\ a < back(t) /\ back(t) < back(s)
      BY <1>0, <1>1, <2>1
    <3>2. swapped[back(s)] < swapped[back(t)]
      BY <1>7, <3>1 DEF DescendsAfter
    <3>3. QED
      BY <1>8, <3>2
  <2>2. QED
    BY <2>1 DEF AscendsAfter
<1>12. \A s \in 1 .. n : swapped[s] \in 1 .. n
  BY <1>1, <1>4, <1>6, <1>p
<1>13. \A s, t \in 1 .. n : swapped[s] = swapped[t] => s = t
  <2>1. \A s, t \in 1 .. n : p[s] = p[t] => s = t
    BY DEF Orders
  <2>2. QED
    BY <1>1, <1>4, <1>6, <2>1
<1>14. \A s, t \in 1 .. n : back(s) = back(t) => s = t
  BY <1>0, <1>1
<1>15. q \in [1 .. n -> 1 .. n]
  <2>1. \A s \in 1 .. n : swapped[back(s)] \in 1 .. n
    BY <1>8, <1>12
  <2>2. QED
    BY <1>q, <2>1
<1>16. \A s, t \in 1 .. n : q[s] = q[t] => s = t
  <2> HIDE DEF back
  <2>1. QED
    BY <1>8, <1>13, <1>14
<1>17. QED
  BY <1>1, <1>4, <1>9, <1>10, <1>11, <1>15, <1>16 DEF Orders

\* Nothing is between a permutation and the next.
LEMMA NextFollows ==
    ASSUME vectors \in Shells, NEW n, n = Len(vectors), NEW p, Orders(n, p), Ascents(p) # {},
           NEW f, Orders(n, f), Ahead(n, f, NextPermutation(p))
    PROVE  f = p \/ Ahead(n, f, p)
<1> DEFINE q == NextPermutation(p)
           a == LastIn(Ascents(p)) - 1
<1>0. n \in Nat
  BY ShellTypes
<1>1. /\ Orders(n, q) /\ a \in 1 .. n
      /\ \A t \in 1 .. n : t < a => q[t] = p[t]
      /\ p[a] < q[a] /\ \A t \in 1 .. n : a < t /\ p[a] < p[t] => q[a] <= p[t]
      /\ AscendsAfter(n, q, a)
  BY NextIs
<1>2. DescendsAfter(n, p, a)
  BY LastAscent
<1> HIDE DEF q, a
<1>3. PICK m \in 1 .. n : f[m] < q[m] /\ \A t \in 1 .. n : t < m => f[t] = q[t]
  BY DEF Ahead, q
<1>p. \A s \in 1 .. n : p[s] \in Int /\ q[s] \in Int /\ f[s] \in Int
  BY <1>1 DEF Orders
<1>r. LeftOf(n, p, f) /\ LeftOf(n, q, f)
  BY <1>0, <1>1, RestAlike
<1>4. CASE m < a
  <2>1. f[m] < p[m] /\ \A t \in 1 .. n : t < m => f[t] = p[t]
    <3>1. \A t \in 1 .. n : t < m => t < a
      BY <1>1, <1>4
    <3>2. QED
      BY <1>1, <1>3, <1>4, <3>1
  <2>2. QED
    BY <2>1 DEF Ahead
<1>5. CASE m = a
  <2>1. \A t \in 1 .. n : t < a => f[t] = p[t]
    BY <1>1, <1>3, <1>5
  <2>2. CASE f[a] < p[a]
    BY <1>1, <2>1, <2>2 DEF Ahead
  <2>3. CASE f[a] = p[a]
    <3>1. \A t \in 1 .. n : t <= a => f[t] = p[t]
      BY <1>1, <2>1, <2>3
    <3>2. a \in Nat
      BY <1>1
    <3>3. QED
      BY <1>0, <1>2, <3>1, <3>2, LastOfThose
  <2>4. CASE p[a] < f[a]
    <3>1. PICK t \in 1 .. n : t >= a /\ f[a] = p[t]
      BY <1>1, <1>r, <2>1 DEF LeftOf
    <3>2. t # a
      BY <1>1, <1>p, <2>4, <3>1
    <3>3. a < t /\ p[a] < p[t]
      BY <1>1, <2>4, <3>1, <3>2
    <3>4. q[a] <= f[a]
      BY <1>1, <3>1, <3>3
    <3>5. QED
      BY <1>1, <1>3, <1>5, <1>p, <3>4
  <2>5. QED
    BY <1>1, <1>p, <2>2, <2>3, <2>4
<1>6. CASE a < m
  <2>1. PICK t \in 1 .. n : t >= m /\ f[m] = q[t]
    BY <1>3, <1>r DEF LeftOf
  <2>2. m < t => q[m] < q[t]
    BY <1>1, <1>6 DEF AscendsAfter
  <2>3. QED
    BY <1>3, <1>p, <2>1, <2>2
<1>7. QED
  BY <1>1, <1>4, <1>5, <1>6

\* A leap only passes what begins alike.
LEMMA LeapPasses ==
    ASSUME vectors \in Shells, NEW n, n = Len(vectors), NEW p, Orders(n, p), NEW u \in 1 .. n,
           NEW f, Orders(n, f), f = LastLike(p, u) \/ Ahead(n, f, LastLike(p, u))
    PROVE  Ahead(n, f, p) \/ \A t \in 1 .. n : t <= u => f[t] = p[t]
<1> DEFINE r == LastLike(p, u)
<1>1. \A t \in 1 .. n : t <= u => r[t] = p[t]
  BY DescendingIs DEF LastLike
<1> HIDE DEF r
<1>2. CASE f = r
  BY <1>1, <1>2
<1>3. CASE Ahead(n, f, r)
  <2>1. PICK m \in 1 .. n : f[m] < r[m] /\ \A t \in 1 .. n : t < m => f[t] = r[t]
    BY <1>3 DEF Ahead
  <2>2. CASE m <= u
    <3>1. f[m] < p[m] /\ \A t \in 1 .. n : t < m => f[t] = p[t]
      BY <1>1, <2>1, <2>2
    <3>2. QED
      BY <3>1 DEF Ahead
  <2>3. CASE u < m
    <3>1. \A t \in 1 .. n : t <= u => t < m
      BY <2>3
    <3>2. QED
      BY <1>1, <2>1, <3>1
  <2>4. QED
    BY <2>2, <2>3
<1>4. QED
  BY <1>2, <1>3 DEF r

----------------------------------------------------------------------------
(* The enumeration of the symmetries *)

Discovered(f) == \E i \in DOMAIN symmetries : Moves(symmetries[i].permutation) = Moves(f)

SymmetryRecords == [permutation : [Slot -> Slot], transformation : [Axis -> [Axis -> Int]]]

SymmetriesSound ==
    /\ symmetries \in Seq(SymmetryRecords)
    /\ \A i \in DOMAIN symmetries : Realizes(symmetries[i].transformation, symmetries[i].permutation)
    /\ \A i, j \in DOMAIN symmetries :
          symmetries[i].transformation = symmetries[j].transformation => i = j

\* What the next permutation need not look at again has been seen to be right.
AgreesBefore ==
    ~BasisChanged =>
        /\ transformation = BasisImages(permutation) /\ IsOrthogonalMatrix(transformation)
        /\ \A s \in Slot : s < ChangedFrom => Takes(transformation, vectors[s], vectors[permutation[s]])

\* The isometries that come before the permutation that is next are found.
PermuteSound ==
    /\ Permutes(permutation) /\ lastPermutation \in [Slot -> Nat] /\ permutation # lastPermutation
    /\ AgreesBefore
    /\ \A f \in Isometries : Ahead(Len(vectors), f, permutation) => Discovered(f)

Isometric == \A f \in Isometries : Proper(BasisImages(f)) => Discovered(f)

SymmetryInv ==
    /\ vectors \in Shells
    /\ stage \in {"permute", "retain", "multiply", "share", "return", "rejected"}
    /\ stage # "rejected" => ~NoBasis /\ SymmetriesSound
    /\ stage = "permute" => PermuteSound
    /\ stage = "retain" => \A f \in Isometries : Discovered(f)
    /\ stage \in {"multiply", "share", "return"} =>
          Isometric /\ \A i \in DOMAIN symmetries : Proper(symmetries[i].transformation)
    /\ ProductsPlaced
    /\ stage # "return" => adapted = <<>>
    /\ AdaptedTruthful

\* What is said of the shell alone stays.
LEMMA ShellKept ==
    ASSUME vectors' = vectors
    PROVE  /\ Slot' = Slot /\ BasisIndices' = BasisIndices /\ Basis' = Basis /\ NoBasis' = NoBasis
           /\ Isometries' = Isometries
           /\ \A T, v, w : Takes(T, v, w)' = Takes(T, v, w)
           /\ \A T : IsOrthogonalMatrix(T)' = IsOrthogonalMatrix(T) /\ Proper(T)' = Proper(T)
           /\ \A p : BasisImages(p)' = BasisImages(p) /\ Permutes(p)' = Permutes(p) /\ Moves(p)' = Moves(p)
           /\ \A T, p : Realizes(T, p)' = Realizes(T, p)
<1>1. Slot' = Slot
  BY DEF Slot
<1>2. SecondOf' = SecondOf
  BY <1>1 DEF SecondOf
<1>3. ThirdOf' = ThirdOf
  BY <1>1, <1>2 DEF ThirdOf
<1>4. BasisIndices' = BasisIndices /\ NoBasis' = NoBasis
  BY <1>2, <1>3 DEF BasisIndices, NoBasis
<1>5. Basis' = Basis
  BY <1>4 DEF Basis
<1>6. Isometries' = Isometries
  BY <1>1 DEF Isometries
<1>7. \A T, v, w : Takes(T, v, w)' = Takes(T, v, w)
  BY <1>5 DEF Takes, Image
<1>8. \A T : IsOrthogonalMatrix(T)' = IsOrthogonalMatrix(T) /\ Proper(T)' = Proper(T)
  BY <1>5 DEF IsOrthogonalMatrix, Proper
<1>9. \A p : BasisImages(p)' = BasisImages(p)
  BY <1>4 DEF BasisImages
<1>10. \A p : Permutes(p)' = Permutes(p)
  BY <1>1 DEF Permutes
<1>11. \A p : Moves(p)' = Moves(p)
  BY <1>1 DEF Moves
<1>12. \A T, p : Realizes(T, p)' = Realizes(T, p)
  BY <1>1, <1>7, <1>8, <1>9, <1>10 DEF Realizes
<1>13. QED
  BY <1>1, <1>4, <1>5, <1>6, <1>7, <1>8, <1>9, <1>10, <1>11, <1>12

LEMMA PermutesIsOrder ==
    ASSUME vectors \in Shells
    PROVE  \A p : Permutes(p) <=> Orders(Len(vectors), p)
BY ShellTypes DEF Permutes, Orders

LEMMA IsometryPermutes == \A f \in Isometries : Permutes(f)
BY DEF Isometries, Permutes

\* A leap from u leaves out only isometries that begin like the permutation
\* up to u, and changes the permutation no later than there.
Passed(f, p, u) == Ahead(Len(vectors), f, p) \/ \A t \in Slot : t <= u => f[t] = p[t]

LEMMA LeapFromIs ==
    ASSUME vectors \in Shells, Permutes(permutation), NEW u \in Slot, LeapFrom(u), stage = "permute"
    PROVE  /\ vectors' = vectors /\ stage' \in {"permute", "retain"}
           /\ UNCHANGED <<inverseProduct, localVectors, adapted>>
           /\ stage' = "permute" =>
                 /\ Permutes(permutation') /\ lastPermutation' = permutation
                 /\ permutation' # lastPermutation'
                 /\ ChangedFrom' <= u /\ ChangedFrom' \in Slot
                 /\ \A t \in Slot : t < ChangedFrom' => permutation'[t] = permutation[t]
                 /\ \A f : Permutes(f) /\ Ahead(Len(vectors), f, permutation') => Passed(f, permutation, u)
           /\ stage' = "retain" => \A f : Permutes(f) => Passed(f, permutation, u)
<1> DEFINE n == Len(vectors)
           p == permutation
           r == LastLike(p, u)
           q == NextPermutation(r)
           a == LastIn(Ascents(r)) - 1
<1>0. Slot = 1 .. n /\ n \in Nat /\ u \in 1 .. n /\ Orders(n, p)
  BY ShellTypes, PermutesIsOrder
<1>1. /\ Orders(n, r) /\ \A t \in 1 .. n : t <= u => r[t] = p[t]
      /\ DescendsAfter(n, r, u)
  BY <1>0, DescendingIs DEF LastLike
<1>2. /\ lastPermutation' = p /\ vectors' = vectors
      /\ Ascents(r) # {} => permutation' = q /\ stage' = "permute"
      /\ Ascents(r) = {} => stage' = "retain"
      /\ UNCHANGED <<inverseProduct, localVectors, adapted>>
  BY DEF LeapFrom
<1> HIDE DEF r
<1>3. ASSUME NEW f, Permutes(f), f = r \/ Ahead(n, f, r)
      PROVE  Passed(f, p, u)
  <2>1. Orders(n, f)
    BY <1>3, PermutesIsOrder
  <2>2. Ahead(n, f, p) \/ \A t \in 1 .. n : t <= u => f[t] = p[t]
    BY <1>0, <1>3, <2>1, LeapPasses DEF r
  <2>3. QED
    BY <1>0, <2>2 DEF Passed
<1>4. CASE Ascents(r) = {}
  <2>1. ASSUME NEW f, Permutes(f) PROVE Passed(f, p, u)
    <3>1. Orders(n, f)
      BY <2>1, PermutesIsOrder
    <3>2. f = r \/ Ahead(n, f, r)
      BY <1>0, <1>1, <1>4, <3>1, NoAscentsLeft
    <3>3. QED
      BY <1>3, <2>1, <3>2
  <2>2. QED
    BY <1>2, <1>4, <2>1
<1>5. CASE Ascents(r) # {}
  <2> HIDE DEF q, a
  <2>1. /\ Orders(n, q) /\ a \in 1 .. n
        /\ \A t \in 1 .. n : t < a => q[t] = r[t]
        /\ r[a] < q[a]
    BY <1>1, <1>5, NextIs DEF q, a
  <2>2. a + 1 \in 1 .. n /\ r[a] < r[a + 1]
    <3>1. LastIn(Ascents(r)) \in 1 .. n /\ r[LastIn(Ascents(r)) - 1] < r[LastIn(Ascents(r))]
      BY <1>1, <1>5, LastAscent
    <3>2. LastIn(Ascents(r)) = a + 1
      BY <3>1 DEF a
    <3>3. QED
      BY <3>1, <3>2 DEF a
  <2>3. a <= u
    <3>1. SUFFICES ASSUME u < a PROVE FALSE
      BY <1>0, <2>1
    <3>2. r[a + 1] < r[a]
      BY <1>1, <2>1, <2>2, <3>1 DEF DescendsAfter
    <3>3. r[a] \in Int /\ r[a + 1] \in Int
      BY <1>1, <2>1, <2>2 DEF Orders
    <3>4. QED
      BY <2>2, <3>2, <3>3
  <2>4. \A t \in 1 .. n : t < a => q[t] = p[t]
    BY <1>0, <1>1, <2>1, <2>3
  <2>5. q[a] # p[a]
    <3>1. r[a] = p[a] /\ r[a] \in Int /\ q[a] \in Int
      BY <1>1, <2>1, <2>3 DEF Orders
    <3>2. QED
      BY <2>1, <3>1
  <2>6. permutation' = q /\ stage' = "permute" /\ lastPermutation' = p
    BY <1>2, <1>5
  <2>7. ChangedFrom' = a
    <3> DEFINE C == {s \in Slot : q[s] # p[s]}
    <3>1. ChangedFrom' = FirstIn(C)
      <4>1. Slot' = Slot
        BY <1>2, ShellKept
      <4>2. QED
        BY <2>6, <4>1 DEF ChangedFrom
    <3>2. a \in C /\ \A s \in C : a <= s
      <4>1. \A s \in 1 .. n : ~(a <= s) => s < a
        BY <2>1
      <4>2. QED
        BY <1>0, <2>1, <2>4, <2>5, <4>1
    <3>3. FirstIn(C) \in C /\ \A s \in C : FirstIn(C) <= s
      <4>1. C \subseteq Slot /\ C # {}
        BY <3>2
      <4> HIDE DEF C
      <4>2. QED
        BY <4>1, FirstOf
    <3>4. FirstIn(C) \in 1 .. n
      BY <1>0, <3>3
    <3> HIDE DEF C
    <3>5. QED
      BY <2>1, <3>1, <3>2, <3>3, <3>4
  <2>8. ASSUME NEW f, Permutes(f), Ahead(n, f, q) PROVE Passed(f, p, u)
    <3>1. Orders(n, f)
      BY <2>8, PermutesIsOrder
    <3>2. f = r \/ Ahead(n, f, r)
      BY <1>1, <1>5, <2>8, <3>1, NextFollows DEF q
    <3>3. QED
      BY <1>3, <2>8, <3>2
  <2>9. Permutes(q)
    BY <2>1, PermutesIsOrder
  <2>10. q # p
    BY <2>5
  <2>11. QED
    BY <1>0, <1>2, <2>1, <2>3, <2>4, <2>6, <2>7, <2>8, <2>9, <2>10
<1>6. QED
  BY <1>4, <1>5

\* The first slot that has changed.
LEMMA ChangedFromIs ==
    ASSUME vectors \in Shells, Permutes(permutation), lastPermutation \in [Slot -> Nat],
           permutation # lastPermutation
    PROVE  ChangedFrom \in Slot
<1> DEFINE C == {s \in Slot : permutation[s] # lastPermutation[s]}
<1>1. permutation \in [Slot -> Slot]
  BY DEF Permutes
<1>2. C # {}
  <2>1. SUFFICES ASSUME \A s \in Slot : permutation[s] = lastPermutation[s]
                 PROVE  FALSE
    OBVIOUS
  <2>2. QED
    BY <1>1, <2>1
<1>3. C \subseteq Slot
  OBVIOUS
<1> HIDE DEF C
<1>4. FirstIn(C) \in C
  BY <1>2, <1>3, FirstOf
<1>5. QED
  BY <1>3, <1>4 DEF C, ChangedFrom

\* The matrix that is tried belongs to the permutation, and when it is not
\* looked at again it is orthogonal.
LEMMA TransformedIs ==
    ASSUME Shell, PermuteSound
    PROVE  /\ Transformed = BasisImages(permutation)
           /\ (BasisChanged => IsOrthogonalMatrix(Transformed)) => IsOrthogonalMatrix(Transformed)
           /\ \A s \in Slot \ InvalidFrom : (BasisChanged => IsOrthogonalMatrix(Transformed)) =>
                 Takes(Transformed, vectors[s], vectors[permutation[s]])
<1>1. CASE BasisChanged
  <2>1. Transformed = BasisImages(permutation)
    BY <1>1 DEF Transformed, BasisImages
  <2>2. \A s \in Slot \ InvalidFrom : Takes(Transformed, vectors[s], vectors[permutation[s]])
    BY <1>1 DEF InvalidFrom
  <2>3. QED
    BY <1>1, <2>1, <2>2
<1>2. CASE ~BasisChanged
  <2>1. Transformed = transformation
    BY <1>2 DEF Transformed
  <2>2. /\ transformation = BasisImages(permutation) /\ IsOrthogonalMatrix(transformation)
        /\ \A s \in Slot : s < ChangedFrom => Takes(transformation, vectors[s], vectors[permutation[s]])
    BY <1>2 DEF PermuteSound, AgreesBefore
  <2>3. ASSUME NEW s \in Slot \ InvalidFrom
        PROVE  Takes(Transformed, vectors[s], vectors[permutation[s]])
    <3>1. ChangedFrom \in Int /\ s \in Int
      BY ChangedFromIs, ShellTypes DEF Shell, PermuteSound
    <3>2. ~(s >= ChangedFrom) => Takes(Transformed, vectors[s], vectors[permutation[s]])
      BY <2>1, <2>2, <3>1
    <3>3. s >= ChangedFrom => Takes(Transformed, vectors[s], vectors[permutation[s]])
      BY DEF InvalidFrom
    <3>4. QED
      BY <3>2, <3>3
  <2>4. QED
    BY <2>1, <2>2, <2>3
<1>3. QED
  BY <1>1, <1>2

\* What begins like the permutation up to the end of the basis has its matrix.
LEMMA BasisByPrefix ==
    ASSUME Shell, NEW f, NEW p, \A t \in Slot : t <= BasisIndices[3] => f[t] = p[t]
    PROVE  BasisImages(f) = BasisImages(p)
<1>1. \A i \in Axis : BasisIndices[i] \in Slot /\ BasisIndices[i] <= BasisIndices[3]
  <2>1. \A i \in Axis : BasisIndices[i] \in Slot /\ BasisIndices[i] \in Int
    BY BasisSound, ShellTypes DEF Shell
  <2>2. Axis = {1, 2, 3} /\ BasisIndices[1] < BasisIndices[2] /\ BasisIndices[2] < BasisIndices[3]
    BY BasisSound, ShellTypes DEF Shell
  <2>3. QED
    BY <2>1, <2>2
<1>2. QED
  BY <1>1 DEF BasisImages

\* The symmetries found so far are among the isometries.
LEMMA SymmetriesKept ==
    ASSUME vectors' = vectors, symmetries' = symmetries, SymmetriesSound
    PROVE  SymmetriesSound' /\ \A f : Discovered(f) => Discovered(f)'
<1>1. /\ Slot' = Slot /\ \A T, p : Realizes(T, p)' = Realizes(T, p)
      /\ \A p : Moves(p)' = Moves(p)
  BY ShellKept
<1>2. SymmetryRecords' = SymmetryRecords
  BY <1>1 DEF SymmetryRecords
<1>3. SymmetriesSound'
  <2>1. \A i \in DOMAIN symmetries : Realizes(symmetries[i].transformation, symmetries[i].permutation)'
    BY <1>1 DEF SymmetriesSound
  <2>2. QED
    BY <1>2, <2>1 DEF SymmetriesSound
<1>4. QED
  BY <1>1, <1>3 DEF Discovered

\* The invariant after a leap, from what the step has found out.
LEMMA LeapKeeps ==
    ASSUME SymmetryInv, stage = "permute", NEW u \in Slot, LeapFrom(u),
           transformation' = Transformed, SymmetriesSound',
           \A f : Discovered(f) => Discovered(f)',
           \A f \in Isometries : (\A t \in Slot : t <= u => f[t] = permutation[t]) => Discovered(f)',
           \/ u <= BasisIndices[3]
           \/ /\ IsOrthogonalMatrix(Transformed)
              /\ \A s \in Slot : s < u => Takes(Transformed, vectors[s], vectors[permutation[s]])
    PROVE  SymmetryInv'
<1>1. Shell /\ PermuteSound /\ vectors \in Shells /\ Permutes(permutation) /\ ~NoBasis
  BY DEF SymmetryInv, Shell, PermuteSound
<1>2. /\ vectors' = vectors /\ stage' \in {"permute", "retain"}
      /\ UNCHANGED <<inverseProduct, localVectors, adapted>>
      /\ stage' = "permute" =>
            /\ Permutes(permutation') /\ lastPermutation' = permutation
            /\ permutation' # lastPermutation'
            /\ ChangedFrom' <= u /\ ChangedFrom' \in Slot
            /\ \A t \in Slot : t < ChangedFrom' => permutation'[t] = permutation[t]
            /\ \A f : Permutes(f) /\ Ahead(Len(vectors), f, permutation') => Passed(f, permutation, u)
      /\ stage' = "retain" => \A f : Permutes(f) => Passed(f, permutation, u)
  BY <1>1, LeapFromIs
<1>3. /\ Slot' = Slot /\ BasisIndices' = BasisIndices /\ NoBasis' = NoBasis /\ Isometries' = Isometries
      /\ \A T, v, w : Takes(T, v, w)' = Takes(T, v, w)
      /\ \A T : IsOrthogonalMatrix(T)' = IsOrthogonalMatrix(T)
      /\ \A p : BasisImages(p)' = BasisImages(p) /\ Permutes(p)' = Permutes(p)
  BY <1>2, ShellKept
<1>4. ASSUME NEW f \in Isometries, Passed(f, permutation, u)
      PROVE  Discovered(f)'
  <2>1. CASE Ahead(Len(vectors), f, permutation)
    <3>1. Discovered(f)
      BY <1>1, <2>1 DEF PermuteSound
    <3>2. QED
      BY <3>1
  <2>2. CASE \A t \in Slot : t <= u => f[t] = permutation[t]
    BY <2>2
  <2>3. QED
    BY <1>4, <2>1, <2>2 DEF Passed
<1>5. adapted' = <<>>
  BY <1>2 DEF SymmetryInv
<1>6. AdaptedTruthful' /\ ProductsPlaced'
  <2>1. DOMAIN adapted' = {}
    BY <1>5
  <2>2. AdaptedTruthful'
    BY <2>1 DEF AdaptedTruthful
  <2>3. stage' # "share" /\ stage' # "return"
    BY <1>2
  <2>4. QED
    BY <2>2, <2>3 DEF ProductsPlaced
<1>7. CASE stage' = "retain"
  <2>1. \A f \in Isometries : Discovered(f)'
    BY <1>2, <1>4, <1>7, IsometryPermutes
  <2>2. (\A f \in Isometries : Discovered(f))'
    BY <1>3, <2>1
  <2>3. QED
    BY <1>1, <1>2, <1>3, <1>5, <1>6, <1>7, <2>2 DEF SymmetryInv
<1>8. CASE stage' = "permute"
  <2>1. Permutes(permutation)'
    BY <1>2, <1>3, <1>8
  <2>2. (lastPermutation \in [Slot -> Nat] /\ permutation # lastPermutation)'
    <3>1. permutation \in [Slot -> Slot] /\ Slot \subseteq Nat
      BY <1>1, ShellTypes DEF Permutes
    <3>2. permutation \in [Slot -> Nat]
      BY <3>1
    <3>3. QED
      BY <1>2, <1>3, <1>8, <3>2
  <2>3. AgreesBefore'
    <3>1. SUFFICES ASSUME ~BasisChanged'
                   PROVE  /\ transformation' = BasisImages(permutation') /\ IsOrthogonalMatrix(transformation')
                          /\ \A s \in Slot : s < ChangedFrom' =>
                                Takes(transformation', vectors[s], vectors[permutation'[s]])
      BY <1>2, <1>3 DEF AgreesBefore
    <3> DEFINE c == ChangedFrom'
    <3>2. c \in Int /\ u \in Int /\ BasisIndices[3] \in Int /\ \A s \in Slot : s \in Int
      BY <1>1, <1>2, <1>8, ShellTypes, BasisSound
    <3>3. ~(c <= BasisIndices[3])
      BY <1>3, <3>1 DEF BasisChanged
    <3>4. c <= u /\ \A t \in Slot : t < c => permutation'[t] = permutation[t]
      BY <1>2, <1>8
    <3> HIDE DEF c
    <3>5. \A t \in Slot : t <= BasisIndices[3] => permutation'[t] = permutation[t]
      BY <3>2, <3>3, <3>4
    <3>6. /\ IsOrthogonalMatrix(Transformed)
          /\ \A s \in Slot : s < u => Takes(Transformed, vectors[s], vectors[permutation[s]])
      BY <3>2, <3>3, <3>4
    <3>7. transformation' = BasisImages(permutation')
      BY <1>1, <3>5, BasisByPrefix, TransformedIs
    <3>8. \A s \in Slot : s < c => s < u
      BY <3>2, <3>4
    <3>9. QED
      BY <3>4, <3>6, <3>7, <3>8 DEF c
  <2>4. \A f \in Isometries : Ahead(Len(vectors), f, permutation') => Discovered(f)'
    BY <1>2, <1>4, <1>8, IsometryPermutes
  <2>5. (\A f \in Isometries : Ahead(Len(vectors), f, permutation) => Discovered(f))'
    BY <1>2, <1>3, <2>4
  <2>6. PermuteSound'
    BY <2>1, <2>2, <2>3, <2>5 DEF PermuteSound
  <2>7. QED
    BY <1>1, <1>2, <1>3, <1>5, <1>6, <1>8, <2>6 DEF SymmetryInv
<1>9. QED
  BY <1>2, <1>7, <1>8

\* Nothing comes before the first permutation, and all of it is looked at.
LEMMA SymmetryInitSound == SymmetryInit => SymmetryInv
<1> SUFFICES ASSUME SymmetryInit PROVE SymmetryInv
  OBVIOUS
<1>1. vectors \in Shells /\ symmetries = <<>> /\ adapted = <<>>
      /\ permutation = [s \in Slot |-> s] /\ lastPermutation = [s \in Slot |-> 0]
      /\ stage = IF NoBasis THEN "rejected" ELSE "permute"
  BY DEF SymmetryInit
<1>2. DOMAIN symmetries = {} /\ DOMAIN adapted = {}
  BY <1>1
<1>3. SymmetriesSound
  <2>1. symmetries \in Seq(SymmetryRecords)
    BY <1>1
  <2>2. QED
    BY <1>2, <2>1 DEF SymmetriesSound
<1>4. AdaptedTruthful /\ ProductsPlaced
  BY <1>1, <1>2 DEF AdaptedTruthful, ProductsPlaced
<1>5. ASSUME stage = "permute" PROVE PermuteSound
  <2>0. Shell
    BY <1>1, <1>5 DEF Shell
  <2>1. Slot = 1 .. Len(vectors) /\ Len(vectors) \in Nat /\ 1 \in Slot /\ \A s \in Slot : s \in Nat /\ s >= 1
    BY <1>1, ShellTypes
  <2>2. Permutes(permutation)
    BY <1>1 DEF Permutes
  <2>3. lastPermutation \in [Slot -> Nat] /\ permutation[1] # lastPermutation[1]
    BY <1>1, <2>1
  <2>4. BasisChanged
    <3> DEFINE C == {s \in Slot : permutation[s] # lastPermutation[s]}
    <3>1. 1 \in C
      BY <2>1, <2>3
    <3>2. FirstIn(C) \in C /\ FirstIn(C) <= 1
      <4>1. C \subseteq Slot /\ C # {}
        BY <3>1
      <4> HIDE DEF C
      <4>2. QED
        BY <1>1, <3>1, <4>1, FirstOf
    <3>3. FirstIn(C) \in Int
      BY <2>1, <3>2
    <3>4. ChangedFrom <= 1 /\ ChangedFrom \in Int
      BY <3>2, <3>3 DEF ChangedFrom
    <3>5. 1 < BasisIndices[3] /\ BasisIndices[3] \in Int
      <4>1. 1 < BasisIndices[2] /\ BasisIndices[2] < BasisIndices[3] /\ 2 \in Axis /\ 3 \in Axis
        BY <1>1, <2>0, BasisSound, ShellTypes
      <4>2. BasisIndices[2] \in Int /\ BasisIndices[3] \in Int
        BY <2>0, <2>1, <4>1, BasisSound
      <4>3. QED
        BY <4>1, <4>2
    <3>6. QED
      BY <3>4, <3>5 DEF BasisChanged
  <2>5. ASSUME NEW f \in Isometries, Ahead(Len(vectors), f, permutation) PROVE FALSE
    <3>1. Permutes(f)
      BY IsometryPermutes
    <3>2. PICK s \in Slot : f[s] < permutation[s] /\ \A t \in Slot : t < s => f[t] = permutation[t]
      BY <2>1, <2>5 DEF Ahead
    <3>3. f[s] \in Slot /\ f[s] < s /\ f[s] # s
      BY <1>1, <2>1, <3>1, <3>2 DEF Permutes
    <3>4. f[f[s]] = f[s]
      BY <1>1, <3>2, <3>3
    <3>5. QED
      BY <3>1, <3>3, <3>4 DEF Permutes
  <2>6. QED
    BY <2>2, <2>3, <2>4, <2>5 DEF PermuteSound, AgreesBefore
<1>6. QED
  BY <1>1, <1>3, <1>4, <1>5 DEF SymmetryInv

\* What begins like a permutation whose matrix is not orthogonal is no isometry.
LEMMA NotOrthogonalKeeps ==
    ASSUME SymmetryInv, stage = "permute", NotOrthogonal
    PROVE  SymmetryInv'
<1>1. Shell /\ PermuteSound /\ SymmetriesSound /\ vectors \in Shells /\ Permutes(permutation)
  BY DEF SymmetryInv, Shell, PermuteSound
<1>2. /\ ~IsOrthogonalMatrix(Transformed) /\ transformation' = Transformed
      /\ LeapFrom(BasisIndices[3]) /\ symmetries' = symmetries
  BY DEF NotOrthogonal
<1>3. BasisIndices[3] \in Slot /\ BasisIndices[3] <= BasisIndices[3]
  <2>1. BasisIndices[3] \in Slot
    BY <1>1, BasisSound, ShellTypes
  <2>2. QED
    BY <1>1, <2>1, ShellTypes
<1>4. SymmetriesSound' /\ \A f : Discovered(f) => Discovered(f)'
  <2>1. vectors' = vectors
    BY <1>2 DEF LeapFrom
  <2>2. QED
    BY <1>1, <1>2, <2>1, SymmetriesKept
<1>5. ASSUME NEW f \in Isometries, \A t \in Slot : t <= BasisIndices[3] => f[t] = permutation[t]
      PROVE  FALSE
  <2>1. BasisImages(f) = Transformed
    BY <1>1, <1>5, BasisByPrefix, TransformedIs
  <2>2. IsOrthogonalMatrix(BasisImages(f))
    BY <1>1, IsometryRealized DEF Realizes
  <2>3. QED
    BY <1>2, <2>1, <2>2
<1>6. QED
  BY <1>2, <1>3, <1>4, <1>5, LeapKeeps

\* Nor is what begins like a permutation up to a neighbour that it misplaces.
LEMMA MisplacedKeeps ==
    ASSUME SymmetryInv, stage = "permute", Misplaced
    PROVE  SymmetryInv'
<1> DEFINE u == FirstIn(InvalidFrom)
           T == BasisImages(permutation)
<1>1. Shell /\ PermuteSound /\ SymmetriesSound /\ vectors \in Shells /\ Permutes(permutation)
  BY DEF SymmetryInv, Shell, PermuteSound
<1>2. /\ BasisChanged => IsOrthogonalMatrix(Transformed)
      /\ InvalidFrom # {} /\ transformation' = Transformed
      /\ LeapFrom(u) /\ symmetries' = symmetries
  BY DEF Misplaced
<1>3. InvalidFrom \subseteq Slot /\ u \in InvalidFrom /\ \A s \in InvalidFrom : u <= s
  <2>1. InvalidFrom \subseteq Slot
    BY DEF InvalidFrom
  <2>2. QED
    BY <1>1, <1>2, <2>1, FirstOf
<1>4. SymmetriesSound' /\ \A f : Discovered(f) => Discovered(f)'
  <2>1. vectors' = vectors
    BY <1>2 DEF LeapFrom
  <2>2. QED
    BY <1>1, <1>2, <2>1, SymmetriesKept
<1>5. Transformed = T /\ IsOrthogonalMatrix(Transformed)
      /\ \A s \in Slot \ InvalidFrom : Takes(Transformed, vectors[s], vectors[permutation[s]])
  BY <1>1, <1>2, TransformedIs
<1>6. \A s \in Slot : s < u => Takes(Transformed, vectors[s], vectors[permutation[s]])
  <2>1. \A s \in Slot : s < u => s \notin InvalidFrom
    <3>1. \A s \in Slot : s \in Int
      BY <1>1, ShellTypes
    <3> HIDE DEF u
    <3>2. QED
      BY <1>3, <3>1
  <2>2. QED
    BY <1>5, <2>1
<1> HIDE DEF u
<1>7. ASSUME NEW f \in Isometries, \A t \in Slot : t <= u => f[t] = permutation[t]
      PROVE  FALSE
  <2>1. Realizes(BasisImages(f), f) /\ f \in [Slot -> Slot] /\ permutation \in [Slot -> Slot]
    BY <1>1, IsometryRealized DEF Realizes, Permutes
  <2>2. u \in Slot /\ f[u] = permutation[u]
    <3>1. u \in Slot /\ u <= u
      BY <1>1, <1>3, ShellTypes
    <3>2. QED
      BY <1>7, <3>1
  <2>3. Image(BasisImages(f), vectors[u]) = Image(T, vectors[u])
    BY <1>1, <1>7, <2>1, <2>2, ImageByPrefix
  <2>4. Image(BasisImages(f), vectors[u]) = Times(Volume(Basis), vectors[permutation[u]])
    BY <2>1, <2>2 DEF Realizes, Takes
  <2>5. Takes(Transformed, vectors[u], vectors[permutation[u]])
    BY <1>5, <2>3, <2>4 DEF Takes
  <2>6. ~Takes(Transformed, vectors[u], vectors[permutation[u]])
    BY <1>3 DEF InvalidFrom
  <2>7. QED
    BY <2>5, <2>6
<1>8. u \in Slot
  BY <1>3
<1>9. QED
  BY <1>2, <1>4, <1>5, <1>6, <1>7, <1>8, LeapKeeps

\* What has the basis where a symmetry has it moves the neighbours as that does.
LEMMA FindSymmetryKeeps ==
    ASSUME SymmetryInv, stage = "permute", FindSymmetry
    PROVE  SymmetryInv'
<1> DEFINE T == Transformed
           e == [permutation |-> permutation, transformation |-> T]
           known == \E i \in DOMAIN symmetries : symmetries[i].transformation = T
<1>1. Shell /\ PermuteSound /\ SymmetriesSound /\ vectors \in Shells /\ Permutes(permutation)
  BY DEF SymmetryInv, Shell, PermuteSound
<1>2. /\ BasisChanged => IsOrthogonalMatrix(Transformed)
      /\ InvalidFrom = {} /\ transformation' = Transformed
      /\ symmetries' = IF known THEN symmetries ELSE Append(symmetries, e)
      /\ LeapFrom(BasisIndices[3])
  BY DEF FindSymmetry
<1>3. vectors' = vectors
  BY <1>2 DEF LeapFrom
<1>4. BasisIndices[3] \in Slot /\ BasisIndices[3] <= BasisIndices[3]
  <2>1. BasisIndices[3] \in Slot
    BY <1>1, BasisSound, ShellTypes
  <2>2. QED
    BY <1>1, <2>1, ShellTypes
<1>5. Realizes(T, permutation) /\ T = BasisImages(permutation)
  <2>1. T = BasisImages(permutation) /\ IsOrthogonalMatrix(T)
        /\ \A s \in Slot : Takes(T, vectors[s], vectors[permutation[s]])
    BY <1>1, <1>2, TransformedIs
  <2>2. QED
    BY <1>1, <2>1 DEF Realizes
<1>6. e \in SymmetryRecords
  <2>1. permutation \in [Slot -> Slot] /\ T \in [Axis -> [Axis -> Int]]
    BY <1>1, <1>5, ImagesTypes DEF Permutes, Vector
  <2>2. QED
    BY <2>1 DEF SymmetryRecords
<1> HIDE DEF T
<1>7. SymmetriesSound' /\ (\A f : Discovered(f) => Discovered(f)')
      /\ (\E i \in DOMAIN symmetries' : symmetries'[i].transformation = T)
      /\ \A i \in DOMAIN symmetries' : Realizes(symmetries'[i].transformation, symmetries'[i].permutation)
  <2>1. CASE known
    <3>1. symmetries' = symmetries
      BY <1>2, <2>1
    <3>2. SymmetriesSound' /\ \A f : Discovered(f) => Discovered(f)'
      BY <1>1, <1>3, <3>1, SymmetriesKept
    <3>3. QED
      BY <1>1, <2>1, <3>1, <3>2 DEF SymmetriesSound
  <2>2. CASE ~known
    <3>1. /\ Slot' = Slot /\ \A U, p : Realizes(U, p)' = Realizes(U, p)
          /\ \A p : Moves(p)' = Moves(p)
      BY <1>3, ShellKept
    <3>2. SymmetryRecords' = SymmetryRecords
      BY <3>1 DEF SymmetryRecords
    <3>3. symmetries' = Append(symmetries, e) /\ symmetries \in Seq(SymmetryRecords)
      BY <1>1, <1>2, <2>2 DEF SymmetriesSound
    <3> DEFINE m == Len(symmetries) + 1
    <3>4. /\ symmetries' \in Seq(SymmetryRecords) /\ m \in Nat
          /\ DOMAIN symmetries = 1 .. m - 1 /\ DOMAIN symmetries' = 1 .. m
          /\ \A i \in DOMAIN symmetries : symmetries'[i] = symmetries[i] /\ i # m /\ i \in DOMAIN symmetries'
          /\ symmetries'[m] = e /\ m \in DOMAIN symmetries'
          /\ \A i \in DOMAIN symmetries' : i = m \/ i \in DOMAIN symmetries
      BY <1>6, <3>3
    <3>5. e.transformation = T /\ e.permutation = permutation
      OBVIOUS
    <3> HIDE DEF m, e
    <3>6. \A i \in DOMAIN symmetries' : Realizes(symmetries'[i].transformation, symmetries'[i].permutation)
      BY <1>1, <1>5, <3>4, <3>5 DEF SymmetriesSound
    <3>7. \A i, j \in DOMAIN symmetries' :
            symmetries'[i].transformation = symmetries'[j].transformation => i = j
      BY <1>1, <2>2, <3>4, <3>5 DEF SymmetriesSound
    <3>8. SymmetriesSound'
      BY <3>1, <3>2, <3>4, <3>6, <3>7 DEF SymmetriesSound
    <3>9. \A f : Discovered(f) => Discovered(f)'
      BY <3>1, <3>4 DEF Discovered
    <3>10. QED
      BY <3>4, <3>5, <3>6, <3>8, <3>9
  <2>3. QED
    BY <2>1, <2>2
<1>8. ASSUME NEW f \in Isometries, \A t \in Slot : t <= BasisIndices[3] => f[t] = permutation[t]
      PROVE  Discovered(f)'
  <2>1. BasisImages(f) = T
    BY <1>1, <1>5, <1>8, BasisByPrefix
  <2>2. Realizes(T, f)
    BY <1>1, <2>1, IsometryRealized
  <2>3. PICK i \in DOMAIN symmetries' : symmetries'[i].transformation = T
    BY <1>7
  <2>4. Realizes(T, symmetries'[i].permutation)
    BY <1>7, <2>3
  <2>5. Moves(symmetries'[i].permutation) = Moves(f)
    BY <1>1, <2>2, <2>4, MovesByBasis
  <2>6. \A p : Moves(p)' = Moves(p)
    BY <1>3, ShellKept
  <2>7. QED
    BY <2>5, <2>6 DEF Discovered
<1>9. QED
  BY <1>2, <1>4, <1>7, <1>8, LeapKeeps DEF T

----------------------------------------------------------------------------
(* Determinants *)

\* A volume grows with the third power.
LEMMA DetTimes ==
    ASSUME NEW a \in Vector, NEW b \in Vector, NEW c \in Vector, NEW n \in Int
    PROVE  Det(Times(n, a), Times(n, b), Times(n, c)) = n * n * n * Det(a, b, c)
<1>1. \A v \in Vector : v[1] \in Int /\ v[2] \in Int /\ v[3] \in Int
  BY DEF Vector, Axis
<1>2. PICK a1, a2, a3, b1, b2, b3, c1, c2, c3 \in Int :
        /\ a1 = a[1] /\ a2 = a[2] /\ a3 = a[3] /\ b1 = b[1] /\ b2 = b[2] /\ b3 = b[3]
        /\ c1 = c[1] /\ c2 = c[2] /\ c3 = c[3]
  BY <1>1
<1>3. \A v \in Vector : Times(n, v)[1] = n * v[1] /\ Times(n, v)[2] = n * v[2] /\ Times(n, v)[3] = n * v[3]
  BY DEF Times, Axis
<1>4. Det(a, b, c) = (a2 * b3 - a3 * b2) * c1 + (a3 * b1 - a1 * b3) * c2 + (a1 * b2 - a2 * b1) * c3
  BY <1>2 DEF Det, Dot, Cross
<1>5. Det(Times(n, a), Times(n, b), Times(n, c))
        = ((n * a2) * (n * b3) - (n * a3) * (n * b2)) * (n * c1)
          + ((n * a3) * (n * b1) - (n * a1) * (n * b3)) * (n * c2)
          + ((n * a1) * (n * b2) - (n * a2) * (n * b1)) * (n * c3)
  BY <1>2, <1>3 DEF Det, Dot, Cross
<1>6. ((n * a2) * (n * b3) - (n * a3) * (n * b2)) * (n * c1)
          + ((n * a3) * (n * b1) - (n * a1) * (n * b3)) * (n * c2)
          + ((n * a1) * (n * b2) - (n * a2) * (n * b1)) * (n * c3)
      = n * n * n * ((a2 * b3 - a3 * b2) * c1 + (a3 * b1 - a1 * b3) * c2 + (a1 * b2 - a2 * b1) * c3)
  OBVIOUS
<1>7. QED
  BY <1>4, <1>5, <1>6

\* The volume of three sums is that of the vectors times that of the numbers.
LEMMA DetCombined ==
    ASSUME NEW t1 \in Vector, NEW t2 \in Vector, NEW t3 \in Vector,
           NEW c1 \in Int, NEW c2 \in Int, NEW c3 \in Int,
           NEW d1 \in Int, NEW d2 \in Int, NEW d3 \in Int,
           NEW e1 \in Int, NEW e2 \in Int, NEW e3 \in Int
    PROVE  Det(Combined(c1, c2, c3, t1, t2, t3), Combined(d1, d2, d3, t1, t2, t3),
               Combined(e1, e2, e3, t1, t2, t3))
           = ((c2 * d3 - c3 * d2) * e1 + (c3 * d1 - c1 * d3) * e2 + (c1 * d2 - c2 * d1) * e3)
             * Det(t1, t2, t3)
<1>1. \A v \in Vector : v[1] \in Int /\ v[2] \in Int /\ v[3] \in Int
  BY DEF Vector, Axis
<1>2. PICK x1, x2, x3, y1, y2, y3, z1, z2, z3 \in Int :
        /\ x1 = t1[1] /\ x2 = t1[2] /\ x3 = t1[3] /\ y1 = t2[1] /\ y2 = t2[2] /\ y3 = t2[3]
        /\ z1 = t3[1] /\ z2 = t3[2] /\ z3 = t3[3]
  BY <1>1
<1>3. Det(t1, t2, t3) = (x2 * y3 - x3 * y2) * z1 + (x3 * y1 - x1 * y3) * z2 + (x1 * y2 - x2 * y1) * z3
  BY <1>2 DEF Det, Dot, Cross
<1>5. Det(Combined(c1, c2, c3, t1, t2, t3), Combined(d1, d2, d3, t1, t2, t3), Combined(e1, e2, e3, t1, t2, t3))
      = ((c1 * x2 + c2 * y2 + c3 * z2) * (d1 * x3 + d2 * y3 + d3 * z3)
          - (c1 * x3 + c2 * y3 + c3 * z3) * (d1 * x2 + d2 * y2 + d3 * z2)) * (e1 * x1 + e2 * y1 + e3 * z1)
        + ((c1 * x3 + c2 * y3 + c3 * z3) * (d1 * x1 + d2 * y1 + d3 * z1)
          - (c1 * x1 + c2 * y1 + c3 * z1) * (d1 * x3 + d2 * y3 + d3 * z3)) * (e1 * x2 + e2 * y2 + e3 * z2)
        + ((c1 * x1 + c2 * y1 + c3 * z1) * (d1 * x2 + d2 * y2 + d3 * z2)
          - (c1 * x2 + c2 * y2 + c3 * z2) * (d1 * x1 + d2 * y1 + d3 * z1)) * (e1 * x3 + e2 * y3 + e3 * z3)
  <2>1. \A u, v, w : Det(u, v, w) = (u[2] * v[3] - u[3] * v[2]) * w[1] + (u[3] * v[1] - u[1] * v[3]) * w[2]
                                   + (u[1] * v[2] - u[2] * v[1]) * w[3]
    BY DEF Det, Dot, Cross
  <2>2. PICK u, v, w : /\ u = Combined(c1, c2, c3, t1, t2, t3) /\ v = Combined(d1, d2, d3, t1, t2, t3)
                       /\ w = Combined(e1, e2, e3, t1, t2, t3)
    OBVIOUS
  <2>6. u[1] = c1 * x1 + c2 * y1 + c3 * z1 /\ u[2] = c1 * x2 + c2 * y2 + c3 * z2
        /\ u[3] = c1 * x3 + c2 * y3 + c3 * z3
    <3>1. \A x \in Axis : u[x] = c1 * t1[x] + c2 * t2[x] + c3 * t3[x]
      BY <2>2 DEF Combined
    <3>2. QED
      BY <1>2, <3>1 DEF Axis
  <2>7. v[1] = d1 * x1 + d2 * y1 + d3 * z1 /\ v[2] = d1 * x2 + d2 * y2 + d3 * z2
        /\ v[3] = d1 * x3 + d2 * y3 + d3 * z3
    <3>1. \A x \in Axis : v[x] = d1 * t1[x] + d2 * t2[x] + d3 * t3[x]
      BY <2>2 DEF Combined
    <3>2. QED
      BY <1>2, <3>1 DEF Axis
  <2>8. w[1] = e1 * x1 + e2 * y1 + e3 * z1 /\ w[2] = e1 * x2 + e2 * y2 + e3 * z2
        /\ w[3] = e1 * x3 + e2 * y3 + e3 * z3
    <3>1. \A x \in Axis : w[x] = e1 * t1[x] + e2 * t2[x] + e3 * t3[x]
      BY <2>2 DEF Combined
    <3>2. QED
      BY <1>2, <3>1 DEF Axis
  <2>4. Det(u, v, w) = (u[2] * v[3] - u[3] * v[2]) * w[1] + (u[3] * v[1] - u[1] * v[3]) * w[2]
                       + (u[1] * v[2] - u[2] * v[1]) * w[3]
    BY <2>1
  <2>5. QED
    BY <2>2, <2>4, <2>6, <2>7, <2>8, Zenon
<1>6. ((c1 * x2 + c2 * y2 + c3 * z2) * (d1 * x3 + d2 * y3 + d3 * z3)
          - (c1 * x3 + c2 * y3 + c3 * z3) * (d1 * x2 + d2 * y2 + d3 * z2)) * (e1 * x1 + e2 * y1 + e3 * z1)
        + ((c1 * x3 + c2 * y3 + c3 * z3) * (d1 * x1 + d2 * y1 + d3 * z1)
          - (c1 * x1 + c2 * y1 + c3 * z1) * (d1 * x3 + d2 * y3 + d3 * z3)) * (e1 * x2 + e2 * y2 + e3 * z2)
        + ((c1 * x1 + c2 * y1 + c3 * z1) * (d1 * x2 + d2 * y2 + d3 * z2)
          - (c1 * x2 + c2 * y2 + c3 * z2) * (d1 * x1 + d2 * y1 + d3 * z1)) * (e1 * x3 + e2 * y3 + e3 * z3)
      = ((c2 * d3 - c3 * d2) * e1 + (c3 * d1 - c1 * d3) * e2 + (c1 * d2 - c2 * d1) * e3)
        * ((x2 * y3 - x3 * y2) * z1 + (x3 * y1 - x1 * y3) * z2 + (x1 * y2 - x2 * y1) * z3)
  OBVIOUS
<1>7. QED
  BY <1>3, <1>5, <1>6

\* An image of three vectors has their volume times that of the matrix.
LEMMA VolumeOfImages ==
    ASSUME Shell, NEW T \in [Axis -> Vector], NEW G \in [Axis -> Vector], NEW A \in [Axis -> Vector],
           \A i \in Axis : Takes(T, G[i], A[i])
    PROVE  Volume(Basis) * Volume(A) = Volume(G) * Volume(T)
<1>0. Axis = {1, 2, 3} /\ Basis \in [Axis -> Vector] /\ Volume(Basis) # 0
  BY BasisSound DEF Axis
<1>1. /\ T[1] \in Vector /\ T[2] \in Vector /\ T[3] \in Vector
      /\ G[1] \in Vector /\ G[2] \in Vector /\ G[3] \in Vector
      /\ A[1] \in Vector /\ A[2] \in Vector /\ A[3] \in Vector
      /\ Basis[1] \in Vector /\ Basis[2] \in Vector /\ Basis[3] \in Vector
  BY <1>0
<1>2. PICK n, a, g, t \in Int : n = Volume(Basis) /\ a = Volume(A) /\ g = Volume(G) /\ t = Volume(T)
  BY <1>1, VectorTypes DEF Volume
<1>3. PICK c1, c2, c3, d1, d2, d3, e1, e2, e3 \in Int :
        /\ c1 = PartOf(G[1], 1) /\ c2 = PartOf(G[1], 2) /\ c3 = PartOf(G[1], 3)
        /\ d1 = PartOf(G[2], 1) /\ d2 = PartOf(G[2], 2) /\ d3 = PartOf(G[2], 3)
        /\ e1 = PartOf(G[3], 1) /\ e2 = PartOf(G[3], 2) /\ e3 = PartOf(G[3], 3)
  BY <1>0, <1>1, ImageCombines
<1>4. PICK m \in Int : m = (c2 * d3 - c3 * d2) * e1 + (c3 * d1 - c1 * d3) * e2 + (c1 * d2 - c2 * d1) * e3
  OBVIOUS
<1>5. ASSUME NEW M \in [Axis -> Vector]
      PROVE  Det(Image(M, G[1]), Image(M, G[2]), Image(M, G[3])) = m * Volume(M)
  <2>1. M[1] \in Vector /\ M[2] \in Vector /\ M[3] \in Vector
    BY <1>0
  <2>2. /\ Image(M, G[1]) = Combined(c1, c2, c3, M[1], M[2], M[3])
        /\ Image(M, G[2]) = Combined(d1, d2, d3, M[1], M[2], M[3])
        /\ Image(M, G[3]) = Combined(e1, e2, e3, M[1], M[2], M[3])
    BY <1>1, <1>3, ImageCombines
  <2>3. Det(Combined(c1, c2, c3, M[1], M[2], M[3]), Combined(d1, d2, d3, M[1], M[2], M[3]),
            Combined(e1, e2, e3, M[1], M[2], M[3]))
        = ((c2 * d3 - c3 * d2) * e1 + (c3 * d1 - c1 * d3) * e2 + (c1 * d2 - c2 * d1) * e3)
          * Det(M[1], M[2], M[3])
    BY <2>1, DetCombined
  <2>4. QED
    BY <1>4, <2>2, <2>3, Zenon DEF Volume
<1>6. m * n = n * n * n * g
  <2>1. \A i \in Axis : Image(Basis, G[i]) = Times(n, G[i])
    BY <1>2, IdentityImage
  <2>2. Det(Times(n, G[1]), Times(n, G[2]), Times(n, G[3])) = m * Volume(Basis)
    <3>1. /\ Image(Basis, G[1]) = Times(n, G[1]) /\ Image(Basis, G[2]) = Times(n, G[2])
          /\ Image(Basis, G[3]) = Times(n, G[3])
      BY <1>0, <2>1
    <3>2. QED
      BY <1>0, <1>5, <3>1
  <2>3. Det(Times(n, G[1]), Times(n, G[2]), Times(n, G[3])) = n * n * n * Det(G[1], G[2], G[3])
    BY <1>1, DetTimes
  <2>4. QED
    BY <1>2, <2>2, <2>3 DEF Volume
<1>7. m * t = n * n * n * a
  <2>1. /\ Image(T, G[1]) = Times(n, A[1]) /\ Image(T, G[2]) = Times(n, A[2])
        /\ Image(T, G[3]) = Times(n, A[3])
    BY <1>0, <1>2 DEF Takes
  <2>2. Det(Times(n, A[1]), Times(n, A[2]), Times(n, A[3])) = m * Volume(T)
    BY <1>5, <2>1
  <2>3. Det(Times(n, A[1]), Times(n, A[2]), Times(n, A[3])) = n * n * n * Det(A[1], A[2], A[3])
    BY <1>1, DetTimes
  <2>4. QED
    BY <1>2, <2>2, <2>3 DEF Volume
<1>8. \A x, y, z \in Int : x # 0 /\ x * y = x * z => y = z
  OBVIOUS
<1>9. n # 0
  BY <1>0, <1>2
<1>10. n * (n * (n * (n * a))) = n * (n * (n * (g * t)))
  <2>1. n * (n * (n * (n * a))) = n * (m * t)
    BY <1>7
  <2>2. n * (m * t) = (m * n) * t
    OBVIOUS
  <2>3. (m * n) * t = n * n * n * g * t
    BY <1>6
  <2>4. n * n * n * g * t = n * (n * (n * (g * t)))
    OBVIOUS
  <2>5. QED
    BY <2>1, <2>2, <2>3, <2>4
<1>11. n * a = g * t
  <2>1. n * (n * (n * a)) = n * (n * (g * t))
    BY <1>8, <1>9, <1>10
  <2>2. n * (n * a) = n * (g * t)
    BY <1>8, <1>9, <2>1
  <2>3. QED
    BY <1>8, <1>9, <2>2
<1>12. QED
  BY <1>2, <1>11

\* Numbers with the same sign as n.
LEMMA SameSign ==
    ASSUME NEW n \in Int, NEW a \in Int, NEW g \in Int, NEW t \in Int,
           n * a = g * t, a * n > 0, t * n > 0
    PROVE  g * n > 0
<1>1. g * t > 0
  <2>1. a * n = n * a
    OBVIOUS
  <2>2. QED
    BY <2>1
<1>2. \A x, y \in Int : x * y > 0 => (x > 0 /\ y > 0) \/ (x < 0 /\ y < 0)
  OBVIOUS
<1>3. (t > 0 /\ n > 0) \/ (t < 0 /\ n < 0)
  BY <1>2
<1>4. (g > 0 /\ t > 0) \/ (g < 0 /\ t < 0)
  BY <1>1, <1>2
<1>5. (g > 0 /\ n > 0) \/ (g < 0 /\ n < 0)
  BY <1>3, <1>4
<1>6. \A x, y \in Int : (x > 0 /\ y > 0) \/ (x < 0 /\ y < 0) => x * y > 0
  OBVIOUS
<1>7. QED
  BY <1>5, <1>6

\* An orthogonal matrix takes different vectors to different vectors.
LEMMA ImageInjective ==
    ASSUME Shell, NEW T \in [Axis -> Vector], IsOrthogonalMatrix(T), NEW v \in Vector, NEW w \in Vector,
           Image(T, v) = Image(T, w)
    PROVE  v = w
<1>1. PICK n, vv, vw, ww \in Int : n = Volume(Basis) /\ vv = Dot(v, v) /\ vw = Dot(v, w) /\ ww = Dot(w, w)
  BY BasisSound, VectorTypes
<1>2. /\ Dot(Image(T, v), Image(T, v)) = n * n * vv /\ Dot(Image(T, v), Image(T, w)) = n * n * vw
      /\ Dot(Image(T, w), Image(T, w)) = n * n * ww
  BY <1>1, ImagesKeepDot
<1>3. n * n * vv = n * n * ww /\ n * n * vw = n * n * ww
  BY <1>2
<1>4. \A x, y, z \in Int : x # 0 /\ x * x * y = x * x * z => y = z
  OBVIOUS
<1>5. n # 0
  BY <1>1, BasisSound
<1>6. vv = ww /\ vw = ww
  BY <1>3, <1>4, <1>5
<1>7. QED
  BY <1>1, <1>6, SameByDots

----------------------------------------------------------------------------
(* The group *)

\* For any two symmetries one is found that the second takes to the first.
LEMMA QuotientIs ==
    ASSUME Shell, SymmetriesSound, Isometric,
           \A i \in DOMAIN symmetries : Proper(symmetries[i].transformation),
           NEW a \in DOMAIN symmetries, NEW b \in DOMAIN symmetries
    PROVE  \E c \in DOMAIN symmetries :
             /\ Quotients(a, b) = {c}
             /\ \A s \in Slot : vectors[symmetries[b].permutation[symmetries[c].permutation[s]]]
                                = vectors[symmetries[a].permutation[s]]
<1> DEFINE n == Len(vectors)
           pa == symmetries[a].permutation
           pb == symmetries[b].permutation
           A == symmetries[a].transformation
           B == symmetries[b].transformation
           g == [s \in Slot |-> CHOOSE t \in Slot : pb[t] = pa[s]]
           G == BasisImages(g)
<1>0. vectors \in Shells /\ Slot = 1 .. n /\ n \in Nat /\ Axis = {1, 2, 3}
      /\ \A s \in Slot : vectors[s] \in Vector
  BY ShellTypes DEF Shell
<1>1. /\ Realizes(A, pa) /\ Realizes(B, pb) /\ Permutes(pa) /\ Permutes(pb)
      /\ A = BasisImages(pa) /\ B = BasisImages(pb) /\ IsOrthogonalMatrix(B)
      /\ pa \in Isometries /\ pb \in Isometries
  <2>1. Realizes(A, pa) /\ Realizes(B, pb)
    BY DEF SymmetriesSound
  <2>2. A = BasisImages(pa) /\ B = BasisImages(pb) /\ Permutes(pa) /\ Permutes(pb) /\ IsOrthogonalMatrix(B)
    BY <2>1 DEF Realizes
  <2>3. pa \in Isometries /\ pb \in Isometries
    BY <2>1, <2>2, RealizedIsometry
  <2>4. QED
    BY <2>1, <2>2, <2>3
<1> HIDE DEF pa, pb, A, B
<1>2. \A s \in Slot : g[s] \in Slot /\ pb[g[s]] = pa[s]
  <2>1. Orders(n, pb)
    BY <1>0, <1>1, PermutesIsOrder
  <2>2. \A r \in 1 .. n : \E t \in 1 .. n : pb[t] = r
    BY <1>0, <2>1, OrderOnto
  <2>3. \A s \in Slot : \E t \in Slot : pb[t] = pa[s]
    BY <1>0, <1>1, <2>2 DEF Permutes
  <2>4. QED
    BY <2>3
<1>3. g \in [Slot -> Slot] /\ \A s, t \in Slot : g[s] = g[t] => s = t
  <2>1. g \in [Slot -> Slot]
    BY <1>2
  <2> HIDE DEF g
  <2>2. QED
    BY <1>1, <1>2, <2>1 DEF Permutes
<1> HIDE DEF g
<1>4. g \in Isometries
  <2>1. ASSUME NEW s \in Slot, NEW t \in Slot
        PROVE  Dot(vectors[g[s]], vectors[g[t]]) = Dot(vectors[s], vectors[t])
    <3>1. Dot(vectors[pb[g[s]]], vectors[pb[g[t]]]) = Dot(vectors[g[s]], vectors[g[t]])
      BY <1>1, <1>2 DEF Isometries
    <3>2. Dot(vectors[pa[s]], vectors[pa[t]]) = Dot(vectors[s], vectors[t])
      BY <1>1 DEF Isometries
    <3>3. QED
      BY <1>2, <3>1, <3>2
  <2>2. QED
    BY <1>3, <2>1 DEF Isometries
<1>5. A \in [Axis -> Vector] /\ B \in [Axis -> Vector] /\ G \in [Axis -> Vector]
  BY <1>1, <1>3, ImagesTypes DEF Permutes
<1>6. \A s \in Slot : Image(B, vectors[g[s]]) = Times(Volume(Basis), vectors[pa[s]])
  <2>1. \A t \in Slot : Image(B, vectors[t]) = Times(Volume(Basis), vectors[pb[t]])
    BY <1>1 DEF Realizes, Takes
  <2>2. QED
    BY <1>2, <2>1
<1>7. \A i \in Axis : Takes(B, G[i], A[i])
  <2>1. \A i \in Axis : BasisIndices[i] \in Slot
    BY BasisSound
  <2>2. \A i \in Axis : G[i] = vectors[g[BasisIndices[i]]] /\ A[i] = vectors[pa[BasisIndices[i]]]
    BY <1>1 DEF BasisImages
  <2>3. QED
    BY <1>6, <2>1, <2>2 DEF Takes
<1> HIDE DEF G
<1>8. Proper(G)
  <2>1. Volume(Basis) * Volume(A) = Volume(G) * Volume(B)
    BY <1>5, <1>7, VolumeOfImages
  <2>2. Volume(A) * Volume(Basis) > 0 /\ Volume(B) * Volume(Basis) > 0
    BY DEF Proper, A, B
  <2>3. \A M \in [Axis -> Vector] : Volume(M) \in Int
    BY <1>0, VectorTypes DEF Volume
  <2>4. Volume(Basis) \in Int
    BY BasisSound
  <2>5. QED
    BY <1>5, <2>1, <2>2, <2>3, <2>4, SameSign DEF Proper
<1>9. PICK c \in DOMAIN symmetries : Moves(symmetries[c].permutation) = Moves(g)
  BY <1>4, <1>8 DEF Isometric, Discovered, G
<1> DEFINE pq == symmetries[c].permutation
           C == symmetries[c].transformation
<1>10. \A s \in Slot : vectors[pq[s]] = vectors[g[s]]
  BY <1>9 DEF Moves
<1>11. C = G /\ pq \in [Slot -> Slot]
  <2>1. C = BasisImages(pq) /\ pq \in [Slot -> Slot]
    BY DEF SymmetriesSound, Realizes, Permutes
  <2> HIDE DEF pq, C
  <2>2. BasisImages(pq) = BasisImages(g)
    BY <1>9, BasisByMoves DEF pq
  <2>3. QED
    BY <2>1, <2>2 DEF G
<1>12. ASSUME NEW d \in Quotients(a, b) PROVE d = c
  <2> DEFINE D == symmetries[d].transformation
  <2>1. d \in DOMAIN symmetries /\ \A i \in Axis : Takes(B, D[i], A[i])
    BY DEF Quotients, A, B
  <2>2. D \in [Axis -> Vector]
    <3>1. symmetries[d] \in SymmetryRecords
      BY <2>1 DEF SymmetriesSound
    <3>2. QED
      BY <3>1 DEF SymmetryRecords, Vector
  <2> HIDE DEF D
  <2>3. ASSUME NEW i \in Axis PROVE D[i] = G[i]
    <3>1. Image(B, D[i]) = Image(B, G[i])
      BY <1>7, <2>1 DEF Takes
    <3>2. D[i] \in Vector /\ G[i] \in Vector
      BY <1>5, <2>2
    <3>3. QED
      BY <1>1, <1>5, <3>1, <3>2, ImageInjective
  <2>4. D = G
    BY <1>5, <2>2, <2>3
  <2>5. QED
    BY <1>11, <2>1, <2>4 DEF SymmetriesSound, D
<1>13. c \in Quotients(a, b)
  BY <1>7, <1>11 DEF Quotients, A, B
<1>14. ASSUME NEW s \in Slot PROVE vectors[pb[pq[s]]] = vectors[pa[s]]
  <2>1. pq[s] \in Slot /\ pb[pq[s]] \in Slot /\ pa[s] \in Slot
    BY <1>1, <1>11 DEF Permutes
  <2> HIDE DEF pq
  <2>2. Image(B, vectors[pq[s]]) = Times(Volume(Basis), vectors[pb[pq[s]]])
    BY <1>1, <2>1 DEF Realizes, Takes
  <2>3. Times(Volume(Basis), vectors[pb[pq[s]]]) = Times(Volume(Basis), vectors[pa[s]])
    BY <1>6, <1>10, <2>2
  <2>4. QED
    BY <1>0, <2>1, <2>3, BasisSound, TimesCancels
<1>15. Quotients(a, b) = {c}
  BY <1>12, <1>13
<1>16. QED
  BY <1>14, <1>15 DEF pa, pb

\* The rotations that are kept are all rotations that were found, each once.
LEMMA RetainKeeps ==
    ASSUME SymmetryInv, RetainProperRotations
    PROVE  SymmetryInv'
<1> DEFINE kept == {i \in DOMAIN symmetries : Proper(symmetries[i].transformation)}
           m == Cardinality(kept)
<1>1. /\ Shell /\ SymmetriesSound /\ vectors \in Shells /\ ~NoBasis /\ stage = "retain" /\ stage' = "multiply"
      /\ \A f \in Isometries : Discovered(f)
      /\ adapted = <<>> /\ vectors' = vectors /\ adapted' = adapted
      /\ symmetries' = [k \in 1 .. m |-> symmetries[Nth(kept, k)]]
  BY DEF SymmetryInv, Shell, RetainProperRotations
<1>2. /\ Slot' = Slot /\ NoBasis' = NoBasis /\ Isometries' = Isometries
      /\ \A T : Proper(T)' = Proper(T)
      /\ \A p : BasisImages(p)' = BasisImages(p) /\ Moves(p)' = Moves(p)
      /\ \A T, p : Realizes(T, p)' = Realizes(T, p)
  BY <1>1, ShellKept
<1>3. /\ m \in Nat /\ \A k \in 1 .. m : Nth(kept, k) \in kept
      /\ \A j, k \in 1 .. m : Nth(kept, j) = Nth(kept, k) => j = k
      /\ \A i \in kept : \E k \in 1 .. m : Nth(kept, k) = i
  <2>1. DOMAIN symmetries = 1 .. Len(symmetries) /\ Len(symmetries) \in Nat
    BY <1>1 DEF SymmetriesSound
  <2>2. kept \in SUBSET (1 .. Len(symmetries)) /\ IsFiniteSet(1 .. Len(symmetries)) /\ kept \subseteq Int
    BY <2>1, FS_Interval
  <2> HIDE DEF kept
  <2>3. IsFiniteSet(kept)
    BY <2>2, FS_Subset, Zenon
  <2>4. /\ m \in Nat /\ \A k \in 1 .. m : Nth(kept, k) \in kept
        /\ \A j, k \in 1 .. m : j < k => Nth(kept, j) < Nth(kept, k)
        /\ \A i \in kept : \E k \in 1 .. m : Nth(kept, k) = i
    BY <2>2, <2>3, NthCounts
  <2>5. ASSUME NEW j \in 1 .. m, NEW k \in 1 .. m, j < k PROVE Nth(kept, j) # Nth(kept, k)
    <3>1. Nth(kept, j) < Nth(kept, k) /\ Nth(kept, j) \in Int /\ Nth(kept, k) \in Int
      BY <2>2, <2>4, <2>5
    <3>2. QED
      BY <3>1
  <2>6. \A j, k \in 1 .. m : j < k \/ j = k \/ k < j
    BY <2>4
  <2>7. QED
    BY <2>4, <2>5, <2>6
<1>4. \A k \in 1 .. m : /\ Nth(kept, k) \in DOMAIN symmetries
                        /\ Proper(symmetries[Nth(kept, k)].transformation)
  BY <1>3
<1>5. \A f \in Isometries : Proper(BasisImages(f)) =>
         \E k \in 1 .. m : Moves(symmetries[Nth(kept, k)].permutation) = Moves(f)
  <2>1. SUFFICES ASSUME NEW f \in Isometries, Proper(BasisImages(f))
                 PROVE  \E k \in 1 .. m : Moves(symmetries[Nth(kept, k)].permutation) = Moves(f)
    OBVIOUS
  <2>2. PICK i \in DOMAIN symmetries : Moves(symmetries[i].permutation) = Moves(f)
    BY <1>1 DEF Discovered
  <2>3. symmetries[i].transformation = BasisImages(f)
    <3>1. symmetries[i].transformation = BasisImages(symmetries[i].permutation)
      BY <1>1 DEF SymmetriesSound, Realizes
    <3>2. QED
      BY <1>1, <2>2, <3>1, BasisByMoves
  <2>4. i \in kept
    BY <2>1, <2>3
  <2>5. QED
    BY <1>3, <2>2, <2>4
<1> HIDE DEF kept, m
<1>6. symmetries' \in Seq(SymmetryRecords) /\ DOMAIN symmetries' = 1 .. m
      /\ \A k \in 1 .. m : symmetries'[k] = symmetries[Nth(kept, k)]
  <2>1. \A k \in 1 .. m : symmetries[Nth(kept, k)] \in SymmetryRecords
    BY <1>1, <1>4 DEF SymmetriesSound
  <2>2. QED
    BY <1>1, <1>3, <2>1
<1>7. SymmetriesSound'
  <2>1. SymmetryRecords' = SymmetryRecords
    BY <1>2 DEF SymmetryRecords
  <2>2. \A k \in DOMAIN symmetries' : Realizes(symmetries'[k].transformation, symmetries'[k].permutation)
    BY <1>1, <1>4, <1>6 DEF SymmetriesSound
  <2>3. \A j, k \in DOMAIN symmetries' :
          symmetries'[j].transformation = symmetries'[k].transformation => j = k
    BY <1>1, <1>3, <1>4, <1>6 DEF SymmetriesSound
  <2>4. QED
    BY <1>2, <1>6, <2>1, <2>2, <2>3 DEF SymmetriesSound
<1>8. \A k \in DOMAIN symmetries' : Proper(symmetries'[k].transformation)
  BY <1>4, <1>6
<1>9. Isometric'
  <2>1. \A f \in Isometries : Proper(BasisImages(f)) =>
          \E k \in DOMAIN symmetries' : Moves(symmetries'[k].permutation) = Moves(f)
    BY <1>5, <1>6
  <2>2. QED
    BY <1>2, <2>1 DEF Isometric, Discovered
<1>10. ProductsPlaced' /\ AdaptedTruthful'
  <2>1. DOMAIN adapted' = {}
    BY <1>1
  <2>2. stage' # "share" /\ stage' # "return"
    BY <1>1
  <2>3. QED
    BY <2>1, <2>2 DEF ProductsPlaced, AdaptedTruthful
<1>11. (\A i \in DOMAIN symmetries : Proper(symmetries[i].transformation))'
  BY <1>2, <1>8
<1>12. QED
  BY <1>1, <1>2, <1>7, <1>9, <1>10, <1>11 DEF SymmetryInv

\* ProductsPlaced, of given shell, symmetries and table.
Placed(shell, slots, found, table) ==
    \A a, b \in DOMAIN found :
        /\ Len(table[a]) = Len(found)
        /\ LET c == found[table[a][b]].permutation
           IN  \A s \in slots : shell[found[b].permutation[c[s]]] = shell[found[a].permutation[s]]

\* Rows of the table are full, so that Nth finds the symmetry of that number.
LEMMA ProductsKeep ==
    ASSUME SymmetryInv, CalculateSymmetryProducts
    PROVE  SymmetryInv'
<1> DEFINE N == Len(symmetries)
           found(a) == {b \in DOMAIN symmetries : Quotients(a, b) # {}}
<1>1. /\ Shell /\ SymmetriesSound /\ vectors \in Shells /\ ~NoBasis /\ stage = "multiply" /\ stage' = "share"
      /\ Isometric /\ \A i \in DOMAIN symmetries : Proper(symmetries[i].transformation)
      /\ adapted = <<>> /\ vectors' = vectors /\ adapted' = adapted /\ symmetries' = symmetries
      /\ inverseProduct' = [a \in DOMAIN symmetries |->
            [k \in 1 .. Cardinality(found(a)) |-> FirstIn(Quotients(a, Nth(found(a), k)))]]
  BY DEF SymmetryInv, Shell, CalculateSymmetryProducts
<1>2. /\ Slot' = Slot /\ NoBasis' = NoBasis /\ Isometries' = Isometries
      /\ \A T : Proper(T)' = Proper(T)
      /\ \A p : BasisImages(p)' = BasisImages(p) /\ Moves(p)' = Moves(p)
  BY <1>1, ShellKept
<1>3. SymmetriesSound' /\ \A f : Discovered(f) => Discovered(f)'
  BY <1>1, SymmetriesKept
<1>4. Isometric'
  BY <1>1, <1>2, <1>3 DEF Isometric
<1>5. DOMAIN symmetries = 1 .. N /\ N \in Nat
  BY <1>1 DEF SymmetriesSound
<1>6. \A k \in 1 .. N : Nth(1 .. N, k) = k
  <2>1. IsFiniteSet(1 .. N) /\ Cardinality(1 .. N) = N
    <3>1. 1 \in Int /\ N \in Int /\ (1 > N <=> N = 0)
      BY <1>5
    <3> HIDE DEF N
    <3>2. QED
      BY <1>5, <3>1, FS_Interval
  <2> DEFINE s == [k \in 1 .. N |-> k]
  <2> HIDE DEF N
  <2>2. s \in [1 .. Cardinality(1 .. N) -> 1 .. N] /\ Sorted(s) /\ 1 .. N \subseteq Int
    BY <1>5, <2>1 DEF Sorted
  <2> HIDE DEF s
  <2>3. \A k \in 1 .. Cardinality(1 .. N) : Nth(1 .. N, k) = s[k]
    BY <2>1, <2>2, NthIs
  <2>4. QED
    BY <2>1, <2>3 DEF s
<1>7. ASSUME NEW a \in DOMAIN symmetries, NEW b \in DOMAIN symmetries
      PROVE  /\ Len(inverseProduct'[a]) = N
             /\ LET c == symmetries[inverseProduct'[a][b]].permutation
                IN  \A s \in Slot : vectors[symmetries[b].permutation[c[s]]]
                                    = vectors[symmetries[a].permutation[s]]
  <2>1. found(a) = 1 .. N
    <3>1. \A d \in DOMAIN symmetries : Quotients(a, d) # {}
      BY <1>1, QuotientIs
    <3>2. QED
      BY <1>5, <3>1
  <2>2. Cardinality(found(a)) = N
    <3>1. 1 \in Int /\ N \in Int /\ (1 > N <=> N = 0)
      BY <1>5
    <3> HIDE DEF N, found
    <3>2. Cardinality(1 .. N) = N
      BY <1>5, <3>1, FS_Interval
    <3>3. QED
      BY <2>1, <3>2
  <2>3. inverseProduct'[a] = [k \in 1 .. N |-> FirstIn(Quotients(a, Nth(1 .. N, k)))]
    <3> HIDE DEF N, found
    <3>1. QED
      BY <1>1, <2>1, <2>2
  <2>4. PICK c \in DOMAIN symmetries :
             /\ Quotients(a, b) = {c}
             /\ \A s \in Slot : vectors[symmetries[b].permutation[symmetries[c].permutation[s]]]
                                = vectors[symmetries[a].permutation[s]]
    BY <1>1, QuotientIs
  <2>5. inverseProduct'[a][b] = FirstIn({c})
    <3> HIDE DEF N, found
    <3>1. QED
      BY <1>5, <1>6, <2>3, <2>4
  <2>6. FirstIn({c}) = c
    <3>1. c \in Int
      BY <1>5
    <3>2. QED
      BY <3>1 DEF FirstIn
  <2>7. Len(inverseProduct'[a]) = N
    <3> HIDE DEF N, found
    <3>1. QED
      BY <1>5, <2>3
  <2>8. QED
    BY <2>4, <2>5, <2>6, <2>7
<1>8. ProductsPlaced'
  <2>1. Placed(vectors, Slot, symmetries, inverseProduct')
    BY <1>7 DEF Placed
  <2>2. Placed(vectors', Slot', symmetries', inverseProduct')
    BY <1>1, <1>2, <2>1
  <2>3. QED
    BY <2>2 DEF ProductsPlaced, Placed
<1>9. AdaptedTruthful'
  <2>1. DOMAIN adapted' = {}
    BY <1>1
  <2>2. QED
    BY <2>1 DEF AdaptedTruthful
<1>10. (\A i \in DOMAIN symmetries : Proper(symmetries[i].transformation))'
  BY <1>1, <1>2
<1>11. QED
  BY <1>1, <1>2, <1>3, <1>4, <1>8, <1>9, <1>10 DEF SymmetryInv

----------------------------------------------------------------------------
(* An atom's own order of the neighbours *)

\* Fractions with denominators that are positive are in an order.
LEMMA BelowOrders ==
    ASSUME NEW a \in Int, NEW b \in Int, b > 0, NEW c \in Int, NEW d \in Int, d > 0,
           NEW e \in Int, NEW g \in Int, g > 0
    PROVE  /\ Below(<<a, b>>, <<c, d>>) /\ ~Below(<<e, g>>, <<c, d>>) => Below(<<a, b>>, <<e, g>>)
           /\ ~Below(<<a, b>>, <<a, b>>)
           /\ Below(<<a, b>>, <<c, d>>) => ~Below(<<c, d>>, <<a, b>>)
<1>1. ASSUME a * d < c * b, ~(e * d < c * g) PROVE a * g < e * b
  <2>1. \A x, y, z \in Int : x < y /\ z > 0 => x * z < y * z
    OBVIOUS
  <2>2. \A x, y, z \in Int : x <= y /\ z > 0 => x * z <= y * z
    OBVIOUS
  <2>3. (a * d) * g < (c * b) * g
    BY <1>1, <2>1
  <2>4. (c * g) * b <= (e * d) * b
    BY <1>1, <2>2
  <2>5. (a * g) * d < (e * b) * d
    <3>1. (a * d) * g = (a * g) * d /\ (c * b) * g = (c * g) * b /\ (e * d) * b = (e * b) * d
      OBVIOUS
    <3>2. PICK x, y, z, w \in Int : x = (a * g) * d /\ y = (c * g) * b /\ z = (e * b) * d /\ w = a * g
      OBVIOUS
    <3>3. x < y /\ y <= z
      BY <2>3, <2>4, <3>1, <3>2
    <3>4. QED
      BY <3>2, <3>3
  <2>6. PICK x, y \in Int : x = a * g /\ y = e * b
    OBVIOUS
  <2>7. x * d < y * d
    BY <2>5, <2>6
  <2>8. ~(x < y) => y * d <= x * d
    BY <2>2
  <2>9. QED
    BY <2>6, <2>7, <2>8
<1>2. QED
  BY <1>1 DEF Below

\* A direction that none is nearer to, among those of any slots.
LEMMA NearestExists ==
    ASSUME vectors \in Shells, NEW l \in Vector, l # Nowhere, \A s \in Slot : vectors[s] # Nowhere,
           NEW used, Slot \ used # {}
    PROVE  NearestSlots(l, used) # {} /\ NearestSlots(l, used) \subseteq Slot \ used
<1> DEFINE n == Len(vectors)
           free == Slot \ used
           cos(s) == Cosine(l, vectors[s])
           G == {b \in Nat : {s \in free : s <= b} # {} =>
                    \E s \in free : s <= b /\ \A t \in free : t <= b => ~Below(cos(s), cos(t))}
<1>0. Slot = 1 .. n /\ n \in Nat /\ \A s \in Slot : vectors[s] \in Vector
  BY ShellTypes
<1>1. \A v \in Vector : v # Nowhere => Dot(v, v) \in Int /\ Dot(v, v) > 0
  <2>1. SUFFICES ASSUME NEW v \in Vector, v # Nowhere PROVE Dot(v, v) \in Int /\ Dot(v, v) > 0
    OBVIOUS
  <2>2. PICK x, y, z \in Int : x = v[1] /\ y = v[2] /\ z = v[3]
    BY DEF Vector, Axis
  <2>3. Dot(v, v) = x * x + y * y + z * z
    BY <2>2 DEF Dot
  <2>4. x * x >= 0 /\ y * y >= 0 /\ z * z >= 0
    OBVIOUS
  <2>5. Dot(v, v) # 0
    <3>1. SUFFICES ASSUME Dot(v, v) = 0 PROVE FALSE
      OBVIOUS
    <3>2. v[1] = 0 /\ v[2] = 0 /\ v[3] = 0
      BY <2>1, <3>1, NoLength
    <3>3. Nowhere \in Vector /\ Nowhere[1] = 0 /\ Nowhere[2] = 0 /\ Nowhere[3] = 0
      BY DEF Nowhere, Vector, Axis
    <3>4. QED
      BY <2>1, <3>2, <3>3, SameVector
  <2>6. QED
    BY <2>3, <2>4, <2>5
<1>2. \A s \in Slot : \E a, b \in Int : b > 0 /\ cos(s) = <<a, b>>
  <2>1. SUFFICES ASSUME NEW s \in Slot PROVE \E a, b \in Int : b > 0 /\ cos(s) = <<a, b>>
    OBVIOUS
  <2>2. PICK d, x, y \in Int : d = Dot(l, vectors[s]) /\ x = Dot(l, l) /\ y = Dot(vectors[s], vectors[s])
                               /\ x > 0 /\ y > 0
    BY <1>0, <1>1, VectorTypes
  <2>3. x * y \in Int /\ x * y > 0 /\ -d * d \in Int /\ d * d \in Int
    BY <2>2
  <2>4. cos(s) = <<IF d < 0 THEN -d * d ELSE d * d, x * y>>
    BY <2>2 DEF Cosine
  <2>5. QED
    BY <2>3, <2>4
<1>3. ASSUME NEW s \in Slot, NEW t \in Slot, NEW r \in Slot
      PROVE  /\ Below(cos(s), cos(t)) /\ ~Below(cos(r), cos(t)) => Below(cos(s), cos(r))
             /\ ~Below(cos(s), cos(s))
             /\ Below(cos(s), cos(t)) => ~Below(cos(t), cos(s))
  <2>1. PICK a, b \in Int : b > 0 /\ cos(s) = <<a, b>>
    BY <1>2
  <2>2. PICK c, d \in Int : d > 0 /\ cos(t) = <<c, d>>
    BY <1>2
  <2>3. PICK e, g \in Int : g > 0 /\ cos(r) = <<e, g>>
    BY <1>2
  <2> HIDE DEF cos
  <2>4. QED
    BY <2>1, <2>2, <2>3, BelowOrders
<1> HIDE DEF cos
<1>4. 0 \in G
  <2>1. {s \in free : s <= 0} = {}
    BY <1>0
  <2>2. QED
    BY <2>1
<1>5. ASSUME NEW b \in 1 .. n, b - 1 \in G PROVE b \in G
  <2>0. b \in Slot /\ \A s \in Slot : s <= b <=> (s <= b - 1 \/ s = b)
    BY <1>0
  <2>1. SUFFICES ASSUME {s \in free : s <= b} # {}
                 PROVE  \E s \in free : s <= b /\ \A t \in free : t <= b => ~Below(cos(s), cos(t))
    BY <1>0
  <2>2. CASE {s \in free : s <= b - 1} = {}
    <3>1. b \in free /\ \A t \in free : t <= b => t = b
      BY <2>0, <2>1, <2>2
    <3>2. b <= b /\ ~Below(cos(b), cos(b))
      BY <1>0, <1>3, <2>0
    <3>3. QED
      BY <3>1, <3>2
  <2>3. CASE {s \in free : s <= b - 1} # {}
    <3>1. PICK s \in free : s <= b - 1 /\ \A t \in free : t <= b - 1 => ~Below(cos(s), cos(t))
      BY <1>5, <2>3
    <3>2. s \in Slot /\ s <= b /\ b <= b
      BY <1>0, <2>0, <3>1
    <3>3. CASE b \in free /\ Below(cos(s), cos(b))
      <4>1. \A t \in free : t <= b => ~Below(cos(b), cos(t))
        <5>1. ASSUME NEW t \in free, t <= b, Below(cos(b), cos(t)) PROVE FALSE
          <6>1. t \in Slot
            OBVIOUS
          <6>2. CASE t = b
            BY <1>3, <2>0, <5>1, <6>2
          <6>3. CASE t <= b - 1
            <7>1. ~Below(cos(s), cos(t))
              BY <3>1, <6>3
            <7>2. Below(cos(b), cos(s))
              BY <1>3, <2>0, <3>2, <5>1, <6>1, <7>1
            <7>3. QED
              BY <1>3, <2>0, <3>2, <3>3, <7>2
          <6>4. QED
            BY <2>0, <5>1, <6>1, <6>2, <6>3
        <5>2. QED
          BY <5>1
      <4>2. QED
        BY <3>2, <3>3, <4>1
    <3>4. CASE ~(b \in free /\ Below(cos(s), cos(b)))
      <4>1. \A t \in free : t <= b => ~Below(cos(s), cos(t))
        BY <2>0, <3>1, <3>4
      <4>2. QED
        BY <3>1, <3>2, <4>1
    <3>5. QED
      BY <3>3, <3>4
  <2>4. QED
    BY <2>2, <2>3
<1>6. n \in G
  <2> HIDE DEF G
  <2>1. 0 .. n \subseteq G
    BY <1>0, <1>4, <1>5, Induction
  <2>2. QED
    BY <1>0, <2>1
<1>7. {s \in free : s <= n} = free /\ \A t \in free : t <= n
  BY <1>0
<1>8. \E s \in free : \A t \in free : ~Below(cos(s), cos(t))
  BY <1>6, <1>7
<1>9. QED
  BY <1>8 DEF NearestSlots, cos

MatchedNext(local, m, k) == Append(m, FirstIn(NearestSlots(local[k], ToSet(m))))

\* MatchedTo is what its recursion says.
LEMMA MatchedDefined ==
    ASSUME vectors \in Shells, NEW local
    PROVE  /\ MatchedTo(local)[0] = <<>>
           /\ \A k \in 1 .. Len(vectors) :
                 MatchedTo(local)[k] = MatchedNext(local, MatchedTo(local)[k - 1], k)
<1> DEFINE N == Len(vectors)
           Body(f, k) == IF k = 0 THEN <<>> ELSE MatchedNext(local, f[k - 1], k)
           Defined(f, b) == f = [k \in 0 .. b |-> Body(f, k)]
           G == {b \in Nat : \E f : Defined(f, b)}
<1>0. N \in Nat
  BY ShellTypes
<1>1. 0 \in G
  <2> DEFINE f == [k \in 0 .. 0 |-> <<>>]
  <2>1. f = [k \in 0 .. 0 |-> Body(f, k)]
    OBVIOUS
  <2>2. QED
    BY <2>1
<1>2. ASSUME NEW b \in 1 .. N, b - 1 \in G
      PROVE  b \in G
  <2>1. PICK f : Defined(f, b - 1)
    BY <1>2
  <2> DEFINE g == [k \in 0 .. b |-> IF k = b THEN MatchedNext(local, f[b - 1], b) ELSE f[k]]
  <2>2. ASSUME NEW k \in 0 .. b PROVE g[k] = Body(g, k)
    <3>1. CASE k = b
      BY <3>1
    <3>2. CASE k # b
      <4>1. k \in 0 .. b - 1 /\ (k # 0 => k - 1 \in 0 .. b /\ k - 1 # b)
        BY <3>2
      <4>2. f[k] = Body(f, k)
        BY <2>1, <4>1
      <4>3. k # 0 => g[k - 1] = f[k - 1]
        BY <4>1
      <4>4. QED
        BY <3>2, <4>2, <4>3
    <3>3. QED
      BY <3>1, <3>2
  <2>3. g = [k \in 0 .. b |-> g[k]]
    OBVIOUS
  <2>4. g = [k \in 0 .. b |-> Body(g, k)]
    BY <2>2, <2>3
  <2>5. b \in Nat /\ \E h : Defined(h, b)
    <3> HIDE DEF g
    <3>1. QED
      BY <1>0, <2>4
  <2>6. QED
    BY <2>5
<1>3. \E f : Defined(f, N)
  <2>1. N \in G
    <3> HIDE DEF G
    <3>1. 0 .. N \subseteq G
      BY <1>0, <1>1, <1>2, Induction
    <3>2. QED
      BY <1>0, <3>1
  <2>2. QED
    BY <2>1
<1>4. Defined(MatchedTo(local), N)
  BY <1>3 DEF MatchedTo, MatchedNext
<1>5. QED
  <2> DEFINE f == MatchedTo(local)
  <2>0. f = [k \in 0 .. N |-> Body(f, k)]
    BY <1>4
  <2>1. \A k \in 0 .. N : f[k] = Body(f, k)
    <3> HIDE DEF f, Body
    <3>1. QED
      BY <2>0
  <2> HIDE DEF f
  <2>2. QED
    BY <1>0, <2>1 DEF f

\* Neighbours get slots of their own.
LEMMA MatchedPermutes ==
    ASSUME vectors \in Shells, NEW local, Len(local) >= Len(vectors),
           \A s \in Slot : local[s] \in Vector /\ local[s] # Nowhere /\ vectors[s] # Nowhere
    PROVE  Permutes(MatchedTo(local)[Len(vectors)])
<1> DEFINE N == Len(vectors)
           m == MatchedTo(local)
           Good(k) == /\ m[k] \in [1 .. k -> Slot]
                      /\ \A s, t \in 1 .. k : m[k][s] = m[k][t] => s = t
           G == {k \in Nat : Good(k)}
<1>0. Slot = 1 .. N /\ N \in Nat
  BY ShellTypes
<1>1. m[0] = <<>> /\ \A k \in 1 .. N : m[k] = MatchedNext(local, m[k - 1], k)
  BY MatchedDefined
<1> HIDE DEF m
<1>2. 0 \in G
  <2>1. 1 .. 0 = {} /\ <<>> \in [1 .. 0 -> Slot]
    OBVIOUS
  <2>2. QED
    BY <1>1, <2>1
<1>3. ASSUME NEW k \in 1 .. N, k - 1 \in G PROVE k \in G
  <2> DEFINE p == m[k - 1]
             used == ToSet(p)
             new == FirstIn(NearestSlots(local[k], used))
  <2>1. /\ p \in [1 .. k - 1 -> Slot] /\ k - 1 \in Nat
        /\ \A s, t \in 1 .. k - 1 : p[s] = p[t] => s = t
    BY <1>3
  <2>2. p \in Seq(Slot) /\ Len(p) = k - 1 /\ DOMAIN p = 1 .. k - 1
    BY <2>1
  <2>3. used = {p[s] : s \in 1 .. k - 1}
    BY <2>2 DEF ToSet
  <2> HIDE DEF p, used
  <2>4. Slot \ used # {}
    <3>1. SUFFICES ASSUME Slot \subseteq used PROVE FALSE
      OBVIOUS
    <3>2. p \in Surjection(1 .. k - 1, Slot)
      <4>1. \A x \in Slot : \E s \in 1 .. k - 1 : p[s] = x
        BY <2>3, <3>1
      <4>2. QED
        BY <2>1, <4>1 DEF Surjection
    <3>3. IsFiniteSet(1 .. k - 1) /\ Cardinality(1 .. k - 1) = k - 1
      <4>1. PICK j \in Nat : j = k - 1
        BY <2>1
      <4>2. IsFiniteSet(1 .. j) /\ Cardinality(1 .. j) = j
        <5>1. 1 \in Int /\ j \in Int /\ (1 > j <=> j = 0)
          OBVIOUS
        <5>2. QED
          BY <5>1, FS_Interval
      <4>3. QED
        BY <4>1, <4>2
    <3>4. Cardinality(1 .. N) = N
      <4>1. 1 \in Int /\ N \in Int /\ ~(1 > N)
        BY <1>0
      <4> HIDE DEF N
      <4>2. QED
        BY <4>1, FS_Interval
    <3>5. Cardinality(Slot) <= Cardinality(1 .. k - 1)
      BY <3>2, <3>3, FS_Surjection
    <3>6. N <= k - 1
      BY <1>0, <3>3, <3>4, <3>5
    <3>7. QED
      BY <1>0, <3>6
  <2>5. new \in Slot \ used
    <3> DEFINE S == NearestSlots(local[k], used)
    <3>1. k \in Slot
      BY <1>0
    <3>2. S # {} /\ S \subseteq Slot \ used
      BY <2>4, <3>1, NearestExists
    <3> HIDE DEF S
    <3>3. FirstIn(S) \in S
      BY <3>2, FirstOf
    <3>4. QED
      BY <3>2, <3>3 DEF S
  <2>6. m[k] = Append(p, new)
    BY <1>1 DEF MatchedNext, p, used
  <2> HIDE DEF new
  <2>7. /\ DOMAIN m[k] = 1 .. k /\ m[k][k] = new
        /\ \A s \in 1 .. k - 1 : m[k][s] = p[s]
        /\ m[k] \in Seq(Slot) /\ Len(m[k]) = k
    BY <2>1, <2>2, <2>5, <2>6
  <2>8. m[k] \in [1 .. k -> Slot]
    BY <2>7
  <2>9. \A s \in 1 .. k : s = k \/ s \in 1 .. k - 1
    OBVIOUS
  <2>10. \A s \in 1 .. k - 1 : p[s] # new
    BY <2>3, <2>5
  <2>11. \A s, t \in 1 .. k : m[k][s] = m[k][t] => s = t
    BY <2>1, <2>7, <2>9, <2>10
  <2>12. QED
    BY <2>8, <2>11
<1>4. N \in G
  <2> HIDE DEF G
  <2>1. 0 .. N \subseteq G
    BY <1>0, <1>2, <1>3, Induction
  <2>2. QED
    BY <1>0, <2>1
<1>5. QED
  BY <1>0, <1>4 DEF m, Permutes

\* A neighbour and the slot it is matched with name the same vector of the shell.
LEMMA AdaptKeeps ==
    ASSUME SymmetryInv, AdaptTopology
    PROVE  SymmetryInv'
<1> DEFINE f == LocalToCanonical
           local == localVectors'
           Refused == \/ Len(local) < Len(vectors)
                      \/ \E s \in Slot : Nowhere \in {local[s], vectors[s]}
                      \/ \E l \in Slot : ~Alike(local[l], vectors[f[l]])
<1>1. /\ Shell /\ SymmetriesSound /\ vectors \in Shells /\ ~NoBasis /\ stage = "share" /\ stage' = "return"
      /\ Isometric /\ \A i \in DOMAIN symmetries : Proper(symmetries[i].transformation)
      /\ ProductsPlaced
      /\ adapted = <<>> /\ vectors' = vectors /\ symmetries' = symmetries
      /\ inverseProduct' = inverseProduct /\ local \in Locals(vectors)
  BY DEF SymmetryInv, Shell, AdaptTopology
<1>2. /\ Slot' = Slot /\ NoBasis' = NoBasis /\ Isometries' = Isometries
      /\ \A T : Proper(T)' = Proper(T)
      /\ \A T, v, w : Takes(T, v, w)' = Takes(T, v, w)
      /\ \A p : BasisImages(p)' = BasisImages(p) /\ Moves(p)' = Moves(p)
  BY <1>1, ShellKept
<1>3. SymmetriesSound' /\ \A g : Discovered(g) => Discovered(g)'
  BY <1>1, SymmetriesKept
<1>4. Isometric'
  BY <1>1, <1>2, <1>3 DEF Isometric
<1>5. ProductsPlaced'
  <2>1. Placed(vectors, Slot, symmetries, inverseProduct)
    BY <1>1 DEF ProductsPlaced, Placed
  <2>2. Placed(vectors', Slot', symmetries', inverseProduct')
    BY <1>1, <1>2, <2>1
  <2>3. QED
    BY <2>2 DEF ProductsPlaced, Placed
<1>6. (\A i \in DOMAIN symmetries : Proper(symmetries[i].transformation))'
  BY <1>1, <1>2
<1>7. AdaptedTruthful'
  <2>1. CASE Refused
    <3>1. adapted' = <<>>
      BY <1>1, <2>1 DEF AdaptTopology
    <3>2. DOMAIN adapted' = {}
      BY <3>1
    <3>3. QED
      BY <3>2 DEF AdaptedTruthful
  <2>2. CASE ~Refused
    <3>1. adapted' = [i \in DOMAIN symmetries |-> AdaptedBy(f, symmetries[i].permutation)]
      BY <2>2 DEF AdaptTopology
    <3>2. \A s \in Slot : local[s] # Nowhere /\ vectors[s] # Nowhere /\ Alike(local[s], vectors[f[s]])
      BY <2>2
    <3>3. local \in Seq(Vector) /\ Len(local) >= Len(vectors) /\ Slot \subseteq DOMAIN local
          /\ \A s \in Slot : local[s] \in Vector
      <4>1. local \in Seq(Vector)
        BY <1>1, ShellsAssumption DEF Vector
      <4>2. Len(local) \in Nat /\ Len(vectors) \in Nat /\ ~(Len(local) < Len(vectors))
        BY <1>1, <2>2, <4>1, ShellTypes
      <4>3. Slot \subseteq DOMAIN local
        BY <1>1, <4>1, <4>2, ShellTypes
      <4>4. QED
        BY <4>1, <4>2, <4>3
    <3>4. Permutes(f)
      BY <1>1, <3>2, <3>3, MatchedPermutes DEF LocalToCanonical
    <3> HIDE DEF f, local
    <3>5. ASSUME NEW i \in DOMAIN symmetries, NEW l \in Slot, NEW s \in Slot, NEW t \in Slot,
                 Alike(local[l], vectors[s]),
                 Takes(symmetries[i].transformation, vectors[s], vectors[t])
          PROVE  Alike(local[adapted'[i][l]], vectors[t])
      <4> DEFINE p == symmetries[i].permutation
                 T == symmetries[i].transformation
                 k == adapted'[i][l]
      <4>1. Realizes(T, p) /\ p \in [Slot -> Slot]
        BY <1>1 DEF SymmetriesSound, Realizes, Permutes
      <4>2. k = CHOOSE j \in Slot : f[j] = p[f[l]]
        BY <3>1 DEF AdaptedBy
      <4> HIDE DEF p, T, k
      <4>3. f[l] \in Slot /\ p[f[l]] \in Slot
        BY <3>4, <4>1 DEF Permutes
      <4>4. \E j \in Slot : f[j] = p[f[l]]
        <5>1. Slot = 1 .. Len(vectors) /\ Len(vectors) \in Nat /\ Orders(Len(vectors), f)
          BY <1>1, <3>4, ShellTypes, PermutesIsOrder
        <5>2. \A r \in 1 .. Len(vectors) : \E j \in 1 .. Len(vectors) : f[j] = r
          BY <5>1, OrderOnto
        <5>3. QED
          BY <4>3, <5>1, <5>2
      <4>5. k \in Slot /\ f[k] = p[f[l]]
        BY <4>2, <4>4
      <4>6. vectors[f[l]] = vectors[s]
        <5>1. l \in DOMAIN local /\ f[l] \in DOMAIN vectors /\ s \in DOMAIN vectors
          BY <3>3, <4>3 DEF Slot
        <5>2. Nowhere \notin {local[l], vectors[f[l]], vectors[s]}
          BY <3>2, <4>3
        <5>3. Alike(local[l], vectors[f[l]])
          BY <3>2
        <5>4. local \in Locals(vectors)
          BY <1>1 DEF local
        <5>5. QED
          BY <1>1, <3>5, <5>1, <5>2, <5>3, <5>4, ShellsAssumption
      <4>7. vectors[p[f[l]]] = vectors[t]
        <5>1. Image(T, vectors[f[l]]) = Times(Volume(Basis), vectors[p[f[l]]])
          BY <4>1, <4>3 DEF Realizes, Takes
        <5>2. Image(T, vectors[s]) = Times(Volume(Basis), vectors[t])
          BY <3>5 DEF Takes, T
        <5>3. Times(Volume(Basis), vectors[p[f[l]]]) = Times(Volume(Basis), vectors[t])
          BY <4>6, <5>1, <5>2
        <5>4. vectors[p[f[l]]] \in Vector /\ vectors[t] \in Vector
          BY <1>1, <4>3, ShellTypes
        <5>5. QED
          BY <1>1, <5>3, <5>4, BasisSound, TimesCancels
      <4>8. Alike(local[k], vectors[f[k]])
        BY <3>2, <4>5
      <4>9. QED
        BY <4>5, <4>7, <4>8 DEF k
    <3>6. DOMAIN adapted' = DOMAIN symmetries
      BY <3>1
    <3>7. QED
      BY <1>1, <1>2, <3>5, <3>6 DEF AdaptedTruthful, local
  <2>3. QED
    BY <2>1, <2>2
<1>8. QED
  BY <1>1, <1>2, <1>3, <1>4, <1>5, <1>6, <1>7 DEF SymmetryInv

LEMMA SymmetryStutterKeeps ==
    ASSUME SymmetryInv, UNCHANGED symmetryVars
    PROVE  SymmetryInv'
<1>1. /\ vectors' = vectors /\ permutation' = permutation /\ lastPermutation' = lastPermutation
      /\ transformation' = transformation /\ symmetries' = symmetries
      /\ inverseProduct' = inverseProduct /\ localVectors' = localVectors
      /\ adapted' = adapted /\ stage' = stage
  BY DEF symmetryVars
<1>2. /\ Slot' = Slot /\ BasisIndices' = BasisIndices /\ NoBasis' = NoBasis /\ Isometries' = Isometries
      /\ \A T, v, w : Takes(T, v, w)' = Takes(T, v, w)
      /\ \A T : IsOrthogonalMatrix(T)' = IsOrthogonalMatrix(T) /\ Proper(T)' = Proper(T)
      /\ \A p : BasisImages(p)' = BasisImages(p) /\ Permutes(p)' = Permutes(p) /\ Moves(p)' = Moves(p)
      /\ \A T, p : Realizes(T, p)' = Realizes(T, p)
  BY <1>1, ShellKept
<1>3. SymmetriesSound => SymmetriesSound'
  BY <1>1, SymmetriesKept
<1>4. \A f : Discovered(f)' = Discovered(f)
  BY <1>1, <1>2 DEF Discovered
<1>5. ChangedFrom' = ChangedFrom
  BY <1>1, <1>2 DEF ChangedFrom
<1>6. AgreesBefore' = AgreesBefore
  BY <1>1, <1>2, <1>5 DEF AgreesBefore, BasisChanged
<1>7. PermuteSound' = PermuteSound
  BY <1>1, <1>2, <1>4, <1>6 DEF PermuteSound
<1>8. Isometric' = Isometric
  BY <1>2, <1>4 DEF Isometric
<1>9. ProductsPlaced' = ProductsPlaced /\ AdaptedTruthful' = AdaptedTruthful
  BY <1>1, <1>2 DEF ProductsPlaced, AdaptedTruthful
<1>10. QED
  BY <1>1, <1>2, <1>3, <1>4, <1>7, <1>8, <1>9 DEF SymmetryInv

LEMMA SymmetryNextKeeps == SymmetryInv /\ [SymmetryNext]_symmetryVars => SymmetryInv'
<1> SUFFICES ASSUME SymmetryInv, [SymmetryNext]_symmetryVars PROVE SymmetryInv'
  OBVIOUS
<1>1. CASE stage = "permute" /\ NotOrthogonal
  BY <1>1, NotOrthogonalKeeps
<1>2. CASE stage = "permute" /\ Misplaced
  BY <1>2, MisplacedKeeps
<1>3. CASE stage = "permute" /\ FindSymmetry
  BY <1>3, FindSymmetryKeeps
<1>4. CASE RetainProperRotations
  BY <1>4, RetainKeeps
<1>5. CASE CalculateSymmetryProducts
  BY <1>5, ProductsKeep
<1>6. CASE AdaptTopology
  BY <1>6, AdaptKeeps
<1>7. CASE ReturnSymmetries
  BY <1>7, SymmetryStutterKeeps DEF ReturnSymmetries
<1>8. CASE UNCHANGED symmetryVars
  BY <1>8, SymmetryStutterKeeps
<1>9. QED
  BY <1>1, <1>2, <1>3, <1>4, <1>5, <1>6, <1>7, <1>8 DEF SymmetryNext

\* The invariant the results about symmetries rest on: at each leap the
\* isometries that come before the next permutation are found.
THEOREM SymmetryInvariant == SymmetrySpec => []SymmetryInv
<1>1. QED
  BY SymmetryInitSound, SymmetryNextKeeps, PTL DEF SymmetrySpec

\* No leap of generateSymmetryPermutations jumps over a symmetry of the shell,
\* and none is entered twice.
THEOREM EnumerationCorrect == SymmetrySpec => []EnumerationComplete
<1>1. SymmetryInv => EnumerationComplete
  <2>1. SUFFICES ASSUME SymmetryInv, stage = "retain"
        PROVE  /\ {Moves(symmetries[i].permutation) : i \in DOMAIN symmetries} = {Moves(f) : f \in Isometries}
               /\ \A i, j \in DOMAIN symmetries :
                     Moves(symmetries[i].permutation) = Moves(symmetries[j].permutation) => i = j
    BY DEF EnumerationComplete
  <2>2. Shell /\ SymmetriesSound /\ \A f \in Isometries : Discovered(f)
    BY <2>1 DEF SymmetryInv, Shell
  <2>3. \A i \in DOMAIN symmetries :
          /\ symmetries[i].transformation = BasisImages(symmetries[i].permutation)
          /\ symmetries[i].permutation \in Isometries
    <3>1. SUFFICES ASSUME NEW i \in DOMAIN symmetries
          PROVE  /\ symmetries[i].transformation = BasisImages(symmetries[i].permutation)
                 /\ symmetries[i].permutation \in Isometries
      OBVIOUS
    <3>2. Realizes(symmetries[i].transformation, symmetries[i].permutation)
      BY <2>2 DEF SymmetriesSound
    <3>3. symmetries[i].transformation = BasisImages(symmetries[i].permutation)
      BY <3>2 DEF Realizes
    <3>4. QED
      BY <2>2, <3>2, <3>3, RealizedIsometry
  <2>4. ASSUME NEW f \in Isometries PROVE Moves(f) \in {Moves(symmetries[i].permutation) : i \in DOMAIN symmetries}
    BY <2>2 DEF Discovered
  <2>5. ASSUME NEW i \in DOMAIN symmetries, NEW j \in DOMAIN symmetries,
               Moves(symmetries[i].permutation) = Moves(symmetries[j].permutation)
        PROVE  i = j
    <3>1. BasisImages(symmetries[i].permutation) = BasisImages(symmetries[j].permutation)
      BY <2>2, <2>5, BasisByMoves
    <3>2. QED
      BY <2>2, <2>3, <3>1 DEF SymmetriesSound
  <2>6. QED
    BY <2>3, <2>4, <2>5
<1>2. QED
  BY <1>1, SymmetryInvariant, PTL

\* calculateSymmetryProducts puts each product where it is looked up.
THEOREM ProductsCorrect == SymmetrySpec => []ProductsPlaced
<1>1. SymmetryInv => ProductsPlaced
  BY DEF SymmetryInv
<1>2. QED
  BY <1>1, SymmetryInvariant, PTL

\* What adaptSharedCrystalTopology returns turns an atom's own neighbours as
\* the matrices say.
THEOREM AdaptedCorrect == SymmetrySpec => []AdaptedTruthful
<1>1. SymmetryInv => AdaptedTruthful
  BY DEF SymmetryInv
<1>2. QED
  BY <1>1, SymmetryInvariant, PTL
=============================================================================
