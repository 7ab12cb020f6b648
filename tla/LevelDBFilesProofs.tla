-------------------------- MODULE LevelDBFilesProofs --------------------------
(* Proofs about LevelDB, for every set of keys and values, every depth, every trigger and every
   budget: what is on disk and what is known. Each invariant rests on those before it:
     TypeInv     every part has its type, and the parts agree on what is under way;
     FilesInv    numbers in use are never reused, and no file that is needed is deleted;
     EntriesInv  a key has one entry of a number, none beyond the last number, no table is empty.
   The actions are first put as what they do to the tables, the logs, the MANIFEST and the
   versions ("Steps", "AllSteps"), and the last two invariants are kept by each of these. *)
EXTENDS LevelDB, FiniteSetTheorems, WellFoundedInduction, SequenceTheorems, TLAPS

-----------------------------------------------------------------------------
\* Finite sets.

(* A family of finite sets has a smallest member. *)
LEMMA MinimalSubset ==
  ASSUME NEW F, F # {}, \A S \in F : IsFiniteSet(S)
  PROVE  \E S \in F : \A R \in F : R \subseteq S => R = S
<1> DEFINE U == UNION F
<1>1. F \subseteq FiniteSubsetsOf(U)
  BY DEF FiniteSubsetsOf
<1>2. IsWellFoundedOn(StrictSubsetOrdering(U), FiniteSubsetsOf(U))
  BY FS_StrictSubsetOrderingWellFounded
<1>3. PICK S \in F : \A R \in F : <<R, S>> \notin StrictSubsetOrdering(U)
  BY <1>1, <1>2, WFMin
<1>4. \A R \in F : R \in SUBSET U
  OBVIOUS
<1> QED
  BY <1>3, <1>4 DEF StrictSubsetOrdering

-----------------------------------------------------------------------------
\* The order of entries.

\* Sets of entries in which a key has at most one entry of a number.
Chain(entries) ==
    /\ entries \subseteq Entries
    /\ \A a, b \in entries : a.key = b.key /\ a.seq = b.seq => a = b

\* What a table holds.
Run(entries) == Chain(entries) /\ IsFiniteSet(entries) /\ entries # {}

\* One table comes before another.
Precedes(A, B) == \A a \in A, b \in B : Before(a, b)

\* The keys of one are all below or all above those of the other.
Apart(A, B) ==
    \/ \A a \in A, b \in B : a.key < b.key
    \/ \A a \in A, b \in B : a.key > b.key

(* Before is a strict order, total on a chain. *)
LEMMA BeforeOrder ==
  /\ \A a \in Entries : ~Before(a, a)
  /\ \A a, b, c \in Entries : Before(a, b) /\ Before(b, c) => Before(a, c)
  /\ \A a, b \in Entries : Before(a, b) => a.key <= b.key
  /\ \A S : Chain(S) => \A a, b \in S : a = b \/ Before(a, b) \/ Before(b, a)
<1>0. \A e \in Entries : e.seq \in Nat
  BY DEF Entries
<1>1. \A e \in Entries : e.key \in Int
  BY KeysAssumption DEF Entries
<1> QED BY <1>0, <1>1 DEF Before, Chain

(* A part of a chain is one. *)
LEMMA ChainPart ==
  ASSUME NEW S, Chain(S), NEW T \in SUBSET S
  PROVE  Chain(T)
BY DEF Chain

(* A finite chain has a first entry. *)
LEMMA FirstEntry ==
  ASSUME NEW S, Run(S)
  PROVE  \E a \in S : \A b \in S \ {a} : Before(a, b)
<1> DEFINE Bad == {T \in SUBSET S : T # {} /\ ~\E a \in T : \A b \in T \ {a} : Before(a, b)}
<1> SUFFICES ASSUME Bad # {} PROVE FALSE
  BY DEF Run
<1>1. \A T \in Bad : IsFiniteSet(T)
  BY FS_Subset DEF Run
<1>2. PICK T \in Bad : \A R \in Bad : R \subseteq T => R = T
  <2> HIDE DEF Bad
  <2> QED BY <1>1, MinimalSubset
<1>3. T \in SUBSET S /\ T # {} /\ ~\E a \in T : \A b \in T \ {a} : Before(a, b)
  BY <1>2
<1>4. PICK x \in T : TRUE
  BY <1>3
<1>5. T \ {x} # {}
  BY <1>3, <1>4
<1>6. T \ {x} \notin Bad
  BY <1>2, <1>4
<1>7. PICK a \in T \ {x} : \A b \in (T \ {x}) \ {a} : Before(a, b)
  BY <1>3, <1>5, <1>6
<1>8. a \in Entries /\ x \in Entries /\ T \subseteq Entries
  BY <1>3, <1>4, <1>7 DEF Run, Chain
<1>9. Before(a, x) \/ Before(x, a)
  BY <1>3, <1>4, <1>7, BeforeOrder DEF Run
<1>10. CASE Before(a, x)
  BY <1>3, <1>7, <1>10
<1>11. CASE Before(x, a)
  <2>1. \A b \in T \ {x} : Before(x, b)
    BY <1>7, <1>8, <1>11, BeforeOrder
  <2> QED BY <1>3, <1>4, <2>1
<1> QED BY <1>9, <1>10, <1>11

(* It has a last one. *)
LEMMA LastEntry ==
  ASSUME NEW S, Run(S)
  PROVE  \E a \in S : \A b \in S \ {a} : Before(b, a)
<1> DEFINE Bad == {T \in SUBSET S : T # {} /\ ~\E a \in T : \A b \in T \ {a} : Before(b, a)}
<1> SUFFICES ASSUME Bad # {} PROVE FALSE
  BY DEF Run
<1>1. \A T \in Bad : IsFiniteSet(T)
  BY FS_Subset DEF Run
<1>2. PICK T \in Bad : \A R \in Bad : R \subseteq T => R = T
  <2> HIDE DEF Bad
  <2> QED BY <1>1, MinimalSubset
<1>3. T \in SUBSET S /\ T # {} /\ ~\E a \in T : \A b \in T \ {a} : Before(b, a)
  BY <1>2
<1>4. PICK x \in T : TRUE
  BY <1>3
<1>5. T \ {x} # {}
  BY <1>3, <1>4
<1>6. T \ {x} \notin Bad
  BY <1>2, <1>4
<1>7. PICK a \in T \ {x} : \A b \in (T \ {x}) \ {a} : Before(b, a)
  BY <1>3, <1>5, <1>6
<1>8. a \in Entries /\ x \in Entries /\ T \subseteq Entries
  BY <1>3, <1>4, <1>7 DEF Run, Chain
<1>9. Before(a, x) \/ Before(x, a)
  BY <1>3, <1>4, <1>7, BeforeOrder DEF Run
<1>10. CASE Before(x, a)
  BY <1>3, <1>7, <1>10
<1>11. CASE Before(a, x)
  <2>1. \A b \in T \ {x} : Before(b, x)
    BY <1>7, <1>8, <1>11, BeforeOrder
  <2> QED BY <1>3, <1>4, <2>1
<1> QED BY <1>9, <1>10, <1>11

(* Smallest and Largest are those entries. *)
LEMMA Extremes ==
  ASSUME NEW S, Run(S)
  PROVE  /\ Smallest(S) \in S /\ Largest(S) \in S
         /\ Smallest(S) \in Entries /\ Largest(S) \in Entries
         /\ \A b \in S : b = Smallest(S) \/ Before(Smallest(S), b)
         /\ \A b \in S : b = Largest(S) \/ Before(b, Largest(S))
         /\ \A b \in S : Smallest(S).key <= b.key /\ b.key <= Largest(S).key
<1>1. Smallest(S) \in S /\ \A b \in S \ {Smallest(S)} : Before(Smallest(S), b)
  BY FirstEntry DEF Smallest
<1>2. Largest(S) \in S /\ \A b \in S \ {Largest(S)} : Before(b, Largest(S))
  BY LastEntry DEF Largest
<1>3. S \subseteq Entries /\ \A e \in Entries : e.key \in Int
  BY KeysAssumption DEF Run, Chain, Entries
<1> QED BY <1>1, <1>2, <1>3, BeforeOrder

(* Comparing the ends of two tables compares all their entries. *)
LEMMA EndsPrecede ==
  ASSUME NEW A, Run(A), NEW B, Run(B)
  PROVE  Before(Largest(A), Smallest(B)) <=> Precedes(A, B)
<1>1. A \subseteq Entries /\ B \subseteq Entries
  BY DEF Run, Chain
<1> QED BY <1>1, Extremes, BeforeOrder DEF Precedes

(* A table overlaps the range of some entries unless it is apart from them. *)
LEMMA OverlapsApart ==
  ASSUME NEW A, Run(A), NEW B, Run(B)
  PROVE  Overlaps(A, Smallest(B).key, Largest(B).key) <=> ~Apart(A, B)
<1>1. /\ \A a \in A : a.key \in Int
      /\ \A b \in B : b.key \in Int
  BY KeysAssumption DEF Run, Chain, Entries
<1>2. /\ Smallest(B) \in B /\ Largest(B) \in B
      /\ \A b \in B : Smallest(B).key <= b.key /\ b.key <= Largest(B).key
  BY Extremes
<1> DEFINE lo == Smallest(B).key
           hi == Largest(B).key
<1>3. lo \in Int /\ hi \in Int /\ lo <= hi
  BY <1>1, <1>2
<1>4. (\A a \in A : a.key < lo) <=> (\A a \in A, b \in B : a.key < b.key)
  BY <1>1, <1>2
<1>5. (\A a \in A : a.key > hi) <=> (\A a \in A, b \in B : a.key > b.key)
  BY <1>1, <1>2
<1>6. Overlaps(A, lo, hi) <=> (\E e \in A : e.key >= lo) /\ (\E e \in A : e.key <= hi)
  BY DEF Overlaps
<1> HIDE DEF lo, hi
<1>7. Overlaps(A, lo, hi) <=> ~(\A a \in A : a.key < lo) /\ ~(\A a \in A : a.key > hi)
  BY <1>1, <1>3, <1>6
<1>8. Overlaps(A, lo, hi) <=> ~Apart(A, B)
  BY <1>4, <1>5, <1>7 DEF Apart
<1> QED BY <1>8 DEF lo, hi

-----------------------------------------------------------------------------
\* The tables a compaction takes.

(* What a version's tables always are: finitely many on each level, none empty, a key
   and a number at most once. *)
Tidy(store, files) ==
    /\ files \in [Levels -> SUBSET Nat]
    /\ \A level \in Levels : IsFiniteSet(files[level])
    /\ \A n \in Numbers(files) : Run(store[n])
    /\ Chain(Contents(store, Numbers(files)))

\* Sorted, entry by entry.
Ordered(store, files) ==
    \A level \in Levels \ {0} : \A n, m \in files[level] :
        n # m => Precedes(store[n], store[m]) \/ Precedes(store[m], store[n])

(* Sorted and Ordered are the same. *)
LEMMA SortedIsOrdered ==
  ASSUME NEW store, NEW files, Tidy(store, files)
  PROVE  Sorted(store, files) <=> Ordered(store, files)
<1>1. \A level \in Levels : \A n \in files[level] : Run(store[n])
  BY DEF Tidy, Numbers
<1> QED BY <1>1, EndsPrecede DEF Sorted, Ordered

(* So are a function's values on a finite set. *)
LEMMA ValuesFinite ==
  ASSUME NEW f, NEW S, IsFiniteSet(S)
  PROVE  IsFiniteSet({f[x] : x \in S})
<1> DEFINE T == {f[x] : x \in S}
           g == [x \in S |-> f[x]]
<1>1. g \in Surjection(S, T)
  BY DEF Surjection
<1> QED BY <1>1, FS_Surjection

(* The levels' tables are finitely many. *)
LEMMA NumbersFinite ==
  ASSUME NEW files, files \in [Levels -> SUBSET Nat],
         \A level \in Levels : IsFiniteSet(files[level])
  PROVE  IsFiniteSet(Numbers(files)) /\ Numbers(files) \subseteq Nat
<1>1. IsFiniteSet(Levels)
  BY FS_Interval, LevelsAssumption DEF Levels
<1>2. IsFiniteSet({files[level] : level \in Levels})
  BY <1>1, ValuesFinite
<1> QED BY <1>2, FS_UNION DEF Numbers

(* The contents of finitely many tables are a table's. *)
LEMMA ContentsRun ==
  ASSUME NEW store, NEW numbers, IsFiniteSet(numbers), numbers # {},
         \A n \in numbers : Run(store[n]), Chain(Contents(store, numbers))
  PROVE  Run(Contents(store, numbers))
<1>1. IsFiniteSet({store[n] : n \in numbers})
  BY ValuesFinite
<1>2. \A S \in {store[n] : n \in numbers} : IsFiniteSet(S)
  BY DEF Run
<1>3. IsFiniteSet(Contents(store, numbers))
  BY <1>1, <1>2, FS_UNION DEF Contents
<1>4. Contents(store, numbers) # {}
  BY DEF Contents, Run
<1> QED BY <1>3, <1>4 DEF Run

(* Meeting takes the tables that are not apart. *)
LEMMA MeetingApart ==
  ASSUME NEW store, NEW numbers, \A n \in numbers : Run(store[n]), NEW E, Run(E)
  PROVE  Meeting(store, numbers, E) = {n \in numbers : ~Apart(store[n], E)}
BY OverlapsApart DEF Meeting

(* What is apart from more is apart from less. *)
LEMMA ApartLess ==
  ASSUME NEW A, NEW B, NEW C, C \subseteq B
  PROVE  /\ Apart(A, B) => Apart(A, C)
         /\ Apart(B, A) => Apart(C, A)
BY DEF Apart

(* The two sides of F. *)
Below(A, F) == \A a \in A, f \in F : a.key < f.key
Above(A, F) == \A a \in A, f \in F : a.key > f.key

(* What is on different sides of some entries is apart. *)
LEMMA SidesApart ==
  ASSUME NEW A, A \subseteq Entries, NEW B, B \subseteq Entries,
         NEW F, F \subseteq Entries, F # {}
  PROVE  /\ Apart(A, F) <=> Below(A, F) \/ Above(A, F)
         /\ Below(A, F) /\ Above(B, F) => Apart(A, B)
         /\ Above(A, F) /\ Below(B, F) => Apart(A, B)
<1>1. \A e \in Entries : e.key \in Int
  BY KeysAssumption DEF Entries
<1> QED BY <1>1 DEF Apart, Below, Above

(* Parts of a tidy version's contents are tables' contents. *)
LEMMA TidyPart ==
  ASSUME NEW store, NEW files, Tidy(store, files)
  PROVE  /\ \A level \in Levels : \A n \in files[level] : n \in Numbers(files) /\ Run(store[n])
         /\ \A numbers \in SUBSET Numbers(files) :
               /\ Contents(store, numbers) \subseteq Contents(store, Numbers(files))
               /\ IsFiniteSet(numbers)
               /\ numbers # {} => Run(Contents(store, numbers))
         /\ \A E \in SUBSET Contents(store, Numbers(files)) :
               Run(E) =>
               \A numbers \in SUBSET Numbers(files) : Run(E \cup Contents(store, numbers))
<1>1. \A level \in Levels : \A n \in files[level] : n \in Numbers(files) /\ Run(store[n])
  BY DEF Tidy, Numbers
<1>2. IsFiniteSet(Numbers(files))
  BY NumbersFinite DEF Tidy
<1>3. ASSUME NEW numbers \in SUBSET Numbers(files)
      PROVE  /\ Contents(store, numbers) \subseteq Contents(store, Numbers(files))
             /\ IsFiniteSet(numbers)
             /\ numbers # {} => Run(Contents(store, numbers))
  <2>1. Contents(store, numbers) \subseteq Contents(store, Numbers(files))
    BY DEF Contents
  <2>2. IsFiniteSet(numbers)
    BY <1>2, FS_Subset
  <2>3. Chain(Contents(store, numbers))
    BY <2>1, ChainPart DEF Tidy
  <2>4. numbers # {} => Run(Contents(store, numbers))
    BY <2>2, <2>3, ContentsRun DEF Tidy
  <2> QED BY <2>1, <2>2, <2>4
<1>4. ASSUME NEW E \in SUBSET Contents(store, Numbers(files)), Run(E),
             NEW numbers \in SUBSET Numbers(files)
      PROVE  Run(E \cup Contents(store, numbers))
  <2>1. CASE numbers = {}
    <3>1. E \cup Contents(store, numbers) = E
      BY <2>1 DEF Contents
    <3> QED BY <1>4, <3>1
  <2>2. CASE numbers # {}
    <3>1. Run(Contents(store, numbers))
      BY <1>3, <2>2
    <3>2. IsFiniteSet(E \cup Contents(store, numbers))
      BY <1>4, <3>1, FS_Union DEF Run
    <3>3. Chain(E \cup Contents(store, numbers))
      <4>1. E \cup Contents(store, numbers) \in SUBSET Contents(store, Numbers(files))
        BY <1>3
      <4> QED BY <4>1, ChainPart DEF Tidy
    <3> QED BY <1>4, <3>2, <3>3 DEF Run
  <2> QED BY <2>1, <2>2
<1> QED BY <1>1, <1>3, <1>4

(* Nothing lies between some entries and the tables taken for them. *)
Gapless(store, E, taken) ==
    \A F : /\ F \subseteq Entries /\ F # {}
           /\ Apart(E, F)
           /\ \A n \in taken : Apart(store[n], F)
           => Apart(E \cup Contents(store, taken), F)

(* What GetOverlappingInputs takes: every table that is not apart from the entries; in
   level 0 none that is apart from what it has taken is left out.  Below level 0 it takes
   nothing else.  There is no gap between what it takes. *)
Overlapped(store, files, level, E, G) ==
    /\ G \subseteq files[level]
    /\ \A n \in files[level] : ~Apart(store[n], E) => n \in G
    /\ level # 0 => \A n \in G : ~Apart(store[n], E)
    /\ level = 0 => \A n \in files[0] :
                       ~Apart(store[n], E \cup Contents(store, G)) => n \in G
    /\ Gapless(store, E, G)

(* It takes that. *)
LEMMA OverlappingInputs ==
  ASSUME NEW store, NEW files, Tidy(store, files), NEW level \in Levels,
         NEW E, E \subseteq Contents(store, Numbers(files)), Run(E),
         NEW G, G = GetOverlappingInputs(store, files, level, E)
  PROVE  Overlapped(store, files, level, E, G)
<1> USE DEF Gapless, Overlapped
<1> DEFINE direct == Meeting(store, files[level], E)
           IsClosed(taken) ==
             /\ direct \subseteq taken
             /\ Meeting(store, files[level], E \cup Contents(store, taken)) \subseteq taken
<1>0. /\ E \subseteq Entries
      /\ \A n \in files[level] : Run(store[n]) /\ store[n] \subseteq Entries
      /\ files[level] \subseteq Numbers(files)
      /\ Contents(store, Numbers(files)) \subseteq Entries
  BY TidyPart DEF Run, Chain, Tidy, Numbers
<1>1. direct = {n \in files[level] : ~Apart(store[n], E)}
  BY <1>0, MeetingApart
<1>2. \A taken \in SUBSET files[level] :
        Meeting(store, files[level], E \cup Contents(store, taken))
          = {n \in files[level] : ~Apart(store[n], E \cup Contents(store, taken))}
  <2> TAKE taken \in SUBSET files[level]
  <2>1. Run(E \cup Contents(store, taken))
    BY <1>0, TidyPart
  <2> QED BY <1>0, <2>1, MeetingApart
<1>3. CASE level # 0
  <2>1. level > 0
    BY <1>3 DEF Levels
  <2>2. G = direct
    BY <2>1 DEF GetOverlappingInputs
  <2>3. ASSUME NEW F, F \subseteq Entries, F # {}, Apart(E, F), \A n \in G : Apart(store[n], F)
        PROVE  Apart(E \cup Contents(store, G), F)
    <3>1. \A n \in G : store[n] \subseteq Entries /\ ~Apart(store[n], E)
      BY <1>0, <1>1, <2>2
    <3>2. CASE Below(E, F)
      <4>1. \A n \in G : Below(store[n], F)
        BY <1>0, <2>3, <3>1, <3>2, SidesApart
      <4> QED BY <3>2, <4>1 DEF Below, Apart, Contents
    <3>3. CASE Above(E, F)
      <4>1. \A n \in G : Above(store[n], F)
        BY <1>0, <2>3, <3>1, <3>3, SidesApart
      <4> QED BY <3>3, <4>1 DEF Above, Apart, Contents
    <3> QED BY <1>0, <2>3, <3>2, <3>3, SidesApart
  <2> HIDE DEF direct
  <2> QED BY <1>1, <1>3, <2>2, <2>3
<1>4. CASE level = 0
  <2> DEFINE family == {taken \in SUBSET files[0] : IsClosed(taken)}
  <2>1. family # {} /\ \A S \in family : IsFiniteSet(S)
    <3>1. files[0] \in family
      BY <1>4, <1>1, <1>2
    <3>2. IsFiniteSet(files[0])
      BY <1>4 DEF Tidy
    <3> QED BY <3>1, <3>2, FS_Subset
  <2>2. \E taken \in SUBSET files[0] :
          IsClosed(taken) /\ \A fewer \in SUBSET taken : IsClosed(fewer) => fewer = taken
    <3> HIDE DEF IsClosed, family
    <3>1. PICK S \in family : \A R \in family : R \subseteq S => R = S
      BY <2>1, MinimalSubset
    <3> QED BY <3>1 DEF family
  <2>3. G = CHOOSE taken \in SUBSET files[0] :
              IsClosed(taken) /\ \A fewer \in SUBSET taken : IsClosed(fewer) => fewer = taken
    BY <1>4 DEF GetOverlappingInputs
  <2>4. G \in SUBSET files[0] /\ IsClosed(G) /\ \A fewer \in SUBSET G : IsClosed(fewer) => fewer = G
    <3> HIDE DEF IsClosed
    <3> QED BY <2>2, <2>3
  <2>5. /\ \A n \in files[0] : ~Apart(store[n], E) => n \in G
        /\ \A n \in files[0] : ~Apart(store[n], E \cup Contents(store, G)) => n \in G
    <3>1. direct \subseteq G /\ G \in SUBSET files[level]
      BY <1>4, <2>4
    <3>2. Meeting(store, files[level], E \cup Contents(store, G)) \subseteq G
      BY <2>4
    <3>3. {n \in files[level] : ~Apart(store[n], E \cup Contents(store, G))} \subseteq G
      BY <1>2, <3>1, <3>2
    <3>4. {n \in files[level] : ~Apart(store[n], E)} \subseteq G
      BY <1>1, <3>1
    <3> QED BY <1>4, <3>3, <3>4
  <2>6. ASSUME NEW F, F \subseteq Entries, F # {}, Apart(E, F), \A n \in G : Apart(store[n], F),
               NEW L \in SUBSET G, NEW U \in SUBSET G, L \cup U = G,
               \/ /\ Below(E, F)
                  /\ \A n \in L : Below(store[n], F)
                  /\ \A n \in U : Above(store[n], F)
               \/ /\ Above(E, F)
                  /\ \A n \in L : Above(store[n], F)
                  /\ \A n \in U : Below(store[n], F)
        PROVE  L = G
    <3>1. ASSUME NEW n \in files[0], ~Apart(store[n], E \cup Contents(store, L)) PROVE n \in L
      <4>1. E \cup Contents(store, L) \subseteq E \cup Contents(store, G)
        BY DEF Contents
      <4>2. n \in G
        BY <2>5, <3>1, <4>1, ApartLess
      <4>3. /\ Below(E, F) /\ (\A m \in L : Below(store[m], F)) => Below(E \cup Contents(store, L), F)
            /\ Above(E, F) /\ (\A m \in L : Above(store[m], F)) => Above(E \cup Contents(store, L), F)
        BY DEF Below, Above, Contents
      <4>4. E \cup Contents(store, L) \subseteq Entries /\ store[n] \subseteq Entries
        BY <1>0, <1>4, <2>4, <4>1, <4>2 DEF Contents
      <4>5. n \notin U
        BY <2>6, <3>1, <4>3, <4>4, SidesApart
      <4> QED BY <2>6, <4>2, <4>5
    <3>2. IsClosed(L)
      <4>1. L \in SUBSET files[level]
        BY <1>4, <2>4
      <4>2. \A n \in files[0] : ~Apart(store[n], E) => n \in L
        <5>1. E \subseteq E \cup Contents(store, L)
          OBVIOUS
        <5> QED BY <3>1, <5>1, ApartLess
      <4> QED BY <1>1, <1>2, <1>4, <3>1, <4>1, <4>2
    <3> HIDE DEF IsClosed
    <3> QED BY <2>4, <3>2
  <2>7. ASSUME NEW F, F \subseteq Entries, F # {}, Apart(E, F), \A n \in G : Apart(store[n], F)
        PROVE  Apart(E \cup Contents(store, G), F)
    <3> DEFINE L == {n \in G : Below(store[n], F)}
               U == {n \in G : Above(store[n], F)}
    <3>1. L \in SUBSET G /\ U \in SUBSET G /\ L \cup U = G
      BY <1>0, <1>4, <2>4, <2>7, SidesApart
    <3>2. CASE Below(E, F)
      <4>1. L = G
        BY <2>6, <2>7, <3>1, <3>2
      <4> QED BY <3>2, <4>1 DEF Below, Apart, Contents
    <3>3. CASE Above(E, F)
      <4>1. U = G
        <5> HIDE DEF L, U
        <5>1. \A n \in U : Above(store[n], F)
          BY DEF U
        <5>2. \A n \in L : Below(store[n], F)
          BY DEF L
        <5>3. U \cup L = G
          BY <3>1
        <5> QED BY <2>6, <2>7, <3>1, <3>3, <5>1, <5>2, <5>3
      <4> QED BY <3>3, <4>1 DEF Above, Apart, Contents
    <3> QED BY <1>0, <2>7, <3>2, <3>3, SidesApart
  <2> HIDE DEF IsClosed, direct
  <2> QED BY <1>4, <2>4, <2>5, <2>7
<1> QED BY <1>3, <1>4

(* One of finitely many tables is the first of its level. *)
LEMMA FirstTable ==
  ASSUME NEW store, NEW numbers, numbers \subseteq Nat, IsFiniteSet(numbers), numbers # {},
         \A n \in numbers : Run(store[n]), Chain(Contents(store, numbers))
  PROVE  First(store, numbers) \subseteq numbers /\ First(store, numbers) # {}
<1> DEFINE Lower(n, m) == \/ Before(Smallest(store[n]), Smallest(store[m]))
                          \/ Smallest(store[n]) = Smallest(store[m]) /\ n < m
           Bad == {T \in SUBSET numbers : T # {} /\ ~\E n \in T : \A m \in T \ {n} : Lower(n, m)}
<1> SUFFICES ASSUME Bad # {} PROVE FALSE
  BY DEF First
<1>0. \A n \in numbers : /\ Smallest(store[n]) \in Entries
                         /\ Smallest(store[n]) \in Contents(store, numbers)
  BY Extremes DEF Contents
<1>1. \A n, m \in numbers : n # m => Lower(n, m) \/ Lower(m, n)
  BY <1>0, BeforeOrder
<1>2. \A n, m, o \in numbers : Lower(n, m) /\ Lower(m, o) => Lower(n, o)
  BY <1>0, BeforeOrder
<1> HIDE DEF Lower
<1>3. \A T \in Bad : IsFiniteSet(T)
  BY FS_Subset
<1>4. PICK T \in Bad : \A R \in Bad : R \subseteq T => R = T
  <2> HIDE DEF Bad
  <2> QED BY <1>3, MinimalSubset
<1>5. T \in SUBSET numbers /\ T # {} /\ ~\E n \in T : \A m \in T \ {n} : Lower(n, m)
  BY <1>4
<1>6. PICK x \in T : TRUE
  BY <1>5
<1>7. T \ {x} # {} /\ T \ {x} \notin Bad
  BY <1>4, <1>5, <1>6
<1>8. PICK a \in T \ {x} : \A b \in (T \ {x}) \ {a} : Lower(a, b)
  BY <1>5, <1>7
<1>9. CASE Lower(a, x)
  BY <1>5, <1>8, <1>9
<1>10. CASE Lower(x, a)
  <2>1. \A b \in T \ {x} : Lower(x, b)
    BY <1>2, <1>5, <1>6, <1>8, <1>10
  <2> QED BY <1>5, <1>6, <2>1
<1> QED BY <1>1, <1>5, <1>6, <1>8, <1>9, <1>10

(* Nothing outside has an older entry of a key that is taken. *)
NoOlderOutside(store, all, taken) ==
    \A n \in taken, m \in all \ taken : \A e \in store[n], f \in store[m] :
        e.key = f.key => f.seq > e.seq

(* A table outside that has one comes after all that is taken. *)
OlderComesAfter(store, all, numbers) ==
    \A n \in numbers, m \in all \ numbers : \A e \in store[n], f \in store[m] :
        e.key = f.key /\ f.seq <= e.seq => Precedes(Contents(store, numbers), store[m])

(* What AddBoundaryInputs takes: some tables more, without a gap. *)
Bounded(store, files, level, numbers, A) ==
    /\ numbers \subseteq A /\ A \subseteq files[level]
    /\ FindSmallestBoundaryFile(store, files[level], Largest(Contents(store, numbers)))
          \subseteq A
    /\ \A n \in A \ numbers :
          FindSmallestBoundaryFile(store, files[level], Largest(store[n])) \subseteq A
    /\ \A R \in SUBSET A :
          /\ numbers \subseteq R
          /\ FindSmallestBoundaryFile(store, files[level],
                                      Largest(Contents(store, numbers))) \subseteq R
          /\ \A n \in R \ numbers :
                FindSmallestBoundaryFile(store, files[level], Largest(store[n])) \subseteq R
          => R = A
    /\ \A F : /\ F \subseteq Entries /\ F # {}
              /\ Apart(Contents(store, numbers), F)
              /\ \A n \in A : Apart(store[n], F)
              => Apart(Contents(store, A), F)

(* It takes that. *)
LEMMA BoundaryInputs ==
  ASSUME NEW store, NEW files, Tidy(store, files), NEW level \in Levels,
         NEW numbers, numbers \subseteq files[level], numbers # {},
         NEW A, A = AddBoundaryInputs(store, files, level, numbers)
  PROVE  Bounded(store, files, level, numbers, A)
<1> USE DEF Bounded
<1> DEFINE S == files[level]
           first == FindSmallestBoundaryFile(store, S, Largest(Contents(store, numbers)))
           next == [n \in S |-> FindSmallestBoundaryFile(store, S, Largest(store[n]))]
           IsClosed(taken) == /\ numbers \cup first \subseteq taken
                            /\ \A n \in taken \ numbers : next[n] \subseteq taken
           family == {taken \in SUBSET S : IsClosed(taken)}
<1>0. /\ IsFiniteSet(S)
      /\ \A n \in S : Run(store[n]) /\ store[n] \subseteq Entries
      /\ S \subseteq Numbers(files)
      /\ Run(Contents(store, numbers))
  <2>1. /\ IsFiniteSet(S)
        /\ \A n \in S : Run(store[n]) /\ store[n] \subseteq Entries
        /\ S \subseteq Numbers(files)
    BY TidyPart DEF Run, Chain, Tidy, Numbers
  <2> QED BY <2>1, TidyPart
<1>1. first \subseteq S /\ \A n \in S : next[n] \subseteq S
  BY DEF FindSmallestBoundaryFile, First
<1>2. /\ A \in SUBSET S /\ IsClosed(A)
      /\ \A R \in SUBSET A : IsClosed(R) => R = A
  <2>1. CASE first = {}
    <3>1. A = numbers
      BY <2>1 DEF AddBoundaryInputs
    <3> QED BY <2>1, <3>1
  <2>2. CASE first # {}
    <3>1. A = CHOOSE taken \in SUBSET S :
                IsClosed(taken) /\ \A fewer \in SUBSET taken : IsClosed(fewer) => fewer = taken
      BY <2>2 DEF AddBoundaryInputs
    <3>2. family # {} /\ \A T \in family : IsFiniteSet(T)
      <4>1. S \in family
        BY <1>1
      <4> QED BY <1>0, <4>1, FS_Subset
    <3>3. PICK T \in family : \A R \in family : R \subseteq T => R = T
      <4> HIDE DEF family
      <4> QED BY <3>2, MinimalSubset
    <3> HIDE DEF IsClosed
    <3> QED BY <3>1, <3>3
  <2> QED BY <2>1, <2>2
<1>3. \A n \in S : next[n] = FindSmallestBoundaryFile(store, S, Largest(store[n]))
  OBVIOUS
<1>4. \A R \in SUBSET S :
        IsClosed(R) <=> /\ numbers \subseteq R
                      /\ first \subseteq R
                      /\ \A n \in R \ numbers :
                            FindSmallestBoundaryFile(store, S, Largest(store[n])) \subseteq R
  OBVIOUS
<1>5. ASSUME NEW F, F \subseteq Entries, F # {}, Apart(Contents(store, numbers), F),
             \A n \in A : Apart(store[n], F)
      PROVE  Apart(Contents(store, A), F)
  <2> DEFINE L == {n \in A : Below(store[n], F)}
             U == {n \in A : Above(store[n], F)}
  <2>0. \A n \in A : store[n] \subseteq Entries /\ Run(store[n])
    BY <1>0, <1>2
  <2>a. \A n \in numbers : store[n] \subseteq Contents(store, numbers)
    BY DEF Contents
  <2>b. Contents(store, numbers) \subseteq Entries
    BY <1>0 DEF Run, Chain
  <2>1. L \cup U = A
    BY <1>5, <2>0, SidesApart
  <2>2. ASSUME NEW last \in Entries, NEW n \in FindSmallestBoundaryFile(store, S, last), n \in A
        PROVE  \E e \in store[n] : e.key = last.key
    <3>1. Smallest(store[n]).key = last.key
      BY <2>2 DEF FindSmallestBoundaryFile, First
    <3> QED BY <2>0, <2>2, <3>1, Extremes
  <2>3. Largest(Contents(store, numbers)) \in Contents(store, numbers)
    BY <1>0, Extremes
  <2>4. \A n \in A : Largest(store[n]) \in store[n]
    BY <2>0, Extremes
  <2>5. first \subseteq A /\ numbers \subseteq A
    BY <1>2
  <2>6. \A n \in A \ numbers : FindSmallestBoundaryFile(store, S, Largest(store[n])) \subseteq A
    BY <1>2, <1>3
  <2>7. \A n \in A : \A e \in store[n], f \in F :
            /\ n \in L => e.key < f.key
            /\ n \in U => e.key > f.key
    BY DEF Below, Above
  <2>8. PICK f \in F : f.key \in Int
    BY <1>5, KeysAssumption DEF Entries
  <2>9. \A e \in Entries : e.key \in Int
    BY KeysAssumption DEF Entries
  <2>10. CASE Below(Contents(store, numbers), F)
    <3>1. numbers \subseteq L
      BY <2>5, <2>a, <2>10 DEF Below
    <3>2. first \subseteq L
      <4> SUFFICES ASSUME NEW n \in first PROVE n \in L
        OBVIOUS
      <4>1. PICK e \in store[n] : e.key = Largest(Contents(store, numbers)).key
        BY <2>2, <2>3, <2>b, <2>5
      <4>2. e.key < f.key
        BY <2>3, <2>8, <2>10, <4>1 DEF Below
      <4> HIDE DEF L, U
      <4> QED BY <2>0, <2>1, <2>5, <2>7, <2>8, <2>9, <4>1, <4>2
    <3>3. \A n \in L \ numbers : FindSmallestBoundaryFile(store, S, Largest(store[n])) \subseteq L
      <4> SUFFICES ASSUME NEW n \in L \ numbers,
                          NEW m \in FindSmallestBoundaryFile(store, S, Largest(store[n]))
                   PROVE  m \in L
        OBVIOUS
      <4>0. n \in A /\ m \in A
        BY <2>6
      <4>1. PICK e \in store[m] : e.key = Largest(store[n]).key
        BY <2>0, <2>2, <2>4, <4>0
      <4>2. e.key < f.key
        BY <2>4, <2>7, <2>8, <4>0, <4>1
      <4> HIDE DEF L, U
      <4> QED BY <2>0, <2>1, <2>7, <2>8, <2>9, <4>0, <4>1, <4>2
    <3>4. L = A
      <4>1. L \in SUBSET A /\ L \in SUBSET S
        BY <1>2
      <4> HIDE DEF L
      <4>2. IsClosed(L)
        BY <1>4, <3>1, <3>2, <3>3, <4>1
      <4> QED BY <1>2, <4>1, <4>2
    <3> QED BY <3>4 DEF Below, Apart, Contents
  <2>11. CASE Above(Contents(store, numbers), F)
    <3>1. numbers \subseteq U
      BY <2>5, <2>a, <2>11 DEF Above
    <3>2. first \subseteq U
      <4> SUFFICES ASSUME NEW n \in first PROVE n \in U
        OBVIOUS
      <4>1. PICK e \in store[n] : e.key = Largest(Contents(store, numbers)).key
        BY <2>2, <2>3, <2>b, <2>5
      <4>2. e.key > f.key
        BY <2>3, <2>8, <2>11, <4>1 DEF Above
      <4> HIDE DEF L, U
      <4> QED BY <2>0, <2>1, <2>5, <2>7, <2>8, <2>9, <4>1, <4>2
    <3>3. \A n \in U \ numbers : FindSmallestBoundaryFile(store, S, Largest(store[n])) \subseteq U
      <4> SUFFICES ASSUME NEW n \in U \ numbers,
                          NEW m \in FindSmallestBoundaryFile(store, S, Largest(store[n]))
                   PROVE  m \in U
        OBVIOUS
      <4>0. n \in A /\ m \in A
        BY <2>6
      <4>1. PICK e \in store[m] : e.key = Largest(store[n]).key
        BY <2>0, <2>2, <2>4, <4>0
      <4>2. e.key > f.key
        BY <2>4, <2>7, <2>8, <4>0, <4>1
      <4> HIDE DEF L, U
      <4> QED BY <2>0, <2>1, <2>7, <2>8, <2>9, <4>0, <4>1, <4>2
    <3>4. U = A
      <4>1. U \in SUBSET A /\ U \in SUBSET S
        BY <1>2
      <4> HIDE DEF U
      <4>2. IsClosed(U)
        BY <1>4, <3>1, <3>2, <3>3, <4>1
      <4> QED BY <1>2, <4>1, <4>2
    <3> QED BY <3>4 DEF Above, Apart, Contents
  <2> QED BY <1>5, <2>b, <2>10, <2>11, SidesApart
<1>6. /\ numbers \subseteq A /\ A \subseteq S /\ first \subseteq A
      /\ \A n \in A \ numbers : FindSmallestBoundaryFile(store, S, Largest(store[n])) \subseteq A
  BY <1>2, <1>3
<1>7. \A R \in SUBSET A :
        /\ numbers \subseteq R
        /\ first \subseteq R
        /\ \A n \in R \ numbers :
              FindSmallestBoundaryFile(store, S, Largest(store[n])) \subseteq R
        => R = A
  <2> HIDE DEF IsClosed, first
  <2> QED BY <1>2, <1>4
<1> HIDE DEF IsClosed, next, family
<1> QED BY <1>5, <1>6, <1>7

(* The finite subsets of a set. *)
FiniteParts(S) == {T \in SUBSET S : IsFiniteSet(T)}
EntrySets == FiniteParts(Entries)
Files == [Levels -> FiniteParts(Nat)]

(* The largest of finitely many numbers exists. *)
LEMMA LargestNumber ==
  ASSUME NEW S \in FiniteParts(Nat), S # {}
  PROVE  \E m \in S : \A n \in S : n <= m
<1> DEFINE Bad == {T \in SUBSET S : T # {} /\ ~\E m \in T : \A n \in T : n <= m}
<1> SUFFICES ASSUME Bad # {} PROVE FALSE
  OBVIOUS
<1>1. \A T \in Bad : IsFiniteSet(T)
  BY FS_Subset DEF FiniteParts
<1>2. PICK T \in Bad : \A R \in Bad : R \subseteq T => R = T
  <2> HIDE DEF Bad
  <2> QED BY <1>1, MinimalSubset
<1>3. PICK x \in T : x \in Nat
  BY DEF FiniteParts
<1>4. T \ {x} # {}
  BY <1>3
<1>5. T \ {x} \notin Bad
  BY <1>2, <1>3
<1>6. PICK m \in T \ {x} : \A n \in T \ {x} : n <= m
  BY <1>4, <1>5
<1>7. m \in Nat
  BY <1>6 DEF FiniteParts
<1>8. CASE x <= m
  BY <1>6, <1>8
<1>9. CASE m <= x
  <2>1. \A n \in T : n <= x
    BY <1>3, <1>6, <1>7, <1>9 DEF FiniteParts
  <2> QED BY <1>3, <2>1
<1> QED BY <1>3, <1>7, <1>8, <1>9

(* Numbers of files: finitely many, and an edit changes them by what it adds and deletes. *)
LEMMA AppliedFiles ==
  ASSUME NEW files \in Files, NEW edit, edit.adds \in FiniteParts(Levels \X Nat)
  PROVE  /\ Applied(files, edit) \in Files
         /\ Numbers(Applied(files, edit)) \subseteq Numbers(files) \cup {a[2] : a \in edit.adds}
<1> DEFINE added(level) == {add[2] : add \in {a \in edit.adds : a[1] = level}}
<1>1. ASSUME NEW level \in Levels
      PROVE  /\ Applied(files, edit)[level] \in FiniteParts(Nat)
             /\ Applied(files, edit)[level] \subseteq files[level] \cup {a[2] : a \in edit.adds}
  <2>1. IsFiniteSet({a \in edit.adds : a[1] = level})
    BY FS_Subset DEF FiniteParts
  <2> DEFINE f == [a \in edit.adds |-> a[2]]
             T == {a \in edit.adds : a[1] = level}
  <2>2. IsFiniteSet({f[a] : a \in T})
    <3> HIDE DEF f, T
    <3>1. IsFiniteSet(T)
      BY <2>1 DEF T
    <3> QED BY <3>1, ValuesFinite
  <2>3. added(level) = {f[a] : a \in T}
    OBVIOUS
  <2>4. IsFiniteSet(added(level))
    BY <2>2, <2>3
  <2>5. added(level) \subseteq Nat
    BY DEF FiniteParts
  <2>6. files[level] \in FiniteParts(Nat)
    BY DEF Files
  <2>7. Applied(files, edit)[level]
          = (files[level] \ {n \in Numbers(files) : <<level, n>> \in edit.deletes}) \cup added(level)
    BY DEF Applied
  <2> HIDE DEF added
  <2>8. IsFiniteSet(files[level] \ {n \in Numbers(files) : <<level, n>> \in edit.deletes})
    BY <2>6, FS_Subset DEF FiniteParts
  <2>a. files[level] \ {n \in Numbers(files) : <<level, n>> \in edit.deletes} \subseteq Nat
    BY <2>6 DEF FiniteParts
  <2> DEFINE kept == files[level] \ {n \in Numbers(files) : <<level, n>> \in edit.deletes}
  <2>9. Applied(files, edit)[level] \in FiniteParts(Nat)
    <3> HIDE DEF kept
    <3>1. IsFiniteSet(kept \cup added(level))
      BY <2>4, <2>8, FS_Union DEF kept
    <3>2. kept \cup added(level) \subseteq Nat
      BY <2>5, <2>a DEF kept
    <3> QED BY <2>7, <3>1, <3>2 DEF FiniteParts, kept
  <2>10. added(level) \subseteq {a[2] : a \in edit.adds}
    BY DEF added
  <2> QED BY <2>7, <2>9, <2>10
<1>2. Applied(files, edit) \in Files
  BY <1>1 DEF Applied, Files
<1>3. Numbers(Applied(files, edit)) \subseteq Numbers(files) \cup {a[2] : a \in edit.adds}
  BY <1>1 DEF Numbers
<1> QED BY <1>2, <1>3

(* What GetOverlappingInputs and AddBoundaryInputs take is of their level. *)
LEMMA TakenFiles ==
  ASSUME NEW store, NEW files \in Files, NEW level \in Levels
  PROVE  /\ \A E : GetOverlappingInputs(store, files, level, E) \subseteq files[level]
         /\ \A numbers \in SUBSET files[level] :
               AddBoundaryInputs(store, files, level, numbers) \subseteq files[level]
<1>0. IsFiniteSet(files[level]) /\ \A T \in SUBSET files[level] : IsFiniteSet(T)
  BY FS_Subset DEF Files, FiniteParts
<1>1. ASSUME NEW E PROVE GetOverlappingInputs(store, files, level, E) \subseteq files[level]
  <2> DEFINE direct == Meeting(store, files[level], E)
             Cl(taken) ==
               /\ direct \subseteq taken
               /\ Meeting(store, files[level], E \cup Contents(store, taken)) \subseteq taken
             family == {taken \in SUBSET files[level] : Cl(taken)}
  <2>1. files[level] \in family
    BY DEF Meeting
  <2>2. \E taken \in SUBSET files[level] :
          Cl(taken) /\ \A fewer \in SUBSET taken : Cl(fewer) => fewer = taken
    <3> HIDE DEF Cl
    <3>1. \A T \in family : IsFiniteSet(T)
      BY <1>0
    <3> HIDE DEF family
    <3>2. PICK T \in family : \A R \in family : R \subseteq T => R = T
      BY <2>1, <3>1, MinimalSubset
    <3> QED BY <3>2 DEF family
  <2>3. CASE level > 0
    BY <2>3 DEF GetOverlappingInputs, Meeting
  <2>4. CASE level = 0
    <3>1. GetOverlappingInputs(store, files, level, E) =
            CHOOSE taken \in SUBSET files[level] :
              Cl(taken) /\ \A fewer \in SUBSET taken : Cl(fewer) => fewer = taken
      BY <2>4 DEF GetOverlappingInputs
    <3> HIDE DEF Cl
    <3> QED BY <2>2, <3>1
  <2> QED BY <2>3, <2>4 DEF Levels
<1>2. ASSUME NEW numbers \in SUBSET files[level]
      PROVE  AddBoundaryInputs(store, files, level, numbers) \subseteq files[level]
  <2> DEFINE first == FindSmallestBoundaryFile(store, files[level], Largest(Contents(store, numbers)))
             next == [n \in files[level] |->
                        FindSmallestBoundaryFile(store, files[level], Largest(store[n]))]
             Cl(taken) ==
               /\ numbers \cup first \subseteq taken
               /\ \A n \in taken \ numbers : next[n] \subseteq taken
             family == {taken \in SUBSET files[level] : Cl(taken)}
  <2>1. files[level] \in family
    BY DEF FindSmallestBoundaryFile, First
  <2>2. \E taken \in SUBSET files[level] :
          Cl(taken) /\ \A fewer \in SUBSET taken : Cl(fewer) => fewer = taken
    <3> HIDE DEF Cl
    <3>1. \A T \in family : IsFiniteSet(T)
      BY <1>0
    <3> HIDE DEF family
    <3>2. PICK T \in family : \A R \in family : R \subseteq T => R = T
      BY <2>1, <3>1, MinimalSubset
    <3> QED BY <3>2 DEF family
  <2>3. CASE first = {}
    BY <2>3 DEF AddBoundaryInputs
  <2>4. CASE first # {}
    <3>1. AddBoundaryInputs(store, files, level, numbers) =
            CHOOSE taken \in SUBSET files[level] :
              Cl(taken) /\ \A fewer \in SUBSET taken : Cl(fewer) => fewer = taken
      BY <2>4 DEF AddBoundaryInputs
    <3> HIDE DEF Cl
    <3> QED BY <2>2, <3>1
  <2> QED BY <2>3, <2>4
<1> QED BY <1>1, <1>2

(* A compaction's inputs are tables of its two levels. *)
LEMMA InputFiles ==
  ASSUME NEW store, NEW files \in Files, NEW level \in 0..MaxLevel - 1,
         NEW picked \in SUBSET files[level], NEW inputs \in Inputs(store, files, level, picked)
  PROVE  /\ inputs.upper \in SUBSET files[level]
         /\ inputs.lower \in SUBSET files[level + 1]
         /\ inputs.upper \in FiniteParts(Nat) /\ inputs.lower \in FiniteParts(Nat)
         /\ \A n \in inputs.upper \cup inputs.lower : n \in Numbers(files)
<1>1. level \in Levels /\ level + 1 \in Levels
  BY LevelsAssumption DEF Levels
<1> DEFINE start == IF level = 0
                      THEN GetOverlappingInputs(store, files, 0, Contents(store, picked))
                      ELSE picked
           U == AddBoundaryInputs(store, files, level, start)
           Lower(taken) ==
             GetOverlappingInputs(store, files, level + 1, Contents(store, taken))
           Grown(taken) ==
             AddBoundaryInputs(store, files, level, GetOverlappingInputs(
                 store, files, level, Contents(store, taken \cup Lower(taken))))
<1>2. start \in SUBSET files[level]
  BY <1>1, TakenFiles
<1>3. U \in SUBSET files[level]
  BY <1>1, <1>2, TakenFiles
<1>4. \A taken : Lower(taken) \subseteq files[level + 1]
  BY <1>1, TakenFiles
<1>5. \A taken : Grown(taken) \subseteq files[level]
  BY <1>1, TakenFiles
<1>6. PICK taken \in {U, Grown(U)} : inputs = [upper |-> taken, lower |-> Lower(taken)]
  <2> DEFINE upper == {AddBoundaryInputs(store, files, level, taken) : taken \in {start}}
             Free(grown) == \A taken \in upper : Lower(taken) # {} /\ Lower(grown) = Lower(taken)
  <2>1. upper = {U}
    OBVIOUS
  <2>2. Inputs(store, files, level, picked) =
          {[upper |-> taken, lower |-> Lower(taken)] :
             taken \in upper \cup {grown \in {Grown(taken) : taken \in upper} : Free(grown)}}
    BY DEF Inputs
  <2> HIDE DEF Grown, Lower, U, upper, Free
  <2>3. PICK taken \in upper \cup {grown \in {Grown(taken) : taken \in upper} : Free(grown)} :
          inputs = [upper |-> taken, lower |-> Lower(taken)]
    BY <2>2
  <2> QED BY <2>1, <2>3
<1> HIDE DEF Grown, Lower, U
<1>7. inputs.upper \in SUBSET files[level] /\ inputs.lower \in SUBSET files[level + 1]
  BY <1>3, <1>4, <1>5, <1>6
<1>8. files[level] \in FiniteParts(Nat) /\ files[level + 1] \in FiniteParts(Nat)
  BY <1>1 DEF Files
<1>9. inputs.upper \in FiniteParts(Nat) /\ inputs.lower \in FiniteParts(Nat)
  BY <1>7, <1>8, FS_Subset DEF FiniteParts
<1> QED BY <1>1, <1>7, <1>9 DEF Numbers

(* A set of numbers has a smallest one. *)
LEMMA SmallestNumber ==
  ASSUME NEW S \in SUBSET Nat, S # {}
  PROVE  \E m \in S : \A n \in S : m <= n
<1>1. PICK s \in S : s \in Nat
  OBVIOUS
<1> DEFINE Upper(n) == {m \in 0..s : m >= n}
           G == {s - n : n \in {m \in S : m <= s}}
<1>2. G \in FiniteParts(Nat) /\ G # {}
  <2>1. G \subseteq 0..s
    BY <1>1
  <2>2. IsFiniteSet(0..s)
    BY <1>1, FS_Interval
  <2>3. s - s \in G
    BY <1>1
  <2>4. G \subseteq Nat
    BY <1>1, <2>1
  <2> HIDE DEF G
  <2> QED BY <2>1, <2>2, <2>3, <2>4, FS_Subset DEF FiniteParts
<1>3. PICK g \in G : \A h \in G : h <= g
  <2> HIDE DEF G
  <2> QED BY <1>2, LargestNumber
<1>4. PICK m \in S : m <= s /\ g = s - m
  OBVIOUS
<1>5. ASSUME NEW n \in S PROVE m <= n
  <2>1. CASE n <= s
    <3>1. s - n \in G
      BY <2>1
    <3>2. s - n <= s - m
      BY <1>3, <1>4, <3>1
    <3> HIDE DEF G
    <3> QED BY <1>1, <1>4, <3>2
  <2>2. CASE n > s
    BY <1>1, <1>4, <2>2
  <2> QED BY <1>1, <2>1, <2>2
<1> QED BY <1>5

(* A function defined by recursion on 0..N exists. *)
LEMMA RecursionExists ==
  ASSUME NEW N \in Nat, NEW x \in Nat, NEW g \in [1..N -> [Nat -> Nat]]
  PROVE  \E f \in [0..N -> Nat] : f[0] = x /\ \A i \in 1..N : f[i] = g[i][f[i - 1]]
<1> DEFINE Good(n) == \E f \in [0..n -> Nat] :
                        f[0] = x /\ \A i \in 1..n : f[i] = g[i][f[i - 1]]
           Bad == {n \in 0..N : ~Good(n)}
<1> SUFFICES ASSUME ~Good(N) PROVE FALSE
  OBVIOUS
<1>0. N \in Bad
  <2> HIDE DEF Good
  <2> QED OBVIOUS
<1>1. PICK n \in Bad : \A m \in Bad : n <= m
  <2>1. Bad \in SUBSET Nat
    OBVIOUS
  <2> HIDE DEF Bad
  <2> QED BY <1>0, <2>1, SmallestNumber
<1>2. n # 0
  <2>1. Good(0)
    <3> DEFINE f == [i \in 0..0 |-> x]
    <3>1. f \in [0..0 -> Nat] /\ f[0] = x /\ \A i \in 1..0 : f[i] = g[i][f[i - 1]]
      OBVIOUS
    <3> QED BY <3>1
  <2> HIDE DEF Good
  <2> QED BY <2>1
<1>3. Good(n - 1)
  <2> HIDE DEF Good
  <2> QED BY <1>1, <1>2
<1>4. PICK f \in [0..n - 1 -> Nat] :
        f[0] = x /\ \A i \in 1..n - 1 : f[i] = g[i][f[i - 1]]
  BY <1>3
<1>5. n \in 1..N
  BY <1>2
<1> DEFINE h == [i \in 0..n |-> IF i = n THEN g[n][f[n - 1]] ELSE f[i]]
<1>6. h \in [0..n -> Nat]
  <2>1. n - 1 \in 0..n - 1 /\ f[n - 1] \in Nat
    BY <1>4, <1>5
  <2>2. g[n] \in [Nat -> Nat]
    BY <1>5
  <2>3. g[n][f[n - 1]] \in Nat
    BY <2>1, <2>2
  <2>4. \A i \in 0..n : i # n => i \in 0..n - 1
    BY <1>5
  <2> QED BY <1>4, <2>3, <2>4
<1>7. h[0] = x /\ \A i \in 1..n : h[i] = g[i][h[i - 1]]
  <2>1. h[0] = x
    BY <1>4, <1>5
  <2>2. ASSUME NEW i \in 1..n PROVE h[i] = g[i][h[i - 1]]
    <3>1. h[i - 1] = f[i - 1]
      BY <1>5
    <3>2. CASE i = n
      BY <1>5, <3>1, <3>2
    <3>3. CASE i # n
      <4>1. i \in 1..n - 1 /\ h[i] = f[i]
        BY <1>5, <3>3
      <4>2. f[i] = g[i][f[i - 1]]
        BY <1>4, <4>1
      <4> HIDE DEF h
      <4> QED BY <3>1, <4>1, <4>2
    <3> QED BY <3>2, <3>3
  <2> QED BY <2>1, <2>2
<1>9. Good(n)
  BY <1>6, <1>7
<1> HIDE DEF Good
<1> QED BY <1>1, <1>9

(* Steps that do not decrease add up. *)
LEMMA Increasing ==
  ASSUME NEW N \in Nat, NEW f \in [0..N -> Nat], \A i \in 1..N : f[i - 1] <= f[i]
  PROVE  \A i, j \in 0..N : i <= j => f[i] <= f[j]
<1> SUFFICES ASSUME NEW i \in 0..N PROVE \A j \in 0..N : i <= j => f[i] <= f[j]
  OBVIOUS
<1> DEFINE Bad == {j \in 0..N : i <= j /\ ~(f[i] <= f[j])}
<1> SUFFICES ASSUME Bad # {} PROVE FALSE
  OBVIOUS
<1>1. PICK j \in Bad : \A m \in Bad : j <= m
  <2>1. Bad \in SUBSET Nat
    OBVIOUS
  <2> HIDE DEF Bad
  <2> QED BY <2>1, SmallestNumber
<1>2. j # i /\ j \in 1..N /\ i <= j - 1
  OBVIOUS
<1>3. j - 1 \notin Bad /\ j - 1 \in 0..N
  <2> HIDE DEF Bad
  <2> QED BY <1>1, <1>2
<1>4. f[i] <= f[j - 1]
  BY <1>2, <1>3
<1>5. f[j - 1] <= f[j] /\ f[i] \in Nat /\ f[j - 1] \in Nat /\ f[j] \in Nat
  BY <1>2, <1>3
<1> QED BY <1>1, <1>4, <1>5

(* Finitely many numbers can be put in order. *)
LEMMA Ordering ==
  ASSUME NEW numbers \in FiniteParts(Nat)
  PROVE  \E order \in [1..Cardinality(numbers) -> numbers] :
           \A i, j \in 1..Cardinality(numbers) : i < j => order[i] < order[j]
<1> DEFINE Good(S) == \E order \in [1..Cardinality(S) -> S] :
                        \A i, j \in 1..Cardinality(S) : i < j => order[i] < order[j]
           Bad == {S \in SUBSET numbers : ~Good(S)}
<1> SUFFICES ASSUME Bad # {} PROVE FALSE
  OBVIOUS
<1>1. \A S \in SUBSET numbers : IsFiniteSet(S) /\ S \in FiniteParts(Nat)
  BY FS_Subset DEF FiniteParts
<1>2. PICK S \in Bad : \A R \in Bad : R \subseteq S => R = S
  <2>1. \A S \in Bad : IsFiniteSet(S)
    BY <1>1
  <2> HIDE DEF Bad
  <2> QED BY <2>1, MinimalSubset
<1>3. S # {}
  <2>1. Good({})
    <3>1. Cardinality({}) = 0
      BY FS_EmptySet
    <3>2. [i \in 1..0 |-> 0] \in [1..0 -> {}]
      OBVIOUS
    <3> QED BY <3>1, <3>2
  <2> HIDE DEF Good
  <2> QED BY <2>1
<1>4. PICK m \in S : \A n \in S : n <= m
  BY <1>1, <1>3, LargestNumber
<1> DEFINE R == S \ {m}
           c == Cardinality(R)
<1>5. c \in Nat /\ Cardinality(S) = c + 1
  <2>1. IsFiniteSet(S)
    BY <1>1
  <2>2. IsFiniteSet(R) /\ c = Cardinality(S) - 1
    BY <1>4, <2>1, FS_RemoveElement
  <2>3. c \in Nat /\ Cardinality(S) \in Nat
    BY <2>1, <2>2, FS_CardinalityType
  <2> HIDE DEF c
  <2> QED BY <2>2, <2>3
<1>6. Good(R)
  <2>1. R \in SUBSET numbers /\ R # S /\ R \subseteq S
    OBVIOUS
  <2> HIDE DEF R, Good
  <2> QED BY <1>2, <2>1
<1>7. PICK order \in [1..c -> R] : \A i, j \in 1..c : i < j => order[i] < order[j]
  BY <1>6
<1> HIDE DEF c
<1> DEFINE new == [i \in 1..c + 1 |-> IF i = c + 1 THEN m ELSE order[i]]
<1>8. new \in [1..c + 1 -> S]
  BY <1>5, <1>7
<1>9. ASSUME NEW i \in 1..c + 1, NEW j \in 1..c + 1, i < j PROVE new[i] < new[j]
  <2>1. i \in 1..c
    BY <1>5, <1>9
  <2>2. new[i] = order[i] /\ order[i] \in S \ {m}
    <3>1. i # c + 1
      BY <1>5, <2>1
    <3> QED BY <1>7, <2>1, <3>1
  <2>3. CASE j = c + 1
    <3>1. order[i] <= m /\ order[i] # m
      BY <1>4, <2>2
    <3>2. order[i] \in Nat /\ m \in Nat
      BY <1>1, <2>2 DEF FiniteParts
    <3> QED BY <1>5, <2>2, <2>3, <3>1, <3>2
  <2>4. CASE j # c + 1
    BY <1>5, <1>7, <1>9, <2>1, <2>4
  <2> QED BY <2>3, <2>4
<1>10. Good(S)
  <2> HIDE DEF new
  <2> QED BY <1>5, <1>8, <1>9
<1> HIDE DEF Good
<1> QED BY <1>2, <1>10

(* InOrder lists them all. *)
LEMMA InOrderLists ==
  ASSUME NEW numbers \in FiniteParts(Nat), NEW order, order = InOrder(numbers)
  PROVE  /\ order \in [1..Cardinality(numbers) -> numbers]
         /\ order \in Seq(numbers) /\ Len(order) = Cardinality(numbers)
         /\ \A i, j \in 1..Len(order) : i < j => order[i] < order[j]
         /\ \A n \in numbers : \E i \in 1..Len(order) : order[i] = n
<1> DEFINE c == Cardinality(numbers)
<1>0. c \in Nat /\ IsFiniteSet(numbers)
  BY FS_CardinalityType DEF FiniteParts
<1>1. order \in [1..c -> numbers] /\ \A i, j \in 1..c : i < j => order[i] < order[j]
  BY Ordering DEF InOrder
<1>2. order \in Seq(numbers) /\ Len(order) = c
  BY <1>0, <1>1
<1>3. \A i, j \in 1..c : order[i] = order[j] => i = j
  <2>1. \A i \in 1..c : order[i] \in Nat
    BY <1>1 DEF FiniteParts
  <2> QED BY <1>0, <1>1, <2>1
<1>4. order \in Injection(1..c, numbers)
  BY <1>1, <1>3 DEF Injection, IsInjective
<1>5. IsFiniteSet(1..c) /\ Cardinality(1..c) = c
  BY <1>0, FS_Interval
<1>6. order \in Surjection(1..c, numbers)
  <2> HIDE DEF c
  <2> QED BY <1>0, <1>4, <1>5, FS_Injection DEF c
<1>7. \A n \in numbers : \E i \in 1..c : order[i] = n
  BY <1>6 DEF Surjection
<1> QED BY <1>0, <1>1, <1>2, <1>7

(* What recovery numbers its tables and its log: each number is new, and above those of
   the logs replayed. *)
LEMMA NextNumbersRise ==
  ASSUME NEW order \in Seq(Nat), manifest.next \in Nat, NEW next, next = NextNumbers(order)
  PROVE  /\ next \in [0..Len(order) -> Nat]
         /\ \A i \in 0..Len(order) : manifest.next < next[i]
         /\ \A i, j \in 0..Len(order) : i <= j => next[i] <= next[j]
         /\ \A i \in 1..Len(order) :
               /\ LogEntries(logs[order[i]]) # {} => next[i - 1] < next[i]
               /\ order[i] < next[i]
<1> DEFINE N == Len(order)
           used(i) == IF LogEntries(logs[order[i]]) = {} THEN 0 ELSE 1
           g == [i \in 1..N |-> [v \in Nat |-> MarkFileNumberUsed(v + used(i), order[i])]]
           x == manifest.next + 1
<1>1. N \in Nat /\ x \in Nat /\ \A i \in 1..N : order[i] \in Nat
  OBVIOUS
<1>2. \A i \in 1..N : used(i) \in Nat
  OBVIOUS
<1>3. ASSUME NEW i \in 1..N, NEW v \in Nat
      PROVE  /\ g[i][v] = MarkFileNumberUsed(v + used(i), order[i])
             /\ g[i][v] \in Nat
             /\ v + used(i) <= g[i][v]
             /\ order[i] < g[i][v]
  <2>1. g[i][v] = MarkFileNumberUsed(v + used(i), order[i])
    OBVIOUS
  <2>2. v + used(i) \in Nat /\ order[i] \in Nat
    BY <1>1, <1>2
  <2> HIDE DEF g, used
  <2> QED BY <2>1, <2>2 DEF MarkFileNumberUsed
<1>4. g \in [1..N -> [Nat -> Nat]]
  <2>1. \A i \in 1..N : g[i] \in [Nat -> Nat]
    <3> TAKE i \in 1..N
    <3>1. g[i] = [v \in Nat |-> MarkFileNumberUsed(v + used(i), order[i])]
      OBVIOUS
    <3>2. \A v \in Nat : g[i][v] \in Nat
      BY <1>3
    <3>3. \A v \in Nat : MarkFileNumberUsed(v + used(i), order[i]) \in Nat
      BY <1>3
    <3> HIDE DEF g, used
    <3> QED BY <3>1, <3>3
  <2> QED BY <2>1
<1> HIDE DEF x
<1>5. PICK f \in [0..N -> Nat] : f[0] = x /\ \A i \in 1..N : f[i] = g[i][f[i - 1]]
  <2> HIDE DEF g, N
  <2> QED BY <1>1, <1>4, RecursionExists
<1>6. f = [i \in 0..N |-> IF i = 0 THEN x ELSE MarkFileNumberUsed(f[i - 1] + used(i), order[i])]
  <2>1. \A i \in 0..N : f[i] =
          IF i = 0 THEN x ELSE MarkFileNumberUsed(f[i - 1] + used(i), order[i])
    <3> TAKE i \in 0..N
    <3>1. CASE i = 0
      BY <1>5, <3>1
    <3>2. CASE i # 0
      <4> HIDE DEF N, g, used
      <4>1. i \in 1..N /\ f[i - 1] \in Nat
        BY <1>1, <1>5, <3>2
      <4>2. f[i] = g[i][f[i - 1]]
        BY <1>5, <4>1
      <4> HIDE DEF g, used
      <4> QED BY <1>3, <3>2, <4>1, <4>2
    <3> QED BY <3>1, <3>2
  <2>2. f = [i \in 0..N |-> f[i]]
    BY <1>5
  <2> HIDE DEF N, used
  <2> QED BY <2>1, <2>2
<1>7. next = [i \in 0..N |->
                IF i = 0 THEN x ELSE MarkFileNumberUsed(next[i - 1] + used(i), order[i])]
  <2>1. next = CHOOSE next_1 : next_1 = [i \in 0..N |->
                 IF i = 0 THEN x ELSE MarkFileNumberUsed(next_1[i - 1] + used(i), order[i])]
    BY DEF NextNumbers, x
  <2> HIDE DEF N, used
  <2> QED BY <1>6, <2>1
<1>8. \A i \in 1..N : next[i - 1] \in Nat =>
         /\ next[i] \in Nat
         /\ next[i - 1] + used(i) <= next[i]
         /\ order[i] < next[i]
  <2> TAKE i \in 1..N
  <2> HIDE DEF g, used, N
  <2>1. next[i] = MarkFileNumberUsed(next[i - 1] + used(i), order[i])
    <3>1. i \in 0..N /\ i # 0
      BY <1>1
    <3> QED BY <1>7, <3>1
  <2>2. next[i - 1] \in Nat => next[i] = g[i][next[i - 1]]
    BY <1>3, <2>1
  <2> QED BY <1>3, <2>2
<1>9. next[0] = x
  BY <1>1, <1>7
<1> DEFINE Bad == {i \in 0..N : next[i] \notin Nat}
<1>10. Bad = {}
  <2> SUFFICES ASSUME Bad # {} PROVE FALSE
    OBVIOUS
  <2>1. PICK i \in Bad : \A m \in Bad : i <= m
    <3>1. Bad \in SUBSET Nat
      OBVIOUS
    <3> HIDE DEF Bad
    <3> QED BY <3>1, SmallestNumber
  <2>2. i \in 1..N /\ i - 1 \in 0..N
    <3>1. i # 0
      BY <1>1, <1>9
    <3> QED BY <1>1, <3>1
  <2>3. i - 1 \notin Bad
    <3> HIDE DEF Bad
    <3> QED BY <1>1, <2>1, <2>2
  <2> QED BY <1>8, <2>2, <2>3
<1>11. next \in [0..N -> Nat]
  <2>1. \A i \in 0..N : next[i] \in Nat
    BY <1>10
  <2>2. next = [i \in 0..N |-> next[i]]
    BY <1>7
  <2> HIDE DEF N
  <2> QED BY <2>1, <2>2
<1>12. \A i \in 1..N : /\ next[i - 1] \in Nat /\ next[i] \in Nat
                       /\ next[i - 1] + used(i) <= next[i]
                       /\ order[i] < next[i]
  <2> TAKE i \in 1..N
  <2>1. i - 1 \in 0..N
    BY <1>1
  <2> HIDE DEF N, used
  <2> QED BY <1>8, <1>11, <2>1
<1>13. \A i \in 1..N : next[i - 1] <= next[i]
  <2> TAKE i \in 1..N
  <2> HIDE DEF used
  <2> QED BY <1>2, <1>12
<1>14. \A i, j \in 0..N : i <= j => next[i] <= next[j]
  <2> HIDE DEF N
  <2> QED BY <1>1, <1>11, <1>13, Increasing
<1>15. \A i \in 0..N : manifest.next < next[i]
  <2> TAKE i \in 0..N
  <2>1. next[0] <= next[i] /\ next[i] \in Nat
    BY <1>1, <1>11, <1>14
  <2> QED BY <1>9, <2>1 DEF x
<1>16. \A i \in 1..N : LogEntries(logs[order[i]]) # {} => next[i - 1] < next[i]
  <2> TAKE i \in 1..N
  <2>1. LogEntries(logs[order[i]]) # {} => used(i) = 1
    OBVIOUS
  <2> HIDE DEF used
  <2> QED BY <1>12, <2>1
<1> QED BY <1>11, <1>12, <1>14, <1>15, <1>16

(* A finite set of entries has finitely many numbers. *)
LEMMA SequencesFinite ==
  ASSUME NEW entries \in EntrySets
  PROVE  {e.seq : e \in entries} \in FiniteParts(Nat)
<1> DEFINE f == [e \in entries |-> e.seq]
<1>1. IsFiniteSet({f[e] : e \in entries})
  <2> HIDE DEF f
  <2> QED BY ValuesFinite DEF EntrySets, FiniteParts
<1>2. {f[e] : e \in entries} = {e.seq : e \in entries}
  OBVIOUS
<1>3. \A e \in entries : e.seq \in Nat
  BY DEF EntrySets, FiniteParts, Entries
<1> QED BY <1>1, <1>2, <1>3 DEF FiniteParts

(* The last number recovery finds is the greatest. *)
LEMMA LastSequenceGreatest ==
  ASSUME manifest.lastSeq \in Nat, NEW entries \in EntrySets
  PROVE  /\ LastSequence(entries) \in Nat
         /\ manifest.lastSeq <= LastSequence(entries)
         /\ \A e \in entries : e.seq <= LastSequence(entries)
         /\ \/ LastSequence(entries) = manifest.lastSeq
            \/ \E e \in entries : LastSequence(entries) = e.seq
<1> DEFINE S == {manifest.lastSeq} \cup {e.seq : e \in entries}
<1>1. S \in FiniteParts(Nat) /\ S # {}
  <2>1. IsFiniteSet({manifest.lastSeq})
    BY FS_Singleton
  <2> DEFINE seqs == {e.seq : e \in entries}
  <2>2. seqs \in FiniteParts(Nat)
    BY SequencesFinite
  <2> HIDE DEF seqs
  <2>3. IsFiniteSet({manifest.lastSeq} \cup seqs)
    BY <2>1, <2>2, FS_Union DEF FiniteParts
  <2>4. {manifest.lastSeq} \cup seqs \subseteq Nat
    BY <2>2 DEF FiniteParts
  <2>5. S = {manifest.lastSeq} \cup seqs
    BY DEF seqs
  <2> HIDE DEF S
  <2> QED BY <2>3, <2>4, <2>5 DEF FiniteParts
<1>2. LastSequence(entries) \in S /\ \A t \in S : t <= LastSequence(entries)
  <2>1. LastSequence(entries) = CHOOSE s \in S : \A t \in S : t <= s
    BY DEF LastSequence
  <2> HIDE DEF S
  <2> QED BY <1>1, <2>1, LargestNumber
<1>3. LastSequence(entries) \in Nat
  <2> HIDE DEF S
  <2> QED BY <1>1, <1>2 DEF FiniteParts
<1> QED BY <1>2, <1>3

(* A log's records are finitely many finite sets of entries. *)
Logs == [records : Seq(EntrySets), synced : Nat, good : Nat, torn : BOOLEAN]

(* So what is read of it is one. *)
LEMMA LogEntriesFinite ==
  ASSUME NEW log, log.records \in Seq(EntrySets), NEW count \in 0..Len(log.records)
  PROVE  FirstEntries(log, count) \in EntrySets
<1> DEFINE parts == {log.records[i] : i \in 1..count}
<1>1. \A i \in 1..count : log.records[i] \in EntrySets
  OBVIOUS
<1>2. IsFiniteSet(parts)
  <2>1. IsFiniteSet(1..count)
    BY FS_Interval
  <2> QED BY <2>1, ValuesFinite
<1>3. IsFiniteSet(UNION parts)
  <2>1. \A T \in parts : IsFiniteSet(T)
    BY <1>1 DEF EntrySets, FiniteParts
  <2> HIDE DEF parts
  <2> QED BY <1>2, <2>1, FS_UNION
<1>4. UNION parts \subseteq Entries
  BY <1>1 DEF EntrySets, FiniteParts
<1> QED BY <1>3, <1>4 DEF FirstEntries, EntrySets, FiniteParts

-----------------------------------------------------------------------------
\* What the variables are in every state.

Statuses == {"closed", "opening", "open"}
Dbs ==
    [status : Statuses, mem : EntrySets, imm : EntrySets, logfile : Nat, version : Files,
     logNumber : Nat, nextFile : Nat, lastSeq : Nat, bgError : BOOLEAN, pending : SUBSET Nat,
     hot : SUBSET (Levels \X Nat), snapshots : SUBSET Nat]

TablesType ==
    /\ DOMAIN tables \subseteq Nat
    /\ tables \in [DOMAIN tables -> EntrySets]

LogsType ==
    /\ DOMAIN logs \in FiniteParts(Nat)
    /\ logs \in [DOMAIN logs -> Logs]
    /\ \A n \in DOMAIN logs : {logs[n].synced, logs[n].good} \subseteq 0..Len(logs[n].records)

ManifestType == manifest \in [files : Files, log : Nat, lastSeq : Nat, next : Nat]

DbType ==
    /\ db \in Dbs
    /\ \A h \in db.hot : h[1] \in 0..MaxLevel - 1 /\ h[2] \in db.version[h[1]]
    /\ \A s, t \in db.snapshots : s = t

Requests == [batch : Batches, sync : BOOLEAN]
Writing == {"append", "sync", "insert", "written", "failed", "unsynced"}

WritersType ==
    /\ queue \in Seq(Requests)
    /\ stage \in Writing \cup {"front", "waiting"}
    /\ group \in 0..Len(queue)
    /\ stage \in Writing <=> group # 0
    /\ stage = "waiting" => queue # <<>>

IsEdit(edit) == edit \in Edits /\ edit.adds \in FiniteParts(Levels \X Nat)
IsCompaction(c) ==
    /\ c \in Compactions
    /\ c.version \in Files
    /\ c.upper \subseteq c.version[c.level]
    /\ c.lower \subseteq c.version[c.level + 1]
    /\ c.outputs \in FiniteParts(Nat)

BgType ==
    /\ bg \in [scheduled : BOOLEAN, edit : Edits \cup {None}, compaction : Compactions \cup {None}]
    /\ bg.edit # None => IsEdit(bg.edit)
    /\ bg.compaction # None => IsCompaction(bg.compaction)
    /\ bg.edit # None /\ bg.edit.kind = "compact" =>
          /\ bg.compaction # None
          /\ bg.compaction.built
          /\ \A a \in bg.edit.adds : a[2] \in bg.compaction.outputs
    /\ bg.edit # None /\ bg.edit.kind \in {"move", "open"} => bg.compaction = None

IteratorType ==
    /\ iterator \in Iterators \cup {None}
    /\ iterator # None =>
          iterator.mem \in EntrySets /\ iterator.imm \in EntrySets /\ iterator.version \in Files

OthersType ==
    /\ left \subseteq Keys
    /\ repeated \in BOOLEAN
    /\ "batches" \in DOMAIN budget
    /\ budget["batches"] \subseteq Batches

\* What holds while the database is closed, is being opened, is open.
StatusInv ==
    /\ db.status = "closed" => db = Closed /\ bg = Resting
    /\ db.status = "opening" =>
          /\ bg.edit # None /\ bg.edit.kind = "open"
          /\ bg.edit.log = db.logfile
          /\ db.snapshots = {} /\ db.hot = {}
    /\ db.status # "open" => queue = <<>> /\ iterator = None
    /\ db.status = "open" =>
          /\ bg.edit # None => bg.edit.kind # "open"
          /\ db.logNumber <= db.logfile
    /\ db.status # "closed" =>
          /\ db.logfile \in DOMAIN logs
          /\ db.logfile < db.nextFile
          /\ bg.edit # None => bg.edit.log <= db.logfile

\* Every table somebody holds is on disk.
HeldInv ==
    /\ Numbers(db.version) \subseteq DOMAIN tables
    /\ bg.edit # None => \A a \in bg.edit.adds : a[2] \in DOMAIN tables
    /\ bg.compaction # None =>
          /\ Numbers(bg.compaction.version) \subseteq DOMAIN tables
          /\ bg.compaction.outputs \subseteq DOMAIN tables \cap db.pending
    /\ iterator # None => Numbers(iterator.version) \subseteq DOMAIN tables

TypeInv ==
    /\ TablesType /\ LogsType /\ ManifestType /\ DbType /\ WritersType /\ BgType
    /\ IteratorType /\ OthersType /\ StatusInv /\ HeldInv

(* The writers at the front return, and what is left of the queue is one. *)
LEMMA ReturnTypes ==
  ASSUME WritersType, NEW n \in 0..Len(queue), Return(n)
  PROVE  WritersType' /\ (queue = <<>> => queue' = <<>>)
<1>1. queue' \in Seq(Requests) /\ (queue = <<>> => queue' = <<>>)
  <2>1. queue' = SubSeq(queue, n + 1, Len(queue))
    BY DEF Return
  <2>2. queue \in Seq(Requests) /\ n + 1 \in 1..Len(queue) + 1
    BY DEF WritersType
  <2> QED BY <2>1, <2>2, SubSeqProperties
<1>2. group' = 0 /\ stage' = "front" /\ Len(queue') \in Nat
  BY <1>1 DEF Return
<1> QED BY <1>1, <1>2 DEF WritersType, Writing

(* The front one forms a group. *)
LEMMA GroupTypes ==
  ASSUME WritersType, BuildBatchGroup
  PROVE  WritersType'
<1>1. /\ queue' = queue /\ stage' = "append" /\ queue \in Seq(Requests)
      /\ group' \in 1..Len(queue)
  BY DEF BuildBatchGroup, WritersType
<1> QED BY <1>1 DEF WritersType, Writing

(* The group's write goes on. *)
LEMMA StageTypes ==
  ASSUME WritersType, stage \in Writing, stage' \in Writing, UNCHANGED <<queue, group>>
  PROVE  WritersType'
BY DEF WritersType, Writing

(* Those who sleep are woken up. *)
LEMMA SignalTypes ==
  ASSUME WritersType, SignalAll
  PROVE  WritersType' /\ queue' = queue
BY DEF WritersType, Writing, SignalAll

(* The background thread rests. *)
LEMMA RestTypes ==
  ASSUME NEW b \in BOOLEAN, bg' = [Resting EXCEPT !.scheduled = b]
  PROVE  BgType' /\ bg'.edit = None /\ bg'.compaction = None
BY DEF BgType, Resting

(* What End leaves of the background keeps the types. *)
LEMMA EndTypes ==
  ASSUME WritersType, NEW d, EndBackgroundCall(d)
  PROVE  BgType' /\ bg'.edit = None /\ bg'.compaction = None /\ WritersType' /\ queue' = queue
<1>1. Reschedule(d) \in BOOLEAN
  BY DEF Reschedule, Schedules
<1> QED BY <1>1, RestTypes, SignalTypes DEF EndBackgroundCall

(* What comes after an edit keeps the types. *)
LEMMA GoesOnTypes ==
  ASSUME WritersType, BgType, NEW d, BackgroundGoesOn(d)
  PROVE  /\ BgType' /\ bg'.edit = None /\ bg'.compaction = bg.compaction
         /\ WritersType' /\ queue' = queue
<1>1. Reschedule(d) \in BOOLEAN
  BY DEF Reschedule, Schedules
<1>2. WritersType' /\ queue' = queue
  BY SignalTypes DEF BackgroundGoesOn
<1>3. CASE bg.compaction = None
  BY <1>1, <1>2, <1>3, RestTypes DEF BackgroundGoesOn
<1>4. CASE bg.compaction # None
  <2>1. bg' = [bg EXCEPT !.edit = None]
    BY <1>4 DEF BackgroundGoesOn
  <2> QED BY <1>2, <2>1 DEF BgType
<1> QED BY <1>3, <1>4

(* Files are added and deleted. *)
LEMMA WithTables ==
  ASSUME TablesType, NEW n \in Nat, NEW content \in EntrySets, tables' = With(tables, n, content)
  PROVE  /\ TablesType'
         /\ DOMAIN tables' = DOMAIN tables \cup {n}
         /\ tables'[n] = content
         /\ \A m \in DOMAIN tables : m # n => tables'[m] = tables[m]
BY DEF TablesType, With

(* A log added to the logs is one of them. *)
LEMMA WithLogs ==
  ASSUME LogsType, NEW n \in Nat, logs' = With(logs, n, EmptyLog)
  PROVE  /\ LogsType'
         /\ DOMAIN logs' = DOMAIN logs \cup {n}
         /\ logs'[n] = EmptyLog
         /\ \A m \in DOMAIN logs : m # n => logs'[m] = logs[m]
<1>1. EmptyLog \in Logs /\ {EmptyLog.synced, EmptyLog.good} \subseteq 0..Len(EmptyLog.records)
  BY DEF EmptyLog, Logs
<1>2. /\ DOMAIN logs' = DOMAIN logs \cup {n}
      /\ logs'[n] = EmptyLog
      /\ \A m \in DOMAIN logs : m # n => logs'[m] = logs[m]
      /\ logs' = [m \in DOMAIN logs' |-> logs'[m]]
  BY DEF With
<1>3. DOMAIN logs' \in FiniteParts(Nat)
  <2>1. IsFiniteSet(DOMAIN logs) /\ DOMAIN logs \subseteq Nat
    BY DEF LogsType, FiniteParts
  <2>2. IsFiniteSet(DOMAIN logs \cup {n})
    BY <2>1, FS_AddElement
  <2> QED BY <1>2, <2>1, <2>2 DEF FiniteParts
<1>4. \A m \in DOMAIN logs' : /\ logs'[m] \in Logs
                              /\ {logs'[m].synced, logs'[m].good} \subseteq 0..Len(logs'[m].records)
  <2> TAKE m \in DOMAIN logs'
  <2>1. CASE m = n
    BY <1>1, <1>2, <2>1
  <2>2. CASE m # n
    BY <1>2, <2>2 DEF LogsType
  <2> QED BY <2>1, <2>2
<1> QED BY <1>2, <1>3, <1>4 DEF LogsType

(* What remains of the files and logs has their types. *)
LEMMA DeletedTypes ==
  ASSUME TablesType, LogsType, NEW d, NEW c, DeleteObsoleteFiles(d, c)
  PROVE  /\ TablesType' /\ LogsType'
         /\ DOMAIN tables' \subseteq DOMAIN tables
         /\ DOMAIN tables \cap Live(d, c) \subseteq DOMAIN tables'
         /\ \A n \in DOMAIN tables' : tables'[n] = tables[n]
         /\ DOMAIN logs' \subseteq DOMAIN logs
         /\ \A n \in DOMAIN logs : n >= d.logNumber => n \in DOMAIN logs'
         /\ \A n \in DOMAIN logs' : logs'[n] = logs[n]
         /\ d.bgError => UNCHANGED <<tables, logs>>
         /\ ~d.bgError => /\ DOMAIN tables' = DOMAIN tables \cap Live(d, c)
                          /\ \A n \in DOMAIN logs' : n >= d.logNumber
<1>1. CASE d.bgError
  BY <1>1 DEF DeleteObsoleteFiles, TablesType, LogsType
<1>2. CASE ~d.bgError
  <2>1. tables' = Keep(tables, Live(d, c)) /\ logs' = Keep(logs, {n \in DOMAIN logs : n >= d.logNumber})
    BY <1>2 DEF DeleteObsoleteFiles
  <2>2. /\ DOMAIN tables' = DOMAIN tables \cap Live(d, c)
        /\ \A n \in DOMAIN tables' : tables'[n] = tables[n]
        /\ tables' = [n \in DOMAIN tables' |-> tables'[n]]
    BY <2>1 DEF Keep
  <2>3. /\ DOMAIN logs' = {n \in DOMAIN logs : n >= d.logNumber}
        /\ \A n \in DOMAIN logs' : logs'[n] = logs[n]
        /\ logs' = [n \in DOMAIN logs' |-> logs'[n]]
    BY <2>1 DEF Keep
  <2>4. TablesType'
    BY <2>2 DEF TablesType
  <2>5. DOMAIN logs' \in FiniteParts(Nat)
    BY <2>3, FS_Subset DEF LogsType, FiniteParts
  <2>6. LogsType'
    BY <2>3, <2>5 DEF LogsType
  <2> QED BY <1>2, <2>2, <2>3, <2>4, <2>6
<1> QED BY <1>1, <1>2

(* What a group writes. *)
LEMMA GroupEntriesFinite ==
  ASSUME WritersType, db.lastSeq \in Nat
  PROVE  /\ GroupEntries \in EntrySets
         /\ \A e \in GroupEntries : e.seq \in db.lastSeq + 1..db.lastSeq + group
         /\ Chain(GroupEntries)
<1> DEFINE of == [i \in 1..group |->
                    {[key |-> key, seq |-> db.lastSeq + i, kind |-> queue[i].batch[key]] :
                       key \in DOMAIN queue[i].batch}]
<1>1. group \in Nat /\ \A i \in 1..group : queue[i] \in Requests
  BY DEF WritersType
<1>2. ASSUME NEW i \in 1..group
      PROVE  /\ of[i] \in EntrySets
             /\ \A e \in of[i] : e.seq = db.lastSeq + i /\ e.kind = queue[i].batch[e.key]
  <2>0. queue[i] \in Requests
    BY <1>1
  <2>1. PICK keys \in SUBSET Keys : IsFiniteSet(keys) /\ queue[i].batch \in [keys -> {"put", "delete"}]
    <3>1. queue[i].batch \in Batches
      BY <2>0 DEF Requests
    <3> QED BY <3>1 DEF Batches
  <2>2. DOMAIN queue[i].batch = keys
    BY <2>1
  <2> DEFINE f == [key \in keys |-> [key |-> key, seq |-> db.lastSeq + i, kind |-> queue[i].batch[key]]]
  <2>3. of[i] = {f[key] : key \in keys}
    BY <2>2
  <2>4. IsFiniteSet({f[key] : key \in keys})
    <3> HIDE DEF f
    <3> QED BY <2>1, ValuesFinite
  <2>5. \A key \in keys : f[key] \in Entries
    BY <2>1 DEF Entries
  <2>6. of[i] \in EntrySets
    <3> HIDE DEF f, of
    <3> QED BY <2>3, <2>4, <2>5 DEF EntrySets, FiniteParts
  <2>7. \A e \in of[i] : e.seq = db.lastSeq + i /\ e.kind = queue[i].batch[e.key]
    OBVIOUS
  <2> QED BY <2>6, <2>7
<1>3. GroupEntries = UNION {of[i] : i \in 1..group}
  BY DEF GroupEntries
<1> HIDE DEF of
<1>4. IsFiniteSet({of[i] : i \in 1..group})
  <2>1. IsFiniteSet(1..group)
    BY <1>1, FS_Interval
  <2> QED BY <2>1, ValuesFinite
<1>5. IsFiniteSet(GroupEntries)
  BY <1>2, <1>3, <1>4, FS_UNION DEF EntrySets, FiniteParts
<1>6. \A e \in GroupEntries : e \in Entries /\ e.seq \in db.lastSeq + 1..db.lastSeq + group
  <2> TAKE e \in GroupEntries
  <2>1. PICK i \in 1..group : e \in of[i]
    BY <1>3
  <2> QED BY <1>1, <1>2, <2>1 DEF EntrySets, FiniteParts
<1>7. Chain(GroupEntries)
  <2>1. ASSUME NEW a \in GroupEntries, NEW b \in GroupEntries, a.key = b.key, a.seq = b.seq
        PROVE  a = b
    <3>1. PICK i \in 1..group : a \in of[i]
      BY <1>3
    <3>2. PICK j \in 1..group : b \in of[j]
      BY <1>3
    <3>3. i = j
      BY <1>1, <1>2, <2>1, <3>1, <3>2
    <3>4. a.kind = b.kind /\ a \in Entries /\ b \in Entries
      BY <1>2, <1>6, <2>1, <3>1, <3>2, <3>3
    <3> QED BY <2>1, <3>4 DEF Entries
  <2> QED BY <1>6, <2>1 DEF Chain
<1> QED BY <1>5, <1>6, <1>7 DEF EntrySets, FiniteParts

(* Write keeps the types. *)
LEMMA WriteTypes ==
  ASSUME TypeInv, NEW batch \in budget["batches"], NEW sync \in BOOLEAN, Write(batch, sync)
  PROVE  TypeInv'
<1>1. TablesType' /\ LogsType' /\ ManifestType' /\ DbType' /\ BgType' /\ IteratorType' /\ HeldInv'
  BY DEF TypeInv, Write, TablesType, LogsType, ManifestType, DbType, BgType, IteratorType,
     HeldInv, vars, disk, writers, history
<1>2. WritersType' /\ db.status = "open"
  <2>1. queue' = Append(queue, [batch |-> batch, sync |-> sync]) /\ UNCHANGED <<stage, group>>
    BY DEF Write
  <2>2. queue \in Seq(Requests) /\ [batch |-> batch, sync |-> sync] \in Requests
    BY DEF TypeInv, WritersType, OthersType, Requests
  <2>3. queue' \in Seq(Requests) /\ Len(queue') = Len(queue) + 1 /\ Len(queue) \in Nat
    BY <2>1, <2>2, AppendProperties
  <2>4. queue' # <<>>
    BY <2>3, EmptySeq
  <2> QED BY <2>1, <2>3, <2>4 DEF TypeInv, WritersType, Write
<1>3. OthersType'
  BY DEF TypeInv, OthersType, Write, history
<1>4. StatusInv'
  BY <1>2 DEF TypeInv, StatusInv, Write, disk
<1> QED BY <1>1, <1>2, <1>3, <1>4 DEF TypeInv

(* WriteRefused keeps the types. *)
LEMMA WriteRefusedTypes ==
  ASSUME TypeInv, WriteRefused
  PROVE  TypeInv'
<1>1. TablesType' /\ LogsType' /\ ManifestType' /\ DbType' /\ BgType' /\ IteratorType' /\ OthersType' /\ HeldInv'
  BY DEF TypeInv, WriteRefused, TablesType, LogsType, ManifestType, DbType, BgType, IteratorType,
     OthersType, HeldInv, vars, disk, writers, history
<1>2. WritersType' /\ (queue = <<>> => queue' = <<>>)
  <2>1. 1 \in 0..Len(queue)
    BY EmptySeq DEF TypeInv, WritersType, WriteRefused, AtFront
  <2> QED BY <2>1, ReturnTypes DEF TypeInv, WriteRefused
<1>3. StatusInv'
  BY <1>2 DEF TypeInv, StatusInv, WriteRefused, disk
<1> QED BY <1>1, <1>2, <1>3 DEF TypeInv

(* BeginWrite keeps the types. *)
LEMMA BeginWriteTypes ==
  ASSUME TypeInv, BeginWrite
  PROVE  TypeInv'
<1>1. TablesType' /\ LogsType' /\ ManifestType' /\ DbType' /\ BgType' /\ IteratorType' /\ OthersType' /\ HeldInv'
  BY DEF TypeInv, BeginWrite, TablesType, LogsType, ManifestType, DbType, BgType, IteratorType,
     OthersType, HeldInv, vars, disk, writers, history
<1>2. WritersType' /\ queue' = queue
  BY GroupTypes DEF TypeInv, BeginWrite, BuildBatchGroup
<1>3. StatusInv'
  BY <1>2 DEF TypeInv, StatusInv, BeginWrite, disk
<1> QED BY <1>1, <1>2, <1>3 DEF TypeInv

(* Wait keeps the types. *)
LEMMA WaitTypes ==
  ASSUME TypeInv, Wait
  PROVE  TypeInv'
<1>1. TablesType' /\ LogsType' /\ ManifestType' /\ DbType' /\ BgType' /\ IteratorType' /\ OthersType' /\ StatusInv' /\ HeldInv'
  BY DEF TypeInv, Wait, TablesType, LogsType, ManifestType, DbType, BgType, IteratorType,
     OthersType, StatusInv, HeldInv, vars, disk, writers, history
<1>2. WritersType' /\ queue' = queue
  BY DEF TypeInv, WritersType, Writing, Wait, NoRoom, AtFront
<1> QED BY <1>1, <1>2 DEF TypeInv

(* SwitchFails keeps the types. *)
LEMMA SwitchFailsTypes ==
  ASSUME TypeInv, SwitchFails
  PROVE  TypeInv'
<1>1. TablesType' /\ LogsType' /\ ManifestType' /\ DbType' /\ BgType' /\ IteratorType' /\ HeldInv'
  BY DEF TypeInv, SwitchFails, TablesType, LogsType, ManifestType, DbType, BgType, IteratorType,
     HeldInv, vars, disk, writers, history
<1>2. WritersType' /\ (queue = <<>> => queue' = <<>>)
  <2>1. 1 \in 0..Len(queue)
    BY EmptySeq DEF TypeInv, WritersType, SwitchFails, NeedsSwitch, NoRoom, AtFront
  <2> QED BY <2>1, ReturnTypes DEF TypeInv, SwitchFails
<1>3. StatusInv'
  BY <1>2 DEF TypeInv, StatusInv, SwitchFails, disk
<1>4. OthersType'
  BY DEF TypeInv, OthersType, SwitchFails, Spend, history
<1> QED BY <1>1, <1>2, <1>3, <1>4 DEF TypeInv

(* SwitchMemTable keeps the types. *)
LEMMA SwitchMemTableTypes ==
  ASSUME TypeInv, SwitchMemTable
  PROVE  TypeInv'
<1>1. TablesType' /\ ManifestType' /\ IteratorType' /\ OthersType'
  BY DEF TypeInv, SwitchMemTable, TablesType, ManifestType, IteratorType, OthersType, vars, disk,
     writers, history
<1> DEFINE d == [db EXCEPT !.imm = db.mem, !.mem = {}, !.logfile = db.nextFile, !.nextFile = @ + 1]
<1>2. WritersType' /\ queue' = queue /\ db.status = "open" /\ db.imm = {}
  BY GroupTypes DEF TypeInv, SwitchMemTable, BuildBatchGroup, NeedsSwitch, NoRoom, AtFront
<1>3. db' = d /\ bg' = [bg EXCEPT !.scheduled = @ \/ Schedules(d)]
  BY DEF SwitchMemTable
<1>4. /\ db' \in Dbs /\ db'.status = db.status /\ db'.mem = {} /\ db'.imm = db.mem
      /\ db'.logfile = db.nextFile /\ db'.version = db.version /\ db'.logNumber = db.logNumber
      /\ db'.nextFile = db.nextFile + 1 /\ db'.lastSeq = db.lastSeq /\ db'.bgError = db.bgError
      /\ db'.pending = db.pending /\ db'.hot = db.hot /\ db'.snapshots = db.snapshots
  <2>1. {} \in EntrySets
    BY FS_EmptySet DEF EntrySets, FiniteParts
  <2>2. db.nextFile \in Nat /\ db.mem \in EntrySets /\ db \in Dbs
    BY DEF TypeInv, DbType, Dbs
  <2>3. db' \in Dbs
    <3> DEFINE m == db.mem
               k == db.nextFile
               l == db.nextFile + 1
               e == {}
    <3>1. m \in EntrySets /\ k \in Nat /\ l \in Nat /\ e \in EntrySets
      BY <2>1, <2>2
    <3>2. db' = [db EXCEPT !.imm = m, !.mem = e, !.logfile = k, !.nextFile = l]
      BY <1>3
    <3> HIDE DEF m, k, l, e
    <3> QED BY <2>2, <3>1, <3>2 DEF Dbs
  <2>4. DOMAIN db = {"status", "mem", "imm", "logfile", "version", "logNumber", "nextFile",
                     "lastSeq", "bgError", "pending", "hot", "snapshots"}
    BY <2>2 DEF Dbs
  <2> QED BY <1>3, <2>3, <2>4
<1>5. DbType'
  BY <1>4 DEF TypeInv, DbType
<1>6. /\ bg'.edit = bg.edit /\ bg'.compaction = bg.compaction
      /\ BgType'
  <2>1. Schedules(d) \in BOOLEAN
    BY DEF Schedules
  <2> HIDE DEF d
  <2> QED BY <1>3, <2>1 DEF TypeInv, BgType
<1>7. LogsType' /\ DOMAIN logs' = DOMAIN logs \cup {db.nextFile}
  BY WithLogs DEF TypeInv, DbType, Dbs, SwitchMemTable
<1>8. StatusInv'
  <2>1. db.logNumber \in Nat /\ db.logfile \in Nat /\ db.nextFile \in Nat
    BY DEF TypeInv, DbType, Dbs
  <2>2. bg.edit # None => bg.edit.log \in Nat /\ bg.edit.log <= db.logfile
    BY <1>2 DEF TypeInv, BgType, IsEdit, Edits, StatusInv
  <2> QED BY <1>2, <1>4, <1>6, <1>7, <2>1, <2>2 DEF TypeInv, StatusInv, SwitchMemTable
<1>9. HeldInv'
  BY <1>4, <1>6 DEF TypeInv, HeldInv, SwitchMemTable
<1> QED BY <1>1, <1>2, <1>3, <1>4, <1>5, <1>6, <1>7, <1>8, <1>9 DEF TypeInv

(* AddRecord keeps the types. *)
LEMMA AddRecordTypes ==
  ASSUME TypeInv, AddRecord
  PROVE  TypeInv'
<1>1. TablesType' /\ ManifestType' /\ DbType' /\ BgType' /\ IteratorType' /\ OthersType' /\ HeldInv'
  BY DEF TypeInv, AddRecord, TablesType, ManifestType, DbType, BgType, IteratorType, OthersType,
     HeldInv, vars, disk, writers, history
<1>2. WritersType' /\ queue' = queue /\ queue # <<>>
  <2>1. group # 0 /\ Len(queue) \in Nat
    BY DEF TypeInv, WritersType, Writing, AddRecord
  <2> QED BY <2>1, StageTypes, EmptySeq DEF TypeInv, WritersType, Writing, AddRecord
<1>3. db.status = "open" /\ db.logfile \in DOMAIN logs
  BY <1>2 DEF TypeInv, StatusInv, DbType, Dbs, Statuses
<1> DEFINE log == logs[db.logfile]
           new == [log EXCEPT !.records = Append(@, GroupEntries),
                              !.good = IF log.torn THEN @ ELSE Len(log.records) + 1]
<1>4. logs' = [logs EXCEPT ![db.logfile] = new]
  BY <1>3 DEF TypeInv, LogsType, Logs, AddRecord
<1>5. log \in Logs /\ {log.synced, log.good} \subseteq 0..Len(log.records)
  BY <1>3 DEF TypeInv, LogsType
<1>6. /\ new.records \in Seq(EntrySets) /\ Len(new.records) = Len(log.records) + 1
      /\ Len(log.records) \in Nat
  <2>1. GroupEntries \in EntrySets
    BY GroupEntriesFinite DEF TypeInv, DbType, Dbs
  <2>2. log.records \in Seq(EntrySets) /\ new.records = Append(log.records, GroupEntries)
    BY <1>5 DEF Logs
  <2> QED BY <2>1, <2>2, AppendProperties
<1>7. new \in Logs /\ {new.synced, new.good} \subseteq 0..Len(new.records)
  <2>1. new.synced = log.synced /\ new.torn = log.torn
        /\ new.good = (IF log.torn THEN log.good ELSE Len(log.records) + 1)
    BY <1>5 DEF Logs
  <2> DEFINE r == Append(log.records, GroupEntries)
             g == IF log.torn THEN log.good ELSE Len(log.records) + 1
  <2>2. new = [log EXCEPT !.records = r, !.good = g] /\ new.records = r
    BY <1>5 DEF Logs
  <2>3. g \in Nat /\ g \in 0..Len(r) /\ log.synced \in 0..Len(r) /\ r \in Seq(EntrySets)
    BY <1>5, <1>6, <2>2 DEF Logs
  <2> HIDE DEF log, r, g
  <2>4. [log EXCEPT !.records = r, !.good = g] \in Logs
    BY <1>5, <2>3 DEF Logs
  <2> QED BY <1>5, <2>1, <2>2, <2>3, <2>4 DEF g
<1>8. LogsType' /\ DOMAIN logs' = DOMAIN logs
  <2> HIDE DEF new
  <2> QED BY <1>3, <1>4, <1>7 DEF TypeInv, LogsType
<1>9. StatusInv'
  BY <1>2, <1>8 DEF TypeInv, StatusInv, AddRecord
<1> QED BY <1>1, <1>2, <1>3, <1>4, <1>5, <1>6, <1>7, <1>8, <1>9 DEF TypeInv

(* AddRecordFails keeps the types. *)
LEMMA AddRecordFailsTypes ==
  ASSUME TypeInv, AddRecordFails
  PROVE  TypeInv'
<1>1. TablesType' /\ ManifestType' /\ DbType' /\ BgType' /\ IteratorType' /\ HeldInv'
  BY DEF TypeInv, AddRecordFails, TablesType, ManifestType, DbType, BgType, IteratorType, HeldInv,
     vars, disk, writers, history
<1>2. WritersType' /\ queue' = queue
  BY StageTypes DEF TypeInv, WritersType, Writing, AddRecordFails
<1>3. LogsType' /\ DOMAIN logs' = DOMAIN logs
  <2>1. logs' = [logs EXCEPT ![db.logfile].torn = TRUE]
    BY DEF AddRecordFails
  <2>2. DOMAIN logs' = DOMAIN logs /\ logs' = [n \in DOMAIN logs |-> logs'[n]]
    BY <2>1 DEF TypeInv, LogsType
  <2>3. \A n \in DOMAIN logs : logs'[n] = logs[n] \/ logs'[n] = [logs[n] EXCEPT !.torn = TRUE]
    BY <2>1 DEF TypeInv, LogsType
  <2>4. \A n \in DOMAIN logs : /\ logs'[n] \in Logs
                               /\ {logs'[n].synced, logs'[n].good} \subseteq 0..Len(logs'[n].records)
    <3> TAKE n \in DOMAIN logs
    <3>1. logs[n] \in Logs /\ {logs[n].synced, logs[n].good} \subseteq 0..Len(logs[n].records)
      BY DEF TypeInv, LogsType
    <3>2. CASE logs'[n] = logs[n]
      BY <3>1, <3>2
    <3>3. CASE logs'[n] = [logs[n] EXCEPT !.torn = TRUE]
      BY <3>1, <3>3 DEF Logs
    <3> QED BY <2>3, <3>2, <3>3
  <2> QED BY <2>2, <2>4 DEF TypeInv, LogsType
<1>4. StatusInv'
  BY <1>2, <1>3 DEF TypeInv, StatusInv, AddRecordFails
<1>5. OthersType'
  BY DEF TypeInv, OthersType, AddRecordFails, Spend, history
<1> QED BY <1>1, <1>2, <1>3, <1>4, <1>5 DEF TypeInv

(* Sync keeps the types. *)
LEMMA SyncTypes ==
  ASSUME TypeInv, Sync
  PROVE  TypeInv'
<1>1. TablesType' /\ ManifestType' /\ DbType' /\ BgType' /\ IteratorType' /\ OthersType' /\ HeldInv'
  BY DEF TypeInv, Sync, TablesType, ManifestType, DbType, BgType, IteratorType, OthersType,
     HeldInv, vars, disk, writers, history
<1>2. WritersType' /\ queue' = queue
  BY StageTypes DEF TypeInv, WritersType, Writing, Sync
<1>3. LogsType' /\ DOMAIN logs' = DOMAIN logs
  <2>1. logs' = [logs EXCEPT ![db.logfile].synced = Len(logs[db.logfile].records)]
    BY DEF Sync
  <2>2. DOMAIN logs' = DOMAIN logs /\ logs' = [n \in DOMAIN logs |-> logs'[n]]
    BY <2>1 DEF TypeInv, LogsType
  <2>3. \A n \in DOMAIN logs : \/ logs'[n] = logs[n]
                               \/ logs'[n] = [logs[n] EXCEPT !.synced = Len(logs[n].records)]
    BY <2>1 DEF TypeInv, LogsType
  <2>4. \A n \in DOMAIN logs : Len(logs[n].records) \in Nat
    BY DEF TypeInv, LogsType, Logs
  <2>5. \A n \in DOMAIN logs : /\ logs'[n] \in Logs
                               /\ {logs'[n].synced, logs'[n].good} \subseteq 0..Len(logs'[n].records)
    <3> TAKE n \in DOMAIN logs
    <3>1. logs[n] \in Logs /\ {logs[n].synced, logs[n].good} \subseteq 0..Len(logs[n].records)
      BY DEF TypeInv, LogsType
    <3>2. CASE logs'[n] = logs[n]
      BY <3>1, <3>2
    <3>3. CASE logs'[n] = [logs[n] EXCEPT !.synced = Len(logs[n].records)]
      BY <2>4, <3>1, <3>3 DEF Logs
    <3> QED BY <2>3, <3>2, <3>3
  <2> QED BY <2>2, <2>5 DEF TypeInv, LogsType
<1>4. StatusInv'
  BY <1>2, <1>3 DEF TypeInv, StatusInv, Sync
<1> QED BY <1>1, <1>2, <1>3, <1>4 DEF TypeInv

(* SyncFails keeps the types. *)
LEMMA SyncFailsTypes ==
  ASSUME TypeInv, SyncFails
  PROVE  TypeInv'
<1>1. TablesType' /\ LogsType' /\ ManifestType' /\ DbType' /\ BgType' /\ IteratorType' /\ HeldInv'
  BY DEF TypeInv, SyncFails, TablesType, LogsType, ManifestType, DbType, BgType, IteratorType,
     HeldInv, vars, disk, writers, history
<1>2. WritersType' /\ queue' = queue
  BY StageTypes DEF TypeInv, WritersType, Writing, SyncFails
<1>3. StatusInv'
  BY <1>2 DEF TypeInv, StatusInv, SyncFails, disk
<1>4. OthersType'
  BY DEF TypeInv, OthersType, SyncFails, Spend, history
<1> QED BY <1>1, <1>2, <1>3, <1>4 DEF TypeInv

(* InsertInto keeps the types. *)
LEMMA InsertIntoTypes ==
  ASSUME TypeInv, InsertInto
  PROVE  TypeInv'
<1>1. TablesType' /\ LogsType' /\ ManifestType' /\ BgType' /\ IteratorType' /\ OthersType'
  BY DEF TypeInv, InsertInto, TablesType, LogsType, ManifestType, BgType, IteratorType,
     OthersType, vars, disk, writers, history
<1>2. WritersType' /\ queue' = queue /\ db.status # "closed"
  <2>1. group # 0 /\ Len(queue) \in Nat /\ queue # <<>>
    BY EmptySeq DEF TypeInv, WritersType, Writing, InsertInto
  <2> QED BY <2>1, StageTypes DEF TypeInv, WritersType, Writing, InsertInto, StatusInv
<1>3. db.mem \cup GroupEntries \in EntrySets
  <2>1. GroupEntries \in EntrySets /\ db.mem \in EntrySets
    BY GroupEntriesFinite DEF TypeInv, DbType, Dbs
  <2>2. IsFiniteSet(db.mem \cup GroupEntries)
    BY <2>1, FS_Union DEF EntrySets, FiniteParts
  <2> QED BY <2>1, <2>2 DEF EntrySets, FiniteParts
<1>4. /\ db' \in Dbs /\ db'.status = db.status /\ db'.mem = db.mem \cup GroupEntries
      /\ db'.imm = db.imm /\ db'.logfile = db.logfile /\ db'.version = db.version
      /\ db'.logNumber = db.logNumber /\ db'.nextFile = db.nextFile /\ db'.lastSeq = db.lastSeq
      /\ db'.bgError = db.bgError /\ db'.pending = db.pending /\ db'.hot = db.hot
      /\ db'.snapshots = db.snapshots
  BY <1>3 DEF TypeInv, DbType, Dbs, InsertInto
<1>5. DbType'
  BY <1>4 DEF TypeInv, DbType
<1>6. StatusInv'
  BY <1>2, <1>4 DEF TypeInv, StatusInv, InsertInto, disk
<1>7. HeldInv'
  BY <1>4 DEF TypeInv, HeldInv, InsertInto, disk
<1> QED BY <1>1, <1>2, <1>3, <1>4, <1>5, <1>6, <1>7 DEF TypeInv

(* EndWrite keeps the types. *)
LEMMA EndWriteTypes ==
  ASSUME TypeInv, EndWrite
  PROVE  TypeInv'
<1>1. TablesType' /\ LogsType' /\ ManifestType' /\ BgType' /\ IteratorType'
  BY DEF TypeInv, EndWrite, TablesType, LogsType, ManifestType, BgType, IteratorType, vars, disk,
     writers, history
<1>2. WritersType' /\ (queue = <<>> => queue' = <<>>) /\ db.status # "closed"
  <2>1. group \in 0..Len(queue) /\ queue # <<>>
    BY EmptySeq DEF TypeInv, WritersType, Writing, EndWrite
  <2> QED BY <2>1, ReturnTypes DEF TypeInv, EndWrite, StatusInv
<1>3. /\ db' \in Dbs /\ db'.status = db.status /\ db'.mem = db.mem /\ db'.imm = db.imm
      /\ db'.logfile = db.logfile /\ db'.version = db.version /\ db'.logNumber = db.logNumber
      /\ db'.nextFile = db.nextFile /\ db'.lastSeq = db.lastSeq + group
      /\ db'.bgError = (db.bgError \/ stage = "unsynced") /\ db'.pending = db.pending
      /\ db'.hot = db.hot /\ db'.snapshots = db.snapshots
  <2>1. group \in Nat /\ db.lastSeq + group \in Nat
    BY DEF TypeInv, DbType, Dbs, WritersType
  <2> DEFINE e == db.bgError \/ stage = "unsynced"
  <2>2. e \in BOOLEAN /\ db' = [db EXCEPT !.lastSeq = @ + group, !.bgError = e]
    BY DEF TypeInv, DbType, Dbs, EndWrite
  <2> HIDE DEF e
  <2>3. /\ db' \in Dbs /\ db'.bgError = e
        /\ db'.status = db.status /\ db'.mem = db.mem /\ db'.imm = db.imm
        /\ db'.logfile = db.logfile /\ db'.version = db.version /\ db'.logNumber = db.logNumber
        /\ db'.nextFile = db.nextFile /\ db'.lastSeq = db.lastSeq + group
        /\ db'.pending = db.pending /\ db'.hot = db.hot /\ db'.snapshots = db.snapshots
    BY <2>1, <2>2 DEF TypeInv, DbType, Dbs
  <2> QED BY <2>3 DEF e
<1>4. DbType'
  BY <1>3 DEF TypeInv, DbType
<1>5. StatusInv'
  BY <1>2, <1>3 DEF TypeInv, StatusInv, EndWrite, disk
<1>6. HeldInv'
  BY <1>3 DEF TypeInv, HeldInv, EndWrite, disk
<1>7. OthersType'
  BY DEF TypeInv, OthersType, EndWrite, history
<1> QED BY <1>1, <1>2, <1>3, <1>4, <1>5, <1>6, <1>7 DEF TypeInv

(* What is picked is a table of the current version, above the last level. *)
LEMMA PickedOf ==
  ASSUME DbType, NEW picked \in Candidates
  PROVE  picked[1] \in 0..MaxLevel - 1 /\ picked[2] \in db.version[picked[1]]
BY LevelsAssumption DEF DbType, Candidates

(* The oldest snapshot is a number. *)
LEMMA OldestSnapshot ==
  ASSUME DbType
  PROVE  (IF db.snapshots = {} THEN db.lastSeq
          ELSE CHOOSE s \in db.snapshots : \A t \in db.snapshots : s <= t) \in Nat
<1>1. db.lastSeq \in Nat /\ db.snapshots \subseteq Nat /\ \A s, t \in db.snapshots : s = t
  BY DEF DbType, Dbs
<1>2. CASE db.snapshots # {}
  <2>1. \E s \in db.snapshots : \A t \in db.snapshots : s <= t
    BY <1>1, <1>2
  <2>2. (CHOOSE s \in db.snapshots : \A t \in db.snapshots : s <= t) \in db.snapshots
    BY <2>1
  <2> QED BY <1>1, <1>2, <2>2
<1> QED BY <1>1, <1>2

(* NothingToDo keeps the types. *)
LEMMA NothingToDoTypes ==
  ASSUME TypeInv, NothingToDo
  PROVE  TypeInv'
<1>1. TablesType' /\ LogsType' /\ ManifestType' /\ DbType' /\ IteratorType' /\ OthersType'
  BY DEF TypeInv, NothingToDo, TablesType, LogsType, ManifestType, DbType, IteratorType,
     OthersType, vars, disk, writers, history
<1>2. BgType' /\ bg'.edit = None /\ bg'.compaction = None /\ WritersType' /\ queue' = queue
  BY EndTypes DEF TypeInv, NothingToDo
<1>0. db.status = "open"
  BY DEF TypeInv, StatusInv, DbType, Dbs, Statuses, Resting, NothingToDo, Called
<1>3. StatusInv'
  BY <1>0, <1>2 DEF TypeInv, StatusInv, NothingToDo, disk
<1>4. HeldInv'
  BY <1>2 DEF TypeInv, HeldInv, NothingToDo, disk
<1> QED BY <1>0, <1>1, <1>2, <1>3, <1>4 DEF TypeInv

(* BuildTable keeps the types. *)
LEMMA BuildTableTypes ==
  ASSUME TypeInv, BuildTable
  PROVE  TypeInv'
<1>1. LogsType' /\ ManifestType' /\ WritersType' /\ IteratorType' /\ OthersType'
  BY DEF TypeInv, BuildTable, LogsType, ManifestType, WritersType, IteratorType, OthersType, vars,
     disk, writers, history
<1>0. db.status = "open" /\ bg.edit = None
  BY DEF TypeInv, StatusInv, DbType, Dbs, Statuses, Closed, BuildTable, FlushDue
<1> DEFINE n == db.nextFile
           d == [db EXCEPT !.nextFile = @ + 1]
<1>2. /\ n \in Nat /\ db' \in Dbs /\ db'.status = db.status /\ db'.mem = db.mem
      /\ db'.imm = db.imm /\ db'.logfile = db.logfile /\ db'.version = db.version
      /\ db'.logNumber = db.logNumber /\ db'.nextFile = n + 1 /\ db'.lastSeq = db.lastSeq
      /\ db'.bgError = db.bgError /\ db'.pending = db.pending /\ db'.hot = db.hot
      /\ db'.snapshots = db.snapshots
  BY DEF TypeInv, DbType, Dbs, BuildTable
<1>3. DbType'
  BY <1>2 DEF TypeInv, DbType
<1>4. TablesType' /\ DOMAIN tables' = DOMAIN tables \cup {n}
  <2>1. tables' = With(tables, n, db.imm) /\ db.imm \in EntrySets
    BY DEF BuildTable, TypeInv, DbType, Dbs
  <2> QED BY <1>2, <2>1, WithTables DEF TypeInv
<1>5. PICK level \in LevelsForMemTableOutput(tables, db.version, db.imm) :
        bg' = [bg EXCEPT !.edit = Edit("flush", {<<level, n>>}, {}, LogInUse, d)]
  BY DEF BuildTable
<1>6. level \in Levels
  BY LevelsAssumption DEF LevelsForMemTableOutput, Levels
<1> DEFINE edit == Edit("flush", {<<level, n>>}, {}, LogInUse, d)
<1>7. /\ IsEdit(edit) /\ edit.kind = "flush" /\ edit.adds = {<<level, n>>}
      /\ edit.log = db.logfile
  <2>1. {<<level, n>>} \in FiniteParts(Levels \X Nat)
    <3> DEFINE add == <<level, n>>
    <3>1. add \in Levels \X Nat
      BY <1>2, <1>6
    <3> HIDE DEF add
    <3>2. IsFiniteSet({add})
      BY FS_Singleton
    <3> QED BY <3>1, <3>2 DEF FiniteParts, add
  <2>2. d.lastSeq \in Nat /\ d.nextFile \in Nat /\ db.logfile \in Nat
    BY <1>2 DEF TypeInv, DbType, Dbs
  <2>3. /\ edit.kind = "flush" /\ edit.adds = {<<level, n>>} /\ edit.log = db.logfile
        /\ edit \in Edits
    <3> HIDE DEF d
    <3> QED BY <2>1, <2>2 DEF Edit, Edits, LogInUse, FiniteParts
  <2> QED BY <2>1, <2>3 DEF IsEdit
<1> HIDE DEF edit
<1>8. bg'.scheduled = bg.scheduled /\ bg'.edit = edit /\ bg'.compaction = bg.compaction /\ BgType'
  <2>1. bg' = [bg EXCEPT !.edit = edit]
    BY <1>5 DEF edit
  <2> QED BY <1>7, <2>1 DEF TypeInv, BgType, IsEdit
<1>9. StatusInv'
  <2>1. db.nextFile \in Nat /\ db.logfile \in Nat
    BY DEF TypeInv, DbType, Dbs
  <2> QED BY <1>0, <1>2, <1>7, <1>8, <2>1 DEF TypeInv, StatusInv, BuildTable, writers
<1>10. HeldInv'
  <2>1. \A a \in edit.adds : a[2] = n
    BY <1>7
  <2>2. iterator' = iterator /\ db'.version = db.version /\ db'.pending = db.pending
    BY <1>2 DEF BuildTable
  <2> HIDE DEF n
  <2> QED BY <1>4, <1>8, <2>1, <2>2 DEF TypeInv, HeldInv
<1> QED BY <1>0, <1>1, <1>2, <1>3, <1>4, <1>5, <1>6, <1>7, <1>8, <1>9, <1>10 DEF TypeInv

(* BuildTableFails keeps the types. *)
LEMMA BuildTableFailsTypes ==
  ASSUME TypeInv, BuildTableFails
  PROVE  TypeInv'
<1>1. TablesType' /\ LogsType' /\ ManifestType' /\ IteratorType'
  BY DEF TypeInv, BuildTableFails, TablesType, LogsType, ManifestType, IteratorType, vars, disk,
     writers, history
<1>0. db.status = "open" /\ bg.edit = None
  BY DEF TypeInv, StatusInv, DbType, Dbs, Statuses, Closed, BuildTableFails, FlushDue
<1>2. /\ db' \in Dbs /\ db'.status = db.status /\ db'.mem = db.mem /\ db'.imm = db.imm
      /\ db'.logfile = db.logfile /\ db'.version = db.version /\ db'.logNumber = db.logNumber
      /\ db'.nextFile = db.nextFile + 1 /\ db'.lastSeq = db.lastSeq /\ db'.bgError = TRUE
      /\ db'.pending = db.pending /\ db'.hot = db.hot /\ db'.snapshots = db.snapshots
  <2> DEFINE l == db.nextFile + 1
  <2>1. l \in Nat /\ db \in Dbs
    BY DEF TypeInv, DbType, Dbs
  <2>2. db' = [db EXCEPT !.nextFile = l, !.bgError = TRUE]
    BY DEF BuildTableFails
  <2> HIDE DEF l
  <2>3. /\ db' \in Dbs /\ db'.status = db.status /\ db'.mem = db.mem /\ db'.imm = db.imm
        /\ db'.logfile = db.logfile /\ db'.version = db.version /\ db'.logNumber = db.logNumber
        /\ db'.nextFile = l /\ db'.lastSeq = db.lastSeq /\ db'.bgError = TRUE
        /\ db'.pending = db.pending /\ db'.hot = db.hot /\ db'.snapshots = db.snapshots
    BY <2>1, <2>2 DEF Dbs
  <2> QED BY <2>3 DEF l
<1>3. DbType'
  BY <1>2 DEF TypeInv, DbType
<1>4. BgType' /\ bg'.edit = None /\ bg'.compaction = bg.compaction /\ WritersType' /\ queue' = queue
  BY GoesOnTypes DEF TypeInv, BuildTableFails
<1>5. StatusInv'
  <2>1. db.nextFile \in Nat /\ db.logfile \in Nat
    BY DEF TypeInv, DbType, Dbs
  <2> QED BY <1>0, <1>2, <1>4, <2>1 DEF TypeInv, StatusInv, BuildTableFails, disk
<1>6. HeldInv'
  BY <1>2, <1>4 DEF TypeInv, HeldInv, BuildTableFails, disk
<1>7. OthersType'
  BY DEF TypeInv, OthersType, BuildTableFails, Spend, history
<1> QED BY <1>0, <1>1, <1>2, <1>3, <1>4, <1>5, <1>6, <1>7 DEF TypeInv

(* InstallFlush keeps the types. *)
LEMMA InstallFlushTypes ==
  ASSUME TypeInv, InstallFlush
  PROVE  TypeInv'
<1>1. ManifestType' /\ IteratorType' /\ OthersType'
  BY DEF TypeInv, InstallFlush, ManifestType, IteratorType, OthersType, vars, disk, writers, history
<1>0. db.status = "open" /\ IsEdit(bg.edit)
  BY DEF TypeInv, StatusInv, DbType, Dbs, Statuses, Resting, BgType, InstallFlush, EditWritten
<1> DEFINE V == Applied(db.version, bg.edit)
<1>1a. V \in Files /\ Numbers(V) \subseteq Numbers(db.version) \cup {a[2] : a \in bg.edit.adds}
  BY <1>0, AppliedFiles DEF TypeInv, DbType, Dbs, IsEdit
<1>2. /\ db' \in Dbs /\ db'.status = db.status /\ db'.mem = db.mem /\ db'.imm = {}
      /\ db'.logfile = db.logfile /\ db'.version = V /\ db'.logNumber = bg.edit.log
      /\ db'.nextFile = db.nextFile /\ db'.lastSeq = db.lastSeq /\ db'.bgError = db.bgError
      /\ db'.pending = db.pending /\ db'.hot = {} /\ db'.snapshots = db.snapshots
  <2>1. {} \in EntrySets /\ bg.edit.log \in Nat /\ db \in Dbs
    BY <1>0, FS_EmptySet DEF EntrySets, FiniteParts, IsEdit, Edits, TypeInv, DbType
  <2> DEFINE e == {}
             log == bg.edit.log
  <2>2. db' = [db EXCEPT !.version = V, !.logNumber = log, !.hot = {}, !.imm = e]
    BY DEF InstallFlush, Installed
  <2>3. V \in Files /\ e \in EntrySets /\ log \in Nat
    BY <1>1a, <2>1
  <2> HIDE DEF e, log, V
  <2>4. /\ db' \in Dbs /\ db'.status = db.status /\ db'.mem = db.mem /\ db'.imm = e
        /\ db'.logfile = db.logfile /\ db'.version = V /\ db'.logNumber = log
        /\ db'.nextFile = db.nextFile /\ db'.lastSeq = db.lastSeq /\ db'.bgError = db.bgError
        /\ db'.pending = db.pending /\ db'.hot = {} /\ db'.snapshots = db.snapshots
    BY <2>1, <2>2, <2>3 DEF Dbs
  <2> QED BY <2>4 DEF e, log
<1> HIDE DEF V
<1>3. DbType'
  BY <1>2 DEF TypeInv, DbType
<1>4. BgType' /\ bg'.edit = None /\ bg'.compaction = bg.compaction /\ WritersType' /\ queue' = queue
  BY GoesOnTypes DEF TypeInv, InstallFlush
<1>5. /\ TablesType' /\ LogsType'
      /\ DOMAIN tables \cap Live(db', bg.compaction) \subseteq DOMAIN tables'
      /\ \A n \in DOMAIN logs : n >= db'.logNumber => n \in DOMAIN logs'
  BY DeletedTypes DEF TypeInv, InstallFlush
<1>6. StatusInv'
  <2>1. db.logfile \in Nat /\ bg.edit.log \in Nat /\ bg.edit.log <= db.logfile
    BY <1>0 DEF TypeInv, DbType, Dbs, StatusInv, IsEdit, Edits, InstallFlush, EditWritten
  <2>2. iterator' = iterator
    BY DEF InstallFlush
  <2> QED BY <1>0, <1>2, <1>4, <1>5, <2>1, <2>2 DEF TypeInv, StatusInv
<1>7. HeldInv'
  <2>1. iterator' = iterator
    BY DEF InstallFlush
  <2>2. Numbers(V) \subseteq DOMAIN tables
    BY <1>1a DEF TypeInv, HeldInv, InstallFlush, EditWritten
  <2>3. /\ Numbers(V) \cup db'.pending \subseteq Live(db', bg.compaction)
        /\ iterator # None => Numbers(iterator.version) \subseteq Live(db', bg.compaction)
        /\ bg.compaction # None => Numbers(bg.compaction.version) \subseteq Live(db', bg.compaction)
    BY <1>2 DEF Live
  <2> QED BY <1>2, <1>4, <1>5, <2>1, <2>2, <2>3 DEF TypeInv, HeldInv
<1> QED BY <1>0, <1>1, <1>2, <1>3, <1>4, <1>5, <1>6, <1>7, <1>1a DEF TypeInv

(* PickCompaction keeps the types. *)
LEMMA PickCompactionTypes ==
  ASSUME TypeInv, PickCompaction
  PROVE  TypeInv'
<1>1. TablesType' /\ LogsType' /\ ManifestType' /\ DbType' /\ WritersType' /\ IteratorType' /\ OthersType'
  BY DEF TypeInv, PickCompaction, TablesType, LogsType, ManifestType, DbType, WritersType,
     IteratorType, OthersType, vars, disk, writers, history
<1>0. db.status = "open" /\ bg.edit = None /\ bg.compaction = None
  BY DEF TypeInv, StatusInv, DbType, Dbs, Statuses, Resting, PickCompaction, CompactionDue, Called
<1> DEFINE oldest == IF db.snapshots = {} THEN db.lastSeq
                     ELSE CHOOSE s \in db.snapshots : \A t \in db.snapshots : s <= t
<1>2. PICK picked \in Candidates :
      \E inputs \in Inputs(tables, db.version, picked[1], {picked[2]}) :
         bg' = [bg EXCEPT !.compaction =
                  [level |-> picked[1], upper |-> inputs.upper, lower |-> inputs.lower,
                   version |-> db.version, outputs |-> {}, built |-> FALSE, snapshot |-> oldest]]
  BY DEF PickCompaction
<1>3. PICK inputs \in Inputs(tables, db.version, picked[1], {picked[2]}) :
         bg' = [bg EXCEPT !.compaction =
                  [level |-> picked[1], upper |-> inputs.upper, lower |-> inputs.lower,
                   version |-> db.version, outputs |-> {}, built |-> FALSE, snapshot |-> oldest]]
  BY <1>2
<1>4. picked[1] \in 0..MaxLevel - 1 /\ picked[2] \in db.version[picked[1]]
  BY PickedOf DEF TypeInv
<1>5. db.version \in Files
  BY DEF TypeInv, DbType, Dbs
<1>6. /\ inputs.upper \in SUBSET db.version[picked[1]]
      /\ inputs.lower \in SUBSET db.version[picked[1] + 1]
      /\ inputs.upper \in FiniteParts(Nat) /\ inputs.lower \in FiniteParts(Nat)
  <2> DEFINE level == picked[1]
             one == {picked[2]}
  <2>1. one \in SUBSET db.version[level] /\ level \in 0..MaxLevel - 1
    BY <1>4
  <2>2. inputs \in Inputs(tables, db.version, level, one)
    OBVIOUS
  <2> HIDE DEF level, one
  <2>3. /\ inputs.upper \in SUBSET db.version[level]
        /\ inputs.lower \in SUBSET db.version[level + 1]
        /\ inputs.upper \in FiniteParts(Nat) /\ inputs.lower \in FiniteParts(Nat)
    BY <1>5, <2>1, <2>2, InputFiles
  <2> QED BY <2>3 DEF level
<1>7. oldest \in Nat
  BY OldestSnapshot DEF TypeInv
<1> HIDE DEF oldest
<1> DEFINE c == [level |-> picked[1], upper |-> inputs.upper, lower |-> inputs.lower,
                 version |-> db.version, outputs |-> {}, built |-> FALSE, snapshot |-> oldest]
<1>8. IsCompaction(c) /\ c.version = db.version /\ c.outputs = {}
  <2>1. {} \in FiniteParts(Nat)
    BY FS_EmptySet DEF FiniteParts
  <2>2. db.version \in Versions
    BY <1>5 DEF Files, Versions, FiniteParts
  <2>3. c \in Compactions
    BY <1>4, <1>6, <1>7, <2>2 DEF Compactions, FiniteParts
  <2> QED BY <1>5, <1>6, <2>1, <2>3 DEF IsCompaction
<1> HIDE DEF c
<1>9. bg'.scheduled = bg.scheduled /\ bg'.edit = None /\ bg'.compaction = c /\ BgType'
  <2>1. bg' = [bg EXCEPT !.compaction = c]
    BY <1>3 DEF c
  <2> QED BY <1>0, <1>8, <2>1 DEF TypeInv, BgType, IsCompaction
<1>10. StatusInv'
  BY <1>0, <1>9 DEF TypeInv, StatusInv, PickCompaction, disk, writers
<1>11. HeldInv'
  BY <1>8, <1>9 DEF TypeInv, HeldInv, PickCompaction, disk
<1> QED BY <1>0, <1>1, <1>2, <1>3, <1>4, <1>5, <1>6, <1>7, <1>8, <1>9, <1>10, <1>11 DEF TypeInv

(* TrivialMove keeps the types. *)
LEMMA TrivialMoveTypes ==
  ASSUME TypeInv, TrivialMove
  PROVE  TypeInv'
<1>1. TablesType' /\ LogsType' /\ ManifestType' /\ DbType' /\ WritersType' /\ IteratorType' /\ OthersType'
  BY DEF TypeInv, TrivialMove, TablesType, LogsType, ManifestType, DbType, WritersType,
     IteratorType, OthersType, vars, disk, writers, history
<1>0. db.status = "open" /\ bg.edit = None /\ bg.compaction = None
  BY DEF TypeInv, StatusInv, DbType, Dbs, Statuses, Resting, TrivialMove, CompactionDue, Called
<1>2. PICK picked \in Candidates :
      \E inputs \in Inputs(tables, db.version, picked[1], {picked[2]}) :
         bg' = [bg EXCEPT !.edit =
                  Edit("move", {<<picked[1] + 1, n>> : n \in inputs.upper},
                       {<<picked[1], n>> : n \in inputs.upper}, db.logNumber, db)]
  BY DEF TrivialMove
<1>3. PICK inputs \in Inputs(tables, db.version, picked[1], {picked[2]}) :
         bg' = [bg EXCEPT !.edit =
                  Edit("move", {<<picked[1] + 1, n>> : n \in inputs.upper},
                       {<<picked[1], n>> : n \in inputs.upper}, db.logNumber, db)]
  BY <1>2
<1>4. picked[1] \in 0..MaxLevel - 1 /\ picked[2] \in db.version[picked[1]]
  BY PickedOf DEF TypeInv
<1>6. /\ inputs.upper \in FiniteParts(Nat)
      /\ \A n \in inputs.upper \cup inputs.lower : n \in Numbers(db.version)
  <2> DEFINE level == picked[1]
             one == {picked[2]}
  <2>1. one \in SUBSET db.version[level] /\ level \in 0..MaxLevel - 1
    BY <1>4
  <2>2. inputs \in Inputs(tables, db.version, level, one)
    OBVIOUS
  <2>3. db.version \in Files
    BY DEF TypeInv, DbType, Dbs
  <2> HIDE DEF level, one
  <2> QED BY <2>1, <2>2, <2>3, InputFiles
<1> DEFINE edit == Edit("move", {<<picked[1] + 1, n>> : n \in inputs.upper},
                        {<<picked[1], n>> : n \in inputs.upper}, db.logNumber, db)
<1>7. /\ IsEdit(edit) /\ edit.kind = "move" /\ edit.log = db.logNumber
      /\ \A a \in edit.adds : a[2] \in inputs.upper
  <2> DEFINE f == [n \in inputs.upper |-> <<picked[1] + 1, n>>]
             adds == {f[n] : n \in inputs.upper}
             deletes == {<<picked[1], n>> : n \in inputs.upper}
  <2>1. IsFiniteSet(adds)
    <3> HIDE DEF f
    <3> QED BY <1>6, ValuesFinite DEF FiniteParts
  <2>a. \A n \in inputs.upper : f[n] = <<picked[1] + 1, n>> /\ n \in Nat
    BY <1>6 DEF FiniteParts
  <2>b. picked[1] \in Levels /\ picked[1] + 1 \in Levels
    BY <1>4, LevelsAssumption DEF Levels
  <2>2. adds \subseteq Levels \X Nat /\ deletes \subseteq Levels \X Nat
    <3> HIDE DEF f
    <3> QED BY <2>a, <2>b
  <2>3. {<<picked[1] + 1, n>> : n \in inputs.upper} = adds
    OBVIOUS
  <2>4. \A a \in adds : a[2] \in inputs.upper
    <3> HIDE DEF f
    <3> QED BY <2>a
  <2>5. db.logNumber \in Nat /\ db.lastSeq \in Nat /\ db.nextFile \in Nat
    BY DEF TypeInv, DbType, Dbs
  <2>6. edit = Edit("move", adds, deletes, db.logNumber, db)
    BY <2>3
  <2> HIDE DEF adds, deletes, edit
  <2>7. edit \in Edits /\ edit.kind = "move" /\ edit.log = db.logNumber /\ edit.adds = adds
    BY <2>2, <2>5, <2>6 DEF Edit, Edits
  <2> QED BY <2>1, <2>2, <2>4, <2>7 DEF IsEdit, FiniteParts
<1> HIDE DEF edit
<1>8. bg'.scheduled = bg.scheduled /\ bg'.edit = edit /\ bg'.compaction = None /\ BgType'
  <2>1. bg' = [bg EXCEPT !.edit = edit]
    BY <1>3 DEF edit
  <2> QED BY <1>0, <1>7, <2>1 DEF TypeInv, BgType, IsEdit
<1>9. StatusInv'
  BY <1>0, <1>7, <1>8 DEF TypeInv, StatusInv, TrivialMove, disk, writers
<1>10. HeldInv'
  BY <1>6, <1>7, <1>8 DEF TypeInv, HeldInv, TrivialMove, disk
<1> QED BY <1>0, <1>1, <1>2, <1>3, <1>4, <1>6, <1>7, <1>8, <1>9, <1>10 DEF TypeInv

(* The inputs of a compaction are finitely many entries. *)
LEMMA InputsFinite ==
  ASSUME TablesType, NEW c, IsCompaction(c), Numbers(c.version) \subseteq DOMAIN tables
  PROVE  /\ c.upper \cup c.lower \in FiniteParts(Nat)
         /\ c.upper \cup c.lower \subseteq Numbers(c.version)
         /\ Contents(tables, c.upper \cup c.lower) \in EntrySets
<1>1. c.level \in Levels /\ c.level + 1 \in Levels
  BY LevelsAssumption DEF IsCompaction, Compactions, Levels
<1>2. c.version[c.level] \in FiniteParts(Nat) /\ c.version[c.level + 1] \in FiniteParts(Nat)
  BY <1>1 DEF IsCompaction, Files
<1> DEFINE S == c.upper \cup c.lower
<1>3. IsFiniteSet(S) /\ S \subseteq Nat
  <2>1. IsFiniteSet(c.upper) /\ IsFiniteSet(c.lower)
    BY <1>2, FS_Subset DEF IsCompaction, FiniteParts
  <2> QED BY <1>2, <2>1, FS_Union DEF IsCompaction, FiniteParts
<1>4. S \subseteq Numbers(c.version)
  BY <1>1 DEF Numbers, IsCompaction
<1> HIDE DEF S
<1>5. \A n \in S : tables[n] \in EntrySets
  BY <1>4 DEF TablesType
<1>6. IsFiniteSet({tables[n] : n \in S})
  BY <1>3, ValuesFinite
<1>7. IsFiniteSet(Contents(tables, S))
  BY <1>5, <1>6, FS_UNION DEF Contents, EntrySets, FiniteParts
<1>8. Contents(tables, S) \subseteq Entries
  BY <1>5 DEF Contents, EntrySets, FiniteParts
<1> QED BY <1>3, <1>4, <1>7, <1>8 DEF EntrySets, FiniteParts, S

(* InstallMove keeps the types. *)
LEMMA InstallMoveTypes ==
  ASSUME TypeInv, InstallMove
  PROVE  TypeInv'
<1>1. TablesType' /\ LogsType' /\ ManifestType' /\ IteratorType' /\ OthersType'
  BY DEF TypeInv, InstallMove, TablesType, LogsType, ManifestType, IteratorType, OthersType, vars,
     disk, writers, history
<1>0. db.status = "open" /\ IsEdit(bg.edit)
  BY DEF TypeInv, StatusInv, DbType, Dbs, Statuses, Resting, BgType, InstallMove, EditWritten
<1> DEFINE V == Applied(db.version, bg.edit)
<1>1a. V \in Files /\ Numbers(V) \subseteq Numbers(db.version) \cup {a[2] : a \in bg.edit.adds}
  BY <1>0, AppliedFiles DEF TypeInv, DbType, Dbs, IsEdit
<1>2. /\ db' \in Dbs /\ db'.status = db.status /\ db'.mem = db.mem /\ db'.imm = db.imm
      /\ db'.logfile = db.logfile /\ db'.version = V /\ db'.logNumber = bg.edit.log
      /\ db'.nextFile = db.nextFile /\ db'.lastSeq = db.lastSeq /\ db'.bgError = db.bgError
      /\ db'.pending = db.pending /\ db'.hot = {} /\ db'.snapshots = db.snapshots
  <2> DEFINE log == bg.edit.log
  <2>1. db \in Dbs /\ log \in Nat
    BY <1>0 DEF IsEdit, Edits, TypeInv, DbType
  <2>2. db' = [db EXCEPT !.version = V, !.logNumber = log, !.hot = {}]
    BY DEF InstallMove, Installed
  <2> HIDE DEF log, V
  <2>3. /\ db' \in Dbs /\ db'.status = db.status /\ db'.mem = db.mem /\ db'.imm = db.imm
        /\ db'.logfile = db.logfile /\ db'.version = V /\ db'.logNumber = log
        /\ db'.nextFile = db.nextFile /\ db'.lastSeq = db.lastSeq /\ db'.bgError = db.bgError
        /\ db'.pending = db.pending /\ db'.hot = {} /\ db'.snapshots = db.snapshots
    BY <1>1a, <2>1, <2>2 DEF Dbs
  <2> QED BY <2>3 DEF log
<1> HIDE DEF V
<1>3. DbType'
  BY <1>2 DEF TypeInv, DbType
<1>4. BgType' /\ bg'.edit = None /\ bg'.compaction = None /\ WritersType' /\ queue' = queue
  BY EndTypes DEF TypeInv, InstallMove
<1>5. StatusInv'
  <2>1. db.logfile \in Nat /\ bg.edit.log \in Nat /\ bg.edit.log <= db.logfile
    BY <1>0 DEF TypeInv, DbType, Dbs, StatusInv, IsEdit, Edits, InstallMove, EditWritten
  <2> QED BY <1>0, <1>2, <1>4, <2>1 DEF TypeInv, StatusInv, InstallMove, disk
<1>6. HeldInv'
  <2>1. Numbers(V) \subseteq DOMAIN tables
    BY <1>1a DEF TypeInv, HeldInv, InstallMove, EditWritten
  <2> QED BY <1>2, <1>4, <2>1 DEF TypeInv, HeldInv, InstallMove, disk
<1> QED BY <1>0, <1>1, <1>2, <1>3, <1>4, <1>5, <1>6, <1>1a DEF TypeInv

(* DoCompactionWork keeps the types. *)
LEMMA DoCompactionWorkTypes ==
  ASSUME TypeInv, DoCompactionWork
  PROVE  TypeInv'
<1>1. LogsType' /\ ManifestType' /\ WritersType' /\ IteratorType'
  BY DEF TypeInv, DoCompactionWork, LogsType, ManifestType, WritersType, IteratorType, vars, disk,
     writers, history
<1> DEFINE c == bg.compaction
           n == db.nextFile
<1>0. /\ db.status = "open" /\ bg.edit = None /\ IsCompaction(c)
      /\ Numbers(c.version) \subseteq DOMAIN tables /\ n \in Nat
  BY DEF TypeInv, StatusInv, DbType, Dbs, Statuses, Resting, BgType, HeldInv, DoCompactionWork,
     Compacting
<1>2. PICK first \in SUBSET Survivors(c) :
        LET rest == Survivors(c) \ first
            numbers == {n + i : i \in {j \in {0, 1} : <<first, rest>>[j + 1] # {}}}
        IN /\ tables' = [m \in DOMAIN tables \cup numbers |->
                           IF m \in numbers THEN <<first, rest>>[m - n + 1] ELSE tables[m]]
           /\ db' = [db EXCEPT !.nextFile = @ + Cardinality(numbers), !.pending = @ \cup numbers]
           /\ bg' = [bg EXCEPT !.compaction.built = TRUE, !.compaction.outputs = numbers]
  BY DEF DoCompactionWork
<1> DEFINE rest == Survivors(c) \ first
           numbers == {n + i : i \in {j \in {0, 1} : <<first, rest>>[j + 1] # {}}}
           count == Cardinality(numbers)
<1>3. Contents(tables, c.upper \cup c.lower) \in EntrySets
  BY <1>0, InputsFinite DEF TypeInv
<1>4. first \in EntrySets /\ rest \in EntrySets
  <2>1. Survivors(c) \subseteq Contents(tables, c.upper \cup c.lower)
    BY DEF Survivors
  <2> QED BY <1>3, <2>1, FS_Subset DEF EntrySets, FiniteParts
<1>5. numbers \in FiniteParts(Nat) /\ numbers \subseteq {n, n + 1} /\ count \in Nat
  <2>1. numbers \subseteq n..n + 1
    BY <1>0
  <2>2. IsFiniteSet(n..n + 1)
    BY <1>0, FS_Interval
  <2>3. numbers \subseteq {n, n + 1}
    BY <1>0
  <2> HIDE DEF numbers
  <2>4. IsFiniteSet(numbers)
    BY <2>1, <2>2, FS_Subset
  <2>5. numbers \subseteq Nat
    BY <1>0, <2>1
  <2> QED BY <2>3, <2>4, <2>5, FS_CardinalityType DEF FiniteParts
<1>6. \A m \in numbers : <<first, rest>>[m - n + 1] \in EntrySets
  <2> TAKE m \in numbers
  <2>1. CASE m = n
    <3>1. m - n + 1 = 1
      BY <1>0, <2>1
    <3> HIDE DEF rest
    <3> QED BY <1>4, <3>1
  <2>2. CASE m = n + 1
    <3>1. m - n + 1 = 2
      BY <1>0, <2>2
    <3> HIDE DEF rest
    <3> QED BY <1>4, <3>1
  <2> HIDE DEF numbers, rest
  <2> QED BY <1>5, <2>1, <2>2
<1>7. tables' = [m \in DOMAIN tables \cup numbers |->
                   IF m \in numbers THEN <<first, rest>>[m - n + 1] ELSE tables[m]]
  BY <1>2
<1>8. db' = [db EXCEPT !.nextFile = @ + count, !.pending = @ \cup numbers]
  BY <1>2
<1>9. bg' = [bg EXCEPT !.compaction.built = TRUE, !.compaction.outputs = numbers]
  BY <1>2
<1> HIDE DEF numbers, rest, count
<1>10. TablesType' /\ DOMAIN tables' = DOMAIN tables \cup numbers
  BY <1>5, <1>6, <1>7 DEF TypeInv, TablesType, FiniteParts
<1>11. /\ db' \in Dbs /\ db'.status = db.status /\ db'.mem = db.mem /\ db'.imm = db.imm
       /\ db'.logfile = db.logfile /\ db'.version = db.version /\ db'.logNumber = db.logNumber
       /\ db'.nextFile = n + count /\ db'.lastSeq = db.lastSeq /\ db'.bgError = db.bgError
       /\ db'.pending = db.pending \cup numbers /\ db'.hot = db.hot
       /\ db'.snapshots = db.snapshots
  <2> DEFINE l == db.nextFile + count
             p == db.pending \cup numbers
  <2>0. db \in Dbs /\ db.pending \in SUBSET Nat
    BY DEF TypeInv, DbType, Dbs
  <2>1. l \in Nat /\ p \in SUBSET Nat
    <3>1. l \in Nat
      BY <1>0, <1>5
    <3>2. numbers \subseteq Nat
      BY <1>5 DEF FiniteParts
    <3> QED BY <2>0, <3>1, <3>2
  <2>2. db' = [db EXCEPT !.nextFile = l, !.pending = p]
    BY <1>8
  <2> HIDE DEF l, p
  <2>3. /\ db' \in Dbs /\ db'.status = db.status /\ db'.mem = db.mem /\ db'.imm = db.imm
        /\ db'.logfile = db.logfile /\ db'.version = db.version /\ db'.logNumber = db.logNumber
        /\ db'.nextFile = l /\ db'.lastSeq = db.lastSeq /\ db'.bgError = db.bgError
        /\ db'.pending = p /\ db'.hot = db.hot /\ db'.snapshots = db.snapshots
    BY <2>0, <2>1, <2>2 DEF Dbs
  <2> QED BY <2>3 DEF l, p
<1>12. DbType'
  BY <1>11 DEF TypeInv, DbType
<1> DEFINE new == [c EXCEPT !.built = TRUE, !.outputs = numbers]
<1>13. /\ IsCompaction(new) /\ new.version = c.version /\ new.outputs = numbers
  <2>1. new \in Compactions
    BY <1>0, <1>5 DEF IsCompaction, Compactions, FiniteParts
  <2>2. /\ new.version = c.version /\ new.outputs = numbers /\ new.upper = c.upper
        /\ new.lower = c.lower /\ new.level = c.level
    BY <1>0 DEF IsCompaction, Compactions
  <2> HIDE DEF new
  <2> QED BY <1>0, <1>5, <2>1, <2>2 DEF IsCompaction
<1>14. bg'.scheduled = bg.scheduled /\ bg'.edit = bg.edit /\ bg'.compaction = new
  <2>1. bg' = [bg EXCEPT !.compaction = new]
    BY <1>0, <1>9 DEF TypeInv, BgType, IsCompaction, Compactions
  <2> QED BY <2>1 DEF TypeInv, BgType
<1>14a. bg' = [scheduled |-> bg.scheduled, edit |-> bg.edit, compaction |-> new]
  BY <1>0, <1>9 DEF TypeInv, BgType, IsCompaction, Compactions
<1> HIDE DEF new
<1>15. BgType'
  BY <1>0, <1>13, <1>14, <1>14a DEF TypeInv, BgType, IsCompaction
<1>16. StatusInv'
  <2>1. db.logfile \in Nat /\ db.logfile < n
    BY <1>0 DEF TypeInv, StatusInv, DbType, Dbs
  <2>2. logs' = logs /\ queue' = queue /\ iterator' = iterator
    BY DEF DoCompactionWork, writers
  <2> QED BY <1>0, <1>5, <1>11, <1>14, <2>1, <2>2 DEF TypeInv, StatusInv
<1>17. HeldInv'
  <2>1. iterator' = iterator
    BY DEF DoCompactionWork
  <2> QED BY <1>0, <1>10, <1>11, <1>13, <1>14, <2>1 DEF TypeInv, HeldInv
<1>18. OthersType'
  <2>1. LeftBehind(tables, c.version, c.level, c.lower, Contents(tables, c.upper \cup c.lower),
                   c.snapshot) \subseteq Keys
    BY <1>3 DEF LeftBehind, ObsoleteDeletions, EntrySets, FiniteParts, Entries
  <2> QED BY <2>1 DEF TypeInv, OthersType, DoCompactionWork
<1> QED BY <1>0, <1>1, <1>2, <1>3, <1>4, <1>5, <1>6, <1>7, <1>8, <1>9, <1>10, <1>11, <1>12, <1>13,
           <1>14, <1>15, <1>16, <1>17, <1>18, <1>14a DEF TypeInv

(* DoCompactionWorkFails keeps the types. *)
LEMMA DoCompactionWorkFailsTypes ==
  ASSUME TypeInv, DoCompactionWorkFails
  PROVE  TypeInv'
<1>1. TablesType' /\ LogsType' /\ ManifestType' /\ IteratorType'
  BY DEF TypeInv, DoCompactionWorkFails, TablesType, LogsType, ManifestType, IteratorType, vars,
     disk, writers, history
<1>0. db.status = "open"
  BY DEF TypeInv, StatusInv, DbType, Dbs, Statuses, Resting, BgType, DoCompactionWorkFails,
     Compacting
<1>2. /\ db' \in Dbs /\ db'.status = db.status /\ db'.mem = db.mem /\ db'.imm = db.imm
      /\ db'.logfile = db.logfile /\ db'.version = db.version /\ db'.logNumber = db.logNumber
      /\ db'.nextFile = db.nextFile /\ db'.lastSeq = db.lastSeq /\ db'.bgError = TRUE
      /\ db'.pending = db.pending /\ db'.hot = db.hot /\ db'.snapshots = db.snapshots
  BY DEF TypeInv, DbType, Dbs, DoCompactionWorkFails
<1>3. DbType'
  BY <1>2 DEF TypeInv, DbType
<1>4. BgType' /\ bg'.edit = None /\ bg'.compaction = None /\ WritersType' /\ queue' = queue
  BY EndTypes DEF TypeInv, DoCompactionWorkFails
<1>5. StatusInv'
  BY <1>0, <1>2, <1>4 DEF TypeInv, StatusInv, DoCompactionWorkFails, disk
<1>6. HeldInv'
  BY <1>2, <1>4 DEF TypeInv, HeldInv, DoCompactionWorkFails, disk
<1>7. OthersType'
  BY DEF TypeInv, OthersType, DoCompactionWorkFails, Spend, history
<1> QED BY <1>0, <1>1, <1>2, <1>3, <1>4, <1>5, <1>6, <1>7 DEF TypeInv

(* InstallCompactionResults keeps the types. *)
LEMMA InstallCompactionResultsTypes ==
  ASSUME TypeInv, InstallCompactionResults
  PROVE  TypeInv'
<1>1. TablesType' /\ LogsType' /\ ManifestType' /\ DbType' /\ WritersType' /\ IteratorType' /\ OthersType'
  BY DEF TypeInv, InstallCompactionResults, TablesType, LogsType, ManifestType, DbType,
     WritersType, IteratorType, OthersType, vars, disk, writers, history
<1> DEFINE c == bg.compaction
<1>0. /\ db.status = "open" /\ bg.edit = None /\ c # None /\ IsCompaction(c) /\ c.built
      /\ c.outputs \subseteq DOMAIN tables
  BY DEF TypeInv, StatusInv, DbType, Dbs, Statuses, Resting, BgType, HeldInv,
     InstallCompactionResults, Compacting
<1> DEFINE adds == {<<c.level + 1, n>> : n \in c.outputs}
           deletes == {<<c.level, n>> : n \in c.upper} \cup {<<c.level + 1, n>> : n \in c.lower}
           edit == Edit("compact", adds, deletes, db.logNumber, db)
<1>2. bg' = [bg EXCEPT !.edit = edit]
  BY DEF InstallCompactionResults
<1>3. /\ IsEdit(edit) /\ edit.kind = "compact" /\ edit.log = db.logNumber
      /\ \A a \in edit.adds : a[2] \in c.outputs
  <2>0. /\ c.level \in Levels /\ c.level + 1 \in Levels
        /\ c.outputs \subseteq Nat /\ c.upper \subseteq Nat /\ c.lower \subseteq Nat
    BY <1>0, LevelsAssumption DEF IsCompaction, Compactions, Levels
  <2> DEFINE f == [n \in c.outputs |-> <<c.level + 1, n>>]
  <2>1. IsFiniteSet({f[n] : n \in c.outputs})
    <3> HIDE DEF f
    <3> QED BY <1>0, ValuesFinite DEF FiniteParts, IsCompaction
  <2>2. adds = {f[n] : n \in c.outputs}
    OBVIOUS
  <2>3. adds \subseteq Levels \X Nat /\ deletes \subseteq Levels \X Nat
    BY <2>0
  <2>4. \A a \in adds : a[2] \in c.outputs
    OBVIOUS
  <2>5. db.logNumber \in Nat /\ db.lastSeq \in Nat /\ db.nextFile \in Nat
    BY DEF TypeInv, DbType, Dbs
  <2>6. edit = Edit("compact", adds, deletes, db.logNumber, db)
    OBVIOUS
  <2> HIDE DEF adds, deletes, edit, f
  <2>7. edit \in Edits /\ edit.kind = "compact" /\ edit.log = db.logNumber /\ edit.adds = adds
    BY <2>3, <2>5, <2>6 DEF Edit, Edits
  <2> QED BY <2>1, <2>2, <2>3, <2>4, <2>7 DEF IsEdit, FiniteParts
<1> HIDE DEF edit
<1>4. bg'.scheduled = bg.scheduled /\ bg'.edit = edit /\ bg'.compaction = c /\ BgType'
  BY <1>0, <1>2, <1>3 DEF TypeInv, BgType, IsEdit
<1>5. StatusInv'
  BY <1>0, <1>3, <1>4 DEF TypeInv, StatusInv, InstallCompactionResults, disk, writers
<1>6. HeldInv'
  BY <1>0, <1>3, <1>4 DEF TypeInv, HeldInv, InstallCompactionResults, disk
<1> QED BY <1>0, <1>1, <1>2, <1>3, <1>4, <1>5, <1>6 DEF TypeInv

(* CleanupCompaction keeps the types. *)
LEMMA CleanupCompactionTypes ==
  ASSUME TypeInv, CleanupCompaction
  PROVE  TypeInv'
<1>1. ManifestType' /\ IteratorType' /\ OthersType'
  BY DEF TypeInv, CleanupCompaction, ManifestType, IteratorType, OthersType, vars, disk, writers,
     history
<1>0. /\ db.status = "open" /\ IsEdit(bg.edit) /\ bg.edit.kind = "compact"
      /\ bg.edit # None
  BY DEF TypeInv, StatusInv, DbType, Dbs, Statuses, Resting, BgType, CleanupCompaction, EditWritten
<1> DEFINE V == Applied(db.version, bg.edit)
           p == db.pending \ bg.compaction.outputs
<1>1a. V \in Files /\ Numbers(V) \subseteq Numbers(db.version) \cup {a[2] : a \in bg.edit.adds}
  BY <1>0, AppliedFiles DEF TypeInv, DbType, Dbs, IsEdit
<1>2. /\ db' \in Dbs /\ db'.status = db.status /\ db'.mem = db.mem /\ db'.imm = db.imm
      /\ db'.logfile = db.logfile /\ db'.version = V /\ db'.logNumber = bg.edit.log
      /\ db'.nextFile = db.nextFile /\ db'.lastSeq = db.lastSeq /\ db'.bgError = db.bgError
      /\ db'.pending = p /\ db'.hot = {} /\ db'.snapshots = db.snapshots
  <2> DEFINE log == bg.edit.log
  <2>1. db \in Dbs /\ log \in Nat /\ p \in SUBSET Nat
    BY <1>0 DEF IsEdit, Edits, TypeInv, DbType, Dbs
  <2>2. db' = [db EXCEPT !.version = V, !.logNumber = log, !.hot = {}, !.pending = p]
    <3>1. Installed(db).pending = db.pending
      BY <2>1 DEF Installed, Dbs
    <3> QED BY <3>1 DEF CleanupCompaction, Installed
  <2> HIDE DEF log, V, p
  <2>3. /\ db' \in Dbs /\ db'.status = db.status /\ db'.mem = db.mem /\ db'.imm = db.imm
        /\ db'.logfile = db.logfile /\ db'.version = V /\ db'.logNumber = log
        /\ db'.nextFile = db.nextFile /\ db'.lastSeq = db.lastSeq /\ db'.bgError = db.bgError
        /\ db'.pending = p /\ db'.hot = {} /\ db'.snapshots = db.snapshots
    BY <1>1a, <2>1, <2>2 DEF Dbs
  <2> QED BY <2>3 DEF log
<1> HIDE DEF V, p
<1>3. DbType'
  BY <1>2 DEF TypeInv, DbType
<1>4. BgType' /\ bg'.edit = None /\ bg'.compaction = None /\ WritersType' /\ queue' = queue
  BY EndTypes DEF TypeInv, CleanupCompaction
<1>5. /\ TablesType' /\ LogsType'
      /\ DOMAIN tables \cap Live(db', None) \subseteq DOMAIN tables'
      /\ \A n \in DOMAIN logs : n >= db'.logNumber => n \in DOMAIN logs'
  BY DeletedTypes DEF TypeInv, CleanupCompaction
<1>6. StatusInv'
  <2>1. db.logfile \in Nat /\ bg.edit.log \in Nat /\ bg.edit.log <= db.logfile
    BY <1>0 DEF TypeInv, DbType, Dbs, StatusInv, IsEdit, Edits
  <2>2. iterator' = iterator
    BY DEF CleanupCompaction
  <2> QED BY <1>0, <1>2, <1>4, <1>5, <2>1, <2>2 DEF TypeInv, StatusInv
<1>7. HeldInv'
  <2>1. iterator' = iterator
    BY DEF CleanupCompaction
  <2>2. Numbers(V) \subseteq DOMAIN tables
    BY <1>0, <1>1a DEF TypeInv, HeldInv
  <2>3. /\ Numbers(V) \subseteq Live(db', None)
        /\ iterator # None => Numbers(iterator.version) \subseteq Live(db', None)
    BY <1>2 DEF Live
  <2> QED BY <1>2, <1>4, <1>5, <2>1, <2>2, <2>3 DEF TypeInv, HeldInv
<1> QED BY <1>0, <1>1, <1>2, <1>3, <1>4, <1>5, <1>6, <1>7, <1>1a DEF TypeInv

(* A closed database. *)
LEMMA ClosedTypes ==
  /\ Closed \in Dbs /\ Closed.status = "closed" /\ Closed.hot = {} /\ Closed.snapshots = {}
  /\ NoTables \in Files /\ Numbers(NoTables) = {} /\ Closed.version = NoTables
<1>1. {} \in EntrySets /\ {} \in FiniteParts(Nat)
  BY FS_EmptySet DEF EntrySets, FiniteParts
<1>2. NoTables \in Files /\ Numbers(NoTables) = {}
  BY <1>1 DEF NoTables, Files, Numbers
<1> QED BY <1>1, <1>2 DEF Closed, Dbs, Statuses

(* The whole of a log. *)
LEMMA WholeLog ==
  ASSUME LogsType, NEW n \in DOMAIN logs
  PROVE  LogEntries(logs[n]) \in EntrySets
<1>1. logs[n].records \in Seq(EntrySets)
  BY DEF LogsType, Logs
<1>2. Len(logs[n].records) \in 0..Len(logs[n].records)
  BY <1>1
<1> QED BY <1>1, <1>2, LogEntriesFinite DEF LogEntries

(* The logs recovery replays, in order. *)
LEMMA OrderOfLogs ==
  ASSUME LogsType, NEW order, order = InOrder(RecoverableLogs(logs)),
         NEW full, full = {i \in DOMAIN order : LogEntries(logs[order[i]]) # {}}
  PROVE  /\ order \in Seq(DOMAIN logs) /\ order \in Seq(Nat)
         /\ full \subseteq 1..Len(order) /\ full \in FiniteParts(Nat) /\ Len(order) \in Nat
         /\ \A i, j \in 1..Len(order) : i < j => order[i] < order[j]
         /\ \A i \in 1..Len(order) : order[i] \in RecoverableLogs(logs)
         /\ \A n \in RecoverableLogs(logs) : \E i \in 1..Len(order) : order[i] = n
<1> DEFINE N == RecoverableLogs(logs)
<1>1. N \in FiniteParts(Nat) /\ N \subseteq DOMAIN logs /\ DOMAIN logs \subseteq Nat
  BY FS_Subset DEF LogsType, FiniteParts, RecoverableLogs
<1> HIDE DEF N
<1>2. /\ order \in Seq(N)
      /\ \A i, j \in 1..Len(order) : i < j => order[i] < order[j]
      /\ \A n \in N : \E i \in 1..Len(order) : order[i] = n
  BY <1>1, InOrderLists DEF N
<1>3. /\ order \in Seq(DOMAIN logs) /\ order \in Seq(Nat) /\ Len(order) \in Nat
      /\ full \subseteq 1..Len(order) /\ \A i \in 1..Len(order) : order[i] \in N
  BY <1>1, <1>2
<1>4. IsFiniteSet(1..Len(order)) /\ 1..Len(order) \subseteq Nat
  BY <1>3, FS_Interval
<1>5. full \in FiniteParts(Nat)
  BY <1>3, <1>4, FS_Subset DEF FiniteParts
<1> QED BY <1>2, <1>3, <1>5 DEF N

(* WriteManifest keeps the types. *)
LEMMA WriteManifestTypes ==
  ASSUME TypeInv, WriteManifest
  PROVE  TypeInv'
<1>1. TablesType' /\ LogsType' /\ DbType' /\ WritersType' /\ IteratorType'
  BY DEF TypeInv, WriteManifest, TablesType, LogsType, DbType, WritersType, IteratorType, vars,
     disk, writers, history
<1>0. bg.edit # None /\ IsEdit(bg.edit) /\ bg.edit.state = "new"
  BY DEF TypeInv, BgType, WriteManifest
<1> DEFINE edit == [bg.edit EXCEPT !.state = "written"]
<1>2. bg' = [bg EXCEPT !.edit = edit]
  BY DEF WriteManifest, TypeInv, BgType
<1>3. /\ IsEdit(edit) /\ edit.kind = bg.edit.kind /\ edit.adds = bg.edit.adds
      /\ edit.log = bg.edit.log /\ edit # None
  BY <1>0, NoneAssumption DEF IsEdit, Edits
<1> HIDE DEF edit
<1>4. bg'.scheduled = bg.scheduled /\ bg'.edit = edit /\ bg'.compaction = bg.compaction /\ BgType'
  BY <1>0, <1>2, <1>3 DEF TypeInv, BgType, IsEdit
<1>5. ManifestType'
  <2>1. CASE AppendEdit
    <3> DEFINE V == Applied(manifest.files, bg.edit)
               log == bg.edit.log
               s == bg.edit.lastSeq
               next == bg.edit.next
    <3>1. V \in Files
      BY <1>0, AppliedFiles DEF TypeInv, ManifestType, IsEdit
    <3>2. log \in Nat /\ s \in Nat /\ next \in Nat
      BY <1>0 DEF IsEdit, Edits
    <3>3. manifest' = [files |-> V, log |-> log, lastSeq |-> s, next |-> next]
      BY <2>1 DEF AppendEdit
    <3> HIDE DEF V, log, s, next
    <3> QED BY <3>1, <3>2, <3>3 DEF ManifestType
  <2>2. CASE manifest' = manifest
    BY <2>2 DEF TypeInv, ManifestType
  <2> QED BY <2>1, <2>2 DEF WriteManifest
<1>6. StatusInv'
  <2>1. UNCHANGED <<db, logs, queue, iterator>>
    BY DEF WriteManifest, writers
  <2> QED BY <1>0, <1>3, <1>4, <2>1, NoneAssumption DEF TypeInv, StatusInv, Resting
<1>7. HeldInv'
  BY <1>0, <1>3, <1>4 DEF TypeInv, HeldInv, WriteManifest
<1>8. OthersType'
  BY DEF TypeInv, OthersType, WriteManifest, AppendEdit, Spend
<1> QED BY <1>0, <1>1, <1>2, <1>3, <1>4, <1>5, <1>6, <1>7, <1>8 DEF TypeInv

(* WriteManifestFails keeps the types. *)
LEMMA WriteManifestFailsTypes ==
  ASSUME TypeInv, WriteManifestFails
  PROVE  TypeInv'
<1>1. TablesType' /\ LogsType' /\ DbType' /\ WritersType' /\ IteratorType'
  BY DEF TypeInv, WriteManifestFails, TablesType, LogsType, DbType, WritersType, IteratorType,
     vars, disk, writers, history
<1>0. bg.edit # None /\ IsEdit(bg.edit) /\ bg.edit.state = "new"
  BY DEF TypeInv, BgType, WriteManifestFails
<1> DEFINE edit == [bg.edit EXCEPT !.state = "failed"]
<1>2. bg' = [bg EXCEPT !.edit = edit]
  BY DEF WriteManifestFails, TypeInv, BgType
<1>3. /\ IsEdit(edit) /\ edit.kind = bg.edit.kind /\ edit.adds = bg.edit.adds
      /\ edit.log = bg.edit.log /\ edit # None
  BY <1>0, NoneAssumption DEF IsEdit, Edits
<1> HIDE DEF edit
<1>4. bg'.scheduled = bg.scheduled /\ bg'.edit = edit /\ bg'.compaction = bg.compaction /\ BgType'
  BY <1>0, <1>2, <1>3 DEF TypeInv, BgType, IsEdit
<1>5. ManifestType'
  <2>1. CASE AppendEdit
    <3> DEFINE V == Applied(manifest.files, bg.edit)
               log == bg.edit.log
               s == bg.edit.lastSeq
               next == bg.edit.next
    <3>1. V \in Files
      BY <1>0, AppliedFiles DEF TypeInv, ManifestType, IsEdit
    <3>2. log \in Nat /\ s \in Nat /\ next \in Nat
      BY <1>0 DEF IsEdit, Edits
    <3>3. manifest' = [files |-> V, log |-> log, lastSeq |-> s, next |-> next]
      BY <2>1 DEF AppendEdit
    <3> HIDE DEF V, log, s, next
    <3> QED BY <3>1, <3>2, <3>3 DEF ManifestType
  <2>2. CASE manifest' = manifest
    BY <2>2 DEF TypeInv, ManifestType
  <2> QED BY <2>1, <2>2 DEF WriteManifestFails
<1>6. StatusInv'
  <2>1. UNCHANGED <<db, logs, queue, iterator>>
    BY DEF WriteManifestFails, writers
  <2> QED BY <1>0, <1>3, <1>4, <2>1, NoneAssumption DEF TypeInv, StatusInv, Resting
<1>7. HeldInv'
  BY <1>0, <1>3, <1>4 DEF TypeInv, HeldInv, WriteManifestFails
<1>8. OthersType'
  BY DEF TypeInv, OthersType, WriteManifestFails, AppendEdit, Spend
<1> QED BY <1>0, <1>1, <1>2, <1>3, <1>4, <1>5, <1>6, <1>7, <1>8 DEF TypeInv

(* EditRefused keeps the types. *)
LEMMA EditRefusedTypes ==
  ASSUME TypeInv, EditRefused
  PROVE  TypeInv'
<1>1. TablesType' /\ LogsType' /\ ManifestType' /\ IteratorType' /\ OthersType'
  BY DEF TypeInv, EditRefused, TablesType, LogsType, ManifestType, IteratorType, OthersType, vars,
     disk, writers, history
<1>0. db.status = "open" /\ bg.edit # None
  BY DEF TypeInv, StatusInv, DbType, Dbs, Statuses, Resting, BgType, EditRefused
<1> DEFINE p == IF bg.edit.kind = "compact" THEN {} ELSE db.pending
<1>2. /\ db' \in Dbs /\ db'.status = db.status /\ db'.mem = db.mem /\ db'.imm = db.imm
      /\ db'.logfile = db.logfile /\ db'.version = db.version /\ db'.logNumber = db.logNumber
      /\ db'.nextFile = db.nextFile /\ db'.lastSeq = db.lastSeq /\ db'.bgError = TRUE
      /\ db'.pending = p /\ db'.hot = db.hot /\ db'.snapshots = db.snapshots
  <2>1. db \in Dbs /\ p \in SUBSET Nat
    BY DEF TypeInv, DbType, Dbs
  <2>2. db' = [db EXCEPT !.bgError = TRUE, !.pending = p]
    BY DEF EditRefused
  <2> HIDE DEF p
  <2> QED BY <2>1, <2>2 DEF Dbs
<1>3. DbType'
  BY <1>2 DEF TypeInv, DbType
<1>4. /\ BgType' /\ bg'.edit = None /\ WritersType' /\ queue' = queue
      /\ bg'.compaction = None \/ (bg'.compaction = bg.compaction /\ bg.edit.kind = "flush")
  <2>1. CASE bg.edit.kind = "flush"
    BY <2>1, GoesOnTypes DEF TypeInv, EditRefused
  <2>2. CASE bg.edit.kind # "flush"
    BY <2>2, EndTypes DEF TypeInv, EditRefused
  <2> QED BY <2>1, <2>2
<1>5. StatusInv'
  BY <1>0, <1>2, <1>4 DEF TypeInv, StatusInv, EditRefused, disk
<1>6. HeldInv'
  BY <1>2, <1>4 DEF TypeInv, HeldInv, EditRefused, disk
<1> QED BY <1>0, <1>1, <1>2, <1>3, <1>4, <1>5, <1>6 DEF TypeInv

(* AskCompaction keeps the types. *)
LEMMA AskCompactionTypes ==
  ASSUME TypeInv, NEW level \in 0..MaxLevel - 1, NEW n \in db.version[level], AskCompaction(level,
         n)
  PROVE  TypeInv'
<1>1. TablesType' /\ LogsType' /\ ManifestType' /\ WritersType' /\ IteratorType'
  BY DEF TypeInv, AskCompaction, TablesType, LogsType, ManifestType, WritersType, IteratorType,
     vars, disk, writers, history
<1> DEFINE h == {<<level, n>>}
<1>2. /\ db.status = "open" /\ db' \in Dbs /\ db'.status = db.status /\ db'.mem = db.mem
      /\ db'.imm = db.imm /\ db'.logfile = db.logfile /\ db'.version = db.version
      /\ db'.logNumber = db.logNumber /\ db'.nextFile = db.nextFile /\ db'.lastSeq = db.lastSeq
      /\ db'.bgError = db.bgError /\ db'.pending = db.pending /\ db'.hot = h
      /\ db'.snapshots = db.snapshots
  <2>1. db \in Dbs /\ h \in SUBSET (Levels \X Nat)
    <3>1. db \in Dbs /\ level \in Levels /\ db.version \in Files
      BY LevelsAssumption DEF TypeInv, DbType, Dbs, AskCompaction, Levels
    <3>2. n \in Nat
      BY <3>1 DEF Files, FiniteParts
    <3> QED BY <3>1, <3>2
  <2>2. db' = [db EXCEPT !.hot = h]
    BY DEF AskCompaction
  <2> HIDE DEF h
  <2>3. /\ db' \in Dbs /\ db'.status = db.status /\ db'.mem = db.mem /\ db'.imm = db.imm
      /\ db'.logfile = db.logfile /\ db'.version = db.version /\ db'.logNumber = db.logNumber
      /\ db'.nextFile = db.nextFile /\ db'.lastSeq = db.lastSeq /\ db'.bgError = db.bgError
      /\ db'.pending = db.pending /\ db'.hot = h /\ db'.snapshots = db.snapshots
    BY <2>1, <2>2 DEF Dbs
  <2> QED BY <2>3 DEF AskCompaction
<1>3. DbType'
  BY <1>2 DEF TypeInv, DbType, AskCompaction
<1>4. bg'.edit = bg.edit /\ bg'.compaction = bg.compaction /\ BgType'
  <2> DEFINE b == bg.scheduled \/ Schedules(db')
  <2>1. b \in BOOLEAN /\ bg' = [bg EXCEPT !.scheduled = b]
    BY DEF AskCompaction, TypeInv, BgType, Schedules
  <2> HIDE DEF b
  <2> QED BY <2>1 DEF TypeInv, BgType
<1>5. StatusInv'
  BY <1>2, <1>4 DEF TypeInv, StatusInv, AskCompaction, disk, writers
<1>6. HeldInv'
  BY <1>2, <1>4 DEF TypeInv, HeldInv, AskCompaction, disk
<1>7. OthersType'
  BY DEF TypeInv, OthersType, AskCompaction, Spend, history
<1> QED BY <1>1, <1>2, <1>3, <1>4, <1>5, <1>6, <1>7 DEF TypeInv

(* NewIterator keeps the types. *)
LEMMA NewIteratorTypes ==
  ASSUME TypeInv, NEW seq \in {db.lastSeq} \cup db.snapshots, NewIterator(seq)
  PROVE  TypeInv'
<1>1. TablesType' /\ LogsType' /\ ManifestType' /\ DbType' /\ WritersType' /\ BgType'
  BY DEF TypeInv, NewIterator, TablesType, LogsType, ManifestType, DbType, WritersType, BgType,
     vars, disk, writers, history
<1> DEFINE it == [seq |-> seq, mem |-> db.mem, imm |-> db.imm, version |-> db.version]
<1>2. /\ db.status = "open" /\ iterator' = it
  BY DEF NewIterator
<1>3. db.mem \in EntrySets /\ db.imm \in EntrySets /\ db.version \in Files /\ seq \in Nat
  BY DEF TypeInv, DbType, Dbs
<1>4. it \in Iterators
  BY <1>3 DEF Iterators, EntrySets, FiniteParts, Files, Versions
<1>5. IteratorType'
  BY <1>2, <1>3, <1>4 DEF IteratorType
<1>6. StatusInv'
  BY <1>2 DEF TypeInv, StatusInv, NewIterator, disk, writers
<1>7. HeldInv'
  BY <1>2 DEF TypeInv, HeldInv, NewIterator, disk
<1>8. OthersType'
  BY DEF TypeInv, OthersType, NewIterator, Spend, history
<1> QED BY <1>1, <1>2, <1>3, <1>4, <1>5, <1>6, <1>7, <1>8 DEF TypeInv

(* ReleaseIterator keeps the types. *)
LEMMA ReleaseIteratorTypes ==
  ASSUME TypeInv, ReleaseIterator
  PROVE  TypeInv'
<1>1. TablesType' /\ LogsType' /\ ManifestType' /\ DbType' /\ WritersType' /\ BgType' /\ OthersType'
  BY DEF TypeInv, ReleaseIterator, TablesType, LogsType, ManifestType, DbType, WritersType,
     BgType, OthersType, vars, disk, writers, history
<1>2. iterator' = None
  BY DEF ReleaseIterator
<1>3. IteratorType'
  BY <1>2 DEF IteratorType
<1>4. StatusInv'
  BY <1>2 DEF TypeInv, StatusInv, ReleaseIterator, disk, writers
<1>5. HeldInv'
  BY <1>2 DEF TypeInv, HeldInv, ReleaseIterator, disk
<1> QED BY <1>1, <1>2, <1>3, <1>4, <1>5 DEF TypeInv

(* GetSnapshot keeps the types. *)
LEMMA GetSnapshotTypes ==
  ASSUME TypeInv, GetSnapshot
  PROVE  TypeInv'
<1>1. TablesType' /\ LogsType' /\ ManifestType' /\ WritersType' /\ BgType' /\ IteratorType'
  BY DEF TypeInv, GetSnapshot, TablesType, LogsType, ManifestType, WritersType, BgType,
     IteratorType, vars, disk, writers, history
<1> DEFINE s == {db.lastSeq}
<1>2. /\ db.status = "open" /\ db' \in Dbs /\ db'.status = db.status /\ db'.mem = db.mem
      /\ db'.imm = db.imm /\ db'.logfile = db.logfile /\ db'.version = db.version
      /\ db'.logNumber = db.logNumber /\ db'.nextFile = db.nextFile /\ db'.lastSeq = db.lastSeq
      /\ db'.bgError = db.bgError /\ db'.pending = db.pending /\ db'.hot = db.hot
      /\ db'.snapshots = s
  <2>1. db \in Dbs /\ s \in SUBSET Nat
    BY DEF TypeInv, DbType, Dbs
  <2>2. db' = [db EXCEPT !.snapshots = s]
    BY DEF GetSnapshot
  <2> HIDE DEF s
  <2>3. /\ db' \in Dbs /\ db'.status = db.status /\ db'.mem = db.mem /\ db'.imm = db.imm
      /\ db'.logfile = db.logfile /\ db'.version = db.version /\ db'.logNumber = db.logNumber
      /\ db'.nextFile = db.nextFile /\ db'.lastSeq = db.lastSeq /\ db'.bgError = db.bgError
      /\ db'.pending = db.pending /\ db'.hot = db.hot /\ db'.snapshots = s
    BY <2>1, <2>2 DEF Dbs
  <2> QED BY <2>3 DEF GetSnapshot
<1>3. DbType'
  BY <1>2 DEF TypeInv, DbType
<1>4. StatusInv'
  BY <1>2 DEF TypeInv, StatusInv, GetSnapshot, disk, writers
<1>5. HeldInv'
  BY <1>2 DEF TypeInv, HeldInv, GetSnapshot, disk
<1>6. OthersType'
  BY DEF TypeInv, OthersType, GetSnapshot, Spend, history
<1> QED BY <1>1, <1>2, <1>3, <1>4, <1>5, <1>6 DEF TypeInv

(* ReleaseSnapshot keeps the types. *)
LEMMA ReleaseSnapshotTypes ==
  ASSUME TypeInv, ReleaseSnapshot
  PROVE  TypeInv'
<1>1. TablesType' /\ LogsType' /\ ManifestType' /\ WritersType' /\ BgType' /\ IteratorType' /\ OthersType'
  BY DEF TypeInv, ReleaseSnapshot, TablesType, LogsType, ManifestType, WritersType, BgType,
     IteratorType, OthersType, vars, disk, writers, history
<1>2. /\ db.status # "closed" /\ db' \in Dbs /\ db'.status = db.status /\ db'.mem = db.mem
      /\ db'.imm = db.imm /\ db'.logfile = db.logfile /\ db'.version = db.version
      /\ db'.logNumber = db.logNumber /\ db'.nextFile = db.nextFile /\ db'.lastSeq = db.lastSeq
      /\ db'.bgError = db.bgError /\ db'.pending = db.pending /\ db'.hot = db.hot
      /\ db'.snapshots = {}
  BY DEF TypeInv, StatusInv, Closed, DbType, Dbs, ReleaseSnapshot
<1>3. DbType'
  BY <1>2 DEF TypeInv, DbType
<1>4. StatusInv'
  BY <1>2 DEF TypeInv, StatusInv, ReleaseSnapshot, disk, writers
<1>5. HeldInv'
  BY <1>2 DEF TypeInv, HeldInv, ReleaseSnapshot, disk
<1> QED BY <1>1, <1>2, <1>3, <1>4, <1>5 DEF TypeInv

(* Crash keeps the types. *)
LEMMA CrashTypes ==
  ASSUME TypeInv, Crash
  PROVE  TypeInv'
<1>1. TablesType' /\ ManifestType'
  BY DEF TypeInv, Crash, TablesType, ManifestType, vars, disk, writers, history
<1>2. db' = Closed /\ bg' = Resting /\ iterator' = None /\ queue' = <<>> /\ stage' = "front" /\ group' = 0
  BY DEF Crash
<1>3. DbType'
  BY <1>2, ClosedTypes DEF DbType
<1>4. BgType' /\ bg'.edit = None /\ bg'.compaction = None
  BY <1>2 DEF BgType, Resting
<1>5. WritersType'
  BY <1>2, EmptySeq DEF WritersType, Writing
<1>6. IteratorType'
  BY <1>2 DEF IteratorType
<1>7. StatusInv'
  BY <1>2, ClosedTypes DEF StatusInv
<1>8. HeldInv'
  BY <1>2, <1>4, ClosedTypes DEF HeldInv
<1>9. OthersType'
  BY DEF TypeInv, OthersType, Crash, Spend
<1>10. LogsType'
  <2>1. PICK lengths \in Lengths(DOMAIN logs) :
          /\ \A n \in DOMAIN logs : lengths[n] \in Survivals(logs[n])
          /\ logs' = [n \in DOMAIN logs |->
                        [records |-> SubSeq(logs[n].records, 1, lengths[n]),
                         synced |-> lengths[n], good |-> lengths[n], torn |-> FALSE]]
    BY DEF Crash
  <2>2. ASSUME NEW n \in DOMAIN logs
        PROVE  /\ logs'[n] \in Logs
               /\ {logs'[n].synced, logs'[n].good} \subseteq 0..Len(logs'[n].records)
    <3>1. logs[n].records \in Seq(EntrySets) /\ lengths[n] \in 0..Len(logs[n].records)
      BY <2>1 DEF TypeInv, LogsType, Logs, Survivals
    <3> DEFINE r == SubSeq(logs[n].records, 1, lengths[n])
               l == lengths[n]
    <3>2. r \in Seq(EntrySets) /\ Len(r) = l /\ l \in Nat
      BY <3>1, SubSeqProperties
    <3>3. logs'[n] = [records |-> r, synced |-> l, good |-> l, torn |-> FALSE]
      BY <2>1
    <3> HIDE DEF r, l
    <3> QED BY <3>2, <3>3 DEF Logs
  <2>3. DOMAIN logs' = DOMAIN logs /\ logs' = [n \in DOMAIN logs |-> logs'[n]]
    BY <2>1
  <2> QED BY <2>2, <2>3 DEF TypeInv, LogsType
<1> QED BY <1>1, <1>2, <1>3, <1>4, <1>5, <1>6, <1>7, <1>8, <1>9, <1>10 DEF TypeInv

(* Recover keeps the types. *)
LEMMA RecoverTypes ==
  ASSUME TypeInv, Recover
  PROVE  TypeInv'
<1>1. ManifestType' /\ WritersType' /\ IteratorType' /\ OthersType'
  BY DEF TypeInv, Recover, ManifestType, WritersType, IteratorType, OthersType, vars, disk,
     writers, history
<1> DEFINE order == InOrder(RecoverableLogs(logs))
           next == NextNumbers(order)
           full == {i \in DOMAIN order : LogEntries(logs[order[i]]) # {}}
           new == next[Len(order)]
           last == LastSequence(UNION {LogEntries(logs[order[i]]) : i \in full})
           d == [Closed EXCEPT !.status = "opening", !.version = manifest.files,
                               !.logNumber = manifest.log, !.logfile = new, !.nextFile = new + 1,
                               !.lastSeq = last]
           adds == {<<0, next[i - 1]>> : i \in full}
<1>0. /\ order \in Seq(DOMAIN logs) /\ order \in Seq(Nat)
      /\ full \subseteq 1..Len(order) /\ full \in FiniteParts(Nat) /\ Len(order) \in Nat
  BY OrderOfLogs DEF TypeInv
<1>2. /\ next \in [0..Len(order) -> Nat] /\ new \in Nat
      /\ \A i \in 0..Len(order) : next[i] <= new
      /\ \A i \in full : i - 1 \in 0..Len(order) /\ next[i - 1] \in Nat
  <2>1. manifest.next \in Nat
    BY DEF TypeInv, ManifestType
  <2> HIDE DEF order, full
  <2>2. /\ next \in [0..Len(order) -> Nat]
        /\ \A i, j \in 0..Len(order) : i <= j => next[i] <= next[j]
    BY <1>0, <2>1, NextNumbersRise
  <2>3. Len(order) \in 0..Len(order) /\ \A i \in full : i - 1 \in 0..Len(order)
    <3>1. \A i \in full : i \in 1..Len(order)
      BY <1>0
    <3> QED BY <1>0, <3>1
  <2> HIDE DEF next
  <2>4. new \in Nat /\ \A i \in 0..Len(order) : next[i] <= new
    BY <2>2, <2>3
  <2>5. \A i \in full : next[i - 1] \in Nat
    BY <2>2, <2>3
  <2> QED BY <2>2, <2>3, <2>4, <2>5
<1>3. \A i \in full : LogEntries(logs[order[i]]) \in EntrySets
  <2> TAKE i \in full
  <2>1. order[i] \in DOMAIN logs
    BY <1>0
  <2> HIDE DEF order, full
  <2> QED BY <2>1, WholeLog DEF TypeInv
<1>4. last \in Nat
  <2>1. UNION {LogEntries(logs[order[i]]) : i \in full} \in EntrySets
    <3> DEFINE f == [i \in full |-> LogEntries(logs[order[i]])]
    <3>1. \A i \in full : f[i] \in EntrySets
      BY <1>3
    <3>2. {LogEntries(logs[order[i]]) : i \in full} = {f[i] : i \in full}
      OBVIOUS
    <3> HIDE DEF f, full
    <3>3. IsFiniteSet({f[i] : i \in full})
      BY <1>0, ValuesFinite DEF FiniteParts
    <3>4. IsFiniteSet(UNION {f[i] : i \in full})
      BY <3>1, <3>3, FS_UNION DEF EntrySets, FiniteParts
    <3>5. UNION {f[i] : i \in full} \subseteq Entries
      BY <3>1 DEF EntrySets, FiniteParts
    <3> QED BY <3>2, <3>4, <3>5 DEF EntrySets, FiniteParts
  <2>2. manifest.lastSeq \in Nat
    BY DEF TypeInv, ManifestType
  <2> HIDE DEF full, order
  <2> QED BY <2>1, <2>2, LastSequenceGreatest
<1>5. /\ db.status = "closed"
      /\ Numbers(manifest.files) \subseteq DOMAIN tables
      /\ tables' = [n \in DOMAIN tables \cup {next[i - 1] : i \in full} |->
                       IF \E i \in full : n = next[i - 1]
                         THEN LogEntries(logs[order[CHOOSE i \in full : n = next[i - 1]]])
                         ELSE tables[n]]
      /\ logs' = With(logs, new, EmptyLog)
      /\ db' = d
      /\ bg' = [Resting EXCEPT !.edit = Edit("open", adds, {}, new, d)]
      /\ UNCHANGED <<writers, iterator>>
  BY DEF Recover
<1>6. adds \in FiniteParts(Levels \X Nat) /\ \A a \in adds : \E i \in full : a[2] = next[i - 1]
  <2> DEFINE f == [i \in full |-> <<0, next[i - 1]>>]
  <2>1. 0 \in Levels
    BY LevelsAssumption DEF Levels
  <2> HIDE DEF full, next
  <2>2. \A i \in full : f[i] \in Levels \X Nat /\ f[i][2] = next[i - 1]
    BY <1>2, <2>1
  <2>3. adds = {f[i] : i \in full}
    OBVIOUS
  <2> HIDE DEF f, adds
  <2>4. IsFiniteSet(adds)
    BY <1>0, <2>3, ValuesFinite DEF FiniteParts
  <2> QED BY <2>2, <2>3, <2>4 DEF FiniteParts
<1> HIDE DEF order, next, full, new, last
<1>7. /\ db' \in Dbs /\ db'.status = "opening" /\ db'.version = manifest.files
      /\ db'.logfile = new /\ db'.nextFile = new + 1 /\ db'.hot = {} /\ db'.snapshots = {}
      /\ db'.logNumber = manifest.log /\ db'.lastSeq = last
  <2> DEFINE files == manifest.files
             log == manifest.log
             l == new + 1
  <2>1. files \in Files /\ log \in Nat /\ l \in Nat
    BY <1>2 DEF TypeInv, ManifestType
  <2>2. Closed \in Dbs /\ Closed.hot = {} /\ Closed.snapshots = {}
    BY ClosedTypes
  <2>3. db' = [Closed EXCEPT !.status = "opening", !.version = files, !.logNumber = log,
                             !.logfile = new, !.nextFile = l, !.lastSeq = last]
    BY <1>5
  <2> HIDE DEF files, log, l
  <2>4. /\ db' \in Dbs /\ db'.status = "opening" /\ db'.version = files /\ db'.logfile = new
        /\ db'.nextFile = l /\ db'.hot = {} /\ db'.snapshots = {} /\ db'.logNumber = log
        /\ db'.lastSeq = last
    BY <1>2, <1>4, <2>1, <2>2, <2>3 DEF Dbs, Statuses
  <2> QED BY <2>4 DEF files, log, l
<1>8. DbType'
  BY <1>7 DEF DbType
<1>9. LogsType' /\ DOMAIN logs' = DOMAIN logs \cup {new}
  BY <1>2, <1>5, WithLogs DEF TypeInv
<1>10. TablesType' /\ DOMAIN tables' = DOMAIN tables \cup {next[i - 1] : i \in full}
  <2> DEFINE N == {next[i - 1] : i \in full}
  <2>1. N \subseteq Nat
    BY <1>2
  <2>2. DOMAIN tables' = DOMAIN tables \cup N /\ tables' = [n \in DOMAIN tables' |-> tables'[n]]
    BY <1>5
  <2>3. ASSUME NEW n \in DOMAIN tables' PROVE tables'[n] \in EntrySets
    <3>1. CASE \E i \in full : n = next[i - 1]
      <4> DEFINE i == CHOOSE i \in full : n = next[i - 1]
      <4>1. i \in full
        BY <3>1
      <4>2. tables'[n] = LogEntries(logs[order[i]])
        BY <1>5, <2>2, <2>3, <3>1
      <4> HIDE DEF i
      <4> QED BY <1>3, <4>1, <4>2
    <3>2. CASE ~\E i \in full : n = next[i - 1]
      <4>1. n \in DOMAIN tables /\ tables'[n] = tables[n]
        BY <1>5, <2>2, <2>3, <3>2
      <4> QED BY <4>1 DEF TypeInv, TablesType
    <3> QED BY <3>1, <3>2
  <2> HIDE DEF N
  <2>4. TablesType'
    BY <2>1, <2>2, <2>3 DEF TypeInv, TablesType
  <2> QED BY <2>2, <2>4 DEF N
<1> DEFINE edit == Edit("open", adds, {}, new, d)
<1>11. /\ IsEdit(edit) /\ edit.kind = "open" /\ edit.log = new /\ edit.adds = adds /\ edit # None
  <2>1. d.lastSeq \in Nat /\ d.nextFile \in Nat
    BY <1>5, <1>7 DEF Dbs
  <2>2. adds \in SUBSET (Levels \X Nat)
    BY <1>6 DEF FiniteParts
  <2> HIDE DEF d, adds
  <2>3. edit \in Edits /\ edit.kind = "open" /\ edit.log = new /\ edit.adds = adds
    BY <1>2, <2>1, <2>2 DEF Edit, Edits
  <2> HIDE DEF edit
  <2> QED BY <1>6, <2>3, NoneAssumption DEF IsEdit
<1> HIDE DEF edit
<1>12. bg'.edit = edit /\ bg'.compaction = None /\ BgType'
  <2>1. bg' = [Resting EXCEPT !.edit = edit]
    BY <1>5 DEF edit
  <2> QED BY <1>11, <2>1 DEF Resting, BgType, IsEdit
<1>13. StatusInv'
  BY <1>2, <1>5, <1>7, <1>9, <1>11, <1>12 DEF TypeInv, StatusInv, writers
<1>14. HeldInv'
  <2>1. iterator' = None
    BY <1>5 DEF TypeInv, StatusInv
  <2>2. \A a \in edit.adds : a[2] \in DOMAIN tables'
    BY <1>6, <1>10, <1>11
  <2> HIDE DEF d, adds
  <2> QED BY <1>5, <1>7, <1>10, <1>12, <2>1, <2>2 DEF HeldInv
<1> QED BY <1>0, <1>1, <1>2, <1>3, <1>4, <1>5, <1>6, <1>7, <1>8, <1>9, <1>10, <1>11, <1>12, <1>13,
           <1>14 DEF TypeInv

(* OpenDone keeps the types. *)
LEMMA OpenDoneTypes ==
  ASSUME TypeInv, OpenDone
  PROVE  TypeInv'
<1>1. ManifestType' /\ IteratorType' /\ OthersType'
  BY DEF TypeInv, OpenDone, ManifestType, IteratorType, OthersType, vars, disk, writers, history
<1>0. /\ db.status = "opening" /\ IsEdit(bg.edit) /\ bg.edit # None
  BY DEF TypeInv, StatusInv, DbType, Dbs, Statuses, Resting, BgType, OpenDone, EditWritten
<1> DEFINE V == Applied(db.version, bg.edit)
<1>1a. V \in Files /\ Numbers(V) \subseteq Numbers(db.version) \cup {a[2] : a \in bg.edit.adds}
  BY <1>0, AppliedFiles DEF TypeInv, DbType, Dbs, IsEdit
<1>2. /\ db' \in Dbs /\ db'.status = "open" /\ db'.mem = db.mem /\ db'.imm = db.imm
      /\ db'.logfile = db.logfile /\ db'.version = V /\ db'.logNumber = bg.edit.log
      /\ db'.nextFile = db.nextFile /\ db'.lastSeq = db.lastSeq /\ db'.bgError = db.bgError
      /\ db'.pending = db.pending /\ db'.hot = {} /\ db'.snapshots = db.snapshots
  <2> DEFINE log == bg.edit.log
  <2>1. db \in Dbs /\ log \in Nat
    BY <1>0 DEF IsEdit, Edits, TypeInv, DbType, Dbs
  <2>2. db' = [db EXCEPT !.version = V, !.logNumber = log, !.hot = {}, !.status = "open"]
    BY DEF OpenDone, Installed
  <2> HIDE DEF log, V
  <2>3. /\ db' \in Dbs /\ db'.status = "open" /\ db'.mem = db.mem /\ db'.imm = db.imm
        /\ db'.logfile = db.logfile /\ db'.version = V /\ db'.logNumber = log
        /\ db'.nextFile = db.nextFile /\ db'.lastSeq = db.lastSeq /\ db'.bgError = db.bgError
        /\ db'.pending = db.pending /\ db'.hot = {} /\ db'.snapshots = db.snapshots
    BY <1>1a, <2>1, <2>2 DEF Dbs, Statuses
  <2> QED BY <2>3 DEF log
<1> HIDE DEF V
<1>3. DbType'
  BY <1>2 DEF TypeInv, DbType
<1>4. BgType' /\ bg'.edit = None /\ bg'.compaction = None /\ WritersType' /\ queue' = queue
  BY EndTypes DEF TypeInv, OpenDone
<1>5. /\ TablesType' /\ LogsType'
      /\ DOMAIN tables \cap Live(db', None) \subseteq DOMAIN tables'
      /\ \A n \in DOMAIN logs : n >= db'.logNumber => n \in DOMAIN logs'
  BY DeletedTypes DEF TypeInv, OpenDone
<1>6. StatusInv'
  <2>1. db.logfile \in Nat /\ bg.edit.log = db.logfile
    BY <1>0 DEF TypeInv, DbType, Dbs, StatusInv
  <2>2. iterator' = iterator
    BY DEF OpenDone
  <2> QED BY <1>0, <1>2, <1>4, <1>5, <2>1, <2>2 DEF TypeInv, StatusInv
<1>7. HeldInv'
  <2>1. iterator' = None
    BY <1>0 DEF OpenDone, TypeInv, StatusInv
  <2>2. Numbers(V) \subseteq DOMAIN tables
    BY <1>0, <1>1a DEF TypeInv, HeldInv
  <2>3. /\ Numbers(V) \subseteq Live(db', None)
    BY <1>2 DEF Live
  <2> QED BY <1>2, <1>4, <1>5, <2>1, <2>2, <2>3 DEF TypeInv, HeldInv
<1> QED BY <1>0, <1>1, <1>2, <1>3, <1>4, <1>5, <1>6, <1>7, <1>1a DEF TypeInv

(* OpenFails keeps the types. *)
LEMMA OpenFailsTypes ==
  ASSUME TypeInv, OpenFails
  PROVE  TypeInv'
<1>1. TablesType' /\ LogsType' /\ ManifestType' /\ WritersType' /\ IteratorType' /\ OthersType'
  BY DEF TypeInv, OpenFails, TablesType, LogsType, ManifestType, WritersType, IteratorType,
     OthersType, vars, disk, writers, history
<1>2. db' = Closed /\ bg' = Resting /\ db.status = "opening"
  BY DEF OpenFails, TypeInv, StatusInv, DbType, Dbs, Statuses, Resting
<1>3. DbType'
  BY <1>2, ClosedTypes DEF DbType
<1>4. BgType' /\ bg'.edit = None /\ bg'.compaction = None
  BY <1>2 DEF BgType, Resting
<1>5. StatusInv'
  BY <1>2, ClosedTypes DEF TypeInv, StatusInv, OpenFails, writers
<1>6. HeldInv'
  BY <1>2, <1>4, ClosedTypes DEF TypeInv, StatusInv, HeldInv, OpenFails
<1> QED BY <1>1, <1>2, <1>3, <1>4, <1>5, <1>6 DEF TypeInv

(* No step changes that. *)
LEMMA TypesStep ==
  ASSUME TypeInv, [Next]_vars
  PROVE  TypeInv'
<1>1. ASSUME NEW batch \in budget["batches"], NEW sync \in BOOLEAN, Write(batch, sync) PROVE TypeInv'
  BY <1>1, WriteTypes
<1>2. CASE Leader
  BY <1>2, WriteRefusedTypes, BeginWriteTypes, WaitTypes, SwitchMemTableTypes, SwitchFailsTypes,
     AddRecordTypes, AddRecordFailsTypes, SyncTypes, SyncFailsTypes, InsertIntoTypes,
     EndWriteTypes DEF Leader
<1>3. CASE Background
  BY <1>3, NothingToDoTypes, BuildTableTypes, BuildTableFailsTypes, InstallFlushTypes,
     PickCompactionTypes, TrivialMoveTypes, InstallMoveTypes, DoCompactionWorkTypes,
     DoCompactionWorkFailsTypes, InstallCompactionResultsTypes, CleanupCompactionTypes,
     WriteManifestTypes, WriteManifestFailsTypes, EditRefusedTypes DEF Background
<1>4. CASE Reader
  BY <1>4, AskCompactionTypes, NewIteratorTypes, ReleaseIteratorTypes, GetSnapshotTypes,
     ReleaseSnapshotTypes DEF Reader
<1>5. CASE Crash \/ Recover \/ OpenDone \/ OpenFails
  BY <1>5, CrashTypes, RecoverTypes, OpenDoneTypes, OpenFailsTypes
<1>6. CASE UNCHANGED vars
  BY <1>6 DEF vars, disk, writers, history, TypeInv, TablesType, LogsType, ManifestType, DbType,
     WritersType, BgType, IteratorType, OthersType, StatusInv, HeldInv
<1> QED BY <1>1, <1>2, <1>3, <1>4, <1>5, <1>6 DEF Next

(* It is so in the beginning. *)
LEMMA TypesInit ==
  ASSUME Init
  PROVE  TypeInv
<1>1. TablesType /\ LogsType
  <2>1. DOMAIN tables = {} /\ tables = [n \in {} |-> {}]
    BY DEF Init
  <2>2. DOMAIN logs = {} /\ logs = [n \in {} |-> EmptyLog]
    BY DEF Init
  <2>3. {} \in FiniteParts(Nat)
    BY FS_EmptySet DEF FiniteParts
  <2> QED BY <2>1, <2>2, <2>3 DEF TablesType, LogsType
<1>2. ManifestType
  BY ClosedTypes DEF Init, ManifestType
<1>3. DbType
  BY ClosedTypes DEF Init, DbType
<1>4. WritersType
  BY EmptySeq DEF Init, WritersType, Writing
<1>5. BgType /\ bg.edit = None /\ bg.compaction = None
  BY DEF Init, BgType, Resting
<1>6. IteratorType
  BY DEF Init, IteratorType
<1>7. OthersType
  <2>1. budget \in Budgets /\ left = {} /\ repeated = FALSE
    BY DEF Init
  <2> QED BY <2>1, BudgetsAssumption DEF OthersType
<1>8. StatusInv
  BY ClosedTypes DEF Init, StatusInv
<1>9. HeldInv
  BY <1>5, ClosedTypes DEF Init, HeldInv
<1> QED BY <1>1, <1>2, <1>3, <1>4, <1>5, <1>6, <1>7, <1>8, <1>9 DEF TypeInv

(* It is always so. *)
THEOREM TypesAlways == Spec => []TypeInv
<1>1. Init => TypeInv
  BY TypesInit
<1>2. TypeInv /\ [Next]_vars => TypeInv'
  BY TypesStep
<1> QED BY <1>1, <1>2, PTL DEF Spec

-----------------------------------------------------------------------------
\* What the steps do to the files and the versions.

\* Nothing; an edit is dropped after an error, a compaction or an iterator ends.
Quiet ==
    /\ UNCHANGED <<tables, manifest, left, repeated>>
    /\ db'.status = db.status /\ db'.version = db.version /\ db'.imm = db.imm
    /\ db'.logNumber = db.logNumber /\ db'.logfile = db.logfile
    /\ db.nextFile <= db'.nextFile
    /\ db.bgError => db'.bgError
    /\ db'.bgError = db.bgError \/ db.status = "open"
    /\ bg'.edit = bg.edit \/ (bg'.edit = None /\ db'.bgError)
    /\ bg'.compaction \in {bg.compaction, None}
    /\ iterator' \in {iterator, None}
    /\ DOMAIN logs' = DOMAIN logs

(* The writers that do not switch logs. *)
LEMMA WritersQuiet ==
  ASSUME TypeInv,
         \/ \E batch \in budget["batches"], sync \in BOOLEAN : Write(batch, sync)
         \/ WriteRefused \/ BeginWrite \/ Wait \/ SwitchFails \/ AddRecord \/ AddRecordFails
         \/ Sync \/ SyncFails \/ InsertInto \/ EndWrite
  PROVE  Quiet
<1>0. db.nextFile \in Nat /\ db \in Dbs /\ db.bgError \in BOOLEAN
  BY DEF TypeInv, DbType, Dbs
<1>1. CASE \/ \E batch \in budget["batches"], sync \in BOOLEAN : Write(batch, sync)
           \/ WriteRefused \/ BeginWrite \/ Wait \/ SwitchFails \/ SyncFails
  <2>1. UNCHANGED <<disk, db, bg, iterator, left, repeated>>
    BY <1>1 DEF Write, WriteRefused, BeginWrite, Wait, SwitchFails, SyncFails, history
  <2> QED BY <1>0, <2>1 DEF Quiet, disk
<1>2. CASE AddRecord \/ AddRecordFails \/ Sync
  <2>1. DOMAIN logs' = DOMAIN logs
    BY <1>2 DEF AddRecord, AddRecordFails, Sync, TypeInv, LogsType
  <2> QED BY <1>0, <1>2, <2>1 DEF Quiet, AddRecord, AddRecordFails, Sync, history
<1>3. CASE InsertInto
  <2> DEFINE m == db.mem \cup GroupEntries
  <2>1. db' = [db EXCEPT !.mem = m]
    BY <1>3 DEF InsertInto
  <2> HIDE DEF m
  <2>2. /\ db'.status = db.status /\ db'.version = db.version /\ db'.imm = db.imm
        /\ db'.logNumber = db.logNumber /\ db'.logfile = db.logfile
        /\ db'.nextFile = db.nextFile /\ db'.bgError = db.bgError
    BY <1>0, <2>1 DEF Dbs
  <2> QED BY <1>0, <1>3, <2>2 DEF Quiet, InsertInto, disk, history
<1>4. CASE EndWrite
  <2> DEFINE s == db.lastSeq + group
             e == db.bgError \/ stage = "unsynced"
  <2>1. db' = [db EXCEPT !.lastSeq = s, !.bgError = e]
    BY <1>4 DEF EndWrite
  <2> HIDE DEF s
  <2>2. /\ db'.status = db.status /\ db'.version = db.version /\ db'.imm = db.imm
        /\ db'.logNumber = db.logNumber /\ db'.logfile = db.logfile
        /\ db'.nextFile = db.nextFile /\ db'.bgError = e
    BY <1>0, <2>1 DEF Dbs
  <2>3. UNCHANGED <<left, repeated>>
    BY <1>4 DEF EndWrite, history
  <2>4. db.status = "open"
    <3>1. queue # <<>>
      BY <1>4, EmptySeq DEF TypeInv, WritersType, Writing, EndWrite
    <3> QED BY <3>1 DEF TypeInv, StatusInv, DbType, Dbs, Statuses
  <2> QED BY <1>0, <1>4, <2>2, <2>3, <2>4 DEF Quiet, EndWrite, disk
<1> QED BY <1>1, <1>2, <1>3, <1>4

(* The readers that do not begin to read. *)
LEMMA ReadersQuiet ==
  ASSUME TypeInv,
         \/ \E level \in 0..MaxLevel - 1 : \E n \in db.version[level] : AskCompaction(level, n)
         \/ ReleaseIterator \/ GetSnapshot \/ ReleaseSnapshot
  PROVE  Quiet
<1>0. db.nextFile \in Nat /\ db \in Dbs /\ db.bgError \in BOOLEAN
  BY DEF TypeInv, DbType, Dbs
<1>1. ASSUME NEW level \in 0..MaxLevel - 1, NEW n \in db.version[level], AskCompaction(level, n)
      PROVE  Quiet
  <2> DEFINE h == {<<level, n>>}
             b == bg.scheduled \/ Schedules(db')
  <2>1. db' = [db EXCEPT !.hot = h] /\ bg' = [bg EXCEPT !.scheduled = b]
    BY <1>1 DEF AskCompaction
  <2> HIDE DEF h, b
  <2>2. /\ db'.status = db.status /\ db'.version = db.version /\ db'.imm = db.imm
        /\ db'.logNumber = db.logNumber /\ db'.logfile = db.logfile
        /\ db'.nextFile = db.nextFile /\ db'.bgError = db.bgError
    BY <1>0, <2>1 DEF Dbs
  <2>3. bg'.edit = bg.edit /\ bg'.compaction = bg.compaction
    BY <2>1 DEF TypeInv, BgType
  <2> QED BY <1>0, <1>1, <2>2, <2>3 DEF Quiet, AskCompaction, disk, history
<1>2. CASE ReleaseIterator
  BY <1>0, <1>2 DEF Quiet, ReleaseIterator, disk, history
<1>3. CASE GetSnapshot \/ ReleaseSnapshot
  <2>1. PICK s : db' = [db EXCEPT !.snapshots = s]
    BY <1>3 DEF GetSnapshot, ReleaseSnapshot
  <2>2. /\ db'.status = db.status /\ db'.version = db.version /\ db'.imm = db.imm
        /\ db'.logNumber = db.logNumber /\ db'.logfile = db.logfile
        /\ db'.nextFile = db.nextFile /\ db'.bgError = db.bgError
    BY <1>0, <2>1 DEF Dbs
  <2> QED BY <1>0, <1>3, <2>2 DEF Quiet, GetSnapshot, ReleaseSnapshot, disk, history
<1> QED BY <1>1, <1>2, <1>3

(* The background thread with nothing to do, and after an error. *)
LEMMA BackgroundQuiet ==
  ASSUME TypeInv, NothingToDo \/ BuildTableFails \/ DoCompactionWorkFails \/ EditRefused
  PROVE  Quiet
<1>0. db.nextFile \in Nat /\ db \in Dbs /\ db.bgError \in BOOLEAN
  BY DEF TypeInv, DbType, Dbs
<1>a. db.status = "open"
  BY DEF TypeInv, StatusInv, DbType, Dbs, Statuses, Resting, Closed, BgType, NothingToDo, Called,
     BuildTableFails, FlushDue, DoCompactionWorkFails, Compacting, EditRefused
<1>1. CASE NothingToDo
  <2>1. bg.edit = None /\ bg'.edit = None /\ bg'.compaction = None
    BY <1>1, EndTypes DEF TypeInv, NothingToDo, Called
  <2> QED BY <1>0, <1>a, <1>1, <2>1 DEF Quiet, NothingToDo, disk, history
<1>2. CASE BuildTableFails
  <2> DEFINE l == db.nextFile + 1
  <2>1. bg.edit = None /\ bg'.edit = None /\ bg'.compaction = bg.compaction
    BY <1>2, GoesOnTypes DEF TypeInv, BuildTableFails, FlushDue
  <2>2. db' = [db EXCEPT !.nextFile = l, !.bgError = TRUE] /\ db.nextFile <= l
    BY <1>0, <1>2 DEF BuildTableFails
  <2> HIDE DEF l
  <2>3. /\ db'.status = db.status /\ db'.version = db.version /\ db'.imm = db.imm
        /\ db'.logNumber = db.logNumber /\ db'.logfile = db.logfile
        /\ db'.nextFile = l /\ db'.bgError = TRUE
    BY <1>0, <2>2 DEF Dbs
  <2> QED BY <1>0, <1>a, <1>2, <2>1, <2>2, <2>3 DEF Quiet, BuildTableFails, disk, history
<1>3. CASE DoCompactionWorkFails
  <2>1. bg.edit = None /\ bg'.edit = None /\ bg'.compaction = None
    BY <1>3, EndTypes DEF TypeInv, DoCompactionWorkFails, Compacting
  <2>2. /\ db'.status = db.status /\ db'.version = db.version /\ db'.imm = db.imm
        /\ db'.logNumber = db.logNumber /\ db'.logfile = db.logfile
        /\ db'.nextFile = db.nextFile /\ db'.bgError = TRUE
    BY <1>0, <1>3 DEF Dbs, DoCompactionWorkFails
  <2> QED BY <1>0, <1>a, <1>3, <2>1, <2>2 DEF Quiet, DoCompactionWorkFails, disk, history
<1>4. CASE EditRefused
  <2> DEFINE p == IF bg.edit.kind = "compact" THEN {} ELSE db.pending
  <2>1. bg'.edit = None /\ bg'.compaction \in {bg.compaction, None}
    <3>1. CASE bg.edit.kind = "flush"
      BY <1>4, <3>1, GoesOnTypes DEF TypeInv, EditRefused
    <3>2. CASE bg.edit.kind # "flush"
      BY <1>4, <3>2, EndTypes DEF TypeInv, EditRefused
    <3> QED BY <3>1, <3>2
  <2>2. db' = [db EXCEPT !.bgError = TRUE, !.pending = p]
    BY <1>4 DEF EditRefused
  <2> HIDE DEF p
  <2>3. /\ db'.status = db.status /\ db'.version = db.version /\ db'.imm = db.imm
        /\ db'.logNumber = db.logNumber /\ db'.logfile = db.logfile
        /\ db'.nextFile = db.nextFile /\ db'.bgError = TRUE
    BY <1>0, <2>2 DEF Dbs
  <2> QED BY <1>0, <1>a, <1>4, <2>1, <2>3 DEF Quiet, EditRefused, disk, history
<1> QED BY <1>1, <1>2, <1>3, <1>4

\* The other fields of db stay, but for the number of the next file.
SameVersion ==
    /\ db'.status = db.status /\ db'.mem = db.mem /\ db'.imm = db.imm
    /\ db'.version = db.version /\ db'.bgError = db.bgError
    /\ db'.logNumber = db.logNumber /\ db'.logfile = db.logfile
    /\ db'.lastSeq = db.lastSeq /\ db'.snapshots = db.snapshots

\* An edit is made: of a flush,
Flushes(level) ==
    /\ db.status = "open" /\ db.imm # {} /\ bg.edit = None
    /\ level \in LevelsForMemTableOutput(tables, db.version, db.imm) /\ level \in Levels
    /\ tables' = With(tables, db.nextFile, db.imm)
    /\ SameVersion /\ db'.nextFile = db.nextFile + 1
    /\ bg'.edit = [kind |-> "flush", adds |-> {<<level, db.nextFile>>}, deletes |-> {},
                   log |-> db.logfile, lastSeq |-> db.lastSeq, next |-> db.nextFile + 1,
                   state |-> "new"]
    /\ bg'.compaction = bg.compaction
    /\ UNCHANGED <<logs, manifest, writers, iterator, history>>

\* of a move,
Moves(level, inputs) ==
    /\ db.status = "open" /\ bg.edit = None /\ bg.compaction = None
    /\ level \in 0..MaxLevel - 1
    /\ \E n \in db.version[level] : inputs \in Inputs(tables, db.version, level, {n})
    /\ Cardinality(inputs.upper) = 1 /\ inputs.lower = {}
    /\ bg'.edit = [kind |-> "move", adds |-> {<<level + 1, n>> : n \in inputs.upper},
                   deletes |-> {<<level, n>> : n \in inputs.upper}, log |-> db.logNumber,
                   lastSeq |-> db.lastSeq, next |-> db.nextFile, state |-> "new"]
    /\ bg'.compaction = None
    /\ UNCHANGED <<disk, db, writers, iterator, history>>

\* of a compaction;
Compacts ==
    LET c == bg.compaction IN
    /\ db.status = "open" /\ bg.edit = None /\ c # None /\ IsCompaction(c) /\ c.built
    /\ bg'.edit = [kind |-> "compact", adds |-> {<<c.level + 1, n>> : n \in c.outputs},
                   deletes |-> {<<c.level, n>> : n \in c.upper}
                                 \cup {<<c.level + 1, n>> : n \in c.lower},
                   log |-> db.logNumber, lastSeq |-> db.lastSeq, next |-> db.nextFile,
                   state |-> "new"]
    /\ bg'.compaction = c
    /\ UNCHANGED <<disk, db, writers, iterator, history>>

\* it is written to the MANIFEST, or not;
Appends ==
    /\ bg.edit # None /\ IsEdit(bg.edit) /\ bg.edit.state = "new"
    /\ bg'.edit # None /\ bg'.edit.kind = bg.edit.kind /\ bg'.edit.adds = bg.edit.adds
    /\ bg'.edit.deletes = bg.edit.deletes /\ bg'.edit.log = bg.edit.log
    /\ bg'.edit.lastSeq = bg.edit.lastSeq /\ bg'.edit.next = bg.edit.next
    /\ bg'.edit.state \in {"written", "failed"}
    /\ bg'.compaction = bg.compaction
    /\ \/ AppendEdit /\ (bg'.edit.state = "failed" => bg.edit.kind # "open")
       \/ bg'.edit.state = "failed" /\ UNCHANGED <<manifest, repeated>>
    /\ UNCHANGED <<tables, logs, db, writers, iterator, committed, acked, synced, left>>

\* the new version becomes the current one.
Installs ==
    /\ bg.edit # None /\ IsEdit(bg.edit) /\ bg.edit.state = "written"
    /\ db.status # "closed" /\ db'.status = "open"
    /\ bg.edit.kind = "open" <=> db.status = "opening"
    /\ db'.version = Applied(db.version, bg.edit) /\ db'.logNumber = bg.edit.log
    /\ db'.imm = (IF bg.edit.kind = "flush" THEN {} ELSE db.imm)
    /\ db'.mem = db.mem /\ db'.bgError = db.bgError /\ db'.logfile = db.logfile
    /\ db'.nextFile = db.nextFile /\ db'.lastSeq = db.lastSeq
    /\ db'.snapshots = db.snapshots
    /\ bg'.edit = None
    /\ bg'.compaction = (IF bg.edit.kind = "flush" THEN bg.compaction ELSE None)
    /\ \/ UNCHANGED <<tables, logs>>
       \/ DeleteObsoleteFiles(db', bg'.compaction)
    /\ queue' = queue /\ group' = group /\ (stage' = stage \/ (stage = "waiting" /\ stage' = "front"))
    /\ UNCHANGED <<manifest, iterator, history>>

(* BuildTable makes a flush's edit. *)
LEMMA BuildTableDoes ==
  ASSUME TypeInv, BuildTable
  PROVE  \E level : Flushes(level)
<1>0. db.status = "open" /\ bg.edit = None /\ db.imm # {}
  BY DEF TypeInv, StatusInv, DbType, Dbs, Statuses, Closed, BuildTable, FlushDue
<1> DEFINE n == db.nextFile
           d == [db EXCEPT !.nextFile = @ + 1]
<1>1. /\ n \in Nat /\ SameVersion /\ db'.nextFile = n + 1
      /\ d.lastSeq = db.lastSeq /\ d.nextFile = n + 1
  BY DEF TypeInv, DbType, Dbs, BuildTable, SameVersion
<1>2. PICK level \in LevelsForMemTableOutput(tables, db.version, db.imm) :
        bg' = [bg EXCEPT !.edit = Edit("flush", {<<level, n>>}, {}, LogInUse, d)]
  BY DEF BuildTable
<1>3. level \in Levels
  BY LevelsAssumption DEF LevelsForMemTableOutput, Levels
<1> DEFINE edit == [kind |-> "flush", adds |-> {<<level, n>>}, deletes |-> {},
                   log |-> db.logfile, lastSeq |-> db.lastSeq, next |-> n + 1, state |-> "new"]
<1>4. Edit("flush", {<<level, n>>}, {}, LogInUse, d) = edit
  <2> HIDE DEF d
  <2> QED BY <1>1 DEF Edit, LogInUse
<1>5. bg'.edit = edit /\ bg'.compaction = bg.compaction
  <2> HIDE DEF edit
  <2> QED BY <1>2, <1>4 DEF TypeInv, BgType
<1>6. tables' = With(tables, n, db.imm) /\ UNCHANGED <<logs, manifest, writers, iterator, history>>
  BY DEF BuildTable
<1>7. Flushes(level)
  BY <1>0, <1>1, <1>2, <1>3, <1>5, <1>6 DEF Flushes
<1> QED BY <1>7

(* TrivialMove makes a move's edit. *)
LEMMA TrivialMoveDoes ==
  ASSUME TypeInv, TrivialMove
  PROVE  \E level, inputs : Moves(level, inputs)
<1>0. db.status = "open" /\ bg.edit = None /\ bg.compaction = None
  BY DEF TypeInv, StatusInv, DbType, Dbs, Statuses, Resting, TrivialMove, CompactionDue, Called
<1>1. PICK picked \in Candidates :
      \E inputs \in Inputs(tables, db.version, picked[1], {picked[2]}) :
         /\ Cardinality(inputs.upper) = 1 /\ inputs.lower = {}
         /\ bg' = [bg EXCEPT !.edit =
                  Edit("move", {<<picked[1] + 1, n>> : n \in inputs.upper},
                       {<<picked[1], n>> : n \in inputs.upper}, db.logNumber, db)]
  BY DEF TrivialMove
<1>2. PICK inputs \in Inputs(tables, db.version, picked[1], {picked[2]}) :
         /\ Cardinality(inputs.upper) = 1 /\ inputs.lower = {}
         /\ bg' = [bg EXCEPT !.edit =
                  Edit("move", {<<picked[1] + 1, n>> : n \in inputs.upper},
                       {<<picked[1], n>> : n \in inputs.upper}, db.logNumber, db)]
  BY <1>1
<1>3. picked[1] \in 0..MaxLevel - 1 /\ picked[2] \in db.version[picked[1]]
  BY PickedOf DEF TypeInv
<1> DEFINE level == picked[1]
           adds == {<<level + 1, n>> : n \in inputs.upper}
           deletes == {<<level, n>> : n \in inputs.upper}
           edit == Edit("move", adds, deletes, db.logNumber, db)
<1>4. bg'.edit = edit /\ bg'.compaction = bg.compaction
  <2>1. bg' = [bg EXCEPT !.edit = edit]
    BY <1>2
  <2> HIDE DEF edit
  <2> QED BY <2>1 DEF TypeInv, BgType
<1>5. UNCHANGED <<disk, db, writers, iterator, history>>
  BY DEF TrivialMove
<1>6. Moves(level, inputs)
  <2>1. \E n \in db.version[level] : inputs \in Inputs(tables, db.version, level, {n})
    BY <1>2, <1>3
  <2>2. edit = [kind |-> "move", adds |-> adds, deletes |-> deletes, log |-> db.logNumber,
                lastSeq |-> db.lastSeq, next |-> db.nextFile, state |-> "new"]
    BY DEF Edit
  <2> QED BY <1>0, <1>2, <1>3, <1>4, <1>5, <2>1, <2>2 DEF Moves
<1> QED BY <1>6

(* InstallCompactionResults makes a compaction's edit. *)
LEMMA InstallCompactionResultsDoes ==
  ASSUME TypeInv, InstallCompactionResults
  PROVE  Compacts
<1> DEFINE c == bg.compaction
<1>0. db.status = "open" /\ bg.edit = None /\ c # None /\ IsCompaction(c) /\ c.built
  BY DEF TypeInv, StatusInv, DbType, Dbs, Statuses, Resting, BgType, HeldInv,
     InstallCompactionResults, Compacting
<1> DEFINE adds == {<<c.level + 1, n>> : n \in c.outputs}
           deletes == {<<c.level, n>> : n \in c.upper} \cup {<<c.level + 1, n>> : n \in c.lower}
           edit == Edit("compact", adds, deletes, db.logNumber, db)
<1>1. bg'.edit = edit /\ bg'.compaction = bg.compaction
  <2>1. bg' = [bg EXCEPT !.edit = edit]
    BY DEF InstallCompactionResults
  <2> HIDE DEF edit
  <2> QED BY <2>1 DEF TypeInv, BgType
<1>2. edit = [kind |-> "compact", adds |-> adds, deletes |-> deletes, log |-> db.logNumber,
              lastSeq |-> db.lastSeq, next |-> db.nextFile, state |-> "new"]
  BY DEF Edit
<1> HIDE DEF edit
<1> QED BY <1>0, <1>1, <1>2 DEF Compacts, InstallCompactionResults

(* WriteManifest and WriteManifestFails append, or fail to append, the edit. *)
LEMMA ManifestDoes ==
  ASSUME TypeInv, WriteManifest \/ WriteManifestFails
  PROVE  Appends
<1>0. bg.edit # None /\ IsEdit(bg.edit) /\ bg.edit.state = "new"
  BY DEF TypeInv, BgType, WriteManifest, WriteManifestFails
<1>1. PICK s \in {"written", "failed"} :
        /\ bg' = [bg EXCEPT !.edit.state = s]
        /\ \/ AppendEdit /\ (s = "failed" => bg.edit.kind # "open")
           \/ s = "failed" /\ UNCHANGED <<manifest, repeated>>
  BY DEF WriteManifest, WriteManifestFails
<1> DEFINE edit == [bg.edit EXCEPT !.state = s]
<1>2. bg'.edit = edit /\ bg'.compaction = bg.compaction
  BY <1>1 DEF TypeInv, BgType
<1>3. /\ edit # None /\ edit.kind = bg.edit.kind /\ edit.adds = bg.edit.adds
      /\ edit.deletes = bg.edit.deletes /\ edit.log = bg.edit.log
      /\ edit.lastSeq = bg.edit.lastSeq /\ edit.next = bg.edit.next /\ edit.state = s
  BY <1>0, NoneAssumption DEF IsEdit, Edits
<1> HIDE DEF edit
<1>4. UNCHANGED <<tables, logs, db, writers, iterator, committed, acked, synced, left>>
  BY DEF WriteManifest, WriteManifestFails
<1> QED BY <1>0, <1>1, <1>2, <1>3, <1>4 DEF Appends

(* The installing steps and OpenDone end an edit. *)
LEMMA InstallDoes ==
  ASSUME TypeInv, InstallFlush \/ InstallMove \/ CleanupCompaction \/ OpenDone
  PROVE  Installs
<1>0. /\ bg.edit # None /\ IsEdit(bg.edit) /\ bg.edit.state = "written"
      /\ InstallFlush => bg.edit.kind = "flush"
      /\ InstallMove => bg.edit.kind = "move"
      /\ CleanupCompaction => bg.edit.kind = "compact"
      /\ OpenDone => bg.edit.kind = "open"
      /\ db.status # "closed"
      /\ bg.edit.kind = "open" <=> db.status = "opening"
  BY DEF TypeInv, StatusInv, DbType, Dbs, Statuses, BgType, Resting, InstallFlush, InstallMove,
     CleanupCompaction, OpenDone, EditWritten
<1> DEFINE V == Applied(db.version, bg.edit)
           log == bg.edit.log
<1>1. PICK i, s, p :
        /\ db' = [db EXCEPT !.version = V, !.logNumber = log, !.hot = {}, !.imm = i, !.status = s,
                            !.pending = p]
        /\ i = (IF bg.edit.kind = "flush" THEN {} ELSE db.imm)
        /\ s = (IF bg.edit.kind = "open" THEN "open" ELSE db.status)
  <2>0. db \in Dbs
    BY DEF TypeInv, DbType
  <2> HIDE DEF V, log
  <2>1. CASE InstallFlush
    <3>1. db' = [db EXCEPT !.version = V, !.logNumber = log, !.hot = {}, !.imm = {}]
      BY <2>1 DEF InstallFlush, Installed, V, log
    <3>2. db' = [db EXCEPT !.version = V, !.logNumber = log, !.hot = {}, !.imm = {},
                           !.status = db.status, !.pending = db.pending]
      BY <2>0, <3>1 DEF Dbs
    <3> QED BY <1>0, <2>1, <3>2
  <2>2. CASE InstallMove
    <3>1. db' = [db EXCEPT !.version = V, !.logNumber = log, !.hot = {}]
      BY <2>2 DEF InstallMove, Installed, V, log
    <3>2. db' = [db EXCEPT !.version = V, !.logNumber = log, !.hot = {}, !.imm = db.imm,
                           !.status = db.status, !.pending = db.pending]
      BY <2>0, <3>1 DEF Dbs
    <3> QED BY <1>0, <2>2, <3>2
  <2>3. CASE CleanupCompaction
    <3> DEFINE p == Installed(db).pending \ bg.compaction.outputs
    <3>1. db' = [db EXCEPT !.version = V, !.logNumber = log, !.hot = {}, !.pending = p]
      BY <2>3 DEF CleanupCompaction, Installed, V, log
    <3> HIDE DEF p
    <3>2. db' = [db EXCEPT !.version = V, !.logNumber = log, !.hot = {}, !.imm = db.imm,
                           !.status = db.status, !.pending = p]
      BY <2>0, <3>1 DEF Dbs
    <3> QED BY <1>0, <2>3, <3>2
  <2>4. CASE OpenDone
    <3>1. db' = [db EXCEPT !.version = V, !.logNumber = log, !.hot = {}, !.status = "open"]
      BY <2>4 DEF OpenDone, Installed, V, log
    <3>2. db' = [db EXCEPT !.version = V, !.logNumber = log, !.hot = {}, !.imm = db.imm,
                           !.status = "open", !.pending = db.pending]
      BY <2>0, <3>1 DEF Dbs
    <3> QED BY <1>0, <2>4, <3>2
  <2> QED BY <2>1, <2>2, <2>3, <2>4
<1> HIDE DEF V, log
<1>2. /\ db'.status = s /\ db'.version = V /\ db'.logNumber = log /\ db'.imm = i
      /\ db'.mem = db.mem /\ db'.bgError = db.bgError /\ db'.logfile = db.logfile
      /\ db'.nextFile = db.nextFile /\ db'.lastSeq = db.lastSeq
      /\ db'.snapshots = db.snapshots
  BY <1>1 DEF TypeInv, DbType, Dbs
<1>3. s = "open"
  BY <1>0, <1>1 DEF TypeInv, DbType, Dbs, Statuses
<1>4. /\ bg'.edit = None
      /\ bg'.compaction = (IF bg.edit.kind = "flush" THEN bg.compaction ELSE None)
  <2>1. CASE InstallFlush
    <3>1. bg'.edit = None /\ bg'.compaction = bg.compaction
      BY <2>1, GoesOnTypes DEF TypeInv, InstallFlush
    <3> QED BY <1>0, <2>1, <3>1
  <2>2. CASE InstallMove \/ CleanupCompaction \/ OpenDone
    <3>1. bg'.edit = None /\ bg'.compaction = None
      BY <2>2, EndTypes DEF TypeInv, InstallMove, CleanupCompaction, OpenDone
    <3> QED BY <1>0, <2>2, <3>1
  <2> QED BY <2>1, <2>2
<1>5. UNCHANGED <<tables, logs>> \/ DeleteObsoleteFiles(db', bg'.compaction)
  <2>1. CASE InstallFlush
    <3>1. DeleteObsoleteFiles(db', bg.compaction)
      BY <2>1 DEF InstallFlush
    <3> QED BY <1>0, <1>4, <2>1, <3>1
  <2>2. CASE CleanupCompaction \/ OpenDone
    <3>1. DeleteObsoleteFiles(db', None) /\ bg'.compaction = None
      BY <1>0, <1>4, <2>2 DEF CleanupCompaction, OpenDone
    <3> QED BY <3>1
  <2>3. CASE InstallMove
    BY <2>3 DEF InstallMove, disk
  <2> QED BY <2>1, <2>2, <2>3
<1>6. UNCHANGED <<manifest, iterator, history>>
  BY DEF InstallFlush, InstallMove, CleanupCompaction, OpenDone, disk
<1>7. queue' = queue /\ group' = group /\ (stage' = stage \/ (stage = "waiting" /\ stage' = "front"))
  BY DEF InstallFlush, InstallMove, CleanupCompaction, OpenDone, EndBackgroundCall,
     BackgroundGoesOn, SignalAll
<1> QED BY <1>0, <1>1, <1>2, <1>3, <1>4, <1>5, <1>6, <1>7 DEF Installs, V, log

\* The memory table becomes immutable and a new log begins.
Switches ==
    /\ db.status = "open" /\ ~db.bgError /\ db.imm = {} /\ db.mem # {}
    /\ db'.status = db.status /\ db'.version = db.version /\ db'.bgError = db.bgError
    /\ db'.logNumber = db.logNumber /\ db'.lastSeq = db.lastSeq
    /\ db'.snapshots = db.snapshots
    /\ db'.mem = {} /\ db'.imm = db.mem
    /\ db'.logfile = db.nextFile /\ db'.nextFile = db.nextFile + 1
    /\ logs' = With(logs, db.nextFile, EmptyLog)
    /\ bg'.edit = bg.edit /\ bg'.compaction = bg.compaction
    /\ stage = "front" /\ stage' = "append" /\ queue' = queue
    /\ \A i \in 1..group' : queue[i].sync => queue[1].sync
    /\ UNCHANGED <<tables, manifest, iterator, history>>

(* SwitchMemTable switches the memtable. *)
LEMMA SwitchMemTableDoes ==
  ASSUME TypeInv, SwitchMemTable
  PROVE  Switches
<1> DEFINE d == [db EXCEPT !.imm = db.mem, !.mem = {}, !.logfile = db.nextFile, !.nextFile = @ + 1]
<1>1. /\ db.status = "open" /\ ~db.bgError /\ db.imm = {} /\ stage = "front"
      /\ Cardinality(db.mem) >= MemCapacity
      /\ UNCHANGED <<tables, manifest, iterator, history>>
      /\ stage' = "append" /\ queue' = queue /\ logs' = With(logs, db.nextFile, EmptyLog)
      /\ \A i \in 1..group' : queue[i].sync => queue[1].sync
  BY DEF SwitchMemTable, NeedsSwitch, NoRoom, AtFront, BuildBatchGroup, MayJoin
<1>2. db.mem # {}
  BY <1>1, FS_EmptySet, CapacityAssumption
<1>3. db' = d /\ bg' = [bg EXCEPT !.scheduled = @ \/ Schedules(d)]
  BY DEF SwitchMemTable
<1>4. bg'.edit = bg.edit /\ bg'.compaction = bg.compaction
  <2> HIDE DEF d
  <2> QED BY <1>3 DEF TypeInv, BgType
<1>5. /\ db'.status = db.status /\ db'.mem = {} /\ db'.imm = db.mem
      /\ db'.logfile = db.nextFile /\ db'.version = db.version /\ db'.logNumber = db.logNumber
      /\ db'.nextFile = db.nextFile + 1 /\ db'.lastSeq = db.lastSeq /\ db'.bgError = db.bgError
      /\ db'.snapshots = db.snapshots
  <2> DEFINE m == db.mem
             k == db.nextFile
             l == db.nextFile + 1
             e == {}
  <2>1. db' = [db EXCEPT !.imm = m, !.mem = e, !.logfile = k, !.nextFile = l]
    BY <1>3
  <2>2. db \in Dbs
    BY DEF TypeInv, DbType
  <2> HIDE DEF m, k, l, e
  <2>3. /\ db'.status = db.status /\ db'.mem = e /\ db'.imm = m
        /\ db'.logfile = k /\ db'.version = db.version /\ db'.logNumber = db.logNumber
        /\ db'.nextFile = l /\ db'.lastSeq = db.lastSeq /\ db'.bgError = db.bgError
        /\ db'.snapshots = db.snapshots
    BY <2>1, <2>2 DEF Dbs
  <2> QED BY <2>3 DEF m, k, l, e
<1> QED BY <1>1, <1>2, <1>4, <1>5 DEF Switches

\* A compaction begins.
Oldest ==
    IF db.snapshots = {} THEN db.lastSeq
    ELSE CHOOSE s \in db.snapshots : \A t \in db.snapshots : s <= t
Picks(level, inputs) ==
    /\ db.status = "open" /\ bg.edit = None /\ bg.compaction = None
    /\ level \in 0..MaxLevel - 1
    /\ \E n \in db.version[level] : inputs \in Inputs(tables, db.version, level, {n})
    /\ bg'.edit = None
    /\ bg'.compaction = [level |-> level, upper |-> inputs.upper, lower |-> inputs.lower,
                         version |-> db.version, outputs |-> {}, built |-> FALSE,
                         snapshot |-> Oldest]
    /\ bg'.compaction # None
    /\ UNCHANGED <<disk, db, writers, iterator, history>>

(* PickCompaction picks a compaction. *)
LEMMA PickCompactionDoes ==
  ASSUME TypeInv, PickCompaction
  PROVE  \E level, inputs : Picks(level, inputs)
<1>0. db.status = "open" /\ bg.edit = None /\ bg.compaction = None
  BY DEF TypeInv, StatusInv, DbType, Dbs, Statuses, Resting, PickCompaction, CompactionDue, Called
<1> DEFINE new(level, inputs) ==
             [level |-> level, upper |-> inputs.upper, lower |-> inputs.lower,
              version |-> db.version, outputs |-> {}, built |-> FALSE, snapshot |-> Oldest]
<1>1. PICK picked \in Candidates :
      \E inputs \in Inputs(tables, db.version, picked[1], {picked[2]}) :
         bg' = [bg EXCEPT !.compaction = new(picked[1], inputs)]
  BY DEF PickCompaction, Oldest
<1>2. PICK inputs \in Inputs(tables, db.version, picked[1], {picked[2]}) :
         bg' = [bg EXCEPT !.compaction = new(picked[1], inputs)]
  BY <1>1
<1>3. picked[1] \in 0..MaxLevel - 1 /\ picked[2] \in db.version[picked[1]]
  BY PickedOf DEF TypeInv
<1> DEFINE level == picked[1]
           c == new(level, inputs)
<1>4. bg'.edit = None /\ bg'.compaction = c
  <2>1. bg' = [bg EXCEPT !.compaction = c]
    BY <1>2
  <2> HIDE DEF c
  <2> QED BY <1>0, <2>1 DEF TypeInv, BgType
<1>5. \E n \in db.version[level] : inputs \in Inputs(tables, db.version, level, {n})
  BY <1>2, <1>3
<1>6. bg'.compaction # None
  <2>1. TypeInv'
    BY PickCompactionTypes
  <2> DEFINE one == {picked[2]}
  <2>2. one \in SUBSET db.version[level] /\ db.version \in Files /\ level \in Levels
        /\ level \in 0..MaxLevel - 1
    BY <1>3, LevelsAssumption DEF TypeInv, DbType, Dbs, Levels
  <2>3. inputs \in Inputs(tables, db.version, level, one)
    BY <1>2
  <2> HIDE DEF level, one
  <2>4. inputs.upper \in FiniteParts(Nat) /\ inputs.lower \in FiniteParts(Nat)
    BY <2>2, <2>3, InputFiles
  <2>5. Oldest \in Nat
    BY OldestSnapshot DEF TypeInv, Oldest
  <2>6. db.version \in Versions
    BY <2>2 DEF Files, Versions, FiniteParts
  <2>7. c \in Compactions
    BY <2>2, <2>4, <2>5, <2>6 DEF Compactions, FiniteParts
  <2> HIDE DEF c
  <2> QED BY <1>4, <2>7, NoneAssumption
<1>7. Picks(level, inputs)
  BY <1>0, <1>3, <1>4, <1>5, <1>6 DEF Picks, PickCompaction
<1> QED BY <1>7

\* Its tables are built.
Works(first, rest, numbers) ==
    LET c == bg.compaction
        n == db.nextFile
        inputs == Contents(tables, c.upper \cup c.lower) IN
    /\ db.status = "open" /\ bg.edit = None /\ c # None /\ IsCompaction(c) /\ ~c.built
    /\ first \cup rest = Survivors(c) /\ (first = {} => rest = {})
    /\ \A a \in first, b \in rest : Before(a, b)
    /\ numbers \in FiniteParts(Nat)
    /\ \A m \in numbers : m = n \/ m = n + 1
    /\ n \in numbers <=> first # {}
    /\ n + 1 \in numbers <=> rest # {}
    /\ DOMAIN tables' = DOMAIN tables \cup numbers
    /\ first # {} => tables'[n] = first
    /\ rest # {} => tables'[n + 1] = rest
    /\ \A m \in DOMAIN tables \ numbers : tables'[m] = tables[m]
    /\ SameVersion /\ db.nextFile <= db'.nextFile
    /\ \A m \in numbers : m < db'.nextFile
    /\ bg'.edit = None /\ bg'.compaction # None
    /\ bg'.compaction.level = c.level /\ bg'.compaction.upper = c.upper
    /\ bg'.compaction.lower = c.lower /\ bg'.compaction.version = c.version
    /\ bg'.compaction.snapshot = c.snapshot
    /\ bg'.compaction.built = TRUE /\ bg'.compaction.outputs = numbers
    /\ left' = left \cup LeftBehind(tables, c.version, c.level, c.lower, inputs, c.snapshot)
    /\ UNCHANGED <<logs, manifest, writers, iterator, committed, acked, synced, repeated>>

(* DoCompactionWork writes the outputs. *)
LEMMA DoCompactionWorkDoes ==
  ASSUME TypeInv, DoCompactionWork
  PROVE  \E first, rest, numbers : Works(first, rest, numbers)
<1> DEFINE c == bg.compaction
           n == db.nextFile
<1>0. /\ db.status = "open" /\ bg.edit = None /\ c # None /\ IsCompaction(c)
      /\ Numbers(c.version) \subseteq DOMAIN tables /\ n \in Nat /\ ~c.built
  BY DEF TypeInv, StatusInv, DbType, Dbs, Statuses, Resting, BgType, HeldInv, DoCompactionWork,
     Compacting
<1>2. PICK first \in SUBSET Survivors(c) :
        LET rest == Survivors(c) \ first
            numbers == {n + i : i \in {j \in {0, 1} : <<first, rest>>[j + 1] # {}}}
        IN /\ first = {} => rest = {}
           /\ \A a \in first, b \in rest : Before(a, b)
           /\ tables' = [m \in DOMAIN tables \cup numbers |->
                           IF m \in numbers THEN <<first, rest>>[m - n + 1] ELSE tables[m]]
           /\ db' = [db EXCEPT !.nextFile = @ + Cardinality(numbers), !.pending = @ \cup numbers]
           /\ bg' = [bg EXCEPT !.compaction.built = TRUE, !.compaction.outputs = numbers]
  BY DEF DoCompactionWork
<1> DEFINE rest == Survivors(c) \ first
           numbers == {n + i : i \in {j \in {0, 1} : <<first, rest>>[j + 1] # {}}}
           count == Cardinality(numbers)
<1>3. /\ n \in numbers <=> first # {}
      /\ n + 1 \in numbers <=> rest # {}
      /\ \A m \in numbers : m = n \/ m = n + 1
  <2> DEFINE idx == {j \in {0, 1} : <<first, rest>>[j + 1] # {}}
  <2>1. (0 \in idx <=> first # {}) /\ (1 \in idx <=> rest # {}) /\ idx \subseteq {0, 1}
    <3> HIDE DEF rest
    <3> QED OBVIOUS
  <2>2. numbers = {n + i : i \in idx}
    OBVIOUS
  <2> HIDE DEF idx, numbers, rest
  <2> QED BY <1>0, <2>1, <2>2
<1>4. /\ first = {} => rest = {}
      /\ \A a \in first, b \in rest : Before(a, b)
      /\ tables' = [m \in DOMAIN tables \cup numbers |->
                           IF m \in numbers THEN <<first, rest>>[m - n + 1] ELSE tables[m]]
      /\ db' = [db EXCEPT !.nextFile = @ + count, !.pending = @ \cup numbers]
      /\ bg' = [bg EXCEPT !.compaction.built = TRUE, !.compaction.outputs = numbers]
  BY <1>2
<1>5. first \cup rest = Survivors(c)
  OBVIOUS
<1> HIDE DEF numbers, rest
<1>6. /\ DOMAIN tables' = DOMAIN tables \cup numbers
      /\ first # {} => tables'[n] = first
      /\ rest # {} => tables'[n + 1] = rest
      /\ \A m \in DOMAIN tables \ numbers : tables'[m] = tables[m]
  <2>1. n - n + 1 = 1 /\ n + 1 - n + 1 = 2
    BY <1>0
  <2>2. DOMAIN tables' = DOMAIN tables \cup numbers
    BY <1>4
  <2>3. \A m \in DOMAIN tables \ numbers : tables'[m] = tables[m]
    BY <1>4
  <2> DEFINE f == <<first, rest>>
  <2>a. f[1] = first /\ f[2] = rest
    OBVIOUS
  <2>4. \A m \in numbers : tables'[m] = f[m - n + 1]
    BY <1>4
  <2> HIDE DEF f
  <2>5. first # {} => tables'[n] = f[1]
    BY <1>3, <2>1, <2>4
  <2>6. rest # {} => tables'[n + 1] = f[2]
    <3> DEFINE m == n + 1
    <3>1. m - n + 1 = 2
      BY <1>0
    <3>2. rest # {} => m \in numbers
      BY <1>3
    <3> HIDE DEF m
    <3>3. rest # {} => tables'[m] = f[2]
      BY <2>4, <3>1, <3>2
    <3> QED BY <3>3 DEF m
  <2> QED BY <2>2, <2>3, <2>5, <2>6, <2>a
<1>7. /\ numbers \in FiniteParts(Nat) /\ count \in Nat
      /\ \A m \in numbers : m < n + count
  <2>0. \A i, j \in Nat : i # j => Cardinality({i, j}) = 2 /\ IsFiniteSet({i, j})
    <3> TAKE i, j \in Nat
    <3>1. IsFiniteSet({i}) /\ Cardinality({i}) = 1
      BY FS_Singleton
    <3>2. {i} \cup {j} = {i, j}
      OBVIOUS
    <3> QED BY <3>1, <3>2, FS_AddElement
  <2>1. CASE first = {}
    <3>1. numbers = {}
      BY <1>3, <1>4, <2>1
    <3> QED BY <3>1, FS_EmptySet DEF FiniteParts
  <2>2. CASE first # {} /\ rest = {}
    <3>1. numbers = {n}
      BY <1>3, <2>2
    <3>2. IsFiniteSet(numbers) /\ count = 1
      BY <3>1, FS_Singleton
    <3> QED BY <1>0, <3>1, <3>2 DEF FiniteParts
  <2>3. CASE first # {} /\ rest # {}
    <3>1. numbers = {n, n + 1}
      BY <1>3, <2>3
    <3>2. IsFiniteSet(numbers) /\ count = 2
      BY <1>0, <2>0, <3>1
    <3>3. numbers \subseteq Nat
      BY <1>0, <3>1
    <3>4. \A m \in numbers : m < n + count
      BY <1>0, <3>1, <3>2
    <3> HIDE DEF count
    <3> QED BY <3>2, <3>3, <3>4 DEF FiniteParts
  <2> QED BY <2>1, <2>2, <2>3
<1> HIDE DEF count
<1>8. SameVersion /\ db'.nextFile = n + count
  <2> DEFINE l == db.nextFile + count
             p == db.pending \cup numbers
  <2>0. db \in Dbs
    BY DEF TypeInv, DbType
  <2>2. db' = [db EXCEPT !.nextFile = l, !.pending = p]
    BY <1>4
  <2> HIDE DEF l, p
  <2>3. SameVersion /\ db'.nextFile = l
    BY <2>0, <2>2 DEF Dbs, SameVersion
  <2> QED BY <2>3 DEF l
<1> DEFINE new == [c EXCEPT !.built = TRUE, !.outputs = numbers]
<1>9. /\ new.version = c.version /\ new.outputs = numbers /\ new.upper = c.upper
      /\ new.lower = c.lower /\ new.level = c.level /\ new.snapshot = c.snapshot
      /\ new.built = TRUE /\ new # None
  <2>1. c \in Compactions
    BY <1>0 DEF IsCompaction
  <2>2. new \in Compactions
    BY <1>7, <2>1 DEF Compactions, FiniteParts
  <2>3. /\ new.version = c.version /\ new.outputs = numbers /\ new.upper = c.upper
        /\ new.lower = c.lower /\ new.level = c.level /\ new.snapshot = c.snapshot
        /\ new.built = TRUE
    BY <2>1 DEF Compactions
  <2> HIDE DEF new
  <2> QED BY <2>2, <2>3, NoneAssumption
<1>10. bg'.edit = None /\ bg'.compaction = new
  <2>1. bg' = [bg EXCEPT !.compaction = new]
    BY <1>0, <1>4 DEF TypeInv, BgType, IsCompaction, Compactions
  <2> QED BY <1>0, <2>1 DEF TypeInv, BgType
<1> HIDE DEF new
<1>11. /\ left' = left \cup LeftBehind(tables, c.version, c.level, c.lower,
                                       Contents(tables, c.upper \cup c.lower), c.snapshot)
       /\ UNCHANGED <<logs, manifest, writers, iterator, committed, acked, synced, repeated>>
  BY DEF DoCompactionWork
<1>12. db.nextFile <= db'.nextFile /\ \A m \in numbers : m < db'.nextFile
  BY <1>0, <1>7, <1>8
<1>13. Works(first, rest, numbers)
  BY <1>0, <1>3, <1>4, <1>5, <1>6, <1>7, <1>8, <1>9, <1>10, <1>11, <1>12 DEF Works
<1> QED BY <1>13

\* A reader begins.
Begins(seq) ==
    /\ db.status = "open" /\ seq \in {db.lastSeq} \cup db.snapshots
    /\ iterator' = [seq |-> seq, mem |-> db.mem, imm |-> db.imm, version |-> db.version]
    /\ iterator' # None
    /\ UNCHANGED <<disk, db, writers, bg, history>>

(* NewIterator begins an iterator. *)
LEMMA NewIteratorDoes ==
  ASSUME TypeInv, NEW seq \in {db.lastSeq} \cup db.snapshots, NewIterator(seq)
  PROVE  Begins(seq)
<1> DEFINE it == [seq |-> seq, mem |-> db.mem, imm |-> db.imm, version |-> db.version]
<1>1. db.mem \in EntrySets /\ db.imm \in EntrySets /\ db.version \in Files /\ seq \in Nat
  BY DEF TypeInv, DbType, Dbs
<1>2. it \in Iterators
  BY <1>1 DEF Iterators, EntrySets, FiniteParts, Files, Versions
<1>3. iterator' = it
  BY DEF NewIterator
<1>4. iterator' # None
  <2> HIDE DEF it
  <2> QED BY <1>2, <1>3, NoneAssumption
<1> QED BY <1>3, <1>4 DEF Begins, NewIterator

\* The process ends, or could not open the database.
Closes ==
    /\ db' = Closed /\ bg' = Resting /\ iterator' = None
    /\ db'.status = "closed" /\ db'.version = NoTables /\ db'.mem = {} /\ db'.imm = {}
    /\ bg'.edit = None /\ bg'.compaction = None
    /\ stage' = "front" /\ group' = 0 /\ queue' = <<>>
    /\ DOMAIN logs' = DOMAIN logs
    /\ UNCHANGED <<tables, manifest, left, repeated>>

\* The machine keeps so much of each log.
Keeps(lengths) ==
    /\ \A n \in DOMAIN logs :
          /\ lengths[n] \in Survivals(logs[n])
          /\ lengths[n] \in 0..Len(logs[n].records)
          /\ logs'[n] = [records |-> SubSeq(logs[n].records, 1, lengths[n]),
                         synced |-> lengths[n], good |-> lengths[n], torn |-> FALSE]
          /\ LogEntries(logs'[n]) = FirstEntries(logs[n], lengths[n])
    /\ committed' = Recoverable(lengths)
    /\ acked' = committed' /\ synced' = committed'

(* Crash closes the database and keeps a part of each log. *)
LEMMA CrashDoes ==
  ASSUME TypeInv, Crash
  PROVE  Closes /\ \E lengths : Keeps(lengths)
<1>1. PICK lengths \in Lengths(DOMAIN logs) :
          /\ \A n \in DOMAIN logs : lengths[n] \in Survivals(logs[n])
          /\ logs' = [n \in DOMAIN logs |->
                        [records |-> SubSeq(logs[n].records, 1, lengths[n]),
                         synced |-> lengths[n], good |-> lengths[n], torn |-> FALSE]]
          /\ committed' = Recoverable(lengths)
  BY DEF Crash
<1>2. Closes
  <2>1. /\ Closed.status = "closed" /\ Closed.version = NoTables /\ Closed.mem = {}
        /\ Closed.imm = {} /\ Resting.edit = None /\ Resting.compaction = None
    BY DEF Closed, Resting
  <2> QED BY <1>1, <2>1 DEF Closes, Crash
<1>3. ASSUME NEW n \in DOMAIN logs
      PROVE  /\ lengths[n] \in 0..Len(logs[n].records)
             /\ LogEntries(logs'[n]) = FirstEntries(logs[n], lengths[n])
  <2>1. logs[n].records \in Seq(EntrySets) /\ lengths[n] \in 0..Len(logs[n].records)
    BY <1>1 DEF TypeInv, LogsType, Logs, Survivals
  <2> DEFINE all == logs[n].records
             k == lengths[n]
             r == SubSeq(all, 1, k)
  <2>2. Len(r) = k /\ \A i \in 1..k : r[i] = all[i]
    <3> HIDE DEF all, k
    <3> QED BY <2>1, SubSeqProperties DEF all, k
  <2>3. logs'[n].records = r
    BY <1>1
  <2> HIDE DEF r
  <2> QED BY <2>1, <2>2, <2>3 DEF LogEntries, FirstEntries
<1>4. Keeps(lengths)
  BY <1>1, <1>3 DEF Keeps, Crash
<1> QED BY <1>2, <1>4

(* OpenFails closes the database and leaves the logs. *)
LEMMA OpenFailsDoes ==
  ASSUME TypeInv, OpenFails
  PROVE  Closes /\ logs' = logs /\ db.status = "opening" /\ bg.edit # None
         /\ bg.edit.kind = "open" /\ bg.edit.state = "failed"
         /\ UNCHANGED <<committed, acked, synced>>
<1>1. /\ Closed.status = "closed" /\ Closed.version = NoTables /\ Closed.mem = {}
      /\ Closed.imm = {} /\ Resting.edit = None /\ Resting.compaction = None
  BY DEF Closed, Resting
<1>2. db.status = "opening" /\ iterator = None /\ queue = <<>>
  BY DEF OpenFails, TypeInv, StatusInv, DbType, Dbs, Statuses, Resting
<1>3. group = 0 /\ stage = "front"
  <2>1. group \in 0..Len(queue) /\ Len(queue) = 0
    BY <1>2 DEF TypeInv, WritersType
  <2> QED BY <1>2, <2>1 DEF TypeInv, WritersType, Writing
<1> QED BY <1>1, <1>2, <1>3 DEF OpenFails, Closes, disk, writers, history

\* The database is opened: a table of each log, and a new log.
Recovers(order, full, next) ==
    LET new == next[Len(order)] IN
    /\ db.status = "closed" /\ db'.status = "opening"
    /\ Numbers(manifest.files) \subseteq DOMAIN tables
    /\ order \in Seq(DOMAIN logs) /\ Len(order) \in Nat
    /\ \A i \in 1..Len(order) : order[i] \in RecoverableLogs(logs) /\ order[i] \in DOMAIN logs
    /\ \A n \in RecoverableLogs(logs) : \E i \in 1..Len(order) : order[i] = n
    /\ \A i, j \in 1..Len(order) : i < j => order[i] < order[j]
    /\ full \subseteq 1..Len(order)
    /\ \A i \in 1..Len(order) : i \in full <=> LogEntries(logs[order[i]]) # {}
    /\ new \in Nat /\ manifest.next < new
    /\ \A i \in 1..Len(order) : order[i] < new
    /\ \A i \in full : next[i - 1] \in Nat /\ manifest.next < next[i - 1] /\ next[i - 1] < new
    /\ \A i, j \in full : i < j => next[i - 1] < next[j - 1]
    /\ DOMAIN tables' = DOMAIN tables \cup {next[i - 1] : i \in full}
    /\ \A i \in full : tables'[next[i - 1]] = LogEntries(logs[order[i]])
    /\ \A n \in DOMAIN tables : n <= manifest.next => tables'[n] = tables[n]
    /\ logs' = With(logs, new, EmptyLog)
    /\ db'.version = manifest.files /\ db'.logNumber = manifest.log /\ db'.logfile = new
    /\ db'.nextFile = new + 1 /\ db'.mem = {} /\ db'.imm = {} /\ db'.snapshots = {}
    /\ db'.bgError = FALSE
    /\ db'.lastSeq \in Nat /\ manifest.lastSeq <= db'.lastSeq
    /\ \A i \in full : \A e \in LogEntries(logs[order[i]]) : e.seq <= db'.lastSeq
    /\ bg'.edit = [kind |-> "open", adds |-> {<<0, next[i - 1]>> : i \in full}, deletes |-> {},
                   log |-> new, lastSeq |-> db'.lastSeq, next |-> new + 1, state |-> "new"]
    /\ bg'.edit # None /\ bg'.compaction = None
    /\ iterator = None /\ iterator' = None
    /\ UNCHANGED <<manifest, writers, history>>

(* Recover replays the logs. *)
LEMMA RecoverDoes ==
  ASSUME TypeInv, Recover
  PROVE  \E order, full, next : Recovers(order, full, next)
<1> DEFINE order == InOrder(RecoverableLogs(logs))
           next == NextNumbers(order)
           full == {i \in DOMAIN order : LogEntries(logs[order[i]]) # {}}
           new == next[Len(order)]
           last == LastSequence(UNION {LogEntries(logs[order[i]]) : i \in full})
           d == [Closed EXCEPT !.status = "opening", !.version = manifest.files,
                               !.logNumber = manifest.log, !.logfile = new, !.nextFile = new + 1,
                               !.lastSeq = last]
           adds == {<<0, next[i - 1]>> : i \in full}
<1>0. /\ order \in Seq(DOMAIN logs) /\ order \in Seq(Nat)
      /\ full \subseteq 1..Len(order) /\ full \in FiniteParts(Nat) /\ Len(order) \in Nat
      /\ \A i \in 1..Len(order) : order[i] \in RecoverableLogs(logs)
      /\ \A n \in RecoverableLogs(logs) : \E i \in 1..Len(order) : order[i] = n
      /\ \A i, j \in 1..Len(order) : i < j => order[i] < order[j]
  BY OrderOfLogs DEF TypeInv
<1>a. /\ \A i \in 1..Len(order) : order[i] \in DOMAIN logs
      /\ \A i \in 1..Len(order) : i \in full <=> LogEntries(logs[order[i]]) # {}
  BY <1>0
<1>1. manifest.next \in Nat
  BY DEF TypeInv, ManifestType
<1>2. /\ next \in [0..Len(order) -> Nat]
      /\ \A i \in 0..Len(order) : manifest.next < next[i]
      /\ \A i, j \in 0..Len(order) : i <= j => next[i] <= next[j]
      /\ \A i \in 1..Len(order) : /\ LogEntries(logs[order[i]]) # {} => next[i - 1] < next[i]
                                  /\ order[i] < next[i]
  <2> HIDE DEF order
  <2> QED BY <1>0, <1>1, NextNumbersRise
<1>5. /\ db.status = "closed"
      /\ Numbers(manifest.files) \subseteq DOMAIN tables
      /\ tables' = [n \in DOMAIN tables \cup {next[i - 1] : i \in full} |->
                       IF \E i \in full : n = next[i - 1]
                         THEN LogEntries(logs[order[CHOOSE i \in full : n = next[i - 1]]])
                         ELSE tables[n]]
      /\ logs' = With(logs, new, EmptyLog)
      /\ db' = d
      /\ bg' = [Resting EXCEPT !.edit = Edit("open", adds, {}, new, d)]
      /\ UNCHANGED <<manifest, writers, iterator, history>>
  BY DEF Recover
<1>4. last \in Nat /\ manifest.lastSeq <= last
      /\ \A i \in full : \A e \in LogEntries(logs[order[i]]) : e.seq <= last
  <2> DEFINE f == [i \in full |-> LogEntries(logs[order[i]])]
             all == UNION {LogEntries(logs[order[i]]) : i \in full}
  <2>0. \A i \in full : f[i] \in EntrySets
    <3> TAKE i \in full
    <3>1. order[i] \in DOMAIN logs
      BY <1>0
    <3>2. f[i] = LogEntries(logs[order[i]])
      OBVIOUS
    <3> HIDE DEF order, full, f
    <3> QED BY <3>1, <3>2, WholeLog DEF TypeInv
  <2>1. all = UNION {f[i] : i \in full}
    OBVIOUS
  <2>2. \A i \in full : LogEntries(logs[order[i]]) \subseteq all
    OBVIOUS
  <2>3. last = LastSequence(all)
    OBVIOUS
  <2> HIDE DEF f, full, all, last, order
  <2>4. IsFiniteSet({f[i] : i \in full})
    BY <1>0, ValuesFinite DEF FiniteParts
  <2>5. IsFiniteSet(all)
    BY <2>0, <2>1, <2>4, FS_UNION DEF EntrySets, FiniteParts
  <2>6. all \in EntrySets
    BY <2>0, <2>1, <2>5 DEF EntrySets, FiniteParts
  <2>7. manifest.lastSeq \in Nat
    BY DEF TypeInv, ManifestType
  <2> QED BY <2>2, <2>3, <2>6, <2>7, LastSequenceGreatest
<1> HIDE DEF order, next, full, new, last
<1>6. /\ new \in Nat /\ manifest.next < new
      /\ \A i \in 1..Len(order) : order[i] < new
      /\ \A i \in full : next[i - 1] \in Nat /\ manifest.next < next[i - 1] /\ next[i - 1] < new
      /\ \A i, j \in full : i < j => next[i - 1] < next[j - 1]
  <2>1. Len(order) \in 0..Len(order) /\ 1..Len(order) \subseteq 0..Len(order)
        /\ \A i \in 1..Len(order) : i - 1 \in 0..Len(order) /\ i <= Len(order)
    BY <1>0
  <2>2. new \in Nat /\ manifest.next < new
    BY <1>2, <2>1 DEF new
  <2>3. \A i \in 1..Len(order) : next[i] <= new /\ next[i] \in Nat
    BY <1>2, <2>1 DEF new
  <2>4. \A i \in 1..Len(order) : order[i] < new
    <3> TAKE i \in 1..Len(order)
    <3>1. order[i] \in Nat
      BY <1>0
    <3> QED BY <1>2, <2>2, <2>3, <3>1
  <2>5. \A i \in full : next[i - 1] \in Nat /\ manifest.next < next[i - 1]
    BY <1>0, <1>2, <2>1
  <2>6. \A i \in full : next[i - 1] < next[i]
    BY <1>0, <1>2, <1>a
  <2>7. \A i \in full : next[i - 1] < new
    <3> TAKE i \in full
    <3>1. i \in 1..Len(order)
      BY <1>0
    <3> QED BY <2>2, <2>3, <2>5, <2>6, <3>1
  <2>8. ASSUME NEW i \in full, NEW j \in full, i < j PROVE next[i - 1] < next[j - 1]
    <3>1. i \in 0..Len(order) /\ j - 1 \in 0..Len(order) /\ i <= j - 1
      BY <1>0, <2>1, <2>8
    <3>2. next[i] <= next[j - 1] /\ next[i] \in Nat
      BY <1>2, <3>1
    <3> QED BY <2>5, <2>6, <3>2
  <2> QED BY <2>2, <2>4, <2>5, <2>7, <2>8
<1>7. /\ DOMAIN tables' = DOMAIN tables \cup {next[i - 1] : i \in full}
      /\ \A i \in full : tables'[next[i - 1]] = LogEntries(logs[order[i]])
      /\ \A n \in DOMAIN tables : n <= manifest.next => tables'[n] = tables[n]
  <2>1. DOMAIN tables' = DOMAIN tables \cup {next[i - 1] : i \in full}
    BY <1>5
  <2>2. ASSUME NEW i \in full PROVE tables'[next[i - 1]] = LogEntries(logs[order[i]])
    <3> DEFINE n == next[i - 1]
               j == CHOOSE j \in full : n = next[j - 1]
    <3>1. j \in full /\ n = next[j - 1]
      OBVIOUS
    <3>2. tables'[n] = LogEntries(logs[order[j]])
      BY <1>5
    <3> HIDE DEF j
    <3>3. i \in Nat /\ j \in Nat /\ n \in Nat
      BY <1>0, <1>6, <3>1 DEF FiniteParts
    <3>4. ~(i < j) /\ ~(j < i)
      BY <1>6, <3>1, <3>3
    <3>5. i = j
      BY <3>3, <3>4
    <3> QED BY <3>2, <3>5
  <2>3. ASSUME NEW n \in DOMAIN tables, n <= manifest.next PROVE tables'[n] = tables[n]
    <3>1. n \in Nat
      BY DEF TypeInv, TablesType
    <3>2. ~\E i \in full : n = next[i - 1]
      BY <1>1, <1>6, <2>3, <3>1
    <3> QED BY <1>5, <3>2
  <2> QED BY <2>1, <2>2, <2>3
<1>8. /\ db'.status = "opening" /\ db'.version = manifest.files /\ db'.logNumber = manifest.log
      /\ db'.logfile = new /\ db'.nextFile = new + 1 /\ db'.mem = {} /\ db'.imm = {}
      /\ db'.snapshots = {} /\ db'.bgError = FALSE /\ db'.lastSeq = last
  <2> DEFINE files == manifest.files
             log == manifest.log
             l == new + 1
  <2>1. db' = [Closed EXCEPT !.status = "opening", !.version = files, !.logNumber = log,
                             !.logfile = new, !.nextFile = l, !.lastSeq = last]
    BY <1>5
  <2> HIDE DEF files, log, l
  <2>2. /\ db'.status = "opening" /\ db'.version = files /\ db'.logNumber = log
        /\ db'.logfile = new /\ db'.nextFile = l /\ db'.mem = {} /\ db'.imm = {}
        /\ db'.snapshots = {} /\ db'.bgError = FALSE /\ db'.lastSeq = last
    BY <2>1 DEF Closed
  <2> QED BY <2>2 DEF files, log, l
<1> DEFINE edit == [kind |-> "open", adds |-> adds, deletes |-> {},
                   log |-> new, lastSeq |-> last, next |-> new + 1, state |-> "new"]
<1>9. bg'.edit = edit /\ bg'.compaction = None
  <2>1. Edit("open", adds, {}, new, d) = edit
    <3>1. d.lastSeq = last /\ d.nextFile = new + 1
      BY <1>5, <1>8
    <3> HIDE DEF d, adds
    <3> QED BY <3>1 DEF Edit
  <2> HIDE DEF edit
  <2>2. bg' = [Resting EXCEPT !.edit = edit]
    BY <1>5, <2>1
  <2> QED BY <2>2 DEF Resting
<1>10. bg'.edit # None
  <2>1. TypeInv'
    BY RecoverTypes
  <2> QED BY <1>8, <2>1 DEF TypeInv, StatusInv
<1>b. bg'.edit = [kind |-> "open", adds |-> adds, deletes |-> {}, log |-> new,
                  lastSeq |-> db'.lastSeq, next |-> new + 1, state |-> "new"]
  <2> HIDE DEF adds, d
  <2> QED BY <1>8, <1>9
<1>c. bg'.compaction = None
  BY <1>9
<1>11. iterator = None
  BY <1>5 DEF TypeInv, StatusInv
<1>12. Recovers(order, full, next)
  <2>1. UNCHANGED <<manifest, writers, iterator, history>>
    BY <1>5
  <2> HIDE DEF d, edit
  <2> QED BY <1>0, <1>a, <1>b, <1>c, <1>4, <1>5, <1>6, <1>7, <1>8, <1>10, <1>11, <2>1
      DEF Recovers, new
<1> QED BY <1>12

(* Every step is one of these. *)
LEMMA Steps ==
  ASSUME TypeInv, [Next]_vars
  PROVE  \/ Quiet \/ Switches \/ Compacts \/ Appends \/ Installs \/ Closes
         \/ \E level : Flushes(level)
         \/ \E level, inputs : Moves(level, inputs)
         \/ \E level, inputs : Picks(level, inputs)
         \/ \E first, rest, numbers : Works(first, rest, numbers)
         \/ \E seq : Begins(seq)
         \/ \E order, full, next : Recovers(order, full, next)
<1>1. CASE \E batch \in budget["batches"], sync \in BOOLEAN : Write(batch, sync)
  BY <1>1, WritersQuiet
<1>2. CASE Leader
  BY <1>2, WritersQuiet, SwitchMemTableDoes DEF Leader
<1>3. CASE Background
  BY <1>3, BackgroundQuiet, BuildTableDoes, InstallDoes, PickCompactionDoes, TrivialMoveDoes,
     DoCompactionWorkDoes, InstallCompactionResultsDoes, ManifestDoes DEF Background
<1>4. CASE Reader
  BY <1>4, ReadersQuiet, NewIteratorDoes DEF Reader
<1>5. CASE Crash \/ Recover \/ OpenDone \/ OpenFails
  BY <1>5, CrashDoes, RecoverDoes, InstallDoes, OpenFailsDoes
<1>6. CASE UNCHANGED vars
  <2>1. db.nextFile \in Nat
    BY DEF TypeInv, DbType, Dbs
  <2>2. UNCHANGED <<tables, logs, manifest, db, bg, iterator, left, repeated>>
    BY <1>6 DEF vars, disk, history
  <2> QED BY <2>1, <2>2 DEF Quiet
<1> QED BY <1>1, <1>2, <1>3, <1>4, <1>5, <1>6 DEF Next

-----------------------------------------------------------------------------
\* The numbers of the files and what the MANIFEST says.

Adds(edit) == {a[2] : a \in edit.adds}

\* Numbers in use are below those to come, so that nothing in use is overwritten.
NumbersInv ==
    /\ \A n \in Numbers(manifest.files) : n < manifest.next
    /\ manifest.log < manifest.next
    /\ db.status # "closed" =>
          /\ manifest.next <= db.nextFile
          /\ \A n \in Numbers(db.version) : n < db.nextFile
          /\ \A n \in DOMAIN logs : n <= db.logfile
          /\ db.logNumber <= manifest.log
    /\ bg.compaction # None =>
          \A n \in Numbers(bg.compaction.version) \cup bg.compaction.outputs : n < db.nextFile
    /\ iterator # None => \A n \in Numbers(iterator.version) : n < db.nextFile
    /\ bg.edit # None =>
          /\ \A n \in Adds(bg.edit) \cup Numbers(db.version) : n < bg.edit.next
          /\ bg.edit.log < bg.edit.next
          /\ manifest.next <= bg.edit.next
          /\ bg.edit.next <= db.nextFile
          /\ db.logNumber <= bg.edit.log
          /\ bg.edit.state = "written" => manifest.log = bg.edit.log

\* The MANIFEST's tables are on disk: what may be deleted is in no version it may describe.
DiskInv ==
    /\ Numbers(manifest.files) \subseteq DOMAIN tables
    /\ db.status # "closed" /\ ~db.bgError =>
          \/ /\ manifest.files = db.version /\ manifest.log = db.logNumber
             /\ bg.edit # None => bg.edit.state \in {"new", "failed"}
          \/ /\ bg.edit # None /\ bg.edit.state \in {"written", "failed"}
             /\ manifest.files = Applied(db.version, bg.edit) /\ manifest.log = bg.edit.log
    /\ db.status = "opening" => ~db.bgError

FilesInv == TypeInv /\ NumbersInv /\ DiskInv

(* The facts of the types that the following proofs use. *)
LEMMA FileTypes ==
  ASSUME TypeInv
  PROVE  /\ db.nextFile \in Nat /\ db.logfile \in Nat /\ db.logNumber \in Nat
         /\ db.lastSeq \in Nat /\ db.version \in Files /\ db.bgError \in BOOLEAN
         /\ manifest.files \in Files /\ manifest.next \in Nat /\ manifest.log \in Nat
         /\ manifest.lastSeq \in Nat
         /\ \A files \in Files : Numbers(files) \subseteq Nat
         /\ DOMAIN tables \subseteq Nat /\ DOMAIN logs \subseteq Nat
         /\ bg.edit # None => /\ IsEdit(bg.edit) /\ bg.edit.log \in Nat /\ bg.edit.next \in Nat
                              /\ bg.edit.lastSeq \in Nat /\ Adds(bg.edit) \subseteq Nat
                              /\ Adds(bg.edit) \subseteq DOMAIN tables
         /\ bg.compaction # None => /\ bg.compaction.version \in Files
                                    /\ bg.compaction.outputs \subseteq Nat
                                    /\ bg.compaction.upper \subseteq Nat
                                    /\ bg.compaction.lower \subseteq Nat
         /\ iterator # None => iterator.version \in Files
<1>1. \A files \in Files : Numbers(files) \subseteq Nat
  BY DEF Files, Numbers, FiniteParts
<1>2. /\ db.nextFile \in Nat /\ db.logfile \in Nat /\ db.logNumber \in Nat
      /\ db.lastSeq \in Nat /\ db.version \in Files /\ db.bgError \in BOOLEAN
      /\ manifest.files \in Files /\ manifest.next \in Nat /\ manifest.log \in Nat
      /\ manifest.lastSeq \in Nat
      /\ DOMAIN tables \subseteq Nat /\ DOMAIN logs \subseteq Nat
      /\ iterator # None => iterator.version \in Files
  BY DEF TypeInv, DbType, Dbs, ManifestType, TablesType, LogsType, FiniteParts, IteratorType
<1>3. ASSUME bg.edit # None
      PROVE  /\ IsEdit(bg.edit) /\ bg.edit.log \in Nat /\ bg.edit.next \in Nat
             /\ bg.edit.lastSeq \in Nat /\ Adds(bg.edit) \subseteq Nat
             /\ Adds(bg.edit) \subseteq DOMAIN tables
  BY <1>3 DEF TypeInv, BgType, IsEdit, Edits, Adds, HeldInv
<1>4. ASSUME bg.compaction # None
      PROVE  /\ bg.compaction.version \in Files /\ bg.compaction.outputs \subseteq Nat
             /\ bg.compaction.upper \subseteq Nat /\ bg.compaction.lower \subseteq Nat
  BY <1>4 DEF TypeInv, BgType, IsCompaction, Compactions, FiniteParts
<1> QED BY <1>1, <1>2, <1>3, <1>4

(* What an edit makes of a version's numbers. *)
LEMMA AppliedNumbers ==
  ASSUME NEW files \in Files, NEW edit, IsEdit(edit)
  PROVE  /\ Applied(files, edit) \in Files
         /\ Numbers(Applied(files, edit)) \subseteq Numbers(files) \cup Adds(edit)
BY AppliedFiles DEF IsEdit, Adds

(* A step that touches no table, version or edit keeps the numbers apart and the files that are needed. *)
LEMMA QuietFiles ==
  ASSUME FilesInv, TypeInv', Quiet
  PROVE  NumbersInv' /\ DiskInv'
<1>1. TypeInv /\ NumbersInv /\ DiskInv /\ db'.nextFile \in Nat
  BY FileTypes DEF FilesInv, TypeInv, DbType, Dbs
<1>2. NumbersInv'
  <2>1. /\ \A n \in Numbers(manifest'.files) : n < manifest'.next
        /\ manifest'.log < manifest'.next
    BY <1>1 DEF Quiet, NumbersInv
  <2>2. db'.status # "closed" =>
          /\ manifest'.next <= db'.nextFile
          /\ \A n \in Numbers(db'.version) : n < db'.nextFile
          /\ \A n \in DOMAIN logs' : n <= db'.logfile
          /\ db'.logNumber <= manifest'.log
    BY <1>1, FileTypes DEF Quiet, NumbersInv
  <2>3. bg'.compaction # None =>
          \A n \in Numbers(bg'.compaction.version) \cup bg'.compaction.outputs : n < db'.nextFile
    BY <1>1, FileTypes DEF Quiet, NumbersInv
  <2>4. iterator' # None => \A n \in Numbers(iterator'.version) : n < db'.nextFile
    BY <1>1, FileTypes DEF Quiet, NumbersInv
  <2>5. bg'.edit # None =>
          /\ \A n \in Adds(bg'.edit) \cup Numbers(db'.version) : n < bg'.edit.next
          /\ bg'.edit.log < bg'.edit.next
          /\ manifest'.next <= bg'.edit.next
          /\ bg'.edit.next <= db'.nextFile
          /\ db'.logNumber <= bg'.edit.log
          /\ bg'.edit.state = "written" => manifest'.log = bg'.edit.log
    BY <1>1, FileTypes DEF Quiet, NumbersInv
  <2> QED BY <2>1, <2>2, <2>3, <2>4, <2>5 DEF NumbersInv
<1>3. DiskInv'
  <2>1. Numbers(manifest'.files) \subseteq DOMAIN tables'
    BY <1>1 DEF Quiet, DiskInv
  <2>2. db'.status # "closed" /\ ~db'.bgError =>
          /\ db.status # "closed" /\ ~db.bgError /\ bg'.edit = bg.edit
    BY DEF Quiet
  <2>3. db'.status = "opening" => ~db'.bgError
    BY <1>1 DEF Quiet, DiskInv
  <2> QED BY <1>1, <2>1, <2>2, <2>3 DEF Quiet, DiskInv
<1> QED BY <1>2, <1>3

(* A switch of the memtable keeps the numbers apart and the files that are needed. *)
LEMMA SwitchesFiles ==
  ASSUME FilesInv, TypeInv', Switches
  PROVE  NumbersInv' /\ DiskInv'
<1>1. TypeInv /\ NumbersInv /\ DiskInv
  BY DEF FilesInv
<1> USE FileTypes
<1>2. DOMAIN logs' = DOMAIN logs \cup {db.nextFile} /\ db.logfile < db.nextFile
  BY <1>1 DEF Switches, With, TypeInv, StatusInv
<1>3. NumbersInv'
  BY <1>1, <1>2 DEF Switches, NumbersInv
<1>4. DiskInv'
  BY <1>1 DEF Switches, DiskInv
<1> QED BY <1>3, <1>4

(* A new table of a memtable keeps the numbers apart and the files that are needed. *)
LEMMA FlushesFiles ==
  ASSUME FilesInv, TypeInv', NEW level, Flushes(level)
  PROVE  NumbersInv' /\ DiskInv'
<1>1. TypeInv /\ NumbersInv /\ DiskInv
  BY DEF FilesInv
<1>2. db.logfile < db.nextFile /\ db.logNumber <= db.logfile /\ DOMAIN tables \subseteq DOMAIN tables'
  BY <1>1 DEF Flushes, With, TypeInv, StatusInv
<1>3. Adds(bg'.edit) = {db.nextFile} /\ bg'.edit.log = db.logfile /\ bg'.edit.next = db.nextFile + 1
      /\ bg'.edit.state = "new"
  BY DEF Flushes, Adds
<1>a. /\ db.status = "open" /\ db'.status = "open" /\ db'.version = db.version /\ bg.edit = None
      /\ db'.bgError = db.bgError /\ db'.logNumber = db.logNumber /\ db'.logfile = db.logfile
      /\ db'.nextFile = db.nextFile + 1 /\ bg'.compaction = bg.compaction
      /\ UNCHANGED <<logs, manifest, iterator>>
  BY DEF Flushes, SameVersion
<1>b. /\ db.nextFile \in Nat /\ db.logNumber \in Nat /\ db.logfile \in Nat
      /\ manifest.next \in Nat /\ Numbers(db.version) \subseteq Nat
      /\ bg.compaction # None =>
            Numbers(bg.compaction.version) \cup bg.compaction.outputs \subseteq Nat
      /\ iterator # None => Numbers(iterator.version) \subseteq Nat
  BY <1>1, FileTypes
<1>4. NumbersInv'
  <2>1. manifest.next <= db.nextFile
    BY <1>1, <1>a DEF NumbersInv
  <2>2. \A n \in Numbers(db.version) : n < db.nextFile
    BY <1>1, <1>a DEF NumbersInv
  <2>3. \A n \in Adds(bg'.edit) \cup Numbers(db.version) : n < db.nextFile + 1
    BY <1>b, <1>3, <2>2
  <2> QED BY <1>1, <1>2, <1>3, <1>a, <1>b, <2>1, <2>2, <2>3 DEF NumbersInv
<1>5. DiskInv'
  BY <1>1, <1>2, <1>3, <1>a DEF DiskInv
<1> QED BY <1>4, <1>5

(* A move to the next level keeps the numbers apart and the files that are needed. *)
LEMMA MovesFiles ==
  ASSUME FilesInv, TypeInv', NEW level, NEW inputs, Moves(level, inputs)
  PROVE  NumbersInv' /\ DiskInv'
<1>1. TypeInv /\ NumbersInv /\ DiskInv
  BY DEF FilesInv
<1>2. db.logfile < db.nextFile /\ db.logNumber <= db.logfile
      /\ UNCHANGED <<tables, logs, manifest, db, iterator>>
  BY <1>1 DEF Moves, TypeInv, StatusInv, disk
<1>3. Adds(bg'.edit) \subseteq Numbers(db.version)
  <2>1. PICK n \in db.version[level] : inputs \in Inputs(tables, db.version, level, {n})
    BY DEF Moves
  <2>2. inputs.upper \subseteq Numbers(db.version)
    <3>1. level \in 0..MaxLevel - 1 /\ db.version \in Files /\ {n} \in SUBSET db.version[level]
      BY <1>1, <2>1, FileTypes DEF Moves
    <3>2. \A m \in inputs.upper \cup inputs.lower : m \in Numbers(db.version)
      BY <2>1, <3>1, InputFiles
    <3> QED BY <3>2
  <2> QED BY <2>2 DEF Moves, Adds
<1>4. bg'.edit.log = db.logNumber /\ bg'.edit.next = db.nextFile /\ bg'.edit.state = "new"
      /\ bg'.compaction = None /\ bg.edit = None /\ db.status = "open"
  BY DEF Moves
<1>5. NumbersInv'
  BY <1>1, <1>2, <1>3, <1>4, FileTypes DEF NumbersInv
<1>6. DiskInv'
  BY <1>1, <1>2, <1>4 DEF DiskInv
<1> QED BY <1>5, <1>6

(* The edit of a compaction keeps the numbers apart and the files that are needed. *)
LEMMA CompactsFiles ==
  ASSUME FilesInv, TypeInv', Compacts
  PROVE  NumbersInv' /\ DiskInv'
<1>1. TypeInv /\ NumbersInv /\ DiskInv
  BY DEF FilesInv
<1>2. db.logfile < db.nextFile /\ db.logNumber <= db.logfile
      /\ UNCHANGED <<tables, logs, manifest, db, iterator>>
  BY <1>1 DEF Compacts, TypeInv, StatusInv, disk
<1>3. Adds(bg'.edit) \subseteq bg.compaction.outputs
  BY DEF Compacts, Adds
<1>4. bg'.edit.log = db.logNumber /\ bg'.edit.next = db.nextFile /\ bg'.edit.state = "new"
      /\ bg'.compaction = bg.compaction /\ bg.edit = None /\ bg.compaction # None
      /\ db.status = "open"
  BY DEF Compacts
<1>5. NumbersInv'
  BY <1>1, <1>2, <1>3, <1>4, FileTypes DEF NumbersInv
<1>6. DiskInv'
  BY <1>1, <1>2, <1>4 DEF DiskInv
<1> QED BY <1>5, <1>6

(* A write of the MANIFEST keeps the numbers apart and the files that are needed. *)
LEMMA AppendsFiles ==
  ASSUME FilesInv, TypeInv', Appends
  PROVE  NumbersInv' /\ DiskInv'
<1>1. TypeInv /\ NumbersInv /\ DiskInv
  BY DEF FilesInv
<1>2. /\ bg.edit # None /\ IsEdit(bg.edit) /\ bg.edit.state = "new"
      /\ bg'.edit # None /\ Adds(bg'.edit) = Adds(bg.edit)
      /\ bg'.edit.deletes = bg.edit.deletes /\ bg'.edit.log = bg.edit.log
      /\ bg'.edit.next = bg.edit.next
      /\ bg'.edit.state \in {"written", "failed"}
      /\ bg'.compaction = bg.compaction
      /\ UNCHANGED <<tables, logs, db, iterator>>
      /\ Applied(db.version, bg'.edit) = Applied(db.version, bg.edit)
  BY DEF Appends, Adds, Applied
<1>3. db.status # "closed"
  BY <1>1, <1>2 DEF TypeInv, StatusInv, Resting
<1>4. CASE AppendEdit
  <2>1. /\ manifest'.files = Applied(manifest.files, bg.edit) /\ manifest'.log = bg.edit.log
        /\ manifest'.next = bg.edit.next
    BY <1>4 DEF AppendEdit
  <2>2. Numbers(manifest'.files) \subseteq Numbers(manifest.files) \cup Adds(bg.edit)
    BY <1>1, <1>2, <2>1, AppliedNumbers, FileTypes
  <2>3. NumbersInv'
    BY <1>1, <1>2, <1>3, <2>1, <2>2, FileTypes DEF NumbersInv
  <2>4. DiskInv'
    BY <1>1, <1>2, <1>3, <2>1, <2>2, FileTypes DEF DiskInv
  <2> QED BY <2>3, <2>4
<1>5. CASE bg'.edit.state = "failed" /\ UNCHANGED <<manifest, repeated>>
  <2>1. NumbersInv'
    BY <1>1, <1>2, <1>3, <1>5, FileTypes DEF NumbersInv
  <2>2. DiskInv'
    BY <1>1, <1>2, <1>3, <1>5, FileTypes DEF DiskInv
  <2> QED BY <2>1, <2>2
<1> QED BY <1>4, <1>5 DEF Appends

(* An edit's end keeps the numbers apart and the files that are needed. *)
LEMMA InstallsFiles ==
  ASSUME FilesInv, TypeInv', Installs
  PROVE  NumbersInv' /\ DiskInv'
<1>1. TypeInv /\ NumbersInv /\ DiskInv
  BY DEF FilesInv
<1>2. /\ bg.edit # None /\ IsEdit(bg.edit) /\ bg.edit.state = "written"
      /\ db.status # "closed" /\ db'.status = "open"
      /\ db'.version = Applied(db.version, bg.edit) /\ db'.logNumber = bg.edit.log
      /\ db'.bgError = db.bgError /\ db'.logfile = db.logfile
      /\ db'.nextFile = db.nextFile
      /\ bg'.edit = None /\ bg'.compaction \in {bg.compaction, None}
      /\ UNCHANGED <<manifest, iterator>>
  BY DEF Installs
<1>3. /\ DOMAIN logs' \subseteq DOMAIN logs
      /\ DOMAIN tables \cap Numbers(db'.version) \subseteq DOMAIN tables'
      /\ db'.bgError => tables' = tables
  <2>1. CASE UNCHANGED <<tables, logs>>
    BY <2>1
  <2>2. CASE DeleteObsoleteFiles(db', bg'.compaction)
    <3>1. Numbers(db'.version) \subseteq Live(db', bg'.compaction)
      BY DEF Live
    <3> QED BY <1>1, <2>2, <3>1, DeletedTypes DEF TypeInv
  <2> QED BY <2>1, <2>2 DEF Installs
<1>4. Numbers(db'.version) \subseteq Numbers(db.version) \cup Adds(bg.edit)
  BY <1>1, <1>2, AppliedNumbers, FileTypes
<1>5. NumbersInv'
  BY <1>1, <1>2, <1>3, <1>4, FileTypes DEF NumbersInv
<1>6. DiskInv'
  <2>1. CASE db.bgError
    BY <1>1, <1>2, <1>3, <2>1 DEF DiskInv
  <2>2. CASE ~db.bgError
    BY <1>1, <1>2, <1>3, <2>2 DEF DiskInv
  <2> QED BY <2>1, <2>2
<1> QED BY <1>5, <1>6

(* The pick of a compaction keeps the numbers apart and the files that are needed. *)
LEMMA PicksFiles ==
  ASSUME FilesInv, TypeInv', NEW level, NEW inputs, Picks(level, inputs)
  PROVE  NumbersInv' /\ DiskInv'
<1>1. TypeInv /\ NumbersInv /\ DiskInv
  BY DEF FilesInv
<1>2. UNCHANGED <<tables, logs, manifest, db, iterator>> /\ db.status = "open"
      /\ bg.edit = None /\ bg'.edit = None
      /\ bg'.compaction.version = db.version /\ bg'.compaction.outputs = {}
  BY <1>1 DEF Picks, disk
<1>3. NumbersInv'
  BY <1>1, <1>2, FileTypes DEF NumbersInv
<1>4. DiskInv'
  BY <1>1, <1>2 DEF DiskInv
<1> QED BY <1>3, <1>4

(* The work of a compaction keeps the numbers apart and the files that are needed. *)
LEMMA WorksFiles ==
  ASSUME FilesInv, TypeInv', NEW first, NEW rest, NEW numbers, Works(first, rest, numbers)
  PROVE  NumbersInv' /\ DiskInv'
<1>1. TypeInv /\ NumbersInv /\ DiskInv
  BY DEF FilesInv
<1>2. /\ DOMAIN tables \subseteq DOMAIN tables' /\ SameVersion /\ db.nextFile <= db'.nextFile
      /\ UNCHANGED <<logs, manifest, iterator>> /\ db.status = "open"
      /\ bg.edit = None /\ bg'.edit = None /\ bg.compaction # None
      /\ bg'.compaction.version = bg.compaction.version
      /\ \A n \in bg'.compaction.outputs : n < db'.nextFile
  BY <1>1 DEF Works
<1>3. db'.nextFile \in Nat
  BY DEF TypeInv, DbType, Dbs
<1>4. NumbersInv'
  BY <1>1, <1>2, <1>3, FileTypes DEF NumbersInv, SameVersion
<1>5. DiskInv'
  BY <1>1, <1>2 DEF DiskInv, SameVersion
<1> QED BY <1>4, <1>5

(* A new iterator keeps the numbers apart and the files that are needed. *)
LEMMA BeginsFiles ==
  ASSUME FilesInv, TypeInv', NEW seq, Begins(seq)
  PROVE  NumbersInv' /\ DiskInv'
<1>1. TypeInv /\ NumbersInv /\ DiskInv
  BY DEF FilesInv
<1>2. UNCHANGED <<tables, logs, manifest, db, bg>> /\ iterator'.version = db.version
      /\ db.status = "open"
  BY DEF Begins, disk
<1>3. NumbersInv'
  BY <1>1, <1>2 DEF NumbersInv
<1>4. DiskInv'
  BY <1>1, <1>2 DEF DiskInv
<1> QED BY <1>3, <1>4

(* A crash or a failed opening keeps the numbers apart and the files that are needed. *)
LEMMA ClosesFiles ==
  ASSUME FilesInv, Closes
  PROVE  NumbersInv' /\ DiskInv'
<1>1. NumbersInv /\ DiskInv
  BY DEF FilesInv
<1>2. NumbersInv'
  BY <1>1 DEF NumbersInv, Closes
<1>3. DiskInv'
  BY <1>1 DEF DiskInv, Closes
<1> QED BY <1>2, <1>3

(* A recovery keeps the numbers apart and the files that are needed. *)
LEMMA RecoversFiles ==
  ASSUME FilesInv, TypeInv', NEW order, NEW full, NEW next, Recovers(order, full, next)
  PROVE  NumbersInv' /\ DiskInv'
<1> DEFINE new == next[Len(order)]
<1>1. TypeInv /\ NumbersInv /\ DiskInv
  BY DEF FilesInv
<1>2. /\ new \in Nat /\ manifest.next < new /\ manifest.log < manifest.next
      /\ manifest.next \in Nat /\ manifest.log \in Nat
      /\ db'.version = manifest.files /\ db'.logNumber = manifest.log /\ db'.logfile = new
      /\ db'.nextFile = new + 1 /\ db'.bgError = FALSE /\ db'.status = "opening"
      /\ DOMAIN tables \subseteq DOMAIN tables' /\ DOMAIN logs' = DOMAIN logs \cup {new}
      /\ manifest' = manifest /\ iterator' = None /\ bg'.compaction = None
  BY <1>1, FileTypes DEF Recovers, With, NumbersInv
<1>3. bg'.edit.log = new /\ bg'.edit.next = new + 1 /\ bg'.edit.state = "new"
  BY DEF Recovers
<1>4. \A n \in Adds(bg'.edit) : n < new
  BY DEF Recovers, Adds
<1>5. \A n \in DOMAIN logs : n < new
  <2> TAKE n \in DOMAIN logs
  <2>0. n \in Nat
    BY <1>1, FileTypes
  <2>1. CASE n >= manifest.log
    BY <2>1 DEF Recovers, RecoverableLogs
  <2>2. CASE n < manifest.log
    BY <1>2, <2>0, <2>2
  <2> QED BY <1>2, <2>0, <2>1, <2>2
<1> HIDE DEF new
<1>6. Adds(bg'.edit) \subseteq Nat
  BY FileTypes DEF TypeInv, BgType, Recovers, IsEdit, Edits, Adds
<1>7. NumbersInv'
  <2>1. \A n \in Numbers(manifest.files) : n \in Nat /\ n < manifest.next
    BY <1>1, FileTypes DEF NumbersInv
  <2>2. \A n \in DOMAIN logs : n \in Nat
    BY <1>1, FileTypes
  <2> QED BY <1>2, <1>3, <1>4, <1>5, <1>6, <2>1, <2>2 DEF NumbersInv
<1>8. DiskInv'
  BY <1>1, <1>2, <1>3 DEF DiskInv
<1> QED BY <1>7, <1>8

(* It is so in the beginning, and remains so. *)
LEMMA FilesInit ==
  ASSUME Init
  PROVE  FilesInv
<1>1. /\ db.status = "closed" /\ bg.edit = None /\ bg.compaction = None /\ iterator = None
      /\ manifest.files = NoTables /\ manifest.log = 0 /\ manifest.next = 2
  BY DEF Init, Closed, Resting
<1>2. Numbers(NoTables) = {}
  BY DEF Numbers, NoTables
<1> QED BY <1>1, <1>2, TypesInit DEF FilesInv, NumbersInv, DiskInv

(* Every step keeps the numbers apart and the files that are needed. *)
LEMMA FilesStep ==
  ASSUME FilesInv, [Next]_vars
  PROVE  FilesInv'
<1>1. TypeInv'
  BY TypesStep DEF FilesInv
<1>2. NumbersInv' /\ DiskInv'
  BY <1>1, Steps, QuietFiles, SwitchesFiles, CompactsFiles, AppendsFiles, InstallsFiles,
     ClosesFiles,
     FlushesFiles, MovesFiles, PicksFiles, WorksFiles, BeginsFiles, RecoversFiles DEF FilesInv
<1> QED BY <1>1, <1>2 DEF FilesInv

(* (db_impl.cc:223 DeleteObsoleteFiles, version_set.cc:801 LogAndApply) In every reachable state the
   numbers in use are below those to come, and every table that a version, an edit, a compaction
   or an iterator names, like every log still to be replayed, is in the directory: no file is
   deleted or overwritten while something needs it. *)
THEOREM FilesAlways == Spec => []FilesInv
<1>1. Init => FilesInv
  BY FilesInit
<1>2. FilesInv /\ [Next]_vars => FilesInv'
  BY FilesStep
<1> QED BY <1>1, <1>2, PTL DEF Spec

-----------------------------------------------------------------------------
\* The history of the writes.

HistoryInv == committed \in EntrySets /\ acked \subseteq committed /\ synced \subseteq committed

(* A union of finitely many finite sets of entries is one. *)
LEMMA EntriesOfMany ==
  ASSUME NEW f, NEW S, IsFiniteSet(S), \A x \in S : f[x] \in EntrySets
  PROVE  UNION {f[x] : x \in S} \in EntrySets
<1> DEFINE parts == {f[x] : x \in S}
<1>1. IsFiniteSet(parts)
  BY ValuesFinite
<1>2. \A T \in parts : IsFiniteSet(T) /\ T \subseteq Entries
  BY DEF EntrySets, FiniteParts
<1> HIDE DEF parts
<1>3. IsFiniteSet(UNION parts) /\ UNION parts \subseteq Entries
  BY <1>1, <1>2, FS_UNION
<1>4. UNION parts \in EntrySets
  BY <1>3 DEF EntrySets, FiniteParts
<1> QED BY <1>4 DEF parts

(* Two of them. *)
LEMMA EntriesOfTwo ==
  ASSUME NEW A \in EntrySets, NEW B \in EntrySets
  PROVE  A \cup B \in EntrySets
BY FS_Union DEF EntrySets, FiniteParts

(* What is in tables on disk. *)
LEMMA ContentsFinite ==
  ASSUME TablesType, NEW numbers \in FiniteParts(Nat), numbers \subseteq DOMAIN tables
  PROVE  Contents(tables, numbers) \in EntrySets
<1>1. IsFiniteSet(numbers) /\ \A n \in numbers : tables[n] \in EntrySets
  BY DEF TablesType, FiniteParts
<1> QED BY <1>1, EntriesOfMany DEF Contents

(* The numbers of a version are finitely many. *)
LEMMA FilesFinite ==
  ASSUME NEW files \in Files
  PROVE  Numbers(files) \in FiniteParts(Nat)
BY NumbersFinite DEF Files, FiniteParts

(* What recovery finds. *)
LEMMA RecoverableFinite ==
  ASSUME FilesInv, NEW lengths, \A n \in RecoverableLogs(logs) : lengths[n] \in 0..Len(logs[n].records)
  PROVE  Recoverable(lengths) \in EntrySets
<1>1. TypeInv /\ DiskInv
  BY DEF FilesInv
<1>2. Contents(tables, Numbers(manifest.files)) \in EntrySets
  BY <1>1, FilesFinite, ContentsFinite, FileTypes DEF DiskInv, TypeInv
<1> DEFINE S == RecoverableLogs(logs)
           f == [n \in S |-> FirstEntries(logs[n], lengths[n])]
<1>3. S \subseteq DOMAIN logs /\ IsFiniteSet(S)
  <2>1. IsFiniteSet(DOMAIN logs) /\ S \subseteq DOMAIN logs
    BY <1>1 DEF TypeInv, LogsType, FiniteParts, RecoverableLogs
  <2> QED BY <2>1, FS_Subset
<1>4. \A n \in S : f[n] \in EntrySets
  <2> TAKE n \in S
  <2>1. logs[n].records \in Seq(EntrySets)
    BY <1>1, <1>3 DEF TypeInv, LogsType, Logs
  <2> QED BY <2>1, LogEntriesFinite
<1>5. UNION {f[n] : n \in S} \in EntrySets
  <2> HIDE DEF f, S
  <2> QED BY <1>3, <1>4, EntriesOfMany
<1>6. Recoverable(lengths) = Contents(tables, Numbers(manifest.files)) \cup UNION {f[n] : n \in S}
  BY DEF Recoverable
<1> HIDE DEF f, S
<1> QED BY <1>2, <1>5, <1>6, EntriesOfTwo

(* Only the end of a write and a crash make history. *)
LEMMA HistorySame ==
  ASSUME [Next]_vars
  PROVE  UNCHANGED <<committed, acked, synced>> \/ EndWrite \/ Crash
<1>1. CASE \E batch \in budget["batches"], sync \in BOOLEAN : Write(batch, sync)
  BY <1>1 DEF Write, history
<1>2. CASE Leader
  BY <1>2 DEF Leader, WriteRefused, BeginWrite, Wait, SwitchMemTable, SwitchFails, AddRecord,
     AddRecordFails, Sync, SyncFails, InsertInto, history
<1>3. CASE Background
  BY <1>3 DEF Background, NothingToDo, BuildTable, BuildTableFails, InstallFlush, PickCompaction,
     TrivialMove, InstallMove, DoCompactionWork, DoCompactionWorkFails, InstallCompactionResults,
     CleanupCompaction, WriteManifest, WriteManifestFails, EditRefused, history
<1>4. CASE Reader
  BY <1>4 DEF Reader, AskCompaction, NewIterator, ReleaseIterator, GetSnapshot, ReleaseSnapshot,
     history
<1>5. CASE Recover \/ OpenDone \/ OpenFails
  BY <1>5 DEF Recover, OpenDone, OpenFails, history
<1>6. CASE UNCHANGED vars
  BY <1>6 DEF vars, history
<1> QED BY <1>1, <1>2, <1>3, <1>4, <1>5, <1>6 DEF Next

(* Every step keeps the types of the history variables. *)
LEMMA HistoryStep ==
  ASSUME FilesInv, HistoryInv, [Next]_vars
  PROVE  HistoryInv'
<1>1. CASE UNCHANGED <<committed, acked, synced>>
  BY <1>1 DEF HistoryInv
<1>2. CASE EndWrite
  <2>1. GroupEntries \in EntrySets
    BY GroupEntriesFinite DEF FilesInv, TypeInv, DbType, Dbs
  <2>2. committed \cup GroupEntries \in EntrySets
    BY <2>1, EntriesOfTwo DEF HistoryInv
  <2>3. SyncedEntries \subseteq GroupEntries
    BY DEF SyncedEntries
  <2> QED BY <1>2, <2>2, <2>3 DEF HistoryInv, EndWrite, history
<1>3. CASE Crash
  <2>1. PICK lengths : Keeps(lengths)
    BY <1>3, CrashDoes DEF FilesInv
  <2>2. committed' \in EntrySets
    BY <2>1, RecoverableFinite DEF Keeps, RecoverableLogs
  <2> QED BY <2>1, <2>2 DEF Keeps, HistoryInv
<1> QED BY <1>1, <1>2, <1>3, HistorySame

(* The history variables have their types at first. *)
LEMMA HistoryInit ==
  ASSUME Init
  PROVE  HistoryInv
BY FS_EmptySet DEF Init, HistoryInv, EntrySets, FiniteParts

(* What leveldb's variables are in every state: the tables' and the logs' contents, what
   the MANIFEST says, the fields of DBImpl, the background thread's edit and compaction,
   the reader's version, and the history. *)
THEOREM TypeOKAlways == Spec => []TypeOK
<1>1. Init => FilesInv /\ HistoryInv
  BY FilesInit, HistoryInit
<1>2. FilesInv /\ HistoryInv /\ [Next]_vars => (FilesInv /\ HistoryInv)'
  BY FilesStep, HistoryStep
<1>3. FilesInv /\ HistoryInv => TypeOK
  <2> SUFFICES ASSUME FilesInv, HistoryInv PROVE TypeOK
    OBVIOUS
  <2>0. TypeInv
    BY DEF FilesInv
  <2>1. \A n \in DOMAIN tables : n \in Nat /\ tables[n] \subseteq Entries
    BY <2>0 DEF TypeInv, TablesType, EntrySets, FiniteParts
  <2>2. \A n \in DOMAIN logs :
          /\ n \in Nat
          /\ \A i \in DOMAIN logs[n].records : logs[n].records[i] \subseteq Entries
          /\ {logs[n].synced, logs[n].good} \subseteq 0..Len(logs[n].records)
          /\ logs[n].torn \in BOOLEAN
    <3> TAKE n \in DOMAIN logs
    <3>1. logs[n] \in Logs /\ n \in Nat /\ {logs[n].synced, logs[n].good} \subseteq 0..Len(logs[n].records)
      BY <2>0 DEF TypeInv, LogsType, FiniteParts
    <3>2. logs[n].records \in Seq(EntrySets) /\ logs[n].torn \in BOOLEAN
      BY <3>1 DEF Logs
    <3>3. \A i \in DOMAIN logs[n].records : logs[n].records[i] \in EntrySets
      BY <3>2
    <3> QED BY <3>1, <3>2, <3>3 DEF EntrySets, FiniteParts
  <2>3. manifest.files \in Versions /\ db.version \in Versions
    BY <2>0, FileTypes DEF Files, Versions, FiniteParts
  <2>4. /\ db.status \in {"closed", "opening", "open"}
        /\ db.mem \cup db.imm \subseteq Entries
        /\ db.bgError \in BOOLEAN
    BY <2>0 DEF TypeInv, DbType, Dbs, Statuses, EntrySets, FiniteParts
  <2>5. /\ stage \in {"front", "append", "sync", "insert", "written", "failed", "unsynced", "waiting"}
        /\ group \in 0..Len(queue)
    BY <2>0 DEF TypeInv, WritersType, Writing
  <2>6. /\ bg.scheduled \in BOOLEAN
        /\ bg.edit \in Edits \cup {None}
        /\ bg.compaction \in Compactions \cup {None}
        /\ iterator \in Iterators \cup {None}
    BY <2>0 DEF TypeInv, BgType, IteratorType
  <2>7. committed \cup acked \cup synced \subseteq Entries
    BY DEF HistoryInv, EntrySets, FiniteParts
  <2>8. left \subseteq Keys /\ repeated \in BOOLEAN
    BY <2>0 DEF TypeInv, OthersType
  <2> QED BY <2>1, <2>2, <2>3, <2>4, <2>5, <2>6, <2>7, <2>8 DEF TypeOK
<1> QED BY <1>1, <1>2, <1>3, PTL DEF Spec

-----------------------------------------------------------------------------
\* What the quiet steps do to the writers, the memory table and the logs.

\* Nothing but to let them sleep, wake up, join the queue or return with an error.
Rests ==
    /\ Quiet
    /\ logs' = logs
    /\ db'.mem = db.mem /\ db'.lastSeq = db.lastSeq
    /\ db'.snapshots \subseteq db.snapshots \cup {db.lastSeq}
    /\ db'.snapshots = db.snapshots \/ db.status = "open"
    /\ group' = group
    /\ \A i \in 1..group : queue'[i] = queue[i]
    /\ \/ stage' = stage
       \/ {stage, stage'} \subseteq {"front", "waiting"}
       \/ stage = "sync" /\ stage' = "unsynced"
    /\ UNCHANGED <<committed, acked, synced>>

(* The writers that only rest. *)
LEMMA WritersRest ==
  ASSUME TypeInv,
         \/ \E batch \in budget["batches"], sync \in BOOLEAN : Write(batch, sync)
         \/ WriteRefused \/ Wait \/ SwitchFails \/ SyncFails
  PROVE  Rests
<1>1. Quiet
  BY WritersQuiet
<1>2. UNCHANGED <<logs, db, committed, acked, synced>>
  BY DEF Write, WriteRefused, Wait, SwitchFails, SyncFails, disk, history
<1>3. group \in 0..Len(queue) /\ queue \in Seq(Requests) /\ (stage = "front" => group = 0)
  BY DEF TypeInv, WritersType, Writing
<1>4. CASE \E batch \in budget["batches"], sync \in BOOLEAN : Write(batch, sync)
  <2>1. PICK batch \in budget["batches"], sync \in BOOLEAN : Write(batch, sync)
    BY <1>4
  <2>2. \A i \in 1..group : queue'[i] = queue[i]
    BY <1>3, <2>1 DEF Write
  <2> QED BY <1>1, <1>2, <2>1, <2>2 DEF Rests, Write
<1>5. CASE WriteRefused \/ SwitchFails
  <2>1. stage = "front" /\ stage' = "front" /\ group = 0 /\ group' = 0
    BY <1>3, <1>5 DEF WriteRefused, SwitchFails, Return, NeedsSwitch, NoRoom, AtFront
  <2> QED BY <1>1, <1>2, <2>1 DEF Rests
<1>6. CASE Wait
  BY <1>1, <1>2, <1>6 DEF Rests, Wait, NoRoom, AtFront
<1>7. CASE SyncFails
  BY <1>1, <1>2, <1>7 DEF Rests, SyncFails
<1> QED BY <1>4, <1>5, <1>6, <1>7

(* So do the readers. *)
LEMMA ReadersRest ==
  ASSUME TypeInv,
         \/ \E level \in 0..MaxLevel - 1 : \E n \in db.version[level] : AskCompaction(level, n)
         \/ ReleaseIterator \/ GetSnapshot \/ ReleaseSnapshot
  PROVE  Rests
<1>1. Quiet
  BY ReadersQuiet
<1>0. db \in Dbs
  BY DEF TypeInv, DbType
<1>2. UNCHANGED <<logs, writers, committed, acked, synced>>
  BY DEF AskCompaction, ReleaseIterator, GetSnapshot, ReleaseSnapshot, disk, history
<1>3. /\ db'.mem = db.mem /\ db'.lastSeq = db.lastSeq
      /\ db'.snapshots \subseteq db.snapshots \cup {db.lastSeq}
      /\ db'.snapshots = db.snapshots \/ db.status = "open"
  <2>1. ASSUME NEW level \in 0..MaxLevel - 1, NEW n \in db.version[level], AskCompaction(level, n)
        PROVE  db'.mem = db.mem /\ db'.lastSeq = db.lastSeq /\ db'.snapshots = db.snapshots
    <3> DEFINE h == {<<level, n>>}
    <3>1. db' = [db EXCEPT !.hot = h]
      BY <2>1 DEF AskCompaction
    <3> HIDE DEF h
    <3> QED BY <1>0, <3>1 DEF Dbs
  <2>2. CASE ReleaseIterator
    BY <2>2 DEF ReleaseIterator
  <2>3. CASE GetSnapshot \/ ReleaseSnapshot
    <3>1. db.status = "open"
      BY <2>3, ClosedTypes DEF GetSnapshot, ReleaseSnapshot, TypeInv, StatusInv, DbType, Dbs,
         Statuses
    <3>2. PICK s \in {{}, {db.lastSeq}} : db' = [db EXCEPT !.snapshots = s]
      BY <2>3 DEF GetSnapshot, ReleaseSnapshot
    <3>3. db'.mem = db.mem /\ db'.lastSeq = db.lastSeq /\ db'.snapshots = s
      BY <1>0, <3>2 DEF Dbs
    <3> QED BY <3>1, <3>3
  <2> QED BY <2>1, <2>2, <2>3
<1>4. stage' = stage /\ group' = group /\ queue' = queue
  BY <1>2 DEF writers
<1> QED BY <1>1, <1>2, <1>3, <1>4 DEF Rests

(* And the background thread. *)
LEMMA BackgroundRests ==
  ASSUME TypeInv, NothingToDo \/ BuildTableFails \/ DoCompactionWorkFails \/ EditRefused
  PROVE  Rests
<1>1. Quiet
  BY BackgroundQuiet
<1>0. db \in Dbs
  BY DEF TypeInv, DbType
<1>2. UNCHANGED <<logs, queue, group, committed, acked, synced>>
  BY DEF NothingToDo, BuildTableFails, DoCompactionWorkFails, EditRefused, BackgroundGoesOn,
     EndBackgroundCall, SignalAll, disk, history
<1>3. stage' = IF stage = "waiting" THEN "front" ELSE stage
  BY DEF NothingToDo, BuildTableFails, DoCompactionWorkFails, EditRefused, BackgroundGoesOn,
     EndBackgroundCall, SignalAll
<1>4. db'.mem = db.mem /\ db'.lastSeq = db.lastSeq /\ db'.snapshots = db.snapshots
  <2>1. CASE NothingToDo
    BY <2>1 DEF NothingToDo
  <2>2. CASE BuildTableFails \/ DoCompactionWorkFails
    <3>1. PICK l, e : db' = [db EXCEPT !.nextFile = l, !.bgError = e]
      <4>1. CASE BuildTableFails
        BY <4>1 DEF BuildTableFails
      <4>2. CASE DoCompactionWorkFails
        <5>1. db' = [db EXCEPT !.bgError = TRUE]
          BY <4>2 DEF DoCompactionWorkFails
        <5>2. db' = [db EXCEPT !.nextFile = db.nextFile, !.bgError = TRUE]
          BY <1>0, <5>1 DEF Dbs
        <5> QED BY <5>2
      <4> QED BY <2>2, <4>1, <4>2
    <3> QED BY <1>0, <3>1 DEF Dbs
  <2>3. CASE EditRefused
    <3>1. PICK p : db' = [db EXCEPT !.bgError = TRUE, !.pending = p]
      BY <2>3 DEF EditRefused
    <3> QED BY <1>0, <3>1 DEF Dbs
  <2> QED BY <2>1, <2>2, <2>3
<1>5. stage' = stage \/ {stage, stage'} \subseteq {"front", "waiting"}
  BY <1>3
<1> QED BY <1>1, <1>2, <1>4, <1>5 DEF Rests

\* The quiet steps that are not at rest.
Writes == BeginWrite \/ AddRecord \/ AddRecordFails \/ Sync \/ InsertInto \/ EndWrite

FailsToOpen ==
    /\ Closes
    /\ db.status = "opening" /\ bg.edit # None /\ bg.edit.state = "failed"
    /\ UNCHANGED <<logs, committed, acked, synced>>

(* Every step is one of these. *)
LEMMA AllSteps ==
  ASSUME TypeInv, [Next]_vars
  PROVE  \/ Rests \/ (Quiet /\ Writes) \/ Switches \/ Compacts \/ Appends \/ Installs
         \/ (Closes /\ \E lengths : Keeps(lengths))
         \/ FailsToOpen
         \/ \E level : Flushes(level)
         \/ \E level, inputs : Moves(level, inputs)
         \/ \E level, inputs : Picks(level, inputs)
         \/ \E first, rest, numbers : Works(first, rest, numbers)
         \/ \E seq : Begins(seq)
         \/ \E order, full, next : Recovers(order, full, next)
<1>1. CASE \E batch \in budget["batches"], sync \in BOOLEAN : Write(batch, sync)
  BY <1>1, WritersRest
<1>2. CASE Leader
  <2>1. CASE WriteRefused \/ Wait \/ SwitchFails \/ SyncFails
    BY <2>1, WritersRest
  <2>2. CASE Writes
    BY <2>2, WritersQuiet DEF Writes
  <2>3. CASE SwitchMemTable
    BY <2>3, SwitchMemTableDoes
  <2> QED BY <1>2, <2>1, <2>2, <2>3 DEF Leader, Writes
<1>3. CASE Background
  BY <1>3, BackgroundRests, BuildTableDoes, InstallDoes, PickCompactionDoes, TrivialMoveDoes,
     DoCompactionWorkDoes, InstallCompactionResultsDoes, ManifestDoes DEF Background
<1>4. CASE Reader
  BY <1>4, ReadersRest, NewIteratorDoes DEF Reader
<1>5. CASE Crash \/ Recover \/ OpenDone \/ OpenFails
  BY <1>5, CrashDoes, RecoverDoes, InstallDoes, OpenFailsDoes DEF FailsToOpen
<1>6. CASE UNCHANGED vars
  <2>1. db.nextFile \in Nat
    BY DEF TypeInv, DbType, Dbs
  <2>2. UNCHANGED <<tables, logs, manifest, db, bg, iterator, left, repeated, committed, acked, synced>>
        /\ UNCHANGED <<stage, group, queue>>
    BY <1>6 DEF vars, disk, history, writers
  <2> QED BY <2>1, <2>2 DEF Quiet, Rests
<1> QED BY <1>1, <1>2, <1>3, <1>4, <1>5, <1>6 DEF Next

-----------------------------------------------------------------------------
\* The entries, wherever they are.

\* The logs recovery would read, and what is in them.
LogStart == IF db.status = "closed" THEN manifest.log ELSE db.logNumber
LiveLogs == {n \in DOMAIN logs : n >= LogStart}
Logged == UNION {LogEntries(logs[n]) : n \in LiveLogs}

\* The tables somebody holds.
HeldByEdit == IF bg.edit = None THEN {} ELSE Adds(bg.edit)
HeldByCompaction ==
    IF bg.compaction = None THEN {}
    ELSE Numbers(bg.compaction.version) \cup bg.compaction.outputs
HeldByReader == IF iterator = None THEN {} ELSE Numbers(iterator.version)
Held ==
    Numbers(manifest.files) \cup Numbers(db.version) \cup HeldByEdit \cup HeldByCompaction
      \cup HeldByReader

Read == IF iterator = None THEN {} ELSE iterator.mem \cup iterator.imm
Stored == Contents(tables, Held) \cup db.imm \cup committed
Known == Stored \cup db.mem \cup Logged \cup GroupEntries \cup Read

HeldFull == \A n \in Held : tables[n] # {}

ManifestBound == \A e \in Contents(tables, Numbers(manifest.files)) : e.seq <= manifest.lastSeq

\* Numbers are given in order: nothing but the group's entries is newer than the last one.
InLog == {"sync", "insert", "written", "unsynced"}
SeqBounds ==
    db.status # "closed" =>
      /\ \A e \in Stored : e.seq <= db.lastSeq
      /\ \A e \in db.mem \cup Read : e.seq <= db.lastSeq \/ (stage = "written" /\ e \in GroupEntries)
      /\ \A e \in Logged : e.seq <= db.lastSeq \/ (stage \in InLog /\ e \in GroupEntries)
      /\ \A s \in db.snapshots : s <= db.lastSeq

\* So does what is written to the MANIFEST.
EditBounds ==
    db.status # "closed" =>
      /\ manifest.lastSeq <= db.lastSeq
      /\ bg.edit # None =>
            /\ manifest.lastSeq <= bg.edit.lastSeq /\ bg.edit.lastSeq <= db.lastSeq
            /\ \A e \in Contents(tables, Numbers(db.version) \cup Adds(bg.edit)) :
                  e.seq <= bg.edit.lastSeq

\* What recovery finds is what was committed.
RecoveredInv ==
    /\ db.status = "closed" => committed = Contents(tables, Numbers(manifest.files)) \cup Logged
    /\ db.status = "opening" =>
          /\ committed = Contents(tables, Numbers(db.version)) \cup Logged
          /\ committed = Contents(tables, Numbers(db.version) \cup Adds(bg.edit))
          /\ bg.edit.state = "failed" =>
                manifest.files = db.version /\ manifest.log = db.logNumber

EntriesInv == HeldFull /\ Chain(Known) /\ ManifestBound /\ SeqBounds /\ EditBounds
              /\ RecoveredInv

(* Entries' numbers are numbers. *)
LEMMA KnownTypes ==
  ASSUME EntriesInv
  PROVE  /\ Known \subseteq Entries
         /\ \A e \in Known : e.seq \in Nat
         /\ \A e \in Stored \cup db.mem \cup Logged \cup GroupEntries \cup Read : e.seq \in Nat
BY DEF EntriesInv, Chain, Known, Entries

(* Held tables are on disk, and have been. *)
LEMMA HeldOnDisk ==
  ASSUME FilesInv
  PROVE  /\ Held \subseteq DOMAIN tables /\ Held \subseteq Nat
         /\ db.status # "closed" => \A n \in Held : n < db.nextFile
         /\ db.status = "closed" => Held = Numbers(manifest.files)
<1>1. TypeInv /\ NumbersInv /\ DiskInv
  BY DEF FilesInv
<1>2. Held \subseteq DOMAIN tables /\ Held \subseteq Nat
  BY <1>1, FileTypes DEF Held, HeldByEdit, HeldByCompaction, HeldByReader, TypeInv, HeldInv, DiskInv
<1>3. ASSUME db.status # "closed", NEW n \in Held PROVE n < db.nextFile
  <2>1. CASE n \in Numbers(manifest.files)
    BY <1>1, <1>3, <2>1, FileTypes DEF NumbersInv
  <2>2. CASE n \in Numbers(db.version)
    BY <1>1, <1>3, <2>2 DEF NumbersInv
  <2>3. CASE n \in HeldByEdit
    BY <1>1, <1>3, <2>3, FileTypes DEF NumbersInv, HeldByEdit
  <2>4. CASE n \in HeldByCompaction \cup HeldByReader
    BY <1>1, <1>3, <2>4 DEF NumbersInv, HeldByCompaction, HeldByReader
  <2> QED BY <1>3, <2>1, <2>2, <2>3, <2>4 DEF Held
<1>4. ASSUME db.status = "closed" PROVE Held = Numbers(manifest.files)
  <2>1. db.version = NoTables /\ bg.edit = None /\ bg.compaction = None /\ iterator = None
    BY <1>1, <1>4 DEF TypeInv, StatusInv, Closed, Resting
  <2>2. Numbers(NoTables) = {}
    BY DEF Numbers, NoTables
  <2> QED BY <2>1, <2>2 DEF Held, HeldByEdit, HeldByCompaction, HeldByReader
<1> QED BY <1>2, <1>3, <1>4

(* A step that makes nothing new keeps the chain. *)
LEMMA NothingNew ==
  ASSUME EntriesInv, Held' \subseteq Held, \A n \in Held' : tables'[n] = tables[n],
         db'.imm \cup committed' \cup db'.mem \cup Logged' \cup GroupEntries' \cup Read' \subseteq Known
  PROVE  HeldFull' /\ Chain(Known')
<1>1. Contents(tables, Held)' \subseteq Contents(tables, Held)
  BY DEF Contents
<1>2. Known' \subseteq Known
  BY <1>1 DEF Known, Stored
<1>3. Chain(Known')
  BY <1>2, ChainPart DEF EntriesInv
<1> QED BY <1>3 DEF HeldFull, EntriesInv

(* Of a group that is not begun there are no entries. *)
LEMMA NoGroup ==
  ASSUME group = 0
  PROVE  GroupEntries = {}
BY DEF GroupEntries

(* A record more. *)
LEMMA LogGrows ==
  ASSUME NEW records \in Seq(EntrySets), NEW G,
         NEW old, old.records = records, NEW new, new.records = Append(records, G)
  PROVE  LogEntries(new) = LogEntries(old) \cup G
<1>1. /\ Len(new.records) = Len(records) + 1 /\ Len(records) \in Nat
      /\ new.records[Len(records) + 1] = G
      /\ \A i \in 1..Len(records) : new.records[i] = records[i]
  OBVIOUS
<1> DEFINE r == new.records
           k == Len(records)
<1>2. LogEntries(new) = UNION {r[i] : i \in 1..k + 1}
  BY <1>1 DEF LogEntries, FirstEntries
<1>3. LogEntries(old) = UNION {records[i] : i \in 1..k}
  BY DEF LogEntries, FirstEntries
<1>4. r[k + 1] = G /\ k \in Nat /\ \A i \in 1..k : r[i] = records[i]
  BY <1>1
<1>5. 1..k + 1 = 1..k \cup {k + 1}
  BY <1>4
<1> HIDE DEF r, k
<1> QED BY <1>2, <1>3, <1>4, <1>5

\* A step that gives no numbers and writes nothing to the logs.
Calm ==
    /\ db.status = "closed" => db'.status = "closed"
    /\ db'.lastSeq = db.lastSeq /\ db'.mem = db.mem /\ db'.imm \subseteq db.imm
    /\ db'.snapshots \subseteq db.snapshots \cup {db.lastSeq}
    /\ GroupEntries' = GroupEntries
    /\ \/ stage' = stage
       \/ {stage, stage'} \subseteq {"front", "waiting"}
       \/ stage = "sync" /\ stage' = "unsynced"
    /\ committed' = committed
    /\ Logged' \subseteq Logged
    /\ Read' \subseteq Read \cup db.mem \cup db.imm
    /\ Contents(tables, Held)' \subseteq Stored
    /\ HeldFull'

(* A step that changes no entry keeps the entries in order. *)
LEMMA CalmEntries ==
  ASSUME EntriesInv, Calm, db.lastSeq \in Nat
  PROVE  HeldFull' /\ Chain(Known') /\ SeqBounds'
<1>1. Stored' \subseteq Stored
  BY DEF Calm, Stored
<1>2. Known' \subseteq Known
  BY <1>1 DEF Calm, Known, Stored
<1>3. Chain(Known')
  BY <1>2, ChainPart DEF EntriesInv
<1>4. SeqBounds'
  <2>1. SUFFICES ASSUME db.status # "closed" PROVE SeqBounds'
    BY DEF Calm, SeqBounds
  <2>2. \A e \in Stored : e.seq <= db.lastSeq
    BY <2>1 DEF EntriesInv, SeqBounds
  <2>3. \A e \in db.imm : e.seq <= db.lastSeq
    BY <2>2 DEF Stored
  <2>4. \A e \in Stored' : e.seq <= db'.lastSeq
    BY <1>1, <2>2 DEF Calm
  <2>5. stage = "written" => stage' = "written"
    BY DEF Calm
  <2>6. stage \in InLog => stage' \in InLog
    BY DEF Calm, InLog
  <2>7. \A e \in (db.mem \cup Read)' :
           e.seq <= db'.lastSeq \/ (stage' = "written" /\ e \in GroupEntries')
    BY <2>1, <2>3, <2>5 DEF Calm, EntriesInv, SeqBounds
  <2>8. \A e \in Logged' : e.seq <= db'.lastSeq \/ (stage' \in InLog /\ e \in GroupEntries')
    BY <2>1, <2>6 DEF Calm, EntriesInv, SeqBounds
  <2>9. \A s \in db'.snapshots : s <= db'.lastSeq
    BY <2>1 DEF Calm, EntriesInv, SeqBounds
  <2> QED BY <2>4, <2>7, <2>8, <2>9 DEF SeqBounds
<1> QED BY <1>3, <1>4 DEF Calm

(* The group's entries stay while the group and the last number do. *)
LEMMA SameGroup ==
  ASSUME db'.lastSeq = db.lastSeq, group' = group, \A i \in 1..group : queue'[i] = queue[i]
  PROVE  GroupEntries' = GroupEntries
BY DEF GroupEntries

(* A step that gives out no number keeps the entries in order. *)
LEMMA RestsEntries ==
  ASSUME FilesInv, EntriesInv, Rests
  PROVE  EntriesInv'
<1>1. TypeInv
  BY DEF FilesInv
<1>2. /\ UNCHANGED <<tables, logs, manifest>> /\ db'.status = db.status /\ db'.version = db.version
      /\ db'.logNumber = db.logNumber /\ db'.imm = db.imm /\ db'.mem = db.mem
      /\ db'.lastSeq = db.lastSeq /\ committed' = committed
      /\ bg'.edit \in {bg.edit, None} /\ bg'.compaction \in {bg.compaction, None}
      /\ iterator' \in {iterator, None}
  BY DEF Rests, Quiet
<1>3. Held' \subseteq Held
  BY <1>2 DEF Held, HeldByEdit, HeldByCompaction, HeldByReader
<1>4. Logged' = Logged
  BY <1>2 DEF Logged, LiveLogs, LogStart
<1>5. GroupEntries' = GroupEntries
  BY SameGroup DEF Rests
<1>6. Calm
  <2>1. Read' \subseteq Read
    BY <1>2 DEF Read
  <2>2. Contents(tables, Held)' \subseteq Stored
    BY <1>2, <1>3 DEF Contents, Stored
  <2>3. HeldFull'
    BY <1>2, <1>3 DEF HeldFull, EntriesInv
  <2> QED BY <1>2, <1>4, <1>5, <2>1, <2>2, <2>3 DEF Calm, Rests
<1>7. HeldFull' /\ Chain(Known') /\ SeqBounds'
  BY <1>1, <1>6, CalmEntries, FileTypes
<1>8. ManifestBound'
  BY <1>2 DEF EntriesInv, ManifestBound, Contents
<1>9. EditBounds'
  BY <1>2 DEF EntriesInv, EditBounds, Contents
<1>10. RecoveredInv'
  <2>1. db.status # "open" => bg'.edit = bg.edit
    <3>1. db.status = "closed" => bg.edit = None
      BY <1>1 DEF TypeInv, StatusInv, Resting
    <3>2. db.status = "opening" => ~db.bgError
      BY DEF FilesInv, DiskInv
    <3>3. db.status \in {"closed", "opening", "open"}
      BY <1>1 DEF TypeInv, DbType, Dbs, Statuses
    <3> QED BY <3>1, <3>2, <3>3 DEF Rests, Quiet
  <2> QED BY <1>2, <1>4, <2>1 DEF EntriesInv, RecoveredInv, Contents
<1> QED BY <1>7, <1>8, <1>9, <1>10 DEF EntriesInv

(* A new table of a memtable keeps the entries in order. *)
LEMMA FlushesEntries ==
  ASSUME FilesInv, EntriesInv, TypeInv', NEW level, Flushes(level)
  PROVE  EntriesInv'
<1>1. TypeInv /\ NumbersInv
  BY DEF FilesInv
<1> DEFINE k == db.nextFile
<1>2. /\ db.status = "open" /\ db.imm # {} /\ bg.edit = None /\ k \in Nat
      /\ UNCHANGED <<logs, manifest, iterator, committed, stage, group, queue>>
      /\ db'.status = db.status /\ db'.mem = db.mem /\ db'.imm = db.imm
      /\ db'.version = db.version /\ db'.logNumber = db.logNumber
      /\ db'.lastSeq = db.lastSeq /\ db'.snapshots = db.snapshots
      /\ bg'.compaction = bg.compaction
      /\ bg'.edit.lastSeq = db.lastSeq /\ Adds(bg'.edit) = {k}
  BY <1>1, FileTypes DEF Flushes, SameVersion, Adds, writers, history
<1>3. tables'[k] = db.imm /\ \A n \in Held : tables'[n] = tables[n]
  <2>1. tables' = With(tables, k, db.imm)
    BY DEF Flushes
  <2>2. \A n \in Held : n # k /\ n \in DOMAIN tables
    BY <1>2, HeldOnDisk
  <2> QED BY <2>1, <2>2 DEF With
<1>4. Held' \subseteq Held \cup {k}
  <2>1. HeldByEdit' \subseteq {k}
    BY <1>2 DEF HeldByEdit
  <2> QED BY <1>2, <2>1 DEF Held, HeldByCompaction, HeldByReader
<1> HIDE DEF k
<1>5. Calm
  <2>1. Read' = Read /\ Logged' = Logged
    BY <1>2 DEF Read, Logged, LiveLogs, LogStart
  <2>2. Contents(tables, Held)' \subseteq Stored
    BY <1>3, <1>4 DEF Contents, Stored
  <2>3. HeldFull'
    BY <1>2, <1>3, <1>4 DEF HeldFull, EntriesInv
  <2>4. GroupEntries' = GroupEntries
    BY <1>2, SameGroup
  <2> QED BY <1>2, <2>1, <2>2, <2>3, <2>4 DEF Calm
<1>6. HeldFull' /\ Chain(Known') /\ SeqBounds'
  BY <1>1, <1>5, CalmEntries, FileTypes
<1>7. ManifestBound'
  <2>1. Contents(tables, Numbers(manifest.files))' = Contents(tables, Numbers(manifest.files))
    BY <1>2, <1>3 DEF Contents, Held
  <2> QED BY <1>2, <2>1 DEF EntriesInv, ManifestBound
<1>8. EditBounds'
  <2>1. Contents(tables, Numbers(db.version) \cup Adds(bg.edit))' \subseteq Stored
    BY <1>2, <1>3 DEF Contents, Held, Stored
  <2>2. \A e \in Stored : e.seq <= db.lastSeq
    BY <1>2 DEF EntriesInv, SeqBounds
  <2>3. manifest.lastSeq <= db.lastSeq /\ db.lastSeq \in Nat
    BY <1>1, <1>2, FileTypes DEF EntriesInv, EditBounds
  <2>4. \A e \in Contents(tables, Numbers(db.version) \cup Adds(bg.edit))' : e.seq <= db.lastSeq
    BY <2>1, <2>2
  <2>5. db'.lastSeq = db.lastSeq /\ manifest' = manifest /\ bg'.edit.lastSeq = db.lastSeq
    BY <1>2
  <2>6. db'.lastSeq <= db'.lastSeq
    BY <2>3, <2>5
  <2> QED BY <2>3, <2>4, <2>5, <2>6 DEF EditBounds
<1>9. RecoveredInv'
  BY <1>2 DEF RecoveredInv
<1> QED BY <1>6, <1>7, <1>8, <1>9 DEF EntriesInv

(* A move to the next level keeps the entries in order. *)
LEMMA MovesEntries ==
  ASSUME FilesInv, EntriesInv, TypeInv', NEW level, NEW inputs, Moves(level, inputs)
  PROVE  EntriesInv'
<1>1. TypeInv
  BY DEF FilesInv
<1>2. /\ db.status = "open"
      /\ UNCHANGED <<tables, logs, manifest, db, iterator, committed, stage, group, queue>>
      /\ bg'.compaction = bg.compaction
      /\ bg'.edit.lastSeq = db.lastSeq
  BY DEF Moves, disk, writers, history
<1>3. Adds(bg'.edit) \subseteq Numbers(db.version)
  <2>1. PICK n \in db.version[level] : inputs \in Inputs(tables, db.version, level, {n})
    BY DEF Moves
  <2>2. inputs.upper \subseteq Numbers(db.version)
    <3>1. level \in 0..MaxLevel - 1 /\ db.version \in Files /\ {n} \in SUBSET db.version[level]
      BY <1>1, <2>1, FileTypes DEF Moves
    <3>2. \A m \in inputs.upper \cup inputs.lower : m \in Numbers(db.version)
      BY <2>1, <3>1, InputFiles
    <3> QED BY <3>2
  <2> QED BY <2>2 DEF Moves, Adds
<1>4. Held' \subseteq Held
  <2>1. HeldByEdit' \subseteq Numbers(db.version)
    BY <1>3 DEF HeldByEdit
  <2> QED BY <1>2, <2>1 DEF Held, HeldByCompaction, HeldByReader
<1>5. Calm
  <2>1. Read' = Read /\ Logged' = Logged /\ GroupEntries' = GroupEntries
    BY <1>2 DEF Read, Logged, LiveLogs, LogStart, GroupEntries
  <2>2. Contents(tables, Held)' \subseteq Stored
    BY <1>2, <1>4 DEF Contents, Stored
  <2>3. HeldFull'
    BY <1>2, <1>4 DEF HeldFull, EntriesInv
  <2> QED BY <1>2, <2>1, <2>2, <2>3 DEF Calm
<1>6. HeldFull' /\ Chain(Known') /\ SeqBounds'
  BY <1>1, <1>5, CalmEntries, FileTypes
<1>7. ManifestBound'
  BY <1>2 DEF EntriesInv, ManifestBound
<1>8. EditBounds'
  <2>1. Contents(tables, Numbers(db.version) \cup Adds(bg.edit))' \subseteq Stored
    BY <1>2, <1>3 DEF Contents, Held, Stored
  <2>2. \A e \in Stored : e.seq <= db.lastSeq
    BY <1>2 DEF EntriesInv, SeqBounds
  <2>3. manifest.lastSeq <= db.lastSeq /\ db.lastSeq \in Nat
    BY <1>1, <1>2, FileTypes DEF EntriesInv, EditBounds
  <2>4. \A e \in Contents(tables, Numbers(db.version) \cup Adds(bg.edit))' : e.seq <= db.lastSeq
    BY <2>1, <2>2
  <2>5. db'.lastSeq = db.lastSeq /\ manifest' = manifest /\ bg'.edit.lastSeq = db.lastSeq
    BY <1>2
  <2>6. db'.lastSeq <= db'.lastSeq
    BY <2>3, <2>5
  <2> QED BY <2>3, <2>4, <2>5, <2>6 DEF EditBounds
<1>9. RecoveredInv'
  BY <1>2 DEF RecoveredInv
<1> QED BY <1>6, <1>7, <1>8, <1>9 DEF EntriesInv

(* The edit of a compaction keeps the entries in order. *)
LEMMA CompactsEntries ==
  ASSUME FilesInv, EntriesInv, TypeInv', Compacts
  PROVE  EntriesInv'
<1>1. TypeInv
  BY DEF FilesInv
<1>2. /\ db.status = "open"
      /\ UNCHANGED <<tables, logs, manifest, db, iterator, committed, stage, group, queue>>
      /\ bg'.compaction = bg.compaction
      /\ bg'.edit.lastSeq = db.lastSeq
  BY DEF Compacts, disk, writers, history
<1>3. Adds(bg'.edit) \subseteq HeldByCompaction
  BY DEF Compacts, Adds, HeldByCompaction
<1>4. Held' \subseteq Held
  <2>1. HeldByEdit' \subseteq HeldByCompaction
    BY <1>3 DEF HeldByEdit
  <2> QED BY <1>2, <2>1 DEF Held, HeldByCompaction, HeldByReader
<1>5. Calm
  <2>1. Read' = Read /\ Logged' = Logged /\ GroupEntries' = GroupEntries
    BY <1>2 DEF Read, Logged, LiveLogs, LogStart, GroupEntries
  <2>2. Contents(tables, Held)' \subseteq Stored
    BY <1>2, <1>4 DEF Contents, Stored
  <2>3. HeldFull'
    BY <1>2, <1>4 DEF HeldFull, EntriesInv
  <2> QED BY <1>2, <2>1, <2>2, <2>3 DEF Calm
<1>6. HeldFull' /\ Chain(Known') /\ SeqBounds'
  BY <1>1, <1>5, CalmEntries, FileTypes
<1>7. ManifestBound'
  BY <1>2 DEF EntriesInv, ManifestBound
<1>8. EditBounds'
  <2>1. Contents(tables, Numbers(db.version) \cup Adds(bg.edit))' \subseteq Stored
    BY <1>2, <1>3 DEF Contents, Held, Stored
  <2>2. \A e \in Stored : e.seq <= db.lastSeq
    BY <1>2 DEF EntriesInv, SeqBounds
  <2>3. manifest.lastSeq <= db.lastSeq /\ db.lastSeq \in Nat
    BY <1>1, <1>2, FileTypes DEF EntriesInv, EditBounds
  <2>4. \A e \in Contents(tables, Numbers(db.version) \cup Adds(bg.edit))' : e.seq <= db.lastSeq
    BY <2>1, <2>2
  <2>5. db'.lastSeq = db.lastSeq /\ manifest' = manifest /\ bg'.edit.lastSeq = db.lastSeq
    BY <1>2
  <2>6. db'.lastSeq <= db'.lastSeq
    BY <2>3, <2>5
  <2> QED BY <2>3, <2>4, <2>5, <2>6 DEF EditBounds
<1>9. RecoveredInv'
  BY <1>2 DEF RecoveredInv
<1> QED BY <1>6, <1>7, <1>8, <1>9 DEF EntriesInv

(* The pick of a compaction keeps the entries in order. *)
LEMMA PicksEntries ==
  ASSUME FilesInv, EntriesInv, TypeInv', NEW level, NEW inputs, Picks(level, inputs)
  PROVE  EntriesInv'
<1>1. TypeInv
  BY DEF FilesInv
<1>2. /\ db.status = "open" /\ bg'.edit = None
      /\ UNCHANGED <<tables, logs, manifest, db, iterator, committed, stage, group, queue>>
      /\ bg'.compaction.version = db.version /\ bg'.compaction.outputs = {}
  BY DEF Picks, disk, writers, history
<1>4. Held' \subseteq Held
  <2>1. HeldByCompaction' \subseteq Numbers(db.version)
    BY <1>2 DEF HeldByCompaction
  <2> QED BY <1>2, <2>1 DEF Held, HeldByEdit, HeldByReader
<1>5. Calm
  <2>1. Read' = Read /\ Logged' = Logged /\ GroupEntries' = GroupEntries
    BY <1>2 DEF Read, Logged, LiveLogs, LogStart, GroupEntries
  <2>2. Contents(tables, Held)' \subseteq Stored
    BY <1>2, <1>4 DEF Contents, Stored
  <2>3. HeldFull'
    BY <1>2, <1>4 DEF HeldFull, EntriesInv
  <2> QED BY <1>2, <2>1, <2>2, <2>3 DEF Calm
<1>6. HeldFull' /\ Chain(Known') /\ SeqBounds'
  BY <1>1, <1>5, CalmEntries, FileTypes
<1>7. ManifestBound'
  BY <1>2 DEF EntriesInv, ManifestBound
<1>8. EditBounds'
  BY <1>2 DEF EntriesInv, EditBounds
<1>9. RecoveredInv'
  BY <1>2 DEF RecoveredInv
<1> QED BY <1>6, <1>7, <1>8, <1>9 DEF EntriesInv

(* A new iterator keeps the entries in order. *)
LEMMA BeginsEntries ==
  ASSUME FilesInv, EntriesInv, TypeInv', NEW seq, Begins(seq)
  PROVE  EntriesInv'
<1>1. TypeInv
  BY DEF FilesInv
<1>2. /\ db.status = "open"
      /\ UNCHANGED <<tables, logs, manifest, db, bg, committed, stage, group, queue>>
      /\ iterator'.version = db.version /\ iterator'.mem = db.mem /\ iterator'.imm = db.imm
  BY DEF Begins, disk, writers, history
<1>4. Held' \subseteq Held
  <2>1. HeldByReader' \subseteq Numbers(db.version)
    BY <1>2 DEF HeldByReader
  <2> QED BY <1>2, <2>1 DEF Held, HeldByEdit, HeldByCompaction
<1>5. Calm
  <2>1. Logged' = Logged /\ GroupEntries' = GroupEntries
    BY <1>2 DEF Logged, LiveLogs, LogStart, GroupEntries
  <2>2. Contents(tables, Held)' \subseteq Stored
    BY <1>2, <1>4 DEF Contents, Stored
  <2>3. HeldFull'
    BY <1>2, <1>4 DEF HeldFull, EntriesInv
  <2>4. Read' \subseteq Read \cup db.mem \cup db.imm
    BY <1>2 DEF Read
  <2> QED BY <1>2, <2>1, <2>2, <2>3, <2>4 DEF Calm
<1>6. HeldFull' /\ Chain(Known') /\ SeqBounds'
  BY <1>1, <1>5, CalmEntries, FileTypes
<1>7. ManifestBound'
  BY <1>2 DEF EntriesInv, ManifestBound
<1>8. EditBounds'
  BY <1>2 DEF EntriesInv, EditBounds
<1>9. RecoveredInv'
  BY <1>2 DEF RecoveredInv
<1> QED BY <1>6, <1>7, <1>8, <1>9 DEF EntriesInv

HeldFacts ==
    /\ Held \subseteq DOMAIN tables /\ Held \subseteq Nat
    /\ db.status # "closed" => \A n \in Held : n < db.nextFile
    /\ db.status = "closed" => Held = Numbers(manifest.files)
GroupFacts ==
    /\ GroupEntries \in EntrySets
    /\ \A e \in GroupEntries : e.seq \in db.lastSeq + 1..db.lastSeq + group
    /\ Chain(GroupEntries)

(* The same of the next state. *)
LEMMA HeldOnDiskNext == FilesInv' => HeldFacts'
<1>1. FilesInv => HeldFacts
  BY HeldOnDisk DEF HeldFacts
<1> QED BY <1>1, PTL

(* The same of the next state. *)
LEMMA GroupEntriesFiniteNext == TypeInv' => GroupFacts'
<1>1. TypeInv => GroupFacts
  BY GroupEntriesFinite, FileTypes DEF GroupFacts, TypeInv
<1> QED BY <1>1, PTL

(* A write of the MANIFEST keeps the entries in order. *)
LEMMA AppendsEntries ==
  ASSUME FilesInv, EntriesInv, TypeInv', Appends
  PROVE  EntriesInv'
<1>1. TypeInv
  BY DEF FilesInv
<1>2. /\ bg.edit # None /\ IsEdit(bg.edit) /\ bg.edit.state = "new" /\ bg'.edit # None
      /\ Adds(bg'.edit) = Adds(bg.edit) /\ bg'.edit.lastSeq = bg.edit.lastSeq
      /\ bg'.edit.kind = bg.edit.kind
      /\ UNCHANGED <<tables, logs, db, iterator, committed, stage, group, queue>>
      /\ bg'.compaction = bg.compaction
  BY DEF Appends, Adds, writers
<1>3. db.status # "closed" /\ (db.status = "opening" => bg.edit.kind = "open")
  BY <1>1, <1>2 DEF TypeInv, StatusInv, Resting
<1>4. Numbers(manifest.files)' \subseteq Numbers(manifest.files) \cup Adds(bg.edit)
  <2>1. CASE AppendEdit
    BY <1>1, <1>2, <2>1, AppliedNumbers, FileTypes DEF AppendEdit
  <2>2. CASE UNCHANGED manifest
    BY <2>2
  <2> QED BY <2>1, <2>2 DEF Appends
<1>5. Held' \subseteq Held
  BY <1>2, <1>4 DEF Held, HeldByEdit, HeldByCompaction, HeldByReader
<1>6. Calm
  <2>1. Read' = Read /\ GroupEntries' = GroupEntries
    BY <1>2 DEF Read, GroupEntries
  <2>a. Logged' = Logged
    BY <1>2, <1>3 DEF Logged, LiveLogs, LogStart
  <2>2. Contents(tables, Held)' \subseteq Stored
    BY <1>2, <1>5 DEF Contents, Stored
  <2>3. HeldFull'
    BY <1>2, <1>5 DEF HeldFull, EntriesInv
  <2> QED BY <1>2, <2>1, <2>a, <2>2, <2>3 DEF Calm
<1>7. HeldFull' /\ Chain(Known') /\ SeqBounds'
  BY <1>1, <1>6, CalmEntries, FileTypes
<1>8. /\ manifest.lastSeq <= bg.edit.lastSeq /\ bg.edit.lastSeq <= db.lastSeq
      /\ \A e \in Contents(tables, Numbers(db.version) \cup Adds(bg.edit)) : e.seq <= bg.edit.lastSeq
      /\ manifest.lastSeq \in Nat /\ bg.edit.lastSeq \in Nat /\ db.lastSeq \in Nat
  BY <1>1, <1>2, <1>3, FileTypes DEF EntriesInv, EditBounds
<1>9. CASE AppendEdit /\ (bg'.edit.state = "failed" => bg.edit.kind # "open")
  <2>1. manifest'.lastSeq = bg.edit.lastSeq
    BY <1>9 DEF AppendEdit
  <2>2. ManifestBound'
    <3> SUFFICES ASSUME NEW e \in Contents(tables, Numbers(manifest.files))'
                 PROVE  e.seq <= bg.edit.lastSeq
      BY <2>1 DEF ManifestBound
    <3>1. e \in Contents(tables, Numbers(manifest.files)) \/ e \in Contents(tables, Adds(bg.edit))
      BY <1>2, <1>4 DEF Contents
    <3>2. CASE e \in Contents(tables, Adds(bg.edit))
      BY <1>8, <3>2 DEF Contents
    <3>3. CASE e \in Contents(tables, Numbers(manifest.files))
      <4>1. e.seq <= manifest.lastSeq
        BY <3>3 DEF EntriesInv, ManifestBound
      <4>2. e.seq \in Nat
        BY <3>3, KnownTypes DEF Stored, Contents, Held
      <4> QED BY <1>8, <4>1, <4>2
    <3> QED BY <3>1, <3>2, <3>3
  <2>3. EditBounds'
    <3>1. Contents(tables, Numbers(db.version) \cup Adds(bg.edit))' =
            Contents(tables, Numbers(db.version) \cup Adds(bg.edit))
      BY <1>2
    <3>2. db'.lastSeq = db.lastSeq
      BY <1>2
    <3>3. bg.edit.lastSeq <= bg.edit.lastSeq
      BY <1>8
    <3> QED BY <1>2, <1>8, <2>1, <3>1, <3>2, <3>3 DEF EditBounds
  <2>4. RecoveredInv'
    <3>1. Logged' = Logged
      BY <1>2, <1>3 DEF Logged, LiveLogs, LogStart
    <3>2. db.status = "opening" => bg'.edit.state # "failed"
      BY <1>3, <1>9
    <3> QED BY <1>2, <1>3, <3>1, <3>2 DEF EntriesInv, RecoveredInv
  <2> QED BY <1>7, <2>2, <2>3, <2>4 DEF EntriesInv
<1>10. CASE bg'.edit.state = "failed" /\ UNCHANGED <<manifest, repeated>>
  <2>2. ManifestBound'
    BY <1>2, <1>10 DEF EntriesInv, ManifestBound
  <2>3. EditBounds'
    BY <1>2, <1>10 DEF EntriesInv, EditBounds
  <2>4. RecoveredInv'
    <3>1. Logged' = Logged
      BY <1>2, <1>3 DEF Logged, LiveLogs, LogStart
    <3>2. db.status = "opening" => manifest.files = db.version /\ manifest.log = db.logNumber
      BY <1>2, <1>3 DEF FilesInv, DiskInv
    <3> QED BY <1>2, <1>3, <1>10, <3>1, <3>2 DEF EntriesInv, RecoveredInv
  <2> QED BY <1>7, <2>2, <2>3, <2>4 DEF EntriesInv
<1> QED BY <1>9, <1>10 DEF Appends

(* An edit's end keeps the entries in order. *)
LEMMA InstallsEntries ==
  ASSUME FilesInv, FilesInv', EntriesInv, Installs
  PROVE  EntriesInv'
<1>1. TypeInv /\ NumbersInv /\ TypeInv'
  BY DEF FilesInv
<1>2. /\ bg.edit # None /\ IsEdit(bg.edit)
      /\ db.status # "closed" /\ db'.status = "open"
      /\ db'.version = Applied(db.version, bg.edit) /\ db'.logNumber = bg.edit.log
      /\ db'.lastSeq = db.lastSeq /\ db'.mem = db.mem /\ db'.imm \subseteq db.imm
      /\ db'.snapshots = db.snapshots
      /\ bg'.edit = None /\ bg'.compaction \in {bg.compaction, None}
      /\ UNCHANGED <<manifest, iterator, committed, queue, group>>
      /\ stage' = stage \/ {stage, stage'} \subseteq {"front", "waiting"}
      /\ UNCHANGED <<tables, logs>> \/ DeleteObsoleteFiles(db', bg'.compaction)
  BY DEF Installs, history
<1>3. /\ DOMAIN logs' \subseteq DOMAIN logs
      /\ \A n \in DOMAIN logs' : logs'[n] = logs[n]
      /\ \A n \in DOMAIN tables' : tables'[n] = tables[n]
  BY <1>1, <1>2, DeletedTypes DEF TypeInv
<1>4. Numbers(db'.version) \subseteq Numbers(db.version) \cup Adds(bg.edit)
  BY <1>1, <1>2, AppliedNumbers, FileTypes
<1>5. Held' \subseteq Held /\ \A n \in Held' : tables'[n] = tables[n]
  <2>1. Held' \subseteq Held
    BY <1>2, <1>4 DEF Held, HeldByEdit, HeldByCompaction, HeldByReader
  <2>2. Held' \subseteq DOMAIN tables'
    BY HeldOnDiskNext DEF HeldFacts
  <2> QED BY <1>3, <2>1, <2>2
<1>6. Logged' \subseteq Logged
  <2>1. db.logNumber <= bg.edit.log /\ db.logNumber \in Nat /\ bg.edit.log \in Nat
    BY <1>1, <1>2, FileTypes DEF NumbersInv
  <2>2. LiveLogs' \subseteq LiveLogs
    <3> SUFFICES ASSUME NEW n \in LiveLogs' PROVE n \in LiveLogs
      OBVIOUS
    <3>1. n \in DOMAIN logs /\ n \in DOMAIN logs' /\ n >= bg.edit.log /\ n \in Nat
      BY <1>1, <1>2, <1>3, FileTypes DEF LiveLogs, LogStart
    <3> QED BY <1>2, <2>1, <3>1 DEF LiveLogs, LogStart
  <2>3. \A n \in LiveLogs' : logs'[n] = logs[n]
    BY <1>3 DEF LiveLogs
  <2> QED BY <2>2, <2>3 DEF Logged
<1>7. Calm
  <2>1. Read' = Read /\ GroupEntries' = GroupEntries
    BY <1>2 DEF Read, GroupEntries
  <2>2. Contents(tables, Held)' \subseteq Stored
    BY <1>5 DEF Contents, Stored
  <2>3. HeldFull'
    BY <1>5 DEF HeldFull, EntriesInv
  <2> QED BY <1>2, <1>6, <2>1, <2>2, <2>3 DEF Calm
<1>8. HeldFull' /\ Chain(Known') /\ SeqBounds'
  BY <1>1, <1>7, CalmEntries, FileTypes
<1>9. ManifestBound'
  <2>1. \A n \in Numbers(manifest.files) : tables'[n] = tables[n]
    BY <1>2, <1>5 DEF Held
  <2> QED BY <1>2, <2>1 DEF EntriesInv, ManifestBound, Contents
<1>10. EditBounds'
  BY <1>2 DEF EntriesInv, EditBounds
<1>11. RecoveredInv'
  BY <1>2 DEF RecoveredInv
<1> QED BY <1>8, <1>9, <1>10, <1>11 DEF EntriesInv

(* The work of a compaction keeps the entries in order. *)
LEMMA WorksEntries ==
  ASSUME FilesInv, EntriesInv, TypeInv', NEW first, NEW rest, NEW numbers, Works(first, rest,
         numbers)
  PROVE  EntriesInv'
<1>1. TypeInv /\ NumbersInv
  BY DEF FilesInv
<1> DEFINE c == bg.compaction
           k == db.nextFile
<1>2. /\ db.status = "open" /\ bg.edit = None /\ bg'.edit = None /\ k \in Nat
      /\ UNCHANGED <<logs, manifest, iterator, committed, stage, group, queue>>
      /\ db'.status = db.status /\ db'.mem = db.mem /\ db'.imm = db.imm
      /\ db'.version = db.version /\ db'.logNumber = db.logNumber
      /\ db'.lastSeq = db.lastSeq /\ db'.snapshots = db.snapshots
      /\ bg'.compaction.version = c.version /\ bg'.compaction.outputs = numbers
      /\ bg'.compaction # None /\ c # None
  BY <1>1, FileTypes DEF Works, SameVersion, writers, history
<1>3. \A n \in Held : n \notin numbers /\ tables'[n] = tables[n]
  <2>1. \A n \in Held : n \in DOMAIN tables /\ n \in Nat /\ n < k
    BY <1>2, HeldOnDisk
  <2>2. \A m \in numbers : m = k \/ m = k + 1
    BY DEF Works
  <2>3. \A m \in DOMAIN tables \ numbers : tables'[m] = tables[m]
    BY DEF Works
  <2> QED BY <1>2, <2>1, <2>2, <2>3
<1>4. Held' \subseteq Held \cup numbers
  BY <1>2 DEF Held, HeldByEdit, HeldByCompaction, HeldByReader
<1>5. \A n \in numbers : tables'[n] # {} /\ tables'[n] \subseteq Contents(tables, Held)
  <2>1. Survivors(c) \subseteq Contents(tables, c.upper \cup c.lower)
    BY DEF Survivors
  <2>2. c.upper \cup c.lower \subseteq Held
    <3>1. /\ c.upper \subseteq c.version[c.level] /\ c.lower \subseteq c.version[c.level + 1]
          /\ c.level \in Levels /\ c.level + 1 \in Levels
      BY <1>1, <1>2, LevelsAssumption DEF TypeInv, BgType, IsCompaction, Compactions, Levels
    <3>2. c.upper \cup c.lower \subseteq Numbers(c.version)
      BY <3>1 DEF Numbers
    <3> QED BY <1>2, <3>2 DEF Held, HeldByCompaction
  <2>3. Survivors(c) \subseteq Contents(tables, Held)
    BY <2>1, <2>2 DEF Contents
  <2>4. \A n \in numbers : tables'[n] # {} /\ tables'[n] \subseteq Survivors(c)
    BY DEF Works
  <2> QED BY <2>3, <2>4
<1>6. Calm
  <2>1. Read' = Read /\ Logged' = Logged
    BY <1>2 DEF Read, Logged, LiveLogs, LogStart
  <2>2. Contents(tables, Held)' \subseteq Stored
    BY <1>3, <1>4, <1>5 DEF Contents, Stored
  <2>3. HeldFull'
    BY <1>3, <1>4, <1>5 DEF HeldFull, EntriesInv
  <2>4. GroupEntries' = GroupEntries
    BY <1>2, SameGroup
  <2> QED BY <1>2, <2>1, <2>2, <2>3, <2>4 DEF Calm
<1>7. HeldFull' /\ Chain(Known') /\ SeqBounds'
  BY <1>1, <1>6, CalmEntries, FileTypes
<1>8. ManifestBound'
  <2>1. Contents(tables, Numbers(manifest.files))' = Contents(tables, Numbers(manifest.files))
    BY <1>2, <1>3 DEF Contents, Held
  <2> QED BY <1>2, <2>1 DEF EntriesInv, ManifestBound
<1>9. EditBounds'
  BY <1>2 DEF EntriesInv, EditBounds
<1>10. RecoveredInv'
  BY <1>2 DEF RecoveredInv
<1> QED BY <1>7, <1>8, <1>9, <1>10 DEF EntriesInv

(* A new group's entries are newer than all others. *)
LEMMA GroupBegins ==
  ASSUME TypeInv, TypeInv', EntriesInv, db.status = "open", stage = "front", stage' = "append",
         db'.status = "open", db'.lastSeq = db.lastSeq,
         (Stored \cup db.mem \cup Read \cup Logged)' \subseteq Stored \cup db.mem \cup Read \cup Logged,
         db'.snapshots = db.snapshots, HeldFull'
  PROVE  HeldFull' /\ Chain(Known') /\ SeqBounds'
<1> DEFINE Old == Stored \cup db.mem \cup Read \cup Logged
<1>1. \A e \in Old : e.seq <= db.lastSeq /\ e.seq \in Nat /\ e \in Entries
  <2>1. \A e \in Old : e.seq <= db.lastSeq
    BY DEF EntriesInv, SeqBounds, InLog
  <2>2. \A e \in Old : e \in Known
    BY DEF Known
  <2> HIDE DEF Old
  <2> QED BY <2>1, <2>2, KnownTypes
<1>2. db.lastSeq \in Nat /\ group' \in Nat
  BY FileTypes DEF TypeInv, WritersType
<1>3. /\ \A e \in GroupEntries' : e \in Entries /\ e.seq \in Nat /\ e.seq > db.lastSeq
      /\ Chain(GroupEntries')
  <2>1. /\ GroupEntries' \subseteq Entries
        /\ \A e \in GroupEntries' : e.seq \in db.lastSeq + 1..db.lastSeq + group'
        /\ Chain(GroupEntries')
    BY GroupEntriesFiniteNext DEF GroupFacts, EntrySets, FiniteParts
  <2> QED BY <1>2, <2>1
<1>4. Known' \subseteq Old \cup GroupEntries'
  BY DEF Known
<1>5. Chain(Old)
  <2>1. Old \subseteq Known
    BY DEF Known
  <2> HIDE DEF Old
  <2> QED BY <2>1, ChainPart DEF EntriesInv
<1>6. Chain(Old \cup GroupEntries')
  <2>1. Old \cup GroupEntries' \subseteq Entries
    BY <1>1, <1>3
  <2>2. ASSUME NEW a \in Old \cup GroupEntries', NEW b \in Old \cup GroupEntries',
               a.key = b.key, a.seq = b.seq
        PROVE  a = b
    <3> HIDE DEF Old
    <3>1. CASE a \in Old /\ b \in Old
      BY <1>5, <2>2, <3>1 DEF Chain
    <3>2. CASE a \in GroupEntries' /\ b \in GroupEntries'
      BY <1>3, <2>2, <3>2 DEF Chain
    <3>3. ~(a \in Old /\ b \in GroupEntries') /\ ~(b \in Old /\ a \in GroupEntries')
      BY <1>1, <1>2, <1>3, <2>2
    <3> QED BY <3>1, <3>2, <3>3
  <2> HIDE DEF Old
  <2> QED BY <2>1, <2>2 DEF Chain
<1>7. Chain(Known')
  <2> HIDE DEF Old
  <2> QED BY <1>4, <1>6, ChainPart
<1>8. SeqBounds'
  <2>1. \A e \in Stored' \cup (db.mem \cup Read)' \cup Logged' : e.seq <= db'.lastSeq
    BY <1>1
  <2>2. \A s \in db'.snapshots : s <= db'.lastSeq
    BY DEF EntriesInv, SeqBounds
  <2> QED BY <2>1, <2>2 DEF SeqBounds
<1> QED BY <1>7, <1>8

(* A switch of the memtable keeps the entries in order. *)
LEMMA SwitchesEntries ==
  ASSUME FilesInv, EntriesInv, TypeInv', Switches
  PROVE  EntriesInv'
<1>1. TypeInv
  BY DEF FilesInv
<1>2. /\ db.status = "open" /\ db'.status = "open" /\ db'.lastSeq = db.lastSeq
      /\ stage = "front" /\ stage' = "append"
      /\ db'.mem = {} /\ db'.imm = db.mem /\ db'.version = db.version
      /\ db'.logNumber = db.logNumber /\ db'.snapshots = db.snapshots
      /\ bg'.edit = bg.edit /\ bg'.compaction = bg.compaction
      /\ UNCHANGED <<tables, manifest, iterator, committed>>
      /\ logs' = With(logs, db.nextFile, EmptyLog) /\ db.nextFile \in Nat
  BY <1>1, FileTypes DEF Switches, history
<1>3. Held' = Held /\ Read' = Read
  BY <1>2 DEF Held, HeldByEdit, HeldByCompaction, HeldByReader, Read
<1>4. Logged' \subseteq Logged
  <2>1. LogEntries(EmptyLog) = {}
    BY DEF LogEntries, FirstEntries, EmptyLog
  <2>2. \A n \in LiveLogs' : logs'[n] = EmptyLog \/ (n \in LiveLogs /\ logs'[n] = logs[n])
    BY <1>2 DEF LiveLogs, LogStart, With
  <2> QED BY <2>1, <2>2 DEF Logged
<1>5. HeldFull'
  BY <1>2, <1>3 DEF HeldFull, EntriesInv
<1>6. (Stored \cup db.mem \cup Read \cup Logged)' \subseteq Stored \cup db.mem \cup Read \cup Logged
  BY <1>2, <1>3, <1>4 DEF Stored
<1>7. HeldFull' /\ Chain(Known') /\ SeqBounds'
  BY <1>1, <1>2, <1>5, <1>6, GroupBegins
<1>8. ManifestBound'
  BY <1>2 DEF EntriesInv, ManifestBound
<1>9. EditBounds'
  BY <1>2 DEF EntriesInv, EditBounds
<1>10. RecoveredInv'
  BY <1>2 DEF RecoveredInv
<1> QED BY <1>7, <1>8, <1>9, <1>10 DEF EntriesInv

(* What the quiet steps leave alone, the writers included. *)
LEMMA QuietHeld ==
  ASSUME EntriesInv, Quiet, db'.lastSeq >= db.lastSeq, TypeInv, TypeInv'
  PROVE  /\ Held' \subseteq Held /\ Read' \subseteq Read /\ LiveLogs' = LiveLogs
         /\ HeldFull' /\ ManifestBound' /\ EditBounds'
         /\ Contents(tables, Held)' \subseteq Contents(tables, Held)
<1>1. /\ UNCHANGED <<tables, manifest>> /\ db'.status = db.status /\ db'.version = db.version
      /\ db'.logNumber = db.logNumber /\ DOMAIN logs' = DOMAIN logs
      /\ bg'.edit \in {bg.edit, None} /\ bg'.compaction \in {bg.compaction, None}
      /\ iterator' \in {iterator, None}
  BY DEF Quiet
<1>2. Held' \subseteq Held
  BY <1>1 DEF Held, HeldByEdit, HeldByCompaction, HeldByReader
<1>3. Read' \subseteq Read
  BY <1>1 DEF Read
<1>4. LiveLogs' = LiveLogs
  BY <1>1 DEF LiveLogs, LogStart
<1>5. HeldFull' /\ ManifestBound'
  BY <1>1, <1>2 DEF EntriesInv, HeldFull, ManifestBound
<1>6. EditBounds'
  <2>1. db.lastSeq \in Nat /\ db'.lastSeq \in Nat /\ manifest.lastSeq \in Nat
        /\ (bg.edit # None => bg.edit.lastSeq \in Nat)
    BY FileTypes DEF TypeInv, DbType, Dbs
  <2>2. Contents(tables, Numbers(db.version))' = Contents(tables, Numbers(db.version))
    BY <1>1
  <2> SUFFICES ASSUME db.status # "closed" PROVE EditBounds'
    BY <1>1 DEF EditBounds
  <2>3. manifest'.lastSeq <= db'.lastSeq
    BY <1>1, <2>1 DEF EntriesInv, EditBounds
  <2>4. ASSUME bg'.edit # None
        PROVE  /\ manifest'.lastSeq <= bg'.edit.lastSeq /\ bg'.edit.lastSeq <= db'.lastSeq
               /\ \A e \in Contents(tables, Numbers(db.version) \cup Adds(bg.edit))' :
                     e.seq <= bg'.edit.lastSeq
    BY <1>1, <2>1, <2>4 DEF EntriesInv, EditBounds
  <2> QED BY <2>3, <2>4 DEF EditBounds
<1>7. Contents(tables, Held)' \subseteq Contents(tables, Held)
  BY <1>1, <1>2 DEF Contents
<1> QED BY <1>2, <1>3, <1>4, <1>5, <1>6, <1>7

(* The start of a write keeps the entries in order. *)
LEMMA BeginWriteEntries ==
  ASSUME FilesInv, EntriesInv, TypeInv', Quiet, BeginWrite
  PROVE  EntriesInv'
<1>1. TypeInv
  BY DEF FilesInv
<1>2. /\ db.status = "open" /\ stage = "front" /\ stage' = "append"
      /\ UNCHANGED <<tables, logs, manifest, db, bg, iterator, committed>>
  BY DEF BeginWrite, AtFront, BuildBatchGroup, disk, history
<1>3. db'.lastSeq >= db.lastSeq
  BY <1>1, <1>2, FileTypes
<1>4. HeldFull' /\ ManifestBound' /\ EditBounds'
  BY <1>1, <1>3, QuietHeld
<1>5. (Stored \cup db.mem \cup Read \cup Logged)' = Stored \cup db.mem \cup Read \cup Logged
  BY <1>2 DEF Stored, Read, Logged, LiveLogs, LogStart, Held, HeldByEdit, HeldByCompaction,
     HeldByReader
<1>6. Chain(Known') /\ SeqBounds'
  BY <1>1, <1>2, <1>4, <1>5, GroupBegins
<1>7. RecoveredInv'
  BY <1>2 DEF RecoveredInv
<1> QED BY <1>4, <1>6, <1>7 DEF EntriesInv

(* A record of the log, or its sync, keeps the entries in order. *)
LEMMA LogWriteEntries ==
  ASSUME FilesInv, EntriesInv, TypeInv', Quiet, AddRecord \/ AddRecordFails \/ Sync
  PROVE  EntriesInv'
<1>1. TypeInv
  BY DEF FilesInv
<1> DEFINE l == db.logfile
<1>2. /\ UNCHANGED <<tables, manifest, db, bg, iterator, committed, queue, group>>
      /\ DOMAIN logs' = DOMAIN logs /\ \A n \in DOMAIN logs : n # l => logs'[n] = logs[n]
  BY DEF AddRecord, AddRecordFails, Sync, history
<1>3. db.status = "open" /\ l \in DOMAIN logs
  <2>1. stage \in Writing
    BY DEF AddRecord, AddRecordFails, Sync, Writing
  <2>2. queue # <<>>
    <3>1. group # 0 /\ group \in 0..Len(queue)
      BY <1>1, <2>1 DEF TypeInv, WritersType
    <3> QED BY <3>1
  <2> QED BY <1>1, <2>2 DEF TypeInv, StatusInv, DbType, Dbs, Statuses
<1>4. db'.lastSeq >= db.lastSeq
  BY <1>1, <1>2, FileTypes
<1>5. /\ HeldFull' /\ ManifestBound' /\ EditBounds' /\ LiveLogs' = LiveLogs /\ Held' = Held
      /\ Read' = Read
  BY <1>1, <1>2, <1>4, QuietHeld DEF Held, HeldByEdit, HeldByCompaction, HeldByReader, Read
<1>6. GroupEntries' = GroupEntries
  BY <1>2, SameGroup
<1>7. LogEntries(logs'[l]) = LogEntries(logs[l]) \cup (IF AddRecord THEN GroupEntries ELSE {})
  <2>1. logs[l].records \in Seq(EntrySets) /\ logs[l] \in Logs
    BY <1>1, <1>3 DEF TypeInv, LogsType, Logs
  <2>2. CASE AddRecord
    <3> DEFINE r == Append(logs[l].records, GroupEntries)
               g == IF logs[l].torn THEN logs[l].good ELSE Len(logs[l].records) + 1
    <3>1. logs' = [logs EXCEPT ![l].records = r, ![l].good = g]
      BY <2>2 DEF AddRecord
    <3> HIDE DEF r, g
    <3>2. logs'[l].records = r
      BY <1>3, <2>1, <3>1 DEF Logs
    <3>3. logs'[l].records = Append(logs[l].records, GroupEntries)
      BY <3>2 DEF r
    <3> QED BY <2>1, <2>2, <3>3, LogGrows
  <2>3. CASE ~AddRecord
    <3>1. logs'[l].records = logs[l].records
      BY <1>3, <2>1, <2>3 DEF AddRecordFails, Sync, Logs
    <3> QED BY <2>3, <3>1 DEF LogEntries, FirstEntries
  <2> QED BY <2>2, <2>3
<1> HIDE DEF l
<1>8. Logged' \subseteq Logged \cup (IF AddRecord THEN GroupEntries ELSE {})
  BY <1>2, <1>5, <1>7 DEF Logged, LiveLogs
<1>9. Chain(Known')
  <2>1. Known' \subseteq Known
    BY <1>2, <1>5, <1>6, <1>8 DEF Known, Stored
  <2> QED BY <2>1, ChainPart DEF EntriesInv
<1>10. SeqBounds'
  <2>1. Stored' = Stored
    BY <1>2, <1>5 DEF Stored
  <2>2. stage # "written" /\ (stage \in InLog => stage' \in InLog) /\ (AddRecord => stage' \in InLog)
    BY DEF AddRecord, AddRecordFails, Sync, InLog
  <2>3. SeqBounds
    BY DEF EntriesInv
  <2> QED BY <1>2, <1>3, <1>5, <1>6, <1>8, <2>1, <2>2, <2>3 DEF SeqBounds
<1>11. RecoveredInv'
  BY <1>2, <1>3 DEF RecoveredInv
<1> QED BY <1>5, <1>9, <1>10, <1>11 DEF EntriesInv

(* The insertion of a group keeps the entries in order. *)
LEMMA InsertIntoEntries ==
  ASSUME FilesInv, EntriesInv, TypeInv', Quiet, InsertInto
  PROVE  EntriesInv'
<1>1. TypeInv
  BY DEF FilesInv
<1>2. /\ UNCHANGED <<tables, logs, manifest, bg, iterator, committed, queue, group>>
      /\ stage = "insert" /\ stage' = "written"
      /\ db' = [db EXCEPT !.mem = @ \cup GroupEntries]
  BY DEF InsertInto, disk, history
<1>3. db'.mem = db.mem \cup GroupEntries /\ db'.lastSeq = db.lastSeq /\ db'.snapshots = db.snapshots
      /\ db'.imm = db.imm /\ db'.status = db.status
  BY <1>1, <1>2 DEF TypeInv, DbType, Dbs, Quiet
<1>4. db'.lastSeq >= db.lastSeq
  BY <1>1, <1>3, FileTypes
<1>5. /\ HeldFull' /\ ManifestBound' /\ EditBounds' /\ LiveLogs' = LiveLogs /\ Held' \subseteq Held
      /\ Read' = Read
  BY <1>1, <1>2, <1>4, QuietHeld DEF Read
<1>6. GroupEntries' = GroupEntries
  BY <1>2, <1>3, SameGroup
<1>7. Logged' = Logged
  BY <1>2, <1>5 DEF Logged
<1>8. Stored' \subseteq Stored
  BY <1>2, <1>3, <1>5 DEF Stored, Contents
<1>9. Chain(Known')
  <2>1. Known' \subseteq Known
    BY <1>3, <1>5, <1>6, <1>7, <1>8 DEF Known
  <2> QED BY <2>1, ChainPart DEF EntriesInv
<1>10. SeqBounds'
  <2>1. SeqBounds
    BY DEF EntriesInv
  <2> QED BY <1>2, <1>3, <1>5, <1>6, <1>7, <1>8, <2>1 DEF SeqBounds, InLog
<1>11. RecoveredInv'
  <2>1. group # 0 /\ group \in 0..Len(queue)
    BY <1>1, <1>2 DEF TypeInv, WritersType, Writing
  <2>2. queue # <<>>
    BY <2>1
  <2> QED BY <1>1, <1>3, <2>2 DEF RecoveredInv, TypeInv, StatusInv
<1> QED BY <1>5, <1>9, <1>10, <1>11 DEF EntriesInv

(* The end of a write keeps the entries in order. *)
LEMMA EndWriteEntries ==
  ASSUME FilesInv, EntriesInv, TypeInv', Quiet, EndWrite
  PROVE  EntriesInv'
<1>1. TypeInv
  BY DEF FilesInv
<1>2. /\ UNCHANGED <<tables, logs, manifest, bg, iterator>> /\ stage' = "front" /\ group' = 0
      /\ committed' \subseteq committed \cup GroupEntries
      /\ stage \in {"written", "failed", "unsynced"}
  BY DEF EndWrite, Return, disk, history
<1>3. /\ db'.mem = db.mem /\ db'.lastSeq = db.lastSeq + group /\ db'.snapshots = db.snapshots
      /\ db'.imm = db.imm /\ db'.status = db.status /\ db.lastSeq \in Nat /\ group \in Nat
  <2> DEFINE s == db.lastSeq + group
             e == db.bgError \/ stage = "unsynced"
  <2>1. db' = [db EXCEPT !.lastSeq = s, !.bgError = e]
    BY DEF EndWrite
  <2> HIDE DEF s, e
  <2>2. /\ db'.mem = db.mem /\ db'.lastSeq = s /\ db'.snapshots = db.snapshots
        /\ db'.imm = db.imm /\ db'.status = db.status
    BY <1>1, <2>1 DEF TypeInv, DbType, Dbs
  <2>3. db.lastSeq \in Nat /\ group \in Nat
    BY <1>1, FileTypes DEF TypeInv, WritersType
  <2> QED BY <2>2, <2>3 DEF s
<1>4. db'.lastSeq >= db.lastSeq
  BY <1>3
<1>5. /\ HeldFull' /\ ManifestBound' /\ EditBounds' /\ LiveLogs' = LiveLogs /\ Held' \subseteq Held
      /\ Read' = Read
  BY <1>1, <1>2, <1>4, QuietHeld DEF Read
<1>6. GroupEntries' = {}
  BY <1>2 DEF GroupEntries
<1>7. Logged' = Logged
  BY <1>2, <1>5 DEF Logged
<1>8. Stored' \subseteq Stored \cup GroupEntries
  BY <1>2, <1>3, <1>5 DEF Stored, Contents
<1>9. Chain(Known')
  <2>1. Known' \subseteq Known
    BY <1>3, <1>5, <1>6, <1>7, <1>8 DEF Known
  <2> QED BY <2>1, ChainPart DEF EntriesInv
<1>a. db.status = "open"
  <2>1. group # 0 /\ group \in 0..Len(queue)
    BY <1>1, <1>2 DEF TypeInv, WritersType, Writing
  <2>2. queue # <<>>
    BY <2>1
  <2> QED BY <1>1, <2>2 DEF TypeInv, StatusInv, DbType, Dbs, Statuses
<1>10. SeqBounds'
  <2>1. SeqBounds
    BY DEF EntriesInv
  <2>2. \A e \in GroupEntries : e.seq <= db'.lastSeq
    <3>1. \A e \in GroupEntries : e.seq \in db.lastSeq + 1..db.lastSeq + group
      BY <1>1, <1>3, GroupEntriesFinite DEF TypeInv
    <3> QED BY <1>3, <3>1
  <2>3. \A e \in Stored \cup db.mem \cup Read \cup Logged : e.seq <= db'.lastSeq
    <3>1. \A e \in Stored \cup db.mem \cup Read \cup Logged : e.seq \in Nat
      BY KnownTypes
    <3>2. \A e \in Stored \cup db.mem \cup Read \cup Logged : e.seq <= db.lastSeq \/ e \in GroupEntries
      BY <1>a, <2>1 DEF SeqBounds
    <3> QED BY <1>3, <2>2, <3>1, <3>2
  <2>4. \A s \in db'.snapshots : s <= db'.lastSeq
    <3>1. \A s \in db.snapshots : s <= db.lastSeq /\ s \in Nat
      BY <1>1, <1>a, <2>1 DEF SeqBounds, TypeInv, DbType, Dbs
    <3> QED BY <1>3, <3>1
  <2>5. \A e \in Stored' \cup (db.mem \cup Read)' \cup Logged' : e.seq <= db'.lastSeq
    BY <1>3, <1>5, <1>7, <1>8, <2>2, <2>3
  <2> QED BY <2>4, <2>5 DEF SeqBounds
<1>11. RecoveredInv'
  BY <1>3, <1>a DEF RecoveredInv
<1> QED BY <1>5, <1>9, <1>10, <1>11 DEF EntriesInv

(* A step of the writers keeps the entries in order. *)
LEMMA WritesEntries ==
  ASSUME FilesInv, EntriesInv, TypeInv', Quiet, Writes
  PROVE  EntriesInv'
BY BeginWriteEntries, LogWriteEntries, InsertIntoEntries, EndWriteEntries DEF Writes

(* A crash keeps the entries in order. *)
LEMMA CrashesEntries ==
  ASSUME FilesInv, EntriesInv, Closes, NEW lengths, Keeps(lengths)
  PROVE  EntriesInv'
<1>1. TypeInv /\ NumbersInv
  BY DEF FilesInv
<1>2. /\ db'.status = "closed" /\ db'.version = NoTables /\ db'.mem = {} /\ db'.imm = {}
      /\ bg'.edit = None /\ bg'.compaction = None /\ iterator' = None /\ group' = 0
      /\ UNCHANGED <<tables, manifest>> /\ DOMAIN logs' = DOMAIN logs
  BY DEF Closes
<1>3. /\ committed' = Recoverable(lengths)
      /\ \A n \in DOMAIN logs : /\ LogEntries(logs'[n]) = FirstEntries(logs[n], lengths[n])
                                /\ lengths[n] \in 0..Len(logs[n].records)
  BY DEF Keeps
<1>4. Held' \subseteq Held /\ Read' = {} /\ GroupEntries' = {}
  <2>1. Numbers(NoTables) = {}
    BY DEF Numbers, NoTables
  <2> QED BY <1>2, <2>1, NoGroup DEF Held, HeldByEdit, HeldByCompaction, HeldByReader, Read,
             GroupEntries
<1>5. LiveLogs' = RecoverableLogs(logs) /\ LiveLogs' \subseteq LiveLogs
  <2>1. LiveLogs' = RecoverableLogs(logs)
    BY <1>2 DEF LiveLogs, LogStart, RecoverableLogs
  <2>2. LogStart <= manifest.log /\ LogStart \in Nat /\ manifest.log \in Nat /\ DOMAIN logs \subseteq Nat
    BY <1>1, FileTypes DEF NumbersInv, LogStart
  <2>3. \A n \in Nat : n >= manifest.log => n >= LogStart
    BY <2>2
  <2> QED BY <2>1, <2>2, <2>3 DEF LiveLogs, RecoverableLogs
<1>6. \A n \in DOMAIN logs : LogEntries(logs'[n]) \subseteq LogEntries(logs[n])
  <2> SUFFICES ASSUME NEW n \in DOMAIN logs
               PROVE  FirstEntries(logs[n], lengths[n]) \subseteq FirstEntries(logs[n], Len(logs[n].records))
    BY <1>3 DEF LogEntries
  <2>1. logs[n].records \in Seq(EntrySets) /\ lengths[n] \in 0..Len(logs[n].records)
    BY <1>1, <1>3 DEF TypeInv, LogsType, Logs
  <2>2. 1..lengths[n] \subseteq 1..Len(logs[n].records)
    BY <2>1
  <2> QED BY <2>2 DEF FirstEntries
<1>7. Logged' \subseteq Logged
  BY <1>5, <1>6 DEF Logged, LiveLogs
<1>8. committed' = Contents(tables, Numbers(manifest.files)) \cup Logged'
  BY <1>3, <1>5 DEF Recoverable, Logged, RecoverableLogs
<1>9. committed' \subseteq Known
  BY <1>7, <1>8 DEF Known, Stored, Held, Contents
<1>10. HeldFull' /\ Chain(Known')
  <2>1. db'.imm \cup committed' \cup db'.mem \cup Logged' \cup GroupEntries' \cup Read' \subseteq Known
    BY <1>2, <1>4, <1>7, <1>9 DEF Known
  <2>2. \A n \in Held' : tables'[n] = tables[n]
    BY <1>2
  <2> QED BY <1>4, <2>1, <2>2, NothingNew
<1>11. ManifestBound'
  BY <1>2 DEF EntriesInv, ManifestBound
<1>12. SeqBounds' /\ EditBounds'
  BY <1>2 DEF SeqBounds, EditBounds
<1>13. RecoveredInv'
  BY <1>2, <1>8 DEF RecoveredInv
<1> QED BY <1>10, <1>11, <1>12, <1>13 DEF EntriesInv

(* A failed opening keeps the entries in order. *)
LEMMA FailsToOpenEntries ==
  ASSUME FilesInv, EntriesInv, FailsToOpen
  PROVE  EntriesInv'
<1>1. TypeInv /\ NumbersInv
  BY DEF FilesInv
<1>2. /\ db'.status = "closed" /\ db'.version = NoTables /\ db'.mem = {} /\ db'.imm = {}
      /\ bg'.edit = None /\ bg'.compaction = None /\ iterator' = None /\ group' = 0
      /\ UNCHANGED <<tables, manifest, logs, committed>>
      /\ db.status = "opening" /\ bg.edit.state = "failed"
  BY DEF Closes, FailsToOpen
<1>4. Held' \subseteq Held /\ Read' = {} /\ GroupEntries' = {}
  <2>1. Numbers(NoTables) = {}
    BY DEF Numbers, NoTables
  <2> QED BY <1>2, <2>1 DEF Held, HeldByEdit, HeldByCompaction, HeldByReader, Read, GroupEntries
<1>5. manifest.files = db.version /\ manifest.log = db.logNumber
      /\ committed = Contents(tables, Numbers(db.version)) \cup Logged
  BY <1>2 DEF EntriesInv, RecoveredInv
<1>6. Logged' = Logged
  BY <1>2, <1>5 DEF Logged, LiveLogs, LogStart
<1>10. HeldFull' /\ Chain(Known')
  <2>1. db'.imm \cup committed' \cup db'.mem \cup Logged' \cup GroupEntries' \cup Read' \subseteq Known
    BY <1>2, <1>4, <1>6 DEF Known, Stored
  <2>2. \A n \in Held' : tables'[n] = tables[n]
    BY <1>2
  <2> QED BY <1>4, <2>1, <2>2, NothingNew
<1>11. ManifestBound'
  BY <1>2 DEF EntriesInv, ManifestBound
<1>12. SeqBounds' /\ EditBounds'
  BY <1>2 DEF SeqBounds, EditBounds
<1>13. RecoveredInv'
  BY <1>2, <1>5, <1>6 DEF RecoveredInv
<1> QED BY <1>10, <1>11, <1>12, <1>13 DEF EntriesInv

(* What recovery makes. *)
LEMMA RecoversWhat ==
  ASSUME FilesInv, EntriesInv, NEW order, NEW full, NEW next, Recovers(order, full, next)
  PROVE  /\ Adds(bg'.edit) = {next[i - 1] : i \in full}
         /\ \A n \in Adds(bg'.edit) : manifest.next < n /\ n \in Nat
         /\ \A n \in Numbers(manifest.files) : n < manifest.next /\ n \in Nat /\ tables'[n] = tables[n]
         /\ \A n \in Adds(bg'.edit) : tables'[n] # {}
         /\ Contents(tables', Adds(bg'.edit)) = Logged
         /\ Logged' = Logged
         /\ LiveLogs = RecoverableLogs(logs)
<1>0. TypeInv /\ NumbersInv
  BY DEF FilesInv
<1> DEFINE A == {next[i - 1] : i \in full}
<1>1. Adds(bg'.edit) = A
  <2>1. bg'.edit.adds = {<<0, next[i - 1]>> : i \in full}
    BY DEF Recovers
  <2>2. \A i \in full : <<0, next[i - 1]>>[2] = next[i - 1]
    OBVIOUS
  <2>3. Adds(bg'.edit) \subseteq A
    BY <2>1, <2>2 DEF Adds
  <2>4. A \subseteq Adds(bg'.edit)
    <3> SUFFICES ASSUME NEW i \in full PROVE next[i - 1] \in Adds(bg'.edit)
      OBVIOUS
    <3>1. <<0, next[i - 1]>> \in bg'.edit.adds
      BY <2>1
    <3> QED BY <2>2, <3>1 DEF Adds
  <2> HIDE DEF A
  <2> QED BY <2>3, <2>4
<1>2. \A i \in full : /\ next[i - 1] \in Nat /\ manifest.next < next[i - 1]
                      /\ tables'[next[i - 1]] = LogEntries(logs[order[i]])
                      /\ i \in 1..Len(order) /\ LogEntries(logs[order[i]]) # {}
  BY DEF Recovers
<1>3. \A n \in Numbers(manifest.files) : n < manifest.next /\ n \in Nat /\ tables'[n] = tables[n]
  <2> TAKE n \in Numbers(manifest.files)
  <2>1. n < manifest.next /\ n \in Nat /\ n <= manifest.next
    BY <1>0, FileTypes DEF NumbersInv
  <2>2. n \in DOMAIN tables
    BY DEF Recovers
  <2> QED BY <2>1, <2>2 DEF Recovers
<1>4. db.status = "closed" /\ LiveLogs = RecoverableLogs(logs)
  BY DEF Recovers, LiveLogs, LogStart, RecoverableLogs
<1>5. Contents(tables', A) = UNION {LogEntries(logs[order[i]]) : i \in full}
  BY <1>2 DEF Contents
<1>6. UNION {LogEntries(logs[order[i]]) : i \in full} = Logged
  <2>1. ASSUME NEW i \in full PROVE LogEntries(logs[order[i]]) \subseteq Logged
    <3>1. order[i] \in LiveLogs
      BY <1>2, <1>4 DEF Recovers
    <3> QED BY <3>1 DEF Logged
  <2>2. ASSUME NEW n \in LiveLogs, NEW e \in LogEntries(logs[n])
        PROVE  \E i \in full : e \in LogEntries(logs[order[i]])
    <3>1. PICK i \in 1..Len(order) : order[i] = n
      BY <1>4 DEF Recovers
    <3>2. i \in full
      BY <3>1 DEF Recovers
    <3> QED BY <3>1, <3>2
  <2> QED BY <2>1, <2>2 DEF Logged
<1>7. Logged' = Logged
  <2> DEFINE new == next[Len(order)]
  <2>0. /\ new \in Nat /\ manifest.next < new /\ \A i \in 1..Len(order) : order[i] < new
        /\ logs' = With(logs, new, EmptyLog) /\ db'.status = "opening" /\ db'.logNumber = manifest.log
        /\ manifest' = manifest
    BY DEF Recovers
  <2>a. manifest.log < manifest.next /\ manifest.log \in Nat /\ manifest.next \in Nat
    BY <1>0, FileTypes DEF NumbersInv
  <2>1. \A n \in LiveLogs : n < new
    <3> TAKE n \in LiveLogs
    <3>1. PICK i \in 1..Len(order) : order[i] = n
      BY <1>4 DEF Recovers
    <3> QED BY <2>0, <3>1
  <2> HIDE DEF new
  <2>2. DOMAIN logs' = DOMAIN logs \cup {new} /\ logs'[new] = EmptyLog
        /\ \A n \in DOMAIN logs : n # new => logs'[n] = logs[n]
    BY <2>0 DEF With
  <2>3. LiveLogs' = LiveLogs \cup {new}
    BY <1>4, <2>0, <2>a, <2>2 DEF LiveLogs, LogStart, RecoverableLogs
  <2>4. LogEntries(EmptyLog) = {}
    BY DEF LogEntries, FirstEntries, EmptyLog
  <2>5. \A n \in LiveLogs : logs'[n] = logs[n]
    <3> TAKE n \in LiveLogs
    <3>1. n < new /\ n \in DOMAIN logs /\ n \in Nat
      BY <1>0, <2>1, FileTypes DEF LiveLogs
    <3> QED BY <2>0, <2>2, <3>1
  <2> QED BY <2>2, <2>3, <2>4, <2>5 DEF Logged
<1>8. \A n \in A : tables'[n] # {} /\ manifest.next < n /\ n \in Nat
  BY <1>2
<1> HIDE DEF A
<1> QED BY <1>1, <1>3, <1>4, <1>5, <1>6, <1>7, <1>8 DEF A

(* A recovery keeps the entries in order. *)
LEMMA RecoversEntries ==
  ASSUME FilesInv, EntriesInv, TypeInv', NEW order, NEW full, NEW next, Recovers(order, full, next)
  PROVE  EntriesInv'
<1>1. TypeInv /\ NumbersInv
  BY DEF FilesInv
<1> DEFINE A == Adds(bg'.edit)
           M == Numbers(manifest.files)
<1>2. /\ db.status = "closed" /\ db'.status = "opening" /\ db'.version = manifest.files
      /\ db'.logNumber = manifest.log /\ db'.mem = {} /\ db'.imm = {} /\ db'.snapshots = {}
      /\ db'.lastSeq \in Nat /\ manifest.lastSeq <= db'.lastSeq /\ manifest.lastSeq \in Nat
      /\ bg'.edit # None /\ bg'.edit.lastSeq = db'.lastSeq /\ bg'.edit.state = "new"
      /\ bg'.compaction = None
      /\ iterator' = None /\ UNCHANGED <<manifest, writers, committed>>
  BY <1>1, FileTypes DEF Recovers, history
<1>3. /\ \A n \in A : manifest.next < n /\ n \in Nat
      /\ \A n \in M : n < manifest.next /\ n \in Nat /\ tables'[n] = tables[n]
      /\ \A n \in A : tables'[n] # {}
      /\ Contents(tables', A) = Logged
      /\ Logged' = Logged
  BY RecoversWhat
<1>4. Contents(tables, M)' = Contents(tables, M)
  BY <1>2, <1>3 DEF Contents
<1>5. committed = Contents(tables, M) \cup Logged
  BY <1>2 DEF EntriesInv, RecoveredInv
<1>6. group = 0 /\ group' = 0 /\ GroupEntries = {} /\ GroupEntries' = {}
  <2>1. queue = <<>> /\ group \in 0..Len(queue)
    BY <1>1, <1>2 DEF TypeInv, StatusInv, WritersType
  <2>2. group = 0 /\ group' = 0
    BY <1>2, <2>1 DEF writers
  <2> QED BY <2>2 DEF GroupEntries
<1>7. Held' = M \cup A
  BY <1>2 DEF Held, HeldByEdit, HeldByCompaction, HeldByReader
<1>8. Contents(tables, Held)' = Contents(tables, M) \cup Logged
  BY <1>3, <1>7 DEF Contents
<1>9. Stored' = committed /\ Read' = {}
  BY <1>2, <1>5, <1>8 DEF Stored, Read
<1>10. Known' \subseteq Known
  BY <1>2, <1>3, <1>5, <1>6, <1>9 DEF Known, Stored
<1>11. Chain(Known')
  BY <1>10, ChainPart DEF EntriesInv
<1>12. HeldFull'
  <2>1. \A n \in M : tables[n] # {}
    BY DEF EntriesInv, HeldFull, Held
  <2> QED BY <1>3, <1>7, <2>1 DEF HeldFull
<1>13. ManifestBound'
  BY <1>2, <1>4 DEF EntriesInv, ManifestBound
<1>14. \A e \in committed : e.seq <= db'.lastSeq
  <2> TAKE e \in committed
  <2>1. CASE e \in Contents(tables, M)
    <3>1. e.seq <= manifest.lastSeq
      BY <2>1 DEF EntriesInv, ManifestBound
    <3>2. e.seq \in Nat
      BY KnownTypes DEF Stored
    <3> QED BY <1>2, <3>1, <3>2
  <2>2. CASE e \in Logged
    <3>1. PICK n \in LiveLogs : e \in LogEntries(logs[n])
      BY <2>2 DEF Logged
    <3>2. n \in RecoverableLogs(logs)
      BY <3>1, RecoversWhat
    <3>3. PICK i \in 1..Len(order) : order[i] = n
      BY <3>2 DEF Recovers
    <3>4. i \in full
      BY <3>1, <3>3 DEF Recovers
    <3> QED BY <3>1, <3>3, <3>4 DEF Recovers
  <2> QED BY <1>5, <2>1, <2>2
<1>15. SeqBounds'
  BY <1>2, <1>3, <1>5, <1>9, <1>14 DEF SeqBounds
<1>16. Contents(tables, Numbers(db.version) \cup Adds(bg.edit))' = committed
  <2>1. Contents(tables', M \cup A) = Contents(tables', M) \cup Contents(tables', A)
    BY DEF Contents
  <2>2. Contents(tables', M) = Contents(tables, M)
    BY <1>2, <1>4
  <2> QED BY <1>2, <1>3, <1>5, <2>1, <2>2
<1>17. EditBounds'
  <2>1. db'.lastSeq <= db'.lastSeq
    BY <1>2
  <2> QED BY <1>2, <1>14, <1>16, <2>1 DEF EditBounds
<1>18. RecoveredInv'
  BY <1>2, <1>3, <1>4, <1>5, <1>16 DEF RecoveredInv
<1> QED BY <1>11, <1>12, <1>13, <1>15, <1>17, <1>18 DEF EntriesInv

(* The entries are in order at first. *)
LEMMA EntriesInit ==
  ASSUME Init
  PROVE  EntriesInv
<1>1. /\ db.status = "closed" /\ db.mem = {} /\ db.imm = {} /\ db.version = NoTables
      /\ manifest.files = NoTables /\ bg.edit = None /\ bg.compaction = None /\ iterator = None
      /\ committed = {} /\ group = 0 /\ DOMAIN logs = {}
  BY DEF Init, Closed, Resting
<1>2. Numbers(NoTables) = {}
  BY DEF Numbers, NoTables
<1>3. Held = {} /\ Read = {} /\ Logged = {} /\ GroupEntries = {}
  BY <1>1, <1>2 DEF Held, HeldByEdit, HeldByCompaction, HeldByReader, Read, Logged, LiveLogs,
     GroupEntries
<1>4. Known = {}
  BY <1>1, <1>3 DEF Known, Stored, Contents
<1> QED BY <1>1, <1>2, <1>3, <1>4 DEF EntriesInv, HeldFull, Chain, ManifestBound, SeqBounds,
           EditBounds, RecoveredInv, Contents

(* Every step keeps the entries in order. *)
LEMMA EntriesStep ==
  ASSUME FilesInv, EntriesInv, [Next]_vars
  PROVE  EntriesInv'
<1>1. FilesInv' /\ TypeInv' /\ TypeInv
  BY FilesStep, TypesStep DEF FilesInv
<1> QED BY <1>1, AllSteps, RestsEntries, WritesEntries, SwitchesEntries, CompactsEntries,
           AppendsEntries, InstallsEntries, CrashesEntries, FailsToOpenEntries, FlushesEntries,
           MovesEntries, PicksEntries, WorksEntries, BeginsEntries, RecoversEntries

(* (db_impl.cc:1185 Write, db_impl.cc:491 WriteLevel0Table) In every reachable state a key has at most one
   entry of a sequence number, no entry is beyond the number last given out, and no table is empty. *)
THEOREM EntriesAlways == Spec => []EntriesInv
<1>1. Init => FilesInv /\ EntriesInv
  BY FilesInit, EntriesInit
<1>2. FilesInv /\ EntriesInv /\ [Next]_vars => (FilesInv /\ EntriesInv)'
  BY FilesStep, EntriesStep
<1> QED BY <1>1, <1>2, PTL DEF Spec
=============================================================================
