-------------------------- MODULE LevelDBProofs --------------------------
(* Proofs about LevelDB: what is read and what is kept, for every instance. On the
   invariants of LevelDBFilesProofs rest, while no refused edit was written again,
     OrderInv    the levels, and what a compaction took and made, are sorted and do not overlap;
     MemoryInv   logs are newer than tables and newer ones than older ones, the memory tables
                 are in theirs, and an edit under way adds what was made for it;
     AgedInv     in every version the upper levels have the newer entries of a key, and what a
                 compaction takes has the oldest of its level;
     CoverInv    the database and every reader show what was committed, and what a compaction
                 drops hides nothing but what it leaves of the keys in "left";
     WritesInv   what succeeded is whole in the log, and a group that was to be synced is;
     KeptInv     what returned ok is in a log or a table that recovery reads, or something newer
                 of its key is, or a deletion that nothing older can outlive.
   Each is kept by each of the steps; LevelsSorted follows from the first, ReadsLatest from the
   first four, Durable from the last with those it rests on. *)
EXTENDS LevelDBFilesProofs

-----------------------------------------------------------------------------
\* The tables of the levels follow one another.

(* No table is apart from itself, nor from more than itself. *)
LEMMA NotApart ==
  ASSUME NEW A, Run(A), NEW B, A \subseteq B, B \subseteq Entries
  PROVE  ~Apart(A, B)
<1>1. PICK a \in A : a.key \in Int
  BY KeysAssumption DEF Run, Chain, Entries
<1> QED BY <1>1 DEF Apart

(* GetOverlappingInputs returns files that overlap nothing left outside. *)
LEMMA OverlappedTaken ==
  ASSUME NEW store, NEW files, Tidy(store, files), NEW level \in Levels,
         NEW E, E \subseteq Contents(store, Numbers(files)), Run(E)
  PROVE  Overlapped(store, files, level, E, GetOverlappingInputs(store, files, level, E))
BY OverlappingInputs

(* AddBoundaryInputs adds to its files what continues their last key. *)
LEMMA BoundaryTaken ==
  ASSUME NEW store, NEW files, Tidy(store, files), NEW level \in Levels,
         NEW numbers, numbers \subseteq files[level], numbers # {}
  PROVE  Bounded(store, files, level, numbers, AddBoundaryInputs(store, files, level, numbers))
BY BoundaryInputs

Whole(store, numbers) ==
    \A F : /\ F \subseteq Entries /\ F # {}
           /\ \A m \in numbers : Apart(store[m], F)
           => Apart(Contents(store, numbers), F)
Taken(store, files, level, inputs) ==
    /\ inputs.upper \subseteq files[level] /\ inputs.lower \subseteq files[level + 1]
    /\ inputs.upper # {}
    /\ \A m \in files[level + 1] :
          ~Apart(store[m], Contents(store, inputs.upper)) <=> m \in inputs.lower
    /\ Whole(store, inputs.upper \cup inputs.lower)

(* What a compaction takes: all of the next level that meets it, nothing else of that
   level, and nothing that leaves a gap. *)
LEMMA CompactionInputs ==
  ASSUME NEW store, NEW files, Tidy(store, files), NEW level \in 0..MaxLevel - 1,
         NEW n \in files[level], NEW inputs \in Inputs(store, files, level, {n})
  PROVE  Taken(store, files, level, inputs)
<1>1. level \in Levels /\ level + 1 \in Levels /\ level + 1 # 0
  BY LevelsAssumption DEF Levels
<1>2. /\ \A m \in Numbers(files) : Run(store[m])
      /\ files[level] \subseteq Numbers(files) /\ files[level + 1] \subseteq Numbers(files)
      /\ \A numbers \in SUBSET Numbers(files) :
            /\ Contents(store, numbers) \subseteq Contents(store, Numbers(files))
            /\ numbers # {} => Run(Contents(store, numbers))
      /\ Contents(store, Numbers(files)) \subseteq Entries
  BY <1>1, TidyPart DEF Tidy, Numbers, Chain
<1> DEFINE Meets(lower, upper) == /\ lower \subseteq files[level + 1]
                                  /\ \A m \in files[level + 1] :
                                        ~Apart(store[m], Contents(store, upper)) <=> m \in lower
           start == IF level = 0 THEN GetOverlappingInputs(store, files, 0, Contents(store, {n}))
                    ELSE {n}
           U == AddBoundaryInputs(store, files, level, start)
           Lower(taken) == GetOverlappingInputs(store, files, level + 1, Contents(store, taken))
           grow == GetOverlappingInputs(store, files, level, Contents(store, U \cup Lower(U)))
           G == AddBoundaryInputs(store, files, level, grow)
<1>3. Contents(store, {n}) = store[n] /\ Run(store[n]) /\ store[n] \subseteq Contents(store, Numbers(files))
  BY <1>2 DEF Contents
<1>4. start \subseteq files[level] /\ n \in start /\ Whole(store, start)
  <2>1. CASE level = 0
    <3> DEFINE T == GetOverlappingInputs(store, files, 0, Contents(store, {n}))
    <3>1. Overlapped(store, files, level, store[n], T)
      BY <1>1, <1>3, <2>1, OverlappedTaken
    <3>2. start = T
      BY <2>1
    <3> HIDE DEF T, start
    <3>3. store[n] \subseteq Entries
      BY <1>3 DEF Run, Chain
    <3>4. n \in T /\ T \subseteq files[level]
      BY <1>3, <3>1, <3>3, NotApart DEF Overlapped
    <3>5. Whole(store, T)
      <4> SUFFICES ASSUME NEW F, F \subseteq Entries, F # {}, \A m \in T : Apart(store[m], F)
                   PROVE  Apart(Contents(store, T), F)
        BY DEF Whole
      <4>1. Apart(store[n] \cup Contents(store, T), F)
        BY <3>1, <3>4 DEF Overlapped, Gapless
      <4> QED BY <4>1, ApartLess
    <3> QED BY <3>2, <3>4, <3>5
  <2>2. CASE level # 0
    <3>1. start = {n}
      BY <2>2
    <3> QED BY <1>3, <3>1 DEF Whole
  <2> QED BY <2>1, <2>2
<1> HIDE DEF start
<1>5. start # {}
  BY <1>4
<1>6. start \subseteq U /\ U \subseteq files[level] /\ Whole(store, U)
  <2>1. Bounded(store, files, level, start, U)
    BY <1>1, <1>4, <1>5, BoundaryTaken
  <2> HIDE DEF U
  <2>2. \A m \in start : m \in U
    BY <2>1 DEF Bounded
  <2> QED BY <1>4, <2>1, <2>2 DEF Bounded, Whole
<1>7. U # {}
  BY <1>5, <1>6
<1> HIDE DEF U
<1>8. ASSUME NEW T, T \subseteq files[level], T # {}
      PROVE  Run(Contents(store, T)) /\ Contents(store, T) \subseteq Contents(store, Numbers(files))
  <2>1. T \in SUBSET Numbers(files)
    BY <1>2, <1>8
  <2> QED BY <1>2, <1>8, <2>1
<1>9. ASSUME NEW T, T \subseteq files[level], T # {}
      PROVE  /\ Overlapped(store, files, level + 1, Contents(store, T), Lower(T))
             /\ Meets(Lower(T), T)
  <2>1. Overlapped(store, files, level + 1, Contents(store, T), Lower(T))
    BY <1>1, <1>8, <1>9, OverlappedTaken
  <2> HIDE DEF Lower
  <2> QED BY <1>1, <2>1 DEF Overlapped
<1>10. ASSUME NEW T, T \subseteq files[level], T # {}, Whole(store, T), NEW lower,
              Gapless(store, Contents(store, T), lower)
       PROVE  Whole(store, T \cup lower)
  <2>1. Contents(store, T \cup lower) = Contents(store, T) \cup Contents(store, lower)
    BY DEF Contents
  <2> QED BY <1>10, <2>1 DEF Whole, Gapless
<1>11. Whole(store, U \cup Lower(U)) /\ Lower(U) \subseteq files[level + 1]
  <2>1. Overlapped(store, files, level + 1, Contents(store, U), Lower(U))
    BY <1>6, <1>7, <1>9
  <2> HIDE DEF Lower
  <2>2. Gapless(store, Contents(store, U), Lower(U))
    BY <2>1 DEF Overlapped
  <2> QED BY <1>6, <1>7, <1>10, <2>1, <2>2 DEF Overlapped
<1>12. /\ grow \subseteq files[level] /\ U \subseteq grow
       /\ \A F : /\ F \subseteq Entries /\ F # {}
                 /\ \A m \in grow \cup Lower(U) : Apart(store[m], F)
                 => Apart(Contents(store, grow), F)
  <2> DEFINE E == Contents(store, U \cup Lower(U))
  <2>1. U \cup Lower(U) \in SUBSET Numbers(files) /\ U \cup Lower(U) # {}
    BY <1>2, <1>6, <1>7, <1>11
  <2>2. Run(E) /\ E \subseteq Contents(store, Numbers(files)) /\ E \subseteq Entries
    BY <1>2, <2>1
  <2>3. \A m \in U : store[m] \subseteq E
    BY DEF Contents
  <2>4. Overlapped(store, files, level, E, grow)
    <3> HIDE DEF E
    <3>1. grow = GetOverlappingInputs(store, files, level, E)
      BY DEF E
    <3> QED BY <1>1, <2>2, <3>1, OverlappedTaken
  <2> HIDE DEF grow, Lower
  <2>5. U \subseteq grow
    <3> SUFFICES ASSUME NEW m \in U PROVE m \in grow
      OBVIOUS
    <3> HIDE DEF E
    <3>1. m \in files[level] /\ Run(store[m])
      BY <1>2, <1>6
    <3>2. ~Apart(store[m], E)
      BY <2>2, <2>3, <3>1, NotApart
    <3> QED BY <2>4, <3>1, <3>2 DEF Overlapped
  <2>6. ASSUME NEW F, F \subseteq Entries, F # {}, \A m \in grow \cup Lower(U) : Apart(store[m], F)
        PROVE  Apart(Contents(store, grow), F)
    <3>1. Apart(E, F)
      BY <1>11, <2>5, <2>6 DEF Whole
    <3> HIDE DEF E
    <3>2. Apart(E \cup Contents(store, grow), F)
      BY <2>4, <2>6, <3>1 DEF Overlapped, Gapless
    <3> QED BY <3>2, ApartLess
  <2>7. grow \subseteq files[level]
    BY <2>4 DEF Overlapped
  <2> QED BY <2>5, <2>6, <2>7
<1>13. grow # {} /\ Bounded(store, files, level, grow, G)
  <2>1. grow # {}
    BY <1>7, <1>12
  <2> HIDE DEF grow
  <2> QED BY <1>1, <1>12, <2>1, BoundaryTaken
<1> HIDE DEF grow, G
<1>14. G # {} /\ G \subseteq files[level] /\ grow \subseteq G
  BY <1>13 DEF Bounded
<1>15. ASSUME Lower(G) = Lower(U)
       PROVE  Whole(store, G \cup Lower(G))
  <2>1. Overlapped(store, files, level + 1, Contents(store, G), Lower(G))
    BY <1>9, <1>14
  <2> DEFINE L == Lower(G)
  <2>2. L = Lower(U)
    BY <1>15
  <2>3. Gapless(store, Contents(store, G), L)
    BY <2>1 DEF Overlapped
  <2> HIDE DEF L, Lower
  <2>4. Contents(store, G \cup L) = Contents(store, G) \cup Contents(store, L)
    BY DEF Contents
  <2> SUFFICES ASSUME NEW F, F \subseteq Entries, F # {}, \A m \in G \cup L : Apart(store[m], F)
               PROVE  Apart(Contents(store, G) \cup Contents(store, L), F)
    BY <2>4 DEF Whole, L
  <2>5. Apart(Contents(store, grow), F)
    BY <1>12, <1>14, <2>2
  <2>6. Apart(Contents(store, G), F)
    BY <1>13, <2>5 DEF Bounded
  <2> QED BY <2>3, <2>6 DEF Gapless
<1>16. \/ inputs = [upper |-> U, lower |-> Lower(U)]
       \/ inputs = [upper |-> G, lower |-> Lower(G)] /\ Lower(G) = Lower(U)
  <2> DEFINE upper == {AddBoundaryInputs(store, files, level, taken) : taken \in {start}}
             Grown(taken) ==
               AddBoundaryInputs(store, files, level, GetOverlappingInputs(
                   store, files, level, Contents(store, taken \cup Lower(taken))))
             Free(grown) == \A taken \in upper : Lower(taken) # {} /\ Lower(grown) = Lower(taken)
  <2>1. upper = {U}
    BY DEF U
  <2>2. Inputs(store, files, level, {n}) =
          {[upper |-> taken, lower |-> Lower(taken)] :
             taken \in upper \cup {grown \in {Grown(taken) : taken \in upper} : Free(grown)}}
    BY DEF Inputs, Lower, start
  <2>3. Grown(U) = G
    BY DEF G, grow
  <2> HIDE DEF Grown, upper
  <2>4. PICK taken \in upper \cup {grown \in {Grown(taken) : taken \in upper} : Free(grown)} :
          inputs = [upper |-> taken, lower |-> Lower(taken)]
    BY <2>2
  <2>5. taken = U \/ (taken = G /\ Lower(G) = Lower(U))
    BY <2>1, <2>3, <2>4
  <2> QED BY <2>4, <2>5
<1>17. CASE inputs = [upper |-> U, lower |-> Lower(U)]
  <2>1. Meets(Lower(U), U)
    BY <1>6, <1>7, <1>9
  <2> HIDE DEF Lower
  <2> QED BY <1>6, <1>7, <1>11, <1>17, <2>1 DEF Taken
<1>18. CASE inputs = [upper |-> G, lower |-> Lower(G)] /\ Lower(G) = Lower(U)
  <2>1. Meets(Lower(G), G)
    BY <1>9, <1>14
  <2>2. Whole(store, G \cup Lower(G))
    BY <1>15, <1>18
  <2> HIDE DEF Lower
  <2> QED BY <1>14, <1>18, <2>1, <2>2 DEF Taken
<1> QED BY <1>16, <1>17, <1>18

(* What is on a level after an edit. *)
LEMMA AppliedLevels ==
  ASSUME NEW files \in Files, NEW edit, edit.adds \subseteq Levels \X Nat,
         NEW level \in Levels, NEW n
  PROVE  n \in Applied(files, edit)[level] <=>
           \/ n \in files[level] /\ <<level, n>> \notin edit.deletes
           \/ <<level, n>> \in edit.adds
<1> DEFINE added == {add[2] : add \in {a \in edit.adds : a[1] = level}}
<1>1. Applied(files, edit)[level]
        = (files[level] \ {m \in Numbers(files) : <<level, m>> \in edit.deletes}) \cup added
  BY DEF Applied
<1>2. files[level] \subseteq Numbers(files)
  BY DEF Numbers
<1>3. n \in added <=> <<level, n>> \in edit.adds
  <2>1. ASSUME n \in added PROVE <<level, n>> \in edit.adds
    <3>1. PICK a \in edit.adds : a[1] = level /\ a[2] = n
      BY <2>1
    <3>2. a = <<level, n>>
      BY <3>1
    <3> QED BY <3>1, <3>2
  <2>2. ASSUME <<level, n>> \in edit.adds PROVE n \in added
    <3> DEFINE a == <<level, n>>
    <3>1. a[1] = level /\ a[2] = n
      OBVIOUS
    <3> QED BY <2>2, <3>1
  <2> QED BY <2>1, <2>2
<1> HIDE DEF added
<1> QED BY <1>1, <1>2, <1>3

(* The order of tables is a matter of what they hold. *)
LEMMA OrderedSame ==
  ASSUME NEW store, NEW stored, NEW files, Ordered(store, files),
         \A n \in Numbers(files) : stored[n] = store[n]
  PROVE  Ordered(stored, files)
<1>1. \A level \in Levels : \A n \in files[level] : stored[n] = store[n]
  BY DEF Numbers
<1> QED BY <1>1 DEF Ordered

\* Two tables follow one another.
Follow(A, B) == Precedes(A, B) \/ Precedes(B, A)

(* Tables that are apart do. *)
LEMMA ApartFollow ==
  ASSUME NEW A, NEW B, Apart(A, B)
  PROVE  Follow(A, B)
BY DEF Apart, Follow, Precedes, Before

\* One table more on a level.
Joins(files, files2, level, n) ==
    \A l \in Levels : \A m : m \in files2[l] <=> m \in files[l] \/ (l = level /\ m = n)
FollowsAll(store, numbers, n) == \A m \in numbers : m # n => Follow(store[m], store[n])

(* One table more on a level where it follows all the others or is followed by them. *)
LEMMA OrderedWith ==
  ASSUME NEW store, NEW files, Ordered(store, files), NEW files2, NEW level \in Levels, NEW n,
         Joins(files, files2, level, n), level # 0 => FollowsAll(store, files[level], n)
  PROVE  Ordered(store, files2)
<1> SUFFICES ASSUME NEW l \in Levels \ {0}, NEW m \in files2[l], NEW o \in files2[l], m # o
             PROVE  Precedes(store[m], store[o]) \/ Precedes(store[o], store[m])
  BY DEF Ordered
<1> USE DEF Joins, FollowsAll
<1>1. CASE m \in files[l] /\ o \in files[l]
  BY <1>1 DEF Ordered
<1>2. CASE m = n /\ l = level /\ o \in files[l]
  BY <1>2 DEF Follow
<1>3. CASE o = n /\ l = level /\ m \in files[l]
  BY <1>3 DEF Follow
<1> QED BY <1>1, <1>2, <1>3

(* A table that is apart from the upper inputs is not among the lower ones, all of which
   meet the upper inputs: it is on one side of them all. *)
LEMMA OutsideFollows ==
  ASSUME NEW T, Run(T), NEW U, Run(U), Apart(T, U), NEW store, NEW lower,
         \A m \in lower : Run(store[m]) /\ ~Apart(store[m], U) /\ Follow(T, store[m])
  PROVE  Follow(T, U \cup Contents(store, lower))
<1>1. T \subseteq Entries /\ U \subseteq Entries /\ \A m \in lower : store[m] \subseteq Entries
  BY DEF Run, Chain
<1>2. \A e \in Entries : e.key \in Int
  BY KeysAssumption DEF Entries
<1>3. PICK t \in T : t.key \in Int
  BY <1>1, <1>2 DEF Run
<1>4. CASE \A a \in T, b \in U : a.key < b.key
  <2>1. ASSUME NEW m \in lower PROVE Precedes(T, store[m])
    <3>1. PICK a \in store[m], b \in U : ~(a.key < b.key)
      BY <2>1 DEF Apart
    <3>2. t.key < b.key /\ a.key \in Int /\ b.key \in Int
      BY <1>1, <1>2, <1>4
    <3>3. ~Before(a, t)
      BY <1>3, <3>1, <3>2 DEF Before
    <3> QED BY <2>1, <3>3 DEF Follow, Precedes
  <2>2. Precedes(T, U)
    BY <1>4 DEF Precedes, Before
  <2> QED BY <2>1, <2>2 DEF Follow, Precedes, Contents
<1>5. CASE \A a \in T, b \in U : a.key > b.key
  <2>1. ASSUME NEW m \in lower PROVE Precedes(store[m], T)
    <3>1. PICK a \in store[m], b \in U : ~(a.key > b.key)
      BY <2>1 DEF Apart
    <3>2. t.key > b.key /\ a.key \in Int /\ b.key \in Int
      BY <1>1, <1>2, <1>5
    <3>3. ~Before(t, a)
      BY <1>3, <3>1, <3>2 DEF Before
    <3> QED BY <2>1, <3>3 DEF Follow, Precedes
  <2>2. Precedes(U, T)
    <3>1. \A a \in T, b \in U : a.key \in Int /\ b.key \in Int
      BY <1>1, <1>2
    <3> QED BY <1>5, <3>1 DEF Precedes, Before
  <2> QED BY <2>1, <2>2 DEF Follow, Precedes, Contents
<1> QED BY <1>4, <1>5 DEF Apart

\* The tables of the output's level that a compaction leaves follow its inputs.
Fits(store, files, c) ==
    /\ c.upper \subseteq files[c.level] /\ c.lower \subseteq files[c.level + 1]
    /\ \A n \in files[c.level + 1] \ c.lower :
          Follow(store[n], Contents(store, c.upper \cup c.lower))

(* The inputs that a compaction takes fit in. *)
LEMMA TakenFits ==
  ASSUME NEW store, NEW files, Tidy(store, files), Ordered(store, files), NEW c,
         c.level \in 0..MaxLevel - 1, Taken(store, files, c.level, c)
  PROVE  Fits(store, files, c)
<1>0. /\ c.upper \subseteq files[c.level] /\ c.lower \subseteq files[c.level + 1]
      /\ c.upper # {}
      /\ \A m \in files[c.level + 1] :
            ~Apart(store[m], Contents(store, c.upper)) <=> m \in c.lower
  BY DEF Taken
<1>1. c.level \in Levels /\ c.level + 1 \in Levels \ {0}
  BY LevelsAssumption DEF Levels
<1>2. c.upper \in SUBSET Numbers(files)
  BY <1>0, <1>1 DEF Numbers
<1>3. Run(Contents(store, c.upper)) /\ \A m \in files[c.level + 1] : Run(store[m])
  BY <1>0, <1>1, <1>2, TidyPart
<1> SUFFICES ASSUME NEW n \in files[c.level + 1] \ c.lower
             PROVE  Follow(store[n], Contents(store, c.upper \cup c.lower))
  BY <1>0 DEF Fits
<1>4. \A m \in c.lower : Follow(store[n], store[m])
  BY <1>0, <1>1 DEF Ordered, Follow
<1>5. Contents(store, c.upper \cup c.lower) = Contents(store, c.upper) \cup Contents(store, c.lower)
  BY DEF Contents
<1>6. Run(store[n]) /\ Apart(store[n], Contents(store, c.upper))
  BY <1>0, <1>3
<1>7. \A m \in c.lower : Run(store[m]) /\ ~Apart(store[m], Contents(store, c.upper))
  BY <1>0, <1>3
<1>8. Follow(store[n], Contents(store, c.upper) \cup Contents(store, c.lower))
  BY <1>3, <1>4, <1>6, <1>7, OutsideFollows
<1> QED BY <1>5, <1>8

(* A table that is apart from all of both levels changes nothing of that. *)
LEMMA FitsWith ==
  ASSUME NEW store, NEW files, NEW c, Fits(store, files, c), c.level \in 0..MaxLevel - 1,
         c.upper # {},
         \A n \in c.upper \cup c.lower : Run(store[n]),
         Whole(store, c.upper \cup c.lower), NEW n, Run(store[n]), NEW level \in Levels,
         NEW files2, Joins(files, files2, level, n),
         level = c.level + 1 => \A m \in c.upper \cup c.lower : Apart(store[m], store[n])
  PROVE  Fits(store, files2, c)
<1>1. c.level \in Levels /\ c.level + 1 \in Levels
  BY LevelsAssumption DEF Levels
<1>a. c.upper \subseteq files2[c.level] /\ c.lower \subseteq files2[c.level + 1]
  BY <1>1 DEF Fits, Joins
<1>b. \A m \in files2[c.level + 1] \ c.lower :
        \/ Follow(store[m], Contents(store, c.upper \cup c.lower))
        \/ level = c.level + 1 /\ m = n
  BY <1>1 DEF Fits, Joins
<1> SUFFICES ASSUME level = c.level + 1
             PROVE  Follow(store[n], Contents(store, c.upper \cup c.lower))
  BY <1>a, <1>b DEF Fits
<1> DEFINE I == c.upper \cup c.lower
<1>2. store[n] \subseteq Entries /\ store[n] # {}
  BY DEF Run, Chain
<1>3. Apart(Contents(store, I), store[n])
  BY <1>2 DEF Whole
<1> QED BY <1>3, ApartFollow DEF Follow

(* A table stays what it is while somebody holds it. *)
LEMMA HeldStay ==
  ASSUME FilesInv, FilesInv', EntriesInv, [Next]_vars
  PROVE  /\ \A n \in Held : n \in Held' => tables'[n] = tables[n]
         /\ repeated => repeated'
<1>0. TypeInv /\ NumbersInv
  BY DEF FilesInv
<1>1. ASSUME UNCHANGED <<tables, repeated>>
      PROVE  (\A n \in Held : tables'[n] = tables[n]) /\ (repeated => repeated')
  BY <1>1
<1>2. CASE Rests \/ (Quiet /\ Writes) \/ Switches \/ Closes \/ FailsToOpen
           \/ Compacts \/ (\E level, inputs : Moves(level, inputs) \/ Picks(level, inputs))
           \/ \E seq : Begins(seq)
  <2>1. UNCHANGED <<tables, repeated>>
    BY <1>2 DEF Rests, Quiet, Switches, Closes, FailsToOpen, Compacts, Moves, Picks, Begins,
       disk, history
  <2> QED BY <1>1, <2>1
<1>3. CASE Appends
  <2>1. UNCHANGED tables
    BY <1>3 DEF Appends
  <2>2. AppendEdit \/ UNCHANGED repeated
    BY <1>3 DEF Appends
  <2>3. repeated => repeated'
    BY <2>2 DEF AppendEdit
  <2> QED BY <2>1, <2>3
<1>4. CASE Installs
  <2>1. UNCHANGED repeated /\ (UNCHANGED tables \/ DeleteObsoleteFiles(db', bg'.compaction))
    BY <1>4 DEF Installs, history
  <2>2. \A n \in DOMAIN tables' : tables'[n] = tables[n]
    BY <1>0, <2>1, DeletedTypes DEF TypeInv
  <2>3. Held' \subseteq DOMAIN tables'
    BY HeldOnDiskNext DEF HeldFacts
  <2> QED BY <2>1, <2>2, <2>3
<1>5. CASE \E level : Flushes(level)
  <2>1. tables' = With(tables, db.nextFile, db.imm) /\ UNCHANGED repeated
        /\ db.status # "closed"
    BY <1>5 DEF Flushes, history
  <2>2. \A n \in Held : n < db.nextFile /\ n \in DOMAIN tables /\ n \in Nat
    BY <2>1, HeldOnDisk
  <2>3. \A n \in Held : n # db.nextFile
    BY <1>0, <2>2, FileTypes
  <2> QED BY <2>1, <2>2, <2>3 DEF With
<1>6. CASE \E first, rest, numbers : Works(first, rest, numbers)
  <2>1. PICK numbers : /\ \A m \in numbers : m = db.nextFile \/ m = db.nextFile + 1
                       /\ \A m \in DOMAIN tables \ numbers : tables'[m] = tables[m]
                       /\ UNCHANGED repeated /\ db.status # "closed"
    BY <1>6 DEF Works
  <2>2. \A n \in Held : n \in DOMAIN tables /\ n \in Nat /\ n < db.nextFile
    BY <2>1, HeldOnDisk
  <2>3. \A n \in Held : n \notin numbers
    BY <1>0, <2>1, <2>2, FileTypes
  <2> QED BY <2>1, <2>2, <2>3
<1>7. CASE \E order, full, next : Recovers(order, full, next)
  <2>1. PICK order, full, next : Recovers(order, full, next)
    BY <1>7
  <2>2. db.status = "closed" /\ UNCHANGED repeated
    BY <2>1 DEF Recovers, history
  <2>3. \A n \in Numbers(manifest.files) : tables'[n] = tables[n]
    BY <2>1, RecoversWhat
  <2>4. Held = Numbers(manifest.files)
    BY <2>2, HeldOnDisk
  <2> QED BY <2>2, <2>3, <2>4
<1> QED BY <1>0, <1>2, <1>3, <1>4, <1>5, <1>6, <1>7, AllSteps

(* Versions in use are tidy. *)
TidyFacts == \A files \in Files : Numbers(files) \subseteq Held => Tidy(tables, files)

(* The versions in use name tables that are there, in order. *)
LEMMA VersionsTidy ==
  ASSUME FilesInv, EntriesInv
  PROVE  TidyFacts
<1> SUFFICES ASSUME NEW files \in Files, Numbers(files) \subseteq Held
             PROVE  Tidy(tables, files)
  BY DEF TidyFacts
<1>1. \A n \in Held : n \in DOMAIN tables
  BY HeldOnDisk
<1>2. \A n \in DOMAIN tables : tables[n] \in EntrySets
  BY DEF FilesInv, TypeInv, TablesType
<1>3. Contents(tables, Held) \subseteq Known
  BY DEF Known, Stored
<1>4. ASSUME NEW n \in Held PROVE Run(tables[n])
  <2>1. tables[n] \subseteq Known
    BY <1>3 DEF Contents
  <2>2. Chain(tables[n])
    BY <2>1, ChainPart DEF EntriesInv
  <2>3. IsFiniteSet(tables[n])
    BY <1>1, <1>2 DEF EntrySets, FiniteParts
  <2> QED BY <2>2, <2>3 DEF Run, EntriesInv, HeldFull
<1>5. Chain(Contents(tables, Numbers(files)))
  <2>1. Contents(tables, Numbers(files)) \subseteq Known
    BY <1>3 DEF Contents
  <2> QED BY <2>1, ChainPart DEF EntriesInv
<1>6. files \in [Levels -> SUBSET Nat] /\ \A level \in Levels : IsFiniteSet(files[level])
  BY DEF Files, FiniteParts
<1> QED BY <1>4, <1>5, <1>6 DEF Tidy

(* The same of the next state. *)
LEMMA VersionsTidyNext == FilesInv' /\ EntriesInv' => TidyFacts'
<1>1. FilesInv /\ EntriesInv => TidyFacts
  BY VersionsTidy
<1> QED BY <1>1, PTL

(* What is in a version that somebody holds. *)
LEMMA HeldVersions ==
  ASSUME TypeInv
  PROVE  /\ Numbers(manifest.files) \subseteq Held /\ manifest.files \in Files
         /\ Numbers(db.version) \subseteq Held /\ db.version \in Files
         /\ bg.edit # None => /\ Numbers(Applied(db.version, bg.edit)) \subseteq Held
                              /\ Applied(db.version, bg.edit) \in Files
                              /\ Adds(bg.edit) \subseteq Held
         /\ bg.compaction # None => /\ bg.compaction.outputs \subseteq Held
                                    /\ Numbers(bg.compaction.version) \subseteq Held
                                    /\ bg.compaction.upper \subseteq Held
                                    /\ bg.compaction.lower \subseteq Held
<1>1. /\ Numbers(manifest.files) \subseteq Held /\ manifest.files \in Files
      /\ Numbers(db.version) \subseteq Held /\ db.version \in Files
  BY FileTypes DEF Held
<1>2. ASSUME bg.edit # None
      PROVE  /\ Numbers(Applied(db.version, bg.edit)) \subseteq Held
             /\ Applied(db.version, bg.edit) \in Files
             /\ Adds(bg.edit) \subseteq Held
  <2>1. Adds(bg.edit) \subseteq Held
    BY <1>2 DEF Held, HeldByEdit
  <2>2. IsEdit(bg.edit)
    BY <1>2, FileTypes
  <2> QED BY <1>1, <2>1, <2>2, AppliedNumbers
<1>3. ASSUME bg.compaction # None
      PROVE  /\ bg.compaction.outputs \subseteq Held
             /\ Numbers(bg.compaction.version) \subseteq Held
             /\ bg.compaction.upper \subseteq Held
             /\ bg.compaction.lower \subseteq Held
  <2>1. /\ bg.compaction.outputs \subseteq Held
        /\ Numbers(bg.compaction.version) \subseteq Held
    BY <1>3 DEF Held, HeldByCompaction
  <2>2. IsCompaction(bg.compaction)
    BY <1>3 DEF TypeInv, BgType
  <2>3. bg.compaction.level \in Levels /\ bg.compaction.level + 1 \in Levels
    BY <2>2, LevelsAssumption DEF IsCompaction, Compactions, Levels
  <2>4. /\ bg.compaction.upper \subseteq bg.compaction.version[bg.compaction.level]
        /\ bg.compaction.lower \subseteq bg.compaction.version[bg.compaction.level + 1]
    BY <2>2 DEF IsCompaction
  <2> QED BY <2>1, <2>3, <2>4 DEF Numbers
<1> QED BY <1>1, <1>2, <1>3

-----------------------------------------------------------------------------
\* The invariant.

(* A compaction fits into the version, whatever is flushed meanwhile. *)
CompactionOrder(c) ==
    /\ c.upper # {} /\ Whole(tables, c.upper \cup c.lower)
    /\ Fits(tables, db.version, c)
    /\ bg.edit # None /\ bg.edit.kind = "flush" => Fits(tables, Applied(db.version, bg.edit), c)
    /\ \A n, m \in c.outputs : n = m \/ Follow(tables[n], tables[m])
    /\ \A n \in c.outputs : tables[n] \subseteq Contents(tables, c.upper \cup c.lower)

(* The versions in use are sorted. *)
OrderInv ==
    ~repeated =>
      /\ Ordered(tables, manifest.files)
      /\ Ordered(tables, db.version)
      /\ bg.edit # None => Ordered(tables, Applied(db.version, bg.edit))
      /\ bg.compaction # None => CompactionOrder(bg.compaction)

(* A step that makes no table, edit or compaction. *)
LEMMA OrderSame ==
  ASSUME OrderInv, UNCHANGED <<tables, manifest, repeated>>, db'.version = db.version,
         bg'.edit \in {bg.edit, None}, bg'.compaction \in {bg.compaction, None}
  PROVE  OrderInv'
<1>1. ASSUME ~repeated, bg'.compaction # None PROVE CompactionOrder(bg.compaction)'
  <2>1. CompactionOrder(bg.compaction)
    BY <1>1 DEF OrderInv
  <2> QED BY <1>1, <2>1 DEF CompactionOrder
<1>2. ASSUME ~repeated, bg'.edit # None PROVE Ordered(tables', Applied(db'.version, bg'.edit))
  BY <1>2 DEF OrderInv
<1> QED BY <1>1, <1>2 DEF OrderInv

(* A step that touches no table, version or edit keeps the levels in order. *)
LEMMA QuietOrder == ASSUME OrderInv, Quiet PROVE OrderInv'
BY OrderSame DEF Quiet
(* A switch of the memtable keeps the levels in order. *)
LEMMA SwitchesOrder == ASSUME OrderInv, Switches PROVE OrderInv'
<1>1. /\ UNCHANGED <<tables, manifest, repeated>> /\ db'.version = db.version
      /\ bg'.edit = bg.edit /\ bg'.compaction = bg.compaction
  BY DEF Switches, history
<1> QED BY <1>1, OrderSame
(* A new iterator keeps the levels in order. *)
LEMMA BeginsOrder == ASSUME OrderInv, NEW seq, Begins(seq) PROVE OrderInv'
<1>1. UNCHANGED <<tables, manifest, repeated, db, bg>>
  BY DEF Begins, disk, history
<1> QED BY <1>1, OrderSame
(* A crash or a failed opening keeps the levels in order. *)
LEMMA ClosesOrder == ASSUME OrderInv, Closes PROVE OrderInv'
<1>1. /\ UNCHANGED <<tables, manifest, repeated>> /\ db'.version = NoTables
      /\ bg'.edit = None /\ bg'.compaction = None
  BY DEF Closes
<1>2. \A store : Ordered(store, NoTables)
  BY DEF Ordered, NoTables
<1> QED BY <1>1, <1>2 DEF OrderInv

(* The tables that stay keep their order. *)
LEMMA OrderStays ==
  ASSUME TypeInv, TypeInv', OrderInv, ~repeated, ~repeated',
         \A n \in Held : n \in Held' => tables'[n] = tables[n]
  PROVE  /\ UNCHANGED manifest => Ordered(tables', manifest'.files)
         /\ db'.version = db.version => Ordered(tables', db'.version)
<1>1. ASSUME UNCHANGED manifest PROVE Ordered(tables', manifest'.files)
  <2>1. Ordered(tables, manifest.files) /\ Numbers(manifest.files) \subseteq Held
    BY HeldVersions DEF OrderInv
  <2>2. Numbers(manifest.files)' \subseteq Held'
    BY DEF Held
  <2> QED BY <1>1, <2>1, <2>2, OrderedSame
<1>2. ASSUME db'.version = db.version PROVE Ordered(tables', db'.version)
  <2>1. Ordered(tables, db.version) /\ Numbers(db.version) \subseteq Held
    BY HeldVersions DEF OrderInv
  <2>2. Numbers(db.version)' \subseteq Held'
    BY DEF Held
  <2> QED BY <1>2, <2>1, <2>2, OrderedSame
<1> QED BY <1>1, <1>2

(* A compaction keeps its place while its tables are held. *)
SameTables(store, stored, numbers) == \A n \in numbers : stored[n] = store[n]

(* A compaction that fits a version of unchanged tables goes on fitting it. *)
LEMMA FitsSame ==
  ASSUME NEW store, NEW stored, NEW files, NEW c, Fits(store, files, c), 
         c.level \in 0..MaxLevel - 1,
         SameTables(store, stored, Numbers(files)), NEW I, I = c.upper \cup c.lower
  PROVE  /\ Fits(stored, files, c)
         /\ Contents(stored, I) = Contents(store, I)
         /\ Whole(store, I) => Whole(stored, I)
         /\ I \subseteq Numbers(files)
<1> USE DEF SameTables
<1>1. c.level \in Levels /\ c.level + 1 \in Levels
  BY LevelsAssumption DEF Levels
<1>2. \A n \in c.upper \cup c.lower : n \in Numbers(files) /\ stored[n] = store[n]
  BY <1>1 DEF Fits, Numbers
<1>3. Contents(stored, c.upper \cup c.lower) = Contents(store, c.upper \cup c.lower)
  BY <1>2 DEF Contents
<1>4. \A n \in files[c.level + 1] : stored[n] = store[n]
  BY <1>1 DEF Numbers
<1>5. Fits(stored, files, c)
  BY <1>3, <1>4 DEF Fits
<1>6. Whole(store, c.upper \cup c.lower) => Whole(stored, c.upper \cup c.lower)
  BY <1>2, <1>3 DEF Whole
<1> QED BY <1>2, <1>3, <1>5, <1>6

(* The memory table goes where no table down to its level meets it. *)
LEMMA FlushedApart ==
  ASSUME NEW store, NEW files, Tidy(store, files), NEW E, Run(E),
         NEW level \in LevelsForMemTableOutput(store, files, E), level # 0
  PROVE  \A k \in 0..level : \A n \in files[k] : Apart(store[n], E)
<1>1. /\ level \in 0..MaxMemCompactLevel
      /\ Meeting(store, files[0], E) = {}
      /\ \A above \in 1..level : Meeting(store, files[above], E) = {}
  BY DEF LevelsForMemTableOutput
<1> SUFFICES ASSUME NEW k \in 0..level PROVE \A n \in files[k] : Apart(store[n], E)
  OBVIOUS
<1>2. k \in Levels
  BY <1>1, LevelsAssumption DEF Levels
<1>3. Meeting(store, files[k], E) = {}
  BY <1>1
<1>4. \A n \in files[k] : Run(store[n])
  BY <1>2, TidyPart
<1> QED BY <1>3, <1>4, MeetingApart

(* A new table of a memtable keeps the levels in order. *)
LEMMA FlushesOrder ==
  ASSUME FilesInv, FilesInv', EntriesInv, EntriesInv', OrderInv, [Next]_vars,
         NEW level, Flushes(level)
  PROVE  OrderInv'
<1>0. TypeInv /\ TypeInv'
  BY DEF FilesInv
<1> DEFINE k == db.nextFile
           V == db.version
           V2 == Applied(V, bg'.edit)
           c == bg.compaction
<1>1. /\ db.status = "open" /\ db.imm # {} /\ level \in Levels
      /\ level \in LevelsForMemTableOutput(tables, V, db.imm)
      /\ UNCHANGED <<manifest, repeated>> /\ db'.version = V
      /\ bg'.edit.kind = "flush"
      /\ bg'.edit.adds = {<<level, k>>} /\ bg'.edit.deletes = {} /\ bg'.compaction = c
  BY DEF Flushes, SameVersion, history
<1> SUFFICES ASSUME ~repeated PROVE OrderInv'
  BY <1>1 DEF OrderInv
<1>2. \A n \in Held : n \in Held' => tables'[n] = tables[n]
  BY HeldStay
<1>3. /\ Ordered(tables', manifest'.files) /\ Ordered(tables', V) /\ V \in Files
      /\ Numbers(V) \subseteq Held /\ Numbers(V) \subseteq Held'
  <2>1. Numbers(db.version)' \subseteq Held'
    BY DEF Held
  <2> QED BY <1>0, <1>1, <1>2, <2>1, OrderStays, HeldVersions
<1>4. tables'[k] = db.imm
  BY DEF Flushes, With
<1>5. Tidy(tables, V) /\ Run(db.imm)
  <2>1. TidyFacts
    BY VersionsTidy
  <2>2. db.imm \subseteq Known
    BY DEF Known, Stored
  <2>3. Chain(db.imm) /\ IsFiniteSet(db.imm)
    BY <1>0, <2>2, ChainPart DEF EntriesInv, TypeInv, DbType, Dbs, EntrySets, FiniteParts
  <2> QED BY <1>1, <1>3, <2>1, <2>3 DEF TidyFacts, Run
<1>6. level # 0 => \A l \in 0..level : \A n \in V[l] : Apart(tables[n], db.imm)
  BY <1>1, <1>5, FlushedApart
<1>7. \A l \in Levels : \A n \in V[l] : n \in Numbers(V) /\ tables'[n] = tables[n]
  BY <1>2, <1>3 DEF Numbers
<1>8. Joins(V, V2, level, k)
  <2>1. bg'.edit.adds \subseteq Levels \X Nat
    BY <1>0, <1>1, FileTypes
  <2>2. \A l, n : <<l, n>> \in bg'.edit.adds <=> l = level /\ n = k
    BY <1>1
  <2>3. \A l, n : <<l, n>> \notin bg'.edit.deletes
    BY <1>1
  <2> QED BY <1>3, <2>1, <2>2, <2>3, AppliedLevels DEF Joins
<1> HIDE DEF k, V2
<1>9. Ordered(tables', V2)
  <2>1. level # 0 => \A m \in V[level] : Follow(tables'[m], tables'[k])
    <3> SUFFICES ASSUME level # 0, NEW m \in V[level] PROVE Follow(tables'[m], tables'[k])
      OBVIOUS
    <3>1. level \in 0..level
      BY <1>1 DEF Levels
    <3>2. Apart(tables[m], db.imm)
      BY <1>6, <3>1
    <3> QED BY <1>1, <1>4, <1>7, <3>2, ApartFollow
  <2> DEFINE T == tables'
  <2>2. level # 0 => FollowsAll(T, V[level], k)
    BY <2>1 DEF FollowsAll
  <2>4. Ordered(T, V) /\ level \in Levels
    BY <1>1, <1>3
  <2> HIDE DEF T, V
  <2>5. Ordered(T, V2)
    BY <1>8, <2>2, <2>4, OrderedWith
  <2> QED BY <2>5 DEF T
<1>10. ASSUME c # None PROVE CompactionOrder(bg.compaction)'
  <2>0. CompactionOrder(c)
    BY <1>10 DEF OrderInv
  <2>1. c.level \in 0..MaxLevel - 1 /\ c.upper # {} /\ Whole(tables, c.upper \cup c.lower)
        /\ Fits(tables, V, c)
    BY <1>0, <1>10, <2>0 DEF TypeInv, BgType, IsCompaction, Compactions, CompactionOrder
  <2>2. /\ Fits(tables', V, c)
        /\ Contents(tables', c.upper \cup c.lower) = Contents(tables, c.upper \cup c.lower)
        /\ Whole(tables', c.upper \cup c.lower)
        /\ \A n \in c.upper \cup c.lower : n \in Numbers(V)
    <3>1. \A n \in Numbers(V) : tables'[n] = tables[n]
      BY <1>2, <1>3
    <3> DEFINE T == tables'
    <3>2. SameTables(tables, T, Numbers(V))
      BY <3>1 DEF SameTables
    <3> DEFINE I == c.upper \cup c.lower
    <3> HIDE DEF c, V, T
    <3>a. Whole(tables, I) /\ I = c.upper \cup c.lower
      BY <2>1
    <3> HIDE DEF I
    <3>b. Fits(tables, V, c) /\ c.level \in 0..MaxLevel - 1
      BY <2>1
    <3>3. Fits(T, V, c)
      BY <3>b, <3>2, <3>a, FitsSame
    <3>4. I \subseteq Numbers(V)
      BY <3>b, <3>2, <3>a, FitsSame
    <3>6. Contents(T, I) = Contents(tables, I)
      <4>1. \A n \in I : T[n] = tables[n]
        BY <3>2, <3>4 DEF SameTables
      <4> QED BY <4>1 DEF Contents
    <3>5. Whole(T, I)
      BY <3>b, <3>2, <3>3, <3>4, <3>6, <3>a, FitsSame
    <3> QED BY <3>3, <3>4, <3>5, <3>6 DEF T, I
  <2>3. Fits(tables', V2, c)
    <3>1. \A n \in c.upper \cup c.lower : Run(tables'[n])
      <4>1. \A n \in Numbers(V) : Run(tables[n]) /\ tables'[n] = tables[n]
        BY <1>2, <1>3, <1>5 DEF Tidy
      <4> QED BY <2>2, <4>1
    <3>2. Run(tables'[k])
      BY <1>4, <1>5
    <3>3. ASSUME level = c.level + 1, NEW m \in c.upper \cup c.lower
          PROVE  Apart(tables'[m], tables'[k])
      <4>1. level # 0 /\ c.level \in 0..level /\ level \in 0..level
            /\ c.level \in Levels
        BY <2>1, <3>3, LevelsAssumption DEF Levels
      <4>2. m \in V[c.level] \/ m \in V[level]
        BY <2>1, <3>3 DEF Fits
      <4>3. Apart(tables[m], db.imm) /\ tables'[m] = tables[m]
        BY <1>1, <1>6, <1>7, <4>1, <4>2
      <4> QED BY <1>4, <4>3
    <3> HIDE DEF c, V
    <3> QED BY <1>1, <1>8, <2>1, <2>2, <3>1, <3>2, <3>3, FitsWith
  <2>4. \A n \in c.outputs : tables'[n] = tables[n]
    <3>1. c.outputs \subseteq Held /\ (bg.compaction.outputs)' \subseteq Held'
      BY <1>0, <1>1, <1>10, HeldVersions DEF Held, HeldByCompaction
    <3> QED BY <1>1, <1>2, <3>1
  <2>5. /\ \A n, m \in c.outputs : n = m \/ Follow(tables'[n], tables'[m])
        /\ \A n \in c.outputs : tables'[n] \subseteq Contents(tables', c.upper \cup c.lower)
    BY <2>0, <2>2, <2>4 DEF CompactionOrder
  <2> QED BY <1>1, <2>1, <2>2, <2>3, <2>5 DEF CompactionOrder, V2
<1> QED BY <1>1, <1>3, <1>9, <1>10 DEF OrderInv, V2

(* Less below level 0 is ordered. *)
LEMMA OrderedPart ==
  ASSUME NEW store, NEW files, Ordered(store, files), NEW files2,
         \A l \in Levels \ {0} : files2[l] \subseteq files[l]
  PROVE  Ordered(store, files2)
BY DEF Ordered

(* A move to the next level keeps the levels in order. *)
LEMMA MovesOrder ==
  ASSUME FilesInv, EntriesInv, OrderInv, NEW level, NEW inputs, Moves(level, inputs)
  PROVE  OrderInv'
<1>0. TypeInv
  BY DEF FilesInv
<1> DEFINE V == db.version
           V2 == Applied(V, bg'.edit)
<1>1. /\ UNCHANGED <<tables, manifest, repeated, db>> /\ bg'.compaction = None
      /\ level \in 0..MaxLevel - 1 /\ Cardinality(inputs.upper) = 1 /\ inputs.lower = {}
      /\ bg'.edit.adds = {<<level + 1, n>> : n \in inputs.upper}
  BY DEF Moves, disk, history
<1>2. V \in Files /\ Tidy(tables, V)
  <2>1. V \in Files /\ Numbers(V) \subseteq Held
    BY <1>0, HeldVersions
  <2> QED BY <2>1, VersionsTidy DEF TidyFacts
<1>3. Taken(tables, V, level, inputs)
  <2>1. PICK n \in V[level] : inputs \in Inputs(tables, V, level, {n})
    BY DEF Moves
  <2> QED BY <1>1, <1>2, <2>1, CompactionInputs
<1>4. level \in Levels /\ level + 1 \in Levels /\ inputs.upper \subseteq V[level]
  BY <1>1, <1>3, LevelsAssumption DEF Levels, Taken
<1>5. PICK u : inputs.upper = {u}
  <2>1. IsFiniteSet(inputs.upper)
    BY <1>2, <1>4, FS_Subset DEF Tidy
  <2> QED BY <1>1, <2>1, FS_Singleton
<1>6. u \in V[level] /\ bg'.edit.adds = {<<level + 1, u>>} /\ u \in Nat
  BY <1>1, <1>2, <1>4, <1>5 DEF Files, FiniteParts
<1>7. FollowsAll(tables, V[level + 1], u)
  <2>1. \A m \in V[level + 1] : Apart(tables[m], Contents(tables, inputs.upper))
    BY <1>1, <1>3 DEF Taken
  <2>2. Contents(tables, inputs.upper) = tables[u]
    BY <1>5 DEF Contents
  <2> QED BY <2>1, <2>2, ApartFollow DEF FollowsAll
<1> DEFINE W == [l \in Levels |-> V[l] \cup IF l = level + 1 THEN {u} ELSE {}]
<1>8. Joins(V, W, level + 1, u)
  BY DEF Joins
<1>9. \A l \in Levels : V2[l] \subseteq W[l]
  <2>1. bg'.edit.adds \subseteq Levels \X Nat
    BY <1>4, <1>6
  <2>2. \A l, n : <<l, n>> \in bg'.edit.adds => l = level + 1 /\ n = u
    BY <1>6
  <2> SUFFICES ASSUME NEW l \in Levels, NEW n \in V2[l] PROVE n \in W[l]
    OBVIOUS
  <2>3. n \in V[l] \/ <<l, n>> \in bg'.edit.adds
    BY <1>2, <2>1, AppliedLevels
  <2> QED BY <2>2, <2>3
<1> HIDE DEF W, V2, V
<1>10. ASSUME ~repeated PROVE Ordered(tables, V2)
  <2>1. Ordered(tables, V)
    BY <1>10 DEF OrderInv, V
  <2>2. Ordered(tables, W)
    BY <1>4, <1>7, <1>8, <2>1, OrderedWith
  <2> QED BY <1>9, <2>2, OrderedPart
<1> QED BY <1>1, <1>10 DEF OrderInv, V2, V

(* The outputs of a compaction take the place of its inputs. *)
LEMMA CompactedOrder ==
  ASSUME NEW store, NEW files \in Files, Ordered(store, files), NEW c,
         c.level \in 0..MaxLevel - 1, Fits(store, files, c), c.outputs \subseteq Nat,
         \A n, m \in c.outputs : n = m \/ Follow(store[n], store[m]),
         \A n \in c.outputs : store[n] \subseteq Contents(store, c.upper \cup c.lower),
         NEW edit, edit.adds = {<<c.level + 1, n>> : n \in c.outputs},
         edit.deletes = {<<c.level, n>> : n \in c.upper} \cup {<<c.level + 1, n>> : n \in c.lower}
  PROVE  Ordered(store, Applied(files, edit))
<1> DEFINE out == c.level + 1
           V2 == Applied(files, edit)
<1>1. out \in Levels /\ c.level \in Nat
  BY LevelsAssumption DEF Levels
<1>2. edit.adds \subseteq Levels \X Nat
  BY <1>1
<1>3. \A l, n : <<l, n>> \in edit.adds => l = out /\ n \in c.outputs
  OBVIOUS
<1>4. \A n \in c.lower : <<out, n>> \in edit.deletes
  OBVIOUS
<1>5. ASSUME NEW l \in Levels, NEW n \in V2[l]
      PROVE  /\ n \in files[l] \/ (l = out /\ n \in c.outputs)
             /\ l = out /\ n \notin c.outputs => n \in files[out] \ c.lower
  BY <1>2, <1>3, <1>4, <1>5, AppliedLevels
<1> HIDE DEF V2, out
<1>6. ASSUME NEW n \in files[out] \ c.lower, NEW m \in c.outputs PROVE Follow(store[n], store[m])
  <2>1. Follow(store[n], Contents(store, c.upper \cup c.lower))
    BY <1>6 DEF Fits, out
  <2> QED BY <1>6, <2>1 DEF Follow, Precedes
<1> SUFFICES ASSUME NEW l \in Levels \ {0}, NEW n \in V2[l], NEW m \in V2[l], n # m
             PROVE  Follow(store[n], store[m])
  BY DEF Ordered, Follow, V2
<1>7. CASE n \in files[l] /\ m \in files[l]
  BY <1>7 DEF Ordered, Follow
<1>8. CASE l = out /\ (n \in c.outputs \/ m \in c.outputs)
  <2>1. CASE n \in c.outputs /\ m \in c.outputs
    BY <2>1
  <2>2. CASE n \in c.outputs /\ m \notin c.outputs
    <3>1. Follow(store[m], store[n])
      BY <1>5, <1>6, <1>8, <2>2
    <3> QED BY <3>1 DEF Follow
  <2>3. CASE n \notin c.outputs /\ m \in c.outputs
    BY <1>5, <1>6, <1>8, <2>3
  <2> QED BY <1>8, <2>1, <2>2, <2>3
<1> QED BY <1>5, <1>7, <1>8

(* The edit of a compaction keeps the levels in order. *)
LEMMA CompactsOrder ==
  ASSUME FilesInv, OrderInv, Compacts
  PROVE  OrderInv'
<1>0. TypeInv
  BY DEF FilesInv
<1> DEFINE c == bg.compaction
           e == bg'.edit
<1>1. /\ UNCHANGED <<tables, manifest, repeated, db>> /\ bg'.compaction = c /\ c # None
      /\ e.kind = "compact" /\ e.adds = {<<c.level + 1, n>> : n \in c.outputs}
      /\ e.deletes = {<<c.level, n>> : n \in c.upper} \cup {<<c.level + 1, n>> : n \in c.lower}
  BY DEF Compacts, disk, history
<1>2. c.level \in 0..MaxLevel - 1 /\ c.outputs \subseteq Nat /\ db.version \in Files
  BY <1>0, <1>1, FileTypes DEF TypeInv, BgType, IsCompaction, Compactions
<1>3. ASSUME ~repeated PROVE Ordered(tables, Applied(db.version, e))
  <2>1. Ordered(tables, db.version) /\ CompactionOrder(c)
    BY <1>1, <1>3 DEF OrderInv
  <2>2. /\ Fits(tables, db.version, c)
        /\ \A n, m \in c.outputs : n = m \/ Follow(tables[n], tables[m])
        /\ \A n \in c.outputs : tables[n] \subseteq Contents(tables, c.upper \cup c.lower)
    BY <2>1 DEF CompactionOrder
  <2> HIDE DEF c, e
  <2> QED BY <1>1, <1>2, <2>1, <2>2, CompactedOrder
<1>4. ASSUME ~repeated PROVE CompactionOrder(bg.compaction)'
  <2>1. CompactionOrder(c)
    BY <1>1, <1>4 DEF OrderInv
  <2> QED BY <1>1, <2>1 DEF CompactionOrder
<1> QED BY <1>1, <1>3, <1>4 DEF OrderInv

(* A write of the MANIFEST keeps the levels in order. *)
LEMMA AppendsOrder ==
  ASSUME OrderInv, Appends
  PROVE  OrderInv'
<1>1. /\ UNCHANGED <<tables, db>> /\ bg'.compaction = bg.compaction /\ bg.edit # None
      /\ bg'.edit.adds = bg.edit.adds /\ bg'.edit.deletes = bg.edit.deletes
      /\ bg'.edit.kind = bg.edit.kind
      /\ AppendEdit \/ UNCHANGED <<manifest, repeated>>
  BY DEF Appends
<1>2. \A files : Applied(files, bg'.edit) = Applied(files, bg.edit)
  BY <1>1 DEF Applied
<1>3. ASSUME AppendEdit, ~repeated'
      PROVE  ~repeated /\ manifest.files = db.version
             /\ manifest'.files = Applied(manifest.files, bg.edit)
  BY <1>3 DEF AppendEdit
<1>4. ASSUME ~repeated' PROVE ~repeated /\ Ordered(tables, manifest'.files)
  BY <1>1, <1>3, <1>4 DEF OrderInv
<1>5. ASSUME ~repeated', bg.compaction # None PROVE CompactionOrder(bg.compaction)'
  <2>1. CompactionOrder(bg.compaction)
    BY <1>4, <1>5 DEF OrderInv
  <2> QED BY <1>1, <1>2, <2>1 DEF CompactionOrder
<1>6. ASSUME ~repeated'
      PROVE  Ordered(tables, db.version) /\ Ordered(tables, Applied(db.version, bg.edit))
  BY <1>1, <1>4, <1>6 DEF OrderInv
<1> QED BY <1>1, <1>2, <1>4, <1>5, <1>6 DEF OrderInv

(* FitsSame, for the tables of the next state. *)
LEMMA FitsNext ==
  ASSUME NEW files, NEW c, Fits(tables, files, c), c.level \in 0..MaxLevel - 1,
         \A n \in Numbers(files) : tables'[n] = tables[n]
  PROVE  /\ Fits(tables', files, c)
         /\ Contents(tables', c.upper \cup c.lower) = Contents(tables, c.upper \cup c.lower)
         /\ Whole(tables, c.upper \cup c.lower) => Whole(tables', c.upper \cup c.lower)
         /\ c.upper \cup c.lower \subseteq Numbers(files)
<1> DEFINE T == tables'
           I == c.upper \cup c.lower
<1>1. SameTables(tables, T, Numbers(files))
  BY DEF SameTables
<1> HIDE DEF T
<1>2. I = c.upper \cup c.lower
  OBVIOUS
<1> HIDE DEF I
<1>3. Fits(T, files, c)
  BY <1>1, <1>2, FitsSame
<1>4. I \subseteq Numbers(files)
  <2>1. c.level \in Levels /\ c.level + 1 \in Levels
    BY LevelsAssumption DEF Levels
  <2> QED BY <1>2, <2>1 DEF Fits, Numbers
<1>5. Contents(T, I) = Contents(tables, I)
  <2>1. \A n \in I : T[n] = tables[n]
    BY <1>1, <1>4 DEF SameTables
  <2> QED BY <2>1 DEF Contents
<1>6. Whole(tables, I) => Whole(T, I)
  BY <1>1, <1>2, <1>3, <1>4, <1>5, FitsSame
<1> QED BY <1>3, <1>4, <1>5, <1>6 DEF T, I

(* An edit's end keeps the levels in order. *)
LEMMA InstallsOrder ==
  ASSUME FilesInv, FilesInv', EntriesInv, EntriesInv', OrderInv, [Next]_vars, Installs
  PROVE  OrderInv'
<1>0. TypeInv /\ TypeInv'
  BY DEF FilesInv
<1> DEFINE V == Applied(db.version, bg.edit)
           c == bg.compaction
<1>1. /\ bg.edit # None /\ UNCHANGED <<manifest, repeated>> /\ db'.version = V
      /\ bg'.edit = None /\ bg'.compaction = (IF bg.edit.kind = "flush" THEN c ELSE None)
  BY DEF Installs, history
<1>2. \A n \in Held : n \in Held' => tables'[n] = tables[n]
  BY HeldStay
<1> SUFFICES ASSUME ~repeated PROVE OrderInv'
  BY <1>1 DEF OrderInv
<1>3. Ordered(tables', manifest'.files)
  BY <1>0, <1>1, <1>2, OrderStays
<1>4. Ordered(tables, V) /\ Numbers(V) \subseteq Held
  BY <1>0, <1>1, HeldVersions DEF OrderInv
<1>5. Numbers(V) \subseteq Held'
  <2>1. Numbers(db.version)' \subseteq Held'
    BY DEF Held
  <2> QED BY <1>1, <2>1
<1>6. \A n \in Numbers(V) : tables'[n] = tables[n]
  BY <1>2, <1>4, <1>5
<1>7. Ordered(tables', V)
  BY <1>4, <1>6, OrderedSame
<1>8. ASSUME bg'.compaction # None PROVE CompactionOrder(bg.compaction)'
  <2>1. c # None /\ bg.edit.kind = "flush" /\ bg'.compaction = c
    BY <1>1, <1>8
  <2>2. CompactionOrder(c)
    BY <2>1 DEF OrderInv
  <2>3. /\ c.level \in 0..MaxLevel - 1 /\ c.upper # {} /\ Whole(tables, c.upper \cup c.lower)
        /\ Fits(tables, V, c)
    BY <1>0, <1>1, <2>1, <2>2 DEF TypeInv, BgType, IsCompaction, Compactions, CompactionOrder
  <2>4. /\ Fits(tables', V, c)
        /\ Contents(tables', c.upper \cup c.lower) = Contents(tables, c.upper \cup c.lower)
        /\ Whole(tables', c.upper \cup c.lower)
    <3> HIDE DEF c, V
    <3> QED BY <1>6, <2>3, FitsNext
  <2>5. \A n \in c.outputs : tables'[n] = tables[n]
    <3>1. c.outputs \subseteq Held /\ (bg.compaction.outputs)' \subseteq Held'
      BY <1>0, <1>8, <2>1, HeldVersions DEF Held, HeldByCompaction
    <3> QED BY <1>2, <2>1, <3>1
  <2>6. /\ \A n, m \in c.outputs : n = m \/ Follow(tables'[n], tables'[m])
        /\ \A n \in c.outputs : tables'[n] \subseteq Contents(tables', c.upper \cup c.lower)
    BY <2>2, <2>4, <2>5 DEF CompactionOrder
  <2> QED BY <1>1, <2>1, <2>3, <2>4, <2>6 DEF CompactionOrder
<1> QED BY <1>1, <1>3, <1>7, <1>8 DEF OrderInv

(* The pick of a compaction keeps the levels in order. *)
LEMMA PicksOrder ==
  ASSUME FilesInv, EntriesInv, OrderInv, NEW level, NEW inputs, Picks(level, inputs)
  PROVE  OrderInv'
<1>0. TypeInv
  BY DEF FilesInv
<1> DEFINE V == db.version
           c == bg'.compaction
<1>1. /\ UNCHANGED <<tables, manifest, repeated, db>> /\ bg'.edit = None
      /\ level \in 0..MaxLevel - 1
      /\ c.level = level /\ c.upper = inputs.upper /\ c.lower = inputs.lower /\ c.outputs = {}
  BY DEF Picks, disk, history
<1>2. Tidy(tables, V)
  <2>1. V \in Files /\ Numbers(V) \subseteq Held
    BY <1>0, HeldVersions
  <2> QED BY <2>1, VersionsTidy DEF TidyFacts
<1>3. Taken(tables, V, level, inputs)
  <2>1. PICK n \in V[level] : inputs \in Inputs(tables, V, level, {n})
    BY DEF Picks
  <2> QED BY <1>1, <1>2, <2>1, CompactionInputs
<1>4. Taken(tables, V, c.level, c)
  BY <1>1, <1>3 DEF Taken
<1>5. ASSUME ~repeated PROVE CompactionOrder(bg.compaction)'
  <2>1. Ordered(tables, V)
    BY <1>5 DEF OrderInv
  <2>2. Fits(tables, V, c)
    <3> HIDE DEF c, V
    <3> QED BY <1>1, <1>2, <1>4, <2>1, TakenFits
  <2>3. c.upper # {} /\ Whole(tables, c.upper \cup c.lower)
    BY <1>4 DEF Taken
  <2> QED BY <1>1, <2>2, <2>3 DEF CompactionOrder
<1> QED BY <1>1, <1>5 DEF OrderInv

(* The work of a compaction keeps the levels in order. *)
LEMMA WorksOrder ==
  ASSUME FilesInv, FilesInv', EntriesInv, EntriesInv', OrderInv, [Next]_vars,
         NEW first, NEW rest, NEW numbers, Works(first, rest, numbers)
  PROVE  OrderInv'
<1>0. TypeInv /\ TypeInv'
  BY DEF FilesInv
<1> DEFINE V == db.version
           c == bg.compaction
           d == bg'.compaction
           k == db.nextFile
<1>1. /\ UNCHANGED <<manifest, repeated>> /\ db'.version = V /\ bg'.edit = None /\ bg.edit = None
      /\ c # None /\ d # None /\ d.level = c.level /\ d.upper = c.upper /\ d.lower = c.lower
      /\ d.outputs = numbers /\ k \in Nat
      /\ \A m \in numbers : m = k \/ m = k + 1
      /\ k \in numbers <=> first # {}
      /\ k + 1 \in numbers <=> rest # {}
      /\ first # {} => tables'[k] = first
      /\ rest # {} => tables'[k + 1] = rest
      /\ first \cup rest = Survivors(c) /\ \A a \in first, b \in rest : Before(a, b)
  BY <1>0, FileTypes DEF Works, SameVersion, history
<1> SUFFICES ASSUME ~repeated PROVE OrderInv'
  BY <1>1 DEF OrderInv
<1>2. \A n \in Held : n \in Held' => tables'[n] = tables[n]
  BY HeldStay
<1>3. Ordered(tables', manifest'.files) /\ Ordered(tables', V)
  BY <1>0, <1>1, <1>2, OrderStays
<1>4. /\ c.level \in 0..MaxLevel - 1 /\ c.upper # {} /\ Whole(tables, c.upper \cup c.lower)
      /\ Fits(tables, V, c)
  <2>1. CompactionOrder(c)
    BY <1>1 DEF OrderInv
  <2> QED BY <1>0, <1>1, <2>1 DEF TypeInv, BgType, IsCompaction, Compactions, CompactionOrder
<1>5. \A n \in Numbers(V) : tables'[n] = tables[n]
  <2>1. Numbers(V) \subseteq Held /\ Numbers(db.version)' \subseteq Held'
    BY <1>0, HeldVersions DEF Held
  <2> QED BY <1>1, <1>2, <2>1
<1>6. /\ Fits(tables', V, c)
      /\ Contents(tables', c.upper \cup c.lower) = Contents(tables, c.upper \cup c.lower)
      /\ Whole(tables', c.upper \cup c.lower)
  <2> HIDE DEF c, V
  <2> QED BY <1>4, <1>5, FitsNext
<1>7. Survivors(c) \subseteq Contents(tables, c.upper \cup c.lower)
  BY DEF Survivors
<1>8. \A n \in numbers : tables'[n] \subseteq Contents(tables', c.upper \cup c.lower)
  BY <1>1, <1>6, <1>7
<1>9. \A n, m \in numbers : n = m \/ Follow(tables'[n], tables'[m])
  BY <1>1 DEF Follow, Precedes
<1>10. Fits(tables', V, d)
  BY <1>1, <1>6 DEF Fits
<1>11. CompactionOrder(bg.compaction)'
  <2> HIDE DEF c
  <2> QED BY <1>1, <1>4, <1>6, <1>8, <1>9, <1>10 DEF CompactionOrder
<1> QED BY <1>1, <1>3, <1>11 DEF OrderInv

(* A recovery keeps the levels in order. *)
LEMMA RecoversOrder ==
  ASSUME FilesInv, EntriesInv, OrderInv, NEW order, NEW full, NEW next,
         Recovers(order, full, next)
  PROVE  OrderInv'
<1>0. TypeInv
  BY DEF FilesInv
<1> DEFINE M == manifest.files
           V2 == Applied(M, bg'.edit)
           new(i) == next[i - 1]
<1>1. /\ UNCHANGED <<manifest, repeated>> /\ db'.version = M /\ bg'.compaction = None
      /\ bg'.edit.adds = {<<0, new(i)>> : i \in full} /\ bg'.edit.deletes = {}
      /\ \A i \in full : new(i) \in Nat
  BY DEF Recovers, history
<1>2. \A n \in Numbers(M) : tables'[n] = tables[n]
  BY RecoversWhat
<1>3. 0 \in Levels /\ M \in Files
  BY <1>0, LevelsAssumption, FileTypes DEF Levels
<1>4. \A l \in Levels \ {0} : V2[l] \subseteq M[l]
  <2> SUFFICES ASSUME NEW l \in Levels \ {0}, NEW n \in V2[l] PROVE n \in M[l]
    OBVIOUS
  <2> HIDE DEF new
  <2>1. bg'.edit.adds \subseteq Levels \X Nat /\ <<l, n>> \notin bg'.edit.adds
    BY <1>1, <1>3
  <2> QED BY <1>3, <2>1, AppliedLevels
<1>5. ASSUME ~repeated PROVE Ordered(tables', M) /\ Ordered(tables', V2)
  <2>1. Ordered(tables, M)
    BY <1>5 DEF OrderInv
  <2>2. Ordered(tables', M)
    BY <1>2, <2>1, OrderedSame
  <2> HIDE DEF V2
  <2> QED BY <1>4, <2>2, OrderedPart
<1> QED BY <1>1, <1>5 DEF OrderInv

(* The levels are in order at first. *)
LEMMA OrderInit ==
  ASSUME Init
  PROVE  OrderInv
<1>1. manifest.files = NoTables /\ db.version = NoTables /\ bg.edit = None /\ bg.compaction = None
  BY DEF Init, Closed, Resting
<1>2. Ordered(tables, NoTables)
  BY DEF Ordered, NoTables
<1> QED BY <1>1, <1>2 DEF OrderInv

(* Every step keeps the levels in order. *)
LEMMA OrderStep ==
  ASSUME FilesInv, EntriesInv, OrderInv, [Next]_vars
  PROVE  OrderInv'
<1>1. FilesInv' /\ EntriesInv' /\ TypeInv
  BY FilesStep, EntriesStep DEF FilesInv
<1>2. CASE Rests \/ (Quiet /\ Writes) \/ Switches \/ Compacts \/ Appends \/ Installs
           \/ Closes \/ FailsToOpen
  BY <1>1, <1>2, QuietOrder, SwitchesOrder, CompactsOrder, AppendsOrder, InstallsOrder,
     ClosesOrder DEF Rests, FailsToOpen
<1>3. CASE \E level : Flushes(level)
  BY <1>1, <1>3, FlushesOrder
<1>4. CASE \E level, inputs : Moves(level, inputs)
  BY <1>4, MovesOrder
<1>5. CASE \E level, inputs : Picks(level, inputs)
  BY <1>5, PicksOrder
<1>6. CASE \E first, rest, numbers : Works(first, rest, numbers)
  BY <1>1, <1>6, WorksOrder
<1>7. CASE \E seq : Begins(seq)
  BY <1>7, BeginsOrder
<1>8. CASE \E order, full, next : Recovers(order, full, next)
  BY <1>8, RecoversOrder
<1> QED BY <1>1, <1>2, <1>3, <1>4, <1>5, <1>6, <1>7, <1>8, AllSteps

(* (version_set.cc:1403 SetupOtherInputs, version_set.cc:747) In every reachable state of a run
   without a repeated flush, the levels of the MANIFEST, of the current version and of the version
   an edit will make are sorted and do not overlap, and the compaction that is under way has taken
   every file its outputs could overlap. *)
THEOREM OrderAlways == Spec => []OrderInv
<1>1. Init => FilesInv /\ EntriesInv /\ OrderInv
  BY FilesInit, EntriesInit, OrderInit
<1>2. FilesInv /\ EntriesInv /\ OrderInv /\ [Next]_vars => (FilesInv /\ EntriesInv /\ OrderInv)'
  BY FilesStep, EntriesStep, OrderStep
<1> QED BY <1>1, <1>2, PTL DEF Spec

(* "Must not overlap" (version_set.cc:747): in every reachable state the tables below level 0
   follow one another, in the current version and in the MANIFEST. *)
THEOREM LevelsSortedAlways == Spec => []LevelsSorted
<1>1. FilesInv /\ EntriesInv /\ OrderInv => LevelsSorted
  <2> SUFFICES ASSUME FilesInv, EntriesInv, OrderInv, ~repeated
               PROVE  Sorted(tables, db.version) /\ Sorted(tables, manifest.files)
    BY DEF LevelsSorted
  <2>1. Ordered(tables, manifest.files) /\ Ordered(tables, db.version)
    BY DEF OrderInv
  <2>2. Tidy(tables, manifest.files) /\ Tidy(tables, db.version)
    BY VersionsTidy, HeldVersions DEF TidyFacts, FilesInv
  <2> QED BY <2>1, <2>2, SortedIsOrdered
<1> QED BY <1>1, FilesAlways, EntriesAlways, OrderAlways, PTL

-----------------------------------------------------------------------------
\* What a lookup finds.

(* Of a key, A has the newer entries. *)
NewerByKey(A, B) == \A a \in A, b \in B : a.key = b.key => a.seq > b.seq

(* Upper levels have the newer entries of a key, and of level 0 the later tables. *)
Aged(store, files) ==
    /\ \A i, j \in Levels : i < j =>
          \A n \in files[i], m \in files[j] : NewerByKey(store[n], store[m])
    /\ \A n, m \in files[0] : n < m => NewerByKey(store[m], store[n])

(* There is one latest visible entry, if there are any. *)
LEMMA LatestOne ==
  ASSUME NEW U, Chain(U), IsFiniteSet(U), NEW key, NEW seq, Visible(U, key, seq) # {}
  PROVE  \E e \in Visible(U, key, seq) :
            /\ Latest(Visible(U, key, seq)) = {e}
            /\ \A f \in Visible(U, key, seq) : f = e \/ f.seq < e.seq
<1> DEFINE V == Visible(U, key, seq)
<1>1. V \subseteq U /\ \A e \in V : e.key = key
  BY DEF Visible
<1>2. Run(V)
  BY <1>1, ChainPart, FS_Subset DEF Run
<1>3. /\ \A e \in V : e.seq \in Nat
      /\ \A e, f \in V : e.seq = f.seq => e = f
  BY <1>1, <1>2 DEF Run, Chain, Entries
<1>4. \A e \in V : e.key \in Int
  BY <1>1, <1>2, KeysAssumption DEF Run, Chain, Entries
<1> HIDE DEF V
<1>5. PICK e \in V : \A f \in V \ {e} : Before(e, f)
  BY <1>2, FirstEntry
<1>6. \A f \in V : f = e \/ f.seq < e.seq
  BY <1>1, <1>3, <1>4, <1>5 DEF Before
<1>7. Latest(V) = {e}
  BY <1>3, <1>6 DEF Latest
<1> QED BY <1>6, <1>7 DEF V

(* Older entries do not change what is latest. *)
LEMMA LatestOfMore ==
  ASSUME NEW U, U \subseteq Entries, NEW A, A \subseteq U, NEW key, NEW seq,
         Visible(A, key, seq) # {},
         \A a \in Visible(A, key, seq), b \in Visible(U, key, seq) : b \in A \/ a.seq > b.seq
  PROVE  Latest(Visible(U, key, seq)) = Latest(Visible(A, key, seq))
<1>1. \A e \in U : e.seq \in Nat
  BY DEF Entries
<1>2. \A e : /\ e \in Visible(A, key, seq) => e \in Visible(U, key, seq)
             /\ e \in Visible(U, key, seq) => e \in U
             /\ e \in Visible(U, key, seq) /\ e \in A => e \in Visible(A, key, seq)
  BY DEF Visible
<1> DEFINE V == Visible(U, key, seq)
           W == Visible(A, key, seq)
<1>3. /\ W # {} /\ \A e \in W : e \in V
      /\ \A e \in V : e.seq \in Nat
      /\ \A a \in W, b \in V : b \in W \/ a.seq > b.seq
  BY <1>1, <1>2
<1> HIDE DEF V, W
<1>4. Latest(V) \subseteq Latest(W)
  BY <1>3 DEF Latest
<1>5. Latest(W) \subseteq Latest(V)
  <2> SUFFICES ASSUME NEW e \in Latest(W) PROVE e \in Latest(V)
    OBVIOUS
  <2>1. e \in W /\ \A g \in W : g.seq <= e.seq
    BY DEF Latest
  <2>2. e \in V /\ e.seq \in Nat
    BY <1>3, <2>1
  <2>3. \A f \in V : f.seq \in Nat /\ (f \in W \/ e.seq > f.seq)
    BY <1>3, <2>1
  <2>4. \A f \in V : f.seq <= e.seq
    BY <2>1, <2>2, <2>3
  <2> QED BY <2>2, <2>4 DEF Latest
<1> QED BY <1>4, <1>5 DEF V, W

(* In level 0 the newest table that has the key has its latest entry. *)
LEMMA FoundInNewest ==
  ASSUME NEW store, NEW files, Tidy(store, files), Aged(store, files), NEW key, NEW seq
  PROVE  Found(store, files, 0, key, seq) = Latest(Visible(Contents(store, files[0]), key, seq))
<1> DEFINE having == {n \in files[0] : Visible(store[n], key, seq) # {}}
           U == Contents(store, files[0])
<1>0. 0 \in Levels
  BY LevelsAssumption DEF Levels
<1>1. Found(store, files, 0, key, seq) =
        UNION {Latest(Visible(store[n], key, seq)) : n \in {m \in having : \A o \in having : o <= m}}
  BY DEF Found, FoundInLevel0
<1>2. files[0] \subseteq Nat /\ IsFiniteSet(files[0]) /\ U \subseteq Entries
      /\ \A n \in files[0] : store[n] \subseteq U
  BY <1>0, TidyPart DEF Tidy, Contents, Numbers, Chain
<1>3. \A e : e \in Visible(U, key, seq) <=>
               \E n \in files[0] : e \in Visible(store[n], key, seq)
  BY DEF Visible, Contents
<1>4. CASE having = {}
  <2>1. Visible(U, key, seq) = {}
    BY <1>3, <1>4
  <2> QED BY <1>1, <1>4, <2>1 DEF Latest
<1>5. CASE having # {}
  <2>1. having \in FiniteParts(Nat)
    BY <1>2, FS_Subset DEF FiniteParts
  <2>2. PICK m \in having : \A o \in having : o <= m
    BY <1>5, <2>1, LargestNumber
  <2>3. {n \in having : \A o \in having : o <= n} = {m}
    BY <1>2, <2>2
  <2>4. m \in files[0] /\ Visible(store[m], key, seq) # {} /\ store[m] \subseteq U
    BY <1>2, <2>2
  <2>5. ASSUME NEW a \in Visible(store[m], key, seq), NEW b \in Visible(U, key, seq), b \notin store[m]
        PROVE  a.seq > b.seq
    <3>1. PICK n \in files[0] : b \in Visible(store[n], key, seq)
      BY <1>3, <2>5
    <3>2. n <= m /\ n # m
      BY <2>2, <2>5, <3>1 DEF Visible
    <3>3. n < m
      BY <1>2, <2>4, <3>2
    <3>4. NewerByKey(store[m], store[n])
      BY <2>4, <3>3 DEF Aged
    <3> QED BY <2>5, <3>1, <3>4 DEF Visible, NewerByKey
  <2>6. Latest(Visible(U, key, seq)) = Latest(Visible(store[m], key, seq))
    <3> HIDE DEF U
    <3> QED BY <1>2, <2>4, <2>5, LatestOfMore
  <2> HIDE DEF having, U
  <2>7. Found(store, files, 0, key, seq) = Latest(Visible(store[m], key, seq))
    BY <1>1, <2>3
  <2> QED BY <2>6, <2>7 DEF U
<1> QED BY <1>4, <1>5

(* In a level below it the first table that does not end before the key's number has. *)
LEMMA FoundInFirst ==
  ASSUME NEW store, NEW files, Tidy(store, files), Ordered(store, files), NEW level \in Levels \ {0},
         NEW key \in Keys, NEW seq \in Nat
  PROVE  Found(store, files, level, key, seq) = Latest(Visible(Contents(store, files[level]), key, seq))
<1> DEFINE target == [key |-> key, seq |-> seq]
           numbers == {n \in files[level] : ~Before(Largest(store[n]), target)}
           U == Contents(store, files[level])
           V == Visible(U, key, seq)
           F == First(store, numbers)
<1>1. Found(store, files, level, key, seq) = UNION {Latest(Visible(store[n], key, seq)) : n \in F}
  BY DEF Found, FindFile
<1>2. /\ files[level] \in SUBSET Numbers(files)
      /\ files[level] \subseteq Nat /\ IsFiniteSet(files[level])
      /\ \A n \in files[level] : Run(store[n]) /\ store[n] \subseteq U
  BY TidyPart DEF Tidy, Contents, Numbers
<1>3. Chain(U) /\ IsFiniteSet(U)
  <2>1. U \subseteq Contents(store, Numbers(files)) /\ (files[level] # {} => Run(U))
    BY <1>2, TidyPart
  <2>2. files[level] = {} => U = {}
    BY DEF Contents
  <2> QED BY <2>1, <2>2, FS_EmptySet DEF Run, Tidy, Chain
<1>4. \A e : e \in V <=> \E n \in files[level] : e \in Visible(store[n], key, seq)
  BY DEF Visible, Contents
<1>5. /\ \A e \in U : e \in Entries /\ e.seq \in Nat /\ e.key \in Int
      /\ key \in Int
  BY <1>3, KeysAssumption DEF Chain, Entries
<1>6. \A e \in V : e \in U /\ e.key = key /\ e.seq <= seq
  BY DEF Visible
<1>7. CASE V = {}
  <2>1. \A n \in files[level] : Latest(Visible(store[n], key, seq)) = {}
    BY <1>4, <1>7 DEF Latest
  <2>2. F \subseteq files[level]
    BY DEF First
  <2> HIDE DEF F, V
  <2> QED BY <1>1, <1>7, <2>1, <2>2 DEF Latest, V
<1>8. CASE V # {}
  <2>1. PICK e \in V : Latest(V) = {e} /\ \A f \in V : f = e \/ f.seq < e.seq
    BY <1>3, <1>8, LatestOne
  <2>2. PICK m \in files[level] : e \in store[m]
    BY <1>4, <2>1 DEF Visible
  <2>3. e \in Entries /\ e.key = key /\ e.seq <= seq /\ e.seq \in Nat
    BY <1>5, <1>6, <2>1
  <2>4. m \in numbers
    <3>1. Largest(store[m]) \in Entries /\ (e = Largest(store[m]) \/ Before(e, Largest(store[m])))
      BY <1>2, <2>2, Extremes
    <3>2. Largest(store[m]).seq \in Nat /\ Largest(store[m]).key \in Int
      BY <3>1, KeysAssumption DEF Entries
    <3> DEFINE g == Largest(store[m])
    <3> HIDE DEF g
    <3>3. ~(g.key < key \/ (g.key = key /\ g.seq > seq))
      BY <1>5, <2>3, <3>1, <3>2 DEF Before, g
    <3>4. ~Before(g, target)
      BY <3>3 DEF Before
    <3> QED BY <2>2, <3>4 DEF g
  <2>5. /\ numbers \subseteq files[level]
        /\ \A n \in numbers : ~(Largest(store[n]).key < key \/ (Largest(store[n]).key = key /\ Largest(store[n]).seq > seq))
    BY DEF Before
  <2> HIDE DEF numbers
  <2>6. F \subseteq numbers /\ F # {}
    <3>1. IsFiniteSet(numbers) /\ numbers \subseteq Nat /\ numbers # {} /\ \A n \in numbers : Run(store[n])
      BY <1>2, <2>4, <2>5, FS_Subset
    <3>2. Contents(store, numbers) \subseteq U
      BY <2>5 DEF Contents
    <3>3. Chain(Contents(store, numbers))
      BY <1>3, <3>2, ChainPart
    <3> QED BY <3>1, <3>3, FirstTable
  <2>7. ASSUME NEW n \in F, n # m PROVE FALSE
    <3>1. n \in numbers /\ n \in files[level] /\ Run(store[n]) /\ Run(store[m])
      BY <1>2, <2>2, <2>5, <2>6, <2>7
    <3>2. \/ Before(Smallest(store[n]), Smallest(store[m]))
          \/ Smallest(store[n]) = Smallest(store[m])
      BY <2>4, <2>7 DEF First
    <3>3. Precedes(store[n], store[m]) \/ Precedes(store[m], store[n])
      BY <2>2, <2>7, <3>1 DEF Ordered
    <3>4. /\ Smallest(store[n]) \in store[n] /\ Smallest(store[n]) \in Entries
          /\ Smallest(store[m]) \in store[m] /\ Smallest(store[m]) \in Entries
          /\ Largest(store[n]) \in store[n] /\ Largest(store[n]) \in Entries
      BY <3>1, Extremes
    <3>5. ~Precedes(store[m], store[n])
      BY <3>2, <3>4, BeforeOrder DEF Precedes
    <3>6. Before(Largest(store[n]), e)
      BY <2>2, <3>3, <3>4, <3>5 DEF Precedes
    <3> DEFINE g == Largest(store[n])
    <3>7. g \in store[n] /\ g \in Entries /\ Before(g, e)
          /\ ~(g.key < key \/ (g.key = key /\ g.seq > seq))
      BY <2>5, <3>1, <3>4, <3>6
    <3> HIDE DEF g
    <3>8. g.key \in Int /\ g.seq \in Nat
      BY <3>7, KeysAssumption DEF Entries
    <3>9. g.key = key /\ g.seq > e.seq /\ g.seq <= seq
      BY <1>5, <2>3, <3>7, <3>8 DEF Before
    <3>10. g \in Visible(store[n], key, seq)
      BY <3>7, <3>9 DEF Visible
    <3>11. g \in V
      BY <1>4, <3>1, <3>10
    <3> QED BY <2>1, <2>3, <3>8, <3>9, <3>11
  <2>8. F = {m}
    BY <2>6, <2>7
  <2>9. Visible(store[m], key, seq) # {} /\ e \in Visible(store[m], key, seq)
    BY <2>2, <2>3 DEF Visible
  <2>10. \A f \in Visible(store[m], key, seq) : f \in V
    BY <1>4, <2>2
  <2> HIDE DEF V, F
  <2>11. Latest(Visible(store[m], key, seq)) = {e}
    <3>1. \A f \in Visible(store[m], key, seq) : f = e \/ (f.seq < e.seq /\ f.seq \in Nat)
      BY <1>5, <1>6, <2>1, <2>10
    <3> QED BY <2>3, <2>9, <3>1 DEF Latest
  <2>12. Found(store, files, level, key, seq) = {e}
    BY <1>1, <2>8, <2>11
  <2> QED BY <2>1, <2>12 DEF V
<1> QED BY <1>7, <1>8

(* So does a whole version. *)
LEMMA GetFinds ==
  ASSUME NEW store, NEW files, Tidy(store, files), Ordered(store, files), Aged(store, files),
         NEW key \in Keys, NEW seq \in Nat
  PROVE  Get(store, files, key, seq) = Latest(Visible(Contents(store, Numbers(files)), key, seq))
<1> DEFINE U == Contents(store, Numbers(files))
           Of(l) == Contents(store, files[l])
           having == {l \in Levels : Found(store, files, l, key, seq) # {}}
<1>1. Chain(U) /\ \A l \in Levels : Of(l) \subseteq U /\ IsFiniteSet(Of(l)) /\ Chain(Of(l))
  <2>1. ASSUME NEW l \in Levels PROVE Of(l) \subseteq U /\ IsFiniteSet(Of(l))
    <3>1. files[l] \in SUBSET Numbers(files)
      BY DEF Numbers
    <3>2. files[l] = {} => Of(l) = {}
      BY DEF Contents
    <3> QED BY <3>1, <3>2, TidyPart, FS_EmptySet DEF Run
  <2>2. Chain(U)
    BY DEF Tidy
  <2> HIDE DEF U, Of
  <2> QED BY <2>1, <2>2, ChainPart
<1>2. \A e \in U : \E l \in Levels : e \in Of(l)
  BY DEF Contents, Numbers
<1>3. \A l \in Levels : Found(store, files, l, key, seq) = Latest(Visible(Of(l), key, seq))
  <2>1. 0 \in Levels
    BY LevelsAssumption DEF Levels
  <2> QED BY <2>1, FoundInNewest, FoundInFirst
<1>4. ASSUME NEW i \in Levels, NEW j \in Levels, i < j
      PROVE  \A a \in Of(i), b \in Of(j) : a.key = b.key => a.seq > b.seq
  BY <1>4 DEF Aged, NewerByKey, Contents
<1>5. Get(store, files, key, seq) =
        UNION {Found(store, files, l, key, seq) : l \in {k \in having : \A m \in having : k <= m}}
  BY DEF Get
<1> HIDE DEF U, Of
<1>6. \A l \in Levels : Visible(Of(l), key, seq) # {} <=> l \in having
  <2> SUFFICES ASSUME NEW l \in Levels
               PROVE  Visible(Of(l), key, seq) # {} <=> Latest(Visible(Of(l), key, seq)) # {}
    BY <1>3
  <2>1. Visible(Of(l), key, seq) # {} => Latest(Visible(Of(l), key, seq)) # {}
    BY <1>1, LatestOne
  <2>2. Visible(Of(l), key, seq) = {} => Latest(Visible(Of(l), key, seq)) = {}
    BY DEF Latest
  <2> QED BY <2>1, <2>2
<1>7. having \subseteq Levels /\ Levels \subseteq Nat
  BY LevelsAssumption DEF Levels
<1> HIDE DEF having
<1>8. CASE having = {}
  <2>1. Visible(U, key, seq) = {}
    BY <1>2, <1>6, <1>8 DEF Visible
  <2> QED BY <1>5, <1>8, <2>1 DEF Latest, U
<1>9. CASE having # {}
  <2>1. PICK l \in having : \A m \in having : l <= m
    BY <1>7, <1>9, SmallestNumber
  <2>2. {k \in having : \A m \in having : k <= m} = {l}
    <3>1. \A k \in having : k \in Nat
      BY <1>7
    <3>2. \A k \in having : (\A m \in having : k <= m) <=> k = l
      BY <2>1, <3>1
    <3> QED BY <2>1, <3>2
  <2>3. Get(store, files, key, seq) = Found(store, files, l, key, seq)
    BY <1>5, <2>2
  <2>4. ASSUME NEW a \in Visible(Of(l), key, seq), NEW b \in Visible(U, key, seq), b \notin Of(l)
        PROVE  a.seq > b.seq
    <3>1. PICK j \in Levels : b \in Of(j)
      BY <1>2 DEF Visible
    <3>2. b \in Visible(Of(j), key, seq)
      BY <3>1 DEF Visible
    <3>3. l <= j /\ l # j
      BY <1>6, <2>1, <2>4, <3>1, <3>2
    <3>4. l < j /\ l \in Levels
      BY <1>7, <2>1, <3>3
    <3>5. a \in Of(l) /\ a.key = key /\ b.key = key
      BY DEF Visible
    <3> QED BY <1>4, <3>1, <3>4, <3>5
  <2>5. l \in Levels /\ Visible(Of(l), key, seq) # {} /\ Of(l) \subseteq U /\ U \subseteq Entries
    BY <1>1, <1>6, <1>7, <2>1 DEF Chain
  <2>6. Latest(Visible(U, key, seq)) = Latest(Visible(Of(l), key, seq))
    BY <2>4, <2>5, LatestOfMore
  <2> QED BY <1>3, <2>3, <2>5, <2>6 DEF U
<1> QED BY <1>8, <1>9

(* What a lookup relies on. *)
Layered(store, mem, imm, files) ==
    /\ Ordered(store, files)
    /\ Aged(store, files)
    /\ NewerByKey(mem, imm)
    /\ NewerByKey(mem \cup imm, Contents(store, Numbers(files)))

(* A lookup finds the latest visible entry of all that it looks at. *)
LEMMA LookupFinds ==
  ASSUME NEW files, Tidy(tables, files), NEW mem, NEW imm, Layered(tables, mem, imm, files),
         mem \cup imm \subseteq Entries, NEW key \in Keys, NEW seq \in Nat
  PROVE  Lookup(mem, imm, files, key, seq) =
           Latest(Visible(mem \cup imm \cup Contents(tables, Numbers(files)), key, seq))
<1> DEFINE C == Contents(tables, Numbers(files))
           U == mem \cup imm \cup C
<1>1. U \subseteq Entries /\ mem \subseteq U /\ imm \subseteq U /\ C \subseteq U
  BY DEF Tidy, Chain
<1>2. Get(tables, files, key, seq) = Latest(Visible(C, key, seq))
  BY GetFinds DEF Layered
<1>3. /\ \A a \in mem, b \in imm : a.key = b.key => a.seq > b.seq
      /\ \A a \in mem \cup imm, b \in C : a.key = b.key => a.seq > b.seq
  BY DEF Layered, NewerByKey
<1> HIDE DEF C
<1>4. CASE Visible(mem, key, seq) # {}
  <2>1. \A a \in Visible(mem, key, seq), b \in Visible(U, key, seq) : b \in mem \/ a.seq > b.seq
    BY <1>3 DEF Visible
  <2> HIDE DEF U
  <2>2. Latest(Visible(U, key, seq)) = Latest(Visible(mem, key, seq))
    BY <1>1, <1>4, <2>1, LatestOfMore
  <2> QED BY <1>4, <2>2 DEF Lookup, U, C
<1>5. CASE Visible(mem, key, seq) = {} /\ Visible(imm, key, seq) # {}
  <2>1. \A a \in Visible(imm, key, seq), b \in Visible(U, key, seq) : b \in imm \/ a.seq > b.seq
    BY <1>3, <1>5 DEF Visible
  <2> HIDE DEF U
  <2>2. Latest(Visible(U, key, seq)) = Latest(Visible(imm, key, seq))
    BY <1>1, <1>5, <2>1, LatestOfMore
  <2> QED BY <1>5, <2>2 DEF Lookup, U, C
<1>6. CASE Visible(mem, key, seq) = {} /\ Visible(imm, key, seq) = {}
  <2>1. Visible(U, key, seq) = Visible(C, key, seq)
    BY <1>6 DEF Visible
  <2> QED BY <1>2, <1>6, <2>1 DEF Lookup, U, C
<1> QED BY <1>4, <1>5, <1>6

-----------------------------------------------------------------------------
\* What was committed, and what is there.

(* What U shows of a key is the latest entry of C, or nothing, if that deletes it. *)
Covered(U, C, key, seq) ==
    \A e \in Latest(Visible(C, key, seq)) :
        e \in U \/ (e.kind = "delete" /\ Visible(U, key, seq) = {})

(* So it is for some keys, and U shows nothing else. *)
Shows(U, C, keys, seq) ==
    /\ \A e \in U : e.seq <= seq => e \in C
    /\ \A key \in keys : Covered(U, C, key, seq)

(* So the values found are those committed. *)
LEMMA ShownValue ==
  ASSUME NEW U, NEW C, C \in EntrySets, Chain(C), NEW keys, NEW seq \in Nat, Shows(U, C, keys, seq),
         NEW key \in keys
  PROVE  Value(Latest(Visible(U, key, seq))) = Value(Latest(Visible(C, key, seq)))
<1> DEFINE V == Visible(U, key, seq)
           W == Visible(C, key, seq)
<1>1. V \subseteq W
  BY DEF Shows, Visible
<1>2. Covered(U, C, key, seq)
  BY DEF Shows
<1>3. CASE W = {}
  <2>1. V = W
    BY <1>1, <1>3
  <2> QED BY <2>1
<1>4. CASE W # {}
  <2>1. IsFiniteSet(C)
    BY DEF EntrySets, FiniteParts
  <2>2. PICK e \in W : Latest(W) = {e} /\ \A f \in W : f = e \/ f.seq < e.seq
    BY <1>4, <2>1, LatestOne
  <2>3. CASE e \in U
    <3>1. e \in V
      BY <2>2, <2>3 DEF Visible
    <3>2. \A f \in V : (f = e \/ f.seq < e.seq) /\ f.seq \in Nat
      BY <1>1, <2>2 DEF Visible, EntrySets, FiniteParts, Entries
    <3> HIDE DEF V, W
    <3>3. Latest(V) = {e}
      BY <3>1, <3>2 DEF Latest
    <3> QED BY <2>2, <3>3 DEF V, W
  <2>4. CASE e \notin U
    <3>1. e.kind = "delete" /\ V = {}
      BY <1>2, <2>2, <2>4 DEF Covered
    <3>2. Latest(V) = {}
      BY <3>1 DEF Latest
    <3> HIDE DEF V, W
    <3>3. Value(Latest(W)) = 0
      BY <2>2, <3>1 DEF Value
    <3>4. Value({}) = 0
      BY DEF Value
    <3> QED BY <3>2, <3>3, <3>4 DEF V, W
  <2> QED BY <2>3, <2>4
<1> QED BY <1>3, <1>4

-----------------------------------------------------------------------------
\* The upper inputs of a compaction hold the oldest entries of their level.

(* Boundary tables are added for as long as the next table goes on with the last key. *)
LEMMA BoundaryOldest ==
  ASSUME NEW store, NEW files, Tidy(store, files), Ordered(store, files), NEW level \in Levels \ {0},
         NEW numbers, numbers \subseteq files[level], numbers # {},
         OlderComesAfter(store, files[level], numbers), NEW A, Bounded(store, files, level,
         numbers, A)
  PROVE  NoOlderOutside(store, files[level], A)
<1> SUFFICES ASSUME NEW n0 \in A, NEW m \in files[level] \ A, NEW e0 \in store[n0], NEW f \in store[m],
                    e0.key = f.key, ~(f.seq > e0.seq)
             PROVE  FALSE
  BY DEF NoOlderOutside
<1>1. /\ \A k \in files[level] : Run(store[k]) /\ store[k] \subseteq Entries
      /\ \A S \in SUBSET files[level] : S # {} => Run(Contents(store, S))
      /\ \A e \in Entries : e.seq \in Nat /\ e.key \in Int
      /\ files[level] \subseteq Nat /\ IsFiniteSet(files[level])
      /\ A \subseteq files[level] /\ numbers \subseteq A
  <2>1. \A S \in SUBSET files[level] : S \in SUBSET Numbers(files)
    BY DEF Numbers
  <2>2. /\ \A k \in files[level] : Run(store[k])
        /\ \A S \in SUBSET files[level] : S # {} => Run(Contents(store, S))
    BY <2>1, TidyPart
  <2>3. \A k \in files[level] : store[k] \subseteq Entries
    BY <2>2 DEF Run, Chain
  <2>4. \A e \in Entries : e.seq \in Nat /\ e.key \in Int
    BY KeysAssumption DEF Entries
  <2>5. files[level] \subseteq Nat /\ IsFiniteSet(files[level])
    BY DEF Tidy
  <2>6. A \subseteq files[level] /\ numbers \subseteq A
    BY DEF Bounded
  <2> QED BY <2>2, <2>3, <2>4, <2>5, <2>6
<1>2. f \in Entries /\ e0 \in Entries
  BY <1>1
<1> DEFINE Of == {e \in Contents(store, A) : e.key = f.key /\ f.seq <= e.seq}
           seqs == {e.seq : e \in Of}
<1>3. seqs \subseteq Nat /\ seqs # {}
  <2>1. e0 \in Of
    BY <1>1, <1>2 DEF Contents
  <2>2. \A e \in Of : e \in Entries
    BY <1>1 DEF Contents
  <2> QED BY <1>1, <2>1, <2>2
<1>4. PICK s \in seqs : \A t \in seqs : s <= t
  <2> HIDE DEF seqs
  <2> QED BY <1>3, SmallestNumber
<1>5. PICK e \in Of : e.seq = s
  BY <1>4
<1>6. PICK n \in A : e \in store[n]
  BY <1>5 DEF Contents
<1>7. e.key = f.key /\ f.seq <= e.seq /\ e \in Entries /\ n \in files[level] /\ n # m /\ m \in files[level]
  BY <1>1, <1>5, <1>6
<1>8. ASSUME NEW g \in Contents(store, A), g.key = f.key, f.seq <= g.seq
      PROVE  e.seq <= g.seq
  BY <1>4, <1>5, <1>8
<1> HIDE DEF Of, seqs
<1>9. Precedes(store[n], store[m])
  <2>1. Precedes(store[n], store[m]) \/ Precedes(store[m], store[n])
    BY <1>7 DEF Ordered
  <2>2. ~Before(f, e)
    BY <1>1, <1>2, <1>7 DEF Before
  <2> QED BY <1>6, <2>1, <2>2 DEF Precedes
<1> DEFINE first == Smallest(store[m])
           last == IF n \in numbers THEN Largest(Contents(store, numbers)) ELSE Largest(store[n])
           X == {k \in files[level] : /\ Before(last, Smallest(store[k]))
                                      /\ Smallest(store[k]).key = last.key}
<1>10. first \in store[m] /\ first \in Entries /\ first.key <= f.key
  BY <1>1, <1>7, Extremes
<1>11. last \in Entries /\ (e = last \/ Before(e, last)) /\ Before(last, first)
  <2>1. CASE n \in numbers
    <3>1. Precedes(Contents(store, numbers), store[m])
      BY <1>1, <1>6, <1>7, <2>1 DEF OlderComesAfter
    <3>2. Run(Contents(store, numbers)) /\ e \in Contents(store, numbers)
      BY <1>1, <1>6, <2>1 DEF Contents
    <3>3. last = Largest(Contents(store, numbers))
      BY <2>1
    <3> HIDE DEF last, first
    <3> QED BY <1>10, <3>1, <3>2, <3>3, Extremes DEF Precedes
  <2>2. CASE n \notin numbers
    <3>1. Run(store[n]) /\ last = Largest(store[n])
      BY <1>1, <1>7, <2>2
    <3> HIDE DEF last, first
    <3> QED BY <1>6, <1>9, <1>10, <3>1, Extremes DEF Precedes
  <2> QED BY <2>1, <2>2
<1>12. First(store, X) \subseteq A
  <2>1. First(store, X) = FindSmallestBoundaryFile(store, files[level], last)
    BY DEF FindSmallestBoundaryFile
  <2> HIDE DEF X
  <2> QED BY <1>6, <2>1 DEF Bounded
<1>13. m \in X
  <2> HIDE DEF last
  <2>1. e.key <= last.key /\ last.key <= first.key
    BY <1>1, <1>7, <1>10, <1>11, BeforeOrder
  <2> HIDE DEF first
  <2>2. first.key = last.key
    BY <1>1, <1>7, <1>2, <1>10, <1>11, <2>1
  <2> QED BY <1>7, <1>11, <2>2 DEF first
<1>14. X \subseteq files[level] /\ \A k \in X : Before(last, Smallest(store[k])) /\ Smallest(store[k]).key = last.key
  OBVIOUS
<1> HIDE DEF X
<1>15. First(store, X) # {} /\ First(store, X) \subseteq X
  <2>1. X \subseteq Nat /\ IsFiniteSet(X) /\ X # {} /\ \A k \in X : Run(store[k])
    BY <1>1, <1>13, <1>14, FS_Subset
  <2>2. Chain(Contents(store, X))
    BY <1>1, <1>13, <1>14 DEF Run
  <2> QED BY <2>1, <2>2, FirstTable
<1>16. PICK p \in First(store, X) : TRUE
  BY <1>15
<1>17. p \in A /\ p \in X /\ p # m /\ p \in files[level]
  BY <1>12, <1>14, <1>15, <1>16
<1> DEFINE g == Smallest(store[p])
<1>18. g \in store[p] /\ g \in Entries /\ g \in Contents(store, A)
  BY <1>1, <1>17, Extremes DEF Contents
<1>19. Before(g, first) \/ g = first
  BY <1>13, <1>17, <1>16 DEF First
<1>20. Before(last, g) /\ g.key = last.key
  BY <1>14, <1>17
<1>21. Precedes(store[p], store[m]) \/ Precedes(store[m], store[p])
  BY <1>7, <1>17 DEF Ordered
<1> HIDE DEF g, first, last
<1>22. Before(g, f)
  <2>1. ~Before(first, g)
    BY <1>10, <1>18, <1>19, BeforeOrder
  <2> QED BY <1>10, <1>18, <1>21, <2>1 DEF Precedes
<1>23. Before(e, g)
  BY <1>7, <1>11, <1>18, <1>20, BeforeOrder
<1>24. e.key <= g.key /\ g.key <= f.key
  BY <1>2, <1>7, <1>18, <1>22, <1>23, BeforeOrder
<1>25. g.key = f.key /\ e.key = g.key
  BY <1>1, <1>2, <1>7, <1>18, <1>24
<1>26. e.seq > g.seq /\ g.seq > f.seq
  BY <1>1, <1>2, <1>7, <1>18, <1>22, <1>23, <1>25 DEF Before
<1>27. e.seq <= g.seq
  BY <1>1, <1>2, <1>8, <1>18, <1>25, <1>26
<1> QED BY <1>1, <1>7, <1>18, <1>26, <1>27

(* What starts with a single table or with all that meets some entries does so. *)
Starts(store, files, level, numbers) ==
    /\ numbers \subseteq files[level] /\ numbers # {}
    /\ \/ level # 0 /\ \E n \in numbers : numbers = {n}
       \/ \E E \in SUBSET Contents(store, Numbers(files)) :
             Run(E) /\ Overlapped(store, files, level, E, numbers)

(* In level 0 nothing outside has a key of what is taken. *)
LEMMA StartOldestAbove ==
  ASSUME NEW store, NEW files, Tidy(store, files),
         NEW numbers, Starts(store, files, 0, numbers), NEW A, Bounded(store, files, 0, numbers, A)
  PROVE  NoOlderOutside(store, files[0], A)
<1>0. 0 \in Levels
  BY LevelsAssumption DEF Levels
<1>1. /\ \A k \in files[0] : Run(store[k]) /\ store[k] \subseteq Entries
      /\ \A e \in Entries : e.key \in Int
      /\ numbers \subseteq files[0] /\ numbers # {}
      /\ Run(Contents(store, numbers)) /\ Contents(store, numbers) \subseteq Entries
  <2>1. numbers \subseteq files[0] /\ numbers # {}
    BY DEF Starts
  <2>2. numbers \in SUBSET Numbers(files)
    BY <1>0, <2>1 DEF Numbers
  <2>3. /\ \A k \in files[0] : Run(store[k])
        /\ Run(Contents(store, numbers))
    BY <1>0, <2>1, <2>2, TidyPart
  <2> QED BY <2>1, <2>3, KeysAssumption DEF Run, Chain, Entries
<1>2. \A m \in files[0] \ numbers : \A n \in numbers : Apart(store[m], store[n])
  <2>1. PICK E \in SUBSET Contents(store, Numbers(files)) :
           Run(E) /\ Overlapped(store, files, 0, E, numbers)
    BY DEF Starts
  <2>2. \A m \in files[0] \ numbers : Apart(store[m], E \cup Contents(store, numbers))
    BY <2>1 DEF Overlapped
  <2>3. \A n \in numbers : store[n] \subseteq E \cup Contents(store, numbers)
    BY DEF Contents
  <2> QED BY <2>2, <2>3, ApartLess
<1>3. ASSUME NEW m \in files[0] \ numbers, NEW n \in numbers, NEW e \in store[n], NEW f \in store[m]
      PROVE  e.key # f.key
  <2>1. e.key \in Int /\ f.key \in Int
    BY <1>1
  <2> QED BY <1>2, <2>1 DEF Apart
<1> DEFINE last == Largest(Contents(store, numbers))
<1>4. PICK n \in numbers : last \in store[n]
  <2>1. last \in Contents(store, numbers)
    BY <1>1, Extremes
  <2> HIDE DEF last
  <2> QED BY <2>1 DEF Contents
<1>5. FindSmallestBoundaryFile(store, files[0], last) = {}
  <2> SUFFICES ASSUME NEW k \in files[0], Before(last, Smallest(store[k])),
                      Smallest(store[k]).key = last.key
               PROVE  FALSE
    BY DEF FindSmallestBoundaryFile, First
  <2>1. Smallest(store[k]) \in store[k] /\ Smallest(store[k]) \in Entries
    BY <1>1, Extremes
  <2>2. k \in numbers
    BY <1>3, <1>4, <2>1
  <2>3. Smallest(store[k]) \in Contents(store, numbers) /\ last \in Entries
    BY <1>1, <1>4, <2>1, <2>2, Extremes DEF Contents
  <2>4. Smallest(store[k]) = last \/ Before(Smallest(store[k]), last)
    BY <1>1, <2>3, Extremes
  <2> HIDE DEF last
  <2> QED BY <2>1, <2>3, <2>4, BeforeOrder
<1>6. A = numbers
  <2>1. \A R \in SUBSET A : numbers \subseteq R /\ (\A n2 \in R \ numbers : FALSE) /\ {} \subseteq R => R = A
    BY <1>5 DEF Bounded
  <2>2. numbers \in SUBSET A
    BY DEF Bounded
  <2> QED BY <2>1, <2>2
<1> QED BY <1>3, <1>6 DEF NoOlderOutside

(* Below level 0 a table outside is apart from the range and so comes after it. *)
LEMMA StartOldestBelow ==
  ASSUME NEW store, NEW files, Tidy(store, files), Ordered(store, files), NEW level \in Levels \ {0},
         NEW numbers, Starts(store, files, level, numbers)
  PROVE  OlderComesAfter(store, files[level], numbers)
<1> SUFFICES ASSUME NEW n \in numbers, NEW m \in files[level] \ numbers, NEW e \in store[n],
                    NEW f \in store[m], e.key = f.key, f.seq <= e.seq, NEW k \in numbers
             PROVE  Precedes(store[k], store[m])
  BY DEF OlderComesAfter, Precedes, Contents
<1>1. /\ \A j \in files[level] : Run(store[j]) /\ store[j] \subseteq Entries
      /\ \A a \in Entries : a.seq \in Nat /\ a.key \in Int
  <2>1. \A j \in files[level] : Run(store[j])
    BY TidyPart
  <2> QED BY <2>1, KeysAssumption DEF Run, Chain, Entries
<1>2. n \in files[level] /\ m \in files[level] /\ k \in files[level] /\ n # m /\ k # m
  BY DEF Starts
<1>3. e \in Entries /\ f \in Entries
  BY <1>1, <1>2
<1>4. Precedes(store[n], store[m])
  <2>1. Precedes(store[n], store[m]) \/ Precedes(store[m], store[n])
    BY <1>2 DEF Ordered
  <2>2. ~Before(f, e)
    BY <1>1, <1>3 DEF Before
  <2> QED BY <2>1, <2>2 DEF Precedes
<1>5. CASE \E j \in numbers : numbers = {j}
  <2>1. k = n
    BY <1>5
  <2> QED BY <1>4, <2>1
<1>6. CASE \E E \in SUBSET Contents(store, Numbers(files)) :
              Run(E) /\ Overlapped(store, files, level, E, numbers)
  <2>1. PICK E \in SUBSET Contents(store, Numbers(files)) :
              Run(E) /\ Overlapped(store, files, level, E, numbers)
    BY <1>6
  <2>2. Apart(store[m], E) /\ ~Apart(store[n], E) /\ ~Apart(store[k], E) /\ E \subseteq Entries
    BY <1>2, <2>1 DEF Overlapped, Run, Chain
  <2> SUFFICES ASSUME Precedes(store[m], store[k])
               PROVE  FALSE
    BY <1>2 DEF Ordered
  <2> DEFINE N == store[n]
             M == store[m]
             K == store[k]
  <2>3. N \subseteq Entries /\ M \subseteq Entries /\ K \subseteq Entries /\ f \in M
    BY <1>1, <1>2
  <2>4. Precedes(N, M) /\ Precedes(M, K) /\ Apart(M, E) /\ ~Apart(N, E) /\ ~Apart(K, E)
    BY <1>4, <2>2
  <2> HIDE DEF N, M, K
  <2>5. /\ \A a \in N : a.key <= f.key
        /\ \A b \in K : f.key <= b.key
    BY <1>3, <2>3, <2>4, BeforeOrder DEF Precedes
  <2>6. CASE \A a \in M, b \in E : a.key < b.key
    <3>1. \A a \in N, b \in E : a.key < b.key
      BY <1>1, <1>3, <2>2, <2>3, <2>5, <2>6
    <3> QED BY <2>4, <3>1 DEF Apart
  <2>7. CASE \A a \in M, b \in E : a.key > b.key
    <3>1. \A a \in K, b \in E : a.key > b.key
      BY <1>1, <1>3, <2>2, <2>3, <2>5, <2>7
    <3> QED BY <2>4, <3>1 DEF Apart
  <2> QED BY <2>4, <2>6, <2>7 DEF Apart
<1> QED BY <1>5, <1>6 DEF Starts

(* So AddBoundaryInputs leaves nothing older of a key that it takes. *)
LEMMA StartOldest ==
  ASSUME NEW store, NEW files, Tidy(store, files), Ordered(store, files), NEW level \in Levels,
         NEW numbers, Starts(store, files, level, numbers)
  PROVE  NoOlderOutside(store, files[level], AddBoundaryInputs(store, files, level, numbers))
<1> DEFINE A == AddBoundaryInputs(store, files, level, numbers)
<1>1. Bounded(store, files, level, numbers, A)
  BY BoundaryTaken DEF Starts
<1> HIDE DEF A
<1>2. CASE level = 0
  BY <1>1, <1>2, StartOldestAbove DEF A
<1>3. CASE level # 0
  <2>1. numbers \subseteq files[level] /\ numbers # {}
    BY DEF Starts
  <2> QED BY <1>1, <1>3, <2>1, StartOldestBelow, BoundaryOldest DEF A
<1> QED BY <1>2, <1>3

(* The upper inputs have the oldest entries of their level. *)
LEMMA InputsOldest ==
  ASSUME NEW store, NEW files, Tidy(store, files), Ordered(store, files),
         NEW level \in 0..MaxLevel - 1,
         NEW n \in files[level], NEW inputs \in Inputs(store, files, level, {n})
  PROVE  NoOlderOutside(store, files[level], inputs.upper)
<1>1. level \in Levels /\ level + 1 \in Levels /\ level + 1 # 0
  BY LevelsAssumption DEF Levels
<1>2. /\ \A m \in files[level] : Run(store[m])
      /\ \A numbers \in SUBSET Numbers(files) :
            /\ Contents(store, numbers) \in SUBSET Contents(store, Numbers(files))
            /\ numbers # {} => Run(Contents(store, numbers))
  BY <1>1, TidyPart
<1>3. \A T \in SUBSET files[level] : T \in SUBSET Numbers(files)
  BY <1>1 DEF Numbers
<1> DEFINE start == IF level = 0 THEN GetOverlappingInputs(store, files, 0, Contents(store, {n}))
                    ELSE {n}
           U == AddBoundaryInputs(store, files, level, start)
           Lower(taken) == GetOverlappingInputs(store, files, level + 1, Contents(store, taken))
           grow == GetOverlappingInputs(store, files, level, Contents(store, U \cup Lower(U)))
           G == AddBoundaryInputs(store, files, level, grow)
<1>4. ASSUME NEW T, T \in SUBSET Numbers(files), NEW k \in files[level], store[k] \subseteq Contents(store, T)
      PROVE  Starts(store, files, level, GetOverlappingInputs(store, files, level, Contents(store, T)))
  <2> DEFINE E == Contents(store, T)
             O == GetOverlappingInputs(store, files, level, E)
  <2>1. T # {}
    BY <1>2, <1>4 DEF Contents, Run
  <2>2. Run(E) /\ E \in SUBSET Contents(store, Numbers(files)) /\ E \subseteq Entries
    BY <1>2, <1>4, <2>1 DEF Run, Chain
  <2> HIDE DEF E
  <2>3. Overlapped(store, files, level, E, O)
    BY <1>1, <2>2, OverlappedTaken
  <2> HIDE DEF O
  <2>4. k \in O
    <3>1. ~Apart(store[k], E)
      BY <1>2, <1>4, <2>2, NotApart DEF E
    <3> QED BY <2>3, <3>1 DEF Overlapped
  <2>5. O \subseteq files[level]
    BY <2>3 DEF Overlapped
  <2> QED BY <2>2, <2>3, <2>4, <2>5 DEF Starts, O, E
<1>5. Starts(store, files, level, start)
  <2>1. CASE level = 0
    <3>1. {n} \in SUBSET Numbers(files) /\ store[n] \subseteq Contents(store, {n})
      BY <1>3 DEF Contents
    <3> QED BY <1>4, <2>1, <3>1
  <2>2. CASE level # 0
    BY <2>2 DEF Starts
  <2> QED BY <2>1, <2>2
<1> HIDE DEF start
<1>6. start \subseteq U /\ U \subseteq files[level] /\ U # {}
  <2>1. start \subseteq files[level] /\ start # {}
    BY <1>5 DEF Starts
  <2>2. Bounded(store, files, level, start, U)
    BY <1>1, <2>1, BoundaryTaken
  <2> QED BY <2>1, <2>2 DEF Bounded
<1>7. NoOlderOutside(store, files[level], U)
  BY <1>1, <1>5, StartOldest
<1> HIDE DEF U
<1>8. Starts(store, files, level, grow)
  <2>1. PICK k \in U : k \in files[level]
    BY <1>6
  <2>2. Run(Contents(store, U)) /\ Contents(store, U) \subseteq Contents(store, Numbers(files))
    BY <1>2, <1>3, <1>6
  <2>3. Overlapped(store, files, level + 1, Contents(store, U), Lower(U))
    BY <1>1, <2>2, OverlappedTaken
  <2> DEFINE L == Lower(U)
  <2>4. L \subseteq files[level + 1]
    BY <2>3 DEF Overlapped
  <2> HIDE DEF L
  <2>5. U \cup L \in SUBSET Numbers(files) /\ store[k] \subseteq Contents(store, U \cup L)
    BY <1>1, <1>6, <2>1, <2>4 DEF Numbers, Contents
  <2>6. Starts(store, files, level, GetOverlappingInputs(store, files, level, Contents(store, U \cup L)))
    BY <1>4, <2>1, <2>5
  <2> QED BY <2>6 DEF L
<1> HIDE DEF grow
<1>9. NoOlderOutside(store, files[level], G)
  BY <1>1, <1>8, StartOldest
<1> HIDE DEF G
<1>10. inputs.upper = U \/ inputs.upper = G
  <2> DEFINE upper == {AddBoundaryInputs(store, files, level, taken) : taken \in {start}}
             Grown(taken) ==
               AddBoundaryInputs(store, files, level, GetOverlappingInputs(
                   store, files, level, Contents(store, taken \cup Lower(taken))))
             Free(grown) == \A taken \in upper : Lower(taken) # {} /\ Lower(grown) = Lower(taken)
  <2>1. upper = {U}
    BY DEF U
  <2>2. Inputs(store, files, level, {n}) =
          {[upper |-> taken, lower |-> Lower(taken)] :
             taken \in upper \cup {grown \in {Grown(taken) : taken \in upper} : Free(grown)}}
    BY DEF Inputs, Lower, start
  <2>3. Grown(U) = G
    BY DEF G, grow
  <2> HIDE DEF Grown, upper
  <2>4. PICK taken \in upper \cup {grown \in {Grown(taken) : taken \in upper} : Free(grown)} :
          inputs = [upper |-> taken, lower |-> Lower(taken)]
    BY <2>2
  <2>5. taken = U \/ taken = G
    BY <2>1, <2>3, <2>4
  <2> QED BY <2>4, <2>5
<1> QED BY <1>7, <1>9, <1>10

-----------------------------------------------------------------------------
\* Memory tables and logs, from the newest to the oldest.

(* All of A is newer than all of B. *)
Newer(A, B) == \A a \in A, b \in B : a.seq > b.seq

(* What is in the current version, and in the one recovery would begin with. *)
Current == Contents(tables, Numbers(db.version))
Manifested == Contents(tables, Numbers(manifest.files))

(* Later logs have newer entries. *)
LogOrder == \A n, m \in LiveLogs : n < m => Newer(LogEntries(logs[m]), LogEntries(logs[n]))
(* Logs have newer entries than tables. *)
LogsAbove ==
    /\ \A n \in LiveLogs : Newer(LogEntries(logs[n]), Current)
    /\ \A n \in DOMAIN logs : n >= manifest.log => Newer(LogEntries(logs[n]), Manifested)
(* The memory tables are in the logs that recovery would read. *)
MemoryLogs ==
    /\ db.status # "open" => db.mem = {} /\ db.imm = {}
    /\ db.status = "opening" => LogEntries(logs[db.logfile]) = {}
    /\ db.status = "open" =>
          /\ \A n \in LiveLogs : n = db.logNumber \/ n = db.logfile
          /\ db.logNumber \in DOMAIN logs
          /\ db.imm = {} => db.logNumber = db.logfile
          /\ db.imm # {} => db.logNumber < db.logfile
          /\ db.mem \subseteq LogEntries(logs[db.logfile])
          /\ db.imm \subseteq LogEntries(logs[db.logNumber])
    /\ stage \in InLog => GroupEntries \subseteq LogEntries(logs[db.logfile])
    /\ stage = "written" => GroupEntries \subseteq db.mem
(* What an edit under way adds and deletes. *)
EditMakes(edit) ==
    /\ edit.kind = "flush" =>
          /\ edit.log = db.logfile
          /\ edit.deletes = {} /\ db.imm # {}
          /\ \E level \in Levels, n \in DOMAIN tables :
                /\ edit.adds = {<<level, n>>} /\ tables[n] = db.imm
    /\ edit.kind \in {"move", "compact"} => edit.log = db.logNumber
    /\ edit.kind = "move" =>
          \E level \in 0..MaxLevel - 1 : \E n \in db.version[level] :
             edit.adds = {<<level + 1, n>>} /\ edit.deletes = {<<level, n>>}
    /\ edit.kind = "compact" =>
          LET c == bg.compaction IN
          /\ edit.adds = {<<c.level + 1, n>> : n \in c.outputs}
          /\ edit.deletes = {<<c.level, n>> : n \in c.upper}
                              \cup {<<c.level + 1, n>> : n \in c.lower}
    /\ edit.kind = "open" => edit.deletes = {}
(* What a compaction has built. *)
Builds(c) ==
    c.built => Contents(tables, c.outputs) = Survivors(c)
(* What logs, memory tables, edits and compactions hold. *)
MemoryInv ==
    ~repeated =>
      /\ LogOrder /\ LogsAbove /\ MemoryLogs
      /\ bg.edit # None => EditMakes(bg.edit)
      /\ bg.compaction # None => Builds(bg.compaction)

(* Contents are those of the tables. *)
LEMMA ContentsOf ==
  ASSUME NEW store, NEW numbers, NEW e
  PROVE  e \in Contents(store, numbers) <=> \E n \in numbers : e \in store[n]
BY DEF Contents

(* A version's numbers are those of its levels. *)
LEMMA NumbersOf ==
  ASSUME NEW files, NEW n
  PROVE  n \in Numbers(files) <=> \E level \in Levels : n \in files[level]
BY DEF Numbers

(* What an edit under way makes of the version. *)
AfterEdit == Contents(tables, Numbers(Applied(db.version, bg.edit)))

(* An entry after an edit is in a table that it adds or that it leaves. *)
LEMMA InAfterEdit ==
  ASSUME TypeInv, bg.edit # None, NEW e
  PROVE  e \in AfterEdit <=>
           \/ \E level \in Levels : \E n \in db.version[level] :
                 <<level, n>> \notin bg.edit.deletes /\ e \in tables[n]
           \/ \E a \in bg.edit.adds : e \in tables[a[2]]
<1> DEFINE files == db.version
           edit == bg.edit
           later == Applied(files, edit)
<1>1. files \in Files /\ edit.adds \subseteq Levels \X Nat
  BY FileTypes DEF IsEdit, Edits, FiniteParts
<1>2. e \in AfterEdit <=> \E level \in Levels : \E n \in later[level] : e \in tables[n]
  BY ContentsOf, NumbersOf DEF AfterEdit
<1> HIDE DEF files, edit
<1>3. ASSUME NEW level \in Levels, NEW n
      PROVE  n \in later[level] <=> \/ n \in files[level] /\ <<level, n>> \notin edit.deletes
                                   \/ <<level, n>> \in edit.adds
  BY <1>1, AppliedLevels
<1> HIDE DEF later
<1>4. \A a \in edit.adds : a[1] \in Levels /\ a = <<a[1], a[2]>>
  BY <1>1
<1>5. (\E a \in edit.adds : e \in tables[a[2]]) <=>
        \E level \in Levels : \E n : <<level, n>> \in edit.adds /\ e \in tables[n]
  <2>1. ASSUME NEW a \in edit.adds, e \in tables[a[2]]
        PROVE  \E level \in Levels : \E n : <<level, n>> \in edit.adds /\ e \in tables[n]
    <3>1. <<a[1], a[2]>> \in edit.adds /\ a[1] \in Levels
      BY <1>4
    <3> QED BY <2>1, <3>1
  <2>2. ASSUME NEW level \in Levels, NEW n, <<level, n>> \in edit.adds, e \in tables[n]
        PROVE  \E a \in edit.adds : e \in tables[a[2]]
    <3>1. <<level, n>>[2] = n
      OBVIOUS
    <3> QED BY <2>2, <3>1
  <2> QED BY <2>1, <2>2
<1>6. e \in AfterEdit <=>
        \E level \in Levels : \E n :
           \/ n \in files[level] /\ <<level, n>> \notin edit.deletes /\ e \in tables[n]
           \/ <<level, n>> \in edit.adds /\ e \in tables[n]
  BY <1>2, <1>3
<1> QED BY <1>5, <1>6 DEF files, edit

(* A flush adds the immutable memory table to what the version has. *)
LEMMA FlushContents ==
  ASSUME TypeInv, bg.edit # None, bg.edit.kind = "flush", EditMakes(bg.edit)
  PROVE  AfterEdit = Current \cup db.imm
<1> DEFINE edit == bg.edit
<1>1. PICK level \in Levels, n \in DOMAIN tables : edit.adds = {<<level, n>>} /\ tables[n] = db.imm
  BY DEF EditMakes
<1>2. edit.deletes = {}
  BY DEF EditMakes
<1>3. \A e : e \in Current <=> \E l \in Levels : \E m \in db.version[l] : e \in tables[m]
  BY ContentsOf, NumbersOf DEF Current
<1>4. \A e : (\E a \in edit.adds : e \in tables[a[2]]) <=> e \in db.imm
  BY <1>1
<1> HIDE DEF edit
<1>5. \A e : e \in AfterEdit <=>
         \/ \E l \in Levels : \E m \in db.version[l] :
               <<l, m>> \notin edit.deletes /\ e \in tables[m]
         \/ \E a \in edit.adds : e \in tables[a[2]]
  BY InAfterEdit DEF edit
<1>6. \A e : e \in AfterEdit <=> e \in Current \/ e \in db.imm
  BY <1>2, <1>3, <1>4, <1>5
<1> QED BY <1>6

(* A move changes nothing of what the version has. *)
LEMMA MoveContents ==
  ASSUME TypeInv, bg.edit # None, bg.edit.kind = "move", EditMakes(bg.edit)
  PROVE  AfterEdit = Current
<1> DEFINE edit == bg.edit
<1>1. PICK level \in 0..MaxLevel - 1 : \E n \in db.version[level] :
             edit.adds = {<<level + 1, n>>} /\ edit.deletes = {<<level, n>>}
  BY DEF EditMakes
<1>2. PICK n \in db.version[level] :
             edit.adds = {<<level + 1, n>>} /\ edit.deletes = {<<level, n>>}
  BY <1>1
<1>3. \A e : e \in Current <=> \E l \in Levels : \E m \in db.version[l] : e \in tables[m]
  BY ContentsOf, NumbersOf DEF Current
<1>4. level \in Levels
  BY LevelsAssumption DEF Levels
<1>5. \A e : (\E a \in edit.adds : e \in tables[a[2]]) <=> e \in tables[n]
  BY <1>2
<1>6. \A l, m : <<l, m>> \in edit.deletes => m = n
  BY <1>2
<1> HIDE DEF edit
<1>7. \A e : e \in AfterEdit <=>
         \/ \E l \in Levels : \E m \in db.version[l] :
               <<l, m>> \notin edit.deletes /\ e \in tables[m]
         \/ \E a \in edit.adds : e \in tables[a[2]]
  BY InAfterEdit DEF edit
<1>8. \A e : e \in AfterEdit <=> e \in Current
  BY <1>3, <1>4, <1>5, <1>6, <1>7
<1> QED BY <1>8

(* The edit of a recovery adds its tables. *)
LEMMA OpenContents ==
  ASSUME TypeInv, bg.edit # None, bg.edit.kind = "open", EditMakes(bg.edit)
  PROVE  AfterEdit = Contents(tables, Numbers(db.version) \cup Adds(bg.edit))
<1> DEFINE edit == bg.edit
<1>1. edit.deletes = {}
  BY DEF EditMakes
<1>2. \A e : e \in Contents(tables, Numbers(db.version) \cup Adds(edit)) <=>
         \/ \E l \in Levels : \E m \in db.version[l] : e \in tables[m]
         \/ \E n \in Adds(edit) : e \in tables[n]
  BY ContentsOf, NumbersOf
<1>3. \A e : (\E a \in edit.adds : e \in tables[a[2]]) <=> \E n \in Adds(edit) : e \in tables[n]
  BY DEF Adds
<1> HIDE DEF edit
<1>4. \A e : e \in AfterEdit <=>
         \/ \E l \in Levels : \E m \in db.version[l] :
               <<l, m>> \notin edit.deletes /\ e \in tables[m]
         \/ \E a \in edit.adds : e \in tables[a[2]]
  BY InAfterEdit DEF edit
<1>5. \A e : e \in AfterEdit <=> e \in Contents(tables, Numbers(db.version) \cup Adds(edit))
  BY <1>1, <1>2, <1>3, <1>4
<1> QED BY <1>5 DEF edit

(* What a compaction reads, and what it drops of that. *)
InputsOf(c) == Contents(tables, c.upper \cup c.lower)
DroppedBy(c) == Dropped(tables, c.version, c.level, InputsOf(c), c.snapshot)

(* A compaction takes away nothing but what it drops of its inputs. *)
LEMMA CompactContents ==
  ASSUME TypeInv, bg.edit # None, bg.edit.kind = "compact", EditMakes(bg.edit), NEW c,
         c = bg.compaction,
         Builds(c), Fits(tables, db.version, c)
  PROVE  /\ AfterEdit \subseteq Current
         /\ \A e \in Current : e \in AfterEdit \/ (e \in InputsOf(c) /\ e \in DroppedBy(c))
         /\ \A e \in AfterEdit :
               \/ e \in InputsOf(c) /\ e \notin DroppedBy(c)
               \/ \E l \in Levels : \E n \in db.version[l] :
                     e \in tables[n] /\ ~(l = c.level /\ n \in c.upper) /\ ~(l = c.level + 1 /\ n \in c.lower)
<1> DEFINE edit == bg.edit
<1>1. c.built /\ c \in Compactions
  BY DEF TypeInv, BgType, IsCompaction
<1>2. /\ edit.adds = {<<c.level + 1, n>> : n \in c.outputs}
      /\ edit.deletes = {<<c.level, n>> : n \in c.upper} \cup {<<c.level + 1, n>> : n \in c.lower}
  BY DEF EditMakes
<1>3. Contents(tables, c.outputs) = InputsOf(c) \ DroppedBy(c)
  BY <1>1 DEF Builds, Survivors, InputsOf, DroppedBy
<1>4. c.level \in Levels /\ c.level + 1 \in Levels
  BY <1>1, LevelsAssumption DEF Compactions, Levels
<1>5. /\ c.upper \subseteq db.version[c.level] /\ c.lower \subseteq db.version[c.level + 1]
  BY DEF Fits
<1>6. \A e : e \in Current <=> \E l \in Levels : \E m \in db.version[l] : e \in tables[m]
  BY ContentsOf, NumbersOf DEF Current
<1>7. \A e : e \in InputsOf(c) <=> \E m \in c.upper \cup c.lower : e \in tables[m]
  BY ContentsOf DEF InputsOf
<1>8. \A e : (\E a \in edit.adds : e \in tables[a[2]]) <=> e \in InputsOf(c) /\ e \notin DroppedBy(c)
  <2>1. \A e : (\E a \in edit.adds : e \in tables[a[2]]) <=> \E n \in c.outputs : e \in tables[n]
    <3> SUFFICES ASSUME NEW e
                 PROVE  (\E a \in edit.adds : e \in tables[a[2]]) <=> \E n \in c.outputs : e \in tables[n]
      OBVIOUS
    <3> DEFINE L == c.level + 1
    <3>1. edit.adds = {<<L, n>> : n \in c.outputs}
      BY <1>2
    <3> HIDE DEF L, edit
    <3>2. \A n : <<L, n>>[2] = n
      OBVIOUS
    <3>3. ASSUME NEW n \in c.outputs PROVE <<L, n>> \in edit.adds
      BY <3>1
    <3>4. ASSUME NEW a \in edit.adds PROVE \E n \in c.outputs : a = <<L, n>>
      BY <3>1
    <3> QED BY <3>2, <3>3, <3>4
  <2>2. \A e : e \in Contents(tables, c.outputs) <=> \E n \in c.outputs : e \in tables[n]
    BY ContentsOf
  <2> QED BY <1>3, <2>1, <2>2
<1>9. \A l, m : <<l, m>> \in edit.deletes <=> (l = c.level /\ m \in c.upper) \/ (l = c.level + 1 /\ m \in c.lower)
  BY <1>2
<1> HIDE DEF edit
<1>10. \A e : e \in AfterEdit <=>
         \/ \E l \in Levels : \E m \in db.version[l] :
               <<l, m>> \notin edit.deletes /\ e \in tables[m]
         \/ \E a \in edit.adds : e \in tables[a[2]]
  BY InAfterEdit DEF edit
<1>11. \A e : e \in AfterEdit <=>
         \/ \E l \in Levels : \E m \in db.version[l] :
               <<l, m>> \notin edit.deletes /\ e \in tables[m]
         \/ e \in InputsOf(c) /\ e \notin DroppedBy(c)
  BY <1>8, <1>10
<1>12. \A e : e \in InputsOf(c) => e \in Current
  BY <1>4, <1>5, <1>6, <1>7
<1>13. AfterEdit \subseteq Current
  BY <1>6, <1>11, <1>12
<1>14. ASSUME NEW e \in Current PROVE e \in AfterEdit \/ (e \in InputsOf(c) /\ e \in DroppedBy(c))
  <2>1. PICK l \in Levels : \E m \in db.version[l] : e \in tables[m]
    BY <1>6
  <2>2. PICK m \in db.version[l] : e \in tables[m]
    BY <2>1
  <2>3. CASE <<l, m>> \notin edit.deletes
    BY <1>11, <2>2, <2>3
  <2>4. CASE <<l, m>> \in edit.deletes
    <3>1. e \in InputsOf(c)
      BY <1>7, <1>9, <2>2, <2>4
    <3> QED BY <1>11, <3>1
  <2> QED BY <2>3, <2>4
<1> QED BY <1>9, <1>11, <1>13, <1>14

(* The group of no writer in the log has nothing in it. *)
LEMMA LogsSame ==
  ASSUME LogOrder, LogsAbove,
         \A n \in LiveLogs' : n \in LiveLogs /\ LogEntries(logs'[n]) \subseteq LogEntries(logs[n]),
         \A n \in DOMAIN logs' : n >= manifest'.log =>
            /\ n \in DOMAIN logs /\ n >= manifest.log
            /\ LogEntries(logs'[n]) \subseteq LogEntries(logs[n]),
         Current' \subseteq Current, Manifested' \subseteq Manifested
  PROVE  LogOrder' /\ LogsAbove'
<1>1. LogOrder'
  BY DEF LogOrder, Newer
<1>2. \A n \in LiveLogs' : Newer(LogEntries(logs'[n]), Current')
  BY DEF LogsAbove, Newer
<1>3. \A n \in DOMAIN logs' : n >= manifest'.log => Newer(LogEntries(logs'[n]), Manifested')
  BY DEF LogsAbove, Newer
<1> QED BY <1>1, <1>2, <1>3 DEF LogsAbove

(* What stays in a version that is held stays what it was. *)
LEMMA VersionsStay ==
  ASSUME FilesInv, FilesInv', EntriesInv, [Next]_vars
  PROVE  /\ db'.version = db.version => Current' = Current
         /\ manifest' = manifest => Manifested' = Manifested
         /\ bg.edit # None /\ db'.version = Applied(db.version, bg.edit) => Current' = AfterEdit
<1>1. \A n \in Held : n \in Held' => tables'[n] = tables[n]
  BY HeldStay
<1>2. /\ Numbers(manifest.files) \subseteq Held /\ Numbers(db.version) \subseteq Held
      /\ bg.edit # None => Numbers(Applied(db.version, bg.edit)) \subseteq Held
  BY HeldVersions DEF FilesInv
<1>3. Numbers(manifest'.files) \subseteq Held' /\ Numbers(db'.version) \subseteq Held'
  BY DEF Held
<1>4. ASSUME NEW S, S \subseteq Held, S \subseteq Held' PROVE Contents(tables', S) = Contents(tables, S)
  BY <1>1, <1>4 DEF Contents
<1> QED BY <1>2, <1>3, <1>4 DEF Current, Manifested, AfterEdit

(* Logs and memory tables are left alone. *)
SameMemory ==
    /\ db'.status = db.status /\ db'.mem = db.mem /\ db'.imm = db.imm
    /\ db'.version = db.version /\ db'.logNumber = db.logNumber /\ db'.logfile = db.logfile
    /\ manifest' = manifest
    /\ DOMAIN logs' = DOMAIN logs
    /\ \A n \in DOMAIN logs : LogEntries(logs'[n]) = LogEntries(logs[n])
    /\ stage' \in InLog => stage \in InLog /\ GroupEntries' = GroupEntries
    /\ stage' = "written" => stage = "written"

(* Logs and memory tables hold what they held where nothing of them changes. *)
LEMMA SameMemoryKeeps ==
  ASSUME FilesInv, FilesInv', EntriesInv, [Next]_vars, SameMemory, LogOrder, LogsAbove, MemoryLogs
  PROVE  LogOrder' /\ LogsAbove' /\ MemoryLogs'
<1>1. Current' = Current /\ Manifested' = Manifested
  BY VersionsStay DEF SameMemory
<1>2. LiveLogs' = LiveLogs
  BY DEF SameMemory, LiveLogs, LogStart
<1>3. LogOrder' /\ LogsAbove'
  <2>1. \A n \in LiveLogs : n \in DOMAIN logs
    BY DEF LiveLogs
  <2> QED BY <1>1, <1>2, <2>1, LogsSame DEF SameMemory
<1>4. MemoryLogs'
  <2>1. db.status # "closed" => db.logfile \in DOMAIN logs
    BY DEF FilesInv, TypeInv, StatusInv
  <2>2. stage \in InLog => db.status = "open"
    BY DEF FilesInv, TypeInv, StatusInv, WritersType, InLog, Writing
  <2>3. db'.status # "closed" => LogEntries(logs'[db'.logfile]) = LogEntries(logs[db.logfile])
    BY <2>1 DEF SameMemory
  <2>4. db.logNumber \in DOMAIN logs => LogEntries(logs'[db'.logNumber]) = LogEntries(logs[db.logNumber])
    BY DEF SameMemory
  <2>5. "written" \in InLog
    BY DEF InLog
  <2>6. /\ db'.status # "open" => db'.mem = {} /\ db'.imm = {}
        /\ db'.status = "opening" => LogEntries(logs'[db'.logfile]) = {}
    BY <2>3 DEF SameMemory, MemoryLogs
  <2>7. db'.status = "open" =>
          /\ \A n \in LiveLogs' : n = db'.logNumber \/ n = db'.logfile
          /\ db'.logNumber \in DOMAIN logs'
          /\ db'.imm = {} => db'.logNumber = db'.logfile
          /\ db'.imm # {} => db'.logNumber < db'.logfile
          /\ db'.mem \subseteq LogEntries(logs'[db'.logfile])
          /\ db'.imm \subseteq LogEntries(logs'[db'.logNumber])
    BY <1>2, <2>3, <2>4 DEF SameMemory, MemoryLogs
  <2>8. /\ stage' \in InLog => GroupEntries' \subseteq LogEntries(logs'[db'.logfile])
        /\ stage' = "written" => GroupEntries' \subseteq db'.mem
    BY <2>2, <2>3, <2>5 DEF SameMemory, MemoryLogs
  <2> QED BY <2>6, <2>7, <2>8 DEF MemoryLogs
<1> QED BY <1>3, <1>4

(* An edit under way still makes what it made. *)
LEMMA EditStays ==
  ASSUME FilesInv, FilesInv', EntriesInv, [Next]_vars, bg.edit # None, EditMakes(bg.edit),
         bg'.edit = bg.edit,
         db'.imm = db.imm, db'.version = db.version, db'.logNumber = db.logNumber,
         db'.logfile = db.logfile \/ db.imm = {},
         bg.edit.kind = "compact" => bg'.compaction = bg.compaction
  PROVE  EditMakes(bg.edit)'
<1> DEFINE edit == bg.edit
<1>1. bg'.edit = edit /\ edit.kind = "flush" => db.imm # {} /\ db'.logfile = db.logfile
  BY DEF EditMakes
<1>2. ASSUME edit.kind = "flush"
      PROVE  \E level \in Levels, n \in DOMAIN tables' :
                edit.adds = {<<level, n>>} /\ tables'[n] = db'.imm
  <2>1. PICK level \in Levels, n \in DOMAIN tables : edit.adds = {<<level, n>>} /\ tables[n] = db.imm
    BY <1>2 DEF EditMakes
  <2>2. n \in Held /\ n \in Held'
    <3>1. <<level, n>>[2] = n
      OBVIOUS
    <3>2. n \in Adds(edit)
      BY <2>1, <3>1 DEF Adds
    <3> QED BY <3>2 DEF Held, HeldByEdit
  <2>3. n \in DOMAIN tables' /\ tables'[n] = tables[n]
    BY <2>2, HeldStay, HeldOnDiskNext DEF HeldFacts
  <2> QED BY <2>1, <2>3
<1> HIDE DEF edit
<1>3. EditMakes(edit)
  BY DEF edit
<1>4. EditMakes(edit)'
  <2>1. edit' = edit
    BY DEF edit
  <2> QED BY <1>1, <1>2, <1>3, <2>1 DEF EditMakes, edit
<1> QED BY <1>4 DEF edit

(* So do the outputs of a compaction. *)
LEMMA BuildsStay ==
  ASSUME FilesInv, FilesInv', EntriesInv, [Next]_vars, bg.compaction # None, Builds(bg.compaction),
         bg'.compaction = bg.compaction
  PROVE  Builds(bg.compaction)'
<1> DEFINE c == bg.compaction
<1>1. bg'.compaction = c /\ c # None
  OBVIOUS
<1>2. /\ c.outputs \subseteq Held /\ Numbers(c.version) \subseteq Held
      /\ c.upper \subseteq Held /\ c.lower \subseteq Held
  BY HeldVersions DEF FilesInv
<1>3. c.outputs \subseteq Held' /\ Numbers(c.version) \subseteq Held'
  BY <1>1 DEF Held, HeldByCompaction
<1>4. IsCompaction(c)
  BY DEF FilesInv, TypeInv, BgType
<1>5. c.upper \subseteq Numbers(c.version) /\ c.lower \subseteq Numbers(c.version)
      /\ \A l \in Levels : c.version[l] \subseteq Numbers(c.version)
  BY <1>4, LevelsAssumption DEF IsCompaction, Compactions, Numbers, Levels
<1>6. \A n \in c.outputs \cup Numbers(c.version) : tables'[n] = tables[n]
  BY <1>2, <1>3, HeldStay
<1>7. /\ Contents(tables', c.outputs) = Contents(tables, c.outputs)
      /\ Contents(tables', c.upper \cup c.lower) = Contents(tables, c.upper \cup c.lower)
  BY <1>5, <1>6 DEF Contents
<1> DEFINE T == tables'
<1>8. /\ \A n \in Numbers(c.version) : T[n] = tables[n]
      /\ Contents(T, c.outputs) = Contents(tables, c.outputs)
      /\ Contents(T, c.upper \cup c.lower) = Contents(tables, c.upper \cup c.lower)
  BY <1>6, <1>7
<1> HIDE DEF c, T
<1>9. \A key : IsBaseLevelForKey(T, c.version, c.level, key) <=> IsBaseLevelForKey(tables, c.version, c.level, key)
  <2>1. \A l \in c.level + 2..MaxLevel : l \in Levels
    BY <1>4, LevelsAssumption DEF IsCompaction, Compactions, Levels
  <2> QED BY <1>5, <1>8, <2>1 DEF IsBaseLevelForKey
<1>10. \A E : Dropped(T, c.version, c.level, E, c.snapshot) = Dropped(tables, c.version, c.level, E, c.snapshot)
  BY <1>9 DEF Dropped, ObsoleteDeletions
<1>11. Builds(c) /\ c.built => Contents(T, c.outputs) =
          Contents(T, c.upper \cup c.lower)
             \ Dropped(T, c.version, c.level, Contents(T, c.upper \cup c.lower), c.snapshot)
  BY <1>8, <1>10 DEF Builds, Survivors
<1> QED BY <1>1, <1>11 DEF Builds, Survivors, c, T

(* A step that leaves them alone keeps them. *)
LEMMA MemoryStays ==
  ASSUME FilesInv, FilesInv', EntriesInv, [Next]_vars, MemoryInv, SameMemory,
         bg'.edit \in {bg.edit, None}, bg'.compaction \in {bg.compaction, None}
  PROVE  MemoryInv'
<1> SUFFICES ASSUME ~repeated'
             PROVE  /\ LogOrder' /\ LogsAbove' /\ MemoryLogs'
                    /\ bg'.edit # None => EditMakes(bg.edit)'
                    /\ bg'.compaction # None => Builds(bg.compaction)'
  BY DEF MemoryInv
<1>1. ~repeated
  BY HeldStay
<1>2. LogOrder' /\ LogsAbove' /\ MemoryLogs'
  BY <1>1, SameMemoryKeeps DEF MemoryInv
<1>3. ASSUME bg'.edit # None PROVE EditMakes(bg.edit)'
  <2>1. bg'.edit = bg.edit /\ bg.edit # None
    BY <1>3
  <2>2. bg.edit.kind = "compact" => bg'.compaction = bg.compaction
    BY <2>1 DEF FilesInv, TypeInv, BgType
  <2>3. EditMakes(bg.edit)
    BY <1>1, <2>1 DEF MemoryInv
  <2> QED BY <2>1, <2>2, <2>3, EditStays DEF SameMemory
<1>4. ASSUME bg'.compaction # None PROVE Builds(bg.compaction)'
  <2>1. bg'.compaction = bg.compaction /\ bg.compaction # None
    BY <1>4
  <2>2. Builds(bg.compaction)
    BY <1>1, <2>1 DEF MemoryInv
  <2> QED BY <2>1, <2>2, BuildsStay
<1> QED BY <1>2, <1>3, <1>4

(* A step that gives out no number keeps what the logs and the memory tables hold. *)
LEMMA RestsMemory ==
  ASSUME FilesInv, FilesInv', EntriesInv, [Next]_vars, MemoryInv, Rests
  PROVE  MemoryInv'
<1>1. GroupEntries' = GroupEntries
  BY SameGroup DEF Rests
<1>2. SameMemory
  BY <1>1 DEF Rests, Quiet, SameMemory, InLog
<1> QED BY <1>2, MemoryStays DEF Rests, Quiet

(* A new iterator keeps what the logs and the memory tables hold. *)
LEMMA BeginsMemory ==
  ASSUME FilesInv, FilesInv', EntriesInv, [Next]_vars, MemoryInv, NEW seq, Begins(seq)
  PROVE  MemoryInv'
<1>1. GroupEntries' = GroupEntries
  BY SameGroup DEF Begins, writers
<1>2. SameMemory
  BY <1>1 DEF Begins, SameMemory, disk, writers
<1> QED BY <1>2, MemoryStays DEF Begins

(* The writers but for the one that appends to the log and the one that inserts. *)
LEMMA WritersMemory ==
  ASSUME FilesInv, FilesInv', EntriesInv, [Next]_vars, MemoryInv, Quiet,
         BeginWrite \/ AddRecordFails \/ Sync \/ EndWrite
  PROVE  MemoryInv'
<1> USE DEF FilesInv, TypeInv
<1>1. stage' \notin InLog \/ (stage' = "insert" /\ stage = "sync" /\ GroupEntries' = GroupEntries)
  <2>1. CASE BeginWrite \/ AddRecordFails \/ EndWrite
    BY <2>1 DEF BeginWrite, BuildBatchGroup, AddRecordFails, EndWrite, Return, InLog
  <2>2. CASE Sync
    BY <2>2, SameGroup DEF Sync
  <2> QED BY <2>1, <2>2
<1>2. DOMAIN logs' = DOMAIN logs /\ \A n \in DOMAIN logs : logs'[n].records = logs[n].records
  <2>1. CASE BeginWrite \/ EndWrite
    BY <2>1 DEF BeginWrite, EndWrite, disk
  <2>2. CASE AddRecordFails \/ Sync
    <3>1. db.status # "closed"
      BY <2>2 DEF AddRecordFails, Sync, StatusInv, WritersType, Writing
    <3>2. db.logfile \in DOMAIN logs /\ \A n \in DOMAIN logs : logs[n] \in Logs
      BY <3>1 DEF StatusInv, LogsType
    <3> DEFINE l == db.logfile
               n == Len(logs[l].records)
    <3>3. l \in DOMAIN logs /\ \A m \in DOMAIN logs : logs[m] \in Logs
      BY <3>2
    <3>4. CASE AddRecordFails
      <4>1. logs' = [logs EXCEPT ![l].torn = TRUE]
        BY <3>4 DEF AddRecordFails
      <4> HIDE DEF l
      <4> QED BY <4>1, <3>3 DEF Logs
    <3>5. CASE Sync
      <4>1. logs' = [logs EXCEPT ![l].synced = n]
        BY <3>5 DEF Sync
      <4> HIDE DEF l, n
      <4> QED BY <4>1, <3>3 DEF Logs
    <3> QED BY <2>2, <3>4, <3>5
  <2> QED BY <2>1, <2>2
<1>3. \A n \in DOMAIN logs : LogEntries(logs'[n]) = LogEntries(logs[n])
  BY <1>2 DEF LogEntries, FirstEntries
<1>4. db'.mem = db.mem
  <2>1. CASE BeginWrite \/ AddRecordFails \/ Sync
    BY <2>1 DEF BeginWrite, AddRecordFails, Sync
  <2>2. CASE EndWrite
    BY <2>2 DEF EndWrite, DbType, Dbs
  <2> QED BY <2>1, <2>2
<1>5. stage' # "written"
  BY <1>1 DEF InLog
<1>6. SameMemory
  BY <1>1, <1>2, <1>3, <1>4, <1>5 DEF Quiet, SameMemory, InLog
<1>7. bg'.edit \in {bg.edit, None} /\ bg'.compaction \in {bg.compaction, None}
  BY DEF Quiet
<1> QED BY <1>6, <1>7, MemoryStays

(* An edit and a compaction under way hold what was made for them. *)
BgMakes ==
    /\ bg.edit # None => EditMakes(bg.edit)
    /\ bg.compaction # None => Builds(bg.compaction)

(* That stays so while the versions and the immutable table stay. *)
LEMMA BgStays ==
  ASSUME FilesInv, FilesInv', EntriesInv, [Next]_vars, BgMakes,
         bg'.edit \in {bg.edit, None}, bg'.compaction \in {bg.compaction, None},
         db'.imm = db.imm, db'.version = db.version, db'.logNumber = db.logNumber,
         db'.logfile = db.logfile
  PROVE  BgMakes'
<1>3. ASSUME bg'.edit # None PROVE EditMakes(bg.edit)'
  <2>1. bg'.edit = bg.edit /\ bg.edit # None
    BY <1>3
  <2>2. bg.edit.kind = "compact" => bg'.compaction = bg.compaction
    BY <2>1 DEF FilesInv, TypeInv, BgType
  <2>3. EditMakes(bg.edit)
    BY <2>1 DEF BgMakes
  <2> QED BY <2>1, <2>2, <2>3, EditStays
<1>4. ASSUME bg'.compaction # None PROVE Builds(bg.compaction)'
  <2>1. bg'.compaction = bg.compaction /\ bg.compaction # None
    BY <1>4
  <2>2. Builds(bg.compaction)
    BY <2>1 DEF BgMakes
  <2> QED BY <2>1, <2>2, BuildsStay
<1> QED BY <1>3, <1>4 DEF BgMakes

(* The group's entries in the log are newer than all that is there. *)
LEMMA AddRecordMemory ==
  ASSUME FilesInv, FilesInv', EntriesInv, [Next]_vars, MemoryInv, Quiet, AddRecord
  PROVE  MemoryInv'
<1> SUFFICES ASSUME ~repeated'
             PROVE  LogOrder' /\ LogsAbove' /\ MemoryLogs' /\ BgMakes'
  BY DEF MemoryInv, BgMakes
<1>1. ~repeated /\ LogOrder /\ LogsAbove /\ MemoryLogs /\ BgMakes
  BY HeldStay DEF MemoryInv, BgMakes
<1>2. TypeInv /\ NumbersInv
  BY DEF FilesInv
<1> DEFINE l == db.logfile
<1>3. /\ UNCHANGED <<tables, manifest, db, bg, iterator, committed, queue, group>>
      /\ DOMAIN logs' = DOMAIN logs /\ \A n \in DOMAIN logs : n # l => logs'[n] = logs[n]
      /\ stage = "append"
  BY DEF AddRecord, history
<1>4. db.status = "open" /\ l \in DOMAIN logs /\ l \in Nat /\ DOMAIN logs \subseteq Nat
      /\ \A n \in DOMAIN logs : n <= l
  <2>1. db.status # "closed" /\ queue # <<>>
    BY <1>2, <1>3 DEF TypeInv, StatusInv, WritersType, Writing
  <2> QED BY <1>2, <2>1, FileTypes DEF TypeInv, StatusInv, NumbersInv
<1>5. GroupEntries' = GroupEntries
  BY <1>3, SameGroup
<1>6. LogEntries(logs'[l]) = LogEntries(logs[l]) \cup GroupEntries
  <2>1. logs[l].records \in Seq(EntrySets) /\ logs[l] \in Logs
    BY <1>2, <1>4 DEF TypeInv, LogsType, Logs
  <2> DEFINE r == Append(logs[l].records, GroupEntries)
             g == IF logs[l].torn THEN logs[l].good ELSE Len(logs[l].records) + 1
  <2>2. logs' = [logs EXCEPT ![l].records = r, ![l].good = g]
    BY DEF AddRecord
  <2> HIDE DEF r, g
  <2>3. logs'[l].records = r
    BY <1>4, <2>1, <2>2 DEF Logs
  <2>4. logs'[l].records = Append(logs[l].records, GroupEntries)
    BY <2>3 DEF r
  <2> QED BY <2>1, <2>4, LogGrows
<1>7. /\ \A e \in GroupEntries : e.seq \in Nat /\ e.seq > db.lastSeq
      /\ \A e \in Stored \cup Logged : e.seq \in Nat /\ e.seq <= db.lastSeq
      /\ db.lastSeq \in Nat
  <2>1. stage \notin InLog
    BY <1>3 DEF InLog
  <2>2. SeqBounds
    BY DEF EntriesInv
  <2>3. \A e \in GroupEntries : e.seq \in db.lastSeq + 1..db.lastSeq + group
    BY <1>2, GroupEntriesFinite, FileTypes DEF TypeInv
  <2>4. db.lastSeq \in Nat /\ group \in Nat
    BY <1>2, FileTypes DEF TypeInv, WritersType
  <2> QED BY <1>4, <2>1, <2>2, <2>3, <2>4, KnownTypes DEF SeqBounds
<1>8. /\ Current \subseteq Stored /\ Manifested \subseteq Stored
      /\ \A n \in LiveLogs : LogEntries(logs[n]) \subseteq Logged
  BY DEF Current, Manifested, Stored, Contents, Held, Logged
<1>9. LiveLogs' = LiveLogs /\ LiveLogs \subseteq DOMAIN logs
      /\ Current' = Current /\ Manifested' = Manifested
  BY <1>3 DEF LiveLogs, LogStart, Current, Manifested
<1> HIDE DEF l
<1>10. ASSUME NEW n \in DOMAIN logs
       PROVE  /\ LogEntries(logs[n]) \subseteq LogEntries(logs'[n])
              /\ LogEntries(logs'[n]) \subseteq LogEntries(logs[n]) \cup GroupEntries
              /\ n # l => LogEntries(logs'[n]) = LogEntries(logs[n])
  BY <1>3, <1>6
<1>11. LogOrder'
  <2> SUFFICES ASSUME NEW n \in LiveLogs, NEW m \in LiveLogs, n < m
               PROVE  Newer(LogEntries(logs'[m]), LogEntries(logs'[n]))
    BY <1>9 DEF LogOrder
  <2>1. n # l
    BY <1>4, <1>9
  <2>2. Newer(LogEntries(logs[m]), LogEntries(logs[n])) /\ Newer(GroupEntries, LogEntries(logs[n]))
    BY <1>1, <1>7, <1>8 DEF LogOrder, Newer
  <2> QED BY <1>9, <1>10, <2>1, <2>2 DEF Newer
<1>12. LogsAbove'
  <2>1. Newer(GroupEntries, Current) /\ Newer(GroupEntries, Manifested)
    BY <1>7, <1>8 DEF Newer
  <2>2. \A n \in LiveLogs : Newer(LogEntries(logs'[n]), Current)
    BY <1>1, <1>9, <1>10, <2>1 DEF LogsAbove, Newer
  <2>3. \A n \in DOMAIN logs : n >= manifest.log => Newer(LogEntries(logs'[n]), Manifested)
    BY <1>1, <1>10, <2>1 DEF LogsAbove, Newer
  <2> QED BY <1>3, <1>9, <2>2, <2>3 DEF LogsAbove
<1>13. MemoryLogs'
  <2>1. db.logNumber \in DOMAIN logs
    BY <1>1, <1>4 DEF MemoryLogs
  <2>2. stage' # "written" /\ GroupEntries' \subseteq LogEntries(logs'[l])
    BY <1>5, <1>6 DEF AddRecord
  <2> QED BY <1>1, <1>3, <1>4, <1>9, <1>10, <2>1, <2>2 DEF MemoryLogs, l
<1>14. BgMakes'
  BY <1>1, <1>3, BgStays
<1> QED BY <1>11, <1>12, <1>13, <1>14

(* What is inserted is in the log. *)
LEMMA InsertIntoMemory ==
  ASSUME FilesInv, FilesInv', EntriesInv, [Next]_vars, MemoryInv, Quiet, InsertInto
  PROVE  MemoryInv'
<1> SUFFICES ASSUME ~repeated'
             PROVE  LogOrder' /\ LogsAbove' /\ MemoryLogs' /\ BgMakes'
  BY DEF MemoryInv, BgMakes
<1>1. ~repeated /\ LogOrder /\ LogsAbove /\ MemoryLogs /\ BgMakes
  BY HeldStay DEF MemoryInv, BgMakes
<1>2. TypeInv
  BY DEF FilesInv
<1>3. /\ UNCHANGED <<tables, logs, manifest, bg, iterator, committed, queue, group>>
      /\ stage = "insert" /\ stage' = "written"
      /\ db' = [db EXCEPT !.mem = @ \cup GroupEntries]
  BY DEF InsertInto, disk, history
<1>4. db'.mem = db.mem \cup GroupEntries /\ db'.lastSeq = db.lastSeq
      /\ db'.imm = db.imm /\ db'.status = db.status /\ db'.version = db.version
      /\ db'.logNumber = db.logNumber /\ db'.logfile = db.logfile
  BY <1>2, <1>3 DEF TypeInv, DbType, Dbs, Quiet
<1>5. db.status = "open"
  <2>1. db.status # "closed" /\ queue # <<>>
    BY <1>2, <1>3 DEF TypeInv, StatusInv, WritersType, Writing
  <2> QED BY <1>2, <2>1 DEF TypeInv, StatusInv
<1>6. GroupEntries' = GroupEntries
  BY <1>3, <1>4, SameGroup
<1>7. LiveLogs' = LiveLogs /\ Current' = Current /\ Manifested' = Manifested
  BY <1>3, <1>4 DEF LiveLogs, LogStart, Current, Manifested
<1>8. LogOrder' /\ LogsAbove'
  BY <1>1, <1>3, <1>7 DEF LogOrder, LogsAbove
<1>9. MemoryLogs'
  BY <1>1, <1>3, <1>4, <1>5, <1>6, <1>7 DEF MemoryLogs, InLog
<1>10. BgMakes'
  BY <1>1, <1>3, <1>4, BgStays
<1> QED BY <1>8, <1>9, <1>10

(* A new log is empty, and the one before it becomes the immutable table's. *)
LEMMA SwitchesMemory ==
  ASSUME FilesInv, FilesInv', EntriesInv, [Next]_vars, MemoryInv, Switches
  PROVE  MemoryInv'
<1> SUFFICES ASSUME ~repeated'
             PROVE  LogOrder' /\ LogsAbove' /\ MemoryLogs' /\ BgMakes'
  BY DEF MemoryInv, BgMakes
<1>1. ~repeated /\ LogOrder /\ LogsAbove /\ MemoryLogs /\ BgMakes
  BY HeldStay DEF MemoryInv, BgMakes
<1>2. TypeInv /\ NumbersInv
  BY DEF FilesInv
<1> DEFINE l == db.logfile
           k == db.nextFile
<1>3. /\ db.status = "open" /\ db.imm = {}
      /\ db'.status = db.status /\ db'.version = db.version /\ db'.logNumber = db.logNumber
      /\ db'.mem = {} /\ db'.imm = db.mem /\ db'.logfile = k
      /\ logs' = With(logs, k, EmptyLog)
      /\ bg'.edit = bg.edit /\ bg'.compaction = bg.compaction /\ stage' = "append"
      /\ db.mem # {}
      /\ UNCHANGED <<tables, manifest, iterator>>
  BY DEF Switches
<1>4. /\ l \in DOMAIN logs /\ \A n \in DOMAIN logs : n <= l /\ n \in Nat
      /\ l < k /\ l \in Nat /\ k \in Nat /\ db.logNumber = l
  BY <1>1, <1>2, <1>3, FileTypes DEF NumbersInv, TypeInv, StatusInv, MemoryLogs
<1>5. /\ DOMAIN logs' = DOMAIN logs \cup {k} /\ logs'[k] = EmptyLog
      /\ \A n \in DOMAIN logs : n # k /\ logs'[n] = logs[n]
  BY <1>3, <1>4 DEF With
<1>6. LogEntries(logs'[k]) = {}
  BY <1>5 DEF LogEntries, FirstEntries, EmptyLog
<1>7. Current' = Current /\ Manifested' = Manifested
  BY <1>3 DEF Current, Manifested
<1> HIDE DEF l, k
<1>8. /\ LiveLogs' = LiveLogs \cup {k}
      /\ \A n \in LiveLogs : n \in DOMAIN logs
  BY <1>3, <1>4, <1>5 DEF LiveLogs, LogStart
<1>9. LogOrder'
  BY <1>1, <1>4, <1>5, <1>6, <1>8 DEF LogOrder, Newer
<1>10. LogsAbove'
  BY <1>1, <1>3, <1>4, <1>5, <1>6, <1>7, <1>8 DEF LogsAbove, Newer
<1>11. MemoryLogs'
  <2>1. \A n \in LiveLogs : n = l
    BY <1>1, <1>3, <1>4 DEF MemoryLogs, l
  <2>2. db.mem \subseteq LogEntries(logs[l])
    BY <1>1, <1>3 DEF MemoryLogs, l
  <2>3. stage' \notin InLog /\ stage' # "written"
    BY <1>3 DEF InLog
  <2> QED BY <1>3, <1>4, <1>5, <1>8, <2>1, <2>2, <2>3 DEF MemoryLogs
<1>12. BgMakes'
  <2>1. ASSUME bg.edit # None PROVE EditMakes(bg.edit)'
    <3>1. EditMakes(bg.edit) /\ bg.edit.kind # "flush"
      BY <1>1, <1>3, <2>1 DEF BgMakes, EditMakes
    <3>2. bg'.edit = bg.edit /\ bg'.compaction = bg.compaction /\ db'.version = db.version
          /\ db'.logNumber = db.logNumber
      BY <1>3
    <3> QED BY <3>1, <3>2 DEF EditMakes
  <2>2. ASSUME bg.compaction # None PROVE Builds(bg.compaction)'
    <3>1. Builds(bg.compaction)
      BY <1>1, <2>2 DEF BgMakes
    <3> QED BY <1>3, <2>2, <3>1, BuildsStay
  <2> QED BY <1>3, <2>1, <2>2 DEF BgMakes
<1> QED BY <1>9, <1>10, <1>11, <1>12

(* While writers, logs and versions are left alone the memory tables are what they were. *)
LEMMA LeftAlone ==
  ASSUME FilesInv, FilesInv', EntriesInv, [Next]_vars, MemoryInv,
         UNCHANGED <<logs, manifest, queue, stage, group>>, db'.lastSeq = db.lastSeq,
         db'.status = db.status, db'.mem = db.mem, db'.imm = db.imm, db'.version = db.version,
         db'.logNumber = db.logNumber, db'.logfile = db.logfile, ~repeated'
  PROVE  LogOrder' /\ LogsAbove' /\ MemoryLogs'
<1>1. ~repeated /\ LogOrder /\ LogsAbove /\ MemoryLogs
  BY HeldStay DEF MemoryInv
<1>2. GroupEntries' = GroupEntries
  BY SameGroup
<1>3. SameMemory
  BY <1>2 DEF SameMemory
<1> QED BY <1>1, <1>3, SameMemoryKeeps

(* A flush makes a table of the immutable memory table, which its edit adds. *)
LEMMA FlushesMemory ==
  ASSUME FilesInv, FilesInv', EntriesInv, [Next]_vars, MemoryInv, NEW level, Flushes(level)
  PROVE  MemoryInv'
<1> SUFFICES ASSUME ~repeated'
             PROVE  LogOrder' /\ LogsAbove' /\ MemoryLogs' /\ BgMakes'
  BY DEF MemoryInv, BgMakes
<1>1. ~repeated /\ BgMakes
  BY HeldStay DEF MemoryInv, BgMakes
<1>2. LogOrder' /\ LogsAbove' /\ MemoryLogs'
  BY LeftAlone DEF Flushes, SameVersion, writers
<1> DEFINE k == db.nextFile
<1>3. /\ bg'.edit # None => bg'.edit.kind = "flush" /\ bg'.edit.log = db'.logfile
                             /\ bg'.edit.deletes = {} /\ bg'.edit.adds = {<<level, k>>}
      /\ level \in Levels /\ db'.imm = db.imm /\ db.imm # {}
      /\ tables' = With(tables, k, db.imm)
      /\ bg'.compaction = bg.compaction
  BY DEF Flushes, SameVersion
<1>4. k \in DOMAIN tables' /\ tables'[k] = db'.imm
  BY <1>3 DEF With
<1> HIDE DEF k
<1>5. bg'.edit # None => EditMakes(bg.edit)'
  BY <1>3, <1>4 DEF EditMakes
<1>6. ASSUME bg.compaction # None PROVE Builds(bg.compaction)'
  BY <1>1, <1>3, <1>6, BuildsStay DEF BgMakes
<1> QED BY <1>2, <1>3, <1>5, <1>6 DEF BgMakes

(* A move to the next level keeps what the logs and the memory tables hold. *)
LEMMA MovesMemory ==
  ASSUME FilesInv, FilesInv', EntriesInv, [Next]_vars, MemoryInv, NEW level, NEW inputs,
         Moves(level, inputs)
  PROVE  MemoryInv'
<1> SUFFICES ASSUME ~repeated'
             PROVE  LogOrder' /\ LogsAbove' /\ MemoryLogs' /\ BgMakes'
  BY DEF MemoryInv, BgMakes
<1>1. LogOrder' /\ LogsAbove' /\ MemoryLogs'
  BY LeftAlone DEF Moves, disk, writers
<1>2. /\ bg'.edit.kind = "move" /\ bg'.edit.log = db'.logNumber
      /\ bg'.edit.adds = {<<level + 1, n>> : n \in inputs.upper}
      /\ bg'.edit.deletes = {<<level, n>> : n \in inputs.upper}
      /\ level \in 0..MaxLevel - 1 /\ db' = db /\ bg'.compaction = None
      /\ Cardinality(inputs.upper) = 1
  BY DEF Moves
<1>3. db.version \in Files
  BY FileTypes DEF FilesInv
<1>4. inputs.upper \in SUBSET db.version[level] /\ IsFiniteSet(inputs.upper)
  <2>1. PICK n \in db.version[level] : inputs \in Inputs(tables, db.version, level, {n})
    BY DEF Moves
  <2>2. level \in Levels
    BY <1>2, LevelsAssumption DEF Levels
  <2>3. {n} \in SUBSET db.version[level]
    OBVIOUS
  <2>4. inputs.upper \in SUBSET db.version[level] /\ inputs.upper \in FiniteParts(Nat)
    BY <1>2, <1>3, <2>1, <2>3, InputFiles
  <2> QED BY <2>4 DEF FiniteParts
<1>5. PICK n \in db.version[level] : inputs.upper = {n}
  <2>1. \E n : inputs.upper = {n}
    BY <1>2, <1>4, FS_Singleton
  <2> QED BY <1>4, <2>1
<1>6. bg'.edit.adds = {<<level + 1, n>>} /\ bg'.edit.deletes = {<<level, n>>}
  BY <1>2, <1>5
<1>7. EditMakes(bg.edit)'
  BY <1>2, <1>6 DEF EditMakes
<1> QED BY <1>1, <1>2, <1>7 DEF BgMakes

(* The edit of a compaction keeps what the logs and the memory tables hold. *)
LEMMA CompactsMemory ==
  ASSUME FilesInv, FilesInv', EntriesInv, [Next]_vars, MemoryInv, Compacts
  PROVE  MemoryInv'
<1> SUFFICES ASSUME ~repeated'
             PROVE  LogOrder' /\ LogsAbove' /\ MemoryLogs' /\ BgMakes'
  BY DEF MemoryInv, BgMakes
<1>1. LogOrder' /\ LogsAbove' /\ MemoryLogs'
  BY LeftAlone DEF Compacts, disk, writers
<1>2. ~repeated /\ BgMakes
  BY HeldStay DEF MemoryInv, BgMakes
<1>3. EditMakes(bg.edit)'
  BY DEF Compacts, EditMakes
<1>4. Builds(bg.compaction)'
  BY <1>2, BuildsStay DEF BgMakes, Compacts
<1> QED BY <1>1, <1>3, <1>4 DEF BgMakes

(* The pick of a compaction keeps what the logs and the memory tables hold. *)
LEMMA PicksMemory ==
  ASSUME FilesInv, FilesInv', EntriesInv, [Next]_vars, MemoryInv, NEW level, NEW inputs,
         Picks(level, inputs)
  PROVE  MemoryInv'
<1> SUFFICES ASSUME ~repeated'
             PROVE  LogOrder' /\ LogsAbove' /\ MemoryLogs' /\ BgMakes'
  BY DEF MemoryInv, BgMakes
<1>1. LogOrder' /\ LogsAbove' /\ MemoryLogs'
  BY LeftAlone DEF Picks, disk, writers
<1>2. bg'.edit = None /\ bg'.compaction.built = FALSE
  BY DEF Picks
<1>3. Builds(bg.compaction)'
  BY <1>2 DEF Builds
<1> QED BY <1>1, <1>2, <1>3 DEF BgMakes

(* What a compaction builds has what survives of its inputs. *)
LEMMA WorksMemory ==
  ASSUME FilesInv, FilesInv', EntriesInv, [Next]_vars, MemoryInv,
         NEW first, NEW rest, NEW numbers, Works(first, rest, numbers)
  PROVE  MemoryInv'
<1> SUFFICES ASSUME ~repeated'
             PROVE  LogOrder' /\ LogsAbove' /\ MemoryLogs' /\ BgMakes'
  BY DEF MemoryInv, BgMakes
<1>1. LogOrder' /\ LogsAbove' /\ MemoryLogs'
  BY LeftAlone DEF Works, SameVersion, writers
<1> DEFINE c == bg.compaction
           d == bg'.compaction
           k == db.nextFile
           T == tables'
<1>2. /\ IsCompaction(c) /\ d.level = c.level /\ d.upper = c.upper /\ d.lower = c.lower
      /\ d.version = c.version /\ d.snapshot = c.snapshot /\ d.outputs = numbers
      /\ first \cup rest = Survivors(c) /\ c # None
      /\ \A m \in numbers : m = k \/ m = k + 1
      /\ k \in numbers <=> first # {}
      /\ k + 1 \in numbers <=> rest # {}
      /\ first # {} => T[k] = first
      /\ rest # {} => T[k + 1] = rest
      /\ \A m \in DOMAIN tables \ numbers : T[m] = tables[m]
      /\ bg'.edit = None /\ db.status = "open"
  BY DEF Works
<1>3. Contents(T, numbers) = Survivors(c)
  <2> HIDE DEF T, c, k
  <2>1. \A e : e \in Contents(T, numbers) <=> \E n \in numbers : e \in T[n]
    BY ContentsOf
  <2>2. \A e : (\E n \in numbers : e \in T[n]) <=> e \in first \/ e \in rest
    BY <1>2
  <2> QED BY <1>2, <2>1, <2>2
<1>4. \A n \in Numbers(c.version) : T[n] = tables[n]
  <2>1. \A n \in Numbers(c.version) : n \in DOMAIN tables /\ n \in Nat /\ n < k
    BY <1>2, HeldVersions, HeldOnDisk DEF FilesInv
  <2>2. k \in Nat
    BY FileTypes DEF FilesInv
  <2> HIDE DEF T, c, k
  <2> QED BY <1>2, <2>1, <2>2
<1> HIDE DEF c, d, k, T
<1>5. c.upper \subseteq Numbers(c.version) /\ c.lower \subseteq Numbers(c.version)
      /\ \A l \in Levels : c.version[l] \subseteq Numbers(c.version)
  BY <1>2, LevelsAssumption DEF IsCompaction, Compactions, Numbers, Levels
<1>6. Contents(T, c.upper \cup c.lower) = Contents(tables, c.upper \cup c.lower)
  BY <1>4, <1>5 DEF Contents
<1>7. \A key : IsBaseLevelForKey(T, c.version, c.level, key) <=> IsBaseLevelForKey(tables, c.version, c.level, key)
  <2>1. \A l \in c.level + 2..MaxLevel : l \in Levels
    BY <1>2, LevelsAssumption DEF IsCompaction, Compactions, Levels
  <2> QED BY <1>4, <1>5, <2>1 DEF IsBaseLevelForKey
<1>8. \A E : Dropped(T, c.version, c.level, E, c.snapshot) = Dropped(tables, c.version, c.level, E, c.snapshot)
  BY <1>7 DEF Dropped, ObsoleteDeletions
<1>9. Survivors(c) = Contents(T, c.upper \cup c.lower)
             \ Dropped(T, c.version, c.level, Contents(T, c.upper \cup c.lower), c.snapshot)
  BY <1>6, <1>8 DEF Survivors
<1>10. Contents(T, d.outputs) = Contents(T, d.upper \cup d.lower)
             \ Dropped(T, d.version, d.level, Contents(T, d.upper \cup d.lower), d.snapshot)
  BY <1>2, <1>3, <1>9
<1>11. Builds(bg.compaction)'
  BY <1>10 DEF Builds, Survivors, d, T
<1> QED BY <1>1, <1>2, <1>11 DEF BgMakes

(* The logs that an edit leaves are newer than what it leaves in tables. *)
LEMMA EditOlder ==
  ASSUME FilesInv, EntriesInv, OrderInv, MemoryInv, ~repeated, bg.edit # None
  PROVE  \A n \in DOMAIN logs : n >= bg.edit.log => Newer(LogEntries(logs[n]), AfterEdit)
<1> SUFFICES ASSUME NEW n \in DOMAIN logs, n >= bg.edit.log
             PROVE  Newer(LogEntries(logs[n]), AfterEdit)
  OBVIOUS
<1> DEFINE edit == bg.edit
<1>1. TypeInv /\ NumbersInv /\ LogOrder /\ LogsAbove /\ MemoryLogs /\ EditMakes(edit)
  BY DEF FilesInv, MemoryInv
<1>2. /\ db.status # "closed" /\ n \in Nat /\ db.logNumber \in Nat /\ db.logfile \in Nat
      /\ n <= db.logfile /\ db.logNumber <= edit.log /\ edit.log \in Nat
      /\ db.logfile \in DOMAIN logs
      /\ edit.kind = "open" <=> db.status = "opening"
      /\ db.status = "opening" => edit.log = db.logfile
  <2>1. db.status # "closed"
    BY <1>1 DEF TypeInv, StatusInv, Resting
  <2>2. db.status \in {"open", "opening"}
    BY <1>1, <2>1 DEF TypeInv, DbType, Dbs, Statuses
  <2> QED BY <1>1, <2>1, <2>2, FileTypes DEF TypeInv, StatusInv, NumbersInv
<1>3. n \in LiveLogs /\ LogStart = db.logNumber
  BY <1>2 DEF LiveLogs, LogStart
<1>4. Newer(LogEntries(logs[n]), Current)
  BY <1>1, <1>3 DEF LogsAbove
<1>5. edit.kind \in {"open", "flush", "move", "compact"}
  BY <1>1, FileTypes DEF IsEdit, Edits
<1>6. CASE edit.kind = "flush"
  <2>1. edit.log = db.logfile /\ db.imm # {} /\ AfterEdit = Current \cup db.imm
    BY <1>1, <1>6, FlushContents DEF EditMakes
  <2>2. n = db.logfile /\ db.status = "open"
    BY <1>2, <2>1, <1>1, <1>6 DEF TypeInv, DbType, Dbs, Statuses
  <2>3. db.logNumber < n /\ db.logNumber \in LiveLogs /\ db.imm \subseteq LogEntries(logs[db.logNumber])
    BY <1>1, <1>2, <1>3, <2>1, <2>2 DEF MemoryLogs, LiveLogs
  <2>4. Newer(LogEntries(logs[n]), LogEntries(logs[db.logNumber]))
    BY <1>1, <1>3, <2>3 DEF LogOrder
  <2> QED BY <1>4, <2>1, <2>3, <2>4 DEF Newer
<1>7. CASE edit.kind = "move"
  BY <1>1, <1>4, <1>7, MoveContents
<1>8. CASE edit.kind = "compact"
  <2>1. bg.compaction # None
    BY <1>1, <1>8 DEF TypeInv, BgType
  <2>2. Builds(bg.compaction) /\ Fits(tables, db.version, bg.compaction)
    BY <2>1 DEF MemoryInv, OrderInv, CompactionOrder
  <2>3. AfterEdit \subseteq Current
    BY <1>1, <1>8, <2>2, CompactContents
  <2> QED BY <1>4, <2>3 DEF Newer
<1>9. CASE edit.kind = "open"
  <2>1. n = db.logfile /\ LogEntries(logs[n]) = {}
    BY <1>1, <1>2, <1>9 DEF MemoryLogs
  <2> QED BY <2>1 DEF Newer
<1> QED BY <1>5, <1>6, <1>7, <1>8, <1>9

(* A write of the MANIFEST keeps what the logs and the memory tables hold. *)
LEMMA AppendsMemory ==
  ASSUME FilesInv, FilesInv', EntriesInv, OrderInv, [Next]_vars, MemoryInv, Appends
  PROVE  MemoryInv'
<1> SUFFICES ASSUME ~repeated'
             PROVE  LogOrder' /\ LogsAbove' /\ MemoryLogs' /\ BgMakes'
  BY DEF MemoryInv, BgMakes
<1>1. ~repeated /\ LogOrder /\ LogsAbove /\ MemoryLogs /\ BgMakes
  BY HeldStay DEF MemoryInv, BgMakes
<1>2. /\ UNCHANGED <<tables, logs, db, queue, stage, group>>
      /\ bg.edit # None /\ bg'.edit # None /\ bg'.compaction = bg.compaction
  BY DEF Appends, writers
<1>3. db.status # "closed"
  BY <1>2 DEF FilesInv, TypeInv, StatusInv, Resting
<1>4. LiveLogs' = LiveLogs /\ Current' = Current /\ GroupEntries' = GroupEntries
  BY <1>2, <1>3, SameGroup DEF LiveLogs, LogStart, Current
<1>5. \/ manifest' = manifest
      \/ manifest'.log = bg.edit.log /\ Manifested' = AfterEdit
  <2>1. CASE AppendEdit
    <3>1. manifest.files = db.version
      BY <2>1 DEF AppendEdit
    <3>2. manifest'.log = bg.edit.log /\ manifest'.files = Applied(db.version, bg.edit)
      BY <2>1, <3>1 DEF AppendEdit
    <3> QED BY <1>2, <3>2 DEF Manifested, AfterEdit
  <2>2. CASE manifest' = manifest
    BY <2>2
  <2> QED BY <2>1, <2>2 DEF Appends
<1>6. \A n \in DOMAIN logs : n >= manifest'.log => Newer(LogEntries(logs[n]), Manifested')
  <2>1. CASE manifest' = manifest
    <3>1. Manifested' = Manifested
      BY <1>2, <2>1 DEF Manifested
    <3> QED BY <1>1, <2>1, <3>1 DEF LogsAbove
  <2>2. CASE manifest'.log = bg.edit.log /\ Manifested' = AfterEdit
    BY <1>1, <1>2, <2>2, EditOlder
  <2> QED BY <1>5, <2>1, <2>2
<1>7. LogOrder' /\ LogsAbove' /\ MemoryLogs'
  BY <1>1, <1>2, <1>4, <1>6 DEF LogOrder, LogsAbove, MemoryLogs
<1>8. EditMakes(bg.edit)'
  <2>1. /\ bg'.edit.kind = bg.edit.kind /\ bg'.edit.adds = bg.edit.adds
        /\ bg'.edit.deletes = bg.edit.deletes /\ bg'.edit.log = bg.edit.log
    BY DEF Appends
  <2>2. EditMakes(bg.edit)
    BY <1>1, <1>2 DEF BgMakes
  <2> QED BY <1>2, <2>1, <2>2 DEF EditMakes
<1>9. ASSUME bg.compaction # None PROVE Builds(bg.compaction)'
  BY <1>1, <1>2, <1>9, BuildsStay DEF BgMakes
<1> QED BY <1>2, <1>7, <1>8, <1>9 DEF BgMakes

(* An edit's end keeps what the logs and the memory tables hold. *)
LEMMA InstallsMemory ==
  ASSUME FilesInv, FilesInv', EntriesInv, OrderInv, [Next]_vars, MemoryInv, Installs
  PROVE  MemoryInv'
<1> SUFFICES ASSUME ~repeated'
             PROVE  LogOrder' /\ LogsAbove' /\ MemoryLogs' /\ BgMakes'
  BY DEF MemoryInv, BgMakes
<1> DEFINE edit == bg.edit
<1>1. ~repeated /\ LogOrder /\ LogsAbove /\ MemoryLogs /\ BgMakes /\ EditMakes(edit)
  BY HeldStay DEF MemoryInv, BgMakes, Installs
<1>2. TypeInv /\ NumbersInv
  BY DEF FilesInv
<1>3. /\ edit # None /\ db.status # "closed" /\ db'.status = "open" /\ manifest' = manifest
      /\ edit.kind = "open" <=> db.status = "opening"
      /\ db'.version = Applied(db.version, edit) /\ db'.logNumber = edit.log
      /\ db'.imm = (IF edit.kind = "flush" THEN {} ELSE db.imm)
      /\ db'.mem = db.mem /\ db'.logfile = db.logfile /\ db'.lastSeq = db.lastSeq
      /\ bg'.edit = None
      /\ bg'.compaction = (IF edit.kind = "flush" THEN bg.compaction ELSE None)
      /\ queue' = queue /\ group' = group
      /\ (stage' = stage \/ (stage = "waiting" /\ stage' = "front"))
  BY DEF Installs
<1>4. /\ DOMAIN logs' \subseteq DOMAIN logs
      /\ \A n \in DOMAIN logs' : logs'[n] = logs[n]
      /\ \A n \in DOMAIN logs : n >= edit.log => n \in DOMAIN logs'
  <2>1. CASE UNCHANGED <<tables, logs>>
    BY <2>1
  <2>2. CASE DeleteObsoleteFiles(db', bg'.compaction)
    BY <1>2, <1>3, <2>2, DeletedTypes DEF TypeInv
  <2> QED BY <2>1, <2>2 DEF Installs
<1>5. /\ db.logNumber \in Nat /\ db.logfile \in Nat /\ edit.log \in Nat
      /\ db.logfile \in DOMAIN logs /\ db.logNumber <= edit.log /\ edit.log <= db.logfile
      /\ \A n \in DOMAIN logs : n \in Nat /\ n <= db.logfile
      /\ db.status = "opening" => edit.log = db.logfile
  BY <1>2, <1>3, FileTypes DEF TypeInv, StatusInv, NumbersInv
<1>6. LiveLogs' = {n \in DOMAIN logs : n >= edit.log} /\ LiveLogs' \subseteq LiveLogs
  BY <1>3, <1>4, <1>5 DEF LiveLogs, LogStart
<1>7. Current' = AfterEdit /\ Manifested' = Manifested
  BY <1>3, VersionsStay
<1>8. GroupEntries' = GroupEntries
  BY <1>3, SameGroup
<1>9. \A n \in LiveLogs' : n \in DOMAIN logs /\ n \in DOMAIN logs' /\ logs'[n] = logs[n]
  BY <1>4, <1>6
<1>10. LogOrder'
  BY <1>1, <1>6, <1>9 DEF LogOrder
<1>11. LogsAbove'
  <2>1. \A n \in LiveLogs' : Newer(LogEntries(logs[n]), AfterEdit)
    BY <1>1, <1>3, <1>6, EditOlder
  <2>2. \A n \in DOMAIN logs' : n >= manifest.log => Newer(LogEntries(logs'[n]), Manifested)
    BY <1>1, <1>4 DEF LogsAbove
  <2> QED BY <1>3, <1>7, <1>9, <2>1, <2>2 DEF LogsAbove
<1> HIDE DEF edit
<1>12. /\ db.logfile \in DOMAIN logs' /\ logs'[db.logfile] = logs[db.logfile]
       /\ edit.log \in DOMAIN logs => edit.log \in DOMAIN logs' /\ logs'[edit.log] = logs[edit.log]
  BY <1>4, <1>5
<1>13. /\ \A n \in LiveLogs' : n = edit.log \/ n = db.logfile
       /\ edit.log \in DOMAIN logs
       /\ db'.imm = {} => edit.log = db.logfile
       /\ db'.imm # {} => edit.log < db.logfile
       /\ db.mem \subseteq LogEntries(logs[db.logfile])
       /\ db'.imm \subseteq LogEntries(logs[edit.log])
  <2>1. edit.kind \in {"open", "flush", "move", "compact"}
    BY <1>2, <1>3, FileTypes DEF IsEdit, Edits, edit
  <2>2. CASE db.status = "opening"
    <3>1. db.mem = {} /\ db.imm = {} /\ edit.log = db.logfile
      BY <1>1, <1>5, <2>2 DEF MemoryLogs
    <3> QED BY <1>3, <1>5, <1>6, <3>1
  <2>3. CASE db.status = "open" /\ edit.kind = "flush"
    <3>1. edit.log = db.logfile /\ db'.imm = {}
      BY <1>1, <1>3, <2>3 DEF EditMakes
    <3> QED BY <1>1, <1>5, <1>6, <2>3, <3>1 DEF MemoryLogs
  <2>4. CASE db.status = "open" /\ edit.kind \in {"move", "compact"}
    <3>1. edit.log = db.logNumber /\ db'.imm = db.imm
      BY <1>1, <1>3, <2>4 DEF EditMakes
    <3> QED BY <1>1, <1>6, <2>4, <3>1 DEF MemoryLogs
  <2>5. db.status \in {"open", "opening"}
    BY <1>2, <1>3 DEF TypeInv, DbType, Dbs, Statuses
  <2> QED BY <1>3, <2>1, <2>2, <2>3, <2>4, <2>5
<1>14. /\ stage' \in InLog => GroupEntries' \subseteq LogEntries(logs'[db'.logfile])
       /\ stage' = "written" => GroupEntries' \subseteq db'.mem
  BY <1>1, <1>3, <1>8, <1>12 DEF MemoryLogs, InLog
<1>15. MemoryLogs'
  BY <1>3, <1>12, <1>13, <1>14 DEF MemoryLogs
<1>16. ASSUME bg'.compaction # None PROVE Builds(bg.compaction)'
  <2>1. bg'.compaction = bg.compaction /\ bg.compaction # None
    BY <1>3, <1>16
  <2> QED BY <1>1, <2>1, BuildsStay DEF BgMakes
<1> QED BY <1>3, <1>10, <1>11, <1>15, <1>16 DEF BgMakes

(* A crash or a failed opening keeps what the logs and the memory tables hold. *)
LEMMA ClosesMemory ==
  ASSUME FilesInv, EntriesInv, MemoryInv, Closes,
         \A n \in DOMAIN logs : LogEntries(logs'[n]) \subseteq LogEntries(logs[n])
  PROVE  MemoryInv'
<1> SUFFICES ASSUME ~repeated'
             PROVE  LogOrder' /\ LogsAbove' /\ MemoryLogs' /\ BgMakes'
  BY DEF MemoryInv, BgMakes
<1>1. ~repeated /\ LogOrder /\ LogsAbove
  BY DEF MemoryInv, Closes
<1>2. /\ db'.status = "closed" /\ db'.mem = {} /\ db'.imm = {} /\ db'.version = NoTables
      /\ bg'.edit = None /\ bg'.compaction = None /\ stage' = "front"
      /\ DOMAIN logs' = DOMAIN logs /\ UNCHANGED <<tables, manifest>>
  BY DEF Closes
<1>3. Current' = {} /\ Manifested' = Manifested
  <2>1. Current' = Contents(tables', Numbers(NoTables))
    BY <1>2 DEF Current
  <2> QED BY <1>2, <2>1, ClosedTypes DEF Contents, Manifested
<1>4. /\ LiveLogs' = {n \in DOMAIN logs : n >= manifest.log}
      /\ LiveLogs' \subseteq LiveLogs
  <2>1. /\ manifest.log \in Nat /\ db.logNumber \in Nat
        /\ \A n \in DOMAIN logs : n \in Nat
        /\ db.status # "closed" => db.logNumber <= manifest.log
    BY FileTypes DEF FilesInv, NumbersInv
  <2> QED BY <1>2, <2>1 DEF LiveLogs, LogStart
<1>5. LogOrder' /\ LogsAbove'
  BY <1>1, <1>2, <1>3, <1>4, LogsSame
<1>6. MemoryLogs'
  BY <1>2 DEF MemoryLogs, InLog
<1> QED BY <1>2, <1>5, <1>6 DEF BgMakes

(* A crash keeps what the logs and the memory tables hold. *)
LEMMA CrashesMemory ==
  ASSUME FilesInv, EntriesInv, MemoryInv, Closes, NEW lengths, Keeps(lengths)
  PROVE  MemoryInv'
<1>1. \A n \in DOMAIN logs : LogEntries(logs'[n]) \subseteq LogEntries(logs[n])
  <2> SUFFICES ASSUME NEW n \in DOMAIN logs
               PROVE  LogEntries(logs'[n]) \subseteq LogEntries(logs[n])
    OBVIOUS
  <2>1. lengths[n] \in 0..Len(logs[n].records) /\ LogEntries(logs'[n]) = FirstEntries(logs[n], lengths[n])
    BY DEF Keeps
  <2>2. logs[n].records \in Seq(EntrySets)
    BY DEF FilesInv, TypeInv, LogsType, Logs
  <2>3. 1..lengths[n] \subseteq 1..Len(logs[n].records)
    BY <2>1, <2>2
  <2> QED BY <2>1, <2>3 DEF LogEntries, FirstEntries
<1> QED BY <1>1, ClosesMemory

(* A failed opening keeps what the logs and the memory tables hold. *)
LEMMA FailsToOpenMemory ==
  ASSUME FilesInv, EntriesInv, MemoryInv, FailsToOpen
  PROVE  MemoryInv'
BY ClosesMemory DEF FailsToOpen

(* Recovery begins a log, and reads the version of the MANIFEST. *)
LEMMA RecoversMemory ==
  ASSUME FilesInv, EntriesInv, MemoryInv, NEW order, NEW full, NEW next, Recovers(order, full, next)
  PROVE  MemoryInv'
<1> SUFFICES ASSUME ~repeated'
             PROVE  LogOrder' /\ LogsAbove' /\ MemoryLogs' /\ BgMakes'
  BY DEF MemoryInv, BgMakes
<1> DEFINE new == next[Len(order)]
<1>1. /\ db.status = "closed" /\ db'.status = "opening" /\ manifest' = manifest
      /\ new \in Nat /\ manifest.next < new
      /\ \A i \in 1..Len(order) : order[i] < new
      /\ \A n \in RecoverableLogs(logs) : \E i \in 1..Len(order) : order[i] = n
      /\ logs' = With(logs, new, EmptyLog)
      /\ db'.version = manifest.files /\ db'.logNumber = manifest.log /\ db'.logfile = new
      /\ db'.mem = {} /\ db'.imm = {}
      /\ bg'.edit.kind = "open" /\ bg'.edit.deletes = {} /\ bg'.compaction = None
      /\ UNCHANGED <<queue, stage, group>>
  BY DEF Recovers, writers
<1>2. ~repeated /\ LogOrder /\ LogsAbove
  BY DEF MemoryInv, Recovers, history
<1>3. /\ LiveLogs = {n \in DOMAIN logs : n >= manifest.log}
      /\ LiveLogs' = {n \in DOMAIN logs' : n >= manifest.log}
  BY <1>1 DEF LiveLogs, LogStart
<1>4. \A n \in LiveLogs : n < new
  BY <1>1, <1>3 DEF RecoverableLogs
<1>5. /\ DOMAIN logs' = DOMAIN logs \cup {new} /\ logs'[new] = EmptyLog
      /\ \A n \in DOMAIN logs : n # new => logs'[n] = logs[n]
  BY <1>1 DEF With
<1>6. LogEntries(logs'[new]) = {}
  BY <1>5 DEF LogEntries, FirstEntries, EmptyLog
<1>7. /\ new \in Nat /\ DOMAIN logs \subseteq Nat
      /\ db'.version = manifest.files /\ manifest' = manifest
  BY <1>1, FileTypes DEF FilesInv
<1> HIDE DEF new
<1>8. \A n \in LiveLogs' : n = new \/ (n \in LiveLogs /\ logs'[n] = logs[n])
  BY <1>3, <1>5
<1>9. Manifested' = Manifested /\ Current' = Manifested
  <2>1. \A n \in Numbers(manifest.files) : tables'[n] = tables[n]
    BY RecoversWhat
  <2> QED BY <1>7, <2>1 DEF Manifested, Current, Contents
<1>10. LogOrder'
  BY <1>2, <1>6, <1>8 DEF LogOrder, Newer
<1>11. LogsAbove'
  <2>1. \A n \in LiveLogs' : Newer(LogEntries(logs'[n]), Manifested)
    BY <1>2, <1>3, <1>6, <1>8 DEF LogsAbove, Newer
  <2> QED BY <1>3, <1>7, <1>9, <2>1 DEF LogsAbove
<1>12. MemoryLogs'
  <2>1. stage \notin Writing
    BY <1>1 DEF FilesInv, TypeInv, StatusInv, WritersType
  <2>2. stage' \notin InLog /\ stage' # "written"
    BY <1>1, <2>1 DEF InLog, Writing
  <2> QED BY <1>1, <1>6, <2>2 DEF MemoryLogs, new
<1>13. EditMakes(bg.edit)'
  BY <1>1 DEF EditMakes
<1> QED BY <1>1, <1>10, <1>11, <1>12, <1>13 DEF BgMakes

(* There is nothing in memory or in logs at first. *)
LEMMA MemoryInit ==
  ASSUME Init
  PROVE  MemoryInv
<1>1. /\ db = Closed /\ bg = Resting /\ stage = "front" /\ DOMAIN logs = {}
  BY DEF Init
<1> QED BY <1>1 DEF MemoryInv, LogOrder, LogsAbove, MemoryLogs, LiveLogs, Closed, Resting, InLog

(* Every step keeps what the logs and the memory tables hold. *)
LEMMA MemoryStep ==
  ASSUME FilesInv, EntriesInv, OrderInv, MemoryInv, [Next]_vars
  PROVE  MemoryInv'
<1>1. FilesInv'
  BY FilesStep
<1>2. CASE Rests
  BY <1>1, <1>2, RestsMemory
<1>3. CASE Quiet /\ Writes
  BY <1>1, <1>3, WritersMemory, AddRecordMemory, InsertIntoMemory DEF Writes
<1>4. CASE Switches
  BY <1>1, <1>4, SwitchesMemory
<1>5. CASE Compacts
  BY <1>1, <1>5, CompactsMemory
<1>6. CASE Appends
  BY <1>1, <1>6, AppendsMemory
<1>7. CASE Installs
  BY <1>1, <1>7, InstallsMemory
<1>8. CASE Closes /\ \E lengths : Keeps(lengths)
  BY <1>8, CrashesMemory
<1>9. CASE FailsToOpen
  BY <1>9, FailsToOpenMemory
<1>10. CASE \E level : Flushes(level)
  BY <1>1, <1>10, FlushesMemory
<1>11. CASE \E level, inputs : Moves(level, inputs)
  BY <1>1, <1>11, MovesMemory
<1>12. CASE \E level, inputs : Picks(level, inputs)
  BY <1>1, <1>12, PicksMemory
<1>13. CASE \E first, rest, numbers : Works(first, rest, numbers)
  BY <1>1, <1>13, WorksMemory
<1>14. CASE \E seq : Begins(seq)
  BY <1>1, <1>14, BeginsMemory
<1>15. CASE \E order, full, next : Recovers(order, full, next)
  BY <1>15, RecoversMemory
<1> QED BY <1>2, <1>3, <1>4, <1>5, <1>6, <1>7, <1>8, <1>9, <1>10, <1>11, <1>12, <1>13, <1>14,
           <1>15, AllSteps DEF FilesInv

(* (db_impl.cc:491 WriteLevel0Table, db_impl.cc:535 CompactMemTable) While no refused edit was
   written again, a log has newer entries than the logs before it and than every table, the
   memory tables are in the logs that recovery would read, and an edit adds exactly the tables
   made for it. *)
THEOREM MemoryAlways == Spec => []MemoryInv
<1>1. Init => FilesInv /\ EntriesInv /\ OrderInv /\ MemoryInv
  BY FilesInit, EntriesInit, OrderInit, MemoryInit
<1>2. FilesInv /\ EntriesInv /\ OrderInv /\ MemoryInv /\ [Next]_vars
        => FilesInv' /\ EntriesInv' /\ OrderInv' /\ MemoryInv'
  BY FilesStep, EntriesStep, OrderStep, MemoryStep
<1> QED BY <1>1, <1>2, PTL DEF Spec

(* Age is a matter of what tables hold. *)
LEMMA AgedSame ==
  ASSUME NEW store, NEW stored, NEW files, Aged(store, files),
         \A n \in Numbers(files) : stored[n] = store[n]
  PROVE  Aged(stored, files)
<1>1. \A l \in Levels : \A n \in files[l] : stored[n] = store[n]
  BY DEF Numbers
<1>2. \A i, j \in Levels : i < j =>
          \A n \in files[i], m \in files[j] : NewerByKey(stored[n], stored[m])
  BY <1>1 DEF Aged
<1>3. 0 \in Levels
  BY LevelsAssumption DEF Levels
<1>4. \A n, m \in files[0] : n < m => NewerByKey(stored[m], stored[n])
  BY <1>1, <1>3 DEF Aged
<1> QED BY <1>2, <1>4 DEF Aged

(* E may go to a level. *)
Placed(store, files, level, E) ==
    /\ \A j \in Levels : level < j => \A m \in files[j] : NewerByKey(E, store[m])
    /\ \A i \in Levels : i < level => \A m \in files[i] : NewerByKey(store[m], E)

(* So one table more is in order of age. *)
LEMMA AgedWith ==
  ASSUME NEW store, NEW files \in Files, Aged(store, files), NEW files2, NEW level \in Levels,
         NEW n \in Nat, Joins(files, files2, level, n), Placed(store, files, level, store[n]),
         level = 0 => \A m \in files[0] : m < n /\ NewerByKey(store[n], store[m])
  PROVE  Aged(store, files2)
<1>1. \A l \in Levels : l \in Nat /\ files[l] \subseteq Nat
  BY LevelsAssumption DEF Levels, Files, FiniteParts
<1>2. ASSUME NEW i \in Levels, NEW j \in Levels, i < j, NEW a \in files2[i], NEW b \in files2[j]
      PROVE  NewerByKey(store[a], store[b])
  <2>1. a \in files[i] \/ (i = level /\ a = n)
    BY DEF Joins
  <2>2. b \in files[j] \/ (j = level /\ b = n)
    BY DEF Joins
  <2>3. CASE a \in files[i] /\ b \in files[j]
    BY <1>2, <2>3 DEF Aged
  <2>4. CASE i = level /\ a = n
    <3>1. b \in files[j]
      BY <1>1, <1>2, <2>2, <2>4
    <3> QED BY <1>2, <2>4, <3>1 DEF Placed
  <2>5. CASE j = level /\ b = n
    <3>1. a \in files[i]
      BY <1>1, <1>2, <2>1, <2>5
    <3> QED BY <1>2, <2>5, <3>1 DEF Placed
  <2> QED BY <2>1, <2>2, <2>3, <2>4, <2>5
<1>3. ASSUME NEW a \in files2[0], NEW b \in files2[0], a < b
      PROVE  NewerByKey(store[b], store[a])
  <2>0. 0 \in Levels
    BY LevelsAssumption DEF Levels
  <2>1. /\ a \in files[0] \/ (0 = level /\ a = n)
        /\ b \in files[0] \/ (0 = level /\ b = n)
    BY <2>0 DEF Joins
  <2>2. CASE a \in files[0] /\ b \in files[0]
    BY <1>3, <2>2 DEF Aged
  <2>3. CASE 0 = level /\ a = n
    <3>1. \A m \in files[0] : m < n /\ m \in Nat
      BY <1>1, <2>0, <2>3
    <3>2. ~(n < n)
      OBVIOUS
    <3>3. b \in files[0] => b < n /\ b \in Nat
      BY <3>1
    <3> QED BY <1>3, <2>1, <2>3, <3>2, <3>3
  <2>4. CASE 0 = level /\ b = n /\ a \in files[0]
    BY <2>4
  <2> QED BY <2>1, <2>2, <2>3, <2>4
<1> QED BY <1>2, <1>3 DEF Aged

(* A table that moves down leaves nothing older behind. *)
LEMMA AgedMoved ==
  ASSUME NEW store, NEW files \in Files, Aged(store, files), NEW level \in 0..MaxLevel - 1,
         NEW n \in files[level], NoOlderOutside(store, files[level], {n}),
         NEW edit, edit.adds = {<<level + 1, n>>}, edit.deletes = {<<level, n>>}
  PROVE  Aged(store, Applied(files, edit))
<1> DEFINE files2 == Applied(files, edit)
<1>1. level \in Levels /\ level + 1 \in Levels /\ level \in Nat /\ 0 \in Levels
      /\ \A l \in Levels : l \in Nat
  BY LevelsAssumption DEF Levels
<1>2. n \in Nat /\ edit.adds \subseteq Levels \X Nat
  BY <1>1 DEF Files, FiniteParts
<1>3. \A l \in Levels : \A m : m \in files2[l] <=> \/ m \in files[l] /\ ~(l = level /\ m = n)
                                                   \/ l = level + 1 /\ m = n
  <2> SUFFICES ASSUME NEW l \in Levels, NEW m
               PROVE  m \in files2[l] <=> \/ m \in files[l] /\ ~(l = level /\ m = n)
                                          \/ l = level + 1 /\ m = n
    OBVIOUS
  <2>1. m \in files2[l] <=> \/ m \in files[l] /\ <<l, m>> \notin edit.deletes
                            \/ <<l, m>> \in edit.adds
    BY <1>2, AppliedLevels
  <2>2. (<<l, m>> \in edit.deletes <=> l = level /\ m = n)
        /\ (<<l, m>> \in edit.adds <=> l = level + 1 /\ m = n)
    OBVIOUS
  <2> QED BY <2>1, <2>2
<1> HIDE DEF files2
<1>4. ASSUME NEW i \in Levels, NEW j \in Levels, i < j, NEW a \in files2[i], NEW b \in files2[j]
      PROVE  NewerByKey(store[a], store[b])
  <2>1. CASE a \in files[i] /\ b \in files[j]
    BY <1>4, <2>1 DEF Aged
  <2>2. CASE i = level + 1 /\ a = n
    <3>1. b \in files[j] /\ level < j
      BY <1>1, <1>3, <1>4, <2>2
    <3> QED BY <1>1, <2>2, <3>1 DEF Aged
  <2>3. CASE j = level + 1 /\ b = n
    <3>1. a \in files[i] /\ ~(i = level /\ a = n) /\ (i < level \/ i = level)
      BY <1>1, <1>3, <1>4, <2>3
    <3>2. CASE i < level
      BY <1>1, <2>3, <3>1, <3>2 DEF Aged
    <3>3. CASE i = level
      BY <2>3, <3>1, <3>3 DEF NoOlderOutside, NewerByKey
    <3> QED BY <3>1, <3>2, <3>3
  <2> QED BY <1>3, <2>1, <2>2, <2>3
<1>5. \A m \in files2[0] : m \in files[0]
  BY <1>1, <1>3
<1>6. \A a, b \in files2[0] : a < b => NewerByKey(store[b], store[a])
  BY <1>5 DEF Aged
<1> QED BY <1>4, <1>6 DEF Aged, files2

(* The outputs of a compaction have the place of its inputs. *)
LEMMA AgedCompacted ==
  ASSUME NEW store, NEW files \in Files, Aged(store, files), NEW c, c.level \in 0..MaxLevel - 1,
         c.upper \subseteq files[c.level], c.lower \subseteq files[c.level + 1],
         NoOlderOutside(store, files[c.level], c.upper), c.outputs \subseteq Nat,
         \A n \in c.outputs : store[n] \subseteq Contents(store, c.upper \cup c.lower),
         NEW edit, edit.adds = {<<c.level + 1, n>> : n \in c.outputs},
         edit.deletes = {<<c.level, n>> : n \in c.upper} \cup {<<c.level + 1, n>> : n \in c.lower}
  PROVE  Aged(store, Applied(files, edit))
<1> DEFINE files2 == Applied(files, edit)
           L == c.level
<1>1. L \in Levels /\ L + 1 \in Levels /\ L \in Nat /\ 0 \in Levels
      /\ \A l \in Levels : l \in Nat
  BY LevelsAssumption DEF Levels
<1>2. edit.adds \subseteq Levels \X Nat
  BY <1>1
<1>3. \A l \in Levels : \A m : m \in files2[l] =>
           \/ m \in files[l] /\ ~(l = L /\ m \in c.upper)
           \/ l = L + 1 /\ m \in c.outputs
  <2> SUFFICES ASSUME NEW l \in Levels, NEW m, m \in files2[l]
               PROVE  \/ m \in files[l] /\ ~(l = L /\ m \in c.upper)
                      \/ l = L + 1 /\ m \in c.outputs
    OBVIOUS
  <2>1. \/ m \in files[l] /\ <<l, m>> \notin edit.deletes
        \/ <<l, m>> \in edit.adds
    BY <1>2, AppliedLevels
  <2>2. (l = L /\ m \in c.upper => <<l, m>> \in edit.deletes)
        /\ (<<l, m>> \in edit.adds => l = L + 1 /\ m \in c.outputs)
    OBVIOUS
  <2> QED BY <2>1, <2>2
<1>4. \A n \in c.outputs : \A e \in store[n] :
         \/ \E m \in c.upper : e \in store[m]
         \/ \E m \in c.lower : e \in store[m]
  <2> SUFFICES ASSUME NEW n \in c.outputs, NEW e \in store[n]
               PROVE  \/ \E m \in c.upper : e \in store[m]
                      \/ \E m \in c.lower : e \in store[m]
    OBVIOUS
  <2>1. e \in Contents(store, c.upper \cup c.lower)
    OBVIOUS
  <2> QED BY <2>1, ContentsOf
<1>5. c.upper \subseteq files[L] /\ c.lower \subseteq files[L + 1]
      /\ NoOlderOutside(store, files[L], c.upper)
  OBVIOUS
<1> HIDE DEF files2, L
<1>6. ASSUME NEW i \in Levels, NEW j \in Levels, i < j, NEW a \in files2[i], NEW b \in files2[j],
             NEW e \in store[a], NEW f \in store[b], e.key = f.key
      PROVE  e.seq > f.seq
  <2>1. CASE a \in files[i] /\ b \in files[j]
    BY <1>6, <2>1 DEF Aged, NewerByKey
  <2>2. CASE i = L + 1 /\ a \in c.outputs
    <3>1. b \in files[j] /\ L < j
      BY <1>1, <1>3, <1>6, <2>2
    <3>2. \/ \E m \in files[L] : e \in store[m]
          \/ \E m \in files[L + 1] : e \in store[m]
      BY <1>4, <1>5, <2>2
    <3>3. \A m \in files[L] : NewerByKey(store[m], store[b])
      BY <1>1, <3>1 DEF Aged
    <3>4. \A m \in files[L + 1] : NewerByKey(store[m], store[b])
      BY <1>1, <1>6, <2>2, <3>1 DEF Aged
    <3> QED BY <1>6, <3>2, <3>3, <3>4 DEF NewerByKey
  <2>3. CASE j = L + 1 /\ b \in c.outputs
    <3>1. a \in files[i] /\ ~(i = L /\ a \in c.upper) /\ (i < L \/ i = L)
      BY <1>1, <1>3, <1>6, <2>3
    <3>2. CASE \E m \in c.lower : f \in store[m]
      <4>1. PICK m \in files[L + 1] : f \in store[m]
        BY <1>5, <3>2
      <4>2. NewerByKey(store[a], store[m])
        BY <1>1, <1>6, <2>3, <3>1, <4>1 DEF Aged
      <4> QED BY <1>6, <4>1, <4>2 DEF NewerByKey
    <3>3. CASE \E m \in c.upper : f \in store[m]
      <4>1. PICK m \in c.upper : f \in store[m]
        BY <3>3
      <4>2. CASE i < L
        <5>1. NewerByKey(store[a], store[m])
          BY <1>1, <1>5, <3>1, <4>1, <4>2 DEF Aged
        <5> QED BY <1>6, <4>1, <5>1 DEF NewerByKey
      <4>3. CASE i = L
        <5>1. a \in files[L] \ c.upper
          BY <3>1, <4>3
        <5> QED BY <1>5, <1>6, <4>1, <5>1 DEF NoOlderOutside
      <4> QED BY <3>1, <4>2, <4>3
    <3> QED BY <1>4, <2>3, <3>2, <3>3
  <2> QED BY <1>3, <2>1, <2>2, <2>3
<1>7. \A m \in files2[0] : m \in files[0]
  BY <1>1, <1>3
<1>8. \A a, b \in files2[0] : a < b => NewerByKey(store[b], store[a])
  BY <1>7 DEF Aged
<1> QED BY <1>6, <1>8 DEF Aged, NewerByKey, files2

(* What came to the version since a compaction began is newer than all of it, and what it takes of
   its upper level is the oldest. *)
CompactionAged(c) ==
    /\ \A l \in Levels :
          /\ c.version[l] \subseteq db.version[l]
          /\ \A n \in db.version[l] \ c.version[l] :
                NewerByKey(tables[n], Contents(tables, Numbers(c.version)))
    /\ NoOlderOutside(tables, c.version[c.level], c.upper)

(* The versions in use are in order of age. *)
AgedInv ==
    ~repeated =>
      /\ Aged(tables, manifest.files)
      /\ Aged(tables, db.version)
      /\ bg.edit # None => Aged(tables, Applied(db.version, bg.edit))
      /\ bg.compaction # None => CompactionAged(bg.compaction)

(* A step that makes no table, edit or compaction. *)
LEMMA AgesSame ==
  ASSUME AgedInv, UNCHANGED <<tables, manifest, repeated>>, db'.version = db.version,
         bg'.edit \in {bg.edit, None}, bg'.compaction \in {bg.compaction, None}
  PROVE  AgedInv'
<1>1. ASSUME ~repeated, bg'.compaction # None PROVE CompactionAged(bg.compaction)'
  <2>1. CompactionAged(bg.compaction) /\ bg'.compaction = bg.compaction
    BY <1>1 DEF AgedInv
  <2> QED BY <2>1 DEF CompactionAged
<1> QED BY <1>1 DEF AgedInv

(* A crash or a failed opening keeps the newer entries above the older ones. *)
LEMMA ClosesAged ==
  ASSUME AgedInv, Closes
  PROVE  AgedInv'
<1>1. /\ UNCHANGED <<tables, manifest, repeated>> /\ db'.version = NoTables
      /\ bg'.edit = None /\ bg'.compaction = None
  BY DEF Closes
<1>2. Aged(tables, NoTables)
  BY LevelsAssumption DEF Aged, NoTables, Levels
<1> QED BY <1>1, <1>2 DEF AgedInv

(* Tables that stay keep their age. *)
LEMMA AgesStay ==
  ASSUME TypeInv, TypeInv', AgedInv, ~repeated,
         \A n \in Held : n \in Held' => tables'[n] = tables[n]
  PROVE  /\ manifest' = manifest => Aged(tables', manifest'.files)
         /\ db'.version = db.version => Aged(tables', db'.version)
<1>1. ASSUME manifest' = manifest PROVE Aged(tables', manifest'.files)
  <2>1. Aged(tables, manifest.files) /\ Numbers(manifest.files) \subseteq Held
    BY HeldVersions DEF AgedInv
  <2>2. Numbers(manifest.files)' \subseteq Held'
    BY DEF Held
  <2> QED BY <1>1, <2>1, <2>2, AgedSame
<1>2. ASSUME db'.version = db.version PROVE Aged(tables', db'.version)
  <2>1. Aged(tables, db.version) /\ Numbers(db.version) \subseteq Held
    BY HeldVersions DEF AgedInv
  <2>2. Numbers(db.version)' \subseteq Held'
    BY DEF Held
  <2> QED BY <1>2, <2>1, <2>2, AgedSame
<1> QED BY <1>1, <1>2

\* What a compaction goes on with.
SameCompaction(c, d) ==
    c # None /\ d # None /\ d.version = c.version /\ d.level = c.level /\ d.upper = c.upper

(* A compaction keeps its age while tables are only added that are newer. *)
LEMMA CompactionAgedStays ==
  ASSUME FilesInv, FilesInv', EntriesInv, [Next]_vars,
         SameCompaction(bg.compaction, bg'.compaction), CompactionAged(bg.compaction),
         \A l \in Levels :
            /\ db.version[l] \subseteq db'.version[l]
            /\ \A n \in db'.version[l] \ db.version[l] : NewerByKey(tables'[n], Current)
  PROVE  CompactionAged(bg.compaction)'
<1> DEFINE c == bg.compaction
           d == bg'.compaction
           T == tables'
           V == db.version
           W == db'.version
<1>1. /\ c # None /\ d # None /\ d.version = c.version /\ d.level = c.level /\ d.upper = c.upper
  BY DEF SameCompaction
<1>2. TypeInv /\ TypeInv'
  BY DEF FilesInv
<1>3. /\ \A n \in Numbers(V) : n \in Held
      /\ \A n \in Numbers(c.version) : n \in Held
      /\ \A n \in Numbers(W) : n \in Held'
      /\ \A n \in Numbers(c.version) : n \in Held'
  <2>1. Numbers(V) \subseteq Held /\ Numbers(c.version) \subseteq Held
    BY <1>1, <1>2, HeldVersions
  <2>2. Numbers(W) \subseteq Held' /\ Numbers(d.version) \subseteq Held'
    BY <1>1 DEF Held, HeldByCompaction
  <2> QED BY <1>1, <2>1, <2>2
<1>4. \A n \in Held : n \in Held' => T[n] = tables[n]
  BY HeldStay
<1>5. /\ \A l \in Levels : c.version[l] \subseteq V[l]
      /\ \A l \in Levels : \A n \in V[l] \ c.version[l] :
            NewerByKey(tables[n], Contents(tables, Numbers(c.version)))
      /\ NoOlderOutside(tables, c.version[c.level], c.upper)
  BY DEF CompactionAged
<1>6. /\ \A l \in Levels : V[l] \subseteq W[l]
      /\ \A l \in Levels : \A n \in W[l] \ V[l] : NewerByKey(T[n], Current)
  OBVIOUS
<1>7. IsCompaction(c) /\ c.level \in Levels
  <2>1. IsCompaction(c) /\ c.level \in 0..MaxLevel - 1
    BY <1>1, <1>2 DEF TypeInv, BgType, IsCompaction, Compactions
  <2> QED BY <2>1, LevelsAssumption DEF Levels
<1>8. Contents(tables, Numbers(c.version)) \subseteq Current
  <2>1. Numbers(c.version) \subseteq Numbers(V)
    BY <1>5 DEF Numbers
  <2> QED BY <2>1 DEF Contents, Current
<1> HIDE DEF c, d, T, V, W
<1>9. Contents(T, Numbers(c.version)) = Contents(tables, Numbers(c.version))
  <2>1. \A n \in Numbers(c.version) : T[n] = tables[n]
    BY <1>3, <1>4
  <2> QED BY <2>1 DEF Contents
<1>10. \A l \in Levels : c.version[l] \subseteq W[l]
  BY <1>5, <1>6
<1>11. ASSUME NEW l \in Levels, NEW n \in W[l] \ c.version[l]
       PROVE  NewerByKey(T[n], Contents(T, Numbers(c.version)))
  <2>1. CASE n \in V[l]
    <3>1. n \in Numbers(V) /\ n \in Numbers(W)
      BY <2>1, <1>11 DEF Numbers
    <3>2. T[n] = tables[n]
      BY <1>3, <1>4, <3>1
    <3> QED BY <1>5, <1>9, <1>11, <2>1, <3>2
  <2>2. CASE n \notin V[l]
    BY <1>6, <1>8, <1>9, <1>11, <2>2 DEF NewerByKey
  <2> QED BY <2>1, <2>2
<1>12. NoOlderOutside(T, c.version[c.level], c.upper)
  <2>1. \A n \in c.version[c.level] : T[n] = tables[n]
    BY <1>3, <1>4, <1>7 DEF Numbers
  <2>2. c.upper \subseteq c.version[c.level]
    BY <1>7 DEF IsCompaction
  <2> QED BY <1>5, <2>1, <2>2 DEF NoOlderOutside
<1>13. /\ \A l \in Levels : d.version[l] \subseteq W[l]
       /\ \A l \in Levels : \A n \in W[l] \ d.version[l] :
             NewerByKey(T[n], Contents(T, Numbers(d.version)))
       /\ NoOlderOutside(T, d.version[d.level], d.upper)
  BY <1>1, <1>10, <1>11, <1>12
<1> QED BY <1>13 DEF CompactionAged, d, T, W

(* The immutable memory table is newer than all in the version. *)
LEMMA ImmutableNewer ==
  ASSUME FilesInv, MemoryInv, ~repeated
  PROVE  NewerByKey(db.mem \cup db.imm, Current) /\ NewerByKey(db.mem, db.imm)
<1>1. LogOrder /\ LogsAbove /\ MemoryLogs
  BY DEF MemoryInv
<1>2. CASE db.status # "open"
  BY <1>1, <1>2 DEF MemoryLogs, NewerByKey
<1>3. CASE db.status = "open"
  <2>1. /\ db.logNumber \in DOMAIN logs /\ db.logfile \in DOMAIN logs
        /\ db.logNumber <= db.logfile /\ db.logNumber \in Nat
    BY <1>1, <1>3, FileTypes DEF MemoryLogs, FilesInv, TypeInv, StatusInv
  <2>2. db.logNumber \in LiveLogs /\ db.logfile \in LiveLogs
    BY <1>3, <2>1 DEF LiveLogs, LogStart
  <2>3. db.mem \subseteq LogEntries(logs[db.logfile]) /\ db.imm \subseteq LogEntries(logs[db.logNumber])
    BY <1>1, <1>3 DEF MemoryLogs
  <2>4. NewerByKey(db.mem \cup db.imm, Current)
    BY <1>1, <2>2, <2>3 DEF LogsAbove, Newer, NewerByKey
  <2>5. NewerByKey(db.mem, db.imm)
    <3>1. CASE db.imm = {}
      BY <3>1 DEF NewerByKey
    <3>2. CASE db.imm # {}
      <4>1. db.logNumber < db.logfile
        BY <1>1, <1>3, <3>2 DEF MemoryLogs
      <4> QED BY <1>1, <2>2, <2>3, <4>1 DEF LogOrder, Newer, NewerByKey
    <3> QED BY <3>1, <3>2
  <2> QED BY <2>4, <2>5
<1> QED BY <1>2, <1>3

(* A new table of a memtable keeps the newer entries above the older ones. *)
LEMMA FlushesAged ==
  ASSUME FilesInv, FilesInv', EntriesInv, OrderInv, MemoryInv, AgedInv, [Next]_vars,
         NEW level, Flushes(level)
  PROVE  AgedInv'
<1>0. TypeInv /\ TypeInv'
  BY DEF FilesInv
<1> DEFINE k == db.nextFile
           V == db.version
           V2 == Applied(V, bg'.edit)
           T == tables'
<1>1. /\ db.imm # {} /\ level \in Levels
      /\ level \in LevelsForMemTableOutput(tables, V, db.imm)
      /\ UNCHANGED <<manifest, repeated>> /\ db'.version = V
      /\ bg'.edit.adds = {<<level, k>>} /\ bg'.edit.deletes = {} /\ bg'.compaction = bg.compaction
  BY DEF Flushes, SameVersion, history
<1> SUFFICES ASSUME ~repeated PROVE AgedInv'
  BY <1>1 DEF AgedInv
<1>2. \A n \in Held : n \in Held' => tables'[n] = tables[n]
  BY HeldStay
<1>3. /\ Aged(tables', manifest'.files) /\ Aged(tables', V) /\ V \in Files
      /\ Numbers(V) \subseteq Held /\ Numbers(V) \subseteq Held'
  <2>1. Numbers(db.version)' \subseteq Held'
    BY DEF Held
  <2> QED BY <1>0, <1>1, <1>2, <2>1, AgesStay, HeldVersions
<1>4. T[k] = db.imm /\ k \in Nat
  BY <1>0, FileTypes DEF Flushes, With
<1>5. Tidy(tables, V) /\ Run(db.imm)
  <2>1. TidyFacts
    BY VersionsTidy
  <2>2. db.imm \subseteq Known
    BY DEF Known, Stored
  <2>3. Chain(db.imm) /\ IsFiniteSet(db.imm)
    BY <1>0, <2>2, ChainPart DEF EntriesInv, TypeInv, DbType, Dbs, EntrySets, FiniteParts
  <2> QED BY <1>1, <1>3, <2>1, <2>3 DEF TidyFacts, Run
<1>6. level # 0 => \A l \in 0..level : \A n \in V[l] : Apart(tables[n], db.imm)
  BY <1>1, <1>5, FlushedApart
<1>7. /\ \A l \in Levels : \A n \in V[l] : T[n] = tables[n] /\ n < k
      /\ \A l \in Levels : \A n \in V[l] : tables[n] \subseteq Current
      /\ \A l \in Levels : l \in Nat
  <2>1. \A l \in Levels : \A n \in V[l] : n \in Numbers(V)
    BY DEF Numbers
  <2>2. \A n \in Numbers(V) : T[n] = tables[n]
    BY <1>2, <1>3
  <2>3. \A n \in Numbers(V) : n < k
    <3>1. db.status # "closed"
      BY DEF Flushes
    <3> QED BY <3>1 DEF FilesInv, NumbersInv
  <2>4. \A n \in Numbers(V) : tables[n] \subseteq Current
    BY DEF Current, Contents
  <2>5. \A l \in Levels : l \in Nat
    BY DEF Levels
  <2> QED BY <2>1, <2>2, <2>3, <2>4, <2>5
<1>8. Joins(V, V2, level, k)
  <2>1. bg'.edit.adds \subseteq Levels \X Nat
    BY <1>0, <1>1, FileTypes
  <2>2. \A l, n : <<l, n>> \in bg'.edit.adds <=> l = level /\ n = k
    BY <1>1
  <2>3. \A l, n : <<l, n>> \notin bg'.edit.deletes
    BY <1>1
  <2> QED BY <1>3, <2>1, <2>2, <2>3, AppliedLevels DEF Joins
<1>9. NewerByKey(db.imm, Current)
  BY ImmutableNewer DEF NewerByKey
<1> HIDE DEF k, V2, V, T
<1>10. \A l \in Levels : \A n \in V[l] : NewerByKey(T[k], T[n])
  BY <1>4, <1>7, <1>9 DEF NewerByKey
<1>11. ASSUME NEW i \in Levels, i < level, NEW m \in V[i] PROVE NewerByKey(T[m], T[k])
  <2>1. level # 0 /\ i \in 0..level
    BY <1>1, <1>7, <1>11
  <2>2. Apart(tables[m], db.imm) /\ T[m] = tables[m] /\ T[k] = db.imm
    BY <1>4, <1>6, <1>7, <2>1
  <2>3. tables[m] \subseteq Entries /\ db.imm \subseteq Entries
    <3>1. m \in Numbers(V)
      BY <1>11 DEF Numbers
    <3> QED BY <1>5, <3>1 DEF Tidy, Run, Chain
  <2>4. \A a \in tables[m], b \in db.imm : a.key # b.key
    <3>1. \A a \in Entries : a.key \in Int
      BY KeysAssumption DEF Entries
    <3>2. \A x, y \in Int : (x < y => x # y) /\ (x > y => x # y)
      OBVIOUS
    <3>3. \A a \in tables[m], b \in db.imm : a.key \in Int /\ b.key \in Int
      BY <2>3, <3>1
    <3> QED BY <2>2, <3>2, <3>3 DEF Apart
  <2> QED BY <2>2, <2>4 DEF NewerByKey
<1>12. Placed(T, V, level, T[k])
  BY <1>10, <1>11 DEF Placed
<1>13. level = 0 => \A m \in V[0] : m < k /\ NewerByKey(T[k], T[m])
  BY <1>1, <1>7, <1>10
<1>14. Aged(T, V2)
  <2>1. Aged(T, V) /\ V \in Files /\ level \in Levels /\ k \in Nat
    BY <1>1, <1>3, <1>4 DEF T
  <2> QED BY <1>8, <1>12, <1>13, <2>1, AgedWith
<1>15. ASSUME bg.compaction # None PROVE CompactionAged(bg.compaction)'
  <2>1. CompactionAged(bg.compaction)
    BY <1>15 DEF AgedInv
  <2>2. SameCompaction(bg.compaction, bg'.compaction)
    BY <1>1, <1>15 DEF SameCompaction
  <2>3. db'.version = db.version
    BY <1>1 DEF V
  <2> QED BY <2>1, <2>2, <2>3, CompactionAgedStays
<1> QED BY <1>1, <1>3, <1>14, <1>15 DEF AgedInv, V2, V, T

(* A move to the next level keeps the newer entries above the older ones. *)
LEMMA MovesAged ==
  ASSUME FilesInv, EntriesInv, OrderInv, AgedInv, NEW level, NEW inputs, Moves(level, inputs)
  PROVE  AgedInv'
<1>0. TypeInv
  BY DEF FilesInv
<1> DEFINE V == db.version
           e == bg'.edit
<1>1. /\ UNCHANGED <<tables, manifest, repeated, db>> /\ bg'.compaction = None
      /\ e.adds = {<<level + 1, n>> : n \in inputs.upper}
      /\ e.deletes = {<<level, n>> : n \in inputs.upper}
      /\ level \in 0..MaxLevel - 1 /\ Cardinality(inputs.upper) = 1
  BY DEF Moves, disk, history
<1>2. V \in Files /\ Tidy(tables, V) /\ level \in Levels
  <2>1. V \in Files /\ Numbers(V) \subseteq Held
    BY <1>0, HeldVersions
  <2> QED BY <1>1, <2>1, VersionsTidy, LevelsAssumption DEF TidyFacts, Levels
<1> SUFFICES ASSUME ~repeated PROVE AgedInv'
  BY <1>1 DEF AgedInv
<1>3. Aged(tables, V) /\ Ordered(tables, V)
  BY DEF AgedInv, OrderInv
<1>4. PICK m \in V[level] : inputs \in Inputs(tables, V, level, {m})
  BY DEF Moves
<1>5. NoOlderOutside(tables, V[level], inputs.upper)
  BY <1>1, <1>2, <1>3, <1>4, InputsOldest
<1>6. inputs.upper \in SUBSET V[level] /\ IsFiniteSet(inputs.upper)
  <2>1. {m} \in SUBSET V[level]
    OBVIOUS
  <2>2. inputs.upper \in SUBSET V[level] /\ inputs.upper \in FiniteParts(Nat)
    BY <1>1, <1>2, <1>4, <2>1, InputFiles
  <2> QED BY <2>2 DEF FiniteParts
<1>7. PICK n \in V[level] : inputs.upper = {n}
  <2>1. \E n : inputs.upper = {n}
    BY <1>1, <1>6, FS_Singleton
  <2> QED BY <1>6, <2>1
<1>8. e.adds = {<<level + 1, n>>} /\ e.deletes = {<<level, n>>} /\ NoOlderOutside(tables, V[level], {n})
  BY <1>1, <1>5, <1>7
<1> HIDE DEF e, V
<1>9. Aged(tables, Applied(V, e))
  BY <1>1, <1>2, <1>3, <1>8, AgedMoved
<1> QED BY <1>1, <1>3, <1>9 DEF AgedInv, e, V

(* The edit of a compaction keeps the newer entries above the older ones. *)
LEMMA CompactsAged ==
  ASSUME FilesInv, OrderInv, AgedInv, Compacts
  PROVE  AgedInv'
<1>0. TypeInv
  BY DEF FilesInv
<1> DEFINE c == bg.compaction
           e == bg'.edit
           V == db.version
<1>1. /\ UNCHANGED <<tables, manifest, repeated, db>> /\ bg'.compaction = c /\ c # None
      /\ e.adds = {<<c.level + 1, n>> : n \in c.outputs}
      /\ e.deletes = {<<c.level, n>> : n \in c.upper} \cup {<<c.level + 1, n>> : n \in c.lower}
  BY DEF Compacts, disk, history
<1>2. c.level \in 0..MaxLevel - 1 /\ c.outputs \subseteq Nat /\ V \in Files /\ IsCompaction(c)
  BY <1>0, <1>1, FileTypes DEF TypeInv, BgType, IsCompaction, Compactions
<1> SUFFICES ASSUME ~repeated PROVE AgedInv'
  BY <1>1 DEF AgedInv
<1>3. Aged(tables, V) /\ CompactionAged(c) /\ CompactionOrder(c)
  BY <1>1 DEF AgedInv, OrderInv
<1>4. /\ c.upper \subseteq V[c.level] /\ c.lower \subseteq V[c.level + 1]
      /\ \A n \in c.outputs : tables[n] \subseteq Contents(tables, c.upper \cup c.lower)
  BY <1>3 DEF CompactionOrder, Fits
<1>5. NoOlderOutside(tables, V[c.level], c.upper)
  <2>1. /\ NoOlderOutside(tables, c.version[c.level], c.upper) /\ c.level \in Levels
        /\ c.upper \subseteq c.version[c.level]
    BY <1>2, <1>3, LevelsAssumption DEF CompactionAged, IsCompaction, Levels
  <2>2. \A n \in c.upper : tables[n] \subseteq Contents(tables, Numbers(c.version))
    BY <2>1 DEF Contents, Numbers
  <2>3. \A m \in V[c.level] : m \notin c.version[c.level] =>
           NewerByKey(tables[m], Contents(tables, Numbers(c.version)))
    BY <1>3, <2>1 DEF CompactionAged
  <2> SUFFICES ASSUME NEW n \in c.upper, NEW m \in V[c.level] \ c.upper,
                      NEW f \in tables[n], NEW g \in tables[m], f.key = g.key
               PROVE  g.seq > f.seq
    BY DEF NoOlderOutside
  <2>4. CASE m \in c.version[c.level]
    BY <2>1, <2>4 DEF NoOlderOutside
  <2>5. CASE m \notin c.version[c.level]
    BY <2>2, <2>3, <2>5 DEF NewerByKey
  <2> QED BY <2>4, <2>5
<1> HIDE DEF c, e, V
<1>6. Aged(tables, Applied(V, e))
  <2>1. V \in Files /\ Aged(tables, V) /\ c.level \in 0..MaxLevel - 1
    BY <1>2, <1>3
  <2>2. /\ c.upper \subseteq V[c.level] /\ c.lower \subseteq V[c.level + 1]
        /\ NoOlderOutside(tables, V[c.level], c.upper) /\ c.outputs \subseteq Nat
        /\ \A n \in c.outputs : tables[n] \subseteq Contents(tables, c.upper \cup c.lower)
    BY <1>2, <1>4, <1>5
  <2>3. /\ e.adds = {<<c.level + 1, n>> : n \in c.outputs}
        /\ e.deletes = {<<c.level, n>> : n \in c.upper} \cup {<<c.level + 1, n>> : n \in c.lower}
    BY <1>1
  <2> QED BY <2>1, <2>2, <2>3, AgedCompacted
<1>7. CompactionAged(bg.compaction)'
  BY <1>1, <1>3 DEF CompactionAged, c
<1> QED BY <1>1, <1>3, <1>6, <1>7 DEF AgedInv, c, e, V

(* A write of the MANIFEST keeps the newer entries above the older ones. *)
LEMMA AppendsAged ==
  ASSUME AgedInv, Appends
  PROVE  AgedInv'
<1>1. /\ UNCHANGED <<tables, db>> /\ bg'.compaction = bg.compaction /\ bg.edit # None
      /\ bg'.edit.adds = bg.edit.adds /\ bg'.edit.deletes = bg.edit.deletes
      /\ AppendEdit \/ UNCHANGED <<manifest, repeated>>
  BY DEF Appends
<1>2. \A files : Applied(files, bg'.edit) = Applied(files, bg.edit)
  BY <1>1 DEF Applied
<1>3. ASSUME AppendEdit, ~repeated'
      PROVE  ~repeated /\ manifest.files = db.version
             /\ manifest'.files = Applied(manifest.files, bg.edit)
  BY <1>3 DEF AppendEdit
<1>4. ASSUME ~repeated' PROVE ~repeated /\ Aged(tables, manifest'.files)
  BY <1>1, <1>3, <1>4 DEF AgedInv
<1>5. ASSUME ~repeated', bg.compaction # None PROVE CompactionAged(bg.compaction)'
  <2>1. CompactionAged(bg.compaction)
    BY <1>4, <1>5 DEF AgedInv
  <2> QED BY <1>1, <2>1 DEF CompactionAged
<1>6. ASSUME ~repeated'
      PROVE  Aged(tables, db.version) /\ Aged(tables, Applied(db.version, bg.edit))
  BY <1>1, <1>4, <1>6 DEF AgedInv
<1> QED BY <1>1, <1>2, <1>4, <1>5, <1>6 DEF AgedInv

(* The pick of a compaction keeps the newer entries above the older ones. *)
LEMMA PicksAged ==
  ASSUME FilesInv, EntriesInv, OrderInv, AgedInv, NEW level, NEW inputs, Picks(level, inputs)
  PROVE  AgedInv'
<1>0. TypeInv
  BY DEF FilesInv
<1> DEFINE V == db.version
           c == bg'.compaction
<1>1. /\ UNCHANGED <<tables, manifest, repeated, db>> /\ bg'.edit = None
      /\ level \in 0..MaxLevel - 1
      /\ c.level = level /\ c.upper = inputs.upper /\ c.version = V
  BY DEF Picks, disk, history
<1>2. Tidy(tables, V)
  <2>1. V \in Files /\ Numbers(V) \subseteq Held
    BY <1>0, HeldVersions
  <2> QED BY <2>1, VersionsTidy DEF TidyFacts
<1>3. ASSUME ~repeated PROVE CompactionAged(bg.compaction)'
  <2>1. Ordered(tables, V)
    BY <1>3 DEF OrderInv
  <2>2. PICK n \in V[level] : inputs \in Inputs(tables, V, level, {n})
    BY DEF Picks
  <2>3. NoOlderOutside(tables, V[level], inputs.upper)
    BY <1>1, <1>2, <2>1, <2>2, InputsOldest
  <2> QED BY <1>1, <2>3 DEF CompactionAged
<1> QED BY <1>1, <1>3 DEF AgedInv

(* The work of a compaction keeps the newer entries above the older ones. *)
LEMMA WorksAged ==
  ASSUME FilesInv, FilesInv', EntriesInv, AgedInv, [Next]_vars,
         NEW first, NEW rest, NEW numbers, Works(first, rest, numbers)
  PROVE  AgedInv'
<1>0. TypeInv /\ TypeInv'
  BY DEF FilesInv
<1>1. /\ UNCHANGED <<manifest, repeated>> /\ db'.version = db.version /\ bg'.edit = None
      /\ SameCompaction(bg.compaction, bg'.compaction)
  BY DEF Works, SameVersion, SameCompaction
<1> SUFFICES ASSUME ~repeated PROVE AgedInv'
  BY <1>1 DEF AgedInv
<1>2. \A n \in Held : n \in Held' => tables'[n] = tables[n]
  BY HeldStay
<1>3. Aged(tables', manifest'.files) /\ Aged(tables', db'.version)
  BY <1>0, <1>1, <1>2, AgesStay
<1>4. CompactionAged(bg.compaction)
  BY <1>1 DEF AgedInv, SameCompaction
<1>5. CompactionAged(bg.compaction)'
  BY <1>1, <1>4, CompactionAgedStays
<1> QED BY <1>1, <1>3, <1>5 DEF AgedInv

(* An edit's end keeps the newer entries above the older ones. *)
LEMMA InstallsAged ==
  ASSUME FilesInv, FilesInv', EntriesInv, MemoryInv, AgedInv, [Next]_vars, Installs
  PROVE  AgedInv'
<1>0. TypeInv /\ TypeInv'
  BY DEF FilesInv
<1> DEFINE V == Applied(db.version, bg.edit)
           c == bg.compaction
<1>1. /\ bg.edit # None /\ UNCHANGED <<manifest, repeated>> /\ db'.version = V
      /\ bg'.edit = None /\ bg'.compaction = (IF bg.edit.kind = "flush" THEN c ELSE None)
  BY DEF Installs, history
<1>2. \A n \in Held : n \in Held' => tables'[n] = tables[n]
  BY HeldStay
<1> SUFFICES ASSUME ~repeated PROVE AgedInv'
  BY <1>1 DEF AgedInv
<1>3. Aged(tables', manifest'.files)
  BY <1>0, <1>1, <1>2, AgesStay
<1>4. Aged(tables, V) /\ Numbers(V) \subseteq Held
  BY <1>0, <1>1, HeldVersions DEF AgedInv
<1>5. Numbers(V) \subseteq Held'
  <2>1. Numbers(db.version)' \subseteq Held'
    BY DEF Held
  <2> QED BY <1>1, <2>1
<1>6. \A n \in Numbers(V) : tables'[n] = tables[n]
  BY <1>2, <1>4, <1>5
<1>7. Aged(tables', V)
  BY <1>4, <1>6, AgedSame
<1>8. ASSUME bg'.compaction # None PROVE CompactionAged(bg.compaction)'
  <2>1. c # None /\ bg.edit.kind = "flush" /\ bg'.compaction = c
    BY <1>1, <1>8
  <2>2. CompactionAged(c) /\ SameCompaction(c, bg'.compaction)
    BY <2>1 DEF AgedInv, SameCompaction
  <2>3. EditMakes(bg.edit)
    BY <1>1 DEF MemoryInv
  <2>4. PICK level \in Levels, k \in DOMAIN tables :
           bg.edit.adds = {<<level, k>>} /\ tables[k] = db.imm
    BY <2>1, <2>3 DEF EditMakes
  <2>5. bg.edit.deletes = {} /\ db.version \in Files /\ bg.edit.adds \subseteq Levels \X Nat
    BY <1>0, <1>1, <2>1, <2>3, FileTypes DEF EditMakes, IsEdit, Edits, FiniteParts
  <2>6. \A l \in Levels : \A n : n \in V[l] <=> n \in db.version[l] \/ (l = level /\ n = k)
    <3>1. \A l, n : <<l, n>> \in bg.edit.adds <=> l = level /\ n = k
      BY <2>4
    <3>2. \A l, n : <<l, n>> \notin bg.edit.deletes
      BY <2>5
    <3> QED BY <2>5, <3>1, <3>2, AppliedLevels
  <2>7. NewerByKey(db.imm, Current)
    BY ImmutableNewer DEF NewerByKey
  <2>8. tables'[k] = db.imm
    <3>1. k \in V[level]
      BY <2>6
    <3>2. k \in Numbers(V)
      BY <3>1 DEF Numbers
    <3> QED BY <1>6, <2>4, <3>2
  <2> HIDE DEF V
  <2>9. \A l \in Levels :
            /\ db.version[l] \subseteq db'.version[l]
            /\ \A n \in db'.version[l] \ db.version[l] : NewerByKey(tables'[n], Current)
    BY <1>1, <2>6, <2>7, <2>8
  <2> QED BY <2>2, <2>9, CompactionAgedStays
<1> QED BY <1>1, <1>3, <1>7, <1>8 DEF AgedInv

(* The tables recovery makes of logs are in order of age, above all the others. *)
LEMMA RecoversAged ==
  ASSUME FilesInv, EntriesInv, MemoryInv, AgedInv, NEW order, NEW full, NEW next,
         Recovers(order, full, next)
  PROVE  AgedInv'
<1>0. TypeInv
  BY DEF FilesInv
<1> DEFINE M == manifest.files
           V2 == Applied(M, bg'.edit)
           A == {next[i - 1] : i \in full}
           T == tables'
<1>1. /\ UNCHANGED <<manifest, repeated>> /\ db'.version = M /\ bg'.compaction = None
      /\ db.status = "closed"
      /\ bg'.edit.adds = {<<0, next[i - 1]>> : i \in full} /\ bg'.edit.deletes = {}
      /\ \A i \in full : /\ next[i - 1] \in Nat /\ manifest.next < next[i - 1]
                         /\ i \in 1..Len(order) /\ order[i] \in RecoverableLogs(logs)
                         /\ T[next[i - 1]] = LogEntries(logs[order[i]])
      /\ \A i, j \in 1..Len(order) : i < j => order[i] < order[j]
      /\ \A i, j \in full : i < j => next[i - 1] < next[j - 1]
      /\ Len(order) \in Nat
  <2>1. full \subseteq 1..Len(order) /\ Len(order) \in Nat
    BY DEF Recovers
  <2>2. \A i \in full : next[i - 1] \in Nat /\ manifest.next < next[i - 1]
    BY DEF Recovers
  <2>3. \A i \in full : order[i] \in RecoverableLogs(logs)
    BY <2>1 DEF Recovers
  <2>4. \A i \in full : T[next[i - 1]] = LogEntries(logs[order[i]])
    BY DEF Recovers
  <2>5. \A i, j \in 1..Len(order) : i < j => order[i] < order[j]
    BY DEF Recovers
  <2>6. \A i, j \in full : i < j => next[i - 1] < next[j - 1]
    BY DEF Recovers
  <2>7. /\ UNCHANGED <<manifest, repeated>> /\ db'.version = M /\ bg'.compaction = None
        /\ db.status = "closed"
        /\ bg'.edit.adds = {<<0, next[i - 1]>> : i \in full} /\ bg'.edit.deletes = {}
    BY DEF Recovers, history
  <2> QED BY <2>1, <2>2, <2>3, <2>4, <2>5, <2>6, <2>7
<1> SUFFICES ASSUME ~repeated PROVE AgedInv'
  BY <1>1 DEF AgedInv
<1>2. /\ \A n \in Numbers(M) : T[n] = tables[n] /\ n < manifest.next /\ n \in Nat
      /\ M \in Files /\ 0 \in Levels /\ manifest.next \in Nat
  BY <1>0, RecoversWhat, LevelsAssumption, FileTypes DEF Levels
<1>3. Aged(T, M)
  <2>1. Aged(tables, M) /\ \A n \in Numbers(M) : T[n] = tables[n]
    BY <1>2 DEF AgedInv
  <2> HIDE DEF M, T
  <2> QED BY <2>1, AgedSame
<1>4. LogOrder /\ LogsAbove /\ LiveLogs = RecoverableLogs(logs)
  BY RecoversWhat DEF MemoryInv
<1>5. ASSUME NEW i \in full, NEW n \in Numbers(M)
      PROVE  n < next[i - 1] /\ NewerByKey(T[next[i - 1]], T[n])
  <2>1. order[i] \in DOMAIN logs /\ order[i] >= manifest.log
    BY <1>1 DEF RecoverableLogs
  <2>2. Newer(LogEntries(logs[order[i]]), Manifested)
    BY <1>4, <2>1 DEF LogsAbove
  <2>3. tables[n] \subseteq Manifested
    BY DEF Manifested, Contents
  <2>4. NewerByKey(T[next[i - 1]], T[n])
    BY <1>1, <1>2, <2>2, <2>3 DEF Newer, NewerByKey
  <2>5. next[i - 1] \in Nat /\ manifest.next < next[i - 1] /\ n < manifest.next /\ n \in Nat
        /\ manifest.next \in Nat
    BY <1>1, <1>2
  <2> DEFINE x == next[i - 1]
  <2>6. n < x
    <3>1. x \in Nat /\ manifest.next < x
      BY <2>5
    <3> HIDE DEF x
    <3> QED BY <2>5, <3>1
  <2> QED BY <2>4, <2>6
<1>6. ASSUME NEW i \in full, NEW j \in full, next[i - 1] < next[j - 1]
      PROVE  NewerByKey(T[next[j - 1]], T[next[i - 1]])
  <2>1. i < j
    <3>0. i \in Nat /\ j \in Nat
      BY <1>1
    <3> DEFINE x == next[i - 1]
               y == next[j - 1]
    <3>1. /\ x \in Nat /\ y \in Nat /\ x < y /\ (j < i => y < x) /\ (i = j => x = y)
      BY <1>1, <1>6
    <3> HIDE DEF x, y
    <3> QED BY <3>0, <3>1
  <2>2. order[i] < order[j] /\ order[i] \in LiveLogs /\ order[j] \in LiveLogs
    BY <1>1, <1>4, <2>1
  <2>3. Newer(LogEntries(logs[order[j]]), LogEntries(logs[order[i]]))
    BY <1>4, <2>2 DEF LogOrder
  <2> QED BY <1>1, <2>3 DEF Newer, NewerByKey
<1>7. \A l \in Levels : \A n : n \in V2[l] <=> n \in M[l] \/ (l = 0 /\ n \in A)
  <2>1. bg'.edit.adds \subseteq Levels \X Nat
    BY <1>1, <1>2
  <2>2. \A l, n : <<l, n>> \in bg'.edit.adds <=> l = 0 /\ n \in A
    <3> SUFFICES ASSUME NEW l, NEW n PROVE <<l, n>> \in bg'.edit.adds <=> l = 0 /\ n \in A
      OBVIOUS
    <3>1. <<l, n>> \in bg'.edit.adds <=> \E i \in full : <<l, n>> = <<0, next[i - 1]>>
      BY <1>1
    <3> QED BY <3>1
  <2>3. \A l, n : <<l, n>> \notin bg'.edit.deletes
    BY <1>1
  <2> QED BY <1>2, <2>1, <2>2, <2>3, AppliedLevels
<1>8. \A n \in A : \E i \in full : n = next[i - 1]
  OBVIOUS
<1>9. /\ \A a \in A : a \in Nat
      /\ \A a \in A, n \in Numbers(M) : n < a /\ NewerByKey(T[a], T[n])
      /\ \A a, b \in A : a < b => NewerByKey(T[b], T[a])
  <2> HIDE DEF T, M
  <2>1. ASSUME NEW a \in A, NEW n \in Numbers(M) PROVE n < a /\ NewerByKey(T[a], T[n])
    BY <1>5, <1>8
  <2>2. ASSUME NEW a \in A, NEW b \in A, a < b PROVE NewerByKey(T[b], T[a])
    <3>1. PICK i \in full : a = next[i - 1]
      BY <1>8
    <3>2. PICK j \in full : b = next[j - 1]
      BY <1>8
    <3> HIDE DEF A
    <3> QED BY <1>6, <2>2, <3>1, <3>2
  <2>3. ASSUME NEW a \in A PROVE a \in Nat
    BY <1>1, <1>8
  <2> QED BY <2>1, <2>2, <2>3
<1>10. \A l \in Levels : l \in Nat /\ \A n \in M[l] : n \in Numbers(M) /\ n \in Nat
  BY <1>2 DEF Numbers, Levels
<1> HIDE DEF V2, M, A, T
<1>11. ASSUME NEW i \in Levels, NEW j \in Levels, i < j, NEW a \in V2[i], NEW b \in V2[j]
       PROVE  NewerByKey(T[a], T[b])
  <2>1. b \in M[j] /\ b \in Numbers(M)
    BY <1>7, <1>10, <1>11
  <2>2. a \in M[i] \/ a \in A
    BY <1>7, <1>11
  <2> QED BY <1>3, <1>9, <1>11, <2>1, <2>2 DEF Aged
<1>12. ASSUME NEW a \in V2[0], NEW b \in V2[0], a < b PROVE NewerByKey(T[b], T[a])
  <2>1. a \in M[0] \/ a \in A
    BY <1>2, <1>7
  <2>2. b \in M[0] \/ b \in A
    BY <1>2, <1>7
  <2>3. CASE a \in M[0] /\ b \in M[0]
    BY <1>3, <1>12, <2>3 DEF Aged
  <2>4. CASE b \in A /\ a \in M[0]
    BY <1>2, <1>9, <1>10, <2>4
  <2>5. CASE a \in A /\ b \in M[0]
    <3>1. b < a /\ a \in Nat /\ b \in Nat
      BY <1>2, <1>9, <1>10, <2>5
    <3> QED BY <1>12, <3>1
  <2>6. CASE a \in A /\ b \in A
    BY <1>9, <1>12, <2>6
  <2> QED BY <2>1, <2>2, <2>3, <2>4, <2>5, <2>6
<1>13. Aged(T, V2)
  BY <1>11, <1>12 DEF Aged
<1> QED BY <1>1, <1>3, <1>13 DEF AgedInv, V2, M, T

(* There are no tables at first. *)
LEMMA AgedInit ==
  ASSUME Init
  PROVE  AgedInv
<1>1. manifest.files = NoTables /\ db.version = NoTables /\ bg.edit = None /\ bg.compaction = None
  BY DEF Init, Closed, Resting
<1>2. Aged(tables, NoTables)
  BY LevelsAssumption DEF Aged, NoTables, Levels
<1> QED BY <1>1, <1>2 DEF AgedInv

(* Every step keeps the newer entries above the older ones. *)
LEMMA AgedStep ==
  ASSUME FilesInv, EntriesInv, OrderInv, MemoryInv, AgedInv, [Next]_vars
  PROVE  AgedInv'
<1>1. FilesInv' /\ TypeInv
  BY FilesStep DEF FilesInv
<1>2. CASE Quiet
  BY <1>2, AgesSame DEF Quiet
<1>3. CASE Switches \/ (\E seq : Begins(seq))
  BY <1>3, AgesSame DEF Switches, Begins, history, disk
<1>4. CASE Compacts
  BY <1>4, CompactsAged
<1>5. CASE Appends
  BY <1>5, AppendsAged
<1>6. CASE Installs
  BY <1>1, <1>6, InstallsAged
<1>7. CASE Closes
  BY <1>7, ClosesAged
<1>8. CASE \E level : Flushes(level)
  BY <1>1, <1>8, FlushesAged
<1>9. CASE \E level, inputs : Moves(level, inputs)
  BY <1>9, MovesAged
<1>10. CASE \E level, inputs : Picks(level, inputs)
  BY <1>10, PicksAged
<1>11. CASE \E first, rest, numbers : Works(first, rest, numbers)
  BY <1>1, <1>11, WorksAged
<1>12. CASE \E order, full, next : Recovers(order, full, next)
  BY <1>12, RecoversAged
<1> QED BY <1>1, <1>2, <1>3, <1>4, <1>5, <1>6, <1>7, <1>8, <1>9, <1>10, <1>11, <1>12, Steps

(* (version_set.cc:326 Version::Get, version_set.cc:1378 AddBoundaryInputs) While no refused
   edit was written again, in every version an upper level has the newer entries of a key, and in
   level 0 the table with the larger number; a compaction takes the oldest of its level. *)
THEOREM AgedAlways == Spec => []AgedInv
<1>1. Init => FilesInv /\ EntriesInv /\ OrderInv /\ MemoryInv /\ AgedInv
  BY FilesInit, EntriesInit, OrderInit, MemoryInit, AgedInit
<1>2. FilesInv /\ EntriesInv /\ OrderInv /\ MemoryInv /\ AgedInv /\ [Next]_vars
        => FilesInv' /\ EntriesInv' /\ OrderInv' /\ MemoryInv' /\ AgedInv'
  BY FilesStep, EntriesStep, OrderStep, MemoryStep, AgedStep
<1> QED BY <1>1, <1>2, PTL DEF Spec

(* What a read of the database looks at, and what one of a reader does. *)
Seen == db.mem \cup db.imm \cup Current
SeenBy(reader) == reader.mem \cup reader.imm \cup Contents(tables, Numbers(reader.version))
(* The numbers that somebody may read as of. *)
Snapshots == {db.lastSeq} \cup db.snapshots

\* The keys a compaction leaves older entries of.
LeavesBehind(c) ==
    LeftBehind(tables, c.version, c.level, c.lower, InputsOf(c), c.snapshot)
(* A reader is shown what was committed. *)
ReaderCovered(reader) ==
    /\ Layered(tables, reader.mem, reader.imm, reader.version)
    /\ reader.seq <= db.lastSeq
    /\ Shows(SeenBy(reader), committed, Keys \ left, reader.seq)
(* A compaction drops what no snapshot needs, and leaves behind what it says. *)
CompactionCovered(c) ==
    /\ \A s \in Snapshots : c.snapshot <= s
    /\ c.built => LeavesBehind(c) \subseteq left
(* So is whoever begins to read. *)
DbCovered == \A s \in Snapshots : Shows(Seen, committed, Keys \ left, s)
(* Everybody is shown what was committed. *)
CoverInv ==
    ~repeated =>
      /\ db.status = "open" => DbCovered
      /\ iterator # None => ReaderCovered(iterator)
      /\ bg.compaction # None => CompactionCovered(bg.compaction)

(* What may be dropped of the entries of fewer keys, or of what is not seen, changes nothing. *)
LEMMA ShowsSame ==
  ASSUME NEW U, NEW V, NEW C, NEW D, NEW keys, NEW fewer, fewer \subseteq keys, NEW s,
         \A e \in U \cup V : e.seq <= s => (e \in U <=> e \in V),
         \A e \in C \cup D : e.seq <= s => (e \in C <=> e \in D),
         Shows(U, C, keys, s)
  PROVE  Shows(V, D, fewer, s)
<1>1. \A key : Visible(V, key, s) = Visible(U, key, s) /\ Visible(D, key, s) = Visible(C, key, s)
  BY DEF Visible
<1>2. \A e \in V : e.seq <= s => e \in D
  BY DEF Shows
<1>3. ASSUME NEW key \in fewer, NEW e \in Latest(Visible(D, key, s))
      PROVE  e \in V \/ (e.kind = "delete" /\ Visible(V, key, s) = {})
  <2>1. e \in Latest(Visible(C, key, s)) /\ key \in keys
    BY <1>1, <1>3
  <2>2. e \in U \/ (e.kind = "delete" /\ Visible(U, key, s) = {})
    BY <2>1 DEF Shows, Covered
  <2>3. e \in C /\ e.seq <= s
    BY <2>1 DEF Latest, Visible
  <2> QED BY <1>1, <2>2, <2>3
<1> QED BY <1>2, <1>3 DEF Shows, Covered

(* Layers are a matter of what tables hold. *)
LEMMA LayeredSame ==
  ASSUME NEW store, NEW stored, NEW mem, NEW imm, NEW files, Layered(store, mem, imm, files),
         \A n \in Numbers(files) : stored[n] = store[n]
  PROVE  Layered(stored, mem, imm, files)
<1>1. Ordered(stored, files)
  BY OrderedSame DEF Layered
<1>2. Aged(stored, files)
  BY AgedSame DEF Layered
<1>3. Contents(stored, Numbers(files)) = Contents(store, Numbers(files))
  BY DEF Contents
<1> QED BY <1>1, <1>2, <1>3 DEF Layered

(* So is what a compaction drops and leaves behind. *)
LEMMA LeftSame ==
  ASSUME NEW store, NEW stored, NEW c, IsCompaction(c),
         \A n \in Numbers(c.version) : stored[n] = store[n]
  PROVE  LeftBehind(stored, c.version, c.level, c.lower, Contents(stored, c.upper \cup c.lower), c.snapshot)
         = LeftBehind(store, c.version, c.level, c.lower, Contents(store, c.upper \cup c.lower),
         c.snapshot)
<1>1. c.upper \subseteq Numbers(c.version) /\ c.lower \subseteq Numbers(c.version)
      /\ c.level + 1 \in Levels
      /\ \A l \in Levels : c.version[l] \subseteq Numbers(c.version)
  BY LevelsAssumption DEF IsCompaction, Compactions, Numbers, Levels
<1>2. Contents(stored, c.upper \cup c.lower) = Contents(store, c.upper \cup c.lower)
  BY <1>1 DEF Contents
<1>3. \A key : IsBaseLevelForKey(stored, c.version, c.level, key) <=> IsBaseLevelForKey(store, c.version, c.level, key)
  <2>1. \A l \in c.level + 2..MaxLevel : l \in Levels
    BY LevelsAssumption DEF IsCompaction, Compactions, Levels
  <2> QED BY <1>1, <2>1 DEF IsBaseLevelForKey
<1>4. \A E : ObsoleteDeletions(stored, c.version, c.level, E, c.snapshot)
             = ObsoleteDeletions(store, c.version, c.level, E, c.snapshot)
  BY <1>3 DEF ObsoleteDeletions
<1>5. \A n \in c.version[c.level + 1] \ c.lower : stored[n] = store[n]
  BY <1>1
<1> DEFINE E == Contents(store, c.upper \cup c.lower)
           D == ObsoleteDeletions(store, c.version, c.level, E, c.snapshot)
<1> HIDE DEF D, E
<1>6. {e \in D : \E n \in c.version[c.level + 1] \ c.lower : \E f \in stored[n] : f.key = e.key}
      = {e \in D : \E n \in c.version[c.level + 1] \ c.lower : \E f \in store[n] : f.key = e.key}
  BY <1>5
<1>7. LeftBehind(stored, c.version, c.level, c.lower, E, c.snapshot)
      = LeftBehind(store, c.version, c.level, c.lower, E, c.snapshot)
  BY <1>4, <1>6 DEF LeftBehind, D
<1> QED BY <1>2, <1>7 DEF E

(* Whatever a compaction that drops a deletion leaves of its key is newer. *)
LEMMA NothingOlder ==
  ASSUME FilesInv, EntriesInv, OrderInv, AgedInv, ~repeated, NEW c, c = bg.compaction, c # None,
         LeavesBehind(c) \subseteq left,
         NEW e \in ObsoleteDeletions(tables, c.version, c.level, InputsOf(c), c.snapshot),
         e.key \notin left,
         NEW l \in Levels, NEW n \in db.version[l], NEW g \in tables[n], g.key = e.key,
         ~(l = c.level /\ n \in c.upper), ~(l = c.level + 1 /\ n \in c.lower)
  PROVE  g.seq > e.seq
<1>1. IsCompaction(c) /\ c.level \in 0..MaxLevel - 1 /\ c.level \in Levels /\ c.level + 1 \in Levels
      /\ c.level \in Nat /\ l \in Nat /\ l \in 0..MaxLevel /\ MaxLevel \in Nat
  BY LevelsAssumption DEF FilesInv, TypeInv, BgType, IsCompaction, Compactions, Levels
<1>2. /\ Aged(tables, db.version) /\ CompactionAged(c) /\ CompactionOrder(c)
  BY DEF AgedInv, OrderInv
<1>3. /\ c.upper \subseteq db.version[c.level] /\ c.lower \subseteq db.version[c.level + 1]
      /\ c.upper \subseteq c.version[c.level] /\ c.lower \subseteq c.version[c.level + 1]
  BY <1>1, <1>2 DEF CompactionOrder, Fits, IsCompaction
<1>4. e \in InputsOf(c) /\ IsBaseLevelForKey(tables, c.version, c.level, e.key)
  BY DEF ObsoleteDeletions
<1>5. e \in Contents(tables, Numbers(c.version))
  BY <1>1, <1>3, <1>4 DEF InputsOf, Contents, Numbers
<1>6. (\E m \in c.upper : e \in tables[m]) \/ (\E m \in c.lower : e \in tables[m])
  BY <1>4, ContentsOf DEF InputsOf
<1>7. CASE n \notin c.version[l]
  BY <1>2, <1>5, <1>7 DEF CompactionAged, NewerByKey
<1>8. CASE n \in c.version[l] /\ l < c.level
  <2>1. l < c.level + 1
    BY <1>1, <1>8
  <2>2. \A m \in c.upper \cup c.lower : NewerByKey(tables[n], tables[m])
    BY <1>1, <1>2, <1>3, <1>8, <2>1 DEF Aged
  <2> QED BY <1>6, <2>2 DEF NewerByKey
<1>9. CASE n \in c.version[l] /\ l = c.level
  <2>1. CASE \E m \in c.upper : e \in tables[m]
    <3>1. n \in c.version[c.level] \ c.upper /\ NoOlderOutside(tables, c.version[c.level], c.upper)
      BY <1>2, <1>9 DEF CompactionAged
    <3> QED BY <2>1, <3>1 DEF NoOlderOutside
  <2>2. CASE \E m \in c.lower : e \in tables[m]
    <3>1. \A m \in c.lower : NewerByKey(tables[n], tables[m])
      BY <1>1, <1>2, <1>3, <1>9 DEF Aged
    <3> QED BY <2>2, <3>1 DEF NewerByKey
  <2> QED BY <1>6, <2>1, <2>2
<1>10. CASE n \in c.version[l] /\ l = c.level + 1
  <2>1. e.key \in LeavesBehind(c)
    BY <1>10 DEF LeavesBehind, LeftBehind
  <2> QED BY <2>1
<1>11. CASE n \in c.version[l] /\ l \in c.level + 2..MaxLevel
  <2>1. ~Overlaps(tables[n], e.key, e.key)
    BY <1>4, <1>11 DEF IsBaseLevelForKey
  <2>2. g.key >= e.key /\ g.key <= e.key
    <3>1. e.key \in Int
      <4>1. InputsOf(c) \subseteq Entries
        <5>1. InputsOf(c) \subseteq Contents(tables, Numbers(c.version))
          BY <1>1, <1>3 DEF InputsOf, Contents, Numbers
        <5>2. Numbers(c.version) \subseteq Held
          BY HeldVersions DEF FilesInv
        <5>3. Contents(tables, Numbers(c.version)) \subseteq Known
          BY <5>2 DEF Known, Stored, Contents
        <5> QED BY <5>1, <5>3, KnownTypes
      <4> QED BY <1>4, <4>1, KeysAssumption DEF Entries
    <3> QED BY <3>1
  <2> QED BY <2>1, <2>2 DEF Overlaps
<1>12. l < c.level \/ l = c.level \/ l = c.level + 1 \/ l \in c.level + 2..MaxLevel
  BY <1>1
<1> QED BY <1>7, <1>8, <1>9, <1>10, <1>11, <1>12

(* What is read once the edit is installed. *)
AfterSeen == db.mem \cup db.imm \cup AfterEdit

(* What a compaction drops nobody misses. *)
LEMMA CompactionShows ==
  ASSUME FilesInv, EntriesInv, OrderInv, MemoryInv, AgedInv, ~repeated,
         bg.edit # None, bg.edit.kind = "compact", NEW c, c = bg.compaction, c # None,
         LeavesBehind(c) \subseteq left, NEW s, c.snapshot <= s, s \in Nat,
         Shows(Seen, committed, Keys \ left, s)
  PROVE  Shows(AfterSeen, committed, Keys \ left, s)
<1>1. /\ AfterEdit \subseteq Current
      /\ \A e \in Current : e \in AfterEdit \/ (e \in InputsOf(c) /\ e \in DroppedBy(c))
      /\ \A e \in AfterEdit :
            \/ e \in InputsOf(c) /\ e \notin DroppedBy(c)
            \/ \E l \in Levels : \E n \in db.version[l] :
                  e \in tables[n] /\ ~(l = c.level /\ n \in c.upper) /\ ~(l = c.level + 1 /\ n \in c.lower)
  <2>1. EditMakes(bg.edit) /\ Builds(c) /\ TypeInv
    BY DEF MemoryInv, FilesInv
  <2>2. Fits(tables, db.version, c)
    BY DEF OrderInv, CompactionOrder
  <2> QED BY <2>1, <2>2, CompactContents
<1>2. AfterSeen \subseteq Seen
  BY <1>1 DEF AfterSeen, Seen
<1>3. \A e \in AfterSeen : e.seq <= s => e \in committed
  BY <1>2 DEF Shows
<1>4. InputsOf(c) \subseteq Current
  <2>1. /\ c.level \in Levels /\ c.level + 1 \in Levels
        /\ c.upper \subseteq db.version[c.level] /\ c.lower \subseteq db.version[c.level + 1]
    BY LevelsAssumption DEF OrderInv, CompactionOrder, Fits, FilesInv, TypeInv, BgType,
       IsCompaction,
       Compactions, Levels
  <2>2. c.upper \cup c.lower \subseteq Numbers(db.version)
    BY <2>1 DEF Numbers
  <2> QED BY <2>2 DEF InputsOf, Current, Contents
<1>5. Current \subseteq Known /\ Chain(Known) /\ Known \subseteq Entries
      /\ \A e \in Known : e.seq \in Nat
  <2>1. Numbers(db.version) \subseteq Held
    BY DEF Held
  <2>2. Contents(tables, Numbers(db.version)) \subseteq Contents(tables, Held)
    BY <2>1 DEF Contents
  <2> QED BY <2>2, KnownTypes DEF Current, Known, Stored, EntriesInv
<1>6. c.snapshot \in Nat
  BY DEF FilesInv, TypeInv, BgType, IsCompaction, Compactions
<1>7. NewerByKey(db.mem \cup db.imm, Current)
  BY ImmutableNewer
<1>8. Seen \subseteq Known
  BY <1>5 DEF Seen, Known, Stored
<1>9. ASSUME NEW key \in Keys \ left, NEW e \in Latest(Visible(committed, key, s))
      PROVE  e \in AfterSeen \/ (e.kind = "delete" /\ Visible(AfterSeen, key, s) = {})
  <2>1. /\ e \in committed /\ e.key = key /\ e.seq <= s
        /\ \A f \in committed : f.key = key /\ f.seq <= s => f.seq <= e.seq
    BY <1>9 DEF Latest, Visible
  <2>2. e \in Seen \/ (e.kind = "delete" /\ Visible(Seen, key, s) = {})
    BY <1>9 DEF Shows, Covered
  <2>3. CASE e \notin Seen
    <3>1. Visible(AfterSeen, key, s) = {}
      BY <1>2, <2>2, <2>3 DEF Visible
    <3> QED BY <2>2, <2>3, <3>1
  <2>4. CASE e \in Seen /\ e \notin AfterSeen
    <3>1. e \in Current /\ e \in InputsOf(c) /\ e \in DroppedBy(c) /\ e \in Known /\ e.seq \in Nat
      BY <1>1, <1>5, <2>4 DEF Seen, AfterSeen
    <3>2. e \notin Hidden(InputsOf(c), c.snapshot)
      <4> SUFFICES ASSUME NEW f \in InputsOf(c), f.key = e.key, e.seq < f.seq, f.seq <= c.snapshot
                   PROVE  FALSE
        BY DEF Hidden
      <4>1. f \in Seen /\ f.seq \in Nat
        BY <1>4, <1>5 DEF Seen
      <4>2. f.seq <= s
        BY <1>6, <4>1
      <4>3. f \in committed
        BY <4>1, <4>2 DEF Shows
      <4>4. f.seq <= e.seq
        BY <2>1, <4>2, <4>3
      <4> QED BY <3>1, <4>1, <4>4
    <3>3. /\ e \in ObsoleteDeletions(tables, c.version, c.level, InputsOf(c), c.snapshot)
          /\ e.kind = "delete" /\ e.seq <= c.snapshot
      BY <3>1, <3>2 DEF DroppedBy, Dropped, ObsoleteDeletions
    <3>4. Visible(AfterSeen, key, s) = {}
      <4> SUFFICES ASSUME NEW g \in AfterSeen, g.key = key, g.seq <= s PROVE FALSE
        BY DEF Visible
      <4>1. g \in committed /\ g \in Known /\ g.seq \in Nat /\ g.seq <= e.seq
        BY <1>2, <1>3, <1>5, <1>8, <2>1
      <4>2. ~(g.seq > e.seq)
        BY <3>1, <4>1
      <4>3. g \notin db.mem \cup db.imm
        BY <1>7, <2>1, <3>1, <4>2 DEF NewerByKey
      <4>4. g \in AfterEdit
        BY <4>3 DEF AfterSeen
      <4>5. CASE g \in InputsOf(c) /\ g \notin DroppedBy(c)
        <5>1. g # e
          BY <3>1, <4>5
        <5>2. g.seq # e.seq
          BY <1>5, <2>1, <3>1, <4>1, <5>1 DEF Chain
        <5>3. g.seq < e.seq
          BY <3>1, <4>1, <5>2
        <5>4. g \in Hidden(InputsOf(c), c.snapshot)
          BY <2>1, <3>1, <3>3, <4>5, <5>3 DEF Hidden
        <5> QED BY <4>5, <5>4 DEF DroppedBy, Dropped
      <4>6. CASE \E l \in Levels : \E n \in db.version[l] :
                  g \in tables[n] /\ ~(l = c.level /\ n \in c.upper) /\ ~(l = c.level + 1 /\ n \in c.lower)
        <5>1. PICK l \in Levels : \E n \in db.version[l] :
                  g \in tables[n] /\ ~(l = c.level /\ n \in c.upper) /\ ~(l = c.level + 1 /\ n \in c.lower)
          BY <4>6
        <5>2. PICK n \in db.version[l] :
                  g \in tables[n] /\ ~(l = c.level /\ n \in c.upper) /\ ~(l = c.level + 1 /\ n \in c.lower)
          BY <5>1
        <5>3. g.key = e.key /\ e.key \notin left
          BY <2>1
        <5>4. g.seq > e.seq
          BY <3>3, <5>2, <5>3, NothingOlder
        <5> QED BY <4>2, <5>4
      <4> QED BY <1>1, <4>4, <4>5, <4>6
    <3> QED BY <3>3, <3>4
  <2> QED BY <2>3, <2>4
<1> QED BY <1>3, <1>9 DEF Shows, Covered

(* No snapshot is ahead of the last number. *)
LEMMA SnapshotsBehind ==
  ASSUME FilesInv, EntriesInv, db.status # "closed"
  PROVE  \A s \in Snapshots : s \in Nat /\ s <= db.lastSeq /\ Oldest <= s
<1>1. db.lastSeq \in Nat /\ db.snapshots \subseteq Nat /\ \A s, t \in db.snapshots : s = t
  BY DEF FilesInv, TypeInv, DbType, Dbs
<1>2. \A s \in db.snapshots : s <= db.lastSeq
  BY DEF EntriesInv, SeqBounds
<1>3. CASE db.snapshots = {}
  BY <1>1, <1>3 DEF Oldest, Snapshots
<1>4. CASE db.snapshots # {}
  <2>1. PICK t \in db.snapshots : \A s \in db.snapshots : s = t
    BY <1>1, <1>4
  <2>2. \A u \in db.snapshots : t <= u
    BY <1>1, <2>1
  <2>3. Oldest \in db.snapshots
    BY <1>4, <2>1, <2>2 DEF Oldest
  <2>4. Oldest = t
    BY <2>1, <2>3
  <2> QED BY <1>1, <1>2, <2>1, <2>4 DEF Snapshots
<1> QED BY <1>3, <1>4

(* What a step leaves of the history: it adds only entries that are newer than all. *)
Grows ==
    /\ committed \subseteq committed'
    /\ \A e \in committed' \ committed : e.seq \in Nat /\ e.seq > db.lastSeq
    /\ left \subseteq left'
    /\ db.lastSeq <= db'.lastSeq
    /\ \A s \in Snapshots' : \E t \in Snapshots : t <= s

(* A reader reads what it read. *)
LEMMA ReaderStays ==
  ASSUME FilesInv, FilesInv', EntriesInv, [Next]_vars, iterator # None, iterator' = iterator,
         ReaderCovered(iterator), Grows
  PROVE  ReaderCovered(iterator)'
<1>1. /\ iterator \in Iterators /\ iterator.version \in Files /\ iterator.seq \in Nat
      /\ db.lastSeq \in Nat /\ db'.lastSeq \in Nat
  BY FileTypes DEF FilesInv, TypeInv, IteratorType, Iterators, DbType, Dbs
<1>2. \A n \in Numbers(iterator.version) : tables'[n] = tables[n]
  <2>1. \A n \in Numbers(iterator.version) : n \in Held /\ n \in Held'
    BY DEF Held, HeldByReader
  <2> QED BY <2>1, HeldStay
<1> DEFINE T == tables'
<1>3. \A n \in Numbers(iterator.version) : T[n] = tables[n]
  BY <1>2
<1>4. Layered(T, iterator.mem, iterator.imm, iterator.version)
  <2>1. Layered(tables, iterator.mem, iterator.imm, iterator.version)
    BY DEF ReaderCovered
  <2> HIDE DEF T
  <2> QED BY <1>3, <2>1, LayeredSame
<1>5. Contents(T, Numbers(iterator.version)) = Contents(tables, Numbers(iterator.version))
  <2> HIDE DEF T
  <2> QED BY <1>3 DEF Contents
<1>6. SeenBy(iterator)' = SeenBy(iterator)
  BY <1>5 DEF SeenBy
<1>7. iterator.seq <= db'.lastSeq
  BY <1>1 DEF ReaderCovered, Grows
<1>8. Shows(SeenBy(iterator), committed', Keys \ left', iterator.seq)
  <2> DEFINE U == SeenBy(iterator)
             C == committed
             D == committed'
             keys == Keys \ left
             fewer == Keys \ left'
             s == iterator.seq
  <2>1. Shows(U, C, keys, s) /\ fewer \subseteq keys
    BY DEF ReaderCovered, Grows
  <2>2. \A e \in C \cup D : e.seq <= s => (e \in C <=> e \in D)
    BY <1>1 DEF Grows, ReaderCovered
  <2>3. \A e \in U \cup U : e.seq <= s => (e \in U <=> e \in U)
    OBVIOUS
  <2> HIDE DEF U, C, D, keys, fewer, s
  <2>4. Shows(U, D, fewer, s)
    BY <2>1, <2>2, <2>3, ShowsSame
  <2> QED BY <2>4 DEF U, D, fewer, s
<1>9. Layered(tables', iterator'.mem, iterator'.imm, iterator'.version)
  BY <1>4 DEF T
<1>10. Shows(SeenBy(iterator)', committed', Keys \ left', iterator'.seq)
  BY <1>6, <1>8
<1> QED BY <1>7, <1>9, <1>10 DEF ReaderCovered

(* A compaction leaves behind what it left. *)
LEMMA CompactionStays ==
  ASSUME FilesInv, FilesInv', EntriesInv, [Next]_vars, bg.compaction # None,
         bg'.compaction = bg.compaction, CompactionCovered(bg.compaction), Grows
  PROVE  CompactionCovered(bg.compaction)'
<1> DEFINE c == bg.compaction
           T == tables'
<1>1. IsCompaction(c) /\ c.snapshot \in Nat
  BY DEF FilesInv, TypeInv, BgType, IsCompaction, Compactions
<1>2. \A n \in Numbers(c.version) : T[n] = tables[n]
  <2>1. \A n \in Numbers(c.version) : n \in Held /\ n \in Held'
    BY DEF Held, HeldByCompaction
  <2> QED BY <2>1, HeldStay
<1>3. LeftBehind(T, c.version, c.level, c.lower, Contents(T, c.upper \cup c.lower), c.snapshot)
      = LeavesBehind(c)
  <2> HIDE DEF T, c
  <2> QED BY <1>1, <1>2, LeftSame DEF LeavesBehind, InputsOf
<1>4. LeavesBehind(bg.compaction)' = LeavesBehind(bg.compaction)
  BY <1>3 DEF LeavesBehind, InputsOf
<1>5. bg.compaction.built => LeavesBehind(bg.compaction)' \subseteq left'
  BY <1>4 DEF CompactionCovered, Grows
<1>6. \A s \in Snapshots' : bg.compaction.snapshot <= s
  <2>1. \A s \in Snapshots : s \in Nat
    BY FileTypes DEF FilesInv, TypeInv, DbType, Dbs, Snapshots
  <2>2. \A s \in Snapshots' : s \in Nat
    BY DEF FilesInv, TypeInv, DbType, Dbs, Snapshots
  <2> TAKE s \in Snapshots'
  <2>3. PICK t \in Snapshots : t <= s
    BY DEF Grows
  <2>4. c.snapshot <= t
    BY DEF CompactionCovered
  <2> QED BY <1>1, <2>1, <2>2, <2>3, <2>4
<1> QED BY <1>5, <1>6 DEF CompactionCovered

(* No reader or compaction begins. *)
SameReaders ==
    /\ iterator' \in {iterator, None}
    /\ bg'.compaction \in {bg.compaction, None}

(* So most steps change only what the database shows. *)
LEMMA CoverKeeps ==
  ASSUME FilesInv, FilesInv', EntriesInv, [Next]_vars, CoverInv, Grows, SameReaders,
         ~repeated' /\ db'.status = "open" => DbCovered'
  PROVE  CoverInv'
<1>1. CASE repeated'
  BY <1>1 DEF CoverInv
<1>2. CASE ~repeated'
  <2>1. ~repeated
    <3>1. repeated => repeated'
      BY HeldStay
    <3> QED BY <1>2, <3>1
  <2>2. ASSUME iterator' # None PROVE ReaderCovered(iterator)'
    <3>1. iterator' = iterator /\ iterator # None /\ ReaderCovered(iterator)
      BY <2>1, <2>2 DEF SameReaders, CoverInv
    <3> QED BY <3>1, ReaderStays
  <2>3. ASSUME bg'.compaction # None PROVE CompactionCovered(bg.compaction)'
    <3>1. bg'.compaction = bg.compaction /\ bg.compaction # None /\ CompactionCovered(bg.compaction)
      BY <2>1, <2>3 DEF SameReaders, CoverInv
    <3> QED BY <3>1, CompactionStays
  <2> QED BY <1>2, <2>2, <2>3 DEF CoverInv
<1> QED BY <1>1, <1>2

(* What the database shows stays, where nothing of it changes. *)
LEMMA DbStays ==
  ASSUME CoverInv, ~repeated, db.status = "open", Snapshots' \subseteq Snapshots, Seen' = Seen,
         committed' = committed, left \subseteq left'
  PROVE  DbCovered'
<1> SUFFICES ASSUME NEW s \in Snapshots' PROVE Shows(Seen', committed', Keys \ left', s)
  BY DEF DbCovered
<1> DEFINE U == Seen
           C == committed
           keys == Keys \ left
           fewer == Keys \ left'
<1>1. Shows(U, C, keys, s) /\ fewer \subseteq keys
  BY DEF CoverInv, DbCovered
<1> HIDE DEF U, C, keys, fewer
<1>2. Shows(U, C, fewer, s)
  BY <1>1, ShowsSame
<1> QED BY <1>2 DEF U, C, fewer

(* So a step that leaves what the database shows keeps it all. *)
LEMMA StillCovered ==
  ASSUME FilesInv, FilesInv', EntriesInv, [Next]_vars, CoverInv, SameReaders,
         db'.status = db.status, db'.lastSeq = db.lastSeq, Snapshots' \subseteq Snapshots,
         Seen' = Seen, committed' = committed, left \subseteq left'
  PROVE  CoverInv'
<1>1. db.lastSeq \in Nat /\ \A s \in Snapshots : s \in Nat
  BY FileTypes DEF FilesInv, TypeInv, DbType, Dbs, Snapshots
<1>2. Grows
  BY <1>1 DEF Grows
<1>3. ASSUME ~repeated', db'.status = "open" PROVE DbCovered'
  <2>1. ~repeated
    BY <1>3, HeldStay
  <2> QED BY <1>3, <2>1, DbStays
<1> QED BY <1>2, <1>3, CoverKeeps

(* A step that gives out no number keeps what readers are shown. *)
LEMMA RestsCover ==
  ASSUME FilesInv, FilesInv', EntriesInv, [Next]_vars, CoverInv, Rests
  PROVE  CoverInv'
<1>1. Seen' = Seen
  <2>1. Current' = Current
    BY VersionsStay DEF Rests, Quiet
  <2> QED BY <2>1 DEF Seen, Rests, Quiet
<1>2. Snapshots' \subseteq Snapshots
  BY DEF Rests, Snapshots
<1> QED BY <1>1, <1>2, StillCovered DEF Rests, Quiet, SameReaders

(* A switch of the memtable keeps what readers are shown. *)
LEMMA SwitchesCover ==
  ASSUME FilesInv, FilesInv', EntriesInv, [Next]_vars, CoverInv, Switches
  PROVE  CoverInv'
<1>1. Seen' = Seen
  <2>1. Current' = Current
    BY VersionsStay DEF Switches
  <2> QED BY <2>1 DEF Seen, Switches
<1>2. Snapshots' \subseteq Snapshots
  BY DEF Switches, Snapshots
<1> QED BY <1>1, <1>2, StillCovered DEF Switches, SameReaders, history

(* An edit is made or written: nothing that is read changes. *)
LEMMA EditsCover ==
  ASSUME FilesInv, FilesInv', EntriesInv, [Next]_vars, CoverInv,
         \/ Compacts \/ Appends
         \/ \E level : Flushes(level)
         \/ \E level, inputs : Moves(level, inputs)
  PROVE  CoverInv'
<1>1. /\ db'.version = db.version /\ db'.mem = db.mem /\ db'.imm = db.imm
      /\ db'.status = db.status /\ db'.lastSeq = db.lastSeq /\ db'.snapshots = db.snapshots
      /\ SameReaders /\ committed' = committed /\ left' = left
  BY DEF Compacts, Appends, Flushes, Moves, SameVersion, SameReaders, history
<1>2. Seen' = Seen
  <2>1. Current' = Current
    BY <1>1, VersionsStay
  <2> QED BY <1>1, <2>1 DEF Seen
<1>3. Snapshots' \subseteq Snapshots
  BY <1>1 DEF Snapshots
<1> QED BY <1>1, <1>2, <1>3, StillCovered

(* The writers but for the one that inserts and the one that ends the write. *)
LEMMA WritersCover ==
  ASSUME FilesInv, FilesInv', EntriesInv, [Next]_vars, CoverInv, Quiet,
         BeginWrite \/ AddRecord \/ AddRecordFails \/ Sync
  PROVE  CoverInv'
<1>1. db' = db /\ committed' = committed
  BY DEF BeginWrite, AddRecord, AddRecordFails, Sync, history
<1>2. Seen' = Seen
  <2>1. Current' = Current
    BY <1>1, VersionsStay
  <2> QED BY <1>1, <2>1 DEF Seen
<1>3. Snapshots' \subseteq Snapshots
  BY <1>1 DEF Snapshots
<1> QED BY <1>1, <1>2, <1>3, StillCovered DEF Quiet, SameReaders

(* The entries of a group are newer than the last number. *)
LEMMA GroupNewer ==
  ASSUME FilesInv
  PROVE  \A e \in GroupEntries : e.seq \in Nat /\ e.seq > db.lastSeq /\ e.seq <= db.lastSeq + group
<1>1. WritersType /\ db.lastSeq \in Nat /\ group \in Nat
  BY FileTypes DEF FilesInv, TypeInv, WritersType
<1>2. \A e \in GroupEntries : e.seq \in db.lastSeq + 1..db.lastSeq + group
  BY <1>1, GroupEntriesFinite
<1> QED BY <1>1, <1>2

(* What is inserted is newer than every snapshot. *)
LEMMA InsertIntoCover ==
  ASSUME FilesInv, FilesInv', EntriesInv, [Next]_vars, CoverInv, Quiet, InsertInto
  PROVE  CoverInv'
<1>1. db \in Dbs /\ db.lastSeq \in Nat
  BY FileTypes DEF FilesInv, TypeInv, DbType
<1>2. db'.mem = db.mem \cup GroupEntries /\ db'.lastSeq = db.lastSeq /\ db'.snapshots = db.snapshots
  BY <1>1 DEF InsertInto, Dbs
<1>3. Seen' = Seen \cup GroupEntries
  <2>1. Current' = Current
    BY VersionsStay DEF Quiet
  <2> QED BY <1>2, <2>1 DEF Seen, Quiet
<1>4. UNCHANGED history /\ Snapshots' = Snapshots /\ SameReaders
  BY <1>2 DEF InsertInto, Snapshots, Quiet, SameReaders
<1>5. Grows
  <2>1. \A s \in Snapshots : s \in Nat
    BY FileTypes DEF FilesInv, TypeInv, DbType, Dbs, Snapshots
  <2> QED BY <1>1, <1>2, <1>4, <2>1 DEF Grows, history
<1>6. ASSUME ~repeated', db'.status = "open" PROVE DbCovered'
  <2>1. ~repeated /\ db.status = "open" /\ committed' = committed /\ left' = left
    BY <1>4, <1>6 DEF Quiet, history
  <2> SUFFICES ASSUME NEW s \in Snapshots PROVE Shows(Seen', committed', Keys \ left', s)
    BY <1>4 DEF DbCovered
  <2>2. s \in Nat /\ s <= db.lastSeq
    BY <2>1, SnapshotsBehind
  <2> DEFINE U == Seen
             V == Seen \cup GroupEntries
             C == committed
             keys == Keys \ left
  <2>3. Shows(U, C, keys, s)
    BY <2>1 DEF CoverInv, DbCovered
  <2>4. \A e \in U \cup V : e.seq <= s => (e \in U <=> e \in V)
    BY <1>1, <2>2, GroupNewer
  <2> HIDE DEF U, V, C, keys
  <2>5. Shows(V, C, keys, s)
    BY <2>3, <2>4, ShowsSame
  <2> QED BY <1>3, <2>1, <2>5 DEF V, C, keys
<1> QED BY <1>4, <1>5, <1>6, CoverKeeps

(* A later number shows what was added since, and nothing else. *)
LEMMA ShowsLater ==
  ASSUME NEW U, NEW C, NEW G, G \subseteq U, NEW keys, NEW s \in Nat, NEW t \in Nat, s <= t,
         \A e \in U : e.seq \in Nat /\ (e.seq <= s \/ e \in G),
         \A e \in C : e.seq \in Nat /\ e.seq <= s,
         \A e \in G : e.seq > s /\ e.seq <= t,
         Shows(U, C, keys, s)
  PROVE  Shows(U, C \cup G, keys, t)
<1>1. \A e \in U : e.seq <= t => e \in C \cup G
  BY DEF Shows
<1>2. ASSUME NEW key \in keys, NEW e \in Latest(Visible(C \cup G, key, t)), e \notin U
      PROVE  e.kind = "delete" /\ Visible(U, key, t) = {}
  <2>1. e \in C /\ e.key = key /\ e.seq <= s /\ e.seq \in Nat
    BY <1>2 DEF Latest, Visible
  <2>2. \A f \in C \cup G : f.key = key /\ f.seq <= t => f.seq <= e.seq
    BY <1>2 DEF Latest, Visible
  <2>3. \A f \in Visible(C, key, s) : f.seq <= e.seq
    BY <2>2 DEF Visible
  <2>4. e \in Latest(Visible(C, key, s))
    BY <2>1, <2>3 DEF Latest, Visible
  <2>5. e.kind = "delete" /\ Visible(U, key, s) = {}
    BY <1>2, <2>4 DEF Shows, Covered
  <2>6. ASSUME NEW f \in Visible(U, key, t) PROVE FALSE
    <3>1. f \in U /\ f.key = key /\ f.seq <= t /\ f.seq \in Nat
      BY <2>6 DEF Visible
    <3>2. ~(f.seq <= s)
      BY <2>5, <3>1 DEF Visible
    <3>3. f \in G
      BY <3>1, <3>2
    <3>4. f.seq <= e.seq
      BY <2>2, <3>1, <3>3
    <3> QED BY <2>1, <3>1, <3>2, <3>4
  <2> QED BY <2>5, <2>6
<1> QED BY <1>1, <1>2 DEF Shows, Covered

(* What is read and committed is no newer than the last number but for the group that is
   being written. *)
LEMMA SeenBounds ==
  ASSUME FilesInv, EntriesInv, db.status = "open"
  PROVE  /\ \A e \in Seen : e.seq \in Nat /\ (e.seq <= db.lastSeq \/ (stage = "written" /\ e \in GroupEntries))
         /\ \A e \in committed : e.seq \in Nat /\ e.seq <= db.lastSeq
<1>1. Current \subseteq Stored /\ db.imm \subseteq Stored /\ committed \subseteq Stored
  <2>1. Numbers(db.version) \subseteq Held
    BY DEF Held
  <2> QED BY <2>1 DEF Current, Stored, Contents
<1>2. \A e \in Stored \cup db.mem : e.seq \in Nat
  BY KnownTypes
<1>3. \A e \in Stored : e.seq <= db.lastSeq
  BY DEF EntriesInv, SeqBounds
<1>4. \A e \in db.mem : e.seq <= db.lastSeq \/ (stage = "written" /\ e \in GroupEntries)
  BY DEF EntriesInv, SeqBounds
<1> QED BY <1>1, <1>2, <1>3, <1>4 DEF Seen

(* The end of a write shows it to those who read from now on. *)
LEMMA EndWriteCover ==
  ASSUME FilesInv, FilesInv', EntriesInv, MemoryInv, [Next]_vars, CoverInv, Quiet, EndWrite
  PROVE  CoverInv'
<1>1. db \in Dbs /\ db.lastSeq \in Nat /\ group \in Nat
  BY FileTypes DEF FilesInv, TypeInv, DbType, WritersType
<1>2. db'.mem = db.mem /\ db'.lastSeq = db.lastSeq + group /\ db'.snapshots = db.snapshots
  BY <1>1 DEF EndWrite, Dbs
<1>3. Seen' = Seen
  <2>1. Current' = Current
    BY VersionsStay DEF Quiet
  <2> QED BY <1>2, <2>1 DEF Seen, Quiet
<1> DEFINE G == IF stage = "written" THEN GroupEntries ELSE {}
<1>4. committed' = committed \cup G /\ left' = left /\ repeated' = repeated
  BY DEF EndWrite, history
<1>5. \A e \in G : e.seq \in Nat /\ e.seq > db.lastSeq /\ e.seq <= db.lastSeq + group
  BY GroupNewer
<1>6. \A s \in Snapshots : s \in Nat
  BY FileTypes DEF FilesInv, TypeInv, DbType, Dbs, Snapshots
<1>7. Snapshots' = {db.lastSeq + group} \cup db.snapshots
  BY <1>2 DEF Snapshots
<1> HIDE DEF G
<1>8. Grows
  <2>1. \A s \in Snapshots' : \E t \in Snapshots : t <= s
    <3>1. db.lastSeq \in Snapshots /\ db.lastSeq <= db.lastSeq + group
      BY <1>1 DEF Snapshots
    <3>2. \A s \in db.snapshots : s \in Snapshots /\ s <= s
      BY <1>6 DEF Snapshots
    <3> QED BY <1>7, <3>1, <3>2
  <2> QED BY <1>1, <1>2, <1>4, <1>5, <2>1 DEF Grows
<1>9. ASSUME ~repeated', db'.status = "open" PROVE DbCovered'
  <2>1. ~repeated /\ db.status = "open" /\ MemoryLogs
    BY <1>4, <1>9 DEF Quiet, MemoryInv
  <2>2. G \subseteq Seen
    BY <2>1 DEF MemoryLogs, G, Seen
  <2> DEFINE U == Seen
             C == committed
             D == committed \cup G
             keys == Keys \ left
             t == db.lastSeq + group
             s0 == db.lastSeq
  <2>3. /\ \A e \in U : e.seq \in Nat /\ (e.seq <= s0 \/ e \in G)
        /\ \A e \in C : e.seq \in Nat /\ e.seq <= s0
    BY <2>1, SeenBounds DEF G
  <2>4. \A s \in Snapshots : Shows(U, C, keys, s)
    BY <2>1 DEF CoverInv, DbCovered
  <2>5. Shows(U, D, keys, t)
    <3>1. Shows(U, C, keys, s0)
      BY <2>4 DEF Snapshots
    <3>2. s0 \in Nat /\ t \in Nat /\ s0 <= t
      BY <1>1
    <3>3. \A e \in G : e.seq > s0 /\ e.seq <= t
      BY <1>5
    <3>4. G \subseteq U
      BY <2>2
    <3> HIDE DEF U, C, keys, t, s0
    <3>5. Shows(U, C \cup G, keys, t)
      BY <2>3, <3>1, <3>2, <3>3, <3>4, ShowsLater
    <3> QED BY <3>5 DEF C
  <2>6. ASSUME NEW s \in db.snapshots PROVE Shows(U, D, keys, s)
    <3>1. Shows(U, C, keys, s) /\ s <= s0 /\ s \in Nat
      BY <2>1, <2>4, SnapshotsBehind DEF Snapshots
    <3>2. \A e \in C \cup D : e.seq <= s => (e \in C <=> e \in D)
      BY <1>1, <1>5, <3>1
    <3> HIDE DEF U, C, D, keys
    <3> QED BY <3>1, <3>2, ShowsSame
  <2>7. ASSUME NEW s \in Snapshots' PROVE Shows(Seen', committed', Keys \ left', s)
    BY <1>3, <1>4, <1>7, <2>5, <2>6, <2>7
  <2> QED BY <2>7 DEF DbCovered
<1>10. SameReaders
  BY DEF Quiet, SameReaders
<1> QED BY <1>8, <1>9, <1>10, CoverKeeps

(* A reader that begins reads what the database shows. *)
LEMMA BeginsCover ==
  ASSUME FilesInv, FilesInv', EntriesInv, OrderInv, MemoryInv, AgedInv, [Next]_vars, CoverInv,
         NEW seq, Begins(seq)
  PROVE  CoverInv'
<1>0. ~repeated' => ~repeated
  BY DEF Begins, history
<1>1. SUFFICES ASSUME ~repeated, db.status = "open" PROVE CoverInv'
  BY <1>0 DEF CoverInv, Begins
<1>2. UNCHANGED <<tables, db, bg, committed, left, repeated>>
  BY DEF Begins, disk, history
<1>3. DbCovered /\ DbCovered'
  <2>1. DbCovered
    BY <1>1 DEF CoverInv
  <2>2. Seen' = Seen /\ Snapshots' = Snapshots
    BY <1>2 DEF Seen, Current, Snapshots
  <2> QED BY <1>2, <2>1, <2>2 DEF DbCovered
<1>4. ASSUME bg'.compaction # None PROVE CompactionCovered(bg.compaction)'
  <2>1. bg.compaction # None /\ CompactionCovered(bg.compaction)
    BY <1>1, <1>2, <1>4 DEF CoverInv
  <2>2. Snapshots' = Snapshots /\ LeavesBehind(bg.compaction)' = LeavesBehind(bg.compaction)
    BY <1>2 DEF Snapshots, LeavesBehind, InputsOf
  <2> QED BY <1>2, <2>1, <2>2 DEF CompactionCovered
<1> DEFINE r == [seq |-> seq, mem |-> db.mem, imm |-> db.imm, version |-> db.version]
<1>5. Layered(tables, db.mem, db.imm, db.version)
  <2>1. Ordered(tables, db.version) /\ Aged(tables, db.version)
    BY <1>1 DEF OrderInv, AgedInv
  <2>2. NewerByKey(db.mem \cup db.imm, Current) /\ NewerByKey(db.mem, db.imm)
    BY <1>1, ImmutableNewer
  <2> QED BY <2>1, <2>2 DEF Layered, Current
<1>6. seq \in Snapshots /\ seq <= db.lastSeq
  BY <1>1, SnapshotsBehind DEF Begins, Snapshots
<1>7. SeenBy(r) = Seen
  BY DEF SeenBy, Seen, Current
<1>8. ReaderCovered(r)
  BY <1>3, <1>5, <1>6, <1>7 DEF ReaderCovered, DbCovered
<1>9. iterator' = r
  BY DEF Begins
<1>10. ReaderCovered(iterator)'
  <2> HIDE DEF r
  <2>1. SeenBy(iterator)' = SeenBy(r)
    BY <1>2, <1>9 DEF SeenBy
  <2> QED BY <1>2, <1>8, <1>9, <2>1 DEF ReaderCovered
<1> QED BY <1>3, <1>4, <1>10 DEF CoverInv

(* A compaction that begins drops only what the oldest snapshot does not need. *)
LEMMA PicksCover ==
  ASSUME FilesInv, FilesInv', EntriesInv, [Next]_vars, CoverInv,
         NEW level, NEW inputs, Picks(level, inputs)
  PROVE  CoverInv'
<1>1. SUFFICES ASSUME ~repeated, db.status = "open" PROVE CoverInv'
  BY DEF CoverInv, Picks, history
<1>2. UNCHANGED <<tables, db, iterator, committed, left, repeated>>
  BY DEF Picks, disk, history
<1>3. Seen' = Seen /\ Snapshots' = Snapshots
  BY <1>2 DEF Seen, Current, Snapshots
<1>4. DbCovered'
  BY <1>1, <1>2, <1>3 DEF CoverInv, DbCovered
<1>5. ASSUME iterator' # None PROVE ReaderCovered(iterator)'
  <2>1. iterator # None /\ ReaderCovered(iterator)
    BY <1>1, <1>2, <1>5 DEF CoverInv
  <2>2. SeenBy(iterator)' = SeenBy(iterator)
    BY <1>2 DEF SeenBy
  <2> QED BY <1>2, <2>1, <2>2 DEF ReaderCovered
<1>6. bg'.compaction.snapshot = Oldest /\ bg'.compaction.built = FALSE
  BY DEF Picks
<1>7. \A s \in Snapshots : Oldest <= s
  BY <1>1, SnapshotsBehind
<1>8. CompactionCovered(bg.compaction)'
  BY <1>3, <1>6, <1>7 DEF CompactionCovered
<1> QED BY <1>4, <1>5, <1>8 DEF CoverInv

(* One that builds tables says what it leaves behind. *)
LEMMA WorksCover ==
  ASSUME FilesInv, FilesInv', EntriesInv, [Next]_vars, CoverInv,
         NEW first, NEW rest, NEW numbers, Works(first, rest, numbers)
  PROVE  CoverInv'
<1>1. SUFFICES ASSUME ~repeated, db.status = "open" PROVE CoverInv'
  BY DEF CoverInv, Works
<1> DEFINE c == bg.compaction
           T == tables'
<1>2. /\ db'.version = db.version /\ db'.mem = db.mem /\ db'.imm = db.imm
      /\ db'.status = db.status /\ db'.lastSeq = db.lastSeq /\ db'.snapshots = db.snapshots
      /\ UNCHANGED <<iterator, committed, repeated>>
      /\ c # None /\ IsCompaction(c)
      /\ left' = left \cup LeavesBehind(c)
  BY DEF Works, SameVersion, LeavesBehind, InputsOf
<1>3. Seen' = Seen /\ Snapshots' = Snapshots
  <2>1. Current' = Current
    BY <1>2, VersionsStay
  <2> QED BY <1>2, <2>1 DEF Seen, Snapshots
<1>4. DbCovered'
  BY <1>1, <1>2, <1>3, DbStays
<1>5. Grows
  <2>1. db.lastSeq \in Nat /\ \A s \in Snapshots : s \in Nat
    BY FileTypes DEF FilesInv, TypeInv, DbType, Dbs, Snapshots
  <2> QED BY <1>2, <1>3, <2>1 DEF Grows
<1>6. ASSUME iterator' # None PROVE ReaderCovered(iterator)'
  <2>1. iterator' = iterator /\ iterator # None /\ ReaderCovered(iterator)
    BY <1>1, <1>2, <1>6 DEF CoverInv
  <2> QED BY <1>5, <2>1, ReaderStays
<1>7. /\ bg'.compaction.level = c.level /\ bg'.compaction.upper = c.upper
      /\ bg'.compaction.lower = c.lower /\ bg'.compaction.version = c.version
      /\ bg'.compaction.snapshot = c.snapshot /\ bg'.compaction # None
  BY DEF Works
<1>8. \A n \in Numbers(c.version) : T[n] = tables[n]
  <2>1. \A n \in Numbers(c.version) : n \in Held /\ n \in Held'
    BY <1>2, <1>7 DEF Held, HeldByCompaction
  <2> QED BY <2>1, HeldStay
<1>9. LeftBehind(T, c.version, c.level, c.lower, Contents(T, c.upper \cup c.lower), c.snapshot)
      = LeavesBehind(c)
  <2> HIDE DEF T, c
  <2> QED BY <1>2, <1>8, LeftSame DEF LeavesBehind, InputsOf
<1>10. LeavesBehind(bg.compaction)' = LeavesBehind(c)
  BY <1>7, <1>9 DEF LeavesBehind, InputsOf
<1>11. \A s \in Snapshots : c.snapshot <= s
  BY <1>1, <1>2 DEF CoverInv, CompactionCovered
<1>12. CompactionCovered(bg.compaction)'
  BY <1>2, <1>3, <1>7, <1>10, <1>11 DEF CompactionCovered
<1> QED BY <1>4, <1>6, <1>12 DEF CoverInv

(* What an edit makes of a version shows what the version did. *)
LEMMA InstallsShows ==
  ASSUME FilesInv, FilesInv', EntriesInv, OrderInv, MemoryInv, AgedInv, [Next]_vars, CoverInv,
         Installs, ~repeated
  PROVE  DbCovered'
<1>1. /\ TypeInv /\ IsEdit(bg.edit) /\ bg.edit # None /\ EditMakes(bg.edit)
      /\ bg.edit.kind \in {"open", "flush", "move", "compact"}
      /\ db'.version = Applied(db.version, bg.edit)
      /\ bg.edit.kind = "open" <=> db.status = "opening"
      /\ db.status # "closed"
      /\ db'.imm = (IF bg.edit.kind = "flush" THEN {} ELSE db.imm)
      /\ db'.mem = db.mem /\ db'.lastSeq = db.lastSeq /\ db'.snapshots = db.snapshots
      /\ UNCHANGED <<committed, left>>
  BY DEF Installs, FilesInv, MemoryInv, IsEdit, Edits, history
<1>2. Current' = AfterEdit
  BY <1>1, VersionsStay
<1>3. Snapshots' = Snapshots
  BY <1>1 DEF Snapshots
<1>4. db.status \in {"opening", "open"}
  BY <1>1 DEF TypeInv, DbType, Dbs, Statuses
<1>5. CASE bg.edit.kind \in {"flush", "move"}
  <2>1. db.status = "open"
    BY <1>1, <1>4, <1>5
  <2>2. Seen' = Seen
    <3>1. CASE bg.edit.kind = "flush"
      <4>1. AfterEdit = Current \cup db.imm
        BY <1>1, <3>1, FlushContents
      <4> QED BY <1>1, <1>2, <3>1, <4>1 DEF Seen
    <3>2. CASE bg.edit.kind = "move"
      <4>1. AfterEdit = Current
        BY <1>1, <3>2, MoveContents
      <4> QED BY <1>1, <1>2, <3>2, <4>1 DEF Seen
    <3> QED BY <1>5, <3>1, <3>2
  <2> QED BY <1>1, <1>3, <2>1, <2>2, DbStays
<1>6. CASE bg.edit.kind = "compact"
  <2> DEFINE c == bg.compaction
  <2>1. db.status = "open"
    BY <1>1, <1>4, <1>6
  <2>2. c # None /\ c.built
    BY <1>1, <1>6 DEF TypeInv, BgType
  <2>3. LeavesBehind(c) \subseteq left /\ \A s \in Snapshots : c.snapshot <= s
    BY <2>2 DEF CoverInv, CompactionCovered
  <2>4. Seen' = AfterSeen
    BY <1>1, <1>2, <1>6 DEF Seen, AfterSeen
  <2> SUFFICES ASSUME NEW s \in Snapshots PROVE Shows(AfterSeen, committed, Keys \ left, s)
    BY <1>1, <1>3, <2>4 DEF DbCovered
  <2>5. s \in Nat
    BY <1>1, SnapshotsBehind
  <2>6. Shows(Seen, committed, Keys \ left, s)
    BY <2>1 DEF CoverInv, DbCovered
  <2>7. c.snapshot <= s
    BY <2>3
  <2> QED BY <1>1, <1>6, <2>2, <2>3, <2>5, <2>6, <2>7, CompactionShows
<1>7. CASE bg.edit.kind = "open"
  <2>1. db.status = "opening"
    BY <1>1, <1>7
  <2>2. db.mem = {} /\ db.imm = {}
    BY <2>1 DEF MemoryInv, MemoryLogs
  <2>3. committed = AfterEdit
    <3>1. AfterEdit = Contents(tables, Numbers(db.version) \cup Adds(bg.edit))
      BY <1>1, <1>7, OpenContents
    <3> QED BY <2>1, <3>1 DEF EntriesInv, RecoveredInv
  <2>4. Seen' = committed
    BY <1>1, <1>2, <1>7, <2>2, <2>3 DEF Seen
  <2> SUFFICES ASSUME NEW s PROVE Shows(committed, committed, Keys \ left, s)
    BY <1>1, <2>4 DEF DbCovered
  <2> QED BY DEF Shows, Covered, Latest, Visible
<1> QED BY <1>1, <1>5, <1>6, <1>7

(* An edit's end keeps what readers are shown. *)
LEMMA InstallsCover ==
  ASSUME FilesInv, FilesInv', EntriesInv, OrderInv, MemoryInv, AgedInv, [Next]_vars, CoverInv,
         Installs
  PROVE  CoverInv'
<1>1. /\ db'.lastSeq = db.lastSeq /\ db'.snapshots = db.snapshots
      /\ UNCHANGED <<iterator, committed, left, repeated>>
      /\ bg'.compaction \in {bg.compaction, None}
  BY DEF Installs, history
<1>2. Grows
  <2>1. db.lastSeq \in Nat /\ \A s \in Snapshots : s \in Nat
    BY FileTypes DEF FilesInv, TypeInv, DbType, Dbs, Snapshots
  <2>2. Snapshots' = Snapshots
    BY <1>1 DEF Snapshots
  <2> QED BY <1>1, <2>1, <2>2 DEF Grows
<1>3. SameReaders
  BY <1>1 DEF SameReaders
<1>4. ~repeated' /\ db'.status = "open" => DbCovered'
  BY <1>1, InstallsShows
<1> QED BY <1>2, <1>3, <1>4, CoverKeeps

(* Nothing is read at first. *)
LEMMA CoverInit ==
  ASSUME Init
  PROVE  CoverInv
BY DEF Init, CoverInv, Closed, Resting

(* Every step keeps what readers are shown. *)
LEMMA CoverStep ==
  ASSUME FilesInv, EntriesInv, OrderInv, MemoryInv, AgedInv, CoverInv, [Next]_vars
  PROVE  CoverInv'
<1>1. FilesInv' /\ TypeInv
  BY FilesStep DEF FilesInv
<1>2. CASE Rests
  BY <1>1, <1>2, RestsCover
<1>3. CASE Quiet /\ Writes
  BY <1>1, <1>3, WritersCover, InsertIntoCover, EndWriteCover DEF Writes
<1>4. CASE Switches
  BY <1>1, <1>4, SwitchesCover
<1>5. CASE Compacts \/ Appends \/ (\E level : Flushes(level)) \/ (\E level, inputs : Moves(level, inputs))
  BY <1>1, <1>5, EditsCover
<1>6. CASE Installs
  BY <1>1, <1>6, InstallsCover
<1>7. CASE Closes
  BY <1>7 DEF Closes, CoverInv
<1>8. CASE FailsToOpen
  BY <1>7, <1>8 DEF FailsToOpen
<1>9. CASE \E level, inputs : Picks(level, inputs)
  BY <1>1, <1>9, PicksCover
<1>10. CASE \E first, rest, numbers : Works(first, rest, numbers)
  BY <1>1, <1>10, WorksCover
<1>11. CASE \E seq : Begins(seq)
  BY <1>1, <1>11, BeginsCover
<1>12. CASE \E order, full, next : Recovers(order, full, next)
  BY <1>12 DEF Recovers, CoverInv
<1> QED BY <1>1, <1>2, <1>3, <1>4, <1>5, <1>6, <1>7, <1>8, <1>9, <1>10, <1>11, <1>12, AllSteps

(* (db_impl.cc:878 DoCompactionWork, db_impl.cc:1100 Get) While no refused edit was written
   again, what the database, every snapshot and every reader see shows what was committed as of
   their number, but for the keys of which a compaction left older entries behind. *)
THEOREM CoverAlways == Spec => []CoverInv
<1>1. Init => FilesInv /\ EntriesInv /\ OrderInv /\ MemoryInv /\ AgedInv /\ CoverInv
  BY FilesInit, EntriesInit, OrderInit, MemoryInit, AgedInit, CoverInit
<1>2. FilesInv /\ EntriesInv /\ OrderInv /\ MemoryInv /\ AgedInv /\ CoverInv /\ [Next]_vars
        => FilesInv' /\ EntriesInv' /\ OrderInv' /\ MemoryInv' /\ AgedInv' /\ CoverInv'
  BY FilesStep, EntriesStep, OrderStep, MemoryStep, AgedStep, CoverStep
<1> QED BY <1>1, <1>2, PTL DEF Spec

(* A read of what shows the history returns what the history does. *)
LEMMA ReadsShown ==
  ASSUME NEW files, Tidy(tables, files), Numbers(files) \subseteq DOMAIN tables, NEW mem, NEW imm,
         Layered(tables, mem, imm, files), mem \cup imm \subseteq Entries, NEW seq \in Nat,
         committed \in EntrySets, Chain(committed), NEW keys, keys \subseteq Keys,
         Shows(mem \cup imm \cup Contents(tables, Numbers(files)), committed, keys, seq)
  PROVE  ReadsAsOf(keys, mem, imm, files, seq)
<1> SUFFICES ASSUME NEW key \in keys
             PROVE  Value(Lookup(mem, imm, files, key, seq)) = Value(Latest(Visible(committed, key, seq)))
  BY DEF ReadsAsOf
<1> DEFINE U == mem \cup imm \cup Contents(tables, Numbers(files))
<1>1. Lookup(mem, imm, files, key, seq) = Latest(Visible(U, key, seq))
  BY LookupFinds
<1>2. Value(Latest(Visible(U, key, seq))) = Value(Latest(Visible(committed, key, seq)))
  <2> HIDE DEF U
  <2>1. Shows(U, committed, keys, seq)
    BY DEF U
  <2> QED BY <2>1, ShownValue
<1> QED BY <1>1, <1>2

(* What the invariants say is that a read returns the newest write. *)
LEMMA ReadsLatestHolds ==
  ASSUME FilesInv, EntriesInv, HistoryInv, OrderInv, MemoryInv, AgedInv, CoverInv
  PROVE  ReadsLatest
<1> SUFFICES ASSUME ~repeated PROVE ReadsLatestOf(Keys \ left)
  BY DEF ReadsLatest
<1>1. Keys \ left \subseteq Keys
  OBVIOUS
<1>2. committed \in EntrySets /\ Chain(committed)
  <2>1. committed \subseteq Known
    BY DEF Known, Stored
  <2> QED BY <2>1, ChainPart DEF EntriesInv, HistoryInv
<1>3. TypeInv /\ Known \subseteq Entries
  BY KnownTypes DEF FilesInv
<1>4. ASSUME db.status = "open", NEW seq \in {db.lastSeq} \cup db.snapshots
      PROVE  ReadsAsOf(Keys \ left, db.mem, db.imm, db.version, seq)
  <2>1. Numbers(db.version) \subseteq Held /\ db.version \in Files
    BY <1>3, HeldVersions
  <2>2. Tidy(tables, db.version)
    BY <2>1, VersionsTidy DEF TidyFacts
  <2>3. Numbers(db.version) \subseteq DOMAIN tables
    BY <1>3 DEF TypeInv, HeldInv
  <2>4. Layered(tables, db.mem, db.imm, db.version)
    <3>1. Ordered(tables, db.version) /\ Aged(tables, db.version)
      BY DEF OrderInv, AgedInv
    <3>2. NewerByKey(db.mem \cup db.imm, Current) /\ NewerByKey(db.mem, db.imm)
      BY ImmutableNewer
    <3> QED BY <3>1, <3>2 DEF Layered, Current
  <2>5. db.mem \cup db.imm \subseteq Entries
    BY <1>3 DEF Known, Stored
  <2>6. seq \in Nat /\ seq \in Snapshots
    BY <1>4, SnapshotsBehind DEF Snapshots
  <2>7. Shows(db.mem \cup db.imm \cup Contents(tables, Numbers(db.version)), committed, Keys \ left, seq)
    BY <1>4, <2>6 DEF CoverInv, DbCovered, Seen, Current
  <2> QED BY <1>1, <1>2, <2>2, <2>3, <2>4, <2>5, <2>6, <2>7, ReadsShown
<1>5. ASSUME iterator # None
      PROVE  ReadsAsOf(Keys \ left, iterator.mem, iterator.imm, iterator.version, iterator.seq)
  <2>1. Numbers(iterator.version) \subseteq Held /\ iterator.version \in Files /\ iterator.seq \in Nat
    BY <1>3, <1>5 DEF Held, HeldByReader, TypeInv, IteratorType, Iterators
  <2>2. Tidy(tables, iterator.version)
    BY <2>1, VersionsTidy DEF TidyFacts
  <2>3. Numbers(iterator.version) \subseteq DOMAIN tables
    BY <1>3, <1>5 DEF TypeInv, HeldInv
  <2>4. ReaderCovered(iterator)
    BY <1>5 DEF CoverInv
  <2>5. iterator.mem \cup iterator.imm \subseteq Entries
    BY <1>3, <1>5 DEF Known, Read
  <2>6. Layered(tables, iterator.mem, iterator.imm, iterator.version)
    BY <2>4 DEF ReaderCovered
  <2>7. Shows(iterator.mem \cup iterator.imm \cup Contents(tables, Numbers(iterator.version)), committed,
              Keys \ left, iterator.seq)
    BY <2>4 DEF ReaderCovered, SeenBy
  <2> QED BY <1>1, <1>2, <2>1, <2>2, <2>3, <2>5, <2>6, <2>7, ReadsShown
<1> QED BY <1>4, <1>5 DEF ReadsLatestOf

(* (db_impl.cc:1100 Get, db_impl.cc:1062 NewInternalIterator) In every reachable state of every
   instance a read finds every table of its version on disk and returns the newest write before
   its snapshot, whether it reads now, as of a snapshot, or with an older version, but for the
   keys in "left" and after an edit that followed a refused one that is on disk. *)
THEOREM ReadsLatestAlways == Spec => []ReadsLatest
<1>1. Init => FilesInv /\ HistoryInv /\ EntriesInv /\ OrderInv /\ MemoryInv /\ AgedInv /\ CoverInv
  BY FilesInit, HistoryInit, EntriesInit, OrderInit, MemoryInit, AgedInit, CoverInit
<1>2. FilesInv /\ HistoryInv /\ EntriesInv /\ OrderInv /\ MemoryInv /\ AgedInv /\ CoverInv /\ [Next]_vars
        => FilesInv' /\ HistoryInv' /\ EntriesInv' /\ OrderInv' /\ MemoryInv' /\ AgedInv' /\ CoverInv'
  BY FilesStep, HistoryStep, EntriesStep, OrderStep, MemoryStep, AgedStep, CoverStep
<1>3. FilesInv /\ HistoryInv /\ EntriesInv /\ OrderInv /\ MemoryInv /\ AgedInv /\ CoverInv => ReadsLatest
  BY ReadsLatestHolds
<1> QED BY <1>1, <1>2, <1>3, PTL DEF Spec

\* How much of a log is read whatever happens to the machine.
SurelyRead(log) == IF log.synced <= log.good THEN log.synced ELSE log.good
\* What recovery reads of the logs: surely after the process stopped, after the machine did, at most.
GoodLogs == UNION {FirstEntries(logs[n], logs[n].good) : n \in RecoverableLogs(logs)}
SyncedLogs == UNION {FirstEntries(logs[n], SurelyRead(logs[n])) : n \in RecoverableLogs(logs)}
AllLogs == UNION {LogEntries(logs[n]) : n \in RecoverableLogs(logs)}

\* A promise is kept: it or something newer is read, or a deletion has hidden it for good.
Kept(e, safe, stored, all, C) ==
    \/ e \in safe
    \/ \E r \in stored : r.key = e.key /\ r.seq >= e.seq
    \/ \E d \in C : /\ d.key = e.key /\ d.kind = "delete" /\ d.seq >= e.seq
                    /\ \A r \in stored \cup all : r.key = e.key => r.seq > d.seq
AllKept(P, safe, stored, all, C, gone) ==
    \A e \in P : e.key \notin gone => Kept(e, safe, stored, all, C)
Promised ==
    /\ AllKept(acked, GoodLogs, Manifested, AllLogs, committed, left)
    /\ AllKept(synced, SyncedLogs, Manifested, AllLogs, committed, left)

\* A log is read whole where nothing failed; a group that asks for a sync gets one.
LogsWhole == \A n \in DOMAIN logs : logs[n].torn \/ logs[n].good = Len(logs[n].records)
GroupSynced ==
    /\ \A i \in 1..group : queue[i].sync => queue[1].sync
    /\ stage \in {"insert", "written"} /\ queue[1].sync =>
          logs[db.logfile].synced = Len(logs[db.logfile].records)
WritesInv == LogsWhole /\ GroupSynced /\ synced \subseteq acked

\* What was promised of the logs in use is in the memory tables.
AckedHeld ==
    db.status = "open" =>
       /\ acked \cap LogEntries(logs[db.logfile]) \subseteq db.mem
       /\ db.imm # {} => acked \cap LogEntries(logs[db.logNumber]) \subseteq db.imm
\* The MANIFEST names a log the database still has.
ManifestLog ==
    /\ db.status # "closed" => manifest.log <= db.logfile
    /\ db.status = "open" /\ manifest.files = db.version => manifest.log = db.logNumber
KeptInv == ~repeated => ManifestLog /\ AckedHeld /\ Promised

(* What is kept stays so, as more is read, more is committed, and newer entries come. *)
LEMMA KeptMore ==
  ASSUME NEW P, NEW P2, NEW S, NEW S2, NEW T, NEW A, NEW A2, NEW C, NEW C2, NEW g, NEW g2,
         AllKept(P, S, T, A, C, g), S \subseteq S2, C \subseteq C2, g \subseteq g2,
         \A e \in P2 : e \in P \/ e \in S2,
         \A r \in A2 : r \in A \/ \A d \in C : r.seq > d.seq
  PROVE  AllKept(P2, S2, T, A2, C2, g2)
<1> SUFFICES ASSUME NEW e \in P2, e.key \notin g2, e \notin S2
             PROVE  Kept(e, S2, T, A2, C2)
  BY DEF AllKept, Kept
<1>1. e \in P /\ e \notin S /\ Kept(e, S, T, A, C)
  BY DEF AllKept
<1>2. CASE \E r \in T : r.key = e.key /\ r.seq >= e.seq
  BY <1>2 DEF Kept
<1>3. CASE \E d \in C : /\ d.key = e.key /\ d.kind = "delete" /\ d.seq >= e.seq
                        /\ \A r \in T \cup A : r.key = e.key => r.seq > d.seq
  <2>1. PICK d \in C : /\ d.key = e.key /\ d.kind = "delete" /\ d.seq >= e.seq
                       /\ \A r \in T \cup A : r.key = e.key => r.seq > d.seq
    BY <1>3
  <2>2. \A r \in T \cup A2 : r.key = e.key => r.seq > d.seq
    BY <2>1
  <2> QED BY <2>1, <2>2 DEF Kept
<1> QED BY <1>1, <1>2, <1>3 DEF Kept

(* So a step keeps the promises that leaves the MANIFEST and what the logs give. *)
LEMMA PromisesKept ==
  ASSUME FilesInv, FilesInv', EntriesInv, [Next]_vars, Promised,
         manifest' = manifest, committed \subseteq committed', left \subseteq left',
         GoodLogs \subseteq GoodLogs', SyncedLogs \subseteq SyncedLogs',
         \A e \in acked' : e \in acked \/ e \in GoodLogs',
         \A e \in synced' : e \in synced \/ e \in SyncedLogs',
         \A r \in AllLogs' : r \in AllLogs \/ \A d \in committed : r.seq > d.seq
  PROVE  Promised'
<1>1. Manifested' = Manifested
  BY VersionsStay
<1> DEFINE T == Manifested
           A == AllLogs
           A2 == AllLogs'
           G == GoodLogs
           G2 == GoodLogs'
           S == SyncedLogs
           S2 == SyncedLogs'
<1>2. AllKept(acked, G, T, A, committed, left) /\ AllKept(synced, S, T, A, committed, left)
  BY DEF Promised
<1> HIDE DEF T, A, A2, G, G2, S, S2
<1>3. AllKept(acked', G2, T, A2, committed', left')
  <2>1. G \subseteq G2 /\ (\A e \in acked' : e \in acked \/ e \in G2)
        /\ \A r \in A2 : r \in A \/ \A d \in committed : r.seq > d.seq
    BY DEF G, G2, A, A2
  <2> QED BY <1>2, <2>1, KeptMore
<1>4. AllKept(synced', S2, T, A2, committed', left')
  <2>1. S \subseteq S2 /\ (\A e \in synced' : e \in synced \/ e \in S2)
        /\ \A r \in A2 : r \in A \/ \A d \in committed : r.seq > d.seq
    BY DEF S, S2, A, A2
  <2> QED BY <1>2, <2>1, KeptMore
<1> QED BY <1>1, <1>3, <1>4 DEF Promised, T, A2, G2, S2

(* More records of a log have more entries. *)
LEMMA MoreEntries ==
  ASSUME NEW log, NEW i \in Nat, NEW j \in Nat, i <= j
  PROVE  FirstEntries(log, i) \subseteq FirstEntries(log, j)
<1> QED BY DEF FirstEntries

(* A log's numbers. *)
LEMMA LogNumbers ==
  ASSUME TypeInv, NEW n \in DOMAIN logs
  PROVE  /\ logs[n] \in Logs /\ n \in Nat
         /\ Len(logs[n].records) \in Nat /\ logs[n].records \in Seq(EntrySets)
         /\ logs[n].synced \in Nat /\ logs[n].synced <= Len(logs[n].records)
         /\ logs[n].good \in Nat /\ logs[n].good <= Len(logs[n].records)
         /\ logs[n].torn \in BOOLEAN
         /\ SurelyRead(logs[n]) \in Nat
         /\ SurelyRead(logs[n]) <= logs[n].synced /\ SurelyRead(logs[n]) <= logs[n].good
<1>1. logs[n] \in Logs /\ n \in Nat /\ {logs[n].synced, logs[n].good} \subseteq 0..Len(logs[n].records)
  BY DEF TypeInv, LogsType, FiniteParts
<1> QED BY <1>1 DEF Logs, SurelyRead

(* Where the same logs are read and no more of them, the promises stay. *)
LEMMA PromisesStay ==
  ASSUME FilesInv, FilesInv', EntriesInv, [Next]_vars, Promised,
         UNCHANGED <<manifest, committed, acked, synced>>, left \subseteq left',
         \A n \in DOMAIN logs : n >= manifest.log => n \in DOMAIN logs',
         \A n \in DOMAIN logs' : n >= manifest.log =>
            \/ n \in DOMAIN logs /\ logs'[n] = logs[n]
            \/ LogEntries(logs'[n]) = {} /\ n \notin DOMAIN logs
  PROVE  Promised'
<1>1. RecoverableLogs(logs)' = {n \in DOMAIN logs' : n >= manifest.log}
      /\ RecoverableLogs(logs) = {n \in DOMAIN logs : n >= manifest.log}
  BY DEF RecoverableLogs
<1>2. \A n \in RecoverableLogs(logs) : n \in RecoverableLogs(logs)' /\ logs'[n] = logs[n]
  BY <1>1
<1>3. GoodLogs \subseteq GoodLogs' /\ SyncedLogs \subseteq SyncedLogs'
  BY <1>2 DEF GoodLogs, SyncedLogs
<1>4. AllLogs' \subseteq AllLogs
  BY <1>1 DEF AllLogs
<1> QED BY <1>3, <1>4, PromisesKept

(* The log in use is the last one, and there while there are writers. *)
LEMMA WriterLog ==
  ASSUME FilesInv, db.status # "closed"
  PROVE  /\ db.logfile \in DOMAIN logs /\ db.logfile \in Nat
         /\ \A n \in DOMAIN logs : n \in Nat /\ n <= db.logfile
BY FileTypes DEF FilesInv, TypeInv, StatusInv, NumbersInv

(* There are writers only while the database is open. *)
LEMMA WritingOpen ==
  ASSUME TypeInv, stage \in Writing \/ queue # <<>>
  PROVE  db.status = "open" /\ group \in Nat /\ (stage \in Writing => group # 0 /\ queue # <<>>)
BY DEF TypeInv, StatusInv, WritersType, DbType, Dbs, Statuses

(* What an edit's end leaves of the logs. *)
LEMMA InstallsLogs ==
  ASSUME FilesInv, Installs
  PROVE  /\ DOMAIN logs' \subseteq DOMAIN logs
         /\ \A n \in DOMAIN logs' : logs'[n] = logs[n]
         /\ \A n \in DOMAIN logs : n >= bg.edit.log => n \in DOMAIN logs'
<1>1. CASE UNCHANGED <<tables, logs>>
  BY <1>1
<1>2. CASE DeleteObsoleteFiles(db', bg'.compaction)
  <2>1. db'.logNumber = bg.edit.log
    BY DEF Installs
  <2> QED BY <1>2, <2>1, DeletedTypes DEF FilesInv, TypeInv
<1> QED BY <1>1, <1>2 DEF Installs

(* What the writers do to the log in use. *)
LEMMA AddRecordLog ==
  ASSUME FilesInv, AddRecord
  PROVE  LET l == db.logfile IN
         /\ db.status = "open" /\ l \in DOMAIN logs
         /\ DOMAIN logs' = DOMAIN logs /\ \A n \in DOMAIN logs : n # l => logs'[n] = logs[n]
         /\ logs'[l].records = Append(logs[l].records, GroupEntries)
         /\ logs'[l].good = IF logs[l].torn THEN logs[l].good ELSE Len(logs[l].records) + 1
         /\ logs'[l].synced = logs[l].synced /\ logs'[l].torn = logs[l].torn
<1> DEFINE l == db.logfile
<1>1. db.status = "open" /\ l \in DOMAIN logs
  BY WritingOpen, WriterLog DEF AddRecord, Writing, FilesInv
<1>2. logs[l] \in Logs
  BY <1>1, LogNumbers DEF FilesInv
<1> DEFINE r == Append(logs[l].records, GroupEntries)
           g == IF logs[l].torn THEN logs[l].good ELSE Len(logs[l].records) + 1
<1>3. logs' = [logs EXCEPT ![l].records = r, ![l].good = g]
  BY DEF AddRecord
<1> HIDE DEF r, g
<1>4. /\ DOMAIN logs' = DOMAIN logs /\ \A n \in DOMAIN logs : n # l => logs'[n] = logs[n]
      /\ logs'[l].records = r /\ logs'[l].good = g
      /\ logs'[l].synced = logs[l].synced /\ logs'[l].torn = logs[l].torn
  BY <1>1, <1>2, <1>3 DEF Logs
<1> QED BY <1>1, <1>4 DEF r, g

(* What a sync does to it. *)
LEMMA SyncLog ==
  ASSUME FilesInv, Sync
  PROVE  LET l == db.logfile IN
         /\ db.status = "open" /\ l \in DOMAIN logs
         /\ DOMAIN logs' = DOMAIN logs /\ \A n \in DOMAIN logs : n # l => logs'[n] = logs[n]
         /\ logs'[l].records = logs[l].records /\ logs'[l].synced = Len(logs[l].records)
         /\ logs'[l].good = logs[l].good /\ logs'[l].torn = logs[l].torn
<1> DEFINE l == db.logfile
<1>1. db.status = "open" /\ l \in DOMAIN logs
  BY WritingOpen, WriterLog DEF Sync, Writing, FilesInv
<1>2. logs[l] \in Logs
  BY <1>1, LogNumbers DEF FilesInv
<1> DEFINE s == Len(logs[l].records)
<1>3. logs' = [logs EXCEPT ![l].synced = s]
  BY DEF Sync
<1> HIDE DEF s
<1>4. /\ DOMAIN logs' = DOMAIN logs /\ \A n \in DOMAIN logs : n # l => logs'[n] = logs[n]
      /\ logs'[l].records = logs[l].records /\ logs'[l].synced = s
      /\ logs'[l].good = logs[l].good /\ logs'[l].torn = logs[l].torn
  BY <1>1, <1>2, <1>3 DEF Logs
<1> QED BY <1>1, <1>4 DEF s

(* What a failed record does to it. *)
LEMMA TornLog ==
  ASSUME FilesInv, AddRecordFails
  PROVE  LET l == db.logfile IN
         /\ db.status = "open" /\ l \in DOMAIN logs
         /\ DOMAIN logs' = DOMAIN logs /\ \A n \in DOMAIN logs : n # l => logs'[n] = logs[n]
         /\ logs'[l].records = logs[l].records /\ logs'[l].synced = logs[l].synced
         /\ logs'[l].good = logs[l].good /\ logs'[l].torn = TRUE
<1> DEFINE l == db.logfile
<1>1. db.status = "open" /\ l \in DOMAIN logs
  BY WritingOpen, WriterLog DEF AddRecordFails, Writing, FilesInv
<1>2. logs[l] \in Logs
  BY <1>1, LogNumbers DEF FilesInv
<1>3. logs' = [logs EXCEPT ![l].torn = TRUE]
  BY DEF AddRecordFails
<1> QED BY <1>1, <1>2, <1>3 DEF Logs

(* Where nothing fails a log is read whole. *)
LEMMA WholeStep ==
  ASSUME FilesInv, FilesInv', [Next]_vars, LogsWhole
  PROVE  LogsWhole'
<1>1. TypeInv
  BY DEF FilesInv
<1>2. CASE /\ DOMAIN logs' \subseteq DOMAIN logs
           /\ \A n \in DOMAIN logs' : logs'[n] = logs[n]
  BY <1>2 DEF LogsWhole
<1>3. CASE AddRecord
  <2> DEFINE l == db.logfile
  <2>1. l \in DOMAIN logs /\ Len(logs[l].records) \in Nat /\ logs[l].records \in Seq(EntrySets)
    BY <1>1, <1>3, AddRecordLog, LogNumbers
  <2>2. Len(Append(logs[l].records, GroupEntries)) = Len(logs[l].records) + 1
    <3>1. GroupEntries \in EntrySets
      BY <1>1, FileTypes, GroupEntriesFinite DEF TypeInv
    <3> QED BY <2>1, <3>1
  <2>3. logs'[l].torn \/ logs'[l].good = Len(logs'[l].records)
    BY <1>3, <2>2, AddRecordLog
  <2> QED BY <1>3, <2>3, AddRecordLog DEF LogsWhole
<1>4. CASE Sync
  BY <1>4, SyncLog DEF LogsWhole
<1>5. CASE AddRecordFails
  BY <1>5, TornLog DEF LogsWhole
<1>6. CASE \E n : logs' = With(logs, n, EmptyLog)
  <2>1. EmptyLog.good = Len(EmptyLog.records)
    BY DEF EmptyLog
  <2> QED BY <1>6, <2>1 DEF With, LogsWhole
<1>7. CASE \E lengths : Closes /\ Keeps(lengths)
  <2>1. PICK lengths : Closes /\ Keeps(lengths)
    BY <1>7
  <2> SUFFICES ASSUME NEW n \in DOMAIN logs PROVE logs'[n].good = Len(logs'[n].records)
    BY <2>1 DEF LogsWhole, Closes
  <2>2. /\ lengths[n] \in 0..Len(logs[n].records)
        /\ logs'[n] = [records |-> SubSeq(logs[n].records, 1, lengths[n]),
                       synced |-> lengths[n], good |-> lengths[n], torn |-> FALSE]
    BY <2>1 DEF Keeps
  <2>3. logs[n].records \in Seq(EntrySets)
    BY <1>1, LogNumbers
  <2>4. Len(SubSeq(logs[n].records, 1, lengths[n])) = lengths[n]
    BY <2>2, <2>3
  <2> QED BY <2>2, <2>4
<1>8. CASE Rests \/ FailsToOpen \/ Compacts \/ Appends
           \/ (\E level : Flushes(level)) \/ (\E level, inputs : Moves(level, inputs) \/ Picks(level, inputs))
           \/ (\E first, rest, numbers : Works(first, rest, numbers)) \/ \E seq : Begins(seq)
  BY <1>2, <1>8 DEF Rests, FailsToOpen, Compacts, Appends, Flushes, Moves, Picks, Works, Begins,
     disk
<1>9. CASE Quiet /\ Writes
  <2>1. CASE BeginWrite \/ InsertInto \/ EndWrite
    BY <1>2, <2>1 DEF BeginWrite, InsertInto, EndWrite, disk
  <2> QED BY <1>3, <1>4, <1>5, <1>9, <2>1 DEF Writes
<1>10. CASE Installs
  BY <1>2, <1>10, InstallsLogs
<1>11. CASE Switches
  BY <1>6, <1>11 DEF Switches
<1>12. CASE \E order, full, next : Recovers(order, full, next)
  BY <1>6, <1>12 DEF Recovers
<1> QED BY <1>1, <1>7, <1>8, <1>9, <1>10, <1>11, <1>12, AllSteps

(* The group that is written, and the log it is written to, stay while it is. *)
LEMMA GroupStays ==
  ASSUME TypeInv, GroupSynced, group' = group,
         \A i \in 1..group : queue'[i] = queue[i],
         stage' \in {"insert", "written"} => stage' = stage /\ logs'[db'.logfile] = logs[db.logfile]
  PROVE  GroupSynced'
<1>1. group \in Nat /\ (stage \in Writing => group # 0)
  BY DEF TypeInv, WritersType
<1>2. \A i \in 1..group' : queue'[i].sync => queue'[1].sync
  BY <1>1 DEF GroupSynced
<1>3. ASSUME stage' \in {"insert", "written"}, queue'[1].sync
      PROVE  logs'[db'.logfile].synced = Len(logs'[db'.logfile].records)
  <2>1. stage \in {"insert", "written"} /\ group # 0
    BY <1>1, <1>3 DEF Writing
  <2>2. queue'[1] = queue[1]
    BY <1>1, <2>1
  <2> QED BY <1>3, <2>1, <2>2 DEF GroupSynced
<1> QED BY <1>2, <1>3 DEF GroupSynced

(* No synced write joins a group that is not synced, and a synced group is on disk before
   it is inserted. *)
LEMMA GroupSyncedStep ==
  ASSUME FilesInv, FilesInv', [Next]_vars, GroupSynced
  PROVE  GroupSynced'
<1>1. TypeInv
  BY DEF FilesInv
<1>2. CASE Rests
  <2>1. /\ group' = group /\ logs' = logs /\ db'.logfile = db.logfile
        /\ \A i \in 1..group : queue'[i] = queue[i]
    BY <1>2 DEF Rests, Quiet
  <2>2. stage' \in {"insert", "written"} => stage' = stage
    BY <1>2 DEF Rests
  <2> QED BY <1>1, <2>1, <2>2, GroupStays
<1>3. CASE \/ Compacts \/ Appends
           \/ (\E level : Flushes(level)) \/ (\E level, inputs : Moves(level, inputs) \/ Picks(level, inputs))
           \/ (\E first, rest, numbers : Works(first, rest, numbers)) \/ \E seq : Begins(seq)
  <2>1. UNCHANGED <<logs, queue, stage, group>> /\ db'.logfile = db.logfile
    BY <1>3 DEF Compacts, Appends, Flushes, Moves, Picks, Works, Begins, SameVersion, disk, writers
  <2> QED BY <1>1, <2>1, GroupStays
<1>4. CASE Quiet /\ Writes
  <2>1. CASE BeginWrite
    <3>1. stage' = "append" /\ queue' = queue /\ \A i \in 1..group' : queue[i].sync => queue[1].sync
      BY <2>1 DEF BeginWrite, BuildBatchGroup, MayJoin
    <3> QED BY <3>1 DEF GroupSynced
  <2>2. CASE AddRecord
    <3>1. queue' = queue /\ group' = group /\ stage' = IF queue[1].sync THEN "sync" ELSE "insert"
      BY <2>2 DEF AddRecord
    <3> QED BY <3>1 DEF GroupSynced
  <2>3. CASE AddRecordFails
    <3>1. queue' = queue /\ group' = group /\ stage' = "failed"
      BY <2>3 DEF AddRecordFails
    <3> QED BY <3>1 DEF GroupSynced
  <2>4. CASE Sync
    <3>1. queue' = queue /\ group' = group /\ db' = db
      BY <2>4 DEF Sync
    <3>2. logs'[db.logfile].synced = Len(logs'[db.logfile].records)
      BY <2>4, SyncLog
    <3> QED BY <3>1, <3>2 DEF GroupSynced
  <2>5. CASE InsertInto
    <3>1. queue' = queue /\ group' = group /\ logs' = logs /\ stage = "insert" /\ stage' = "written"
      BY <2>5 DEF InsertInto, disk
    <3>2. db'.logfile = db.logfile
      BY <1>4 DEF Quiet
    <3> QED BY <3>1, <3>2 DEF GroupSynced
  <2>6. CASE EndWrite
    <3>1. group' = 0 /\ stage' = "front"
      BY <2>6 DEF EndWrite, Return
    <3> QED BY <3>1 DEF GroupSynced
  <2> QED BY <1>4, <2>1, <2>2, <2>3, <2>4, <2>5, <2>6 DEF Writes
<1>5. CASE Switches
  <2>1. stage' = "append" /\ queue' = queue /\ \A i \in 1..group' : queue[i].sync => queue[1].sync
    BY <1>5 DEF Switches
  <2> QED BY <2>1 DEF GroupSynced
<1>6. CASE Installs
  <2>1. /\ queue' = queue /\ group' = group /\ (stage' = stage \/ stage' = "front")
        /\ db'.logfile = db.logfile /\ db'.status # "closed"
    BY <1>6 DEF Installs
  <2>2. db'.logfile \in DOMAIN logs'
    BY <2>1 DEF FilesInv, TypeInv, StatusInv
  <2>3. logs'[db.logfile] = logs[db.logfile]
    BY <1>6, <2>1, <2>2, InstallsLogs
  <2> QED BY <1>1, <2>1, <2>3, GroupStays
<1>7. CASE Closes
  BY <1>7 DEF Closes, GroupSynced
<1>8. CASE FailsToOpen
  BY <1>7, <1>8 DEF FailsToOpen
<1>9. CASE \E order, full, next : Recovers(order, full, next)
  <2>1. UNCHANGED <<queue, stage, group>> /\ db.status = "closed"
    BY <1>9 DEF Recovers, writers
  <2>2. stage \notin Writing
    BY <1>1, <2>1, WritingOpen
  <2> QED BY <2>1, <2>2 DEF GroupSynced, Writing
<1> QED BY <1>1, <1>2, <1>3, <1>4, <1>5, <1>6, <1>7, <1>8, <1>9, AllSteps

(* What was synced was written. *)
LEMMA WritesStep ==
  ASSUME FilesInv, FilesInv', [Next]_vars, WritesInv
  PROVE  WritesInv'
<1>1. synced' \subseteq acked'
  <2>1. CASE UNCHANGED <<committed, acked, synced>>
    BY <2>1 DEF WritesInv
  <2>2. CASE EndWrite
    <3>1. CASE stage = "written" /\ ~logs[db.logfile].torn
      BY <2>2, <3>1 DEF EndWrite, SyncedEntries, WritesInv
    <3>2. CASE stage = "written" /\ logs[db.logfile].torn
      BY <2>2, <3>2 DEF EndWrite, WritesInv
    <3>3. CASE stage # "written"
      BY <2>2, <3>3 DEF EndWrite, history, WritesInv
    <3> QED BY <3>1, <3>2, <3>3
  <2>3. CASE Crash
    BY <2>3 DEF Crash
  <2> QED BY <2>1, <2>2, <2>3, HistorySame
<1> QED BY <1>1, WholeStep, GroupSyncedStep DEF WritesInv

(* A flush makes a new version. *)
LEMMA FlushDiffers ==
  ASSUME FilesInv, MemoryInv, ~repeated, bg.edit # None, bg.edit.kind = "flush"
  PROVE  Applied(db.version, bg.edit) # db.version
<1> SUFFICES ASSUME Applied(db.version, bg.edit) = db.version PROVE FALSE
  OBVIOUS
<1>1. EditMakes(bg.edit) /\ TypeInv
  BY DEF MemoryInv, FilesInv
<1>2. AfterEdit = Current \cup db.imm /\ db.imm # {}
  BY <1>1, FlushContents DEF EditMakes
<1>3. AfterEdit = Current
  BY DEF AfterEdit, Current
<1>4. NewerByKey(db.imm, Current)
  BY ImmutableNewer DEF NewerByKey
<1>5. PICK e \in db.imm : e \in Current /\ e.seq > e.seq
  BY <1>2, <1>3, <1>4 DEF NewerByKey
<1>6. db.imm \subseteq Entries
  BY <1>1 DEF TypeInv, DbType, Dbs, EntrySets, FiniteParts
<1> QED BY <1>5, <1>6 DEF Entries

(* An edit in the MANIFEST names the log that the database begins with, once it is installed. *)
LEMMA EditLog ==
  ASSUME FilesInv, MemoryInv, ~repeated, bg.edit # None
  PROVE  /\ bg.edit.kind \in {"open", "flush", "move", "compact"}
         /\ bg.edit.log \in Nat /\ bg.edit.log <= db.logfile
         /\ db.status \in {"opening", "open"}
         /\ bg.edit.kind = "open" <=> db.status = "opening"
         /\ bg.edit.kind \in {"move", "compact"} => bg.edit.log = db.logNumber
         /\ bg.edit.kind \in {"open", "flush"} => bg.edit.log = db.logfile
         /\ bg.edit.state = "written" => manifest.log = bg.edit.log
<1>1. TypeInv /\ NumbersInv /\ EditMakes(bg.edit)
  BY DEF FilesInv, MemoryInv
<1>2. db.status # "closed" /\ db.status \in Statuses
  BY <1>1 DEF TypeInv, StatusInv, Resting, DbType, Dbs
<1>3. bg.edit.kind \in {"open", "flush", "move", "compact"} /\ bg.edit.log \in Nat
  BY <1>1, FileTypes DEF IsEdit, Edits
<1>4. bg.edit.kind = "open" <=> db.status = "opening"
  BY <1>1, <1>2 DEF TypeInv, StatusInv, Statuses
<1> QED BY <1>1, <1>2, <1>3, <1>4 DEF Statuses, TypeInv, StatusInv, NumbersInv, EditMakes

(* Every step keeps the log that the MANIFEST names. *)
LEMMA ManifestLogStep ==
  ASSUME FilesInv, FilesInv', EntriesInv, MemoryInv, [Next]_vars, ManifestLog, ~repeated, ~repeated'
  PROVE  ManifestLog'
<1>1. TypeInv /\ NumbersInv
  BY DEF FilesInv
<1>2. CASE /\ manifest' = manifest /\ db'.version = db.version /\ db'.logNumber = db.logNumber
           /\ db'.status = db.status
           /\ db'.logfile = db.logfile
  BY <1>2 DEF ManifestLog
<1>3. CASE Rests \/ (Quiet /\ Writes)
  BY <1>2, <1>3 DEF Rests, Quiet
<1>4. CASE \/ Compacts
           \/ (\E level : Flushes(level)) \/ (\E level, inputs : Moves(level, inputs) \/ Picks(level, inputs))
           \/ (\E first, rest, numbers : Works(first, rest, numbers)) \/ \E seq : Begins(seq)
  <2>1. CASE Compacts \/ (\E level, inputs : Moves(level, inputs) \/ Picks(level, inputs))
             \/ \E seq : Begins(seq)
    BY <1>2, <2>1 DEF Compacts, Moves, Picks, Begins, disk
  <2>2. CASE (\E level : Flushes(level)) \/ \E first, rest, numbers : Works(first, rest, numbers)
    <3>1. manifest' = manifest /\ SameVersion
      BY <2>2 DEF Flushes, Works
    <3> QED BY <1>2, <3>1 DEF SameVersion
  <2> QED BY <1>4, <2>1, <2>2
<1>5. CASE Switches
  <2>1. /\ db.status = "open" /\ db'.logfile = db.nextFile /\ manifest' = manifest
        /\ db'.version = db.version /\ db'.logNumber = db.logNumber /\ db'.status = db.status
    BY <1>5 DEF Switches
  <2>2. db.logfile < db.nextFile /\ db.logfile \in Nat /\ db.nextFile \in Nat /\ manifest.log \in Nat
    BY <1>1, <2>1, FileTypes DEF TypeInv, StatusInv
  <2> QED BY <2>1, <2>2 DEF ManifestLog
<1>6. CASE Appends
  <2>1. UNCHANGED db /\ bg.edit # None
    BY <1>6 DEF Appends
  <2>2. CASE AppendEdit
    <3>1. /\ manifest.files = db.version /\ manifest'.log = bg.edit.log
          /\ manifest'.files = Applied(db.version, bg.edit)
      BY <2>2 DEF AppendEdit
    <3>2. db.status = "open" /\ manifest'.files = db.version => bg.edit.log = db.logNumber
      BY <2>1, <3>1, EditLog, FlushDiffers
    <3> QED BY <2>1, <3>1, <3>2, EditLog DEF ManifestLog
  <2>3. CASE manifest' = manifest
    BY <1>2, <2>1, <2>3
  <2> QED BY <1>6, <2>2, <2>3 DEF Appends
<1>7. CASE Installs
  <2>1. /\ bg.edit # None /\ bg.edit.state = "written" /\ db'.logNumber = bg.edit.log
        /\ db'.logfile = db.logfile /\ manifest' = manifest
    BY <1>7 DEF Installs
  <2> QED BY <2>1, EditLog DEF ManifestLog
<1>8. CASE Closes \/ FailsToOpen
  BY <1>8 DEF Closes, FailsToOpen, ManifestLog
<1>9. CASE \E order, full, next : Recovers(order, full, next)
  <2>1. PICK order, full, next : Recovers(order, full, next)
    BY <1>9
  <2> DEFINE new == next[Len(order)]
  <2>2. /\ new \in Nat /\ manifest.next < new /\ db'.logfile = new /\ db'.status = "opening"
        /\ manifest' = manifest
    BY <2>1 DEF Recovers
  <2>3. manifest.log < manifest.next /\ manifest.log \in Nat /\ manifest.next \in Nat
    BY <1>1, FileTypes DEF NumbersInv
  <2> HIDE DEF new
  <2> QED BY <2>2, <2>3 DEF ManifestLog
<1> QED BY <1>1, <1>3, <1>4, <1>5, <1>6, <1>7, <1>8, <1>9, AllSteps

(* What was promised is older than a group under way. *)
LEMMA AckedOlder ==
  ASSUME FilesInv, EntriesInv, HistoryInv, db.status # "closed"
  PROVE  \A e \in acked \cup committed, g \in GroupEntries : g.seq > e.seq /\ e # g
<1>1. SeqBounds /\ \A e \in committed : e.seq \in Nat /\ e.seq <= db.lastSeq
  BY KnownTypes DEF EntriesInv, SeqBounds, Stored
<1>2. \A g \in GroupEntries : g.seq \in Nat /\ g.seq > db.lastSeq
  BY GroupNewer
<1>3. db.lastSeq \in Nat
  BY FileTypes DEF FilesInv
<1> QED BY <1>1, <1>2, <1>3 DEF HistoryInv

(* A step that leaves the memory tables and their logs keeps what was promised of them. *)
LEMMA HeldSame ==
  ASSUME AckedHeld, acked' = acked, db'.status = db.status, db'.logfile = db.logfile,
         db'.logNumber = db.logNumber, db'.imm = db.imm, db.mem \subseteq db'.mem,
         LogEntries(logs'[db.logfile]) = LogEntries(logs[db.logfile]),
         LogEntries(logs'[db.logNumber]) = LogEntries(logs[db.logNumber])
  PROVE  AckedHeld'
BY DEF AckedHeld

(* A group's entries are promised once they are in the memory table. *)
LEMMA EndWriteHeld ==
  ASSUME FilesInv, MemoryInv, AckedHeld, ~repeated, Quiet, EndWrite
  PROVE  AckedHeld'
<1>1. /\ db'.status = db.status /\ db'.logfile = db.logfile /\ db'.logNumber = db.logNumber
      /\ db'.imm = db.imm /\ logs' = logs
  BY DEF Quiet, EndWrite, disk
<1>2. db'.mem = db.mem
  <2>1. db \in Dbs
    BY DEF FilesInv, TypeInv, DbType
  <2> DEFINE s == db.lastSeq + group
             b == db.bgError \/ stage = "unsynced"
  <2>2. db' = [db EXCEPT !.lastSeq = s, !.bgError = b]
    BY DEF EndWrite
  <2> HIDE DEF s, b
  <2> QED BY <2>1, <2>2 DEF Dbs
<1>3. acked' = acked \/ (stage = "written" /\ acked' = acked \cup GroupEntries)
  BY DEF EndWrite, history
<1>4. CASE acked' = acked
  BY <1>1, <1>2, <1>4, HeldSame
<1>5. CASE stage = "written" /\ acked' = acked \cup GroupEntries /\ db.status = "open"
  <2>1. GroupEntries \subseteq db.mem /\ GroupEntries \subseteq LogEntries(logs[db.logfile])
        /\ db.logNumber \in DOMAIN logs /\ LogOrder
        /\ (db.imm # {} => db.logNumber < db.logfile)
    BY <1>5 DEF MemoryInv, MemoryLogs, InLog
  <2>2. db.logfile \in DOMAIN logs /\ db.logfile \in Nat /\ db.logNumber \in Nat /\ db.logNumber <= db.logfile
    BY <1>5, FileTypes, WriterLog DEF FilesInv, TypeInv, StatusInv
  <2>3. ASSUME db.imm # {}, NEW e \in GroupEntries, e \in LogEntries(logs[db.logNumber]) PROVE FALSE
    <3>1. db.logNumber \in LiveLogs /\ db.logfile \in LiveLogs
      BY <1>5, <2>1, <2>2 DEF LiveLogs, LogStart
    <3>2. e.seq > e.seq
      BY <2>1, <2>3, <3>1 DEF LogOrder, Newer
    <3>3. e.seq \in Nat
      BY GroupNewer
    <3> QED BY <3>2, <3>3
  <2> QED BY <1>1, <1>2, <1>5, <2>1, <2>3 DEF AckedHeld
<1>6. CASE db.status # "open"
  BY <1>1, <1>6 DEF AckedHeld
<1> QED BY <1>3, <1>4, <1>5, <1>6

(* What was promised of the logs in use stays in the memory tables. *)
LEMMA HeldByMemory ==
  ASSUME FilesInv, FilesInv', EntriesInv, HistoryInv, MemoryInv, [Next]_vars, AckedHeld,
         ~repeated, ~repeated'
  PROVE  AckedHeld'
<1> SUFFICES ASSUME db'.status = "open" PROVE AckedHeld'
  BY DEF AckedHeld
<1>1. TypeInv /\ NumbersInv
  BY DEF FilesInv
<1>2. /\ db.logfile \in Nat /\ db.logNumber \in Nat /\ db.nextFile \in Nat
      /\ db.status = "open" => /\ db.logfile \in DOMAIN logs
                               /\ db.logNumber \in DOMAIN logs /\ db.logNumber <= db.logfile
  BY <1>1, FileTypes, WriterLog DEF MemoryInv, MemoryLogs, TypeInv, StatusInv
<1>3. CASE Rests
  BY <1>3, HeldSame DEF Rests, Quiet
<1>4. CASE \/ Compacts \/ Appends \/ (\E level : Flushes(level))
           \/ (\E level, inputs : Moves(level, inputs) \/ Picks(level, inputs))
           \/ (\E first, rest, numbers : Works(first, rest, numbers)) \/ \E seq : Begins(seq)
  <2>1. CASE Compacts \/ Appends \/ (\E level, inputs : Moves(level, inputs) \/ Picks(level, inputs))
             \/ \E seq : Begins(seq)
    BY <2>1, HeldSame DEF Compacts, Appends, Moves, Picks, Begins, disk, history
  <2>2. CASE (\E level : Flushes(level)) \/ \E first, rest, numbers : Works(first, rest, numbers)
    <3>1. logs' = logs /\ acked' = acked /\ SameVersion
      BY <2>2 DEF Flushes, Works, history
    <3> QED BY <3>1, HeldSame DEF SameVersion
  <2> QED BY <1>4, <2>1, <2>2
<1>5. CASE Quiet /\ Writes
  <2>1. /\ db'.status = db.status /\ db'.logfile = db.logfile /\ db'.logNumber = db.logNumber
        /\ db'.imm = db.imm
    BY <1>5 DEF Quiet
  <2>2. CASE BeginWrite
    BY <2>2, HeldSame DEF BeginWrite, disk, history
  <2>3. CASE AddRecordFails
    <3>1. db' = db /\ acked' = acked
      BY <2>3 DEF AddRecordFails, history
    <3>2. \A n \in DOMAIN logs : logs'[n].records = logs[n].records
      BY <2>3, TornLog
    <3>3. \A n \in DOMAIN logs : LogEntries(logs'[n]) = LogEntries(logs[n])
      BY <3>2 DEF LogEntries, FirstEntries
    <3> QED BY <1>2, <3>1, <3>3 DEF AckedHeld
  <2>4. CASE Sync
    <3>1. db' = db /\ acked' = acked
      BY <2>4 DEF Sync, history
    <3>2. \A n \in DOMAIN logs : logs'[n].records = logs[n].records
      BY <2>4, SyncLog
    <3>3. \A n \in DOMAIN logs : LogEntries(logs'[n]) = LogEntries(logs[n])
      BY <3>2 DEF LogEntries, FirstEntries
    <3> QED BY <1>2, <3>1, <3>3 DEF AckedHeld
  <2>5. CASE AddRecord
    <3>1. db' = db /\ acked' = acked /\ db.status = "open"
      BY <2>5, AddRecordLog DEF AddRecord, history
    <3>2. /\ logs'[db.logfile].records = Append(logs[db.logfile].records, GroupEntries)
          /\ \A n \in DOMAIN logs : n # db.logfile => logs'[n] = logs[n]
      BY <2>5, AddRecordLog
    <3>3. LogEntries(logs'[db.logfile]) = LogEntries(logs[db.logfile]) \cup GroupEntries
      <4>1. logs[db.logfile].records \in Seq(EntrySets)
        BY <1>1, <1>2, <3>1, LogNumbers
      <4>2. logs'[db.logfile].records = Append(logs[db.logfile].records, GroupEntries)
        BY <3>2
      <4> QED BY <4>1, <4>2, LogGrows
    <3>4. acked \cap GroupEntries = {}
      BY <3>1, AckedOlder
    <3>5. db.imm # {} => db.logNumber # db.logfile
      BY <1>2, <3>1 DEF MemoryInv, MemoryLogs
    <3> QED BY <1>2, <3>1, <3>2, <3>3, <3>4, <3>5 DEF AckedHeld
  <2>6. CASE InsertInto
    <3>1. logs' = logs /\ acked' = acked
      BY <2>6 DEF InsertInto, disk, history
    <3>2. db.mem \subseteq db'.mem
      <4>1. db \in Dbs
        BY <1>1 DEF TypeInv, DbType
      <4> DEFINE m == db.mem \cup GroupEntries
      <4>2. db' = [db EXCEPT !.mem = m]
        BY <2>6 DEF InsertInto
      <4> HIDE DEF m
      <4>3. db'.mem = m
        BY <4>1, <4>2 DEF Dbs
      <4> QED BY <4>3 DEF m
    <3> QED BY <2>1, <3>1, <3>2, HeldSame
  <2>7. CASE EndWrite
    BY <1>5, <2>7, EndWriteHeld
  <2> QED BY <1>5, <2>2, <2>3, <2>4, <2>5, <2>6, <2>7 DEF Writes
<1>6. CASE Switches
  <2>1. /\ db.status = "open" /\ db.imm = {} /\ db'.imm = db.mem /\ db'.logNumber = db.logNumber
        /\ db'.logfile = db.nextFile /\ acked' = acked /\ logs' = With(logs, db.nextFile, EmptyLog)
    BY <1>6 DEF Switches, history
  <2>2. db.logfile < db.nextFile /\ db.logNumber = db.logfile
    BY <1>1, <2>1 DEF TypeInv, StatusInv, MemoryInv, MemoryLogs
  <2>3. logs'[db.nextFile] = EmptyLog /\ logs'[db.logfile] = logs[db.logfile]
    BY <1>2, <2>1, <2>2 DEF With
  <2>4. LogEntries(EmptyLog) = {}
    BY DEF LogEntries, FirstEntries, EmptyLog
  <2> QED BY <1>2, <2>1, <2>2, <2>3, <2>4 DEF AckedHeld
<1>7. CASE Installs
  <2>1. /\ bg.edit # None /\ db'.logNumber = bg.edit.log /\ db'.logfile = db.logfile
        /\ db'.imm = (IF bg.edit.kind = "flush" THEN {} ELSE db.imm) /\ db'.mem = db.mem
        /\ acked' = acked
    BY <1>7 DEF Installs, history
  <2>2. db'.logfile \in DOMAIN logs' /\ logs'[db.logfile] = logs[db.logfile]
    <3>1. db'.logfile \in DOMAIN logs'
      BY DEF FilesInv, TypeInv, StatusInv
    <3> QED BY <1>7, <2>1, <3>1, InstallsLogs
  <2>3. CASE bg.edit.kind = "open"
    <3>1. db.imm = {} /\ LogEntries(logs[db.logfile]) = {}
      BY <2>1, <2>3, EditLog DEF MemoryInv, MemoryLogs
    <3> QED BY <2>1, <2>2, <2>3, <3>1 DEF AckedHeld
  <2>4. CASE bg.edit.kind = "flush"
    <3>1. db.status = "open" /\ db'.imm = {}
      BY <2>1, <2>4, EditLog
    <3> QED BY <2>1, <2>2, <3>1 DEF AckedHeld
  <2>5. CASE bg.edit.kind \in {"move", "compact"}
    <3>1. db.status = "open" /\ db'.imm = db.imm /\ bg.edit.log = db.logNumber
      BY <2>1, <2>5, EditLog
    <3>2. logs'[db.logNumber] = logs[db.logNumber]
      <4>1. db.logNumber \in DOMAIN logs'
        BY <1>2, <1>7, <3>1, InstallsLogs
      <4> QED BY <1>7, <4>1, InstallsLogs
    <3> QED BY <2>1, <2>2, <3>1, <3>2 DEF AckedHeld
  <2> QED BY <2>1, <2>3, <2>4, <2>5, EditLog
<1>8. CASE Closes \/ FailsToOpen \/ (\E order, full, next : Recovers(order, full, next))
  BY <1>8 DEF Closes, FailsToOpen, Recovers
<1> QED BY <1>1, <1>3, <1>4, <1>5, <1>6, <1>7, <1>8, AllSteps

(* Logs that grow give what they gave. *)
LEMMA LogsGrow ==
  ASSUME TypeInv, manifest' = manifest, DOMAIN logs' = DOMAIN logs,
         \A n \in DOMAIN logs :
            /\ \A i \in 1..Len(logs[n].records) : logs'[n].records[i] = logs[n].records[i]
            /\ logs'[n].good \in Nat /\ logs[n].good <= logs'[n].good
            /\ SurelyRead(logs'[n]) \in Nat /\ SurelyRead(logs[n]) <= SurelyRead(logs'[n])
  PROVE  GoodLogs \subseteq GoodLogs' /\ SyncedLogs \subseteq SyncedLogs'
<1>1. RecoverableLogs(logs)' = RecoverableLogs(logs) /\ RecoverableLogs(logs) \subseteq DOMAIN logs
  BY DEF RecoverableLogs
<1>2. ASSUME NEW n \in DOMAIN logs, NEW i \in Nat, NEW j \in Nat, i <= j, i <= Len(logs[n].records)
      PROVE  FirstEntries(logs[n], i) \subseteq FirstEntries(logs'[n], j)
  <2>1. Len(logs[n].records) \in Nat
    BY LogNumbers
  <2> SUFFICES ASSUME NEW k \in 1..i PROVE logs[n].records[k] \subseteq FirstEntries(logs'[n], j)
    BY DEF FirstEntries
  <2>2. k \in 1..Len(logs[n].records) /\ k \in 1..j
    BY <1>2, <2>1
  <2>3. logs'[n].records[k] = logs[n].records[k]
    BY <2>2
  <2> QED BY <2>2, <2>3 DEF FirstEntries
<1>3. ASSUME NEW n \in DOMAIN logs
      PROVE  /\ FirstEntries(logs[n], logs[n].good) \subseteq FirstEntries(logs'[n], logs'[n].good)
             /\ FirstEntries(logs[n], SurelyRead(logs[n]))
                  \subseteq FirstEntries(logs'[n], SurelyRead(logs'[n]))
  <2>1. /\ logs[n].good \in Nat /\ logs[n].good <= Len(logs[n].records)
        /\ SurelyRead(logs[n]) \in Nat /\ SurelyRead(logs[n]) <= Len(logs[n].records)
    <3>1. /\ logs[n].good \in Nat /\ logs[n].good <= Len(logs[n].records)
          /\ SurelyRead(logs[n]) \in Nat /\ SurelyRead(logs[n]) <= logs[n].good
          /\ Len(logs[n].records) \in Nat
      BY LogNumbers
    <3> QED BY <3>1
  <2> QED BY <1>2, <2>1
<1> QED BY <1>1, <1>3 DEF GoodLogs, SyncedLogs

(* A record more takes nothing from what is read, and adds only newer entries. *)
LEMMA AddRecordPromises ==
  ASSUME FilesInv, FilesInv', EntriesInv, HistoryInv, [Next]_vars, Promised, AddRecord
  PROVE  Promised'
<1> DEFINE l == db.logfile
<1>1. TypeInv /\ db.status = "open" /\ l \in DOMAIN logs /\ GroupEntries \in EntrySets
  BY AddRecordLog, FileTypes, GroupEntriesFinite DEF FilesInv, TypeInv
<1>2. UNCHANGED <<manifest, committed, acked, synced, left>>
  BY DEF AddRecord, history
<1>3. /\ DOMAIN logs' = DOMAIN logs /\ \A n \in DOMAIN logs : n # l => logs'[n] = logs[n]
      /\ logs'[l].good = IF logs[l].torn THEN logs[l].good ELSE Len(logs[l].records) + 1
      /\ logs'[l].synced = logs[l].synced
  BY AddRecordLog
<1>4. logs'[l].records = Append(logs[l].records, GroupEntries)
  BY AddRecordLog
<1>5. /\ logs[l].records \in Seq(EntrySets) /\ Len(logs[l].records) \in Nat
      /\ logs[l].good \in Nat /\ logs[l].good <= Len(logs[l].records)
      /\ logs[l].synced \in Nat
  BY <1>1, LogNumbers
<1> HIDE DEF l
<1>6. /\ \A i \in 1..Len(logs[l].records) : logs'[l].records[i] = logs[l].records[i]
      /\ LogEntries(logs'[l]) = LogEntries(logs[l]) \cup GroupEntries
  <2>1. \A i \in 1..Len(logs[l].records) : Append(logs[l].records, GroupEntries)[i] = logs[l].records[i]
    BY <1>1, <1>5
  <2>2. LogEntries(logs'[l]) = LogEntries(logs[l]) \cup GroupEntries
    BY <1>4, <1>5, LogGrows
  <2> QED BY <1>4, <2>1, <2>2
<1>7. /\ logs'[l].good \in Nat /\ logs[l].good <= logs'[l].good
      /\ SurelyRead(logs'[l]) \in Nat /\ SurelyRead(logs[l]) <= SurelyRead(logs'[l])
  BY <1>3, <1>5 DEF SurelyRead
<1>8. \A n \in DOMAIN logs : /\ logs[n].good \in Nat
                             /\ SurelyRead(logs[n]) \in Nat
  BY <1>1, LogNumbers
<1>9. GoodLogs \subseteq GoodLogs' /\ SyncedLogs \subseteq SyncedLogs'
  <2>1. ASSUME NEW n \in DOMAIN logs
        PROVE  /\ \A i \in 1..Len(logs[n].records) : logs'[n].records[i] = logs[n].records[i]
               /\ logs'[n].good \in Nat /\ logs[n].good <= logs'[n].good
               /\ SurelyRead(logs'[n]) \in Nat /\ SurelyRead(logs[n]) <= SurelyRead(logs'[n])
    <3>1. CASE n = l
      BY <1>6, <1>7, <3>1
    <3>2. CASE n # l
      <4>1. logs'[n] = logs[n]
        BY <1>3, <3>2
      <4> QED BY <1>8, <4>1
    <3> QED BY <3>1, <3>2
  <2> QED BY <1>1, <1>2, <1>3, <2>1, LogsGrow
<1>10. \A r \in AllLogs' : r \in AllLogs \/ \A d \in committed : r.seq > d.seq
  <2> SUFFICES ASSUME NEW r \in AllLogs', r \notin AllLogs PROVE \A d \in committed : r.seq > d.seq
    OBVIOUS
  <2>1. PICK n \in DOMAIN logs : n >= manifest.log /\ r \in LogEntries(logs'[n])
    BY <1>2, <1>3 DEF AllLogs, RecoverableLogs
  <2>2. r \notin LogEntries(logs[n])
    BY <2>1 DEF AllLogs, RecoverableLogs
  <2>3. r \in GroupEntries
    BY <1>3, <1>6, <2>1, <2>2
  <2> QED BY <1>1, <2>3, AckedOlder
<1> QED BY <1>2, <1>9, <1>10, PromisesKept

(* A sync or a failure to write takes nothing from a log. *)
LEMMA LogMarksPromises ==
  ASSUME FilesInv, FilesInv', EntriesInv, [Next]_vars, Promised, Sync \/ AddRecordFails
  PROVE  Promised'
<1> DEFINE l == db.logfile
<1>1. TypeInv /\ l \in DOMAIN logs
  BY SyncLog, TornLog DEF FilesInv
<1>2. UNCHANGED <<manifest, committed, acked, synced, left>>
  BY DEF Sync, AddRecordFails, history
<1>3. /\ DOMAIN logs' = DOMAIN logs /\ \A n \in DOMAIN logs : n # l => logs'[n] = logs[n]
      /\ logs'[l].records = logs[l].records /\ logs'[l].good = logs[l].good
      /\ logs'[l].synced \in {logs[l].synced, Len(logs[l].records)}
  BY SyncLog, TornLog
<1>4. /\ Len(logs[l].records) \in Nat /\ logs[l].good \in Nat
      /\ logs[l].synced \in Nat /\ logs[l].synced <= Len(logs[l].records)
      /\ \A n \in DOMAIN logs : logs[n].good \in Nat /\ SurelyRead(logs[n]) \in Nat
  BY <1>1, LogNumbers
<1> HIDE DEF l
<1>5. SurelyRead(logs'[l]) \in Nat /\ SurelyRead(logs[l]) <= SurelyRead(logs'[l])
  BY <1>3, <1>4 DEF SurelyRead
<1>6. ASSUME NEW n \in DOMAIN logs
      PROVE  /\ \A i \in 1..Len(logs[n].records) : logs'[n].records[i] = logs[n].records[i]
             /\ logs'[n].good \in Nat /\ logs[n].good <= logs'[n].good
             /\ SurelyRead(logs'[n]) \in Nat /\ SurelyRead(logs[n]) <= SurelyRead(logs'[n])
             /\ LogEntries(logs'[n]) = LogEntries(logs[n])
  <2>1. CASE n = l
    BY <1>3, <1>4, <1>5, <2>1 DEF LogEntries, FirstEntries
  <2>2. CASE n # l
    <3>1. logs'[n] = logs[n]
      BY <1>3, <2>2
    <3> QED BY <1>4, <3>1
  <2> QED BY <2>1, <2>2
<1>7. GoodLogs \subseteq GoodLogs' /\ SyncedLogs \subseteq SyncedLogs'
  BY <1>1, <1>2, <1>3, <1>6, LogsGrow
<1>8. AllLogs' \subseteq AllLogs
  BY <1>2, <1>3, <1>6 DEF AllLogs, RecoverableLogs
<1> QED BY <1>2, <1>7, <1>8, PromisesKept

(* What a write that returned ok wrote is read from its log, and if it was synced surely. *)
LEMMA EndWritePromises ==
  ASSUME FilesInv, FilesInv', EntriesInv, MemoryInv, WritesInv, ManifestLog, [Next]_vars,
         Promised, ~repeated, EndWrite
  PROVE  Promised'
<1> DEFINE l == db.logfile
<1>1. UNCHANGED <<manifest, logs, left>>
  BY DEF EndWrite, disk, history
<1>2. GoodLogs' = GoodLogs /\ SyncedLogs' = SyncedLogs /\ AllLogs' = AllLogs
  BY <1>1 DEF GoodLogs, SyncedLogs, AllLogs, RecoverableLogs
<1>3. \/ UNCHANGED <<committed, acked, synced>>
      \/ /\ stage = "written" /\ committed' = committed \cup GroupEntries
         /\ UNCHANGED <<acked, synced>>
      \/ /\ stage = "written" /\ ~logs[l].torn /\ committed' = committed \cup GroupEntries
         /\ acked' = acked \cup GroupEntries /\ synced' = synced \cup SyncedEntries
  BY DEF EndWrite, history
<1>4. ASSUME stage = "written", ~logs[l].torn
      PROVE  GroupEntries \subseteq GoodLogs /\ SyncedEntries \subseteq SyncedLogs
  <2>1. TypeInv /\ db.status = "open" /\ l \in DOMAIN logs
    BY <1>4, WritingOpen, WriterLog DEF FilesInv, Writing
  <2>2. l \in RecoverableLogs(logs)
    BY <2>1 DEF RecoverableLogs, ManifestLog
  <2>3. logs[l].good = Len(logs[l].records) /\ GroupEntries \subseteq LogEntries(logs[l])
    BY <1>4, <2>1 DEF WritesInv, LogsWhole, MemoryInv, MemoryLogs, InLog
  <2>4. GroupEntries \subseteq GoodLogs
    BY <2>2, <2>3 DEF GoodLogs, LogEntries
  <2>5. ASSUME NEW e \in SyncedEntries PROVE e \in SyncedLogs
    <3>1. e \in GroupEntries /\ queue[e.seq - db.lastSeq].sync
      BY <2>5 DEF SyncedEntries
    <3>2. e.seq - db.lastSeq \in 1..group
      <4>1. e.seq \in Nat /\ e.seq > db.lastSeq /\ e.seq <= db.lastSeq + group
        BY <3>1, GroupNewer
      <4>2. db.lastSeq \in Nat /\ group \in Nat
        BY <2>1, FileTypes DEF TypeInv, WritersType
      <4> QED BY <4>1, <4>2
    <3>3. queue[1].sync
      BY <3>1, <3>2 DEF WritesInv, GroupSynced
    <3>4. logs[l].synced = Len(logs[l].records)
      BY <1>4, <3>3 DEF WritesInv, GroupSynced
    <3>5. SurelyRead(logs[l]) = Len(logs[l].records)
      BY <2>3, <3>4 DEF SurelyRead
    <3>6. e \in FirstEntries(logs[l], SurelyRead(logs[l]))
      BY <2>3, <3>1, <3>5 DEF LogEntries
    <3> QED BY <2>2, <3>6 DEF SyncedLogs
  <2> QED BY <2>4, <2>5
<1> HIDE DEF l
<1>5. /\ committed \subseteq committed'
      /\ \A e \in acked' : e \in acked \/ e \in GoodLogs'
      /\ \A e \in synced' : e \in synced \/ e \in SyncedLogs'
  BY <1>2, <1>3, <1>4
<1> QED BY <1>1, <1>2, <1>5, PromisesKept

(* The tables' entries: of every key the newest, and what a number is behind. *)
LEMMA CurrentNewest ==
  ASSUME FilesInv, EntriesInv, db.status # "closed", NEW r \in Current
  PROVE  \E m \in Current : /\ m.key = r.key /\ r.seq <= m.seq
                            /\ \A f \in Current : f.key = r.key => f = m \/ f.seq < m.seq
<1>1. TypeInv /\ db.version \in Files /\ Numbers(db.version) \subseteq DOMAIN tables
      /\ Numbers(db.version) \subseteq Held
  BY FileTypes DEF FilesInv, TypeInv, HeldInv, Held
<1>2. Current \subseteq Known /\ Current \subseteq Stored
  BY <1>1 DEF Current, Known, Stored, Contents
<1>3. Current \in EntrySets
  BY <1>1, FilesFinite, ContentsFinite DEF Current, TypeInv
<1>4. IsFiniteSet(Current) /\ Chain(Current)
  BY <1>2, <1>3, ChainPart DEF EntriesInv, EntrySets, FiniteParts
<1>5. \A e \in Current : e.seq \in Nat /\ e.seq <= db.lastSeq
  BY <1>2, KnownTypes DEF EntriesInv, SeqBounds
<1>6. r \in Visible(Current, r.key, db.lastSeq)
  BY <1>5 DEF Visible
<1> DEFINE U == Current
           key == r.key
           seq == db.lastSeq
<1> HIDE DEF U, key, seq
<1>7. PICK m \in Visible(U, key, seq) :
         /\ Latest(Visible(U, key, seq)) = {m}
         /\ \A f \in Visible(U, key, seq) : f = m \/ f.seq < m.seq
  BY <1>4, <1>6, LatestOne DEF U, key, seq
<1>8. m \in Current /\ m.key = r.key
  BY <1>7 DEF Visible, U, key, seq
<1>9. \A f \in Current : f.key = r.key => f \in Visible(U, key, seq)
  BY <1>5 DEF Visible, U, key, seq
<1>10. r.seq <= m.seq
  BY <1>5, <1>7, <1>8, <1>9
<1> QED BY <1>7, <1>8, <1>9, <1>10

(* A compaction that drops the newest entry of a key drops a deletion, and leaves nothing of
   the key. *)
LEMMA DroppedNewest ==
  ASSUME FilesInv, EntriesInv, OrderInv, MemoryInv, AgedInv, CoverInv, ~repeated,
         bg.edit # None, bg.edit.kind = "compact",
         NEW m \in Current, m.key \notin left, m \notin AfterEdit,
         \A f \in Current : f.key = m.key => f = m \/ f.seq < m.seq
  PROVE  m.kind = "delete" /\ \A g \in AfterEdit : g.key # m.key
<1> DEFINE c == bg.compaction
<1>0. TypeInv /\ c # None /\ c.built /\ IsCompaction(c) /\ LeavesBehind(c) \subseteq left
  <2>1. TypeInv /\ c # None /\ c.built /\ IsCompaction(c)
    BY DEF FilesInv, TypeInv, BgType
  <2> QED BY <2>1 DEF CoverInv, CompactionCovered
<1> HIDE DEF c
<1>1. /\ AfterEdit \subseteq Current
      /\ \A e \in Current : e \in AfterEdit \/ (e \in InputsOf(c) /\ e \in DroppedBy(c))
      /\ \A e \in AfterEdit :
            \/ e \in InputsOf(c) /\ e \notin DroppedBy(c)
            \/ \E l \in Levels : \E n \in db.version[l] :
                  e \in tables[n] /\ ~(l = c.level /\ n \in c.upper) /\ ~(l = c.level + 1 /\ n \in c.lower)
  <2>1. EditMakes(bg.edit) /\ Builds(c)
    BY <1>0 DEF MemoryInv, c
  <2>2. Fits(tables, db.version, c)
    BY <1>0 DEF OrderInv, CompactionOrder, c
  <2> QED BY <1>0, <2>1, <2>2, CompactContents DEF c
<1>2. InputsOf(c) \subseteq Current
  <2>1. /\ c.level \in Levels /\ c.level + 1 \in Levels
        /\ c.upper \subseteq db.version[c.level] /\ c.lower \subseteq db.version[c.level + 1]
    BY <1>0, LevelsAssumption DEF OrderInv, CompactionOrder, Fits, IsCompaction, Compactions,
       Levels, c
  <2>2. c.upper \cup c.lower \subseteq Numbers(db.version)
    BY <2>1 DEF Numbers
  <2> QED BY <2>2 DEF InputsOf, Current, Contents
<1>3. \A e \in Current : e.seq \in Nat
  <2>1. Numbers(db.version) \subseteq Held
    BY DEF Held
  <2>2. Current \subseteq Stored
    BY <2>1 DEF Current, Stored, Contents
  <2> QED BY <2>2, KnownTypes
<1>4. m \in InputsOf(c) /\ m \in DroppedBy(c) /\ m.seq \in Nat
  BY <1>1, <1>3
<1>5. m \notin Hidden(InputsOf(c), c.snapshot)
  <2> SUFFICES ASSUME NEW f \in InputsOf(c), f.key = m.key, m.seq < f.seq PROVE FALSE
    BY DEF Hidden
  <2>1. f \in Current /\ f.seq \in Nat
    BY <1>2, <1>3
  <2> QED BY <1>4, <2>1
<1>6. /\ m \in ObsoleteDeletions(tables, c.version, c.level, InputsOf(c), c.snapshot)
      /\ m.kind = "delete" /\ m.seq <= c.snapshot
  BY <1>4, <1>5 DEF DroppedBy, Dropped, ObsoleteDeletions
<1>7. ASSUME NEW g \in AfterEdit, g.key = m.key PROVE FALSE
  <2>1. g \in Current /\ g # m /\ g.seq \in Nat /\ g.seq < m.seq
    BY <1>1, <1>3, <1>7
  <2>2. CASE g \in InputsOf(c) /\ g \notin DroppedBy(c)
    <3>1. g \in Hidden(InputsOf(c), c.snapshot)
      BY <1>4, <1>6, <1>7, <2>1, <2>2 DEF Hidden
    <3> QED BY <2>2, <3>1 DEF DroppedBy, Dropped
  <2>3. CASE \E l \in Levels : \E n \in db.version[l] :
                g \in tables[n] /\ ~(l = c.level /\ n \in c.upper) /\ ~(l = c.level + 1 /\ n \in c.lower)
    <3>1. PICK l \in Levels : \E n \in db.version[l] :
              g \in tables[n] /\ ~(l = c.level /\ n \in c.upper) /\ ~(l = c.level + 1 /\ n \in c.lower)
      BY <2>3
    <3>2. PICK n \in db.version[l] :
              g \in tables[n] /\ ~(l = c.level /\ n \in c.upper) /\ ~(l = c.level + 1 /\ n \in c.lower)
      BY <3>1
    <3>3. c = bg.compaction
      BY DEF c
    <3>4. g.seq > m.seq
      BY <1>0, <1>6, <1>7, <3>2, <3>3, NothingOlder
    <3> QED BY <1>4, <2>1, <3>4
  <2> QED BY <1>1, <2>2, <2>3
<1> QED BY <1>6, <1>7

(* So what was promised is still read where the results of a compaction are. *)
LEMMA CompactKeeps ==
  ASSUME FilesInv, EntriesInv, OrderInv, MemoryInv, AgedInv, CoverInv, ~repeated,
         bg.edit # None, bg.edit.kind = "compact", manifest.files = db.version,
         NEW e, e.key \notin left, NEW S, Kept(e, S, Manifested, AllLogs, committed),
         e.seq \in Nat
  PROVE  Kept(e, S, AfterEdit, AllLogs, committed)
<1>0. db.status = "open"
  BY EditLog
<1>1. Manifested = Current
  BY DEF Manifested, Current
<1>2. AfterEdit \subseteq Current
  <2>1. bg.compaction # None /\ TypeInv
    BY DEF FilesInv, TypeInv, BgType
  <2>2. EditMakes(bg.edit) /\ Builds(bg.compaction) /\ Fits(tables, db.version, bg.compaction)
    BY <2>1 DEF MemoryInv, OrderInv, CompactionOrder
  <2> QED BY <2>1, <2>2, CompactContents
<1>3. CASE e \in S
  BY <1>3 DEF Kept
<1>4. CASE \E r \in Current : r.key = e.key /\ r.seq >= e.seq
  <2>1. PICK r \in Current : r.key = e.key /\ r.seq >= e.seq
    BY <1>4
  <2>2. PICK m \in Current : /\ m.key = r.key /\ r.seq <= m.seq
                             /\ \A f \in Current : f.key = r.key => f = m \/ f.seq < m.seq
    BY <1>0, CurrentNewest
  <2>3. /\ Current \subseteq Stored
        /\ \A f \in Current : f.seq \in Nat /\ f.seq <= db.lastSeq
    <3>1. Numbers(db.version) \subseteq Held
      BY DEF Held
    <3>2. Current \subseteq Stored
      BY <3>1 DEF Current, Stored, Contents
    <3> QED BY <1>0, <3>2, KnownTypes DEF EntriesInv, SeqBounds
  <2>4. m.seq >= e.seq /\ m.key = e.key
    BY <2>1, <2>2, <2>3
  <2>5. CASE m \in AfterEdit
    BY <2>4, <2>5 DEF Kept
  <2>6. CASE m \notin AfterEdit
    <3>1. m.kind = "delete" /\ \A g \in AfterEdit : g.key # m.key
      BY <2>1, <2>2, <2>6, DroppedNewest
    <3>2. m \in committed
      <4>1. Shows(Seen, committed, Keys \ left, db.lastSeq)
        BY <1>0 DEF CoverInv, DbCovered, Snapshots
      <4> QED BY <2>3, <4>1 DEF Shows, Seen
    <3>3. \A r2 \in AllLogs : r2.seq > m.seq
      <4>1. \A n \in DOMAIN logs : n >= manifest.log => Newer(LogEntries(logs[n]), Manifested)
        BY DEF MemoryInv, LogsAbove
      <4> QED BY <1>1, <4>1 DEF AllLogs, RecoverableLogs, Newer
    <3> QED BY <2>4, <3>1, <3>2, <3>3 DEF Kept
  <2> QED BY <2>5, <2>6
<1>5. CASE \E d \in committed : /\ d.key = e.key /\ d.kind = "delete" /\ d.seq >= e.seq
                                /\ \A r \in Manifested \cup AllLogs : r.key = e.key => r.seq > d.seq
  <2>1. PICK d \in committed : /\ d.key = e.key /\ d.kind = "delete" /\ d.seq >= e.seq
                               /\ \A r \in Manifested \cup AllLogs : r.key = e.key => r.seq > d.seq
    BY <1>5
  <2>2. \A r \in AfterEdit \cup AllLogs : r.key = e.key => r.seq > d.seq
    BY <1>1, <1>2, <2>1
  <2> QED BY <2>1, <2>2 DEF Kept
<1> QED BY <1>1, <1>3, <1>4, <1>5 DEF Kept

(* The log that a flush gives up has nothing promised that is not in the table. *)
LEMMA FlushKeeps ==
  ASSUME NEW P, NEW S, NEW S2, NEW T, NEW M, NEW A, NEW A2, NEW C, NEW g,
         AllKept(P, S, T, A, C, g), M \subseteq A, A2 \subseteq A,
         \A e \in M : e.seq \in Nat,
         \A e \in P : e \in S => e \in S2 \/ e \in M
  PROVE  AllKept(P, S2, T \cup M, A2, C, g)
<1> SUFFICES ASSUME NEW e \in P, e.key \notin g
             PROVE  Kept(e, S2, T \cup M, A2, C)
  BY DEF AllKept
<1>1. Kept(e, S, T, A, C)
  BY DEF AllKept
<1>2. CASE e \in S
  <2>1. CASE e \in S2
    BY <2>1 DEF Kept
  <2>2. CASE e \in M
    <3>1. e.key = e.key /\ e.seq >= e.seq
      BY <2>2
    <3> QED BY <2>2, <3>1 DEF Kept
  <2> QED BY <1>2, <2>1, <2>2
<1>3. CASE \E r \in T : r.key = e.key /\ r.seq >= e.seq
  BY <1>3 DEF Kept
<1>4. CASE \E d \in C : /\ d.key = e.key /\ d.kind = "delete" /\ d.seq >= e.seq
                        /\ \A r \in T \cup A : r.key = e.key => r.seq > d.seq
  <2>1. PICK d \in C : /\ d.key = e.key /\ d.kind = "delete" /\ d.seq >= e.seq
                       /\ \A r \in T \cup A : r.key = e.key => r.seq > d.seq
    BY <1>4
  <2>2. \A r \in (T \cup M) \cup A2 : r.key = e.key => r.seq > d.seq
    BY <2>1
  <2> QED BY <2>1, <2>2 DEF Kept
<1> QED BY <1>1, <1>2, <1>3, <1>4 DEF Kept

(* What a write of the MANIFEST leaves of the logs. *)
LEMMA AppendsLogs ==
  ASSUME Appends, AppendEdit
  PROVE  /\ RecoverableLogs(logs)' = {n \in DOMAIN logs : n >= bg.edit.log}
         /\ manifest'.log = bg.edit.log
         /\ UNCHANGED <<tables, logs, db, committed, acked, synced, left>> /\ bg.edit # None
         /\ manifest.files = db.version => Manifested' = AfterEdit /\ Manifested = Current
<1>1. UNCHANGED <<tables, logs, db, committed, acked, synced, left>> /\ bg.edit # None
  BY DEF Appends
<1>2. manifest'.log = bg.edit.log /\ manifest'.files = Applied(manifest.files, bg.edit)
  BY DEF AppendEdit
<1> QED BY <1>1, <1>2 DEF RecoverableLogs, Manifested, AfterEdit, Current

(* So a flush keeps the promises. *)
LEMMA FlushPromises ==
  ASSUME FilesInv, EntriesInv, MemoryInv, ManifestLog, AckedHeld, WritesInv, Promised,
         ~repeated, Appends, AppendEdit, manifest.files = db.version, bg.edit.kind = "flush"
  PROVE  Promised'
<1>1. /\ RecoverableLogs(logs)' = {n \in DOMAIN logs : n >= bg.edit.log}
      /\ UNCHANGED <<logs, committed, acked, synced, left>> /\ bg.edit # None
      /\ Manifested' = AfterEdit /\ Manifested = Current
  BY AppendsLogs
<1>2. /\ db.status = "open" /\ bg.edit.log = db.logfile /\ TypeInv
      /\ bg.edit.log \in Nat
  BY <1>1, EditLog DEF FilesInv
<1>3. manifest.log = db.logNumber
  BY <1>2 DEF ManifestLog
<1>4. db.imm # {} /\ AfterEdit = Current \cup db.imm
  BY <1>1, <1>2, FlushContents DEF MemoryInv, EditMakes
<1>5. /\ \A n \in LiveLogs : n = db.logNumber \/ n = db.logfile
      /\ db.logNumber \in DOMAIN logs /\ db.logNumber < db.logfile
      /\ db.imm \subseteq LogEntries(logs[db.logNumber])
  BY <1>2, <1>4 DEF MemoryInv, MemoryLogs
<1>6. /\ db.logNumber \in Nat /\ db.logfile \in Nat /\ DOMAIN logs \subseteq Nat
      /\ db.logfile \in DOMAIN logs
  BY <1>2, FileTypes, WriterLog
<1>7. RecoverableLogs(logs) = LiveLogs
  BY <1>2, <1>3 DEF RecoverableLogs, LiveLogs, LogStart
<1>8. RecoverableLogs(logs)' = {db.logfile} /\ RecoverableLogs(logs) = {db.logNumber, db.logfile}
  <2>1. \A n \in DOMAIN logs : n >= db.logfile <=> n = db.logfile
    BY <1>2, <1>6, WriterLog
  <2>2. db.logNumber \in LiveLogs /\ db.logfile \in LiveLogs
    BY <1>2, <1>5, <1>6 DEF LiveLogs, LogStart
  <2> QED BY <1>1, <1>2, <1>5, <1>6, <1>7, <2>1, <2>2
<1>9. /\ db.imm \subseteq AllLogs /\ AllLogs' \subseteq AllLogs
      /\ \A e \in db.imm : e.seq \in Nat
  <2>1. db.imm \subseteq Stored
    BY DEF Stored
  <2> QED BY <1>1, <1>5, <1>8, <2>1, KnownTypes DEF AllLogs
<1>10. ASSUME NEW e \in acked
       PROVE  /\ e \in GoodLogs => e \in GoodLogs' \/ e \in db.imm
              /\ e \in SyncedLogs => e \in SyncedLogs' \/ e \in db.imm
  <2>1. e \in LogEntries(logs[db.logNumber]) => e \in db.imm
    BY <1>2, <1>4 DEF AckedHeld
  <2>2. /\ FirstEntries(logs[db.logNumber], logs[db.logNumber].good)
             \subseteq LogEntries(logs[db.logNumber])
        /\ FirstEntries(logs[db.logNumber], SurelyRead(logs[db.logNumber]))
             \subseteq LogEntries(logs[db.logNumber])
    <3> DEFINE log == logs[db.logNumber]
    <3>1. /\ log.good \in Nat /\ log.good <= Len(log.records) /\ Len(log.records) \in Nat
          /\ SurelyRead(log) \in Nat /\ SurelyRead(log) <= log.good
      BY <1>2, <1>5, LogNumbers
    <3> HIDE DEF log
    <3>2. SurelyRead(log) <= Len(log.records)
      BY <3>1
    <3>3. /\ FirstEntries(log, log.good) \subseteq LogEntries(log)
          /\ FirstEntries(log, SurelyRead(log)) \subseteq LogEntries(log)
      BY <3>1, <3>2, MoreEntries DEF LogEntries
    <3> QED BY <3>3 DEF log
  <2>3. /\ GoodLogs = FirstEntries(logs[db.logNumber], logs[db.logNumber].good)
                        \cup FirstEntries(logs[db.logfile], logs[db.logfile].good)
        /\ SyncedLogs = FirstEntries(logs[db.logNumber], SurelyRead(logs[db.logNumber]))
                        \cup FirstEntries(logs[db.logfile], SurelyRead(logs[db.logfile]))
    BY <1>8 DEF GoodLogs, SyncedLogs
  <2>4. /\ GoodLogs' = FirstEntries(logs[db.logfile], logs[db.logfile].good)
        /\ SyncedLogs' = FirstEntries(logs[db.logfile], SurelyRead(logs[db.logfile]))
    BY <1>1, <1>8 DEF GoodLogs, SyncedLogs
  <2> QED BY <2>1, <2>2, <2>3, <2>4
<1> DEFINE T == Current
           M == db.imm
           A == AllLogs
           A2 == AllLogs'
           G == GoodLogs
           G2 == GoodLogs'
           S == SyncedLogs
           S2 == SyncedLogs'
<1>11. AllKept(acked, G, T, A, committed, left) /\ AllKept(synced, S, T, A, committed, left)
  BY <1>1 DEF Promised
<1>12. /\ M \subseteq A /\ A2 \subseteq A /\ \A e \in M : e.seq \in Nat
       /\ \A e \in acked : e \in G => e \in G2 \/ e \in M
       /\ \A e \in synced : e \in S => e \in S2 \/ e \in M
  BY <1>9, <1>10 DEF WritesInv
<1> HIDE DEF T, M, A, A2, G, G2, S, S2
<1>13. AllKept(acked, G2, T \cup M, A2, committed, left)
  BY <1>11, <1>12, FlushKeeps
<1>14. AllKept(synced, S2, T \cup M, A2, committed, left)
  BY <1>11, <1>12, FlushKeeps
<1>15. Manifested' = T \cup M
  BY <1>1, <1>4 DEF T, M
<1> QED BY <1>1, <1>13, <1>14, <1>15 DEF Promised, A2, G2, S2

(* A move or a compaction gives up no log, and keeps what is read. *)
LEMMA MergePromises ==
  ASSUME FilesInv, EntriesInv, HistoryInv, OrderInv, MemoryInv, AgedInv, CoverInv, ManifestLog,
         WritesInv, Promised, ~repeated, Appends, AppendEdit, manifest.files = db.version,
         bg.edit.kind \in {"move", "compact"}
  PROVE  Promised'
<1>1. /\ RecoverableLogs(logs)' = {n \in DOMAIN logs : n >= bg.edit.log}
      /\ UNCHANGED <<logs, committed, acked, synced, left>> /\ bg.edit # None
      /\ Manifested' = AfterEdit /\ Manifested = Current
  BY AppendsLogs
<1>2. /\ db.status = "open" /\ bg.edit.log = db.logNumber /\ TypeInv
  BY <1>1, EditLog DEF FilesInv
<1>3. manifest.log = db.logNumber
  BY <1>2 DEF ManifestLog
<1>4. RecoverableLogs(logs)' = RecoverableLogs(logs)
  BY <1>1, <1>2, <1>3 DEF RecoverableLogs
<1>5. GoodLogs' = GoodLogs /\ SyncedLogs' = SyncedLogs /\ AllLogs' = AllLogs
  BY <1>1, <1>4 DEF GoodLogs, SyncedLogs, AllLogs
<1>6. CASE bg.edit.kind = "move"
  <2>1. AfterEdit = Current
    BY <1>1, <1>2, <1>6, MoveContents DEF MemoryInv
  <2> QED BY <1>1, <1>5, <2>1 DEF Promised
<1>7. CASE bg.edit.kind = "compact"
  <2>1. \A e \in acked \cup synced : e.seq \in Nat
    <3>1. committed \subseteq Stored
      BY DEF Stored
    <3> QED BY <3>1, KnownTypes DEF HistoryInv
  <2>2. ASSUME NEW P, NEW S, P \subseteq acked \cup synced,
               AllKept(P, S, Manifested, AllLogs, committed, left)
        PROVE  AllKept(P, S, AfterEdit, AllLogs, committed, left)
    <3> SUFFICES ASSUME NEW e \in P, e.key \notin left
                 PROVE  Kept(e, S, AfterEdit, AllLogs, committed)
      BY DEF AllKept
    <3>1. Kept(e, S, Manifested, AllLogs, committed) /\ e.seq \in Nat
      BY <2>1, <2>2 DEF AllKept
    <3> QED BY <1>1, <1>7, <3>1, CompactKeeps
  <2>3. /\ AllKept(acked, GoodLogs, AfterEdit, AllLogs, committed, left)
        /\ AllKept(synced, SyncedLogs, AfterEdit, AllLogs, committed, left)
    <3>1. /\ AllKept(acked, GoodLogs, Manifested, AllLogs, committed, left)
          /\ AllKept(synced, SyncedLogs, Manifested, AllLogs, committed, left)
      BY DEF Promised
    <3> QED BY <2>2, <3>1
  <2> QED BY <1>1, <1>5, <2>3 DEF Promised
<1> QED BY <1>6, <1>7

(* A recovery has read everything that was promised. *)
LEMMA OpenPromises ==
  ASSUME FilesInv, EntriesInv, HistoryInv, MemoryInv, ~repeated, Appends, AppendEdit,
         manifest.files = db.version, bg.edit.kind = "open"
  PROVE  Promised'
<1>1. /\ UNCHANGED <<logs, committed, acked, synced, left>> /\ bg.edit # None
      /\ Manifested' = AfterEdit
  BY AppendsLogs
<1>2. db.status = "opening" /\ TypeInv
  BY <1>1, EditLog DEF FilesInv
<1>3. AfterEdit = Contents(tables, Numbers(db.version) \cup Adds(bg.edit))
  BY <1>1, <1>2, OpenContents DEF MemoryInv
<1>4. committed = AfterEdit
  BY <1>2, <1>3 DEF EntriesInv, RecoveredInv
<1>5. \A e \in committed : e.seq \in Nat
  <2>1. committed \subseteq Stored
    BY DEF Stored
  <2> QED BY <2>1, KnownTypes
<1>6. ASSUME NEW S, NEW A, NEW e \in acked \cup synced PROVE Kept(e, S, AfterEdit, A, committed)
  <2>1. e \in AfterEdit /\ e.seq >= e.seq
    BY <1>4, <1>5 DEF HistoryInv
  <2> QED BY <2>1 DEF Kept
<1> QED BY <1>1, <1>6 DEF Promised, AllKept

(* A write of the MANIFEST keeps the promises. *)
LEMMA AppendsPromises ==
  ASSUME FilesInv, FilesInv', EntriesInv, HistoryInv, OrderInv, MemoryInv, AgedInv, CoverInv,
         [Next]_vars,
         ManifestLog, AckedHeld, WritesInv, Promised, ~repeated, ~repeated', Appends
  PROVE  Promised'
<1>1. CASE AppendEdit
  <2>1. manifest.files = db.version /\ bg.edit # None
    BY <1>1 DEF AppendEdit, Appends
  <2> QED BY <1>1, <2>1, EditLog, FlushPromises, MergePromises, OpenPromises
<1>2. CASE manifest' = manifest
  <2>1. UNCHANGED <<logs, committed, acked, synced, left>>
    BY DEF Appends
  <2> QED BY <1>2, <2>1, PromisesStay
<1> QED BY <1>1, <1>2 DEF Appends

(* What is left of the logs after a crash is all that is promised. *)
LEMMA CrashPromises ==
  ASSUME FilesInv, FilesInv', EntriesInv, [Next]_vars, Closes, NEW lengths, Keeps(lengths)
  PROVE  Promised'
<1>1. Manifested' = Manifested
  BY VersionsStay DEF Closes
<1>2. RecoverableLogs(logs)' = RecoverableLogs(logs)
  BY DEF Closes, RecoverableLogs
<1>3. \A n \in RecoverableLogs(logs) : n \in DOMAIN logs /\ lengths[n] \in 0..Len(logs[n].records)
  BY DEF RecoverableLogs, Keeps
<1>4. Recoverable(lengths) \subseteq Entries
  BY <1>3, RecoverableFinite DEF EntrySets, FiniteParts
<1>5. ASSUME NEW n \in RecoverableLogs(logs)
      PROVE  /\ FirstEntries(logs'[n], logs'[n].good) = FirstEntries(logs[n], lengths[n])
             /\ FirstEntries(logs'[n], SurelyRead(logs'[n])) = FirstEntries(logs[n], lengths[n])
  <2>1. /\ lengths[n] \in 0..Len(logs[n].records)
        /\ logs'[n] = [records |-> SubSeq(logs[n].records, 1, lengths[n]),
                       synced |-> lengths[n], good |-> lengths[n], torn |-> FALSE]
        /\ LogEntries(logs'[n]) = FirstEntries(logs[n], lengths[n])
    BY <1>3 DEF Keeps
  <2>2. logs[n].records \in Seq(EntrySets) /\ Len(logs[n].records) \in Nat
    BY <1>3, LogNumbers DEF FilesInv
  <2>3. Len(SubSeq(logs[n].records, 1, lengths[n])) = lengths[n]
    BY <2>1, <2>2
  <2>4. /\ logs'[n].good = lengths[n] /\ logs'[n].synced = lengths[n]
        /\ Len(logs'[n].records) = lengths[n]
    BY <2>1, <2>3
  <2>5. SurelyRead(logs'[n]) = lengths[n]
    BY <2>4 DEF SurelyRead
  <2> QED BY <2>1, <2>4, <2>5 DEF LogEntries
<1> DEFINE R == UNION {FirstEntries(logs[n], lengths[n]) : n \in RecoverableLogs(logs)}
<1>6. GoodLogs' = R /\ SyncedLogs' = R
  BY <1>2, <1>5 DEF GoodLogs, SyncedLogs
<1>7. /\ committed' = Manifested \cup R /\ acked' = committed' /\ synced' = committed'
      /\ committed' \subseteq Entries
  BY <1>4 DEF Keeps, Recoverable, Manifested
<1> HIDE DEF R
<1>8. ASSUME NEW e \in committed', NEW A, NEW C PROVE Kept(e, R, Manifested, A, C)
  <2>1. CASE e \in R
    BY <2>1 DEF Kept
  <2>2. CASE e \in Manifested
    <3>1. e.key = e.key /\ e.seq >= e.seq
      BY <1>7 DEF Entries
    <3> QED BY <2>2, <3>1 DEF Kept
  <2> QED BY <1>7, <1>8, <2>1, <2>2
<1> QED BY <1>1, <1>6, <1>7, <1>8 DEF Promised, AllKept

(* A new log is empty, and an older one is given up only when the MANIFEST names it no more. *)
LEMMA NewLogPromises ==
  ASSUME FilesInv, FilesInv', EntriesInv, [Next]_vars, Promised,
         UNCHANGED <<manifest, committed, acked, synced, left>>,
         NEW n, n \notin DOMAIN logs, logs' = With(logs, n, EmptyLog)
  PROVE  Promised'
<1>1. LogEntries(EmptyLog) = {}
  BY DEF LogEntries, FirstEntries, EmptyLog
<1>2. /\ \A m \in DOMAIN logs : m \in DOMAIN logs'
      /\ \A m \in DOMAIN logs' : \/ m \in DOMAIN logs /\ logs'[m] = logs[m]
                                 \/ LogEntries(logs'[m]) = {} /\ m \notin DOMAIN logs
  BY <1>1 DEF With
<1>3. left \subseteq left'
  OBVIOUS
<1>4. \A m \in DOMAIN logs : m >= manifest.log => m \in DOMAIN logs'
  BY <1>2
<1>5. \A m \in DOMAIN logs' : m >= manifest.log =>
            \/ m \in DOMAIN logs /\ logs'[m] = logs[m]
            \/ LogEntries(logs'[m]) = {} /\ m \notin DOMAIN logs
  BY <1>2
<1>6. UNCHANGED <<manifest, committed, acked, synced>>
  OBVIOUS
<1> HIDE DEF With
<1> QED BY <1>3, <1>4, <1>5, <1>6, PromisesStay

(* Every step keeps the promises. *)
LEMMA PromisesStep ==
  ASSUME FilesInv, FilesInv', EntriesInv, HistoryInv, OrderInv, MemoryInv, AgedInv, CoverInv,
         [Next]_vars, WritesInv, ManifestLog, AckedHeld, Promised, ~repeated, ~repeated'
  PROVE  Promised'
<1>1. TypeInv /\ NumbersInv
  BY DEF FilesInv
<1>2. CASE UNCHANGED <<manifest, logs, committed, acked, synced>> /\ left \subseteq left'
  BY <1>2, PromisesStay
<1>3. CASE Rests
  BY <1>2, <1>3 DEF Rests, Quiet
<1>4. CASE \/ Compacts
           \/ (\E level : Flushes(level)) \/ (\E level, inputs : Moves(level, inputs) \/ Picks(level, inputs))
           \/ (\E first, rest, numbers : Works(first, rest, numbers)) \/ \E seq : Begins(seq)
  <2>1. CASE Compacts \/ (\E level, inputs : Moves(level, inputs) \/ Picks(level, inputs))
    BY <1>2, <2>1 DEF Compacts, Moves, Picks, disk, history
  <2>2. CASE \E level : Flushes(level)
    BY <1>2, <2>2 DEF Flushes, history
  <2>3. CASE \E first, rest, numbers : Works(first, rest, numbers)
    <3>1. UNCHANGED <<manifest, logs, committed, acked, synced>> /\ left \subseteq left'
      BY <2>3 DEF Works
    <3> QED BY <1>2, <3>1
  <2>4. CASE \E seq : Begins(seq)
    BY <1>2, <2>4 DEF Begins, disk, history
  <2> QED BY <1>4, <2>1, <2>2, <2>3, <2>4
<1>5. CASE Quiet /\ Writes
  <2>1. CASE BeginWrite \/ InsertInto
    BY <1>2, <2>1 DEF BeginWrite, InsertInto, disk, history
  <2> QED BY <1>5, <2>1, AddRecordPromises, LogMarksPromises, EndWritePromises DEF Writes
<1>6. CASE Appends
  BY <1>6, AppendsPromises
<1>7. CASE Switches
  <2>1. /\ logs' = With(logs, db.nextFile, EmptyLog)
        /\ UNCHANGED <<manifest, committed, acked, synced, left>> /\ db.status = "open"
    BY <1>7 DEF Switches, history
  <2>2. db.nextFile \notin DOMAIN logs
    <3>1. db.logfile < db.nextFile /\ db.nextFile \in Nat /\ db.logfile \in Nat
      BY <1>1, <2>1, FileTypes DEF TypeInv, StatusInv
    <3>2. \A n \in DOMAIN logs : n \in Nat /\ n <= db.logfile
      BY <2>1, WriterLog
    <3> QED BY <3>1, <3>2
  <2> QED BY <2>1, <2>2, NewLogPromises
<1>8. CASE Installs
  <2>1. bg.edit # None /\ bg.edit.state = "written"
        /\ UNCHANGED <<manifest, committed, acked, synced, left>>
    BY <1>8 DEF Installs, history
  <2>2. manifest.log = bg.edit.log
    BY <2>1, EditLog
  <2> QED BY <1>8, <2>1, <2>2, InstallsLogs, PromisesStay
<1>9. CASE Closes /\ \E lengths : Keeps(lengths)
  BY <1>9, CrashPromises
<1>10. CASE FailsToOpen
  BY <1>2, <1>10 DEF FailsToOpen, Closes
<1>11. CASE \E order, full, next : Recovers(order, full, next)
  <2>1. PICK order, full, next : Recovers(order, full, next)
    BY <1>11
  <2> DEFINE new == next[Len(order)]
  <2>2. /\ logs' = With(logs, new, EmptyLog) /\ new \in Nat /\ manifest.next < new
        /\ UNCHANGED <<manifest, committed, acked, synced, left>>
    BY <2>1 DEF Recovers, history
  <2>3. new \notin DOMAIN logs
    <3>1. /\ \A n \in RecoverableLogs(logs) : n < new
          /\ manifest.log < manifest.next /\ manifest.log \in Nat /\ manifest.next \in Nat
          /\ DOMAIN logs \subseteq Nat
      <4>1. \A n \in RecoverableLogs(logs) : n < new
        BY <2>1 DEF Recovers
      <4> QED BY <1>1, <4>1, FileTypes DEF NumbersInv
    <3> HIDE DEF new
    <3> SUFFICES ASSUME new \in DOMAIN logs PROVE FALSE
      OBVIOUS
    <3>2. new >= manifest.log
      BY <2>2, <3>1
    <3>3. new \in RecoverableLogs(logs)
      BY <3>2 DEF RecoverableLogs
    <3> QED BY <2>2, <3>1, <3>3
  <2> HIDE DEF new
  <2> QED BY <2>2, <2>3, NewLogPromises
<1> QED BY <1>1, <1>3, <1>4, <1>5, <1>6, <1>7, <1>8, <1>9, <1>10, <1>11, AllSteps

(* A recovery that reads what is kept reads a promised write or a later one. *)
LEMMA KeptCovers ==
  ASSUME NEW R \in EntrySets, NEW P, P \subseteq Entries, NEW S, S \subseteq R, NEW T,
         T \subseteq R,
         NEW A, R \subseteq T \cup A, AllKept(P, S, T, A, committed, left),
         committed \subseteq Entries
  PROVE  Covers(R, P)
<1> SUFFICES ASSUME NEW e \in P, e.key \notin left
             PROVE  LET found == Latest({f \in R : f.key = e.key}) IN
                    \/ \E f \in found : f.seq >= e.seq
                    \/ /\ Value(found) = 0
                       /\ \E f \in committed : f.key = e.key /\ f.kind = "delete" /\ f.seq >= e.seq
  BY DEF Covers
<1> DEFINE V == {f \in R : f.key = e.key}
<1>1. e.seq \in Nat /\ R \subseteq Entries /\ IsFiniteSet(R) /\ \A f \in R : f.seq \in Nat
  BY DEF Entries, EntrySets, FiniteParts
<1>2. Kept(e, S, T, A, committed)
  BY DEF AllKept
<1>3. ASSUME NEW r \in V, r.seq >= e.seq PROVE \E f \in Latest(V) : f.seq >= e.seq
  <2> DEFINE N == {f.seq : f \in V}
  <2>1. IsFiniteSet(V) /\ V \subseteq R
    BY <1>1, FS_Subset
  <2>2. N \in FiniteParts(Nat) /\ N # {}
    <3>1. IsFiniteSet(N)
      <4> DEFINE g == [f \in V |-> f.seq]
      <4>1. N = {g[f] : f \in V}
        OBVIOUS
      <4> HIDE DEF g, V, N
      <4> QED BY <2>1, <4>1, ValuesFinite
    <3> QED BY <1>1, <1>3, <2>1, <3>1 DEF FiniteParts
  <2>3. PICK m \in N : \A n \in N : n <= m
    BY <2>2, LargestNumber
  <2>4. PICK f \in V : f.seq = m
    BY <2>3
  <2>5. f \in Latest(V)
    BY <2>3, <2>4 DEF Latest
  <2>6. r.seq <= f.seq /\ r.seq \in Nat /\ f.seq \in Nat
    BY <1>1, <2>1, <2>3, <2>4
  <2>7. f.seq >= e.seq
    BY <1>1, <1>3, <2>6
  <2> HIDE DEF V, N
  <2> QED BY <2>5, <2>7
<1>4. CASE \E r \in V : r.seq >= e.seq
  BY <1>3, <1>4
<1>5. CASE ~\E r \in V : r.seq >= e.seq
  <2>1. e \notin S /\ ~\E r \in T : r.key = e.key /\ r.seq >= e.seq
    <3>1. e.seq >= e.seq
      BY <1>1
    <3> QED BY <1>5, <3>1
  <2>2. PICK d \in committed : /\ d.key = e.key /\ d.kind = "delete" /\ d.seq >= e.seq
                               /\ \A r \in T \cup A : r.key = e.key => r.seq > d.seq
    BY <1>2, <2>1 DEF Kept
  <2>3. d.seq \in Nat
    BY DEF Entries
  <2>4. V = {}
    <3> SUFFICES ASSUME NEW r \in V PROVE FALSE
      OBVIOUS
    <3>1. r.seq > d.seq /\ r.seq \in Nat
      BY <1>1, <2>2
    <3> QED BY <1>1, <1>5, <2>2, <2>3, <3>1
  <2>5. Value(Latest(V)) = 0
    BY <2>4 DEF Latest, Value
  <2> QED BY <2>2, <2>5
<1> QED BY <1>4, <1>5

(* Whatever of the logs is read, it is read with what the MANIFEST names. *)
LEMMA ReadAfter ==
  ASSUME FilesInv, NEW lengths \in Lengths(RecoverableLogs(logs)),
         \A n \in DOMAIN lengths : lengths[n] \in 0..Len(logs[n].records)
  PROVE  /\ Recoverable(lengths) \in EntrySets
         /\ Manifested \subseteq Recoverable(lengths)
         /\ Recoverable(lengths) \subseteq Manifested \cup AllLogs
         /\ (\A n \in DOMAIN lengths : logs[n].good <= lengths[n]) => GoodLogs \subseteq Recoverable(lengths)
         /\ (\A n \in DOMAIN lengths : SurelyRead(logs[n]) <= lengths[n])
              => SyncedLogs \subseteq Recoverable(lengths)
<1> DEFINE L == RecoverableLogs(logs)
<1>1. DOMAIN lengths = L /\ \A n \in L : lengths[n] \in 0..Len(logs[n].records)
  BY DEF Lengths
<1>2. ASSUME NEW n \in L
      PROVE  /\ logs[n].good \in Nat /\ SurelyRead(logs[n]) \in Nat /\ lengths[n] \in Nat
             /\ FirstEntries(logs[n], lengths[n]) \subseteq LogEntries(logs[n])
             /\ logs[n].good <= lengths[n] =>
                  FirstEntries(logs[n], logs[n].good) \subseteq FirstEntries(logs[n], lengths[n])
             /\ SurelyRead(logs[n]) <= lengths[n] =>
                  FirstEntries(logs[n], SurelyRead(logs[n])) \subseteq FirstEntries(logs[n], lengths[n])
  <2> DEFINE log == logs[n]
             k == lengths[n]
  <2>1. /\ log.good \in Nat /\ SurelyRead(log) \in Nat /\ Len(log.records) \in Nat
        /\ k \in Nat /\ k <= Len(log.records)
    <3>1. n \in DOMAIN logs
      BY DEF RecoverableLogs
    <3>2. log.good \in Nat /\ SurelyRead(log) \in Nat /\ Len(log.records) \in Nat
      BY <3>1, LogNumbers DEF FilesInv
    <3> QED BY <1>1, <3>2
  <2> HIDE DEF log, k
  <2>2. FirstEntries(log, k) \subseteq LogEntries(log)
    BY <2>1, MoreEntries DEF LogEntries
  <2>3. log.good <= k => FirstEntries(log, log.good) \subseteq FirstEntries(log, k)
    BY <2>1, MoreEntries
  <2>4. SurelyRead(log) <= k => FirstEntries(log, SurelyRead(log)) \subseteq FirstEntries(log, k)
    BY <2>1, MoreEntries
  <2> QED BY <2>1, <2>2, <2>3, <2>4 DEF log, k
<1>3. Recoverable(lengths) = Manifested \cup UNION {FirstEntries(logs[n], lengths[n]) : n \in L}
  BY DEF Recoverable, Manifested
<1>4. Recoverable(lengths) \in EntrySets
  BY <1>1, RecoverableFinite
<1>5. GoodLogs = UNION {FirstEntries(logs[n], logs[n].good) : n \in L}
      /\ SyncedLogs = UNION {FirstEntries(logs[n], SurelyRead(logs[n])) : n \in L}
      /\ AllLogs = UNION {LogEntries(logs[n]) : n \in L}
  BY DEF GoodLogs, SyncedLogs, AllLogs
<1> HIDE DEF L
<1>6. Recoverable(lengths) \subseteq Manifested \cup AllLogs
  BY <1>2, <1>3, <1>5
<1>7. ASSUME \A n \in L : logs[n].good <= lengths[n] PROVE GoodLogs \subseteq Recoverable(lengths)
  BY <1>2, <1>3, <1>5, <1>7
<1>8. ASSUME \A n \in L : SurelyRead(logs[n]) <= lengths[n] PROVE SyncedLogs \subseteq Recoverable(lengths)
  BY <1>2, <1>3, <1>5, <1>8
<1> QED BY <1>1, <1>3, <1>4, <1>6, <1>7, <1>8

(* What the invariants say is that recovery finds what was promised. *)
LEMMA DurableHolds ==
  ASSUME FilesInv, HistoryInv, EntriesInv, KeptInv
  PROVE  Durable
<1> SUFFICES ASSUME ~repeated
             PROVE  /\ Numbers(manifest.files) \subseteq DOMAIN tables
                    /\ \A f \in {g \in Lengths(RecoverableLogs(logs)) :
                                   \A n \in DOMAIN g : g[n] \in Remainders(logs[n])} :
                          Covers(Recoverable(f), acked)
                    /\ \A f \in {g \in Lengths(RecoverableLogs(logs)) :
                                   \A n \in DOMAIN g : g[n] \in Survivals(logs[n])} :
                          Covers(Recoverable(f), synced)
  BY DEF Durable
<1>1. Numbers(manifest.files) \subseteq DOMAIN tables
  BY DEF FilesInv, DiskInv
<1>2. /\ AllKept(acked, GoodLogs, Manifested, AllLogs, committed, left)
      /\ AllKept(synced, SyncedLogs, Manifested, AllLogs, committed, left)
  BY DEF KeptInv, Promised
<1>3. committed \subseteq Entries /\ acked \subseteq Entries /\ synced \subseteq Entries
  BY DEF HistoryInv, EntrySets, FiniteParts
<1>4. \A f \in Lengths(RecoverableLogs(logs)) : \A n \in DOMAIN f :
         /\ logs[n].good \in Nat /\ logs[n].good <= Len(logs[n].records)
         /\ logs[n].synced \in Nat /\ Len(logs[n].records) \in Nat
  <2>1. \A f \in Lengths(RecoverableLogs(logs)) : \A n \in DOMAIN f : n \in DOMAIN logs
    BY DEF Lengths, RecoverableLogs
  <2> QED BY <2>1, LogNumbers DEF FilesInv
<1>5. ASSUME NEW f \in Lengths(RecoverableLogs(logs)),
             \A n \in DOMAIN f : f[n] \in Remainders(logs[n])
      PROVE  Covers(Recoverable(f), acked)
  <2>1. \A n \in DOMAIN f : f[n] \in 0..Len(logs[n].records) /\ logs[n].good <= f[n]
    BY <1>4, <1>5 DEF Remainders
  <2> QED BY <1>2, <1>3, <2>1, ReadAfter, KeptCovers
<1>6. ASSUME NEW f \in Lengths(RecoverableLogs(logs)),
             \A n \in DOMAIN f : f[n] \in Survivals(logs[n])
      PROVE  Covers(Recoverable(f), synced)
  <2>1. \A n \in DOMAIN f : f[n] \in 0..Len(logs[n].records) /\ SurelyRead(logs[n]) <= f[n]
    BY <1>4, <1>6 DEF Survivals, SurelyRead
  <2> QED BY <1>2, <1>3, <2>1, ReadAfter, KeptCovers
<1> QED BY <1>1, <1>5, <1>6

(* It is so in the beginning. *)
LEMMA KeptInit ==
  ASSUME Init
  PROVE  WritesInv /\ KeptInv
<1>1. /\ db.status = "closed" /\ acked = {} /\ synced = {} /\ DOMAIN logs = {} /\ stage = "front"
      /\ group = 0
  BY DEF Init, Closed
<1> QED BY <1>1 DEF WritesInv, LogsWhole, GroupSynced, KeptInv, ManifestLog, AckedHeld, Promised,
           AllKept

(* Every step keeps the promises and what they rest on. *)
LEMMA KeptStep ==
  ASSUME FilesInv, HistoryInv, EntriesInv, OrderInv, MemoryInv, AgedInv, CoverInv, WritesInv,
         KeptInv,
         [Next]_vars
  PROVE  WritesInv' /\ KeptInv'
<1>1. FilesInv'
  BY FilesStep
<1>2. WritesInv'
  BY <1>1, WritesStep
<1>3. ASSUME ~repeated' PROVE ManifestLog' /\ AckedHeld' /\ Promised'
  <2>1. ~repeated
    BY <1>1, <1>3, HeldStay
  <2>2. ManifestLog /\ AckedHeld /\ Promised
    BY <2>1 DEF KeptInv
  <2> QED BY <1>1, <1>3, <2>1, <2>2, ManifestLogStep, HeldByMemory, PromisesStep
<1> QED BY <1>2, <1>3 DEF KeptInv

(* (db_impl.cc:1185 Write, db_impl.cc:280 Recover, db_impl.cc:535 CompactMemTable) In every reachable
   state of every instance, a recovery after the process stopped would find every write that returned
   ok, or a later one of its key, and one after the machine stopped every write that was synced, and
   all their tables are on disk; but for the keys in "left", and after an edit that followed a
   refused one that is on disk. *)
THEOREM DurableAlways == Spec => []Durable
<1>1. Init => FilesInv /\ HistoryInv /\ EntriesInv /\ OrderInv /\ MemoryInv /\ AgedInv /\ CoverInv
               /\ WritesInv /\ KeptInv
  BY FilesInit, HistoryInit, EntriesInit, OrderInit, MemoryInit, AgedInit, CoverInit, KeptInit
<1>2. FilesInv /\ HistoryInv /\ EntriesInv /\ OrderInv /\ MemoryInv /\ AgedInv /\ CoverInv
        /\ WritesInv /\ KeptInv /\ [Next]_vars
        => FilesInv' /\ HistoryInv' /\ EntriesInv' /\ OrderInv' /\ MemoryInv' /\ AgedInv' /\ CoverInv'
           /\ WritesInv' /\ KeptInv'
  BY FilesStep, HistoryStep, EntriesStep, OrderStep, MemoryStep, AgedStep, CoverStep, KeptStep
<1>3. FilesInv /\ HistoryInv /\ EntriesInv /\ KeptInv => Durable
  BY DurableHolds
<1> QED BY <1>1, <1>2, <1>3, PTL DEF Spec
=============================================================================
