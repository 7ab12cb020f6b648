--------------------------- MODULE LevelDBVersion ---------------------------
(***************************************************************************)
(* What leveldb's version_set.cc computes from a version, the tables of    *)
(* each level: which tables a compaction takes, which entries it drops,    *)
(* where a new table goes, and what a read finds.                          *)
(*                                                                         *)
(* An entry is one operation on a key; a table is the set of its entries,  *)
(* tables maps file numbers to them, files maps levels to file numbers.    *)
(* Sizes in bytes are left out: a limit on them is a choice.               *)
(***************************************************************************)
EXTENDS Integers, FiniteSets

CONSTANTS
    Keys,               \* user keys, in their order
    MaxLevel,           \* kNumLevels - 1
    MaxMemCompactLevel  \* kMaxMemCompactLevel

ASSUME KeysAssumption == Keys \subseteq Int
ASSUME LevelsAssumption ==
    /\ MaxLevel \in Nat \ {0}
    /\ MaxMemCompactLevel \in 0..MaxLevel

Levels == 0..MaxLevel
Entries == [key : Keys, seq : Nat, kind : {"put", "delete"}]
NoTables == [level \in Levels |-> {}]
Numbers(files) == UNION {files[level] : level \in Levels}
Contents(tables, numbers) == UNION {tables[n] : n \in numbers}

\* InternalKeyComparator: by key, the newest entry of a key first.
Before(a, b) == a.key < b.key \/ (a.key = b.key /\ a.seq > b.seq)
Smallest(entries) == CHOOSE a \in entries : \A b \in entries \ {a} : Before(a, b)
Largest(entries) == CHOOSE a \in entries : \A b \in entries \ {a} : Before(b, a)

\* Neither AfterFile nor BeforeFile: the table's user keys meet low..high.
Overlaps(entries, low, high) ==
    (\E e \in entries : e.key >= low) /\ (\E e \in entries : e.key <= high)

-----------------------------------------------------------------------------
\* Reads.

Visible(entries, key, seq) == {e \in entries : e.key = key /\ e.seq <= seq}
Latest(entries) == {e \in entries : \A f \in entries : f.seq <= e.seq}

\* What a caller gets: the number of the write that put the value, or 0.
Value(found) == IF \E e \in found : e.kind = "put" THEN (CHOOSE e \in found : TRUE).seq ELSE 0

\* Version::Get in level 0: the newest table that has the key.
FoundInLevel0(tables, files, key, seq) ==
    LET having == {n \in files[0] : Visible(tables[n], key, seq) # {}}
    IN UNION {Latest(Visible(tables[n], key, seq)) : n \in {m \in having : \A o \in having : o <= m}}

\* BySmallestKey, the order of a level's tables: ties go to the older file.
First(tables, numbers) ==
    {n \in numbers : \A m \in numbers \ {n} :
        \/ Before(Smallest(tables[n]), Smallest(tables[m]))
        \/ Smallest(tables[n]) = Smallest(tables[m]) /\ n < m}

\* FindFile: the first table of a sorted level whose largest entry is not before the key's.
FindFile(tables, numbers, key, seq) ==
    First(tables, {n \in numbers : ~Before(Largest(tables[n]), [key |-> key, seq |-> seq])})

Found(tables, files, level, key, seq) ==
    IF level = 0 THEN FoundInLevel0(tables, files, key, seq)
    ELSE UNION {Latest(Visible(tables[n], key, seq)) : n \in FindFile(tables, files[level], key, seq)}

\* Version::Get: the first level that has the key decides.
Get(tables, files, key, seq) ==
    LET having == {level \in Levels : Found(tables, files, level, key, seq) # {}}
    IN UNION {Found(tables, files, level, key, seq) :
                level \in {l \in having : \A m \in having : l <= m}}

-----------------------------------------------------------------------------
\* Compactions.

\* The tables of a level that meet the keys of some entries.
Meeting(tables, numbers, entries) ==
    {n \in numbers : Overlaps(tables[n], Smallest(entries).key, Largest(entries).key)}

(* GetOverlappingInputs.  In level 0 a table found widens the range, and the search
   starts again: the result is closed under overlap. *)
GetOverlappingInputs(tables, files, level, entries) ==
    LET direct == Meeting(tables, files[level], entries)
        Closed(taken) ==
            /\ direct \subseteq taken
            /\ Meeting(tables, files[level], entries \cup Contents(tables, taken)) \subseteq taken
    IN IF level > 0 THEN direct
       ELSE CHOOSE taken \in SUBSET files[0] :
              /\ Closed(taken)
              /\ \A fewer \in SUBSET taken : Closed(fewer) => fewer = taken

\* (Faulty: the range alone decides, as it did once.)
NoBoundaryInputs(tables, files, level, numbers) == numbers

\* FindSmallestBoundaryFile: of the tables that begin with the key of the entry and after
\* it, the first.
FindSmallestBoundaryFile(tables, numbers, last) ==
    First(tables, {n \in numbers : /\ Before(last, Smallest(tables[n]))
                                   /\ Smallest(tables[n]).key = last.key})

\* AddBoundaryInputs: the boundary table of the last entry taken, of that one, and so on.
AddBoundaryInputs(tables, files, level, numbers) ==
    LET first == FindSmallestBoundaryFile(tables, files[level], Largest(Contents(tables, numbers)))
        next == [n \in files[level] |->
                   FindSmallestBoundaryFile(tables, files[level], Largest(tables[n]))]
        Closed(taken) ==
            /\ numbers \cup first \subseteq taken
            /\ \A n \in taken \ numbers : next[n] \subseteq taken
    IN IF first = {} THEN numbers
       ELSE CHOOSE taken \in SUBSET files[level] :
              /\ Closed(taken)
              /\ \A fewer \in SUBSET taken : Closed(fewer) => fewer = taken

\* SetupOtherInputs: the inputs of both levels, grown or not by what costs nothing more.
Inputs(tables, files, level, picked) ==
    LET upper == {AddBoundaryInputs(tables, files, level, taken) :
                    taken \in {IF level = 0
                                 THEN GetOverlappingInputs(tables, files, 0, Contents(tables, picked))
                                 ELSE picked}}
        Lower(taken) ==
            GetOverlappingInputs(tables, files, level + 1, Contents(tables, taken))
        Grown(taken) ==
            AddBoundaryInputs(tables, files, level, GetOverlappingInputs(
                tables, files, level, Contents(tables, taken \cup Lower(taken))))
        Free(grown) == \A taken \in upper : Lower(taken) # {} /\ Lower(grown) = Lower(taken)
    IN {[upper |-> taken, lower |-> Lower(taken)] :
          taken \in upper \cup {grown \in {Grown(taken) : taken \in upper} : Free(grown)}}

\* IsBaseLevelForKey: no table below the output's level spans the key.
IsBaseLevelForKey(tables, files, level, key) ==
    \A lower \in level + 2..MaxLevel : \A n \in files[lower] : ~Overlaps(tables[n], key, key)

\* What DoCompactionWork drops: an entry hidden by a newer one that every snapshot sees,
Hidden(entries, snapshot) ==
    {e \in entries : \E f \in entries : f.key = e.key /\ e.seq < f.seq /\ f.seq <= snapshot}

\* and a deletion that every snapshot sees with nothing below it to hide.
ObsoleteDeletions(tables, files, level, entries, snapshot) ==
    {e \in entries \ Hidden(entries, snapshot) :
       /\ e.kind = "delete"
       /\ e.seq <= snapshot
       /\ IsBaseLevelForKey(tables, files, level, e.key)}

Dropped(tables, files, level, entries, snapshot) ==
    Hidden(entries, snapshot) \cup ObsoleteDeletions(tables, files, level, entries, snapshot)

(* The keys of deletions dropped while a table that stays in the output's level has older
   entries of them: only the tables of that level that meet the upper inputs are inputs,
   and nobody looks at the others. *)
LeftBehind(tables, files, level, lower, entries, snapshot) ==
    {d.key : d \in {e \in ObsoleteDeletions(tables, files, level, entries, snapshot) :
                      \E n \in files[level + 1] \ lower : \E f \in tables[n] : f.key = e.key}}

\* (Faulty: as deep as allowed when level 0 is clear.)
DeepestLevel(tables, files, entries) ==
    IF Meeting(tables, files[0], entries) = {} THEN {MaxMemCompactLevel} ELSE {0}
\* PickLevelForMemTableOutput, for each limit the bytes below may set.
LevelsForMemTableOutput(tables, files, entries) ==
    LET clear(level) == Meeting(tables, files[level], entries) = {}
    IN IF ~clear(0) THEN {0}
       ELSE {level \in 0..MaxMemCompactLevel :
               /\ \A above \in 1..level : clear(above)
               /\ \/ level = MaxMemCompactLevel
                  \/ ~clear(level + 1)
                  \/ level + 2 <= MaxLevel /\ ~clear(level + 2)}

\* The tables of a level below 0 follow one another.
Sorted(tables, files) ==
    \A level \in Levels \ {0} : \A n, m \in files[level] :
        n # m => \/ Before(Largest(tables[n]), Smallest(tables[m]))
                 \/ Before(Largest(tables[m]), Smallest(tables[n]))

=============================================================================
