--------------------------- MODULE ChaosFSProofs ---------------------------
(***************************************************************************)
(* What chaosfs.c keeps true of its two file tables on any drive, for any   *)
(* number of files and through any sequence of errors and power losses, as  *)
(* long as the drive loses no sector without an error being noticed; and    *)
(* that chaosfs.c implements the store of FileStore.tla: what a call of it  *)
(* has reported as done is on the drive, and no error and no power loss     *)
(* during calls for other files takes it away again.                        *)
(***************************************************************************)
EXTENDS ChaosFS, Iteration, TLAPS

NothingLost == "lost" \notin Faults

(* e ends at or before block n.                                             *)
Below(e, n) == Active(e) => e.start_block + e.block_count <= n
InBounds(table, n) == \A i \in Slots : Below(table[i], n)

(* The blocks of e lie wholly before those of f or wholly behind them.      *)
Apart(e, f) ==
  Active(e) /\ Active(f) => \/ e.start_block + e.block_count <= f.start_block
                            \/ f.start_block + f.block_count <= e.start_block
Separate(s, t) == \A i, j \in Slots : i # j => Apart(s[i], t[j])

(* The two tables hold no overlap, neither alone nor mixed sector by        *)
(* sector; and the superblock has been stored before the table is.          *)
IInv ==
  /\ TypeOK
  /\ phase # "idle" => mounted
  /\ mounted => disk_next_free <= next_free_block
  /\ phase = "table" => disk_next_free = next_free_block
  /\ InBounds(file_table, next_free_block)
  /\ InBounds(disk_table, disk_next_free)
  /\ Separate(file_table, file_table)
  /\ Separate(disk_table, disk_table)
  /\ Separate(file_table, disk_table)

LEMMA FreeIsEntry == FreeEntry \in Entry /\ ~Active(FreeEntry)
  BY DEF FreeEntry, Entry, Active

LEMMA ZeroSlot == 0 \in Slots
  BY ChaosFSAssumption DEF Slots

(* Replacing one cached entry by e keeps the tables apart if e is inactive, *)
(* owns no block or owns blocks nobody has had before.                      *)
Harmless(e) ==
  \/ ~Active(e)
  \/ e.start_block = 0 /\ e.block_count = 0
  \/ e.start_block >= next_free_block

LEMMA SetEntry ==
  ASSUME IInv, mounted, NEW table \in [Slots -> Entry], NEW k \in Slots,
         NEW e \in Entry, Harmless(e),
         InBounds(table, next_free_block),
         Separate(table, table), Separate(table, disk_table)
  PROVE  LET t == [table EXCEPT ![k] = e]
         IN  /\ t \in [Slots -> Entry]
             /\ Separate(t, t)
             /\ Separate(t, disk_table)
<1> DEFINE t == [table EXCEPT ![k] = e]
<1>1. /\ \A i \in Slots : t[i] = IF i = k THEN e ELSE table[i]
      /\ t \in [Slots -> Entry]
  OBVIOUS
<1>2. \A f \in Entry : Below(f, next_free_block) => Apart(e, f) /\ Apart(f, e)
  BY DEF Harmless, Below, Apart, Entry, IInv, TypeOK
<1>3. \A i \in Slots : Below(disk_table[i], next_free_block)
  BY DEF IInv, TypeOK, InBounds, Below, Entry
<1>4. Separate(t, t)
  BY <1>1, <1>2 DEF Separate, InBounds
<1>5. Separate(t, disk_table)
  BY <1>1, <1>2, <1>3 DEF Separate, IInv, TypeOK
<1> QED BY <1>1, <1>4, <1>5

(* What Begin leaves and sets, for all the operations.                      *)
LEMMA BeginType ==
  ASSUME IInv, NEW p \in Paths, NEW v \in Data \cup {Absent, Directory},
         NEW i \in Slots, NEW first \in {"data", "super"}, Begin(p, v, i, first)
  PROVE  /\ mounted /\ mounted'
         /\ phase' \in {"data", "super"}
         /\ offset' \in Nat /\ idx' \in Slots
         /\ request' \in [path : Paths, value : Data \cup {Absent, Directory}]
         /\ unsure' \subseteq Paths /\ torn' \subseteq Paths
         /\ UNCHANGED << disk_next_free, disk_table, disk_data >>
  BY DEF Begin, IInv, TypeOK, disk

LEMMA FirstPhases ==
  ASSUME NEW d \in Data
  PROVE  FirstPhase(d) \in {"data", "super"} /\ After("data") = "super"
  BY DEF FirstPhase, After

(* A call that replaces one cached entry by a harmless one keeps IInv.      *)
LEMMA CallIInv ==
  ASSUME IInv, NEW p \in Paths, NEW v \in Data \cup {Absent, Directory},
         NEW i \in Slots, NEW first \in {"data", "super"}, Begin(p, v, i, first),
         file_table' \in [Slots -> Entry],
         next_free_block' \in 0 .. MAX_BLOCKS,
         next_free_block <= next_free_block',
         InBounds(file_table', next_free_block'),
         Separate(file_table', file_table'), Separate(file_table', disk_table)
  PROVE  IInv'
<1>1. /\ mounted /\ mounted'
      /\ phase' \in {"data", "super"}
      /\ offset' \in Nat /\ idx' \in Slots
      /\ request' \in [path : Paths, value : Data \cup {Absent, Directory}]
      /\ unsure' \subseteq Paths /\ torn' \subseteq Paths
      /\ disk_next_free' = disk_next_free
      /\ disk_table' = disk_table
      /\ disk_data' = disk_data
  BY BeginType
<1>2. TypeOK'
  BY <1>1 DEF TypeOK, Phases, IInv
<1>3. mounted' => disk_next_free' <= next_free_block'
  BY <1>1, ChaosFSAssumption DEF IInv, TypeOK
<1>4. InBounds(disk_table', disk_next_free') /\ Separate(disk_table', disk_table')
  BY <1>1 DEF IInv
<1>5. Separate(file_table', disk_table')
  BY <1>1
<1> QED BY <1>1, <1>2, <1>3, <1>4, <1>5 DEF IInv, InBounds, Separate

LEMMA OverwriteIInv ==
  ASSUME IInv, NEW p \in Paths, NEW d \in Data, Overwrite(p, d)
  PROVE  IInv'
<1>1. PICK i \in Slots :
        /\ file_table' = [file_table EXCEPT ![i].size = Len(d)]
        /\ Begin(p, d, i, FirstPhase(d))
        /\ next_free_block' = next_free_block
  BY DEF Overwrite
<1>2. file_table' \in [Slots -> Entry]
  <2>1. file_table \in [Slots -> Entry] /\ Len(d) \in Nat
    BY ChaosFSAssumption DEF IInv, TypeOK
  <2>2. [file_table[i] EXCEPT !.size = Len(d)] \in Entry
    BY <1>1, <2>1 DEF Entry
  <2> QED BY <1>1, <2>1, <2>2
<1>3. \A j \in Slots :
        /\ file_table'[j].filename = file_table[j].filename
        /\ file_table'[j].start_block = file_table[j].start_block
        /\ file_table'[j].block_count = file_table[j].block_count
  BY <1>1 DEF IInv, TypeOK, Entry
<1>4. InBounds(file_table', next_free_block')
  BY <1>1, <1>3 DEF IInv, InBounds, Below, Active
<1>5. Separate(file_table', file_table')
  BY <1>3 DEF IInv, Separate, Apart, Active
<1>6. Separate(file_table', disk_table)
  BY <1>3 DEF IInv, Separate, Apart, Active
<1>7. next_free_block' \in 0 .. MAX_BLOCKS /\ next_free_block <= next_free_block'
  BY <1>1, ChaosFSAssumption DEF IInv, TypeOK
<1> QED BY <1>1, <1>2, <1>4, <1>5, <1>6, <1>7, FirstPhases, CallIInv

LEMMA MarkDeletedKeeps ==
  ASSUME IInv, mounted, NEW i \in Slots
  PROVE  LET t == MarkDeleted(file_table, i)
         IN  /\ t \in [Slots -> Entry]
             /\ InBounds(t, next_free_block)
             /\ Separate(t, t) /\ Separate(t, disk_table)
<1>1. file_table \in [Slots -> Entry]
  BY DEF IInv, TypeOK
<1>2. Harmless(FreeEntry)
  BY FreeIsEntry DEF Harmless
<1>3. InBounds(MarkDeleted(file_table, i), next_free_block)
  BY <1>1, FreeIsEntry DEF IInv, InBounds, MarkDeleted, Below
<1> QED BY <1>1, <1>2, <1>3, FreeIsEntry, SetEntry DEF MarkDeleted, IInv

LEMMA NewEntryFits ==
  ASSUME IInv, NEW p \in Paths, NEW d \in Data
  PROVE  /\ NewEntry(p, d) \in Entry
         /\ Harmless(NewEntry(p, d))
         /\ NeededBlocks(d) \in Nat
         /\ Below(NewEntry(p, d), next_free_block + NeededBlocks(d))
<1>1. NeededBlocks(d) \in Nat /\ Len(d) \in Nat
  BY ChaosFSAssumption DEF NeededBlocks
<1>2. next_free_block \in Nat
  BY ChaosFSAssumption DEF IInv, TypeOK
<1>3. NewEntry(p, d) \in Entry
  BY <1>1, <1>2 DEF NewEntry, Entry
<1>4. Harmless(NewEntry(p, d))
  BY <1>2 DEF Harmless, NewEntry
<1>5. Below(NewEntry(p, d), next_free_block + NeededBlocks(d))
  BY <1>1, <1>2 DEF Below, NewEntry
<1> QED BY <1>1, <1>3, <1>4, <1>5

LEMMA CreateInIInv ==
  ASSUME IInv, NEW p \in Paths, NEW d \in Data,
         NEW table \in [Slots -> Entry], InBounds(table, next_free_block),
         Separate(table, table), Separate(table, disk_table),
         CreateIn(table, p, d)
  PROVE  IInv'
<1>1. PICK i \in Slots :
        /\ next_free_block + NeededBlocks(d) <= MAX_BLOCKS
        /\ file_table' = [table EXCEPT ![i] = NewEntry(p, d)]
        /\ next_free_block' = next_free_block + NeededBlocks(d)
        /\ Begin(p, d, i, FirstPhase(d))
  BY DEF CreateIn
<1>2. mounted
  BY <1>1 DEF Begin
<1>3. /\ file_table' \in [Slots -> Entry]
      /\ Separate(file_table', file_table')
      /\ Separate(file_table', disk_table)
  BY <1>1, <1>2, NewEntryFits, SetEntry
<1>4. /\ next_free_block' \in 0 .. MAX_BLOCKS
      /\ next_free_block <= next_free_block'
      /\ next_free_block \in Nat
  BY <1>1, NewEntryFits, ChaosFSAssumption DEF IInv, TypeOK
<1>5. \A e \in Entry : Below(e, next_free_block) => Below(e, next_free_block')
  BY <1>4 DEF Below, Entry
<1>6. InBounds(file_table', next_free_block')
  BY <1>1, <1>5, NewEntryFits DEF InBounds
<1> QED BY <1>1, <1>3, <1>4, <1>6, FirstPhases, CallIInv

LEMMA CreateIInv ==
  ASSUME IInv, NEW p \in Paths, NEW d \in Data, Create(p, d)
  PROVE  IInv'
  BY CreateInIInv DEF Create, IInv, TypeOK

LEMMA ReplaceIInv ==
  ASSUME IInv, NEW p \in Paths, NEW d \in Data, Replace(p, d)
  PROVE  IInv'
<1>1. PICK i \in Slots : CreateIn(MarkDeleted(file_table, i), p, d)
  BY DEF Replace
<1>2. mounted
  BY <1>1 DEF CreateIn, Begin
<1> QED BY <1>1, <1>2, MarkDeletedKeeps, CreateInIInv

LEMMA DeleteIInv ==
  ASSUME IInv, NEW p \in Paths, Delete(p)
  PROVE  IInv'
<1>1. PICK i \in Slots :
        /\ file_table' = MarkDeleted(file_table, i)
        /\ Begin(p, Absent, i, After("data"))
        /\ next_free_block' = next_free_block
  BY DEF Delete
<1>2. mounted
  BY <1>1 DEF Begin
<1>3. next_free_block' \in 0 .. MAX_BLOCKS /\ next_free_block <= next_free_block'
  BY <1>1, ChaosFSAssumption DEF IInv, TypeOK
<1>4. After("data") \in {"data", "super"}
  BY DEF After
<1> QED BY <1>1, <1>2, <1>3, <1>4, MarkDeletedKeeps, CallIInv

LEMMA MkdirIInv ==
  ASSUME IInv, NEW p \in Paths, Mkdir(p)
  PROVE  IInv'
<1> DEFINE e == [FreeEntry EXCEPT !.filename = p, !.dir = TRUE]
<1>1. PICK i \in Slots :
        /\ file_table' = [file_table EXCEPT ![i] = e]
        /\ Begin(p, Directory, i, After("data"))
        /\ next_free_block' = next_free_block
  BY DEF Mkdir
<1>2. mounted
  BY <1>1 DEF Begin
<1>3. next_free_block' \in 0 .. MAX_BLOCKS /\ next_free_block <= next_free_block'
  BY <1>1, ChaosFSAssumption DEF IInv, TypeOK
<1>4. After("data") \in {"data", "super"}
  BY DEF After
<1>5. e \in Entry /\ e.start_block = 0 /\ e.block_count = 0
  BY DEF FreeEntry, Entry
<1>6. Harmless(e) /\ Below(e, next_free_block')
  BY <1>3, <1>5, ChaosFSAssumption DEF Harmless, Below
<1>7. InBounds(file_table', next_free_block')
  BY <1>1, <1>6 DEF IInv, InBounds, TypeOK
<1>8. /\ file_table' \in [Slots -> Entry]
      /\ Separate(file_table', file_table')
      /\ Separate(file_table', disk_table)
  BY <1>1, <1>2, <1>5, <1>6, SetEntry DEF IInv, TypeOK
<1> QED BY <1>1, <1>3, <1>4, <1>7, <1>8, CallIInv

LEMMA MountIInv == IInv /\ Mount => IInv'
<1> SUFFICES ASSUME IInv, Mount PROVE IInv'
  OBVIOUS
<1>1. /\ mounted' = TRUE /\ next_free_block' = disk_next_free
      /\ file_table' = disk_table /\ phase' = phase
      /\ disk_next_free' = disk_next_free /\ disk_table' = disk_table
  BY DEF Mount, disk
<1>2. TypeOK'
  BY <1>1 DEF Mount, disk, IInv, TypeOK
<1>3. disk_next_free <= disk_next_free
  BY ChaosFSAssumption DEF IInv, TypeOK
<1> QED BY <1>1, <1>2, <1>3 DEF IInv, InBounds, Separate

LEMMA GoOnType ==
  ASSUME TypeOK, NEW part \in {"data", "super", "table"}, GoOn(part)
  PROVE  /\ phase' = After(part) /\ phase' \in Phases
         /\ offset' \in Nat /\ idx' \in Slots
         /\ request' \in [path : Paths, value : Data \cup {Absent, Directory}]
                         \cup {NoRequest}
         /\ unsure' \subseteq Paths
  BY ZeroSlot DEF TypeOK, GoOn, After, Phases

LEMMA StoreDataIInv == IInv /\ StoreData => IInv'
<1> SUFFICES ASSUME IInv, StoreData PROVE IInv'
  OBVIOUS
<1>1. /\ mounted' = mounted /\ next_free_block' = next_free_block
      /\ file_table' = file_table /\ torn' = torn
      /\ disk_next_free' = disk_next_free /\ disk_table' = disk_table
      /\ phase = "data"
  BY DEF StoreData, ram
<1>2. DOMAIN disk_data' = Blocks
  BY DEF StoreData, IInv, TypeOK
<1>3. /\ phase' \in {"data", "super"}
      /\ offset' \in Nat /\ idx' \in Slots
      /\ request' \in [path : Paths, value : Data \cup {Absent, Directory}]
                      \cup {NoRequest}
      /\ unsure' \subseteq Paths
  <2>1. CASE GoOn("data")
    BY <2>1, GoOnType DEF IInv, After
  <2>2. CASE offset' = offset + 1 /\ UNCHANGED << phase, idx, request, unsure >>
    BY <1>1, <2>2 DEF IInv, TypeOK
  <2> QED BY <2>1, <2>2 DEF StoreData
<1>4. TypeOK'
  BY <1>1, <1>2, <1>3 DEF IInv, TypeOK, Phases
<1> QED BY <1>1, <1>3, <1>4 DEF IInv, InBounds, Separate

LEMMA StoreSuperIInv == NothingLost => (IInv /\ StoreSuper => IInv')
<1> SUFFICES ASSUME NothingLost, IInv, StoreSuper PROVE IInv'
  OBVIOUS
<1>1. /\ mounted' = mounted /\ next_free_block' = next_free_block
      /\ file_table' = file_table /\ torn' = torn
      /\ disk_data' = disk_data /\ disk_table' = disk_table
      /\ mounted
  BY DEF StoreSuper, ram, IInv
<1>2. disk_next_free' = next_free_block
  BY DEF StoreSuper, Kept, NothingLost
<1>3. TypeOK'
  BY <1>1, <1>2, GoOnType DEF StoreSuper, IInv, TypeOK
<1>4. next_free_block \in Nat /\ disk_next_free \in Nat
  BY ChaosFSAssumption DEF IInv, TypeOK
<1>5. \A e \in Entry : Below(e, disk_next_free) => Below(e, next_free_block)
  BY <1>1, <1>4 DEF IInv, Below, Entry
<1>6. InBounds(disk_table, next_free_block)
  BY <1>5 DEF IInv, TypeOK, InBounds
<1> QED BY <1>1, <1>2, <1>3, <1>4, <1>6 DEF IInv, InBounds, Separate

LEMMA StoreTableIInv == NothingLost => (IInv /\ StoreTable => IInv')
<1> SUFFICES ASSUME NothingLost, IInv, StoreTable PROVE IInv'
  OBVIOUS
<1>1. /\ mounted' = mounted /\ next_free_block' = next_free_block
      /\ file_table' = file_table /\ torn' = torn
      /\ disk_data' = disk_data /\ disk_next_free' = disk_next_free
      /\ phase = "table" /\ mounted /\ disk_next_free = next_free_block
  BY DEF StoreTable, ram, IInv
<1>2. PICK S : disk_table' =
        [i \in Slots |-> IF i \in S THEN file_table[i] ELSE disk_table[i]]
  <2>1. PICK kept \in BOOLEAN :
          disk_table' = [i \in Slots |->
            IF kept /\ SectorOf(i) = offset THEN file_table[i]
                                            ELSE disk_table[i]]
    BY DEF StoreTable, Kept, NothingLost
  <2> WITNESS {i \in Slots : kept /\ SectorOf(i) = offset}
  <2> QED BY <2>1
<1>3. \A i \in Slots : disk_table'[i] \in {file_table[i], disk_table[i]}
  BY <1>2
<1>4. /\ phase' \in {"table", "idle"}
      /\ offset' \in Nat /\ idx' \in Slots
      /\ request' \in [path : Paths, value : Data \cup {Absent, Directory}]
                      \cup {NoRequest}
      /\ unsure' \subseteq Paths
  <2>1. CASE GoOn("table")
    BY <2>1, GoOnType DEF IInv, After
  <2>2. CASE offset' = offset + 1 /\ UNCHANGED << phase, idx, request, unsure >>
    BY <1>1, <2>2 DEF IInv, TypeOK
  <2> QED BY <2>1, <2>2 DEF StoreTable
<1>5. disk_table' \in [Slots -> Entry]
  BY <1>2 DEF IInv, TypeOK
<1>6. TypeOK'
  BY <1>1, <1>4, <1>5 DEF IInv, TypeOK, Phases
<1>7. InBounds(disk_table', disk_next_free')
  BY <1>1, <1>3 DEF IInv, InBounds
<1>9. \A e, f \in Entry : Apart(e, f) => Apart(f, e)
  BY DEF Apart, Entry
<1>8. Separate(file_table, disk_table')
  BY <1>3 DEF IInv, Separate
<1>10. Separate(disk_table', disk_table')
  BY <1>3, <1>9 DEF IInv, TypeOK, Separate
<1> QED BY <1>1, <1>4, <1>6, <1>7, <1>8, <1>10 DEF IInv, InBounds, Separate

LEMMA DriveErrorIInv == IInv /\ DriveError => IInv'
<1> SUFFICES ASSUME IInv, DriveError PROVE IInv'
  OBVIOUS
<1>1. /\ UNCHANGED << mounted, next_free_block, file_table, disk_next_free,
                      disk_table, disk_data, unsure, torn >>
      /\ phase' = "idle" /\ offset' = 0 /\ idx' = 0 /\ request' = NoRequest
  BY DEF DriveError, ram, disk
<1>2. TypeOK'
  BY <1>1, ZeroSlot DEF IInv, TypeOK, Phases
<1> QED BY <1>1, <1>2 DEF IInv, InBounds, Separate

LEMMA CrashIInv == IInv /\ Crash => IInv'
<1> SUFFICES ASSUME IInv, Crash PROVE IInv'
  OBVIOUS
<1>1. /\ UNCHANGED << disk_next_free, disk_table, disk_data, unsure >>
      /\ mounted' = FALSE /\ next_free_block' = 0
      /\ file_table' = [i \in Slots |-> FreeEntry]
      /\ phase' = "idle" /\ offset' = 0 /\ idx' = 0 /\ request' = NoRequest
      /\ torn' = torn \cup unsure
  BY DEF Crash, disk
<1>2. TypeOK'
  BY <1>1, ZeroSlot, FreeIsEntry, ChaosFSAssumption DEF IInv, TypeOK, Phases
<1>3. \A i \in Slots : ~Active(file_table'[i])
  BY <1>1, FreeIsEntry
<1>4. /\ InBounds(file_table', next_free_block')
      /\ Separate(file_table', file_table')
      /\ Separate(file_table', disk_table')
  BY <1>3 DEF InBounds, Below, Separate, Apart
<1> QED BY <1>1, <1>2, <1>4 DEF IInv, InBounds, Separate

-----------------------------------------------------------------------------
LEMMA InitIInv == Init => IInv
<1> SUFFICES ASSUME Init PROVE IInv
  OBVIOUS
<1>1. TypeOK
  BY ZeroSlot, FreeIsEntry, ChaosFSAssumption DEF Init, TypeOK, Phases
<1>2. \A i \in Slots : ~Active(file_table[i]) /\ ~Active(disk_table[i])
  BY FreeIsEntry DEF Init
<1> QED BY <1>1, <1>2 DEF Init, IInv, InBounds, Below, Separate, Apart

LEMMA NextIInv == NothingLost => (IInv /\ [Next]_vars => IInv')
<1> SUFFICES ASSUME NothingLost, IInv, [Next]_vars PROVE IInv'
  OBVIOUS
<1>1. CASE Mount
  BY <1>1, MountIInv
<1>2. ASSUME NEW p \in Paths, NEW d \in Data,
             Overwrite(p, d) \/ Create(p, d) \/ Replace(p, d)
      PROVE  IInv'
  BY <1>2, OverwriteIInv, CreateIInv, ReplaceIInv
<1>3. ASSUME NEW p \in Paths, Delete(p) \/ Mkdir(p) PROVE IInv'
  BY <1>3, DeleteIInv, MkdirIInv
<1>4. CASE StoreData
  BY <1>4, StoreDataIInv
<1>5. CASE StoreSuper
  BY <1>5, StoreSuperIInv
<1>6. CASE StoreTable
  BY <1>6, StoreTableIInv
<1>7. CASE DriveError \/ Crash
  BY <1>7, DriveErrorIInv, CrashIInv
<1>8. CASE UNCHANGED vars
  BY <1>8 DEF vars, ram, disk, IInv, TypeOK, InBounds, Separate
<1> QED BY <1>1, <1>2, <1>3, <1>4, <1>5, <1>6, <1>7, <1>8 DEF Next

LEMMA SpecIInv == ASSUME NothingLost PROVE Spec => []IInv
<1>1. IInv /\ [Next]_vars => IInv'
  BY NextIInv
<1> QED BY <1>1, InitIInv, PTL DEF Spec

LEMMA IInvImplies == IInv => ExtentsDisjoint /\ NextIsFree
<1> SUFFICES ASSUME IInv PROVE ExtentsDisjoint /\ NextIsFree
  OBVIOUS
<1>1. \A e, f \in Entry : Apart(e, f) => Extent(e) \cap Extent(f) = {}
  BY DEF Apart, Extent, Entry
<1>2. ExtentsDisjoint
  BY <1>1 DEF IInv, TypeOK, Separate, ExtentsDisjoint
<1>3. next_free_block \in Nat /\ disk_next_free \in Nat
  BY ChaosFSAssumption DEF IInv, TypeOK
<1>4. \A e \in Entry, n \in Nat : Below(e, n) => \A b \in Extent(e) : b < n
  BY DEF Below, Extent, Entry
<1>5. NextIsFree
  BY <1>3, <1>4 DEF IInv, TypeOK, InBounds, NextIsFree
<1> QED BY <1>2, <1>5

(* Every variable of the file system keeps its type.                        *)
THEOREM TypeCorrect == ASSUME NothingLost PROVE Spec => []TypeOK
<1>1. IInv => TypeOK
  BY DEF IInv
<1> QED BY <1>1, SpecIInv, PTL

(* The blocks of two live files never overlap, in the cached table and in   *)
(* the table a power loss would leave behind, whatever part of it has been  *)
(* written: chaosfs_sync may be cut short anywhere.                         *)
THEOREM FilesNeverOverlap == ASSUME NothingLost PROVE Spec => []ExtentsDisjoint
  BY SpecIInv, IInvImplies, PTL

(* A block of a live file is never above the next_free_block that goes with *)
(* it, so no allocation after a restart hands it out again.                 *)
THEOREM AllocationIsStored == ASSUME NothingLost PROVE Spec => []NextIsFree
  BY SpecIInv, IInvImplies, PTL
-----------------------------------------------------------------------------
(* The size of a live file fits the blocks it owns; a directory owns none.  *)
Shaped(table) ==
  \A i \in Slots : Active(table[i]) =>
    IF table[i].dir THEN table[i].block_count = 0
                    ELSE table[i].size <= table[i].block_count

(* Where the cache and the drive differ, it is on account of requests that  *)
(* have not succeeded.                                                      *)
Settled ==
  mounted => \A i \in Slots : file_table[i] # disk_table[i] =>
               /\ file_table[i].filename \in unsure \cup {NoName}
               /\ disk_table[i].filename \in unsure \cup {NoName}

(* No path has two entries, those in S excepted.                            *)
Once(table, S) ==
  \A i, j \in Slots :
    i # j /\ Active(table[i]) /\ table[i].filename \notin S
      => table[i].filename # table[j].filename

(* Entry e says what was asked for, and the first n chunks are stored.      *)
Describes(e, v) ==
  IF v = Directory THEN e.dir ELSE ~e.dir /\ e.size = Len(v)
Stored(e, v, n) ==
  v # Directory =>
    \A k \in 1 .. n : disk_data[e.start_block + k - 1] = v[k]

Written == IF phase = "data" THEN offset ELSE Len(request.value)

InCache ==
  IF request.value = Absent
    THEN request.path \notin torn => Found(file_table, request.path) = {}
    ELSE /\ IsFirst(idx, Found(file_table, request.path))
         /\ Describes(file_table[idx], request.value)
         /\ Stored(file_table[idx], request.value, Written)

Serving ==
  /\ request \in [path : Paths, value : Data \cup {Absent, Directory}]
  /\ request.path \in unsure
  /\ phase = "data" => /\ request.value \in Data
                       /\ offset < Len(request.value)
  /\ phase = "table" =>
       /\ offset < TableSectors
       /\ \A i \in Slots : SectorOf(i) < offset => file_table[i] = disk_table[i]
  /\ InCache

KInv ==
  /\ Shaped(file_table) /\ Shaped(disk_table)
  /\ Settled
  /\ Once(file_table, torn)
  /\ ~mounted => Once(disk_table, torn)
  /\ IF phase = "idle" THEN request = NoRequest ELSE Serving

-----------------------------------------------------------------------------
LEMMA SlotsFinite == Slots \in SUBSET Nat
BY ChaosFSAssumption DEF Slots

LEMMA FirstExists ==
  ASSUME NEW S \in SUBSET Slots, S # {}
  PROVE  \E i \in Slots : IsFirst(i, S)
BY SlotsFinite, LeastElement DEF IsFirst

LEMMA FirstIsOne ==
  ASSUME NEW S \in SUBSET Slots, NEW i \in Slots, IsFirst(i, S)
  PROVE  (CHOOSE j \in Slots : IsFirst(j, S)) = i
<1>1. \A j \in Slots : IsFirst(j, S) => j = i
  BY SlotsFinite DEF IsFirst
<1> QED BY <1>1

(* What is found for a path, once its first entry is known.                 *)
LEMMA ViewOfFirst ==
  ASSUME NEW table, NEW data, NEW p,
         NEW i \in Slots, IsFirst(i, Found(table, p))
  PROVE  View(table, data, p) =
           IF table[i].dir THEN Directory
           ELSE [k \in 1 .. table[i].size |-> data[table[i].start_block + k - 1]]
<1>1. Found(table, p) \in SUBSET Slots /\ Found(table, p) # {}
  BY DEF Found, IsFirst
<1>2. (CHOOSE j \in Slots : IsFirst(j, Found(table, p))) = i
  BY <1>1, FirstIsOne
<1> QED BY <1>1, <1>2 DEF View

(* A path is seen the same in two tables that agree on its entries, and the *)
(* blocks of these hold the same.                                           *)
LEMMA ViewSame ==
  ASSUME NEW s \in [Slots -> Entry], NEW t \in [Slots -> Entry],
         NEW data, NEW other, NEW p,
         Found(s, p) = Found(t, p),
         \A i \in Found(s, p) :
           /\ s[i] = t[i]
           /\ ~s[i].dir => \A k \in 1 .. s[i].size :
                data[s[i].start_block + k - 1] = other[s[i].start_block + k - 1]
  PROVE  View(s, data, p) = View(t, other, p)
<1>1. CASE Found(s, p) = {}
  BY <1>1 DEF View
<1>2. CASE Found(s, p) # {}
  <2>1. Found(s, p) \in SUBSET Slots
    BY DEF Found
  <2>2. PICK i \in Slots : IsFirst(i, Found(s, p))
    BY <1>2, <2>1, FirstExists
  <2>3. i \in Found(s, p)
    BY <2>2 DEF IsFirst
  <2>4. View(s, data, p) =
          IF s[i].dir THEN Directory
          ELSE [k \in 1 .. s[i].size |-> data[s[i].start_block + k - 1]]
    BY <2>2, ViewOfFirst
  <2>5. View(t, other, p) =
          IF t[i].dir THEN Directory
          ELSE [k \in 1 .. t[i].size |-> other[t[i].start_block + k - 1]]
    BY <2>2, ViewOfFirst
  <2>6. s[i] = t[i]
    BY <2>3
  <2>7. CASE s[i].dir
    BY <2>4, <2>5, <2>6, <2>7
  <2>8. CASE ~s[i].dir
    <3>1. [k \in 1 .. s[i].size |-> data[s[i].start_block + k - 1]]
            = [k \in 1 .. t[i].size |-> other[t[i].start_block + k - 1]]
      BY <2>3, <2>6, <2>8
    <3> QED BY <2>4, <2>5, <2>6, <2>8, <3>1
  <2> QED BY <2>7, <2>8
<1> QED BY <1>1, <1>2

(* A path without an open question is found the same in both tables.        *)
LEMMA SameEntries ==
  ASSUME IInv, Settled, mounted, NEW q \in Paths \ unsure
  PROVE  /\ Found(file_table, q) = Found(disk_table, q)
         /\ \A i \in Found(disk_table, q) : file_table[i] = disk_table[i]
BY ChaosFSAssumption DEF Settled, Found, Active

LEMMA Agreement == IInv /\ KInv => CacheAgrees
<1> SUFFICES ASSUME IInv, KInv, mounted, NEW p \in Paths \ unsure
             PROVE  View(file_table, disk_data, p) = View(disk_table, disk_data, p)
  BY DEF CacheAgrees
<1>1. file_table \in [Slots -> Entry] /\ disk_table \in [Slots -> Entry]
  BY DEF IInv, TypeOK
<1> QED BY <1>1, SameEntries, ViewSame DEF KInv

-----------------------------------------------------------------------------
(* A call for p changes entries of p and unused ones, and leaves the cache  *)
(* as the caller wants it.                                                  *)
Wanted(table, p, v, i) ==
  IF v = Absent
    THEN p \notin torn => Found(table, p) = {}
    ELSE IsFirst(i, Found(table, p)) /\ Describes(table[i], v)

LEMMA CallKInv ==
  ASSUME IInv, KInv, NEW p \in Paths, NEW v \in Data \cup {Absent, Directory},
         NEW i \in Slots, NEW first \in {"data", "super"}, Begin(p, v, i, first),
         IF v \in Data THEN first = FirstPhase(v) ELSE first = "super",
         Shaped(file_table'), Once(file_table', torn),
         \A j \in Slots : file_table'[j] # file_table[j] =>
           /\ file_table[j].filename \in {p, NoName}
           /\ file_table'[j].filename \in {p, NoName},
         Wanted(file_table', p, v, i)
  PROVE  KInv'
<1>1. /\ mounted /\ mounted' /\ phase' = first /\ offset' = 0 /\ idx' = i
      /\ request' = [path |-> p, value |-> v]
      /\ unsure' = unsure \cup {p} /\ torn' = torn
      /\ disk_table' = disk_table /\ disk_data' = disk_data
  BY DEF Begin, disk
<1>2. Settled'
  BY <1>1 DEF KInv, Settled
<1>3. v \in Data => Len(v) \in Nat /\ v # Directory /\ v # Absent
  BY ChaosFSAssumption
<1>4. first = "data" => v \in Data /\ 0 < Len(v)
  BY <1>3 DEF FirstPhase, After
<1>5. v # Directory /\ v # Absent => Written' = 0
  BY <1>1, <1>3 DEF Written, FirstPhase, After
<1>6. InCache'
  BY <1>1, <1>5 DEF InCache, Wanted, Stored, Found
<1>7. Serving'
  BY <1>1, <1>4, <1>6 DEF Serving
<1> QED BY <1>1, <1>2, <1>7 DEF KInv, Shaped, Once

LEMMA OverwriteKInv ==
  ASSUME IInv, KInv, NEW p \in Paths, NEW d \in Data, Overwrite(p, d)
  PROVE  KInv'
<1>1. PICK i \in Slots :
        /\ IsFirst(i, Found(file_table, p))
        /\ Fits(d, file_table[i])
        /\ file_table' = [file_table EXCEPT ![i].size = Len(d)]
        /\ Begin(p, d, i, FirstPhase(d))
  BY DEF Overwrite
<1>2. file_table \in [Slots -> Entry] /\ Len(d) \in Nat
  BY ChaosFSAssumption DEF IInv, TypeOK
<1>3. /\ \A j \in Slots :
           /\ file_table'[j].filename = file_table[j].filename
           /\ file_table'[j].block_count = file_table[j].block_count
           /\ file_table'[j].dir = file_table[j].dir
           /\ j # i => file_table'[j] = file_table[j]
      /\ file_table'[i].size = Len(d)
      /\ DOMAIN file_table' = Slots
  BY <1>1, <1>2 DEF Entry
<1>4. file_table[i].filename = p /\ Active(file_table[i])
  BY <1>1 DEF IsFirst, Found
<1>5. ~file_table[i].dir /\ Len(d) <= file_table[i].block_count
  <2>1. file_table[i].block_count \in Nat
    BY <1>2 DEF Entry
  <2>2. 0 < file_table[i].block_count /\ Len(d) <= file_table[i].block_count
    BY <1>1, <1>2, <2>1 DEF Fits, NeededBlocks
  <2>3. file_table[i].dir => file_table[i].block_count = 0
    BY <1>4 DEF KInv, Shaped
  <2> QED BY <2>1, <2>2, <2>3
<1>6. Shaped(file_table')
  BY <1>3, <1>5 DEF KInv, Shaped, Active
<1>7. Once(file_table', torn)
  BY <1>3 DEF KInv, Once, Active
<1>8. Found(file_table', p) = Found(file_table, p)
  BY <1>3 DEF Found, Active
<1>9. Wanted(file_table', p, d, i)
  BY <1>1, <1>3, <1>5, <1>8, ChaosFSAssumption DEF Wanted, Describes
<1>10. \A j \in Slots : file_table'[j] # file_table[j] =>
         /\ file_table[j].filename \in {p, NoName}
         /\ file_table'[j].filename \in {p, NoName}
  BY <1>3, <1>4
<1> QED BY <1>1, <1>6, <1>7, <1>9, <1>10, FirstPhases, CallKInv

LEMMA CreateInKInv ==
  ASSUME IInv, KInv, NEW p \in Paths, NEW d \in Data,
         NEW table \in [Slots -> Entry], Shaped(table), Once(table, torn),
         p \notin torn => Found(table, p) = {},
         \A i \in Slots : IsFirst(i, FreeSlots(table)) =>
                            \A j \in Found(table, p) : i <= j,
         \A j \in Slots : table[j] # file_table[j] =>
           /\ file_table[j].filename = p
           /\ table[j].filename = NoName,
         CreateIn(table, p, d)
  PROVE  KInv'
<1>1. PICK i \in Slots :
        /\ IsFirst(i, FreeSlots(table))
        /\ file_table' = [table EXCEPT ![i] = NewEntry(p, d)]
        /\ Begin(p, d, i, FirstPhase(d))
  BY DEF CreateIn
<1>2. /\ NewEntry(p, d).filename = p /\ NewEntry(p, d).size = Len(d)
      /\ ~NewEntry(p, d).dir
      /\ NewEntry(p, d).block_count = NeededBlocks(d)
  BY DEF NewEntry
<1>3. /\ \A j \in Slots : file_table'[j] = IF j = i THEN NewEntry(p, d) ELSE table[j]
      /\ table[i].filename = NoName
  BY <1>1 DEF IsFirst, FreeSlots, Active
<1>4. Len(d) \in Nat /\ Len(d) <= NeededBlocks(d) /\ p # NoName
  BY ChaosFSAssumption DEF NeededBlocks
<1>5. Shaped(file_table')
  BY <1>2, <1>3, <1>4 DEF Shaped
<1>6. Once(file_table', torn)
  BY <1>2, <1>3, <1>4 DEF Once, Active, Found
<1>7. Found(file_table', p) = Found(table, p) \cup {i}
  BY <1>2, <1>3, <1>4 DEF Found, Active
<1>8. IsFirst(i, Found(file_table', p))
  BY <1>1, <1>7, SlotsFinite DEF IsFirst
<1>9. Wanted(file_table', p, d, i)
  BY <1>2, <1>3, <1>8, ChaosFSAssumption DEF Wanted, Describes
<1>10. \A j \in Slots : file_table'[j] # file_table[j] =>
         /\ file_table[j].filename \in {p, NoName}
         /\ file_table'[j].filename \in {p, NoName}
  BY <1>2, <1>3
<1> QED BY <1>1, <1>5, <1>6, <1>9, <1>10, FirstPhases, CallKInv

LEMMA CreateKInv ==
  ASSUME IInv, KInv, NEW p \in Paths, NEW d \in Data, Create(p, d)
  PROVE  KInv'
BY CreateInKInv DEF Create, IInv, TypeOK, KInv

(* Marking an entry.                                                        *)
LEMMA MarkDeletedShape ==
  ASSUME IInv, KInv, NEW p \in Paths, NEW i \in Slots,
         IsFirst(i, Found(file_table, p))
  PROVE  LET t == MarkDeleted(file_table, i)
         IN  /\ t \in [Slots -> Entry]
             /\ Shaped(t) /\ Once(t, torn)
             /\ \A j \in Slots : t[j] = IF j = i THEN FreeEntry ELSE file_table[j]
             /\ file_table[i].filename = p
             /\ t[i].filename = NoName
             /\ Found(t, p) = Found(file_table, p) \ {i}
             /\ p \notin torn => Found(t, p) = {}
<1> DEFINE t == MarkDeleted(file_table, i)
<1>1. /\ \A j \in Slots : t[j] = IF j = i THEN FreeEntry ELSE file_table[j]
      /\ t \in [Slots -> Entry]
  BY FreeIsEntry DEF MarkDeleted, IInv, TypeOK
<1>2. t[i].filename = NoName
  BY <1>1 DEF FreeEntry
<1>3. Shaped(t)
  BY <1>1, FreeIsEntry DEF Shaped, KInv
<1>4. Once(t, torn)
  BY <1>1, <1>2 DEF Once, KInv, Active
<1>5. file_table[i].filename = p
  BY DEF IsFirst, Found
<1>6. Found(t, p) = Found(file_table, p) \ {i}
  BY <1>1, <1>2 DEF Found, Active
<1>7. p \notin torn => \A j \in Found(file_table, p) : j = i
  BY <1>5 DEF KInv, Once, Found
<1> QED BY <1>1, <1>2, <1>3, <1>4, <1>5, <1>6, <1>7

LEMMA ReplaceKInv ==
  ASSUME IInv, KInv, NEW p \in Paths, NEW d \in Data, Replace(p, d)
  PROVE  KInv'
<1>1. PICK i \in Slots : /\ IsFirst(i, Found(file_table, p))
                         /\ CreateIn(MarkDeleted(file_table, i), p, d)
  BY DEF Replace
<1> DEFINE t == MarkDeleted(file_table, i)
<1>2. /\ t \in [Slots -> Entry]
      /\ Shaped(t) /\ Once(t, torn)
      /\ \A j \in Slots : t[j] = IF j = i THEN FreeEntry ELSE file_table[j]
      /\ file_table[i].filename = p
      /\ t[i].filename = NoName
      /\ Found(t, p) = Found(file_table, p) \ {i}
      /\ p \notin torn => Found(t, p) = {}
  BY <1>1, MarkDeletedShape
<1>3. i \in FreeSlots(t)
  BY <1>2 DEF FreeSlots, Active
<1>4. \A k \in Slots : IsFirst(k, FreeSlots(t)) => \A j \in Found(t, p) : k <= j
  BY <1>1, <1>2, <1>3, SlotsFinite DEF IsFirst, Found
<1>5. \A j \in Slots : t[j] # file_table[j] =>
        file_table[j].filename = p /\ t[j].filename = NoName
  BY <1>2
<1>6. CreateIn(t, p, d)
  BY <1>1
<1> HIDE DEF t
<1> QED BY <1>2, <1>4, <1>5, <1>6, CreateInKInv

LEMMA DeleteKInv ==
  ASSUME IInv, KInv, NEW p \in Paths, Delete(p)
  PROVE  KInv'
<1>1. PICK i \in Slots : /\ IsFirst(i, Found(file_table, p))
                         /\ file_table' = MarkDeleted(file_table, i)
                         /\ Begin(p, Absent, i, After("data"))
  BY DEF Delete
<1>2. /\ Shaped(file_table') /\ Once(file_table', torn)
      /\ \A j \in Slots : file_table'[j] # file_table[j] =>
           /\ file_table[j].filename \in {p, NoName}
           /\ file_table'[j].filename \in {p, NoName}
      /\ p \notin torn => Found(file_table', p) = {}
  BY <1>1, MarkDeletedShape
<1>3. Wanted(file_table', p, Absent, i)
  BY <1>2 DEF Wanted
<1>4. After("data") = "super" /\ Absent \notin Data
  BY ChaosFSAssumption DEF After
<1> QED BY <1>1, <1>2, <1>3, <1>4, CallKInv

LEMMA MkdirKInv ==
  ASSUME IInv, KInv, NEW p \in Paths, Mkdir(p)
  PROVE  KInv'
<1> DEFINE e == [FreeEntry EXCEPT !.filename = p, !.dir = TRUE]
<1>1. PICK i \in Slots :
        /\ IsFirst(i, FreeSlots(file_table))
        /\ file_table' = [file_table EXCEPT ![i] = e]
        /\ Begin(p, Directory, i, After("data"))
  BY DEF Mkdir
<1>2. e.filename = p /\ e.dir /\ e.block_count = 0
  BY DEF FreeEntry
<1> HIDE DEF e
<1>3. /\ \A j \in Slots : file_table'[j] = IF j = i THEN e ELSE file_table[j]
      /\ file_table[i].filename = NoName
  BY <1>1 DEF IInv, TypeOK, IsFirst, FreeSlots, Active
<1>4. p # NoName /\ Found(file_table, p) = {}
  BY ChaosFSAssumption DEF Mkdir
<1>5. Shaped(file_table')
  BY <1>2, <1>3 DEF Shaped, KInv
<1>6. Once(file_table', torn)
  BY <1>2, <1>3, <1>4 DEF Once, KInv, Active, Found
<1>7. Found(file_table', p) = {i}
  BY <1>2, <1>3, <1>4 DEF Found, Active
<1>8. IsFirst(i, {i})
  BY SlotsFinite DEF IsFirst
<1>9. Wanted(file_table', p, Directory, i)
  BY <1>2, <1>3, <1>7, <1>8, ChaosFSAssumption DEF Wanted, Describes
<1>10. After("data") = "super" /\ Directory \notin Data
  BY ChaosFSAssumption DEF After
<1>11. \A j \in Slots : file_table'[j] # file_table[j] =>
         /\ file_table[j].filename \in {p, NoName}
         /\ file_table'[j].filename \in {p, NoName}
  BY <1>2, <1>3
<1> QED BY <1>1, <1>5, <1>6, <1>9, <1>10, <1>11, CallKInv

-----------------------------------------------------------------------------
LEMMA MountKInv == IInv /\ KInv /\ Mount => KInv'
<1> SUFFICES ASSUME IInv, KInv, Mount PROVE KInv'
  OBVIOUS
<1>1. /\ ~mounted /\ mounted' /\ phase = "idle" /\ phase' = phase
      /\ file_table' = disk_table /\ disk_table' = disk_table
      /\ torn' = torn /\ request' = request
  BY DEF Mount, disk, IInv, TypeOK
<1> QED BY <1>1 DEF KInv, Shaped, Settled, Once

LEMMA CrashKInv == IInv /\ KInv /\ Crash => KInv'
<1> SUFFICES ASSUME IInv, KInv, Crash PROVE KInv'
  OBVIOUS
<1>1. /\ mounted /\ ~mounted' /\ phase' = "idle" /\ request' = NoRequest
      /\ \A i \in Slots : ~Active(file_table'[i])
      /\ disk_table' = disk_table /\ torn' = torn \cup unsure
  BY FreeIsEntry DEF Crash, disk
<1>2. Shaped(file_table') /\ Once(file_table', torn')
  BY <1>1 DEF Shaped, Once
<1>3. Once(disk_table', torn')
  <2> SUFFICES ASSUME NEW i \in Slots, NEW j \in Slots, i # j,
                      Active(disk_table[i]),
                      disk_table[i].filename \notin torn \cup unsure,
                      disk_table[i].filename = disk_table[j].filename
               PROVE  FALSE
    BY <1>1 DEF Once
  <2>1. file_table[i] = disk_table[i] /\ file_table[j] = disk_table[j]
    BY <1>1 DEF KInv, Settled, Active
  <2> QED BY <2>1 DEF KInv, Once
<1> QED BY <1>1, <1>2, <1>3 DEF KInv, Shaped, Settled

LEMMA DriveErrorKInv == IInv /\ KInv /\ DriveError => KInv'
<1> SUFFICES ASSUME IInv, KInv, DriveError PROVE KInv'
  OBVIOUS
<1>1. /\ UNCHANGED << mounted, file_table, disk_table, unsure, torn >>
      /\ phase' = "idle" /\ request' = NoRequest
  BY DEF DriveError, ram, disk
<1> QED BY <1>1 DEF KInv, Shaped, Settled, Once

(* The block the next chunk goes to belongs to the entry at work alone.     *)
LEMMA OwnBlock ==
  ASSUME IInv, KInv, phase = "data",
         NEW n \in Nat, n < Len(request.value)
  PROVE  /\ mounted
         /\ request.value \in Data /\ Len(request.value) \in Nat
         /\ file_table[idx].filename = request.path
         /\ ~file_table[idx].dir
         /\ file_table[idx].start_block \in Nat
         /\ file_table[idx].start_block + n \in Blocks
         /\ n < file_table[idx].block_count
<1>1. Serving /\ mounted
  BY DEF KInv, IInv
<1>2. /\ request.value \in Data /\ request.value # Absent
      /\ request.value # Directory
      /\ Len(request.value) \in Nat
      /\ request.path \in Paths
  BY <1>1, ChaosFSAssumption DEF Serving
<1>3. /\ idx \in Slots /\ file_table[idx].filename = request.path
      /\ Active(file_table[idx])
      /\ ~file_table[idx].dir /\ file_table[idx].size = Len(request.value)
  BY <1>1, <1>2 DEF Serving, InCache, IsFirst, Found, Describes
<1>4. /\ file_table[idx].start_block \in Nat
      /\ file_table[idx].block_count \in Nat
      /\ file_table[idx].size \in Nat
  BY <1>3 DEF IInv, TypeOK, Entry
<1>5. file_table[idx].size <= file_table[idx].block_count
  BY <1>3 DEF KInv, Shaped
<1>6. /\ next_free_block \in 0 .. MAX_BLOCKS
      /\ file_table[idx].start_block + file_table[idx].block_count
           <= next_free_block
  BY <1>3 DEF IInv, TypeOK, InBounds, Below
<1>7. n < file_table[idx].block_count
  BY <1>2, <1>3, <1>4, <1>5
<1>8. file_table[idx].start_block + n \in Blocks
  <2> DEFINE s == file_table[idx].start_block
             c == file_table[idx].block_count
  <2>1. /\ s \in Nat /\ c \in Nat /\ n < c
        /\ MAX_BLOCKS \in Nat /\ next_free_block \in 0 .. MAX_BLOCKS
        /\ s + c <= next_free_block
    BY <1>4, <1>6, <1>7, ChaosFSAssumption
  <2> HIDE DEF s, c
  <2>2. s + n \in Blocks
    BY <2>1 DEF Blocks
  <2> QED BY <2>2 DEF s
<1> QED BY <1>1, <1>2, <1>3, <1>4, <1>7, <1>8

(* Behind the data and the superblock the operation always goes on.         *)
LEMMA GoOnStays ==
  ASSUME NEW part \in {"data", "super"}, GoOn(part)
  PROVE  /\ phase' = After(part) /\ phase' \in {"super", "table"}
         /\ phase' = "table" <=> part = "super"
         /\ offset' = 0
         /\ UNCHANGED << idx, request, unsure >>
BY DEF GoOn, After

(* The sectors of the table hold all of its entries.                        *)
LEMMA SectorsCover ==
  /\ TableSectors \in Nat /\ 0 < TableSectors
  /\ \A i \in Slots : SectorOf(i) \in Nat /\ SectorOf(i) < TableSectors
<1> DEFINE E == ENTRIES_PER_SECTOR
<1>1. E \in Nat \ {0} /\ MAX_FILES \in Nat \ {0}
  BY ChaosFSAssumption
<1>2. TableSectors \in Nat /\ 0 < TableSectors
  BY <1>1 DEF TableSectors
<1>3. ASSUME NEW i \in Slots
      PROVE  SectorOf(i) \in Nat /\ SectorOf(i) < TableSectors
  <2>1. i \in Nat /\ i + E <= MAX_FILES + E - 1
    BY <1>1 DEF Slots
  <2>2. SectorOf(i) \in Nat
    BY <1>1, <2>1 DEF SectorOf
  <2>3. (i + E) \div E = SectorOf(i) + 1
    BY <1>1, <2>1 DEF SectorOf
  <2>4. (i + E) \div E <= TableSectors
    BY <1>1, <2>1 DEF TableSectors
  <2> QED BY <1>2, <2>2, <2>3, <2>4
<1> QED BY <1>2, <1>3

LEMMA StoreSuperKInv == IInv /\ KInv /\ StoreSuper => KInv'
<1> SUFFICES ASSUME IInv, KInv, StoreSuper PROVE KInv'
  OBVIOUS
<1>1. /\ UNCHANGED << mounted, file_table, disk_table, disk_data, torn >>
      /\ phase = "super"
  BY DEF StoreSuper, ram
<1>2. phase' = "table" /\ offset' = 0 /\ UNCHANGED << idx, request, unsure >>
  BY GoOnStays DEF StoreSuper
<1>3. Serving
  BY <1>1 DEF KInv
<1>4. InCache'
  BY <1>1, <1>2, <1>3 DEF Serving, InCache, Written, Stored, Found
<1>5. Serving'
  BY <1>1, <1>2, <1>3, <1>4, SectorsCover DEF Serving
<1> QED BY <1>1, <1>2, <1>5 DEF KInv, Shaped, Settled, Once

(* One chunk of the data goes where its file is read from.                  *)
LEMMA StoreDataStep ==
  ASSUME NothingLost, IInv, KInv, StoreData
  PROVE  LET block == file_table[idx].start_block + offset
         IN  /\ block \in Blocks
             /\ disk_data' = [disk_data EXCEPT ![block] = request.value[offset + 1]]
             /\ phase = "data" /\ mounted
             /\ offset \in Nat /\ offset < Len(request.value)
             /\ \/ offset + 1 = Len(request.value) /\ GoOn("data")
                \/ /\ offset + 1 # Len(request.value)
                   /\ offset' = offset + 1
                   /\ UNCHANGED << phase, idx, request, unsure >>
             /\ UNCHANGED << mounted, file_table, disk_table, torn >>
<1>1. phase = "data" /\ offset \in Nat
  BY DEF StoreData, IInv, TypeOK
<1>2. offset < Len(request.value)
  BY <1>1 DEF KInv, Serving
<1>3. Kept = {TRUE}
  BY DEF Kept, NothingLost
<1> QED BY <1>1, <1>2, <1>3, OwnBlock DEF StoreData, ram

LEMMA StoreDataKInv == NothingLost => (IInv /\ KInv /\ StoreData => KInv')
<1> SUFFICES ASSUME NothingLost, IInv, KInv, StoreData PROVE KInv'
  OBVIOUS
<1> DEFINE v == request.value
           start == file_table[idx].start_block
<1>1. /\ disk_data' = [disk_data EXCEPT ![start + offset] = v[offset + 1]]
      /\ start + offset \in Blocks
      /\ phase = "data" /\ mounted
      /\ offset \in Nat /\ offset < Len(v)
      /\ UNCHANGED << mounted, file_table, disk_table, torn >>
  BY StoreDataStep
<1>2. /\ v \in Data /\ Len(v) \in Nat /\ start \in Nat
  BY <1>1, OwnBlock
<1>3. Serving /\ v # Absent /\ v # Directory
  BY <1>1, <1>2, ChaosFSAssumption DEF KInv
<1>4. /\ request' = request /\ idx' = idx /\ unsure' = unsure
      /\ phase' \in {"data", "super"}
      /\ phase' = "data" => offset' = offset + 1 /\ offset' < Len(v)
      /\ phase' = "super" => offset + 1 = Len(v)
  <2>1. CASE offset + 1 = Len(v) /\ GoOn("data")
    BY <2>1, GoOnStays DEF After
  <2>2. CASE /\ offset + 1 # Len(v) /\ offset' = offset + 1
             /\ UNCHANGED << phase, idx, request, unsure >>
    BY <1>1, <1>2, <2>2
  <2> QED BY <2>1, <2>2, StoreDataStep
<1>5. Written = offset /\ Written' = offset + 1
  BY <1>1, <1>4 DEF Written
<1>6. DOMAIN disk_data = Blocks
  BY DEF IInv, TypeOK
<1>7. \A k \in 1 .. offset + 1 : disk_data'[start + k - 1] = v[k]
  <2> SUFFICES ASSUME NEW k \in 1 .. offset + 1
               PROVE  disk_data'[start + k - 1] = v[k]
    OBVIOUS
  <2>1. CASE k = offset + 1
    BY <1>1, <1>2, <1>6, <2>1
  <2>2. CASE k # offset + 1
    <3>1. k \in 1 .. offset /\ start + k - 1 # start + offset
      BY <1>1, <1>2, <2>2
    <3>2. disk_data[start + k - 1] = v[k]
      BY <1>3, <1>5, <3>1 DEF Serving, InCache, Stored
    <3>3. disk_data'[start + k - 1] = disk_data[start + k - 1]
      <4>1. start + k - 1 # start + offset
        BY <3>1
      <4> HIDE DEF start, v
      <4> QED BY <1>1, <1>6, <4>1
    <3> QED BY <3>2, <3>3
  <2> QED BY <2>1, <2>2
<1>8. InCache'
  BY <1>1, <1>3, <1>4, <1>5, <1>7 DEF Serving, InCache, Stored, Found
<1>9. Serving'
  BY <1>1, <1>2, <1>3, <1>4, <1>8 DEF Serving
<1> QED BY <1>1, <1>4, <1>9 DEF KInv, Shaped, Settled, Once

LEMMA StoreTableStep ==
  ASSUME NothingLost, IInv, KInv, StoreTable
  PROVE  /\ phase = "table" /\ mounted /\ offset \in Nat
         /\ disk_table' = [i \in Slots |-> IF SectorOf(i) = offset
                             THEN file_table[i] ELSE disk_table[i]]
         /\ \/ offset + 1 = TableSectors /\ GoOn("table")
            \/ /\ offset + 1 # TableSectors
               /\ offset' = offset + 1
               /\ UNCHANGED << phase, idx, request, unsure >>
         /\ UNCHANGED << mounted, file_table, disk_data, torn >>
<1>1. Kept = {TRUE}
  BY DEF Kept, NothingLost
<1>2. phase = "table" /\ offset \in Nat /\ mounted
  BY DEF StoreTable, IInv, TypeOK
<1> QED BY <1>1, <1>2 DEF StoreTable, ram

(* Once its last sector is stored the table on the drive is the cached one. *)
LEMMA LastSector ==
  ASSUME NothingLost, IInv, KInv, StoreTable
  PROVE  /\ \A i \in Slots : SectorOf(i) < offset + 1
                               => disk_table'[i] = file_table[i]
         /\ offset + 1 = TableSectors => disk_table' = file_table
<1>1. /\ phase = "table" /\ offset \in Nat
      /\ disk_table' = [i \in Slots |-> IF SectorOf(i) = offset
                          THEN file_table[i] ELSE disk_table[i]]
  BY StoreTableStep
<1>2. \A i \in Slots : SectorOf(i) < offset => file_table[i] = disk_table[i]
  BY <1>1 DEF KInv, Serving
<1>3. ASSUME NEW i \in Slots, SectorOf(i) < offset + 1
      PROVE  disk_table'[i] = file_table[i]
  <2>1. SectorOf(i) < offset \/ SectorOf(i) = offset
    BY <1>1, <1>3, SectorsCover
  <2> QED BY <1>1, <1>2, <2>1
<1>4. ASSUME offset + 1 = TableSectors PROVE disk_table' = file_table
  <2>1. \A i \in Slots : disk_table'[i] = file_table[i]
    BY <1>3, <1>4, SectorsCover
  <2>2. DOMAIN disk_table' = Slots /\ file_table \in [Slots -> Entry]
    BY <1>1 DEF IInv, TypeOK
  <2> QED BY <1>1, <2>1, <2>2
<1> QED BY <1>3, <1>4

LEMMA StoreTableKInv == NothingLost => (IInv /\ KInv /\ StoreTable => KInv')
<1> SUFFICES ASSUME NothingLost, IInv, KInv, StoreTable PROVE KInv'
  OBVIOUS
<1>1. /\ phase = "table" /\ mounted /\ offset \in Nat
      /\ disk_table' = [i \in Slots |-> IF SectorOf(i) = offset
                          THEN file_table[i] ELSE disk_table[i]]
      /\ UNCHANGED << mounted, file_table, disk_data, torn >>
  BY StoreTableStep
<1>2. Shaped(disk_table')
  BY <1>1 DEF KInv, Shaped
<1>3. Serving
  BY <1>1 DEF KInv
<1>4. CASE offset + 1 = TableSectors /\ GoOn("table")
  <2>1. disk_table' = file_table
    BY <1>4, LastSector
  <2>2. phase' = "idle" /\ request' = NoRequest
    BY <1>4 DEF GoOn, After
  <2> QED BY <1>1, <1>2, <2>1, <2>2 DEF KInv, Shaped, Settled, Once
<1>5. CASE /\ offset + 1 # TableSectors /\ offset' = offset + 1
           /\ UNCHANGED << phase, idx, request, unsure >>
  <2>1. Settled'
    BY <1>1, <1>5 DEF KInv, Settled
  <2>2. offset' < TableSectors
    BY <1>1, <1>3, <1>5, SectorsCover DEF Serving
  <2>3. \A i \in Slots : SectorOf(i) < offset' => file_table'[i] = disk_table'[i]
    BY <1>1, <1>5, LastSector
  <2>4. InCache'
    BY <1>1, <1>3, <1>5 DEF Serving, InCache, Written, Stored, Found
  <2>5. Serving'
    BY <1>1, <1>3, <1>5, <2>2, <2>3, <2>4 DEF Serving
  <2> QED BY <1>1, <1>2, <1>5, <2>1, <2>5 DEF KInv, Shaped, Once
<1> QED BY <1>4, <1>5, StoreTableStep

-----------------------------------------------------------------------------
LEMMA InitKInv == Init => KInv
<1> SUFFICES ASSUME Init PROVE KInv
  OBVIOUS
<1>1. /\ ~mounted /\ phase = "idle" /\ request = NoRequest
      /\ \A i \in Slots : ~Active(file_table[i]) /\ ~Active(disk_table[i])
  BY FreeIsEntry DEF Init
<1> QED BY <1>1 DEF KInv, Shaped, Settled, Once

LEMMA NextKInv == NothingLost => (IInv /\ KInv /\ [Next]_vars => KInv')
<1> SUFFICES ASSUME NothingLost, IInv, KInv, [Next]_vars PROVE KInv'
  OBVIOUS
<1>1. CASE Mount
  BY <1>1, MountKInv
<1>2. ASSUME NEW p \in Paths, NEW d \in Data,
             Overwrite(p, d) \/ Create(p, d) \/ Replace(p, d)
      PROVE  KInv'
  BY <1>2, OverwriteKInv, CreateKInv, ReplaceKInv
<1>3. ASSUME NEW p \in Paths, Delete(p) \/ Mkdir(p) PROVE KInv'
  BY <1>3, DeleteKInv, MkdirKInv
<1>4. CASE StoreData
  BY <1>4, StoreDataKInv
<1>5. CASE StoreSuper
  BY <1>5, StoreSuperKInv
<1>6. CASE StoreTable
  BY <1>6, StoreTableKInv
<1>7. CASE DriveError \/ Crash
  BY <1>7, DriveErrorKInv, CrashKInv
<1>8. CASE UNCHANGED vars
  BY <1>8 DEF vars, ram, disk, KInv, Shaped, Settled, Once, Serving, InCache,
              Written, Stored, Found
<1> QED BY <1>1, <1>2, <1>3, <1>4, <1>5, <1>6, <1>7, <1>8 DEF Next

LEMMA SpecKInv == ASSUME NothingLost PROVE Spec => [](IInv /\ KInv)
<1>1. IInv /\ KInv /\ [Next]_vars => IInv' /\ KInv'
  BY NextIInv, NextKInv
<1> QED BY <1>1, InitIInv, InitKInv, PTL DEF Spec

(* A path whose last request succeeded is seen the same in the cache and on *)
(* the drive, at every step of any later operation.                         *)
THEOREM CacheIsTheDrive == ASSUME NothingLost PROVE Spec => []CacheAgrees
  BY SpecKInv, Agreement, PTL

-----------------------------------------------------------------------------
(* The steps of the abstract store.  No write reaches a file whose last     *)
(* request succeeded ...                                                    *)
LEMMA DataElsewhere ==
  ASSUME NothingLost, IInv, KInv, StoreData, NEW q \in Paths \ unsure
  PROVE  View(disk_table, disk_data', q) = View(disk_table, disk_data, q)
<1> DEFINE block == file_table[idx].start_block + offset
<1>1. /\ disk_data' = [disk_data EXCEPT ![block] = request.value[offset + 1]]
      /\ phase = "data" /\ mounted
      /\ offset \in Nat /\ offset < Len(request.value)
  BY StoreDataStep
<1>2. /\ file_table[idx].filename = request.path
      /\ file_table[idx].start_block \in Nat
      /\ offset < file_table[idx].block_count
  BY <1>1, OwnBlock
<1>3. request.path \in unsure /\ idx \in Slots /\ request.path # NoName
  BY <1>1, ChaosFSAssumption DEF KInv, Serving, IInv, TypeOK
<1>4. disk_table \in [Slots -> Entry] /\ file_table \in [Slots -> Entry]
  BY DEF IInv, TypeOK
<1>5. ASSUME NEW i \in Found(disk_table, q), ~disk_table[i].dir,
             NEW k \in 1 .. disk_table[i].size
      PROVE  disk_data[disk_table[i].start_block + k - 1] =
               disk_data'[disk_table[i].start_block + k - 1]
  <2>1. /\ i \in Slots /\ disk_table[i].filename = q /\ Active(disk_table[i])
        /\ file_table[i] = disk_table[i]
    BY <1>1, SameEntries DEF Found, KInv
  <2>2. i # idx
    BY <1>2, <1>3, <2>1
  <2>3. Apart(file_table[idx], disk_table[i])
    BY <1>3, <2>1, <2>2 DEF IInv, Separate
  <2>4. Active(file_table[idx])
    BY <1>2, <1>3 DEF Active
  <2>5. /\ disk_table[i].start_block \in Nat /\ disk_table[i].size \in Nat
        /\ disk_table[i].block_count \in Nat
        /\ file_table[idx].block_count \in Nat
    BY <1>3, <1>4, <2>1 DEF Entry
  <2>6. disk_table[i].size <= disk_table[i].block_count
    BY <1>5, <2>1 DEF KInv, Shaped
  <2>7. \/ block < disk_table[i].start_block
        \/ disk_table[i].start_block + disk_table[i].block_count <= block
    <3>1. \/ file_table[idx].start_block + file_table[idx].block_count
               <= disk_table[i].start_block
          \/ disk_table[i].start_block + disk_table[i].block_count
               <= file_table[idx].start_block
      BY <2>1, <2>3, <2>4 DEF Apart
    <3> DEFINE s == disk_table[i].start_block
               e == s + disk_table[i].block_count
               m == file_table[idx].start_block
               c == file_table[idx].block_count
    <3>2. /\ s \in Nat /\ e \in Nat /\ m \in Nat /\ c \in Nat
          /\ offset \in Nat /\ offset < c
      BY <1>1, <1>2, <2>5
    <3>3. m + c <= s \/ e <= m
      BY <3>1
    <3> HIDE DEF s, e, m, c
    <3>4. m + offset < s \/ e <= m + offset
      BY ONLY <3>2, <3>3
    <3> QED BY <3>4 DEF s, e, m
  <2>8. disk_table[i].start_block + k - 1 # block
    <3> DEFINE s == disk_table[i].start_block
               n == disk_table[i].size
               c == disk_table[i].block_count
    <3>1. /\ s \in Nat /\ n \in Nat /\ c \in Nat /\ k \in 1 .. n /\ n <= c
          /\ block \in Nat
      BY <1>1, <1>2, <2>5, <2>6
    <3>2. block < s \/ s + c <= block
      BY <2>7
    <3> HIDE DEF s, n, c, block
    <3>3. s + k - 1 # block
      BY ONLY <3>1, <3>2
    <3> QED BY <3>3 DEF s
  <2> QED BY <1>1, <2>8
<1>6. \A i \in Found(disk_table, q) :
        /\ disk_table[i] = disk_table[i]
        /\ ~disk_table[i].dir => \A k \in 1 .. disk_table[i].size :
             disk_data'[disk_table[i].start_block + k - 1] =
               disk_data[disk_table[i].start_block + k - 1]
  BY <1>5
<1> QED BY <1>4, <1>6, ViewSame

LEMMA TableElsewhere ==
  ASSUME NothingLost, IInv, IInv', KInv, StoreTable, NEW q \in Paths \ unsure
  PROVE  View(disk_table', disk_data', q) = View(disk_table, disk_data, q)
<1>1. /\ mounted
      /\ disk_table' = [i \in Slots |-> IF SectorOf(i) = offset
                          THEN file_table[i] ELSE disk_table[i]]
      /\ disk_data' = disk_data
  BY StoreTableStep
<1>2. disk_table \in [Slots -> Entry] /\ disk_table' \in [Slots -> Entry]
  BY DEF IInv, TypeOK
<1>3. /\ Found(file_table, q) = Found(disk_table, q)
      /\ \A i \in Found(disk_table, q) : file_table[i] = disk_table[i]
  BY <1>1, SameEntries DEF KInv
<1>4. Found(disk_table', q) = Found(disk_table, q)
  BY <1>1, <1>3 DEF Found
<1>5. \A i \in Found(disk_table', q) : disk_table'[i] = disk_table[i]
  BY <1>1, <1>3, <1>4 DEF Found
<1>6. \A i \in Found(disk_table', q) :
        /\ disk_table'[i] = disk_table[i]
        /\ ~disk_table'[i].dir => \A k \in 1 .. disk_table'[i].size :
             disk_data'[disk_table'[i].start_block + k - 1] =
               disk_data[disk_table'[i].start_block + k - 1]
  BY <1>1, <1>5
<1> QED BY <1>2, <1>4, <1>6, ViewSame

(* ... and the last one leaves what was asked for.                          *)
LEMMA AsRequested ==
  ASSUME NothingLost, IInv, KInv, StoreTable, offset + 1 = TableSectors,
         ~(request.value = Absent /\ request.path \in torn)
  PROVE  View(disk_table', disk_data', request.path) = request.value
<1> DEFINE p == request.path
           v == request.value
           e == file_table[idx]
<1>1. disk_table' = file_table /\ disk_data' = disk_data /\ phase = "table"
  BY LastSector, StoreTableStep
<1>2. Serving /\ InCache
  BY <1>1 DEF KInv, Serving
<1>3. CASE v = Absent
  BY <1>1, <1>2, <1>3 DEF InCache, View
<1>4. CASE v # Absent
  <2>1. idx \in Slots /\ IsFirst(idx, Found(file_table, p))
    BY <1>2, <1>4 DEF InCache, IInv, TypeOK
  <2>2. View(file_table, disk_data, p) =
          IF e.dir THEN Directory
          ELSE [k \in 1 .. e.size |-> disk_data[e.start_block + k - 1]]
    <3> HIDE DEF p
    <3> QED BY <2>1, ViewOfFirst
  <2>3. Describes(e, v) /\ Stored(e, v, Len(v))
    BY <1>1, <1>2, <1>4 DEF InCache, Written
  <2>4. CASE v = Directory
    BY <1>1, <2>2, <2>3, <2>4 DEF Describes
  <2>5. CASE v # Directory
    <3>1. v \in Data /\ v = [k \in 1 .. Len(v) |-> v[k]]
      BY <1>2, <1>4, <2>5, ChaosFSAssumption DEF Serving
    <3>2. [k \in 1 .. e.size |-> disk_data[e.start_block + k - 1]]
            = [k \in 1 .. Len(v) |-> v[k]]
      BY <2>3, <2>5 DEF Describes, Stored
    <3> QED BY <1>1, <2>2, <2>3, <2>5, <3>1, <3>2 DEF Describes
  <2> QED BY <2>4, <2>5
<1> QED BY <1>3, <1>4

LEMMA InitStore == Init => Store!Init
<1> SUFFICES ASSUME Init PROVE Store!Init
  OBVIOUS
<1>1. \A p \in Paths : Found(disk_table, p) = {}
  BY FreeIsEntry DEF Init, Found
<1>2. \A p \in Paths : View(disk_table, disk_data, p) = Absent
  BY <1>1 DEF View
<1> QED BY <1>2 DEF Init, Store!Init

(* A call that gets past its checks is a request.                           *)
LEMMA AskStore ==
  ASSUME KInv, NEW p \in Paths, NEW v \in Data \cup {Absent, Directory},
         NEW i, NEW first, Begin(p, v, i, first)
  PROVE  Store!Next
<1>1. /\ request = NoRequest
      /\ request' = [path |-> p, value |-> v]
      /\ unsure' = unsure \cup {p} /\ torn' = torn
      /\ disk_table' = disk_table /\ disk_data' = disk_data
  BY DEF Begin, disk, KInv
<1>2. Store!Ask(p, v)
  BY <1>1 DEF Store!Ask
<1> QED BY <1>2 DEF Store!Next

LEMMA WorkStore ==
  ASSUME IInv, KInv, phase # "idle",
         \A q \in Paths \ unsure :
           View(disk_table', disk_data', q) = View(disk_table, disk_data, q),
         UNCHANGED << request, unsure, torn >>
  PROVE  Store!Next
<1>1. request # NoRequest
  BY ChaosFSAssumption DEF KInv, Serving
<1>2. Store!Work
  BY <1>1 DEF Store!Work, Store!OnlyUnsureChange
<1> QED BY <1>2 DEF Store!Next

LEMMA StoreDataStore ==
  ASSUME NothingLost, IInv, KInv, StoreData
  PROVE  Store!Next
<1>1. phase # "idle"
  BY DEF StoreData
<1>2. UNCHANGED << request, unsure, torn >>
  BY StoreDataStep, GoOnStays
<1>3. \A q \in Paths \ unsure :
        View(disk_table', disk_data', q) = View(disk_table, disk_data, q)
  BY DataElsewhere, StoreDataStep
<1> QED BY <1>1, <1>2, <1>3, WorkStore

LEMMA StoreTableStore ==
  ASSUME NothingLost, IInv, IInv', KInv, StoreTable
  PROVE  Store!Next
<1>1. phase # "idle" /\ torn' = torn
  BY StoreTableStep
<1>2. \A q \in Paths \ unsure :
        View(disk_table', disk_data', q) = View(disk_table, disk_data, q)
  BY TableElsewhere
<1>3. CASE offset + 1 # TableSectors /\ UNCHANGED << phase, idx, request, unsure >>
  BY <1>1, <1>2, <1>3, WorkStore
<1>4. CASE offset + 1 = TableSectors /\ GoOn("table")
  <2>1. request # NoRequest /\ request.path \in Paths
    BY <1>1, ChaosFSAssumption DEF KInv, Serving
  <2>2. /\ request' = NoRequest
        /\ unsure' = IF request.value = Absent /\ request.path \in torn
                       THEN unsure ELSE unsure \ {request.path}
    BY <1>4 DEF GoOn, After
  <2>3. ~(request.value = Absent /\ request.path \in torn)
          => View(disk_table', disk_data', request.path) = request.value
    BY <1>4, AsRequested
  <2>4. Store!Reply
    BY <1>1, <1>2, <2>1, <2>2, <2>3 DEF Store!Reply, Store!OnlyUnsureChange
  <2> QED BY <2>4 DEF Store!Next
<1> QED BY <1>3, <1>4, StoreTableStep

LEMMA NextStore ==
  NothingLost => (IInv /\ IInv' /\ KInv /\ [Next]_vars => [Store!Next]_(Store!vars))
<1> SUFFICES ASSUME NothingLost, IInv, IInv', KInv, [Next]_vars
             PROVE  Store!Next \/ UNCHANGED Store!vars
  OBVIOUS
<1>1. CASE Mount
  BY <1>1 DEF Mount, disk, Store!vars
<1>2. ASSUME NEW p \in Paths, NEW d \in Data, Overwrite(p, d)
      PROVE  Store!Next
  BY <1>2, AskStore DEF Overwrite
<1>3. ASSUME NEW p \in Paths, NEW d \in Data, NEW table, CreateIn(table, p, d)
      PROVE  Store!Next
  BY <1>3, AskStore DEF CreateIn
<1>4. ASSUME NEW p \in Paths, NEW d \in Data, Create(p, d) \/ Replace(p, d)
      PROVE  Store!Next
  BY <1>3, <1>4 DEF Create, Replace
<1>5. ASSUME NEW p \in Paths, Delete(p) \/ Mkdir(p) PROVE Store!Next
  BY <1>5, AskStore DEF Delete, Mkdir
<1>6. CASE StoreData
  BY <1>6, StoreDataStore
<1>7. CASE StoreSuper
  BY <1>7, GoOnStays DEF StoreSuper, Store!vars
<1>8. CASE StoreTable
  BY <1>8, StoreTableStore
<1>9. CASE DriveError
  <2>1. request # NoRequest
    BY <1>9, ChaosFSAssumption DEF DriveError, KInv, Serving
  <2>2. Store!Fail
    BY <1>9, <2>1 DEF DriveError, disk, Store!Fail
  <2> QED BY <2>2 DEF Store!Next
<1>10. CASE Crash
  <2>1. Store!PowerLoss
    BY <1>10 DEF Crash, disk, Store!PowerLoss
  <2> QED BY <2>1 DEF Store!Next
<1>11. CASE UNCHANGED vars
  BY <1>11 DEF vars, disk, Store!vars
<1> QED BY <1>1, <1>2, <1>4, <1>5, <1>6, <1>7, <1>8, <1>9, <1>10, <1>11 DEF Next

(* The file system implements the abstract store: whatever errors and power *)
(* losses come in between, a reply of success means that the file is on the *)
(* drive as requested, and only a request for a file changes it.            *)
THEOREM FilesAreKept == ASSUME NothingLost PROVE Spec => KeepsFiles
<1>1. Init => Store!Init
  BY InitStore
<1>2. IInv /\ IInv' /\ KInv /\ [Next]_vars => [Store!Next]_(Store!vars)
  BY NextStore
<1> QED BY <1>1, <1>2, SpecKInv, PTL DEF Spec, KeepsFiles, Store!Spec
=============================================================================
