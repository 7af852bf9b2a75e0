------------------------------ MODULE ChaosFS ------------------------------
(***************************************************************************)
(* The file system of fs/chaosfs.c on the drive of drivers/ata.c.  The      *)
(* superblock and the file table are cached in RAM; an operation changes    *)
(* the cache, writes a file's data and then all of the metadata, sector by  *)
(* sector.  Between any two of these writes the drive may report an error   *)
(* or the power may go.                                                     *)
(*                                                                          *)
(* A file's data is a sequence of chunks, one to a block of 4096 bytes; its *)
(* size is its number of chunks.  next_free_block is bounded by MAX_BLOCKS, *)
(* the 32-bit wrap being out of reach of a drive.  superblock.file_count is *)
(* left out: nothing reads it.                                              *)
(*                                                                          *)
(* OneBlockShort, FitsRoughly, TableFirst and WholeSectors are wrong        *)
(* variants of the definition behind them; no action uses them.  They are   *)
(* there to see that the properties notice.                                 *)
(***************************************************************************)
EXTENDS Integers, Sequences, FiniteSets

CONSTANTS
  Paths,              \* the names used for files
  NoName,             \* the empty filename of an unused entry
  Data,               \* what callers write: sequences of chunks
  Blank,              \* the content of a block never written
  Absent, Directory,  \* what a path is that does not name data
  NoRequest,          \* the abstract store has nothing to answer
  MAX_FILES,          \* entries of the file table
  ENTRIES_PER_SECTOR, \* ... and how many of them share a sector
  TotalBlocks,        \* the drive ends here: superblock.total_blocks
  MAX_BLOCKS,         \* bound on next_free_block
  Faults              \* of "error", "crash", "lost"

Slots == 0 .. MAX_FILES - 1
Blocks == 0 .. MAX_BLOCKS - 1

ASSUME ChaosFSAssumption ==
  /\ NoName \notin Paths
  /\ Absent # Directory /\ {Absent, Directory} \cap Data = {}
  /\ \A d \in Data : Len(d) \in Nat /\ d = [k \in 1 .. Len(d) |-> d[k]]
  /\ NoRequest \notin [path : Paths, value : Data \cup {Absent, Directory}]
  /\ MAX_FILES \in Nat \ {0}
  /\ ENTRIES_PER_SECTOR \in Nat \ {0}
  /\ MAX_BLOCKS \in Nat
  /\ TotalBlocks \in Nat
  /\ TotalBlocks <= MAX_BLOCKS
  /\ Faults \subseteq {"error", "crash", "lost"}

VARIABLES
  mounted,         \* the static of that name
  next_free_block, \* of the cached superblock
  file_table,      \* the cached file table
  disk_next_free,  \* next_free_block in the superblock on the drive
  disk_table,      \* the file table on the drive
  disk_data,       \* the data region on the drive
  phase,           \* what the operation in progress writes next, or "idle"
  offset,          \* how much of it has been written
  idx,             \* the entry it works on
  request,         \* what it was called for, or NoRequest
  unsure,          \* history: paths whose last request has not succeeded
  torn             \* history: paths that were unsure when the power went

ram == << mounted, next_free_block, file_table >>
disk == << disk_next_free, disk_table, disk_data >>
vars == << ram, disk, phase, offset, idx, request, unsure, torn >>

Phases == {"idle", "data", "super", "table"}

(* An entry marked CHAOSFS_FLAG_DELETED is never read again: it is the same *)
(* as one that was never used.                                              *)
FreeEntry == [filename |-> NoName, size |-> 0, start_block |-> 0,
              block_count |-> 0, dir |-> FALSE]

-----------------------------------------------------------------------------
Active(e) == e.filename # NoName

Found(table, p) == {i \in Slots : Active(table[i]) /\ table[i].filename = p}
FreeSlots(table) == {i \in Slots : ~Active(table[i])}
IsFirst(i, S) == i \in S /\ \A j \in S : i <= j

OneBlockShort(d) == Len(d) - 1
NeededBlocks(d) == IF Len(d) = 0 THEN 1 ELSE Len(d)
FitsRoughly(d, e) == Len(d) <= e.block_count + 1
Fits(d, e) == NeededBlocks(d) <= e.block_count

MarkDeleted(table, i) == [table EXCEPT ![i] = FreeEntry]

(* What chaosfs_stat and chaosfs_read find for p.                           *)
View(table, data, p) ==
  IF Found(table, p) = {} THEN Absent
  ELSE LET e == table[CHOOSE i \in Slots : IsFirst(i, Found(table, p))]
       IN  IF e.dir THEN Directory
           ELSE [k \in 1 .. e.size |-> data[e.start_block + k - 1]]

(* A write that is lost goes unnoticed: ata_write_sectors reads the status  *)
(* before each sector, never behind the last.                               *)
Kept == IF "lost" \in Faults THEN BOOLEAN ELSE {TRUE}

(* The order of the writes: the data, the superblock, the table.            *)
TableFirst(part) ==
  CASE part = "data" -> "table" [] part = "table" -> "super" [] OTHER -> "idle"
After(part) ==
  CASE part = "data" -> "super" [] part = "super" -> "table" [] OTHER -> "idle"

WholeSectors == (MAX_FILES - 1) \div ENTRIES_PER_SECTOR
TableSectors == (MAX_FILES + ENTRIES_PER_SECTOR - 1) \div ENTRIES_PER_SECTOR
SectorOf(i) == i \div ENTRIES_PER_SECTOR

-----------------------------------------------------------------------------
(* The image as tools/mkchaosfs.py formats it, before CLAOS boots.          *)
Init ==
  /\ mounted = FALSE
  /\ next_free_block = 0
  /\ file_table = [i \in Slots |-> FreeEntry]
  /\ disk_next_free = 0
  /\ disk_table = [i \in Slots |-> FreeEntry]
  /\ disk_data = [b \in Blocks |-> Blank]
  /\ phase = "idle"
  /\ offset = 0
  /\ idx = 0
  /\ request = NoRequest
  /\ unsure = {}
  /\ torn = {}

(* chaosfs_init.  When the drive fails here the machine runs without files. *)
Mount ==
  /\ ~mounted
  /\ mounted' = TRUE
  /\ next_free_block' = disk_next_free
  /\ file_table' = disk_table
  /\ UNCHANGED << disk, phase, offset, idx, request, unsure, torn >>

(* A call for p gets past its first checks and works on entry i.            *)
Begin(p, v, i, first) ==
  /\ mounted /\ phase = "idle"
  /\ phase' = first
  /\ offset' = 0
  /\ idx' = i
  /\ request' = [path |-> p, value |-> v]
  /\ unsure' = unsure \cup {p}
  /\ UNCHANGED << mounted, disk, torn >>

FirstPhase(d) == IF Len(d) = 0 THEN After("data") ELSE "data"

(* chaosfs_write of a file that exists, into the blocks it has.             *)
Overwrite(p, d) ==
  \E i \in Slots :
    /\ IsFirst(i, Found(file_table, p))
    /\ Fits(d, file_table[i])
    /\ file_table' = [file_table EXCEPT ![i].size = Len(d)]
    /\ Begin(p, d, i, FirstPhase(d))
    /\ UNCHANGED next_free_block

(* chaosfs_write of a new file, or of one that has outgrown its blocks: the *)
(* old entry is marked and may be the very one that is reused.  No check    *)
(* compares next_free_block with total_blocks.                              *)
NewEntry(p, d) ==
  [filename |-> p, size |-> Len(d), start_block |-> next_free_block,
   block_count |-> NeededBlocks(d), dir |-> FALSE]

CreateIn(table, p, d) ==
  \E i \in Slots :
    /\ IsFirst(i, FreeSlots(table))
    /\ next_free_block + NeededBlocks(d) <= MAX_BLOCKS
    /\ file_table' = [table EXCEPT ![i] = NewEntry(p, d)]
    /\ next_free_block' = next_free_block + NeededBlocks(d)
    /\ Begin(p, d, i, FirstPhase(d))

Create(p, d) == Found(file_table, p) = {} /\ CreateIn(file_table, p, d)

Replace(p, d) ==
  \E i \in Slots :
    /\ IsFirst(i, Found(file_table, p))
    /\ ~Fits(d, file_table[i])
    /\ CreateIn(MarkDeleted(file_table, i), p, d)

(* chaosfs_delete.                                                          *)
Delete(p) ==
  \E i \in Slots :
    /\ IsFirst(i, Found(file_table, p))
    /\ file_table' = MarkDeleted(file_table, i)
    /\ Begin(p, Absent, i, After("data"))
    /\ UNCHANGED next_free_block

(* chaosfs_mkdir.  It returns at once where the path exists already.        *)
Mkdir(p) ==
  /\ Found(file_table, p) = {}
  /\ \E i \in Slots :
       /\ IsFirst(i, FreeSlots(file_table))
       /\ file_table' = [file_table EXCEPT ![i] =
                           [FreeEntry EXCEPT !.filename = p, !.dir = TRUE]]
       /\ Begin(p, Directory, i, After("data"))
       /\ UNCHANGED next_free_block

(* The operation goes on with what is to be written after part; behind the  *)
(* last write it returns 0.  Nothing more is claimed of a path a power loss *)
(* has caught in two entries when it is deleted.                            *)
GoOn(part) ==
  /\ phase' = After(part)
  /\ offset' = 0
  /\ IF After(part) = "idle"
       THEN /\ idx' = 0
            /\ request' = NoRequest
            /\ unsure' = IF request.value = Absent /\ request.path \in torn
                           THEN unsure ELSE unsure \ {request.path}
       ELSE UNCHANGED << idx, request, unsure >>

(* One chunk of the data, to the block it belongs in.                       *)
StoreData ==
  /\ phase = "data"
  /\ LET block == file_table[idx].start_block + offset
     IN  /\ block < TotalBlocks
         /\ \E kept \in Kept :
              disk_data' = [disk_data EXCEPT ![block] =
                              IF kept THEN request.value[offset + 1] ELSE @]
  /\ IF offset + 1 = Len(request.value)
       THEN GoOn("data")
       ELSE /\ offset' = offset + 1
            /\ UNCHANGED << phase, idx, request, unsure >>
  /\ UNCHANGED << ram, disk_next_free, disk_table, torn >>

(* chaosfs_sync: the superblock ...                                         *)
StoreSuper ==
  /\ phase = "super"
  /\ \E kept \in Kept : disk_next_free' =
                           IF kept THEN next_free_block ELSE disk_next_free
  /\ GoOn("super")
  /\ UNCHANGED << ram, disk_table, disk_data, torn >>

(* ... and one sector of the table.  A lost sector goes unnoticed only when *)
(* it is the last of the call.                                              *)
StoreTable ==
  /\ phase = "table"
  /\ LET last == offset + 1 = TableSectors
     IN  /\ \E kept \in IF last THEN Kept ELSE {TRUE} :
              disk_table' = [i \in Slots |->
                IF kept /\ SectorOf(i) = offset THEN file_table[i]
                                                ELSE disk_table[i]]
         /\ IF last
              THEN GoOn("table")
              ELSE /\ offset' = offset + 1
                   /\ UNCHANGED << phase, idx, request, unsure >>
  /\ UNCHANGED << ram, disk_next_free, disk_data, torn >>

(* The drive reports an error, as it always does beyond its end: the        *)
(* operation returns -1 and leaves the cache as it is.                      *)
DriveError ==
  /\ phase # "idle"
  /\ \/ "error" \in Faults
     \/ phase = "data" /\ file_table[idx].start_block + offset >= TotalBlocks
  /\ phase' = "idle"
  /\ offset' = 0 /\ idx' = 0
  /\ request' = NoRequest
  /\ UNCHANGED << ram, disk, unsure, torn >>

(* The power goes.                                                          *)
Crash ==
  /\ "crash" \in Faults
  /\ mounted
  /\ mounted' = FALSE
  /\ next_free_block' = 0
  /\ file_table' = [i \in Slots |-> FreeEntry]
  /\ phase' = "idle"
  /\ offset' = 0 /\ idx' = 0
  /\ request' = NoRequest
  /\ torn' = torn \cup unsure
  /\ UNCHANGED << disk, unsure >>

Next ==
  \/ Mount
  \/ \E p \in Paths : \/ \E d \in Data : \/ Overwrite(p, d)
                                         \/ Create(p, d)
                                         \/ Replace(p, d)
                      \/ Delete(p)
                      \/ Mkdir(p)
  \/ StoreData
  \/ StoreSuper
  \/ StoreTable
  \/ DriveError
  \/ Crash

Spec == Init /\ [][Next]_vars

-----------------------------------------------------------------------------
Entry == [filename : Paths \cup {NoName}, size : Nat, start_block : Nat,
          block_count : Nat, dir : BOOLEAN]

TypeOK ==
  /\ mounted \in BOOLEAN
  /\ next_free_block \in 0 .. MAX_BLOCKS
  /\ file_table \in [Slots -> Entry]
  /\ disk_next_free \in 0 .. MAX_BLOCKS
  /\ disk_table \in [Slots -> Entry]
  /\ DOMAIN disk_data = Blocks
  /\ phase \in Phases
  /\ offset \in Nat
  /\ idx \in Slots
  /\ request \in [path : Paths, value : Data \cup {Absent, Directory}]
                   \cup {NoRequest}
  /\ unsure \subseteq Paths
  /\ torn \subseteq Paths

Extent(e) == IF Active(e)
               THEN e.start_block .. e.start_block + e.block_count - 1 ELSE {}

(* No two live files share a block, neither in the table the system works   *)
(* with nor in the one it would find if the power went now, between any two *)
(* of the sectors chaosfs_sync writes.                                      *)
ExtentsDisjoint ==
  \A i, j \in Slots :
    i # j => /\ Extent(file_table[i]) \cap Extent(file_table[j]) = {}
             /\ Extent(disk_table[i]) \cap Extent(disk_table[j]) = {}

(* Every block of a live file lies below the next_free_block stored with    *)
(* it: what is allocated after a restart is free.                           *)
NextIsFree ==
  \A i \in Slots :
    /\ \A b \in Extent(file_table[i]) : b < next_free_block
    /\ \A b \in Extent(disk_table[i]) : b < disk_next_free

(* For every path whose last request succeeded the cache and the drive say  *)
(* the same, whatever operations on other paths, errors and restarts came   *)
(* in between.                                                              *)
CacheAgrees ==
  mounted => \A p \in Paths \ unsure :
               View(file_table, disk_data, p) = View(disk_table, disk_data, p)

(* The file system keeps the promises of the abstract store: a success is   *)
(* on the drive, and only a request for a file changes it.                  *)
Store == INSTANCE FileStore WITH
  Values <- Data \cup {Absent, Directory},
  files <- [p \in Paths |-> View(disk_table, disk_data, p)],
  asked <- request

KeepsFiles == Store!Spec

Returns0 == StoreTable /\ phase' = "idle"

(* chaosfs.h, of chaosfs_delete: "Delete a file. Returns 0 on success, -1   *)
(* if not found."  What has been deleted is no longer found.                *)
DeletedIsGone ==
  [][Returns0 /\ request.value = Absent
       => Found(file_table', request.path) = {}]_vars
=============================================================================
