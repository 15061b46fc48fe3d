----------------------------- MODULE SectorMap -----------------------------
(***************************************************************************)
(* How stage 2 is found: tools/sector_mapper writes a map of the sectors   *)
(* it occupies, and the first stage (stage1/) reads the map and the        *)
(* sectors.  tools/lboot_prepare.sh runs the mapper twice, and between the *)
(* two the map is copied to the medium like any file.                      *)
(*                                                                         *)
(* The medium has one sector to a cluster, as the mapper demands.  A       *)
(* sector's contents are its number; files are the chains of clusters that *)
(* the tools which copy them chose.  A chunk of the map is the sequence of *)
(* its entries that are not zero, and the sector of the next chunk.        *)
(***************************************************************************)
EXTENDS Integers, Sequences, FiniteSets

CONSTANTS
  Entries,             \* SECTOR_MAP_ENTRIES, 127
  Reserved, Fats, FatSectors, RootSectors, \* the layout of the medium
  MaxCluster,          \* clusters are 2 .. MaxCluster
  MaxSize,             \* clusters a stage 2 may have
  SectorsPerTrack, HeadCount,
  Room,                \* sectors from stage2_addr to the end of its segment
  Half,                \* a register holds -Half .. Half - 1, 2^15 in the code
  DxHigh,              \* may DX, the boot drive and what the BIOS left, look high?
  OldMaps              \* chunks of the map file that a build before has left

ASSUME MapAssumption ==
  /\ {Entries, SectorsPerTrack, HeadCount, Fats, FatSectors, Room} \subseteq Nat \ {0}
  /\ {Reserved, RootSectors, MaxCluster, MaxSize} \subseteq Nat
  /\ DxHigh \subseteq BOOLEAN
  /\ OldMaps \subseteq Nat /\ Half > 3

VARIABLES
  links,   \* the FAT's entries
  first,   \* first cluster of stage 2
  size,    \* its size in clusters, by its directory entry
  mapFile, \* the map file on the host
  chunks,  \* the map on the medium: sector -> chunk
  bootMap, \* stage2_map_sector in the boot sector
  pc,      \* which tool, or where in the first stage
  map,     \* the chunk that was read to map_temp_addr
  si,      \* entry being handled, counted from 0
  ax, cx,  \* sector to read and how many are left
  tries,   \* SI inside read_sector
  dxHigh,  \* DX >= map_next_addr
  loaded   \* what has been put at stage2_addr, in order

medium == <<links, first, size, chunks, bootMap>>
regs == <<map, si, ax, cx, tries, dxHigh, loaded>>
vars == <<medium, mapFile, pc, regs>>

Clusters == 2 .. MaxCluster

------------------------------------------------------------------------------
(* fat_open: where the data begin; clusters are named by their sectors.    *)
DataStart == Reserved + Fats * FatSectors + RootSectors

SectorOf(c) == DataStart + c - 2
ClusterOf(s) == s - DataStart + 2
Sectors == {SectorOf(c) : c \in Clusters}

(* Two entries of twelve bits in three bytes. *)
Byte(k) ==
  LET e == links[2 * (k \div 3)]
      o == links[2 * (k \div 3) + 1]
  IN  CASE k % 3 = 0 -> e % 256
        [] k % 3 = 1 -> e \div 256 + 16 * (o % 16)
        [] k % 3 = 2 -> o \div 16

_get_fat_entry(c) ==
  LET k == (c * 3) \div 2
      w == Byte(k) + 256 * Byte(k + 1)
  IN  (IF c % 2 = 1 THEN w \div 16 ELSE w) % 4096

(* The sector after s in its file, 0 at the end. *)
_get_next_cluster(s) ==
  LET e == _get_fat_entry(ClusterOf(s))
  IN  IF e >= 2 /\ e < 4080 THEN SectorOf(e) ELSE 0

(* The first n sectors of the file that begins at s; 0 where the chain has *)
(* ended too early.                                                        *)
fat_get_file_clusters(s, n) ==
  LET At[i \in 1 .. n] ==
        IF i = 1 THEN s ELSE IF At[i - 1] = 0 THEN 0 ELSE _get_next_cluster(At[i - 1])
  IN  At

Complete(cl) == \A i \in DOMAIN cl : cl[i] # 0

------------------------------------------------------------------------------
(* The loop of _round1: a sector that follows the one before lengthens the *)
(* last entry, another begins an entry, in a new chunk if this one is full.*)
Entry(s) == [sector |-> s, count |-> 1]
Lengthened(ch) == [ch EXCEPT ![Len(ch)].count = @ + 1]

ChunkedLate(cl) == \* mutant: c_map > SECTOR_MAP_ENTRIES
  LET At[i \in 1 .. Len(cl)] ==
        IF i = 1 THEN << <<Entry(cl[1])>> >>
        ELSE LET m == At[i - 1]
                 l == Len(m)
             IN  IF cl[i] = cl[i - 1] + 1 THEN [m EXCEPT ![l] = Lengthened(@)]
                 ELSE IF Len(m[l]) > Entries THEN Append(m, <<Entry(cl[i])>>)
                 ELSE [m EXCEPT ![l] = Append(@, Entry(cl[i]))]
  IN  At[Len(cl)]

Chunked(cl) ==
  LET At[i \in 1 .. Len(cl)] ==
        IF i = 1 THEN << <<Entry(cl[1])>> >>
        ELSE LET m == At[i - 1]
                 l == Len(m)
             IN  IF cl[i] = cl[i - 1] + 1 THEN [m EXCEPT ![l] = Lengthened(@)]
                 ELSE IF Len(m[l]) = Entries THEN Append(m, <<Entry(cl[i])>>)
                 ELSE [m EXCEPT ![l] = Append(@, Entry(cl[i]))]
  IN  At[Len(cl)]

(* As many chunks are written as were allocated, and cleared: their number *)
(* is counted from the entries before any is filled.                       *)
n_map_entries(cl) == 1 + Cardinality({i \in 2 .. Len(cl) : cl[i] # cl[i - 1] + 1})

n_chunks(cl) ==
  LET n == n_map_entries(cl)
  IN  n \div Entries + (IF n % Entries # 0 THEN 1 ELSE 0)

Written(cl) ==
  [i \in 1 .. n_chunks(cl) |-> IF i <= Len(Chunked(cl)) THEN Chunked(cl)[i] ELSE <<>>]

(* The map file is opened without being truncated. *)
Overwritten(old, new) ==
  [i \in 1 .. IF Len(old) > Len(new) THEN Len(old) ELSE Len(new) |->
     IF i <= Len(new) THEN new[i] ELSE old[i]]

------------------------------------------------------------------------------
(* A file on the medium: its clusters in order, linked and ended.          *)
Chains(n, free) == {c \in [1 .. n -> free] : \A i, j \in 1 .. n : c[i] = c[j] => i = j}

Linked(l, c) ==
  [k \in DOMAIN l |->
     IF \E i \in DOMAIN c : c[i] = k
     THEN LET i == CHOOSE j \in DOMAIN c : c[j] = k
          IN  IF i = Len(c) THEN 4095 ELSE c[i + 1]
     ELSE l[k]]

Free(l) == {k \in Clusters : l[k] = 0}

(* Old chunks hold entries of a stage 2 that has since been overwritten.   *)
OldChunk == [i \in 1 .. Entries |-> Entry(1)]

(* Stage 2 has been copied; its directory entry may claim more clusters    *)
(* than its chain has, on a damaged medium.                                *)
Init ==
  /\ \E n \in 1 .. MaxSize : \E c \in Chains(n, Clusters) :
       /\ links = Linked([k \in 0 .. MaxCluster + 3 |-> 0], c)
       /\ first = c[1] /\ size \in {n, n + 1}
  /\ \E k \in OldMaps : mapFile = [i \in 1 .. k |-> OldChunk]
  /\ chunks = [s \in {} |-> 0] /\ bootMap = 0
  /\ pc = "round1"
  /\ map = [entries |-> <<>>, next |-> 0]
  /\ si = 0 /\ ax = 0 /\ cx = 0 /\ tries = 3 /\ loaded = <<>>
  /\ dxHigh \in DxHigh

(* _round1: the map of stage 2, or an error, which ends the preparation.   *)
Stage2 == fat_get_file_clusters(SectorOf(first), size)

_round1 ==
  /\ pc = "round1"
  /\ IF Complete(Stage2)
       THEN pc' = "copy" /\ mapFile' = Overwritten(mapFile, Written(Stage2))
       ELSE pc' = "failed" /\ UNCHANGED mapFile
  /\ UNCHANGED <<medium, regs>>

(* The map file goes to the medium, a chunk to a sector. *)
CopyMap ==
  /\ pc = "copy" /\ pc' = "round2"
  /\ \E c \in Chains(Len(mapFile), Free(links)) :
       /\ links' = Linked(links, c)
       /\ chunks' = [s \in {SectorOf(c[i]) : i \in DOMAIN c} |->
            [entries |-> mapFile[CHOOSE i \in DOMAIN c : SectorOf(c[i]) = s], next |-> 0]]
       /\ bootMap' = SectorOf(c[1])
  /\ UNCHANGED <<first, size, mapFile, regs>>

(* _round2: each chunk is told where the next is, and the boot sector      *)
(* where the first.  (CopyMap left that in bootMap, the name under which   *)
(* round 2 finds the file.)                                                *)
MapClusters == fat_get_file_clusters(bootMap, Len(mapFile))

_round2 ==
  /\ pc = "round2" /\ pc' = "read_map"
  /\ LET cl == MapClusters
     IN  /\ Complete(cl)
         /\ bootMap' = cl[1]
         /\ chunks' = [s \in DOMAIN chunks |->
              [chunks[s] EXCEPT !.next =
                 IF \E i \in 2 .. Len(cl) : cl[i - 1] = s
                 THEN cl[CHOOSE i \in 2 .. Len(cl) : cl[i - 1] = s] ELSE 0]]
  /\ UNCHANGED <<links, first, size, mapFile, regs>>

------------------------------------------------------------------------------
(* The first stage.  read_sector: cylinder, head and sector of a block,    *)
(* which the BIOS turns back into its place on the disk.                   *)
ChsHead(b) == \* mutant: the head is taken from the block
  [c |-> (b \div SectorsPerTrack) \div HeadCount,
   h |-> b % HeadCount,
   s |-> (b % SectorsPerTrack) + 1]

Chs(b) ==
  [c |-> (b \div SectorsPerTrack) \div HeadCount,
   h |-> (b \div SectorsPerTrack) % HeadCount,
   s |-> (b % SectorsPerTrack) + 1]

Linear(x) == (x.c * HeadCount + x.h) * SectorsPerTrack + x.s - 1

(* The counter of attempts starts at 3 and is taken down before each; only *)
(* going below -Half is an overflow, and ends them.                        *)
Failed ==
  IF tries - 1 = -Half THEN pc' = "disk_error" /\ UNCHANGED tries
  ELSE tries' = tries - 1 /\ UNCHANGED pc

(* read_sector_map: the first chunk, or one to which the last points.  A   *)
(* sector that is none may hold anything, and nothing is said of the rest. *)
ReadMap ==
  /\ pc = "read_map"
  /\ \/ Failed /\ UNCHANGED <<map, si>>
     \/ /\ tries' = 3 /\ si' = 0
        /\ LET s == Linear(Chs(bootMap))
           IN  IF s \in DOMAIN chunks THEN pc' = "entry" /\ map' = chunks[s]
               ELSE pc' = "wrecked" /\ UNCHANGED map
  /\ UNCHANGED <<medium, mapFile, ax, cx, dxHigh, loaded>>

(* What the words at an entry's place hold: past the entries lies the      *)
(* pointer to the next chunk, with a word of zero after it.                *)
At(k) ==
  IF k = Entries THEN [sector |-> map.next, count |-> 0]
  ELSE IF k < Len(map.entries) THEN map.entries[k + 1]
  ELSE [sector |-> 0, count |-> 0]

(* .handle_map_entry: a sector of 0 ends the map. *)
HandleMapEntry ==
  /\ pc = "entry"
  /\ IF At(si).sector = 0 THEN pc' = "jump" /\ UNCHANGED <<ax, cx>>
     ELSE pc' = "read" /\ ax' = At(si).sector /\ cx' = At(si).count
  /\ UNCHANGED <<medium, mapFile, map, si, tries, dxHigh, loaded>>

(* .do_map_read, with the test at its end for the last of the chunk, which *)
(* compares DX and not SI.  CX counts down modulo 2^16, so that a count of *)
(* 0 is 2^16, and BX runs past the end of the segment into the interrupt   *)
(* table long before.                                                      *)
EndOfChunk == dxHigh

NotLast == cx = 0 \/ cx > 1

DoMapRead ==
  /\ pc = "read"
  /\ \/ Failed /\ UNCHANGED <<si, ax, cx, loaded>>
     \/ IF Len(loaded) = Room
        THEN pc' = "wrecked" /\ UNCHANGED <<si, ax, cx, tries, loaded>>
        ELSE /\ tries' = 3
             /\ loaded' = Append(loaded, Linear(Chs(ax)))
             /\ ax' = ax + 1 /\ cx' = (cx - 1) % (2 * Half)
             /\ IF NotLast THEN UNCHANGED <<pc, si>>
                ELSE si' = si + 1 /\ pc' = IF EndOfChunk THEN "map_end" ELSE "entry"
  /\ UNCHANGED <<medium, mapFile, map, dxHigh>>

(* .map_end: the word at SI is the sector of the next chunk. *)
MapEnd ==
  /\ pc = "map_end"
  /\ IF At(si).sector = 0 THEN pc' = "jump" /\ UNCHANGED bootMap
     ELSE pc' = "read_map" /\ bootMap' = At(si).sector
  /\ UNCHANGED <<links, first, size, chunks, mapFile, regs>>

Next ==
  \/ _round1 \/ CopyMap \/ _round2
  \/ ReadMap \/ HandleMapEntry \/ DoMapRead \/ MapEnd

Spec == Init /\ [][Next]_vars

------------------------------------------------------------------------------
(* The sectors a map lists when its chunks are followed from s: a chunk    *)
(* that is not full ends it.                                               *)
Flat(entries) ==
  LET To[i \in 0 .. Len(entries)] ==
        IF i = 0 THEN <<>>
        ELSE To[i - 1] \o [j \in 1 .. entries[i].count |-> entries[i].sector + j - 1]
  IN  To[Len(entries)]

Listed(s) ==
  LET To[n \in 0 .. Cardinality(DOMAIN chunks), t \in DOMAIN chunks \cup {0}] ==
        IF n = 0 \/ t = 0 THEN <<>>
        ELSE Flat(chunks[t].entries)
               \o IF Len(chunks[t].entries) = Entries THEN To[n - 1, chunks[t].next] ELSE <<>>
  IN  To[Cardinality(DOMAIN chunks), s]

Single == Len(mapFile) = 1

(* sector_mapper main.c:104-221: when both rounds have succeeded, the map  *)
(* followed from the boot sector lists the sectors of stage 2, all and in  *)
(* order, whatever its fragments and wherever the map itself came to lie,  *)
(* unless chunks of an older map follow one that is full.                  *)
MapDescribes ==
  pc = "read_map" /\ loaded = <<>> =>
    LET new == Len(Chunked(Stage2))
    IN  Len(mapFile) = new \/ Len(Chunked(Stage2)[new]) < Entries
          => Listed(bootMap) = Stage2

(* read_sector_map.inc:5-46, stage1.S:68-76: when the first stage jumps,   *)
(* what lies at stage2_addr is stage 2, however often reads had to be      *)
(* repeated, if its map is one chunk and DX does not look high, or one     *)
(* entry, after which nothing is left to be missed.                        *)
LoadsStage2 ==
  pc = "jump" /\ Single /\ (dxHigh => Len(mapFile[1]) = 1) => loaded = Stage2
=============================================================================
