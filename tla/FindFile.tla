------------------------------ MODULE FindFile ------------------------------
(***************************************************************************)
(* Opening a file by its path: file_open (storage/file.c), fs_findfile     *)
(* (storage/fs/fs.c) and the FAT directory search under it                 *)
(* (storage/fs/fat.c), with the memory they allocate.                      *)
(*                                                                         *)
(* A name is a sequence of characters, a path the sequence of names        *)
(* between its separators, and the medium a tree of directory entries.     *)
(* What a handle's data points to is the file's first cluster, which the   *)
(* model names by the file itself.  Memory is a set of numbered objects,   *)
(* of which the lowest free one is handed out, so that what is freed too   *)
(* early is soon overwritten.                                              *)
(***************************************************************************)
EXTENDS Integers, FiniteSets, Sequences

CONSTANTS
  BaseLen, ExtLen, \* characters of a FAT name before and after its dot
  Medium,          \* directory -> its clusters, sequences of entries
  Root,            \* the root directory, a member of DOMAIN Medium
  Paths,           \* paths that may be asked for
  MaxMem           \* objects the heap has room for

ASSUME FindAssumption ==
  /\ BaseLen \in Nat /\ ExtLen \in Nat /\ MaxMem \in Nat
  /\ Root \in DOMAIN Medium
  /\ \A p \in Paths : p \in Seq({p[i] : i \in DOMAIN p}) /\ Len(p) > 0

VARIABLES
  mem,    \* what is allocated: object -> what it holds
  open,   \* handles given to callers and not closed
  pc,     \* "idle", "walk", "done" or "panic"
  asked,  \* the path of the call
  rest,   \* names from cpath on
  dir,    \* the directory being searched, &tdir1 unless it is the root
  copy,   \* _path
  file,   \* the caller's handle
  ret,    \* what the call returned
  before, \* objects that belonged to no handle when the call began
  failed  \* a read of the medium has failed during the call

walk == <<rest, dir, copy>>
thisCall == <<asked, before, failed>>
vars == <<mem, open, pc, walk, file, ret, thisCall>>

------------------------------------------------------------------------------
(* The memory, and handles into it: [file, data].  The root's is static.   *)
Objects == 1 .. MaxMem
Fresh(m) ==
  CHOOSE i \in Objects \ DOMAIN m : \A j \in Objects \ DOMAIN m : i <= j
Room(m, n) == Cardinality(DOMAIN m) + n <= MaxMem

PutAt(m, n, c) == [i \in DOMAIN m \cup {n} |-> IF i = n THEN c ELSE m[i]]
Put(m, c) == PutAt(m, Fresh(m), c)
Without(m, i) == [j \in DOMAIN m \ {i} |-> m[j]]

RootHandle == [file |-> Root, data |-> 0]
NoHandle   == [file |-> "none", data |-> 0]

(* What a handle's data says it is. *)
Holds(m, h) ==
  IF h = RootHandle THEN Root
  ELSE IF h.data \in DOMAIN m THEN m[h.data] ELSE "gone"

Unowned(m, hs) == DOMAIN m \ {h.data : h \in hs}

------------------------------------------------------------------------------
(* An entry as it is on disk: a padded name, then its attribute byte.      *)
Padded(s, n) == [i \in 1 .. n |-> IF i <= Len(s) THEN s[i] ELSE " "]
OnDisk(e) == Padded(e.base, BaseLen) \o Padded(e.ext, ExtLen) \o <<e.attr>>

CharAt(f, i) == IF i <= Len(f) THEN f[i] ELSE "nul"

(* A dot stands for all the blanks that follow. *)
SkipOne(f, i) == \* mutant: one blank before the dot, not all
  IF CharAt(f, i) = " " THEN i + 1 ELSE i

SkipBlanks(f, i) ==
  CHOOSE k \in i .. Len(f) + 1 :
    CharAt(f, k) # " " /\ \A l \in i .. k - 1 : CharAt(f, l) = " "

(* _fat_strcmp: where in the FAT name the comparison stands after j        *)
(* characters of the wanted one, 0 once it has failed.                     *)
Compared(f, name) ==
  LET At[j \in 0 .. Len(name)] ==
        IF j = 0 THEN 1
        ELSE IF At[j - 1] = 0 THEN 0
        ELSE IF name[j] = "." THEN SkipBlanks(f, At[j - 1])
        ELSE IF CharAt(f, At[j - 1]) = name[j] THEN At[j - 1] + 1 ELSE 0
  IN  At[Len(name)]

Matches(f, name) ==
  LET i == Compared(f, name)
  IN  i # 0 /\ \A k \in i .. BaseLen + ExtLen : f[k] = " "

(* _fat_fs_find: the first entry that matches in the clusters that could   *)
(* be read, volume labels and their like left out.                         *)
WantedAny(e, name) == Matches(OnDisk(e), name) \* mutant: labels count

Wanted(e, name) == Matches(OnDisk(e), name) /\ e.kind # "label"

Entry(d, a) == Medium[d][a[1]][a[2]]

Places(d, seen) == UNION {{c} \X DOMAIN Medium[d][c] : c \in 1 .. seen}

Before(a, b) == a[1] < b[1] \/ (a[1] = b[1] /\ a[2] <= b[2])

Matching(d, name, seen) == {a \in Places(d, seen) : Wanted(Entry(d, a), name)}

(* What is found, in a set of one or none; "." is the directory itself.    *)
Dot(name) == name = <<".">>

Target(d, name, seen) ==
  IF Dot(name) THEN {[kind |-> "dir", file |-> d]}
  ELSE {Entry(d, a) : a \in {b \in Matching(d, name, seen) :
                               \A c \in Matching(d, name, seen) : Before(b, c)}}

------------------------------------------------------------------------------
Init ==
  /\ mem = [i \in {} |-> Root] /\ open = {}
  /\ pc = "idle" /\ asked \in Paths /\ rest = <<>>
  /\ dir = RootHandle /\ copy = 0 /\ file = NoHandle
  /\ ret = 0 /\ before = 0 /\ failed = FALSE

Panic ==
  /\ pc' = "panic"
  /\ UNCHANGED <<mem, open, walk, file, ret>>

Return(r) == pc' = "done" /\ ret' = r

(* The first separator means the root, where a search begins anyway.       *)
Stripped(p) == IF p[1] = <<>> /\ Len(p) > 1 THEN Tail(p) ELSE p

Nameless(p) == p = << <<>> >>

(* file_open, and fs_findfile up to its loop. *)
Call(p) ==
  /\ pc \in {"idle", "done"}
  /\ asked' = p /\ failed' = FALSE
  /\ before' = Cardinality(Unowned(mem, open))
  /\ IF Nameless(Stripped(p))
       THEN Return(-1) /\ file' = NoHandle /\ UNCHANGED <<mem, open, walk>>
     ELSE IF ~Room(mem, 1) THEN Panic
     ELSE /\ pc' = "walk" /\ rest' = Stripped(p) /\ dir' = RootHandle
          /\ copy' = Fresh(mem) /\ mem' = Put(mem, "path") /\ file' = NoHandle
          /\ UNCHANGED <<open, ret>>

(* One pass of the loop finds Head(rest) in dir, of which the medium gives *)
(* up `seen' clusters.  _fat_fs_find allocates a buffer for them first and *)
(* frees it last; between, each read takes a buffer for a time, and then   *)
(* the data of what was found is allocated.  A full heap panics.           *)
Needs == IF Dot(Head(rest)) THEN 1 ELSE 2

Data == IF Dot(Head(rest)) THEN Fresh(mem) ELSE Fresh(Put(mem, "entries"))

Popped(e) == PutAt(mem, Data, e.file)

(* tdir1.close, when dir is tdir1. *)
Closed(m) == IF dir = RootHandle THEN m ELSE Without(m, dir.data)

(* The directory entered becomes tdir1, and the one before it is closed.   *)
EnterLeaving(e) == \* mutant: the old directory is not closed
  /\ mem' = Popped(e)
  /\ dir' = [file |-> e.file, data |-> Data] /\ rest' = Tail(rest)
  /\ UNCHANGED <<open, pc, copy, file, ret>>

EnterLate(e) == \* mutant: closed after tdir2 has been copied over it
  /\ mem' = IF dir = RootHandle THEN Popped(e) ELSE Without(Popped(e), Data)
  /\ dir' = [file |-> e.file, data |-> Data] /\ rest' = Tail(rest)
  /\ UNCHANGED <<open, pc, copy, file, ret>>

Enter(e) ==
  /\ mem' = Closed(Popped(e))
  /\ dir' = [file |-> e.file, data |-> Data] /\ rest' = Tail(rest)
  /\ UNCHANGED <<open, pc, copy, file, ret>>

(* fs_findfile_fail: only the copy of the path is freed. *)
Fail(m) ==
  /\ Return(-1) /\ mem' = Without(m, copy)
  /\ UNCHANGED <<open, walk, file>>

(* The last name is found: the path's copy stays allocated. *)
Found(e) ==
  /\ Return(0) /\ mem' = Closed(Popped(e))
  /\ file' = [file |-> e.file, data |-> Data] /\ open' = open \cup {file'}
  /\ UNCHANGED walk

Find(seen) ==
  LET t == Target(Holds(mem, dir), Head(rest), seen)
  IN  /\ pc = "walk" /\ ~Nameless(rest)
      /\ failed' = (t = {} /\ seen < Len(Medium[Holds(mem, dir)]))
      /\ IF ~Room(mem, Needs) THEN Panic
         ELSE \/ t = {} /\ Fail(mem)
              \/ \E e \in t : IF Len(rest) = 1 THEN Found(e)
                              ELSE IF e.kind = "dir" THEN Enter(e)
                              ELSE Fail(Popped(e))
      /\ UNCHANGED <<asked, before>>

(* Nothing is left after a separator: success, and the caller's handle is  *)
(* as it was.                                                              *)
Trail ==
  /\ pc = "walk" /\ Nameless(rest)
  /\ Return(0) /\ mem' = Closed(mem)
  /\ UNCHANGED <<open, walk, file, thisCall>>

(* _fat_file_close by the owner of a handle. *)
Close(h) ==
  /\ pc = "done" /\ h \in open
  /\ open' = open \ {h} /\ mem' = Without(mem, h.data)
  /\ pc' = "idle"
  /\ UNCHANGED <<walk, file, ret, thisCall>>

Readable ==
  IF Holds(mem, dir) \in DOMAIN Medium THEN 0 .. Len(Medium[Holds(mem, dir)]) ELSE {}

Next ==
  \/ \E p \in Paths : Call(p)
  \/ \E seen \in Readable : Find(seen)
  \/ Trail
  \/ \E h \in open : Close(h)

Spec == Init /\ [][Next]_vars

------------------------------------------------------------------------------
(* What a path means: each name is looked up in the directory before it.   *)
NameOf(e) == e.base \o (IF e.ext = <<>> THEN <<>> ELSE <<".">> \o e.ext)

Listed(d) == {a \in Places(d, Len(Medium[d])) : Entry(d, a).kind # "label"}

Child(d, name) ==
  IF Dot(name) THEN {d}
  ELSE {Entry(d, a).file : a \in {b \in Listed(d) : NameOf(Entry(d, b)) = name}}

Along(s) ==
  LET At[i \in 0 .. Len(s)] ==
        IF i = 0 THEN {Root}
        ELSE UNION {Child(d, s[i]) : d \in At[i - 1] \cap DOMAIN Medium}
  IN  At

Meant == Along(Stripped(asked))[Len(Stripped(asked))]

(* Names as a FAT has them: letters, with those of the extension after a   *)
(* dot.  The names "." and ".." of a directory begin with one.             *)
Letter(c) == c \notin {" ", ".", "nul"}

Word(s) == s \in Seq({s[i] : i \in DOMAIN s})

Written(s) ==
  /\ Word(s)
  /\ \/ Len(s) <= BaseLen /\ \A i \in DOMAIN s : Letter(s[i])
     \/ \E k \in 2 .. Len(s) - 1 :
          /\ k <= BaseLen + 1 /\ Len(s) <= k + ExtLen
          /\ s[k] = "." /\ \A i \in DOMAIN s \ {k} : Letter(s[i])

Proper(e) ==
  /\ Word(e.base) /\ Len(e.base) \in 1 .. BaseLen
  /\ e.base[1] = "." \/ \A i \in DOMAIN e.base : Letter(e.base[i])
  /\ Word(e.ext) /\ Len(e.ext) <= ExtLen /\ \A i \in DOMAIN e.ext : Letter(e.ext[i])

(* The name s without its dot, at k, filled up with blanks. *)
Dotless(s, k) ==
  [i \in 1 .. BaseLen + ExtLen |->
     IF i < k THEN s[i] ELSE IF i < Len(s) THEN s[i + 1] ELSE " "]

Names == UNION {{p[i] : i \in DOMAIN p} : p \in Paths}

(* Names are unique in their directory, and only directories have entries. *)
(* As the comparison takes any number of blanks for a dot, none included,  *)
(* no name asked for is an entry's but for the place of its dot; and none  *)
(* has an attribute byte for a letter.                                     *)
ASSUME NamesAssumption ==
  /\ \A s \in Names : Dot(s) \/ Written(s)
  /\ \A d \in DOMAIN Medium :
       /\ Len(Medium[d]) \in Nat
       /\ \A c \in 1 .. Len(Medium[d]) : DOMAIN Medium[d][c] \subseteq Nat
       /\ \A a, b \in Listed(d) : NameOf(Entry(d, a)) = NameOf(Entry(d, b)) => a = b
       /\ \A e \in {Entry(d, a) : a \in Listed(d)} :
            /\ Proper(e) /\ (e.kind = "dir" <=> e.file \in DOMAIN Medium)
            /\ \A s \in Names : \A i \in DOMAIN s : s[i] # e.attr
            /\ \A s \in Names : \A k \in DOMAIN s :
                 s[k] = "." /\ k <= Len(e.base) =>
                   \E i \in 1 .. BaseLen + ExtLen : OnDisk(e)[i] # Dotless(s, k)[i]

EndsInName == asked[Len(asked)] # <<>>

(* Types; while a path is walked there is a name left of it, or the empty  *)
(* one after its last separator, and its copy is allocated.                *)
TypeOK ==
  /\ DOMAIN mem \subseteq Objects /\ copy \in 0 .. MaxMem
  /\ pc \in {"idle", "walk", "done", "panic"} /\ ret \in {0, -1}
  /\ asked \in Paths /\ before \in Nat /\ failed \in BOOLEAN
  /\ pc = "walk" => Len(rest) > 0 /\ copy \in DOMAIN mem

(* fs.c:27-44, fat.c:368-373: the data of every handle in use, the         *)
(* directory being searched among them, is allocated, is that handle's     *)
(* alone and still says what the handle was opened for.                    *)
HandlesIntact ==
  LET used == IF pc = "walk" THEN open \cup {dir} ELSE open
  IN  /\ \A h \in used : Holds(mem, h) = h.file
      /\ \A g, h \in used : g.data = h.data => g = h

(* fs.c:8-60, fat.c:301-405: a file that is found is the one its path      *)
(* names from the root down, volume labels left out, if the path ends in   *)
(* a name at all.                                                          *)
FindsNamed ==
  pc = "done" /\ ret = 0 /\ EndsInName => Meant = {file.file}

(* fat.c:380-383: a file is reported missing only if no such path exists   *)
(* or a read of the medium failed.                                         *)
MissesNone ==
  pc = "done" /\ ret = -1 /\ EndsInName => failed \/ Meant = {}

(* fs.c:39-64: however deep the path, a call that succeeds leaves one      *)
(* object behind that no handle owns, its copy of the path, and one that   *)
(* fails at most two, the directory it was in and what it found there.     *)
LeavesLittle ==
  pc = "done" =>
    Cardinality(Unowned(mem, open)) - before \in (IF ret = 0 THEN {1} ELSE 0 .. 2)
=============================================================================
