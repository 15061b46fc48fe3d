------------------------------- MODULE Loader -------------------------------
(***************************************************************************)
(* From the configuration file to the jump: config/config.c with the       *)
(* number parsing it uses, exec/exec.c and exec/fmt/elf.c, as cstart calls *)
(* them.  Multiboot.tla has what happens between finding a multiboot       *)
(* header and the jump.                                                    *)
(*                                                                         *)
(* The configuration is a sequence of pieces: a `set' is KEY=value with    *)
(* neither line end nor a second '=' before it, a `text' has no '=', `cr'  *)
(* and `lf' are the line ends.  The buffer it is read into is exactly its  *)
(* size, so that what lies behind belongs to the string that is parsed, up *)
(* to the first NUL.  A unit of memory and of files is four bytes; what it *)
(* holds is named by the file it is from and its place there.              *)
(***************************************************************************)
EXTENDS Integers, Sequences, FiniteSets, SequencesExt

CONSTANTS
  Texts,       \* configuration files: sequences of pieces
  Behind,      \* what may lie behind the buffer
  Chars,       \* the characters of the values of CFGVER
  MaxModules,  \* MAX_MODULES
  Disk,        \* path -> [size, elf, magic, head]
  FirstChunk,  \* EXEC_FIRSTCHUNK_SZ
  MiB,         \* below this address LBoot lives
  MemTop,      \* and memory ends here
  Window       \* how far the header is searched for, 8 KiB

ASSUME LoaderAssumption ==
  /\ MaxModules \in Nat /\ FirstChunk \in Nat /\ Window \in Nat
  /\ MiB \in Nat \ {0} /\ MemTop \in Nat /\ MiB < MemTop

(* Sizes and program headers of files; all addresses are unsigned. *)
ASSUME DiskAssumption ==
  \A f \in DOMAIN Disk : LET ph == Disk[f].elf.phdrs IN
    /\ Disk[f].size \in Nat
    /\ ph \in Seq({ph[i] : i \in DOMAIN ph})
    /\ \A i \in DOMAIN ph :
         ph[i].paddr \in Nat /\ ph[i].filesz \in Nat /\ ph[i].memsz \in Nat

VARIABLES
  pc,
  file, text,  \* the configuration, and the string it becomes in memory
  cut,         \* pieces, or the '=' in them, that _config_parse made NUL
  line, next,  \* its locals: positions in text, 0 for NULL
  cfg,         \* config_data_t
  data_begin, data_end, multiboot, \* exec_hand_t; 0 where no header is known
  n, addr,     \* program header or module to be loaded next, and where
  mem          \* address -> what it holds

config == <<file, text, cut, line, next>>
exec == <<data_begin, data_end, multiboot, n, addr>>
lvars == <<pc, config, cfg, exec, mem>>

NULL == ""
Spoilt == "spoilt" \* a value with something else after it

Holds(of, at) == [of |-> of, at |-> at]

LInit ==
  /\ pc = "config"
  /\ file \in Texts
  /\ \E b \in Behind : text = file \o b
  /\ cut = {} /\ line = 0 /\ next = 0
  /\ cfg = [kernel |-> NULL, cmdline |-> NULL, modules |-> <<>>]
  /\ data_begin = 0 /\ data_end = 0 /\ multiboot = 0 /\ n = 1 /\ addr = 0
  /\ mem = [a \in 0 .. MemTop - 1 |-> Holds(IF a < MiB THEN "lboot" ELSE "free", 0)]

panic ==
  /\ pc' = "panic"
  /\ UNCHANGED <<config, cfg, exec, mem>>

------------------------------------------------------------------------------
(* ctype.c, stdlib.c: the lower-case letters are lost to a misspelt        *)
(* comparison, and the digit that equals the base is taken.  Of the 32     *)
(* bits of the number 16 are kept; eight are used.                         *)
isalnum(c) == c \in 48 .. 57 \/ c \in 65 .. 90

_char_to_num(c) ==
  IF c \in 48 .. 57 THEN c - 48
  ELSE IF c \in 65 .. 90 THEN c - 55
  ELSE IF c \in 97 .. 122 THEN c - 87 ELSE -1

TwoBytes == 65536

strtoul(s, base) ==
  LET Upto[i \in 0 .. Len(s)] ==
        IF i = 0 THEN [res |-> 0, on |-> TRUE]
        ELSE IF ~Upto[i - 1].on \/ ~isalnum(s[i]) \/ _char_to_num(s[i]) > base
             THEN [Upto[i - 1] EXCEPT !.on = FALSE]
        ELSE [Upto[i - 1] EXCEPT !.res = (@ * base + _char_to_num(s[i])) % TwoBytes]
  IN  Upto[Len(s)].res

(* config_version has eight bits.  What follows a spoilt value may end it. *)
Versions(v) == IF v = Spoilt THEN {0, 1} ELSE {strtoul(Chars[v], 10) % 256}

------------------------------------------------------------------------------
(* A string reaches from its position to the next NUL. *)
Str(p) == {q \in p .. Len(text) : \A r \in p .. q : r \notin cut}

First(S) == CHOOSE p \in S : \A q \in S : p <= q

Of(kinds, S) == {p \in S : text[p].kind \in kinds}

(* Where the line at p ends for _get_line: at its first CR or LF, if there *)
(* is an LF in the string at all.                                          *)
LineEndLf(p) == \* mutant: only LF ends a line
  LET lf == Of({"lf"}, Str(p)) IN {q \in lf : \A r \in lf : q <= r}

LineEnd(p) ==
  {q \in Of({"cr", "lf"}, Str(p)) :
     /\ \A r \in Of({"cr", "lf"}, Str(p)) : q <= r
     /\ Of({"lf"}, Str(p)) # {}}

(* The line ends from there on, which become NUL. *)
Ends(e) ==
  {q \in e .. Len(text) : \A r \in e .. q : r \notin cut /\ text[r].kind \in {"cr", "lf"}}

(* Where the next line begins.  If the string ends with this one, next is  *)
(* left as it was: the line just read, which has lost its '=' by the time  *)
(* it is read again, or NULL if it was the first.                          *)
Following(e) ==
  LET q == e + Cardinality(Ends(e))
  IN  IF q <= Len(text) /\ q \notin cut THEN q ELSE next

_get_lineStuck == \* mutant: next is not set to NULL
  /\ pc = "line" /\ pc' = "key"
  /\ \/ LineEnd(line) = {} /\ UNCHANGED <<cut, next>>
     \/ \E e \in LineEnd(line) : cut' = cut \cup Ends(e) /\ next' = Following(e)
  /\ UNCHANGED <<file, text, line, cfg, exec, mem>>

_get_line ==
  /\ pc = "line" /\ pc' = "key"
  /\ \/ LineEnd(line) = {} /\ next' = 0 /\ UNCHANGED cut
     \/ \E e \in LineEnd(line) : cut' = cut \cup Ends(e) /\ next' = Following(e)
  /\ UNCHANGED <<file, text, line, cfg, exec, mem>>

(* config_load: open and read the file, or fail. *)
LoadConfig ==
  /\ pc = "config"
  /\ \/ pc' = "line" /\ line' = 1 /\ next' = 0 /\ UNCHANGED <<file, text, cut, cfg, exec, mem>>
     \/ panic

(* The '=' of the line, if it has one, becomes NUL.  The key counts if it  *)
(* is all that stands before.                                              *)
Equals == {q \in Of({"set"}, Str(line)) : \A r \in Of({"set"}, Str(line)) : q <= r}

Value(q) == IF Str(line) = {q} THEN text[q].val ELSE Spoilt

Module(path) == [path |-> path, addr |-> 0, size |-> 0]

Assigned(key, v) ==
  CASE key = "KERNEL"  -> [cfg EXCEPT !.kernel = v]
    [] key = "CMDLINE" -> [cfg EXCEPT !.cmdline = v]
    [] key = "MODULE"  -> [cfg EXCEPT !.modules = Append(@, Module(v))]
    [] OTHER -> cfg

Refused(key, v) ==
  \/ key = "MODULE" /\ Len(cfg.modules) = MaxModules
  \/ key = "CFGVER" /\ \E w \in Versions(v) : w # 1

Taken(key, v) ==
  /\ key = "MODULE" => Len(cfg.modules) < MaxModules
  /\ key = "CFGVER" => 1 \in Versions(v)

NextLine == line' = next /\ pc' = IF next = 0 THEN "parsed" ELSE "line"

(* The rest of an iteration of _config_parse. *)
ParseKey ==
  /\ pc = "key"
  /\ cut' = cut \cup Equals
  /\ \/ (\A q \in Equals : q # line) /\ NextLine /\ UNCHANGED cfg
     \/ /\ line \in Equals /\ Taken(text[line].key, Value(line))
        /\ cfg' = Assigned(text[line].key, Value(line)) /\ NextLine
     \/ /\ line \in Equals /\ Refused(text[line].key, Value(line))
        /\ pc' = "refused" /\ UNCHANGED <<line, cfg>>
  /\ UNCHANGED <<file, text, next, exec, mem>>

(* The buffer is freed, and cstart goes on. *)
ConfigLoaded ==
  /\ pc = "parsed"
  /\ file' = <<>> /\ text' = <<>> /\ cut' = {} /\ line' = 0 /\ next' = 0
  /\ pc' = IF cfg.kernel = NULL THEN "panic" ELSE "kernel"
  /\ UNCHANGED <<cfg, exec, mem>>

------------------------------------------------------------------------------
(* file_open and reads of it deliver the file, or fail. *)
Kernel == Disk[cfg.kernel]
Loadable == {i \in DOMAIN Kernel.elf.phdrs : Kernel.elf.phdrs[i].load}

(* exec_open: a file that is no ELF file counts as flat, which             *)
(* _flat_prepare then refuses, its addresses never having been set.        *)
exec_open ==
  /\ pc = "kernel"
  /\ \/ /\ cfg.kernel \in DOMAIN Disk /\ Kernel.size >= FirstChunk /\ Kernel.elf.ident
        /\ pc' = "prepare" /\ data_begin' = MemTop
        /\ UNCHANGED <<config, cfg, data_end, multiboot, n, addr, mem>>
     \/ panic

(* _elf_prepare. *)
Supported ==
  /\ Kernel.elf.host /\ Kernel.elf.entry >= MiB
  /\ \A i \in Loadable : Kernel.elf.phdrs[i].vaddr >= MiB

_elf_prepare ==
  /\ pc = "prepare"
  /\ \/ Supported /\ pc' = "load" /\ UNCHANGED <<config, cfg, exec, mem>>
     \/ panic

(* What a read or memset leaves in memory. *)
Filled(a, bytes) ==
  [b \in DOMAIN mem |-> IF b - a \in DOMAIN bytes THEN bytes[b - a] ELSE mem[b]]

(* Where a segment ends, what is cleared after its bytes included. *)
SegEndFile(p) == p.paddr + p.filesz \* mutant: without it

SegEnd(p) == p.paddr + p.memsz

(* How much a segment overwrites, when its bytes and what is cleared after *)
(* them are there.                                                         *)
Extent(p) == IF p.filesz < p.memsz THEN p.memsz ELSE p.filesz

LoadSegment(p) ==
  /\ data_begin' = IF p.paddr < data_begin THEN p.paddr ELSE data_begin
  /\ data_end' = IF SegEnd(p) > data_end THEN SegEnd(p) ELSE data_end
  /\ mem' = Filled(p.paddr, [k \in 0 .. Extent(p) - 1 |->
       IF k < p.filesz THEN Holds(cfg.kernel, p.offset + k) ELSE Holds("zero", 0)])

_elf_load_phdr ==
  /\ pc = "load"
  /\ \/ /\ n > Len(Kernel.elf.phdrs)
        /\ pc' = "modules" /\ n' = 1 /\ addr' = data_end
        /\ UNCHANGED <<data_begin, data_end, mem>>
     \/ /\ n <= Len(Kernel.elf.phdrs)
        /\ n' = n + 1 /\ UNCHANGED <<pc, addr>>
        /\ IF n \in Loadable THEN LoadSegment(Kernel.elf.phdrs[n])
           ELSE UNCHANGED <<data_begin, data_end, mem>>
  /\ UNCHANGED <<config, cfg, multiboot>>

(* A read of a segment may fail, and a module be missing or not be read. *)
LoadFails ==
  /\ \/ pc = "load" /\ n \in Loadable /\ Kernel.elf.phdrs[n].filesz > 0
     \/ pc = "modules" /\ n <= Len(cfg.modules)
  /\ panic

------------------------------------------------------------------------------
(* The macro has its branches the wrong way round. *)
ALIGN(a, to) == IF a % to # 0 THEN a ELSE a + to - (a % to)

(* _exec_load_modules, to eight bytes. *)
_exec_load_modules ==
  /\ pc = "modules" /\ n <= Len(cfg.modules)
  /\ LET mod == cfg.modules[n]
         a   == ALIGN(addr, 2)
     IN  /\ mod.path \in DOMAIN Disk
         /\ mem' = Filled(a, [k \in 0 .. Disk[mod.path].size - 1 |-> Holds(mod.path, k)])
         /\ cfg' = [cfg EXCEPT !.modules[n].addr = a, !.modules[n].size = Disk[mod.path].size]
         /\ addr' = a + Disk[mod.path].size
  /\ n' = n + 1
  /\ UNCHANGED <<pc, config, data_begin, data_end, multiboot>>

(* _exec_detect_multiboot: every second word from the lowest address on    *)
(* that was loaded to, whatever the words there come from.                 *)
Magic(a) ==
  IF a < MemTop /\ mem[a].of \in DOMAIN Disk /\ mem[a].at \in DOMAIN Disk[mem[a].of].magic
  THEN Disk[mem[a].of].magic[mem[a].at] ELSE 0

Magics == {a \in data_begin .. data_begin + Window - 1 : (a - data_begin) % 2 = 0 /\ Magic(a) # 0}

(* The kernel is entered, or its header read first. *)
_exec_detect_multiboot ==
  /\ pc = "modules" /\ n > Len(cfg.modules)
  /\ IF Magics = {} THEN pc' = "entered" /\ UNCHANGED multiboot
     ELSE IF Magic(First(Magics)) = 1 THEN pc' = "panic" /\ UNCHANGED multiboot
     ELSE pc' = "header" /\ multiboot' = First(Magics)
  /\ UNCHANGED <<config, cfg, data_begin, data_end, n, addr, mem>>

LNext ==
  \/ LoadConfig \/ _get_line \/ ParseKey \/ ConfigLoaded
  \/ exec_open \/ _elf_prepare \/ _elf_load_phdr \/ LoadFails
  \/ _exec_load_modules \/ _exec_detect_multiboot

------------------------------------------------------------------------------
(* A file and what lies behind it are sequences, in which what is no line  *)
(* end is one piece with what else stands on its line.                     *)
IsSet(x, key) == x.kind = "set" /\ x.key = key

Pieces(t) == {t[p] : p \in DOMAIN t}

ASSUME TextsAssumption ==
  /\ \A t \in Texts \cup Behind : t \in Seq(Pieces(t))
  /\ \A t \in Texts :
       /\ \A p \in 1 .. Len(t) - 1 : {t[p].kind, t[p + 1].kind} \cap {"cr", "lf"} # {}
       /\ \A x \in Pieces(t) :
            /\ x.val # Spoilt
            /\ IsSet(x, "CFGVER") => x.val \in DOMAIN Chars
  /\ \A v \in DOMAIN Chars : /\ Chars[v] \in Seq({Chars[v][i] : i \in DOMAIN Chars[v]})
                             /\ \A i \in DOMAIN Chars[v] : Chars[v][i] \in Nat
                             /\ v = "1" <=> Chars[v] = <<49>>

(* What the file t says by its lines: the values of a key up to piece i.   *)
SaidTo(t, key) ==
  LET To[i \in 0 .. Len(t)] ==
        IF i = 0 THEN <<>>
        ELSE IF IsSet(t[i], key) THEN Append(To[i - 1], t[i].val) ELSE To[i - 1]
  IN  To

Said(key) == SaidTo(file, key)[Len(file)]

LastSaid(key) == IF Said(key) = <<>> THEN NULL ELSE Last(Said(key))

(* It is well formed if it ends with an LF, behind which no string with a  *)
(* '=' follows in memory, and gives no version beyond 99, what is kept of  *)
(* it being eight bits, nor one with more than its number.                 *)
Numeral(c) == Len(c) < 2 \/ (Len(c) = 2 /\ c[1] \in 49 .. 57 /\ c[2] \in 48 .. 57)

WellFormed ==
  /\ Len(file) > 0 /\ file[Len(file)].kind = "lf"
  /\ \A p \in Len(file) + 1 .. Len(text) : text[p].kind # "set"
  /\ \A p \in DOMAIN file : IsSet(file[p], "CFGVER") => Numeral(Chars[file[p].val])

Wrong ==
  \/ \E p \in DOMAIN file : IsSet(file[p], "CFGVER") /\ file[p].val # "1"
  \/ Len(Said("MODULE")) > MaxModules

(* config.c:79-130: the configuration is what the lines of the file say,   *)
(* however they end and whatever lies behind the buffer, and it is refused *)
(* only for a version other than 1 or for too many modules.                *)
ConfigAsWritten ==
  WellFormed =>
    /\ pc = "refused" => Wrong
    /\ pc = "parsed" =>
         /\ ~Wrong
         /\ cfg.kernel = LastSaid("KERNEL") /\ cfg.cmdline = LastSaid("CMDLINE")
         /\ [i \in DOMAIN cfg.modules |-> cfg.modules[i].path] = Said("MODULE")

(* elf.c:118-153, exec.c:69-98: when the kernel is entered, its segments   *)
(* and all modules are in memory as in their files, none over another, and *)
(* none of them over LBoot, whose tables and stack the kernel starts on;   *)
(* given memory for all of them, and a kernel that has segments, which are *)
(* apart and are loaded above 1 MiB: _elf_phdr_check asks that of their    *)
(* virtual addresses only, and without a segment modules are loaded from 0 *)
(* on.                                                                     *)
Segment(p) == p.paddr .. p.paddr + Extent(p) - 1

Sound ==
  /\ Loadable # {}
  /\ \A i \in Loadable :
       /\ Kernel.elf.phdrs[i].paddr >= MiB
       /\ \A j \in Loadable \ {i} :
            Segment(Kernel.elf.phdrs[i]) \cap Segment(Kernel.elf.phdrs[j]) = {}

Intact ==
  /\ \A i \in Loadable : LET p == Kernel.elf.phdrs[i] IN
       \A k \in 0 .. p.memsz - 1 :
         mem[p.paddr + k] =
           IF k < p.filesz THEN Holds(cfg.kernel, p.offset + k) ELSE Holds("zero", 0)
  /\ \A i \in DOMAIN cfg.modules : LET m == cfg.modules[i] IN
       /\ m.size = Disk[m.path].size
       /\ \A k \in 0 .. m.size - 1 : mem[m.addr + k] = Holds(m.path, k)
  /\ \A a \in 0 .. MiB - 1 : mem[a].of = "lboot"

LoadedIntact == pc = "entered" /\ Sound /\ addr <= MemTop => Intact
=============================================================================
