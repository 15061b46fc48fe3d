------------------------------ MODULE Multiboot ------------------------------
(***************************************************************************)
(* exec/multiboot.c: the kernel's multiboot 2 header is read and the block *)
(* of information it asks for is written, from the configuration and from  *)
(* what the BIOS answers, before the kernel is entered with it.            *)
(*                                                                         *)
(* Sizes are bytes.  A tag of the block is a type, a size and its data;    *)
(* `info' maps the offsets at which tags were written to the tags, and the *)
(* rest of the block is zero.  A tag that runs past the block's end is in  *)
(* it like the others; what this may destroy is in Overrun.  The header is *)
(* the sequence of its tags, the last of which is the end tag.  Addresses  *)
(* in memory are Loader's.  The BIOS is outside.                           *)
(***************************************************************************)
EXTENDS Loader

CONSTANTS
  Prealloc, \* MULTIBOOT2_PREALLOC, bytes of the block
  StrLen,  \* strlen
  Upper,   \* KiB of memory above 1 MiB
  MemMaps, \* memory maps a BIOS may have: sequences of [base, type]
  Rsdps    \* what a search for the ACPI root pointer finds first:
           \* [found, revision, and whether v1 and v2 sum up to zero]

VARIABLES
  htag, req, mod, \* tag of the header, request in it, module: next to be seen to
  at,      \* next_tag
  info,    \* the block
  idx,     \* entries the BIOS has given of its map
  map,     \* that map
  rsdp     \* the machine's root pointer

parse == <<htag, req, mod, at, info, idx>>
machine == <<map, rsdp>>
vars == <<lvars, parse, machine>>

HeaderEnd == 0
InformationRequest == 1

Cmdline == 1
BootloaderName == 2
Module3 == 3
BasicMeminfo == 4
Mmap == 6
AcpiOld == 14
AcpiNew == 15

Init ==
  /\ LInit
  /\ htag = 1 /\ req = 1 /\ mod = 1 /\ at = 0 /\ info = [o \in {} |-> 0] /\ idx = 0
  /\ map \in MemMaps /\ rsdp \in Rsdps

------------------------------------------------------------------------------
(* The header is what lies where the magic number was found. *)
KernelHead == Disk[mem[multiboot].of].head
Tag == KernelHead.tags[htag]

(* multiboot2_parse: the header's checks, and an empty block. *)
Begin ==
  /\ pc = "header"
  /\ pc' = IF KernelHead.x86 /\ KernelHead.checked THEN "tags" ELSE "panic"
  /\ at' = 8
  /\ UNCHANGED <<config, cfg, exec, mem, htag, req, mod, info, idx, machine>>

(* NEXT_TAG: tags begin at multiples of eight bytes. *)
NEXT_TAGUnpadded(o, size) == o + size \* mutant: without the padding

NEXT_TAG(o, size) == o + size + (IF size % 8 # 0 THEN 8 - (size % 8) ELSE 0)

(* A tag goes to the block, over what may be there. *)
Placed(o, t) ==
  [p \in (DOMAIN info \ (o .. o + t.size - 1)) \cup {o} |-> IF p = o THEN t ELSE info[p]]

Pop(t) == info' = Placed(at, t) /\ at' = NEXT_TAG(at, t.size)

Text(type, s) == [type |-> type, size |-> 8 + StrLen[s] + 1, data |-> <<s>>]

(* An information request is seen to, and the next one is up. *)
Requested(type) ==
  /\ pc = "tags" /\ Tag.type = InformationRequest
  /\ req <= Len(Tag.reqs) /\ Tag.reqs[req] = type

NextRequest == req' = req + 1 /\ mod' = 1 /\ idx' = 0 /\ UNCHANGED <<lvars, htag, machine>>

PopCmdline ==
  /\ Requested(Cmdline) /\ NextRequest
  /\ IF cfg.cmdline # NULL THEN Pop(Text(Cmdline, cfg.cmdline)) ELSE UNCHANGED <<at, info>>

PopName ==
  /\ Requested(BootloaderName) /\ NextRequest
  /\ Pop(Text(BootloaderName, "LBoot"))

(* _mboot2_poptag_module, for each module. *)
PopModule ==
  /\ Requested(Module3)
  /\ IF mod > Len(cfg.modules) THEN NextRequest /\ UNCHANGED <<at, info>>
     ELSE /\ LET m == cfg.modules[mod]
             IN  Pop([type |-> Module3, size |-> 16 + StrLen[m.path] + 1,
                      data |-> <<m.addr, m.addr + m.size, m.path>>])
          /\ mod' = mod + 1
          /\ UNCHANGED <<lvars, htag, req, idx, machine>>

(* _mboot2_poptag_meminfo: without an answer the lower memory is guessed,  *)
(* and the upper memory is an error.                                       *)
PopMeminfo ==
  /\ Requested(BasicMeminfo) /\ NextRequest
  /\ \E lower \in {639, 640} :
       Pop([type |-> BasicMeminfo, size |-> 16, data |-> <<lower, Upper>>])

(* _mboot2_poptag_mmap, call by call: the BIOS gives an entry, with ebx    *)
(* zero at the last or not, or the carry flag when there is none.          *)
MmapType(t) == IF t \in {1, 3, 4} THEN t ELSE 0

MmapTag ==
  IF idx = 0 THEN [type |-> Mmap, size |-> 16, data |-> <<>>] ELSE info[at]

Entered(t) ==
  [t EXCEPT !.size = @ + 24,
            !.data = Append(@, [map[idx + 1] EXCEPT !.type = MmapType(@)])]

PopMmap ==
  /\ Requested(Mmap)
  /\ \/ /\ idx < Len(map)
        /\ info' = Placed(at, Entered(MmapTag)) /\ idx' = idx + 1
        /\ UNCHANGED <<lvars, htag, req, mod, at, machine>>
     \/ /\ idx = Len(map) /\ Pop(MmapTag) /\ NextRequest

(* _mboot2_poptag_acpiold and _acpinew leave the tag out when the root     *)
(* pointer is not there, not of their version or does not sum up to zero.  *)
HasOld == rsdp.found /\ rsdp.v1
HasNew == HasOld /\ rsdp.revision = 2 /\ rsdp.v2

PopAcpi ==
  /\ \/ /\ Requested(AcpiOld)
        /\ IF HasOld THEN Pop([type |-> AcpiOld, size |-> 28, data |-> <<>>])
           ELSE UNCHANGED <<at, info>>
     \/ /\ Requested(AcpiNew)
        /\ IF HasNew THEN Pop([type |-> AcpiNew, size |-> 44, data |-> <<>>])
           ELSE UNCHANGED <<at, info>>
  /\ NextRequest

------------------------------------------------------------------------------
(* The next tag of the header, if this one is done or may be left out. *)
NextHeaderTag ==
  /\ pc = "tags" /\ Tag.type # HeaderEnd
  /\ IF Tag.type = InformationRequest THEN req > Len(Tag.reqs) ELSE Tag.optional
  /\ htag' = htag + 1 /\ req' = 1
  /\ UNCHANGED <<lvars, mod, at, info, idx, machine>>

(* mboot2_parse_error, also when the BIOS does not tell the upper memory. *)
Known == {Cmdline, BootloaderName, Module3, BasicMeminfo, Mmap, AcpiOld, AcpiNew}

ParseError ==
  /\ pc = "tags"
  /\ \/ Tag.type \notin {HeaderEnd, InformationRequest} /\ ~Tag.optional
     \/ /\ Tag.type = InformationRequest /\ req <= Len(Tag.reqs)
        /\ Tag.reqs[req] \notin Known \ {BasicMeminfo}
  /\ panic /\ UNCHANGED <<parse, machine>>

(* The block has Prealloc bytes, and nothing counts what is put into it.   *)
(* What runs past it goes over the heap behind it: the boot may go on as   *)
(* if nothing were the matter, and it may not.                             *)
Overrun ==
  /\ pc = "tags" /\ at > Prealloc
  /\ pc' = "wrecked"
  /\ UNCHANGED <<config, cfg, exec, mem, parse, machine>>

(* The block gets its size, and the kernel is entered. *)
Enter ==
  /\ pc = "tags" /\ Tag.type = HeaderEnd
  /\ pc' = "entered"
  /\ UNCHANGED <<config, cfg, exec, mem, parse, machine>>

multiboot2_parse ==
  \/ Begin \/ NextHeaderTag \/ ParseError \/ Overrun \/ Enter
  \/ PopCmdline \/ PopName \/ PopModule \/ PopMeminfo \/ PopMmap \/ PopAcpi

Next == (LNext /\ UNCHANGED <<parse, machine>>) \/ multiboot2_parse

Spec == Init /\ [][Next]_vars
FairSpec == Spec /\ WF_vars(Next)

------------------------------------------------------------------------------
(* Headers, maps and values as they are in a machine.  A header has an end *)
(* tag, and it is the last.  What is in memory from no file is named so.   *)
Values == UNION {{x.val : x \in Pieces(t)} : t \in Texts \cup Behind}

IsHead(tags) ==
  /\ tags \in Seq({tags[k] : k \in DOMAIN tags}) /\ tags # <<>>
  /\ \A k \in DOMAIN tags :
       /\ tags[k].type = HeaderEnd <=> k = Len(tags)
       /\ tags[k].reqs \in Seq({tags[k].reqs[r] : r \in DOMAIN tags[k].reqs})

ASSUME HeadsAssumption ==
  /\ {"lboot", "free", "zero"} \cap DOMAIN Disk = {}
  /\ \A f \in DOMAIN Disk : IsHead(Disk[f].head.tags)

ASSUME BlockAssumption == Prealloc \in Nat

ASSUME MachineAssumption ==
  /\ \A s \in Values \cup {Spoilt, "LBoot"} : StrLen[s] \in Nat
  /\ \A m \in MemMaps :
       /\ m \in Seq({m[i] : i \in DOMAIN m})
       /\ \A i \in DOMAIN m : m[i] = [base |-> m[i].base, type |-> m[i].type]

(* The tags that answer a request, of a type and with a number, and what a *)
(* kernel asks for: sequences joined up to each of them.                   *)
Times(type) ==
  CASE type = Cmdline -> IF cfg.cmdline = NULL THEN 0 ELSE 1
    [] type = Module3 -> Len(cfg.modules)
    [] type = AcpiOld -> IF HasOld THEN 1 ELSE 0
    [] type = AcpiNew -> IF HasNew THEN 1 ELSE 0
    [] OTHER          -> 1

Joined(ss) ==
  LET To[i \in 0 .. Len(ss)] == IF i = 0 THEN <<>> ELSE To[i - 1] \o ss[i]
  IN  To

AskedBy(tag) ==
  IF tag.type # InformationRequest THEN <<>>
  ELSE [r \in DOMAIN tag.reqs |-> [i \in 1 .. Times(tag.reqs[r]) |-> <<tag.reqs[r], i>>]]

AskedIn(tags) == [k \in DOMAIN tags |-> Joined(AskedBy(tags[k]))[Len(AskedBy(tags[k]))]]

Asked == Joined(AskedIn(KernelHead.tags))[Len(KernelHead.tags)]

(* Where a kernel finds its tags: the first at 8, each of the others at    *)
(* the next multiple of 8.                                                 *)
Found ==
  LET Off[k \in 1 .. Len(Asked) + 1] ==
        IF k = 1 THEN 8
        ELSE IF Off[k - 1] \in DOMAIN info
             THEN 8 * ((Off[k - 1] + info[Off[k - 1]].size + 7) \div 8) ELSE 0
  IN  Off

(* What tag t should say, as the answer with number i to a request. *)
ModuleTrue(m, begin, end) ==
  /\ end - begin = Disk[m.path].size
  /\ \A a \in begin .. end - 1 : mem[a] = Holds(m.path, a - begin)

TrueOf(type, i, t) ==
  CASE type = Module3 -> ModuleTrue(cfg.modules[i], t.data[1], t.data[2])
    [] type = Cmdline -> t.data = <<cfg.cmdline>>
    [] type = BasicMeminfo -> t.data[2] = Upper
    [] type = Mmap ->
         /\ Len(t.data) = Len(map) /\ t.size = 16 + 24 * Len(map)
         /\ \A j \in DOMAIN map :
              t.data[j].base = map[j].base /\ t.data[j].type = MmapType(map[j].type)
    [] OTHER -> TRUE

(* The kernel has a magic word in what is loaded of it, where it is looked *)
(* for: at an even word from its lowest segment on.                        *)
Headed ==
  LET Lowest == First({Kernel.elf.phdrs[i].paddr : i \in Loadable})
  IN  \E i \in Loadable : LET p == Kernel.elf.phdrs[i] IN
        \E k \in 0 .. p.filesz - 1 :
          /\ k < p.memsz
          /\ p.offset + k \in DOMAIN Kernel.magic /\ Kernel.magic[p.offset + k] # 0
          /\ p.paddr + k < Lowest + Window /\ (p.paddr + k - Lowest) % 2 = 0

(* multiboot.c:23-126, exec.c:69-115: a kernel that has a header is        *)
(* entered with a block in which it finds what this header asked for, all, *)
(* in order and nothing else; and what it finds is true of the memory as   *)
(* it is when the kernel runs.  As in LoadedIntact there is memory for     *)
(* all, and segments are apart and above 1 MiB; and what is asked for fits *)
(* the 1024 bytes the block has.                                           *)
KernelTold ==
  pc = "entered" /\ Sound /\ addr <= MemTop /\ Headed /\ at <= Prealloc =>
    /\ multiboot # 0 /\ mem[multiboot].of = cfg.kernel
    /\ \A k \in DOMAIN Asked :
         /\ Found[k] \in DOMAIN info
         /\ info[Found[k]].type = Asked[k][1]
         /\ TrueOf(Asked[k][1], Asked[k][2], info[Found[k]])
    /\ Found[Len(Asked) + 1] = at

(* cstart.c:70-95: the boot ends, in the kernel or in a panic, whatever    *)
(* the lines of the configuration are and what lies behind them, or it     *)
(* goes astray over a block that is too long.                              *)
BootEnds == <>(pc \in {"entered", "refused", "panic", "wrecked"})
=============================================================================
