----------------------------- MODULE BootProofs -----------------------------
(***************************************************************************)
(* Proofs about what is in memory when the kernel is entered, for every    *)
(* configuration, disk, layout of the kernel's segments and number and     *)
(* size of modules; about what config_load has read by then, for every     *)
(* text of the file; and about the block the kernel is told with, for      *)
(* every header and machine.                                               *)
(***************************************************************************)
EXTENDS Multiboot, SequenceTheorems, FiniteSetTheorems, WellFoundedInduction, TLAPS

USE LoaderAssumption

------------------------------------------------------------------------------
(***************************************************************************)
(* The inductive invariant.                                                *)
(***************************************************************************)
Phdrs == Kernel.elf.phdrs

(* A segment of file f, a module, and LBoot, in memory w, as far as there  *)
(* is memory.                                                              *)
SegmentIn(w, f, p) ==
  \A k \in 0 .. p.memsz - 1 : p.paddr + k < MemTop =>
    w[p.paddr + k] = IF k < p.filesz THEN Holds(f, p.offset + k) ELSE Holds("zero", 0)

ModuleIn(w, m) ==
  \A k \in 0 .. m.size - 1 : m.addr + k < MemTop => w[m.addr + k] = Holds(m.path, k)

LBootIn(w) == \A a \in 0 .. MiB - 1 : w[a].of = "lboot"

Starting == {"config", "line", "key", "parsed", "refused", "kernel", "prepare"}
Booting == {"header", "tags", "entered"}

(* The configuration is a record with a list of modules, and a kernel that *)
(* has been opened is a file.                                              *)
Listed(ms) == \E S : ms \in Seq([path : S, addr : Nat, size : Nat])

Configured ==
  /\ cfg = [kernel |-> cfg.kernel, cmdline |-> cfg.cmdline, modules |-> cfg.modules]
  /\ Listed(cfg.modules)
  /\ pc \in {"prepare", "load", "modules"} \cup Booting => cfg.kernel \in DOMAIN Disk

Started == pc \in Starting => n = 1 /\ data_end = 0 /\ LBootIn(mem)

(* Segments before the n-th are loaded, and end below data_end. *)
Loading ==
  pc = "load" =>
    /\ n \in Nat /\ data_end \in Nat
    /\ Sound =>
         /\ LBootIn(mem)
         /\ \A i \in Loadable : i < n =>
              SegmentIn(mem, cfg.kernel, Phdrs[i]) /\ SegEnd(Phdrs[i]) <= data_end

(* All segments are, and the modules before the n-th, and end below addr,  *)
(* where the next module goes.                                             *)
Appending ==
  pc \in {"modules"} \cup Booting =>
    /\ n \in Nat \ {0} /\ addr \in Nat
    /\ pc # "modules" => n > Len(cfg.modules)
    /\ \A i \in DOMAIN cfg.modules : i < n =>
         /\ cfg.modules[i].path \in DOMAIN Disk
         /\ cfg.modules[i].size = Disk[cfg.modules[i].path].size
         /\ cfg.modules[i].addr + cfg.modules[i].size <= addr
         /\ Sound => ModuleIn(mem, cfg.modules[i])
    /\ Sound =>
         /\ LBootIn(mem) /\ MiB <= addr
         /\ \A i \in Loadable :
              SegmentIn(mem, cfg.kernel, Phdrs[i]) /\ SegEnd(Phdrs[i]) <= addr

IInv ==
  /\ DOMAIN mem = 0 .. MemTop - 1
  /\ Configured /\ Started /\ Loading /\ Appending

LEMMA InitIInv == Init => IInv
<1> SUFFICES ASSUME Init PROVE IInv
  OBVIOUS
<1>1. /\ pc = "config" /\ n = 1 /\ data_end = 0
      /\ cfg = [kernel |-> NULL, cmdline |-> NULL, modules |-> <<>>]
      /\ mem = [a \in 0 .. MemTop - 1 |-> Holds(IF a < MiB THEN "lboot" ELSE "free", 0)]
  BY DEF Init, LInit
<1>2. LBootIn(mem) /\ DOMAIN mem = 0 .. MemTop - 1
  BY <1>1 DEF LBootIn, Holds
<1>3. Listed(<<>>)
  BY EmptySeq DEF Listed
<1>4. Configured
  BY <1>1, <1>3 DEF Configured, Booting
<1> QED BY <1>1, <1>2, <1>4 DEF IInv, Started, Loading, Appending, Booting

------------------------------------------------------------------------------
(* A step that leaves the kernel's memory and the list of modules alone.   *)
LEMMA NothingMoved ==
  ASSUME IInv, UNCHANGED <<cfg, mem, n, addr, data_end>>,
         \/ pc' \in {"panic", "wrecked"}
         \/ pc \in Starting /\ pc' \in Starting \ {"prepare"}
         \/ pc = "kernel" /\ pc' = "prepare" /\ cfg.kernel \in DOMAIN Disk
         \/ pc = "modules" /\ n > Len(cfg.modules) /\ pc' \in Booting
         \/ pc \in Booting /\ pc' \in Booting
         \/ pc' = pc
  PROVE  IInv'
<1>1. Sound' = Sound /\ Loadable' = Loadable /\ Phdrs' = Phdrs
  BY DEF Sound, Loadable, Phdrs, Kernel
<1>2. Configured'
  BY DEF IInv, Configured, Starting, Booting
<1>3. Started'
  BY DEF IInv, Started, Starting, Booting
<1>4. Loading'
  BY <1>1 DEF IInv, Loading, Starting, Booting
<1>5. Appending'
  BY <1>1 DEF IInv, Appending, Starting, Booting
<1> QED BY <1>2, <1>3, <1>4, <1>5 DEF IInv

LEMMA StartStep ==
  ASSUME IInv, LoadConfig \/ _get_line \/ ConfigLoaded \/ exec_open \/ LoadFails
  PROVE  IInv'
<1>1. CASE LoadConfig
  BY <1>1, NothingMoved DEF LoadConfig, panic, exec, Starting
<1>2. CASE _get_line
  BY <1>2, NothingMoved DEF _get_line, exec, Starting
<1>3. CASE ConfigLoaded
  BY <1>3, NothingMoved DEF ConfigLoaded, exec, Starting
<1>4. CASE exec_open
  BY <1>4, NothingMoved DEF exec_open, panic, exec
<1>5. CASE LoadFails
  BY <1>5, NothingMoved DEF LoadFails, panic, exec
<1> QED BY <1>1, <1>2, <1>3, <1>4, <1>5

(* A line of the configuration adds a module at most. *)
LEMMA AppendListed ==
  ASSUME NEW ms, Listed(ms), NEW v
  PROVE  Listed(Append(ms, Module(v)))
<1>1. PICK S : ms \in Seq([path : S, addr : Nat, size : Nat])
  BY DEF Listed
<1> DEFINE M == [path : S, addr : Nat, size : Nat]
           W == [path : S \cup {v}, addr : Nat, size : Nat]
<1>2. M \subseteq W
  OBVIOUS
<1>3. Module(v) \in W
  BY DEF Module
<1>4. ms \in Seq(M)
  BY <1>1
<1> HIDE DEF M, W
<1>5. ms \in Seq(W)
  BY <1>2, <1>4, SeqMonotonic
<1>6. Append(ms, Module(v)) \in Seq(W)
  BY <1>3, <1>5
<1> QED BY <1>6 DEF Listed, W

LEMMA ParseStep ==
  ASSUME IInv, ParseKey
  PROVE  IInv'
<1>1. /\ pc = "key" /\ UNCHANGED <<mem, n, addr, data_end>>
      /\ pc' \in {"line", "parsed", "refused"}
      /\ \/ cfg' = cfg
         \/ \E q, v : cfg' = Assigned(q, v)
  BY DEF ParseKey, NextLine, exec
<1>2. CASE cfg' = cfg
  BY <1>1, <1>2, NothingMoved DEF Starting
<1>3. ASSUME NEW q, NEW v, cfg' = Assigned(q, v) PROVE IInv'
  <2>1. /\ cfg = [kernel |-> cfg.kernel, cmdline |-> cfg.cmdline, modules |-> cfg.modules]
        /\ Listed(cfg.modules)
    BY DEF IInv, Configured
  <2>2. \/ cfg' = cfg \/ cfg' = [cfg EXCEPT !.kernel = v]
        \/ cfg' = [cfg EXCEPT !.cmdline = v]
        \/ cfg' = [cfg EXCEPT !.modules = Append(cfg.modules, Module(v))]
    BY <1>3 DEF Assigned
  <2>3. /\ cfg' = [kernel |-> cfg'.kernel, cmdline |-> cfg'.cmdline, modules |-> cfg'.modules]
        /\ \/ cfg'.modules = cfg.modules
           \/ cfg'.modules = Append(cfg.modules, Module(v))
    <3> DEFINE k == cfg.kernel
               c == cfg.cmdline
               ms == cfg.modules
               am == Append(ms, Module(v))
    <3>1. cfg = [kernel |-> k, cmdline |-> c, modules |-> ms]
      BY <2>1
    <3>2. \/ cfg' = cfg \/ cfg' = [cfg EXCEPT !.kernel = v]
          \/ cfg' = [cfg EXCEPT !.cmdline = v] \/ cfg' = [cfg EXCEPT !.modules = am]
      BY <2>2
    <3> HIDE DEF k, c, am
    <3>3. \/ cfg' = [kernel |-> k, cmdline |-> c, modules |-> ms]
          \/ cfg' = [kernel |-> v, cmdline |-> c, modules |-> ms]
          \/ cfg' = [kernel |-> k, cmdline |-> v, modules |-> ms]
          \/ cfg' = [kernel |-> k, cmdline |-> c, modules |-> am]
      BY <3>1, <3>2
    <3>4. /\ cfg' = [kernel |-> cfg'.kernel, cmdline |-> cfg'.cmdline, modules |-> cfg'.modules]
          /\ cfg'.modules = ms \/ cfg'.modules = am
      BY <3>3
    <3> QED BY <3>4 DEF am
  <2>4. Listed(cfg'.modules)
    BY <2>1, <2>3, AppendListed
  <2>5. Configured'
    BY <1>1, <2>3, <2>4 DEF Configured, Booting
  <2> QED BY <1>1, <2>5 DEF IInv, Started, Loading, Appending, Starting, Booting
<1> QED BY <1>1, <1>2, <1>3

------------------------------------------------------------------------------
(***************************************************************************)
(* The kernel's segments.                                                  *)
(***************************************************************************)
LEMMA PhdrTypes ==
  ASSUME cfg.kernel \in DOMAIN Disk
  PROVE  /\ Len(Phdrs) \in Nat /\ DOMAIN Phdrs = 1 .. Len(Phdrs)
         /\ \A i \in DOMAIN Phdrs :
              /\ Phdrs[i].paddr \in Nat /\ Phdrs[i].filesz \in Nat
              /\ Phdrs[i].memsz \in Nat
<1> DEFINE ph == Disk[cfg.kernel].elf.phdrs
           S == {ph[i] : i \in DOMAIN ph}
<1>1. /\ ph \in Seq(S)
      /\ \A i \in DOMAIN ph : ph[i].paddr \in Nat /\ ph[i].filesz \in Nat /\ ph[i].memsz \in Nat
  BY DiskAssumption
<1>2. Phdrs = ph
  BY DEF Phdrs, Kernel
<1> HIDE DEF ph, S
<1>3. Len(ph) \in Nat /\ DOMAIN ph = 1 .. Len(ph)
  BY <1>1, LenProperties
<1> QED BY <1>1, <1>2, <1>3

LEMMA LoadableIs == Loadable \subseteq DOMAIN Phdrs
BY DEF Loadable, Phdrs

LEMMA PrepareStep ==
  ASSUME IInv, _elf_prepare
  PROVE  IInv'
<1>1. /\ pc = "prepare" /\ pc' = "load" /\ UNCHANGED <<cfg, mem, n, addr, data_end>>
      \/ panic
  BY DEF _elf_prepare, exec
<1>2. CASE panic
  BY <1>2, NothingMoved DEF panic, exec
<1>3. CASE pc = "prepare" /\ pc' = "load" /\ UNCHANGED <<cfg, mem, n, addr, data_end>>
  <2>1. n = 1 /\ data_end = 0 /\ LBootIn(mem) /\ cfg.kernel \in DOMAIN Disk
    BY <1>3 DEF IInv, Started, Configured, Starting
  <2>2. \A i \in Loadable : ~(i < 1)
    BY <2>1, LoadableIs, PhdrTypes
  <2>3. Loadable' = Loadable
    BY <1>3 DEF Loadable, Kernel
  <2>4. Loading'
    BY <1>3, <2>1, <2>2, <2>3 DEF Loading
  <2>5. Configured'
    BY <1>3, <2>1 DEF IInv, Configured
  <2> QED BY <1>3, <2>4, <2>5 DEF IInv, Started, Appending, Starting, Booting
<1> QED BY <1>1, <1>2, <1>3

(* What Filled does to memory: nothing outside the bytes it is given. *)
LEMMA FilledIs ==
  ASSUME DOMAIN mem = 0 .. MemTop - 1, NEW a \in Nat, NEW len \in Nat,
         NEW bytes, DOMAIN bytes = 0 .. len - 1
  PROVE  LET w == Filled(a, bytes)
         IN  /\ DOMAIN w = 0 .. MemTop - 1
             /\ \A b \in 0 .. MemTop - 1 : b < a \/ b >= a + len => w[b] = mem[b]
             /\ \A k \in 0 .. len - 1 : a + k < MemTop => w[a + k] = bytes[k]
<1> DEFINE w == Filled(a, bytes)
<1>1. /\ DOMAIN w = 0 .. MemTop - 1
      /\ \A b \in 0 .. MemTop - 1 :
           w[b] = IF b - a \in 0 .. len - 1 THEN bytes[b - a] ELSE mem[b]
  BY DEF Filled
<1> HIDE DEF w
<1>2. \A b \in 0 .. MemTop - 1 : b < a \/ b >= a + len => w[b] = mem[b]
  BY <1>1
<1>3. ASSUME NEW k \in 0 .. len - 1, a + k < MemTop PROVE w[a + k] = bytes[k]
  <2> DEFINE b == a + k
  <2>1. b \in 0 .. MemTop - 1 /\ b - a = k
    BY <1>3
  <2>2. w[b] = bytes[b - a]
    BY <1>1, <2>1
  <2> QED BY <2>1, <2>2
<1> QED BY <1>1, <1>2, <1>3 DEF w

(* What lies below it or apart from it stays. *)
Same(w, v, a, len) ==
  \A b \in 0 .. MemTop - 1 : b < a \/ b >= a + len => w[b] = v[b]

LEMMA LBootKept ==
  ASSUME NEW v, NEW w, NEW a \in Nat, NEW len \in Nat, Same(w, v, a, len),
         MiB <= a, LBootIn(v)
  PROVE  LBootIn(w)
BY DEF Same, LBootIn

LEMMA SegmentKept ==
  ASSUME NEW v, NEW w, NEW a \in Nat, NEW len \in Nat, Same(w, v, a, len),
         NEW f, NEW p, p.paddr \in Nat, p.memsz \in Nat,
         \A k \in 0 .. p.memsz - 1 : p.paddr + k < a \/ p.paddr + k >= a + len,
         SegmentIn(v, f, p)
  PROVE  SegmentIn(w, f, p)
<1> DEFINE t == p.paddr
           l == p.memsz
<1>1. t \in Nat /\ l \in Nat
  OBVIOUS
<1> SUFFICES ASSUME NEW k \in 0 .. l - 1, t + k < MemTop
             PROVE  w[t + k] = IF k < p.filesz THEN Holds(f, p.offset + k) ELSE Holds("zero", 0)
  BY DEF SegmentIn
<1> DEFINE b == t + k
<1>2. v[b] = IF k < p.filesz THEN Holds(f, p.offset + k) ELSE Holds("zero", 0)
  BY DEF SegmentIn
<1>3. b < a \/ b >= a + len
  OBVIOUS
<1>4. b \in 0 .. MemTop - 1
  BY <1>1
<1> HIDE DEF b, t, l
<1>5. w[b] = v[b]
  BY <1>3, <1>4 DEF Same
<1> QED BY <1>2, <1>5 DEF b

LEMMA ModuleKept ==
  ASSUME NEW v, NEW w, NEW a \in Nat, NEW len \in Nat, Same(w, v, a, len),
         NEW m, m.addr \in Nat, m.size \in Nat, m.addr + m.size <= a, ModuleIn(v, m)
  PROVE  ModuleIn(w, m)
<1> DEFINE t == m.addr
           l == m.size
<1>1. t \in Nat /\ l \in Nat /\ t + l <= a
  OBVIOUS
<1> SUFFICES ASSUME NEW k \in 0 .. l - 1, t + k < MemTop
             PROVE  w[t + k] = Holds(m.path, k)
  BY DEF ModuleIn
<1> DEFINE b == t + k
<1>2. v[b] = Holds(m.path, k)
  BY DEF ModuleIn
<1> HIDE DEF t, l
<1>3. b \in 0 .. MemTop - 1 /\ b < a
  BY <1>1
<1> HIDE DEF b
<1>4. w[b] = v[b]
  BY <1>3 DEF Same
<1> QED BY <1>2, <1>4 DEF b

LEMMA ModulesType ==
  ASSUME Configured
  PROVE  /\ Len(cfg.modules) \in Nat /\ DOMAIN cfg.modules = 1 .. Len(cfg.modules)
         /\ \A i \in DOMAIN cfg.modules :
              cfg.modules[i].addr \in Nat /\ cfg.modules[i].size \in Nat
<1> DEFINE ms == cfg.modules
<1>1. PICK S : ms \in Seq([path : S, addr : Nat, size : Nat])
  BY DEF Configured, Listed
<1> DEFINE M == [path : S, addr : Nat, size : Nat]
<1>2. \A m \in M : m.addr \in Nat /\ m.size \in Nat
  OBVIOUS
<1>3. ms \in Seq(M)
  BY <1>1
<1> HIDE DEF M, ms
<1>4. Len(ms) \in Nat /\ DOMAIN ms = 1 .. Len(ms) /\ \A i \in 1 .. Len(ms) : ms[i] \in M
  BY <1>3, LenProperties, ElementOfSeq
<1> QED BY <1>2, <1>4 DEF ms

(* One segment more is loaded; the others are apart from it.               *)
LEMMA SegmentStep ==
  ASSUME IInv, pc = "load", n \in Loadable, LoadSegment(Phdrs[n]),
         n' = n + 1, pc' = pc, cfg' = cfg
  PROVE  IInv'
<1> DEFINE p == Phdrs[n]
           a == p.paddr
           len == Extent(p)
           f == cfg.kernel
<1>1. /\ cfg.kernel \in DOMAIN Disk /\ DOMAIN mem = 0 .. MemTop - 1 /\ Configured
      /\ n \in Nat /\ data_end \in Nat
      /\ Sound => /\ LBootIn(mem)
                  /\ \A i \in Loadable : i < n =>
                       SegmentIn(mem, f, Phdrs[i]) /\ SegEnd(Phdrs[i]) <= data_end
  BY DEF IInv, Configured, Loading
<1>2. \A i \in Loadable : /\ Phdrs[i].paddr \in Nat /\ Phdrs[i].memsz \in Nat
                          /\ Phdrs[i].filesz \in Nat /\ i \in Nat
  BY <1>1, PhdrTypes, LoadableIs
<1>3. a \in Nat /\ p.memsz \in Nat /\ p.filesz \in Nat /\ len \in Nat /\ p.memsz <= len
  BY <1>2 DEF Extent
<1> DEFINE bytes == [k \in 0 .. len - 1 |->
                      IF k < p.filesz THEN Holds(f, p.offset + k) ELSE Holds("zero", 0)]
<1>4. /\ mem' = Filled(a, bytes) /\ DOMAIN bytes = 0 .. len - 1
      /\ data_end' = IF SegEnd(p) > data_end THEN SegEnd(p) ELSE data_end
  BY DEF LoadSegment
<1>5. SegEnd(p) = a + p.memsz
  BY DEF SegEnd
<1> HIDE DEF bytes, len, a
<1>6. /\ DOMAIN mem' = 0 .. MemTop - 1 /\ Same(mem', mem, a, len)
      /\ \A k \in 0 .. len - 1 : a + k < MemTop => mem'[a + k] = bytes[k]
  BY <1>1, <1>3, <1>4, FilledIs DEF Same
<1>7. SegmentIn(mem', f, p)
  <2> SUFFICES ASSUME NEW k \in 0 .. p.memsz - 1, a + k < MemTop
               PROVE  mem'[a + k] = IF k < p.filesz THEN Holds(f, p.offset + k)
                                    ELSE Holds("zero", 0)
    BY DEF SegmentIn, a
  <2>1. k \in 0 .. len - 1
    BY <1>3
  <2>2. bytes[k] = IF k < p.filesz THEN Holds(f, p.offset + k) ELSE Holds("zero", 0)
    BY <2>1 DEF bytes
  <2> QED BY <1>6, <2>1, <2>2
<1>8. data_end' \in Nat /\ data_end <= data_end' /\ SegEnd(p) <= data_end'
  BY <1>1, <1>3, <1>4, <1>5, SMTT(60)
<1>9. ASSUME Sound
      PROVE  /\ LBootIn(mem')
             /\ \A i \in Loadable : i < n + 1 =>
                  SegmentIn(mem', f, Phdrs[i]) /\ SegEnd(Phdrs[i]) <= data_end'
  <2>1. MiB <= a
    BY <1>9 DEF Sound, Phdrs, a
  <2>2. LBootIn(mem')
    BY <1>1, <1>3, <1>6, <1>9, <2>1, LBootKept
  <2>3. ASSUME NEW i \in Loadable, i < n
        PROVE  SegmentIn(mem', f, Phdrs[i]) /\ SegEnd(Phdrs[i]) <= data_end'
    <3> DEFINE q == Phdrs[i]
    <3>1. SegmentIn(mem, f, q) /\ SegEnd(q) <= data_end
      BY <1>1, <1>9, <2>3
    <3>2. q.paddr \in Nat /\ q.memsz \in Nat /\ q.filesz \in Nat /\ SegEnd(q) \in Nat
      BY <1>2 DEF SegEnd
    <3>3. Segment(q) \cap Segment(p) = {}
      BY <1>2, <1>9, <2>3 DEF Sound, Phdrs
    <3>4. \A k \in 0 .. q.memsz - 1 : q.paddr + k < a \/ q.paddr + k >= a + len
      <4> SUFFICES ASSUME NEW k \in 0 .. q.memsz - 1
                   PROVE  q.paddr + k < a \/ q.paddr + k >= a + len
        OBVIOUS
      <4> DEFINE b == q.paddr + k
      <4>1. b \in Segment(q) /\ b \in Int
        BY <3>2 DEF Segment, Extent
      <4>2. b \notin Segment(p)
        BY <3>3, <4>1
      <4>3. Segment(p) = a .. a + len - 1
        BY DEF Segment, a, len
      <4> HIDE DEF b
      <4>4. b < a \/ b >= a + len
        BY <1>3, <4>1, <4>2, <4>3
      <4> QED BY <4>4 DEF b
    <3> HIDE DEF q
    <3>5. SegmentIn(mem', f, q)
      BY <1>3, <1>6, <3>1, <3>2, <3>4, SegmentKept
    <3>6. SegEnd(q) <= data_end'
      BY <1>1, <1>8, <3>1, <3>2
    <3> QED BY <3>5, <3>6 DEF q
  <2>4. \A i \in Loadable : i < n + 1 => i < n \/ i = n
    BY <1>1, <1>2
  <2> QED BY <1>7, <1>8, <2>2, <2>3, <2>4
<1>10. Sound' = Sound /\ Loadable' = Loadable /\ Phdrs' = Phdrs
  BY DEF Sound, Loadable, Phdrs, Kernel
<1>11. Loading'
  <2>1. n' \in Nat
    BY <1>1
  <2> QED BY <1>8, <1>9, <1>10, <2>1 DEF Loading
<1>12. Configured'
  BY <1>1 DEF Configured
<1> QED BY <1>6, <1>11, <1>12 DEF IInv, Started, Appending, Starting, Booting

LEMMA LoadStep ==
  ASSUME IInv, _elf_load_phdr
  PROVE  IInv'
<1>1. /\ pc = "load" /\ cfg' = cfg /\ cfg.kernel \in DOMAIN Disk /\ Configured
      /\ DOMAIN mem = 0 .. MemTop - 1 /\ n \in Nat /\ data_end \in Nat
      /\ Sound => /\ LBootIn(mem)
                  /\ \A i \in Loadable : i < n =>
                       SegmentIn(mem, cfg.kernel, Phdrs[i]) /\ SegEnd(Phdrs[i]) <= data_end
  BY DEF _elf_load_phdr, IInv, Configured, Loading
<1>2. Sound' = Sound /\ Loadable' = Loadable /\ Phdrs' = Phdrs
  BY <1>1 DEF Sound, Loadable, Phdrs, Kernel
<1>3. \A i \in Loadable : /\ i \in 1 .. Len(Phdrs) /\ Len(Phdrs) \in Nat
                          /\ Phdrs[i].paddr \in Nat /\ Phdrs[i].memsz \in Nat
  BY <1>1, PhdrTypes, LoadableIs
<1>4. CASE n > Len(Phdrs)
  <2>1. /\ pc' = "modules" /\ n' = 1 /\ addr' = data_end
        /\ data_end' = data_end /\ mem' = mem
    BY <1>1, <1>4, PhdrTypes DEF _elf_load_phdr, Phdrs
  <2>2. \A i \in Loadable : i < n
    BY <1>1, <1>3, <1>4
  <2>3. Sound => MiB <= data_end
    <3> SUFFICES ASSUME Sound PROVE MiB <= data_end
      OBVIOUS
    <3>1. PICK i \in Loadable : TRUE
      BY DEF Sound
    <3>2. MiB <= Phdrs[i].paddr
      BY DEF Sound, Phdrs
    <3>3. Phdrs[i].paddr + Phdrs[i].memsz <= data_end
      BY <1>1, <2>2 DEF SegEnd
    <3> QED BY <1>1, <1>3, <3>2, <3>3
  <2>4. \A i \in DOMAIN cfg.modules : ~(i < 1)
    BY <1>1, ModulesType
  <2>5. Appending'
    BY <1>1, <1>2, <2>1, <2>2, <2>3, <2>4 DEF Appending
  <2>6. Configured'
    BY <1>1, <2>1 DEF Configured
  <2> QED BY <1>1, <2>1, <2>5, <2>6 DEF IInv, Started, Loading, Starting
<1>5. CASE ~(n > Len(Phdrs)) /\ n \notin Loadable
  <2>1. pc' = "load" /\ n' = n + 1 /\ data_end' = data_end /\ mem' = mem
    BY <1>1, <1>5, PhdrTypes DEF _elf_load_phdr, Phdrs
  <2>2. \A i \in Loadable : i < n + 1 => i < n
    BY <1>1, <1>3, <1>5
  <2>3. n + 1 \in Nat
    BY <1>1
  <2>4. Loading'
    BY <1>1, <1>2, <2>1, <2>2, <2>3 DEF Loading
  <2>5. Configured'
    BY <1>1, <2>1 DEF Configured
  <2> QED BY <1>1, <2>1, <2>4, <2>5 DEF IInv, Started, Appending, Starting, Booting
<1>6. CASE ~(n > Len(Phdrs)) /\ n \in Loadable
  <2>1. pc' = pc /\ n' = n + 1 /\ LoadSegment(Phdrs[n])
    BY <1>1, <1>6, PhdrTypes DEF _elf_load_phdr, Phdrs
  <2> QED BY <1>1, <1>6, <2>1, SegmentStep
<1> QED BY <1>4, <1>5, <1>6

------------------------------------------------------------------------------
(***************************************************************************)
(* The modules, and the kernel's entry.                                    *)
(***************************************************************************)
LEMMA AlignIs ==
  ASSUME NEW x \in Nat
  PROVE  ALIGN(x, 2) \in Nat /\ x <= ALIGN(x, 2)
<1>1. x % 2 \in 0 .. 1
  OBVIOUS
<1> QED BY <1>1 DEF ALIGN

(* A module in the list is given its address and size. *)
LEMMA GivenAddr ==
  ASSUME NEW x, NEW y, NEW z, NEW a,
         NEW r, r = [path |-> x, addr |-> y, size |-> z]
  PROVE  [r EXCEPT !.addr = a] = [path |-> x, addr |-> a, size |-> z]
OBVIOUS

LEMMA GivenSize ==
  ASSUME NEW x, NEW y, NEW z, NEW a,
         NEW r, r = [path |-> x, addr |-> y, size |-> z]
  PROVE  [r EXCEPT !.size = a] = [path |-> x, addr |-> y, size |-> a]
OBVIOUS

Given(ms, i, a, len) == [ms EXCEPT ![i].addr = a, ![i].size = len]

LEMMA GivenListed ==
  ASSUME NEW ms, Listed(ms), NEW i \in DOMAIN ms, NEW a \in Nat, NEW len \in Nat,
         NEW ns, ns = Given(ms, i, a, len)
  PROVE  /\ Listed(ns) /\ DOMAIN ns = DOMAIN ms /\ Len(ns) = Len(ms)
         /\ ns[i] = [path |-> ms[i].path, addr |-> a, size |-> len]
         /\ \A j \in DOMAIN ms \ {i} : ns[j] = ms[j]
<1>1. PICK S : ms \in Seq([path : S, addr : Nat, size : Nat])
  BY DEF Listed
<1>2. PICK r : r = ms[i]
  OBVIOUS
<1> DEFINE M == [path : S, addr : Nat, size : Nat]
           m == [path |-> r.path, addr |-> a, size |-> len]
<1>3. /\ ms \in Seq(M) /\ Len(ms) \in Nat /\ DOMAIN ms = 1 .. Len(ms)
      /\ r \in M
  <2>1. ms \in Seq(M)
    BY <1>1
  <2> HIDE DEF M
  <2>2. Len(ms) \in Nat /\ DOMAIN ms = 1 .. Len(ms)
    BY <2>1, LenProperties
  <2>3. r \in M
    BY <1>2, <2>1, <2>2, ElementOfSeq
  <2> QED BY <2>1, <2>2, <2>3
<1>4. m \in M
  BY <1>3
<1>5. ns = [ms EXCEPT ![i] = m]
  <2>1. PICK y : y = [r EXCEPT !.addr = a]
    OBVIOUS
  <2>2. PICK w : w = [ms EXCEPT ![i] = y]
    OBVIOUS
  <2>3. w[i] = y
    BY <2>2
  <2>4. ns = [w EXCEPT ![i] = [w[i] EXCEPT !.size = len]]
    BY <1>2, <2>1, <2>2, Zenon DEF Given
  <2>5. PICK p, b, l : r = [path |-> p, addr |-> b, size |-> l]
    BY <1>3
  <2>6. [y EXCEPT !.size = len] = [path |-> p, addr |-> a, size |-> len]
    <3>1. y = [path |-> p, addr |-> a, size |-> l]
      BY <2>1, <2>5, GivenAddr, Zenon
    <3> QED BY <3>1, GivenSize
  <2>7. r.path = p
    BY <2>5
  <2>8. [y EXCEPT !.size = len] = m
    BY <2>6, <2>7, Zenon
  <2>9. ns = [w EXCEPT ![i] = m]
    BY <2>3, <2>4, <2>8, Zenon
  <2> HIDE DEF m
  <2> QED BY <2>2, <2>9
<1> HIDE DEF M, m
<1>6. ns \in Seq(M) /\ Len(ns) = Len(ms)
  <2>1. i \in 1 .. Len(ms) /\ m \in M
    BY <1>3, <1>4
  <2>2. [ms EXCEPT ![i] = m] \in Seq(M) /\ Len([ms EXCEPT ![i] = m]) = Len(ms)
    BY <1>3, <2>1, ExceptSeq
  <2> QED BY <1>5, <2>2
<1>7. DOMAIN ns = DOMAIN ms /\ ns[i] = m /\ \A j \in DOMAIN ms \ {i} : ns[j] = ms[j]
  BY <1>3, <1>5
<1>8. Listed(ns)
  BY <1>6 DEF Listed, M
<1> QED BY <1>2, <1>6, <1>7, <1>8 DEF m

LEMMA SetModules ==
  ASSUME NEW f, NEW l, NEW ms, NEW ns,
         NEW c, c = [kernel |-> f, cmdline |-> l, modules |-> ms]
  PROVE  [c EXCEPT !.modules = ns] = [kernel |-> f, cmdline |-> l, modules |-> ns]
OBVIOUS

GivenIn(c, i, a, len) == [c EXCEPT !.modules[i].addr = a, !.modules[i].size = len]

LEMMA GivenModules ==
  ASSUME NEW f, NEW l, NEW ms, NEW i, NEW a, NEW len,
         NEW c, c = [kernel |-> f, cmdline |-> l, modules |-> ms],
         NEW d, d = GivenIn(c, i, a, len),
         NEW ns, ns = Given(ms, i, a, len)
  PROVE  d = [kernel |-> f, cmdline |-> l, modules |-> ns]
<1>1. c.modules = ms
  OBVIOUS
<1>2. PICK m1 : m1 = [ms EXCEPT ![i] = [ms[i] EXCEPT !.addr = a]]
  OBVIOUS
<1>3. PICK e : e = [c EXCEPT !.modules = m1]
  OBVIOUS
<1>4. e = [kernel |-> f, cmdline |-> l, modules |-> m1]
  BY <1>3, SetModules
<1>5. e.modules = m1
  BY <1>4
<1>6. d = [e EXCEPT !.modules = [m1 EXCEPT ![i] = [m1[i] EXCEPT !.size = len]]]
  BY <1>1, <1>2, <1>3, <1>5, Zenon DEF GivenIn
<1>7. ns = [m1 EXCEPT ![i] = [m1[i] EXCEPT !.size = len]]
  BY <1>2, Zenon DEF Given
<1>8. d = [e EXCEPT !.modules = ns]
  BY <1>6, <1>7, Zenon
<1> QED BY <1>4, <1>8, SetModules

(* The module loaded is given its address and size, and nothing else.      *)
LEMMA ModuleGiven ==
  ASSUME IInv, _exec_load_modules,
         NEW ms, ms = cfg.modules, NEW path, path = ms[n].path,
         NEW a, a = ALIGN(addr, 2), NEW len, len = Disk[path].size
  PROVE  /\ n \in DOMAIN ms /\ a \in Nat /\ addr <= a /\ len \in Nat /\ path \in DOMAIN Disk
         /\ \E ns : /\ cfg' = [kernel |-> cfg.kernel, cmdline |-> cfg.cmdline, modules |-> ns]
                    /\ Listed(ns) /\ DOMAIN ns = DOMAIN ms /\ Len(ns) = Len(ms)
                    /\ ns[n] = [path |-> path, addr |-> a, size |-> len]
                    /\ \A j \in DOMAIN ms \ {n} : ns[j] = ms[j]
<1>1. PICK f, l : f = cfg.kernel /\ l = cfg.cmdline
  OBVIOUS
<1>2. pc = "modules" /\ n <= Len(ms) /\ path \in DOMAIN Disk
  BY DEF _exec_load_modules
<1>3. cfg' = GivenIn(cfg, n, a, len)
  BY Zenon DEF _exec_load_modules, GivenIn
<1>4. /\ n \in Nat \ {0} /\ addr \in Nat /\ Configured
      /\ cfg = [kernel |-> f, cmdline |-> l, modules |-> ms] /\ Listed(ms)
  BY <1>1, <1>2 DEF IInv, Configured, Appending
<1>5. len \in Nat
  BY <1>2, DiskAssumption
<1>6. a \in Nat /\ addr <= a
  BY <1>4, AlignIs
<1>7. n \in DOMAIN ms
  BY <1>2, <1>4, ModulesType
<1>8. PICK ns : ns = Given(ms, n, a, len)
  OBVIOUS
<1>9. PICK i : i = n
  OBVIOUS
<1>10. cfg' = [kernel |-> f, cmdline |-> l, modules |-> ns]
  <2>1. cfg' = GivenIn(cfg, i, a, len) /\ ns = Given(ms, i, a, len)
    BY <1>3, <1>8, <1>9
  <2> QED BY <1>4, <2>1, GivenModules
<1>11. /\ Listed(ns) /\ DOMAIN ns = DOMAIN ms /\ Len(ns) = Len(ms)
       /\ ns[i] = [path |-> ms[i].path, addr |-> a, size |-> len]
       /\ \A j \in DOMAIN ms \ {i} : ns[j] = ms[j]
  <2>1. i \in DOMAIN ms /\ ns = Given(ms, i, a, len)
    BY <1>7, <1>8, <1>9
  <2> QED BY <1>4, <1>5, <1>6, <2>1, GivenListed, SMTT(60)
<1> QED BY <1>1, <1>2, <1>5, <1>6, <1>7, <1>9, <1>10, <1>11

LEMMA ModulesStep ==
  ASSUME IInv, _exec_load_modules
  PROVE  IInv'
<1>1. PICK ms, f, l, path, a, len :
        /\ ms = cfg.modules /\ f = cfg.kernel /\ l = cfg.cmdline
        /\ path = ms[n].path /\ a = ALIGN(addr, 2) /\ len = Disk[path].size
  OBVIOUS
<1> DEFINE bytes == [k \in 0 .. len - 1 |-> Holds(path, k)]
<1>2. /\ pc = "modules" /\ pc' = "modules" /\ n <= Len(ms) /\ n' = n + 1
      /\ path \in DOMAIN Disk /\ mem' = Filled(a, bytes) /\ addr' = a + len
  BY <1>1 DEF _exec_load_modules
<1>3. cfg' = GivenIn(cfg, n, a, len)
  BY <1>1, Zenon DEF _exec_load_modules, GivenIn
<1>4. /\ DOMAIN mem = 0 .. MemTop - 1 /\ Configured /\ n \in Nat \ {0} /\ addr \in Nat
      /\ cfg = [kernel |-> f, cmdline |-> l, modules |-> ms]
      /\ Listed(ms) /\ f \in DOMAIN Disk
  BY <1>1, <1>2 DEF IInv, Configured, Appending
<1>5. len \in Nat
  BY <1>1, <1>2, DiskAssumption
<1>6. a \in Nat /\ addr <= a
  BY <1>1, <1>4, AlignIs
<1>7. /\ Len(ms) \in Nat /\ DOMAIN ms = 1 .. Len(ms)
      /\ \A i \in DOMAIN ms : ms[i].addr \in Nat /\ ms[i].size \in Nat
  BY <1>1, <1>4, ModulesType
<1>8. n \in DOMAIN ms
  BY <1>2, <1>4, <1>7
<1>9. PICK ns : /\ cfg' = [kernel |-> cfg.kernel, cmdline |-> cfg.cmdline, modules |-> ns]
                /\ Listed(ns) /\ DOMAIN ns = DOMAIN ms /\ Len(ns) = Len(ms)
                /\ ns[n] = [path |-> path, addr |-> a, size |-> len]
                /\ \A j \in DOMAIN ms \ {n} : ns[j] = ms[j]
  BY <1>1, ModuleGiven
<1>10. cfg' = [kernel |-> f, cmdline |-> l, modules |-> ns]
  BY <1>1, <1>9
<1>11. cfg'.modules = ns /\ cfg'.kernel = f /\ cfg'.cmdline = l
  BY <1>10
<1>12. /\ Listed(ns) /\ DOMAIN ns = DOMAIN ms /\ Len(ns) = Len(ms)
       /\ ns[n] = [path |-> path, addr |-> a, size |-> len]
       /\ \A j \in DOMAIN ms \ {n} : ns[j] = ms[j]
  BY <1>9
<1>13. Configured'
  BY <1>2, <1>4, <1>10, <1>11, <1>12 DEF Configured, Booting
<1>14. /\ DOMAIN mem' = 0 .. MemTop - 1 /\ Same(mem', mem, a, len)
       /\ \A k \in 0 .. len - 1 : a + k < MemTop => mem'[a + k] = bytes[k]
  <2>1. DOMAIN bytes = 0 .. len - 1
    OBVIOUS
  <2> HIDE DEF bytes
  <2>2. mem' = Filled(a, bytes) /\ DOMAIN mem = 0 .. MemTop - 1
    BY <1>2, <1>4
  <2> QED BY <1>5, <1>6, <2>1, <2>2, FilledIs DEF Same
<1>15. Sound' = Sound /\ Loadable' = Loadable /\ Phdrs' = Phdrs /\ cfg'.kernel = cfg.kernel
  BY <1>1, <1>11 DEF Sound, Loadable, Phdrs, Kernel
<1>16. /\ \A i \in DOMAIN ms : i < n =>
            /\ ms[i].path \in DOMAIN Disk /\ ms[i].size = Disk[ms[i].path].size
            /\ ms[i].addr + ms[i].size <= addr
            /\ Sound => ModuleIn(mem, ms[i])
       /\ Sound => /\ LBootIn(mem) /\ MiB <= addr
                   /\ \A i \in Loadable : SegmentIn(mem, f, Phdrs[i]) /\ SegEnd(Phdrs[i]) <= addr
  BY <1>1, <1>2 DEF IInv, Appending
<1>17. ASSUME NEW i \in DOMAIN ns, i < n + 1
       PROVE  /\ ns[i].path \in DOMAIN Disk /\ ns[i].size = Disk[ns[i].path].size
              /\ ns[i].addr + ns[i].size <= a + len
              /\ Sound => ModuleIn(mem', ns[i])
  <2>1. CASE i = n
    <3>1. ns[i].path = path /\ ns[i].addr = a /\ ns[i].size = len
      BY <1>12, <2>1
    <3>2. \A k \in 0 .. len - 1 : a + k < MemTop => mem'[a + k] = Holds(path, k)
      BY <1>14
    <3>3. ModuleIn(mem', ns[i])
      BY <3>1, <3>2 DEF ModuleIn
    <3> QED BY <1>1, <1>2, <1>5, <1>6, <3>1, <3>3
  <2>2. CASE i # n
    <3>1. i \in DOMAIN ms /\ i < n
      BY <1>4, <1>7, <1>12, <1>17, <2>2
    <3>2. ns[i] = ms[i]
      BY <1>12, <2>2, <3>1
    <3> DEFINE m == ms[i]
    <3>3. /\ m.path \in DOMAIN Disk /\ m.size = Disk[m.path].size
          /\ m.addr + m.size <= addr /\ m.addr \in Nat /\ m.size \in Nat
          /\ Sound => ModuleIn(mem, m)
      BY <1>7, <1>16, <3>1
    <3> HIDE DEF m
    <3>4. m.addr + m.size <= a /\ m.addr + m.size <= a + len
      <4> DEFINE e == m.addr + m.size
      <4>1. e <= addr /\ e \in Nat
        BY <3>3
      <4> HIDE DEF e
      <4>2. e <= a /\ e <= a + len
        BY <1>4, <1>5, <1>6, <4>1
      <4> QED BY <4>2 DEF e
    <3>5. Sound => ModuleIn(mem', m)
      BY <1>5, <1>6, <1>14, <3>3, <3>4, ModuleKept
    <3> QED BY <3>2, <3>3, <3>4, <3>5 DEF m
  <2> QED BY <2>1, <2>2
<1>18. ASSUME Sound
       PROVE  /\ LBootIn(mem') /\ MiB <= a + len
              /\ \A i \in Loadable :
                   SegmentIn(mem', f, Phdrs[i]) /\ SegEnd(Phdrs[i]) <= a + len
  <2>1. MiB <= a /\ MiB <= a + len
    BY <1>4, <1>5, <1>6, <1>16, <1>18
  <2>2. LBootIn(mem')
    BY <1>5, <1>6, <1>14, <1>16, <1>18, <2>1, LBootKept
  <2>3. ASSUME NEW i \in Loadable
        PROVE  SegmentIn(mem', f, Phdrs[i]) /\ SegEnd(Phdrs[i]) <= a + len
    <3> DEFINE q == Phdrs[i]
    <3>1. SegmentIn(mem, f, q) /\ SegEnd(q) <= addr
      BY <1>16, <1>18
    <3>2. q.paddr \in Nat /\ q.memsz \in Nat
      BY <1>1, <1>4, PhdrTypes, LoadableIs
    <3> HIDE DEF q
    <3>3. SegEnd(q) <= a + len /\ SegEnd(q) <= a
      BY <1>4, <1>5, <1>6, <3>1, <3>2 DEF SegEnd
    <3>4. \A k \in 0 .. q.memsz - 1 : q.paddr + k < a
      BY <1>6, <3>2, <3>3 DEF SegEnd
    <3>5. SegmentIn(mem', f, q)
      BY <1>5, <1>6, <1>14, <3>1, <3>2, <3>4, SegmentKept
    <3> QED BY <3>3, <3>5 DEF q
  <2> QED BY <2>1, <2>2, <2>3
<1>19. n' \in Nat \ {0} /\ addr' \in Nat
  BY <1>2, <1>4, <1>5, <1>6
<1>20. Appending'
  <2>1. /\ cfg'.modules = ns /\ cfg'.kernel = f /\ addr' = a + len /\ n' = n + 1
        /\ pc' = "modules"
    BY <1>2, <1>11
  <2> QED BY <1>15, <1>17, <1>18, <1>19, <2>1 DEF Appending
<1> QED BY <1>2, <1>13, <1>14, <1>20 DEF IInv, Started, Loading, Starting

LEMMA DetectStep ==
  ASSUME IInv, _exec_detect_multiboot
  PROVE  IInv'
BY NothingMoved DEF _exec_detect_multiboot, Booting

------------------------------------------------------------------------------
(* What the header asks for is written to the block, which is not part of  *)
(* the memory that is loaded to.                                           *)
LEMMA ParseHeaderStep ==
  ASSUME IInv, multiboot2_parse
  PROVE  IInv'
<1>1. /\ UNCHANGED <<cfg, mem, n, addr, data_end>>
      /\ \/ pc' \in {"panic", "wrecked"}
         \/ pc' = pc
         \/ pc \in Booting /\ pc' \in Booting
  <2>1. CASE Begin
    BY <2>1 DEF Begin, exec, Booting
  <2>2. CASE NextHeaderTag \/ ParseError \/ Overrun \/ Enter
    BY <2>2 DEF NextHeaderTag, ParseError, Overrun, Enter, panic, lvars, exec, Booting
  <2>3. CASE PopCmdline \/ PopName \/ PopMeminfo \/ PopAcpi
    BY <2>3 DEF PopCmdline, PopName, PopMeminfo, PopAcpi, NextRequest, lvars, exec
  <2>4. CASE PopModule
    BY <2>4 DEF PopModule, NextRequest, lvars, exec
  <2>5. CASE PopMmap
    BY <2>5 DEF PopMmap, NextRequest, lvars, exec
  <2> QED BY <2>1, <2>2, <2>3, <2>4, <2>5 DEF multiboot2_parse
<1> QED BY <1>1, NothingMoved

LEMMA NextIInv == IInv /\ [Next]_vars => IInv'
<1> SUFFICES ASSUME IInv, [Next]_vars PROVE IInv'
  OBVIOUS
<1>1. CASE LNext
  BY <1>1, StartStep, ParseStep, PrepareStep, LoadStep, ModulesStep, DetectStep DEF LNext
<1>2. CASE multiboot2_parse
  BY <1>2, ParseHeaderStep
<1>3. CASE UNCHANGED vars
  BY <1>3, NothingMoved DEF vars, lvars, exec
<1> QED BY <1>1, <1>2, <1>3 DEF Next

LEMMA Invariance == Spec => []IInv
BY InitIInv, NextIInv, PTL DEF Spec

------------------------------------------------------------------------------
(* At the kernel's entry there is memory for everything that was loaded.   *)
LEMMA IInvIntact == IInv => LoadedIntact
<1> SUFFICES ASSUME IInv, pc = "entered", Sound, addr <= MemTop PROVE Intact
  BY DEF LoadedIntact
<1>1. /\ n \in Nat \ {0} /\ addr \in Nat /\ n > Len(cfg.modules)
      /\ \A i \in DOMAIN cfg.modules : i < n =>
           /\ cfg.modules[i].size = Disk[cfg.modules[i].path].size
           /\ cfg.modules[i].addr + cfg.modules[i].size <= addr
           /\ ModuleIn(mem, cfg.modules[i])
      /\ LBootIn(mem)
      /\ \A i \in Loadable :
           SegmentIn(mem, cfg.kernel, Phdrs[i]) /\ SegEnd(Phdrs[i]) <= addr
  BY DEF IInv, Appending, Booting
<1>2. cfg.kernel \in DOMAIN Disk /\ Configured
  BY DEF IInv, Configured, Booting
<1>3. ASSUME NEW i \in Loadable, NEW k \in 0 .. Phdrs[i].memsz - 1
      PROVE  mem[Phdrs[i].paddr + k] =
               IF k < Phdrs[i].filesz THEN Holds(cfg.kernel, Phdrs[i].offset + k)
               ELSE Holds("zero", 0)
  <2>1. Phdrs[i].paddr \in Nat /\ Phdrs[i].memsz \in Nat
    BY <1>2, PhdrTypes, LoadableIs
  <2>2. Phdrs[i].paddr + k < MemTop
    BY <1>1, <2>1, SMTT(60) DEF SegEnd
  <2> QED BY <1>1, <2>2 DEF SegmentIn
<1>4. ASSUME NEW i \in DOMAIN cfg.modules
      PROVE  /\ cfg.modules[i].size = Disk[cfg.modules[i].path].size
             /\ \A k \in 0 .. cfg.modules[i].size - 1 :
                  mem[cfg.modules[i].addr + k] = Holds(cfg.modules[i].path, k)
  <2> DEFINE m == cfg.modules[i]
  <2>1. m.addr \in Nat /\ m.size \in Nat /\ i < n
    BY <1>1, <1>2, ModulesType
  <2>2. m.size = Disk[m.path].size /\ m.addr + m.size <= addr /\ ModuleIn(mem, m)
    BY <1>1, <2>1
  <2> HIDE DEF m
  <2>3. \A k \in 0 .. m.size - 1 : m.addr + k < MemTop
    BY <1>1, <2>1, <2>2, SMTT(60)
  <2>4. \A k \in 0 .. m.size - 1 : mem[m.addr + k] = Holds(m.path, k)
    BY <2>2, <2>3 DEF ModuleIn
  <2> QED BY <2>2, <2>4 DEF m
<1> QED BY <1>1, <1>3, <1>4 DEF Intact, LBootIn, Phdrs

(* When the kernel is entered, with memory for what was to be loaded, its  *)
(* segments and all modules lie in memory as they are in their files, none *)
(* over another and none over LBoot: elf.c:118-153 with                    *)
(* exec.c:69-115, for every layout of the segments in which they are apart *)
(* and above 1 MiB, and any number of modules of any size.                 *)
THEOREM EnteredIntact == Spec => []LoadedIntact
BY Invariance, IInvIntact, PTL

------------------------------------------------------------------------------
(***************************************************************************)
(* The configuration is read as it is written, whatever is in the file.    *)
(* LoaderAssumption is cited only where a value's number is asked for.     *)
(***************************************************************************)
HIDE LoaderAssumption

LEMMA Least ==
  ASSUME NEW T, T \subseteq Nat, T # {}
  PROVE  \E i \in T : \A j \in T : i <= j
<1>1. PICK i \in T : \A j \in T : ~ (<<j, i>> \in OpToRel(<, Nat))
  BY NatLessThanWellFounded, WFMin
<1>2. \A j \in T : ~ (j < i)
  BY <1>1 DEF OpToRel
<1> QED BY <1>2

LEMMA Induction ==
  ASSUME NEW S, 0 \in S, \A k \in Nat : k \in S => k + 1 \in S
  PROVE  \A k \in Nat : k \in S
<1> DEFINE T == {k \in Nat : k \notin S}
<1> SUFFICES ASSUME T # {} PROVE FALSE
  OBVIOUS
<1>1. PICK k \in T : \A j \in T : k <= j
  BY Least
<1>2. k # 0 /\ k - 1 \in Nat /\ k - 1 \notin T
  BY <1>1
<1>3. k - 1 \in S /\ (k - 1) + 1 = k
  BY <1>2
<1> QED BY <1>1, <1>2, <1>3

------------------------------------------------------------------------------
(***************************************************************************)
(* What a file says, up to each of its pieces.                             *)
(***************************************************************************)
Adds(t, key, s, i) == IF IsSet(t[i], key) THEN Append(s, t[i].val) ELSE s

Saying(t, key, len, A) ==
  A = [i \in 0 .. len |-> IF i = 0 THEN <<>> ELSE Adds(t, key, A[i - 1], i)]

LEMMA SayingOn ==
  ASSUME NEW t, NEW key, NEW len \in Nat, NEW A, Saying(t, key, len, A)
  PROVE  \E B : Saying(t, key, len + 1, B)
<1> DEFINE x == Adds(t, key, A[len], len + 1)
           B == [j \in 0 .. len + 1 |-> IF j = len + 1 THEN x ELSE A[j]]
<1>0. \A j \in 0 .. len : A[j] = IF j = 0 THEN <<>> ELSE Adds(t, key, A[j - 1], j)
  BY DEF Saying
<1>z. 0 \in 0 .. len
  OBVIOUS
<1>1. A[0] = <<>> /\ \A j \in 0 .. len : j # 0 => A[j] = Adds(t, key, A[j - 1], j)
  BY <1>0, <1>z, Zenon
<1>2. ASSUME NEW j \in 0 .. len + 1
      PROVE  B[j] = IF j = 0 THEN <<>> ELSE Adds(t, key, B[j - 1], j)
  <2>1. CASE j = 0
    BY <1>1, <2>1
  <2>2. CASE j = len + 1
    <3>1. B[j - 1] = A[len]
      BY <2>2
    <3>2. B[j] = x /\ j # 0
      BY <2>2
    <3> QED BY <2>2, <3>1, <3>2
  <2>3. CASE j # 0 /\ j # len + 1
    <3>1. j \in 0 .. len /\ j - 1 \in 0 .. len + 1 /\ j - 1 # len + 1
      BY <2>3
    <3>2. B[j] = A[j] /\ B[j - 1] = A[j - 1]
      BY <2>3, <3>1
    <3> QED BY <1>1, <2>3, <3>1, <3>2
  <2> QED BY <2>1, <2>2, <2>3
<1> DEFINE C == [j \in 0 .. len + 1 |-> IF j = 0 THEN <<>> ELSE Adds(t, key, B[j - 1], j)]
<1>3. B = C
  <2>1. \A j \in 0 .. len + 1 : B[j] = C[j]
    BY <1>2
  <2>2. B = [j \in 0 .. len + 1 |-> B[j]] /\ C = [j \in 0 .. len + 1 |-> C[j]]
    OBVIOUS
  <2> HIDE DEF B, C
  <2> QED BY <2>1, <2>2
<1> QED BY <1>3 DEF Saying

LEMMA SayingExists ==
  ASSUME NEW t, NEW key, NEW len \in Nat
  PROVE  \E A : Saying(t, key, len, A)
<1> DEFINE S == {k \in Nat : \E A : Saying(t, key, k, A)}
<1>1. 0 \in S
  <2> DEFINE A == [j \in 0 .. 0 |-> <<>>]
  <2>1. A = [j \in 0 .. 0 |-> IF j = 0 THEN <<>> ELSE Adds(t, key, A[j - 1], j)]
    OBVIOUS
  <2>2. Saying(t, key, 0, A)
    BY <2>1 DEF Saying
  <2> QED BY <2>2
<1>2. \A k \in Nat : k \in S => k + 1 \in S
  BY SayingOn
<1> HIDE DEF S
<1>3. len \in S
  BY <1>1, <1>2, Induction
<1> QED BY <1>3 DEF S

SaysSo(t, key, len, A) ==
  A[0] = <<>> /\ \A i \in 1 .. len : A[i] = Adds(t, key, A[i - 1], i)

LEMMA SaidIs ==
  ASSUME NEW t, NEW key, NEW len \in Nat, len = Len(t)
  PROVE  SaysSo(t, key, len, SaidTo(t, key))
<1>1. SaidTo(t, key) = CHOOSE A : Saying(t, key, len, A)
  BY Zenon DEF SaidTo, Saying, Adds
<1>2. Saying(t, key, len, SaidTo(t, key))
  BY <1>1, SayingExists
<1>3. PICK A : A = SaidTo(t, key)
  OBVIOUS
<1>4. \A i \in 0 .. len : A[i] = IF i = 0 THEN <<>> ELSE Adds(t, key, A[i - 1], i)
  BY <1>2, <1>3 DEF Saying
<1>5. 0 \in 0 .. len /\ \A i \in 1 .. len : i \in 0 .. len /\ i # 0
  OBVIOUS
<1>6. SaysSo(t, key, len, A)
  BY <1>4, <1>5, Zenon DEF SaysSo
<1> QED BY <1>3, <1>6

(* It is a sequence of values. *)
Vals(t, len) == {t[i].val : i \in 1 .. len}

LEMMA SaidSeq ==
  ASSUME NEW t, NEW key, NEW len \in Nat, NEW A, SaysSo(t, key, len, A),
         NEW i \in 0 .. len
  PROVE  A[i] \in Seq(Vals(t, len))
<1> DEFINE V == Vals(t, len)
           S == {k \in Nat : k <= len => A[k] \in Seq(V)}
<1>1. 0 \in S
  <2>1. A[0] \in Seq(V)
    BY EmptySeq DEF SaysSo
  <2> QED BY <2>1
<1>2. ASSUME NEW k \in Nat, k \in S PROVE k + 1 \in S
  <2> SUFFICES ASSUME k + 1 <= len PROVE A[k + 1] \in Seq(V)
    OBVIOUS
  <2>1. k + 1 \in 1 .. len /\ (k + 1) - 1 = k /\ A[k] \in Seq(V)
    BY <1>2
  <2>2. A[k + 1] = Adds(t, key, A[k], k + 1)
    BY <2>1, Zenon DEF SaysSo
  <2>3. t[k + 1].val \in V
    BY <2>1 DEF Vals
  <2> HIDE DEF V
  <2> QED BY <2>1, <2>2, <2>3 DEF Adds
<1> HIDE DEF S
<1>3. i \in S
  BY <1>1, <1>2, Induction
<1> QED BY <1>3 DEF S

(* Nothing is said where there is no set, and nothing is taken back.       *)
Unset(t, key, i, j) == \A p \in i + 1 .. j : ~IsSet(t[p], key)

LEMMA SaidOn ==
  ASSUME NEW t, NEW key, NEW len \in Nat, NEW A, SaysSo(t, key, len, A),
         NEW i \in 0 .. len, NEW j \in i .. len
  PROVE  Len(A[i]) <= Len(A[j]) /\ (Unset(t, key, i, j) => A[j] = A[i])
<1> DEFINE Q(k) == /\ Len(A[i]) <= Len(A[k])
                   /\ (\A p \in i + 1 .. k : ~IsSet(t[p], key)) => A[k] = A[i]
           S == {d \in Nat : i + d <= len => Q(i + d)}
<1>0. \A k \in 0 .. len : A[k] \in Seq(Vals(t, len))
  BY SaidSeq
<1>1. 0 \in S
  <2>1. i + 0 = i /\ Len(A[i]) \in Nat
    BY <1>0, LenProperties
  <2> QED BY <2>1
<1>2. ASSUME NEW d \in Nat, d \in S PROVE d + 1 \in S
  <2> SUFFICES ASSUME i + (d + 1) <= len PROVE Q(i + (d + 1))
    OBVIOUS
  <2> DEFINE k == i + d
  <2>1. /\ i + (d + 1) = k + 1 /\ k \in Nat /\ k \in 0 .. len /\ k + 1 \in 1 .. len /\ (k + 1) - 1 = k
        /\ k >= i
    OBVIOUS
  <2>2. Q(k)
    BY <1>2
  <2> HIDE DEF k
  <2>3. A[k + 1] = Adds(t, key, A[k], k + 1)
    BY <2>1, Zenon DEF SaysSo
  <2>4. A[k] \in Seq(Vals(t, len)) /\ A[i] \in Seq(Vals(t, len))
    BY <1>0, <2>1
  <2>5. Len(A[i]) \in Nat /\ Len(A[k]) \in Nat /\ Len(A[k]) <= Len(A[k + 1])
    <3>1. Len(Append(A[k], t[k + 1].val)) = Len(A[k]) + 1
      <4>1. t[k + 1].val \in Vals(t, len)
        BY <2>1 DEF Vals
      <4> QED BY <2>4, <4>1, AppendProperties
    <3>2. Len(A[k]) \in Nat /\ Len(A[i]) \in Nat
      BY <2>4, LenProperties
    <3> QED BY <2>3, <3>1, <3>2 DEF Adds
  <2>6. ASSUME \A p \in i + 1 .. k + 1 : ~IsSet(t[p], key) PROVE A[k + 1] = A[i]
    <3>1. \A p \in i + 1 .. k : p \in i + 1 .. k + 1
      BY <2>1
    <3>2. k + 1 \in i + 1 .. k + 1
      BY <2>1
    <3>3. A[k] = A[i] /\ ~IsSet(t[k + 1], key)
      BY <2>2, <2>6, <3>1, <3>2, Zenon
    <3> QED BY <2>3, <3>3, Zenon DEF Adds
  <2>7. Len(A[i]) <= Len(A[k + 1])
    <3>1. Len(A[i]) <= Len(A[k])
      BY <2>2
    <3>2. Len(A[k + 1]) \in Nat
      BY <1>0, <2>1, LenProperties
    <3> QED BY <2>5, <3>1, <3>2
  <2> QED BY <2>1, <2>6, <2>7
<1>3. j - i \in Nat /\ i + (j - i) = j
  OBVIOUS
<1>4. j - i \in S
  <2> HIDE DEF S
  <2> QED BY <1>1, <1>2, <1>3, Induction
<1> QED BY <1>3, <1>4 DEF Unset

LEMMA SaidSame ==
  ASSUME NEW t, NEW key, NEW len \in Nat, NEW A, SaysSo(t, key, len, A),
         NEW i \in 0 .. len, NEW j \in i .. len, Unset(t, key, i, j)
  PROVE  A[j] = A[i]
BY SaidOn

------------------------------------------------------------------------------
(***************************************************************************)
(* The number of a version.                                                *)
(***************************************************************************)
Counted(s, base, r, i) ==
  IF ~r.on \/ ~isalnum(s[i]) \/ _char_to_num(s[i]) > base THEN [r EXCEPT !.on = FALSE]
  ELSE [r EXCEPT !.res = (r.res * base + _char_to_num(s[i])) % TwoBytes]

Counting(s, base, len, A) ==
  A = [i \in 0 .. len |-> IF i = 0 THEN [res |-> 0, on |-> TRUE] ELSE Counted(s, base, A[i - 1], i)]

LEMMA CountingExists ==
  ASSUME NEW s, NEW base, NEW len \in 0 .. 2
  PROVE  \E A : Counting(s, base, len, A)
<1>1. PICK z : z = [res |-> 0, on |-> TRUE]
  OBVIOUS
<1>2. PICK x : x = Counted(s, base, z, 1)
  OBVIOUS
<1>3. PICK y : y = Counted(s, base, x, 2)
  OBVIOUS
<1> DEFINE A == [i \in 0 .. len |-> IF i = 0 THEN z ELSE IF i = 1 THEN x ELSE y]
           C == [i \in 0 .. len |-> IF i = 0 THEN z ELSE Counted(s, base, A[i - 1], i)]
<1>4. ASSUME NEW i \in 0 .. len PROVE A[i] = C[i]
  <2>1. i = 0 \/ i = 1 \/ i = 2
    OBVIOUS
  <2>2. CASE i = 0
    BY <2>2
  <2>3. CASE i = 1
    <3>1. A[0] = z /\ A[1] = x
      BY <2>3
    <3>2. C[1] = Counted(s, base, A[0], 1)
      BY <2>3
    <3> QED BY <1>2, <2>3, <3>1, <3>2
  <2>4. CASE i = 2
    <3>1. A[1] = x /\ A[2] = y
      BY <2>4
    <3>2. C[2] = Counted(s, base, A[1], 2)
      BY <2>4
    <3> QED BY <1>3, <2>4, <3>1, <3>2
  <2> QED BY <2>1, <2>2, <2>3, <2>4
<1>5. A = [i \in 0 .. len |-> A[i]] /\ C = [i \in 0 .. len |-> C[i]]
  OBVIOUS
<1>6. A = C
  <2> HIDE DEF A, C
  <2> QED BY <1>4, <1>5
<1> QED BY <1>1, <1>6 DEF Counting

LEMMA StrtoulIs ==
  ASSUME NEW s, NEW base, Len(s) \in 0 .. 2
  PROVE  \E A : Counting(s, base, Len(s), A) /\ strtoul(s, base) = A[Len(s)].res
<1> DEFINE C == CHOOSE A : A = [i \in 0 .. Len(s) |->
                  IF i = 0 THEN [res |-> 0, on |-> TRUE]
                  ELSE IF ~A[i - 1].on \/ ~isalnum(s[i]) \/ _char_to_num(s[i]) > base
                       THEN [A[i - 1] EXCEPT !.on = FALSE]
                  ELSE [A[i - 1] EXCEPT !.res = (@ * base + _char_to_num(s[i])) % TwoBytes]]
<1>1. strtoul(s, base) = C[Len(s)].res
  BY DEF strtoul
<1>2. C = CHOOSE A : Counting(s, base, Len(s), A)
  BY Zenon DEF Counting, Counted
<1> HIDE DEF C
<1>3. Counting(s, base, Len(s), C)
  BY <1>2, CountingExists
<1> QED BY <1>1, <1>3

LEMMA Remainders ==
  /\ \A c \in 49 .. 57 : (0 * 10 + (c - 48)) % TwoBytes = c - 48 /\ c - 48 \in Nat
  /\ \A c \in 49 .. 57, d \in 48 .. 57 : (((c - 48) * 10 + (d - 48)) % TwoBytes) % 256 # 1
BY DEF TwoBytes

LEMMA LenOne == Len(<<49>>) = 1
OBVIOUS

(* What is counted after one character more. *)
Read(x, on) == [res |-> x, on |-> on]

DigitAt(s, i, x, y) ==
  x \in Nat /\ s[i] \in 48 .. 57 /\ y = (x * 10 + (s[i] - 48)) % TwoBytes

LEMMA CountsOn ==
  ASSUME NEW s, NEW i, NEW x, NEW y, DigitAt(s, i, x, y)
  PROVE  Counted(s, 10, Read(x, TRUE), i) = Read(y, TRUE)
<1> DEFINE r == Read(x, TRUE)
<1>0. PICK c : c = s[i]
  OBVIOUS
<1>c. c \in 48 .. 57 /\ x \in Nat /\ y = (x * 10 + (c - 48)) % TwoBytes
  BY <1>0 DEF DigitAt
<1>1. isalnum(c) /\ _char_to_num(c) = c - 48 /\ ~(_char_to_num(c) > 10)
  BY <1>c DEF isalnum, _char_to_num
<1>2. r.on /\ r.res = x
  BY DEF Read
<1>3. Counted(s, 10, r, i) = [r EXCEPT !.res = (r.res * 10 + _char_to_num(c)) % TwoBytes]
  BY <1>0, <1>1, <1>2, Zenon DEF Counted
<1>4. Counted(s, 10, r, i) = [r EXCEPT !.res = y]
  BY <1>c, <1>1, <1>2, <1>3, Zenon
<1> QED BY <1>4 DEF Read

(* A version of one character or of two digits is 1 only if it says so.    *)
LEMMA NumeralIs ==
  ASSUME NEW s, s \in Seq({s[i] : i \in DOMAIN s}),
         \A i \in DOMAIN s : s[i] \in Nat, Numeral(s)
  PROVE  strtoul(s, 10) % 256 = 1 <=> s = <<49>>
<1>1. Len(s) \in 0 .. 2 /\ DOMAIN s = 1 .. Len(s)
  <2>1. Len(s) \in Nat /\ DOMAIN s = 1 .. Len(s)
    BY LenProperties
  <2> QED BY <2>1 DEF Numeral
<1>2. PICK A : Counting(s, 10, Len(s), A) /\ strtoul(s, 10) = A[Len(s)].res
  BY <1>1, StrtoulIs
<1>3. PICK len : len = Len(s)
  OBVIOUS
<1>4. \A i \in 0 .. len : A[i] = IF i = 0 THEN [res |-> 0, on |-> TRUE] ELSE Counted(s, 10, A[i - 1], i)
  BY <1>2, <1>3 DEF Counting
<1>5. A[0] = [res |-> 0, on |-> TRUE]
  BY <1>1, <1>3, <1>4
<1>6. len \in 0 .. 2 /\ DOMAIN s = 1 .. len /\ strtoul(s, 10) = A[len].res
  BY <1>1, <1>2, <1>3
<1>7. CASE len = 0
  <2>1. strtoul(s, 10) = 0
    BY <1>5, <1>6, <1>7
  <2>2. len # 1
    BY <1>7
  <2>3. s # <<49>>
    BY <1>3, <2>2, LenOne, Zenon
  <2> QED BY <2>1, <2>3
<1>8. CASE len = 1
  <2>1. PICK c : c = s[1]
    OBVIOUS
  <2>2. c \in Nat
    BY <1>6, <1>8, <2>1
  <2>3. A[1] = Counted(s, 10, A[0], 1)
    BY <1>4, <1>8
  <2>4. A[1].res = IF ~isalnum(c) \/ _char_to_num(c) > 10 THEN 0
                   ELSE (0 * 10 + _char_to_num(c)) % TwoBytes
    BY <1>5, <2>1, <2>3 DEF Counted
  <2>5. A[1].res % 256 = 1 <=> c = 49
    BY <2>2, <2>4 DEF isalnum, _char_to_num, TwoBytes
  <2>6. s = <<49>> <=> c = 49
    <3>1. c = 49 => s = <<49>>
      <4>1. \A i \in 1 .. 1 : s[i] = <<c>>[i]
        BY <2>1
      <4>2. s \in Seq({c}) /\ <<c>> \in Seq({c}) /\ Len(s) = 1 /\ Len(<<c>>) = 1
        BY <1>3, <1>6, <1>8, <2>1
      <4>3. s = <<c>>
        BY <4>1, <4>2, SeqEqual
      <4> QED BY <4>3
    <3> QED BY <2>1, <3>1
  <2> QED BY <1>6, <1>8, <2>5, <2>6
<1>9. CASE len = 2
  <2>1. PICK c, d : c = s[1] /\ d = s[2]
    OBVIOUS
  <2>2. c \in 49 .. 57 /\ d \in 48 .. 57
    <3>1. ~(len < 2)
      BY <1>9
    <3> QED BY <1>3, <2>1, <3>1, Zenon DEF Numeral
  <2>3. A[1] = Counted(s, 10, A[0], 1) /\ A[2] = Counted(s, 10, A[1], 2)
    BY <1>4, <1>9
  <2>4. c \in 48 .. 57 /\ d \in 48 .. 57
    BY <2>2
  <2>5. PICK x \in Nat : x = (0 * 10 + (c - 48)) % TwoBytes /\ x = c - 48
    BY <2>2, Remainders
  <2>6. PICK y : y = ((c - 48) * 10 + (d - 48)) % TwoBytes
    OBVIOUS
  <2>7. A[2] = Read(y, TRUE)
    <3>1. DigitAt(s, 1, 0, x) /\ DigitAt(s, 2, x, y)
      BY <2>1, <2>4, <2>5, <2>6 DEF DigitAt
    <3>2. A[0] = Read(0, TRUE)
      BY <1>5 DEF Read
    <3>3. A[1] = Read(x, TRUE)
      <4>1. Counted(s, 10, Read(0, TRUE), 1) = Read(x, TRUE)
        BY <3>1, CountsOn
      <4> QED BY <2>3, <3>2, <4>1
    <3>4. Counted(s, 10, Read(x, TRUE), 2) = Read(y, TRUE)
      BY <3>1, CountsOn
    <3> QED BY <2>3, <3>3, <3>4
  <2>8. A[2].res = ((c - 48) * 10 + (d - 48)) % TwoBytes
    BY <2>6, <2>7 DEF Read
  <2>9. A[2].res % 256 # 1
    BY <2>2, <2>8, Remainders, ZenonT(60)
  <2>10. len # 1 /\ ~(len < 2)
    BY <1>9
  <2>11. s # <<49>>
    BY <1>3, <2>10, LenOne, Zenon
  <2>12. strtoul(s, 10) % 256 # 1
    <3>1. strtoul(s, 10) = A[2].res
      BY <1>6, <1>9
    <3> QED BY <2>9, <3>1
  <2> QED BY <2>11, <2>12
<1> QED BY <1>6, <1>7, <1>8, <1>9

LEMMA VersionIs ==
  ASSUME NEW v \in DOMAIN Chars, v # Spoilt, Numeral(Chars[v])
  PROVE  /\ 1 \in Versions(v) <=> v = "1"
         /\ (\E w \in Versions(v) : w # 1) <=> v # "1"
<1>1. PICK s : s = Chars[v]
  OBVIOUS
<1>2. /\ s \in Seq({s[i] : i \in DOMAIN s}) /\ \A i \in DOMAIN s : s[i] \in Nat
      /\ v = "1" <=> s = <<49>>
  BY <1>1, TextsAssumption, Zenon
<1>3. PICK x : x = strtoul(s, 10) % 256
  OBVIOUS
<1>4. x = 1 <=> v = "1"
  BY <1>1, <1>2, <1>3, NumeralIs
<1>5. Versions(v) = {x}
  BY <1>1, <1>3 DEF Versions
<1> QED BY <1>4, <1>5

------------------------------------------------------------------------------
(***************************************************************************)
(* Lines: of the string T with NULs at cu, whose first len pieces are the    *)
(* file.                                                                   *)
(***************************************************************************)
Eol == {"cr", "lf"}

StrOf(T, cu, p) == {q \in p .. Len(T) : \A r \in p .. q : r \notin cu}

EolsOf(T, cu, p, kinds) == {q \in StrOf(T, cu, p) : T[q].kind \in kinds}

LineEndOf(T, cu, p) ==
  {q \in EolsOf(T, cu, p, {"cr", "lf"}) :
     /\ \A r \in EolsOf(T, cu, p, {"cr", "lf"}) : q <= r
     /\ EolsOf(T, cu, p, {"lf"}) # {}}

EndsOf(T, cu, e) ==
  {q \in e .. Len(T) : \A r \in e .. q : r \notin cu /\ T[r].kind \in {"cr", "lf"}}

LEMMA Strings ==
  /\ \A p : Str(p) = StrOf(text, cut, p)
  /\ \A p : LineEnd(p) = LineEndOf(text, cut, p)
  /\ \A e : Ends(e) = EndsOf(text, cut, e)
<1>1. \A p : Str(p) = StrOf(text, cut, p)
  BY DEF Str, StrOf
<1>2. \A p, k : Of(k, Str(p)) = EolsOf(text, cut, p, k)
  BY <1>1 DEF Of, EolsOf
<1>3. \A p : LineEnd(p) = LineEndOf(text, cut, p)
  BY <1>2, Zenon DEF LineEnd, LineEndOf
<1>4. \A e : Ends(e) = EndsOf(text, cut, e)
  BY DEF Ends, EndsOf
<1> QED BY <1>1, <1>3, <1>4

Lined(T, len) ==
  /\ Len(T) \in Nat /\ len \in 1 .. Len(T) /\ T[len].kind = "lf"
  /\ \A p \in 1 .. len - 1 : {T[p].kind, T[p + 1].kind} \cap Eol # {}

AtLine(cu, len, l) == l \in 1 .. len /\ \A q \in cu : q \in Nat /\ q < l

LEMMA StringHere ==
  ASSUME NEW T, NEW len, NEW cu, NEW l, Lined(T, len), AtLine(cu, len, l)
  PROVE  StrOf(T, cu, l) = l .. Len(T)
<1>1. \A r \in l .. Len(T) : r \notin cu
  BY DEF Lined, AtLine
<1>2. \A q \in l .. Len(T) : \A r \in l .. q : r \in l .. Len(T)
  BY DEF Lined, AtLine
<1> QED BY <1>1, <1>2 DEF StrOf

(* The line ends before the next piece. *)
LEMMA EndOfLine ==
  ASSUME NEW T, NEW len, NEW cu, NEW l, Lined(T, len), AtLine(cu, len, l)
  PROVE  \E e \in {l, l + 1} :
           /\ e <= len /\ LineEndOf(T, cu, l) = {e} /\ T[e].kind \in Eol
           /\ e = l + 1 => T[l].kind \notin Eol
<1> DEFINE N == Len(T)
           S == {q \in l .. N : T[q].kind \in Eol}
<1>1. N \in Nat /\ len \in 1 .. N /\ l \in 1 .. len /\ T[len].kind = "lf" /\ len \in l .. N
  BY DEF Lined, AtLine
<1>2. len \in S
  BY <1>1 DEF Eol
<1>3. PICK e \in S : \A r \in S : e <= r
  <2>1. S \subseteq Nat /\ S # {}
    BY <1>1, <1>2
  <2> HIDE DEF S
  <2> QED BY <2>1, Least
<1>4. e \in l .. len
  BY <1>1, <1>2, <1>3
<1>5. e \in {l, l + 1}
  <2> SUFFICES ASSUME e >= l + 2 PROVE FALSE
    BY <1>1, <1>4
  <2>1. l \in 1 .. len - 1 /\ l \in l .. N /\ l + 1 \in l .. N /\ ~(e <= l) /\ ~(e <= l + 1)
    BY <1>1, <1>4
  <2>2. l \notin S /\ l + 1 \notin S
    BY <1>3, <2>1
  <2>3. T[l].kind \notin Eol /\ T[l + 1].kind \notin Eol
    BY <2>1, <2>2
  <2> QED BY <2>1, <2>3, Zenon DEF Lined
<1>6. e = l + 1 => T[l].kind \notin Eol
  <2> SUFFICES ASSUME e = l + 1, T[l].kind \in Eol PROVE FALSE
    OBVIOUS
  <2>1. l \in S /\ ~(e <= l)
    BY <1>1
  <2> QED BY <1>3, <2>1
<1>7. StrOf(T, cu, l) = l .. N
  BY StringHere
<1>8. EolsOf(T, cu, l, {"cr", "lf"}) = S
  BY <1>7 DEF EolsOf, Eol
<1>9. EolsOf(T, cu, l, {"lf"}) # {}
  <2>1. len \in EolsOf(T, cu, l, {"lf"})
    BY <1>1, <1>7 DEF EolsOf
  <2> QED BY <2>1
<1>10. \A q \in S : (\A r \in S : q <= r) <=> q = e
  <2>1. S \subseteq Nat
    BY <1>1
  <2> HIDE DEF S
  <2> QED BY <1>3, <2>1
<1>11. LineEndOf(T, cu, l) = {e}
  <2> HIDE DEF S
  <2> QED BY <1>3, <1>8, <1>9, <1>10, Zenon DEF LineEndOf
<1> QED BY <1>3, <1>4, <1>5, <1>6, <1>11

(* The ends of a line reach up to the next. *)
LEMMA EndsAre ==
  ASSUME NEW T, NEW len, NEW cu, NEW l, Lined(T, len), AtLine(cu, len, l),
         NEW e \in l .. len, T[e].kind \in Eol
  PROVE  \E q \in e + 1 .. Len(T) + 1 :
           /\ EndsOf(T, cu, e) = e .. q - 1 /\ e + Cardinality(EndsOf(T, cu, e)) = q
           /\ \A p \in e .. q - 1 : T[p].kind \in Eol
<1> DEFINE N == Len(T)
           S == {q \in e .. N + 1 : q = N + 1 \/ T[q].kind \notin Eol}
<1>1. N \in Nat /\ len \in 1 .. N /\ l \in 1 .. len /\ e \in 1 .. N
  BY DEF Lined, AtLine
<1>2. N + 1 \in S
  BY <1>1
<1>3. PICK q \in S : \A r \in S : q <= r
  <2>1. S \subseteq Nat /\ S # {}
    BY <1>1, <1>2
  <2> HIDE DEF S
  <2> QED BY <2>1, Least
<1>4. q \in e .. N + 1 /\ q # e
  BY <1>1, <1>3
<1>5. q \in e + 1 .. N + 1
  BY <1>1, <1>4
<1>6. \A p \in e .. q - 1 : T[p].kind \in Eol
  <2> SUFFICES ASSUME NEW p \in e .. q - 1, T[p].kind \notin Eol PROVE FALSE
    OBVIOUS
  <2>1. p \in S /\ ~(q <= p)
    BY <1>1, <1>5
  <2> QED BY <1>3, <2>1
<1>7. EndsOf(T, cu, e) = e .. q - 1
  <2>1. \A r \in e .. N : r \notin cu
    BY <1>1 DEF AtLine
  <2>2. \A p \in e .. q - 1 : p \in e .. N /\ \A r \in e .. p : r \in e .. q - 1 /\ r \in e .. N
    BY <1>1, <1>5
  <2>3. ASSUME NEW p \in e .. q - 1 PROVE p \in EndsOf(T, cu, e)
    BY <1>6, <2>1, <2>2, <2>3 DEF EndsOf, Eol
  <2>4. ASSUME NEW p \in e .. N, \A r \in e .. p : T[r].kind \in Eol PROVE p \in e .. q - 1
    <3> SUFFICES ASSUME q <= p PROVE FALSE
      BY <1>1, <1>5
    <3>1. q \in e .. p /\ q # N + 1
      BY <1>1, <1>5
    <3> QED BY <1>3, <2>4, <3>1
  <2>5. \A p \in EndsOf(T, cu, e) : p \in e .. N /\ \A r \in e .. p : T[r].kind \in Eol
    BY DEF EndsOf, Eol
  <2> QED BY <2>3, <2>4, <2>5
<1>8. Cardinality(e .. q - 1) = (q - 1) - e + 1
  <2>1. e \in Int /\ q - 1 \in Int /\ ~(e > q - 1)
    BY <1>1, <1>5
  <2> QED BY <2>1, FS_Interval
<1>9. e + Cardinality(EndsOf(T, cu, e)) = q
  BY <1>1, <1>5, <1>7, <1>8
<1> QED BY <1>5, <1>6, <1>7, <1>9

------------------------------------------------------------------------------
(***************************************************************************)
(* A configuration c that says what t does up to piece i.                  *)
(***************************************************************************)
LastOf(s) == IF s = <<>> THEN NULL ELSE Last(s)

Lists(ms, s) == Len(ms) = Len(s) /\ \A j \in 1 .. Len(s) : ms[j].path = s[j]

Agrees(c, t, i) ==
  /\ c.kernel = LastOf(SaidTo(t, "KERNEL")[i])
  /\ c.cmdline = LastOf(SaidTo(t, "CMDLINE")[i])
  /\ Lists(c.modules, SaidTo(t, "MODULE")[i]) /\ Len(c.modules) <= MaxModules
  /\ \A p \in 1 .. i : IsSet(t[p], "CFGVER") => t[p].val = "1"

AssignedTo(c, key, v) ==
  CASE key = "KERNEL"  -> [c EXCEPT !.kernel = v]
    [] key = "CMDLINE" -> [c EXCEPT !.cmdline = v]
    [] key = "MODULE"  -> [c EXCEPT !.modules = Append(@, Module(v))]
    [] OTHER -> c

LEMMA LastAppended ==
  ASSUME NEW V, NEW s \in Seq(V), NEW v \in V
  PROVE  LastOf(Append(s, v)) = v
<1>1. Len(Append(s, v)) = Len(s) + 1 /\ Append(s, v)[Len(s) + 1] = v
  BY AppendProperties
<1>2. Append(s, v) # <<>> /\ Len(s) \in Nat
  BY AppendProperties, LenProperties
<1>3. Append(s, v)[Len(Append(s, v))] = v
  BY <1>1
<1> QED BY <1>2, <1>3, Zenon DEF LastOf, Last

LEMMA ListsOn ==
  ASSUME NEW ms, Listed(ms), NEW V, NEW s \in Seq(V), NEW v \in V, Lists(ms, s)
  PROVE  /\ Lists(Append(ms, Module(v)), Append(s, v))
         /\ Len(Append(ms, Module(v))) = Len(ms) + 1
<1>1. PICK S : ms \in Seq([path : S, addr : Nat, size : Nat])
  BY DEF Listed
<1>2. PICK M : M = [path : S, addr : Nat, size : Nat] \cup {Module(v)}
  OBVIOUS
<1>3. ms \in Seq(M) /\ Module(v) \in M
  <2> DEFINE W == [path : S, addr : Nat, size : Nat]
  <2>1. ms \in Seq(W) /\ W \subseteq M
    BY <1>1, <1>2
  <2> HIDE DEF W
  <2> QED BY <1>2, <2>1, SeqMonotonic
<1>4. PICK m : m = Module(v)
  OBVIOUS
<1>5. /\ Len(Append(ms, m)) = Len(ms) + 1
      /\ \A i \in 1 .. Len(ms) : Append(ms, m)[i] = ms[i]
      /\ Append(ms, m)[Len(ms) + 1] = m
  BY <1>3, <1>4, AppendProperties
<1>6. /\ Len(Append(s, v)) = Len(s) + 1
      /\ \A i \in 1 .. Len(s) : Append(s, v)[i] = s[i]
      /\ Append(s, v)[Len(s) + 1] = v
  BY AppendProperties
<1>7. Len(ms) \in Nat /\ Len(ms) = Len(s) /\ \A j \in 1 .. Len(s) : ms[j].path = s[j]
  BY <1>3, LenProperties DEF Lists
<1>8. m.path = v
  BY <1>4 DEF Module
<1>9. \A j \in 1 .. Len(s) + 1 : Append(ms, m)[j].path = Append(s, v)[j]
  <2> SUFFICES ASSUME NEW j \in 1 .. Len(s) + 1 PROVE Append(ms, m)[j].path = Append(s, v)[j]
    OBVIOUS
  <2>1. CASE j \in 1 .. Len(s)
    <3>1. Append(ms, m)[j] = ms[j] /\ Append(s, v)[j] = s[j] /\ ms[j].path = s[j]
      BY <1>5, <1>6, <1>7, <2>1
    <3> QED BY <3>1
  <2>2. CASE j = Len(s) + 1
    <3>1. Append(ms, m)[j] = m /\ Append(s, v)[j] = v
      BY <1>5, <1>6, <1>7, <2>2
    <3> QED BY <1>8, <3>1
  <2>3. j \in 1 .. Len(s) \/ j = Len(s) + 1
    BY <1>7
  <2> QED BY <2>1, <2>2, <2>3
<1> QED BY <1>4, <1>5, <1>6, <1>7, <1>9 DEF Lists

(* It still does where nothing is set. *)
LEMMA AgreesOn ==
  ASSUME NEW t, NEW len \in Nat, len = Len(t), NEW c, NEW i \in 0 .. len, NEW j \in i .. len,
         \A p \in i + 1 .. j : t[p].kind # "set", Agrees(c, t, i)
  PROVE  Agrees(c, t, j)
<1>1. \A key : SaidTo(t, key)[j] = SaidTo(t, key)[i]
  <2> SUFFICES ASSUME NEW key PROVE SaidTo(t, key)[j] = SaidTo(t, key)[i]
    OBVIOUS
  <2>1. SaysSo(t, key, len, SaidTo(t, key))
    BY SaidIs
  <2>2. Unset(t, key, i, j)
    BY DEF IsSet, Unset
  <2>3. PICK A : A = SaidTo(t, key)
    OBVIOUS
  <2>4. SaysSo(t, key, len, A)
    BY <2>1, <2>3
  <2>6. A[j] = A[i]
    BY <2>2, <2>4, SaidSame
  <2> QED BY <2>3, <2>6
<1>2. \A p \in 1 .. j : IsSet(t[p], "CFGVER") => t[p].val = "1"
  <2> SUFFICES ASSUME NEW p \in 1 .. j, IsSet(t[p], "CFGVER") PROVE t[p].val = "1"
    OBVIOUS
  <2>1. p \notin i + 1 .. j
    BY DEF IsSet
  <2>2. p \in 1 .. i
    BY <2>1
  <2> QED BY <2>2 DEF Agrees
<1>3. /\ SaidTo(t, "KERNEL")[j] = SaidTo(t, "KERNEL")[i]
      /\ SaidTo(t, "CMDLINE")[j] = SaidTo(t, "CMDLINE")[i]
      /\ SaidTo(t, "MODULE")[j] = SaidTo(t, "MODULE")[i]
  BY <1>1
<1> QED BY <1>2, <1>3 DEF Agrees

LEMMA AgreesTakes ==
  ASSUME NEW t, NEW len \in Nat, len = Len(t), NEW l \in 1 .. len, MaxModules \in Nat,
         NEW c, c = [kernel |-> c.kernel, cmdline |-> c.cmdline, modules |-> c.modules],
         Listed(c.modules), Agrees(c, t, l - 1), t[l].kind = "set",
         t[l].key = "CFGVER" => t[l].val = "1",
         t[l].key = "MODULE" => Len(c.modules) < MaxModules
  PROVE  Agrees(AssignedTo(c, t[l].key, t[l].val), t, l)
<1>1. PICK key, v, k, m, ms : /\ key = t[l].key /\ v = t[l].val
                              /\ k = c.kernel /\ m = c.cmdline /\ ms = c.modules
  OBVIOUS
<1>2. c = [kernel |-> k, cmdline |-> m, modules |-> ms]
  BY <1>1
<1>3. PICK K, C, M : K = SaidTo(t, "KERNEL") /\ C = SaidTo(t, "CMDLINE") /\ M = SaidTo(t, "MODULE")
  OBVIOUS
<1>4. PICK V : V = Vals(t, len)
  OBVIOUS
<1>5. v \in V
  BY <1>1, <1>4 DEF Vals
<1>6. ASSUME NEW A, NEW w, SaysSo(t, w, len, A)
      PROVE  A[l - 1] \in Seq(V) /\ A[l] = IF key = w THEN Append(A[l - 1], v) ELSE A[l - 1]
  <2>1. A[l] = Adds(t, w, A[l - 1], l)
    BY <1>6 DEF SaysSo
  <2>2. l - 1 \in 0 .. len
    OBVIOUS
  <2>3. A[l - 1] \in Seq(V)
    BY <1>4, <1>6, <2>2, SaidSeq
  <2> QED BY <1>1, <2>1, <2>3 DEF Adds, IsSet
<1>7. SaysSo(t, "KERNEL", len, K) /\ SaysSo(t, "CMDLINE", len, C) /\ SaysSo(t, "MODULE", len, M)
  BY <1>3, SaidIs
<1>8. /\ K[l - 1] \in Seq(V) /\ K[l] = IF key = "KERNEL" THEN Append(K[l - 1], v) ELSE K[l - 1]
      /\ C[l - 1] \in Seq(V) /\ C[l] = IF key = "CMDLINE" THEN Append(C[l - 1], v) ELSE C[l - 1]
      /\ M[l - 1] \in Seq(V) /\ M[l] = IF key = "MODULE" THEN Append(M[l - 1], v) ELSE M[l - 1]
  BY <1>6, <1>7
<1>9. /\ k = LastOf(K[l - 1]) /\ m = LastOf(C[l - 1]) /\ Lists(ms, M[l - 1])
      /\ Len(ms) <= MaxModules /\ Listed(ms)
      /\ \A p \in 1 .. l - 1 : IsSet(t[p], "CFGVER") => t[p].val = "1"
  BY <1>1, <1>3, Zenon DEF Agrees
<1>10. \A p \in 1 .. l : IsSet(t[p], "CFGVER") => t[p].val = "1"
  <2> SUFFICES ASSUME NEW p \in 1 .. l, IsSet(t[p], "CFGVER") PROVE t[p].val = "1"
    OBVIOUS
  <2>1. CASE p = l
    BY <2>1 DEF IsSet
  <2>2. CASE p # l
    <3>1. p \in 1 .. l - 1
      BY <2>2
    <3> QED BY <1>9, <3>1
  <2> QED BY <2>1, <2>2
<1>11. PICK d : d = AssignedTo(c, key, v)
  OBVIOUS
<1>12. CASE key = "KERNEL"
  <2>1. d = [kernel |-> v, cmdline |-> m, modules |-> ms]
    BY <1>2, <1>11, <1>12 DEF AssignedTo
  <2>2. LastOf(K[l]) = v /\ C[l] = C[l - 1] /\ M[l] = M[l - 1]
    BY <1>5, <1>8, <1>12, LastAppended
  <2> QED BY <1>1, <1>3, <1>9, <1>10, <1>11, <2>1, <2>2 DEF Agrees
<1>13. CASE key = "CMDLINE"
  <2>1. d = [kernel |-> k, cmdline |-> v, modules |-> ms]
    BY <1>2, <1>11, <1>13 DEF AssignedTo
  <2>2. LastOf(C[l]) = v /\ K[l] = K[l - 1] /\ M[l] = M[l - 1]
    BY <1>5, <1>8, <1>13, LastAppended
  <2> QED BY <1>1, <1>3, <1>9, <1>10, <1>11, <2>1, <2>2 DEF Agrees
<1>14. CASE key = "MODULE"
  <2>0. PICK ns : ns = Append(ms, Module(v))
    OBVIOUS
  <2>1. d = [kernel |-> k, cmdline |-> m, modules |-> ns]
    BY <1>2, <1>11, <1>14, <2>0 DEF AssignedTo
  <2>2. M[l] = Append(M[l - 1], v) /\ C[l] = C[l - 1] /\ K[l] = K[l - 1]
    BY <1>8, <1>14
  <2>3. Lists(ns, M[l]) /\ Len(ns) = Len(ms) + 1
    BY <1>5, <1>8, <1>9, <2>0, <2>2, ListsOn
  <2>4. Len(ns) <= MaxModules
    <3>1. Len(ms) < MaxModules
      BY <1>1, <1>14
    <3>2. Len(ms) \in Nat
      BY <1>8, <1>9, LenProperties DEF Lists
    <3> QED BY <2>3, <3>1, <3>2
  <2> QED BY <1>1, <1>3, <1>9, <1>10, <1>11, <2>1, <2>2, <2>3, <2>4 DEF Agrees
<1>15. CASE key \notin {"KERNEL", "CMDLINE", "MODULE"}
  <2>1. d = c
    BY <1>11, <1>15 DEF AssignedTo
  <2>2. M[l] = M[l - 1] /\ C[l] = C[l - 1] /\ K[l] = K[l - 1]
    BY <1>8, <1>15
  <2> QED BY <1>1, <1>3, <1>9, <1>10, <1>11, <2>1, <2>2 DEF Agrees
<1> QED BY <1>12, <1>13, <1>14, <1>15

------------------------------------------------------------------------------
(***************************************************************************)
(* Reading line by line.                                                   *)
(***************************************************************************)
(* Nothing that counts is at x any more, and no line end that is searched. *)
Silent(T, cu, len, x) ==
  x = 0 \/ x > len \/ \A q \in StrOf(T, cu, x) : T[q].kind \notin {"set", "lf"}

(* The line at l has been cut off, and the next is at nx. *)
CutOff(T, cu, len, l, nx) ==
  /\ l \in 1 .. len
  /\ \/ StrOf(T, cu, l) = {} /\ T[l].kind # "set"
     \/ StrOf(T, cu, l) = {l} /\ T[l].kind # "lf"
  /\ nx \in {0, l} \/ (nx \in l + 1 .. Len(T) /\ \A q \in cu : q \in Nat /\ q < nx)
  /\ \A p \in l + 1 .. len : nx \in {0, l} \/ p < nx => T[p].kind # "set"

LEMMA StringShrinks ==
  ASSUME NEW T, NEW cu, NEW cv, cu \subseteq cv, NEW p
  PROVE  StrOf(T, cv, p) \subseteq StrOf(T, cu, p)
BY DEF StrOf

LEMMA SilentStays ==
  ASSUME NEW T, NEW cu, NEW cv, cu \subseteq cv, NEW len, NEW x, Silent(T, cu, len, x)
  PROVE  Silent(T, cv, len, x)
BY StringShrinks, Zenon DEF Silent

FollowingOf(T, cu, e, nx) ==
  LET q == e + Cardinality(EndsOf(T, cu, e))
  IN  IF q <= Len(T) /\ q \notin cu THEN q ELSE nx

LEMMA LineCut ==
  ASSUME NEW T, NEW len, NEW cu, NEW l, Lined(T, len), AtLine(cu, len, l),
         NEW nx, nx \in {0, l}, NEW e \in LineEndOf(T, cu, l)
  PROVE  CutOff(T, cu \cup EndsOf(T, cu, e), len, l, FollowingOf(T, cu, e, nx))
<1>1. PICK N \in Nat : /\ N = Len(T) /\ len \in 1 .. N /\ l \in 1 .. len
                       /\ \A q \in cu : q \in Nat /\ q < l
  BY DEF Lined, AtLine
<1>2. /\ e \in {l, l + 1} /\ e <= len /\ T[e].kind \in Eol
      /\ e = l + 1 => T[l].kind \notin Eol
  BY EndOfLine
<1>3. e \in l .. len
  BY <1>1, <1>2
<1>4. PICK q \in e + 1 .. Len(T) + 1 :
        /\ EndsOf(T, cu, e) = e .. q - 1 /\ e + Cardinality(EndsOf(T, cu, e)) = q
        /\ \A p \in e .. q - 1 : T[p].kind \in Eol
  BY <1>2, <1>3, EndsAre
<1>5. PICK cv : cv = cu \cup (e .. q - 1)
  OBVIOUS
<1>6. PICK ny : ny = FollowingOf(T, cu, e, nx)
  OBVIOUS
<1>7. q \in e + 1 .. N + 1 /\ q \notin cu
  BY <1>1, <1>3, <1>4
<1>8. ny = IF q <= N THEN q ELSE nx
  BY <1>1, <1>4, <1>6, <1>7 DEF FollowingOf
<1>9. \/ StrOf(T, cv, l) = {} /\ T[l].kind # "set"
      \/ StrOf(T, cv, l) = {l} /\ T[l].kind # "lf"
  <2>1. CASE e = l
    <3>1. l \in cv
      BY <1>1, <1>5, <1>7, <2>1
    <3>2. \A p \in l .. N : l \in l .. p
      BY <1>1
    <3>3. StrOf(T, cv, l) = {}
      BY <1>1, <3>1, <3>2 DEF StrOf
    <3> QED BY <1>2, <2>1, <3>3 DEF Eol
  <2>2. CASE e = l + 1
    <3>1. l \notin cv /\ l + 1 \in cv /\ l \in l .. N /\ l .. l = {l}
      BY <1>1, <1>5, <1>7, <2>2
    <3>2. \A p \in l .. N : p # l => l + 1 \in l .. p
      BY <1>1
    <3>3. StrOf(T, cv, l) = {l}
      BY <1>1, <3>1, <3>2 DEF StrOf
    <3> QED BY <1>2, <2>2, <3>3 DEF Eol
  <2> QED BY <1>2, <2>1, <2>2
<1>10. ny \in {0, l} \/ (ny \in l + 1 .. N /\ \A p \in cv : p \in Nat /\ p < ny)
  <2>1. CASE q <= N
    <3>1. ny = q /\ q \in l + 1 .. N
      BY <1>1, <1>3, <1>7, <1>8, <2>1
    <3>2. \A p \in cv : p \in Nat /\ p < q
      BY <1>1, <1>3, <1>5, <1>7
    <3> QED BY <3>1, <3>2
  <2>2. CASE ~(q <= N)
    BY <1>8, <2>2
  <2> QED BY <2>1, <2>2
<1>11. ASSUME NEW p \in l + 1 .. len, ny \in {0, l} \/ p < ny PROVE T[p].kind # "set"
  <2>1. p < q
    <3>1. CASE q <= N
      <4>1. ny = q /\ q # 0 /\ q # l
        BY <1>1, <1>3, <1>7, <1>8, <3>1
      <4> QED BY <1>11, <4>1
    <3>2. CASE ~(q <= N)
      BY <1>1, <1>7, <3>2
    <3> QED BY <3>1, <3>2
  <2>2. p \in e .. q - 1
    BY <1>1, <1>2, <1>7, <2>1
  <2> QED BY <1>4, <2>2 DEF Eol
<1>12. CutOff(T, cv, len, l, ny)
  BY <1>1, <1>9, <1>10, <1>11 DEF CutOff
<1> QED BY <1>4, <1>5, <1>6, <1>12

(* A line that has been read says nothing when it is read again. *)
LEMMA ReadAgain ==
  ASSUME NEW T, NEW len, NEW cu, NEW l, NEW nx, CutOff(T, cu, len, l, nx),
         NEW cv, cu \subseteq cv,
         StrOf(T, cu, l) = {l} /\ T[l].kind = "set" => l \in cv
  PROVE  Silent(T, cv, len, l)
<1>1. StrOf(T, cv, l) \subseteq StrOf(T, cu, l)
  BY StringShrinks
<1>2. CASE StrOf(T, cu, l) = {}
  BY <1>1, <1>2 DEF Silent
<1>3. CASE StrOf(T, cu, l) = {l} /\ T[l].kind # "lf" /\ T[l].kind # "set"
  BY <1>1, <1>3, Zenon DEF Silent
<1>4. CASE StrOf(T, cu, l) = {l} /\ T[l].kind = "set"
  <2>1. l \in cv /\ l \in Nat
    BY <1>4 DEF CutOff
  <2>2. l \notin StrOf(T, cv, l)
    BY <2>1 DEF StrOf
  <2>3. StrOf(T, cv, l) = {}
    BY <1>1, <1>4, <2>2
  <2> QED BY <2>3 DEF Silent
<1> QED BY <1>2, <1>3, <1>4, Zenon DEF CutOff

(* What follows a line that was cut off: a line of the file, or nothing    *)
(* that counts.                                                            *)
LEMMA NextLineIs ==
  ASSUME NEW T, NEW len, Lined(T, len), NEW cu, NEW l, NEW nx, CutOff(T, cu, len, l, nx),
         NEW cv, cv = cu \/ cv = cu \cup {l},
         StrOf(T, cu, l) = {l} /\ T[l].kind = "set" => l \in cv
  PROVE  /\ nx \in Nat
         /\ \/ /\ AtLine(cv, len, nx) /\ nx \in l + 1 .. len
               /\ \A p \in l + 1 .. nx - 1 : T[p].kind # "set"
            \/ /\ Silent(T, cv, len, nx) /\ \A p \in l + 1 .. len : T[p].kind # "set"
<1>1. /\ l \in 1 .. len /\ len \in Nat /\ Len(T) \in Nat
      /\ nx \in {0, l} \/ (nx \in l + 1 .. Len(T) /\ \A q \in cu : q \in Nat /\ q < nx)
      /\ \A p \in l + 1 .. len : nx \in {0, l} \/ p < nx => T[p].kind # "set"
  BY DEF CutOff, Lined
<1>2. CASE nx = 0
  BY <1>1, <1>2 DEF Silent
<1>3. CASE nx = l
  <2>1. Silent(T, cv, len, l)
    BY ReadAgain
  <2> QED BY <1>1, <1>3, <2>1
<1>4. CASE nx \in l + 1 .. len /\ \A q \in cu : q \in Nat /\ q < nx
  <2>1. \A q \in cv : q \in Nat /\ q < nx
    BY <1>1, <1>4
  <2>2. AtLine(cv, len, nx)
    BY <1>1, <1>4, <2>1 DEF AtLine
  <2>3. \A p \in l + 1 .. nx - 1 : p \in l + 1 .. len /\ p < nx
    BY <1>1, <1>4
  <2>4. nx \in Nat
    BY <1>1, <1>4
  <2> QED BY <1>1, <1>4, <2>2, <2>3, <2>4
<1>5. CASE nx > len /\ nx \in Nat /\ nx \notin {0, l}
  <2>1. \A p \in l + 1 .. len : p < nx
    BY <1>1, <1>5
  <2>2. Silent(T, cv, len, nx)
    BY <1>5 DEF Silent
  <2> QED BY <1>1, <1>5, <2>1, <2>2
<1>6. \/ nx = 0 \/ nx = l \/ (nx \in l + 1 .. len /\ \A q \in cu : q \in Nat /\ q < nx)
      \/ (nx > len /\ nx \in Nat /\ nx \notin {0, l})
  BY <1>1
<1> QED BY <1>2, <1>3, <1>4, <1>5, <1>6

------------------------------------------------------------------------------
(***************************************************************************)
(* The invariant of config_load.                                           *)
(***************************************************************************)
Parsing == {"config", "line", "key", "parsed", "refused"}

(* Every set is behind, and what is left to be read says nothing.          *)
Over ==
  /\ line \in Nat \ {0} /\ next \in Nat /\ Agrees(cfg, file, Len(file))
  /\ Silent(text, cut, Len(file), line) /\ Silent(text, cut, Len(file), next)

OnLine ==
  \/ Over
  \/ /\ AtLine(cut, Len(file), line) /\ next \in {0, line} /\ Agrees(cfg, file, line - 1)

OnKey ==
  \/ Over
  \/ CutOff(text, cut, Len(file), line, next) /\ Agrees(cfg, file, line - 1)

CInv ==
  /\ pc \in Parsing =>
       file \in Texts /\ \E b \in Behind : text = file \o b
  /\ WellFormed =>
       /\ pc = "config" => cut = {} /\ Agrees(cfg, file, 0)
       /\ pc = "line" => OnLine
       /\ pc = "key" => OnKey
       /\ pc = "parsed" => Agrees(cfg, file, Len(file))
       /\ pc = "refused" => Wrong

LEMMA TextIs ==
  ASSUME NEW t \in Texts, NEW b \in Behind, NEW T, T = t \o b,
         Len(t) > 0, t[Len(t)].kind = "lf"
  PROVE  /\ Lined(T, Len(t)) /\ DOMAIN t = 1 .. Len(t)
         /\ \A p \in 1 .. Len(t) : T[p] = t[p]
<1>1. t \in Seq(Pieces(t)) /\ b \in Seq(Pieces(b))
  BY TextsAssumption
<1>2. PICK W : W = Pieces(t) \cup Pieces(b)
  OBVIOUS
<1>3. t \in Seq(W) /\ b \in Seq(W)
  BY <1>1, <1>2, SeqMonotonic
<1>4. /\ T \in Seq(W) /\ Len(T) = Len(t) + Len(b)
      /\ \A p \in 1 .. Len(t) : T[p] = t[p]
  BY <1>3, ConcatProperties
<1>5. Len(t) \in Nat /\ Len(b) \in Nat /\ DOMAIN t = 1 .. Len(t)
  BY <1>3, LenProperties
<1>6. \A p \in 1 .. Len(t) - 1 : {t[p].kind, t[p + 1].kind} \cap {"cr", "lf"} # {}
  BY TextsAssumption
<1>7. PICK len : len = Len(t)
  OBVIOUS
<1>8. ASSUME NEW p \in 1 .. len - 1 PROVE {T[p].kind, T[p + 1].kind} \cap Eol # {}
  <2>1. p \in 1 .. len /\ p + 1 \in 1 .. len
    BY <1>5, <1>7
  <2>2. T[p] = t[p] /\ T[p + 1] = t[p + 1]
    BY <1>4, <1>7, <2>1, Zenon
  <2>3. {t[p].kind, t[p + 1].kind} \cap {"cr", "lf"} # {}
    BY <1>6, <1>7
  <2> QED BY <2>2, <2>3 DEF Eol
<1>9. len \in 1 .. Len(T) /\ len \in 1 .. len /\ Len(T) \in Nat
  BY <1>4, <1>5, <1>7
<1>10. T[len].kind = "lf"
  BY <1>4, <1>7, <1>9
<1>11. Lined(T, len)
  BY <1>8, <1>9, <1>10, Zenon DEF Lined
<1> QED BY <1>4, <1>5, <1>7, <1>11

LEMMA FileLined ==
  ASSUME CInv, pc \in Parsing, WellFormed
  PROVE  /\ Lined(text, Len(file)) /\ DOMAIN file = 1 .. Len(file) /\ Len(file) \in Nat
         /\ \A p \in 1 .. Len(file) : text[p] = file[p]
<1>1. file \in Texts /\ \E b \in Behind : text = file \o b
  BY DEF CInv
<1>2. Len(file) > 0 /\ file[Len(file)].kind = "lf"
  BY DEF WellFormed
<1>3. /\ Lined(text, Len(file)) /\ DOMAIN file = 1 .. Len(file)
      /\ \A p \in 1 .. Len(file) : text[p] = file[p]
  BY <1>1, <1>2, TextIs
<1> QED BY <1>3 DEF Lined

LEMMA InitCInv == Init => CInv
<1> SUFFICES ASSUME Init PROVE CInv
  OBVIOUS
<1>1. /\ pc = "config" /\ file \in Texts /\ \E b \in Behind : text = file \o b
      /\ cut = {} /\ cfg = [kernel |-> NULL, cmdline |-> NULL, modules |-> <<>>]
  BY DEF Init, LInit
<1>2. \A key : SaidTo(file, key)[0] = <<>>
  <2>1. file \in Seq(Pieces(file))
    BY <1>1, TextsAssumption
  <2>2. Len(file) \in Nat
    BY <2>1, LenProperties
  <2> QED BY <2>2, SaidIs DEF SaysSo
<1>3. LastOf(<<>>) = NULL /\ Lists(<<>>, <<>>) /\ Len(<<>>) = 0
  BY DEF LastOf, Lists
<1>4. Agrees(cfg, file, 0)
  BY <1>1, <1>2, <1>3, LoaderAssumption DEF Agrees
<1> QED BY <1>1, <1>4 DEF CInv

(* Reading a line. *)
LEMMA GetLineCInv ==
  ASSUME CInv, _get_line
  PROVE  CInv'
<1>1. pc = "line" /\ pc' = "key" /\ UNCHANGED <<file, text, line, cfg>>
  BY DEF _get_line
<1>2. WellFormed' <=> WellFormed
  BY <1>1 DEF WellFormed
<1>3. file' \in Texts /\ \E b \in Behind : text' = file' \o b
  BY <1>1 DEF CInv, Parsing
<1> SUFFICES ASSUME WellFormed PROVE OnKey'
  BY <1>1, <1>2, <1>3 DEF CInv
<1>4. PICK len : len = Len(file)
  OBVIOUS
<1>5. Lined(text, len) /\ len \in Nat
  BY <1>1, <1>4, FileLined DEF Parsing
<1>6. \/ LineEndOf(text, cut, line) = {} /\ next' = 0 /\ cut' = cut
      \/ \E e \in LineEndOf(text, cut, line) :
           /\ cut' = cut \cup EndsOf(text, cut, e)
           /\ next' = FollowingOf(text, cut, e, next)
  BY Strings DEF _get_line, Following, FollowingOf
<1>7. OnLine
  BY <1>1 DEF CInv
<1>8. CASE Over
  <2>1. /\ line \in Nat \ {0} /\ next \in Nat /\ Agrees(cfg, file, len)
        /\ Silent(text, cut, len, line) /\ Silent(text, cut, len, next)
    BY <1>4, <1>8 DEF Over
  <2>2. cut \subseteq cut'
    BY <1>6
  <2>3. Silent(text, cut', len, line) /\ Silent(text, cut', len, next)
    BY <2>1, <2>2, SilentStays
  <2>4. CASE LineEndOf(text, cut, line) = {} /\ next' = 0 /\ cut' = cut
    <3>1. Silent(text, cut', len, next')
      BY <2>4 DEF Silent
    <3> QED BY <1>1, <1>4, <2>1, <2>3, <2>4, <3>1 DEF OnKey, Over
  <2>5. ASSUME NEW e \in LineEndOf(text, cut, line),
               cut' = cut \cup EndsOf(text, cut, e),
               next' = FollowingOf(text, cut, e, next)
        PROVE  OnKey'
    <3>1. line > len
      <4>1. PICK q : q \in StrOf(text, cut, line) /\ text[q].kind = "lf"
        BY DEF LineEndOf, EolsOf
      <4> QED BY <2>1, <4>1, Zenon DEF Silent
    <3>2. e \in line .. Len(text)
      BY DEF LineEndOf, EolsOf, StrOf
    <3>3. PICK q : q = e + Cardinality(EndsOf(text, cut, e))
      OBVIOUS
    <3>4. q \in Nat /\ q > len
      <4>1. e \in Nat /\ e > len /\ Len(text) \in Nat
        BY <1>5, <2>1, <3>1, <3>2 DEF Lined
      <4>2. IsFiniteSet(EndsOf(text, cut, e))
        <5>1. IsFiniteSet(e .. Len(text)) /\ EndsOf(text, cut, e) \subseteq e .. Len(text)
          BY <4>1, FS_Interval DEF EndsOf
        <5> QED BY <5>1, FS_Subset
      <4>3. Cardinality(EndsOf(text, cut, e)) \in Nat
        BY <4>2, FS_CardinalityType
      <4> QED BY <1>5, <3>3, <4>1, <4>3
    <3>5. next' = q \/ next' = next
      BY <2>5, <3>3 DEF FollowingOf
    <3>6. next' \in Nat /\ Silent(text, cut', len, next')
      <4>1. CASE next' = q
        BY <3>4, <4>1 DEF Silent
      <4>2. CASE next' = next
        BY <2>1, <2>3, <4>2
      <4> QED BY <3>5, <4>1, <4>2
    <3> QED BY <1>1, <1>4, <2>1, <2>3, <3>6 DEF OnKey, Over
  <2> QED BY <1>6, <2>4, <2>5
<1>9. CASE AtLine(cut, len, line) /\ next \in {0, line} /\ Agrees(cfg, file, line - 1)
  <2>1. LineEndOf(text, cut, line) # {}
    BY <1>5, <1>9, EndOfLine
  <2>2. PICK e \in LineEndOf(text, cut, line) :
          /\ cut' = cut \cup EndsOf(text, cut, e)
          /\ next' = FollowingOf(text, cut, e, next)
    BY <1>6, <2>1
  <2>3. CutOff(text, cut', len, line, next')
    BY <1>5, <1>9, <2>2, LineCut
  <2> QED BY <1>1, <1>4, <1>9, <2>3 DEF OnKey
<1> QED BY <1>4, <1>7, <1>8, <1>9 DEF OnLine

(* Where the '=' of a line is. *)
LEMMA EqualsAre ==
  /\ Str(line) = {} => Equals = {}
  /\ Str(line) = {line} /\ line \in Nat =>
       Equals = IF text[line].kind = "set" THEN {line} ELSE {}
  /\ (\A q \in Str(line) : text[q].kind # "set") => Equals = {}
BY DEF Equals, Of

(* A line with a key that is known is taken as AgreesTakes has it.         *)
LEMMA SetTaken ==
  ASSUME IInv, CInv, pc = "key", WellFormed, NEW len, len = Len(file),
         CutOff(text, cut, len, line, next), Agrees(cfg, file, line - 1),
         Str(line) = {line}, text[line].kind = "set"
  PROVE  /\ Taken(text[line].key, Value(line)) =>
              Agrees(Assigned(text[line].key, Value(line)), file, line)
         /\ Refused(text[line].key, Value(line)) => Wrong
<1>1. /\ Lined(text, len) /\ DOMAIN file = 1 .. len /\ len \in Nat
      /\ \A p \in 1 .. len : text[p] = file[p]
  BY FileLined DEF Parsing
<1>2. PICK l \in 1 .. len : l = line
  BY DEF CutOff
<1>3. PICK x : x = file[l]
  OBVIOUS
<1>4. text[line] = x /\ Value(line) = x.val /\ x.kind = "set"
  BY <1>1, <1>2, <1>3 DEF Value
<1>5. x \in Pieces(file)
  BY <1>1, <1>2, <1>3 DEF Pieces
<1>6. x.key = "CFGVER" => /\ 1 \in Versions(x.val) <=> x.val = "1"
                          /\ (\E w \in Versions(x.val) : w # 1) <=> x.val # "1"
  <2> SUFFICES ASSUME x.key = "CFGVER"
               PROVE  /\ 1 \in Versions(x.val) <=> x.val = "1"
                      /\ (\E w \in Versions(x.val) : w # 1) <=> x.val # "1"
    OBVIOUS
  <2>1. IsSet(x, "CFGVER")
    BY <1>4 DEF IsSet
  <2>2. file \in Texts
    BY DEF CInv, Parsing
  <2>3. x.val # Spoilt /\ x.val \in DOMAIN Chars
    BY <1>5, <2>1, <2>2, TextsAssumption, Zenon
  <2>4. Numeral(Chars[x.val])
    BY <1>1, <1>2, <1>3, <2>1 DEF WellFormed
  <2> QED BY <2>3, <2>4, VersionIs
<1>7. /\ cfg = [kernel |-> cfg.kernel, cmdline |-> cfg.cmdline, modules |-> cfg.modules]
      /\ Listed(cfg.modules)
  BY DEF IInv, Configured
<1>8. MaxModules \in Nat
  BY LoaderAssumption
<1>9. ASSUME Taken(x.key, x.val)
      PROVE  Agrees(Assigned(x.key, x.val), file, l)
  <2>1. /\ x.key = "CFGVER" => x.val = "1"
        /\ x.key = "MODULE" => Len(cfg.modules) < MaxModules
    BY <1>6, <1>9 DEF Taken
  <2>2. PICK c : c = cfg
    OBVIOUS
  <2>3. Assigned(x.key, x.val) = AssignedTo(c, x.key, x.val)
    BY <2>2 DEF Assigned, AssignedTo
  <2>4. Agrees(c, file, l - 1)
    BY <1>2, <2>2
  <2>5. Agrees(AssignedTo(c, x.key, x.val), file, l)
    BY <1>1, <1>3, <1>4, <1>7, <1>8, <2>1, <2>2, <2>4, AgreesTakes
  <2> QED BY <2>3, <2>5
<1>10. ASSUME Refused(x.key, x.val) PROVE Wrong
  <2>1. CASE x.key = "MODULE" /\ Len(cfg.modules) = MaxModules
    <3>1. PICK A : A = SaidTo(file, "MODULE")
      OBVIOUS
    <3>2. SaysSo(file, "MODULE", len, A)
      BY <1>1, <3>1, SaidIs
    <3>3. Len(A[l - 1]) = MaxModules
      BY <1>2, <2>1, <3>1 DEF Agrees, Lists
    <3>4. A[l] = Append(A[l - 1], x.val)
      BY <1>2, <1>3, <1>4, <2>1, <3>2 DEF SaysSo, Adds, IsSet
    <3>5. A[l - 1] \in Seq(Vals(file, len)) /\ x.val \in Vals(file, len)
      <4>1. l - 1 \in 0 .. len
        BY <1>1
      <4>2. x.val \in Vals(file, len)
        BY <1>3 DEF Vals
      <4> QED BY <1>1, <3>2, <4>1, <4>2, SaidSeq
    <3>6. Len(A[l]) = MaxModules + 1
      BY <3>3, <3>4, <3>5, AppendProperties
    <3>7. Len(A[l]) <= Len(A[len])
      <4>1. l \in 0 .. len /\ len \in l .. len
        BY <1>1
      <4> QED BY <1>1, <3>2, <4>1, SaidOn
    <3>8. Len(A[len]) \in Nat
      <4>1. len \in 0 .. len
        BY <1>1
      <4> QED BY <1>1, <3>2, <4>1, SaidSeq, LenProperties
    <3>9. Len(Said("MODULE")) > MaxModules
      BY <1>8, <3>1, <3>6, <3>7, <3>8 DEF Said
    <3> QED BY <3>9 DEF Wrong
  <2>2. CASE x.key = "CFGVER" /\ \E w \in Versions(x.val) : w # 1
    <3>1. x.val # "1" /\ IsSet(x, "CFGVER")
      BY <1>4, <1>6, <2>2 DEF IsSet
    <3> QED BY <1>1, <1>2, <1>3, <3>1 DEF Wrong
  <2> QED BY <1>10, <2>1, <2>2 DEF Refused
<1> QED BY <1>2, <1>4, <1>9, <1>10

(* The rest of an iteration. *)
LEMMA ParseKeyCInv ==
  ASSUME IInv, CInv, ParseKey
  PROVE  CInv'
<1>1. /\ pc = "key" /\ UNCHANGED <<file, text, next>> /\ cut' = cut \cup Equals
      /\ pc' \in {"line", "parsed", "refused"}
  BY DEF ParseKey, NextLine
<1>2. WellFormed' <=> WellFormed
  BY <1>1 DEF WellFormed
<1>3. file' \in Texts /\ \E b \in Behind : text' = file' \o b
  BY <1>1 DEF CInv, Parsing
<1> SUFFICES ASSUME WellFormed
             PROVE  /\ pc' = "line" => OnLine'
                    /\ pc' = "parsed" => Agrees(cfg', file, Len(file))
                    /\ pc' = "refused" => Wrong'
  BY <1>1, <1>2, <1>3 DEF CInv
<1>4. PICK len : len = Len(file)
  OBVIOUS
<1>5. /\ Lined(text, len) /\ DOMAIN file = 1 .. len /\ len \in Nat
      /\ \A p \in 1 .. len : text[p] = file[p]
  BY <1>1, <1>4, FileLined DEF Parsing
<1>6. Wrong' <=> Wrong
  BY <1>1 DEF Wrong, Said
<1>7. OnKey
  BY <1>1 DEF CInv
<1>8. CASE Over
  <2>1. /\ line \in Nat \ {0} /\ next \in Nat /\ Agrees(cfg, file, len)
        /\ Silent(text, cut, len, line) /\ Silent(text, cut, len, next)
    BY <1>4, <1>8 DEF Over
  <2>2. \A q \in Str(line) : text[q].kind # "set"
    <3>1. CASE line > len
      <4>1. Str(line) \subseteq len + 1 .. Len(text)
        BY <1>5, <2>1, <3>1 DEF Str, Lined
      <4> QED BY <1>4, <4>1 DEF WellFormed
    <3>2. CASE \A q \in Str(line) : text[q].kind \notin {"set", "lf"}
      BY <3>2
    <3> QED BY <2>1, <3>1, <3>2, Strings DEF Silent
  <2>3. Equals = {}
    BY <2>2, EqualsAre
  <2>4. NextLine /\ cfg' = cfg /\ cut' = cut
    BY <1>1, <2>3 DEF ParseKey
  <2>5. pc' = "line" => line' = next /\ next # 0
    BY <2>4 DEF NextLine
  <2>6. pc' # "refused"
    BY <2>4 DEF NextLine
  <2> QED BY <1>1, <1>4, <2>1, <2>4, <2>5, <2>6 DEF OnLine, Over
<1>9. CASE CutOff(text, cut, len, line, next) /\ Agrees(cfg, file, line - 1)
  <2>1. line \in 1 .. len
    BY <1>9 DEF CutOff
  <2>2. \/ Str(line) = {} /\ text[line].kind # "set"
        \/ Str(line) = {line} /\ text[line].kind # "lf"
    BY <1>9, Strings DEF CutOff
  <2> DEFINE sets == Str(line) = {line} /\ text[line].kind = "set"
  <2>3. Equals = IF sets THEN {line} ELSE {}
    <3>0. line \in Nat
      BY <1>5, <2>1
    <3>1. CASE sets
      BY <3>0, <3>1, EqualsAre
    <3>2. CASE ~sets
      <4>1. \A q \in Str(line) : text[q].kind # "set"
        BY <2>2, <3>2
      <4> QED BY <3>2, <4>1, EqualsAre
    <3> QED BY <3>1, <3>2
  <2>4. CASE pc' = "refused"
    <3>1. line \in Equals /\ Refused(text[line].key, Value(line))
      BY <2>4 DEF ParseKey, NextLine
    <3> QED BY <1>1, <1>4, <1>6, <1>9, <2>3, <2>4, <3>1, SetTaken
  <2>5. CASE pc' # "refused"
    <3>1. NextLine
      BY <2>5 DEF ParseKey
    <3>2. Agrees(cfg', file, line)
      <4>1. CASE sets
        <5>1. /\ Taken(text[line].key, Value(line))
              /\ cfg' = Assigned(text[line].key, Value(line))
          BY <2>3, <2>5, <4>1 DEF ParseKey
        <5> QED BY <1>1, <1>4, <1>9, <4>1, <5>1, SetTaken
      <4>2. CASE ~sets
        <5>1. cfg' = cfg
          BY <2>3, <4>2 DEF ParseKey
        <5>2. file[line].kind # "set"
          BY <1>5, <2>1, <2>2, <4>2
        <5>3. line - 1 \in 0 .. len /\ line \in line - 1 .. len /\ (line - 1) + 1 .. line = {line}
          BY <1>5, <2>1
        <5>4. \A p \in (line - 1) + 1 .. line : file[p].kind # "set"
          BY <5>2, <5>3
        <5> QED BY <1>4, <1>5, <1>9, <5>1, <5>3, <5>4, AgreesOn
      <4> QED BY <4>1, <4>2
    <3>3. /\ cut' = cut \/ cut' = cut \cup {line}
          /\ StrOf(text, cut, line) = {line} /\ text[line].kind = "set" => line \in cut'
      BY <1>1, <2>3, Strings
    <3>4. /\ next \in Nat
          /\ \/ /\ AtLine(cut', len, next) /\ next \in line + 1 .. len
                /\ \A p \in line + 1 .. next - 1 : text[p].kind # "set"
             \/ /\ Silent(text, cut', len, next)
                /\ \A p \in line + 1 .. len : text[p].kind # "set"
      BY <1>5, <1>9, <3>3, NextLineIs
    <3>5. CASE /\ Silent(text, cut', len, next)
               /\ \A p \in line + 1 .. len : text[p].kind # "set"
      <4>1. \A p \in line + 1 .. len : file[p].kind # "set"
        <5>1. \A p \in line + 1 .. len : p \in 1 .. len
          BY <1>5, <2>1
        <5> QED BY <1>5, <3>5, <5>1
      <4>2. line \in 0 .. len /\ len \in line .. len
        BY <1>5, <2>1
      <4>3. Agrees(cfg', file, len)
        BY <1>4, <1>5, <3>2, <4>1, <4>2, AgreesOn
      <4>4. pc' = "line" => line' = next /\ next # 0
        BY <3>1 DEF NextLine
      <4> QED BY <1>1, <1>4, <2>5, <3>4, <3>5, <4>3, <4>4 DEF OnLine, Over
    <3>6. CASE /\ AtLine(cut', len, next) /\ next \in line + 1 .. len
               /\ \A p \in line + 1 .. next - 1 : text[p].kind # "set"
      <4>1. line' = next /\ pc' = "line"
        BY <1>5, <2>1, <3>1, <3>6 DEF NextLine
      <4>2. \A p \in line + 1 .. next - 1 : file[p].kind # "set"
        <5>1. \A p \in line + 1 .. next - 1 : p \in 1 .. len
          BY <1>5, <2>1, <3>6
        <5> QED BY <1>5, <3>6, <5>1
      <4>3. line \in 0 .. len /\ next - 1 \in line .. len
        BY <1>5, <2>1, <3>6
      <4>4. Agrees(cfg', file, next - 1)
        BY <1>4, <1>5, <3>2, <4>2, <4>3, AgreesOn
      <4> QED BY <1>1, <1>4, <3>6, <4>1, <4>4 DEF OnLine
    <3> QED BY <3>4, <3>5, <3>6
  <2> QED BY <2>4, <2>5
<1> QED BY <1>4, <1>7, <1>8, <1>9 DEF OnKey

LEMMA NextCInv == IInv /\ CInv /\ [Next]_vars => CInv'
<1> SUFFICES ASSUME IInv, CInv, [Next]_vars PROVE CInv'
  OBVIOUS
<1>1. CASE UNCHANGED <<pc, config, cfg>>
  BY <1>1 DEF config, CInv, WellFormed, OnLine, OnKey, Over, Wrong, Said
<1>2. CASE LoadConfig
  <2>1. CASE pc' = "line"
    <3>1. pc = "config" /\ line' = 1 /\ next' = 0 /\ UNCHANGED <<file, text, cut, cfg>>
      BY <1>2, <2>1 DEF LoadConfig, panic
    <3>2. WellFormed' <=> WellFormed
      BY <3>1 DEF WellFormed
    <3>3. file' \in Texts /\ \E b \in Behind : text' = file' \o b
      BY <3>1 DEF CInv, Parsing
    <3>4. ASSUME WellFormed PROVE OnLine'
      <4>1. Lined(text, Len(file)) /\ Len(file) \in Nat
        BY <3>1, <3>4, FileLined DEF Parsing
      <4>2. cut = {} /\ Agrees(cfg, file, 0)
        BY <3>1, <3>4 DEF CInv
      <4>3. 1 \in 1 .. Len(file) /\ 1 - 1 = 0
        BY <4>1 DEF Lined
      <4> QED BY <3>1, <4>2, <4>3 DEF OnLine, AtLine
    <3> QED BY <2>1, <3>2, <3>3, <3>4 DEF CInv
  <2>2. CASE pc' = "panic"
    BY <2>2 DEF CInv, Parsing
  <2> QED BY <1>2, <2>1, <2>2 DEF LoadConfig, panic
<1>3. CASE _get_line
  BY <1>3, GetLineCInv
<1>4. CASE ParseKey
  BY <1>4, ParseKeyCInv
<1>5. CASE ConfigLoaded
  BY <1>5 DEF ConfigLoaded, CInv, Parsing
<1>6. CASE pc' \notin Parsing
  BY <1>6 DEF CInv, Parsing
<1>7. CASE exec_open \/ _elf_prepare \/ LoadFails \/ _exec_detect_multiboot
  BY <1>6, <1>7 DEF exec_open, _elf_prepare, LoadFails, _exec_detect_multiboot, panic, Parsing
<1>8. CASE _elf_load_phdr \/ _exec_load_modules
  BY <1>6, <1>8 DEF _elf_load_phdr, _exec_load_modules, Parsing
<1>9. CASE multiboot2_parse
  <2>1. CASE Begin \/ ParseError \/ Overrun \/ Enter
    BY <1>6, <2>1 DEF Begin, ParseError, Overrun, Enter, panic, Parsing
  <2>2. CASE NextHeaderTag \/ PopCmdline \/ PopName \/ PopMeminfo \/ PopAcpi
    BY <1>1, <2>2 DEF NextHeaderTag, PopCmdline, PopName, PopMeminfo, PopAcpi, NextRequest, lvars
  <2>3. CASE PopModule
    BY <1>1, <2>3 DEF PopModule, NextRequest, lvars
  <2>4. CASE PopMmap
    BY <1>1, <2>4 DEF PopMmap, NextRequest, lvars
  <2> QED BY <1>9, <2>1, <2>2, <2>3, <2>4 DEF multiboot2_parse
<1>10. CASE UNCHANGED vars
  BY <1>1, <1>10 DEF vars, lvars
<1> QED BY <1>2, <1>3, <1>4, <1>5, <1>7, <1>8, <1>9, <1>10 DEF Next, LNext

LEMMA CInvAsWritten == IInv /\ CInv => ConfigAsWritten
<1> SUFFICES ASSUME IInv, CInv, WellFormed
             PROVE  /\ pc = "refused" => Wrong
                    /\ pc = "parsed" =>
                         /\ ~Wrong
                         /\ cfg.kernel = LastSaid("KERNEL") /\ cfg.cmdline = LastSaid("CMDLINE")
                         /\ [i \in DOMAIN cfg.modules |-> cfg.modules[i].path] = Said("MODULE")
  BY DEF ConfigAsWritten
<1>1. pc = "refused" => Wrong
  BY DEF CInv
<1>2. ASSUME pc = "parsed"
      PROVE  /\ ~Wrong
             /\ cfg.kernel = LastSaid("KERNEL") /\ cfg.cmdline = LastSaid("CMDLINE")
             /\ [i \in DOMAIN cfg.modules |-> cfg.modules[i].path] = Said("MODULE")
  <2>1. DOMAIN file = 1 .. Len(file) /\ Len(file) \in Nat
    BY <1>2, FileLined DEF Parsing
  <2>2. Agrees(cfg, file, Len(file))
    BY <1>2 DEF CInv
  <2>3. PICK M : M = Said("MODULE")
    OBVIOUS
  <2>4. M \in Seq(Vals(file, Len(file)))
    <3>1. SaysSo(file, "MODULE", Len(file), SaidTo(file, "MODULE"))
      BY <2>1, SaidIs
    <3>2. Len(file) \in 0 .. Len(file)
      BY <2>1
    <3> QED BY <2>1, <2>3, <3>1, <3>2, SaidSeq DEF Said
  <2>5. PICK ms : ms = cfg.modules
    OBVIOUS
  <2>6. Lists(ms, M) /\ Len(ms) <= MaxModules
    BY <2>2, <2>3, <2>5 DEF Agrees, Said
  <2>7. DOMAIN ms = 1 .. Len(ms) /\ Len(ms) \in Nat
    BY <2>5, ModulesType DEF IInv
  <2>8. [i \in DOMAIN ms |-> ms[i].path] = M
    <3>1. Len(M) = Len(ms) /\ DOMAIN M = DOMAIN ms /\ \A j \in DOMAIN ms : ms[j].path = M[j]
      BY <2>4, <2>6, <2>7, LenProperties DEF Lists
    <3>2. M = [j \in DOMAIN M |-> M[j]]
      BY <2>4
    <3> QED BY <3>1, <3>2
  <2>9. ~Wrong
    <3>1. ~(Len(M) > MaxModules)
      BY <2>6, <2>7, LoaderAssumption DEF Lists
    <3>2. \A p \in DOMAIN file : IsSet(file[p], "CFGVER") => file[p].val = "1"
      BY <2>1, <2>2 DEF Agrees
    <3> QED BY <2>3, <3>1, <3>2 DEF Wrong
  <2>10. cfg.kernel = LastSaid("KERNEL") /\ cfg.cmdline = LastSaid("CMDLINE")
    BY <2>2, Zenon DEF Agrees, LastSaid, LastOf, Said
  <2> QED BY <2>3, <2>5, <2>8, <2>9, <2>10
<1> QED BY <1>1, <1>2

LEMMA CInvariance == Spec => [](IInv /\ CInv)
<1>1. Init => IInv /\ CInv
  BY InitIInv, InitCInv
<1>2. IInv /\ CInv /\ [Next]_vars => (IInv /\ CInv)'
  BY NextIInv, NextCInv
<1> QED BY <1>1, <1>2, PTL DEF Spec

(* A well-formed file is refused only for what is wrong with it, and       *)
(* otherwise the configuration has what the last line with each key says   *)
(* and the modules in the order of their lines, none lost or made up:      *)
(* config.c:79-130 over the tokenizing of config.c:34-77, which cuts the   *)
(* string it reads, for every file, of any number of lines.                *)
THEOREM ConfigurationRead == Spec => []ConfigAsWritten
BY CInvariance, CInvAsWritten, PTL

------------------------------------------------------------------------------
(***************************************************************************)
(* What a value is, for the lengths of strings.                            *)
(***************************************************************************)
Named == Values \cup {Spoilt}

Valued ==
  /\ Len(text) \in Nat /\ \A p \in 1 .. Len(text) : text[p].val \in Values
  /\ line \in Nat /\ next \in Nat /\ (pc \in {"line", "key"} => line # 0)
  /\ cfg.cmdline \in Named \cup {NULL}
  /\ \A i \in DOMAIN cfg.modules : cfg.modules[i].path \in Named

LEMMA TextValues ==
  ASSUME NEW t \in Texts, NEW b \in Behind, NEW T, T = t \o b
  PROVE  Len(T) \in Nat /\ \A p \in 1 .. Len(T) : T[p].val \in Values
<1>1. t \in Seq(Pieces(t)) /\ b \in Seq(Pieces(b))
  BY TextsAssumption
<1>2. PICK W : W = Pieces(t) \cup Pieces(b)
  OBVIOUS
<1>3. T \in Seq(W)
  BY <1>1, <1>2, SeqMonotonic, ConcatProperties
<1>4. \A x \in W : x.val \in Values
  BY <1>2 DEF Values
<1> QED BY <1>3, <1>4, LenProperties, ElementOfSeq

LEMMA InitValued == Init => Valued
<1> SUFFICES ASSUME Init PROVE Valued
  OBVIOUS
<1>1. /\ \E t \in Texts, b \in Behind : text = t \o b
      /\ line = 0 /\ next = 0 /\ pc = "config"
      /\ cfg = [kernel |-> NULL, cmdline |-> NULL, modules |-> <<>>]
  BY DEF Init, LInit
<1>2. Len(text) \in Nat /\ \A p \in 1 .. Len(text) : text[p].val \in Values
  BY <1>1, TextValues
<1> QED BY <1>1, <1>2 DEF Valued

LEMMA ReadValued ==
  ASSUME Valued, _get_line
  PROVE  Valued'
<1>1. /\ UNCHANGED <<text, line, cfg>> /\ pc = "line"
      /\ \/ next' = 0
         \/ \E e \in LineEnd(line) : next' = Following(e)
  BY DEF _get_line
<1>2. ASSUME NEW e \in LineEnd(line), next' = Following(e) PROVE next' \in Nat
  <2>1. line \in Nat /\ next \in Nat /\ Len(text) \in Nat
    BY DEF Valued
  <2>2. e \in line .. Len(text)
    BY DEF LineEnd, Of, Str
  <2>3. IsFiniteSet(Ends(e))
    <3>1. e \in Int /\ Len(text) \in Int /\ Ends(e) \subseteq e .. Len(text)
      BY <2>1, <2>2 DEF Ends
    <3> QED BY <3>1, FS_Interval, FS_Subset
  <2>4. Cardinality(Ends(e)) \in Nat
    BY <2>3, FS_CardinalityType
  <2>5. e + Cardinality(Ends(e)) \in Nat
    BY <2>1, <2>2, <2>4
  <2> QED BY <1>2, <2>1, <2>5 DEF Following
<1>3. next' \in Nat
  BY <1>1, <1>2
<1> QED BY <1>1, <1>3 DEF Valued

LEMMA ParseValued ==
  ASSUME IInv, Valued, ParseKey
  PROVE  Valued'
<1>1. /\ pc = "key" /\ UNCHANGED <<text, next>>
      /\ line' = line \/ (line' = next /\ (pc' = "line" => next # 0))
      /\ pc' \in {"line", "parsed", "refused"} /\ (line' = line /\ pc' = "line" => line # 0)
      /\ \/ cfg' = cfg
         \/ line \in Equals /\ cfg' = Assigned(text[line].key, Value(line))
  BY DEF ParseKey, NextLine, Valued
<1>2. line' \in Nat /\ (pc' \in {"line", "key"} => line' # 0)
  BY <1>1 DEF Valued
<1>3. CASE cfg' = cfg
  BY <1>1, <1>2, <1>3 DEF Valued
<1>4. ASSUME line \in Equals, cfg' = Assigned(text[line].key, Value(line))
      PROVE  Valued'
  <2>1. line \in 1 .. Len(text)
    BY <1>1, <1>4 DEF Equals, Of, Str, Valued
  <2>2. PICK v \in Named : v = Value(line)
    BY <2>1 DEF Value, Valued, Named
  <2>3. \/ cfg' = cfg \/ cfg' = [cfg EXCEPT !.kernel = v]
        \/ cfg' = [cfg EXCEPT !.cmdline = v]
        \/ cfg' = [cfg EXCEPT !.modules = Append(cfg.modules, Module(v))]
    BY <1>4, <2>2 DEF Assigned
  <2>4. PICK k, c, ms, am :
          /\ cfg = [kernel |-> k, cmdline |-> c, modules |-> ms] /\ Listed(ms)
          /\ k = cfg.kernel /\ c = cfg.cmdline /\ ms = cfg.modules
          /\ am = Append(ms, Module(v))
    BY DEF IInv, Configured
  <2>5. \/ cfg' = cfg
        \/ cfg' = [kernel |-> v, cmdline |-> c, modules |-> ms]
        \/ cfg' = [kernel |-> k, cmdline |-> v, modules |-> ms]
        \/ cfg' = [kernel |-> k, cmdline |-> c, modules |-> am]
    BY <2>3, <2>4
  <2>6. /\ cfg'.cmdline \in {c, v} /\ cfg'.modules \in {ms, am}
    BY <2>4, <2>5
  <2>7. c \in Named \cup {NULL} /\ \A i \in DOMAIN ms : ms[i].path \in Named
    BY <2>4 DEF Valued
  <2>8. \A i \in DOMAIN am : am[i].path \in Named
    <3>1. Module(v).path = v
      BY DEF Module
    <3>2. PICK S : ms \in Seq(S)
      BY <2>4 DEF Listed
    <3>3. PICK m : m = Module(v)
      OBVIOUS
    <3>4. ms \in Seq(S \cup {m})
      BY <3>2, SeqMonotonic
    <3>5. /\ DOMAIN am = 1 .. Len(ms) + 1 /\ DOMAIN ms = 1 .. Len(ms) /\ Len(ms) \in Nat
          /\ am[Len(ms) + 1] = m /\ \A i \in 1 .. Len(ms) : am[i] = ms[i]
      BY <2>4, <3>3, <3>4
    <3> QED BY <2>2, <2>7, <3>1, <3>3, <3>5
  <2>9. /\ cfg'.cmdline \in Named \cup {NULL}
        /\ \A i \in DOMAIN cfg'.modules : cfg'.modules[i].path \in Named
    BY <2>6, <2>7, <2>8
  <2> QED BY <1>1, <1>2, <2>9 DEF Valued
<1> QED BY <1>1, <1>3, <1>4

LEMMA ModulesValued ==
  ASSUME IInv, Valued, _exec_load_modules
  PROVE  Valued'
<1>1. PICK ns : /\ cfg' = [kernel |-> cfg.kernel, cmdline |-> cfg.cmdline, modules |-> ns]
                /\ DOMAIN ns = DOMAIN cfg.modules
                /\ ns[n].path = cfg.modules[n].path
                /\ \A j \in DOMAIN cfg.modules \ {n} : ns[j] = cfg.modules[j]
  <2>1. PICK ms, path, a, len : /\ ms = cfg.modules /\ path = ms[n].path
                                /\ a = ALIGN(addr, 2) /\ len = Disk[path].size
    OBVIOUS
  <2>2. PICK ns : /\ cfg' = [kernel |-> cfg.kernel, cmdline |-> cfg.cmdline, modules |-> ns]
                  /\ DOMAIN ns = DOMAIN ms
                  /\ ns[n] = [path |-> path, addr |-> a, size |-> len]
                  /\ \A j \in DOMAIN ms \ {n} : ns[j] = ms[j]
    BY <2>1, ModuleGiven
  <2>3. ns[n].path = path
    BY <2>2
  <2> QED BY <2>1, <2>2, <2>3, ZenonT(60)
<1>2. cfg'.cmdline = cfg.cmdline /\ cfg'.modules = ns
  BY <1>1
<1>3. \A i \in DOMAIN ns : ns[i].path \in Named
  BY <1>1 DEF Valued
<1>4. UNCHANGED <<text, line, next, pc>>
  BY DEF _exec_load_modules, config
<1> QED BY <1>2, <1>3, <1>4 DEF Valued

LEMMA NextValued == IInv /\ Valued /\ [Next]_vars => Valued'
<1> SUFFICES ASSUME IInv, Valued, [Next]_vars PROVE Valued'
  OBVIOUS
<1>1. CASE UNCHANGED <<text, line, next, cfg>> /\ (pc' \in {"line", "key"} => pc' = pc)
  BY <1>1 DEF Valued
<1>2. CASE LoadConfig
  BY <1>2 DEF LoadConfig, panic, config, Valued
<1>3. CASE ConfigLoaded
  BY <1>3 DEF ConfigLoaded, Valued
<1>4. CASE exec_open \/ _elf_prepare \/ _elf_load_phdr \/ LoadFails \/ _exec_detect_multiboot
  BY <1>1, <1>4 DEF exec_open, _elf_prepare, _elf_load_phdr, LoadFails, _exec_detect_multiboot,
     panic, config
<1>5. CASE LNext
  BY <1>2, <1>3, <1>4, <1>5, ReadValued, ParseValued, ModulesValued DEF LNext
<1>6. CASE multiboot2_parse
  <2>1. CASE Begin
    BY <1>1, <2>1 DEF Begin, config
  <2>2. CASE NextHeaderTag \/ ParseError \/ Overrun \/ Enter
    BY <1>1, <2>2 DEF NextHeaderTag, ParseError, Overrun, Enter, panic, lvars, config
  <2>3. CASE PopCmdline \/ PopName \/ PopMeminfo \/ PopAcpi
    BY <1>1, <2>3 DEF PopCmdline, PopName, PopMeminfo, PopAcpi, NextRequest, lvars, config
  <2>4. CASE PopModule
    BY <1>1, <2>4 DEF PopModule, NextRequest, lvars, config
  <2>5. CASE PopMmap
    BY <1>1, <2>5 DEF PopMmap, NextRequest, lvars, config
  <2> QED BY <1>6, <2>1, <2>2, <2>3, <2>4, <2>5 DEF multiboot2_parse
<1>7. CASE UNCHANGED vars
  BY <1>1, <1>7 DEF vars, lvars, config
<1> QED BY <1>5, <1>6, <1>7 DEF Next

------------------------------------------------------------------------------
(***************************************************************************)
(* Where the kernel lies: below data_end is nothing of any other file, and *)
(* data_begin is its lowest segment, if that is in memory.                 *)
(***************************************************************************)
Own == {"lboot", "free", "zero"}

From(w, lim, S) == \A a \in 0 .. MemTop - 1 : a < lim => w[a].of \in S

Spans(begin, end, m) ==
  /\ begin \in Nat /\ end \in Nat
  /\ begin = MemTop \/ \E i \in Loadable : i < m /\ begin = Phdrs[i].paddr
  /\ \A i \in Loadable : i < m => begin <= Phdrs[i].paddr /\ SegEnd(Phdrs[i]) <= end

Loaded ==
  /\ Spans(data_begin, data_end, Len(Phdrs) + 1)
  /\ data_end <= addr /\ From(mem, data_end, Own \cup {cfg.kernel})

Chosen ==
  \/ Magics = {} /\ pc = "entered"
  \/ Magics # {} /\ multiboot = First(Magics)

Placing ==
  /\ pc \in Starting => From(mem, MemTop, Own)
  /\ pc = "prepare" => data_begin = MemTop
  /\ pc = "load" => /\ Spans(data_begin, data_end, n)
                    /\ From(mem, MemTop, Own \cup {cfg.kernel})
  /\ pc \in {"modules"} \cup Booting => Loaded
  /\ pc \in Booting => Chosen

LEMMA InitPlacing == Init => Placing
<1> SUFFICES ASSUME Init PROVE Placing
  OBVIOUS
<1>1. /\ pc = "config"
      /\ mem = [a \in 0 .. MemTop - 1 |-> Holds(IF a < MiB THEN "lboot" ELSE "free", 0)]
  BY DEF Init, LInit
<1>2. From(mem, MemTop, Own)
  BY <1>1 DEF From, Own, Holds
<1> QED BY <1>1, <1>2 DEF Placing, Booting

(* A step that leaves all of it alone. *)
LEMMA NothingPlaced ==
  ASSUME Placing, UNCHANGED <<mem, addr, data_begin, data_end>>,
         \/ pc' \in {"panic", "wrecked"}
         \/ pc \in Starting /\ pc' \in Starting \ {"prepare"}
         \/ /\ pc \in Booting \ {"entered"} /\ pc' \in Booting \ {"entered"}
            /\ UNCHANGED <<cfg, multiboot>>
         \/ pc = "tags" /\ pc' = "entered" /\ UNCHANGED <<cfg, multiboot>>
         \/ pc' = pc /\ UNCHANGED <<cfg, n, multiboot>>
  PROVE  Placing'
<1>1. Magics' = Magics
  BY DEF Magics, Magic
<1>2. CASE pc' \in {"panic", "wrecked"}
  BY <1>2 DEF Placing, Starting, Booting
<1>3. CASE pc \in Starting /\ pc' \in Starting \ {"prepare"}
  BY <1>3 DEF Placing, Starting, Booting
<1>4. CASE UNCHANGED <<cfg, multiboot>>
  <2>1. Loadable' = Loadable /\ Phdrs' = Phdrs
    BY <1>4 DEF Loadable, Phdrs, Kernel
  <2>2. Loaded' = Loaded
    BY <1>4, <2>1 DEF Loaded, Spans
  <2>3. CASE pc \in Booting \ {"entered"} /\ pc' \in Booting \ {"entered"}
    <3>1. Chosen'
      BY <1>1, <1>4, <2>3 DEF Placing, Chosen, Booting
    <3> QED BY <2>2, <2>3, <3>1 DEF Placing, Starting, Booting
  <2>4. CASE pc = "tags" /\ pc' = "entered"
    <3>1. Chosen'
      BY <1>1, <1>4, <2>4 DEF Placing, Chosen, Booting
    <3> QED BY <2>2, <2>4, <3>1 DEF Placing, Starting, Booting
  <2>5. CASE pc' = pc /\ n' = n
    <3>1. Chosen' = Chosen
      BY <1>1, <1>4, <2>5 DEF Chosen
    <3>2. Spans(data_begin, data_end, n)' = Spans(data_begin, data_end, n)
      BY <2>1, <2>5 DEF Spans
    <3> QED BY <1>4, <2>2, <2>5, <3>1, <3>2 DEF Placing
  <2> QED BY <1>2, <1>3, <2>3, <2>4, <2>5
<1> QED BY <1>2, <1>3, <1>4

LEMMA FirstSpan ==
  ASSUME IInv, Placing, pc = "prepare"
  PROVE  Spans(data_begin, data_end, n)
<1>1. /\ n = 1 /\ data_end = 0 /\ data_begin = MemTop /\ cfg.kernel \in DOMAIN Disk
  BY DEF IInv, Started, Configured, Placing, Starting
<1>2. \A i \in Loadable : ~(i < 1)
  BY <1>1, PhdrTypes, LoadableIs
<1> QED BY <1>1, <1>2, LoaderAssumption DEF Spans

LEMMA PreparePlacing ==
  ASSUME IInv, Placing, _elf_prepare
  PROVE  Placing'
<1>1. \/ panic
      \/ /\ pc = "prepare" /\ pc' = "load"
         /\ UNCHANGED <<cfg, mem, n, addr, data_begin, data_end>>
  BY DEF _elf_prepare, exec
<1>2. CASE panic
  BY <1>2, NothingPlaced DEF panic, exec
<1>3. CASE /\ pc = "prepare" /\ pc' = "load"
           /\ UNCHANGED <<cfg, mem, n, addr, data_begin, data_end>>
  <2>1. Spans(data_begin, data_end, n)
    BY <1>3, FirstSpan, SMTT(60)
  <2>2. Spans(data_begin, data_end, n)'
    BY <1>3, <2>1 DEF Spans, Loadable, Phdrs, Kernel
  <2>3. From(mem, MemTop, Own)
    BY <1>3 DEF Placing, Starting
  <2>4. From(mem, MemTop, Own \cup {cfg.kernel})'
    BY <1>3, <2>3 DEF From
  <2> QED BY <1>3, <2>2, <2>4 DEF Placing, Starting, Booting
<1> QED BY <1>1, <1>2, <1>3

(* What a read leaves is from where it was, or of the file read. *)
LEMMA FilledFrom ==
  ASSUME NEW v, NEW w, NEW a \in Nat, NEW len \in Nat, Same(w, v, a, len),
         NEW S, From(v, MemTop, S),
         \A k \in 0 .. len - 1 : a + k < MemTop => w[a + k].of \in S
  PROVE  From(w, MemTop, S)
<1> SUFFICES ASSUME NEW b \in 0 .. MemTop - 1, b < MemTop PROVE w[b].of \in S
  BY DEF From
<1>1. CASE b < a \/ b >= a + len
  BY <1>1 DEF Same, From
<1>2. CASE ~(b < a \/ b >= a + len)
  <2>1. PICK k : k = b - a
    OBVIOUS
  <2>2. k \in 0 .. len - 1 /\ a + k = b
    BY <1>2, <2>1
  <2> QED BY <2>2
<1> QED BY <1>1, <1>2

LEMMA SegmentPlacing ==
  ASSUME IInv, Placing, pc = "load", n \in Loadable, LoadSegment(Phdrs[n]),
         n' = n + 1, pc' = pc, cfg' = cfg
  PROVE  Placing'
<1> DEFINE p == Phdrs[n]
           a == p.paddr
           len == Extent(p)
           f == cfg.kernel
<1>1. /\ f \in DOMAIN Disk /\ DOMAIN mem = 0 .. MemTop - 1 /\ n \in Nat
      /\ From(mem, MemTop, Own \cup {f}) /\ Spans(data_begin, data_end, n)
  BY DEF IInv, Configured, Loading, Placing
<1>2. \A i \in Loadable : /\ Phdrs[i].paddr \in Nat /\ Phdrs[i].memsz \in Nat
                          /\ Phdrs[i].filesz \in Nat /\ i \in Nat
  <2>1. cfg.kernel \in DOMAIN Disk
    BY <1>1
  <2> QED BY <2>1, PhdrTypes, LoadableIs
<1>3. a \in Nat /\ p.memsz \in Nat /\ p.filesz \in Nat /\ len \in Nat
  BY <1>2 DEF Extent
<1> DEFINE bytes == [k \in 0 .. len - 1 |->
                      IF k < p.filesz THEN Holds(f, p.offset + k) ELSE Holds("zero", 0)]
<1>4. /\ mem' = Filled(a, bytes) /\ DOMAIN bytes = 0 .. len - 1
      /\ data_end' = IF SegEnd(p) > data_end THEN SegEnd(p) ELSE data_end
      /\ data_begin' = IF a < data_begin THEN a ELSE data_begin
  BY DEF LoadSegment
<1>5. SegEnd(p) \in Nat /\ \A i \in Loadable : SegEnd(Phdrs[i]) \in Nat
  BY <1>2, <1>3 DEF SegEnd
<1>6. \A k \in 0 .. len - 1 : bytes[k].of \in Own \cup {f}
  BY DEF Holds, Own
<1> HIDE DEF bytes, len, a
<1>7. /\ Same(mem', mem, a, len)
      /\ \A k \in 0 .. len - 1 : a + k < MemTop => mem'[a + k] = bytes[k]
  BY <1>1, <1>3, <1>4, FilledIs DEF Same
<1>8. From(mem', MemTop, Own \cup {f})
  BY <1>1, <1>3, <1>6, <1>7, FilledFrom
<1>9. Loadable' = Loadable /\ Phdrs' = Phdrs
  BY DEF Loadable, Phdrs, Kernel
<1>10. Spans(data_begin', data_end', n + 1)
  <2> DEFINE begin == data_begin
             end == data_end
             b2 == data_begin'
             e2 == data_end'
  <2>1. /\ begin \in Nat /\ end \in Nat
        /\ begin = MemTop \/ \E i \in Loadable : i < n /\ begin = Phdrs[i].paddr
        /\ \A i \in Loadable : i < n => begin <= Phdrs[i].paddr /\ SegEnd(Phdrs[i]) <= end
    BY <1>1 DEF Spans
  <2>2. /\ b2 \in Nat /\ e2 \in Nat /\ b2 <= begin /\ b2 <= a /\ end <= e2 /\ SegEnd(p) <= e2
        /\ b2 \in {begin, a}
    BY <1>3, <1>4, <1>5, <2>1
  <2> HIDE DEF b2, e2, begin, end
  <2>3. ASSUME NEW i \in Loadable, i < n + 1
        PROVE  b2 <= Phdrs[i].paddr /\ SegEnd(Phdrs[i]) <= e2
    <3>1. i < n \/ i = n
      BY <1>1, <1>2, <2>3
    <3> DEFINE x == Phdrs[i].paddr
               y == SegEnd(Phdrs[i])
    <3>2. x \in Nat /\ y \in Nat
      BY <1>2, <1>5
    <3>3. CASE i < n
      <4>1. begin <= x /\ y <= end
        BY <2>1, <3>3
      <4> HIDE DEF x, y
      <4>2. b2 <= x /\ y <= e2
        BY <2>1, <2>2, <3>2, <4>1
      <4> QED BY <4>2 DEF x, y
    <3>4. CASE i = n
      BY <2>2, <3>4 DEF a
    <3> QED BY <3>1, <3>3, <3>4
  <2>4. b2 = MemTop \/ \E i \in Loadable : i < n + 1 /\ b2 = Phdrs[i].paddr
    <3>1. CASE b2 = begin
      BY <1>1, <1>2, <2>1, <3>1
    <3>2. CASE b2 = a
      <4>1. n \in Loadable /\ n < n + 1
        BY <1>1
      <4> QED BY <3>2, <4>1 DEF a
    <3> QED BY <2>2, <3>1, <3>2
  <2> QED BY <2>2, <2>3, <2>4 DEF Spans, b2, e2
<1>11. Spans(data_begin, data_end, n)'
  BY <1>9, <1>10 DEF Spans
<1> QED BY <1>8, <1>11 DEF Placing, Starting, Booting

LEMMA LoadPlacing ==
  ASSUME IInv, Placing, _elf_load_phdr
  PROVE  Placing'
<1>1. /\ pc = "load" /\ cfg' = cfg /\ cfg.kernel \in DOMAIN Disk /\ n \in Nat
      /\ Spans(data_begin, data_end, n) /\ From(mem, MemTop, Own \cup {cfg.kernel})
  BY DEF _elf_load_phdr, IInv, Configured, Loading, Placing
<1>2. Loadable' = Loadable /\ Phdrs' = Phdrs
  BY <1>1 DEF Loadable, Phdrs, Kernel
<1>3. Len(Phdrs) \in Nat /\ \A i \in Loadable : i \in 1 .. Len(Phdrs)
  BY <1>1, PhdrTypes, LoadableIs
<1>4. CASE n > Len(Phdrs)
  <2>1. /\ pc' = "modules" /\ addr' = data_end
        /\ data_begin' = data_begin /\ data_end' = data_end /\ mem' = mem
    BY <1>1, <1>4, PhdrTypes DEF _elf_load_phdr, Phdrs
  <2>2. \A i \in Loadable : i < n /\ i < Len(Phdrs) + 1
    BY <1>1, <1>3, <1>4
  <2>3. Spans(data_begin, data_end, Len(Phdrs) + 1)
    BY <1>1, <2>2 DEF Spans
  <2>4. data_end <= data_end /\ data_end \in Nat
    BY <1>1 DEF Spans
  <2>5. From(mem, data_end, Own \cup {cfg.kernel})
    BY <1>1, LoaderAssumption DEF From
  <2>6. Loaded'
    <3>1. Spans(data_begin, data_end, Len(Phdrs) + 1)'
      BY <1>2, <2>1, <2>3 DEF Spans
    <3>2. From(mem, data_end, Own \cup {cfg.kernel})'
      BY <1>1, <2>1, <2>5 DEF From
    <3> QED BY <2>1, <2>4, <3>1, <3>2 DEF Loaded
  <2> QED BY <2>1, <2>6 DEF Placing, Starting, Booting
<1>5. CASE ~(n > Len(Phdrs)) /\ n \notin Loadable
  <2>1. /\ pc' = "load" /\ n' = n + 1 /\ data_begin' = data_begin
        /\ data_end' = data_end /\ mem' = mem
    BY <1>1, <1>5, PhdrTypes DEF _elf_load_phdr, Phdrs
  <2>2. \A i \in Loadable : i < n + 1 <=> i < n
    BY <1>1, <1>3, <1>5
  <2>3. Spans(data_begin, data_end, n)'
    BY <1>1, <1>2, <2>1, <2>2 DEF Spans
  <2>4. From(mem, MemTop, Own \cup {cfg.kernel})'
    BY <1>1, <2>1 DEF From
  <2> QED BY <2>1, <2>3, <2>4 DEF Placing, Starting, Booting
<1>6. CASE ~(n > Len(Phdrs)) /\ n \in Loadable
  <2>1. pc' = pc /\ n' = n + 1 /\ LoadSegment(Phdrs[n])
    BY <1>1, <1>6, PhdrTypes DEF _elf_load_phdr, Phdrs
  <2> QED BY <1>1, <1>6, <2>1, SegmentPlacing
<1> QED BY <1>4, <1>5, <1>6

LEMMA ModulesPlacing ==
  ASSUME IInv, Placing, _exec_load_modules
  PROVE  Placing'
<1>1. PICK path, a, len : /\ path = cfg.modules[n].path /\ a = ALIGN(addr, 2)
                          /\ len = Disk[path].size
  OBVIOUS
<1> DEFINE bytes == [k \in 0 .. len - 1 |-> Holds(path, k)]
<1>2. /\ pc = "modules" /\ pc' = "modules" /\ addr' = a + len /\ mem' = Filled(a, bytes)
      /\ data_begin' = data_begin /\ data_end' = data_end
  BY <1>1 DEF _exec_load_modules
<1>3. a \in Nat /\ addr <= a /\ len \in Nat /\ cfg'.kernel = cfg.kernel
  <2>1. PICK ms : ms = cfg.modules /\ path = ms[n].path
    BY <1>1
  <2>2. /\ a \in Nat /\ addr <= a /\ len \in Nat
        /\ \E ns : cfg' = [kernel |-> cfg.kernel, cmdline |-> cfg.cmdline, modules |-> ns]
    BY <1>1, <2>1, ModuleGiven, ZenonT(60)
  <2> QED BY <2>2
<1>4. /\ Spans(data_begin, data_end, Len(Phdrs) + 1) /\ data_end <= addr
      /\ From(mem, data_end, Own \cup {cfg.kernel})
      /\ addr \in Nat /\ DOMAIN mem = 0 .. MemTop - 1
  BY <1>2 DEF IInv, Appending, Placing, Loaded
<1>5. DOMAIN bytes = 0 .. len - 1
  OBVIOUS
<1> HIDE DEF bytes
<1>6. Same(mem', mem, a, len)
  BY <1>2, <1>3, <1>4, <1>5, FilledIs DEF Same
<1>7. data_end \in Nat /\ data_end <= a /\ data_end <= a + len
  <2>1. data_end \in Nat
    BY <1>4 DEF Spans
  <2> QED BY <1>3, <1>4, <2>1
<1>8. From(mem', data_end, Own \cup {cfg.kernel})
  <2> SUFFICES ASSUME NEW b \in 0 .. MemTop - 1, b < data_end
               PROVE  mem'[b].of \in Own \cup {cfg.kernel}
    BY DEF From
  <2>1. b < a
    BY <1>3, <1>7
  <2>2. mem'[b] = mem[b]
    BY <1>6, <2>1 DEF Same
  <2> QED BY <1>4, <2>2 DEF From
<1>9. Loadable' = Loadable /\ Phdrs' = Phdrs
  BY <1>3 DEF Loadable, Phdrs, Kernel
<1>10. Loaded'
  <2>1. Spans(data_begin, data_end, Len(Phdrs) + 1)'
    BY <1>2, <1>4, <1>9 DEF Spans
  <2>2. From(mem, data_end, Own \cup {cfg.kernel})'
    BY <1>2, <1>3, <1>8
  <2> QED BY <1>2, <1>7, <2>1, <2>2 DEF Loaded
<1> QED BY <1>2, <1>10 DEF Placing, Starting, Booting

LEMMA DetectPlacing ==
  ASSUME IInv, Placing, _exec_detect_multiboot
  PROVE  Placing'
<1>1. /\ pc = "modules" /\ UNCHANGED <<cfg, mem, addr, data_begin, data_end>>
      /\ \/ Magics = {} /\ pc' = "entered"
         \/ pc' = "panic"
         \/ Magics # {} /\ pc' = "header" /\ multiboot' = First(Magics)
  BY DEF _exec_detect_multiboot
<1>2. Magics' = Magics
  BY <1>1 DEF Magics, Magic
<1>3. Chosen' \/ pc' = "panic"
  BY <1>1, <1>2 DEF Chosen
<1>4. Loaded
  BY <1>1, SMTT(60) DEF Placing
<1>5. Loaded'
  BY <1>1, <1>4 DEF Loaded, Spans, Loadable, Phdrs, Kernel
<1> QED BY <1>1, <1>3, <1>5 DEF Placing, Starting, Booting

LEMMA ParsePlacing ==
  ASSUME Placing, multiboot2_parse
  PROVE  Placing'
<1>1. /\ UNCHANGED <<cfg, mem, n, addr, data_begin, data_end, multiboot>>
      /\ \/ pc' \in {"panic", "wrecked"}
         \/ pc' = pc
         \/ pc = "header" /\ pc' = "tags"
         \/ pc = "tags" /\ pc' = "entered"
  <2>1. CASE Begin
    BY <2>1 DEF Begin, exec
  <2>2. CASE NextHeaderTag \/ ParseError \/ Overrun \/ Enter
    BY <2>2 DEF NextHeaderTag, ParseError, Overrun, Enter, panic, lvars, exec
  <2>3. CASE PopCmdline \/ PopName \/ PopMeminfo \/ PopAcpi
    BY <2>3 DEF PopCmdline, PopName, PopMeminfo, PopAcpi, NextRequest, lvars, exec
  <2>4. CASE PopModule
    BY <2>4 DEF PopModule, NextRequest, lvars, exec
  <2>5. CASE PopMmap
    BY <2>5 DEF PopMmap, NextRequest, lvars, exec
  <2> QED BY <2>1, <2>2, <2>3, <2>4, <2>5 DEF multiboot2_parse
<1> QED BY <1>1, NothingPlaced DEF Booting

LEMMA OpenPlacing ==
  ASSUME IInv, Placing, exec_open
  PROVE  Placing'
<1>1. CASE panic
  BY <1>1, NothingPlaced DEF panic, exec
<1>2. CASE ~panic
  <2>1. pc = "kernel" /\ pc' = "prepare" /\ mem' = mem /\ data_begin' = MemTop
    BY <1>2 DEF exec_open
  <2> QED BY <2>1 DEF Placing, Starting, Booting
<1> QED BY <1>1, <1>2

LEMMA NextPlacing == IInv /\ Placing /\ [Next]_vars => Placing'
<1> SUFFICES ASSUME IInv, Placing, [Next]_vars PROVE Placing'
  OBVIOUS
<1>1. CASE LoadConfig
  BY <1>1, NothingPlaced DEF LoadConfig, panic, exec, Starting
<1>2. CASE _get_line
  BY <1>2, NothingPlaced DEF _get_line, exec, Starting
<1>3. CASE ParseKey
  BY <1>3, NothingPlaced DEF ParseKey, NextLine, exec, Starting
<1>4. CASE ConfigLoaded
  BY <1>4, NothingPlaced DEF ConfigLoaded, exec, Starting
<1>5. CASE LoadFails
  BY <1>5, NothingPlaced DEF LoadFails, panic, exec
<1>6. CASE LNext
  BY <1>1, <1>2, <1>3, <1>4, <1>5, <1>6, OpenPlacing, PreparePlacing, LoadPlacing,
     ModulesPlacing, DetectPlacing DEF LNext
<1>7. CASE UNCHANGED vars
  BY <1>7, NothingPlaced DEF vars, lvars, exec
<1> QED BY <1>6, <1>7, ParsePlacing DEF Next

(* What First takes of a set of numbers. *)
LEMMA FirstIs ==
  ASSUME NEW S, S \subseteq Int, NEW x \in S, \A y \in S : x <= y
  PROVE  First(S) = x
<1>1. First(S) \in S /\ \A y \in S : First(S) <= y
  BY Zenon DEF First
<1>2. PICK f \in S : f = First(S) /\ f <= x
  BY <1>1
<1>3. f \in Int /\ x \in Int /\ x <= f
  OBVIOUS
<1>4. f = x
  BY <1>2, <1>3
<1> QED BY <1>2, <1>4

LEMMA FirstOf ==
  ASSUME NEW S, S \subseteq Nat, NEW x \in S
  PROVE  First(S) \in S /\ First(S) <= x
<1>1. PICK y \in S : \A z \in S : y <= z
  BY Least
<1>2. S \subseteq Int
  OBVIOUS
<1>3. First(S) = y
  BY <1>1, <1>2, FirstIs
<1> QED BY <1>1, <1>3

MagicIn(a) ==
  a < MemTop /\ mem[a].of \in DOMAIN Disk /\ mem[a].at \in DOMAIN Disk[mem[a].of].magic

LEMMA MagicOf ==
  ASSUME NEW a, a \in Magics
  PROVE  MagicIn(a) /\ a \in data_begin .. data_begin + Window - 1
BY DEF Magics, Magic, MagicIn

LEMMA MagicsNat ==
  ASSUME data_begin \in Nat
  PROVE  Magics \subseteq Nat
BY LoaderAssumption DEF Magics

(* A kernel with a header is entered with that header found.               *)
LEMMA HeaderFound ==
  ASSUME IInv, Placing, pc = "entered", Sound, addr <= MemTop, Headed
  PROVE  Magics # {} /\ multiboot # 0 /\ mem[multiboot].of = cfg.kernel
<1>1. /\ cfg.kernel \in DOMAIN Disk /\ addr \in Nat
      /\ \A i \in Loadable : SegmentIn(mem, cfg.kernel, Phdrs[i])
      /\ Spans(data_begin, data_end, Len(Phdrs) + 1) /\ data_end <= addr
      /\ From(mem, data_end, Own \cup {cfg.kernel}) /\ Chosen
  BY DEF IInv, Configured, Appending, Booting, Placing, Loaded
<1>2. \A i \in Loadable : /\ Phdrs[i].paddr \in Nat /\ Phdrs[i].memsz \in Nat
                          /\ Phdrs[i].filesz \in Nat /\ i < Len(Phdrs) + 1
  BY <1>1, PhdrTypes, LoadableIs
<1> DEFINE S == {Phdrs[i].paddr : i \in Loadable}
<1>0. PICK low : low = First(S)
  OBVIOUS
<1>3. PICK i \in Loadable : \E k \in 0 .. Phdrs[i].filesz - 1 :
        /\ k < Phdrs[i].memsz
        /\ Phdrs[i].offset + k \in DOMAIN Kernel.magic
        /\ Kernel.magic[Phdrs[i].offset + k] # 0
        /\ Phdrs[i].paddr + k < low + Window /\ (Phdrs[i].paddr + k - low) % 2 = 0
  BY <1>0 DEF Headed, Phdrs
<1>4. PICK p : p = Phdrs[i]
  OBVIOUS
<1>k. PICK k \in 0 .. p.filesz - 1 :
        /\ k < p.memsz
        /\ p.offset + k \in DOMAIN Kernel.magic
        /\ Kernel.magic[p.offset + k] # 0
        /\ p.paddr + k < low + Window /\ (p.paddr + k - low) % 2 = 0
  BY <1>3, <1>4
<1>5. PICK a : a = p.paddr + k
  OBVIOUS
<1>6. /\ p.paddr \in Nat /\ p.memsz \in Nat /\ k \in 0 .. p.memsz - 1
      /\ a \in Nat /\ p.paddr <= a /\ k < p.filesz
  BY <1>2, <1>k, <1>4, <1>5, SMTT(60)
<1>7. /\ data_begin \in Nat /\ data_end \in Nat
      /\ data_begin <= p.paddr /\ p.paddr + p.memsz <= data_end
      /\ data_begin = MemTop \/ \E j \in Loadable : data_begin = Phdrs[j].paddr
      /\ \A j \in Loadable : data_begin <= Phdrs[j].paddr
  BY <1>1, <1>2, <1>4 DEF Spans, SegEnd
<1>8. a < data_end /\ a < MemTop /\ data_begin <= a /\ data_begin # MemTop
  BY <1>1, <1>5, <1>6, <1>7, LoaderAssumption, SMTT(60)
<1>9. low = data_begin
  <2>1. data_begin \in S /\ S \subseteq Int /\ \A y \in S : data_begin <= y
    BY <1>2, <1>7, <1>8
  <2> QED BY <1>0, <2>1, FirstIs
<1>10. mem[a] = Holds(cfg.kernel, p.offset + k)
  BY <1>1, <1>4, <1>5, <1>6, <1>8 DEF SegmentIn
<1>11. a \in Magics
  <2>1. mem[a].of = cfg.kernel /\ mem[a].at = p.offset + k
    BY <1>10 DEF Holds
  <2>2. Magic(a) = Kernel.magic[p.offset + k] /\ Magic(a) # 0
    BY <1>1, <1>k, <1>8, <2>1 DEF Magic, Kernel
  <2>3. a < data_begin + Window /\ (a - data_begin) % 2 = 0
    BY <1>k, <1>5, <1>6, <1>7, <1>9
  <2>4. a \in data_begin .. data_begin + Window - 1
    BY <1>6, <1>7, <1>8, <2>3, LoaderAssumption
  <2> QED BY <2>2, <2>3, <2>4 DEF Magics
<1>12. PICK b : b = multiboot /\ b \in Magics /\ b <= a
  BY <1>1, <1>7, <1>11, MagicsNat, FirstOf DEF Chosen
<1>13. MagicIn(b) /\ b \in Nat /\ data_begin <= b
  BY <1>7, <1>12, MagicOf, LoaderAssumption
<1>14. b \in 0 .. MemTop - 1 /\ b < data_end
  BY <1>6, <1>7, <1>8, <1>12, <1>13, LoaderAssumption DEF MagicIn
<1>15. mem[b].of \in Own \cup {cfg.kernel} /\ mem[b].of \in DOMAIN Disk
  BY <1>1, <1>13, <1>14 DEF From, MagicIn
<1>16. mem[b].of = cfg.kernel
  BY <1>15, HeadsAssumption DEF Own
<1>17. b # 0
  <2>1. PICK j \in Loadable : data_begin = Phdrs[j].paddr
    BY <1>7, <1>8
  <2>2. MiB <= data_begin
    BY <2>1 DEF Sound, Phdrs
  <2> QED BY <1>7, <1>13, <2>2, LoaderAssumption
<1> QED BY <1>11, <1>12, <1>16, <1>17

------------------------------------------------------------------------------
(***************************************************************************)
(* Sequences joined, up to each of them.                                   *)
(***************************************************************************)
Joins(ss, s, i) == s \o ss[i]

Joining(ss, len, A) ==
  A = [i \in 0 .. len |-> IF i = 0 THEN <<>> ELSE Joins(ss, A[i - 1], i)]

LEMMA JoiningOn ==
  ASSUME NEW ss, NEW len \in Nat, NEW A, Joining(ss, len, A)
  PROVE  \E B : Joining(ss, len + 1, B)
<1> DEFINE x == Joins(ss, A[len], len + 1)
           B == [j \in 0 .. len + 1 |-> IF j = len + 1 THEN x ELSE A[j]]
<1>0. \A j \in 0 .. len : A[j] = IF j = 0 THEN <<>> ELSE Joins(ss, A[j - 1], j)
  BY DEF Joining
<1>z. 0 \in 0 .. len
  OBVIOUS
<1>1. A[0] = <<>> /\ \A j \in 0 .. len : j # 0 => A[j] = Joins(ss, A[j - 1], j)
  BY <1>0, <1>z, Zenon
<1>2. ASSUME NEW j \in 0 .. len + 1
      PROVE  B[j] = IF j = 0 THEN <<>> ELSE Joins(ss, B[j - 1], j)
  <2>1. CASE j = 0
    BY <1>1, <2>1
  <2>2. CASE j = len + 1
    <3>1. B[j - 1] = A[len]
      BY <2>2
    <3>2. B[j] = x /\ j # 0
      BY <2>2
    <3> QED BY <2>2, <3>1, <3>2
  <2>3. CASE j # 0 /\ j # len + 1
    <3>1. j \in 0 .. len /\ j - 1 \in 0 .. len + 1 /\ j - 1 # len + 1
      BY <2>3
    <3>2. B[j] = A[j] /\ B[j - 1] = A[j - 1]
      BY <2>3, <3>1
    <3> QED BY <1>1, <2>3, <3>1, <3>2
  <2> QED BY <2>1, <2>2, <2>3
<1> DEFINE C == [j \in 0 .. len + 1 |-> IF j = 0 THEN <<>> ELSE Joins(ss, B[j - 1], j)]
<1>3. B = C
  <2>1. \A j \in 0 .. len + 1 : B[j] = C[j]
    BY <1>2
  <2>2. B = [j \in 0 .. len + 1 |-> B[j]] /\ C = [j \in 0 .. len + 1 |-> C[j]]
    OBVIOUS
  <2> HIDE DEF B, C
  <2> QED BY <2>1, <2>2
<1> QED BY <1>3 DEF Joining

LEMMA JoiningExists ==
  ASSUME NEW ss, NEW len \in Nat
  PROVE  \E A : Joining(ss, len, A)
<1> DEFINE S == {k \in Nat : \E A : Joining(ss, k, A)}
<1>1. 0 \in S
  <2> DEFINE A == [j \in 0 .. 0 |-> <<>>]
  <2>1. A = [j \in 0 .. 0 |-> IF j = 0 THEN <<>> ELSE Joins(ss, A[j - 1], j)]
    OBVIOUS
  <2>2. Joining(ss, 0, A)
    BY <2>1 DEF Joining
  <2> QED BY <2>2
<1>2. \A k \in Nat : k \in S => k + 1 \in S
  BY JoiningOn
<1> HIDE DEF S
<1>3. len \in S
  BY <1>1, <1>2, Induction
<1> QED BY <1>3 DEF S

JoinsUp(ss, len, A) ==
  A[0] = <<>> /\ \A i \in 1 .. len : A[i] = Joins(ss, A[i - 1], i)

LEMMA JoinedIs ==
  ASSUME NEW ss, NEW len \in Nat, len = Len(ss)
  PROVE  JoinsUp(ss, len, Joined(ss))
<1>1. Joined(ss) = CHOOSE A : Joining(ss, len, A)
  BY Zenon DEF Joined, Joining, Joins
<1>2. Joining(ss, len, Joined(ss))
  BY <1>1, JoiningExists
<1>3. PICK A : A = Joined(ss)
  OBVIOUS
<1>4. \A i \in 0 .. len : A[i] = IF i = 0 THEN <<>> ELSE Joins(ss, A[i - 1], i)
  BY <1>2, <1>3 DEF Joining
<1>5. 0 \in 0 .. len /\ \A i \in 1 .. len : i \in 0 .. len /\ i # 0
  OBVIOUS
<1>6. JoinsUp(ss, len, A)
  BY <1>4, <1>5, Zenon DEF JoinsUp
<1> QED BY <1>3, <1>6


(* It is a sequence of what they are sequences of. *)
LEMMA JoinedSeq ==
  ASSUME NEW ss, NEW len \in Nat, NEW A, JoinsUp(ss, len, A), NEW T,
         \A i \in 1 .. len : ss[i] \in Seq(T), NEW i \in 0 .. len
  PROVE  A[i] \in Seq(T)
<1> DEFINE S == {k \in Nat : k <= len => A[k] \in Seq(T)}
<1>1. 0 \in S
  <2>1. A[0] \in Seq(T)
    BY EmptySeq DEF JoinsUp
  <2> QED BY <2>1
<1>2. ASSUME NEW k \in Nat, k \in S PROVE k + 1 \in S
  <2> SUFFICES ASSUME k + 1 <= len PROVE A[k + 1] \in Seq(T)
    OBVIOUS
  <2>1. k + 1 \in 1 .. len /\ (k + 1) - 1 = k
    OBVIOUS
  <2>2. A[k] \in Seq(T) /\ ss[k + 1] \in Seq(T)
    BY <1>2, <2>1
  <2>3. A[k + 1] = A[k] \o ss[k + 1]
    BY <2>1 DEF JoinsUp, Joins
  <2> QED BY <2>2, <2>3, ConcatProperties
<1> HIDE DEF S
<1>3. i \in S
  BY <1>1, <1>2, Induction, SMTT(60)
<1> QED BY <1>3 DEF S

------------------------------------------------------------------------------
(***************************************************************************)
(* The tags of a block blk up to offset o, as the answers in D.            *)
(***************************************************************************)
WrittenAs(w, t) ==
  /\ t.type = w[1] /\ t.size \in Nat \ {0}
  /\ IF w[1] = Module3
     THEN LET m == cfg.modules[w[2]]
          IN  w[2] \in DOMAIN cfg.modules /\ t.data = <<m.addr, m.addr + m.size, m.path>>
     ELSE TrueOf(w[1], w[2], t)

Passed(blk, w, p, q, o) ==
  /\ p \in Nat /\ p % 8 = 0 /\ p < o /\ p \in DOMAIN blk
  /\ WrittenAs(w, blk[p]) /\ q = NEXT_TAG(p, blk[p].size)

Walk(blk, D, len, o, offs) ==
  /\ offs[1] = 8 /\ offs[len + 1] = o
  /\ \A k \in 1 .. len : Passed(blk, D[k], offs[k], offs[k + 1], o)

Walked(blk, D, o) ==
  o \in Nat /\ o % 8 = 0 /\ \E offs : Walk(blk, D, Len(D), o, offs)

LEMMA Divided ==
  ASSUME NEW a \in Nat, NEW b \in Nat \ {0}
  PROVE  a = (a \div b) * b + (a % b) /\ a \div b \in Nat /\ a % b \in 0 .. b - 1
OBVIOUS

LEMMA EightsApart ==
  ASSUME NEW o \in Nat, o % 8 = 0, NEW size \in Nat \ {0},
         NEW x, x = NEXT_TAG(o, size)
  PROVE  x \in Nat /\ x % 8 = 0 /\ o < x /\ x = 8 * ((o + size + 7) \div 8)
<1>1. PICK c \in Nat : o = 8 * c
  BY SMTT(60)
<1>2. PICK d \in Nat, r \in 0 .. 7 : size = 8 * d + r
  <2>1. PICK d, r : d = size \div 8 /\ r = size % 8
    OBVIOUS
  <2>2. size = d * 8 + r /\ d \in Nat /\ r \in 0 .. 8 - 1
    BY <2>1, Divided
  <2>3. size = 8 * d + r /\ r \in 0 .. 7
    BY <2>2
  <2> QED BY <2>2, <2>3
<1>3. size % 8 = r /\ (o + size + 7) \div 8 = c + d + ((r + 7) \div 8)
  BY <1>1, <1>2, SMTT(60)
<1>4. CASE r = 0
  <2>1. x = 8 * (c + d) /\ d # 0
    BY <1>1, <1>2, <1>3, <1>4, SMTT(60) DEF NEXT_TAG
  <2>2. (o + size + 7) \div 8 = c + d
    BY <1>1, <1>2, <1>4, SMTT(60)
  <2> QED BY <1>1, <1>2, <2>1, <2>2, SMTT(60)
<1>5. CASE r # 0
  <2>1. x = 8 * (c + d + 1)
    BY <1>1, <1>2, <1>3, <1>5, SMTT(60) DEF NEXT_TAG
  <2>2. (o + size + 7) \div 8 = c + d + 1
    BY <1>1, <1>2, <1>5, SMTT(60)
  <2> QED BY <1>1, <1>2, <2>1, <2>2, SMTT(60)
<1> QED BY <1>4, <1>5

(* What is below o is kept. *)
Keeps(blk, new, o) == \A p \in DOMAIN blk : p < o => p \in DOMAIN new /\ new[p] = blk[p]

LEMMA WalkKept ==
  ASSUME NEW blk, NEW new, NEW D, NEW o, Keeps(blk, new, o), Walked(blk, D, o)
  PROVE  Walked(new, D, o)
<1>1. PICK offs : Walk(blk, D, Len(D), o, offs)
  BY DEF Walked
<1>2. Walk(new, D, Len(D), o, offs)
  BY <1>1 DEF Walk, Passed, Keeps
<1> QED BY <1>2 DEF Walked

LEMMA WalkOn ==
  ASSUME NEW blk, NEW new, NEW T, NEW D \in Seq(T), NEW o, Keeps(blk, new, o),
         Walked(blk, D, o), NEW w \in T, o \in DOMAIN new, WrittenAs(w, new[o]),
         NEW x, x = NEXT_TAG(o, new[o].size)
  PROVE  Walked(new, Append(D, w), x)
<1>1. PICK offs : Walk(new, D, Len(D), o, offs)
  BY WalkKept DEF Walked
<1>2. PICK len \in Nat : len = Len(D)
  OBVIOUS
<1>3. /\ Len(Append(D, w)) = len + 1 /\ Append(D, w)[len + 1] = w
      /\ \A k \in 1 .. len : Append(D, w)[k] = D[k]
  BY <1>2
<1>4. o \in Nat /\ o % 8 = 0 /\ x \in Nat /\ x % 8 = 0 /\ o < x
  <2>1. o \in Nat /\ o % 8 = 0 /\ new[o].size \in Nat \ {0}
    BY DEF Walked, WrittenAs
  <2> QED BY <2>1, EightsApart
<1> DEFINE more == [k \in 1 .. len + 2 |-> IF k = len + 2 THEN x ELSE offs[k]]
<1>5. /\ more[len + 2] = x /\ \A k \in 1 .. len + 1 : more[k] = offs[k]
  OBVIOUS
<1>6. offs[1] = 8 /\ offs[len + 1] = o
      /\ \A k \in 1 .. len : Passed(new, D[k], offs[k], offs[k + 1], o)
  BY <1>1, <1>2 DEF Walk
<1> HIDE DEF more
<1>7. ASSUME NEW k \in 1 .. len + 1
      PROVE  Passed(new, Append(D, w)[k], more[k], more[k + 1], x)
  <2>1. CASE k = len + 1
    <3>1. more[k] = o /\ more[k + 1] = x
      BY <1>5, <1>6, <2>1
    <3> QED BY <1>3, <1>4, <2>1, <3>1 DEF Passed
  <2>2. CASE k # len + 1
    <3>1. k \in 1 .. len /\ k + 1 \in 1 .. len + 1
      BY <2>2
    <3>2. Passed(new, D[k], offs[k], offs[k + 1], o)
      BY <1>6, <3>1
    <3>3. Passed(new, D[k], offs[k], offs[k + 1], x)
      BY <1>4, <3>2 DEF Passed
    <3> QED BY <1>3, <1>5, <3>1, <3>3
  <2> QED BY <2>1, <2>2
<1>8. more[1] = 8 /\ more[(len + 1) + 1] = x
  BY <1>5, <1>6
<1>9. Walk(new, Append(D, w), len + 1, x, more)
  BY <1>7, <1>8, Zenon DEF Walk
<1> QED BY <1>3, <1>4, <1>9 DEF Walked

(* A kernel that walks the block finds the same tags. *)
NextFound(o) == IF o \in DOMAIN info THEN 8 * ((o + info[o].size + 7) \div 8) ELSE 0

Finding(len, f) ==
  f = [k \in 1 .. len + 1 |-> IF k = 1 THEN 8 ELSE NextFound(f[k - 1])]

LEMMA FoundIs ==
  ASSUME NEW len \in Nat, len = Len(Asked), NEW offs, Walk(info, Asked, len, at, offs)
  PROVE  \A k \in 1 .. len + 1 : Found[k] = offs[k]
<1>1. ASSUME NEW k \in 1 .. len PROVE offs[k + 1] = NextFound(offs[k])
  <2>1. PICK w, p, q : w = Asked[k] /\ p = offs[k] /\ q = offs[k + 1]
    OBVIOUS
  <2>2. Passed(info, w, p, q, at)
    BY <2>1 DEF Walk
  <2>3. /\ p \in Nat /\ p % 8 = 0 /\ p \in DOMAIN info /\ info[p].size \in Nat \ {0}
        /\ q = NEXT_TAG(p, info[p].size)
    BY <2>2 DEF Passed, WrittenAs
  <2>4. q = 8 * ((p + info[p].size + 7) \div 8)
    BY <2>3, EightsApart
  <2> QED BY <2>1, <2>3, <2>4 DEF NextFound
<1>2. offs[1] = 8
  BY DEF Walk
<1> DEFINE g == [k \in 1 .. len + 1 |-> offs[k]]
           h == [k \in 1 .. len + 1 |-> IF k = 1 THEN 8 ELSE NextFound(g[k - 1])]
<1>3. Finding(len, g)
  <2>1. ASSUME NEW k \in 1 .. len + 1 PROVE g[k] = h[k]
    <3>1. CASE k = 1
      BY <1>2, <3>1
    <3>2. CASE k # 1
      <4>1. k - 1 \in 1 .. len /\ (k - 1) + 1 = k /\ k - 1 \in 1 .. len + 1
        BY <3>2
      <4>2. offs[k] = NextFound(offs[k - 1])
        BY <1>1, <4>1
      <4> QED BY <3>2, <4>1, <4>2
    <3> QED BY <3>1, <3>2
  <2>2. g = [k \in 1 .. len + 1 |-> g[k]] /\ h = [k \in 1 .. len + 1 |-> h[k]]
    OBVIOUS
  <2>3. g = h
    <3> HIDE DEF g, h
    <3> QED BY <2>1, <2>2
  <2> QED BY <2>3 DEF Finding
<1>4. Found = CHOOSE f : Finding(len, f)
  BY Zenon DEF Found, Finding, NextFound
<1>5. PICK f : f = Found /\ Finding(len, f)
  BY <1>3, <1>4
<1>6. \A k \in 1 .. len + 1 : f[k] = IF k = 1 THEN 8 ELSE NextFound(f[k - 1])
  BY <1>5 DEF Finding
<1> DEFINE S == {k \in Nat : k <= len => f[k + 1] = offs[k + 1]}
<1>7. 0 \in S
  BY <1>2, <1>6
<1>8. ASSUME NEW k \in Nat, k \in S PROVE k + 1 \in S
  <2> SUFFICES ASSUME k + 1 <= len PROVE f[(k + 1) + 1] = offs[(k + 1) + 1]
    OBVIOUS
  <2>1. PICK j : j = k + 1
    OBVIOUS
  <2>2. /\ j \in 1 .. len /\ j + 1 \in 1 .. len + 1 /\ j + 1 # 1 /\ (j + 1) - 1 = j
    BY <2>1
  <2>3. f[j] = offs[j]
    BY <1>8, <2>1
  <2>4. f[j + 1] = NextFound(f[j])
    BY <1>6, <2>2
  <2> QED BY <1>1, <2>1, <2>2, <2>3, <2>4
<1> HIDE DEF S
<1>9. \A k \in Nat : k \in S
  BY <1>7, <1>8, Induction
<1>10. ASSUME NEW k \in 1 .. len + 1 PROVE f[k] = offs[k]
  <2>1. k - 1 \in Nat /\ k - 1 <= len /\ (k - 1) + 1 = k
    OBVIOUS
  <2>2. k - 1 \in S
    BY <1>9, <2>1
  <2> QED BY <2>1, <2>2 DEF S
<1> QED BY <1>5, <1>10

------------------------------------------------------------------------------
(***************************************************************************)
(* What the header asks for, up to a request and a module.                 *)
(***************************************************************************)
Headers(tags) ==
  /\ Len(tags) \in Nat \ {0} /\ DOMAIN tags = 1 .. Len(tags)
  /\ \A k \in 1 .. Len(tags) :
       /\ tags[k].type = HeaderEnd <=> k = Len(tags)
       /\ Len(tags[k].reqs) \in Nat /\ DOMAIN tags[k].reqs = 1 .. Len(tags[k].reqs)

Answer(type) == [i \in 1 .. Times(type) |-> <<type, i>>]

Types(tags) == {tags[x[1]].reqs[x[2]] : x \in Nat \X Nat} \cup {Module3}
Answers(tags) == Types(tags) \X Nat

LEMMA SequenceOf ==
  ASSUME NEW S, NEW len \in Nat, NEW p \in [1 .. len -> S]
  PROVE  p \in Seq(S) /\ Len(p) = len
OBVIOUS

LEMMA HeadersOf ==
  ASSUME NEW f \in DOMAIN Disk
  PROVE  Headers(Disk[f].head.tags)
<1>1. PICK tags : tags = Disk[f].head.tags
  OBVIOUS
<1>2. /\ tags \in Seq({tags[k] : k \in DOMAIN tags}) /\ tags # <<>>
      /\ \A k \in DOMAIN tags :
           /\ tags[k].type = HeaderEnd <=> k = Len(tags)
           /\ tags[k].reqs \in Seq({tags[k].reqs[r] : r \in DOMAIN tags[k].reqs})
  <2>1. IsHead(tags)
    BY <1>1, HeadsAssumption
  <2> QED BY <2>1, Zenon DEF IsHead
<1>3. Len(tags) \in Nat \ {0} /\ DOMAIN tags = 1 .. Len(tags)
  BY <1>2, EmptySeq, LenProperties
<1>4. ASSUME NEW k \in 1 .. Len(tags)
      PROVE  Len(tags[k].reqs) \in Nat /\ DOMAIN tags[k].reqs = 1 .. Len(tags[k].reqs)
  <2>1. PICK q, S : q = tags[k].reqs /\ q \in Seq(S)
    BY <1>2, <1>3
  <2> QED BY <2>1, LenProperties
<1> QED BY <1>1, <1>2, <1>3, <1>4 DEF Headers

LEMMA AnswerSeq ==
  ASSUME Configured, NEW type, NEW S, type \in S
  PROVE  Times(type) \in Nat /\ Answer(type) \in Seq(S \X Nat) /\ Len(Answer(type)) = Times(type)
<1>1. Times(type) \in Nat
  <2>1. Len(cfg.modules) \in Nat
    BY ModulesType
  <2> QED BY <2>1 DEF Times
<1>2. PICK len \in Nat : len = Times(type)
  BY <1>1
<1> DEFINE p == [i \in 1 .. len |-> <<type, i>>]
<1>3. p \in [1 .. len -> S \X Nat] /\ Answer(type) = p
  BY <1>2 DEF Answer
<1> HIDE DEF p
<1>4. Answer(type) \in Seq(S \X Nat) /\ Len(Answer(type)) = len
  BY <1>3, SequenceOf
<1> QED BY <1>2, <1>4

(* Requests of a tag, and what they ask for together. *)
Asks(tags, k, by) ==
  /\ Len(by) \in Nat /\ (tags[k].type # InformationRequest => Len(by) = 0)
  /\ tags[k].type = InformationRequest =>
       /\ Len(by) = Len(tags[k].reqs)
       /\ \A r \in 1 .. Len(by) : by[r] = Answer(tags[k].reqs[r])
  /\ \A r \in 1 .. Len(by) : by[r] \in Seq(Answers(tags))
  /\ JoinsUp(by, Len(by), Joined(by))
  /\ \A r \in 0 .. Len(by) : Joined(by)[r] \in Seq(Answers(tags))

LEMMA AskedByIs ==
  ASSUME Configured, NEW tags, Headers(tags), NEW k \in 1 .. Len(tags)
  PROVE  Asks(tags, k, AskedBy(tags[k]))
<1>1. PICK by : by = AskedBy(tags[k])
  OBVIOUS
<1>a. PICK q : q = tags[k].reqs
  OBVIOUS
<1>b. /\ k \in Nat /\ Len(tags[k].reqs) \in Nat
      /\ DOMAIN tags[k].reqs = 1 .. Len(tags[k].reqs)
  <2>1. Len(tags) \in Nat
    BY DEF Headers
  <2>2. k \in Nat
    BY <2>1
  <2> QED BY <2>2, ZenonT(60) DEF Headers
<1>c. PICK len \in Nat : len = Len(q) /\ DOMAIN q = 1 .. len
  BY <1>a, <1>b, Zenon
<1>2. q = tags[k].reqs /\ len = Len(q) /\ DOMAIN q = 1 .. len
  BY <1>a, <1>c
<1>3. ASSUME NEW r \in 1 .. len
      PROVE  Answer(q[r]) \in Seq(Answers(tags))
  <2>1. <<k, r>> \in Nat \X Nat /\ tags[k].reqs[r] = q[r]
    BY <1>a, <1>b
  <2>2. q[r] \in Types(tags)
    BY <2>1 DEF Types
  <2> QED BY <2>2, AnswerSeq DEF Answers
<1>4. CASE tags[k].type # InformationRequest
  <2>1. by = <<>> /\ Len(by) = 0
    BY <1>1, <1>4, EmptySeq DEF AskedBy
  <2> QED BY <1>1, <1>4, <2>1, JoinedIs, JoinedSeq DEF Asks
<1>5. CASE tags[k].type = InformationRequest
  <2> DEFINE p == [r \in 1 .. len |-> Answer(q[r])]
  <2>1. by = p
    BY <1>1, <1>2, <1>5 DEF AskedBy, Answer
  <2>2. p \in [1 .. len -> Seq(Answers(tags))] /\ \A r \in 1 .. len : p[r] = Answer(q[r])
    BY <1>3
  <2> HIDE DEF p
  <2>3. Len(by) = len
    BY <2>1, <2>2, SequenceOf
  <2>4. \A r \in 1 .. len : by[r] = Answer(q[r]) /\ by[r] \in Seq(Answers(tags))
    BY <2>1, <2>2
  <2>5. JoinsUp(by, len, Joined(by))
    BY <2>3, JoinedIs
  <2>6. \A r \in 0 .. len : Joined(by)[r] \in Seq(Answers(tags))
    BY <2>4, <2>5, JoinedSeq
  <2> QED BY <1>1, <1>2, <1>5, <2>3, <2>4, <2>5, <2>6 DEF Asks
<1> QED BY <1>4, <1>5

AllOf(by) == Joined(by)[Len(by)]

Ask(tags, ts) ==
  /\ Len(ts) = Len(tags)
  /\ \A k \in 1 .. Len(tags) : ts[k] = AllOf(AskedBy(tags[k])) /\ ts[k] \in Seq(Answers(tags))
  /\ JoinsUp(ts, Len(tags), Joined(ts))
  /\ \A k \in 0 .. Len(tags) : Joined(ts)[k] \in Seq(Answers(tags))

LEMMA AskedInIs ==
  ASSUME Configured, NEW tags, Headers(tags)
  PROVE  Ask(tags, AskedIn(tags))
<1>a. PICK ts : ts = AskedIn(tags)
  OBVIOUS
<1>b. PICK len \in Nat : len = Len(tags) /\ DOMAIN tags = 1 .. len
  BY Zenon DEF Headers
<1>1. ts = AskedIn(tags) /\ len = Len(tags) /\ DOMAIN tags = 1 .. len
  BY <1>a, <1>b
<1> DEFINE p == [k \in 1 .. len |-> AllOf(AskedBy(tags[k]))]
<1>2. ts = p
  BY <1>1, Zenon DEF AskedIn, AllOf
<1>3. ASSUME NEW k \in 1 .. len PROVE AllOf(AskedBy(tags[k])) \in Seq(Answers(tags))
  <2>1. PICK by : by = AskedBy(tags[k])
    OBVIOUS
  <2>2. Asks(tags, k, by)
    BY <1>1, <2>1, AskedByIs
  <2>3. Len(by) \in 0 .. Len(by)
    BY <2>2 DEF Asks
  <2> QED BY <2>1, <2>2, <2>3 DEF Asks, AllOf
<1>4. /\ p \in [1 .. len -> Seq(Answers(tags))]
      /\ \A k \in 1 .. len : p[k] = AllOf(AskedBy(tags[k])) /\ p[k] \in Seq(Answers(tags))
  BY <1>3
<1> HIDE DEF p
<1>5. Len(ts) = len
  BY <1>2, <1>4, SequenceOf
<1>6. JoinsUp(ts, len, Joined(ts))
  BY <1>5, JoinedIs
<1>7. \A k \in 0 .. len : Joined(ts)[k] \in Seq(Answers(tags))
  BY <1>2, <1>4, <1>6, JoinedSeq
<1> QED BY <1>1, <1>2, <1>4, <1>5, <1>6, <1>7 DEF Ask

(* The answers to requests before the r-th of tag k, and m - 1 modules.    *)
Part(m) == [i \in 1 .. m - 1 |-> <<Module3, i>>]

Before(tags, k, r) == Joined(AskedIn(tags))[k - 1] \o Joined(AskedBy(tags[k]))[r - 1]

Done(tags, k, r, m) == Before(tags, k, r) \o Part(m)

LEMMA PartSeq ==
  ASSUME NEW tags, NEW m \in Nat \ {0}
  PROVE  /\ Part(m) \in Seq(Answers(tags)) /\ Len(Part(m)) = m - 1
         /\ Part(m + 1) = Append(Part(m), <<Module3, m>>) /\ Part(1) = <<>>
<1>1. ASSUME NEW j \in Nat \ {0}
      PROVE  Part(j) \in Seq(Answers(tags)) /\ Len(Part(j)) = j - 1
  <2>1. PICK i \in Nat : i = j - 1
    OBVIOUS
  <2> DEFINE p == [x \in 1 .. i |-> <<Module3, x>>]
  <2>2. Part(j) = p
    BY <2>1 DEF Part
  <2>3. p \in [1 .. i -> Answers(tags)]
    BY DEF Answers, Types
  <2> HIDE DEF p
  <2> QED BY <2>1, <2>2, <2>3, SequenceOf
<1>2. /\ Part(m) \in Seq(Answers(tags)) /\ Len(Part(m)) = m - 1
      /\ Part(m + 1) \in Seq(Answers(tags)) /\ Len(Part(m + 1)) = m
  <2>1. m + 1 \in Nat \ {0} /\ (m + 1) - 1 = m
    OBVIOUS
  <2> QED BY <1>1, <2>1
<1>3. Part(m + 1) = Append(Part(m), <<Module3, m>>)
  <2> DEFINE w == <<Module3, m>>
  <2>1. w \in Answers(tags)
    BY DEF Answers, Types
  <2>2. /\ \A i \in 1 .. m - 1 : Part(m)[i] = <<Module3, i>>
        /\ \A i \in 1 .. m : Part(m + 1)[i] = <<Module3, i>>
    BY DEF Part
  <2> HIDE DEF w
  <2>3. PICK s, t : s = Part(m) /\ t = Append(s, w)
    OBVIOUS
  <2>4. /\ t \in Seq(Answers(tags)) /\ Len(t) = m /\ t[m] = w
        /\ \A i \in 1 .. m - 1 : t[i] = s[i]
    BY <1>2, <2>1, <2>3
  <2>5. ASSUME NEW i \in 1 .. m PROVE t[i] = Part(m + 1)[i]
    <3>1. CASE i = m
      BY <2>2, <2>4, <3>1 DEF w
    <3>2. CASE i # m
      <4>1. i \in 1 .. m - 1
        BY <3>2
      <4> QED BY <2>2, <2>3, <2>4, <4>1
    <3> QED BY <3>1, <3>2
  <2>6. t = Part(m + 1)
    BY <1>2, <2>4, <2>5, SeqEqual
  <2> QED BY <2>3, <2>6 DEF w
<1>4. Part(1) = <<>>
  BY DEF Part
<1> QED BY <1>2, <1>3, <1>4

LEMMA BeforeIs ==
  ASSUME Configured, NEW tags, Headers(tags), NEW k \in 1 .. Len(tags),
         NEW r \in 1 .. Len(AskedBy(tags[k])) + 1
  PROVE  /\ Joined(AskedIn(tags))[k - 1] \in Seq(Answers(tags))
         /\ Joined(AskedBy(tags[k]))[r - 1] \in Seq(Answers(tags))
         /\ Before(tags, k, r) \in Seq(Answers(tags))
<1>1. PICK by : by = AskedBy(tags[k])
  OBVIOUS
<1>2. Asks(tags, k, by) /\ Ask(tags, AskedIn(tags))
  BY <1>1, AskedByIs, AskedInIs, SMTT(60)
<1>3. Len(tags) \in Nat /\ Len(by) \in Nat
  BY <1>2 DEF Headers, Asks
<1>4. k - 1 \in 0 .. Len(tags) /\ r - 1 \in 0 .. Len(by)
  BY <1>1, <1>3
<1>5. /\ Joined(AskedIn(tags))[k - 1] \in Seq(Answers(tags))
      /\ Joined(by)[r - 1] \in Seq(Answers(tags))
  BY <1>2, <1>4, Zenon DEF Ask, Asks
<1> QED BY <1>1, <1>5, ConcatProperties DEF Before

LEMMA DoneIs ==
  ASSUME Configured, NEW tags, Headers(tags), NEW k \in 1 .. Len(tags),
         NEW r \in 1 .. Len(AskedBy(tags[k])) + 1
  PROVE  /\ Done(tags, k, r, 1) = Before(tags, k, r)
         /\ \A m \in Nat \ {0} :
              /\ Done(tags, k, r, m) \in Seq(Answers(tags))
              /\ Done(tags, k, r, m + 1) = Append(Done(tags, k, r, m), <<Module3, m>>)
<1>1. Before(tags, k, r) \in Seq(Answers(tags))
  BY BeforeIs
<1>2. Done(tags, k, r, 1) = Before(tags, k, r)
  <2>1. Part(1) = <<>>
    BY PartSeq
  <2> QED BY <1>1, <2>1, ConcatEmptySeq DEF Done
<1>3. ASSUME NEW m \in Nat \ {0}
      PROVE  /\ Done(tags, k, r, m) \in Seq(Answers(tags))
             /\ Done(tags, k, r, m + 1) = Append(Done(tags, k, r, m), <<Module3, m>>)
  <2>1. PICK s, t, w : s = Before(tags, k, r) /\ t = Part(m) /\ w = <<Module3, m>>
    OBVIOUS
  <2>2. s \in Seq(Answers(tags)) /\ t \in Seq(Answers(tags)) /\ w \in Answers(tags)
    BY <1>1, <2>1, PartSeq DEF Answers, Types
  <2>3. s \o Append(t, w) = Append(s \o t, w) /\ s \o t \in Seq(Answers(tags))
    BY <2>2
  <2>4. Part(m + 1) = Append(t, w)
    BY <2>1, PartSeq
  <2> QED BY <2>1, <2>3, <2>4 DEF Done
<1> QED BY <1>2, <1>3

LEMMA DoneFirst ==
  ASSUME Configured, NEW tags, Headers(tags)
  PROVE  Done(tags, 1, 1, 1) = <<>>
<1>1. 1 \in 1 .. Len(tags)
  BY DEF Headers
<1>2. Asks(tags, 1, AskedBy(tags[1])) /\ Ask(tags, AskedIn(tags))
  BY <1>1, AskedByIs, AskedInIs
<1>3. Len(AskedBy(tags[1])) \in Nat
  BY <1>2 DEF Asks
<1>4. 1 \in 1 .. Len(AskedBy(tags[1])) + 1
  BY <1>3
<1>5. Done(tags, 1, 1, 1) = Before(tags, 1, 1)
  BY <1>1, <1>4, DoneIs
<1>6. Joined(AskedIn(tags))[0] = <<>> /\ Joined(AskedBy(tags[1]))[0] = <<>>
  BY <1>2 DEF Ask, Asks, JoinsUp
<1>7. 1 - 1 = 0
  OBVIOUS
<1>8. Before(tags, 1, 1) = <<>> \o <<>>
  BY <1>6, <1>7, Zenon DEF Before
<1> QED BY <1>5, <1>8, EmptySeq, ConcatEmptySeq

LEMMA DoneRequest ==
  ASSUME Configured, NEW tags, Headers(tags), NEW k \in 1 .. Len(tags),
         tags[k].type = InformationRequest, NEW r \in 1 .. Len(tags[k].reqs)
  PROVE  /\ r \in 1 .. Len(AskedBy(tags[k])) + 1 /\ r + 1 \in 1 .. Len(AskedBy(tags[k])) + 1
         /\ Before(tags, k, r + 1) = Before(tags, k, r) \o Answer(tags[k].reqs[r])
<1>1. PICK by : by = AskedBy(tags[k])
  OBVIOUS
<1>2. Asks(tags, k, by)
  BY <1>1, AskedByIs
<1>3. Len(by) \in Nat /\ Len(by) = Len(tags[k].reqs) /\ r \in 1 .. Len(by)
  BY <1>2 DEF Asks
<1>4. /\ r \in 1 .. Len(by) + 1 /\ r + 1 \in 1 .. Len(by) + 1
      /\ (r + 1) - 1 = r
  BY <1>3
<1>5. by[r] = Answer(tags[k].reqs[r]) /\ by[r] \in Seq(Answers(tags))
  BY <1>2, <1>3 DEF Asks
<1>6. Joined(by)[r] = Joined(by)[r - 1] \o by[r]
  BY <1>2, <1>3, Zenon DEF Asks, JoinsUp, Joins
<1>7. /\ Joined(AskedIn(tags))[k - 1] \in Seq(Answers(tags))
      /\ Joined(by)[r - 1] \in Seq(Answers(tags))
  BY <1>1, <1>4, BeforeIs
<1>8. PICK a, b, c, d : /\ a = Joined(AskedIn(tags))[k - 1] /\ b = Joined(by)[r - 1]
                        /\ c = by[r] /\ d = Joined(by)[r]
  OBVIOUS
<1>9. (a \o b) \o c = a \o (b \o c)
  <2>1. PICK S : S = Answers(tags)
    OBVIOUS
  <2>2. a \in Seq(S) /\ b \in Seq(S) /\ c \in Seq(S)
    BY <1>5, <1>7, <1>8, <2>1
  <2> QED BY <2>2, ConcatAssociative, SMTT(60)
<1>10. Before(tags, k, r + 1) = a \o d /\ Before(tags, k, r) = a \o b
  BY <1>1, <1>4, <1>8 DEF Before
<1>11. d = b \o c /\ c = Answer(tags[k].reqs[r])
  BY <1>5, <1>6, <1>8
<1>12. Before(tags, k, r + 1) = Before(tags, k, r) \o c
  BY <1>9, <1>10, <1>11, Zenon
<1> QED BY <1>1, <1>4, <1>11, <1>12, Zenon

LEMMA DoneTag ==
  ASSUME Configured, NEW tags, Headers(tags), NEW k \in 1 .. Len(tags)
  PROVE  /\ Len(AskedBy(tags[k])) \in Nat
         /\ Joined(AskedIn(tags))[k] = Before(tags, k, Len(AskedBy(tags[k])) + 1)
         /\ k # Len(tags) =>
              Before(tags, k + 1, 1) = Before(tags, k, Len(AskedBy(tags[k])) + 1)
<1>1. PICK by, ts : by = AskedBy(tags[k]) /\ ts = AskedIn(tags)
  OBVIOUS
<1>2. Asks(tags, k, by) /\ Ask(tags, ts)
  BY <1>1, AskedByIs, AskedInIs
<1>3. PICK len \in Nat : len = Len(by)
  BY <1>2 DEF Asks
<1>4. len + 1 \in 1 .. Len(by) + 1 /\ (len + 1) - 1 = len /\ (k + 1) - 1 = k
  <2>1. Len(tags) \in Nat
    BY DEF Headers
  <2> QED BY <1>3, <2>1, SMTT(60)
<1>5. Joined(ts)[k] = Joined(ts)[k - 1] \o Joined(by)[len]
  <2>1. ts[k] = Joined(by)[len]
    BY <1>1, <1>2, <1>3 DEF Ask, AllOf
  <2> QED BY <1>2, <2>1, Zenon DEF Ask, JoinsUp, Joins
<1>6. Joined(ts)[k] = Before(tags, k, len + 1)
  BY <1>1, <1>4, <1>5 DEF Before
<1>7. ASSUME k # Len(tags) PROVE Before(tags, k + 1, 1) = Joined(ts)[k]
  <2>1. k + 1 \in 1 .. Len(tags)
    <3>1. Len(tags) \in Nat
      BY DEF Headers
    <3> QED BY <1>7, <3>1
  <2>2. Asks(tags, k + 1, AskedBy(tags[k + 1]))
    BY <2>1, AskedByIs
  <2>3. Joined(AskedBy(tags[k + 1]))[0] = <<>>
    BY <2>2 DEF Asks, JoinsUp
  <2>4. Joined(ts)[k] \in Seq(Answers(tags))
    <3>1. k \in 0 .. Len(tags)
      OBVIOUS
    <3> QED BY <1>2, <3>1, Zenon DEF Ask
  <2>5. Before(tags, k + 1, 1) = Joined(ts)[k] \o <<>>
    <3>1. 1 - 1 = 0
      OBVIOUS
    <3> QED BY <1>1, <1>4, <2>3, <3>1, Zenon DEF Before
  <2> QED BY <2>4, <2>5, ConcatEmptySeq
<1> QED BY <1>1, <1>3, <1>6, <1>7

------------------------------------------------------------------------------
(***************************************************************************)
(* How far the parser has come: the tag h of the header, the request r in  *)
(* it, the module m, and i entries of a map; a block blk written up to a.  *)
(***************************************************************************)
Tags == KernelHead.tags

Current(h, r, type) ==
  /\ Tags[h].type = InformationRequest
  /\ r \in 1 .. Len(Tags[h].reqs) /\ Tags[h].reqs[r] = type

ReadTo(h, r, m) ==
  /\ Headers(Tags) /\ h \in 1 .. Len(Tags) /\ r \in 1 .. Len(AskedBy(Tags[h])) + 1
  /\ m \in Nat \ {0}
  /\ m = 1 \/ (Current(h, r, Module3) /\ m <= Len(cfg.modules) + 1)

Entry(j) == [base |-> map[j].base, type |-> MmapType(map[j].type)]
MapSet == {Entry(j) : j \in DOMAIN map}

Entries(t, i) ==
  \E d \in Seq(MapSet) :
    /\ Len(d) = i /\ \A j \in 1 .. i : d[j] = Entry(j)
    /\ t = [type |-> Mmap, size |-> 16 + 24 * i, data |-> d]

Begun(h, r, i, a, blk) ==
  i = 0 \/ (/\ Current(h, r, Mmap) /\ i \in 1 .. Len(map)
            /\ a \in DOMAIN blk /\ Entries(blk[a], i))

Written(h, r, m, i, a, blk) ==
  ReadTo(h, r, m) /\ Begun(h, r, i, a, blk) /\ Walked(blk, Done(Tags, h, r, m), a)

LEMMA PlacedKeeps ==
  ASSUME at \in Nat, NEW t, t.size \in Nat \ {0}, NEW new, new = Placed(at, t)
  PROVE  Keeps(info, new, at) /\ at \in DOMAIN new /\ new[at] = t
<1>1. PICK o \in Nat, len \in Nat \ {0} : o = at /\ len = t.size
  OBVIOUS
<1> DEFINE P == (DOMAIN info \ (o .. o + len - 1)) \cup {o}
<1>2. new = [p \in P |-> IF p = o THEN t ELSE info[p]]
  BY <1>1 DEF Placed
<1>3. o \in Nat /\ \A p \in o .. o + len - 1 : o <= p
  BY <1>1
<1>4. \A p \in DOMAIN info : p < o => p \in P /\ p # o
  BY <1>3
<1>5. o \in P
  OBVIOUS
<1> HIDE DEF P
<1> QED BY <1>1, <1>2, <1>4, <1>5 DEF Keeps

(* A request that is answered by no tag, and one that is by one. *)
LEMMA RequestOn ==
  ASSUME Configured, Written(htag, req, mod, idx, at, info),
         NEW type, Current(htag, req, type)
  PROVE  /\ ReadTo(htag, req + 1, 1)
         /\ type # Module3 => mod = 1
         /\ Done(Tags, htag, req, 1) \in Seq(Answers(Tags))
         /\ Done(Tags, htag, req + 1, 1) = Done(Tags, htag, req, 1) \o Answer(type)
         /\ type \in Types(Tags) /\ at \in Nat
<1>1. PICK tags, h, r : tags = Tags /\ h = htag /\ r = req
  OBVIOUS
<1>2. /\ Headers(tags) /\ h \in 1 .. Len(tags) /\ r \in 1 .. Len(AskedBy(tags[h])) + 1
      /\ tags[h].type = InformationRequest /\ r \in 1 .. Len(tags[h].reqs)
      /\ tags[h].reqs[r] = type
      /\ mod = 1 \/ tags[h].reqs[r] = Module3
  BY <1>1, Zenon DEF Written, ReadTo, Current
<1>3. /\ r + 1 \in 1 .. Len(AskedBy(tags[h])) + 1
      /\ Before(tags, h, r + 1) = Before(tags, h, r) \o Answer(type)
  BY <1>2, DoneRequest
<1>4. /\ Done(tags, h, r, 1) = Before(tags, h, r)
      /\ Done(tags, h, r + 1, 1) = Before(tags, h, r + 1)
  BY <1>2, <1>3, DoneIs
<1>5. Before(tags, h, r) \in Seq(Answers(tags))
  BY <1>2, BeforeIs
<1>6. type \in Types(tags)
  <2>1. Len(tags) \in Nat /\ Len(tags[h].reqs) \in Nat
    BY <1>2, Zenon DEF Headers
  <2>2. h \in Nat /\ r \in Nat
    BY <1>2, <2>1
  <2>3. PICK x : x = <<h, r>>
    OBVIOUS
  <2>4. x \in Nat \X Nat /\ tags[x[1]].reqs[x[2]] = type
    BY <1>2, <2>2, <2>3
  <2> QED BY <2>4, Zenon DEF Types
<1>7. ReadTo(h, r + 1, 1)
  BY <1>1, <1>2, <1>3 DEF ReadTo
<1>8. at \in Nat
  BY DEF Written, Walked
<1> QED BY <1>1, <1>2, <1>3, <1>4, <1>5, <1>6, <1>7, <1>8

LEMMA AnsweredNot ==
  ASSUME Configured, Written(htag, req, mod, idx, at, info),
         NEW type, Current(htag, req, type), type # Module3, Times(type) = 0
  PROVE  Written(htag, req + 1, 1, 0, at, info)
<1>1. PICK D : D = Done(Tags, htag, req, 1)
  OBVIOUS
<1>2. /\ ReadTo(htag, req + 1, 1) /\ D \in Seq(Answers(Tags)) /\ mod = 1
      /\ Done(Tags, htag, req + 1, 1) = D \o Answer(type)
  BY <1>1, RequestOn
<1>3. Answer(type) = <<>>
  BY DEF Answer
<1>4. Done(Tags, htag, req + 1, 1) = D
  BY <1>2, <1>3, ConcatEmptySeq
<1>5. Walked(info, D, at)
  BY <1>1, <1>2 DEF Written
<1> QED BY <1>2, <1>4, <1>5 DEF Written, Begun

LEMMA AnsweredOnce ==
  ASSUME Configured, Written(htag, req, mod, idx, at, info),
         NEW type, Current(htag, req, type), type # Module3, Times(type) = 1,
         NEW t, WrittenAs(<<type, 1>>, t),
         NEW new, new = Placed(at, t), NEW x, x = NEXT_TAG(at, t.size)
  PROVE  Written(htag, req + 1, 1, 0, x, new)
<1>1. PICK D, w, T : D = Done(Tags, htag, req, 1) /\ w = <<type, 1>> /\ T = Answers(Tags)
  OBVIOUS
<1>2. /\ ReadTo(htag, req + 1, 1) /\ D \in Seq(T) /\ mod = 1
      /\ Done(Tags, htag, req + 1, 1) = D \o Answer(type)
      /\ type \in Types(Tags) /\ at \in Nat
  BY <1>1, RequestOn
<1>3. w \in T
  BY <1>1, <1>2 DEF Answers
<1>4. Answer(type) = <<w>>
  <2>1. Answer(type) = [i \in 1 .. 1 |-> <<type, i>>]
    BY DEF Answer
  <2>2. \A i \in 1 .. 1 : <<type, i>> = w
    BY <1>1
  <2> QED BY <2>1, <2>2
<1>5. D \o <<w>> = Append(D, w)
  BY <1>2, <1>3
<1>6. Done(Tags, htag, req + 1, 1) = Append(D, w)
  BY <1>2, <1>4, <1>5
<1>7. Walked(info, D, at)
  BY <1>1, <1>2 DEF Written
<1>8. Keeps(info, new, at) /\ at \in DOMAIN new /\ new[at] = t
  <2>1. t.size \in Nat \ {0}
    BY DEF WrittenAs
  <2> QED BY <1>2, <2>1, PlacedKeeps
<1>9. WrittenAs(w, new[at]) /\ x = NEXT_TAG(at, new[at].size)
  BY <1>1, <1>8
<1>10. Walked(new, Append(D, w), x)
  BY <1>2, <1>3, <1>7, <1>8, <1>9, WalkOn
<1> QED BY <1>2, <1>6, <1>10 DEF Written, Begun

(* A module is told of, and all of them have been. *)
LEMMA NotMapped ==
  ASSUME Written(htag, req, mod, idx, at, info), NEW type, Current(htag, req, type),
         type # Mmap
  PROVE  idx = 0
BY DEF Written, Begun, Current

LEMMA ModuleTold ==
  ASSUME Configured, Valued, Written(htag, req, mod, idx, at, info),
         Current(htag, req, Module3), mod <= Len(cfg.modules),
         NEW m, m = cfg.modules[mod],
         NEW t, t = [type |-> Module3, size |-> 16 + StrLen[m.path] + 1,
                     data |-> <<m.addr, m.addr + m.size, m.path>>],
         NEW new, new = Placed(at, t), NEW x, x = NEXT_TAG(at, t.size)
  PROVE  Written(htag, req, mod + 1, idx, x, new)
<1>1. PICK tags, h, r, k : tags = Tags /\ h = htag /\ r = req /\ k = mod
  OBVIOUS
<1>2. /\ Headers(tags) /\ h \in 1 .. Len(tags) /\ r \in 1 .. Len(AskedBy(tags[h])) + 1
      /\ k \in Nat \ {0}
  BY <1>1, Zenon DEF Written, ReadTo
<1>3. PICK D, w, T : D = Done(tags, h, r, k) /\ w = <<Module3, k>> /\ T = Answers(tags)
  OBVIOUS
<1>4. D \in Seq(T) /\ Done(tags, h, r, k + 1) = Append(D, w)
  BY <1>2, <1>3, DoneIs
<1>5. w \in T
  BY <1>2, <1>3 DEF Answers, Types
<1>6. Walked(info, D, at) /\ at \in Nat
  BY <1>1, <1>3 DEF Written, Walked
<1>7. /\ t.type = Module3 /\ t.size \in Nat \ {0} /\ k \in DOMAIN cfg.modules
      /\ t.data = <<m.addr, m.addr + m.size, m.path>>
  <2>1. Len(cfg.modules) \in Nat /\ DOMAIN cfg.modules = 1 .. Len(cfg.modules)
    BY ModulesType
  <2>2. k \in DOMAIN cfg.modules
    BY <1>1, <1>2, <2>1
  <2>3. m.path \in Named
    BY <1>1, <2>2 DEF Valued
  <2>4. StrLen[m.path] \in Nat
    BY <2>3, MachineAssumption DEF Named
  <2> QED BY <2>2, <2>4, SMTT(60)
<1>8. WrittenAs(w, t)
  BY <1>1, <1>3, <1>7 DEF WrittenAs
<1>9. Keeps(info, new, at) /\ at \in DOMAIN new /\ new[at] = t
  BY <1>6, <1>7, PlacedKeeps, SMTT(60)
<1>10. Walked(new, Append(D, w), x)
  <2>1. WrittenAs(w, new[at]) /\ x = NEXT_TAG(at, new[at].size)
    BY <1>8, <1>9
  <2> QED BY <1>4, <1>5, <1>6, <1>9, <2>1, WalkOn
<1>11. ReadTo(h, r, k + 1)
  <2>1. Len(cfg.modules) \in Nat
    BY ModulesType
  <2>2. k + 1 \in Nat \ {0} /\ k + 1 <= Len(cfg.modules) + 1
    BY <1>1, <1>2, <2>1
  <2> QED BY <1>1, <1>2, <2>2 DEF ReadTo
<1>12. idx = 0
  BY NotMapped DEF Module3, Mmap
<1> QED BY <1>1, <1>4, <1>10, <1>11, <1>12 DEF Written, Begun

LEMMA ModulesTold ==
  ASSUME Configured, Written(htag, req, mod, idx, at, info),
         Current(htag, req, Module3), mod > Len(cfg.modules)
  PROVE  Written(htag, req + 1, 1, 0, at, info)
<1>1. PICK len \in Nat : len = Len(cfg.modules)
  BY ModulesType
<1>2. mod = len + 1
  <2>1. mod \in Nat \ {0} /\ (mod = 1 \/ mod <= len + 1)
    BY <1>1 DEF Written, ReadTo
  <2> QED BY <1>1, <2>1
<1>3. Answer(Module3) = Part(mod)
  <2>1. Times(Module3) = Len(cfg.modules)
    BY DEF Times, Cmdline, Module3, AcpiOld, AcpiNew
  <2>2. mod - 1 = len
    BY <1>2
  <2> QED BY <1>1, <2>1, <2>2 DEF Answer, Part
<1>4. /\ ReadTo(htag, req + 1, 1)
      /\ Done(Tags, htag, req + 1, 1) = Done(Tags, htag, req, 1) \o Answer(Module3)
  BY RequestOn
<1>5. Done(Tags, htag, req, 1) = Before(Tags, htag, req)
  <2>1. /\ Headers(Tags) /\ htag \in 1 .. Len(Tags)
        /\ req \in 1 .. Len(AskedBy(Tags[htag])) + 1
    BY Zenon DEF Written, ReadTo
  <2> QED BY <2>1, DoneIs
<1>6. Done(Tags, htag, req + 1, 1) = Done(Tags, htag, req, mod)
  BY <1>3, <1>4, <1>5, Zenon DEF Done
<1>7. Walked(info, Done(Tags, htag, req, mod), at)
  BY DEF Written
<1> QED BY <1>4, <1>6, <1>7 DEF Written, Begun

(* A map is told of entry by entry. *)
LEMMA MapIs ==
  ASSUME map \in MemMaps
  PROVE  /\ Len(map) \in Nat /\ DOMAIN map = 1 .. Len(map)
         /\ \A j \in DOMAIN map : [map[j] EXCEPT !.type = MmapType(@)] = Entry(j)
<1>1. /\ map \in Seq({map[i] : i \in DOMAIN map})
      /\ \A j \in DOMAIN map : map[j] = [base |-> map[j].base, type |-> map[j].type]
  BY MachineAssumption
<1>2. Len(map) \in Nat /\ DOMAIN map = 1 .. Len(map)
  BY <1>1, LenProperties
<1>3. ASSUME NEW j \in DOMAIN map PROVE [map[j] EXCEPT !.type = MmapType(@)] = Entry(j)
  <2>1. PICK b, k : map[j] = [base |-> b, type |-> k]
    BY <1>1
  <2>2. [[base |-> b, type |-> k] EXCEPT !.type = MmapType(@)]
          = [base |-> b, type |-> MmapType(k)]
    OBVIOUS
  <2> QED BY <2>1, <2>2 DEF Entry
<1> QED BY <1>2, <1>3

LEMMA MmapTagIs ==
  ASSUME map \in MemMaps, Written(htag, req, mod, idx, at, info)
  PROVE  Entries(MmapTag, idx) /\ idx \in 0 .. Len(map)
<1>1. Len(map) \in Nat
  BY MapIs
<1>2. CASE idx = 0
  <2>1. PICK d : d = <<>>
    OBVIOUS
  <2>2. d \in Seq(MapSet) /\ Len(d) = 0
    BY <2>1, EmptySeq
  <2>3. MmapTag = [type |-> Mmap, size |-> 16 + 24 * 0, data |-> d]
    BY <1>2, <2>1 DEF MmapTag
  <2>4. \A j \in 1 .. 0 : d[j] = Entry(j)
    OBVIOUS
  <2>5. Entries(MmapTag, 0)
    BY <2>2, <2>3, <2>4 DEF Entries
  <2> QED BY <1>1, <1>2, <2>5
<1>3. CASE idx # 0
  <2>1. Entries(info[at], idx) /\ idx \in 1 .. Len(map)
    BY <1>3 DEF Written, Begun
  <2>2. MmapTag = info[at]
    BY <1>3 DEF MmapTag
  <2> QED BY <1>1, <2>1, <2>2
<1> QED BY <1>2, <1>3

LEMMA EntryTold ==
  ASSUME Configured, map \in MemMaps, Written(htag, req, mod, idx, at, info),
         Current(htag, req, Mmap), idx < Len(map),
         NEW new, new = Placed(at, Entered(MmapTag))
  PROVE  Written(htag, req, mod, idx + 1, at, new)
<1>1. PICK i, k, t : i = idx /\ k = idx + 1 /\ t = MmapTag
  OBVIOUS
<1>2. Entries(t, i) /\ i \in Nat /\ k \in 1 .. Len(map) /\ k = i + 1
  <2>1. Len(map) \in Nat
    BY MapIs
  <2> QED BY <1>1, <2>1, MmapTagIs
<1>3. PICK d \in Seq(MapSet) :
        /\ Len(d) = i /\ \A j \in 1 .. i : d[j] = Entry(j)
        /\ t = [type |-> Mmap, size |-> 16 + 24 * i, data |-> d]
  BY <1>2 DEF Entries
<1>4. PICK e : e = Append(d, Entry(k))
  OBVIOUS
<1>5. Entered(t) = [type |-> Mmap, size |-> 16 + 24 * k, data |-> e]
  <2>1. [map[k] EXCEPT !.type = MmapType(@)] = Entry(k)
    BY <1>2, MapIs
  <2>2. Entered(t) = [t EXCEPT !.size = @ + 24, !.data = Append(@, Entry(k))]
    BY <1>1, <2>1 DEF Entered
  <2>3. (16 + 24 * i) + 24 = 16 + 24 * k
    BY <1>2
  <2> QED BY <1>3, <1>4, <2>2, <2>3
<1>6. Entry(k) \in MapSet
  <2>1. k \in DOMAIN map
    BY <1>2, MapIs
  <2> QED BY <2>1 DEF MapSet
<1>7. e \in Seq(MapSet) /\ Len(e) = k /\ \A j \in 1 .. k : e[j] = Entry(j)
  <2>1. e \in Seq(MapSet) /\ Len(e) = k /\ e[k] = Entry(k) /\ \A j \in 1 .. i : e[j] = d[j]
    BY <1>2, <1>3, <1>4, <1>6
  <2>2. \A j \in 1 .. k : j = k \/ j \in 1 .. i
    BY <1>2
  <2> QED BY <1>3, <2>1, <2>2
<1>8. Entries(Entered(t), k)
  BY <1>5, <1>7 DEF Entries
<1>9. Entered(t).size \in Nat \ {0}
  BY <1>2, <1>5
<1>10. at \in Nat
  BY DEF Written, Walked
<1>11. Keeps(info, new, at) /\ at \in DOMAIN new /\ new[at] = Entered(t)
  BY <1>1, <1>9, <1>10, PlacedKeeps
<1>12. Walked(new, Done(Tags, htag, req, mod), at)
  BY <1>11, WalkKept DEF Written
<1>13. Begun(htag, req, k, at, new)
  BY <1>2, <1>8, <1>11 DEF Begun
<1> QED BY <1>1, <1>12, <1>13 DEF Written

LEMMA MapTold ==
  ASSUME Configured, map \in MemMaps, Written(htag, req, mod, idx, at, info),
         Current(htag, req, Mmap), idx = Len(map),
         NEW new, new = Placed(at, MmapTag), NEW x, x = NEXT_TAG(at, MmapTag.size)
  PROVE  Written(htag, req + 1, 1, 0, x, new)
<1>1. PICK t : t = MmapTag
  OBVIOUS
<1>2. PICK i \in Nat : i = Len(map) /\ DOMAIN map = 1 .. i
  BY MapIs
<1>3. PICK d \in Seq(MapSet) :
        /\ Len(d) = i /\ \A j \in 1 .. i : d[j] = Entry(j)
        /\ t = [type |-> Mmap, size |-> 16 + 24 * i, data |-> d]
  BY <1>1, <1>2, MmapTagIs DEF Entries
<1>4. t.type = Mmap /\ t.size = 16 + 24 * i /\ t.size \in Nat \ {0} /\ t.data = d
  BY <1>3
<1>5. \A j \in DOMAIN map : d[j].base = map[j].base /\ d[j].type = MmapType(map[j].type)
  <2>1. \A j : Entry(j).base = map[j].base /\ Entry(j).type = MmapType(map[j].type)
    BY DEF Entry
  <2> QED BY <1>2, <1>3, <2>1
<1>6. TrueOf(Mmap, 1, t)
  BY <1>2, <1>3, <1>4, <1>5 DEF TrueOf, Mmap, Module3, Cmdline, BasicMeminfo
<1>7. WrittenAs(<<Mmap, 1>>, t)
  BY <1>4, <1>6 DEF WrittenAs, Mmap, Module3
<1>8. Times(Mmap) = 1 /\ Mmap # Module3
  BY DEF Times, Mmap, Module3, Cmdline, AcpiOld, AcpiNew
<1> QED BY <1>1, <1>7, <1>8, AnsweredOnce

------------------------------------------------------------------------------
(***************************************************************************)
(* The parser's steps.                                                     *)
(***************************************************************************)
WrittenNow == Written(htag, req, mod, idx, at, info)

LEMMA RequestedIs ==
  ASSUME WrittenNow, NEW type, Requested(type)
  PROVE  Current(htag, req, type)
<1>1. PICK h, r, q : h = htag /\ r = req /\ q = Tags[h].reqs
  OBVIOUS
<1>2. /\ Tags[h].type = InformationRequest /\ r <= Len(q) /\ q[r] = type
  BY <1>1 DEF Requested, Tag, Tags
<1>3. Len(q) \in Nat
  BY <1>1, Zenon DEF WrittenNow, Written, ReadTo, Headers
<1>4. r \in 1 .. Len(AskedBy(Tags[h])) + 1
  BY <1>1, Zenon DEF WrittenNow, Written, ReadTo
<1>5. r \in 1 .. Len(q)
  BY <1>2, <1>3, <1>4
<1> QED BY <1>1, <1>2, <1>5 DEF Current

LEMMA CmdlineTold ==
  ASSUME Configured, Valued, WrittenNow, PopCmdline
  PROVE  Written(htag', req', mod', idx', at', info')
<1>1. /\ Requested(Cmdline) /\ htag' = htag /\ req' = req + 1 /\ mod' = 1 /\ idx' = 0
  BY DEF PopCmdline, NextRequest
<1>2. Current(htag, req, Cmdline) /\ Cmdline # Module3
  BY <1>1, RequestedIs DEF Cmdline, Module3
<1>3. CASE cfg.cmdline = NULL
  <2>1. at' = at /\ info' = info
    BY <1>3 DEF PopCmdline
  <2>2. Times(Cmdline) = 0
    BY <1>3 DEF Times, Cmdline, Module3, AcpiOld, AcpiNew
  <2> QED BY <1>1, <1>2, <2>1, <2>2, AnsweredNot DEF WrittenNow
<1>4. CASE cfg.cmdline # NULL
  <2>1. PICK t, new, x : t = Text(Cmdline, cfg.cmdline) /\ new = info' /\ x = at'
    OBVIOUS
  <2>2. new = Placed(at, t) /\ x = NEXT_TAG(at, t.size)
    BY <1>4, <2>1 DEF PopCmdline, Pop
  <2>3. StrLen[cfg.cmdline] \in Nat
    BY <1>4, MachineAssumption DEF Valued, Named
  <2>4. t.type = Cmdline /\ t.size \in Nat \ {0} /\ t.data = <<cfg.cmdline>>
    BY <2>1, <2>3 DEF Text
  <2>5. TrueOf(Cmdline, 1, t)
    BY <2>4 DEF TrueOf, Cmdline, Module3, BasicMeminfo, Mmap
  <2>6. WrittenAs(<<Cmdline, 1>>, t)
    BY <1>2, <2>4, <2>5 DEF WrittenAs
  <2>7. Times(Cmdline) = 1
    BY <1>4 DEF Times, Cmdline, Module3, AcpiOld, AcpiNew
  <2>8. Written(htag, req + 1, 1, 0, x, new)
    BY <1>2, <2>2, <2>6, <2>7, AnsweredOnce DEF WrittenNow
  <2> QED BY <1>1, <2>1, <2>8
<1> QED BY <1>3, <1>4

(* A tag that is popped at any rate, and whose data are no matter or fit.  *)
LEMMA PopTold ==
  ASSUME Configured, WrittenNow, NextRequest, NEW type, Current(htag, req, type),
         type # Module3, Times(type) = 1, NEW t, Pop(t),
         t.type = type, t.size \in Nat \ {0}, TrueOf(type, 1, t)
  PROVE  Written(htag', req', mod', idx', at', info')
<1>1. htag' = htag /\ req' = req + 1 /\ mod' = 1 /\ idx' = 0
  BY DEF NextRequest
<1>2. PICK new, x : new = info' /\ x = at'
  OBVIOUS
<1>3. new = Placed(at, t) /\ x = NEXT_TAG(at, t.size)
  BY <1>2 DEF Pop
<1>4. WrittenAs(<<type, 1>>, t)
  BY DEF WrittenAs
<1>5. Written(htag, req + 1, 1, 0, x, new)
  BY <1>3, <1>4, AnsweredOnce DEF WrittenNow
<1> QED BY <1>1, <1>2, <1>5

LEMMA NameTold ==
  ASSUME Configured, WrittenNow, PopName
  PROVE  Written(htag', req', mod', idx', at', info')
<1>1. PICK t : t = Text(BootloaderName, "LBoot")
  OBVIOUS
<1>2. /\ Requested(BootloaderName) /\ NextRequest /\ Pop(t)
  BY <1>1 DEF PopName
<1>3. StrLen["LBoot"] \in Nat
  BY MachineAssumption
<1>4. t.type = BootloaderName /\ t.size \in Nat \ {0}
  BY <1>1, <1>3 DEF Text
<1>5. /\ BootloaderName # Module3 /\ Times(BootloaderName) = 1
      /\ TrueOf(BootloaderName, 1, t)
  BY DEF Times, TrueOf, BootloaderName, Cmdline, Module3, BasicMeminfo, Mmap, AcpiOld, AcpiNew
<1> QED BY <1>2, <1>4, <1>5, RequestedIs, PopTold

LEMMA MeminfoTold ==
  ASSUME Configured, WrittenNow, PopMeminfo
  PROVE  Written(htag', req', mod', idx', at', info')
<1>1. Requested(BasicMeminfo) /\ NextRequest
  BY DEF PopMeminfo
<1>2. PICK lower, t : /\ t = [type |-> BasicMeminfo, size |-> 16, data |-> <<lower, Upper>>]
                      /\ Pop(t)
  BY DEF PopMeminfo
<1>3. t.type = BasicMeminfo /\ t.size \in Nat \ {0} /\ t.data[2] = Upper
  BY <1>2
<1>4. /\ BasicMeminfo # Module3 /\ Times(BasicMeminfo) = 1
      /\ TrueOf(BasicMeminfo, 1, t)
  BY <1>3 DEF Times, TrueOf, Cmdline, Module3, BasicMeminfo, Mmap, AcpiOld, AcpiNew
<1> QED BY <1>1, <1>2, <1>3, <1>4, RequestedIs, PopTold

LEMMA AcpiTold ==
  ASSUME Configured, WrittenNow, PopAcpi
  PROVE  Written(htag', req', mod', idx', at', info')
<1>1. htag' = htag /\ req' = req + 1 /\ mod' = 1 /\ idx' = 0 /\ NextRequest
  BY DEF PopAcpi, NextRequest
<1>2. ASSUME NEW type, NEW has \in BOOLEAN, NEW size, Requested(type), type # Module3,
             size \in Nat \ {0}, Times(type) = IF has THEN 1 ELSE 0,
             IF has THEN Pop([type |-> type, size |-> size, data |-> <<>>])
             ELSE UNCHANGED <<at, info>>,
             \A t : TrueOf(type, 1, t)
      PROVE  Written(htag', req', mod', idx', at', info')
  <2>1. Current(htag, req, type)
    BY <1>2, RequestedIs
  <2>2. CASE has
    <3>1. PICK t : t = [type |-> type, size |-> size, data |-> <<>>]
      OBVIOUS
    <3>2. Pop(t) /\ t.type = type /\ t.size \in Nat \ {0}
      BY <1>2, <2>2, <3>1
    <3>3. Times(type) = 1
      BY <1>2, <2>2
    <3> QED BY <1>1, <1>2, <2>1, <3>2, <3>3, PopTold
  <2>3. CASE ~has
    <3>1. at' = at /\ info' = info /\ Times(type) = 0
      BY <1>2, <2>3
    <3>2. Written(htag, req + 1, 1, 0, at, info)
      BY <1>2, <2>1, <3>1, AnsweredNot DEF WrittenNow
    <3> QED BY <1>1, <3>1, <3>2
  <2> QED BY <2>2, <2>3
<1>3. /\ AcpiOld # Module3 /\ Times(AcpiOld) = IF HasOld THEN 1 ELSE 0
      /\ AcpiNew # Module3 /\ Times(AcpiNew) = IF HasNew THEN 1 ELSE 0
      /\ \A t : TrueOf(AcpiOld, 1, t) /\ TrueOf(AcpiNew, 1, t)
  BY DEF Times, TrueOf, Cmdline, Module3, BasicMeminfo, Mmap, AcpiOld, AcpiNew
<1>4. PICK old \in BOOLEAN, new \in BOOLEAN : (old <=> HasOld) /\ (new <=> HasNew)
  OBVIOUS
<1>5. CASE Requested(AcpiOld) /\ IF HasOld
                                 THEN Pop([type |-> AcpiOld, size |-> 28, data |-> <<>>])
                                 ELSE UNCHANGED <<at, info>>
  BY <1>2, <1>3, <1>4, <1>5
<1>6. CASE Requested(AcpiNew) /\ IF HasNew
                                 THEN Pop([type |-> AcpiNew, size |-> 44, data |-> <<>>])
                                 ELSE UNCHANGED <<at, info>>
  BY <1>2, <1>3, <1>4, <1>6
<1> QED BY <1>5, <1>6 DEF PopAcpi

LEMMA PopModuleTold ==
  ASSUME Configured, Valued, WrittenNow, PopModule
  PROVE  Written(htag', req', mod', idx', at', info')
<1>1. Current(htag, req, Module3)
  <2>1. Requested(Module3)
    BY DEF PopModule
  <2> QED BY <2>1, RequestedIs
<1>2. mod \in Nat /\ Len(cfg.modules) \in Nat
  BY ModulesType DEF WrittenNow, Written, ReadTo
<1>3. CASE mod > Len(cfg.modules)
  <2>1. /\ htag' = htag /\ req' = req + 1 /\ mod' = 1 /\ idx' = 0
        /\ at' = at /\ info' = info
    BY <1>3 DEF PopModule, NextRequest
  <2>2. Written(htag, req + 1, 1, 0, at, info)
    BY <1>1, <1>3, ModulesTold DEF WrittenNow
  <2> QED BY <2>1, <2>2
<1>4. CASE ~(mod > Len(cfg.modules))
  <2>1. PICK m, new, x : m = cfg.modules[mod] /\ new = info' /\ x = at'
    OBVIOUS
  <2>2. PICK t : t = [type |-> Module3, size |-> 16 + StrLen[m.path] + 1,
                      data |-> <<m.addr, m.addr + m.size, m.path>>]
    OBVIOUS
  <2>3. /\ htag' = htag /\ req' = req /\ mod' = mod + 1 /\ idx' = idx /\ Pop(t)
    BY <1>4, <2>1, <2>2 DEF PopModule
  <2>4. new = Placed(at, t) /\ x = NEXT_TAG(at, t.size) /\ mod <= Len(cfg.modules)
    BY <1>2, <1>4, <2>1, <2>3 DEF Pop
  <2>5. Written(htag, req, mod + 1, idx, x, new)
    BY <1>1, <2>1, <2>2, <2>4, ModuleTold DEF WrittenNow
  <2> QED BY <2>1, <2>3, <2>5
<1> QED BY <1>3, <1>4

LEMMA PopMmapTold ==
  ASSUME Configured, map \in MemMaps, WrittenNow, PopMmap
  PROVE  Written(htag', req', mod', idx', at', info')
<1>1. Current(htag, req, Mmap)
  <2>1. Requested(Mmap)
    BY DEF PopMmap
  <2> QED BY <2>1, RequestedIs
<1>2. PICK new, x : new = info' /\ x = at'
  OBVIOUS
<1>3. CASE /\ idx < Len(map)
           /\ info' = Placed(at, Entered(MmapTag)) /\ idx' = idx + 1
           /\ UNCHANGED <<lvars, htag, req, mod, at, machine>>
  <2>1. Written(htag, req, mod, idx + 1, at, new)
    BY <1>1, <1>2, <1>3, EntryTold DEF WrittenNow
  <2> QED BY <1>2, <1>3, <2>1
<1>4. CASE idx = Len(map) /\ Pop(MmapTag) /\ NextRequest
  <2>1. new = Placed(at, MmapTag) /\ x = NEXT_TAG(at, MmapTag.size)
    BY <1>2, <1>4 DEF Pop
  <2>2. Written(htag, req + 1, 1, 0, x, new)
    BY <1>1, <1>4, <2>1, MapTold DEF WrittenNow
  <2>3. htag' = htag /\ req' = req + 1 /\ mod' = 1 /\ idx' = 0
    BY <1>4 DEF NextRequest
  <2> QED BY <1>2, <2>2, <2>3
<1> QED BY <1>3, <1>4 DEF PopMmap

(* A tag of the header is done with: the last request in it has been seen  *)
(* to, or there is none.                                                   *)
LEMMA TagDone ==
  ASSUME Configured, WrittenNow,
         Tag.type = InformationRequest => req > Len(Tag.reqs)
  PROVE  /\ mod = 1 /\ idx = 0
         /\ Walked(info, Joined(AskedIn(Tags))[htag], at)
         /\ htag # Len(Tags) =>
              Joined(AskedIn(Tags))[htag] = Done(Tags, htag + 1, 1, 1)
<1>1. PICK tags, h, r : tags = Tags /\ h = htag /\ r = req
  OBVIOUS
<1>2. PICK by : by = AskedBy(tags[h])
  OBVIOUS
<1>3. /\ Headers(tags) /\ h \in 1 .. Len(tags) /\ r \in 1 .. Len(by) + 1
  BY <1>1, <1>2, Zenon DEF WrittenNow, Written, ReadTo
<1>4. tags[h].type = InformationRequest => r > Len(tags[h].reqs)
  BY <1>1 DEF Tag, Tags
<1>5. Len(by) \in Nat /\ (tags[h].type # InformationRequest => Len(by) = 0)
      /\ (tags[h].type = InformationRequest => Len(by) = Len(tags[h].reqs))
  BY <1>2, <1>3, AskedByIs DEF Asks
<1>6. r = Len(by) + 1
  <2>1. CASE tags[h].type = InformationRequest
    BY <1>3, <1>4, <1>5, <2>1
  <2>2. CASE tags[h].type # InformationRequest
    BY <1>3, <1>5, <2>2
  <2> QED BY <2>1, <2>2
<1>7. \A type : ~Current(h, r, type)
  <2>1. CASE tags[h].type = InformationRequest
    <3>1. r \notin 1 .. Len(tags[h].reqs)
      BY <1>3, <1>4, <1>5, <2>1
    <3> QED BY <1>1, <3>1 DEF Current
  <2>2. CASE tags[h].type # InformationRequest
    BY <1>1, <2>2 DEF Current
  <2> QED BY <2>1, <2>2
<1>8. mod = 1 /\ idx = 0
  BY <1>1, <1>7, Zenon DEF WrittenNow, Written, ReadTo, Begun
<1>9. Done(tags, h, r, 1) = Before(tags, h, r)
  BY <1>2, <1>3, DoneIs
<1>10. /\ Joined(AskedIn(tags))[h] = Before(tags, h, r)
       /\ h # Len(tags) => Before(tags, h + 1, 1) = Before(tags, h, r)
  BY <1>2, <1>3, <1>6, DoneTag
<1>11. Walked(info, Done(tags, h, r, 1), at)
  BY <1>1, <1>8, Zenon DEF WrittenNow, Written
<1>12. ASSUME h # Len(tags) PROVE Done(tags, h + 1, 1, 1) = Before(tags, h + 1, 1)
  <2>1. h + 1 \in 1 .. Len(tags)
    <3>1. Len(tags) \in Nat
      BY <1>3 DEF Headers
    <3> QED BY <1>3, <1>12, <3>1, SMTT(60)
  <2>2. Len(AskedBy(tags[h + 1])) \in Nat
    BY <1>3, <2>1, AskedByIs DEF Asks
  <2>3. 1 \in 1 .. Len(AskedBy(tags[h + 1])) + 1
    BY <2>2
  <2> QED BY <1>3, <2>1, <2>3, DoneIs
<1> QED BY <1>1, <1>8, <1>9, <1>10, <1>11, <1>12

LEMMA NextTagTold ==
  ASSUME Configured, WrittenNow, NextHeaderTag
  PROVE  Written(htag', req', mod', idx', at', info')
<1>1. /\ htag' = htag + 1 /\ req' = 1 /\ mod' = mod /\ idx' = idx /\ at' = at /\ info' = info
      /\ Tag.type # HeaderEnd /\ (Tag.type = InformationRequest => req > Len(Tag.reqs))
  BY DEF NextHeaderTag
<1>2. /\ mod = 1 /\ idx = 0
      /\ Walked(info, Joined(AskedIn(Tags))[htag], at)
      /\ htag # Len(Tags) =>
           Joined(AskedIn(Tags))[htag] = Done(Tags, htag + 1, 1, 1)
  BY <1>1, TagDone
<1>3. PICK tags, h : tags = Tags /\ h = htag
  OBVIOUS
<1>4. Headers(tags) /\ h \in 1 .. Len(tags)
  BY <1>3, Zenon DEF WrittenNow, Written, ReadTo
<1>5. h # Len(tags)
  BY <1>1, <1>3, <1>4, Zenon DEF Headers, Tag, Tags
<1>6. h + 1 \in 1 .. Len(tags)
  <2>1. Len(tags) \in Nat
    BY <1>4 DEF Headers
  <2> QED BY <1>4, <1>5, <2>1, SMTT(60)
<1>7. 1 \in 1 .. Len(AskedBy(tags[h + 1])) + 1
  <2>1. Len(AskedBy(tags[h + 1])) \in Nat
    BY <1>4, <1>6, AskedByIs DEF Asks
  <2> QED BY <2>1
<1>8. ReadTo(h + 1, 1, 1)
  BY <1>3, <1>4, <1>6, <1>7 DEF ReadTo
<1>9. Written(h + 1, 1, 1, 0, at, info)
  BY <1>2, <1>3, <1>5, <1>8 DEF Written, Begun
<1> QED BY <1>1, <1>2, <1>3, <1>9

LEMMA EnterTold ==
  ASSUME Configured, WrittenNow, Enter
  PROVE  Walked(info, Asked, at)
<1>1. Tag.type = HeaderEnd /\ HeaderEnd # InformationRequest
  BY DEF Enter, HeaderEnd, InformationRequest
<1>2. Walked(info, Joined(AskedIn(Tags))[htag], at)
  BY <1>1, TagDone
<1>3. Headers(Tags) /\ htag \in 1 .. Len(Tags)
  BY Zenon DEF WrittenNow, Written, ReadTo
<1>4. htag = Len(Tags)
  BY <1>1, <1>3, Zenon DEF Headers, Tag, Tags
<1> QED BY <1>2, <1>4, Zenon DEF Asked, Tags

LEMMA BeginTold ==
  ASSUME Configured, Headers(Tags), NEW blk
  PROVE  Written(1, 1, 1, 0, 8, blk)
<1>1. PICK tags : tags = Tags
  OBVIOUS
<1>2. Len(tags) \in Nat \ {0}
  BY <1>1 DEF Headers
<1>3. 1 \in 1 .. Len(tags)
  BY <1>2
<1>4. 1 \in 1 .. Len(AskedBy(tags[1])) + 1
  <2>1. Len(AskedBy(tags[1])) \in Nat
    BY <1>1, <1>3, AskedByIs DEF Asks
  <2> QED BY <2>1
<1>5. ReadTo(1, 1, 1)
  BY <1>1, <1>3, <1>4 DEF ReadTo
<1>6. PICK D : D = Done(tags, 1, 1, 1)
  OBVIOUS
<1>7. D = <<>>
  BY <1>1, <1>6, DoneFirst
<1> DEFINE offs == [k \in 1 .. 1 |-> 8]
<1>8. offs[1] = 8 /\ offs[0 + 1] = 8
  OBVIOUS
<1> HIDE DEF offs
<1>9. Walk(blk, D, 0, 8, offs)
  BY <1>8 DEF Walk
<1>10. Len(D) = 0
  BY <1>7
<1>11. Walked(blk, D, 8)
  BY <1>9, <1>10 DEF Walked
<1> QED BY <1>1, <1>5, <1>6, <1>11 DEF Written, Begun

------------------------------------------------------------------------------
(***************************************************************************)
(* What is asked for depends on nothing that the parser changes.           *)
(***************************************************************************)
Steady == UNCHANGED <<cfg, mem, multiboot, machine>>

LEMMA TimesSteady ==
  ASSUME Steady, NEW type
  PROVE  Times(type)' = Times(type)
BY DEF Steady, machine, Times, HasOld, HasNew

LEMMA AnswerSteady ==
  ASSUME Steady, NEW type
  PROVE  Answer(type)' = Answer(type)
<1>1. PICK len : len = Times(type) /\ len = Times(type)'
  BY TimesSteady
<1>2. Answer(type) = [i \in 1 .. len |-> <<type, i>>]
  BY <1>1, Zenon DEF Answer
<1>3. Answer(type)' = [i \in 1 .. len |-> <<type, i>>]
  BY <1>1, Zenon DEF Answer
<1> QED BY <1>2, <1>3

LEMMA AskedBySteady ==
  ASSUME Steady, NEW tag
  PROVE  AskedBy(tag)' = AskedBy(tag)
<1>1. CASE tag.type # InformationRequest
  BY <1>1 DEF AskedBy
<1>2. CASE tag.type = InformationRequest
  <2> DEFINE p == [r \in DOMAIN tag.reqs |-> Answer(tag.reqs[r])]
             q == [r \in DOMAIN tag.reqs |-> Answer(tag.reqs[r])']
  <2>1. AskedBy(tag) = p
    BY <1>2 DEF AskedBy, Answer
  <2>2. AskedBy(tag)' = q
    BY <1>2 DEF AskedBy, Answer
  <2>3. \A r \in DOMAIN tag.reqs : p[r] = q[r]
    BY AnswerSteady
  <2>4. /\ p = [r \in DOMAIN tag.reqs |-> p[r]]
        /\ q = [r \in DOMAIN tag.reqs |-> q[r]]
    OBVIOUS
  <2> HIDE DEF p, q
  <2>5. p = q
    BY <2>3, <2>4
  <2> QED BY <2>1, <2>2, <2>5
<1> QED BY <1>1, <1>2

LEMMA AskedInSteady ==
  ASSUME Steady, NEW tags
  PROVE  AskedIn(tags)' = AskedIn(tags)
<1> DEFINE S == DOMAIN tags
           p == [k \in S |-> AllOf(AskedBy(tags[k]))]
           q == [k \in S |-> AllOf(AskedBy(tags[k])')]
<1>1. AskedIn(tags) = p
  BY Zenon DEF AskedIn, AllOf
<1>2. AskedIn(tags)' = q
  BY Zenon DEF AskedIn, AllOf
<1>3. \A k \in S : p[k] = q[k]
  BY AskedBySteady
<1>4. p = [k \in S |-> p[k]] /\ q = [k \in S |-> q[k]]
  OBVIOUS
<1> HIDE DEF p, q
<1>5. p = q
  BY <1>3, <1>4
<1> QED BY <1>1, <1>2, <1>5

LEMMA DoneSteady ==
  ASSUME Steady, NEW tags, NEW k, NEW r, NEW m
  PROVE  Done(tags, k, r, m)' = Done(tags, k, r, m)
<1>1. /\ AskedBy(tags[k])' = AskedBy(tags[k])
      /\ AskedIn(tags)' = AskedIn(tags)
  BY AskedBySteady, AskedInSteady
<1> QED BY <1>1, Zenon DEF Done, Before

LEMMA TagsSteady == Steady => Tags' = Tags
BY DEF Steady, Tags, KernelHead

LEMMA WrittenAsSteady ==
  ASSUME Steady, NEW w, NEW t
  PROVE  WrittenAs(w, t)' <=> WrittenAs(w, t)
BY DEF Steady, machine, WrittenAs, TrueOf, ModuleTrue

LEMMA WalkedSteady ==
  ASSUME Steady, NEW blk, NEW D, NEW o
  PROVE  Walked(blk, D, o)' <=> Walked(blk, D, o)
<1>1. ASSUME NEW w, NEW p, NEW q
      PROVE  Passed(blk, w, p, q, o)' <=> Passed(blk, w, p, q, o)
  <2>1. WrittenAs(w, blk[p])' <=> WrittenAs(w, blk[p])
    BY WrittenAsSteady
  <2> QED BY <2>1, Zenon DEF Passed
<1>2. ASSUME NEW offs
      PROVE  Walk(blk, D, Len(D), o, offs)' <=> Walk(blk, D, Len(D), o, offs)
  BY <1>1, Zenon DEF Walk
<1> QED BY <1>2, Zenon DEF Walked

LEMMA ReadSteady ==
  ASSUME Steady, NEW h, NEW r, NEW m, NEW i, NEW a, NEW blk
  PROVE  Written(h, r, m, i, a, blk)' <=> Written(h, r, m, i, a, blk)
<1>0. PICK tags : tags = Tags /\ tags = Tags'
  BY TagsSteady
<1>1. ASSUME NEW type
      PROVE  Current(h, r, type)' <=> Current(h, r, type)
  BY <1>0, Zenon DEF Current
<1>2. ReadTo(h, r, m)' <=> ReadTo(h, r, m)
  <2>1. AskedBy(tags[h])' = AskedBy(tags[h])
    BY AskedBySteady
  <2>2. cfg' = cfg
    BY DEF Steady
  <2> QED BY <1>0, <1>1, <2>1, <2>2, Zenon DEF ReadTo
<1>3. Begun(h, r, i, a, blk)' <=> Begun(h, r, i, a, blk)
  <2>1. map' = map
    BY DEF Steady, machine
  <2>2. ASSUME NEW j PROVE Entry(j)' = Entry(j)
    BY <2>1 DEF Entry
  <2>3. MapSet' = MapSet
    BY <2>1, <2>2 DEF MapSet
  <2>4. Entries(blk[a], i)' <=> Entries(blk[a], i)
    BY <2>2, <2>3, Zenon DEF Entries
  <2> QED BY <1>1, <2>1, <2>4, Zenon DEF Begun
<1>4. Walked(blk, Done(Tags, h, r, m), a)' <=> Walked(blk, Done(Tags, h, r, m), a)
  <2>1. PICK D : D = Done(tags, h, r, m)
    OBVIOUS
  <2>2. D = Done(tags, h, r, m)'
    BY <2>1, DoneSteady
  <2>3. Walked(blk, D, a)' <=> Walked(blk, D, a)
    BY WalkedSteady
  <2>4. Walked(blk, Done(Tags, h, r, m), a) <=> Walked(blk, D, a)
    BY <1>0, <2>1, Zenon
  <2>5. Walked(blk, Done(Tags, h, r, m), a)' <=> Walked(blk, D, a)'
    BY <1>0, <2>2, Zenon
  <2> QED BY <2>3, <2>4, <2>5
<1> QED BY <1>2, <1>3, <1>4, Zenon DEF Written

LEMMA AskedOn ==
  ASSUME Steady, UNCHANGED <<at, info>>, Walked(info, Asked, at)
  PROVE  Walked(info, Asked, at)'
<1>1. PICK D, a, blk : D = Asked /\ a = at /\ blk = info
  OBVIOUS
<1>2. Asked' = D
  <2>1. PICK tags : tags = Tags /\ tags = Tags'
    BY TagsSteady
  <2>2. AskedIn(tags)' = AskedIn(tags)
    BY AskedInSteady
  <2> QED BY <1>1, <2>1, <2>2, Zenon DEF Asked, Tags
<1>3. Walked(blk, D, a)'
  BY <1>1, WalkedSteady
<1>4. a = at' /\ blk = info'
  BY <1>1
<1> QED BY <1>2, <1>3, <1>4, Zenon

LEMMA WrittenOn ==
  ASSUME Steady, Written(htag', req', mod', idx', at', info')
  PROVE  WrittenNow'
<1>1. PICK h, r, m, i, a, blk : /\ h = htag' /\ r = req' /\ m = mod'
                                /\ i = idx' /\ a = at' /\ blk = info'
  OBVIOUS
<1>2. Written(h, r, m, i, a, blk)'
  BY <1>1, ReadSteady
<1> QED BY <1>1, <1>2, Zenon DEF WrittenNow

------------------------------------------------------------------------------
(***************************************************************************)
(* The invariant about the block, and what follows from it.                *)
(***************************************************************************)
Telling ==
  /\ map \in MemMaps
  /\ pc \notin {"tags", "entered", "panic", "wrecked"} => htag = 1 /\ req = 1 /\ mod = 1 /\ idx = 0
  /\ pc = "tags" => WrittenNow
  /\ pc = "entered" /\ Magics # {} => Walked(info, Asked, at)

LEMMA InitTelling == Init => Telling
BY DEF Init, LInit, Telling

(* Where a header was found there is one. *)
LEMMA HeaderThere ==
  ASSUME Placing, pc = "header"
  PROVE  Headers(Tags)
<1>1. Magics # {} /\ multiboot = First(Magics) /\ data_begin \in Nat
  BY DEF Placing, Booting, Chosen, Loaded, Spans
<1>2. multiboot \in Magics
  <2>1. PICK x : x \in Magics
    BY <1>1
  <2> QED BY <1>1, <2>1, MagicsNat, FirstOf
<1>3. mem[multiboot].of \in DOMAIN Disk
  BY <1>2, MagicOf DEF MagicIn
<1> QED BY <1>3, HeadersOf DEF Tags, KernelHead

LEMMA SteadyStep ==
  ASSUME multiboot2_parse
  PROVE  Steady
<1>1. CASE Begin
  BY <1>1 DEF Begin, exec, Steady
<1>2. CASE NextHeaderTag \/ ParseError \/ Overrun \/ Enter
  BY <1>2 DEF NextHeaderTag, ParseError, Overrun, Enter, panic, lvars, exec, Steady
<1>3. CASE PopCmdline \/ PopName \/ PopMeminfo \/ PopAcpi
  BY <1>3 DEF PopCmdline, PopName, PopMeminfo, PopAcpi, NextRequest, lvars, exec, Steady
<1>4. CASE PopModule
  BY <1>4 DEF PopModule, NextRequest, lvars, exec, Steady
<1>5. CASE PopMmap
  BY <1>5 DEF PopMmap, NextRequest, lvars, exec, Steady
<1> QED BY <1>1, <1>2, <1>3, <1>4, <1>5 DEF multiboot2_parse

LEMMA ParseTelling ==
  ASSUME IInv, Valued, Placing, Telling, multiboot2_parse
  PROVE  Telling'
<1>1. Configured /\ Steady /\ map \in MemMaps /\ map' \in MemMaps
  BY SteadyStep DEF IInv, Telling, Steady, machine
<1>2. CASE Begin
  <2>1. /\ pc = "header" /\ pc' \in {"tags", "panic"} /\ at' = 8
        /\ UNCHANGED <<htag, req, mod, info, idx>>
    BY <1>2 DEF Begin
  <2>2. htag = 1 /\ req = 1 /\ mod = 1 /\ idx = 0
    BY <2>1 DEF Telling
  <2>3. Written(1, 1, 1, 0, 8, info)
    BY <1>1, <2>1, HeaderThere, BeginTold
  <2>4. WrittenNow'
    BY <1>1, <2>1, <2>2, <2>3, WrittenOn
  <2> QED BY <1>1, <2>1, <2>4 DEF Telling
<1>3. CASE ParseError \/ Overrun
  <2>1. pc' \in {"panic", "wrecked"}
    BY <1>3 DEF ParseError, Overrun, panic
  <2> QED BY <1>1, <2>1 DEF Telling
<1>4. CASE Enter
  <2>1. pc = "tags" /\ pc' = "entered" /\ UNCHANGED <<at, info>>
    BY <1>4 DEF Enter, parse
  <2>2. Walked(info, Asked, at)
    BY <1>1, <1>4, <2>1, EnterTold DEF Telling
  <2>3. Walked(info, Asked, at)'
    BY <1>1, <2>1, <2>2, AskedOn
  <2> QED BY <1>1, <2>1, <2>3 DEF Telling
<1>5. CASE NextHeaderTag \/ PopCmdline \/ PopName \/ PopModule \/ PopMeminfo \/ PopMmap \/ PopAcpi
  <2>1. pc = "tags" /\ pc' = "tags"
    <3>1. CASE NextHeaderTag
      BY <3>1 DEF NextHeaderTag, lvars
    <3>2. CASE PopCmdline \/ PopName \/ PopMeminfo \/ PopAcpi
      BY <3>2 DEF PopCmdline, PopName, PopMeminfo, PopAcpi, NextRequest, Requested, lvars
    <3>3. CASE PopModule
      BY <3>3 DEF PopModule, NextRequest, Requested, lvars
    <3>4. CASE PopMmap
      BY <3>4 DEF PopMmap, NextRequest, Requested, lvars
    <3> QED BY <1>5, <3>1, <3>2, <3>3, <3>4
  <2>2. WrittenNow
    BY <2>1 DEF Telling
  <2>3. Written(htag', req', mod', idx', at', info')
    BY <1>1, <1>5, <2>2, NextTagTold, CmdlineTold, NameTold, PopModuleTold, MeminfoTold,
       PopMmapTold, AcpiTold
  <2>4. WrittenNow'
    BY <1>1, <2>3, WrittenOn
  <2> QED BY <1>1, <2>1, <2>4 DEF Telling
<1> QED BY <1>2, <1>3, <1>4, <1>5 DEF multiboot2_parse

(* Up to the header the parser has not begun. *)
LEMMA LoaderTelling ==
  ASSUME Telling, LNext, UNCHANGED <<parse, machine>>
  PROVE  Telling'
<1>1. /\ pc \notin {"tags", "entered", "panic", "wrecked"} /\ pc' # "tags"
      /\ pc' = "entered" => Magics' = {}
  <2>1. CASE LoadConfig \/ _get_line \/ ParseKey \/ ConfigLoaded
    BY <2>1 DEF LoadConfig, _get_line, ParseKey, ConfigLoaded, NextLine, panic
  <2>2. CASE exec_open \/ _elf_prepare \/ _elf_load_phdr \/ LoadFails \/ _exec_load_modules
    BY <2>2 DEF exec_open, _elf_prepare, _elf_load_phdr, LoadFails, _exec_load_modules, panic
  <2>3. CASE _exec_detect_multiboot
    <3>1. /\ pc = "modules" /\ UNCHANGED <<mem, data_begin>>
          /\ \/ Magics = {} /\ pc' = "entered"
             \/ pc' = "panic"
             \/ pc' = "header"
      BY <2>3 DEF _exec_detect_multiboot
    <3>2. Magics' = Magics
      BY <3>1 DEF Magics, Magic
    <3> QED BY <3>1, <3>2
  <2> QED BY <2>1, <2>2, <2>3 DEF LNext
<1>2. UNCHANGED <<htag, req, mod, idx, map>>
  BY DEF parse, machine
<1> QED BY <1>1, <1>2 DEF Telling

LEMMA NextTelling ==
  ASSUME IInv, Valued, Placing, Telling, [Next]_vars
  PROVE  Telling'
<1>1. CASE UNCHANGED vars
  <2>1. Steady /\ UNCHANGED <<pc, data_begin, htag, req, mod, at, info, idx, map>>
    BY <1>1 DEF vars, lvars, exec, parse, machine, Steady
  <2>2. Magics' = Magics
    BY <2>1 DEF Magics, Magic, Steady
  <2>3. ASSUME pc = "tags" PROVE WrittenNow'
    <3>1. Written(htag', req', mod', idx', at', info')
      BY <2>1, <2>3 DEF Telling, WrittenNow
    <3> QED BY <2>1, <3>1, WrittenOn
  <2>4. ASSUME pc = "entered", Magics # {} PROVE Walked(info, Asked, at)'
    BY <2>1, <2>4, AskedOn DEF Telling
  <2> QED BY <2>1, <2>2, <2>3, <2>4 DEF Telling
<1>2. CASE LNext /\ UNCHANGED <<parse, machine>>
  BY <1>2, LoaderTelling
<1> QED BY <1>1, <1>2, ParseTelling DEF Next

LEMMA TellingTold == IInv /\ Placing /\ Telling => KernelTold
<1> SUFFICES ASSUME IInv, Placing, Telling, pc = "entered", Sound, addr <= MemTop, Headed,
                    at <= Prealloc
             PROVE  /\ multiboot # 0 /\ mem[multiboot].of = cfg.kernel
                    /\ \A k \in DOMAIN Asked :
                         /\ Found[k] \in DOMAIN info
                         /\ info[Found[k]].type = Asked[k][1]
                         /\ TrueOf(Asked[k][1], Asked[k][2], info[Found[k]])
                    /\ Found[Len(Asked) + 1] = at
  BY Zenon DEF KernelTold
<1>1. Magics # {} /\ multiboot # 0 /\ mem[multiboot].of = cfg.kernel
  BY HeaderFound
<1>2. Configured /\ cfg.kernel \in DOMAIN Disk /\ Intact
  BY IInvIntact DEF IInv, Configured, Booting, LoadedIntact
<1>3. Headers(Tags)
  BY <1>1, <1>2, HeadersOf DEF Tags, KernelHead
<1>4. PICK len \in Nat : len = Len(Asked) /\ DOMAIN Asked = 1 .. len
  <2>1. PICK tags, end : tags = Tags /\ end = Len(tags)
    OBVIOUS
  <2>2. end \in 0 .. Len(tags)
    <3>1. Len(tags) \in Nat
      BY <1>3, <2>1 DEF Headers
    <3> QED BY <2>1, <3>1
  <2>3. Joined(AskedIn(tags))[end] \in Seq(Answers(tags))
    BY <1>2, <1>3, <2>1, <2>2, AskedInIs, Zenon DEF Ask
  <2>4. Asked \in Seq(Answers(tags))
    BY <2>1, <2>3, Zenon DEF Asked, Tags
  <2> QED BY <2>4, LenProperties
<1>5. Walked(info, Asked, at)
  BY <1>1 DEF Telling
<1>6. PICK offs : Walk(info, Asked, len, at, offs)
  BY <1>4, <1>5, Zenon DEF Walked
<1>7. \A k \in 1 .. len + 1 : Found[k] = offs[k]
  BY <1>4, <1>6, FoundIs
<1>8. ASSUME NEW k \in 1 .. len
      PROVE  /\ Found[k] \in DOMAIN info
             /\ info[Found[k]].type = Asked[k][1]
             /\ TrueOf(Asked[k][1], Asked[k][2], info[Found[k]])
  <2>1. PICK w, p, q, t : /\ w = Asked[k] /\ p = offs[k] /\ q = offs[k + 1]
                          /\ t = info[p]
    OBVIOUS
  <2>2. Passed(info, w, p, q, at)
    BY <1>6, <2>1 DEF Walk
  <2>3. p \in DOMAIN info /\ WrittenAs(w, t)
    BY <2>1, <2>2 DEF Passed
  <2>4. TrueOf(w[1], w[2], t)
    <3>1. CASE w[1] # Module3
      BY <2>3, <3>1 DEF WrittenAs
    <3>2. CASE w[1] = Module3
      <4>1. PICK i, m : i = w[2] /\ m = cfg.modules[i]
        OBVIOUS
      <4>2. i \in DOMAIN cfg.modules /\ t.data = <<m.addr, m.addr + m.size, m.path>>
        BY <2>3, <3>2, <4>1 DEF WrittenAs
      <4>3. /\ m.addr \in Nat /\ m.size \in Nat /\ m.size = Disk[m.path].size
            /\ \A j \in 0 .. m.size - 1 : mem[m.addr + j] = Holds(m.path, j)
        BY <1>2, <4>1, <4>2, ModulesType DEF Intact
      <4>4. ModuleTrue(m, m.addr, m.addr + m.size)
        <5>1. (m.addr + m.size) - m.addr = m.size
          BY <4>3
        <5>2. ASSUME NEW a \in m.addr .. (m.addr + m.size) - 1
              PROVE  mem[a] = Holds(m.path, a - m.addr)
          <6>1. PICK j : j = a - m.addr
            OBVIOUS
          <6>2. j \in 0 .. m.size - 1 /\ m.addr + j = a
            BY <4>3, <6>1
          <6> QED BY <4>3, <6>1, <6>2
        <5> QED BY <4>3, <5>1, <5>2 DEF ModuleTrue
      <4>5. t.data[1] = m.addr /\ t.data[2] = m.addr + m.size
        BY <4>2
      <4>6. ModuleTrue(cfg.modules[w[2]], t.data[1], t.data[2])
        BY <4>1, <4>4, <4>5
      <4> QED BY <3>2, <4>6 DEF TrueOf, Cmdline, Module3, BasicMeminfo, Mmap
    <3> QED BY <3>1, <3>2
  <2>5. Found[k] = p
    BY <1>7, <2>1
  <2> QED BY <2>1, <2>3, <2>4, <2>5 DEF WrittenAs
<1>9. Found[len + 1] = at
  BY <1>6, <1>7 DEF Walk
<1> QED BY <1>1, <1>4, <1>8, <1>9

LEMMA TellingInvariance == Spec => [](IInv /\ Valued /\ Placing /\ Telling)
<1>1. Init => IInv /\ Valued /\ Placing /\ Telling
  BY InitIInv, InitValued, InitPlacing, InitTelling
<1>2. IInv /\ Valued /\ Placing /\ Telling /\ [Next]_vars
        => (IInv /\ Valued /\ Placing /\ Telling)'
  BY NextIInv, NextValued, NextPlacing, NextTelling
<1> QED BY <1>1, <1>2, PTL DEF Spec

(* A kernel that has a header, and whose segments are apart and above      *)
(* 1 MiB, is entered with a block in which it finds what the header asks   *)
(* for, in order and nothing else, and true of the memory it is entered    *)
(* with: multiboot.c:23-126 after exec.c:69-115, for every header,         *)
(* configuration, map of memory and layout of the kernel that leave room   *)
(* in memory for all that is loaded and in the block (multiboot.c:11) for  *)
(* all that is asked for.                                                  *)
THEOREM KernelAnswered == Spec => []KernelTold
BY TellingInvariance, TellingTold, PTL

=============================================================================
