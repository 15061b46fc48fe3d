------------------------------- MODULE MCBoot -------------------------------
(* Instances of Multiboot for TLC: kernels, modules and configurations. *)
EXTENDS Multiboot

Piece(kind, key, val) == [kind |-> kind, key |-> key, val |-> val]
Set(key, val) == Piece("set", key, val)
Note == Piece("text", "", "")
CR == Piece("cr", "", "")
LF == Piece("lf", "", "")

(* What lies behind the buffer: NUL, another line, or a line with a '='. *)
MCBehind == {<<>>, <<Note>>, <<LF, Note, CR>>, <<Set("MODULE", "b"), LF>>}

MCChars ==
  [v \in {"1", "2", "257", "A"} |->
     CASE v = "1" -> <<49>> [] v = "2" -> <<50>> [] v = "257" -> <<50, 53, 55>> [] v = "A" -> <<65>>]

(* Program headers. *)
Load(vaddr, paddr, filesz, memsz, offset) ==
  [load |-> TRUE, vaddr |-> vaddr, paddr |-> paddr, filesz |-> filesz, memsz |-> memsz, offset |-> offset]
NoteHeader == [Load(0, 0, 1, 1, 0) EXCEPT !.load = FALSE]

Elf(phdrs) == [ident |-> TRUE, host |-> TRUE, entry |-> 4, phdrs |-> phdrs]
NoElf == [Elf(<<>>) EXCEPT !.ident = FALSE]

(* Headers. *)
Ask(reqs) == [type |-> InformationRequest, optional |-> FALSE, reqs |-> reqs]
Other(optional) == [type |-> 6, optional |-> optional, reqs |-> <<>>]
EndTag == [type |-> HeaderEnd, optional |-> FALSE, reqs |-> <<>>]
Header(tags) == [x86 |-> TRUE, checked |-> TRUE, tags |-> Append(tags, EndTag)]
NoHeader == Header(<<>>)

File(size, elf, magic, head) == [size |-> size, elf |-> elf, magic |-> magic, head |-> head]
NoMagic == [k \in {} |-> 0]
MagicAt(k, v) == [j \in {k} |-> v]

Two == Elf(<<Load(6, 4, 2, 3, 2), NoteHeader, Load(12, 10, 1, 3, 4)>>)
TwoDown == Elf(<<Load(10, 10, 2, 2, 3), Load(4, 4, 1, 5, 2)>>)
Odd == Elf(<<Load(5, 5, 3, 3, 1)>>)

MCDisk ==
  [p \in {"all", "some", "odd", "bare", "low", "tail", "none", "old", "flat", "short", "bad", "must", "ask", "a", "b", "m"} |->
     CASE p = "all"   -> File(6, Two, MagicAt(2, 2), Header(<<Ask(<<1, 2, 3>>), Other(TRUE), Ask(<<4, 6, 14, 15, 3>>)>>))
       [] p = "some"  -> File(6, TwoDown, MagicAt(2, 2), Header(<<Ask(<<6, 1, 3>>)>>))
       [] p = "odd"   -> File(6, Odd, MagicAt(2, 2), Header(<<Ask(<<2>>)>>))
       [] p = "bare"  -> File(3, Elf(<<Load(4, 4, 1, 1, 2)>>), NoMagic, NoHeader)
       [] p = "low"   -> File(6, Elf(<<Load(4, 1, 2, 2, 2)>>), NoMagic, NoHeader)
       [] p = "tail"  -> File(6, Elf(<<Load(8, 8, 1, 2, 5), Load(4, 4, 4, 2, 0)>>), NoMagic, NoHeader)
       [] p = "none"  -> File(6, Elf(<<NoteHeader>>), NoMagic, NoHeader)
       [] p = "old"   -> File(6, Two, MagicAt(2, 1), NoHeader)
       [] p = "flat"  -> File(6, NoElf, NoMagic, NoHeader)
       [] p = "short" -> File(2, Two, NoMagic, NoHeader)
       [] p = "bad"   -> File(6, Two, MagicAt(4, 2), [NoHeader EXCEPT !.checked = FALSE])
       [] p = "must"  -> File(6, Two, MagicAt(2, 2), Header(<<Ask(<<2>>), Other(FALSE)>>))
       [] p = "ask"   -> File(6, Two, MagicAt(2, 2), Header(<<Ask(<<2, 5>>)>>))
       [] p = "a"     -> File(3, NoElf, NoMagic, NoHeader)
       [] p = "b"     -> File(2, NoElf, NoMagic, NoHeader)
       [] p = "m"     -> File(3, Two, MagicAt(0, 2), Header(<<Ask(<<3>>)>>))]

Kernels == DOMAIN MCDisk \ {"a", "b", "m"}
ModuleLists == {<<>>, <<"a">>, <<"b", "m">>, <<"m", "a">>, <<"x">>}
Eols == {<<LF>>, <<CR, LF>>, <<CR, LF, CR, LF>>}

(* A file as one would write it. *)
Written(kernel, mods, eol) ==
  <<Set("CFGVER", "1")>> \o eol \o <<Set("KERNEL", kernel)>> \o eol
    \o <<Set("CMDLINE", "opt")>> \o eol
    \o FlattenSeq([i \in DOMAIN mods |-> <<Set("MODULE", mods[i])>> \o eol])

MCTexts ==
  {Written(k, ms, eol) : k \in Kernels, ms \in ModuleLists, eol \in Eols}
    \cup {<<LF>>, <<Note, LF>>, <<Set("KERNEL", "all")>>,
          <<Set("KERNEL", "odd"), CR, Set("OTHER", "1"), CR, Set("KERNEL", "all"), LF>>,
          <<Note, CR, LF, Set("MODULE", "a"), LF, CR, Set("KERNEL", "some"), CR>>,
          <<Set("KERNEL", "some"), LF, Set("MODULE", "a"), LF, Set("MODULE", "b"), LF,
            Set("MODULE", "b"), LF>>}
    \cup {<<Set("KERNEL", "some"), LF, Set("CFGVER", v), LF>> : v \in {"1", "2", "257", "A"}}

MCStrLen == [s \in Values \cup {Spoilt, "LBoot"} |-> Len(s)]

MCMemMaps == {<<>>, <<[base |-> 0, type |-> 1], [base |-> 1, type |-> 2], [base |-> 2, type |-> 3]>>}

MCRsdps ==
  {[found |-> FALSE, revision |-> 0, v1 |-> FALSE, v2 |-> FALSE],
   [found |-> TRUE, revision |-> 0, v1 |-> TRUE, v2 |-> FALSE],
   [found |-> TRUE, revision |-> 2, v1 |-> TRUE, v2 |-> TRUE],
   [found |-> TRUE, revision |-> 2, v1 |-> FALSE, v2 |-> TRUE]}
=============================================================================
